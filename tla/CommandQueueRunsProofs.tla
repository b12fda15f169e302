----------------------- MODULE CommandQueueRunsProofs -----------------------
(***************************************************************************)
(* Theorems about CommandQueue: every command is executed once, after the  *)
(* events it waits for, and is not deleted meanwhile.                      *)
(*                                                                         *)
(* They need more than the books (CommandQueueProofs): no flush may begin  *)
(* while the application waits for an event (SafeWaits).  Then a call of   *)
(* execute waits for earlier commands only, so the commands on the call    *)
(* stack are in the order of the enqueueing (InTurn), none of them twice,  *)
(* and a command that is waited for is complete when its execute returns.  *)
(***************************************************************************)
EXTENDS CommandQueueProofs

(* The application keeps the events that its wait lists name, and calls    *)
(* nothing that flushes inside the callbacks of an event it waits for.     *)
SafeWaits ==
  usage.wait =>
    usage.hold /\ usage.inCallback \cap {"flush", "releaseEvent", "releaseQueue"} = {}

-----------------------------------------------------------------------------
(* a comes before b in q. *)
Before(q, a, b) == \E i, j \in DOMAIN q : i < j /\ q[i] = a /\ q[j] = b

(* f is a call that g makes. *)
CalledBy(f, g) ==
  \/ f.fn = "flush" /\ g.fn = "release"
  \/ f.fn = "exec" /\ g.fn = "flush"
  \/ f.fn = "exec" /\ g.fn = "exec" /\ g.pc = "release" /\ g.dep = f.c
  \/ f.fn = "callback" /\ g.fn = "exec" /\ g.pc \in {"run", "impl", "done"}

Chained(s) == \A i \in DOMAIN s : i + 1 \in DOMAIN s => CalledBy(s[i], s[i + 1])

(* Every call of execute is for an earlier command than those below it. *)
InTurn(q, s) ==
  \A i, j \in DOMAIN s : i < j /\ s[i].fn = "exec" /\ s[j].fn = "exec"
                           => Before(q, s[i].c, s[j].c)

(* The status of a command that is being executed. *)
StatusAt(pc) ==
  CASE pc \in {"waits", "release", "submit"} -> {"queued"}
    [] pc = "run" -> {"submitted"}
    [] pc = "impl" -> {"running"}
    [] pc = "done" -> {"complete"}
    [] OTHER -> {"queued", "complete"}

(* A command is executed by a flush or a wait, and is not deleted before   *)
(* it is complete; an event is waited for while the application holds it.  *)
RunOK(f) ==
  /\ f.fn \in {"exec", "callback"} => flushing \/ usage.wait
  /\ f.fn = "exec" =>
       /\ f.pc # "done" => f.c \in alive
       /\ status[f.c] \in StatusAt(f.pc)
       /\ f.pc = "release" => /\ Before(enqueued, f.dep, f.c)
                              /\ usage.wait => appEvent[f.dep] > 0
       /\ ~outOfOrder => f.pc \notin {"waits", "release"}
       /\ ~outOfOrder /\ ~usage.wait => f.c \notin ToSet(commands)

Executing(c, s) == \E f \in ToSet(s) : f.fn = "exec" /\ f.c = c
Awaited(c, e, s) ==
  \E f \in ToSet(s) : f.fn = "exec" /\ f.c = c /\ f.pc = "release" /\ f.dep = e

(* When the call for an awaited command has returned, that is complete. *)
AnswerInv == InExec("release") => status[Top.dep] = "complete"

(* A command has waited for what its list names no longer, or does so now. *)
RunInv(c) ==
  /\ status[c] \in {"submitted", "running"} => Executing(c, stack)
  /\ \A e \in ToSet(waitList[c]) : /\ Before(enqueued, e, c)
                                   /\ usage.wait => appEvent[e] > 0
  /\ outOfOrder => \A e \in ToSet(deps[c]) : \/ status[e] = "complete"
                                             \/ e \in ToSet(waitList[c])
                                             \/ Awaited(c, e, stack)
  /\ ran[c] = Count(status[c] = "complete")

(* The queue that is flushed is kept by the application or by the call     *)
(* that releases it.                                                       *)
KeptInv ==
  "releaseQueue" \notin usage.inCallback /\ flushing
    => appQueue > 0 \/ Calls(Of("release"), stack) > 0

(* An in-order queue that is never waited on has taken and executed its    *)
(* first commands, all but the one that it is at.                          *)
taken == Len(enqueued) - Len(commands)

OrderInv ==
  ~outOfOrder /\ ~usage.wait =>
    /\ Len(commands) <= Len(enqueued)
    /\ \A i \in DOMAIN commands : /\ commands[i] = enqueued[taken + i]
                                  /\ status[commands[i]] = "queued"
    /\ \A i \in 1 .. taken : \/ status[enqueued[i]] = "complete"
                             \/ i = taken /\ Executing(enqueued[i], stack)

Turns ==
  /\ Chained(stack) /\ InTurn(enqueued, stack) /\ (\A f \in ToSet(stack) : RunOK(f))
  /\ AnswerInv /\ (\A c \in Commands : RunInv(c)) /\ KeptInv /\ OrderInv

-----------------------------------------------------------------------------
(* The order of the enqueueing.                                            *)
LEMMA BeforeFacts ==
  ASSUME NEW S, NEW q \in Seq(S), IsInjective(q), NEW a, NEW b, Before(q, a, b)
  PROVE  /\ a # b /\ ~Before(q, b, a)
         /\ \A c : Before(q, b, c) => Before(q, a, c)
<1>1. DOMAIN q = 1 .. Len(q) /\ Len(q) \in Nat
  BY LenProperties
<1>2. PICK i \in DOMAIN q, j \in DOMAIN q : i < j /\ q[i] = a /\ q[j] = b
  BY DEF Before
<1>3. \A k \in DOMAIN q : (q[k] = a => k = i) /\ (q[k] = b => k = j)
  BY <1>2 DEF IsInjective
<1>4. i \in Nat /\ j \in Nat /\ \A k \in DOMAIN q : k \in Nat
  BY <1>1
<1>5. a # b
  BY <1>2, <1>3, <1>4
<1>6. ~Before(q, b, a)
  BY <1>2, <1>3, <1>4 DEF Before
<1>7. ASSUME NEW c, Before(q, b, c) PROVE Before(q, a, c)
  <2>1. PICK k \in DOMAIN q, l \in DOMAIN q : k < l /\ q[k] = b /\ q[l] = c
    BY <1>7 DEF Before
  <2>2. i < l
    BY <1>2, <1>3, <1>4, <2>1
  <2>. QED  BY <1>2, <2>1, <2>2 DEF Before
<1>. QED  BY <1>5, <1>6, <1>7

LEMMA BeforeAppend ==
  ASSUME NEW S, NEW q \in Seq(S), NEW c \in S
  PROVE  /\ \A a, b : Before(q, a, b) => Before(Append(q, c), a, b)
         /\ \A a \in ToSet(q) : Before(Append(q, c), a, c)
<1>. DEFINE r == Append(q, c)
<1>1. /\ r \in Seq(S) /\ Len(r) = Len(q) + 1 /\ Len(q) \in Nat /\ DOMAIN q = 1 .. Len(q)
      /\ \A i \in 1 .. Len(q) : r[i] = q[i]
      /\ r[Len(q) + 1] = c
  BY AppendProperties, LenProperties
<1>2. DOMAIN r = 1 .. Len(q) + 1
  BY <1>1, LenProperties
<1>. HIDE DEF r
<1>3. \A i \in DOMAIN q : i \in DOMAIN r /\ i < Len(q) + 1 /\ r[i] = q[i]
  BY <1>1, <1>2
<1>4. ASSUME NEW a, NEW b, Before(q, a, b) PROVE Before(r, a, b)
  BY <1>3, <1>4 DEF Before
<1>5. ASSUME NEW a \in ToSet(q) PROVE Before(r, a, c)
  <2>1. Len(q) + 1 \in DOMAIN r
    BY <1>1, <1>2
  <2>. QED  BY <1>1, <1>3, <2>1 DEF Before, ToSet
<1>. QED  BY <1>4, <1>5 DEF r

-----------------------------------------------------------------------------
(* Calls on the stack.                                                     *)
LEMMA PushFrame ==
  ASSUME NEW s \in Seq(Frames), NEW f \in Frames
  PROVE  ToSet(Push(f, s)) = {f} \cup ToSet(s) /\ Push(f, s)[1] = f /\ Push(f, s) \in Seq(Frames)
  BY PushFacts

LEMMA ChainedPush ==
  ASSUME NEW s \in Seq(Frames), NEW f \in Frames
  PROVE  Chained(Push(f, s)) <=> Chained(s) /\ (s # <<>> => CalledBy(f, s[1]))
<1>. DEFINE t == Push(f, s)
<1>1. DOMAIN s = 1 .. Len(s) /\ Len(s) \in Nat
  BY PushFacts
<1>2. DOMAIN t = 1 .. Len(s) + 1 /\ t[1] = f
  BY PushFacts
<1>3. \A i \in DOMAIN s : t[i + 1] = s[i]
  BY PushFacts
<1>4. s # <<>> <=> 1 \in DOMAIN s
  BY <1>1, EmptySeq
<1>. HIDE DEF t
<1>5. ASSUME Chained(t) PROVE Chained(s) /\ (s # <<>> => CalledBy(f, s[1]))
  <2>1. ASSUME NEW i \in DOMAIN s, i + 1 \in DOMAIN s PROVE CalledBy(s[i], s[i + 1])
    <3>1. i + 1 \in DOMAIN t /\ (i + 1) + 1 \in DOMAIN t
      BY <1>1, <1>2, <2>1
    <3>2. CalledBy(t[i + 1], t[(i + 1) + 1])
      BY <1>5, <3>1 DEF Chained
    <3>. QED  BY <1>3, <2>1, <3>2
  <2>2. s # <<>> => CalledBy(f, s[1])
    <3>. SUFFICES ASSUME s # <<>> PROVE CalledBy(f, s[1])
      OBVIOUS
    <3>1. 1 \in DOMAIN t /\ 1 + 1 \in DOMAIN t /\ t[1 + 1] = s[1]
      BY <1>1, <1>2, <1>3, <1>4
    <3>. QED  BY <1>2, <1>5, <3>1 DEF Chained
  <2>. QED  BY <2>1, <2>2 DEF Chained
<1>6. ASSUME Chained(s), s # <<>> => CalledBy(f, s[1]) PROVE Chained(t)
  <2>. SUFFICES ASSUME NEW i \in DOMAIN t, i + 1 \in DOMAIN t PROVE CalledBy(t[i], t[i + 1])
    BY DEF Chained
  <2>1. CASE i = 1
    <3>1. 1 \in DOMAIN s /\ t[i + 1] = s[1]
      BY <1>1, <1>2, <1>3, <2>1
    <3>. QED  BY <1>2, <1>4, <1>6, <2>1, <3>1
  <2>2. CASE i # 1
    <3>. DEFINE j == i - 1
    <3>1. j \in DOMAIN s /\ j + 1 \in DOMAIN s /\ j + 1 = i
      BY <1>1, <1>2, <2>2
    <3>2. t[i] = s[j] /\ t[i + 1] = s[j + 1]
      BY <1>3, <3>1
    <3>. QED  BY <1>6, <3>1, <3>2 DEF Chained
  <2>. QED  BY <2>1, <2>2
<1>. QED  BY <1>5, <1>6 DEF t

LEMMA InTurnPush ==
  ASSUME NEW s \in Seq(Frames), NEW f \in Frames, NEW q
  PROVE  InTurn(q, Push(f, s)) <=>
           /\ InTurn(q, s)
           /\ f.fn = "exec" => \A g \in ToSet(s) : g.fn = "exec" => Before(q, f.c, g.c)
<1>. DEFINE t == Push(f, s)
<1>1. DOMAIN s = 1 .. Len(s) /\ Len(s) \in Nat
  BY PushFacts
<1>2. DOMAIN t = 1 .. Len(s) + 1 /\ t[1] = f
  BY PushFacts
<1>a. \A i \in DOMAIN s : t[i + 1] = s[i]
  BY PushFacts
<1>3. \A i \in DOMAIN s : t[i + 1] = s[i] /\ i + 1 \in DOMAIN t /\ 1 < i + 1 /\ 1 \in DOMAIN t
  <2>. HIDE DEF t
  <2>. QED  BY <1>1, <1>2, <1>a
<1>4. \A i \in DOMAIN t : i = 1 \/ (i - 1 \in DOMAIN s /\ t[i] = s[i - 1])
  BY PushFacts
<1>. HIDE DEF t
<1>5. ASSUME InTurn(q, t)
      PROVE  /\ InTurn(q, s)
             /\ f.fn = "exec" => \A g \in ToSet(s) : g.fn = "exec" => Before(q, f.c, g.c)
  <2>1. ASSUME NEW i \in DOMAIN s, NEW j \in DOMAIN s, i < j, s[i].fn = "exec", s[j].fn = "exec"
        PROVE  Before(q, s[i].c, s[j].c)
    <3>1. i + 1 < j + 1
      BY <1>1, <2>1
    <3>. QED  BY <1>3, <1>5, <2>1, <3>1 DEF InTurn
  <2>2. ASSUME f.fn = "exec", NEW j \in DOMAIN s, s[j].fn = "exec" PROVE Before(q, f.c, s[j].c)
    BY <1>2, <1>3, <1>5, <2>2 DEF InTurn
  <2>. QED  BY <2>1, <2>2 DEF InTurn, ToSet
<1>6. ASSUME InTurn(q, s), f.fn = "exec" => \A g \in ToSet(s) : g.fn = "exec" => Before(q, f.c, g.c)
      PROVE  InTurn(q, t)
  <2>. SUFFICES ASSUME NEW i \in DOMAIN t, NEW j \in DOMAIN t, i < j,
                       t[i].fn = "exec", t[j].fn = "exec"
                PROVE  Before(q, t[i].c, t[j].c)
    BY DEF InTurn
  <2>1. j # 1
    BY <1>1, <1>2
  <2>2. j - 1 \in DOMAIN s /\ t[j] = s[j - 1]
    BY <1>4, <2>1
  <2>3. CASE i = 1
    BY <1>2, <1>6, <2>2, <2>3 DEF ToSet
  <2>4. CASE i # 1
    <3>1. i - 1 \in DOMAIN s /\ t[i] = s[i - 1] /\ i - 1 < j - 1
      BY <1>1, <1>2, <1>4, <2>4
    <3>. QED  BY <1>6, <2>2, <3>1 DEF InTurn
  <2>. QED  BY <2>3, <2>4
<1>. QED  BY <1>5, <1>6 DEF t

(* Nothing executes below a flush, and nothing at all is below a release.  *)
LEMMA OnlyReleases ==
  ASSUME NEW s \in Seq(Frames), NEW f \in Frames, Chained(Push(f, s)), f.fn \in {"flush", "release"}
  PROVE  /\ \A g \in ToSet(s) : g.fn = "release"
         /\ f.fn = "release" => s = <<>>
<1>1. s # <<>> => CalledBy(f, s[1])
  BY ChainedPush
<1>2. CASE s = <<>>
  BY <1>2 DEF ToSet
<1>3. CASE s # <<>>
  <2>1. f.fn = "flush" /\ s[1].fn = "release"
    BY <1>1, <1>3 DEF CalledBy
  <2>2. DOMAIN s = 1 .. Len(s) /\ Len(s) \in Nat /\ Len(s) # 0
    BY <1>3, LenProperties, EmptySeq
  <2>3. Chained(s)
    BY ChainedPush
  <2>4. 2 \notin DOMAIN s
    <3>. SUFFICES ASSUME 2 \in DOMAIN s PROVE FALSE
      OBVIOUS
    <3>1. 1 \in DOMAIN s /\ 1 + 1 \in DOMAIN s
      BY <2>2
    <3>2. CalledBy(s[1], s[1 + 1])
      BY <2>3, <3>1 DEF Chained
    <3>. QED  BY <2>1, <3>2 DEF CalledBy
  <2>5. \A i \in DOMAIN s : i = 1
    BY <2>2, <2>4
  <2>. QED  BY <2>1, <2>5 DEF ToSet
<1>. QED  BY <1>2, <1>3

LEMMA TopTurn ==
  ASSUME Books, Turns, stack # <<>>
  PROVE  /\ Top \in Frames /\ Below \in Seq(Frames) /\ stack = Push(Top, Below)
         /\ ToSet(stack) = {Top} \cup ToSet(Below)
         /\ Chained(Below) /\ InTurn(enqueued, Below) /\ RunOK(Top)
         /\ Below # <<>> => CalledBy(Top, Below[1])
         /\ Top.fn = "exec" =>
              \A g \in ToSet(Below) : g.fn = "exec" => Before(enqueued, Top.c, g.c)
         /\ \A g \in ToSet(stack) : g \in Frames /\ RunOK(g)
<1>1. TypeOK
  BY DEF Books
<1>2. Top \in Frames /\ Below \in Seq(Frames) /\ stack = Push(Top, Below)
  BY <1>1, TopFacts
<1>3. ToSet(stack) = {Top} \cup ToSet(Below)
  BY <1>1, TopFacts
<1>4. RunOK(Top)
  BY <1>3 DEF Turns
<1>5. Chained(stack) /\ InTurn(enqueued, stack)
  BY DEF Turns
<1>6. \A g \in ToSet(stack) : g \in Frames /\ RunOK(g)
  <2>1. stack \in Seq(Frames)
    BY <1>1 DEF TypeOK
  <2>. QED  BY <2>1, ElementOfSeq, LenProperties DEF ToSet, Turns
<1>. DEFINE f == Top
            b == Below
<1>7. f \in Frames /\ b \in Seq(Frames) /\ Chained(Push(f, b)) /\ InTurn(enqueued, Push(f, b))
  BY <1>2, <1>5
<1>. HIDE DEF f, b
<1>8. Chained(b) /\ (b # <<>> => CalledBy(f, b[1]))
  BY <1>7, ChainedPush
<1>9. /\ InTurn(enqueued, b)
      /\ f.fn = "exec" => \A g \in ToSet(b) : g.fn = "exec" => Before(enqueued, f.c, g.c)
  BY <1>7, InTurnPush
<1>. QED  BY <1>2, <1>3, <1>4, <1>6, <1>8, <1>9 DEF f, b

(* The innermost execute is not for the command of another one. *)
LEMMA ExecTurn ==
  ASSUME Books, Turns, NEW pc, InExec(pc)
  PROVE  /\ stack # <<>> /\ Top.fn = "exec" /\ Top.pc = pc /\ Top \in Of("exec")
         /\ Top.c \in Commands /\ Top.dep \in Commands
         /\ \A g \in ToSet(Below) : g.fn = "exec" =>
              g.c # Top.c /\ Before(enqueued, Top.c, g.c)
         /\ status[Top.c] \in StatusAt(pc)
         /\ pc # "done" => Top.c \in alive
<1>1. /\ stack # <<>> /\ Top.fn = "exec" /\ Top.pc = pc /\ Top \in Of("exec")
      /\ Top.c \in Commands /\ Top.dep \in Commands
  BY ExecTop DEF InExec
<1>2. RunOK(Top)
  BY <1>1, TopTurn
<1>3. \A g \in ToSet(Below) : g.fn = "exec" => Before(enqueued, Top.c, g.c)
  BY <1>1, TopTurn
<1>4. enqueued \in Seq(Commands) /\ IsInjective(enqueued)
  BY DEF Books, TypeOK, KnownInv
<1>5. \A g \in ToSet(Below) : g.fn = "exec" => g.c # Top.c
  BY <1>3, <1>4, BeforeFacts
<1>. QED  BY <1>1, <1>2, <1>3, <1>5 DEF RunOK

(* What a step has to keep for a call that goes on below it. *)
LEMMA RunStays ==
  ASSUME usage' = usage, outOfOrder' = outOfOrder, NEW f \in Frames, RunOK(f),
         f.fn \in {"exec", "callback"} => (flushing => flushing'),
         f.fn = "exec" =>
           /\ f.c \in alive => f.c \in alive'
           /\ status'[f.c] = status[f.c]
           /\ Before(enqueued, f.dep, f.c) => Before(enqueued', f.dep, f.c)
           /\ f.pc = "release" /\ usage.wait /\ appEvent[f.dep] > 0 => appEvent'[f.dep] > 0
           /\ f.c \in ToSet(commands') => f.c \in ToSet(commands)
  PROVE  RunOK(f)'
<1>1. CASE f.fn = "exec"
  BY <1>1 DEF RunOK
<1>2. CASE f.fn # "exec"
  BY <1>2 DEF RunOK
<1>. QED  BY <1>1, <1>2

LEMMA AnswerOfPush ==
  ASSUME NEW s \in Seq(Frames), NEW f \in Frames, stack' = Push(f, s),
         f.fn = "exec" /\ f.pc = "release" => status'[f.dep] = "complete"
  PROVE  AnswerInv'
<1>1. stack'[1] = f
  BY PushFacts
<1>. QED  BY <1>1 DEF AnswerInv, InExec, Top

LEMMA AnswerOfPop ==
  ASSUME Books, Turns, stack # <<>>, stack' = Below, status' = status,
         Top.fn = "exec" => status[Top.c] = "complete"
  PROVE  AnswerInv'
<1>1. Below # <<>> => CalledBy(Top, Below[1])
  BY TopTurn
<1>. DEFINE g == Below[1]
<1>2. SUFFICES ASSUME Below # <<>>, g.fn = "exec", g.pc = "release"
               PROVE  status[g.dep] = "complete"
  BY DEF AnswerInv, InExec, Top
<1>3. Top.fn = "exec" /\ g.dep = Top.c
  BY <1>1, <1>2 DEF CalledBy
<1>. QED  BY <1>3

LEMMA OrderFacts ==
  ASSUME Books, Turns, ~outOfOrder, ~usage.wait
  PROVE  /\ Len(commands) \in Nat /\ Len(enqueued) \in Nat /\ taken \in Nat
         /\ taken + Len(commands) = Len(enqueued)
         /\ DOMAIN commands = 1 .. Len(commands) /\ DOMAIN enqueued = 1 .. Len(enqueued)
         /\ \A i \in DOMAIN commands : /\ commands[i] = enqueued[taken + i]
                                       /\ status[commands[i]] = "queued"
                                       /\ commands[i] \in Commands
         /\ \A i \in 1 .. taken : /\ \/ status[enqueued[i]] = "complete"
                                     \/ i = taken /\ Executing(enqueued[i], stack)
                                  /\ i \in DOMAIN enqueued /\ enqueued[i] \in Commands
<1>1. enqueued \in Seq(Commands) /\ commands \in Seq(Commands)
  BY DEF Books, TypeOK
<1>2. /\ Len(commands) \in Nat /\ Len(enqueued) \in Nat
      /\ DOMAIN commands = 1 .. Len(commands) /\ DOMAIN enqueued = 1 .. Len(enqueued)
      /\ \A i \in DOMAIN commands : commands[i] \in Commands
      /\ \A i \in DOMAIN enqueued : enqueued[i] \in Commands
  BY <1>1, ElementOfSeq, LenProperties
<1>a. OrderInv /\ ~outOfOrder /\ ~usage.wait
  BY DEF Turns
<1>b. Len(commands) <= Len(enqueued)
  BY <1>a DEF OrderInv
<1>c. \A i \in DOMAIN commands : /\ commands[i] = enqueued[taken + i]
                                 /\ status[commands[i]] = "queued"
  BY <1>a DEF OrderInv
<1>3. \A i \in 1 .. taken : \/ status[enqueued[i]] = "complete"
                            \/ i = taken /\ Executing(enqueued[i], stack)
  BY <1>a DEF OrderInv
<1>4. taken \in Nat /\ taken + Len(commands) = Len(enqueued)
  BY <1>2, <1>b DEF taken
<1>5. \A i \in 1 .. taken : i \in DOMAIN enqueued
  BY <1>2, <1>4
<1>. QED  BY <1>2, <1>3, <1>4, <1>5, <1>c

LEMMA OrderStays ==
  ASSUME Books, Turns, usage' = usage, outOfOrder' = outOfOrder, commands' = commands,
         enqueued' = enqueued,
         \A c \in Commands :
           /\ status[c] = "complete" => status'[c] = "complete"
           /\ ~outOfOrder /\ ~usage.wait /\ c \in ToSet(commands) => status'[c] = status[c]
           /\ Executing(c, stack) => status'[c] = "complete" \/ Executing(c, stack')
  PROVE  OrderInv'
<1>. SUFFICES ASSUME ~outOfOrder, ~usage.wait PROVE OrderInv'
  BY DEF OrderInv
<1>1. /\ \A i \in DOMAIN commands : /\ commands[i] = enqueued[taken + i]
                                    /\ status[commands[i]] = "queued"
                                    /\ commands[i] \in Commands
      /\ \A i \in 1 .. taken : /\ \/ status[enqueued[i]] = "complete"
                                  \/ i = taken /\ Executing(enqueued[i], stack)
                               /\ i \in DOMAIN enqueued /\ enqueued[i] \in Commands
  BY OrderFacts
<1>2. taken' = taken /\ Len(commands) <= Len(enqueued)
  BY DEF taken, Turns, OrderInv
<1>3. \A i \in DOMAIN commands : status'[commands[i]] = "queued"
  BY <1>1 DEF ToSet
<1>4. \A i \in 1 .. taken : \/ status'[enqueued[i]] = "complete"
                            \/ i = taken /\ Executing(enqueued[i], stack')
  BY <1>1
<1>. QED  BY <1>1, <1>2, <1>3, <1>4 DEF OrderInv

-----------------------------------------------------------------------------
(* The innermost call returns, and has completed its command.              *)
LEMMA ReturnsInTurn ==
  ASSUME Books, Books', Turns, stack # <<>>, stack' = Below,
         usage' = usage, outOfOrder' = outOfOrder, commands' = commands, status' = status,
         alive' = alive, waitList' = waitList, appEvent' = appEvent, appQueue' = appQueue,
         enqueued' = enqueued, deps' = deps, ran' = ran,
         Top.fn = "exec" => status[Top.c] = "complete" /\ Top.pc # "release",
         flushing' = (IF Top.fn = "flush" THEN FALSE ELSE flushing)
  PROVE  Turns'
<1>1. /\ Top \in Frames /\ Below \in Seq(Frames) /\ stack = Push(Top, Below)
      /\ ToSet(stack) = {Top} \cup ToSet(Below)
      /\ Chained(Below) /\ InTurn(enqueued, Below)
      /\ \A g \in ToSet(stack) : g \in Frames /\ RunOK(g)
  BY TopTurn
<1>2. Chained(stack') /\ InTurn(enqueued', stack')
  BY <1>1
<1>3. Top.fn \in {"flush", "release"} => /\ \A g \in ToSet(Below) : g.fn = "release"
                                         /\ Top.fn = "release" => Below = <<>>
  <2>. DEFINE f == Top
              b == Below
  <2>1. f \in Frames /\ b \in Seq(Frames) /\ Chained(Push(f, b))
    BY <1>1 DEF Turns
  <2>. HIDE DEF f, b
  <2>2. f.fn \in {"flush", "release"} => /\ \A g \in ToSet(b) : g.fn = "release"
                                         /\ f.fn = "release" => b = <<>>
    BY <2>1, OnlyReleases
  <2>. QED  BY <2>2 DEF f, b
<1>4. \A f \in ToSet(stack') : RunOK(f)'
  <2>. SUFFICES ASSUME NEW f \in ToSet(Below) PROVE RunOK(f)'
    OBVIOUS
  <2>1. f \in Frames /\ RunOK(f)
    BY <1>1
  <2>2. f.fn \in {"exec", "callback"} => (flushing => flushing')
    BY <1>3
  <2>. QED  BY <2>1, <2>2, RunStays
<1>5. AnswerInv'
  BY AnswerOfPop
<1>6. ASSUME NEW c \in Commands PROVE RunInv(c)'
  <2>1. RunInv(c)
    BY DEF Turns
  <2>2. status[c] \in {"submitted", "running"} => Executing(c, stack')
    BY <1>1, <2>1 DEF RunInv, Executing
  <2>3. \A e : Awaited(c, e, stack) => Awaited(c, e, stack')
    BY <1>1 DEF Awaited
  <2>. QED  BY <2>1, <2>2, <2>3 DEF RunInv
<1>7. KeptInv'
  <2>1. CASE Top.fn = "flush"
    BY <2>1 DEF KeptInv
  <2>2. CASE Top.fn = "release"
    <3>1. stack' = <<>>
      BY <1>3, <2>2
    <3>2. Calls(Of("flush"), stack') = 0
      BY <3>1, NoCalls
    <3>3. ~flushing'
      BY <3>2 DEF Books, FlushInv, Count
    <3>. QED  BY <3>3 DEF KeptInv
  <2>3. CASE Top.fn \notin {"flush", "release"}
    <3>. DEFINE f == Top
                b == Below
    <3>1. f \in Frames /\ b \in Seq(Frames) /\ stack = Push(f, b) /\ f \notin Of("release")
      BY <1>1, <2>3 DEF Of
    <3>. HIDE DEF f, b
    <3>2. Calls(Of("release"), stack) = Calls(Of("release"), b) + Count(f \in Of("release"))
      BY <3>1, CallsOfPush
    <3>3. Calls(Of("release"), b) \in Nat
      BY <3>1, CallsType
    <3>4. Calls(Of("release"), stack) = Calls(Of("release"), b)
      BY <3>1, <3>2, <3>3 DEF Count
    <3>5. Calls(Of("release"), stack) = Calls(Of("release"), stack')
      BY <3>4 DEF b
    <3>. QED  BY <2>3, <3>5 DEF KeptInv, Turns
  <2>. QED  BY <2>1, <2>2, <2>3
<1>8. OrderInv'
  <2>1. \A c \in Commands : Executing(c, stack) => status[c] = "complete" \/ Executing(c, stack')
    BY <1>1 DEF Executing
  <2>. QED  BY <2>1, OrderStays
<1>. QED  BY <1>2, <1>4, <1>5, <1>6, <1>7, <1>8 DEF Turns

(* The innermost execute goes on with its command, for which the event it  *)
(* has waited for, if any, is complete.                                    *)
LEMMA GoesOnInTurn ==
  ASSUME Books, Turns, NEW pc, InExec(pc), pc # "done",
         NEW next \in {"waits", "submit", "run", "impl", "done"},
         stack' = ExecAt(next) \/ (stack' = Push(CallbackFrame, ExecAt(next))
                                   /\ next \in {"run", "impl", "done"}),
         usage' = usage, outOfOrder' = outOfOrder, commands' = commands, flushing' = flushing,
         alive' = alive, waitList' = waitList, appEvent' = appEvent, appQueue' = appQueue,
         enqueued' = enqueued, deps' = deps,
         NEW v \in StatusAt(next), status' = [status EXCEPT ![Top.c] = v],
         status[Top.c] # "complete",
         ran' = [ran EXCEPT ![Top.c] = Count(v = "complete")],
         ~outOfOrder => next # "waits"
  PROVE  Turns'
<1>. DEFINE h == Top
            b == Below
            g == [h EXCEPT !.pc = next]
            t == Push(g, b)
            c == h.c
<1>1. /\ h \in Of("exec") /\ h.fn = "exec" /\ h.pc = pc /\ c \in Commands /\ h.dep \in Commands
      /\ c \in alive /\ stack # <<>>
      /\ \A x \in ToSet(b) : x.fn = "exec" => x.c # c /\ Before(enqueued, c, x.c)
  BY ExecTurn
<1>2. /\ b \in Seq(Frames) /\ stack = Push(h, b) /\ ToSet(stack) = {h} \cup ToSet(b)
      /\ Chained(b) /\ InTurn(enqueued, b) /\ (b # <<>> => CalledBy(h, b[1]))
      /\ \A x \in ToSet(stack) : x \in Frames /\ RunOK(x)
  BY <1>1, TopTurn
<1>3. stack' = t \/ (stack' = Push(CallbackFrame, t) /\ next \in {"run", "impl", "done"})
  BY DEF ExecAt
<1>4. next \in Pcs
  BY DEF Pcs
<1>5. h.pc = "release" => status[h.dep] = "complete"
  BY <1>1 DEF Turns, AnswerInv
<1>6. status \in [Commands -> Statuses \cup {"none", "queued"}] /\ ran \in [Commands -> Nat]
  BY DEF Books, TypeOK
<1>7. \A x \in Commands : /\ x # c => status'[x] = status[x] /\ ran'[x] = ran[x]
                          /\ status'[c] = v /\ ran'[c] = Count(v = "complete")
                          /\ status[x] = "complete" => status'[x] = "complete"
  BY <1>1, <1>6
<1>8. RunOK(h)
  BY <1>2
<1>. HIDE DEF h, b
<1>9. g \in Of("exec") /\ g.c = c /\ g.pc = next /\ g.dep = h.dep /\ g.fn = "exec"
  <2>1. g \in Of("exec") /\ g.c = c /\ g.pc = next /\ g.dep = h.dep
    BY <1>1, <1>4, PcUpdate
  <2>. QED  BY <2>1 DEF Of
<1>10. g \in Frames /\ next # "release" /\ next # "start"
  BY <1>9 DEF Of
<1>. HIDE DEF g, c
<1>11. /\ t \in Seq(Frames) /\ ToSet(t) = {g} \cup ToSet(b) /\ t # <<>> /\ t[1] = g
  BY <1>2, <1>10, PushFacts
<1>12. Chained(t) /\ InTurn(enqueued, t)
  <2>1. b # <<>> => CalledBy(g, b[1])
    BY <1>1, <1>2, <1>9 DEF CalledBy, c
  <2>2. Chained(t)
    BY <1>2, <1>10, <2>1, ChainedPush
  <2>3. InTurn(enqueued, t)
    BY <1>1, <1>2, <1>9, <1>10, InTurnPush
  <2>. QED  BY <2>2, <2>3
<1>. HIDE DEF t
<1>13. CallbackFrame \in Frames /\ CallbackFrame.fn = "callback"
  BY FrameTypes
<1>14. Chained(stack') /\ InTurn(enqueued, stack')
  <2>1. CASE stack' = t
    BY <1>12, <2>1
  <2>2. CASE stack' = Push(CallbackFrame, t) /\ next \in {"run", "impl", "done"}
    <3>1. CalledBy(CallbackFrame, t[1])
      BY <1>9, <1>11, <1>13, <2>2 DEF CalledBy
    <3>2. Chained(stack')
      BY <1>11, <1>12, <1>13, <2>2, <3>1, ChainedPush
    <3>3. InTurn(enqueued, stack')
      BY <1>11, <1>12, <1>13, <2>2, InTurnPush
    <3>. QED  BY <3>2, <3>3
  <2>. QED  BY <1>3, <2>1, <2>2
<1>15. /\ ToSet(stack') \subseteq {CallbackFrame, g} \cup ToSet(b)
       /\ {g} \cup ToSet(b) \subseteq ToSet(stack')
  <2>1. CASE stack' = t
    BY <1>11, <2>1
  <2>2. CASE stack' = Push(CallbackFrame, t)
    <3>. DEFINE k == CallbackFrame
    <3>a. k \in Frames /\ t \in Seq(Frames)
      BY <1>11, <1>13
    <3>. HIDE DEF k
    <3>1. ToSet(Push(k, t)) = {k} \cup ToSet(t)
      BY <3>a, PushFacts
    <3>. QED  BY <1>11, <2>2, <3>1 DEF k
  <2>. QED  BY <1>3, <2>1, <2>2
<1>16. ASSUME NEW f, f = g \/ f = CallbackFrame PROVE RunOK(f)'
  <2>1. flushing \/ usage.wait
    BY <1>1, <1>8 DEF RunOK
  <2>2. CASE f = CallbackFrame
    BY <1>13, <2>1, <2>2 DEF RunOK
  <2>3. c \in alive /\ (~outOfOrder /\ ~usage.wait => c \notin ToSet(commands))
    BY <1>1, <1>8 DEF RunOK, c
  <2>4. status'[c] \in StatusAt(next)
    BY <1>1, <1>7
  <2>5. CASE f = g
    BY <1>9, <1>10, <2>1, <2>3, <2>4, <2>5 DEF RunOK
  <2>. QED  BY <1>16, <2>2, <2>5
<1>17. ASSUME NEW f \in ToSet(stack') PROVE RunOK(f)'
  <2>1. CASE f \in ToSet(b)
    <3>1. f \in Frames /\ RunOK(f) /\ (f.fn = "exec" => f.c \in Commands /\ f.c # c)
      BY <1>1, <1>2, <2>1, FrameTypes DEF Of
    <3>2. f.fn = "exec" => status'[f.c] = status[f.c]
      BY <1>7, <3>1
    <3>. QED  BY <3>1, <3>2, RunStays
  <2>. QED  BY <1>15, <1>16, <2>1
<1>18. AnswerInv'
  <2>1. CASE stack' = t
    BY <1>2, <1>9, <1>10, <2>1, AnswerOfPush DEF t
  <2>2. CASE stack' = Push(CallbackFrame, t)
    BY <1>11, <1>13, <2>2, AnswerOfPush
  <2>. QED  BY <1>3, <2>1, <2>2
<1>19. \A x : Executing(x, stack) => Executing(x, stack')
  BY <1>1, <1>2, <1>9, <1>15 DEF Executing, c
<1>20. ASSUME NEW x \in Commands PROVE RunInv(x)'
  <2>1. RunInv(x)
    BY DEF Turns
  <2>2. status'[x] \in {"submitted", "running"} => Executing(x, stack')
    <3>1. CASE x = c
      BY <1>9, <1>15, <3>1 DEF Executing
    <3>2. CASE x # c
      BY <1>7, <1>19, <2>1, <3>2 DEF RunInv
    <3>. QED  BY <3>1, <3>2
  <2>3. ran'[x] = Count(status'[x] = "complete")
    BY <1>7, <2>1 DEF RunInv
  <2>4. ASSUME outOfOrder, NEW e \in ToSet(deps[x])
        PROVE  status'[e] = "complete" \/ e \in ToSet(waitList[x]) \/ Awaited(x, e, stack')
    <3>1. e \in Commands
      BY ElementOfSeq, LenProperties DEF ToSet, Books, TypeOK
    <3>2. Awaited(x, e, stack) => Awaited(x, e, stack') \/ status[e] = "complete"
      BY <1>2, <1>5, <1>15 DEF Awaited
    <3>. QED  BY <1>7, <2>1, <2>4, <3>1, <3>2 DEF RunInv
  <2>. QED  BY <2>1, <2>2, <2>3, <2>4 DEF RunInv
<1>21. KeptInv'
  <2>1. Calls(Of("release"), stack') = Calls(Of("release"), stack)
    <3>1. h \notin Of("release") /\ g \notin Of("release") /\ CallbackFrame \notin Of("release")
      BY <1>1, <1>9, <1>13 DEF Of
    <3>2. Calls(Of("release"), b) \in Nat
      BY <1>2, CallsType
    <3>3. Calls(Of("release"), stack) = Calls(Of("release"), b) + 0
      BY <1>1, <1>2, <3>1, CallsOfPush DEF Of, Count
    <3>4. Calls(Of("release"), t) = Calls(Of("release"), b) + 0
      BY <1>2, <1>10, <3>1, CallsOfPush DEF Count, t
    <3>5. Calls(Of("release"), Push(CallbackFrame, t)) = Calls(Of("release"), t) + 0
      BY <1>11, <1>13, <3>1, CallsOfPush DEF Count
    <3>. QED  BY <1>3, <3>2, <3>3, <3>4, <3>5
  <2>. QED  BY <2>1 DEF KeptInv, Turns
<1>22. OrderInv'
  <2>1. ~outOfOrder /\ ~usage.wait => c \notin ToSet(commands)
    BY <1>1, <1>8 DEF RunOK, c
  <2>. QED  BY <1>7, <1>19, <2>1, OrderStays
<1>. QED  BY <1>14, <1>17, <1>18, <1>20, <1>21, <1>22 DEF Turns

-----------------------------------------------------------------------------
(* An execute calls that of an earlier command, or finds it complete.      *)
LEMMA ExecWaitInTurn ==
  ASSUME Books, Turns, ExecWait
  PROVE  Turns'
<1>. DEFINE h == Top
            b == Below
            c == h.c
            wl == waitList[c]
            e == Last(wl)
            g1 == [h EXCEPT !.pc = "release"]
            g == [g1 EXCEPT !.dep = e]
            t == Push(g, b)
<1>1. InExec("waits")
  BY DEF ExecWait
<1>2. /\ h \in Of("exec") /\ h.fn = "exec" /\ h.pc = "waits" /\ c \in Commands
      /\ c \in alive /\ stack # <<>> /\ status[c] = "queued"
      /\ \A x \in ToSet(b) : x.fn = "exec" => x.c # c /\ Before(enqueued, c, x.c)
  BY <1>1, ExecTurn DEF StatusAt
<1>3. /\ b \in Seq(Frames) /\ stack = Push(h, b) /\ ToSet(stack) = {h} \cup ToSet(b)
      /\ Chained(b) /\ InTurn(enqueued, b) /\ (b # <<>> => CalledBy(h, b[1]))
      /\ \A x \in ToSet(stack) : x \in Frames /\ RunOK(x)
  BY <1>2, TopTurn
<1>4. /\ wl # <<>> /\ waitList' = [waitList EXCEPT ![c] = Front(@)]
      /\ stack' = IF status[e] = "queued" THEN Push(ExecFrame(e), t) ELSE t
      /\ usage' = usage /\ outOfOrder' = outOfOrder /\ commands' = commands
      /\ flushing' = flushing /\ status' = status /\ alive' = alive /\ appEvent' = appEvent
      /\ appQueue' = appQueue /\ enqueued' = enqueued /\ deps' = deps /\ ran' = ran
  <2>1. [h EXCEPT !.pc = "release", !.dep = e] = g
    BY <1>2
  <2>. QED  BY <2>1 DEF ExecWait, fixed, queueVars, eventVars, appVars, history
<1>5. waitList \in [Commands -> Seq(Commands)] /\ enqueued \in Seq(Commands)
      /\ IsInjective(enqueued)
  BY DEF Books, TypeOK, KnownInv
<1>6. RunOK(h) /\ outOfOrder
  BY <1>2, <1>3, ExecTurn DEF RunOK
<1>7. wl \in Seq(Commands) /\ RunInv(c)
  BY <1>2, <1>5 DEF Turns
<1>. HIDE DEF h, b, wl
<1>8. e \in Commands /\ ToSet(wl) = {e} \cup ToSet(Front(wl))
  BY <1>4, <1>7, FrontFacts
<1>. HIDE DEF e
<1>9. waitList'[c] = Front(wl) /\ \A x \in Commands : x # c => waitList'[x] = waitList[x]
  BY <1>2, <1>4, <1>5 DEF wl
<1>10. Before(enqueued, e, c) /\ (usage.wait => appEvent[e] > 0)
  BY <1>7, <1>8 DEF RunInv, wl
<1>11. e # c /\ ~Before(enqueued, c, e) /\ \A x : Before(enqueued, c, x) => Before(enqueued, e, x)
  BY <1>5, <1>10, BeforeFacts
<1>12. g1 \in Of("exec") /\ g1.c = c /\ g1.pc = "release"
  <2>1. "release" \in Pcs
    BY DEF Pcs
  <2>. QED  BY <1>2, <2>1, PcUpdate
<1>. HIDE DEF g1
<1>13. g \in Of("exec") /\ g.c = c /\ g.pc = "release" /\ g.dep = e
  BY <1>8, <1>12, DepUpdate
<1>14. g \in Frames /\ g.fn = "exec"
  BY <1>13 DEF Of
<1>. HIDE DEF g, c
<1>15. t \in Seq(Frames) /\ ToSet(t) = {g} \cup ToSet(b) /\ t[1] = g
  BY <1>3, <1>14, PushFacts
<1>16. Chained(t) /\ InTurn(enqueued, t)
  <2>1. b # <<>> => CalledBy(g, b[1])
    BY <1>2, <1>3, <1>13, <1>14 DEF CalledBy, c
  <2>2. Chained(t)
    BY <1>3, <1>14, <2>1, ChainedPush
  <2>3. InTurn(enqueued, t)
    BY <1>2, <1>3, <1>13, <1>14, InTurnPush
  <2>. QED  BY <2>2, <2>3
<1>. HIDE DEF t
<1>. DEFINE k == ExecFrame(e)
<1>17. k \in Frames /\ k.fn = "exec" /\ k.c = e /\ k.pc = "start"
  BY <1>8, FrameTypes
<1>. HIDE DEF k
<1>18. Chained(stack') /\ InTurn(enqueued', stack')
  <2>1. CASE status[e] = "queued"
    <3>1. stack' = Push(k, t)
      BY <1>4, <2>1 DEF k
    <3>2. CalledBy(k, t[1])
      BY <1>13, <1>14, <1>15, <1>17 DEF CalledBy
    <3>3. Chained(Push(k, t))
      BY <1>15, <1>16, <1>17, <3>2, ChainedPush
    <3>4. \A x \in ToSet(t) : x.fn = "exec" => Before(enqueued, k.c, x.c)
      BY <1>2, <1>10, <1>11, <1>13, <1>15, <1>17
    <3>5. InTurn(enqueued, Push(k, t))
      BY <1>15, <1>16, <1>17, <3>4, InTurnPush
    <3>. QED  BY <1>4, <3>1, <3>3, <3>5
  <2>2. CASE status[e] # "queued"
    BY <1>4, <1>16, <2>2
  <2>. QED  BY <2>1, <2>2
<1>19. /\ {g} \cup ToSet(b) \subseteq ToSet(stack')
       /\ \A f \in ToSet(stack') : f \in ToSet(b) \/ f = g \/ (f = k /\ status[e] = "queued")
  <2>1. CASE status[e] = "queued"
    <3>1. stack' = Push(k, t)
      BY <1>4, <2>1 DEF k
    <3>2. k \in Frames /\ t \in Seq(Frames)
      BY <1>15, <1>17
    <3>3. ToSet(Push(k, t)) = {k} \cup ToSet(t)
      BY <3>2, PushFacts
    <3>. QED  BY <1>15, <2>1, <3>1, <3>3
  <2>2. CASE status[e] # "queued"
    BY <1>4, <1>15, <2>2
  <2>. QED  BY <2>1, <2>2
<1>20. ASSUME NEW f \in ToSet(stack') PROVE RunOK(f)'
  <2>1. CASE f \in ToSet(b)
    <3>1. f \in Frames /\ RunOK(f)
      BY <1>3, <2>1
    <3>. QED  BY <1>4, <3>1, RunStays
  <2>2. flushing \/ usage.wait
    BY <1>2, <1>6 DEF RunOK
  <2>3. CASE f = g
    BY <1>2, <1>4, <1>6, <1>10, <1>13, <1>14, <2>2, <2>3 DEF RunOK, StatusAt
  <2>4. CASE f = k /\ status[e] = "queued"
    <3>1. e \in alive
      BY <1>8, <2>4 DEF Books, StartedInv, Queued
    <3>. QED  BY <1>4, <1>6, <1>17, <2>2, <2>4, <3>1 DEF RunOK, StatusAt
  <2>. QED  BY <1>19, <2>1, <2>3, <2>4
<1>21. AnswerInv'
  <2>1. CASE status[e] = "queued"
    <3>1. stack' = Push(k, t)
      BY <1>4, <2>1 DEF k
    <3>. QED  BY <1>15, <1>17, <3>1, AnswerOfPush
  <2>2. CASE status[e] # "queued"
    <3>1. status[e] # "none"
      BY <1>2, <1>8 DEF Books, ListInv, wl
    <3>2. ~Executing(e, stack)
      BY <1>2, <1>3, <1>11 DEF Executing, c
    <3>3. status[e] \notin {"submitted", "running"}
      BY <1>8, <3>2 DEF Turns, RunInv
    <3>4. status[e] = "complete"
      BY <1>8, <2>2, <3>1, <3>3 DEF Books, TypeOK, Statuses
    <3>5. stack' = Push(g, b)
      BY <1>4, <2>2 DEF t
    <3>. QED  BY <1>3, <1>4, <1>13, <1>14, <3>4, <3>5, AnswerOfPush
  <2>. QED  BY <2>1, <2>2
<1>22. \A x : Executing(x, stack) => Executing(x, stack')
  BY <1>3, <1>13, <1>14, <1>19 DEF Executing, c
<1>23. ASSUME NEW x \in Commands PROVE RunInv(x)'
  <2>1. RunInv(x)
    BY DEF Turns
  <2>2. ToSet(waitList'[x]) \subseteq ToSet(waitList[x])
    BY <1>8, <1>9 DEF wl
  <2>3. \A y : Awaited(x, y, stack) => Awaited(x, y, stack')
    BY <1>2, <1>3, <1>19 DEF Awaited
  <2>4. ASSUME NEW y \in ToSet(waitList[x])
        PROVE  y \in ToSet(waitList'[x]) \/ Awaited(x, y, stack')
    <3>1. CASE x = c
      BY <1>8, <1>9, <1>13, <1>14, <1>19, <2>4, <3>1 DEF Awaited, wl
    <3>2. CASE x # c
      BY <1>9, <2>4, <3>2
    <3>. QED  BY <3>1, <3>2
  <2>. QED  BY <1>4, <1>22, <2>1, <2>2, <2>3, <2>4 DEF RunInv
<1>24. KeptInv'
  <2>1. h \notin Of("release") /\ g \notin Of("release") /\ k \notin Of("release")
    BY <1>2, <1>14, <1>17 DEF Of
  <2>2. Calls(Of("release"), b) \in Nat
    BY <1>3, CallsType
  <2>3. Calls(Of("release"), stack) = Calls(Of("release"), b) + 0
    BY <1>2, <1>3, <2>1, CallsOfPush DEF Of, Count
  <2>4. Calls(Of("release"), t) = Calls(Of("release"), b) + 0
    BY <1>3, <1>14, <2>1, CallsOfPush DEF Count, t
  <2>5. Calls(Of("release"), Push(k, t)) = Calls(Of("release"), t) + 0
    BY <1>15, <1>17, <2>1, CallsOfPush DEF Count
  <2>6. stack' = t \/ stack' = Push(k, t)
    BY <1>4 DEF k
  <2>7. Calls(Of("release"), stack') = Calls(Of("release"), stack)
    BY <2>2, <2>3, <2>4, <2>5, <2>6
  <2>. QED  BY <1>4, <2>7 DEF KeptInv, Turns
<1>25. OrderInv'
  BY <1>4, <1>6 DEF OrderInv
<1>. QED  BY <1>18, <1>20, <1>21, <1>23, <1>24, <1>25 DEF Turns

-----------------------------------------------------------------------------
(* A flush that is the innermost call: nothing is being executed.          *)
LEMMA FlushTurn ==
  ASSUME Books, Turns, InFlush
  PROVE  /\ stack # <<>> /\ Top \in Of("flush") /\ Top.fn = "flush" /\ flushing
         /\ Below \in Seq(Frames) /\ stack = Push(Top, Below) /\ Chained(Below)
         /\ ToSet(stack) = {Top} \cup ToSet(Below)
         /\ \A g \in ToSet(Below) : g \in Frames /\ g.fn = "release"
         /\ Below # <<>> => Below[1].fn = "release"
         /\ \A c : ~Executing(c, stack) /\ \A e : ~Awaited(c, e, stack)
         /\ \A c \in Commands : status[c] \in {"none", "queued", "complete"}
<1>1. stack # <<>> /\ Top \in Of("flush") /\ Top.fn = "flush" /\ flushing
  BY TheFlush DEF Of
<1>2. /\ Top \in Frames /\ Below \in Seq(Frames) /\ stack = Push(Top, Below)
      /\ ToSet(stack) = {Top} \cup ToSet(Below) /\ Chained(Below)
      /\ Below # <<>> => CalledBy(Top, Below[1])
      /\ \A g \in ToSet(stack) : g \in Frames
  BY <1>1, TopTurn
<1>3. \A g \in ToSet(Below) : g.fn = "release"
  <2>. DEFINE f == Top
              b == Below
  <2>1. f \in Frames /\ b \in Seq(Frames) /\ Chained(Push(f, b)) /\ f.fn = "flush"
    BY <1>1, <1>2 DEF Turns
  <2>. HIDE DEF f, b
  <2>2. \A g \in ToSet(b) : g.fn = "release"
    BY <2>1, OnlyReleases
  <2>. QED  BY <2>2 DEF b
<1>4. Below # <<>> => Below[1].fn = "release"
  BY <1>1, <1>2 DEF CalledBy
<1>5. \A c : ~Executing(c, stack) /\ \A e : ~Awaited(c, e, stack)
  BY <1>1, <1>2, <1>3 DEF Executing, Awaited
<1>6. \A c \in Commands : status[c] \in {"none", "queued", "complete"}
  BY <1>5 DEF Turns, RunInv, Books, TypeOK, Statuses
<1>. QED  BY <1>1, <1>2, <1>3, <1>4, <1>5, <1>6

LEMMA FlushNextInTurn ==
  ASSUME Books, Turns, FlushNext
  PROVE  Turns'
<1>. DEFINE h == Top
            b == Below
            c == IF outOfOrder THEN Last(commands) ELSE Head(commands)
            g == [h EXCEPT !.done = Append(@, c)]
            t == Push(g, b)
            k == ExecFrame(c)
<1>1. InFlush /\ commands # <<>>
  BY DEF FlushNext
<1>2. /\ h \in Of("flush") /\ h.fn = "flush" /\ flushing
      /\ b \in Seq(Frames) /\ stack = Push(h, b) /\ Chained(b)
      /\ \A x \in ToSet(b) : x \in Frames /\ x.fn = "release"
      /\ b # <<>> => b[1].fn = "release"
      /\ \A x : ~Executing(x, stack) /\ \A e : ~Awaited(x, e, stack)
      /\ \A x \in Commands : status[x] \in {"none", "queued", "complete"}
  BY <1>1, FlushTurn
<1>3. /\ commands' = (IF outOfOrder THEN Front(commands) ELSE Tail(commands))
      /\ stack' = Push(k, t)
      /\ usage' = usage /\ outOfOrder' = outOfOrder
      /\ flushing' = flushing /\ status' = status /\ alive' = alive /\ appEvent' = appEvent
      /\ appQueue' = appQueue /\ enqueued' = enqueued /\ deps' = deps /\ ran' = ran
      /\ waitList' = waitList
  BY DEF FlushNext, fixed, eventVars, commandVars, appVars, history
<1>4. commands \in Seq(Commands) /\ enqueued \in Seq(Commands) /\ IsInjective(commands)
  BY DEF Books, TypeOK, PendingInv
<1>5. /\ c \in Commands /\ c \in ToSet(commands)
      /\ c \notin ToSet(commands') /\ ToSet(commands') \subseteq ToSet(commands)
  <2>1. CASE outOfOrder
    BY <1>1, <1>3, <1>4, <2>1, FrontFacts
  <2>2. CASE ~outOfOrder
    BY <1>1, <1>3, <1>4, <2>2, TailFacts
  <2>. QED  BY <2>1, <2>2
<1>6. c \in alive /\ status[c] \in {"queued", "complete"}
  <2>1. c \in alive
    BY <1>5 DEF Books, PendingInv
  <2>. QED  BY <1>2, <1>5, <2>1, HeldIsKnown
<1>. DEFINE done == Append(h.done, c)
<1>7. done \in Seq(Commands)
  BY <1>2, <1>5, FrameTypes, AppendFacts
<1>8. g = [h EXCEPT !.done = done]
  BY <1>2 DEF Of
<1>. HIDE DEF h, b, c, done, g
<1>9. g \in Of("flush")
  BY <1>2, <1>7, <1>8, DoneUpdate
<1>10. g \in Frames /\ g.fn = "flush"
  BY <1>9 DEF Of
<1>11. k \in Frames /\ k.fn = "exec" /\ k.c = c /\ k.pc = "start"
  BY <1>5, FrameTypes
<1>. HIDE DEF k
<1>12. t \in Seq(Frames) /\ ToSet(t) = {g} \cup ToSet(b) /\ t[1] = g
  BY <1>2, <1>10, PushFacts
<1>13. \A x \in ToSet(t) : x.fn \in {"flush", "release"}
  BY <1>2, <1>10, <1>12
<1>14. Chained(t)
  <2>1. b # <<>> => CalledBy(g, b[1])
    BY <1>2, <1>10 DEF CalledBy
  <2>. QED  BY <1>2, <1>10, <2>1, ChainedPush
<1>15. InTurn(enqueued, t)
  BY <1>12, <1>13 DEF InTurn, ToSet
<1>. HIDE DEF t
<1>16. Chained(stack') /\ InTurn(enqueued', stack')
  <2>1. CalledBy(k, t[1])
    BY <1>10, <1>11, <1>12 DEF CalledBy
  <2>2. Chained(Push(k, t))
    BY <1>11, <1>12, <1>14, <2>1, ChainedPush
  <2>3. InTurn(enqueued, Push(k, t))
    BY <1>11, <1>12, <1>13, <1>15, InTurnPush
  <2>. QED  BY <1>3, <2>2, <2>3
<1>17. ToSet(stack') = {k} \cup ToSet(t)
  <2>1. k \in Frames /\ t \in Seq(Frames)
    BY <1>11, <1>12
  <2>2. ToSet(Push(k, t)) = {k} \cup ToSet(t)
    BY <2>1, PushFacts
  <2>. QED  BY <1>3, <2>2
<1>18. ASSUME NEW f \in ToSet(stack') PROVE RunOK(f)'
  <2>1. CASE f \in ToSet(t)
    BY <1>13, <2>1 DEF RunOK
  <2>2. CASE f = k
    BY <1>2, <1>3, <1>5, <1>6, <1>11, <2>2 DEF RunOK, StatusAt
  <2>. QED  BY <1>17, <2>1, <2>2
<1>19. AnswerInv'
  BY <1>3, <1>11, <1>12, AnswerOfPush
<1>20. ASSUME NEW x \in Commands PROVE RunInv(x)'
  <2>1. RunInv(x)
    BY DEF Turns
  <2>. QED  BY <1>2, <1>3, <2>1 DEF RunInv
<1>21. KeptInv'
  <2>1. h \notin Of("release") /\ g \notin Of("release") /\ k \notin Of("release")
    BY <1>2, <1>10, <1>11 DEF Of
  <2>2. Calls(Of("release"), b) \in Nat
    BY <1>2, CallsType
  <2>3. Calls(Of("release"), stack) = Calls(Of("release"), b) + 0
    BY <1>2, <2>1, CallsOfPush DEF Of, Count
  <2>4. Calls(Of("release"), t) = Calls(Of("release"), b) + 0
    BY <1>2, <1>10, <2>1, CallsOfPush DEF Count, t
  <2>5. Calls(Of("release"), Push(k, t)) = Calls(Of("release"), t) + 0
    BY <1>11, <1>12, <2>1, CallsOfPush DEF Count
  <2>6. Calls(Of("release"), stack') = Calls(Of("release"), stack)
    BY <1>3, <2>2, <2>3, <2>4, <2>5
  <2>. QED  BY <1>3, <2>6 DEF KeptInv, Turns
<1>22. OrderInv'
  <2>. SUFFICES ASSUME ~outOfOrder, ~usage.wait PROVE OrderInv'
    BY <1>3 DEF OrderInv
  <2>1. /\ Len(commands) \in Nat /\ Len(enqueued) \in Nat /\ taken \in Nat
        /\ taken + Len(commands) = Len(enqueued)
        /\ DOMAIN commands = 1 .. Len(commands)
        /\ \A i \in DOMAIN commands : /\ commands[i] = enqueued[taken + i]
                                      /\ status[commands[i]] = "queued"
        /\ \A i \in 1 .. taken : \/ status[enqueued[i]] = "complete"
                                 \/ i = taken /\ Executing(enqueued[i], stack)
    BY OrderFacts
  <2>2. commands' = Tail(commands) /\ c = commands[1]
    BY <1>3 DEF c
  <2>3. /\ Len(commands) # 0 /\ Len(Tail(commands)) = Len(commands) - 1
        /\ DOMAIN Tail(commands) = 1 .. Len(commands) - 1
        /\ \A i \in 1 .. Len(commands) - 1 : Tail(commands)[i] = commands[i + 1]
    BY <1>1, <1>4, HeadTailProperties, EmptySeq, LenProperties
  <2>. DEFINE n == Len(commands)
              m == taken
  <2>4. Len(commands') = n - 1 /\ taken' = m + 1 /\ n - 1 <= Len(enqueued)
    <3>1. Len(commands') = n - 1
      BY <2>2, <2>3
    <3>2. taken' = Len(enqueued) - (n - 1)
      BY <1>3, <3>1 DEF taken
    <3>3. n \in Nat /\ m \in Nat /\ m + n = Len(enqueued) /\ Len(enqueued) \in Nat
      BY <2>1
    <3>. HIDE DEF n, m
    <3>. QED  BY <3>1, <3>2, <3>3
  <2>5. n \in Nat \ {0} /\ m \in Nat
    BY <2>1, <2>3
  <2>. HIDE DEF n, m
  <2>6. \A i \in 1 .. n - 1 : i + 1 \in 1 .. n /\ m + (i + 1) = (m + 1) + i
    BY <2>5
  <2>7. \A i \in 1 .. m + 1 : i \in 1 .. m \/ i = m + 1
    BY <2>5
  <2>8. 1 \in 1 .. n
    BY <2>5
  <2>9. \A i \in 1 .. n - 1 : /\ commands'[i] = enqueued[(m + 1) + i]
                              /\ status[commands'[i]] = "queued"
    BY <2>1, <2>2, <2>3, <2>6 DEF n, m
  <2>10. Executing(enqueued[m + 1], stack')
    <3>1. c = enqueued[m + 1]
      BY <2>1, <2>2, <2>8 DEF n, m
    <3>. QED  BY <1>11, <1>17, <3>1 DEF Executing
  <2>11. \A i \in 1 .. m : status[enqueued[i]] = "complete"
    BY <1>2, <2>1 DEF m
  <2>12. \A i \in 1 .. m + 1 : \/ status[enqueued[i]] = "complete"
                               \/ i = m + 1 /\ Executing(enqueued[i], stack')
    BY <2>7, <2>10, <2>11
  <2>13. DOMAIN commands' = 1 .. n - 1
    BY <2>2, <2>3 DEF n
  <2>. QED  BY <1>3, <2>4, <2>9, <2>12, <2>13 DEF OrderInv
<1>. QED  BY <1>16, <1>18, <1>19, <1>20, <1>21, <1>22 DEF Turns

(* A command is deleted when it is complete, and nothing is being executed. *)
LEMMA FlushDeleteInTurn ==
  ASSUME Books, Turns, FlushDelete
  PROVE  Turns'
<1>. DEFINE h == Top
            b == Below
            c == Head(h.done)
            g == [h EXCEPT !.done = Tail(@)]
            t == Push(g, b)
<1>1. InFlush /\ h.done # <<>>
  BY DEF FlushDelete
<1>2. /\ h \in Of("flush") /\ h.fn = "flush" /\ flushing
      /\ b \in Seq(Frames) /\ stack = Push(h, b) /\ Chained(b)
      /\ \A x \in ToSet(b) : x \in Frames /\ x.fn = "release"
      /\ b # <<>> => b[1].fn = "release"
      /\ \A x : ~Executing(x, stack) /\ \A e : ~Awaited(x, e, stack)
      /\ \A x \in Commands : status[x] \in {"none", "queued", "complete"}
  BY <1>1, FlushTurn
<1>3. /\ stack' = t /\ waitList' = [waitList EXCEPT ![c] = <<>>]
      /\ usage' = usage /\ outOfOrder' = outOfOrder /\ commands' = commands
      /\ flushing' = flushing /\ status' = status /\ appEvent' = appEvent
      /\ appQueue' = appQueue /\ enqueued' = enqueued /\ deps' = deps /\ ran' = ran
  BY DEF FlushDelete, fixed, appVars, history
<1>4. h.done \in Seq(Commands) /\ ToSet(h.done) \subseteq alive /\ Queued \cap ToSet(h.done) = {}
  BY <1>1, TheFlush
<1>5. c \in Commands /\ c \in ToSet(h.done) /\ Tail(h.done) \in Seq(Commands)
  BY <1>1, <1>4, TailFacts
<1>6. status[c] = "complete"
  BY <1>2, <1>4, <1>5, HeldIsKnown DEF Queued
<1>7. outOfOrder => waitList[c] = <<>>
  BY <1>5, <1>6 DEF Books, ListInv, ListsHeeded
<1>8. waitList \in [Commands -> Seq(Commands)]
  BY DEF Books, TypeOK
<1>9. ASSUME NEW x \in Commands
      PROVE  /\ ToSet(waitList'[x]) \subseteq ToSet(waitList[x])
             /\ outOfOrder => waitList'[x] = waitList[x]
  <2>1. ToSet(<<>>) = {}
    BY DEF ToSet
  <2>. QED  BY <1>3, <1>5, <1>7, <1>8, <2>1
<1>. DEFINE done == Tail(h.done)
<1>10. g = [h EXCEPT !.done = done]
  BY <1>2 DEF Of
<1>. HIDE DEF h, b, c, done, g
<1>11. g \in Of("flush")
  BY <1>2, <1>5, <1>10, DoneUpdate DEF done
<1>12. g \in Frames /\ g.fn = "flush"
  BY <1>11 DEF Of
<1>13. t \in Seq(Frames) /\ ToSet(t) = {g} \cup ToSet(b) /\ t[1] = g
  BY <1>2, <1>12, PushFacts
<1>14. \A x \in ToSet(t) : x.fn \in {"flush", "release"}
  BY <1>2, <1>12, <1>13
<1>15. Chained(t)
  <2>1. b # <<>> => CalledBy(g, b[1])
    BY <1>2, <1>12 DEF CalledBy
  <2>. QED  BY <1>2, <1>12, <2>1, ChainedPush
<1>16. InTurn(enqueued, t)
  BY <1>13, <1>14 DEF InTurn, ToSet
<1>17. ASSUME NEW f \in ToSet(stack') PROVE RunOK(f)'
  BY <1>3, <1>14 DEF RunOK
<1>18. AnswerInv'
  BY <1>2, <1>3, <1>12, AnswerOfPush
<1>19. ASSUME NEW x \in Commands PROVE RunInv(x)'
  <2>1. RunInv(x)
    BY DEF Turns
  <2>. QED  BY <1>2, <1>3, <1>9, <2>1 DEF RunInv
<1>20. KeptInv'
  <2>1. h \notin Of("release") /\ g \notin Of("release")
    BY <1>2, <1>12 DEF Of
  <2>2. Calls(Of("release"), b) \in Nat
    BY <1>2, CallsType
  <2>3. Calls(Of("release"), stack) = Calls(Of("release"), b) + 0
    BY <1>2, <2>1, CallsOfPush DEF Of, Count
  <2>4. Calls(Of("release"), t) = Calls(Of("release"), b) + 0
    BY <1>2, <1>12, <2>1, CallsOfPush DEF Count
  <2>5. Calls(Of("release"), stack') = Calls(Of("release"), stack)
    BY <1>3, <2>2, <2>3, <2>4
  <2>. QED  BY <1>3, <2>5 DEF KeptInv, Turns
<1>21. OrderInv'
  BY <1>2, <1>3, OrderStays
<1>. QED  BY <1>3, <1>15, <1>16, <1>17, <1>18, <1>19, <1>20, <1>21 DEF Turns

-----------------------------------------------------------------------------
(* A call of the application either does not disturb the stack or, when no *)
(* call is under way, begins a flush.                                      *)
Begins ==
  \/ /\ stack' = stack /\ flushing' = flushing
     /\ appQueue' = appQueue \/ appQueue' > 0 \/ ~flushing
        \/ "releaseQueue" \in usage.inCallback
  \/ /\ stack = <<>> /\ flushing' = TRUE
     /\ \/ stack' = Push(FlushFrame, <<>>) /\ appQueue' > 0
        \/ stack' = Push(FlushFrame, Push(ReleaseFrame, <<>>))

LEMMA BeginsInTurn ==
  ASSUME Books, Turns, Begins
  PROVE  /\ Chained(stack')
         /\ \A q : InTurn(q, stack) => InTurn(q, stack')
         /\ \A f \in ToSet(stack') : f \in ToSet(stack) \/ f.fn \in {"flush", "release"}
         /\ ToSet(stack) \subseteq ToSet(stack')
         /\ InExec("release")' => stack' = stack
<1>1. CASE stack' = stack
  BY <1>1 DEF Turns
<1>2. CASE stack = <<>> /\ stack' = Push(FlushFrame, <<>>)
  <2>. DEFINE f == FlushFrame
  <2>1. f \in Frames /\ f.fn = "flush" /\ <<>> \in Seq(Frames)
    BY FrameTypes, EmptySeq
  <2>. HIDE DEF f
  <2>2. stack' = Push(f, <<>>) /\ ToSet(<<>>) = {} /\ Chained(<<>>) /\ \A q : InTurn(q, <<>>)
    BY <1>2 DEF f, ToSet, Chained, InTurn
  <2>3. ToSet(Push(f, <<>>)) = {f} \cup ToSet(<<>>) /\ Push(f, <<>>)[1] = f
    <3>. DEFINE z == <<>>
    <3>1. f \in Frames /\ z \in Seq(Frames)
      BY <2>1
    <3>. HIDE DEF z
    <3>2. ToSet(Push(f, z)) = {f} \cup ToSet(z) /\ Push(f, z)[1] = f
      BY <3>1, PushFrame
    <3>. QED  BY <3>2 DEF z
  <2>5. Chained(Push(f, <<>>))
    BY <2>1, <2>2, ChainedPush
  <2>6. ASSUME NEW q PROVE InTurn(q, Push(f, <<>>))
    BY <2>1, <2>2, InTurnPush
  <2>7. ~InExec("release")'
    BY <2>1, <2>2, <2>3 DEF InExec, Top
  <2>. QED  BY <1>2, <2>1, <2>2, <2>3, <2>5, <2>6, <2>7
<1>3. CASE stack = <<>> /\ stack' = Push(FlushFrame, Push(ReleaseFrame, <<>>))
  <2>. DEFINE f == FlushFrame
              r == ReleaseFrame
              s == Push(r, <<>>)
  <2>1. f \in Frames /\ f.fn = "flush" /\ r \in Frames /\ r.fn = "release" /\ <<>> \in Seq(Frames)
    BY FrameTypes, EmptySeq
  <2>. HIDE DEF f, r
  <2>2. ToSet(<<>>) = {} /\ Chained(<<>>) /\ \A q : InTurn(q, <<>>)
    BY DEF ToSet, Chained, InTurn
  <2>3. s \in Seq(Frames) /\ ToSet(s) = {r} \cup ToSet(<<>>) /\ s[1] = r
    BY <2>1, PushFrame
  <2>4. Chained(s) /\ \A q : InTurn(q, s)
    BY <2>1, <2>2, ChainedPush, InTurnPush
  <2>5. stack' = Push(f, s)
    BY <1>3 DEF f, r
  <2>. HIDE DEF s
  <2>6. ToSet(Push(f, s)) = {f} \cup ToSet(s)
    BY <2>1, <2>3, PushFrame
  <2>7. Push(f, s)[1] = f
    BY <2>1, <2>3, PushFacts
  <2>8. CalledBy(f, r)
    BY <2>1 DEF CalledBy
  <2>9. Chained(Push(f, s))
    BY <2>1, <2>3, <2>4, <2>8, ChainedPush
  <2>10. ASSUME NEW q PROVE InTurn(q, Push(f, s))
    BY <2>1, <2>3, <2>4, InTurnPush
  <2>11. ~InExec("release")'
    BY <2>1, <2>5, <2>7 DEF InExec, Top
  <2>. QED  BY <1>3, <2>1, <2>2, <2>3, <2>5, <2>6, <2>9, <2>10, <2>11
<1>. QED  BY <1>1, <1>2, <1>3 DEF Begins

LEMMA AppFlush ==
  ASSUME Books, Turns, SafeWaits, NEW op \in {"flush", "releaseEvent", "releaseQueue"},
         AppMay(op)
  PROVE  /\ ~flushing => stack = <<>>
         /\ flushing => op \in usage.inCallback
         /\ CallFlush(stack) /\ appQueue' = appQueue /\ appQueue > 0 => Begins
         /\ CallReleaseQueue(stack) /\ (appQueue' = appQueue \/ op = "releaseQueue") => Begins
<1>1. flushing \in BOOLEAN
  BY DEF Books, TypeOK
<1>2. stack = <<>> => ~flushing
  <2>1. Calls(Of("flush"), <<>>) = 0
    BY NoCalls
  <2>. QED  BY <1>1, <2>1 DEF Books, FlushInv, Count
<1>3. stack # <<>> => flushing /\ op \in usage.inCallback
  <2>. SUFFICES ASSUME stack # <<>> PROVE flushing /\ op \in usage.inCallback
    OBVIOUS
  <2>1. Top.fn = "callback" /\ op \in usage.inCallback
    BY DEF AppMay
  <2>2. RunOK(Top)
    BY TopTurn
  <2>3. ~usage.wait
    BY <2>1 DEF SafeWaits
  <2>. QED  BY <2>1, <2>2, <2>3 DEF RunOK
<1>4. CallFlush(stack) /\ appQueue' = appQueue /\ appQueue > 0 => Begins
  BY <1>1, <1>2, <1>3 DEF CallFlush, Begins
<1>5. CallReleaseQueue(stack) /\ (appQueue' = appQueue \/ op = "releaseQueue") => Begins
  BY <1>1, <1>2, <1>3 DEF CallReleaseQueue, CallFlush, Begins
<1>. QED  BY <1>2, <1>3, <1>4, <1>5

LEMMA KeptOfBegins ==
  ASSUME Books, Turns, Begins, usage' = usage
  PROVE  KeptInv'
<1>1. KeptInv
  BY DEF Turns
<1>2. CASE stack' = stack /\ flushing' = flushing
           /\ (appQueue' = appQueue \/ appQueue' > 0 \/ ~flushing
               \/ "releaseQueue" \in usage.inCallback)
  BY <1>1, <1>2 DEF KeptInv
<1>3. CASE appQueue' > 0
  BY <1>3 DEF KeptInv
<1>4. CASE stack' = Push(FlushFrame, Push(ReleaseFrame, <<>>))
  <2>. DEFINE f == FlushFrame
              r == ReleaseFrame
              z == <<>>
              s == Push(r, z)
  <2>1. f \in Frames /\ r \in Frames /\ z \in Seq(Frames) /\ Calls(Of("release"), z) = 0
        /\ f \notin Of("release") /\ r \in Of("release")
    BY FrameTypes, EmptySeq, NoCalls DEF Of
  <2>. HIDE DEF f, r, z
  <2>2. s \in Seq(Frames)
    BY <2>1, PushFrame
  <2>3. Calls(Of("release"), s) = 0 + 1
    BY <2>1, CallsOfPush DEF Count
  <2>. HIDE DEF s
  <2>4. Calls(Of("release"), Push(f, s)) = 1 + 0
    BY <2>1, <2>2, <2>3, CallsOfPush DEF Count
  <2>5. Calls(Of("release"), stack') > 0
    BY <1>4, <2>4 DEF f, r, z, s
  <2>. QED  BY <2>5 DEF KeptInv
<1>. QED  BY <1>2, <1>3, <1>4 DEF Begins

(* The steps of the application that concern references and callbacks. *)
LEMMA CalmInTurn ==
  ASSUME Books, Turns, Begins,
         usage' = usage, outOfOrder' = outOfOrder, commands' = commands, status' = status,
         alive' = alive, waitList' = waitList, enqueued' = enqueued, deps' = deps, ran' = ran,
         usage.wait => \A e \in Commands : appEvent[e] > 0 =>
                         appEvent'[e] > 0 \/ (stack = <<>> /\ Named(e) = {})
  PROVE  Turns'
<1>1. /\ Chained(stack') /\ InTurn(enqueued', stack')
      /\ \A f \in ToSet(stack') : f \in ToSet(stack) \/ f.fn \in {"flush", "release"}
      /\ ToSet(stack) \subseteq ToSet(stack')
      /\ InExec("release")' => stack' = stack
  <2>1. InTurn(enqueued, stack)
    BY DEF Turns
  <2>. QED  BY <2>1, BeginsInTurn
<1>2. stack \in Seq(Frames)
  BY DEF Books, TypeOK
<1>3. ASSUME NEW f \in ToSet(stack') PROVE RunOK(f)'
  <2>1. CASE f \in ToSet(stack)
    <3>1. f \in Frames /\ RunOK(f) /\ stack # <<>>
      BY <1>2, <2>1, ElementOfSeq, LenProperties DEF Turns, ToSet
    <3>2. flushing => flushing'
      BY DEF Begins
    <3>3. f.fn = "exec" => f.dep \in Commands
      BY <3>1, FrameTypes DEF Of
    <3>. QED  BY <3>1, <3>2, <3>3, RunStays
  <2>2. CASE f.fn \in {"flush", "release"}
    BY <2>2 DEF RunOK
  <2>. QED  BY <1>1, <2>1, <2>2
<1>4. AnswerInv'
  BY <1>1 DEF AnswerInv, Turns, InExec, Top
<1>5. ASSUME NEW x \in Commands PROVE RunInv(x)'
  <2>1. RunInv(x)
    BY DEF Turns
  <2>2. Executing(x, stack) => Executing(x, stack')
    BY <1>1 DEF Executing
  <2>3. \A e : Awaited(x, e, stack) => Awaited(x, e, stack')
    BY <1>1 DEF Awaited
  <2>4. ASSUME usage.wait, NEW e \in ToSet(waitList[x]) PROVE appEvent'[e] > 0
    <3>1. e \in Commands
      BY ElementOfSeq, LenProperties DEF ToSet, Books, TypeOK
    <3>2. x \in alive
      <4>1. ToSet(<<>>) = {}
        BY DEF ToSet
      <4>. QED  BY <4>1 DEF Books, ListInv
    <3>3. x \in Named(e)
      BY <2>4, <3>2 DEF Named
    <3>. QED  BY <2>1, <2>4, <3>1, <3>3 DEF RunInv
  <2>. QED  BY <2>1, <2>2, <2>3, <2>4 DEF RunInv
<1>6. KeptInv'
  BY KeptOfBegins
<1>7. OrderInv'
  <2>1. \A x : Executing(x, stack) => Executing(x, stack')
    BY <1>1 DEF Executing
  <2>. QED  BY <2>1, OrderStays
<1>. QED  BY <1>1, <1>3, <1>4, <1>5, <1>6, <1>7 DEF Turns

LEMMA AppInTurn ==
  ASSUME Books, Turns, SafeWaits,
         \/ Finish \/ RetainQueue \/ ReleaseQueue
         \/ \E e \in Commands : RetainEvent(e) \/ ReleaseEvent(e)
         \/ \E e \in Commands, s \in CallbackTypes : SetCallback(e, s)
  PROVE  Turns'
<1>1. appEvent \in [Commands -> 0 .. MaxAppRefs] /\ appQueue \in 0 .. MaxAppRefs
      /\ MaxAppRefs \in Nat
  BY QueueAssumption DEF Books, TypeOK
<1>2. /\ \A e \in Commands : appEvent[e] \in Nat
      /\ appQueue \in Nat
  BY <1>1
<1>3. CASE Finish
  <2>1. Begins
    BY <1>3, AppFlush DEF Finish, appVars
  <2>2. /\ usage' = usage /\ outOfOrder' = outOfOrder /\ commands' = commands
        /\ status' = status /\ alive' = alive /\ waitList' = waitList /\ appEvent' = appEvent
        /\ enqueued' = enqueued /\ deps' = deps /\ ran' = ran
    BY <1>3 DEF Finish, fixed, eventVars, commandVars, appVars, history
  <2>. QED  BY <2>1, <2>2, CalmInTurn
<1>4. CASE RetainQueue
  <2>1. /\ usage' = usage /\ outOfOrder' = outOfOrder /\ commands' = commands
        /\ status' = status /\ alive' = alive /\ waitList' = waitList /\ appEvent' = appEvent
        /\ enqueued' = enqueued /\ deps' = deps /\ ran' = ran /\ flushing' = flushing
        /\ stack' = stack /\ appQueue' = appQueue + 1
    BY <1>4 DEF RetainQueue, fixed, eventVars, commandVars, history
  <2>2. appQueue' > 0
    BY <1>2, <2>1
  <2>3. Begins
    BY <2>1, <2>2 DEF Begins
  <2>. QED  BY <2>1, <2>3, CalmInTurn
<1>5. CASE ReleaseQueue
  <2>1. Begins
    BY <1>5, AppFlush DEF ReleaseQueue
  <2>2. /\ usage' = usage /\ outOfOrder' = outOfOrder /\ commands' = commands
        /\ status' = status /\ alive' = alive /\ waitList' = waitList /\ appEvent' = appEvent
        /\ enqueued' = enqueued /\ deps' = deps /\ ran' = ran
    BY <1>5 DEF ReleaseQueue, fixed, eventVars, commandVars, history
  <2>. QED  BY <2>1, <2>2, CalmInTurn
<1>6. ASSUME NEW e \in Commands, RetainEvent(e) PROVE Turns'
  <2>1. /\ usage' = usage /\ outOfOrder' = outOfOrder /\ commands' = commands
        /\ status' = status /\ alive' = alive /\ waitList' = waitList
        /\ enqueued' = enqueued /\ deps' = deps /\ ran' = ran /\ flushing' = flushing
        /\ stack' = stack /\ appQueue' = appQueue /\ appEvent' = [appEvent EXCEPT ![e] = @ + 1]
    BY <1>6 DEF RetainEvent, fixed, queueVars, commandVars, history
  <2>2. Begins
    BY <2>1 DEF Begins
  <2>3. \A x \in Commands : appEvent[x] > 0 => appEvent'[x] > 0
    BY <1>1, <1>2, <2>1
  <2>. QED  BY <2>1, <2>2, <2>3, CalmInTurn
<1>7. ASSUME NEW e \in Commands, NEW s \in CallbackTypes, SetCallback(e, s) PROVE Turns'
  <2>1. /\ usage' = usage /\ outOfOrder' = outOfOrder /\ commands' = commands
        /\ status' = status /\ alive' = alive /\ waitList' = waitList /\ appEvent' = appEvent
        /\ enqueued' = enqueued /\ deps' = deps /\ ran' = ran /\ flushing' = flushing
        /\ stack' = stack /\ appQueue' = appQueue
    BY <1>7 DEF SetCallback, fixed, queueVars, commandVars, appVars, history
  <2>2. Begins
    BY <2>1 DEF Begins
  <2>. QED  BY <2>1, <2>2, CalmInTurn
<1>8. ASSUME NEW e \in Commands, ReleaseEvent(e) PROVE Turns'
  <2>1. /\ usage' = usage /\ outOfOrder' = outOfOrder /\ commands' = commands
        /\ status' = status /\ alive' = alive /\ waitList' = waitList
        /\ enqueued' = enqueued /\ deps' = deps /\ ran' = ran
        /\ appQueue' = appQueue /\ appEvent' = [appEvent EXCEPT ![e] = @ - 1]
        /\ AppMay("releaseEvent") /\ CallReleaseEvent(e, stack) /\ appEvent[e] > 0
        /\ (usage.hold /\ appEvent[e] = 1 => \A c \in alive : e \notin ToSet(waitList[c]))
    BY <1>8 DEF ReleaseEvent, fixed, commandVars, history
  <2>2. Begins
    <3>1. CASE eventRefs[e] = 1
      BY <2>1, <3>1, AppFlush DEF CallReleaseEvent
    <3>2. CASE eventRefs[e] # 1
      BY <2>1, <3>2 DEF CallReleaseEvent, Begins
    <3>. QED  BY <3>1, <3>2
  <2>3. ASSUME usage.wait, NEW x \in Commands, appEvent[x] > 0
        PROVE  appEvent'[x] > 0 \/ (stack = <<>> /\ Named(x) = {})
    <3>1. stack = <<>> /\ usage.hold
      BY <2>1, <2>3 DEF SafeWaits, AppMay
    <3>2. CASE x = e /\ appEvent[e] = 1
      BY <2>1, <3>1, <3>2 DEF Named
    <3>3. CASE ~(x = e /\ appEvent[e] = 1)
      BY <1>1, <1>2, <2>1, <2>3, <3>3
    <3>. QED  BY <3>2, <3>3
  <2>. QED  BY <2>1, <2>2, <2>3, CalmInTurn
<1>. QED  BY <1>3, <1>4, <1>5, <1>6, <1>7, <1>8

-----------------------------------------------------------------------------
LEMMA WaitForEventInTurn ==
  ASSUME Books, Turns, NEW e \in Commands, WaitForEvent(e)
  PROVE  Turns'
<1>. DEFINE k == ExecFrame(e)
            z == <<>>
<1>1. /\ usage.wait /\ stack = z /\ hasCommand[e] /\ stack' = Push(k, z)
      /\ usage' = usage /\ outOfOrder' = outOfOrder /\ commands' = commands
      /\ status' = status /\ alive' = alive /\ waitList' = waitList /\ appEvent' = appEvent
      /\ enqueued' = enqueued /\ deps' = deps /\ ran' = ran /\ flushing' = flushing
      /\ appQueue' = appQueue
  BY DEF WaitForEvent, fixed, queueVars, eventVars, commandVars, appVars, history
<1>2. k \in Frames /\ k.fn = "exec" /\ k.c = e /\ k.pc = "start" /\ z \in Seq(Frames)
  BY FrameTypes, EmptySeq
<1>3. ToSet(z) = {} /\ Chained(z) /\ InTurn(enqueued, z)
  BY DEF ToSet, Chained, InTurn
<1>4. e \in alive /\ status[e] # "none"
  <2>1. e \in alive
    BY <1>1 DEF Books, PendingInv
  <2>. QED  BY <2>1, HeldIsKnown
<1>5. \A x : ~Executing(x, stack) /\ \A y : ~Awaited(x, y, stack)
  BY <1>1, <1>3 DEF Executing, Awaited
<1>6. status[e] \in {"queued", "complete"}
  BY <1>4, <1>5 DEF Turns, RunInv, Books, TypeOK, Statuses
<1>7. ~flushing
  <2>1. Calls(Of("flush"), <<>>) = 0
    BY NoCalls
  <2>. QED  BY <1>1, <2>1 DEF Books, FlushInv, TypeOK, Count
<1>8. z = <<>>
  OBVIOUS
<1>. HIDE DEF k, z
<1>9. ToSet(Push(k, z)) = {k} \cup ToSet(z)
  BY <1>2, PushFrame
<1>10. Chained(stack') /\ InTurn(enqueued', stack')
  BY <1>1, <1>2, <1>3, <1>8, ChainedPush, InTurnPush
<1>11. ASSUME NEW f \in ToSet(stack') PROVE RunOK(f)'
  BY <1>1, <1>2, <1>3, <1>4, <1>6, <1>9, <1>11 DEF RunOK, StatusAt
<1>12. AnswerInv'
  BY <1>1, <1>2, AnswerOfPush
<1>13. ASSUME NEW x \in Commands PROVE RunInv(x)'
  <2>1. RunInv(x)
    BY DEF Turns
  <2>. QED  BY <1>1, <1>5, <2>1 DEF RunInv
<1>14. KeptInv' /\ OrderInv'
  BY <1>1, <1>7 DEF KeptInv, OrderInv
<1>. QED  BY <1>10, <1>11, <1>12, <1>13, <1>14 DEF Turns

(* A command that is executed has not been executed yet. *)
LEMMA NotYet ==
  ASSUME Books, Turns, NEW pc \in {"waits", "release", "submit", "run", "impl"}, InExec(pc)
  PROVE  /\ status[Top.c] # "complete" /\ ran[Top.c] = 0
         /\ status[Top.c] \in StatusAt(pc) /\ Top.c \in Commands
         /\ status = [status EXCEPT ![Top.c] = status[Top.c]]
         /\ ran = [ran EXCEPT ![Top.c] = 0]
<1>1. status[Top.c] \in StatusAt(pc) /\ Top.c \in Commands
  BY ExecTurn
<1>2. status[Top.c] # "complete"
  BY <1>1 DEF StatusAt
<1>3. ran[Top.c] = 0
  BY <1>1, <1>2 DEF Turns, RunInv, Count
<1>. QED  BY <1>1, <1>2, <1>3 DEF Books, TypeOK

LEMMA ExecInTurn ==
  ASSUME Books, Turns, ExecStart \/ ExecWaited \/ ExecSubmit \/ ExecRun \/ ExecImpl
  PROVE  Turns'
<1>1. ASSUME NEW pc \in {"waits", "submit", "run", "impl"}, InExec(pc),
             NEW next \in {"submit", "run", "impl", "done"},
             NEW v \in StatusAt(next),
             stack' = ExecAt(next) \/ (stack' = Push(CallbackFrame, ExecAt(next))
                                       /\ next \in {"run", "impl", "done"}),
             UNCHANGED <<fixed, queueVars, commandVars, appVars, enqueued, deps>>,
             status' = [status EXCEPT ![Top.c] = v],
             ran' = [ran EXCEPT ![Top.c] = Count(v = "complete")]
      PROVE  Turns'
  <2>1. /\ usage' = usage /\ outOfOrder' = outOfOrder /\ commands' = commands
        /\ flushing' = flushing /\ alive' = alive /\ waitList' = waitList /\ appEvent' = appEvent
        /\ appQueue' = appQueue /\ enqueued' = enqueued /\ deps' = deps
    BY <1>1 DEF fixed, queueVars, commandVars, appVars
  <2>2. status[Top.c] # "complete"
    BY <1>1, NotYet
  <2>3. pc # "done" /\ next \in {"waits", "submit", "run", "impl", "done"} /\ next # "waits"
    OBVIOUS
  <2>. QED  BY <1>1, <2>1, <2>2, <2>3, GoesOnInTurn
<1>2. ran \in [Commands -> Nat] /\ status \in [Commands -> Statuses \cup {"none", "queued"}]
  BY DEF Books, TypeOK
<1>3. CASE ExecStart
  <2>. DEFINE next == IF outOfOrder THEN "waits" ELSE "submit"
  <2>1. /\ InExec("start") /\ status[Top.c] = "queued" /\ stack' = ExecAt(next)
        /\ usage' = usage /\ outOfOrder' = outOfOrder /\ commands' = commands
        /\ flushing' = flushing /\ alive' = alive /\ waitList' = waitList /\ appEvent' = appEvent
        /\ appQueue' = appQueue /\ enqueued' = enqueued /\ deps' = deps
        /\ status' = status /\ ran' = ran
    BY <1>3 DEF ExecStart, fixed, queueVars, eventVars, commandVars, appVars, history
  <2>2. Top.c \in Commands
    BY <2>1, ExecTurn
  <2>3. ran[Top.c] = Count("queued" = "complete")
    BY <2>1, <2>2 DEF Turns, RunInv
  <2>4. status' = [status EXCEPT ![Top.c] = "queued"]
        /\ ran' = [ran EXCEPT ![Top.c] = Count("queued" = "complete")]
    BY <1>2, <2>1, <2>2, <2>3
  <2>5. next \in {"waits", "submit", "run", "impl", "done"} /\ "queued" \in StatusAt(next)
        /\ (~outOfOrder => next # "waits")
    BY DEF StatusAt
  <2>. HIDE DEF next
  <2>6. "start" # "done" /\ status[Top.c] # "complete"
    BY <2>1
  <2>. QED  BY <2>1, <2>4, <2>5, <2>6, GoesOnInTurn
<1>4. CASE ExecWaited
  <2>1. InExec("waits") /\ stack' = ExecAt("submit") /\ status' = status /\ ran' = ran
        /\ UNCHANGED <<fixed, queueVars, commandVars, appVars, enqueued, deps>>
    BY <1>4 DEF ExecWaited, eventVars, history
  <2>2. status[Top.c] = "queued" /\ ran[Top.c] = 0 /\ Top.c \in Commands
    BY <2>1, NotYet DEF StatusAt
  <2>3. status' = [status EXCEPT ![Top.c] = "queued"]
        /\ ran' = [ran EXCEPT ![Top.c] = Count("queued" = "complete")]
    BY <1>2, <2>1, <2>2 DEF Count
  <2>4. "queued" \in StatusAt("submit")
    BY DEF StatusAt
  <2>. QED  BY <1>1, <2>1, <2>3, <2>4
<1>5. ASSUME NEW pc \in {"submit", "run"}, InExec(pc), NEW next \in {"run", "impl"},
             NEW v \in {"submitted", "running"}, v \in StatusAt(next),
             SetStatus(Top.c, v, next), ran' = ran
      PROVE  Turns'
  <2>1. /\ UNCHANGED <<fixed, queueVars, commandVars, appVars, enqueued, deps>>
        /\ status' = [status EXCEPT ![Top.c] = v]
        /\ stack' = ExecAt(next) \/ stack' = Push(CallbackFrame, ExecAt(next))
    BY <1>5 DEF SetStatus
  <2>2. ran[Top.c] = 0 /\ Top.c \in Commands
    BY <1>5, NotYet
  <2>3. ran' = [ran EXCEPT ![Top.c] = Count(v = "complete")]
    BY <1>2, <1>5, <2>2 DEF Count
  <2>. QED  BY <1>1, <1>5, <2>1, <2>3
<1>6. CASE ExecSubmit
  BY <1>5, <1>6 DEF ExecSubmit, StatusAt
<1>7. CASE ExecRun
  BY <1>5, <1>7 DEF ExecRun, StatusAt
<1>8. CASE ExecImpl
  <2>1. /\ UNCHANGED <<fixed, queueVars, commandVars, appVars, enqueued, deps>>
        /\ status' = [status EXCEPT ![Top.c] = "complete"] /\ InExec("impl")
        /\ stack' = ExecAt("done") \/ stack' = Push(CallbackFrame, ExecAt("done"))
        /\ ran' = [ran EXCEPT ![Top.c] = @ + 1]
    BY <1>8 DEF ExecImpl, SetStatus
  <2>2. ran[Top.c] = 0 /\ Top.c \in Commands
    BY <2>1, NotYet
  <2>3. ran' = [ran EXCEPT ![Top.c] = Count("complete" = "complete")]
    BY <1>2, <2>1, <2>2 DEF Count
  <2>4. "complete" \in StatusAt("done")
    BY DEF StatusAt
  <2>. QED  BY <1>1, <2>1, <2>3, <2>4
<1>. QED  BY <1>3, <1>4, <1>6, <1>7, <1>8

(* Releasing the event that has been waited for flushes nothing: either a  *)
(* flush is in process, or the application holds the event.                *)
LEMMA ReleaseWaitedInTurn ==
  ASSUME Books, Turns, ExecReleaseWaited
  PROVE  Turns'
<1>. DEFINE e == Top.dep
            rest == ExecAt("waits")
<1>1. /\ InExec("release") /\ CallReleaseEvent(e, rest)
      /\ usage' = usage /\ outOfOrder' = outOfOrder /\ commands' = commands
      /\ alive' = alive /\ waitList' = waitList /\ appEvent' = appEvent
      /\ appQueue' = appQueue /\ enqueued' = enqueued /\ deps' = deps
      /\ status' = status /\ ran' = ran
  BY DEF ExecReleaseWaited, fixed, commandVars, appVars, history
<1>2. /\ stack # <<>> /\ Top.fn = "exec" /\ Top.pc = "release" /\ Top \in Of("exec")
      /\ Top.c \in Commands /\ e \in Commands
  BY <1>1, ExecTurn
<1>3. RunOK(Top) /\ stack = Push(Top, Below) /\ Below \in Seq(Frames) /\ Top \in Frames
  BY <1>2, TopTurn
<1>4. flushing \/ eventRefs[e] # 1
  <2>. SUFFICES ASSUME ~flushing PROVE eventRefs[e] # 1
    OBVIOUS
  <2>1. usage.wait /\ appEvent[e] > 0
    BY <1>2, <1>3 DEF RunOK
  <2>2. Calls(Releasing(e), stack) # 0
    <3>1. Top \in ToSet(stack)
      BY <1>2, TopTurn
    <3>2. Top \in Releasing(e)
      BY <1>2 DEF Releasing
    <3>3. stack \in Seq(Frames)
      BY DEF Books, TypeOK
    <3>. QED  BY <3>1, <3>2, <3>3, CallsType
  <2>3. /\ Holders(e) <= eventRefs[e] /\ appEvent[e] \in Nat /\ Cardinality(Named(e)) \in Nat
        /\ Calls(Releasing(e), stack) \in Nat /\ Count(e \in unasked) \in 0 .. 1
        /\ Count(e \in alive) \in 0 .. 1 /\ eventRefs[e] \in Nat
    BY <1>2, HoldersTypes DEF Books, EventsInv, TypeOK
  <2>. DEFINE a == appEvent[e]
              n == Cardinality(Named(e))
              r == Calls(Releasing(e), stack)
              u == Count(e \in unasked)
              l == Count(e \in alive)
              v == eventRefs[e]
  <2>4. a + l + u + n + r <= v /\ a \in Nat /\ n \in Nat /\ r \in Nat /\ u \in Nat /\ l \in Nat
        /\ v \in Nat /\ a > 0 /\ r # 0
    BY <2>1, <2>2, <2>3 DEF Holders
  <2>. HIDE DEF a, n, r, u, l, v
  <2>5. v # 1
    BY <2>4
  <2>. QED  BY <2>5 DEF v
<1>5. stack' = rest /\ flushing' = flushing
  <2>1. CASE eventRefs[e] = 1
    BY <1>1, <1>4, <2>1 DEF CallReleaseEvent, CallReleaseQueue
  <2>2. CASE eventRefs[e] # 1
    BY <1>1, <2>2 DEF CallReleaseEvent
  <2>. QED  BY <2>1, <2>2
<1>6. status[Top.c] = "queued" /\ ran[Top.c] = 0
  BY <1>1, NotYet DEF StatusAt
<1>7. status' = [status EXCEPT ![Top.c] = "queued"]
      /\ ran' = [ran EXCEPT ![Top.c] = Count("queued" = "complete")]
  BY <1>1, <1>2, <1>6 DEF Count, Books, TypeOK
<1>8. outOfOrder
  BY <1>2, <1>3 DEF RunOK, Books, TypeOK
<1>9. "queued" \in StatusAt("waits") /\ "release" # "done" /\ status[Top.c] # "complete"
      /\ "waits" \in {"waits", "submit", "run", "impl", "done"}
  BY <1>6 DEF StatusAt
<1>. QED  BY <1>1, <1>5, <1>7, <1>8, <1>9, GoesOnInTurn

-----------------------------------------------------------------------------
(* A new command comes after all others, and those it waits for are held.  *)
LEMMA EnqueueInTurn ==
  ASSUME Books, Turns, SafeWaits, NEW c \in Commands, NEW wl \in WaitLists,
         NEW asks \in BOOLEAN, NEW blocking \in BOOLEAN, Enqueue(c, wl, asks, blocking)
  PROVE  Turns'
<1>1. /\ AppMay("enqueue") /\ (blocking => stack = <<>>) /\ appQueue > 0
      /\ c \notin ToSet(enqueued)
      /\ \A e \in ToSet(wl) : appEvent[e] > 0
      /\ alive' = alive \cup {c} /\ waitList' = [waitList EXCEPT ![c] = wl]
      /\ status' = [status EXCEPT ![c] = "queued"] /\ commands' = Append(commands, c)
      /\ appEvent' = [appEvent EXCEPT ![c] = IF asks THEN 1 ELSE 0]
      /\ enqueued' = Append(enqueued, c) /\ deps' = [deps EXCEPT ![c] = wl]
      /\ IF blocking THEN CallFlush(stack) ELSE UNCHANGED <<stack, flushing>>
      /\ usage' = usage /\ outOfOrder' = outOfOrder /\ appQueue' = appQueue /\ ran' = ran
  BY DEF Enqueue, fixed
<1>2. /\ commands \in Seq(Commands) /\ enqueued \in Seq(Commands) /\ IsInjective(enqueued)
      /\ waitList \in [Commands -> Seq(Commands)] /\ deps \in [Commands -> Seq(Commands)]
      /\ status \in [Commands -> Statuses \cup {"none", "queued"}]
      /\ appEvent \in [Commands -> 0 .. MaxAppRefs] /\ stack \in Seq(Frames)
  BY DEF Books, TypeOK, KnownInv
<1>3. \A x \in Commands : x \in ToSet(enqueued) <=> status[x] # "none"
  BY DEF Books, KnownInv
<1>4. status[c] = "none"
  BY <1>1, <1>3
<1>5. wl \in Seq(Commands)
  BY WaitListsTypes
<1>6. ASSUME NEW e \in ToSet(wl) PROVE e \in Commands /\ e \in ToSet(enqueued) /\ e # c
  <2>1. e \in Commands
    BY <1>5, ElementOfSeq, LenProperties DEF ToSet
  <2>2. e \in ToSet(enqueued)
    BY <1>1, <1>3, <2>1, HeldIsKnown
  <2>. QED  BY <1>1, <2>1, <2>2
<1>7. \A x \in Commands : x # c => /\ status'[x] = status[x] /\ waitList'[x] = waitList[x]
                                   /\ deps'[x] = deps[x] /\ appEvent'[x] = appEvent[x]
  BY <1>1, <1>2
<1>8. status'[c] = "queued" /\ waitList'[c] = wl /\ deps'[c] = wl
  BY <1>1, <1>2
<1>9. /\ \A a, b : Before(enqueued, a, b) => Before(enqueued', a, b)
      /\ \A a \in ToSet(enqueued) : Before(enqueued', a, c)
  BY <1>1, <1>2, BeforeAppend
<1>10. \A a, b : Before(enqueued, a, b) => a \in ToSet(enqueued) /\ a # c
  BY <1>1 DEF Before, ToSet
<1>11. Begins
  <2>1. CASE blocking
    <3>1. AppMay("flush") /\ CallFlush(stack)
      BY <1>1, <2>1 DEF AppMay
    <3>. QED  BY <1>1, <3>1, AppFlush
  <2>2. CASE ~blocking
    BY <1>1, <2>2 DEF Begins
  <2>. QED  BY <2>1, <2>2
<1>12. InTurn(enqueued', stack)
  <2>1. InTurn(enqueued, stack)
    BY DEF Turns
  <2>. QED  BY <1>9, <2>1 DEF InTurn
<1>13. /\ Chained(stack') /\ InTurn(enqueued', stack')
       /\ \A f \in ToSet(stack') : f \in ToSet(stack) \/ f.fn \in {"flush", "release"}
       /\ ToSet(stack) \subseteq ToSet(stack')
       /\ InExec("release")' => stack' = stack
  BY <1>11, <1>12, BeginsInTurn
<1>14. ToSet(commands') = ToSet(commands) \cup {c}
  BY <1>1, <1>2, AppendFacts
<1>15. ASSUME NEW f \in ToSet(stack)
       PROVE  /\ f \in Frames /\ RunOK(f)
              /\ f.fn = "exec" => f.c \in Commands /\ f.dep \in Commands /\ f.c # c
  <2>1. f \in Frames /\ RunOK(f)
    BY <1>2, ElementOfSeq, LenProperties DEF Turns, ToSet
  <2>2. f.fn = "exec" => f.c \in Commands /\ f.dep \in Commands
    BY <2>1, FrameTypes DEF Of
  <2>3. f.fn = "exec" => status[f.c] # "none"
    BY DEF Books, FramesInv, FrameOK
  <2>. QED  BY <1>4, <2>1, <2>2, <2>3
<1>16. ASSUME NEW f \in ToSet(stack') PROVE RunOK(f)'
  <2>1. CASE f \in ToSet(stack)
    <3>1. flushing => flushing'
      BY <1>11 DEF Begins
    <3>2. /\ f \in Frames /\ RunOK(f)
          /\ f.fn = "exec" => f.c \in Commands /\ f.dep \in Commands /\ f.c # c
      BY <1>15, <2>1
    <3>3. f.fn = "exec" => /\ f.c \in alive => f.c \in alive'
                           /\ status'[f.c] = status[f.c]
                           /\ Before(enqueued, f.dep, f.c) => Before(enqueued', f.dep, f.c)
                           /\ f.c \in ToSet(commands') => f.c \in ToSet(commands)
      BY <1>1, <1>7, <1>9, <1>14, <3>2
    <3>4. f.fn = "exec" /\ f.pc = "release" => appEvent'[f.dep] = appEvent[f.dep]
      BY <1>7, <1>10, <3>2 DEF RunOK
    <3>. QED  BY <1>1, <3>1, <3>2, <3>3, <3>4, RunStays
  <2>2. CASE f.fn \in {"flush", "release"}
    BY <2>2 DEF RunOK
  <2>. QED  BY <1>13, <2>1, <2>2
<1>17. AnswerInv'
  <2>. SUFFICES ASSUME InExec("release")' PROVE status'[(Top.dep)'] = "complete"
    BY DEF AnswerInv
  <2>1. stack' = stack /\ InExec("release") /\ (Top.dep)' = Top.dep
    BY <1>13 DEF InExec, Top
  <2>2. status[Top.dep] = "complete" /\ Top.dep \in Commands
    BY <2>1, ExecTurn DEF Turns, AnswerInv
  <2>. QED  BY <1>4, <1>7, <2>1, <2>2
<1>18. \A x : Executing(x, stack) => Executing(x, stack')
  BY <1>13 DEF Executing
<1>19. ASSUME NEW x \in Commands PROVE RunInv(x)'
  <2>1. RunInv(x) /\ RunInv(c)
    BY DEF Turns
  <2>2. CASE x = c
    <3>1. ran'[c] = Count(status'[c] = "complete")
      BY <1>1, <1>4, <1>8, <2>1 DEF RunInv, Count
    <3>2. \A e \in ToSet(wl) : Before(enqueued', e, c) /\ appEvent'[e] > 0
      BY <1>1, <1>6, <1>7, <1>9
    <3>. QED  BY <1>1, <1>8, <2>2, <3>1, <3>2 DEF RunInv
  <2>3. CASE x # c
    <3>1. status'[x] = status[x] /\ waitList'[x] = waitList[x] /\ deps'[x] = deps[x]
      BY <1>7, <2>3
    <3>2. \A e \in ToSet(waitList[x]) : /\ Before(enqueued', e, x)
                                        /\ usage.wait => appEvent'[e] > 0
      <4>. TAKE e \in ToSet(waitList[x])
      <4>1. e \in Commands
        BY <1>2, ElementOfSeq, LenProperties DEF ToSet
      <4>2. Before(enqueued, e, x) /\ (usage.wait => appEvent[e] > 0)
        BY <2>1 DEF RunInv
      <4>. QED  BY <1>7, <1>9, <1>10, <4>1, <4>2
    <3>3. ASSUME outOfOrder, NEW e \in ToSet(deps[x])
          PROVE  status'[e] = "complete" \/ e \in ToSet(waitList[x]) \/ Awaited(x, e, stack')
      <4>1. e \in Commands
        BY <1>2, ElementOfSeq, LenProperties DEF ToSet
      <4>2. Awaited(x, e, stack) => Awaited(x, e, stack')
        BY <1>13 DEF Awaited
      <4>3. status[e] = "complete" => status'[e] = "complete"
        BY <1>4, <1>7, <4>1
      <4>. QED  BY <2>1, <3>3, <4>2, <4>3 DEF RunInv
    <3>. QED  BY <1>1, <1>18, <2>1, <3>1, <3>2, <3>3 DEF RunInv
  <2>. QED  BY <2>2, <2>3
<1>20. KeptInv'
  BY <1>1, <1>11, KeptOfBegins
<1>21. OrderInv'
  <2>. SUFFICES ASSUME ~outOfOrder, ~usage.wait PROVE OrderInv'
    BY <1>1 DEF OrderInv
  <2>1. /\ Len(commands) \in Nat /\ Len(enqueued) \in Nat /\ taken \in Nat
        /\ taken + Len(commands) = Len(enqueued)
        /\ DOMAIN commands = 1 .. Len(commands) /\ DOMAIN enqueued = 1 .. Len(enqueued)
        /\ \A i \in DOMAIN commands : /\ commands[i] = enqueued[taken + i]
                                      /\ status[commands[i]] = "queued"
                                      /\ commands[i] \in Commands
        /\ \A i \in 1 .. taken : /\ \/ status[enqueued[i]] = "complete"
                                    \/ i = taken /\ Executing(enqueued[i], stack)
                                 /\ i \in DOMAIN enqueued /\ enqueued[i] \in Commands
    BY OrderFacts
  <2>2. /\ Len(commands') = Len(commands) + 1
        /\ \A i \in 1 .. Len(commands) : commands'[i] = commands[i]
        /\ commands'[Len(commands) + 1] = c
    BY <1>1, <1>2, AppendProperties
  <2>3. /\ Len(enqueued') = Len(enqueued) + 1
        /\ \A i \in 1 .. Len(enqueued) : enqueued'[i] = enqueued[i]
        /\ enqueued'[Len(enqueued) + 1] = c
    BY <1>1, <1>2, AppendProperties
  <2>4. DOMAIN commands' = 1 .. Len(commands) + 1
    <3>1. commands' \in Seq(Commands)
      BY <1>1, <1>2, AppendProperties
    <3>. QED  BY <2>2, <3>1, LenProperties
  <2>. DEFINE n == Len(commands)
              m == taken
              q == Len(enqueued)
  <2>5. n \in Nat /\ m \in Nat /\ q \in Nat /\ m + n = q
    BY <2>1
  <2>6. Len(commands') = n + 1 /\ Len(enqueued') = q + 1
    BY <2>2, <2>3
  <2>7. taken' = Len(enqueued') - Len(commands')
    BY DEF taken
  <2>. HIDE DEF n, m, q
  <2>8. taken' = m /\ Len(commands') <= Len(enqueued')
    BY <2>5, <2>6, <2>7
  <2>9. \A i \in 1 .. n + 1 : i \in 1 .. n \/ (i = n + 1 /\ m + i = q + 1)
    BY <2>5
  <2>10. \A i \in 1 .. n : m + i \in 1 .. q
    BY <2>5
  <2>11. \A i \in 1 .. n : /\ commands'[i] = enqueued'[m + i]
                           /\ status'[commands'[i]] = "queued"
    <3>. TAKE i \in 1 .. n
    <3>1. commands'[i] = commands[i] /\ commands[i] = enqueued[m + i]
          /\ status[commands[i]] = "queued" /\ commands[i] \in Commands
      BY <2>1, <2>2 DEF n, m
    <3>2. enqueued'[m + i] = enqueued[m + i]
      BY <2>3, <2>10 DEF q
    <3>. QED  BY <1>4, <1>7, <3>1, <3>2
  <2>12. commands'[n + 1] = c /\ enqueued'[q + 1] = c
    BY <2>2, <2>3 DEF n, q
  <2>13. \A i \in 1 .. n + 1 : /\ commands'[i] = enqueued'[m + i]
                               /\ status'[commands'[i]] = "queued"
    BY <1>8, <2>9, <2>11, <2>12
  <2>14. \A i \in 1 .. m : \/ status'[enqueued'[i]] = "complete"
                           \/ i = m /\ Executing(enqueued'[i], stack')
    <3>. TAKE i \in 1 .. m
    <3>1. /\ status[enqueued[i]] = "complete" \/ (i = m /\ Executing(enqueued[i], stack))
          /\ enqueued[i] \in Commands /\ i \in 1 .. q
      BY <2>1 DEF m, q
    <3>2. enqueued'[i] = enqueued[i]
      BY <2>3, <3>1 DEF q
    <3>. QED  BY <1>4, <1>7, <1>18, <3>1, <3>2
  <2>15. DOMAIN commands' = 1 .. n + 1
    BY <2>4 DEF n
  <2>. QED  BY <2>8, <2>13, <2>14, <2>15 DEF OrderInv
<1>. QED  BY <1>13, <1>16, <1>17, <1>19, <1>20, <1>21 DEF Turns

-----------------------------------------------------------------------------
LEMMA ReturnInTurn ==
  ASSUME Books, Books', Turns,
         FlushReturn \/ ReleaseQueueEnd \/ ExecSkip \/ ExecReturn \/ CallbackReturn
  PROVE  Turns'
<1>1. ASSUME stack # <<>>, stack' = Below,
             Top.fn = "exec" => status[Top.c] = "complete" /\ Top.pc # "release",
             flushing' = (IF Top.fn = "flush" THEN FALSE ELSE flushing),
             UNCHANGED <<fixed, commands, eventVars, commandVars, appVars, history>>
      PROVE  Turns'
  <2>1. /\ usage' = usage /\ outOfOrder' = outOfOrder /\ commands' = commands
        /\ status' = status /\ alive' = alive /\ waitList' = waitList /\ appEvent' = appEvent
        /\ appQueue' = appQueue /\ enqueued' = enqueued /\ deps' = deps /\ ran' = ran
    BY <1>1 DEF fixed, eventVars, commandVars, appVars, history
  <2>. QED  BY <1>1, <2>1, ReturnsInTurn
<1>2. CASE FlushReturn
  <2>1. stack # <<>> /\ Top.fn = "flush"
    BY <1>2 DEF FlushReturn, InFlush
  <2>. QED  BY <1>1, <1>2, <2>1 DEF FlushReturn
<1>3. CASE ReleaseQueueEnd
  BY <1>1, <1>3 DEF ReleaseQueueEnd
<1>4. CASE ExecSkip
  <2>1. InExec("start") /\ status[Top.c] # "queued"
    BY <1>4 DEF ExecSkip
  <2>2. stack # <<>> /\ Top.fn = "exec" /\ Top.pc = "start" /\ status[Top.c] = "complete"
    BY <2>1, ExecTurn DEF StatusAt
  <2>. QED  BY <1>1, <1>4, <2>2 DEF ExecSkip, queueVars
<1>5. CASE ExecReturn
  <2>1. InExec("done")
    BY <1>5 DEF ExecReturn
  <2>2. stack # <<>> /\ Top.fn = "exec" /\ Top.pc = "done" /\ status[Top.c] = "complete"
    BY <2>1, ExecTurn DEF StatusAt
  <2>. QED  BY <1>1, <1>5, <2>2 DEF ExecReturn, queueVars
<1>6. CASE CallbackReturn
  BY <1>1, <1>6 DEF CallbackReturn, queueVars
<1>. QED  BY <1>2, <1>3, <1>4, <1>5, <1>6

LEMMA InitTurns == Init => Turns
<1>. SUFFICES ASSUME Init PROVE Turns
  OBVIOUS
<1>1. /\ stack = <<>> /\ flushing = FALSE /\ commands = <<>> /\ enqueued = <<>>
      /\ waitList = [c \in Commands |-> <<>>] /\ status = [c \in Commands |-> "none"]
      /\ deps = [c \in Commands |-> <<>>] /\ ran = [c \in Commands |-> 0]
  BY DEF Init
<1>2. ToSet(<<>>) = {}
  BY DEF ToSet
<1>3. Chained(stack) /\ InTurn(enqueued, stack) /\ \A f \in ToSet(stack) : RunOK(f)
  BY <1>1, <1>2 DEF Chained, InTurn
<1>4. AnswerInv /\ KeptInv
  BY <1>1 DEF AnswerInv, InExec, KeptInv
<1>5. \A c \in Commands : RunInv(c)
  BY <1>1, <1>2 DEF RunInv, Count
<1>6. OrderInv
  <2>1. Len(<<>>) = 0 /\ DOMAIN <<>> = {}
    OBVIOUS
  <2>2. taken = 0
    BY <1>1, <2>1 DEF taken
  <2>. QED  BY <1>1, <2>1, <2>2 DEF OrderInv
<1>. QED  BY <1>3, <1>4, <1>5, <1>6 DEF Turns

LEMMA StutterInTurn == Turns /\ UNCHANGED vars => Turns'
<1>. SUFFICES ASSUME Turns, UNCHANGED vars PROVE Turns'
  OBVIOUS
<1>1. /\ usage' = usage /\ outOfOrder' = outOfOrder /\ commands' = commands
      /\ flushing' = flushing /\ status' = status /\ alive' = alive /\ waitList' = waitList
      /\ appEvent' = appEvent /\ appQueue' = appQueue /\ enqueued' = enqueued
      /\ deps' = deps /\ ran' = ran /\ stack' = stack
  BY DEF vars, fixed, queueVars, eventVars, commandVars, appVars, history
<1>2. ASSUME NEW f, RunOK(f) PROVE RunOK(f)'
  BY <1>1, <1>2 DEF RunOK
<1>3. ASSUME NEW c, RunInv(c) PROVE RunInv(c)'
  BY <1>1, <1>3 DEF RunInv
<1>4. AnswerInv' /\ KeptInv' /\ OrderInv'
  BY <1>1 DEF Turns, AnswerInv, InExec, Top, KeptInv, OrderInv, taken
<1>. QED  BY <1>1, <1>2, <1>3, <1>4 DEF Turns

LEMMA NextTurns ==
  ASSUME Books, Books', Turns, SafeWaits, [Next]_vars
  PROVE  Turns' /\ SafeWaits'
<1>1. SafeWaits'
  BY UsageStays DEF SafeWaits
<1>. SUFFICES Turns'
  BY <1>1
<1>2. CASE Driver
  <2>1. CASE FlushReturn \/ ReleaseQueueEnd \/ ExecSkip \/ ExecReturn
    BY <2>1, ReturnInTurn
  <2>2. CASE ExecStart \/ ExecWaited \/ ExecSubmit \/ ExecRun \/ ExecImpl
    BY <2>2, ExecInTurn
  <2>. QED  BY <1>2, <2>1, <2>2, FlushNextInTurn, FlushDeleteInTurn, ExecWaitInTurn,
               ReleaseWaitedInTurn DEF Driver
<1>3. CASE Application
  <2>1. ASSUME NEW c \in Commands, NEW wl \in WaitLists, NEW asks \in BOOLEAN,
               NEW blocking \in BOOLEAN, Enqueue(c, wl, asks, blocking)
        PROVE  Turns'
    BY <2>1, EnqueueInTurn
  <2>2. ASSUME NEW e \in Commands, WaitForEvent(e) PROVE Turns'
    BY <2>2, WaitForEventInTurn
  <2>3. CASE \/ Finish \/ RetainQueue \/ ReleaseQueue
             \/ \E e \in Commands : RetainEvent(e) \/ ReleaseEvent(e)
             \/ \E e \in Commands, s \in CallbackTypes : SetCallback(e, s)
    BY <2>3, AppInTurn
  <2>. QED  BY <1>3, <2>1, <2>2, <2>3 DEF Application
<1>4. CASE CallbackReturn
  BY <1>4, ReturnInTurn
<1>5. CASE UNCHANGED vars
  BY <1>5, StutterInTurn
<1>. QED  BY <1>2, <1>3, <1>4, <1>5 DEF Next

LEMMA TurnsCorrect == Spec /\ SafeWaits => [](Books /\ Turns)
<1>1. Books /\ Books' /\ Turns /\ SafeWaits /\ [Next]_vars => Turns' /\ SafeWaits'
  BY NextTurns
<1>. QED  BY <1>1, InitTurns, BooksCorrect, PTL DEF Spec

-----------------------------------------------------------------------------
(* No command is executed twice by an application that waits safely: not   *)
(* by clWaitForEvents and a flush, nor for two commands that wait for it.  *)
THEOREM RunsOnceCorrect == Spec /\ SafeWaits => []RunsOnce
<1>1. Turns => RunsOnce
  BY DEF Turns, RunInv, RunsOnce
<1>. QED  BY <1>1, TurnsCorrect, PTL

LEMMA EventsHaveCommands == Books /\ Turns => EventHasCommandUntilCompleted
<1>. SUFFICES ASSUME Books, Turns, NEW e \in Commands, eventRefs[e] > 0, status[e] # "complete"
              PROVE  hasCommand[e]
  BY DEF EventHasCommandUntilCompleted
<1>1. status[e] # "none"
  <2>1. eventRefs[e] # 0
    OBVIOUS
  <2>. QED  BY <2>1 DEF Books, KnownInv
<1>2. SUFFICES e \in alive
  BY DEF Books, PendingInv
<1>3. CASE status[e] = "queued"
  BY <1>3 DEF Books, StartedInv, Queued
<1>4. CASE status[e] \in {"submitted", "running"}
  <2>1. PICK f \in ToSet(stack) : f.fn = "exec" /\ f.c = e
    BY <1>4 DEF Turns, RunInv, Executing
  <2>2. RunOK(f)
    BY DEF Turns
  <2>. QED  BY <1>4, <2>1, <2>2 DEF RunOK, StatusAt
<1>. QED  BY <1>1, <1>3, <1>4 DEF Books, TypeOK, Statuses

(* The command of an event is there for clGetEventProfilingInfo and        *)
(* clWaitForEvents as long as the event is not complete: a flush deletes   *)
(* completed commands only.                                                *)
THEOREM EventHasCommandCorrect == Spec /\ SafeWaits => []EventHasCommandUntilCompleted
<1>. QED  BY EventsHaveCommands, TurnsCorrect, PTL

LEMMA NothingUsedDeleted ==
  Books /\ Turns /\ "releaseQueue" \notin usage.inCallback => NoUseAfterDelete
<1>. SUFFICES ASSUME Books, Turns, "releaseQueue" \notin usage.inCallback PROVE NoUseAfterDelete
  OBVIOUS
<1>1. ASSUME NEW i \in FramesOf("exec"), stack[i].pc # "done" PROVE stack[i].c \in alive
  <2>1. stack[i].fn = "exec" /\ stack[i] \in ToSet(stack)
    BY DEF FramesOf, ToSet
  <2>. QED  BY <1>1, <2>1 DEF Turns, RunOK
<1>2. ASSUME FramesOf("flush") # {} PROVE queueRefs > 0
  <2>1. flushing
    <3>1. PICK i \in DOMAIN stack : stack[i].fn = "flush"
      BY <1>2 DEF FramesOf
    <3>2. stack \in Seq(Frames)
      BY DEF Books, TypeOK
    <3>3. stack[i] \in ToSet(stack) /\ stack[i] \in Of("flush")
      BY <3>1, <3>2, ElementOfSeq, LenProperties DEF ToSet, Of
    <3>4. Calls(Of("flush"), stack) # 0
      BY <3>2, <3>3, CallsType
    <3>. QED  BY <3>4 DEF Books, FlushInv, Count
  <2>2. appQueue > 0 \/ Calls(Of("release"), stack) > 0
    BY <2>1 DEF Turns, KeptInv
  <2>3. TypeOK
    BY DEF Books
  <2>4. Cardinality(alive) \in Nat /\ Cardinality(Referenced) \in Nat
    BY <2>3, ReferencedFacts
  <2>5. appQueue \in Nat
    BY <2>3, QueueAssumption DEF TypeOK
  <2>6. Calls(Of("release"), stack) \in Nat
    BY <2>3, CallsType DEF TypeOK
  <2>7. queueRefs = appQueue + Cardinality(alive) + Cardinality(Referenced)
                    + Calls(Of("release"), stack)
    BY DEF Books, QueueInv
  <2>. QED  BY <2>2, <2>4, <2>5, <2>6, <2>7
<1>. QED  BY <1>1, <1>2 DEF NoUseAfterDelete

(* No command is deleted under its execute, nor the queue under its flush, *)
(* as long as no callback gives up the queue.                              *)
THEOREM NoUseAfterDeleteCorrect ==
  Spec /\ SafeWaits /\ "releaseQueue" \notin usage.inCallback => []NoUseAfterDelete
<1>1. "releaseQueue" \notin usage.inCallback /\ [Next]_vars
        => ("releaseQueue" \notin usage.inCallback)'
  BY UsageStays
<1>. QED  BY <1>1, NothingUsedDeleted, TurnsCorrect, PTL DEF Spec

LEMMA ExecutedInOrder == Books /\ Turns => InOrder
<1>. SUFFICES ASSUME Books, Turns, ~outOfOrder, ~usage.wait, NEW j \in DOMAIN enqueued,
                     NEW i \in 1 .. j - 1, ran[enqueued[j]] > 0
              PROVE  ran[enqueued[i]] > 0
  BY DEF InOrder
<1>1. /\ Len(commands) \in Nat /\ Len(enqueued) \in Nat /\ taken \in Nat
      /\ taken + Len(commands) = Len(enqueued)
      /\ DOMAIN commands = 1 .. Len(commands) /\ DOMAIN enqueued = 1 .. Len(enqueued)
      /\ \A k \in DOMAIN commands : /\ commands[k] = enqueued[taken + k]
                                    /\ status[commands[k]] = "queued"
      /\ \A k \in 1 .. taken : /\ \/ status[enqueued[k]] = "complete"
                                  \/ k = taken /\ Executing(enqueued[k], stack)
                               /\ enqueued[k] \in Commands
  BY OrderFacts
<1>2. \A c \in Commands : ran[c] > 0 <=> status[c] = "complete"
  BY DEF Turns, RunInv, Count
<1>3. enqueued[j] \in Commands
  BY ElementOfSeq, LenProperties DEF Books, TypeOK
<1>4. status[enqueued[j]] = "complete"
  BY <1>2, <1>3
<1>. DEFINE m == taken
            n == Len(commands)
            q == Len(enqueued)
<1>5. m \in Nat /\ n \in Nat /\ q \in Nat /\ m + n = q /\ j \in 1 .. q
  BY <1>1
<1>. HIDE DEF m, n, q
<1>6. j \in 1 .. m
  <2>. SUFFICES ASSUME j \notin 1 .. m PROVE FALSE
    OBVIOUS
  <2>1. j - m \in 1 .. n /\ m + (j - m) = j
    BY <1>5
  <2>2. status[enqueued[m + (j - m)]] = "queued"
    BY <1>1, <2>1 DEF m, n
  <2>. QED  BY <1>4, <2>1, <2>2
<1>7. i \in 1 .. m /\ i # m
  BY <1>5, <1>6
<1>8. status[enqueued[i]] = "complete" /\ enqueued[i] \in Commands
  BY <1>1, <1>7 DEF m
<1>. QED  BY <1>2, <1>8

(* An in-order queue that is never waited on executes its commands in the  *)
(* order of their enqueueing, whatever its callbacks do.                   *)
THEOREM InOrderCorrect == Spec => []InOrder
<1>1. usage.wait /\ [Next]_vars => (usage.wait)'
  BY UsageStays
<1>2. usage.wait => InOrder
  BY DEF InOrder
<1>3. ~usage.wait => SafeWaits
  BY DEF SafeWaits
<1>. QED  BY <1>1, <1>2, <1>3, ExecutedInOrder, TurnsCorrect, PTL DEF Spec

-----------------------------------------------------------------------------
LEMMA OnlyImplRuns == [Next]_vars => ExecImpl \/ ran' = ran
  BY DEF Next, vars, history, Driver, Application, CallbackReturn, FlushNext, FlushDelete,
         FlushReturn, ReleaseQueueEnd, ExecSkip, ExecStart, ExecWait, ExecReleaseWaited,
         ExecWaited, ExecSubmit, ExecRun, ExecReturn, Enqueue, WaitForEvent,
         RetainEvent, ReleaseEvent, SetCallback, Finish, RetainQueue, ReleaseQueue

(* A command of an out-of-order queue runs when all events of the wait     *)
(* list it was enqueued with are complete.                                 *)
THEOREM WaitListCorrect == Spec /\ SafeWaits => WaitListRespected
<1>1. Books /\ Turns /\ [Next]_vars
        => [\A c \in Commands : outOfOrder /\ ran'[c] # ran[c] =>
              \A e \in ToSet(deps[c]) : status[e] = "complete"]_vars
  <2>. SUFFICES ASSUME Books, Turns, [Next]_vars, NEW c \in Commands, outOfOrder,
                       ran'[c] # ran[c], NEW e \in ToSet(deps[c])
                PROVE  status[e] = "complete"
    OBVIOUS
  <2>1. ExecImpl
    BY OnlyImplRuns
  <2>2. InExec("impl") /\ ran' = [ran EXCEPT ![Top.c] = @ + 1]
    BY <2>1 DEF ExecImpl
  <2>3. /\ Top.c \in Commands /\ Top.fn = "exec" /\ Top.pc = "impl" /\ stack # <<>>
        /\ \A g \in ToSet(Below) : g.fn = "exec" => g.c # Top.c
    BY <2>2, ExecTurn
  <2>4. c = Top.c
    BY <2>2, <2>3 DEF Books, TypeOK
  <2>5. FrameOK(Top) /\ ToSet(stack) = {Top} \cup ToSet(Below)
    BY <2>2, <2>3, ExecTop, TopTurn
  <2>6. waitList[c] = <<>>
    BY <2>3, <2>4, <2>5 DEF FrameOK, ListsHeeded
  <2>7. ~Awaited(c, e, stack)
    BY <2>3, <2>4, <2>5 DEF Awaited
  <2>. QED  BY <2>6, <2>7 DEF Turns, RunInv, ToSet
<1>. QED  BY <1>1, TurnsCorrect, PTL DEF Spec, WaitListRespected
-----------------------------------------------------------------------------
(* The queue is a TaskQueue: one lemma per kind of step.                   *)

(* Submitting, running and completing are the only steps of the driver     *)
(* that change what the application sees, besides the end of a flush.      *)
LEMMA SeenStays ==
  ASSUME [Next]_vars, flushing \in BOOLEAN
  PROVE  \/ ExecSubmit \/ ExecRun \/ ExecImpl \/ (flushing /\ ~flushing')
         \/ \E c \in Commands, wl \in WaitLists, asks, blocking \in BOOLEAN :
              Enqueue(c, wl, asks, blocking)
         \/ UNCHANGED <<enqueued, deps, status, ran>> /\ flushing' \in {flushing, TRUE}
<1>1. ASSUME NEW rest, CallFlush(rest) \/ CallReleaseQueue(rest)
      PROVE  flushing' \in {flushing, TRUE}
  BY <1>1 DEF CallFlush, CallReleaseQueue
<1>2. ASSUME NEW e, NEW rest, CallReleaseEvent(e, rest) PROVE flushing' \in {flushing, TRUE}
  BY <1>1, <1>2 DEF CallReleaseEvent
<1>3. ASSUME FlushReturn PROVE UNCHANGED <<enqueued, deps, status, ran>> /\ ~flushing'
  BY <1>3 DEF FlushReturn, history, eventVars
<1>4. ASSUME \/ FlushNext \/ FlushDelete \/ ReleaseQueueEnd \/ ExecSkip \/ ExecStart \/ ExecWait
             \/ ExecWaited \/ ExecReturn \/ CallbackReturn \/ RetainQueue
             \/ \E e \in Commands : \/ WaitForEvent(e) \/ RetainEvent(e)
                                    \/ \E s \in CallbackTypes : SetCallback(e, s)
      PROVE  UNCHANGED <<enqueued, deps, status, ran, flushing>>
  BY <1>4 DEF FlushNext, FlushDelete, ReleaseQueueEnd, ExecSkip, ExecStart, ExecWait, ExecWaited,
              ExecReturn, CallbackReturn, RetainQueue, WaitForEvent, RetainEvent, SetCallback,
              history, eventVars, queueVars
<1>5. ASSUME ExecReleaseWaited \/ Finish \/ ReleaseQueue \/ \E e \in Commands : ReleaseEvent(e)
      PROVE  UNCHANGED <<enqueued, deps, status, ran>> /\ flushing' \in {flushing, TRUE}
  <2>1. UNCHANGED <<enqueued, deps, status, ran>>
    BY <1>5 DEF ExecReleaseWaited, Finish, ReleaseQueue, ReleaseEvent, history, eventVars
  <2>2. flushing' \in {flushing, TRUE}
    BY <1>1, <1>2, <1>5 DEF ExecReleaseWaited, Finish, ReleaseQueue, ReleaseEvent
  <2>. QED  BY <2>1, <2>2
<1>6. CASE UNCHANGED vars
  BY <1>6 DEF vars, history, eventVars, queueVars
<1>7. ASSUME FlushReturn PROVE \/ flushing /\ ~flushing'
                               \/ UNCHANGED <<enqueued, deps, status, ran, flushing>>
  BY <1>7, <1>3 DEF FlushReturn
<1>. QED  BY <1>4, <1>5, <1>6, <1>7 DEF Next, Driver, Application

(* What executes nothing is not in progress: when a command is submitted   *)
(* every other call of execute waits, and waits before it submits.         *)
LEMMA NothingInProgress ==
  ASSUME Books, Turns, InExec("submit"), NEW t \in Commands
  PROVE  status[t] \notin {"submitted", "running"}
<1>. SUFFICES ASSUME status[t] \in {"submitted", "running"} PROVE FALSE
  OBVIOUS
<1>1. stack \in Seq(Frames)
  BY DEF Books, TypeOK
<1>2. PICK f \in ToSet(stack) : f.fn = "exec" /\ f.c = t
  BY DEF Turns, RunInv, Executing
<1>3. /\ stack # <<>> /\ Top.fn = "exec" /\ Top.pc = "submit" /\ status[Top.c] = "queued"
  BY ExecTurn DEF StatusAt
<1>4. RunOK(f) /\ f.pc \in {"run", "impl"}
  <2>1. RunOK(f) /\ f \in Frames
    BY <1>3, TopTurn
  <2>. QED  BY <1>2, <2>1 DEF RunOK, StatusAt, Frames, ReleaseFrame, CallbackFrame
<1>5. PICK i \in DOMAIN stack : stack[i] = f
  BY DEF ToSet
<1>6. /\ DOMAIN stack = 1 .. Len(stack) /\ Len(stack) \in Nat
      /\ Chained(stack)
  BY <1>1, LenProperties DEF Turns
<1>7. i # 1
  BY <1>3, <1>4, <1>5 DEF Top
<1>8. i - 1 \in DOMAIN stack /\ (i - 1) + 1 = i
  BY <1>6, <1>7
<1>9. CalledBy(stack[i - 1], stack[i])
  BY <1>6, <1>8 DEF Chained
<1>10. stack[i - 1].fn = "callback"
  BY <1>2, <1>4, <1>5, <1>9 DEF CalledBy
<1>11. i - 1 # 1
  BY <1>3, <1>10 DEF Top
<1>12. (i - 1) - 1 \in DOMAIN stack /\ ((i - 1) - 1) + 1 = i - 1
  BY <1>6, <1>8, <1>11
<1>13. CalledBy(stack[(i - 1) - 1], stack[i - 1])
  BY <1>6, <1>8, <1>12 DEF Chained
<1>. QED  BY <1>10, <1>13 DEF CalledBy

(* A command is submitted after everything that has to come before it.     *)
LEMMA SubmittedIsReady ==
  ASSUME Books, Turns, InExec("submit")
  PROVE  TQ!Ready(Top.c)
<1>1. /\ Top.c \in Commands /\ stack # <<>> /\ Top.fn = "exec" /\ Top.pc = "submit"
      /\ status[Top.c] = "queued"
      /\ \A g \in ToSet(Below) : g.fn = "exec" => g.c # Top.c
  BY ExecTurn DEF StatusAt
<1>2. /\ FrameOK(Top) /\ RunOK(Top) /\ ToSet(stack) = {Top} \cup ToSet(Below)
  BY <1>1, ExecTop, TopTurn
<1>3. CASE outOfOrder
  <2>1. waitList[Top.c] = <<>>
    BY <1>1, <1>2, <1>3 DEF FrameOK, ListsHeeded
  <2>2. \A e : ~Awaited(Top.c, e, stack)
    BY <1>1, <1>2 DEF Awaited
  <2>3. \A e \in ToSet(deps[Top.c]) : status[e] = "complete"
    BY <1>1, <1>3, <2>1, <2>2 DEF Turns, RunInv, ToSet
  <2>. QED  BY <1>1, <1>3, <2>3 DEF TQ!Ready
<1>4. CASE ~outOfOrder /\ ~usage.wait
  <2>1. /\ Len(commands) \in Nat /\ Len(enqueued) \in Nat /\ taken \in Nat
        /\ taken + Len(commands) = Len(enqueued)
        /\ DOMAIN commands = 1 .. Len(commands) /\ DOMAIN enqueued = 1 .. Len(enqueued)
        /\ \A k \in DOMAIN commands : commands[k] = enqueued[taken + k]
        /\ \A k \in 1 .. taken : \/ status[enqueued[k]] = "complete"
                                 \/ k = taken
    BY <1>4, OrderFacts
  <2>2. Top.c \notin ToSet(commands)
    BY <1>1, <1>2, <1>4 DEF RunOK
  <2>3. ASSUME NEW j \in DOMAIN enqueued, enqueued[j] = Top.c, NEW i \in 1 .. j - 1
        PROVE  status[enqueued[i]] = "complete"
    <3>. DEFINE m == taken
                n == Len(commands)
                q == Len(enqueued)
    <3>1. m \in Nat /\ n \in Nat /\ q \in Nat /\ m + n = q /\ j \in 1 .. q /\ i \in 1 .. j - 1
      BY <2>1, <2>3
    <3>2. \A k \in 1 .. n : commands[k] = enqueued[m + k] /\ commands[k] \in ToSet(commands)
      BY <2>1 DEF ToSet
    <3>3. \A k \in 1 .. m : status[enqueued[k]] = "complete" \/ k = m
      BY <2>1
    <3>. HIDE DEF m, n, q
    <3>4. j \in 1 .. m
      <4>. SUFFICES ASSUME j \notin 1 .. m PROVE FALSE
        OBVIOUS
      <4>1. j - m \in 1 .. n /\ m + (j - m) = j
        BY ONLY <3>1, j \notin 1 .. m
      <4>2. enqueued[j] \in ToSet(commands)
        BY ONLY <3>2, <4>1
      <4>. QED  BY <2>2, <2>3, <4>2
    <3>5. i \in 1 .. m /\ i # m
      BY ONLY <3>1, <3>4
    <3>. QED  BY ONLY <3>3, <3>5
  <2>. QED  BY <1>4, <2>3 DEF TQ!Ready
<1>5. CASE ~outOfOrder /\ usage.wait
  BY <1>5 DEF TQ!Ready
<1>. QED  BY <1>3, <1>4, <1>5
(* Every step of the queue is one of TaskQueue, or the application sees    *)
(* nothing of it.                                                          *)
LEMMA TaskQueueStep ==
  ASSUME Books, Turns, [Next]_vars
  PROVE  [TQ!Next]_(TQ!vars)
<1>0. /\ usage' = usage /\ outOfOrder' = outOfOrder /\ flushing \in BOOLEAN
      /\ deps \in [Commands -> Seq(Commands)] /\ status \in [Commands -> Statuses \cup {"none", "queued"}]
      /\ ran \in [Commands -> Nat]
      /\ \A c \in Commands : c \in ToSet(enqueued) <=> status[c] # "none"
  BY UsageStays DEF Books, TypeOK, KnownInv
<1>1. ASSUME ExecSubmit PROVE TQ!Submit(Top.c) /\ Top.c \in Commands
  <2>1. /\ InExec("submit") /\ status' = [status EXCEPT ![Top.c] = "submitted"]
        /\ UNCHANGED <<enqueued, deps, ran, flushing>>
    BY <1>1 DEF ExecSubmit, SetStatus, queueVars
  <2>2. Top.c \in Commands /\ status[Top.c] = "queued"
    BY <2>1, ExecTurn DEF StatusAt
  <2>3. TQ!InProgress = {}
    BY <2>1, NothingInProgress DEF TQ!InProgress
  <2>4. TQ!Ready(Top.c)
    BY <2>1, SubmittedIsReady
  <2>. QED  BY <1>0, <2>1, <2>2, <2>3, <2>4 DEF TQ!Submit
<1>2. ASSUME ExecRun PROVE TQ!Run(Top.c) /\ Top.c \in Commands
  <2>1. /\ InExec("run") /\ status' = [status EXCEPT ![Top.c] = "running"]
        /\ UNCHANGED <<enqueued, deps, ran, flushing>>
    BY <1>2 DEF ExecRun, SetStatus, queueVars
  <2>2. Top.c \in Commands /\ status[Top.c] = "submitted"
    BY <2>1, ExecTurn DEF StatusAt
  <2>. QED  BY <1>0, <2>1, <2>2 DEF TQ!Run
<1>3. ASSUME ExecImpl PROVE TQ!Complete(Top.c) /\ Top.c \in Commands
  <2>1. /\ InExec("impl") /\ status' = [status EXCEPT ![Top.c] = "complete"]
        /\ ran' = [ran EXCEPT ![Top.c] = @ + 1]
        /\ UNCHANGED <<enqueued, deps, flushing>>
    BY <1>3 DEF ExecImpl, SetStatus, queueVars
  <2>2. Top.c \in Commands /\ status[Top.c] = "running"
    BY <2>1, ExecTurn DEF StatusAt
  <2>. QED  BY <1>0, <2>1, <2>2 DEF TQ!Complete
<1>4. ASSUME flushing, ~flushing' PROVE TQ!Drained
  <2>1. FlushReturn
    BY <1>4, FlushStays
  <2>2. alive = {}
    BY <2>1, FlushReturnKeeps
  <2>3. ASSUME NEW t \in Commands, status[t] # "none" PROVE status[t] = "complete"
    <3>1. CASE status[t] = "queued"
      BY <2>2, <3>1 DEF Books, StartedInv, Queued
    <3>2. CASE status[t] \in {"submitted", "running"}
      <4>1. PICK f \in ToSet(stack) : f.fn = "exec" /\ f.c = t
        BY <3>2 DEF Turns, RunInv, Executing
      <4>2. RunOK(f)
        BY DEF Turns
      <4>. QED  BY <2>2, <3>2, <4>1, <4>2 DEF RunOK, StatusAt
    <3>. QED  BY <1>0, <2>3, <3>1, <3>2 DEF Statuses
  <2>4. \A t \in TQ!Known : status[t] = "complete"
    <3>1. TQ!Known = ToSet(enqueued) /\ ToSet(enqueued) \subseteq Commands
      BY ElementOfSeq, LenProperties DEF TQ!Known, ToSet, Books, TypeOK
    <3>. QED  BY <1>0, <2>3, <3>1
  <2>5. UNCHANGED <<enqueued, deps, status, ran>> /\ flushing' = FALSE
    BY <2>1 DEF FlushReturn, history, eventVars
  <2>. QED  BY <1>0, <1>4, <2>4, <2>5 DEF TQ!Drained
<1>5. ASSUME NEW c \in Commands, NEW wl \in WaitLists, NEW asks \in BOOLEAN,
             NEW blocking \in BOOLEAN, Enqueue(c, wl, asks, blocking)
      PROVE  TQ!Enter(c, ToSet(wl)) /\ ToSet(wl) \subseteq Commands
  <2>1. /\ c \notin ToSet(enqueued) /\ \A e \in ToSet(wl) : appEvent[e] > 0
        /\ enqueued' = Append(enqueued, c) /\ deps' = [deps EXCEPT ![c] = wl]
        /\ status' = [status EXCEPT ![c] = "queued"] /\ ran' = ran
    BY <1>5 DEF Enqueue
  <2>2. flushing' \in {flushing, TRUE}
    BY <1>5 DEF Enqueue, CallFlush
  <2>3. ToSet(wl) \subseteq Commands
    BY WaitListsTypes DEF ToSet
  <2>4. ToSet(wl) \subseteq ToSet(enqueued)
    BY <1>0, <2>1, <2>3, HeldIsKnown
  <2>5. TQ!Known = ToSet(enqueued)
    BY DEF TQ!Known, ToSet
  <2>6. [e \in Commands |-> ToSet(deps'[e])]
          = [[e \in Commands |-> ToSet(deps[e])] EXCEPT ![c] = ToSet(wl)]
    BY <1>0, <2>1
  <2>. QED  BY <1>0, <2>1, <2>2, <2>3, <2>4, <2>5, <2>6 DEF TQ!Enter
<1>6. ASSUME UNCHANGED <<enqueued, deps, status, ran>>, flushing' \in {flushing, TRUE}
      PROVE  [TQ!Next]_(TQ!vars)
  <2>1. CASE flushing' = flushing
    BY <1>0, <1>6, <2>1 DEF TQ!vars
  <2>2. CASE flushing' = TRUE
    BY <1>0, <1>6, <2>2 DEF TQ!Flush, TQ!Next
  <2>. QED  BY <1>6, <2>1, <2>2
<1>7. \/ ExecSubmit \/ ExecRun \/ ExecImpl \/ (flushing /\ ~flushing')
      \/ \E c \in Commands, wl \in WaitLists, asks, blocking \in BOOLEAN :
           Enqueue(c, wl, asks, blocking)
      \/ UNCHANGED <<enqueued, deps, status, ran>> /\ flushing' \in {flushing, TRUE}
  BY <1>0, SeenStays
<1>8. CASE \E c \in Commands, wl \in WaitLists, asks, blocking \in BOOLEAN :
             Enqueue(c, wl, asks, blocking)
  <2>1. PICK c \in Commands, wl \in WaitLists, asks \in BOOLEAN, blocking \in BOOLEAN :
          Enqueue(c, wl, asks, blocking)
    BY <1>8
  <2>2. TQ!Enter(c, ToSet(wl)) /\ ToSet(wl) \in SUBSET Commands
    BY <1>5, <2>1
  <2>. QED  BY <2>2 DEF TQ!Next
<1>9. CASE ExecSubmit \/ ExecRun \/ ExecImpl \/ (flushing /\ ~flushing')
  BY <1>1, <1>2, <1>3, <1>4, <1>9 DEF TQ!Next
<1>. QED  BY <1>6, <1>7, <1>8, <1>9

(* What the application sees of a queue is a TaskQueue, if no flush begins *)
(* while it waits for an event: each command is executed once, no two at a *)
(* time, after the commands of its wait list, or on an in-order queue that *)
(* is never waited on after all earlier ones, and when a flush ends there  *)
(* is nothing left to execute.                                             *)
THEOREM QueueImplementsTaskQueue == Spec /\ SafeWaits => ImplementsTaskQueue
<1>1. Init => TQ!Init
  <2>1. ToSet(<<>>) = {}
    BY DEF ToSet
  <2>. QED  BY <2>1 DEF Init, TQ!Init
<1>. QED
  BY <1>1, TaskQueueStep, TurnsCorrect, PTL DEF Spec, ImplementsTaskQueue, TQ!Spec
=============================================================================
