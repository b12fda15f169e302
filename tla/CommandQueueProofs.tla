------------------------- MODULE CommandQueueProofs -------------------------
(***************************************************************************)
(* Theorems about CommandQueue, for any set of commands, callbacks and     *)
(* bounds: the books of the queue, which are right whatever the application *)
(* does, and what a flush leaves behind.  Books is the inductive invariant. *)
(***************************************************************************)
EXTENDS CommandQueue, FiniteSetTheorems, SequenceTheorems, TLAPS

-----------------------------------------------------------------------------
(* Sequences that grow and shrink at an end.                               *)
LEMMA AppendFacts ==
  ASSUME NEW S, NEW s \in Seq(S), NEW e \in S
  PROVE  /\ Append(s, e) \in Seq(S) /\ Append(s, e) # <<>>
         /\ ToSet(Append(s, e)) = ToSet(s) \cup {e}
         /\ IsInjective(s) /\ e \notin ToSet(s) => IsInjective(Append(s, e))
<1>1. /\ Append(s, e) \in Seq(S) /\ Append(s, e) # <<>> /\ Len(Append(s, e)) = Len(s) + 1
      /\ Len(s) \in Nat /\ DOMAIN s = 1 .. Len(s)
      /\ \A i \in 1 .. Len(s) : Append(s, e)[i] = s[i]
      /\ Append(s, e)[Len(s) + 1] = e
  BY AppendProperties, LenProperties
<1>2. DOMAIN Append(s, e) = 1 .. Len(s) + 1
  BY <1>1, LenProperties
<1>3. \A i \in 1 .. Len(s) + 1 : i \in 1 .. Len(s) \/ i = Len(s) + 1
  BY <1>1
<1>4. ToSet(Append(s, e)) = ToSet(s) \cup {e}
  BY <1>1, <1>2, <1>3 DEF ToSet
<1>5. IsInjective(s) /\ e \notin ToSet(s) => IsInjective(Append(s, e))
  BY <1>1, <1>2, <1>3 DEF IsInjective, ToSet
<1>. QED  BY <1>1, <1>4, <1>5

LEMMA TailFacts ==
  ASSUME NEW S, NEW s \in Seq(S), s # <<>>
  PROVE  /\ Tail(s) \in Seq(S) /\ Head(s) \in S
         /\ ToSet(s) = {Head(s)} \cup ToSet(Tail(s))
         /\ IsInjective(s) => IsInjective(Tail(s)) /\ Head(s) \notin ToSet(Tail(s))
<1>1. /\ Head(s) \in S /\ Tail(s) \in Seq(S) /\ Len(Tail(s)) = Len(s) - 1
      /\ \A i \in 1 .. Len(s) - 1 : Tail(s)[i] = s[i + 1]
      /\ Len(s) \in Nat \ {0} /\ DOMAIN s = 1 .. Len(s) /\ Head(s) = s[1]
  BY HeadTailProperties, EmptySeq, LenProperties
<1>2. DOMAIN Tail(s) = 1 .. Len(s) - 1
  BY <1>1, LenProperties
<1>. DEFINE n == Len(s)
<1>a. n \in Nat \ {0}
  BY <1>1
<1>3. \A i \in 1 .. n : i = 1 \/ (i - 1 \in 1 .. n - 1 /\ (i - 1) + 1 = i)
  <2>. HIDE DEF n
  <2>. QED  BY <1>a
<1>4. \A i \in 1 .. n - 1 : i + 1 \in 1 .. n /\ i + 1 # 1
  <2>. HIDE DEF n
  <2>. QED  BY <1>a
<1>5. ToSet(s) = {Head(s)} \cup ToSet(Tail(s))
  <2>1. 1 \in DOMAIN s
    BY <1>1
  <2>2. \A i \in DOMAIN Tail(s) : Tail(s)[i] = s[i + 1] /\ i + 1 \in DOMAIN s
    BY <1>1, <1>2, <1>4
  <2>3. \A i \in DOMAIN s : i = 1 \/ (i - 1 \in DOMAIN Tail(s) /\ s[i] = Tail(s)[i - 1])
    BY <1>1, <1>2, <1>3
  <2>4. ASSUME NEW x \in ToSet(s) PROVE x \in {s[1]} \cup ToSet(Tail(s))
    <3>1. PICK i \in DOMAIN s : x = s[i]
      BY DEF ToSet
    <3>2. i # 1 => Tail(s)[i - 1] \in ToSet(Tail(s))
      BY <2>3 DEF ToSet
    <3>. QED  BY <2>3, <3>1, <3>2
  <2>5. ASSUME NEW x \in {s[1]} \cup ToSet(Tail(s)) PROVE x \in ToSet(s)
    BY <2>1, <2>2 DEF ToSet
  <2>. QED  BY <1>1, <2>4, <2>5
<1>6. IsInjective(s) => IsInjective(Tail(s)) /\ Head(s) \notin ToSet(Tail(s))
  BY <1>1, <1>2, <1>4 DEF IsInjective, ToSet
<1>. QED  BY <1>1, <1>5, <1>6

LEMMA FrontFacts ==
  ASSUME NEW S, NEW s \in Seq(S), s # <<>>
  PROVE  /\ Front(s) \in Seq(S) /\ Last(s) \in S
         /\ ToSet(s) = {Last(s)} \cup ToSet(Front(s))
         /\ IsInjective(s) => IsInjective(Front(s)) /\ Last(s) \notin ToSet(Front(s))
         /\ Len(s) \in Nat \ {0} /\ Len(Front(s)) = Len(s) - 1
         /\ \A i \in 1 .. Len(s) - 1 : Front(s)[i] = s[i]
<1>1. Len(s) \in Nat \ {0} /\ DOMAIN s = 1 .. Len(s) /\ \A i \in 1 .. Len(s) : s[i] \in S
  BY EmptySeq, LenProperties, ElementOfSeq
<1>2. /\ Front(s) \in Seq(S) /\ Len(Front(s)) = Len(s) - 1
      /\ \A i \in 1 .. Len(s) - 1 : Front(s)[i] = s[i]
  <2>1. 1 \in Int /\ Len(s) - 1 \in Int /\ \A i \in 1 .. Len(s) - 1 : s[i] \in S
    BY <1>1
  <2>2. /\ SubSeq(s, 1, Len(s) - 1) \in Seq(S)
        /\ Len(SubSeq(s, 1, Len(s) - 1)) = IF 1 <= Len(s) - 1 THEN (Len(s) - 1) - 1 + 1 ELSE 0
        /\ \A i \in 1 .. (Len(s) - 1) - 1 + 1 : SubSeq(s, 1, Len(s) - 1)[i] = s[1 + i - 1]
    BY <2>1, SubSeqProperties
  <2>. QED  BY <1>1, <2>2 DEF Front
<1>3. DOMAIN Front(s) = 1 .. Len(s) - 1
  BY <1>2, LenProperties
<1>. DEFINE n == Len(s)
<1>a. n \in Nat \ {0}
  BY <1>1
<1>4. \A i \in 1 .. n : i = n \/ i \in 1 .. n - 1
  <2>. HIDE DEF n
  <2>. QED  BY <1>a
<1>5. \A i \in 1 .. n - 1 : i \in 1 .. n /\ i # n
  <2>. HIDE DEF n
  <2>. QED  BY <1>a
<1>6. Last(s) = s[Len(s)] /\ Len(s) \in 1 .. Len(s)
  BY <1>1 DEF Last
<1>7. ToSet(s) = {Last(s)} \cup ToSet(Front(s))
  BY <1>1, <1>2, <1>3, <1>4, <1>5, <1>6 DEF ToSet
<1>8. IsInjective(s) => IsInjective(Front(s)) /\ Last(s) \notin ToSet(Front(s))
  BY <1>1, <1>2, <1>3, <1>5, <1>6 DEF IsInjective, ToSet
<1>. QED  BY <1>1, <1>2, <1>6, <1>7, <1>8

-----------------------------------------------------------------------------
(* The call stack: f is called, or the innermost call returns.             *)
LEMMA PushFacts ==
  ASSUME NEW S, NEW s \in Seq(S), NEW f \in S
  PROVE  /\ Push(f, s) \in Seq(S) /\ Push(f, s) # <<>>
         /\ DOMAIN s = 1 .. Len(s) /\ Len(s) \in Nat
         /\ Len(Push(f, s)) = Len(s) + 1 /\ DOMAIN Push(f, s) = 1 .. Len(s) + 1
         /\ 1 \in DOMAIN Push(f, s) /\ Push(f, s)[1] = f
         /\ \A i \in DOMAIN s : Push(f, s)[i + 1] = s[i] /\ i + 1 \in DOMAIN Push(f, s)
         /\ \A i \in DOMAIN Push(f, s) :
              i = 1 \/ (i - 1 \in DOMAIN s /\ Push(f, s)[i] = s[i - 1])
         /\ ToSet(Push(f, s)) = {f} \cup ToSet(s)
<1>1. /\ <<f>> \in Seq(S) /\ Len(<<f>>) = 1 /\ <<f>>[1] = f
      /\ Len(s) \in Nat /\ DOMAIN s = 1 .. Len(s)
  BY LenProperties
<1>2. /\ Push(f, s) \in Seq(S) /\ Len(Push(f, s)) = 1 + Len(s)
      /\ \A i \in 1 .. 1 + Len(s) : Push(f, s)[i] = IF i <= 1 THEN <<f>>[i] ELSE s[i - 1]
  BY <1>1, ConcatProperties DEF Push
<1>3. DOMAIN Push(f, s) = 1 .. Len(s) + 1 /\ Len(Push(f, s)) = Len(s) + 1
  BY <1>1, <1>2, LenProperties
<1>4. 1 \in DOMAIN Push(f, s) /\ Push(f, s)[1] = f
  BY <1>1, <1>2, <1>3
<1>5. \A i \in DOMAIN s : Push(f, s)[i + 1] = s[i] /\ i + 1 \in DOMAIN Push(f, s)
  BY <1>1, <1>2, <1>3
<1>6. \A i \in DOMAIN Push(f, s) :
        i = 1 \/ (i - 1 \in DOMAIN s /\ Push(f, s)[i] = s[i - 1])
  BY <1>1, <1>2, <1>3
<1>7. Push(f, s) # <<>>
  BY <1>1, <1>3, EmptySeq
<1>8. ToSet(Push(f, s)) = {f} \cup ToSet(s)
  BY <1>4, <1>5, <1>6 DEF ToSet
<1>. QED  BY <1>1, <1>2, <1>3, <1>4, <1>5, <1>6, <1>7, <1>8

LEMMA PopFacts ==
  ASSUME NEW S, NEW s \in Seq(S), s # <<>>
  PROVE  s[1] \in S /\ Tail(s) \in Seq(S) /\ s = Push(s[1], Tail(s)) /\ 1 \in DOMAIN s
<1>1. /\ s[1] \in S /\ Tail(s) \in Seq(S) /\ Len(Tail(s)) = Len(s) - 1
      /\ \A i \in 1 .. Len(s) - 1 : Tail(s)[i] = s[i + 1]
      /\ Len(s) \in Nat \ {0} /\ DOMAIN s = 1 .. Len(s)
  BY HeadTailProperties, EmptySeq, LenProperties
<1>a. Len(Tail(s)) + 1 = Len(s) /\ DOMAIN Tail(s) = 1 .. Len(s) - 1
  BY <1>1, LenProperties
<1>2. /\ Push(s[1], Tail(s)) \in Seq(S) /\ Len(Push(s[1], Tail(s))) = Len(s)
      /\ Push(s[1], Tail(s))[1] = s[1]
      /\ \A i \in DOMAIN Tail(s) : Push(s[1], Tail(s))[i + 1] = Tail(s)[i]
  <2>. DEFINE f == s[1]
              r == Tail(s)
  <2>1. f \in S /\ r \in Seq(S)
    BY <1>1
  <2>. HIDE DEF f, r
  <2>2. Push(f, r) \in Seq(S)
    BY <2>1, PushFacts
  <2>3. Len(Push(f, r)) = Len(r) + 1
    BY <2>1, PushFacts
  <2>4. Push(f, r)[1] = f
    BY <2>1, PushFacts
  <2>5. \A i \in DOMAIN r : Push(f, r)[i + 1] = r[i]
    BY <2>1, PushFacts
  <2>. QED  BY <1>a, <2>2, <2>3, <2>4, <2>5 DEF f, r
<1>3. ASSUME NEW i \in 1 .. Len(s) PROVE Push(s[1], Tail(s))[i] = s[i]
  <2>1. CASE i = 1
    BY <1>2, <2>1
  <2>2. CASE i # 1
    <3>1. i - 1 \in 1 .. Len(s) - 1 /\ (i - 1) + 1 = i
      BY <1>1, <2>2
    <3>. QED  BY <1>1, <1>2, <1>a, <3>1
  <2>. QED  BY <2>1, <2>2
<1>4. s = Push(s[1], Tail(s))
  BY <1>2, <1>3, SeqEqual
<1>. QED  BY <1>1, <1>4

(* How many of the calls are among P. *)
Calls(P, s) == Cardinality({i \in DOMAIN s : s[i] \in P})

LEMMA CallsType ==
  ASSUME NEW S, NEW s \in Seq(S), NEW P
  PROVE  /\ Calls(P, s) \in Nat /\ IsFiniteSet({i \in DOMAIN s : s[i] \in P})
         /\ Calls(P, s) = 0 <=> \A f \in ToSet(s) : f \notin P
<1>. DEFINE D == {i \in DOMAIN s : s[i] \in P}
<1>1. IsFiniteSet(D)
  <2>1. DOMAIN s = 1 .. Len(s) /\ Len(s) \in Nat
    BY LenProperties
  <2>2. IsFiniteSet(1 .. Len(s))
    BY <2>1, FS_Interval
  <2>. QED  BY <2>1, <2>2, FS_Subset
<1>2. Cardinality(D) \in Nat /\ (Cardinality(D) = 0 <=> D = {})
  BY <1>1, FS_CardinalityType, FS_EmptySet
<1>3. D = {} <=> \A f \in ToSet(s) : f \notin P
  BY DEF ToSet
<1>. QED  BY <1>1, <1>2, <1>3 DEF Calls

LEMMA CallsOfPush ==
  ASSUME NEW S, NEW s \in Seq(S), NEW f \in S, NEW P
  PROVE  Calls(P, Push(f, s)) = Calls(P, s) + Count(f \in P)
<1>. DEFINE D == {i \in DOMAIN s : s[i] \in P}
            E == {i \in DOMAIN Push(f, s) : Push(f, s)[i] \in P}
            F == E \ {1}
            next == [i \in D |-> i + 1]
<1>1. IsFiniteSet(D) /\ Cardinality(D) = Calls(P, s) /\ Calls(P, s) \in Nat
  BY CallsType DEF Calls
<1>2. /\ DOMAIN s = 1 .. Len(s) /\ Len(s) \in Nat
      /\ 1 \in DOMAIN Push(f, s) /\ Push(f, s)[1] = f
      /\ \A i \in DOMAIN s : Push(f, s)[i + 1] = s[i] /\ i + 1 \in DOMAIN Push(f, s)
      /\ \A i \in DOMAIN Push(f, s) :
           i = 1 \/ (i - 1 \in DOMAIN s /\ Push(f, s)[i] = s[i - 1])
      /\ DOMAIN Push(f, s) = 1 .. Len(s) + 1
  <2>1. DOMAIN s = 1 .. Len(s) /\ Len(s) \in Nat
    BY PushFacts
  <2>2. 1 \in DOMAIN Push(f, s) /\ Push(f, s)[1] = f
    BY PushFacts
  <2>3. \A i \in DOMAIN s : Push(f, s)[i + 1] = s[i] /\ i + 1 \in DOMAIN Push(f, s)
    BY PushFacts
  <2>4. \A i \in DOMAIN Push(f, s) :
          i = 1 \/ (i - 1 \in DOMAIN s /\ Push(f, s)[i] = s[i - 1])
    BY PushFacts
  <2>5. DOMAIN Push(f, s) = 1 .. Len(s) + 1
    BY PushFacts
  <2>. QED  BY <2>1, <2>2, <2>3, <2>4, <2>5
<1>a. \A i \in DOMAIN Push(f, s) : (i - 1) + 1 = i
  BY <1>2
<1>3. next \in Bijection(D, F)
  <2>1. \A i \in D : next[i] = i + 1 /\ i \in Nat \ {0} /\ i + 1 # 1
    BY <1>2
  <2>2. next \in [D -> F]
    BY <1>2, <2>1
  <2>3. \A i, j \in D : next[i] = next[j] => i = j
    BY <2>1
  <2>4. \A i \in F : i - 1 \in D /\ next[i - 1] = i
    BY <1>2, <1>a
  <2>. HIDE DEF next, D, F
  <2>5. \A i \in F : \E j \in D : next[j] = i
    BY <2>4
  <2>. QED  BY <2>2, <2>3, <2>5 DEF Bijection, Injection, Surjection, IsInjective
<1>4. IsFiniteSet(F) /\ Cardinality(F) = Cardinality(D)
  <2>. HIDE DEF next, D, F
  <2>. QED  BY <1>1, <1>3, FS_Bijection DEF ExistsBijection
<1>5. IF f \in P THEN E = F \cup {1} /\ 1 \notin F ELSE E = F
  BY <1>2
<1>6. Cardinality(E) = Cardinality(F) + Count(f \in P)
  <2>. HIDE DEF E, F
  <2>. QED  BY <1>1, <1>4, <1>5, FS_AddElement DEF Count
<1>. QED  BY <1>1, <1>4, <1>6 DEF Calls

-----------------------------------------------------------------------------
(* The calls of one function, and those that are about to release e.       *)
Of(fn) == {f \in Frames : f.fn = fn}
Releasing(e) == {f \in Of("exec") : f.pc = "release" /\ f.dep = e}

LEMMA FrameTypes ==
  /\ FlushFrame \in Frames /\ FlushFrame.fn = "flush" /\ FlushFrame.done = <<>>
  /\ ReleaseFrame \in Frames /\ ReleaseFrame.fn = "release"
  /\ CallbackFrame \in Frames /\ CallbackFrame.fn = "callback"
  /\ \A c \in Commands : /\ ExecFrame(c) \in Frames /\ ExecFrame(c).fn = "exec"
                         /\ ExecFrame(c).c = c /\ ExecFrame(c).pc = "start"
  /\ \A f \in Frames : f.fn \in {"flush", "release", "callback", "exec"}
  /\ \A f \in Of("flush") : f.done \in Seq(Commands)
  /\ \A f \in Of("exec") : f.c \in Commands /\ f.dep \in Commands
<1>1. <<>> \in Seq(Commands)
  BY EmptySeq
<1>2. FlushFrame \in Frames /\ FlushFrame.fn = "flush" /\ FlushFrame.done = <<>>
  BY <1>1 DEF FlushFrame, Frames
<1>3. ReleaseFrame \in Frames /\ ReleaseFrame.fn = "release"
  BY DEF ReleaseFrame, Frames
<1>4. CallbackFrame \in Frames /\ CallbackFrame.fn = "callback"
  BY DEF CallbackFrame, Frames
<1>5. \A c \in Commands : /\ ExecFrame(c) \in Frames /\ ExecFrame(c).fn = "exec"
                          /\ ExecFrame(c).c = c /\ ExecFrame(c).pc = "start"
  BY DEF ExecFrame, Frames
<1>6. \A f \in Frames : f.fn \in {"flush", "release", "callback", "exec"}
  BY DEF Frames, ReleaseFrame, CallbackFrame
<1>7. \A f \in Of("flush") : f.done \in Seq(Commands)
  BY DEF Of, Frames, ReleaseFrame, CallbackFrame
<1>8. \A f \in Of("exec") : f.c \in Commands /\ f.dep \in Commands
  BY DEF Of, Frames, ReleaseFrame, CallbackFrame
<1>. QED  BY <1>2, <1>3, <1>4, <1>5, <1>6, <1>7, <1>8

(* What execute and flush write into their own frame.                      *)
Pcs == {"start", "waits", "release", "submit", "run", "impl", "done"}

LEMMA ExecFrames ==
  /\ \A f \in Of("exec") : f \in [fn : {"exec"}, c : Commands, dep : Commands, pc : Pcs]
  /\ \A f \in [fn : {"exec"}, c : Commands, dep : Commands, pc : Pcs] : f \in Of("exec")
<1>1. \A f \in Of("exec") : f \in [fn : {"exec"}, c : Commands, dep : Commands, pc : Pcs]
  BY DEF Of, Frames, ReleaseFrame, CallbackFrame, Pcs
<1>2. \A f \in [fn : {"exec"}, c : Commands, dep : Commands, pc : Pcs] : f \in Of("exec")
  BY DEF Of, Frames, Pcs
<1>. QED  BY <1>1, <1>2

LEMMA FlushFrames ==
  /\ \A f \in Of("flush") : f \in [fn : {"flush"}, done : Seq(Commands)]
  /\ \A f \in [fn : {"flush"}, done : Seq(Commands)] : f \in Of("flush")
<1>1. \A f \in Of("flush") : f \in [fn : {"flush"}, done : Seq(Commands)]
  BY DEF Of, Frames, ReleaseFrame, CallbackFrame
<1>2. \A f \in [fn : {"flush"}, done : Seq(Commands)] : f \in Of("flush")
  BY DEF Of, Frames
<1>. QED  BY <1>1, <1>2

LEMMA PcUpdate ==
  ASSUME NEW f \in Of("exec"), NEW next \in Pcs, NEW g, g = [f EXCEPT !.pc = next]
  PROVE  g \in Of("exec") /\ g.c = f.c /\ g.pc = next /\ g.dep = f.dep
<1>1. f \in [fn : {"exec"}, c : Commands, dep : Commands, pc : Pcs]
  BY ExecFrames
<1>2. /\ g \in [fn : {"exec"}, c : Commands, dep : Commands, pc : Pcs]
      /\ g.c = f.c /\ g.pc = next /\ g.dep = f.dep
  BY <1>1
<1>. QED  BY <1>2, ExecFrames

LEMMA DepUpdate ==
  ASSUME NEW f \in Of("exec"), NEW e \in Commands, NEW g, g = [f EXCEPT !.dep = e]
  PROVE  g \in Of("exec") /\ g.c = f.c /\ g.pc = f.pc /\ g.dep = e
<1>1. f \in [fn : {"exec"}, c : Commands, dep : Commands, pc : Pcs]
  BY ExecFrames
<1>2. /\ g \in [fn : {"exec"}, c : Commands, dep : Commands, pc : Pcs]
      /\ g.c = f.c /\ g.pc = f.pc /\ g.dep = e
  BY <1>1
<1>. QED  BY <1>2, ExecFrames

LEMMA DoneUpdate ==
  ASSUME NEW f \in Of("flush"), NEW d \in Seq(Commands), NEW g, g = [f EXCEPT !.done = d]
  PROVE  g \in Of("flush") /\ g.done = d
<1>1. f \in [fn : {"flush"}, done : Seq(Commands)]
  BY FlushFrames
<1>2. g \in [fn : {"flush"}, done : Seq(Commands)] /\ g.done = d
  BY <1>1
<1>. QED  BY <1>2, FlushFrames

(* The commands that flushes have taken and not deleted yet. *)
Taken(s) == UNION {ToSet(f.done) : f \in {g \in ToSet(s) : g.fn = "flush"}}

LEMMA TakenOfPush ==
  ASSUME NEW s \in Seq(Frames), NEW f \in Frames
  PROVE  Taken(Push(f, s)) = Taken(s) \cup (IF f.fn = "flush" THEN ToSet(f.done) ELSE {})
<1>1. ToSet(Push(f, s)) = {f} \cup ToSet(s)
  BY PushFacts
<1>. QED  BY <1>1 DEF Taken

(* Those of them that are in Q have a call of execute above the flush.     *)
Started(Q, s) ==
  \A k \in DOMAIN s : s[k].fn = "flush" =>
    \A c \in ToSet(s[k].done) \cap Q :
      \E i \in DOMAIN s : i < k /\ s[i].fn = "exec" /\ s[i].c = c

LEMMA StartedOfPush ==
  ASSUME NEW s \in Seq(Frames), NEW f \in Frames, NEW Q, Started(Q, s),
         f.fn = "flush" => f.done = <<>>
  PROVE  Started(Q, Push(f, s))
<1>1. DOMAIN s = 1 .. Len(s) /\ Len(s) \in Nat
  BY PushFacts
<1>2. Push(f, s)[1] = f
  BY PushFacts
<1>3. \A i \in DOMAIN s : Push(f, s)[i + 1] = s[i] /\ i + 1 \in DOMAIN Push(f, s)
  BY PushFacts
<1>4. \A i \in DOMAIN Push(f, s) :
        i = 1 \/ (i - 1 \in DOMAIN s /\ Push(f, s)[i] = s[i - 1])
  BY PushFacts
<1>5. DOMAIN Push(f, s) = 1 .. Len(s) + 1
  BY PushFacts
<1>. SUFFICES ASSUME NEW k \in DOMAIN Push(f, s), Push(f, s)[k].fn = "flush",
                     NEW c \in ToSet(Push(f, s)[k].done) \cap Q
              PROVE  \E i \in DOMAIN Push(f, s) : /\ i < k /\ Push(f, s)[i].fn = "exec"
                                                  /\ Push(f, s)[i].c = c
  BY DEF Started
<1>6. k # 1
  BY <1>2 DEF ToSet
<1>7. k - 1 \in DOMAIN s /\ Push(f, s)[k] = s[k - 1]
  BY <1>4, <1>6
<1>8. PICK i \in DOMAIN s : i < k - 1 /\ s[i].fn = "exec" /\ s[i].c = c
  BY <1>7 DEF Started
<1>9. i + 1 < k
  BY <1>1, <1>5, <1>8
<1>. QED  BY <1>3, <1>8, <1>9

LEMMA StartedOfPop ==
  ASSUME NEW s \in Seq(Frames), NEW f \in Frames, NEW Q, Started(Q, Push(f, s)),
         f.fn = "exec" => f.c \notin Q
  PROVE  Started(Q, s)
<1>1. DOMAIN s = 1 .. Len(s) /\ Len(s) \in Nat
  BY PushFacts
<1>2. Push(f, s)[1] = f
  BY PushFacts
<1>3. \A i \in DOMAIN s : Push(f, s)[i + 1] = s[i] /\ i + 1 \in DOMAIN Push(f, s)
  BY PushFacts
<1>4. \A i \in DOMAIN Push(f, s) :
        i = 1 \/ (i - 1 \in DOMAIN s /\ Push(f, s)[i] = s[i - 1])
  BY PushFacts
<1>5. DOMAIN Push(f, s) = 1 .. Len(s) + 1
  BY PushFacts
<1>. SUFFICES ASSUME NEW k \in DOMAIN s, s[k].fn = "flush", NEW c \in ToSet(s[k].done) \cap Q
              PROVE  \E i \in DOMAIN s : i < k /\ s[i].fn = "exec" /\ s[i].c = c
  BY DEF Started
<1>6. k + 1 \in DOMAIN Push(f, s) /\ Push(f, s)[k + 1] = s[k]
  BY <1>3
<1>7. PICK i \in DOMAIN Push(f, s) :
             i < k + 1 /\ Push(f, s)[i].fn = "exec" /\ Push(f, s)[i].c = c
  BY <1>6 DEF Started
<1>8. i # 1
  BY <1>2, <1>7
<1>9. i - 1 \in DOMAIN s /\ Push(f, s)[i] = s[i - 1] /\ i - 1 < k
  BY <1>1, <1>4, <1>5, <1>7, <1>8
<1>. QED  BY <1>7, <1>9

(* A call of execute goes on with the same command.                        *)
LEMMA StartedOfReplace ==
  ASSUME NEW s \in Seq(Frames), NEW f \in Of("exec"), NEW g \in Of("exec"), g.c = f.c,
         NEW Q, Started(Q, Push(f, s))
  PROVE  Started(Q, Push(g, s))
<1>1. DOMAIN Push(f, s) = 1 .. Len(s) + 1
  BY PushFacts DEF Of
<1>2. DOMAIN Push(g, s) = 1 .. Len(s) + 1
  BY PushFacts DEF Of
<1>3. Push(f, s)[1] = f
  BY PushFacts DEF Of
<1>4. Push(g, s)[1] = g
  BY PushFacts DEF Of
<1>5. \A i \in DOMAIN Push(f, s) : i = 1 \/ Push(f, s)[i] = s[i - 1]
  BY PushFacts DEF Of
<1>6. \A i \in DOMAIN Push(g, s) : i = 1 \/ Push(g, s)[i] = s[i - 1]
  BY PushFacts DEF Of
<1>7. \A i \in DOMAIN Push(f, s) : i \in DOMAIN Push(g, s) /\ (i # 1 => Push(g, s)[i] = Push(f, s)[i])
  BY <1>1, <1>2, <1>5, <1>6
<1>8. f.fn = "exec" /\ g.fn = "exec"
  BY DEF Of
<1>. SUFFICES ASSUME NEW k \in DOMAIN Push(g, s), Push(g, s)[k].fn = "flush",
                     NEW c \in ToSet(Push(g, s)[k].done) \cap Q
              PROVE  \E i \in DOMAIN Push(g, s) : /\ i < k /\ Push(g, s)[i].fn = "exec"
                                                  /\ Push(g, s)[i].c = c
  BY DEF Started
<1>9. k # 1 /\ k \in DOMAIN Push(f, s) /\ Push(g, s)[k] = Push(f, s)[k]
  BY <1>1, <1>2, <1>4, <1>7, <1>8
<1>10. PICK i \in DOMAIN Push(f, s) : i < k /\ Push(f, s)[i].fn = "exec" /\ Push(f, s)[i].c = c
  BY <1>9 DEF Started
<1>11. i \in DOMAIN Push(g, s) /\ Push(g, s)[i].fn = "exec" /\ Push(g, s)[i].c = c
  BY <1>3, <1>4, <1>7, <1>8, <1>10
<1>. QED  BY <1>10, <1>11

LEMMA StartedOfTake ==
  ASSUME NEW s \in Seq(Frames), NEW f \in Of("flush"), NEW c \in Commands, NEW Q,
         Started(Q, Push(f, s)),
         NEW g \in Of("flush"), ToSet(g.done) = ToSet(f.done) \cup {c}
  PROVE  Started(Q, Push(ExecFrame(c), Push(g, s)))
<1>. DEFINE t == Push(g, s)
            u == Push(ExecFrame(c), t)
<1>1. /\ t \in Seq(Frames) /\ f \in Frames /\ g \in Frames /\ f.fn = "flush" /\ g.fn = "flush"
      /\ ExecFrame(c) \in Frames /\ ExecFrame(c).fn = "exec" /\ ExecFrame(c).c = c
  <2>1. f \in Frames /\ g \in Frames /\ f.fn = "flush" /\ g.fn = "flush"
    BY DEF Of
  <2>. QED  BY <2>1, PushFacts, FrameTypes
<1>2. DOMAIN Push(f, s) = 1 .. Len(s) + 1 /\ Len(s) \in Nat
  BY <1>1, PushFacts
<1>3. DOMAIN t = 1 .. Len(s) + 1 /\ Len(t) = Len(s) + 1
  BY <1>1, PushFacts
<1>4. Push(f, s)[1] = f
  BY <1>1, PushFacts
<1>5. t[1] = g
  BY <1>1, PushFacts
<1>6. \A i \in DOMAIN Push(f, s) : i = 1 \/ Push(f, s)[i] = s[i - 1]
  BY <1>1, PushFacts
<1>7. \A i \in DOMAIN t : i = 1 \/ t[i] = s[i - 1]
  BY <1>1, PushFacts
<1>. HIDE DEF t
<1>8. u[1] = ExecFrame(c) /\ 1 \in DOMAIN u
  BY <1>1, PushFacts
<1>9. \A i \in DOMAIN t : u[i + 1] = t[i] /\ i + 1 \in DOMAIN u
  BY <1>1, PushFacts
<1>10. \A i \in DOMAIN u : i = 1 \/ (i - 1 \in DOMAIN t /\ u[i] = t[i - 1])
  BY <1>1, PushFacts
<1>11. DOMAIN u = 1 .. Len(t) + 1
  BY <1>1, PushFacts
<1>. HIDE DEF u
<1>. SUFFICES ASSUME NEW k \in DOMAIN u, u[k].fn = "flush", NEW x \in ToSet(u[k].done) \cap Q
              PROVE  \E i \in DOMAIN u : i < k /\ u[i].fn = "exec" /\ u[i].c = x
  BY DEF Started, u, t
<1>12. k # 1 /\ k - 1 \in DOMAIN t /\ u[k] = t[k - 1] /\ k \in Nat
  BY <1>1, <1>2, <1>3, <1>8, <1>10, <1>11
<1>13. CASE k = 2
  <2>1. x \in ToSet(f.done) \cup {c}
    BY <1>5, <1>12, <1>13
  <2>2. x \notin ToSet(f.done)
    <3>. SUFFICES ASSUME x \in ToSet(f.done) PROVE FALSE
      OBVIOUS
    <3>1. 1 \in DOMAIN Push(f, s) /\ Push(f, s)[1].fn = "flush"
      BY <1>1, <1>2, <1>4
    <3>2. PICK i \in DOMAIN Push(f, s) : i < 1
      BY <1>4, <3>1 DEF Started
    <3>. QED  BY <1>2, <3>2
  <2>. QED  BY <1>1, <1>8, <1>13, <2>1, <2>2
<1>14. CASE k # 2
  <2>1. k - 1 \in DOMAIN Push(f, s) /\ k - 1 # 1 /\ Push(f, s)[k - 1] = t[k - 1]
    BY <1>2, <1>3, <1>6, <1>7, <1>12, <1>14
  <2>2. PICK i \in DOMAIN Push(f, s) :
               i < k - 1 /\ Push(f, s)[i].fn = "exec" /\ Push(f, s)[i].c = x
    BY <1>12, <2>1 DEF Started
  <2>3. i # 1
    BY <1>1, <1>4, <2>2
  <2>4. i \in DOMAIN t /\ t[i] = Push(f, s)[i]
    BY <1>2, <1>3, <1>6, <1>7, <2>3
  <2>5. i + 1 < k
    BY <1>2, <1>12, <2>2
  <2>. QED  BY <1>9, <2>2, <2>4, <2>5
<1>. QED  BY <1>13, <1>14

LEMMA StartedOfFewer ==
  ASSUME NEW s \in Seq(Frames), NEW Q, NEW R, Started(Q, s), R \cap Taken(s) \subseteq Q
  PROVE  Started(R, s)
  BY DEF Started, Taken, ToSet

LEMMA NothingTaken ==
  ASSUME NEW s \in Seq(Frames), Calls(Of("flush"), s) = 0
  PROVE  Taken(s) = {} /\ \A f \in ToSet(s) : f.fn # "flush"
<1>1. \A f \in ToSet(s) : f \notin Of("flush")
  BY CallsType
<1>2. \A f \in ToSet(s) : f \in Frames
  BY ElementOfSeq, LenProperties DEF ToSet
<1>. QED  BY <1>1, <1>2 DEF Taken, Of

-----------------------------------------------------------------------------
(* The invariant of the books, under any usage.                            *)

(* A command has a status from its enqueueing on. *)
KnownInv ==
  /\ IsInjective(enqueued)
  /\ \A c \in Commands : c \in ToSet(enqueued) <=> status[c] # "none"
  /\ \A c \in Commands : status[c] = "none" => eventRefs[c] = 0

(* There is one flush at most, and flushInProcess says whether. *)
FlushInv == Calls(Of("flush"), stack) = Count(flushing)

(* An allocated command waits in the queue or has been taken, and once. *)
PendingInv ==
  /\ alive = ToSet(commands) \cup Taken(stack) /\ ToSet(commands) \cap Taken(stack) = {}
  /\ IsInjective(commands)
  /\ \A c \in Commands : hasCommand[c] <=> c \in alive

(* A command that has been taken has been executed, or is being so. *)
Queued == {c \in Commands : status[c] = "queued"}

StartedInv == Queued \subseteq alive /\ Started(Queued, stack)

(* Only an out-of-order queue looks at the wait lists. *)
ListsHeeded == outOfOrder \/ ~usage.orderLists

(* A call of execute has an enqueued command, and when it has submitted    *)
(* the command nothing is left to wait for.                                *)
FrameOK(f) ==
  /\ f.fn = "flush" => IsInjective(f.done)
  /\ f.fn = "exec" =>
       /\ status[f.c] # "none"
       /\ f.pc \in {"run", "impl", "done"} => status[f.c] # "queued"
       /\ ListsHeeded /\ f.pc \in {"submit", "run", "impl", "done"}
            => waitList[f.c] = <<>>

FramesInv == \A f \in ToSet(stack) : FrameOK(f)

(* A wait list names an event once, and goes with its command; without     *)
(* wait lists on an in-order queue it is empty when its command is         *)
(* submitted.                                                              *)
ListInv ==
  \A c \in Commands :
    /\ IsInjective(waitList[c])
    /\ c \notin alive => waitList[c] = <<>>
    /\ \A e \in ToSet(waitList[c]) : status[e] # "none"
    /\ ListsHeeded /\ (~outOfOrder \/ status[c] \notin {"none", "queued"})
         => waitList[c] = <<>>

(* No event is referred to less often than RefsAccounted says, nor more    *)
(* often without wait lists on an in-order queue.                          *)
Named(e) == {c \in alive : e \in ToSet(waitList[c])}

Holders(e) ==
  appEvent[e] + Count(e \in alive) + Count(e \in unasked) + Cardinality(Named(e))
  + Calls(Releasing(e), stack)

EventsInv ==
  \A e \in Commands : /\ Holders(e) <= eventRefs[e]
                      /\ ListsHeeded => eventRefs[e] = Holders(e)

Referenced == {e \in Commands : eventRefs[e] > 0}

QueueInv ==
  queueRefs = appQueue + Cardinality(alive) + Cardinality(Referenced)
              + Calls(Of("release"), stack)

(* The last reference of the application is given up with a flush. *)
LastInv == appQueue = 0 /\ ~flushing => alive = {}

Books ==
  /\ TypeOK /\ KnownInv /\ FlushInv /\ PendingInv /\ StartedInv /\ FramesInv /\ ListInv
  /\ EventsInv /\ QueueInv /\ LastInv

LEMMA CountType == \A b \in BOOLEAN : Count(b) \in 0 .. 1 /\ (Count(b) = 1 <=> b)
  BY DEF Count

LEMMA HoldersTypes ==
  ASSUME TypeOK, NEW e \in Commands
  PROVE  /\ IsFiniteSet(Named(e)) /\ Cardinality(Named(e)) \in Nat
         /\ Calls(Releasing(e), stack) \in Nat /\ appEvent[e] \in Nat
         /\ Count(e \in alive) \in 0 .. 1 /\ Count(e \in unasked) \in 0 .. 1
         /\ Holders(e) \in Nat
<1>1. IsFiniteSet(Named(e))
  <2>1. Named(e) \in SUBSET Commands
    BY DEF TypeOK, Named
  <2>. QED  BY <2>1, QueueAssumption, FS_Subset
<1>2. Cardinality(Named(e)) \in Nat
  BY <1>1, FS_CardinalityType
<1>3. Calls(Releasing(e), stack) \in Nat
  BY CallsType DEF TypeOK
<1>4. appEvent[e] \in Nat
  BY QueueAssumption DEF TypeOK
<1>5. Count(e \in alive) \in 0 .. 1 /\ Count(e \in unasked) \in 0 .. 1
  BY DEF Count
<1>6. Holders(e) \in Nat
  BY <1>2, <1>3, <1>4, <1>5 DEF Holders
<1>. QED  BY <1>1, <1>2, <1>3, <1>4, <1>5, <1>6

LEMMA NoCalls == \A P : Calls(P, <<>>) = 0
<1>. TAKE P
<1>1. <<>> \in Seq(Frames) /\ ToSet(<<>>) = {}
  BY EmptySeq DEF ToSet
<1>. QED  BY <1>1, CallsType

LEMMA InitBooks == Init => Books
<1>. SUFFICES ASSUME Init PROVE Books
  OBVIOUS
<1>1. /\ commands = <<>> /\ flushing = FALSE /\ queueRefs = 1 /\ alive = {} /\ stack = <<>>
      /\ enqueued = <<>> /\ unasked = {} /\ appQueue = 1
      /\ waitList = [c \in Commands |-> <<>>] /\ status = [c \in Commands |-> "none"]
      /\ eventRefs = [c \in Commands |-> 0] /\ hasCommand = [c \in Commands |-> FALSE]
      /\ appEvent = [c \in Commands |-> 0]
  BY DEF Init
<1>2. TypeOK
  <2>1. commands \in Seq(Commands) /\ stack \in Seq(Frames) /\ enqueued \in Seq(Commands)
    BY <1>1, EmptySeq
  <2>2. <<>> \in Seq(Commands)
    BY EmptySeq
  <2>3. waitList \in [Commands -> Seq(Commands)] /\ deps \in [Commands -> Seq(Commands)]
    BY <2>2 DEF Init
  <2>4. 0 \in 0 .. MaxAppRefs /\ 1 \in 0 .. MaxAppRefs
    BY QueueAssumption
  <2>5. appEvent \in [Commands -> 0 .. MaxAppRefs] /\ appQueue \in 0 .. MaxAppRefs
    BY <1>1, <2>4
  <2>6. callbacks \in [Commands -> SUBSET CallbackTypes] /\ ran \in [Commands -> Nat]
    BY DEF Init
  <2>7. usage \in Usages /\ outOfOrder \in BOOLEAN
    BY DEF Init
  <2>. QED  BY <1>1, <2>1, <2>3, <2>5, <2>6, <2>7 DEF TypeOK
<1>3. ToSet(<<>>) = {} /\ IsInjective(<<>>)
  BY DEF ToSet, IsInjective
<1>4. Taken(stack) = {}
  BY <1>1, <1>3 DEF Taken
<1>5. KnownInv
  BY <1>1, <1>3 DEF KnownInv
<1>6. FlushInv
  BY <1>1, NoCalls DEF FlushInv, Count
<1>7. PendingInv
  BY <1>1, <1>3, <1>4 DEF PendingInv
<1>8. StartedInv
  BY <1>1 DEF StartedInv, Queued, Started
<1>9. FramesInv
  BY <1>1, <1>3 DEF FramesInv
<1>10. ListInv
  BY <1>1, <1>3 DEF ListInv
<1>11. EventsInv
  <2>1. \A e \in Commands : Named(e) = {}
    BY <1>1 DEF Named
  <2>2. ASSUME NEW e \in Commands PROVE Holders(e) = 0
    <3>1. /\ appEvent[e] = 0 /\ Count(e \in alive) = 0 /\ Count(e \in unasked) = 0
          /\ Cardinality(Named(e)) = 0 /\ Calls(Releasing(e), stack) = 0
      BY <1>1, <2>1, NoCalls, FS_EmptySet DEF Count
    <3>. QED  BY <3>1 DEF Holders
  <2>. QED  BY <1>1, <2>2 DEF EventsInv
<1>12. QueueInv
  <2>1. Referenced = {}
    BY <1>1 DEF Referenced
  <2>. QED  BY <1>1, <2>1, NoCalls, FS_EmptySet DEF QueueInv
<1>13. LastInv
  BY <1>1 DEF LastInv
<1>. QED  BY <1>2, <1>5, <1>6, <1>7, <1>8, <1>9, <1>10, <1>11, <1>12, <1>13 DEF Books

(* Two stacks with the same flushes, releases of the queue, and releases of events. *)
SameHolders(s, t) ==
  /\ Calls(Of("flush"), s) = Calls(Of("flush"), t) /\ Taken(s) = Taken(t)
  /\ Calls(Of("release"), s) = Calls(Of("release"), t)
  /\ \A e \in Commands : Calls(Releasing(e), s) = Calls(Releasing(e), t)

LEMMA SameTrans ==
  ASSUME NEW s, NEW t, NEW u, SameHolders(s, t)
  PROVE  SameHolders(t, s) /\ (SameHolders(t, u) => SameHolders(s, u))
         /\ (SameHolders(u, t) => SameHolders(s, u))
  BY DEF SameHolders

(* What a step keeps that only calls, returns or sets a status.            *)
StatusGoesOn ==
  \A c \in Commands : \/ status'[c] = status[c]
                      \/ /\ status[c] # "none" /\ status'[c] \notin {"none", "queued"}
                         /\ ListsHeeded => waitList[c] = <<>>

LEMMA QuietKeeps ==
  ASSUME Books,
         UNCHANGED <<fixed, commands, queueRefs, eventRefs, hasCommand, callbacks,
                     commandVars, appVars, enqueued, deps, unasked>>,
         stack' \in Seq(Frames), flushing' \in BOOLEAN, ran' \in [Commands -> Nat],
         status' \in [Commands -> Statuses \cup {"none", "queued"}],
         StatusGoesOn,
         FlushInv', SameHolders(stack', stack), Started(Queued, stack'), FramesInv', LastInv'
  PROVE  Books'
<1>1. /\ usage' = usage /\ outOfOrder' = outOfOrder /\ commands' = commands
      /\ queueRefs' = queueRefs /\ eventRefs' = eventRefs /\ hasCommand' = hasCommand
      /\ callbacks' = callbacks /\ alive' = alive /\ waitList' = waitList
      /\ appEvent' = appEvent /\ appQueue' = appQueue /\ enqueued' = enqueued
      /\ deps' = deps /\ unasked' = unasked
  BY DEF fixed, commandVars, appVars
<1>2. TypeOK'
  BY <1>1 DEF Books, TypeOK
<1>3. \A c \in Commands : (status'[c] = "none" <=> status[c] = "none")
                          /\ (status'[c] = "queued" => status[c] = "queued")
  BY DEF StatusGoesOn
<1>4. KnownInv'
  BY <1>1, <1>3 DEF Books, KnownInv
<1>5. PendingInv'
  BY <1>1 DEF Books, PendingInv, SameHolders
<1>6. StartedInv'
  <2>1. Queued' \subseteq Queued
    BY <1>3 DEF Queued
  <2>2. Started(Queued', stack')
    <3>1. Queued' \cap Taken(stack') \subseteq Queued
      BY <2>1
    <3>. QED  BY <3>1, StartedOfFewer
  <2>. QED  BY <1>1, <2>1, <2>2 DEF Books, StartedInv
<1>7. ListInv'
  <2>. SUFFICES ASSUME NEW c \in Commands
                PROVE  /\ IsInjective(waitList[c])
                       /\ c \notin alive => waitList[c] = <<>>
                       /\ \A e \in ToSet(waitList[c]) : status'[e] # "none"
                       /\ ListsHeeded /\ (~outOfOrder \/ status'[c] \notin {"none", "queued"})
                            => waitList[c] = <<>>
    BY <1>1 DEF ListInv, ListsHeeded
  <2>1. \A e \in ToSet(waitList[c]) : e \in Commands
    BY ElementOfSeq, LenProperties DEF Books, TypeOK, ToSet
  <2>2. \A e \in ToSet(waitList[c]) : status'[e] # "none"
    BY <1>3, <2>1 DEF Books, ListInv
  <2>. QED  BY <2>2 DEF Books, ListInv, StatusGoesOn
<1>8. EventsInv'
  <2>1. \A e \in Commands : Named(e)' = Named(e)
    BY <1>1 DEF Named
  <2>2. \A e \in Commands : Holders(e)' = Holders(e)
    BY <1>1, <2>1 DEF Holders, SameHolders
  <2>. QED  BY <1>1, <2>2 DEF Books, EventsInv, ListsHeeded
<1>9. QueueInv'
  <2>1. Referenced' = Referenced
    BY <1>1 DEF Referenced
  <2>. QED  BY <1>1, <2>1 DEF Books, QueueInv, SameHolders
<1>. QED  BY <1>2, <1>4, <1>5, <1>6, <1>7, <1>8, <1>9 DEF Books

-----------------------------------------------------------------------------
(* A call that is neither a flush nor a release of the queue, nor about to *)
(* release an event, is nobody's holder.                                   *)
Neutral(f) == f \in Frames /\ f.fn \in {"callback", "exec"} /\ (f.fn = "exec" => f.pc # "release")

LEMMA PushNeutral ==
  ASSUME NEW s \in Seq(Frames), NEW f, Neutral(f)
  PROVE  /\ Push(f, s) \in Seq(Frames) /\ ToSet(Push(f, s)) = {f} \cup ToSet(s)
         /\ SameHolders(Push(f, s), s)
         /\ \A Q : Started(Q, s) => Started(Q, Push(f, s))
         /\ \A Q : Started(Q, Push(f, s)) /\ (f.fn = "exec" => f.c \notin Q) => Started(Q, s)
<1>1. f \in Frames /\ f.fn # "flush" /\ f \notin Of("flush") /\ f \notin Of("release")
      /\ \A e : f \notin Releasing(e)
  BY DEF Neutral, Of, Releasing
<1>2. Push(f, s) \in Seq(Frames) /\ ToSet(Push(f, s)) = {f} \cup ToSet(s)
  BY <1>1, PushFacts
<1>3. ASSUME NEW P, f \notin P PROVE Calls(P, Push(f, s)) = Calls(P, s)
  <2>1. Calls(P, Push(f, s)) = Calls(P, s) + Count(f \in P)
    BY <1>1, CallsOfPush
  <2>2. Calls(P, s) \in Nat
    BY CallsType
  <2>. QED  BY <1>3, <2>1, <2>2 DEF Count
<1>4. SameHolders(Push(f, s), s)
  <2>1. Taken(Push(f, s)) = Taken(s)
    BY <1>1, TakenOfPush
  <2>. QED  BY <1>1, <1>3, <2>1 DEF SameHolders
<1>5. \A Q : Started(Q, s) => Started(Q, Push(f, s))
  BY <1>1, StartedOfPush
<1>6. \A Q : Started(Q, Push(f, s)) /\ (f.fn = "exec" => f.c \notin Q) => Started(Q, s)
  BY <1>1, StartedOfPop
<1>. QED  BY <1>2, <1>4, <1>5, <1>6

LEMMA TopFacts ==
  ASSUME TypeOK, stack # <<>>
  PROVE  /\ Top \in Frames /\ Below \in Seq(Frames) /\ stack = Push(Top, Below)
         /\ ToSet(stack) = {Top} \cup ToSet(Below)
<1>1. stack \in Seq(Frames)
  BY DEF TypeOK
<1>2. stack[1] \in Frames /\ Tail(stack) \in Seq(Frames) /\ stack = Push(stack[1], Tail(stack))
  BY <1>1, PopFacts
<1>3. ToSet(Push(stack[1], Tail(stack))) = {stack[1]} \cup ToSet(Tail(stack))
  BY <1>2, PushFacts
<1>. QED  BY <1>2, <1>3 DEF Top, Below

LEMMA ExecTop ==
  ASSUME Books, NEW pc, InExec(pc)
  PROVE  /\ stack # <<>> /\ Top \in Of("exec") /\ Top.c \in Commands /\ Top.dep \in Commands
         /\ Top.pc = pc /\ Below \in Seq(Frames) /\ stack = Push(Top, Below)
         /\ ToSet(Below) \subseteq ToSet(stack) /\ FrameOK(Top) /\ status[Top.c] # "none"
<1>1. stack # <<>> /\ Top.fn = "exec" /\ Top.pc = pc
  BY DEF InExec
<1>2. Top \in Frames /\ Below \in Seq(Frames) /\ stack = Push(Top, Below)
      /\ ToSet(stack) = {Top} \cup ToSet(Below)
  BY <1>1, TopFacts DEF Books
<1>3. Top \in Of("exec")
  BY <1>1, <1>2 DEF Of
<1>4. Top.c \in Commands /\ Top.dep \in Commands
  BY <1>3, FrameTypes
<1>5. FrameOK(Top)
  BY <1>2 DEF Books, FramesInv
<1>6. status[Top.c] # "none"
  BY <1>1, <1>5 DEF FrameOK
<1>. QED  BY <1>1, <1>2, <1>3, <1>4, <1>5, <1>6

(* The innermost execute goes on at another place, perhaps after a         *)
(* callback.                                                               *)
LEMMA ExecGoesOn ==
  ASSUME Books, NEW pc, InExec(pc), pc # "release", NEW next \in Pcs \ {"release"},
         NEW s, s = ExecAt(next) \/ s = Push(CallbackFrame, ExecAt(next))
  PROVE  /\ s \in Seq(Frames) /\ SameHolders(s, stack) /\ Started(Queued, s)
         /\ \A f \in ToSet(s) : \/ f \in ToSet(Below) \/ f = CallbackFrame
                                \/ f.fn = "exec" /\ f.c = Top.c /\ f.pc = next
<1>. DEFINE h == Top
            b == Below
            g == [h EXCEPT !.pc = next]
            t == Push(g, b)
<1>1. /\ h \in Of("exec") /\ h.pc = pc /\ h.c \in Commands /\ b \in Seq(Frames)
      /\ stack = Push(h, b)
  BY ExecTop
<1>2. ExecAt(next) = t
  BY DEF ExecAt
<1>3. Started(Queued, Push(h, b))
  BY <1>1 DEF Books, StartedInv
<1>. HIDE DEF h, b
<1>4. g \in Of("exec") /\ g.c = h.c /\ g.pc = next
  BY <1>1, PcUpdate
<1>. HIDE DEF g
<1>5. Neutral(h) /\ Neutral(g) /\ Neutral(CallbackFrame) /\ g.fn = "exec"
  BY <1>1, <1>4, FrameTypes DEF Neutral, Of
<1>6. Started(Queued, t)
  BY <1>1, <1>3, <1>4, StartedOfReplace
<1>7. t \in Seq(Frames) /\ ToSet(t) = {g} \cup ToSet(b) /\ SameHolders(t, stack)
  <2>1. SameHolders(stack, b)
    BY <1>1, <1>5, PushNeutral
  <2>2. SameHolders(t, b) /\ t \in Seq(Frames) /\ ToSet(t) = {g} \cup ToSet(b)
    BY <1>1, <1>5, PushNeutral
  <2>. HIDE DEF t
  <2>. QED  BY <2>1, <2>2, SameTrans
<1>. HIDE DEF t
<1>8. CASE s = t
  BY <1>4, <1>5, <1>6, <1>7, <1>8 DEF h, b
<1>9. CASE s = Push(CallbackFrame, t)
  <2>1. s \in Seq(Frames) /\ ToSet(s) = {CallbackFrame} \cup ToSet(t) /\ SameHolders(s, t)
    BY <1>5, <1>7, <1>9, PushNeutral
  <2>2. Started(Queued, s)
    BY <1>5, <1>6, <1>7, <1>9, PushNeutral
  <2>3. SameHolders(s, stack)
    BY <1>7, <2>1, SameTrans
  <2>. QED  BY <1>4, <1>5, <1>7, <2>1, <2>2, <2>3 DEF h, b
<1>. QED  BY <1>2, <1>8, <1>9

LEMMA FrameKept ==
  ASSUME usage' = usage, outOfOrder' = outOfOrder, waitList' = waitList, StatusGoesOn,
         NEW f \in Frames, FrameOK(f)
  PROVE  FrameOK(f)'
<1>1. CASE f.fn = "exec"
  <2>1. f.c \in Commands
    BY <1>1, FrameTypes DEF Of
  <2>. QED  BY <1>1, <2>1 DEF FrameOK, StatusGoesOn, ListsHeeded
<1>2. CASE f.fn # "exec"
  BY <1>2 DEF FrameOK
<1>. QED  BY <1>1, <1>2

LEMMA FramesKept ==
  ASSUME Books, usage' = usage, outOfOrder' = outOfOrder, waitList' = waitList, StatusGoesOn
  PROVE  \A f \in ToSet(stack) : f \in Frames /\ FrameOK(f)'
<1>. TAKE f \in ToSet(stack)
<1>1. f \in Frames
  BY ElementOfSeq, LenProperties DEF ToSet, Books, TypeOK
<1>2. FrameOK(f)
  BY DEF Books, FramesInv
<1>. QED  BY <1>1, <1>2, FrameKept

(* The innermost execute goes on, with v as the status of its command.     *)
LEMMA GoesOnKeeps ==
  ASSUME Books, NEW pc, InExec(pc), pc # "release", NEW next \in Pcs \ {"release"},
         stack' = ExecAt(next) \/ stack' = Push(CallbackFrame, ExecAt(next)),
         UNCHANGED <<fixed, queueVars, eventRefs, hasCommand, callbacks, commandVars, appVars,
                     enqueued, deps, unasked>>,
         ran' \in [Commands -> Nat],
         NEW v \in Statuses \cup {"queued"}, status' = [status EXCEPT ![Top.c] = v],
         v = status[Top.c] \/ v # "queued",
         next \in {"run", "impl", "done"} => v # "queued",
         ListsHeeded /\ (next \in {"submit", "run", "impl", "done"} \/ v # status[Top.c])
           => waitList[Top.c] = <<>>
  PROVE  Books'
<1>1. /\ Top.c \in Commands /\ ToSet(Below) \subseteq ToSet(stack) /\ status[Top.c] # "none"
  BY ExecTop
<1>2. /\ usage' = usage /\ outOfOrder' = outOfOrder /\ flushing' = flushing /\ waitList' = waitList
      /\ alive' = alive /\ appQueue' = appQueue
  BY DEF fixed, queueVars, commandVars, appVars
<1>3. status' \in [Commands -> Statuses \cup {"none", "queued"}] /\ StatusGoesOn
  <2>1. status \in [Commands -> Statuses \cup {"none", "queued"}]
    BY DEF Books, TypeOK
  <2>2. status'[Top.c] = v /\ \A c \in Commands : c # Top.c => status'[c] = status[c]
    BY <1>1, <2>1
  <2>3. v # "none"
    BY DEF Statuses
  <2>. QED  BY <1>1, <2>1, <2>2, <2>3 DEF StatusGoesOn
<1>4. /\ stack' \in Seq(Frames) /\ SameHolders(stack', stack) /\ Started(Queued, stack')
      /\ \A f \in ToSet(stack') : \/ f \in ToSet(Below) \/ f = CallbackFrame
                                  \/ f.fn = "exec" /\ f.c = Top.c /\ f.pc = next
  BY ExecGoesOn
<1>5. FlushInv'
  BY <1>2, <1>4 DEF Books, FlushInv, SameHolders
<1>6. FramesInv'
  <2>. SUFFICES ASSUME NEW f \in ToSet(stack)' PROVE FrameOK(f)'
    BY DEF FramesInv
  <2>1. CASE f \in ToSet(Below)
    BY <1>1, <1>2, <1>3, <2>1, FramesKept
  <2>2. CASE f = CallbackFrame
    BY <2>2, FrameTypes DEF FrameOK
  <2>3. CASE f.fn = "exec" /\ f.c = Top.c /\ f.pc = next
    <3>1. status'[f.c] = v /\ v # "none"
      BY <1>1, <2>3 DEF Books, TypeOK, Statuses
    <3>. QED  BY <1>2, <2>3, <3>1 DEF FrameOK, ListsHeeded
  <2>. QED  BY <1>4, <2>1, <2>2, <2>3
<1>7. LastInv'
  BY <1>2, <1>4 DEF Books, LastInv, SameHolders
<1>8. UNCHANGED <<fixed, commands, queueRefs, eventRefs, hasCommand, callbacks,
                  commandVars, appVars, enqueued, deps, unasked>>
  BY DEF queueVars
<1>9. flushing' \in BOOLEAN
  BY <1>2 DEF Books, TypeOK
<1>. QED  BY <1>3, <1>4, <1>5, <1>6, <1>7, <1>8, <1>9, QuietKeeps

(* A call or a return that is nobody's holder.                             *)
LEMMA StackKeeps ==
  ASSUME Books, stack' \in Seq(Frames), SameHolders(stack', stack), Started(Queued, stack'),
         \A f \in ToSet(stack') : f \in ToSet(stack) \/ (f \in Frames /\ FrameOK(f)),
         UNCHANGED <<fixed, queueVars, eventVars, commandVars, appVars, history>>
  PROVE  Books'
<1>1. /\ usage' = usage /\ outOfOrder' = outOfOrder /\ flushing' = flushing /\ waitList' = waitList
      /\ alive' = alive /\ appQueue' = appQueue /\ status' = status /\ ran' = ran
  BY DEF fixed, queueVars, commandVars, appVars, eventVars, history
<1>2. StatusGoesOn
  BY <1>1 DEF StatusGoesOn
<1>3. FlushInv' /\ LastInv'
  BY <1>1 DEF Books, FlushInv, LastInv, SameHolders
<1>4. FramesInv'
  <2>1. \A f \in ToSet(stack') : FrameOK(f)'
    BY <1>1, <1>2, FramesKept, FrameKept
  <2>. QED  BY <2>1 DEF FramesInv
<1>5. UNCHANGED <<fixed, commands, queueRefs, eventRefs, hasCommand, callbacks,
                  commandVars, appVars, enqueued, deps, unasked>>
  BY DEF queueVars, eventVars, history
<1>6. /\ flushing' \in BOOLEAN /\ ran' \in [Commands -> Nat]
      /\ status' \in [Commands -> Statuses \cup {"none", "queued"}]
  BY <1>1 DEF Books, TypeOK
<1>. QED  BY <1>2, <1>3, <1>4, <1>5, <1>6, QuietKeeps

LEMMA ReturnKeeps ==
  ASSUME Books, stack # <<>>, Neutral(Top), Top.fn = "exec" => status[Top.c] # "queued",
         stack' = Below,
         UNCHANGED <<fixed, queueVars, eventVars, commandVars, appVars, history>>
  PROVE  Books'
<1>. DEFINE h == Top
            b == Below
<1>1. /\ b \in Seq(Frames) /\ stack = Push(h, b) /\ ToSet(b) \subseteq ToSet(stack)
      /\ Neutral(h) /\ (h.fn = "exec" => h.c \notin Queued)
  BY TopFacts DEF Books, Queued
<1>2. Started(Queued, Push(h, b))
  BY <1>1 DEF Books, StartedInv
<1>3. stack' = b
  OBVIOUS
<1>. HIDE DEF h, b
<1>4. SameHolders(stack', stack)
  BY <1>1, <1>3, PushNeutral, SameTrans
<1>5. Started(Queued, stack')
  BY <1>1, <1>2, <1>3, PushNeutral
<1>. QED  BY <1>1, <1>3, <1>4, <1>5, StackKeeps

LEMMA CallKeeps ==
  ASSUME Books, NEW f, Neutral(f), FrameOK(f), stack' = Push(f, stack),
         UNCHANGED <<fixed, queueVars, eventVars, commandVars, appVars, history>>
  PROVE  Books'
<1>1. stack \in Seq(Frames) /\ Started(Queued, stack) /\ f \in Frames
  BY DEF Books, TypeOK, StartedInv, Neutral
<1>2. stack' \in Seq(Frames) /\ SameHolders(stack', stack) /\ ToSet(stack') = {f} \cup ToSet(stack)
  BY <1>1, PushNeutral
<1>3. Started(Queued, stack')
  BY <1>1, PushNeutral
<1>. QED  BY <1>1, <1>2, <1>3, StackKeeps

-----------------------------------------------------------------------------
(* The steps of execute that keep every count.                             *)
LEMMA ExecReturns ==
  ASSUME Books, ExecSkip \/ ExecReturn \/ CallbackReturn
  PROVE  Books'
<1>1. CASE ExecSkip
  <2>1. InExec("start") /\ status[Top.c] # "queued" /\ stack' = Below
        /\ UNCHANGED <<fixed, queueVars, eventVars, commandVars, appVars, history>>
    BY <1>1 DEF ExecSkip
  <2>2. stack # <<>> /\ Neutral(Top)
    BY <2>1, ExecTop DEF Neutral, Of
  <2>. QED  BY <2>1, <2>2, ReturnKeeps
<1>2. CASE ExecReturn
  <2>1. InExec("done") /\ stack' = Below
        /\ UNCHANGED <<fixed, queueVars, eventVars, commandVars, appVars, history>>
    BY <1>2 DEF ExecReturn
  <2>2. stack # <<>> /\ Neutral(Top) /\ FrameOK(Top) /\ Top.fn = "exec" /\ Top.pc = "done"
    BY <2>1, ExecTop DEF Neutral, Of
  <2>3. status[Top.c] # "queued"
    BY <2>2 DEF FrameOK
  <2>. QED  BY <2>1, <2>2, <2>3, ReturnKeeps
<1>3. CASE CallbackReturn
  <2>1. stack # <<>> /\ Top.fn = "callback" /\ stack' = Below
        /\ UNCHANGED <<fixed, queueVars, eventVars, commandVars, appVars, history>>
    BY <1>3 DEF CallbackReturn
  <2>2. Neutral(Top)
    BY <2>1, TopFacts DEF Neutral, Books
  <2>. QED  BY <2>1, <2>2, ReturnKeeps
<1>. QED  BY <1>1, <1>2, <1>3

LEMMA ExecGoes ==
  ASSUME Books, ExecStart \/ ExecWaited
  PROVE  Books'
<1>1. ASSUME NEW pc, InExec(pc), pc # "release", NEW next \in {"waits", "submit"},
             stack' = ExecAt(next), ListsHeeded /\ next = "submit" => waitList[Top.c] = <<>>,
             UNCHANGED <<fixed, queueVars, eventVars, commandVars, appVars, history>>
      PROVE  Books'
  <2>. DEFINE v == status[Top.c]
  <2>1. next \in Pcs \ {"release"}
    BY DEF Pcs
  <2>2. Top.c \in Commands /\ v # "none"
    BY <1>1, ExecTop
  <2>3. status \in [Commands -> Statuses \cup {"none", "queued"}] /\ ran \in [Commands -> Nat]
    BY DEF Books, TypeOK
  <2>4. v \in Statuses \cup {"queued"} /\ status = [status EXCEPT ![Top.c] = v]
    BY <2>2, <2>3
  <2>5. /\ UNCHANGED <<fixed, queueVars, eventRefs, hasCommand, callbacks, commandVars, appVars,
                       enqueued, deps, unasked>>
        /\ status' = status /\ ran' = ran
    BY <1>1 DEF eventVars, history
  <2>6. status' = [status EXCEPT ![Top.c] = v] /\ ran' \in [Commands -> Nat]
    BY <2>3, <2>4, <2>5
  <2>7. ListsHeeded /\ (next \in {"submit", "run", "impl", "done"} \/ v # status[Top.c])
           => waitList[Top.c] = <<>>
    BY <1>1
  <2>8. v = status[Top.c] /\ next \notin {"run", "impl", "done"}
    OBVIOUS
  <2>. HIDE DEF v
  <2>. QED  BY <1>1, <2>1, <2>4, <2>5, <2>6, <2>7, <2>8, GoesOnKeeps
<1>2. CASE ExecStart
  <2>1. InExec("start") /\ stack' = ExecAt(IF outOfOrder THEN "waits" ELSE "submit")
        /\ UNCHANGED <<fixed, queueVars, eventVars, commandVars, appVars, history>>
    BY <1>2 DEF ExecStart
  <2>2. CASE outOfOrder
    BY <1>1, <2>1, <2>2
  <2>3. CASE ~outOfOrder
    <3>1. ListsHeeded => waitList[Top.c] = <<>>
      BY <2>1, <2>3, ExecTop DEF Books, ListInv
    <3>. QED  BY <1>1, <2>1, <2>3, <3>1
  <2>. QED  BY <2>2, <2>3
<1>3. CASE ExecWaited
  <2>1. InExec("waits") /\ stack' = ExecAt("submit") /\ waitList[Top.c] = <<>>
        /\ UNCHANGED <<fixed, queueVars, eventVars, commandVars, appVars, history>>
    BY <1>3 DEF ExecWaited
  <2>. QED  BY <1>1, <2>1
<1>. QED  BY <1>2, <1>3

LEMMA ExecSets ==
  ASSUME Books, ExecSubmit \/ ExecRun \/ ExecImpl
  PROVE  Books'
<1>1. ASSUME NEW pc \in {"submit", "run", "impl"}, InExec(pc),
             NEW v \in Statuses, NEW next \in {"run", "impl", "done"},
             SetStatus(Top.c, v, next), ran' \in [Commands -> Nat]
      PROVE  Books'
  <2>1. next \in Pcs \ {"release"} /\ pc # "release" /\ v # "queued"
    BY DEF Pcs, Statuses
  <2>2. /\ UNCHANGED <<fixed, queueVars, eventRefs, hasCommand, callbacks, commandVars, appVars,
                       enqueued, deps, unasked>>
        /\ status' = [status EXCEPT ![Top.c] = v]
        /\ stack' = ExecAt(next) \/ stack' = Push(CallbackFrame, ExecAt(next))
    BY <1>1 DEF SetStatus
  <2>3. ListsHeeded => waitList[Top.c] = <<>>
    <3>1. FrameOK(Top) /\ Top.fn = "exec" /\ Top.pc \in {"submit", "run", "impl", "done"}
      BY <1>1, ExecTop DEF Of
    <3>. QED  BY <3>1 DEF FrameOK
  <2>. QED  BY <1>1, <2>1, <2>2, <2>3, GoesOnKeeps
<1>2. ran \in [Commands -> Nat]
  BY DEF Books, TypeOK
<1>3. CASE ExecSubmit
  BY <1>1, <1>2, <1>3 DEF ExecSubmit, Statuses
<1>4. CASE ExecRun
  BY <1>1, <1>2, <1>4 DEF ExecRun, Statuses
<1>5. CASE ExecImpl
  <2>1. ran' = [ran EXCEPT ![Top.c] = @ + 1] /\ InExec("impl") /\ SetStatus(Top.c, "complete", "done")
    BY <1>5 DEF ExecImpl
  <2>2. ran' \in [Commands -> Nat]
    BY <1>2, <2>1, ExecTop
  <2>. QED  BY <1>1, <2>1, <2>2 DEF Statuses
<1>. QED  BY <1>3, <1>4, <1>5

(* An event that somebody holds is referred to, and known. *)
LEMMA HeldIsKnown ==
  ASSUME Books, NEW e \in Commands,
         appEvent[e] > 0 \/ e \in alive \/ Calls(Releasing(e), stack) > 0
  PROVE  eventRefs[e] \in Nat \ {0} /\ status[e] # "none"
<1>1. TypeOK /\ Holders(e) <= eventRefs[e] /\ eventRefs[e] \in Nat
  BY DEF Books, EventsInv, TypeOK
<1>2. Holders(e) > 0
  <2>1. /\ appEvent[e] \in Nat /\ Cardinality(Named(e)) \in Nat
        /\ Calls(Releasing(e), stack) \in Nat /\ Count(e \in unasked) \in 0 .. 1
        /\ Count(e \in alive) \in 0 .. 1
    BY <1>1, HoldersTypes
  <2>2. e \in alive => Count(e \in alive) = 1
    BY DEF Count
  <2>. QED  BY <2>1, <2>2 DEF Holders
<1>3. Holders(e) \in Nat
  BY <1>1, HoldersTypes
<1>4. eventRefs[e] \in Nat \ {0}
  BY <1>1, <1>2, <1>3
<1>. QED  BY <1>4 DEF Books, KnownInv

LEMMA WaitForEventKeeps ==
  ASSUME Books, NEW e \in Commands, WaitForEvent(e)
  PROVE  Books'
<1>1. hasCommand[e] /\ stack' = Push(ExecFrame(e), stack)
      /\ UNCHANGED <<fixed, queueVars, eventVars, commandVars, appVars, history>>
  BY DEF WaitForEvent
<1>2. Neutral(ExecFrame(e))
  BY FrameTypes DEF Neutral
<1>3. status[e] # "none"
  <2>1. e \in alive
    BY <1>1 DEF Books, PendingInv
  <2>. QED  BY <2>1, HeldIsKnown
<1>4. FrameOK(ExecFrame(e))
  BY <1>3, FrameTypes DEF FrameOK
<1>. QED  BY <1>1, <1>2, <1>4, CallKeeps

-----------------------------------------------------------------------------
(* The calls inside the driver: s is t under a flush or a release of the   *)
(* queue that has just begun.                                              *)
Over(s, t) ==
  /\ s \in Seq(Frames) /\ Taken(s) = Taken(t)
  /\ \A e \in Commands : Calls(Releasing(e), s) = Calls(Releasing(e), t)
  /\ Started(Queued, t) => Started(Queued, s)
  /\ \A f \in ToSet(s) : f \in ToSet(t) \/ f \in {FlushFrame, ReleaseFrame}

LEMMA OverTrans ==
  ASSUME NEW s \in Seq(Frames), NEW t, NEW u
  PROVE  Over(s, s) /\ (Over(s, t) /\ Over(t, u) => Over(s, u))
  BY DEF Over

LEMMA PushOver ==
  ASSUME NEW s \in Seq(Frames), NEW f \in {FlushFrame, ReleaseFrame}
  PROVE  /\ Over(Push(f, s), s)
         /\ Calls(Of("flush"), Push(f, s)) = Calls(Of("flush"), s) + Count(f = FlushFrame)
         /\ Calls(Of("release"), Push(f, s)) = Calls(Of("release"), s) + Count(f = ReleaseFrame)
         /\ Calls(Of("flush"), s) \in Nat /\ Calls(Of("release"), s) \in Nat
<1>1. /\ f \in Frames /\ (f.fn = "flush" => f.done = <<>>)
      /\ f \in Of("flush") <=> f = FlushFrame
      /\ f \in Of("release") <=> f = ReleaseFrame
  BY FrameTypes DEF Of
<1>2. \A e : f \notin Releasing(e)
  BY FrameTypes DEF Releasing, Of
<1>3. Push(f, s) \in Seq(Frames) /\ ToSet(Push(f, s)) = {f} \cup ToSet(s)
  BY <1>1, PushFacts
<1>4. ASSUME NEW P PROVE Calls(P, Push(f, s)) = Calls(P, s) + Count(f \in P)
  BY <1>1, CallsOfPush
<1>5. ASSUME NEW P PROVE Calls(P, s) \in Nat
  BY CallsType
<1>6. \A e \in Commands : Calls(Releasing(e), Push(f, s)) = Calls(Releasing(e), s)
  <2>. TAKE e \in Commands
  <2>1. Calls(Releasing(e), Push(f, s)) = Calls(Releasing(e), s) + 0
    BY <1>2, <1>4 DEF Count
  <2>. QED  BY <1>5, <2>1
<1>7. Taken(Push(f, s)) = Taken(s)
  <2>1. ToSet(<<>>) = {}
    BY DEF ToSet
  <2>. QED  BY <1>1, <2>1, TakenOfPush
<1>8. Started(Queued, s) => Started(Queued, Push(f, s))
  BY <1>1, StartedOfPush
<1>9. Over(Push(f, s), s)
  BY <1>3, <1>6, <1>7, <1>8 DEF Over
<1>10. Calls(Of("flush"), Push(f, s)) = Calls(Of("flush"), s) + Count(f = FlushFrame)
  BY <1>1, <1>4 DEF Count
<1>11. Calls(Of("release"), Push(f, s)) = Calls(Of("release"), s) + Count(f = ReleaseFrame)
  BY <1>1, <1>4 DEF Count
<1>. QED  BY <1>5, <1>9, <1>10, <1>11

LEMMA FlushCalled ==
  ASSUME NEW rest \in Seq(Frames), flushing \in BOOLEAN,
         Calls(Of("flush"), rest) = Count(flushing), CallFlush(rest)
  PROVE  /\ Over(stack', rest) /\ flushing' = TRUE /\ Calls(Of("flush"), stack') = 1
         /\ Calls(Of("release"), stack') = Calls(Of("release"), rest)
<1>1. flushing' = TRUE
  BY DEF CallFlush
<1>2. CASE flushing
  <2>1. stack' = rest
    BY <1>2 DEF CallFlush
  <2>. QED  BY <1>1, <1>2, <2>1, OverTrans DEF Count
<1>3. CASE ~flushing
  <2>. DEFINE s == stack'
  <2>1. s = Push(FlushFrame, rest)
    BY <1>3 DEF CallFlush
  <2>2. Calls(Of("flush"), rest) = 0 /\ Count(FlushFrame = FlushFrame) = 1
        /\ Count(FlushFrame = ReleaseFrame) = 0
    BY <1>3, FrameTypes DEF Count
  <2>. HIDE DEF s
  <2>3. Over(s, rest)
    BY <2>1, PushOver
  <2>4. Calls(Of("flush"), s) = Calls(Of("flush"), rest) + Count(FlushFrame = FlushFrame)
    BY <2>1, PushOver
  <2>5. Calls(Of("release"), s) = Calls(Of("release"), rest) + Count(FlushFrame = ReleaseFrame)
    BY <2>1, PushOver
  <2>6. Calls(Of("release"), rest) \in Nat
    BY PushOver
  <2>. QED  BY <1>1, <2>2, <2>3, <2>4, <2>5, <2>6 DEF s
<1>. QED  BY <1>2, <1>3

LEMMA QueueReleased ==
  ASSUME NEW rest \in Seq(Frames), flushing \in BOOLEAN, queueRefs \in Nat,
         Calls(Of("flush"), rest) = Count(flushing), CallReleaseQueue(rest)
  PROVE  /\ Over(stack', rest) /\ flushing' = TRUE /\ Calls(Of("flush"), stack') = 1
         /\ queueRefs' = queueRefs - 1 + (Calls(Of("release"), stack') - Calls(Of("release"), rest))
         /\ IF flushing THEN stack' = rest ELSE Calls(Of("release"), stack') > 0
<1>1. CASE flushing
  <2>1. stack' = rest /\ queueRefs' = queueRefs - 1 /\ flushing' = TRUE
    BY <1>1 DEF CallReleaseQueue
  <2>2. Calls(Of("release"), rest) \in Nat
    BY CallsType
  <2>3. Over(rest, rest)
    BY OverTrans
  <2>. QED  BY <1>1, <2>1, <2>2, <2>3 DEF Count
<1>2. CASE ~flushing
  <2>. DEFINE m == Push(ReleaseFrame, rest)
  <2>1. CallFlush(m) /\ queueRefs' = queueRefs
    BY <1>2 DEF CallReleaseQueue
  <2>2. Count(ReleaseFrame = FlushFrame) = 0 /\ Count(ReleaseFrame = ReleaseFrame) = 1
    BY FrameTypes DEF Count
  <2>. HIDE DEF m
  <2>3. Over(m, rest) /\ m \in Seq(Frames)
    BY PushOver DEF Over, m
  <2>4. Calls(Of("flush"), m) = Calls(Of("flush"), rest) + Count(ReleaseFrame = FlushFrame)
    BY PushOver DEF m
  <2>5. Calls(Of("release"), m) = Calls(Of("release"), rest) + Count(ReleaseFrame = ReleaseFrame)
    BY PushOver DEF m
  <2>6. Calls(Of("flush"), rest) \in Nat /\ Calls(Of("release"), rest) \in Nat
    BY CallsType
  <2>7. Calls(Of("flush"), m) = Count(flushing)
    BY <2>2, <2>4, <2>6
  <2>8. /\ Over(stack', m) /\ flushing' = TRUE /\ Calls(Of("flush"), stack') = 1
        /\ Calls(Of("release"), stack') = Calls(Of("release"), m)
    BY <2>1, <2>3, <2>7, FlushCalled
  <2>9. Over(stack', rest)
    <3>. DEFINE s == stack'
    <3>1. s \in Seq(Frames) /\ Over(s, m)
      BY <2>8 DEF Over
    <3>. HIDE DEF s
    <3>2. Over(s, rest)
      BY <2>3, <3>1, OverTrans
    <3>. QED  BY <3>2 DEF s
  <2>. QED  BY <1>2, <2>1, <2>2, <2>5, <2>6, <2>8, <2>9
<1>. QED  BY <1>1, <1>2

-----------------------------------------------------------------------------
(* The steps that only take and give up references.                        *)
LEMMA ReferencedFacts ==
  ASSUME TypeOK
  PROVE  /\ IsFiniteSet(alive) /\ Cardinality(alive) \in Nat
         /\ IsFiniteSet(Referenced) /\ Cardinality(Referenced) \in Nat
<1>1. alive \in SUBSET Commands /\ Referenced \in SUBSET Commands
  BY DEF TypeOK, Referenced
<1>2. IsFiniteSet(alive) /\ IsFiniteSet(Referenced)
  BY <1>1, QueueAssumption, FS_Subset
<1>. QED  BY <1>2, FS_CardinalityType

LEMMA RefsKeep ==
  ASSUME Books, UNCHANGED <<fixed, commands, status, hasCommand, commandVars, history>>,
         stack' \in Seq(Frames), flushing' \in BOOLEAN,
         callbacks' \in [Commands -> SUBSET CallbackTypes],
         appEvent' \in [Commands -> 0 .. MaxAppRefs], appQueue' \in 0 .. MaxAppRefs,
         eventRefs' \in [Commands -> Nat],
         FlushInv', Taken(stack') = Taken(stack), Started(Queued, stack'),
         \A f \in ToSet(stack') : \/ f \in ToSet(stack) \/ f \in {FlushFrame, ReleaseFrame}
                                  \/ (f \in Frames /\ FrameOK(f)),
         \A e \in Commands :
           /\ eventRefs'[e] + appEvent[e] + Calls(Releasing(e), stack)
                = eventRefs[e] + appEvent'[e] + Calls(Releasing(e), stack')
           /\ eventRefs'[e] # eventRefs[e] => eventRefs[e] > 0,
         QueueInv', LastInv'
  PROVE  Books'
<1>1. /\ usage' = usage /\ outOfOrder' = outOfOrder /\ commands' = commands
      /\ status' = status /\ hasCommand' = hasCommand /\ alive' = alive /\ waitList' = waitList
      /\ enqueued' = enqueued /\ deps' = deps /\ unasked' = unasked /\ ran' = ran
  BY DEF fixed, commandVars, history
<1>2. queueRefs' \in Nat
  <2>1. Cardinality(alive) \in Nat /\ IsFiniteSet(alive)
    BY ReferencedFacts DEF Books
  <2>2. Cardinality(Referenced') \in Nat
    <3>1. Referenced' \in SUBSET Commands
      BY DEF Referenced
    <3>2. IsFiniteSet(Referenced')
      BY <3>1, QueueAssumption, FS_Subset
    <3>. QED  BY <3>2, FS_CardinalityType
  <2>3. Calls(Of("release"), stack') \in Nat
    BY CallsType
  <2>4. appQueue' \in Nat
    BY QueueAssumption
  <2>. QED  BY <1>1, <2>1, <2>2, <2>3, <2>4 DEF QueueInv
<1>3. TypeOK'
  BY <1>1, <1>2 DEF Books, TypeOK
<1>4. KnownInv'
  BY <1>1 DEF Books, KnownInv
<1>5. PendingInv' /\ StartedInv' /\ ListInv'
  BY <1>1 DEF Books, PendingInv, StartedInv, Queued, ListInv, ListsHeeded
<1>6. FramesInv'
  <2>1. StatusGoesOn
    BY <1>1 DEF StatusGoesOn
  <2>2. FrameOK(FlushFrame)' /\ FrameOK(ReleaseFrame)'
    <3>1. IsInjective(<<>>)
      BY DEF IsInjective
    <3>. QED  BY <3>1, FrameTypes DEF FrameOK
  <2>3. \A f \in ToSet(stack') : FrameOK(f)'
    BY <1>1, <2>1, <2>2, FramesKept, FrameKept
  <2>. QED  BY <2>3 DEF FramesInv
<1>7. EventsInv'
  <2>. SUFFICES ASSUME NEW e \in Commands
                PROVE  /\ Holders(e)' <= eventRefs'[e]
                       /\ ListsHeeded => eventRefs'[e] = Holders(e)'
    BY <1>1 DEF EventsInv, ListsHeeded
  <2>1. Named(e)' = Named(e)
    BY <1>1 DEF Named
  <2>. DEFINE n == Cardinality(Named(e))
              a == Count(e \in alive)
              u == Count(e \in unasked)
              r == Calls(Releasing(e), stack)
              q == Calls(Releasing(e), stack')
              p == appEvent[e]
              p1 == appEvent'[e]
              v == eventRefs[e]
              v1 == eventRefs'[e]
              h == Holders(e)
              h1 == Holders(e)'
  <2>2. n \in Nat /\ r \in Nat /\ p \in Nat /\ a \in 0 .. 1 /\ u \in 0 .. 1
    <3>1. TypeOK
      BY DEF Books
    <3>. QED  BY <3>1, HoldersTypes
  <2>3. q \in Nat
    BY CallsType
  <2>4. p1 \in Nat
    BY QueueAssumption
  <2>5. h = p + a + u + n + r
    BY DEF Holders
  <2>6. h1 = p1 + a + u + n + q
    BY <1>1, <2>1 DEF Holders
  <2>7. v \in Nat /\ v1 \in Nat
    BY DEF Books, TypeOK
  <2>8. h <= v /\ (ListsHeeded => v = h)
    BY DEF Books, EventsInv
  <2>9. v1 + p + r = v + p1 + q
    OBVIOUS
  <2>. HIDE DEF n, a, u, r, q, p, p1, v, v1, h, h1
  <2>10. h1 <= v1 /\ (v = h => v1 = h1)
    BY <2>2, <2>3, <2>4, <2>5, <2>6, <2>7, <2>8, <2>9
  <2>. QED  BY <2>8, <2>10 DEF h1, v1
<1>. QED  BY <1>3, <1>4, <1>5, <1>6, <1>7 DEF Books

(* clReleaseEvent, called when rest has no longer what made the release.   *)
LEMMA EventReleased ==
  ASSUME Books, NEW e \in Commands, eventRefs[e] > 0, NEW rest \in Seq(Frames),
         CallReleaseEvent(e, rest),
         UNCHANGED <<fixed, commands, status, hasCommand, commandVars, appQueue, history>>,
         appEvent' \in [Commands -> 0 .. MaxAppRefs],
         Calls(Of("flush"), rest) = Calls(Of("flush"), stack), Taken(rest) = Taken(stack),
         Calls(Of("release"), rest) = Calls(Of("release"), stack), Started(Queued, rest),
         \A f \in ToSet(rest) : f \in ToSet(stack) \/ (f \in Frames /\ FrameOK(f)),
         \A x \in Commands :
           appEvent[x] + Calls(Releasing(x), stack)
             = appEvent'[x] + Calls(Releasing(x), rest) + Count(x = e)
  PROVE  Books'
<1>1. TypeOK /\ eventRefs[e] \in Nat \ {0} /\ eventRefs \in [Commands -> Nat] /\ flushing \in BOOLEAN
      /\ queueRefs \in Nat /\ Calls(Of("flush"), rest) = Count(flushing)
  <2>1. TypeOK /\ FlushInv
    BY DEF Books
  <2>2. eventRefs \in [Commands -> Nat] /\ flushing \in BOOLEAN /\ queueRefs \in Nat
    BY <2>1 DEF TypeOK
  <2>. QED  BY <2>1, <2>2 DEF FlushInv
<1>2. /\ eventRefs' = [eventRefs EXCEPT ![e] = @ - 1]
      /\ IF eventRefs[e] = 1
         THEN CallReleaseQueue(rest) /\ callbacks' = [callbacks EXCEPT ![e] = {}]
         ELSE /\ stack' = rest /\ queueRefs' = queueRefs /\ flushing' = flushing
              /\ callbacks' = callbacks
  BY DEF CallReleaseEvent
<1>3. /\ eventRefs' \in [Commands -> Nat] /\ eventRefs'[e] = eventRefs[e] - 1
      /\ \A x \in Commands : x # e => eventRefs'[x] = eventRefs[x]
  BY <1>1, <1>2
<1>4. callbacks' \in [Commands -> SUBSET CallbackTypes]
  BY <1>1, <1>2 DEF TypeOK
<1>5. /\ Over(stack', rest) /\ flushing' \in BOOLEAN
      /\ Calls(Of("flush"), stack') = Count(flushing')
      /\ queueRefs' = queueRefs - Count(eventRefs[e] = 1)
                      + (Calls(Of("release"), stack') - Calls(Of("release"), rest))
      /\ flushing => flushing' /\ Calls(Of("release"), stack') = Calls(Of("release"), rest)
      /\ ~flushing /\ flushing' => Calls(Of("release"), stack') > 0
  <2>1. CASE eventRefs[e] = 1
    <3>1. CallReleaseQueue(rest)
      BY <1>2, <2>1
    <3>2. /\ Over(stack', rest) /\ flushing' = TRUE /\ Calls(Of("flush"), stack') = 1
          /\ queueRefs' = queueRefs - 1 + (Calls(Of("release"), stack') - Calls(Of("release"), rest))
          /\ IF flushing THEN stack' = rest ELSE Calls(Of("release"), stack') > 0
      BY <1>1, <3>1, QueueReleased
    <3>. QED  BY <2>1, <3>2 DEF Count
  <2>2. CASE eventRefs[e] # 1
    <3>1. stack' = rest /\ queueRefs' = queueRefs /\ flushing' = flushing
      BY <1>2, <2>2
    <3>2. Calls(Of("release"), rest) \in Nat
      BY CallsType
    <3>. QED  BY <1>1, <2>2, <3>1, <3>2, OverTrans DEF Count
  <2>. QED  BY <2>1, <2>2
<1>6. FlushInv'
  BY <1>5 DEF FlushInv
<1>7. stack' \in Seq(Frames) /\ Taken(stack') = Taken(stack) /\ Started(Queued, stack')
  BY <1>5 DEF Over
<1>8. \A f \in ToSet(stack') : \/ f \in ToSet(stack) \/ f \in {FlushFrame, ReleaseFrame}
                               \/ (f \in Frames /\ FrameOK(f))
  BY <1>5 DEF Over
<1>9. ASSUME NEW x \in Commands
      PROVE  /\ eventRefs'[x] + appEvent[x] + Calls(Releasing(x), stack)
                  = eventRefs[x] + appEvent'[x] + Calls(Releasing(x), stack')
             /\ eventRefs'[x] # eventRefs[x] => eventRefs[x] > 0
  <2>. DEFINE r == Calls(Releasing(x), stack)
              q == Calls(Releasing(x), rest)
              p == appEvent[x]
              p1 == appEvent'[x]
              v == eventRefs[x]
              v1 == eventRefs'[x]
              k == Count(x = e)
  <2>1. Calls(Releasing(x), stack') = q
    BY <1>5 DEF Over
  <2>2. r \in Nat /\ q \in Nat
    BY <1>1, CallsType DEF TypeOK
  <2>3. p \in Nat /\ p1 \in Nat /\ v \in Nat
    BY <1>1, QueueAssumption DEF TypeOK
  <2>4. p + r = p1 + q + k
    OBVIOUS
  <2>5. v1 = v - k
    BY <1>1, <1>3 DEF Count
  <2>6. k \in 0 .. 1 /\ (v1 # v => v > 0)
    BY <1>1, <1>3 DEF Count
  <2>. HIDE DEF r, q, p, p1, v, v1, k
  <2>7. v1 + p + r = v + p1 + q
    BY <2>2, <2>3, <2>4, <2>5, <2>6
  <2>. QED  BY <2>1, <2>6, <2>7 DEF r, q, p, p1, v, v1
<1>10. Cardinality(Referenced') = Cardinality(Referenced) - Count(eventRefs[e] = 1)
  <2>. DEFINE m == Cardinality(Referenced)
  <2>1. IsFiniteSet(Referenced) /\ m \in Nat /\ e \in Referenced
    BY <1>1, ReferencedFacts DEF Referenced
  <2>2. CASE eventRefs[e] = 1
    <3>1. Referenced' = Referenced \ {e}
      BY <1>1, <1>3, <2>2 DEF Referenced
    <3>2. Cardinality(Referenced \ {e}) = m - 1
      BY <2>1, FS_RemoveElement
    <3>. QED  BY <2>2, <3>1, <3>2 DEF Count
  <2>3. CASE eventRefs[e] # 1
    <3>1. Referenced' = Referenced
      <4>1. eventRefs[e] > 0 /\ eventRefs[e] - 1 > 0
        BY <1>1, <2>3
      <4>2. \A x \in Commands : eventRefs'[x] > 0 <=> eventRefs[x] > 0
        BY <1>3, <4>1
      <4>. QED  BY <4>2 DEF Referenced
    <3>2. Count(eventRefs[e] = 1) = 0 /\ Cardinality(Referenced') = m
      BY <2>3, <3>1 DEF Count
    <3>. HIDE DEF m
    <3>3. m = m - 0
      BY <2>1
    <3>. QED  BY <3>2, <3>3 DEF m
  <2>. QED  BY <2>2, <2>3
<1>11. alive' = alive /\ appQueue' = appQueue /\ usage' = usage
  BY DEF commandVars, fixed
<1>12. QueueInv'
  <2>. DEFINE n == Cardinality(alive)
              m == Cardinality(Referenced)
              r == Calls(Of("release"), rest)
              q == Calls(Of("release"), stack')
              k == Count(eventRefs[e] = 1)
  <2>1. n \in Nat /\ m \in Nat /\ r \in Nat /\ q \in Nat /\ appQueue \in Nat /\ k \in Nat
    <3>1. n \in Nat /\ m \in Nat
      BY <1>1, ReferencedFacts
    <3>2. r \in Nat /\ q \in Nat
      BY <1>7, CallsType
    <3>3. appQueue \in Nat /\ k \in Nat
      BY <1>1, QueueAssumption DEF TypeOK, Count
    <3>. QED  BY <3>1, <3>2, <3>3
  <2>2. queueRefs = appQueue + n + m + r
    BY DEF Books, QueueInv
  <2>3. queueRefs' = queueRefs - k + (q - r) /\ Cardinality(Referenced') = m - k
    BY <1>5, <1>10
  <2>4. QueueInv' <=> queueRefs' = appQueue + n + Cardinality(Referenced') + q
    BY <1>11 DEF QueueInv
  <2>. HIDE DEF n, m, r, q, k
  <2>. QED  BY <2>1, <2>2, <2>3, <2>4
<1>13. LastInv'
  BY <1>5, <1>11 DEF Books, LastInv
<1>14. appQueue' \in 0 .. MaxAppRefs
  BY <1>1, <1>11 DEF TypeOK
<1>15. UNCHANGED <<fixed, commands, status, hasCommand, commandVars, history>>
  OBVIOUS
<1>. QED  BY <1>3, <1>4, <1>5, <1>6, <1>7, <1>8, <1>9, <1>12, <1>13, <1>14, <1>15, RefsKeep

LEMMA ReleaseEventKeeps ==
  ASSUME Books, NEW e \in Commands, ReleaseEvent(e)
  PROVE  Books'
<1>1. /\ appEvent[e] > 0 /\ appEvent' = [appEvent EXCEPT ![e] = @ - 1] /\ CallReleaseEvent(e, stack)
      /\ UNCHANGED <<fixed, commands, status, hasCommand, commandVars, appQueue, history>>
  BY DEF ReleaseEvent
<1>2. appEvent \in [Commands -> 0 .. MaxAppRefs] /\ stack \in Seq(Frames) /\ Started(Queued, stack)
  BY DEF Books, TypeOK, StartedInv
<1>3. /\ appEvent' \in [Commands -> 0 .. MaxAppRefs] /\ appEvent'[e] = appEvent[e] - 1
      /\ \A x \in Commands : x # e => appEvent'[x] = appEvent[x]
  BY <1>1, <1>2, QueueAssumption
<1>4. ASSUME NEW x \in Commands
      PROVE  appEvent[x] + Calls(Releasing(x), stack)
               = appEvent'[x] + Calls(Releasing(x), stack) + Count(x = e)
  <2>. DEFINE r == Calls(Releasing(x), stack)
              p == appEvent[x]
              p1 == appEvent'[x]
  <2>1. r \in Nat
    BY <1>2, CallsType
  <2>2. p \in Nat /\ p1 = p - Count(x = e) /\ Count(x = e) \in 0 .. 1
    BY <1>2, <1>3, QueueAssumption DEF Count
  <2>. HIDE DEF r, p, p1
  <2>3. p + r = p1 + r + Count(x = e)
    BY <2>1, <2>2
  <2>. QED  BY <2>3 DEF r, p, p1
<1>5. eventRefs[e] > 0
  BY <1>1, HeldIsKnown
<1>. QED  BY <1>1, <1>2, <1>3, <1>4, <1>5, EventReleased

LEMMA ExecReleaseKeeps ==
  ASSUME Books, ExecReleaseWaited
  PROVE  Books'
<1>. DEFINE h == Top
            b == Below
            e == Top.dep
            g == [h EXCEPT !.pc = "waits"]
            rest == Push(g, b)
<1>1. /\ InExec("release") /\ CallReleaseEvent(e, rest)
      /\ UNCHANGED <<fixed, commands, status, hasCommand, commandVars, appVars, history>>
  BY DEF ExecReleaseWaited, ExecAt
<1>2. /\ h \in Of("exec") /\ h.pc = "release" /\ h.c \in Commands /\ e \in Commands /\ h.dep = e
      /\ b \in Seq(Frames) /\ stack = Push(h, b) /\ ToSet(b) \subseteq ToSet(stack)
      /\ FrameOK(h) /\ status[h.c] # "none"
  BY <1>1, ExecTop
<1>3. Started(Queued, Push(h, b)) /\ appEvent \in [Commands -> 0 .. MaxAppRefs] /\ appEvent' = appEvent
  BY <1>1, <1>2 DEF Books, StartedInv, TypeOK, appVars
<1>4. UNCHANGED <<fixed, commands, status, hasCommand, commandVars, appQueue, history>>
  BY <1>1 DEF appVars
<1>. HIDE DEF h, b, e
<1>5. g \in Of("exec") /\ g.c = h.c /\ g.pc = "waits" /\ g.dep = h.dep
  BY <1>2, PcUpdate DEF Pcs
<1>. HIDE DEF g
<1>6. h \in Frames /\ g \in Frames /\ h.fn = "exec" /\ g.fn = "exec"
  BY <1>2, <1>5 DEF Of
<1>7. rest \in Seq(Frames) /\ ToSet(rest) = {g} \cup ToSet(b)
  BY <1>2, <1>6, PushFacts
<1>8. Neutral(g)
  BY <1>5, <1>6 DEF Neutral
<1>9. SameHolders(rest, b)
  BY <1>2, <1>8, PushNeutral
<1>10. ASSUME NEW P
       PROVE  Calls(P, stack) = Calls(P, b) + Count(h \in P) /\ Calls(P, b) \in Nat
  <2>1. Calls(P, Push(h, b)) = Calls(P, b) + Count(h \in P)
    BY <1>2, <1>6, CallsOfPush
  <2>2. Calls(P, b) \in Nat
    BY <1>2, CallsType
  <2>. QED  BY <1>2, <2>1, <2>2
<1>11. Calls(Of("flush"), rest) = Calls(Of("flush"), stack)
       /\ Calls(Of("release"), rest) = Calls(Of("release"), stack)
  <2>1. h \notin Of("flush") /\ h \notin Of("release")
    BY <1>6 DEF Of
  <2>. QED  BY <1>9, <1>10, <2>1 DEF SameHolders, Count
<1>12. Taken(rest) = Taken(stack)
  <2>1. Taken(Push(h, b)) = Taken(b)
    BY <1>2, <1>6, TakenOfPush
  <2>. QED  BY <1>2, <1>9, <2>1 DEF SameHolders
<1>13. Started(Queued, rest)
  BY <1>2, <1>3, <1>5, StartedOfReplace
<1>14. FrameOK(g)
  BY <1>2, <1>5, <1>6 DEF FrameOK
<1>15. ASSUME NEW x \in Commands
       PROVE  appEvent[x] + Calls(Releasing(x), stack)
                = appEvent'[x] + Calls(Releasing(x), rest) + Count(x = e)
  <2>. DEFINE r == Calls(Releasing(x), stack)
              q == Calls(Releasing(x), b)
              p == appEvent[x]
  <2>1. h \in Releasing(x) <=> x = e
    BY <1>2 DEF Releasing
  <2>2. r = q + Count(x = e) /\ q \in Nat /\ Calls(Releasing(x), rest) = q
    <3>1. Count(h \in Releasing(x)) = Count(x = e)
      BY <2>1 DEF Count
    <3>. QED  BY <1>9, <1>10, <3>1 DEF SameHolders
  <2>3. p \in Nat /\ appEvent'[x] = p /\ Count(x = e) \in 0 .. 1
    BY <1>3, QueueAssumption DEF Count
  <2>. HIDE DEF r, q, p
  <2>. QED  BY <2>2, <2>3 DEF r, p
<1>16. eventRefs[e] > 0
  <2>1. Count(h \in Releasing(e)) = 1
    BY <1>2 DEF Releasing, Count
  <2>2. Calls(Releasing(e), stack) > 0
    BY <1>10, <2>1
  <2>. QED  BY <1>2, <2>2, HeldIsKnown
<1>. HIDE DEF rest
<1>17. \A f \in ToSet(rest) : f \in ToSet(stack) \/ (f \in Frames /\ FrameOK(f))
  BY <1>2, <1>6, <1>7, <1>14
<1>. QED  BY <1>1, <1>2, <1>3, <1>4, <1>7, <1>11, <1>12, <1>13, <1>15, <1>16, <1>17, EventReleased

LEMMA RetainEventKeeps ==
  ASSUME Books, NEW e \in Commands, RetainEvent(e)
  PROVE  Books'
<1>1. /\ appEvent[e] \in 1 .. MaxAppRefs - 1
      /\ eventRefs' = [eventRefs EXCEPT ![e] = @ + 1] /\ appEvent' = [appEvent EXCEPT ![e] = @ + 1]
      /\ UNCHANGED <<fixed, commands, status, hasCommand, commandVars, history>>
      /\ stack' = stack /\ flushing' = flushing /\ queueRefs' = queueRefs /\ appQueue' = appQueue
      /\ alive' = alive /\ callbacks' = callbacks
  BY DEF RetainEvent, queueVars, commandVars
<1>2. /\ appEvent \in [Commands -> 0 .. MaxAppRefs] /\ eventRefs \in [Commands -> Nat]
      /\ appQueue \in 0 .. MaxAppRefs /\ stack \in Seq(Frames) /\ flushing \in BOOLEAN
      /\ callbacks \in [Commands -> SUBSET CallbackTypes]
  BY DEF Books, TypeOK
<1>3. eventRefs[e] > 0
  BY <1>1, HeldIsKnown, QueueAssumption
<1>4. /\ appEvent' \in [Commands -> 0 .. MaxAppRefs] /\ appEvent'[e] = appEvent[e] + 1
      /\ \A x \in Commands : x # e => appEvent'[x] = appEvent[x]
  BY <1>1, <1>2, QueueAssumption
<1>5. /\ eventRefs' \in [Commands -> Nat] /\ eventRefs'[e] = eventRefs[e] + 1
      /\ \A x \in Commands : x # e => eventRefs'[x] = eventRefs[x]
  BY <1>1, <1>2
<1>6. ASSUME NEW x \in Commands
      PROVE  /\ eventRefs'[x] + appEvent[x] + Calls(Releasing(x), stack)
                  = eventRefs[x] + appEvent'[x] + Calls(Releasing(x), stack')
             /\ eventRefs'[x] # eventRefs[x] => eventRefs[x] > 0
  <2>. DEFINE r == Calls(Releasing(x), stack)
              p == appEvent[x]
              v == eventRefs[x]
  <2>1. r \in Nat /\ Calls(Releasing(x), stack') = r
    BY <1>1, <1>2, CallsType
  <2>2. p \in Nat /\ v \in Nat
    BY <1>2, QueueAssumption
  <2>3. x = e \/ (appEvent'[x] = p /\ eventRefs'[x] = v)
    BY <1>4, <1>5
  <2>4. x = e => appEvent'[x] = p + 1 /\ eventRefs'[x] = v + 1 /\ v > 0
    BY <1>3, <1>4, <1>5
  <2>. HIDE DEF r, p, v
  <2>5. eventRefs'[x] + p + r = v + appEvent'[x] + r /\ (eventRefs'[x] # v => v > 0)
    BY <2>1, <2>2, <2>3, <2>4
  <2>. QED  BY <2>1, <2>5 DEF r, p, v
<1>7. Referenced' = Referenced
  <2>1. eventRefs[e] + 1 > 0
    BY <1>2
  <2>2. \A x \in Commands : eventRefs'[x] > 0 <=> eventRefs[x] > 0
    BY <1>3, <1>5, <2>1
  <2>. QED  BY <2>2 DEF Referenced
<1>8. FlushInv' /\ QueueInv' /\ LastInv'
  BY <1>1, <1>7 DEF Books, FlushInv, QueueInv, LastInv
<1>9. Started(Queued, stack)
  BY DEF Books, StartedInv
<1>. QED  BY <1>1, <1>2, <1>4, <1>5, <1>6, <1>8, <1>9, RefsKeep

(* A step that neither takes nor gives up a reference to an event. *)
LEMMA EventsKept ==
  ASSUME Books, UNCHANGED <<fixed, commands, status, hasCommand, commandVars, history>>,
         flushing' \in BOOLEAN, callbacks' \in [Commands -> SUBSET CallbackTypes],
         UNCHANGED <<eventRefs, appEvent>>, appQueue' \in 0 .. MaxAppRefs,
         Over(stack', stack) \/ stack' = stack,
         FlushInv', QueueInv', LastInv'
  PROVE  Books'
<1>1. /\ appEvent \in [Commands -> 0 .. MaxAppRefs] /\ eventRefs \in [Commands -> Nat]
      /\ stack \in Seq(Frames)
  BY DEF Books, TypeOK
<1>2. Started(Queued, stack)
  BY DEF Books, StartedInv
<1>3. Over(stack', stack)
  BY <1>1, OverTrans
<1>4. stack' \in Seq(Frames) /\ Taken(stack') = Taken(stack) /\ Started(Queued, stack')
      /\ \A f \in ToSet(stack') : \/ f \in ToSet(stack) \/ f \in {FlushFrame, ReleaseFrame}
                                  \/ (f \in Frames /\ FrameOK(f))
  BY <1>2, <1>3 DEF Over
<1>5. ASSUME NEW x \in Commands
      PROVE  /\ eventRefs'[x] + appEvent[x] + Calls(Releasing(x), stack)
                  = eventRefs[x] + appEvent'[x] + Calls(Releasing(x), stack')
             /\ eventRefs'[x] # eventRefs[x] => eventRefs[x] > 0
  <2>1. Calls(Releasing(x), stack') = Calls(Releasing(x), stack)
    BY <1>3 DEF Over
  <2>. QED  BY <2>1
<1>. QED  BY <1>1, <1>4, <1>5, RefsKeep

LEMMA FinishKeeps ==
  ASSUME Books, Finish
  PROVE  Books'
<1>1. /\ appQueue > 0 /\ CallFlush(stack) /\ queueRefs' = queueRefs /\ callbacks' = callbacks
      /\ eventRefs' = eventRefs /\ appEvent' = appEvent /\ appQueue' = appQueue /\ alive' = alive
      /\ UNCHANGED <<fixed, commands, status, hasCommand, commandVars, history>>
  BY DEF Finish, eventVars, appVars, commandVars
<1>2. /\ TypeOK /\ FlushInv /\ QueueInv
  BY DEF Books
<1>3. /\ Over(stack', stack) /\ flushing' = TRUE /\ Calls(Of("flush"), stack') = 1
      /\ Calls(Of("release"), stack') = Calls(Of("release"), stack)
  BY <1>1, <1>2, FlushCalled DEF TypeOK, FlushInv
<1>4. FlushInv' /\ LastInv'
  BY <1>3 DEF FlushInv, LastInv, Count
<1>5. QueueInv'
  BY <1>1, <1>2, <1>3 DEF QueueInv, Referenced
<1>6. callbacks' \in [Commands -> SUBSET CallbackTypes] /\ appQueue' \in 0 .. MaxAppRefs
  BY <1>1, <1>2 DEF TypeOK
<1>. QED  BY <1>1, <1>3, <1>4, <1>5, <1>6, EventsKept

LEMMA SetCallbackKeeps ==
  ASSUME Books, NEW e \in Commands, NEW s \in CallbackTypes, SetCallback(e, s)
  PROVE  Books'
<1>1. /\ callbacks' = [callbacks EXCEPT ![e] = @ \cup {s}] /\ stack' = stack
      /\ eventRefs' = eventRefs /\ appEvent' = appEvent /\ appQueue' = appQueue /\ alive' = alive
      /\ queueRefs' = queueRefs /\ flushing' = flushing
      /\ UNCHANGED <<fixed, commands, status, hasCommand, commandVars, history>>
  BY DEF SetCallback, queueVars, appVars, commandVars
<1>2. /\ TypeOK /\ FlushInv /\ QueueInv /\ LastInv
  BY DEF Books
<1>3. callbacks' \in [Commands -> SUBSET CallbackTypes] /\ appQueue' \in 0 .. MaxAppRefs
      /\ flushing' \in BOOLEAN
  BY <1>1, <1>2 DEF TypeOK
<1>4. FlushInv' /\ LastInv'
  BY <1>1, <1>2 DEF FlushInv, LastInv
<1>5. QueueInv'
  BY <1>1, <1>2 DEF QueueInv, Referenced
<1>. QED  BY <1>1, <1>3, <1>4, <1>5, EventsKept

LEMMA RetainQueueKeeps ==
  ASSUME Books, RetainQueue
  PROVE  Books'
<1>1. /\ appQueue \in 1 .. MaxAppRefs - 1 /\ queueRefs' = queueRefs + 1 /\ appQueue' = appQueue + 1
      /\ eventRefs' = eventRefs /\ appEvent' = appEvent /\ alive' = alive /\ callbacks' = callbacks
      /\ stack' = stack /\ flushing' = flushing
      /\ UNCHANGED <<fixed, commands, status, hasCommand, commandVars, history>>
  BY DEF RetainQueue, eventVars, commandVars
<1>2. /\ TypeOK /\ FlushInv /\ QueueInv
  BY DEF Books
<1>3. callbacks' \in [Commands -> SUBSET CallbackTypes] /\ flushing' \in BOOLEAN
      /\ stack \in Seq(Frames)
  BY <1>1, <1>2 DEF TypeOK
<1>4. appQueue' \in 0 .. MaxAppRefs /\ appQueue \in Nat /\ appQueue' # 0
  BY <1>1, QueueAssumption
<1>5. FlushInv' /\ LastInv'
  BY <1>1, <1>2, <1>4 DEF FlushInv, LastInv
<1>6. QueueInv'
  <2>. DEFINE n == Cardinality(alive)
              m == Cardinality(Referenced)
              r == Calls(Of("release"), stack)
  <2>1. n \in Nat /\ m \in Nat
    BY <1>2, ReferencedFacts
  <2>2. r \in Nat
    BY <1>3, CallsType
  <2>3. queueRefs = appQueue + n + m + r
    BY <1>2 DEF QueueInv
  <2>4. QueueInv' <=> queueRefs' = appQueue' + n + m + r
    BY <1>1 DEF QueueInv, Referenced
  <2>. HIDE DEF n, m, r
  <2>. QED  BY <1>1, <1>4, <2>1, <2>2, <2>3, <2>4
<1>. QED  BY <1>1, <1>3, <1>4, <1>5, <1>6, EventsKept

LEMMA ReleaseQueueKeeps ==
  ASSUME Books, ReleaseQueue
  PROVE  Books'
<1>1. /\ appQueue > 0 /\ CallReleaseQueue(stack) /\ appQueue' = appQueue - 1
      /\ eventRefs' = eventRefs /\ appEvent' = appEvent /\ alive' = alive /\ callbacks' = callbacks
      /\ UNCHANGED <<fixed, commands, status, hasCommand, commandVars, history>>
  BY DEF ReleaseQueue, eventVars, commandVars
<1>2. /\ TypeOK /\ FlushInv /\ QueueInv
  BY DEF Books
<1>3. callbacks' \in [Commands -> SUBSET CallbackTypes] /\ flushing \in BOOLEAN
      /\ stack \in Seq(Frames) /\ queueRefs \in Nat /\ appQueue \in 0 .. MaxAppRefs
  BY <1>1, <1>2 DEF TypeOK
<1>4. appQueue' \in 0 .. MaxAppRefs /\ appQueue \in Nat
  BY <1>1, <1>3, QueueAssumption
<1>5. /\ Over(stack', stack) /\ flushing' = TRUE /\ Calls(Of("flush"), stack') = 1
      /\ queueRefs' = queueRefs - 1 + (Calls(Of("release"), stack') - Calls(Of("release"), stack))
  BY <1>1, <1>2, <1>3, QueueReleased DEF FlushInv
<1>6. FlushInv' /\ LastInv'
  BY <1>5 DEF FlushInv, LastInv, Count
<1>7. QueueInv'
  <2>. DEFINE n == Cardinality(alive)
              m == Cardinality(Referenced)
              r == Calls(Of("release"), stack)
              q == Calls(Of("release"), stack')
  <2>1. n \in Nat /\ m \in Nat
    BY <1>2, ReferencedFacts
  <2>2. r \in Nat
    BY <1>3, CallsType
  <2>3. q \in Nat
    BY <1>5, CallsType DEF Over
  <2>4. queueRefs = appQueue + n + m + r
    BY <1>2 DEF QueueInv
  <2>5. QueueInv' <=> queueRefs' = appQueue' + n + m + q
    BY <1>1 DEF QueueInv, Referenced
  <2>6. queueRefs' = queueRefs - 1 + (q - r)
    BY <1>5
  <2>. HIDE DEF n, m, r, q
  <2>. QED  BY <1>1, <1>4, <2>1, <2>2, <2>3, <2>4, <2>5, <2>6
<1>. QED  BY <1>1, <1>3, <1>4, <1>5, <1>6, <1>7, EventsKept

-----------------------------------------------------------------------------
(* The innermost call, and the stack below it.                             *)
LEMMA PopCalls ==
  ASSUME Books, stack # <<>>
  PROVE  /\ stack \in Seq(Frames) /\ Top \in Frames /\ Below \in Seq(Frames)
         /\ stack = Push(Top, Below) /\ ToSet(Below) \subseteq ToSet(stack) /\ FrameOK(Top)
         /\ \A P : Calls(P, stack) = Calls(P, Below) + Count(Top \in P) /\ Calls(P, Below) \in Nat
         /\ Taken(stack) = Taken(Below) \cup (IF Top.fn = "flush" THEN ToSet(Top.done) ELSE {})
         /\ Started(Queued, Push(Top, Below))
<1>. DEFINE h == Top
            b == Below
<1>1. /\ stack \in Seq(Frames) /\ h \in Frames /\ b \in Seq(Frames) /\ stack = Push(h, b)
      /\ ToSet(b) \subseteq ToSet(stack) /\ h \in ToSet(stack)
  BY TopFacts DEF Books, TypeOK
<1>2. FrameOK(h)
  BY <1>1 DEF Books, FramesInv
<1>3. Started(Queued, Push(h, b))
  BY <1>1 DEF Books, StartedInv
<1>. HIDE DEF h, b
<1>4. \A P : Calls(P, stack) = Calls(P, b) + Count(h \in P) /\ Calls(P, b) \in Nat
  <2>. TAKE P
  <2>1. Calls(P, Push(h, b)) = Calls(P, b) + Count(h \in P)
    BY <1>1, CallsOfPush
  <2>2. Calls(P, b) \in Nat
    BY <1>1, CallsType
  <2>. QED  BY <1>1, <2>1, <2>2
<1>5. Taken(stack) = Taken(b) \cup (IF h.fn = "flush" THEN ToSet(h.done) ELSE {})
  BY <1>1, TakenOfPush
<1>. QED  BY <1>1, <1>2, <1>3, <1>4, <1>5 DEF h, b

LEMMA ReleaseQueueEndKeeps ==
  ASSUME Books, ReleaseQueueEnd
  PROVE  Books'
<1>1. /\ stack # <<>> /\ Top.fn = "release" /\ queueRefs' = queueRefs - 1 /\ stack' = Below
      /\ eventRefs' = eventRefs /\ appEvent' = appEvent /\ alive' = alive /\ callbacks' = callbacks
      /\ flushing' = flushing /\ appQueue' = appQueue
      /\ UNCHANGED <<fixed, commands, status, hasCommand, commandVars, history>>
  BY DEF ReleaseQueueEnd, eventVars, commandVars, appVars
<1>2. TypeOK /\ FlushInv /\ QueueInv /\ LastInv
  BY DEF Books
<1>. DEFINE h == Top
            b == Below
<1>3. h \in Frames /\ b \in Seq(Frames) /\ ToSet(b) \subseteq ToSet(stack) /\ stack' = b
      /\ h.fn = "release" /\ Started(Queued, Push(h, b))
  BY <1>1, PopCalls
<1>4. \A P : Calls(P, stack) = Calls(P, b) + Count(h \in P) /\ Calls(P, b) \in Nat
  BY <1>1, PopCalls
<1>5. Taken(stack) = Taken(b)
  BY <1>1, PopCalls
<1>. HIDE DEF h, b
<1>6. /\ h \in Of("release") /\ h \notin Of("flush") /\ \A e : h \notin Releasing(e)
  BY <1>3 DEF Of, Releasing
<1>7. /\ Calls(Of("release"), stack) = Calls(Of("release"), b) + 1
      /\ Calls(Of("flush"), stack) = Calls(Of("flush"), b)
  BY <1>4, <1>6 DEF Count
<1>8. \A e : Calls(Releasing(e), stack) = Calls(Releasing(e), b)
  <2>. TAKE e
  <2>1. Calls(Releasing(e), stack) = Calls(Releasing(e), b) + 0 /\ Calls(Releasing(e), b) \in Nat
    BY <1>4, <1>6 DEF Count
  <2>. QED  BY <2>1
<1>9. Started(Queued, b)
  BY <1>3, StartedOfPop
<1>10. FlushInv' /\ LastInv'
  BY <1>1, <1>2, <1>3, <1>7 DEF FlushInv, LastInv
<1>11. QueueInv'
  <2>. DEFINE n == Cardinality(alive)
              m == Cardinality(Referenced)
              r == Calls(Of("release"), b)
  <2>1. n \in Nat /\ m \in Nat /\ r \in Nat /\ appQueue \in Nat
    BY <1>2, <1>4, ReferencedFacts, QueueAssumption DEF TypeOK
  <2>2. queueRefs = appQueue + n + m + (r + 1)
    BY <1>2, <1>7 DEF QueueInv
  <2>3. QueueInv' <=> queueRefs' = appQueue + n + m + r
    BY <1>1, <1>3 DEF QueueInv, Referenced
  <2>. HIDE DEF n, m, r
  <2>. QED  BY <1>1, <2>1, <2>2, <2>3
<1>12. /\ flushing' \in BOOLEAN /\ callbacks' \in [Commands -> SUBSET CallbackTypes]
       /\ appEvent' \in [Commands -> 0 .. MaxAppRefs] /\ appQueue' \in 0 .. MaxAppRefs
       /\ eventRefs' \in [Commands -> Nat]
  BY <1>1, <1>2 DEF TypeOK
<1>13. \A f \in ToSet(stack') : f \in ToSet(stack)
  BY <1>3
<1>14. \A e \in Commands :
         /\ eventRefs'[e] + appEvent[e] + Calls(Releasing(e), stack)
              = eventRefs[e] + appEvent'[e] + Calls(Releasing(e), stack')
         /\ eventRefs'[e] # eventRefs[e] => eventRefs[e] > 0
  BY <1>1, <1>3, <1>8
<1>. QED  BY <1>1, <1>3, <1>5, <1>9, <1>10, <1>11, <1>12, <1>13, <1>14, RefsKeep

(* The flush on top of the stack is the only one, and it took everything.  *)
LEMMA TheFlush ==
  ASSUME Books, InFlush
  PROVE  /\ stack # <<>> /\ Top \in Of("flush") /\ Top.done \in Seq(Commands)
         /\ IsInjective(Top.done) /\ flushing /\ Calls(Of("flush"), Below) = 0
         /\ Taken(Below) = {} /\ Taken(stack) = ToSet(Top.done)
         /\ \A f \in ToSet(Below) : f.fn # "flush"
         /\ alive = ToSet(commands) \cup ToSet(Top.done)
         /\ ToSet(commands) \cap ToSet(Top.done) = {}
         /\ Queued \cap ToSet(Top.done) = {}
<1>1. stack # <<>> /\ Top.fn = "flush"
  BY DEF InFlush
<1>. DEFINE h == Top
            b == Below
<1>2. h \in Frames /\ b \in Seq(Frames) /\ FrameOK(h) /\ h.fn = "flush"
      /\ Started(Queued, Push(h, b))
  BY <1>1, PopCalls
<1>3. \A P : Calls(P, stack) = Calls(P, b) + Count(h \in P) /\ Calls(P, b) \in Nat
  BY <1>1, PopCalls
<1>4. Taken(stack) = Taken(b) \cup ToSet(h.done)
  BY <1>1, PopCalls
<1>. HIDE DEF h, b
<1>5. h \in Of("flush") /\ h.done \in Seq(Commands) /\ IsInjective(h.done)
  BY <1>2, FrameTypes DEF Of, FrameOK
<1>6. flushing /\ Calls(Of("flush"), b) = 0
  <2>1. Calls(Of("flush"), stack) = Calls(Of("flush"), b) + 1 /\ Calls(Of("flush"), b) \in Nat
    BY <1>3, <1>5 DEF Count
  <2>2. Calls(Of("flush"), stack) = Count(flushing) /\ flushing \in BOOLEAN
    BY DEF Books, FlushInv, TypeOK
  <2>. QED  BY <2>1, <2>2 DEF Count
<1>7. Taken(b) = {} /\ \A f \in ToSet(b) : f.fn # "flush"
  BY <1>2, <1>6, NothingTaken
<1>8. Taken(stack) = ToSet(h.done)
  BY <1>4, <1>7
<1>9. Queued \cap ToSet(h.done) = {}
  <2>. SUFFICES ASSUME NEW c \in ToSet(h.done) \cap Queued PROVE FALSE
    OBVIOUS
  <2>1. 1 \in DOMAIN Push(h, b) /\ Push(h, b)[1] = h
    BY <1>2, PushFacts
  <2>2. DOMAIN Push(h, b) = 1 .. Len(b) + 1 /\ Len(b) \in Nat
    BY <1>2, PushFacts
  <2>3. PICK i \in DOMAIN Push(h, b) : i < 1
    BY <1>2, <2>1 DEF Started
  <2>. QED  BY <2>2, <2>3
<1>. QED  BY <1>1, <1>5, <1>6, <1>7, <1>8, <1>9 DEF Books, PendingInv, h, b

LEMMA FlushReturnKeeps ==
  ASSUME Books, FlushReturn
  PROVE  Books' /\ alive = {}
<1>1. /\ InFlush /\ commands = <<>> /\ Top.done = <<>> /\ flushing' = FALSE /\ stack' = Below
      /\ eventRefs' = eventRefs /\ appEvent' = appEvent /\ alive' = alive /\ callbacks' = callbacks
      /\ queueRefs' = queueRefs /\ appQueue' = appQueue
      /\ UNCHANGED <<fixed, commands, status, hasCommand, commandVars, history>>
  BY DEF FlushReturn, eventVars, commandVars, appVars
<1>2. TypeOK /\ FlushInv /\ QueueInv /\ LastInv
  BY DEF Books
<1>. DEFINE h == Top
            b == Below
<1>3. /\ stack # <<>> /\ h \in Of("flush") /\ Calls(Of("flush"), b) = 0 /\ Taken(b) = {}
      /\ Taken(stack) = ToSet(h.done) /\ alive = ToSet(commands) \cup ToSet(h.done)
      /\ Queued \cap ToSet(h.done) = {}
  BY <1>1, TheFlush
<1>4. h \in Frames /\ b \in Seq(Frames) /\ ToSet(b) \subseteq ToSet(stack) /\ stack' = b
      /\ Started(Queued, Push(h, b))
  BY <1>1, <1>3, PopCalls
<1>5. \A P : Calls(P, stack) = Calls(P, b) + Count(h \in P) /\ Calls(P, b) \in Nat
  BY <1>3, PopCalls
<1>6. h.done = <<>> /\ ToSet(<<>>) = {}
  BY <1>1 DEF ToSet
<1>. HIDE DEF h, b
<1>7. alive = {} /\ Taken(stack) = Taken(b)
  BY <1>1, <1>3, <1>6
<1>8. h.fn = "flush" /\ h \notin Of("release") /\ \A e : h \notin Releasing(e)
  BY <1>3 DEF Of, Releasing
<1>9. Calls(Of("release"), stack) = Calls(Of("release"), b)
  BY <1>5, <1>8 DEF Count
<1>10. \A e : Calls(Releasing(e), stack) = Calls(Releasing(e), b)
  <2>. TAKE e
  <2>1. Calls(Releasing(e), stack) = Calls(Releasing(e), b) + 0 /\ Calls(Releasing(e), b) \in Nat
    BY <1>5, <1>8 DEF Count
  <2>. QED  BY <2>1
<1>11. Started(Queued, b)
  BY <1>4, <1>8, StartedOfPop
<1>12. FlushInv' /\ LastInv'
  BY <1>1, <1>3, <1>4, <1>7 DEF FlushInv, LastInv, Count
<1>13. QueueInv'
  BY <1>1, <1>2, <1>4, <1>9 DEF QueueInv, Referenced
<1>14. /\ flushing' \in BOOLEAN /\ callbacks' \in [Commands -> SUBSET CallbackTypes]
       /\ appEvent' \in [Commands -> 0 .. MaxAppRefs] /\ appQueue' \in 0 .. MaxAppRefs
       /\ eventRefs' \in [Commands -> Nat]
  BY <1>1, <1>2 DEF TypeOK
<1>15. \A f \in ToSet(stack') : f \in ToSet(stack)
  BY <1>4
<1>16. \A e \in Commands :
         /\ eventRefs'[e] + appEvent[e] + Calls(Releasing(e), stack)
              = eventRefs[e] + appEvent'[e] + Calls(Releasing(e), stack')
         /\ eventRefs'[e] # eventRefs[e] => eventRefs[e] > 0
  BY <1>1, <1>4, <1>10
<1>17. Books'
  BY <1>1, <1>4, <1>7, <1>11, <1>12, <1>13, <1>14, <1>15, <1>16, RefsKeep
<1>. QED  BY <1>7, <1>17

-----------------------------------------------------------------------------
(* The steps of flush that take and delete a command.                      *)
LEMMA FlushNextKeeps ==
  ASSUME Books, FlushNext
  PROVE  Books'
<1>. DEFINE h == Top
            b == Below
            c == IF outOfOrder THEN Last(commands) ELSE Head(commands)
            d == Append(h.done, c)
            g == [h EXCEPT !.done = d]
            t == Push(g, b)
<1>1. /\ InFlush /\ commands # <<>>
      /\ commands' = (IF outOfOrder THEN Front(commands) ELSE Tail(commands))
      /\ stack' = Push(ExecFrame(c), t)
      /\ usage' = usage /\ outOfOrder' = outOfOrder /\ flushing' = flushing /\ queueRefs' = queueRefs
      /\ status' = status /\ eventRefs' = eventRefs /\ hasCommand' = hasCommand
      /\ callbacks' = callbacks /\ alive' = alive /\ waitList' = waitList /\ appEvent' = appEvent
      /\ appQueue' = appQueue /\ enqueued' = enqueued /\ deps' = deps /\ unasked' = unasked
      /\ ran' = ran
  BY DEF FlushNext, fixed, eventVars, commandVars, appVars, history
<1>2. TypeOK /\ commands \in Seq(Commands) /\ IsInjective(commands)
  BY DEF Books, TypeOK, PendingInv
<1>3. /\ c \in Commands /\ commands' \in Seq(Commands) /\ ToSet(commands) = {c} \cup ToSet(commands')
      /\ IsInjective(commands') /\ c \notin ToSet(commands')
  BY <1>1, <1>2, TailFacts, FrontFacts
<1>. HIDE DEF c
<1>4. /\ stack # <<>> /\ h \in Of("flush") /\ h.done \in Seq(Commands) /\ IsInjective(h.done)
      /\ Taken(b) = {} /\ alive = ToSet(commands) \cup ToSet(h.done)
      /\ ToSet(commands) \cap ToSet(h.done) = {}
  BY <1>1, TheFlush
<1>5. h \in Frames /\ b \in Seq(Frames) /\ ToSet(b) \subseteq ToSet(stack)
      /\ Started(Queued, Push(h, b)) /\ stack \in Seq(Frames) /\ h.fn = "flush"
  BY <1>4, PopCalls DEF Of
<1>6. \A P : Calls(P, stack) = Calls(P, b) + Count(h \in P) /\ Calls(P, b) \in Nat
  BY <1>4, PopCalls
<1>. HIDE DEF h, b
<1>7. d \in Seq(Commands) /\ ToSet(d) = ToSet(h.done) \cup {c} /\ IsInjective(d)
  BY <1>3, <1>4, AppendFacts
<1>. HIDE DEF d
<1>8. g \in Of("flush") /\ g.done = d
  BY <1>4, <1>7, DoneUpdate
<1>. HIDE DEF g
<1>9. g \in Frames /\ g.fn = "flush"
  BY <1>8 DEF Of
<1>10. t \in Seq(Frames) /\ ToSet(t) = {g} \cup ToSet(b)
  BY <1>5, <1>9, PushFacts
<1>11. Neutral(ExecFrame(c)) /\ ExecFrame(c).c = c /\ ExecFrame(c).fn = "exec"
       /\ ExecFrame(c).pc = "start"
  BY <1>3, FrameTypes DEF Neutral
<1>12. \A P : Calls(P, t) = Calls(P, b) + Count(g \in P)
  <2>. TAKE P
  <2>. QED  BY <1>5, <1>9, CallsOfPush
<1>13. Taken(t) = ToSet(h.done) \cup {c}
  <2>1. Taken(t) = Taken(b) \cup ToSet(g.done)
    BY <1>5, <1>9, TakenOfPush
  <2>. QED  BY <1>4, <1>7, <1>8, <2>1
<1>14. Started(Queued, stack')
  <2>1. ToSet(g.done) = ToSet(h.done) \cup {c}
    BY <1>7, <1>8
  <2>2. Started(Queued, Push(ExecFrame(c), Push(g, b)))
    BY <1>3, <1>4, <1>5, <1>8, <2>1, StartedOfTake
  <2>. QED  BY <1>1, <2>2
<1>15. Calls(Of("flush"), t) = Calls(Of("flush"), stack)
       /\ Calls(Of("release"), t) = Calls(Of("release"), stack)
  <2>1. h \notin Of("release") /\ g \notin Of("release")
    BY <1>5, <1>9 DEF Of
  <2>. QED  BY <1>4, <1>6, <1>8, <1>12, <2>1 DEF Count
<1>16. \A e : Calls(Releasing(e), t) = Calls(Releasing(e), stack)
  <2>. TAKE e
  <2>1. h \notin Releasing(e) /\ g \notin Releasing(e)
    BY <1>5, <1>9 DEF Releasing, Of
  <2>2. Count(h \in Releasing(e)) = 0 /\ Count(g \in Releasing(e)) = 0
    BY <2>1 DEF Count
  <2>. QED  BY <1>6, <1>12, <2>2
<1>. HIDE DEF t
<1>17. stack' \in Seq(Frames) /\ ToSet(stack') = {ExecFrame(c)} \cup ToSet(t) /\ SameHolders(stack', t)
  BY <1>1, <1>10, <1>11, PushNeutral
<1>18. TypeOK'
  BY <1>1, <1>2, <1>3, <1>17 DEF TypeOK
<1>19. KnownInv' /\ ListInv'
  BY <1>1 DEF Books, KnownInv, ListInv, ListsHeeded
<1>20. FlushInv' /\ LastInv'
  BY <1>1, <1>15, <1>17 DEF Books, FlushInv, LastInv, SameHolders
<1>21. PendingInv'
  <2>1. Taken(stack') = ToSet(h.done) \cup {c}
    BY <1>13, <1>17 DEF SameHolders
  <2>2. \A x \in Commands : hasCommand[x] <=> x \in alive
    BY DEF Books, PendingInv
  <2>. QED  BY <1>1, <1>3, <1>4, <2>1, <2>2 DEF PendingInv
<1>22. StartedInv'
  BY <1>1, <1>14 DEF Books, StartedInv, Queued
<1>23. FramesInv'
  <2>1. StatusGoesOn
    BY <1>1 DEF StatusGoesOn
  <2>2. ASSUME NEW f, f = g PROVE FrameOK(f)'
    BY <1>7, <1>8, <1>9, <2>2 DEF FrameOK
  <2>3. ASSUME NEW f, f = ExecFrame(c) PROVE FrameOK(f)'
    <3>1. c \in alive
      BY <1>3, <1>4
    <3>2. status[c] # "none"
      BY <1>3, <3>1, HeldIsKnown
    <3>. QED  BY <1>1, <1>11, <2>3, <3>2 DEF FrameOK
  <2>4. \A f \in ToSet(b) : FrameOK(f)'
    BY <1>1, <1>5, <2>1, FramesKept
  <2>. QED  BY <1>10, <1>17, <2>2, <2>3, <2>4 DEF FramesInv
<1>24. EventsInv'
  <2>1. \A e \in Commands : Named(e)' = Named(e) /\ Calls(Releasing(e), stack') = Calls(Releasing(e), stack)
    BY <1>1, <1>16, <1>17 DEF Named, SameHolders
  <2>2. \A e \in Commands : Holders(e)' = Holders(e)
    BY <1>1, <2>1 DEF Holders
  <2>. QED  BY <1>1, <2>2 DEF Books, EventsInv, ListsHeeded
<1>25. QueueInv'
  BY <1>1, <1>15, <1>17 DEF Books, QueueInv, Referenced, SameHolders
<1>. QED  BY <1>18, <1>19, <1>20, <1>21, <1>22, <1>23, <1>24, <1>25 DEF Books

LEMMA FlushDeleteKeeps ==
  ASSUME Books, FlushDelete
  PROVE  Books'
<1>. DEFINE h == Top
            b == Below
            c == Head(h.done)
            d == Tail(h.done)
            g == [h EXCEPT !.done = d]
            freed == eventRefs[c] = 1
<1>1. /\ InFlush /\ commands = <<>> /\ h.done # <<>> /\ stack' = Push(g, b)
      /\ hasCommand' = [hasCommand EXCEPT ![c] = FALSE] /\ alive' = alive \ {c}
      /\ waitList' = [waitList EXCEPT ![c] = <<>>]
      /\ eventRefs' = [eventRefs EXCEPT ![c] = @ - 1]
      /\ callbacks' = (IF freed THEN [callbacks EXCEPT ![c] = {}] ELSE callbacks)
      /\ queueRefs' = queueRefs - (IF freed THEN 2 ELSE 1)
      /\ usage' = usage /\ outOfOrder' = outOfOrder /\ flushing' = flushing /\ commands' = commands
      /\ status' = status /\ appEvent' = appEvent /\ appQueue' = appQueue /\ enqueued' = enqueued
      /\ deps' = deps /\ unasked' = unasked /\ ran' = ran
  BY DEF FlushDelete, fixed, appVars, history
<1>2. TypeOK /\ KnownInv /\ FlushInv /\ StartedInv /\ ListInv /\ EventsInv /\ QueueInv
      /\ \A x \in Commands : hasCommand[x] <=> x \in alive
  BY DEF Books, PendingInv
<1>3. /\ stack # <<>> /\ h \in Of("flush") /\ h.done \in Seq(Commands) /\ IsInjective(h.done)
      /\ Taken(b) = {} /\ alive = ToSet(commands) \cup ToSet(h.done) /\ flushing
      /\ Queued \cap ToSet(h.done) = {}
  BY <1>1, TheFlush
<1>4. h \in Frames /\ b \in Seq(Frames) /\ ToSet(b) \subseteq ToSet(stack)
      /\ stack \in Seq(Frames) /\ h.fn = "flush"
  BY <1>3, PopCalls DEF Of
<1>5. \A P : Calls(P, stack) = Calls(P, b) + Count(h \in P) /\ Calls(P, b) \in Nat
  BY <1>3, PopCalls
<1>. HIDE DEF h, b
<1>6. /\ c \in Commands /\ d \in Seq(Commands) /\ ToSet(h.done) = {c} \cup ToSet(d)
      /\ IsInjective(d) /\ c \notin ToSet(d)
  BY <1>1, <1>3, TailFacts
<1>. HIDE DEF c, d
<1>7. alive = {c} \cup ToSet(d) /\ alive' = ToSet(d)
  <2>1. ToSet(commands) = {}
    BY <1>1 DEF ToSet
  <2>. QED  BY <1>1, <1>3, <1>6, <2>1
<1>8. g \in Of("flush") /\ g.done = d
  BY <1>3, <1>6, DoneUpdate
<1>. HIDE DEF g
<1>9. g \in Frames /\ g.fn = "flush"
  BY <1>8 DEF Of
<1>10. stack' \in Seq(Frames) /\ ToSet(stack') = {g} \cup ToSet(b)
  <2>1. Push(g, b) \in Seq(Frames)
    BY <1>4, <1>9, PushFacts
  <2>2. ToSet(Push(g, b)) = {g} \cup ToSet(b)
    BY <1>4, <1>9, PushFacts
  <2>. QED  BY <1>1, <2>1, <2>2
<1>11. \A P : Calls(P, stack') = Calls(P, b) + Count(g \in P)
  <2>. TAKE P
  <2>1. Calls(P, Push(g, b)) = Calls(P, b) + Count(g \in P)
    BY <1>4, <1>9, CallsOfPush
  <2>. QED  BY <1>1, <2>1
<1>12. Taken(stack') = ToSet(d)
  <2>1. Taken(Push(g, b)) = Taken(b) \cup ToSet(g.done)
    BY <1>4, <1>9, TakenOfPush
  <2>. QED  BY <1>1, <1>3, <1>8, <2>1
<1>13. Calls(Of("flush"), stack') = Calls(Of("flush"), stack)
       /\ Calls(Of("release"), stack') = Calls(Of("release"), stack)
  <2>1. h \notin Of("release") /\ g \notin Of("release")
    BY <1>4, <1>9 DEF Of
  <2>. QED  BY <1>3, <1>5, <1>8, <1>11, <2>1 DEF Count
<1>14. \A e : Calls(Releasing(e), stack') = Calls(Releasing(e), stack)
  <2>. TAKE e
  <2>1. h \notin Releasing(e) /\ g \notin Releasing(e)
    BY <1>4, <1>9 DEF Releasing, Of
  <2>2. Count(h \in Releasing(e)) = 0 /\ Count(g \in Releasing(e)) = 0
    BY <2>1 DEF Count
  <2>. QED  BY <1>5, <1>11, <2>2
<1>15. /\ eventRefs[c] \in Nat \ {0} /\ status[c] \notin {"none", "queued"}
       /\ eventRefs \in [Commands -> Nat] /\ waitList \in [Commands -> Seq(Commands)]
  <2>1. eventRefs[c] \in Nat \ {0} /\ status[c] # "none"
    BY <1>6, <1>7, HeldIsKnown
  <2>2. status[c] # "queued"
    BY <1>3, <1>6 DEF Queued
  <2>. QED  BY <1>2, <2>1, <2>2 DEF TypeOK
<1>16. /\ eventRefs' \in [Commands -> Nat] /\ eventRefs'[c] = eventRefs[c] - 1
       /\ \A x \in Commands : x # c => eventRefs'[x] = eventRefs[x]
  BY <1>1, <1>6, <1>15
<1>17. /\ waitList' \in [Commands -> Seq(Commands)] /\ waitList'[c] = <<>>
       /\ \A x \in Commands : x # c => waitList'[x] = waitList[x]
  <2>1. <<>> \in Seq(Commands)
    BY EmptySeq
  <2>. QED  BY <1>1, <1>6, <1>15, <2>1
<1>18. IsInjective(<<>>) /\ ToSet(<<>>) = {}
  BY DEF IsInjective, ToSet
<1>19. IsFiniteSet(alive) /\ Cardinality(alive) \in Nat /\ IsFiniteSet(Referenced)
       /\ Cardinality(Referenced) \in Nat
  BY <1>2, ReferencedFacts
<1>20. Cardinality(alive') = Cardinality(alive) - 1
  BY <1>1, <1>7, <1>19, FS_RemoveElement
<1>21. Cardinality(Referenced') = Cardinality(Referenced) - (IF freed THEN 1 ELSE 0)
  <2>1. c \in Referenced
    BY <1>6, <1>15 DEF Referenced
  <2>2. CASE freed
    <3>1. Referenced' = Referenced \ {c}
      BY <1>15, <1>16, <2>2 DEF Referenced
    <3>2. Cardinality(Referenced \ {c}) = Cardinality(Referenced) - 1
      BY <1>19, <2>1, FS_RemoveElement
    <3>. QED  BY <2>2, <3>1, <3>2
  <2>3. CASE ~freed
    <3>1. eventRefs[c] > 0 /\ eventRefs[c] - 1 > 0
      BY <1>15, <2>3
    <3>2. \A x \in Commands : eventRefs'[x] > 0 <=> eventRefs[x] > 0
      BY <1>16, <3>1
    <3>3. Referenced' = Referenced
      BY <3>2 DEF Referenced
    <3>. QED  BY <1>19, <2>3, <3>3
  <2>. QED  BY <2>2, <2>3
<1>22. QueueInv' /\ queueRefs' \in Nat
  <2>. DEFINE n == Cardinality(alive)
              m == Cardinality(Referenced)
              n1 == Cardinality(alive')
              m1 == Cardinality(Referenced')
              r == Calls(Of("release"), stack)
              k == IF freed THEN 1 ELSE 0
  <2>1. r \in Nat /\ appQueue \in Nat /\ k \in 0 .. 1 /\ n \in Nat /\ m \in Nat
    <3>1. r \in Nat
      BY <1>4, CallsType
    <3>2. appQueue \in Nat
      BY <1>2, QueueAssumption DEF TypeOK
    <3>. QED  BY <1>19, <3>1, <3>2
  <2>2. queueRefs = appQueue + n + m + r
    BY <1>2 DEF QueueInv
  <2>3. queueRefs' = queueRefs - (k + 1) /\ n1 = n - 1 /\ m1 = m - k
    BY <1>1, <1>20, <1>21
  <2>4. n1 \in Nat /\ m1 \in Nat
    <3>1. alive' \subseteq alive /\ Referenced' \subseteq Commands
      BY <1>1 DEF Referenced
    <3>2. IsFiniteSet(alive') /\ IsFiniteSet(Referenced')
      BY <1>19, <3>1, QueueAssumption, FS_Subset
    <3>. QED  BY <3>2, FS_CardinalityType
  <2>5. QueueInv' <=> queueRefs' = appQueue + n1 + m1 + r
    BY <1>1, <1>13 DEF QueueInv
  <2>. HIDE DEF n, m, n1, m1, r, k
  <2>6. queueRefs' = appQueue + n1 + m1 + r /\ queueRefs' \in Nat
    BY <2>1, <2>2, <2>3, <2>4
  <2>. QED  BY <2>5, <2>6
<1>23. TypeOK'
  <2>1. /\ alive' \subseteq Commands /\ hasCommand' \in [Commands -> BOOLEAN]
        /\ callbacks' \in [Commands -> SUBSET CallbackTypes]
    BY <1>1, <1>2 DEF TypeOK
  <2>. QED  BY <1>1, <1>2, <1>10, <1>16, <1>17, <1>22, <2>1 DEF TypeOK
<1>24. KnownInv'
  BY <1>1, <1>2, <1>15, <1>16 DEF KnownInv
<1>25. FlushInv' /\ LastInv'
  BY <1>1, <1>2, <1>3, <1>13 DEF FlushInv, LastInv
<1>26. PendingInv'
  <2>1. ToSet(commands') = {} /\ IsInjective(commands')
    BY <1>1, <1>18
  <2>2. \A x \in Commands : hasCommand'[x] <=> x \in alive'
    BY <1>1, <1>2 DEF TypeOK
  <2>. QED  BY <1>7, <1>12, <2>1, <2>2 DEF PendingInv
<1>27. StartedInv'
  <2>1. Queued' = Queued /\ c \notin Queued
    BY <1>1, <1>15 DEF Queued
  <2>2. Queued \subseteq alive'
    BY <1>1, <1>2, <2>1 DEF StartedInv
  <2>3. Queued \cap Taken(stack') = {}
    BY <1>3, <1>6, <1>12
  <2>4. Started(Queued, stack')
    <3>. DEFINE s == stack'
    <3>1. \A k \in DOMAIN s : s[k].fn = "flush" => ToSet(s[k].done) \subseteq Taken(s)
      BY DEF Taken, ToSet
    <3>2. Queued \cap Taken(s) = {}
      BY <2>3
    <3>. HIDE DEF s
    <3>3. Started(Queued, s)
      BY <3>1, <3>2 DEF Started
    <3>. QED  BY <3>3 DEF s
  <2>. QED  BY <2>1, <2>2, <2>4 DEF StartedInv
<1>28. FramesInv'
  <2>1. ASSUME NEW f, f = g PROVE FrameOK(f)'
    BY <1>6, <1>8, <1>9, <2>1 DEF FrameOK
  <2>2. ASSUME NEW f \in ToSet(b) PROVE FrameOK(f)'
    <3>1. f \in Frames /\ FrameOK(f)
      BY <1>4, ElementOfSeq, LenProperties DEF ToSet, Books, FramesInv
    <3>2. f.fn = "exec" => f.c \in Commands
      BY <3>1, FrameTypes DEF Of
    <3>3. f.fn = "exec" => waitList'[f.c] = <<>> \/ waitList'[f.c] = waitList[f.c]
      BY <1>17, <3>2
    <3>. QED  BY <1>1, <3>1, <3>3 DEF FrameOK, ListsHeeded
  <2>. QED  BY <1>10, <2>1, <2>2 DEF FramesInv
<1>29. ListInv'
  BY <1>1, <1>2, <1>17, <1>18 DEF ListInv, ListsHeeded
<1>30. EventsInv'
  <2>. SUFFICES ASSUME NEW e \in Commands
                PROVE  /\ Holders(e)' <= eventRefs'[e]
                       /\ ListsHeeded => eventRefs'[e] = Holders(e)'
    BY <1>1 DEF EventsInv, ListsHeeded
  <2>. DEFINE n == Cardinality(Named(e))
              n1 == Cardinality(Named(e)')
              a == Count(e \in alive)
              u == Count(e \in unasked)
              r == Calls(Releasing(e), stack)
              p == appEvent[e]
              v == eventRefs[e]
              k == Count(e = c)
  <2>1. n \in Nat /\ r \in Nat /\ p \in Nat /\ a \in 0 .. 1 /\ u \in 0 .. 1 /\ IsFiniteSet(Named(e))
    BY <1>2, HoldersTypes
  <2>2. Named(e)' \subseteq Named(e)
    BY <1>1, <1>7, <1>17, <1>18 DEF Named
  <2>3. n1 \in Nat /\ n1 <= n
    <3>1. IsFiniteSet(Named(e)') /\ n1 <= n
      BY <2>1, <2>2, FS_Subset
    <3>. QED  BY <3>1, FS_CardinalityType
  <2>4. ListsHeeded => n1 = n
    <3>. SUFFICES ASSUME ListsHeeded PROVE n1 = n
      OBVIOUS
    <3>1. waitList[c] = <<>>
      BY <1>2, <1>6, <1>15 DEF ListInv
    <3>2. Named(e)' = Named(e)
      BY <1>1, <1>2, <1>7, <1>17, <1>18, <3>1 DEF Named, TypeOK
    <3>. QED  BY <3>2
  <2>5. Count(e \in alive') = a - k /\ k \in 0 .. 1
    BY <1>1, <1>7 DEF Count
  <2>6. Holders(e) = p + a + u + n + r
    BY DEF Holders
  <2>7. Holders(e)' = p + (a - k) + u + n1 + r
    BY <1>1, <1>14, <2>5 DEF Holders
  <2>8. v \in Nat /\ eventRefs'[e] = v - k
    BY <1>15, <1>16 DEF Count
  <2>9. Holders(e) <= v /\ (ListsHeeded => v = Holders(e))
    BY <1>2 DEF EventsInv
  <2>. HIDE DEF n, n1, a, u, r, p, v, k
  <2>. QED  BY <2>1, <2>3, <2>4, <2>5, <2>6, <2>7, <2>8, <2>9
<1>. QED  BY <1>22, <1>23, <1>24, <1>25, <1>26, <1>27, <1>28, <1>29, <1>30 DEF Books

-----------------------------------------------------------------------------
(* execute pops an event off the wait list: the wait list's reference is   *)
(* the call's from then on.                                                *)
LEMMA ExecWaitKeeps ==
  ASSUME Books, ExecWait
  PROVE  Books'
<1>. DEFINE h == Top
            b == Below
            c == Top.c
            w == waitList[Top.c]
            e == Last(waitList[Top.c])
            g == [h EXCEPT !.pc = "release", !.dep = e]
            me == Push(g, b)
<1>1. /\ InExec("waits") /\ w # <<>>
      /\ stack' = (IF status[e] = "queued" THEN Push(ExecFrame(e), me) ELSE me)
      /\ waitList' = [waitList EXCEPT ![c] = Front(@)]
      /\ usage' = usage /\ outOfOrder' = outOfOrder /\ flushing' = flushing /\ queueRefs' = queueRefs
      /\ status' = status /\ eventRefs' = eventRefs /\ hasCommand' = hasCommand
      /\ callbacks' = callbacks /\ alive' = alive /\ commands' = commands /\ appEvent' = appEvent
      /\ appQueue' = appQueue /\ enqueued' = enqueued /\ deps' = deps /\ unasked' = unasked
      /\ ran' = ran
  BY DEF ExecWait, fixed, queueVars, eventVars, appVars, history
<1>2. TypeOK /\ KnownInv /\ FlushInv /\ StartedInv /\ ListInv /\ EventsInv /\ QueueInv /\ LastInv
  BY DEF Books
<1>3. /\ stack # <<>> /\ h \in Of("exec") /\ h.c = c /\ c \in Commands /\ h.pc = "waits"
      /\ FrameOK(h) /\ status[c] # "none"
  BY <1>1, ExecTop
<1>4. h \in Frames /\ b \in Seq(Frames) /\ ToSet(b) \subseteq ToSet(stack)
      /\ Started(Queued, Push(h, b)) /\ stack \in Seq(Frames) /\ h.fn = "exec"
  BY <1>3, PopCalls DEF Of
<1>5. \A P : Calls(P, stack) = Calls(P, b) + Count(h \in P) /\ Calls(P, b) \in Nat
  BY <1>3, PopCalls
<1>6. Taken(stack) = Taken(b)
  BY <1>3, <1>4, PopCalls
<1>7. waitList \in [Commands -> Seq(Commands)] /\ w \in Seq(Commands) /\ IsInjective(w)
      /\ (\A x \in ToSet(w) : status[x] # "none")
  BY <1>2, <1>3 DEF TypeOK, ListInv
<1>8. /\ Front(w) \in Seq(Commands) /\ e \in Commands /\ ToSet(w) = {e} \cup ToSet(Front(w))
      /\ IsInjective(Front(w)) /\ e \notin ToSet(Front(w))
  BY <1>1, <1>7, FrontFacts
<1>9. /\ waitList' \in [Commands -> Seq(Commands)] /\ waitList'[c] = Front(w)
      /\ \A x \in Commands : x # c => waitList'[x] = waitList[x]
  BY <1>1, <1>3, <1>7, <1>8
<1>10. c \in alive /\ (ListsHeeded => outOfOrder /\ status[c] = "queued")
  BY <1>1, <1>2, <1>3 DEF ListInv
<1>11. waitList[c] = w /\ w # <<>> /\ status[e] # "none"
  BY <1>1, <1>7, <1>8
<1>. HIDE DEF h, b, w, e, c
<1>12. g \in Of("exec") /\ g.c = c /\ g.pc = "release" /\ g.dep = e
  <2>. DEFINE m == [h EXCEPT !.pc = "release"]
  <2>1. g = [m EXCEPT !.dep = e]
    OBVIOUS
  <2>2. m \in Of("exec") /\ m.c = h.c /\ m.pc = "release"
    BY <1>3, PcUpdate DEF Pcs
  <2>. HIDE DEF m, g
  <2>. QED  BY <1>3, <1>8, <2>1, <2>2, DepUpdate
<1>. HIDE DEF g
<1>13. g \in Frames /\ g.fn = "exec"
  BY <1>12 DEF Of
<1>14. me \in Seq(Frames) /\ ToSet(me) = {g} \cup ToSet(b)
  <2>1. me \in Seq(Frames)
    BY <1>4, <1>13, PushFacts
  <2>2. ToSet(me) = {g} \cup ToSet(b)
    BY <1>4, <1>13, PushFacts
  <2>. QED  BY <2>1, <2>2
<1>15. ASSUME NEW P PROVE Calls(P, me) = Calls(P, b) + Count(g \in P)
  BY <1>4, <1>13, CallsOfPush
<1>16. Taken(me) = Taken(b)
  BY <1>4, <1>13, TakenOfPush
<1>17. Started(Queued, me)
  BY <1>3, <1>4, <1>12, StartedOfReplace
<1>18. Neutral(ExecFrame(e)) /\ ExecFrame(e).fn = "exec" /\ ExecFrame(e).c = e
       /\ ExecFrame(e).pc = "start"
  BY <1>8, FrameTypes DEF Neutral
<1>. HIDE DEF me
<1>19. /\ stack' \in Seq(Frames) /\ SameHolders(stack', me) /\ Started(Queued, stack')
       /\ ToSet(stack') \subseteq {g, ExecFrame(e)} \cup ToSet(b)
  <2>1. CASE status[e] = "queued"
    <3>1. stack' = Push(ExecFrame(e), me)
      BY <1>1, <2>1
    <3>2. Push(ExecFrame(e), me) \in Seq(Frames) /\ SameHolders(Push(ExecFrame(e), me), me)
          /\ ToSet(Push(ExecFrame(e), me)) = {ExecFrame(e)} \cup ToSet(me)
      BY <1>14, <1>18, PushNeutral
    <3>3. Started(Queued, Push(ExecFrame(e), me))
      BY <1>14, <1>17, <1>18, PushNeutral
    <3>. QED  BY <1>14, <3>1, <3>2, <3>3
  <2>2. CASE status[e] # "queued"
    <3>1. stack' = me
      BY <1>1, <2>2
    <3>. QED  BY <1>14, <1>17, <3>1 DEF SameHolders
  <2>. QED  BY <2>1, <2>2
<1>20. /\ Calls(Of("flush"), stack') = Calls(Of("flush"), stack)
       /\ Calls(Of("release"), stack') = Calls(Of("release"), stack)
  <2>1. /\ h \notin Of("flush") /\ g \notin Of("flush")
        /\ h \notin Of("release") /\ g \notin Of("release")
    BY <1>4, <1>13 DEF Of
  <2>. QED  BY <1>5, <1>15, <1>19, <2>1 DEF SameHolders, Count
<1>21. ASSUME NEW x \in Commands
       PROVE  Calls(Releasing(x), stack') = Calls(Releasing(x), stack) + Count(x = e)
  <2>1. h \notin Releasing(x) /\ (g \in Releasing(x) <=> x = e)
    BY <1>3, <1>12 DEF Releasing
  <2>2. Count(h \in Releasing(x)) = 0 /\ Count(g \in Releasing(x)) = Count(x = e)
    BY <2>1 DEF Count
  <2>. QED  BY <1>5, <1>15, <1>19, <2>2 DEF SameHolders
<1>22. TypeOK'
  BY <1>1, <1>2, <1>9, <1>19 DEF TypeOK
<1>23. KnownInv' /\ LastInv'
  BY <1>1, <1>2 DEF KnownInv, LastInv
<1>24. FlushInv'
  BY <1>1, <1>2, <1>20 DEF FlushInv
<1>25. PendingInv'
  BY <1>1, <1>6, <1>16, <1>19 DEF Books, PendingInv, SameHolders
<1>26. StartedInv'
  BY <1>1, <1>2, <1>19 DEF StartedInv, Queued
<1>27. FramesInv'
  <2>1. ASSUME NEW f, f = g PROVE FrameOK(f)'
    BY <1>1, <1>3, <1>12, <1>13, <2>1 DEF FrameOK
  <2>2. ASSUME NEW f, f = ExecFrame(e) PROVE FrameOK(f)'
    BY <1>1, <1>11, <1>18, <2>2 DEF FrameOK
  <2>3. ASSUME NEW f \in ToSet(b) PROVE FrameOK(f)'
    <3>1. f \in Frames /\ FrameOK(f)
      BY <1>4, ElementOfSeq, LenProperties DEF ToSet, Books, FramesInv
    <3>2. f.fn = "exec" => f.c \in Commands
      BY <3>1, FrameTypes DEF Of
    <3>3. f.fn = "exec" => waitList'[f.c] = waitList[f.c] \/ waitList[f.c] # <<>>
      BY <1>9, <1>11, <3>2
    <3>. QED  BY <1>1, <3>1, <3>3 DEF FrameOK, ListsHeeded
  <2>. QED  BY <1>19, <2>1, <2>2, <2>3 DEF FramesInv
<1>28. ListInv'
  <2>. SUFFICES ASSUME NEW x \in Commands
                PROVE  /\ IsInjective(waitList'[x])
                       /\ x \notin alive => waitList'[x] = <<>>
                       /\ \A y \in ToSet(waitList'[x]) : status[y] # "none"
                       /\ ListsHeeded /\ (~outOfOrder \/ status[x] \notin {"none", "queued"})
                            => waitList'[x] = <<>>
    BY <1>1 DEF ListInv, ListsHeeded
  <2>1. CASE x = c
    BY <1>7, <1>8, <1>9, <1>10, <2>1
  <2>2. CASE x # c
    BY <1>2, <1>9, <2>2 DEF ListInv
  <2>. QED  BY <2>1, <2>2
<1>29. EventsInv'
  <2>1. ASSUME NEW x \in Commands PROVE Holders(x)' = Holders(x)
    <3>. DEFINE n == Cardinality(Named(x))
                n1 == Cardinality(Named(x)')
                a == Count(x \in alive)
                u == Count(x \in unasked)
                r == Calls(Releasing(x), stack)
                p == appEvent[x]
                k == Count(x = e)
    <3>1. n \in Nat /\ r \in Nat /\ p \in Nat /\ a \in 0 .. 1 /\ u \in 0 .. 1 /\ IsFiniteSet(Named(x))
      BY <1>2, HoldersTypes
    <3>2. n1 = n - k /\ k \in 0 .. 1
      <4>1. CASE x = e
        <5>1. Named(x)' = Named(x) \ {c} /\ c \in Named(x)
          <6>1. \A y \in alive : y \in Commands
            BY <1>2 DEF TypeOK
          <6>2. x \in ToSet(waitList[c]) /\ x \notin ToSet(waitList'[c])
            BY <1>8, <1>9, <1>11, <4>1
          <6>. QED  BY <1>1, <1>9, <1>10, <6>1, <6>2 DEF Named
        <5>2. n1 = n - 1
          BY <3>1, <5>1, FS_RemoveElement
        <5>. QED  BY <4>1, <5>2 DEF Count
      <4>2. CASE x # e
        <5>1. Named(x)' = Named(x)
          <6>1. \A y \in alive : y \in Commands
            BY <1>2 DEF TypeOK
          <6>2. x \in ToSet(waitList[c]) <=> x \in ToSet(waitList'[c])
            BY <1>8, <1>9, <1>11, <4>2
          <6>. QED  BY <1>1, <1>9, <6>1, <6>2 DEF Named
        <5>. QED  BY <3>1, <4>2, <5>1 DEF Count
      <4>. QED  BY <4>1, <4>2
    <3>3. Holders(x) = p + a + u + n + r
      BY DEF Holders
    <3>4. Holders(x)' = p + a + u + n1 + (r + k)
      BY <1>1, <1>21 DEF Holders
    <3>. HIDE DEF n, n1, a, u, r, p, k
    <3>. QED  BY <3>1, <3>2, <3>3, <3>4
  <2>. QED  BY <1>1, <1>2, <2>1 DEF EventsInv, ListsHeeded
<1>30. QueueInv'
  BY <1>1, <1>2, <1>20 DEF QueueInv, Referenced
<1>. QED  BY <1>22, <1>23, <1>24, <1>25, <1>26, <1>27, <1>28, <1>29, <1>30 DEF Books

-----------------------------------------------------------------------------
(* enqueueCommand: a command with an event nobody knew before.             *)
LEMMA WaitListsTypes ==
  \A wl \in WaitLists : wl \in Seq(Commands) /\ IsInjective(wl)
<1>. SUFFICES ASSUME NEW wl \in WaitLists PROVE wl \in Seq(Commands) /\ IsInjective(wl)
  OBVIOUS
<1>1. PICK m \in 0 .. MaxWaitList : wl \in [1 .. m -> Commands]
  BY DEF WaitLists, SeqOf
<1>2. m \in Nat
  BY QueueAssumption
<1>3. wl \in Seq(Commands)
  BY <1>1, <1>2, SeqDef
<1>. QED  BY <1>3 DEF WaitLists

LEMMA UnknownIsFree ==
  ASSUME Books, NEW c \in Commands, c \notin ToSet(enqueued)
  PROVE  /\ status[c] = "none" /\ eventRefs[c] = 0 /\ appEvent[c] = 0 /\ c \notin alive
         /\ c \notin unasked /\ Named(c) = {} /\ Calls(Releasing(c), stack) = 0
<1>1. TypeOK /\ status[c] = "none" /\ eventRefs[c] = 0 /\ Holders(c) <= 0
  BY DEF Books, KnownInv, EventsInv
<1>. DEFINE n == Cardinality(Named(c))
            a == Count(c \in alive)
            u == Count(c \in unasked)
            r == Calls(Releasing(c), stack)
            p == appEvent[c]
<1>2. n \in Nat /\ r \in Nat /\ p \in Nat /\ a \in 0 .. 1 /\ u \in 0 .. 1 /\ IsFiniteSet(Named(c))
  BY <1>1, HoldersTypes
<1>3. Holders(c) = p + a + u + n + r
  BY DEF Holders
<1>4. p = 0 /\ a = 0 /\ u = 0 /\ n = 0 /\ r = 0
  <2>. HIDE DEF n, a, u, r, p
  <2>. QED  BY <1>1, <1>2, <1>3
<1>5. Named(c) = {}
  BY <1>2, <1>4, FS_EmptySet
<1>. QED  BY <1>1, <1>4, <1>5 DEF Count

LEMMA EnqueueKeeps ==
  ASSUME Books, NEW c \in Commands, NEW wl \in WaitLists, NEW asks \in BOOLEAN,
         NEW blocking \in BOOLEAN, Enqueue(c, wl, asks, blocking)
  PROVE  Books'
<1>1. /\ appQueue > 0 /\ c \notin ToSet(enqueued) /\ \A e \in ToSet(wl) : appEvent[e] > 0
      /\ wl # <<>> => outOfOrder \/ usage.orderLists
      /\ alive' = alive \cup {c} /\ waitList' = [waitList EXCEPT ![c] = wl]
      /\ status' = [status EXCEPT ![c] = "queued"]
      /\ eventRefs' = [e \in Commands |-> IF e = c THEN 2
                                          ELSE IF e \in ToSet(wl) THEN eventRefs[e] + 1
                                          ELSE eventRefs[e]]
      /\ hasCommand' = [hasCommand EXCEPT ![c] = TRUE] /\ queueRefs' = queueRefs + 2
      /\ commands' = Append(commands, c)
      /\ appEvent' = [appEvent EXCEPT ![c] = IF asks THEN 1 ELSE 0]
      /\ unasked' = (IF asks THEN unasked ELSE unasked \cup {c})
      /\ enqueued' = Append(enqueued, c) /\ deps' = [deps EXCEPT ![c] = wl]
      /\ IF blocking THEN CallFlush(stack) ELSE stack' = stack /\ flushing' = flushing
      /\ usage' = usage /\ outOfOrder' = outOfOrder /\ callbacks' = callbacks
      /\ appQueue' = appQueue /\ ran' = ran
  BY DEF Enqueue, fixed
<1>2. TypeOK /\ KnownInv /\ FlushInv /\ PendingInv /\ StartedInv /\ ListInv /\ EventsInv /\ QueueInv
  BY DEF Books
<1>3. wl \in Seq(Commands) /\ IsInjective(wl) /\ \A e \in ToSet(wl) : e \in Commands
  <2>1. wl \in Seq(Commands) /\ IsInjective(wl)
    BY WaitListsTypes
  <2>. QED  BY <2>1, ElementOfSeq, LenProperties DEF ToSet
<1>4. /\ status[c] = "none" /\ eventRefs[c] = 0 /\ appEvent[c] = 0 /\ c \notin alive
      /\ c \notin unasked /\ Named(c) = {} /\ Calls(Releasing(c), stack) = 0
  BY <1>1, UnknownIsFree
<1>5. \A e \in ToSet(wl) : e # c /\ eventRefs[e] \in Nat \ {0} /\ status[e] # "none"
  <2>. TAKE e \in ToSet(wl)
  <2>1. e \in Commands /\ appEvent[e] > 0
    BY <1>1, <1>3
  <2>2. eventRefs[e] \in Nat \ {0} /\ status[e] # "none"
    BY <2>1, HeldIsKnown
  <2>. QED  BY <1>4, <2>2
<1>6. /\ commands \in Seq(Commands) /\ enqueued \in Seq(Commands) /\ stack \in Seq(Frames)
      /\ waitList \in [Commands -> Seq(Commands)] /\ eventRefs \in [Commands -> Nat]
      /\ appEvent \in [Commands -> 0 .. MaxAppRefs] /\ flushing \in BOOLEAN
      /\ status \in [Commands -> Statuses \cup {"none", "queued"}]
      /\ hasCommand \in [Commands -> BOOLEAN] /\ queueRefs \in Nat /\ appQueue \in Nat
  BY <1>2, QueueAssumption DEF TypeOK
<1>7. /\ status' \in [Commands -> Statuses \cup {"none", "queued"}] /\ status'[c] = "queued"
      /\ \A x \in Commands : x # c => status'[x] = status[x]
  BY <1>1, <1>6
<1>8. /\ waitList' \in [Commands -> Seq(Commands)] /\ waitList'[c] = wl
      /\ \A x \in Commands : x # c => waitList'[x] = waitList[x]
  BY <1>1, <1>3, <1>6
<1>9. /\ eventRefs' \in [Commands -> Nat] /\ eventRefs'[c] = 2
      /\ \A x \in Commands : x # c => eventRefs'[x] = eventRefs[x] + Count(x \in ToSet(wl))
  BY <1>1, <1>6 DEF Count
<1>10. /\ appEvent' \in [Commands -> 0 .. MaxAppRefs] /\ appEvent'[c] = Count(asks)
       /\ \A x \in Commands : x # c => appEvent'[x] = appEvent[x]
  <2>1. 0 \in 0 .. MaxAppRefs /\ 1 \in 0 .. MaxAppRefs
    BY QueueAssumption
  <2>. QED  BY <1>1, <1>6, <2>1 DEF Count
<1>11. /\ Over(stack', stack) /\ flushing' \in BOOLEAN /\ Calls(Of("flush"), stack') = Count(flushing')
       /\ Calls(Of("release"), stack') = Calls(Of("release"), stack)
  <2>1. Calls(Of("flush"), stack) = Count(flushing)
    BY <1>2 DEF FlushInv
  <2>2. CASE blocking
    <3>1. CallFlush(stack)
      BY <1>1, <2>2
    <3>. QED  BY <1>6, <2>1, <3>1, FlushCalled DEF Count
  <2>3. CASE ~blocking
    BY <1>1, <1>6, <2>1, <2>3, OverTrans
  <2>. QED  BY <2>2, <2>3
<1>12. /\ stack' \in Seq(Frames) /\ Taken(stack') = Taken(stack)
       /\ \A e \in Commands : Calls(Releasing(e), stack') = Calls(Releasing(e), stack)
       /\ \A f \in ToSet(stack') : f \in ToSet(stack) \/ f \in {FlushFrame, ReleaseFrame}
  BY <1>11 DEF Over
<1>13. /\ enqueued' \in Seq(Commands) /\ ToSet(enqueued') = ToSet(enqueued) \cup {c}
       /\ IsInjective(enqueued')
  BY <1>1, <1>2, <1>6, AppendFacts DEF KnownInv
<1>14. /\ commands' \in Seq(Commands) /\ ToSet(commands') = ToSet(commands) \cup {c}
       /\ IsInjective(commands')
  <2>1. c \notin ToSet(commands) /\ IsInjective(commands)
    BY <1>2, <1>4 DEF PendingInv
  <2>. QED  BY <1>1, <1>6, <2>1, AppendFacts
<1>15. TypeOK'
  <2>1. alive' \subseteq Commands /\ hasCommand' \in [Commands -> BOOLEAN] /\ queueRefs' \in Nat
        /\ unasked' \subseteq Commands /\ deps' \in [Commands -> Seq(Commands)]
    BY <1>1, <1>2, <1>3, <1>6 DEF TypeOK
  <2>. QED  BY <1>1, <1>2, <1>7, <1>8, <1>9, <1>10, <1>11, <1>12, <1>13, <1>14, <2>1 DEF TypeOK
<1>16. KnownInv'
  <2>1. \A x \in Commands : x \in ToSet(enqueued') <=> status'[x] # "none"
    BY <1>2, <1>7, <1>13 DEF KnownInv
  <2>2. \A x \in Commands : status'[x] = "none" => eventRefs'[x] = 0
    <3>. SUFFICES ASSUME NEW x \in Commands, status'[x] = "none" PROVE eventRefs'[x] = 0
      OBVIOUS
    <3>1. x # c /\ status[x] = "none"
      BY <1>7
    <3>2. x \notin ToSet(wl) /\ eventRefs[x] = 0
      BY <1>2, <1>5, <3>1 DEF KnownInv
    <3>. QED  BY <1>9, <3>1, <3>2 DEF Count
  <2>. QED  BY <1>13, <2>1, <2>2 DEF KnownInv
<1>17. FlushInv' /\ LastInv'
  BY <1>1, <1>6, <1>11 DEF FlushInv, LastInv
<1>18. PendingInv'
  <2>1. \A x \in Commands : hasCommand'[x] <=> x \in alive'
    BY <1>1, <1>2, <1>6 DEF PendingInv
  <2>. QED  BY <1>1, <1>2, <1>4, <1>12, <1>14, <2>1 DEF PendingInv
<1>19. StartedInv'
  <2>1. Queued' = Queued \cup {c}
    BY <1>7 DEF Queued
  <2>2. Started(Queued, stack')
    BY <1>2, <1>11 DEF Over, StartedInv
  <2>3. Queued' \cap Taken(stack') \subseteq Queued
    BY <1>2, <1>4, <1>12, <2>1 DEF PendingInv
  <2>4. Started(Queued', stack')
    <3>. DEFINE R == Queued'
                s == stack'
    <3>1. s \in Seq(Frames) /\ Started(Queued, s) /\ R \cap Taken(s) \subseteq Queued
      BY <1>12, <2>2, <2>3
    <3>. HIDE DEF R, s
    <3>2. Started(R, s)
      BY <3>1, StartedOfFewer
    <3>. QED  BY <3>2 DEF R, s
  <2>. QED  BY <1>1, <1>2, <2>1, <2>4 DEF StartedInv
<1>20. FramesInv'
  <2>1. IsInjective(<<>>)
    BY DEF IsInjective
  <2>2. ASSUME NEW f, f \in {FlushFrame, ReleaseFrame} PROVE FrameOK(f)'
    BY <2>1, <2>2, FrameTypes DEF FrameOK
  <2>3. ASSUME NEW f \in ToSet(stack) PROVE FrameOK(f)'
    <3>1. f \in Frames /\ FrameOK(f)
      BY <1>6, ElementOfSeq, LenProperties DEF ToSet, Books, FramesInv
    <3>2. f.fn = "exec" => f.c \in Commands
      BY <3>1, FrameTypes DEF Of
    <3>3. f.fn = "exec" => f.c # c /\ status'[f.c] = status[f.c] /\ waitList'[f.c] = waitList[f.c]
      BY <1>4, <1>7, <1>8, <3>1, <3>2 DEF FrameOK
    <3>. QED  BY <1>1, <3>1, <3>3 DEF FrameOK, ListsHeeded
  <2>. QED  BY <1>12, <2>2, <2>3 DEF FramesInv
<1>21. ListInv'
  <2>. SUFFICES ASSUME NEW x \in Commands
                PROVE  /\ IsInjective(waitList'[x])
                       /\ x \notin alive' => waitList'[x] = <<>>
                       /\ \A y \in ToSet(waitList'[x]) : status'[y] # "none"
                       /\ ListsHeeded /\ (~outOfOrder \/ status'[x] \notin {"none", "queued"})
                            => waitList'[x] = <<>>
    BY <1>1 DEF ListInv, ListsHeeded
  <2>1. CASE x = c
    <3>1. \A y \in ToSet(wl) : status'[y] # "none"
      BY <1>3, <1>5, <1>7
    <3>. QED  BY <1>1, <1>3, <1>7, <1>8, <2>1, <3>1 DEF ListsHeeded
  <2>2. CASE x # c
    <3>1. \A y \in ToSet(waitList[x]) : y \in Commands /\ status[y] # "none"
      BY <1>2, <1>6, ElementOfSeq, LenProperties DEF ToSet, ListInv
    <3>2. \A y \in ToSet(waitList[x]) : status'[y] # "none"
      BY <1>7, <3>1
    <3>. QED  BY <1>1, <1>2, <1>7, <1>8, <2>2, <3>2 DEF ListInv
  <2>. QED  BY <2>1, <2>2
<1>22. EventsInv'
  <2>. SUFFICES ASSUME NEW e \in Commands
                PROVE  /\ Holders(e)' <= eventRefs'[e]
                       /\ ListsHeeded => eventRefs'[e] = Holders(e)'
    BY <1>1 DEF EventsInv, ListsHeeded
  <2>. DEFINE n == Cardinality(Named(e))
              n1 == Cardinality(Named(e)')
              a == Count(e \in alive)
              u == Count(e \in unasked)
              r == Calls(Releasing(e), stack)
              p == appEvent[e]
              v == eventRefs[e]
              k == Count(e \in ToSet(wl))
  <2>1. n \in Nat /\ r \in Nat /\ p \in Nat /\ a \in 0 .. 1 /\ u \in 0 .. 1 /\ IsFiniteSet(Named(e))
    BY <1>2, HoldersTypes
  <2>2. Holders(e) = p + a + u + n + r
    BY DEF Holders
  <2>3. Holders(e)' = appEvent'[e] + Count(e \in alive') + Count(e \in unasked') + n1 + r
    BY <1>12 DEF Holders
  <2>4. c \notin Named(e) /\ \A x \in alive : x \in Commands /\ x # c
    BY <1>2, <1>4 DEF Named, TypeOK
  <2>5. n1 = n + k /\ k \in 0 .. 1
    <3>1. CASE e \in ToSet(wl)
      <4>1. Named(e)' = Named(e) \cup {c}
        BY <1>1, <1>8, <2>4, <3>1 DEF Named
      <4>2. n1 = n + 1
        BY <2>1, <2>4, <4>1, FS_AddElement
      <4>. QED  BY <3>1, <4>2 DEF Count
    <3>2. CASE e \notin ToSet(wl)
      <4>1. Named(e)' = Named(e)
        BY <1>1, <1>8, <2>4, <3>2 DEF Named
      <4>2. k = 0 /\ n1 = n
        BY <3>2, <4>1 DEF Count
      <4>. HIDE DEF n, n1, k
      <4>. QED  BY <2>1, <4>2
    <3>. QED  BY <3>1, <3>2
  <2>6. Holders(e) <= v /\ (ListsHeeded => v = Holders(e)) /\ v \in Nat
    BY <1>2, <1>6 DEF EventsInv
  <2>7. CASE e = c
    <3>1. n = 0 /\ r = 0 /\ k = 0
      BY <1>4, <1>5, <2>7, FS_EmptySet DEF Count
    <3>2. Count(e \in alive') = 1
      BY <1>1, <2>7 DEF Count
    <3>3. appEvent'[e] + Count(e \in unasked') = 1 /\ appEvent'[e] \in 0 .. 1
          /\ Count(e \in unasked') \in 0 .. 1
      BY <1>1, <1>4, <1>10, <2>7 DEF Count
    <3>4. eventRefs'[e] = 2
      BY <1>9, <2>7
    <3>. HIDE DEF n, n1, r, k
    <3>. QED  BY <2>3, <2>5, <3>1, <3>2, <3>3, <3>4
  <2>8. CASE e # c
    <3>1. appEvent'[e] = p /\ Count(e \in alive') = a /\ Count(e \in unasked') = u
          /\ eventRefs'[e] = v + k
      BY <1>1, <1>9, <1>10, <2>8
    <3>. HIDE DEF n, n1, a, u, r, p, v, k
    <3>. QED  BY <2>1, <2>2, <2>3, <2>5, <2>6, <3>1
  <2>. QED  BY <2>7, <2>8
<1>23. QueueInv'
  <2>. DEFINE n == Cardinality(alive)
              m == Cardinality(Referenced)
              n1 == Cardinality(alive')
              m1 == Cardinality(Referenced')
              r == Calls(Of("release"), stack)
  <2>1. IsFiniteSet(alive) /\ n \in Nat /\ IsFiniteSet(Referenced) /\ m \in Nat
    BY <1>2, ReferencedFacts
  <2>2. r \in Nat
    BY <1>6, CallsType
  <2>3. n1 = n + 1
    BY <1>1, <1>4, <2>1, FS_AddElement
  <2>4. Referenced' = Referenced \cup {c} /\ c \notin Referenced
    <3>1. \A x \in Commands : x # c => (eventRefs'[x] > 0 <=> eventRefs[x] > 0)
      <4>. TAKE x \in Commands
      <4>. HAVE x # c
      <4>1. CASE x \in ToSet(wl)
        BY <1>5, <1>9, <4>1 DEF Count
      <4>2. CASE x \notin ToSet(wl)
        BY <1>6, <1>9, <4>2 DEF Count
      <4>. QED  BY <4>1, <4>2
    <3>2. eventRefs'[c] > 0 /\ ~(eventRefs[c] > 0)
      BY <1>4, <1>9
    <3>. QED  BY <3>1, <3>2 DEF Referenced
  <2>5. m1 = m + 1
    BY <2>1, <2>4, FS_AddElement
  <2>6. queueRefs = appQueue + n + m + r
    BY <1>2 DEF QueueInv
  <2>7. QueueInv' <=> queueRefs' = appQueue + n1 + m1 + r
    BY <1>1, <1>11 DEF QueueInv
  <2>8. queueRefs' = queueRefs + 2
    BY <1>1
  <2>. HIDE DEF n, m, n1, m1, r
  <2>. QED  BY <1>6, <2>1, <2>2, <2>3, <2>5, <2>6, <2>7, <2>8
<1>. QED  BY <1>15, <1>16, <1>17, <1>18, <1>19, <1>20, <1>21, <1>22, <1>23 DEF Books

-----------------------------------------------------------------------------
LEMMA NextBooks == Books /\ [Next]_vars => Books'
<1>. SUFFICES ASSUME Books, [Next]_vars PROVE Books'
  OBVIOUS
<1>1. CASE Driver
  <2>1. CASE ExecSkip \/ ExecReturn
    BY <2>1, ExecReturns
  <2>2. CASE ExecStart \/ ExecWaited
    BY <2>2, ExecGoes
  <2>3. CASE ExecSubmit \/ ExecRun \/ ExecImpl
    BY <2>3, ExecSets
  <2>4. CASE FlushNext
    BY <2>4, FlushNextKeeps
  <2>5. CASE FlushDelete
    BY <2>5, FlushDeleteKeeps
  <2>6. CASE FlushReturn
    BY <2>6, FlushReturnKeeps
  <2>7. CASE ReleaseQueueEnd
    BY <2>7, ReleaseQueueEndKeeps
  <2>8. CASE ExecWait
    BY <2>8, ExecWaitKeeps
  <2>9. CASE ExecReleaseWaited
    BY <2>9, ExecReleaseKeeps
  <2>. QED  BY <1>1, <2>1, <2>2, <2>3, <2>4, <2>5, <2>6, <2>7, <2>8, <2>9 DEF Driver
<1>2. CASE Application
  <2>1. ASSUME NEW c \in Commands, NEW wl \in WaitLists, NEW asks \in BOOLEAN,
               NEW blocking \in BOOLEAN, Enqueue(c, wl, asks, blocking)
        PROVE  Books'
    BY <2>1, EnqueueKeeps
  <2>2. ASSUME NEW e \in Commands, WaitForEvent(e) PROVE Books'
    BY <2>2, WaitForEventKeeps
  <2>3. ASSUME NEW e \in Commands, RetainEvent(e) PROVE Books'
    BY <2>3, RetainEventKeeps
  <2>4. ASSUME NEW e \in Commands, ReleaseEvent(e) PROVE Books'
    BY <2>4, ReleaseEventKeeps
  <2>5. ASSUME NEW e \in Commands, NEW s \in CallbackTypes, SetCallback(e, s) PROVE Books'
    BY <2>5, SetCallbackKeeps
  <2>6. CASE Finish
    BY <2>6, FinishKeeps
  <2>7. CASE RetainQueue
    BY <2>7, RetainQueueKeeps
  <2>8. CASE ReleaseQueue
    BY <2>8, ReleaseQueueKeeps
  <2>. QED  BY <1>2, <2>1, <2>2, <2>3, <2>4, <2>5, <2>6, <2>7, <2>8 DEF Application
<1>3. CASE CallbackReturn
  BY <1>3, ExecReturns
<1>4. CASE UNCHANGED vars
  <2>1. /\ UNCHANGED <<fixed, queueVars, eventVars, commandVars, appVars, history>>
        /\ stack' = stack
    BY <1>4 DEF vars
  <2>2. stack \in Seq(Frames) /\ SameHolders(stack, stack) /\ Started(Queued, stack)
    BY DEF Books, TypeOK, StartedInv, SameHolders
  <2>. QED  BY <2>1, <2>2, StackKeeps
<1>. QED  BY <1>1, <1>2, <1>3, <1>4 DEF Next

LEMMA BooksCorrect == Spec => []Books
<1>. QED  BY InitBooks, NextBooks, PTL DEF Spec

(* Every variable holds a value of its type. *)
THEOREM TypeCorrect == Spec => []TypeOK
<1>1. Books => TypeOK
  BY DEF Books
<1>. QED  BY <1>1, BooksCorrect, PTL

-----------------------------------------------------------------------------
(* Nothing but its own end clears flushInProcess.                          *)
LEMMA FlushStays ==
  ASSUME Books, [Next]_vars, flushing, ~flushing'
  PROVE  FlushReturn
<1>1. ASSUME NEW rest, CallFlush(rest) \/ CallReleaseQueue(rest) PROVE flushing'
  BY <1>1 DEF CallFlush, CallReleaseQueue
<1>2. ASSUME NEW e, NEW rest, CallReleaseEvent(e, rest) PROVE flushing'
  BY <1>1, <1>2 DEF CallReleaseEvent
<1>3. CASE Driver
  <2>1. \/ FlushReturn \/ ExecReleaseWaited \/ flushing' = flushing
    BY <1>3 DEF Driver, FlushNext, FlushDelete, ReleaseQueueEnd, ExecSkip, ExecStart, ExecWait,
                ExecWaited, ExecSubmit, ExecRun, ExecImpl, ExecReturn, SetStatus, queueVars
  <2>2. ExecReleaseWaited => flushing'
    BY <1>2 DEF ExecReleaseWaited
  <2>. QED  BY <2>1, <2>2
<1>4. CASE Application
  <2>1. ASSUME NEW c, NEW wl, NEW asks, NEW blocking \in BOOLEAN, Enqueue(c, wl, asks, blocking)
        PROVE  flushing'
    BY <1>1, <2>1 DEF Enqueue
  <2>2. ASSUME NEW e, WaitForEvent(e) \/ RetainEvent(e) \/ (\E s \in CallbackTypes : SetCallback(e, s))
        PROVE  flushing'
    BY <2>2 DEF WaitForEvent, RetainEvent, SetCallback, queueVars
  <2>3. ASSUME NEW e, ReleaseEvent(e) PROVE flushing'
    BY <1>2, <2>3 DEF ReleaseEvent
  <2>4. Finish \/ ReleaseQueue \/ RetainQueue => flushing'
    BY <1>1 DEF Finish, ReleaseQueue, RetainQueue
  <2>. QED  BY <1>4, <2>1, <2>2, <2>3, <2>4 DEF Application
<1>5. CASE CallbackReturn
  BY <1>5 DEF CallbackReturn, queueVars
<1>6. CASE UNCHANGED vars
  BY <1>6 DEF vars, queueVars
<1>. QED  BY <1>3, <1>4, <1>5, <1>6 DEF Next

(* When flush of the queue is over, every command was executed and deleted, *)
(* also those that callbacks enqueued meanwhile, on every kind of queue.    *)
THEOREM FlushDrainsCorrect == Spec => FlushDrains
<1>1. Books /\ [Next]_vars
        => [flushing /\ ~flushing' => commands' = <<>> /\ alive' = {}]_vars
  <2>. SUFFICES ASSUME Books, [Next]_vars, flushing, ~flushing'
                PROVE  commands' = <<>> /\ alive' = {}
    OBVIOUS
  <2>1. FlushReturn
    BY FlushStays
  <2>2. alive = {}
    BY <2>1, FlushReturnKeeps
  <2>. QED  BY <2>1, <2>2 DEF FlushReturn, commandVars
<1>. QED  BY <1>1, BooksCorrect, PTL DEF Spec, FlushDrains

-----------------------------------------------------------------------------
(* Reference counts.                                                       *)
LEMMA UsageStays == [Next]_vars => usage' = usage /\ outOfOrder' = outOfOrder
  BY DEF Next, vars, fixed, Driver, Application, CallbackReturn, FlushNext, FlushDelete, FlushReturn,
         ReleaseQueueEnd, ExecSkip, ExecStart, ExecWait, ExecReleaseWaited, ExecWaited, ExecSubmit,
         ExecRun, ExecImpl, ExecReturn, SetStatus, Enqueue, WaitForEvent, RetainEvent, ReleaseEvent,
         SetCallback, Finish, RetainQueue, ReleaseQueue

LEMMA BooksAreRefs == Books /\ ListsHeeded => RefsAccounted
<1>. SUFFICES ASSUME Books, ListsHeeded PROVE RefsAccounted
  OBVIOUS
<1>1. stack \in Seq(Frames)
  BY DEF Books, TypeOK
<1>2. \A i \in DOMAIN stack : stack[i] \in Frames
  BY <1>1, ElementOfSeq, LenProperties
<1>3. ASSUME NEW e \in Commands PROVE eventRefs[e] = EventHolders(e)
  <2>1. {i \in FramesOf("exec") : stack[i].pc = "release" /\ stack[i].dep = e}
          = {i \in DOMAIN stack : stack[i] \in Releasing(e)}
    BY <1>2 DEF FramesOf, Releasing, Of
  <2>2. eventRefs[e] = Holders(e)
    BY DEF Books, EventsInv
  <2>. QED  BY <2>1, <2>2 DEF EventHolders, Holders, Named, Calls
<1>4. FramesOf("release") = {i \in DOMAIN stack : stack[i] \in Of("release")}
  BY <1>2 DEF FramesOf, Of
<1>5. queueRefs = appQueue + Cardinality(alive) + Cardinality({e \in Commands : eventRefs[e] > 0})
                  + Cardinality(FramesOf("release"))
  BY <1>4 DEF Books, QueueInv, Referenced, Calls
<1>. QED  BY <1>3, <1>5 DEF RefsAccounted

(* Unless wait lists are passed to an in-order queue, references           *)
(* are counted exactly: clReleaseEvent and the destructors neither leave   *)
(* an object alive for nobody nor delete one that is referred to.          *)
THEOREM RefsCorrect == Spec /\ ListsHeeded => []RefsAccounted
<1>1. ListsHeeded /\ [Next]_vars => (ListsHeeded)'
  BY UsageStays DEF ListsHeeded
<1>. QED  BY <1>1, BooksCorrect, BooksAreRefs, PTL DEF Spec

LEMMA BooksAreLeaks == Books /\ ListsHeeded => OnlyUnaskedEventsLeak
<1>. SUFFICES ASSUME Books, ListsHeeded, stack = <<>>, appQueue = 0,
                     \A e \in Commands : appEvent[e] = 0
              PROVE  /\ {e \in Commands : eventRefs[e] > 0} = unasked
                     /\ queueRefs = Cardinality(unasked)
  BY DEF OnlyUnaskedEventsLeak
<1>1. ~flushing /\ unasked \subseteq Commands /\ flushing \in BOOLEAN
  <2>1. Calls(Of("flush"), stack) = 0
    BY NoCalls
  <2>. QED  BY <2>1 DEF Books, FlushInv, TypeOK, Count
<1>2. alive = {}
  BY <1>1 DEF Books, LastInv
<1>3. ASSUME NEW e \in Commands PROVE eventRefs[e] > 0 <=> e \in unasked
  <2>1. Named(e) = {}
    BY <1>2 DEF Named
  <2>2. Cardinality(Named(e)) = 0 /\ Calls(Releasing(e), stack) = 0 /\ Count(e \in alive) = 0
    BY <1>2, <2>1, NoCalls, FS_EmptySet DEF Count
  <2>3. Holders(e) = Count(e \in unasked)
    <3>1. Count(e \in unasked) \in 0 .. 1
      BY DEF Count
    <3>. QED  BY <2>2, <3>1 DEF Holders
  <2>4. eventRefs[e] = Holders(e)
    BY DEF Books, EventsInv
  <2>. QED  BY <2>3, <2>4 DEF Count
<1>4. Referenced = unasked
  BY <1>1, <1>3 DEF Referenced
<1>5. queueRefs = Cardinality(unasked)
  <2>1. Cardinality(alive) = 0 /\ Calls(Of("release"), stack) = 0
    BY <1>2, NoCalls, FS_EmptySet
  <2>2. Cardinality(Referenced) \in Nat
    BY ReferencedFacts DEF Books
  <2>3. queueRefs = appQueue + Cardinality(alive) + Cardinality(Referenced) + Calls(Of("release"), stack)
    BY DEF Books, QueueInv
  <2>. QED  BY <1>4, <2>1, <2>2, <2>3
<1>. QED  BY <1>4, <1>5 DEF Referenced

(* An application that has given up everything leaves the queue alive only *)
(* for the events it never asked for, clRelease... having deleted the rest.*)
THEOREM LeakCorrect == Spec /\ ListsHeeded => []OnlyUnaskedEventsLeak
<1>1. ListsHeeded /\ [Next]_vars => (ListsHeeded)'
  BY UsageStays DEF ListsHeeded
<1>. QED  BY <1>1, BooksCorrect, BooksAreLeaks, PTL DEF Spec
=============================================================================
