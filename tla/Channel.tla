------------------------------ MODULE Channel ------------------------------
(***************************************************************************)
(* common/debugger/channel/Channel.h: the one-slot channel over which the  *)
(* debugger GUI and the emulator thread exchange messages.                 *)
(*                                                                         *)
(* Every member function but the three unlocked getters is one critical    *)
(* section, so the mutex is the atomicity of an action.  A thread in       *)
(* "reading" or "writing" is about to (re)acquire the mutex and evaluate   *)
(* the predicate of its wait; "readSleep" and "writeSleep" are threads     *)
(* blocked in read_cond and write_cond.  A woken thread competes with      *)
(* every newcomer, and may also wake without being notified.               *)
(***************************************************************************)
EXTENDS Naturals, Sequences, FiniteSets

CONSTANTS
  Readers,    (* threads that call read, tryRead and isExhausted *)
  Writers,    (* threads that call write                         *)
  MaxWrites,  (* bound: calls of write by each writer            *)
  NoValue     (* std::nullopt                                    *)

(* A value is named by its writer and how many calls that writer has begun. *)
Values == Writers \X (0 .. MaxWrites)

ASSUME ChannelAssumption ==
  /\ Readers \cap Writers = {}
  /\ MaxWrites \in Nat
  /\ NoValue \notin Values

VARIABLES
  isEmpty,   (* _isEmpty *)
  isClosed,  (* _isClosed *)
  value,     (* the optional in the slot *)
  pc,        (* where each thread is *)
  calls,     (* write calls begun by each writer *)
  sent,      (* history: values whose write returned true *)
  rcvd,      (* history: values returned by read and tryRead *)
  mark       (* history: Len(sent) when the reader's isExhausted began *)

slot == <<isEmpty, value>>
vars == <<isEmpty, isClosed, value, pc, calls, sent, rcvd, mark>>

Threads == Readers \cup Writers

ReaderPC == {"idle", "reading", "readSleep", "sawClosed", "sawEmpty", "exhausted"}
WriterPC == {"idle", "writing", "writeSleep"}

Init ==
  /\ isEmpty = TRUE
  /\ isClosed = FALSE
  /\ value = NoValue
  /\ pc = [t \in Threads |-> "idle"]
  /\ calls = [w \in Writers |-> 0]
  /\ sent = <<>>
  /\ rcvd = <<>>
  /\ mark = [r \in Readers |-> 0]

-----------------------------------------------------------------------------
(* Condition variables. *)

(* notify_one: the thread states after one sleeper, if any, is woken. *)
NotifyOne(p, asleep, woken) ==
  LET sleepers == {t \in Threads : p[t] = asleep}
  IN  IF sleepers = {} THEN {p} ELSE {[p EXCEPT ![t] = woken] : t \in sleepers}

(* notify_all on both condition variables. *)
WakeAll(p) ==
  [t \in Threads |-> CASE p[t] = "readSleep"  -> "reading"
                       [] p[t] = "writeSleep" -> "writing"
                       [] OTHER               -> p[t]]

(* condition_variable::wait may return without a notification. *)
SpuriousWakeup(t) ==
  /\ pc[t] \in {"readSleep", "writeSleep"}
  /\ pc' = [pc EXCEPT ![t] = IF @ = "readSleep" THEN "reading" ELSE "writing"]
  /\ UNCHANGED <<slot, isClosed, calls, sent, rcvd, mark>>

-----------------------------------------------------------------------------
(* read, tryRead *)

BeginRead(r) ==
  /\ pc[r] = "idle"
  /\ pc' = [pc EXCEPT ![r] = "reading"]
  /\ UNCHANGED <<slot, isClosed, calls, sent, rcvd, mark>>

ReadSleep(r) ==
  /\ pc[r] = "reading"
  /\ isEmpty /\ ~isClosed
  /\ pc' = [pc EXCEPT ![r] = "readSleep"]
  /\ UNCHANGED <<slot, isClosed, calls, sent, rcvd, mark>>

(* Returns no value: only from a channel that is closed and drained. *)
ReadNone(r) ==
  /\ pc[r] = "reading"
  /\ isEmpty /\ isClosed
  /\ pc' = [pc EXCEPT ![r] = "idle"]
  /\ UNCHANGED <<slot, isClosed, calls, sent, rcvd, mark>>

(* MUTANT: no notify_one on write_cond. *)
TakeSilently(r) ==
  /\ rcvd' = Append(rcvd, value)
  /\ value' = NoValue
  /\ isEmpty' = TRUE
  /\ pc' = [pc EXCEPT ![r] = "idle"]
  /\ UNCHANGED <<isClosed, calls, sent, mark>>

(* The common tail of read and tryRead. *)
Take(r) ==
  /\ rcvd' = Append(rcvd, value)
  /\ value' = NoValue
  /\ isEmpty' = TRUE
  /\ pc' \in NotifyOne([pc EXCEPT ![r] = "idle"], "writeSleep", "writing")
  /\ UNCHANGED <<isClosed, calls, sent, mark>>

ReadTake(r) ==
  /\ pc[r] = "reading"
  /\ ~isEmpty
  /\ Take(r)

(* A tryRead that returns no value changes nothing; it does so on an empty *)
(* channel and, unlike read, on a closed one that still holds a value.     *)
TryReadTake(r) ==
  /\ pc[r] = "idle"
  /\ ~isEmpty /\ ~isClosed
  /\ Take(r)

-----------------------------------------------------------------------------
(* write *)

BeginWrite(w) ==
  /\ pc[w] = "idle"
  /\ calls[w] < MaxWrites
  /\ calls' = [calls EXCEPT ![w] = @ + 1]
  /\ pc' = [pc EXCEPT ![w] = "writing"]
  /\ UNCHANGED <<slot, isClosed, sent, rcvd, mark>>

WriteSleep(w) ==
  /\ pc[w] = "writing"
  /\ ~isEmpty /\ ~isClosed
  /\ pc' = [pc EXCEPT ![w] = "writeSleep"]
  /\ UNCHANGED <<slot, isClosed, calls, sent, rcvd, mark>>

WriteRefused(w) ==
  /\ pc[w] = "writing"
  /\ isClosed
  /\ pc' = [pc EXCEPT ![w] = "idle"]
  /\ UNCHANGED <<slot, isClosed, calls, sent, rcvd, mark>>

(* MUTANT: the wait is an `if` that is not repeated: a full slot is         *)
(* overwritten.                                                            *)
WriteOver(w) ==
  /\ pc[w] = "writing"
  /\ ~isClosed
  /\ isEmpty' = FALSE
  /\ value' = <<w, calls[w]>>
  /\ sent' = Append(sent, value')
  /\ pc' \in NotifyOne([pc EXCEPT ![w] = "idle"], "readSleep", "reading")
  /\ UNCHANGED <<isClosed, calls, rcvd, mark>>

(* MUTANT: the closed flag is not tested again after the wait. *)
WriteToClosed(w) ==
  /\ pc[w] = "writing"
  /\ isEmpty
  /\ isEmpty' = FALSE
  /\ value' = <<w, calls[w]>>
  /\ sent' = Append(sent, value')
  /\ pc' \in NotifyOne([pc EXCEPT ![w] = "idle"], "readSleep", "reading")
  /\ UNCHANGED <<isClosed, calls, rcvd, mark>>

(* MUTANT: no notify_one on read_cond. *)
WriteSilently(w) ==
  /\ pc[w] = "writing"
  /\ isEmpty /\ ~isClosed
  /\ isEmpty' = FALSE
  /\ value' = <<w, calls[w]>>
  /\ sent' = Append(sent, value')
  /\ pc' = [pc EXCEPT ![w] = "idle"]
  /\ UNCHANGED <<isClosed, calls, rcvd, mark>>

WritePut(w) ==
  /\ pc[w] = "writing"
  /\ isEmpty /\ ~isClosed
  /\ isEmpty' = FALSE
  /\ value' = <<w, calls[w]>>
  /\ sent' = Append(sent, value')
  /\ pc' \in NotifyOne([pc EXCEPT ![w] = "idle"], "readSleep", "reading")
  /\ UNCHANGED <<isClosed, calls, rcvd, mark>>

-----------------------------------------------------------------------------
(* close, also called by the destructor: any number of times, by a thread  *)
(* that need not be a reader or a writer.                                  *)

(* MUTANT: only the readers are told. *)
CloseTellsReaders ==
  /\ isClosed' = TRUE
  /\ pc' = [t \in Threads |-> IF pc[t] = "readSleep" THEN "reading" ELSE pc[t]]
  /\ UNCHANGED <<slot, calls, sent, rcvd, mark>>

Close ==
  /\ isClosed' = TRUE
  /\ pc' = WakeAll(pc)
  /\ UNCHANGED <<slot, calls, sent, rcvd, mark>>

-----------------------------------------------------------------------------
(* isExhausted loads _isClosed and _isEmpty without the mutex: a data      *)
(* race, so the two loads may take effect in either order.  A first load   *)
(* of FALSE decides the result and changes nothing.  A reader that got     *)
(* TRUE leaves its loop for good.                                          *)

ProbeFirst(r) ==
  /\ pc[r] = "idle"
  /\ mark' = [mark EXCEPT ![r] = Len(sent)]
  /\ \/ isClosed /\ pc' = [pc EXCEPT ![r] = "sawClosed"]
     \/ isEmpty  /\ pc' = [pc EXCEPT ![r] = "sawEmpty"]
  /\ UNCHANGED <<slot, isClosed, calls, sent, rcvd>>

(* MUTANT: `||` for `&&`: the first flag decides alone. *)
ProbeEither(r) ==
  /\ pc[r] \in {"sawClosed", "sawEmpty"}
  /\ pc' = [pc EXCEPT ![r] = "exhausted"]
  /\ UNCHANGED <<slot, isClosed, calls, sent, rcvd, mark>>

ProbeSecond(r) ==
  /\ \/ /\ pc[r] = "sawClosed"
        /\ pc' = [pc EXCEPT ![r] = IF isEmpty THEN "exhausted" ELSE "idle"]
     \/ /\ pc[r] = "sawEmpty"
        /\ pc' = [pc EXCEPT ![r] = IF isClosed THEN "exhausted" ELSE "idle"]
  /\ UNCHANGED <<slot, isClosed, calls, sent, rcvd, mark>>

-----------------------------------------------------------------------------
ReaderStep(r) == ReadSleep(r) \/ ReadNone(r) \/ ReadTake(r) \/ ProbeSecond(r)
WriterStep(w) == WriteSleep(w) \/ WriteRefused(w) \/ WritePut(w)

Next ==
  \/ \E r \in Readers : \/ BeginRead(r) \/ TryReadTake(r) \/ ProbeFirst(r)
                        \/ ReaderStep(r)
  \/ \E w \in Writers : BeginWrite(w) \/ WriterStep(w)
  \/ \E t \in Threads : SpuriousWakeup(t)
  \/ Close

Spec == Init /\ [][Next]_vars

(* A thread inside a call that is not asleep is scheduled and gets the     *)
(* mutex, which every critical section gives up at once.  Nobody is        *)
(* obliged to begin a call, to close, or to wake spuriously.               *)
Fairness ==
  /\ \A r \in Readers : WF_vars(ReaderStep(r))
  /\ \A w \in Writers : WF_vars(WriterStep(w))

FairSpec == Spec /\ Fairness

-----------------------------------------------------------------------------
(* Every variable holds a value of its type. *)
TypeOK ==
  /\ isEmpty \in BOOLEAN
  /\ isClosed \in BOOLEAN
  /\ value \in Values \cup {NoValue}
  /\ pc \in [Threads -> ReaderPC \cup WriterPC]
  /\ \A r \in Readers : pc[r] \in ReaderPC
  /\ \A w \in Writers : pc[w] \in WriterPC
  /\ calls \in [Writers -> 0 .. MaxWrites]
  /\ sent \in Seq(Values)
  /\ rcvd \in Seq(Values)
  /\ mark \in [Readers -> Nat]

(* Messages are neither lost, duplicated nor reordered: what was accepted  *)
(* is what was delivered, followed by the value in the slot; the flag      *)
(* _isEmpty and the optional never disagree.                               *)
Fifo ==
  /\ isEmpty <=> value = NoValue
  /\ sent = IF isEmpty THEN rcvd ELSE Append(rcvd, value)

(* No lost wakeup, although notify_one wakes a single thread and a         *)
(* newcomer may overtake it: while a reader sleeps on a full slot another  *)
(* reader is about to run, and so for writers and an empty slot; nobody    *)
(* sleeps on a closed channel.                                             *)
NoLostWakeup ==
  /\ \A r \in Readers : pc[r] = "readSleep" =>
       ~isClosed /\ (isEmpty \/ \E q \in Readers : pc[q] = "reading")
  /\ \A w \in Writers : pc[w] = "writeSleep" =>
       ~isClosed /\ (~isEmpty \/ \E v \in Writers : pc[v] = "writing")

(* The unlocked isExhausted can answer TRUE too early only for a value     *)
(* that was written while the call was running: what the slot held when    *)
(* the loop asked is never abandoned.                                      *)
ExhaustedMissesOnlyLateWrite ==
  \A r \in Readers : pc[r] = "exhausted" =>
    isClosed /\ (isEmpty \/ Len(sent) > mark[r])

(* A write that finds the channel closed is refused, also when it was      *)
(* asleep in the channel at the moment of the close.                       *)
NoWriteAfterClose == [][isClosed => sent' = sent]_vars

(* A value in the slot is taken while some reader is inside read.          *)
FullSlotIsTaken ==
  (~isEmpty /\ \E r \in Readers : pc[r] \in {"reading", "readSleep"}) ~> isEmpty

(* close releases every thread blocked in the channel.                     *)
CloseReleasesEveryone ==
  \A t \in Threads :
    (isClosed /\ pc[t] # "idle") ~> pc[t] \in {"idle", "exhausted"}

(* The channel implements the abstract pipe: what the two histories say    *)
(* was accepted and delivered is what went through the pipe, and the slot, *)
(* the threads and the condition variables are hidden.                     *)
P == INSTANCE Pipe WITH Values <- Values, sent <- sent, rcvd <- rcvd, isClosed <- isClosed
ImplementsPipe == P!Spec
=============================================================================
