--------------------------- MODULE ChannelProofs ---------------------------
(***************************************************************************)
(* Theorems about Channel, for any sets of readers and writers and any     *)
(* number of writes: the type invariant, no lost wakeup, first-in          *)
(* first-out, what isExhausted may answer, and that the channel            *)
(* implements the abstract pipe.                                           *)
(***************************************************************************)
EXTENDS Channel, SequenceTheorems, TLAPS

(* What a reader halfway through isExhausted knows: _isClosed never goes   *)
(* back, and an emptiness it saw is still true unless something was sent   *)
(* since it began.                                                         *)
ProbeInv ==
  \A r \in Readers :
    /\ mark[r] <= Len(sent)
    /\ pc[r] = "sawClosed" => isClosed
    /\ pc[r] = "sawEmpty" => isEmpty \/ Len(sent) > mark[r]
    /\ pc[r] = "exhausted" => isClosed /\ (isEmpty \/ Len(sent) > mark[r])

Inv == TypeOK /\ Fifo /\ NoLostWakeup /\ ProbeInv

-----------------------------------------------------------------------------
(* notify_one changes nothing but the state of at most one sleeper, and    *)
(* wakes one whenever there is one.                                        *)
LEMMA NotifyOneFact ==
  ASSUME NEW p, NEW asleep, NEW woken, NEW q \in NotifyOne(p, asleep, woken)
  PROVE  \/ q = p /\ \A t \in Threads : p[t] # asleep
         \/ \E t \in Threads : p[t] = asleep /\ q = [p EXCEPT ![t] = woken]
  BY DEF NotifyOne

LEMMA InitInv == ASSUME Init PROVE Inv
<1>1. TypeOK
  <2>1. value \in Values \cup {NoValue} /\ sent \in Seq(Values) /\ rcvd \in Seq(Values)
    BY DEF Init
  <2>2. calls \in [Writers -> 0 .. MaxWrites]
    BY ChannelAssumption DEF Init
  <2>3. pc \in [Threads -> ReaderPC \cup WriterPC]
    BY DEF Init, ReaderPC, WriterPC
  <2>4. mark \in [Readers -> Nat]
    BY DEF Init
  <2>. QED  BY <2>1, <2>2, <2>3, <2>4 DEF Init, TypeOK, ReaderPC, WriterPC, Threads
<1>2. Fifo
  BY DEF Init, Fifo
<1>3. NoLostWakeup /\ ProbeInv
  BY DEF Init, NoLostWakeup, ProbeInv, Threads
<1>. QED  BY <1>1, <1>2, <1>3 DEF Inv

-----------------------------------------------------------------------------
(* The threads are where readers and writers can be. *)
PCType(p) ==
  /\ p \in [Threads -> ReaderPC \cup WriterPC]
  /\ \A r \in Readers : p[r] \in ReaderPC
  /\ \A w \in Writers : p[w] \in WriterPC

(* Waking a sleeper of either kind keeps every thread where it can be. *)
LEMMA NotifyType ==
  ASSUME NEW p, PCType(p),
         NEW q \in NotifyOne(p, "writeSleep", "writing")
                   \cup NotifyOne(p, "readSleep", "reading")
  PROVE  PCType(q)
<1>1. \/ q = p
      \/ \E t \in Threads : p[t] = "writeSleep" /\ q = [p EXCEPT ![t] = "writing"]
      \/ \E t \in Threads : p[t] = "readSleep" /\ q = [p EXCEPT ![t] = "reading"]
  BY NotifyOneFact
<1>2. ASSUME NEW t \in Threads, p[t] = "writeSleep", q = [p EXCEPT ![t] = "writing"]
      PROVE  PCType(q)
  <2>1. t \in Writers
    BY <1>2 DEF PCType, ReaderPC, Threads
  <2>. QED  BY <1>2, <2>1, ChannelAssumption DEF PCType, WriterPC
<1>3. ASSUME NEW t \in Threads, p[t] = "readSleep", q = [p EXCEPT ![t] = "reading"]
      PROVE  PCType(q)
  <2>1. t \in Readers
    BY <1>3 DEF PCType, WriterPC, Threads
  <2>. QED  BY <1>3, <2>1, ChannelAssumption DEF PCType, ReaderPC
<1>. QED  BY <1>1, <1>2, <1>3

LEMMA TypeStep == ASSUME TypeOK, Fifo, [Next]_vars PROVE TypeOK'
<1>0. /\ PCType(pc)
      /\ \A p : PCType(p) <=> /\ p \in [Threads -> ReaderPC \cup WriterPC]
                              /\ \A r \in Readers : p[r] \in ReaderPC
                              /\ \A w \in Writers : p[w] \in WriterPC
      /\ Readers \cap Writers = {} /\ MaxWrites \in Nat
  BY ChannelAssumption DEF TypeOK, PCType
<1>. USE <1>0 DEF TypeOK, Threads, slot
<1>1. ASSUME NEW r \in Readers,
             BeginRead(r) \/ ReadSleep(r) \/ ReadNone(r) \/ ProbeSecond(r)
      PROVE  TypeOK'
  <2>1. \E s \in ReaderPC : pc' = [pc EXCEPT ![r] = s]
    BY <1>1 DEF BeginRead, ReadSleep, ReadNone, ProbeSecond, ReaderPC
  <2>2. UNCHANGED <<slot, isClosed, calls, sent, rcvd, mark>>
    BY <1>1 DEF BeginRead, ReadSleep, ReadNone, ProbeSecond
  <2>. QED  BY <2>1, <2>2
<1>2. ASSUME NEW r \in Readers, ProbeFirst(r) PROVE TypeOK'
  <2>1. \E s \in ReaderPC : pc' = [pc EXCEPT ![r] = s]
    BY <1>2 DEF ProbeFirst, ReaderPC
  <2>2. Len(sent) \in Nat
    BY LenProperties
  <2>. QED  BY <1>2, <2>1, <2>2 DEF ProbeFirst
<1>3. ASSUME NEW r \in Readers, ReadTake(r) \/ TryReadTake(r) PROVE TypeOK'
  <2>1. Take(r) /\ ~isEmpty /\ value \in Values
    BY <1>3 DEF ReadTake, TryReadTake, Fifo
  <2>2. PCType([pc EXCEPT ![r] = "idle"])
    BY DEF PCType, ReaderPC, WriterPC
  <2>3. PCType(pc')
    BY <2>1, <2>2, NotifyType DEF Take
  <2>. QED  BY <2>1, <2>3 DEF Take
<1>4. ASSUME NEW w \in Writers, BeginWrite(w) PROVE TypeOK'
  BY <1>4 DEF BeginWrite, ReaderPC, WriterPC
<1>5. ASSUME NEW w \in Writers, WriteSleep(w) \/ WriteRefused(w) PROVE TypeOK'
  <2>1. \E s \in WriterPC : pc' = [pc EXCEPT ![w] = s]
    BY <1>5 DEF WriteSleep, WriteRefused, WriterPC
  <2>. QED  BY <1>5, <2>1 DEF WriteSleep, WriteRefused
<1>6. ASSUME NEW w \in Writers, WritePut(w) PROVE TypeOK'
  <2>1. value' \in Values
    BY <1>6 DEF WritePut, Values
  <2>2. PCType([pc EXCEPT ![w] = "idle"])
    BY DEF PCType, ReaderPC, WriterPC
  <2>3. PCType(pc')
    BY <1>6, <2>2, NotifyType DEF WritePut
  <2>4. sent' \in Seq(Values)
    BY <1>6, <2>1, AppendProperties DEF WritePut
  <2>. QED  BY <1>6, <2>1, <2>3, <2>4 DEF WritePut
<1>7. ASSUME NEW t \in Threads, SpuriousWakeup(t) PROVE TypeOK'
  <2>1. \/ t \in Readers /\ pc' = [pc EXCEPT ![t] = "reading"]
        \/ t \in Writers /\ pc' = [pc EXCEPT ![t] = "writing"]
    BY <1>7 DEF SpuriousWakeup, ReaderPC, WriterPC
  <2>2. ASSUME t \in Readers, pc' = [pc EXCEPT ![t] = "reading"] PROVE PCType(pc')
    BY <2>2 DEF ReaderPC
  <2>3. ASSUME t \in Writers, pc' = [pc EXCEPT ![t] = "writing"] PROVE PCType(pc')
    BY <2>3 DEF WriterPC
  <2>. QED  BY <1>7, <2>1, <2>2, <2>3 DEF SpuriousWakeup
<1>8. ASSUME Close PROVE TypeOK'
  <2>1. PCType(pc')
    BY <1>8 DEF Close, WakeAll, ReaderPC, WriterPC
  <2>. QED  BY <1>8, <2>1 DEF Close
<1>9. CASE UNCHANGED vars
  BY <1>9 DEF vars
<1>. QED
  BY <1>1, <1>2, <1>3, <1>4, <1>5, <1>6, <1>7, <1>8, <1>9
     DEF Next, ReaderStep, WriterStep
-----------------------------------------------------------------------------
(* Taking a value ends the reader's call, leaves the other readers where   *)
(* they are and wakes one sleeping writer, if there is one.                *)
LEMMA TakePC ==
  ASSUME TypeOK, NEW r \in Readers, Take(r)
  PROVE  /\ pc'[r] = "idle"
         /\ \A q \in Readers \ {r} : pc'[q] = pc[q]
         /\ \/ \A w \in Writers : pc[w] # "writeSleep" /\ pc'[w] = pc[w]
            \/ \E w \in Writers :
                 /\ pc'[w] = "writing"
                 /\ \A v \in Writers \ {w} : pc'[v] = pc[v]
<1>. DEFINE p == [pc EXCEPT ![r] = "idle"]
<1>1. \/ pc' = p /\ \A t \in Threads : p[t] # "writeSleep"
      \/ \E t \in Threads : p[t] = "writeSleep" /\ pc' = [p EXCEPT ![t] = "writing"]
  <2>1. pc' \in NotifyOne(p, "writeSleep", "writing")
    BY DEF Take
  <2>. HIDE DEF p
  <2>. QED  BY <2>1, NotifyOneFact
<1>2. CASE pc' = p /\ \A t \in Threads : p[t] # "writeSleep"
  <2>1. pc'[r] = "idle" /\ \A t \in Threads \ {r} : pc'[t] = pc[t] /\ pc[t] # "writeSleep"
    BY <1>2 DEF TypeOK, Threads
  <2>2. \A w \in Writers : w # r
    BY ChannelAssumption
  <2>. HIDE DEF p
  <2>. QED  BY ONLY <2>1, <2>2 DEF Threads
<1>3. ASSUME NEW t \in Threads, p[t] = "writeSleep", pc' = [p EXCEPT ![t] = "writing"]
      PROVE  /\ pc'[r] = "idle"
             /\ \A q \in Readers \ {r} : pc'[q] = pc[q]
             /\ \E w \in Writers : /\ pc'[w] = "writing"
                                   /\ \A v \in Writers \ {w} : pc'[v] = pc[v]
  <2>1. p \in [Threads -> ReaderPC \cup WriterPC] /\ p[r] = "idle"
    BY DEF TypeOK, Threads, ReaderPC
  <2>2. t \notin Readers
    BY <1>3 DEF TypeOK, Threads, ReaderPC
  <2>3. t \in Writers /\ t # r
    BY <2>2 DEF Threads
  <2>4. r \notin Writers
    BY ChannelAssumption
  <2>5. \A q \in Threads \ {r} : p[q] = pc[q]
    BY DEF TypeOK
  <2>6. \A q \in Threads \ {t} : pc'[q] = p[q]
    <3>. HIDE DEF p
    <3>. QED  BY <1>3, <2>1
  <2>7. pc'[t] = "writing"
    <3>. HIDE DEF p
    <3>. QED  BY <1>3, <2>1
  <2>8. pc'[r] = "idle"
    <3>. HIDE DEF p
    <3>. QED  BY <2>1, <2>3, <2>6 DEF Threads
  <2>9. \A q \in Readers \ {r} : pc'[q] = pc[q]
    <3>. HIDE DEF p
    <3>. QED  BY <2>2, <2>5, <2>6 DEF Threads
  <2>10. \A v \in Writers \ {t} : pc'[v] = pc[v]
    <3>. HIDE DEF p
    <3>. QED  BY <2>4, <2>5, <2>6 DEF Threads
  <2>. HIDE DEF p
  <2>. QED  BY ONLY <2>3, <2>7, <2>8, <2>9, <2>10
<1>. HIDE DEF p
<1>. QED  BY ONLY <1>1, <1>2, <1>3

(* Putting a value does the same with the roles exchanged. *)
LEMMA PutPC ==
  ASSUME TypeOK, NEW w \in Writers, WritePut(w)
  PROVE  /\ pc'[w] = "idle"
         /\ \A v \in Writers \ {w} : pc'[v] = pc[v]
         /\ \/ \A r \in Readers : pc[r] # "readSleep" /\ pc'[r] = pc[r]
            \/ \E r \in Readers :
                 /\ pc'[r] = "reading"
                 /\ \A q \in Readers \ {r} : pc'[q] = pc[q]
<1>. DEFINE p == [pc EXCEPT ![w] = "idle"]
<1>1. \/ pc' = p /\ \A t \in Threads : p[t] # "readSleep"
      \/ \E t \in Threads : p[t] = "readSleep" /\ pc' = [p EXCEPT ![t] = "reading"]
  <2>1. pc' \in NotifyOne(p, "readSleep", "reading")
    BY DEF WritePut
  <2>. HIDE DEF p
  <2>. QED  BY <2>1, NotifyOneFact
<1>2. CASE pc' = p /\ \A t \in Threads : p[t] # "readSleep"
  <2>1. pc'[w] = "idle" /\ \A t \in Threads \ {w} : pc'[t] = pc[t] /\ pc[t] # "readSleep"
    BY <1>2 DEF TypeOK, Threads
  <2>2. \A r \in Readers : r # w
    BY ChannelAssumption
  <2>. HIDE DEF p
  <2>. QED  BY ONLY <2>1, <2>2 DEF Threads
<1>3. ASSUME NEW t \in Threads, p[t] = "readSleep", pc' = [p EXCEPT ![t] = "reading"]
      PROVE  /\ pc'[w] = "idle"
             /\ \A v \in Writers \ {w} : pc'[v] = pc[v]
             /\ \E r \in Readers : /\ pc'[r] = "reading"
                                   /\ \A q \in Readers \ {r} : pc'[q] = pc[q]
  <2>1. p \in [Threads -> ReaderPC \cup WriterPC] /\ p[w] = "idle"
    BY DEF TypeOK, Threads, WriterPC
  <2>2. t \notin Writers
    BY <1>3 DEF TypeOK, Threads, WriterPC
  <2>3. t \in Readers /\ t # w
    BY <2>2 DEF Threads
  <2>4. w \notin Readers
    BY ChannelAssumption
  <2>5. \A v \in Threads \ {w} : p[v] = pc[v]
    BY DEF TypeOK
  <2>6. \A v \in Threads \ {t} : pc'[v] = p[v]
    <3>. HIDE DEF p
    <3>. QED  BY <1>3, <2>1
  <2>7. pc'[t] = "reading"
    <3>. HIDE DEF p
    <3>. QED  BY <1>3, <2>1
  <2>8. pc'[w] = "idle"
    <3>. HIDE DEF p
    <3>. QED  BY <2>1, <2>3, <2>6 DEF Threads
  <2>9. \A v \in Writers \ {w} : pc'[v] = pc[v]
    <3>. HIDE DEF p
    <3>. QED  BY <2>2, <2>5, <2>6 DEF Threads
  <2>10. \A q \in Readers \ {t} : pc'[q] = pc[q]
    <3>. HIDE DEF p
    <3>. QED  BY <2>4, <2>5, <2>6 DEF Threads
  <2>. HIDE DEF p
  <2>. QED  BY ONLY <2>3, <2>7, <2>8, <2>9, <2>10
<1>. HIDE DEF p
<1>. QED  BY ONLY <1>1, <1>2, <1>3

-----------------------------------------------------------------------------
LEMMA FifoStep == ASSUME TypeOK, Fifo, [Next]_vars PROVE Fifo'
<1>1. ASSUME NEW r \in Readers, Take(r), ~isEmpty PROVE Fifo'
  BY <1>1 DEF Take, Fifo
<1>2. ASSUME NEW w \in Writers, WritePut(w) PROVE Fifo'
  <2>1. value' # NoValue
    BY <1>2, ChannelAssumption DEF WritePut, Values, TypeOK
  <2>. QED  BY <1>2, <2>1 DEF WritePut, Fifo
<1>3. ASSUME UNCHANGED <<slot, sent, rcvd>> PROVE Fifo'
  BY <1>3 DEF Fifo, slot
<1>. QED
  BY <1>1, <1>2, <1>3
     DEF Next, vars, slot, ReaderStep, WriterStep, BeginRead, ReadSleep, ReadNone,
         ReadTake, TryReadTake, BeginWrite, WriteSleep, WriteRefused,
         SpuriousWakeup, Close, ProbeFirst, ProbeSecond

LEMMA ProbeStep == ASSUME TypeOK, Fifo, ProbeInv, [Next]_vars PROVE ProbeInv'
<1>1. Len(sent) \in Nat /\ \A r \in Readers : mark[r] \in Nat
  BY LenProperties DEF TypeOK
<1>2. isClosed => isClosed'
  BY DEF Next, vars, slot, ReaderStep, WriterStep, BeginRead, ReadSleep, ReadNone,
         ReadTake, Take, TryReadTake, BeginWrite, WriteSleep, WriteRefused, WritePut,
         SpuriousWakeup, Close, ProbeFirst, ProbeSecond
<1>3. \/ UNCHANGED <<isEmpty, sent>>
      \/ isEmpty' /\ UNCHANGED sent
      \/ ~isClosed /\ Len(sent') = Len(sent) + 1
  <2>1. ASSUME NEW w \in Writers, WritePut(w)
        PROVE  ~isClosed /\ Len(sent') = Len(sent) + 1
    <3>1. value' \in Values
      BY <2>1 DEF WritePut, Values, TypeOK
    <3>. QED  BY <2>1, <3>1, AppendProperties DEF WritePut, TypeOK
  <2>. QED
    BY <2>1 DEF Next, vars, slot, ReaderStep, WriterStep, BeginRead, ReadSleep,
         ReadNone, ReadTake, Take, TryReadTake, BeginWrite, WriteSleep,
         WriteRefused, SpuriousWakeup, Close, ProbeFirst, ProbeSecond
<1>4. ASSUME NEW r \in Readers, ProbeFirst(r) PROVE ProbeInv'
  BY <1>1, <1>4 DEF ProbeFirst, ProbeInv, TypeOK, slot, Threads
<1>5. ASSUME NEW r \in Readers, ProbeSecond(r) PROVE ProbeInv'
  BY <1>1, <1>5 DEF ProbeSecond, ProbeInv, TypeOK, slot, Threads
<1>6. ASSUME UNCHANGED mark,
             \A r \in Readers : pc'[r] = pc[r] \/ pc'[r] \in {"idle", "reading", "readSleep"}
      PROVE  ProbeInv'
  BY <1>1, <1>2, <1>3, <1>6 DEF ProbeInv
<1>7. ASSUME NEW r \in Readers,
             BeginRead(r) \/ ReadSleep(r) \/ ReadNone(r) \/ ReadTake(r) \/ TryReadTake(r)
      PROVE  ProbeInv'
  <2>1. CASE BeginRead(r) \/ ReadSleep(r) \/ ReadNone(r)
    BY <1>6, <2>1 DEF BeginRead, ReadSleep, ReadNone, TypeOK, Threads
  <2>2. CASE Take(r)
    BY <1>6, <2>2, TakePC DEF Take
  <2>. QED  BY <1>7, <2>1, <2>2 DEF ReadTake, TryReadTake
<1>8. ASSUME NEW w \in Writers, BeginWrite(w) \/ WriterStep(w) PROVE ProbeInv'
  <2>1. CASE BeginWrite(w) \/ WriteSleep(w) \/ WriteRefused(w)
    BY <1>6, <2>1, ChannelAssumption
       DEF BeginWrite, WriteSleep, WriteRefused, TypeOK, Threads
  <2>2. CASE WritePut(w)
    BY <1>6, <2>2, PutPC DEF WritePut
  <2>. QED  BY <1>8, <2>1, <2>2 DEF WriterStep
<1>9. ASSUME NEW t \in Threads, SpuriousWakeup(t) PROVE ProbeInv'
  BY <1>6, <1>9, ChannelAssumption
     DEF SpuriousWakeup, TypeOK, Threads, ReaderPC, WriterPC
<1>10. ASSUME Close PROVE ProbeInv'
  BY <1>6, <1>10 DEF Close, WakeAll, TypeOK, Threads, ReaderPC
<1>11. CASE UNCHANGED vars
  BY <1>6, <1>11 DEF vars
<1>. QED
  BY <1>4, <1>5, <1>7, <1>8, <1>9, <1>10, <1>11 DEF Next, ReaderStep

-----------------------------------------------------------------------------
LEMMA WakeupStep == ASSUME TypeOK, Fifo, NoLostWakeup, [Next]_vars PROVE NoLostWakeup'
<1>. USE ChannelAssumption DEF NoLostWakeup, Threads
<1>1. ASSUME NEW r \in Readers, BeginRead(r) \/ ReadSleep(r) \/ ReadNone(r)
      PROVE  NoLostWakeup'
  BY <1>1 DEF BeginRead, ReadSleep, ReadNone, TypeOK, slot
<1>2. ASSUME NEW r \in Readers, ProbeFirst(r) \/ ProbeSecond(r)
      PROVE  NoLostWakeup'
  BY <1>2 DEF ProbeFirst, ProbeSecond, TypeOK, slot
<1>3. ASSUME NEW r \in Readers, Take(r) PROVE NoLostWakeup'
  BY <1>3, TakePC DEF Take
<1>4. ASSUME NEW w \in Writers, BeginWrite(w) \/ WriteSleep(w) \/ WriteRefused(w)
      PROVE  NoLostWakeup'
  <2>1. CASE BeginWrite(w)
    BY <2>1 DEF BeginWrite, TypeOK, slot
  <2>2. CASE WriteSleep(w)
    BY <2>2 DEF WriteSleep, TypeOK, slot
  <2>3. CASE WriteRefused(w)
    BY <2>3 DEF WriteRefused, TypeOK, slot
  <2>. QED  BY <1>4, <2>1, <2>2, <2>3
<1>5. ASSUME NEW w \in Writers, WritePut(w) PROVE NoLostWakeup'
  BY <1>5, PutPC DEF WritePut
<1>6. ASSUME NEW t \in Threads, SpuriousWakeup(t) PROVE NoLostWakeup'
  BY <1>6 DEF SpuriousWakeup, TypeOK, slot, ReaderPC, WriterPC
<1>7. ASSUME Close PROVE NoLostWakeup'
  BY <1>7 DEF Close, WakeAll, TypeOK, ReaderPC, WriterPC
<1>8. CASE UNCHANGED vars
  BY <1>8 DEF vars
<1>. QED
  BY <1>1, <1>2, <1>3, <1>4, <1>5, <1>6, <1>7, <1>8
     DEF Next, ReaderStep, WriterStep, ReadTake, TryReadTake
-----------------------------------------------------------------------------
LEMMA InvStep == ASSUME Inv, [Next]_vars PROVE Inv'
  BY TypeStep, FifoStep, WakeupStep, ProbeStep DEF Inv

LEMMA InvHolds == Spec => []Inv
  BY InitInv, InvStep, PTL DEF Spec

(* Every variable keeps its type. *)
THEOREM TypeCorrect == Spec => []TypeOK
  BY InvHolds, PTL DEF Inv

(* Channel::read, tryRead and write move every accepted value through the  *)
(* slot exactly once and in order.                                         *)
THEOREM FifoCorrect == Spec => []Fifo
  BY InvHolds, PTL DEF Inv

(* The single notify_one of read, tryRead and write, and the two           *)
(* notify_all of close, never leave a thread asleep that could run.        *)
THEOREM WakeupsCorrect == Spec => []NoLostWakeup
  BY InvHolds, PTL DEF Inv

(* isExhausted, which loads both flags without the mutex, may miss only a  *)
(* value written while it runs.                                            *)
THEOREM ExhaustedCorrect == Spec => []ExhaustedMissesOnlyLateWrite
<1>1. Inv => ExhaustedMissesOnlyLateWrite
  BY DEF Inv, ProbeInv, ExhaustedMissesOnlyLateWrite
<1>. QED  BY <1>1, InvHolds, PTL

(* close is final: no write, not even one that was waiting, succeeds on a  *)
(* closed channel.                                                         *)
THEOREM ClosedCorrect == Spec => NoWriteAfterClose
<1>1. ASSUME [Next]_vars PROVE [isClosed => sent' = sent]_vars
  BY <1>1 DEF Next, vars, slot, ReaderStep, WriterStep, BeginRead, ReadSleep,
     ReadNone, ReadTake, Take, TryReadTake, BeginWrite, WriteSleep, WriteRefused,
     WritePut, SpuriousWakeup, Close, ProbeFirst, ProbeSecond
<1>. QED  BY <1>1, PTL DEF Spec, NoWriteAfterClose

-----------------------------------------------------------------------------
(* Every step of the channel is a step of the abstract pipe or leaves it   *)
(* unchanged: the refinement mapping is the identity on the histories.     *)
LEMMA PipeStep == ASSUME Inv, [Next]_vars PROVE [P!Next]_(P!vars)
<1>. USE DEF P!vars, P!Next
<1>1. ASSUME NEW r \in Readers, Take(r), ~isEmpty PROVE P!Deliver
  <2>1. rcvd \in Seq(Values) /\ value \in Values /\ sent = Append(rcvd, value)
    BY <1>1 DEF Inv, TypeOK, Fifo
  <2>2. Len(sent) = Len(rcvd) + 1 /\ sent[Len(rcvd) + 1] = value
    BY <2>1, AppendProperties
  <2>. QED  BY <1>1, <2>1, <2>2, LenProperties DEF Take, P!Deliver
<1>2. ASSUME NEW w \in Writers, WritePut(w) PROVE P!Accept(<<w, calls[w]>>)
  BY <1>2 DEF WritePut, P!Accept, Inv, Fifo
<1>3. ASSUME NEW w \in Writers, WritePut(w) PROVE <<w, calls[w]>> \in Values
  BY <1>3 DEF Inv, TypeOK, Values
<1>4. ASSUME Close PROVE P!Close
  BY <1>4 DEF Close, P!Close
<1>5. ASSUME UNCHANGED <<sent, rcvd, isClosed>> PROVE [P!Next]_(P!vars)
  BY <1>5
<1>. QED
  BY <1>1, <1>2, <1>3, <1>4, <1>5
     DEF Next, vars, ReaderStep, WriterStep, BeginRead, ReadSleep, ReadNone,
         ReadTake, TryReadTake, BeginWrite, WriteSleep, WriteRefused,
         SpuriousWakeup, ProbeFirst, ProbeSecond

(* The threads, mutex and condition variables of Channel implement the     *)
(* closable one-slot pipe.                                                 *)
THEOREM ChannelImplementsPipe == Spec => ImplementsPipe
<1>1. Init => P!Init
  BY DEF Init, P!Init
<1>. QED  BY <1>1, PipeStep, InvHolds, PTL DEF Spec, ImplementsPipe, P!Spec
=============================================================================
