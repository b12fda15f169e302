------------------------ MODULE KernelIntakeProofs ------------------------
(***************************************************************************)
(* Theorems about KernelIntake, for any applications, jobs, malformed      *)
(* kernels and bounds: a completed kernel is listed, and what runs is what *)
(* the user chose, each with the exceptions that the properties name.      *)
(***************************************************************************)
EXTENDS KernelIntake, SequenceTheorems, TLAPS

Requests == [app : Apps, kernel : Nat, copy : Nat]

JobStates ==
  [pc : {"receive"}] \cup [pc : {"append"}, req : Requests, at : Nat]
  \cup [pc : {"select"}, req : Requests, idx : Nat] \cup [pc : {"send"}, req : Requests]

(* Every variable holds a value of its type. *)
TypeOK ==
  /\ waiting \in [Apps -> Nat] /\ sent \in Nat /\ completed \subseteq Nat
  /\ requests \subseteq Requests /\ resends \in Nat
  /\ job \in [Jobs -> JobStates]
  /\ programs \in Seq(Nat) /\ currentKernelIdx \in Nat /\ list \in Seq(Nat) /\ marked \in Nat
  /\ gui \in {"idle", "attach", "holds", "stuck"} /\ running \in Nat /\ clicks \in Nat
  /\ crashed \in BOOLEAN
  /\ chosen \in Nat /\ crossed \in BOOLEAN /\ raced \in BOOLEAN

At(j, pc) == job[j].pc = pc

(* The indices that jobs and GUI have read stay inside of programs, which  *)
(* never shrinks.                                                          *)
SizeInv ==
  /\ marked = currentKernelIdx
  /\ currentKernelIdx <= Len(list) /\ Len(list) <= Len(programs)
  /\ \A j \in Jobs : /\ At(j, "append") => job[j].at \in 1 .. Len(programs) + 1
                     /\ At(j, "select") => job[j].idx <= Len(programs)

(* Wherever a kernel is, it has been sent. *)
SentInv ==
  /\ \A a \in Apps : waiting[a] <= sent
  /\ \A r \in requests : r.kernel <= sent
  /\ \A j \in Jobs : ~At(j, "receive") => job[j].req.kernel <= sent
  /\ \A i \in DOMAIN programs : programs[i] <= sent

(* Unless two uses of programs overlap, the list is what programs was once *)
(* and a job leaves its kernel first in programs and then in the list.     *)
ListedInv ==
  ~raced =>
    /\ \A i \in DOMAIN list : list[i] = programs[i]
    /\ completed \subseteq ToSet(list)
    /\ \A j \in Jobs : /\ At(j, "select") => job[j].req.kernel \in ToSet(programs)
                       /\ At(j, "send") => job[j].req.kernel \in ToSet(list)

(* And then a kernel whose request was sent once is in one place: on its   *)
(* way, with the job that appends it, or in programs.                      *)
OnceInv ==
  ~raced /\ resends = 0 =>
    /\ IsInjective(programs)
    /\ \A r \in requests :
         /\ \A s \in requests : r.kernel = s.kernel => r = s
         /\ \A j \in Jobs : At(j, "append") => job[j].req.kernel # r.kernel
         /\ r.kernel \notin ToSet(programs)
    /\ \A j \in Jobs : At(j, "append") =>
         /\ job[j].req.kernel \notin ToSet(programs)
         /\ \A i \in Jobs : At(i, "append") /\ job[i].req.kernel = job[j].req.kernel => i = j

(* Until a selection crosses with that of a job, jobs repeat the selection *)
(* that is there.  Attach saw one, and what runs was taken from it.        *)
ChosenInv ==
  ~crossed =>
    /\ \A j \in Jobs : At(j, "select") => job[j].idx = currentKernelIdx
    /\ gui = "attach" \/ running # NONE => currentKernelIdx # NONE
    /\ ~raced =>
         /\ currentKernelIdx # NONE => list[currentKernelIdx] = chosen
         /\ running # NONE => running = chosen
         /\ crashed => \E k \in Refused : k <= sent

Inv == TypeOK /\ SizeInv /\ SentInv /\ ListedInv /\ OnceInv /\ ChosenInv

-----------------------------------------------------------------------------
LEMMA AppendFacts ==
  ASSUME NEW s \in Seq(Nat), NEW e \in Nat
  PROVE  /\ Append(s, e) \in Seq(Nat) /\ Len(Append(s, e)) = Len(s) + 1
         /\ DOMAIN s = 1 .. Len(s) /\ DOMAIN Append(s, e) = 1 .. Len(s) + 1
         /\ Len(s) \in Nat
         /\ \A i \in DOMAIN s : Append(s, e)[i] = s[i]
         /\ Append(s, e)[Len(s) + 1] = e
         /\ \A i \in DOMAIN Append(s, e) : Append(s, e)[i] = e \/ (i \in DOMAIN s /\ Append(s, e)[i] = s[i])
         /\ ToSet(Append(s, e)) = ToSet(s) \cup {e}
<1>1. /\ Append(s, e) \in Seq(Nat) /\ Len(Append(s, e)) = Len(s) + 1
      /\ Len(s) \in Nat /\ DOMAIN s = 1 .. Len(s)
      /\ \A i \in 1 .. Len(s) : Append(s, e)[i] = s[i]
      /\ Append(s, e)[Len(s) + 1] = e
  BY AppendProperties, LenProperties
<1>2. DOMAIN Append(s, e) = 1 .. Len(s) + 1
  BY <1>1, LenProperties
<1>3. ASSUME NEW i \in 1 .. Len(s) + 1 PROVE i \in 1 .. Len(s) \/ i = Len(s) + 1
  BY <1>1
<1>. QED  BY <1>1, <1>2, <1>3 DEF ToSet

LEMMA PutFacts ==
  ASSUME NEW s \in Seq(Nat), NEW n \in 1 .. Len(s), NEW e \in Nat
  PROVE  /\ Len([s EXCEPT ![n] = e]) = Len(s)
         /\ DOMAIN [s EXCEPT ![n] = e] = DOMAIN s
         /\ \A i \in DOMAIN s : [s EXCEPT ![n] = e][i] = IF i = n THEN e ELSE s[i]
  BY ExceptSeq, LenProperties

(* What a job is, by where it is. *)
LEMMA JobFacts ==
  ASSUME TypeOK, NEW j \in Jobs
  PROVE  /\ At(j, "append") => job[j].req \in Requests /\ job[j].at \in Nat
         /\ At(j, "select") => job[j].req \in Requests /\ job[j].idx \in Nat
         /\ At(j, "send") => job[j].req \in Requests
  BY DEF TypeOK, JobStates, At

LEMMA InitInv == ASSUME Init PROVE Inv
<1>1. TypeOK
  <2>1. <<>> \in Seq(Nat)
    BY EmptySeq
  <2>2. job \in [Jobs -> JobStates]
    BY DEF Init, JobStates
  <2>. QED  BY <2>1, <2>2 DEF Init, TypeOK, NONE
<1>2. SizeInv /\ SentInv /\ ListedInv /\ OnceInv /\ ChosenInv
  BY DEF Init, SizeInv, SentInv, ListedInv, OnceInv, ChosenInv, At, NONE, ToSet, IsInjective
<1>. QED  BY <1>1, <1>2 DEF Inv

LEMMA TypeStep == ASSUME TypeOK, SizeInv, [Next]_vars PROVE TypeOK'
<1>. USE DEF TypeOK
<1>1. ASSUME NEW a \in Apps, SendKernel(a) PROVE TypeOK'
  BY <1>1 DEF SendKernel, Requests, display, user
<1>2. ASSUME NEW a \in Apps, Resend(a) PROVE TypeOK'
  BY <1>2 DEF Resend, Requests, display, user
<1>3. ASSUME NEW j \in Jobs, NEW req \in requests, Receive(j, req) PROVE TypeOK'
  <2>1. Len(programs) + 1 \in Nat
    BY LenProperties
  <2>2. req \in Requests
    OBVIOUS
  <2>3. [pc |-> "append", req |-> req, at |-> Len(programs) + 1] \in JobStates
    BY <2>1, <2>2 DEF JobStates
  <2>4. job' \in [Jobs -> JobStates]
    BY <1>3, <2>3 DEF Receive, Goes
  <2>. QED  BY <1>3, <2>4 DEF Receive, display, user
<1>4. ASSUME NEW j \in Jobs, AddKernel(j) PROVE TypeOK'
  <2>1. job[j].req \in Requests /\ job[j].req.kernel \in Nat
    BY <1>4, JobFacts DEF AddKernel, At, Requests
  <2>2. job' \in [Jobs -> JobStates]
    BY <1>4, <2>1 DEF AddKernel, Goes, JobStates
  <2>3. programs' \in Seq(Nat)
    <3>1. job[j].at \in 1 .. Len(programs) + 1 /\ Len(programs) \in Nat
      BY <1>4, LenProperties DEF AddKernel, SizeInv, At
    <3>2. Append(programs, job[j].req.kernel) \in Seq(Nat)
      BY <2>1, AppendFacts
    <3>3. ASSUME job[j].at # Len(programs) + 1
          PROVE  [programs EXCEPT ![job[j].at] = job[j].req.kernel] \in Seq(Nat)
      <4>1. job[j].at \in 1 .. Len(programs)
        BY <3>1, <3>3
      <4>. QED  BY <2>1, <4>1, ExceptSeq
    <3>. QED  BY <1>4, <3>2, <3>3 DEF AddKernel
  <2>. QED  BY <1>4, <2>2, <2>3 DEF AddKernel, driver, display, user
<1>5. ASSUME NEW j \in Jobs, JobSelect(j) PROVE TypeOK'
  <2>1. job[j].req \in Requests /\ job[j].idx \in Nat
    BY <1>5, JobFacts DEF JobSelect, At
  <2>2. job' \in [Jobs -> JobStates]
    BY <1>5, <2>1 DEF JobSelect, Goes, JobStates
  <2>. QED  BY <1>5, <2>1, <2>2 DEF JobSelect, SelectKernel, driver, user
<1>6. ASSUME NEW j \in Jobs, Reply(j) PROVE TypeOK'
  <2>1. job[j].req \in Requests
    BY <1>6, JobFacts DEF Reply, Answer, At
  <2>2. job' \in [Jobs -> JobStates]
    BY <1>6 DEF Reply, Goes, JobStates
  <2>3. waiting' \in [Apps -> Nat] /\ completed' \subseteq Nat
    <3>. DEFINE r == job[j].req
    <3>1. r.app \in Apps /\ r.kernel \in Nat
      BY <2>1 DEF Requests
    <3>2. \/ waiting' = [waiting EXCEPT ![r.app] = 0] /\ completed' = completed \cup {r.kernel}
          \/ waiting' = waiting /\ completed' = completed
      BY <1>6 DEF Reply, Answer, NONE
    <3>. HIDE DEF r
    <3>3. [waiting EXCEPT ![r.app] = 0] \in [Apps -> Nat]
      BY <3>1
    <3>. QED  BY <3>1, <3>2, <3>3
  <2>. QED  BY <1>6, <2>2, <2>3 DEF Reply, Answer, display, user
<1>7. ASSUME RunKernel PROVE TypeOK'
  <2>1. running' \in Nat
    <3>1. ASSUME NEW i \in DOMAIN programs PROVE programs[i] \in Nat
      BY ElementOfSeq, LenProperties
    <3>. QED  BY <1>7, <3>1 DEF RunKernel
  <2>. QED  BY <1>7, <2>1 DEF RunKernel, driver, display
<1>8. ASSUME GiveMutex \/ Attach \/ RunEnds \/ TakeMutex \/ GetStuck PROVE TypeOK'
  <2>1. UNCHANGED <<driver, job, programs, display, chosen, crossed, crashed, raced>>
    BY <1>8 DEF GiveMutex, Attach, RunEnds, TakeMutex, GetStuck
  <2>2. /\ gui' \in {"idle", "attach", "holds", "stuck"}
        /\ running' \in Nat /\ clicks' \in Nat
    BY <1>8 DEF GiveMutex, Attach, RunEnds, TakeMutex, GetStuck, Click, NONE
  <2>. QED  BY <2>1, <2>2 DEF driver, display
<1>9. ASSUME NEW i \in DOMAIN list, Choose(i) PROVE TypeOK'
  <2>1. i \in Nat /\ list[i] \in Nat
    BY LenProperties, ElementOfSeq
  <2>2. /\ currentKernelIdx' \in Nat /\ list' \in Seq(Nat) /\ marked' \in Nat
        /\ crashed' \in BOOLEAN /\ raced' \in BOOLEAN
    BY <1>9, <2>1 DEF Choose, SelectKernel
  <2>. QED  BY <1>9, <2>1, <2>2 DEF Choose, Click, driver
<1>10. CASE UNCHANGED vars
  BY <1>10 DEF vars, driver, display, user
<1>. QED
  BY <1>1, <1>2, <1>3, <1>4, <1>5, <1>6, <1>7, <1>8, <1>9, <1>10 DEF Next, JobStep, GuiStep

-----------------------------------------------------------------------------
(* addKernel never shortens programs, and appends unless a use overlaps.   *)
LEMMA AddKernelFacts ==
  ASSUME TypeOK, SizeInv, NEW j \in Jobs, AddKernel(j)
  PROVE  /\ At(j, "append")
         /\ job' = [job EXCEPT ![j] = [pc |-> "select", req |-> job[j].req, idx |-> currentKernelIdx]]
         /\ raced => raced'
         /\ Len(programs) <= Len(programs')
         /\ \A i \in DOMAIN programs' :
              programs'[i] = job[j].req.kernel \/ (i \in DOMAIN programs /\ programs'[i] = programs[i])
         /\ ~raced' => programs' = Append(programs, job[j].req.kernel) /\ UNCHANGED crashed
         /\ UNCHANGED <<driver, display, user>>
<1>. DEFINE k == job[j].req.kernel
<1>1. k \in Nat /\ job[j].at \in 1 .. Len(programs) + 1
  BY JobFacts DEF AddKernel, At, SizeInv, Requests
<1>2. programs \in Seq(Nat) /\ Len(programs) \in Nat
  BY LenProperties DEF TypeOK
<1>3. ASSUME job[j].at # Len(programs) + 1, programs' = [programs EXCEPT ![job[j].at] = k]
      PROVE  /\ Len(programs') = Len(programs)
             /\ \A i \in DOMAIN programs' :
                  programs'[i] = k \/ (i \in DOMAIN programs /\ programs'[i] = programs[i])
  <2>1. job[j].at \in 1 .. Len(programs)
    BY <1>1, <1>2, <1>3
  <2>. QED  BY <1>1, <1>2, <1>3, <2>1, PutFacts
<1>4. ASSUME programs' = Append(programs, k)
      PROVE  /\ Len(programs') = Len(programs) + 1
             /\ \A i \in DOMAIN programs' :
                  programs'[i] = k \/ (i \in DOMAIN programs /\ programs'[i] = programs[i])
  BY <1>1, <1>2, <1>4, AppendFacts
<1>5. \/ programs' = Append(programs, k) /\ UNCHANGED <<crashed, raced>>
      \/ raced' /\ programs' = programs
      \/ raced' /\ job[j].at # Len(programs) + 1 /\ programs' = [programs EXCEPT ![job[j].at] = k]
  BY DEF AddKernel
<1>6. /\ Len(programs) <= Len(programs')
      /\ \A i \in DOMAIN programs' :
           programs'[i] = k \/ (i \in DOMAIN programs /\ programs'[i] = programs[i])
  BY <1>2, <1>3, <1>4, <1>5
<1>. QED  BY <1>5, <1>6 DEF AddKernel, Goes, At

(* Whoever calls selectKernel.                                             *)
LEMMA SelectKernelFacts ==
  ASSUME TypeOK, SizeInv, NEW idx \in Nat, idx <= Len(programs), SelectKernel(idx)
  PROVE  /\ currentKernelIdx' = idx /\ marked' = idx /\ list' = programs
         /\ raced => raced'
         /\ ~raced' => ~crashed' /\ \A j \in Jobs : ~At(j, "append")
<1>1. idx > Len(programs) <=> FALSE
  BY LenProperties DEF TypeOK
<1>2. ASSUME ~raced' PROVE ~raced /\ ~Overlaps
  BY <1>2 DEF SelectKernel
<1>3. ASSUME ~raced' PROVE crashed' = FALSE
  BY <1>1, <1>2, <1>3 DEF SelectKernel
<1>. QED  BY <1>2, <1>3 DEF SelectKernel, Overlaps, At

LEMMA SizeStep == ASSUME TypeOK, SizeInv, [Next]_vars PROVE SizeInv'
<1>0. /\ programs \in Seq(Nat) /\ Len(programs) \in Nat /\ Len(list) \in Nat
      /\ currentKernelIdx \in Nat /\ DOMAIN list = 1 .. Len(list)
      /\ \A j \in Jobs : job[j] \in JobStates
      /\ job \in [Jobs -> JobStates]
  BY LenProperties DEF TypeOK
<1>1. ASSUME UNCHANGED <<job, programs, display>> PROVE SizeInv'
  BY <1>1 DEF SizeInv, At, display
<1>2. ASSUME NEW j \in Jobs, NEW req \in requests, Receive(j, req) PROVE SizeInv'
  BY <1>0, <1>2 DEF SizeInv, Receive, Goes, At, display
<1>3. ASSUME NEW j \in Jobs, AddKernel(j) PROVE SizeInv'
  <2>1. Len(programs') \in Nat
    <3>1. TypeOK'
      BY <1>3, TypeStep DEF Next, JobStep
    <3>. QED  BY <3>1, LenProperties DEF TypeOK
  <2>2. /\ job' = [job EXCEPT ![j] = [pc |-> "select", req |-> job[j].req, idx |-> currentKernelIdx]]
        /\ Len(programs) <= Len(programs') /\ UNCHANGED display
    BY <1>3, AddKernelFacts
  <2>3. ASSUME NEW i \in Jobs
        PROVE  /\ job'[i].pc = "append" => job'[i].at \in 1 .. Len(programs') + 1
               /\ job'[i].pc = "select" => job'[i].idx <= Len(programs')
    <3>1. CASE i = j
      BY <1>0, <2>1, <2>2, <3>1 DEF SizeInv
    <3>2. CASE i # j
      <4>1. job'[i] = job[i] /\ (At(i, "select") => job[i].idx \in Nat)
        BY <1>0, <2>2, <3>2, JobFacts
      <4>. QED  BY <1>0, <2>1, <2>2, <4>1 DEF SizeInv, At
    <3>. QED  BY <3>1, <3>2
  <2>. QED  BY <1>0, <2>1, <2>2, <2>3 DEF SizeInv, At, display
<1>4. ASSUME NEW j \in Jobs, JobSelect(j) PROVE SizeInv'
  BY <1>0, <1>4, JobFacts, SelectKernelFacts DEF SizeInv, JobSelect, Goes, At
<1>5. ASSUME NEW j \in Jobs, Reply(j) PROVE SizeInv'
  BY <1>0, <1>5 DEF SizeInv, Reply, Answer, Goes, At, display
<1>6. ASSUME NEW i \in DOMAIN list, Choose(i) PROVE SizeInv'
  BY <1>0, <1>6, SelectKernelFacts DEF SizeInv, Choose, At
<1>. QED
  BY <1>1, <1>2, <1>3, <1>4, <1>5, <1>6
     DEF Next, JobStep, GuiStep, SendKernel, Resend, RunKernel, GiveMutex, Attach, RunEnds,
         TakeMutex, GetStuck, vars

LEMMA SentStep == ASSUME TypeOK, SizeInv, SentInv, [Next]_vars PROVE SentInv'
<1>0. /\ job \in [Jobs -> JobStates] /\ sent \in Nat /\ requests \subseteq Requests
      /\ waiting \in [Apps -> Nat]
  BY DEF TypeOK
<1>1. ASSUME UNCHANGED <<driver, job, programs>> PROVE SentInv'
  BY <1>1 DEF SentInv, At, driver
<1>2. ASSUME NEW a \in Apps, SendKernel(a) PROVE SentInv'
  <2>1. /\ programs \in Seq(Nat)
        /\ \A i \in DOMAIN programs : programs[i] \in Nat
        /\ \A j \in Jobs : ~At(j, "receive") => job[j].req.kernel \in Nat
    <3>1. \A i \in DOMAIN programs : programs[i] \in Nat
      BY ElementOfSeq, LenProperties DEF TypeOK
    <3>. QED  BY <3>1 DEF TypeOK, JobStates, At, Requests
  <2>2. \A r \in requests : r.kernel \in Nat
    BY <1>0 DEF Requests
  <2>. QED  BY <1>0, <1>2, <2>1, <2>2 DEF SentInv, SendKernel, At
<1>3. ASSUME NEW a \in Apps, Resend(a) PROVE SentInv'
  BY <1>0, <1>3 DEF SentInv, Resend, At
<1>4. ASSUME NEW j \in Jobs, NEW req \in requests, Receive(j, req) PROVE SentInv'
  BY <1>0, <1>4 DEF SentInv, Receive, Goes, At
<1>5. ASSUME NEW j \in Jobs, AddKernel(j) PROVE SentInv'
  BY <1>0, <1>5, AddKernelFacts DEF SentInv, At, driver
<1>6. ASSUME NEW j \in Jobs, JobSelect(j) PROVE SentInv'
  BY <1>0, <1>6 DEF SentInv, JobSelect, Goes, At, driver
<1>7. ASSUME NEW j \in Jobs, Reply(j) PROVE SentInv'
  <2>1. job[j].req \in Requests
    BY <1>7, JobFacts DEF Reply, Answer, At
  <2>. QED  BY <1>0, <1>7, <2>1 DEF SentInv, Reply, Answer, Goes, At, NONE, Requests
<1>. QED
  BY <1>1, <1>2, <1>3, <1>4, <1>5, <1>6, <1>7
     DEF Next, JobStep, GuiStep, RunKernel, GiveMutex, Attach, RunEnds, TakeMutex, GetStuck,
         Choose, vars

-----------------------------------------------------------------------------
LEMMA ListedStep == ASSUME TypeOK, SizeInv, ListedInv, [Next]_vars PROVE ListedInv'
<1>0. /\ job \in [Jobs -> JobStates]
      /\ programs \in Seq(Nat) /\ list \in Seq(Nat)
      /\ DOMAIN programs = 1 .. Len(programs) /\ DOMAIN list = 1 .. Len(list)
      /\ Len(programs) \in Nat /\ Len(list) \in Nat
      /\ DOMAIN list \subseteq DOMAIN programs
  BY LenProperties DEF TypeOK, SizeInv
<1>a. ASSUME ~raced PROVE ToSet(list) \subseteq ToSet(programs)
  BY <1>0, <1>a DEF ListedInv, ToSet
<1>1. ASSUME UNCHANGED <<completed, job, programs, list, raced>> PROVE ListedInv'
  BY <1>1 DEF ListedInv, At
<1>2. ASSUME NEW j \in Jobs, NEW req \in requests, Receive(j, req) PROVE ListedInv'
  <2>1. UNCHANGED <<completed, programs, list, raced>>
    BY <1>2 DEF Receive, display
  <2>2. \A i \in Jobs : job'[i] = job[i] \/ job'[i].pc = "append"
    BY <1>0, <1>2 DEF Receive, Goes
  <2>3. \A i \in Jobs : /\ At(i, "select")' => At(i, "select") /\ job'[i] = job[i]
                        /\ At(i, "send")' => At(i, "send") /\ job'[i] = job[i]
    BY <2>2 DEF At
  <2>. QED  BY <2>1, <2>3 DEF ListedInv
<1>3. ASSUME NEW j \in Jobs, AddKernel(j) PROVE ListedInv'
  <2>. SUFFICES ASSUME ~raced' PROVE ListedInv'
    BY DEF ListedInv
  <2>1. job[j].req.kernel \in Nat
    BY <1>3, JobFacts DEF AddKernel, At, Requests
  <2>2. /\ programs' = Append(programs, job[j].req.kernel) /\ ~raced
        /\ job' = [job EXCEPT ![j] = [pc |-> "select", req |-> job[j].req, idx |-> currentKernelIdx]]
        /\ UNCHANGED <<completed, list>>
    BY <1>3, AddKernelFacts DEF driver, display
  <2>3. /\ ToSet(programs') = ToSet(programs) \cup {job[j].req.kernel}
        /\ \A i \in DOMAIN programs : programs'[i] = programs[i]
    BY <1>0, <2>1, <2>2, AppendFacts
  <2>. QED  BY <1>0, <2>2, <2>3 DEF ListedInv, At
<1>4. ASSUME NEW j \in Jobs, JobSelect(j) PROVE ListedInv'
  <2>. SUFFICES ASSUME ~raced' PROVE ListedInv'
    BY DEF ListedInv
  <2>1. job[j].idx \in Nat /\ job[j].idx <= Len(programs)
    BY <1>4, JobFacts DEF JobSelect, At, SizeInv
  <2>2. list' = programs /\ ~raced
    BY <1>4, <2>1, SelectKernelFacts DEF JobSelect
  <2>. QED  BY <1>0, <1>4, <1>a, <2>2 DEF ListedInv, JobSelect, Goes, At, driver
<1>5. ASSUME NEW j \in Jobs, Reply(j) PROVE ListedInv'
  <2>1. UNCHANGED <<programs, list, raced>> /\ job[j].pc = "send"
        /\ completed' \subseteq completed \cup {job[j].req.kernel}
    BY <1>5 DEF Reply, Answer, display
  <2>2. \A i \in Jobs : job'[i] = job[i] \/ job'[i].pc = "receive"
    BY <1>0, <1>5 DEF Reply, Goes
  <2>3. \A i \in Jobs : /\ At(i, "select")' => At(i, "select") /\ job'[i] = job[i]
                        /\ At(i, "send")' => At(i, "send") /\ job'[i] = job[i]
    BY <2>2 DEF At
  <2>. QED  BY <2>1, <2>3 DEF ListedInv, At
<1>6. ASSUME NEW i \in DOMAIN list, Choose(i) PROVE ListedInv'
  <2>. SUFFICES ASSUME ~raced' PROVE ListedInv'
    BY DEF ListedInv
  <2>1. ~raced /\ (list' = list \/ list' = programs)
    BY <1>0, <1>6, SelectKernelFacts DEF Choose
  <2>. QED  BY <1>0, <1>6, <1>a, <2>1 DEF ListedInv, Choose, At, driver
<1>7. ASSUME RunKernel PROVE ListedInv'
  <2>1. UNCHANGED <<completed, job, programs, list>> /\ (raced => raced')
    BY <1>7 DEF RunKernel, driver, display
  <2>. QED  BY <2>1 DEF ListedInv, At
<1>. QED
  BY <1>1, <1>2, <1>3, <1>4, <1>5, <1>6, <1>7
     DEF Next, JobStep, GuiStep, SendKernel, Resend, GiveMutex, Attach, RunEnds,
         TakeMutex, GetStuck, vars, driver, display

LEMMA OnceStep == ASSUME TypeOK, SizeInv, SentInv, OnceInv, [Next]_vars PROVE OnceInv'
<1>0. /\ job \in [Jobs -> JobStates] /\ requests \subseteq Requests
      /\ programs \in Seq(Nat) /\ Len(programs) \in Nat /\ DOMAIN programs = 1 .. Len(programs)
      /\ sent \in Nat /\ resends \in Nat
  BY LenProperties DEF TypeOK
<1>1. ASSUME UNCHANGED <<requests, resends, job, programs, raced>> PROVE OnceInv'
  BY <1>1 DEF OnceInv, At
<1>2. ASSUME NEW a \in Apps, SendKernel(a) PROVE OnceInv'
  <2>1. /\ \A r \in requests : r.kernel # sent'
        /\ \A j \in Jobs : At(j, "append") => job[j].req.kernel # sent'
        /\ sent' \notin ToSet(programs)
    <3>1. \A r \in requests : r.kernel \in Nat /\ r.kernel <= sent
      BY <1>0 DEF SentInv, Requests
    <3>2. \A j \in Jobs : At(j, "append") => job[j].req.kernel \in Nat /\ job[j].req.kernel <= sent
      BY JobFacts DEF SentInv, At, Requests
    <3>3. \A i \in DOMAIN programs : programs[i] \in Nat /\ programs[i] <= sent
      BY <1>0, ElementOfSeq DEF SentInv
    <3>. QED  BY <1>0, <1>2, <3>1, <3>2, <3>3 DEF SendKernel, ToSet
  <2>2. /\ requests' = requests \cup {[app |-> a, kernel |-> sent', copy |-> 0]}
        /\ UNCHANGED <<resends, job, programs, raced>>
    BY <1>2 DEF SendKernel
  <2>. QED  BY <2>1, <2>2 DEF OnceInv, At
<1>3. ASSUME NEW a \in Apps, Resend(a) PROVE OnceInv'
  BY <1>0, <1>3 DEF OnceInv, Resend
<1>4. ASSUME NEW j \in Jobs, NEW req \in requests, Receive(j, req) PROVE OnceInv'
  BY <1>0, <1>4 DEF OnceInv, Receive, Goes, At
<1>5. ASSUME NEW j \in Jobs, AddKernel(j) PROVE OnceInv'
  <2>. SUFFICES ASSUME ~raced', resends' = 0 PROVE OnceInv'
    BY DEF OnceInv
  <2>1. job[j].req.kernel \in Nat
    BY <1>5, JobFacts DEF AddKernel, At, Requests
  <2>2. /\ programs' = Append(programs, job[j].req.kernel) /\ ~raced /\ resends = 0
        /\ job' = [job EXCEPT ![j] = [pc |-> "select", req |-> job[j].req, idx |-> currentKernelIdx]]
        /\ UNCHANGED requests /\ At(j, "append")
    BY <1>5, AddKernelFacts DEF driver
  <2>3. /\ ToSet(programs') = ToSet(programs) \cup {job[j].req.kernel}
        /\ DOMAIN programs' = 1 .. Len(programs) + 1
        /\ \A i \in DOMAIN programs : programs'[i] = programs[i]
        /\ programs'[Len(programs) + 1] = job[j].req.kernel
    BY <1>0, <2>1, <2>2, AppendFacts
  <2>4. IsInjective(programs')
    <3>1. \A i \in DOMAIN programs : programs[i] # job[j].req.kernel
      BY <2>2 DEF OnceInv, ToSet
    <3>2. \A i \in DOMAIN programs' : i \in DOMAIN programs \/ i = Len(programs) + 1
      BY <1>0, <2>3
    <3>. QED  BY <2>2, <2>3, <3>1, <3>2 DEF OnceInv, IsInjective
  <2>. QED  BY <1>0, <2>2, <2>3, <2>4 DEF OnceInv, At
<1>6. ASSUME NEW j \in Jobs, JobSelect(j) PROVE OnceInv'
  <2>1. raced => raced'
    BY <1>6 DEF JobSelect, SelectKernel
  <2>. QED  BY <1>0, <1>6, <2>1 DEF OnceInv, JobSelect, Goes, At, driver
<1>7. ASSUME NEW j \in Jobs, Reply(j) PROVE OnceInv'
  BY <1>0, <1>7 DEF OnceInv, Reply, Answer, Goes, At
<1>8. ASSUME NEW i \in DOMAIN list, Choose(i) PROVE OnceInv'
  <2>1. raced => raced'
    BY <1>8 DEF Choose, SelectKernel
  <2>. QED  BY <1>8, <2>1 DEF OnceInv, Choose, At, driver
<1>9. ASSUME RunKernel PROVE OnceInv'
  <2>1. UNCHANGED <<requests, resends, job, programs>> /\ (raced => raced')
    BY <1>9 DEF RunKernel, driver
  <2>. QED  BY <2>1 DEF OnceInv, At
<1>. QED
  BY <1>1, <1>2, <1>3, <1>4, <1>5, <1>6, <1>7, <1>8, <1>9
     DEF Next, JobStep, GuiStep, GiveMutex, Attach, RunEnds, TakeMutex, GetStuck,
         vars, driver

-----------------------------------------------------------------------------
LEMMA ChosenStep ==
  ASSUME Inv, [Next]_vars PROVE ChosenInv'
<1>. USE DEF NONE
<1>0. /\ job \in [Jobs -> JobStates]
      /\ programs \in Seq(Nat) /\ list \in Seq(Nat)
      /\ DOMAIN programs = 1 .. Len(programs) /\ DOMAIN list = 1 .. Len(list)
      /\ Len(programs) \in Nat /\ Len(list) \in Nat /\ currentKernelIdx \in Nat
      /\ currentKernelIdx <= Len(list) /\ Len(list) <= Len(programs)
      /\ sent \in Nat /\ requests \subseteq Requests
  BY LenProperties DEF Inv, TypeOK, SizeInv
<1>a. ASSUME ~raced PROVE \A i \in DOMAIN list : i \in DOMAIN programs /\ programs[i] = list[i]
  BY <1>0, <1>a DEF Inv, ListedInv
<1>1. ASSUME UNCHANGED <<job, display, user, crashed, raced>>, sent' \in {sent, sent + 1}
      PROVE  ChosenInv'
  <2>1. ASSUME NEW k \in Refused, k <= sent PROVE k <= sent'
    BY <1>0, <1>1, <2>1, IntakeAssumption
  <2>. QED  BY <1>1, <2>1 DEF Inv, ChosenInv, At, display, user
<1>2. ASSUME NEW j \in Jobs, NEW req \in requests, Receive(j, req) PROVE ChosenInv'
  <2>1. crashed' /\ ~crashed => \E k \in Refused : k <= sent
    BY <1>2 DEF Receive, Inv, SentInv
  <2>2. ASSUME NEW i \in Jobs, job'[i].pc = "select" PROVE At(i, "select") /\ job'[i] = job[i]
    BY <1>0, <1>2, <2>2 DEF Receive, Goes, At
  <2>3. UNCHANGED <<sent, currentKernelIdx, list, gui, running, chosen, crossed, raced>>
    BY <1>2 DEF Receive, display, user
  <2>. QED  BY <2>1, <2>2, <2>3 DEF Inv, ChosenInv, At
<1>3. ASSUME NEW j \in Jobs, AddKernel(j) PROVE ChosenInv'
  <2>1. /\ job' = [job EXCEPT ![j] = [pc |-> "select", req |-> job[j].req, idx |-> currentKernelIdx]]
        /\ ~raced' => ~raced /\ UNCHANGED crashed
        /\ UNCHANGED <<driver, display, user>>
    BY <1>3, AddKernelFacts DEF Inv
  <2>2. UNCHANGED <<sent, currentKernelIdx, list, gui, running, chosen, crossed>>
    BY <2>1 DEF driver, display, user
  <2>. QED  BY <1>0, <2>1, <2>2 DEF Inv, ChosenInv, At
<1>4. ASSUME NEW j \in Jobs, JobSelect(j) PROVE ChosenInv'
  <2>. SUFFICES ASSUME ~crossed' PROVE ChosenInv'
    BY DEF ChosenInv
  <2>1. ~crossed /\ UNCHANGED <<sent, programs, gui, running, chosen, crossed>>
    BY <1>4 DEF JobSelect, driver, user
  <2>2. job[j].idx = currentKernelIdx
    BY <1>4, <2>1 DEF JobSelect, Inv, ChosenInv, At
  <2>3. /\ currentKernelIdx' = currentKernelIdx /\ list' = programs
        /\ ~raced' => ~raced /\ ~crashed'
    <3>1. SelectKernel(currentKernelIdx)
      BY <1>4, <2>2 DEF JobSelect
    <3>. QED  BY <1>0, <3>1, SelectKernelFacts DEF Inv
  <2>4. \A i \in Jobs : job'[i].pc = "select" => At(i, "select") /\ job'[i] = job[i]
    BY <1>0, <1>4 DEF JobSelect, Goes, At
  <2>5. ~raced' /\ currentKernelIdx # NONE => list'[currentKernelIdx] = chosen
    BY <1>0, <1>a, <2>1, <2>3 DEF Inv, ChosenInv
  <2>. QED  BY <2>1, <2>3, <2>4, <2>5 DEF Inv, ChosenInv, At
<1>5. ASSUME NEW j \in Jobs, Reply(j) PROVE ChosenInv'
  <2>1. \A i \in Jobs : job'[i].pc = "select" => At(i, "select") /\ job'[i] = job[i]
    BY <1>0, <1>5 DEF Reply, Goes, At
  <2>2. UNCHANGED <<sent, currentKernelIdx, list, gui, running, chosen, crossed, crashed, raced>>
    BY <1>5 DEF Reply, Answer, display, user
  <2>. QED  BY <2>1, <2>2 DEF Inv, ChosenInv, At
<1>6. ASSUME NEW i \in DOMAIN list, Choose(i), ~crashed PROVE ChosenInv'
  <2>. SUFFICES ASSUME ~crossed' PROVE ChosenInv'
    BY DEF ChosenInv
  <2>1. /\ \A j \in Jobs : At(j, "select") => job[j].idx = i
        /\ gui = "idle" /\ running = NONE /\ chosen' = list[i]
        /\ UNCHANGED <<sent, job, programs, gui, running>>
    BY <1>6 DEF Choose, Click, At, driver
  <2>2. /\ currentKernelIdx' = i
        /\ ~raced' => ~raced /\ ~crashed' /\ list'[i] = list[i]
    <3>1. CASE i = currentKernelIdx
      BY <1>6, <3>1 DEF Choose
    <3>2. CASE i # currentKernelIdx
      <4>1. SelectKernel(i)
        BY <1>6, <3>2 DEF Choose
      <4>. QED  BY <1>0, <1>a, <4>1, SelectKernelFacts DEF Inv
    <3>. QED  BY <3>1, <3>2
  <2>. QED  BY <2>1, <2>2 DEF ChosenInv, At
<1>7. ASSUME RunKernel, ~crashed PROVE ChosenInv'
  <2>1. /\ UNCHANGED <<sent, job, programs, currentKernelIdx, list, chosen, crossed>>
        /\ gui' = "idle"
        /\ ~raced' => ~raced /\ ~Overlaps
    BY <1>7 DEF RunKernel, driver, display
  <2>2. ~crossed => currentKernelIdx \in DOMAIN programs
    BY <1>0, <1>7 DEF RunKernel, Inv, ChosenInv
  <2>3. ~crossed /\ ~raced' => ~crashed' /\ running' = programs[currentKernelIdx]
    BY <1>7, <2>1, <2>2 DEF RunKernel
  <2>4. ~crossed /\ ~raced => programs[currentKernelIdx] = chosen
    <3>. SUFFICES ASSUME ~crossed, ~raced PROVE programs[currentKernelIdx] = chosen
      OBVIOUS
    <3>1. currentKernelIdx # NONE
      BY <1>7 DEF RunKernel, Inv, ChosenInv
    <3>2. list[currentKernelIdx] = chosen
      BY <3>1 DEF Inv, ChosenInv
    <3>3. currentKernelIdx \in DOMAIN list
      BY <1>0, <3>1
    <3>4. programs[currentKernelIdx] = list[currentKernelIdx]
      BY <1>a, <3>3
    <3>. QED  BY ONLY <3>2, <3>4
  <2>5. ~crossed => currentKernelIdx # NONE
    BY <1>7 DEF RunKernel, Inv, ChosenInv
  <2>. QED  BY <2>1, <2>3, <2>4, <2>5 DEF Inv, ChosenInv, At
<1>8. ASSUME GiveMutex \/ Attach \/ RunEnds \/ TakeMutex \/ GetStuck PROVE ChosenInv'
  <2>1. /\ UNCHANGED <<sent, job, currentKernelIdx, list, chosen, crossed, crashed, raced>>
        /\ running' \in {running, NONE} /\ (gui' = "attach" => currentKernelIdx # NONE)
    BY <1>8 DEF GiveMutex, Attach, RunEnds, TakeMutex, GetStuck, driver, display, Inv, ChosenInv
  <2>. QED  BY <2>1 DEF Inv, ChosenInv, At
<1>9. CASE UNCHANGED vars
  BY <1>0, <1>1, <1>9 DEF vars, driver
<1>. QED
  BY <1>0, <1>1, <1>2, <1>3, <1>4, <1>5, <1>6, <1>7, <1>8, <1>9
     DEF Next, JobStep, GuiStep, SendKernel, Resend

-----------------------------------------------------------------------------
LEMMA Invariance == Spec => []Inv
<1>1. Inv /\ [Next]_vars => Inv'
  BY TypeStep, SizeStep, SentStep, ListedStep, OnceStep, ChosenStep DEF Inv
<1>. QED  BY InitInv, <1>1, PTL DEF Spec

(* Each variable keeps its type, whatever is sent, chosen and run.         *)
THEOREM TypeCorrect == Spec => []TypeOK
<1>. QED  BY Invariance, PTL DEF Inv

(* A kernel whose command is complete is in the list, and the list is what *)
(* the debugger has, without doublets when nothing was sent again, unless  *)
(* a use of programs overlapped an append to it.                           *)
THEOREM KernelsCorrect == Spec => []KernelsAccounted
<1>1. ASSUME Inv PROVE KernelsAccounted
  <2>1. ~raced => IsPrefix(list, programs)
    <3>. SUFFICES ASSUME ~raced PROVE IsPrefix(list, programs)
      OBVIOUS
    <3>1. /\ list \in Seq(Nat) /\ programs \in Seq(Nat)
          /\ Len(list) \in Nat /\ Len(programs) \in Nat /\ Len(list) <= Len(programs)
          /\ \A i \in 1 .. Len(list) : list[i] = programs[i]
      BY <1>1, LenProperties DEF Inv, TypeOK, SizeInv, ListedInv
    <3>2. SubSeq(list, 1, Len(list)) = SubSeq(programs, 1, Len(list))
      BY <3>1
    <3>. QED  BY <3>1, <3>2 DEF IsPrefix
  <2>. QED  BY <1>1, <2>1 DEF Inv, ListedInv, OnceInv, KernelsAccounted
<1>. QED  BY <1>1, Invariance, PTL

(* What runs is what the user chose and sees marked, and only a malformed  *)
(* kernel ends the debugger, unless a selection crossed with a job's, or a *)
(* use of programs, that of runKernel among them, overlapped an append.    *)
THEOREM ChoiceCorrect == Spec => []RunsWhatUserChose
<1>1. ASSUME Inv PROVE RunsWhatUserChose
  BY <1>1 DEF Inv, SizeInv, ChosenInv, RunsWhatUserChose
<1>. QED  BY <1>1, Invariance, PTL
=============================================================================
