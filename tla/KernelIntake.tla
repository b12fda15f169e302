---------------------------- MODULE KernelIntake ----------------------------
(***************************************************************************)
(* How a kernel gets from the driver into the debugger and is chosen       *)
(* there: KernelExecutionCommand and IPCWrapper on the side of the         *)
(* application, the jobs of common/ipc/IpcServer on threads of nng,        *)
(* Debugger::addKernel and selectKernel, and the GUI thread, in which the  *)
(* user selects and runs kernels.  What a run does is in DebugSession and  *)
(* KernelRun.                                                              *)
(*                                                                         *)
(* programs is a vector that the jobs append to without the mutex of the   *)
(* Debugger.  emplace_back is two steps, and undefined when it overlaps    *)
(* another use: then an element is lost, or the debugger crashes.          *)
(***************************************************************************)
EXTENDS Integers, SequencesExt, FiniteSets

CONSTANTS
  Apps,        (* processes that have linked the driver                    *)
  Jobs,        (* IpcServer::jobs, five in the code                        *)
  Refused,     (* kernels whose text the parser throws an exception at     *)
  MaxKernels,  (* bound: kernels sent, named by the numbers 1 .. MaxKernels *)
  MaxClicks,   (* bound: actions of the user                               *)
  MaxResends   (* bound: requests nng sends again                          *)

ASSUME IntakeAssumption ==
  /\ MaxKernels \in Nat /\ MaxClicks \in Nat /\ MaxResends \in Nat
  /\ Refused \subseteq 1 .. MaxKernels

NONE == 0   (* KERNEL_SELECT_NONE; indices begin with 1 here               *)

VARIABLES
  waiting,          (* the kernel an application waits for the reply to    *)
  sent, completed,  (* kernels sent; those whose command has completed     *)
  requests,         (* on their way: app, kernel, and which copy it is     *)
  resends,          (* how many were sent again                            *)
  job,              (* pc; req, the request; at, its place in programs;    *)
                    (* idx, the argument of selectKernel                   *)
  programs,         (* Debugger::programs                                  *)
  currentKernelIdx, (* Debugger::currentKernelIdx                          *)
  list, marked,     (* the list box: its kernels and the selected one      *)
  gui,              (* "idle"; "attach" inside of runKernel; "holds" while *)
                    (* a handler that has the mutex writes to a channel;   *)
                    (* "stuck" when that never ends, see DebugSession      *)
  running,          (* the kernel under execution, or NONE                 *)
  clicks,
  crashed,          (* the debugger is gone                                *)
  chosen,           (* history: the kernel the user selected last          *)
  crossed,          (* history: selected while a job was about to select   *)
  raced             (* history: two uses of programs overlapped            *)

driver == <<waiting, sent, completed, requests, resends>>
display == <<currentKernelIdx, list, marked>>
user == <<gui, running, clicks, chosen, crossed>>
vars == <<driver, job, programs, display, user, crashed, raced>>

Init ==
  /\ waiting = [a \in Apps |-> NONE] /\ sent = 0 /\ completed = {}
  /\ requests = {} /\ resends = 0
  /\ job = [j \in Jobs |-> [pc |-> "receive"]]
  /\ programs = <<>> /\ currentKernelIdx = NONE /\ list = <<>> /\ marked = NONE
  /\ gui = "idle" /\ running = NONE /\ clicks = 0
  /\ crashed = FALSE
  /\ chosen = NONE /\ crossed = FALSE /\ raced = FALSE

-----------------------------------------------------------------------------
(* The driver.  sendKernelForExecution waits for the reply, and the        *)
(* command is complete when it returns.                                    *)
SendKernel(a) ==
  /\ waiting[a] = NONE /\ sent < MaxKernels
  /\ sent' = sent + 1
  /\ waiting' = [waiting EXCEPT ![a] = sent']
  /\ requests' = requests \cup {[app |-> a, kernel |-> sent', copy |-> 0]}
  /\ UNCHANGED <<completed, resends, job, programs, display, user, crashed, raced>>

(* A req socket of nng sends a request once more when no reply has come in *)
(* a minute; the code does not change that.                                *)
Resend(a) ==
  /\ waiting[a] # NONE /\ resends < MaxResends
  /\ resends' = resends + 1
  /\ requests' = requests \cup {[app |-> a, kernel |-> waiting[a], copy |-> resends']}
  /\ UNCHANGED <<waiting, sent, completed, job, programs, display, user, crashed, raced>>

-----------------------------------------------------------------------------
(* The jobs.  Receive is socketHandler's case RECEIVE up to addKernel; an  *)
(* exception of the parser leaves a callback of nng and ends the process.  *)
Goes(j, r) == job' = [job EXCEPT ![j] = r]

Receive(j, req) ==
  /\ job[j].pc = "receive"
  /\ requests' = requests \ {req}
  /\ IF req.kernel \in Refused
     THEN crashed' = TRUE /\ UNCHANGED job
     ELSE Goes(j, [pc |-> "append", req |-> req, at |-> Len(programs) + 1]) /\ UNCHANGED crashed
  /\ UNCHANGED <<waiting, sent, completed, resends, programs, display, user, raced>>

(* MUTANT: the new kernel is selected. *)
AddAndSelect(j) ==
  /\ job[j].pc = "append"
  /\ programs' = Append(programs, job[j].req.kernel)
  /\ Goes(j, [pc |-> "select", req |-> job[j].req, idx |-> Len(programs')])
  /\ UNCHANGED <<driver, display, user, crashed, raced>>

(* addKernel: emplace_back ends, and currentKernelIdx is read, the         *)
(* argument for selectKernel.                                              *)
AddKernel(j) ==
  /\ job[j].pc = "append"
  /\ Goes(j, [pc |-> "select", req |-> job[j].req, idx |-> currentKernelIdx])
  /\ IF job[j].at = Len(programs) + 1
     THEN programs' = Append(programs, job[j].req.kernel) /\ UNCHANGED <<crashed, raced>>
     ELSE /\ raced' = TRUE
          /\ \/ crashed' = TRUE /\ UNCHANGED programs
             \/ programs' = [programs EXCEPT ![job[j].at] = job[j].req.kernel] /\ UNCHANGED crashed
  /\ UNCHANGED <<driver, display, user>>

(* MUTANT: returns without a selection before it has told the list. *)
SelectKernelEarly(idx) ==
  /\ currentKernelIdx' = idx
  /\ IF idx = NONE THEN UNCHANGED <<list, marked>> ELSE list' = programs /\ marked' = idx
  /\ UNCHANGED <<crashed, raced>>

(* A job is appending while somebody else uses programs. *)
Overlaps == \E j \in Jobs : job[j].pc = "append"

(* selectKernel, with the mutex.  It walks over programs, which a job may  *)
(* be appending to; programs[idx] may have been lost by such an overlap.   *)
SelectKernel(idx) ==
  /\ currentKernelIdx' = idx /\ list' = programs /\ marked' = idx
  /\ raced' = (raced \/ Overlaps)
  /\ crashed' \in (IF Overlaps \/ idx > Len(programs) THEN BOOLEAN ELSE {FALSE})

JobSelect(j) ==
  /\ job[j].pc = "select" /\ gui \notin {"holds", "stuck"}
  /\ SelectKernel(job[j].idx)
  /\ Goes(j, [pc |-> "send", req |-> job[j].req])
  /\ UNCHANGED <<driver, programs, user>>

(* ctx.send, and the case SEND of socketHandler, which waits for nothing.  *)
(* A reply to a request that has been answered is dropped.                 *)
Answer(j) ==
  LET req == job[j].req
  IN /\ job[j].pc = "send"
     /\ IF waiting[req.app] = req.kernel
        THEN /\ waiting' = [waiting EXCEPT ![req.app] = NONE]
             /\ completed' = completed \cup {req.kernel}
        ELSE UNCHANGED <<waiting, completed>>
     /\ UNCHANGED <<sent, requests, resends, programs, display, user, crashed, raced>>

(* MUTANT: nothing is received after a reply. *)
ReplyOnce(j) == Answer(j) /\ Goes(j, [pc |-> "sent"])

Reply(j) == Answer(j) /\ Goes(j, [pc |-> "receive"])

-----------------------------------------------------------------------------
(* The GUI thread.  The list is disabled while a kernel runs.              *)
Click == gui = "idle" /\ clicks < MaxClicks /\ clicks' = clicks + 1

Choose(i) ==
  /\ Click /\ running = NONE
  /\ chosen' = list[i]
  /\ crossed' = (crossed \/ \E j \in Jobs : job[j].pc = "select" /\ job[j].idx # i)
  /\ IF i = currentKernelIdx THEN marked' = i /\ UNCHANGED <<currentKernelIdx, list, crashed, raced>>
     ELSE SelectKernel(i)
  /\ UNCHANGED <<driver, job, programs, gui, running>>

(* onAttach up to the second look at currentKernelIdx in runKernel; the    *)
(* thread of the previous run is joined after it.                          *)
Attach ==
  /\ Click /\ running = NONE /\ currentKernelIdx # NONE
  /\ gui' = "attach"
  /\ UNCHANGED <<driver, job, programs, display, running, chosen, crossed, crashed, raced>>

(* The end of runKernel, without the mutex: it copies an element out of    *)
(* programs, which a job may be appending to.  programs[-1] is undefined.  *)
RunKernel ==
  /\ gui = "attach"
  /\ gui' = "idle"
  /\ raced' = (raced \/ Overlaps)
  /\ IF currentKernelIdx \in DOMAIN programs
     THEN \/ running' = programs[currentKernelIdx] /\ UNCHANGED crashed
          \/ Overlaps /\ crashed' = TRUE /\ UNCHANGED running
     ELSE crashed' = TRUE /\ UNCHANGED running
  /\ UNCHANGED <<driver, job, programs, display, clicks, chosen, crossed>>

(* The UI shows that the run has ended. *)
RunEnds ==
  /\ running # NONE /\ gui = "idle"
  /\ running' = NONE
  /\ UNCHANGED <<driver, job, programs, display, gui, clicks, chosen, crossed, crashed, raced>>

(* A breakpoint or a context: the handler has the mutex while it writes.   *)
TakeMutex ==
  /\ Click /\ gui' = "holds"
  /\ UNCHANGED <<driver, job, programs, display, running, chosen, crossed, crashed, raced>>

GiveMutex ==
  /\ gui = "holds" /\ gui' = "idle"
  /\ UNCHANGED <<driver, job, programs, display, running, clicks, chosen, crossed, crashed, raced>>

GetStuck ==
  /\ gui = "holds" /\ running # NONE /\ gui' = "stuck"
  /\ UNCHANGED <<driver, job, programs, display, running, clicks, chosen, crossed, crashed, raced>>

-----------------------------------------------------------------------------
JobStep(j) ==
  \/ \E req \in requests : Receive(j, req)
  \/ AddKernel(j) \/ JobSelect(j) \/ Reply(j)

GuiStep == RunKernel \/ GiveMutex

Next ==
  /\ ~crashed
  /\ \/ \E a \in Apps : SendKernel(a) \/ Resend(a)
     \/ \E j \in Jobs : JobStep(j)
     \/ GuiStep \/ Attach \/ RunEnds \/ TakeMutex \/ GetStuck
     \/ \E i \in DOMAIN list : Choose(i)

Spec == Init /\ [][Next]_vars

(* The jobs and the handlers of the GUI thread run on; neither the user    *)
(* nor an application has to do anything.                                  *)
FairSpec ==
  /\ Spec
  /\ \A j \in Jobs : WF_vars(~crashed /\ JobStep(j))
  /\ WF_vars(~crashed /\ GuiStep)

-----------------------------------------------------------------------------
(* When the command of a kernel is complete, the kernel is in the list the *)
(* user sees, once if nng sent its request once.  The exception: a use of  *)
(* programs that overlaps an append, which may lose a kernel.              *)
KernelsAccounted ==
  ~raced /\ ~crashed =>
    /\ completed \subseteq ToSet(list)
    /\ IsPrefix(list, programs)
    /\ resends = 0 => IsInjective(programs)

(* What runs is the kernel the user selected, and it is the one marked in  *)
(* the list.  The exceptions: a selection made while a job was about to    *)
(* repeat the one before it (addKernel reads the index without the mutex), *)
(* and a use of programs, by runKernel too, that overlaps an append.       *)
RunsWhatUserChose ==
  ~crossed /\ ~raced =>
    /\ running # NONE => running = chosen /\ list[marked] = chosen
    /\ crashed => \E k \in Refused : k <= sent

(* Whatever is sent, all of it is answered in the end, unless the debugger *)
(* crashes or its GUI thread is stuck with the mutex.                      *)
RequestsAnswered == []<>(1 .. sent \subseteq completed \/ crashed \/ gui = "stuck")

=============================================================================
