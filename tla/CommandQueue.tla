---------------------------- MODULE CommandQueue ----------------------------
(***************************************************************************)
(* driver/src/runtime: one OpenCL command queue of the driver, its         *)
(* commands and their events (CLCommandQueue, Command, CLEvent and the API *)
(* functions on them), used by a single-threaded application.              *)
(*                                                                         *)
(* Nothing runs in the background: a command is executed inside clFlush,   *)
(* clFinish, clReleaseCommandQueue, clWaitForEvents, or inside the release *)
(* of the last reference to an event.  An event callback runs application  *)
(* code in the middle of that, and the application may call the driver     *)
(* again, so the call stack is part of the state.                          *)
(*                                                                         *)
(* A command and its event have the same name.  User events do not occur:  *)
(* the constructor that clCreateUserEvent calls dereferences the null      *)
(* command (CLEvent.cpp:14).                                               *)
(***************************************************************************)
EXTENDS Naturals, Sequences, FiniteSets, SequencesExt

CONSTANTS
  Commands,       (* the commands that may be enqueued, each once           *)
  CallbackTypes,  (* the statuses for which callbacks may be registered     *)
  Usages,         (* how the application uses the API, see Usage            *)
  MaxWaitList,    (* bound: length of an event wait list                    *)
  MaxAppRefs      (* bound: references the application holds on one object  *)

Statuses == {"submitted", "running", "complete"}
CallbackOps ==
  {"enqueue", "flush", "retain", "releaseEvent", "setCallback", "releaseQueue"}

(* wait:       the application calls clWaitForEvents                       *)
(* inCallback: what it does inside event callbacks                         *)
(* hold:       it does not give up an event that a wait list still names   *)
(* orderLists: it passes wait lists to an in-order queue                   *)
Usage == [wait : BOOLEAN, inCallback : SUBSET CallbackOps, hold : BOOLEAN,
          orderLists : BOOLEAN]

ASSUME QueueAssumption ==
  /\ IsFiniteSet(Commands)
  /\ CallbackTypes \subseteq Statuses
  /\ Usages \subseteq Usage
  /\ MaxWaitList \in Nat
  /\ MaxAppRefs \in Nat \ {0}

VARIABLES
  usage,       (* the application's habits, fixed in Init *)
  outOfOrder,  (* CL_QUEUE_OUT_OF_ORDER_EXEC_MODE_ENABLE *)
  commands,    (* CLCommandQueue::commands *)
  flushing,    (* CLCommandQueue::flushInProcess *)
  queueRefs,   (* CLCommandQueue::referenceCount; 0 once deleted *)
  alive,       (* the Command objects that are allocated *)
  waitList,    (* Command::waitList, the top of the stack last *)
  status,      (* CLEvent::mCommandExecutionStatus *)
  eventRefs,   (* CLEvent::referenceCount; 0 once deleted *)
  hasCommand,  (* CLEvent::command is not null *)
  callbacks,   (* the statuses in CLEvent::mCallbacks *)
  stack,       (* the driver's call stack, innermost call first *)
  appEvent,    (* references the application holds on each event *)
  appQueue,    (* references the application holds on the queue *)
  enqueued,    (* history: the commands in the order of their enqueueing *)
  deps,        (* history: the wait list each command was enqueued with *)
  unasked,     (* history: the commands enqueued with a null event pointer *)
  ran          (* history: how often executeImpl ran *)

queueVars == <<commands, flushing, queueRefs>>
eventVars == <<status, eventRefs, hasCommand, callbacks>>
commandVars == <<alive, waitList>>
appVars == <<appEvent, appQueue>>
history == <<enqueued, deps, unasked, ran>>
fixed == <<usage, outOfOrder>>
vars == <<fixed, queueVars, eventVars, commandVars, appVars, history, stack>>

-----------------------------------------------------------------------------
(* The call stack. *)

FlushFrame == [fn |-> "flush", done |-> <<>>]
ReleaseFrame == [fn |-> "release"]
CallbackFrame == [fn |-> "callback"]
ExecFrame(c) == [fn |-> "exec", c |-> c, pc |-> "start", dep |-> c]

Top == stack[1]
Below == Tail(stack)
Push(f, s) == <<f>> \o s

InExec(pc) == stack # <<>> /\ Top.fn = "exec" /\ Top.pc = pc
InFlush == stack # <<>> /\ Top.fn = "flush"
ExecAt(pc) == Push([Top EXCEPT !.pc = pc], Below)

Init ==
  /\ usage \in Usages
  /\ outOfOrder \in BOOLEAN
  /\ commands = <<>>
  /\ flushing = FALSE
  /\ queueRefs = 1
  /\ alive = {}
  /\ waitList = [c \in Commands |-> <<>>]
  /\ status = [c \in Commands |-> "none"]
  /\ eventRefs = [c \in Commands |-> 0]
  /\ hasCommand = [c \in Commands |-> FALSE]
  /\ callbacks = [c \in Commands |-> {}]
  /\ stack = <<>>
  /\ appEvent = [c \in Commands |-> 0]
  /\ appQueue = 1
  /\ enqueued = <<>>
  /\ deps = [c \in Commands |-> <<>>]
  /\ unasked = {}
  /\ ran = [c \in Commands |-> 0]

-----------------------------------------------------------------------------
(* Calls inside the driver, as conditions on the stack, the flag and the   *)
(* reference counts; `rest` is the stack to return to.                     *)

(* MUTANT: a flush inside of a callback does not look whether one is in    *)
(* process.                                                                *)
FlushInside(rest) ==
  stack' = Push(FlushFrame, rest) /\ flushing' = TRUE

(* CLCommandQueue::flush: returns at once when a flush is in process. *)
CallFlush(rest) ==
  /\ stack' = IF flushing THEN rest ELSE Push(FlushFrame, rest)
  /\ flushing' = TRUE

(* MUTANT: the reference is given up before the flush. *)
ReleaseQueueFirst(rest) ==
  queueRefs' = queueRefs - 1 /\ CallFlush(rest)

(* clReleaseCommandQueue: flush, and only then give up the reference. *)
CallReleaseQueue(rest) ==
  IF flushing
  THEN queueRefs' = queueRefs - 1 /\ stack' = rest /\ UNCHANGED flushing
  ELSE CallFlush(Push(ReleaseFrame, rest)) /\ UNCHANGED queueRefs

(* clReleaseEvent: the destructor of the event releases its queue. *)
CallReleaseEvent(e, rest) ==
  /\ eventRefs' = [eventRefs EXCEPT ![e] = @ - 1]
  /\ IF eventRefs[e] = 1
     THEN CallReleaseQueue(rest) /\ callbacks' = [callbacks EXCEPT ![e] = {}]
     ELSE stack' = rest /\ UNCHANGED <<queueRefs, flushing, callbacks>>

(* The reference that clReleaseCommandQueue gives up after its flush. *)
ReleaseQueueEnd ==
  /\ stack # <<>> /\ Top.fn = "release"
  /\ queueRefs' = queueRefs - 1
  /\ stack' = Below
  /\ UNCHANGED <<fixed, commands, flushing, eventVars, commandVars, appVars, history>>

-----------------------------------------------------------------------------
(* CLCommandQueue::flush *)

(* MUTANT: the newest command first, whatever the properties say. *)
FlushNextNewest ==
  /\ InFlush
  /\ commands # <<>>
  /\ commands' = Front(commands)
  /\ stack' = Push(ExecFrame(Last(commands)),
                  Push([Top EXCEPT !.done = Append(@, Last(commands))], Below))
  /\ UNCHANGED <<fixed, flushing, queueRefs, eventVars, commandVars, appVars, history>>

(* The next command: the newest of an out-of-order queue, the oldest of an *)
(* in-order queue.                                                         *)
FlushNext ==
  /\ InFlush
  /\ commands # <<>>
  /\ LET c == IF outOfOrder THEN Last(commands) ELSE Head(commands)
     IN  /\ commands' = IF outOfOrder THEN Front(commands) ELSE Tail(commands)
         /\ stack' = Push(ExecFrame(c), Push([Top EXCEPT !.done = Append(@, c)], Below))
  /\ UNCHANGED <<fixed, flushing, queueRefs, eventVars, commandVars, appVars, history>>

(* Deletes an executed command.  Its destructor releases its event and the *)
(* queue; flushInProcess is set, so those releases flush nothing.          *)
FlushDelete ==
  /\ InFlush
  /\ commands = <<>> /\ Top.done # <<>>
  /\ LET c == Head(Top.done)
         freed == eventRefs[c] = 1
     IN  /\ hasCommand' = [hasCommand EXCEPT ![c] = FALSE]
         /\ alive' = alive \ {c}
         /\ waitList' = [waitList EXCEPT ![c] = <<>>]
         /\ eventRefs' = [eventRefs EXCEPT ![c] = @ - 1]
         /\ callbacks' = IF freed THEN [callbacks EXCEPT ![c] = {}] ELSE callbacks
         /\ queueRefs' = queueRefs - (IF freed THEN 2 ELSE 1)
  /\ stack' = Push([Top EXCEPT !.done = Tail(@)], Below)
  /\ UNCHANGED <<fixed, commands, flushing, status, appVars, history>>

(* MUTANT: the executed commands are not deleted. *)
FlushReturnEarly ==
  /\ InFlush
  /\ commands = <<>>
  /\ flushing' = FALSE
  /\ stack' = Below
  /\ UNCHANGED <<fixed, commands, queueRefs, eventVars, commandVars, appVars, history>>

FlushReturn ==
  /\ InFlush
  /\ commands = <<>> /\ Top.done = <<>>
  /\ flushing' = FALSE
  /\ stack' = Below
  /\ UNCHANGED <<fixed, commands, queueRefs, eventVars, commandVars, appVars, history>>

-----------------------------------------------------------------------------
(* Command::execute *)

(* MUTANT: no early return, the command runs again. *)
ExecAgain ==
  /\ InExec("start")
  /\ status[Top.c] # "queued"
  /\ stack' = ExecAt("submit")
  /\ UNCHANGED <<fixed, queueVars, eventVars, commandVars, appVars, history>>

(* Already executed through clWaitForEvents or a wait list: nothing to do. *)
ExecSkip ==
  /\ InExec("start")
  /\ status[Top.c] # "queued"
  /\ stack' = Below
  /\ UNCHANGED <<fixed, queueVars, eventVars, commandVars, appVars, history>>

(* MUTANT: the wait list is ignored. *)
ExecStartIgnoresWaits ==
  /\ InExec("start")
  /\ status[Top.c] = "queued"
  /\ stack' = ExecAt("submit")
  /\ UNCHANGED <<fixed, queueVars, eventVars, commandVars, appVars, history>>

(* MUTANT: an inverted test leaves a command with nothing to wait for.     *)
ExecStartInverted ==
  /\ InExec("start")
  /\ status[Top.c] = "queued"
  /\ stack' = IF outOfOrder /\ waitList[Top.c] = <<>> THEN Below ELSE ExecAt("submit")
  /\ UNCHANGED <<fixed, queueVars, eventVars, commandVars, appVars, history>>

(* Only an out-of-order queue looks at the wait list. *)
ExecStart ==
  /\ InExec("start")
  /\ status[Top.c] = "queued"
  /\ stack' = ExecAt(IF outOfOrder THEN "waits" ELSE "submit")
  /\ UNCHANGED <<fixed, queueVars, eventVars, commandVars, appVars, history>>

(* MUTANT: an event that is not queued is tested over and over. *)
ExecWaitWithoutPop ==
  /\ InExec("waits")
  /\ waitList[Top.c] # <<>>
  /\ LET e == Last(waitList[Top.c])
     IN  /\ status[e] = "queued"
         /\ stack' = Push(ExecFrame(e),
                         Push([Top EXCEPT !.pc = "release", !.dep = e], Below))
  /\ waitList' = [waitList EXCEPT ![Top.c] = Front(@)]
  /\ UNCHANGED <<fixed, queueVars, eventVars, alive, appVars, history>>

(* Pops the wait list and executes the command of a queued event. *)
ExecWait ==
  /\ InExec("waits")
  /\ waitList[Top.c] # <<>>
  /\ LET e == Last(waitList[Top.c])
         me == Push([Top EXCEPT !.pc = "release", !.dep = e], Below)
     IN  stack' = IF status[e] = "queued" THEN Push(ExecFrame(e), me) ELSE me
  /\ waitList' = [waitList EXCEPT ![Top.c] = Front(@)]
  /\ UNCHANGED <<fixed, queueVars, eventVars, alive, appVars, history>>

(* MUTANT: the waited event is not released. *)
ExecForgetsWaited ==
  /\ InExec("release")
  /\ stack' = ExecAt("waits")
  /\ UNCHANGED <<fixed, queueVars, eventVars, commandVars, appVars, history>>

ExecReleaseWaited ==
  /\ InExec("release")
  /\ CallReleaseEvent(Top.dep, ExecAt("waits"))
  /\ UNCHANGED <<fixed, commands, status, hasCommand, commandVars, appVars, history>>

ExecWaited ==
  /\ InExec("waits")
  /\ waitList[Top.c] = <<>>
  /\ stack' = ExecAt("submit")
  /\ UNCHANGED <<fixed, queueVars, eventVars, commandVars, appVars, history>>

(* CLEvent::setSubmitted, setRunning, setCompleted: the callback for the   *)
(* new status runs before the caller goes on.                              *)
SetStatus(c, s, next) ==
  /\ status' = [status EXCEPT ![c] = s]
  /\ stack' = IF s \in callbacks[c] THEN Push(CallbackFrame, ExecAt(next))
                                    ELSE ExecAt(next)
  /\ UNCHANGED <<fixed, queueVars, eventRefs, hasCommand, callbacks, commandVars,
                 appVars, enqueued, deps, unasked>>

ExecSubmit == InExec("submit") /\ SetStatus(Top.c, "submitted", "run") /\ UNCHANGED ran
ExecRun == InExec("run") /\ SetStatus(Top.c, "running", "impl") /\ UNCHANGED ran

(* executeImpl calls no application code. *)
ExecImpl ==
  /\ InExec("impl")
  /\ ran' = [ran EXCEPT ![Top.c] = @ + 1]
  /\ SetStatus(Top.c, "complete", "done")

ExecReturn ==
  /\ InExec("done")
  /\ stack' = Below
  /\ UNCHANGED <<fixed, queueVars, eventVars, commandVars, appVars, history>>

-----------------------------------------------------------------------------
(* The application, at the top level or inside a callback. *)

AppMay(op) ==
  \/ stack = <<>>
  \/ stack # <<>> /\ Top.fn = "callback" /\ op \in usage.inCallback

(* enqueueCommand and the blocking flag of clEnqueueReadBuffer and          *)
(* clEnqueueWriteBuffer.  The event starts with two references, the         *)
(* caller's and the command's, whether or not the caller asks for it.       *)
Enqueue(c, wl, asks, blocking) ==
  /\ AppMay("enqueue") /\ (blocking => stack = <<>>)
  /\ appQueue > 0
  /\ c \notin ToSet(enqueued)
  /\ \A e \in ToSet(wl) : appEvent[e] > 0
  /\ wl # <<>> => outOfOrder \/ usage.orderLists
  /\ alive' = alive \cup {c}
  /\ waitList' = [waitList EXCEPT ![c] = wl]
  /\ status' = [status EXCEPT ![c] = "queued"]
  /\ eventRefs' = [e \in Commands |-> IF e = c THEN 2
                                      ELSE IF e \in ToSet(wl) THEN eventRefs[e] + 1
                                      ELSE eventRefs[e]]
  /\ hasCommand' = [hasCommand EXCEPT ![c] = TRUE]
  /\ queueRefs' = queueRefs + 2
  /\ commands' = Append(commands, c)
  /\ appEvent' = [appEvent EXCEPT ![c] = IF asks THEN 1 ELSE 0]
  /\ unasked' = IF asks THEN unasked ELSE unasked \cup {c}
  /\ enqueued' = Append(enqueued, c)
  /\ deps' = [deps EXCEPT ![c] = wl]
  /\ IF blocking THEN CallFlush(stack) ELSE UNCHANGED <<stack, flushing>>
  /\ UNCHANGED <<fixed, callbacks, appQueue, ran>>

(* clFlush and clFinish *)
Finish ==
  /\ AppMay("flush")
  /\ appQueue > 0
  /\ CallFlush(stack)
  /\ UNCHANGED <<fixed, commands, queueRefs, eventVars, commandVars, appVars, history>>

(* clWaitForEvents; a list of events is a succession of such calls. *)
WaitForEvent(e) ==
  /\ usage.wait /\ stack = <<>>
  /\ appEvent[e] > 0
  /\ hasCommand[e]
  /\ stack' = Push(ExecFrame(e), stack)
  /\ UNCHANGED <<fixed, queueVars, eventVars, commandVars, appVars, history>>

RetainEvent(e) ==
  /\ AppMay("retain")
  /\ appEvent[e] \in 1 .. MaxAppRefs - 1
  /\ eventRefs' = [eventRefs EXCEPT ![e] = @ + 1]
  /\ appEvent' = [appEvent EXCEPT ![e] = @ + 1]
  /\ UNCHANGED <<fixed, queueVars, status, hasCommand, callbacks, commandVars,
                 appQueue, history, stack>>

ReleaseEvent(e) ==
  /\ AppMay("releaseEvent")
  /\ appEvent[e] > 0
  /\ usage.hold /\ appEvent[e] = 1 => \A c \in alive : e \notin ToSet(waitList[c])
  /\ appEvent' = [appEvent EXCEPT ![e] = @ - 1]
  /\ CallReleaseEvent(e, stack)
  /\ UNCHANGED <<fixed, commands, status, hasCommand, commandVars, appQueue, history>>

(* clSetEventCallback replaces the callback of a status. *)
SetCallback(e, s) ==
  /\ AppMay("setCallback")
  /\ appEvent[e] > 0
  /\ callbacks' = [callbacks EXCEPT ![e] = @ \cup {s}]
  /\ UNCHANGED <<fixed, queueVars, status, eventRefs, hasCommand, commandVars,
                 appVars, history, stack>>

RetainQueue ==
  /\ AppMay("retain")
  /\ appQueue \in 1 .. MaxAppRefs - 1
  /\ queueRefs' = queueRefs + 1
  /\ appQueue' = appQueue + 1
  /\ UNCHANGED <<fixed, commands, flushing, eventVars, commandVars, appEvent,
                 history, stack>>

ReleaseQueue ==
  /\ AppMay("releaseQueue")
  /\ appQueue > 0
  /\ appQueue' = appQueue - 1
  /\ CallReleaseQueue(stack)
  /\ UNCHANGED <<fixed, commands, eventVars, commandVars, appEvent, history>>

CallbackReturn ==
  /\ stack # <<>> /\ Top.fn = "callback"
  /\ stack' = Below
  /\ UNCHANGED <<fixed, queueVars, eventVars, commandVars, appVars, history>>

-----------------------------------------------------------------------------
WaitLists == {wl \in SeqOf(Commands, MaxWaitList) : IsInjective(wl)}

Driver ==
  \/ FlushNext \/ FlushDelete \/ FlushReturn \/ ReleaseQueueEnd
  \/ ExecSkip \/ ExecStart \/ ExecWait \/ ExecReleaseWaited \/ ExecWaited
  \/ ExecSubmit \/ ExecRun \/ ExecImpl \/ ExecReturn

Application ==
  \/ \E c \in Commands, wl \in WaitLists, asks, blocking \in BOOLEAN :
       Enqueue(c, wl, asks, blocking)
  \/ \E e \in Commands : \/ WaitForEvent(e) \/ RetainEvent(e) \/ ReleaseEvent(e)
                         \/ \E s \in CallbackTypes : SetCallback(e, s)
  \/ Finish \/ RetainQueue \/ ReleaseQueue

Next == Driver \/ Application \/ CallbackReturn

(* A call into the driver runs, and a callback returns; the application is *)
(* not obliged to call anything.                                           *)
Fairness == WF_vars(Driver) /\ WF_vars(CallbackReturn)

Spec == Init /\ [][Next]_vars /\ Fairness

-----------------------------------------------------------------------------
Frames ==
  [fn : {"flush"}, done : Seq(Commands)] \cup {ReleaseFrame, CallbackFrame}
  \cup [fn : {"exec"}, c : Commands, dep : Commands,
        pc : {"start", "waits", "release", "submit", "run", "impl", "done"}]

(* Every variable holds a value of its type. *)
TypeOK ==
  /\ usage \in Usages
  /\ outOfOrder \in BOOLEAN
  /\ commands \in Seq(Commands)
  /\ flushing \in BOOLEAN
  /\ queueRefs \in Nat
  /\ alive \subseteq Commands
  /\ waitList \in [Commands -> Seq(Commands)]
  /\ status \in [Commands -> Statuses \cup {"none", "queued"}]
  /\ eventRefs \in [Commands -> Nat]
  /\ hasCommand \in [Commands -> BOOLEAN]
  /\ callbacks \in [Commands -> SUBSET CallbackTypes]
  /\ stack \in Seq(Frames)
  /\ appEvent \in [Commands -> 0 .. MaxAppRefs]
  /\ appQueue \in 0 .. MaxAppRefs
  /\ enqueued \in Seq(Commands)
  /\ deps \in [Commands -> Seq(Commands)]
  /\ unasked \subseteq Commands
  /\ ran \in [Commands -> Nat]

Count(b) == IF b THEN 1 ELSE 0
FramesOf(fn) == {i \in DOMAIN stack : stack[i].fn = fn}

(* Who holds a reference to an event: the application, its command, the    *)
(* wait lists that name it, an execute that is about to release it, and,   *)
(* for ever, the caller that did not ask for it.                           *)
EventHolders(e) ==
  appEvent[e] + Count(e \in alive) + Count(e \in unasked)
  + Cardinality({c \in alive : e \in ToSet(waitList[c])})
  + Cardinality({i \in FramesOf("exec") : stack[i].pc = "release" /\ stack[i].dep = e})

(* Reference counts are exact: an event or the queue lives as long as      *)
(* somebody refers to it, and no longer.                                   *)
RefsAccounted ==
  /\ \A e \in Commands : eventRefs[e] = EventHolders(e)
  /\ queueRefs = appQueue + Cardinality(alive)
                 + Cardinality({e \in Commands : eventRefs[e] > 0})
                 + Cardinality(FramesOf("release"))

(* clFlush, clWaitForEvents and the wait lists may all reach a command,    *)
(* but it is executed once.                                                *)
RunsOnce == \A c \in Commands : ran[c] = Count(status[c] = "complete")

(* No command is deleted while its execute is under way, and the queue is  *)
(* not deleted while it flushes.                                           *)
NoUseAfterDelete ==
  /\ \A i \in FramesOf("exec") : stack[i].pc # "done" => stack[i].c \in alive
  /\ FramesOf("flush") # {} => queueRefs > 0

(* clGetEventProfilingInfo (runtime-event.cpp:204) calls an event that is  *)
(* not completed and has no command a bug of the driver.                   *)
EventHasCommandUntilCompleted ==
  \A e \in Commands : eventRefs[e] > 0 /\ status[e] # "complete" => hasCommand[e]

(* The assertions of Command.cpp:12 and Command.cpp:25: a command is       *)
(* skipped or deleted only with an empty wait list.                        *)
WaitListEmptyAssertions ==
  \A i \in DOMAIN stack :
    /\ stack[i].fn = "exec" /\ stack[i].pc = "start" /\ status[stack[i].c] # "queued"
         => waitList[stack[i].c] = <<>>
    /\ stack[i].fn = "flush" /\ commands = <<>> /\ stack[i].done # <<>> /\ i = 1
         => waitList[Head(stack[i].done)] = <<>>

(* An in-order queue that is never waited on executes in the order of the  *)
(* enqueueing.                                                             *)
InOrder ==
  ~outOfOrder /\ ~usage.wait =>
    \A j \in DOMAIN enqueued : \A i \in 1 .. j - 1 :
      ran[enqueued[j]] > 0 => ran[enqueued[i]] > 0

(* When the application has given up everything and no call is under way,  *)
(* nothing is left but the events it never asked for, and the queue they   *)
(* keep alive.                                                             *)
OnlyUnaskedEventsLeak ==
  stack = <<>> /\ appQueue = 0 /\ (\A e \in Commands : appEvent[e] = 0) =>
    /\ {e \in Commands : eventRefs[e] > 0} = unasked
    /\ queueRefs = Cardinality(unasked)

(* A command of an out-of-order queue runs after every event it waits for. *)
WaitListRespected ==
  [][\A c \in Commands : outOfOrder /\ ran'[c] # ran[c] =>
       \A e \in ToSet(deps[c]) : status[e] = "complete"]_vars

(* A flush leaves nothing behind, not even what callbacks enqueued while   *)
(* it ran: every command is executed and deleted when it returns.          *)
FlushDrains ==
  [][flushing /\ ~flushing' => commands' = <<>> /\ alive' = {}]_vars

(* What the application sees of the queue is a TaskQueue: commands are      *)
(* executed once, one at a time, after what they wait for, and a flush      *)
(* ends with nothing left to execute, whatever callbacks do meanwhile.  An  *)
(* in-order queue that is waited on promises no order.                      *)
TQ == INSTANCE TaskQueue WITH
       Tasks <- Commands,
       order <- IF outOfOrder THEN "byNeeds" ELSE IF usage.wait THEN "any" ELSE "inOrder",
       entered <- enqueued,
       needs <- [c \in Commands |-> ToSet(deps[c])],
       state <- status,
       executed <- ran
ImplementsTaskQueue == TQ!Spec

(* Every call into the driver returns. *)
CallsReturn == (stack # <<>>) ~> (stack = <<>>)
=============================================================================
