------------------------------ MODULE TaskQueue ------------------------------
(***************************************************************************)
(* What a command queue promises its application, without references,      *)
(* callbacks or a call stack: every task is executed once, one at a time,  *)
(* not before the tasks it needs, and a queue that was flushed has nothing *)
(* left to execute.  CommandQueue.tla implements it.                       *)
(***************************************************************************)
EXTENDS Naturals, Sequences

CONSTANT Tasks

VARIABLES
  order,     (* "inOrder", "byNeeds" or "any": when a task may start *)
  entered,   (* the tasks in the order in which they were entered    *)
  needs,     (* the tasks each task waits for                        *)
  state,     (* how far each task is                                 *)
  executed,  (* how often each task has been executed                *)
  flushing   (* the queue works until it is drained                  *)

vars == <<order, entered, needs, state, executed, flushing>>

Known == {entered[i] : i \in DOMAIN entered}
InProgress == {t \in Tasks : state[t] \in {"submitted", "running"}}

Init ==
  /\ order \in {"inOrder", "byNeeds", "any"}
  /\ entered = <<>>
  /\ needs = [t \in Tasks |-> {}]
  /\ state = [t \in Tasks |-> "none"]
  /\ executed = [t \in Tasks |-> 0]
  /\ flushing = FALSE

(* Tasks are entered at any time, also while others are executed; a task   *)
(* needs only tasks that were entered before it.                           *)
Enter(t, d) ==
  /\ t \notin Known /\ d \subseteq Known
  /\ entered' = Append(entered, t)
  /\ needs' = [needs EXCEPT ![t] = d]
  /\ state' = [state EXCEPT ![t] = "queued"]
  /\ flushing' \in {flushing, TRUE}
  /\ UNCHANGED <<order, executed>>

(* A task starts while no other is in progress, when every task that has   *)
(* to come before it is complete.                                          *)
Ready(t) ==
  CASE order = "byNeeds" -> \A d \in needs[t] : state[d] = "complete"
    [] order = "inOrder" -> \A j \in DOMAIN entered : entered[j] = t =>
                              \A i \in 1 .. j - 1 : state[entered[i]] = "complete"
    [] OTHER -> TRUE

Submit(t) ==
  /\ state[t] = "queued" /\ InProgress = {} /\ Ready(t)
  /\ state' = [state EXCEPT ![t] = "submitted"]
  /\ UNCHANGED <<order, entered, needs, executed, flushing>>

Run(t) ==
  /\ state[t] = "submitted"
  /\ state' = [state EXCEPT ![t] = "running"]
  /\ UNCHANGED <<order, entered, needs, executed, flushing>>

Complete(t) ==
  /\ state[t] = "running"
  /\ state' = [state EXCEPT ![t] = "complete"]
  /\ executed' = [executed EXCEPT ![t] = @ + 1]
  /\ UNCHANGED <<order, entered, needs, flushing>>

Flush ==
  /\ flushing' = TRUE
  /\ UNCHANGED <<order, entered, needs, state, executed>>

(* A flush ends when everything that was entered is complete, what was     *)
(* entered while it went on included.                                      *)
Drained ==
  /\ flushing
  /\ \A t \in Known : state[t] = "complete"
  /\ flushing' = FALSE
  /\ UNCHANGED <<order, entered, needs, state, executed>>

Next ==
  \/ \E t \in Tasks : Submit(t) \/ Run(t) \/ Complete(t)
  \/ \E t \in Tasks, d \in SUBSET Tasks : Enter(t, d)
  \/ Flush \/ Drained

Spec == Init /\ [][Next]_vars
=============================================================================
