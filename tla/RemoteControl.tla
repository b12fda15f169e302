--------------------------- MODULE RemoteControl ---------------------------
(***************************************************************************)
(* What a debugging session promises its user, without threads and         *)
(* channels.  A target runs from instruction to instruction; it pauses     *)
(* where the user's breakpoints say, moves on only when it is ordered to,  *)
(* obeys every order once and in turn, and whatever it reports or answers  *)
(* is shown once and in turn.  A change of the breakpoints may take its    *)
(* time.  DebugSession.tla implements it.                                  *)
(***************************************************************************)
EXTENDS Sequences

CONSTANTS
  Addresses,
  Contexts,   (* whose registers can be asked for     *)
  Memory,     (* what is asked for and is no context  *)
  None        (* no address                           *)

VARIABLES
  breakpoints,  (* the addresses the user marked                           *)
  unsure,       (* those of which the target may not know the last change  *)
  orders,       (* what the user ordered and the target has yet to obey    *)
  asked,        (* what was asked for and is not shown yet                 *)
  registers,    (* the context whose registers are shown                   *)
  target,       (* what the target does                                    *)
  at,           (* its instruction                                         *)
  passed,       (* whether it was decided not to pause at it (any more)    *)
  news,         (* what the target has reported and is not shown yet       *)
  view,         (* what the user is shown of the target                    *)
  pending       (* "start" or "resume": the user did and the view lags     *)

userVars == <<breakpoints, unsure, asked, registers, view, pending>>
targetVars == <<target, at, passed, news>>
vars == <<userVars, orders, targetVars>>

Init ==
  /\ breakpoints = {} /\ unsure = {}
  /\ orders = <<>> /\ asked = <<>> /\ registers \in Contexts
  /\ target = "none" /\ at = None /\ passed = FALSE
  /\ news = <<>> /\ view = "stopped" /\ pending = "nothing"

-----------------------------------------------------------------------------
(* The user.                                                               *)
Toggle(a) ==
  /\ breakpoints' = IF a \in breakpoints THEN breakpoints \ {a} ELSE breakpoints \cup {a}
  /\ unsure' \in {unsure, unsure \cup {a}}
  /\ UNCHANGED <<orders, asked, registers, view, pending, targetVars>>

Order(order) ==
  /\ view \in {"running", "paused"} /\ pending = "nothing"
  /\ order.type = "run" => view = "paused"
  /\ orders' = Append(orders, order)
  /\ pending' = IF order.type = "run" THEN "resume" ELSE "nothing"
  /\ UNCHANGED <<breakpoints, unsure, asked, registers, view, targetVars>>

ShowRunning ==
  /\ pending = "resume" /\ pending' = "nothing"
  /\ view' = "running"
  /\ UNCHANGED <<breakpoints, unsure, orders, asked, registers, targetVars>>

Attach ==
  /\ view \in {"stopped", "exception"} /\ pending = "nothing"
  /\ view' = "running" /\ pending' = "start"
  /\ UNCHANGED <<breakpoints, unsure, orders, asked, registers, targetVars>>

Ask(c) ==
  /\ asked' = Append(asked, c)
  /\ UNCHANGED <<breakpoints, unsure, orders, registers, view, pending, targetVars>>

(* What the user is shown, in the order of the questions and of the news.  *)
ShowAnswer ==
  /\ asked # <<>>
  /\ registers' = IF Head(asked) = Memory THEN registers ELSE Head(asked)
  /\ asked' = Tail(asked)
  /\ UNCHANGED <<breakpoints, unsure, orders, view, pending, targetVars>>

Shown == [onPause |-> "paused", onStop |-> "stopped", onException |-> "exception"]

ShowNews ==
  /\ news # <<>>
  /\ view' = Shown[Head(news).type]
  /\ news' = Tail(news)
  /\ UNCHANGED <<breakpoints, unsure, orders, asked, registers, pending, target, at, passed>>

-----------------------------------------------------------------------------
(* The target.                                                             *)
Start ==
  /\ pending = "start" /\ pending' = "nothing"
  /\ target \in {"none", "ended"} /\ target' = "starting"
  /\ UNCHANGED <<breakpoints, unsure, orders, asked, registers, view, at, passed, news>>

Begin ==
  /\ target = "starting" /\ target' = "RUN"
  /\ at' \in Addresses
  /\ UNCHANGED <<userVars, orders, passed, news>>

(* Only where the user is unsure, it may pause or not.                     *)
Break ==
  /\ ~passed /\ passed'
  /\ target = "STEP" \/ (target = "RUN" /\ at \in breakpoints \cup unsure)
  /\ target' = "PAUSE"
  /\ news' = Append(news, [type |-> "onPause", addr |-> at])
  /\ UNCHANGED <<userVars, orders, at>>

Pass ==
  /\ ~passed /\ passed'
  /\ target \in {"RUN", "STOP", "EXC"}
  /\ target = "RUN" /\ at \in breakpoints => at \in unsure
  /\ UNCHANGED <<userVars, orders, target, at, news>>

Settle(a) ==
  /\ a \in unsure /\ unsure' = unsure \ {a}
  /\ UNCHANGED <<breakpoints, orders, asked, registers, view, pending, targetVars>>

(* A target that was stopped or has failed never runs or pauses again.     *)
Obey ==
  /\ orders # <<>> /\ passed
  /\ orders' = Tail(orders)
  /\ target' = IF Head(orders).type = "stop" THEN "STOP"
               ELSE IF target \in {"STOP", "EXC"} THEN target
               ELSE IF Head(orders).stepping THEN "STEP" ELSE "RUN"
  /\ UNCHANGED <<userVars, at, passed, news>>

Moving == passed /\ target \in {"RUN", "STEP", "STOP", "EXC"}

Execute ==
  /\ Moving /\ ~passed'
  /\ at' \in Addresses
  /\ UNCHANGED <<userVars, orders, target, news>>

Fail ==
  /\ Moving
  /\ target' = "EXC"
  /\ news' = Append(news, [type |-> "onException"])
  /\ UNCHANGED <<userVars, orders, at, passed>>

End ==
  /\ Moving /\ ~passed'
  /\ target' = "ended"
  /\ news' = IF target = "STOP" THEN Append(news, [type |-> "onStop"]) ELSE news
  /\ UNCHANGED <<userVars, orders, at>>

-----------------------------------------------------------------------------
Orders == [type : {"stop"}] \cup [type : {"run"}, stepping : BOOLEAN]

Next ==
  \/ \E a \in Addresses : Toggle(a) \/ Settle(a)
  \/ \E order \in Orders : Order(order)
  \/ \E c \in Contexts \cup {Memory} : Ask(c)
  \/ ShowRunning \/ Attach \/ ShowAnswer \/ ShowNews
  \/ Start \/ Begin \/ Break \/ Pass \/ Obey \/ Execute \/ Fail \/ End

Spec == Init /\ [][Next]_vars
=============================================================================
