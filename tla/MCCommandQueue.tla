--------------------------- MODULE MCCommandQueue ---------------------------
EXTENDS CommandQueue

(* Executes by clFlush only; callbacks may do what a callback may do. *)
FlushingApp ==
  [wait |-> FALSE, inCallback |-> {"enqueue", "flush", "releaseEvent"},
   hold |-> FALSE, orderLists |-> FALSE]

(* Also calls clWaitForEvents; keeps the events its wait lists name and    *)
(* only enqueues from callbacks.                                           *)
WaitingApp ==
  [wait |-> TRUE, inCallback |-> {"enqueue"}, hold |-> TRUE, orderLists |-> FALSE]

CarefulApps == {FlushingApp, WaitingApp}

(* A waiting application whose callbacks call clFlush. *)
ReentrantApps == {[WaitingApp EXCEPT !.inCallback = {"flush"}]}

(* Wait lists on an in-order queue. *)
OrderListApps == {[FlushingApp EXCEPT !.orderLists = TRUE, !.inCallback = {}]}

(* Everything in callbacks but giving up the queue that is being flushed.  *)
BusyApps ==
  {[FlushingApp EXCEPT !.inCallback = CallbackOps \ {"releaseQueue"}], WaitingApp}

Symmetry == Permutations(Commands)
=============================================================================
