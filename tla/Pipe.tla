-------------------------------- MODULE Pipe --------------------------------
(***************************************************************************)
(* What a closable one-slot channel promises, without threads, mutexes or  *)
(* condition variables: the values come out in the order they went in,     *)
(* each once, never more than one is in flight, and nothing is accepted    *)
(* after the channel was closed.  Channel.tla implements it.               *)
(***************************************************************************)
EXTENDS Naturals, Sequences

CONSTANT Values   (* what may be sent *)

VARIABLES
  sent,     (* the values accepted so far, in order  *)
  rcvd,     (* the values delivered so far, in order *)
  isClosed

vars == <<sent, rcvd, isClosed>>

Init ==
  /\ sent = <<>>
  /\ rcvd = <<>>
  /\ isClosed = FALSE

(* A value is accepted only when the previous one has been delivered. *)
Accept(v) ==
  /\ ~isClosed
  /\ Len(sent) = Len(rcvd)
  /\ sent' = Append(sent, v)
  /\ UNCHANGED <<rcvd, isClosed>>

(* Delivery goes on after the close: a closed channel is drained. *)
Deliver ==
  /\ Len(rcvd) < Len(sent)
  /\ rcvd' = Append(rcvd, sent[Len(rcvd) + 1])
  /\ UNCHANGED <<sent, isClosed>>

Close ==
  /\ isClosed' = TRUE
  /\ UNCHANGED <<sent, rcvd>>

Next ==
  \/ \E v \in Values : Accept(v)
  \/ Deliver
  \/ Close

Spec == Init /\ [][Next]_vars
=============================================================================
