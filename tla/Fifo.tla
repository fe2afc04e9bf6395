-------------------------------- MODULE Fifo --------------------------------
(* What the events between mosquitto's callbacks and the bridge promise:    *)
(* they are handled one at a time, in the order they were sent, each once.  *)
(* What is left when the listener is closed is not handled.                 *)
EXTENDS Sequences

CONSTANT Items

VARIABLE pending

Init == pending = <<>>

Put(i) == pending' = Append(pending, i)

\* The oldest item has been handled.
Take ==
    /\ pending # <<>>
    /\ pending' = Tail(pending)

Next == Take \/ \E i \in Items : Put(i)

Spec == Init /\ [][Next]_pending
=============================================================================
