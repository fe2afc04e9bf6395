---------------------------- MODULE ReportPolicy ----------------------------
(***************************************************************************)
(* What CFinalHaven and the launcher promise: reports are taken up in the  *)
(* order they were made, none is lost or taken twice, and the program      *)
(* leaves at the first one that ends it and for no other reason.           *)
(***************************************************************************)
EXTENDS Naturals, Sequences

CONSTANTS Levels, Fatal

VARIABLES pending, stopped

channel == <<pending, stopped>>

Init ==
    /\ pending = <<>>
    /\ stopped = FALSE

Report(l) ==
    /\ pending' = Append(pending, l)
    /\ UNCHANGED stopped

TakeUp ==
    /\ ~stopped
    /\ pending # <<>>
    /\ pending' = Tail(pending)
    /\ stopped' = (Head(pending) \in Fatal)

Next == TakeUp \/ \E l \in Levels : Report(l)

Spec == Init /\ [][Next]_channel
=============================================================================
