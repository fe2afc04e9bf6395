---------------------------- MODULE RetryPolicy ----------------------------
(***************************************************************************)
(* What the connection manager promises of each client: at most Limit      *)
(* calls of connect that return in a row without a sign of success, a      *)
(* pause of Wait after each, and one report of failure once they are       *)
(* spent. Of a call that throws it promises only that the pause before it  *)
(* was kept and that a call was left: nothing paces or limits its repeats. *)
(***************************************************************************)
EXTENDS Integers

CONSTANTS Clients, Limit, Wait, Times

VARIABLES
    tries,   \* calls that returned since the client was last seen connected
    failed,  \* the clients reported as failed since then
    last,    \* when the last of the calls that returned was made
    call     \* the last call the manager made, or the last subscription

policy == <<tries, failed, last, call>>

Init ==
    /\ tries = [c \in Clients |-> 0]
    /\ failed = {}
    /\ last = [c \in Clients |-> -Wait]
    /\ call = <<>>

\* The manager calls connect at time t.
Try(c, t) ==
    /\ tries[c] < Limit
    /\ t > last[c] + Wait
    /\ tries' = [tries EXCEPT ![c] = @ + 1]
    /\ last' = [last EXCEPT ![c] = t]
    /\ call' = <<"connect", c, t>>
    /\ UNCHANGED failed

\* The call is due like any other, but throws: it is not counted and begins
\* no pause, so the next one may come at once, and so for ever.
Throw(c, t) ==
    /\ tries[c] < Limit
    /\ t > last[c] + Wait
    /\ call' = <<"throw", c, t>>
    /\ UNCHANGED <<tries, failed, last>>

\* The manager gives up at time t and says so, once.
GiveUp(c, t) ==
    /\ tries[c] = Limit
    /\ c \notin failed
    /\ t > last[c] + Wait
    /\ failed' = failed \union {c}
    /\ call' = <<"report", c, t>>
    /\ UNCHANGED <<tries, last>>

\* The client is seen connected. The pause after the last call still holds.
Recover(c) ==
    /\ tries' = [tries EXCEPT ![c] = 0]
    /\ failed' = failed \ {c}
    /\ UNCHANGED <<last, call>>

\* The client is subscribed anew.
Restart(c) ==
    /\ tries' = [tries EXCEPT ![c] = 0]
    /\ failed' = failed \ {c}
    /\ last' = [last EXCEPT ![c] = -Wait]
    /\ call' = <<"subscribe", c, 0>>

Next ==
    \E c \in Clients :
        \/ \E t \in Times : Try(c, t) \/ Throw(c, t) \/ GiveUp(c, t)
        \/ Recover(c)
        \/ Restart(c)

Spec == Init /\ [][Next]_policy
=============================================================================
