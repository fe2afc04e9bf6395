------------------------------ MODULE ConnMan ------------------------------
(***************************************************************************)
(* CConnMan: the periodic handler that reconnects the subscribed clients.  *)
(*                                                                         *)
(* The executor's workers run connectionHandler, one call per posted       *)
(* period. A call reads the clock, then takes m_connection_mutex for the   *)
(* whole walk over the table; calls may overlap, and then get the mutex in *)
(* any order. The state of a client's link is changed by another thread    *)
(* at any moment, so it may change between getState and connect.           *)
(***************************************************************************)
EXTENDS Integers, FiniteSets

CONSTANTS
    Clients,             \* the names of the subscribed IConnectable's
    Workers,             \* the threads of CExecutor
    connection_attempt,  \* ConnectionInfo::connection_attempt
    Wait,                \* connection_timeout + connection_cycle_timeout
    Faulty,              \* the clients whose connect() throws
    MaxTime,             \* bound: the clock stops there
    MaxPosted            \* bound: handler calls waiting in the queue

ASSUME ConnManAssumption ==
    /\ connection_attempt \in Nat
    /\ Wait \in Nat
    /\ Faulty \subseteq Clients
    /\ MaxTime \in Nat
    /\ MaxPosted \in Nat

VARIABLES
    now,              \* the steady clock
    posted,           \* connectionHandler calls in the executor's queue
    pc, dev, left,    \* each worker's place in connectionHandler
    itr_time,         \* its local itr_time
    locked,           \* m_connection_mutex is held
    subscribed,       \* the keys of m_connectable_items
    spent_attempt,    \* ConServiceBlk::spent_attempt
    time_to_attempt,  \* ConServiceBlk::time_to_attempt
    alive,            \* the clients whose weak pointer can be locked
    connected,        \* the clients whose getState is CONNECTED
    tried,            \* the clients whose connect() was ever called
    doubled,          \* the clients reported as inserted twice
    (* History variables, read by the properties only. *)
    call              \* the last connect(), report or subscription, and when

table == <<subscribed, spent_attempt, time_to_attempt, doubled>>
locals == <<pc, dev, left, itr_time>>
links == <<alive, connected, tried>>
vars == <<now, posted, pc, dev, left, itr_time, locked, subscribed,
          spent_attempt, time_to_attempt, alive, connected, tried, doubled,
          call>>

Pcs == {"idle", "lock", "walk", "connect"}

CallKinds == {"connect", "throw", "report", "subscribe"}

\* The workers inside the critical section.
Inside == {w \in Workers : pc[w] \in {"walk", "connect"}}

Init ==
    /\ now = 0
    /\ posted = 0
    /\ pc = [w \in Workers |-> "idle"]
    /\ dev \in [Workers -> Clients]
    /\ left = [w \in Workers |-> {}]
    /\ itr_time = [w \in Workers |-> 0]
    /\ locked = FALSE
    /\ subscribed = {}
    /\ spent_attempt = [c \in Clients |-> 0]
    /\ time_to_attempt = [c \in Clients |-> 0]
    /\ alive = Clients
    /\ connected = {}
    /\ tried = {}
    /\ doubled = {}
    /\ call = <<>>

-----------------------------------------------------------------------------
(* The environment: the timer, the links and the clients' lifetimes.        *)

Elapse(k) ==
    /\ now < MaxTime
    /\ posted + k <= MaxPosted
    /\ now' = now + 1
    /\ posted' = posted + k
    /\ UNCHANGED <<locals, locked, table, links, call>>

\* on_connect with rc = 0: mosquitto reconnects by itself once it was told to.
LinkUp(c) ==
    /\ c \in tried \ connected
    /\ connected' = connected \union {c}
    /\ UNCHANGED <<now, posted, locals, locked, table, alive, tried, call>>

\* on_disconnect.
LinkDown(c) ==
    /\ c \in connected
    /\ connected' = connected \ {c}
    /\ UNCHANGED <<now, posted, locals, locked, table, alive, tried, call>>

\* The last owner of a client lets it go.
Release(c) ==
    /\ c \in alive
    /\ alive' = alive \ {c}
    /\ UNCHANGED <<now, posted, locals, locked, table, connected, tried, call>>

-----------------------------------------------------------------------------
(* subscribe and unsubscribe, called with the mutex free.                    *)

Subscribe(c) ==
    /\ ~locked
    /\ c \notin subscribed
    /\ subscribed' = subscribed \union {c}
    /\ spent_attempt' = [spent_attempt EXCEPT ![c] = 0]
    /\ time_to_attempt' = [time_to_attempt EXCEPT ![c] = 0]
    /\ call' = <<"subscribe", c, 0>>
    /\ UNCHANGED <<now, posted, locals, locked, doubled, links>>

\* insert() leaves the entry alone; the caller is reported.
SubscribeAgain(c) ==
    /\ ~locked
    /\ c \in subscribed
    /\ doubled' = doubled \union {c}
    /\ UNCHANGED <<now, posted, locals, locked, subscribed, spent_attempt,
                   time_to_attempt, links, call>>

Unsubscribe(c) ==
    /\ ~locked
    /\ c \in subscribed
    /\ subscribed' = subscribed \ {c}
    /\ UNCHANGED <<now, posted, locals, locked, spent_attempt,
                   time_to_attempt, doubled, links, call>>

-----------------------------------------------------------------------------
(* connectionHandler, run by worker w.                                       *)

\* Mutant of StartHandler: a call nobody posted.
StartHandler_Unposted(w) ==
    /\ pc[w] = "idle"
    /\ posted' = posted - 1
    /\ pc' = [pc EXCEPT ![w] = "lock"]
    /\ itr_time' = [itr_time EXCEPT ![w] = now]
    /\ UNCHANGED <<now, dev, left, locked, table, links, call>>

StartHandler(w) ==
    /\ pc[w] = "idle"
    /\ posted > 0
    /\ posted' = posted - 1
    /\ pc' = [pc EXCEPT ![w] = "lock"]
    /\ itr_time' = [itr_time EXCEPT ![w] = now]
    /\ UNCHANGED <<now, dev, left, locked, table, links, call>>

\* Mutant of Lock: no unique_lock.
Lock_Absent(w) ==
    /\ pc[w] = "lock"
    /\ locked' = TRUE
    /\ pc' = [pc EXCEPT ![w] = "walk"]
    /\ left' = [left EXCEPT ![w] = subscribed]
    /\ UNCHANGED <<now, posted, dev, itr_time, table, links, call>>

Lock(w) ==
    /\ pc[w] = "lock"
    /\ ~locked
    /\ locked' = TRUE
    /\ pc' = [pc EXCEPT ![w] = "walk"]
    /\ left' = [left EXCEPT ![w] = subscribed]
    /\ UNCHANGED <<now, posted, dev, itr_time, table, links, call>>

\* The walk goes on to client c.
Visit(w, c) ==
    /\ pc[w] = "walk"
    /\ c \in left[w]
    /\ left' = [left EXCEPT ![w] = @ \ {c}]
    /\ UNCHANGED <<now, posted, itr_time, locked, subscribed,
                   time_to_attempt, doubled, links>>

\* The client is gone, or down with its pause not over: nothing to do.
Pass(w, c) ==
    /\ Visit(w, c)
    /\ \/ c \notin alive
       \/ c \notin connected /\ itr_time[w] <= time_to_attempt[c]
    /\ UNCHANGED <<pc, dev, spent_attempt, call>>

ResetAttempts(w, c) ==
    /\ Visit(w, c)
    /\ c \in alive \intersect connected
    /\ spent_attempt' = [spent_attempt EXCEPT ![c] = 0]
    /\ UNCHANGED <<pc, dev, call>>

Due(w, c) == c \in alive \ connected /\ itr_time[w] > time_to_attempt[c]

\* An attempt is left: the call of connect is the worker's next step.
Retry(w, c) ==
    /\ Visit(w, c)
    /\ Due(w, c)
    /\ spent_attempt[c] < connection_attempt
    /\ pc' = [pc EXCEPT ![w] = "connect"]
    /\ dev' = [dev EXCEPT ![w] = c]
    /\ UNCHANGED <<spent_attempt, call>>

\* None is left: spent_attempt++ == connection_attempt decides who reports.
Exhausted(w, c) ==
    /\ Visit(w, c)
    /\ Due(w, c)
    /\ spent_attempt[c] >= connection_attempt
    /\ spent_attempt' = [spent_attempt EXCEPT ![c] = @ + 1]
    /\ call' = IF spent_attempt[c] = connection_attempt
               THEN <<"report", c, itr_time[w]>> ELSE call
    /\ UNCHANGED <<pc, dev>>

Connect(w) ==
    LET c == dev[w] IN
    /\ pc[w] = "connect"
    /\ c \notin Faulty
    /\ tried' = tried \union {c}
    /\ spent_attempt' = [spent_attempt EXCEPT ![c] = @ + 1]
    /\ time_to_attempt' = [time_to_attempt EXCEPT ![c] = itr_time[w] + Wait]
    /\ call' = <<"connect", c, itr_time[w]>>
    /\ pc' = [pc EXCEPT ![w] = "walk"]
    /\ UNCHANGED <<now, posted, dev, left, itr_time, locked, subscribed,
                   doubled, alive, connected>>

\* Mutant of ConnectThrows: lock() without a guard object to unlock.
ConnectThrows_Locked(w) ==
    /\ pc[w] = "connect"
    /\ dev[w] \in Faulty
    /\ pc' = [pc EXCEPT ![w] = "idle"]
    /\ left' = [left EXCEPT ![w] = {}]
    /\ itr_time' = [itr_time EXCEPT ![w] = 0]
    /\ call' = <<"throw", dev[w], itr_time[w]>>
    /\ UNCHANGED <<now, posted, dev, locked, table, links>>

\* connect() throws: the call is made, but spent_attempt and time_to_attempt
\* are set after it only, and stay. The mutex is released on the way out,
\* WorkerThread catches the exception, and the rest of the walk is lost.
ConnectThrows(w) ==
    /\ pc[w] = "connect"
    /\ dev[w] \in Faulty
    /\ locked' = FALSE
    /\ pc' = [pc EXCEPT ![w] = "idle"]
    /\ left' = [left EXCEPT ![w] = {}]
    /\ itr_time' = [itr_time EXCEPT ![w] = 0]
    /\ call' = <<"throw", dev[w], itr_time[w]>>
    /\ UNCHANGED <<now, posted, dev, table, links>>

EndHandler(w) ==
    /\ pc[w] = "walk"
    /\ left[w] = {}
    /\ locked' = FALSE
    /\ pc' = [pc EXCEPT ![w] = "idle"]
    /\ itr_time' = [itr_time EXCEPT ![w] = 0]
    /\ UNCHANGED <<now, posted, dev, left, table, links, call>>

-----------------------------------------------------------------------------
WorkerStep(w) ==
    \/ StartHandler(w)
    \/ Lock(w)
    \/ \E c \in Clients : \/ Pass(w, c)
                          \/ ResetAttempts(w, c)
                          \/ Retry(w, c)
                          \/ Exhausted(w, c)
    \/ Connect(w)
    \/ ConnectThrows(w)
    \/ EndHandler(w)

ClientStep(c) ==
    \/ LinkUp(c)
    \/ LinkDown(c)
    \/ Release(c)
    \/ Subscribe(c)
    \/ SubscribeAgain(c)
    \/ Unsubscribe(c)

Next ==
    \/ \E k \in 0..MaxPosted : Elapse(k)
    \/ \E w \in Workers : WorkerStep(w)
    \/ \E c \in Clients : ClientStep(c)

Spec == Init /\ [][Next]_vars

-----------------------------------------------------------------------------
(* Properties.                                                               *)

\* The types of the variables.
TypeOK ==
    /\ now \in Nat
    /\ posted \in Nat
    /\ pc \in [Workers -> Pcs]
    /\ dev \in [Workers -> Clients]
    /\ left \in [Workers -> SUBSET Clients]
    /\ itr_time \in [Workers -> Nat]
    /\ locked \in BOOLEAN
    /\ subscribed \subseteq Clients
    /\ spent_attempt \in [Clients -> Nat]
    /\ time_to_attempt \in [Clients -> Nat]
    /\ alive \subseteq Clients
    /\ connected \subseteq Clients
    /\ tried \subseteq Clients
    /\ doubled \subseteq Clients
    /\ call \in {<<>>} \union (CallKinds \X Clients \X Nat)

\* The mutex is held while one worker walks the table, and by nobody else:
\* every way out of connectionHandler, the exception of connect() included,
\* gives it back, so the handler and subscribe are never locked out.
MutexReleased ==
    /\ locked <=> Inside # {}
    /\ \A v, w \in Inside : v = w

\* The refinement mapping to RetryPolicy.
Tries == [c \in Clients |-> IF spent_attempt[c] <= connection_attempt
                            THEN spent_attempt[c] ELSE connection_attempt]
Failed == {c \in Clients : spent_attempt[c] > connection_attempt}
Last == [c \in Clients |-> time_to_attempt[c] - Wait]

Policy == INSTANCE RetryPolicy WITH
    Limit <- connection_attempt,
    Times <- 0..MaxTime,
    tries <- Tries,
    failed <- Failed,
    last <- Last

\* connectionHandler implements the policy: however calls overlap, whatever
\* the order they take the mutex in and the times they carry, and whenever
\* the links change, a client gets at most connection_attempt calls that
\* return in a row, no call before the pause after the last that returned is
\* over, and one report. A call that throws is due and has a call left like any
\* other, but buys neither a pause nor an end: the policy lets the next one
\* come at once, and so does the code.
FollowsPolicy == Policy!Spec
=============================================================================
