------------------------------ MODULE Executor ------------------------------
(***************************************************************************)
(* CExecutor: cyclic functions on the threads of a boost io_service.       *)
(*                                                                         *)
(* A wait on a timer ends when the timer expires or is cancelled; either   *)
(* way its handler is queued, and the handler ignores which it was. Every  *)
(* section under m_cycle_mutex is one step. The queue of the io_service is *)
(* kept as counts, since its workers finish what they take in any order.   *)
(* rand() is taken not to repeat an id, and the wall clock, which the      *)
(* timers follow, not to be set back; it may be set ahead.                 *)
(***************************************************************************)
EXTENDS Integers, FiniteSets

CONSTANTS
    Funcs,      \* the functions given to execute_cyclic, once each
    Tasks,      \* the functions given to execute, once each
    Workers,    \* the worker threads
    Idle,       \* what a worker does when it runs no function
    period,     \* the period of each function
    MaxTime,    \* bound: the clock stops there
    MaxJump     \* bound: how far the clock goes in a step

ASSUME ExecutorAssumption ==
    /\ Funcs \intersect Tasks = {}
    /\ Idle \notin Funcs \union Tasks
    /\ period \in [Funcs -> Nat \ {0}]
    /\ MaxTime \in Nat
    /\ MaxJump \in Nat

All == Funcs \union Tasks

VARIABLES
    now,            \* the wall clock
    m_cycle_items,  \* the functions in the table
    expires,        \* each timer's expires_at
    armed,          \* waits under way on each timer
    handlers, runs, \* the io_service's queue: handlers and functions
    busy,           \* the function each worker runs, or Idle
    given,          \* the functions ever given to the executor
    stopping,       \* stopExecution: "no", "cancelled", "cleared", "joined"
    (* History variables, read by the properties only. *)
    start,          \* when execute_cyclic was called
    posts           \* how often each function was posted

queue == <<handlers, runs>>
timers == <<m_cycle_items, expires, armed>>
history == <<start, posts>>
vars == <<now, m_cycle_items, expires, armed, handlers, runs, busy, given,
          stopping, start, posts>>

Init ==
    /\ now = 0
    /\ m_cycle_items = {}
    /\ expires = [f \in Funcs |-> 0]
    /\ armed = [f \in Funcs |-> 0]
    /\ handlers = [f \in Funcs |-> 0]
    /\ runs = [f \in All |-> 0]
    /\ busy = [w \in Workers |-> Idle]
    /\ given = {}
    /\ stopping = "no"
    /\ start = [f \in Funcs |-> 0]
    /\ posts = [f \in Funcs |-> 0]

-----------------------------------------------------------------------------
Elapse(k) ==
    /\ now + k <= MaxTime
    /\ now' = now + k
    /\ UNCHANGED <<timers, queue, busy, given, stopping, history>>

\* The io_service finds the timer expired.
Expire(f) ==
    /\ stopping \in {"no", "cancelled"}
    /\ armed[f] > 0
    /\ now >= expires[f]
    /\ armed' = [armed EXCEPT ![f] = 0]
    /\ handlers' = [handlers EXCEPT ![f] = @ + armed[f]]
    /\ UNCHANGED <<now, m_cycle_items, expires, runs, busy, given, stopping,
                   history>>

-----------------------------------------------------------------------------
(* The interface, called by the components' threads.                         *)

Execute(t) ==
    /\ t \notin given
    /\ stopping = "no"
    /\ given' = given \union {t}
    /\ runs' = [runs EXCEPT ![t] = @ + 1]
    /\ UNCHANGED <<now, timers, handlers, busy, stopping, history>>

execute_cyclic(f) ==
    /\ f \notin given
    /\ stopping = "no"
    /\ given' = given \union {f}
    /\ m_cycle_items' = m_cycle_items \union {f}
    /\ expires' = [expires EXCEPT ![f] = now + period[f]]
    /\ armed' = [armed EXCEPT ![f] = 1]
    /\ start' = [start EXCEPT ![f] = now]
    /\ UNCHANGED <<now, queue, busy, stopping, posts>>

\* Mutant of stop_cyclic: the timer is left as it is.
stop_cyclic_TimerKept(f) ==
    /\ f \in m_cycle_items
    /\ stopping = "no"
    /\ m_cycle_items' = m_cycle_items \ {f}
    /\ UNCHANGED <<now, expires, armed, handlers, runs, busy, given, stopping,
                   history>>

\* The erased item was the last owner of its timer, whose end cancels it.
stop_cyclic(f) ==
    /\ f \in m_cycle_items
    /\ stopping = "no"
    /\ m_cycle_items' = m_cycle_items \ {f}
    /\ armed' = [armed EXCEPT ![f] = 0]
    /\ handlers' = [handlers EXCEPT ![f] = @ + armed[f]]
    /\ UNCHANGED <<now, expires, runs, busy, given, stopping, history>>

-----------------------------------------------------------------------------
(* A worker takes the next handler or function from the io_service.          *)

Working == stopping \in {"no", "cancelled", "cleared"}
Free(w) == busy[w] = Idle

\* Mutant of RunHandler: the timer is set without adding the period.
RunHandler_Early(w, f) ==
    /\ Working
    /\ Free(w)
    /\ handlers[f] > 0
    /\ IF f \in m_cycle_items
       THEN /\ runs' = [runs EXCEPT ![f] = @ + 1]
            /\ posts' = [posts EXCEPT ![f] = @ + 1]
            /\ expires' = [expires EXCEPT ![f] = now]
            /\ handlers' = [handlers EXCEPT ![f] = (@ - 1) + armed[f]]
            /\ armed' = [armed EXCEPT ![f] = 1]
       ELSE /\ handlers' = [handlers EXCEPT ![f] = @ - 1]
            /\ UNCHANGED <<runs, posts, expires, armed>>
    /\ UNCHANGED <<now, m_cycle_items, busy, given, stopping, start>>

\* Mutant of RunHandler: the function is posted before it is looked up.
RunHandler_NoFind(w, f) ==
    /\ Working
    /\ Free(w)
    /\ handlers[f] > 0
    /\ handlers' = [handlers EXCEPT ![f] = @ - 1]
    /\ runs' = [runs EXCEPT ![f] = @ + 1]
    /\ posts' = [posts EXCEPT ![f] = @ + 1]
    /\ IF f \in m_cycle_items
       THEN /\ expires' = [expires EXCEPT ![f] = @ + period[f]]
            /\ armed' = [armed EXCEPT ![f] = 1]
       ELSE UNCHANGED <<expires, armed>>
    /\ UNCHANGED <<now, m_cycle_items, busy, given, stopping, start>>

\* Mutant of RunHandler: the timer is not started again.
RunHandler_Once(w, f) ==
    /\ Working
    /\ Free(w)
    /\ handlers[f] > 0
    /\ handlers' = [handlers EXCEPT ![f] = @ - 1]
    /\ IF f \in m_cycle_items
       THEN /\ runs' = [runs EXCEPT ![f] = @ + 1]
            /\ posts' = [posts EXCEPT ![f] = @ + 1]
       ELSE UNCHANGED <<runs, posts>>
    /\ UNCHANGED <<now, m_cycle_items, expires, armed, busy, given, stopping,
                   start>>

\* The handler posts the function and sets the timer one period on, which
\* cancels any other wait on it. It returns before it can be interrupted.
RunHandler(w, f) ==
    /\ Working
    /\ Free(w)
    /\ handlers[f] > 0
    /\ IF f \in m_cycle_items
       THEN /\ runs' = [runs EXCEPT ![f] = @ + 1]
            /\ posts' = [posts EXCEPT ![f] = @ + 1]
            /\ expires' = [expires EXCEPT ![f] = @ + period[f]]
            /\ handlers' = [handlers EXCEPT ![f] = (@ - 1) + armed[f]]
            /\ armed' = [armed EXCEPT ![f] = 1]
       ELSE /\ handlers' = [handlers EXCEPT ![f] = @ - 1]
            /\ UNCHANGED <<runs, posts, expires, armed>>
    /\ UNCHANGED <<now, m_cycle_items, busy, given, stopping, start>>

RunFunction(w, f) ==
    /\ Working
    /\ Free(w)
    /\ runs[f] > 0
    /\ runs' = [runs EXCEPT ![f] = @ - 1]
    /\ busy' = [busy EXCEPT ![w] = f]
    /\ UNCHANGED <<now, timers, handlers, given, stopping, history>>

\* Mutant of EndFunction: an exception ends the worker's thread.
EndFunction_Dies(w) ==
    /\ ~Free(w)
    /\ busy' = [v \in Workers \ {w} |-> busy[v]]
    /\ UNCHANGED <<now, timers, queue, given, stopping, history>>

\* It returns, or throws: then WorkerThread reports it and runs on.
EndFunction(w) ==
    /\ ~Free(w)
    /\ busy' = [busy EXCEPT ![w] = Idle]
    /\ UNCHANGED <<now, timers, queue, given, stopping, history>>

-----------------------------------------------------------------------------
(* stopExecution.                                                            *)

CancelTimers ==
    /\ stopping = "no"
    /\ stopping' = "cancelled"
    /\ armed' = [f \in Funcs |-> IF f \in m_cycle_items THEN 0 ELSE armed[f]]
    /\ handlers' = [f \in Funcs |-> handlers[f] +
                       IF f \in m_cycle_items THEN armed[f] ELSE 0]
    /\ UNCHANGED <<now, m_cycle_items, expires, runs, busy, given, history>>

\* clear() ends the timers that handlers have set in the meantime.
ClearItems ==
    /\ stopping = "cancelled"
    /\ stopping' = "cleared"
    /\ m_cycle_items' = {}
    /\ armed' = [f \in Funcs |-> 0]
    /\ handlers' = [f \in Funcs |-> handlers[f] + armed[f]]
    /\ UNCHANGED <<now, expires, runs, busy, given, history>>

\* io_service::stop, and join_all when every worker has come out.
StopService ==
    /\ stopping = "cleared"
    /\ stopping' = "stopped"
    /\ UNCHANGED <<now, timers, queue, busy, given, history>>

Join ==
    /\ stopping = "stopped"
    /\ \A w \in Workers : Free(w)
    /\ stopping' = "joined"
    /\ UNCHANGED <<now, timers, queue, busy, given, history>>

-----------------------------------------------------------------------------
Caller ==
    \/ \E t \in Tasks : Execute(t)
    \/ \E f \in Funcs : execute_cyclic(f) \/ stop_cyclic(f)

WorkerThread(w) ==
    \/ \E f \in Funcs : RunHandler(w, f)
    \/ \E f \in All : RunFunction(w, f)
    \/ EndFunction(w)

StopExecution == CancelTimers \/ ClearItems \/ StopService \/ Join

Next ==
    \/ \E k \in 1..MaxJump : Elapse(k)
    \/ \E f \in Funcs : Expire(f)
    \/ Caller
    \/ \E w \in Workers : WorkerThread(w)
    \/ StopExecution

Spec == Init /\ [][Next]_vars

\* The io_service sees its timers, functions return, and a queued handler
\* gets its turn among what else is queued.
Fairness ==
    /\ \A f \in Funcs : /\ WF_vars(Expire(f))
                        /\ SF_vars(\E w \in Workers : RunHandler(w, f))
    /\ \A w \in Workers : WF_vars(EndFunction(w))

FairSpec == Spec /\ Fairness

-----------------------------------------------------------------------------
(* Properties.                                                               *)

\* The types of the variables.
TypeOK ==
    /\ now \in Nat
    /\ m_cycle_items \subseteq Funcs
    /\ expires \in [Funcs -> Nat]
    /\ armed \in [Funcs -> Nat]
    /\ handlers \in [Funcs -> Nat]
    /\ runs \in [All -> Nat]
    /\ busy \in [Workers -> All \union {Idle}]
    /\ given \subseteq All
    /\ stopping \in {"no", "cancelled", "cleared", "stopped", "joined"}
    /\ start \in [Funcs -> Nat]
    /\ posts \in [Funcs -> Nat]

\* A function in the table has exactly one wait or handler, whatever was
\* cancelled: its timer neither dies nor runs twice. One that is out of it
\* has no timer left.
OneTimerEach ==
    \A f \in Funcs : IF f \in m_cycle_items
                     THEN armed[f] + handlers[f] = 1
                     ELSE armed[f] = 0

\* Until the executor is stopped no function is posted before its time: its
\* n-th post comes n periods after execute_cyclic, even when the clock was
\* set ahead and the missed periods are made up for in a burst.
PostedOnTime ==
    stopping = "no" =>
        \A f \in Funcs : posts[f] * period[f] <= now - start[f]

\* Once stop_cyclic has returned nothing posts the function any more: all
\* that is left of it is what is queued.
NoPostAfterStop ==
    [][\A f \in Funcs : f \in given \ m_cycle_items => posts'[f] = posts[f]]_vars

\* A function that is due is posted until it is no longer, unless it or the
\* executor is stopped: a burst of missed periods is worked off.
CatchesUp ==
    \A f \in Funcs :
        (f \in m_cycle_items /\ expires[f] <= now)
            ~> (expires[f] > now \/ f \notin m_cycle_items \/ stopping # "no")
=============================================================================
