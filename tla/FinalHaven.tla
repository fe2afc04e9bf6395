----------------------------- MODULE FinalHaven -----------------------------
(***************************************************************************)
(* CFinalHaven, its TUniQueue and the launcher's loop around waitAction.   *)
(*                                                                         *)
(* Reports are pushed by threads of the program and by signal handlers.  A *)
(* handler runs on top of whatever the interrupted thread was doing, so a  *)
(* thread is a stack of push calls of which only the last one advances.    *)
(* The two async threads behind waitAction are one, "popper": the outer    *)
(* one only waits for the inner one, and a signal given to it is one given *)
(* to "main", which waits for both.                                        *)
(***************************************************************************)
EXTENDS Integers, Sequences, FiniteSets

CONSTANTS
    Reporters,    \* the workers, mosquitto's thread and the listener
    Signals,      \* the signals sigaction was called for
    MaxReports,   \* bound: calls of report()
    MaxSignals    \* bound: signals sent

Threads == Reporters \union {"main", "popper"}

ASSUME FinalHavenAssumption ==
    /\ "main" \notin Reporters /\ "popper" \notin Reporters
    /\ "none" \notin Threads \union Signals
    /\ MaxReports \in Nat
    /\ MaxSignals \in Nat

Levels == {"user", "critical", "system", "component"}

\* The levels for which the launcher's switch sets exit_request.
Fatal == {"user", "critical"}

\* A call of TUniQueue::push: where it is, what it pushes, and the signal
\* whose handler makes it.
Pushes == [at : {"lock", "locked", "notify"}, level : Levels,
           sig : Signals \union {"none"}]

VARIABLES
    m_queue,      \* the levels waiting
    owner,        \* the thread that holds m_queue_mutex, or "none"
    calls,        \* each thread's stack of push calls
    popping,      \* the popper's place in TUniQueue::pop
    item,         \* the level pop returned, as a sequence of at most one
    exit_request, \* the launcher has left its loop
    pending,      \* signals sent and not yet delivered
    reports, sent \* counters of the bounds

vars == <<m_queue, owner, calls, popping, item, exit_request, pending,
          reports, sent>>

Init ==
    /\ m_queue = <<>>
    /\ owner = "none"
    /\ calls = [t \in Threads |-> <<>>]
    /\ popping = "lock"
    /\ item = <<>>
    /\ exit_request = FALSE
    /\ pending = {}
    /\ reports = 0
    /\ sent = 0

-----------------------------------------------------------------------------
(* TUniQueue::push, by the last call on thread t's stack.                    *)

Busy(t) == calls[t] # <<>>
Top(t) == calls[t][Len(calls[t])]
Enter(t, level, sig) ==
    calls' = [calls EXCEPT ![t] =
                 Append(@, [at |-> "lock", level |-> level, sig |-> sig])]
MoveTo(t, at) == calls' = [calls EXCEPT ![t][Len(calls[t])].at = at]
Return(t) ==
    calls' = [calls EXCEPT ![t] = SubSeq(@, 1, Len(@) - 1)]

\* std::mutex does not let its owner in again: a second lock() waits.
PushLock(t) ==
    /\ Busy(t)
    /\ Top(t).at = "lock"
    /\ owner = "none"
    /\ owner' = t
    /\ MoveTo(t, "locked")
    /\ UNCHANGED <<m_queue, popping, item, exit_request, pending, reports,
                   sent>>

\* Mutant of PushStore: the mutex is not released before the notification.
PushStore_Locked(t) ==
    /\ Busy(t)
    /\ Top(t).at = "locked"
    /\ m_queue' = Append(m_queue, Top(t).level)
    /\ MoveTo(t, "notify")
    /\ UNCHANGED <<owner, popping, item, exit_request, pending, reports, sent>>

PushStore(t) ==
    /\ Busy(t)
    /\ Top(t).at = "locked"
    /\ m_queue' = Append(m_queue, Top(t).level)
    /\ owner' = "none"
    /\ MoveTo(t, "notify")
    /\ UNCHANGED <<popping, item, exit_request, pending, reports, sent>>

\* notify_one wakes the popper if it waits, and the call returns.
PushNotify(t) ==
    /\ Busy(t)
    /\ Top(t).at = "notify"
    /\ popping' = IF popping = "wait" THEN "lock" ELSE popping
    /\ Return(t)
    /\ UNCHANGED <<m_queue, owner, item, exit_request, pending, reports, sent>>

-----------------------------------------------------------------------------
(* report() and the signals.                                                 *)

Report(t, level) ==
    /\ t \in Reporters
    /\ ~Busy(t)
    /\ reports < MaxReports
    /\ reports' = reports + 1
    /\ Enter(t, level, "none")
    /\ UNCHANGED <<m_queue, owner, popping, item, exit_request, pending, sent>>

\* A signal already pending is not queued again.
Send(s) ==
    /\ sent < MaxSignals
    /\ s \notin pending
    /\ sent' = sent + 1
    /\ pending' = pending \union {s}
    /\ UNCHANGED <<m_queue, owner, calls, popping, item, exit_request,
                   reports>>

Handling(t) == {calls[t][i].sig : i \in 1..Len(calls[t])} \ {"none"}

\* signalHandler interrupts t, which may be any thread: sigaction is for the
\* process, and no thread masks a signal. sa_mask is empty: while the handler
\* runs, only the signal it handles is held back, and from this thread only.
Deliver(s, t) ==
    /\ s \in pending
    /\ ~exit_request
    /\ s \notin Handling(t)
    /\ pending' = pending \ {s}
    /\ Enter(t, "user", s)
    /\ UNCHANGED <<m_queue, owner, popping, item, exit_request, reports, sent>>

-----------------------------------------------------------------------------
(* waitAction: TUniQueue::pop over and over until it returns a report.       *)

PopLock ==
    /\ ~Busy("popper")
    /\ popping = "lock"
    /\ owner = "none"
    /\ owner' = "popper"
    /\ popping' = "check"
    /\ UNCHANGED <<m_queue, calls, item, exit_request, pending, reports, sent>>

\* Mutant of PopTake: the item is read and left in the queue.
PopTake_KeepFront ==
    /\ ~Busy("popper")
    /\ popping = "check"
    /\ m_queue # <<>>
    /\ item' = <<Head(m_queue)>>
    /\ owner' = "none"
    /\ popping' = "done"
    /\ UNCHANGED <<m_queue, calls, exit_request, pending, reports, sent>>

PopTake ==
    /\ ~Busy("popper")
    /\ popping = "check"
    /\ m_queue # <<>>
    /\ item' = <<Head(m_queue)>>
    /\ m_queue' = Tail(m_queue)
    /\ owner' = "none"
    /\ popping' = "done"
    /\ UNCHANGED <<calls, exit_request, pending, reports, sent>>

\* wait_for gives the mutex back while it waits.
PopWait ==
    /\ ~Busy("popper")
    /\ popping = "check"
    /\ m_queue = <<>>
    /\ owner' = "none"
    /\ popping' = "wait"
    /\ UNCHANGED <<m_queue, calls, item, exit_request, pending, reports, sent>>

\* Mutant of PopTimeout: waitAction returns what pop returned, nothing.
PopTimeout_Returns ==
    /\ ~Busy("popper")
    /\ popping = "wait"
    /\ popping' = "done"
    /\ UNCHANGED <<m_queue, owner, calls, item, exit_request, pending, reports,
                   sent>>

\* err_queue_timeout_ms is over: pop looks again, and waitAction after it.
PopTimeout ==
    /\ ~Busy("popper")
    /\ popping = "wait"
    /\ popping' = "lock"
    /\ UNCHANGED <<m_queue, owner, calls, item, exit_request, pending, reports,
                   sent>>

-----------------------------------------------------------------------------
(* The launcher's loop.                                                      *)

\* Mutant of TakeAction: only "critical" ends the program.
TakeAction_IgnoreUser ==
    /\ ~Busy("main")
    /\ popping = "done"
    /\ item' = <<>>
    /\ exit_request' = (Head(item) = "critical")
    /\ popping' = IF Head(item) = "critical" THEN "stopped" ELSE "lock"
    /\ UNCHANGED <<m_queue, owner, calls, pending, reports, sent>>

\* fut.get() returns; the loop calls waitAction again unless it is to exit.
TakeAction ==
    /\ ~Busy("main")
    /\ popping = "done"
    /\ item' = <<>>
    /\ exit_request' = (Head(item) \in Fatal)
    /\ popping' = IF Head(item) \in Fatal THEN "stopped" ELSE "lock"
    /\ UNCHANGED <<m_queue, owner, calls, pending, reports, sent>>

-----------------------------------------------------------------------------
Push(t) == PushLock(t) \/ PushStore(t) \/ PushNotify(t)

Pop == PopLock \/ PopTake \/ PopWait \/ PopTimeout

Next ==
    \/ \E t \in Threads : Push(t)
    \/ Pop
    \/ TakeAction
    \/ \E t \in Reporters, l \in Levels \ {"user"} : Report(t, l)
    \/ \E s \in Signals : \/ Send(s)
                          \/ \E t \in Threads : Deliver(s, t)

\* Every thread that can run does, a mutex taken and given back again and
\* again is got in the end, and a signal that was sent is delivered.
Fairness ==
    /\ \A t \in Threads : /\ SF_vars(PushLock(t))
                          /\ WF_vars(PushStore(t))
                          /\ WF_vars(PushNotify(t))
    /\ SF_vars(PopLock)
    /\ WF_vars(PopTake \/ PopWait \/ PopTimeout)
    /\ WF_vars(TakeAction)
    /\ \A s \in Signals : WF_vars(\E t \in Threads : Deliver(s, t))

Spec == Init /\ [][Next]_vars

FairSpec == Spec /\ Fairness

-----------------------------------------------------------------------------
(* Properties.                                                               *)

\* The types of the variables.
TypeOK ==
    /\ m_queue \in Seq(Levels)
    /\ owner \in Threads \union {"none"}
    /\ calls \in [Threads -> Seq(Pushes)]
    /\ popping \in {"lock", "check", "wait", "done", "stopped"}
    /\ item \in {<<>>} \union {<<l>> : l \in Levels}
    /\ (item # <<>>) <=> (popping = "done")
    /\ exit_request <=> (popping = "stopped")
    /\ pending \subseteq Signals
    /\ reports \in 0..MaxReports
    /\ sent \in 0..MaxSignals

\* The program is locked up for ever: a thread waits for m_queue_mutex, which
\* a frame further down its own stack holds.
LockedUp == \E t \in Threads : Busy(t) /\ Top(t).at = "lock" /\ owner = t

\* Only a signal locks the program up, and only one that interrupts the thread
\* that holds m_queue_mutex at that moment, be it for a push, for another
\* signal's push or for pop: reports and time-outs alone never do.
OnlyHandlersLockUp ==
    [][~LockedUp /\ LockedUp' =>
          \E s \in Signals, t \in Threads : owner = t /\ Deliver(s, t)]_vars

\* The queue and the loop around it implement ReportPolicy: whatever the
\* threads, the handlers and the timeouts do, reports are acted upon in the
\* order their pushes got the mutex, each once.
Policy == INSTANCE ReportPolicy WITH
    pending <- item \o m_queue,
    stopped <- exit_request

FollowsPolicy == Policy!Spec

\* A fatal report made by any thread, and queued behind others, ends the
\* program unless a signal has locked it up.
ReportsEnd ==
    \A t \in Reporters :
        (Busy(t) /\ calls[t][1].level \in Fatal) ~> (exit_request \/ LockedUp)

\* A signal that was sent, to whichever thread it goes and also while another
\* is handled, ends the program or locks it up: none is swallowed.
SignalsReach ==
    \A s \in Signals : (s \in pending) ~> (exit_request \/ LockedUp)

\* "program will be closed immediately because user action",
\* IFinalHaven.hpp:24: a signal that was sent ends the program. The code
\* breaks it, by the steps that OnlyHandlersLockUp names.
SignalsEnd == \A s \in Signals : (s \in pending) ~> exit_request
=============================================================================
