-------------------------- MODULE FinalHavenProofs --------------------------
(***************************************************************************)
(* Type correctness of the report queue, that it and the loop around it    *)
(* implement ReportPolicy, and that nothing but a signal given to the      *)
(* owner of m_queue_mutex locks the program up, for any set of threads and *)
(* any number of reports and signals.                                      *)
(***************************************************************************)
EXTENDS FinalHaven, SequenceTheorems, TLAPS

\* What the operations on a stack of calls do to it.
LEMMA EnterCall ==
  ASSUME calls \in [Threads -> Seq(Pushes)], NEW t \in Threads,
         NEW level \in Levels, NEW sig \in Signals \union {"none"},
         Enter(t, level, sig)
  PROVE  /\ calls' \in [Threads -> Seq(Pushes)]
         /\ \A u \in Threads \ {t} : calls'[u] = calls[u]
         /\ Len(calls'[t]) = Len(calls[t]) + 1
         /\ \A i \in 1..Len(calls[t]) : calls'[t][i] = calls[t][i]
         /\ calls'[t][Len(calls[t]) + 1] =
               [at |-> "lock", level |-> level, sig |-> sig]
  <1> DEFINE new == [at |-> "lock", level |-> level, sig |-> sig]
  <1>1. new \in Pushes
    BY DEF Pushes
  <1>2. calls[t] \in Seq(Pushes) /\ calls' = [calls EXCEPT ![t] = Append(calls[t], new)]
    BY DEF Enter
  <1> HIDE DEF new
  <1>3. /\ Append(calls[t], new) \in Seq(Pushes)
        /\ Len(Append(calls[t], new)) = Len(calls[t]) + 1
        /\ \A i \in 1..Len(calls[t]) : Append(calls[t], new)[i] = calls[t][i]
        /\ Append(calls[t], new)[Len(calls[t]) + 1] = new
    BY <1>1, <1>2
  <1> QED
    BY <1>2, <1>3 DEF new

\* The call on top of a stack is one of the calls.
LEMMA TopCall ==
  ASSUME calls \in [Threads -> Seq(Pushes)], NEW t \in Threads, Busy(t)
  PROVE  Len(calls[t]) \in Nat \ {0} /\ Top(t) \in Pushes
  <1>1. calls[t] \in Seq(Pushes) /\ calls[t] # <<>>
    BY DEF Busy
  <1>2. Len(calls[t]) \in Nat \ {0}
    BY <1>1
  <1> QED
    BY <1>1, <1>2 DEF Top

\* A step inside the call on top leaves a stack of calls.
LEMMA MoveCall ==
  ASSUME calls \in [Threads -> Seq(Pushes)], NEW t \in Threads, Busy(t),
         NEW at \in {"lock", "locked", "notify"}, MoveTo(t, at)
  PROVE  /\ calls' \in [Threads -> Seq(Pushes)]
         /\ \A u \in Threads \ {t} : calls'[u] = calls[u]
         /\ Len(calls'[t]) = Len(calls[t])
         /\ Top(t)' = [Top(t) EXCEPT !.at = at]
  <1> DEFINE n == Len(calls[t])
             new == [Top(t) EXCEPT !.at = at]
             seq == [calls[t] EXCEPT ![n] = new]
  <1>1. calls[t] \in Seq(Pushes) /\ n \in Nat \ {0} /\ Top(t) \in Pushes
    BY TopCall
  <1>2. new \in Pushes
    BY <1>1 DEF Pushes
  <1>3. seq \in Seq(Pushes) /\ Len(seq) = n /\ seq[n] = new
    <2> HIDE DEF new
    <2> QED
      BY <1>1, <1>2
  <1>4. calls' = [calls EXCEPT ![t] = seq]
    BY DEF MoveTo, Top
  <1> HIDE DEF seq
  <1> QED
    BY <1>1, <1>3, <1>4 DEF Top

\* A return leaves a stack of calls.
LEMMA ReturnCall ==
  ASSUME calls \in [Threads -> Seq(Pushes)], NEW t \in Threads, Busy(t), Return(t)
  PROVE  /\ calls' \in [Threads -> Seq(Pushes)]
         /\ \A u \in Threads \ {t} : calls'[u] = calls[u]
         /\ Len(calls'[t]) = Len(calls[t]) - 1
  <1> DEFINE seq == SubSeq(calls[t], 1, Len(calls[t]) - 1)
  <1>1. calls[t] \in Seq(Pushes) /\ Len(calls[t]) \in Nat \ {0}
    BY TopCall
  <1>2. seq \in Seq(Pushes) /\ Len(seq) = Len(calls[t]) - 1
    <2> DEFINE n == Len(calls[t]) - 1
    <2>1. n \in Nat /\ \A i \in 1..n : calls[t][i] \in Pushes
      BY <1>1
    <2> HIDE DEF n
    <2>2. /\ SubSeq(calls[t], 1, n) \in Seq(Pushes)
          /\ Len(SubSeq(calls[t], 1, n)) = IF 1 <= n THEN n - 1 + 1 ELSE 0
      BY <2>1, SubSeqProperties
    <2>3. Len(SubSeq(calls[t], 1, n)) = n
      BY <2>1, <2>2
    <2> QED
      BY <2>2, <2>3, Zenon DEF n
  <1>3. calls' = [calls EXCEPT ![t] = seq]
    BY DEF Return
  <1> HIDE DEF seq
  <1> QED
    BY <1>2, <1>3

-----------------------------------------------------------------------------
\* The reports start well typed.
LEMMA InitType == Init => TypeOK
  BY FinalHavenAssumption DEF Init, TypeOK

\* Every step keeps the types.
LEMMA NextType == TypeOK /\ [Next]_vars => TypeOK'
  <1> SUFFICES ASSUME TypeOK, [Next]_vars PROVE TypeOK'
    OBVIOUS
  <1>0. calls \in [Threads -> Seq(Pushes)]
    BY DEF TypeOK
  <1>1. ASSUME NEW t \in Threads, PushLock(t) PROVE TypeOK'
    <2>1. calls' \in [Threads -> Seq(Pushes)]
      BY <1>0, <1>1, MoveCall DEF PushLock
    <2> QED
      BY <1>1, <2>1 DEF TypeOK, PushLock
  <1>2. ASSUME NEW t \in Threads, PushStore(t) PROVE TypeOK'
    <2>1. calls' \in [Threads -> Seq(Pushes)]
      BY <1>0, <1>2, MoveCall DEF PushStore
    <2>2. Top(t).level \in Levels
      BY <1>0, <1>2, TopCall DEF PushStore, Pushes
    <2>3. m_queue' \in Seq(Levels)
      BY <1>2, <2>2 DEF PushStore, TypeOK
    <2> QED
      BY <1>2, <2>1, <2>3 DEF TypeOK, PushStore
  <1>3. ASSUME NEW t \in Threads, PushNotify(t) PROVE TypeOK'
    <2>1. calls' \in [Threads -> Seq(Pushes)]
      BY <1>0, <1>3, ReturnCall DEF PushNotify
    <2> QED
      BY <1>3, <2>1 DEF TypeOK, PushNotify
  <1>4. CASE PopLock
    BY <1>4 DEF TypeOK, PopLock, Threads
  <1>5. CASE PopTake
    <2>1. Head(m_queue) \in Levels /\ Tail(m_queue) \in Seq(Levels)
      BY <1>5 DEF TypeOK, PopTake
    <2> QED
      BY <1>5, <2>1 DEF TypeOK, PopTake
  <1>6. CASE PopWait
    BY <1>6 DEF TypeOK, PopWait
  <1>7. CASE PopTimeout
    BY <1>7 DEF TypeOK, PopTimeout
  <1>8. CASE TakeAction
    BY <1>8 DEF TypeOK, TakeAction
  <1>9. ASSUME NEW t \in Reporters, NEW l \in Levels, Report(t, l) PROVE TypeOK'
    <2>1. calls' \in [Threads -> Seq(Pushes)]
      BY <1>0, <1>9, EnterCall DEF Report, Threads
    <2> QED
      BY <1>9, <2>1, FinalHavenAssumption DEF TypeOK, Report
  <1>10. ASSUME NEW s \in Signals, Send(s) PROVE TypeOK'
    BY <1>10, FinalHavenAssumption DEF TypeOK, Send
  <1>11. ASSUME NEW s \in Signals, NEW t \in Threads, Deliver(s, t) PROVE TypeOK'
    <2>1. calls' \in [Threads -> Seq(Pushes)]
      BY <1>0, <1>11, EnterCall, FinalHavenAssumption DEF Deliver, Levels
    <2> QED
      BY <1>11, <2>1 DEF TypeOK, Deliver
  <1>12. CASE UNCHANGED vars
    BY <1>12 DEF TypeOK, vars
  <1> QED
    BY <1>1, <1>2, <1>3, <1>4, <1>5, <1>6, <1>7, <1>8, <1>9, <1>10, <1>11, <1>12
       DEF Next, Push, Pop

\* The type invariant of the queue, the stacks of calls and the launcher.
THEOREM TypeCorrectness == Spec => []TypeOK
  BY InitType, NextType, PTL DEF Spec

-----------------------------------------------------------------------------
(* The queue and the launcher's loop implement ReportPolicy.                 *)

\* Every step is a step of ReportPolicy or leaves its channel as it is.
LEMMA NextPolicy == TypeOK /\ [Next]_vars => [Policy!Next]_(Policy!channel)
  <1> SUFFICES ASSUME TypeOK, [Next]_vars
               PROVE  \/ Policy!Next
                      \/ (item \o m_queue)' = item \o m_queue /\ exit_request' = exit_request
    BY DEF Policy!channel
  <1>0. m_queue \in Seq(Levels) /\ calls \in [Threads -> Seq(Pushes)]
    BY DEF TypeOK
  \* Storing a report is making it.
  <1>1. ASSUME NEW t \in Threads, PushStore(t) PROVE Policy!Next
    <2> DEFINE l == Top(t).level
    <2>1. l \in Levels
      BY <1>0, <1>1, TopCall DEF PushStore, Pushes
    <2>2. m_queue' = Append(m_queue, l) /\ item' = item /\ exit_request' = exit_request
      BY <1>1 DEF PushStore
    <2> HIDE DEF l
    <2>3. item \in Seq(Levels)
      <3>1. CASE item = <<>>
        BY <3>1
      <3>2. CASE \E k \in Levels : item = <<k>>
        BY <3>2
      <3> QED
        BY <3>1, <3>2 DEF TypeOK
    <2>4. item \o Append(m_queue, l) = Append(item \o m_queue, l)
      BY <1>0, <2>1, <2>3
    <2>5. Policy!Report(l)
      BY <2>2, <2>4 DEF Policy!Report
    <2> QED
      BY <2>1, <2>5 DEF Policy!Next
  \* Between the queue and the future the report is still to be taken up.
  <1>2. CASE PopTake
    <2>1. /\ item = <<>> /\ m_queue # <<>>
          /\ item' = <<Head(m_queue)>> /\ m_queue' = Tail(m_queue)
          /\ exit_request' = exit_request
      BY <1>2 DEF TypeOK, PopTake
    <2>2. <<Head(m_queue)>> \o Tail(m_queue) = <<>> \o m_queue
      BY <1>0, <2>1
    <2> QED
      BY <2>1, <2>2
  \* The launcher's switch takes it up.
  <1>3. CASE TakeAction
    <2>1. PICK l \in Levels : item = <<l>>
      BY <1>3 DEF TypeOK, TakeAction
    <2>2. /\ item' = <<>> /\ m_queue' = m_queue /\ ~exit_request
          /\ exit_request' = (l \in Fatal)
      BY <1>3, <2>1 DEF TypeOK, TakeAction
    <2>3. /\ item \o m_queue # <<>> /\ Head(item \o m_queue) = l
          /\ Tail(item \o m_queue) = <<>> \o m_queue
      BY <1>0, <2>1
    <2> QED
      BY <2>2, <2>3 DEF Policy!Next, Policy!TakeUp
  <1>4. ASSUME UNCHANGED <<m_queue, item, exit_request>>
        PROVE  (item \o m_queue)' = item \o m_queue /\ exit_request' = exit_request
    BY <1>4
  <1> QED
    BY <1>1, <1>2, <1>3, <1>4
       DEF Next, vars, Push, Pop, PushLock, PushNotify, PopLock, PopWait, PopTimeout,
           Report, Send, Deliver

\* Whatever the threads, the signal handlers and the timeouts of pop do, the
\* launcher acts upon the reports in the order their pushes got the mutex, each
\* once, and leaves at the first fatal one and for no other reason.
THEOREM QueueFollowsPolicy == Spec => FollowsPolicy
  <1>1. Init => Policy!Init
    BY DEF Init, Policy!Init
  <1> QED
    BY <1>1, NextPolicy, TypeCorrectness, PTL DEF Spec, FollowsPolicy, Policy!Spec

-----------------------------------------------------------------------------
(* What locks the program up.                                                *)

\* What the thread that owns the mutex is doing: pop looks at the queue, or one
\* of its pushes stores a report, and every call above that waits in lock().
HeldBy(t) ==
    owner = t =>
        \E j \in 0..Len(calls[t]) :
            /\ j = 0 => t = "popper" /\ popping = "check"
            /\ j > 0 => calls[t][j].at = "locked"
            /\ \A k \in (j + 1)..Len(calls[t]) : calls[t][k].at = "lock"

Held == \A t \in Threads : HeldBy(t)

\* A step that leaves the thread's stack alone and does not give it the mutex.
LEMMA ElsewhereHeld ==
  ASSUME NEW t \in Threads, HeldBy(t), calls'[t] = calls[t],
         owner' = t => owner = t /\ (popping = "check" => popping' = "check")
  PROVE  HeldBy(t)'
  BY DEF HeldBy

\* The owner's topmost call waits in lock() or stores, and only pop has none.
LEMMA OwnersTop ==
  ASSUME calls \in [Threads -> Seq(Pushes)], NEW t \in Threads, HeldBy(t), owner = t
  PROVE  /\ Busy(t) => Top(t).at \in {"lock", "locked"}
         /\ ~Busy(t) => t = "popper"
  <1>1. calls[t] \in Seq(Pushes) /\ Len(calls[t]) \in Nat
    OBVIOUS
  <1>2. PICK j \in 0..Len(calls[t]) :
           /\ j = 0 => t = "popper" /\ popping = "check"
           /\ j > 0 => calls[t][j].at = "locked"
           /\ \A k \in (j + 1)..Len(calls[t]) : calls[t][k].at = "lock"
    BY DEF HeldBy
  <1>3. ASSUME Busy(t) PROVE Top(t).at \in {"lock", "locked"}
    <2>1. Len(calls[t]) \in Nat \ {0}
      BY <1>3, TopCall
    <2>2. CASE j = Len(calls[t])
      BY <1>2, <2>1, <2>2 DEF Top
    <2>3. CASE j < Len(calls[t])
      BY <1>2, <2>1, <2>3 DEF Top
    <2> QED
      BY <1>2, <2>1, <2>2, <2>3
  <1>4. ASSUME ~Busy(t) PROVE t = "popper"
    <2>1. Len(calls[t]) = 0
      BY <1>4 DEF Busy
    <2> QED
      BY <1>2, <2>1
  <1> QED
    BY <1>3, <1>4

\* Every step keeps that account of the owner.
LEMMA NextHeld == TypeOK /\ Held /\ [Next]_vars => Held'
  <1> SUFFICES ASSUME TypeOK, Held, [Next]_vars PROVE Held'
    OBVIOUS
  <1>0. /\ calls \in [Threads -> Seq(Pushes)]
        /\ "popper" \in Threads /\ "none" \notin Threads
        /\ Reporters \subseteq Threads
    BY FinalHavenAssumption DEF TypeOK, Threads
  <1>1. ASSUME NEW t \in Threads, PushLock(t) PROVE Held'
    <2>1. /\ Busy(t) /\ owner' = t /\ MoveTo(t, "locked")
      BY <1>1 DEF PushLock
    <2>2. /\ calls' \in [Threads -> Seq(Pushes)]
          /\ Len(calls'[t]) = Len(calls[t]) /\ Top(t)' = [Top(t) EXCEPT !.at = "locked"]
      BY <1>0, <2>1, MoveCall
    <2>3. Len(calls[t]) \in Nat \ {0} /\ Top(t) \in Pushes
      BY <1>0, <2>1, TopCall
    <2>4. calls'[t][Len(calls'[t])].at = "locked"
      BY <2>2, <2>3 DEF Top, Pushes
    <2>5. HeldBy(t)'
      <3> DEFINE j == Len(calls'[t])
      <3>1. j \in 0..Len(calls'[t]) /\ j > 0 /\ (j + 1)..Len(calls'[t]) = {}
        BY <2>2, <2>3
      <3> QED
        BY <2>4, <3>1 DEF HeldBy
    <2>6. \A u \in Threads \ {t} : HeldBy(u)'
      BY <2>1 DEF HeldBy
    <2> QED
      BY <2>5, <2>6 DEF Held
  <1>2. ASSUME owner' = "none" PROVE Held'
    BY <1>0, <1>2 DEF Held, HeldBy
  <1>3. ASSUME NEW t \in Threads, PushNotify(t) PROVE Held'
    <2>1. /\ Busy(t) /\ Top(t).at = "notify" /\ owner' = owner /\ Return(t)
          /\ popping = "check" => popping' = "check"
      BY <1>3 DEF PushNotify
    <2>2. \A u \in Threads \ {t} : calls'[u] = calls[u]
      BY <1>0, <2>1, ReturnCall
    <2>3. owner # t
      BY <1>0, <2>1, OwnersTop DEF Held
    <2>4. HeldBy(t)'
      BY <2>1, <2>3 DEF HeldBy
    <2>5. \A u \in Threads \ {t} : HeldBy(u)'
      BY <2>1, <2>2, ElsewhereHeld DEF Held
    <2> QED
      BY <2>4, <2>5 DEF Held
  \* A new call waits in lock() above what is there.
  <1>4. ASSUME NEW t \in Threads, owner' = owner, popping' = popping,
               NEW level \in Levels, NEW sig \in Signals \union {"none"},
               Enter(t, level, sig)
        PROVE  Held'
    <2>1. /\ \A u \in Threads \ {t} : calls'[u] = calls[u]
          /\ Len(calls'[t]) = Len(calls[t]) + 1
          /\ \A i \in 1..Len(calls[t]) : calls'[t][i] = calls[t][i]
          /\ calls'[t][Len(calls[t]) + 1] = [at |-> "lock", level |-> level, sig |-> sig]
      BY <1>0, <1>4, EnterCall
    <2>2. calls'[t][Len(calls[t]) + 1].at = "lock"
      BY <2>1
    <2>3. ASSUME owner = t PROVE HeldBy(t)'
      <3>1. PICK j \in 0..Len(calls[t]) :
               /\ j = 0 => t = "popper" /\ popping = "check"
               /\ j > 0 => calls[t][j].at = "locked"
               /\ \A k \in (j + 1)..Len(calls[t]) : calls[t][k].at = "lock"
        BY <2>3 DEF Held, HeldBy
      <3>2. Len(calls[t]) \in Nat
        BY <1>0
      <3>3. j \in 0..Len(calls'[t]) /\ (j > 0 => calls'[t][j].at = "locked")
        BY <2>1, <3>1, <3>2
      <3>4. \A k \in (j + 1)..Len(calls'[t]) : calls'[t][k].at = "lock"
        <4>1. ASSUME NEW k \in (j + 1)..Len(calls'[t]) PROVE calls'[t][k].at = "lock"
          <5>1. k = Len(calls[t]) + 1 \/ k \in (j + 1)..Len(calls[t])
            BY <2>1, <3>1, <3>2
          <5>2. CASE k = Len(calls[t]) + 1
            BY <2>2, <5>2
          <5>3. CASE k \in (j + 1)..Len(calls[t])
            BY <2>1, <3>1, <3>2, <5>3
          <5> QED
            BY <5>1, <5>2, <5>3
        <4> QED
          BY <4>1
      <3>5. j = 0 => t = "popper" /\ popping' = "check"
        BY <1>4, <3>1
      <3> QED
        BY <3>3, <3>4, <3>5 DEF HeldBy
    <2>4. owner # t => HeldBy(t)'
      BY <1>4 DEF HeldBy
    <2>5. \A u \in Threads \ {t} : HeldBy(u)'
      BY <1>4, <2>1, ElsewhereHeld DEF Held
    <2> QED
      BY <2>3, <2>4, <2>5 DEF Held
  <1>5. ASSUME NEW t \in Reporters, NEW l \in Levels, Report(t, l) PROVE Held'
    BY <1>0, <1>4, <1>5 DEF Report
  <1>6. ASSUME NEW s \in Signals, NEW t \in Threads, Deliver(s, t) PROVE Held'
    BY <1>4, <1>6 DEF Deliver, Levels
  <1>7. CASE PopLock
    <2>1. owner' = "popper" /\ popping' = "check" /\ calls' = calls /\ calls["popper"] = <<>>
      BY <1>7 DEF PopLock, Busy
    <2>2. Len(calls'["popper"]) = 0
      BY <2>1
    <2>3. HeldBy("popper")'
      BY <2>1, <2>2 DEF HeldBy
    <2>4. \A u \in Threads \ {"popper"} : HeldBy(u)'
      BY <2>1 DEF HeldBy
    <2> QED
      BY <2>3, <2>4 DEF Held
  <1>8. ASSUME calls' = calls, owner' = owner, popping = "check" => popping' = "check"
        PROVE  Held'
    BY <1>8, ElsewhereHeld DEF Held
  <1>9. CASE \/ PopTake \/ PopWait \/ \E t \in Threads : PushStore(t)
    BY <1>2, <1>9 DEF PopTake, PopWait, PushStore
  <1>10. CASE \/ PopTimeout \/ TakeAction \/ (\E s \in Signals : Send(s)) \/ UNCHANGED vars
    BY <1>8, <1>10 DEF PopTimeout, TakeAction, Send, vars
  <1> QED
    BY <1>1, <1>3, <1>5, <1>6, <1>7, <1>9, <1>10 DEF Next, Push, Pop

\* A step that locks the program up is a signal given to the mutex's owner.
LEMMA LockingUp ==
  ASSUME TypeOK, Held, [Next]_vars, ~LockedUp, LockedUp'
  PROVE  \E s \in Signals, t \in Threads : owner = t /\ Deliver(s, t)
  <1>0. /\ calls \in [Threads -> Seq(Pushes)]
        /\ "popper" \in Threads /\ "none" \notin Threads
        /\ Reporters \subseteq Threads /\ "popper" \notin Reporters
    BY FinalHavenAssumption DEF TypeOK, Threads
  <1>1. PICK u \in Threads : Busy(u)' /\ Top(u)'.at = "lock" /\ owner' = u
    BY DEF LockedUp
  <1>2. ~(calls'[u] = calls[u] /\ owner' = owner)
    BY <1>1 DEF LockedUp, Busy, Top
  <1>3. ASSUME NEW t \in Threads, PushLock(t) PROVE FALSE
    <2>1. Busy(t) /\ u = t /\ MoveTo(t, "locked")
      BY <1>1, <1>3 DEF PushLock
    <2>2. Top(t) \in Pushes /\ Top(t)' = [Top(t) EXCEPT !.at = "locked"]
      BY <1>0, <2>1, MoveCall, TopCall
    <2>3. Top(t)'.at = "locked"
      BY <2>2 DEF Pushes
    <2> QED
      BY <1>1, <2>1, <2>3
  <1>4. owner' # "none"
    BY <1>0, <1>1
  <1>5. ASSUME NEW t \in Threads, PushNotify(t) PROVE FALSE
    <2>1. /\ Busy(t) /\ Top(t).at = "notify" /\ owner' = owner /\ Return(t)
      BY <1>5 DEF PushNotify
    <2>2. \A v \in Threads \ {t} : calls'[v] = calls[v]
      BY <1>0, <2>1, ReturnCall
    <2>3. owner = t
      BY <1>1, <1>2, <2>1, <2>2
    <2> QED
      BY <1>0, <2>1, <2>3, OwnersTop DEF Held
  <1>6. ASSUME NEW t \in Threads, owner' = owner,
               NEW level \in Levels, NEW sig \in Signals \union {"none"},
               Enter(t, level, sig)
        PROVE  owner = t
    <2>1. \A v \in Threads \ {t} : calls'[v] = calls[v]
      BY <1>0, <1>6, EnterCall
    <2> QED
      BY <1>1, <1>2, <1>6, <2>1
  <1>7. ASSUME NEW t \in Reporters, NEW l \in Levels, Report(t, l) PROVE FALSE
    <2>1. owner = t /\ ~Busy(t)
      BY <1>0, <1>6, <1>7 DEF Report
    <2> QED
      BY <1>0, <2>1, OwnersTop DEF Held
  <1>8. ASSUME NEW s \in Signals, NEW t \in Threads, Deliver(s, t) PROVE owner = t
    BY <1>6, <1>8 DEF Deliver, Levels
  <1>9. ~PopLock
    BY <1>1, <1>2 DEF PopLock, Busy
  <1>10. \/ \E t \in Threads : PushLock(t) \/ PushNotify(t)
         \/ \E t \in Reporters, l \in Levels : Report(t, l)
         \/ \E s \in Signals, t \in Threads : Deliver(s, t)
    BY <1>2, <1>4, <1>9
       DEF Next, Push, Pop, PushStore, PopTake, PopWait, PopTimeout, TakeAction, Send, vars
  <1> QED
    BY <1>3, <1>5, <1>7, <1>8, <1>10

\* Whatever the threads, the signals and the time-outs do, the one step after
\* which a thread waits for the mutex it holds itself is a signal handler on top
\* of that owner: a push, a handler's push or pop's look at the queue.
THEOREM LocksUpInHandlersOnly == Spec => OnlyHandlersLockUp
  <1>1. Init => Held
    BY FinalHavenAssumption DEF Init, Held, HeldBy
  <1>2. TypeOK /\ Held /\ [Next]_vars => Held'
    BY NextHeld
  <1>3. TypeOK /\ Held /\ [Next]_vars =>
           (~LockedUp /\ LockedUp' =>
               \E s \in Signals, t \in Threads : owner = t /\ Deliver(s, t))
    BY LockingUp
  <1> QED
    BY <1>1, <1>2, <1>3, TypeCorrectness, PTL DEF Spec, OnlyHandlersLockUp
=============================================================================
