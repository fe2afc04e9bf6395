--------------------------- MODULE ExecutorProofs ---------------------------
(***************************************************************************)
(* Timers neither die nor multiply and never post early, for every set of  *)
(* functions and workers and any periods and jumps of the clock.           *)
(***************************************************************************)
EXTENDS Executor, TLAPS

\* A function not yet given to the executor has left no trace in it.
Fresh ==
    \A f \in Funcs : f \notin given => /\ f \notin m_cycle_items
                                      /\ armed[f] = 0
                                      /\ handlers[f] = 0
                                      /\ posts[f] = 0

\* A timer stands at the end of the period after the last post, and what
\* has queued its handler before the executor is stopped is its expiry.
OnSchedule ==
    stopping = "no" =>
        \A f \in m_cycle_items :
            /\ expires[f] = start[f] + (posts[f] + 1) * period[f]
            /\ handlers[f] > 0 => expires[f] <= now

ExecutorInv ==
    /\ TypeOK
    /\ OneTimerEach
    /\ Fresh
    /\ OnSchedule
    /\ PostedOnTime

\* What posting once more adds to the schedule.
LEMMA NextPeriod == \A n, p \in Nat : /\ (n + 1) * p = n * p + p
                                     /\ ((n + 1) + 1) * p = (n + 1) * p + p
                                     /\ n * p \in Nat
                                     /\ (n + 1) * p \in Nat
                                     /\ 0 * p = 0
                                     /\ (0 + 1) * p = p
  BY SMT

\* The executor starts in the invariant, with nothing posted.
LEMMA InitExecutor == Init => ExecutorInv
  <1> SUFFICES ASSUME Init PROVE ExecutorInv
    OBVIOUS
  <1> USE ExecutorAssumption DEF Init
  <1>1. TypeOK
    BY DEF TypeOK, All
  <1>2. OneTimerEach /\ Fresh /\ OnSchedule
    BY DEF OneTimerEach, Fresh, OnSchedule
  <1>3. PostedOnTime
    BY NextPeriod DEF PostedOnTime
  <1> QED
    BY <1>1, <1>2, <1>3 DEF ExecutorInv

\* Every step of a thread and of the executor keeps the invariant.
LEMMA NextExecutor == ExecutorInv /\ [Next]_vars => ExecutorInv'
  <1> SUFFICES ASSUME ExecutorInv, [Next]_vars PROVE ExecutorInv'
    OBVIOUS
  <1> USE ExecutorAssumption
  <1> USE DEF ExecutorInv, TypeOK, All, queue, timers, history, Working, Free
  <1>1. ASSUME NEW k \in 1..MaxJump, Elapse(k) PROVE ExecutorInv'
    <2> USE <1>1 DEF Elapse
    <2>1. TypeOK'
      OBVIOUS
    <2>2. OneTimerEach'
      BY DEF OneTimerEach, Fresh
    <2>3. Fresh'
      BY DEF OneTimerEach, Fresh
    <2>4. OnSchedule'
      BY NextPeriod DEF OnSchedule, PostedOnTime, OneTimerEach, Fresh
    <2>5. PostedOnTime'
      BY NextPeriod DEF OnSchedule, PostedOnTime, OneTimerEach, Fresh
    <2> QED
      BY <2>1, <2>2, <2>3, <2>4, <2>5
  <1>2. ASSUME NEW f \in Funcs, Expire(f) PROVE ExecutorInv'
    <2> USE <1>2 DEF Expire
    <2>1. TypeOK'
      OBVIOUS
    <2>2. OneTimerEach'
      BY DEF OneTimerEach, Fresh
    <2>3. Fresh'
      BY DEF OneTimerEach, Fresh
    <2>4. OnSchedule'
      BY NextPeriod DEF OnSchedule, PostedOnTime, OneTimerEach, Fresh
    <2>5. PostedOnTime'
      BY NextPeriod DEF OnSchedule, PostedOnTime, OneTimerEach, Fresh
    <2> QED
      BY <2>1, <2>2, <2>3, <2>4, <2>5
  <1>3. ASSUME NEW t \in Tasks, Execute(t) PROVE ExecutorInv'
    <2> USE <1>3 DEF Execute
    <2>1. TypeOK'
      OBVIOUS
    <2>2. OneTimerEach'
      BY DEF OneTimerEach, Fresh
    <2>3. Fresh'
      BY DEF OneTimerEach, Fresh
    <2>4. OnSchedule'
      BY NextPeriod DEF OnSchedule, PostedOnTime, OneTimerEach, Fresh
    <2>5. PostedOnTime'
      BY NextPeriod DEF OnSchedule, PostedOnTime, OneTimerEach, Fresh
    <2> QED
      BY <2>1, <2>2, <2>3, <2>4, <2>5
  <1>4. ASSUME NEW f \in Funcs, execute_cyclic(f) PROVE ExecutorInv'
    <2> USE <1>4 DEF execute_cyclic
    <2>1. TypeOK'
      OBVIOUS
    <2>2. OneTimerEach'
      BY DEF OneTimerEach, Fresh
    <2>3. Fresh'
      BY DEF OneTimerEach, Fresh
    <2>4. OnSchedule'
      BY NextPeriod DEF OnSchedule, PostedOnTime, OneTimerEach, Fresh
    <2>5. PostedOnTime'
      BY NextPeriod DEF OnSchedule, PostedOnTime, OneTimerEach, Fresh
    <2> QED
      BY <2>1, <2>2, <2>3, <2>4, <2>5
  <1>5. ASSUME NEW f \in Funcs, stop_cyclic(f) PROVE ExecutorInv'
    <2> USE <1>5 DEF stop_cyclic
    <2>1. TypeOK'
      OBVIOUS
    <2>2. OneTimerEach'
      BY DEF OneTimerEach, Fresh
    <2>3. Fresh'
      BY DEF OneTimerEach, Fresh
    <2>4. OnSchedule'
      BY NextPeriod DEF OnSchedule, PostedOnTime, OneTimerEach, Fresh
    <2>5. PostedOnTime'
      BY NextPeriod DEF OnSchedule, PostedOnTime, OneTimerEach, Fresh
    <2> QED
      BY <2>1, <2>2, <2>3, <2>4, <2>5
  <1>6. ASSUME NEW w \in Workers, NEW f \in Funcs, RunHandler(w, f) PROVE ExecutorInv'
    <2> USE <1>6 DEF RunHandler
    <2>1. TypeOK'
      OBVIOUS
    <2>2. OneTimerEach'
      BY DEF OneTimerEach, Fresh
    <2>3. Fresh'
      BY DEF OneTimerEach, Fresh
    <2>4. ASSUME stopping = "no", f \in m_cycle_items
          PROVE /\ expires'[f] = start'[f] + (posts'[f] + 1) * period'[f]
                /\ handlers'[f] = 0
                /\ posts'[f] * period'[f] <= now' - start'[f]
      <3>1. /\ handlers[f] = 1
            /\ armed[f] = 0
        BY <2>4 DEF OneTimerEach
      <3>2. /\ expires[f] = start[f] + (posts[f] + 1) * period[f]
            /\ expires[f] <= now
        BY <2>4, <3>1 DEF OnSchedule
      <3>3. /\ posts'[f] = posts[f] + 1
            /\ expires'[f] = expires[f] + period[f]
            /\ handlers'[f] = 0
            /\ start' = start
            /\ now' = now
        BY <2>4, <3>1
      <3>4. ((posts[f] + 1) + 1) * period[f] = (posts[f] + 1) * period[f] + period[f]
        BY NextPeriod
      <3>5. (posts[f] + 1) * period[f] \in Nat
        BY NextPeriod
      <3> DEFINE due == (posts[f] + 1) * period[f]
      <3>6. /\ start[f] \in Nat
            /\ period[f] \in Nat
        OBVIOUS
      <3>7. posts'[f] * period'[f] = due /\ (posts'[f] + 1) * period'[f] = due + period[f]
        BY <3>3, <3>4
      <3> HIDE DEF due
      <3> QED
        BY <3>2, <3>3, <3>5, <3>6, <3>7 DEF due
    <2>5. ASSUME NEW g \in Funcs, g # f
          PROVE /\ expires'[g] = expires[g]
                /\ handlers'[g] = handlers[g]
                /\ posts'[g] = posts[g]
      BY <2>5
    <2>6. f \notin m_cycle_items => posts' = posts
      OBVIOUS
    <2>7. /\ now' = now
          /\ m_cycle_items' = m_cycle_items
          /\ stopping' = stopping
          /\ start' = start
      OBVIOUS
    <2>8. OnSchedule'
      BY <2>4, <2>5, <2>7 DEF OnSchedule
    <2>9. PostedOnTime'
      BY <2>4, <2>5, <2>6, <2>7 DEF PostedOnTime
    <2> QED
      BY <2>1, <2>2, <2>3, <2>8, <2>9
  <1>7. ASSUME NEW w \in Workers, NEW f \in All, RunFunction(w, f) PROVE ExecutorInv'
    <2> USE <1>7 DEF RunFunction
    <2>1. TypeOK'
      OBVIOUS
    <2>2. OneTimerEach'
      BY DEF OneTimerEach, Fresh
    <2>3. Fresh'
      BY DEF OneTimerEach, Fresh
    <2>4. OnSchedule'
      BY NextPeriod DEF OnSchedule, PostedOnTime, OneTimerEach, Fresh
    <2>5. PostedOnTime'
      BY NextPeriod DEF OnSchedule, PostedOnTime, OneTimerEach, Fresh
    <2> QED
      BY <2>1, <2>2, <2>3, <2>4, <2>5
  <1>8. ASSUME NEW w \in Workers, EndFunction(w) PROVE ExecutorInv'
    <2> USE <1>8 DEF EndFunction
    <2>1. TypeOK'
      OBVIOUS
    <2>2. OneTimerEach'
      BY DEF OneTimerEach, Fresh
    <2>3. Fresh'
      BY DEF OneTimerEach, Fresh
    <2>4. OnSchedule'
      BY NextPeriod DEF OnSchedule, PostedOnTime, OneTimerEach, Fresh
    <2>5. PostedOnTime'
      BY NextPeriod DEF OnSchedule, PostedOnTime, OneTimerEach, Fresh
    <2> QED
      BY <2>1, <2>2, <2>3, <2>4, <2>5
  <1>9. CASE CancelTimers
    <2> USE <1>9 DEF CancelTimers
    <2>1. TypeOK'
      OBVIOUS
    <2>2. OneTimerEach'
      BY DEF OneTimerEach, Fresh
    <2>3. Fresh'
      BY DEF OneTimerEach, Fresh
    <2>4. OnSchedule'
      BY NextPeriod DEF OnSchedule, PostedOnTime, OneTimerEach, Fresh
    <2>5. PostedOnTime'
      BY NextPeriod DEF OnSchedule, PostedOnTime, OneTimerEach, Fresh
    <2> QED
      BY <2>1, <2>2, <2>3, <2>4, <2>5
  <1>10. CASE ClearItems
    <2> USE <1>10 DEF ClearItems
    <2>1. TypeOK'
      OBVIOUS
    <2>2. OneTimerEach'
      BY DEF OneTimerEach, Fresh
    <2>3. Fresh'
      BY DEF OneTimerEach, Fresh
    <2>4. OnSchedule'
      BY NextPeriod DEF OnSchedule, PostedOnTime, OneTimerEach, Fresh
    <2>5. PostedOnTime'
      BY NextPeriod DEF OnSchedule, PostedOnTime, OneTimerEach, Fresh
    <2> QED
      BY <2>1, <2>2, <2>3, <2>4, <2>5
  <1>11. CASE StopService
    <2> USE <1>11 DEF StopService
    <2>1. TypeOK'
      OBVIOUS
    <2>2. OneTimerEach'
      BY DEF OneTimerEach, Fresh
    <2>3. Fresh'
      BY DEF OneTimerEach, Fresh
    <2>4. OnSchedule'
      BY NextPeriod DEF OnSchedule, PostedOnTime, OneTimerEach, Fresh
    <2>5. PostedOnTime'
      BY NextPeriod DEF OnSchedule, PostedOnTime, OneTimerEach, Fresh
    <2> QED
      BY <2>1, <2>2, <2>3, <2>4, <2>5
  <1>12. CASE Join
    <2> USE <1>12 DEF Join
    <2>1. TypeOK'
      OBVIOUS
    <2>2. OneTimerEach'
      BY DEF OneTimerEach, Fresh
    <2>3. Fresh'
      BY DEF OneTimerEach, Fresh
    <2>4. OnSchedule'
      BY NextPeriod DEF OnSchedule, PostedOnTime, OneTimerEach, Fresh
    <2>5. PostedOnTime'
      BY NextPeriod DEF OnSchedule, PostedOnTime, OneTimerEach, Fresh
    <2> QED
      BY <2>1, <2>2, <2>3, <2>4, <2>5
  <1>13. CASE UNCHANGED vars
    BY <1>13 DEF vars, OneTimerEach, Fresh, OnSchedule, PostedOnTime
  <1> QED
    BY <1>1, <1>2, <1>3, <1>4, <1>5, <1>6, <1>7, <1>8, <1>9, <1>10, <1>11, <1>12, <1>13 DEF Next, Caller, WorkerThread, StopExecution

\* So it holds in every reachable state.
LEMMA Invariance == Spec => []ExecutorInv
  BY InitExecutor, NextExecutor, PTL DEF Spec

(* The type invariant of the executor.                                       *)
THEOREM TypeCorrectness == Spec => []TypeOK
  BY Invariance, PTL DEF ExecutorInv

(* Whatever is cancelled, every function in the table has exactly one wait   *)
(* or handler, and one that is out of it has no timer.                       *)
THEOREM OneTimerPerFunction == Spec => []OneTimerEach
  BY Invariance, PTL DEF ExecutorInv

(* A cyclic function is never posted before its time, however late or in     *)
(* bursts its handlers run.                                                  *)
THEOREM NeverEarly == Spec => []PostedOnTime
  BY Invariance, PTL DEF ExecutorInv

(* Nothing posts a function after stop_cyclic: only what is queued is left.  *)
THEOREM StoppedIsNotPosted == Spec => NoPostAfterStop
  <1>1. ExecutorInv /\ [Next]_vars =>
            [\A f \in Funcs : f \in given \ m_cycle_items => posts'[f] = posts[f]]_vars
    <2> SUFFICES ASSUME ExecutorInv, Next,
                        NEW f \in Funcs, f \in given \ m_cycle_items
                 PROVE posts'[f] = posts[f]
      BY DEF vars
    <2> USE DEF ExecutorInv, TypeOK, history
    <2>1. CASE \E w \in Workers, g \in Funcs : RunHandler(w, g)
      BY <2>1 DEF RunHandler
    <2>2. CASE ~\E w \in Workers, g \in Funcs : RunHandler(w, g)
      BY <2>2 DEF Next, Caller, WorkerThread, StopExecution, Elapse, Expire, Execute,
          execute_cyclic, stop_cyclic, RunFunction, EndFunction, CancelTimers,
          ClearItems, StopService, Join
    <2> QED
      BY <2>1, <2>2
  <1> QED
    BY <1>1, Invariance, PTL DEF Spec, NoPostAfterStop
=============================================================================
