------------------------- MODULE DeviceWatchProofs -------------------------
(***************************************************************************)
(* The safety of DeviceWatch for every set of devices and workers and      *)
(* every timeout and number of attempts.                                   *)
(***************************************************************************)
EXTENDS DeviceWatch, TLAPS

-----------------------------------------------------------------------------
(* Type correctness.                                                         *)

\* TypeOK holds at the start: createDeviceList fills every entry.
LEMMA InitTypeOK == Init => TypeOK
  <1> SUFFICES ASSUME Init PROVE TypeOK
    OBVIOUS
  <1> QED
    BY ConstantsAssumption
       DEF Init, TypeOK, WorkerPcs, ListenerPcs, Messages, Statuses,
           ListenerStates

\* Every access of either thread keeps the types.
LEMMA NextTypeOK == TypeOK /\ [Next]_vars => TypeOK'
  <1> SUFFICES ASSUME TypeOK, [Next]_vars PROVE TypeOK'
    OBVIOUS
  <1> USE ConstantsAssumption DEF TypeOK, WorkerPcs, ListenerPcs, Messages,
                                  Statuses, table, locals, history,
                                  StoreCounter, ListenerStates
  <1>1. ASSUME NEW k \in 0..MaxPosted, Elapse(k) PROVE TypeOK'
    BY <1>1 DEF Elapse
  <1>2. CASE LinkChange
    BY <1>2 DEF LinkChange
  <1>3. ASSUME NEW w \in Workers, WorkerStep(w) PROVE TypeOK'
    <2>1. CASE StartPass(w)
      BY <2>1 DEF StartPass
    <2>2. CASE EndPass(w)
      BY <2>2 DEF EndPass
    <2>3. ASSUME NEW d \in Devices, CheckDeadline(w, d) PROVE TypeOK'
      BY <2>3, ZenonT(60) DEF CheckDeadline, Quiet, Holds, ListenerHolds
    <2>4. CASE CheckAttempts(w)
      BY <2>4 DEF CheckAttempts
    <2>5. CASE LoadCounter(w)
      BY <2>5 DEF LoadCounter
    <2>6. CASE StoreMiss(w)
      BY <2>6 DEF StoreMiss
    <2>7. CASE Postpone(w)
      BY <2>7 DEF Postpone
    <2>8. CASE StoreExhausted(w)
      BY <2>8 DEF StoreExhausted
    <2>9. CASE Announce(w)
      BY <2>9 DEF Announce, SetStatus
    <2> QED
      BY <1>3, <2>1, <2>2, <2>3, <2>4, <2>5, <2>6, <2>7, <2>8, <2>9
         DEF WorkerStep
  <1>4. ASSUME ListenerStep PROVE TypeOK'
    <2>1. ASSUME NEW d \in Devices, NEW m \in Messages, Receive(d, m)
          PROVE TypeOK'
      <3>1. (listener \in ListenerStates)'
        BY <2>1 DEF Receive
      <3> QED
        BY <2>1, <3>1 DEF Receive, Holds
    <2>2. CASE ReadClock
      BY <2>2 DEF ReadClock
    <2>3. CASE StoreDeadline
      <3>1. (listener \in ListenerStates)'
        BY <2>3 DEF StoreDeadline
      <3> QED
        BY <2>3, <3>1 DEF StoreDeadline
    <2>4. CASE PublishOk
      BY <2>4 DEF PublishOk, SetStatus
    <2>5. CASE ConversionFails
      BY <2>5 DEF ConversionFails
    <2> QED
      BY <1>4, <2>1, <2>2, <2>3, <2>4, <2>5 DEF ListenerStep
  <1>5. CASE UNCHANGED vars
    BY <1>5 DEF vars
  <1> QED
    BY <1>1, <1>2, <1>3, <1>4, <1>5 DEF Next

\* The type invariant, for every value of the constants.
THEOREM TypeCorrectness == Spec => []TypeOK
  BY InitTypeOK, NextTypeOK, PTL DEF Spec

-----------------------------------------------------------------------------
(* What is true of a device whose handling is not overlapped: the inductive  *)
(* invariant behind AlarmNotEarly and StatusTruthful.                        *)

\* No thread keeps a time from the future.
ClocksOK ==
    /\ \A d \in Devices : heard[d] <= now
    /\ \A w \in Workers : itr_time[w] <= now
    /\ listener.reg <= now

\* An untorn device has one thread at it at most.
Exclusive ==
    \A d \in Devices : ~torn[d] =>
        /\ ListenerHolds(d) => \A w \in Workers : ~Holds(w, d)
        /\ \A v, w \in Workers : Holds(v, d) /\ Holds(w, d) => v = w

\* While the listener is at an untorn device its attempts are all there.
ListenerAt ==
    \A d \in Devices : ~torn[d] /\ ListenerHolds(d) => spent_attempt[d] = 0

\* What a worker at an untorn device has found out still holds.
WorkerFacts(w, d) ==
    /\ pc[w] # "postpone" => itr_time[w] > time_to_attempt[d]
    /\ pc[w] \in {"miss", "store_miss"} => spent_attempt[d] < Attempts
    /\ pc[w] \in {"exhaust", "store_exhaust"} => spent_attempt[d] >= Attempts
    /\ pc[w] \in {"store_miss", "store_exhaust"} => reg[w] = spent_attempt[d]
    /\ pc[w] = "postpone" =>
          /\ spent_attempt[d] <= Attempts
          /\ itr_time[w] >= heard[d] + spent_attempt[d] * Timeout
    /\ pc[w] = "announce" => spent_attempt[d] = Attempts + 1

WorkerAt ==
    \A d \in Devices, w \in Workers :
        ~torn[d] /\ Holds(w, d) => WorkerFacts(w, d)

\* Between a store to the counter and the store to the deadline the two are
\* out of step.
InStep(d) ==
    /\ ~(listener.pc \in {"clock", "deadline"} /\ listener.dev = d)
    /\ \A w \in Workers : ~(pc[w] = "postpone" /\ dev[w] = d)

\* Each attempt spent since the last message has bought a whole timeout.
Earned(d) ==
    /\ spent_attempt[d] <= Attempts =>
          time_to_attempt[d] >= heard[d] + (spent_attempt[d] + 1) * Timeout
    /\ spent_attempt[d] > Attempts =>
          time_to_attempt[d] >= heard[d] + (Attempts + 1) * Timeout

Paced == \A d \in Devices : ~torn[d] /\ InStep(d) => Earned(d)

\* The retained status agrees with the counter but while it is being set.
StatusSet(d) ==
    /\ ~ListenerHolds(d)
    /\ \A w \in Workers : ~(pc[w] = "announce" /\ dev[w] = d)

StatusAgrees ==
    \A d \in Devices :
        ~torn[d] /\ fate[d] = "settled" /\ StatusSet(d)
           => (status[d] = "error" <=> spent_attempt[d] > Attempts)

UntornInv ==
    /\ TypeOK
    /\ ClocksOK
    /\ Exclusive
    /\ ListenerAt
    /\ WorkerAt
    /\ Paced
    /\ StatusAgrees

\* The only arithmetic on products that the steps need.
LEMMA OneMoreTimeout ==
    ASSUME NEW n \in Nat PROVE (n + 1) * Timeout = n * Timeout + Timeout
  BY ConstantsAssumption

\* createDeviceList starts every device with its attempts and a deadline.
LEMMA InitUntorn == Init => UntornInv
  <1> SUFFICES ASSUME Init PROVE UntornInv
    OBVIOUS
  <1>1. TypeOK
    BY InitTypeOK
  <1>2. \A d \in Devices : Earned(d)
    BY ConstantsAssumption DEF Init, Earned
  <1> QED
    BY <1>1, <1>2, ConstantsAssumption
       DEF Init, UntornInv, ClocksOK, Exclusive, ListenerAt, WorkerAt,
           WorkerFacts, Paced,
           StatusAgrees, Holds, ListenerHolds

\* A worker at an untorn device is alone there, and finds it in step unless
\* it is itself between the two stores.
LEMMA AloneAt ==
    ASSUME UntornInv, NEW w \in Workers, NEW d \in Devices,
           ~torn[d], Holds(w, d)
    PROVE  /\ ~ListenerHolds(d)
           /\ \A v \in Workers : Holds(v, d) => v = w
           /\ pc[w] # "postpone" => Earned(d)
  <1>1. ~ListenerHolds(d) /\ \A v \in Workers : Holds(v, d) => v = w
    BY DEF UntornInv, Exclusive
  <1>2. pc[w] # "postpone" => InStep(d)
    BY <1>1 DEF InStep, Holds, ListenerHolds
  <1> QED
    BY <1>1, <1>2 DEF UntornInv, Paced

\* Every access of either thread keeps the invariant.
LEMMA NextUntorn == UntornInv /\ [Next]_vars => UntornInv'
  <1> SUFFICES ASSUME UntornInv, [Next]_vars PROVE UntornInv'
    OBVIOUS
  <1>0. TypeOK /\ TypeOK'
    BY NextTypeOK DEF UntornInv
  <1> USE <1>0, ConstantsAssumption
  <1> USE DEF UntornInv, TypeOK, ListenerStates, table, locals, history
  <1>1. ASSUME NEW k \in 0..MaxPosted, Elapse(k) PROVE UntornInv'
    <2>1. ClocksOK'
      BY <1>1 DEF Elapse, ClocksOK
    <2>2. Exclusive'
      BY <1>1 DEF Elapse, Exclusive, Holds, ListenerHolds
    <2>3. ListenerAt'
      BY <1>1 DEF Elapse, ListenerAt, Exclusive, Holds, ListenerHolds
    <2>4. WorkerAt'
      BY <1>1
         DEF Elapse, WorkerAt, WorkerFacts, Exclusive, ClocksOK, Holds,
             ListenerHolds
    <2>5. Paced'
      BY <1>1
         DEF Elapse, Paced, InStep, Earned, WorkerAt, WorkerFacts, ListenerAt,
             Exclusive, Holds, ListenerHolds
    <2>6. StatusAgrees'
      BY <1>1
         DEF Elapse, StatusAgrees, StatusSet, WorkerAt, WorkerFacts,
             ListenerAt, Exclusive, Holds, ListenerHolds
    <2> QED
      BY <2>1, <2>2, <2>3, <2>4, <2>5, <2>6 DEF UntornInv
  <1>2. CASE LinkChange
    <2>1. ClocksOK'
      BY <1>2 DEF LinkChange, ClocksOK
    <2>2. Exclusive'
      BY <1>2 DEF LinkChange, Exclusive, Holds, ListenerHolds
    <2>3. ListenerAt'
      BY <1>2 DEF LinkChange, ListenerAt, Exclusive, Holds, ListenerHolds
    <2>4. WorkerAt'
      BY <1>2
         DEF LinkChange, WorkerAt, WorkerFacts, Exclusive, ClocksOK, Holds,
             ListenerHolds
    <2>5. Paced'
      BY <1>2
         DEF LinkChange, Paced, InStep, Earned, WorkerAt, WorkerFacts,
             ListenerAt, Exclusive, Holds, ListenerHolds
    <2>6. StatusAgrees'
      BY <1>2
         DEF LinkChange, StatusAgrees, StatusSet, WorkerAt, WorkerFacts,
             ListenerAt, Exclusive, Holds, ListenerHolds
    <2> QED
      BY <2>1, <2>2, <2>3, <2>4, <2>5, <2>6 DEF UntornInv
  <1>3. ASSUME NEW w \in Workers, WorkerStep(w) PROVE UntornInv'
    <2>1. CASE StartPass(w)
      <3>1. ClocksOK'
        BY <2>1 DEF StartPass, ClocksOK
      <3>2. Exclusive'
        BY <2>1 DEF StartPass, Exclusive, Holds, ListenerHolds
      <3>3. ListenerAt'
        BY <2>1 DEF StartPass, ListenerAt, Exclusive, Holds, ListenerHolds
      <3>4. WorkerAt'
        BY <2>1
           DEF StartPass, WorkerAt, WorkerFacts, Exclusive, ClocksOK, Holds,
               ListenerHolds
      <3>5. Paced'
        BY <2>1
           DEF StartPass, Paced, InStep, Earned, WorkerAt, WorkerFacts,
               ListenerAt, Exclusive, Holds, ListenerHolds
      <3>6. StatusAgrees'
        BY <2>1
           DEF StartPass, StatusAgrees, StatusSet, WorkerAt, WorkerFacts,
               ListenerAt, Exclusive, Holds, ListenerHolds
      <3> QED
        BY <3>1, <3>2, <3>3, <3>4, <3>5, <3>6 DEF UntornInv
    <2>2. CASE EndPass(w)
      <3>1. ClocksOK'
        BY <2>2 DEF EndPass, ClocksOK
      <3>2. Exclusive'
        BY <2>2 DEF EndPass, Exclusive, Holds, ListenerHolds
      <3>3. ListenerAt'
        BY <2>2 DEF EndPass, ListenerAt, Exclusive, Holds, ListenerHolds
      <3>4. WorkerAt'
        BY <2>2
           DEF EndPass, WorkerAt, WorkerFacts, Exclusive, ClocksOK, Holds,
               ListenerHolds
      <3>5. Paced'
        BY <2>2
           DEF EndPass, Paced, InStep, Earned, WorkerAt, WorkerFacts,
               ListenerAt, Exclusive, Holds, ListenerHolds
      <3>6. StatusAgrees'
        BY <2>2
           DEF EndPass, StatusAgrees, StatusSet, WorkerAt, WorkerFacts,
               ListenerAt, Exclusive, Holds, ListenerHolds
      <3> QED
        BY <3>1, <3>2, <3>3, <3>4, <3>5, <3>6 DEF UntornInv
    <2>3. ASSUME NEW d \in Devices, CheckDeadline(w, d) PROVE UntornInv'
      <3>1. ClocksOK'
        BY <2>3 DEF CheckDeadline, Quiet, ClocksOK
      <3>2. Exclusive'
        BY <2>3, SMTT(20) DEF CheckDeadline, Quiet, Exclusive, Holds, ListenerHolds
      <3>3. ListenerAt'
        BY <2>3
           DEF CheckDeadline, Quiet, ListenerAt, Exclusive, Holds,
               ListenerHolds
      <3>4. WorkerAt'
        <4> SUFFICES ASSUME NEW e \in Devices, NEW v \in Workers,
                            ~torn'[e], Holds(v, e)'
                     PROVE  WorkerFacts(v, e)'
          BY DEF WorkerAt
        <4>1. ~torn[e]
          BY <2>3 DEF CheckDeadline
        <4>2. CASE v = w /\ pc'[w] = "attempt"
          BY <2>3, <4>2 DEF CheckDeadline, WorkerFacts, Holds
        <4>3. CASE v # w
          BY <2>3, <4>1, <4>3 DEF CheckDeadline, WorkerAt, WorkerFacts, Holds
        <4> QED
          BY <2>3, <4>2, <4>3 DEF CheckDeadline, Holds
      <3>5. Paced'
        <4>1. \A e \in Devices : InStep(e)' => InStep(e)
          BY <2>3 DEF CheckDeadline, InStep
        <4>2. \A e \in Devices : ~torn'[e] => ~torn[e]
          BY <2>3 DEF CheckDeadline
        <4> QED
          BY <2>3, <4>1, <4>2 DEF CheckDeadline, Paced, Earned
      <3>6. StatusAgrees'
        <4>1. \A e \in Devices : StatusSet(e)' => StatusSet(e)
          BY <2>3 DEF CheckDeadline, StatusSet, ListenerHolds
        <4>2. \A e \in Devices : ~torn'[e] => ~torn[e]
          BY <2>3 DEF CheckDeadline
        <4> QED
          BY <2>3, <4>1, <4>2 DEF CheckDeadline, StatusAgrees
      <3> QED
        BY <3>1, <3>2, <3>3, <3>4, <3>5, <3>6 DEF UntornInv
    <2>4. CASE CheckAttempts(w)
      <3>1. ClocksOK'
        BY <2>4 DEF CheckAttempts, ClocksOK
      <3>2. Exclusive'
        BY <2>4 DEF CheckAttempts, Exclusive, Holds, ListenerHolds
      <3>3. ListenerAt'
        BY <2>4 DEF CheckAttempts, ListenerAt, Exclusive, Holds, ListenerHolds
      <3>4. WorkerAt'
        BY <2>4
           DEF CheckAttempts, WorkerAt, WorkerFacts, Exclusive, ClocksOK,
               Holds, ListenerHolds
      <3>5. Paced'
        BY <2>4
           DEF CheckAttempts, Paced, InStep, Earned, WorkerAt, WorkerFacts,
               ListenerAt, Exclusive, Holds, ListenerHolds
      <3>6. StatusAgrees'
        BY <2>4
           DEF CheckAttempts, StatusAgrees, StatusSet, WorkerAt, WorkerFacts,
               ListenerAt, Exclusive, Holds, ListenerHolds
      <3> QED
        BY <3>1, <3>2, <3>3, <3>4, <3>5, <3>6 DEF UntornInv
    <2>5. CASE LoadCounter(w)
      <3>1. ClocksOK'
        BY <2>5 DEF LoadCounter, ClocksOK
      <3>2. Exclusive'
        BY <2>5, ZenonT(60) DEF LoadCounter, Exclusive, Holds, ListenerHolds
      <3>3. ListenerAt'
        BY <2>5 DEF LoadCounter, ListenerAt, Exclusive, Holds, ListenerHolds
      <3>4. WorkerAt'
        BY <2>5
           DEF LoadCounter, WorkerAt, WorkerFacts, Exclusive, ClocksOK, Holds,
               ListenerHolds
      <3>5. Paced'
        BY <2>5
           DEF LoadCounter, Paced, InStep, Earned, WorkerAt, WorkerFacts,
               ListenerAt, Exclusive, Holds, ListenerHolds
      <3>6. StatusAgrees'
        BY <2>5
           DEF LoadCounter, StatusAgrees, StatusSet, WorkerAt, WorkerFacts,
               ListenerAt, Exclusive, Holds, ListenerHolds
      <3> QED
        BY <3>1, <3>2, <3>3, <3>4, <3>5, <3>6 DEF UntornInv
    <2>6. CASE StoreMiss(w)
      <3>1. ClocksOK'
        BY <2>6 DEF StoreMiss, StoreCounter, ClocksOK
      <3>2. Exclusive'
        BY <2>6 DEF StoreMiss, StoreCounter, Exclusive, Holds, ListenerHolds
      <3>3. ListenerAt'
        BY <2>6
           DEF StoreMiss, StoreCounter, ListenerAt, Exclusive, Holds,
               ListenerHolds
      <3>4. WorkerAt'
        <4> SUFFICES ASSUME NEW e \in Devices, NEW v \in Workers,
                            ~torn[e], Holds(v, e)'
                     PROVE  WorkerFacts(v, e)'
          BY <2>6 DEF StoreMiss, StoreCounter, WorkerAt
        <4>1. Holds(v, e) /\ Holds(w, dev[w])
          BY <2>6 DEF StoreMiss, StoreCounter, Holds
        <4>2. CASE e # dev[w]
          BY <2>6, <4>1, <4>2
             DEF StoreMiss, StoreCounter, WorkerAt, WorkerFacts, Holds
        <4>3. CASE e = dev[w]
          <5>1. v = w /\ Earned(e)
            BY <2>6, <4>1, <4>3, AloneAt DEF StoreMiss
          <5>2. /\ reg[w] = spent_attempt[e]
                /\ spent_attempt[e] < Attempts
                /\ itr_time[w] > time_to_attempt[e]
            BY <2>6, <4>1, <4>3 DEF StoreMiss, WorkerAt, WorkerFacts
          <5>3. itr_time[w] >= heard[e] + (spent_attempt[e] + 1) * Timeout
            BY <5>1, <5>2 DEF Earned
          <5> QED
            BY <2>6, <4>3, <5>1, <5>2, <5>3
               DEF StoreMiss, StoreCounter, WorkerFacts
        <4> QED
          BY <4>2, <4>3
      <3>5. Paced'
        BY <2>6
           DEF StoreMiss, StoreCounter, Paced, InStep, Earned, WorkerAt,
               WorkerFacts, ListenerAt, Exclusive, Holds, ListenerHolds
      <3>6. StatusAgrees'
        <4>1. ~torn[dev[w]] => /\ reg[w] = spent_attempt[dev[w]]
                               /\ spent_attempt[dev[w]] < Attempts
          BY <2>6 DEF StoreMiss, WorkerAt, WorkerFacts, Holds
        <4>2. \A e \in Devices : StatusSet(e)' => StatusSet(e)
          BY <2>6 DEF StoreMiss, StoreCounter, StatusSet, ListenerHolds
        <4> QED
          BY <2>6, <4>1, <4>2 DEF StoreMiss, StoreCounter, StatusAgrees
      <3> QED
        BY <3>1, <3>2, <3>3, <3>4, <3>5, <3>6 DEF UntornInv
    <2>7. CASE Postpone(w)
      <3>1. ClocksOK'
        BY <2>7 DEF Postpone, ClocksOK
      <3>2. Exclusive'
        BY <2>7 DEF Postpone, Exclusive, Holds, ListenerHolds
      <3>3. ListenerAt'
        BY <2>7 DEF Postpone, ListenerAt, Exclusive, Holds, ListenerHolds
      <3>4. WorkerAt'
        BY <2>7
           DEF Postpone, WorkerAt, WorkerFacts, Exclusive, ClocksOK, Holds,
               ListenerHolds
      <3>5. Paced'
        BY <2>7
           DEF Postpone, Paced, InStep, Earned, WorkerAt, WorkerFacts,
               ListenerAt, Exclusive, Holds, ListenerHolds
      <3>6. StatusAgrees'
        BY <2>7
           DEF Postpone, StatusAgrees, StatusSet, WorkerAt, WorkerFacts,
               ListenerAt, Exclusive, Holds, ListenerHolds
      <3> QED
        BY <3>1, <3>2, <3>3, <3>4, <3>5, <3>6 DEF UntornInv
    <2>8. CASE StoreExhausted(w)
      <3>1. ClocksOK'
        BY <2>8 DEF StoreExhausted, StoreCounter, ClocksOK
      <3>2. Exclusive'
        BY <2>8
           DEF StoreExhausted, StoreCounter, Exclusive, Holds, ListenerHolds
      <3>3. ListenerAt'
        BY <2>8
           DEF StoreExhausted, StoreCounter, ListenerAt, Exclusive, Holds,
               ListenerHolds
      <3>4. WorkerAt'
        <4> SUFFICES ASSUME NEW e \in Devices, NEW v \in Workers,
                            ~torn[e], Holds(v, e)'
                     PROVE  WorkerFacts(v, e)'
          BY <2>8 DEF StoreExhausted, StoreCounter, WorkerAt
        <4>1. Holds(v, e) /\ Holds(w, dev[w])
          BY <2>8 DEF StoreExhausted, StoreCounter, Holds
        <4>2. CASE e # dev[w]
          BY <2>8, <4>1, <4>2
             DEF StoreExhausted, StoreCounter, WorkerAt, WorkerFacts, Holds
        <4>3. CASE e = dev[w]
          <5>1. v = w
            BY <4>1, <4>3, AloneAt
          <5>2. /\ reg[w] = spent_attempt[e]
                /\ itr_time[w] > time_to_attempt[e]
            BY <2>8, <4>1, <4>3 DEF StoreExhausted, WorkerAt, WorkerFacts
          <5> QED
            BY <2>8, <4>3, <5>1, <5>2
               DEF StoreExhausted, StoreCounter, WorkerFacts, Holds
        <4> QED
          BY <4>2, <4>3
      <3>5. Paced'
        <4> SUFFICES ASSUME NEW e \in Devices, ~torn[e], InStep(e)'
                     PROVE  Earned(e)'
          BY <2>8 DEF StoreExhausted, StoreCounter, Paced
        <4>1. Earned(e)
          BY <2>8 DEF StoreExhausted, StoreCounter, InStep, Paced
        <4>2. e = dev[w] => /\ reg[w] = spent_attempt[e]
                            /\ spent_attempt[e] >= Attempts
          BY <2>8 DEF StoreExhausted, WorkerAt, WorkerFacts, Holds
        <4>3. spent_attempt[e] >= Attempts =>
                 time_to_attempt[e] >= heard[e] + (Attempts + 1) * Timeout
          <5>1. CASE spent_attempt[e] = Attempts
            <6>1. (spent_attempt[e] + 1) * Timeout = (Attempts + 1) * Timeout
              BY <5>1
            <6> QED
              BY <4>1, <5>1, <6>1 DEF Earned
          <5>2. CASE spent_attempt[e] > Attempts
            BY <4>1, <5>2 DEF Earned
          <5>3. spent_attempt[e] \in Nat /\ Attempts \in Nat
            OBVIOUS
          <5> HIDE DEF TypeOK
          <5> QED
            BY <5>1, <5>2, <5>3
        <4>4. CASE e = dev[w]
          <5>1. spent_attempt'[e] > Attempts
            BY <2>8, <4>2, <4>4 DEF StoreExhausted, StoreCounter
          <5> QED
            BY <2>8, <4>2, <4>3, <4>4, <5>1
               DEF StoreExhausted, StoreCounter, Earned
        <4>5. CASE e # dev[w]
          BY <2>8, <4>1, <4>5 DEF StoreExhausted, StoreCounter, Earned
        <4> QED
          BY <4>4, <4>5
      <3>6. StatusAgrees'
        <4> SUFFICES ASSUME NEW e \in Devices, ~torn[e],
                            fate[e] = "settled", StatusSet(e)'
                     PROVE  status[e] = "error"
                               <=> spent_attempt'[e] > Attempts
          BY <2>8 DEF StoreExhausted, StoreCounter, StatusAgrees
        <4>1. CASE e # dev[w]
          BY <2>8, <4>1
             DEF StoreExhausted, StoreCounter, StatusAgrees, StatusSet,
                 ListenerHolds
        <4>2. CASE e = dev[w]
          <5>1. /\ reg[w] = spent_attempt[e]
                /\ spent_attempt[e] >= Attempts
                /\ \A v \in Workers : Holds(v, e) => v = w
                /\ ~ListenerHolds(e)
            BY <2>8, <4>2, AloneAt
               DEF StoreExhausted, WorkerAt, WorkerFacts, Holds
          <5>2. StatusSet(e)
            BY <2>8, <5>1 DEF StoreExhausted, StatusSet, Holds
          <5>3. reg[w] # Attempts
            BY <2>8, <4>2 DEF StoreExhausted, StoreCounter, StatusSet
          <5>4. spent_attempt[e] > Attempts
            <6>1. spent_attempt[e] \in Nat /\ Attempts \in Nat
              OBVIOUS
            <6>2. spent_attempt[e] >= Attempts /\ spent_attempt[e] # Attempts
              BY <5>1, <5>3
            <6> HIDE DEF TypeOK, UntornInv
            <6> QED
              BY <6>1, <6>2
          <5>5. status[e] = "error"
            BY <2>8, <5>2, <5>4 DEF StoreExhausted, StatusAgrees
          <5> QED
            BY <2>8, <4>2, <5>1, <5>4, <5>5
               DEF StoreExhausted, StoreCounter
        <4> QED
          BY <4>1, <4>2
      <3> QED
        BY <3>1, <3>2, <3>3, <3>4, <3>5, <3>6 DEF UntornInv
    <2>9. CASE Announce(w)
      <3>1. ClocksOK'
        BY <2>9 DEF Announce, SetStatus, ClocksOK
      <3>2. Exclusive'
        BY <2>9 DEF Announce, SetStatus, Exclusive, Holds, ListenerHolds
      <3>3. ListenerAt'
        BY <2>9
           DEF Announce, SetStatus, ListenerAt, Exclusive, Holds,
               ListenerHolds
      <3>4. WorkerAt'
        BY <2>9
           DEF Announce, SetStatus, WorkerAt, WorkerFacts, Exclusive,
               ClocksOK, Holds, ListenerHolds
      <3>5. Paced'
        BY <2>9
           DEF Announce, SetStatus, Paced, InStep, Earned, WorkerAt,
               WorkerFacts, ListenerAt, Exclusive, Holds, ListenerHolds
      <3>6. StatusAgrees'
        <4> SUFFICES ASSUME NEW e \in Devices, ~torn[e],
                            fate'[e] = "settled", StatusSet(e)'
                     PROVE  status'[e] = "error"
                               <=> spent_attempt[e] > Attempts
          BY <2>9 DEF Announce, StatusAgrees
        <4>1. CASE e # dev[w]
          BY <2>9, <4>1
             DEF Announce, SetStatus, StatusAgrees, StatusSet, ListenerHolds
        <4>2. CASE e = dev[w]
          BY <2>9, <4>2
             DEF Announce, SetStatus, WorkerAt, WorkerFacts, Holds
        <4> QED
          BY <4>1, <4>2
      <3> QED
        BY <3>1, <3>2, <3>3, <3>4, <3>5, <3>6 DEF UntornInv
    <2> QED
      BY <1>3, <2>1, <2>2, <2>3, <2>4, <2>5, <2>6, <2>7, <2>8, <2>9
         DEF WorkerStep
  <1>4. ASSUME ListenerStep PROVE UntornInv'
    <2>1. ASSUME NEW d \in Devices, NEW m \in Messages, Receive(d, m)
          PROVE UntornInv'
      <3>1. ClocksOK'
        BY <2>1 DEF Receive, ClocksOK
      <3>2. Exclusive'
        BY <2>1 DEF Receive, Exclusive, Holds, ListenerHolds
      <3>3. ListenerAt'
        BY <2>1 DEF Receive, ListenerAt, Exclusive, Holds, ListenerHolds
      <3>4. WorkerAt'
        BY <2>1
           DEF Receive, WorkerAt, WorkerFacts, Exclusive, ClocksOK, Holds,
               ListenerHolds
      <3>5. Paced'
        BY <2>1
           DEF Receive, Paced, InStep, Earned, WorkerAt, WorkerFacts,
               ListenerAt, Exclusive, Holds, ListenerHolds
      <3>6. StatusAgrees'
        BY <2>1
           DEF Receive, StatusAgrees, StatusSet, WorkerAt, WorkerFacts,
               ListenerAt, Exclusive, Holds, ListenerHolds
      <3> QED
        BY <3>1, <3>2, <3>3, <3>4, <3>5, <3>6 DEF UntornInv
    <2>2. CASE ReadClock
      <3>1. ClocksOK'
        BY <2>2 DEF ReadClock, ClocksOK
      <3>2. Exclusive'
        BY <2>2 DEF ReadClock, Exclusive, Holds, ListenerHolds
      <3>3. ListenerAt'
        BY <2>2 DEF ReadClock, ListenerAt, Exclusive, Holds, ListenerHolds
      <3>4. WorkerAt'
        BY <2>2
           DEF ReadClock, WorkerAt, WorkerFacts, Exclusive, ClocksOK, Holds,
               ListenerHolds
      <3>5. Paced'
        BY <2>2
           DEF ReadClock, Paced, InStep, Earned, WorkerAt, WorkerFacts,
               ListenerAt, Exclusive, Holds, ListenerHolds
      <3>6. StatusAgrees'
        BY <2>2
           DEF ReadClock, StatusAgrees, StatusSet, WorkerAt, WorkerFacts,
               ListenerAt, Exclusive, Holds, ListenerHolds
      <3> QED
        BY <3>1, <3>2, <3>3, <3>4, <3>5, <3>6 DEF UntornInv
    <2>3. CASE StoreDeadline
      <3>1. ClocksOK'
        BY <2>3 DEF StoreDeadline, ClocksOK
      <3>2. Exclusive'
        BY <2>3 DEF StoreDeadline, Exclusive, Holds, ListenerHolds
      <3>3. ListenerAt'
        BY <2>3 DEF StoreDeadline, ListenerAt, Exclusive, Holds, ListenerHolds
      <3>4. WorkerAt'
        BY <2>3
           DEF StoreDeadline, WorkerAt, WorkerFacts, Exclusive, ClocksOK,
               Holds, ListenerHolds
      <3>5. Paced'
        BY <2>3
           DEF StoreDeadline, Paced, InStep, Earned, WorkerAt, WorkerFacts,
               ListenerAt, Exclusive, Holds, ListenerHolds
      <3>6. StatusAgrees'
        BY <2>3
           DEF StoreDeadline, StatusAgrees, StatusSet, WorkerAt, WorkerFacts,
               ListenerAt, Exclusive, Holds, ListenerHolds
      <3> QED
        BY <3>1, <3>2, <3>3, <3>4, <3>5, <3>6 DEF UntornInv
    <2>4. CASE PublishOk
      <3>1. ClocksOK'
        BY <2>4 DEF PublishOk, SetStatus, ClocksOK
      <3>2. Exclusive'
        BY <2>4 DEF PublishOk, SetStatus, Exclusive, Holds, ListenerHolds
      <3>3. ListenerAt'
        BY <2>4
           DEF PublishOk, SetStatus, ListenerAt, Exclusive, Holds,
               ListenerHolds
      <3>4. WorkerAt'
        BY <2>4
           DEF PublishOk, SetStatus, WorkerAt, WorkerFacts, Exclusive,
               ClocksOK, Holds, ListenerHolds
      <3>5. Paced'
        BY <2>4
           DEF PublishOk, SetStatus, Paced, InStep, Earned, WorkerAt,
               WorkerFacts, ListenerAt, Exclusive, Holds, ListenerHolds
      <3>6. StatusAgrees'
        BY <2>4
           DEF PublishOk, SetStatus, StatusAgrees, StatusSet, WorkerAt,
               WorkerFacts, ListenerAt, Exclusive, Holds, ListenerHolds
      <3> QED
        BY <3>1, <3>2, <3>3, <3>4, <3>5, <3>6 DEF UntornInv
    <2>5. CASE ConversionFails
      <3>1. ClocksOK'
        BY <2>5 DEF ConversionFails, ClocksOK
      <3>2. Exclusive'
        BY <2>5 DEF ConversionFails, Exclusive, Holds, ListenerHolds
      <3>3. ListenerAt'
        BY <2>5
           DEF ConversionFails, ListenerAt, Exclusive, Holds, ListenerHolds
      <3>4. WorkerAt'
        BY <2>5
           DEF ConversionFails, WorkerAt, WorkerFacts, Exclusive, ClocksOK,
               Holds, ListenerHolds
      <3>5. Paced'
        BY <2>5
           DEF ConversionFails, Paced, InStep, Earned, WorkerAt, WorkerFacts,
               ListenerAt, Exclusive, Holds, ListenerHolds
      <3>6. StatusAgrees'
        BY <2>5
           DEF ConversionFails, StatusAgrees, StatusSet, WorkerAt,
               WorkerFacts, ListenerAt, Exclusive, Holds, ListenerHolds
      <3> QED
        BY <3>1, <3>2, <3>3, <3>4, <3>5, <3>6 DEF UntornInv
    <2> QED
      BY <1>4, <2>1, <2>2, <2>3, <2>4, <2>5 DEF ListenerStep
  <1>5. CASE UNCHANGED vars
    <2>1. ClocksOK'
      BY <1>5 DEF vars, ClocksOK
    <2>2. Exclusive'
      BY <1>5 DEF vars, Exclusive, Holds, ListenerHolds
    <2>3. ListenerAt'
      BY <1>5 DEF vars, ListenerAt, Exclusive, Holds, ListenerHolds
    <2>4. WorkerAt'
      BY <1>5
         DEF vars, WorkerAt, WorkerFacts, Exclusive, ClocksOK, Holds,
             ListenerHolds
    <2>5. Paced'
      BY <1>5
         DEF vars, Paced, InStep, Earned, WorkerAt, WorkerFacts, ListenerAt,
             Exclusive, Holds, ListenerHolds
    <2>6. StatusAgrees'
      BY <1>5
         DEF vars, StatusAgrees, StatusSet, WorkerAt, WorkerFacts, ListenerAt,
             Exclusive, Holds, ListenerHolds
    <2> QED
      BY <2>1, <2>2, <2>3, <2>4, <2>5, <2>6 DEF UntornInv
  <1> QED
    BY <1>1, <1>2, <1>3, <1>4, <1>5 DEF Next

\* The invariant, for every value of the constants.
THEOREM UntornHandling == Spec => []UntornInv
  BY InitUntorn, NextUntorn, PTL DEF Spec

\* StatusTruthful: at rest a settled status says "error" exactly when the
\* attempts of the device are all spent.
THEOREM StatusIsTruthful == Spec => []StatusTruthful
  <1>1. UntornInv => StatusTruthful
    BY DEF UntornInv, StatusAgrees, StatusSet, StatusTruthful, Quiet, Holds
  <1> QED
    BY <1>1, UntornHandling, PTL

\* AlarmNotEarly: only Announce counts an alarm, and a worker that is there
\* saw the deadline expired that Attempts + 1 timeouts had pushed out.
THEOREM AlarmsAreEarned == Spec => AlarmNotEarly
  <1>1. ASSUME UntornInv, [Next]_vars, NEW d \in Devices,
               alarms'[d] # alarms[d], ~torn[d]
        PROVE  now - heard[d] > (Attempts + 1) * Timeout
    <2>1. PICK w \in Workers : Announce(w)
      BY <1>1 DEF Next, Elapse, LinkChange, WorkerStep, StartPass, EndPass,
                  CheckDeadline, CheckAttempts, LoadCounter, StoreMiss,
                  Postpone, StoreExhausted, StoreCounter, ListenerStep,
                  Receive, ReadClock, StoreDeadline, PublishOk,
                  ConversionFails, history, vars
    <2>2. dev[w] = d /\ Holds(w, d)
      BY <1>1, <2>1 DEF Announce, Holds, UntornInv, TypeOK
    <2>3. /\ Earned(d)
          /\ itr_time[w] > time_to_attempt[d]
          /\ spent_attempt[d] = Attempts + 1
      BY <1>1, <2>1, <2>2, AloneAt
         DEF Announce, UntornInv, WorkerAt, WorkerFacts
    <2>4. itr_time[w] <= now
      BY <1>1 DEF UntornInv, ClocksOK
    <2>5. time_to_attempt[d] >= heard[d] + (Attempts + 1) * Timeout
      BY <2>3, ConstantsAssumption DEF Earned
    <2>6. /\ now \in Nat /\ heard[d] \in Nat /\ itr_time[w] \in Nat
          /\ time_to_attempt[d] \in Nat /\ (Attempts + 1) * Timeout \in Nat
      BY <1>1, ConstantsAssumption DEF UntornInv, TypeOK
    <2> QED
      BY <2>3, <2>4, <2>5, <2>6
  <1>2. UntornInv /\ [Next]_vars =>
           [\A d \in Devices :
               alarms'[d] # alarms[d] /\ ~torn[d]
                  => now - heard[d] > (Attempts + 1) * Timeout]_vars
    BY <1>1
  <1> QED
    BY <1>2, UntornHandling, PTL DEF Spec, AlarmNotEarly

-----------------------------------------------------------------------------
(* One announcement per message, while passes do not meet at a device.       *)

\* Two passes are at a device at once only if it is marked crowded.
OnePass ==
    \A d \in Devices : ~crowded[d] =>
        \A v, w \in Workers : Holds(v, d) /\ Holds(w, d) => v = w

\* An announcement is paid for by the messages processed, one being owed
\* once the counter has gone past Attempts; a worker that loaded the counter
\* before it did has not spent its announcement yet.
Solvent(d) ==
    /\ alarms[d] <= resets[d] + 1
    /\ spent_attempt[d] <= Attempts => alarms[d] <= resets[d]
    /\ \A w \in Workers :
          /\ Holds(w, d) /\ pc[w] \in {"store_miss", "store_exhaust"} =>
                (reg[w] <= Attempts => alarms[d] <= resets[d])
          /\ Holds(w, d) /\ pc[w] = "announce" =>
                /\ alarms[d] <= resets[d]
                /\ spent_attempt[d] <= Attempts => alarms[d] < resets[d]

BudgetInv ==
    /\ TypeOK
    /\ OnePass
    /\ \A d \in Devices : ~crowded[d] => Solvent(d)

\* At the start nothing is spent of what a device may wait.
LEMMA InitBudget == Init => BudgetInv
  <1> SUFFICES ASSUME Init PROVE BudgetInv
    OBVIOUS
  <1>1. TypeOK
    BY InitTypeOK
  <1> QED
    BY <1>1 DEF Init, BudgetInv, OnePass, Solvent, Holds

\* Every access of either thread keeps the budget.
LEMMA NextBudget == BudgetInv /\ [Next]_vars => BudgetInv'
  <1> SUFFICES ASSUME BudgetInv, [Next]_vars PROVE BudgetInv'
    OBVIOUS
  <1>0. TypeOK /\ TypeOK'
    BY NextTypeOK DEF BudgetInv
  <1> DEFINE Uncrowded == \A e \in Devices : ~crowded[e] => Solvent(e)
  <1> USE <1>0, ConstantsAssumption
  <1> USE DEF BudgetInv, TypeOK, ListenerStates, table, locals, history
  <1>1. ASSUME NEW k \in 0..MaxPosted, Elapse(k) PROVE BudgetInv'
    <2>1. OnePass'
      BY <1>1 DEF Elapse, OnePass, Holds
    <2>2. Uncrowded'
      BY <1>1 DEF Elapse, OnePass, Solvent, Holds
    <2> QED
      BY <2>1, <2>2
  <1>2. CASE LinkChange
    <2>1. OnePass'
      BY <1>2 DEF LinkChange, OnePass, Holds
    <2>2. Uncrowded'
      BY <1>2 DEF LinkChange, OnePass, Solvent, Holds
    <2> QED
      BY <2>1, <2>2
  <1>3. ASSUME NEW w \in Workers, WorkerStep(w) PROVE BudgetInv'
    <2>1. CASE StartPass(w)
      <3>1. OnePass'
        BY <2>1 DEF StartPass, OnePass, Holds
      <3>2. Uncrowded'
        BY <2>1 DEF StartPass, OnePass, Solvent, Holds
      <3> QED
        BY <3>1, <3>2
    <2>2. CASE EndPass(w)
      <3>1. OnePass'
        BY <2>2 DEF EndPass, OnePass, Holds
      <3>2. Uncrowded'
        BY <2>2 DEF EndPass, OnePass, Solvent, Holds
      <3> QED
        BY <3>1, <3>2
    <2>3. ASSUME NEW d \in Devices, CheckDeadline(w, d) PROVE BudgetInv'
      <3>1. OnePass'
        BY <2>3, SMTT(20) DEF CheckDeadline, Quiet, OnePass, Holds
      <3>2. Uncrowded'
        BY <2>3 DEF CheckDeadline, Quiet, OnePass, Solvent, Holds
      <3> QED
        BY <3>1, <3>2
    <2>4. CASE CheckAttempts(w)
      <3>1. OnePass'
        BY <2>4 DEF CheckAttempts, OnePass, Holds
      <3>2. Uncrowded'
        BY <2>4 DEF CheckAttempts, OnePass, Solvent, Holds
      <3> QED
        BY <3>1, <3>2
    <2>5. CASE LoadCounter(w)
      <3>1. OnePass'
        BY <2>5 DEF LoadCounter, OnePass, Holds
      <3>2. Uncrowded'
        BY <2>5 DEF LoadCounter, OnePass, Solvent, Holds
      <3> QED
        BY <3>1, <3>2
    <2>6. CASE StoreMiss(w)
      <3>1. OnePass'
        BY <2>6 DEF StoreMiss, StoreCounter, OnePass, Holds
      <3>2. Uncrowded'
        BY <2>6 DEF StoreMiss, StoreCounter, OnePass, Solvent, Holds
      <3> QED
        BY <3>1, <3>2
    <2>7. CASE Postpone(w)
      <3>1. OnePass'
        BY <2>7 DEF Postpone, OnePass, Holds
      <3>2. Uncrowded'
        BY <2>7 DEF Postpone, OnePass, Solvent, Holds
      <3> QED
        BY <3>1, <3>2
    <2>8. CASE StoreExhausted(w)
      <3>1. OnePass'
        BY <2>8 DEF StoreExhausted, StoreCounter, OnePass, Holds
      <3>2. Uncrowded'
        BY <2>8 DEF StoreExhausted, StoreCounter, OnePass, Solvent, Holds
      <3> QED
        BY <3>1, <3>2
    <2>9. CASE Announce(w)
      <3>1. OnePass'
        BY <2>9 DEF Announce, SetStatus, OnePass, Holds
      <3>2. Uncrowded'
        BY <2>9 DEF Announce, SetStatus, OnePass, Solvent, Holds
      <3> QED
        BY <3>1, <3>2
    <2> QED
      BY <1>3, <2>1, <2>2, <2>3, <2>4, <2>5, <2>6, <2>7, <2>8, <2>9
         DEF WorkerStep
  <1>4. ASSUME ListenerStep PROVE BudgetInv'
    <2>1. ASSUME NEW d \in Devices, NEW m \in Messages, Receive(d, m)
          PROVE BudgetInv'
      <3>1. OnePass'
        BY <2>1 DEF Receive, OnePass, Holds
      <3>2. Uncrowded'
        BY <2>1 DEF Receive, OnePass, Solvent, Holds
      <3> QED
        BY <3>1, <3>2
    <2>2. CASE ReadClock
      <3>1. OnePass'
        BY <2>2 DEF ReadClock, OnePass, Holds
      <3>2. Uncrowded'
        BY <2>2 DEF ReadClock, OnePass, Solvent, Holds
      <3> QED
        BY <3>1, <3>2
    <2>3. CASE StoreDeadline
      <3>1. OnePass'
        BY <2>3 DEF StoreDeadline, OnePass, Holds
      <3>2. Uncrowded'
        BY <2>3 DEF StoreDeadline, OnePass, Solvent, Holds
      <3> QED
        BY <3>1, <3>2
    <2>4. CASE PublishOk
      <3>1. OnePass'
        BY <2>4 DEF PublishOk, SetStatus, OnePass, Holds
      <3>2. Uncrowded'
        BY <2>4 DEF PublishOk, SetStatus, OnePass, Solvent, Holds
      <3> QED
        BY <3>1, <3>2
    <2>5. CASE ConversionFails
      <3>1. OnePass'
        BY <2>5 DEF ConversionFails, OnePass, Holds
      <3>2. Uncrowded'
        BY <2>5 DEF ConversionFails, OnePass, Solvent, Holds
      <3> QED
        BY <3>1, <3>2
    <2> QED
      BY <1>4, <2>1, <2>2, <2>3, <2>4, <2>5 DEF ListenerStep
  <1>5. CASE UNCHANGED vars
    <2>1. OnePass'
      BY <1>5 DEF vars, OnePass, Holds
    <2>2. Uncrowded'
      BY <1>5 DEF vars, OnePass, Solvent, Holds
    <2> QED
      BY <2>1, <2>2
  <1> QED
    BY <1>1, <1>2, <1>3, <1>4, <1>5 DEF Next

\* AlarmBudget: one message buys at most one announcement.
THEOREM AlarmsAreBudgeted == Spec => []AlarmBudget
  <1>1. BudgetInv => AlarmBudget
    BY DEF BudgetInv, Solvent, AlarmBudget
  <1> QED
    BY <1>1, InitBudget, NextBudget, PTL DEF Spec

-----------------------------------------------------------------------------
(* How late an announcement is, with a pass per period that is over within   *)
(* it: the inductive invariant behind DetectionBound.                        *)

\* One pass at a time, which is at the clock's time, and so is the listener.
Serial ==
    /\ posted \in {0, 1}
    /\ \A w \in Workers : pc[w] # "idle" =>
          /\ itr_time[w] = now
          /\ posted = 0
          /\ \A v \in Workers : pc[v] # "idle" => v = w
    /\ listener.pc = "deadline" => listener.reg = now

\* The pass of this period is not through with the device.
Pending(d) ==
    \/ posted = 1
    \/ \E w \in Workers : (pc[w] # "idle" /\ d \in left[w]) \/ Holds(w, d)

\* The latest deadline after n attempts: each was noticed a period late.
Late(d, n) == heard[d] + (n + 1) * Timeout + n

\* The listener has not stored the deadline of its message yet.
Early(d) == listener.pc \in {"clock", "deadline"} /\ listener.dev = d

\* A message was processed within this period.
Fresh(d) == heard[d] = now /\ time_to_attempt[d] = now + Timeout

\* What the one worker at a device has found out, if no message undid it.
Upheld(w, d) ==
    /\ pc[w] \in {"store_miss", "store_exhaust"} => reg[w] = spent_attempt[d]
    /\ pc[w] \in {"exhaust", "store_exhaust"} => spent_attempt[d] >= Attempts
    /\ pc[w] = "announce" => spent_attempt[d] > Attempts

\* It is upheld but for a message of this period, and a reset only lowers the
\* counter.
AtWork(w, d) ==
    /\ pc[w] = "miss" => spent_attempt[d] < Attempts
    /\ pc[w] = "store_miss" => reg[w] < Attempts
    /\ pc[w] = "postpone" => spent_attempt[d] <= Attempts
    /\ Early(d) \/ Fresh(d) \/ Upheld(w, d)

Working == \A d \in Devices, w \in Workers : Holds(w, d) => AtWork(w, d)

\* The deadlines are not too late, and no expired one is left behind, of
\* devices whose handling was overlapped as well.
Prompt(d) ==
    /\ InStep(d) /\ Unannounced(d) =>
          /\ spent_attempt[d] <= Attempts
                => time_to_attempt[d] <= Late(d, spent_attempt[d])
          /\ time_to_attempt[d] <= Late(d, Attempts)
          /\ now <= time_to_attempt[d] + 1
          /\ now <= time_to_attempt[d] \/ Pending(d)
    /\ ~Early(d) => \A w \in Workers : pc[w] = "postpone" /\ dev[w] = d =>
          now <= heard[d] + spent_attempt[d] * Timeout + spent_attempt[d]

\* A device with no attempts left has been announced, unless that was dropped.
Announced ==
    \A d \in Devices :
        ~torn[d] /\ fate[d] # "dropped" /\ StatusSet(d) /\ spent_attempt[d] > Attempts
           => status[d] = "error"

TimelyInv ==
    /\ UntornInv
    /\ Serial
    /\ Announced
    /\ Working
    /\ \A d \in Devices : Prompt(d)

\* What arithmetic on products the steps need.
LEMMA MoreIsLater ==
    ASSUME NEW h \in Nat, NEW m \in Nat, NEW n \in Nat, m <= n
    PROVE  /\ h + (m + 1) * Timeout + m = h + m * Timeout + Timeout + m
           /\ h + (m + 1) * Timeout + m <= h + (n + 1) * Timeout + n
           /\ m * Timeout \in Nat
  <1>1. PICK k \in Nat : n = m + k
    <2>1. n - m \in Nat /\ n = m + (n - m)
      OBVIOUS
    <2> QED
      BY <2>1
  <1>2. (n + 1) * Timeout = (m + 1) * Timeout + k * Timeout /\ k * Timeout \in Nat
    BY <1>1, ConstantsAssumption
  <1>3. (m + 1) * Timeout = m * Timeout + Timeout /\ m * Timeout \in Nat
    BY ConstantsAssumption
  <1> QED
    BY <1>1, <1>2, <1>3, ConstantsAssumption

\* A latest deadline is a time.
LEMMA LateTyped ==
    ASSUME TypeOK, NEW d \in Devices, NEW n \in Nat
    PROVE  Late(d, n) \in Nat
  <1>1. heard[d] \in Nat /\ (n + 1) * Timeout \in Nat
    BY ConstantsAssumption DEF TypeOK
  <1> QED
    BY <1>1 DEF Late

\* createDeviceList's deadlines are the first ones.
LEMMA InitTimely == Init => TimelyInv
  <1> SUFFICES ASSUME Init PROVE TimelyInv
    OBVIOUS
  <1>1. UntornInv
    BY InitUntorn
  <1>2. Serial /\ Announced
    BY ConstantsAssumption DEF Init, Serial, Announced
  <1>3. Working
    BY DEF Init, Working, Holds
  <1>4. ASSUME NEW d \in Devices PROVE Prompt(d)
    <2>1. /\ heard[d] = 0 /\ spent_attempt[d] = 0 /\ now = 0
          /\ time_to_attempt[d] = Timeout
      BY <1>4 DEF Init
    <2>2. Late(d, 0) = Timeout /\ Late(d, 0) <= Late(d, Attempts)
      BY <2>1, MoreIsLater, ConstantsAssumption DEF Late
    <2> QED
      BY <2>1, <2>2, ConstantsAssumption DEF Init, Prompt
  <1> QED
    BY <1>1, <1>2, <1>3, <1>4 DEF TimelyInv

\* The clock waits for the pass, so that no two passes meet.
LEMMA NextSerial == TypeOK /\ Serial /\ [Next /\ OnTime]_vars => Serial'
  <1> SUFFICES ASSUME TypeOK, Serial, [Next /\ OnTime]_vars PROVE Serial'
    OBVIOUS
  <1> USE DEF Serial, TypeOK, ListenerStates, table, locals, history
  <1>1. ASSUME NEW k \in 0..MaxPosted, Elapse(k), OnTime PROVE Serial'
    BY <1>1 DEF Elapse, OnTime
  <1>2. CASE LinkChange
    BY <1>2 DEF LinkChange
  <1>3. ASSUME NEW w \in Workers, WorkerStep(w) PROVE Serial'
    <2>1. CASE StartPass(w)
      BY <2>1 DEF StartPass
    <2>2. CASE EndPass(w)
      BY <2>2 DEF EndPass
    <2>3. ASSUME NEW d \in Devices, CheckDeadline(w, d) PROVE Serial'
      BY <2>3 DEF CheckDeadline
    <2>4. CASE CheckAttempts(w) \/ LoadCounter(w) \/ Postpone(w)
      BY <2>4 DEF CheckAttempts, LoadCounter, Postpone
    <2>5. CASE StoreMiss(w) \/ StoreExhausted(w)
      BY <2>5 DEF StoreMiss, StoreExhausted, StoreCounter
    <2>6. CASE Announce(w)
      BY <2>6 DEF Announce
    <2> QED
      BY <1>3, <2>1, <2>2, <2>3, <2>4, <2>5, <2>6 DEF WorkerStep
  <1>4. CASE ListenerStep
    <2>1. UNCHANGED <<now, posted, pc, itr_time>>
      BY <1>4 DEF ListenerStep, Receive, ReadClock, StoreDeadline, PublishOk,
                  ConversionFails
    <2>2. listener'.pc = "deadline" => listener'.reg = now
      <3>1. ASSUME NEW d \in Devices, NEW m \in Messages, Receive(d, m)
            PROVE  listener'.pc # "deadline"
        BY <3>1 DEF Receive
      <3>2. CASE ReadClock
        BY <3>2 DEF ReadClock
      <3>3. CASE StoreDeadline \/ PublishOk \/ ConversionFails
        BY <3>3 DEF StoreDeadline, PublishOk, ConversionFails
      <3> QED
        BY <1>4, <3>1, <3>2, <3>3 DEF ListenerStep
    <2> QED
      BY <2>1, <2>2
  <1>5. CASE UNCHANGED vars
    BY <1>5 DEF vars
  <1> QED
    BY <1>1, <1>2, <1>3, <1>4, <1>5 DEF Next

\* Only StoreExhausted takes the counter past Attempts, and the first one that
\* does goes on to announce.
LEMMA NextAnnounced == UntornInv /\ Announced /\ [Next]_vars => Announced'
  <1> SUFFICES ASSUME UntornInv, Announced, [Next]_vars PROVE Announced'
    OBVIOUS
  <1> USE DEF UntornInv, TypeOK, ListenerStates, table, locals, history
  <1>1. ASSUME NEW k \in 0..MaxPosted, Elapse(k) PROVE Announced'
    BY <1>1 DEF Elapse, Announced, StatusSet, ListenerHolds
  <1>2. CASE LinkChange
    BY <1>2 DEF LinkChange, Announced, StatusSet, ListenerHolds
  <1>3. ASSUME NEW w \in Workers, WorkerStep(w) PROVE Announced'
    <2>1. CASE StartPass(w) \/ EndPass(w) \/ CheckAttempts(w) \/ LoadCounter(w) \/ Postpone(w)
      BY <2>1 DEF StartPass, EndPass, CheckAttempts, LoadCounter, Postpone,
                  Announced, StatusSet, ListenerHolds
    <2>2. ASSUME NEW d \in Devices, CheckDeadline(w, d) PROVE Announced'
      <3>1. \A e \in Devices : /\ StatusSet(e)' => StatusSet(e)
                               /\ ~torn'[e] => ~torn[e]
        BY <2>2 DEF CheckDeadline, StatusSet, ListenerHolds
      <3> QED
        BY <2>2, <3>1 DEF CheckDeadline, Announced
    <2>3. CASE StoreMiss(w)
      <3> SUFFICES ASSUME NEW d \in Devices, ~torn[d], fate[d] # "dropped",
                          StatusSet(d)', spent_attempt'[d] > Attempts
                   PROVE  status'[d] = "error"
        BY <2>3 DEF StoreMiss, StoreCounter, Announced
      <3>1. CASE d = dev[w]
        <4>1. spent_attempt'[d] <= Attempts
          BY <2>3, <3>1, ConstantsAssumption
             DEF StoreMiss, StoreCounter, WorkerAt, WorkerFacts, Holds
        <4> QED
          BY <2>3, <4>1, ConstantsAssumption DEF StoreMiss, StoreCounter
      <3>2. CASE d # dev[w]
        BY <2>3, <3>2 DEF StoreMiss, StoreCounter, Announced, StatusSet, ListenerHolds
      <3> QED
        BY <3>1, <3>2
    <2>4. CASE StoreExhausted(w)
      <3> SUFFICES ASSUME NEW d \in Devices, ~torn[d], fate[d] # "dropped",
                          StatusSet(d)', spent_attempt'[d] > Attempts
                   PROVE  status'[d] = "error"
        BY <2>4 DEF StoreExhausted, StoreCounter, Announced
      <3>1. CASE d = dev[w]
        <4>1. Holds(w, d)
          BY <2>4, <3>1 DEF StoreExhausted, Holds
        <4>2. reg[w] = spent_attempt[d] /\ spent_attempt[d] >= Attempts
          BY <2>4, <4>1 DEF StoreExhausted, WorkerAt, WorkerFacts
        <4>3. reg[w] # Attempts
          BY <2>4, <3>1 DEF StoreExhausted, StoreCounter, StatusSet
        <4>4. spent_attempt[d] > Attempts
          BY <4>2, <4>3, ConstantsAssumption
        <4>5. StatusSet(d)
          BY <2>4, <4>1, AloneAt DEF StatusSet, Holds, StoreExhausted
        <4> QED
          BY <2>4, <4>4, <4>5 DEF StoreExhausted, StoreCounter, Announced
      <3>2. CASE d # dev[w]
        BY <2>4, <3>2 DEF StoreExhausted, StoreCounter, Announced, StatusSet, ListenerHolds
      <3> QED
        BY <3>1, <3>2
    <2>5. CASE Announce(w)
      <3> SUFFICES ASSUME NEW d \in Devices, ~torn[d], fate'[d] # "dropped",
                          StatusSet(d)', spent_attempt[d] > Attempts
                   PROVE  status'[d] = "error"
        BY <2>5 DEF Announce, Announced
      <3>1. CASE d = dev[w]
        BY <2>5, <3>1 DEF Announce, SetStatus
      <3>2. CASE d # dev[w]
        BY <2>5, <3>2 DEF Announce, SetStatus, Announced, StatusSet, ListenerHolds
      <3> QED
        BY <3>1, <3>2
    <2> QED
      BY <1>3, <2>1, <2>2, <2>3, <2>4, <2>5 DEF WorkerStep
  <1>4. ASSUME ListenerStep PROVE Announced'
    <2>1. ASSUME NEW d \in Devices, NEW m \in Messages, Receive(d, m) PROVE Announced'
      BY <2>1 DEF Receive, Announced, StatusSet, ListenerHolds
    <2>2. CASE ReadClock \/ StoreDeadline
      BY <2>2 DEF ReadClock, StoreDeadline, Announced, StatusSet, ListenerHolds
    <2>3. CASE PublishOk \/ ConversionFails
      <3> SUFFICES ASSUME NEW d \in Devices, ~torn[d], fate'[d] # "dropped",
                          StatusSet(d)', spent_attempt[d] > Attempts
                   PROVE  status'[d] = "error"
        BY <2>3 DEF PublishOk, ConversionFails, Announced
      <3>1. CASE d = listener.dev
        <4>1. spent_attempt[d] = 0
          BY <2>3, <3>1 DEF ListenerAt, ListenerHolds, PublishOk, ConversionFails
        <4> QED
          BY <4>1, ConstantsAssumption
      <3>2. CASE d # listener.dev
        BY <2>3, <3>2
           DEF PublishOk, ConversionFails, SetStatus, Announced, StatusSet, ListenerHolds
      <3> QED
        BY <3>1, <3>2
    <2> QED
      BY <1>4, <2>1, <2>2, <2>3 DEF ListenerStep
  <1>5. CASE UNCHANGED vars
    BY <1>5 DEF vars, Announced, StatusSet, ListenerHolds
  <1> QED
    BY <1>1, <1>2, <1>3, <1>4, <1>5 DEF Next

\* A step that leaves the times and the counter of a device alone.
LEMMA PromptStays ==
    ASSUME NEW d \in Devices, Prompt(d),
           now' = now, heard'[d] = heard[d], spent_attempt'[d] = spent_attempt[d],
           time_to_attempt'[d] = time_to_attempt[d],
           InStep(d)' => InStep(d), Early(d) => Early(d)',
           \A w \in Workers : pc'[w] \in {"announce", "postpone"} /\ dev'[w] = d
                                 => pc[w] = pc'[w] /\ dev[w] = d,
           Pending(d) => Pending(d)'
    PROVE  Prompt(d)'
  <1>1. Unannounced(d)' => Unannounced(d)
    BY DEF Unannounced
  <1>2. /\ Late(d, spent_attempt[d])' = Late(d, spent_attempt[d])
        /\ Late(d, Attempts)' = Late(d, Attempts)
    BY DEF Late
  <1> QED
    BY <1>1, <1>2 DEF Prompt

\* No number of attempts makes a deadline earlier than the first one.
LEMMA FirstIsEarliest ==
    ASSUME NEW h \in Nat, NEW n \in Nat
    PROVE  /\ h + Timeout <= h + (n + 1) * Timeout + n
           /\ h <= h + n * Timeout + n
  <1>1. (n + 1) * Timeout = n * Timeout + Timeout /\ n * Timeout \in Nat
    BY ConstantsAssumption
  <1> QED
    BY <1>1, ConstantsAssumption

\* A message within this period makes everything prompt.
LEMMA FreshIsPrompt ==
    ASSUME TypeOK', NEW d \in Devices, heard'[d] = now',
           time_to_attempt'[d] = now' + Timeout
    PROVE  Prompt(d)'
  <1>1. /\ heard'[d] \in Nat /\ spent_attempt'[d] \in Nat
        /\ Attempts \in Nat /\ Timeout \in Nat
    BY ConstantsAssumption DEF TypeOK
  <1>2. /\ time_to_attempt'[d] <= Late(d, spent_attempt[d])'
        /\ time_to_attempt'[d] <= Late(d, Attempts)'
        /\ now' <= heard'[d] + spent_attempt'[d] * Timeout + spent_attempt'[d]
    BY <1>1, FirstIsEarliest DEF Late
  <1>3. now' <= time_to_attempt'[d] /\ now' <= time_to_attempt'[d] + 1
    BY <1>1
  <1> QED
    BY <1>2, <1>3 DEF Prompt

\* The one worker at a device keeps what it knows, or hears of a message.
LEMMA NextWorking ==
    ASSUME TypeOK, Serial, Working, [Next /\ OnTime]_vars
    PROVE  Working'
  <1> SUFFICES ASSUME NEW d \in Devices, NEW v \in Workers, Holds(v, d)'
               PROVE  AtWork(v, d)'
    BY DEF Working
  <1> USE ConstantsAssumption DEF TypeOK, ListenerStates, table, locals, history
  <1>1. ASSUME NEW k \in 0..MaxPosted, Elapse(k), OnTime PROVE AtWork(v, d)'
    BY <1>1 DEF Elapse, OnTime, Holds
  <1>2. CASE LinkChange \/ UNCHANGED vars
    <2>1. /\ UNCHANGED <<now, spent_attempt, time_to_attempt, pc, dev, reg, listener, heard>>
      BY <1>2 DEF LinkChange, vars
    <2> QED
      BY <2>1 DEF Working, Holds, AtWork, Upheld, Early, Fresh
  <1>3. ASSUME NEW w \in Workers, WorkerStep(w) PROVE AtWork(v, d)'
    <2>1. CASE StartPass(w)
      BY <2>1 DEF StartPass, Serial, Holds
    <2>2. CASE EndPass(w)
      BY <2>2 DEF EndPass, Serial, Holds
    <2>3. ASSUME NEW e \in Devices, CheckDeadline(w, e) PROVE AtWork(v, d)'
      <3>1. v = w /\ pc'[w] = "attempt"
        BY <2>3 DEF CheckDeadline, Serial, Holds
      <3> QED
        BY <3>1 DEF AtWork, Upheld
    <2>4. CASE CheckAttempts(w)
      <3>1. v = w /\ d = dev[w]
        BY <2>4 DEF CheckAttempts, Serial, Holds
      <3> QED
        BY <2>4, <3>1 DEF CheckAttempts, AtWork, Upheld
    <2>5. CASE LoadCounter(w)
      <3>1. v = w /\ d = dev[w] /\ Holds(w, d)
        BY <2>5 DEF LoadCounter, Serial, Holds
      <3>2. AtWork(w, d)
        BY <3>1 DEF Working
      <3>3. /\ pc'[w] \in {"store_miss", "store_exhaust"}
            /\ pc'[w] = "store_miss" => pc[w] = "miss"
            /\ pc'[w] = "store_exhaust" => pc[w] = "exhaust"
            /\ reg'[w] = spent_attempt[d]
            /\ UNCHANGED <<now, spent_attempt, time_to_attempt, listener, heard>>
        BY <2>5, <3>1 DEF LoadCounter
      <3> QED
        BY <3>1, <3>2, <3>3 DEF AtWork, Upheld, Early, Fresh
    <2>6. CASE StoreMiss(w)
      <3>1. v = w /\ d = dev[w] /\ Holds(w, d)
        BY <2>6 DEF StoreMiss, StoreCounter, Serial, Holds
      <3>2. reg[w] < Attempts
        BY <2>6, <3>1 DEF Working, AtWork, StoreMiss
      <3>3. spent_attempt'[d] = reg[w] + 1 /\ pc'[w] = "postpone"
        BY <2>6, <3>1 DEF StoreMiss, StoreCounter
      <3> QED
        BY <3>1, <3>2, <3>3 DEF AtWork, Upheld
    <2>7. CASE Postpone(w) \/ Announce(w)
      BY <2>7 DEF Postpone, Announce, Serial, Holds
    <2>8. CASE StoreExhausted(w)
      <3>1. /\ v = w /\ d = dev[w] /\ pc'[w] = "announce" /\ reg[w] = Attempts
        BY <2>8 DEF StoreExhausted, StoreCounter, Serial, Holds
      <3>2. spent_attempt'[d] = Attempts + 1
        BY <2>8, <3>1 DEF StoreExhausted, StoreCounter
      <3> QED
        BY <3>1, <3>2 DEF AtWork, Upheld
    <2> QED
      BY <1>3, <2>1, <2>2, <2>3, <2>4, <2>5, <2>6, <2>7, <2>8 DEF WorkerStep
  <1>4. ASSUME ListenerStep PROVE AtWork(v, d)'
    <2>1. UNCHANGED <<now, pc, dev, reg>>
      BY <1>4 DEF ListenerStep, Receive, ReadClock, StoreDeadline, PublishOk,
                  ConversionFails
    <2>2. AtWork(v, d)
      BY <2>1 DEF Working, Holds
    <2>3. ASSUME NEW e \in Devices, NEW m \in Messages, Receive(e, m)
          PROVE  AtWork(v, d)'
      <3>1. CASE e = d
        <4>1. spent_attempt'[d] = 0 /\ Early(d)'
          BY <2>3, <3>1 DEF Receive, Early
        <4> QED
          BY <2>1, <2>2, <4>1 DEF AtWork
      <3>2. CASE e # d
        <4>1. /\ ~Early(d) /\ spent_attempt'[d] = spent_attempt[d]
              /\ time_to_attempt' = time_to_attempt /\ heard' = heard
          BY <2>3, <3>2 DEF Receive, Early
        <4> QED
          BY <2>1, <2>2, <4>1 DEF AtWork, Upheld, Fresh
      <3> QED
        BY <3>1, <3>2
    <2>4. CASE ReadClock \/ PublishOk \/ ConversionFails
      <3>1. /\ Early(d) => Early(d)'
            /\ UNCHANGED <<spent_attempt, time_to_attempt, heard>>
        BY <2>4 DEF ReadClock, PublishOk, ConversionFails, Early
      <3> QED
        BY <2>1, <2>2, <3>1 DEF AtWork, Upheld, Fresh
    <2>5. CASE StoreDeadline
      <3>1. CASE d = listener.dev
        <4>1. Fresh(d)' /\ spent_attempt' = spent_attempt
          BY <2>5, <3>1 DEF StoreDeadline, Serial, Fresh
        <4> QED
          BY <2>1, <2>2, <4>1 DEF AtWork
      <3>2. CASE d # listener.dev
        <4>1. /\ ~Early(d) /\ spent_attempt' = spent_attempt
              /\ time_to_attempt'[d] = time_to_attempt[d] /\ heard'[d] = heard[d]
          BY <2>5, <3>2 DEF StoreDeadline, Early
        <4> QED
          BY <2>1, <2>2, <4>1 DEF AtWork, Upheld, Fresh
      <3> QED
        BY <3>1, <3>2
    <2> QED
      BY <1>4, <2>3, <2>4, <2>5 DEF ListenerStep
  <1> QED
    BY <1>1, <1>2, <1>3, <1>4 DEF Next

\* The period of one device's deadlines: a pass that finds it expired is a
\* period late at most, and buys one timeout more.
LEMMA NextPrompt ==
    ASSUME TimelyInv, [Next /\ OnTime]_vars, NEW d \in Devices
    PROVE  Prompt(d)'
  <1> DEFINE Stays == /\ now' = now /\ heard'[d] = heard[d]
                      /\ spent_attempt'[d] = spent_attempt[d]
                      /\ time_to_attempt'[d] = time_to_attempt[d]
                      /\ Early(d) => Early(d)'
  <1>0. TypeOK /\ TypeOK' /\ Serial /\ Working
    BY NextTypeOK DEF TimelyInv, UntornInv
  <1> USE <1>0, ConstantsAssumption
  <1> USE DEF TypeOK, ListenerStates, table, locals, history
  <1>p. Prompt(d)
    BY DEF TimelyInv
  <1>1. ASSUME NEW k \in 0..MaxPosted, Elapse(k), OnTime PROVE Prompt(d)'
    <2>1. now' = now + 1 /\ posted' = 1 /\ posted = 0
      BY <1>1 DEF Elapse, OnTime
    <2>2. \A w \in Workers : pc[w] = "idle" /\ pc'[w] = "idle"
      BY <1>1, <2>1 DEF Elapse, OnTime
    <2>3. ~Pending(d) /\ Pending(d)'
      BY <2>1, <2>2 DEF Pending, Holds
    <2>4. /\ InStep(d)' => InStep(d)
          /\ Unannounced(d)' => Unannounced(d)
          /\ Late(d, spent_attempt[d])' = Late(d, spent_attempt[d])
          /\ Late(d, Attempts)' = Late(d, Attempts)
          /\ spent_attempt' = spent_attempt /\ time_to_attempt' = time_to_attempt
      BY <1>1 DEF Elapse, InStep, Unannounced, Late
    <2> QED
      BY <1>p, <2>1, <2>2, <2>3, <2>4 DEF Prompt
  <1>2. CASE LinkChange
    <2>1. Stays /\ InStep(d)' = InStep(d) /\ Pending(d)' = Pending(d)
      BY <1>2 DEF LinkChange, InStep, Early, Pending, Holds
    <2> QED
      BY <1>2, <1>p, <2>1, PromptStays DEF LinkChange
  <1>3. ASSUME NEW w \in Workers, WorkerStep(w) PROVE Prompt(d)'
    <2>1. CASE StartPass(w)
      <3>1. Stays /\ (InStep(d)' => InStep(d)) /\ Pending(d)'
        BY <2>1 DEF StartPass, InStep, Early, Pending, Holds
      <3> QED
        BY <2>1, <1>p, <3>1, PromptStays DEF StartPass
    <2>2. CASE EndPass(w)
      <3>1. Stays /\ (InStep(d)' => InStep(d)) /\ (Pending(d) => Pending(d)')
        BY <2>2 DEF EndPass, InStep, Early, Pending, Holds
      <3> QED
        BY <2>2, <1>p, <3>1, PromptStays DEF EndPass
    <2>3. ASSUME NEW e \in Devices, CheckDeadline(w, e) PROVE Prompt(d)'
      <3>1. /\ Stays /\ (InStep(d)' => InStep(d))
            /\ \A v \in Workers : pc'[v] \in {"announce", "postpone"} /\ dev'[v] = d
                                     => pc[v] = pc'[v] /\ dev[v] = d
        <4>1. Stays
          BY <2>3 DEF CheckDeadline, Early
        <4>2. \A v \in Workers : pc'[v] \in {"announce", "postpone"} /\ dev'[v] = d
                                     => pc[v] = pc'[v] /\ dev[v] = d
          BY <2>3 DEF CheckDeadline
        <4>3. InStep(d)' => InStep(d)
          BY <2>3 DEF CheckDeadline, InStep
        <4> QED
          BY <4>1, <4>2, <4>3
      <3>2. CASE Pending(d) => Pending(d)'
        BY <1>p, <3>1, <3>2, PromptStays
      <3>3. CASE e = d /\ now <= time_to_attempt[d]
        <4>1. /\ Unannounced(d)' => Unannounced(d)
              /\ Late(d, spent_attempt[d])' = Late(d, spent_attempt[d])
              /\ Late(d, Attempts)' = Late(d, Attempts)
          BY <3>1 DEF Unannounced, Late
        <4> QED
          BY <1>p, <3>1, <3>3, <4>1 DEF Prompt
      <3>4. CASE e = d /\ ~(now <= time_to_attempt[d])
        <4>1. itr_time[w] = now
          BY <2>3 DEF CheckDeadline, Serial
        <4>2. Holds(w, d)'
          BY <2>3, <3>4, <4>1 DEF CheckDeadline, Holds
        <4> QED
          BY <3>2, <4>2 DEF Pending
      <3>5. CASE e # d
        <4>1. Pending(d) => Pending(d)'
          BY <2>3, <3>5 DEF CheckDeadline, Pending, Holds
        <4> QED
          BY <3>2, <4>1
      <3> QED
        BY <3>3, <3>4, <3>5
    <2>4. CASE CheckAttempts(w) \/ LoadCounter(w)
      <3>1. Stays /\ (InStep(d)' => InStep(d)) /\ (Pending(d) => Pending(d)')
        BY <2>4 DEF CheckAttempts, LoadCounter, InStep, Early, Pending, Holds
      <3> QED
        BY <2>4, <1>p, <3>1, PromptStays DEF CheckAttempts, LoadCounter
    <2>5. CASE StoreMiss(w)
      <3>1. CASE d # dev[w]
        <4>1. Stays /\ (InStep(d)' => InStep(d)) /\ (Pending(d) => Pending(d)')
          BY <2>5, <3>1 DEF StoreMiss, StoreCounter, InStep, Early, Pending, Holds
        <4> QED
          BY <2>5, <1>p, <3>1, <4>1, PromptStays DEF StoreMiss, StoreCounter
      <3>2. CASE d = dev[w]
        <4>1. /\ Holds(w, d) /\ AtWork(w, d)
              /\ \A v \in Workers : Holds(v, d) => v = w
          BY <2>5, <3>2 DEF StoreMiss, Holds, Serial, Working
        <4>2. /\ spent_attempt'[d] = reg[w] + 1 /\ now' = now /\ heard' = heard
              /\ pc[w] = "store_miss" /\ pc'[w] = "postpone" /\ dev'[w] = d
              /\ listener' = listener
          BY <2>5, <3>2 DEF StoreMiss, StoreCounter
        <4>3. ~InStep(d)'
          BY <4>2 DEF InStep
        <4>4. CASE Early(d)
          BY <4>2, <4>3, <4>4 DEF Prompt, Early
        <4>5. CASE Fresh(d)
          <5>1. (reg[w] + 1) * Timeout \in Nat /\ now \in Nat
            OBVIOUS
          <5>2. now <= heard[d] + (reg[w] + 1) * Timeout + (reg[w] + 1)
            BY <4>5, <5>1 DEF Fresh
          <5> QED
            BY <4>2, <4>3, <5>2 DEF Prompt
        <4>6. CASE ~Early(d) /\ Upheld(w, d)
          <5>1. reg[w] = spent_attempt[d] /\ spent_attempt[d] < Attempts
            BY <4>1, <4>2, <4>6 DEF AtWork, Upheld
          <5>2. InStep(d)
            BY <4>1, <4>2, <4>6 DEF InStep, Early, Holds
          <5>3. /\ now <= time_to_attempt[d] + 1
                /\ time_to_attempt[d] <= Late(d, spent_attempt[d])
            BY <1>p, <5>1, <5>2 DEF Prompt, Unannounced
          <5>4. now <= heard[d] + (spent_attempt[d] + 1) * Timeout + (spent_attempt[d] + 1)
            BY <5>3, MoreIsLater DEF Late
          <5> QED
            BY <4>2, <4>3, <5>1, <5>4 DEF Prompt
        <4> QED
          BY <4>1, <4>4, <4>5, <4>6 DEF AtWork
      <3> QED
        BY <3>1, <3>2
    <2>6. CASE Postpone(w)
      <3>1. CASE d # dev[w]
        <4>1. Stays /\ (InStep(d)' => InStep(d)) /\ (Pending(d) => Pending(d)')
          BY <2>6, <3>1 DEF Postpone, InStep, Early, Pending, Holds
        <4> QED
          BY <2>6, <1>p, <3>1, <4>1, PromptStays DEF Postpone
      <3>2. CASE d = dev[w]
        <4>1. Holds(w, d)
          BY <2>6, <3>2 DEF Postpone, Holds
        <4>2. /\ \A v \in Workers : Holds(v, d) => v = w
              /\ spent_attempt[d] <= Attempts
          BY <2>6, <4>1 DEF Working, AtWork, Serial, Postpone, Holds
        <4>3. ~Early(d) => now <= heard[d] + spent_attempt[d] * Timeout + spent_attempt[d]
          BY <2>6, <1>p, <3>2 DEF Prompt, Postpone
        <4>4. itr_time[w] = now
          BY <2>6 DEF Serial, Postpone
        <4>5. /\ time_to_attempt'[d] = now + Timeout
              /\ now' = now /\ heard' = heard /\ spent_attempt' = spent_attempt
          BY <2>6, <3>2, <4>4 DEF Postpone
        <4>6. ASSUME ~Early(d)
              PROVE  /\ now + Timeout <= Late(d, spent_attempt[d])
                     /\ Late(d, spent_attempt[d]) <= Late(d, Attempts)
          <5>1. /\ spent_attempt[d] \in Nat /\ heard[d] \in Nat
                /\ now \in Nat /\ spent_attempt[d] * Timeout \in Nat
            OBVIOUS
          <5>2. /\ Late(d, spent_attempt[d])
                      = heard[d] + spent_attempt[d] * Timeout + Timeout + spent_attempt[d]
                /\ Late(d, spent_attempt[d]) <= Late(d, Attempts)
            BY <4>2, <5>1, MoreIsLater DEF Late
          <5> QED
            BY <4>3, <4>6, <5>1, <5>2
        <4>7. /\ Late(d, spent_attempt[d])' = Late(d, spent_attempt[d])
              /\ Late(d, Attempts)' = Late(d, Attempts)
          BY <4>5 DEF Late
        <4>8. \A v \in Workers : ~(pc'[v] = "postpone" /\ dev'[v] = d)
          BY <2>6, <4>2 DEF Postpone, Holds
        <4>9. /\ Late(d, spent_attempt[d]) \in Nat
              /\ Late(d, Attempts) \in Nat
          BY LateTyped
        <4>10. ASSUME ~Early(d)
               PROVE  /\ time_to_attempt'[d] <= Late(d, spent_attempt[d])
                      /\ time_to_attempt'[d] <= Late(d, Attempts)
                      /\ now' <= time_to_attempt'[d]
          BY <4>5, <4>6, <4>9, <4>10
        <4>11. InStep(d)' => ~Early(d)
          BY <2>6 DEF Postpone, InStep, Early
        <4> QED
          BY <4>5, <4>7, <4>8, <4>10, <4>11 DEF Prompt
      <3> QED
        BY <3>1, <3>2
    <2>7. CASE StoreExhausted(w)
      <3>1. CASE d # dev[w]
        <4>1. Stays /\ (InStep(d)' => InStep(d)) /\ (Pending(d) => Pending(d)')
          BY <2>7, <3>1 DEF StoreExhausted, StoreCounter, InStep, Early, Pending, Holds
        <4> QED
          BY <2>7, <1>p, <3>1, <4>1, PromptStays DEF StoreExhausted, StoreCounter
      <3>2. CASE d = dev[w]
        <4>1. /\ Holds(w, d) /\ AtWork(w, d)
              /\ \A v \in Workers : Holds(v, d) => v = w
          BY <2>7, <3>2 DEF StoreExhausted, Holds, Serial, Working
        <4>2. /\ spent_attempt'[d] = reg[w] + 1 /\ now' = now /\ heard' = heard
              /\ time_to_attempt' = time_to_attempt /\ listener' = listener
              /\ pc[w] = "store_exhaust" /\ dev' = dev
              /\ pc' = [pc EXCEPT ![w] = IF reg[w] = Attempts THEN "announce" ELSE "next"]
          BY <2>7, <3>2 DEF StoreExhausted, StoreCounter
        <4>3. \A v \in Workers : ~(pc'[v] = "postpone" /\ dev'[v] = d)
          BY <4>1, <4>2 DEF Holds
        <4>4. CASE Early(d)
          BY <4>2, <4>4 DEF Prompt, Early, InStep
        <4>5. CASE Fresh(d)
          BY <4>2, <4>3, <4>5, FreshIsPrompt DEF Fresh
        <4>6. CASE ~Early(d) /\ Upheld(w, d)
          <5>1. reg[w] = spent_attempt[d] /\ spent_attempt[d] >= Attempts
            BY <4>2, <4>6 DEF Upheld
          <5>2. spent_attempt'[d] > Attempts
            BY <4>2, <5>1
          <5>3. InStep(d)
            BY <4>1, <4>2, <4>6 DEF InStep, Early, Holds
          <5>4. CASE reg[w] = Attempts
            <6>1. Holds(w, d)'
              BY <3>2, <4>2, <5>4 DEF Holds
            <6>2. /\ time_to_attempt[d] <= Late(d, Attempts)
                  /\ now <= time_to_attempt[d] + 1
              BY <1>p, <5>1, <5>3, <5>4 DEF Prompt, Unannounced
            <6>3. Late(d, Attempts)' = Late(d, Attempts)
              BY <4>2 DEF Late
            <6> QED
              BY <4>2, <4>3, <5>2, <6>1, <6>2, <6>3 DEF Prompt, Pending
          <5>5. CASE reg[w] # Attempts
            <6>1. \A v \in Workers : ~(pc'[v] = "announce" /\ dev'[v] = d)
              BY <4>1, <4>2, <5>5 DEF Holds
            <6>2. ~Unannounced(d)'
              BY <5>2, <6>1 DEF Unannounced
            <6> QED
              BY <4>3, <6>2 DEF Prompt
          <5> QED
            BY <5>4, <5>5
        <4> QED
          BY <4>1, <4>4, <4>5, <4>6 DEF AtWork
      <3> QED
        BY <3>1, <3>2
    <2>8. CASE Announce(w)
      <3>1. CASE d # dev[w]
        <4>1. Stays /\ (InStep(d)' => InStep(d)) /\ (Pending(d) => Pending(d)')
          BY <2>8, <3>1 DEF Announce, InStep, Early, Pending, Holds
        <4> QED
          BY <2>8, <1>p, <3>1, <4>1, PromptStays DEF Announce
      <3>2. CASE d = dev[w]
        <4>1. /\ Holds(w, d) /\ AtWork(w, d)
              /\ \A v \in Workers : Holds(v, d) => v = w
          BY <2>8, <3>2 DEF Announce, Holds, Serial, Working
        <4>2. /\ spent_attempt' = spent_attempt /\ now' = now /\ heard' = heard
              /\ time_to_attempt' = time_to_attempt /\ listener' = listener
              /\ pc[w] = "announce" /\ dev' = dev /\ pc' = [pc EXCEPT ![w] = "next"]
          BY <2>8 DEF Announce
        <4>3. \A v \in Workers : ~(pc'[v] \in {"announce", "postpone"} /\ dev'[v] = d)
          BY <4>1, <4>2 DEF Holds
        <4>4. CASE Early(d)
          BY <4>2, <4>4 DEF Prompt, Early, InStep
        <4>5. CASE Fresh(d)
          BY <4>2, <4>3, <4>5, FreshIsPrompt DEF Fresh
        <4>6. CASE Upheld(w, d)
          <5>1. ~Unannounced(d)'
            BY <4>2, <4>3, <4>6 DEF Upheld, Unannounced
          <5> QED
            BY <4>3, <5>1 DEF Prompt
        <4> QED
          BY <4>1, <4>4, <4>5, <4>6 DEF AtWork
      <3> QED
        BY <3>1, <3>2
    <2> QED
      BY <1>3, <2>1, <2>2, <2>3, <2>4, <2>5, <2>6, <2>7, <2>8 DEF WorkerStep
  <1>4. ASSUME ListenerStep PROVE Prompt(d)'
    <2>1. ASSUME NEW e \in Devices, NEW m \in Messages, Receive(e, m)
          PROVE Prompt(d)'
      <3>1. CASE e = d
        <4>1. Early(d)' /\ ~InStep(d)'
          BY <2>1, <3>1 DEF Receive, Early, InStep
        <4> QED
          BY <4>1 DEF Prompt
      <3>2. CASE e # d
        <4>1. Stays /\ (InStep(d)' => InStep(d)) /\ (Pending(d) => Pending(d)')
          BY <2>1, <3>2 DEF Receive, InStep, Early, Pending, Holds
        <4> QED
          BY <2>1, <1>p, <4>1, PromptStays DEF Receive
      <3> QED
        BY <3>1, <3>2
    <2>2. CASE ReadClock
      <3>1. Stays /\ (InStep(d)' => InStep(d)) /\ (Pending(d) => Pending(d)')
        BY <2>2 DEF ReadClock, InStep, Early, Pending, Holds
      <3> QED
        BY <2>2, <1>p, <3>1, PromptStays DEF ReadClock
    <2>3. CASE StoreDeadline
      <3>1. CASE d # listener.dev
        <4>1. Stays /\ (InStep(d)' => InStep(d)) /\ (Pending(d) => Pending(d)')
          BY <2>3, <3>1 DEF StoreDeadline, InStep, Early, Pending, Holds
        <4> QED
          BY <2>3, <1>p, <4>1, PromptStays DEF StoreDeadline
      <3>2. CASE d = listener.dev
        <4>1. listener.reg = now
          BY <2>3 DEF Serial, StoreDeadline
        <4>2. Fresh(d)'
          BY <2>3, <3>2, <4>1 DEF StoreDeadline, Fresh
        <4> QED
          BY <4>2, FreshIsPrompt DEF Fresh
      <3> QED
        BY <3>1, <3>2
    <2>4. CASE PublishOk
      <3>1. Stays /\ (InStep(d)' => InStep(d)) /\ (Pending(d) => Pending(d)')
        BY <2>4 DEF PublishOk, InStep, Early, Pending, Holds
      <3> QED
        BY <2>4, <1>p, <3>1, PromptStays DEF PublishOk
    <2>5. CASE ConversionFails
      <3>1. Stays /\ (InStep(d)' => InStep(d)) /\ (Pending(d) => Pending(d)')
        BY <2>5 DEF ConversionFails, InStep, Early, Pending, Holds
      <3> QED
        BY <2>5, <1>p, <3>1, PromptStays DEF ConversionFails
    <2> QED
      BY <1>4, <2>1, <2>2, <2>3, <2>4, <2>5 DEF ListenerStep
  <1>5. CASE UNCHANGED vars
    <2>1. Stays /\ InStep(d)' = InStep(d) /\ Pending(d)' = Pending(d)
      BY <1>5 DEF vars, InStep, Early, Pending, Holds
    <2> QED
      BY <1>5, <1>p, <2>1, PromptStays DEF vars
  <1> QED
    BY <1>1, <1>2, <1>3, <1>4, <1>5 DEF Next

\* DetectionBound, under the schedule the period is meant to give: overlaps of
\* passes and messages cost no time, but they may mute a device (Muted).
THEOREM DetectionIsTimely == TimelySpec => []DetectionBound
  <1>1. TimelyInv /\ [Next /\ OnTime]_vars => TimelyInv'
    <2> SUFFICES ASSUME TimelyInv, [Next /\ OnTime]_vars PROVE TimelyInv'
      OBVIOUS
    <2>1. [Next]_vars
      OBVIOUS
    <2>2. UntornInv' /\ Serial' /\ Announced' /\ Working'
      BY <2>1, NextUntorn, NextSerial, NextAnnounced, NextWorking DEF TimelyInv, UntornInv
    <2>3. \A d \in Devices : Prompt(d)'
      BY NextPrompt
    <2> QED
      BY <2>2, <2>3 DEF TimelyInv
  <1>2. TimelyInv => DetectionBound
    <2> SUFFICES ASSUME TimelyInv, NEW d \in Devices, ~ListenerHolds(d), ~Muted(d),
                        fate[d] # "dropped", status[d] # "error"
                 PROVE  now - heard[d] <= (Attempts + 1) * (Timeout + 1)
      BY DEF DetectionBound
    <2> USE ConstantsAssumption
    <2> USE DEF TypeOK
    <2>0. TypeOK /\ Prompt(d)
      BY DEF TimelyInv, UntornInv
    <2>1. (Attempts + 1) * (Timeout + 1) = (Attempts + 1) * Timeout + (Attempts + 1)
      OBVIOUS
    <2>2. Late(d, Attempts) = heard[d] + (Attempts + 1) * Timeout + Attempts
      BY DEF Late
    <2>3. Unannounced(d)
      BY <2>0 DEF TimelyInv, Announced, StatusSet, Unannounced, Muted
    <2>4. CASE InStep(d)
      <3>1. now <= time_to_attempt[d] + 1 /\ time_to_attempt[d] <= Late(d, Attempts)
        BY <2>0, <2>3, <2>4 DEF Prompt
      <3>2. (Attempts + 1) * Timeout \in Nat
        OBVIOUS
      <3> QED
        BY <2>0, <2>1, <2>2, <3>1, <3>2
    <2>5. CASE ~InStep(d)
      <3>0. ~Early(d)
        BY DEF Early, ListenerHolds
      <3>1. PICK w \in Workers : pc[w] = "postpone" /\ dev[w] = d
        BY <2>5 DEF InStep, ListenerHolds
      <3>2. now <= heard[d] + spent_attempt[d] * Timeout + spent_attempt[d]
        BY <2>0, <3>0, <3>1 DEF Prompt
      <3>3. spent_attempt[d] <= Attempts
        BY <3>1 DEF TimelyInv, Working, AtWork, Holds
      <3>4. /\ spent_attempt[d] \in Nat /\ heard[d] \in Nat /\ now \in Nat
            /\ spent_attempt[d] * Timeout \in Nat
        BY <2>0
      <3>5. /\ heard[d] + spent_attempt[d] * Timeout + Timeout + spent_attempt[d]
                  <= heard[d] + (Attempts + 1) * Timeout + Attempts
        BY <3>3, <3>4, MoreIsLater
      <3>6. (Attempts + 1) * Timeout \in Nat
        OBVIOUS
      <3> QED
        BY <2>1, <3>2, <3>4, <3>5, <3>6
    <2> QED
      BY <2>4, <2>5
  <1> QED
    BY <1>1, <1>2, InitTimely, PTL DEF TimelySpec
=============================================================================
