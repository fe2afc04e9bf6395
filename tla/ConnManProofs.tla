--------------------------- MODULE ConnManProofs ---------------------------
(***************************************************************************)
(* connectionHandler keeps its mutex discipline and implements RetryPolicy *)
(* for every set of clients and workers and every limit and pause.         *)
(***************************************************************************)
EXTENDS ConnMan, TLAPS

\* What a worker inside the critical section has found out stays so until it
\* leaves: the mutex keeps the others and subscribe away from the table.
WorkerKnows(w) ==
    /\ itr_time[w] <= now
    /\ pc[w] = "connect" =>
          /\ spent_attempt[dev[w]] < connection_attempt
          /\ itr_time[w] > time_to_attempt[dev[w]]

ConnManInv ==
    /\ TypeOK
    /\ MutexReleased
    /\ now <= MaxTime
    /\ \A w \in Workers : WorkerKnows(w)

\* The connection manager starts in the invariant, with an empty list.
LEMMA InitConnMan == Init => ConnManInv
  <1> SUFFICES ASSUME Init PROVE ConnManInv
    OBVIOUS
  <1> USE ConnManAssumption DEF Init
  <1>1. TypeOK
    BY DEF TypeOK, Pcs
  <1>2. Inside = {}
    BY DEF Inside
  <1>3. MutexReleased
    BY <1>2 DEF MutexReleased
  <1>4. now <= MaxTime /\ \A w \in Workers : WorkerKnows(w)
    BY DEF WorkerKnows
  <1> QED
    BY <1>1, <1>3, <1>4 DEF ConnManInv

\* Every step keeps the invariant.
LEMMA NextConnMan == ConnManInv /\ [Next]_vars => ConnManInv'
  <1> SUFFICES ASSUME ConnManInv, [Next]_vars PROVE ConnManInv'
    OBVIOUS
  <1> USE ConnManAssumption
  <1> USE DEF ConnManInv, TypeOK, MutexReleased, Inside, WorkerKnows, Pcs,
              locals, table, links
  <1>1. ASSUME NEW k \in 0..MaxPosted, Elapse(k) PROVE ConnManInv'
    BY <1>1 DEF Elapse
  <1>2. ASSUME NEW w \in Workers, WorkerStep(w) PROVE ConnManInv'
    <2>1. CASE StartHandler(w)
      BY <2>1 DEF StartHandler
    <2>2. CASE Lock(w)
      BY <2>2 DEF Lock
    <2>3. ASSUME NEW c \in Clients, Pass(w, c) PROVE ConnManInv'
      BY <2>3 DEF Pass, Visit
    <2>4. ASSUME NEW c \in Clients, ResetAttempts(w, c) PROVE ConnManInv'
      BY <2>4 DEF ResetAttempts, Visit
    <2>5. ASSUME NEW c \in Clients, Retry(w, c) PROVE ConnManInv'
      <3>1. /\ dev' = [dev EXCEPT ![w] = c]
            /\ pc' = [pc EXCEPT ![w] = "connect"]
            /\ left' = [left EXCEPT ![w] = @ \ {c}]
        BY <2>5 DEF Retry, Visit
      <3>2. TypeOK'
        BY <2>5, <3>1 DEF Retry, Visit
      <3>3. MutexReleased'
        BY <2>5 DEF Retry, Visit
      <3>4. \A v \in Workers : WorkerKnows(v)'
        BY <2>5 DEF Retry, Visit, Due
      <3> QED
        BY <2>5, <3>2, <3>3, <3>4 DEF Retry, Visit
    <2>6. ASSUME NEW c \in Clients, Exhausted(w, c) PROVE ConnManInv'
      <3>1. /\ pc[w] = "walk" /\ pc' = pc /\ dev' = dev
            /\ now' = now /\ posted' = posted /\ itr_time' = itr_time
            /\ locked' = locked /\ subscribed' = subscribed
            /\ left' = [left EXCEPT ![w] = @ \ {c}]
            /\ spent_attempt' = [spent_attempt EXCEPT ![c] = @ + 1]
            /\ time_to_attempt' = time_to_attempt /\ doubled' = doubled
            /\ alive' = alive /\ connected' = connected /\ tried' = tried
        BY <2>6 DEF Exhausted, Visit
      <3>2. call' \in {<<>>} \union (CallKinds \X Clients \X Nat)
        BY <2>6 DEF Exhausted, CallKinds
      <3>3. TypeOK'
        BY <3>1, <3>2
      <3>4. MutexReleased'
        BY <3>1
      <3>5. \A v \in Workers : pc[v] = "connect" => v = w
        BY <3>1
      <3>6. \A v \in Workers : WorkerKnows(v)'
        BY <3>1, <3>5
      <3> QED
        BY <3>1, <3>3, <3>4, <3>6
    <2>7. CASE Connect(w)
      <3>1. /\ pc[w] = "connect"
            /\ pc' = [pc EXCEPT ![w] = "walk"]
            /\ dev' = dev /\ left' = left
            /\ now' = now /\ posted' = posted /\ itr_time' = itr_time
            /\ locked' = locked /\ subscribed' = subscribed
            /\ spent_attempt' = [spent_attempt EXCEPT ![dev[w]] = @ + 1]
            /\ time_to_attempt' =
                  [time_to_attempt EXCEPT ![dev[w]] = itr_time[w] + Wait]
            /\ doubled' = doubled /\ alive' = alive /\ connected' = connected
            /\ tried' = tried \union {dev[w]}
            /\ call' = <<"connect", dev[w], itr_time[w]>>
        BY <2>7 DEF Connect
      <3>2. call' \in {<<>>} \union (CallKinds \X Clients \X Nat)
        BY <3>1 DEF CallKinds
      <3>3. time_to_attempt' \in [Clients -> Nat]
        BY <3>1
      <3>4. /\ spent_attempt' \in [Clients -> Nat]
        BY <3>1
      <3>5. TypeOK'
        BY <3>1, <3>2, <3>3, <3>4
      <3>6. MutexReleased'
        BY <3>1
      <3>7. \A v \in Workers : WorkerKnows(v)'
        BY <3>1
      <3> QED
        BY <3>1, <3>5, <3>6, <3>7
    <2>8. CASE ConnectThrows(w)
      <3>1. pc[w] \in {"walk", "connect"} /\ locked' = FALSE
        BY <2>8 DEF ConnectThrows
      <3>2. pc' = [pc EXCEPT ![w] = "idle"]
        BY <2>8 DEF ConnectThrows
      <3>3. \A v \in Workers : pc'[v] \notin {"walk", "connect"}
        BY <3>1, <3>2
      <3>4. MutexReleased'
        BY <3>1, <3>3
      <3>5. TypeOK'
        BY <2>8 DEF ConnectThrows, CallKinds
      <3>6. \A v \in Workers : WorkerKnows(v)'
        BY <2>8 DEF ConnectThrows
      <3> QED
        BY <2>8, <3>4, <3>5, <3>6 DEF ConnectThrows
    <2>9. CASE EndHandler(w)
      <3>1. pc[w] \in {"walk", "connect"} /\ locked' = FALSE
        BY <2>9 DEF EndHandler
      <3>2. pc' = [pc EXCEPT ![w] = "idle"]
        BY <2>9 DEF EndHandler
      <3>3. \A v \in Workers : pc'[v] \notin {"walk", "connect"}
        BY <3>1, <3>2
      <3>4. MutexReleased'
        BY <3>1, <3>3
      <3>5. TypeOK'
        BY <2>9 DEF EndHandler
      <3>6. \A v \in Workers : WorkerKnows(v)'
        BY <2>9 DEF EndHandler
      <3> QED
        BY <2>9, <3>4, <3>5, <3>6 DEF EndHandler
    <2> QED
      BY <1>2, <2>1, <2>2, <2>3, <2>4, <2>5, <2>6, <2>7, <2>8, <2>9
         DEF WorkerStep
  <1>3. ASSUME NEW c \in Clients, ClientStep(c) PROVE ConnManInv'
    <2>1. CASE LinkUp(c)
      BY <2>1 DEF LinkUp
    <2>2. CASE LinkDown(c)
      BY <2>2 DEF LinkDown
    <2>3. CASE Release(c)
      BY <2>3 DEF Release
    <2>4. CASE Subscribe(c)
      BY <2>4 DEF Subscribe, CallKinds
    <2>5. CASE SubscribeAgain(c)
      BY <2>5 DEF SubscribeAgain
    <2>6. CASE Unsubscribe(c)
      BY <2>6 DEF Unsubscribe
    <2> QED
      BY <1>3, <2>1, <2>2, <2>3, <2>4, <2>5, <2>6 DEF ClientStep
  <1>4. CASE UNCHANGED vars
    BY <1>4 DEF vars
  <1> QED
    BY <1>1, <1>2, <1>3, <1>4 DEF Next

\* So it holds in every reachable state.
LEMMA ConnManInvariant == Spec => []ConnManInv
  BY InitConnMan, NextConnMan, PTL DEF Spec

\* The types hold of every run.
THEOREM TypeCorrectness == Spec => []TypeOK
  BY ConnManInvariant, PTL DEF ConnManInv

\* Every way out of connectionHandler gives m_connection_mutex back.
THEOREM MutexIsReleased == Spec => []MutexReleased
  BY ConnManInvariant, PTL DEF ConnManInv
-----------------------------------------------------------------------------
(* The refinement.                                                           *)

\* A function that agrees with f except at a.
LEMMA ExceptIs ==
  ASSUME NEW S, NEW f, NEW g, NEW a, NEW e,
         f = [x \in S |-> f[x]], g = [x \in S |-> g[x]],
         \A x \in S : g[x] = IF x = a THEN e ELSE f[x]
  PROVE  g = [f EXCEPT ![a] = e]
  OBVIOUS

\* The mapped functions have the clients as their domain.
LEMMA Domains ==
  /\ Tries = [c \in Clients |-> Tries[c]]
  /\ Tries' = [c \in Clients |-> Tries'[c]]
  /\ Last = [c \in Clients |-> Last[c]]
  /\ Last' = [c \in Clients |-> Last'[c]]
  BY DEF Tries, Last

\* The list at the start is the initial state of RetryPolicy.
LEMMA InitPolicy == Init => Policy!Init
  <1> SUFFICES ASSUME Init PROVE Policy!Init
    OBVIOUS
  <1> USE ConnManAssumption DEF Init
  <1>1. Tries = [c \in Clients |-> 0] /\ Failed = {}
    BY DEF Tries, Failed
  <1>2. Last = [c \in Clients |-> -Wait]
    BY DEF Last
  <1> QED
    BY <1>1, <1>2 DEF Policy!Init

\* The steps that touch neither the two counters nor call are stutters.
LEMMA Stutter ==
  ASSUME UNCHANGED <<spent_attempt, time_to_attempt, call>>
  PROVE  UNCHANGED Policy!policy
  BY DEF Policy!policy, Tries, Failed, Last

\* Every step of the list is a step of RetryPolicy or leaves it as it is.
LEMMA NextPolicy ==
  ConnManInv /\ [Next]_vars => [Policy!Next]_(Policy!policy)
  <1> SUFFICES ASSUME ConnManInv, [Next]_vars
               PROVE  [Policy!Next]_(Policy!policy)
    OBVIOUS
  <1> USE ConnManAssumption DEF locals, table, links
  <1>0. /\ spent_attempt \in [Clients -> Nat]
        /\ time_to_attempt \in [Clients -> Nat]
        /\ itr_time \in [Workers -> Nat]
        /\ dev \in [Workers -> Clients]
        /\ now \in Nat
    BY DEF ConnManInv, TypeOK
  <1>1. ASSUME NEW w \in Workers
        PROVE  itr_time[w] \in 0..MaxTime
    BY <1>0, <1>1 DEF ConnManInv, WorkerKnows
  <1>2. ASSUME NEW k \in 0..MaxPosted, Elapse(k)
        PROVE  UNCHANGED Policy!policy
    BY <1>2, Stutter DEF Elapse
  <1>3. ASSUME NEW w \in Workers, WorkerStep(w)
        PROVE  [Policy!Next]_(Policy!policy)
    <2>1. ASSUME NEW c \in Clients, ResetAttempts(w, c)
          PROVE  Policy!Recover(c)
      <3>1. /\ spent_attempt' = [spent_attempt EXCEPT ![c] = 0]
            /\ UNCHANGED <<time_to_attempt, call>>
        BY <2>1 DEF ResetAttempts, Visit
      <3>2. Tries' = [Tries EXCEPT ![c] = 0]
        <4>1. \A d \in Clients :
                 Tries'[d] = IF d = c THEN 0 ELSE Tries[d]
          BY <1>0, <3>1 DEF Tries
        <4> QED
          BY <4>1, Domains, ExceptIs
      <3>3. Failed' = Failed \ {c}
        BY <1>0, <3>1 DEF Failed
      <3>4. Last' = Last
        BY <3>1 DEF Last
      <3> QED
        BY <3>1, <3>2, <3>3, <3>4 DEF Policy!Recover
    <2>2. ASSUME NEW c \in Clients, Exhausted(w, c)
          PROVE  \/ Policy!GiveUp(c, itr_time[w])
                 \/ UNCHANGED Policy!policy
      <3>1. /\ spent_attempt' = [spent_attempt EXCEPT ![c] = @ + 1]
            /\ spent_attempt[c] >= connection_attempt
            /\ itr_time[w] > time_to_attempt[c]
            /\ time_to_attempt' = time_to_attempt
        BY <2>2 DEF Exhausted, Visit, Due
      <3>2. Tries' = Tries
        BY <1>0, <3>1 DEF Tries
      <3>3. Last' = Last
        BY <3>1 DEF Last
      <3>4. CASE spent_attempt[c] = connection_attempt
        <4>1. Failed' = Failed \union {c} /\ c \notin Failed
          BY <1>0, <3>1, <3>4 DEF Failed
        <4>2. call' = <<"report", c, itr_time[w]>>
          BY <2>2, <3>4 DEF Exhausted
        <4>3. Tries[c] = connection_attempt
          BY <3>4 DEF Tries
        <4>4. itr_time[w] > Last[c] + Wait
          BY <1>0, <3>1 DEF Last
        <4> QED
          BY <3>2, <3>3, <4>1, <4>2, <4>3, <4>4 DEF Policy!GiveUp
      <3>5. CASE spent_attempt[c] > connection_attempt
        <4>1. Failed' = Failed
          BY <1>0, <3>1, <3>5 DEF Failed
        <4>2. call' = call
          BY <1>0, <2>2, <3>5 DEF Exhausted
        <4> QED
          BY <3>2, <3>3, <4>1, <4>2 DEF Policy!policy
      <3> QED
        BY <1>0, <3>1, <3>4, <3>5
    <2>3. ASSUME Connect(w)
          PROVE  Policy!Try(dev[w], itr_time[w])
      <3> DEFINE c == dev[w]
      <3>1. /\ spent_attempt' = [spent_attempt EXCEPT ![c] = @ + 1]
            /\ time_to_attempt' =
                  [time_to_attempt EXCEPT ![c] = itr_time[w] + Wait]
            /\ call' = <<"connect", c, itr_time[w]>>
        BY <2>3 DEF Connect
      <3>2. c \in Clients
        BY <1>0
      <3>3. /\ spent_attempt[c] < connection_attempt
            /\ itr_time[w] > time_to_attempt[c]
        BY <2>3 DEF Connect, ConnManInv, WorkerKnows
      <3> HIDE DEF c
      <3>4. Tries[c] < connection_attempt
        BY <1>0, <3>2, <3>3 DEF Tries
      <3>5. Tries' = [Tries EXCEPT ![c] = @ + 1]
        <4>1. \A d \in Clients :
                 Tries'[d] = IF d = c THEN Tries[c] + 1 ELSE Tries[d]
          BY <1>0, <3>1, <3>2, <3>3 DEF Tries
        <4> QED
          BY <4>1, Domains, ExceptIs
      <3>6. Failed' = Failed
        BY <1>0, <3>1, <3>2, <3>3 DEF Failed
      <3>7. Last' = [Last EXCEPT ![c] = itr_time[w]]
        <4>1. \A d \in Clients :
                 Last'[d] = IF d = c THEN itr_time[w] ELSE Last[d]
          BY <1>0, <3>1, <3>2 DEF Last
        <4> QED
          BY <4>1, Domains, ExceptIs
      <3>8. itr_time[w] > Last[c] + Wait
        BY <1>0, <3>2, <3>3 DEF Last
      <3>9. Policy!Try(c, itr_time[w])
        BY <3>1, <3>4, <3>5, <3>6, <3>7, <3>8 DEF Policy!Try
      <3> QED
        BY <3>9 DEF c
    <2>4. ASSUME NEW c \in Clients, Pass(w, c) \/ Retry(w, c)
          PROVE  UNCHANGED Policy!policy
      BY <2>4, Stutter DEF Pass, Retry, Visit
    <2>5. CASE StartHandler(w) \/ Lock(w) \/ EndHandler(w)
      <3>1. UNCHANGED <<spent_attempt, time_to_attempt, call>>
        BY <2>5 DEF StartHandler, Lock, EndHandler
      <3> QED
        BY <3>1, Stutter
    <2>6. ASSUME ConnectThrows(w)
          PROVE  Policy!Throw(dev[w], itr_time[w])
      <3> DEFINE c == dev[w]
      <3>1. /\ UNCHANGED <<spent_attempt, time_to_attempt>>
            /\ call' = <<"throw", c, itr_time[w]>>
        BY <2>6 DEF ConnectThrows
      <3>2. c \in Clients
        BY <1>0
      <3>3. /\ spent_attempt[c] < connection_attempt
            /\ itr_time[w] > time_to_attempt[c]
        BY <2>6 DEF ConnectThrows, ConnManInv, WorkerKnows
      <3> HIDE DEF c
      <3>4. Tries[c] < connection_attempt
        BY <1>0, <3>2, <3>3 DEF Tries
      <3>5. itr_time[w] > Last[c] + Wait
        BY <1>0, <3>2, <3>3 DEF Last
      <3>6. UNCHANGED <<Tries, Failed, Last>>
        BY <3>1 DEF Tries, Failed, Last
      <3>7. Policy!Throw(c, itr_time[w])
        BY <3>1, <3>4, <3>5, <3>6 DEF Policy!Throw
      <3> QED
        BY <3>7 DEF c
    <2> QED
      BY <1>0, <1>1, <1>3, <2>1, <2>2, <2>3, <2>4, <2>5, <2>6
         DEF WorkerStep, Policy!Next
  <1>4. ASSUME NEW c \in Clients, ClientStep(c)
        PROVE  [Policy!Next]_(Policy!policy)
    <2>1. CASE Subscribe(c)
      <3>1. /\ spent_attempt' = [spent_attempt EXCEPT ![c] = 0]
            /\ time_to_attempt' = [time_to_attempt EXCEPT ![c] = 0]
            /\ call' = <<"subscribe", c, 0>>
        BY <2>1 DEF Subscribe
      <3>2. Tries' = [Tries EXCEPT ![c] = 0]
        <4>1. \A d \in Clients :
                 Tries'[d] = IF d = c THEN 0 ELSE Tries[d]
          BY <1>0, <3>1 DEF Tries
        <4> QED
          BY <4>1, Domains, ExceptIs
      <3>3. Failed' = Failed \ {c}
        BY <1>0, <3>1 DEF Failed
      <3>4. Last' = [Last EXCEPT ![c] = -Wait]
        <4>1. \A d \in Clients :
                 Last'[d] = IF d = c THEN -Wait ELSE Last[d]
          BY <1>0, <3>1 DEF Last
        <4> QED
          BY <4>1, Domains, ExceptIs
      <3>5. Policy!Restart(c)
        BY <3>1, <3>2, <3>3, <3>4 DEF Policy!Restart
      <3> QED
        BY <3>5 DEF Policy!Next
    <2>2. CASE \/ LinkUp(c) \/ LinkDown(c) \/ Release(c)
               \/ SubscribeAgain(c) \/ Unsubscribe(c)
      <3>1. UNCHANGED <<spent_attempt, time_to_attempt, call>>
        BY <2>2 DEF LinkUp, LinkDown, Release, SubscribeAgain, Unsubscribe
      <3> QED
        BY <3>1, Stutter
    <2> QED
      BY <1>4, <2>1, <2>2 DEF ClientStep
  <1>5. CASE UNCHANGED vars
    BY <1>5, Stutter DEF vars
  <1> QED
    BY <1>2, <1>3, <1>4, <1>5 DEF Next

\* The handler implements RetryPolicy: at most connection_attempt calls of
\* connect that return in a row, none before the pause after the last of them
\* is over, and one report of failure. A call that throws is the policy's
\* Throw, recorded as a call and after which nothing is promised.
THEOREM HandlerFollowsPolicy == Spec => FollowsPolicy
  BY InitPolicy, NextPolicy, ConnManInvariant, PTL
     DEF Spec, FollowsPolicy, Policy!Spec
=============================================================================
