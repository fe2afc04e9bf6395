--------------------------- MODULE TeardownProofs ---------------------------
(***************************************************************************)
(* The end of the program for any number of workers and any bound on the   *)
(* events: which thread is over before what it uses goes, that all is over *)
(* when main returns, and that the listener handles the events in order.   *)
(***************************************************************************)
EXTENDS Teardown, TLAPS

\* The components, and the operations of the destructors that matter below.
LEMMA Operations ==
    /\ Components = {"bridge", "connman", "executor", "final_haven", "mqttconn"}
    /\ Len(ByName) = 5
    /\ Destructor["bridge"] = CWirelessBridge
    /\ Destructor["mqttconn"] = CMqttConnection
    /\ Destructor["connman"] = CConnMan
    /\ Len(CWirelessBridge) = 7 /\ Len(CMqttConnection) = 8 /\ Len(CConnMan) = 4
    /\ CWirelessBridge[1] = <<"stop_cyclic", "processDeviceList">>
    /\ CWirelessBridge[4] = <<"join", "listener">>
    /\ CWirelessBridge[5] = <<"drop", "mqttconn">>
    /\ CWirelessBridge[6] = <<"drop", "executor">>
    /\ CMqttConnection[2] = <<"join", "mosquitto">>
    /\ CMqttConnection[4] = <<"end", "m_topics_list">>
    /\ CConnMan[1] = <<"stop_cyclic", "connectionHandler">>
    /\ CConnMan[3] = <<"drop", "executor">>
    /\ \A c \in Components : Len(Destructor[c]) \in Nat
  <1>1. Components = {"bridge", "connman", "executor", "final_haven", "mqttconn"}
        /\ Len(ByName) = 5
    <2>1. /\ Len(ByName) = 5 /\ DOMAIN ByName = 1..5
          /\ ByName[1] = "bridge" /\ ByName[2] = "connman"
          /\ ByName[3] = "executor" /\ ByName[4] = "final_haven"
          /\ ByName[5] = "mqttconn"
      BY DEF ByName
    <2>2. \A i \in 1..5 : i = 1 \/ i = 2 \/ i = 3 \/ i = 4 \/ i = 5
      OBVIOUS
    <2>3. 1 \in 1..5 /\ 2 \in 1..5 /\ 3 \in 1..5 /\ 4 \in 1..5 /\ 5 \in 1..5
      OBVIOUS
    <2> QED
      BY <2>1, <2>2, <2>3 DEF Components, ToSet
  <1>2. /\ Destructor["bridge"] = CWirelessBridge
        /\ Destructor["mqttconn"] = CMqttConnection
        /\ Destructor["connman"] = CConnMan
    BY DEF Destructor
  <1>3. /\ Len(CWirelessBridge) = 7
        /\ CWirelessBridge[1] = <<"stop_cyclic", "processDeviceList">>
        /\ CWirelessBridge[4] = <<"join", "listener">>
        /\ CWirelessBridge[5] = <<"drop", "mqttconn">>
        /\ CWirelessBridge[6] = <<"drop", "executor">>
    BY DEF CWirelessBridge
  <1>4. /\ Len(CMqttConnection) = 8
        /\ CMqttConnection[2] = <<"join", "mosquitto">>
        /\ CMqttConnection[4] = <<"end", "m_topics_list">>
    BY DEF CMqttConnection
  <1>5. /\ Len(CConnMan) = 4
        /\ CConnMan[1] = <<"stop_cyclic", "connectionHandler">>
        /\ CConnMan[3] = <<"drop", "executor">>
    BY DEF CConnMan
  <1>6. /\ Destructor["executor"] = CExecutor /\ Len(CExecutor) = 5
        /\ Destructor["final_haven"] = CFinalHaven /\ Len(CFinalHaven) = 2
    BY DEF Destructor, CExecutor, CFinalHaven
  <1>7. \A c \in Components : Len(Destructor[c]) \in Nat
    BY <1>1, <1>2, <1>3, <1>4, <1>5, <1>6
  <1> QED
    BY <1>1, <1>2, <1>3, <1>4, <1>5, <1>7

-----------------------------------------------------------------------------
(* Type correctness, by the components that a step touches.                  *)

OwnedOK ==
    /\ registry \in 0..5
    /\ done \in [Components -> Nat]
    /\ \A c \in Components : done[c] <= Len(Destructor[c])
    /\ stack \in [Threads -> Seq(Components)]
    /\ heirs \subseteq Threads \ {"main"}

PoolOK ==
    /\ at \in [Workers -> Places]
    /\ m_cycle_items \subseteq {"processDeviceList", "connectionHandler"}
    /\ queued \subseteq {"processDeviceList", "connectionHandler"}
    /\ stopped \in BOOLEAN

ClientOK ==
    /\ loop \in {"select", "write", "ended"}
    /\ callback \in {"on_connect", "on_disconnect", "on_error", "none"}
    /\ cancelled \in BOOLEAN

\* The listener has an event exactly between taking it and letting the holder go.
HasEvent == ev # NoEvent <=> place \in {"handle", "process"}

Typed == /\ phase \in {"closing", "ended", "crashed"}
         /\ OwnedOK /\ PoolOK /\ ClientOK
         /\ Log!TypeOK /\ Lst!TypeOK /\ HasEvent

\* The type invariant, taken apart for the proof that steps keep it.
LEMMA TypeParts == TypeOK /\ HasEvent <=> Typed
  <1>1. DOMAIN Start = {"processDeviceList", "connectionHandler"}
    BY DEF Start
  <1>2. DOMAIN Printer = {"on_connect", "on_disconnect", "on_error"}
    BY DEF Printer
  <1>3. m_cycle_items \union queued \subseteq DOMAIN Start
          <=> /\ m_cycle_items \subseteq {"processDeviceList", "connectionHandler"}
              /\ queued \subseteq {"processDeviceList", "connectionHandler"}
    BY <1>1
  <1>4. callback \in DOMAIN Printer \union {"none"}
          <=> callback \in {"on_connect", "on_disconnect", "on_error", "none"}
    BY <1>2
  <1>5. Len(ByName) = 5
    BY Operations
  <1> QED
    BY <1>3, <1>4, <1>5 DEF TypeOK, Typed, OwnedOK, PoolOK, ClientOK

\* An operation of a destructor is the next one of the innermost of its thread,
\* and counts it as executed.
LEMMA DoingStep ==
  ASSUME OwnedOK, NEW t \in Threads, NEW kind, NEW arg, Doing(t, kind, arg)
  PROVE  /\ stack[t] # <<>>
         /\ Head(stack[t]) \in Components
         /\ done' \in [Components -> Nat]
         /\ \A c \in Components :
               /\ done'[c] <= Len(Destructor[c])
               /\ \/ done'[c] = done[c]
                  \/ /\ done'[c] = done[c] + 1
                     /\ Destructor[c][done[c] + 1] = <<kind, arg>>
  <1>1. stack[t] # <<>> /\ stack[t] \in Seq(Components)
    BY DEF Doing, OwnedOK
  <1>2. PICK c \in Components : c = Head(stack[t])
    BY <1>1
  <1>3. /\ done[c] # Len(Destructor[c])
        /\ Destructor[c][done[c] + 1] = <<kind, arg>>
        /\ done' = [done EXCEPT ![c] = @ + 1]
    BY <1>2 DEF Doing, Gone
  <1>4. \A d \in Components : Len(Destructor[d]) \in Nat
    BY Operations
  <1>5. done \in [Components -> Nat] /\ \A d \in Components : done[d] <= Len(Destructor[d])
    BY DEF OwnedOK
  <1>6. done' \in [Components -> Nat]
    BY <1>3, <1>5
  <1>7. ASSUME NEW d \in Components
        PROVE  /\ done'[d] <= Len(Destructor[d])
               /\ \/ done'[d] = done[d]
                  \/ /\ done'[d] = done[d] + 1
                     /\ Destructor[d][done[d] + 1] = <<kind, arg>>
    <2>1. CASE d = c
      BY <2>1, <1>3, <1>4, <1>5
    <2>2. CASE d # c
      BY <2>2, <1>3, <1>5
    <2> QED
      BY <2>1, <2>2
  <1> QED
    BY <1>1, <1>2, <1>6, <1>7

\* So is what it leaves of the types, if it touches nothing else.
LEMMA DoingType ==
  ASSUME OwnedOK, NEW t \in Threads, NEW kind, NEW arg, Doing(t, kind, arg),
         UNCHANGED <<registry, stack, heirs>>
  PROVE  OwnedOK'
  BY DoingStep DEF OwnedOK

\* Dropping a pointer may push a destructor on the stack of the thread.
LEMMA DropType ==
  ASSUME OwnedOK, NEW t \in Threads, NEW d \in Components, NEW owner,
         Drop(t, d, owner)
  PROVE  /\ stack' \in [Threads -> Seq(Components)]
         /\ heirs' \subseteq Threads \ {"main"}
  <1>1. stack \in [Threads -> Seq(Components)] /\ heirs \subseteq Threads \ {"main"}
    BY DEF OwnedOK
  <1>2. CASE Owners(d) = {owner}
    <2>1. /\ stack' = [stack EXCEPT ![t] = <<d>> \o @]
          /\ heirs' = heirs \union ({t} \ {"main"})
      BY <1>2 DEF Drop
    <2>2. <<d>> \o stack[t] \in Seq(Components)
      BY <1>1
    <2> QED
      BY <1>1, <2>1, <2>2
  <1>3. CASE Owners(d) # {owner}
    BY <1>1, <1>3 DEF Drop
  <1> QED
    BY <1>2, <1>3

\* The end starts well typed.
LEMMA InitType == Init => TypeOK /\ HasEvent
  <1> SUFFICES ASSUME Init PROVE TypeOK /\ HasEvent
    OBVIOUS
  <1>1. OwnedOK
    <2>1. \A c \in Components : Len(Destructor[c]) \in Nat
      BY Operations
    <2> QED
      BY <2>1, Operations DEF Init, OwnedOK
  <1>2. PoolOK /\ ClientOK
    BY DEF Init, PoolOK, ClientOK, Places
  <1>3. Log!TypeOK
    BY TeardownAssumption DEF Init, Log!Init, Log!TypeOK
  <1>4. Lst!TypeOK /\ HasEvent
    <2>1. m_queue = <<>> /\ m_interrupted = FALSE /\ place = "check" /\ ev = NoEvent
      BY DEF Init, Lst!Init
    <2>2. <<>> \in Seq(Events)
      OBVIOUS
    <2> QED
      BY <2>1, <2>2 DEF Lst!TypeOK, Lst!Places, HasEvent
  <1> QED
    BY <1>1, <1>2, <1>3, <1>4, TypeParts DEF Init, Typed

\* The log's mutexes are given to threads and back.
LEMMA LogType ==
  ASSUME Log!TypeOK, NEW f \in Log!Functions, NEW t \in Threads,
         Log!Lock(t, f) \/ Log!Unlock(t, f) \/ Log!Printed(f)
  PROVE  Log!TypeOK'
  BY DEF Log!TypeOK, Log!Lock, Log!Unlock, Log!Printed

\* Each step of the listener and of the sender keeps the queue's types.
LEMMA EventType ==
  ASSUME Lst!TypeOK, HasEvent, NEW alive \in BOOLEAN, NEW e \in Events,
         \/ Lst!sendEvent(e) \/ Lst!LockHolder(alive) \/ Lst!consumeEvent
         \/ Lst!ConsumeNothing \/ Lst!BeginProcess \/ Lst!EndProcess
         \/ Lst!Interrupt
  PROVE  Lst!TypeOK' /\ HasEvent'
  <1> USE DEF Lst!TypeOK, Lst!Places, HasEvent
  <1>1. CASE Lst!sendEvent(e)
    BY <1>1 DEF Lst!sendEvent
  <1>2. CASE Lst!LockHolder(alive)
    BY <1>2 DEF Lst!LockHolder
  <1>3. CASE Lst!consumeEvent
    <2>1. /\ m_queue # <<>> /\ m_queue' = Tail(m_queue) /\ ev' = Head(m_queue)
          /\ place' = "handle" /\ m_interrupted' = m_interrupted
      BY <1>3 DEF Lst!consumeEvent
    <2>2. Head(m_queue) \in Events /\ Tail(m_queue) \in Seq(Events)
      BY <2>1
    <2> QED
      BY <2>1, <2>2, TeardownAssumption
  <1>4. CASE Lst!ConsumeNothing
    BY <1>4 DEF Lst!ConsumeNothing
  <1>5. CASE Lst!BeginProcess
    BY <1>5 DEF Lst!BeginProcess
  <1>6. CASE Lst!EndProcess
    BY <1>6 DEF Lst!EndProcess
  <1>7. CASE Lst!Interrupt
    BY <1>7 DEF Lst!Interrupt
  <1> QED
    BY <1>1, <1>2, <1>3, <1>4, <1>5, <1>6, <1>7

\* Every step keeps the types, and the listener's hold on its event.
LEMMA NextType == TypeOK /\ HasEvent /\ [Next]_vars => TypeOK' /\ HasEvent'
  <1> SUFFICES ASSUME TypeOK, HasEvent, [Next]_vars PROVE TypeOK' /\ HasEvent'
    OBVIOUS
  <1>0. Typed
    BY TypeParts
  <1> SUFFICES Typed'
    BY TypeParts, PTL
  \* What a step that leaves a group of variables alone keeps.
  <1>1. UNCHANGED owned => OwnedOK'
    BY <1>0 DEF Typed, owned, OwnedOK
  <1>2. UNCHANGED pool => PoolOK'
    BY <1>0 DEF Typed, pool, PoolOK
  <1>3. UNCHANGED client => ClientOK'
    BY <1>0 DEF Typed, client, ClientOK
  <1>4. UNCHANGED logs => Log!TypeOK'
    BY <1>0 DEF Typed, logs, Log!TypeOK
  <1>5. UNCHANGED events => Lst!TypeOK' /\ HasEvent'
    BY <1>0 DEF Typed, events, Lst!TypeOK, HasEvent
  <1>6. ASSUME NEW t \in Threads, Destroy(t), phase = "closing" PROVE Typed'
    <2>1. ASSUME NEW f \in DOMAIN Start, StopCyclic(t, f) PROVE Typed'
      <3>1. OwnedOK'
        BY <1>0, <2>1, DoingType DEF Typed, StopCyclic
      <3>2. PoolOK'
        BY <1>0, <2>1 DEF Typed, StopCyclic, PoolOK
      <3>3. Log!TypeOK'
        BY <1>0, <2>1 DEF Typed, StopCyclic, Log!Printed, Log!TypeOK
      <3> QED
        BY <1>0, <1>3, <1>5, <2>1, <3>1, <3>2, <3>3 DEF Typed, StopCyclic
    <2>2. CASE InterruptListener(t)
      <3>1. OwnedOK'
        BY <1>0, <2>2, DoingType DEF Typed, InterruptListener
      <3>2. Lst!TypeOK' /\ HasEvent'
        BY <1>0, <2>2 DEF Typed, InterruptListener, Lst!Interrupt, Lst!TypeOK, HasEvent
      <3> QED
        BY <1>0, <1>2, <1>3, <1>4, <2>2, <3>1, <3>2 DEF Typed, InterruptListener
    <2>3. CASE CancelLoop(t)
      <3>1. OwnedOK'
        BY <1>0, <2>3, DoingType DEF Typed, CancelLoop
      <3>2. ClientOK'
        BY <1>0, <2>3 DEF Typed, CancelLoop, ClientOK
      <3> QED
        BY <1>0, <1>2, <1>4, <1>5, <2>3, <3>1, <3>2 DEF Typed, CancelLoop
    <2>4. CASE StopExecution(t)
      <3>1. OwnedOK'
        BY <1>0, <2>4, DoingType DEF Typed, StopExecution
      <3>2. PoolOK'
        BY <1>0, <2>4 DEF Typed, StopExecution, PoolOK
      <3> QED
        BY <1>0, <1>3, <1>4, <1>5, <2>4, <3>1, <3>2 DEF Typed, StopExecution
    <2>5. CASE Wait(t)
      <3>1. OwnedOK'
        BY <1>0, <2>5, DoingType DEF Typed, Wait
      <3>2. Log!TypeOK'
        BY <1>0, <1>4, <2>5 DEF Typed, Wait, Log!Printed, Log!TypeOK, logs
      <3> QED
        BY <1>0, <1>2, <1>3, <1>5, <2>5, <3>1, <3>2 DEF Typed, Wait
    <2>6. ASSUME NEW d \in Components, DropMember(t, d) PROVE Typed'
      <3>1. done' \in [Components -> Nat]
            /\ \A c \in Components : done'[c] <= Len(Destructor[c])
        BY <1>0, <2>6, DoingStep DEF Typed, DropMember
      <3>2. stack' \in [Threads -> Seq(Components)] /\ heirs' \subseteq Threads \ {"main"}
        BY <1>0, <2>6, DropType DEF Typed, DropMember
      <3>3. OwnedOK'
        BY <1>0, <2>6, <3>1, <3>2 DEF Typed, DropMember, OwnedOK
      <3> QED
        BY <1>0, <1>2, <1>3, <1>4, <1>5, <2>6, <3>3 DEF Typed, DropMember
    <2>7. CASE Return(t)
      <3>1. OwnedOK'
        <4>1. stack[t] \in Seq(Components) /\ stack[t] # <<>>
          BY <1>0, <2>7 DEF Typed, OwnedOK, Return
        <4>2. Tail(stack[t]) \in Seq(Components)
          BY <4>1
        <4> QED
          BY <1>0, <2>7, <4>2 DEF Typed, OwnedOK, Return
      <3> QED
        BY <1>0, <1>2, <1>3, <1>4, <1>5, <2>7, <3>1 DEF Typed, Return
    <2> QED
      BY <1>6, <2>1, <2>2, <2>3, <2>4, <2>5, <2>6, <2>7 DEF Destroy
  <1>7. CASE MainThread
    <2>1. CASE Unregister
      <3>1. PICK n \in 1..registry :
              /\ registry' = n - 1
              /\ Drop("main", ByName[n], "registry")
        BY <2>1 DEF Unregister
      <3>2. registry' \in 0..5 /\ ByName[n] \in Components
        <4>1. n \in 1..5 /\ registry \in 0..5
          BY <1>0 DEF Typed, OwnedOK
        <4>2. ByName[n] \in Components
          BY <4>1, Operations DEF Components, ToSet, ByName
        <4> QED
          BY <3>1, <4>1, <4>2
      <3>3. stack' \in [Threads -> Seq(Components)] /\ heirs' \subseteq Threads \ {"main"}
        BY <1>0, <3>1, <3>2, DropType DEF Typed, Threads
      <3>4. OwnedOK'
        BY <1>0, <2>1, <3>2, <3>3 DEF Typed, OwnedOK, Unregister
      <3> QED
        BY <1>0, <1>2, <1>3, <1>4, <1>5, <2>1, <3>4 DEF Typed, Unregister
    <2>2. CASE Unload
      BY <1>0, <1>1, <1>2, <1>3, <1>4, <1>5, <2>2 DEF Typed, Unload
    <2> QED
      BY <1>6, <1>7, <2>1, <2>2 DEF MainThread, Threads
  <1>8. ASSUME NEW w \in Workers, Worker(w) PROVE Typed'
    <2>1. w \in Threads
      BY DEF Threads
    <2>2. ASSUME NEW f \in DOMAIN Start, Post(w, f) \/ RunFunction(w, f) PROVE Typed'
      <3>1. f \in {"processDeviceList", "connectionHandler"} /\ Start[f] \in Places
        BY DEF Start, Places
      <3>2. PoolOK'
        BY <1>0, <2>2, <3>1 DEF Typed, PoolOK, Post, RunFunction, Step, Places
      <3>3. Log!TypeOK'
        BY <1>0, <1>4, <2>2 DEF Typed, Post, RunFunction, Log!Printed, Log!TypeOK, logs
      <3> QED
        BY <1>0, <1>1, <1>3, <1>5, <2>2, <3>2, <3>3 DEF Typed, Post, RunFunction
    <2>3. CASE ConnDrop(w)
      <3>1. stack' \in [Threads -> Seq(Components)] /\ heirs' \subseteq Threads \ {"main"}
        BY <1>0, <2>1, <2>3, DropType, Operations DEF Typed, ConnDrop
      <3>2. OwnedOK'
        BY <1>0, <2>3, <3>1 DEF Typed, OwnedOK, ConnDrop
      <3>3. PoolOK'
        BY <1>0, <2>3 DEF Typed, PoolOK, ConnDrop, Step, Places
      <3> QED
        BY <1>0, <1>3, <1>4, <1>5, <2>3, <3>2, <3>3 DEF Typed, ConnDrop
    <2>4. ASSUME Quiet, NEW from, NEW to \in Places, Step(w, from, to),
                 \/ UNCHANGED logs
                 \/ \E f \in Log!Functions : Log!Printed(f)
          PROVE  Typed'
      <3>1. OwnedOK'
        BY <1>1, <2>4 DEF Quiet
      <3>2. PoolOK'
        BY <1>0, <2>4 DEF Typed, PoolOK, Quiet, Step
      <3>3. Log!TypeOK'
        BY <1>0, <1>4, <2>4 DEF Typed, Log!Printed, Log!TypeOK
      <3> QED
        BY <1>0, <1>3, <1>5, <2>4, <3>1, <3>2, <3>3 DEF Typed, Quiet
    <2>5. ASSUME Quiet, EndWorker(w) \/ DevicePrint(w) \/ EndPass(w) \/ ConnLock(w)
                        \/ ConnFind(w) \/ ConnUnlock(w)
          PROVE  \E from \in Places, to \in Places :
                    /\ Step(w, from, to)
                    /\ \/ UNCHANGED logs
                       \/ \E f \in Log!Functions : Log!Printed(f)
      BY <2>5 DEF EndWorker, DevicePrint, EndPass, ConnLock, ConnFind, ConnUnlock,
                  Places, Log!Functions
    <2> QED
      BY <1>6, <1>8, <2>1, <2>2, <2>3, <2>4, <2>5 DEF Worker
  <1>9. CASE Packet
    <2>1. CASE on_message
      <3>1. Lst!TypeOK' /\ HasEvent'
        BY <1>0, <2>1 DEF Typed, on_message, Lst!sendEvent, Lst!TypeOK, HasEvent, Events
      <3> QED
        BY <1>0, <1>1, <1>2, <1>3, <1>4, <2>1, <3>1 DEF Typed, on_message
    <2>2. ASSUME NEW cb \in DOMAIN Printer, Callback(cb) PROVE Typed'
      <3>1. cb \in {"on_connect", "on_disconnect", "on_error"}
            /\ Printer[cb] \in Log!Functions /\ "mosquitto" \in Threads
        BY DEF Printer, Log!Functions, Threads
      <3>2. ClientOK'
        BY <1>0, <2>2, <3>1 DEF Typed, ClientOK, Callback
      <3>3. Log!TypeOK'
        BY <1>0, <2>2, <3>1, LogType DEF Typed, Callback
      <3> QED
        BY <1>0, <1>1, <1>2, <1>5, <2>2, <3>2, <3>3 DEF Typed, Callback
    <2> QED
      BY <1>9, <2>1, <2>2 DEF Packet
  <1>10. CASE Mosquitto
    <2>1. CASE EndPrint
      <3>1. Log!TypeOK'
        BY <1>0, <2>1 DEF Typed, EndPrint, Log!Unlock, Log!TypeOK
      <3>2. Lst!TypeOK' /\ HasEvent'
        <4>1. CASE Lst!sendEvent("online")
          BY <1>0, <4>1 DEF Typed, Lst!sendEvent, Lst!TypeOK, HasEvent, Events
        <4> QED
          BY <1>5, <2>1, <4>1 DEF EndPrint
      <3>3. ClientOK'
        BY <1>0, <2>1 DEF Typed, ClientOK, EndPrint
      <3> QED
        BY <1>0, <1>1, <1>2, <2>1, <3>1, <3>2, <3>3 DEF Typed, EndPrint
    <2>2. CASE Cancelled
      <3>1. ClientOK'
        BY <1>0, <2>2 DEF Typed, ClientOK, Cancelled
      <3> QED
        BY <1>0, <1>1, <1>2, <1>4, <1>5, <2>2, <3>1 DEF Typed, Cancelled
    <2> QED
      BY <1>10, <2>1, <2>2 DEF Mosquitto
  <1>11. CASE Listener
    <2>1. CASE Take
      <3>1. Lst!TypeOK' /\ HasEvent'
        BY <1>0, <2>1, EventType DEF Typed, Take, Events
      <3> QED
        BY <1>0, <1>1, <1>2, <1>3, <1>4, <2>1, <3>1 DEF Typed, Take
    <2>2. CASE Process
      <3>1. Lst!TypeOK' /\ HasEvent'
        BY <1>0, <2>2, EventType DEF Typed, Process, Events
      <3>2. Log!TypeOK'
        BY <1>0, <2>2 DEF Typed, Process, Log!Printed, Log!TypeOK
      <3> QED
        BY <1>0, <1>1, <1>2, <1>3, <2>2, <3>1, <3>2 DEF Typed, Process
    <2>3. CASE Release
      <3>1. Lst!TypeOK' /\ HasEvent'
        BY <1>0, <2>3, EventType DEF Typed, Release, Events
      <3>2. stack' \in [Threads -> Seq(Components)] /\ heirs' \subseteq Threads \ {"main"}
        BY <1>0, <2>3, DropType, Operations DEF Typed, Release, Threads
      <3>3. OwnedOK'
        BY <1>0, <2>3, <3>2 DEF Typed, OwnedOK, Release
      <3> QED
        BY <1>0, <1>2, <1>3, <1>4, <2>3, <3>1, <3>3 DEF Typed, Release
    <2> QED
      BY <1>11, <2>1, <2>2, <2>3 DEF Listener
  <1>12. CASE Crash
    BY <1>0, <1>1, <1>2, <1>3, <1>4, <1>5, <1>12 DEF Typed, Crash
  <1>13. CASE UNCHANGED vars
    BY <1>0, <1>1, <1>2, <1>3, <1>4, <1>5, <1>13
       DEF Typed, vars, owned, pool, client, logs, events
  <1> QED
    BY <1>7, <1>8, <1>9, <1>10, <1>11, <1>12, <1>13 DEF Next

\* The type invariant of the end of the program, for any number of workers.
THEOREM TypeCorrectness == Spec => []TypeOK
  BY InitType, NextType, PTL DEF Spec

-----------------------------------------------------------------------------
(* How far the destructors are, and what is over by then.                    *)

Stages ==
    /\ stack["listener"] = <<>>
    /\ done["bridge"] >= 1 => "processDeviceList" \notin m_cycle_items
    /\ done["connman"] >= 1 => "connectionHandler" \notin m_cycle_items
    /\ done["bridge"] >= 4 => place = "done"
    /\ done["mqttconn"] >= 2 => loop = "ended"

TeardownInv == TypeOK /\ HasEvent /\ Stages

\* A stage is reached by the operation that stands there and by no other.
LEMMA Reached ==
  ASSUME OwnedOK, NEW t \in Threads, NEW kind, NEW arg, Doing(t, kind, arg)
  PROVE  /\ done'["bridge"] >= 1 =>
               done["bridge"] >= 1 \/ (kind = "stop_cyclic" /\ arg = "processDeviceList")
         /\ done'["connman"] >= 1 =>
               done["connman"] >= 1 \/ (kind = "stop_cyclic" /\ arg = "connectionHandler")
         /\ done'["bridge"] >= 4 =>
               done["bridge"] >= 4 \/ (kind = "join" /\ arg = "listener")
         /\ done'["mqttconn"] >= 2 =>
               done["mqttconn"] >= 2 \/ (kind = "join" /\ arg = "mosquitto")
  <1>1. "bridge" \in Components /\ "connman" \in Components /\ "mqttconn" \in Components
    BY Operations
  <1>2. \A c \in Components :
           \/ done'[c] = done[c]
           \/ /\ done'[c] = done[c] + 1
              /\ Destructor[c][done[c] + 1] = <<kind, arg>>
    BY DoingStep
  <1>3. done \in [Components -> Nat]
    BY DEF OwnedOK
  <1>4. /\ Destructor["bridge"][1] = <<"stop_cyclic", "processDeviceList">>
        /\ Destructor["bridge"][4] = <<"join", "listener">>
        /\ Destructor["mqttconn"][2] = <<"join", "mosquitto">>
        /\ Destructor["connman"][1] = <<"stop_cyclic", "connectionHandler">>
    BY Operations
  <1>5. ASSUME NEW c \in Components, NEW n \in Nat, done'[c] >= n, ~(done[c] >= n)
        PROVE  Destructor[c][n] = <<kind, arg>>
    <2>1. done'[c] = done[c] + 1 /\ Destructor[c][done[c] + 1] = <<kind, arg>>
      BY <1>2, <1>3, <1>5
    <2>2. done[c] + 1 = n
      BY <1>3, <1>5, <2>1
    <2> QED
      BY <2>1, <2>2
  <1> QED
    BY <1>1, <1>4, <1>5

\* As long as the bridge has not come to drop them it owns the connection and
\* the executor; so does the connection manager own the executor.
LEMMA StillOwned ==
  ASSUME OwnedOK
  PROVE  /\ done["bridge"] <= 4 => "bridge" \in Owners("mqttconn")
         /\ done["bridge"] <= 5 => "bridge" \in Owners("executor")
         /\ done["connman"] <= 2 => "connman" \in Owners("executor")
  <1>1. "bridge" \in Components /\ "connman" \in Components
    BY Operations
  <1>2. done["bridge"] \in Nat /\ done["connman"] \in Nat
    BY <1>1 DEF OwnedOK
  <1>3. /\ Len(Destructor["bridge"]) = 7 /\ Len(Destructor["connman"]) = 4
        /\ Destructor["bridge"][5] = <<"drop", "mqttconn">>
        /\ Destructor["bridge"][6] = <<"drop", "executor">>
        /\ Destructor["connman"][3] = <<"drop", "executor">>
    BY Operations
  <1>4. /\ done["bridge"] <= 4 => Before("bridge", <<"drop", "mqttconn">>)
        /\ done["bridge"] <= 5 => Before("bridge", <<"drop", "executor">>)
        /\ done["connman"] <= 2 => Before("connman", <<"drop", "executor">>)
    BY <1>2, <1>3 DEF Before
  <1>5. /\ "mqttconn" \in Depends["bridge"] /\ "executor" \in Depends["bridge"]
        /\ "executor" \in Depends["connman"]
    BY DEF Depends
  <1> QED
    BY <1>1, <1>4, <1>5 DEF Owners

\* At the end's start no destructor has run.
LEMMA InitStages == Init => Stages
  BY Operations DEF Init, Stages, Lst!Init, Threads

\* What moves no destructor on, lets nothing more into the table and starts no
\* thread again leaves the stages as they are.
LEMMA StagesKept ==
  ASSUME Stages, UNCHANGED done, stack'["listener"] = <<>>,
         m_cycle_items' \subseteq m_cycle_items,
         place = "done" => place' = "done",
         loop = "ended" => loop' = "ended"
  PROVE  Stages'
  BY DEF Stages

\* A destructor moves on in the thread of the launcher or of a worker.
LEMMA DestroyStages ==
  ASSUME OwnedOK, Stages, NEW t \in Threads \ {"listener"}, Destroy(t)
  PROVE  Stages'
  <1>1. /\ stack["listener"] = <<>> /\ stack \in [Threads -> Seq(Components)]
        /\ "listener" \in Threads
    BY DEF Stages, OwnedOK, Threads
  \* An operation that is none of the four which the stages name.
  <1>2. ASSUME NEW kind, NEW arg, Doing(t, kind, arg),
               kind # "stop_cyclic", kind # "join",
               stack'["listener"] = <<>>, m_cycle_items' \subseteq m_cycle_items,
               place' = place, loop' = loop
        PROVE  Stages'
    BY <1>2, Reached DEF Stages
  <1>3. ASSUME NEW f \in DOMAIN Start, StopCyclic(t, f) PROVE Stages'
    <2>1. /\ Doing(t, "stop_cyclic", f) /\ m_cycle_items' = m_cycle_items \ {f}
          /\ stack' = stack /\ place' = place /\ loop' = loop
      BY <1>3 DEF StopCyclic, events, client
    <2>2. /\ done'["bridge"] >= 1 => done["bridge"] >= 1 \/ f = "processDeviceList"
          /\ done'["connman"] >= 1 => done["connman"] >= 1 \/ f = "connectionHandler"
          /\ done'["bridge"] >= 4 => done["bridge"] >= 4
          /\ done'["mqttconn"] >= 2 => done["mqttconn"] >= 2
      BY <2>1, Reached
    <2> QED
      BY <2>1, <2>2 DEF Stages
  <1>4. CASE InterruptListener(t)
    BY <1>1, <1>2, <1>4 DEF InterruptListener, Lst!Interrupt, pool, client
  <1>5. CASE CancelLoop(t)
    BY <1>1, <1>2, <1>5 DEF CancelLoop, pool, events
  <1>6. CASE StopExecution(t)
    BY <1>1, <1>2, <1>6 DEF StopExecution, client, events
  <1>7. CASE Wait(t)
    <2>0. /\ stack' = stack /\ m_cycle_items' = m_cycle_items
          /\ place' = place /\ loop' = loop
      BY <1>7 DEF Wait, pool, client, events
    <2>1. ASSUME NEW f, Doing(t, "print", f) PROVE Stages'
      BY <1>1, <1>2, <2>0, <2>1
    <2>2. ASSUME NEW m, Doing(t, "end", m) PROVE Stages'
      BY <1>1, <1>2, <2>0, <2>2
    <2>3. CASE Doing(t, "join", "listener") /\ ListenerJoined
      BY <2>0, <2>3, Reached DEF Stages, ListenerJoined
    <2>4. CASE Doing(t, "join", "mosquitto") /\ LoopJoined
      BY <2>0, <2>4, Reached DEF Stages, LoopJoined
    <2>5. CASE Doing(t, "join", "workers")
      BY <2>0, <2>5, Reached DEF Stages
    <2> QED
      BY <1>7, <2>1, <2>2, <2>3, <2>4, <2>5 DEF Wait
  <1>8. ASSUME NEW d \in Components, DropMember(t, d) PROVE Stages'
    <2>1. stack'["listener"] = <<>>
      BY <1>1, <1>8 DEF DropMember, Drop
    <2> QED
      BY <1>2, <1>8, <2>1 DEF DropMember, pool, client, events
  <1>9. CASE Return(t)
    <2>1. stack'["listener"] = <<>>
      BY <1>1, <1>9 DEF Return
    <2> QED
      BY <1>9, <2>1, StagesKept DEF Return, pool, client, events
  <1> QED
    BY <1>3, <1>4, <1>5, <1>6, <1>7, <1>8, <1>9 DEF Destroy

\* Every step keeps the stages.
LEMMA NextStages == TypeOK /\ HasEvent /\ Stages /\ [Next]_vars => Stages'
  <1> SUFFICES ASSUME TypeOK, HasEvent, Stages, [Next]_vars PROVE Stages'
    OBVIOUS
  <1>1. OwnedOK
    BY TypeParts DEF Typed
  <1>2. /\ stack["listener"] = <<>> /\ stack \in [Threads -> Seq(Components)]
        /\ "listener" \in Threads /\ "main" \in Threads \ {"listener"}
        /\ \A w \in Workers : w \in Threads \ {"listener"}
    BY <1>1, TeardownAssumption DEF Stages, OwnedOK, Threads
  <1>3. CASE MainThread
    <2>1. CASE Unregister
      <3>1. stack'["listener"] = <<>>
        BY <1>2, <2>1 DEF Unregister, Drop
      <3> QED
        BY <2>1, <3>1, StagesKept DEF Unregister, pool, client, events
    <2>2. CASE Unload
      BY <1>2, <2>2, StagesKept DEF Unload, owned, pool, client, events
    <2> QED
      BY <1>1, <1>2, <1>3, <2>1, <2>2, DestroyStages DEF MainThread
  <1>4. ASSUME NEW w \in Workers, Worker(w) PROVE Stages'
    <2>1. ASSUME NEW f, Post(w, f) \/ RunFunction(w, f) PROVE Stages'
      BY <1>2, <2>1, StagesKept DEF Post, RunFunction, owned, client, events
    <2>2. CASE ConnDrop(w)
      <3>1. stack'["listener"] = <<>>
        BY <1>2, <2>2 DEF ConnDrop, Drop
      <3> QED
        BY <2>2, <3>1, StagesKept DEF ConnDrop, client, events
    <2>3. CASE Quiet
      BY <1>2, <2>3, StagesKept DEF Quiet, owned, client, events
    <2> QED
      BY <1>1, <1>2, <1>4, <2>1, <2>2, <2>3, DestroyStages DEF Worker
  <1>5. CASE Packet
    <2>1. CASE on_message
      BY <1>2, <2>1, StagesKept DEF on_message, owned, pool, client, Lst!sendEvent
    <2>2. ASSUME NEW cb, Callback(cb) PROVE Stages'
      BY <1>2, <2>2, StagesKept DEF Callback, CallsBack, owned, pool, events
    <2> QED
      BY <1>5, <2>1, <2>2 DEF Packet
  <1>6. CASE Mosquitto
    <2>1. CASE EndPrint
      <3>1. place' = place
        BY <2>1 DEF EndPrint, Lst!sendEvent, events
      <3> QED
        BY <1>2, <2>1, <3>1, StagesKept DEF EndPrint, owned, pool
    <2>2. CASE Cancelled
      BY <1>2, <2>2, StagesKept DEF Cancelled, owned, pool, events
    <2> QED
      BY <1>6, <2>1, <2>2 DEF Mosquitto
  <1>7. CASE Listener
    <2>1. CASE Take
      BY <1>2, <2>1, StagesKept
         DEF Take, owned, pool, client, Lst!LockHolder, Lst!consumeEvent
    <2>2. CASE Process
      BY <1>2, <2>2, StagesKept DEF Process, owned, pool, client, Lst!BeginProcess
    <2>3. CASE Release
      \* The bridge, which joins the listener first, still owns the connection.
      <3>1. place # "done" /\ Drop("listener", "mqttconn", "listener")
        BY <2>3 DEF Release, Lst!ConsumeNothing, Lst!EndProcess
      <3>2. done["bridge"] \in Nat /\ ~(done["bridge"] >= 4)
        BY <1>1, <3>1, Operations DEF Stages, OwnedOK
      <3>3. "bridge" \in Owners("mqttconn")
        BY <1>1, <3>2, StillOwned
      <3>4. Owners("mqttconn") # {"listener"}
        BY <3>3
      <3>5. stack' = stack
        BY <3>1, <3>4 DEF Drop
      <3> QED
        BY <1>2, <2>3, <3>1, <3>5, StagesKept DEF Release, pool, client
    <2> QED
      BY <1>7, <2>1, <2>2, <2>3 DEF Listener
  <1>8. CASE Crash
    BY <1>2, <1>8, StagesKept DEF Crash, owned, pool, client, events
  <1>9. CASE UNCHANGED vars
    BY <1>2, <1>9, StagesKept DEF vars
  <1> QED
    BY <1>3, <1>4, <1>5, <1>6, <1>7, <1>8, <1>9 DEF Next

\* So the invariant holds in every reachable state.
LEMMA Invariance == Spec => []TeardownInv
  <1>1. Init => TeardownInv
    BY InitType, InitStages DEF TeardownInv
  <1>2. TeardownInv /\ [Next]_vars => TeardownInv'
    BY NextType, NextStages DEF TeardownInv
  <1> QED
    BY <1>1, <1>2, PTL DEF Spec

\* The listener never comes to execute a destructor, and is over before the
\* connection has no owner any more: ~CWirelessBridge joins it before it lets
\* its pointer to the connection go.
THEOREM ListenerIsOverFirst == Spec => []ListenerEndsFirst
  <1>1. TeardownInv => ListenerEndsFirst
    <2> SUFFICES ASSUME TeardownInv PROVE ListenerEndsFirst
      OBVIOUS
    <2>1. OwnedOK /\ Stages
      BY TypeParts DEF TeardownInv, Typed
    <2>2. done["bridge"] \in Nat
      BY <2>1, Operations DEF OwnedOK
    <2>3. Owners("mqttconn") = {} => done["bridge"] >= 4
      BY <2>1, <2>2, StillOwned
    <2> QED
      BY <2>1, <2>3 DEF ListenerEndsFirst, Stages
  <1> QED
    BY <1>1, Invariance, PTL

\* When the executor has no owner, and stopExecution walks its table with no
\* lock, the bridge and the connection manager have both stopped their function.
THEOREM TableIsEmpty == Spec => []EmptyWhenWalked
  <1>1. TeardownInv => EmptyWhenWalked
    <2> SUFFICES ASSUME TeardownInv, Owners("executor") = {} PROVE m_cycle_items = {}
      BY DEF EmptyWhenWalked
    <2>1. OwnedOK /\ PoolOK /\ Stages
      BY TypeParts DEF TeardownInv, Typed
    <2>2. done["bridge"] \in Nat /\ done["connman"] \in Nat
      BY <2>1, Operations DEF OwnedOK
    <2>3. done["bridge"] >= 1 /\ done["connman"] >= 1
      BY <2>1, <2>2, StillOwned
    <2> QED
      BY <2>1, <2>3 DEF PoolOK, Stages
  <1> QED
    BY <1>1, Invariance, PTL

\* mosquitto's thread is over before the topics and the event loop that its
\* callbacks use go: ~CMqttConnection joins it first.
THEOREM LoopIsOverFirst == Spec => []CallbacksHaveTheirObject
  <1>1. TeardownInv => CallbacksHaveTheirObject
    <2> SUFFICES ASSUME TeardownInv, ~Alive("mqttconn", "m_topics_list")
                 PROVE  loop = "ended"
      BY DEF CallbacksHaveTheirObject
    <2>1. OwnedOK /\ Stages
      BY TypeParts DEF TeardownInv, Typed
    <2>2. done["mqttconn"] \in Nat
      BY <2>1, Operations DEF OwnedOK
    <2>3. done["mqttconn"] >= 4
      <3>1. Len(Destructor["mqttconn"]) = 8
            /\ Destructor["mqttconn"][4] = <<"end", "m_topics_list">>
        BY Operations
      <3> QED
        BY <2>2, <3>1 DEF Alive, Before
    <2> QED
      BY <2>1, <2>2, <2>3 DEF Stages
  <1> QED
    BY <1>1, Invariance, PTL

-----------------------------------------------------------------------------
(* The listener and its queue implement Fifo: sendEvent puts an event in, and *)
(* EndProcess is where it has been handled.                                   *)

\* What a sender and the listener do to the events that are not yet handled.
LEMMA SendPuts ==
  ASSUME Lst!TypeOK, NEW e \in Events, Lst!sendEvent(e)
  PROVE  Lst!Unhandled' = Append(Lst!Unhandled, e)
  <1>1. m_queue \in Seq(Events) /\ m_queue' = Append(m_queue, e) /\ ev' = ev
    BY DEF Lst!TypeOK, Lst!sendEvent
  <1>2. CASE ev = NoEvent
    BY <1>1, <1>2 DEF Lst!Unhandled
  <1>3. CASE ev # NoEvent
    <2>1. ev \in Events
      BY <1>3 DEF Lst!TypeOK
    <2>2. <<ev>> \o Append(m_queue, e) = Append(<<ev>> \o m_queue, e)
      BY <1>1, <2>1
    <2> QED
      BY <1>1, <1>3, <2>2 DEF Lst!Unhandled
  <1> QED
    BY <1>2, <1>3

\* Taking an event out of the queue and into the hand leaves what is unhandled as it was.
LEMMA ConsumeKeeps ==
  ASSUME Lst!TypeOK, HasEvent, Lst!consumeEvent
  PROVE  Lst!Unhandled' = Lst!Unhandled
  <1>1. /\ m_queue \in Seq(Events) /\ m_queue # <<>> /\ ev = NoEvent
        /\ ev' = Head(m_queue) /\ m_queue' = Tail(m_queue)
    BY DEF Lst!TypeOK, Lst!consumeEvent, HasEvent
  <1>2. Head(m_queue) \in Events /\ m_queue = <<Head(m_queue)>> \o Tail(m_queue)
    BY <1>1
  <1>3. ev' # NoEvent
    BY <1>1, <1>2, TeardownAssumption
  <1> QED
    BY <1>1, <1>2, <1>3 DEF Lst!Unhandled

\* Handling the event in hand takes it from the head of what is unhandled.
LEMMA ProcessTakes ==
  ASSUME Lst!TypeOK, HasEvent, Lst!EndProcess
  PROVE  Lst!Unhandled # <<>> /\ Lst!Unhandled' = Tail(Lst!Unhandled)
  <1>1. /\ m_queue \in Seq(Events) /\ ev \in Events /\ ev # NoEvent
        /\ ev' = NoEvent /\ m_queue' = m_queue
    BY DEF Lst!TypeOK, Lst!EndProcess, HasEvent
  <1>2. <<ev>> \o m_queue # <<>> /\ Tail(<<ev>> \o m_queue) = m_queue
    BY <1>1
  <1> QED
    BY <1>1, <1>2 DEF Lst!Unhandled

\* Every step is a step of Fifo or leaves what is unhandled as it is.
LEMMA NextFifo ==
  TypeOK /\ HasEvent /\ [Next]_vars => [Lst!Abstract!Next]_(Lst!Unhandled)
  <1> SUFFICES ASSUME TypeOK, HasEvent, [Next]_vars
               PROVE  Lst!Abstract!Next \/ Lst!Unhandled' = Lst!Unhandled
    OBVIOUS
  <1>1. Lst!TypeOK
    BY DEF TypeOK
  <1>2. m_queue' = m_queue /\ ev' = ev => Lst!Unhandled' = Lst!Unhandled
    BY DEF Lst!Unhandled
  <1>3. ASSUME NEW e \in Events, Lst!sendEvent(e) PROVE Lst!Abstract!Next
    BY <1>1, <1>3, SendPuts DEF Lst!Abstract!Next, Lst!Abstract!Put
  <1>4. ASSUME NEW t, Destroy(t) PROVE Lst!Unhandled' = Lst!Unhandled
    BY <1>2, <1>4
       DEF Destroy, StopCyclic, InterruptListener, Lst!Interrupt, CancelLoop,
           StopExecution, Wait, DropMember, Return, events
  <1>5. CASE MainThread
    BY <1>2, <1>4, <1>5 DEF MainThread, Unregister, Unload, events
  <1>6. ASSUME NEW w \in Workers, Worker(w) PROVE Lst!Unhandled' = Lst!Unhandled
    BY <1>2, <1>4, <1>6 DEF Worker, Post, RunFunction, ConnDrop, Quiet, events
  <1>7. CASE Packet
    BY <1>2, <1>3, <1>7 DEF Packet, on_message, Callback, Events, events
  <1>8. CASE Mosquitto
    BY <1>2, <1>3, <1>8 DEF Mosquitto, EndPrint, Cancelled, Events, events
  <1>9. CASE Listener
    <2>1. CASE Take
      BY <1>1, <1>2, <2>1, ConsumeKeeps DEF Take, Lst!LockHolder
    <2>2. CASE Process
      BY <1>2, <2>2 DEF Process, Lst!BeginProcess
    <2>3. CASE Release
      BY <1>1, <1>2, <2>3, ProcessTakes
         DEF Release, Lst!ConsumeNothing, Lst!Abstract!Next, Lst!Abstract!Take
    <2> QED
      BY <1>9, <2>1, <2>2, <2>3 DEF Listener
  <1>10. CASE Crash
    BY <1>2, <1>10 DEF Crash, events
  <1>11. CASE UNCHANGED vars
    BY <1>2, <1>11 DEF vars
  <1> QED
    BY <1>5, <1>6, <1>7, <1>8, <1>9, <1>10, <1>11 DEF Next

\* The events are handled one at a time, in the order in which mosquitto's
\* callbacks sent them, each once, however the two threads and the end of the
\* program fall together.
THEOREM HandledInOrder == Spec => EventsInOrder
  <1>1. Init => Lst!Abstract!Init
    BY DEF Init, Lst!Init, Lst!Unhandled, Lst!Abstract!Init
  <1>2. TypeOK /\ HasEvent /\ [Next]_vars => [Lst!Abstract!Next]_(Lst!Unhandled)
    BY NextFifo
  <1>3. Spec => [](TypeOK /\ HasEvent)
    BY InitType, NextType, PTL DEF Spec
  <1> QED
    BY <1>1, <1>2, <1>3, PTL DEF Spec, EventsInOrder, Lst!Abstract!Spec

-----------------------------------------------------------------------------
(* While no worker has executed a destructor, all of them run on the main     *)
(* thread: the inductive invariant behind QuietEnd.                           *)

OnStack(c) == \E i \in DOMAIN stack["main"] : stack["main"][i] = c

\* Nothing is lost: who has not gone is on its way, or somebody still owns it.
Kept == \A c \in Components : Gone(c) \/ OnStack(c) \/ Owners(c) # {}

OnMain ==
    /\ \A t \in Threads \ {"main"} : stack[t] # <<>> => t \in heirs
    /\ heirs = {} => Kept
    /\ heirs = {} /\ done["executor"] >= 3 => \A w \in Workers : at[w] = "ended"
    /\ phase = "ended" => registry = 0 /\ stack["main"] = <<>>

\* A destructor drops what its component depends on, and nothing else.
LEMMA DropsAMember ==
  ASSUME NEW c \in Components, NEW i \in 1..Len(Destructor[c]), NEW d \in Components,
         Destructor[c][i] = <<"drop", d>>
  PROVE  d \in Depends[c]
  <1>1. CASE c = "bridge"
    <2>1. i \in 1..7 /\ CWirelessBridge[i] = <<"drop", d>>
      BY <1>1, Operations
    <2>2. i = 5 \/ i = 6 \/ i = 7
      BY <2>1 DEF CWirelessBridge
    <2> QED
      BY <1>1, <2>1, <2>2 DEF CWirelessBridge, Depends
  <1>2. CASE c = "mqttconn"
    <2>1. i \in 1..8 /\ CMqttConnection[i] = <<"drop", d>>
      BY <1>2, Operations
    <2>2. i = 5 \/ i = 6
      <3>1. /\ CMqttConnection[1][1] # "drop" /\ CMqttConnection[2][1] # "drop"
            /\ CMqttConnection[3][1] # "drop" /\ CMqttConnection[4][1] # "drop"
            /\ CMqttConnection[7][1] # "drop" /\ CMqttConnection[8][1] # "drop"
        BY DEF CMqttConnection
      <3>2. CMqttConnection[i][1] = "drop"
        BY <2>1
      <3> HIDE DEF CMqttConnection
      <3> QED
        BY <2>1, <3>1, <3>2
    <2> QED
      BY <1>2, <2>1, <2>2 DEF CMqttConnection, Depends
  <1>3. CASE c = "connman"
    <2>1. i \in 1..4 /\ CConnMan[i] = <<"drop", d>>
      BY <1>3, Operations
    <2>2. i = 3 \/ i = 4
      BY <2>1 DEF CConnMan
    <2> QED
      BY <1>3, <2>1, <2>2 DEF CConnMan, Depends
  <1>4. CASE c = "executor"
    <2>1. i \in 1..5 /\ CExecutor[i] = <<"drop", d>>
      BY <1>4 DEF Destructor, CExecutor
    <2>2. i = 5
      BY <2>1 DEF CExecutor
    <2> QED
      BY <1>4, <2>1, <2>2 DEF CExecutor, Depends
  <1>5. CASE c = "final_haven"
    <2>1. i \in 1..2 /\ CFinalHaven[i] = <<"drop", d>>
      BY <1>5 DEF Destructor, CFinalHaven
    <2> QED
      BY <2>1 DEF CFinalHaven
  <1> QED
    BY <1>1, <1>2, <1>3, <1>4, <1>5, Operations

\* What a step lets an owner of a component keep.
LEMMA OwnerStays ==
  ASSUME NEW d \in Components, NEW o \in Owners(d),
         o \in Components /\ Before(o, <<"drop", d>>) => Before(o, <<"drop", d>>)',
         o = "registry" => registry' = registry,
         d = "mqttconn" /\ o = "listener" /\ Lst!OwnsHolder => Lst!OwnsHolder',
         d = "mqttconn" /\ o \in Workers /\ at[o] = "conn_drop" => at'[o] = "conn_drop"
  PROVE  o \in Owners(d)'
  <1>1. CASE o \in Components /\ d \in Depends[o] /\ Before(o, <<"drop", d>>)
    BY <1>1 DEF Owners
  <1>2. CASE o = "registry" /\ \E i \in 1..registry : ByName[i] = d
    BY <1>2 DEF Owners
  <1>3. CASE o = "listener" /\ d = "mqttconn" /\ Lst!OwnsHolder
    BY <1>3 DEF Owners
  <1>4. CASE o \in Workers /\ d = "mqttconn" /\ at[o] = "conn_drop"
    BY <1>4 DEF Owners
  <1> QED
    BY <1>1, <1>2, <1>3, <1>4 DEF Owners

\* An operation leaves before a destructor what was there, but for itself.
LEMMA StillBefore ==
  ASSUME OwnedOK, NEW t \in Threads, NEW kind, NEW arg, Doing(t, kind, arg)
  PROVE  /\ \A c \in Components : Gone(c) => Gone(c)'
         /\ \A c \in Components : \A op :
               Before(c, op) /\ (c # Head(stack[t]) \/ op # <<kind, arg>>)
                  => Before(c, op)'
  <1>1. PICK h \in Components : h = Head(stack[t])
    BY DoingStep
  <1>2. /\ done[h] # Len(Destructor[h])
        /\ Destructor[h][done[h] + 1] = <<kind, arg>>
        /\ done' = [done EXCEPT ![h] = @ + 1]
    BY <1>1 DEF Doing, Gone
  <1>3. done \in [Components -> Nat] /\ \A c \in Components : Len(Destructor[c]) \in Nat
    BY Operations DEF OwnedOK
  <1>4. \A c \in Components : c # h => done'[c] = done[c]
    BY <1>2, <1>3
  <1>5. ASSUME NEW c \in Components, Gone(c) PROVE Gone(c)'
    BY <1>2, <1>4, <1>5 DEF Gone
  <1>6. ASSUME NEW c \in Components, NEW op, Before(c, op), c # h \/ op # <<kind, arg>>
        PROVE  Before(c, op)'
    <2>1. CASE c # h
      BY <1>4, <1>6, <2>1 DEF Before
    <2>2. CASE c = h
      <3>1. PICK i \in done[h] + 1 .. Len(Destructor[h]) : Destructor[h][i] = op
        BY <1>6, <2>2 DEF Before
      <3>2. i # done[h] + 1 /\ done'[h] = done[h] + 1
        BY <1>2, <1>3, <1>6, <2>2, <3>1
      <3>3. i \in done'[h] + 1 .. Len(Destructor[h])
        BY <1>3, <3>1, <3>2
      <3> QED
        BY <2>2, <3>1, <3>3 DEF Before
    <2> QED
      BY <2>1, <2>2
  <1> QED
    BY <1>1, <1>5, <1>6

\* What drops nothing and executes nothing loses nothing.
LEMMA KeptQuietly ==
  ASSUME Kept, UNCHANGED <<done, stack, registry>>,
         Lst!OwnsHolder => Lst!OwnsHolder',
         \A w \in Workers : at[w] = "conn_drop" => at'[w] = "conn_drop"
  PROVE  Kept'
  <1>1. ASSUME NEW d \in Components, NEW o \in Owners(d) PROVE o \in Owners(d)'
    BY OwnerStays DEF Before
  <1> QED
    BY <1>1 DEF Kept, Gone, OnStack

\* An operation that drops no pointer loses nothing.
LEMMA KeptDoing ==
  ASSUME OwnedOK, Kept, NEW t \in Threads, NEW kind, NEW arg,
         Doing(t, kind, arg), kind # "drop",
         UNCHANGED <<stack, registry, at, place>>
  PROVE  Kept'
  <1>1. ASSUME NEW d \in Components, NEW o \in Owners(d) PROVE o \in Owners(d)'
    <2>1. o \in Components /\ Before(o, <<"drop", d>>) => Before(o, <<"drop", d>>)'
      BY StillBefore
    <2> QED
      BY <2>1, OwnerStays DEF Lst!OwnsHolder
  <1> QED
    BY <1>1, StillBefore DEF Kept, OnStack

\* Of a component whose pointer the main thread drops, either somebody else is
\* left to own it, or the main thread begins with its destructor.
LEMMA KeptDropping ==
  ASSUME OwnedOK, Kept, NEW t \in Threads, NEW d \in Components, NEW owner \in Owners(d),
         Drop(t, d, owner), heirs' = {},
         \A c \in Components : Gone(c) => Gone(c)',
         \A o \in Owners(d) : o # owner => o \in Owners(d)',
         \A c \in Components : c # d /\ Owners(c) # {} => Owners(c)' # {}
  PROVE  Kept'
  <1>1. CASE Owners(d) = {owner}
    <2>1. t = "main" /\ stack'["main"] = <<d>> \o stack["main"]
      BY <1>1 DEF Drop, OwnedOK
    <2>2. stack["main"] \in Seq(Components)
      BY <2>1 DEF OwnedOK
    <2>3. /\ 1 \in DOMAIN stack'["main"] /\ stack'["main"][1] = d
          /\ \A i \in DOMAIN stack["main"] : /\ i + 1 \in DOMAIN stack'["main"]
                                             /\ stack'["main"][i + 1] = stack["main"][i]
      <3> DEFINE s == stack["main"]
                 z == <<d>> \o s
      <3>1. s \in Seq(Components) /\ Len(s) \in Nat /\ DOMAIN s = 1..Len(s)
        BY <2>2
      <3>2. /\ DOMAIN z = 1..(Len(s) + 1) /\ z[1] = d
            /\ \A i \in 1..Len(s) : z[i + 1] = s[i]
        <4> HIDE DEF s
        <4> QED
          BY <3>1
      <3>3. 1 \in 1..(Len(s) + 1) /\ \A i \in 1..Len(s) : i + 1 \in 1..(Len(s) + 1)
        <4> HIDE DEF s
        <4> QED
          BY <3>1
      <3>4. stack'["main"] = z
        BY <2>1
      <3> HIDE DEF z
      <3> QED
        BY <3>1, <3>2, <3>3, <3>4
    <2>4. OnStack(d)' /\ \A c \in Components : OnStack(c) => OnStack(c)'
      BY <2>3 DEF OnStack
    <2> QED
      BY <2>4 DEF Kept
  <1>2. CASE Owners(d) # {owner}
    <2>1. stack' = stack /\ Owners(d)' # {}
      BY <1>2 DEF Drop
    <2> QED
      BY <2>1 DEF Kept, OnStack
  <1> QED
    BY <1>1, <1>2

\* A member's pointer, as a destructor comes to its end.
LEMMA KeptMember ==
  ASSUME OwnedOK, Kept, NEW t \in Threads, NEW d \in Components,
         DropMember(t, d), heirs' = {}
  PROVE  Kept'
  <1>1. /\ Doing(t, "drop", d) /\ Drop(t, d, Head(stack[t]))
        /\ registry' = registry /\ at' = at /\ place' = place
    BY DEF DropMember, pool, events
  <1>2. PICK h \in Components : h = Head(stack[t])
    BY <1>1, DoingStep
  <1>3. /\ done[h] # Len(Destructor[h]) /\ Destructor[h][done[h] + 1] = <<"drop", d>>
        /\ done[h] \in Nat /\ Len(Destructor[h]) \in Nat /\ done[h] <= Len(Destructor[h])
    BY <1>1, <1>2, Operations DEF Doing, Gone, OwnedOK
  <1>4. /\ done[h] + 1 \in 1..Len(Destructor[h])
        /\ done[h] + 1 \in done[h] + 1 .. Len(Destructor[h])
    BY <1>3
  <1>5. Before(h, <<"drop", d>>) /\ d \in Depends[h]
    BY <1>3, <1>4, DropsAMember DEF Before
  <1>6. h \in Owners(d)
    BY <1>5 DEF Owners
  <1>7. ASSUME NEW c \in Components, NEW o \in Owners(c), c # d \/ o # h
        PROVE  o \in Owners(c)'
    <2>1. o \in Components /\ Before(o, <<"drop", c>>) => Before(o, <<"drop", c>>)'
      BY <1>1, <1>2, <1>7, StillBefore
    <2> QED
      BY <1>1, <2>1, OwnerStays DEF Lst!OwnsHolder
  <1>8. \A c \in Components : c # d /\ Owners(c) # {} => Owners(c)' # {}
    BY <1>7
  <1>9. \A c \in Components : Gone(c) => Gone(c)'
    BY <1>1, StillBefore
  <1> QED
    BY <1>1, <1>2, <1>6, <1>7, <1>8, <1>9, KeptDropping

\* The pointers of the manager.
LEMMA KeptRegistry ==
  ASSUME OwnedOK, Kept, Unregister, heirs' = {}
  PROVE  Kept'
  <1>1. PICK n \in 1..registry :
          /\ Owners(ByName[n]) = {"registry"}
          /\ \A i \in n+1 .. registry : Owners(ByName[i]) # {"registry"}
          /\ registry' = n - 1
          /\ Drop("main", ByName[n], "registry")
    BY DEF Unregister
  <1>2. /\ done' = done /\ at' = at /\ place' = place
        /\ registry \in 0..5 /\ "main" \in Threads
    BY DEF Unregister, pool, events, OwnedOK, Threads
  <1>3. ByName[n] \in Components
    BY <1>2, Operations DEF Components, ToSet, ByName
  <1>4. ASSUME NEW c \in Components, NEW o \in Owners(c), o # "registry"
        PROVE  o \in Owners(c)'
    BY <1>2, <1>4, OwnerStays DEF Before, Lst!OwnsHolder
  <1>5. ASSUME NEW c \in Components, c # ByName[n], Owners(c) # {}
        PROVE  Owners(c)' # {}
    <2>1. CASE \E o \in Owners(c) : o # "registry"
      BY <1>4, <2>1
    <2>2. CASE Owners(c) = {"registry"}
      <3>1. CASE \E i \in 1..registry : ByName[i] = c
        <4>1. PICK i \in 1..registry : ByName[i] = c
          BY <3>1
        <4>2. i \in 1..(n - 1)
          BY <1>1, <1>2, <1>5, <2>2, <4>1
        <4> QED
          BY <1>1, <4>1, <4>2 DEF Owners
      <3>2. CASE ~(\E i \in 1..registry : ByName[i] = c)
        <4>1. "registry" \in Owners(c)
          BY <2>2
        <4>2. "registry" \notin Components
          BY Operations
        <4>3. c = "mqttconn" /\ "registry" \in Workers /\ at["registry"] = "conn_drop"
          BY <3>2, <4>1, <4>2 DEF Owners
        <4> QED
          BY <1>2, <4>3 DEF Owners
      <3> QED
        BY <3>1, <3>2
    <2> QED
      BY <1>5, <2>1, <2>2
  <1> QED
    BY <1>1, <1>2, <1>3, <1>4, <1>5, KeptDropping DEF Gone

\* An operation of a destructor, or the return from it, loses nothing, leaves
\* no stack but the main thread's unknown to heirs, and joins all workers.
LEMMA DestroyOnMain ==
  ASSUME OwnedOK, OnMain, phase = "closing", NEW t \in Threads, Destroy(t)
  PROVE  OnMain'
  <1>0. stack[t] # <<>>
    <2>1. ASSUME NEW kind, NEW arg, Doing(t, kind, arg) PROVE stack[t] # <<>>
      BY <2>1 DEF Doing
    <2> QED
      BY <2>1 DEF Destroy, StopCyclic, InterruptListener, CancelLoop,
                  StopExecution, Wait, DropMember, Return
  <1>1. stack \in [Threads -> Seq(Components)] /\ stack[t] # <<>> /\ phase' = phase
    BY <1>0
       DEF OwnedOK, Destroy, StopCyclic, InterruptListener, CancelLoop,
           StopExecution, Wait, DropMember, Return
  <1>2. at' = at
    BY DEF Destroy, StopCyclic, InterruptListener, CancelLoop, StopExecution, Wait,
           DropMember, Return, pool
  <1>3. heirs \subseteq heirs'
    BY DEF Destroy, StopCyclic, InterruptListener, CancelLoop, StopExecution, Wait,
           DropMember, Drop, Return
  <1>4. \A u \in Threads \ {"main"} : stack'[u] # <<>> => u \in heirs'
    <2>1. CASE stack' = stack
      BY <1>3, <2>1 DEF OnMain
    <2>2. ASSUME NEW d \in Components, DropMember(t, d)
          PROVE \A u \in Threads \ {"main"} : stack'[u] # <<>> => u \in heirs'
      BY <1>1, <2>2 DEF DropMember, Drop, OnMain
    <2>3. CASE Return(t)
      BY <1>1, <2>3 DEF Return, OnMain
    <2> QED
      BY <2>1, <2>2, <2>3 DEF Destroy, StopCyclic, InterruptListener, CancelLoop,
                              StopExecution, Wait
  <1>5. ASSUME heirs' = {} PROVE t = "main" /\ heirs = {} /\ Kept
    BY <1>1, <1>3, <1>5 DEF OnMain
  <1>6. ASSUME heirs' = {} PROVE Kept'
    <2>1. ASSUME NEW kind, NEW arg, Doing(t, kind, arg), kind # "drop",
                 UNCHANGED <<stack, registry, at, place>>
          PROVE Kept'
      BY <1>5, <1>6, <2>1, KeptDoing
    <2>2. CASE \E f \in DOMAIN Start : StopCyclic(t, f)
      BY <1>2, <2>1, <2>2 DEF StopCyclic, events
    <2>3. CASE InterruptListener(t)
      BY <1>2, <2>1, <2>3 DEF InterruptListener, Lst!Interrupt
    <2>4. CASE CancelLoop(t)
      BY <1>2, <2>1, <2>4 DEF CancelLoop, events
    <2>5. CASE StopExecution(t)
      BY <1>2, <2>1, <2>5 DEF StopExecution, events
    <2>6. CASE Wait(t)
      BY <1>2, <2>1, <2>6 DEF Wait, events
    <2>7. ASSUME NEW d \in Components, DropMember(t, d) PROVE Kept'
      BY <1>5, <1>6, <2>7, KeptMember
    <2>8. CASE Return(t)
      <3>1. /\ Gone(Head(stack[t])) /\ stack' = [stack EXCEPT ![t] = Tail(@)]
            /\ done' = done /\ registry' = registry /\ place' = place
        BY <2>8 DEF Return, events
      <3>2. ASSUME NEW d \in Components, NEW o \in Owners(d) PROVE o \in Owners(d)'
        BY <1>2, <3>1, OwnerStays DEF Before, Lst!OwnsHolder
      <3>3. ASSUME NEW c \in Components, OnStack(c) PROVE OnStack(c)' \/ Gone(c)
        <4>1. PICK i \in DOMAIN stack["main"] : stack["main"][i] = c
          BY <3>3 DEF OnStack
        <4>2. /\ stack["main"] \in Seq(Components) /\ stack["main"] # <<>>
              /\ stack'["main"] = Tail(stack["main"]) /\ Gone(Head(stack["main"]))
          BY <1>1, <1>5, <1>6, <3>1
        <4>3. CASE i = 1
          BY <4>1, <4>2, <4>3
        <4>4. CASE i # 1
          <5> DEFINE s == stack["main"]
          <5>1. s \in Seq(Components) /\ i \in 2..Len(s) /\ Len(s) \in Nat
            BY <4>1, <4>2, <4>4
          <5>2. i - 1 \in DOMAIN Tail(s) /\ Tail(s)[i - 1] = s[i]
            <6> HIDE DEF s
            <6> QED
              BY <5>1
          <5> QED
            BY <4>1, <4>2, <5>2 DEF OnStack
        <4> QED
          BY <4>3, <4>4
      <3> QED
        BY <1>5, <1>6, <3>1, <3>2, <3>3 DEF Kept, Gone
    <2> QED
      BY <2>2, <2>3, <2>4, <2>5, <2>6, <2>7, <2>8 DEF Destroy
  <1>7. ASSUME heirs' = {}, done'["executor"] >= 3
        PROVE \A w \in Workers : at'[w] = "ended"
    <2>1. CASE done["executor"] >= 3
      BY <1>2, <1>5, <1>7, <2>1 DEF OnMain
    <2>2. CASE ~(done["executor"] >= 3)
      <3>0. "executor" \in Components /\ done["executor"] \in Nat
        BY Operations DEF OwnedOK
      <3>1. ASSUME NEW k, NEW a, Doing(t, k, a)
            PROVE k = "join" /\ a = "workers"
        <4>1. /\ done'["executor"] = done["executor"] + 1
              /\ Destructor["executor"][done["executor"] + 1] = <<k, a>>
          BY <1>7, <2>2, <3>0, <3>1, DoingStep
        <4>2. done["executor"] + 1 = 3
          BY <1>7, <2>2, <3>0, <4>1
        <4>3. Destructor["executor"][3] = <<"join", "workers">>
          BY DEF Destructor, CExecutor
        <4> QED
          BY <4>1, <4>2, <4>3
      <3>2. WorkersJoined(t)
        BY <3>1, <1>7, <2>2
           DEF Destroy, StopCyclic, InterruptListener, CancelLoop, StopExecution,
               Wait, DropMember, Return
      <3>3. DOMAIN Pool = 1..Len(Pool) /\ \A i \in 1..Len(Pool) : Pool[i] # "main"
        BY TeardownAssumption
      <3>4. \A i \in 1..Len(Pool) : at[Pool[i]] = "ended"
        BY <1>5, <1>7, <3>2, <3>3 DEF WorkersJoined
      <3> QED
        BY <1>2, <3>3, <3>4 DEF Workers, ToSet
    <2> QED
      BY <2>1, <2>2
  <1> QED
    BY <1>1, <1>4, <1>6, <1>7 DEF OnMain

\* The manager holds all of them at first.
LEMMA InitOnMain == Init => OnMain
  <1> SUFFICES ASSUME Init PROVE OnMain
    OBVIOUS
  <1>1. ASSUME NEW c \in Components PROVE Owners(c) # {}
    <2>1. PICK i \in DOMAIN ByName : ByName[i] = c
      BY DEF Components, ToSet
    <2>2. DOMAIN ByName = 1..5
      BY DEF ByName
    <2> QED
      BY <2>1, <2>2, Operations DEF Init, Owners
  <1>2. done["executor"] = 0
    BY Operations DEF Init
  <1> QED
    BY <1>1, <1>2 DEF Init, OnMain, Kept, Threads

\* What executes no operation and moves no pointer leaves the rest as it is.
LEMMA OnMainQuietly ==
  ASSUME OnMain, phase = "closing", UNCHANGED <<phase, done, stack, registry, heirs>>,
         Lst!OwnsHolder => Lst!OwnsHolder',
         \A w \in Workers : at[w] = "conn_drop" => at'[w] = "conn_drop",
         \A w \in Workers : at[w] = "ended" => at'[w] = "ended"
  PROVE  OnMain'
  <1>1. heirs' = {} => Kept'
    BY KeptQuietly DEF OnMain
  <1> QED
    BY <1>1 DEF OnMain

\* Every step keeps the destructors together.
LEMMA NextOnMain == TypeOK /\ HasEvent /\ Stages /\ OnMain /\ [Next]_vars => OnMain'
  <1> SUFFICES ASSUME TypeOK, HasEvent, Stages, OnMain, [Next]_vars PROVE OnMain'
    OBVIOUS
  <1>1. OwnedOK /\ PoolOK
    BY TypeParts DEF Typed
  <1>2. CASE MainThread
    <2>1. CASE Unregister
      <3>1. stack["main"] = <<>> /\ phase' = phase /\ at' = at /\ done' = done
        BY <2>1 DEF Unregister, pool
      <3>2. PICK n : Drop("main", ByName[n], "registry")
        BY <2>1 DEF Unregister
      <3>3. /\ heirs' = heirs
            /\ \A u \in Threads \ {"main"} : stack'[u] = stack[u]
        BY <1>1, <3>2 DEF Drop, OwnedOK
      <3>4. heirs' = {} => Kept'
        BY <1>1, <2>1, <3>3, KeptRegistry DEF OnMain
      <3>5. phase' = "closing"
        BY <1>2, <3>1 DEF MainThread
      <3> QED
        BY <3>1, <3>3, <3>4, <3>5 DEF OnMain
    <2>2. CASE Unload
      <3>1. /\ registry = 0 /\ stack["main"] = <<>>
            /\ UNCHANGED <<done, stack, registry, heirs, at, place>>
        BY <2>2 DEF Unload, owned, pool, events
      <3>2. heirs' = {} => Kept'
        BY <3>1, KeptQuietly DEF OnMain, Lst!OwnsHolder
      <3> QED
        BY <3>1, <3>2 DEF OnMain
    <2> QED
      BY <1>1, <1>2, <2>1, <2>2, DestroyOnMain DEF MainThread, Threads
  <1>3. ASSUME NEW w \in Workers, Worker(w) PROVE OnMain'
    <2>0. phase = "closing" /\ w \in Threads /\ w # "main"
      BY <1>3, TeardownAssumption DEF Worker, Threads
    \* A worker that moves on was neither at its pointer nor at its end.
    <2>1. ASSUME UNCHANGED <<phase, done, stack, registry, heirs, place>>,
                 NEW from \in Places \ {"conn_drop", "ended"}, NEW to, Step(w, from, to)
          PROVE  OnMain'
      BY <1>1, <2>0, <2>1, OnMainQuietly DEF Step, PoolOK, Lst!OwnsHolder
    <2>2. ASSUME NEW f, Post(w, f) \/ RunFunction(w, f) PROVE OnMain'
      BY <2>1, <2>2 DEF Post, RunFunction, owned, events, Places
    <2>3. CASE ConnDrop(w)
      <3>1. /\ at[w] = "conn_drop" /\ at' = [at EXCEPT ![w] = "conn_next"]
            /\ Drop(w, "mqttconn", w) /\ phase' = phase /\ registry' = registry
            /\ done' = done /\ place' = place /\ stack[w] = <<>>
        BY <2>3 DEF ConnDrop, Step, events
      <3>2. \A u \in Threads \ {"main"} : stack'[u] # <<>> => u \in heirs'
        BY <1>1, <2>0, <3>1 DEF OnMain, Drop, OwnedOK
      <3>3. ASSUME heirs' = {} PROVE Kept' /\ heirs = {}
        <4>1. heirs = {} /\ Kept
          BY <3>1, <3>3 DEF Drop, OnMain
        <4>2. "mqttconn" \in Components /\ w \in Owners("mqttconn")
          BY <3>1, Operations DEF Owners
        <4>3. ASSUME NEW c \in Components, NEW o \in Owners(c), c # "mqttconn" \/ o # w
              PROVE  o \in Owners(c)'
          <5>1. c = "mqttconn" /\ o \in Workers /\ at[o] = "conn_drop"
                   => at'[o] = "conn_drop"
            BY <1>1, <3>1, <4>3 DEF PoolOK
          <5> QED
            BY <3>1, <5>1, OwnerStays DEF Before, Lst!OwnsHolder
        <4>4. \A c \in Components : c # "mqttconn" /\ Owners(c) # {} => Owners(c)' # {}
          BY <4>3
        <4> QED
          BY <1>1, <2>0, <3>1, <3>3, <4>1, <4>2, <4>3, <4>4, KeptDropping DEF Gone
      <3>4. \A v \in Workers : at[v] = "ended" => at'[v] = "ended"
        BY <1>1, <3>1 DEF PoolOK
      <3> QED
        BY <2>0, <3>1, <3>2, <3>3, <3>4 DEF OnMain
    <2>4. ASSUME Quiet, EndWorker(w) \/ DevicePrint(w) \/ EndPass(w) \/ ConnLock(w)
                        \/ ConnFind(w) \/ ConnUnlock(w)
          PROVE  OnMain'
      BY <2>1, <2>4
         DEF Quiet, owned, events, EndWorker, DevicePrint, EndPass, ConnLock,
             ConnFind, ConnUnlock, Places
    <2> QED
      BY <1>1, <1>3, <2>0, <2>2, <2>3, <2>4, DestroyOnMain DEF Worker
  <1>4. CASE Packet
    <2>1. CASE on_message
      BY <1>4, <2>1, OnMainQuietly
         DEF Packet, on_message, owned, pool, Lst!sendEvent, Lst!OwnsHolder
    <2>2. ASSUME NEW cb, Callback(cb) PROVE OnMain'
      BY <1>4, <2>2, OnMainQuietly DEF Packet, Callback, owned, pool, events, Lst!OwnsHolder
    <2> QED
      BY <1>4, <2>1, <2>2 DEF Packet
  <1>5. CASE Mosquitto
    <2>1. place' = place /\ UNCHANGED <<phase, owned, pool>> /\ phase = "closing"
      BY <1>5 DEF Mosquitto, EndPrint, Cancelled, Lst!sendEvent, events
    <2> QED
      BY <2>1, OnMainQuietly DEF owned, pool, Lst!OwnsHolder
  <1>6. CASE Listener
    <2>1. CASE Take \/ Process
      <3>1. UNCHANGED <<phase, owned, pool>> /\ phase = "closing"
        BY <1>6, <2>1 DEF Listener, Take, Process
      <3>2. Lst!OwnsHolder => Lst!OwnsHolder'
        BY <2>1 DEF Take, Process, Lst!LockHolder, Lst!consumeEvent, Lst!BeginProcess,
                    Lst!OwnsHolder
      <3> QED
        BY <3>1, <3>2, OnMainQuietly DEF owned, pool
    <2>2. CASE Release
      <3>1. /\ Drop("listener", "mqttconn", "listener") /\ Lst!OwnsHolder
            /\ phase' = phase /\ registry' = registry /\ done' = done /\ at' = at
            /\ phase = "closing" /\ "listener" \in Threads
        BY <1>6, <2>2 DEF Listener, Release, pool, Lst!ConsumeNothing, Lst!EndProcess,
                          Lst!OwnsHolder, Threads
      <3>2. \A u \in Threads \ {"main"} : stack'[u] # <<>> => u \in heirs'
        BY <1>1, <3>1 DEF OnMain, Drop, OwnedOK
      <3>3. ASSUME heirs' = {} PROVE Kept' /\ heirs = {}
        <4>1. heirs = {} /\ Kept
          BY <3>1, <3>3 DEF Drop, OnMain
        <4>2. "mqttconn" \in Components /\ "listener" \in Owners("mqttconn")
          BY <3>1, Operations DEF Owners
        <4>3. ASSUME NEW c \in Components, NEW o \in Owners(c),
                     c # "mqttconn" \/ o # "listener"
              PROVE  o \in Owners(c)'
          BY <3>1, <4>3, OwnerStays DEF Before
        <4>4. \A c \in Components : c # "mqttconn" /\ Owners(c) # {} => Owners(c)' # {}
          BY <4>3
        <4> QED
          BY <1>1, <3>1, <3>3, <4>1, <4>2, <4>3, <4>4, KeptDropping DEF Gone
      <3> QED
        BY <3>1, <3>2, <3>3 DEF OnMain
    <2> QED
      BY <1>6, <2>1, <2>2 DEF Listener
  <1>7. CASE Crash
    <2>1. /\ phase' = "crashed" /\ UNCHANGED <<done, stack, registry, heirs, at, place>>
      BY <1>7 DEF Crash, owned, pool, events
    <2>2. heirs' = {} => Kept'
      BY <2>1, KeptQuietly DEF OnMain, Lst!OwnsHolder
    <2> QED
      BY <2>1, <2>2 DEF OnMain
  <1>8. CASE UNCHANGED vars
    <2>1. UNCHANGED <<phase, done, stack, registry, heirs, at, place>>
      BY <1>8 DEF vars
    <2>2. heirs' = {} => Kept'
      BY <2>1, KeptQuietly DEF OnMain, Lst!OwnsHolder
    <2> QED
      BY <2>1, <2>2 DEF OnMain
  <1> QED
    BY <1>2, <1>3, <1>4, <1>5, <1>6, <1>7, <1>8 DEF Next

\* Who depends on whom.
LEMMA DependsOn ==
  \A o \in Components :
    /\ "bridge" \notin Depends[o]
    /\ "mqttconn" \in Depends[o] => o = "bridge"
    /\ "connman" \in Depends[o] => o = "mqttconn"
    /\ "executor" \in Depends[o] => o \in {"bridge", "connman"}
    /\ "final_haven" \in Depends[o] =>
          o \in {"bridge", "mqttconn", "connman", "executor"}
  <1>1. /\ Depends["bridge"] = {"mqttconn", "executor", "final_haven"}
        /\ Depends["mqttconn"] = {"connman", "final_haven"}
        /\ Depends["connman"] = {"final_haven", "executor"}
        /\ Depends["executor"] = {"final_haven"}
        /\ Depends["final_haven"] = {}
    BY DEF Depends
  <1> QED
    BY <1>1, Operations, ZenonT(60)

\* A destructor that is over has dropped what its component held.
LEMMA GoneOwnsNothing ==
  ASSUME OwnedOK, NEW o \in Components, Gone(o), NEW op
  PROVE  ~Before(o, op)
  <1>1. done[o] = Len(Destructor[o]) /\ Len(Destructor[o]) \in Nat
    BY Operations DEF Gone
  <1>2. done[o] + 1 .. Len(Destructor[o]) = {}
    BY <1>1
  <1> QED
    BY <1>2 DEF Before

\* The end is quiet: unless a worker inherited the connection, each component
\* goes once what owned it has gone, and each destructor joins its thread.
THEOREM EndIsQuiet == Spec => []QuietEnd
  <1>1. Spec => []OnMain
    <2>1. TeardownInv /\ OnMain /\ [Next]_vars => OnMain'
      BY NextOnMain DEF TeardownInv
    <2> QED
      BY <2>1, InitOnMain, Invariance, PTL DEF Spec
  <1>2. TeardownInv /\ OnMain => QuietEnd
    <2> SUFFICES ASSUME TeardownInv, OnMain, phase = "ended", ~Inherited
                 PROVE  /\ \A c \in Components : Gone(c)
                        /\ \A w \in Workers : at[w] = "ended"
                        /\ place = "done"
                        /\ loop = "ended"
      BY DEF QuietEnd
    <2>1. OwnedOK /\ Stages
      BY TypeParts DEF TeardownInv, Typed
    <2>2. /\ heirs = {} /\ registry = 0 /\ stack["main"] = <<>>
          /\ Owners("mqttconn") \subseteq Workers => Owners("mqttconn") = {}
      BY DEF Inherited, OnMain
    <2>3. ASSUME NEW c \in Components, Owners(c) = {} PROVE Gone(c)
      BY <2>2, <2>3 DEF OnMain, Kept, OnStack
    <2>4. ASSUME NEW c \in Components, c # "mqttconn",
                 \A o \in Components : c \in Depends[o] => Gone(o)
          PROVE  Gone(c)
      <3>1. \A o \in Components : ~(c \in Depends[o] /\ Before(o, <<"drop", c>>))
        BY <2>1, <2>4, GoneOwnsNothing
      <3>2. ~(\E i \in 1..registry : ByName[i] = c)
        BY <2>2
      <3>3. Owners(c) = {}
        BY <2>4, <3>1, <3>2 DEF Owners
      <3> QED
        BY <2>3, <3>3
    <2>5. Gone("bridge")
      BY <2>4, DependsOn, Operations
    <2>6. place = "done"
      BY <2>1, <2>5, Operations DEF Gone, Stages
    <2>7. Gone("mqttconn")
      <3>1. \A o \in Components :
               ~("mqttconn" \in Depends[o] /\ Before(o, <<"drop", "mqttconn">>))
        BY <2>1, <2>5, DependsOn, GoneOwnsNothing
      <3>2. ~(\E i \in 1..registry : ByName[i] = "mqttconn") /\ ~Lst!OwnsHolder
        BY <2>2, <2>6 DEF Lst!OwnsHolder
      <3>3. Owners("mqttconn") \subseteq Workers
        BY <3>1, <3>2 DEF Owners
      <3> QED
        BY <2>2, <2>3, <3>3, Operations
    <2>8. Gone("connman")
      BY <2>4, <2>5, <2>7, DependsOn, Operations
    <2>9. Gone("executor")
      BY <2>4, <2>5, <2>7, <2>8, DependsOn, Operations
    <2>10. Gone("final_haven")
      BY <2>4, <2>5, <2>7, <2>8, <2>9, DependsOn, Operations
    <2>11. done["executor"] = 5
      BY <2>9 DEF Gone, Destructor, CExecutor
    <2>12. done["mqttconn"] = 8
      BY <2>7, Operations DEF Gone
    <2> QED
      BY <2>1, <2>2, <2>5, <2>6, <2>7, <2>8, <2>9, <2>10, <2>11, <2>12, Operations
         DEF OnMain, Stages
  <1> QED
    BY <1>1, <1>2, Invariance, PTL
=============================================================================
