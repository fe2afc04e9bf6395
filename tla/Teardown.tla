------------------------------ MODULE Teardown ------------------------------
(***************************************************************************)
(* The end of the program: CLauncher's loop is left, the component manager *)
(* gives up its registry, and the components go as their reference counts  *)
(* fall, while the other threads still run: mosquitto's loop, the bridge's *)
(* listener and the executor's workers.                                    *)
(*                                                                         *)
(* A destructor is a list of operations, its body and then the ends of its *)
(* members in reverse order of declaration. Whoever drops the last shared  *)
(* pointer to a component executes its destructor there and then.          *)
(***************************************************************************)
EXTENDS Integers, Sequences, SequencesExt

CONSTANTS
    Pool,        \* the executor's worker threads, in order of creation
    NoEvent, Nobody, DebugLevels,
    MaxEvents    \* bound: events waiting for the listener

Workers == ToSet(Pool)
Threads == Workers \union {"main", "listener", "mosquitto"}
Events == {"online", "update"}

ASSUME TeardownAssumption ==
    /\ Pool \in Seq(Workers)
    /\ IsInjective(Pool)
    /\ Workers \intersect {"main", "listener", "mosquitto"} = {}
    /\ MaxEvents \in Nat
    /\ DebugLevels \subseteq Int
    /\ Nobody \notin Threads
    /\ NoEvent \notin Events

VARIABLES
    phase,          \* "closing", "ended" or "crashed"
    registry,       \* how many of the components the manager still holds
    done,           \* how many operations of each destructor are executed
    stack,          \* the destructors each thread is in, the innermost first
    at,             \* where each worker is
    m_cycle_items,  \* CExecutor's table of cyclic functions
    queued,         \* the cyclic functions in the io_service's queue
    stopped,        \* io_service::stop has been called
    loop, callback, \* where mosquitto's thread is, and in which callback
    cancelled,      \* pthread_cancel has been called on it
    optv, cs_mutex,                   \* of Logger
    m_queue, m_interrupted, place, ev, \* of EventListener
    heirs           \* history: workers that ever executed a destructor

Log == INSTANCE Logger
Lst == INSTANCE EventListener

owned == <<registry, done, stack, heirs>>
pool == <<at, m_cycle_items, queued, stopped>>
client == <<loop, callback, cancelled>>
logs == <<optv, cs_mutex>>
events == <<m_queue, m_interrupted, place, ev>>
vars == <<phase, registry, done, stack, at, m_cycle_items, queued, stopped,
          loop, callback, cancelled, optv, cs_mutex, m_queue, m_interrupted,
          place, ev, heirs>>

-----------------------------------------------------------------------------
(* The components and their destructors.                                     *)

\* By name, as m_registered_components keeps them.
ByName == <<"bridge", "connman", "executor", "final_haven", "mqttconn">>
Components == ToSet(ByName)

\* The strong pointers each keeps to others.
Depends == [bridge |-> {"mqttconn", "executor", "final_haven"},
            mqttconn |-> {"connman", "final_haven"},
            connman |-> {"final_haven", "executor"},
            executor |-> {"final_haven"},
            final_haven |-> {}]

Members == {"m_device_items", "m_topics_list", "m_event_loop",
            "m_connectable_items", "m_err_queue"}

\* The destructors, each with what its class declares last ended first.
CWirelessBridge == <<
    <<"stop_cyclic", "processDeviceList">>, <<"end", "m_device_items">>,
    <<"interrupt", "listener">>, <<"join", "listener">>,
    <<"drop", "mqttconn">>, <<"drop", "executor">>, <<"drop", "final_haven">> >>

CMqttConnection == <<
    <<"cancel", "mosquitto">>, <<"join", "mosquitto">>,
    <<"print", "printDebug">>, <<"end", "m_topics_list">>,
    <<"drop", "connman">>, <<"drop", "final_haven">>,
    <<"print", "printDebug">>, <<"end", "m_event_loop">> >>

CConnMan == <<
    <<"stop_cyclic", "connectionHandler">>, <<"end", "m_connectable_items">>,
    <<"drop", "executor">>, <<"drop", "final_haven">> >>

CExecutor == <<
    <<"clear", "m_cycle_items">>, <<"stop", "io_service">>,
    <<"join", "workers">>, <<"print", "printDebug">>,
    <<"drop", "final_haven">> >>

CFinalHaven == << <<"print", "printDebug">>, <<"end", "m_err_queue">> >>

Destructor == [bridge |-> CWirelessBridge, mqttconn |-> CMqttConnection,
               connman |-> CConnMan, executor |-> CExecutor,
               final_haven |-> CFinalHaven]

\* Component c has operation op of its destructor still before it.
Before(c, op) ==
    \E i \in done[c] + 1 .. Len(Destructor[c]) : Destructor[c][i] = op

Alive(c, member) == Before(c, <<"end", member>>)
Gone(c) == done[c] = Len(Destructor[c])

\* Who holds a shared pointer to d. The listener and connectionHandler hold one
\* to the client for a while.
Owners(d) ==
    {c \in Components : d \in Depends[c] /\ Before(c, <<"drop", d>>)}
    \union (IF \E i \in 1..registry : ByName[i] = d THEN {"registry"} ELSE {})
    \union (IF d = "mqttconn" /\ Lst!OwnsHolder THEN {"listener"} ELSE {})
    \union {w \in Workers :
               d = "mqttconn" /\ at[w] = "conn_drop"}

\* Thread t drops the pointer to d that `owner' held.
Drop(t, d, owner) ==
    IF Owners(d) = {owner}
    THEN /\ stack' = [stack EXCEPT ![t] = <<d>> \o @]
         /\ heirs' = heirs \union ({t} \ {"main"})
    ELSE UNCHANGED <<stack, heirs>>

-----------------------------------------------------------------------------
\* The launcher has left its loop and its block; everything is running. The
\* main thread may take its time, so the others may be anywhere by then.
Init ==
    /\ phase = "closing"
    /\ registry = Len(ByName)
    /\ done = [c \in Components |-> 0]
    /\ stack = [t \in Threads |-> <<>>]
    /\ heirs = {}
    /\ at = [w \in Workers |-> "idle"]
    /\ m_cycle_items = {"processDeviceList", "connectionHandler"}
    /\ queued = {}
    /\ stopped = FALSE
    /\ loop = "select"
    /\ callback = "none"
    /\ cancelled = FALSE
    /\ Log!Init
    /\ Lst!Init

-----------------------------------------------------------------------------
(* The operations of a destructor, on the thread t that executes it.         *)

Doing(t, kind, arg) ==
    /\ stack[t] # <<>>
    /\ LET c == Head(stack[t])
       IN  /\ ~Gone(c)
           /\ Destructor[c][done[c] + 1] = <<kind, arg>>
           /\ done' = [done EXCEPT ![c] = @ + 1]

\* Mutant of StopCyclic: the function stays in the table.
StopCyclic_Kept(t, f) ==
    /\ Doing(t, "stop_cyclic", f)
    /\ Log!Printed("printDebug")
    /\ UNCHANGED <<phase, registry, stack, heirs, pool, client, events>>

\* stop_cyclic, and then the destructor's own line for the log.
StopCyclic(t, f) ==
    /\ Doing(t, "stop_cyclic", f)
    /\ m_cycle_items' = m_cycle_items \ {f}
    /\ Log!Printed("printDebug")
    /\ UNCHANGED <<phase, registry, stack, heirs, at, queued, stopped, client,
                   events>>

InterruptListener(t) ==
    /\ Doing(t, "interrupt", "listener")
    /\ Lst!Interrupt
    /\ UNCHANGED <<phase, registry, stack, heirs, pool, client, logs>>

\* loop_stop(true) cancels mosquitto's thread before it joins it.
CancelLoop(t) ==
    /\ Doing(t, "cancel", "mosquitto")
    /\ cancelled' = TRUE
    /\ UNCHANGED <<phase, registry, stack, heirs, pool, loop, callback, logs,
                   events>>

\* stopExecution: the timers are cancelled, the table is cleared, and the
\* io_service is stopped.
StopExecution(t) ==
    /\ \/ /\ Doing(t, "clear", "m_cycle_items")
          /\ m_cycle_items' = {}
          /\ UNCHANGED stopped
       \/ /\ Doing(t, "stop", "io_service")
          /\ stopped' = TRUE
          /\ UNCHANGED m_cycle_items
    /\ UNCHANGED <<phase, registry, stack, heirs, at, queued, client, logs,
                   events>>

\* Mutant of ListenerJoined: the thread is detached.
ListenerJoined_Detached == TRUE

\* m_event_thread is a scoped_thread<>: its end joins.
ListenerJoined == place = "done"

\* Mutant of LoopJoined: loop_stop only cancels.
LoopJoined_Detached == TRUE

LoopJoined == loop = "ended"

\* Mutant of WorkersJoined: the first worker only.
WorkersJoined_First(t) == t \in Workers \/ at[Pool[1]] = "ended"

\* join_all waits for one worker after the other. When it comes to the very
\* thread it runs on join throws, ~CExecutor catches that, and goes on.
WorkersJoined(t) ==
    \A i \in 1..Len(Pool) :
        (\A j \in 1..i : Pool[j] # t) => at[Pool[i]] = "ended"

\* What changes nothing but its own place in the destructor.
Wait(t) ==
    /\ \/ \E f \in Log!Functions : Doing(t, "print", f) /\ Log!Printed(f)
       \/ /\ \/ \E m \in Members : Doing(t, "end", m)
             \/ Doing(t, "join", "listener") /\ ListenerJoined
             \/ Doing(t, "join", "mosquitto") /\ LoopJoined
             \/ Doing(t, "join", "workers") /\ WorkersJoined(t)
          /\ UNCHANGED logs
    /\ UNCHANGED <<phase, registry, stack, heirs, pool, client, events>>

DropMember(t, d) ==
    /\ Doing(t, "drop", d)
    /\ Drop(t, d, Head(stack[t]))
    /\ UNCHANGED <<phase, registry, pool, client, logs, events>>

Return(t) ==
    /\ stack[t] # <<>>
    /\ Gone(Head(stack[t]))
    /\ stack' = [stack EXCEPT ![t] = Tail(@)]
    /\ UNCHANGED <<phase, registry, done, heirs, pool, client, logs, events>>

-----------------------------------------------------------------------------
(* The executor's workers. One that executes a destructor does nothing else  *)
(* meanwhile.                                                                *)

Places == {"idle", "ended", "device_print", "device_loop", "conn_print",
           "conn_find", "conn_drop", "conn_next"}

Start == [processDeviceList |-> "device_print", connectionHandler |-> "conn_print"]

\* Most steps of a worker change nothing but its place.
Quiet == UNCHANGED <<phase, owned, m_cycle_items, queued, stopped, client,
                     events>>

Step(w, from, to) ==
    /\ stack[w] = <<>>
    /\ at[w] = from
    /\ at' = [at EXCEPT ![w] = to]

\* A timer's handler finds its function in the table and posts it, under
\* m_cycle_mutex. The bound: a function is in the queue once.
Post(w, f) ==
    /\ ~stopped
    /\ f \in m_cycle_items \ queued
    /\ Step(w, "idle", "idle")
    /\ Log!Printed("printDebug")
    /\ queued' = queued \union {f}
    /\ UNCHANGED <<phase, owned, m_cycle_items, stopped, client, events>>

RunFunction(w, f) ==
    /\ ~stopped
    /\ f \in queued
    /\ Step(w, "idle", Start[f])
    /\ queued' = queued \ {f}
    /\ UNCHANGED <<phase, owned, m_cycle_items, stopped, client, logs, events>>

\* run returns: what is still queued is not executed.
EndWorker(w) == stopped /\ Step(w, "idle", "ended") /\ Log!Printed("printDebug")

\* processDeviceList: a line for the log, and the loop over the table, in which
\* a device may be announced by printWarning and by setTopic, with its printDebug.
DevicePrint(w) == Step(w, "device_print", "device_loop") /\ Log!Printed("printDebug")
EndPass(w) ==
    /\ Step(w, "device_loop", "idle")
    /\ \/ UNCHANGED logs
       \/ Log!Printed("printWarning") /\ Log!Printed("printDebug")

\* connectionHandler: under m_connection_mutex the client's weak pointer is
\* locked; a client that is gone is passed over, another may be connected.
ConnLock(w) ==
    /\ \A v \in Workers : at[v] \notin {"conn_find", "conn_drop", "conn_next"}
    /\ Step(w, "conn_print", "conn_find")
    /\ Log!Printed("printDebug")

ConnFind(w) ==
    /\ Step(w, "conn_find",
            IF Owners("mqttconn") = {} THEN "conn_next" ELSE "conn_drop")
    /\ UNCHANGED logs \/ Log!Printed("printDebug")

\* conn_ptr goes out of scope, still under the mutex.
ConnDrop(w) ==
    /\ Step(w, "conn_drop", "conn_next")
    /\ Drop(w, "mqttconn", w)
    /\ UNCHANGED <<phase, registry, done, m_cycle_items, queued, stopped,
                   client, logs, events>>

ConnUnlock(w) == Step(w, "conn_next", "idle") /\ UNCHANGED logs

-----------------------------------------------------------------------------
(* mosquitto's thread: it waits in select, calls back, and ends where a      *)
(* cancelled thread may: in select, or in a write.                           *)

\* The callbacks that print first, and what with. on_error stands also for
\* on_connect with an error: a warning, and no event for the bridge.
Printer == [on_connect |-> "printDebug", on_disconnect |-> "printWarning",
            on_error |-> "printWarning"]

CallsBack == loop = "select" /\ ~cancelled /\ Len(m_queue) < MaxEvents

on_message ==
    /\ CallsBack
    /\ Lst!sendEvent("update")
    /\ UNCHANGED <<phase, owned, pool, client, logs>>

Callback(cb) ==
    /\ CallsBack
    /\ Log!Lock("mosquitto", Printer[cb])
    /\ loop' = "write"
    /\ callback' = cb
    /\ UNCHANGED <<phase, owned, pool, cancelled, events>>

\* The rest of the callback: an event from those that tell the bridge.
EndPrint ==
    /\ loop = "write"
    /\ Log!Unlock("mosquitto", Printer[callback])
    /\ IF callback \in {"on_connect", "on_disconnect"}
       THEN Lst!sendEvent("online")
       ELSE UNCHANGED events
    /\ loop' = "select"
    /\ callback' = "none"
    /\ UNCHANGED <<phase, owned, pool, cancelled>>

\* What the thread has locked stays locked.
Cancelled ==
    /\ cancelled
    /\ loop = "select" \/ (loop = "write" /\ Log!Writes(Printer[callback]))
    /\ loop' = "ended"
    /\ callback' = "none"
    /\ UNCHANGED <<phase, owned, pool, cancelled, logs, events>>

-----------------------------------------------------------------------------
(* The bridge's listener thread.                                             *)

Take ==
    /\ Lst!LockHolder(Owners("mqttconn") # {}) \/ Lst!consumeEvent
    /\ UNCHANGED <<phase, owned, pool, client, logs>>

\* mqttEventProcessFunc begins with a line for the log.
Process ==
    /\ Lst!BeginProcess
    /\ Log!Printed("printDebug")
    /\ UNCHANGED <<phase, owned, pool, client>>

\* Both ways out of the block that owns the holder.
Release ==
    /\ Lst!ConsumeNothing \/ Lst!EndProcess
    /\ Drop("listener", "mqttconn", "listener")
    /\ UNCHANGED <<phase, registry, done, pool, client, logs>>

-----------------------------------------------------------------------------
(* The main thread.                                                          *)

\* ~CComponentManager. The map gives up its pointers from the last name to the
\* first, up to one that nobody else holds; the others' going changes nothing.
Unregister ==
    /\ stack["main"] = <<>>
    /\ \E n \in 1..registry :
          /\ Owners(ByName[n]) = {"registry"}
          /\ \A i \in n+1 .. registry : Owners(ByName[i]) # {"registry"}
          /\ registry' = n - 1
          /\ Drop("main", ByName[n], "registry")
    /\ UNCHANGED <<phase, done, pool, client, logs, events>>

\* The loader's libraries are closed, and main returns.
Unload ==
    /\ registry = 0
    /\ stack["main"] = <<>>
    /\ phase' = "ended"
    /\ UNCHANGED <<owned, pool, client, logs, events>>

-----------------------------------------------------------------------------
\* A thread is at a member of a component whose end has passed. What comes of
\* it nobody can say: it may go unnoticed, or crash.
Stray ==
    \/ /\ ~Alive("bridge", "m_device_items")
       /\ \/ place = "process" /\ ev = "update"
          \/ \E w \in Workers : at[w] = "device_loop"
    \/ /\ ~Alive("connman", "m_connectable_items")
       /\ \E w \in Workers : at[w] \in {"conn_find", "conn_next"}

Crash ==
    /\ phase = "closing"
    /\ Stray
    /\ phase' = "crashed"
    /\ UNCHANGED <<owned, pool, client, logs, events>>

Destroy(t) ==
    \/ \E f \in DOMAIN Start : StopCyclic(t, f)
    \/ InterruptListener(t)
    \/ CancelLoop(t)
    \/ StopExecution(t)
    \/ Wait(t)
    \/ \E d \in Components : DropMember(t, d)
    \/ Return(t)

MainThread == phase = "closing" /\ (Destroy("main") \/ Unregister \/ Unload)

Worker(w) ==
    /\ phase = "closing"
    /\ \/ Destroy(w)
       \/ \E f \in DOMAIN Start : Post(w, f) \/ RunFunction(w, f)
       \/ ConnDrop(w)
       \/ /\ \/ EndWorker(w)
             \/ DevicePrint(w) \/ EndPass(w)
             \/ ConnLock(w) \/ ConnFind(w) \/ ConnUnlock(w)
          /\ Quiet

Packet == phase = "closing" /\ (on_message \/ \E cb \in DOMAIN Printer : Callback(cb))
Mosquitto == phase = "closing" /\ (EndPrint \/ Cancelled)
Listener == phase = "closing" /\ (Take \/ Process \/ Release)

Next ==
    \/ MainThread
    \/ \E w \in Workers : Worker(w)
    \/ Packet
    \/ Mosquitto
    \/ Listener
    \/ Crash

Spec == Init /\ [][Next]_vars

\* Threads run; one that wants a mutex of the log gets it if it is free again
\* and again.
Fairness ==
    /\ SF_vars(MainThread)
    /\ SF_vars(Listener)
    /\ WF_vars(Mosquitto)
    /\ \A w \in Workers : SF_vars(Worker(w))

FairSpec == Spec /\ Fairness

-----------------------------------------------------------------------------
(* Properties.                                                               *)

\* The types of the variables.
TypeOK ==
    /\ phase \in {"closing", "ended", "crashed"}
    /\ registry \in 0..Len(ByName)
    /\ done \in [Components -> Nat]
    /\ \A c \in Components : done[c] <= Len(Destructor[c])
    /\ stack \in [Threads -> Seq(Components)]
    /\ at \in [Workers -> Places]
    /\ m_cycle_items \union queued \subseteq DOMAIN Start
    /\ stopped \in BOOLEAN
    /\ loop \in {"select", "write", "ended"}
    /\ callback \in DOMAIN Printer \union {"none"}
    /\ cancelled \in BOOLEAN
    /\ heirs \subseteq Threads \ {"main"}
    /\ Log!TypeOK
    /\ Lst!TypeOK

\* The listener owns the connection only for moments, and never is the one to
\* end it: ~CWirelessBridge has joined it before it lets the connection go. An
\* event may be processed late, but never on a connection without an owner.
ListenerEndsFirst ==
    /\ stack["listener"] = <<>>
    /\ Owners("mqttconn") = {} => place = "done"

\* stopExecution walks m_cycle_items with no lock. It finds it empty: whoever
\* put a function there has stopped it before it let the executor go.
EmptyWhenWalked == Owners("executor") = {} => m_cycle_items = {}

\* mosquitto's thread, which has a plain pointer to the connection, is over
\* before the topics and the event loop that its callbacks use go.
CallbacksHaveTheirObject ==
    ~Alive("mqttconn", "m_topics_list") => loop = "ended"

\* A worker became the only owner of the connection, or has ended it.
Inherited ==
    \/ heirs # {}
    \/ Owners("mqttconn") # {} /\ Owners("mqttconn") \subseteq Workers

\* When the libraries are unloaded all components are gone and all threads are
\* out of their code, unless connectionHandler was at the connection just when
\* the bridge let it go: then main ends with the rest still running.
QuietEnd ==
    phase = "ended" /\ ~Inherited =>
        /\ \A c \in Components : Gone(c)
        /\ \A w \in Workers : at[w] = "ended"
        /\ place = "done"
        /\ loop = "ended"

\* The listener handles the events in the order in which the callbacks sent
\* them, each once.
EventsInOrder == Lst!Abstract!Spec

\* The program ends when it is told to, whatever the threads are doing. There
\* are three ways not to: the cancelled thread left a mutex of the log locked; a
\* worker, which cannot join itself, came to execute a destructor; a thread was
\* late and crashed.
LogStuck == loop = "ended" /\ \E f \in Log!Functions : cs_mutex[f] = "mosquitto"

Closes == <>(phase # "closing" \/ heirs # {} \/ LogStuck)
=============================================================================
