# A TLA+ model of WirelessBridge

WirelessBridge connects wireless devices to a home-automation system over
MQTT. A device publishes a comma-separated list of channel values on its input
topic; the bridge republishes each channel on a topic of its own, sends commands
back to the device, and keeps a retained status topic that says `ok` or `error`.
This directory holds TLA+ modules that model the program, TLC configurations that
check them on small instances, and TLAPS proofs of their main properties.
Paths below are relative to the repository root, `src/` being the repository itself.

## The system

The program is a set of components, each a shared library loaded by name from
`src/config/*.json`, wired by typed dependencies, then initialised and started.

| Component | Source | State | Operations | Runs on |
| --- | --- | --- | --- | --- |
| CWirelessBridge | `src/src/bridge/bridge/src/CWirelessBridge.cpp` | `m_device_items`: per device `spent_attempt`, `time_to_attempt` | `startComponent`, `processDeviceList` (1000 ms), `mqttEventProcessFunc` / `processTopicUpdate` | main thread, executor workers, its own listener thread |
| CDeviceConfig | `src/src/bridge/bridge/src/CDeviceConfig.cpp` | the parsed device table, constant | constructor, `getGwtTable`, `getGwtItem` | - |
| CMqttConnection | `src/src/bridge/mqtt/src/CMqttConnection.cpp` | `m_conn_status` (atomic), `m_topics_list` (no lock) | `subscribeTopic`, `setTopic`, `connect`, `on_connect`, `on_message`, `on_disconnect`, `on_error` | callers' threads and mosquitto's loop thread |
| CConnMan | `src/src/system/components/connman/src/CConnMan.cpp` | `m_connectable_items` under `m_connection_mutex` | `subscribe`, `unsubscribe`, `connectionHandler` (100 ms) | executor workers |
| CExecutor | `src/src/system/components/executor/src/CExecutor.cpp` | the io_service queue, `m_cycle_items` | `execute`, `execute_cyclic`, `stop_cyclic`, start and stop | one worker per core |
| CFinalHaven | `src/src/system/components/finalhaven/src/CFinalHaven.cpp` | a `TUniQueue` of error reports, the installed signal handlers | `report`, `waitAction`, `signalHandlerLocal` | every thread, and signal context |
| TUniQueue, BlockingQueue, event loops | `src/src/system/base/common/include/common/TUniQueue.hpp`, `src/src/system/events/include/events/` | a queue with a mutex and a condition variable | `push`, `pop`, `try_pop`, listener loop | producers and one listener thread |
| CLauncher | `src/src/system/launcher/src/CLauncher.cpp` | - | `startApplication` | main thread |
| CComponentManager, CComponentLoader, TDepends | `src/src/system/base/` | the registered components and interfaces | `registerComponent`, `initAndStartComponents`, `resolveDependencies` | main thread |
| loger | `src/src/system/loger/src/slog.cpp` | `optv`; a static mutex in each print function | `setDbgLevel`, `printError`, `printWarning`, `printInfo`, `printDebug` | every thread |
| utils, `WirelessBridge.cpp` | `src/src/system/utils` | - | the clock, option parsing | - |

How they interact:

- The main thread registers the components in the order of the configuration,
  then initialises all of them and starts all of them, in the alphabetical order
  of their names: bridge, connman, executor, final_haven, mqttconn.
- `execute_cyclic` timers post `connectionHandler` and `processDeviceList` to a queue
  that the executor's workers serve; two executions of one function may overlap.
- mosquitto's loop thread calls `on_connect`, `on_message` and `on_disconnect`, which
  set `m_conn_status` and push events; the bridge's listener thread pops them.
- Both the listener thread and the workers update `m_device_items`, and publish
  through `setTopic`, which reads `m_conn_status` and drops what it is given offline.
- `connectionHandler` reads `m_conn_status` through `getState` and calls `connect`.
- Every component reports to CFinalHaven; the launcher waits for its reports and
  leaves on a user-level or critical one. Signals are turned into user-level reports
  inside the signal handler.
- When the launcher leaves, the component manager clears its registry. A component ends when
  the last shared pointer to it goes: on the main thread as a rule, but the listener and
  `connectionHandler` own the connection for moments, and whoever drops the last pointer executes the
  destructors, which stop and join the other threads.
- Every thread prints, and a print function holds its mutex while it writes.

What is hard about it: the device table is updated by two kinds of threads with no
lock; timers may post late, or several periods at once; an MQTT link that changes
state between a check and its use, and that drops what is said while it is down;
retries with a limit; start-up that is correct because of an alphabetical order;
a signal handler that takes a mutex; and shutdown by reference counts, with threads that
are cancelled, joined, or late.

What makes each component correct, in short:

- device supervision: a device is announced as failed once, not early, not too late,
  and its retained status agrees with what the supervision knows;
- topic routing: each channel of a message reaches its own topic, mapped as configured;
- MQTT link: online and quiet, the broker knows every topic; the listener's last
  link event is the truth; events are handled in order;
- connection manager: bounded, spaced attempts, one report per outage;
- final haven and launcher: nothing but a user or critical report ends the program,
  and such a report does;
- executor: one live timer per cyclic function, never early, none after it is stopped;
- event queue and listener: the events are handled in the order they were sent, each once;
- the end: every thread is over before what it uses goes, and main comes to its end;
- component manager: a configuration is launched as a whole or refused, nothing outlives
  what it depends on or the library its code is in, and components start by name.

## The plan

The modules are written in the order of what matters most to the program: first
what its users see of it (the status of a device), then what that rests on.

1. `DeviceWatch`: supervision, with its unlocked table. Done, proved.
2. `ConnMan` with the abstract `RetryPolicy`: reconnection. Done, proved.
3. `FinalHaven` with the abstract `ReportPolicy`: reports, signals, the end. Done, safety proved.
4. `MqttLink`: start-up, session, subscriptions, events. Done, safety proved.
5. `TopicRouter`: a message through the table. Done, proved.
6. `Executor`: timers and workers. Done, safety proved.
7. `ComponentManager`: registration, resolution, start in the order of names, the end. Done,
   safety proved. The order that `MqttLink` takes as given is
   its theorem `StartIsByName`.
8. `EventListener`, implementing the abstract `Fifo`, and `Logger`: the two parts that every
   other thread meets at. Done, proved. `MqttLink` keeps its own sequence `events`, because it asks
   what an event means and not where it is; both are the same queue.
9. `Teardown`: the destructors by reference count against the workers, the listener and
   mosquitto's loop, over `EventListener` and `Logger`. Done, safety proved.
10. `WirelessBridgeSystem`: `DeviceWatch` over `Executor` and `MqttLink`, so that passes
    come from timers and offline comes from sessions instead of from free choices. Not begun.

Every safety invariant and every refinement that a passing run checks is proved. What the plan has
left is the composition (10), and with it the link between modules that take each other's results as given.

## How each module corresponds to the code

A thread's place is a `pc`-like variable whose values are named after the next access to
shared state; steps between two such accesses are merged. A section under a mutex is one
step where nothing inside can be observed or fail, and several where it can. Definitions
ending in `_Something` next to an action are mutants: plausible bugs which the checks
are shown to find. History variables are marked; no action reads them.

**DeviceWatch.** `spent_attempt` and `time_to_attempt` are the fields of `DevServiceBlk`
per device. A worker's pass is `StartPass` (read the clock), then per device
`CheckDeadline`, `CheckAttempts`, and either `LoadCounter`, `StoreMiss`, `Postpone` or
`LoadCounter`, `StoreExhausted`, `Announce`, then `EndPass`: the increments are a load and a
store because there is no lock and the field is not atomic. The listener is `Receive` (the reset),
`ReadClock`, `StoreDeadline`, `PublishOk`, or `ConversionFails` when `std::stoi` throws.
`SetStatus` is `setTopic` on a status topic: it does nothing while `online` is FALSE.
A data race on an aligned 32-bit or 64-bit field is taken to have one of the interleaved outcomes.

**ConnMan, RetryPolicy.** A call of `connectionHandler` is `StartHandler` (the clock, before
the mutex), `Lock`, then per client `Pass`, `ResetAttempts`, `Retry` followed by `Connect` or
`ConnectThrows`, or `Exhausted`, then `EndHandler`. `Retry` and `Connect` are two steps because the
link may change between `getState` and `connect`. Client steps subscribe, subscribe again (reported
as a double insertion), unsubscribe and are released (the weak pointer expires). `call` records each
call of `connect`, those that throw included. `RetryPolicy` is what this promises: bounded tries among the calls
that return, a pause after each of them, one report. A call that throws is its `Throw`: due like any other, but
neither counted nor followed by a pause, since the code sets both after `connect` has returned.

**FinalHaven, ReportPolicy.** A thread is a stack of `push` calls, since a signal handler
runs on top of what it interrupts: `PushLock`, `PushStore`, `PushNotify` advance the topmost.
`Deliver` pushes a frame on any thread, since `sigaction` is for the process and no thread masks
a signal, unless that thread is handling the same signal (`sa_mask` is empty and there is no SA_NODEFER). The popper
stands for both threads of `waitAction`: the outer one only waits, and a signal given to it counts as given to
the main thread, which waits too. `LockedUp` is a thread that waits for a mutex held by a frame below it.
`PopLock`, `PopTake`, `PopWait`, `PopTimeout` are `waitAction`'s `pop` with its timeout, and `TakeAction` is the launcher's switch. `ReportPolicy` is a queue whose first fatal
entry stops the program.

**MqttLink.** `SubscribeTopic` and `StoreTopic` are the two halves of `subscribeTopic` in
`mqttSubscribe`, `StartWorkers` the moment the executor is started, `SeeState` and `Connect` what
`connectionHandler` does. `OnConnect`, `Resubscribe`, `SendOnline`, `OnRefused`, `OnDisconnect`,
`SendOffline`, `OnMessage` are mosquitto's callbacks, one at a time on one thread. `Accept`,
`Refuse`, `Drop`, `Notice`, `TakePacket` belong to mosquitto and the broker and are external.
`Consume` is the listener.

**TopicRouter.** One message through `processTopicUpdate`: `NextDevice`, `MatchInput` or `MatchOther`,
`PublishMapped`, `PublishRaw` or `StoiThrows` per input channel, `StatusOk`, and `SkipOutput`,
`CommandMapped` or `CommandRaw` per output channel. `out` is what was given to `setTopic`. The
properties read the table as a relation instead of running its loops.

**Executor.** `armed`, `handlers` and `runs` are the waits, queued handlers and queued functions of the
io_service. `Expire` queues a handler; so does whatever cancels a wait (`stop_cyclic`, by
dropping the timer; `RunHandler`, by `expires_at`; `CancelTimers` and `ClearItems`).
`RunHandler` posts the function and sets the timer again; `RunFunction` and `EndFunction` are
`WorkerThread`; `StopService` and `Join` end it.

**ComponentManager.** The initial states are the configurations: `entries` is the list of the parser,
`LibOf` its map, which keeps the first entry of a name. The launcher's loop ends per component in `Register`,
`LoadFails`, `ResolveFails` or `CreateThrows`; `InitComponent` and `StartComponent` go through the
registry by `First`, as `std::map` does; `StartDone`, `NoHaven` and `Exit` are what comes after. The
registry is cleared one pointer at a time (`Release`); a component nothing holds any more is
destroyed next (`Destroy`), and `Unload` is the end of `m_loader`, which is declared first and so goes
last. `holds` are the shared pointers that components lock from their dependencies. A dependency met by
two components goes to the first by name, as `resolved.insert` has it.

**Teardown.** `Destructor[c]` lists what the end of component `c` executes: the body of its destructor,
then its members from the last declared to the first, as C++ has it; members whose end does nothing that
another thread could notice are left out. `done[c]` says how far it is, `stack[t]` in which destructors a
thread is. `Owners(d)` is the reference count with names: the components whose pointer is not dropped yet, the
registry, the listener between `LockHolder` and the end of its block, a worker between `ConnFind` and
`ConnDrop`. Whoever drops the last one (`Drop`) gets the destructor on its stack. `Unregister` is
`~CComponentManager`. The operations are `StopCyclic`, `InterruptListener`, `CancelLoop`, `StopExecution`,
`Wait` (a join, a print, the end of a member) and `DropMember`.
Against them run: the workers, from timer (`Post`) to function (`RunFunction`), through `processDeviceList`
(`DevicePrint`, `EndPass`) and `connectionHandler` (`ConnLock` to `ConnUnlock`, under its mutex);
mosquitto's thread (`on_message`, `Callback`, `EndPrint`, `Cancelled`); and the listener. `Crash` is what
may come of a thread that is at a member whose end has passed (`Stray`): a worker whose function was queued
before `stop_cyclic`, the listener with an event between the end of the table and its own.

**EventListener, Fifo.** `sendEvent` is `push`; `LockHolder`, `consumeEvent` or `ConsumeNothing`,
`BeginProcess` and `EndProcess` are a round of `eventLoop`, `Interrupt` the destructor. `Fifo`
promises one event at a time, in order. An event is taken, in its sense, where the listener has handled it.
`Lst` in `Teardown` is an instance of this module.

**Logger.** Each print function is a mutex and a level. `Printed` is the whole call of a thread that nobody
cancels; only mosquitto's thread needs `Lock` and `Unlock` apart, since it may be cancelled in between.

## What the runs show

| Run | Expected | What it asks |
| --- | --- | --- |
| `watch_races` | pass | with two overlapping passes and the listener on one device, an alarm is not early and the status is the truth where nothing overlapped, and one message buys one alarm where no two passes did |
| `watch_timely` | pass | with one pass per period, how late a silent device is shown as failed at most, overlaps included, unless one has muted it |
| `watch_false_alarm` | violation | the log line "all attempt exhausted" is true only without overlap |
| `connman_retry` | pass | the mutex always comes back and the handler implements `RetryPolicy`, calls that throw included |
| `haven_reports` | pass | queue and loop implement `ReportPolicy`; fatal reports and signals, delivered to any thread, end the program unless a signal has interrupted the owner of the mutex, and only that locks it up |
| `haven_signals` | violation | a signal handler may wait for the thread it interrupts, and the program does not end |
| `link_drops` | pass | list not shared, no topic missed, the listener informed, the link settles |
| `router_routed` | pass | what is published is what the table says, commands included |
| `router_skipped` | violation | channels listed after a mapped one are not updated |
| `executor_cycles` | pass | timers neither die, multiply nor post early, and catch up |
| `manager_life` | pass | what is launched is what the file says; nothing outlives what it needs, wherever the launch fails |
| `closing` | pass | the end with all threads running: who is over before what goes, who destroys what, events in order, and that main ends |

The violations are disagreements between the code and what it says of itself:

- `CWirelessBridge.cpp:163` and `:203` race. A pass stores its incremented counter over the reset
  of a message, and the device is announced as exhausted though it was heard from.
- `CFinalHaven.cpp:75` takes a mutex in a signal handler. It may interrupt a thread that holds that mutex: the
  popper, a thread that reports, or, `sa_mask` being empty, the handler of the other signal. It then waits for
  a frame below it on its own thread.
- `CWirelessBridge.cpp:222` leaves the loop over the channels at the first mapped one.

Some properties name what the code does not exclude, instead of claiming more than it keeps:

- `StatusTruthful` of DeviceWatch sets aside a device whose announcement was dropped (`fate = "dropped"`):
  `CWirelessBridge.cpp:172` announces once, through a `setTopic` that skips it offline, and nothing repeats it. So does `DetectionBound`.
  `StatusTruthful` and `AlarmNotEarly` also set aside an entry at which two threads met (`torn`), and
  `AlarmBudget` one at which two passes did (`crowded`).
- `DetectionBound` also sets aside a device that is `Muted`. A pass loads the counter at its limit, a message resets it,
  the pass stores it past the limit and says "error" (`CWirelessBridge.cpp:168`), and the listener says "ok": the
  alarm is given and not repeated, and a device that falls silent then shows "ok" for ever. An overlap that
  leaves attempts does not matter: the bound holds.
- `ReportsEnd` and `SignalsReach` of FinalHaven end in `exit_request` or `LockedUp`; `OnlyHandlersLockUp` says which
  steps lead there, and `SignalsEnd`, which lacks the second, is the property `haven_signals` refutes.
- `RetryPolicy` has the calls that throw as `Throw`, which promises nothing for the next call. `CConnMan.cpp:85` calls
  `connect` before the attempt and the pause are set: a client whose `connect` throws, as it does for a port that is
  no number, is called by every call of the handler, without a pause or a limit, and is never reported, whatever
  `IConnectable.hpp:34` and `:36` say of attempts and the time between them.
- `Closes` of Teardown lists the three ways in which the program may not come to its end: mosquitto's thread is
  cancelled while it writes a line and leaves a mutex of the log locked, for which `~CMqttConnection` then
  waits (`LogStuck`); a worker holds the last pointer to the connection and executes destructors down to
  `~CExecutor`, which cannot join its own thread (`heirs`); a late thread meets a member that is gone
  (`Crash`). `QuietEnd` leaves out the second (`Inherited`): `main` may then return before all is over.

### Bounds, and why they are enough

- `MaxTime` stops the clock, `MaxPosted` limits passes waiting in the executor's queue,
  `MaxMessages`, `MaxReports`, `MaxSignals`, `MaxDrops`, `MaxUpdates` and `MaxJump` limit what
  the environment does. They are guards of the environment's actions only.
- Supervision: one device suffices for races, since an entry is only touched by threads that are
  at it; two workers and the listener are all that can meet there (further workers add waiting
  passes, not new pairs). `Attempts = Timeout = 1` with `MaxTime = 5` has room for an attempt, an
  alarm, a message and a second alarm.
- `watch_timely`: one device, `Timeout = 2`, one attempt, two messages and `MaxTime = 14`. That is room for
  what a smaller run does not meet: a message that overlaps a pass, the alarm after it lost offline, a
  message that ends the overlap, and one more alarm, each up to its bound. A pass over
  several devices is the theorem's business.
- Connection manager: two workers, two clients, one of them throwing; one attempt and a pause of
  1 within `MaxTime = 4` give attempt, report, recovery and a new attempt.
- Final haven: two reporters and one kind of signal sent twice, delivered to any thread, give a handler on a thread
  inside `push` or `pop`, two handlers at once on two threads, a report behind another and a signal that is
  pending while handled. `haven_signals` has both kinds, so that one handler may also interrupt the other.
- Link: four lost or refused sessions over two topics: loss before, during and after the
  loop of `on_connect`, several times in a row.
- Router: 128 tables (two devices in both orders, every combination of mappings, shared topics,
  a device without an output topic) and messages of one and two fields, numeric or not.
- Executor: two functions with different periods, a task, two workers, a clock that may go
  two periods in a step.

- The end: two workers, so that one may join the other while it executes destructors itself; each cyclic function is in
  the queue once at a time; `MaxEvents = 2` events wait, one kind that touches the table and one that does not.
  The debug level is 3, where every print function writes: the levels below it only take places away
  where the thread may be cancelled. Devices, topics and clients are one each: what counts is whether the table is there.
- Component manager: all lists of two, and all of an entry `final_haven` and three more, out of seven
  entries: missing, late, repeated and spare providers, a name or a library given twice, a component
  without interfaces, a final_haven that is not one. 735 configurations.

`CHECK_DEADLOCK FALSE` stands where the program really stops: the launcher leaves (FinalHaven), the
link is up and nothing arrives (MqttLink), the executor has been joined (Executor), the
manager is gone (ComponentManager), `main` has returned, a thread has crashed or the log is stuck
(Teardown, where `Closes` says which stops are possible).

### Fairness, and why the code justifies it

- FinalHaven: threads run (weak fairness of each step between the locks). A thread that wants
  `m_queue_mutex` gets it if it is free again and again (strong fairness of `PushLock` and
  `PopLock`): sections under it are a few instructions long, and the popper releases it in
  `wait_for`. The kernel delivers a pending signal to some thread that is not handling the same one; to which, is open.
- MqttLink: all threads run, the broker answers a connection request, and takes packets of a
  session that stays up. Nothing forces a session to stay up: `LinkSettles` is about those that do.
- Executor: the io_service sees an expired timer, functions return, and a queued handler is taken in
  the end (strong fairness of `RunHandler`): the io_service's queue is first in, first out. The clock
  need not advance.
- Teardown: threads run. The main thread, the listener and each worker take a mutex of the log, or
  `m_connection_mutex`, if it is free again and again (strong fairness). mosquitto's thread goes on with a callback
  it is in, and is cancelled in the end (weak fairness); packets need not arrive (`Packet` has none).
- DeviceWatch, ConnMan, TopicRouter and ComponentManager are checked for safety only. `TimelySpec` of
  DeviceWatch restricts the clock instead: it advances when every thread is done, and posts one pass.

## What is proved

TLAPS checks the following for every value of the constants. Assumptions are those of the
modules: bounds and periods are natural numbers, name spaces are disjoint, the thread pool is a sequence of workers.

- `DeviceWatchProofs`: type correctness; `StatusTruthful` and `AlarmNotEarly` from `UntornInv`;
  `AlarmBudget` from `BudgetInv`. `StatusTruthful` is not inductive: one has to know that
  an untorn device has at most one thread at it (`Exclusive`), what that thread has found out
  (`WorkerFacts`, `ListenerAt`), that counter and deadline are in step (`InStep`), that every counted
  attempt has cost a timeout (`Earned`), and what the broker retains meanwhile (`StatusAgrees`).
  `BudgetInv` needs `OnePass` and that the counter past the limit is paid for by a message (`Solvent`).
  `DetectionBound` holds of `TimelySpec`, from `TimelyInv`: one pass at a time, which reads the clock as it
  still stands (`Serial`, `Pending`); `Late(d, n)`, by when the attempt after the n-th is due, lies one timeout
  and one period after the one before it, and an unannounced device is never beyond it (`Prompt`), overlapped or not;
  a device past its last attempt that was not overlapped has been announced, or the announcement was dropped
  (`Announced`); an overlapped one is `Muted`. For overlapped devices `Prompt` needs what the one worker there
  still knows (`Working`): either what it found out stands (`Upheld`), or a message came within this very period,
  whose deadline the listener is yet to store (`Early`) or has stored (`Fresh`). While it is early nothing is
  late, and a fresh device is prompt whatever the worker stores, since its
  deadline is then at most one timeout after the message (`FirstIsEarliest`, `FreshIsPrompt`).
  The proof changed the property: a first form had no `ListenerHolds`, and failed to be provable for a good reason,
  which `watch_timely` shows if that conjunct is left out. A message ends an overlap when it resets the
  counter, but the time it was heard is stored one step later, and until then the device looks as
  late as it was before.
- `ConnManProofs`: type correctness, `MutexReleased`, and `FollowsPolicy`: initial states map to
  initial states and each step to a step of `RetryPolicy` or to a stutter; `ConnectThrows` maps to `Throw`. The invariant adds
  what a worker knows inside the critical section (`WorkerKnows`): its time is not in the
  future, and between `Retry` and `Connect` or `ConnectThrows` its guard still holds, because the mutex
  keeps everyone else away from the table.
- `MqttLinkProofs`: type correctness, `ListNotShared`, `NoTopicMissed`. The invariant says that nothing
  moves before the workers are started (`Starting`), that no topic falls between the check and the
  store (`TopicsKept`), and that a session under `on_connect` still has the rest of the
  list before it (`Resubscribing`). `ListenerInformed` and `UpdatesWhileOnline` rest on what the queue says: the last
  link event queued, or handled if none is queued (`LastHeard`), agrees with `m_conn_status` except where a callback
  is between setting the one and sending the other (`Told`), and each update in the queue comes after an `online` with
  no `offline` between them (`InSession`).
- `ExecutorProofs`: type correctness, `OneTimerEach`, `PostedOnTime`, `NoPostAfterStop`. `PostedOnTime`
  needs `OnSchedule`: a timer stands one period after the last post, and its handler is queued
  only once that time has come. `Fresh` says a function not yet given to the executor left no trace.
- `ComponentManagerProofs`: type correctness, `LaunchedAsConfigured`, `DependenciesMet`, `CodeStaysLoaded`, `StartedByName`. The
  invariant: registration goes forward and a component holds only earlier ones (`Registered`), what it
  holds exists and covers what it depends on (`Held`), and how far the loops over the registry are
  (`Loops`). `CodeStaysLoaded` is where it pays: with the registry empty and nobody to destroy, nobody
  may be left, because among any components the latest one is held by no other (`OrphanFound`). That, and
  that `First` is well defined, rests on the least element of a set of numbers (`Least`, from the
  library's well-founded induction). `LaunchedAsConfigured` compares what the manager did one entry at a time with a
  reading of the configuration as a whole. `ReadSoFar` says that the entries passed so far satisfy that reading
  and the registry holds the usable ones among them; `Launching` that init and start change nothing of it.

- `TeardownProofs`: type correctness, `ListenerEndsFirst`, `EmptyWhenWalked`, `CallbacksHaveTheirObject`, `QuietEnd` and
  `EventsInOrder`, for any number of workers. The invariant `Stages` says what is over when a destructor
  has come to a certain operation: the cyclic functions out of the table, the listener joined, mosquitto's
  thread joined. `Reached` shows that a stage is reached by its own operation only, `StillOwned` that before it the
  owner still holds its pointer. The listener's part needs both: as long as it may drop a pointer, it has not been
  joined, hence the bridge still owns the connection, hence the listener is not the last. `EventsInOrder` maps
  `sendEvent` to `Put`, `EndProcess` to `Take` and all else to a stutter, and needs that the listener
  has an event exactly between taking it and letting the holder go (`HasEvent`). `QuietEnd` is about
  stacks: as long as no worker has executed a destructor, all that are begun are on the main thread's stack, and whatever
  no one owns is on it or over (`OnMain`, kept step by step through `Kept`). So when `main` returns, the bridge is over, since
  nothing owns it; with it goes an owner of the connection, which is over then, and so on to the executor and final haven.

- `FinalHavenProofs`: type correctness, `FollowsPolicy` and `OnlyHandlersLockUp`. What entering, moving and leaving a
  call does to a thread's stack is stated once (`EnterCall`, `MoveCall`, `ReturnCall`). `PushStore` maps to `Report`
  of the policy, `TakeAction` to `TakeUp`, and everything else, the popper's `PopTake` and the signal handlers
  included, to a stutter. `OnlyHandlersLockUp` needs what the owner of the mutex is doing (`Held`): one of its
  frames is about to store, or it is the popper looking at the queue, and every frame above waits in `lock()`.
  The owner therefore neither reports nor gets the mutex anew, and what the others do leaves it alone (`OwnersTop`,
  `ElsewhereHeld`), so no step but `Deliver` on the owner itself leads to `LockedUp` (`LockingUp`). It holds for any number of signals.
- `TopicRouterProofs`: type correctness, `ValuesMeant`, `CommandsMeant` and `OkWhenHeard`. `FoundIsFirst` shows that the
  loops over a `value_mapping` stop at the first pair with the value (the least index, from well-founded induction);
  the rest is that a call of `setTopic` keeps the meaning of those before it, while table and message stay (`MeantKept`).
  `OkWhenHeard` needs `StatusTopicsDiffer` (no two devices have one status topic; the table
  in `src/config/` has a single device) and the invariant that up to the device the loop is at, the
  property holds already (`Heard`).

Only model-checked: the liveness properties (`ReportsEnd`, `SignalsReach`, `LinkSettles`, `CatchesUp`, `Closes`), which
are beyond the prover, and the violations, which are single behaviours.

## What is taken from outside, and what is not modelled

- mosquitto and the broker: sessions are clean; callbacks come one at a time; a refused
  connection is followed by `on_disconnect`; `connect_async` on a session that is up gives it up, with or
  without a callback; quality of service 1 is taken to deliver within a session.
- boost::asio: a cancelled wait still queues its handler; `io_service::stop` lets running
  functions end; queued ones are dropped.
- `rand()` does not repeat an id for the two functions of the program, and the clock is not set back.
- TopicRouter's tables and messages have the types of the code's structs, and the tables number their input channels below their count; the code does not check
  it, and reads outside `data` otherwise.
- `stopExecution` walks the table with no lock. `CancelTimers` of Executor is one step nevertheless: the
  walk meets an empty table (`EmptyWhenWalked`), while Executor lets it run at any time.
- `loop_stop(true)` is `pthread_cancel` and a join. Cancellation is deferred, and of what mosquitto's thread does only
  `select` and the `write` of a print function are taken to be places where it ends; being cancelled runs no
  destructor of a lock guard. `boost::thread_group::join_all` throws when it comes to its own thread, and
  `~CExecutor` catches it.
- `std::map` gives up its nodes from the last name to the first, as the C++ library used here does.
- What a thread does to a member that is gone is undefined: it may crash, or go unnoticed.
- ConnMan's handler samples the links. A link that comes up and drops between two calls is not noticed and
  leaves its attempts counted (`CConnMan.cpp:110`); `RetryPolicy` counts from the last time the client was seen.
- ComponentManager gives a component nothing but what its constructor, `initComponent` and `startComponent`
  return or throw. A destroyed component is gone at once: what
  the components' own threads do meanwhile is in `Teardown`.
- Not modelled: reading JSON, option parsing, the choice of the log's sink and its start and stop (`initDlt`,
  `deinitDlt`, which run while no other thread does), the contents of messages beyond their fields, a message
  without payload (`CMqttConnection.cpp:152`), signals after the end of CFinalHaven (their handlers stay installed,
  `CFinalHaven.hpp:114`), what a signal handler's `std::cout` and allocation do when they interrupt a thread that is
  in the stream or the allocator (`CFinalHaven.cpp:74`), and classes nothing uses (`ThreadQueue`, `TEventListener`).
