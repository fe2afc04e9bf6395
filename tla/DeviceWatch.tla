---------------------------- MODULE DeviceWatch ----------------------------
(***************************************************************************)
(* The supervision of the wireless devices by CWirelessBridge: the table   *)
(* m_device_items, which two kinds of threads update with no lock.         *)
(*                                                                         *)
(*   - The executor's worker threads run processDeviceList, one pass per   *)
(*     posted period: a device whose deadline has expired loses an         *)
(*     attempt, and one whose attempts are all gone gets the retained      *)
(*     status "error".                                                     *)
(*   - The listener thread runs processTopicUpdate: a message on a         *)
(*     device's input topic gives it its attempts and its deadline back    *)
(*     and publishes "ok".                                                 *)
(*                                                                         *)
(* Every access to a shared field of a DevServiceBlk is a step of its own. *)
(* What a message makes of the other topics is module TopicRouter's.       *)
(***************************************************************************)
EXTENDS Integers, FiniteSets

CONSTANTS
    Devices,    \* the dev_name's of the configuration table
    Workers,    \* the threads of CExecutor, one per core
    Timeout,    \* node_timeout_in_sec
    Attempts,   \* node_connection_attempt
    MaxTime,    \* bound: the clock stops there
    MaxPosted,  \* bound: passes waiting in the executor's queue
    MaxMessages \* bound: messages of one device

ASSUME ConstantsAssumption ==
    /\ Timeout \in Nat
    /\ Attempts \in Nat
    /\ MaxTime \in Nat
    /\ MaxPosted \in Nat
    /\ MaxMessages \in Nat

Statuses == {"none", "ok", "error"}

VARIABLES
    now,              \* the steady clock
    posted,           \* processDeviceList calls in the executor's queue
    spent_attempt,    \* DevServiceBlk::spent_attempt of each device
    time_to_attempt,  \* DevServiceBlk::time_to_attempt of each device
    pc, dev,          \* each worker's place in processDeviceList, and device
    left,             \* the devices its loop has still to visit
    itr_time, reg,    \* its local itr_time, and the counter it has loaded
    listener,         \* where the listener is in processTopicUpdate
    online,           \* m_conn_status = CONNECTED
    status,           \* what the broker retains on each status topic
    (* History variables, read by the properties only. *)
    heard,            \* the clock at the last processed message of a device
    fate,             \* what became of the last status a device was owed
    torn,             \* the last handling of the device was overlapped
    crowded,          \* two passes were ever at the device at once
    alarms,           \* announcements "all attempt exhausted" so far
    resets            \* messages of the device processed so far

table == <<spent_attempt, time_to_attempt>>
locals == <<pc, dev, left, itr_time, reg>>
history == <<heard, fate, torn, crowded, alarms, resets>>
vars == <<now, posted, spent_attempt, time_to_attempt, pc, dev, left,
          itr_time, reg, listener, online, status, heard, fate, torn, crowded,
          alarms, resets>>

-----------------------------------------------------------------------------
(* A worker's pc names its next access to the table; "next" is the loop     *)
(* head, and a thread outside {"idle", "next"} is at device dev. A local    *)
(* that is out of scope is 0.                                               *)
WorkerPcs == {"idle", "next", "attempt", "miss", "store_miss", "postpone",
              "exhaust", "store_exhaust", "announce"}
ListenerPcs == {"idle", "clock", "deadline", "publish"}
Messages == {"clean", "garbled"}
ListenerStates == [pc : ListenerPcs, dev : Devices, msg : Messages, reg : Nat]

Holds(w, d) == pc[w] \notin {"idle", "next"} /\ dev[w] = d
ListenerHolds(d) == listener.pc # "idle" /\ listener.dev = d
Quiet(d) == ~ListenerHolds(d) /\ \A w \in Workers : ~Holds(w, d)

\* startComponent has run: createDeviceList gave every device a fresh entry,
\* the topics are subscribed and the period has been scheduled.
Init ==
    /\ now = 0
    /\ posted = 0
    /\ spent_attempt = [d \in Devices |-> 0]
    /\ time_to_attempt = [d \in Devices |-> Timeout]
    /\ pc = [w \in Workers |-> "idle"]
    /\ dev \in [Workers -> Devices]
    /\ left = [w \in Workers |-> {}]
    /\ itr_time = [w \in Workers |-> 0]
    /\ reg = [w \in Workers |-> 0]
    /\ listener \in {[pc |-> "idle", dev |-> d, msg |-> "clean", reg |-> 0] :
                        d \in Devices}
    /\ online \in BOOLEAN
    /\ status = [d \in Devices |-> "none"]
    /\ heard = [d \in Devices |-> 0]
    /\ fate = [d \in Devices |-> "settled"]
    /\ torn = [d \in Devices |-> FALSE]
    /\ crowded = [d \in Devices |-> FALSE]
    /\ alarms = [d \in Devices |-> 0]
    /\ resets = [d \in Devices |-> 0]

-----------------------------------------------------------------------------
(* The environment: time and the executor's timer, and the MQTT link.       *)

\* The clock advances and the timer posts k passes: one for a period on
\* time, none while the timer is late, several when it catches up.
Elapse(k) ==
    /\ now < MaxTime
    /\ posted + k <= MaxPosted
    /\ now' = now + 1
    /\ posted' = posted + k
    /\ UNCHANGED <<table, locals, listener, online, status, history>>

\* mosquitto's thread stores another m_conn_status.
LinkChange ==
    /\ online' = ~online
    /\ UNCHANGED <<now, posted, table, locals, listener, status, history>>

\* setTopic of the status topic: published and retained, or skipped.
SetStatus(d, s) ==
    IF online
    THEN /\ status' = [status EXCEPT ![d] = s]
         /\ fate' = [fate EXCEPT ![d] = "settled"]
    ELSE /\ fate' = [fate EXCEPT ![d] = "dropped"]
         /\ UNCHANGED status

-----------------------------------------------------------------------------
(* processDeviceList, run by worker w.                                       *)

\* Mutant of StartPass: a pass nobody posted.
StartPass_Unposted(w) ==
    /\ pc[w] = "idle"
    /\ posted' = posted - 1
    /\ pc' = [pc EXCEPT ![w] = "next"]
    /\ left' = [left EXCEPT ![w] = Devices]
    /\ itr_time' = [itr_time EXCEPT ![w] = now]
    /\ UNCHANGED <<now, table, dev, reg, listener, online, status, history>>

StartPass(w) ==
    /\ pc[w] = "idle"
    /\ posted > 0
    /\ posted' = posted - 1
    /\ pc' = [pc EXCEPT ![w] = "next"]
    /\ left' = [left EXCEPT ![w] = Devices]
    /\ itr_time' = [itr_time EXCEPT ![w] = now]
    /\ UNCHANGED <<now, table, dev, reg, listener, online, status, history>>

EndPass(w) ==
    /\ pc[w] = "next"
    /\ left[w] = {}
    /\ pc' = [pc EXCEPT ![w] = "idle"]
    /\ itr_time' = [itr_time EXCEPT ![w] = 0]
    /\ UNCHANGED <<now, posted, table, dev, left, reg, listener, online,
                   status, history>>

\* The loop goes on to a device (in the hash table's order, so any) and
\* compares its deadline; a device that still has time is left alone.
CheckDeadline(w, d) ==
    /\ pc[w] = "next"
    /\ d \in left[w]
    /\ left' = [left EXCEPT ![w] = @ \ {d}]
    /\ IF itr_time[w] > time_to_attempt[d]
       THEN /\ pc' = [pc EXCEPT ![w] = "attempt"]
            /\ dev' = [dev EXCEPT ![w] = d]
            /\ torn' = [torn EXCEPT ![d] = @ \/ ~Quiet(d)]
            /\ crowded' = [crowded EXCEPT ![d] =
                              @ \/ \E v \in Workers : Holds(v, d)]
       ELSE UNCHANGED <<pc, dev, torn, crowded>>
    /\ UNCHANGED <<now, posted, table, itr_time, reg, listener, online,
                   status, heard, fate, alarms, resets>>

\* Mutant of CheckAttempts: <= instead of <.
CheckAttempts_OneMore(w) ==
    /\ pc[w] = "attempt"
    /\ pc' = [pc EXCEPT ![w] = IF spent_attempt[dev[w]] <= Attempts
                               THEN "miss" ELSE "exhaust"]
    /\ UNCHANGED <<now, posted, table, dev, left, itr_time, reg, listener,
                   online, status, history>>

CheckAttempts(w) ==
    /\ pc[w] = "attempt"
    /\ pc' = [pc EXCEPT ![w] = IF spent_attempt[dev[w]] < Attempts
                               THEN "miss" ELSE "exhaust"]
    /\ UNCHANGED <<now, posted, table, dev, left, itr_time, reg, listener,
                   online, status, history>>

\* Both branches increment the counter: a load here, a store below.
LoadCounter(w) ==
    /\ \/ /\ pc[w] = "miss"
          /\ pc' = [pc EXCEPT ![w] = "store_miss"]
       \/ /\ pc[w] = "exhaust"
          /\ pc' = [pc EXCEPT ![w] = "store_exhaust"]
    /\ reg' = [reg EXCEPT ![w] = spent_attempt[dev[w]]]
    /\ UNCHANGED <<now, posted, table, dev, left, itr_time, listener, online,
                   status, history>>

StoreCounter(w) ==
    /\ spent_attempt' = [spent_attempt EXCEPT ![dev[w]] = reg[w] + 1]
    /\ reg' = [reg EXCEPT ![w] = 0]
    /\ UNCHANGED <<now, posted, time_to_attempt, dev, left, itr_time,
                   listener, online, status, history>>

StoreMiss(w) ==
    /\ pc[w] = "store_miss"
    /\ pc' = [pc EXCEPT ![w] = "postpone"]
    /\ StoreCounter(w)

Postpone(w) ==
    /\ pc[w] = "postpone"
    /\ time_to_attempt' =
          [time_to_attempt EXCEPT ![dev[w]] = itr_time[w] + Timeout]
    /\ pc' = [pc EXCEPT ![w] = "next"]
    /\ UNCHANGED <<now, posted, spent_attempt, dev, left, itr_time, reg,
                   listener, online, status, history>>

\* Mutant of StoreExhausted: >= instead of ==.
StoreExhausted_EveryPass(w) ==
    /\ pc[w] = "store_exhaust"
    /\ pc' = [pc EXCEPT ![w] =
                 IF reg[w] >= Attempts THEN "announce" ELSE "next"]
    /\ StoreCounter(w)

\* Mutant of StoreExhausted: ++spent_attempt instead of spent_attempt++.
StoreExhausted_PreIncrement(w) ==
    /\ pc[w] = "store_exhaust"
    /\ pc' = [pc EXCEPT ![w] =
                 IF reg[w] + 1 = Attempts THEN "announce" ELSE "next"]
    /\ StoreCounter(w)

\* spent_attempt++ == node_connection_attempt: only the pass that finds the
\* counter exactly there goes on to announce.
StoreExhausted(w) ==
    /\ pc[w] = "store_exhaust"
    /\ pc' = [pc EXCEPT ![w] =
                 IF reg[w] = Attempts THEN "announce" ELSE "next"]
    /\ StoreCounter(w)

Announce(w) ==
    /\ pc[w] = "announce"
    /\ SetStatus(dev[w], "error")
    /\ alarms' = [alarms EXCEPT ![dev[w]] = @ + 1]
    /\ pc' = [pc EXCEPT ![w] = "next"]
    /\ UNCHANGED <<now, posted, table, dev, left, itr_time, reg, listener,
                   online, heard, torn, crowded, resets>>

-----------------------------------------------------------------------------
(* processTopicUpdate for the input topic of device d, on the listener's     *)
(* thread. A garbled message makes std::stoi throw before the status is      *)
(* published; mqttEventProcessFunc catches the exception.                    *)

\* Mutant of Receive: the attempts are not given back.
Receive_KeepCounter(d, m) ==
    /\ listener.pc = "idle"
    /\ resets[d] < MaxMessages
    /\ listener' = [listener EXCEPT !.pc = "clock", !.dev = d, !.msg = m]
    /\ torn' = [torn EXCEPT ![d] = \E w \in Workers : Holds(w, d)]
    /\ resets' = [resets EXCEPT ![d] = @ + 1]
    /\ UNCHANGED <<now, posted, table, locals, online, status, heard, fate,
                   crowded, alarms>>

Receive(d, m) ==
    /\ listener.pc = "idle"
    /\ resets[d] < MaxMessages
    /\ spent_attempt' = [spent_attempt EXCEPT ![d] = 0]
    /\ listener' = [listener EXCEPT !.pc = "clock", !.dev = d, !.msg = m]
    /\ torn' = [torn EXCEPT ![d] = \E w \in Workers : Holds(w, d)]
    /\ resets' = [resets EXCEPT ![d] = @ + 1]
    /\ UNCHANGED <<now, posted, time_to_attempt, locals, online, status,
                   heard, fate, crowded, alarms>>

ReadClock ==
    /\ listener.pc = "clock"
    /\ listener' = [listener EXCEPT !.pc = "deadline", !.reg = now]
    /\ UNCHANGED <<now, posted, table, locals, online, status, history>>

StoreDeadline ==
    /\ listener.pc = "deadline"
    /\ time_to_attempt' =
          [time_to_attempt EXCEPT ![listener.dev] = listener.reg + Timeout]
    /\ heard' = [heard EXCEPT ![listener.dev] = listener.reg]
    /\ listener' = [listener EXCEPT !.pc = "publish", !.reg = 0]
    /\ UNCHANGED <<now, posted, spent_attempt, locals, online, status, fate,
                   torn, crowded, alarms, resets>>

PublishOk ==
    /\ listener.pc = "publish"
    /\ listener.msg = "clean"
    /\ SetStatus(listener.dev, "ok")
    /\ listener' = [listener EXCEPT !.pc = "idle"]
    /\ UNCHANGED <<now, posted, table, locals, online, heard, torn, crowded,
                   alarms, resets>>

ConversionFails ==
    /\ listener.pc = "publish"
    /\ listener.msg = "garbled"
    /\ fate' = [fate EXCEPT ![listener.dev] = "garbled"]
    /\ listener' = [listener EXCEPT !.pc = "idle"]
    /\ UNCHANGED <<now, posted, table, locals, online, status, heard, torn,
                   crowded, alarms, resets>>

-----------------------------------------------------------------------------
WorkerStep(w) ==
    \/ StartPass(w)
    \/ EndPass(w)
    \/ \E d \in Devices : CheckDeadline(w, d)
    \/ CheckAttempts(w)
    \/ LoadCounter(w)
    \/ StoreMiss(w)
    \/ Postpone(w)
    \/ StoreExhausted(w)
    \/ Announce(w)

ListenerStep ==
    \/ \E d \in Devices, m \in Messages : Receive(d, m)
    \/ ReadClock
    \/ StoreDeadline
    \/ PublishOk
    \/ ConversionFails

Next ==
    \/ \E k \in 0..MaxPosted : Elapse(k)
    \/ LinkChange
    \/ \E w \in Workers : WorkerStep(w)
    \/ ListenerStep

Spec == Init /\ [][Next]_vars

\* The schedule the 1000 ms period is meant to give: the clock advances only
\* when every thread is done, and each advance posts exactly one pass.
OnTime ==
    now' # now => /\ posted = 0
                  /\ posted' = 1
                  /\ listener.pc = "idle"
                  /\ \A w \in Workers : pc[w] = "idle"

TimelySpec == Init /\ [][Next /\ OnTime]_vars

-----------------------------------------------------------------------------
(* Properties.                                                               *)

\* The types of the variables.
TypeOK ==
    /\ now \in Nat
    /\ posted \in Nat
    /\ spent_attempt \in [Devices -> Nat]
    /\ time_to_attempt \in [Devices -> Nat]
    /\ pc \in [Workers -> WorkerPcs]
    /\ dev \in [Workers -> Devices]
    /\ left \in [Workers -> SUBSET Devices]
    /\ itr_time \in [Workers -> Nat]
    /\ reg \in [Workers -> Nat]
    /\ listener \in ListenerStates
    /\ online \in BOOLEAN
    /\ status \in [Devices -> Statuses]
    /\ heard \in [Devices -> Nat]
    /\ fate \in [Devices -> {"settled", "dropped", "garbled"}]
    /\ torn \in [Devices -> BOOLEAN]
    /\ crowded \in [Devices -> BOOLEAN]
    /\ alarms \in [Devices -> Nat]
    /\ resets \in [Devices -> Nat]

\* A device is announced as exhausted only after Attempts + 1 whole timeouts
\* with no message from it, unless the handling of its entry was overlapped
\* since its last clean start: the two branches of processDeviceList and the
\* three assignments of processTopicUpdate keep counter and deadline in step.
AlarmNotEarly ==
    [][\A d \in Devices :
          alarms'[d] # alarms[d] /\ ~torn[d]
             => now - heard[d] > (Attempts + 1) * Timeout]_vars

\* At rest, the retained status is "error" exactly when the attempts of the
\* device are all spent: neither a stale alarm after a message nor an "ok"
\* that hides an exhausted device. Not when the handling was overlapped, or
\* the last status was dropped offline or lost to a garbled message.
StatusTruthful ==
    \A d \in Devices :
        Quiet(d) /\ ~torn[d] /\ fate[d] = "settled"
           => (status[d] = "error" <=> spent_attempt[d] > Attempts)

\* One message buys at most one announcement: between two announcements of a
\* device a message of it was processed, whatever the listener interleaves
\* with a pass, as long as two passes never were at the device at once.
AlarmBudget ==
    \A d \in Devices : ~crowded[d] => alarms[d] <= resets[d] + 1

\* The device has attempts left, or is about to be announced.
Unannounced(d) ==
    \/ spent_attempt[d] <= Attempts
    \/ \E w \in Workers : pc[w] = "announce" /\ dev[w] = d

\* The reset of a message was lost: a pass that had loaded the counter before
\* line 203 stored it past the limit afterwards. Its "error" may then come
\* before the "ok" of that message, and no later pass repeats it: however long
\* the device is silent from then on, it may show "ok".
Muted(d) == torn[d] /\ ~Unannounced(d)

\* With a pass per period that ends within it, a silent device shows "error"
\* after at most Attempts + 1 timeouts, each a period late for the strict
\* comparison of processDeviceList, also when passes and messages overlapped
\* at it before. Not when the alarm was dropped offline, and not when an
\* overlap has muted the device, which the code does not exclude: for such a
\* device there is no bound.
DetectionBound ==
    \A d \in Devices :
        ~ListenerHolds(d) /\ fate[d] # "dropped" /\ status[d] # "error"
           => now - heard[d] <= (Attempts + 1) * (Timeout + 1) \/ Muted(d)

\* What the log line of CWirelessBridge.cpp:170 says of the device, "all
\* attempt exhausted", taken at its word in every interleaving: a device is
\* announced only after Attempts + 1 timeouts of silence. The unlocked
\* counter lets a pass undo the reset of a message just received.
ExhaustedMeansSilent ==
    [][\A d \in Devices :
          alarms'[d] # alarms[d]
             => now - heard[d] > (Attempts + 1) * Timeout]_vars
=============================================================================
