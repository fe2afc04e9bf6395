------------------------------ MODULE MqttLink ------------------------------
(***************************************************************************)
(* CMqttConnection between its callers, mosquitto's loop thread and the    *)
(* broker, with the event queue to the bridge's listener.                  *)
(*                                                                         *)
(* The main thread subscribes the bridge's topics and then lets the        *)
(* executor's workers go: CComponentManager starts the components in the   *)
(* order of their names.  mosquitto's loop thread runs the callbacks, one  *)
(* at a time; the session with the broker may be lost between any two      *)
(* steps.  mosquitto and the broker are external: the session is clean, so *)
(* what was subscribed or under way is gone when it is lost.               *)
(***************************************************************************)
EXTENDS Naturals, Sequences

CONSTANTS
    Topics,      \* the topics mqttSubscribe goes through
    MaxDrops,    \* bound: sessions lost or refused
    MaxUpdates   \* bound: messages published by the devices

ASSUME MqttLinkAssumption ==
    /\ MaxDrops \in Nat
    /\ MaxUpdates \in Nat

VARIABLES
    main,           \* the main thread: "check", "store" or "started"
    topic, unsubscribed, \* its loop: the topic at hand, those still to come
    worker,         \* connectionHandler: "idle", or about to "connect"
    m_conn_status,  \* "CONNECTED" or "DISCONNECTED"
    m_topics_list,  \* the topics stored so far
    asked,          \* connect_async was called
    callback,       \* the loop thread's place in a callback, or "idle"
    left,           \* on_connect: the topics its loop has still to visit
    session,        \* "down", "up" or "lost" and not yet noticed
    packets,        \* SUBSCRIBE packets under way
    subscribed,     \* the topics the broker has for this session
    events,         \* the event queue
    heard,          \* the listener's last link event
    updates, drops, \* counters of the bounds
    misled          \* history: the listener took an update while "offline"

client == <<main, topic, unsubscribed, worker>>
broker == <<asked, session, packets, subscribed, drops>>
loop == <<callback, left>>
listener == <<heard, misled>>
vars == <<main, topic, unsubscribed, worker, m_conn_status, m_topics_list,
          asked, callback, left, session, packets, subscribed, events, heard,
          updates, drops, misled>>

Init ==
    /\ main = "check"
    /\ topic \in Topics
    /\ unsubscribed = Topics
    /\ worker = "idle"
    /\ m_conn_status = "DISCONNECTED"
    /\ m_topics_list = {}
    /\ asked = FALSE
    /\ callback = "idle"
    /\ left = {}
    /\ session = "down"
    /\ packets = {}
    /\ subscribed = {}
    /\ events = <<>>
    /\ heard = "offline"
    /\ updates = 0
    /\ drops = 0
    /\ misled = FALSE

-----------------------------------------------------------------------------
(* The main thread: subscribeTopic for each topic, then the workers.         *)

\* mosquittopp::subscribe: a packet, if there is a session to send it on.
Subscribe(t) ==
    packets' = IF session = "up" THEN packets \union {t} ELSE packets

SubscribeTopic(t) ==
    /\ main = "check"
    /\ t \in unsubscribed
    /\ main' = "store"
    /\ topic' = t
    /\ unsubscribed' = unsubscribed \ {t}
    /\ IF m_conn_status = "CONNECTED" THEN Subscribe(t) ELSE UNCHANGED packets
    /\ UNCHANGED <<worker, m_conn_status, m_topics_list, asked, session,
                   subscribed, drops, loop, events, listener, updates>>

StoreTopic ==
    /\ main = "store"
    /\ main' = "check"
    /\ m_topics_list' = m_topics_list \union {topic}
    /\ UNCHANGED <<topic, unsubscribed, worker, m_conn_status, broker, loop,
                   events, listener, updates>>

\* The bridge has started; the executor is next.
StartWorkers ==
    /\ main = "check"
    /\ unsubscribed = {}
    /\ main' = "started"
    /\ UNCHANGED <<topic, unsubscribed, worker, m_conn_status, m_topics_list,
                   broker, loop, events, listener, updates>>

-----------------------------------------------------------------------------
(* A worker in connectionHandler.                                            *)

\* Mutant of SeeState: the workers run before the topics are subscribed.
SeeState_Early ==
    /\ worker = "idle"
    /\ m_conn_status = "DISCONNECTED"
    /\ worker' = "connect"
    /\ UNCHANGED <<main, topic, unsubscribed, m_conn_status, m_topics_list,
                   broker, loop, events, listener, updates>>

SeeState ==
    /\ main = "started"
    /\ worker = "idle"
    /\ m_conn_status = "DISCONNECTED"
    /\ worker' = "connect"
    /\ UNCHANGED <<main, topic, unsubscribed, m_conn_status, m_topics_list,
                   broker, loop, events, listener, updates>>

\* connect_async. If mosquitto has connected by itself since SeeState, the
\* session is given up for a new one, with or without on_disconnect.
Connect ==
    /\ worker = "connect"
    /\ worker' = "idle"
    /\ asked' = TRUE
    /\ IF session = "up"
       THEN /\ drops < MaxDrops
            /\ drops' = drops + 1
            /\ session' \in {"lost", "down"}
            /\ packets' = {}
            /\ subscribed' = {}
       ELSE UNCHANGED <<session, packets, subscribed, drops>>
    /\ UNCHANGED <<main, topic, unsubscribed, m_conn_status, m_topics_list,
                   loop, events, listener, updates>>

-----------------------------------------------------------------------------
(* mosquitto and the broker.                                                 *)

\* The broker accepts: the loop thread enters on_connect(0).
Accept ==
    /\ asked
    /\ session = "down"
    /\ callback = "idle"
    /\ session' = "up"
    /\ callback' = "connected"
    /\ UNCHANGED <<client, m_conn_status, m_topics_list, asked, packets,
                   subscribed, drops, left, events, listener, updates>>

\* The broker refuses: on_connect with another code. mosquitto then closes
\* the connection and reports that, too, with on_disconnect.
Refuse ==
    /\ asked
    /\ session = "down"
    /\ callback = "idle"
    /\ drops < MaxDrops
    /\ drops' = drops + 1
    /\ session' = "lost"
    /\ callback' = "refused"
    /\ UNCHANGED <<client, m_conn_status, m_topics_list, asked, packets,
                   subscribed, left, events, listener, updates>>

Drop ==
    /\ session = "up"
    /\ drops < MaxDrops
    /\ drops' = drops + 1
    /\ session' = "lost"
    /\ packets' = {}
    /\ subscribed' = {}
    /\ UNCHANGED <<client, m_conn_status, m_topics_list, asked, loop, events,
                   listener, updates>>

\* The loop thread finds the session lost and enters on_disconnect.
Notice ==
    /\ session = "lost"
    /\ callback = "idle"
    /\ session' = "down"
    /\ callback' = "disconnected"
    /\ UNCHANGED <<client, m_conn_status, m_topics_list, asked, packets,
                   subscribed, drops, left, events, listener, updates>>

TakePacket(t) ==
    /\ t \in packets
    /\ packets' = packets \ {t}
    /\ subscribed' = subscribed \union {t}
    /\ UNCHANGED <<client, m_conn_status, m_topics_list, asked, session,
                   drops, loop, events, listener, updates>>

\* A device publishes on t, and on_message sends the event.
OnMessage(t) ==
    /\ session = "up"
    /\ t \in subscribed
    /\ callback = "idle"
    /\ updates < MaxUpdates
    /\ updates' = updates + 1
    /\ events' = Append(events, "update")
    /\ UNCHANGED <<client, m_conn_status, m_topics_list, broker, loop,
                   listener>>

-----------------------------------------------------------------------------
(* The callbacks on_connect and on_disconnect.                               *)

\* Mutant of OnConnect: topics are resubscribed on a first connection only.
OnConnect_Once ==
    /\ callback = "connected"
    /\ m_conn_status' = "CONNECTED"
    /\ left' = IF drops = 0 THEN m_topics_list ELSE {}
    /\ callback' = "resubscribe"
    /\ UNCHANGED <<client, m_topics_list, broker, events, listener, updates>>

OnConnect ==
    /\ callback = "connected"
    /\ m_conn_status' = "CONNECTED"
    /\ left' = m_topics_list
    /\ callback' = "resubscribe"
    /\ UNCHANGED <<client, m_topics_list, broker, events, listener, updates>>

Resubscribe(t) ==
    /\ callback = "resubscribe"
    /\ t \in left
    /\ left' = left \ {t}
    /\ Subscribe(t)
    /\ UNCHANGED <<client, m_conn_status, m_topics_list, asked, session,
                   subscribed, drops, callback, events, listener, updates>>

\* Mutant of SendOnline: no event when the session is lost already.
SendOnline_IfUp ==
    /\ callback = "resubscribe"
    /\ left = {}
    /\ events' = IF session = "up" THEN Append(events, "online") ELSE events
    /\ callback' = "idle"
    /\ UNCHANGED <<client, m_conn_status, m_topics_list, broker, left,
                   listener, updates>>

SendOnline ==
    /\ callback = "resubscribe"
    /\ left = {}
    /\ events' = Append(events, "online")
    /\ callback' = "idle"
    /\ UNCHANGED <<client, m_conn_status, m_topics_list, broker, left,
                   listener, updates>>

OnRefused ==
    /\ callback = "refused"
    /\ m_conn_status' = "DISCONNECTED"
    /\ callback' = "idle"
    /\ UNCHANGED <<client, m_topics_list, broker, left, events, listener,
                   updates>>

\* Mutant of OnDisconnect: the status says that mosquitto tries again.
OnDisconnect_Connecting ==
    /\ callback = "disconnected"
    /\ m_conn_status' = "CONNECTING"
    /\ callback' = "offline"
    /\ UNCHANGED <<client, m_topics_list, broker, left, events, listener,
                   updates>>

OnDisconnect ==
    /\ callback = "disconnected"
    /\ m_conn_status' = "DISCONNECTED"
    /\ callback' = "offline"
    /\ UNCHANGED <<client, m_topics_list, broker, left, events, listener,
                   updates>>

SendOffline ==
    /\ callback = "offline"
    /\ events' = Append(events, "offline")
    /\ callback' = "idle"
    /\ UNCHANGED <<client, m_conn_status, m_topics_list, broker, left,
                   listener, updates>>

-----------------------------------------------------------------------------
\* Mutant of Consume: the newest event first.
Consume_Newest ==
    /\ events # <<>>
    /\ events' = SubSeq(events, 1, Len(events) - 1)
    /\ IF events[Len(events)] = "update"
       THEN /\ misled' = (misled \/ heard = "offline")
            /\ UNCHANGED heard
       ELSE /\ heard' = events[Len(events)]
            /\ UNCHANGED misled
    /\ UNCHANGED <<client, m_conn_status, m_topics_list, broker, loop, updates>>

\* The listener takes the next event.
Consume ==
    /\ events # <<>>
    /\ events' = Tail(events)
    /\ IF Head(events) = "update"
       THEN /\ misled' = (misled \/ heard = "offline")
            /\ UNCHANGED heard
       ELSE /\ heard' = Head(events)
            /\ UNCHANGED misled
    /\ UNCHANGED <<client, m_conn_status, m_topics_list, broker, loop, updates>>

-----------------------------------------------------------------------------
MainStep == StoreTopic \/ StartWorkers \/ \E t \in Topics : SubscribeTopic(t)

LoopStep ==
    \/ Notice
    \/ OnConnect
    \/ \E t \in Topics : Resubscribe(t)
    \/ SendOnline
    \/ OnRefused
    \/ OnDisconnect
    \/ SendOffline

Next ==
    \/ MainStep
    \/ SeeState
    \/ Connect
    \/ Accept
    \/ Refuse
    \/ Drop
    \/ \E t \in Topics : TakePacket(t) \/ OnMessage(t)
    \/ LoopStep
    \/ Consume

Spec == Init /\ [][Next]_vars

\* The threads run, mosquitto goes on trying, packets arrive. Nothing is
\* assumed of the link: it may be lost, refused or left in peace.
Fairness ==
    /\ WF_vars(MainStep)
    /\ WF_vars(SeeState)
    /\ WF_vars(Connect)
    /\ WF_vars(Accept)
    /\ WF_vars(\E t \in Topics : TakePacket(t))
    /\ WF_vars(LoopStep)
    /\ WF_vars(Consume)

FairSpec == Spec /\ Fairness

-----------------------------------------------------------------------------
(* Properties.                                                               *)

\* The types of the variables.
TypeOK ==
    /\ main \in {"check", "store", "started"}
    /\ topic \in Topics
    /\ unsubscribed \subseteq Topics
    /\ worker \in {"idle", "connect"}
    /\ m_conn_status \in {"CONNECTED", "DISCONNECTED"}
    /\ m_topics_list \subseteq Topics
    /\ asked \in BOOLEAN
    /\ callback \in {"idle", "connected", "resubscribe", "refused",
                     "disconnected", "offline"}
    /\ left \subseteq Topics
    /\ session \in {"down", "up", "lost"}
    /\ packets \subseteq Topics
    /\ subscribed \subseteq Topics
    /\ (session # "up") => (packets = {} /\ subscribed = {})
    /\ events \in Seq({"online", "offline", "update"})
    /\ heard \in {"online", "offline"}
    /\ updates \in 0..MaxUpdates
    /\ drops \in 0..MaxDrops
    /\ misled \in BOOLEAN

\* m_topics_list has no lock: push_back in subscribeTopic must not meet the
\* loop of on_connect. It does not because the bridge starts before the
\* executor, whose workers are the first to call connect.
ListNotShared == ~(main = "store" /\ callback = "resubscribe")

\* Once on_connect is over the broker has, or is about to get, every topic
\* of the bridge, however often the session was lost before and during it:
\* check-then-store in subscribeTopic leaves none out.
NoTopicMissed ==
    (session = "up" /\ callback = "idle")
        => Topics \subseteq packets \union subscribed

\* The listener is never wrong about the link but by being late: with the
\* queue empty and no callback under way or due, its last link event agrees
\* with m_conn_status. A refused connection sends no event of its own, even
\* when it follows a session given up without on_disconnect.
ListenerInformed ==
    (events = <<>> /\ callback = "idle" /\ session # "lost")
        => (heard = "online" <=> m_conn_status = "CONNECTED")

\* The listener takes a message only between the online event of its
\* session and the next offline event.
UpdatesWhileOnline == ~misled

\* A link that is left in peace ends up with every topic subscribed and a
\* listener that knows it is online.
LinkSettles ==
    <>[](session = "up")
        => <>[](subscribed = Topics /\ heard = "online")
=============================================================================
