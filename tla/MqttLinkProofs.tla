--------------------------- MODULE MqttLinkProofs ---------------------------
(***************************************************************************)
(* Start-up keeps the topic list to one thread, no topic is missed, and    *)
(* the listener is told of every change of the link, for every set of      *)
(* topics and any number of lost sessions.                                 *)
(***************************************************************************)
EXTENDS MqttLink, SequenceTheorems, TLAPS

\* Until the main thread has started the workers, nothing else has moved.
Starting ==
    main # "started" =>
        /\ worker = "idle"
        /\ ~asked
        /\ session = "down"
        /\ callback = "idle"

\* No topic gets lost on its way from the table to the list.
TopicsKept ==
    /\ main = "check" => m_topics_list \union unsubscribed = Topics
    /\ main = "store" => m_topics_list \union unsubscribed \union {topic} = Topics
    /\ main = "started" => m_topics_list = Topics

\* During a session on_connect has still to visit what it has not sent.
Resubscribing ==
    session = "up" =>
        /\ callback \in {"idle", "connected", "resubscribe"}
        /\ callback = "idle" => Topics \subseteq packets \union subscribed
        /\ callback = "resubscribe" =>
               Topics \subseteq packets \union subscribed \union left

LinkInv ==
    /\ TypeOK
    /\ Starting
    /\ TopicsKept
    /\ Resubscribing

Events == Seq({"online", "offline", "update"})

\* The link starts in the invariant.
LEMMA InitLink == Init => LinkInv
  <1> SUFFICES ASSUME Init PROVE LinkInv
    OBVIOUS
  <1> USE MqttLinkAssumption DEF Init
  <1>1. TypeOK
    <2>1. events \in Events
      BY EmptySeq DEF Events
    <2>2. updates \in 0..MaxUpdates /\ drops \in 0..MaxDrops
      OBVIOUS
    <2>3. topic \in Topics /\ m_conn_status \in {"CONNECTED", "DISCONNECTED"}
      OBVIOUS
    <2> QED
      BY <2>1, <2>2, <2>3, Zenon DEF TypeOK, Events
  <1>2. Starting /\ TopicsKept /\ Resubscribing
    BY DEF Starting, TopicsKept, Resubscribing
  <1> QED
    BY <1>1, <1>2 DEF LinkInv

\* Every step of the library and of the listener keeps it.
LEMMA NextLink == LinkInv /\ [Next]_vars => LinkInv'
  <1> SUFFICES ASSUME LinkInv, [Next]_vars PROVE LinkInv'
    OBVIOUS
  <1> USE MqttLinkAssumption
  <1> USE DEF LinkInv, Starting, TopicsKept, Resubscribing, Subscribe,
              client, broker, loop, listener
  <1>1. ASSUME NEW t \in Topics, SubscribeTopic(t) PROVE LinkInv'
    <2>1. TypeOK'
      BY <1>1 DEF SubscribeTopic, TypeOK
    <2>2. Starting' /\ TopicsKept' /\ Resubscribing'
      BY <1>1 DEF SubscribeTopic, TypeOK
    <2> QED
      BY <2>1, <2>2
  <1>2. ASSUME StoreTopic PROVE LinkInv'
    <2>1. TypeOK'
      BY <1>2 DEF StoreTopic, TypeOK
    <2>2. Starting' /\ TopicsKept' /\ Resubscribing'
      BY <1>2 DEF StoreTopic, TypeOK
    <2> QED
      BY <2>1, <2>2
  <1>3. ASSUME StartWorkers PROVE LinkInv'
    <2>1. TypeOK'
      BY <1>3 DEF StartWorkers, TypeOK
    <2>2. Starting' /\ TopicsKept' /\ Resubscribing'
      BY <1>3 DEF StartWorkers, TypeOK
    <2> QED
      BY <2>1, <2>2
  <1>4. ASSUME SeeState PROVE LinkInv'
    <2>1. TypeOK'
      BY <1>4 DEF SeeState, TypeOK
    <2>2. Starting' /\ TopicsKept' /\ Resubscribing'
      BY <1>4 DEF SeeState, TypeOK
    <2> QED
      BY <2>1, <2>2
  <1>5. ASSUME Connect PROVE LinkInv'
    <2>1. TypeOK'
      BY <1>5 DEF Connect, TypeOK
    <2>2. Starting' /\ TopicsKept' /\ Resubscribing'
      BY <1>5 DEF Connect, TypeOK
    <2> QED
      BY <2>1, <2>2
  <1>6. ASSUME Accept PROVE LinkInv'
    <2>1. TypeOK'
      BY <1>6 DEF Accept, TypeOK
    <2>2. Starting' /\ TopicsKept' /\ Resubscribing'
      BY <1>6 DEF Accept, TypeOK
    <2> QED
      BY <2>1, <2>2
  <1>7. ASSUME Refuse PROVE LinkInv'
    <2>1. TypeOK'
      BY <1>7 DEF Refuse, TypeOK
    <2>2. Starting' /\ TopicsKept' /\ Resubscribing'
      BY <1>7 DEF Refuse, TypeOK
    <2> QED
      BY <2>1, <2>2
  <1>8. ASSUME Drop PROVE LinkInv'
    <2>1. TypeOK'
      BY <1>8 DEF Drop, TypeOK
    <2>2. Starting' /\ TopicsKept' /\ Resubscribing'
      BY <1>8 DEF Drop, TypeOK
    <2> QED
      BY <2>1, <2>2
  <1>9. ASSUME Notice PROVE LinkInv'
    <2>1. TypeOK'
      BY <1>9 DEF Notice, TypeOK
    <2>2. Starting' /\ TopicsKept' /\ Resubscribing'
      BY <1>9 DEF Notice, TypeOK
    <2> QED
      BY <2>1, <2>2
  <1>10. ASSUME NEW t \in Topics, TakePacket(t) PROVE LinkInv'
    <2>1. TypeOK'
      BY <1>10 DEF TakePacket, TypeOK
    <2>2. Starting' /\ TopicsKept' /\ Resubscribing'
      BY <1>10 DEF TakePacket, TypeOK
    <2> QED
      BY <2>1, <2>2
  <1>11. ASSUME NEW t \in Topics, OnMessage(t) PROVE LinkInv'
    <2>1. TypeOK'
      BY <1>11 DEF OnMessage, TypeOK
    <2>2. Starting' /\ TopicsKept' /\ Resubscribing'
      BY <1>11 DEF OnMessage, TypeOK
    <2> QED
      BY <2>1, <2>2
  <1>12. ASSUME OnConnect PROVE LinkInv'
    <2>1. TypeOK'
      BY <1>12 DEF OnConnect, TypeOK
    <2>2. Starting' /\ TopicsKept' /\ Resubscribing'
      BY <1>12 DEF OnConnect, TypeOK
    <2> QED
      BY <2>1, <2>2
  <1>13. ASSUME NEW t \in Topics, Resubscribe(t) PROVE LinkInv'
    <2>1. TypeOK'
      BY <1>13 DEF Resubscribe, TypeOK
    <2>2. Starting' /\ TopicsKept' /\ Resubscribing'
      BY <1>13 DEF Resubscribe, TypeOK
    <2> QED
      BY <2>1, <2>2
  <1>14. ASSUME SendOnline PROVE LinkInv'
    <2>1. TypeOK'
      BY <1>14 DEF SendOnline, TypeOK
    <2>2. Starting' /\ TopicsKept' /\ Resubscribing'
      BY <1>14 DEF SendOnline, TypeOK
    <2> QED
      BY <2>1, <2>2
  <1>15. ASSUME OnRefused PROVE LinkInv'
    <2>1. TypeOK'
      BY <1>15 DEF OnRefused, TypeOK
    <2>2. Starting' /\ TopicsKept' /\ Resubscribing'
      BY <1>15 DEF OnRefused, TypeOK
    <2> QED
      BY <2>1, <2>2
  <1>16. ASSUME OnDisconnect PROVE LinkInv'
    <2>1. TypeOK'
      BY <1>16 DEF OnDisconnect, TypeOK
    <2>2. Starting' /\ TopicsKept' /\ Resubscribing'
      BY <1>16 DEF OnDisconnect, TypeOK
    <2> QED
      BY <2>1, <2>2
  <1>17. ASSUME SendOffline PROVE LinkInv'
    <2>1. TypeOK'
      BY <1>17 DEF SendOffline, TypeOK
    <2>2. Starting' /\ TopicsKept' /\ Resubscribing'
      BY <1>17 DEF SendOffline, TypeOK
    <2> QED
      BY <2>1, <2>2
  <1>18. ASSUME Consume PROVE LinkInv'
    <2>1. TypeOK'
      <3>1. events \in Events /\ events # <<>>
        BY <1>18 DEF Consume, TypeOK, Events
      <3>2. Tail(events) \in Events
        BY <3>1, HeadTailProperties DEF Events
      <3>3. heard' \in {"online", "offline"}
        <4>1. Head(events) \in {"online", "offline", "update"}
          BY <3>1, HeadTailProperties DEF Events
        <4> QED
          BY <1>18, <4>1 DEF Consume, TypeOK
      <3>4. misled' \in BOOLEAN
        BY <1>18 DEF Consume, TypeOK
      <3> QED
        BY <1>18, <3>2, <3>3, <3>4 DEF Consume, TypeOK, Events
    <2>2. Starting' /\ TopicsKept' /\ Resubscribing'
      BY <1>18 DEF Consume, TypeOK
    <2> QED
      BY <2>1, <2>2
  <1>19. CASE UNCHANGED vars
    BY <1>19 DEF vars, TypeOK
  <1> QED
    BY <1>1, <1>2, <1>3, <1>4, <1>5, <1>6, <1>7, <1>8, <1>9,
       <1>10, <1>11, <1>12, <1>13, <1>14, <1>15, <1>16, <1>17, <1>18, <1>19
       DEF Next, MainStep, LoopStep

\* So it holds in every reachable state.
LEMMA LinkInvariant == Spec => []LinkInv
  BY InitLink, NextLink, PTL DEF Spec

\* The types hold of every run.
THEOREM TypeCorrectness == Spec => []TypeOK
  BY LinkInvariant, PTL DEF LinkInv

\* The topic list needs no lock: the workers start when it is complete.
THEOREM ListIsNotShared == Spec => []ListNotShared
  <1>1. LinkInv => ListNotShared
    BY DEF LinkInv, Starting, ListNotShared
  <1> QED
    BY <1>1, LinkInvariant, PTL

\* Every session gets every topic.
THEOREM NoTopicIsMissed == Spec => []NoTopicMissed
  <1>1. LinkInv => NoTopicMissed
    BY DEF LinkInv, Resubscribing, NoTopicMissed
  <1> QED
    BY <1>1, LinkInvariant, PTL
-----------------------------------------------------------------------------
(* What the listener will have heard when it is through with the queue.      *)

\* The event at i, where 0 stands for the link event heard last.
Said(i) == IF i = 0 THEN heard ELSE events[i]

\* The last link event that the listener has heard or will hear.
LastHeard(s) ==
    \E i \in 0 .. Len(events) :
        /\ Said(i) = s
        /\ \A j \in i + 1 .. Len(events) : events[j] = "update"

\* What a callback still has to send, and the queue says the rest.
Told ==
    /\ session = "up" /\ callback = "idle" => m_conn_status = "CONNECTED"
    /\ session # "lost" /\ callback = "idle" =>
          /\ m_conn_status = "CONNECTED" => LastHeard("online")
          /\ m_conn_status = "DISCONNECTED" => LastHeard("offline")
    /\ callback = "resubscribe" => m_conn_status = "CONNECTED"
    /\ callback = "offline" => m_conn_status = "DISCONNECTED"
    /\ callback = "refused" => session = "lost"
    /\ callback \in {"disconnected", "offline"} => session = "down"

\* An update in the queue comes after "online" or after another update.
InSession ==
    /\ ~misled
    /\ \A i \in 1 .. Len(events) : events[i] = "update" => Said(i - 1) # "offline"

\* The queue is a sequence of the three events.
LEMMA EventsTyped ==
  ASSUME TypeOK
  PROVE  /\ Len(events) \in Nat /\ DOMAIN events = 1 .. Len(events)
         /\ \A i \in 1 .. Len(events) : events[i] \in {"online", "offline", "update"}
  BY DEF TypeOK

\* What a callback sends is heard last, and an update does not count.
LEMMA SentIsLast ==
  ASSUME TypeOK, NEW e \in {"online", "offline", "update"},
         events' = Append(events, e), heard' = heard
  PROVE  /\ e # "update" => LastHeard(e)'
         /\ \A s : e = "update" /\ LastHeard(s) => LastHeard(s)'
         /\ \A i \in 0 .. Len(events) : Said(i)' = Said(i)
  <1>1. /\ Len(events) \in Nat /\ Len(events') = Len(events) + 1
        /\ events'[Len(events) + 1] = e
        /\ \A i \in 1 .. Len(events) : events'[i] = events[i]
    BY EventsTyped DEF TypeOK
  <1>2. \A i \in 0 .. Len(events) : Said(i)' = Said(i)
    BY <1>1 DEF Said
  <1>3. e # "update" => LastHeard(e)'
    <2>1. Said(Len(events))' = e
      BY <1>1 DEF Said
    <2> QED
      BY <1>1, <2>1 DEF LastHeard
  <1>4. ASSUME NEW s, e = "update", LastHeard(s) PROVE LastHeard(s)'
    <2>1. PICK i \in 0 .. Len(events) :
             Said(i) = s /\ \A j \in i + 1 .. Len(events) : events[j] = "update"
      BY <1>4 DEF LastHeard
    <2>2. Said(i)' = s /\ i \in 0 .. Len(events')
      BY <1>1, <1>2, <2>1
    <2>3. \A j \in i + 1 .. Len(events') : events'[j] = "update"
      BY <1>1, <1>4, <2>1
    <2> QED
      BY <2>2, <2>3 DEF LastHeard
  <1> QED
    BY <1>2, <1>3, <1>4

\* The listener takes the next event.
LEMMA ConsumeShifts ==
  ASSUME TypeOK, Consume
  PROVE  /\ Len(events) \in Nat \ {0} /\ Len(events') = Len(events) - 1
         /\ \A i \in 1 .. Len(events) - 1 : events'[i] = events[i + 1]
         /\ Head(events) = events[1]
  <1>1. events \in Seq({"online", "offline", "update"}) /\ events # <<>>
    BY DEF TypeOK, Consume
  <1> QED
    BY <1>1 DEF Consume

\* Handling an event leaves the last link event said as it was.
LEMMA HeardIsLast ==
  ASSUME TypeOK, Consume, NEW s \in {"online", "offline"}, LastHeard(s)
  PROVE  LastHeard(s)'
  <1>1. PICK i \in 0 .. Len(events) :
           Said(i) = s /\ \A j \in i + 1 .. Len(events) : events[j] = "update"
    BY DEF LastHeard
  <1>2. CASE i \in {0, 1}
    <2>1. Said(0)' = s
      BY <1>1, <1>2, ConsumeShifts DEF Said, Consume
    <2>2. \A j \in 1 .. Len(events') : events'[j] = "update"
      BY <1>1, <1>2, ConsumeShifts
    <2> QED
      BY <2>1, <2>2, ConsumeShifts DEF LastHeard
  <1>3. CASE i \notin {0, 1}
    <2>1. i - 1 \in 1 .. Len(events') /\ Said(i - 1)' = s
      BY <1>1, <1>3, ConsumeShifts DEF Said
    <2>2. \A j \in (i - 1) + 1 .. Len(events') : events'[j] = "update"
      BY <1>1, <1>3, ConsumeShifts
    <2> QED
      BY <2>1, <2>2, ConsumeShifts DEF LastHeard
  <1> QED
    BY <1>2, <1>3

\* Handling an event leaves every update after an online.
LEMMA ConsumeInSession ==
  ASSUME TypeOK, Consume, InSession
  PROVE  InSession'
  <1>1. events[1] = "update" => heard = "online" /\ heard' = heard
    <2>1. events[1] = "update" => Said(0) # "offline"
      BY ConsumeShifts DEF InSession
    <2> QED
      BY <2>1, ConsumeShifts DEF Said, Consume, TypeOK
  <1>2. ~misled'
    BY <1>1, ConsumeShifts DEF Consume, InSession
  <1>3. ASSUME NEW i \in 1 .. Len(events'), events'[i] = "update"
        PROVE  Said(i - 1)' # "offline"
    <2>1. i + 1 \in 1 .. Len(events) /\ events[i + 1] = "update"
      BY <1>3, ConsumeShifts
    <2>2. Said(i) # "offline" /\ Said(i) = events[i]
      BY <1>3, <2>1, ConsumeShifts DEF InSession, Said
    <2>3. CASE i = 1
      BY <1>1, <2>2, <2>3, ConsumeShifts DEF Said, Consume
    <2>4. CASE i # 1
      BY <1>3, <2>2, <2>4, ConsumeShifts DEF Said
    <2> QED
      BY <2>3, <2>4
  <1> QED
    BY <1>2, <1>3 DEF InSession

\* A step that leaves the queue alone, and one that sends.
LEMMA NothingSent ==
  ASSUME UNCHANGED <<events, heard, misled>>
  PROVE  /\ \A s : LastHeard(s)' <=> LastHeard(s)
         /\ InSession' <=> InSession
  BY DEF LastHeard, Said, InSession

\* So does sending one, when an update is sent only with online said last.
LEMMA SendInSession ==
  ASSUME TypeOK, InSession, NEW e \in {"online", "offline", "update"},
         events' = Append(events, e), UNCHANGED listener,
         e = "update" => LastHeard("online")
  PROVE  InSession'
  <1> USE DEF listener
  <1>1. /\ Len(events) \in Nat /\ Len(events') = Len(events) + 1
        /\ events'[Len(events) + 1] = e
        /\ \A i \in 1 .. Len(events) : events'[i] = events[i]
    BY EventsTyped DEF TypeOK
  <1>2. \A i \in 0 .. Len(events) : Said(i)' = Said(i)
    BY SentIsLast
  <1>3. e = "update" => Said(Len(events)) # "offline"
    BY <1>1 DEF LastHeard, Said
  <1>4. ASSUME NEW i \in 1 .. Len(events'), events'[i] = "update"
        PROVE  Said(i - 1)' # "offline"
    <2>1. CASE i = Len(events) + 1
      BY <1>1, <1>2, <1>3, <1>4, <2>1
    <2>2. CASE i \in 1 .. Len(events)
      BY <1>1, <1>2, <1>4, <2>2 DEF InSession
    <2> QED
      BY <1>1, <2>1, <2>2
  <1> QED
    BY <1>4 DEF InSession

\* At the start the link is down and the listener takes it as down.
LEMMA InitTold == Init => Told /\ InSession
  BY DEF Init, Told, InSession, LastHeard, Said

\* Every step of the library and of the listener keeps both.
LEMMA NextTold == TypeOK /\ Told /\ InSession /\ [Next]_vars => Told' /\ InSession'
  <1> SUFFICES ASSUME TypeOK, Told, InSession, [Next]_vars PROVE Told' /\ InSession'
    OBVIOUS
  <1> USE DEF client, broker, loop, listener
  <1>1. ASSUME NEW t \in Topics, SubscribeTopic(t) PROVE Told' /\ InSession'
    BY <1>1, NothingSent DEF SubscribeTopic, Told
  <1>2. ASSUME StoreTopic \/ StartWorkers \/ SeeState PROVE Told' /\ InSession'
    BY <1>2, NothingSent DEF StoreTopic, StartWorkers, SeeState, Told
  <1>3. ASSUME Connect PROVE Told' /\ InSession'
    BY <1>3, NothingSent DEF Connect, Told
  <1>4. ASSUME Accept \/ Refuse \/ Drop \/ Notice PROVE Told' /\ InSession'
    BY <1>4, NothingSent DEF Accept, Refuse, Drop, Notice, Told, TypeOK
  <1>5. ASSUME NEW t \in Topics, TakePacket(t) \/ Resubscribe(t) PROVE Told' /\ InSession'
    BY <1>5, NothingSent DEF TakePacket, Resubscribe, Told
  <1>6. ASSUME OnConnect \/ OnRefused \/ OnDisconnect PROVE Told' /\ InSession'
    BY <1>6, NothingSent DEF OnConnect, OnRefused, OnDisconnect, Told
  <1>7. ASSUME NEW t \in Topics, OnMessage(t) PROVE Told' /\ InSession'
    <2>1. LastHeard("online") /\ events' = Append(events, "update") /\ UNCHANGED listener
      BY <1>7 DEF OnMessage, Told
    <2>2. InSession'
      BY <2>1, SendInSession
    <2>3. LastHeard("online")' /\ (LastHeard("offline") => LastHeard("offline")')
      BY <2>1, SentIsLast
    <2> QED
      BY <1>7, <2>2, <2>3 DEF OnMessage, Told
  <1>8. ASSUME SendOnline PROVE Told' /\ InSession'
    <2>1. LastHeard("online")' /\ InSession'
      BY <1>8, SentIsLast, SendInSession DEF SendOnline
    <2> QED
      BY <1>8, <2>1 DEF SendOnline, Told
  <1>9. ASSUME SendOffline PROVE Told' /\ InSession'
    <2>1. LastHeard("offline")' /\ InSession'
      BY <1>9, SentIsLast, SendInSession DEF SendOffline
    <2> QED
      BY <1>9, <2>1 DEF SendOffline, Told
  <1>10. ASSUME Consume PROVE Told' /\ InSession'
    <2>1. \A s \in {"online", "offline"} : LastHeard(s) => LastHeard(s)'
      BY <1>10, HeardIsLast
    <2>2. UNCHANGED <<session, callback, m_conn_status>>
      BY <1>10 DEF Consume
    <2>3. Told'
      BY <2>1, <2>2 DEF Told
    <2> QED
      BY <1>10, <2>3, ConsumeInSession
  <1>11. CASE UNCHANGED vars
    BY <1>11, NothingSent DEF vars, Told
  <1> QED
    BY <1>1, <1>2, <1>3, <1>4, <1>5, <1>6, <1>7, <1>8, <1>9, <1>10, <1>11
       DEF Next, MainStep, LoopStep

\* So both hold in every reachable state.
LEMMA ToldInvariant == Spec => [](TypeOK /\ Told /\ InSession)
  <1>1. Init => Told /\ InSession
    BY InitTold
  <1>2. TypeOK /\ Told /\ InSession /\ [Next]_vars => Told' /\ InSession'
    BY NextTold
  <1> QED
    BY <1>1, <1>2, TypeCorrectness, PTL DEF Spec

\* With nothing left to hear, what the listener has heard is the truth.
THEOREM ListenerIsInformed == Spec => []ListenerInformed
  <1>1. TypeOK /\ Told => ListenerInformed
    <2> SUFFICES ASSUME TypeOK, Told, events = <<>>, callback = "idle", session # "lost"
                 PROVE  heard = "online" <=> m_conn_status = "CONNECTED"
      BY DEF ListenerInformed
    <2>1. Len(events) = 0
      OBVIOUS
    <2>2. \A s : LastHeard(s) => heard = s
      BY <2>1 DEF LastHeard, Said
    <2> QED
      BY <2>2 DEF TypeOK, Told
  <1> QED
    BY <1>1, ToldInvariant, PTL

\* A message reaches the listener after the "online" of its session.
THEOREM UpdatesComeOnline == Spec => []UpdatesWhileOnline
  <1>1. InSession => UpdatesWhileOnline
    BY DEF InSession, UpdatesWhileOnline
  <1> QED
    BY <1>1, ToldInvariant, PTL
=============================================================================
