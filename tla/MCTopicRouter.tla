--------------------------- MODULE MCTopicRouter ---------------------------
(* TopicRouter on small device tables.                                       *)
EXTENDS TopicRouter

Raw == <<>>
Switch == <<<<0, "off">>, <<1, "on">>>>
Inverted == <<<<1, "off">>, <<0, "on">>, <<0, "off">>>>

Channel(number, mqtt_topic, mapping) ==
    [number |-> number, mqtt_topic |-> mqtt_topic, value_mapping |-> mapping]

\* Two inputs and two outputs with any mapping, numbered in either order.
Stations ==
    {[input_mqtt_topic |-> "station", output_mqtt_topic |-> "to_station",
      status_mqtt_topic |-> "station_status",
      input_mapping |-> <<Channel(n, "temp", m1), Channel(1 - n, "motion", m2)>>,
      output_mapping |-> <<Channel(0, "light", m2), Channel(1, alarm, m1)>>] :
        n \in {0, 1}, m1 \in {Raw, Inverted}, m2 \in {Raw, Switch},
        alarm \in {"light", "alarm"}}

\* One input; its output follows the station's input, and may have no topic.
Lamps ==
    {[input_mqtt_topic |-> "lamp", output_mqtt_topic |-> to,
      status_mqtt_topic |-> "lamp_status",
      input_mapping |-> <<Channel(0, "lit", m)>>,
      output_mapping |-> <<Channel(7, "temp", m)>>] :
        to \in {"", "to_lamp"}, m \in {Raw, Switch}}

MCTables == {<<s, l>> : s \in Stations, l \in Lamps}
            \union {<<l, s>> : s \in Stations, l \in Lamps}

MCTexts == {"0", "1", "2", "on", "off"}
MCStoi == [t \in MCTexts |-> CASE t = "0" -> <<0>>
                               [] t = "1" -> <<1>>
                               [] t = "2" -> <<2>>
                               [] OTHER -> <<>>]

MCArrivals ==
    ({"station", "lamp", "light", "alarm", "temp"} \X {<<t>> : t \in MCTexts})
    \union ({"station", "lamp", "light"}
            \X {<<t, u>> : t \in MCTexts, u \in {"0", "1", "on"}})
=============================================================================
