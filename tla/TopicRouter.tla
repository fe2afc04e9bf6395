---------------------------- MODULE TopicRouter ----------------------------
(***************************************************************************)
(* processTopicUpdate: one MQTT message through the table of devices.      *)
(*                                                                         *)
(* A message on a device's input topic carries the values of its input     *)
(* channels, separated by commas; a message on the topic of an output      *)
(* channel is a command for its device. A channel with a value mapping     *)
(* translates between numbers and texts. A text is a member of Texts and a *)
(* message the sequence of its fields, as parseIncomingTopic splits it.    *)
(* The supervision the same function does is modelled in DeviceWatch.      *)
(***************************************************************************)
EXTENDS Integers, Sequences

CONSTANTS
    Tables,   \* the device tables CDeviceConfig may have read
    Arrivals, \* the <<topic, message>> pairs the broker may deliver
    Texts,    \* the fields a message is made of
    Stoi      \* std::stoi: <<n>> for each text, or <<>> when it throws

\* A channel's number is unsigned, and the first of a mapp_item_t a uint16_t.
RouterDeviceChannel ==
    [number : Nat, mqtt_topic : STRING,
     value_mapping : Seq((0 .. 2^16 - 1) \X Texts)]

RouterDeviceItem ==
    [input_mqtt_topic : STRING, output_mqtt_topic : STRING,
     status_mqtt_topic : STRING, input_mapping : Seq(RouterDeviceChannel),
     output_mapping : Seq(RouterDeviceChannel)]

\* data[number] is read without a check: the table has to number its
\* channels below the count of fields that the code compares with.
ASSUME TopicRouterAssumption ==
    /\ Tables \subseteq Seq(RouterDeviceItem)
    /\ Arrivals \subseteq STRING \X Seq(Texts)
    /\ Stoi \in [Texts -> Seq(Int)]
    /\ \A text \in Texts : Len(Stoi[text]) <= 1
    /\ \A table \in Tables : \A d \in DOMAIN table :
          LET inputs == table[d].input_mapping IN
          \A i \in DOMAIN inputs : inputs[i].number \in 0..(Len(inputs) - 1)

VARIABLES
    m_wb_vector, \* the device table
    topic, msg,  \* the message being routed
    phase,       \* where processTopicUpdate is
    r_itm,       \* the index of its loop over the devices
    ch,          \* the index of its loop over the channels
    out          \* the calls of setTopic for this message

vars == <<m_wb_vector, topic, msg, phase, r_itm, ch, out>>

message == <<m_wb_vector, topic, msg>>

Init ==
    /\ m_wb_vector \in Tables
    /\ \E arrival \in Arrivals : topic = arrival[1] /\ msg = arrival[2]
    /\ phase = "waiting"
    /\ r_itm = 1
    /\ ch = 1
    /\ out = <<>>

Device == m_wb_vector[r_itm]
Input == Device.input_mapping[ch]
Output == Device.output_mapping[ch]

setTopic(to, what) == out' = Append(out, <<to, what>>)

\* The first pair <<value_int, value_str>> of a channel's value_mapping with
\* this value at k, as a sequence of at most one.
FirstOf(mapping, k, value) ==
    LET found == {i \in DOMAIN mapping : mapping[i][k] = value}
    IN  IF found = {} THEN <<>>
        ELSE <<mapping[CHOOSE i \in found : \A j \in found : i <= j]>>

-----------------------------------------------------------------------------
Receive(arrival) ==
    /\ phase = "waiting"
    /\ topic' = arrival[1]
    /\ msg' = arrival[2]
    /\ phase' = "device"
    /\ r_itm' = 1
    /\ ch' = 1
    /\ out' = <<>>
    /\ UNCHANGED m_wb_vector

NextDevice ==
    /\ phase' = "device"
    /\ r_itm' = r_itm + 1
    /\ ch' = 1
    /\ UNCHANGED message

\* The loop over the devices is over.
Finish ==
    /\ phase = "device"
    /\ r_itm > Len(m_wb_vector)
    /\ phase' = "waiting"
    /\ UNCHANGED <<message, r_itm, ch, out>>

\* Mutant of MatchInput: the number of fields is not compared.
MatchInput_AnyCount ==
    /\ phase = "device"
    /\ r_itm <= Len(m_wb_vector)
    /\ topic = Device.input_mqtt_topic
    /\ phase' = IF Len(msg) <= Len(Device.input_mapping)
                THEN "inputs" ELSE "status"
    /\ UNCHANGED <<message, r_itm, ch, out>>

\* The device's own message: its fields are used if their number is right.
MatchInput ==
    /\ phase = "device"
    /\ r_itm <= Len(m_wb_vector)
    /\ topic = Device.input_mqtt_topic
    /\ phase' = IF Len(msg) = Len(Device.input_mapping)
                THEN "inputs" ELSE "status"
    /\ UNCHANGED <<message, r_itm, ch, out>>

\* Any other message may be a command for the device.
MatchOther ==
    /\ phase = "device"
    /\ r_itm <= Len(m_wb_vector)
    /\ topic # Device.input_mqtt_topic
    /\ phase' = "outputs"
    /\ UNCHANGED <<message, r_itm, ch, out>>

-----------------------------------------------------------------------------
(* The inputs.                                                               *)

AtInput == phase = "inputs" /\ ch <= Len(Device.input_mapping)
Data == msg[Input.number + 1]

PublishRaw ==
    /\ AtInput
    /\ Input.value_mapping = <<>>
    /\ setTopic(Input.mqtt_topic, <<"text", Data>>)
    /\ ch' = ch + 1
    /\ UNCHANGED <<message, phase, r_itm>>

\* Mutant of PublishMapped: the mapping is taken by position.
PublishMapped_ByIndex ==
    /\ AtInput
    /\ Input.value_mapping # <<>>
    /\ Stoi[Data] # <<>>
    /\ IF Stoi[Data][1] + 1 \in DOMAIN Input.value_mapping
       THEN setTopic(Input.mqtt_topic,
                     <<"text", Input.value_mapping[Stoi[Data][1] + 1][2]>>)
       ELSE UNCHANGED out
    /\ phase' = "status"
    /\ UNCHANGED <<message, r_itm, ch>>

\* The break after the inner loop leaves the loop over the inputs.
PublishMapped ==
    /\ AtInput
    /\ Input.value_mapping # <<>>
    /\ Stoi[Data] # <<>>
    /\ LET found == FirstOf(Input.value_mapping, 1, Stoi[Data][1])
       IN  IF found # <<>>
           THEN setTopic(Input.mqtt_topic, <<"text", found[1][2]>>)
           ELSE UNCHANGED out
    /\ phase' = "status"
    /\ UNCHANGED <<message, r_itm, ch>>

\* std::stoi throws: mqttEventProcessFunc reports it and the rest is lost.
StoiThrows ==
    /\ AtInput
    /\ Input.value_mapping # <<>>
    /\ Stoi[Data] = <<>>
    /\ phase' = "failed"
    /\ UNCHANGED <<message, r_itm, ch, out>>

InputsDone ==
    /\ phase = "inputs"
    /\ ch > Len(Device.input_mapping)
    /\ phase' = "status"
    /\ UNCHANGED <<message, r_itm, ch, out>>

\* Mutant of StatusOk: only a message that was understood counts.
StatusOk_IfUsed ==
    /\ phase = "status"
    /\ IF Len(msg) = Len(Device.input_mapping)
       THEN setTopic(Device.status_mqtt_topic, <<"ok">>) ELSE UNCHANGED out
    /\ NextDevice

StatusOk ==
    /\ phase = "status"
    /\ setTopic(Device.status_mqtt_topic, <<"ok">>)
    /\ NextDevice

-----------------------------------------------------------------------------
(* The outputs.                                                              *)

AtOutput == phase = "outputs" /\ ch <= Len(Device.output_mapping)

\* Mutant of Concerned: the output topic may be missing.
Concerned_NoTopic == topic = Output.mqtt_topic

Concerned == topic = Output.mqtt_topic /\ Device.output_mqtt_topic # ""

SkipOutput ==
    /\ AtOutput
    /\ ~Concerned
    /\ ch' = ch + 1
    /\ UNCHANGED <<message, phase, r_itm, out>>

CommandRaw ==
    /\ AtOutput
    /\ Concerned
    /\ Output.value_mapping = <<>>
    /\ setTopic(Device.output_mqtt_topic, <<"set", Output.number, msg>>)
    /\ ch' = ch + 1
    /\ UNCHANGED <<message, phase, r_itm>>

\* The break leaves the loop over the outputs.
CommandMapped ==
    /\ AtOutput
    /\ Concerned
    /\ Output.value_mapping # <<>>
    /\ LET found == IF Len(msg) = 1
                    THEN FirstOf(Output.value_mapping, 2, msg[1])
                    ELSE <<>>
       IN  IF found # <<>>
           THEN setTopic(Device.output_mqtt_topic,
                         <<"value", Output.number, found[1][1]>>)
           ELSE UNCHANGED out
    /\ NextDevice

\* Mutant of OutputsDone: the index of the devices is incremented twice.
OutputsDone_Twice ==
    /\ phase = "outputs"
    /\ ch > Len(Device.output_mapping)
    /\ phase' = "device"
    /\ r_itm' = r_itm + 2
    /\ ch' = 1
    /\ UNCHANGED <<message, out>>

OutputsDone ==
    /\ phase = "outputs"
    /\ ch > Len(Device.output_mapping)
    /\ NextDevice
    /\ UNCHANGED out

\* The listener is back in its loop after the exception.
Recover ==
    /\ phase = "failed"
    /\ phase' = "waiting"
    /\ UNCHANGED <<message, r_itm, ch, out>>

-----------------------------------------------------------------------------
Next ==
    \/ \E arrival \in Arrivals : Receive(arrival)
    \/ Finish
    \/ MatchInput
    \/ MatchOther
    \/ PublishRaw
    \/ PublishMapped
    \/ StoiThrows
    \/ InputsDone
    \/ StatusOk
    \/ SkipOutput
    \/ CommandRaw
    \/ CommandMapped
    \/ OutputsDone
    \/ Recover

Spec == Init /\ [][Next]_vars

-----------------------------------------------------------------------------
(* Properties.                                                               *)

Devices == {m_wb_vector[d] : d \in DOMAIN m_wb_vector}
Elements(s) == {s[i] : i \in DOMAIN s}
Counted(d) == Len(msg) = Len(d.input_mapping)

\* What setTopic is given: a device's status, a value, or a command.
Said ==
    {<<"ok">>}
    \union ({"text"} \X Texts)
    \union ({"set"} \X Nat \X Seq(Texts))
    \union ({"value"} \X Nat \X (0 .. 2^16 - 1))

\* The types of the variables.
TypeOK ==
    /\ m_wb_vector \in Tables
    /\ <<topic, msg>> \in Arrivals
    /\ phase \in {"waiting", "device", "inputs", "status", "outputs", "failed"}
    /\ r_itm \in 1..(Len(m_wb_vector) + 1)
    /\ phase \in {"inputs", "status", "outputs", "failed"}
          => r_itm <= Len(m_wb_vector)
    /\ ch \in Nat \ {0}
    /\ out \in Seq(STRING \X Said)

\* What the table says, as a relation and without loops: the pair that
\* translates, the first of its kind, and the text a channel is given.
First(pair, mapping, k) ==
    \E i \in DOMAIN mapping :
        mapping[i] = pair /\ \A j \in 1..(i - 1) : mapping[j][k] # pair[k]

Means(c, field, text) ==
    IF c.value_mapping = <<>> THEN text = field
    ELSE \E pair \in Elements(c.value_mapping) :
            /\ First(pair, c.value_mapping, 1)
            /\ Stoi[field] = <<pair[1]>> /\ pair[2] = text

\* A device's values go to the topics of its own channels, each with what
\* its own field means, and only when the fields are as many as the channels.
ValuesMeant ==
    \A p \in Elements(out) : p[2][1] = "text" =>
        \E d \in Devices : \E c \in Elements(d.input_mapping) :
            /\ d.input_mqtt_topic = topic
            /\ Counted(d)
            /\ c.mqtt_topic = p[1]
            /\ Means(c, msg[c.number + 1], p[2][2])

\* A command goes to the device that owns the output channel, with the
\* number of that channel and the value that stands for the text.
CommandsMeant ==
    \A p \in Elements(out) : p[2][1] \in {"set", "value"} =>
        \E d \in Devices : \E c \in Elements(d.output_mapping) :
            /\ c.mqtt_topic = topic
            /\ p[1] = d.output_mqtt_topic /\ p[1] # ""
            /\ p[2][2] = c.number
            /\ IF c.value_mapping = <<>> THEN p[2] = <<"set", c.number, msg>>
               ELSE \E pair \in Elements(c.value_mapping) :
                       /\ First(pair, c.value_mapping, 2)
                       /\ msg = <<pair[2]>> /\ p[2][3] = pair[1]

\* A message that was routed to the end has said "ok" of every device whose
\* input topic it came on, whatever its fields, and of no other device.
OkWhenHeard ==
    (phase = "device" /\ r_itm > Len(m_wb_vector)) =>
        \A d \in Devices :
            <<d.status_mqtt_topic, <<"ok">>>> \in Elements(out)
                <=> d.input_mqtt_topic = topic

\* "update inputs", CWirelessBridge.cpp:206: a message with the right number
\* of fields updates the topic of every channel whose field means something.
InputsUpdated ==
    (phase = "device" /\ r_itm > Len(m_wb_vector)) =>
        \A d \in Devices : d.input_mqtt_topic = topic /\ Counted(d) =>
            \A c \in Elements(d.input_mapping) :
                (\E text \in Texts : Means(c, msg[c.number + 1], text))
                    => \E p \in Elements(out) : p[1] = c.mqtt_topic
=============================================================================
