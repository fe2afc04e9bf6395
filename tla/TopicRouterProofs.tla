------------------------- MODULE TopicRouterProofs --------------------------
(***************************************************************************)
(* What processTopicUpdate publishes is what the table means, for every    *)
(* table, every message and every sequence of messages.                    *)
(***************************************************************************)
EXTENDS TopicRouter, WellFoundedInduction, TLAPS

\* A set of numbers has a least element.
LEMMA LeastOf == ASSUME NEW T \in SUBSET Nat, T # {}
                 PROVE  \E x \in T : \A y \in T : x <= y
  <1> DEFINE R == {p \in Nat \X Nat : p[1] < p[2]}
  <1>1. IsWellFoundedOn(R, Nat)
    BY NatLessThanWellFounded DEF OpToRel
  <1>2. PICK x \in T : \A y \in T : ~(<<y, x>> \in R)
    <2> HIDE DEF R
    <2> QED
      BY WFMin, <1>1
  <1>3. ASSUME NEW y \in T PROVE x <= y
    <2>1. ~(<<y, x>> \in R) /\ x \in Nat /\ y \in Nat
      BY <1>2
    <2>2. ~(y < x)
      BY <2>1
    <2> QED
      BY <2>1, <2>2
  <1> QED
    BY <1>3

Pairs == (0 .. 2^16 - 1) \X Texts

\* A pair is made of its two parts.
LEMMA PairParts == ASSUME NEW A, NEW B, NEW q \in A \X B
                   PROVE  q[1] \in A /\ q[2] \in B
  OBVIOUS

\* The loops over value_mapping find the first pair with the value, if any.
LEMMA FoundIsFirst ==
  ASSUME NEW mapping \in Seq(Pairs), NEW k \in {1, 2}, NEW value,
         FirstOf(mapping, k, value) # <<>>
  PROVE  \E pair \in Elements(mapping) :
            /\ FirstOf(mapping, k, value)[1] = pair
            /\ pair[1] \in 0 .. 2^16 - 1 /\ pair[2] \in Texts
            /\ pair[k] = value
            /\ First(pair, mapping, k)
  <1> DEFINE found == {i \in DOMAIN mapping : mapping[i][k] = value}
             least == CHOOSE i \in found : \A j \in found : i <= j
  <1>1. found # {} /\ FirstOf(mapping, k, value) = <<mapping[least]>>
    BY DEF FirstOf
  <1>2. DOMAIN mapping = 1..Len(mapping) /\ Len(mapping) \in Nat
    OBVIOUS
  <1>3. found \in SUBSET Nat
    BY <1>2
  <1>4. \E i \in found : \A j \in found : i <= j
    <2> HIDE DEF found
    <2> QED
      BY <1>1, <1>3, LeastOf
  <1>5. least \in found /\ \A j \in found : least <= j
    <2> HIDE DEF found
    <2> QED
      BY <1>4
  <1> HIDE DEF least
  <1>6. /\ least \in DOMAIN mapping /\ least \in Nat /\ mapping[least][k] = value
        /\ mapping[least] \in Pairs
    BY <1>2, <1>5
  <1>7. \A j \in 1..(least - 1) : mapping[j][k] # mapping[least][k]
    <2> SUFFICES ASSUME NEW j \in 1..(least - 1), mapping[j][k] = value PROVE FALSE
      BY <1>6
    <2>1. j \in found
      BY <1>2, <1>6
    <2>2. least <= j
      BY <1>5, <2>1
    <2> QED
      BY <1>6, <2>2
  <1>8. mapping[least][1] \in 0 .. 2^16 - 1 /\ mapping[least][2] \in Texts
    BY <1>6, PairParts DEF Pairs
  <1>9. mapping[least] \in Elements(mapping) /\ First(mapping[least], mapping, k)
    BY <1>6, <1>7 DEF Elements, First
  <1> QED
    BY <1>1, <1>6, <1>8, <1>9

\* What a step adds to the calls of setTopic.
LEMMA Appended ==
  ASSUME out \in Seq(STRING \X Said), NEW to \in STRING, NEW what \in Said,
         setTopic(to, what)
  PROVE  /\ out' \in Seq(STRING \X Said)
         /\ Elements(out)' = Elements(out) \union {<<to, what>>}
  <1> DEFINE p == <<to, what>>
  <1>1. p \in STRING \X Said /\ out' = Append(out, p)
    BY DEF setTopic
  <1> HIDE DEF p
  <1>2. /\ out' \in Seq(STRING \X Said) /\ Len(out') = Len(out) + 1
        /\ DOMAIN out = 1..Len(out) /\ DOMAIN out' = 1..(Len(out) + 1)
        /\ Len(out) \in Nat
        /\ \A i \in 1..Len(out) : out'[i] = out[i]
        /\ out'[Len(out) + 1] = p
    BY <1>1
  <1>3. \A i : i \in 1..(Len(out) + 1) <=> i \in 1..Len(out) \/ i = Len(out) + 1
    BY <1>2
  <1>4. \A x : x \in Elements(out)' <=> x \in Elements(out) \/ x = p
    BY <1>2, <1>3, Zenon DEF Elements
  <1> QED
    BY <1>2, <1>4 DEF p

-----------------------------------------------------------------------------
\* What is known of the table when the loops are at a device.
LEMMA AtDevice ==
  ASSUME TypeOK, r_itm <= Len(m_wb_vector)
  PROVE  /\ r_itm \in DOMAIN m_wb_vector
         /\ Device \in RouterDeviceItem /\ Device \in Devices
         /\ DOMAIN Device.input_mapping = 1..Len(Device.input_mapping)
         /\ DOMAIN Device.output_mapping = 1..Len(Device.output_mapping)
         /\ Len(Device.input_mapping) \in Nat /\ Len(Device.output_mapping) \in Nat
         /\ topic \in STRING /\ msg \in Seq(Texts)
  <1>1. m_wb_vector \in Tables /\ m_wb_vector \in Seq(RouterDeviceItem)
    BY TopicRouterAssumption DEF TypeOK
  <1>2. r_itm \in 1..Len(m_wb_vector) /\ DOMAIN m_wb_vector = 1..Len(m_wb_vector)
    BY <1>1 DEF TypeOK
  <1>3. Device \in RouterDeviceItem /\ Device \in Devices
    BY <1>1, <1>2 DEF Device, Devices
  <1>4. <<topic, msg>> \in STRING \X Seq(Texts)
    BY TopicRouterAssumption DEF TypeOK
  <1>5. /\ Device.input_mapping \in Seq(RouterDeviceChannel)
        /\ Device.output_mapping \in Seq(RouterDeviceChannel)
    BY <1>3 DEF RouterDeviceItem
  <1> QED
    BY <1>2, <1>3, <1>4, <1>5

\* An input channel whose device has been sent as many fields as it has channels.
LEMMA InputFacts ==
  ASSUME TypeOK, AtInput, Counted(Device)
  PROVE  /\ Input \in RouterDeviceChannel /\ Input \in Elements(Device.input_mapping)
         /\ Data \in Texts
         /\ Stoi[Data] \in Seq(Int) /\ Len(Stoi[Data]) <= 1
  <1>1. r_itm <= Len(m_wb_vector)
    BY DEF TypeOK, AtInput
  <1>2. ch \in 1..Len(Device.input_mapping)
    BY <1>1, AtDevice DEF TypeOK, AtInput
  <1>3. Device.input_mapping \in Seq(RouterDeviceChannel)
    BY <1>1, AtDevice DEF RouterDeviceItem
  <1>4. Input \in RouterDeviceChannel /\ Input \in Elements(Device.input_mapping)
    BY <1>2, <1>3 DEF Input, Elements
  <1>5. Input.number \in 0..(Len(Device.input_mapping) - 1)
    <2>1. m_wb_vector \in Tables /\ r_itm \in DOMAIN m_wb_vector
          /\ ch \in DOMAIN m_wb_vector[r_itm].input_mapping
      BY <1>1, <1>2, AtDevice DEF TypeOK, Device
    <2> QED
      BY <2>1, TopicRouterAssumption DEF Input, Device
  <1>6. msg \in Seq(Texts) /\ Input.number + 1 \in 1..Len(msg)
    BY <1>1, <1>5, AtDevice DEF Counted
  <1>7. Data \in Texts
    BY <1>6 DEF Data
  <1> QED
    BY <1>4, <1>7, TopicRouterAssumption

\* The output channel the loop has come to is one of the device's.
LEMMA OutputFacts ==
  ASSUME TypeOK, AtOutput
  PROVE  Output \in RouterDeviceChannel /\ Output \in Elements(Device.output_mapping)
  <1>1. r_itm <= Len(m_wb_vector)
    BY DEF TypeOK, AtOutput
  <1>2. ch \in 1..Len(Device.output_mapping)
    BY <1>1, AtDevice DEF TypeOK, AtOutput
  <1>3. Device.output_mapping \in Seq(RouterDeviceChannel)
    BY <1>1, AtDevice DEF RouterDeviceItem
  <1> QED
    BY <1>2, <1>3 DEF Output, Elements

-----------------------------------------------------------------------------
(* What the loop over the devices knows of the message.                      *)

Routing ==
    /\ phase = "inputs" => topic = Device.input_mqtt_topic /\ Counted(Device)
    /\ phase = "status" => topic = Device.input_mqtt_topic
    /\ phase = "outputs" => topic # Device.input_mqtt_topic

\* What one call of setTopic has to be, as the properties say of all.
ValueMeant(p) ==
    p[2][1] = "text" =>
        \E d \in Devices : \E c \in Elements(d.input_mapping) :
            /\ d.input_mqtt_topic = topic
            /\ Counted(d)
            /\ c.mqtt_topic = p[1]
            /\ Means(c, msg[c.number + 1], p[2][2])

CommandMeant(p) ==
    p[2][1] \in {"set", "value"} =>
        \E d \in Devices : \E c \in Elements(d.output_mapping) :
            /\ c.mqtt_topic = topic
            /\ p[1] = d.output_mqtt_topic /\ p[1] # ""
            /\ p[2][2] = c.number
            /\ IF c.value_mapping = <<>> THEN p[2] = <<"set", c.number, msg>>
               ELSE \E pair \in Elements(c.value_mapping) :
                       /\ First(pair, c.value_mapping, 2)
                       /\ msg = <<pair[2]>> /\ p[2][3] = pair[1]

Meant(p) == ValueMeant(p) /\ CommandMeant(p)

\* The two properties speak of each publication on its own.
LEMMA MeantIsAll ==
  (\A p \in Elements(out) : Meant(p)) <=> ValuesMeant /\ CommandsMeant
  BY DEF Meant, ValueMeant, CommandMeant, ValuesMeant, CommandsMeant

\* The calls of setTopic: each has its type and says what the table means.
LEMMA RawIsMeant ==
  ASSUME TypeOK, Routing, PublishRaw
  PROVE  LET p == <<Input.mqtt_topic, <<"text", Data>>>>
         IN  p \in STRING \X Said /\ Meant(p)
  <1> DEFINE p == <<Input.mqtt_topic, <<"text", Data>>>>
  <1>1. AtInput /\ Input.value_mapping = <<>> /\ r_itm <= Len(m_wb_vector)
        /\ topic = Device.input_mqtt_topic /\ Counted(Device)
    BY DEF PublishRaw, AtInput, TypeOK, Routing
  <1>2. Input \in RouterDeviceChannel /\ Input \in Elements(Device.input_mapping)
        /\ Data \in Texts /\ Device \in Devices
    BY <1>1, InputFacts, AtDevice
  <1>3. p \in STRING \X Said
    BY <1>2 DEF RouterDeviceChannel, Said
  <1>4. ValueMeant(p)
    <2>1. p[1] = Input.mqtt_topic /\ p[2][2] = msg[Input.number + 1]
      BY DEF Data
    <2>2. Means(Input, msg[Input.number + 1], p[2][2])
      BY <1>1, <2>1 DEF Means
    <2> HIDE DEF p
    <2> QED
      BY <1>1, <1>2, <2>1, <2>2 DEF ValueMeant
  <1>5. CommandMeant(p)
    BY DEF CommandMeant
  <1> QED
    BY <1>3, <1>4, <1>5 DEF Meant

\* A value published by a mapping is that of the first pair with the field.
LEMMA MappedIsMeant ==
  ASSUME TypeOK, Routing, PublishMapped, NEW found,
         found = FirstOf(Input.value_mapping, 1, Stoi[Data][1]), found # <<>>
  PROVE  LET p == <<Input.mqtt_topic, <<"text", found[1][2]>>>>
         IN  p \in STRING \X Said /\ Meant(p)
  <1> DEFINE p == <<Input.mqtt_topic, <<"text", found[1][2]>>>>
  <1>1. AtInput /\ Input.value_mapping # <<>> /\ Stoi[Data] # <<>>
        /\ r_itm <= Len(m_wb_vector)
        /\ topic = Device.input_mqtt_topic /\ Counted(Device)
    BY DEF PublishMapped, AtInput, TypeOK, Routing
  <1>2. /\ Input \in RouterDeviceChannel /\ Input \in Elements(Device.input_mapping)
        /\ Data \in Texts /\ Device \in Devices
        /\ Stoi[Data] \in Seq(Int) /\ Len(Stoi[Data]) <= 1
    BY <1>1, InputFacts, AtDevice
  <1>3. Input.value_mapping \in Seq(Pairs) /\ Input.mqtt_topic \in STRING
    BY <1>2 DEF RouterDeviceChannel, Pairs
  <1>4. PICK pair \in Elements(Input.value_mapping) :
           /\ found[1] = pair
           /\ pair[1] \in 0 .. 2^16 - 1 /\ pair[2] \in Texts
           /\ pair[1] = Stoi[Data][1]
           /\ First(pair, Input.value_mapping, 1)
    BY <1>3, FoundIsFirst
  <1>5. found[1] = pair /\ pair[2] \in Texts
    BY <1>4
  <1>6. p \in STRING \X Said
    BY <1>3, <1>5 DEF Said
  <1>7. Stoi[Data] = <<pair[1]>>
    <2> DEFINE s == Stoi[Data]
    <2>1. s \in Seq(Int) /\ s # <<>> /\ Len(s) <= 1 /\ s[1] = pair[1]
      BY <1>1, <1>2, <1>4
    <2> HIDE DEF s
    <2>2. Len(s) = 1
      <3>1. Len(s) \in Nat /\ Len(s) # 0
        BY <2>1
      <3>2. \A n \in Nat : n # 0 /\ n <= 1 => n = 1
        OBVIOUS
      <3> QED
        BY <2>1, <3>1, <3>2, Zenon
    <2>3. s = <<s[1]>>
      BY <2>1, <2>2
    <2> QED
      BY <2>1, <2>3 DEF s
  <1>8. Means(Input, msg[Input.number + 1], pair[2])
    BY <1>1, <1>4, <1>7 DEF Means, Data
  <1>9. ValueMeant(p)
    <2>1. p[1] = Input.mqtt_topic /\ p[2][2] = pair[2]
      BY <1>5
    <2> HIDE DEF p
    <2> QED
      BY <1>1, <1>2, <1>8, <2>1 DEF ValueMeant
  <1>10. CommandMeant(p)
    BY DEF CommandMeant
  <1> QED
    BY <1>6, <1>9, <1>10 DEF Meant

\* A command without a mapping carries the text as it came.
LEMMA RawCommandIsMeant ==
  ASSUME TypeOK, CommandRaw
  PROVE  LET p == <<Device.output_mqtt_topic, <<"set", Output.number, msg>>>>
         IN  p \in STRING \X Said /\ Meant(p)
  <1> DEFINE p == <<Device.output_mqtt_topic, <<"set", Output.number, msg>>>>
  <1>1. AtOutput /\ Output.value_mapping = <<>> /\ r_itm <= Len(m_wb_vector)
        /\ topic = Output.mqtt_topic /\ Device.output_mqtt_topic # ""
    BY DEF CommandRaw, AtOutput, Concerned, TypeOK
  <1>2. /\ Output \in RouterDeviceChannel /\ Output \in Elements(Device.output_mapping)
        /\ Device \in RouterDeviceItem /\ Device \in Devices /\ msg \in Seq(Texts)
    BY <1>1, OutputFacts, AtDevice
  <1>3. p \in STRING \X Said
    BY <1>2 DEF RouterDeviceChannel, RouterDeviceItem, Said
  <1>4. ValueMeant(p)
    BY DEF ValueMeant
  <1>5. CommandMeant(p)
    <2>1. /\ p[1] = Device.output_mqtt_topic /\ p[2] = <<"set", Output.number, msg>>
          /\ p[2][2] = Output.number
      OBVIOUS
    <2> HIDE DEF p
    <2> QED
      BY <1>1, <1>2, <2>1 DEF CommandMeant
  <1> QED
    BY <1>3, <1>4, <1>5 DEF Meant

\* A command by a mapping carries the value that stands for the text.
LEMMA MappedCommandIsMeant ==
  ASSUME TypeOK, CommandMapped, NEW found, Len(msg) = 1,
         found = FirstOf(Output.value_mapping, 2, msg[1]), found # <<>>
  PROVE  LET p == <<Device.output_mqtt_topic, <<"value", Output.number, found[1][1]>>>>
         IN  p \in STRING \X Said /\ Meant(p)
  <1> DEFINE p == <<Device.output_mqtt_topic, <<"value", Output.number, found[1][1]>>>>
  <1>1. AtOutput /\ Output.value_mapping # <<>> /\ r_itm <= Len(m_wb_vector)
        /\ topic = Output.mqtt_topic /\ Device.output_mqtt_topic # ""
    BY DEF CommandMapped, AtOutput, Concerned, TypeOK
  <1>2. /\ Output \in RouterDeviceChannel /\ Output \in Elements(Device.output_mapping)
        /\ Device \in RouterDeviceItem /\ Device \in Devices /\ msg \in Seq(Texts)
    BY <1>1, OutputFacts, AtDevice
  <1>3. Output.value_mapping \in Seq(Pairs)
    BY <1>2 DEF RouterDeviceChannel, Pairs
  <1>4. PICK pair \in Elements(Output.value_mapping) :
           /\ found[1] = pair
           /\ pair[1] \in 0 .. 2^16 - 1 /\ pair[2] \in Texts
           /\ pair[2] = msg[1]
           /\ First(pair, Output.value_mapping, 2)
    BY <1>3, FoundIsFirst
  <1>5. found[1] = pair /\ pair[1] \in 0 .. 2^16 - 1
    BY <1>4
  <1>6. p \in STRING \X Said
    BY <1>2, <1>5 DEF RouterDeviceChannel, RouterDeviceItem, Said
  <1>7. ValueMeant(p)
    BY DEF ValueMeant
  <1>8. msg = <<pair[2]>>
    BY <1>2, <1>4
  <1>9. CommandMeant(p)
    <2>1. /\ p[1] = Device.output_mqtt_topic
          /\ p[2][2] = Output.number /\ p[2][3] = pair[1]
      BY <1>5
    <2> HIDE DEF p
    <2> QED
      BY <1>1, <1>2, <1>4, <1>8, <2>1 DEF CommandMeant
  <1> QED
    BY <1>6, <1>7, <1>9 DEF Meant

\* The status is neither a value nor a command.
LEMMA StatusIsMeant ==
  ASSUME TypeOK, StatusOk
  PROVE  LET p == <<Device.status_mqtt_topic, <<"ok">>>>
         IN  p \in STRING \X Said /\ Meant(p)
  <1>1. Device \in RouterDeviceItem
    BY AtDevice DEF StatusOk, TypeOK
  <1> QED
    BY <1>1 DEF RouterDeviceItem, Said, Meant, ValueMeant, CommandMeant

-----------------------------------------------------------------------------
\* The calls made for this message stay what they are, and one that means
\* something may be added.
LEMMA MeantKept ==
  ASSUME TypeOK, \A p \in Elements(out) : Meant(p), UNCHANGED message,
         \/ out' = out
         \/ \E to, what : /\ <<to, what>> \in STRING \X Said
                          /\ Meant(<<to, what>>)
                          /\ setTopic(to, what)
  PROVE  /\ out' \in Seq(STRING \X Said)
         /\ (\A p \in Elements(out) : Meant(p))'
  <1>1. out \in Seq(STRING \X Said)
    BY DEF TypeOK
  <1>2. ASSUME NEW p PROVE Meant(p) <=> Meant(p)'
    <2>1. topic' = topic /\ msg' = msg /\ Devices' = Devices
      BY DEF message, Devices
    <2>2. \A d : Counted(d)' <=> Counted(d)
      BY <2>1 DEF Counted
    <2>3. ValueMeant(p)' <=> ValueMeant(p)
      BY <2>1, <2>2, Zenon DEF ValueMeant
    <2>4. CommandMeant(p)' <=> CommandMeant(p)
      BY <2>1, Zenon DEF CommandMeant
    <2> QED
      BY <2>3, <2>4 DEF Meant
  <1>3. CASE out' = out
    BY <1>1, <1>2, <1>3 DEF Elements
  <1>4. ASSUME NEW to, NEW what, <<to, what>> \in STRING \X Said,
               Meant(<<to, what>>), setTopic(to, what)
        PROVE  /\ out' \in Seq(STRING \X Said)
               /\ (\A p \in Elements(out) : Meant(p))'
    <2>1. to \in STRING /\ what \in Said
      BY <1>4
    <2>2. /\ out' \in Seq(STRING \X Said)
          /\ Elements(out)' = Elements(out) \union {<<to, what>>}
      BY <1>1, <1>4, <2>1, Appended
    <2> QED
      BY <1>2, <1>4, <2>2
  <1> QED
    BY <1>3, <1>4

RouterInv == TypeOK /\ Routing /\ \A p \in Elements(out) : Meant(p)

\* What is left of the types when out is taken care of.
Places ==
    /\ m_wb_vector \in Tables
    /\ <<topic, msg>> \in Arrivals
    /\ phase \in {"waiting", "device", "inputs", "status", "outputs", "failed"}
    /\ r_itm \in 1..(Len(m_wb_vector) + 1)
    /\ phase \in {"inputs", "status", "outputs", "failed"}
          => r_itm <= Len(m_wb_vector)
    /\ ch \in Nat \ {0}

\* The type invariant is the loop's places and the publications.
LEMMA TypeSplit == TypeOK <=> Places /\ out \in Seq(STRING \X Said)
  BY DEF TypeOK, Places

\* The router starts in the invariant, with no message.
LEMMA InitRouter == Init => RouterInv
  <1> SUFFICES ASSUME Init PROVE RouterInv
    OBVIOUS
  <1>1. m_wb_vector \in Seq(RouterDeviceItem)
    BY TopicRouterAssumption DEF Init
  <1>2. PICK arrival \in Arrivals : topic = arrival[1] /\ msg = arrival[2]
    BY DEF Init
  <1>3. <<topic, msg>> = arrival
    BY <1>2, TopicRouterAssumption
  <1>4. TypeOK
    BY <1>1, <1>2, <1>3 DEF Init, TypeOK
  <1> QED
    BY <1>4 DEF Init, RouterInv, Routing, Elements

\* Every step keeps the invariant.
LEMMA NextRouter == RouterInv /\ [Next]_vars => RouterInv'
  <1> SUFFICES ASSUME RouterInv, [Next]_vars PROVE RouterInv'
    OBVIOUS
  <1>0. /\ TypeOK /\ Routing /\ Places
        /\ \A p \in Elements(out) : Meant(p)
        /\ Len(m_wb_vector) \in Nat
    <2>1. m_wb_vector \in Seq(RouterDeviceItem)
      BY TopicRouterAssumption DEF RouterInv, TypeOK
    <2> QED
      BY <2>1, TypeSplit DEF RouterInv
  <1>1. ASSUME NEW arrival \in Arrivals, Receive(arrival) PROVE RouterInv'
    <2>1. <<topic', msg'>> = arrival
      BY <1>1, TopicRouterAssumption DEF Receive
    <2>2. TypeOK'
      BY <1>0, <1>1, <2>1 DEF Receive, TypeOK
    <2> QED
      BY <1>1, <2>2 DEF Receive, RouterInv, Routing, Elements
  \* All other steps route the same message.
  <1>2. ASSUME UNCHANGED message, Places', Routing',
               \/ out' = out
               \/ \E to, what : /\ <<to, what>> \in STRING \X Said
                                /\ Meant(<<to, what>>)
                                /\ setTopic(to, what)
        PROVE  RouterInv'
    <2>1. /\ out' \in Seq(STRING \X Said)
          /\ (\A p \in Elements(out) : Meant(p))'
      BY <1>0, <1>2, MeantKept
    <2>2. TypeOK'
      BY <1>2, <2>1 DEF TypeOK, Places
    <2> QED
      BY <1>2, <2>1, <2>2 DEF RouterInv
  <1>3. ASSUME NextDevice, r_itm <= Len(m_wb_vector)
        PROVE  UNCHANGED message /\ Places' /\ Routing'
    BY <1>0, <1>3 DEF NextDevice, message, Places, Routing
  <1>4. ASSUME UNCHANGED <<message, phase, r_itm>>, ch' = ch + 1
        PROVE  Places' /\ Routing'
    BY <1>0, <1>4 DEF message, Places, Routing, Device, Counted
  <1>5. CASE Finish \/ Recover
    <2>1. Places' /\ Routing' /\ UNCHANGED message /\ out' = out
      BY <1>0, <1>5 DEF Finish, Recover, message, Places, Routing
    <2> QED
      BY <1>2, <2>1
  <1>6. CASE MatchInput \/ MatchOther \/ InputsDone \/ StoiThrows
    <2>1. Places' /\ UNCHANGED message /\ out' = out
      BY <1>0, <1>6
         DEF MatchInput, MatchOther, InputsDone, StoiThrows, AtInput, message, Places
    <2>2. Routing'
      BY <1>0, <1>6
         DEF MatchInput, MatchOther, InputsDone, StoiThrows, message, Routing,
             Device, Counted
    <2> QED
      BY <1>2, <2>1, <2>2
  <1>7. CASE PublishRaw
    <2>1. Places' /\ Routing' /\ UNCHANGED message
      BY <1>4, <1>7 DEF PublishRaw
    <2>2. setTopic(Input.mqtt_topic, <<"text", Data>>)
      BY <1>7 DEF PublishRaw
    <2> QED
      BY <1>0, <1>2, <1>7, <2>1, <2>2, RawIsMeant
  <1>8. CASE PublishMapped
    <2>1. Places' /\ Routing' /\ UNCHANGED message
      BY <1>0, <1>8
         DEF PublishMapped, AtInput, message, Places, Routing, Device
    <2> DEFINE found == FirstOf(Input.value_mapping, 1, Stoi[Data][1])
    <2>2. IF found # <<>> THEN setTopic(Input.mqtt_topic, <<"text", found[1][2]>>)
                          ELSE out' = out
      BY <1>8 DEF PublishMapped
    <2>3. CASE found # <<>>
      <3>1. LET p == <<Input.mqtt_topic, <<"text", found[1][2]>>>>
            IN  p \in STRING \X Said /\ Meant(p)
        BY <1>0, <1>8, <2>3, MappedIsMeant
      <3> HIDE DEF found
      <3> QED
        BY <1>2, <2>1, <2>2, <2>3, <3>1
    <2>4. CASE found = <<>>
      BY <1>2, <2>1, <2>2, <2>4
    <2> QED
      BY <2>3, <2>4
  <1>9. CASE StatusOk
    <2>1. r_itm <= Len(m_wb_vector)
      BY <1>0, <1>9 DEF StatusOk, Places
    <2>2. Places' /\ Routing' /\ UNCHANGED message
      BY <1>3, <1>9, <2>1 DEF StatusOk
    <2>3. setTopic(Device.status_mqtt_topic, <<"ok">>)
      BY <1>9 DEF StatusOk
    <2> QED
      BY <1>0, <1>2, <1>9, <2>2, <2>3, StatusIsMeant
  <1>10. CASE SkipOutput
    <2>1. Places' /\ Routing' /\ UNCHANGED message /\ out' = out
      BY <1>4, <1>10 DEF SkipOutput
    <2> QED
      BY <1>2, <2>1
  <1>11. CASE CommandRaw
    <2>1. Places' /\ Routing' /\ UNCHANGED message
      BY <1>4, <1>11 DEF CommandRaw
    <2>2. setTopic(Device.output_mqtt_topic, <<"set", Output.number, msg>>)
      BY <1>11 DEF CommandRaw
    <2> QED
      BY <1>0, <1>2, <1>11, <2>1, <2>2, RawCommandIsMeant
  <1>12. CASE CommandMapped
    <2>1. r_itm <= Len(m_wb_vector)
      BY <1>0, <1>12 DEF CommandMapped, AtOutput, Places
    <2>2. Places' /\ Routing' /\ UNCHANGED message
      BY <1>3, <1>12, <2>1 DEF CommandMapped
    <2> DEFINE found == FirstOf(Output.value_mapping, 2, msg[1])
    <2>3. CASE Len(msg) = 1 /\ found # <<>>
      <3>1. setTopic(Device.output_mqtt_topic, <<"value", Output.number, found[1][1]>>)
        BY <1>12, <2>3 DEF CommandMapped
      <3>2. LET p == <<Device.output_mqtt_topic, <<"value", Output.number, found[1][1]>>>>
            IN  p \in STRING \X Said /\ Meant(p)
        BY <1>0, <1>12, <2>3, MappedCommandIsMeant
      <3> HIDE DEF found
      <3> QED
        BY <1>2, <2>2, <3>1, <3>2
    <2>4. CASE ~(Len(msg) = 1 /\ found # <<>>)
      <3>1. out' = out
        BY <1>12, <2>4 DEF CommandMapped
      <3> QED
        BY <1>2, <2>2, <3>1
    <2> QED
      BY <2>3, <2>4
  <1>13. CASE OutputsDone
    <2>1. r_itm <= Len(m_wb_vector) /\ NextDevice /\ out' = out
      BY <1>0, <1>13 DEF OutputsDone, Places
    <2> QED
      BY <1>2, <1>3, <2>1
  <1>14. CASE UNCHANGED vars
    <2>1. Places' /\ Routing' /\ UNCHANGED message /\ out' = out
      BY <1>0, <1>14 DEF vars, message, Places, Routing, Device, Counted
    <2> QED
      BY <1>2, <2>1
  <1> QED
    BY <1>1, <1>5, <1>6, <1>7, <1>8, <1>9, <1>10, <1>11, <1>12, <1>13, <1>14 DEF Next

\* So the invariant holds in every reachable state.
LEMMA Invariance == Spec => []RouterInv
  BY InitRouter, NextRouter, PTL DEF Spec

\* The type invariant of the router, what it gives to setTopic included.
THEOREM TypeCorrectness == Spec => []TypeOK
  <1>1. RouterInv => TypeOK
    BY DEF RouterInv
  <1> QED
    BY <1>1, Invariance, PTL

\* A channel's topic gets what its own field of a message means, translated as
\* its value_mapping says, for any table and any messages.
THEOREM ValuesAreMeant == Spec => []ValuesMeant
  <1>1. RouterInv => ValuesMeant
    BY MeantIsAll DEF RouterInv
  <1> QED
    BY <1>1, Invariance, PTL

\* A device gets commands for its own output channels only, each with the number
\* of the channel and the value that stands for the text.
THEOREM CommandsAreMeant == Spec => []CommandsMeant
  <1>1. RouterInv => CommandsMeant
    BY MeantIsAll DEF RouterInv
  <1> QED
    BY <1>1, Invariance, PTL

-----------------------------------------------------------------------------
(* Who is said to be "ok".                                                   *)

\* Each device of a table has a status topic of its own.
StatusTopicsDiffer ==
    \A table \in Tables : \A d, e \in DOMAIN table :
        table[d].status_mqtt_topic = table[e].status_mqtt_topic => d = e

Ok(d) == <<m_wb_vector[d].status_mqtt_topic, <<"ok">>>>

\* The devices that the loop has left behind are the ones that may be.
Heard ==
    \A d \in DOMAIN m_wb_vector :
        Ok(d) \in Elements(out)
            <=> d < r_itm /\ m_wb_vector[d].input_mqtt_topic = topic

\* A step that says no "ok", at the device or on from one not concerned.
LEMMA HeardKept ==
  ASSUME TypeOK, Heard, UNCHANGED message,
         \/ r_itm' = r_itm
         \/ /\ r_itm' = r_itm + 1
            /\ r_itm \in DOMAIN m_wb_vector => Device.input_mqtt_topic # topic,
         \/ out' = out
         \/ \E to \in STRING, what \in Said : what[1] # "ok" /\ setTopic(to, what)
  PROVE  Heard'
  <1>1. out \in Seq(STRING \X Said) /\ r_itm \in Nat /\ m_wb_vector \in Seq(RouterDeviceItem)
    BY TopicRouterAssumption DEF TypeOK
  <1>2. \A d : Ok(d)' = Ok(d) /\ Ok(d)[2][1] = "ok"
    BY DEF Ok, message
  <1>3. \A d : Ok(d) \in Elements(out)' <=> Ok(d) \in Elements(out)
    <2>1. CASE out' = out
      BY <2>1 DEF Elements
    <2>2. ASSUME NEW to \in STRING, NEW what \in Said, what[1] # "ok", setTopic(to, what)
          PROVE  \A d : Ok(d) \in Elements(out)' <=> Ok(d) \in Elements(out)
      <3>1. Elements(out)' = Elements(out) \union {<<to, what>>}
        BY <1>1, <2>2, Appended
      <3>2. \A d : Ok(d) # <<to, what>>
        BY <1>2, <2>2
      <3> QED
        BY <3>1, <3>2
    <2> QED
      BY <2>1, <2>2
  <1>4. \A d \in DOMAIN m_wb_vector :
           d < r_itm' /\ m_wb_vector[d].input_mqtt_topic = topic
              <=> d < r_itm /\ m_wb_vector[d].input_mqtt_topic = topic
    <2> SUFFICES ASSUME NEW d \in DOMAIN m_wb_vector, r_itm' = r_itm + 1,
                        r_itm \in DOMAIN m_wb_vector => Device.input_mqtt_topic # topic,
                        m_wb_vector[d].input_mqtt_topic = topic
                 PROVE  d < r_itm' <=> d < r_itm
      OBVIOUS
    <2>1. d \in Nat /\ d # r_itm
      BY <1>1 DEF Device
    <2> QED
      BY <1>1, <2>1
  <1>5. m_wb_vector' = m_wb_vector /\ topic' = topic
    BY DEF message
  <1> QED
    BY <1>2, <1>3, <1>4, <1>5 DEF Heard

\* Every step of the routing keeps what was said of a device true to its topic.
LEMMA NextHeard ==
  ASSUME StatusTopicsDiffer, RouterInv, Heard, [Next]_vars
  PROVE  Heard'
  <1>0. /\ TypeOK /\ Routing /\ m_wb_vector \in Tables
        /\ m_wb_vector \in Seq(RouterDeviceItem)
        /\ r_itm \in Nat /\ DOMAIN m_wb_vector = 1..Len(m_wb_vector)
    BY TopicRouterAssumption DEF RouterInv, TypeOK
  <1>1. ASSUME NEW arrival \in Arrivals, Receive(arrival) PROVE Heard'
    <2>1. out' = <<>> /\ r_itm' = 1 /\ m_wb_vector' = m_wb_vector
      BY <1>1 DEF Receive
    <2>2. Elements(out)' = {}
      BY <2>1 DEF Elements
    <2>3. \A d \in DOMAIN m_wb_vector : ~(d < 1)
      BY <1>0
    <2> QED
      BY <2>1, <2>2, <2>3 DEF Heard
  <1>2. CASE StatusOk
    <2>1. /\ r_itm \in DOMAIN m_wb_vector /\ Device.input_mqtt_topic = topic
          /\ r_itm' = r_itm + 1 /\ m_wb_vector' = m_wb_vector /\ topic' = topic
      BY <1>0, <1>2 DEF StatusOk, NextDevice, message, TypeOK, Routing
    <2>2. Elements(out)' = Elements(out) \union {Ok(r_itm)}
      <3>1. Device.status_mqtt_topic \in STRING /\ <<"ok">> \in Said
        BY <1>0, <1>2, StatusIsMeant
      <3>2. setTopic(Device.status_mqtt_topic, <<"ok">>)
        BY <1>2 DEF StatusOk
      <3>3. out \in Seq(STRING \X Said)
        BY <1>0 DEF TypeOK
      <3> QED
        BY <3>1, <3>2, <3>3, Appended DEF Ok, Device
    <2>3. ASSUME NEW d \in DOMAIN m_wb_vector
          PROVE  Ok(d) \in Elements(out)'
                    <=> d < r_itm + 1 /\ m_wb_vector[d].input_mqtt_topic = topic
      <3>1. CASE d = r_itm
        BY <1>0, <2>1, <2>2, <3>1 DEF Device
      <3>2. CASE d # r_itm
        <4>1. m_wb_vector[d].status_mqtt_topic # m_wb_vector[r_itm].status_mqtt_topic
          BY <1>0, <2>1, <3>2 DEF StatusTopicsDiffer
        <4>2. Ok(d) # Ok(r_itm)
          BY <4>1 DEF Ok
        <4>3. d < r_itm + 1 <=> d < r_itm
          BY <1>0, <3>2
        <4> QED
          BY <2>2, <4>2, <4>3 DEF Heard
      <3> QED
        BY <3>1, <3>2
    <2> QED
      BY <2>1, <2>3 DEF Heard, Ok
  <1>3. CASE PublishRaw
    <2>1. LET p == <<Input.mqtt_topic, <<"text", Data>>>> IN p \in STRING \X Said
      BY <1>0, <1>3, RawIsMeant
    <2> QED
      BY <1>0, <1>3, <2>1, HeardKept DEF PublishRaw
  <1>4. CASE PublishMapped
    <2> DEFINE found == FirstOf(Input.value_mapping, 1, Stoi[Data][1])
    <2>1. CASE found # <<>>
      <3>1. LET p == <<Input.mqtt_topic, <<"text", found[1][2]>>>> IN p \in STRING \X Said
        BY <1>0, <1>4, <2>1, MappedIsMeant
      <3>2. /\ setTopic(Input.mqtt_topic, <<"text", found[1][2]>>)
            /\ UNCHANGED message /\ r_itm' = r_itm
        BY <1>4, <2>1 DEF PublishMapped, message
      <3> HIDE DEF found
      <3> QED
        BY <1>0, <3>1, <3>2, HeardKept
    <2>2. CASE found = <<>>
      BY <1>0, <1>4, <2>2, HeardKept DEF PublishMapped, message
    <2> QED
      BY <2>1, <2>2
  <1>5. CASE CommandRaw
    <2>1. LET p == <<Device.output_mqtt_topic, <<"set", Output.number, msg>>>>
          IN  p \in STRING \X Said
      BY <1>0, <1>5, RawCommandIsMeant
    <2> QED
      BY <1>0, <1>5, <2>1, HeardKept DEF CommandRaw
  <1>6. CASE CommandMapped
    <2>0. UNCHANGED message /\ r_itm' = r_itm + 1 /\ Device.input_mqtt_topic # topic
      BY <1>0, <1>6 DEF CommandMapped, AtOutput, NextDevice, Routing
    <2> DEFINE found == FirstOf(Output.value_mapping, 2, msg[1])
    <2>1. CASE Len(msg) = 1 /\ found # <<>>
      <3>1. LET p == <<Device.output_mqtt_topic, <<"value", Output.number, found[1][1]>>>>
            IN  p \in STRING \X Said
        BY <1>0, <1>6, <2>1, MappedCommandIsMeant
      <3>2. setTopic(Device.output_mqtt_topic, <<"value", Output.number, found[1][1]>>)
        BY <1>6, <2>1 DEF CommandMapped
      <3> HIDE DEF found
      <3> QED
        BY <1>0, <2>0, <3>1, <3>2, HeardKept
    <2>2. CASE ~(Len(msg) = 1 /\ found # <<>>)
      <3>1. out' = out
        BY <1>6, <2>2 DEF CommandMapped
      <3> QED
        BY <1>0, <2>0, <3>1, HeardKept
    <2> QED
      BY <2>1, <2>2
  <1>7. CASE OutputsDone
    BY <1>0, <1>7, HeardKept DEF OutputsDone, NextDevice, Routing
  <1>8. CASE \/ Finish \/ MatchInput \/ MatchOther \/ StoiThrows \/ InputsDone
             \/ SkipOutput \/ Recover \/ UNCHANGED vars
    <2>1. UNCHANGED message /\ r_itm' = r_itm /\ out' = out
      BY <1>8 DEF Finish, MatchInput, MatchOther, StoiThrows, InputsDone, SkipOutput,
                  Recover, vars, message
    <2> QED
      BY <1>0, <2>1, HeardKept
  <1> QED
    BY <1>1, <1>2, <1>3, <1>4, <1>5, <1>6, <1>7, <1>8 DEF Next

\* With a status topic for each device, a message that was routed to the end has
\* said "ok" of exactly the devices whose input topic it came on.
THEOREM OkIsSaid == StatusTopicsDiffer => (Spec => []OkWhenHeard)
  <1> SUFFICES ASSUME StatusTopicsDiffer PROVE Spec => []OkWhenHeard
    OBVIOUS
  <1>1. Init => Heard
    <2> SUFFICES ASSUME Init PROVE Heard
      OBVIOUS
    <2>1. m_wb_vector \in Seq(RouterDeviceItem) /\ r_itm = 1 /\ out = <<>>
      BY TopicRouterAssumption DEF Init
    <2>2. Elements(out) = {} /\ \A d \in DOMAIN m_wb_vector : ~(d < 1)
      BY <2>1 DEF Elements
    <2> QED
      BY <2>1, <2>2 DEF Heard
  <1>2. RouterInv /\ Heard /\ [Next]_vars => Heard'
    BY NextHeard
  <1>3. RouterInv /\ Heard => OkWhenHeard
    <2> SUFFICES ASSUME RouterInv, Heard, r_itm > Len(m_wb_vector), NEW d \in Devices
                 PROVE  <<d.status_mqtt_topic, <<"ok">>>> \in Elements(out)
                           <=> d.input_mqtt_topic = topic
      BY DEF OkWhenHeard
    <2>1. PICK i \in DOMAIN m_wb_vector : d = m_wb_vector[i]
      BY DEF Devices
    <2>2. m_wb_vector \in Seq(RouterDeviceItem) /\ r_itm \in Nat
      BY TopicRouterAssumption DEF RouterInv, TypeOK
    <2>3. i < r_itm
      BY <2>1, <2>2
    <2> QED
      BY <2>1, <2>3 DEF Heard, Ok
  <1> QED
    BY <1>1, <1>2, <1>3, Invariance, PTL DEF Spec
=============================================================================
