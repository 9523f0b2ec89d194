---------------------------- MODULE MqttNode_proofs ----------------------------
(***************************************************************************)
(* Safety of the MQTT nodes for any buffer size, any integer width and any *)
(* payload lengths a broker may announce.                                  *)
(***************************************************************************)
EXTENDS MqttNode, SequenceTheorems, TLAPS

\* The clamp holds for every announced length.
LEMMA ReadLengthBound ==
  ASSUME NEW n \in Nat
  PROVE  ReadLength(n) \in Nat /\ ReadLength(n) + 1 <= RxLen
<1> DEFINE a == n % Wrap
           b == RxLen - 1
<1>1. a \in Nat /\ b \in Nat /\ b + 1 = RxLen
  BY MqttAssumption
<1>2. ReadLength(n) = Min({a, b})
  BY DEF ReadLength
<1> HIDE DEF a, b
<1>3. Min({a, b}) \in {a, b} /\ Min({a, b}) <= b
  BY <1>1 DEF Min
<1> QED
  BY <1>1, <1>2, <1>3, MqttAssumption

-------------------------------------------------------------------------------
(* What the steps outside the connection leave alone.                        *)

Joining == Join \/ JoinWait \/ Joined \/ IpWait \/ Resolve \/ DnsWait \/ DnsTimeout
Early   == {"join", "take_wifi", "join_wait", "joined", "take_ip", "ip_wait", "resolve",
            "take_dns", "dns_wait", "connect"}

LEMMA CallbackFrame ==
  ASSUME Callbacks
  PROVE  /\ UNCHANGED <<request, clientVars, brokerVars, printVars, cause>>
         /\ UNCHANGED pc \/ (pc \in Early /\ pc' \in {"joined", "resolve", "connect"})
BY DEF Callbacks, Connected, Disconnected, AddressAdded, Signal, DnsDone, Give, Early

LEMMA JoiningFrame ==
  ASSUME Joining
  PROVE  /\ UNCHANGED <<clientVars, brokerVars, printVars>>
         /\ pc \in Early /\ pc' \in Early \cup {"ended"}
         /\ UNCHANGED cause \/ (pc' = "ended" /\ cause' \in {"display", "wifi", "dns"})
BY DEF Joining, Join, JoinWait, Joined, IpWait, Resolve, DnsWait, DnsTimeout, Take, End,
   Early

LEMMA BrokerFrame == ASSUME Broker PROVE AtBroker
BY DEF Broker, BrokerAccepts, BrokerRefuses, BrokerAcks, BrokerPublishes,
   PayloadArrives, BrokerCloses, BrokerGivesUp

-------------------------------------------------------------------------------
(* The handler stays inside rx_buff.                                         *)

Kinds   == {"connack", "refusal", "ack", "publish", "bytes", "eof"}
Packets == {p \in [kind : Kinds, of : Messages \cup {0}, len : Payloads \cup {0},
                    here : Nat] : p.here <= p.len}

BufferInv == inbox \in Seq(Packets) /\ top \in Nat /\ top <= RxLen

LEMMA PacketNumbers ==
  ASSUME NEW p \in Packets
  PROVE  p.len \in Nat /\ p.here \in 0 .. p.len
<1>1. /\ p \in [kind : Kinds, of : Messages \cup {0}, len : Payloads \cup {0}, here : Nat]
      /\ p.here <= p.len
  BY DEF Packets
<1>2. p.len \in Payloads \cup {0} /\ p.here \in Nat
  BY <1>1
<1>3. \A n \in Payloads \cup {0} : n \in Nat
  BY MqttAssumption
<1> QED
  BY <1>1, <1>2, <1>3

LEMMA InitBuffer == Init => BufferInv
  BY MqttAssumption DEF Init, BufferInv

\* What does not touch the socket does not touch the buffer either.
LEMMA ElsewhereBuffer ==
  ASSUME BufferInv,
         \/ Callbacks \/ Joining \/ MqttConnect \/ ConnackSeen \/ ConnackFails \/ Announce
         \/ UNCHANGED vars
  PROVE  BufferInv'
<1>1. CASE Callbacks \/ Joining
  BY <1>1, CallbackFrame, JoiningFrame DEF brokerVars, printVars, BufferInv
<1>2. CASE \/ MqttConnect \/ ConnackSeen \/ ConnackFails \/ Announce \/ UNCHANGED vars
  BY <1>2 DEF MqttConnect, ConnackSeen, ConnackFails, Announce, vars, brokerVars,
     printVars, BufferInv
<1> QED
  BY <1>1, <1>2

LEMMA BrokerBuffer == ASSUME BufferInv, Broker PROVE BufferInv'
<1>1. UNCHANGED top
  BY BrokerFrame DEF AtBroker, printVars
<1>2. ASSUME NEW p \in Packets, Deliver(p)
      PROVE  inbox' \in Seq(Packets)
  BY <1>2 DEF Deliver, BufferInv
<1>3. \A kind \in Kinds : Packet(kind) \in Packets
  BY DEF Packet, Packets
<1>4. CASE BrokerAccepts \/ BrokerRefuses \/ BrokerAcks \/ BrokerCloses
  <2>1. \/ Deliver(Packet("connack")) \/ Deliver(Packet("refusal"))
        \/ Deliver(Packet("ack")) \/ Deliver(Packet("eof"))
    BY <1>4 DEF BrokerAccepts, BrokerRefuses, BrokerAcks, BrokerCloses, Closed
  <2>2. {Packet("connack"), Packet("refusal"), Packet("ack"), Packet("eof")}
          \subseteq Packets
    BY <1>3 DEF Kinds
  <2>3. inbox' \in Seq(Packets)
    BY <1>2, <2>1, <2>2
  <2> QED
    BY <1>1, <2>3 DEF BufferInv
<1>5. CASE BrokerPublishes
  <2>1. PICK m \in Messages, n \in Payloads :
          \E h \in IF MaySplit THEN 0 .. n ELSE {n} : Deliver(Publish(m, n, h))
    BY <1>5 DEF BrokerPublishes
  <2>2. n \in Nat
    BY MqttAssumption
  <2>3. PICK h \in 0 .. n : Deliver(Publish(m, n, h))
    BY <2>1, <2>2
  <2>4. Publish(m, n, h) \in Packets
    BY <2>2, <2>3 DEF Publish, Packets, Kinds
  <2> QED
    BY <1>1, <1>2, <2>3, <2>4 DEF BufferInv
<1>6. CASE PayloadArrives
  <2> DEFINE last == Len(inbox)
  <2>1. CASE last > 0 /\ inbox[last].kind = "publish"
    <3>1. inbox' = [inbox EXCEPT ![last].here = inbox[last].len]
      BY <1>6, <2>1 DEF PayloadArrives
    <3>2. inbox \in Seq(Packets) /\ last \in 1 .. Len(inbox)
      BY <2>1 DEF BufferInv
    <3>3. inbox[last] \in Packets
      BY <3>2
    <3> DEFINE whole == [inbox[last] EXCEPT !.here = inbox[last].len]
    <3>4. whole \in Packets
      BY <3>3, MqttAssumption DEF Packets
    <3>5. inbox' = [inbox EXCEPT ![last] = whole]
      BY <3>1
    <3> HIDE DEF whole
    <3>6. inbox' \in Seq(Packets)
      BY <3>2, <3>4, <3>5
    <3> QED
      BY <1>1, <3>6 DEF BufferInv
  <2>2. CASE ~(last > 0 /\ inbox[last].kind = "publish")
    <3>1. inbox' = Append(inbox, Packet("bytes"))
      BY <1>6, <2>2 DEF PayloadArrives
    <3>2. Packet("bytes") \in Packets
      BY <1>3 DEF Kinds
    <3>3. inbox' \in Seq(Packets)
      BY <3>1, <3>2 DEF BufferInv
    <3> QED
      BY <1>1, <3>3 DEF BufferInv
  <2> QED
    BY <2>1, <2>2
<1>7. CASE BrokerGivesUp
  BY <1>1, <1>7 DEF BrokerGivesUp, BufferInv
<1> QED
  BY <1>4, <1>5, <1>6, <1>7 DEF Broker

LEMMA InputBuffer ==
  ASSUME BufferInv, ConnackInput \/ PollInput \/ PollError
  PROVE  BufferInv'
<1>1. inbox \in Seq(Packets)
  BY DEF BufferInv
<1>2. <<Packet("bytes")>> \in Seq(Packets)
  <2>1. Packet("bytes") \in Packets
    BY DEF Packet, Packets, Kinds
  <2> QED
    BY <2>1
<1>3. CASE PollInput /\ HandlePublish(Head(inbox))
  <2> DEFINE p == Head(inbox)
  <2>1. p \in Packets /\ Tail(inbox) \in Seq(Packets)
    <3>1. inbox # <<>>
      BY <1>3 DEF PollInput
    <3> QED
      BY <1>1, <3>1
  <2>2. p.len \in Nat
    BY <2>1, PacketNumbers
  <2> HIDE DEF p
  <2>3. \/ inbox' = <<>> \/ inbox' = Tail(inbox)
        \/ inbox' = <<Packet("bytes")>> \o Tail(inbox)
    <3>1. HandlePublish(p)
      BY <1>3 DEF p
    <3> QED
      BY <3>1, Zenon DEF HandlePublish
  <2> DEFINE more == <<Packet("bytes")>>
  <2>4. inbox' \in Seq(Packets)
    <3>1. more \in Seq(Packets)
      BY <1>2
    <3> HIDE DEF more
    <3>2. more \o Tail(inbox) \in Seq(Packets)
      BY <2>1, <3>1
    <3>3. <<>> \in Seq(Packets)
      OBVIOUS
    <3> QED
      BY <2>1, <2>3, <3>2, <3>3, Zenon DEF more
  <2>5. top' = top \/ top' = Max({top, ReadLength(p.len) + 1})
    <3>1. HandlePublish(p)
      BY <1>3 DEF p
    <3> QED
      BY <3>1, Zenon DEF HandlePublish
  <2> DEFINE past == ReadLength(p.len) + 1
  <2>6. past \in Nat /\ past <= RxLen
    BY <2>2, ReadLengthBound
  <2> HIDE DEF past
  <2>7. Max({top, past}) \in Nat /\ Max({top, past}) <= RxLen
    <3>1. top \in Nat /\ top <= RxLen
      BY DEF BufferInv
    <3>2. Max({top, past}) \in {top, past}
      BY <2>6, <3>1 DEF Max
    <3> QED
      BY <2>6, <3>1, <3>2
  <2>8. top' \in Nat /\ top' <= RxLen
    BY <2>5, <2>7 DEF BufferInv, past
  <2> QED
    BY <2>4, <2>8 DEF BufferInv
<1>4. CASE ~(PollInput /\ HandlePublish(Head(inbox)))
  <2>1. (inbox # <<>> /\ inbox' = Tail(inbox)) \/ inbox' = <<>>
    BY <1>4 DEF ConnackInput, PollInput, PollError
  <2>2. UNCHANGED top
    BY <1>4 DEF ConnackInput, PollInput, PollError, printVars
  <2>3. inbox # <<>> => Tail(inbox) \in Seq(Packets)
    BY <1>1
  <2>4. <<>> \in Seq(Packets)
    OBVIOUS
  <2>5. inbox' \in Seq(Packets)
    BY <2>1, <2>3, <2>4, Zenon
  <2> QED
    BY <2>2, <2>5 DEF BufferInv
<1> QED
  BY <1>3, <1>4

\* No length a broker announces, none that wraps around a uint16_t either, makes
\* the handler read or terminate outside rx_buff.
THEOREM BufferKept == Spec => []RxInBounds
<1>1. BufferInv /\ [Next]_vars => BufferInv'
  BY ElsewhereBuffer, BrokerBuffer, InputBuffer DEF Next, Main, Joining
<1>2. BufferInv => RxInBounds
  BY DEF BufferInv, RxInBounds
<1> QED
  BY InitBuffer, <1>1, <1>2, PTL DEF Spec
-------------------------------------------------------------------------------
(* The two tokens: the association's and the session's.                      *)

\* Whoever touches the token or the association leaves them in step.
LEMMA TokenStep ==
  ASSUME WifiTokenFresh, [Next]_vars
  PROVE  WifiTokenFresh'
<1>1. CASE Connected
  BY <1>1 DEF Connected, WifiTokenFresh
<1>2. CASE Disconnected
  BY <1>2 DEF Disconnected, TakeBack, WifiTokenFresh
<1>3. CASE AddressAdded \/ DnsDone
  BY <1>3 DEF AddressAdded, DnsDone, WifiTokenFresh
<1>4. CASE JoinWait
  BY <1>4 DEF JoinWait, Take, WifiTokenFresh
<1>5. CASE Join \/ IpWait \/ DnsWait
  BY <1>5 DEF Join, IpWait, DnsWait, WifiTokenFresh
<1>6. ASSUME UNCHANGED joinVars
      PROVE  WifiTokenFresh'
  BY <1>6 DEF joinVars, WifiTokenFresh
<1>7. CASE \/ Joined \/ Resolve \/ DnsTimeout \/ MqttConnect \/ ConnackInput
           \/ ConnackFails \/ ConnackSeen \/ Announce \/ PollInput \/ PollError
  BY <1>6, <1>7 DEF Joined, Resolve, DnsTimeout, MqttConnect, ConnackInput,
     ConnackFails, ConnackSeen, Announce, PollInput, PollError
<1>8. CASE Broker
  BY <1>6, <1>8, BrokerFrame DEF AtBroker
<1>9. CASE UNCHANGED vars
  BY <1>6, <1>9 DEF vars
<1> QED
  BY <1>1, <1>2, <1>3, <1>4, <1>5, <1>7, <1>8, <1>9 DEF Next, Callbacks, Main

\* However the callbacks, the waits and the losses of the association fall, no token of
\* one that is gone lies in sem_wifi for a later wait.
THEOREM TokenFresh == Spec => []WifiTokenFresh
<1>1. Init => WifiTokenFresh
  BY DEF Init, WifiTokenFresh
<1> QED
  BY <1>1, TokenStep, PTL DEF Spec

\* The session's token is given at most once, while main waits for it, and from
\* there on the library stays connected until main has announced itself.
SessionInv ==
  /\ sem_mqtt_connected = 1 => pc \in {"connack", "announce", "poll", "ended"}
  /\ sem_mqtt_connected = 1 /\ pc = "connack" => mqtt = "connected"
  /\ AnnouncedConnected

LEMMA SessionStep ==
  ASSUME SessionInv, [Next]_vars
  PROVE  SessionInv'
<1>1. ASSUME UNCHANGED <<pc, sem_mqtt_connected, mqtt>>
      PROVE  SessionInv'
  BY <1>1 DEF SessionInv, AnnouncedConnected
<1>2. CASE Callbacks
  BY <1>2, CallbackFrame DEF clientVars, Early, SessionInv, AnnouncedConnected
<1>3. CASE Broker
  BY <1>1, <1>3, BrokerFrame DEF AtBroker, clientVars
<1>4. CASE UNCHANGED vars
  BY <1>1, <1>4 DEF vars, clientVars
<1>5. CASE Joining
  BY <1>5, JoiningFrame DEF clientVars, Early, SessionInv, AnnouncedConnected
<1>6. CASE MqttConnect
  BY <1>6 DEF MqttConnect, End, SessionInv, AnnouncedConnected
<1>7. CASE ConnackInput \/ ConnackFails
  BY <1>7 DEF ConnackInput, ConnackFails, GiveIfAccepted, SessionInv, AnnouncedConnected
<1>8. CASE ConnackSeen
  BY <1>8 DEF ConnackSeen, clientVars, SessionInv, AnnouncedConnected
<1>9. CASE Announce
  BY <1>9 DEF Announce, End, SessionInv, AnnouncedConnected
<1>10. CASE PollInput \/ PollError
  <2>1. pc = "poll" /\ pc' \in {"poll", "ended"}
    BY <1>10 DEF PollInput, InputFails, PollError, End
  <2> QED
    BY <2>1 DEF SessionInv, AnnouncedConnected
<1> QED
  BY <1>2, <1>3, <1>4, <1>5, <1>6, <1>7, <1>8, <1>9, <1>10 DEF Next, Main, Joining

\* Main subscribes or publishes only on a session the broker has accepted.
THEOREM AnnouncesOnline == Spec => []AnnouncedConnected
<1>1. Init => SessionInv
  BY DEF Init, SessionInv, AnnouncedConnected
<1>2. SessionInv => AnnouncedConnected
  BY DEF SessionInv
<1> QED
  BY <1>1, <1>2, SessionStep, PTL DEF Spec

-------------------------------------------------------------------------------
(* What is printed, when payloads arrive with their header and a uint16_t    *)
(* can count the cells of the buffer.                                        *)

WholePayloads == MaySplit = FALSE /\ RxLen <= Wrap

WholeInv == coming = 0 /\ \A i \in 1 .. Len(inbox) : inbox[i].here = inbox[i].len

\* Payload is left unread only after a message that did not fit.
TextInv ==
  /\ remaining > 0 => printed.len >= RxLen
  /\ cause = "busy" => pc = "ended"
  /\ PrintedFaithfully /\ FittingKeepsHandling

LEMMA ReadLengthWhole ==
  ASSUME WholePayloads, NEW n \in Nat
  PROVE  /\ ReadLength(n) \in 0 .. n /\ ReadLength(n) < RxLen
         /\ n < RxLen => ReadLength(n) = n
<1> DEFINE a == n % Wrap
           b == RxLen - 1
<1>1. a \in Nat /\ a < Wrap /\ (n < Wrap => a = n)
  BY MqttAssumption
<1>2. b \in Nat /\ b + 1 = RxLen /\ b < Wrap
  BY MqttAssumption DEF WholePayloads
<1>3. ReadLength(n) = Min({a, b})
  BY DEF ReadLength
<1> HIDE DEF a, b
<1>4. Min({a, b}) \in {a, b} /\ Min({a, b}) <= a /\ Min({a, b}) <= b
  BY <1>1, <1>2 DEF Min
<1>5. a <= n
  BY <1>1, MqttAssumption
<1>6. n < RxLen => a = n /\ n <= b
  BY <1>1, <1>2, MqttAssumption
<1>7. /\ ReadLength(n) \in Nat /\ ReadLength(n) <= n /\ ReadLength(n) <= b
      /\ n < RxLen => ReadLength(n) = n
  BY <1>1, <1>2, <1>3, <1>4, <1>5, <1>6
<1>8. ReadLength(n) \in 0 .. n
  BY <1>7
<1>9. ReadLength(n) < RxLen
  BY <1>2, <1>7, MqttAssumption
<1> QED
  BY <1>7, <1>8, <1>9

\* Behind a whole payload stands the only terminator that counts.
LEMMA TextWhole ==
  ASSUME NEW m, NEW len \in Nat, len < RxLen
  PROVE  Text(Fill(m, len, len)) = [i \in 1 .. len |-> Char(m, i)]
<1> DEFINE buf  == Fill(m, len, len)
           nuls == {i \in Cells : buf[i] = Nul}
<1>1. \A i \in Cells : /\ i < len => buf[i] = Char(m, i + 1)
                       /\ i = len => buf[i] = Nul
  BY DEF Fill, Cells
<1>2. \A i \in Nat : Char(m, i) # Nul
  BY DEF Char, Nul
<1>3. len \in nuls /\ \A i \in nuls : len <= i
  BY <1>1, <1>2, MqttAssumption DEF Cells
<1>4. nuls \subseteq Int
  BY DEF Cells
<1>5. Text(buf) = [i \in 1 .. IF nuls = {} THEN RxLen ELSE Min(nuls) |-> buf[i - 1]]
  BY DEF Text
<1> HIDE DEF buf, nuls
<1>6. Min(nuls) = len
  <2>1. len \in nuls /\ \A y \in nuls : len =< y
    BY <1>3
  <2>2. Min(nuls) \in nuls /\ \A y \in nuls : Min(nuls) =< y
    BY <2>1, Zenon DEF Min
  <2>3. Min(nuls) =< len /\ len =< Min(nuls)
    BY <2>1, <2>2
  <2>4. Min(nuls) \in Int
    BY <1>4, <2>2
  <2> QED
    BY <2>3, <2>4
<1>7. Text(buf) = [i \in 1 .. len |-> buf[i - 1]]
  BY <1>3, <1>5, <1>6
<1>8. \A i \in 1 .. len : buf[i - 1] = Char(m, i)
  BY <1>1, MqttAssumption DEF Cells
<1> QED
  BY <1>7, <1>8 DEF buf

LEMMA WholeStep ==
  ASSUME WholePayloads, BufferInv, WholeInv, [Next]_vars
  PROVE  WholeInv'
<1>1. inbox \in Seq(Packets) /\ coming = 0
      /\ \A i \in 1 .. Len(inbox) : inbox[i].here = inbox[i].len
  BY DEF BufferInv, WholeInv
<1>2. ASSUME UNCHANGED <<inbox, coming>> PROVE WholeInv'
  BY <1>2 DEF WholeInv
<1>3. ASSUME NEW p, Deliver(p), p.here = p.len, coming' = 0
      PROVE  WholeInv'
  <2>1. inbox' = Append(inbox, p)
    BY <1>3 DEF Deliver
  <2>2. /\ Len(inbox') = Len(inbox) + 1 /\ inbox'[Len(inbox) + 1] = p
        /\ \A i \in 1 .. Len(inbox) : inbox'[i] = inbox[i]
    BY <1>1, <2>1
  <2>3. Len(inbox) \in Nat
    BY <1>1
  <2>4. ASSUME NEW i \in 1 .. Len(inbox') PROVE inbox'[i].here = inbox'[i].len
    BY <1>1, <1>3, <2>2, <2>3, <2>4
  <2> QED
    BY <1>3, <2>4 DEF WholeInv
<1>4. ASSUME inbox' = <<>> \/ (inbox # <<>> /\ inbox' = Tail(inbox)), UNCHANGED coming
      PROVE  WholeInv'
  <2>1. CASE inbox' = <<>>
    BY <1>1, <1>4, <2>1 DEF WholeInv
  <2>2. CASE inbox # <<>> /\ inbox' = Tail(inbox)
    <3>1. /\ Len(inbox') = Len(inbox) - 1 /\ Len(inbox) \in Nat
          /\ \A i \in 1 .. Len(inbox') : inbox'[i] = inbox[i + 1]
      BY <1>1, <2>2
    <3> QED
      BY <1>1, <1>4, <3>1 DEF WholeInv
  <2> QED
    BY <1>4, <2>1, <2>2
<1>5. CASE \/ Callbacks \/ Joining \/ MqttConnect \/ ConnackSeen \/ ConnackFails
           \/ Announce \/ UNCHANGED vars
  <2>1. CASE Callbacks \/ Joining
    BY <1>2, <2>1, CallbackFrame, JoiningFrame DEF brokerVars
  <2>2. CASE MqttConnect \/ ConnackSeen \/ ConnackFails \/ Announce \/ UNCHANGED vars
    BY <1>2, <2>2 DEF MqttConnect, ConnackSeen, ConnackFails, Announce, vars, brokerVars
  <2> QED
    BY <1>5, <2>1, <2>2
<1>6. CASE BrokerAccepts \/ BrokerRefuses \/ BrokerAcks \/ BrokerCloses
  <2>1. \A kind : Packet(kind).here = Packet(kind).len
    BY DEF Packet
  <2>2. coming' = 0
    BY <1>1, <1>6 DEF BrokerAccepts, BrokerRefuses, BrokerAcks, BrokerCloses
  <2>3. \/ Deliver(Packet("connack")) \/ Deliver(Packet("refusal"))
        \/ Deliver(Packet("ack")) \/ Deliver(Packet("eof"))
    BY <1>6 DEF BrokerAccepts, BrokerRefuses, BrokerAcks, BrokerCloses, Closed
  <2> QED
    BY <1>3, <2>1, <2>2, <2>3
<1>7. CASE BrokerPublishes
  <2>1. PICK m \in Messages, n \in Payloads :
          \E h \in {n} : Deliver(Publish(m, n, h)) /\ coming' = n - h
    BY <1>7 DEF BrokerPublishes, WholePayloads
  <2>2. Deliver(Publish(m, n, n)) /\ coming' = n - n /\ n \in Nat
    BY <2>1, MqttAssumption
  <2>3. Publish(m, n, n).here = Publish(m, n, n).len /\ coming' = 0
    BY <2>2 DEF Publish
  <2> QED
    BY <1>3, <2>2, <2>3
<1>8. CASE PayloadArrives \/ BrokerGivesUp
  BY <1>1, <1>2, <1>8 DEF PayloadArrives, BrokerGivesUp
<1>9. CASE ConnackInput \/ PollError
  BY <1>4, <1>9 DEF ConnackInput, PollError
<1>10. CASE PollInput
  <2>1. inbox # <<>> /\ UNCHANGED coming
    BY <1>10 DEF PollInput
  <2>2. CASE inbox' = <<>> \/ inbox' = Tail(inbox)
    BY <1>4, <2>1, <2>2
  <2>3. CASE ~(inbox' = <<>> \/ inbox' = Tail(inbox))
    <3> DEFINE p == Head(inbox)
    <3>1. HandlePublish(p)
      BY <1>10, <2>3 DEF PollInput
    <3>2. inbox' = <<Packet("bytes")>> \o Tail(inbox)
      BY <2>3, <3>1, Zenon DEF HandlePublish
    <3>3. /\ Tail(inbox) \in Seq(Packets) /\ Len(Tail(inbox)) = Len(inbox) - 1
          /\ Len(inbox) \in Nat
          /\ \A i \in 1 .. Len(Tail(inbox)) : Tail(inbox)[i] = inbox[i + 1]
      BY <1>1, <2>1
    <3> DEFINE rest == Tail(inbox)
               more == Packet("bytes")
    <3> HIDE DEF rest
    <3>4. more \in Packets /\ more.here = more.len
      BY DEF Packet, Packets, Kinds
    <3> HIDE DEF more
    <3>5. rest \in Seq(Packets) /\ inbox' = <<more>> \o rest
      BY <3>2, <3>3 DEF rest, more
    <3>6. /\ Len(inbox') = 1 + Len(rest) /\ inbox'[1] = more
          /\ \A i \in 2 .. Len(inbox') : inbox'[i] = rest[i - 1]
      BY <3>4, <3>5
    <3>7. \A i \in 1 .. Len(rest) : rest[i].here = rest[i].len
      BY <1>1, <3>3 DEF rest
    <3>8. Len(rest) \in Nat
      BY <3>5
    <3>9. \A i \in 1 .. Len(inbox') : inbox'[i].here = inbox'[i].len
      BY <3>4, <3>6, <3>7, <3>8
    <3> QED
      BY <1>1, <2>1, <3>9 DEF WholeInv
  <2> QED
    BY <2>2, <2>3
<1> QED
  BY <1>5, <1>6, <1>7, <1>8, <1>9, <1>10 DEF Next, Main, Joining, Broker

LEMMA TextStep ==
  ASSUME WholePayloads, BufferInv, WholeInv, TextInv, [Next]_vars
  PROVE  TextInv'
<1>1. ASSUME UNCHANGED <<remaining, printed>>, cause' = cause \/ cause' # "busy",
             pc' = "ended" \/ pc # "ended"
      PROVE  TextInv'
  BY <1>1 DEF TextInv, PrintedFaithfully, FittingKeepsHandling
<1>2. CASE Callbacks \/ Broker \/ UNCHANGED vars
  <2>1. CASE Callbacks
    BY <1>1, <2>1, CallbackFrame DEF Early, clientVars, printVars
  <2>2. CASE Broker \/ UNCHANGED vars
    BY <2>2, BrokerFrame DEF AtBroker, vars, clientVars, printVars, TextInv,
       PrintedFaithfully, FittingKeepsHandling
  <2> QED
    BY <1>2, <2>1, <2>2
<1>3. CASE Joining \/ MqttConnect
  <2>1. CASE Joining
    BY <1>1, <2>1, JoiningFrame DEF Early, clientVars, printVars
  <2>2. CASE MqttConnect
    BY <1>1, <2>2 DEF MqttConnect, End, printVars
  <2> QED
    BY <1>3, <2>1, <2>2
<1>4. CASE ConnackInput \/ ConnackFails \/ ConnackSeen \/ Announce \/ PollError
  BY <1>1, <1>4 DEF ConnackInput, ConnackFails, ConnackSeen, Announce, PollError, End,
     clientVars, printVars
<1>5. CASE PollInput
  <2>1. pc = "poll" /\ inbox # <<>>
    BY <1>5 DEF PollInput
  <2>2. CASE remaining > 0 /\ InputFails("busy") /\ UNCHANGED <<remaining, printVars>>
    <3>1. pc' = "ended" /\ UNCHANGED <<remaining, printed>>
      BY <2>2 DEF InputFails, End, printVars
    <3>2. printed.len >= RxLen
      BY <2>2 DEF TextInv
    <3> QED
      BY <3>1, <3>2 DEF TextInv, PrintedFaithfully, FittingKeepsHandling
  <2>3. CASE InputFails("lost") /\ UNCHANGED <<remaining, printVars>>
    BY <1>1, <2>3 DEF InputFails, End, printVars
  <2>4. CASE UNCHANGED <<pc, cause, remaining, printVars>>
    BY <1>1, <2>1, <2>4 DEF printVars
  <2>5. CASE HandlePublish(Head(inbox)) /\ UNCHANGED <<pc, cause>>
    <3> DEFINE p   == Head(inbox)
               len == ReadLength(p.len)
               k   == Min({len, p.here})
    <3>1. cause # "busy"
      BY <2>1 DEF TextInv
    <3>2. p \in Packets /\ p.here = p.len
      BY <2>1 DEF BufferInv, WholeInv
    <3>3. p.len \in Nat
      BY <3>2, PacketNumbers
    <3>4. len \in 0 .. p.len /\ len < RxLen /\ (p.len < RxLen => len = p.len)
      BY <3>3, ReadLengthWhole
    <3>5. HandlePublish(p)
      BY <2>5
    <3> HIDE DEF p
    <3>6. k = len
      <4> HIDE DEF len
      <4> QED
        BY <3>2, <3>3, <3>4 DEF Min
    <3>7. \/ /\ rx_buff' = Fill(p.of, k, len)
             /\ printed' = [of |-> p.of, len |-> p.len, text |-> Text(rx_buff')]
             /\ remaining' = p.len - k
          \/ p.len > 0 /\ p.here = 0
          \/ remaining' = 0 /\ UNCHANGED printed
      BY <3>5, Zenon DEF HandlePublish
    <3> HIDE DEF len, k
    <3>8. CASE /\ rx_buff' = Fill(p.of, k, len)
               /\ printed' = [of |-> p.of, len |-> p.len, text |-> Text(rx_buff')]
               /\ remaining' = p.len - k
      <4>1. /\ printed'.of = p.of /\ printed'.len = p.len
            /\ printed'.text = [i \in 1 .. len |-> Char(p.of, i)]
        BY <3>4, <3>6, <3>8, TextWhole
      <4>2. PrintedFaithfully'
        <5>1. Len(printed'.text) = len /\ DOMAIN printed'.text = 1 .. len
          BY <3>4, <4>1
        <5> QED
          BY <3>4, <4>1, <5>1 DEF PrintedFaithfully
      <4>3. remaining' > 0 => printed'.len >= RxLen
        BY <3>3, <3>4, <3>6, <3>8, <4>1, MqttAssumption
      <4> QED
        BY <2>5, <3>1, <4>2, <4>3 DEF TextInv, FittingKeepsHandling
    <3>9. CASE remaining' = 0 /\ UNCHANGED printed
      BY <2>5, <3>1, <3>9 DEF TextInv, PrintedFaithfully, FittingKeepsHandling
    <3> QED
      BY <3>2, <3>7, <3>8, <3>9, <3>3
  <2> QED
    BY <1>5, <2>2, <2>3, <2>4, <2>5 DEF PollInput
<1> QED
  BY <1>2, <1>3, <1>4, <1>5 DEF Next, Main, Joining

LEMMA TextAlways ==
  ASSUME WholePayloads
  PROVE  Spec => [](BufferInv /\ WholeInv /\ TextInv)
<1>1. Init => BufferInv /\ WholeInv /\ TextInv
  <2> SUFFICES ASSUME Init PROVE WholeInv /\ TextInv
    BY InitBuffer
  <2>1. /\ coming = 0 /\ inbox = <<>> /\ remaining = 0 /\ cause = "none"
        /\ printed = [of |-> 0, len |-> 0, text |-> <<>>]
    BY DEF Init, Nothing
  <2> QED
    BY <2>1 DEF WholeInv, TextInv, PrintedFaithfully, FittingKeepsHandling
<1>2. BufferInv /\ [Next]_vars => BufferInv'
  BY ElsewhereBuffer, BrokerBuffer, InputBuffer DEF Next, Main, Joining
<1> QED
  BY <1>1, <1>2, WholeStep, TextStep, PTL DEF Spec

\* Whatever the sizes, if payloads arrive whole and a uint16_t can count the buffer,
\* what is printed is the message, up to what fits, and never what an earlier one
\* left in rx_buff.
THEOREM TextFaithful ==
  ASSUME WholePayloads
  PROVE  Spec => []PrintedFaithfully
<1>1. TextInv => PrintedFaithfully
  BY DEF TextInv
<1> QED
  BY TextAlways, <1>1, PTL

\* And a message that fits never makes the library refuse the next packet.
THEOREM FittingHandled ==
  ASSUME WholePayloads
  PROVE  Spec => []FittingKeepsHandling
<1>1. TextInv => FittingKeepsHandling
  BY DEF TextInv
<1> QED
  BY TextAlways, <1>1, PTL
-------------------------------------------------------------------------------
(* No wait sleeps through its event.                                         *)

LEMMA WakeupStep ==
  ASSUME NoWakeupLost, [Next]_vars
  PROVE  NoWakeupLost'
<1>1. CASE Callbacks
  <2>1. CASE Connected
    BY <2>1 DEF Connected, Give, clientVars, NoWakeupLost
  <2>2. CASE Disconnected
    <3>1. ~wifi' /\ UNCHANGED <<pc, sem_ipv4, mqtt, sem_mqtt_connected>>
      BY <2>2 DEF Disconnected, clientVars
    <3>2. leased' \in {FALSE, leased}
      BY <2>2 DEF Disconnected
    <3>3. leased' => leased
      BY <3>2, Zenon
    <3> QED
      BY <3>1, <3>3 DEF NoWakeupLost
  <2>3. CASE AddressAdded
    BY <2>3 DEF AddressAdded, Signal, Give, clientVars, NoWakeupLost
  <2>4. CASE DnsDone
    BY <2>4 DEF DnsDone, Give, clientVars, NoWakeupLost
  <2> QED
    BY <1>1, <2>1, <2>2, <2>3, <2>4 DEF Callbacks
<1>2. CASE Broker \/ UNCHANGED vars
  BY <1>2, BrokerFrame DEF AtBroker, vars, joinVars, clientVars, NoWakeupLost
<1>3. CASE Join
  BY <1>3 DEF Join, End, clientVars, NoWakeupLost
<1>4. CASE JoinWait \/ Joined
  BY <1>4 DEF JoinWait, Joined, Take, End, joinVars, clientVars, NoWakeupLost
<1>5. CASE IpWait
  BY <1>5 DEF IpWait, Take, NoWakeupLost
<1>6. CASE Resolve \/ DnsWait \/ DnsTimeout
  BY <1>6 DEF Resolve, DnsWait, DnsTimeout, Take, End, NoWakeupLost
<1>7. CASE MqttConnect
  BY <1>7 DEF MqttConnect, End, NoWakeupLost
<1>8. CASE ConnackInput \/ ConnackFails
  BY <1>8 DEF ConnackInput, ConnackFails, GiveIfAccepted, NoWakeupLost
<1>9. CASE ConnackSeen \/ Announce
  BY <1>9 DEF ConnackSeen, Announce, End, NoWakeupLost
<1>10. CASE PollInput \/ PollError
  <2>1. pc' \in {"poll", "ended"}
    BY <1>10 DEF PollInput, InputFails, PollError, End
  <2> QED
    BY <2>1 DEF NoWakeupLost
<1> QED
  BY <1>1, <1>2, <1>3, <1>4, <1>5, <1>6, <1>7, <1>8, <1>9, <1>10 DEF Next, Main

\* Whatever has happened by the time main waits for it has left its token, and main is
\* never pended for what has happened, in every order of the callbacks, the losses of
\* the association and main's own steps.
THEOREM WakeupsKept == Spec => []NoWakeupLost
<1>1. Init => NoWakeupLost
  BY DEF Init, NoWakeupLost
<1> QED
  BY <1>1, WakeupStep, PTL DEF Spec
-------------------------------------------------------------------------------
(* Type correctness, and with it the bounds: on the socket's queue, whatever *)
(* main and the broker do about it, and on what the buffer's cells hold.     *)

LEMMA BrimBounds ==
  Brim \in Nat /\ \A n \in Payloads \cup {0} : n \in 0 .. Brim
<1> DEFINE lengths == Payloads \cup {0}
<1>1. \A n \in lengths : n \in Nat
  BY MqttAssumption
<1>2. \E longest \in lengths : \A n \in lengths : longest >= n
  <2>1. PICK longest \in lengths : \A n \in Payloads : n <= longest
    BY LongestAssumption
  <2>2. \A n \in lengths : longest >= n
    BY <1>1, <2>1
  <2> QED
    BY <2>2
<1> HIDE DEF lengths
<1>3. Max(lengths) \in lengths /\ \A n \in lengths : Max(lengths) >= n
  BY <1>2, Zenon DEF Max
<1>4. Brim = Max(lengths)
  BY DEF Brim, lengths
<1> QED
  BY <1>1, <1>3, <1>4 DEF lengths

PlaceInv ==
  /\ pc \in {"join", "take_wifi", "join_wait", "joined", "take_ip", "ip_wait", "resolve",
             "take_dns", "dns_wait", "connect", "connack", "announce", "poll", "ended"}
  /\ request \in {"none", "refused", "sent"} /\ wifi \in BOOLEAN
  /\ leased \in BOOLEAN
  /\ {sem_wifi, sem_ipv4, dns_sem, sem_mqtt_connected} \subseteq {0, 1}
  /\ mqtt \in {"idle", "tcp", "connected"}
  /\ broker \in {"none", "connecting", "session", "announced", "serving", "closed",
                 "gone"}
  /\ cause \in {"none", "display", "wifi", "dns", "connect", "announce", "lost",
                "busy"}

\* What the broker may have put into the socket, by the state of its end.
QueueInv ==
  /\ pc \in Early => broker = "none"
  /\ broker \in {"none", "connecting"} => inbox = <<>>
  /\ broker \in {"session", "announced"}
       => Len(inbox) <= MaxQueued + (IF coming > 0 THEN 0 ELSE 1)
  /\ broker = "serving" => Len(inbox) <= MaxQueued + (IF coming > 0 THEN 0 ELSE 2)
  /\ Len(inbox) <= MaxQueued + 3
  /\ coming > 0 => broker \in {"session", "announced", "serving"}

CellsInv ==
  \A i \in Cells : rx_buff[i].of \in Messages \cup {0} /\ rx_buff[i].at <= Brim

DataInv ==
  /\ remaining \in 0 .. Brim /\ coming \in 0 .. Brim
  /\ CellsInv

LEMMA PlaceStep ==
  ASSUME PlaceInv, [Next]_vars
  PROVE  PlaceInv'
<1>1. CASE Connected
  BY <1>1 DEF Connected, Give, clientVars, brokerVars, PlaceInv
<1>2. CASE Disconnected
  <2>1. leased' \in BOOLEAN
    BY <1>2 DEF Disconnected, PlaceInv
  <2> QED
    BY <1>2, <2>1 DEF Disconnected, TakeBack, clientVars, brokerVars, PlaceInv
<1>3. CASE AddressAdded \/ DnsDone
  BY <1>3 DEF AddressAdded, Signal, Give, DnsDone, clientVars, brokerVars, PlaceInv
<1>4. CASE Join
  BY <1>4 DEF Join, End, clientVars, brokerVars, PlaceInv
<1>5. CASE JoinWait \/ Joined \/ IpWait
  BY <1>5 DEF JoinWait, Joined, IpWait, Take, End, joinVars, clientVars, brokerVars,
     PlaceInv
<1>6. CASE Resolve \/ DnsWait \/ DnsTimeout
  BY <1>6 DEF Resolve, DnsWait, DnsTimeout, Take, End, joinVars, clientVars, brokerVars,
     PlaceInv
<1>7. CASE MqttConnect
  BY <1>7 DEF MqttConnect, End, joinVars, PlaceInv
<1>8. CASE ConnackInput \/ ConnackFails \/ ConnackSeen
  BY <1>8 DEF ConnackInput, GiveIfAccepted, ConnackFails, ConnackSeen, joinVars,
     clientVars, brokerVars, PlaceInv
<1>9. CASE Announce
  BY <1>9 DEF Announce, End, joinVars, PlaceInv
<1>10. CASE PollInput \/ PollError
  <2>1. /\ UNCHANGED <<joinVars, sem_mqtt_connected, broker>>
        /\ UNCHANGED <<pc, cause>> \/ (pc' = "ended" /\ cause' \in {"busy", "lost"})
    BY <1>10 DEF PollInput, InputFails, PollError, End
  <2>2. UNCHANGED mqtt \/ mqtt' = "idle"
    BY <1>10, Zenon DEF PollInput, HandlePublish, PollError
  <2> QED
    BY <2>1, <2>2 DEF joinVars, PlaceInv
<1>11. CASE Broker
  <2>1. UNCHANGED <<pc, joinVars, clientVars, cause>>
    BY <1>11, BrokerFrame DEF AtBroker
  <2>2. UNCHANGED broker \/ broker' \in {"session", "closed", "serving", "gone"}
    BY <1>11 DEF Broker, BrokerAccepts, BrokerRefuses, BrokerAcks, BrokerPublishes,
       PayloadArrives, BrokerCloses, BrokerGivesUp
  <2> QED
    BY <2>1, <2>2 DEF joinVars, clientVars, PlaceInv
<1>12. CASE UNCHANGED vars
  BY <1>12 DEF vars, joinVars, clientVars, brokerVars, PlaceInv
<1> QED
  BY <1>1, <1>2, <1>3, <1>4, <1>5, <1>6, <1>7, <1>8, <1>9, <1>10, <1>11, <1>12
     DEF Next, Callbacks, Main

LEMMA QueueStep ==
  ASSUME BufferInv, PlaceInv, DataInv, QueueInv, [Next]_vars
  PROVE  QueueInv'
<1>1. /\ inbox \in Seq(Packets) /\ Len(inbox) \in Nat /\ coming \in Nat
      /\ MaxQueued \in Nat
  BY MqttAssumption, BrimBounds DEF BufferInv, DataInv
<1>2. Len(<<>>) = 0 /\ (Len(inbox) = 0 <=> inbox = <<>>)
  BY <1>1
<1>3. ASSUME UNCHANGED <<broker, inbox, coming>>,
             pc' \in Early => pc \in Early \/ broker = "none"
      PROVE  QueueInv'
  BY <1>3 DEF QueueInv
<1>4. CASE Callbacks \/ Joining \/ UNCHANGED vars
  BY <1>3, <1>4, CallbackFrame, JoiningFrame DEF vars, brokerVars
<1>5. CASE ConnackSeen \/ ConnackFails
  BY <1>3, <1>5 DEF ConnackSeen, ConnackFails, brokerVars, Early
<1>6. CASE MqttConnect
  <2>1. broker = "none" /\ inbox = <<>> /\ coming = 0
    BY <1>1, <1>6 DEF MqttConnect, Early, QueueInv
  <2> QED
    BY <1>1, <1>2, <1>6, <2>1 DEF MqttConnect, End, Early, QueueInv
<1>7. ASSUME Len(inbox') \in Nat, Len(inbox') <= Len(inbox),
             inbox = <<>> => inbox' = <<>>,
             UNCHANGED <<broker, coming>>,
             pc' \notin Early
      PROVE  QueueInv'
  BY <1>1, <1>7 DEF QueueInv
<1>8. inbox # <<>> => /\ Len(Tail(inbox)) = Len(inbox) - 1 /\ Tail(inbox) \in Seq(Packets)
                      /\ (Len(Tail(inbox)) = 0 <=> Tail(inbox) = <<>>)
  BY <1>1, HeadTailProperties, EmptySeq
<1>9. CASE ConnackInput
  <2>1. /\ inbox # <<>> /\ UNCHANGED <<pc, broker, coming>>
        /\ pc \notin Early
        /\ inbox' = Tail(inbox) \/ inbox' = <<>>
    BY <1>9 DEF ConnackInput, Early
  <2>2. Len(inbox') \in Nat /\ Len(inbox') <= Len(inbox)
    BY <1>1, <1>2, <1>8, <2>1
  <2> QED
    BY <1>7, <2>1, <2>2
<1>10. CASE Announce
  <2>1. /\ UNCHANGED <<inbox, coming>>
        /\ pc' \notin Early
        /\ broker' = broker \/ (broker = "session" /\ broker' = "announced")
    BY <1>10 DEF Announce, End, Early
  <2> QED
    BY <1>1, <2>1 DEF QueueInv
<1>11. CASE PollInput \/ PollError
  <2>1. /\ pc' \notin Early
        /\ UNCHANGED <<broker, coming>>
        /\ inbox # <<>> \/ inbox' = <<>>
    BY <1>11 DEF PollInput, InputFails, PollError, End, Early
  <2>3. \/ inbox' = <<>> \/ inbox' = Tail(inbox)
        \/ inbox' = <<Packet("bytes")>> \o Tail(inbox)
    BY <1>11, Zenon DEF PollInput, HandlePublish, PollError
  <2>4. ASSUME inbox # <<>>
        PROVE  Len(<<Packet("bytes")>> \o Tail(inbox)) = Len(inbox)
    <3> DEFINE more == <<Packet("bytes")>>
               rest == Tail(inbox)
    <3>1. more \in Seq(Packets) /\ Len(more) = 1
      <4>1. Packet("bytes") \in Packets
        BY DEF Packet, Packets, Kinds
      <4> QED
        BY <4>1
    <3>2. rest \in Seq(Packets) /\ Len(rest) = Len(inbox) - 1
      BY <1>8, <2>4
    <3> HIDE DEF more, rest
    <3>3. Len(more \o rest) = 1 + Len(rest)
      BY <3>1, <3>2, ConcatProperties
    <3>4. Len(more \o rest) = Len(inbox)
      BY <1>1, <3>2, <3>3
    <3> QED
      BY <3>4 DEF more, rest
  <2>5. Len(inbox') \in Nat /\ Len(inbox') <= Len(inbox)
    BY <1>1, <1>2, <1>8, <2>1, <2>3, <2>4
  <2> QED
    BY <1>7, <2>1, <2>5
<1>12. CASE Broker
  <2>1. UNCHANGED pc
    BY <1>12, BrokerFrame DEF AtBroker
  <2>2. ASSUME NEW p, inbox' = Append(inbox, p) PROVE Len(inbox') = Len(inbox) + 1
    BY <1>1, <2>2
  <2>3. CASE BrokerAccepts \/ BrokerRefuses
    <3>1. /\ broker = "connecting" /\ broker' \in {"session", "closed"} /\ inbox = <<>>
          /\ UNCHANGED coming /\ coming = 0 /\ Len(inbox') = Len(inbox) + 1
      BY <1>1, <2>2, <2>3 DEF BrokerAccepts, BrokerRefuses, Deliver, QueueInv
    <3> QED
      BY <1>1, <1>2, <2>1, <3>1 DEF QueueInv
  <2>4. CASE BrokerAcks
    <3>1. /\ broker = "announced" /\ broker' = "serving" /\ UNCHANGED coming
          /\ coming = 0 /\ Len(inbox') = Len(inbox) + 1
      BY <2>2, <2>4 DEF BrokerAcks, Deliver
    <3> QED
      BY <1>1, <2>1, <3>1 DEF QueueInv
  <2>5. CASE BrokerPublishes
    <3>1. /\ broker \in {"session", "announced", "serving"} /\ UNCHANGED broker
          /\ Len(inbox) < MaxQueued /\ Len(inbox') = Len(inbox) + 1
      BY <2>2, <2>5 DEF BrokerPublishes, Deliver
    <3> QED
      BY <1>1, <2>1, <3>1 DEF QueueInv
  <2>6. CASE PayloadArrives
    <3>1. /\ coming > 0 /\ broker \in {"session", "announced", "serving"}
          /\ UNCHANGED broker /\ coming' = 0 /\ Len(inbox) <= MaxQueued
      BY <1>1, <2>6 DEF PayloadArrives, QueueInv
    <3>2. Len(inbox') \in {Len(inbox), Len(inbox) + 1}
      <4>1. CASE inbox' = [inbox EXCEPT ![Len(inbox)].here = inbox[Len(inbox)].len]
        BY <1>1, <4>1
      <4>2. CASE inbox' = Append(inbox, Packet("bytes"))
        BY <2>2, <4>2
      <4> QED
        BY <2>6, <4>1, <4>2 DEF PayloadArrives
    <3> QED
      BY <1>1, <2>1, <3>1, <3>2 DEF QueueInv
  <2>7. CASE BrokerCloses \/ BrokerGivesUp
    <3>1. /\ broker' \in {"closed", "gone"} /\ coming' = 0
          /\ Len(inbox') = Len(inbox) + 1 \/ UNCHANGED inbox
          /\ broker \notin {"none", "closed", "gone"}
      BY <2>2, <2>7 DEF BrokerCloses, BrokerGivesUp, Deliver
    <3>2. Len(inbox) <= MaxQueued + 2
      BY <1>1, <1>2, <3>1 DEF PlaceInv, QueueInv
    <3> QED
      BY <1>1, <2>1, <3>1, <3>2 DEF QueueInv, Early
  <2> QED
    BY <1>12, <2>3, <2>4, <2>5, <2>6, <2>7 DEF Broker
<1> QED
  BY <1>4, <1>5, <1>6, <1>9, <1>10, <1>11, <1>12 DEF Next, Main, Joining

\* The handler writes no cell about a byte beyond the longest payload.
LEMMA CellsFilled ==
  ASSUME CellsInv, NEW m \in Messages \cup {0}, NEW k \in 0 .. Brim, NEW len
  PROVE  /\ \A i \in Cells : /\ Parsed[i].of \in Messages \cup {0}
                             /\ Parsed[i].at <= Brim
         /\ \A i \in Cells : /\ Fill(m, k, len)[i].of \in Messages \cup {0}
                             /\ Fill(m, k, len)[i].at <= Brim
<1>1. Brim \in Nat
  BY BrimBounds
<1>2. ASSUME NEW i \in Cells
      PROVE  Parsed[i].of \in Messages \cup {0} /\ Parsed[i].at <= Brim
  <2>1. Parsed[i] = Header \/ Parsed[i] = rx_buff[i]
    BY <1>2 DEF Parsed
  <2> QED
    BY <1>1, <2>1 DEF Header, CellsInv
<1>3. ASSUME NEW i \in Cells
      PROVE  /\ Fill(m, k, len)[i].of \in Messages \cup {0}
             /\ Fill(m, k, len)[i].at <= Brim
  <2>1. i \in Int
    BY <1>3 DEF Cells
  <2>2. \/ i < k /\ Fill(m, k, len)[i] = Char(m, i + 1)
        \/ Fill(m, k, len)[i] = Nul
        \/ Fill(m, k, len)[i] = Parsed[i]
    BY <1>3 DEF Fill
  <2>3. i < k => i + 1 <= Brim
    BY <1>1, <2>1
  <2> QED
    BY <1>1, <1>2, <2>2, <2>3 DEF Char, Nul
<1> QED
  BY <1>2, <1>3

LEMMA DataStep ==
  ASSUME BufferInv, DataInv, [Next]_vars
  PROVE  DataInv'
<1>1. Brim \in Nat /\ coming \in 0 .. Brim /\ remaining \in 0 .. Brim /\ UNCHANGED Brim
  BY BrimBounds DEF DataInv, Brim
<1>2. ASSUME coming' \in 0 .. Brim, remaining' \in 0 .. Brim, UNCHANGED rx_buff
      PROVE  DataInv'
  BY <1>1, <1>2 DEF DataInv, CellsInv
<1>3. CASE Callbacks \/ Joining \/ UNCHANGED vars
  BY <1>1, <1>2, <1>3, CallbackFrame, JoiningFrame DEF vars, clientVars, brokerVars,
     printVars
<1>4. CASE MqttConnect \/ ConnackInput \/ ConnackFails \/ ConnackSeen \/ Announce
           \/ PollError
  <2>1. UNCHANGED <<remaining, coming, rx_buff>>
    BY <1>4 DEF MqttConnect, ConnackInput, ConnackFails, ConnackSeen, Announce, PollError,
       clientVars, brokerVars, printVars
  <2> QED
    BY <1>1, <1>2, <2>1
<1>5. CASE Broker
  <2>1. UNCHANGED <<remaining, rx_buff>>
    BY <1>5, BrokerFrame DEF AtBroker, clientVars, printVars
  <2>2. coming' \in 0 .. Brim
    <3>1. CASE BrokerPublishes
      <4>1. PICK n \in Payloads : \E h \in IF MaySplit THEN 0 .. n ELSE {n} :
                                    coming' = n - h
        BY <3>1 DEF BrokerPublishes
      <4>2. n \in 0 .. Brim
        BY BrimBounds
      <4>3. PICK h \in 0 .. n : coming' = n - h
        BY <4>1, <4>2
      <4> QED
        BY <1>1, <4>2, <4>3
    <3>2. CASE ~BrokerPublishes
      BY <1>1, <1>5, <3>2 DEF Broker, BrokerAccepts, BrokerRefuses, BrokerAcks,
         PayloadArrives, BrokerCloses, BrokerGivesUp
    <3> QED
      BY <3>1, <3>2
  <2> QED
    BY <1>1, <1>2, <2>1, <2>2
<1>6. CASE PollInput
  <2>1. UNCHANGED coming
    BY <1>6 DEF PollInput
  <2>2. CASE UNCHANGED <<remaining, printVars>>
    BY <1>1, <1>2, <2>1, <2>2 DEF printVars
  <2>3. CASE HandlePublish(Head(inbox))
    <3> DEFINE p   == Head(inbox)
               len == ReadLength(p.len)
               k   == Min({len, p.here})
    <3>1. p \in Packets
      BY <1>6 DEF PollInput, BufferInv
    <3>2. /\ p.len \in Nat /\ p.here \in 0 .. p.len
          /\ p.of \in Messages \cup {0} /\ p.len \in Payloads \cup {0}
      BY <3>1, PacketNumbers DEF Packets
    <3>3. HandlePublish(p)
      BY <2>3
    <3> HIDE DEF p
    <3>4. len \in Nat
      BY <3>2, ReadLengthBound
    <3>5. k \in Nat /\ k <= p.here
      <4> HIDE DEF len
      <4> QED
        BY <3>2, <3>4 DEF Min
    <3>6. \/ rx_buff' = Fill(p.of, k, len) /\ remaining' = p.len - k
          \/ rx_buff' = Parsed /\ (remaining' = 0 \/ remaining' = p.len)
      BY <3>3, Zenon DEF HandlePublish
    <3> HIDE DEF len, k
    <3>7. p.len \in 0 .. Brim
      BY <3>2, BrimBounds
    <3>8. k \in 0 .. Brim /\ p.len - k \in 0 .. Brim
      BY <1>1, <3>2, <3>5, <3>7
    <3>9. remaining' \in 0 .. Brim
      BY <1>1, <3>6, <3>7, <3>8
    <3>10. CellsInv'
      BY <1>1, <3>2, <3>6, <3>8, CellsFilled DEF DataInv, CellsInv
    <3> QED
      BY <1>1, <2>1, <3>9, <3>10 DEF DataInv
  <2> QED
    BY <1>6, <2>2, <2>3 DEF PollInput
<1> QED
  BY <1>3, <1>4, <1>5, <1>6 DEF Next, Main, Joining

\* Every variable keeps its type, for any sizes: the packets in the socket stay within
\* three of MaxQueued, no payload left to read exceeds the longest one, and every cell
\* of rx_buff holds what some message or header put there.
THEOREM TypeCorrect == Spec => []TypeOK
<1> DEFINE IInv == BufferInv /\ SessionInv /\ PlaceInv /\ DataInv /\ QueueInv
<1>1. Init => IInv
  <2> SUFFICES ASSUME Init PROVE IInv
    OBVIOUS
  <2>1. BufferInv /\ SessionInv
    BY InitBuffer DEF Init, SessionInv, AnnouncedConnected
  <2>2. PlaceInv
    BY DEF Init, PlaceInv
  <2>3. QueueInv
    BY MqttAssumption DEF Init, QueueInv
  <2>4. DataInv
    BY BrimBounds DEF Init, DataInv, CellsInv, Blank
  <2> QED
    BY <2>1, <2>2, <2>3, <2>4
<1>2. IInv /\ [Next]_vars => IInv'
  <2>1. BufferInv /\ [Next]_vars => BufferInv'
    BY ElsewhereBuffer, BrokerBuffer, InputBuffer DEF Next, Main, Joining
  <2> QED
    BY <2>1, SessionStep, PlaceStep, DataStep, QueueStep
<1>3. IInv => TypeOK
  BY DEF BufferInv, PlaceInv, DataInv, CellsInv, QueueInv, TypeOK
<1> QED
  BY <1>1, <1>2, <1>3, PTL DEF Spec
-------------------------------------------------------------------------------
(* A session the broker has closed.                                          *)

\* No announced length but 0 looks to the handler like a closed socket.
CountedPayloads == RxLen > 1 /\ \A n \in Payloads : n % Wrap = 0 => n = 0

LastOf(s) == s[Len(s)]
Endings   == {"eof", "refusal"}

\* Nothing comes behind the end of a connection, so that it stays in the socket until
\* the library reads it and closes its own end.
LossInv ==
  /\ mqtt # "idle" /\ broker = "closed" => inbox # <<>> /\ LastOf(inbox).kind \in Endings
  /\ pc = "poll" => mqtt = "connected"

LEMMA TailLast ==
  ASSUME NEW s \in Seq(Packets), s # <<>>, LastOf(s).kind \in Endings,
         Head(s).kind \notin Endings
  PROVE  /\ Tail(s) # <<>> /\ LastOf(Tail(s)).kind \in Endings
         /\ \A p \in Packets : LET longer == <<p>> \o Tail(s) IN
              longer # <<>> /\ LastOf(longer).kind \in Endings
<1> DEFINE rest == Tail(s)
<1>1. /\ Len(s) \in Nat \ {0} /\ Head(s) = s[1]
      /\ rest \in Seq(Packets) /\ Len(rest) = Len(s) - 1
      /\ \A i \in 1 .. Len(rest) : rest[i] = s[i + 1]
  BY HeadTailProperties, EmptySeq
<1> HIDE DEF rest
<1>2. Len(s) # 1
  BY <1>1 DEF LastOf
<1>3. Len(rest) \in Nat \ {0} /\ rest # <<>> /\ rest[Len(rest)] = s[Len(s)]
  BY <1>1, <1>2
<1>4. ASSUME NEW p \in Packets
      PROVE  <<p>> \o rest # <<>> /\ LastOf(<<p>> \o rest) = LastOf(rest)
  <2> DEFINE longer == <<p>> \o rest
  <2>1. Len(longer) = 1 + Len(rest) /\ \A i \in 2 .. Len(longer) : longer[i] = rest[i - 1]
    BY <1>1, <1>4
  <2>2. longer \in Seq(Packets)
    BY <1>1, <1>4
  <2> HIDE DEF longer
  <2>3. longer[Len(longer)] = rest[Len(rest)]
    BY <1>3, <2>1
  <2>4. longer # <<>>
    BY <1>3, <2>1, <2>2, EmptySeq
  <2> QED
    BY <2>3, <2>4 DEF LastOf, longer
<1>5. LastOf(rest).kind \in Endings
  BY <1>3 DEF LastOf
<1> QED
  BY <1>3, <1>4, <1>5 DEF rest

LEMMA ReadLengthCounted ==
  ASSUME CountedPayloads, NEW n \in Payloads \cup {0}, n > 0
  PROVE  ReadLength(n) > 0
<1> DEFINE a == n % Wrap
           b == RxLen - 1
<1>1. n \in Nat /\ a \in Nat /\ a # 0 /\ b \in Nat /\ b > 0
  BY MqttAssumption DEF CountedPayloads
<1>2. ReadLength(n) = Min({a, b})
  BY DEF ReadLength
<1> HIDE DEF a, b
<1>3. Min({a, b}) \in {a, b}
  BY <1>1 DEF Min
<1> QED
  BY <1>1, <1>2, <1>3

LEMMA LossStep ==
  ASSUME WholePayloads, CountedPayloads, BufferInv, WholeInv, SessionInv, LossInv,
         [Next]_vars
  PROVE  LossInv'
<1>1. inbox \in Seq(Packets)
  BY DEF BufferInv
<1>2. ASSUME UNCHANGED <<broker, inbox, mqtt>>, pc' = "poll" => pc = "poll"
      PROVE  LossInv'
  BY <1>2 DEF LossInv
<1>3. CASE Callbacks \/ Joining \/ ConnackSeen \/ ConnackFails \/ UNCHANGED vars
  <2>1. CASE Callbacks \/ Joining
    BY <1>2, <2>1, CallbackFrame, JoiningFrame DEF Early, clientVars, brokerVars
  <2>2. CASE ConnackSeen \/ UNCHANGED vars
    BY <1>2, <2>2 DEF ConnackSeen, vars, clientVars, brokerVars
  <2>3. CASE ConnackFails
    BY <2>3 DEF ConnackFails, LossInv
  <2> QED
    BY <1>3, <2>1, <2>2, <2>3
<1>4. CASE MqttConnect
  BY <1>2, <1>4 DEF MqttConnect, End, LossInv
<1>5. CASE ConnackInput
  <2>1. pc = "connack" /\ UNCHANGED <<pc, broker>> /\ inbox # <<>> /\ mqtt = "tcp"
    BY <1>5 DEF ConnackInput
  <2>2. CASE mqtt' = "idle"
    BY <2>1, <2>2 DEF LossInv
  <2>3. CASE Head(inbox).kind = "connack" /\ inbox' = Tail(inbox)
    BY <1>1, <2>1, <2>3, TailLast DEF LossInv, Endings
  <2> QED
    BY <1>5, <2>2, <2>3 DEF ConnackInput
<1>6. CASE Announce
  <2>1. /\ mqtt = "connected" /\ UNCHANGED inbox
        /\ pc' \in {"poll", "ended"} /\ (pc' = "poll" => UNCHANGED mqtt)
        /\ mqtt' # "idle" => (broker' = "closed" => broker = "closed")
    BY <1>6 DEF Announce, End, SessionInv, AnnouncedConnected
  <2> QED
    BY <2>1 DEF LossInv
<1>7. CASE PollError
  BY <1>7 DEF PollError, End, LossInv
<1>8. CASE PollInput
  <2>1. pc = "poll" /\ mqtt = "connected" /\ inbox # <<>> /\ UNCHANGED broker
    BY <1>8 DEF PollInput, LossInv
  <2>2. CASE pc' = "ended" /\ mqtt' = "idle"
    BY <2>2 DEF LossInv
  <2>3. CASE Head(inbox).kind = "ack" /\ inbox' = Tail(inbox) /\ UNCHANGED mqtt
    BY <1>1, <2>1, <2>3, TailLast DEF LossInv, Endings
  <2>4. CASE Head(inbox).kind = "publish" /\ HandlePublish(Head(inbox))
    <3> DEFINE p == Head(inbox)
    <3>1. p \in Packets /\ p.here = p.len
      BY <1>1, <2>1, HeadTailProperties, EmptySeq DEF WholeInv
    <3>2. p.len \in Nat /\ p.len \in Payloads \cup {0}
      BY <3>1, PacketNumbers DEF Packets
    <3>3. p.len > 0 => ReadLength(p.len) > 0
      BY <3>2, ReadLengthCounted
    <3>4. HandlePublish(p) /\ p.kind = "publish"
      BY <2>4
    <3>5. \/ UNCHANGED mqtt /\ (\/ inbox' = Tail(inbox)
                                \/ inbox' = <<Packet("bytes")>> \o Tail(inbox))
          \/ p.len > 0 /\ p.here = 0
          \/ p.len > 0 /\ ReadLength(p.len) = 0
      <4> HIDE DEF p
      <4> QED
        BY <3>4, Zenon DEF HandlePublish
    <3>6. UNCHANGED mqtt /\ (\/ inbox' = Tail(inbox)
                             \/ inbox' = <<Packet("bytes")>> \o Tail(inbox))
      <4> HIDE DEF p
      <4> QED
        BY <3>1, <3>2, <3>3, <3>5
    <3> DEFINE more == Packet("bytes")
    <3>7. more \in Packets
      BY DEF Packet, Packets, Kinds
    <3>8. broker = "closed" => inbox' # <<>> /\ LastOf(inbox').kind \in Endings
      <4> SUFFICES ASSUME broker = "closed"
                   PROVE  inbox' # <<>> /\ LastOf(inbox').kind \in Endings
        OBVIOUS
      <4>1. LastOf(inbox).kind \in Endings /\ p.kind \notin Endings
        BY <2>1, <3>4 DEF LossInv, Endings
      <4>2. /\ Tail(inbox) # <<>> /\ LastOf(Tail(inbox)).kind \in Endings
            /\ <<more>> \o Tail(inbox) # <<>>
            /\ LastOf(<<more>> \o Tail(inbox)).kind \in Endings
        <5> HIDE DEF more
        <5> QED
          BY <1>1, <2>1, <3>7, <4>1, TailLast
      <4> QED
        BY <3>6, <4>2
    <3> QED
      BY <1>8, <2>1, <3>6, <3>8 DEF LossInv
  <2> QED
    BY <1>8, <2>2, <2>3, <2>4 DEF PollInput, InputFails, End
<1>9. CASE Broker
  <2>1. UNCHANGED <<pc, mqtt>>
    BY <1>9, BrokerFrame DEF AtBroker, clientVars
  <2>2. CASE \/ BrokerAccepts \/ BrokerAcks \/ BrokerPublishes \/ PayloadArrives
             \/ BrokerGivesUp
    <3>1. broker' # "closed"
      BY <2>2 DEF BrokerAccepts, BrokerAcks, BrokerPublishes, PayloadArrives,
         BrokerGivesUp
    <3> QED
      BY <2>1, <3>1 DEF LossInv
  <2>3. CASE BrokerRefuses \/ BrokerCloses
    <3>1. inbox' = Append(inbox, Packet("refusal")) \/ inbox' = Append(inbox, Packet("eof"))
      BY <2>3 DEF BrokerRefuses, BrokerCloses, Deliver, Closed
    <3>2. inbox' # <<>> /\ LastOf(inbox').kind \in Endings
      BY <1>1, <3>1 DEF LastOf, Endings, Packet
    <3> QED
      BY <2>1, <3>2 DEF LossInv
  <2> QED
    BY <1>9, <2>2, <2>3 DEF Broker
<1> QED
  BY <1>3, <1>4, <1>5, <1>6, <1>7, <1>8, <1>9 DEF Next, Main, Joining

\* Once a close has reached the node, the end of the connection waits in an open
\* socket for the event loop, whatever main has still to read before it.  What the
\* broker gives up while the association is lost is not meant.
THEOREM LossSeen ==
  ASSUME WholePayloads, CountedPayloads
  PROVE  Spec => []LossInSocket
<1>1. Init => SessionInv /\ LossInv
  BY DEF Init, SessionInv, AnnouncedConnected, LossInv
<1>2. LossInv => LossInSocket
  BY DEF LossInv, LossInSocket
<1> QED
  BY <1>1, <1>2, TextAlways, SessionStep, LossStep, PTL DEF Spec
===============================================================================
