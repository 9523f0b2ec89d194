-------------------------- MODULE MqttSession_proofs --------------------------
(***************************************************************************)
(* For any number of subscribing and publishing nodes with one client      *)
(* identifier, and any number of restarts: who hears a greeting, and what  *)
(* a node that waits for its CONNACK finds.                                *)
(***************************************************************************)
EXTENDS MqttSession, SequenceTheorems, TLAPS

PCs     == {"join", "connect", "connack", "announce", "poll", "ended"}
Ups     == {"connect", "subscribe", "publish"}
Up(n)   == IF n \in Subscribers THEN {"connect", "subscribe"} ELSE {"connect", "publish"}
Common  == {"connack", "ack", "eof", "command", "repeat"}
Downs   == {"connack", "ack", "eof", "command"} \cup Greetings
Down(n) == IF n \in Subscribers THEN Common ELSE Downs

NodeInv ==
  /\ pc \in [Nodes -> PCs]
  /\ mqtt \in [Nodes -> {"idle", "tcp", "connected"}]
  /\ sem_mqtt_connected \in [Nodes -> {0, 1}]
  /\ link \in [Nodes -> BOOLEAN]
  /\ printed \in [Nodes -> SUBSET Greetings]
  /\ \A s \in Subscribers : "greeting" \notin printed[s]
  /\ restarts \in 0 .. MaxRestarts

\* Packets on the way to the nodes or in their sockets: no greeting as it was published
\* for a display.
Wire(f) == f \in [Nodes -> Seq(Downs)] /\ \A n \in Nodes : f[n] \in Seq(Down(n))

\* In the other direction no more than CONNECT and one announcement, of the node's own
\* kind.
WireInv ==
  /\ outbox \in [Nodes -> Seq(Ups)]
  /\ \A n \in Nodes : outbox[n] \in Seq(Up(n))
  /\ \A n \in Nodes :
       Len(outbox[n]) <= IF pc[n] \in {"join", "connect"} THEN 0
                         ELSE IF pc[n] \in {"connack", "announce"} THEN 1 ELSE 2
  /\ Wire(down) /\ Wire(inbox)

\* The broker keeps one connection, and nothing for a session without a subscription.
BrokerInv ==
  /\ at \in [Nodes -> {"none", "waiting", "open", "closed"}]
  /\ subs \subseteq {CLIENT_ID} /\ kept \subseteq subs
  /\ quiet \in [Nodes -> 0 .. Patience]
  /\ \A m, n \in Nodes : at[m] = "open" /\ at[n] = "open" => m = n
  /\ \A n \in Nodes : pc[n] \in {"join", "connect"} => at[n] = "none"

\* Until the broker answers, nothing else sets out for the node; from then on the
\* answer is the first thing that it reads.
AnswerInv ==
  \A n \in Nodes :
    /\ at[n] \in {"none", "waiting"} =>
         inbox[n] = <<>> /\ down[n] = <<>> /\ sem_mqtt_connected[n] = 0
    /\ at[n] = "waiting" => pc[n] = "connack"
    /\ at[n] = "open" /\ pc[n] = "connack" /\ mqtt[n] # "idle" =>
         \/ sem_mqtt_connected[n] = 1
         \/ inbox[n] # <<>> /\ Head(inbox[n]) = "connack"
         \/ inbox[n] = <<>> /\ down[n] # <<>> /\ Head(down[n]) = "connack"

Inv == NodeInv /\ WireInv /\ BrokerInv /\ AnswerInv

LEMMA InitInv == Init => Inv
<1> SUFFICES ASSUME Init PROVE Inv
  OBVIOUS
<1>1. NodeInv
  BY SessionAssumption DEF Init, NodeInv, PCs, Nodes
<1>2. WireInv
  BY DEF Init, WireInv, Wire
<1>3. BrokerInv
  BY SessionAssumption DEF Init, BrokerInv
<1>4. AnswerInv
  BY DEF Init, AnswerInv
<1> QED
  BY <1>1, <1>2, <1>3, <1>4 DEF Inv

LEMMA NodeStep == Inv /\ [Next]_vars => NodeInv'
<1> SUFFICES ASSUME Inv, [Next]_vars PROVE NodeInv'
  OBVIOUS
<1> USE DEF Inv, NodeInv, PCs, nodeVars, Goto, State, CloseSocket
<1>1. ASSUME NEW n \in Nodes, Join(n) \/ Connect(n) \/ ConnackSeen(n) PROVE NodeInv'
  BY <1>1 DEF Join, Connect, ConnackSeen
<1>2. ASSUME NEW n \in Nodes, ConnackInput(n) \/ ConnackFails(n) PROVE NodeInv'
  BY <1>2 DEF ConnackInput, ReadOne, ConnackFails, Give
<1>3. ASSUME NEW n \in Nodes, Announce(n) PROVE NodeInv'
  BY <1>3 DEF Announce, Proceed
<1>4. ASSUME NEW n \in Nodes, PollInput(n) PROVE NodeInv'
  <2> DEFINE p == Head(inbox[n])
  <2>1. inbox[n] \in Seq(Down(n)) /\ inbox[n] # <<>>
    BY <1>4 DEF PollInput, WireInv, Wire
  <2>2. p \in Down(n)
    BY <2>1
  <2>3. n \in Subscribers => p # "greeting"
    BY <2>2 DEF Down, Common
  <2>4. \/ printed' = printed
        \/ p \in Greetings /\ printed' = [printed EXCEPT ![n] = @ \cup {p}]
    BY <1>4 DEF PollInput
  <2> HIDE DEF p
  <2>5. /\ printed' \in [Nodes -> SUBSET Greetings]
        /\ \A s \in Subscribers : "greeting" \notin printed'[s]
    BY <2>3, <2>4 DEF Nodes
  <2> QED
    BY <1>4, <2>5 DEF PollInput, BreakLoop
<1>5. ASSUME NEW n \in Nodes, PollError(n) PROVE NodeInv'
  BY <1>5 DEF PollError
<1>6. ASSUME NEW n \in Nodes, Broker(n) \/ Arrive(n) \/ GiveUp(n) PROVE NodeInv'
  <2>1. UNCHANGED <<nodeVars, link, restarts>>
    BY <1>6, Zenon DEF Broker, TakeConnect, TakeSubscribe, TakePublish, DropLate, Expire,
       HangUp, Close, Arrive, GiveUp
  <2> QED
    BY <2>1
<1>7. ASSUME NEW n \in Nodes, LinkChanges(n) PROVE NodeInv'
  BY <1>7 DEF LinkChanges
<1>8. ASSUME NEW n \in Nodes, Restart(n) PROVE NodeInv'
  <2>1. /\ printed' \in [Nodes -> SUBSET Greetings]
        /\ \A s \in Subscribers : "greeting" \notin printed'[s]
    BY <1>8 DEF Restart, Nodes
  <2> QED
    BY <1>8, <2>1, SessionAssumption DEF Restart
<1>9. CASE ServerPublishes \/ HalfPeriod
  BY <1>9 DEF ServerPublishes, HalfPeriod
<1>10. CASE UNCHANGED vars
  BY <1>10 DEF vars
<1> QED
  BY <1>1, <1>2, <1>3, <1>4, <1>5, <1>6, <1>7, <1>8, <1>9, <1>10 DEF Next, Main

\* Taking the first element of a sequence, or all of it, keeps its type.
LEMMA Shorter ==
  ASSUME NEW S, NEW s \in Seq(S)
  PROVE  /\ <<>> \in Seq(S) /\ Len(<<>>) = 0
         /\ s # <<>> => Tail(s) \in Seq(S) /\ Len(Tail(s)) <= Len(s)
OBVIOUS

\* What sets out behind other packets keeps the type of what is on the way.
LEMMA SentType ==
  ASSUME Wire(down), NEW S, NEW ps, \A m \in S \cap Nodes : ps \in Seq(Down(m))
  PROVE  Wire(SendDown(S, ps))
<1>1. \A m \in Nodes : down[m] \in Seq(Down(m)) /\ down[m] \in Seq(Downs)
  BY DEF Wire
<1>2. \A m \in S \cap Nodes : ps \in Seq(Downs)
  <2>1. ASSUME NEW m \in S \cap Nodes PROVE ps \in Seq(Downs)
    <3>1. Down(m) \subseteq Downs /\ ps \in Seq(Down(m))
      BY DEF Down, Downs, Common, Greetings
    <3>2. ps \in [1 .. Len(ps) -> Down(m)] /\ Len(ps) \in Nat
      BY <3>1
    <3>3. ps \in [1 .. Len(ps) -> Downs]
      BY <3>1, <3>2
    <3> QED
      BY <3>2, <3>3
  <2> QED
    BY <2>1
<1>3. ASSUME NEW m \in Nodes
      PROVE  SendDown(S, ps)[m] \in Seq(Down(m)) /\ SendDown(S, ps)[m] \in Seq(Downs)
  <2>1. CASE m \in S /\ mqtt[m] # "idle"
    <3>1. SendDown(S, ps)[m] = down[m] \o ps
      BY <2>1 DEF SendDown
    <3>2. down[m] \o ps \in Seq(Down(m)) /\ down[m] \o ps \in Seq(Downs)
      BY <1>1, <1>2, <2>1, ConcatProperties
    <3> QED
      BY <3>1, <3>2
  <2>2. CASE ~(m \in S /\ mqtt[m] # "idle")
    BY <1>1, <2>2 DEF SendDown
  <2> QED
    BY <2>1, <2>2
<1>4. SendDown(S, ps) = [m \in Nodes |-> SendDown(S, ps)[m]]
  BY DEF SendDown
<1> HIDE DEF SendDown
<1>5. SendDown(S, ps) \in [Nodes -> Seq(Downs)]
  BY <1>3, <1>4
<1> QED
  BY <1>3, <1>5 DEF Wire

\* One packet, or two.
LEMMA Words ==
  ASSUME NEW S, NEW a \in S
  PROVE  /\ <<a>> \in Seq(S) /\ Len(<<a>>) = 1 /\ <<a>> # <<>> /\ Head(<<a>>) = a
         /\ \A b \in S : /\ <<a, b>> \in Seq(S) /\ <<a, b>> # <<>>
                         /\ Head(<<a, b>>) = a
OBVIOUS

LEMMA CommonWords ==
  ASSUME NEW n
  PROVE  /\ <<"connack">> \in Seq(Down(n)) /\ <<"connack", "repeat">> \in Seq(Down(n))
         /\ <<"ack">> \in Seq(Down(n)) /\ <<"eof">> \in Seq(Down(n))
         /\ <<"command">> \in Seq(Down(n))
<1>1. {"connack", "repeat", "ack", "eof", "command"} \subseteq Down(n)
  BY DEF Down, Downs, Common, Greetings
<1> QED
  BY <1>1, Words

\* Only a board that never shows anything publishes, and nobody else hears it.
LEMMA OwnEcho ==
  ASSUME Inv, NEW n \in Nodes, TakePublish(n)
  PROVE  n \notin Subscribers /\ Hearers \subseteq {n}
<1>1. n \notin Subscribers
  <2>1. outbox[n] \in Seq(Up(n)) /\ outbox[n] # <<>> /\ Head(outbox[n]) = "publish"
    BY DEF Inv, WireInv, TakePublish
  <2>2. Head(outbox[n]) \in Up(n)
    BY <2>1
  <2> QED
    BY <2>1, <2>2 DEF Up
<1>2. at[n] = "open"
  BY DEF TakePublish
<1> QED
  BY <1>1, <1>2 DEF Hearers, Inv, BrokerInv

\* What the broker does to what is on the way.
LEMMA BrokerSends ==
  ASSUME Inv, NEW n \in Nodes, Broker(n)
  PROVE  Wire(down')
<1>1. Wire(down)
  BY DEF Inv, WireInv
<1>2. \A m : <<"eof">> \in Seq(Down(m)) /\ <<"ack">> \in Seq(Down(m))
  BY CommonWords
<1>3. ASSUME NEW f, NEW g, Wire(f), Wire(g)
      PROVE  Wire([m \in Nodes |-> IF m = n THEN f[m] ELSE g[m]])
  BY <1>3 DEF Wire
<1>4. CASE TakeConnect(n)
  <2>1. Answer(n) \in Seq(Down(n))
    BY CommonWords DEF Answer
  <2>2. Wire(SendDown({n}, Answer(n))) /\ Wire(SendDown(TakenOver(n), <<"eof">>))
    BY <1>1, <1>2, <2>1, SentType
  <2> QED
    BY <1>3, <1>4, <2>2 DEF TakeConnect
<1>5. CASE TakeSubscribe(n)
  <2>1. Wire(SendDown({n}, <<"ack">>))
    BY <1>1, <1>2, SentType
  <2> QED
    BY <1>5, <2>1 DEF TakeSubscribe
<1>6. CASE TakePublish(n)
  <2> DEFINE ps == IF n \in Hearers THEN <<"ack", "greeting">> ELSE <<"ack">>
  <2>1. n \notin Subscribers /\ Hearers \subseteq {n}
    BY <1>6, OwnEcho
  <2>2. ps \in Seq(Down(n)) /\ <<"greeting">> \in Seq(Down(n))
    <3>1. {"ack", "greeting"} \subseteq Down(n)
      BY <2>1 DEF Down, Downs, Greetings
    <3>2. /\ <<"ack">> \in Seq(Down(n)) /\ <<"greeting">> \in Seq(Down(n))
          /\ <<"ack", "greeting">> \in Seq(Down(n))
      BY <3>1, Words
    <3> QED
      BY <3>2
  <2>3. Wire(SendDown({n}, ps)) /\ Wire(SendDown(Hearers, <<"greeting">>))
    <3> HIDE DEF ps
    <3>1. Wire(SendDown({n}, ps))
      BY <1>1, <2>2, SentType
    <3>2. Wire(SendDown(Hearers, <<"greeting">>))
      BY <1>1, <2>1, <2>2, SentType
    <3> QED
      BY <3>1, <3>2
  <2> QED
    BY <1>3, <1>6, <2>3 DEF TakePublish
<1>7. CASE DropLate(n)
  BY <1>1, <1>7 DEF DropLate
<1>8. CASE Expire(n) \/ HangUp(n)
  <2>1. Wire(SendDown({n}, <<"eof">>))
    BY <1>1, <1>2, SentType
  <2> QED
    BY <1>8, <2>1 DEF Expire, HangUp, Close
<1> QED
  BY <1>4, <1>5, <1>6, <1>7, <1>8 DEF Broker

\* What is taken from one end keeps its type.
LEMMA WireLess ==
  ASSUME NEW f, Wire(f), NEW n \in Nodes
  PROVE  /\ Wire([f EXCEPT ![n] = <<>>])
         /\ f[n] # <<>> => Wire([f EXCEPT ![n] = Tail(@)])
<1>1. f \in [Nodes -> Seq(Downs)] /\ \A m \in Nodes : f[m] \in Seq(Down(m))
  BY DEF Wire
<1>2. <<>> \in Seq(Downs) /\ <<>> \in Seq(Down(n))
  OBVIOUS
<1>3. f[n] # <<>> => Tail(f[n]) \in Seq(Downs) /\ Tail(f[n]) \in Seq(Down(n))
  BY <1>1, Shorter
<1>4. Wire([f EXCEPT ![n] = <<>>])
  BY <1>1, <1>2 DEF Wire
<1>5. f[n] # <<>> => Wire([f EXCEPT ![n] = Tail(@)])
  BY <1>1, <1>3 DEF Wire
<1> QED
  BY <1>4, <1>5

LEMMA SocketClosed ==
  ASSUME WireInv, NEW n \in Nodes, CloseSocket(n)
  PROVE  Wire(down') /\ Wire(inbox')
<1>1. Wire([down EXCEPT ![n] = <<>>]) /\ Wire([inbox EXCEPT ![n] = <<>>])
  BY WireLess DEF WireInv
<1>2. /\ down' = [down EXCEPT ![n] = <<>>]
      /\ inbox' = [inbox EXCEPT ![n] = <<>>]
  BY DEF CloseSocket
<1> QED
  BY <1>1, <1>2

LEMMA PacketRead ==
  ASSUME WireInv, NEW n \in Nodes, inbox[n] # <<>>, down' = down,
         inbox' = [inbox EXCEPT ![n] = Tail(@)]
  PROVE  Wire(down') /\ Wire(inbox')
BY WireLess DEF WireInv

LEMMA ArriveType ==
  ASSUME WireInv, NEW n \in Nodes, Arrive(n)
  PROVE  Wire(down') /\ Wire(inbox')
<1>1. Wire(down) /\ Wire(inbox) /\ down[n] # <<>>
  BY DEF WireInv, Arrive
<1>2. Wire(down')
  BY <1>1, WireLess DEF Arrive
<1>3. Wire(inbox')
  <2> DEFINE p == Head(down[n])
  <2>1. p \in Down(n) /\ p \in Downs
    BY <1>1 DEF Wire
  <2>2. inbox' = [inbox EXCEPT ![n] = Append(@, p)]
    BY DEF Arrive
  <2> HIDE DEF p
  <2>3. inbox[n] \in Seq(Down(n)) /\ inbox[n] \in Seq(Downs)
    BY <1>1 DEF Wire
  <2>4. Append(inbox[n], p) \in Seq(Down(n)) /\ Append(inbox[n], p) \in Seq(Downs)
    BY <2>1, <2>3
  <2> QED
    BY <1>1, <2>2, <2>4 DEF Wire
<1> QED
  BY <1>2, <1>3

\* A node sends one packet of its kind, and has room for it.
LEMMA SendType ==
  ASSUME Inv, NEW n \in Nodes, NEW a \in Up(n), NEW x \in {"connack", "poll"},
         Goto(n, x), Send(n, <<a>>), UNCHANGED <<down, inbox>>,
         IF x = "connack" THEN pc[n] = "connect" ELSE pc[n] = "announce"
  PROVE  WireInv'
<1> DEFINE longer == outbox[n] \o <<a>>
<1>1. /\ pc \in [Nodes -> PCs] /\ outbox \in [Nodes -> Seq(Ups)]
      /\ \A m \in Nodes : outbox[m] \in Seq(Up(m))
      /\ Wire(down) /\ Wire(inbox)
  BY DEF Inv, NodeInv, WireInv
<1>2. Wire(down') /\ Wire(inbox')
  BY <1>1
<1>3. Len(outbox[n]) <= IF x = "connack" THEN 0 ELSE 1
  BY DEF Inv, WireInv
<1>4. a \in Ups
  BY DEF Up, Ups
<1>5. <<a>> \in Seq(Up(n)) /\ <<a>> \in Seq(Ups) /\ Len(<<a>>) = 1
  BY <1>4, Words
<1>6. longer \in Seq(Up(n)) /\ Len(longer) = Len(outbox[n]) + 1
  BY <1>1, <1>5, ConcatProperties
<1>7. longer \in Seq(Ups)
  BY <1>1, <1>5, ConcatProperties
<1>8. outbox' = [outbox EXCEPT ![n] = longer]
  BY DEF Send
<1> HIDE DEF longer
<1>9. outbox' \in [Nodes -> Seq(Ups)] /\ \A m \in Nodes : outbox'[m] \in Seq(Up(m))
  BY <1>1, <1>6, <1>7, <1>8
<1>10. /\ \A m \in Nodes \ {n} : outbox'[m] = outbox[m] /\ pc'[m] = pc[m]
       /\ pc'[n] = x /\ outbox'[n] = longer
  BY <1>1, <1>8 DEF Goto
<1>11. Len(longer) <= IF x = "connack" THEN 1 ELSE 2
  <2>1. Len(outbox[n]) \in Nat
    BY <1>1
  <2> QED
    BY <1>3, <1>6, <2>1
<1>12. \A m \in Nodes :
         Len(outbox'[m]) <= IF pc'[m] \in {"join", "connect"} THEN 0
                            ELSE IF pc'[m] \in {"connack", "announce"} THEN 1 ELSE 2
  BY <1>10, <1>11 DEF Inv, WireInv
<1> QED
  BY <1>2, <1>9, <1>12 DEF WireInv

LEMMA WireStep == Inv /\ [Next]_vars => WireInv'
<1> SUFFICES ASSUME Inv, [Next]_vars PROVE WireInv'
  OBVIOUS
<1>0. pc \in [Nodes -> PCs] /\ WireInv /\ Wire(down) /\ Wire(inbox)
  BY DEF Inv, NodeInv, WireInv
<1>1. ASSUME NEW n \in Nodes, Join(n) \/ ConnackSeen(n) PROVE WireInv'
  BY <1>0, <1>1 DEF WireInv, Join, ConnackSeen, Goto
<1>2. ASSUME NEW n \in Nodes, Connect(n) PROVE WireInv'
  <2>1. CASE outbox' = outbox
    BY <1>0, <1>2, <2>1 DEF WireInv, Connect, Goto
  <2>2. CASE Send(n, <<"connect">>) /\ Goto(n, "connack")
    <3>1. "connect" \in Up(n)
      BY DEF Up
    <3>2. pc[n] = "connect" /\ UNCHANGED <<down, inbox>>
      BY <1>2, Zenon DEF Connect
    <3> QED
      BY <2>2, <3>1, <3>2, SendType
  <2> QED
    BY <1>2, <2>1, <2>2 DEF Connect
<1>3. ASSUME NEW n \in Nodes, ConnackInput(n) PROVE WireInv'
  <2>1. \/ CloseSocket(n)
        \/ /\ inbox[n] # <<>> /\ down' = down
           /\ inbox' = [inbox EXCEPT ![n] = Tail(@)]
    BY <1>3, Zenon DEF ConnackInput, ReadOne
  <2>2. Wire(down') /\ Wire(inbox')
    BY <1>0, <2>1, SocketClosed, PacketRead
  <2> QED
    BY <1>0, <1>3, <2>2 DEF WireInv, ConnackInput
<1>4. ASSUME NEW n \in Nodes, Announce(n) PROVE WireInv'
  <2>1. CASE outbox' = outbox
    <3>1. Wire(down') /\ Wire(inbox')
      <4>1. CloseSocket(n) \/ UNCHANGED <<inbox, down>>
        BY <1>4, Zenon DEF Announce
      <4> QED
        BY <1>0, <4>1, SocketClosed
    <3>2. pc[n] = "announce" /\ (Goto(n, "poll") \/ Goto(n, "ended"))
      BY <1>4 DEF Announce, Proceed
    <3> QED
      BY <1>0, <2>1, <3>1, <3>2 DEF WireInv, Goto
  <2>2. CASE Proceed(n) /\ Send(n, Packets(n)) /\ UNCHANGED <<inbox, down>>
    <3>1. PICK a \in Up(n) : Packets(n) = <<a>>
      BY DEF Up, Packets
    <3>2. pc[n] = "announce"
      BY <1>4, Zenon DEF Announce
    <3>3. Goto(n, "poll") /\ Send(n, <<a>>)
      BY <2>2, <3>1 DEF Proceed
    <3> QED
      BY <2>2, <3>2, <3>3, SendType
  <2> QED
    BY <1>4, <2>1, <2>2 DEF Announce
<1>5. ASSUME NEW n \in Nodes, PollInput(n) \/ PollError(n) \/ ConnackFails(n)
      PROVE  WireInv'
  <2>1. Wire(down') /\ Wire(inbox')
    <3>1. \/ CloseSocket(n)
          \/ /\ inbox[n] # <<>> /\ down' = down
             /\ inbox' = [inbox EXCEPT ![n] = Tail(@)]
      BY <1>5, Zenon DEF PollInput, PollError, ConnackFails
    <3> QED
      BY <1>0, <3>1, SocketClosed, PacketRead
  <2>2. outbox' = outbox
        /\ (pc' = pc \/ (pc[n] = "poll" /\ pc' = [pc EXCEPT ![n] = "ended"]))
    BY <1>5 DEF PollInput, PollError, ConnackFails, BreakLoop, Goto
  <2> QED
    BY <1>0, <2>1, <2>2 DEF WireInv
<1>6. ASSUME NEW n \in Nodes, pc' = pc,
             outbox' = outbox \/ (Arrived(n) /\ outbox[n] # <<>>)
                              \/ outbox' = [outbox EXCEPT ![n] = <<>>],
             Wire(down'), Wire(inbox')
      PROVE  WireInv'
  <2>0. outbox \in [Nodes -> Seq(Ups)] /\ \A m \in Nodes : outbox[m] \in Seq(Up(m))
    BY <1>0 DEF WireInv
  <2>1. outbox' \in [Nodes -> Seq(Ups)]
    <3>1. outbox[n] \in Seq(Ups)
      BY <2>0
    <3>2. <<>> \in Seq(Ups) /\ (outbox[n] # <<>> => Tail(outbox[n]) \in Seq(Ups))
      BY <3>1, Shorter
    <3>3. \/ outbox' = outbox
          \/ outbox' = [outbox EXCEPT ![n] = Tail(outbox[n])] /\ outbox[n] # <<>>
          \/ outbox' = [outbox EXCEPT ![n] = <<>>]
      BY <1>6 DEF Arrived
    <3> QED
      BY <2>0, <3>2, <3>3
  <2>2. \A m \in Nodes : outbox'[m] \in Seq(Up(m)) /\ Len(outbox'[m]) <= Len(outbox[m])
    <3>1. \A m \in Nodes \ {n} : outbox'[m] = outbox[m]
      BY <1>6, <2>0 DEF Arrived
    <3>2. outbox[n] \in Seq(Up(n)) /\ Len(outbox[n]) \in Nat
      BY <2>0
    <3>3. /\ <<>> \in Seq(Up(n)) /\ Len(<<>>) = 0
          /\ outbox[n] # <<>> => /\ Tail(outbox[n]) \in Seq(Up(n))
                                 /\ Len(Tail(outbox[n])) <= Len(outbox[n])
      BY <3>2, Shorter
    <3>4. \/ outbox'[n] = outbox[n]
          \/ outbox'[n] = Tail(outbox[n]) /\ outbox[n] # <<>>
          \/ outbox'[n] = <<>>
      BY <1>6, <2>0 DEF Arrived
    <3>5. outbox'[n] \in Seq(Up(n)) /\ Len(outbox'[n]) <= Len(outbox[n])
      <4>1. CASE outbox'[n] = outbox[n]
        BY <3>2, <4>1
      <4>2. CASE outbox'[n] = Tail(outbox[n]) /\ outbox[n] # <<>>
        BY <3>3, <4>2
      <4>3. CASE outbox'[n] = <<>>
        BY <3>2, <3>3, <4>3
      <4> QED
        BY <3>4, <4>1, <4>2, <4>3
    <3>6. \A m \in Nodes : Len(outbox[m]) \in Nat
      BY <2>0
    <3> QED
      BY <2>0, <3>1, <3>5, <3>6
  <2>3. \A m \in Nodes : Len(outbox'[m]) \in Nat /\ Len(outbox[m]) \in Nat
    BY <2>0, <2>1
  <2> QED
    BY <1>0, <1>6, <2>1, <2>2, <2>3 DEF WireInv
<1>7. ASSUME NEW n \in Nodes, Broker(n) PROVE WireInv'
  <2>1. pc' = pc /\ inbox' = inbox
    BY <1>7, Zenon DEF Broker, TakeConnect, TakeSubscribe, TakePublish, DropLate, Expire,
       HangUp, Close, nodeVars
  <2>2. outbox' = outbox \/ (Arrived(n) /\ outbox[n] # <<>>)
                         \/ outbox' = [outbox EXCEPT ![n] = <<>>]
    <3>1. CASE TakeConnect(n) \/ TakeSubscribe(n) \/ TakePublish(n)
      BY <3>1, Zenon DEF TakeConnect, TakeSubscribe, TakePublish
    <3>2. CASE DropLate(n)
      BY <3>2, Zenon DEF DropLate
    <3>3. CASE Expire(n) \/ HangUp(n)
      BY <3>3, Zenon DEF Expire, HangUp, Close
    <3> QED
      BY <1>7, <3>1, <3>2, <3>3, Zenon DEF Broker
  <2>3. Wire(down') /\ Wire(inbox')
    BY <1>0, <1>7, <2>1, BrokerSends
  <2> QED
    BY <1>6, <2>1, <2>2, <2>3
<1>8. ASSUME NEW n \in Nodes, LinkChanges(n) PROVE WireInv'
  BY <1>0, <1>8 DEF LinkChanges, nodeVars, WireInv
<1>9. ASSUME NEW n \in Nodes, Arrive(n) \/ GiveUp(n) PROVE WireInv'
  <2>1. Wire(down') /\ Wire(inbox')
    <3>1. CASE Arrive(n)
      BY <1>0, <3>1, ArriveType
    <3>2. CASE GiveUp(n)
      BY <1>0, <3>2, WireLess DEF GiveUp
    <3> QED
      BY <1>9, <3>1, <3>2
  <2>2. UNCHANGED <<pc, outbox>>
    BY <1>9 DEF Arrive, GiveUp, nodeVars
  <2> QED
    BY <1>6, <2>1, <2>2
<1>10. ASSUME NEW n \in Nodes, Restart(n) PROVE WireInv'
  <2>1. Wire(down') /\ Wire(inbox')
    BY <1>0, <1>10, SocketClosed DEF Restart
  <2> QED
    BY <1>0, <1>10, <2>1 DEF Restart, Goto, WireInv
<1>11. CASE ServerPublishes
  <2>1. Wire(down')
    BY <1>0, <1>11, CommonWords, SentType DEF ServerPublishes
  <2> QED
    BY <1>0, <1>11, <2>1 DEF ServerPublishes, nodeVars, WireInv
<1>12. CASE HalfPeriod \/ UNCHANGED vars
  BY <1>0, <1>12 DEF HalfPeriod, vars, nodeVars, WireInv
<1> QED
  BY <1>1, <1>2, <1>3, <1>4, <1>5, <1>7, <1>8, <1>9, <1>10, <1>11, <1>12
     DEF Next, Main

LEMMA BrokerStep == Inv /\ [Next]_vars => BrokerInv'
<1> SUFFICES ASSUME Inv, [Next]_vars PROVE BrokerInv'
  OBVIOUS
<1> USE DEF Inv, BrokerInv, brokerVars
<1>0. pc \in [Nodes -> PCs]
  BY DEF NodeInv
<1>1. ASSUME NEW n \in Nodes, Connect(n) PROVE BrokerInv'
  <2>1. UNCHANGED <<subs, kept, quiet>>
    BY <1>1 DEF Connect
  <2>2. CASE Goto(n, "connack") /\ at' = [at EXCEPT ![n] = "waiting"]
    <3>1. /\ at' \in [Nodes -> {"none", "waiting", "open", "closed"}]
          /\ \A m \in Nodes : at'[m] = "open" => at[m] = "open"
          /\ \A m \in Nodes \ {n} : at'[m] = at[m] /\ pc'[m] = pc[m]
          /\ pc'[n] = "connack"
      BY <1>0, <2>2 DEF Goto
    <3> QED
      BY <2>1, <3>1
  <2>3. CASE Goto(n, "ended") /\ at' = at
    BY <1>0, <2>1, <2>3 DEF Goto
  <2> QED
    BY <1>1, <2>2, <2>3 DEF Connect
<1>2. ASSUME NEW n \in Nodes, \/ Join(n) \/ ConnackInput(n) \/ ConnackFails(n)
                              \/ ConnackSeen(n) \/ Announce(n) \/ PollInput(n)
                              \/ PollError(n) \/ LinkChanges(n) \/ DropLate(n)
                              \/ Arrive(n)
      PROVE  BrokerInv'
  <2>1. UNCHANGED brokerVars
    BY <1>2, Zenon DEF Join, ConnackInput, ConnackFails, ConnackSeen, Announce, PollInput,
       PollError, LinkChanges, DropLate, Arrive
  <2>2. \/ pc' = pc
        \/ pc[n] = "join" /\ pc' = [pc EXCEPT ![n] = "connect"]
        \/ pc' = [pc EXCEPT ![n] = "announce"]
        \/ pc' = [pc EXCEPT ![n] = "poll"]
        \/ pc' = [pc EXCEPT ![n] = "ended"]
    BY <1>2, Zenon DEF Join, ConnackInput, ConnackFails, ConnackSeen, Announce, PollInput,
       PollError, LinkChanges, DropLate, Arrive, nodeVars, Goto, Proceed, BreakLoop
  <2> QED
    BY <1>0, <2>1, <2>2
<1>3. ASSUME NEW n \in Nodes, TakeConnect(n) PROVE BrokerInv'
  <2>1. at' = [m \in Nodes |-> IF m = n THEN "open"
                               ELSE IF m \in TakenOver(n) THEN "closed" ELSE at[m]]
    BY <1>3 DEF TakeConnect
  <2>2. \A m \in Nodes \ {n} : at'[m] # "open"
    BY <2>1 DEF TakenOver, ClientId
  <2>3. quiet' \in [Nodes -> 0 .. Patience]
    BY <1>3, SessionAssumption DEF TakeConnect, Quieted
  <2>4. at' \in [Nodes -> {"none", "waiting", "open", "closed"}]
    BY <2>1
  <2>5. at[n] = "waiting" /\ pc' = pc /\ UNCHANGED <<subs, kept>>
    BY <1>3 DEF TakeConnect, nodeVars
  <2>6. \A m \in Nodes : pc'[m] \in {"join", "connect"} => at'[m] = "none"
    BY <2>1, <2>5 DEF TakenOver
  <2> QED
    BY <2>2, <2>3, <2>4, <2>5, <2>6
<1>4. ASSUME NEW n \in Nodes, TakeSubscribe(n) \/ TakePublish(n) PROVE BrokerInv'
  <2>1. quiet' \in [Nodes -> 0 .. Patience]
    BY <1>4, SessionAssumption DEF TakeSubscribe, TakePublish, Quieted
  <2>2. UNCHANGED <<pc, at>>
    BY <1>4 DEF TakeSubscribe, TakePublish, nodeVars
  <2>3. subs' \subseteq {CLIENT_ID} /\ kept' \subseteq subs'
    BY <1>4 DEF TakeSubscribe, TakePublish, ClientId
  <2> QED
    BY <2>1, <2>2, <2>3
<1>5. ASSUME NEW n \in Nodes, GiveUp(n) PROVE BrokerInv'
  <2>1. at[n] # "none"
    BY <1>5 DEF GiveUp, AnswerInv
  <2> QED
    BY <1>5, <2>1 DEF GiveUp, nodeVars
<1>6. ASSUME NEW n \in Nodes, at[n] # "none", Close(n) PROVE BrokerInv'
  BY <1>6 DEF Close, nodeVars
<1>7. ASSUME NEW n \in Nodes, Restart(n) PROVE BrokerInv'
  BY <1>0, <1>7, SessionAssumption DEF Restart, Goto
<1>8. CASE ServerPublishes \/ UNCHANGED vars
  BY <1>8 DEF ServerPublishes, vars, nodeVars
<1>9. CASE HalfPeriod
  <2>1. \A n \in Nodes : at[n] = "open" => quiet[n] < Patience
    BY <1>9 DEF HalfPeriod
  <2>2. quiet' \in [Nodes -> 0 .. Patience]
    BY <1>9, <2>1, SessionAssumption DEF HalfPeriod
  <2> QED
    BY <1>9, <2>2 DEF HalfPeriod, nodeVars
<1> QED
  BY <1>1, <1>2, <1>3, <1>4, <1>5, <1>6, <1>7, <1>8, <1>9
     DEF Next, Main, Broker, Expire, HangUp

-------------------------------------------------------------------------------
(* What a node that waits for its CONNACK finds.                             *)

LEMMA ConcatHead ==
  ASSUME NEW S, NEW s \in Seq(S), NEW t \in Seq(S)
  PROVE  /\ s # <<>> => s \o t # <<>> /\ Head(s \o t) = Head(s)
         /\ s = <<>> => s \o t = t
<1>1. /\ s \o t \in Seq(S) /\ Len(s \o t) = Len(s) + Len(t)
      /\ Len(s) \in Nat /\ Len(t) \in Nat
      /\ \A i \in 1 .. Len(s) : (s \o t)[i] = s[i]
  BY ConcatProperties
<1>2. CASE s # <<>>
  <2>1. Len(s) > 0 /\ 1 \in 1 .. Len(s)
    BY <1>1, <1>2, EmptySeq
  <2>2. s \o t # <<>> /\ (s \o t)[1] = s[1]
    BY <1>1, <2>1, EmptySeq
  <2>3. Head(s \o t) = (s \o t)[1] /\ Head(s) = s[1]
    BY <1>1, <1>2, <2>2, HeadTailProperties
  <2> QED
    BY <1>2, <2>2, <2>3
<1>3. CASE s = <<>>
  BY <1>3, ConcatEmptySeq
<1> QED
  BY <1>2, <1>3

\* A node that hears nothing from its own steps, and whose place at the broker they
\* leave alone, has its answer as before.
LEMMA AnswerStep ==
  ASSUME Inv, [Next]_vars
  PROVE  AnswerInv'
<1>0. /\ pc \in [Nodes -> PCs] /\ mqtt \in [Nodes -> {"idle", "tcp", "connected"}]
      /\ sem_mqtt_connected \in [Nodes -> {0, 1}]
      /\ at \in [Nodes -> {"none", "waiting", "open", "closed"}]
      /\ inbox \in [Nodes -> Seq(Downs)] /\ down \in [Nodes -> Seq(Downs)]
      /\ AnswerInv
  BY DEF Inv, NodeInv, WireInv, Wire, BrokerInv
<1>1. ASSUME UNCHANGED <<pc, mqtt, sem_mqtt_connected, inbox, down, at>> PROVE AnswerInv'
  BY <1>0, <1>1 DEF AnswerInv
<1>2. ASSUME NEW n \in Nodes, Join(n) \/ PollInput(n) \/ PollError(n) PROVE AnswerInv'
  <2>1. /\ UNCHANGED <<at, sem_mqtt_connected>> /\ pc[n] \in {"join", "poll"}
        /\ pc'[n] \in {"connect", "poll", "ended"}
        /\ \A m \in Nodes \ {n} : UNCHANGED <<pc[m], mqtt[m], inbox[m], down[m]>>
    BY <1>0, <1>2 DEF Join, PollInput, PollError, BreakLoop, Goto, State, CloseSocket,
       brokerVars
  <2>2. at[n] \in {"none", "waiting"} => inbox'[n] = <<>> /\ down'[n] = <<>>
    BY <1>0, <1>2 DEF Join, PollInput, PollError, CloseSocket, AnswerInv
  <2> QED
    BY <1>0, <2>1, <2>2 DEF AnswerInv
<1>3. ASSUME NEW n \in Nodes, Connect(n) PROVE AnswerInv'
  <2>1. at[n] = "none" /\ pc[n] = "connect"
    BY <1>3 DEF Connect, Inv, BrokerInv
  <2>2. /\ UNCHANGED <<sem_mqtt_connected, inbox, down>>
        /\ \A m \in Nodes \ {n} : UNCHANGED <<pc[m], mqtt[m], at[m]>>
    BY <1>0, <1>3 DEF Connect, Goto, State
  <2>3. \/ at'[n] = "waiting" /\ pc'[n] = "connack"
        \/ at'[n] = "none" /\ pc'[n] = "ended"
    BY <1>0, <1>3, <2>1 DEF Connect, Goto, State
  <2> QED
    BY <1>0, <2>1, <2>2, <2>3 DEF AnswerInv
<1>4. ASSUME NEW n \in Nodes, ConnackInput(n) PROVE AnswerInv'
  <2>1. /\ UNCHANGED <<pc, at>> /\ pc[n] = "connack" /\ inbox[n] # <<>>
        /\ mqtt[n] # "idle" /\ sem_mqtt_connected[n] = 0
        /\ \A m \in Nodes \ {n} :
             UNCHANGED <<mqtt[m], sem_mqtt_connected[m], inbox[m], down[m]>>
    BY <1>0, <1>4 DEF ConnackInput, ReadOne, Give, State, CloseSocket, brokerVars
  <2>2. at[n] \notin {"none", "waiting"}
    BY <1>0, <2>1 DEF AnswerInv
  <2>3. at[n] = "open" => sem_mqtt_connected'[n] = 1
    <3>1. at[n] = "open" => Head(inbox[n]) = "connack"
      BY <1>0, <2>1 DEF AnswerInv
    <3> QED
      BY <1>0, <1>4, <3>1 DEF ConnackInput, ReadOne, Give
  <2> QED
    BY <1>0, <2>1, <2>2, <2>3 DEF AnswerInv
<1>5. ASSUME NEW n \in Nodes, ConnackFails(n) PROVE AnswerInv'
  <2>1. /\ UNCHANGED <<pc, at, sem_mqtt_connected>> /\ mqtt'[n] = "idle"
        /\ inbox'[n] = <<>> /\ down'[n] = <<>>
        /\ \A m \in Nodes \ {n} : UNCHANGED <<mqtt[m], inbox[m], down[m]>>
    BY <1>0, <1>5 DEF ConnackFails, State, CloseSocket, brokerVars
  <2> QED
    BY <1>0, <2>1 DEF AnswerInv
<1>6. ASSUME NEW n \in Nodes, ConnackSeen(n) \/ Announce(n) PROVE AnswerInv'
  <2>1. /\ UNCHANGED <<at, sem_mqtt_connected>>
        /\ pc'[n] \in {"announce", "poll", "ended"}
        /\ pc[n] = "announce" \/ sem_mqtt_connected[n] = 1
        /\ \A m \in Nodes \ {n} : UNCHANGED <<pc[m], mqtt[m], inbox[m], down[m]>>
        /\ inbox'[n] = inbox[n] \/ inbox'[n] = <<>>
        /\ down'[n] = down[n] \/ down'[n] = <<>>
    BY <1>0, <1>6 DEF ConnackSeen, Announce, Proceed, Goto, State, CloseSocket, brokerVars
  <2>2. at[n] # "waiting"
    BY <1>0, <2>1 DEF AnswerInv
  <2> QED
    BY <1>0, <2>1, <2>2 DEF AnswerInv
<1>7. ASSUME UNCHANGED <<pc, mqtt, sem_mqtt_connected, inbox>>,
             \A m \in Nodes : \/ at'[m] = "closed"
                              \/ UNCHANGED <<at[m], down[m]>>
                              \/ /\ at[m] = "open" /\ at'[m] = "open"
                                 /\ mqtt[m] = "idle" \/ \E ps \in Seq(Downs) :
                                                         down'[m] = down[m] \o ps
                              \/ /\ at[m] = "waiting" /\ at'[m] = "open"
                                 /\ mqtt[m] = "idle" \/ \E ps \in Seq(Downs) :
                                      /\ down'[m] = down[m] \o ps
                                      /\ ps # <<>> /\ Head(ps) = "connack"
      PROVE  AnswerInv'
  <2> SUFFICES ASSUME NEW n \in Nodes
               PROVE  /\ at'[n] \in {"none", "waiting"} =>
                           /\ inbox'[n] = <<>> /\ down'[n] = <<>>
                           /\ sem_mqtt_connected'[n] = 0
                      /\ at'[n] = "waiting" => pc'[n] = "connack"
                      /\ at'[n] = "open" /\ pc'[n] = "connack" /\ mqtt'[n] # "idle" =>
                           \/ sem_mqtt_connected'[n] = 1
                           \/ inbox'[n] # <<>> /\ Head(inbox'[n]) = "connack"
                           \/ /\ inbox'[n] = <<>> /\ down'[n] # <<>>
                              /\ Head(down'[n]) = "connack"
    BY DEF AnswerInv
  <2>1. down[n] \in Seq(Downs)
    BY <1>0
  <2>2. CASE at'[n] = "closed"
    BY <2>2
  <2>3. CASE UNCHANGED <<at[n], down[n]>>
    BY <1>0, <1>7, <2>3 DEF AnswerInv
  <2>4. CASE at[n] = "open" /\ at'[n] = "open" /\ mqtt[n] # "idle"
             /\ \E ps \in Seq(Downs) : down'[n] = down[n] \o ps
    <3>1. PICK ps \in Seq(Downs) : down'[n] = down[n] \o ps
      BY <2>4
    <3>2. down[n] # <<>> => down'[n] # <<>> /\ Head(down'[n]) = Head(down[n])
      BY <2>1, <3>1, ConcatHead
    <3> QED
      BY <1>0, <1>7, <2>4, <3>2 DEF AnswerInv
  <2>5. CASE /\ at[n] = "waiting" /\ at'[n] = "open"
             /\ \E ps \in Seq(Downs) : /\ down'[n] = down[n] \o ps
                                        /\ ps # <<>> /\ Head(ps) = "connack"
    <3>1. PICK ps \in Seq(Downs) : /\ down'[n] = down[n] \o ps
                                   /\ ps # <<>> /\ Head(ps) = "connack"
      BY <2>5
    <3>2. down[n] = <<>> /\ inbox[n] = <<>>
      BY <1>0, <2>5 DEF AnswerInv
    <3>3. down'[n] = ps
      BY <2>1, <3>1, <3>2, ConcatHead
    <3> QED
      BY <1>7, <2>5, <3>1, <3>2, <3>3
  <2>6. CASE mqtt[n] = "idle" /\ at'[n] = "open"
    BY <1>7, <2>6
  <2> QED
    BY <1>7, <2>2, <2>3, <2>4, <2>5, <2>6
<1>8. \A S, ps : \A m \in Nodes :
        \/ SendDown(S, ps)[m] = down[m] /\ (m \in S => mqtt[m] = "idle")
        \/ m \in S /\ SendDown(S, ps)[m] = down[m] \o ps
  BY DEF SendDown
<1>9. ASSUME NEW n \in Nodes, TakeConnect(n) PROVE AnswerInv'
  <2>1. /\ UNCHANGED <<pc, mqtt, sem_mqtt_connected, inbox>>
        /\ at[n] = "waiting" /\ at'[n] = "open"
        /\ \A m \in TakenOver(n) : at'[m] = "closed"
        /\ \A m \in Nodes \ {n} : m \notin TakenOver(n) => UNCHANGED at[m]
    BY <1>9 DEF TakeConnect, TakenOver, nodeVars
  <2>2. /\ down'[n] = SendDown({n}, Answer(n))[n]
        /\ \A m \in Nodes \ {n} : down'[m] = SendDown(TakenOver(n), <<"eof">>)[m]
    BY <1>9 DEF TakeConnect
  <2>3. /\ Answer(n) \in Seq(Downs) /\ Answer(n) # <<>>
        /\ Head(Answer(n)) = "connack"
    <3>1. "connack" \in Downs /\ "repeat" \in Downs
      BY DEF Downs, Greetings
    <3> QED
      BY <3>1, Words DEF Answer
  <2>4. mqtt[n] = "idle" \/ down'[n] = down[n] \o Answer(n)
    BY <1>8, <2>2
  <2>5. \A m \in Nodes \ {n} : m \notin TakenOver(n) => UNCHANGED down[m]
    BY <1>8, <2>2
  <2>6. TakenOver(n) \subseteq Nodes \ {n}
    BY DEF TakenOver
  <2> HIDE DEF Answer
  <2> QED
    BY <1>7, <2>1, <2>3, <2>4, <2>5, <2>6
<1>10. ASSUME NEW n \in Nodes, TakeSubscribe(n) PROVE AnswerInv'
  <2>1. /\ UNCHANGED <<pc, mqtt, sem_mqtt_connected, inbox, at>> /\ at[n] = "open"
        /\ down' = SendDown({n}, <<"ack">>) /\ <<"ack">> \in Seq(Downs)
    BY <1>10 DEF TakeSubscribe, nodeVars, Downs
  <2>2. /\ \A m \in Nodes \ {n} : UNCHANGED <<at[m], down[m]>>
        /\ mqtt[n] = "idle" \/ down'[n] = down[n] \o <<"ack">>
    BY <1>8, <2>1
  <2> QED
    BY <1>7, <2>1, <2>2
<1>11. ASSUME NEW n \in Nodes, TakePublish(n) PROVE AnswerInv'
  <2> DEFINE ps == IF n \in Hearers THEN <<"ack", "greeting">> ELSE <<"ack">>
  <2>1. /\ UNCHANGED <<pc, mqtt, sem_mqtt_connected, inbox, at>> /\ at[n] = "open"
        /\ Hearers \subseteq {n} /\ ps \in Seq(Downs)
    <3>1. /\ UNCHANGED <<pc, mqtt, sem_mqtt_connected, inbox, at>> /\ at[n] = "open"
          /\ Hearers \subseteq {n}
      BY <1>11, OwnEcho DEF TakePublish, nodeVars
    <3>2. "ack" \in Downs /\ "greeting" \in Downs
      BY DEF Downs, Greetings
    <3>3. ps \in Seq(Downs)
      BY <3>2, Words
    <3> QED
      BY <3>1, <3>3
  <2>2. /\ down'[n] = SendDown({n}, ps)[n]
        /\ \A m \in Nodes \ {n} : down'[m] = SendDown(Hearers, <<"greeting">>)[m]
    BY <1>11 DEF TakePublish
  <2> HIDE DEF ps
  <2>3. /\ \A m \in Nodes \ {n} : UNCHANGED <<at[m], down[m]>>
        /\ mqtt[n] = "idle" \/ down'[n] = down[n] \o ps
    BY <1>8, <2>1, <2>2
  <2> QED
    BY <1>7, <2>1, <2>3
<1>12. ASSUME NEW n \in Nodes, DropLate(n) \/ LinkChanges(n) PROVE AnswerInv'
  BY <1>1, <1>12 DEF DropLate, LinkChanges, nodeVars, brokerVars
<1>13. ASSUME NEW n \in Nodes, Expire(n) \/ HangUp(n) \/ GiveUp(n) PROVE AnswerInv'
  <2>1. /\ UNCHANGED <<pc, mqtt, sem_mqtt_connected, inbox>>
        /\ at' = [at EXCEPT ![n] = "closed"]
        /\ down' = SendDown({n}, <<"eof">>) \/ down' = [down EXCEPT ![n] = <<>>]
    BY <1>13 DEF Expire, HangUp, Close, GiveUp, nodeVars
  <2>2. at'[n] = "closed" /\ \A m \in Nodes \ {n} : UNCHANGED <<at[m], down[m]>>
    BY <1>0, <1>8, <2>1
  <2> QED
    BY <1>7, <2>1, <2>2
<1>14. CASE ServerPublishes
  <2>1. /\ UNCHANGED <<pc, mqtt, sem_mqtt_connected, inbox, at>>
        /\ down' = SendDown(Hearers, <<"command">>) /\ <<"command">> \in Seq(Downs)
        /\ \A m \in Hearers : at[m] = "open"
    BY <1>14 DEF ServerPublishes, nodeVars, brokerVars, Downs, Hearers
  <2>2. \A m \in Nodes : \/ UNCHANGED down[m]
                         \/ at[m] = "open" /\ down'[m] = down[m] \o <<"command">>
    BY <1>8, <2>1
  <2> QED
    BY <1>7, <2>1, <2>2
<1>15. ASSUME NEW n \in Nodes, Arrive(n) PROVE AnswerInv'
  <2>1. /\ UNCHANGED <<pc, mqtt, sem_mqtt_connected, at>> /\ down[n] # <<>>
        /\ inbox'[n] = Append(inbox[n], Head(down[n]))
        /\ \A m \in Nodes \ {n} : UNCHANGED <<inbox[m], down[m]>>
    BY <1>0, <1>15 DEF Arrive, nodeVars, brokerVars
  <2>2. at[n] \notin {"none", "waiting"}
    BY <1>0, <2>1 DEF AnswerInv
  <2> DEFINE p == <<Head(down[n])>>
  <2>3. p \in Seq(Downs) /\ p # <<>> /\ Head(p) = Head(down[n])
        /\ inbox'[n] = inbox[n] \o p
    BY <1>0, <2>1
  <2> HIDE DEF p
  <2>4. /\ inbox[n] # <<>> => inbox'[n] # <<>> /\ Head(inbox'[n]) = Head(inbox[n])
        /\ inbox[n] = <<>> => inbox'[n] # <<>> /\ Head(inbox'[n]) = Head(down[n])
    BY <1>0, <2>3, ConcatHead
  <2> QED
    BY <1>0, <2>1, <2>2, <2>4 DEF AnswerInv
<1>16. ASSUME NEW n \in Nodes, Restart(n) PROVE AnswerInv'
  <2>1. /\ at'[n] = "none" /\ inbox'[n] = <<>> /\ down'[n] = <<>>
        /\ sem_mqtt_connected'[n] = 0
        /\ \A m \in Nodes \ {n} : UNCHANGED <<pc[m], mqtt[m], sem_mqtt_connected[m],
                                              inbox[m], down[m], at[m]>>
    BY <1>0, <1>16 DEF Restart, Goto, State, CloseSocket
  <2> QED
    BY <1>0, <2>1 DEF AnswerInv
<1>17. CASE HalfPeriod \/ UNCHANGED vars
  BY <1>1, <1>17 DEF HalfPeriod, nodeVars, vars, brokerVars
<1> QED
  BY <1>2, <1>3, <1>4, <1>5, <1>6, <1>9, <1>10, <1>11, <1>12, <1>13, <1>14, <1>15,
     <1>16, <1>17 DEF Next, Main, Broker

LEMMA InvHolds == Spec => []Inv
<1>1. Inv /\ [Next]_vars => Inv'
  BY NodeStep, WireStep, BrokerStep, AnswerStep DEF Inv
<1> QED
  BY InitInv, <1>1, PTL DEF Spec

-------------------------------------------------------------------------------
(* What follows.                                                             *)

\* Every variable keeps its type; no node has more than a CONNECT and an announcement
\* on the way, and the broker keeps greetings only for a session that is subscribed.
THEOREM TypeCorrect == Spec => []TypeOK
<1>1. Inv => TypeOK
  <2> SUFFICES ASSUME Inv PROVE TypeOK
    OBVIOUS
  <2>1. \A n \in Nodes : Len(outbox[n]) <= 2
    <3>1. \A n \in Nodes : Len(outbox[n]) \in Nat
      BY DEF Inv, WireInv
    <3> QED
      BY <3>1 DEF Inv, WireInv
  <2>2. {down, inbox} \subseteq [Nodes -> Seq(Downs)]
    BY DEF Inv, WireInv, Wire
  <2> QED
    BY <2>1, <2>2 DEF Inv, NodeInv, WireInv, BrokerInv, PCs, Ups, Downs, TypeOK
<1> QED
  BY InvHolds, <1>1, PTL

\* For any number of boards, restarts and losses of the network: no display prints a
\* greeting when it is published.  The session is one for all of them, subscribed or
\* not, and who publishes in it holds it, so that the greeting goes to the publisher.
THEOREM GreetingLost == Spec => []NoGreetingLive
<1>1. Inv => NoGreetingLive
  BY DEF Inv, NodeInv, NoGreetingLive
<1> QED
  BY InvHolds, <1>1, PTL

\* However many nodes contend for the session, the one that has it, and an open socket,
\* is never left waiting for an answer that was lost or overtaken.
THEOREM AnswerThere == Spec => []HolderAnswered
<1>1. Inv => HolderAnswered
  BY DEF Inv, AnswerInv, HolderAnswered
<1> QED
  BY InvHolds, <1>1, PTL
===============================================================================
