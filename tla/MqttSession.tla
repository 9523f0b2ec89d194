----------------------------- MODULE MqttSession -----------------------------
(***************************************************************************)
(* The MQTT nodes together: those that subscribe (Project/M5_Core2) and    *)
(* those that publish a greeting to the same topic (Project/ESP32_DK), one *)
(* broker, and the PC script that publishes to that topic                  *)
(* (Project/PC/server.py).  MqttNode models one node in detail; here a     *)
(* node is what its peers can tell of it, and the subject is the session:  *)
(* every node presents the same client identifier, none sends anything in  *)
(* its event loop, and any may be restarted or lose its network.           *)
(*                                                                         *)
(* The broker, the network and the power switch are external.  The broker  *)
(* does what MQTT 3.1.1 asks of it: a CONNECT closes the connection that   *)
(* holds its client identifier; a client silent for one and a half         *)
(* keep-alive periods is closed; and, as neither program asks for a clean  *)
(* session (client.clean_session is left as mqtt_client_init sets it, and  *)
(* CONFIG_MQTT_CLEAN_SESSION is off by default), the identifier's          *)
(* subscription and the messages of QoS 1 it was not acknowledged outlive  *)
(* every connection: they are sent again on the next.  mqtt_evt_handler    *)
(* acknowledges none.  The broker is taken to forget no session.           *)
(***************************************************************************)
EXTENDS Integers, Sequences

CONSTANTS
  Subscribers,  \* nodes that run M5_Core2/src/main.c
  Publishers,   \* nodes that run ESP32_DK/src/main.c
  CLIENT_ID,    \* the identifier both programs present
  Patience,     \* half keep-alive periods after which the broker closes: 3
  MaxQueued,    \* bound: packets behind which the PC publishes nothing more
  MaxRestarts   \* bound: restarts

ASSUME SessionAssumption ==
  /\ Subscribers \cap Publishers = {}
  /\ Patience \in Nat \ {0} /\ MaxQueued \in Nat /\ MaxRestarts \in Nat

Nodes     == Subscribers \cup Publishers
Greetings == {"greeting", "repeat"}  \* as published, and sent again

VARIABLES
  pc,        \* where main is
  mqtt,      \* client.internal.state: "idle", "tcp" or "connected"
  sem_mqtt_connected,
  link,      \* the node's network works
  outbox,    \* packets on the way to the broker
  down,      \* packets on the way to the node
  inbox,     \* packets in its socket
  at,        \* the broker's end of the node's connection
  subs,      \* broker: client identifiers subscribed to the topic
  kept,      \* broker: client identifiers with greetings nobody acknowledged
  quiet,     \* broker: half keep-alive periods since the last packet of a node
  printed,   \* history: the greetings a node has printed since it was started
  restarts   \* history: restarts so far

nodeVars   == <<pc, mqtt, sem_mqtt_connected, printed>>
brokerVars == <<at, subs, kept, quiet>>
vars == <<nodeVars, link, outbox, down, inbox, brokerVars, restarts>>

Init ==
  /\ pc = [n \in Nodes |-> "join"] /\ mqtt = [n \in Nodes |-> "idle"]
  /\ sem_mqtt_connected = [n \in Nodes |-> 0]
  /\ link = [n \in Nodes |-> TRUE]
  /\ outbox = [n \in Nodes |-> <<>>]
  /\ down = [n \in Nodes |-> <<>>] /\ inbox = [n \in Nodes |-> <<>>]
  /\ at = [n \in Nodes |-> "none"] /\ quiet = [n \in Nodes |-> 0]
  /\ subs = {} /\ kept = {}
  /\ printed = [n \in Nodes |-> {}] /\ restarts = 0

-------------------------------------------------------------------------------
(* main of a node                                                            *)

Goto(n, p)  == pc' = [pc EXCEPT ![n] = p]
State(n, s) == mqtt' = [mqtt EXCEPT ![n] = s]
Send(n, ps) == outbox' = [outbox EXCEPT ![n] = @ \o ps]

\* mqtt_connect_client presents this.
ClientId(n) == CLIENT_ID

\* The library closes the node's socket; what is in it or still comes is lost.
CloseSocket(n) ==
  /\ State(n, "idle")
  /\ inbox' = [inbox EXCEPT ![n] = <<>>] /\ down' = [down EXCEPT ![n] = <<>>]

\* wifi_connect and wifi_wait_for_ip_addr block until there is a network.
Join(n) ==
  /\ pc[n] = "join" /\ link[n]
  /\ Goto(n, "connect")
  /\ UNCHANGED <<mqtt, sem_mqtt_connected, printed, link, outbox, down, inbox,
                 brokerVars, restarts>>

\* mqtt_connect_client resolves the broker, connects and writes CONNECT; any failure
\* ends main.
Connect(n) ==
  /\ pc[n] = "connect"
  /\ \/ /\ link[n]
        /\ Goto(n, "connack") /\ State(n, "tcp")
        /\ Send(n, <<"connect">>)
        /\ at' = [at EXCEPT ![n] = "waiting"]
     \/ /\ Goto(n, "ended")
        /\ UNCHANGED <<mqtt, outbox, at>>
  /\ UNCHANGED <<sem_mqtt_connected, printed, link, down, inbox, subs, kept, quiet,
                 restarts>>

\* A plausible bug: the CONNACK is only logged.
GiveNothing(n) == UNCHANGED sem_mqtt_connected

\* mqtt_evt_handler, MQTT_EVT_CONNACK.
Give(n) == sem_mqtt_connected' = [sem_mqtt_connected EXCEPT ![n] = 1]

\* A plausible bug: the wait reads on while there is input, and drops it.
ReadAll(n) == inbox' = [inbox EXCEPT ![n] = <<>>]

\* mqtt_input takes one packet from the socket.
ReadOne(n) == inbox' = [inbox EXCEPT ![n] = Tail(@)]

\* One mqtt_input while main waits for the CONNACK; at an end of file the library
\* closes the socket.
ConnackInput(n) ==
  /\ pc[n] = "connack" /\ sem_mqtt_connected[n] = 0
  /\ mqtt[n] = "tcp" /\ inbox[n] # <<>>
  /\ \/ /\ Head(inbox[n]) = "connack"
        /\ State(n, "connected")
        /\ Give(n)
        /\ ReadOne(n)
        /\ UNCHANGED down
     \/ /\ Head(inbox[n]) = "eof"
        /\ CloseSocket(n)
        /\ UNCHANGED sem_mqtt_connected
  /\ UNCHANGED <<pc, printed, link, outbox, brokerVars, restarts>>

\* The connection breaks with the network before the CONNACK has arrived: mqtt_input
\* closes the socket, and the loop looks at no result.
ConnackFails(n) ==
  /\ pc[n] = "connack" /\ sem_mqtt_connected[n] = 0
  /\ mqtt[n] = "tcp" /\ inbox[n] = <<>> /\ ~link[n]
  /\ CloseSocket(n)
  /\ UNCHANGED <<pc, sem_mqtt_connected, printed, link, outbox, brokerVars, restarts>>

ConnackSeen(n) ==
  /\ pc[n] = "connack" /\ sem_mqtt_connected[n] = 1
  /\ Goto(n, "announce")
  /\ UNCHANGED <<mqtt, sem_mqtt_connected, printed, link, outbox, down, inbox,
                 brokerVars, restarts>>

\* A plausible bug: main announces itself in its loop.
Repeat(n) == UNCHANGED pc

\* main goes on to its event loop.
Proceed(n) == Goto(n, "poll")

\* A plausible bug: both calls are left in, the one that is commented out too.
PacketsBoth(n) == <<"subscribe", "publish">>

\* mqtt_subscribe_topic, or mqtt_publish_message on the other board.
Packets(n) == IF n \in Subscribers THEN <<"subscribe">> ELSE <<"publish">>

\* A failure to write ends main without mqtt_disconnect, the library having closed the
\* socket.
Announce(n) ==
  /\ pc[n] = "announce"
  /\ \/ /\ Proceed(n)
        /\ Send(n, Packets(n))
        /\ UNCHANGED <<mqtt, inbox, down>>
     \/ /\ Goto(n, "ended") /\ CloseSocket(n)
        /\ UNCHANGED outbox
  /\ UNCHANGED <<sem_mqtt_connected, printed, link, brokerVars, restarts>>

\* A plausible bug: an error of mqtt_input does not end the loop.
LogError(n) == UNCHANGED pc

\* break, and mqtt_disconnect.
BreakLoop(n) == Goto(n, "ended")

\* One round of the event loop in which poll reports input.
PollInput(n) ==
  /\ pc[n] = "poll" /\ mqtt[n] # "idle" /\ inbox[n] # <<>>
  /\ LET p == Head(inbox[n]) IN
       \/ /\ p = "eof"
          /\ BreakLoop(n) /\ CloseSocket(n)
          /\ UNCHANGED printed
       \/ /\ p # "eof"
          /\ inbox' = [inbox EXCEPT ![n] = Tail(@)]
          /\ printed' = IF p \in Greetings
                        THEN [printed EXCEPT ![n] = @ \cup {p}] ELSE printed
          /\ UNCHANGED <<pc, mqtt, down>>
  /\ UNCHANGED <<sem_mqtt_connected, link, outbox, brokerVars, restarts>>

\* poll fails or reports an error of the socket, as it may once the network has been
\* lost or the broker has closed.
PollError(n) ==
  /\ pc[n] = "poll" /\ mqtt[n] # "idle" /\ (~link[n] \/ at[n] = "closed")
  /\ Goto(n, "ended") /\ CloseSocket(n)
  /\ UNCHANGED <<sem_mqtt_connected, printed, link, outbox, brokerVars, restarts>>

-------------------------------------------------------------------------------
(* The broker, the network and the power switch (external)                   *)

Quieted(n) == quiet' = [quiet EXCEPT ![n] = 0]
Arrived(n) == outbox' = [outbox EXCEPT ![n] = Tail(@)]

\* Packets set out for the nodes of S; a closed socket takes nothing.
SendDown(S, ps) ==
  [m \in Nodes |-> IF m \in S /\ mqtt[m] # "idle" THEN down[m] \o ps ELSE down[m]]

\* One reaches its node.
Arrive(n) ==
  /\ link[n] /\ down[n] # <<>>
  /\ down' = [down EXCEPT ![n] = Tail(@)]
  /\ inbox' = [inbox EXCEPT ![n] = Append(@, Head(down[n]))]
  /\ UNCHANGED <<nodeVars, link, outbox, brokerVars, restarts>>

\* The broker gives up a connection on which it cannot deliver: what was on the way
\* is lost, and the node is told nothing.
GiveUp(n) ==
  /\ ~link[n] /\ down[n] # <<>>
  /\ down' = [down EXCEPT ![n] = <<>>]
  /\ at' = [at EXCEPT ![n] = "closed"]
  /\ UNCHANGED <<nodeVars, link, outbox, inbox, subs, kept, quiet, restarts>>

\* The connections the broker closes when it accepts that of n.
TakenOver(n) == {m \in Nodes \ {n} : at[m] = "open" /\ ClientId(m) = ClientId(n)}

\* The session stands; what was not acknowledged in it is sent again.
Answer(n) == IF ClientId(n) \in kept THEN <<"connack", "repeat">> ELSE <<"connack">>

TakeConnect(n) ==
  /\ link[n] /\ at[n] = "waiting"
  /\ outbox[n] # <<>> /\ Head(outbox[n]) = "connect"
  /\ Arrived(n) /\ Quieted(n)
  /\ at' = [m \in Nodes |-> IF m = n THEN "open"
                            ELSE IF m \in TakenOver(n) THEN "closed" ELSE at[m]]
  /\ down' = [m \in Nodes |-> IF m = n THEN SendDown({n}, Answer(n))[m]
                                       ELSE SendDown(TakenOver(n), <<"eof">>)[m]]
  /\ UNCHANGED <<nodeVars, link, inbox, subs, kept, restarts>>

TakeSubscribe(n) ==
  /\ link[n] /\ at[n] = "open" /\ outbox[n] # <<>> /\ Head(outbox[n]) = "subscribe"
  /\ Arrived(n) /\ Quieted(n)
  /\ subs' = subs \cup {ClientId(n)}
  /\ down' = SendDown({n}, <<"ack">>)
  /\ UNCHANGED <<nodeVars, link, inbox, at, kept, restarts>>

\* The connections on which a message to the topic is sent, the publisher's own too.
Hearers == {m \in Nodes : at[m] = "open" /\ ClientId(m) \in subs}

\* The greeting has QoS 1: every session that is subscribed keeps it.
TakePublish(n) ==
  /\ link[n] /\ at[n] = "open" /\ outbox[n] # <<>> /\ Head(outbox[n]) = "publish"
  /\ Arrived(n) /\ Quieted(n)
  /\ kept' = kept \cup subs
  /\ down' = [m \in Nodes |->
       IF m = n THEN SendDown({n}, IF n \in Hearers THEN <<"ack", "greeting">>
                                                    ELSE <<"ack">>)[m]
                ELSE SendDown(Hearers, <<"greeting">>)[m]]
  /\ UNCHANGED <<nodeVars, link, inbox, at, subs, restarts>>

\* What reaches a closed connection is dropped.
DropLate(n) ==
  /\ at[n] = "closed" /\ outbox[n] # <<>>
  /\ outbox' = [outbox EXCEPT ![n] = <<>>]
  /\ UNCHANGED <<nodeVars, link, down, inbox, brokerVars, restarts>>

Close(n) ==
  /\ at' = [at EXCEPT ![n] = "closed"]
  /\ down' = SendDown({n}, <<"eof">>)
  /\ UNCHANGED <<nodeVars, link, outbox, inbox, subs, kept, quiet, restarts>>

\* The broker's keep-alive.
Expire(n) == at[n] = "open" /\ quiet[n] = Patience /\ Close(n)

\* The node has closed its socket.
HangUp(n) == at[n] \in {"waiting", "open"} /\ mqtt[n] = "idle" /\ link[n] /\ Close(n)

\* publish of Project/PC/server.py: one message, with QoS 0, which is kept for nobody.
ServerPublishes ==
  /\ Hearers # {} /\ \A m \in Hearers : Len(inbox[m]) + Len(down[m]) < MaxQueued
  /\ down' = SendDown(Hearers, <<"command">>)
  /\ UNCHANGED <<nodeVars, link, outbox, inbox, brokerVars, restarts>>

\* Half a keep-alive period passes, in which whatever takes less time is done.
HalfPeriod ==
  /\ \A n \in Nodes : /\ pc[n] \notin {"connect", "announce"} /\ inbox[n] = <<>>
                      /\ pc[n] = "connack" => sem_mqtt_connected[n] = 0
                      /\ link[n] => outbox[n] = <<>> /\ down[n] = <<>>
                      /\ at[n] = "open" => quiet[n] < Patience
  /\ \E n \in Nodes : at[n] = "open"
  /\ quiet' = [n \in Nodes |-> IF at[n] = "open" THEN quiet[n] + 1 ELSE quiet[n]]
  /\ UNCHANGED <<nodeVars, link, outbox, down, inbox, at, subs, kept, restarts>>

LinkChanges(n) ==
  /\ link' = [link EXCEPT ![n] = ~@]
  /\ UNCHANGED <<nodeVars, outbox, down, inbox, brokerVars, restarts>>

\* The node is reset.  The connection it leaves behind is read by nobody: it stands
\* at the broker until the next CONNECT or the keep-alive ends it, and a packet of it
\* that the broker takes meanwhile might as well have been taken before the reset.
Restart(n) ==
  /\ restarts < MaxRestarts /\ pc[n] # "join"
  /\ restarts' = restarts + 1
  /\ Goto(n, "join") /\ CloseSocket(n)
  /\ sem_mqtt_connected' = [sem_mqtt_connected EXCEPT ![n] = 0]
  /\ printed' = [printed EXCEPT ![n] = {}]
  /\ outbox' = [outbox EXCEPT ![n] = <<>>]
  /\ at' = [at EXCEPT ![n] = "none"] /\ quiet' = [quiet EXCEPT ![n] = 0]
  /\ UNCHANGED <<link, subs, kept>>

-------------------------------------------------------------------------------
Main(n)   == \/ Join(n) \/ Connect(n) \/ ConnackInput(n) \/ ConnackSeen(n)
             \/ Announce(n) \/ PollInput(n)
Broker(n) == \/ TakeConnect(n) \/ TakeSubscribe(n) \/ TakePublish(n)
             \/ DropLate(n) \/ Expire(n) \/ HangUp(n)

Next == \/ \E n \in Nodes : \/ Main(n) \/ ConnackFails(n) \/ PollError(n)
                            \/ Broker(n) \/ Arrive(n) \/ GiveUp(n)
                            \/ LinkChanges(n) \/ Restart(n)
        \/ ServerPublishes \/ HalfPeriod

Spec == Init /\ [][Next]_vars

\* A node's main runs whenever it is not blocked, the broker answers, and what it
\* sends arrives while the network works.
FairSpec == Spec /\ \A n \in Nodes : WF_vars(Main(n)) /\ WF_vars(Broker(n))
                                     /\ WF_vars(Arrive(n))
-------------------------------------------------------------------------------
(* Properties                                                                *)

TypeOK ==
  /\ pc \in [Nodes -> {"join", "connect", "connack", "announce", "poll", "ended"}]
  /\ mqtt \in [Nodes -> {"idle", "tcp", "connected"}]
  /\ sem_mqtt_connected \in [Nodes -> {0, 1}]
  /\ link \in [Nodes -> BOOLEAN]
  /\ at \in [Nodes -> {"none", "waiting", "open", "closed"}]
  /\ subs \subseteq {CLIENT_ID} /\ kept \subseteq subs
  /\ quiet \in [Nodes -> 0 .. Patience]
  /\ printed \in [Nodes -> SUBSET Greetings]
  /\ outbox \in [Nodes -> Seq({"connect", "subscribe", "publish"})]
  /\ {down, inbox} \subseteq [Nodes -> Seq({"connack", "ack", "eof", "command"} \cup Greetings)]
  /\ \A n \in Nodes : Len(outbox[n]) <= 2
  /\ restarts \in 0 .. MaxRestarts

\* No M5 Core2 prints a greeting when it is published, in whatever order the boards
\* connect, announce themselves, lose their network and are restarted: their common
\* CLIENT_ID lets the broker keep only one of them at a time, and the greeting goes to
\* the ESP32 DK that published it.  An M5 Core2 sees it as a repeat at best, on a
\* later connection (mqtt_connect_client, and the last step of either main).
NoGreetingLive == \A s \in Subscribers : "greeting" \notin printed[s]

\* A greeting that the subscription caught is printed by an M5 Core2 on every later
\* connection of its, since none is ever acknowledged: the CONNACK ends the wait, and the
\* repeat behind it is read by the event loop and not by the wait, whatever the others do
\* (mqtt_evt_handler, and the two loops of main).
GreetingReturns ==
  \A s \in Subscribers :
    []link[s] =>
      (pc[s] = "connack" /\ at[s] = "open" /\ ClientId(s) \in kept
         ~> "repeat" \in printed[s] \/ pc[s] \in {"ended", "join"})

\* A node that was given the session, and waits for its CONNACK on an open socket, has
\* the answer in front of whatever else is sent to it, or the token main waits for
\* (main's wait, and the CONNACK case of mqtt_evt_handler).
HolderAnswered ==
  \A n \in Nodes : at[n] = "open" /\ pc[n] = "connack" /\ mqtt[n] # "idle" =>
    \/ sem_mqtt_connected[n] = 1
    \/ inbox[n] # <<>> /\ Head(inbox[n]) = "connack"
    \/ inbox[n] = <<>> /\ down[n] # <<>> /\ Head(down[n]) = "connack"

\* A node whose connection was taken over, or has expired, leaves its event loop as
\* long as it keeps its network, whatever the others do and lose (main's event
\* loop); without it, nothing may ever tell it.
LoserStops ==
  \A n \in Nodes :
    []link[n] => ((pc[n] = "poll" /\ at[n] = "closed") ~> (pc[n] # "poll"))

\* A node that was given the session gets to its event loop, ends or is reset, as long
\* as it keeps its network: nodes that take the session from each other do not hold one
\* another up in the wait for the CONNACK.  A CONNACK lost with the network leaves main
\* in that wait for ever (main).
SessionUsed ==
  \A n \in Nodes :
    []link[n] => (at[n] = "open" ~> (pc[n] \in {"poll", "ended", "join"}))

\* "CONFIG_MQTT_KEEPALIVE=60": a node in its event loop sends something in every
\* keep-alive period, so the broker never closes it for its silence.
KeptAlive ==
  \A n \in Nodes :
    pc[n] = "poll" /\ at[n] = "open" /\ link[n] => quiet[n] < Patience
===============================================================================
