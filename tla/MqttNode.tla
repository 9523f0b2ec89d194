------------------------------- MODULE MqttNode -------------------------------
(***************************************************************************)
(* The MQTT firmware of the M5 Core2 (Project/M5_Core2/src/main.c) and of  *)
(* the ESP32 DK (Project/ESP32_DK/src/main.c), which share all their       *)
(* networking code: the first subscribes once connected, the second        *)
(* publishes one greeting.  main joins the Wi-Fi, waits for an address,    *)
(* resolves the broker, connects, waits for the CONNACK, announces itself  *)
(* and then polls the socket for ever.  Callbacks of the network           *)
(* management thread and of the resolver hand over to main by semaphores   *)
(* of limit 1: a give to a main that is pended makes it ready and leaves   *)
(* the count at 0, and is nobody's to take back.  The MQTT library calls   *)
(* mqtt_evt_handler inside mqtt_input, on main's own thread.               *)
(*                                                                         *)
(* The Wi-Fi driver, the resolver, the MQTT library and the broker are     *)
(* external: they do what this code relies on.  Of the library that is:    *)
(* it parses a header into rx_buff, sets the payload bytes still to be     *)
(* read, refuses any further input (-EBUSY) until they have been read, and *)
(* closes the socket itself when a read fails.  A step of the broker is    *)
(* taken when its packet reaches the node, which needs the association:    *)
(* TCP sends again what was lost with it, until the broker gives up.       *)
(***************************************************************************)
EXTENDS Integers, Sequences, FiniteSetsExt

CONSTANTS
  RxLen,      \* MQTT_CLIENT_RX_BUF_LEN
  Wrap,       \* 2^16, for uint16_t
  HeaderLen,  \* cells a header parsed into rx_buff fills
  Payloads,   \* lengths of published payloads
  MaySplit,   \* whether a payload may arrive later than its header
  MaxQueued   \* bound: packets waiting in the socket

ASSUME MqttAssumption ==
  /\ RxLen \in Nat \ {0} /\ Wrap \in Nat \ {0} /\ HeaderLen \in 1 .. RxLen
  /\ Payloads \subseteq Nat /\ MaySplit \in BOOLEAN /\ MaxQueued \in Nat

\* MQTT bounds what a packet may announce.
ASSUME LongestAssumption ==
  \E longest \in Payloads \cup {0} : \A n \in Payloads : n <= longest

Messages == {1, 2}   \* identities of messages

VARIABLES
  pc,        \* where main is
  request,   \* NET_REQUEST_WIFI_CONNECT: "none", "refused" or "sent"
  wifi,      \* associated, as far as the callbacks were told
  leased,    \* the interface has an address
  sem_wifi, sem_ipv4, dns_sem, sem_mqtt_connected,
  mqtt,      \* client.internal.state: "idle", "tcp" or "connected"
  remaining, \* client.internal.remaining_payload
  broker,    \* the broker's end of the connection, as far as its packets have
             \* reached the node; "gone": given up while nothing could reach it
  inbox,     \* packets in the client's socket, oldest first
  coming,    \* payload bytes of the newest packet that have not arrived
  rx_buff,   \* the receive buffer, cell by cell
  top,       \* history: one past the highest cell the handler wrote
  printed,   \* history: the last line printed about a message
  cause      \* history: why main ended

joinVars   == <<request, wifi, leased, sem_wifi, sem_ipv4, dns_sem>>
clientVars == <<sem_mqtt_connected, mqtt, remaining>>
brokerVars == <<broker, inbox, coming>>
printVars  == <<rx_buff, top, printed>>
vars == <<pc, joinVars, clientVars, brokerVars, printVars, cause>>

Cells     == 0 .. RxLen - 1
Header    == [kind |-> "header", of |-> 0, at |-> 0]
Blank     == [kind |-> "blank",  of |-> 0, at |-> 0]
Nul       == [kind |-> "nul",    of |-> 0, at |-> 0]
Char(m,i) == [kind |-> "char",   of |-> m, at |-> i]

Packet(kind)     == [kind |-> kind, of |-> 0, len |-> 0, here |-> 0]
Publish(m, n, h) == [kind |-> "publish", of |-> m, len |-> n, here |-> h]
Closed           == Packet("eof")

Nothing == [of |-> 0, len |-> 0, text |-> <<>>]

Init ==
  /\ pc = "join" /\ request = "none" /\ wifi = FALSE
  /\ leased = FALSE
  /\ sem_wifi = 0 /\ sem_ipv4 = 0 /\ dns_sem = 0 /\ sem_mqtt_connected = 0
  /\ mqtt = "idle" /\ remaining = 0
  /\ broker = "none" /\ inbox = <<>> /\ coming = 0
  /\ rx_buff = [i \in Cells |-> Blank] /\ top = 0 /\ printed = Nothing
  /\ cause = "none"

End(why) == pc' = "ended" /\ cause' = why

-------------------------------------------------------------------------------
(* Callbacks of the network management thread and of the resolver            *)

\* k_sem_give, limit 1: a main pended on the semaphore is handed the token.
Give(sem, wait, next) ==
  IF pc = wait THEN pc' = next /\ UNCHANGED sem
               ELSE sem' = 1 /\ UNCHANGED pc

\* k_sem_take by main, which goes on with the token or is pended.
Take(sem, wait, next) ==
  IF sem = 1 THEN pc' = next /\ sem' = 0
             ELSE pc' = wait /\ UNCHANGED sem

\* on_wifi_connection_event: CONNECT_RESULT without an error.  A result with an
\* error is only logged, and so is a failed disconnection.
Connected ==
  /\ request = "sent" /\ ~wifi
  /\ wifi' = TRUE
  /\ Give(sem_wifi, "join_wait", "joined")
  /\ UNCHANGED <<request, leased, sem_ipv4, dns_sem, clientVars, brokerVars,
                 printVars, cause>>

\* A plausible bug: the token is left where it is.
TokenStays == UNCHANGED sem_wifi

\* k_sem_take(&sem_wifi, K_NO_WAIT): the count, not what a waiting main was handed.
TakeBack == sem_wifi' = 0

\* on_wifi_connection_event: DISCONNECT_RESULT.  The address may go with the
\* association; nothing takes sem_ipv4 back.
Disconnected ==
  /\ wifi
  /\ wifi' = FALSE
  /\ leased' \in {FALSE, leased}
  /\ TakeBack
  /\ UNCHANGED <<pc, request, sem_ipv4, dns_sem, clientVars, brokerVars,
                 printVars, cause>>

\* Plausible bugs: the address is signalled only to a main that waits for it;
\* the semaphore counts without a limit.
SignalIfAwaited == /\ pc' = IF pc = "ip_wait" THEN "resolve" ELSE pc
                   /\ UNCHANGED sem_ipv4
SignalCounted   == IF pc = "ip_wait" THEN pc' = "resolve" /\ UNCHANGED sem_ipv4
                                     ELSE sem_ipv4' = sem_ipv4 + 1 /\ UNCHANGED pc

\* k_sem_give(&sem_ipv4).
Signal == Give(sem_ipv4, "ip_wait", "resolve")

\* on_ipv4_obtained.
AddressAdded ==
  /\ wifi /\ ~leased
  /\ leased' = TRUE
  /\ Signal
  /\ UNCHANGED <<request, wifi, sem_wifi, dns_sem, clientVars, brokerVars,
                 printVars, cause>>

\* dns_result_cb: an address has been stored and the query is done.  Every other
\* status is only logged.
DnsDone ==
  /\ pc \in {"take_dns", "dns_wait"} /\ wifi /\ leased
  /\ Give(dns_sem, "dns_wait", "connect")
  /\ UNCHANGED <<request, wifi, leased, sem_wifi, sem_ipv4, clientVars, brokerVars,
                 printVars, cause>>

-------------------------------------------------------------------------------
(* main, up to the CONNACK                                                   *)

\* Start the display, register the callbacks and ask for the association.
Join ==
  /\ pc = "join"
  /\ \/ pc' = "take_wifi" /\ request' \in {"refused", "sent"} /\ UNCHANGED cause
     \/ End("display") /\ UNCHANGED request
  /\ UNCHANGED <<wifi, leased, sem_wifi, sem_ipv4, dns_sem, clientVars, brokerVars,
                 printVars>>

\* wifi_connect waits for the association, for ever, whatever the request
\* returned.
JoinWait ==
  /\ pc = "take_wifi"
  /\ Take(sem_wifi, "join_wait", "joined")
  /\ UNCHANGED <<request, wifi, leased, sem_ipv4, dns_sem, clientVars, brokerVars,
                 printVars, cause>>

\* main looks at what the request returned.
Joined ==
  /\ pc = "joined"
  /\ IF request = "refused" THEN End("wifi")
                            ELSE pc' = "take_ip" /\ UNCHANGED cause
  /\ UNCHANGED <<joinVars, clientVars, brokerVars, printVars>>

\* wifi_wait_for_ip_addr.
IpWait ==
  /\ pc = "take_ip"
  /\ Take(sem_ipv4, "ip_wait", "resolve")
  /\ UNCHANGED <<request, wifi, leased, sem_wifi, dns_sem, clientVars, brokerVars,
                 printVars, cause>>

\* resolve_dns: start the query.
Resolve ==
  /\ pc = "resolve"
  /\ \/ pc' = "take_dns" /\ UNCHANGED cause
     \/ End("dns")
  /\ UNCHANGED <<joinVars, clientVars, brokerVars, printVars>>

\* resolve_dns: wait for the answer.
DnsWait ==
  /\ pc = "take_dns"
  /\ Take(dns_sem, "dns_wait", "connect")
  /\ UNCHANGED <<request, wifi, leased, sem_wifi, sem_ipv4, clientVars, brokerVars,
                 printVars, cause>>

\* resolve_dns: 10 s without an answer.
DnsTimeout ==
  /\ pc = "dns_wait"
  /\ End("dns")
  /\ UNCHANGED <<joinVars, clientVars, brokerVars, printVars>>

\* mqtt_connect_client: connect the socket and send CONNECT.
MqttConnect ==
  /\ pc = "connect"
  /\ \/ /\ wifi /\ leased
        /\ pc' = "connack" /\ mqtt' = "tcp" /\ broker' = "connecting"
        /\ UNCHANGED cause
     \/ /\ End("connect")
        /\ UNCHANGED <<mqtt, broker>>
  /\ UNCHANGED <<joinVars, sem_mqtt_connected, remaining, inbox, coming,
                 printVars>>

\* A plausible bug: the semaphore is given for any CONNACK.
GiveForAny(accepted) == sem_mqtt_connected' = 1

\* mqtt_evt_handler, MQTT_EVT_CONNACK.
GiveIfAccepted(accepted) ==
  sem_mqtt_connected' = IF accepted THEN 1 ELSE sem_mqtt_connected

\* One mqtt_input of the loop that waits for the CONNACK; its result is not
\* looked at.  The library closes the socket on a refusal or an end of file.  The
\* mqtt_live behind it pings in state connected only, which the loop leaves at once.
ConnackInput ==
  /\ pc = "connack" /\ sem_mqtt_connected = 0
  /\ mqtt = "tcp" /\ inbox # <<>>
  /\ \/ /\ Head(inbox).kind = "connack"
        /\ GiveIfAccepted(TRUE)
        /\ mqtt' = "connected" /\ inbox' = Tail(inbox)
     \/ /\ Head(inbox).kind = "refusal"
        /\ GiveIfAccepted(FALSE)
        /\ mqtt' = "idle" /\ inbox' = <<>>
     \/ /\ Head(inbox).kind = "eof"
        /\ mqtt' = "idle" /\ inbox' = <<>>
        /\ UNCHANGED sem_mqtt_connected
  /\ UNCHANGED <<pc, joinVars, remaining, broker, coming, printVars, cause>>

\* mqtt_input of the same loop finds the connection broken: the library closes the
\* socket, and the loop looks at no result.
ConnackFails ==
  /\ pc = "connack" /\ sem_mqtt_connected = 0
  /\ mqtt = "tcp" /\ inbox = <<>>
  /\ mqtt' = "idle"
  /\ UNCHANGED <<pc, joinVars, sem_mqtt_connected, remaining, brokerVars, printVars,
                 cause>>

\* The semaphore's count ends the loop; nobody takes it.
ConnackSeen ==
  /\ pc = "connack" /\ sem_mqtt_connected = 1
  /\ pc' = "announce"
  /\ UNCHANGED <<joinVars, clientVars, brokerVars, printVars, cause>>

\* mqtt_subscribe_topic (M5 Core2) or mqtt_publish_message (ESP32 DK); a packet
\* that cannot be written ends main.
Announce ==
  /\ pc = "announce"
  /\ IF mqtt = "idle"
     THEN pc' = "poll" /\ UNCHANGED <<mqtt, broker, cause>>
     ELSE \/ /\ pc' = "poll"
             /\ broker' = IF broker = "session" THEN "announced" ELSE broker
             /\ UNCHANGED <<mqtt, cause>>
          \/ /\ End("announce") /\ mqtt' = "idle"
             /\ UNCHANGED <<broker>>
  /\ UNCHANGED <<joinVars, sem_mqtt_connected, remaining, inbox, coming,
                 printVars>>

-------------------------------------------------------------------------------
(* main's event loop                                                         *)

\* A plausible bug: room for the terminator is forgotten.
ReadLengthNoNul(n) == Min({n % Wrap, RxLen})

\* A plausible bug: one byte too many is kept for the terminator.
ReadLengthTooShort(n) == Min({n % Wrap, RxLen - 2})

\* MQTT_EVT_PUBLISH: what the handler asks the library for; the length goes
\* through a uint16_t.
ReadLength(n) == Min({n % Wrap, RxLen - 1})

\* The library has parsed the header of the packet into rx_buff.
Parsed == [i \in Cells |-> IF i < HeaderLen THEN Header ELSE rx_buff[i]]

\* A plausible bug: the buffer is printed without a terminator.
FillNoNul(m, k, len) ==
  [i \in Cells |-> IF i < k THEN Char(m, i + 1) ELSE Parsed[i]]

\* rx_buff once k bytes of message m were read and the terminator was written
\* after the len bytes asked for.
Fill(m, k, len) ==
  [i \in Cells |-> IF i < k THEN Char(m, i + 1)
                   ELSE IF i = len THEN Nul ELSE Parsed[i]]

\* printk("%s"): the cells before the first terminator.
Text(buf) ==
  LET nuls == {i \in Cells : buf[i] = Nul}
  IN  [i \in 1 .. IF nuls = {} THEN RxLen ELSE Min(nuls) |-> buf[i - 1]]

\* mqtt_evt_handler on a PUBLISH whose first p.here payload bytes have arrived.
\* rest is what follows the header in the socket once they are read.
HandlePublish(p) ==
  LET len == ReadLength(p.len)
      k   == Min({len, p.here})
  IN  \/ /\ p.len = 0 \/ k > 0
         /\ rx_buff' = Fill(p.of, k, len)
         /\ top' = Max({top, len + 1})
         /\ printed' = [of |-> p.of, len |-> p.len, text |-> Text(rx_buff')]
         /\ remaining' = p.len - k
         /\ inbox' = IF p.here > k THEN <<Packet("bytes")>> \o Tail(inbox)
                                   ELSE Tail(inbox)
         /\ UNCHANGED mqtt
      \/ \* nothing to read yet
         /\ p.len > 0 /\ len > 0 /\ p.here = 0
         /\ rx_buff' = Parsed
         /\ UNCHANGED <<top, printed>>
         /\ IF Len(inbox) > 1   \* the end of file follows: the library closes
            THEN mqtt' = "idle" /\ remaining' = 0 /\ inbox' = <<>>
            ELSE remaining' = p.len /\ inbox' = <<>> /\ UNCHANGED mqtt
      \/ \* a length of 0 modulo 2^16: the library takes it for a closed socket
         /\ p.len > 0 /\ len = 0
         /\ rx_buff' = Parsed
         /\ UNCHANGED <<top, printed>>
         /\ mqtt' = "idle" /\ remaining' = 0 /\ inbox' = <<>>

\* A plausible bug: the result of mqtt_input is only logged.
InputLogged(why) == UNCHANGED <<pc, cause>>

\* An error of mqtt_input ends the loop.
InputFails(why) == End(why)

\* poll reports input (when it times out, or the socket is not open any more,
\* nothing but the display is served).  The library refuses it while payload is unread;
\* otherwise it handles one packet.
PollInput ==
  /\ pc = "poll" /\ mqtt # "idle" /\ inbox # <<>>
  /\ \/ /\ remaining > 0
        /\ InputFails("busy")
        /\ mqtt' = "idle" /\ inbox' = <<>>
        /\ UNCHANGED <<remaining, printVars>>
     \/ /\ remaining = 0 /\ Head(inbox).kind = "eof"
        /\ InputFails("lost")
        /\ mqtt' = "idle" /\ inbox' = <<>>
        /\ UNCHANGED <<remaining, printVars>>
     \/ /\ remaining = 0 /\ Head(inbox).kind = "ack"
        /\ inbox' = Tail(inbox)
        /\ UNCHANGED <<pc, cause, mqtt, remaining, printVars>>
     \/ /\ remaining = 0 /\ Head(inbox).kind = "publish"
        /\ HandlePublish(Head(inbox))
        /\ UNCHANGED <<pc, cause>>
  /\ UNCHANGED <<joinVars, sem_mqtt_connected, broker, coming>>

\* poll fails, or reports an error of the socket.
PollError ==
  /\ pc = "poll" /\ mqtt # "idle"
  /\ End("lost")
  /\ mqtt' = "idle" /\ inbox' = <<>>
  /\ UNCHANGED <<joinVars, sem_mqtt_connected, remaining, broker, coming,
                 printVars>>

-------------------------------------------------------------------------------
(* The broker (external)                                                     *)

\* A packet reaches the client's open socket.
Deliver(p) == wifi /\ mqtt # "idle" /\ inbox' = Append(inbox, p)
AtBroker   == UNCHANGED <<pc, joinVars, clientVars, printVars, cause>>

BrokerAccepts ==
  /\ broker = "connecting"
  /\ broker' = "session"
  /\ Deliver(Packet("connack"))
  /\ AtBroker /\ UNCHANGED coming

BrokerRefuses ==
  /\ broker = "connecting"
  /\ broker' = "closed"
  /\ Deliver(Packet("refusal"))
  /\ AtBroker /\ UNCHANGED coming

\* SUBACK or PUBACK, behind the whole of what was sent before it.
BrokerAcks ==
  /\ broker = "announced" /\ coming = 0
  /\ broker' = "serving"
  /\ Deliver(Packet("ack"))
  /\ AtBroker /\ UNCHANGED coming

\* The session may have subscriptions from an earlier connection.
BrokerPublishes ==
  /\ broker \in {"session", "announced", "serving"}
  /\ coming = 0 /\ Len(inbox) < MaxQueued
  /\ \E m \in Messages, n \in Payloads :
       \E h \in IF MaySplit THEN 0 .. n ELSE {n} :
         /\ Deliver(Publish(m, n, h))
         /\ coming' = n - h
  /\ AtBroker /\ UNCHANGED broker

\* The rest of the payload arrives, before or after the handler has read.
PayloadArrives ==
  /\ coming > 0 /\ broker \notin {"closed", "gone"} /\ mqtt # "idle" /\ wifi
  /\ coming' = 0
  /\ LET last == Len(inbox) IN
       IF last > 0 /\ inbox[last].kind = "publish"
       THEN inbox' = [inbox EXCEPT ![last].here = inbox[last].len]
       ELSE inbox' = Append(inbox, Packet("bytes"))
  /\ AtBroker /\ UNCHANGED broker

\* The broker closes the connection, for want of packets from the client too.
BrokerCloses ==
  /\ broker \notin {"none", "closed", "gone"}
  /\ broker' = "closed"
  /\ Deliver(Closed)
  /\ coming' = 0
  /\ AtBroker

\* It closes or forgets the connection while the association is lost: nothing of
\* that ever reaches the node.
BrokerGivesUp ==
  /\ broker \notin {"none", "closed", "gone"} /\ ~wifi
  /\ broker' = "gone"
  /\ coming' = 0
  /\ AtBroker /\ UNCHANGED inbox

-------------------------------------------------------------------------------
Callbacks == Connected \/ Disconnected \/ AddressAdded \/ DnsDone
Main == \/ Join \/ JoinWait \/ Joined \/ IpWait \/ Resolve \/ DnsWait \/ DnsTimeout
        \/ MqttConnect \/ ConnackInput \/ ConnackSeen \/ Announce \/ PollInput
Broker == \/ BrokerAccepts \/ BrokerRefuses \/ BrokerAcks \/ BrokerPublishes
          \/ PayloadArrives \/ BrokerCloses \/ BrokerGivesUp

Next == Callbacks \/ Main \/ ConnackFails \/ PollError \/ Broker

Spec == Init /\ [][Next]_vars

\* main runs whenever it is not blocked; an association brings an address; the
\* rest of a payload arrives while association and connection last.
FairSpec == /\ Spec
            /\ WF_vars(Main) /\ WF_vars(AddressAdded) /\ WF_vars(PayloadArrives)
-------------------------------------------------------------------------------
(* Properties                                                                *)

Brim == Max(Payloads \cup {0})

TypeOK ==
  /\ pc \in {"join", "take_wifi", "join_wait", "joined", "take_ip", "ip_wait", "resolve",
             "take_dns", "dns_wait", "connect", "connack", "announce", "poll", "ended"}
  /\ request \in {"none", "refused", "sent"} /\ wifi \in BOOLEAN
  /\ leased \in BOOLEAN
  /\ {sem_wifi, sem_ipv4, dns_sem, sem_mqtt_connected} \subseteq {0, 1}
  /\ mqtt \in {"idle", "tcp", "connected"}
  /\ remaining \in 0 .. Brim /\ coming \in 0 .. Brim
  /\ broker \in {"none", "connecting", "session", "announced", "serving", "closed",
                 "gone"}
  /\ Len(inbox) <= MaxQueued + 3
  /\ \A i \in Cells : rx_buff[i].of \in Messages \cup {0} /\ rx_buff[i].at <= Brim
  /\ top \in Nat
  /\ cause \in {"none", "display", "wifi", "dns", "connect", "announce", "lost",
                "busy"}

\* Whatever length a broker announces, the handler reads and terminates inside
\* rx_buff (mqtt_evt_handler's clamp behind a uint16_t).
RxInBounds == top <= RxLen

\* main announces itself on a session the broker has accepted: the count of
\* sem_mqtt_connected tells it the state the library is in (main, and the
\* CONNACK case of mqtt_evt_handler).
AnnouncedConnected == pc = "announce" => mqtt = "connected"

\* A token that lies in sem_wifi stands for an association that still stands: a main
\* that comes to its wait after a loss waits for the next one
\* (on_wifi_connection_event).  It says nothing of a main that was already pended: that
\* one is handed the token, and may find the association lost when it runs.
WifiTokenFresh == sem_wifi = 1 => wifi

\* No wait sleeps through its event: whatever has happened by the time main gets to
\* a wait has left a token for it, and main is never pended for what has happened
\* (the callbacks against wifi_connect, wifi_wait_for_ip_addr and the wait for the
\* CONNACK).
NoWakeupLost ==
  /\ pc \in {"join", "take_wifi"} /\ wifi => sem_wifi = 1
  /\ pc = "join_wait" => ~wifi
  /\ pc \in {"join", "take_wifi", "join_wait", "joined", "take_ip"} /\ leased
       => sem_ipv4 = 1
  /\ pc = "ip_wait" => ~leased
  /\ pc = "connack" /\ mqtt = "connected" => sem_mqtt_connected = 1

\* The text printed about a message is a prefix of its payload, and all of it
\* when it fits, whatever earlier and longer messages left in rx_buff.  It needs
\* payloads to arrive with their header.
PrintedFaithfully ==
  /\ \A i \in DOMAIN printed.text : printed.text[i] = Char(printed.of, i)
  /\ printed.len < RxLen => Len(printed.text) = printed.len

\* A message that fits rx_buff never leaves payload unread, which would make the
\* library refuse the next packet and main end; one byte more does.  It needs payloads
\* to arrive with their header.
FittingKeepsHandling == cause = "busy" => printed.len >= RxLen

\* main is not left polling a session whose end has reached it: once a close has
\* arrived, the socket is open and has something to report to the event loop, whatever
\* was announced and printed before (main's event loop, mqtt_evt_handler).  It needs
\* payloads to arrive with their header and no length to be 0 modulo 2^16 except 0.  A
\* session the broker gives up while the association is lost ("gone") is not meant:
\* the loop sends nothing, and never learns of it.
LossInSocket == pc = "poll" /\ broker = "closed" => mqtt # "idle" /\ inbox # <<>>

\* The node comes online: with a lasting association main goes on to the broker,
\* in whatever order the callbacks and main's waits fall, and once the broker
\* accepts, main announces itself.
GetsOnline ==
  /\ <>[]wifi => <>(pc \in {"connack", "announce", "poll", "ended"})
  /\ broker = "session" ~> (pc \in {"poll", "ended"})

\* main notices the end of its session that has reached it, and stops.
LossNoticed == (pc = "poll" /\ broker = "closed") ~> (pc = "ended")

\* "MQTT client not connected, cannot subscribe.": without a connection main
\* gets past its wait for the CONNACK.
ConnackWaitEnds ==
  (pc = "connack" /\ broker = "closed") ~> (pc # "connack")
===============================================================================
