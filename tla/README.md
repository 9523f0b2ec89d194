# Verification of the Dionysus-Purple firmware

TLA+ models of the programs under `Project/`, the TLC runs that check them on
small instances, and the theorems TLAPS proves about them for every value of
the constants. Paths below are relative to the repository (`src/` in
`PROJECT.json`, which maps every definition to the lines it models).

## 1. The system

A room controller built from small Zephyr boards and Python scripts. Four
data paths are independent of each other:

    Thingy:52 --BLE beacon--> nRF52840 DK --serial JSON--> PC (ibeacon.py) --> InfluxDB
    ESP32-S3-EYE --TCP "READY" + frame--> PC (imagesocket.py)
    ESP32 DK --publish--> MQTT broker (broker.emqx.io) --> M5 Core2 (subscribe, print)
    image sender --> Mosquitto --> store-and-forward --> image receiver

| Component | State | Operations | Interaction |
|---|---|---|---|
| Camera node, `ESP32_EYE/src/main.c` | pool of video buffers, `frame_copy`/`frame_size`, `tx_signal`, one listening and one client socket | `camera_thread` loop, `network_thread` loop, `sendall`, `main` | two threads share the globals and the signal; driver owns queued buffers; TCP to the viewer |
| Image viewer, `PC/imagesocket.py` | one socket, bytes received so far | `recv_exact`, header check, show | TCP client of the camera node |
| Base node, `nRF52840_DK/src/main.c` | `temp`, `light`, `clap` and a `new_` flag each | `adv_data_cb`, `main` loop, `json_print` | callback on the Bluetooth receive thread against `main`; serial line to the PC |
| MQTT nodes, `M5_Core2/src/main.c`, `ESP32_DK/src/main.c` | four semaphores, the MQTT client with `rx_buff`, the polled descriptor | Wi-Fi/IP/DNS callbacks, `main`'s sequence of waits, `mqtt_evt_handler`, poll loop | callbacks hand over by semaphores; the library calls the handler on `main`'s thread |
| Sensor node, `Thingy52/src/main.c` | slab of 4 audio blocks, one round of values | `do_pdm_transfer`, `read_temperature`, `read_light`, `advertise_thingy` | driver allocates blocks, `main` frees them; beacons to the base node |
| Ultrasonic node, `Disco_L475/src/main.c` | echo timing, `sock` | measuring loop, Wi-Fi callback with `connect_to_server` | callback thread and `main` are independent but for the board |
| Image store, `MQTT_Server/*.py` | files named by the second | `on_message` | three MQTT clients and a broker |
| Dashboard, `PC/ibeacon.py` | `array` of three values | `parse_data`, the write loop | serial line (commented out), InfluxDB |
| Gesture recognition, `gesture_recognition/*.py` | a trained network | train, classify | files only |
| Test scripts, `PC/client.py`, `PC/server.py` | a message counter | publish, print | broker |

What is hard in each, and what makes it correct:

* **Camera node.** A preemptive thread publishes a *pointer to a live buffer*
  in two globals that a second thread reads one after the other; a signal is
  checked before and reset after a blocking call; the same buffers cycle
  through the driver. Correct means: every buffer has one owner; the pair read
  by `sendall` is usable; the handshake never stalls; the byte stream stays in
  step with the viewer over short sends, short receives and reconnections; a
  dead client makes room for the next.
* **Base node.** A callback sets flags that `main` tests and clears between a
  stop and a restart of the scan. Correct means: what came in after a line
  keeps its flag, no clap is reported twice, everything that completes a line
  is printed.
* **MQTT nodes.** Three callbacks and a sequence of waits, each with a
  semaphore of limit 1; a length that passes through 16 bits into a 128-byte
  buffer the library uses too. Correct means: no wait misses its event, none
  is ended by a token of an association lost before it, the buffer is
  respected and the text printed is the message, and the end of the session is
  noticed when it reaches the node.
* **MQTT nodes among each other.** Both programs present the same client
  identifier to one broker and share one persistent session; neither sends
  anything in its event loop or acknowledges a message; boards are reset and
  lose their Wi-Fi. Correct would mean: a greeting sent by one is printed by the
  other when it is sent (it never is; it may be repeated on later connections);
  who loses the connection stops, who gets the session uses it.
* **Sensor node and beacon link.** The audio driver takes blocks from a slab
  whose size is exactly what driver, queue and `main` can hold together; a
  round that leaves a block behind must not push the next one further back;
  the beacon's fields should mean the same to sender and receiver (they do
  not: lines 175-177 pack readings where `adv_data_cb` expects a kind).
* **Ultrasonic node.** Two polling loops on a pin that may never change, timed
  by a counter that wraps, on the thread with the lowest priority; `stop_time`
  of an older echo; a descriptor shared with a callback on another thread.
* **Image store.** Two images within a second share a file name.

`PROJECT.json` lists every such hazard at its line, with the properties that
cover it or the reason none does; that of the image store, one line of a
script that is not modelled, is only named here.

## 2. Modules

| Module | Models | Notes |
|---|---|---|
| `CameraNode` | the whole firmware of the ESP32-S3-EYE, with its capture driver and TCP stack as external actions | the core of the project |
| `ImageViewer` | extends `CameraNode` with `imagesocket.py` as the TCP peer | composition; liveness lives here |
| `FrameChannel` | what the two promise together: headers and frames in alternation, whole and in order | abstract specification, implemented by `ImageViewer` |
| `BaseNode` | the nRF52840 firmware | |
| `ThingyNode` | the Thingy:52 firmware with its audio driver | |
| `BeaconLink` | extends `ThingyNode`, instantiates `BaseNode`: the radio between them | composition |
| `MqttNode` | the networking code of M5 Core2 and ESP32 DK, with one broker connection | one node in detail |
| `MqttSession` | any number of either node, one broker, the PC script `server.py` | the nodes together |
| `UltrasonicNode` | the Disco L475 firmware, with sensor and counter | |
| `*_proofs` | the theorems about the module of that name | `ImageViewer_proofs` and `BeaconLink_proofs` build on those of the nodes they compose |

### CameraNode, ImageViewer and FrameChannel

Variables are named after the code: `frame_copy`, `frame_size`, `tx_signal`,
`vbuf`, `signaled`; `cam_pc` and `net_pc` say where the threads are. The
driver is a queue of buffers waiting (`incoming`), one being filled byte by
byte (`active`, `filled`), and a queue of finished ones (`done`); `content`
is the memory itself, so a frame that is overwritten while it is sent shows
in the bytes on the `wire`.

*Atomicity.* One core. `camera_thread` (priority 1) preempts
`network_thread` (priority 3) anywhere; the reverse happens only when
`camera_thread` blocks. So all of `camera_thread` between two blocking calls
is one action, and each access of `network_thread` to a shared global is one:
the two arguments of `sendall(client, frame_copy, frame_size)` are read in
two steps, in either order, because C leaves the order open. Displaying a
frame can block (the display bus), so `CamRequeue` is a step after
`CamDequeue`, and the other thread may run in between.

*TCP.* Bytes in flight are a bounded sequence (`Window`). A client that
closes makes further sends vanish (`conn = "closing"`) until the reset comes
(`"gone"`); only then does a send fail. One more connection can wait in the
listen queue, and may have left again when it is accepted.

*Failures.* Every early return of either thread is an alternative: setup,
`video_dequeue` after 20 s, `video_enqueue`, socket/bind/listen, accept. A
send from a null pointer stops the whole node (`net_pc = "fault"`).

*Viewer.* `recv_exact` receives any number of bytes up to what is missing;
its 5 s timeout may strike whenever nothing is in flight (no clock is
modelled: a timeout is a choice); leaving closes the socket, and another
viewer may start at once.

*Refinement.* `FrameChannel` knows neither threads, buffers nor TCP: the
viewer is receiving a header or a frame, every receive continues it at the
next place, and one follows the other only when complete. `ImageViewer`
implements it under the mapping of `Channel`: a connection accepted after the
first frame is open, and each received byte is what it is (`ReadyByte` or
pixel) at its place. Connections accepted before the first frame are outside,
because the code does send headers without frames to them.

### BaseNode

`AdvData` is the whole callback, in one step, because the receive thread is
cooperative and above `main`. `main`'s loop is one action per statement
between which a callback could fall; its two tests (readings, clap) have the
same shape and are told apart by `test`. The Bluetooth host forgets the callback on
`bt_le_scan_stop`, so `AdvData` needs `scanning`. `main` calls
`print_to_serial`, which no file defines; it is taken for `json_print`, the
only function that prints the readings. `unreported` is a history variable:
a reading came in after the last line that showed it.

### ThingyNode and BeaconLink

`main` is one thread; a step is a call that may block or fail, and every
failure ends `main` as the code does (a sensor that fails leaves its zero, a
beacon that does not start is skipped). The driver is external: it holds the
block it fills and the one it fills next (`filling`), queues each filled one
with the number of loud samples in it (`queued`), asks the slab for another,
and stops for good when there is none. What `dmic_trigger` STOP leaves queued
is the driver's choice. The slab is what nobody holds (`Free`).

*Time.* A block lasts 100 ms and `main` sleeps 100 ms between reading and
freeing one, so at most one block is completed in each such sleep
(`ticked`); while `main` waits in `dmic_read` the block it waits for is
completed; in the 200 ms and 5 s sleeps any number. The rest of a round is
assumed to take less than one block. `NeverStarved` and `OneBlockStale` stand
on this assumption: a node that spends longer on its log output falls behind.

`BeaconLink` calls `BaseNode!AdvData` with the numbers on air. The radio may
miss any beacon. The base node's controller filters duplicates
(`heard`): a beacon of an address in its list is not reported; a scan that
starts, starts with an empty list, and other devices may push an address out.

### UltrasonicNode

The program is about time, so time is explicit: `now` counts modulo `Wrap`
(2^32), each step of `main` comes within `Lag` ticks of the one before,
because other threads and interrupts run first, and the sensor raises and
drops the echo pin whenever it likes, for `MinEcho` to `MaxEcho` ticks. Reading
the pin and reading the counter are separate steps. A sleep of 100 ms outlasts
every echo. The conversion from ticks to centimetres is a division by
constants and left out: `distance` is in ticks.
`wifi_event_handler` runs on the network event thread: events that come while
`connect_to_server` blocks it wait. `open` is the kernel's side of the
socket, `sock` the number the program keeps.

### MqttNode and MqttSession

`MqttNode`: one action per wait of `main` and per callback. A wait is two
places: `main` comes to it (`take_wifi`, `take_ip`, `take_dns`) and takes a token that
lies there, or is pended (`join_wait`, `ip_wait`, `dns_wait`). A give to a `main` that is
pended hands it the token: it is ready, the count stays 0, and the callback of a
lost association, which takes what lies in `sem_wifi`, cannot take that back
(`Give`, `Take`, `TakeBack`). `rx_buff` is
modelled cell by cell (header, character *i* of message *m*, terminator, or
untouched), since what the handler prints depends on what the library and
earlier messages left there. `Wrap` stands for 2^16 and `ReadLength` applies
it before the comparison, as the `uint16_t` does. The library is external; the
model relies on: a header is parsed into `rx_buff`; unread payload makes the
next `mqtt_input` fail (-EBUSY); an end of file met inside
`mqtt_read_publish_payload` closes the socket. A poll that reports nothing
changes nothing and is not an action.

What the broker sends reaches the node only while it is associated; TCP sends it
again afterwards, until the broker gives up. A connection given up in that time
(`broker = "gone"`) leaves a socket that reports nothing: no guard of the event
loop sees it, and the wait for the CONNACK gets neither answer nor end.

`MqttSession` puts nodes together and keeps of each what its peers can tell:
the joining is two steps (`Join` blocks until there is a network, `Connect`
succeeds or ends `main`), payloads are one of two messages, a CONNACK always
accepts (`MqttNode` has the refusal). It adds what one node cannot show: every
node presents `CLIENT_ID`; the broker closes the connection that holds the
identifier when a new CONNECT brings it; silence of one and a half keep-alive
periods (`Patience` half periods) closes a connection. A node may be reset at any
time and loses its network at any time. What the broker sends is on the way
(`down`) before it is in the socket (`inbox`), CONNACK and end of file included; it
waits there while the network is down, and is lost when the broker gives the
connection up (`GiveUp`), of which the node is told nothing.

*The session.* Neither program sets `client.clean_session`
(`ESP32_DK/src/main.c:170-186`) and no `prj.conf` sets `CONFIG_MQTT_CLEAN_SESSION`, which
is off by default. So the identifier's subscription (`subs`) outlives every
connection, and so do the greetings, published with QoS 1 and acknowledged by
nobody (`kept`): `Answer` sends them again, as `"repeat"`, behind the CONNACK of
whichever board connects next. `server.py` publishes with QoS 0, which is kept for
nobody. The broker is taken to forget no session.
`Project/ESP32_DK/prj.conf` sets no MQTT option; the keep-alive of the
M5 Core2's is assumed for both. The lines of a node are mapped to
`ESP32_DK/src/main.c`; the subscriber differs from it in one call.

## 3. Runs

Each passing run checks the properties of one question; each property was also
confirmed able to fail by a mutant of the code (`mutants` in
`PROJECT.json`): a pointer cleared too early, a scan not stopped, a
terminator forgotten, a block not freed, a difference taken without the wrap.

| Run | Shows |
|---|---|
| `image_stream` | Camera and viewer implement `FrameChannel` (`ImplementsChannel`) and stay in step (`WarmStreamInStep`) across short sends and receives and new clients; `BuffersOwnedOnce`: no buffer lost or queued twice; `WarmStartNeverFaults`: a client accepted after the first frame never brings the node down, though the two reads can straddle a publication; `PhotoRefreshed`: the signal handshake never stalls although a raise can be wiped out by the reset; `PublishedOnRequest`: the frame changes only while the signal is up, and the same step takes it back, so that no raise made earlier brings a second frame; `FramesKeepComing`: buffers never run out; `GoneClientReleased` |
| `base_node` | `ReadingsFlagged`, `ClapPrintedOnce`, `Reported`: a reading that came in after a line keeps its flag, no clap is printed twice, every clap and every pair of readings leads to a line. A reading overwritten by a newer one of its kind before its line is not kept |
| `mqtt_node` | `RxInBounds`, `AnnouncedConnected`, `WifiTokenFresh`, with payloads in pieces; `WifiTokenFresh` is about a token that lies in `sem_wifi` (a pended `main` is handed it, and may find the association lost when it runs); `NoWakeupLost`: whatever a callback announced before `main` comes to its wait has left its token, and `main` is never pended for what has happened |
| `mqtt_text` | `PrintedFaithfully`, `FittingKeepsHandling`: only a message that does not fit can end `main` through unread payload; `LossInSocket`: once a close has reached the node, an open socket holds what tells `main`'s event loop; `GetsOnline`, `LossNoticed`, with payloads that arrive with their header. A close while the association is lost is outside these properties: nothing in the code ever notices it |
| `beacon_link` | `NeverStarved`, `OneBlockStale`, `RoundsRepeat` of the sensor node; `StoredFromRound`: what the base node stores was counted in the round just finished, over all its blocks, however long the duplicate filter holds a beacon back: the beacon is off the air before the next round is measured |
| `ultrasonic_node` | `Accurate`: a printed distance is that of the echo just measured, up to the delays and wherever the counter wraps, and never made of an older `stop_time`, if every echo outlasts four delays; `PollingBounded`; `NoSocketLeft` |
| `mqtt_session` | `NoGreetingLive`: no M5 Core2 prints a greeting when it is published, in any order of connections, losses and resets; `GreetingReturns`: a greeting the subscription caught is printed on every later connection of the M5 Core2, the wait for the CONNACK leaving the repeat behind it to the event loop; `HolderAnswered`: a node with the session has its CONNACK before anything else, or the token already; `LoserStops`: who loses the session leaves its event loop if it keeps its network; `SessionUsed`: who gets it and keeps its network comes out of the wait for the CONNACK |

Violations, each a disagreement between the code and what it or its
documents say (quoted under `findings`):

| Run | Shows |
|---|---|
| `camera_null` | the *first* publication can fall between the two reads: `sendall(NULL, n)` |
| `image_torn` | the published buffer is refilled while it is sent: one picture, two captures |
| `mqtt_connack` | the wait for the CONNACK does not end on a refusal or an end of file, nor when the connection breaks |
| `beacon_meaning` | with the low bytes of both readings zero, the base node stores the clap count as the temperature |
| `mqtt_keepalive` | a node in its event loop with a working network is silent until the broker gives it up |

Seen while modelling and not given a run of their own:

* `HeaderSends = {1, 2}` in `image_stream` breaks `WarmStreamInStep`
  (line 144 discards the result of the header's send); a client accepted
  before the first frame gets headers and no frames.
* A temperature without a light reading is never forwarded
  (`nRF52840_DK/src/main.c:132`; `project_description/README.md:86` says it
  "continually forwards temperature reading to PC").
* A refused Wi-Fi request is never reported (`M5_Core2/src/main.c:368` waits
  first; the message is at 461).
* A message longer than `rx_buff` leaves payload unread and the next packet
  ends `main` (lines 177-184).
* `MaySplit = TRUE` breaks `PrintedFaithfully` (line 184 terminates at the
  length asked for, not read) and `LossNoticed` (the library closes the socket
  inside the handler, and `main` polls a closed descriptor); the payload
  overwrites the topic before it is printed (line 187).
* The subscription asks for QoS 1 (line 251) and no PUBLISH is acknowledged: a
  greeting is sent again on every connection, and the session being shared, the
  ESP32 DK is sent its own greeting and prints it.
* A CONNACK lost with the network leaves `main` in its wait for ever, and a
  connection closed while the network is lost is polled for ever: neither loop
  sends anything or looks at a clock (`MqttNode.BrokerGivesUp`,
  `MqttSession.GiveUp`).
* An association lost between the give to a pended `main` and its next step is
  not seen by `wifi_connect`, which returns the request's result; `main` then waits
  for an address without one.
* A failed restart of the scan leaves the base node deaf; a scan restarted
  while the beacon is on air reports it once more.
* The packed major number is one of the base node's kinds (0, 1, 2) only when
  the low byte of the temperature is 0 and that of the light at most 2: nearly
  every beacon is ignored, a few are taken for something else.
* `connect_to_server` runs on association, before there is an address
  (`Disco_L475/src/main.c:86`), is never tried again, and its `recv` holds the
  event thread as long as the server is silent.
* `ibeacon.py` expects the keys `major` and `value`, which no printed line has.

### Bounds

* Camera: 2 buffers (the least that lets one be filled while one is in
  hand), frames and headers of 2 bytes, so that a send and a receive can be
  cut inside each; a window of 3 bytes, smaller than header plus frame, so
  that sends block and a frame spans several windows. The theorems cover
  every other size. Pictures need distinct identities only in `image_torn`;
  elsewhere one photo suffices, since no guard reads content.
* Base: minor numbers 0 (no clap) and two others, different from every major
  number.
* MQTT node: `RxLen = 4`, `HeaderLen = 2`, `Wrap = 6`; payloads of length 0, one
  that fits, one that just does not, one that wraps to 0 and one that wraps
  to 1. `MaxQueued` bounds the packets waiting in the socket. Two message
  identities tell leftovers from the message itself.
* Beacon link: 4 blocks as in the code, one loud sample per block at most, so
  that the count reaches 5 and is cut with bytes of one bit (`Byte = 2`); one
  temperature and one light level beside the zero of a failed sensor, whose
  four combinations give every kind of the base node and one that is none.
* Ultrasonic: `Wrap = 10`, larger than both timeouts with their delays and
  small enough to wrap in every phase of a round; echoes of 5 to 8 ticks, on
  both sides of `MaxRange = 7`; `Lag = 1`, for which `4 * Lag < MinEcho`.
* Sessions: one node of each kind, which is what the repository has, one
  restart, so that either can be reset before, during and after the other's
  turn and connect once more; `Patience = 1` and `MaxQueued = 1` in `mqtt_session`, where
  only that a keep-alive may run out matters, and 3 half periods, two packets and
  two restarts in `mqtt_keepalive`. The passing run has also been made with
  `Patience = 2`, with `MaxQueued = 2` and with `MaxRestarts = 2`, each alone. The theorems
  cover any number of nodes and restarts.
* `CHECK_DEADLOCK FALSE` everywhere: threads return on errors and `main`
  ends, so every one of these programs may stop.

### Fairness

* `ImageViewer.FairSpec`: weak fairness of `camera_thread` (highest of the
  two), of `network_thread` (it runs whenever `camera_thread` blocks, which
  it does for each frame), of the driver, of the reset of a dead connection,
  and of a viewer that has data to read. No fairness for the user, the
  Wi-Fi, or the error alternatives (`CamDequeueTimeout` and `NetAcceptFails` are
  outside).
  Without the viewer's fairness a connected client that never reads would
  block the server, which TCP does allow; `PhotoRefreshed` is about viewers
  that read.
* `BaseNode.FairSpec`: weak fairness of `main`. Nothing obliges anybody to
  advertise, or the scan to restart.
* `MqttNode.FairSpec`: weak fairness of `main` as one process, of
  `AddressAdded` (DHCP answers on a standing association), and of the
  arrival of the rest of a payload (TCP). The broker is not fair.
* `BeaconLink.FairSpecL`: weak fairness of the sensor node's `main` (its
  sleeps end) and of a recording driver. None for the radio, the base node or
  the failing read.
* `MqttSession.FairSpec`: weak fairness of each node's `main` while its guards
  hold, of the broker for each node it can reach, and of the arrival of what it
  sends while the node has its network (`Arrive`). None for restarts, networks,
  the broker's giving up, the PC or the passing of keep-alive periods.
* `UltrasonicNode` states no liveness: the bound on polling is an invariant,
  which is stronger.

## 4. Theorems

Assumptions are the named `ASSUME`s of the modules: sizes are positive, the
window is a natural number, headers are sent in pieces of at most their
length, `NULL` is no buffer, `0` is a minor number, payload lengths are
natural numbers with a longest one (the protocol bounds a packet) and a header
fits into the buffer; a slab has at least four
blocks; the counter is wider than either timeout and two delays; no node runs
both programs.

* `CameraNode_proofs!TypeCorrect`: `Spec => []TypeOK`. The inductive
  invariant adds `HandOK`: `camera_thread` holds a buffer while it displays,
  and none before it has dequeued one; without it `vbuf` could be queued as
  `NULL`.
* `CameraNode_proofs!WarmNeverFaults`: `Spec => []WarmStartNeverFaults`.
  The strengthening is that size and pointer are published together and
  never withdrawn, so once `frame_size > 0` was true at an accept, whatever
  is read later, in either order, is a buffer; every argument already read
  on a warm connection satisfies it too.
* `CameraNode_proofs!BuffersKept`: `Spec => []BuffersOwnedOnce`, for any
  number of buffers. The invariant follows a buffer through `incoming`,
  `active`, `done` and `vbuf`: either nothing is owned yet, or the
  concatenation has `NumBuffers` elements and is all of `Buffers`; the lemmas
  about appending to and taking from a sequence keep both facts. `StartInv`
  says the driver holds nothing before the setup queues all buffers.
* `CameraNode_proofs!OneFramePerRequest`: `Spec => PublishedOnRequest`.
  `camera_thread` blocks between its look at the signal and the publication;
  `SignalInv` says that what it saw still holds then, since only this thread
  takes the signal back.
* `ImageViewer_proofs!NodeWithin`: `SafeSpec => Spec`. The viewer is a client
  that `CameraNode` allows; it needs `HeldInv` (a receive asks for at most what
  is missing, and gets at most what is on the wire). `NodeKeeps` then has the
  theorems of the node alone for node and viewer together, and
  `ViewTypeCorrect` the viewer's types.
* `ImageViewer_proofs!StreamInStep`: for any sizes and
  windows, under the explicit hypothesis `WholeHeader` (the stack takes a
  header in one piece). Every byte has a place in the cycle of header and
  frame; the invariant (`StepInv`) is that what the viewer has received,
  followed by the bytes in flight, is a chain of consecutive places that ends
  where `sendall` continues, together with what `conn` says about
  each end. The lemmas on chains (`ChainGrows`, `ChainShrinks`, `ChainTaken`)
  are what a send and a receive do to it.
* `ImageViewer_proofs!ChannelImplemented`: `SafeSpec => ImplementsChannel`
  under the same hypothesis. `StepImplements` maps every step of node, network
  and viewer to a step of `FrameChannel` or to a stutter, from `StepInv`
  before and after it.
* `BaseNode_proofs!TypeCorrect`, `NoReadingLost`, `NoClapTwice`: the strengthening says that
  no callback runs between stop and restart (`scanning` is false there) and
  which flags are up at which statement.
* `MqttNode_proofs!BufferKept`: `Spec => []RxInBounds` for every buffer size,
  integer width and announced length; it needs that packets in the socket
  have natural lengths, through every broker action.
* `MqttNode_proofs!TokenFresh`: `WifiTokenFresh` is itself inductive: a give makes a
  token lie there only when `main` is not pended, a loss takes it away, and
  what a pended `main` was handed is not a token any more.
* `MqttNode_proofs!AnnouncesOnline`: the count of `sem_mqtt_connected` is 0
  until `main` waits for it; once 1 while waiting, the library is connected
  and nothing but `main`'s own next packet changes that.
* `MqttNode_proofs!TextFaithful`, `FittingHandled`: under the explicit hypothesis
  `WholePayloads` (payloads arrive with their header, and `RxLen <= Wrap`, which
  128 and 65536 meet). `WholeInv` says that every waiting packet is whole,
  `TextInv` that payload is left unread only after a message that did not fit;
  `ReadLengthWhole` gives the length the handler reads, `TextWhole` that behind
  a whole payload the first terminator in `rx_buff` is the handler's.
* `MqttNode_proofs!TypeCorrect`: `Spec => []TypeOK`. That the socket holds at
  most `MaxQueued + 3` packets needs `QueueInv`, what the broker may have sent
  at each stage of its end; that `rx_buff` holds only what some message or
  header put there needs `DataInv`: no byte is read beyond the longest payload.
* `MqttNode_proofs!WakeupsKept`: `Spec => []NoWakeupLost`, in every order of
  callbacks, losses of the association and `main`'s own steps; inductive, since
  a give to a pended `main` moves it out of the wait in the same step.
* `MqttNode_proofs!LossSeen`: `LossInSocket`, under `WholePayloads` and
  `CountedPayloads` (`RxLen > 1`, and no length but 0 is 0 modulo `Wrap`: of a
  payload of 65536 bytes the handler reads none, and the library takes that
  for the end of the connection).
  `LossInv`: nothing comes behind the end of a connection, so it stays in the
  socket until the library reads it and closes its own side. It speaks of ends
  that have reached the node (`broker = "closed"`), not of a connection given up
  while the association was lost.
* `ThingyNode_proofs!TypeCorrect`, `SlabSuffices`, `LagBounded`: for any slab of
  four or more blocks. `SlabInv` counts who holds what: the driver two while
  it records, `main` one while it sleeps, the queue at most one, and none when
  a sleep begins; so one is free whenever the driver asks. The last clause is
  why a block left by an earlier round does no harm.
* `BeaconLink_proofs!RoundStored`: `SpecL => StoredFromRound`, for any number of
  blocks and any width of a byte. `AirInv`: a beacon is on air only between the
  last block of a round and the pause behind it, and carries the numbers of
  that round's readings.
* `BeaconLink_proofs!LinkKeeps` carries the theorems of either node over to the
  system, by the lemmas `SensorWithin` and `BaseWithin`: each node runs there as its
  own specification says.
* `UltrasonicNode_proofs!PollingEnds` rests on `ClockInv`, which relates `age`,
  real time, to what `main` computes modulo `Wrap` at each statement;
  `DistanceAccurate` on `EchoInv`, which relates the echo's width to the two
  stamps; the lemma `Advance` (less than a turn of the counter apart,
  differences do not wrap) carries both. `TypeCorrect`, `SocketsClosed`.
* `MqttSession_proofs!TypeCorrect`, `GreetingLost`: for any set of nodes and any
  number of restarts. `BrokerInv`: one connection is open at most, whatever is
  subscribed; so when the broker takes a PUBLISH, the only connection it can go
  out on is the publisher's own (`OwnEcho`). `WireInv` keeps the kinds of packets
  that can be on the way to each node: to a subscriber, repeats but no greeting
  as it was published.
* `MqttSession_proofs!AnswerThere`: `Spec => []HolderAnswered`; `AnswerInv` says that
  nothing is on the way to a node before the broker answers it, so that the
  CONNACK is what it reads first, with the repeats behind it.

Only model-checked: liveness (`PhotoRefreshed`, `FramesKeepComing`,
`GoneClientReleased`, `Reported`, `GetsOnline`, `LossNoticed`, `RoundsRepeat`,
`GreetingReturns`, `LoserStops`, `SessionUsed`), because fairness and ENABLED are out of the
prover's reach. Every invariant, action property and refinement that a passing
run checks is also a theorem.

## 5. Not modelled

The LCD and the LVGL display (output only), pixel conversion in the viewer,
logging, the parts of the Wi-Fi status that are only printed,
`update_display` and `wifi_disconnect` (constant call, no call), the neural
network (numerical), `client.py` (hands everything to its library).
`advertise_ultrasonic` and `ip_event_handler` do nothing in the code. The
image store's three scripts have one callback each and no interleaving; their
one hazard, two files named within a second, is a consequence of one line. The
dashboard writes constants. Clocks are modelled where the program measures
time (`UltrasonicNode`, the keep-alive of `MqttSession`, the blocks of
`ThingyNode`); elsewhere a timeout may strike whenever what it waits for has
not happened. The broker sends messages of QoS 1 again on a new connection, not
within one (as MQTT 3.1.1 has it), and how many of one greeting it keeps is not
counted; sessions it forgets and messages of QoS 1 it loses are left out.

## 6. Possible extensions

1. `ImageStore`: file names with a resolution of a second, republication and
   the receiver's single file.
2. `MqttSession` implemented by `MqttNode`: the joining and the event loop of
   one node mapped to its steps.
3. Proofs: the one-node facts `LossSeen` and `WakeupsKept` carried over to each
   node of `MqttSession`, once 2 is there.
