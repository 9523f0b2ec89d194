------------------------------ MODULE CameraNode ------------------------------
(***************************************************************************)
(* The ESP32-S3-EYE firmware (Project/ESP32_EYE/src/main.c): camera_thread *)
(* cycles a small pool of video buffers through the capture driver and,    *)
(* when the polling signal tx_signal is raised, publishes the buffer it    *)
(* has just dequeued in the globals frame_copy / frame_size;               *)
(* network_thread accepts one TCP client at a time and, forever, sends     *)
(* "READY" followed by frame_size bytes of frame_copy, then raises         *)
(* tx_signal again.                                                        *)
(*                                                                         *)
(* Scheduling.  Both threads are preemptive and the firmware runs on one   *)
(* core; camera_thread (priority 1) preempts network_thread (priority 3)   *)
(* anywhere, while network_thread only runs while camera_thread blocks.    *)
(* So everything camera_thread does between two blocking calls is one      *)
(* step, and every access of network_thread to a shared global is a step   *)
(* of its own.  main has the highest priority and runs up to               *)
(* connect_to_wifi before either thread does.                              *)
(*                                                                         *)
(* The capture driver and the TCP stack are external: their actions say    *)
(* only what this code relies on.                                          *)
(***************************************************************************)
EXTENDS Integers, Sequences, FiniteSets

CONSTANTS
  NumBuffers,   \* CONFIG_VIDEO_BUFFER_POOL_NUM_MAX
  FrameLen,     \* bytes of a frame (BUFFER_SIZE)
  ReadyLen,     \* bytes of the header "READY"
  HeaderSends,  \* how many header bytes one zsock_send call may take
  Window,       \* bound: bytes in flight on the TCP connection
  Photos,       \* identities of captured pictures
  NULL          \* a null pointer

ASSUME SizesAssumption ==
  /\ NumBuffers \in Nat \ {0}
  /\ FrameLen \in Nat \ {0}
  /\ ReadyLen \in Nat \ {0}
  /\ HeaderSends \subseteq 1 .. ReadyLen
  /\ Window \in Nat
  /\ Photos # {}

Buffers == 1 .. NumBuffers

ASSUME NullAssumption == NULL \notin Buffers

VARIABLES
  main_pc,     \* "init" until main has raised tx_signal, then "done"
  wifi,        \* the station interface: "off", "requested" or "up"
  cam_pc,      \* camera_thread: "setup", "check", "dequeue", "display", "stopped"
  signaled,    \* camera_thread's local copy of the signal
  vbuf,        \* the buffer camera_thread holds, NULL when it holds none
  tx_signal,   \* the polling signal (its result is 0x01 whenever it is raised)
  frame_copy,  \* the published buffer
  frame_size,  \* the published size
  incoming,    \* driver: buffers queued to be filled, oldest first
  active,      \* driver: the buffer being filled, or NULL
  filled,      \* driver: bytes of active already written
  photo,       \* driver: the picture being written to active
  done,        \* driver: filled buffers waiting for video_dequeue
  content,     \* memory of the buffers: the picture each byte belongs to
  net_pc,      \* network_thread, see NetStates
  send_buf,    \* sendall's buf argument
  send_len,    \* sendall's len argument, counting down
  backlog,     \* the listening socket's queue: "none", "live" or "dead"
  conn,        \* the accepted client: "none", "open", "closing" or "gone"
  wire,        \* bytes the client has not received yet, oldest first
  warm_start   \* history: frame_size was set when the client was accepted

mainVars   == <<main_pc, wifi>>
camVars    == <<cam_pc, signaled, vbuf>>
frameVars  == <<frame_copy, frame_size>>
driverVars == <<incoming, active, filled, photo, done, content>>
argVars    == <<send_buf, send_len>>
linkVars   == <<backlog, conn, wire, warm_start>>
vars == <<mainVars, camVars, tx_signal, frameVars, driverVars, net_pc, argVars,
          linkVars>>

NetStates == {"setup", "accept", "args", "argSize", "argBuf", "ready", "send",
              "raise", "stopped", "nosocket", "fault"}

\* A byte on the wire: byte `at` of the header or of a frame.
Byte == [kind : {"ready", "pixel"}, at : Nat, photo : Photos \cup {NULL}]
ReadyByte(i)    == [kind |-> "ready", at |-> i, photo |-> NULL]
PixelByte(b, i) == [kind |-> "pixel", at |-> i, photo |-> content[b][i]]

Init ==
  /\ main_pc = "init" /\ wifi = "off"
  /\ cam_pc = "setup" /\ signaled = FALSE /\ vbuf = NULL
  /\ tx_signal = FALSE
  /\ frame_copy = NULL /\ frame_size = 0
  /\ incoming = <<>> /\ active = NULL /\ filled = 0 /\ done = <<>>
  /\ photo \in Photos
  /\ content = [b \in Buffers |-> [i \in 1 .. FrameLen |-> photo]]
  /\ net_pc = "setup" /\ send_buf = NULL /\ send_len = 0
  /\ backlog = "none" /\ conn = "none" /\ wire = <<>> /\ warm_start = FALSE

-------------------------------------------------------------------------------
(* main                                                                      *)

\* main: initialise the signal, raise it, and ask once for the Wi-Fi
\* connection, whose result is discarded.
Main ==
  /\ main_pc = "init"
  /\ main_pc' = "done"
  /\ tx_signal' = TRUE
  /\ wifi' \in {"off", "requested"}
  /\ UNCHANGED <<camVars, frameVars, driverVars, net_pc, argVars, linkVars>>

\* External: the association requested by main succeeds.
WifiUp ==
  /\ wifi = "requested"
  /\ wifi' = "up"
  /\ UNCHANGED <<main_pc, camVars, tx_signal, frameVars, driverVars, net_pc,
                 argVars, linkVars>>

-------------------------------------------------------------------------------
(* camera_thread                                                             *)

\* Everything before the loop: on success all buffers are queued and the
\* stream runs; every failing call returns from the thread.
CamSetup ==
  /\ main_pc = "done" /\ cam_pc = "setup"
  /\ \/ /\ cam_pc' = "check"
        /\ incoming' = [i \in Buffers |-> i]
     \/ /\ cam_pc' = "stopped"
        /\ UNCHANGED incoming
  /\ UNCHANGED <<mainVars, signaled, vbuf, tx_signal, frameVars, active, filled,
                 photo, done, content, net_pc, argVars, linkVars>>

\* A plausible bug: what was seen of the signal is kept until the next round.
CamCheckKeeps ==
  /\ cam_pc = "check"
  /\ signaled' = (signaled \/ tx_signal)
  /\ cam_pc' = "dequeue"
  /\ UNCHANGED <<mainVars, vbuf, tx_signal, frameVars, driverVars, net_pc,
                 argVars, linkVars>>

\* k_poll and k_poll_signal_check: the signal is read before the thread blocks
\* in video_dequeue.
CamCheck ==
  /\ cam_pc = "check"
  /\ signaled' = tx_signal
  /\ cam_pc' = "dequeue"
  /\ UNCHANGED <<mainVars, vbuf, tx_signal, frameVars, driverVars, net_pc,
                 argVars, linkVars>>

\* A plausible bug: the size is published, the pointer forgotten.
PublishSizeOnly(b) == frame_size' = FrameLen /\ UNCHANGED frame_copy

Publish(b) == frame_copy' = b /\ frame_size' = FrameLen

\* video_dequeue returns a frame; if the signal was seen, reset it and publish
\* the frame.
CamDequeue ==
  /\ cam_pc = "dequeue" /\ done # <<>>
  /\ vbuf' = Head(done)
  /\ done' = Tail(done)
  /\ IF signaled
     THEN /\ tx_signal' = FALSE
          /\ Publish(vbuf')
     ELSE UNCHANGED <<tx_signal, frameVars>>
  /\ cam_pc' = "display"
  /\ UNCHANGED <<mainVars, signaled, incoming, active, filled, photo, content,
                 net_pc, argVars, linkVars>>

\* video_dequeue times out after 20 s without a frame: the thread returns.
CamDequeueTimeout ==
  /\ cam_pc = "dequeue" /\ done = <<>>
  /\ cam_pc' = "stopped"
  /\ UNCHANGED <<mainVars, signaled, vbuf, tx_signal, frameVars, driverVars,
                 net_pc, argVars, linkVars>>

\* Plausible bugs: the pointer is cleared before it is used; the published
\* buffer is queued instead of the one in hand; a published buffer is kept.
GiveBackCleared         == incoming' = Append(incoming, NULL)
GiveBackPublished       == incoming' = Append(incoming, frame_copy)
GiveBackUnlessPublished == incoming' = IF signaled THEN incoming
                                                   ELSE Append(incoming, vbuf)

\* video_enqueue.
GiveBack == incoming' = Append(incoming, vbuf)

\* Show the frame and give the buffer back to the driver; if video_enqueue
\* fails the thread returns with the buffer still in hand.
CamRequeue ==
  /\ cam_pc = "display"
  /\ \/ /\ GiveBack
        /\ vbuf' = NULL
        /\ cam_pc' = "check"
     \/ /\ cam_pc' = "stopped"
        /\ UNCHANGED <<incoming, vbuf>>
  /\ UNCHANGED <<mainVars, signaled, tx_signal, frameVars, active, filled, photo,
                 done, content, net_pc, argVars, linkVars>>

-------------------------------------------------------------------------------
(* The capture driver (external): fills queued buffers in order.             *)

DriverStart ==
  /\ active = NULL /\ incoming # <<>>
  /\ active' = Head(incoming)
  /\ incoming' = Tail(incoming)
  /\ filled' = 0
  /\ photo' \in Photos
  /\ UNCHANGED <<mainVars, camVars, tx_signal, frameVars, done, content, net_pc,
                 argVars, linkVars>>

DriverFill ==
  /\ active # NULL /\ filled < FrameLen
  /\ content' = [content EXCEPT ![active][filled + 1] = photo]
  /\ filled' = filled + 1
  /\ UNCHANGED <<mainVars, camVars, tx_signal, frameVars, incoming, active,
                 photo, done, net_pc, argVars, linkVars>>

DriverDone ==
  /\ active # NULL /\ filled = FrameLen
  /\ done' = Append(done, active)
  /\ active' = NULL
  /\ filled' = 0
  /\ UNCHANGED <<mainVars, camVars, tx_signal, frameVars, incoming, photo,
                 content, net_pc, argVars, linkVars>>

-------------------------------------------------------------------------------
(* network_thread                                                            *)

\* zsock_send of the first k of the bytes offered.  While the connection is up
\* the call blocks until the window has room; once the client has closed its
\* end the bytes vanish until the reset arrives.
Transmit(bytes) ==
  /\ conn \in {"open", "closing"}
  /\ IF conn = "open"
     THEN /\ Len(wire) + Len(bytes) <= Window
          /\ wire' = wire \o bytes
     ELSE UNCHANGED wire

\* Create, bind and listen; a failure closes the socket and ends the thread.
NetSetup ==
  /\ main_pc = "done" /\ net_pc = "setup"
  /\ net_pc' \in {"accept", "nosocket"}
  /\ UNCHANGED <<mainVars, camVars, tx_signal, frameVars, driverVars, argVars,
                 linkVars>>

\* zsock_accept returns the queued client, which may already have left.
NetAccept ==
  /\ net_pc = "accept" /\ backlog # "none"
  /\ conn' = IF backlog = "live" THEN "open" ELSE "closing"
  /\ backlog' = "none"
  /\ warm_start' = (frame_size > 0)
  /\ net_pc' = "args"
  /\ UNCHANGED <<mainVars, camVars, tx_signal, frameVars, driverVars, argVars,
                 wire>>

\* zsock_accept fails: the thread ends, the socket stays open.
NetAcceptFails ==
  /\ net_pc = "accept"
  /\ net_pc' = "stopped"
  /\ UNCHANGED <<mainVars, camVars, tx_signal, frameVars, driverVars, argVars,
                 linkVars>>

\* sendall(client, frame_copy, frame_size): the two globals are read one after
\* the other, in an order the language leaves open, and camera_thread may
\* publish a frame in between.
NetReadArgs ==
  /\ \/ /\ net_pc = "args"
        /\ send_buf' = frame_copy /\ net_pc' = "argSize" /\ UNCHANGED send_len
     \/ /\ net_pc = "args"
        /\ send_len' = frame_size /\ net_pc' = "argBuf" /\ UNCHANGED send_buf
     \/ /\ net_pc = "argSize"
        /\ send_len' = frame_size /\ net_pc' = "ready" /\ UNCHANGED send_buf
     \/ /\ net_pc = "argBuf"
        /\ send_buf' = frame_copy /\ net_pc' = "ready" /\ UNCHANGED send_len
  /\ UNCHANGED <<mainVars, camVars, tx_signal, frameVars, driverVars, linkVars>>

\* sendall: send the header, discarding the result; without data to send the
\* call succeeds at once.
NetSendReady ==
  /\ net_pc = "ready"
  /\ \/ \E k \in HeaderSends : Transmit([i \in 1 .. k |-> ReadyByte(i)])
     \/ conn = "gone" /\ UNCHANGED wire
  /\ net_pc' = IF send_len = 0 THEN "raise" ELSE "send"
  /\ UNCHANGED <<mainVars, camVars, tx_signal, frameVars, driverVars, argVars,
                 backlog, conn, warm_start>>

\* A plausible bug: buf is not advanced after a short send.
UnsentFromStart(k) == [i \in 1 .. k |-> PixelByte(send_buf, i)]

\* The next k bytes at buf.
Unsent(k) == [i \in 1 .. k |-> PixelByte(send_buf, FrameLen - send_len + i)]

\* A plausible bug: sendall sends once, and takes a short send for a whole one.
NetSendOnce ==
  /\ net_pc = "send" /\ send_buf # NULL
  /\ \E k \in 1 .. send_len :
       /\ Transmit(Unsent(k))
       /\ send_len' = send_len - k
  /\ net_pc' = "raise"
  /\ UNCHANGED <<mainVars, camVars, tx_signal, frameVars, driverVars, send_buf,
                 backlog, conn, warm_start>>

\* sendall's loop: the bytes are taken from the buffer when they are sent.
NetSend ==
  /\ net_pc = "send" /\ send_buf # NULL
  /\ \E k \in 1 .. send_len :
       /\ Transmit(Unsent(k))
       /\ send_len' = send_len - k
       /\ net_pc' = IF k = send_len THEN "raise" ELSE "send"
  /\ UNCHANGED <<mainVars, camVars, tx_signal, frameVars, driverVars, send_buf,
                 backlog, conn, warm_start>>

\* Sending from a null pointer is a fatal error of the whole node.
NetFault ==
  /\ net_pc = "send" /\ send_buf = NULL /\ conn # "gone"
  /\ net_pc' = "fault"
  /\ UNCHANGED <<mainVars, camVars, tx_signal, frameVars, driverVars, argVars,
                 linkVars>>

\* A plausible bug: the error is taken for -EAGAIN and the client kept.
KeepClient == net_pc' = "raise" /\ UNCHANGED conn

CloseClient == conn' = "none" /\ net_pc' = "accept"

\* A failing send makes sendall return it: close the client, accept again.
NetSendFails ==
  /\ net_pc = "send" /\ conn = "gone"
  /\ CloseClient
  /\ send_buf' = NULL /\ send_len' = 0
  /\ UNCHANGED <<mainVars, camVars, tx_signal, frameVars, driverVars, backlog,
                 wire, warm_start>>

\* A plausible bug: the signal is raised by main only.
AskForNothing == UNCHANGED tx_signal

\* k_poll_signal_raise.
AskForFrame == tx_signal' = TRUE

\* sendall returned 0: ask camera_thread for the next frame and send again.
NetRaise ==
  /\ net_pc = "raise"
  /\ AskForFrame
  /\ net_pc' = "args"
  /\ send_buf' = NULL /\ send_len' = 0
  /\ UNCHANGED <<mainVars, camVars, frameVars, driverVars, linkVars>>

-------------------------------------------------------------------------------
(* The TCP peer (external).                                                  *)

nodeVars == <<mainVars, camVars, tx_signal, frameVars, driverVars, net_pc, argVars>>

Listening == net_pc \notin {"setup", "nosocket", "fault"}

\* One connection may wait in the queue (MAX_CLIENT_QUEUE).
PeerConnects ==
  /\ Listening /\ wifi = "up" /\ backlog = "none"
  /\ backlog' = "live"
  /\ UNCHANGED <<nodeVars, conn, wire, warm_start>>

PeerReceives(k) ==
  /\ conn = "open" /\ k <= Len(wire)
  /\ wire' = SubSeq(wire, k + 1, Len(wire))
  /\ UNCHANGED <<nodeVars, backlog, conn, warm_start>>

PeerAborts ==
  /\ backlog = "live"
  /\ backlog' = "dead"
  /\ UNCHANGED <<nodeVars, conn, wire, warm_start>>

\* The client closes its end, or the network path to it is lost.
PeerCloses ==
  /\ conn = "open"
  /\ conn' = "closing" /\ wire' = <<>>
  /\ UNCHANGED <<nodeVars, backlog, warm_start>>

\* The reset, or the retransmission timeout, that makes sends fail.
ResetArrives ==
  /\ conn = "closing"
  /\ conn' = "gone"
  /\ UNCHANGED <<nodeVars, backlog, wire, warm_start>>

-------------------------------------------------------------------------------
Camera  == CamSetup \/ CamCheck \/ CamDequeue \/ CamDequeueTimeout \/ CamRequeue
Driver  == DriverStart \/ DriverFill \/ DriverDone
Serving == \/ NetSetup \/ NetAccept \/ NetReadArgs
           \/ NetSendReady \/ NetSend \/ NetFault \/ NetSendFails \/ NetRaise
Network == Serving \/ NetAcceptFails
Peer    == \/ PeerConnects \/ PeerAborts \/ PeerCloses
           \/ \E k \in 1 .. Window : PeerReceives(k)

\* After the fatal error nothing on the node runs any more.
Node == net_pc # "fault" /\ (Main \/ WifiUp \/ Camera \/ Driver \/ Network)

Next == Node \/ ResetArrives \/ Peer

Spec == Init /\ [][Next]_vars
-------------------------------------------------------------------------------
(* Properties                                                                *)

CamType ==
  /\ main_pc \in {"init", "done"} /\ wifi \in {"off", "requested", "up"}
  /\ cam_pc \in {"setup", "check", "dequeue", "display", "stopped"}
  /\ signaled \in BOOLEAN /\ tx_signal \in BOOLEAN
  /\ vbuf \in Buffers \cup {NULL} /\ frame_copy \in Buffers \cup {NULL}
  /\ frame_size \in {0, FrameLen}

DriverType ==
  /\ incoming \in Seq(Buffers) /\ done \in Seq(Buffers)
  /\ active \in Buffers \cup {NULL} /\ filled \in 0 .. FrameLen
  /\ photo \in Photos
  /\ content \in [Buffers -> [1 .. FrameLen -> Photos]]

NetType ==
  /\ net_pc \in NetStates
  /\ send_buf \in Buffers \cup {NULL} /\ send_len \in 0 .. FrameLen
  /\ backlog \in {"none", "live", "dead"}
  /\ conn \in {"none", "open", "closing", "gone"}
  /\ wire \in Seq(Byte) /\ Len(wire) <= Window
  /\ warm_start \in BOOLEAN

TypeOK == CamType /\ DriverType /\ NetType

\* The buffers queued in the driver, being filled, waiting or in hand.
Pointer(p) == IF p = NULL THEN <<>> ELSE <<p>>
Owned == incoming \o Pointer(active) \o done \o Pointer(vbuf)

\* Once the stream has started every video buffer has exactly one owner: none is
\* lost to the cycle and none is handed to the driver twice, although the
\* published pointer aliases one of them all along (camera_thread's loop).
BuffersOwnedOnce ==
  Owned # <<>> =>
    /\ Len(Owned) = NumBuffers
    /\ Buffers = {Owned[i] : i \in DOMAIN Owned}

\* The published frame is replaced only on a request that still stands, and that uses
\* the request up, although camera_thread looks at the signal before it blocks for a
\* frame and acts on it afterwards, with network_thread raising it again in between
\* (camera_thread's loop, network_thread).
PublishedOnRequest == [][frame_copy' # frame_copy => tx_signal /\ ~tx_signal']_vars

\* A client accepted after the first frame was published never brings the node
\* down: whatever camera_thread publishes between network_thread's two reads,
\* sendall gets a usable pair (network_thread, sendall).
WarmStartNeverFaults == warm_start => net_pc # "fault"

\* No client does: sendall is never given a size without a buffer.
NeverFaults == net_pc # "fault"
===============================================================================
