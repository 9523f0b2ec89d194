------------------------------ MODULE ImageViewer ------------------------------
(***************************************************************************)
(* The camera node together with its PC client, Project/PC/imagesocket.py: *)
(* the script connects, then repeats: receive exactly READY_SIZE bytes,    *)
(* give up unless they are b'READY', receive exactly FRAME_SIZE bytes,     *)
(* show them as a picture.  Any failure ends the process, which closes its *)
(* socket; the user may start the script again.                            *)
(***************************************************************************)
EXTENDS CameraNode

VARIABLES
  view,  \* "off", "ready" (receiving the header) or "frame" (receiving pixels)
  got    \* data: the bytes received so far by the current recv_exact

viewVars == <<view, got>>
allVars  == <<vars, viewVars>>

Header == [i \in 1 .. ReadyLen |-> ReadyByte(i)]

\* The length the current recv_exact is waiting for.
Size == IF view = "ready" THEN ReadyLen ELSE FrameLen

InitV == Init /\ view = "off" /\ got = <<>>

\* The process ends and the operating system closes its socket, wherever the
\* server has got with it.
Leave ==
  /\ view' = "off" /\ got' = <<>>
  /\ \/ PeerCloses
     \/ PeerAborts
     \/ conn # "open" /\ backlog # "live" /\ UNCHANGED vars

ViewerConnect ==
  /\ view = "off"
  /\ PeerConnects
  /\ view' = "ready" /\ got' = <<>>

\* A plausible bug: recv is asked for the whole size again after a short read.
ViewerReceiveTooMuch ==
  /\ view # "off" /\ Len(got) < Size
  /\ \E k \in 1 .. Size :
       /\ PeerReceives(k)
       /\ got' = got \o SubSeq(wire, 1, k)
  /\ UNCHANGED view

\* recv_exact: one recv call returns at least one and at most the remaining
\* bytes.
ViewerReceive ==
  /\ view # "off" /\ Len(got) < Size
  /\ \E k \in 1 .. Size - Len(got) :
       /\ PeerReceives(k)
       /\ got' = got \o SubSeq(wire, 1, k)
  /\ UNCHANGED view

\* recv_exact gives up after 5 s without data, or on a closed socket; either
\* way the script ends.
ViewerTimeout ==
  /\ view # "off" /\ Len(got) < Size /\ wire = <<>>
  /\ Leave

\* ready != b'READY' ends the script.
ViewerCheckHeader ==
  /\ view = "ready" /\ Len(got) = ReadyLen
  /\ \/ /\ got = Header
        /\ view' = "frame" /\ got' = <<>>
        /\ UNCHANGED vars
     \/ got # Header /\ Leave

\* Show the picture and go on, or quit when the user presses q.
ViewerShow ==
  /\ view = "frame" /\ Len(got) = FrameLen
  /\ \/ /\ view' = "ready" /\ got' = <<>>
        /\ UNCHANGED vars
     \/ Leave

\* External: the network path breaks under an accepted connection.
PathLost == PeerCloses /\ UNCHANGED viewVars

Viewer == ViewerConnect \/ ViewerReceive \/ ViewerTimeout \/ ViewerCheckHeader
          \/ ViewerShow

NextV ==
  \/ Node /\ UNCHANGED viewVars
  \/ ResetArrives /\ UNCHANGED viewVars
  \/ PathLost
  \/ Viewer

SafeSpec == InitV /\ [][NextV]_allVars

\* Each thread is scheduled whenever it can run: camera_thread has the highest
\* priority of the two and blocks for every frame, and that is when
\* network_thread runs.  The driver fills the buffers it is given, and a lost
\* connection is eventually reported.  Nothing obliges the PC user or the Wi-Fi, and
\* an accept that waits need not fail.
Fairness ==
  /\ WF_allVars((Main \/ CamSetup \/ CamCheck \/ CamDequeue \/ CamRequeue)
                  /\ net_pc # "fault" /\ UNCHANGED viewVars)
  /\ WF_allVars(Driver /\ net_pc # "fault" /\ UNCHANGED viewVars)
  /\ WF_allVars(Serving /\ net_pc # "fault" /\ UNCHANGED viewVars)
  /\ WF_allVars(ResetArrives /\ UNCHANGED viewVars)
  /\ WF_allVars(ViewerReceive \/ ViewerCheckHeader \/ ViewerShow)

FairSpec == SafeSpec /\ Fairness
-------------------------------------------------------------------------------
(* Properties                                                                *)

ViewTypeOK ==
  /\ TypeOK
  /\ view \in {"off", "ready", "frame"}
  /\ Len(got) <= Size
  /\ \A i \in DOMAIN got : got[i] \in Byte

\* What a completed recv_exact holds is what the script takes it for: the bytes
\* of the header, or the pixels of a frame each at its place.
InStep ==
  Len(got) = Size =>
    \A i \in DOMAIN got :
      got[i].at = i /\ got[i].kind = IF view = "ready" THEN "ready" ELSE "pixel"

\* sendall and recv_exact never lose step on a client that was accepted after
\* the first frame had been published, however sends and receives are split,
\* and across disconnections and new clients (main.c sendall, imagesocket.py
\* main).  It needs the header to be taken by the stack in one piece.
WarmStreamInStep == view # "off" /\ warm_start => InStep

\* What the viewer of a warm connection is receiving, seen as the abstract channel.
Place(b)     == <<IF b.kind = "ready" THEN "ready" ELSE "frame", b.at>>
Part         == IF warm_start /\ view # "off" THEN view ELSE "none"
PlacesOfPart == IF Part = "none" THEN <<>>
                                 ELSE [i \in DOMAIN got |-> Place(got[i])]
Channel == INSTANCE FrameChannel WITH part <- Part, data <- PlacesOfPart

\* Camera node, TCP and viewer implement the abstract channel: every receive
\* continues the current header or frame at the right place, the script goes from
\* one to the other only when it is complete, and a new connection starts with a
\* header, whatever the previous one was left in (main.c sendall and
\* network_thread, imagesocket.py recv_exact and main).
ImplementsChannel == Channel!Spec

\* A picture shown by the PC is one photo, the pixels of a single capture.
WholePhoto ==
  warm_start /\ view = "frame" /\ Len(got) = FrameLen =>
    \A i, j \in DOMAIN got : got[i].photo = got[j].photo

\* camera_thread has just published a frame.
JustPublished == cam_pc = "display" /\ signaled

\* The handshake over tx_signal does not stall: while a client stays connected
\* and neither thread has died, new frames are published again and again, even
\* though a raise that falls between camera_thread's check and its reset is
\* wiped out.
PhotoRefreshed ==
  <>[](conn = "open" /\ cam_pc # "stopped" /\ net_pc # "fault")
    => []<>JustPublished

\* The cycle of buffers through driver and camera_thread never runs dry: frames
\* keep coming until camera_thread returns (or the node is dead).
FramesKeepComing ==
  []<>(cam_pc \in {"display", "stopped"} \/ net_pc = "fault")

\* A dead client is noticed and the server accepts the next one, once a frame
\* has been published.
GoneClientReleased ==
  (conn = "gone" /\ frame_size > 0) ~> (net_pc \in {"accept", "fault"})
===============================================================================
