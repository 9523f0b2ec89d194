--------------------------- MODULE CameraNode_proofs ---------------------------
(***************************************************************************)
(* Safety of the camera node for any number and size of buffers, any TCP   *)
(* window and any splitting of the header.                                 *)
(***************************************************************************)
EXTENDS CameraNode, SequenceTheorems, TLAPS

-------------------------------------------------------------------------------
(* Types.  camera_thread holds a buffer exactly between its two driver calls *)
(* (or when the second one failed); without that, a null pointer could enter *)
(* the driver's queue.                                                       *)

HandOK ==
  /\ cam_pc = "display" => vbuf # NULL
  /\ cam_pc \in {"setup", "check", "dequeue"} => vbuf = NULL

TypeInv == TypeOK /\ HandOK

LEMMA InitType == Init => TypeInv
<1> SUFFICES ASSUME Init PROVE TypeInv
  OBVIOUS
<1>1. CamType /\ HandOK
  BY DEF Init, CamType, HandOK
<1>2. DriverType
  <2>1. content \in [Buffers -> [1 .. FrameLen -> Photos]]
    BY DEF Init
  <2>2. incoming \in Seq(Buffers) /\ done \in Seq(Buffers)
    BY DEF Init
  <2> QED
    BY <2>1, <2>2, SizesAssumption DEF Init, DriverType
<1>3. NetType
  <2>1. wire \in Seq(Byte) /\ Len(wire) <= Window
    BY SizesAssumption DEF Init
  <2>2. send_len \in 0 .. FrameLen
    BY SizesAssumption DEF Init
  <2> QED
    BY <2>1, <2>2 DEF Init, NetType, NetStates
<1> QED
  BY <1>1, <1>2, <1>3 DEF TypeInv, TypeOK

\* A transmission leaves bytes on the wire, no more than the window holds.
LEMMA TransmitType ==
  ASSUME NetType, NEW bytes \in Seq(Byte), Transmit(bytes)
  PROVE  wire' \in Seq(Byte) /\ Len(wire') <= Window
<1>1. wire \in Seq(Byte) /\ Len(wire) <= Window
  BY DEF NetType
<1>2. wire \o bytes \in Seq(Byte) /\ Len(wire \o bytes) = Len(wire) + Len(bytes)
  BY <1>1
<1> QED
  BY <1>1, <1>2 DEF Transmit

LEMMA HeaderType ==
  ASSUME NEW k \in HeaderSends
  PROVE  [i \in 1 .. k |-> ReadyByte(i)] \in Seq(Byte)
<1>1. k \in Nat
  BY SizesAssumption
<1>2. \A i \in 1 .. k : ReadyByte(i) \in Byte
  BY <1>1 DEF ReadyByte, Byte
<1> QED
  BY <1>1, <1>2

LEMMA PixelsType ==
  ASSUME DriverType, NetType, send_buf # NULL, NEW k \in 1 .. send_len
  PROVE  Unsent(k) \in Seq(Byte)
<1>1. k \in Nat /\ send_buf \in Buffers /\ send_len \in 0 .. FrameLen
  BY DEF NetType
<1>2. \A i \in 1 .. k : /\ FrameLen - send_len + i \in 1 .. FrameLen
                        /\ FrameLen - send_len + i \in Nat
  BY <1>1, SizesAssumption
<1>3. \A i \in 1 .. k : content[send_buf][FrameLen - send_len + i] \in Photos
  BY <1>1, <1>2 DEF DriverType
<1>4. \A i \in 1 .. k : PixelByte(send_buf, FrameLen - send_len + i) \in Byte
  BY <1>2, <1>3 DEF PixelByte, Byte
<1> QED
  BY <1>1, <1>4 DEF Unsent

LEMMA CameraType == TypeInv /\ (Main \/ WifiUp \/ Camera) => TypeInv'
<1> SUFFICES ASSUME TypeOK, HandOK, Main \/ WifiUp \/ Camera
             PROVE  TypeOK' /\ HandOK'
  BY DEF TypeInv
<1> USE DEF TypeOK, mainVars, camVars, frameVars, driverVars, argVars, linkVars
<1>1. NetType'
  BY DEF Main, WifiUp, Camera, CamSetup, CamCheck, CamDequeue, CamDequeueTimeout,
     CamRequeue, NetType
<1>2. CASE Main \/ WifiUp
  <2>1. UNCHANGED driverVars
    BY <1>2 DEF Main, WifiUp
  <2>2. DriverType'
    BY <2>1 DEF DriverType
  <2>3. UNCHANGED <<camVars, frameVars>>
    BY <1>2 DEF Main, WifiUp
  <2>4. /\ main_pc' \in {"init", "done"} /\ tx_signal' \in BOOLEAN
        /\ wifi' \in {"off", "requested", "up"}
    BY <1>2 DEF Main, WifiUp, CamType
  <2>5. CamType' /\ HandOK'
    BY <2>3, <2>4 DEF CamType, HandOK
  <2> QED
    BY <1>1, <2>2, <2>5
<1>3. CASE CamSetup
  <2>1. [i \in Buffers |-> i] \in Seq(Buffers)
    BY SizesAssumption DEF Buffers
  <2>2. DriverType'
    BY <1>3, <2>1 DEF CamSetup, DriverType
  <2> QED
    BY <1>1, <1>3, <2>2 DEF CamSetup, CamType, HandOK
<1>4. CASE CamCheck
  BY <1>1, <1>4 DEF CamCheck, CamType, DriverType, HandOK
<1>5. CASE CamDequeue
  <2>1. Head(done) \in Buffers /\ Tail(done) \in Seq(Buffers)
    BY <1>5 DEF CamDequeue, DriverType
  <2>2. CamType' /\ HandOK'
    BY <1>5, <2>1, NullAssumption DEF CamDequeue, Publish, CamType, HandOK
  <2>3. DriverType'
    BY <1>5, <2>1 DEF CamDequeue, DriverType
  <2> QED
    BY <1>1, <2>2, <2>3
<1>6. CASE CamDequeueTimeout
  BY <1>1, <1>6 DEF CamDequeueTimeout, CamType, DriverType, HandOK
<1>7. CASE CamRequeue
  <2>1. Append(incoming, vbuf) \in Seq(Buffers)
    BY <1>7 DEF CamRequeue, CamType, DriverType, HandOK
  <2>2. DriverType'
    BY <1>7, <2>1 DEF CamRequeue, GiveBack, DriverType
  <2> QED
    BY <1>1, <1>7, <2>2 DEF CamRequeue, CamType, HandOK
<1> QED
  BY <1>2, <1>3, <1>4, <1>5, <1>6, <1>7 DEF Camera

LEMMA DriverStepType == TypeInv /\ Driver => TypeInv'
<1> SUFFICES ASSUME TypeOK, HandOK, Driver
             PROVE  TypeOK' /\ HandOK'
  BY DEF TypeInv
<1> USE DEF TypeOK, mainVars, camVars, frameVars, driverVars, argVars, linkVars
<1>1. CamType' /\ NetType' /\ HandOK'
  BY DEF Driver, DriverStart, DriverFill, DriverDone, CamType, NetType, HandOK
<1>2. CASE DriverStart
  <2>1. Head(incoming) \in Buffers /\ Tail(incoming) \in Seq(Buffers)
    BY <1>2 DEF DriverStart, DriverType
  <2> QED
    BY <1>1, <1>2, <2>1, SizesAssumption DEF DriverStart, DriverType
<1>3. CASE DriverFill
  <2>1. active \in Buffers /\ filled + 1 \in 1 .. FrameLen
    BY <1>3, SizesAssumption DEF DriverFill, DriverType
  <2>2. content' \in [Buffers -> [1 .. FrameLen -> Photos]]
    BY <1>3, <2>1 DEF DriverFill, DriverType
  <2> QED
    BY <1>1, <1>3, <2>1, <2>2, SizesAssumption DEF DriverFill, DriverType
<1>4. CASE DriverDone
  <2>1. Append(done, active) \in Seq(Buffers)
    BY <1>4 DEF DriverDone, DriverType
  <2> QED
    BY <1>1, <1>4, <2>1, SizesAssumption DEF DriverDone, DriverType
<1> QED
  BY <1>2, <1>3, <1>4 DEF Driver

LEMMA NetworkType == TypeInv /\ Network => TypeInv'
<1> SUFFICES ASSUME TypeOK, HandOK, Network
             PROVE  TypeOK' /\ HandOK'
  BY DEF TypeInv
<1> USE DEF TypeOK, mainVars, camVars, frameVars, driverVars, argVars, linkVars
<1>1. DriverType'
  <2>1. UNCHANGED driverVars
    BY DEF Network, Serving, NetSetup, NetAccept, NetAcceptFails, NetReadArgs, NetSendReady,
       NetSend, NetFault, NetSendFails, NetRaise
  <2> QED
    BY <2>1 DEF DriverType
<1>2. CamType' /\ HandOK'
  <2>1. UNCHANGED <<mainVars, camVars, frameVars>>
    BY DEF Network, Serving, NetSetup, NetAccept, NetAcceptFails, NetReadArgs, NetSendReady,
       NetSend, NetFault, NetSendFails, NetRaise
  <2>2. tx_signal' \in BOOLEAN
    BY DEF Network, Serving, NetSetup, NetAccept, NetAcceptFails, NetReadArgs, NetSendReady,
       NetSend, NetFault, NetSendFails, NetRaise, AskForFrame, CamType
  <2> QED
    BY <2>1, <2>2 DEF CamType, HandOK
<1>3. CASE NetSetup \/ NetFault \/ NetAcceptFails
  BY <1>1, <1>2, <1>3 DEF NetSetup, NetFault, NetAcceptFails, NetType, NetStates
<1>4. CASE NetAccept
  <2>1. /\ backlog' \in {"none", "live", "dead"}
        /\ conn' \in {"none", "open", "closing", "gone"}
    BY <1>4 DEF NetAccept, NetType
  <2>2. warm_start' \in BOOLEAN
    <3>1. warm_start' = (frame_size > 0)
      BY <1>4, Zenon DEF NetAccept
    <3>2. frame_size \in Int
      BY SizesAssumption DEF CamType
    <3> QED
      BY <3>1, <3>2, SMT
  <2>3. net_pc' \in NetStates
    BY <1>4 DEF NetAccept, NetStates
  <2>4. UNCHANGED <<send_buf, send_len, wire>>
    BY <1>4 DEF NetAccept
  <2> QED
    BY <1>1, <1>2, <2>1, <2>2, <2>3, <2>4 DEF NetType
<1>5. CASE NetReadArgs
  <2>1. frame_copy \in Buffers \cup {NULL} /\ frame_size \in 0 .. FrameLen
    BY SizesAssumption DEF CamType
  <2> QED
    BY <1>1, <1>2, <1>5, <2>1 DEF NetReadArgs, NetType, NetStates
<1>6. CASE NetSendReady
  <2>1. wire' \in Seq(Byte) /\ Len(wire') <= Window
    BY <1>6, HeaderType, TransmitType DEF NetSendReady, NetType
  <2> QED
    BY <1>1, <1>2, <1>6, <2>1 DEF NetSendReady, NetType, NetStates
<1>7. CASE NetSend
  <2>1. PICK k \in 1 .. send_len :
              /\ Transmit(Unsent(k))
              /\ send_len' = send_len - k
              /\ net_pc' = IF k = send_len THEN "raise" ELSE "send"
    BY <1>7 DEF NetSend
  <2>2. Unsent(k) \in Seq(Byte)
    BY <1>7, PixelsType DEF NetSend
  <2>3. wire' \in Seq(Byte) /\ Len(wire') <= Window
    BY <2>1, <2>2, TransmitType
  <2>4. send_len' \in 0 .. FrameLen
    BY <2>1, SizesAssumption DEF NetType
  <2> QED
    BY <1>1, <1>2, <1>7, <2>1, <2>3, <2>4 DEF NetSend, NetType, NetStates
<1>8. CASE NetSendFails \/ NetRaise
  <2>1. send_len' \in 0 .. FrameLen
    BY <1>8, SizesAssumption DEF NetSendFails, NetRaise
  <2> QED
    BY <1>1, <1>2, <1>8, <2>1
       DEF NetSendFails, NetRaise, CloseClient, NetType, NetStates
<1> QED
  BY <1>3, <1>4, <1>5, <1>6, <1>7, <1>8 DEF Network, Serving

LEMMA PeerType == TypeInv /\ (Peer \/ ResetArrives) => TypeInv'
<1> SUFFICES ASSUME TypeOK, HandOK, Peer \/ ResetArrives
             PROVE  TypeOK' /\ HandOK'
  BY DEF TypeInv
<1> USE DEF TypeOK, nodeVars, mainVars, camVars, frameVars, driverVars, argVars,
        linkVars
<1>1. DriverType'
  BY DEF Peer, PeerConnects, PeerReceives, PeerAborts, PeerCloses, ResetArrives,
     DriverType
<1>2. CamType' /\ HandOK'
  BY DEF Peer, PeerConnects, PeerReceives, PeerAborts, PeerCloses, ResetArrives,
     CamType, HandOK
<1>3. CASE PeerConnects \/ PeerAborts \/ ResetArrives
  BY <1>1, <1>2, <1>3 DEF PeerConnects, PeerAborts, ResetArrives, NetType
<1>4. CASE PeerCloses
  <2>1. wire' \in Seq(Byte) /\ Len(wire') <= Window
    BY <1>4, SizesAssumption DEF PeerCloses
  <2> QED
    BY <1>1, <1>2, <1>4, <2>1 DEF PeerCloses, NetType
<1>5. CASE \E k \in 1 .. Window : PeerReceives(k)
  <2>1. PICK k \in 1 .. Window : PeerReceives(k)
    BY <1>5
  <2>2. wire \in Seq(Byte) /\ k \in 1 .. Len(wire) /\ Len(wire) <= Window
    BY <2>1, SizesAssumption DEF PeerReceives, NetType
  <2>3. \A i \in k + 1 .. Len(wire) : wire[i] \in Byte
    BY <2>2
  <2>4. k + 1 \in Int /\ Len(wire) \in Int
    BY <2>2
  <2>5. /\ SubSeq(wire, k + 1, Len(wire)) \in Seq(Byte)
        /\ Len(SubSeq(wire, k + 1, Len(wire)))
             = IF k + 1 <= Len(wire) THEN Len(wire) - (k + 1) + 1 ELSE 0
    BY <2>3, <2>4, SubSeqProperties
  <2>6. Len(SubSeq(wire, k + 1, Len(wire))) <= Window
    BY <2>2, <2>5, SizesAssumption
  <2> QED
    BY <1>1, <1>2, <2>1, <2>5, <2>6 DEF PeerReceives, NetType
<1> QED
  BY <1>3, <1>4, <1>5 DEF Peer

LEMMA StutterType == TypeInv /\ UNCHANGED vars => TypeInv'
  BY DEF TypeInv, TypeOK, HandOK, CamType, DriverType, NetType, vars, mainVars,
     camVars, frameVars, driverVars, argVars, linkVars

\* The pointers and lengths stay in range, whatever is published, captured, sent
\* and reset in between: no null pointer enters the driver's queue and sendall
\* never counts below zero.
THEOREM TypeCorrect == Spec => []TypeOK
<1>1. TypeInv /\ [Next]_vars => TypeInv'
  BY CameraType, DriverStepType, NetworkType, PeerType, StutterType
     DEF Next, Node
<1>2. TypeInv => TypeOK
  BY DEF TypeInv
<1> QED
  BY InitType, <1>1, <1>2, PTL DEF Spec

-------------------------------------------------------------------------------
(* A client accepted after the first frame never brings the node down.       *)

\* The pointer is published with the size, and neither is ever withdrawn; what
\* network_thread has read of the pair is usable from then on.
WarmInv ==
  /\ frame_size # 0 => frame_copy # NULL
  /\ warm_start => frame_copy # NULL
  /\ warm_start /\ net_pc \in {"argSize", "ready", "send"} => send_buf # NULL
  /\ net_pc = "fault" => ~warm_start

LEMMA CameraWarm ==
  TypeInv /\ WarmInv /\ (Main \/ WifiUp \/ Camera \/ Driver) => WarmInv'
<1> SUFFICES ASSUME TypeInv, WarmInv, Main \/ WifiUp \/ Camera \/ Driver
             PROVE  WarmInv'
  OBVIOUS
<1>1. UNCHANGED <<net_pc, send_buf, warm_start>>
  BY DEF Main, WifiUp, Camera, CamSetup, CamCheck, CamDequeue, CamDequeueTimeout,
     CamRequeue, Driver, DriverStart, DriverFill, DriverDone, argVars, linkVars
<1>2. UNCHANGED <<frame_copy, frame_size>> \/ frame_copy' \in Buffers
  <2>1. CASE CamDequeue
    <3>1. Head(done) \in Buffers
      BY <2>1 DEF CamDequeue, TypeInv, TypeOK, DriverType
    <3> QED
      BY <2>1, <3>1 DEF CamDequeue, Publish, frameVars
  <2>2. CASE ~CamDequeue
    BY <2>2 DEF Main, WifiUp, Camera, CamSetup, CamCheck, CamDequeueTimeout,
       CamRequeue, Driver, DriverStart, DriverFill, DriverDone, frameVars
  <2> QED
    BY <2>1, <2>2
<1> QED
  BY <1>1, <1>2, NullAssumption DEF WarmInv

LEMMA NetworkWarm == TypeInv /\ WarmInv /\ Network => WarmInv'
<1> SUFFICES ASSUME TypeInv, WarmInv, Network
             PROVE  WarmInv'
  OBVIOUS
<1> USE DEF frameVars, linkVars, argVars
<1>1. UNCHANGED <<frame_copy, frame_size>>
  BY DEF Network, Serving, NetSetup, NetAccept, NetAcceptFails, NetReadArgs, NetSendReady,
     NetSend, NetFault, NetSendFails, NetRaise
<1>2. CASE NetAccept
  <2>1. warm_start' = (frame_size > 0) /\ net_pc' = "args"
    BY <1>2, Zenon DEF NetAccept
  <2>2. frame_size \in Int
    BY SizesAssumption DEF TypeInv, TypeOK, CamType
  <2>3. frame_size # 0 => frame_copy # NULL
    BY DEF WarmInv
  <2> QED
    <3>1. warm_start' => frame_size > 0
      BY <2>1, Zenon
    <3>2. frame_size > 0 => frame_size # 0
      BY <2>2
    <3> QED
      BY <1>1, <2>1, <2>3, <3>1, <3>2 DEF WarmInv
<1>3. CASE ~NetAccept
  <2>1. UNCHANGED warm_start
    BY <1>3 DEF Network, Serving, NetSetup, NetAcceptFails, NetReadArgs, NetSendReady,
       NetSend, NetFault, NetSendFails, NetRaise
  <2>2. CASE NetReadArgs
    BY <1>1, <2>1, <2>2 DEF NetReadArgs, WarmInv
  <2>3. CASE NetSendReady \/ NetSend
    <3>1. /\ net_pc \in {"ready", "send"} /\ net_pc' \in {"raise", "send"}
          /\ UNCHANGED send_buf
      BY <2>3 DEF NetSendReady, NetSend
    <3> QED
      BY <1>1, <2>1, <3>1 DEF WarmInv
  <2>4. CASE NetFault
    BY <1>1, <2>1, <2>4 DEF NetFault, WarmInv
  <2>5. CASE NetSetup \/ NetAcceptFails \/ NetSendFails \/ NetRaise
    <3>1. net_pc' \in {"accept", "nosocket", "stopped", "args"}
      BY <2>5 DEF NetSetup, NetAcceptFails, NetSendFails, CloseClient, NetRaise
    <3> QED
      BY <1>1, <2>1, <3>1 DEF WarmInv
  <2> QED
    BY <1>3, <2>2, <2>3, <2>4, <2>5 DEF Network, Serving
<1> QED
  BY <1>2, <1>3

LEMMA OtherWarm ==
  WarmInv /\ (Peer \/ ResetArrives \/ UNCHANGED vars) => WarmInv'
<1> SUFFICES ASSUME WarmInv, Peer \/ ResetArrives \/ UNCHANGED vars
             PROVE  WarmInv'
  OBVIOUS
<1>1. UNCHANGED <<frame_copy, frame_size, net_pc, send_buf, warm_start>>
  BY DEF Peer, PeerConnects, PeerReceives, PeerAborts, PeerCloses, ResetArrives,
     vars, nodeVars, frameVars, argVars, linkVars
<1> QED
  BY <1>1 DEF WarmInv

\* Once a frame has been published no client can bring the node down, however
\* camera_thread's publications fall between network_thread's two reads and the
\* sends of sendall.
THEOREM WarmNeverFaults == Spec => []WarmStartNeverFaults
<1>1. Init => TypeInv /\ WarmInv
  BY InitType DEF Init, WarmInv
<1>2. TypeInv /\ WarmInv /\ [Next]_vars => TypeInv' /\ WarmInv'
  BY CameraType, DriverStepType, NetworkType, PeerType, StutterType,
     CameraWarm, NetworkWarm, OtherWarm DEF Next, Node
<1>3. WarmInv => WarmStartNeverFaults
  BY DEF WarmInv, WarmStartNeverFaults
<1> QED
  BY <1>1, <1>2, <1>3, PTL DEF Spec

-------------------------------------------------------------------------------
(* Every buffer keeps exactly one owner.                                     *)

Elems(s) == {s[i] : i \in DOMAIN s}

LEMMA ElemsConcat ==
  ASSUME NEW S, NEW s \in Seq(S), NEW t \in Seq(S)
  PROVE  Elems(s \o t) = Elems(s) \cup Elems(t)
<1>1. \A i \in DOMAIN s : i \in DOMAIN (s \o t) /\ (s \o t)[i] = s[i]
  OBVIOUS
<1>2. \A i \in DOMAIN t : /\ i + Len(s) \in DOMAIN (s \o t)
                          /\ (s \o t)[i + Len(s)] = t[i]
  OBVIOUS
<1>3. \A i \in DOMAIN (s \o t) :
        \/ i \in DOMAIN s /\ (s \o t)[i] = s[i]
        \/ i - Len(s) \in DOMAIN t /\ (s \o t)[i] = t[i - Len(s)]
  OBVIOUS
<1>4. Elems(s \o t) \subseteq Elems(s) \cup Elems(t)
  BY <1>3 DEF Elems
<1>5. Elems(s) \subseteq Elems(s \o t)
  BY <1>1 DEF Elems
<1>6. Elems(t) \subseteq Elems(s \o t)
  BY <1>2 DEF Elems
<1> QED
  BY <1>4, <1>5, <1>6

LEMMA ElemsAppend ==
  ASSUME NEW S, NEW s \in Seq(S), NEW e \in S
  PROVE  Elems(Append(s, e)) = Elems(s) \cup {e}
<1>1. \A i \in DOMAIN s : i \in DOMAIN Append(s, e) /\ Append(s, e)[i] = s[i]
  OBVIOUS
<1>2. Len(s) + 1 \in DOMAIN Append(s, e) /\ Append(s, e)[Len(s) + 1] = e
  OBVIOUS
<1>3. \A i \in DOMAIN Append(s, e) :
        (i \in DOMAIN s /\ Append(s, e)[i] = s[i]) \/ Append(s, e)[i] = e
  OBVIOUS
<1> QED
  BY <1>1, <1>2, <1>3, Zenon DEF Elems

LEMMA ElemsTail ==
  ASSUME NEW S, NEW s \in Seq(S), s # <<>>
  PROVE  Elems(s) = {Head(s)} \cup Elems(Tail(s))
<1>1. 1 \in DOMAIN s /\ s[1] = Head(s)
  OBVIOUS
<1>2. \A i \in DOMAIN Tail(s) : i + 1 \in DOMAIN s /\ s[i + 1] = Tail(s)[i]
  OBVIOUS
<1>3. \A i \in DOMAIN s :
        s[i] = Head(s) \/ (i - 1 \in DOMAIN Tail(s) /\ s[i] = Tail(s)[i - 1])
  OBVIOUS
<1>4. Elems(s) \subseteq {Head(s)} \cup Elems(Tail(s))
  BY <1>3 DEF Elems
<1>5. Elems(Tail(s)) \subseteq Elems(s)
  BY <1>2 DEF Elems
<1>6. Head(s) \in Elems(s)
  BY <1>1 DEF Elems
<1> QED
  BY <1>4, <1>5, <1>6

\* The buffers owned, and how many times.
OwnedSet ==
  Elems(incoming) \cup ({active} \ {NULL}) \cup Elems(done) \cup ({vbuf} \ {NULL})
One(p)   == IF p = NULL THEN 0 ELSE 1
OwnedLen == Len(incoming) + One(active) + Len(done) + One(vbuf)

LEMMA OwnedParts ==
  ASSUME TypeOK
  PROVE  Owned \in Seq(Buffers) /\ Len(Owned) = OwnedLen /\ Elems(Owned) = OwnedSet
<1>1. /\ incoming \in Seq(Buffers) /\ done \in Seq(Buffers)
      /\ active \in Buffers \cup {NULL} /\ vbuf \in Buffers \cup {NULL}
  BY DEF TypeOK, CamType, DriverType
<1>2. ASSUME NEW p \in Buffers \cup {NULL}
      PROVE  /\ Pointer(p) \in Seq(Buffers) /\ Len(Pointer(p)) = One(p)
             /\ Elems(Pointer(p)) = {p} \ {NULL}
  <2>1. CASE p = NULL
    BY <2>1 DEF Pointer, One, Elems
  <2>2. CASE p # NULL
    BY <2>2 DEF Pointer, One, Elems
  <2> QED
    BY <2>1, <2>2
<1> DEFINE a == Pointer(active)
           v == Pointer(vbuf)
           s == incoming \o a
           t == s \o done
<1>3. /\ s \in Seq(Buffers) /\ t \in Seq(Buffers) /\ v \in Seq(Buffers)
      /\ t \o v \in Seq(Buffers)
  BY <1>1, <1>2
<1>4. Len(t \o v) = Len(incoming) + Len(a) + Len(done) + Len(v)
  BY <1>1, <1>2
<1>5. Elems(t \o v) = Elems(incoming) \cup Elems(a) \cup Elems(done) \cup Elems(v)
  <2>1. Elems(s) = Elems(incoming) \cup Elems(a)
    BY <1>1, <1>2, ElemsConcat
  <2>2. Elems(t) = Elems(s) \cup Elems(done)
    BY <1>1, <1>3, ElemsConcat
  <2>3. Elems(t \o v) = Elems(t) \cup Elems(v)
    <3> HIDE DEF t, v
    <3> QED
      BY <1>3, ElemsConcat
  <2> QED
    BY <2>1, <2>2, <2>3
<1>6. Owned = t \o v
  BY DEF Owned
<1> QED
  BY <1>1, <1>2, <1>3, <1>4, <1>5, <1>6 DEF OwnedLen, OwnedSet

\* Before the stream starts nothing owns a buffer; afterwards all are owned.
OwnInv ==
  \/ OwnedLen = 0 /\ OwnedSet = {}
  \/ OwnedLen = NumBuffers /\ OwnedSet = Buffers

StartInv == cam_pc = "setup" => incoming = <<>> /\ active = NULL /\ done = <<>>

LEMMA CameraOwn ==
  TypeInv /\ StartInv /\ OwnInv /\ Camera => StartInv' /\ OwnInv'
<1> SUFFICES ASSUME TypeInv, StartInv, OwnInv, Camera
             PROVE  StartInv' /\ OwnInv'
  OBVIOUS
<1>1. StartInv'
  BY DEF Camera, CamSetup, CamCheck, CamDequeue, CamDequeueTimeout, CamRequeue,
     StartInv, driverVars
<1>2. /\ incoming \in Seq(Buffers) /\ done \in Seq(Buffers)
      /\ vbuf \in Buffers \cup {NULL} /\ HandOK
  BY DEF TypeInv, TypeOK, CamType, DriverType
<1>3. CASE UNCHANGED <<incoming, active, done, vbuf>>
  <2>1. OwnedLen' = OwnedLen
    BY <1>3 DEF OwnedLen, One
  <2>2. OwnedSet' = OwnedSet
    BY <1>3 DEF OwnedSet, Elems
  <2> QED
    BY <1>1, <2>1, <2>2 DEF OwnInv
<1>4. CASE CamSetup /\ incoming' = [i \in Buffers |-> i]
  <2>1. active' = NULL /\ done' = <<>> /\ vbuf' = NULL
    BY <1>2, <1>4 DEF CamSetup, StartInv, HandOK
  <2>2. Len(incoming') = NumBuffers /\ Elems(incoming') = Buffers
    BY <1>4, SizesAssumption DEF Elems, Buffers
  <2>3. Elems(done') = {} /\ Len(done') = 0
    BY <2>1 DEF Elems
  <2>4. OwnedLen' = NumBuffers
    BY <2>1, <2>2, <2>3, SizesAssumption DEF OwnedLen, One
  <2>5. OwnedSet' = Buffers
    BY <2>1, <2>2, <2>3 DEF OwnedSet, Elems
  <2> QED
    BY <1>1, <2>4, <2>5 DEF OwnInv
<1>5. CASE CamDequeue
  <2>1. /\ done # <<>> /\ vbuf = NULL /\ vbuf' = Head(done) /\ done' = Tail(done)
        /\ UNCHANGED <<incoming, active>>
    BY <1>2, <1>5 DEF CamDequeue, HandOK
  <2>2. vbuf' \in Buffers /\ vbuf' # NULL /\ Len(done') = Len(done) - 1
    BY <1>2, <2>1, NullAssumption
  <2>3. Elems(done) = {vbuf'} \cup Elems(done')
    BY <1>2, <2>1, ElemsTail
  <2>4. OwnedLen' = OwnedLen
    BY <1>2, <2>1, <2>2 DEF OwnedLen, One
  <2>5. OwnedSet' = OwnedSet
    BY <2>1, <2>2, <2>3 DEF OwnedSet
  <2> QED
    BY <1>1, <2>4, <2>5 DEF OwnInv
<1>6. CASE CamRequeue /\ GiveBack /\ vbuf' = NULL
  <2>1. /\ vbuf \in Buffers /\ vbuf # NULL /\ incoming' = Append(incoming, vbuf)
        /\ UNCHANGED <<active, done>>
    BY <1>2, <1>6 DEF CamRequeue, GiveBack, HandOK
  <2>2. Len(incoming') = Len(incoming) + 1
    BY <1>2, <2>1
  <2>3. Elems(incoming') = Elems(incoming) \cup {vbuf}
    BY <1>2, <2>1, ElemsAppend
  <2>4. OwnedLen' = OwnedLen
    BY <1>2, <1>6, <2>1, <2>2 DEF OwnedLen, One
  <2>5. OwnedSet' = OwnedSet
    BY <1>6, <2>1, <2>3 DEF OwnedSet
  <2> QED
    BY <1>1, <2>4, <2>5 DEF OwnInv
<1> QED
  BY <1>3, <1>4, <1>5, <1>6
     DEF Camera, CamSetup, CamCheck, CamDequeueTimeout, CamRequeue, driverVars,
         camVars

LEMMA DriverOwn ==
  TypeInv /\ StartInv /\ OwnInv /\ Driver => StartInv' /\ OwnInv'
<1> SUFFICES ASSUME TypeInv, StartInv, OwnInv, Driver
             PROVE  StartInv' /\ OwnInv'
  OBVIOUS
<1>1. StartInv'
  BY DEF Driver, DriverStart, DriverFill, DriverDone, StartInv, camVars
<1>2. /\ incoming \in Seq(Buffers) /\ done \in Seq(Buffers)
      /\ active \in Buffers \cup {NULL}
  BY DEF TypeInv, TypeOK, DriverType
<1>3. CASE DriverFill
  BY <1>1, <1>3 DEF DriverFill, OwnInv, OwnedLen, OwnedSet, One, Elems, camVars
<1>4. CASE DriverStart
  <2>1. /\ incoming # <<>> /\ active = NULL /\ active' = Head(incoming)
        /\ incoming' = Tail(incoming) /\ UNCHANGED <<done, vbuf>>
    BY <1>4 DEF DriverStart, camVars
  <2>2. /\ active' \in Buffers /\ active' # NULL
        /\ Len(incoming') = Len(incoming) - 1
    BY <1>2, <2>1, NullAssumption
  <2>3. Elems(incoming) = {active'} \cup Elems(incoming')
    BY <1>2, <2>1, ElemsTail
  <2>4. OwnedLen' = OwnedLen
    BY <1>2, <2>1, <2>2 DEF OwnedLen, One
  <2>5. OwnedSet' = OwnedSet
    BY <2>1, <2>2, <2>3 DEF OwnedSet
  <2> QED
    BY <1>1, <2>4, <2>5 DEF OwnInv
<1>5. CASE DriverDone
  <2>1. /\ active \in Buffers /\ active # NULL /\ done' = Append(done, active)
        /\ active' = NULL /\ UNCHANGED <<incoming, vbuf>>
    BY <1>2, <1>5 DEF DriverDone, camVars
  <2>2. Len(done') = Len(done) + 1
    BY <1>2, <2>1
  <2>3. Elems(done') = Elems(done) \cup {active}
    BY <1>2, <2>1, ElemsAppend
  <2>4. OwnedLen' = OwnedLen
    BY <1>2, <2>1, <2>2 DEF OwnedLen, One
  <2>5. OwnedSet' = OwnedSet
    BY <2>1, <2>3 DEF OwnedSet
  <2> QED
    BY <1>1, <2>4, <2>5 DEF OwnInv
<1> QED
  BY <1>3, <1>4, <1>5 DEF Driver

LEMMA OtherOwn ==
  /\ StartInv /\ OwnInv
  /\ Main \/ WifiUp \/ Network \/ Peer \/ ResetArrives \/ UNCHANGED vars
  => StartInv' /\ OwnInv'
<1> SUFFICES ASSUME StartInv, OwnInv,
                    Main \/ WifiUp \/ Network \/ Peer \/ ResetArrives
                      \/ UNCHANGED vars
             PROVE  StartInv' /\ OwnInv'
  OBVIOUS
<1>1. UNCHANGED <<camVars, driverVars>>
  BY DEF Main, WifiUp, Network, Serving, NetSetup, NetAccept, NetAcceptFails, NetReadArgs,
     NetSendReady, NetSend, NetFault, NetSendFails, NetRaise, Peer, PeerConnects,
     PeerReceives, PeerAborts, PeerCloses, ResetArrives, vars, nodeVars
<1>2. OwnedLen' = OwnedLen
  BY <1>1 DEF camVars, driverVars, OwnedLen, One
<1>3. OwnedSet' = OwnedSet
  BY <1>1 DEF camVars, driverVars, OwnedSet, Elems
<1> QED
  BY <1>1, <1>2, <1>3 DEF camVars, driverVars, StartInv, OwnInv

\* For every pool size: no video buffer is ever lost or queued twice, although
\* frame_copy aliases one of them all along.
THEOREM BuffersKept == Spec => []BuffersOwnedOnce
<1>1. Init => TypeInv /\ StartInv /\ OwnInv
  BY InitType DEF Init, StartInv, OwnInv, OwnedLen, OwnedSet, One, Elems
<1>2. TypeInv /\ StartInv /\ OwnInv /\ [Next]_vars
        => TypeInv' /\ StartInv' /\ OwnInv'
  BY CameraType, DriverStepType, NetworkType, PeerType, StutterType,
     CameraOwn, DriverOwn, OtherOwn DEF Next, Node
<1>3. TypeInv /\ OwnInv => BuffersOwnedOnce
  <2> SUFFICES ASSUME TypeInv, OwnInv, Owned # <<>>
               PROVE  Len(Owned) = NumBuffers /\ Buffers = Elems(Owned)
    BY DEF BuffersOwnedOnce, Elems
  <2>1. /\ Owned \in Seq(Buffers)
        /\ Len(Owned) = OwnedLen /\ Elems(Owned) = OwnedSet
    BY OwnedParts DEF TypeInv
  <2>2. Len(Owned) # 0
    BY <2>1
  <2> QED
    BY <2>1, <2>2 DEF OwnInv
<1> QED
  BY <1>1, <1>2, <1>3, PTL DEF Spec
-------------------------------------------------------------------------------
(* The request for a frame, from the look at the signal to its use.          *)

\* Only camera_thread takes a request back, so what it saw still holds when it acts.
SignalInv == cam_pc = "dequeue" /\ signaled => tx_signal

LEMMA SignalStep ==
  ASSUME TypeInv, SignalInv, [Next]_vars
  PROVE  /\ SignalInv'
         /\ frame_copy' # frame_copy => tx_signal /\ ~tx_signal'
<1>1. ASSUME UNCHANGED <<cam_pc, signaled, frame_copy>>, tx_signal' \/ UNCHANGED tx_signal
      PROVE  SignalInv' /\ frame_copy' = frame_copy
  <2>1. tx_signal => tx_signal'
    BY <1>1, Zenon
  <2> QED
    BY <1>1, <2>1 DEF SignalInv
<1>2. CASE CamCheck
  <2>1. signaled' = tx_signal /\ tx_signal' = tx_signal /\ frame_copy' = frame_copy
    BY <1>2 DEF CamCheck, frameVars
  <2>2. signaled' => tx_signal'
    BY <2>1, Zenon
  <2> QED
    BY <2>1, <2>2 DEF SignalInv
<1>3. CASE CamDequeue
  <2>1. CASE signaled
    <3>1. tx_signal
      BY <1>3, <2>1 DEF CamDequeue, SignalInv
    <3>2. ~tx_signal' /\ cam_pc' = "display"
      BY <1>3, <2>1 DEF CamDequeue
    <3> QED
      BY <3>1, <3>2 DEF SignalInv
  <2>2. CASE ~signaled
    BY <1>3, <2>2 DEF CamDequeue, SignalInv, frameVars
  <2> QED
    BY <2>1, <2>2
<1>4. CASE CamSetup \/ CamDequeueTimeout \/ CamRequeue
  <2>1. cam_pc' \in {"check", "stopped"} /\ frame_copy' = frame_copy
    BY <1>4 DEF CamSetup, CamDequeueTimeout, CamRequeue, frameVars
  <2> QED
    BY <2>1 DEF SignalInv
<1>5. CASE Main \/ WifiUp \/ Driver
  BY <1>1, <1>5 DEF Main, WifiUp, Driver, DriverStart, DriverFill, DriverDone,
     camVars, frameVars
<1>6. CASE Network
  BY <1>1, <1>6 DEF Network, Serving, NetSetup, NetAccept, NetAcceptFails, NetReadArgs,
     NetSendReady, NetSend, NetFault, NetSendFails, NetRaise, AskForFrame,
     camVars, frameVars
<1>7. CASE Peer \/ ResetArrives
  BY <1>1, <1>7 DEF Peer, PeerConnects, PeerReceives, PeerAborts, PeerCloses,
     ResetArrives, nodeVars, camVars, frameVars
<1>8. CASE UNCHANGED vars
  BY <1>1, <1>8 DEF vars, camVars, frameVars
<1> QED
  BY <1>2, <1>3, <1>4, <1>5, <1>6, <1>7, <1>8 DEF Next, Node, Camera

\* However the raises of network_thread fall between camera_thread's look at the
\* signal and its reset, no frame is published that nobody asked for, and none twice
\* for one request.
THEOREM OneFramePerRequest == Spec => PublishedOnRequest
<1>1. Init => TypeInv /\ SignalInv
  BY InitType DEF Init, SignalInv
<1>2. TypeInv /\ [Next]_vars => TypeInv'
  BY CameraType, DriverStepType, NetworkType, PeerType, StutterType DEF Next, Node
<1>3. TypeInv /\ SignalInv /\ [Next]_vars
        => SignalInv' /\ [frame_copy' # frame_copy => tx_signal /\ ~tx_signal']_vars
  BY SignalStep
<1> QED
  BY <1>1, <1>2, <1>3, PTL DEF Spec, PublishedOnRequest
===============================================================================
