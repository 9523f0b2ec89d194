-------------------------- MODULE ImageViewer_proofs --------------------------
(***************************************************************************)
(* The stream between the camera node and its viewer stays in step, for    *)
(* any number of buffers, any lengths of header and frame, any window and  *)
(* any way sends and receives are cut, as long as the header is taken by   *)
(* the TCP stack in one piece; and the whole implements the abstract       *)
(* channel of FrameChannel.                                                *)
(***************************************************************************)
EXTENDS ImageViewer, CameraNode_proofs

\* The TCP stack takes the header whole (sendall discards the result of the call).
WholeHeader == HeaderSends = {ReadyLen}

-------------------------------------------------------------------------------
(* Chains of places.  The bytes of an endless alternation of headers and     *)
(* frames have the places 1 .. Cycle, over and over.                         *)

Cycle    == ReadyLen + FrameLen
After(p) == IF p = Cycle THEN 1 ELSE p + 1

\* The first m elements of p follow one another in the cycle.
IsChain(p, m) ==
  /\ \A i \in 1 .. m : p[i] \in 1 .. Cycle
  /\ \A i, j \in 1 .. m : i < j =>
       /\ j - i <= Cycle - p[i] => p[j] = p[i] + (j - i)
       /\ j - i = Cycle - p[i] + 1 => p[j] = 1

\* Sending k more bytes from the place that is due continues the chain.
LEMMA ChainGrows ==
  ASSUME NEW n \in Nat, NEW k \in Nat \ {0}, NEW p, NEW q,
         IsChain(p, n + 1),
         \A j \in 1 .. n : q[j] = p[j],
         \A j \in 1 .. k : q[n + j] = p[n + 1] + (j - 1),
         p[n + 1] + (k - 1) <= Cycle,
         q[n + k + 1] = After(p[n + 1] + (k - 1))
  PROVE  IsChain(q, n + k + 1)
<1> DEFINE d == p[n + 1]
<1>1. Cycle \in Nat \ {0}
  BY SizesAssumption DEF Cycle
<1>2. d \in 1 .. Cycle /\ d \in Nat
  BY <1>1 DEF IsChain
<1>3. \A j \in n + 1 .. n + k : q[j] = d + (j - (n + 1))
  <2> TAKE j \in n + 1 .. n + k
  <2>1. j - n \in 1 .. k /\ n + (j - n) = j
    OBVIOUS
  <2>2. q[n + (j - n)] = d + ((j - n) - 1)
    BY <2>1
  <2> QED
    BY <1>2, <2>1, <2>2
<1>4. \A j \in 1 .. n : q[j] = p[j] /\ p[j] \in 1 .. Cycle
  BY DEF IsChain
<1>5. q[n + k + 1] \in 1 .. Cycle
  BY <1>1, <1>2 DEF After
<1>6. ASSUME NEW i \in 1 .. n + k + 1
      PROVE  q[i] \in 1 .. Cycle
  <2>1. CASE i \in 1 .. n
    BY <1>4, <2>1
  <2>2. CASE i \in n + 1 .. n + k
    BY <1>1, <1>2, <1>3, <2>2
  <2>3. CASE i = n + k + 1
    BY <1>5, <2>3
  <2> QED
    BY <2>1, <2>2, <2>3
<1>7. ASSUME NEW i \in 1 .. n + k + 1, NEW j \in 1 .. n + k + 1, i < j
      PROVE  /\ j - i <= Cycle - q[i] => q[j] = q[i] + (j - i)
             /\ j - i = Cycle - q[i] + 1 => q[j] = 1
  <2>1. CASE i \in 1 .. n
    <3>1. /\ (n + 1) - i <= Cycle - p[i] => d = p[i] + ((n + 1) - i)
          /\ (n + 1) - i = Cycle - p[i] + 1 => d = 1
      BY <2>1 DEF IsChain
    <3>2. CASE j \in 1 .. n
      BY <1>4, <2>1, <3>2, <1>7 DEF IsChain
    <3>3. CASE j \in n + 1 .. n + k
      BY <1>1, <1>2, <1>3, <1>4, <2>1, <3>1, <3>3
    <3>4. CASE j = n + k + 1
      BY <1>1, <1>2, <1>4, <2>1, <3>1, <3>4 DEF After
    <3> QED
      BY <3>2, <3>3, <3>4
  <2>2. CASE i \in n + 1 .. n + k
    <3>1. CASE j \in n + 1 .. n + k
      BY <1>1, <1>2, <1>3, <2>2, <3>1
    <3>2. CASE j = n + k + 1
      BY <1>1, <1>2, <1>3, <2>2, <3>2 DEF After
    <3> QED
      BY <1>7, <2>2, <3>1, <3>2
  <2> QED
    BY <1>7, <2>1, <2>2
<1> QED
  BY <1>6, <1>7 DEF IsChain

\* Taking k bytes off the front leaves a chain.
LEMMA ChainShrinks ==
  ASSUME NEW n \in Nat, NEW k \in 1 .. n, NEW p, NEW q,
         IsChain(p, n + 1),
         \A j \in 1 .. n - k + 1 : q[j] = p[j + k]
  PROVE  IsChain(q, n - k + 1)
<1>1. \A j \in 1 .. n - k + 1 : j + k \in 1 .. n + 1
  OBVIOUS
<1>2. ASSUME NEW i \in 1 .. n - k + 1
      PROVE  q[i] \in 1 .. Cycle
  BY <1>1 DEF IsChain
<1>3. ASSUME NEW i \in 1 .. n - k + 1, NEW j \in 1 .. n - k + 1, i < j
      PROVE  /\ j - i <= Cycle - q[i] => q[j] = q[i] + (j - i)
             /\ j - i = Cycle - q[i] + 1 => q[j] = 1
  <2>1. (j + k) - (i + k) = j - i /\ i + k < j + k
    BY <1>3
  <2> QED
    BY <1>1, <2>1 DEF IsChain
<1> QED
  BY <1>2, <1>3 DEF IsChain

\* The k bytes that follow place b, taken within the cycle, have the places
\* b + 1 .. b + k.
LEMMA ChainTaken ==
  ASSUME NEW n \in Nat, NEW k \in 1 .. n, NEW p, IsChain(p, n + 1),
         NEW b \in Nat, b + k <= Cycle, p[1] = After(b)
  PROVE  /\ \A j \in 1 .. k : p[j] = b + j
         /\ p[k + 1] = After(b + k)
<1>1. Cycle \in Nat \ {0}
  BY SizesAssumption DEF Cycle
<1>2. p[1] = b + 1
  BY <1>1 DEF After
<1>3. ASSUME NEW j \in 2 .. k + 1
      PROVE  /\ j - 1 <= Cycle - p[1] => p[j] = p[1] + (j - 1)
             /\ j - 1 = Cycle - p[1] + 1 => p[j] = 1
  BY DEF IsChain
<1>4. \A j \in 1 .. k : p[j] = b + j
  <2> TAKE j \in 1 .. k
  <2>1. CASE j = 1
    BY <1>2, <2>1
  <2>2. CASE j # 1
    BY <1>1, <1>2, <1>3, <2>2
  <2> QED
    BY <2>1, <2>2
<1>5. p[k + 1] = After(b + k)
  BY <1>1, <1>2, <1>3 DEF After
<1> QED
  BY <1>4, <1>5

-------------------------------------------------------------------------------
(* The invariant.                                                            *)

\* The place of a byte in the cycle, and a byte that has one.
Pos(b)   == IF b.kind = "ready" THEN b.at ELSE ReadyLen + b.at
Sound(b) == b \in Byte /\ b.at \in 1 .. IF b.kind = "ready" THEN ReadyLen ELSE FrameLen

\* The place network_thread sends from next; and the place before the first byte
\* of what the viewer is receiving.
Due  == IF net_pc = "send" THEN ReadyLen + (FrameLen - send_len) + 1 ELSE 1
Base == IF view = "frame" THEN ReadyLen ELSE 0

\* The places of the bytes on the wire, and of the one that is due after them.
Stream == [j \in 1 .. Len(wire) + 1 |->
             IF j <= Len(wire) THEN Pos(wire[j]) ELSE Due]

\* Bytes are on the wire of an open connection only; the one viewer there is
\* either waits to be accepted, or is, or has gone.
LinkInv ==
  /\ \A j \in DOMAIN wire : Sound(wire[j])
  /\ conn # "open" => wire = <<>>
  /\ net_pc \in {"setup", "nosocket", "accept", "stopped"} => conn = "none"
  /\ view = "off" => conn # "open" /\ backlog # "live" /\ got = <<>>
  /\ backlog = "live" => conn # "open" /\ view = "ready" /\ got = <<>>
  /\ backlog = "dead" => view = "off"

\* What the viewer has of the current header or frame.
GotInv ==
  /\ view \in {"off", "ready", "frame"}
  /\ got \in Seq(Byte) /\ Len(got) <= Size
  /\ \A i \in DOMAIN got : Sound(got[i])
  /\ warm_start => \A i \in DOMAIN got : Pos(got[i]) = Base + i

\* A client accepted after the first frame is always sent whole frames.
LenInv ==
  /\ warm_start => frame_size = FrameLen
  /\ warm_start /\ net_pc \in {"argBuf", "ready"} => send_len = FrameLen
  /\ warm_start /\ net_pc = "send" => send_len \in 1 .. FrameLen

\* What is on the wire, and then what is sent next, continues what was received.
StreamInv ==
  warm_start /\ conn = "open" =>
    /\ IsChain(Stream, Len(wire) + 1)
    /\ Stream[1] = After(Base + Len(got))

StepInv == LinkInv /\ GotInv /\ LenInv /\ StreamInv
NodeInv == TypeInv /\ WarmInv

LEMMA InitStep == InitV => NodeInv /\ StepInv
<1> SUFFICES ASSUME InitV PROVE NodeInv /\ StepInv
  OBVIOUS
<1>1. Init /\ view = "off" /\ got = <<>>
  BY DEF InitV
<1>2. TypeInv
  BY <1>1, InitType
<1>3. WarmInv
  BY <1>1, NullAssumption DEF Init, WarmInv
<1>4. /\ wire = <<>> /\ got = <<>> /\ conn = "none" /\ backlog = "none"
      /\ warm_start = FALSE /\ view = "off"
  BY <1>1 DEF Init
<1>5. GotInv
  <2>1. got \in Seq(Byte) /\ Len(got) = 0 /\ DOMAIN got = {}
    BY <1>4
  <2> QED
    BY <1>4, <2>1, SizesAssumption DEF GotInv, Size
<1>6. LinkInv /\ LenInv /\ StreamInv
  BY <1>4 DEF LinkInv, LenInv, StreamInv
<1> QED
  BY <1>2, <1>3, <1>5, <1>6 DEF NodeInv, StepInv

\* A step that leaves the connection, the wire and both of its ends alone.
LEMMA StreamSame ==
  ASSUME StreamInv, UNCHANGED <<wire, conn, warm_start>>, Due' = Due,
         (Base + Len(got))' = Base + Len(got)
  PROVE  StreamInv'
<1>1. Stream' = Stream
  BY DEF Stream, Pos
<1>2. Len(wire') = Len(wire)
  OBVIOUS
<1> QED
  BY <1>1, <1>2 DEF StreamInv, IsChain, After, Cycle

LEMMA GotSame ==
  ASSUME GotInv, UNCHANGED <<view, got, warm_start>>
  PROVE  GotInv'
BY DEF GotInv, Size, Sound, Pos, Base

\* Threads other than network_thread, the driver, and the Wi-Fi.
LEMMA QuietStep ==
  ASSUME NodeInv, StepInv, Main \/ WifiUp \/ Camera \/ Driver,
         UNCHANGED viewVars
  PROVE  StepInv'
<1>1. UNCHANGED <<net_pc, argVars, linkVars, viewVars>>
  BY DEF Main, WifiUp, Camera, CamSetup, CamCheck, CamDequeue, CamDequeueTimeout,
     CamRequeue, Driver, DriverStart, DriverFill, DriverDone
<1>2. frame_size' \in {frame_size, FrameLen}
  BY DEF Main, WifiUp, Camera, CamSetup, CamCheck, CamDequeue, CamDequeueTimeout,
     CamRequeue, Driver, DriverStart, DriverFill, DriverDone, Publish, frameVars
<1>3. StreamInv'
  <2>1. Due' = Due /\ (Base + Len(got))' = Base + Len(got)
    BY <1>1 DEF Due, Base, viewVars, argVars
  <2> QED
    BY <1>1, <2>1, StreamSame DEF StepInv, linkVars
<1>4. GotInv'
  BY <1>1, GotSame DEF StepInv, viewVars, linkVars
<1>5. LinkInv' /\ LenInv'
  BY <1>1, <1>2 DEF StepInv, LinkInv, LenInv, Sound, linkVars, viewVars, argVars
<1> QED
  BY <1>3, <1>4, <1>5 DEF StepInv

\* network_thread's steps that send nothing and keep the client.
LEMMA NetworkQuiet ==
  ASSUME NodeInv, StepInv, UNCHANGED viewVars, WarmInv',
         \/ NetSetup \/ NetAcceptFails \/ NetReadArgs \/ NetFault \/ NetRaise
  PROVE  StepInv'
<1>1. UNCHANGED <<frameVars, linkVars, viewVars>>
  BY DEF NetSetup, NetAcceptFails, NetReadArgs, NetFault, NetRaise
<1>2. GotInv'
  BY <1>1, GotSame DEF StepInv, viewVars, linkVars
<1>3. LinkInv'
  BY <1>1 DEF StepInv, LinkInv, Sound, linkVars, viewVars,
     NetSetup, NetAcceptFails, NetReadArgs, NetFault, NetRaise
<1>4. LenInv'
  BY <1>1 DEF StepInv, LenInv, linkVars, frameVars, argVars,
     NetSetup, NetAcceptFails, NetReadArgs, NetFault, NetRaise
<1>5. StreamInv'
  <2> SUFFICES ASSUME warm_start, conn = "open"
               PROVE  StreamInv'
    BY <1>1 DEF StreamInv, linkVars
  <2>1. ~NetFault
    BY <1>1 DEF NetFault, WarmInv, linkVars
  <2>2. Due' = Due
    BY <2>1 DEF Due, NetSetup, NetAcceptFails, NetReadArgs, NetRaise
  <2>3. (Base + Len(got))' = Base + Len(got)
    BY <1>1 DEF Base, viewVars
  <2> QED
    BY <1>1, <2>2, <2>3, StreamSame DEF StepInv, linkVars
<1> QED
  BY <1>2, <1>3, <1>4, <1>5 DEF StepInv

LEMMA AcceptStep ==
  ASSUME NodeInv, StepInv, UNCHANGED viewVars, NetAccept
  PROVE  StepInv'
<1>1. /\ net_pc = "accept" /\ net_pc' = "args" /\ backlog # "none"
      /\ backlog' = "none" /\ UNCHANGED <<frame_size, wire, view, got>>
      /\ conn' = IF backlog = "live" THEN "open" ELSE "closing"
  BY DEF NetAccept, frameVars, viewVars
<1>2. conn = "none" /\ wire = <<>> /\ got = <<>>
  <2>1. backlog \in {"live", "dead"}
    BY <1>1 DEF NodeInv, TypeInv, TypeOK, NetType
  <2> QED
    BY <1>1, <2>1 DEF StepInv, LinkInv
<1>3. LinkInv'
  BY <1>1, <1>2 DEF StepInv, LinkInv, NodeInv, TypeInv, TypeOK, NetType
<1>4. GotInv'
  BY <1>1, <1>2 DEF StepInv, GotInv, Size
<1>5. LenInv'
  <2>1. warm_start' = (frame_size > 0)
    BY Zenon DEF NetAccept
  <2>2. frame_size \in {0, FrameLen}
    BY DEF NodeInv, TypeInv, TypeOK, CamType
  <2>3. warm_start' => frame_size = FrameLen
    <3>1. 0 > 0 <=> FALSE
      OBVIOUS
    <3> QED
      BY <2>1, <2>2, <3>1
  <2> QED
    BY <1>1, <2>3 DEF LenInv
<1>6. StreamInv'
  <2> SUFFICES ASSUME conn' = "open"
               PROVE  IsChain(Stream', Len(wire') + 1)
                      /\ Stream'[1] = After((Base + Len(got))')
    BY DEF StreamInv, IsChain, After, Cycle
  <2>1. view = "ready"
    BY <1>1 DEF StepInv, LinkInv
  <2>2. Len(wire') = 0 /\ Base' = 0 /\ Len(got') = 0 /\ Due' = 1
    BY <1>1, <1>2, <2>1 DEF Base, Due
  <2>3. Stream'[1] = 1
    BY <2>2 DEF Stream
  <2>4. Cycle \in Nat \ {0}
    BY SizesAssumption DEF Cycle
  <2>5. IsChain(Stream', 1)
    BY <2>3, <2>4 DEF IsChain
  <2>6. After(0) = 1
    BY <2>4 DEF After
  <2> QED
    BY <2>2, <2>3, <2>5, <2>6
<1> QED
  BY <1>3, <1>4, <1>5, <1>6 DEF StepInv

\* A transmission appends to the wire of an open connection.
LEMMA WireGrows ==
  ASSUME NodeInv, StepInv, NEW bytes \in Seq(Byte), Transmit(bytes),
         \A j \in DOMAIN bytes : Sound(bytes[j])
  PROVE  /\ \A j \in DOMAIN wire' : Sound(wire'[j])
         /\ conn # "open" => wire' = <<>>
         /\ conn = "open" =>
              /\ Len(wire') = Len(wire) + Len(bytes)
              /\ \A j \in 1 .. Len(wire) : wire'[j] = wire[j]
              /\ \A j \in 1 .. Len(bytes) : wire'[Len(wire) + j] = bytes[j]
<1>1. wire \in Seq(Byte)
  BY DEF NodeInv, TypeInv, TypeOK, NetType
<1>2. CASE conn # "open"
  BY <1>2 DEF Transmit, StepInv, LinkInv
<1>3. CASE conn = "open"
  <2>1. wire' = wire \o bytes
    BY <1>3 DEF Transmit
  <2>2. /\ Len(wire') = Len(wire) + Len(bytes)
        /\ \A j \in 1 .. Len(wire) : wire'[j] = wire[j]
        /\ \A j \in 1 .. Len(bytes) : wire'[Len(wire) + j] = bytes[j]
    BY <1>1, <2>1
  <2>3. ASSUME NEW j \in DOMAIN wire'
        PROVE  Sound(wire'[j])
    <3>1. j \in 1 .. Len(wire) + Len(bytes)
      BY <1>1, <2>1, <2>2
    <3>2. CASE j \in 1 .. Len(wire)
      BY <1>1, <2>2, <3>2 DEF StepInv, LinkInv
    <3>3. CASE j \in Len(wire) + 1 .. Len(wire) + Len(bytes)
      <4>1. j - Len(wire) \in DOMAIN bytes /\ Len(wire) + (j - Len(wire)) = j
        BY <1>1, <3>3
      <4> QED
        BY <1>1, <2>2, <4>1
    <3> QED
      BY <1>1, <3>1, <3>2, <3>3
  <2> QED
    BY <1>3, <2>2, <2>3
<1> QED
  BY <1>2, <1>3

\* Sending the places that are due keeps the stream a chain.
LEMMA StreamGrows ==
  ASSUME NodeInv, StepInv, NEW bytes \in Seq(Byte), bytes # <<>>,
         warm_start, conn = "open", UNCHANGED <<conn, warm_start, view, got>>,
         Len(wire') = Len(wire) + Len(bytes),
         \A j \in 1 .. Len(wire) : wire'[j] = wire[j],
         \A j \in 1 .. Len(bytes) : wire'[Len(wire) + j] = bytes[j],
         \A j \in 1 .. Len(bytes) : Pos(bytes[j]) = Due + (j - 1),
         Due + (Len(bytes) - 1) <= Cycle,
         Due' = After(Due + (Len(bytes) - 1))
  PROVE  StreamInv'
<1> DEFINE n == Len(wire)
<1> DEFINE k == Len(bytes)
<1>1. n \in Nat /\ k \in Nat \ {0}
  BY DEF NodeInv, TypeInv, TypeOK, NetType
<1>2. IsChain(Stream, n + 1) /\ Stream[1] = After(Base + Len(got))
  BY DEF StepInv, StreamInv
<1>3. Stream[n + 1] = Due
  BY <1>1 DEF Stream
<1>4. \A j \in 1 .. n : Stream'[j] = Stream[j]
  BY <1>1 DEF Stream, Pos
<1>5. \A j \in 1 .. k : Stream'[n + j] = Stream[n + 1] + (j - 1)
  <2> TAKE j \in 1 .. k
  <2>1. n + j \in 1 .. Len(wire') + 1 /\ n + j <= Len(wire')
    BY <1>1
  <2>2. Stream'[n + j] = Pos(wire'[n + j])
    BY <2>1 DEF Stream, Pos
  <2> QED
    BY <1>3, <2>2
<1>6. Stream'[n + k + 1] = After(Stream[n + 1] + (k - 1))
  BY <1>1, <1>3 DEF Stream
<1>7. Stream[n + 1] + (k - 1) <= Cycle
  BY <1>3
<1>8. IsChain(Stream', n + k + 1)
  <2> HIDE DEF n, k
  <2> QED
    BY <1>1, <1>2, <1>4, <1>5, <1>6, <1>7, ChainGrows
<1>9. Stream'[1] = Stream[1]
  <2>1. CASE n = 0
    BY <1>1, <1>3, <1>5, <2>1, <1>2, SizesAssumption DEF IsChain, Cycle
  <2>2. CASE n # 0
    BY <1>1, <1>4, <2>2
  <2> QED
    BY <2>1, <2>2
<1> QED
  BY <1>2, <1>8, <1>9 DEF StreamInv, IsChain, After, Cycle, Base

\* The header goes out whole, and the frame is due after it.
LEMMA SendReadyStep ==
  ASSUME WholeHeader, NodeInv, StepInv, UNCHANGED viewVars, NetSendReady
  PROVE  StepInv'
<1> DEFINE header == [i \in 1 .. ReadyLen |-> ReadyByte(i)]
<1>1. /\ net_pc = "ready" /\ net_pc' = IF send_len = 0 THEN "raise" ELSE "send"
      /\ UNCHANGED <<frame_size, send_len, backlog, conn, warm_start, view, got>>
  BY DEF NetSendReady, frameVars, viewVars, argVars
<1>2. \/ Transmit(header)
      \/ conn = "gone" /\ UNCHANGED wire
  BY DEF NetSendReady, WholeHeader
<1>3. /\ header \in Seq(Byte) /\ header # <<>> /\ Len(header) = ReadyLen
      /\ \A j \in 1 .. ReadyLen : Sound(header[j]) /\ Pos(header[j]) = j
  <2>1. ReadyLen \in Nat \ {0}
    BY SizesAssumption
  <2>2. \A j \in 1 .. ReadyLen : Sound(ReadyByte(j)) /\ Pos(ReadyByte(j)) = j
    BY <2>1 DEF Sound, ReadyByte, Byte, Pos
  <2> QED
    BY <2>1, <2>2 DEF Sound
<1> HIDE DEF header
<1>4. \A j \in DOMAIN header : Sound(header[j])
  BY <1>3
<1>5. /\ \A j \in DOMAIN wire' : Sound(wire'[j])
      /\ conn # "open" => wire' = <<>>
  BY <1>2, <1>3, <1>4, WireGrows DEF StepInv, LinkInv, Sound
<1>6. LinkInv'
  BY <1>1, <1>5 DEF StepInv, LinkInv, Sound
<1>7. GotInv'
  BY <1>1, GotSame DEF StepInv
<1>8. LenInv'
  BY <1>1, SizesAssumption DEF StepInv, LenInv
<1>9. StreamInv'
  <2> SUFFICES ASSUME warm_start, conn = "open"
               PROVE  StreamInv'
    BY <1>1 DEF StreamInv
  <2>1. Transmit(header)
    BY <1>2
  <2>2. send_len = FrameLen /\ net_pc' = "send" /\ send_len' = FrameLen
    BY <1>1, SizesAssumption DEF StepInv, LenInv
  <2>3. Due = 1 /\ Due' = After(Due + (ReadyLen - 1))
    BY <1>1, <2>2, SizesAssumption DEF Due, After, Cycle
  <2>4. Due + (ReadyLen - 1) <= Cycle
    BY <2>3, SizesAssumption DEF Cycle
  <2>5. \A j \in 1 .. ReadyLen : Pos(header[j]) = Due + (j - 1)
    BY <1>3, <2>3, SizesAssumption
  <2> QED
    BY <1>1, <1>3, <1>4, <2>1, <2>3, <2>4, <2>5, WireGrows, StreamGrows
<1> QED
  BY <1>6, <1>7, <1>8, <1>9 DEF StepInv

\* The loop of sendall sends the next k bytes of the frame.
LEMMA SendStep ==
  ASSUME NodeInv, StepInv, UNCHANGED viewVars, NetSend
  PROVE  StepInv'
<1>1. /\ net_pc = "send" /\ send_buf # NULL
      /\ UNCHANGED <<frame_size, backlog, conn, warm_start, view, got>>
  BY DEF NetSend, frameVars, viewVars
<1>2. PICK k \in 1 .. send_len :
             /\ Transmit(Unsent(k)) /\ send_len' = send_len - k
             /\ net_pc' = IF k = send_len THEN "raise" ELSE "send"
  BY DEF NetSend
<1>3. send_len \in 0 .. FrameLen /\ k \in Nat \ {0}
  BY <1>2 DEF NodeInv, TypeInv, TypeOK, NetType
<1>4. Unsent(k) \in Seq(Byte) /\ Len(Unsent(k)) = k /\ DOMAIN Unsent(k) = 1 .. k
  <2>1. Unsent(k) \in Seq(Byte)
    BY <1>1, PixelsType DEF NodeInv, TypeInv, TypeOK
  <2> QED
    BY <1>3, <2>1 DEF Unsent
<1>5. \A j \in 1 .. k : /\ Sound(Unsent(k)[j])
                        /\ Pos(Unsent(k)[j]) = ReadyLen + (FrameLen - send_len) + j
  <2> TAKE j \in 1 .. k
  <2>1. /\ FrameLen - send_len + j \in 1 .. FrameLen
        /\ ReadyLen + (FrameLen - send_len + j) = ReadyLen + (FrameLen - send_len) + j
    BY <1>2, <1>3, SizesAssumption
  <2>2. /\ Unsent(k)[j].kind = "pixel"
        /\ Unsent(k)[j].at = FrameLen - send_len + j
        /\ Unsent(k)[j] \in Byte
    BY <1>3, <1>4 DEF Unsent, PixelByte
  <2> QED
    BY <2>1, <2>2 DEF Sound, Pos
<1>6. /\ \A j \in DOMAIN wire' : Sound(wire'[j])
      /\ conn # "open" => wire' = <<>>
  BY <1>2, <1>4, <1>5, WireGrows
<1>7. LinkInv'
  BY <1>1, <1>2, <1>6 DEF StepInv, LinkInv, Sound
<1>8. GotInv'
  BY <1>1, GotSame DEF StepInv
<1>9. LenInv'
  BY <1>1, <1>2, <1>3, SizesAssumption DEF StepInv, LenInv
<1>10. StreamInv'
  <2> SUFFICES ASSUME warm_start, conn = "open"
               PROVE  StreamInv'
    BY <1>1 DEF StreamInv
  <2>1. Due = ReadyLen + (FrameLen - send_len) + 1 /\ Due + (k - 1) <= Cycle
    BY <1>1, <1>2, <1>3, SizesAssumption DEF Due, Cycle
  <2>2. Due' = After(Due + (k - 1))
    <3>1. CASE k = send_len
      BY <1>2, <1>3, <2>1, <3>1, SizesAssumption DEF Due, After, Cycle
    <3>2. CASE k # send_len
      BY <1>2, <1>3, <2>1, <3>2, SizesAssumption DEF Due, After, Cycle
    <3> QED
      BY <3>1, <3>2
  <2>3. \A j \in 1 .. k : Pos(Unsent(k)[j]) = Due + (j - 1)
    <3> TAKE j \in 1 .. k
    <3>1. Due + (j - 1) = ReadyLen + (FrameLen - send_len) + j
      BY <1>3, <2>1, SizesAssumption
    <3> QED
      BY <1>5, <3>1
  <2>4. Unsent(k) # <<>>
    BY <1>3, <1>4
  <2>5. \A j \in DOMAIN Unsent(k) : Sound(Unsent(k)[j])
    BY <1>4, <1>5
  <2>6. /\ Len(wire') = Len(wire) + k
        /\ \A j \in 1 .. Len(wire) : wire'[j] = wire[j]
        /\ \A j \in 1 .. k : wire'[Len(wire) + j] = Unsent(k)[j]
    BY <1>2, <1>4, <2>5, WireGrows
  <2> QED
    BY <1>1, <1>4, <2>1, <2>2, <2>3, <2>4, <2>6, StreamGrows
<1> QED
  BY <1>7, <1>8, <1>9, <1>10 DEF StepInv

\* Steps after which no connection is open, and the viewer is as it was.
LEMMA LinkLost ==
  ASSUME NodeInv, StepInv, UNCHANGED viewVars,
         NetSendFails \/ ResetArrives \/ PeerCloses
  PROVE  StepInv'
<1>1. /\ conn' # "open" /\ wire' = <<>>
      /\ conn = "open" => conn' = "closing" /\ net_pc' = net_pc
      /\ UNCHANGED <<frame_size, backlog, warm_start, view, got>>
  <2>1. CASE NetSendFails
    BY <2>1 DEF NetSendFails, CloseClient, frameVars, viewVars, StepInv, LinkInv
  <2>2. CASE ResetArrives
    BY <2>2 DEF ResetArrives, nodeVars, frameVars, viewVars, StepInv, LinkInv
  <2>3. CASE PeerCloses
    BY <2>3 DEF PeerCloses, nodeVars, frameVars, viewVars
  <2> QED
    BY <2>1, <2>2, <2>3
<1>2. GotInv'
  BY <1>1, GotSame DEF StepInv
<1>3. net_pc' \in {"setup", "nosocket", "accept", "stopped"} => conn' = "none"
  BY DEF NetSendFails, CloseClient, ResetArrives, PeerCloses, nodeVars,
     StepInv, LinkInv
<1>4. LinkInv'
  BY <1>1, <1>3 DEF StepInv, LinkInv
<1>5. LenInv'
  BY <1>1 DEF StepInv, LenInv, NetSendFails, CloseClient, ResetArrives, PeerCloses,
     nodeVars, argVars
<1>6. StreamInv'
  BY <1>1 DEF StreamInv
<1> QED
  BY <1>2, <1>4, <1>5, <1>6 DEF StepInv

LEMMA LeaveStep ==
  ASSUME NodeInv, StepInv, Leave
  PROVE  StepInv'
<1>1. /\ view' = "off" /\ got' = <<>>
      /\ UNCHANGED <<frame_size, warm_start, net_pc, send_len>>
      /\ \/ PeerCloses
         \/ PeerAborts
         \/ conn # "open" /\ backlog # "live" /\ UNCHANGED vars
  BY DEF Leave, PeerCloses, PeerAborts, nodeVars, argVars, frameVars, vars, linkVars
<1>2. conn' # "open" /\ backlog' # "live" /\ wire' = <<>>
  BY <1>1 DEF PeerCloses, PeerAborts, StepInv, LinkInv, vars, linkVars
<1>3. net_pc \in {"setup", "nosocket", "accept", "stopped"} => conn' = "none"
  BY <1>1 DEF PeerCloses, PeerAborts, StepInv, LinkInv, vars, linkVars
<1>4. LinkInv'
  BY <1>1, <1>2, <1>3 DEF LinkInv
<1>5. GotInv'
  <2>1. got' \in Seq(Byte) /\ Len(got') = 0 /\ DOMAIN got' = {}
    BY <1>1
  <2> QED
    BY <1>1, <2>1, SizesAssumption DEF GotInv, Size
<1>6. LenInv' /\ StreamInv'
  BY <1>1, <1>2 DEF StepInv, LenInv, StreamInv
<1> QED
  BY <1>4, <1>5, <1>6 DEF StepInv

LEMMA ConnectStep ==
  ASSUME NodeInv, StepInv, ViewerConnect
  PROVE  StepInv'
<1>1. /\ view = "off" /\ view' = "ready" /\ got' = <<>> /\ backlog' = "live"
      /\ UNCHANGED <<frame_size, warm_start, net_pc, send_len, conn, wire>>
  BY DEF ViewerConnect, PeerConnects, nodeVars, argVars, frameVars
<1>2. conn # "open" /\ got = <<>>
  BY <1>1 DEF StepInv, LinkInv
<1>3. LinkInv'
  BY <1>1, <1>2 DEF StepInv, LinkInv, Sound
<1>4. GotInv'
  <2>1. got' \in Seq(Byte) /\ Len(got') = 0 /\ DOMAIN got' = {}
    BY <1>1
  <2> QED
    BY <1>1, <2>1, SizesAssumption DEF GotInv, Size
<1>5. LenInv' /\ StreamInv'
  BY <1>1, <1>2 DEF StepInv, LenInv, StreamInv
<1> QED
  BY <1>3, <1>4, <1>5 DEF StepInv

\* recv hands the viewer the next k bytes on the wire.
LEMMA ReceiveStep ==
  ASSUME NodeInv, StepInv, ViewerReceive
  PROVE  StepInv'
<1>1. PICK k \in 1 .. Size - Len(got) :
             /\ PeerReceives(k) /\ got' = got \o SubSeq(wire, 1, k)
  BY DEF ViewerReceive
<1>2. /\ UNCHANGED <<frame_size, warm_start, net_pc, send_len, backlog, conn, view>>
      /\ view # "off" /\ conn = "open" /\ k <= Len(wire)
      /\ wire' = SubSeq(wire, k + 1, Len(wire))
  BY <1>1 DEF ViewerReceive, PeerReceives, nodeVars, argVars, frameVars
<1>3. /\ wire \in Seq(Byte) /\ got \in Seq(Byte) /\ Len(got) <= Size
      /\ Size \in Nat /\ Size + Base <= Cycle /\ Base \in Nat
      /\ k \in Nat \ {0} /\ k <= Size - Len(got) /\ k \in 1 .. Len(wire)
  BY <1>1, <1>2, SizesAssumption
     DEF NodeInv, TypeInv, TypeOK, NetType, StepInv, GotInv, Size, Base, Cycle
<1>4. /\ wire' \in Seq(Byte) /\ Len(wire') = Len(wire) - k
      /\ \A j \in 1 .. Len(wire) - k : wire'[j] = wire[j + k]
  BY <1>2, <1>3
<1>5. /\ got' \in Seq(Byte) /\ Len(got') = Len(got) + k
      /\ \A j \in 1 .. Len(got) : got'[j] = got[j]
      /\ \A j \in 1 .. k : got'[Len(got) + j] = wire[j]
  <2>1. /\ SubSeq(wire, 1, k) \in Seq(Byte) /\ Len(SubSeq(wire, 1, k)) = k
        /\ \A j \in 1 .. k : SubSeq(wire, 1, k)[j] = wire[j]
    BY <1>3
  <2> QED
    BY <1>1, <1>3, <2>1
<1>6. /\ \A j \in 1 .. Len(got') : j \in 1 .. Len(got) \/ j - Len(got) \in 1 .. k
      /\ \A j \in 1 .. Len(got') : Len(got) + (j - Len(got)) = j
  BY <1>3, <1>5
<1>7. LinkInv'
  <2>1. \A j \in DOMAIN wire' : Sound(wire'[j])
    <3> TAKE j \in DOMAIN wire'
    <3>1. j \in 1 .. Len(wire) - k /\ j + k \in DOMAIN wire
      BY <1>3, <1>4
    <3> QED
      BY <1>4, <3>1 DEF StepInv, LinkInv
  <2> QED
    BY <1>2, <2>1 DEF StepInv, LinkInv, Sound
<1>8. \A j \in DOMAIN got' : Sound(got'[j])
  <2> TAKE j \in DOMAIN got'
  <2>1. CASE j \in 1 .. Len(got)
    BY <1>3, <1>5, <2>1 DEF StepInv, GotInv
  <2>2. CASE j - Len(got) \in 1 .. k
    <3>1. got'[j] = wire[j - Len(got)] /\ j - Len(got) \in DOMAIN wire
      BY <1>3, <1>5, <1>6, <2>2
    <3> QED
      BY <3>1 DEF StepInv, LinkInv
  <2> QED
    BY <1>5, <1>6, <2>1, <2>2
<1>9. warm_start =>
        /\ \A j \in 1 .. k : Stream[j] = (Base + Len(got)) + j
        /\ Stream[k + 1] = After((Base + Len(got)) + k)
  <2> SUFFICES ASSUME warm_start
               PROVE  /\ \A j \in 1 .. k : Stream[j] = (Base + Len(got)) + j
                      /\ Stream[k + 1] = After((Base + Len(got)) + k)
    OBVIOUS
  <2>1. IsChain(Stream, Len(wire) + 1) /\ Stream[1] = After(Base + Len(got))
    BY <1>2 DEF StepInv, StreamInv
  <2> DEFINE n == Len(wire)
  <2> DEFINE b == Base + Len(got)
  <2>2. n \in Nat /\ k \in 1 .. n /\ b \in Nat /\ b + k <= Cycle
    BY <1>3, SizesAssumption DEF Cycle
  <2> HIDE DEF n, b
  <2>3. IsChain(Stream, n + 1) /\ Stream[1] = After(b)
    BY <2>1 DEF n, b
  <2>4. (\A j \in 1 .. k : Stream[j] = b + j) /\ Stream[k + 1] = After(b + k)
    BY <2>2, <2>3, ChainTaken
  <2> QED
    BY <2>4 DEF b
<1>10. warm_start => \A j \in DOMAIN got' : Pos(got'[j]) = Base + j
  <2> SUFFICES ASSUME warm_start, NEW j \in DOMAIN got'
               PROVE  Pos(got'[j]) = Base + j
    OBVIOUS
  <2>1. CASE j \in 1 .. Len(got)
    <3>1. \A i \in DOMAIN got : Pos(got[i]) = Base + i
      BY DEF StepInv, GotInv
    <3>2. j \in DOMAIN got /\ got'[j] = got[j]
      BY <1>3, <1>5, <2>1
    <3> QED
      BY <3>1, <3>2
  <2>2. CASE j - Len(got) \in 1 .. k
    <3>1. got'[j] = wire[j - Len(got)]
      BY <1>5, <1>6, <2>2
    <3>2. Stream[j - Len(got)] = Pos(wire[j - Len(got)])
      BY <1>3, <2>2 DEF Stream
    <3>3. Stream[j - Len(got)] = (Base + Len(got)) + (j - Len(got))
      BY <1>9, <2>2
    <3>4. (Base + Len(got)) + (j - Len(got)) = Base + j
      BY <1>3, <1>5
    <3> QED
      BY <3>1, <3>2, <3>3, <3>4
  <2> QED
    BY <1>5, <1>6, <2>1, <2>2
<1>11. GotInv'
  <2>1. Base' = Base /\ Size' = Size
    BY <1>2 DEF Base, Size
  <2>2. Len(got') <= Size
    BY <1>3, <1>5
  <2> QED
    BY <1>2, <1>5, <1>8, <1>10, <2>1, <2>2 DEF StepInv, GotInv, Sound, Pos
<1>12. LenInv'
  BY <1>2 DEF StepInv, LenInv
<1>13. StreamInv'
  <2> SUFFICES ASSUME warm_start
               PROVE  StreamInv'
    BY <1>2 DEF StreamInv
  <2>1. Due' = Due /\ Base' = Base
    BY <1>2 DEF Due, Base
  <2>2. \A j \in 1 .. Len(wire) - k + 1 : Stream'[j] = Stream[j + k]
    <3> TAKE j \in 1 .. Len(wire) - k + 1
    <3>1. CASE j = Len(wire) - k + 1
      BY <1>3, <1>4, <2>1, <3>1 DEF Stream
    <3>2. CASE j # Len(wire) - k + 1
      <4>1. /\ j \in 1 .. Len(wire) - k /\ j + k \in 1 .. Len(wire) + 1
            /\ j + k <= Len(wire) /\ j <= Len(wire') /\ j \in 1 .. Len(wire') + 1
        <5> DEFINE n == Len(wire)
        <5> DEFINE m == Len(wire')
        <5>1. n \in Nat /\ m = n - k /\ k \in 1 .. n /\ j \in 1 .. n - k + 1
          BY <1>3, <1>4
        <5> HIDE DEF n, m
        <5>2. /\ j # n - k + 1 => j \in 1 .. n - k
              /\ j # n - k + 1 => j + k \in 1 .. n + 1 /\ j + k <= n
              /\ j # n - k + 1 => j <= m /\ j \in 1 .. m + 1
          BY <5>1
        <5> QED
          BY <3>2, <5>2 DEF n, m
      <4>2. Stream[j + k] = Pos(wire[j + k]) /\ Stream'[j] = Pos(wire'[j])
        BY <4>1 DEF Stream, Pos
      <4> QED
        BY <1>4, <4>1, <4>2
    <3> QED
      BY <3>1, <3>2
  <2>3. IsChain(Stream, Len(wire) + 1)
    BY <1>2 DEF StepInv, StreamInv
  <2>4. IsChain(Stream', Len(wire) - k + 1)
    <3> DEFINE n == Len(wire)
    <3>1. n \in Nat /\ k \in 1 .. n
      BY <1>3
    <3>2. IsChain(Stream, n + 1) /\ \A j \in 1 .. n - k + 1 : Stream'[j] = Stream[j + k]
      BY <2>2, <2>3
    <3> HIDE DEF n
    <3>3. IsChain(Stream', n - k + 1)
      BY <3>1, <3>2, ChainShrinks
    <3> QED
      BY <3>3 DEF n
  <2>5. Stream'[1] = After(Base + Len(got'))
    <3>1. Stream'[1] = Stream[1 + k]
      BY <1>3, <2>2
    <3> QED
      BY <1>3, <1>5, <1>9, <3>1
  <2> QED
    BY <1>4, <2>1, <2>4, <2>5 DEF StreamInv, IsChain, After, Cycle
<1> QED
  BY <1>7, <1>11, <1>12, <1>13 DEF StepInv

\* The viewer turns to the other part, once it has all of the current one.
LEMMA TurnStep ==
  ASSUME NodeInv, StepInv, UNCHANGED vars, view # "off", Len(got) = Size,
         view' = IF view = "ready" THEN "frame" ELSE "ready", got' = <<>>
  PROVE  StepInv'
<1>1. UNCHANGED <<frame_size, warm_start, net_pc, send_len, backlog, conn, wire>>
  BY DEF vars, frameVars, argVars, linkVars
<1>2. view' # "off" /\ view' \in {"off", "ready", "frame"} /\ backlog # "live"
  BY SizesAssumption DEF StepInv, LinkInv, GotInv, Size
<1>3. LinkInv'
  BY <1>1, <1>2 DEF StepInv, LinkInv, Sound
<1>4. GotInv'
  <2>1. got' \in Seq(Byte) /\ Len(got') = 0 /\ DOMAIN got' = {}
    OBVIOUS
  <2> QED
    BY <1>2, <2>1, SizesAssumption DEF GotInv, Size
<1>5. LenInv'
  BY <1>1 DEF StepInv, LenInv
<1>6. After(Base + Len(got)) = After((Base + Len(got))')
  BY <1>2, SizesAssumption DEF StepInv, GotInv, Size, Base, After, Cycle
<1>7. StreamInv'
  <2>1. Stream' = Stream /\ Len(wire') = Len(wire)
    BY <1>1 DEF Stream, Due, Pos
  <2> QED
    BY <1>1, <1>6, <2>1 DEF StepInv, StreamInv, IsChain, After, Cycle
<1> QED
  BY <1>3, <1>4, <1>5, <1>7 DEF StepInv

LEMMA ViewerStep ==
  ASSUME NodeInv, StepInv, Viewer
  PROVE  StepInv'
<1>1. CASE ViewerConnect
  BY <1>1, ConnectStep
<1>2. CASE ViewerReceive
  BY <1>2, ReceiveStep
<1>3. CASE Leave
  BY <1>3, LeaveStep
<1>4. CASE ViewerTimeout
  BY <1>4, LeaveStep DEF ViewerTimeout
<1>5. CASE ViewerCheckHeader /\ ~Leave
  <2>1. /\ UNCHANGED vars /\ view = "ready" /\ view' = "frame" /\ got' = <<>>
        /\ Len(got) = Size
    BY <1>5 DEF ViewerCheckHeader, Size
  <2> QED
    BY <2>1, TurnStep
<1>6. CASE ViewerShow /\ ~Leave
  <2>1. /\ UNCHANGED vars /\ view = "frame" /\ view' = "ready" /\ got' = <<>>
        /\ Len(got) = Size
    BY <1>6 DEF ViewerShow, Size
  <2> QED
    BY <2>1, TurnStep
<1> QED
  BY <1>1, <1>2, <1>3, <1>4, <1>5, <1>6 DEF Viewer

\* Every step of the composition is one of the node and its network, or none.
LEMMA NodeStep ==
  ASSUME NodeInv, StepInv, [NextV]_allVars
  PROVE  NodeInv'
<1>1. ASSUME ViewerReceive
      PROVE  Peer
  <2>1. PICK k \in 1 .. Size - Len(got) : PeerReceives(k)
    BY <1>1 DEF ViewerReceive
  <2>2. k \in 1 .. Window
    BY <2>1, SizesAssumption
       DEF PeerReceives, NodeInv, TypeInv, TypeOK, NetType, StepInv, GotInv, Size
  <2> QED
    BY <2>1, <2>2 DEF Peer
<1>2. ASSUME Viewer
      PROVE  Peer \/ UNCHANGED vars
  BY <1>1, <1>2 DEF Viewer, ViewerConnect, ViewerTimeout, ViewerCheckHeader,
     ViewerShow, Leave, Peer
<1>3. \/ Main \/ WifiUp \/ Camera
      \/ Driver
      \/ Network
      \/ Peer \/ ResetArrives
      \/ UNCHANGED vars
  BY <1>2 DEF NextV, Node, PathLost, Peer, allVars
<1>4. TypeInv'
  BY <1>3, CameraType, DriverStepType, NetworkType, PeerType, StutterType
     DEF NodeInv
<1>5. WarmInv'
  BY <1>3, CameraWarm, NetworkWarm, OtherWarm DEF NodeInv
<1> QED
  BY <1>4, <1>5 DEF NodeInv

LEMMA NextStep ==
  ASSUME WholeHeader, NodeInv, StepInv, [NextV]_allVars
  PROVE  NodeInv' /\ StepInv'
<1>1. NodeInv' /\ WarmInv'
  BY NodeStep DEF NodeInv
<1>2. CASE Main \/ WifiUp \/ Camera \/ Driver
  <2>1. CASE UNCHANGED viewVars
    BY <1>1, <1>2, <2>1, QuietStep
  <2>2. CASE Viewer
    BY <1>1, <2>2, ViewerStep
  <2>3. CASE ResetArrives /\ UNCHANGED viewVars
    BY <1>1, <2>3, LinkLost
  <2>4. CASE PathLost
    BY <1>1, <2>4, LinkLost DEF PathLost
  <2>5. CASE UNCHANGED allVars
    BY <1>1, <1>2, <2>5, QuietStep DEF allVars
  <2> QED
    BY <2>1, <2>2, <2>3, <2>4, <2>5 DEF NextV
<1>3. CASE Network /\ UNCHANGED viewVars
  BY <1>1, <1>3, NetworkQuiet, AcceptStep, SendReadyStep, SendStep, LinkLost
     DEF Network, Serving
<1>4. CASE ResetArrives /\ UNCHANGED viewVars
  BY <1>1, <1>4, LinkLost
<1>5. CASE PathLost
  BY <1>1, <1>5, LinkLost DEF PathLost
<1>6. CASE Viewer
  BY <1>1, <1>6, ViewerStep
<1>7. CASE UNCHANGED allVars
  <2>1. UNCHANGED <<vars, view, got>>
    BY <1>7 DEF allVars, viewVars
  <2>2. LinkInv' /\ LenInv'
    BY <2>1 DEF StepInv, LinkInv, LenInv, Sound, vars, linkVars, frameVars, argVars
  <2>3. GotInv'
    BY <2>1, GotSame DEF StepInv, vars, linkVars
  <2>4. Due' = Due /\ (Base + Len(got))' = Base + Len(got)
    BY <2>1 DEF Due, Base, vars, argVars
  <2>5. StreamInv'
    BY <2>1, <2>4, StreamSame DEF StepInv, vars, linkVars
  <2> QED
    BY <2>2, <2>3, <2>5, <1>1 DEF StepInv
<1> QED
  BY <1>1, <1>2, <1>3, <1>4, <1>5, <1>6, <1>7 DEF NextV, Node

-------------------------------------------------------------------------------
(* The theorems.                                                             *)

\* What the places of the received bytes say of their kinds.
LEMMA PlacesInStep ==
  ASSUME StepInv, warm_start, view # "off", NEW i \in DOMAIN got
  PROVE  /\ got[i].at = i
         /\ got[i].kind = IF view = "ready" THEN "ready" ELSE "pixel"
<1>1. /\ got \in Seq(Byte) /\ Len(got) <= Size /\ Sound(got[i])
      /\ Pos(got[i]) = Base + i /\ view \in {"ready", "frame"}
  BY DEF StepInv, GotInv
<1>2. i \in 1 .. Len(got) /\ Len(got) \in Nat
  BY <1>1
<1>3. /\ got[i].kind \in {"ready", "pixel"} /\ got[i].at \in Nat
      /\ got[i].kind = "ready" => got[i].at \in 1 .. ReadyLen
      /\ got[i].kind # "ready" => got[i].at \in 1 .. FrameLen
  BY <1>1 DEF Sound, Byte
<1>4. CASE view = "ready"
  BY <1>1, <1>2, <1>3, <1>4, SizesAssumption DEF Pos, Base, Size
<1>5. CASE view = "frame"
  BY <1>1, <1>2, <1>3, <1>5, SizesAssumption DEF Pos, Base, Size
<1> QED
  BY <1>1, <1>4, <1>5

\* If the TCP stack takes the header whole, a viewer of a warm connection is never
\* out of step with the node: a complete header or frame is what it takes it for,
\* whatever is cut, lost, closed and opened again.
THEOREM StreamInStep ==
  ASSUME WholeHeader
  PROVE  SafeSpec => []WarmStreamInStep
<1>1. NodeInv /\ StepInv => WarmStreamInStep
  BY PlacesInStep DEF WarmStreamInStep, InStep
<1> QED
  BY InitStep, NextStep, <1>1, PTL DEF SafeSpec

\* The places of the bytes received on a warm connection are those of the channel.
PlacesInv ==
  Part # "none" =>
    /\ Part = view /\ Part \in {"ready", "frame"}
    /\ Len(got) \in Nat /\ Len(got) <= Channel!Length(Part)
    /\ Channel!Length(Part) = Size
    /\ PlacesOfPart = [i \in 1 .. Len(got) |-> <<Part, i>>]
    /\ Len(PlacesOfPart) = Len(got)

LEMMA Places == StepInv => PlacesInv
<1> SUFFICES ASSUME StepInv, Part # "none"
             PROVE  /\ Part = view /\ Part \in {"ready", "frame"}
                    /\ Len(got) \in Nat /\ Len(got) <= Channel!Length(Part)
                    /\ Channel!Length(Part) = Size
                    /\ PlacesOfPart = [i \in 1 .. Len(got) |-> <<Part, i>>]
                    /\ Len(PlacesOfPart) = Len(got)
  BY DEF PlacesInv
<1>1. warm_start /\ view # "off" /\ Part = view /\ view \in {"ready", "frame"}
  BY DEF Part, StepInv, GotInv
<1>2. got \in Seq(Byte) /\ Len(got) <= Size /\ DOMAIN got = 1 .. Len(got)
  BY DEF StepInv, GotInv
<1>3. Channel!Length(Part) = Size
  BY <1>1 DEF Channel!Length, Size
<1>4. \A i \in DOMAIN got : Place(got[i]) = <<Part, i>>
  BY <1>1, PlacesInStep DEF Place
<1>5. PlacesOfPart = [i \in 1 .. Len(got) |-> <<Part, i>>]
  BY <1>2, <1>4 DEF PlacesOfPart
<1> QED
  BY <1>1, <1>2, <1>3, <1>5

LEMMA PlacesNext == StepInv' => PlacesInv'
BY Places, PTL

LEMMA StepImplements ==
  ASSUME NodeInv, StepInv, StepInv', [NextV]_allVars
  PROVE  [Channel!Next]_(Channel!vars)
<1>1. CASE Part' = "none"
  BY <1>1 DEF PlacesOfPart, Channel!Next, Channel!Close
<1>2. CASE Part' # "none" /\ UNCHANGED <<view, got, warm_start>>
  BY <1>2 DEF Part, PlacesOfPart, Place, Channel!vars
<1>3. CASE Part' # "none" /\ NetAccept /\ UNCHANGED viewVars
  <2>1. view = "ready" /\ got = <<>> /\ view' = "ready" /\ got' = <<>>
    BY <1>3 DEF NetAccept, viewVars, Part, StepInv, LinkInv, NodeInv, TypeInv,
       TypeOK, NetType
  <2>2. PlacesOfPart = <<>> /\ PlacesOfPart' = <<>> /\ Part' = "ready"
    BY <1>3, <2>1 DEF PlacesOfPart, Part
  <2>3. Part \in {"none", "ready"}
    BY <2>1 DEF Part
  <2> QED
    BY <2>2, <2>3 DEF Channel!Next, Channel!Open, Channel!vars
<1>4. CASE Part' # "none" /\ ViewerConnect
  <2>1. Part = "none" /\ Part' = "ready" /\ got' = <<>>
    BY <1>4 DEF ViewerConnect, PeerConnects, Part
  <2>2. PlacesOfPart' = <<>>
    BY <2>1 DEF PlacesOfPart
  <2> QED
    BY <2>1, <2>2 DEF Channel!Next, Channel!Open
<1>5. CASE Part' # "none" /\ ViewerReceive
  <2>1. UNCHANGED <<view, warm_start>>
    BY <1>5 DEF ViewerReceive, PeerReceives
  <2>2. Part' = Part /\ Part # "none"
    BY <1>5, <2>1 DEF Part
  <2>3. PICK k \in 1 .. Size - Len(got) :
               PeerReceives(k) /\ got' = got \o SubSeq(wire, 1, k)
    BY <1>5 DEF ViewerReceive
  <2>4. Len(got') = Len(got) + k /\ k \in Nat \ {0}
    <3>1. got \in Seq(Byte) /\ wire \in Seq(Byte) /\ Size \in Nat
      BY SizesAssumption DEF NodeInv, TypeInv, TypeOK, NetType, StepInv, GotInv, Size
    <3>2. k \in Nat \ {0} /\ k <= Len(wire)
      BY <2>3, <3>1 DEF PeerReceives
    <3>3. Len(SubSeq(wire, 1, k)) = k /\ SubSeq(wire, 1, k) \in Seq(Byte)
      BY <3>1, <3>2
    <3> QED
      BY <2>3, <3>1, <3>2, <3>3
  <2>5. /\ PlacesOfPart' = [i \in 1 .. Len(got') |-> <<Part, i>>]
        /\ Len(got') <= Channel!Length(Part)
    BY <2>2, PlacesNext DEF PlacesInv, Channel!Length
  <2>6. Len(PlacesOfPart) = Len(got) /\ Len(got) \in Nat /\ Channel!Length(Part) \in Nat
    BY <2>2, Places, SizesAssumption DEF PlacesInv, Channel!Length
  <2>7. Len(got') \in Len(PlacesOfPart) + 1 .. Channel!Length(Part)
    BY <2>4, <2>5, <2>6
  <2>8. Channel!Receive
    BY <2>2, <2>5, <2>7 DEF Channel!Receive
  <2> QED
    BY <2>8 DEF Channel!Next
<1>6. CASE /\ Part' # "none" /\ UNCHANGED vars /\ view # "off" /\ Len(got) = Size
           /\ view' = IF view = "ready" THEN "frame" ELSE "ready"
           /\ got' = <<>>
  <2>1. Part = view /\ Part' = view' /\ Part # "none"
    BY <1>6 DEF Part, vars, linkVars, StepInv, GotInv
  <2>2. Len(PlacesOfPart) = Channel!Length(Part)
    BY <1>6, <2>1, Places DEF PlacesInv
  <2>3. PlacesOfPart' = <<>>
    BY <1>6 DEF PlacesOfPart
  <2> QED
    BY <1>6, <2>1, <2>2, <2>3 DEF Channel!Next, Channel!Turn
<1>7. CASE Part' # "none" /\ Leave
  BY <1>7 DEF Leave, Part
<1>8. CASE Part' # "none" /\ Viewer
  BY <1>4, <1>5, <1>6, <1>7, <1>8
     DEF Viewer, ViewerTimeout, ViewerCheckHeader, ViewerShow, Size
<1>9. CASE Part' # "none" /\ UNCHANGED viewVars /\ ~NetAccept /\ (Node \/ Peer \/ ResetArrives)
  <2>1. warm_start' = warm_start
    BY <1>9 DEF Node, Main, WifiUp, Camera, CamSetup, CamCheck, CamDequeue,
       CamDequeueTimeout, CamRequeue, Driver, DriverStart, DriverFill, DriverDone,
       Network, Serving, NetSetup, NetAcceptFails, NetReadArgs, NetSendReady, NetSend,
       NetFault, NetSendFails, NetRaise, Peer, PeerConnects, PeerReceives,
       PeerAborts, PeerCloses, ResetArrives, linkVars
  <2> QED
    BY <1>2, <1>9, <2>1 DEF viewVars
<1> QED
  BY <1>1, <1>2, <1>3, <1>8, <1>9
     DEF NextV, PathLost, Peer, allVars, viewVars, vars, linkVars

\* If the TCP stack takes the header whole, node, network and viewer implement the
\* abstract channel, for every pool of buffers, every length of header and frame
\* and every window.
THEOREM ChannelImplemented ==
  ASSUME WholeHeader
  PROVE  SafeSpec => ImplementsChannel
<1>1. InitV => Channel!Init
  BY DEF InitV, Init, Channel!Init, Part, PlacesOfPart
<1>2. NodeInv /\ StepInv /\ StepInv' /\ [NextV]_allVars
        => [Channel!Next]_(Channel!vars)
  BY StepImplements
<1> QED
  BY InitStep, NextStep, <1>1, <1>2, PTL DEF SafeSpec, ImplementsChannel, Channel!Spec

-------------------------------------------------------------------------------
(* The camera node with its viewer, however the header is sent.              *)

\* recv_exact has asked for what is missing and no more.
HeldInv ==
  /\ view \in {"off", "ready", "frame"}
  /\ got \in Seq(Byte) /\ Len(got) <= Size

LEMMA HeldSizes ==
  ASSUME HeldInv
  PROVE  Len(got) \in Nat /\ Size \in Nat
BY SizesAssumption DEF HeldInv, Size

\* What the viewer receives stays within what it asked for, and is a step of the
\* peer that CameraNode knows.
LEMMA HeldReceive ==
  ASSUME TypeInv, HeldInv, ViewerReceive
  PROVE  HeldInv' /\ Peer
<1>1. PICK k \in 1 .. Size - Len(got) :
             PeerReceives(k) /\ got' = got \o SubSeq(wire, 1, k) /\ view' = view
  BY DEF ViewerReceive
<1>2. /\ got \in Seq(Byte) /\ wire \in Seq(Byte) /\ Len(wire) <= Window
      /\ Size \in Nat /\ Window \in Nat /\ Len(got) \in Nat
  BY HeldSizes, SizesAssumption DEF HeldInv, TypeInv, TypeOK, NetType
<1>3. k \in 1 .. Len(wire) /\ k \in 1 .. Window
  BY <1>1, <1>2 DEF PeerReceives
<1>4. SubSeq(wire, 1, k) \in Seq(Byte) /\ Len(SubSeq(wire, 1, k)) = k
  BY <1>2, <1>3
<1>5. got' \in Seq(Byte) /\ Len(got') = Len(got) + k
  BY <1>1, <1>2, <1>4
<1>6. Len(got') <= Size'
  BY <1>1, <1>2, <1>5 DEF Size
<1> QED
  BY <1>1, <1>3, <1>5, <1>6 DEF HeldInv, Peer

\* Whoever leaves, connects or turns to the next part holds nothing.
LEMMA HeldOther ==
  ASSUME HeldInv,
         \/ UNCHANGED viewVars
         \/ ViewerConnect \/ ViewerTimeout \/ ViewerCheckHeader \/ ViewerShow
  PROVE  HeldInv'
<1>1. \/ UNCHANGED <<view, got>>
      \/ got' = <<>> /\ view' \in {"off", "ready", "frame"}
  BY DEF viewVars, ViewerConnect, ViewerTimeout, ViewerCheckHeader, ViewerShow, Leave
<1>2. CASE UNCHANGED <<view, got>>
  BY <1>2 DEF HeldInv, Size
<1>3. CASE got' = <<>> /\ view' \in {"off", "ready", "frame"}
  <2>1. got' \in Seq(Byte) /\ Len(got') = 0
    BY <1>3
  <2>2. Size' \in Nat
    BY SizesAssumption DEF Size
  <2> QED
    BY <1>3, <2>1, <2>2 DEF HeldInv
<1> QED
  BY <1>1, <1>2, <1>3

\* A step of the composition is one of CameraNode or leaves its variables alone.
LEMMA StepOfNode ==
  ASSUME TypeInv, HeldInv, [NextV]_allVars
  PROVE  HeldInv' /\ [Next]_vars
<1>1. CASE Viewer
  <2>1. CASE ViewerReceive
    BY <2>1, HeldReceive DEF Next
  <2>2. CASE ViewerConnect \/ ViewerTimeout \/ ViewerCheckHeader \/ ViewerShow
    <3>1. HeldInv'
      BY <2>2, HeldOther
    <3>2. Peer \/ UNCHANGED vars
      BY <2>2 DEF ViewerConnect, ViewerTimeout, ViewerCheckHeader, ViewerShow,
         Leave, Peer
    <3> QED
      BY <3>1, <3>2 DEF Next
  <2> QED
    BY <1>1, <2>1, <2>2 DEF Viewer
<1>2. CASE (Node \/ ResetArrives) /\ UNCHANGED viewVars
  BY <1>2, HeldOther DEF Next
<1>3. CASE PathLost
  BY <1>3, HeldOther DEF PathLost, Next, Peer
<1>4. CASE UNCHANGED allVars
  BY <1>4, HeldOther DEF allVars
<1> QED
  BY <1>1, <1>2, <1>3, <1>4 DEF NextV

LEMMA HeldStep ==
  ASSUME TypeInv, HeldInv, [NextV]_allVars
  PROVE  TypeInv' /\ HeldInv' /\ [Next]_vars
<1>1. HeldInv' /\ [Next]_vars
  BY StepOfNode
<1>2. TypeInv'
  BY <1>1, CameraType, DriverStepType, NetworkType, PeerType, StutterType
     DEF Next, Node
<1> QED
  BY <1>1, <1>2

LEMMA HeldInit == InitV => Init /\ TypeInv /\ HeldInv
<1> SUFFICES ASSUME InitV PROVE Init /\ TypeInv /\ HeldInv
  OBVIOUS
<1>1. Init /\ view = "off" /\ got = <<>>
  BY DEF InitV
<1>2. TypeInv
  BY <1>1, InitType
<1>3. got \in Seq(Byte) /\ Len(got) = 0 /\ Size \in Nat
  BY <1>1, SizesAssumption DEF Size
<1> QED
  BY <1>1, <1>2, <1>3 DEF HeldInv

\* imagesocket.py is a client that CameraNode's specification allows: sent bytes
\* reach it, it leaves and it comes back as any peer of the node might.
THEOREM NodeWithin == SafeSpec => Spec
  BY HeldInit, HeldStep, PTL DEF SafeSpec, Spec

\* So what is proved of the node alone holds while the viewer runs: no warm client
\* brings it down, no buffer is lost, and a frame is published only on request.
THEOREM NodeKeeps ==
  SafeSpec => /\ [](WarmStartNeverFaults /\ BuffersOwnedOnce)
              /\ PublishedOnRequest
  BY NodeWithin, WarmNeverFaults, BuffersKept, OneFramePerRequest, PTL

\* recv_exact never holds more than it asked for, and only bytes that were sent,
\* however the header and the frame are cut and whenever the client connected.
THEOREM ViewTypeCorrect == SafeSpec => []ViewTypeOK
<1>1. TypeInv /\ HeldInv => ViewTypeOK
  <2> SUFFICES ASSUME TypeInv, HeldInv PROVE ViewTypeOK
    OBVIOUS
  <2>1. \A i \in DOMAIN got : got[i] \in Byte
    BY DEF HeldInv
  <2> QED
    BY <2>1 DEF TypeInv, HeldInv, ViewTypeOK
<1> QED
  BY HeldInit, HeldStep, <1>1, PTL DEF SafeSpec
===============================================================================
