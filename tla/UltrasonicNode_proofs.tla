------------------------- MODULE UltrasonicNode_proofs -------------------------
(***************************************************************************)
(* For every width of the cycle counter that exceeds the timeouts, every   *)
(* delay and every echo: main polls for a bounded time and prints the      *)
(* distance of the echo just measured; no socket is left behind.           *)
(***************************************************************************)
EXTENDS UltrasonicNode, TLAPS

Since(t) == Elapsed(t, now)

\* How long main has polled, from where it is in its loops and the time it
\* measures itself.
ClockInv ==
  /\ pc = "begin"     => age <= lag
  /\ pc = "waitread"  => age <= EchoTimeout + lag /\ Since(echo_start_time) = age
  /\ pc = "waitcheck" => /\ age <= EchoTimeout + Lag + lag
                         /\ Since(echo_start_time) = age
  /\ pc = "rise"      => age <= EchoTimeout + Lag + lag
  /\ pc = "read"      => /\ Since(start_time) <= MaxRange + lag
                         /\ age <= Since(start_time) + EchoTimeout + 2 * Lag
  /\ pc = "stamp"     => /\ Since(start_time) <= MaxRange + Lag + lag
                         /\ age <= Since(start_time) + EchoTimeout + 2 * Lag
  /\ pc = "report"    => age <= MaxRange + EchoTimeout + 3 * Lag + lag

Near(d) == d - Lag <= width /\ width <= d + 4 * Lag

\* What the echo pin has done, from where main is: before Rise the echo is to come
\* or has just come; after it, its width is what main measures, but for delays.
EchoInv ==
  /\ pc \in {"setup", "trigger"} => ~armed /\ ~echo
  /\ echo => ~armed
  /\ pc = "begin"     => armed \/ (echo /\ width <= lag)
  /\ pc = "waitread"  => armed \/ (echo /\ width <= Lag + lag)
  /\ pc = "waitcheck" => armed \/ (echo /\ width <= lag)
  /\ pc = "rise"      => echo /\ width <= 2 * Lag + lag
  /\ pc \in {"read", "stamp", "report"} => ~armed
  /\ pc = "read" =>
       \/ /\ echo /\ Since(start_time) = lag
          /\ lag <= width /\ width <= 3 * Lag + lag
       \/ /\ Elapsed(start_time, stop_time) + lag = Since(start_time)
          /\ width <= Since(start_time) + 3 * Lag
          /\ echo => Since(start_time) <= width
          /\ Elapsed(start_time, stop_time) - Lag <= width
  /\ pc = "stamp" =>
       /\ width <= Since(start_time) + 3 * Lag
       /\ echo => Since(start_time) <= width
       /\ Since(start_time) - lag <= width
  /\ pc = "report" => ~echo /\ Near(Elapsed(start_time, stop_time))
  /\ distance # -1 => /\ pc \in {"sleep", "trigger"}
                      /\ ~armed /\ ~echo
                      /\ Near(distance)

Inv == /\ TypeOK /\ ClockInv /\ NoSocketLeft
       /\ 4 * Lag < MinEcho => EchoInv

\* As long as less than a whole turn of the counter has passed, a tick adds one.
LEMMA Advance ==
  ASSUME NEW t \in 0 .. Wrap - 1, NEW n \in 0 .. Wrap - 1, Elapsed(t, n) + 1 < Wrap
  PROVE  Elapsed(t, IF n = Wrap - 1 THEN 0 ELSE n + 1) = Elapsed(t, n) + 1
BY TimesAssumption DEF Elapsed

LEMMA ElapsedType ==
  ASSUME NEW a \in 0 .. Wrap - 1, NEW b \in 0 .. Wrap - 1
  PROVE  Elapsed(a, b) \in 0 .. Wrap - 1 /\ Elapsed(a, a) = 0
BY TimesAssumption DEF Elapsed

LEMMA InitInv == Init => Inv
<1> SUFFICES ASSUME Init PROVE Inv
  OBVIOUS
<1>1. TypeOK
  <2>1. pc \in PCs
    BY DEF Init, PCs
  <2>2. /\ {now, echo_start_time, start_time, stop_time} \subseteq 0 .. Wrap - 1
        /\ lag \in 0 .. Lag /\ age \in Nat /\ distance \in -1 .. Wrap - 1
        /\ width \in 0 .. MaxEcho
    BY TimesAssumption DEF Init
  <2>3. /\ armed \in BOOLEAN /\ echo \in BOOLEAN /\ open \in BOOLEAN
        /\ wifi \in {"off", "asked", "up", "down"} /\ cb \in {"idle", "connect", "recv"}
        /\ sock \in {-1, 0}
    BY Zenon DEF Init
  <2> QED
    BY <2>1, <2>2, <2>3 DEF TypeOK
<1>2. ClockInv /\ NoSocketLeft /\ EchoInv
  BY DEF Init, ClockInv, NoSocketLeft, EchoInv
<1> QED
  BY <1>1, <1>2 DEF Inv

\* The steps of the sensor and of main leave the event thread's variables alone,
\* and the other way round.
LEMMA TypeStep == TypeOK /\ [Next]_vars => TypeOK'
<1> SUFFICES ASSUME TypeOK, [Next]_vars PROVE TypeOK'
  OBVIOUS
<1>0. /\ pc \in PCs
      /\ now \in 0 .. Wrap - 1 /\ echo_start_time \in 0 .. Wrap - 1
      /\ start_time \in 0 .. Wrap - 1 /\ stop_time \in 0 .. Wrap - 1
      /\ lag \in 0 .. Lag /\ age \in Nat
      /\ distance \in -1 .. Wrap - 1 /\ width \in 0 .. MaxEcho
  BY Zenon DEF TypeOK
<1>1. /\ armed \in BOOLEAN /\ echo \in BOOLEAN
      /\ wifi \in {"off", "asked", "up", "down"} /\ cb \in {"idle", "connect", "recv"}
      /\ sock \in {-1, 0} /\ open \in BOOLEAN
  BY Zenon DEF TypeOK
<1>2. pc' \in PCs
  BY <1>0 DEF Next, Main, Sensor, Wifi, Setup, Trigger, BeginWait, WaitRead, WaitCheck,
     Rise, Read, Stamp, Report, Wake, PinRises, PinFalls, Tick, ConnectResult, Connect,
     RecvReturns, Disconnect, Goto, PCs, Polling, vars, mainVars
<1>3. echo_start_time' \in 0 .. Wrap - 1 /\ start_time' \in 0 .. Wrap - 1
      /\ stop_time' \in 0 .. Wrap - 1
  BY <1>0 DEF Next, Main, Sensor, Wifi, Setup, Trigger, BeginWait, WaitRead, WaitCheck,
     Rise, StampStart, Read, Stamp, Report, Wake, PinRises, PinFalls, Tick,
     ConnectResult, Connect, RecvReturns, Disconnect, vars, mainVars
<1>4. distance' \in -1 .. Wrap - 1
  <2>1. Elapsed(start_time, stop_time) \in 0 .. Wrap - 1
    BY <1>0, ElapsedType
  <2> QED
    BY <1>0, <2>1, TimesAssumption DEF Next, Main, Sensor, Wifi, Setup, Trigger,
       BeginWait, WaitRead, WaitCheck, Rise, Read, Stamp, Report, Wake, PinRises,
       PinFalls, Tick, ConnectResult, Connect, RecvReturns, Disconnect, vars, mainVars
<1>5. lag' \in 0 .. Lag /\ age' \in Nat /\ now' \in 0 .. Wrap - 1
  BY <1>0, TimesAssumption DEF Next, Main, Sensor, Wifi, Setup, Trigger, BeginWait,
     WaitRead, WaitCheck, Rise, Read, Stamp, Report, Wake, PinRises, PinFalls, Tick,
     ConnectResult, Connect, RecvReturns, Disconnect, Goto, vars, timeVars
<1>6. width' \in 0 .. MaxEcho
  BY <1>0, TimesAssumption DEF Next, Main, Sensor, Wifi, Setup, Trigger, BeginWait,
     WaitRead, WaitCheck, Rise, Read, Stamp, Report, Wake, PinRises, PinFalls, Tick,
     ConnectResult, Connect, RecvReturns, Disconnect, vars, sensorVars
<1>7. armed' \in BOOLEAN /\ echo' \in BOOLEAN
  BY <1>1, Zenon DEF Next, Main, Sensor, Wifi, Setup, Trigger, BeginWait,
     WaitRead, WaitCheck, Rise, Read, Stamp, Report, Wake, PinRises, PinFalls, Tick,
     ConnectResult, Connect, RecvReturns, Disconnect, vars, sensorVars
<1>8. /\ wifi' \in {"off", "asked", "up", "down"} /\ cb' \in {"idle", "connect", "recv"}
      /\ sock' \in {-1, 0} /\ open' \in BOOLEAN
  BY <1>1 DEF Next, Main, Sensor, Wifi, Setup, Trigger, BeginWait,
     WaitRead, WaitCheck, Rise, Read, Stamp, Report, Wake, PinRises, PinFalls, Tick,
     ConnectResult, Connect, RecvReturns, Disconnect, DropSocket, Goto, vars, wifiVars
<1> QED
  BY <1>2, <1>3, <1>4, <1>5, <1>6, <1>7, <1>8 DEF TypeOK

\* What the steps below take from the type invariant.
LEMMA Numbers ==
  ASSUME TypeOK
  PROVE  /\ pc \in PCs
         /\ now \in 0 .. Wrap - 1 /\ echo_start_time \in 0 .. Wrap - 1
         /\ start_time \in 0 .. Wrap - 1 /\ stop_time \in 0 .. Wrap - 1
         /\ lag \in 0 .. Lag /\ age \in Nat
         /\ distance \in -1 .. Wrap - 1 /\ width \in 0 .. MaxEcho
BY Zenon DEF TypeOK

\* A tick while main polls.
LEMMA TickTimes ==
  ASSUME TypeOK, ClockInv, Tick
  PROVE  /\ pc \in {"waitread", "waitcheck"} =>
              Since(echo_start_time)' = Since(echo_start_time) + 1
         /\ pc \in {"read", "stamp"} => Since(start_time)' = Since(start_time) + 1
<1>1. now' = IF now = Wrap - 1 THEN 0 ELSE now + 1
  BY DEF Tick
<1>2. echo_start_time' = echo_start_time /\ start_time' = start_time
  BY DEF Tick, mainVars
<1>3. pc \in Polling => lag < Lag
  BY DEF Tick
<1>4. CASE pc \in {"waitread", "waitcheck"}
  <2>1. Since(echo_start_time) + 1 < Wrap
    BY <1>3, <1>4, Numbers, TimesAssumption DEF ClockInv, Polling
  <2> QED
    BY <1>1, <1>2, <1>4, <2>1, Numbers, Advance DEF Since
<1>5. CASE pc \in {"read", "stamp"}
  <2>0. Since(start_time) \in Nat /\ lag \in Nat /\ lag < Lag
    BY <1>3, <1>5, Numbers, ElapsedType DEF Polling, Since
  <2>1. Since(start_time) + 1 < Wrap
    BY <1>5, <2>0, TimesAssumption DEF ClockInv
  <2> QED
    BY <1>1, <1>2, <1>5, <2>1, Numbers, Advance DEF Since
<1> QED
  BY <1>4, <1>5

\* The steps of main keep time.
LEMMA ClockStep == TypeOK /\ ClockInv /\ [Next]_vars => ClockInv'
<1> SUFFICES ASSUME TypeOK, ClockInv, [Next]_vars PROVE ClockInv'
  OBVIOUS
<1>0. /\ Since(echo_start_time) \in Nat /\ Since(start_time) \in Nat
      /\ Elapsed(now, now) = 0
      /\ EchoTimeout \in Nat /\ MaxRange \in Nat /\ Lag \in Nat
  BY Numbers, ElapsedType, TimesAssumption DEF Since
<1>1. CASE Setup \/ Trigger \/ Report \/ Wake
  BY <1>1, <1>0 DEF Setup, Trigger, Report, Wake, Goto, ClockInv
<1>2. CASE BeginWait
  BY <1>2, <1>0 DEF BeginWait, Goto, ClockInv, Since
<1>3. CASE WaitRead
  BY <1>3, <1>0, Numbers DEF WaitRead, Goto, ClockInv, Since
<1>4. CASE WaitCheck
  BY <1>4, <1>0, Numbers DEF WaitCheck, Goto, ClockInv, Since
<1>5. CASE Rise
  BY <1>5, <1>0, Numbers DEF Rise, StampStart, Goto, ClockInv, Since
<1>6. CASE Read
  BY <1>6, <1>0, Numbers DEF Read, Goto, ClockInv, Since
<1>7. CASE Stamp
  BY <1>7, <1>0, Numbers DEF Stamp, Goto, ClockInv, Since
<1>8. CASE Tick
  <2>1. pc' = pc
    BY <1>8 DEF Tick, mainVars
  <2>2. pc \in Polling => lag' = lag + 1 /\ age' = age + 1
    BY <1>8 DEF Tick
  <2> QED
    BY <1>0, <1>8, <2>1, <2>2, Numbers, TickTimes DEF ClockInv, Polling
<1>9. CASE PinRises \/ PinFalls \/ Wifi \/ UNCHANGED vars
  <2>1. UNCHANGED <<mainVars, timeVars>>
    BY <1>9, Zenon DEF PinRises, PinFalls, Wifi, ConnectResult, Connect, RecvReturns,
       Disconnect, vars
  <2> QED
    BY <2>1 DEF ClockInv, Since, mainVars, timeVars
<1> QED
  BY <1>1, <1>2, <1>3, <1>4, <1>5, <1>6, <1>7, <1>8, <1>9 DEF Next, Main, Sensor

\* The echo main measures is the one the sensor sends.
LEMMA EchoStep ==
  TypeOK /\ ClockInv /\ EchoInv /\ 4 * Lag < MinEcho /\ [Next]_vars => EchoInv'
<1> SUFFICES ASSUME TypeOK, ClockInv, EchoInv, 4 * Lag < MinEcho, [Next]_vars
             PROVE EchoInv'
  OBVIOUS
<1>0. /\ Since(start_time) \in Nat /\ Elapsed(now, now) = 0
      /\ Elapsed(start_time, stop_time) \in Nat
      /\ Lag \in Nat /\ MinEcho \in Nat /\ MaxEcho \in Nat
  BY Numbers, ElapsedType, TimesAssumption DEF Since
<1>1. CASE Setup \/ Trigger \/ BeginWait \/ Wake
  BY <1>1, <1>0, Numbers DEF Setup, Trigger, BeginWait, Wake, Goto, EchoInv, sensorVars,
     Near, Since
<1>2. CASE WaitRead
  BY <1>2, <1>0, Numbers DEF WaitRead, Goto, EchoInv, sensorVars, Near, Since
<1>3. CASE WaitCheck
  BY <1>3, <1>0, Numbers DEF WaitCheck, Goto, EchoInv, sensorVars, Near, Since
<1>4. CASE Rise
  BY <1>4, <1>0, Numbers DEF Rise, StampStart, Goto, EchoInv, sensorVars, Near, Since
<1>5. CASE Read
  BY <1>5, <1>0, Numbers DEF Read, Goto, EchoInv, sensorVars, Near, Since
<1>6. CASE Stamp
  BY <1>6, <1>0, Numbers DEF Stamp, Goto, EchoInv, sensorVars, Near, Since
<1>7. CASE Report
  BY <1>7, <1>0, Numbers DEF Report, Goto, EchoInv, sensorVars, Near, Since
<1>8. CASE Tick
  <2>1. UNCHANGED <<pc, echo_start_time, start_time, stop_time, distance, armed, echo>>
    BY <1>8 DEF Tick, mainVars
  <2>2. /\ pc \in Polling => lag' = lag + 1
        /\ width' = IF echo THEN width + 1 ELSE width
    BY <1>8 DEF Tick
  <2>3. pc \in {"read", "stamp"} => Since(start_time)' = Since(start_time) + 1
    BY <1>8, TickTimes
  <2>4. Elapsed(start_time, stop_time)' = Elapsed(start_time, stop_time)
    BY <2>1
  <2>5. CASE pc \in {"setup", "trigger", "begin", "waitread", "waitcheck", "rise"}
    BY <1>0, <2>1, <2>2, <2>5, Numbers DEF EchoInv, Polling, Near
  <2>6. CASE pc = "read"
    BY <1>0, <2>1, <2>2, <2>3, <2>4, <2>6, Numbers DEF EchoInv, Polling, Near
  <2>7. CASE pc = "stamp"
    BY <1>0, <2>1, <2>2, <2>3, <2>4, <2>7, Numbers DEF EchoInv, Polling, Near
  <2>8. CASE pc \in {"report", "sleep", "ended"}
    BY <1>0, <2>1, <2>2, <2>4, <2>8, Numbers DEF EchoInv, Near
  <2> QED
    BY <2>5, <2>6, <2>7, <2>8, Numbers DEF PCs, Polling
<1>9. CASE PinRises
  BY <1>9, <1>0, Numbers DEF PinRises, EchoInv, mainVars, timeVars, Near, Since
<1>10. CASE PinFalls
  BY <1>10, <1>0, Numbers DEF PinFalls, EchoInv, mainVars, timeVars, Near, Since
<1>11. CASE Wifi \/ UNCHANGED vars
  <2>1. UNCHANGED <<mainVars, timeVars, sensorVars>>
    BY <1>11, Zenon DEF Wifi, ConnectResult, Connect, RecvReturns, Disconnect, vars
  <2> QED
    BY <2>1 DEF EchoInv, Near, Since, mainVars, timeVars, sensorVars
<1> QED
  BY <1>1, <1>2, <1>3, <1>4, <1>5, <1>6, <1>7, <1>8, <1>9, <1>10, <1>11
     DEF Next, Main, Sensor

\* connect_to_server leaves only with its socket closed.
LEMMA SocketStep == NoSocketLeft /\ [Next]_vars => NoSocketLeft'
<1> SUFFICES ASSUME NoSocketLeft, [Next]_vars PROVE NoSocketLeft'
  OBVIOUS
<1>1. CASE Wifi
  BY <1>1 DEF Wifi, ConnectResult, Connect, RecvReturns, Disconnect, DropSocket,
     NoSocketLeft
<1>2. CASE Main \/ Sensor \/ UNCHANGED vars
  <2>1. UNCHANGED <<cb, open>>
    BY <1>2, Zenon DEF Main, Sensor, Setup, Trigger, BeginWait, WaitRead, WaitCheck,
       Rise, Read, Stamp, Report, Wake, PinRises, PinFalls, Tick, Goto, wifiVars, vars
  <2> QED
    BY <2>1 DEF NoSocketLeft
<1> QED
  BY <1>1, <1>2 DEF Next

LEMMA InvHolds == Spec => []Inv
<1>1. Inv /\ [Next]_vars => Inv'
  BY TypeStep, ClockStep, EchoStep, SocketStep DEF Inv
<1> QED
  BY InitInv, <1>1, PTL DEF Spec

\* Every variable of the ultrasonic node keeps its type: in particular, no
\* difference of two readings of the counter is negative.
THEOREM TypeCorrect == Spec => []TypeOK
<1>1. Inv => TypeOK
  BY DEF Inv
<1> QED
  BY InvHolds, <1>1, PTL

\* main never polls the pin for longer than the two timeouts and the delays of
\* four steps.
THEOREM PollingEnds == Spec => []PollingBounded
<1>1. ASSUME TypeOK, ClockInv PROVE PollingBounded
  <2>1. /\ Since(start_time) \in Nat /\ age \in Nat /\ lag \in 0 .. Lag
        /\ EchoTimeout \in Nat /\ MaxRange \in Nat /\ Lag \in Nat
    BY <1>1, Numbers, ElapsedType, TimesAssumption DEF Since
  <2> QED
    BY <1>1, <2>1 DEF ClockInv, PollingBounded, Polling
<1>2. Inv => PollingBounded
  BY <1>1 DEF Inv
<1> QED
  BY InvHolds, <1>2, PTL

\* A printed distance is that of the echo just measured.
THEOREM DistanceAccurate == Spec => []Accurate
<1>1. Inv => Accurate
  BY Numbers, TimesAssumption DEF Inv, EchoInv, Near, Accurate
<1> QED
  BY InvHolds, <1>1, PTL

\* No socket stays open behind the event thread.
THEOREM SocketsClosed == Spec => []NoSocketLeft
<1>1. Inv => NoSocketLeft
  BY DEF Inv
<1> QED
  BY InvHolds, <1>1, PTL
===============================================================================
