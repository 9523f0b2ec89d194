---------------------------- MODULE UltrasonicNode ----------------------------
(***************************************************************************)
(* The Disco L475 ultrasonic node (Project/Disco_L475/src/main.c).  main   *)
(* triggers the sensor, polls the echo pin until it rises and until it     *)
(* falls, and prints the distance; the network event thread runs           *)
(* wifi_event_handler, which talks to a server once the Wi-Fi is up.       *)
(*                                                                         *)
(* Time.  The cycle counter runs modulo Wrap.  main is the thread of the   *)
(* lowest priority that is ever ready, so other threads and interrupts     *)
(* delay each of its steps, by Lag at most.  A tick is the unit of all     *)
(* constants.                                                              *)
(***************************************************************************)
EXTENDS Integers

CONSTANTS
  Wrap,         \* the 32-bit cycle counter counts modulo this
  EchoTimeout,  \* ECHO_TIMEOUT_US
  MaxRange,     \* MAX_RANGE_TIMEOUT_US
  Lag,          \* the longest delay of a step of main
  MinEcho,      \* the shortest echo of the sensor
  MaxEcho       \* the longest

ASSUME TimesAssumption ==
  /\ {Wrap, EchoTimeout, MaxRange, Lag, MinEcho, MaxEcho} \subseteq Nat
  /\ Wrap > EchoTimeout + 2 * Lag /\ Wrap > MaxRange + 2 * Lag
  /\ MinEcho <= MaxEcho

VARIABLES
  pc,               \* where main is, see PCs
  now,              \* k_cycle_get_32
  lag,              \* ticks since main's last step
  echo_start_time, start_time, stop_time,
  distance,         \* what was printed last, in ticks; -1 if nothing this round
  armed,            \* sensor: triggered, the echo is to come
  echo,             \* sensor: level of the echo pin
  width,            \* sensor: length of the last echo
  age,              \* history: ticks since the trigger or the start of the wait
  wifi,             \* the station interface: "off", "asked", "up", "down"
  cb,               \* event thread: "idle", or where connect_to_server is
  sock,             \* the descriptor in the global sock, -1 when there is none
  open              \* the socket is open

timeVars   == <<now, lag, age>>
sensorVars == <<armed, echo, width>>
mainVars   == <<pc, echo_start_time, start_time, stop_time, distance>>
wifiVars   == <<wifi, cb, sock, open>>
vars == <<mainVars, timeVars, sensorVars, wifiVars>>

Polling == {"begin", "waitread", "waitcheck", "rise", "read", "stamp", "report"}
PCs     == {"setup", "trigger", "sleep", "ended"} \cup Polling

Init ==
  /\ pc = "setup" /\ now \in {0, Wrap - 1} /\ lag = 0 /\ age = 0
  /\ echo_start_time = 0 /\ start_time = 0 /\ stop_time = 0 /\ distance = -1
  /\ armed = FALSE /\ echo = FALSE /\ width = 0
  /\ wifi = "off" /\ cb = "idle" /\ sock = -1 /\ open = FALSE

-------------------------------------------------------------------------------
(* main                                                                      *)

\* A plausible bug: times are compared as if the counter never wrapped.
ElapsedSigned(a, b) == b - a

\* The difference of two readings of the counter, as uint32_t.
Elapsed(a, b) == IF a <= b THEN b - a ELSE b - a + Wrap

\* Step of main: it takes place within Lag of the previous one.
Goto(p) == pc' = p /\ lag' = 0 /\ UNCHANGED <<now, wifi, cb, sock, open>>

\* Register the callbacks, ask for the Wi-Fi (a failure is logged), configure the
\* pins (a failure ends main).
Setup ==
  /\ pc = "setup"
  /\ pc' \in {"trigger", "ended"} /\ wifi' \in {"off", "asked"}
  /\ lag' = 0
  /\ UNCHANGED <<now, age, echo_start_time, start_time, stop_time, distance,
                 sensorVars, cb, sock, open>>

\* The trigger pulse.
Trigger ==
  /\ pc = "trigger"
  /\ Goto("begin")
  /\ armed' = TRUE /\ distance' = -1 /\ age' = 0
  /\ UNCHANGED <<echo_start_time, start_time, stop_time, echo, width>>

BeginWait ==
  /\ pc = "begin"
  /\ Goto("waitread")
  /\ echo_start_time' = now /\ age' = 0
  /\ UNCHANGED <<start_time, stop_time, distance, sensorVars>>

\* gpio_pin_get in the loop that waits for the echo.
WaitRead ==
  /\ pc = "waitread"
  /\ Goto(IF echo THEN "rise" ELSE "waitcheck")
  /\ UNCHANGED <<echo_start_time, start_time, stop_time, distance, sensorVars, age>>

WaitCheck ==
  /\ pc = "waitcheck"
  /\ Goto(IF Elapsed(echo_start_time, now) > EchoTimeout THEN "sleep"
                                                         ELSE "waitread")
  /\ UNCHANGED <<echo_start_time, start_time, stop_time, distance, sensorVars, age>>

\* A plausible bug: the start of the wait is taken for the start of the echo.
StampWaitStart == start_time' = echo_start_time

StampStart == start_time' = now

Rise ==
  /\ pc = "rise"
  /\ Goto("read")
  /\ StampStart
  /\ UNCHANGED <<echo_start_time, stop_time, distance, sensorVars, age>>

\* gpio_pin_get in the loop that waits for the end of the echo.
Read ==
  /\ pc = "read"
  /\ Goto(IF echo THEN "stamp" ELSE "report")
  /\ UNCHANGED <<echo_start_time, start_time, stop_time, distance, sensorVars, age>>

Stamp ==
  /\ pc = "stamp"
  /\ stop_time' = now
  /\ Goto(IF Elapsed(start_time, now) > MaxRange THEN "sleep" ELSE "read")
  /\ UNCHANGED <<echo_start_time, start_time, distance, sensorVars, age>>

\* The distance is printed (and given to advertise_ultrasonic, which is empty).
Report ==
  /\ pc = "report"
  /\ Goto("sleep")
  /\ distance' = Elapsed(start_time, stop_time)
  /\ UNCHANGED <<echo_start_time, start_time, stop_time, sensorVars, age>>

\* After 100 ms: an echo is over by then, and one that has not come never will.
Wake ==
  /\ pc = "sleep" /\ ~echo
  /\ Goto("trigger")
  /\ armed' = FALSE
  /\ UNCHANGED <<echo_start_time, start_time, stop_time, distance, echo, width, age>>

-------------------------------------------------------------------------------
(* The sensor and the clock (external)                                       *)

PinRises ==
  /\ armed
  /\ armed' = FALSE /\ echo' = TRUE /\ width' = 0
  /\ UNCHANGED <<mainVars, timeVars, wifiVars>>

PinFalls ==
  /\ echo /\ width >= MinEcho
  /\ echo' = FALSE
  /\ UNCHANGED <<mainVars, timeVars, armed, width, wifiVars>>

Tick ==
  /\ pc \notin {"setup", "ended"}
  /\ pc \in Polling => lag < Lag
  /\ echo => width < MaxEcho
  /\ now' = IF now = Wrap - 1 THEN 0 ELSE now + 1
  /\ width' = IF echo THEN width + 1 ELSE width
  /\ IF pc \in Polling
     THEN lag' = lag + 1 /\ age' = age + 1
     ELSE UNCHANGED <<lag, age>>
  /\ UNCHANGED <<mainVars, armed, echo, wifiVars>>

-------------------------------------------------------------------------------
(* The network event thread                                                  *)

\* A plausible bug: the socket of a failed connection is not closed.
AbandonSocket == sock' = -1 /\ UNCHANGED open

\* close and forget it.
DropSocket == sock' = -1 /\ open' = FALSE

\* The connection request succeeds or fails; on success connect_to_server makes a
\* socket, which may fail.
ConnectResult ==
  /\ wifi = "asked" /\ cb = "idle"
  /\ \/ wifi' = "off" /\ UNCHANGED <<cb, sock, open>>
     \/ /\ wifi' = "up"
        /\ \/ cb' = "connect" /\ sock' = 0 /\ open' = TRUE
           \/ sock' = -1 /\ UNCHANGED <<cb, open>>
  /\ UNCHANGED <<mainVars, timeVars, sensorVars>>

\* connect fails, or it succeeds and the greeting is sent.
Connect ==
  /\ cb = "connect"
  /\ \/ DropSocket /\ cb' = "idle"
     \/ cb' = "recv" /\ UNCHANGED <<sock, open>>
  /\ UNCHANGED <<mainVars, timeVars, sensorVars, wifi>>

\* recv returns an answer, the end of the connection or an error; the socket is
\* closed, its number stays.
RecvReturns ==
  /\ cb = "recv"
  /\ cb' = "idle" /\ open' = FALSE
  /\ UNCHANGED <<mainVars, timeVars, sensorVars, wifi, sock>>

\* The association is lost while the event thread is free; an event that comes
\* while connect_to_server blocks it waits until then.
Disconnect ==
  /\ wifi = "up" /\ cb = "idle"
  /\ wifi' = "down"
  /\ IF sock >= 0 THEN DropSocket ELSE UNCHANGED <<sock, open>>
  /\ UNCHANGED <<mainVars, timeVars, sensorVars, cb>>

-------------------------------------------------------------------------------
Main   == \/ Setup \/ Trigger \/ BeginWait \/ WaitRead \/ WaitCheck \/ Rise
          \/ Read \/ Stamp \/ Report \/ Wake
Sensor == PinRises \/ PinFalls \/ Tick
Wifi   == ConnectResult \/ Connect \/ RecvReturns \/ Disconnect

Next == Main \/ Sensor \/ Wifi

Spec == Init /\ [][Next]_vars
-------------------------------------------------------------------------------
(* Properties                                                                *)

TypeOK ==
  /\ pc \in PCs
  /\ {now, echo_start_time, start_time, stop_time} \subseteq 0 .. Wrap - 1
  /\ lag \in 0 .. Lag /\ age \in Nat
  /\ distance \in -1 .. Wrap - 1
  /\ armed \in BOOLEAN /\ echo \in BOOLEAN /\ width \in 0 .. MaxEcho
  /\ wifi \in {"off", "asked", "up", "down"} /\ cb \in {"idle", "connect", "recv"}
  /\ sock \in {-1, 0} /\ open \in BOOLEAN

\* If no delay of main can hide an echo, a printed distance is that of the echo just
\* measured, up to the delays, wherever in the wrap of the counter it falls; in
\* particular it is never made of the stop_time of an earlier echo (main's two
\* polling loops).
Accurate ==
  4 * Lag < MinEcho /\ distance >= 0 =>
    width - 4 * Lag <= distance /\ distance <= width + Lag

\* Without an echo, with one that never ends, and wherever the counter wraps, main
\* stops polling in time (ECHO_TIMEOUT_US and MAX_RANGE_TIMEOUT_US).
PollingBounded ==
  pc \in Polling => age <= EchoTimeout + MaxRange + 4 * Lag

\* The event thread leaves no socket open behind, however connect_to_server ends
\* and whenever the association is lost.
NoSocketLeft == cb = "idle" => ~open
===============================================================================
