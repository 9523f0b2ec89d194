------------------------------- MODULE BaseNode -------------------------------
(***************************************************************************)
(* The nRF52840 base node (Project/nRF52840_DK/src/main.c).  The Bluetooth *)
(* receive thread calls device_found / adv_data_cb for every advertisement *)
(* while the scan runs; main wakes every 20 ms and, when the flags say so, *)
(* stops the scan, prints one JSON line on the serial port, clears the     *)
(* flags and starts the scan again.  All of it shares six plain globals.   *)
(*                                                                         *)
(* Scheduling.  The receive thread is cooperative, above main: a callback  *)
(* is one step and may fall between any two statements of main.  The       *)
(* Bluetooth host forgets the callback in bt_le_scan_stop, so none runs    *)
(* between a stop and the next start.                                      *)
(*                                                                         *)
(* print_to_serial, which main calls, is defined nowhere in the            *)
(* repository; it is taken to be json_print, the only printing function.   *)
(***************************************************************************)
EXTENDS Integers

CONSTANT Values   \* the minor numbers an advertisement may carry

ASSUME ValuesAssumption == 0 \in Values

Kinds == {"temp", "light", "clap"}

VARIABLES
  main_pc,    \* where main is: "setup", "check", "print", "clear", "start", "ended"
  test,       \* which of its two tests main is at: "meas" or "clap"
  scanning,   \* the host holds device_found and delivers advertisements
  reading,    \* the globals temp, light and clap
  new,        \* the globals new_temp, new_light and new_clap
  unreported  \* history: a reading of the kind came in since the last line

vars == <<main_pc, test, scanning, reading, new, unreported>>

Init ==
  /\ main_pc = "setup" /\ test = "meas" /\ scanning = FALSE
  /\ reading = [k \in Kinds |-> 0]
  /\ new = [k \in Kinds |-> FALSE]
  /\ unreported = [k \in Kinds |-> FALSE]

-------------------------------------------------------------------------------
(* The Bluetooth receive thread                                              *)

\* The kind of reading a major number announces.
Announced(major) ==
  CASE major = 0 -> "temp" [] major = 1 -> "light" [] major = 2 -> "clap"

\* A plausible bug: the fields are mixed up, and the major number stored.
AdvDataMajor(major, minor) ==
  LET k == Announced(major) IN
    /\ scanning
    /\ reading' = [reading EXCEPT ![k] = major]
    /\ new' = [new EXCEPT ![k] = TRUE]
    /\ unreported' = [unreported EXCEPT ![k] = TRUE]
    /\ UNCHANGED <<main_pc, test, scanning>>

\* device_found and adv_data_cb on an iBeacon frame with the expected UUID.
\* Every other advertisement, and every other major number, changes nothing.
AdvData(major, minor) ==
  LET k == Announced(major) IN
    /\ scanning
    /\ reading' = [reading EXCEPT ![k] = minor]
    /\ new' = [new EXCEPT ![k] = TRUE]
    /\ unreported' = [unreported EXCEPT ![k] = TRUE]
    /\ UNCHANGED <<main_pc, test, scanning>>

-------------------------------------------------------------------------------
(* main                                                                      *)

\* bt_enable and the first bt_le_scan_start; either may fail and end main.
Setup ==
  /\ main_pc = "setup"
  /\ \/ main_pc' = "check" /\ scanning' = TRUE
     \/ main_pc' = "ended" /\ UNCHANGED scanning
  /\ UNCHANGED <<test, reading, new, unreported>>

\* A plausible bug: the scan goes on while the line is printed.
ScanGoesOn == UNCHANGED scanning

\* bt_le_scan_stop.
ScanStop == scanning' = FALSE

\* bt_le_scan_start again, whose result nobody looks at.
ScanRestart == scanning' \in {TRUE, scanning}

\* A plausible bug: the test for a clap is nested in the test for readings.
FlagsNested(t) == IF t = "meas" THEN {"temp", "light"} ELSE Kinds

\* The flags a test looks at and, once the line is printed, clears.
Flags(t) == IF t = "meas" THEN {"temp", "light"} ELSE {"clap"}

\* On to the other test; after the second one main sleeps for 20 ms.
OtherTest == test' = IF test = "meas" THEN "clap" ELSE "meas"

Check ==
  /\ main_pc = "check"
  /\ IF \A k \in Flags(test) : new[k]
     THEN main_pc' = "print" /\ ScanStop /\ UNCHANGED test
     ELSE OtherTest /\ UNCHANGED <<main_pc, scanning>>
  /\ UNCHANGED <<reading, new, unreported>>

\* A plausible bug: the clap count is not reset once printed.
JsonPrintKeepsClap ==
  /\ unreported' = [k \in Kinds |-> FALSE]
  /\ UNCHANGED reading

\* json_print: one line with the three readings; the clap count is reset.
JsonPrint ==
  /\ reading' = [reading EXCEPT !["clap"] = 0]
  /\ unreported' = [k \in Kinds |-> FALSE]

PrintLine ==
  /\ main_pc = "print"
  /\ JsonPrint
  /\ main_pc' = "clear"
  /\ UNCHANGED <<test, scanning, new>>

Clear ==
  /\ main_pc = "clear"
  /\ new' = [k \in Kinds |-> new[k] /\ k \notin Flags(test)]
  /\ main_pc' = "start"
  /\ UNCHANGED <<test, scanning, reading, unreported>>

Restart ==
  /\ main_pc = "start"
  /\ ScanRestart
  /\ main_pc' = "check" /\ OtherTest
  /\ UNCHANGED <<reading, new, unreported>>

-------------------------------------------------------------------------------
Receive == \E major \in 0 .. 2, minor \in Values : AdvData(major, minor)

Main == Setup \/ Check \/ PrintLine \/ Clear \/ Restart

Next == Receive \/ Main

Spec == Init /\ [][Next]_vars

\* main's sleeps and the host's stop and start calls return.  Nothing obliges
\* anybody to advertise.
FairSpec == Spec /\ WF_vars(Main)
-------------------------------------------------------------------------------
(* Properties                                                                *)

TypeOK ==
  /\ main_pc \in {"setup", "check", "print", "clear", "start", "ended"}
  /\ test \in {"meas", "clap"}
  /\ scanning \in BOOLEAN
  /\ reading \in [Kinds -> Values]
  /\ new \in [Kinds -> BOOLEAN]
  /\ unreported \in [Kinds -> BOOLEAN]

\* No reading slips between printing and clearing the flags: one that came in
\* after the last line still has its flag up (adv_data_cb against main's loop).
ReadingsFlagged == \A k \in Kinds : unreported[k] => new[k]

\* A clap count reaches the PC in one line only, although the readings and the
\* clap each trigger a line of their own from the same globals: a count that is
\* still there has not been printed (json_print's reset).
ClapPrintedOnce == reading["clap"] # 0 => unreported["clap"]

\* A clap is printed even if no further reading ever comes in, and so is a pair
\* of readings, whatever else arrives meanwhile and whether or not the scan can
\* be started again.
Reported ==
  /\ unreported["clap"] ~> ~unreported["clap"]
  /\ (unreported["temp"] /\ unreported["light"]) ~> ~unreported["temp"]
===============================================================================
