------------------------------ MODULE BeaconLink ------------------------------
(***************************************************************************)
(* The sensor node and the base node over the air: ThingyNode's beacon is  *)
(* what BaseNode's adv_data_cb is called with.  The radio may miss every   *)
(* beacon, and hears one as often as its duplicate filter lets it: the     *)
(* base node scans with BT_LE_SCAN_OPT_FILTER_DUPLICATE, and the           *)
(* controller's list of addresses heard starts empty with each scan and    *)
(* forgets old ones when other devices fill it.                            *)
(***************************************************************************)
EXTENDS ThingyNode

VARIABLES
  base_pc, test, scanning, reading, new, unreported,  \* see BaseNode
  heard   \* controller of the base node: the sensor node is in its list

\* The numbers a beacon can carry as minor, and 0.
Minors == {0} \cup {c * Byte + 1 : c \in 0 .. Byte - 1}

Base == INSTANCE BaseNode WITH main_pc <- base_pc, Values <- Minors

baseVars == <<base_pc, test, scanning, reading, new, unreported>>
linkVars == <<vars, baseVars, heard>>

InitL == Init /\ Base!Init /\ heard = FALSE

\* The base node's receive thread is called with a beacon on air; adv_data_cb
\* ignores a major number that is none of its kinds.
Hear ==
  /\ on_air # NULL /\ scanning /\ ~heard
  /\ heard' = TRUE
  /\ IF on_air[1] \in 0 .. 2
     THEN Base!AdvData(on_air[1], on_air[2])
     ELSE UNCHANGED baseVars
  /\ UNCHANGED vars

\* Other devices push the sensor node out of the list.
Forget ==
  /\ heard
  /\ heard' = FALSE
  /\ UNCHANGED <<vars, baseVars>>

\* main of the base node; a scan that starts, starts with an empty list.
BaseMain ==
  /\ Base!Main
  /\ heard' = (heard /\ (scanning \/ ~scanning'))
  /\ UNCHANGED vars

NextL ==
  \/ Next /\ UNCHANGED <<baseVars, heard>>
  \/ BaseMain
  \/ Hear
  \/ Forget

SpecL == InitL /\ [][NextL]_linkVars

\* The fairness of ThingyNode; nothing obliges the radio to deliver.
FairSpecL ==
  SpecL /\ WF_linkVars(Main /\ UNCHANGED <<baseVars, heard>>)
        /\ WF_linkVars(BlockDone /\ UNCHANGED <<baseVars, heard>>)
-------------------------------------------------------------------------------
(* Properties                                                                *)

\* What the base node stores was counted in the round the sensor node has just
\* finished, over all of its blocks: however long the radio and its duplicate filter
\* hold a beacon back, none is heard while the next round is being measured
\* (advertise_thingy against main's loop and adv_data_cb).
StoredFromRound ==
  [][\A k \in Base!Kinds : reading'[k] \notin {reading[k], 0} =>
       block = BLOCK_COUNT /\ reading'[k] = Minor(data)]_linkVars

\* What the base node takes for a temperature is the temperature the sensor node
\* has measured and sends (adv_data_cb's "//Temperature" and advertise_thingy's
\* "top byte = temp").
TemperatureMeansTemperature ==
  [][reading'["temp"] # reading["temp"] => reading'["temp"] = data.temp]_linkVars
===============================================================================
