--------------------------- MODULE BeaconLink_proofs ---------------------------
(***************************************************************************)
(* Theorems about BeaconLink: sensor node and base node, put together, run *)
(* each within its own specification, so that what is proved of either     *)
(* alone holds in the system.                                              *)
(***************************************************************************)
EXTENDS BeaconLink, ThingyNode_proofs

BaseResults == INSTANCE BaseNode_proofs WITH main_pc <- base_pc, Values <- Minors

-------------------------------------------------------------------------------
(* The sensor node                                                           *)

\* The base node and the radio only listen.
LEMMA SensorStep == [NextL]_linkVars => [Next]_vars
BY DEF NextL, linkVars, BaseMain, Hear, Forget

\* Whatever becomes of its beacons, the sensor node runs as it does alone.
LEMMA SensorWithin == SpecL => Spec
BY SensorStep, PTL DEF SpecL, InitL, Spec

\* A beacon is on air only between two rounds, and carries what the one before has
\* counted; its minor number is one that BaseNode is told of.
AirInv ==
  /\ pc \in {"stop", "advertise", "onair"} => block = BLOCK_COUNT
  /\ on_air # NULL => pc = "onair" /\ on_air = <<Major(data), Minor(data)>>

LEMMA MinorOnAir == Inv => Minor(data) \in Minors
<1> SUFFICES ASSUME Inv PROVE Minor(data) \in Minors
  OBVIOUS
<1>1. data.clap \in Nat
  BY DEF Inv, TypeOK
<1>2. data.clap % Byte \in 0 .. Byte - 1
  BY <1>1, ByteAssumption
<1> QED
  BY <1>2 DEF Minor, Minors

LEMMA AirStep ==
  ASSUME Inv, AirInv, [NextL]_linkVars
  PROVE  AirInv'
<1>0. block \in 0 .. BLOCK_COUNT /\ BLOCK_COUNT \in Nat
  BY BlocksAssumption DEF Inv, TypeOK
<1>1. CASE UNCHANGED vars
  BY <1>1 DEF AirInv, vars, Major, Minor
<1>2. CASE Advertise
  BY <1>2 DEF Advertise, AirInv, Major, Minor
<1>3. CASE AdvertStop
  BY <1>3 DEF AdvertStop, AirInv
<1>4. CASE FreeBlock
  <2>1. block < BLOCK_COUNT
    BY <1>4 DEF Inv, SlabInv, FreeBlock
  <2>2. on_air = NULL /\ UNCHANGED on_air
    BY <1>4 DEF FreeBlock, AirInv
  <2>3. pc' \in {"read", "stop"} /\ (pc' = "stop" => ~(block' < BLOCK_COUNT))
    BY <1>4 DEF FreeBlock, MoreBlocks
  <2>4. block' = block + 1
    BY <1>4 DEF FreeBlock
  <2> QED
    BY <1>0, <2>1, <2>2, <2>3, <2>4 DEF AirInv
<1>5. CASE BlockDone
  BY <1>5 DEF BlockDone, AirInv, Major, Minor
<1>6. CASE Setup \/ Sample \/ Start \/ Read \/ ReadFails \/ Stop \/ Pause
  BY <1>6 DEF Setup, Sample, Start, Read, ReadFails, Stop, Pause, AirInv
<1> QED
  BY <1>1, <1>2, <1>3, <1>4, <1>5, <1>6, SensorStep DEF Next, Main

LEMMA LinkAlways == SpecL => [](Inv /\ AirInv)
<1>1. InitL => Inv /\ AirInv
  BY InitInv DEF InitL, Init, AirInv
<1>2. Inv /\ AirInv /\ [NextL]_linkVars => Inv' /\ AirInv'
  BY NextInv, SensorStep, AirStep
<1> QED
  BY <1>1, <1>2, PTL DEF SpecL

-------------------------------------------------------------------------------
(* The base node                                                             *)

LEMMA BaseStep ==
  ASSUME Inv, AirInv, [NextL]_linkVars
  PROVE  [Base!Next]_(Base!vars)
<1>1. CASE UNCHANGED baseVars
  BY <1>1 DEF baseVars, Base!vars
<1>2. CASE BaseMain
  BY <1>2 DEF BaseMain, Base!Next
<1>3. CASE Hear
  <2>1. CASE on_air[1] \in 0 .. 2
    <3>1. Base!AdvData(on_air[1], on_air[2]) /\ on_air[2] \in Minors
      BY <1>3, <2>1, MinorOnAir DEF Hear, AirInv
    <3>2. Base!Receive
      BY <2>1, <3>1 DEF Base!Receive
    <3> QED
      BY <3>2 DEF Base!Next
  <2> QED
    BY <1>1, <1>3, <2>1 DEF Hear
<1> QED
  BY <1>1, <1>2, <1>3 DEF NextL, linkVars, Forget

\* No number reaches adv_data_cb that the base node's theorems do not cover.
LEMMA BaseWithin == SpecL => Base!Spec
<1>1. InitL => Base!Init
  BY DEF InitL
<1> QED
  BY <1>1, BaseStep, LinkAlways, PTL DEF SpecL, Base!Spec

-------------------------------------------------------------------------------
(* The system                                                                *)

\* The two instances of BaseNode, with its theorems and without, are one.
LEMMA OneBase ==
  /\ Base!Init <=> BaseResults!Init
  /\ Base!Next <=> BaseResults!Next
  /\ Base!TypeOK <=> BaseResults!TypeOK
  /\ Base!ReadingsFlagged <=> BaseResults!ReadingsFlagged
  /\ Base!ClapPrintedOnce <=> BaseResults!ClapPrintedOnce
<1> USE DEF Base!Kinds, BaseResults!Kinds
<1>1. Base!Init <=> BaseResults!Init
  BY DEF Base!Init, BaseResults!Init
<1>2. Base!Receive <=> BaseResults!Receive
  BY DEF Base!Receive, BaseResults!Receive, Base!AdvData, BaseResults!AdvData,
     Base!Announced, BaseResults!Announced
<1>3. Base!Main <=> BaseResults!Main
  BY DEF Base!Main, BaseResults!Main, Base!Setup, BaseResults!Setup, Base!Check,
     BaseResults!Check, Base!PrintLine, BaseResults!PrintLine, Base!Clear,
     BaseResults!Clear, Base!Restart, BaseResults!Restart, Base!ScanStop,
     BaseResults!ScanStop, Base!ScanRestart, BaseResults!ScanRestart, Base!Flags,
     BaseResults!Flags, Base!OtherTest, BaseResults!OtherTest, Base!JsonPrint,
     BaseResults!JsonPrint
<1> QED
  BY <1>1, <1>2, <1>3 DEF Base!Next, BaseResults!Next,
     Base!ReadingsFlagged, BaseResults!ReadingsFlagged, Base!ClapPrintedOnce,
     BaseResults!ClapPrintedOnce, Base!TypeOK, BaseResults!TypeOK

\* What BaseNode_proofs shows holds of the base node in the system.
LEMMA BaseKeeps ==
  SpecL => []Base!TypeOK /\ []Base!ReadingsFlagged /\ []Base!ClapPrintedOnce
<1>1. 0 \in Minors
  BY DEF Minors
<1>2. BaseResults!Spec => []BaseResults!TypeOK
  BY <1>1, BaseResults!TypeCorrect
<1>3. BaseResults!Spec => []BaseResults!ReadingsFlagged
  BY <1>1, BaseResults!NoReadingLost
<1>4. BaseResults!Spec => []BaseResults!ClapPrintedOnce
  BY <1>1, BaseResults!NoClapTwice
<1>5. [Base!Next]_(Base!vars) => [BaseResults!Next]_(BaseResults!vars)
  BY OneBase DEF Base!vars, BaseResults!vars
<1>6. Base!Spec => BaseResults!Spec
  BY <1>5, OneBase, PTL DEF Base!Spec, BaseResults!Spec
<1> QED
  BY <1>2, <1>3, <1>4, <1>6, OneBase, BaseWithin, PTL

\* For every count of blocks and every list of what the radio repeats or leaves out:
\* the number the base node stores is that of the round the sensor node has just
\* finished, with all of its blocks in it.
THEOREM RoundStored == SpecL => StoredFromRound
<1> DEFINE Fresh == \A k \in Base!Kinds : reading'[k] \notin {reading[k], 0} =>
                      block = BLOCK_COUNT /\ reading'[k] = Minor(data)
<1>1. ASSUME Inv, AirInv, [NextL]_linkVars, Base!TypeOK PROVE [Fresh]_linkVars
  <2>0. reading \in [Base!Kinds -> Minors]
    BY <1>1 DEF Base!TypeOK
  <2>1. CASE UNCHANGED reading
    BY <2>1
  <2>2. CASE Hear /\ on_air[1] \in 0 .. 2
    <3>1. block = BLOCK_COUNT /\ on_air[2] = Minor(data)
      BY <1>1, <2>2 DEF Hear, AirInv
    <3>2. PICK k : reading' = [reading EXCEPT ![k] = on_air[2]]
      BY <2>2 DEF Hear, Base!AdvData
    <3> QED
      BY <2>0, <3>1, <3>2
  <2>3. CASE Base!JsonPrint
    BY <2>0, <2>3 DEF Base!JsonPrint
  <2> QED
    BY <1>1, <2>1, <2>2, <2>3 DEF NextL, linkVars, baseVars, BaseMain, Hear, Forget,
       Base!Main, Base!Setup, Base!Check, Base!PrintLine, Base!Clear, Base!Restart
<1> QED
  BY <1>1, BaseKeeps, LinkAlways, PTL DEF SpecL, StoredFromRound

\* From the microphone to the serial port: in every round of the sensor node the
\* driver finds its blocks and no more than one is left over; and no number the base
\* node has taken from the air is forgotten or, being a clap, printed twice.
THEOREM LinkKeeps ==
  SpecL => [](/\ NeverStarved /\ OneBlockStale
              /\ Base!ReadingsFlagged /\ Base!ClapPrintedOnce)
<1>1. SpecL => []NeverStarved /\ []OneBlockStale
  BY SensorWithin, SlabSuffices, LagBounded, PTL
<1> QED
  BY <1>1, BaseKeeps, PTL
===============================================================================
