-------------------------- MODULE ThingyNode_proofs --------------------------
(***************************************************************************)
(* The audio slab of the Thingy:52 suffices in every round, for any number *)
(* of blocks from four on and any readings.                                *)
(***************************************************************************)
EXTENDS ThingyNode, TLAPS

\* Who holds blocks when: the driver two while it records, main one while it
\* sleeps; and the queue is empty when a sleep begins, so what one block period
\* adds to it is read before the next begins.
SlabInv ==
  /\ active <=> filling = 2
  /\ active => pc \in {"read", "sleep", "stop", "ended"}
  /\ pc \in {"read", "sleep", "stop"} => active
  /\ buffer = IF pc = "sleep" THEN 1 ELSE 0
  /\ Len(queued) <= IF pc = "sleep" /\ ~ticked THEN 0 ELSE 1
  /\ pc \in {"read", "sleep"} => block < BLOCK_COUNT

Inv == TypeOK /\ SlabInv

\* What the sensors report are natural numbers, and so is the zero they leave.
LEMMA ReadingsNat ==
  /\ \A t \in Temps \cup {0} : t \in Nat
  /\ \A l \in Lights \cup {0} : l \in Nat
  /\ \A loud \in Louds : loud \in Nat
BY ReadingsAssumption

LEMMA InitInv == Init => Inv
<1> SUFFICES ASSUME Init PROVE Inv
  OBVIOUS
<1>1. queued \in Seq(Louds) /\ Len(queued) = 0
  BY DEF Init
<1>2. data \in [temp : Temps \cup {0}, light : Lights \cup {0}, clap : Nat]
  BY DEF Init
<1>3. TypeOK
  <2>1. pc \in PCs /\ block \in 0 .. BLOCK_COUNT
    BY BlocksAssumption DEF Init, PCs
  <2>2. active \in BOOLEAN /\ ticked \in BOOLEAN /\ on_air = NULL
    BY Zenon DEF Init
  <2>3. filling \in {0, 2} /\ buffer \in {0, 1}
    BY DEF Init
  <2> QED
    BY <1>1, <1>2, <2>1, <2>2, <2>3, Zenon DEF TypeOK
<1>4. SlabInv
  BY <1>1 DEF Init, SlabInv
<1> QED
  BY <1>3, <1>4 DEF Inv

\* Both numbers of a beacon fit into two bytes.
LEMMA BeaconType ==
  ASSUME TypeOK
  PROVE  /\ Major(data) \in 0 .. Byte * Byte - 1
         /\ Minor(data) \in 0 .. Byte * Byte - 1
<1>1. Byte \in Nat /\ Byte >= 2
  BY ByteAssumption
<1>2. data.temp \in Nat /\ data.light \in Nat /\ data.clap \in Nat
  <2>1. data \in [temp : Temps \cup {0}, light : Lights \cup {0}, clap : Nat]
    BY DEF TypeOK
  <2> QED
    BY <2>1, ReadingsNat
<1>3. /\ data.temp % Byte \in 0 .. Byte - 1
      /\ data.light % Byte \in 0 .. Byte - 1
      /\ data.clap % Byte \in 0 .. Byte - 1
  BY <1>1, <1>2
<1>4. ASSUME NEW h \in 0 .. Byte - 1, NEW l \in 0 .. Byte - 1
      PROVE  h * Byte + l \in 0 .. Byte * Byte - 1
  <2>1. h * Byte \in Nat /\ h * Byte <= (Byte - 1) * Byte
    BY <1>1, SMTT(30)
  <2>2. (Byte - 1) * Byte = Byte * Byte - Byte /\ Byte * Byte \in Nat
    BY <1>1, SMTT(30)
  <2> QED
    BY <1>1, <2>1, <2>2
<1>5. 1 \in 0 .. Byte - 1
  BY <1>1
<1> QED
  BY <1>3, <1>4, <1>5 DEF Major, Minor

LEMMA NextInv == Inv /\ [Next]_vars => Inv'
<1> SUFFICES ASSUME TypeOK, SlabInv, [Next]_vars
             PROVE  TypeOK' /\ SlabInv'
  BY DEF Inv
<1>1. /\ queued \in Seq(Louds) /\ Len(queued) \in Nat
      /\ BLOCK_COUNT \in Nat /\ BLOCK_COUNT >= 4
      /\ pc \in PCs /\ block \in 0 .. BLOCK_COUNT
      /\ active \in BOOLEAN /\ ticked \in BOOLEAN
      /\ filling \in {0, 2} /\ buffer \in {0, 1}
  BY BlocksAssumption DEF TypeOK
<1> USE DEF driverVars
<1>2. CASE Setup
  BY <1>2 DEF Setup, PCs, TypeOK, SlabInv
<1>3. CASE Sample
  BY <1>3 DEF Sample, PCs, TypeOK, SlabInv
<1>4. CASE Start
  <2>1. /\ pc = "start" /\ block' = 0
        /\ UNCHANGED <<data, queued, ticked, buffer, on_air>>
    BY <1>4 DEF Start
  <2>2. ~active /\ filling = 0 /\ buffer = 0 /\ Len(queued) <= 1
    BY <1>1, <2>1 DEF SlabInv
  <2>3. (Free >= 2) = TRUE
    BY <1>1, <2>2 DEF Free
  <2>4. \/ pc' = "read" /\ active' = TRUE /\ filling' = 2
        \/ pc' = "ended" /\ UNCHANGED <<active, filling>>
    <3>1. \/ /\ active' = (Free >= 2)
             /\ filling' = IF Free >= 2 THEN 2 ELSE 0
             /\ pc' = "read"
          \/ pc' = "ended" /\ UNCHANGED <<active, filling>>
      BY <1>4, Zenon DEF Start
    <3> QED
      BY <2>3, <3>1, Zenon
  <2>5. TypeOK'
    <3>1. /\ pc' \in PCs /\ block' \in 0 .. BLOCK_COUNT
          /\ active' \in BOOLEAN /\ filling' \in {0, 2}
      <4>1. CASE pc' = "read" /\ active' = TRUE /\ filling' = 2
        BY <1>1, <2>1, <4>1 DEF PCs
      <4>2. CASE pc' = "ended" /\ UNCHANGED <<active, filling>>
        BY <1>1, <2>1, <4>2 DEF PCs
      <4> QED
        BY <2>4, <4>1, <4>2
    <3> QED
      BY <2>1, <3>1 DEF TypeOK
  <2>6. SlabInv'
    BY <1>1, <2>1, <2>2, <2>4 DEF SlabInv
  <2> QED
    BY <2>5, <2>6
<1>5. CASE Read
  <2>1. /\ pc = "read" /\ queued # <<>> /\ queued' = Tail(queued)
        /\ buffer' = buffer + 1 /\ ticked' = FALSE /\ pc' = "sleep"
        /\ data' = [data EXCEPT !.clap = @ + Head(queued)]
        /\ UNCHANGED <<block, active, filling, on_air>>
    BY <1>5 DEF Read
  <2>2. buffer = 0 /\ Len(queued) = 1 /\ active /\ filling = 2 /\ block < BLOCK_COUNT
    <3>1. Len(queued) # 0
      BY <1>1, <2>1
    <3>2. buffer = 0 /\ Len(queued) <= 1 /\ active /\ filling = 2 /\ block < BLOCK_COUNT
      BY <2>1 DEF SlabInv
    <3>3. Len(queued) \in Nat /\ Len(queued) <= 1
      BY <1>1, <3>2
    <3>4. Len(queued) = 1
      <4> DEFINE n == Len(queued)
      <4>1. n \in Nat /\ n <= 1 /\ n # 0
        BY <3>1, <3>3
      <4> HIDE DEF n
      <4>2. n = 1
        BY <4>1
      <4> QED
        BY <4>2 DEF n
    <3> QED
      BY <3>2, <3>4
  <2>3. queued' \in Seq(Louds) /\ Len(queued') = 0 /\ Head(queued) \in Louds
    BY <1>1, <2>1, <2>2
  <2>4. data' \in [temp : Temps \cup {0}, light : Lights \cup {0}, clap : Nat]
    BY <2>1, <2>3, ReadingsNat DEF TypeOK
  <2>5. TypeOK'
    <3>1. pc' \in PCs /\ buffer' \in {0, 1} /\ ticked' \in BOOLEAN
      <4>1. buffer' \in {0, 1}
        BY <2>1, <2>2
      <4>2. ticked' \in BOOLEAN
        BY <2>1, Zenon
      <4> QED
        BY <2>1, <4>1, <4>2 DEF PCs
    <3> QED
      BY <1>1, <2>1, <2>3, <2>4, <3>1 DEF TypeOK
  <2>6. SlabInv'
    BY <1>1, <2>1, <2>2, <2>3 DEF SlabInv
  <2> QED
    BY <2>5, <2>6
<1>6. CASE FreeBlock
  BY <1>1, <1>6 DEF FreeBlock, SlabFree, MoreBlocks, PCs, TypeOK, SlabInv
<1>7. CASE Stop
  <2>1. /\ pc = "stop" /\ queued' \in {queued, <<>>}
        /\ \/ active' = FALSE /\ filling' = 0 /\ pc' = "advertise"
           \/ UNCHANGED <<active, filling>> /\ pc' = "ended"
        /\ UNCHANGED <<block, data, ticked, buffer, on_air>>
    BY <1>7 DEF Stop, DriverStops
  <2>2. Len(queued) <= 1 /\ buffer = 0 /\ active /\ filling = 2
    BY <1>1, <2>1 DEF SlabInv
  <2>3. queued' \in Seq(Louds) /\ Len(queued') <= 1
    <3>1. CASE queued' = queued
      BY <1>1, <2>2, <3>1
    <3>2. CASE queued' = <<>>
      BY <3>2
    <3> QED
      BY <2>1, <3>1, <3>2
  <2>4. TypeOK'
    BY <1>1, <2>1, <2>3 DEF TypeOK, PCs
  <2>5. SlabInv'
    <3>1. CASE active' = FALSE /\ filling' = 0 /\ pc' = "advertise"
      BY <2>1, <2>2, <2>3, <3>1 DEF SlabInv
    <3>2. CASE UNCHANGED <<active, filling>> /\ pc' = "ended"
      BY <2>1, <2>2, <2>3, <3>2 DEF SlabInv
    <3> QED
      BY <2>1, <3>1, <3>2
  <2> QED
    BY <2>4, <2>5
<1>8. CASE Advertise
  BY <1>8, BeaconType DEF Advertise, PCs, TypeOK, SlabInv
<1>9. CASE AdvertStop
  BY <1>9 DEF AdvertStop, PCs, TypeOK, SlabInv
<1>10. CASE Pause
  BY <1>10 DEF Pause, PCs, TypeOK, SlabInv
<1>11. CASE ReadFails
  BY <1>11 DEF ReadFails, PCs, TypeOK, SlabInv
<1>12. CASE BlockDone
  <2>1. PICK loud \in Louds : queued' = Append(queued, loud)
    BY <1>12 DEF BlockDone
  <2>2. /\ active /\ ticked' = TRUE /\ pc \in {"read", "sleep"}
        /\ pc = "read" => queued = <<>>
        /\ pc = "sleep" => ~ticked
        /\ UNCHANGED <<pc, block, data, buffer, on_air>>
    BY <1>12 DEF BlockDone, TimePasses, SlabInv
  <2>3. Len(queued) = 0 /\ filling = 2
    BY <1>1, <2>2 DEF SlabInv
  <2>4. queued' \in Seq(Louds) /\ Len(queued') = 1
    BY <1>1, <2>1, <2>3
  <2>5. Free > 0
    BY <1>1, <2>3 DEF Free
  <2>6. UNCHANGED <<active, filling>>
    BY <1>12, <2>5 DEF BlockDone
  <2>7. TypeOK'
    BY <1>1, <2>2, <2>4, <2>6 DEF TypeOK
  <2>8. SlabInv'
    BY <1>1, <2>2, <2>4, <2>6 DEF SlabInv
  <2> QED
    BY <2>7, <2>8
<1>13. CASE UNCHANGED vars
  BY <1>13 DEF vars, TypeOK, SlabInv
<1> QED
  BY <1>2, <1>3, <1>4, <1>5, <1>6, <1>7, <1>8, <1>9, <1>10, <1>11, <1>12, <1>13
     DEF Next, Main

\* Every variable of the sensor node keeps its type; the numbers of a beacon fit
\* their fields, whatever is measured and counted.
THEOREM TypeCorrect == Spec => []TypeOK
<1>1. Inv => TypeOK
  BY DEF Inv
<1> QED
  BY InitInv, NextInv, <1>1, PTL DEF Spec

\* A slab of four or more blocks never runs dry under the driver.
THEOREM SlabSuffices == Spec => []NeverStarved
<1>1. Inv => NeverStarved
  BY DEF Inv, SlabInv, NeverStarved
<1> QED
  BY InitInv, NextInv, <1>1, PTL DEF Spec

\* At most one block of audio is carried from one round into the next.
THEOREM LagBounded == Spec => []OneBlockStale
<1>1. Inv => OneBlockStale
  BY DEF Inv, SlabInv, OneBlockStale
<1> QED
  BY InitInv, NextInv, <1>1, PTL DEF Spec
===============================================================================
