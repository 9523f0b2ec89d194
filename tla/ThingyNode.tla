------------------------------ MODULE ThingyNode ------------------------------
(***************************************************************************)
(* The Thingy:52 sensor node (Project/Thingy52/src/main.c).  main, the     *)
(* only thread, repeats for ever: read temperature and light, record and   *)
(* examine BLOCK_COUNT blocks of audio, advertise what it found for 200    *)
(* ms, sleep for 5 s.  The audio driver (external) takes its blocks from a *)
(* slab of BLOCK_COUNT: it holds the one it fills and the one it fills     *)
(* next, queues each filled one for dmic_read, and stops for good when the *)
(* slab has none left for it.                                              *)
(*                                                                         *)
(* Time.  A block takes 100 ms, and main sleeps 100 ms between reading a   *)
(* block and freeing it, so at most one block is completed in each sleep;  *)
(* the rest of a round takes less than one block beside its sleeps.        *)
(***************************************************************************)
EXTENDS Integers, Sequences

CONSTANTS
  BLOCK_COUNT,  \* blocks in the slab, and blocks read in one round
  Byte,         \* one more than the greatest byte (2^8)
  Temps,        \* what the temperature sensor may report, in hundredths
  Lights,       \* what the light sensor may report
  Louds,        \* how many samples of one block may be loud
  NULL          \* nothing on air

ASSUME BlocksAssumption == BLOCK_COUNT \in Nat /\ BLOCK_COUNT >= 4
ASSUME ByteAssumption == Byte \in Nat \ {0, 1}
ASSUME ReadingsAssumption ==
  Temps \subseteq Nat /\ Lights \subseteq Nat /\ Louds \subseteq Nat

VARIABLES
  pc,       \* where main is, see PCs
  block,    \* do_pdm_transfer's loop variable i: blocks read in this round
  data,     \* the readings of this round
  active,   \* driver: it records
  filling,  \* driver: blocks it holds, the one being filled and the next
  queued,   \* driver: the loud samples of each filled block, oldest first
  buffer,   \* blocks main holds, from dmic_read until k_mem_slab_free
  ticked,   \* a block has been completed during the current sleep
  on_air    \* the major and minor numbers being advertised, or NULL

driverVars == <<active, filling, queued, ticked>>
vars == <<pc, block, data, driverVars, buffer, on_air>>

PCs == {"setup", "sample", "start", "read", "sleep", "stop", "advertise",
        "onair", "pause", "ended"}

\* The slab: k_mem_slab keeps what nobody holds.
Free == BLOCK_COUNT - (filling + Len(queued) + buffer)

Init ==
  /\ pc = "setup" /\ block = 0 /\ data = [temp |-> 0, light |-> 0, clap |-> 0]
  /\ active = FALSE /\ filling = 0 /\ queued = <<>> /\ ticked = FALSE
  /\ buffer = 0 /\ on_air = NULL

-------------------------------------------------------------------------------
(* main                                                                      *)

\* Bluetooth, microphone, LED, sensors and their power; any failure ends main.
Setup ==
  /\ pc = "setup"
  /\ pc' \in {"sample", "ended"}
  /\ UNCHANGED <<block, data, driverVars, buffer, on_air>>

\* read_temperature and read_light, into a struct just zeroed; a sensor that
\* fails leaves its zero.
Sample ==
  /\ pc = "sample"
  /\ \E t \in Temps \cup {0}, l \in Lights \cup {0} :
       data' = [temp |-> t, light |-> l, clap |-> 0]
  /\ pc' = "start"
  /\ UNCHANGED <<block, driverVars, buffer, on_air>>

\* dmic_configure and the START trigger, either of which may fail; the driver
\* takes two blocks.
Start ==
  /\ pc = "start"
  /\ \/ /\ active' = (Free >= 2)
        /\ filling' = IF Free >= 2 THEN 2 ELSE 0
        /\ pc' = "read"
     \/ /\ pc' = "ended"
        /\ UNCHANGED <<active, filling>>
  /\ block' = 0
  /\ UNCHANGED <<data, queued, ticked, buffer, on_air>>

\* dmic_read, which waits for a block, and the search for loud samples.
Read ==
  /\ pc = "read" /\ queued # <<>>
  /\ queued' = Tail(queued)
  /\ buffer' = buffer + 1
  /\ data' = [data EXCEPT !.clap = @ + Head(queued)]
  /\ ticked' = FALSE
  /\ pc' = "sleep"
  /\ UNCHANGED <<block, active, filling, on_air>>

\* dmic_read gets no block within a second: main ends, the driver still runs.
ReadFails ==
  /\ pc = "read" /\ queued = <<>>
  /\ pc' = "ended"
  /\ UNCHANGED <<block, data, driverVars, buffer, on_air>>

\* A plausible bug: the block is not given back.
SlabKeep == UNCHANGED buffer

\* k_mem_slab_free.
SlabFree == buffer' = buffer - 1

\* A plausible bug: the loop runs once more.
OneMoreBlock == block <= BLOCK_COUNT

\* The loop's condition.
MoreBlocks == block < BLOCK_COUNT

\* The 100 ms are over: give the block back and go on to the next.
FreeBlock ==
  /\ pc = "sleep"
  /\ SlabFree
  /\ block' = block + 1
  /\ pc' = IF MoreBlocks' THEN "read" ELSE "stop"
  /\ UNCHANGED <<data, driverVars, on_air>>

\* A plausible bug: the driver is left running.
DriverGoesOn == UNCHANGED <<active, filling, queued>>

\* The STOP trigger: the driver gives up the blocks it is filling.  Whether a
\* block nobody has read yet stays queued is the driver's affair.
DriverStops ==
  /\ active' = FALSE /\ filling' = 0
  /\ queued' \in {queued, <<>>}

Stop ==
  /\ pc = "stop"
  /\ \/ DriverStops /\ pc' = "advertise"
     \/ pc' = "ended" /\ UNCHANGED <<active, filling, queued>>
  /\ UNCHANGED <<block, data, ticked, buffer, on_air>>

\* The major and minor numbers of the beacon: two readings in one, the count of
\* loud samples and a flag in the other, each cut to a byte.
Major(d) == (d.temp % Byte) * Byte + (d.light % Byte)
Minor(d) == (d.clap % Byte) * Byte + 1

\* advertise_thingy: start the beacon; if that fails, go without it.
Advertise ==
  /\ pc = "advertise"
  /\ \/ /\ on_air' = <<Major(data), Minor(data)>>
        /\ pc' = "onair"
     \/ /\ pc' = "pause"
        /\ UNCHANGED on_air
  /\ UNCHANGED <<block, data, driverVars, buffer>>

\* A plausible bug: the beacon is not stopped.
AdvertGoesOn ==
  /\ pc = "onair"
  /\ pc' = "pause"
  /\ UNCHANGED <<block, data, driverVars, buffer, on_air>>

\* 200 ms later.
AdvertStop ==
  /\ pc = "onair"
  /\ on_air' = NULL
  /\ pc' = "pause"
  /\ UNCHANGED <<block, data, driverVars, buffer>>

\* The 5 s between two rounds.
Pause ==
  /\ pc = "pause"
  /\ pc' = "sample"
  /\ UNCHANGED <<block, data, driverVars, buffer, on_air>>

-------------------------------------------------------------------------------
(* The audio driver (external)                                               *)

\* When a block may be completed: while dmic_read waits for it, once in the sleep
\* of 100 ms, any number of times in the longer ones.
TimePasses ==
  CASE pc = "read"  -> queued = <<>>
    [] pc = "sleep" -> ~ticked
    [] OTHER        -> pc \in {"onair", "pause"}

\* The block being filled is full.  It is queued, the next one is filled, and
\* the slab is asked for one more; without it the driver stops.
BlockDone ==
  /\ active /\ TimePasses
  /\ ticked' = TRUE
  /\ \E loud \in Louds : queued' = Append(queued, loud)
  /\ IF Free > 0
     THEN UNCHANGED <<active, filling>>
     ELSE active' = FALSE /\ filling' = 0
  /\ UNCHANGED <<pc, block, data, buffer, on_air>>

-------------------------------------------------------------------------------
Main == \/ Setup \/ Sample \/ Start \/ Read \/ FreeBlock \/ Stop \/ Advertise
        \/ AdvertStop \/ Pause

Next == Main \/ ReadFails \/ BlockDone

Spec == Init /\ [][Next]_vars

\* main's sleeps end, and a driver that records completes its blocks.
FairSpec == Spec /\ WF_vars(Main) /\ WF_vars(BlockDone)
-------------------------------------------------------------------------------
(* Properties                                                                *)

TypeOK ==
  /\ pc \in PCs /\ block \in 0 .. BLOCK_COUNT
  /\ data \in [temp : Temps \cup {0}, light : Lights \cup {0}, clap : Nat]
  /\ active \in BOOLEAN /\ ticked \in BOOLEAN
  /\ filling \in {0, 2} /\ queued \in Seq(Louds) /\ buffer \in {0, 1}
  /\ on_air \in ((0 .. Byte * Byte - 1) \X (0 .. Byte * Byte - 1)) \cup {NULL}

\* The slab is just large enough: in every round, whatever earlier rounds left in
\* the queue, the driver finds a free block whenever it needs one, and so never
\* stops under do_pdm_transfer (which would end main, and the node, for good).
NeverStarved == pc \in {"read", "sleep"} => active

\* Rounds do not fall behind: no more than one block of audio is carried over to
\* the next round, where it counts as new.
OneBlockStale == pc \in {"advertise", "onair", "pause"} => Len(queued) <= 1

\* Round follows round, each with its reads and its beacon, until an error ends
\* main.
RoundsRepeat == []<>(pc \in {"pause", "ended"})
===============================================================================
