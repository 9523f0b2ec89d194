---------------------------- MODULE BaseNode_proofs ----------------------------
(***************************************************************************)
(* Safety of the base node for any readings.                               *)
(***************************************************************************)
EXTENDS BaseNode, TLAPS

Silent == {"print", "clear", "start"}

\* Between the stop and the restart of the scan nothing comes in; so what main
\* has printed there is what it clears the flags of.
QuietInv ==
  /\ main_pc \in Silent => ~scanning
  /\ main_pc = "clear" => \A k \in Kinds : ~unreported[k]

IInv == TypeOK /\ QuietInv /\ ReadingsFlagged /\ ClapPrintedOnce

LEMMA InitInv == Init => IInv
  BY ValuesAssumption
     DEF Init, IInv, TypeOK, QuietInv, Silent, ReadingsFlagged,
         ClapPrintedOnce, Kinds

\* A callback sets the flag of what it stores, and only while main neither
\* prints nor clears.
LEMMA ReceiveInv ==
  ASSUME IInv, NEW major \in 0 .. 2, NEW minor \in Values, AdvData(major, minor)
  PROVE  IInv'
<1> DEFINE k == Announced(major)
<1>1. k \in Kinds
  BY DEF Announced, Kinds
<1> HIDE DEF k
<1>2. /\ scanning /\ UNCHANGED <<main_pc, test, scanning>>
      /\ reading' = [reading EXCEPT ![k] = minor]
      /\ new' = [new EXCEPT ![k] = TRUE]
      /\ unreported' = [unreported EXCEPT ![k] = TRUE]
  BY DEF AdvData, k
<1>3. /\ scanning \in BOOLEAN
      /\ reading \in [Kinds -> Values]
      /\ new \in [Kinds -> BOOLEAN] /\ unreported \in [Kinds -> BOOLEAN]
  BY DEF IInv, TypeOK
<1>4. TypeOK'
  BY <1>1, <1>2, <1>3 DEF IInv, TypeOK
<1>5. QuietInv'
  BY <1>2 DEF IInv, QuietInv, Silent
<1>6. ReadingsFlagged'
  BY <1>1, <1>2, <1>3 DEF IInv, ReadingsFlagged
<1>7. ClapPrintedOnce'
  BY <1>1, <1>2, <1>3 DEF IInv, ClapPrintedOnce, Kinds
<1> QED
  BY <1>4, <1>5, <1>6, <1>7 DEF IInv

\* Stopping, starting and testing leave the readings and the flags alone.
LEMMA ScanInv ==
  ASSUME IInv, Setup \/ Check \/ Restart
  PROVE  IInv'
<1>1. UNCHANGED <<reading, new, unreported>>
  BY DEF Setup, Check, Restart
<1>2. scanning' \in BOOLEAN /\ test' \in {"meas", "clap"}
  BY DEF IInv, TypeOK, Setup, Check, Restart, ScanStop, ScanRestart, OtherTest
<1>3. /\ main_pc' \in {"check", "print", "ended"}
      /\ main_pc' = "print" => ~scanning'
  BY DEF Setup, Check, Restart, ScanStop
<1> QED
  BY <1>1, <1>2, <1>3
     DEF IInv, TypeOK, QuietInv, Silent, ReadingsFlagged, ClapPrintedOnce

LEMMA PrintInv ==
  ASSUME IInv, PrintLine
  PROVE  IInv'
<1>1. /\ reading' = [reading EXCEPT !["clap"] = 0]
      /\ unreported' = [k \in Kinds |-> FALSE]
      /\ UNCHANGED <<test, scanning, new>>
  BY DEF PrintLine, JsonPrint
<1>2. main_pc = "print" /\ main_pc' = "clear"
  BY DEF PrintLine
<1>3. TypeOK'
  BY <1>1, <1>2, ValuesAssumption DEF IInv, TypeOK
<1>4. QuietInv'
  BY <1>1, <1>2 DEF IInv, QuietInv, Silent
<1>5. ReadingsFlagged' /\ ClapPrintedOnce'
  BY <1>1 DEF IInv, TypeOK, ReadingsFlagged, ClapPrintedOnce, Kinds
<1> QED
  BY <1>3, <1>4, <1>5 DEF IInv

LEMMA ClearInv ==
  ASSUME IInv, Clear
  PROVE  IInv'
<1>1. UNCHANGED <<test, scanning, reading, unreported>>
  BY DEF Clear
<1>2. main_pc = "clear" /\ main_pc' = "start"
  BY DEF Clear
<1>3. new' \in [Kinds -> BOOLEAN]
  BY DEF Clear, IInv, TypeOK
<1>4. TypeOK'
  BY <1>1, <1>2, <1>3 DEF IInv, TypeOK
<1>5. QuietInv'
  BY <1>1, <1>2 DEF IInv, QuietInv, Silent
<1>6. ReadingsFlagged' /\ ClapPrintedOnce'
  BY <1>1, <1>2 DEF IInv, QuietInv, ReadingsFlagged, ClapPrintedOnce
<1> QED
  BY <1>4, <1>5, <1>6 DEF IInv

LEMMA StepInv == IInv /\ [Next]_vars => IInv'
<1>1. CASE UNCHANGED vars
  BY <1>1 DEF vars, IInv, TypeOK, QuietInv, ReadingsFlagged, ClapPrintedOnce
<1> QED
  BY <1>1, ReceiveInv, ScanInv, PrintInv, ClearInv DEF Next, Receive, Main

LEMMA AlwaysInv == Spec => []IInv
  BY InitInv, StepInv, PTL DEF Spec

\* Whatever is received, every variable of the base node keeps its type.
THEOREM TypeCorrect == Spec => []TypeOK
<1>1. IInv => TypeOK
  BY DEF IInv
<1> QED
  BY AlwaysInv, <1>1, PTL

\* For all readings: none is lost between printing a line and clearing the
\* flags, however callbacks fall between main's statements.
THEOREM NoReadingLost == Spec => []ReadingsFlagged
<1>1. IInv => ReadingsFlagged
  BY DEF IInv
<1> QED
  BY AlwaysInv, <1>1, PTL

\* For all readings: no clap count is printed twice.
THEOREM NoClapTwice == Spec => []ClapPrintedOnce
<1>1. IInv => ClapPrintedOnce
  BY DEF IInv
<1> QED
  BY AlwaysInv, <1>1, PTL
===============================================================================
