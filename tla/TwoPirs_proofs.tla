--------------------------- MODULE TwoPirs_proofs ---------------------------
(***************************************************************************)
(* No report without a change, no rising of sensor 1 forgotten and no LED  *)
(* out of step with the other, for any number of changes.                  *)
(***************************************************************************)
EXTENDS TwoPirs, TLAPS

TypeInv ==
    /\ pin \in [Pin -> BOOLEAN]
    /\ PCIF0 \in BOOLEAN
    /\ handler \in {"none", "readPin1", "readPin2"}
    /\ changes \in Nat
    /\ reports \in Nat
    /\ risen \in BOOLEAN

\* The two properties are inductive together with the types.
IInv == TypeInv /\ ReportsAreCaused /\ RisingIsNotMissed

\* A count that grows by at most one keeps to a bound that had room for the step.
LEMMA OneMore ==
    ASSUME NEW x \in Nat, NEW y \in Nat, NEW z \in Nat, x <= y + 1
    PROVE  /\ y + 1 + 1 <= z => x + 1 + 0 <= z
           /\ y + 0 + 1 <= z => x + 0 + 0 <= z
OBVIOUS

\* Setup and the loop touch nothing of the handlers.
LEMMA MainFrame ==
    ASSUME MainStep
    PROVE  UNCHANGED <<pin, interrupts, history>>
BY DEF MainStep, setup, LoadRed, WriteRed, LoadGreen, WriteGreen, Loop

LEMMA Initially == Init => IInv
<1> SUFFICES ASSUME Init PROVE IInv
  OBVIOUS
<1>1. TypeInv
  BY DEF Init, TypeInv
<1>2. ReportsAreCaused
  <2>1. ~ PCIF0 /\ handler = "none" /\ reports = 0 /\ changes = 0
    BY DEF Init
  <2> QED  BY <2>1 DEF ReportsAreCaused
<1>3. RisingIsNotMissed
  BY DEF Init, RisingIsNotMissed
<1> QED  BY <1>1, <1>2, <1>3 DEF IInv

LEMMA Preserved ==
    ASSUME IInv, [Next]_vars
    PROVE  IInv'
<1>a. TypeInv /\ ReportsAreCaused /\ RisingIsNotMissed
  BY DEF IInv
<1>1. ASSUME NEW p \in Pin, PinChange(p) PROVE IInv'
  <2>1. TypeInv'
    <3>1. pin' \in [Pin -> BOOLEAN]
      BY Zenon, <1>1, <1>a DEF PinChange, TypeInv
    <3>2. risen' \in BOOLEAN
      BY Zenon, <1>1, <1>a DEF PinChange, TypeInv
    <3>3. PCIF0' \in BOOLEAN /\ changes' \in Nat /\ UNCHANGED <<handler, reports>>
      BY <1>1, <1>a DEF PinChange, TypeInv
    <3> QED  BY <3>1, <3>2, <3>3, <1>a DEF TypeInv
  <2>2. ReportsAreCaused'
    BY <1>1, <1>a DEF PinChange, ReportsAreCaused, TypeInv
  <2>3. RisingIsNotMissed'
    BY <1>1, <1>a DEF PinChange, RisingIsNotMissed, TypeInv
  <2> QED  BY <2>1, <2>2, <2>3 DEF IInv
<1>2. ASSUME CompareMatch PROVE IInv'
  <2>1. TypeInv'
    BY <1>2, <1>a DEF CompareMatch, history, TypeInv
  <2>2. ReportsAreCaused'
    BY <1>2, <1>a DEF CompareMatch, history, ReportsAreCaused, TypeInv
  <2>3. RisingIsNotMissed'
    BY <1>2, <1>a DEF CompareMatch, history, RisingIsNotMissed, TypeInv
  <2> QED  BY <2>1, <2>2, <2>3 DEF IInv
<1>3. ASSUME EnterHandler PROVE IInv'
  <2>1. TypeInv'
    BY <1>3, <1>a DEF EnterHandler, history, TypeInv
  <2>2. ReportsAreCaused'
    BY <1>3, <1>a DEF EnterHandler, history, ReportsAreCaused, TypeInv
  <2>3. RisingIsNotMissed'
    BY <1>3, <1>a DEF EnterHandler, history, RisingIsNotMissed, TypeInv
  <2> QED  BY <2>1, <2>2, <2>3 DEF IInv
<1>4. ASSUME ReadPin1 PROVE IInv'
  <2>1. TypeInv'
    <3>1. UNCHANGED <<pin, PCIF0, changes>>
      BY <1>4 DEF ReadPin1
    <3>2. reports' \in Nat
      BY <1>4, <1>a DEF ReadPin1, TypeInv
    <3>3. handler' \in {"none", "readPin2"} /\ risen' = FALSE
      BY Zenon, <1>4 DEF ReadPin1
    <3> QED  BY <3>1, <3>2, <3>3, <1>a DEF TypeInv
  <2>2. ReportsAreCaused'
    <3>1. UNCHANGED <<PCIF0, changes>>
      BY <1>4 DEF ReadPin1
    <3>2. reports' \in {reports, reports + 1}
      BY <1>4 DEF ReadPin1
    <3>3. handler = "readPin1" /\ handler' \in {"none", "readPin2"}
      BY Zenon, <1>4 DEF ReadPin1
    <3>4. handler' = "readPin2" => reports' = reports
      BY Zenon, <1>4 DEF ReadPin1
    <3>5. reports' \in Nat /\ reports' <= reports + 1 /\ reports \in Nat /\ changes \in Nat
      BY <3>2, <1>a DEF TypeInv
    <3>6. handler' # "none" => reports' = reports
      BY <3>3, <3>4
    <3>7. CASE PCIF0
      <4>1. reports + 1 + 1 <= changes
        BY <3>3, <3>7, <1>a DEF ReportsAreCaused
      <4>2. PCIF0' /\ changes' = changes
        BY Zenon, <3>1, <3>7
      <4>3. CASE handler' = "none"
        <5>1. reports' + 1 + 0 <= changes'
          BY <4>1, <4>2, <3>5, OneMore
        <5> QED  BY <5>1, <4>2, <4>3 DEF ReportsAreCaused
      <4>4. CASE handler' # "none"
        <5>1. reports' + 1 + 1 <= changes'
          BY <4>1, <4>2, <4>4, <3>5, <3>6
        <5> QED  BY <5>1, <4>2, <4>4 DEF ReportsAreCaused
      <4> QED  BY <4>3, <4>4
    <3>8. CASE ~ PCIF0
      <4>1. reports + 0 + 1 <= changes
        BY <3>3, <3>8, <1>a DEF ReportsAreCaused
      <4>2. ~ PCIF0' /\ changes' = changes
        BY Zenon, <3>1, <3>8
      <4>3. CASE handler' = "none"
        <5>1. reports' + 0 + 0 <= changes'
          BY <4>1, <4>2, <3>5, OneMore
        <5> QED  BY <5>1, <4>2, <4>3 DEF ReportsAreCaused
      <4>4. CASE handler' # "none"
        <5>1. reports' + 0 + 1 <= changes'
          BY <4>1, <4>2, <4>4, <3>5, <3>6
        <5> QED  BY <5>1, <4>2, <4>4 DEF ReportsAreCaused
      <4> QED  BY <4>3, <4>4
    <3> QED  BY <3>7, <3>8
  <2>3. RisingIsNotMissed'
    BY <1>4, <1>a DEF ReadPin1, RisingIsNotMissed, TypeInv
  <2> QED  BY <2>1, <2>2, <2>3 DEF IInv
<1>5. ASSUME ReadPin2 PROVE IInv'
  <2>1. TypeInv'
    BY <1>5, <1>a DEF ReadPin2, TypeInv
  <2>2. ReportsAreCaused'
    BY <1>5, <1>a DEF ReadPin2, ReportsAreCaused, TypeInv
  <2>3. RisingIsNotMissed'
    BY <1>5, <1>a DEF ReadPin2, RisingIsNotMissed, TypeInv
  <2> QED  BY <2>1, <2>2, <2>3 DEF IInv
<1>6. ASSUME TimerHandler PROVE IInv'
  <2>1. TypeInv'
    BY <1>6, <1>a DEF TimerHandler, history, TypeInv
  <2>2. ReportsAreCaused'
    BY <1>6, <1>a DEF TimerHandler, history, ReportsAreCaused, TypeInv
  <2>3. RisingIsNotMissed'
    BY <1>6, <1>a DEF TimerHandler, history, RisingIsNotMissed, TypeInv
  <2> QED  BY <2>1, <2>2, <2>3 DEF IInv
<1>7. ASSUME MainStep \/ UNCHANGED vars PROVE IInv'
  <2>1. UNCHANGED <<pin, interrupts, history>>
    BY <1>7, MainFrame DEF vars
  <2> QED  BY <2>1, <1>a DEF interrupts, history, IInv, TypeInv, ReportsAreCaused, RisingIsNotMissed
<1> QED  BY <1>1, <1>2, <1>3, <1>4, <1>5, <1>6, <1>7 DEF Next, PinHandler

LEMMA Inductive == Spec => []IInv
<1>1. IInv /\ [Next]_vars => IInv'
  BY Preserved
<1> QED  BY <1>1, Initially, PTL DEF Spec

\* Every report of motion has a change of a pin of its own, for any number of
\* changes and any timing of the handlers (lines 60-78).
THEOREM EveryReportCaused == Spec => []ReportsAreCaused
<1>1. IInv => ReportsAreCaused
  BY DEF IInv
<1> QED  BY <1>1, Inductive, PTL

\* A rising of sensor 1 is never forgotten (lines 60-66).
THEOREM NoRisingMissed == Spec => []RisingIsNotMissed
<1>1. IInv => RisingIsNotMissed
  BY DEF IInv
<1> QED  BY <1>1, Inductive, PTL

-----------------------------------------------------------------------------
\* The states of the LEDs are opposite by the reports, and Boolean.
LedInv ==
    /\ ledGreenState \in BOOLEAN
    /\ ledRedState \in BOOLEAN
    /\ OppositeByReports

\* A report more makes an even number odd and an odd one even.
LEMMA OddEven ==
    ASSUME NEW n \in Nat
    PROVE  (n + 1) % 2 = 1 <=> n % 2 # 1
OBVIOUS

\* Each report flips one LED, and nothing else flips one without the other.
LEMMA LedPreserved ==
    ASSUME IInv, LedInv, [Next]_vars
    PROVE  LedInv'
<1>a. /\ reports \in Nat /\ pin \in [Pin -> BOOLEAN]
      /\ (reports + 1) % 2 = 1 <=> reports % 2 # 1
  BY OddEven DEF IInv, TypeInv
<1>b. pin["pirPin1"] \in BOOLEAN /\ pin["pirPin2"] \in BOOLEAN
  BY <1>a DEF Pin
<1>1. CASE UNCHANGED <<states, reports>>
  BY <1>1 DEF LedInv, OppositeByReports, states
<1>2. CASE ReadPin1
  <2>1. /\ ledGreenState' = (ledGreenState # pin["pirPin1"])
        /\ reports' = IF pin["pirPin1"] THEN reports + 1 ELSE reports
        /\ ledRedState' = ledRedState
    BY <1>2 DEF ReadPin1
  <2>2. CASE pin["pirPin1"]
    BY <2>1, <2>2, <1>a, <1>b DEF LedInv, OppositeByReports
  <2>3. CASE ~ pin["pirPin1"]
    BY <2>1, <2>3, <1>a, <1>b DEF LedInv, OppositeByReports
  <2> QED  BY <2>2, <2>3
<1>3. CASE ReadPin2
  <2>1. /\ ledRedState' = (ledRedState # pin["pirPin2"])
        /\ reports' = IF pin["pirPin2"] THEN reports + 1 ELSE reports
        /\ ledGreenState' = ledGreenState
    BY <1>3 DEF ReadPin2
  <2>2. CASE pin["pirPin2"]
    BY <2>1, <2>2, <1>a, <1>b DEF LedInv, OppositeByReports
  <2>3. CASE ~ pin["pirPin2"]
    BY <2>1, <2>3, <1>a, <1>b DEF LedInv, OppositeByReports
  <2> QED  BY <2>2, <2>3
<1>4. CASE TimerHandler
  BY <1>4 DEF TimerHandler, history, LedInv, OppositeByReports
<1>5. CASE MainStep \/ UNCHANGED vars
  BY <1>1, <1>5 DEF MainStep, setup, LoadRed, WriteRed, LoadGreen, WriteGreen, Loop, history, vars
<1>6. CASE CompareMatch \/ EnterHandler \/ \E p \in Pin : PinChange(p)
  BY <1>1, <1>6 DEF CompareMatch, EnterHandler, PinChange, history
<1> QED  BY <1>2, <1>3, <1>4, <1>5, <1>6 DEF Next, PinHandler

\* The LEDs are in opposite states after every other report, whatever the timer
\* does (lines 60-77).
THEOREM LedsOpposite == Spec => []OppositeByReports
<1>1. Init => LedInv
  <2>1. 0 % 2 # 1
    OBVIOUS
  <2>2. Init => ledGreenState = FALSE /\ ledRedState = FALSE /\ reports = 0
    BY DEF Init
  <2> QED  BY <2>1, <2>2, Zenon DEF LedInv, OppositeByReports
<1>2. IInv /\ LedInv /\ [Next]_vars => LedInv'
  BY LedPreserved
<1>3. LedInv => OppositeByReports
  BY DEF LedInv
<1> QED  BY <1>1, <1>2, <1>3, Inductive, PTL DEF Spec
=============================================================================
