------------------------------ MODULE TwoPirs ------------------------------
(***************************************************************************)
(* Module1/task1.4D.cpp: two motion sensors share one pin-change handler,  *)
(* a timer handler flips both LEDs every two seconds, and the loop copies  *)
(* the states of the LEDs to their pins.                                   *)
(*                                                                         *)
(* The processor (external): a change of a pin raises PCIF0 and a compare  *)
(* match OCF1A; the flag is cleared when its handler is entered, handlers  *)
(* do not interrupt each other, and the pin-change handler goes first.     *)
(***************************************************************************)
EXTENDS Integers

CONSTANT MaxChanges    \* bound: changes of the two pins

ASSUME MaxChangesAssumption == MaxChanges \in Nat

VARIABLES
    pin,          \* what digitalRead returns for pirPin1 and pirPin2: is it HIGH
    PCIF0, OCF1A,
    handler,      \* "none", or what the pin-change handler reads next
    pc,           \* what setup or the loop does next
    argument,     \* the state passed to the digitalWrite that is under way
    ledGreenState, ledRedState,
    ledGreen, ledRed,    \* the pins of the LEDs
    changes,      \* history: changes of the pins
    reports,      \* history: "Motion Detected!" messages
    risen         \* history: pirPin1 has risen since it was last read or LOW

interrupts == <<PCIF0, OCF1A, handler>>
states == <<ledGreenState, ledRedState>>
main == <<pc, argument, ledGreen, ledRed>>
history == <<changes, reports, risen>>
vars == <<pin, interrupts, states, main, history>>

Pin == {"pirPin1", "pirPin2"}

Init ==
    /\ pin \in [Pin -> BOOLEAN]
    /\ PCIF0 = FALSE /\ OCF1A = FALSE /\ handler = "none"
    /\ pc = "setup" /\ argument = FALSE
    /\ ledGreenState = FALSE /\ ledRedState = FALSE
    /\ ledGreen = FALSE /\ ledRed = FALSE
    /\ changes = 0 /\ reports = 0 /\ risen = FALSE
-----------------------------------------------------------------------------
PinChange(p) ==
    /\ changes < MaxChanges
    /\ pin' = [pin EXCEPT ![p] = ~ @]
    /\ PCIF0' = TRUE
    /\ changes' = changes + 1
    /\ risen' = IF p = "pirPin1" THEN ~ pin[p] ELSE risen
    /\ UNCHANGED <<OCF1A, handler, states, main, reports>>

\* The timer runs from the end of setup.
CompareMatch ==
    /\ pc # "setup"
    /\ OCF1A' = TRUE
    /\ UNCHANGED <<pin, PCIF0, handler, states, main, history>>

\* Mistake: the flag is left set.
BugEnterHandler ==
    /\ handler = "none" /\ PCIF0
    /\ handler' = "readPin1"
    /\ UNCHANGED <<pin, PCIF0, OCF1A, states, main, history>>

EnterHandler ==
    /\ handler = "none" /\ PCIF0
    /\ handler' = "readPin1"
    /\ PCIF0' = FALSE
    /\ UNCHANGED <<pin, OCF1A, states, main, history>>

\* pirStateGreen stays LOW for ever, so the test asks whether the pin is HIGH.
ReadPin1 ==
    /\ handler = "readPin1"
    /\ handler' = IF pin["pirPin1"] THEN "none" ELSE "readPin2"
    /\ ledGreenState' = (ledGreenState # pin["pirPin1"])
    /\ reports' = IF pin["pirPin1"] THEN reports + 1 ELSE reports
    /\ risen' = FALSE
    /\ UNCHANGED <<pin, PCIF0, OCF1A, ledRedState, main, changes>>

\* Mistake: the handler clears the flag again when it ends.
BugReadPin2 ==
    /\ handler = "readPin2"
    /\ handler' = "none"
    /\ PCIF0' = FALSE
    /\ ledRedState' = (ledRedState # pin["pirPin2"])
    /\ reports' = IF pin["pirPin2"] THEN reports + 1 ELSE reports
    /\ UNCHANGED <<pin, OCF1A, ledGreenState, main, changes, risen>>

ReadPin2 ==
    /\ handler = "readPin2"
    /\ handler' = "none"
    /\ ledRedState' = (ledRedState # pin["pirPin2"])
    /\ reports' = IF pin["pirPin2"] THEN reports + 1 ELSE reports
    /\ UNCHANGED <<pin, PCIF0, OCF1A, ledGreenState, main, changes, risen>>

\* Mistake: only one LED is flipped.
BugTimerHandler ==
    /\ handler = "none" /\ OCF1A /\ ~ PCIF0
    /\ OCF1A' = FALSE
    /\ ledRedState' = ~ ledRedState
    /\ UNCHANGED <<pin, PCIF0, handler, ledGreenState, main, history>>

TimerHandler ==
    /\ handler = "none" /\ OCF1A /\ ~ PCIF0
    /\ OCF1A' = FALSE
    /\ ledRedState' = ~ ledRedState
    /\ ledGreenState' = ~ ledGreenState
    /\ UNCHANGED <<pin, PCIF0, handler, main, history>>
-----------------------------------------------------------------------------
\* A step of the program outside the handlers.
Loop(from, to) ==
    /\ handler = "none"
    /\ pc = from
    /\ pc' = to
    /\ UNCHANGED <<pin, interrupts, states, history>>

setup == Loop("setup", "loadRed") /\ UNCHANGED <<argument, ledGreen, ledRed>>

\* digitalWrite takes its argument, and writes the pin some instructions later.
LoadRed == Loop("loadRed", "writeRed") /\ argument' = ledRedState
                                       /\ UNCHANGED <<ledGreen, ledRed>>

WriteRed == Loop("writeRed", "loadGreen") /\ ledRed' = argument
                                          /\ UNCHANGED <<argument, ledGreen>>

LoadGreen == Loop("loadGreen", "writeGreen") /\ argument' = ledGreenState
                                             /\ UNCHANGED <<ledGreen, ledRed>>

\* Mistake: the loop does not read the states again.
BugWriteGreen == Loop("writeGreen", "writeGreen") /\ ledGreen' = argument
                                                  /\ UNCHANGED <<argument, ledRed>>

\* The end of the loop, with its delay.
WriteGreen == Loop("writeGreen", "loadRed") /\ ledGreen' = argument
                                            /\ UNCHANGED <<argument, ledRed>>

MainStep == setup \/ LoadRed \/ WriteRed \/ LoadGreen \/ WriteGreen

PinHandler == EnterHandler \/ ReadPin1 \/ ReadPin2

Next ==
    \/ \E p \in Pin : PinChange(p)
    \/ CompareMatch
    \/ PinHandler \/ TimerHandler
    \/ MainStep

\* The processor goes on, and serves a pending interrupt.
Fairness == WF_vars(MainStep) /\ WF_vars(PinHandler) /\ WF_vars(TimerHandler)

Spec == Init /\ [][Next]_vars /\ Fairness
-----------------------------------------------------------------------------
\* Changes may be merged or lost, but never counted twice: every report, also
\* one still to come, has a change of its own.
ReportsAreCaused ==
    reports + (IF PCIF0 THEN 1 ELSE 0) + (IF handler = "none" THEN 0 ELSE 1)
        <= changes

\* A sensor 1 that goes HIGH and stays so is never forgotten, not even when it
\* rises while the handler is busy with sensor 2: either the handler has yet to
\* read it, or it will run again.
RisingIsNotMissed == risen => PCIF0 \/ handler = "readPin1"

\* The LEDs are in opposite states after every other report, whatever the timer
\* does in between: no handler ever sees the other's work half done.
OppositeByReports == (ledGreenState # ledRedState) <=> reports % 2 = 1

\* When the interrupts stop, the loop brings both LEDs to their states, however
\* its writes and the handlers were interleaved before.
LedsSettle ==
    <>[](handler = "none" /\ ~ PCIF0 /\ ~ OCF1A)
        => <>[](ledGreen = ledGreenState /\ ledRed = ledRedState)
=============================================================================
