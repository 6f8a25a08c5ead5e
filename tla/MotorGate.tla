----------------------------- MODULE MotorGate ------------------------------
(***************************************************************************)
(* What the flight controller promises, with no lock, task, notification   *)
(* or clock: the latest command is one value replaced at once; the loop    *)
(* adopts it whole; the motors run only on an adopted command that asks    *)
(* for thrust, outside panic mode, and level unless that command carries   *)
(* the clear flag; and panic mode is left only by a command that carries   *)
(* the flag.  FlightControl is shown to implement it.                      *)
(***************************************************************************)
EXTENDS Commands

VARIABLES
    latest,   \* newest published command
    used,     \* command the loop works on
    skewed,   \* estimated attitude is beyond FC_PANIC_MODE_ACT
    panic,    \* fc_panicmode
    motor     \* what the four motors were last driven from

vars == <<latest, used, skewed, panic, motor>>

Init ==
    /\ latest = ZeroControl
    /\ used = ZeroControl
    /\ skewed = FALSE
    /\ panic = FALSE
    /\ motor = MotorsOff

Publish(p) == latest' = Decode(p) /\ UNCHANGED <<used, skewed, panic, motor>>

Adopt == used' = latest /\ UNCHANGED <<latest, skewed, panic, motor>>

Sense(s) == skewed' = s /\ UNCHANGED <<latest, used, panic, motor>>

EnterPanic ==
    /\ Thrust(used) /\ skewed /\ ~used.clear
    /\ panic' = TRUE
    /\ UNCHANGED <<latest, used, skewed, motor>>

LeavePanic ==
    /\ Thrust(used) /\ used.clear
    /\ panic' = FALSE
    /\ UNCHANGED <<latest, used, skewed, motor>>

Drive ==
    /\ Thrust(used) /\ ~panic
    /\ skewed => used.clear
    /\ motor' = [on |-> TRUE, ctrl |-> used, skewed |-> skewed]
    /\ UNCHANGED <<latest, used, skewed, panic>>

Stop == motor' = MotorsOff /\ UNCHANGED <<latest, used, skewed, panic>>

Next ==
    \/ \E p \in Packets : Publish(p)
    \/ Adopt
    \/ \E s \in BOOLEAN : Sense(s)
    \/ EnterPanic \/ LeavePanic
    \/ Drive \/ Stop

Spec == Init /\ [][Next]_vars
=============================================================================
