------------------------------ MODULE Commands ------------------------------
(***************************************************************************)
(* The data of a control update: what the UPDATE_CONTROL packet carries    *)
(* (HQOControl.java) and struct control_data it is decoded into            *)
(* (hackquad_main.c).  The three set-points x, y and z travel and are      *)
(* copied together, so one value `sp' stands for them.                     *)
(***************************************************************************)
EXTENDS Integers

CONSTANTS
    SetPoints,   \* values of the (x, y, z) set-points
    Centre,      \* x = y = z = 0
    Packets      \* control updates the controller can send

ASSUME PacketsAssumption ==
    /\ Centre \in SetPoints
    /\ Packets \subseteq [throttle : Nat, sp : SetPoints, clear : BOOLEAN]

\* A float throttle: its sign bit and its magnitude.  The controller refuses
\* negative throttles and uses the sign bit as the clear-panic flag.
Floats == [neg : BOOLEAN, mag : Nat]

Controls == [throttle : Floats, sp : SetPoints, clear : BOOLEAN]

\* struct control_data after a memset to zero (and in BSS).
ZeroControl == [throttle |-> [neg |-> FALSE, mag |-> 0],
                sp |-> Centre, clear |-> FALSE]

\* The control_data a whole packet decodes to.
Decode(p) == [throttle |-> [neg |-> FALSE, mag |-> p.throttle],
              sp |-> p.sp, clear |-> p.clear]

\* All four duties zero; `ctrl' and `skewed' say what driven motors were mixed from.
MotorsOff == [on |-> FALSE, ctrl |-> ZeroControl, skewed |-> FALSE]

\* Every value the flight loop may ever act on.
WholeControls == {ZeroControl} \cup {Decode(p) : p \in Packets}

\* ctrl.throttle > 0; a zero with its sign bit set is not.
Thrust(c) == ~c.throttle.neg /\ c.throttle.mag > 0
=============================================================================
