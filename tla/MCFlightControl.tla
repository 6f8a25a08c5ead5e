--------------------------- MODULE MCFlightControl --------------------------
(* A small instance of FlightControl.  Each set-point goes with one parity  *)
(* of (throttle, clear): no packet is a mixture of two others, so a torn    *)
(* read shows.                                                              *)
EXTENDS FlightControl

CONSTANTS a, b

MCSetPoints == {a, b}

MCPackets ==
    {[throttle |-> 0, sp |-> a, clear |-> FALSE],
     [throttle |-> 0, sp |-> b, clear |-> TRUE],
     [throttle |-> 1, sp |-> b, clear |-> FALSE],
     [throttle |-> 1, sp |-> a, clear |-> TRUE]}

\* For the liveness run: stop, fly and the flag, which is all the loop branches on.
MCFewPackets == {p \in MCPackets : p.throttle > 0 \/ ~p.clear}
=============================================================================
