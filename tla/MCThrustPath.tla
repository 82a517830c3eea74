------------------------------ MODULE MCThrustPath ------------------------------
(* Small instances of ThrustPath. *)
EXTENDS ThrustPath

\* Two units are left after the last iteration.
Widths == [k \in 0..Iterations |-> 2 ^ (Iterations + 1 - k)]

NoLeds == {}

\* Whatever the ramp may ask for, with any factor of the bracket.
GuidanceSpeeds == {Guide!Command(t, factor).throttles : t \in Thrusts, factor \in Factors}
=============================================================================
