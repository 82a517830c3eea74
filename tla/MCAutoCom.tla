------------------------------- MODULE MCAutoCom -------------------------------
(* Small instances of AutoCom. *)
EXTENDS AutoCom

\* Two units are left after the last iteration.
Widths == [k \in 0..Iterations |-> 2 ^ (Iterations + 1 - k)]
=============================================================================
