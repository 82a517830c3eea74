-------------------------- MODULE MCBroadcastServer --------------------------
(* Model checking of BroadcastServer. *)
EXTENDS BroadcastServer, TLC

\* Connections are interchangeable: no definition tells one from another.
ConnSymmetry == Permutations(Conns)
=============================================================================
