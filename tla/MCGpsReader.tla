------------------------------ MODULE MCGpsReader ------------------------------
(* The sentences of a small instance of GpsReader. *)
EXTENDS GpsReader

Receiver == {Position("after_ten", "N", "E", "1"), Position("before_ten", "S", "W", "1"),
             Position("after_ten", "S", "E", "0"), NoPosition, Other, Noise}
=============================================================================
