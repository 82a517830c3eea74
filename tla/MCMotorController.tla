--------------------------- MODULE MCMotorController ---------------------------
(* Small instances of MotorController. *)
EXTENDS MotorController

\* At rest, guidance's first command, full throttle.
LegalSpeeds == {<<0, 0, 0, 0>>, <<140, 140, 140, 140>>, <<1000, 1000, 1000, 1000>>}

\* With a rear throttle that guidance computes for factors below one half:
\* its count does not fit twelve bits.
AllSpeeds == {<<0, 0, 0, 0>>, <<140, 140, 420, 420>>, <<300, 300, 38100, 38100>>}

\* LED_RUN_PIN at full brightness, and a motor's pin at half.
Lights == {<<15, 19999>>, <<1, 9999>>}

NoLeds == {}
=============================================================================
