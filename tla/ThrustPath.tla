------------------------------- MODULE ThrustPath -------------------------------
(***************************************************************************)
(* Guidance and the motor controller together: the commands that           *)
(* set_thrust() (src/guidance/auto_com.cpp) publishes go through the       *)
(* broker into the controller's queue (src/main/motor_controller.cpp), and *)
(* the readings guidance consumes are of a craft under the command that    *)
(* the controller took from it last.                                       *)
(***************************************************************************)
EXTENDS MotorController

CONSTANTS Iterations, Width, Rest, Ramp, MaxThrust, Interval, Target, Seconds, SampleCap

VARIABLES
  pc, i, com_correction_min, com_correction_max, com_correction_factor,
  thrust, next, elapsed, samples, inForce, honest,
  last   \* history: the last command forwarded since the controller subscribed

Guide == INSTANCE AutoCom WITH speeds <- inbox, SpeedCap <- QueueCap, MayLose <- TRUE

\* What the ramp can ask for.
Thrusts == (0..Rest) \cup (0..(MaxThrust + Ramp))

\* The factors inside the bracket that the search starts with.
Factors == 1..(Width[0] - 1)

\* What guidance may command is among the throttles the controller is for.
ASSUME PathAssumption ==
  /\ Guide!GuidanceAssumption
  /\ \A t \in Thrusts, factor \in Factors : Guide!Command(t, factor).throttles \in Speeds

guidance == <<pc, i, com_correction_min, com_correction_max, com_correction_factor,
              thrust, next, elapsed, samples, inForce, honest>>
pathVars == <<vars, guidance, last>>

-----------------------------------------------------------------------------
PathInit == /\ Init
            /\ Guide!Init
            /\ last = <<>>

\* A step in which guidance publishes: the broker forwards the command if the
\* controller has subscribed.
Publish(A) == /\ A
              /\ Subscribed <=> inbox' # inbox
              /\ last' = IF Subscribed THEN inbox'[Len(inbox')] ELSE last
              /\ UNCHANGED <<cpc, link, arming, vector, asked, call, chip>>

Publishing == \/ Publish(Guide!BeginIteration)
              \/ Publish(Guide!TooBig)
              \/ Publish(Guide!TooSmall)
              \/ Publish(Guide!Raise)

Interrupt == Publish(Guide!Sigint)

\* A step of guidance, or of the craft, that does not publish.
Silent(A) == A /\ UNCHANGED <<vars, last>>

Searching == \/ Publishing
             \/ Silent(Guide!Hold)
             \/ Silent(Guide!Settled)
             \/ Silent(Guide!Unsettled)
             \/ Silent(Guide!EndPause)

Ending == Silent(Guide!SigintHangs) \/ Silent(Guide!Crash)

World == Silent(Guide!Second) \/ \E tilt \in Guide!Tilts : Silent(Guide!Sample(tilt))

\* The controller takes a command, and the motors begin to follow it.
Take == /\ ConsumeSpeed
        /\ Guide!Deliver
        /\ UNCHANGED last

\* It is started with --arm, whatever guidance and the motors are doing.
StartArming == /\ StartArmed
               /\ Guide!Arm(Round(3))
               /\ UNCHANGED last

\* The motors begin to follow the next round.
NextArming == /\ \E ok \in BOOLEAN : NextRound(ok)
              /\ Guide!Arm(Round(arming - 1))
              /\ UNCHANGED last

\* The other transfers.
Pulsing == /\ \E ok \in BOOLEAN : Transfer(ok) \/ NextMotor(ok) \/ Return(ok)
           /\ UNCHANGED <<guidance, last>>

Control == /\ StartUnarmed \/ LoseLink
           /\ UNCHANGED <<guidance, last>>

\* It ends, by itself or interrupted; the motors go on.
Die == /\ ConsumeNull \/ Kill
       /\ last' = <<>>
       /\ UNCHANGED guidance

PathNext == \/ Searching \/ Interrupt \/ Ending \/ World
            \/ Take \/ StartArming \/ NextArming \/ Pulsing \/ Control \/ Die

PathSpec == PathInit /\ [][PathNext]_pathVars

\* The controller serves its queue; nothing is asked of guidance.
PathLive == /\ PathSpec
            /\ WF_pathVars(Take)
            /\ WF_pathVars(NextArming \/ Pulsing)

-----------------------------------------------------------------------------
(* Properties *)

\* What main() of the controller makes of a command for a motor.
Commanded(command, m) == Cycle(Micro(command.throttles[m + 1]))

\* With nothing left to consume, every motor makes the pulse of the last
\* command that reached the controller.
LastFollowed == inbox = <<>> /\ last # <<>> =>
                  \A m \in Motors \ bad : Pulse(m) = Commanded(last, m)

\* The front motors both make the pulse of one thrust of the ramp, and the rear
\* motors both that of its share for one factor.
RampAllows == vector # <<>> =>
                \E t \in Thrusts, factor \in Factors :
                  /\ \A m \in {0, 1} \ bad : Pulse(m) = Cycle(Micro(t))
                  /\ \A m \in {2, 3} \ bad : Pulse(m) = Cycle(Micro(Guide!Rear(t, factor)))

\* auto_com.cpp:32 to 37, what set_thrust() asks of the motors, where it counts:
\* between two messages they make the pulses of its last command once that is
\* reached, and until then those of one thrust, to a step above --maxthrust in
\* front, and one factor, however commands, transfers and restarts fell together,
\* with the full throttle of arming in between.
Followed == cpc = "consume" => LastFollowed /\ RampAllows

\* auto_com.cpp:39: the handler of SIGINT stops the motors, as long as the
\* controller lives to take its command and the bus works.
AtRest == \A m \in Motors : Pulse(m) = Cycle(THROTTLE_MIN)
Stopping == pc = "stopped" /\ link = "up" /\ last # <<>>
StopReaches == Stopping ~> AtRest \/ last = <<>> \/ bad # {}
=============================================================================
