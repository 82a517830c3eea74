-------------------------------- MODULE AutoCom --------------------------------
(***************************************************************************)
(* Guidance (src/guidance/auto_com.cpp): the search for the centre of      *)
(* mass.  The factor that divides the thrust between the front and the     *)
(* rear motors is bisected: thrust is ramped up until the craft leans to   *)
(* one side, which decides a half of the bracket; thrust is cut back, the  *)
(* craft comes to rest, and after a pause the next factor is tried.        *)
(*                                                                         *)
(* Factors are in units of which the bracket of the last iteration has     *)
(* two, so that every midpoint is a number of them; thrust is in           *)
(* thousandths, time in seconds.                                           *)
(***************************************************************************)
EXTENDS Integers, Sequences

CONSTANTS
  Iterations,  \* the iterations of the search, 7 in the code
  Width,       \* the width of the bracket after so many of them
  Rest,        \* the thrust it starts from and returns to, 0.14
  Ramp,        \* --rampthrust
  MaxThrust,   \* --maxthrust
  Interval,    \* --interval
  Target,      \* the factor at which the craft is balanced
  Seconds,     \* bound: time within an iteration
  SampleCap,   \* bound: readings waiting
  SpeedCap,    \* bound: commands waiting
  MayLose      \* whether the motors' controller may be down, or start again

ASSUME GuidanceAssumption ==
  /\ Iterations \in Nat \ {0}
  /\ Width \in [0..Iterations -> Nat \ {0}]
  /\ Width[Iterations] = 2
  /\ \A k \in 1..Iterations : Width[k - 1] = 2 * Width[k]
  /\ Rest \in Nat /\ Ramp \in Nat /\ MaxThrust \in Nat
  /\ Interval \in Nat \ {0}
  /\ Target \in 1..(Width[0] - 1) /\ Target % 2 = 1
  /\ Seconds \in Nat /\ SampleCap \in Nat /\ SpeedCap \in Nat
  /\ MayLose \in BOOLEAN

VARIABLES
  pc,                     \* where main() is
  i,                      \* verdicts so far
  com_correction_min,     \* the bracket
  com_correction_max,
  com_correction_factor,
  thrust,                 \* the thrust of this iteration's ramp
  next,                   \* when it is to be raised
  elapsed,                \* seconds since the iteration began; like the two
                          \* before 0 outside the ramp, where nobody reads them
  samples,                \* readings of adiru/full that wait to be consumed
  speeds,                 \* commands on motors/speed that wait to be consumed
  inForce,                \* the command the motors follow
  honest                  \* history: every verdict so far was true of its factor

search == <<i, com_correction_min, com_correction_max, com_correction_factor>>
ramp == <<thrust, next, elapsed>>
world == <<samples, inForce>>
vars == <<pc, search, ramp, world, speeds, honest>>

-----------------------------------------------------------------------------
(* Commands and readings *)

\* The throttles of the rear motors.
Rear(t, factor) == (t * (Width[0] - factor)) \div factor

\* Mutant: left and right are taken for front and rear.
CommandBySide(t, factor) == [topic |-> "motors/speed",
                             throttles |-> <<t, Rear(t, factor), t, Rear(t, factor)>>]

\* set_thrust(): its message.
Command(t, factor) == [topic |-> "motors/speed",
                       throttles |-> <<t, t, Rear(t, factor), Rear(t, factor)>>]

\* set_thrust(): the broker forwards the command, or nobody has subscribed.
SetThrust(t, factor) ==
  /\ Len(speeds) < SpeedCap
  /\ \/ speeds' = Append(speeds, Command(t, factor))
     \/ MayLose /\ UNCHANGED speeds

\* euler.y of a reading: beyond angle_confirm to either side, within
\* angle_rest, or between the two.
Tilts == {"up", "down", "rest", "between"}

\* What the craft may do under a command: with motors at rest it lies still;
\* more thrust in front than balances the rear lifts the front.
Leans(command) ==
  LET front == command.throttles[1] * (Width[0] - Target)
      rear == command.throttles[3] * Target
  IN  {"rest", "between"} \cup {t \in {"up"} : front > rear} \cup {t \in {"down"} : front < rear}

-----------------------------------------------------------------------------
(* The search *)

Midpoint == (com_correction_max + com_correction_min) \div 2

\* main(): the variables' initial values, before the first factor.
Init == /\ pc = "factor"
        /\ i = 0
        /\ com_correction_min = 0
        /\ com_correction_max = Width[0]
        /\ com_correction_factor = Width[1]
        /\ thrust = 0
        /\ next = 0
        /\ elapsed = 0
        /\ samples = <<>>
        /\ speeds = <<>>
        /\ inForce = Command(0, Width[1])
        /\ honest = TRUE

Running == pc \in {"factor", "ramp", "settle", "pause"}

\* main(): the head of the loop, with the first command of the iteration.
BeginIteration == /\ pc = "factor"
                  /\ com_correction_factor' = Midpoint
                  /\ thrust' = Rest
                  /\ next' = Interval
                  /\ elapsed' = 0
                  /\ SetThrust(Rest, Midpoint)
                  /\ pc' = "ramp"
                  /\ UNCHANGED <<i, com_correction_min, com_correction_max, world, honest>>

\* try_consume_message_for() returns a reading.
Consume(tilt) == /\ samples # <<>>
                 /\ Head(samples) = tilt
                 /\ samples' = Tail(samples)
                 /\ UNCHANGED inForce

NoRamp == thrust' = 0 /\ next' = 0 /\ elapsed' = 0

\* main(): leaves the first loop, and cuts the thrust back.
EndRamp == /\ pc = "ramp"
           /\ SetThrust(Rest, com_correction_factor)
           /\ pc' = "settle"
           /\ NoRamp
           /\ UNCHANGED <<i, com_correction_factor>>

\* Mutant: the other end of the bracket.
TooBigWrongEnd == /\ Consume("up")
                  /\ EndRamp
                  /\ com_correction_min' = com_correction_factor
                  /\ honest' = (honest /\ com_correction_factor > Target)
                  /\ UNCHANGED com_correction_max

\* main(): the front is up; "factor is too big".
TooBig == /\ Consume("up")
          /\ EndRamp
          /\ com_correction_max' = com_correction_factor
          /\ honest' = (honest /\ com_correction_factor > Target)
          /\ UNCHANGED com_correction_min

\* Mutant: both ends are moved.
TooSmallBothEnds == /\ Consume("down")
                    /\ EndRamp
                    /\ com_correction_min' = com_correction_factor
                    /\ com_correction_max' = com_correction_factor
                    /\ honest' = (honest /\ com_correction_factor < Target)

\* main(): the front is down; "factor is too small".
TooSmall == /\ Consume("down")
            /\ EndRamp
            /\ com_correction_min' = com_correction_factor
            /\ honest' = (honest /\ com_correction_factor < Target)
            /\ UNCHANGED com_correction_max

\* main(): no verdict.
Undecided == /\ pc = "ramp"
             /\ \E tilt \in {"rest", "between"} : Consume(tilt)
             /\ UNCHANGED <<pc, search, honest>>

\* main(): thrust < max_thrust, where repeated additions of the step may have
\* rounded a sum that equals the maximum to either side of it.
MayRaise == /\ elapsed > next
            /\ \/ thrust < MaxThrust
               \/ thrust = MaxThrust /\ thrust > Rest

MustRaise == elapsed > next /\ thrust < MaxThrust

\* main(): the next step of the ramp.
Raise == /\ Undecided
         /\ MayRaise
         /\ next' = next + Interval
         /\ thrust' = thrust + Ramp
         /\ SetThrust(thrust + Ramp, com_correction_factor)
         /\ UNCHANGED elapsed

\* main(): not yet, or no more.
Hold == /\ Undecided
        /\ ~MustRaise
        /\ UNCHANGED <<ramp, speeds>>

\* main(): "drone has returned to rest".
Settled == /\ pc = "settle"
           /\ Consume("rest")
           /\ pc' = "pause"
           /\ UNCHANGED <<search, ramp, speeds, honest>>

\* Mutant: a reading that is not one of rest stays in the queue.
UnsettledKeeps == FALSE

\* main(): the second loop goes on.
Unsettled == /\ pc = "settle"
             /\ \E tilt \in Tilts \ {"rest"} : Consume(tilt)
             /\ UNCHANGED <<pc, search, ramp, speeds, honest>>

\* main(): two seconds later, the next iteration or the result.
EndPause == /\ pc = "pause"
            /\ i' = i + 1
            /\ \/ i + 1 < Iterations /\ pc' = "factor" /\ UNCHANGED samples
               \/ i + 1 = Iterations /\ pc' = "done" /\ samples' = <<>>
            /\ UNCHANGED <<com_correction_min, com_correction_max, com_correction_factor,
                           ramp, inForce, speeds, honest>>

Search == \/ BeginIteration \/ TooBig \/ TooSmall \/ Raise \/ Hold
          \/ Settled \/ Unsettled \/ EndPause

(* How it ends otherwise *)

\* The process is gone, or stands still, with the readings in its queue.
End(label) == /\ Running
              /\ pc' = label
              /\ NoRamp
              /\ samples' = <<>>
              /\ UNCHANGED <<search, inForce, honest>>

\* Mutant: the handler publishes the thrust there is.
SigintKeeps == /\ SetThrust(thrust, com_correction_factor)
               /\ End("stopped")

\* sigint_handle(), on top of whatever main() was doing.
Sigint == /\ SetThrust(0, com_correction_factor)
          /\ End("stopped")

\* sigint_handle() publishes and allocates; on top of a call that does the
\* same it may never return.
SigintHangs == /\ pc # "pause"
               /\ End("hung")
               /\ UNCHANGED speeds

\* The connection to the broker is lost: publish() throws, or the queue ends
\* with a null message whose payload is asked for.
Crash == End("crashed") /\ UNCHANGED speeds

(* The world *)

Second == /\ pc = "ramp"
          /\ elapsed < Seconds
          /\ elapsed' = elapsed + 1
          /\ UNCHANGED <<pc, search, thrust, next, world, speeds, honest>>

\* The ADIRU publishes a reading.
Sample(tilt) == /\ Running
                /\ Len(samples) < SampleCap
                /\ tilt \in Leans(inForce)
                /\ samples' = Append(samples, tilt)
                /\ UNCHANGED <<pc, search, ramp, speeds, inForce, honest>>

\* The motors follow the next command.
Deliver == /\ speeds # <<>>
           /\ inForce' = Head(speeds)
           /\ speeds' = Tail(speeds)
           /\ UNCHANGED <<pc, search, ramp, samples, honest>>

\* The subscriber ends, and its queue with it.
Drop == /\ MayLose
        /\ speeds' = <<>>
        /\ UNCHANGED <<pc, search, ramp, world, honest>>

\* The controller is started again with --arm: whatever it was that turned the
\* motors, they now follow a round of its sequence.
Arm(round) == /\ MayLose
              /\ inForce' = [topic |-> "motors/speed", throttles |-> round]
              /\ UNCHANGED <<pc, search, ramp, samples, speeds, honest>>

\* The least and the most of a throttle, on all motors.
Rounds == {<<0, 0, 0, 0>>, <<1000, 1000, 1000, 1000>>}

Guidance == Search \/ Sigint \/ SigintHangs \/ Crash

Next == \/ Guidance \/ Second \/ Deliver \/ Drop
        \/ \E tilt \in Tilts : Sample(tilt)
        \/ \E round \in Rounds : Arm(round)

Spec == Init /\ [][Next]_vars

\* Guidance and the motors keep going, and the craft shows again and again
\* each reading that it may show again and again.
LiveSpec == /\ Spec
            /\ WF_vars(Search)
            /\ WF_vars(Deliver)
            /\ \A tilt \in Tilts : SF_vars(Sample(tilt))

-----------------------------------------------------------------------------
(* Properties *)

Commands == [topic : {"motors/speed"}, throttles : [1..4 -> Nat]]

\* The type of the state.
TypeOK == /\ pc \in {"factor", "ramp", "settle", "pause",
                     "done", "stopped", "hung", "crashed"}
          /\ i \in 0..Iterations
          /\ com_correction_min \in 0..Width[0]
          /\ com_correction_max \in 0..Width[0]
          /\ com_correction_factor \in 1..(Width[0] - 1)
          /\ thrust \in Nat /\ next \in Nat /\ elapsed \in Nat
          /\ samples \in Seq(Tilts)
          /\ speeds \in Seq(Commands)
          /\ inForce \in Commands
          /\ honest \in BOOLEAN

\* auto_com.cpp:104 to 136: however the verdicts fall, each halves the
\* bracket, whose midpoint is tried next, so that seven leave 1/128 of it.
Bisection ==
  /\ pc \in {"factor", "ramp"} => com_correction_max - com_correction_min = Width[i]
  /\ pc \in {"settle", "pause"} => com_correction_max - com_correction_min = Width[i + 1]
  /\ pc = "ramp" => /\ com_correction_factor - com_correction_min = Width[i + 1]
                    /\ com_correction_max - com_correction_factor = Width[i + 1]
  /\ pc = "done" => com_correction_max - com_correction_min = 2

\* As long as every verdict is true of the factor it is given on, the balance
\* is inside the bracket, and the result is next to it.
HonestResult ==
  honest => /\ com_correction_min < Target /\ Target < com_correction_max
            /\ pc = "done" => com_correction_factor - Target \in {-1, 1}

\* auto_com.cpp:128 to 135, the log's "factor is too big" and "too small": a
\* verdict is true of the factor it is given on.
VerdictTrue == honest

\* auto_com.cpp:74, "Maximum thrust allowed": no motor is commanded more than
\* --maxthrust, by the ramp or by the factor that shares it out.
ThrustAllowed == \A k \in DOMAIN speeds, m \in 1..4 : speeds[k].throttles[m] <= MaxThrust

\* The motors have been given what the ramp asks for, unless it is under way.
Obeyed == pc = "ramp" /\ speeds = <<>> => inForce = Command(thrust, com_correction_factor)

\* With a craft that leans and comes to rest the search ends, or else there
\* was nobody to take one of its commands, or the motors were armed during it.
SearchEnds == <>(~Running \/ ~Obeyed)
=============================================================================
