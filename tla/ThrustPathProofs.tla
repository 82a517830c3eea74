---------------------------- MODULE ThrustPathProofs ----------------------------
(***************************************************************************)
(* Proofs about ThrustPath, for any controller and any search: each of the *)
(* two behaves here as it does in its own module, and what is proved there *)
(* holds of them together.                                                 *)
(***************************************************************************)
EXTENDS ThrustPath, MotorControllerProofs

\* Guidance with what is proved about it.
G == INSTANCE AutoComProofs WITH speeds <- inbox, SpeedCap <- QueueCap, MayLose <- TRUE

\* What guidance and its neighbours see of a step that is not theirs.
Unseen == UNCHANGED <<guidance, inbox>>

LEMMA UnseenStutters == Unseen => UNCHANGED Guide!vars
BY DEF Unseen, guidance, Guide!vars, Guide!search, Guide!ramp, Guide!world

\* A step that publishes, or is silent, is a step of guidance.
LEMMA SearchSteps ==
  Searching \/ Interrupt \/ Ending => Guide!Next
<1> SUFFICES ASSUME Searching \/ Interrupt \/ Ending PROVE Guide!Next
  OBVIOUS
<1>1. Guide!Search \/ Guide!Sigint \/ Guide!SigintHangs \/ Guide!Crash
  BY DEF Searching, Publishing, Publish, Silent, Interrupt, Ending, Guide!Search
<1> QED
  BY <1>1 DEF Guide!Next, Guide!Guidance

LEMMA WorldSteps == World => Guide!Next
BY DEF World, Silent, Guide!Next

LEMMA TakeSteps == Take => Guide!Next
BY DEF Take, Guide!Next

\* The rounds of arming are what AutoCom expects of it.
LEMMA ArmingSteps == StartArming \/ NextArming => Guide!Next
<1>1. StartArming \/ NextArming => \E round \in {Zero, Full} : Guide!Arm(round)
  BY DEF StartArming, NextArming, Round
<1>2. \A round \in {Zero, Full} : round \in Guide!Rounds
  BY DEF Zero, Full, Guide!Rounds
<1> QED
  BY <1>1, <1>2 DEF Guide!Next

\* The controller's other steps leave its queue alone.
LEMMA ControlUnseen == Pulsing \/ Control => Unseen
<1> SUFFICES ASSUME Pulsing \/ Control PROVE Unseen
  OBVIOUS
<1>1. UNCHANGED guidance
  BY DEF Pulsing, Control
<1>2. CASE StartUnarmed
  BY <1>1, <1>2 DEF StartUnarmed, Unseen
<1>3. CASE LoseLink
  BY <1>1, <1>3 DEF LoseLink, Unseen
<1>4. ASSUME NEW ok \in BOOLEAN, Transfer(ok) PROVE Unseen
  BY <1>1, <1>4 DEF Transfer, process, Unseen
<1>5. ASSUME NEW ok \in BOOLEAN, NextMotor(ok) PROVE Unseen
  BY <1>1, <1>5 DEF NextMotor, process, Unseen
<1>6. ASSUME NEW ok \in BOOLEAN, Return(ok) PROVE Unseen
  BY <1>1, <1>6 DEF Return, Unseen
<1> QED
  BY <1>2, <1>3, <1>4, <1>5, <1>6 DEF Pulsing, Control

\* A controller that ends takes its queue with it.
LEMMA DieSteps == Die => Guide!Next
<1> SUFFICES ASSUME Die PROVE Guide!Drop
  BY DEF Guide!Next
<1>1. inbox' = <<>> /\ UNCHANGED guidance
  BY DEF Die, ConsumeNull, Kill, Exit
<1> QED
  BY <1>1 DEF Guide!Drop, guidance, Guide!search, Guide!ramp, Guide!world

\* Guidance among its neighbours behaves as in AutoCom.
LEMMA GuidanceKept == PathSpec => Guide!Spec
<1>1. PathInit => Guide!Init
  BY DEF PathInit
<1>2. [PathNext]_pathVars => [Guide!Next]_(Guide!vars)
  <2> SUFFICES ASSUME [PathNext]_pathVars PROVE [Guide!Next]_(Guide!vars)
    OBVIOUS
  <2>1. CASE UNCHANGED pathVars
    BY <2>1, UnseenStutters DEF pathVars, vars, process, guidance, Unseen
  <2>2. CASE PathNext
    BY <2>2, SearchSteps, WorldSteps, TakeSteps, ArmingSteps, ControlUnseen, DieSteps, UnseenStutters
    DEF PathNext
  <2> QED
    BY <2>1, <2>2
<1> QED
  BY <1>1, <1>2, PTL DEF PathSpec, Guide!Spec

-----------------------------------------------------------------------------
(* What is known of the search *)

LEMMA Assumed == G!GuidanceAssumption
BY PathAssumption DEF Guide!GuidanceAssumption, G!GuidanceAssumption

LEMMA SameInit == Guide!Init => G!Init
BY DEF Guide!Init, Guide!Command, Guide!Rear, G!Init, G!Command, G!Rear

LEMMA SameSearch == Guide!Search => G!Search
BY DEF Guide!Search, Guide!BeginIteration, Guide!TooBig, Guide!TooSmall, Guide!Raise, Guide!Hold,
       Guide!Settled, Guide!Unsettled, Guide!EndPause, Guide!SetThrust, Guide!Command, Guide!Rear,
       Guide!Midpoint, Guide!Consume, Guide!EndRamp, Guide!Undecided, Guide!MayRaise,
       Guide!MustRaise, Guide!NoRamp, Guide!search, Guide!ramp, Guide!world, Guide!Tilts,
       G!Search, G!BeginIteration, G!TooBig, G!TooSmall, G!Raise, G!Hold,
       G!Settled, G!Unsettled, G!EndPause, G!SetThrust, G!Command, G!Rear,
       G!Midpoint, G!Consume, G!EndRamp, G!Undecided, G!MayRaise,
       G!MustRaise, G!NoRamp, G!search, G!ramp, G!world, G!Tilts

LEMMA SameWorld ==
  ASSUME \/ Guide!Second \/ Guide!Deliver \/ Guide!Drop
         \/ \E tilt \in Guide!Tilts : Guide!Sample(tilt)
         \/ \E round \in Guide!Rounds : Guide!Arm(round)
  PROVE  \/ G!Second \/ G!Deliver \/ G!Drop
         \/ \E tilt \in G!Tilts : G!Sample(tilt)
         \/ \E round \in G!Rounds : G!Arm(round)
BY DEF Guide!Second, Guide!Sample, Guide!Deliver, Guide!Drop, Guide!Arm, Guide!Rounds,
       Guide!Tilts, Guide!Leans, Guide!Running, Guide!search, Guide!ramp, Guide!world,
       G!Second, G!Sample, G!Deliver, G!Drop, G!Arm, G!Rounds,
       G!Tilts, G!Leans, G!Running, G!search, G!ramp, G!world

LEMMA SameEnds ==
  Guide!Sigint \/ Guide!SigintHangs \/ Guide!Crash => G!Sigint \/ G!SigintHangs \/ G!Crash
BY DEF Guide!Sigint, Guide!SigintHangs, Guide!Crash, Guide!SetThrust, Guide!Command, Guide!Rear,
       Guide!End, Guide!NoRamp, Guide!Running, Guide!search, Guide!ramp, Guide!world,
       G!Sigint, G!SigintHangs, G!Crash, G!SetThrust, G!Command, G!Rear,
       G!End, G!NoRamp, G!Running, G!search, G!ramp, G!world

LEMMA SameNext == [Guide!Next]_(Guide!vars) => [G!Next]_(G!vars)
<1>1. Guide!Next => G!Next
  BY SameSearch, SameWorld, SameEnds DEF Guide!Next, Guide!Guidance, G!Next, G!Guidance
<1> QED
  BY <1>1 DEF Guide!vars, Guide!search, Guide!ramp, Guide!world,
              G!vars, G!search, G!ramp, G!world

\* The inductive invariant of AutoComProofs holds of guidance among its
\* neighbours.
LEMMA SearchKept == PathSpec => []G!IInv
<1>1. G!Spec => []G!IInv
  BY Assumed, G!Invariant
<1>2. Guide!Spec => G!Spec
  BY SameInit, SameNext, PTL DEF Guide!Spec, G!Spec
<1> QED
  BY <1>1, <1>2, GuidanceKept, PTL

-----------------------------------------------------------------------------
(* What the controller is given *)

SpeedMessages == [topic : {"motors/speed"}, throttles : Speeds]

\* The controller's queue holds commands it is for.
Fits == inbox \in Seq(SpeedMessages)

\* The last command that was forwarded is the last in the queue, or the one
\* that the controller took last.  A controller that is down or arms itself
\* has been forwarded none.
LastInv ==
  /\ cpc = "down" \/ arming # 0 => last = <<>>
  /\ last # <<>> => \/ inbox # <<>> /\ last = inbox[Len(inbox)]
                    \/ inbox = <<>> /\ vector # <<>> /\ vector = last.throttles

\* Nobody sets an LED: what the controller was told of a motor is in the vector.
AskedInv == vector # <<>> => \A m \in Motors : asked[m] = Micro(vector[m + 1])

\* What a step of guidance that publishes does to the controller.
Published(t, factor) ==
  /\ Guide!SetThrust(t, factor)
  /\ Subscribed <=> inbox' # inbox
  /\ last' = IF Subscribed THEN inbox'[Len(inbox')] ELSE last
  /\ UNCHANGED <<cpc, link, arming, vector, asked, call, chip>>

LEMMA SearchTypes ==
  ASSUME G!IInv
  PROVE  /\ com_correction_factor \in Factors
         /\ pc = "ramp" => thrust \in Thrusts
         /\ Rest \in Thrusts /\ 0 \in Thrusts
<1>1. /\ com_correction_factor \in Factors /\ thrust \in Nat
      /\ pc = "ramp" => thrust <= Rest \/ thrust <= MaxThrust + Ramp
  BY DEF G!IInv, G!TypeOK, G!RampInv, Factors
<1>2. Rest \in Nat /\ Ramp \in Nat /\ MaxThrust \in Nat
  BY Assumed DEF G!GuidanceAssumption
<1> QED
  BY <1>1, <1>2 DEF Thrusts

\* A command of the search is one the controller is for.
LEMMA PublishingSteps ==
  ASSUME G!IInv, G!IInv', Publishing \/ Interrupt
  PROVE  \E t \in Thrusts, factor \in Factors : Published(t, factor)
<1>1. /\ com_correction_factor \in Factors
      /\ Rest \in Thrusts /\ 0 \in Thrusts
  BY SearchTypes
<1>2. com_correction_factor' \in Factors /\ (pc' = "ramp" => thrust' \in Thrusts)
  BY DEF G!IInv, G!TypeOK, G!RampInv, Factors, Thrusts
<1>3. CASE Publish(Guide!BeginIteration)
  <2>1. Published(Rest, com_correction_factor')
    BY <1>3 DEF Publish, Published, Guide!BeginIteration
  <2> QED
    BY <1>1, <1>2, <2>1
<1>4. CASE Publish(Guide!TooBig) \/ Publish(Guide!TooSmall)
  <2>1. Published(Rest, com_correction_factor)
    BY <1>4 DEF Publish, Published, Guide!TooBig, Guide!TooSmall, Guide!EndRamp
  <2> QED
    BY <1>1, <2>1
<1>5. CASE Publish(Guide!Raise)
  <2>1. Published(thrust', com_correction_factor) /\ pc' = "ramp"
    BY <1>5 DEF Publish, Published, Guide!Raise, Guide!Undecided
  <2> QED
    BY <1>1, <1>2, <2>1
<1>6. CASE Interrupt
  <2>1. Published(0, com_correction_factor)
    BY <1>6 DEF Interrupt, Publish, Published, Guide!Sigint
  <2> QED
    BY <1>1, <2>1
<1> QED
  BY <1>3, <1>4, <1>5, <1>6 DEF Publishing

LEMMA CommandFits ==
  ASSUME NEW t \in Thrusts, NEW factor \in Factors
  PROVE  Guide!Command(t, factor) \in SpeedMessages
<1>1. Guide!Command(t, factor).throttles \in Speeds
  BY PathAssumption DEF Factors
<1> QED
  BY <1>1 DEF Guide!Command, SpeedMessages

\* It is forwarded, or passes the controller by.
LEMMA PublishedForwards ==
  ASSUME Fits, NEW t \in Thrusts, NEW factor \in Factors, Published(t, factor)
  PROVE  \/ /\ Forward(Guide!Command(t, factor))
            /\ inbox' = Append(inbox, Guide!Command(t, factor))
            /\ last' = inbox'[Len(inbox')]
         \/ UNCHANGED <<vars, last>>
<1> DEFINE c == Guide!Command(t, factor)
<1>1. c \in SpeedMessages
  BY CommandFits
<1>2. /\ Len(inbox) < QueueCap
      /\ inbox' = Append(inbox, c) \/ inbox' = inbox
  BY DEF Published, Guide!SetThrust
<1>3. CASE Subscribed
  BY <1>2, <1>3 DEF Published, Forward
<1>4. CASE ~Subscribed
  BY <1>4 DEF Published, vars, process
<1> QED
  BY <1>3, <1>4

LEMMA InitPath == PathInit => Fits /\ LastInv
BY DEF PathInit, Init, Fits, LastInv

\* The rounds of arming; the controller has been forwarded nothing yet.
LEMMA ArmingKeeps ==
  ASSUME Fits, LastInv, StartArming \/ NextArming
  PROVE  Fits' /\ LastInv'
<1>1. inbox' = inbox /\ last' = last /\ cpc' = "motors"
  BY DEF StartArming, StartArmed, NextArming, NextRound, SetMotors
<1>2. last = <<>>
  <2>1. cpc = "down" \/ arming # 0
    <3>1. CASE StartArming
      BY <3>1 DEF StartArming, StartArmed
    <3>2. CASE NextArming
      BY <3>2 DEF NextArming, NextRound
    <3> QED
      BY <3>1, <3>2
  <2> QED
    BY <2>1 DEF LastInv
<1> QED
  BY <1>1, <1>2 DEF Fits, LastInv

LEMMA ControlKeeps ==
  ASSUME Fits, LastInv, Pulsing \/ Control \/ Die
  PROVE  Fits' /\ LastInv'
<1>1. CASE StartUnarmed /\ UNCHANGED <<guidance, last>>
  BY <1>1 DEF StartUnarmed, Fits, LastInv
<1>2. ASSUME NEW ok \in BOOLEAN, Transfer(ok) \/ NextMotor(ok), UNCHANGED <<guidance, last>>
      PROVE  Fits' /\ LastInv'
  BY <1>2 DEF Transfer, NextMotor, process, Fits, LastInv
<1>3. ASSUME NEW ok \in BOOLEAN, Return(ok), UNCHANGED <<guidance, last>>
      PROVE  Fits' /\ LastInv'
  BY <1>3 DEF Return, Fits, LastInv
<1>4. CASE LoseLink /\ UNCHANGED <<guidance, last>>
  BY <1>4 DEF LoseLink, Fits, LastInv
<1>5. CASE Die
  <2>1. inbox' = <<>> /\ last' = <<>>
    BY <1>5 DEF Die, ConsumeNull, Kill, Exit
  <2> QED
    BY <2>1 DEF Fits, LastInv
<1> QED
  BY <1>1, <1>2, <1>3, <1>4, <1>5 DEF Pulsing, Control

\* The last element of a queue is that of its tail, or all there is.
LEMMA LastOfTail ==
  ASSUME NEW S, NEW q \in Seq(S), q # <<>>
  PROVE  /\ Head(q) = q[1] /\ Head(q) \in S
         /\ Tail(q) \in Seq(S)
         /\ Tail(q) # <<>> => Tail(q)[Len(Tail(q))] = q[Len(q)]
         /\ Tail(q) = <<>> => Len(q) = 1
<1>1. Len(q) \in Nat \ {0}
  OBVIOUS
<1>2. Tail(q) \in Seq(S) /\ Len(Tail(q)) = Len(q) - 1
  BY <1>1
<1>3. Head(q) = q[1] /\ Head(q) \in S
  OBVIOUS
<1>4. ASSUME Tail(q) = <<>> PROVE Len(q) = 1
  <2>1. Len(<<>>) = 0
    OBVIOUS
  <2>2. Len(Tail(q)) = 0
    BY <1>4, <2>1, Zenon
  <2>3. Len(q) - 1 = 0
    BY <1>2, <2>2, Zenon
  <2> QED
    BY <1>1, <2>3
<1>5. ASSUME Tail(q) # <<>> PROVE Tail(q)[Len(Tail(q))] = q[Len(q)]
  <2>1. Len(Tail(q)) \in Nat \ {0}
    BY <1>2, <1>5
  <2> QED
    BY <1>1, <1>2, <2>1
<1> QED
  BY <1>1, <1>2, <1>3, <1>4, <1>5

LEMMA TakeKeeps ==
  ASSUME Fits, LastInv, Take
  PROVE  Fits' /\ LastInv'
<1>1. /\ cpc = "consume" /\ cpc' = "motors" /\ arming' = arming /\ last' = last
      /\ inbox # <<>> /\ inbox' = Tail(inbox) /\ vector' = Head(inbox).throttles
  BY DEF Take, ConsumeSpeed, SetMotors
<1>2. inbox \in Seq(SpeedMessages)
  BY DEF Fits
<1>3. /\ Head(inbox) = inbox[1] /\ Head(inbox) \in SpeedMessages
      /\ Tail(inbox) \in Seq(SpeedMessages)
      /\ Tail(inbox) # <<>> => Tail(inbox)[Len(Tail(inbox))] = inbox[Len(inbox)]
      /\ Tail(inbox) = <<>> => Len(inbox) = 1
  BY <1>1, <1>2, LastOfTail
<1>4. Head(inbox).throttles # <<>>
  <2>1. Head(inbox).throttles \in [1..4 -> 0..MaxThrottle]
    BY <1>3, ControllerAssumption DEF SpeedMessages
  <2>2. DOMAIN Head(inbox).throttles = 1..4
    BY <2>1
  <2> QED
    BY <2>2
<1>5. last # <<>> => last = inbox[Len(inbox)]
  BY <1>1 DEF LastInv
<1>6. Fits'
  BY <1>1, <1>3 DEF Fits
<1>7. last' # <<>> => \/ inbox' # <<>> /\ last' = inbox'[Len(inbox')]
                      \/ inbox' = <<>> /\ vector' # <<>> /\ vector' = last'.throttles
  BY <1>1, <1>3, <1>4, <1>5
<1>8. (cpc' = "down" \/ arming' # 0) => last' = <<>>
  BY <1>1 DEF LastInv
<1> QED
  BY <1>6, <1>7, <1>8 DEF LastInv

LEMMA PublishedKeeps ==
  ASSUME Fits, LastInv, NEW t \in Thrusts, NEW factor \in Factors, Published(t, factor)
  PROVE  Fits' /\ LastInv'
<1> DEFINE c == Guide!Command(t, factor)
<1>1. c \in SpeedMessages
  BY CommandFits
<1> HIDE DEF c
<1>2. CASE Forward(c) /\ inbox' = Append(inbox, c) /\ last' = inbox'[Len(inbox')]
  <2>1. inbox' \in Seq(SpeedMessages) /\ inbox' # <<>>
    BY <1>1, <1>2 DEF Fits
  <2>2. cpc' # "down" /\ arming' = 0
    BY <1>2 DEF Forward, Subscribed
  <2> QED
    BY <1>2, <2>1, <2>2 DEF Fits, LastInv
<1>3. CASE UNCHANGED <<vars, last>>
  BY <1>3 DEF vars, process, Fits, LastInv
<1> QED
  BY <1>2, <1>3, PublishedForwards DEF c

\* A step that does not publish leaves the controller alone.
LEMMA SilentSteps ==
  ASSUME Searching \/ Ending \/ World, ~Publishing
  PROVE  UNCHANGED <<vars, last>>
BY DEF Searching, Ending, World, Silent

LEMMA PathKept ==
  ASSUME G!IInv, G!IInv', Fits, LastInv, [PathNext]_pathVars
  PROVE  Fits' /\ LastInv'
<1>1. CASE Publishing \/ Interrupt
  BY <1>1, PublishingSteps, PublishedKeeps
<1>2. CASE UNCHANGED <<vars, last>>
  BY <1>2 DEF vars, process, Fits, LastInv
<1>3. CASE UNCHANGED pathVars
  BY <1>2, <1>3 DEF pathVars
<1> QED
  BY <1>1, <1>2, <1>3, SilentSteps, TakeKeeps, ArmingKeeps, ControlKeeps DEF PathNext, Searching

LEMMA PathInvariant == PathSpec => [](Fits /\ LastInv)
BY InitPath, PathKept, SearchKept, PTL DEF PathSpec

\* Whoever sets the vector asks every motor for its pulse.
LEMMA SetAsks ==
  ASSUME NEW throttles, SetMotors(throttles)
  PROVE  AskedInv'
BY DEF SetMotors, AskedInv

LEMMA AskedKept ==
  ASSUME G!IInv, G!IInv', Fits, AskedInv, [PathNext]_pathVars
  PROVE  AskedInv'
<1>1. CASE Publishing \/ Interrupt
  <2>1. UNCHANGED <<vector, asked>>
    BY <1>1, PublishingSteps DEF Published
  <2> QED
    BY <2>1 DEF AskedInv
<1>2. CASE Take
  BY <1>2, SetAsks DEF Take, ConsumeSpeed
<1>3. CASE StartArming \/ NextArming
  BY <1>3, SetAsks DEF StartArming, StartArmed, NextArming, NextRound
<1>4. CASE Die
  BY <1>4 DEF Die, ConsumeNull, Kill, Exit, AskedInv
<1>5. CASE UNCHANGED <<vector, asked>>
  BY <1>5 DEF AskedInv
<1>6. CASE Pulsing \/ Control
  <2>1. UNCHANGED <<vector, asked>>
    BY <1>6 DEF Pulsing, Transfer, NextMotor, Return, process, Control, StartUnarmed, LoseLink
  <2> QED
    BY <2>1, <1>5
<1>7. UNCHANGED <<vars, last>> \/ UNCHANGED pathVars => UNCHANGED <<vector, asked>>
  BY DEF pathVars, vars, process
<1> QED
  BY <1>1, <1>2, <1>3, <1>4, <1>5, <1>6, <1>7, SilentSteps DEF PathNext, Searching

LEMMA AskedInvariant == PathSpec => []AskedInv
<1>1. PathInit => AskedInv
  BY DEF PathInit, Init, AskedInv
<1> QED
  BY <1>1, AskedKept, SearchKept, PathInvariant, PTL DEF PathSpec

-----------------------------------------------------------------------------
(* What the controller obeys *)

\* The throttles guidance may ask for.
Allowed == {Guide!Command(t, factor).throttles : t \in Thrusts, factor \in Factors}

\* Whatever waits is a command of the ramp, and so are the throttles that the
\* controller sets once it has subscribed; the last round of arming, which it
\* keeps until the first command, is the one for no thrust.
AllowedInv ==
  /\ \A k \in 1..Len(inbox) : inbox[k].throttles \in Allowed
  /\ cpc # "motors" => arming = 0
  /\ arming \in 0..3
  /\ arming = 1 => vector = Zero
  /\ arming = 0 => vector = <<>> \/ vector \in Allowed

LEMMA ZeroAllowed == Zero \in Allowed
<1>1. PICK w \in Nat : w = Width[0] /\ w - 1 \in Nat \ {0}
  <2>1. 0 \in 0..Iterations /\ Width \in [0..Iterations -> Nat \ {0}]
    BY Assumed DEF G!GuidanceAssumption
  <2>2. Width[0] \in Nat
    BY <2>1
  <2>3. Target \in 1..(Width[0] - 1)
    BY Assumed DEF G!GuidanceAssumption
  <2> QED
    BY <2>2, <2>3
<1>2. 1 \in Factors /\ 0 \in Thrusts
  <2>1. Rest \in Nat
    BY Assumed DEF G!GuidanceAssumption
  <2> QED
    BY <1>1, <2>1 DEF Factors, Thrusts
<1>3. Guide!Rear(0, 1) = 0
  BY <1>1 DEF Guide!Rear
<1>4. Guide!Command(0, 1).throttles = Zero
  BY <1>3 DEF Guide!Command, Zero
<1> QED
  BY <1>2, <1>4 DEF Allowed

LEMMA InitAllowed == PathInit => AllowedInv
BY DEF PathInit, Init, AllowedInv

LEMMA ArmingAllowed ==
  ASSUME AllowedInv, StartArming \/ NextArming
  PROVE  AllowedInv'
<1>1. CASE StartArming
  <2>1. /\ arming' = 3 /\ cpc' = "motors" /\ inbox' = inbox
    BY <1>1 DEF StartArming, StartArmed, SetMotors
  <2> QED
    BY <2>1 DEF AllowedInv
<1>2. ASSUME NEW ok \in BOOLEAN, NextRound(ok) PROVE AllowedInv'
  <2>1. /\ arming' = arming - 1 /\ arming > 1 /\ vector' = Round(arming - 1)
        /\ inbox' = inbox /\ cpc' = "motors"
    BY <1>2 DEF NextRound, SetMotors
  <2>2. arming' \in 0..3 /\ arming' # 0
    BY <2>1 DEF AllowedInv
  <2>3. arming' = 1 => vector' = Zero
    BY <2>1 DEF Round
  <2> QED
    BY <2>1, <2>2, <2>3 DEF AllowedInv
<1> QED
  BY <1>1, <1>2 DEF NextArming

LEMMA ControlAllowed ==
  ASSUME AllowedInv, Pulsing \/ Control \/ Die
  PROVE  AllowedInv'
<1>1. CASE StartUnarmed
  BY <1>1 DEF StartUnarmed, AllowedInv
<1>2. ASSUME NEW ok \in BOOLEAN, Transfer(ok) \/ NextMotor(ok) PROVE AllowedInv'
  BY <1>2 DEF Transfer, NextMotor, process, AllowedInv
<1>3. ASSUME NEW ok \in BOOLEAN, Return(ok) PROVE AllowedInv'
  <2>1. /\ cpc' = "consume" /\ arming' = 0 /\ inbox' = inbox /\ vector' = vector
        /\ cpc = "led" \/ arming <= 1
    BY <1>3 DEF Return
  <2>2. vector = <<>> \/ vector \in Allowed
    BY <2>1, ZeroAllowed DEF AllowedInv
  <2> QED
    BY <2>1, <2>2 DEF AllowedInv
<1>4. CASE LoseLink
  BY <1>4 DEF LoseLink, AllowedInv
<1>5. CASE Die
  <2>1. inbox' = <<>> /\ cpc' = "down" /\ arming' = 0 /\ vector' = <<>>
    BY <1>5 DEF Die, ConsumeNull, Kill, Exit
  <2> QED
    BY <2>1 DEF AllowedInv
<1> QED
  BY <1>1, <1>2, <1>3, <1>4, <1>5 DEF Pulsing, Control

LEMMA TakeAllowed ==
  ASSUME Fits, AllowedInv, Take
  PROVE  AllowedInv'
<1>1. /\ cpc' = "motors" /\ arming' = arming /\ cpc = "consume"
      /\ inbox # <<>> /\ inbox' = Tail(inbox) /\ vector' = Head(inbox).throttles
  BY DEF Take, ConsumeSpeed, SetMotors
<1>2. inbox \in Seq(SpeedMessages) /\ \A k \in 1..Len(inbox) : inbox[k].throttles \in Allowed
  BY DEF Fits, AllowedInv
<1>3. Head(inbox).throttles \in Allowed
  <2>1. Head(inbox) = inbox[1] /\ 1 \in 1..Len(inbox)
    BY <1>1, <1>2
  <2> QED
    BY <1>2, <2>1
<1>4. \A k \in 1..Len(Tail(inbox)) : Tail(inbox)[k].throttles \in Allowed
  BY <1>1, <1>2
<1> QED
  BY <1>1, <1>3, <1>4 DEF AllowedInv

LEMMA PublishedAllowed ==
  ASSUME Fits, AllowedInv, NEW t \in Thrusts, NEW factor \in Factors, Published(t, factor)
  PROVE  AllowedInv'
<1> DEFINE c == Guide!Command(t, factor)
<1>1. c \in SpeedMessages /\ c.throttles \in Allowed
  BY CommandFits DEF Allowed
<1> HIDE DEF c
<1>2. CASE Forward(c) /\ inbox' = Append(inbox, c)
  <2>1. \A k \in 1..Len(inbox') : inbox'[k].throttles \in Allowed
    BY <1>1, <1>2 DEF Fits, AllowedInv
  <2> QED
    BY <1>2, <2>1 DEF Forward, AllowedInv
<1>3. CASE UNCHANGED <<vars, last>>
  BY <1>3 DEF vars, process, AllowedInv
<1> QED
  BY <1>2, <1>3, PublishedForwards DEF c

LEMMA AllowedKept ==
  ASSUME G!IInv, G!IInv', Fits, AllowedInv, [PathNext]_pathVars
  PROVE  AllowedInv'
<1>1. CASE Publishing \/ Interrupt
  BY <1>1, PublishingSteps, PublishedAllowed
<1>2. CASE UNCHANGED <<vars, last>>
  BY <1>2 DEF vars, process, AllowedInv
<1>3. CASE UNCHANGED pathVars
  BY <1>2, <1>3 DEF pathVars
<1> QED
  BY <1>1, <1>2, <1>3, SilentSteps, TakeAllowed, ArmingAllowed, ControlAllowed DEF PathNext, Searching

LEMMA AllowedInvariant == PathSpec => []AllowedInv
BY InitAllowed, AllowedKept, SearchKept, PathInvariant, PTL DEF PathSpec

-----------------------------------------------------------------------------
(* The controller, and the two together *)

\* motor_controller.cpp among its neighbours: with guidance as the only one
\* that commands it, it is the controller of MotorController, so that what is
\* proved of its pulses holds here.
THEOREM UsesController == PathSpec => Spec
<1>1. PathInit => Init
  BY DEF PathInit
<1>2. ASSUME G!IInv, G!IInv', Fits, [PathNext]_pathVars PROVE [Next]_vars
  <2>1. CASE Publishing \/ Interrupt
    <3>1. PICK t \in Thrusts, factor \in Factors : Published(t, factor)
      BY <1>2, <2>1, PublishingSteps
    <3>2. Guide!Command(t, factor) \in Messages
      BY CommandFits DEF SpeedMessages, Messages
    <3> QED
      BY <1>2, <3>1, <3>2, PublishedForwards DEF Next
  <2>2. CASE UNCHANGED <<vars, last>>
    BY <2>2
  <2>3. CASE Take \/ StartArming \/ NextArming \/ Control \/ Die
    BY <2>3 DEF Take, StartArming, NextArming, Control, Die, Next, Controller, WriteStep
  <2>4. CASE Pulsing
    BY <2>4 DEF Pulsing, Next, Controller, WriteStep
  <2>5. CASE UNCHANGED pathVars
    BY <2>5 DEF pathVars
  <2> QED
    BY <1>2, <2>1, <2>2, <2>3, <2>4, <2>5, SilentSteps DEF PathNext, Searching
<1> QED
  BY <1>1, <1>2, SearchKept, PathInvariant, PTL DEF PathSpec, Spec

\* A vector that has been set is in force.
LEMMA VectorInForce ==
  ASSUME cpc = "consume", InForce, AskedInv, vector # <<>>, vector \in [1..4 -> Nat]
  PROVE  \A m \in Motors \ bad : Pulse(m) = Cycle(Micro(vector[m + 1]))
<1> SUFFICES ASSUME NEW m \in Motors \ bad PROVE Pulse(m) = Cycle(Micro(vector[m + 1]))
  OBVIOUS
<1>1. asked[m] = Micro(vector[m + 1])
  BY DEF AskedInv
<1>2. asked[m] # None
  <2>1. vector[m + 1] \in Nat
    BY DEF Motors
  <2>2. Micro(vector[m + 1]) \in Nat
    BY <2>1, MicroType
  <2> QED
    BY <1>1, <2>2 DEF None
<1> QED
  BY <1>1, <1>2 DEF InForce

\* What the controller has set last is all there is to do with an empty queue.
LEMMA LastIsVector ==
  ASSUME cpc = "consume", InForce, AskedInv, LastInv, vector # <<>> => vector \in [1..4 -> Nat]
  PROVE  LastFollowed
BY VectorInForce DEF LastInv, LastFollowed, Commanded

\* What the controller has set last is what the ramp may ask for.
LEMMA VectorIsAllowed ==
  ASSUME cpc = "consume", InForce, AskedInv, AllowedInv,
         vector # <<>> => vector \in [1..4 -> Nat]
  PROVE  RampAllows
<1> SUFFICES ASSUME vector # <<>>
             PROVE  \E t \in Thrusts, factor \in Factors :
                      /\ \A m \in {0, 1} \ bad : Pulse(m) = Cycle(Micro(t))
                      /\ \A m \in {2, 3} \ bad :
                           Pulse(m) = Cycle(Micro(Guide!Rear(t, factor)))
  BY DEF RampAllows
<1>1. vector \in Allowed
  BY DEF AllowedInv
<1>2. PICK t \in Thrusts, factor \in Factors : vector = Guide!Command(t, factor).throttles
  BY <1>1 DEF Allowed
<1>3. /\ vector[1] = t /\ vector[2] = t
      /\ vector[3] = Guide!Rear(t, factor) /\ vector[4] = Guide!Rear(t, factor)
  BY <1>2 DEF Guide!Command
<1>4. \A m \in Motors \ bad : Pulse(m) = Cycle(Micro(vector[m + 1]))
  BY VectorInForce
<1>5. ASSUME NEW m \in {0, 1} \ bad PROVE Pulse(m) = Cycle(Micro(t))
  <2>1. m \in Motors \ bad /\ vector[m + 1] = t
    BY <1>3, <1>5 DEF Motors
  <2> QED
    BY <1>4, <2>1
<1>6. ASSUME NEW m \in {2, 3} \ bad PROVE Pulse(m) = Cycle(Micro(Guide!Rear(t, factor)))
  <2>1. m \in Motors \ bad /\ vector[m + 1] = Guide!Rear(t, factor)
    BY <1>3, <1>6 DEF Motors
  <2> QED
    BY <1>4, <2>1
<1> QED
  BY <1>5, <1>6

\* Between two messages every motor that no failed transfer has left in doubt
\* makes the pulse of the last command that reached the controller, once the queue
\* is consumed, and before that still one of the ramp (auto_com.cpp:32 to 37,
\* motor_controller.cpp:54 to 67 and 100 to 113), for every ramp, every length of
\* the queue and any number of restarts, with arming or without.
THEOREM FollowedCorrect == PathSpec => []Followed
<1>1. ASSUME TypeOK, InForce, AskedInv, LastInv, AllowedInv PROVE Followed
  <2>1. vector # <<>> => vector \in [1..4 -> Nat]
    BY <1>1, CommandTypes DEF TypeOK, Zero, Full
  <2> QED
    BY <1>1, <2>1, LastIsVector, VectorIsAllowed DEF Followed
<1> QED
  BY <1>1, UsesController, TypeCorrect, InForceCorrect, PathInvariant, AskedInvariant,
     AllowedInvariant, PTL
=============================================================================
