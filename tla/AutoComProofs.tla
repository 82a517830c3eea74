----------------------------- MODULE AutoComProofs -----------------------------
(***************************************************************************)
(* Proofs about AutoCom, for every number of iterations, ramp, balance and *)
(* bound.                                                                  *)
(***************************************************************************)
EXTENDS AutoCom, TLAPS

\* What the search knows between two steps: the bracket, the factor in it,
\* and how far the ramp can have come.
SearchInv ==
  /\ 0 <= com_correction_min /\ com_correction_max <= Width[0]
  /\ pc \in {"factor", "ramp", "settle", "pause"} => i < Iterations
  /\ Bisection
  /\ pc \in {"settle", "pause", "done"} =>
       com_correction_factor \in {com_correction_min, com_correction_max}
  /\ honest => com_correction_min < Target /\ Target < com_correction_max

RampInv ==
  pc = "ramp" =>
    thrust <= Rest \/ thrust <= MaxThrust + Ramp

IInv == TypeOK /\ SearchInv /\ RampInv

-----------------------------------------------------------------------------
\* The widths are positive, and the first is the sum of two of the second.
LEMMA WidthFacts ==
  /\ Width[0] \in Nat \ {0} /\ Width[1] \in Nat \ {0}
  /\ Width[0] = 2 * Width[1]
  /\ \A k \in 0..Iterations : Width[k] \in Nat \ {0}
  /\ \A k \in 0..(Iterations - 1) : Width[k] = 2 * Width[k + 1]
<1>1. \A k \in 0..Iterations : Width[k] \in Nat \ {0}
  BY GuidanceAssumption
<1>2. \A k \in 0..(Iterations - 1) : Width[k] = 2 * Width[k + 1]
  <2> SUFFICES ASSUME NEW k \in 0..(Iterations - 1) PROVE Width[k] = 2 * Width[k + 1]
    OBVIOUS
  <2>1. k + 1 \in 1..Iterations /\ (k + 1) - 1 = k
    BY GuidanceAssumption
  <2> QED
    BY <2>1, GuidanceAssumption
<1> QED
  BY <1>1, <1>2, GuidanceAssumption

\* The quotient of two naturals is one.
LEMMA Quotient ==
  ASSUME NEW a \in Nat, NEW b \in Nat \ {0}
  PROVE  a \div b \in Nat
OBVIOUS

LEMMA Product ==
  ASSUME NEW a \in Nat, NEW b \in Nat
  PROVE  a * b \in Nat
OBVIOUS

\* Every command set_thrust() can publish has the type of one.
LEMMA CommandType ==
  ASSUME NEW t \in Nat, NEW factor \in 1..(Width[0] - 1)
  PROVE  Command(t, factor) \in Commands
<1>1. Width[0] \in Nat /\ Width[0] - factor \in Nat /\ factor \in Nat \ {0}
  BY WidthFacts
<1>2. t * (Width[0] - factor) \in Nat
  BY <1>1, Product
<1>3. Rear(t, factor) \in Nat
  BY <1>1, <1>2, Quotient DEF Rear
<1> QED
  BY <1>3 DEF Command, Commands

\* A published command keeps the queue a queue of commands.
LEMMA Publishing ==
  ASSUME TypeOK, NEW t \in Nat, NEW factor \in 1..(Width[0] - 1),
         SetThrust(t, factor)
  PROVE  speeds' \in Seq(Commands)
<1>1. Command(t, factor) \in Commands
  BY CommandType
<1>2. speeds \in Seq(Commands)
  BY DEF TypeOK
<1> QED
  BY <1>1, <1>2 DEF SetThrust

\* The rest of a queue is a queue of what was in it.
LEMMA QueueRest ==
  ASSUME NEW S, NEW q \in Seq(S), q # <<>>
  PROVE  /\ Head(q) \in S
         /\ Tail(q) \in Seq(S)
OBVIOUS

\* A reading is taken; commands in flight are not concerned.
LEMMA Consuming ==
  ASSUME TypeOK, NEW tilt, Consume(tilt)
  PROVE  samples' \in Seq(Tilts) /\ inForce' \in Commands
BY QueueRest DEF TypeOK, Consume

\* The state before the first factor.
LEMMA InitInv == Init => IInv
<1> SUFFICES ASSUME Init PROVE IInv
  OBVIOUS
<1>1. Width[1] \in 1..(Width[0] - 1)
  BY WidthFacts
<1>2. Command(0, Width[1]) \in Commands
  BY <1>1, CommandType
<1>3. TypeOK
  BY <1>1, <1>2, WidthFacts, GuidanceAssumption, SMTT(60) DEF Init, TypeOK
<1>4. SearchInv
  <2>1. Width[0] \in Nat
    BY WidthFacts
  <2>2. Bisection
    BY <2>1 DEF Init, Bisection
  <2>3. 0 < Target /\ Target < Width[0] /\ 0 < Iterations
    BY <2>1, GuidanceAssumption
  <2> QED
    BY <2>1, <2>2, <2>3 DEF Init, SearchInv
<1>5. RampInv
  BY DEF Init, RampInv
<1> QED
  BY <1>3, <1>4, <1>5 DEF IInv

\* The midpoint splits the bracket of an iteration into two of the next.
LEMMA MidpointFacts ==
  ASSUME IInv, pc \in {"factor", "ramp"}
  PROVE  /\ Midpoint - com_correction_min = Width[i + 1]
         /\ com_correction_max - Midpoint = Width[i + 1]
         /\ Midpoint \in 1..(Width[0] - 1)
<1>1. /\ com_correction_max - com_correction_min = Width[i]
      /\ com_correction_min \in 0..Width[0] /\ com_correction_max \in 0..Width[0]
  BY DEF IInv, SearchInv, Bisection, TypeOK
<1>2. i \in 0..(Iterations - 1) /\ i + 1 \in 0..Iterations
  BY GuidanceAssumption DEF IInv, SearchInv, TypeOK
<1>3. Width[i] = 2 * Width[i + 1] /\ Width[i + 1] \in Nat \ {0}
  BY <1>2, WidthFacts
<1>4. com_correction_max + com_correction_min = 2 * (com_correction_min + Width[i + 1])
  BY <1>1, <1>3, WidthFacts
<1>5. Midpoint = com_correction_min + Width[i + 1]
  BY <1>1, <1>3, <1>4, WidthFacts DEF Midpoint
<1> QED
  BY <1>1, <1>3, <1>5, WidthFacts

LEMMA BeginInv == IInv /\ BeginIteration => IInv'
<1> SUFFICES ASSUME IInv, BeginIteration PROVE IInv'
  OBVIOUS
<1> USE DEF BeginIteration, world, search, ramp
<1>1. /\ Midpoint - com_correction_min = Width[i + 1]
      /\ com_correction_max - Midpoint = Width[i + 1]
      /\ Midpoint \in 1..(Width[0] - 1)
  BY MidpointFacts
<1>2. speeds' \in Seq(Commands)
  BY <1>1, Publishing, GuidanceAssumption DEF IInv
<1>3. TypeOK'
  BY <1>1, <1>2, GuidanceAssumption DEF IInv, TypeOK
<1>4. SearchInv'
  <2>1. Bisection'
    BY <1>1 DEF IInv, SearchInv, Bisection
  <2> QED
    BY <2>1 DEF IInv, SearchInv
<1>5. RampInv'
  BY GuidanceAssumption DEF RampInv
<1> QED
  BY <1>3, <1>4, <1>5 DEF IInv

\* A verdict: what both have in common.
LEMMA VerdictFacts ==
  ASSUME IInv, NEW tilt, Consume(tilt), EndRamp
  PROVE  /\ samples' \in Seq(Tilts) /\ inForce' \in Commands
         /\ speeds' \in Seq(Commands) /\ RampInv'
         /\ pc = "ramp" /\ pc' = "settle"
         /\ i' = i /\ com_correction_factor' = com_correction_factor
         /\ thrust' \in Nat /\ next' \in Nat /\ elapsed' \in Nat
<1>1. samples' \in Seq(Tilts) /\ inForce' \in Commands
  BY Consuming DEF IInv
<1>2. com_correction_factor \in 1..(Width[0] - 1)
  BY DEF IInv, TypeOK
<1>3. speeds' \in Seq(Commands)
  BY <1>2, Publishing, GuidanceAssumption DEF IInv, EndRamp
<1>4. RampInv'
  BY DEF EndRamp, RampInv
<1> QED
  BY <1>1, <1>3, <1>4 DEF EndRamp, NoRamp

LEMMA TooBigInv == IInv /\ TooBig => IInv'
<1> SUFFICES ASSUME IInv, TooBig PROVE IInv'
  OBVIOUS
<1> USE DEF TooBig
<1>1. /\ samples' \in Seq(Tilts) /\ inForce' \in Commands
      /\ speeds' \in Seq(Commands) /\ RampInv'
      /\ pc = "ramp" /\ pc' = "settle"
      /\ i' = i /\ com_correction_factor' = com_correction_factor
      /\ thrust' \in Nat /\ next' \in Nat /\ elapsed' \in Nat
  BY VerdictFacts
<1>2. TypeOK'
  <2>1. /\ com_correction_min' \in 0..Width[0]
        /\ com_correction_factor' \in 1..(Width[0] - 1)
    BY <1>1, Zenon DEF IInv, TypeOK
  <2>2. com_correction_max' \in 0..Width[0]
    BY WidthFacts DEF IInv, TypeOK
  <2>3. i' \in 0..Iterations /\ honest' \in BOOLEAN
    BY <1>1, Zenon DEF IInv, TypeOK
  <2> QED
    BY <1>1, <2>1, <2>2, <2>3, Zenon DEF TypeOK
<1>3. Bisection'
  BY <1>1, GuidanceAssumption DEF IInv, SearchInv, Bisection, TypeOK
<1>4. honest' => honest /\ com_correction_factor > Target
  OBVIOUS
<1>5. honest' => com_correction_min' < Target /\ Target < com_correction_max'
  BY <1>1, <1>4 DEF IInv, SearchInv
<1>6. SearchInv'
  <2>1. com_correction_factor \in 1..(Width[0] - 1) /\ Width[0] \in Nat
    BY WidthFacts DEF IInv, TypeOK
  <2>2. 0 <= com_correction_min' /\ com_correction_max' <= Width[0]
    BY <2>1 DEF IInv, SearchInv
  <2>3. i < Iterations
    BY <1>1 DEF IInv, SearchInv
  <2> QED
    BY <1>1, <1>3, <1>5, <2>2, <2>3 DEF SearchInv
<1> QED
  BY <1>1, <1>2, <1>6 DEF IInv

LEMMA TooSmallInv == IInv /\ TooSmall => IInv'
<1> SUFFICES ASSUME IInv, TooSmall PROVE IInv'
  OBVIOUS
<1> USE DEF TooSmall
<1>1. /\ samples' \in Seq(Tilts) /\ inForce' \in Commands
      /\ speeds' \in Seq(Commands) /\ RampInv'
      /\ pc = "ramp" /\ pc' = "settle"
      /\ i' = i /\ com_correction_factor' = com_correction_factor
      /\ thrust' \in Nat /\ next' \in Nat /\ elapsed' \in Nat
  BY VerdictFacts
<1>2. TypeOK'
  <2>1. /\ com_correction_max' \in 0..Width[0]
        /\ com_correction_factor' \in 1..(Width[0] - 1)
    BY <1>1, Zenon DEF IInv, TypeOK
  <2>2. com_correction_min' \in 0..Width[0]
    BY WidthFacts DEF IInv, TypeOK
  <2>3. i' \in 0..Iterations /\ honest' \in BOOLEAN
    BY <1>1, Zenon DEF IInv, TypeOK
  <2> QED
    BY <1>1, <2>1, <2>2, <2>3, Zenon DEF TypeOK
<1>3. Bisection'
  BY <1>1, GuidanceAssumption DEF IInv, SearchInv, Bisection, TypeOK
<1>4. honest' => honest /\ com_correction_factor < Target
  OBVIOUS
<1>5. honest' => com_correction_min' < Target /\ Target < com_correction_max'
  BY <1>1, <1>4 DEF IInv, SearchInv
<1>6. SearchInv'
  <2>1. com_correction_factor \in 1..(Width[0] - 1) /\ Width[0] \in Nat
    BY WidthFacts DEF IInv, TypeOK
  <2>2. 0 <= com_correction_min' /\ com_correction_max' <= Width[0]
    BY <2>1 DEF IInv, SearchInv
  <2>3. i < Iterations
    BY <1>1 DEF IInv, SearchInv
  <2> QED
    BY <1>1, <1>3, <1>5, <2>2, <2>3 DEF SearchInv
<1> QED
  BY <1>1, <1>2, <1>6 DEF IInv

LEMMA RaiseInv == IInv /\ Raise => IInv'
<1> SUFFICES ASSUME IInv, Raise PROVE IInv'
  OBVIOUS
<1> USE DEF Raise, Undecided, search
<1>1. samples' \in Seq(Tilts) /\ inForce' \in Commands
  BY Consuming DEF IInv
<1>2. /\ com_correction_factor \in 1..(Width[0] - 1)
      /\ thrust \in Nat /\ next \in Nat /\ elapsed \in Nat
  BY DEF IInv, TypeOK
<1>3. thrust + Ramp \in Nat /\ thrust + Ramp <= MaxThrust + Ramp
  BY <1>2, GuidanceAssumption DEF MayRaise
<1>4. speeds' \in Seq(Commands)
  BY <1>2, <1>3, Publishing DEF IInv
<1>5. TypeOK'
  BY <1>1, <1>2, <1>3, <1>4, GuidanceAssumption DEF IInv, TypeOK
<1>6. SearchInv'
  BY DEF IInv, SearchInv, Bisection
<1>7. RampInv'
  BY <1>3 DEF RampInv
<1> QED
  BY <1>5, <1>6, <1>7 DEF IInv

\* The steps after which the search is where it was.
LEMMA OtherInv ==
  /\ IInv /\ Hold => IInv'
  /\ IInv /\ Settled => IInv'
  /\ IInv /\ Unsettled => IInv'
<1> USE DEF IInv, SearchInv, RampInv, Bisection, search, ramp
<1>1. IInv /\ Hold => IInv'
  BY Consuming DEF Hold, Undecided, TypeOK
<1>2. IInv /\ Settled => IInv'
  BY Consuming DEF Settled, TypeOK
<1>3. IInv /\ Unsettled => IInv'
  BY Consuming DEF Unsettled, TypeOK
<1> QED
  BY <1>1, <1>2, <1>3

LEMMA EndPauseInv == IInv /\ EndPause => IInv'
<1> SUFFICES ASSUME IInv, EndPause PROVE IInv'
  OBVIOUS
<1> USE DEF EndPause, ramp
<1>1. i \in 0..(Iterations - 1) /\ i + 1 \in 0..Iterations
  BY GuidanceAssumption DEF IInv, SearchInv, TypeOK
<1>2. TypeOK'
  <2>1. samples \in Seq(Tilts) /\ <<>> \in Seq(Tilts)
    BY DEF IInv, TypeOK
  <2>2. samples' \in Seq(Tilts) /\ pc' \in {"factor", "done"}
    BY <2>1
  <2> QED
    BY <1>1, <2>2 DEF IInv, TypeOK
<1>3. Bisection'
  BY <1>1, GuidanceAssumption DEF IInv, SearchInv, Bisection
<1>4. SearchInv'
  BY <1>1, <1>3, GuidanceAssumption DEF IInv, SearchInv
<1>5. RampInv'
  BY DEF RampInv
<1> QED
  BY <1>2, <1>4, <1>5 DEF IInv

\* The three ways to end before that.
LEMMA EndInv ==
  ASSUME IInv, NEW label \in {"stopped", "hung", "crashed"}, End(label),
         speeds' \in Seq(Commands)
  PROVE  IInv'
<1> USE DEF End, NoRamp, search
<1>1. TypeOK'
  BY DEF IInv, TypeOK
<1>2. SearchInv' /\ RampInv'
  BY DEF IInv, SearchInv, Bisection, RampInv
<1> QED
  BY <1>1, <1>2 DEF IInv

LEMMA EndsInv == IInv /\ (Sigint \/ SigintHangs \/ Crash) => IInv'
<1>1. ASSUME IInv, Sigint PROVE IInv'
  <2>1. speeds' \in Seq(Commands)
    BY <1>1, Publishing, GuidanceAssumption DEF Sigint, IInv, TypeOK
  <2> QED
    BY <1>1, <2>1, EndInv DEF Sigint
<1>2. ASSUME IInv, SigintHangs \/ Crash PROVE IInv'
  <2>1. speeds' \in Seq(Commands)
    BY <1>2 DEF SigintHangs, Crash, IInv, TypeOK
  <2> QED
    BY <1>2, <2>1, EndInv DEF SigintHangs, Crash
<1> QED
  BY <1>1, <1>2

\* Time, the craft, the broker and the controller.
LEMMA WorldInv ==
  /\ IInv /\ Second => IInv'
  /\ \A tilt \in Tilts : IInv /\ Sample(tilt) => IInv'
  /\ IInv /\ Deliver => IInv'
  /\ IInv /\ Drop => IInv'
  /\ \A round \in Rounds : IInv /\ Arm(round) => IInv'
<1> USE DEF IInv, search, ramp, world
<1>1. IInv /\ Second => IInv'
  BY GuidanceAssumption DEF Second, TypeOK, SearchInv, Bisection, RampInv
<1>2. ASSUME IInv, NEW tilt \in Tilts, Sample(tilt) PROVE IInv'
  BY <1>2 DEF Sample, TypeOK, SearchInv, Bisection, RampInv
<1>3. ASSUME IInv, Deliver PROVE IInv'
  <2>1. Head(speeds) \in Commands /\ Tail(speeds) \in Seq(Commands)
    BY <1>3, QueueRest DEF TypeOK, Deliver
  <2> QED
    BY <1>3, <2>1 DEF Deliver, TypeOK, SearchInv, Bisection, RampInv
<1>4. IInv /\ Drop => IInv'
  BY DEF Drop, TypeOK, SearchInv, Bisection, RampInv
<1>5. ASSUME IInv, NEW round \in Rounds, Arm(round) PROVE IInv'
  <2>1. round \in [1..4 -> Nat]
    BY DEF Rounds
  <2>2. inForce' \in Commands
    BY <1>5, <2>1 DEF Arm, Commands
  <2> QED
    BY <1>5, <2>2 DEF Arm, TypeOK, SearchInv, Bisection, RampInv
<1> QED
  BY <1>1, <1>2, <1>3, <1>4, <1>5

LEMMA NextInv == IInv /\ [Next]_vars => IInv'
<1> SUFFICES ASSUME IInv, [Next]_vars PROVE IInv'
  OBVIOUS
<1>1. CASE UNCHANGED vars
  BY <1>1 DEF vars, search, ramp, world, IInv, TypeOK, SearchInv, Bisection, RampInv
<1>2. CASE Search
  BY <1>2, BeginInv, TooBigInv, TooSmallInv, RaiseInv, OtherInv, EndPauseInv DEF Search
<1>3. CASE Sigint \/ SigintHangs \/ Crash
  BY <1>3, EndsInv
<1>4. CASE \/ Second \/ Deliver \/ Drop
           \/ \E tilt \in Tilts : Sample(tilt)
           \/ \E round \in Rounds : Arm(round)
  BY <1>4, WorldInv
<1> QED
  BY <1>1, <1>2, <1>3, <1>4 DEF Next, Guidance

-----------------------------------------------------------------------------
\* The inductive invariant holds in every behaviour of guidance.
THEOREM Invariant == Spec => []IInv
BY InitInv, NextInv, PTL DEF Spec

\* Every variable keeps its type.
THEOREM TypeCorrect == Spec => []TypeOK
<1>1. IInv => TypeOK
  BY DEF IInv
<1> QED
  BY <1>1, Invariant, PTL

\* Each verdict halves the bracket (main(), auto_com.cpp:104 to 136), for
\* every number of iterations.
THEOREM BisectionCorrect == Spec => []Bisection
<1>1. IInv => Bisection
  BY DEF IInv, SearchInv
<1> QED
  BY <1>1, Invariant, PTL

\* If no verdict was false the balance never leaves the bracket, and the
\* result (auto_com.cpp:173) is next to it.
THEOREM ResultCorrect == Spec => []HonestResult
<1>1. IInv => HonestResult
  BY GuidanceAssumption, SMTT(60) DEF IInv, TypeOK, SearchInv, Bisection, HonestResult
<1> QED
  BY <1>1, Invariant, PTL
=============================================================================
