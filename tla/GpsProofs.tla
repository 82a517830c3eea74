------------------------------ MODULE GpsProofs ------------------------------
(***************************************************************************)
(* The hand-over of positions for any number of reports and any overlap:   *)
(* types, and how far the broadcast position can be torn and lag behind.   *)
(*                                                                         *)
(* Then the loop that reads and parses sentences: it implements the thread *)
(* of GpsUnit, for all sentences a receiver may send and any number of     *)
(* positions, so that what is proved about GpsUnit holds with the parser   *)
(* as it is; and what the parser makes of sentences that are cut.          *)
(***************************************************************************)
EXTENDS GpsReader, NmeaProofs, TLAPS

\* The thread: a field holds the latest report once its store is made.
ThreadInv ==
  /\ pending # {} => gpc = "store"
  /\ gpc = "store" => n > 0 /\ \A f \in Fields : result[f] = n
  /\ \A f \in Fields : IF f \in pending THEN unit[f] + 1 = n ELSE unit[f] = n
  /\ IF "new_data" \in pending THEN flagged + 1 = n ELSE flagged = n

\* The tick: what it has read is at most one report older than it is itself.
TickInv ==
  /\ ~running => todo = {} /\ ~saw /\ during = 0
  /\ "clear" \in todo => saw
  /\ "new_data" \in todo => ~saw
  /\ running => \A f \in Fields \ todo : /\ regs[f] <= n
                                         /\ n <= regs[f] + during + 1

\* This tick has cleared new_data: what it has read will be broadcast.
Cleared == saw /\ "clear" \notin todo

\* Without news, the broadcast position is recent, or will be when this tick ends.
LagInv == ~new_data /\ ~Cleared
            => \A f \in Fields : flagged <= shown[f] + Overlap + 1

IInv == /\ TypeOK
        /\ ThreadInv
        /\ TickInv
        /\ LagInv
        /\ \A f \in Fields : shown[f] <= n
        /\ TornBounded

-----------------------------------------------------------------------------

LEMMA StampFacts == 0 \in Stamps /\ Partial \in Stamps /\ 0 .. MaxFix \subseteq Stamps
  BY GpsAssumption DEF Stamps, Partial

LEMMA TypeInit == Init => TypeOK
<1> SUFFICES ASSUME Init
             PROVE  TypeOK
  OBVIOUS
<1>1. /\ result \in [Fields -> Stamps] /\ unit \in [Fields -> Stamps]
      /\ regs \in [Fields -> Stamps] /\ shown \in [Fields -> Stamps]
  BY StampFacts DEF Init
<1>2. n \in 0 .. MaxFix /\ flagged \in 0 .. MaxFix /\ during \in 0 .. Overlap
  BY GpsAssumption DEF Init
<1>3. useful \in BOOLEAN /\ new_data \in BOOLEAN /\ running \in BOOLEAN
      /\ saw \in BOOLEAN /\ quality \in BOOLEAN
  BY DEF Init
<1> QED
  BY <1>1, <1>2, <1>3 DEF Init, TypeOK

LEMMA TypeStep == TypeOK /\ [Next]_vars => TypeOK'
<1> SUFFICES ASSUME TypeOK, [Next]_vars
             PROVE  TypeOK'
  OBVIOUS
<1> USE DEF TypeOK, thread, shared, tick
<1>1. CASE init
  BY <1>1 DEF init
<1>2. CASE ProcessFix
  <2>1. n' \in 0 .. MaxFix /\ during' \in 0 .. Overlap
    BY <1>2, GpsAssumption DEF ProcessFix
  <2>2. result' \in [Fields -> Stamps]
    BY <1>2, <2>1, StampFacts DEF ProcessFix
  <2> QED
    BY <1>2, <2>1, <2>2 DEF ProcessFix, Deliver
<1>3. CASE ProcessGivenUp
  <2>1. PICK done \in SUBSET Fields :
          result' = [f \in Fields |-> IF f \in done THEN Partial ELSE result[f]]
    BY <1>3 DEF ProcessGivenUp, Fields
  <2>2. result' \in [Fields -> Stamps]
    BY <2>1, StampFacts
  <2> QED
    BY <1>3, <2>2 DEF ProcessGivenUp, ResetUseful
<1>4. CASE ProcessOther
  BY <1>4 DEF ProcessOther, Deliver, ResetUseful
<1>5. ASSUME NEW f \in Fields, Store(f)
      PROVE  TypeOK'
  BY <1>5 DEF Store, Stored
<1>6. CASE StoreFlag
  BY <1>6 DEF StoreFlag, Stored
<1>7. CASE TickStart
  BY <1>7 DEF TickStart
<1>8. CASE LoadFlag
  BY <1>8 DEF LoadFlag
<1>9. CASE Clear
  BY <1>9 DEF Clear
<1>10. CASE TickEnd
  <2>1. regs' \in [Fields -> Stamps]
    BY <1>10, StampFacts DEF TickEnd
  <2>2. shown' \in [Fields -> Stamps]
    BY <1>10 DEF TickEnd
  <2>3. during' \in 0 .. Overlap
    BY <1>10, GpsAssumption DEF TickEnd
  <2> QED
    BY <1>10, <2>1, <2>2, <2>3 DEF TickEnd
<1>11. ASSUME NEW f \in Fields, Load(f)
       PROVE  TypeOK'
  BY <1>11 DEF Load
<1>12. CASE UNCHANGED vars
  BY <1>12 DEF vars
<1> QED
  BY <1>1, <1>2, <1>3, <1>4, <1>5, <1>6, <1>7, <1>8, <1>9, <1>10,
     <1>11, <1>12 DEF Next, Thread, Tick

\* Every variable keeps its type, for any bound on the reports and any overlap.
THEOREM TypeCorrect == Spec => []TypeOK
  BY TypeInit, TypeStep, PTL DEF Spec

-----------------------------------------------------------------------------

LEMMA InvInit == Init => IInv
  BY TypeInit, GpsAssumption
     DEF Init, IInv, TypeOK, ThreadInv, TickInv, LagInv, Cleared, TornBounded, Fields

\* A report arrives.  It makes every broadcast position one report older, but
\* raises flagged only when its new_data is stored.
LEMMA FixStep == IInv /\ ProcessFix => IInv'
<1> SUFFICES ASSUME IInv, ProcessFix
             PROVE  IInv'
  OBVIOUS
<1>1. TypeOK'
  BY TypeStep DEF IInv, Next, Thread
<1> USE GpsAssumption DEF IInv, TypeOK, Fields, Stamps, Partial, ProcessFix, Deliver, shared, tick
<1>2. ThreadInv'
  BY <1>1 DEF ThreadInv
<1>3. TickInv'
  BY DEF TickInv, ThreadInv
<1>4. LagInv' /\ TornBounded' /\ (\A f \in Fields : shown[f] <= n)'
  BY DEF LagInv, Cleared, TornBounded
<1> QED
  BY <1>1, <1>2, <1>3, <1>4

\* The thread starts, or gives a sentence up.
LEMMA NoFixStep == IInv /\ (init \/ ProcessGivenUp \/ ProcessOther) => IInv'
<1> SUFFICES ASSUME IInv, init \/ ProcessGivenUp \/ ProcessOther
             PROVE  IInv'
  OBVIOUS
<1>1. TypeOK'
  BY TypeStep DEF IInv, Next, Thread
<1>2. /\ gpc # "store" /\ gpc' # "store"
      /\ pending = {} /\ pending' = {}
      /\ UNCHANGED <<n, shared, tick, during>>
  BY DEF IInv, ThreadInv, init, ProcessGivenUp, ProcessOther, Deliver, ResetUseful
<1> QED
  BY <1>1, <1>2 DEF IInv, ThreadInv, TickInv, LagInv, Cleared, TornBounded, shared, tick

LEMMA StoreStep == \A f \in Fields : IInv /\ Store(f) => IInv'
<1> SUFFICES ASSUME NEW f \in Fields, IInv, Store(f)
             PROVE  IInv'
  OBVIOUS
<1>1. TypeOK'
  BY TypeStep DEF IInv, Next, Thread
<1> USE DEF IInv, TypeOK, Fields, Stamps, Store, Stored, tick
<1>2. ThreadInv'
  BY DEF ThreadInv
<1>3. TickInv' /\ LagInv' /\ TornBounded' /\ (\A g \in Fields : shown[g] <= n)'
  BY DEF TickInv, LagInv, Cleared, TornBounded
<1> QED
  BY <1>1, <1>2, <1>3

LEMMA StoreFlagStep == IInv /\ StoreFlag => IInv'
<1> SUFFICES ASSUME IInv, StoreFlag
             PROVE  IInv'
  OBVIOUS
<1>1. TypeOK'
  BY TypeStep DEF IInv, Next, Thread
<1> USE DEF IInv, TypeOK, Fields, Stamps, StoreFlag, Stored, tick
<1>2. ThreadInv'
  BY DEF ThreadInv
<1>3. TickInv' /\ LagInv' /\ TornBounded' /\ (\A g \in Fields : shown[g] <= n)'
  BY DEF TickInv, LagInv, Cleared, TornBounded
<1> QED
  BY <1>1, <1>2, <1>3

\* The tick reads a field: it holds the latest report or the one before.
LEMMA LoadStep == \A f \in Fields : IInv /\ Load(f) => IInv'
<1> SUFFICES ASSUME NEW f \in Fields, IInv, Load(f)
             PROVE  IInv'
  OBVIOUS
<1>1. TypeOK'
  BY TypeStep DEF IInv, Next, Tick
<1> USE DEF IInv, TypeOK, Fields, Stamps, Load, thread, shared
<1>2. running
  BY DEF TickInv
<1>3. unit[f] <= n /\ n <= unit[f] + 1
  BY DEF ThreadInv
<1>4. TickInv'
  BY <1>2, <1>3 DEF TickInv
<1>5. ThreadInv' /\ LagInv' /\ TornBounded' /\ (\A g \in Fields : shown[g] <= n)'
  BY DEF ThreadInv, LagInv, Cleared, TornBounded
<1> QED
  BY <1>1, <1>4, <1>5

LEMMA FlagSteps == IInv /\ (TickStart \/ LoadFlag \/ Clear) => IInv'
<1> SUFFICES ASSUME IInv, TickStart \/ LoadFlag \/ Clear
             PROVE  IInv'
  OBVIOUS
<1>1. TypeOK'
  BY TypeStep DEF IInv, Next, Tick
<1> USE DEF IInv, TypeOK, Fields, thread, shared
<1>2. ThreadInv' /\ TornBounded' /\ (\A f \in Fields : shown[f] <= n)'
  BY DEF TickStart, LoadFlag, Clear, ThreadInv, TornBounded
<1>3. CASE TickStart
  <2>1. TickInv'
    BY <1>3 DEF TickStart, TickInv
  <2>2. LagInv'
    BY <1>3 DEF TickStart, TickInv, LagInv, Cleared
  <2> QED
    BY <1>1, <1>2, <2>1, <2>2
<1>4. CASE LoadFlag
  <2>1. TickInv'
    BY <1>4 DEF LoadFlag, TickInv
  <2>2. LagInv'
    BY <1>4 DEF LoadFlag, TickInv, LagInv, Cleared
  <2> QED
    BY <1>1, <1>2, <2>1, <2>2
<1>5. CASE Clear
  <2>1. TickInv'
    BY <1>5 DEF Clear, TickInv
  <2>2. LagInv'
    BY <1>5 DEF Clear, TickInv, LagInv, Cleared
  <2> QED
    BY <1>1, <1>2, <2>1, <2>2
<1> QED
  BY <1>3, <1>4, <1>5

\* The tick ends: either it saw no news, and nothing changes, or it shows what
\* it read, none of it older than the reports that arrived meanwhile.
LEMMA TickEndStep == IInv /\ TickEnd => IInv'
<1> SUFFICES ASSUME IInv, TickEnd
             PROVE  IInv'
  OBVIOUS
<1>1. TypeOK'
  BY TypeStep DEF IInv, Next, Tick
<1> USE DEF IInv, TypeOK, Fields, Stamps, TickEnd, thread, shared
<1>2. ThreadInv' /\ TickInv'
  BY DEF ThreadInv, TickInv
<1>3. \A f \in Fields : regs[f] <= n /\ n <= regs[f] + Overlap + 1
  BY GpsAssumption DEF TickInv
<1>4. flagged <= n
  BY DEF ThreadInv
<1>5. (\A f \in Fields : shown[f] <= n)'
  BY <1>3
<1>6. TornBounded'
  BY <1>3, GpsAssumption DEF TornBounded
<1>7. LagInv'
  BY <1>3, <1>4, GpsAssumption DEF LagInv, Cleared, TickInv
<1> QED
  BY <1>1, <1>2, <1>5, <1>6, <1>7

LEMMA InvStep == IInv /\ [Next]_vars => IInv'
<1> SUFFICES ASSUME IInv, [Next]_vars
             PROVE  IInv'
  OBVIOUS
<1>1. CASE UNCHANGED vars
  BY <1>1 DEF IInv, TypeOK, ThreadInv, TickInv, LagInv, Cleared, TornBounded,
              vars, thread, shared, tick
<1> QED
  BY <1>1, FixStep, NoFixStep, StoreStep, StoreFlagStep, LoadStep, FlagSteps,
     TickEndStep DEF Next, Thread, Tick

\* The inductive invariant holds in every reachable state.
THEOREM Invariant == Spec => []IInv
  BY InvInit, InvStep, PTL DEF Spec

-----------------------------------------------------------------------------

\* A broadcast position mixes reports that are at most Overlap + 1 apart.
THEOREM TornCorrect == Spec => []TornBounded
<1>1. IInv => TornBounded
  BY DEF IInv
<1> QED
  BY <1>1, Invariant, PTL

\* A report that a tick lost is at most Overlap + 1 reports ahead of what is shown.
THEOREM LagCorrect == Spec => []LagBounded
<1>1. IInv => LagBounded
  BY DEF IInv, TickInv, LagInv, Cleared, LagBounded
<1> QED
  BY <1>1, Invariant, PTL

\* Nothing of a sentence that was given up is ever broadcast.
THEOREM PartialCorrect == Spec => []PartialNeverShown
<1>1. IInv => PartialNeverShown
  BY GpsAssumption DEF IInv, TypeOK, Fields, Stamps, Partial, PartialNeverShown
<1> QED
  BY <1>1, Invariant, PTL
-----------------------------------------------------------------------------
(* The loop and the parser *)

\* No tick runs, and result has its fields.
ReaderInv == running = FALSE /\ during = 0 /\ result = [f \in Fields |-> result[f]]

LEMMA Outcomes ==
  ASSUME NEW s
  PROVE  LET p == process_nmea_line(s)
         IN  /\ p.outcome \in {"useful", "threw", "ignored"}
             /\ p.set \in {{}, {"lat"}, Fields}
             /\ p.outcome = "useful" => p.set = Fields
             /\ p.outcome = "ignored" => p.set = {}
             /\ p.fix \in BOOLEAN
<1> DEFINE data == Tokens(s)
           gga == First(data[1]) = "$GGA"
           lat == gga /\ IsCoordinate(data[3])
           lng == lat /\ IsCoordinate(data[5])
           sat == lng /\ IsNumber(data[8])
           set == (IF lat THEN {"lat"} ELSE {}) \cup (IF lng THEN {"lng", "fix"} ELSE {})
           outcome == IF sat THEN "useful" ELSE IF gga THEN "threw" ELSE "ignored"
<1>1. /\ process_nmea_line(s).outcome = outcome
      /\ process_nmea_line(s).set = set
      /\ process_nmea_line(s).fix = (First(data[7]) \notin LeadingZero)
  BY Zenon DEF process_nmea_line
<1>2. (sat => lng) /\ (lng => lat) /\ (lat => gga)
  OBVIOUS
<1> HIDE DEF data, gga, lat, lng, sat
<1>3. /\ set \in {{}, {"lat"}, {"lat", "lng", "fix"}}
      /\ sat => set = {"lat", "lng", "fix"}
      /\ ~gga => set = {}
  BY <1>2
<1>4. /\ outcome \in {"useful", "threw", "ignored"}
      /\ outcome = "useful" => sat
      /\ outcome = "ignored" => ~gga
  OBVIOUS
<1> HIDE DEF set, outcome
<1> QED
  BY <1>1, <1>3, <1>4 DEF Fields

LEMMA TurnStep ==
  ASSUME ReaderInv, quality \in BOOLEAN, NEW fields, Turn(fields)
  PROVE  /\ ProcessFix \/ ProcessGivenUp \/ ProcessOther
         /\ ReaderInv' /\ quality' \in BOOLEAN
<1> DEFINE p == process_nmea_line(Join(fields))
<1>1. /\ p.outcome \in {"useful", "threw", "ignored"}
      /\ p.set \in {{}, {"lat"}, Fields}
      /\ p.outcome = "useful" => p.set = Fields
      /\ p.outcome = "ignored" => p.set = {}
      /\ p.fix \in BOOLEAN
  BY Outcomes
<1>2. /\ gpc = "read"
      /\ result' = [f \in Fields |-> IF f \notin p.set THEN result[f]
                                     ELSE IF Stores(p.outcome) THEN n + 1 ELSE Partial]
      /\ \/ /\ Stores(p.outcome)
            /\ n < MaxFix /\ n' = n + 1
            /\ p.fix <=> n' \notin NoFix
            /\ useful' = TRUE /\ Deliver
            /\ quality' = p.fix
         \/ /\ p.outcome = "threw" /\ ~Stores(p.outcome)
            /\ useful' = ResetUseful
            /\ quality' = Indicated(fields)
            /\ UNCHANGED <<n, gpc, pending>>
         \/ /\ p.outcome = "ignored"
            /\ useful' = ResetUseful /\ Deliver
            /\ UNCHANGED <<n, quality>>
      /\ UNCHANGED <<shared, tick, during>>
  BY Zenon DEF Turn
<1> HIDE DEF p
<1>3. result' = [f \in Fields |-> result'[f]]
  BY <1>2
<1>4. running' = FALSE /\ during' = 0
  BY <1>2 DEF tick, ReaderInv
<1>5. CASE p.outcome = "useful"
  <2>1. result' = [f \in Fields |-> n + 1]
    BY <1>1, <1>2, <1>5 DEF Stores
  <2>2. /\ n < MaxFix /\ n' = n + 1
        /\ quality' = (n' \notin NoFix)
        /\ useful' = TRUE /\ Deliver
    BY <1>1, <1>2, <1>5, Zenon DEF Stores
  <2>3. ProcessFix
    BY <1>2, <2>1, <2>2 DEF ProcessFix, ReaderInv
  <2> QED
    BY <1>3, <1>4, <2>2, <2>3 DEF ReaderInv
<1>6. CASE p.outcome = "threw"
  <2>1. result' = [f \in Fields |-> IF f \in p.set THEN Partial ELSE result[f]]
    BY <1>2, <1>6 DEF Stores
  <2>2. quality' \in BOOLEAN
    BY <1>2, <1>6 DEF Stores, Indicated
  <2>3. ProcessGivenUp
    BY <1>1, <1>2, <1>6, <2>1, <2>2 DEF ProcessGivenUp, Stores
  <2> QED
    BY <1>3, <1>4, <2>2, <2>3 DEF ReaderInv
<1>7. CASE p.outcome = "ignored"
  <2>1. result' = result
    BY <1>1, <1>2, <1>7 DEF ReaderInv
  <2>2. ProcessOther
    BY <1>2, <1>7, <2>1 DEF ProcessOther, Stores
  <2> QED
    BY <1>2, <1>3, <1>4, <1>7, <2>2 DEF ReaderInv, Stores
<1> QED
  BY <1>1, <1>5, <1>6, <1>7

LEMMA ReaderStep ==
  ASSUME ReaderInv, quality \in BOOLEAN, [ReaderNext]_<<vars, reader>>
  PROVE  [Next]_vars /\ ReaderInv' /\ quality' \in BOOLEAN
<1>1. CASE Open
  <2>1. init /\ UNCHANGED <<result, tick, during, quality>>
    BY <1>1 DEF Open, init
  <2> QED
    BY <2>1 DEF Next, Thread, ReaderInv, tick
<1>2. ASSUME NEW fields, Turn(fields)
      PROVE  [Next]_vars /\ ReaderInv' /\ quality' \in BOOLEAN
  BY <1>2, TurnStep DEF Next, Thread
<1>3. ASSUME NEW sentence \in Sent, Hear(sentence)
      PROVE  \E fields : Turn(fields)
  BY <1>3 DEF Hear
<1>4. HearNothing \/ HearAgain => \E fields : Turn(fields)
  BY DEF HearNothing, HearAgain
<1>5. CASE Unplug
  BY <1>5 DEF Unplug, vars, thread, tick, ReaderInv
<1>6. CASE Storing
  <2>1. /\ (\E f \in Fields : Store(f)) \/ StoreFlag
        /\ UNCHANGED <<result, quality, tick, during>>
    BY <1>6 DEF Storing, Store, StoreFlag, Stored
  <2> QED
    BY <2>1 DEF Next, Thread, ReaderInv, tick
<1>7. CASE UNCHANGED <<vars, reader>>
  BY <1>7 DEF vars, thread, tick, ReaderInv
<1> QED
  BY <1>1, <1>2, <1>3, <1>4, <1>5, <1>6, <1>7 DEF ReaderNext

\* The loop's steps are steps of the thread that GpsUnit describes: no
\* sentence has another outcome, cut or not, heard or repeated by a device
\* that is gone.
THEOREM ReaderRefines == ReaderSpec => ReaderIsThread
<1> DEFINE Inv == ReaderInv /\ quality \in BOOLEAN
<1>1. ReaderInit => Init /\ Inv
  BY DEF ReaderInit, Init, ReaderInv
<1>2. Inv /\ [ReaderNext]_<<vars, reader>> => [Next]_vars /\ Inv'
  BY ReaderStep
<1> QED
  BY <1>1, <1>2, PTL DEF ReaderSpec, ReaderIsThread, Spec

-----------------------------------------------------------------------------
(* Sentences that are cut *)

\* What is in buf is what is left of a sentence.
BufInv == origin \in Sent \cup {Noise} /\ buf \in Cuts(origin)

LEMMA NoiseText == Noise \in Seq(Text) /\ Noise # <<>> /\ Len(Join(Noise)) <= npos /\ Noise \in Cuts(Noise)
<1> DEFINE f == <<"noise">>
<1>1. Noise = <<f>> /\ "noise" \in Symbols
  BY DEF Noise, Symbols
<1>2. f \in Text /\ Len(f) = 1
  BY <1>1 DEF Text
<1> HIDE DEF f
<1>3. Noise \in Seq(Text) /\ Noise # <<>> /\ Len(Noise) = 1 /\ Noise[1] = f
  BY <1>1, <1>2
<1>4. PICK start : Layout(Noise, start)
  BY <1>3, LayoutExists
<1>5. Len(Join(Noise)) = 1
  <2>1. start[1] = 0 /\ start[1] + Len(Noise[1]) = Len(Join(Noise))
    BY <1>3, <1>4 DEF Layout
  <2>2. 0 + 1 = Len(Join(Noise))
    BY <1>2, <1>3, <2>1, Zenon
  <2> QED
    BY <2>2
<1>6. Noise \in Cuts(Noise)
  <2>1. 1 \in DOMAIN Noise /\ 1 \in 0..Len(Noise[1])
    BY <1>2, <1>3
  <2>2. Append(SubSeq(Noise, 1, 1 - 1), SubSeq(Noise[1], 1, 1)) = Noise
    <3>1. SubSeq(Noise, 1, 1 - 1) = <<>> /\ SubSeq(f, 1, 1) = f
      <4>1. SubSeq(Noise, 1, 0) \in Seq(Text) /\ Len(SubSeq(Noise, 1, 0)) = 0
        BY <1>3, SubSeqProperties
      <4>2. SubSeq(Noise, 1, 0) = <<>>
        BY <4>1, EmptySeq
      <4>3. f \in Seq(Symbols)
        BY <1>2 DEF Text
      <4>4. /\ SubSeq(f, 1, 1) \in Seq(Symbols) /\ Len(SubSeq(f, 1, 1)) = 1
            /\ SubSeq(f, 1, 1)[1] = f[1]
        <5>1. \A i \in 1..1 : f[i] \in Symbols
          BY <1>2, <4>3, ElementOfSeq
        <5> QED
          BY <5>1, SubSeqProperties
      <4>5. SubSeq(f, 1, 1) = f
        BY <1>2, <4>3, <4>4, SeqEqual
      <4>6. 1 - 1 = 0
        OBVIOUS
      <4> QED
        BY <4>2, <4>5, <4>6, Zenon
    <3>2. Append(<<>>, f) = <<f>>
      OBVIOUS
    <3> QED
      BY <1>1, <1>3, <3>1, <3>2, Zenon
  <2> QED
    BY <2>1, <2>2 DEF Cuts
<1>7. Len(Join(Noise)) <= npos
  BY <1>5 DEF npos
<1> QED
  BY <1>3, <1>6, <1>7

LEMMA OriginText ==
  ASSUME BufInv
  PROVE  /\ origin \in Seq(Text) /\ origin # <<>> /\ Len(Join(origin)) <= npos
         /\ Left(buf, origin)
<1>1. origin \in Seq(Text) /\ origin # <<>> /\ Len(Join(origin)) <= npos
  BY SentAssumption, NoiseText DEF BufInv, Text
<1> QED
  BY <1>1, CutLeft DEF BufInv

LEMMA BufStep == BufInv /\ [ReaderNext]_<<vars, reader>> => BufInv'
<1> SUFFICES ASSUME BufInv, [ReaderNext]_<<vars, reader>>
             PROVE  BufInv'
  OBVIOUS
<1>1. CASE Open
  BY <1>1 DEF Open, reader, BufInv
<1>2. ASSUME NEW sentence \in Sent, Hear(sentence) PROVE BufInv'
  BY <1>2 DEF Hear, Turn, BufInv
<1>3. CASE HearNothing
  BY <1>3, NoiseText DEF HearNothing, Turn, BufInv
<1>4. CASE Unplug
  BY <1>4 DEF Unplug, BufInv
<1>5. CASE HearAgain
  BY <1>5 DEF HearAgain, Turn, BufInv
<1>6. CASE Storing
  BY <1>6 DEF Storing, reader, BufInv
<1>7. CASE UNCHANGED <<vars, reader>>
  BY <1>7 DEF reader, BufInv
<1> QED
  BY <1>1, <1>2, <1>3, <1>4, <1>5, <1>6, <1>7 DEF ReaderNext

\* In every state buf holds a sentence of the receiver without its last
\* characters, or noise.
THEOREM BufCorrect == ReaderSpec => []BufInv
<1>1. ReaderInit => BufInv
  BY NoiseText DEF ReaderInit, BufInv
<1> QED
  BY <1>1, BufStep, PTL DEF ReaderSpec

\* The tokens process_nmea_line gets are the fields of the sentence, in turn,
\* however many there are, for every sentence and wherever it is cut.
THEOREM TokensCorrect == ReaderSpec => []TokensCycle
<1>1. BufInv => TokensCycle
  <2> SUFFICES ASSUME BufInv, NEW k \in 1..8
               PROVE  LET field == buf[((k - 1) % Len(buf)) + 1]
                          token == Tokens(Join(buf))[k]
                      IN  /\ IsPrefix(field, token)
                          /\ Len(token) > Len(field) => token[Len(field) + 1] = COMMA
    BY Zenon DEF TokensCycle
  <2> DEFINE j == FieldOf(k, Len(buf))
             field == buf[j]
             token == Tokens(Join(buf))[k]
  <2>1. Left(buf, origin) /\ origin \in Seq(Text) /\ Len(Join(origin)) <= npos
    BY OriginText
  <2>2. Len(buf) \in Nat \ {0}
    BY <2>1 DEF Left
  <2>3. j \in 1..Len(buf)
    BY <2>2, Wrap, Zenon
  <2> HIDE DEF j
  <2>4. field \in Text /\ TokenOf(token, field)
    BY <2>1, <2>3, CutTokens DEF j
  <2> HIDE DEF field, token
  <2>5. field \in Seq(Symbols) /\ token \in Seq(Chars)
    BY <2>4 DEF Text, TokenOf
  <2>6. IsPrefix(field, token)
    BY <2>4, <2>5, Prefix DEF TokenOf
  <2>7. Len(token) > Len(field) => token[Len(field) + 1] = COMMA
    BY <2>4 DEF TokenOf
  <2> QED
    BY <2>6, <2>7 DEF field, token, j, FieldOf
<1> QED
  BY <1>1, BufCorrect, PTL

\* A receiver that has no position is never taken to have one.
THEOREM NoPositionCorrect == ReaderSpec => []NoPositionNoReport
<1>1. BufInv => NoPositionNoReport
  BY OriginText, NoPositionCut DEF BufInv, NoPositionNoReport, Parsed
<1> QED
  BY <1>1, BufCorrect, PTL

\* What becomes of a position that is cut depends on where, and on nothing else.
THEOREM CutCorrect == ReaderSpec => []CutSentences
<1>1. BufInv => CutSentences
  <2> SUFFICES ASSUME BufInv, origin \in Positions PROVE CutSentences
    BY Zenon DEF CutSentences
  <2>1. Len(Join(origin)) <= npos /\ buf \in Cuts(origin)
    BY OriginText DEF BufInv
  <2> QED
    BY <2>1, PositionCut, Zenon DEF CutSentences, Present, Complete, Parsed
<1> QED
  BY <1>1, BufCorrect, PTL
=============================================================================
