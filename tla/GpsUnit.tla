------------------------------- MODULE GpsUnit -------------------------------
(***************************************************************************)
(* The GPS receiver's thread (src/backend/gps.cpp) and the main loop that  *)
(* takes its positions over (src/main/adiru-nosocket.cpp, tick).           *)
(*                                                                         *)
(* The two share lat, lng, fix and new_data with no lock and no atomics:   *)
(* the stores of one position, and the loads of one tick, happen in any    *)
(* order, between each other in any way.  Each single access is atomic     *)
(* (an aligned double or bool).  read() separates one position's stores    *)
(* from the next one's.                                                    *)
(*                                                                         *)
(* A field's value is the number of the sentence it was taken from.        *)
(***************************************************************************)
EXTENDS Naturals

CONSTANTS
  MaxFix,     \* bound: positions the receiver reports
  NoFix,      \* the ones among them with quality indicator 0
  Overlap     \* positions that can arrive while one tick runs

ASSUME GpsAssumption == /\ MaxFix \in Nat /\ Overlap \in Nat
                        /\ NoFix \subseteq 1 .. MaxFix

Fields == {"lat", "lng", "fix"}
Partial == MaxFix + 1   \* a value from a sentence that process_nmea_line gave up
Stamps == 0 .. Partial

VARIABLES
  (* gps_thread *)
  gpc,        \* "init", "read", "store"; "absent" when the device is not there
  result,     \* the thread's nmea_result: lat, lng, fix
  useful,     \* result.useful
  pending,    \* the stores of this position that are still to come
  (* shared *)
  unit,       \* gps_unit.lat, .lng, .fix
  new_data,   \* gps_unit.new_data
  (* tick *)
  todo,       \* the accesses of this tick that are still to come
  running,    \* a tick is between its first and its last access
  saw,        \* this tick read new_data as true
  regs,       \* what this tick has read
  shown,      \* gps_data, which the server broadcasts
  (* history *)
  n,          \* positions reported
  flagged,    \* the last one whose new_data was stored
  during,     \* positions that arrived while this tick ran
  quality     \* the last quality indicator heard was not 0

thread == <<gpc, result, useful, pending, n, quality>>
shared == <<unit, new_data, flagged>>
tick   == <<todo, running, saw, regs, shown>>
vars == <<thread, shared, tick, during>>

Init == /\ gpc = "init" /\ pending = {}
        /\ result \in [Fields -> {Partial}] /\ useful = FALSE
        /\ unit = [f \in Fields |-> 0] /\ new_data = FALSE
        /\ todo = {} /\ running = FALSE /\ saw = FALSE
        /\ regs = [f \in Fields |-> 0] /\ shown = [f \in Fields |-> 0]
        /\ n = 0 /\ flagged = 0 /\ during = 0
        /\ quality = FALSE

-----------------------------------------------------------------------------
(* gps_thread *)

init == /\ gpc = "init"
        /\ gpc' \in {"read", "absent"}
        /\ UNCHANGED <<result, useful, pending, n, quality>>
        /\ UNCHANGED <<shared, tick, during>>

\* Mutant: useful keeps what the sentence before left in it.
KeepUseful == useful

\* process_nmea_line starts with useful false.
ResetUseful == FALSE

\* Mutant: the thread forgets to store lng.
DeliverNoLng == IF useful' THEN /\ gpc' = "store"
                                /\ pending' = {"lat", "fix", "new_data"}
                           ELSE gpc' = "read" /\ pending' = {}

\* process_nmea_line has returned: store the position if it is useful.
Deliver == IF useful' THEN /\ gpc' = "store"
                           /\ pending' = Fields \cup {"new_data"}
                      ELSE gpc' = "read" /\ pending' = {}

\* A GGA sentence that ends with useful set: a complete one, or one cut off
\* after a field where the tokenizer, which starts over at the end of the
\* sentence, finds something that parses for each field that is missing.
ProcessFix == /\ gpc = "read" /\ n < MaxFix
              /\ running => during < Overlap
              /\ during' = IF running THEN during + 1 ELSE 0
              /\ n' = n + 1
              /\ quality' = (n' \notin NoFix)
              /\ result' = [f \in Fields |-> n']
              /\ useful' = TRUE
              /\ Deliver
              /\ UNCHANGED <<shared, tick>>

\* A GGA sentence that is given up: of a receiver without a position, whose
\* coordinates are empty, or cut off elsewhere.  std::stoi, std::stod or
\* substr throws when nothing, the latitude or all of the fields are already
\* in result, whatever the quality indicator is; the thread reads on.
ProcessGivenUp ==
  /\ gpc = "read"
  /\ \E done \in {{}, {"lat"}, Fields} :
       result' = [f \in Fields |-> IF f \in done THEN Partial ELSE result[f]]
  /\ useful' = ResetUseful
  /\ quality' \in BOOLEAN
  /\ UNCHANGED <<gpc, pending, n>>
  /\ UNCHANGED <<shared, tick, during>>

\* Another sentence, an empty line or no sentence at all.
ProcessOther == /\ gpc = "read"
                /\ useful' = ResetUseful
                /\ Deliver
                /\ UNCHANGED <<result, n, quality>>
                /\ UNCHANGED <<shared, tick, during>>

Stored(x) == /\ gpc = "store" /\ x \in pending
             /\ pending' = pending \ {x}
             /\ gpc' = IF pending' = {} THEN "read" ELSE "store"
             /\ UNCHANGED <<result, useful, n, quality>>

Store(f) == /\ Stored(f)
            /\ unit' = [unit EXCEPT ![f] = result[f]]
            /\ UNCHANGED <<new_data, flagged, tick, during>>

\* Mutant: new_data is cleared instead of set.
StoreFlagWrong == /\ Stored("new_data")
                  /\ new_data' = FALSE
                  /\ flagged' = n
                  /\ UNCHANGED <<unit, tick, during>>

StoreFlag == /\ Stored("new_data")
             /\ new_data' = TRUE
             /\ flagged' = n
             /\ UNCHANGED <<unit, tick, during>>

-----------------------------------------------------------------------------
(* tick *)

TickStart == /\ ~running
             /\ running' = TRUE
             /\ todo' = Fields \cup {"new_data"}
             /\ UNCHANGED <<saw, regs, shown, thread, shared, during>>

Load(f) == /\ f \in todo
           /\ regs' = [regs EXCEPT ![f] = unit[f]]
           /\ todo' = todo \ {f}
           /\ UNCHANGED <<running, saw, shown, thread, shared, during>>

\* Mutant: new_data is cleared whether it was set or not.
LoadFlagAlwaysClear == /\ "new_data" \in todo
                       /\ saw' = new_data
                       /\ todo' = (todo \ {"new_data"}) \cup {"clear"}
                       /\ UNCHANGED <<running, regs, shown, thread, shared, during>>

\* if (gps_unit.new_data): the position is used, and the flag cleared, only then.
LoadFlag == /\ "new_data" \in todo
            /\ saw' = new_data
            /\ todo' = (todo \ {"new_data"}) \cup (IF new_data THEN {"clear"} ELSE {})
            /\ UNCHANGED <<running, regs, shown, thread, shared, during>>

Clear == /\ "clear" \in todo
         /\ new_data' = FALSE
         /\ todo' = todo \ {"clear"}
         /\ UNCHANGED <<running, saw, regs, shown, thread, unit, flagged, during>>

TickEnd == /\ running /\ todo = {}
           /\ running' = FALSE
           /\ shown' = IF saw THEN regs ELSE shown
           /\ saw' = FALSE
           /\ regs' = [f \in Fields |-> 0]
           /\ during' = 0
           /\ UNCHANGED <<todo, thread, shared>>

-----------------------------------------------------------------------------

Thread == \/ init
          \/ ProcessFix
          \/ ProcessGivenUp \/ ProcessOther
          \/ \E f \in Fields : Store(f)
          \/ StoreFlag

Tick == \/ TickStart \/ LoadFlag \/ Clear \/ TickEnd
        \/ \E f \in Fields : Load(f)

Next == Thread \/ Tick

Spec == Init /\ [][Next]_vars

\* Both threads run: the stores of a position that was read are made, and the
\* timer starts tick after tick.  Nothing makes the receiver report.
Fairness == /\ WF_vars(Tick)
            /\ WF_vars(StoreFlag \/ \E f \in Fields : Store(f))

LiveSpec == Spec /\ Fairness

-----------------------------------------------------------------------------
(* Properties *)

\* Every variable keeps its type.
TypeOK == /\ gpc \in {"init", "absent", "read", "store"}
          /\ result \in [Fields -> Stamps]
          /\ useful \in BOOLEAN
          /\ pending \subseteq Fields \cup {"new_data"}
          /\ unit \in [Fields -> Stamps]
          /\ new_data \in BOOLEAN
          /\ todo \subseteq Fields \cup {"new_data", "clear"}
          /\ running \in BOOLEAN /\ saw \in BOOLEAN
          /\ regs \in [Fields -> Stamps] /\ shown \in [Fields -> Stamps]
          /\ n \in 0 .. MaxFix /\ flagged \in 0 .. MaxFix
          /\ during \in 0 .. Overlap
          /\ quality \in BOOLEAN

\* What a sentence that was given up left behind in result is never broadcast,
\* although result is one object that every sentence is parsed into.
PartialNeverShown == \A f \in Fields : shown[f] # Partial

\* A broadcast position may be put together from several reports, since the
\* tick reads while the thread stores, but only from neighbouring ones.
TornBounded == \A f, g \in Fields : shown[f] <= shown[g] + Overlap + 1

\* A tick that clears new_data just after it was set loses a report.  It loses
\* no more than arrived while it ran, and one whose stores it overtook.
LagBounded == ~new_data /\ ~running
                => \A f \in Fields : flagged <= shown[f] + Overlap + 1

\* Every report is broadcast, or overtaken by a later one, or it is among the
\* last ones that a tick lost.
ReportsArrive == \A k \in 1 .. MaxFix :
                   flagged = k ~> \A f \in Fields : k <= shown[f] + Overlap + 1

\* gps.cpp:103 reads the quality indicator as "0 - no fix, 1 - fix": when the
\* receiver has said that it has no fix, gps_unit.fix is false.
LossOfFixIsStored == gpc = "read" /\ ~quality => unit["fix"] \in NoFix \cup {0}
=============================================================================
