-------------------------------- MODULE GpsReader --------------------------------
(***************************************************************************)
(* The loop of gps_thread (src/backend/gps.cpp) with the sentences it      *)
(* reads: it implements the thread of GpsUnit, where a sentence has just   *)
(* one of a few outcomes.  The tick that reads what the thread stores is   *)
(* GpsUnit's alone.                                                        *)
(*                                                                         *)
(* Characters are lost on the serial line: a sentence may be cut anywhere. *)
(* When the device goes away read() fails, and goes on failing.            *)
(***************************************************************************)
EXTENDS GpsUnit, Nmea

CONSTANT Sent   \* the sentences the receiver sends

\* Fields have no commas in them, and a sentence is not as long as npos: the
\* program's buffer has 1024 characters.
ASSUME SentAssumption == \A fields \in Sent : /\ fields \in Seq(Seq(Symbols))
                                              /\ fields # <<>>
                                              /\ Len(Join(fields)) <= npos

VARIABLES
  buf,      \* the fields of the sentence in buf
  origin,   \* history: the sentence it was cut from
  gone      \* read() fails

reader == <<buf, origin, gone>>

Parsed == process_nmea_line(Join(buf))

\* The first sentence is read and not parsed, but it stays in buf; one whose
\* beginning was missed is noise.
ReaderInit == /\ Init
              /\ origin \in Sent \cup {Noise}
              /\ buf \in Cuts(origin)
              /\ gone = FALSE

Open == /\ init
        /\ UNCHANGED reader

\* Mutant: an exception does not keep the thread from storing.
StoresAnyway(outcome) == outcome # "ignored"

\* result.useful, if the parser came to its end.
Stores(outcome) == outcome = "useful"

\* The receiver's indicator, if the sentence has one.
Indicated(fields) == IF Len(fields) < 7 \/ fields[7] = <<>> THEN quality ELSE fields[7] # <<"0">>

\* One turn of the loop, with these fields in buf.
Turn(fields) ==
  LET p == process_nmea_line(Join(fields))
  IN  /\ gpc = "read"
      /\ result' = [f \in Fields |-> IF f \notin p.set THEN result[f]
                                     ELSE IF Stores(p.outcome) THEN n + 1 ELSE Partial]
      /\ \/ /\ Stores(p.outcome)
            /\ n < MaxFix /\ n' = n + 1
            /\ p.fix <=> n' \notin NoFix
            /\ useful' = TRUE /\ Deliver
            /\ quality' = p.fix
         \/ /\ p.outcome = "threw" /\ ~Stores(p.outcome)
            /\ useful' = ResetUseful
            /\ quality' = Indicated(fields)
            /\ UNCHANGED <<n, gpc, pending>>
         \/ /\ p.outcome = "ignored"
            /\ useful' = ResetUseful /\ Deliver
            /\ UNCHANGED <<n, quality>>
      /\ buf' = fields
      /\ UNCHANGED <<shared, tick, during>>

\* read() returns a sentence, at once or after an empty line.
Hear(sentence) == /\ ~gone
                  /\ \E fields \in Cuts(sentence) : Turn(fields)
                  /\ origin' = sentence
                  /\ UNCHANGED gone

\* Two empty lines, or one that is the last thing the device sends: its end
\* of line is written over the start of what is in buf.
HearNothing == /\ ~gone
               /\ Turn(Noise)
               /\ origin' = Noise
               /\ gone' \in BOOLEAN

Unplug == /\ gpc = "read" /\ ~gone
          /\ gone' = TRUE
          /\ UNCHANGED <<buf, origin, vars>>

\* Both reads fail.  The 0 at the end goes in front of buf, which keeps what
\* it had.
HearAgain == /\ gone
             /\ Turn(buf)
             /\ UNCHANGED <<origin, gone>>

Storing == /\ \/ \E f \in Fields : Store(f)
              \/ StoreFlag
           /\ UNCHANGED reader

ReaderNext == \/ Open
              \/ \E fields \in Sent : Hear(fields)
              \/ HearNothing \/ Unplug \/ HearAgain
              \/ Storing

ReaderSpec == ReaderInit /\ [][ReaderNext]_<<vars, reader>>

-----------------------------------------------------------------------------
(* Properties *)

\* The tokens of a sentence are its fields, and then its fields again: the
\* tokenizer starts over and never throws.  What is behind a field in its
\* token, if anything, begins with the comma.
TokensCycle ==
  LET tokens == Tokens(Join(buf))
  IN  \A k \in 1..8 :
        LET field == buf[((k - 1) % Len(buf)) + 1]
        IN  /\ IsPrefix(field, tokens[k])
            /\ Len(tokens[k]) > Len(field) => tokens[k][Len(field) + 1] = COMMA

\* How many fields are there, and whether the last one is there as a whole.
Present == Len(buf)
Complete == buf[Present] = origin[Present]

\* A sentence that is cut is given up, except in the minutes of its latitude
\* or longitude, after them, or at the longitude's hemisphere, where the fields
\* that are missing are taken from its beginning; from the number of satellites
\* on it is right.  A coordinate is the receiver's once it is there as a whole.
CutSentences ==
  LET said == process_nmea_line(Join(origin))
      got == Parsed
  IN  origin \in Positions =>
        /\ got.outcome = "useful" <=> \/ Present \in {3, 5} /\ Len(buf[Present]) > 1
                                      \/ Present = 8 /\ Complete
                                      \/ Present = 6 \/ Present > 8
        /\ got.outcome = "useful" =>
             /\ IsPrefix(Latitude, got.lat) <=> (Present > 3 \/ Complete)
             /\ IsPrefix(Longitude, got.lng) <=> (Present > 5 \/ (Present = 5 /\ Complete))
             /\ IF Present = 3 THEN ~got.north ELSE got.north = said.north
             /\ Present \in {3, 5} => ~got.east
             /\ Present \in {3, 6} => got.fix
             /\ Present >= 8 => got.east = said.east /\ got.fix = said.fix

\* A receiver without a position is never taken to have one, wherever its
\* sentence is cut and whatever the tokenizer finds in place of the rest.
NoPositionNoReport == origin = NoPosition => Parsed.outcome # "useful"

\* The loop is the thread of GpsUnit: a sentence that is given up has set
\* nothing, the latitude or everything, and one that is not has set it all.
ReaderIsThread == Spec
=============================================================================
