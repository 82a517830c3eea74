---------------------------------- MODULE Nmea ----------------------------------
(***************************************************************************)
(* The parser of the receiver's sentences: string::tokenizer               *)
(* (src/util/str_utils.cpp) and process_nmea_line (src/backend/gps.cpp).   *)
(*                                                                         *)
(* A field is a sequence of a few symbols, the parts the parser tells      *)
(* apart: the degrees of a coordinate, its minutes and their decimals, the *)
(* first digits of the time and the others, or one for the whole field.    *)
(* A sentence is its fields with commas between them.                      *)
(***************************************************************************)
EXTENDS Naturals, Sequences, SequencesExt, FiniteSetsExt

COMMA == ","
Join(fields) == FlattenSeq([j \in DOMAIN fields |->
                              IF j = 1 THEN fields[j] ELSE <<COMMA>> \o fields[j]])

(* The fields of the receiver's sentences *)

Time(t) == <<t, "seconds">>           \* t: "before_ten" or "after_ten"
Latitude == <<"lat_degrees", "lat_minutes", "decimals">>
Longitude == <<"lng_degrees", "lng_minutes", "decimals">>

\* Fixed data: after a position the quality indicator is "1", or "0" for one
\* that is no longer sure.
Position(time, ns, ew, quality) ==
  << <<"$GGA">>, Time(time), Latitude, <<ns>>, Longitude, <<ew>>, <<quality>>,
     <<"satellites">>, <<"HDOP">>, <<"height">> >>

\* Fixed data of a receiver that has no position.
NoPosition == << <<"$GGA">>, Time("after_ten"), <<>>, <<>>, <<>>, <<>>, <<"0">>,
                 <<"satellites">>, <<"HDOP">>, <<>> >>

\* Whatever the position is.
Positions == {Position(time, ns, ew, quality) : time \in {"before_ten", "after_ten"},
                ns \in {"N", "S"}, ew \in {"E", "W"}, quality \in {"0", "1"}}

Other == << <<"$RMC">>, Time("after_ten") >>   \* another command of the receiver
Noise == << <<"noise">> >>                     \* no command at all

Numbers == {"before_ten", "after_ten", "seconds", "lat_degrees", "lat_minutes",
            "lng_degrees", "lng_minutes", "0", "1", "satellites", "HDOP", "height"}

\* What fields consist of; none contains a comma.
Symbols == Numbers \cup {"$GGA", "$RMC", "noise", "N", "S", "E", "W", "decimals"}

\* A sentence without its last characters.
Cuts(fields) ==
  UNION {{Append(SubSeq(fields, 1, j - 1), SubSeq(fields[j], 1, m)) : m \in 0..Len(fields[j])}
         : j \in DOMAIN fields}

\* The symbols whose first character is a 0.
LeadingZero == {"0", "before_ten"}

-----------------------------------------------------------------------------
(* string::tokenizer *)

\* std::string::find.  npos is the largest size_t; how wide that is does not
\* matter as long as no sentence has this length.
npos == 65535
Found(s, curr) == {j \in curr..(Len(s) - 1) : s[j + 1] = COMMA}
find(s, curr) == IF Found(s, curr) = {} THEN npos ELSE Min(Found(s, curr))

\* Mutant: the tokenizer stays at the end once it is there.
AdvanceToEnd(s, curr) == IF find(s, curr) = npos THEN Len(s) ELSE find(s, curr) + 1

\* curr = next + 1, in size_t.
Advance(s, curr) == (find(s, curr) + 1) % (npos + 1)

\* Mutant: the length is one short.
SubstrShort(s, curr) == SubSeq(s, curr + 1, Min({curr + find(s, curr) - 1, Len(s)}))

\* substr(curr, next): next is where the field ends, but taken as a length.
Substr(s, curr) ==
  SubSeq(s, curr + 1, Min({curr + find(s, curr), Len(s)}))

\* A tokenizer, with the tokens it has returned.
tokenizer(s) == [s |-> s, curr |-> 0, tokens |-> <<>>]
next_token(t) == [s |-> t.s, curr |-> Advance(t.s, t.curr),
                  tokens |-> Append(t.tokens, Substr(t.s, t.curr))]

\* The tokens process_nmea_line looks at: the command, time, latitude, N or S,
\* longitude, E or W, quality and satellites.
Tokens(s) ==
  LET asked[m \in 0..8] == IF m = 0 THEN tokenizer(s) ELSE next_token(asked[m - 1])
  IN  asked[8].tokens

-----------------------------------------------------------------------------
(* process_nmea_line *)

\* data[0]; behind the end of a std::string there is its terminating 0.
First(data) == IF data = <<>> THEN "end" ELSE data[1]

IsNumber(data) == First(data) \in Numbers

\* Mutant: what is no number is taken for 0.
IsCoordinateAlways(data) == TRUE

\* std::stoi and std::stod, of the degrees and the rest, find a number.
IsCoordinate(data) == IsNumber(data) /\ IsNumber(Tail(data))

\* What it does with a sentence: how it ends, which fields of result it has
\* set by then, and where their values are from.
process_nmea_line(s) ==
  LET data == Tokens(s)
      gga == First(data[1]) = "$GGA"
      lat == gga /\ IsCoordinate(data[3])
      lng == lat /\ IsCoordinate(data[5])
      useful == lng /\ IsNumber(data[8])
  IN  [outcome |-> IF useful THEN "useful" ELSE IF gga THEN "threw" ELSE "ignored",
       set |-> (IF lat THEN {"lat"} ELSE {}) \cup (IF lng THEN {"lng", "fix"} ELSE {}),
       lat |-> data[3], north |-> First(data[4]) = "N",
       lng |-> data[5], east |-> First(data[6]) = "E",
       fix |-> First(data[7]) \notin LeadingZero]
=============================================================================
