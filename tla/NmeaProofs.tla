------------------------------- MODULE NmeaProofs -------------------------------
(***************************************************************************)
(* What the tokenizer and the parser do with any sentence: Layout says     *)
(* where in a sentence its fields are, NextToken that the tokenizer gives  *)
(* one after the other and starts over, TokensOfFields which of them is    *)
(* the parser's m-th token, and PositionCut and NoPositionCut what it      *)
(* makes of the receiver's sentences, wherever they are cut.               *)
(*                                                                         *)
(* The library's induction theorems have an operator as a parameter; here  *)
(* induction is over a set of numbers (SetInduction), from the fact that < *)
(* is well-founded, and recursive functions are unfolded with it.          *)
(***************************************************************************)
EXTENDS Nmea, WellFoundedInduction, SequenceTheorems, TLAPS

Chars == Symbols \cup {COMMA}
Text == Seq(Symbols)

LEMMA CommaApart == COMMA \notin Symbols
BY DEF COMMA, Symbols, Numbers

\* start says where in the sentence its fields begin.
Layout(fields, start) ==
  LET s == Join(fields)
      N == Len(fields)
  IN  /\ s \in Seq(Chars)
      /\ start \in [1..N -> Nat]
      /\ start[1] = 0
      /\ \A k \in 1..N : /\ start[k] + Len(fields[k]) <= Len(s)
                         /\ \A i \in 1..Len(fields[k]) : s[start[k] + i] = fields[k][i]
      /\ \A k \in 1..(N - 1) : /\ start[k + 1] = start[k] + Len(fields[k]) + 1
                               /\ s[start[k + 1]] = COMMA
      /\ start[N] + Len(fields[N]) = Len(s)

\* Induction, with a set for the predicate.
LEMMA SetInduction ==
  ASSUME NEW S, 0 \in S, \A k \in Nat : k \in S => k + 1 \in S
  PROVE  \A k \in Nat : k \in S
<1> SUFFICES ASSUME Nat \ S # {} PROVE FALSE
  OBVIOUS
<1> DEFINE R == OpToRel(<, Nat)
<1>1. IsWellFoundedOn(R, Nat)
  BY NatLessThanWellFounded
<1>2. \A a, b \in Nat : a < b => <<a, b>> \in R
  BY DEF OpToRel
<1> HIDE DEF R
<1>3. PICK x \in Nat \ S : \A y \in Nat \ S : ~(<<y, x>> \in R)
  BY <1>1, WFMin
<1>4. x # 0 /\ x \in Nat
  BY <1>3
<1>5. x - 1 \in Nat /\ x - 1 < x /\ (x - 1) + 1 = x
  BY <1>4
<1>6. x - 1 \notin S
  BY <1>3, <1>5
<1> QED
  BY <1>2, <1>3, <1>5, <1>6

\* FlattenSeq, by one sequence after the other.
LEMMA Flat ==
  ASSUME NEW q, Len(q) \in Nat \ {0}
  PROVE  \E flat : /\ flat = [k \in 1..Len(q) |-> IF k = 1 THEN q[k] ELSE flat[k - 1] \o q[k]]
                   /\ FlattenSeq(q) = flat[Len(q)]
<1> DEFINE N == Len(q)
           D(f, n) == f = [k \in 1..n |-> IF k = 1 THEN q[k] ELSE f[k - 1] \o q[k]]
           S == {n \in Nat : \E f : D(f, n)}
           flatten == CHOOSE f : D(f, N)
<1>1. 0 \in S
  <2>1. D([k \in 1..0 |-> 0], 0)
    OBVIOUS
  <2> QED
    BY <2>1
<1>2. ASSUME NEW n \in Nat, n \in S PROVE n + 1 \in S
  <2>1. PICK f : D(f, n)
    BY <1>2
  <2> DEFINE g == [k \in 1..(n + 1) |-> IF k = 1 THEN q[k] ELSE f[k - 1] \o q[k]]
  <2>1a. \A k \in 1..n : f[k] = IF k = 1 THEN q[k] ELSE f[k - 1] \o q[k]
    BY <2>1, Zenon
  <2>1b. \A k \in 1..n : k \in 1..(n + 1)
    OBVIOUS
  <2>2. \A k \in 1..n : g[k] = f[k]
    BY <2>1a, <2>1b, Zenon
  <2>3. \A k \in 1..(n + 1) : k # 1 => k - 1 \in 1..n
    OBVIOUS
  <2> HIDE DEF g
  <2>4. g = [k \in 1..(n + 1) |-> IF k = 1 THEN q[k] ELSE f[k - 1] \o q[k]]
    BY DEF g
  <2>5. g = [k \in 1..(n + 1) |-> IF k = 1 THEN q[k] ELSE g[k - 1] \o q[k]]
    BY <2>2, <2>3, <2>4
  <2>6. D(g, n + 1)
    BY <2>5
  <2>7. n + 1 \in Nat
    OBVIOUS
  <2> QED
    BY <2>6, <2>7, Zenon
<1> HIDE DEF S
<1>3. N \in S
  BY <1>1, <1>2, SetInduction
<1> USE DEF S
<1>4. \E f : D(f, N)
  BY <1>3
<1>5. D(flatten, N)
  BY <1>4, Zenon
<1>6. FlattenSeq(q) = flatten[N]
  BY Zenon DEF FlattenSeq
<1> QED
  BY <1>5, <1>6

\* The fields with the commas in front of them.
Pieces(fields) == [j \in DOMAIN fields |-> IF j = 1 THEN fields[j] ELSE <<COMMA>> \o fields[j]]

\* The sentence up to its k-th field.
Upto(fields, flat) ==
  /\ flat = [k \in 1..Len(fields) |-> IF k = 1 THEN fields[1] ELSE flat[k - 1] \o (<<COMMA>> \o fields[k])]
  /\ Join(fields) = flat[Len(fields)]

\* A sentence is made up field by field.
LEMMA Parts ==
  ASSUME NEW fields \in Seq(Text), fields # <<>>
  PROVE  \E flat : Upto(fields, flat)
<1> DEFINE q == Pieces(fields)
           N == Len(fields)
<1>1. N \in Nat \ {0} /\ DOMAIN fields = 1..N
  OBVIOUS
<1>2. \A j \in 1..N : q[j] = IF j = 1 THEN fields[1] ELSE <<COMMA>> \o fields[j]
  BY <1>1 DEF Pieces
<1>3. Len(q) = N
  BY <1>1 DEF Pieces
<1>4. Join(fields) = FlattenSeq(q)
  BY DEF Join, Pieces
<1> HIDE DEF q
<1>5. PICK flat : /\ flat = [k \in 1..Len(q) |-> IF k = 1 THEN q[k] ELSE flat[k - 1] \o q[k]]
                  /\ FlattenSeq(q) = flat[Len(q)]
  BY <1>1, <1>3, Flat
<1>6. flat = [k \in 1..N |-> IF k = 1 THEN q[k] ELSE flat[k - 1] \o q[k]]
  BY <1>3, <1>5
<1>7. flat = [k \in 1..N |-> IF k = 1 THEN fields[1] ELSE flat[k - 1] \o (<<COMMA>> \o fields[k])]
  BY <1>2, <1>6
<1>8. Join(fields) = flat[N]
  BY <1>3, <1>4, <1>5
<1> QED
  BY <1>7, <1>8 DEF Upto

LEMMA UptoStep ==
  ASSUME NEW fields \in Seq(Text), fields # <<>>, NEW flat, Upto(fields, flat)
  PROVE  /\ flat[1] = fields[1]
         /\ \A k \in 1..(Len(fields) - 1) : flat[k + 1] = flat[k] \o (<<COMMA>> \o fields[k + 1])
         /\ \A k \in 1..Len(fields) : fields[k] \in Text
<1>1. Len(fields) \in Nat \ {0}
  OBVIOUS
<1>2. \A k \in 1..Len(fields) : flat[k] = IF k = 1 THEN fields[1] ELSE flat[k - 1] \o (<<COMMA>> \o fields[k])
  BY Zenon DEF Upto
<1>3. 1 \in 1..Len(fields)
  BY <1>1
<1>4. ASSUME NEW k \in 1..(Len(fields) - 1)
      PROVE  flat[k + 1] = flat[k] \o (<<COMMA>> \o fields[k + 1])
  <2>1. k + 1 \in 1..Len(fields) /\ k + 1 # 1 /\ (k + 1) - 1 = k
    BY <1>1
  <2> QED
    BY <1>2, <2>1, Zenon
<1>5. \A k \in 1..Len(fields) : fields[k] \in Text
  BY ElementOfSeq
<1> QED
  BY <1>2, <1>3, <1>4, <1>5, Zenon

\* A piece of the sentence that is put behind another.
LEMMA Behind ==
  ASSUME NEW s \in Seq(Chars), NEW f \in Text
  PROVE  LET t == s \o (<<COMMA>> \o f)
         IN  /\ t \in Seq(Chars)
             /\ Len(t) = Len(s) + 1 + Len(f)
             /\ \A i \in 1..Len(s) : t[i] = s[i]
             /\ t[Len(s) + 1] = COMMA
             /\ \A i \in 1..Len(f) : t[Len(s) + 1 + i] = f[i]
<1> DEFINE c == <<COMMA>> \o f
<1>1. COMMA \in Chars
  BY DEF Chars
<1> HIDE DEF COMMA
<1>2. <<COMMA>> \in Seq(Chars) /\ Len(<<COMMA>>) = 1 /\ <<COMMA>>[1] = COMMA
  BY <1>1
<1>3. f \in Seq(Chars)
  <2>1. f \in Seq(Symbols) /\ Symbols \subseteq Chars
    BY DEF Text, Chars
  <2> QED
    BY <2>1, SeqMonotonic
<1>4. /\ c \in Seq(Chars) /\ Len(c) = 1 + Len(f)
      /\ \A i \in 1..(1 + Len(f)) : c[i] = IF i <= 1 THEN COMMA ELSE f[i - 1]
  BY <1>2, <1>3, ConcatProperties
<1> HIDE DEF c
<1>5. /\ s \o c \in Seq(Chars) /\ Len(s \o c) = Len(s) + Len(c)
      /\ \A i \in 1..(Len(s) + Len(c)) : (s \o c)[i] = IF i <= Len(s) THEN s[i] ELSE c[i - Len(s)]
  BY <1>4, ConcatProperties
<1>6. Len(s) \in Nat /\ Len(f) \in Nat
  BY <1>3
<1>7. \A i \in 1..Len(s) : (s \o c)[i] = s[i]
  BY <1>4, <1>5, <1>6
<1>8. (s \o c)[Len(s) + 1] = COMMA
  BY <1>4, <1>5, <1>6
<1>9. \A i \in 1..Len(f) : (s \o c)[Len(s) + 1 + i] = f[i]
  BY <1>4, <1>5, <1>6
<1> QED
  BY <1>4, <1>5, <1>6, <1>7, <1>8, <1>9 DEF c

\* The parts of a sentence are sequences, each a prefix of the next.
LEMMA PartsGrow ==
  ASSUME NEW fields \in Seq(Text), fields # <<>>, NEW flat, Upto(fields, flat)
  PROVE  \A k \in 1..Len(fields) :
           /\ flat[k] \in Seq(Chars)
           /\ \A j \in 1..k : /\ flat[j] \in Seq(Chars)
                              /\ Len(flat[j]) <= Len(flat[k])
                              /\ \A i \in 1..Len(flat[j]) : flat[k][i] = flat[j][i]
<1> DEFINE N == Len(fields)
           Grown(k) == /\ flat[k] \in Seq(Chars)
                       /\ \A j \in 1..k : /\ flat[j] \in Seq(Chars)
                                          /\ Len(flat[j]) <= Len(flat[k])
                                          /\ \A i \in 1..Len(flat[j]) : flat[k][i] = flat[j][i]
           S == {k \in Nat : k \in 1..N => Grown(k)}
<1>1. 0 \in S
  OBVIOUS
<1>2. ASSUME NEW k \in Nat, k \in S PROVE k + 1 \in S
  <2> SUFFICES ASSUME k + 1 \in 1..N PROVE Grown(k + 1)
    OBVIOUS
  <2>1. CASE k = 0
    <3>1. flat[1] = fields[1] /\ fields[1] \in Text
      <4>1. 1 \in 1..N
        BY <2>1
      <4> QED
        BY <4>1, UptoStep, Zenon
    <3>2. flat[1] \in Seq(Chars)
      <4>1. fields[1] \in Seq(Symbols) /\ Symbols \subseteq Chars
        BY <3>1 DEF Text, Chars
      <4> QED
        BY <3>1, <4>1, SeqMonotonic
    <3>3. Len(flat[1]) \in Nat
      BY <3>2
    <3>4. Grown(1)
      BY <3>2, <3>3
    <3> QED
      BY <2>1, <3>4
  <2>2. CASE k # 0
    <3>1. k \in 1..N /\ k \in 1..(N - 1) /\ Grown(k)
      BY <1>2, <2>2
    <3> DEFINE a == flat[k]
               b == flat[k + 1]
               f == fields[k + 1]
    <3>2. a \in Seq(Chars) /\ f \in Text /\ b = a \o (<<COMMA>> \o f)
      <4>1. f \in Text
        BY UptoStep, Zenon
      <4>2. b = a \o (<<COMMA>> \o f)
        BY <3>1, UptoStep, Zenon
      <4>3. a \in Seq(Chars)
        BY <3>1
      <4> QED
        BY <4>1, <4>2, <4>3
    <3> HIDE DEF a, b, f
    <3>3. /\ b \in Seq(Chars)
          /\ Len(b) = Len(a) + 1 + Len(f)
          /\ \A i \in 1..Len(a) : b[i] = a[i]
      BY <3>2, Behind, Zenon
    <3>4. Len(a) \in Nat /\ Len(b) \in Nat /\ Len(a) <= Len(b)
      <4>1. Len(a) \in Nat /\ Len(b) \in Nat /\ Len(f) \in Nat
        BY <3>2, <3>3 DEF Text
      <4> QED
        BY <3>3, <4>1
    <3>5. ASSUME NEW j \in 1..(k + 1)
          PROVE  /\ flat[j] \in Seq(Chars)
                 /\ Len(flat[j]) <= Len(b)
                 /\ \A i \in 1..Len(flat[j]) : b[i] = flat[j][i]
      <4>1. CASE j = k + 1
        BY <3>3, <3>4, <4>1 DEF b
      <4>2. CASE j \in 1..k
        <5>1. Len(flat[j]) <= Len(a) /\ \A i \in 1..Len(flat[j]) : a[i] = flat[j][i]
          BY <3>1, <4>2 DEF a
        <5> DEFINE c == flat[j]
        <5> HIDE DEF c
        <5>2. /\ c \in Seq(Chars) /\ Len(c) <= Len(a)
              /\ \A i \in 1..Len(c) : a[i] = c[i]
          BY <3>1, <4>2, <5>1 DEF c
        <5>3. Len(c) <= Len(b) /\ \A i \in 1..Len(c) : b[i] = c[i]
          BY <3>3, <3>4, <5>2
        <5> QED
          BY <5>2, <5>3 DEF c
      <4> QED
        BY <4>1, <4>2
    <3> QED
      BY <3>3, <3>5 DEF b
  <2> QED
    BY <2>1, <2>2
<1> HIDE DEF S
<1>3. \A k \in Nat : k \in S
  BY <1>1, <1>2, SetInduction
<1> QED
  BY <1>3 DEF S

\* A sentence is its fields, one behind the other, with commas between them.
LEMMA LayoutExists ==
  ASSUME NEW fields \in Seq(Text), fields # <<>>
  PROVE  \E start : Layout(fields, start)
<1> DEFINE N == Len(fields)
           s == Join(fields)
<1>1. PICK flat : Upto(fields, flat)
  BY Parts
<1>2. N \in Nat \ {0} /\ \A k \in 1..N : fields[k] \in Text /\ Len(fields[k]) \in Nat
  BY ElementOfSeq DEF Text
<1>3. s = flat[N]
  BY <1>1 DEF Upto
<1>4. \A k \in 1..N : flat[k] \in Seq(Chars) /\ Len(flat[k]) \in Nat
  BY <1>1, PartsGrow
<1>5. s \in Seq(Chars) /\ Len(s) \in Nat
  BY <1>2, <1>3, <1>4
<1>6. \A k \in 1..N : /\ Len(flat[k]) <= Len(s)
                      /\ \A i \in 1..Len(flat[k]) : s[i] = flat[k][i]
  <2>1. N \in 1..N
    BY <1>2
  <2> QED
    BY <1>1, <1>3, <2>1, PartsGrow
<1>7. flat[1] = fields[1]
  BY <1>1, UptoStep
<1>8. ASSUME NEW k \in 1..(N - 1)
      PROVE  /\ Len(flat[k + 1]) = Len(flat[k]) + 1 + Len(fields[k + 1])
             /\ flat[k + 1][Len(flat[k]) + 1] = COMMA
             /\ \A i \in 1..Len(fields[k + 1]) : flat[k + 1][Len(flat[k]) + 1 + i] = fields[k + 1][i]
  <2> DEFINE a == flat[k]
             f == fields[k + 1]
  <2>1. k \in 1..N /\ k + 1 \in 1..N
    BY <1>2
  <2>2. a \in Seq(Chars) /\ f \in Text
    BY <1>2, <1>4, <2>1
  <2>3. flat[k + 1] = a \o (<<COMMA>> \o f)
    BY <1>1, UptoStep, Zenon
  <2> HIDE DEF a, f
  <2>4. LET t == a \o (<<COMMA>> \o f)
        IN  /\ Len(t) = Len(a) + 1 + Len(f)
            /\ t[Len(a) + 1] = COMMA
            /\ \A i \in 1..Len(f) : t[Len(a) + 1 + i] = f[i]
    BY <2>2, Behind, Zenon
  <2> QED
    BY <2>3, <2>4, Zenon DEF a, f
<1> HIDE DEF s, N
<1> DEFINE start == [k \in 1..N |-> Len(flat[k]) - Len(fields[k])]
<1>9. \A k \in 1..N : start[k] = Len(flat[k]) - Len(fields[k])
  OBVIOUS
<1>10. start = [k \in 1..N |-> start[k]]
  OBVIOUS
<1> HIDE DEF start
<1>11. ASSUME NEW k \in 1..N
       PROVE  /\ start[k] \in Nat
              /\ start[k] + Len(fields[k]) = Len(flat[k])
              /\ \A i \in 1..Len(fields[k]) : flat[k][start[k] + i] = fields[k][i]
              /\ k = 1 => start[k] = 0
  <2>1. Len(flat[k]) \in Nat /\ Len(fields[k]) \in Nat
    BY <1>2, <1>4
  <2> DEFINE a == Len(flat[k])
             b == Len(fields[k])
             c == start[k]
  <2> HIDE DEF a, b, c
  <2>1a. a \in Nat /\ b \in Nat /\ c = a - b
    BY <1>9, <2>1 DEF a, b, c
  <2>2. c + b = a
    BY <2>1a
  <2>3. CASE k = 1
    <3>1. Len(flat[k]) = Len(fields[k]) /\ flat[k] = fields[k]
      BY <1>7, <2>3
    <3>2. start[k] = 0
      <4>1. a = b
        BY <3>1 DEF a, b
      <4>2. c = 0
        BY <2>1a, <4>1
      <4> QED
        BY <4>2 DEF c
    <3> QED
      BY <2>1, <2>2, <3>1, <3>2
  <2>4. CASE k # 1
    <3> DEFINE j == k - 1
    <3>1. j \in 1..(N - 1) /\ j \in 1..N /\ j + 1 = k
      BY <1>2, <2>4
    <3> HIDE DEF j
    <3>2. /\ Len(flat[k]) = Len(flat[j]) + 1 + Len(fields[k])
          /\ \A i \in 1..Len(fields[k]) : flat[k][Len(flat[j]) + 1 + i] = fields[k][i]
      BY <1>8, <3>1
    <3>3. Len(flat[j]) \in Nat
      BY <1>4, <3>1
    <3>4. start[k] = Len(flat[j]) + 1
      <4> DEFINE d == Len(flat[j])
      <4> HIDE DEF d
      <4>1. d \in Nat /\ a = d + 1 + b
        BY <3>2, <3>3 DEF a, b, d
      <4>2. c = d + 1
        BY <2>1a, <4>1
      <4> QED
        BY <4>2 DEF c, d
    <3> QED
      BY <2>2, <2>4, <3>2, <3>3, <3>4
  <2> QED
    BY <2>3, <2>4
<1>11a. start \in [1..N -> Nat] /\ start[1] = 0 /\ start[N] + Len(fields[N]) = Len(s)
  <2>1. 1 \in 1..N /\ N \in 1..N
    BY <1>2
  <2>2. start[N] + Len(fields[N]) = Len(flat[N])
    BY <1>11, <2>1
  <2> QED
    BY <1>3, <1>10, <1>11, <2>1, <2>2
<1>12. ASSUME NEW k \in 1..N
       PROVE  /\ start[k] + Len(fields[k]) <= Len(s)
              /\ \A i \in 1..Len(fields[k]) : s[start[k] + i] = fields[k][i]
  <2>1. /\ start[k] \in Nat /\ Len(fields[k]) \in Nat
        /\ start[k] + Len(fields[k]) = Len(flat[k])
        /\ \A i \in 1..Len(fields[k]) : flat[k][start[k] + i] = fields[k][i]
    BY <1>2, <1>11
  <2>2. /\ Len(flat[k]) <= Len(s)
        /\ \A i \in 1..Len(flat[k]) : s[i] = flat[k][i]
    BY <1>6
  <2>3. \A i \in 1..Len(fields[k]) : start[k] + i \in 1..Len(flat[k])
    BY <2>1
  <2> QED
    BY <2>1, <2>2, <2>3
<1>13. ASSUME NEW k \in 1..(N - 1)
       PROVE  /\ start[k + 1] = start[k] + Len(fields[k]) + 1
              /\ s[start[k + 1]] = COMMA
  <2>1. k \in 1..N /\ k + 1 \in 1..N
    BY <1>2
  <2> DEFINE a == Len(flat[k])
             b == Len(fields[k])
             c == start[k]
             a1 == Len(flat[k + 1])
             b1 == Len(fields[k + 1])
             c1 == start[k + 1]
  <2> HIDE DEF a, b, c, a1, b1, c1
  <2>2. /\ a \in Nat /\ b \in Nat /\ c \in Nat /\ c + b = a
        /\ a1 \in Nat /\ b1 \in Nat /\ c1 \in Nat /\ c1 + b1 = a1
    BY <1>2, <1>4, <1>11, <2>1 DEF a, b, c, a1, b1, c1
  <2>3. a1 = a + 1 + b1
    BY <1>8 DEF a, a1, b1
  <2>4. c1 = a + 1 /\ c1 = c + b + 1 /\ c1 \in 1..a1
    BY <2>2, <2>3
  <2>5. s[start[k + 1]] = flat[k + 1][start[k + 1]]
    BY <1>6, <2>1, <2>4 DEF c1, a1
  <2>6. flat[k + 1][a + 1] = COMMA
    BY <1>8 DEF a
  <2>7. s[start[k + 1]] = COMMA
    BY <2>4, <2>5, <2>6 DEF c1
  <2> QED
    BY <2>4, <2>7 DEF c1, c, b
<1>14. Layout(fields, start)
  BY <1>5, <1>11a, <1>12, <1>13 DEF Layout, s, N
<1> QED
  BY <1>14

LEMMA MinOf ==
  ASSUME NEW S \in SUBSET Nat, NEW x \in S, \A y \in S : x <= y
  PROVE  Min(S) = x
<1>1. \E z \in S : \A y \in S : z <= y
  OBVIOUS
<1>2. Min(S) \in S /\ \A y \in S : Min(S) <= y
  BY <1>1, Zenon DEF Min
<1> DEFINE m == Min(S)
<1> HIDE DEF m
<1>3. m \in Nat /\ x \in Nat /\ m <= x /\ x <= m
  BY <1>2 DEF m
<1>4. m = x
  BY <1>3
<1> QED
  BY <1>4 DEF m

\* From the start of a field, find() returns its end.
LEMMA FindField ==
  ASSUME NEW fields \in Seq(Text), fields # <<>>, NEW start, Layout(fields, start),
         NEW k \in 1..Len(fields)
  PROVE  find(Join(fields), start[k]) = IF k < Len(fields) THEN start[k] + Len(fields[k]) ELSE npos
<1> DEFINE N == Len(fields)
           s == Join(fields)
           c == start[k]
           f == fields[k]
           b == Len(f)
<1>1. N \in Nat \ {0} /\ f \in Text /\ b \in Nat /\ s \in Seq(Chars) /\ Len(s) \in Nat /\ c \in Nat
  BY ElementOfSeq DEF Text, Layout
<1>2. c + b <= Len(s) /\ \A i \in 1..b : s[c + i] = f[i]
  BY Zenon DEF Layout
<1>3. \A i \in 1..b : f[i] # COMMA
  BY <1>1, CommaApart, ElementOfSeq DEF Text
<1>4. k < N => c + b + 1 <= Len(s) /\ s[c + b + 1] = COMMA
  <2> SUFFICES ASSUME k < N PROVE c + b + 1 <= Len(s) /\ s[c + b + 1] = COMMA
    OBVIOUS
  <2> DEFINE c1 == start[k + 1]
             b1 == Len(fields[k + 1])
  <2>1. k \in 1..(N - 1) /\ k + 1 \in 1..N
    BY <1>1
  <2>2. c1 = c + b + 1 /\ s[c1] = COMMA
    BY <2>1, Zenon DEF Layout
  <2>3. c1 + b1 <= Len(s)
    BY <2>1, Zenon DEF Layout
  <2>4. b1 \in Nat
    BY <2>1, ElementOfSeq DEF Text
  <2> HIDE DEF c1, b1, c, b, s
  <2>5. c + b + 1 <= Len(s)
    BY <1>1, <2>2, <2>3, <2>4
  <2> QED
    BY <2>2, <2>5
<1>5. k = N => c + b = Len(s)
  BY Zenon DEF Layout
<1> HIDE DEF c, f, b, s
<1>6. \A j \in Found(s, c) : j \in Nat /\ j >= c + b
  <2> SUFFICES ASSUME NEW j \in c..(Len(s) - 1), s[j + 1] = COMMA, j < c + b PROVE FALSE
    BY <1>1 DEF Found
  <2>1. (j + 1) - c \in 1..b /\ c + ((j + 1) - c) = j + 1
    BY <1>1
  <2> QED
    BY <1>2, <1>3, <2>1
<1>7. CASE k < N
  <2>1. c + b \in Found(s, c)
    BY <1>1, <1>4, <1>7 DEF Found
  <2>2. Min(Found(s, c)) = c + b
    BY <1>6, <2>1, MinOf
  <2> QED
    BY <1>7, <2>1, <2>2 DEF find, c, f, b, s
<1>8. CASE k = N
  <2>1. Found(s, c) = {}
    BY <1>1, <1>5, <1>6, <1>8 DEF Found
  <2> QED
    BY <1>8, <2>1 DEF find, c, f, b, s
<1> QED
  BY <1>1, <1>7, <1>8

\* What is returned for a field: itself, and what follows it, if anything, from
\* the comma on.
TokenOf(token, f) ==
  /\ token \in Seq(Chars)
  /\ Len(f) <= Len(token)
  /\ \A i \in 1..Len(f) : token[i] = f[i]
  /\ Len(token) > Len(f) => token[Len(f) + 1] = COMMA

Following(k, N) == IF k < N THEN k + 1 ELSE 1

\* next_token() returns the field it is at and goes on to the next, or to the
\* first after the last.
LEMMA NextToken ==
  ASSUME NEW fields \in Seq(Text), fields # <<>>, NEW start, Layout(fields, start),
         Len(Join(fields)) <= npos, NEW k \in 1..Len(fields)
  PROVE  /\ TokenOf(Substr(Join(fields), start[k]), fields[k])
         /\ k = Len(fields) => Len(Substr(Join(fields), start[k])) = Len(fields[k])
         /\ Advance(Join(fields), start[k]) = start[Following(k, Len(fields))]
<1> DEFINE N == Len(fields)
           s == Join(fields)
           c == start[k]
           f == fields[k]
           b == Len(f)
           n == find(s, c)
           e == Min({c + n, Len(s)})
           token == SubSeq(s, c + 1, e)
<1>1. N \in Nat \ {0} /\ f \in Text /\ b \in Nat /\ s \in Seq(Chars) /\ Len(s) \in Nat /\ c \in Nat
  BY ElementOfSeq DEF Text, Layout
<1>2. c + b <= Len(s) /\ \A i \in 1..b : s[c + i] = f[i]
  BY Zenon DEF Layout
<1>3. n = IF k < N THEN c + b ELSE npos
  BY FindField, Zenon
<1>4. k < N => /\ k \in 1..(N - 1) /\ start[k + 1] = c + b + 1 /\ s[c + b + 1] = COMMA
  <2>1. k < N => k \in 1..(N - 1)
    BY <1>1
  <2> QED
    BY <2>1, Zenon DEF Layout
<1>5. k = N => c + b = Len(s)
  BY Zenon DEF Layout
<1>6. start[1] = 0
  BY DEF Layout
<1>7. Substr(s, c) = token
  BY DEF Substr
<1>8. npos \in Nat /\ npos >= Len(s)
  BY DEF npos
<1> HIDE DEF c, f, b, s, n, token, N
<1>9. e \in Nat /\ e <= Len(s) /\ e >= c + b /\ (k = N => e = Len(s))
  <2>1. n \in Nat /\ n >= b /\ (k = N => c + n >= Len(s))
    BY <1>1, <1>3, <1>2, <1>8
  <2>2. CASE c + n <= Len(s)
    <3>1. e = c + n
      BY <1>1, <2>1, <2>2, MinOf
    <3> QED
      BY <1>1, <2>1, <2>2, <3>1
  <2>3. CASE c + n > Len(s)
    <3>1. e = Len(s)
      BY <1>1, <2>1, <2>3, MinOf
    <3> QED
      BY <1>1, <1>2, <2>1, <2>3, <3>1
  <2> QED
    BY <1>1, <2>1, <2>2, <2>3
<1> HIDE DEF e
<1>10. /\ token \in Seq(Chars)
       /\ Len(token) = e - c
       /\ \A i \in 1..(e - c) : token[i] = s[c + i]
  <2>1. \A i \in (c + 1)..e : s[i] \in Chars
    BY <1>1, <1>9, ElementOfSeq
  <2>2. /\ token \in Seq(Chars)
        /\ Len(token) = IF c + 1 <= e THEN e - (c + 1) + 1 ELSE 0
        /\ \A i \in 1..(e - (c + 1) + 1) : token[i] = s[(c + 1) + i - 1]
    <3> DEFINE m == c + 1
    <3>1. m \in Int /\ e \in Int
      BY <1>1, <1>9
    <3>2. token = SubSeq(s, m, e)
      BY DEF token
    <3>3. \A i \in m..e : s[i] \in Chars
      BY <2>1
    <3> HIDE DEF m
    <3>4. /\ SubSeq(s, m, e) \in Seq(Chars)
          /\ Len(SubSeq(s, m, e)) = IF m <= e THEN e - m + 1 ELSE 0
          /\ \A i \in 1..(e - m + 1) : SubSeq(s, m, e)[i] = s[m + i - 1]
      BY <3>1, <3>3, SubSeqProperties
    <3> QED
      BY <3>2, <3>4 DEF m
  <2>3. e >= c
    BY <1>1, <1>9
  <2>4. e - (c + 1) + 1 = e - c /\ \A i \in 1..(e - c) : (c + 1) + i - 1 = c + i
    BY <1>1, <1>9
  <2> QED
    BY <1>1, <1>9, <2>2, <2>3, <2>4
<1>11. TokenOf(token, f)
  <2>1. b <= Len(token)
    BY <1>1, <1>9, <1>10
  <2>2. \A i \in 1..b : token[i] = f[i]
    BY <1>1, <1>2, <1>9, <1>10
  <2>3. Len(token) > b => token[b + 1] = COMMA
    <3> SUFFICES ASSUME Len(token) > b PROVE token[b + 1] = COMMA
      OBVIOUS
    <3>1. k # N
      BY <1>1, <1>5, <1>9, <1>10
    <3>2. k < N
      BY <1>1, <3>1 DEF N
    <3>3. b + 1 \in 1..(e - c) /\ c + (b + 1) = c + b + 1
      BY <1>1, <1>9, <1>10
    <3> QED
      BY <1>4, <1>10, <3>2, <3>3
  <2> QED
    BY <1>10, <2>1, <2>2, <2>3 DEF TokenOf, b
<1>12. k = N => Len(token) = b
  BY <1>1, <1>5, <1>9, <1>10
<1>13. Advance(s, c) = start[Following(k, N)]
  <2>1. Advance(s, c) = (n + 1) % (npos + 1)
    BY DEF Advance, n
  <2>2. CASE k < N
    <3>1. n + 1 = c + b + 1 /\ start[k + 1] = c + b + 1
      BY <1>3, <1>4, <2>2
    <3>2. c + b + 1 <= Len(s)
      <4>1. k + 1 \in 1..N
        BY <1>4, <2>2, <1>1
      <4>2. start[k + 1] + Len(fields[k + 1]) <= Len(s) /\ Len(fields[k + 1]) \in Nat
        BY <4>1, ElementOfSeq DEF Layout, Text, s, N
      <4> DEFINE b1 == Len(fields[k + 1])
      <4> HIDE DEF b1
      <4>3. c + b + 1 + b1 <= Len(s) /\ b1 \in Nat
        BY <3>1, <4>2 DEF b1
      <4> QED
        BY <1>1, <4>3
    <3> DEFINE m == c + b + 1
    <3>3. m \in Nat /\ m <= npos
      <4> DEFINE l == Len(s)
      <4>1. l \in Nat /\ m \in Nat /\ m <= l /\ npos >= l
        BY <1>1, <1>8, <3>2
      <4> HIDE DEF l, m
      <4> QED
        BY <1>8, <4>1
    <3> HIDE DEF m
    <3>4. m % (npos + 1) = m
      BY <3>3 DEF npos
    <3>5. Advance(s, c) = m /\ start[k + 1] = m
      BY <2>1, <3>1, <3>4 DEF m
    <3> QED
      BY <2>2, <3>5 DEF Following
  <2>3. CASE k = N
    <3>1. n = npos
      BY <1>1, <1>3, <2>3
    <3>2. (npos + 1) % (npos + 1) = 0
      BY DEF npos
    <3>3. Following(k, N) = 1
      BY <1>1, <2>3 DEF Following
    <3> QED
      BY <1>6, <2>1, <3>1, <3>2, <3>3
  <2> QED
    BY <1>1, <2>2, <2>3 DEF N
<1> QED
  BY <1>7, <1>11, <1>12, <1>13 DEF c, f, b, s, N

\* The n-th token is for this field.
FieldOf(n, N) == ((n - 1) % N) + 1

LEMMA Wrap ==
  ASSUME NEW N \in Nat \ {0}, NEW n \in 1..8
  PROVE  /\ FieldOf(n, N) \in 1..N
         /\ Following(FieldOf(n, N), N) = FieldOf(n + 1, N)
<1>1. CASE N > 8
  BY <1>1 DEF FieldOf, Following
<1>2. CASE N \in 1..8
  <2>1. N = 1 \/ N = 2 \/ N = 3 \/ N = 4 \/ N = 5 \/ N = 6 \/ N = 7 \/ N = 8
    BY <1>2
  <2>2. n = 1 \/ n = 2 \/ n = 3 \/ n = 4 \/ n = 5 \/ n = 6 \/ n = 7 \/ n = 8
    OBVIOUS
  <2> QED
    BY <2>1, <2>2 DEF FieldOf, Following
<1> QED
  BY <1>1, <1>2

\* The m-th token of a sentence with these fields.
Token(fields, token, m) ==
  LET N == Len(fields)
  IN  /\ TokenOf(token, fields[FieldOf(m, N)])
      /\ FieldOf(m, N) = N => Len(token) = Len(fields[FieldOf(m, N)])

\* A tokenizer of this sentence that has returned m tokens.
Asked(fields, start, m, t) ==
  /\ t \in [s : Seq(Chars), curr : Nat, tokens : Seq(Seq(Chars))]
  /\ t.s = Join(fields)
  /\ t.curr = start[FieldOf(m + 1, Len(fields))]
  /\ Len(t.tokens) = m
  /\ \A i \in 1..m : Token(fields, t.tokens[i], i)

\* The next one it returns is the next field's.
LEMMA Ask ==
  ASSUME NEW fields \in Seq(Text), fields # <<>>, NEW start, Layout(fields, start),
         Len(Join(fields)) <= npos, NEW m \in 0..7, NEW t, Asked(fields, start, m, t)
  PROVE  Asked(fields, start, m + 1, next_token(t))
<1> DEFINE N == Len(fields)
           s == Join(fields)
           k == FieldOf(m + 1, N)
           token == Substr(s, start[k])
           curr == Advance(s, start[k])
           u == next_token(t)
<1>1. N \in Nat \ {0} /\ m + 1 \in 1..8
  OBVIOUS
<1>2. k \in 1..N /\ Following(k, N) = FieldOf((m + 1) + 1, N)
  BY <1>1, Wrap, Zenon
<1>3. /\ TokenOf(token, fields[k])
      /\ k = N => Len(token) = Len(fields[k])
      /\ curr = start[Following(k, N)]
  BY <1>2, NextToken, Zenon
<1>4. Token(fields, token, m + 1)
  BY <1>3, Zenon DEF Token
<1>5. curr = start[FieldOf((m + 1) + 1, N)] /\ curr \in Nat
  <2>1. Following(k, N) \in 1..N
    BY <1>1, <1>2 DEF Following
  <2>2. start \in [1..N -> Nat]
    BY DEF Layout
  <2> QED
    BY <1>2, <1>3, <2>1, <2>2
<1>6. token \in Seq(Chars)
  BY <1>3 DEF TokenOf
<1>7. t.s = s /\ t.curr = start[k]
  BY DEF Asked
<1> HIDE DEF token, curr, k, N
<1>8. u = [s |-> s, curr |-> curr, tokens |-> Append(t.tokens, token)]
  <2>1. u = [s |-> t.s, curr |-> Advance(t.s, t.curr), tokens |-> Append(t.tokens, Substr(t.s, t.curr))]
    BY Zenon DEF next_token
  <2>2. Advance(t.s, t.curr) = curr /\ Substr(t.s, t.curr) = token
    BY <1>7, Zenon DEF token, curr
  <2> QED
    BY <1>7, <2>1, <2>2, Zenon
<1> HIDE DEF u
<1>9. t \in [s : Seq(Chars), curr : Nat, tokens : Seq(Seq(Chars))]
  BY DEF Asked
<1>10. /\ u \in [s : Seq(Chars), curr : Nat, tokens : Seq(Seq(Chars))]
       /\ u.s = s /\ u.curr = curr /\ u.tokens = Append(t.tokens, token)
  BY <1>5, <1>6, <1>7, <1>8, <1>9
<1> DEFINE q == t.tokens
<1>11. q \in Seq(Seq(Chars)) /\ Len(q) = m /\ \A i \in 1..m : Token(fields, q[i], i)
  BY <1>9 DEF Asked
<1> HIDE DEF q
<1>12. Len(u.tokens) = m + 1 /\ u.tokens[m + 1] = token /\ \A i \in 1..m : u.tokens[i] = q[i]
  <2>1. u.tokens = Append(q, token)
    BY <1>10 DEF q
  <2> QED
    BY <1>6, <1>11, <2>1
<1>13. \A i \in 1..(m + 1) : Token(fields, u.tokens[i], i)
  <2>1. \A i \in 1..(m + 1) : i \in 1..m \/ i = m + 1
    OBVIOUS
  <2> QED
    BY <1>4, <1>11, <1>12, <2>1
<1> QED
  BY <1>5, <1>10, <1>12, <1>13 DEF Asked, u, N

\* The tokenizer, from its construction to its eighth token.
LEMMA Asking ==
  ASSUME NEW s
  PROVE  \E asked : /\ asked = [m \in 0..8 |-> IF m = 0 THEN tokenizer(s) ELSE next_token(asked[m - 1])]
                    /\ Tokens(s) = asked[8].tokens
<1> DEFINE D(f, n) == f = [m \in 0..n |-> IF m = 0 THEN tokenizer(s) ELSE next_token(f[m - 1])]
           S == {n \in Nat : \E f : D(f, n)}
           asking == CHOOSE f : D(f, 8)
<1>1. 0 \in S
  <2> DEFINE g == [m \in 0..0 |-> tokenizer(s)]
  <2>1. D(g, 0)
    <3>1. \A m \in 0..0 : m = 0
      OBVIOUS
    <3> QED
      BY <3>1, Zenon
  <2> QED
    BY <2>1
<1>2. ASSUME NEW n \in Nat, n \in S PROVE n + 1 \in S
  <2>1. PICK f : D(f, n)
    BY <1>2
  <2> DEFINE g == [m \in 0..(n + 1) |-> IF m = 0 THEN tokenizer(s) ELSE next_token(f[m - 1])]
  <2>2. \A m \in 0..n : f[m] = IF m = 0 THEN tokenizer(s) ELSE next_token(f[m - 1])
    BY <2>1, Zenon
  <2>3. \A m \in 0..n : m \in 0..(n + 1)
    OBVIOUS
  <2>4. \A m \in 0..n : g[m] = f[m]
    BY <2>2, <2>3, Zenon
  <2>5. \A m \in 0..(n + 1) : m # 0 => m - 1 \in 0..n
    OBVIOUS
  <2>6. g = [m \in 0..(n + 1) |-> IF m = 0 THEN tokenizer(s) ELSE next_token(f[m - 1])]
    OBVIOUS
  <2> HIDE DEF g
  <2>7. D(g, n + 1)
    <3>1. \A m \in 0..(n + 1) : m # 0 => g[m - 1] = f[m - 1]
      BY <2>4, <2>5, Zenon
    <3> QED
      BY <2>6, <3>1
  <2>8. n + 1 \in Nat
    OBVIOUS
  <2> QED
    BY <2>7, <2>8, Zenon
<1> HIDE DEF S
<1>3. 8 \in S
  BY <1>1, <1>2, SetInduction
<1> USE DEF S
<1>4. \E f : D(f, 8)
  BY <1>3
<1>5. D(asking, 8)
  BY <1>4, Zenon
<1>6. Tokens(s) = asking[8].tokens
  BY Zenon DEF Tokens
<1> QED
  BY <1>5, <1>6

\* The tokens of a sentence are its fields, in turn.
LEMMA TokensOfFields ==
  ASSUME NEW fields \in Seq(Text), fields # <<>>, Len(Join(fields)) <= npos
  PROVE  \A m \in 1..8 : Token(fields, Tokens(Join(fields))[m], m)
<1> DEFINE s == Join(fields)
<1>1. PICK start : Layout(fields, start)
  BY LayoutExists
<1>2. PICK asked : /\ asked = [m \in 0..8 |-> IF m = 0 THEN tokenizer(s) ELSE next_token(asked[m - 1])]
                   /\ Tokens(s) = asked[8].tokens
  BY Asking
<1>3. /\ asked[0] = tokenizer(s)
      /\ \A m \in 0..7 : asked[m + 1] = next_token(asked[m])
  <2>1. \A m \in 0..8 : asked[m] = IF m = 0 THEN tokenizer(s) ELSE next_token(asked[m - 1])
    BY <1>2, Zenon
  <2>2. 0 \in 0..8 /\ \A m \in 0..7 : m + 1 \in 0..8 /\ m + 1 # 0 /\ (m + 1) - 1 = m
    OBVIOUS
  <2> HIDE DEF s
  <2> QED
    BY <2>1, <2>2, Zenon
<1>4. Asked(fields, start, 0, tokenizer(s))
  <2>1. s \in Seq(Chars) /\ start[1] = 0
    BY <1>1 DEF Layout
  <2>2. FieldOf(0 + 1, Len(fields)) = 1
    <3>1. Len(fields) \in Nat \ {0}
      OBVIOUS
    <3> QED
      BY <3>1 DEF FieldOf
  <2> HIDE DEF s
  <2> DEFINE t0 == tokenizer(s)
  <2>3. t0 = [s |-> s, curr |-> 0, tokens |-> <<>>]
    BY DEF tokenizer
  <2> HIDE DEF t0
  <2>4. /\ t0 \in [s : Seq(Chars), curr : Nat, tokens : Seq(Seq(Chars))]
        /\ t0.s = s /\ t0.curr = 0 /\ Len(t0.tokens) = 0
    BY <2>1, <2>3
  <2> QED
    BY <2>1, <2>2, <2>4 DEF Asked, s, t0
<1>5. \A m \in 0..7 : \A t : Asked(fields, start, m, t) => Asked(fields, start, m + 1, next_token(t))
  BY <1>1, Ask, Zenon
<1> DEFINE S == {m \in Nat : m \in 0..8 => Asked(fields, start, m, asked[m])}
<1>6. 0 \in S
  BY <1>3, <1>4
<1>7. ASSUME NEW m \in Nat, m \in S PROVE m + 1 \in S
  <2> SUFFICES ASSUME m + 1 \in 0..8 PROVE Asked(fields, start, m + 1, asked[m + 1])
    OBVIOUS
  <2>1. m \in 0..7 /\ m \in 0..8
    OBVIOUS
  <2> QED
    BY <1>3, <1>5, <1>7, <2>1, Zenon
<1> HIDE DEF S
<1>8. \A m \in Nat : m \in S
  BY <1>6, <1>7, SetInduction
<1>9. Asked(fields, start, 8, asked[8])
  BY <1>8 DEF S
<1> QED
  BY <1>2, <1>9 DEF Asked

-----------------------------------------------------------------------------
(* Sentences that are cut *)

\* What is left of a sentence.
Left(cut, fields) ==
  LET P == Len(cut)
  IN  /\ cut \in Seq(Text) /\ cut # <<>>
      /\ P \in 1..Len(fields)
      /\ \A k \in 1..(P - 1) : cut[k] = fields[k]
      /\ Len(cut[P]) \in 0..Len(fields[P])
      /\ \A i \in 1..Len(cut[P]) : cut[P][i] = fields[P][i]

\* Cuts() leaves whole fields, and the beginning of one.
LEMMA CutLeft ==
  ASSUME NEW fields \in Seq(Text), NEW cut \in Cuts(fields)
  PROVE  Left(cut, fields)
<1>0. PICK j \in DOMAIN fields :
        \E m \in 0..Len(fields[j]) : cut = Append(SubSeq(fields, 1, j - 1), SubSeq(fields[j], 1, m))
  BY DEF Cuts
<1>1. PICK m \in 0..Len(fields[j]) : cut = Append(SubSeq(fields, 1, j - 1), SubSeq(fields[j], 1, m))
  BY <1>0
<1> DEFINE N == Len(fields)
           f == fields[j]
           front == SubSeq(fields, 1, j - 1)
           last == SubSeq(f, 1, m)
           b == Len(f)
<1>2. N \in Nat /\ j \in 1..N
  OBVIOUS
<1>3. f \in Seq(Symbols) /\ b \in Nat /\ m \in 0..b
  <2>1. f \in Text
    BY <1>2, ElementOfSeq
  <2> QED
    BY <2>1 DEF Text
<1> HIDE DEF N, f, b
<1>4. /\ front \in Seq(Text) /\ Len(front) = j - 1
      /\ \A k \in 1..(j - 1) : front[k] = fields[k]
  <2> DEFINE e == j - 1
  <2>1. e \in Int /\ e \in 0..N /\ \A i \in 1..e : fields[i] \in Text
    BY <1>2, ElementOfSeq DEF N
  <2> HIDE DEF e
  <2>2. /\ SubSeq(fields, 1, e) \in Seq(Text)
        /\ Len(SubSeq(fields, 1, e)) = IF 1 <= e THEN e - 1 + 1 ELSE 0
        /\ \A i \in 1..(e - 1 + 1) : SubSeq(fields, 1, e)[i] = fields[1 + i - 1]
    BY <2>1, SubSeqProperties
  <2>3. Len(SubSeq(fields, 1, e)) = e /\ \A i \in 1..e : SubSeq(fields, 1, e)[i] = fields[i]
    BY <1>2, <2>1, <2>2
  <2> QED
    BY <2>2, <2>3 DEF e
<1>5. /\ last \in Seq(Symbols) /\ Len(last) = m
      /\ \A i \in 1..m : last[i] = f[i]
  <2>1. m \in Int /\ \A i \in 1..m : f[i] \in Symbols
    BY <1>3, ElementOfSeq DEF b
  <2>2. /\ SubSeq(f, 1, m) \in Seq(Symbols)
        /\ Len(SubSeq(f, 1, m)) = IF 1 <= m THEN m - 1 + 1 ELSE 0
        /\ \A i \in 1..(m - 1 + 1) : SubSeq(f, 1, m)[i] = f[1 + i - 1]
    BY <2>1, SubSeqProperties
  <2> QED
    BY <1>3, <2>2
<1>6. cut = Append(front, last)
  BY <1>1 DEF f
<1> HIDE DEF front, last
<1>7. /\ cut \in Seq(Text) /\ Len(cut) = j
      /\ \A k \in 1..(j - 1) : cut[k] = fields[k]
      /\ cut[j] = last
  <2>1. last \in Text
    BY <1>5 DEF Text
  <2>2. /\ Append(front, last) \in Seq(Text)
        /\ Len(Append(front, last)) = Len(front) + 1
        /\ \A i \in 1..Len(front) : Append(front, last)[i] = front[i]
        /\ Append(front, last)[Len(front) + 1] = last
    BY <1>4, <2>1, AppendProperties
  <2> QED
    BY <1>2, <1>4, <1>6, <2>2
<1> QED
  BY <1>2, <1>3, <1>5, <1>7 DEF Left, f, b, N

\* It is not longer than the sentence.
LEMMA CutShorter ==
  ASSUME NEW fields \in Seq(Text), NEW cut, Left(cut, fields)
  PROVE  Len(Join(cut)) <= Len(Join(fields))
<1> DEFINE P == Len(cut)
           N == Len(fields)
           l == Len(Join(fields))
           l1 == Len(Join(cut))
<1>1. /\ cut \in Seq(Text) /\ cut # <<>> /\ fields # <<>>
      /\ N \in Nat \ {0} /\ P \in 1..N /\ P \in 1..P
  BY DEF Left
<1>2. PICK start : Layout(fields, start)
  BY <1>1, LayoutExists
<1>3. PICK start1 : Layout(cut, start1)
  BY <1>1, LayoutExists
<1> DEFINE S == {k \in Nat : k + 1 \in 1..P => start1[k + 1] = start[k + 1]}
<1>4. 0 \in S
  BY <1>2, <1>3 DEF Layout
<1>5. ASSUME NEW k \in Nat, k \in S PROVE k + 1 \in S
  <2> SUFFICES ASSUME (k + 1) + 1 \in 1..P PROVE start1[(k + 1) + 1] = start[(k + 1) + 1]
    OBVIOUS
  <2>1. k + 1 \in 1..P /\ k + 1 \in 1..(P - 1) /\ k + 1 \in 1..(N - 1)
    BY <1>1
  <2>2. start1[k + 1] = start[k + 1]
    BY <1>5, <2>1
  <2>3. cut[k + 1] = fields[k + 1]
    BY <2>1, Zenon DEF Left
  <2>4. start1[(k + 1) + 1] = start1[k + 1] + Len(cut[k + 1]) + 1
    BY <1>3, <2>1, Zenon DEF Layout
  <2>5. start[(k + 1) + 1] = start[k + 1] + Len(fields[k + 1]) + 1
    BY <1>2, <2>1, Zenon DEF Layout
  <2> QED
    BY <2>2, <2>3, <2>4, <2>5
<1> HIDE DEF S
<1>6. \A k \in Nat : k \in S
  BY <1>4, <1>5, SetInduction
<1>7. start1[P] = start[P]
  <2>1. P - 1 \in Nat /\ (P - 1) + 1 = P
    BY <1>1
  <2> QED
    BY <1>1, <1>6, <2>1 DEF S
<1> DEFINE c == start[P]
           b == Len(fields[P])
           b1 == Len(cut[P])
<1>8. c + b <= l /\ c \in Nat
  BY <1>1, <1>2 DEF Layout
<1>9. c + b1 = l1
  BY <1>3, <1>7 DEF Layout
<1>10. b1 \in 0..b /\ b \in Nat
  <2>1. fields[P] \in Text
    BY <1>1, ElementOfSeq
  <2> QED
    BY <2>1 DEF Left, Text
<1>11. l \in Nat
  BY <1>2 DEF Layout
<1> HIDE DEF c, b, b1, l, l1
<1>12. l1 <= l
  BY <1>8, <1>9, <1>10, <1>11
<1> QED
  BY <1>12 DEF l, l1

-----------------------------------------------------------------------------
(* What the parser makes of a token *)

\* IsPrefix, element by element.
LEMMA Prefix ==
  ASSUME NEW S, NEW T, NEW f \in Seq(S), NEW g \in Seq(T)
  PROVE  IsPrefix(f, g) <=> Len(f) <= Len(g) /\ \A i \in 1..Len(f) : g[i] = f[i]
<1> DEFINE b == Len(f)
<1>1. b \in Nat /\ b \in Int /\ Len(g) \in Nat
  OBVIOUS
<1>2. /\ SubSeq(f, 1, b) \in Seq(S) /\ Len(SubSeq(f, 1, b)) = b
      /\ \A i \in 1..b : SubSeq(f, 1, b)[i] = f[i]
  <2>1. \A i \in 1..b : f[i] \in S
    BY ElementOfSeq
  <2> HIDE DEF b
  <2>2. /\ SubSeq(f, 1, b) \in Seq(S)
        /\ Len(SubSeq(f, 1, b)) = IF 1 <= b THEN b - 1 + 1 ELSE 0
        /\ \A i \in 1..(b - 1 + 1) : SubSeq(f, 1, b)[i] = f[1 + i - 1]
    BY <1>1, <2>1, SubSeqProperties
  <2> QED
    BY <1>1, <2>2
<1>3. CASE b <= Len(g)
  <2>1. \A i \in 1..b : g[i] \in T
    BY <1>1, <1>3, ElementOfSeq
  <2> HIDE DEF b
  <2>2. /\ SubSeq(g, 1, b) \in Seq(T)
        /\ Len(SubSeq(g, 1, b)) = IF 1 <= b THEN b - 1 + 1 ELSE 0
        /\ \A i \in 1..(b - 1 + 1) : SubSeq(g, 1, b)[i] = g[1 + i - 1]
    BY <1>1, <2>1, SubSeqProperties
  <2>3. Len(SubSeq(g, 1, b)) = b /\ \A i \in 1..b : SubSeq(g, 1, b)[i] = g[i]
    BY <1>1, <2>2
  <2> DEFINE u == SubSeq(f, 1, b)
             v == SubSeq(g, 1, b)
  <2>4. u = v <=> \A i \in 1..b : g[i] = f[i]
    <3>1. u = v => \A i \in 1..b : g[i] = f[i]
      BY <1>2, <2>3, Zenon
    <3>2. ASSUME \A i \in 1..b : g[i] = f[i] PROVE u = v
      <4>1. u \in Seq(S \cup T) /\ v \in Seq(S \cup T)
        BY <1>2, <2>2, SeqMonotonic
      <4>2. Len(u) = Len(v) /\ \A i \in 1..Len(u) : u[i] = v[i]
        BY <1>2, <2>3, <3>2
      <4> HIDE DEF u, v
      <4> QED
        BY <4>1, <4>2, SeqEqual
    <3> QED
      BY <3>1, <3>2
  <2> QED
    BY <1>3, <2>4 DEF IsPrefix, b
<1>4. CASE ~(b <= Len(g))
  BY <1>4, Zenon DEF IsPrefix
<1> QED
  BY <1>3, <1>4 DEF b

\* A token begins with its field.
LEMMA FirstToken ==
  ASSUME NEW f \in Text, NEW token, TokenOf(token, f)
  PROVE  /\ f # <<>> => First(token) = f[1]
         /\ f = <<>> => First(token) \in {"end", COMMA}
         /\ IsNumber(token) <=> f # <<>> /\ f[1] \in Numbers
<1>1. /\ f \in Seq(Symbols) /\ token \in Seq(Chars)
      /\ Len(f) \in Nat /\ Len(token) \in Nat /\ Len(f) <= Len(token)
  BY DEF Text, TokenOf
<1>2. "end" \notin Numbers /\ COMMA \notin Numbers
  BY DEF Numbers, COMMA
<1>3. CASE f # <<>>
  <2>1. 1 \in 1..Len(f) /\ token # <<>>
    BY <1>1, <1>3
  <2>2. token[1] = f[1]
    BY <2>1 DEF TokenOf
  <2> QED
    BY <1>3, <2>1, <2>2, Zenon DEF First, IsNumber
<1>4. CASE f = <<>>
  <2>1. token # <<>> => token[1] = COMMA
    <3>1. Len(f) = 0
      BY <1>4
    <3>2. token # <<>> => Len(token) > 0
      BY <1>1
    <3> QED
      BY <3>1, <3>2 DEF TokenOf
  <2>2. First(token) \in {"end", COMMA}
    BY <2>1 DEF First
  <2> QED
    BY <1>2, <1>4, <2>2 DEF IsNumber
<1> QED
  BY <1>3, <1>4

LEMMA FirstOfTail ==
  ASSUME NEW token \in Seq(Chars), Len(token) > 1
  PROVE  First(Tail(token)) = token[2]
<1>1. Len(token) \in Nat /\ token # <<>>
  OBVIOUS
<1>2. Len(Tail(token)) = Len(token) - 1 /\ Tail(token)[1] = token[2] /\ Tail(token) # <<>>
  BY <1>1
<1> QED
  BY <1>2 DEF First

\* What is read as a coordinate.
LEMMA Coordinate ==
  ASSUME NEW f \in Text, NEW token, TokenOf(token, f)
  PROVE  /\ f = <<>> \/ f[1] \notin Numbers => ~IsCoordinate(token)
         /\ Len(token) = 1 => ~IsCoordinate(token)
         /\ Len(f) > 1 /\ f[1] \in Numbers => (IsCoordinate(token) <=> f[2] \in Numbers)
<1>1. /\ f \in Seq(Symbols) /\ token \in Seq(Chars)
      /\ Len(f) \in Nat /\ Len(token) \in Nat /\ Len(f) <= Len(token)
  BY DEF Text, TokenOf
<1>2. f = <<>> \/ f[1] \notin Numbers => ~IsCoordinate(token)
  BY FirstToken, Zenon DEF IsCoordinate
<1>3. Len(token) = 1 => ~IsCoordinate(token)
  <2> SUFFICES ASSUME Len(token) = 1 PROVE ~IsCoordinate(token)
    OBVIOUS
  <2>1. Tail(token) = <<>>
    <3>1. Tail(token) \in Seq(Chars) /\ Len(Tail(token)) = 0
      BY <1>1
    <3> QED
      BY <3>1, EmptySeq
  <2>2. First(Tail(token)) = "end" /\ "end" \notin Numbers
    BY <2>1 DEF First, Numbers
  <2> QED
    BY <2>2 DEF IsCoordinate, IsNumber
<1>4. ASSUME Len(f) > 1, f[1] \in Numbers
      PROVE  IsCoordinate(token) <=> f[2] \in Numbers
  <2>1. f # <<>> /\ 2 \in 1..Len(f) /\ Len(token) > 1
    BY <1>1, <1>4
  <2>2. IsNumber(token)
    BY <1>4, <2>1, FirstToken
  <2>3. token[2] = f[2]
    BY <2>1 DEF TokenOf
  <2>4. First(Tail(token)) = f[2]
    BY <1>1, <2>1, <2>3, FirstOfTail
  <2> QED
    BY <2>2, <2>4 DEF IsCoordinate, IsNumber
<1> QED
  BY <1>2, <1>3, <1>4

\* The tokens that process_nmea_line takes from what is left of a sentence.
LEMMA CutTokens ==
  ASSUME NEW fields \in Seq(Text), Len(Join(fields)) <= npos, NEW cut, Left(cut, fields),
         NEW i \in 1..8, NEW k \in 1..Len(cut), k = FieldOf(i, Len(cut))
  PROVE  LET token == Tokens(Join(cut))[i]
         IN  /\ cut[k] \in Text /\ TokenOf(token, cut[k])
             /\ k < Len(cut) => cut[k] = fields[k] /\ fields[k] \in Text
             /\ k = Len(cut) => token = cut[k]
<1> DEFINE token == Tokens(Join(cut))[i]
           P == Len(cut)
           l == Len(Join(cut))
<1>1. cut \in Seq(Text) /\ cut # <<>> /\ P \in 1..Len(fields) /\ P \in Nat
  BY DEF Left
<1>2. l <= npos
  <2>1. l <= Len(Join(fields))
    BY CutShorter
  <2>2. l \in Nat /\ Len(Join(fields)) \in Nat
    <3>1. fields # <<>>
      BY <1>1
    <3> QED
      BY <1>1, <3>1, LayoutExists DEF Layout
  <2> HIDE DEF l
  <2>3. npos \in Nat
    BY DEF npos
  <2> QED
    BY <2>1, <2>2, <2>3
<1>3. Token(cut, token, i)
  BY <1>1, <1>2, TokensOfFields
<1>4. TokenOf(token, cut[k]) /\ (k = P => Len(token) = Len(cut[k]))
  BY <1>3, Zenon DEF Token
<1>5. cut[k] \in Text
  BY <1>1, ElementOfSeq
<1>6. k < P => cut[k] = fields[k]
  <2>1. k < P => k \in 1..(P - 1)
    BY <1>1
  <2> QED
    BY <2>1, Zenon DEF Left
<1> HIDE DEF token
<1>7. k = P => token = cut[k]
  <2> SUFFICES ASSUME k = P PROVE token = cut[k]
    OBVIOUS
  <2> DEFINE f == cut[k]
  <2> HIDE DEF f
  <2>1. /\ Len(token) = Len(f) /\ token \in Seq(Chars) /\ f \in Seq(Symbols)
        /\ \A j \in 1..Len(f) : token[j] = f[j]
    BY <1>4, <1>5 DEF TokenOf, Text, f
  <2>2. f \in Seq(Chars)
    <3>1. Symbols \subseteq Chars
      BY DEF Chars
    <3> QED
      BY <2>1, <3>1, SeqMonotonic
  <2>3. token = f
    BY <2>1, <2>2, SeqEqual
  <2> QED
    BY <2>3 DEF f
<1> QED
  BY <1>4, <1>5, <1>6, <1>7 DEF token

\* A field that is left is the beginning of the one there was.
LEMMA CutField ==
  ASSUME NEW fields \in Seq(Text), NEW cut, Left(cut, fields), NEW k \in 1..Len(cut)
  PROVE  /\ cut[k] \in Text /\ fields[k] \in Text
         /\ Len(cut[k]) \in 0..Len(fields[k])
         /\ \A i \in 1..Len(cut[k]) : cut[k][i] = fields[k][i]
<1> DEFINE P == Len(cut)
<1>1. cut \in Seq(Text) /\ P \in 1..Len(fields) /\ P \in Nat /\ Len(fields) \in Nat
  BY DEF Left
<1>2. cut[k] \in Text /\ fields[k] \in Text
  BY <1>1, ElementOfSeq
<1>3. CASE k < P
  <2>1. k \in 1..(P - 1)
    BY <1>1, <1>3
  <2>2. cut[k] = fields[k]
    BY <2>1, Zenon DEF Left
  <2>3. Len(fields[k]) \in Nat
    BY <1>2 DEF Text
  <2> QED
    BY <1>2, <2>2, <2>3
<1>4. CASE k = P
  BY <1>2, <1>4, Zenon DEF Left
<1> QED
  BY <1>1, <1>3, <1>4

LEMMA NoPositionFields ==
  /\ NoPosition \in Seq(Text) /\ Len(NoPosition) = 10
  /\ NoPosition[1] = <<"$GGA">> /\ NoPosition[3] = <<>>
<1> DEFINE a == <<"$GGA">>
           b == <<"after_ten", "seconds">>
           c == <<"0">>
           d == <<"satellites">>
           e == <<"HDOP">>
           z == <<>>
<1>1. NoPosition = <<a, b, z, z, z, z, c, d, e, z>>
  BY DEF NoPosition, Time
<1>2. a \in Text /\ b \in Text /\ c \in Text /\ d \in Text /\ e \in Text /\ z \in Text
  BY DEF Text, Symbols, Numbers
<1>3. /\ <<a, b, z, z, z, z, c, d, e, z>> \in Seq(Text)
      /\ Len(<<a, b, z, z, z, z, c, d, e, z>>) = 10
      /\ <<a, b, z, z, z, z, c, d, e, z>>[1] = a
      /\ <<a, b, z, z, z, z, c, d, e, z>>[3] = z
  <2> HIDE DEF a, b, c, d, e, z
  <2> QED
    BY <1>2
<1> QED
  BY <1>1, <1>3

\* A sentence without a position has no latitude, whatever is taken for it.
LEMMA NoPositionCut ==
  ASSUME Len(Join(NoPosition)) <= npos, NEW cut \in Cuts(NoPosition)
  PROVE  process_nmea_line(Join(cut)).outcome # "useful"
<1> DEFINE P == Len(cut)
           data == Tokens(Join(cut))
           gga == First(data[1]) = "$GGA"
           lat == gga /\ IsCoordinate(data[3])
           lng == lat /\ IsCoordinate(data[5])
           useful == lng /\ IsNumber(data[8])
           k == IF P < 3 THEN 1 ELSE 3
<1>1. Left(cut, NoPosition)
  BY NoPositionFields, CutLeft
<1>2. P \in 1..10
  BY <1>1, NoPositionFields DEF Left
<1>3. k \in 1..P /\ k = FieldOf(3, P)
  <2> HIDE DEF P
  <2>1. P = 1 \/ P = 2 \/ P > 2
    BY <1>2
  <2> QED
    BY <1>2, <2>1 DEF FieldOf
<1>4. k = 1 \/ k = 3
  OBVIOUS
<1> DEFINE f == cut[k]
           g == NoPosition[k]
<1> HIDE DEF k, P, data
<1>5. f \in Text /\ TokenOf(data[3], f)
  BY <1>1, <1>3, NoPositionFields, CutTokens DEF P, data
<1>6. g \in Text /\ Len(f) \in 0..Len(g) /\ \A i \in 1..Len(f) : f[i] = g[i]
  <2>1. k \in 1..Len(cut)
    BY <1>3 DEF P
  <2>2. NoPosition \in Seq(Text)
    BY NoPositionFields
  <2>3. /\ cut[k] \in Text /\ NoPosition[k] \in Text
        /\ Len(cut[k]) \in 0..Len(NoPosition[k])
        /\ \A i \in 1..Len(cut[k]) : cut[k][i] = NoPosition[k][i]
    BY <1>1, <2>1, <2>2, CutField
  <2> QED
    BY <2>3
<1>7. g = <<"$GGA">> \/ g = <<>>
  BY <1>4, NoPositionFields
<1> HIDE DEF f, g
<1>8. f = <<>> \/ f[1] \notin Numbers
  <2>1. f \in Seq(Symbols)
    BY <1>5 DEF Text
  <2>2. CASE g = <<>>
    <3>1. Len(f) = 0
      BY <1>6, <2>2
    <3> QED
      BY <2>1, <3>1, EmptySeq
  <2>3. CASE g = <<"$GGA">>
    <3>1. f # <<>> => 1 \in 1..Len(f)
      BY <2>1
    <3>2. g[1] \notin Numbers
      BY <2>3 DEF Numbers
    <3> QED
      BY <1>6, <3>1, <3>2
  <2> QED
    BY <1>7, <2>2, <2>3
<1>9. ~IsCoordinate(data[3])
  BY <1>5, <1>8, Coordinate
<1>10. ~useful
  BY <1>9
<1>11. process_nmea_line(Join(cut)).outcome = IF useful THEN "useful" ELSE IF gga THEN "threw" ELSE "ignored"
  BY Zenon DEF process_nmea_line, data
<1> QED
  BY <1>10, <1>11

LEMMA Short ==
  ASSUME NEW S, NEW a \in S, NEW b \in S, NEW c \in S
  PROVE  <<a>> \in Seq(S) /\ <<a, b>> \in Seq(S) /\ <<a, b, c>> \in Seq(S)
OBVIOUS

LEMMA Ten ==
  ASSUME NEW S, NEW f1 \in S, NEW f2 \in S, NEW f3 \in S, NEW f4 \in S, NEW f5 \in S,
         NEW f6 \in S, NEW f7 \in S, NEW f8 \in S, NEW f9 \in S, NEW f10 \in S,
         NEW fields, fields = <<f1, f2, f3, f4, f5, f6, f7, f8, f9, f10>>
  PROVE  /\ fields \in Seq(S) /\ Len(fields) = 10
         /\ fields[1] = f1 /\ fields[2] = f2 /\ fields[3] = f3 /\ fields[4] = f4 /\ fields[5] = f5
         /\ fields[6] = f6 /\ fields[7] = f7 /\ fields[8] = f8 /\ fields[9] = f9 /\ fields[10] = f10
OBVIOUS

\* The fields of a position: where the numbers are, and how many symbols there
\* are where it matters.
LEMMA PositionFields ==
  ASSUME NEW fields \in Positions
  PROVE  /\ fields \in Seq(Text) /\ Len(fields) = 10
         /\ fields[3] = Latitude /\ fields[5] = Longitude
         /\ \A k \in 1..10 : fields[k] # <<>> /\ (fields[k][1] \in Numbers <=> k \notin {1, 4, 6})
         /\ \A k \in {2, 3, 5} : Len(fields[k]) > 1 /\ fields[k][2] \in Numbers
         /\ Len(fields[8]) = 1
         /\ fields[1][1] = "$GGA" /\ fields[3][1] = "lat_degrees" /\ fields[5][1] = "lng_degrees"
         /\ fields[2][1] # "lng_degrees"
<1>1. PICK time \in {"before_ten", "after_ten"}, ns \in {"N", "S"}, ew \in {"E", "W"},
           quality \in {"0", "1"} : fields = Position(time, ns, ew, quality)
  BY DEF Positions
<1> DEFINE f1 == <<"$GGA">>
           f2 == <<time, "seconds">>
           f3 == <<"lat_degrees", "lat_minutes", "decimals">>
           f4 == <<ns>>
           f5 == <<"lng_degrees", "lng_minutes", "decimals">>
           f6 == <<ew>>
           f7 == <<quality>>
           f8 == <<"satellites">>
           f9 == <<"HDOP">>
           f10 == <<"height">>
<1>2. fields = <<f1, f2, f3, f4, f5, f6, f7, f8, f9, f10>> /\ f3 = Latitude /\ f5 = Longitude
  BY <1>1 DEF Position, Time, Latitude, Longitude
<1>3. /\ "$GGA" \in Symbols /\ time \in Symbols /\ "seconds" \in Symbols /\ ns \in Symbols
      /\ "lat_degrees" \in Symbols /\ "lat_minutes" \in Symbols /\ "decimals" \in Symbols
      /\ "lng_degrees" \in Symbols /\ "lng_minutes" \in Symbols /\ ew \in Symbols
      /\ quality \in Symbols /\ "satellites" \in Symbols /\ "HDOP" \in Symbols
      /\ "height" \in Symbols
  BY DEF Symbols, Numbers
<1>4. /\ "$GGA" \notin Numbers /\ ns \notin Numbers /\ ew \notin Numbers
      /\ time \in Numbers /\ "lat_degrees" \in Numbers /\ "lng_degrees" \in Numbers
      /\ quality \in Numbers /\ "satellites" \in Numbers /\ "HDOP" \in Numbers
      /\ "height" \in Numbers
      /\ "seconds" \in Numbers /\ "lat_minutes" \in Numbers /\ "lng_minutes" \in Numbers
  BY DEF Numbers
<1>5. time # "lng_degrees"
  OBVIOUS
<1>6. /\ f1 \in Text /\ f2 \in Text /\ f3 \in Text /\ f4 \in Text /\ f5 \in Text /\ f6 \in Text
      /\ f7 \in Text /\ f8 \in Text /\ f9 \in Text /\ f10 \in Text
  BY <1>3, Short, Zenon DEF Text
<1>7. /\ f1 # <<>> /\ f2 # <<>> /\ f3 # <<>> /\ f4 # <<>> /\ f5 # <<>> /\ f6 # <<>> /\ f7 # <<>>
      /\ f8 # <<>> /\ f9 # <<>> /\ f10 # <<>>
      /\ f1[1] = "$GGA" /\ f2[1] = time /\ f3[1] = "lat_degrees" /\ f4[1] = ns
      /\ f5[1] = "lng_degrees" /\ f6[1] = ew /\ f7[1] = quality /\ f8[1] = "satellites"
      /\ f9[1] = "HDOP" /\ f10[1] = "height"
      /\ f2[2] = "seconds" /\ f3[2] = "lat_minutes" /\ f5[2] = "lng_minutes"
      /\ Len(f2) > 1 /\ Len(f3) > 1 /\ Len(f5) > 1 /\ Len(f8) = 1
  OBVIOUS
<1> HIDE DEF f1, f2, f3, f4, f5, f6, f7, f8, f9, f10
<1>8. /\ fields \in Seq(Text) /\ Len(fields) = 10
      /\ fields[1] = f1 /\ fields[2] = f2 /\ fields[3] = f3 /\ fields[4] = f4 /\ fields[5] = f5
      /\ fields[6] = f6 /\ fields[7] = f7 /\ fields[8] = f8 /\ fields[9] = f9 /\ fields[10] = f10
  BY <1>2, <1>6, Ten
<1>9. \A k \in 1..10 : \/ k = 1 \/ k = 2 \/ k = 3 \/ k = 4 \/ k = 5 \/ k = 6 \/ k = 7 \/ k = 8
                       \/ k = 9 \/ k = 10
  OBVIOUS
<1>10. ASSUME NEW k \in 1..10
       PROVE  fields[k] # <<>> /\ (fields[k][1] \in Numbers <=> k \notin {1, 4, 6})
  BY <1>4, <1>7, <1>8, <1>9
<1> QED
  BY <1>2, <1>4, <1>5, <1>7, <1>8, <1>10

\* One field of a position.
LEMMA PositionField ==
  ASSUME NEW fields \in Positions, NEW k \in 1..10
  PROVE  /\ fields[k] \in Text /\ fields[k] # <<>>
         /\ fields[k][1] \in Numbers <=> k \notin {1, 4, 6}
         /\ k \in {2, 3, 5} => Len(fields[k]) > 1 /\ fields[k][2] \in Numbers
         /\ k = 8 => Len(fields[k]) = 1
<1>1. fields \in Seq(Text) /\ Len(fields) = 10
  BY PositionFields, Zenon
<1>2. fields[k] # <<>> /\ (fields[k][1] \in Numbers <=> k \notin {1, 4, 6})
  BY PositionFields, Zenon
<1>3. \A m \in {2, 3, 5} : Len(fields[m]) > 1 /\ fields[m][2] \in Numbers
  BY PositionFields, Zenon
<1>4. k = 8 => Len(fields[k]) = 1
  BY PositionFields, Zenon
<1>5. fields[k] \in Text
  <2>1. k \in 1..Len(fields)
    BY <1>1
  <2> QED
    BY <1>1, <2>1, ElementOfSeq, Zenon
<1> QED
  BY <1>2, <1>3, <1>4, <1>5, Zenon

\* The token for a field of a position that is there as a whole.
LEMMA WholeToken ==
  ASSUME NEW fields \in Positions, NEW k \in 1..9, NEW token, TokenOf(token, fields[k])
  PROVE  /\ First(token) = fields[k][1]
         /\ IsNumber(token) <=> k \notin {1, 4, 6}
         /\ k \in {1, 4, 6} => ~IsCoordinate(token)
         /\ k \in {2, 3, 5} => IsCoordinate(token)
         /\ IsPrefix(fields[k], token)
<1> DEFINE f == fields[k]
<1>1. /\ f \in Text
      /\ f # <<>> /\ (f[1] \in Numbers <=> k \notin {1, 4, 6})
      /\ k \in {2, 3, 5} => Len(f) > 1 /\ f[2] \in Numbers
  <2>1. k \in 1..10
    OBVIOUS
  <2> QED
    BY <2>1, PositionField, Zenon
<1> HIDE DEF f
<1>2. TokenOf(token, f)
  BY DEF f
<1>3. First(token) = f[1] /\ (IsNumber(token) <=> k \notin {1, 4, 6})
  BY <1>1, <1>2, FirstToken
<1>4. k \in {1, 4, 6} => ~IsCoordinate(token)
  BY <1>1, <1>2, Coordinate
<1>5. k \in {2, 3, 5} => IsCoordinate(token)
  BY <1>1, <1>2, Coordinate
<1>6. IsPrefix(f, token)
  <2>1. f \in Seq(Symbols) /\ token \in Seq(Chars)
    BY <1>1, <1>2 DEF Text, TokenOf
  <2>2. Len(f) <= Len(token) /\ \A i \in 1..Len(f) : token[i] = f[i]
    BY <1>2 DEF TokenOf
  <2> QED
    BY <2>1, <2>2, Prefix
<1> QED
  BY <1>3, <1>4, <1>5, <1>6 DEF f

\* The token for the last field that is left of a position.
LEMMA LastToken ==
  ASSUME NEW fields \in Positions, NEW k \in 1..10, NEW token \in Text,
         Len(token) \in 0..Len(fields[k]), \A i \in 1..Len(token) : token[i] = fields[k][i]
  PROVE  /\ k = 1 => ~IsCoordinate(token)
         /\ k \in {3, 5} => (IsCoordinate(token) <=> Len(token) > 1)
         /\ k = 8 => (IsNumber(token) <=> token = fields[k])
         /\ IsPrefix(fields[k], token) <=> token = fields[k]
         /\ token # <<>> => First(token) = fields[k][1]
<1> DEFINE f == fields[k]
<1>1. /\ f \in Text
      /\ k = 1 => f[1] \notin Numbers
      /\ k \in {3, 5} => Len(f) > 1 /\ f[1] \in Numbers /\ f[2] \in Numbers
      /\ k = 8 => Len(f) = 1 /\ f # <<>> /\ f[1] \in Numbers
  <2>1. /\ f \in Text /\ f # <<>>
        /\ f[1] \in Numbers <=> k \notin {1, 4, 6}
        /\ k \in {2, 3, 5} => Len(f) > 1 /\ f[2] \in Numbers
        /\ k = 8 => Len(f) = 1
    BY PositionField, Zenon
  <2> HIDE DEF f
  <2> QED
    BY <2>1
<1>2. Len(token) \in 0..Len(f) /\ \A i \in 1..Len(token) : token[i] = f[i]
  OBVIOUS
<1> HIDE DEF f
<1>3. token \in Seq(Symbols) /\ f \in Seq(Symbols) /\ Len(token) \in Nat /\ Len(f) \in Nat
  BY <1>1 DEF Text
<1>4. token # <<>> => token[1] = f[1] /\ First(token) = f[1]
  <2>1. token # <<>> => 1 \in 1..Len(token)
    BY <1>3
  <2> QED
    BY <1>2, <2>1, Zenon DEF First
<1>5. token \in Seq(Chars) /\ TokenOf(token, token)
  <2>1. Symbols \subseteq Chars
    BY DEF Chars
  <2>2. token \in Seq(Chars)
    BY <1>3, <2>1, SeqMonotonic
  <2> QED
    BY <1>3, <2>2 DEF TokenOf
<1>6. IsPrefix(f, token) <=> token = f
  <2>1. IsPrefix(f, token) <=> Len(f) <= Len(token) /\ \A i \in 1..Len(f) : token[i] = f[i]
    BY <1>3, Prefix
  <2>2. ASSUME Len(f) <= Len(token) PROVE token = f
    <3>1. Len(f) = Len(token)
      BY <1>2, <1>3, <2>2
    <3> QED
      BY <1>2, <1>3, <3>1, SeqEqual
  <2> QED
    BY <1>3, <2>1, <2>2
<1>7. k = 1 => ~IsCoordinate(token)
  BY <1>1, <1>4, <1>5, Coordinate
<1>8. k \in {3, 5} => (IsCoordinate(token) <=> Len(token) > 1)
  <2> SUFFICES ASSUME k \in {3, 5} PROVE IsCoordinate(token) <=> Len(token) > 1
    OBVIOUS
  <2>1. CASE Len(token) = 0
    <3>1. token = <<>>
      BY <1>3, <2>1, EmptySeq
    <3> QED
      BY <2>1, <3>1, <1>5, Coordinate
  <2>2. CASE Len(token) = 1
    BY <2>2, <1>5, Coordinate
  <2>3. CASE Len(token) > 1
    <3>1. token # <<>> /\ token[2] = f[2]
      BY <1>2, <1>3, <2>3
    <3> QED
      BY <1>1, <1>4, <1>5, <2>3, <3>1, Coordinate
  <2>4. Len(token) = 0 \/ Len(token) = 1 \/ Len(token) > 1
    <3> DEFINE l == Len(token)
    <3>1. l \in Nat
      BY <1>3
    <3> HIDE DEF l
    <3>2. l = 0 \/ l = 1 \/ l > 1
      BY <3>1
    <3> QED
      BY <3>2 DEF l
  <2> QED
    BY <2>1, <2>2, <2>3, <2>4, Zenon
<1>9. k = 8 => (IsNumber(token) <=> token = f)
  <2> SUFFICES ASSUME k = 8 PROVE IsNumber(token) <=> token = f
    OBVIOUS
  <2>1. CASE token = <<>>
    <3>1. ~IsNumber(token)
      BY <1>5, <2>1, FirstToken
    <3> QED
      BY <1>1, <2>1, <3>1
  <2>2. CASE token # <<>>
    <3>1. IsNumber(token)
      BY <1>1, <1>4, <2>2 DEF IsNumber
    <3>2. Len(token) = Len(f)
      BY <1>1, <1>2, <1>3, <2>2
    <3>3. token = f
      BY <1>2, <1>3, <3>2, SeqEqual
    <3> QED
      BY <3>1, <3>3
  <2> QED
    BY <2>1, <2>2
<1> QED
  BY <1>4, <1>6, <1>7, <1>8, <1>9 DEF f

\* A field before the last one is a field.
LEMMA Own == ASSUME NEW n \in 1..10, NEW k \in 1..9, k < n PROVE k \in 1..n
  OBVIOUS

\* The last field is a field.
LEMMA OwnLast == ASSUME NEW n \in 1..10 PROVE n \in 1..n
  OBVIOUS

\* What is made of a position that is cut.
LEMMA PositionCut ==
  ASSUME NEW fields \in Positions, Len(Join(fields)) <= npos, NEW cut \in Cuts(fields)
  PROVE  LET P == Len(cut)
             whole == cut[P] = fields[P]
             said == process_nmea_line(Join(fields))
             got == process_nmea_line(Join(cut))
         IN  /\ got.outcome = "useful" <=> \/ P \in {3, 5} /\ Len(cut[P]) > 1
                                           \/ P = 8 /\ whole
                                           \/ P = 6 \/ P > 8
             /\ got.outcome = "useful" =>
                  /\ IsPrefix(Latitude, got.lat) <=> (P > 3 \/ whole)
                  /\ IsPrefix(Longitude, got.lng) <=> (P > 5 \/ (P = 5 /\ whole))
                  /\ IF P = 3 THEN ~got.north ELSE got.north = said.north
                  /\ P \in {3, 5} => ~got.east
                  /\ P \in {3, 6} => got.fix
                  /\ P >= 8 => got.east = said.east /\ got.fix = said.fix
<1> DEFINE P == Len(cut)
           last == cut[P]
           whole == last = fields[P]
           D(i) == Tokens(Join(cut))[i]
           E(i) == Tokens(Join(fields))[i]
           said == process_nmea_line(Join(fields))
           got == process_nmea_line(Join(cut))
           useful == First(D(1)) = "$GGA" /\ IsCoordinate(D(3)) /\ IsCoordinate(D(5)) /\ IsNumber(D(8))
<1>1. /\ got.outcome = "useful" <=> useful
      /\ got.lat = D(3) /\ got.north = (First(D(4)) = "N")
      /\ got.lng = D(5) /\ got.east = (First(D(6)) = "E")
      /\ got.fix = (First(D(7)) \notin LeadingZero)
  BY DEF process_nmea_line
<1>2. /\ said.north = (First(E(4)) = "N") /\ said.east = (First(E(6)) = "E")
      /\ said.fix = (First(E(7)) \notin LeadingZero)
  BY DEF process_nmea_line
<1>3. /\ fields \in Seq(Text) /\ Len(fields) = 10
      /\ fields[3] = Latitude /\ fields[5] = Longitude
      /\ fields[1][1] = "$GGA" /\ fields[3][1] = "lat_degrees" /\ fields[5][1] = "lng_degrees"
      /\ fields[2][1] # "lng_degrees"
  BY PositionFields
<1>4. Left(cut, fields) /\ P \in 1..10
  <2>1. Left(cut, fields)
    BY <1>3, CutLeft
  <2> QED
    BY <1>3, <2>1 DEF Left
<1>5. Left(fields, fields)
  <2>1. fields # <<>> /\ 10 \in 1..Len(fields)
    <3>1. 10 \in 1..10 /\ Len(fields) = 10
      BY <1>3
    <3>2. fields = <<>> => Len(fields) = 0
      OBVIOUS
    <3> QED
      BY <3>1, <3>2
  <2>2. fields[10] \in Text
    BY <1>3, <2>1, ElementOfSeq, Zenon
  <2>3. Len(fields[10]) \in 0..Len(fields[10])
    BY <2>2 DEF Text
  <2> QED
    BY <1>3, <2>1, <2>3 DEF Left
<1>6. ASSUME NEW i \in 1..8, NEW k \in 1..9, k < P, k = FieldOf(i, P)
      PROVE  /\ First(D(i)) = fields[k][1]
             /\ IsNumber(D(i)) <=> k \notin {1, 4, 6}
             /\ k \in {1, 4, 6} => ~IsCoordinate(D(i))
             /\ k \in {2, 3, 5} => IsCoordinate(D(i))
             /\ IsPrefix(fields[k], D(i))
  <2>1. k \in 1..P
    BY <1>4, <1>6, Own, Zenon
  <2>2. TokenOf(D(i), fields[k])
    <3>1. TokenOf(D(i), cut[k]) /\ (k < Len(cut) => cut[k] = fields[k])
      BY <1>3, <1>4, <1>6, <2>1, CutTokens, Zenon
    <3> QED
      BY <1>6, <3>1, Zenon
  <2> QED
    BY <2>2, WholeToken, Zenon
<1>7. /\ last \in Text
      /\ P = 1 => ~IsCoordinate(last)
      /\ P \in {3, 5} => (IsCoordinate(last) <=> Len(last) > 1)
      /\ P = 8 => (IsNumber(last) <=> whole)
      /\ IsPrefix(fields[P], last) <=> whole
      /\ last # <<>> => First(last) = fields[P][1]
  <2>1. P \in 1..P
    BY <1>4, OwnLast, Zenon
  <2>2. /\ last \in Text /\ Len(last) \in 0..Len(fields[P])
        /\ \A i \in 1..Len(last) : last[i] = fields[P][i]
    <3>1. Len(last) \in 0..Len(fields[P]) /\ \A i \in 1..Len(last) : last[i] = fields[P][i]
      BY <1>4, Zenon DEF Left
    <3>2. cut \in Seq(Text)
      BY <1>4, Zenon DEF Left
    <3>3. last \in Text
      BY <2>1, <3>2, ElementOfSeq, Zenon
    <3> QED
      BY <3>1, <3>3, Zenon
  <2>3. P \in 1..10
    BY <1>4, Zenon
  <2> HIDE DEF P, last
  <2> QED
    BY <2>2, <2>3, LastToken
<1>8. ASSUME NEW i \in 1..8, P = FieldOf(i, P)
      PROVE  D(i) = last
  <2>1. P \in 1..P
    BY <1>4, OwnLast, Zenon
  <2> QED
    BY <1>3, <1>4, <1>8, <2>1, CutTokens, Zenon
<1>9. ASSUME NEW i \in 1..8 PROVE First(E(i)) = fields[i][1]
  <2>1. i = FieldOf(i, 10) /\ i \in 1..9 /\ i \in 1..10
    BY DEF FieldOf
  <2>2. i \in 1..Len(fields) /\ i = FieldOf(i, Len(fields))
    BY <1>3, <2>1
  <2>3. TokenOf(E(i), fields[i])
    BY <1>3, <1>5, <2>2, CutTokens, Zenon
  <2> QED
    BY <2>1, <2>3, WholeToken, Zenon
<1>10. IsPrefix(Longitude, D(5)) => First(D(5)) = "lng_degrees"
  <2>1. FieldOf(5, P) \in 1..P
    <3> HIDE DEF P
    <3>1. P \in Nat \ {0} /\ 5 \in 1..8
      BY <1>4
    <3> QED
      BY <3>1, Wrap, Zenon
  <2>2. D(5) \in Seq(Chars)
    <3>1. 5 \in 1..8
      OBVIOUS
    <3>2. TokenOf(D(5), cut[FieldOf(5, P)])
      BY <1>3, <1>4, <2>1, <3>1, CutTokens, Zenon
    <3> QED
      BY <3>2, Zenon DEF TokenOf
  <2> DEFINE token == D(5)
  <2> HIDE DEF token
  <2>3. SUFFICES ASSUME IsPrefix(Longitude, token) PROVE First(token) = "lng_degrees"
    BY DEF token
  <2>4. Longitude \in Seq(Symbols)
    <3>1. Longitude \in Text
      <4>1. 5 \in 1..Len(fields)
        BY <1>3
      <4>2. fields[5] \in Text
        BY <1>3, <4>1, ElementOfSeq, Zenon
      <4> QED
        BY <1>3, <4>2
    <3> QED
      BY <3>1 DEF Text
  <2>5. Len(Longitude) = 3 /\ Longitude[1] = "lng_degrees"
    BY DEF Longitude
  <2>6. token \in Seq(Chars) /\ Len(Longitude) <= Len(token) /\ token[1] = Longitude[1]
    <3>1. token \in Seq(Chars)
      BY <2>2 DEF token
    <3>2. 1 \in 1..Len(Longitude)
      BY <2>5
    <3> QED
      BY <2>3, <2>4, <3>1, <3>2, Prefix
  <2>7. token # <<>>
    BY <2>5, <2>6
  <2> QED
    BY <2>5, <2>6, <2>7 DEF First
<1> DEFINE Right ==
             /\ useful <=> \/ P \in {3, 5} /\ Len(last) > 1
                           \/ P = 8 /\ whole
                           \/ P = 6 \/ P > 8
             /\ useful =>
                  /\ IsPrefix(Latitude, D(3)) <=> (P > 3 \/ whole)
                  /\ IsPrefix(Longitude, D(5)) <=> (P > 5 \/ (P = 5 /\ whole))
                  /\ IF P = 3 THEN First(D(4)) # "N" ELSE First(D(4)) = First(E(4))
                  /\ P \in {3, 5} => First(D(6)) # "E"
                  /\ P \in {3, 6} => First(D(7)) \notin LeadingZero
                  /\ P >= 8 => First(D(6)) = First(E(6)) /\ First(D(7)) = First(E(7))
<1>11. Right
  <2> HIDE DEF P, last, whole, D, E
  <2>1. CASE P = 1
    <3>1. FieldOf(3, P) = P
      BY <2>1 DEF FieldOf
    <3>2. ~IsCoordinate(D(3))
      BY <1>7, <1>8, <2>1, <3>1
    <3> QED
      BY <2>1, <3>2
  <2>2. CASE P = 2
    <3>1. FieldOf(3, P) = 1
      BY <2>2 DEF FieldOf
    <3>2. ~IsCoordinate(D(3))
      BY <1>6, <2>2, <3>1
    <3> QED
      BY <2>2, <3>2
  <2>3. CASE P = 3
    <3>1. /\ FieldOf(1, P) = 1 /\ FieldOf(3, P) = P /\ FieldOf(4, P) = 1 /\ FieldOf(5, P) = 2
          /\ FieldOf(6, P) = P /\ FieldOf(7, P) = 1 /\ FieldOf(8, P) = 2
      BY <2>3 DEF FieldOf
    <3>2. First(D(1)) = "$GGA" /\ First(D(4)) = "$GGA" /\ First(D(7)) = "$GGA"
      BY <1>3, <1>6, <2>3, <3>1
    <3>3. /\ D(3) = last /\ D(6) = last
          /\ IsCoordinate(last) <=> Len(last) > 1
          /\ IsPrefix(Latitude, last) <=> whole
      BY <1>3, <1>7, <1>8, <2>3, <3>1
    <3>4. IsCoordinate(D(5)) /\ IsNumber(D(8)) /\ First(D(5)) = fields[2][1]
      BY <1>6, <2>3, <3>1
    <3>5. ~IsPrefix(Longitude, D(5))
      BY <1>3, <1>10, <3>4
    <3>6. Len(last) > 1 => First(last) = "lat_degrees"
      <4>1. Len(last) > 1 => last # <<>>
        OBVIOUS
      <4> QED
        BY <1>3, <1>7, <2>3, <4>1
    <3>7. "$GGA" \notin LeadingZero
      BY DEF LeadingZero
    <3> QED
      BY <2>3, <3>2, <3>3, <3>4, <3>5, <3>6, <3>7
  <2>4. CASE P = 4
    <3>1. FieldOf(5, P) = 1
      BY <2>4 DEF FieldOf
    <3>2. ~IsCoordinate(D(5))
      BY <1>6, <2>4, <3>1
    <3> QED
      BY <2>4, <3>2
  <2>5. CASE P = 5
    <3>1. /\ FieldOf(1, P) = 1 /\ FieldOf(3, P) = 3 /\ FieldOf(4, P) = 4 /\ FieldOf(5, P) = P
          /\ FieldOf(6, P) = 1 /\ FieldOf(8, P) = 3
      BY <2>5 DEF FieldOf
    <3>2. First(D(1)) = "$GGA" /\ First(D(4)) = fields[4][1] /\ First(D(6)) = "$GGA"
      BY <1>3, <1>6, <2>5, <3>1
    <3>3. /\ D(5) = last
          /\ IsCoordinate(last) <=> Len(last) > 1
          /\ IsPrefix(Longitude, last) <=> whole
      BY <1>3, <1>7, <1>8, <2>5, <3>1
    <3>4. IsCoordinate(D(3)) /\ IsNumber(D(8)) /\ IsPrefix(Latitude, D(3))
      BY <1>3, <1>6, <2>5, <3>1
    <3>5. First(E(4)) = fields[4][1]
      BY <1>9
    <3> QED
      BY <2>5, <3>2, <3>3, <3>4, <3>5
  <2>6. CASE P = 6
    <3>1. /\ FieldOf(1, P) = 1 /\ FieldOf(3, P) = 3 /\ FieldOf(4, P) = 4 /\ FieldOf(5, P) = 5
          /\ FieldOf(7, P) = 1 /\ FieldOf(8, P) = 2
      BY <2>6 DEF FieldOf
    <3>2. First(D(1)) = "$GGA" /\ First(D(4)) = fields[4][1] /\ First(D(7)) = "$GGA"
      BY <1>3, <1>6, <2>6, <3>1
    <3>3. /\ IsCoordinate(D(3)) /\ IsCoordinate(D(5)) /\ IsNumber(D(8))
          /\ IsPrefix(Latitude, D(3)) /\ IsPrefix(Longitude, D(5))
      BY <1>3, <1>6, <2>6, <3>1
    <3>4. First(E(4)) = fields[4][1] /\ "$GGA" \notin LeadingZero
      BY <1>9 DEF LeadingZero
    <3> QED
      BY <2>6, <3>2, <3>3, <3>4
  <2>7. CASE P = 7
    <3>1. FieldOf(8, P) = 1
      BY <2>7 DEF FieldOf
    <3>2. ~IsNumber(D(8))
      BY <1>6, <2>7, <3>1
    <3> QED
      BY <2>7, <3>2
  <2>8. CASE P \in {8, 9, 10}
    <3>1. /\ FieldOf(1, P) = 1 /\ FieldOf(3, P) = 3 /\ FieldOf(4, P) = 4 /\ FieldOf(5, P) = 5
          /\ FieldOf(6, P) = 6 /\ FieldOf(7, P) = 7 /\ FieldOf(8, P) = 8
      BY <2>8 DEF FieldOf
    <3>2. /\ First(D(1)) = "$GGA" /\ First(D(4)) = fields[4][1] /\ First(D(6)) = fields[6][1]
          /\ First(D(7)) = fields[7][1]
      BY <1>3, <1>6, <2>8, <3>1
    <3>3. /\ IsCoordinate(D(3)) /\ IsCoordinate(D(5))
          /\ IsPrefix(Latitude, D(3)) /\ IsPrefix(Longitude, D(5))
      BY <1>3, <1>6, <2>8, <3>1
    <3>4. IsNumber(D(8)) <=> P > 8 \/ whole
      <4>1. CASE P = 8
        BY <1>7, <1>8, <3>1, <4>1
      <4>2. CASE P \in {9, 10}
        BY <1>6, <3>1, <4>2
      <4> QED
        BY <2>8, <4>1, <4>2
    <3>5. First(E(4)) = fields[4][1] /\ First(E(6)) = fields[6][1] /\ First(E(7)) = fields[7][1]
      BY <1>9
    <3> QED
      BY <2>8, <3>2, <3>3, <3>4, <3>5
  <2> QED
    BY <1>4, <2>1, <2>2, <2>3, <2>4, <2>5, <2>6, <2>7, <2>8
<1> HIDE DEF P, D, E, last, whole, said, got, useful
<1>12. /\ got.outcome = "useful" <=> \/ P \in {3, 5} /\ Len(last) > 1
                                     \/ P = 8 /\ whole
                                     \/ P = 6 \/ P > 8
       /\ got.outcome = "useful" =>
            /\ IsPrefix(Latitude, got.lat) <=> (P > 3 \/ whole)
            /\ IsPrefix(Longitude, got.lng) <=> (P > 5 \/ (P = 5 /\ whole))
            /\ IF P = 3 THEN ~got.north ELSE got.north = said.north
            /\ P \in {3, 5} => ~got.east
            /\ P \in {3, 6} => got.fix
            /\ P >= 8 => got.east = said.east /\ got.fix = said.fix
  BY <1>1, <1>2, <1>11
<1> QED
  BY <1>12 DEF P, last, whole, said, got
====
