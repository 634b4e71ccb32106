--------------------------- MODULE TokenSourceProofs ---------------------------
(***************************************************************************)
(* Proofs about TokenSource, for every language with well-formed tables    *)
(* and every text: tokens are where their bytes are, and go on.  Then      *)
(* those about the Python grammar's scanner in it: it uses its lexer, and  *)
(* the blocks and strings that are open are those of the tokens it made.   *)
(***************************************************************************)
EXTENDS TokenSource, PythonScanner, NumberLemmas, SequenceTheorems

\* Texts of bytes.
Bytes == Seq(STRING)

\* The places between the runes of a text.
Right(t) == {a \in Place : a.pos <= Len(t) /\ ~ SplitsRune(t, a.pos) /\ a = PlaceIn(t, a.pos)}

LEMMA DecodedIs ==
    ASSUME NEW t \in Bytes, NEW p \in Nat, p < Len(t)
    PROVE  \/ /\ p + 2 <= Len(t) /\ t[p + 1] = "E1" /\ t[p + 2] = "E2"
              /\ DecodeRune(t, p) = [rune |-> "E", size |-> 2]
           \/ /\ ~ (p + 1 < Len(t) /\ t[p + 1] = "E1" /\ t[p + 2] = "E2")
              /\ DecodeRune(t, p).size = 1
              /\ (DecodeRune(t, p).rune = "\n" <=> t[p + 1] = "\n")
<1>1. Len(t) \in Nat
  BY DEF Bytes
<1>2. CASE t[p + 1] = "E1" /\ p + 1 < Len(t) /\ t[p + 2] = "E2"
  <2>1. DecodeRune(t, p) = [rune |-> "E", size |-> 2]
    BY <1>2 DEF DecodeRune
  <2>2. p + 2 <= Len(t)
    BY <1>1, <1>2
  <2> QED BY <1>2, <2>1, <2>2
<1>3. CASE ~ (t[p + 1] = "E1" /\ p + 1 < Len(t) /\ t[p + 2] = "E2")
  <2> DEFINE x == t[p + 1]
             rune == IF x \in {"E1", "E2"} THEN "?" ELSE x
  <2>1. rune = "\n" <=> x = "\n"
    OBVIOUS
  <2>2. DecodeRune(t, p) = [rune |-> rune, size |-> 1]
    BY <1>3 DEF DecodeRune
  <2> HIDE DEF rune
  <2>3. DecodeRune(t, p).rune = rune /\ DecodeRune(t, p).size = 1
    BY <2>2
  <2> QED BY <1>3, <2>1, <2>3
<1> QED BY <1>2, <1>3

\* Behind a rune is a place, further on but not behind the end.
LEMMA OneRuneIs ==
    ASSUME NEW t \in Bytes, NEW a \in Place, a.pos < Len(t)
    PROVE  LET b == OneRune(t, a)
           IN  b \in Place /\ a.pos < b.pos /\ b.pos <= Len(t) /\ b.pos <= a.pos + 2
<1>0. Len(t) \in Nat
  BY DEF Bytes
<1> DEFINE r == DecodeRune(t, a.pos)
<1>1. r.size \in {1, 2} /\ a.pos + r.size <= Len(t)
  BY <1>0, DecodedIs DEF Place
<1>2. OneRune(t, a) = Behind(a, r)
  BY DEF OneRune
<1> HIDE DEF r
<1> QED BY <1>0, <1>1, <1>2 DEF Behind, Place

\* The lines and the halves of runes that PlaceIn counts.
LineEnds(t, p)     == {q \in 1 .. p : t[q] = "\n"}
LineOf(t, p)       == IF LineEnds(t, p) = {} THEN 0
                      ELSE CHOOSE q \in LineEnds(t, p) : \A r \in LineEnds(t, p) : r <= q
Halves(t, line, p) == {q \in line + 2 .. p : t[q - 1] = "E1" /\ t[q] = "E2"}

LEMMA PlaceInIs ==
    ASSUME NEW t, NEW p
    PROVE  PlaceIn(t, p) = [pos |-> p, row |-> Cardinality(LineEnds(t, p)),
                            col |-> p - LineOf(t, p) - Cardinality(Halves(t, LineOf(t, p), p))]
BY DEF PlaceIn, LineEnds, LineOf, Halves

LEMMA LineIs ==
    ASSUME NEW t, NEW p \in Nat
    PROVE  /\ LineOf(t, p) \in 0 .. p
           /\ LineEnds(t, p) # {} => /\ LineOf(t, p) \in LineEnds(t, p)
                                     /\ \A r \in LineEnds(t, p) : r <= LineOf(t, p)
           /\ IsFiniteSet(LineEnds(t, p)) /\ Cardinality(LineEnds(t, p)) \in Nat
<1>1. LineEnds(t, p) \subseteq 0 .. p /\ LineEnds(t, p) \subseteq 1 .. p
  BY DEF LineEnds
<1>2. LineEnds(t, p) # {} => \E q \in LineEnds(t, p) : \A r \in LineEnds(t, p) : r <= q
  BY <1>1, GreatestElement
<1>3. IsFiniteSet(LineEnds(t, p)) /\ Cardinality(LineEnds(t, p)) \in Nat
  <2>1. IsFiniteSet(1 .. p)
    BY FS_Interval
  <2>2. IsFiniteSet(LineEnds(t, p))
    BY <1>1, <2>1, FS_Subset
  <2> QED BY <2>2, FS_CardinalityType
<1>4. CASE LineEnds(t, p) = {}
  BY <1>3, <1>4 DEF LineOf
<1>5. CASE LineEnds(t, p) # {}
  <2>1. LineOf(t, p) = CHOOSE q \in LineEnds(t, p) : \A r \in LineEnds(t, p) : r <= q
    BY <1>5 DEF LineOf
  <2>2. LineOf(t, p) \in LineEnds(t, p) /\ \A r \in LineEnds(t, p) : r <= LineOf(t, p)
    BY <1>2, <1>5, <2>1
  <2> QED BY <1>1, <1>3, <2>2
<1> QED BY <1>4, <1>5

\* The greatest line end is the line.
LEMMA LineIsGreatest ==
    ASSUME NEW t, NEW p \in Nat, NEW q \in LineEnds(t, p), \A r \in LineEnds(t, p) : r <= q
    PROVE  LineOf(t, p) = q
<1>1. LineOf(t, p) \in LineEnds(t, p) /\ q <= LineOf(t, p) /\ LineOf(t, p) <= q
  BY LineIs
<1>2. LineOf(t, p) \in Int /\ q \in Int
  BY <1>1 DEF LineEnds
<1> QED BY <1>1, <1>2

LEMMA SameLine ==
    ASSUME NEW t, NEW p \in Nat, NEW k \in Nat, LineEnds(t, k) = LineEnds(t, p)
    PROVE  LineOf(t, k) = LineOf(t, p)
BY DEF LineOf

LEMMA HalvesAreFinite ==
    ASSUME NEW t, NEW line \in Nat, NEW p \in Nat
    PROVE  IsFiniteSet(Halves(t, line, p)) /\ Cardinality(Halves(t, line, p)) \in Nat
<1>1. Halves(t, line, p) \subseteq line + 2 .. p
  BY DEF Halves
<1>2. IsFiniteSet(line + 2 .. p)
  BY FS_Interval
<1>3. IsFiniteSet(Halves(t, line, p))
  BY <1>1, <1>2, FS_Subset
<1> QED BY <1>3, FS_CardinalityType

LEMMA NothingRead ==
    ASSUME NEW t \in Bytes
    PROVE  Origin \in Right(t)
<1>1. LineEnds(t, 0) = {} /\ Halves(t, 0, 0) = {} /\ LineOf(t, 0) = 0
  BY DEF LineEnds, Halves, LineOf
<1>2. PlaceIn(t, 0) = Origin
  <2>1. PlaceIn(t, 0) = [pos |-> 0, row |-> Cardinality(LineEnds(t, 0)),
                         col |-> 0 - LineOf(t, 0) - Cardinality(Halves(t, LineOf(t, 0), 0))]
    BY PlaceInIs
  <2>2. Cardinality(LineEnds(t, 0)) = 0 /\ Cardinality(Halves(t, LineOf(t, 0), 0)) = 0
    BY <1>1, FS_EmptySet
  <2> QED BY <1>1, <2>1, <2>2 DEF Origin
<1> QED BY <1>2 DEF Right, Place, Origin, SplitsRune, Bytes

\* The lexer's rows and columns are those of the bytes.
LEMMA RuneIsRight ==
    ASSUME NEW t \in Bytes, NEW a \in Right(t), a.pos < Len(t)
    PROVE  OneRune(t, a) \in Right(t)
<1> DEFINE p == a.pos
           line == LineOf(t, p)
           rows == Cardinality(LineEnds(t, p))
           halves == Cardinality(Halves(t, line, p))
<1>0. p \in Nat /\ p < Len(t) /\ Len(t) \in Nat /\ a \in Place
  BY DEF Right, Place, Bytes
<1>1. a = [pos |-> p, row |-> rows, col |-> p - line - halves]
  BY PlaceInIs DEF Right
<1>2. /\ line \in 0 .. p /\ rows \in Nat /\ halves \in Nat
      /\ IsFiniteSet(LineEnds(t, p)) /\ IsFiniteSet(Halves(t, line, p))
  BY <1>0, LineIs, HalvesAreFinite
<1>3. OneRune(t, a) \in Place /\ OneRune(t, a).pos <= Len(t)
  BY <1>0, OneRuneIs
<1>4. CASE /\ p + 2 <= Len(t) /\ t[p + 1] = "E1" /\ t[p + 2] = "E2"
           /\ DecodeRune(t, p) = [rune |-> "E", size |-> 2]
  <2> DEFINE k == p + 2
  <2>1. OneRune(t, a) = [pos |-> k, row |-> a.row, col |-> a.col + 1]
    BY <1>4 DEF OneRune, Behind
  <2>2. k \in Nat /\ k = p + 2 /\ t[k] = "E2" /\ t[k - 1] = "E1" /\ t[p + 1] = "E1" /\ k <= Len(t)
    BY <1>0, <1>4
  <2> HIDE DEF k, p, rows, halves, line
  <2>3. LineEnds(t, k) = LineEnds(t, p)
    <3>1. \A q \in 1 .. k : q \in 1 .. p \/ q = p + 1 \/ q = k
      BY <1>0, <2>2
    <3> QED BY <1>0, <2>2, <3>1 DEF LineEnds
  <2>4. Halves(t, line, k) = Halves(t, line, p) \cup {k}
    <3>1. \A q \in line + 2 .. k : q \in line + 2 .. p \/ q = p + 1 \/ q = k
      BY <1>0, <1>2, <2>2
    <3>2. k \in line + 2 .. k
      BY <1>0, <1>2, <2>2
    <3>3. k \in Halves(t, line, k) /\ p + 1 \notin Halves(t, line, k)
      BY <2>2, <3>2 DEF Halves
    <3>4. Halves(t, line, p) \subseteq Halves(t, line, k)
      BY <1>0, <1>2, <2>2 DEF Halves
    <3>5. ASSUME NEW q \in Halves(t, line, k) PROVE q \in Halves(t, line, p) \cup {k}
      BY <3>1, <3>3 DEF Halves
    <3> QED BY <3>3, <3>4, <3>5
  <2>5. k \notin Halves(t, line, p)
    BY <1>0, <1>2, <2>2 DEF Halves
  <2>6. Cardinality(Halves(t, line, k)) = halves + 1
    BY <1>2, <2>4, <2>5, FS_AddElement DEF halves
  <2>7. LineOf(t, k) = line
    BY <1>0, <2>2, <2>3, SameLine DEF line
  <2>8. PlaceIn(t, k) = [pos |-> k, row |-> rows, col |-> k - line - (halves + 1)]
    <3>1. rows = Cardinality(LineEnds(t, k))
      BY <2>3 DEF rows
    <3> QED BY <2>6, <2>7, <3>1, PlaceInIs
  <2>9. a.row = rows /\ a.col + 1 = k - line - (halves + 1)
    BY <1>0, <1>1, <1>2, <2>2
  <2>10. ~ SplitsRune(t, k)
    BY <2>2 DEF SplitsRune
  <2> QED BY <1>3, <2>1, <2>2, <2>8, <2>9, <2>10 DEF Right
<1>5. CASE /\ ~ (p + 1 < Len(t) /\ t[p + 1] = "E1" /\ t[p + 2] = "E2")
           /\ DecodeRune(t, p).size = 1
           /\ (DecodeRune(t, p).rune = "\n" <=> t[p + 1] = "\n")
  <2> DEFINE k == p + 1
  <2>0. k \in Nat /\ k = p + 1 /\ k <= Len(t) /\ k - 1 = p
    BY <1>0
  <2>1. ~ SplitsRune(t, k)
    BY <1>0, <1>5 DEF SplitsRune
  <2>2. \A q \in 1 .. k : q \in 1 .. p \/ q = k
    BY <1>0
  <2>3. CASE t[k] = "\n"
    <3>1. OneRune(t, a) = [pos |-> k, row |-> a.row + 1, col |-> 0]
      BY <1>5, <2>3 DEF OneRune, Behind
    <3> HIDE DEF k, p, rows, halves, line
    <3>2. LineEnds(t, k) = LineEnds(t, p) \cup {k} /\ k \notin LineEnds(t, p)
      BY <1>0, <2>0, <2>2, <2>3 DEF LineEnds
    <3>3. Cardinality(LineEnds(t, k)) = rows + 1
      BY <1>2, <3>2, FS_AddElement DEF rows
    <3>4. LineOf(t, k) = k
      <4>1. \A r \in LineEnds(t, k) : r <= k
        BY <2>0 DEF LineEnds
      <4> QED BY <2>0, <3>2, <4>1, LineIsGreatest
    <3>5. Cardinality(Halves(t, k, k)) = 0
      <4>1. Halves(t, k, k) = {}
        BY <2>0 DEF Halves
      <4> QED BY <4>1, FS_EmptySet
    <3>6. PlaceIn(t, k) = [pos |-> k, row |-> rows + 1, col |-> 0]
      <4>1. PlaceIn(t, k) = [pos |-> k, row |-> rows + 1, col |-> k - k - 0]
        BY <3>3, <3>4, <3>5, PlaceInIs
      <4> QED BY <2>0, <4>1
    <3>7. a.row = rows
      BY <1>1
    <3> QED BY <1>3, <2>0, <2>1, <3>1, <3>6, <3>7 DEF Right
  <2>4. CASE t[k] # "\n"
    <3>1. OneRune(t, a) = [pos |-> k, row |-> a.row, col |-> a.col + 1]
      BY <1>5, <2>4 DEF OneRune, Behind
    <3>2. ~ SplitsRune(t, p)
      BY DEF Right
    <3> HIDE DEF k, p, rows, halves, line
    <3>3. LineEnds(t, k) = LineEnds(t, p)
      BY <1>0, <2>0, <2>2, <2>4 DEF LineEnds
    <3>4. Halves(t, line, k) = Halves(t, line, p)
      <4>1. \A q \in line + 2 .. k : q \in line + 2 .. p \/ q = k
        BY <1>0, <1>2, <2>0
      <4>2. k \notin Halves(t, line, k)
        <5> SUFFICES ASSUME k \in Halves(t, line, k) PROVE FALSE
          OBVIOUS
        <5>1. k \in line + 2 .. k /\ t[p] = "E1" /\ t[p + 1] = "E2"
          BY <2>0 DEF Halves
        <5>2. p \in 1 .. Len(t) - 1
          BY <1>0, <1>2, <2>0, <5>1
        <5> QED BY <3>2, <5>1, <5>2 DEF SplitsRune
      <4>3. Halves(t, line, p) \subseteq Halves(t, line, k)
        BY <1>0, <1>2, <2>0 DEF Halves
      <4>4. ASSUME NEW q \in Halves(t, line, k) PROVE q \in Halves(t, line, p)
        BY <4>1, <4>2 DEF Halves
      <4> QED BY <4>3, <4>4
    <3>5. LineOf(t, k) = line
      BY <1>0, <2>0, <3>3, SameLine DEF line
    <3>6. PlaceIn(t, k) = [pos |-> k, row |-> rows, col |-> k - line - halves]
      <4>1. rows = Cardinality(LineEnds(t, k)) /\ halves = Cardinality(Halves(t, line, k))
        BY <3>3, <3>4 DEF rows, halves
      <4> QED BY <3>5, <4>1, PlaceInIs
    <3>7. a.row = rows /\ a.col + 1 = k - line - halves
      BY <1>0, <1>1, <1>2, <2>0
    <3> QED BY <1>3, <2>0, <2>1, <3>1, <3>6, <3>7 DEF Right
  <2> QED BY <2>3, <2>4
<1> QED BY <1>0, <1>4, <1>5, DecodedIs

-----------------------------------------------------------------------------
(* The lexer.  What is said of places holds of any set of them that runes  *)
(* do not lead out of: of all, and of those between the runes of the text. *)

OnRunes(t, places) ==
    places \subseteq Place /\ \A b \in places : b.pos < Len(t) => OneRune(t, b) \in places

\* The tokens that may be read from a place on.
Reads(places, a) ==
    {x \in [symbol : STRING, from : places, to : places] :
        a.pos <= x.from.pos /\ x.from.pos <= x.to.pos}

LEMMA PlacesOnRunes ==
    ASSUME NEW t \in Bytes
    PROVE  OnRunes(t, Place) /\ OnRunes(t, Right(t))
<1>1. \A b \in Place : b.pos < Len(t) => OneRune(t, b) \in Place
  BY OneRuneIs
<1>2. \A b \in Right(t) : b.pos < Len(t) => OneRune(t, b) \in Right(t)
  BY RuneIsRight
<1>3. Right(t) \subseteq Place
  BY DEF Right
<1> QED BY <1>1, <1>2, <1>3 DEF OnRunes

\* The bytes left behind a place: fewer behind a rune.
Left(t, a) == IF a.pos < Len(t) THEN Len(t) - a.pos ELSE 0

LEMMA LeftIs ==
    ASSUME NEW t \in Bytes, NEW a \in Place
    PROVE  /\ Left(t, a) \in Nat
           /\ \A b \in Place : a.pos < Len(t) /\ a.pos < b.pos => Left(t, b) < Left(t, a)
BY DEF Left, Place, Bytes

LEMMA StepIs ==
    ASSUME NEW states, IsTable(states), NEW i \in DOMAIN states, NEW rune
    PROVE  /\ Step(states[i], rune).next \in Int
           /\ Step(states[i], rune).skip \in BOOLEAN
<1> DEFINE st == states[i]
           fits == {k \in DOMAIN st.transitions : rune \in st.transitions[k].on}
<1>1. /\ st.default \in Int
      /\ DOMAIN st.transitions = 1 .. Len(st.transitions)
      /\ \A k \in DOMAIN st.transitions : /\ st.transitions[k].next \in Int
                                          /\ st.transitions[k].skip \in BOOLEAN
  BY DEF IsTable
<1>2. CASE fits = {}
  <2>1. Step(st, rune) = [next |-> st.default, skip |-> FALSE]
    BY <1>2 DEF Step
  <2> QED BY <1>1, <2>1
<1>3. CASE fits # {}
  <2> DEFINE k == CHOOSE k \in fits : \A j \in fits : k <= j
  <2>1. fits \subseteq Nat
    BY <1>1
  <2>2. k \in fits
    <3> HIDE DEF fits
    <3>1. \E x \in fits : \A y \in fits : x <= y
      BY <1>3, <2>1, LeastElement
    <3> QED BY <3>1
  <2>3. Step(st, rune) = [next |-> st.transitions[k].next, skip |-> st.transitions[k].skip]
    BY <1>3 DEF Step
  <2>4. k \in DOMAIN st.transitions
    BY <2>2
  <2> HIDE DEF k
  <2> QED BY <1>1, <2>3, <2>4
<1> QED BY <1>2, <1>3

\* A run that began at a place, with its token and itself on places of a set.
RunOK(places, a, c) ==
    /\ c \in Running /\ c.at \in places /\ c.begin \in places
    /\ a.pos <= c.begin.pos /\ c.begin.pos <= c.at.pos
    /\ c.accepted \subseteq Reads(places, a) /\ \A x, y \in c.accepted : x = y

\* What a run accepts, and what it may be when it ends.
Found(places, a) == {f \in SUBSET Reads(places, a) : \A x, y \in f : x = y}

LEMMA AcceptedIs ==
    ASSUME NEW states, IsTable(states), NEW places, places \subseteq Place, NEW a \in Place,
           NEW c, RunOK(places, a, c)
    PROVE  Accepted(states, c) \in Found(places, a)
<1>1. CASE c.state \notin DOMAIN states
  BY <1>1 DEF Accepted, RunOK, Found
<1>2. CASE c.state \in DOMAIN states
  <2> DEFINE st == states[c.state]
             symbol == IF st.skip THEN NoSymbol ELSE st.accept
             token == Token(symbol, c.begin, c.at)
  <2>1. symbol \in STRING
    BY <1>2, LiteralsAreStrings DEF IsTable
  <2>2. token \in Reads(places, a)
    <3> HIDE DEF symbol
    <3> QED BY <2>1 DEF Token, Reads, RunOK
  <2>3. Accepted(states, c) = {token} \/ Accepted(states, c) = c.accepted
    BY <1>2 DEF Accepted
  <2> HIDE DEF token
  <2> QED BY <2>2, <2>3 DEF Found, RunOK
<1> QED BY <1>1, <1>2

\* The type of a token of the text.
Spans == [symbol : STRING, from : Place, to : Place]

LEMMA RunningIs ==
    ASSUME NEW c
    PROVE  c \in Running <=>
             /\ c = [state |-> c.state, at |-> c.at, begin |-> c.begin,
                     accepted |-> c.accepted, eofHops |-> c.eofHops]
             /\ c.state \in Int /\ c.at \in Place /\ c.begin \in Place
             /\ c.accepted \in SUBSET Spans /\ c.eofHops \in Nat
BY DEF Running, Spans

LEMMA OnwardIsRunning ==
    ASSUME NEW states, IsTable(states), NEW t \in Bytes, NEW c \in Running,
           GoesOn(states, t, c)
    PROVE  LET d == Onward(states, t, c)
           IN  /\ d \in Running /\ Accepted(states, c) \in SUBSET Spans
               /\ AtEnd(t, c.at.pos) =>
                     d = [state |-> states[c.state].eof, at |-> c.at, begin |-> c.begin,
                          accepted |-> Accepted(states, c), eofHops |-> c.eofHops + 1]
               /\ ~ AtEnd(t, c.at.pos) =>
                     LET past == OneRune(t, c.at)
                     IN  \/ d = [state |-> -1, at |-> c.at, begin |-> c.begin,
                                 accepted |-> Accepted(states, c), eofHops |-> c.eofHops]
                         \/ \E n \in Int : \/ d = [state |-> n, at |-> past, begin |-> past,
                                                   accepted |-> {}, eofHops |-> 0]
                                          \/ d = [state |-> n, at |-> past, begin |-> c.begin,
                                                   accepted |-> Accepted(states, c), eofHops |-> 0]
<1> DEFINE acc == Accepted(states, c)  d == Onward(states, t, c)
           st == states[c.state]
<1>1. /\ c = [state |-> c.state, at |-> c.at, begin |-> c.begin,
              accepted |-> c.accepted, eofHops |-> c.eofHops]
      /\ c.at \in Place /\ c.begin \in Place /\ c.accepted \in SUBSET Spans /\ c.eofHops \in Nat
  BY RunningIs
<1>2. c.state \in DOMAIN states /\ Len(t) \in Nat
  BY DEF GoesOn, Bytes
<1>3. st.eof \in Int /\ st.accept \in STRING /\ st.skip \in BOOLEAN
  BY <1>2 DEF IsTable
<1>4. acc \in SUBSET Spans
  <2> DEFINE symbol == IF st.skip THEN NoSymbol ELSE st.accept
             token == Token(symbol, c.begin, c.at)
  <2>1. symbol \in STRING
    BY <1>3, LiteralsAreStrings
  <2>2. token \in Spans
    <3> HIDE DEF symbol
    <3> QED BY <1>1, <2>1 DEF Token, Spans
  <2>3. acc = {token} \/ acc = c.accepted
    BY <1>2 DEF Accepted
  <2> HIDE DEF token, acc
  <2> QED BY <1>1, <2>2, <2>3
<1>5. CASE AtEnd(t, c.at.pos)
  <2> DEFINE new == [state |-> st.eof, at |-> c.at, begin |-> c.begin,
                     accepted |-> acc, eofHops |-> c.eofHops + 1]
  <2>1. d = [c EXCEPT !.state = st.eof, !.accepted = acc, !.eofHops = c.eofHops + 1]
    BY <1>5 DEF Onward
  <2>2. d = new
    <3> DEFINE e == st.eof  h == c.eofHops + 1
    <3> HIDE DEF acc, d, e, h
    <3>1. d = [c EXCEPT !.state = e, !.accepted = acc, !.eofHops = h]
      BY <2>1 DEF e, h
    <3>2. d = [state |-> e, at |-> c.at, begin |-> c.begin, accepted |-> acc, eofHops |-> h]
      BY <3>1 DEF Running
    <3> QED BY <3>2 DEF e, h
  <2>3. new \in Running
    <3> HIDE DEF acc
    <3> QED BY <1>1, <1>3, <1>4 DEF Running, Spans
  <2> QED BY <1>4, <1>5, <2>2, <2>3
<1>6. CASE ~ AtEnd(t, c.at.pos)
  <2> DEFINE s == Step(st, DecodeRune(t, c.at.pos).rune)
             past == OneRune(t, c.at)
  <2>1. d = Moved(c, acc, s, past)
    BY <1>6 DEF Onward
  <2>2. s.next \in Int /\ s.skip \in BOOLEAN
    BY <1>2, StepIs
  <2>3. c.at.pos < Len(t)
    BY <1>1, <1>2, <1>6 DEF AtEnd, Place
  <2>4. past \in Place
    BY <1>1, <2>3, OneRuneIs
  <2>5. CASE s.next < 0
    <3> DEFINE new == [state |-> -1, at |-> c.at, begin |-> c.begin,
                       accepted |-> acc, eofHops |-> c.eofHops]
    <3>1. d = [c EXCEPT !.state = -1, !.accepted = acc]
      BY <2>1, <2>5 DEF Moved
    <3>2. d = new
      <4> HIDE DEF acc, d
      <4> QED BY <1>1, <3>1
    <3>3. new \in Running
      <4> HIDE DEF acc
      <4> QED BY <1>1, <1>4 DEF Running, Spans
    <3> QED BY <1>4, <1>6, <3>2, <3>3
  <2>6. CASE ~ s.next < 0
    <3> DEFINE begin == IF s.skip THEN past ELSE c.begin
               accepted == IF s.skip THEN {} ELSE acc
               new == [state |-> s.next, at |-> past, begin |-> begin,
                       accepted |-> accepted, eofHops |-> 0]
    <3>1. d = new
      <4>1. d = [state |-> s.next, at |-> past, eofHops |-> 0, begin |-> begin, accepted |-> accepted]
        BY <2>1, <2>6 DEF Moved
      <4> HIDE DEF begin, accepted, s, past, d
      <4> QED BY <4>1
    <3>2. begin \in Place /\ accepted \in SUBSET Spans
      BY <1>1, <1>4, <2>4
    <3>3. new \in Running
      <4> HIDE DEF begin, accepted, s, past
      <4> QED BY <2>2, <2>4, <3>2 DEF Running, Spans
    <3>4. \/ new = [state |-> s.next, at |-> past, begin |-> past, accepted |-> {}, eofHops |-> 0]
          \/ new = [state |-> s.next, at |-> past, begin |-> c.begin, accepted |-> acc, eofHops |-> 0]
      OBVIOUS
    <3> HIDE DEF new, acc, s, past
    <3>5. ~ AtEnd(t, c.at.pos) =>
             \/ d = [state |-> -1, at |-> c.at, begin |-> c.begin, accepted |-> acc, eofHops |-> c.eofHops]
             \/ \E n \in Int : \/ d = [state |-> n, at |-> past, begin |-> past, accepted |-> {}, eofHops |-> 0]
                              \/ d = [state |-> n, at |-> past, begin |-> c.begin, accepted |-> acc, eofHops |-> 0]
      BY <2>2, <3>1, <3>4
    <3> QED BY <1>4, <1>6, <3>1, <3>3, <3>5 DEF acc, past
  <2> QED BY <2>5, <2>6
<1> QED BY <1>5, <1>6

\* A run goes on to where it may be, or out of the states.
LEMMA OnwardIs ==
    ASSUME NEW states, IsTable(states), NEW t \in Bytes, NEW places, OnRunes(t, places),
           NEW a \in Place, NEW c, RunOK(places, a, c), GoesOn(states, t, c)
    PROVE  LET d == Onward(states, t, c)
           IN  /\ RunOK(places, a, d)
               /\ AtEnd(t, c.at.pos) => d.at = c.at /\ d.eofHops = c.eofHops + 1
               /\ ~ AtEnd(t, c.at.pos) => d.state = -1 \/ c.at.pos < d.at.pos
<1> DEFINE acc == Accepted(states, c)  d == Onward(states, t, c)  past == OneRune(t, c.at)
<1>1. acc \subseteq Reads(places, a) /\ \A x, y \in acc : x = y
  BY AcceptedIs DEF OnRunes, Found
<1>2. /\ c \in Running /\ c.at \in Place /\ c.begin \in Place /\ c.at \in places /\ c.begin \in places
      /\ a.pos <= c.begin.pos /\ c.begin.pos <= c.at.pos
  BY RunningIs DEF RunOK
<1>3. d \in Running
  BY <1>2, OnwardIsRunning
<1>4. CASE AtEnd(t, c.at.pos)
  <2>1. d = [state |-> states[c.state].eof, at |-> c.at, begin |-> c.begin,
             accepted |-> acc, eofHops |-> c.eofHops + 1]
    BY <1>2, <1>4, OnwardIsRunning
  <2> HIDE DEF acc, d
  <2>2. d.at = c.at /\ d.begin = c.begin /\ d.accepted = acc /\ d.eofHops = c.eofHops + 1
    BY <2>1
  <2>3. RunOK(places, a, d)
    BY <1>1, <1>2, <1>3, <2>2 DEF RunOK
  <2> QED BY <1>4, <2>2, <2>3 DEF d
<1>5. CASE ~ AtEnd(t, c.at.pos)
  <2>1. c.at.pos < Len(t)
    BY <1>2, <1>5 DEF AtEnd, Place, Bytes
  <2>2. past \in Place /\ past \in places /\ c.at.pos < past.pos
    BY <1>2, <2>1, OneRuneIs DEF OnRunes
  <2>3. \/ d = [state |-> -1, at |-> c.at, begin |-> c.begin, accepted |-> acc, eofHops |-> c.eofHops]
        \/ \E n \in Int : \/ d = [state |-> n, at |-> past, begin |-> past, accepted |-> {}, eofHops |-> 0]
                         \/ d = [state |-> n, at |-> past, begin |-> c.begin, accepted |-> acc, eofHops |-> 0]
    BY <1>2, <1>5, OnwardIsRunning
  <2> HIDE DEF acc, d, past
  <2>4. CASE d = [state |-> -1, at |-> c.at, begin |-> c.begin, accepted |-> acc, eofHops |-> c.eofHops]
    <3>1. d.at = c.at /\ d.begin = c.begin /\ d.accepted = acc /\ d.state = -1
      BY <2>4
    <3>2. RunOK(places, a, d)
      BY <1>1, <1>2, <1>3, <3>1 DEF RunOK
    <3> QED BY <1>5, <3>1, <3>2 DEF d
  <2>5. ASSUME NEW n \in Int,
               \/ d = [state |-> n, at |-> past, begin |-> past, accepted |-> {}, eofHops |-> 0]
               \/ d = [state |-> n, at |-> past, begin |-> c.begin, accepted |-> acc, eofHops |-> 0]
        PROVE  RunOK(places, a, d) /\ c.at.pos < d.at.pos
    <3>1. d.at = past /\ (\/ d.begin = past /\ d.accepted = {}
                          \/ d.begin = c.begin /\ d.accepted = acc)
      BY <2>5
    <3>2. d.begin \in places /\ a.pos <= d.begin.pos /\ d.begin.pos <= past.pos
      BY <1>2, <2>2, <3>1 DEF Place
    <3>3. d.accepted \subseteq Reads(places, a) /\ \A x, y \in d.accepted : x = y
      BY <1>1, <3>1
    <3> QED BY <1>3, <2>2, <3>1, <3>2, <3>3 DEF RunOK
  <2> QED BY <1>5, <2>3, <2>4, <2>5 DEF d
<1> QED BY <1>4, <1>5

\* The DFA stops: what it finds in a text is a token on its runes.
LEMMA ScanIs ==
    ASSUME NEW states, IsTable(states), NEW t \in Bytes, NEW places, OnRunes(t, places),
           NEW a \in places, NEW start \in Int
    PROVE  Scan(states, t, start, a) \in Found(places, a)
<1> DEFINE Run[c \in Running] == IF GoesOn(states, t, c) THEN Run[Onward(states, t, c)]
                                 ELSE Accepted(states, c)
           begun == [state |-> start, at |-> a, begin |-> a, accepted |-> {}, eofHops |-> 0]
           stop == {c \in Running : ~ GoesOn(states, t, c)}
           val == [c \in Running |-> Accepted(states, c)]
           next == [c \in Running |-> IF GoesOn(states, t, c) THEN Onward(states, t, c) ELSE c]
           hops == Cardinality(DOMAIN states)
           Hops(c) == IF c.eofHops <= hops THEN (hops + 1) - c.eofHops ELSE 0
           OK(c) == RunOK(places, a, c)
<1>1. Scan(states, t, start, a) = Run[begun]
  BY DEF Scan
<1>2. places \subseteq Place /\ a \in Place /\ a.pos \in Nat
  BY DEF OnRunes, Place
<1>3. next \in [Running -> Running]
  <2>1. ASSUME NEW c \in Running, GoesOn(states, t, c) PROVE Onward(states, t, c) \in Running
    BY <2>1, OnwardIsRunning
  <2> QED BY <2>1
<1>4. \A c \in Running : /\ c \in stop <=> ~ GoesOn(states, t, c)
                         /\ c \in stop => val[c] = Accepted(states, c)
                         /\ c \notin stop => next[c] = Onward(states, t, c)
  OBVIOUS
<1>5. Recursive(Running, stop, val, next, Run)
  <2>1. PICK f : Recursive(Running, stop, val, next, f)
    <3> HIDE DEF stop, val, next
    <3> QED BY <1>3, RecursionExists
  <2>2. f = [c \in Running |-> IF GoesOn(states, t, c) THEN f[Onward(states, t, c)]
                               ELSE Accepted(states, c)]
    <3>1. \A c \in Running : (IF c \in stop THEN val[c] ELSE f[next[c]])
                              = IF GoesOn(states, t, c) THEN f[Onward(states, t, c)]
                                ELSE Accepted(states, c)
      <4> HIDE DEF stop, val, next
      <4> QED BY <1>4
    <3> HIDE DEF stop, val, next
    <3> QED BY <2>1, <3>1 DEF Recursive
  <2>3. Run = [c \in Running |-> IF GoesOn(states, t, c) THEN Run[Onward(states, t, c)]
                                 ELSE Accepted(states, c)]
    BY <2>2, Zenon
  <2>4. \A c \in Running : (IF c \in stop THEN val[c] ELSE Run[next[c]])
                            = IF GoesOn(states, t, c) THEN Run[Onward(states, t, c)]
                              ELSE Accepted(states, c)
    <3> HIDE DEF stop, val, next, Run
    <3> QED BY <1>4
  <2> HIDE DEF stop, val, next, Run
  <2> QED BY <2>3, <2>4 DEF Recursive
<1>6. hops \in Nat /\ DOMAIN states \subseteq Nat
  BY FS_CardinalityType DEF IsTable
<1>7. ASSUME NEW c \in Running, OK(c), c \in stop PROVE val[c] \in Found(places, a)
  BY <1>2, <1>4, <1>7, AcceptedIs
<1>8. ASSUME NEW c \in Running, OK(c), c \notin stop
      PROVE  /\ next[c] \in Running /\ OK(next[c]) /\ c.state \in DOMAIN states
             /\ AtEnd(t, c.at.pos) =>
                   next[c].at = c.at /\ next[c].eofHops = c.eofHops + 1 /\ c.eofHops <= hops
             /\ ~ AtEnd(t, c.at.pos) => next[c].state = -1 \/ c.at.pos < next[c].at.pos
  <2>1. next[c] = Onward(states, t, c) /\ GoesOn(states, t, c)
    BY <1>4, <1>8
  <2>2. c.state \in DOMAIN states /\ (AtEnd(t, c.at.pos) => c.eofHops <= hops)
    BY <2>1 DEF GoesOn
  <2> HIDE DEF next, stop, hops
  <2> QED BY <1>2, <1>3, <1>8, <2>1, <2>2, OnwardIs
<1> HIDE DEF Run, stop, val, next
<1>9. \A c \in {b \in Running : OK(b) /\ AtEnd(t, b.at.pos)} : Run[c] \in Found(places, a)
  <2> DEFINE good == {b \in Running : OK(b) /\ AtEnd(t, b.at.pos)}
             measure == [c \in good |-> Hops(c)]
  <2>0. \A c \in Running : c.eofHops \in Nat
    BY RunningIs
  <2>1. measure \in [good -> Nat]
    <3>1. \A c \in good : Hops(c) \in Nat
      <4> HIDE DEF hops
      <4> QED BY <1>6, <2>0
    <3> HIDE DEF Hops
    <3> QED BY <3>1
  <2>2. Sinks(stop, val, next, good, Found(places, a), measure)
    <3>1. ASSUME NEW c \in good, c \notin stop
          PROVE  next[c] \in good /\ measure[next[c]] < measure[c]
      <4>1. /\ next[c] \in Running /\ OK(next[c]) /\ next[c].at = c.at
            /\ next[c].eofHops = c.eofHops + 1 /\ c.eofHops <= hops
        <5> HIDE DEF OK, hops
        <5> QED BY <1>8, <3>1
      <4>2. next[c] \in good
        <5> HIDE DEF OK
        <5> QED BY <4>1
      <4>3. Hops(next[c]) < Hops(c)
        <5> HIDE DEF hops
        <5> QED BY <1>6, <2>0, <4>1
      <4> HIDE DEF Hops, good
      <4> QED BY <4>2, <4>3
    <3> HIDE DEF OK
    <3> QED BY <1>7, <3>1 DEF good, Sinks
  <2> HIDE DEF measure
  <2>3. good \subseteq Running
    OBVIOUS
  <2> HIDE DEF good
  <2>4. \A c \in good : Run[c] \in Found(places, a)
    BY <1>3, <1>5, <2>1, <2>2, <2>3, RecursionReturns
  <2> QED BY <2>4 DEF good
<1> DEFINE stops == stop \cup {c \in Running : AtEnd(t, c.at.pos)}
           found == [c \in Running |-> IF c \in stop THEN val[c] ELSE Run[next[c]]]
<1>10. Recursive(Running, stops, found, next, Run)
  <2>1. \A c \in Running : found[c] = IF c \in stop THEN val[c] ELSE Run[next[c]]
    OBVIOUS
  <2>2. \A c \in Running : (IF c \in stops THEN found[c] ELSE Run[next[c]])
                            = IF c \in stop THEN val[c] ELSE Run[next[c]]
    <3> HIDE DEF found
    <3> QED BY <2>1
  <2> HIDE DEF found, stops
  <2> QED BY <1>5, <2>2 DEF Recursive
<1>11. \A c \in {b \in Running : OK(b)} : Run[c] \in Found(places, a)
  <2> DEFINE good == {b \in Running : OK(b)}
             Far(c) == IF c.state \in DOMAIN states THEN Left(t, c.at) + 1 ELSE 0
             measure == [c \in good |-> Far(c)]
  <2>0. \A c \in Running : c.at \in Place /\ Left(t, c.at) \in Nat
    BY RunningIs, LeftIs
  <2>1. measure \in [good -> Nat]
    <3>1. \A c \in good : Far(c) \in Nat
      BY <2>0
    <3> HIDE DEF Far
    <3> QED BY <3>1
  <2>2. Sinks(stops, found, next, good, Found(places, a), measure)
    <3>1. ASSUME NEW c \in good, c \notin stops
          PROVE  next[c] \in good /\ measure[next[c]] < measure[c]
      <4>1. /\ next[c] \in Running /\ OK(next[c]) /\ c.state \in DOMAIN states
            /\ next[c].state = -1 \/ c.at.pos < next[c].at.pos
            /\ ~ AtEnd(t, c.at.pos)
        <5> HIDE DEF OK
        <5> QED BY <1>8, <3>1
      <4>2. next[c] \in good
        <5> HIDE DEF OK
        <5> QED BY <4>1
      <4>3. Far(next[c]) < Far(c)
        <5>1. c.at.pos < Len(t) /\ c.at \in Place /\ next[c].at \in Place
              /\ Left(t, c.at) \in Nat /\ Left(t, next[c].at) \in Nat
          BY <2>0, <4>1 DEF AtEnd, Place, Bytes
        <5>2. CASE next[c].state = -1
          BY <1>6, <4>1, <5>1, <5>2
        <5>3. CASE c.at.pos < next[c].at.pos
          <6>1. Left(t, next[c].at) < Left(t, c.at)
            BY <5>1, <5>3, LeftIs
          <6> QED BY <4>1, <5>1, <6>1
        <5> QED BY <4>1, <5>2, <5>3
      <4> HIDE DEF Far, good
      <4> QED BY <4>2, <4>3
    <3>2. ASSUME NEW c \in good, c \in stops PROVE found[c] \in Found(places, a)
      <4>1. CASE c \in stop
        <5>1. found[c] = val[c]
          BY <4>1
        <5> HIDE DEF found, OK
        <5> QED BY <1>7, <4>1, <5>1 DEF good
      <4>2. CASE c \notin stop
        <5>1. found[c] = Run[next[c]] /\ AtEnd(t, c.at.pos)
          BY <3>2, <4>2
        <5>2. /\ next[c] \in Running /\ OK(next[c]) /\ next[c].at = c.at
          <6> HIDE DEF OK
          <6> QED BY <1>8, <4>2, <5>1
        <5> HIDE DEF found, OK
        <5> QED BY <1>9, <5>1, <5>2
      <4> QED BY <4>1, <4>2
    <3> HIDE DEF OK, found, measure, stops
    <3> QED BY <3>1, <3>2 DEF Sinks
  <2>3. good \subseteq Running
    OBVIOUS
  <2> HIDE DEF measure, good, found, stops
  <2>4. \A c \in good : Run[c] \in Found(places, a)
    BY <1>3, <1>10, <2>1, <2>2, <2>3, RecursionReturns
  <2> QED BY <2>4 DEF good
<1>12. begun \in Running /\ OK(begun)
  <2>1. begun \in Running
    BY <1>2 DEF Running
  <2> QED BY <1>2, <2>1 DEF RunOK
<1> HIDE DEF OK, begun
<1> QED BY <1>1, <1>11, <1>12

\* Behind a gap is further on.
LEMMA PastGapIs ==
    ASSUME NEW t \in Bytes, NEW places, OnRunes(t, places), NEW a \in places, a.pos < Len(t),
           NEW found \in Found(places, a)
    PROVE  PastGap(t, found, a) \in places /\ a.pos < PastGap(t, found, a).pos
<1>1. CASE \E x \in found : x.to.pos > a.pos
  <2> DEFINE y == CHOOSE x \in found : TRUE
  <2>1. y \in found /\ y.to.pos > a.pos
    BY <1>1 DEF Found
  <2>2. y.to \in places /\ a.pos < y.to.pos
    <3>1. y \in Reads(places, a)
      BY <2>1 DEF Found
    <3>2. y.to \in places /\ y.to.pos \in Int /\ a.pos \in Int
      BY <3>1 DEF Reads, OnRunes, Place
    <3> QED BY <2>1, <3>2
  <2>3. PastGap(t, found, a) = y.to
    BY <1>1 DEF PastGap
  <2> QED BY <2>2, <2>3
<1>2. CASE ~ \E x \in found : x.to.pos > a.pos
  <2>1. PastGap(t, found, a) = OneRune(t, a)
    BY <1>2 DEF PastGap
  <2> QED BY <2>1, OneRuneIs DEF OnRunes
<1> QED BY <1>1, <1>2

\* The lexer returns: what it reads is a token on the runes of the text.
LEMMA NextTokenIs ==
    ASSUME NEW states, IsTable(states), NEW t \in Bytes, NEW places, OnRunes(t, places),
           NEW a \in places, NEW start \in Int
    PROVE  NextToken(states, t, start, a) \in Reads(places, a)
<1> DEFINE F(b) == Scan(states, t, start, b)
           Named(b) == \E x \in F(b) : x.symbol # NoSymbol
           stop == {b \in Place : AtEnd(t, b.pos) \/ Named(b)}
           val == [b \in Place |-> IF AtEnd(t, b.pos) THEN Token(NoSymbol, b, b)
                                   ELSE CHOOSE x \in F(b) : TRUE]
           next == [b \in Place |-> IF b \in stop THEN b ELSE PastGap(t, F(b), b)]
           Next0[b \in Place] ==
               IF AtEnd(t, b.pos) THEN Token(NoSymbol, b, b)
               ELSE IF Named(b) THEN CHOOSE x \in F(b) : TRUE
               ELSE Next0[PastGap(t, F(b), b)]
<1>1. NextToken(states, t, start, a) = Next0[a]
  BY DEF NextToken
<1>2. OnRunes(t, Place) /\ places \subseteq Place /\ a \in Place
  BY PlacesOnRunes DEF OnRunes
<1>3. ASSUME NEW b \in Place, b \notin stop
      PROVE  /\ PastGap(t, F(b), b) \in Place /\ b.pos < PastGap(t, F(b), b).pos
             /\ b.pos < Len(t) /\ next[b] = PastGap(t, F(b), b)
             /\ b \in places => PastGap(t, F(b), b) \in places
  <2>1. b.pos < Len(t) /\ next[b] = PastGap(t, F(b), b)
    BY <1>3 DEF AtEnd, Place, Bytes
  <2>2. F(b) \in Found(Place, b) /\ (b \in places => F(b) \in Found(places, b))
    BY <1>2, ScanIs
  <2> HIDE DEF F, next, stop
  <2> QED BY <1>2, <2>1, <2>2, PastGapIs
<1>4. next \in [Place -> Place]
  <2>1. \A b \in Place : (IF b \in stop THEN b ELSE PastGap(t, F(b), b)) \in Place
    <3> HIDE DEF stop, F
    <3> QED BY <1>3
  <2> HIDE DEF stop, F
  <2> QED BY <2>1
<1>5. ASSUME NEW g, NEW b \in Place
      PROVE  (IF b \in stop THEN val[b] ELSE g[next[b]])
               = IF AtEnd(t, b.pos) THEN Token(NoSymbol, b, b)
                 ELSE IF Named(b) THEN CHOOSE x \in F(b) : TRUE
                 ELSE g[PastGap(t, F(b), b)]
  <2>1. CASE b \in stop
    <3>1. AtEnd(t, b.pos) \/ Named(b)
      BY <2>1
    <3>2. val[b] = IF AtEnd(t, b.pos) THEN Token(NoSymbol, b, b) ELSE CHOOSE x \in F(b) : TRUE
      OBVIOUS
    <3> HIDE DEF stop, val, next, F, Named
    <3> QED BY <2>1, <3>1, <3>2
  <2>2. CASE b \notin stop
    <3>1. ~ AtEnd(t, b.pos) /\ ~ Named(b)
      BY <2>2
    <3> HIDE DEF stop, val, next, F, Named
    <3> QED BY <1>3, <2>2, <3>1
  <2> QED BY <2>1, <2>2
<1>6. Recursive(Place, stop, val, next, Next0)
  <2>1. PICK g : Recursive(Place, stop, val, next, g)
    <3> HIDE DEF stop, val, next
    <3> QED BY <1>4, RecursionExists
  <2>2. g = [b \in Place |-> IF AtEnd(t, b.pos) THEN Token(NoSymbol, b, b)
                             ELSE IF Named(b) THEN CHOOSE x \in F(b) : TRUE
                             ELSE g[PastGap(t, F(b), b)]]
    <3> HIDE DEF stop, val, next, F, Named
    <3> QED BY <1>5, <2>1 DEF Recursive
  <2>3. Next0 = [b \in Place |-> IF AtEnd(t, b.pos) THEN Token(NoSymbol, b, b)
                                 ELSE IF Named(b) THEN CHOOSE x \in F(b) : TRUE
                                 ELSE Next0[PastGap(t, F(b), b)]]
    <3> HIDE DEF F, Named
    <3> QED BY <2>2, Zenon
  <2> HIDE DEF stop, val, next, F, Named, Next0
  <2> QED BY <1>5, <2>3 DEF Recursive
<1> DEFINE good == {b \in places : a.pos <= b.pos}
           measure == [b \in good |-> Left(t, b)]
<1> HIDE DEF Next0
<1>7. Sinks(stop, val, next, good, Reads(places, a), measure)
  <2>1. ASSUME NEW b \in good, b \notin stop
        PROVE  next[b] \in good /\ measure[next[b]] < measure[b]
    <3>1. /\ next[b] \in places /\ next[b] \in Place /\ b.pos < next[b].pos /\ b.pos < Len(t)
          /\ b \in Place
      <4> HIDE DEF next, stop, F
      <4> QED BY <1>2, <1>3, <2>1
    <3> HIDE DEF next, stop, F
    <3>2. next[b] \in good
      BY <1>2, <3>1 DEF Place
    <3>3. Left(t, next[b]) < Left(t, b)
      BY <3>1, LeftIs
    <3> HIDE DEF good
    <3> QED BY <3>2, <3>3
  <2>2. ASSUME NEW b \in good, b \in stop PROVE val[b] \in Reads(places, a)
    <3>1. b \in places /\ b \in Place /\ a.pos \in Int /\ b.pos \in Int /\ a.pos <= b.pos
      BY <1>2 DEF Place
    <3>2. val[b] \in Reads(places, b)
      <4>1. CASE AtEnd(t, b.pos)
        <5>1. val[b] = Token(NoSymbol, b, b)
          BY <3>1, <4>1
        <5>2. Token(NoSymbol, b, b) \in Reads(places, b)
          BY <3>1, LiteralsAreStrings DEF Token, Reads
        <5> QED BY <5>1, <5>2
      <4>2. CASE ~ AtEnd(t, b.pos)
        <5>1. F(b) \in Found(places, b)
          BY <3>1, ScanIs
        <5>2. Named(b)
          BY <2>2, <4>2
        <5>3. val[b] = CHOOSE x \in F(b) : TRUE
          BY <3>1, <4>2
        <5> HIDE DEF F, val
        <5>4. val[b] \in F(b)
          BY <5>2, <5>3
        <5> QED BY <5>1, <5>4 DEF Found
      <4> QED BY <4>1, <4>2
    <3> HIDE DEF val
    <3> QED
      <4>1. val[b].from \in Place /\ val[b].to \in Place
        BY <1>2, <3>2 DEF Reads
      <4> QED BY <3>1, <3>2, <4>1 DEF Reads, Place
  <2> HIDE DEF stop, val, next, good, measure, F
  <2> QED BY <2>1, <2>2 DEF Sinks
<1>8. measure \in [good -> Nat] /\ good \subseteq Place /\ a \in good
  <2>1. \A b \in good : Left(t, b) \in Nat
    BY <1>2, LeftIs
  <2>2. a.pos <= a.pos
    BY <1>2 DEF Place
  <2> QED BY <1>2, <2>1, <2>2
<1>9. \A b \in good : Next0[b] \in Reads(places, a)
  <2> HIDE DEF stop, val, next, good, measure
  <2> QED BY <1>4, <1>6, <1>7, <1>8, RecursionReturns
<1> HIDE DEF good
<1> QED BY <1>1, <1>8, <1>9

-----------------------------------------------------------------------------
(* Going on from place to place until one stops.                           *)

Itself == [b \in Place |-> b]

LEMMA WalkIs ==
    ASSUME NEW t \in Bytes, NEW places, places \subseteq Place, NEW a \in places,
           NEW stop, NEW next \in [Place -> Place], NEW f, Recursive(Place, stop, Itself, next, f),
           \A b \in places : b \notin stop =>
               b.pos < Len(t) /\ next[b] \in places /\ b.pos < next[b].pos
    PROVE  f[a] \in places /\ a.pos <= f[a].pos
<1> DEFINE good == {b \in places : a.pos <= b.pos}
           measure == [b \in good |-> Left(t, b)]
<1>1. Sinks(stop, Itself, next, good, good, measure)
  <2>1. ASSUME NEW b \in good, b \notin stop
        PROVE  next[b] \in good /\ measure[next[b]] < measure[b]
    <3>1. /\ next[b] \in places /\ b.pos < next[b].pos /\ b.pos < Len(t)
          /\ b \in Place /\ next[b] \in Place /\ a \in Place /\ a.pos <= b.pos
      BY <2>1
    <3>2. next[b] \in good
      BY <3>1 DEF Place
    <3>3. Left(t, next[b]) < Left(t, b)
      BY <3>1, LeftIs
    <3> HIDE DEF good
    <3> QED BY <3>2, <3>3
  <2>2. \A b \in good : Itself[b] \in good
    BY DEF Itself
  <2> HIDE DEF good, measure
  <2> QED BY <2>1, <2>2 DEF Sinks
<1>2. measure \in [good -> Nat] /\ good \subseteq Place /\ a \in good
  <2>1. \A b \in good : Left(t, b) \in Nat
    BY LeftIs
  <2>2. a.pos <= a.pos
    BY DEF Place
  <2> QED BY <2>1, <2>2
<1>3. \A b \in good : f[b] \in good
  <2> HIDE DEF good, measure
  <2> QED BY <1>1, <1>2, RecursionReturns
<1>4. f[a] \in good
  <2> HIDE DEF good
  <2> QED BY <1>2, <1>3
<1> QED BY <1>4

LEMMA BeforeTheEnd ==
    ASSUME NEW t \in Bytes, NEW b \in Place, ~ AtEnd(t, b.pos)
    PROVE  b.pos < Len(t) /\ b.pos \in Nat /\ Len(t) \in Nat /\ b.row \in Nat
BY DEF AtEnd, Place, Bytes

LEMMA PastBlanksIs ==
    ASSUME text \in Bytes, NEW places, OnRunes(text, places), NEW a \in places
    PROVE  PastBlanks(a) \in places /\ a.pos <= PastBlanks(a).pos
<1> DEFINE Past[b \in Place] == IF ByteAt(b.pos, {" "}) THEN Past[OneRune(text, b)] ELSE b
           stop == {b \in Place : ~ ByteAt(b.pos, {" "})}
           next == [b \in Place |-> IF b \in stop THEN b ELSE OneRune(text, b)]
<1>1. PastBlanks(a) = Past[a] /\ places \subseteq Place /\ a \in Place
  BY DEF PastBlanks, OnRunes
<1>2. ASSUME NEW b \in Place, b \notin stop
      PROVE  /\ b.pos < Len(text) /\ next[b] = OneRune(text, b) /\ ByteAt(b.pos, {" "})
             /\ next[b] \in Place /\ b.pos < next[b].pos
             /\ b \in places => next[b] \in places
  <2>1. b.pos < Len(text) /\ next[b] = OneRune(text, b) /\ ByteAt(b.pos, {" "})
    <3>1. ByteAt(b.pos, {" "}) /\ next[b] = OneRune(text, b)
      BY <1>2
    <3>2. ~ AtEnd(text, b.pos)
      BY <3>1 DEF ByteAt
    <3> HIDE DEF next, stop
    <3> QED BY <3>1, <3>2, BeforeTheEnd
  <2> HIDE DEF next, stop
  <2> QED BY <2>1, OneRuneIs DEF OnRunes
<1>3. next \in [Place -> Place]
  <2>1. \A b \in Place : (IF b \in stop THEN b ELSE OneRune(text, b)) \in Place
    <3>1. \A b \in Place : b \notin stop => OneRune(text, b) \in Place
      BY <1>2
    <3> HIDE DEF stop
    <3> QED BY <3>1
  <2> HIDE DEF stop
  <2> QED BY <2>1
<1>4. ASSUME NEW g, NEW b \in Place
      PROVE  (IF b \in stop THEN Itself[b] ELSE g[next[b]])
               = IF ByteAt(b.pos, {" "}) THEN g[OneRune(text, b)] ELSE b
  <2>1. (b \in stop <=> ~ ByteAt(b.pos, {" "})) /\ Itself[b] = b
    BY DEF Itself
  <2> HIDE DEF stop, next
  <2> QED BY <1>2, <2>1
<1>5. Recursive(Place, stop, Itself, next, Past)
  <2>1. PICK g : Recursive(Place, stop, Itself, next, g)
    <3> HIDE DEF stop, next
    <3> QED BY <1>3, RecursionExists
  <2>2. g = [b \in Place |-> IF ByteAt(b.pos, {" "}) THEN g[OneRune(text, b)] ELSE b]
    <3> HIDE DEF stop, next
    <3> QED BY <1>4, <2>1 DEF Recursive
  <2>3. Past = [b \in Place |-> IF ByteAt(b.pos, {" "}) THEN Past[OneRune(text, b)] ELSE b]
    BY <2>2, Zenon
  <2> HIDE DEF stop, next, Past
  <2> QED BY <1>4, <2>3 DEF Recursive
<1> HIDE DEF Past, stop, next
<1>6. \A b \in places : b \notin stop =>
          b.pos < Len(text) /\ next[b] \in places /\ b.pos < next[b].pos
  BY <1>1, <1>2
<1>7. Past[a] \in places /\ a.pos <= Past[a].pos
  BY <1>1, <1>3, <1>5, <1>6, WalkIs
<1> QED BY <1>1, <1>7

\* Where the made-up tokens may end: a "\r" of its own is a line end there
\* and is none where places are counted.
Lone(t, p) == t[p] = "\r" /\ (p = Len(t) \/ t[p + 1] # "\n")
Reached(t, a) ==
    {b \in Place : /\ a.pos <= b.pos /\ b.pos <= Len(t)
                   /\ b \in Right(t) \/ \E p \in a.pos + 1 .. b.pos : Lone(t, p)}

LEMMA ReachedIs ==
    ASSUME NEW t \in Bytes, NEW a \in Right(t)
    PROVE  OnRunes(t, Reached(t, a)) /\ a \in Reached(t, a)
<1>1. a \in Reached(t, a)
  BY DEF Reached, Right, Place
<1>2. ASSUME NEW b \in Reached(t, a), b.pos < Len(t)
      PROVE  OneRune(t, b) \in Reached(t, a)
  <2> DEFINE c == OneRune(t, b)
  <2>1. /\ b \in Place /\ a.pos \in Nat /\ a.pos <= b.pos
        /\ b \in Right(t) \/ \E p \in a.pos + 1 .. b.pos : Lone(t, p)
    BY DEF Reached, Right, Place
  <2>2. c \in Place /\ b.pos < c.pos /\ c.pos <= Len(t) /\ b.pos \in Nat /\ c.pos \in Nat
    BY <1>2, <2>1, OneRuneIs DEF Place
  <2>3. b \in Right(t) => c \in Right(t)
    BY <1>2, RuneIsRight
  <2> HIDE DEF c
  <2>4. c \in Right(t) \/ \E p \in a.pos + 1 .. c.pos : Lone(t, p)
    BY <2>1, <2>2, <2>3
  <2>5. a.pos <= c.pos
    BY <2>1, <2>2
  <2> QED BY <2>2, <2>4, <2>5 DEF Reached, c
<1> QED BY <1>1, <1>2 DEF OnRunes, Reached

LEMMA PastLineEndIs ==
    ASSUME text \in Bytes, NEW a \in Right(text), NEW b \in Reached(text, a),
           ByteAt(b.pos, {"\n", "\r"})
    PROVE  PastLineEnd(b) \in Reached(text, a) /\ b.pos < PastLineEnd(b).pos
<1> DEFINE c == PastLineEnd(b)
           pair == text[b.pos + 1] = "\r" /\ b.pos + 1 < Len(text) /\ text[b.pos + 2] = "\n"
<1>1. /\ b \in Place /\ b.pos \in Nat /\ a.pos \in Nat /\ a.pos <= b.pos /\ Len(text) \in Nat
      /\ b.row \in Nat
      /\ b \in Right(text) \/ \E p \in a.pos + 1 .. b.pos : Lone(text, p)
  BY DEF Reached, Right, Place, Bytes
<1>2. b.pos < Len(text) /\ text[b.pos + 1] \in {"\n", "\r"}
  BY <1>1 DEF ByteAt, AtEnd
<1>3. /\ pair => c = [pos |-> b.pos + 2, row |-> b.row + 1, col |-> 0]
      /\ ~ pair => c = [pos |-> b.pos + 1, row |-> b.row + 1, col |-> 0]
  <2>1. ByteAt(b.pos, {"\r"}) /\ ByteAt(b.pos + 1, {"\n"}) <=> pair
    BY <1>1, <1>2 DEF ByteAt, AtEnd
  <2> HIDE DEF pair
  <2> QED BY <2>1 DEF PastLineEnd
<1>4. c \in Place /\ b.pos < c.pos /\ c.pos <= Len(text) /\ a.pos <= c.pos /\ c.pos \in Nat
  <2>1. CASE pair
    BY <1>1, <1>3, <2>1 DEF Place
  <2>2. CASE ~ pair
    <3> HIDE DEF pair
    <3> QED BY <1>1, <1>2, <1>3, <2>2 DEF Place
  <2> QED BY <2>1, <2>2
<1>5. CASE ~ b \in Right(text)
  <2> HIDE DEF c
  <2>1. \E p \in a.pos + 1 .. c.pos : Lone(text, p)
    BY <1>1, <1>4, <1>5
  <2> QED BY <1>4, <2>1 DEF Reached, c
<1>6. CASE b \in Right(text) /\ text[b.pos + 1] = "\n"
  <2>1. ~ pair
    BY <1>6
  <2>2. DecodeRune(text, b.pos) = [rune |-> "\n", size |-> 1]
    BY <1>6 DEF DecodeRune
  <2>3. OneRune(text, b) = [pos |-> b.pos + 1, row |-> b.row + 1, col |-> 0]
    BY <2>2 DEF OneRune, Behind
  <2>4. c = OneRune(text, b)
    <3> HIDE DEF pair, c
    <3> QED BY <1>3, <2>1, <2>3
  <2>5. c \in Right(text)
    <3> HIDE DEF c
    <3> QED BY <1>2, <1>6, <2>4, RuneIsRight
  <2> HIDE DEF c
  <2> QED BY <1>4, <2>5 DEF Reached, c
<1>7. CASE b \in Right(text) /\ pair
  <2> DEFINE d == OneRune(text, b)
  <2>1. DecodeRune(text, b.pos) = [rune |-> "\r", size |-> 1]
    BY <1>7 DEF DecodeRune
  <2>2. d = [pos |-> b.pos + 1, row |-> b.row, col |-> b.col + 1]
    BY <2>1 DEF OneRune, Behind
  <2>3. d.pos = b.pos + 1 /\ d.row = b.row /\ d.pos + 1 = b.pos + 2
    BY <1>1, <2>2
  <2>4. d \in Right(text) /\ d.pos < Len(text) /\ text[d.pos + 1] = "\n"
    <3>1. d \in Right(text)
      <4> HIDE DEF pair
      <4> QED BY <1>2, <1>7, RuneIsRight
    <3> HIDE DEF d
    <3> QED BY <1>7, <2>3, <3>1
  <2> HIDE DEF d
  <2>5. DecodeRune(text, d.pos) = [rune |-> "\n", size |-> 1]
    BY <2>4 DEF DecodeRune
  <2>6. OneRune(text, d) = [pos |-> d.pos + 1, row |-> d.row + 1, col |-> 0]
    BY <2>5 DEF OneRune, Behind
  <2>7. c = OneRune(text, d)
    <3> HIDE DEF pair, c
    <3> QED BY <1>3, <1>7, <2>3, <2>6
  <2>8. c \in Right(text)
    <3> HIDE DEF c
    <3> QED BY <2>4, <2>7, RuneIsRight
  <2> HIDE DEF c
  <2> QED BY <1>4, <2>8 DEF Reached, c
<1>8. CASE text[b.pos + 1] = "\r" /\ ~ pair
  <2> DEFINE p == b.pos + 1
  <2>1. Lone(text, p)
    <3>1. b.pos + 1 = Len(text) \/ text[b.pos + 2] # "\n"
      BY <1>1, <1>2, <1>8
    <3>2. p + 1 = b.pos + 2
      BY <1>1
    <3> HIDE DEF pair
    <3> QED BY <1>8, <3>1, <3>2 DEF Lone
  <2>2. p \in a.pos + 1 .. c.pos
    <3> HIDE DEF c
    <3> QED BY <1>1, <1>4
  <2> HIDE DEF p, c
  <2>3. \E q \in a.pos + 1 .. c.pos : Lone(text, q)
    BY <2>1, <2>2
  <2> QED BY <1>4, <2>3 DEF Reached, c
<1> QED BY <1>2, <1>4, <1>5, <1>6, <1>7, <1>8

\* A made-up token begins where the lexer is.
MadeUp(t, a) == [symbol : STRING, from : {a}, to : Reached(t, a)]

LEMMA JSXTextIs ==
    ASSUME text \in Bytes, NEW symbol \in STRING, NEW a \in Right(text),
           NEW x \in SyntheticJSXText(symbol, a)
    PROVE  x \in MadeUp(text, a)
<1> DEFINE Onto(b) == IF ByteAt(b.pos, {"\n", "\r"}) THEN PastLineEnd(b) ELSE OneRune(text, b)
           Stops(b) == AtEnd(text, b.pos) \/ ByteAt(b.pos, {"<", "{", "}"})
           Past[b \in Place] == IF Stops(b) THEN b ELSE Past[Onto(b)]
           places == Reached(text, a)
           stop == {b \in Place : Stops(b)}
           next == [b \in Place |-> IF b \in stop THEN b ELSE Onto(b)]
<1>1. x = Token(symbol, a, Past[a])
  BY DEF SyntheticJSXText
<1>2. OnRunes(text, places) /\ a \in places /\ places \subseteq Place
  BY ReachedIs DEF Reached
<1>3. ASSUME NEW b \in Place, b \notin stop
      PROVE  /\ b.pos < Len(text) /\ next[b] = Onto(b) /\ ~ Stops(b)
             /\ next[b] \in Place /\ b.pos < next[b].pos
             /\ b \in places => next[b] \in places
  <2>1. ~ Stops(b) /\ next[b] = Onto(b)
    BY <1>3
  <2> HIDE DEF next, stop
  <2>2. b.pos < Len(text) /\ b.pos \in Nat /\ Len(text) \in Nat /\ b.row \in Nat
    <3>1. ~ AtEnd(text, b.pos)
      BY <2>1
    <3> QED BY <3>1, BeforeTheEnd
  <2>3. CASE ByteAt(b.pos, {"\n", "\r"})
    <3>1. next[b] = PastLineEnd(b)
      BY <2>1, <2>3
    <3>2. PastLineEnd(b) \in Place /\ b.pos < PastLineEnd(b).pos
      BY <2>2 DEF PastLineEnd, Place
    <3>3. b \in places => PastLineEnd(b) \in places
      BY <2>3, PastLineEndIs
    <3> HIDE DEF Onto, Stops, places
    <3> QED BY <2>1, <2>2, <3>1, <3>2, <3>3
  <2>4. CASE ~ ByteAt(b.pos, {"\n", "\r"})
    <3>1. next[b] = OneRune(text, b)
      BY <2>1, <2>4
    <3>2. OneRune(text, b) \in Place /\ b.pos < OneRune(text, b).pos
      BY <2>2, OneRuneIs
    <3>3. b \in places => OneRune(text, b) \in places
      BY <1>2, <2>2 DEF OnRunes
    <3> HIDE DEF Onto, Stops, places
    <3> QED BY <2>1, <2>2, <3>1, <3>2, <3>3
  <2> QED BY <2>3, <2>4
<1>4. next \in [Place -> Place]
  <2>1. \A b \in Place : (IF b \in stop THEN b ELSE Onto(b)) \in Place
    <3>1. \A b \in Place : b \notin stop => Onto(b) \in Place
      <4> HIDE DEF stop, Onto
      <4> QED BY <1>3
    <3> HIDE DEF stop, Onto
    <3> QED BY <3>1
  <2> HIDE DEF stop, Onto
  <2> QED BY <2>1
<1>5. ASSUME NEW g, NEW b \in Place
      PROVE  (IF b \in stop THEN Itself[b] ELSE g[next[b]])
               = IF Stops(b) THEN b ELSE g[Onto(b)]
  <2>1. (b \in stop <=> Stops(b)) /\ Itself[b] = b
    BY DEF Itself
  <2> HIDE DEF stop, next, Stops, Onto
  <2> QED BY <1>3, <2>1
<1>6. Recursive(Place, stop, Itself, next, Past)
  <2>1. PICK g : Recursive(Place, stop, Itself, next, g)
    <3> HIDE DEF stop, next
    <3> QED BY <1>4, RecursionExists
  <2>2. g = [b \in Place |-> IF Stops(b) THEN b ELSE g[Onto(b)]]
    <3> HIDE DEF stop, next, Stops, Onto
    <3> QED BY <1>5, <2>1 DEF Recursive
  <2>3. Past = [b \in Place |-> IF Stops(b) THEN b ELSE Past[Onto(b)]]
    <3> HIDE DEF Stops, Onto
    <3> QED BY <2>2, Zenon
  <2> HIDE DEF stop, next, Past, Stops, Onto
  <2> QED BY <1>5, <2>3 DEF Recursive
<1> HIDE DEF Past, stop, next, Stops, Onto, places
<1>7. \A b \in places : b \notin stop =>
          b.pos < Len(text) /\ next[b] \in places /\ b.pos < next[b].pos
  BY <1>2, <1>3
<1>8. Past[a] \in places
  BY <1>2, <1>4, <1>6, <1>7, WalkIs
<1> QED BY <1>1, <1>8 DEF Token, places, MadeUp

LEMMA LineBreakIs ==
    ASSUME text \in Bytes, NEW symbol \in STRING, NEW a \in Right(text),
           NEW x \in SyntheticLineBreak(symbol, a)
    PROVE  x \in MadeUp(text, a)
<1> DEFINE places == Reached(text, a)
           end == PastBlanks(a)
           to == PastBlanks(PastLineEnd(end))
<1>1. OnRunes(text, places) /\ a \in places
  BY ReachedIs
<1>2. x = Token(symbol, a, to) /\ ByteAt(end.pos, {"\n", "\r"})
  BY DEF SyntheticLineBreak
<1> HIDE DEF places, end
<1>3. end \in places
  BY <1>1, PastBlanksIs DEF end
<1>4. PastLineEnd(end) \in places
  BY <1>2, <1>3, PastLineEndIs DEF places
<1>5. to \in places
  BY <1>1, <1>4, PastBlanksIs
<1> QED BY <1>2, <1>5 DEF Token, places, MadeUp

LEMMA SyntheticIs ==
    ASSUME text \in Bytes, IsLanguage(language), NEW a \in Right(text), NEW valid,
           NEW x \in SyntheticExternalToken(a, valid)
    PROVE  x \in MadeUp(text, a)
<1> DEFINE known == {i \in DOMAIN language.externals :
                        /\ language.externals[i].symbol \in valid
                        /\ language.externals[i].name \in KnownNames}
           i == CHOOSE i \in known : \A j \in known : i <= j
           e == language.externals[i]
           ends == {Token(e.symbol, a, end) : end \in {y \in {PastBlanks(a)} : AtEnd(text, y.pos)}}
<1>1. known # {}
  BY DEF SyntheticExternalToken
<1>2. i \in known
  <2>1. known \subseteq Nat
    BY DEF IsLanguage
  <2> HIDE DEF known
  <2>2. \E k \in known : \A j \in known : k <= j
    BY <1>1, <2>1, LeastElement
  <2> QED BY <2>2
<1>3. e.symbol \in STRING /\ e.name \in KnownNames
  <2>1. i \in DOMAIN language.externals /\ language.externals[i].name \in KnownNames
    BY <1>2
  <2> HIDE DEF i
  <2> QED BY <2>1 DEF IsLanguage
<1>4. \/ x \in SyntheticLineBreak(e.symbol, a) \/ x \in ends \/ x \in SyntheticJSXText(e.symbol, a)
  <2>1. x \in CASE e.name = "automatic_semicolon" -> SyntheticAutomaticSemicolon(e.symbol, a)
                [] e.name = "line_break"          -> SyntheticLineBreak(e.symbol, a)
                [] e.name = "line_ending_or_eof"  -> SyntheticLineEndingOrEOF(e.symbol, a)
                [] e.name = "jsx_text"            -> SyntheticJSXText(e.symbol, a)
    BY <1>1 DEF SyntheticExternalToken
  <2>2. \/ x \in SyntheticAutomaticSemicolon(e.symbol, a) \/ x \in SyntheticLineBreak(e.symbol, a)
        \/ x \in SyntheticLineEndingOrEOF(e.symbol, a) \/ x \in SyntheticJSXText(e.symbol, a)
    <3> HIDE DEF e
    <3> QED BY <1>3, <2>1 DEF KnownNames
  <2> HIDE DEF e
  <2> QED BY <2>2 DEF SyntheticAutomaticSemicolon, SyntheticLineEndingOrEOF
<1>5. CASE x \in ends
  <2>1. x = Token(e.symbol, a, PastBlanks(a))
    BY <1>5
  <2>2. PastBlanks(a) \in Reached(text, a)
    BY ReachedIs, PastBlanksIs
  <2> HIDE DEF e
  <2> QED BY <1>3, <2>1, <2>2 DEF Token, MadeUp
<1> HIDE DEF e, ends
<1>6. x \notin ends => x \in MadeUp(text, a)
  BY <1>3, <1>4, LineBreakIs, JSXTextIs
<1> QED BY <1>3, <1>5, <1>6

-----------------------------------------------------------------------------
(* What a call of Next does: the lexer is moved on, and a token is read.   *)

\* A keyword is the identifier it was read as, under another symbol.
LEMMA PromoteKeywordIs ==
    ASSUME text \in Bytes, IsLanguage(language), NEW a \in Place,
           NEW x \in Reads(Right(text), a)
    PROVE  PromoteKeyword(x) \in Reads(Right(text), a)
<1> DEFINE word == SubSeq(text, x.from.pos + 1, x.to.pos)
           kw == NextToken(language.keywords, word, 0, Origin)
<1>1. PromoteKeyword(x) = x \/ PromoteKeyword(x) = [x EXCEPT !.symbol = kw.symbol]
  BY DEF PromoteKeyword
<1>2. kw.symbol \in STRING
  <2>1. x.from.pos \in Nat /\ x.to.pos \in Nat /\ x.to.pos <= Len(text)
    BY DEF Reads, Right, Place
  <2>2. word \in Bytes
    <3> DEFINE m == x.from.pos + 1  n == x.to.pos
    <3>2. m \in Nat /\ 1 <= m /\ n \in Nat /\ n <= Len(text)
      BY <2>1
    <3> HIDE DEF m, n
    <3>3. \A i \in m .. n : text[i] \in STRING
      BY <3>2 DEF Bytes
    <3>4. SubSeq(text, m, n) \in Seq(STRING)
      BY <3>2, <3>3, SubSeqProperties DEF Bytes
    <3> QED BY <3>4 DEF m, n, Bytes
  <2>3. Origin \in Place /\ 0 \in Int /\ IsTable(language.keywords)
    BY DEF Origin, Place, IsLanguage
  <2> HIDE DEF word
  <2>4. kw \in Reads(Place, Origin)
    BY <2>2, <2>3, PlacesOnRunes, NextTokenIs
  <2> QED BY <2>4 DEF Reads
<1> HIDE DEF kw
<1>3. [x EXCEPT !.symbol = kw.symbol] \in Reads(Right(text), a)
  BY <1>2 DEF Reads
<1> QED BY <1>1, <1>3

LEMMA LexedIs ==
    ASSUME text \in Bytes, IsLanguage(language), NEW a \in Right(text), NEW s
    PROVE  PromoteKeyword(NextToken(language.states, text, LexState(s), a)) \in Reads(Right(text), a)
<1>1. IsTable(language.states) /\ LexState(s) \in Int
  BY DEF IsLanguage, LexState
<1>2. a \in Place
  BY DEF Right
<1>3. NextToken(language.states, text, LexState(s), a) \in Reads(Right(text), a)
  BY <1>1, PlacesOnRunes, NextTokenIs
<1> QED BY <1>2, <1>3, PromoteKeywordIs

\* Byte positions between the runes have their places.
LEMMA PlaceInIsRight ==
    ASSUME NEW t \in Bytes, NEW p \in Nat, p <= Len(t), ~ SplitsRune(t, p)
    PROVE  PlaceIn(t, p) \in Right(t) /\ PlaceIn(t, p).pos = p
<1> DEFINE line == LineOf(t, p)
           rows == Cardinality(LineEnds(t, p))
           halves == Cardinality(Halves(t, line, p))
<1>1. line \in 0 .. p /\ rows \in Nat
  BY LineIs
<1>2. halves \in Nat /\ IsFiniteSet(Halves(t, line, p))
  BY <1>1, HalvesAreFinite
<1>3. halves <= p - line
  <2> DEFINE low == line + 2
  <2>1. low \in Int /\ low = line + 2 /\ line \in Nat /\ line <= p /\ p \in Int
    BY <1>1
  <2>2. Halves(t, line, p) \subseteq low .. p
    BY DEF Halves
  <2> HIDE DEF low
  <2>3. IsFiniteSet(low .. p) /\ Cardinality(low .. p) = IF low > p THEN 0 ELSE p - low + 1
    <3> HIDE DEF line
    <3>1. IsFiniteSet(low .. p)
      BY <2>1, FS_Interval
    <3>2. Cardinality(low .. p) = IF low > p THEN 0 ELSE p - low + 1
      BY <2>1, FS_Interval, Zenon
    <3> QED BY <3>1, <3>2
  <2>4. halves <= Cardinality(low .. p)
    BY <2>2, <2>3, FS_Subset
  <2> HIDE DEF halves, line
  <2> QED BY <1>2, <2>1, <2>3, <2>4
<1> DEFINE b == PlaceIn(t, p)
<1>4. b = [pos |-> p, row |-> rows, col |-> p - line - halves]
  BY PlaceInIs
<1> HIDE DEF line, rows, halves, b
<1>5. b \in Place /\ b.pos = p
  BY <1>1, <1>2, <1>3, <1>4 DEF Place
<1> QED BY <1>5 DEF b, Right

LEMMA NodeEndsAreRight ==
    ASSUME text \in Bytes, tokens # << >> => tokens[Len(tokens)].token.from \in Place,
           NEW e \in NodeEnds
    PROVE  e \in Right(text)
<1> DEFINE begin == tokens[Len(tokens)].token.from.pos
<1>1. tokens # << >>
  BY DEF NodeEnds
<1>2. begin \in Nat
  BY <1>1 DEF Place
<1>3. PICK q \in begin .. begin + MaxReuse(language) - 1 :
         q <= Len(text) /\ ~ SplitsRune(text, q) /\ e = PlaceOf(q)
  BY <1>1 DEF NodeEnds
<1>4. q \in Nat
  BY <1>2, <1>3
<1> QED BY <1>3, <1>4, PlaceInIsRight DEF PlaceOf

LEMMA SkipToByteIs ==
    ASSUME text \in Bytes, place \in Right(text), NEW offset \in Nat, offset <= Len(text)
    PROVE  SkipToByte(offset) \in Right(text) /\ place.pos <= SkipToByte(offset).pos
<1> DEFINE Past[b \in Place] == IF b.pos >= offset THEN b ELSE Past[OneRune(text, b)]
           stop == {b \in Place : b.pos >= offset}
           next == [b \in Place |-> IF b \in stop THEN b ELSE OneRune(text, b)]
           places == Right(text)
<1>1. OnRunes(text, places) /\ places \subseteq Place /\ place \in Place
  BY PlacesOnRunes DEF OnRunes
<1>2. ASSUME NEW b \in Place, b \notin stop
      PROVE  /\ b.pos < Len(text) /\ next[b] = OneRune(text, b) /\ ~ b.pos >= offset
             /\ next[b] \in Place /\ b.pos < next[b].pos
             /\ b \in places => next[b] \in places
  <2>1. ~ b.pos >= offset /\ next[b] = OneRune(text, b)
    BY <1>2
  <2> HIDE DEF next, stop, Past
  <2>2. b.pos < Len(text)
    BY <2>1 DEF Place, Bytes
  <2> QED BY <1>1, <2>1, <2>2, OneRuneIs DEF OnRunes
<1>3. next \in [Place -> Place]
  <2>1. \A b \in Place : (IF b \in stop THEN b ELSE OneRune(text, b)) \in Place
    <3>1. \A b \in Place : b \notin stop => OneRune(text, b) \in Place
      BY <1>2
    <3> HIDE DEF stop
    <3> QED BY <3>1
  <2> HIDE DEF stop
  <2> QED BY <2>1
<1>4. ASSUME NEW g, NEW b \in Place
      PROVE  (IF b \in stop THEN Itself[b] ELSE g[next[b]])
               = IF b.pos >= offset THEN b ELSE g[OneRune(text, b)]
  <2>1. (b \in stop <=> b.pos >= offset) /\ Itself[b] = b
    BY DEF Itself
  <2> HIDE DEF stop, next
  <2> QED BY <1>2, <2>1
<1>5. Recursive(Place, stop, Itself, next, Past)
  <2>1. PICK g : Recursive(Place, stop, Itself, next, g)
    <3> HIDE DEF stop, next
    <3> QED BY <1>3, RecursionExists
  <2>2. g = [b \in Place |-> IF b.pos >= offset THEN b ELSE g[OneRune(text, b)]]
    <3> HIDE DEF stop, next
    <3> QED BY <1>4, <2>1 DEF Recursive
  <2>3. Past = [b \in Place |-> IF b.pos >= offset THEN b ELSE Past[OneRune(text, b)]]
    BY <2>2, Zenon
  <2> HIDE DEF stop, next, Past
  <2> QED BY <1>4, <2>3 DEF Recursive
<1>6. SkipToByte(offset) = place \/ SkipToByte(offset) = Past[place]
  BY DEF SkipToByte
<1> HIDE DEF Past, stop, next
<1>7. \A b \in places : b \notin stop =>
          b.pos < Len(text) /\ next[b] \in places /\ b.pos < next[b].pos
  BY <1>1, <1>2
<1>8. Past[place] \in places /\ place.pos <= Past[place].pos
  BY <1>1, <1>3, <1>5, <1>7, WalkIs
<1>9. place.pos <= place.pos
  BY <1>1 DEF Place
<1> QED BY <1>6, <1>8, <1>9

\* The lexer is moved to a place of the text, never back.
LEMMA SkippedIs ==
    ASSUME text \in Bytes, place \in Right(text),
           tokens # << >> => tokens[Len(tokens)].token.from \in Place,
           NEW a \in {place} \cup Skipped
    PROVE  a \in Right(text) /\ place.pos <= a.pos
<1>1. place \in Place /\ place.pos <= place.pos
  BY DEF Right, Place
<1>2. CASE a = place
  BY <1>1, <1>2
<1>3. ASSUME NEW e \in NodeEnds PROVE e \in Right(text) /\ e \in Place /\ e.pos \in Nat /\ e.pos <= Len(text)
  <2>1. e \in Right(text)
    BY NodeEndsAreRight
  <2> QED BY <2>1 DEF Right, Place
<1>4. ASSUME NEW e \in NodeEnds, a = SkipToByte(e.pos) PROVE a \in Right(text) /\ place.pos <= a.pos
  BY <1>3, <1>4, SkipToByteIs
<1>5. ASSUME NEW e \in NodeEnds, a = SkipToByteWithPoint(e) PROVE a \in Right(text) /\ place.pos <= a.pos
  <2> DEFINE target == [e EXCEPT !.pos = IF e.pos > Len(text) THEN Len(text) ELSE e.pos]
  <2>1. target = e
    <3>1. ~ e.pos > Len(text)
      BY <1>3 DEF Bytes
    <3>2. target = [e EXCEPT !.pos = e.pos]
      BY <3>1
    <3> HIDE DEF target
    <3> QED BY <1>3, <3>2 DEF Place
  <2>2. SkipToByteWithPoint(e) = IF target.pos >= place.pos THEN target ELSE place
    BY DEF SkipToByteWithPoint
  <2> HIDE DEF target
  <2>3. (a = e /\ e.pos >= place.pos) \/ a = place
    BY <1>5, <2>1, <2>2
  <2> QED BY <1>1, <1>3, <2>3 DEF Place
<1> QED BY <1>2, <1>4, <1>5 DEF Skipped

-----------------------------------------------------------------------------
(* The invariant.                                                          *)

\* What is asked of the scanners: they move their lexer with its own calls,
\* from where it was put, and answer with a symbol; and they keep to their
\* states.
Scanned(t, at, m) ==
    /\ m.lexer.begin \in Right(t) /\ m.lexer.end \in Right(t)
    /\ at.pos <= m.lexer.begin.pos /\ m.lexer.result \subseteq STRING

UsesItsLexer(l, scanner) ==
    /\ ScannerState(scanner, CreateScanner(scanner))
    /\ \A t \in Texts(l) : \A at \in Right(t) : \A s, valid :
          ScannerState(scanner, s) =>
              LET m == RunScanner(scanner, t, NewExternalLexer(at), s, valid)
              IN  m.outcome # "stopped" =>
                      /\ ScannerState(scanner, m.state)
                      /\ m.outcome = "emitted" => Scanned(t, at, m)
ScannersUseTheirLexer == \A l \in Languages : \A scanner \in l.scanner : UsesItsLexer(l, scanner)

\* An answer: a token of the text behind where it was asked for.
IsAnswer(l, t, k) ==
    /\ k.kind \in {"lexed", "synthetic", "scanned"} /\ k.at \in Right(t)
    /\ k.token \in IF k.kind = "synthetic" THEN MadeUp(t, k.at) ELSE Reads(Right(t), k.at)

Answers(l, t) ==
    {k \in [kind : {"lexed", "synthetic", "scanned"}, state : DOMAIN l.expected,
            at : Right(t), token : Spans] : IsAnswer(l, t, k)}

\* The scanner is there until it is closed, in a state of its own.
Kept ==
    /\ language.scanner = {} => payload = {}
    /\ language.scanner # {} => \A s \in payload : ScannerState(Scanner, s)
    /\ \A s, u \in payload : s = u

\* The lexer is behind the last token, unless that was made up.
Ahead ==
    tokens # << >> /\ tokens[Len(tokens)].kind # "synthetic" =>
        tokens[Len(tokens)].token.to.pos <= place.pos

IInv ==
    /\ language \in Languages /\ text \in Texts(language)
    /\ place \in Right(text) /\ state \in DOMAIN language.expected
    /\ externalValid \subseteq Externals /\ Kept
    /\ tokens \in Seq(Answers(language, text)) /\ Len(tokens) <= MaxCalls(language)
    /\ Ahead /\ TokensGoOn

LEMMA OfLanguages ==
    ASSUME language \in Languages, text \in Texts(language)
    PROVE  /\ text \in Bytes /\ IsLanguage(language) /\ MaxCalls(language) \in Nat
           /\ language.scanner # {} => Scanner \in language.scanner
BY LanguagesAreTables DEF Bytes, Scanner

LEMMA ReadsAreSpans ==
    ASSUME NEW t, NEW a, NEW x \in Reads(Right(t), a)
    PROVE  x \in Spans
BY DEF Reads, Spans, Right

\* The external token that a call finds.
LEMMA ExternalIs ==
    ASSUME ScannersUseTheirLexer, IInv, Open, NEW a \in Right(text), NEW valid,
           NextExternalToken(state, a, valid).returns,
           NEW x \in NextExternalToken(state, a, valid).found
    PROVE  /\ language.scanner = {} => x \in MadeUp(text, a)
           /\ language.scanner # {} => x \in Reads(Right(text), a)
<1>1. text \in Bytes /\ IsLanguage(language)
  BY OfLanguages DEF IInv
<1>2. Externals \cap language.expected[state] # {}
  BY DEF NextExternalToken
<1>3. CASE language.scanner = {}
  <2>1. NextExternalToken(state, a, valid).found = SyntheticExternalToken(a, valid)
    BY <1>2, <1>3 DEF NextExternalToken
  <2> QED BY <1>1, <1>3, <2>1, SyntheticIs
<1>4. CASE language.scanner # {}
  <2> DEFINE kept == CHOOSE p \in payload : TRUE
             m == RunScanner(Scanner, text, NewExternalLexer(a), kept, valid)
  <2>1. NextExternalToken(state, a, valid)
          = [found |-> IF m.outcome = "emitted" THEN ExternalToken(m.lexer) ELSE {},
             payload |-> {m.state}, returns |-> m.outcome # "stopped"]
    BY <1>2, <1>4 DEF NextExternalToken, ScannerAnswer, RunExternalScanner
  <2>2. Scanner \in language.scanner /\ ScannerState(Scanner, kept)
    BY <1>4, OfLanguages DEF IInv, Kept, Open
  <2> HIDE DEF kept
  <2>3. m.outcome # "stopped" => (m.outcome = "emitted" => Scanned(text, a, m))
    BY <2>2 DEF ScannersUseTheirLexer, UsesItsLexer, IInv
  <2> HIDE DEF m
  <2>4. m.outcome = "emitted" /\ m.outcome # "stopped" /\ x \in ExternalToken(m.lexer)
    BY <2>1
  <2>5. PICK s \in m.lexer.result : x = Token(s, m.lexer.begin, m.lexer.end)
                                    /\ m.lexer.end.pos >= m.lexer.begin.pos
    BY <2>4 DEF ExternalToken
  <2>6. Scanned(text, a, m)
    BY <2>3, <2>4
  <2>7. s \in STRING /\ m.lexer.begin \in Right(text) /\ m.lexer.end \in Right(text)
        /\ a.pos <= m.lexer.begin.pos
    BY <2>5, <2>6 DEF Scanned
  <2>8. m.lexer.begin.pos \in Nat /\ m.lexer.end.pos \in Nat
    BY <2>7 DEF Right, Place
  <2>9. x \in Reads(Right(text), a)
    BY <2>5, <2>7, <2>8 DEF Token, Reads
  <2> QED BY <1>4, <2>9
<1> QED BY <1>3, <1>4

\* The state that the scanner keeps behind a call.
LEMMA PayloadIs ==
    ASSUME ScannersUseTheirLexer, IInv, Open, NEW a \in Right(text), NEW valid,
           NextExternalToken(state, a, valid).returns
    PROVE  LET kept == NextExternalToken(state, a, valid).payload
           IN  /\ language.scanner = {} => kept = {}
               /\ language.scanner # {} => \A s \in kept : ScannerState(Scanner, s)
               /\ \A s, u \in kept : s = u
<1> DEFINE answer == NextExternalToken(state, a, valid)
<1>1. CASE language.scanner = {} \/ Externals \cap language.expected[state] = {}
  <2>1. answer.payload = payload
    BY <1>1 DEF NextExternalToken
  <2> HIDE DEF answer
  <2> QED BY <2>1 DEF IInv, Kept, answer
<1>2. CASE language.scanner # {} /\ Externals \cap language.expected[state] # {}
  <2> DEFINE kept == CHOOSE p \in payload : TRUE
             m == RunScanner(Scanner, text, NewExternalLexer(a), kept, valid)
  <2>1. answer
          = [found |-> IF m.outcome = "emitted" THEN ExternalToken(m.lexer) ELSE {},
             payload |-> {m.state}, returns |-> m.outcome # "stopped"]
    BY <1>2 DEF NextExternalToken, ScannerAnswer, RunExternalScanner
  <2>2. Scanner \in language.scanner /\ ScannerState(Scanner, kept)
    BY <1>2, OfLanguages DEF IInv, Kept, Open
  <2> HIDE DEF kept
  <2>3. m.outcome # "stopped" => ScannerState(Scanner, m.state)
    BY <2>2 DEF ScannersUseTheirLexer, UsesItsLexer, IInv
  <2> HIDE DEF m
  <2>4. answer.returns
    OBVIOUS
  <2> HIDE DEF answer
  <2>5. answer.returns = (m.outcome # "stopped") /\ answer.payload = {m.state}
    BY <2>1
  <2> QED BY <1>2, <2>3, <2>4, <2>5 DEF answer
<1> QED BY <1>1, <1>2

LEMMA Begins ==
    ASSUME ScannersUseTheirLexer, Init
    PROVE  IInv
<1>1. language \in Languages /\ text \in Texts(language) /\ state \in DOMAIN language.expected
  BY DEF Init
<1>2. text \in Bytes /\ MaxCalls(language) \in Nat
      /\ (language.scanner # {} => Scanner \in language.scanner)
  BY <1>1, OfLanguages
<1>3. place \in Right(text)
  BY <1>2, NothingRead DEF Init
<1>4. externalValid \subseteq Externals /\ tokens = << >>
  BY DEF Init
<1>5. Kept
  <2>1. CASE language.scanner = {}
    BY <2>1 DEF Init, Kept
  <2>2. CASE language.scanner # {}
    <3>1. payload = {CreateScanner(Scanner)}
      BY <2>2 DEF Init
    <3>2. ScannerState(Scanner, CreateScanner(Scanner))
      BY <1>1, <1>2, <2>2 DEF ScannersUseTheirLexer, UsesItsLexer
    <3> QED BY <2>2, <3>1, <3>2 DEF Kept
  <2> QED BY <2>1, <2>2
<1>6. tokens \in Seq(Answers(language, text)) /\ Len(tokens) <= MaxCalls(language)
  BY <1>2, <1>4
<1>7. Ahead /\ TokensGoOn
  BY <1>4 DEF Ahead, TokensGoOn
<1> QED BY <1>1, <1>3, <1>4, <1>5, <1>6, <1>7 DEF IInv

\* A call of Next that returns: what it changes.
LEMMA AnswerIs ==
    ASSUME ScannersUseTheirLexer, IInv, Open, NEW at \in Right(text), place.pos <= at.pos,
           Answer(at), UNCHANGED state
    PROVE  \E k \in Answers(language, text) :
              /\ tokens' = Append(tokens, k) /\ k.at = at
              /\ place' = IF k.kind = "synthetic" THEN at ELSE k.token.to
              /\ externalValid' \subseteq Externals /\ Kept'
<1> DEFINE valid == IF Externals = {} THEN externalValid ELSE FillValid(state)
           external == NextExternalToken(state, at, valid)
           kind == IF external.found = {} THEN "lexed"
                   ELSE IF language.scanner = {} THEN "synthetic" ELSE "scanned"
           lexed == PromoteKeyword(NextToken(language.states, text, LexState(state), at))
           Made(token) == [kind |-> kind, state |-> state, at |-> at, token |-> token]
<1>1. externalValid' = valid /\ language' = language /\ text' = text
  BY DEF Answer
<1>2. external.returns
  <2>1. \E x \in {y \in {NextExternalToken(state, at, externalValid')} : y.returns} : TRUE
    BY DEF Answer
  <2> HIDE DEF valid
  <2> QED BY <1>1, <2>1
<1>3. PICK token \in IF external.found # {} THEN external.found ELSE {lexed} :
         payload' = external.payload /\ place' = LexerAfter(kind, token, at)
         /\ tokens' = Append(tokens, Made(token))
  <2>1. \E x \in {y \in {NextExternalToken(state, at, valid)} : y.returns} :
          LET k == IF x.found = {} THEN "lexed"
                   ELSE IF language.scanner = {} THEN "synthetic" ELSE "scanned"
          IN \E token \in IF x.found # {} THEN x.found ELSE {lexed} :
                 /\ payload' = x.payload
                 /\ place'   = LexerAfter(k, token, at)
                 /\ tokens'  = Append(tokens, [kind |-> k, state |-> state,
                                               at |-> at, token |-> token])
    <3> HIDE DEF valid, lexed
    <3> QED BY <1>1 DEF Answer, lexed
  <2> HIDE DEF valid, lexed
  <2> QED BY <2>1
<1>4. text \in Bytes /\ IsLanguage(language) /\ at \in Place
  BY OfLanguages DEF IInv, Right
<1>5. valid \subseteq Externals
  BY DEF IInv, FillValid
<1> HIDE DEF valid
<1>6. Kept'
  <2>1. /\ language.scanner = {} => external.payload = {}
        /\ language.scanner # {} => \A s \in external.payload : ScannerState(Scanner, s)
        /\ \A s, u \in external.payload : s = u
    <3> QED BY <1>2, PayloadIs
  <2>2. Scanner' = Scanner
    BY <1>1 DEF Scanner
  <2> HIDE DEF external
  <2> QED BY <1>1, <1>3, <2>1, <2>2 DEF Kept
<1> DEFINE k == Made(token)
<1>7. k \in Answers(language, text) /\ (k.kind = "synthetic" <=> kind = "synthetic")
  <2>1. kind \in {"lexed", "synthetic", "scanned"}
    OBVIOUS
  <2>2. k.kind = kind /\ k.state = state /\ k.at = at /\ k.token = token
    <3> HIDE DEF kind
    <3> QED OBVIOUS
  <2>3. CASE external.found = {}
    <3>1. token = lexed /\ kind = "lexed"
      <4> HIDE DEF external, lexed
      <4> QED BY <1>3, <2>3
    <3>2. token \in Reads(Right(text), at)
      <4> QED BY <1>4, <3>1, LexedIs
    <3> QED
      <4> HIDE DEF k, lexed, external, kind
      <4>1. token \in Spans /\ state \in DOMAIN language.expected
        BY <3>2, ReadsAreSpans DEF IInv
      <4>2. k \in [kind : {"lexed", "synthetic", "scanned"}, state : DOMAIN language.expected,
                   at : Right(text), token : Spans]
        BY <2>1, <4>1 DEF k
      <4> QED BY <2>2, <3>1, <3>2, <4>2 DEF Answers, IsAnswer
  <2>4. CASE external.found # {} /\ language.scanner = {}
    <3>1. token \in external.found /\ kind = "synthetic"
      <4> HIDE DEF external, lexed
      <4> QED BY <1>3, <2>4
    <3>2. token \in MadeUp(text, at)
      <4> HIDE DEF lexed, kind
      <4> QED BY <1>2, <2>4, <3>1, ExternalIs
    <3> QED
      <4> HIDE DEF k, lexed, external, kind
      <4>1. token \in Spans /\ state \in DOMAIN language.expected
        BY <1>4, <3>2 DEF MadeUp, Spans, Reached, IInv
      <4>2. k \in [kind : {"lexed", "synthetic", "scanned"}, state : DOMAIN language.expected,
                   at : Right(text), token : Spans]
        BY <2>1, <4>1 DEF k
      <4> QED BY <2>2, <3>1, <3>2, <4>2 DEF Answers, IsAnswer
  <2>5. CASE external.found # {} /\ language.scanner # {}
    <3>1. token \in external.found /\ kind = "scanned"
      <4> HIDE DEF external, lexed
      <4> QED BY <1>3, <2>5
    <3>2. token \in Reads(Right(text), at)
      <4> HIDE DEF lexed, kind
      <4> QED BY <1>2, <2>5, <3>1, ExternalIs
    <3> QED
      <4> HIDE DEF k, lexed, external, kind
      <4>1. token \in Spans /\ state \in DOMAIN language.expected
        BY <3>2, ReadsAreSpans DEF IInv
      <4>2. k \in [kind : {"lexed", "synthetic", "scanned"}, state : DOMAIN language.expected,
                   at : Right(text), token : Spans]
        BY <2>1, <4>1 DEF k
      <4> QED BY <2>2, <3>1, <3>2, <4>2 DEF Answers, IsAnswer
  <2> QED BY <2>3, <2>4, <2>5
<1>8. place' = (IF k.kind = "synthetic" THEN at ELSE k.token.to) /\ k.at = at
  <2>1. k.token = token /\ k.at = at
    <3> HIDE DEF kind
    <3> QED OBVIOUS
  <2> HIDE DEF k, kind
  <2> QED BY <1>3, <1>7, <2>1 DEF LexerAfter
<1> HIDE DEF k
<1> QED BY <1>1, <1>3, <1>5, <1>6, <1>7, <1>8 DEF k

\* The answer goes on from the ones before it.
LEMMA AnswerGoesOn ==
    ASSUME IInv, Open, NEW at \in Right(text), place.pos <= at.pos,
           UNCHANGED << language, text, state >>,
           NEW k \in Answers(language, text), k.at = at, tokens' = Append(tokens, k),
           place' = IF k.kind = "synthetic" THEN at ELSE k.token.to,
           externalValid' \subseteq Externals, Kept'
    PROVE  IInv'
<1> DEFINE S == Answers(language, text)
           n == Len(tokens)
<1>1. tokens \in Seq(S) /\ n \in Nat /\ MaxCalls(language) \in Nat
  BY OfLanguages DEF IInv
<1>2. k \in S
  OBVIOUS
<1>3. /\ tokens' \in Seq(S) /\ Len(tokens') = n + 1 /\ tokens' # << >>
      /\ \A i \in 1 .. n : tokens'[i] = tokens[i]
      /\ tokens'[n + 1] = k
  <2> HIDE DEF S
  <2> QED BY <1>1, <1>2, AppendProperties
<1>4. Len(tokens') <= MaxCalls(language)
  BY <1>1, <1>3 DEF Open
<1>5. /\ k.token.from \in Place /\ k.token.to \in Place /\ at \in Place /\ place \in Place
      /\ k.token.from.pos \in Nat /\ at.pos \in Nat /\ place.pos \in Nat
      /\ k.kind # "synthetic" => k.token \in Reads(Right(text), at)
      /\ k.kind = "synthetic" => k.token \in MadeUp(text, at)
  BY DEF Answers, IsAnswer, Spans, Right, Place, IInv
<1>6. at.pos <= k.token.from.pos
  <2>1. CASE k.kind = "synthetic"
    <3>1. k.token.from = at
      BY <1>5, <2>1 DEF MadeUp
    <3> QED BY <1>5, <3>1
  <2>2. CASE k.kind # "synthetic"
    BY <1>5, <2>2 DEF Reads
  <2> QED BY <2>1, <2>2
<1>7. place' \in Right(text)
  <2>1. CASE k.kind = "synthetic"
    BY <2>1
  <2>2. CASE k.kind # "synthetic"
    BY <1>5, <2>2 DEF Reads
  <2> QED BY <2>1, <2>2
<1>8. Ahead'
  <2>1. k.kind # "synthetic" => place' = k.token.to /\ k.token.to.pos \in Nat
    BY <1>5 DEF Place
  <2>2. Len(tokens') = n + 1 /\ tokens'[n + 1] = k
    BY <1>3
  <2>3. tokens'[Len(tokens')] = k
    BY <2>2
  <2> QED BY <2>1, <2>3 DEF Ahead
<1>9. TokensGoOn'
  <2> SUFFICES ASSUME NEW i \in 2 .. n + 1, tokens'[i - 1].kind # "synthetic"
               PROVE  tokens'[i].token.from.pos >= tokens'[i - 1].token.to.pos
    BY <1>3 DEF TokensGoOn
  <2> DEFINE j == i - 1
  <2>1. i \in Nat /\ j \in 1 .. n /\ tokens'[j] = tokens[j]
    BY <1>1, <1>3
  <2>2. CASE i \in 2 .. n
    <3>1. tokens'[i] = tokens[i]
      BY <1>1, <1>3, <2>2
    <3>2. tokens[j].kind # "synthetic" => tokens[i].token.from.pos >= tokens[j].token.to.pos
      BY <1>1, <2>2 DEF IInv, TokensGoOn
    <3> QED BY <2>1, <3>1, <3>2
  <2>3. CASE i = n + 1
    <3>1. j = n /\ tokens'[i] = k /\ tokens # << >>
      BY <1>1, <1>3, <2>1, <2>3
    <3>2. tokens[n].token.to.pos <= place.pos /\ tokens[n] \in S
      <4>1. tokens[n].kind # "synthetic"
        BY <2>1, <3>1
      <4>2. n \in 1 .. n
        BY <2>1, <3>1
      <4> QED BY <1>1, <3>1, <4>1, <4>2 DEF IInv, Ahead
    <3>3. tokens[n].token.to.pos \in Nat
      BY <3>2 DEF Answers, Spans, Place
    <3>4. tokens'[j] = tokens[n] /\ tokens'[i].token.from.pos = k.token.from.pos
      BY <2>1, <3>1
    <3> HIDE DEF n, j, S
    <3>5. k.token.from.pos >= tokens[n].token.to.pos
      BY <1>5, <1>6, <3>2, <3>3
    <3> QED BY <3>4, <3>5 DEF j
  <2> QED BY <1>1, <2>2, <2>3
<1>10. Externals' = Externals
  BY DEF Externals
<1> QED BY <1>3, <1>4, <1>7, <1>8, <1>9, <1>10 DEF IInv

\* The lexer is moved to places between runes, and not back.
LEMMA MovesAreRight ==
    ASSUME IInv
    PROVE  \A at \in {place} \cup Skipped : at \in Right(text) /\ place.pos <= at.pos
<1>1. tokens # << >> => tokens[Len(tokens)].token.from \in Place
  <2>1. tokens # << >> => Len(tokens) \in 1 .. Len(tokens)
    BY DEF IInv
  <2>2. tokens # << >> => tokens[Len(tokens)] \in Answers(language, text)
    BY <2>1 DEF IInv
  <2> QED BY <2>2 DEF Answers, Spans
<1> QED BY <1>1, OfLanguages, SkippedIs DEF IInv

LEMMA Goes ==
    ASSUME ScannersUseTheirLexer, IInv, [Calls]_vars
    PROVE  IInv'
<1>1. ASSUME NEW s \in DOMAIN language.expected, SetState(s) PROVE IInv'
  BY <1>1 DEF SetState, IInv, Kept, Ahead, TokensGoOn, Externals, Scanner
<1>2. CASE Next
  <2>1. PICK at \in {place} \cup Skipped : Answer(at)
    BY <1>2 DEF Next
  <2>2. Open /\ UNCHANGED << language, text, state >>
    BY <1>2, <2>1 DEF Next, Answer
  <2>4. at \in Right(text) /\ place.pos <= at.pos
    BY MovesAreRight
  <2>5. PICK k \in Answers(language, text) :
           /\ tokens' = Append(tokens, k) /\ k.at = at
           /\ place' = IF k.kind = "synthetic" THEN at ELSE k.token.to
           /\ externalValid' \subseteq Externals /\ Kept'
    BY <2>1, <2>2, <2>4, AnswerIs
  <2> QED BY <2>2, <2>4, <2>5, AnswerGoesOn
<1>3. CASE Close
  BY <1>3 DEF Close, IInv, Kept, Ahead, TokensGoOn, Externals, Scanner
<1>4. CASE UNCHANGED vars
  BY <1>4 DEF vars, IInv, Kept, Ahead, TokensGoOn, Externals, Scanner
<1> QED BY <1>1, <1>2, <1>3, <1>4 DEF Calls

\* What the invariant says of the types and the places.
LEMMA TypesHold ==
    ASSUME IInv
    PROVE  TypeOK
<1>1. IsLanguage(language)
  BY OfLanguages DEF IInv
<1>2. place \in Place /\ place.pos <= Len(text)
  BY DEF IInv, Right
<1>3. ASSUME NEW i \in DOMAIN tokens
      PROVE  /\ tokens[i].kind \in {"lexed", "synthetic", "scanned"}
             /\ IsToken(tokens[i].token) /\ tokens[i].at \in Place
  <2>1. tokens[i] \in Answers(language, text)
    BY DEF IInv
  <2> QED BY <2>1 DEF Answers, Spans, IsToken, Right
<1>4. Cardinality(payload) <= Cardinality(language.scanner)
  <2>1. CASE payload = {}
    <3>1. Cardinality(payload) = 0
      BY <2>1, FS_EmptySet
    <3>2. Cardinality(language.scanner) \in Nat
      <4>1. CASE language.scanner = {}
        BY <4>1, FS_EmptySet
      <4>2. CASE language.scanner # {}
        <5>1. PICK scanner : language.scanner = {scanner}
          BY <1>1, <4>2 DEF IsLanguage
        <5>2. Cardinality(language.scanner) = 1
          BY <5>1, FS_Singleton
        <5> QED BY <5>2
      <4> QED BY <4>1, <4>2
    <3> QED BY <3>1, <3>2
  <2>2. CASE payload # {}
    <3>1. PICK s : payload = {s}
      BY <2>2 DEF IInv, Kept
    <3>2. PICK scanner : language.scanner = {scanner}
      BY <1>1, <2>2 DEF IInv, Kept, IsLanguage
    <3>3. Cardinality(payload) = 1 /\ Cardinality(language.scanner) = 1
      BY <3>1, <3>2, FS_Singleton
    <3> QED BY <3>3
  <2> QED BY <2>1, <2>2
<1>5. \A s \in payload : ScannerState(Scanner, s)
  BY DEF IInv, Kept
<1> QED BY <1>2, <1>3, <1>4, <1>5 DEF IInv, TypeOK

LEMMA PlacesHold ==
    ASSUME IInv
    PROVE  PositionsAgree
<1> SUFFICES ASSUME NEW i \in DOMAIN tokens
             PROVE  LET k == tokens[i]
                    IN  /\ k.token.from = PlaceOf(k.token.from.pos)
                        /\ k.token.to = PlaceOf(k.token.to.pos) \/ LoneReturn(k)
  BY DEF PositionsAgree
<1> DEFINE k == tokens[i]
<1>1. k \in Answers(language, text)
  BY DEF IInv
<1> HIDE DEF k
<1>2. CASE k.kind = "synthetic"
  <2>1. k.token \in MadeUp(text, k.at) /\ k.at \in Right(text)
    BY <1>1, <1>2 DEF Answers, IsAnswer
  <2>2. k.token.from = PlaceOf(k.token.from.pos)
    BY <2>1 DEF MadeUp, Right, PlaceOf
  <2>3. k.token.to \in Right(text) \/ \E p \in k.at.pos + 1 .. k.token.to.pos : Lone(text, p)
    BY <2>1 DEF MadeUp, Reached
  <2> QED BY <1>2, <2>2, <2>3 DEF Lone, LoneReturn, Right, PlaceOf, k
<1>3. CASE k.kind # "synthetic"
  <2>1. k.token \in Reads(Right(text), k.at)
    BY <1>1, <1>3 DEF Answers, IsAnswer
  <2> QED BY <2>1 DEF Reads, Right, PlaceOf, k
<1> QED BY <1>2, <1>3

-----------------------------------------------------------------------------
(* Scanners that are programs of the machine use their lexer.              *)

Lexers(Q)   == [begin : Q, at : Q, end : Q, result : SUBSET STRING]
Machines(Q) == [pc : Nat, steps : Nat, state : Nat, outcome : STRING, lexer : Lexers(Q)]

\* A program that was validated, with the operands that its instructions read.
IsScannerProgram(program) ==
    /\ IsProgram(program) /\ program.maxSteps \in Nat
    /\ Len(program.code) \in Nat /\ DOMAIN program.code = 1 .. Len(program.code)
    /\ \A i \in DOMAIN program.code :
          LET ins == program.code[i]
          IN  /\ ins.op = "setState" => ins.arg \in Nat
              /\ ins.op = "emit" => ins.arg \in STRING

LEMMA LexerIs ==
    ASSUME NEW Q, NEW x
    PROVE  x \in Lexers(Q) <=>
             /\ x = [begin |-> x.begin, at |-> x.at, end |-> x.end, result |-> x.result]
             /\ x.begin \in Q /\ x.at \in Q /\ x.end \in Q /\ x.result \in SUBSET STRING
BY DEF Lexers

LEMMA AdvanceIs ==
    ASSUME NEW t \in Bytes, NEW Q, OnRunes(t, Q), NEW x \in Lexers(Q), NEW skip
    PROVE  Advance(t, x, skip) \in Lexers(Q)
<1> DEFINE past == OneRune(t, x.at)
<1>1. CASE AtEnd(t, x.at.pos)
  BY <1>1 DEF Advance
<1>2. CASE ~ AtEnd(t, x.at.pos)
  <2>1. x.at \in Q /\ x.at \in Place
    BY DEF Lexers, OnRunes
  <2>2. past \in Q
    BY <1>2, <2>1, BeforeTheEnd DEF OnRunes
  <2>3. Advance(t, x, skip) = IF skip THEN [x EXCEPT !.at = past, !.begin = past, !.end = past]
                              ELSE [x EXCEPT !.at = past]
    BY <1>2 DEF Advance, AdvancedTo
  <2> HIDE DEF past
  <2>4. [x EXCEPT !.at = past] \in Lexers(Q)
    BY <2>2 DEF Lexers
  <2>5. [x EXCEPT !.at = past, !.begin = past, !.end = past] \in Lexers(Q)
    <3>1. [begin |-> past, at |-> past, end |-> past, result |-> x.result] \in Lexers(Q)
      BY <2>2 DEF Lexers
    <3> DEFINE y == [x EXCEPT !.at = past, !.begin = past, !.end = past]
    <3>2. y = [x EXCEPT !.at = past, !.begin = past, !.end = past]
      OBVIOUS
    <3> HIDE DEF y
    <3>3. y = [begin |-> past, at |-> past, end |-> past, result |-> x.result]
      BY <3>2 DEF Lexers
    <3> QED BY <3>1, <3>3 DEF y
  <2> QED BY <2>3, <2>4, <2>5
<1> QED BY <1>1, <1>2

LEMMA MachineIs ==
    ASSUME NEW Q, NEW pc \in Nat, NEW steps \in Nat, NEW s \in Nat, NEW outcome \in STRING,
           NEW x \in Lexers(Q), NEW d,
           d = [pc |-> pc, steps |-> steps, state |-> s, outcome |-> outcome, lexer |-> x]
    PROVE  d \in Machines(Q) /\ d.outcome = outcome /\ d.steps = steps /\ d.lexer = x
BY DEF Machines

\* One instruction: the machine goes on, one step further, or is done.
Executed(Q, m, d) ==
    /\ d \in Machines(Q)
    /\ \/ d.outcome = "running" /\ d.steps = m.steps + 1
       \/ d.outcome \in {"failed", "emitted"}

LEMMA ExecuteIs ==
    ASSUME NEW program, IsScannerProgram(program), NEW t \in Bytes, NEW Q, OnRunes(t, Q),
           NEW m \in Machines(Q), m.outcome = "running", m.pc < Len(program.code), NEW valid
    PROVE  Executed(Q, m, Execute(program.code[m.pc + 1], t, m, valid))
<1> DEFINE i == m.pc + 1
           ins == program.code[i]
           next == [m EXCEPT !.pc = m.pc + 1, !.steps = m.steps + 1]
           d == Execute(ins, t, m, valid)
<1>1. /\ m = [pc |-> m.pc, steps |-> m.steps, state |-> m.state,
              outcome |-> m.outcome, lexer |-> m.lexer]
      /\ m.pc \in Nat /\ m.steps \in Nat /\ m.state \in Nat /\ m.lexer \in Lexers(Q)
  BY DEF Machines
<1>2. i \in DOMAIN program.code /\ Len(program.code) \in Nat
  BY <1>1 DEF IsScannerProgram
<1>3. /\ ins.op \in Ops
      /\ ins.op = "jump" => ins.arg \in Nat
      /\ ins.op \in Tests => ins.alt \in Nat
      /\ ins.op = "setState" => ins.arg \in Nat
      /\ ins.op = "emit" => ins.arg \in STRING
  <2> HIDE DEF i
  <2> QED BY <1>2 DEF IsScannerProgram, IsProgram
<1>4. next = [pc |-> m.pc + 1, steps |-> m.steps + 1, state |-> m.state,
              outcome |-> m.outcome, lexer |-> m.lexer]
  <2> DEFINE p == m.pc + 1  q == m.steps + 1
  <2>1. next = [m EXCEPT !.pc = p, !.steps = q]
    OBVIOUS
  <2> HIDE DEF next, p, q
  <2>2. next = [pc |-> p, steps |-> q, state |-> m.state, outcome |-> m.outcome, lexer |-> m.lexer]
    BY <2>1 DEF Machines
  <2> QED BY <2>2 DEF p, q
<1>5. /\ ins.op = "fail" => d = [m EXCEPT !.outcome = "failed"]
      /\ ins.op = "jump" => d = [next EXCEPT !.pc = ins.arg]
      /\ ins.op \in Tests => d = next \/ d = [next EXCEPT !.pc = ins.alt]
      /\ ins.op = "setState" => d = [next EXCEPT !.state = ins.arg]
  <2> HIDE DEF ins, i
  <2> QED BY DEF Execute, Tests
<1>6. /\ ins.op = "advance" => d = [next EXCEPT !.lexer = Advance(t, next.lexer, ins.arg)]
      /\ ins.op = "markEnd" => d = [next EXCEPT !.lexer = MarkEnd(next.lexer)]
      /\ ins.op = "emit" => d = [m EXCEPT !.lexer = SetResultSymbol(m.lexer, ins.arg), !.outcome = "emitted"]
  <2> HIDE DEF ins, i
  <2> QED BY DEF Execute, Tests
<1> HIDE DEF d, next, ins, i
<1>7. next \in Machines(Q) /\ next.outcome = "running" /\ next.steps = m.steps + 1
      /\ next.lexer = m.lexer /\ next.pc = m.pc + 1 /\ next.state = m.state
      /\ next.outcome \in STRING /\ next.steps \in Nat /\ next.pc \in Nat
  <2>1. next \in Machines(Q)
    BY <1>1, <1>4 DEF Machines
  <2> QED BY <1>1, <1>4, <2>1, LiteralsAreStrings
<1>8. ASSUME ins.op = "fail" PROVE Executed(Q, m, d)
  <2>1. d = [pc |-> m.pc, steps |-> m.steps, state |-> m.state, outcome |-> "failed", lexer |-> m.lexer]
    BY <1>1, <1>5, <1>8
  <2> QED BY <1>1, <2>1, LiteralsAreStrings, MachineIs DEF Executed
<1>9. ASSUME NEW to \in Nat, d = [next EXCEPT !.pc = to] PROVE Executed(Q, m, d)
  <2>1. d = [pc |-> to, steps |-> next.steps, state |-> next.state, outcome |-> next.outcome,
             lexer |-> next.lexer]
    BY <1>7, <1>9 DEF Machines
  <2>2. d \in Machines(Q) /\ d.outcome = next.outcome /\ d.steps = next.steps
    BY <1>1, <1>7, <2>1, MachineIs
  <2> QED BY <1>7, <2>2 DEF Executed
<1>10. ASSUME ins.op \in {"jump"} \cup Tests PROVE Executed(Q, m, d)
  <2>1. ASSUME d = next PROVE Executed(Q, m, d)
    BY <1>7, <2>1 DEF Executed
  <2> QED BY <1>3, <1>5, <1>9, <1>10, <2>1
<1>11. ASSUME ins.op = "setState" PROVE Executed(Q, m, d)
  <2>1. d = [pc |-> next.pc, steps |-> next.steps, state |-> ins.arg, outcome |-> next.outcome,
             lexer |-> next.lexer]
    BY <1>5, <1>7, <1>11 DEF Machines
  <2>2. d \in Machines(Q) /\ d.outcome = next.outcome /\ d.steps = next.steps
    BY <1>1, <1>3, <1>7, <1>11, <2>1, MachineIs
  <2> QED BY <1>7, <2>2 DEF Executed
<1>12. ASSUME ins.op \in {"advance", "markEnd"} PROVE Executed(Q, m, d)
  <2>1. Advance(t, m.lexer, ins.arg) \in Lexers(Q) /\ MarkEnd(m.lexer) \in Lexers(Q)
    BY <1>1, AdvanceIs DEF MarkEnd, Lexers
  <2>2. PICK x \in Lexers(Q) : d = [next EXCEPT !.lexer = x]
    BY <1>6, <1>7, <1>12, <2>1
  <2>3. d = [pc |-> next.pc, steps |-> next.steps, state |-> next.state, outcome |-> next.outcome,
             lexer |-> x]
    BY <1>7, <2>2 DEF Machines
  <2>4. d \in Machines(Q) /\ d.outcome = next.outcome /\ d.steps = next.steps
    BY <1>1, <1>7, <2>3, MachineIs
  <2> QED BY <1>7, <2>4 DEF Executed
<1>13. ASSUME ins.op = "emit" PROVE Executed(Q, m, d)
  <2>1. SetResultSymbol(m.lexer, ins.arg) \in Lexers(Q)
    BY <1>1, <1>3, <1>13 DEF SetResultSymbol, Lexers
  <2>2. PICK x \in Lexers(Q) : d = [m EXCEPT !.lexer = x, !.outcome = "emitted"]
    BY <1>6, <1>13, <2>1
  <2>3. d = [pc |-> m.pc, steps |-> m.steps, state |-> m.state, outcome |-> "emitted", lexer |-> x]
    BY <1>1, <2>2
  <2> QED BY <1>1, <2>3, LiteralsAreStrings, MachineIs DEF Executed
<1> QED BY <1>3, <1>8, <1>10, <1>11, <1>12, <1>13 DEF Ops, Tests, d, i, ins

LEMMA RunVMIs ==
    ASSUME NEW program, IsScannerProgram(program), NEW t \in Bytes, NEW Q, OnRunes(t, Q),
           NEW m \in Machines(Q), m.outcome = "running", NEW valid
    PROVE  LET d == RunVM(program, t, m, valid)
           IN  Executed(Q, m, d) /\ (d.outcome = "running" => m.steps < MaxSteps(program))
<1> DEFINE d == RunVM(program, t, m, valid)
<1>1. /\ m.pc \in Nat /\ m.steps \in Nat /\ m.state \in Nat /\ m.lexer \in Lexers(Q)
      /\ m = [pc |-> m.pc, steps |-> m.steps, state |-> m.state,
              outcome |-> m.outcome, lexer |-> m.lexer]
  BY DEF Machines
<1>2. Len(program.code) \in Nat /\ MaxSteps(program) \in Nat
  BY DEF IsScannerProgram, MaxSteps, DefaultMaxSteps
<1>3. CASE m.steps >= MaxSteps(program) \/ m.pc >= Len(program.code)
  <2>1. d = [m EXCEPT !.outcome = "failed"]
    BY <1>3 DEF RunVM
  <2> HIDE DEF d
  <2>2. d = [pc |-> m.pc, steps |-> m.steps, state |-> m.state, outcome |-> "failed", lexer |-> m.lexer]
    BY <1>1, <2>1
  <2>3. d \in Machines(Q) /\ d.outcome = "failed"
    BY <1>1, <2>2, LiteralsAreStrings, MachineIs
  <2>4. d.outcome # "running"
    BY <2>3
  <2> QED BY <2>3, <2>4 DEF Executed, d
<1>4. CASE ~ (m.steps >= MaxSteps(program) \/ m.pc >= Len(program.code))
  <2>1. d = Execute(program.code[m.pc + 1], t, m, valid)
    BY <1>4 DEF RunVM
  <2>2. m.pc < Len(program.code) /\ m.steps < MaxSteps(program)
    BY <1>1, <1>2, <1>4
  <2> HIDE DEF d
  <2>3. Executed(Q, m, d)
    BY <2>1, <2>2, ExecuteIs
  <2> QED BY <2>2, <2>3 DEF d
<1> QED BY <1>3, <1>4

\* The machine stops, and so does its scan.
LEMMA ScanVMIs ==
    ASSUME NEW program, IsScannerProgram(program), NEW t \in Bytes, NEW Q, OnRunes(t, Q),
           NEW a \in Q, NEW s \in Nat, NEW valid
    PROVE  ScanVM(program, t, NewExternalLexer(a), s, valid) \in Machines(Q)
<1> DEFINE Turn(m) == RunVM(program, t, m, valid)
           Run[m \in Machine] == IF m.outcome # "running" THEN m ELSE Run[Turn(m)]
           begun == [pc |-> 0, steps |-> 0, state |-> s, outcome |-> "running",
                     lexer |-> NewExternalLexer(a)]
           stop == {m \in Machine : m.outcome # "running"}
           val == [m \in Machine |-> m]
           next == [m \in Machine |-> IF m \in stop THEN m ELSE Turn(m)]
           good == Machines(Q)
           limit == MaxSteps(program)
           Far(m) == IF m.outcome # "running" THEN 0
                     ELSE IF m.steps < limit THEN (limit - m.steps) + 1 ELSE 1
           measure == [m \in good |-> Far(m)]
<1>1. ScanVM(program, t, NewExternalLexer(a), s, valid) = Run[begun]
  BY DEF ScanVM
<1>2. Machine = Machines(Place) /\ OnRunes(t, Place) /\ good \subseteq Machine /\ Q \subseteq Place
  BY PlacesOnRunes DEF Machine, Machines, Lexers, OnRunes
<1>3. ASSUME NEW m \in Machine, m \notin stop
      PROVE  /\ Turn(m) \in Machine /\ next[m] = Turn(m) /\ m.outcome = "running"
             /\ m \in good => Executed(Q, m, next[m])
             /\ next[m].outcome = "running" => m.steps < limit
  <2>1. next[m] = Turn(m) /\ m.outcome = "running"
    BY <1>3
  <2> HIDE DEF next, stop
  <2>2. Executed(Place, m, Turn(m)) /\ (Turn(m).outcome = "running" => m.steps < limit)
    BY <1>2, <2>1, RunVMIs
  <2>3. m \in good => Executed(Q, m, Turn(m))
    BY <2>1, RunVMIs
  <2> HIDE DEF Turn, limit, good
  <2> QED BY <1>2, <2>1, <2>2, <2>3 DEF Executed
<1>4. next \in [Machine -> Machine]
  <2>1. \A m \in Machine : (IF m \in stop THEN m ELSE Turn(m)) \in Machine
    <3>1. \A m \in Machine : m \notin stop => Turn(m) \in Machine
      <4> HIDE DEF stop, Turn, next, good, limit
      <4> QED BY <1>3
    <3> HIDE DEF stop, Turn
    <3> QED BY <3>1
  <2> HIDE DEF stop, Turn
  <2> QED BY <2>1
<1>5. ASSUME NEW g, NEW m \in Machine
      PROVE  (IF m \in stop THEN val[m] ELSE g[next[m]])
               = IF m.outcome # "running" THEN m ELSE g[Turn(m)]
  <2>1. (m \in stop <=> m.outcome # "running") /\ val[m] = m
    OBVIOUS
  <2> HIDE DEF stop, next, val, Turn, good, limit
  <2> QED BY <1>3, <2>1
<1>6. Recursive(Machine, stop, val, next, Run)
  <2>1. PICK g : Recursive(Machine, stop, val, next, g)
    <3> HIDE DEF stop, next, val
    <3> QED BY <1>4, RecursionExists
  <2>2. g = [m \in Machine |-> IF m.outcome # "running" THEN m ELSE g[Turn(m)]]
    <3> HIDE DEF stop, next, val, Turn
    <3> QED BY <1>5, <2>1 DEF Recursive
  <2>3. Run = [m \in Machine |-> IF m.outcome # "running" THEN m ELSE Run[Turn(m)]]
    <3> HIDE DEF Turn
    <3> QED BY <2>2, Zenon
  <2> HIDE DEF stop, next, val, Run, Turn
  <2> QED BY <1>5, <2>3 DEF Recursive
<1>7. limit \in Nat
  BY DEF IsScannerProgram, MaxSteps, DefaultMaxSteps
<1>8. \A m \in good : m.steps \in Nat
  BY DEF Machines
<1> HIDE DEF Run, next, Turn, limit
<1>9. \A m \in good : Far(m) \in Nat
  BY <1>7, <1>8
<1>10. measure \in [good -> Nat]
  <2> HIDE DEF good, Far
  <2> QED BY <1>9
<1>11. Sinks(stop, val, next, good, good, measure)
  <2>1. ASSUME NEW m \in good, m \notin stop
        PROVE  next[m] \in good /\ measure[next[m]] < measure[m]
    <3>1. m \in Machine /\ m.outcome = "running" /\ Executed(Q, m, next[m])
          /\ (next[m].outcome = "running" => m.steps < limit)
      <4> HIDE DEF good, stop
      <4> QED BY <1>2, <1>3, <2>1
    <3> DEFINE d == next[m]
    <3>2. /\ d \in good
          /\ \/ d.outcome = "running" /\ d.steps = m.steps + 1
             \/ d.outcome # "running"
      BY <3>1 DEF Executed
    <3> HIDE DEF d
    <3>3. Far(d) < Far(m)
      <4>1. CASE d.outcome # "running"
        <5>1. Far(d) = 0
          BY <4>1
        <5>2. Far(m) > 0
          BY <1>7, <1>8, <3>1
        <5> HIDE DEF Far
        <5> QED BY <1>9, <3>2, <5>1, <5>2
      <4>2. CASE d.outcome = "running"
        <5>1. d.steps = m.steps + 1 /\ m.steps < limit /\ m.steps \in Nat
          BY <1>8, <3>1, <3>2, <4>2 DEF d
        <5>2. Far(m) = (limit - m.steps) + 1
          BY <3>1, <5>1
        <5>3. Far(d) = IF d.steps < limit THEN (limit - d.steps) + 1 ELSE 1
          BY <4>2
        <5> HIDE DEF Far
        <5> QED BY <1>7, <5>1, <5>2, <5>3
      <4> QED BY <4>1, <4>2
    <3> HIDE DEF Far, good
    <3> QED BY <3>2, <3>3 DEF d
  <2>2. \A m \in good : val[m] \in good
    BY <1>2
  <2> HIDE DEF good, val, measure, stop
  <2> QED BY <2>1, <2>2 DEF Sinks
<1>12. \A m \in good : Run[m] \in good
  <2> HIDE DEF good, val, measure, stop
  <2> QED BY <1>2, <1>4, <1>6, <1>10, <1>11, RecursionReturns
<1>13. begun \in good
  BY LiteralsAreStrings DEF NewExternalLexer, Lexers, Machines
<1> HIDE DEF good, begun
<1> QED BY <1>1, <1>12, <1>13 DEF good

\* Languages whose scanners are programs, as external_vm.go runs them.
AttachedProgram(scanner) ==
    /\ IsScannerProgram(scanner) /\ CreateScanner(scanner) = 0
    /\ \A s : ScannerState(scanner, s) <=> s \in Nat
    /\ \A t, lexer, s, valid :
          RunScanner(scanner, t, lexer, s, valid) = ScanVM(scanner, t, lexer, s, valid)
ScannersArePrograms == \A l \in Languages : \A scanner \in l.scanner : AttachedProgram(scanner)

\* The places of a text from one on.
PlacesFrom(t, at) == {b \in Right(t) : at.pos <= b.pos}
LEMMA PlacesFromAre ==
    ASSUME NEW t \in Bytes, NEW at \in Right(t)
    PROVE  OnRunes(t, PlacesFrom(t, at)) /\ at \in PlacesFrom(t, at)
<1> DEFINE Q == PlacesFrom(t, at)
<1>1. at \in Q /\ Q \subseteq Place
  BY DEF Right, Place, PlacesFrom
<1>2. ASSUME NEW b \in Q, b.pos < Len(t) PROVE OneRune(t, b) \in Q
  <2>1. b \in Right(t) /\ b \in Place /\ b.pos \in Nat /\ at.pos \in Nat /\ at.pos <= b.pos
    BY DEF Right, Place, PlacesFrom
  <2>2. OneRune(t, b) \in Right(t)
    BY <1>2, <2>1, RuneIsRight
  <2>3. OneRune(t, b) \in Place /\ b.pos < OneRune(t, b).pos
    BY <1>2, <2>1, OneRuneIs
  <2>4. OneRune(t, b).pos \in Nat
    BY <2>3 DEF Place
  <2> QED BY <2>1, <2>2, <2>3, <2>4 DEF PlacesFrom
<1> QED BY <1>1, <1>2 DEF OnRunes

\* What is asked of scanners holds of one, whatever its program does
\* (external_vm.go Scan).
LEMMA ProgramUsesItsLexer ==
    ASSUME NEW l \in Languages, NEW scanner, AttachedProgram(scanner)
    PROVE  UsesItsLexer(l, scanner)
<1>1. /\ IsScannerProgram(scanner) /\ CreateScanner(scanner) = 0
      /\ \A s : ScannerState(scanner, s) <=> s \in Nat
      /\ \A t, lexer, s, valid :
            RunScanner(scanner, t, lexer, s, valid) = ScanVM(scanner, t, lexer, s, valid)
  BY DEF AttachedProgram
<1>2. ScannerState(scanner, CreateScanner(scanner))
  BY <1>1
<1>3. ASSUME NEW t \in Texts(l), NEW at \in Right(t), NEW s, NEW valid, ScannerState(scanner, s)
      PROVE  LET m == RunScanner(scanner, t, NewExternalLexer(at), s, valid)
             IN  ScannerState(scanner, m.state) /\ Scanned(t, at, m)
  <2> DEFINE m == RunScanner(scanner, t, NewExternalLexer(at), s, valid)
             Q == PlacesFrom(t, at)
  <2>1. t \in Bytes /\ s \in Nat
    BY <1>1, <1>3, LanguagesAreTables DEF Bytes
  <2>2. OnRunes(t, Q) /\ at \in Q
    BY <2>1, PlacesFromAre
  <2>3. m = ScanVM(scanner, t, NewExternalLexer(at), s, valid)
    BY <1>1
  <2> HIDE DEF m, Q
  <2>4. m \in Machines(Q)
    BY <1>1, <2>1, <2>2, <2>3, ScanVMIs
  <2>5. m.state \in Nat /\ m.lexer.begin \in Q /\ m.lexer.end \in Q /\ m.lexer.result \subseteq STRING
    BY <2>4 DEF Machines, Lexers
  <2> QED BY <1>1, <2>5 DEF Scanned, Q, m, PlacesFrom
<1> QED BY <1>2, <1>3 DEF UsesItsLexer

\* Every program uses its lexer: the hypothesis of the theorems is met by all
\* of external_vm.go's scanners, whatever their code is.
THEOREM ProgramsUseTheirLexer ==
    ASSUME ScannersArePrograms
    PROVE  ScannersUseTheirLexer
BY ProgramUsesItsLexer DEF ScannersArePrograms, ScannersUseTheirLexer

-----------------------------------------------------------------------------
(* The theorems.                                                           *)

\* Behind every call the lexer is at a place of the text, and so are the
\* tokens it has answered with, each behind the one before it.
THEOREM Invariance ==
    ASSUME ScannersUseTheirLexer
    PROVE  Spec => []IInv
<1>1. Init => IInv
  BY Begins
<1>2. IInv /\ [Calls]_vars => IInv'
  BY Goes
<1> QED BY <1>1, <1>2, PTL DEF Spec

\* dfaTokenSource keeps to its types: the lexer stays in the text, the buffer
\* holds external symbols, and the scanner is in a state of its own.
THEOREM TypesAreKept ==
    ASSUME ScannersUseTheirLexer
    PROVE  Spec => []TypeOK
<1>1. IInv => TypeOK
  BY TypesHold
<1> QED BY <1>1, Invariance, PTL

\* Rows and columns are those of the bytes, whoever counted them: the lexer,
\* a scanner's lexer, the made-up tokens or SkipToByteWithPoint's caller.
THEOREM PositionsAlwaysAgree ==
    ASSUME ScannersUseTheirLexer
    PROVE  Spec => []PositionsAgree
<1>1. IInv => PositionsAgree
  BY PlacesHold
<1> QED BY <1>1, Invariance, PTL

\* Tokens neither overlap nor go back, also behind reused subtrees.
THEOREM TokensAlwaysGoOn ==
    ASSUME ScannersUseTheirLexer
    PROVE  Spec => []TokensGoOn
<1>1. IInv => TokensGoOn
  BY DEF IInv
<1> QED BY <1>1, Invariance, PTL

\* Languages with scanners of external_vm.go need no hypothesis on them.
THEOREM ProgramsKeepToTheText ==
    ASSUME ScannersArePrograms
    PROVE  Spec => [](TypeOK /\ PositionsAgree /\ TokensGoOn)
<1>1. ScannersUseTheirLexer
  BY ProgramsUseTheirLexer
<1>2. IInv => TypeOK /\ PositionsAgree /\ TokensGoOn
  BY TypesHold, PlacesHold DEF IInv
<1> QED BY <1>1, <1>2, Invariance, PTL

-----------------------------------------------------------------------------
(* Python's scanner: where its lexer goes.                                 *)

\* Lexers that a scan may go on with: whatever is called, another of these.
Closed(t, X) ==
    /\ X \subseteq Lexing
    /\ \A x \in X : MarkEnd(x) \in X
    /\ \A x \in X : \A skip : Advance(t, x, skip) \in X
    /\ \A x \in X : \A symbol \in STRING : SetResultSymbol(x, symbol) \in X

\* What is left of the text.
ToCome(t, x) == Left(t, x.at)

\* A lexer that is further on, or where it was.
Along(t, X, x, y) == y \in X /\ ToCome(t, y) <= ToCome(t, x)

\* Lexers whose token begins and ends at some places and does not end in front
\* of where it begins.
Forward(Q) == {x \in Lexers(Q) : x.begin.pos <= x.at.pos /\ x.begin.pos <= x.end.pos}

LEMMA LexingIs == Lexing = Lexers(Place)
BY DEF Lexing, Lexers

LEMMA ToComeIs ==
    ASSUME NEW t \in Bytes, NEW x \in Lexing
    PROVE  ToCome(t, x) \in Nat
<1>1. x.at \in Place /\ Len(t) \in Nat
  BY DEF Lexing, Bytes
<1>2. x.at.pos \in Nat
  BY <1>1 DEF Place
<1> QED BY <1>1, <1>2 DEF ToCome, Left

\* A rune further, where there is one.
LEMMA AdvanceGoesOn ==
    ASSUME NEW t \in Bytes, NEW x \in Lexing, NEW skip
    PROVE  /\ ToCome(t, Advance(t, x, skip)) <= ToCome(t, x)
           /\ Lookahead(t, x) # EndOfText => ToCome(t, Advance(t, x, skip)) < ToCome(t, x)
<1> DEFINE past == OneRune(t, x.at)  y == Advance(t, x, skip)
<1>0. x.at \in Place /\ Len(t) \in Nat /\ x \in Lexers(Place)
  <2>1. x.at \in Place /\ Len(t) \in Nat
    BY DEF Lexing, Bytes
  <2> QED BY <2>1, LexingIs
<1>1. x.at \in Place /\ x.at.pos \in Nat /\ Len(t) \in Nat /\ x \in Lexers(Place)
  BY <1>0 DEF Place
<1>2. CASE AtEnd(t, x.at.pos)
  <2>1. y = x /\ Lookahead(t, x) = EndOfText
    BY <1>2 DEF Advance, Lookahead
  <2> QED BY <2>1, ToComeIs
<1>3. CASE ~ AtEnd(t, x.at.pos)
  <2>1. x.at.pos < Len(t)
    BY <1>1, <1>3, BeforeTheEnd
  <2>2. past \in Place /\ x.at.pos < past.pos
    BY <1>1, <2>1, OneRuneIs
  <2>3. past.pos \in Nat
    BY <2>2 DEF Place
  <2>4. y = IF skip THEN [x EXCEPT !.at = past, !.begin = past, !.end = past]
            ELSE [x EXCEPT !.at = past]
    BY <1>3 DEF Advance, AdvancedTo
  <2> HIDE DEF past, y
  <2>5. y.at = past
    BY <1>1, <2>4 DEF Lexers
  <2> QED BY <1>1, <2>1, <2>2, <2>3, <2>5 DEF ToCome, Left, y
<1> QED BY <1>2, <1>3

LEMMA MarkStays ==
    ASSUME NEW t, NEW x \in Lexing
    PROVE  /\ ToCome(t, MarkEnd(x)) = ToCome(t, x)
           /\ Lookahead(t, MarkEnd(x)) = Lookahead(t, x)
<1>1. MarkEnd(x).at = x.at
  BY DEF MarkEnd, Lexing
<1> QED BY <1>1 DEF ToCome, Lookahead

LEMMA AlongIs ==
    ASSUME NEW t \in Bytes, NEW X, Closed(t, X), NEW x \in X
    PROVE  /\ x \in Lexing /\ ToCome(t, x) \in Nat /\ Along(t, X, x, x) /\ Along(t, X, x, MarkEnd(x))
           /\ \A skip : /\ Along(t, X, x, Advance(t, x, skip))
                        /\ Lookahead(t, x) # EndOfText => ToCome(t, Advance(t, x, skip)) < ToCome(t, x)
<1>1. x \in Lexing /\ MarkEnd(x) \in X
  BY DEF Closed
<1>2. ToCome(t, x) \in Nat /\ ToCome(t, MarkEnd(x)) = ToCome(t, x)
  BY <1>1, ToComeIs, MarkStays
<1>3. ASSUME NEW skip
      PROVE  /\ Along(t, X, x, Advance(t, x, skip))
             /\ Lookahead(t, x) # EndOfText => ToCome(t, Advance(t, x, skip)) < ToCome(t, x)
  <2>1. Advance(t, x, skip) \in X
    BY DEF Closed
  <2> QED BY <1>1, <2>1, AdvanceGoesOn DEF Along
<1> QED BY <1>1, <1>2, <1>3 DEF Along

LEMMA AlongOn ==
    ASSUME NEW t \in Bytes, NEW X, Closed(t, X), NEW x \in X, NEW y, Along(t, X, x, y),
           NEW z, Along(t, X, y, z)
    PROVE  Along(t, X, x, z)
<1>1. y \in X /\ z \in X /\ ToCome(t, x) \in Nat /\ ToCome(t, y) \in Nat /\ ToCome(t, z) \in Nat
  BY AlongIs DEF Along
<1> QED BY <1>1 DEF Along

LEMMA OverIs ==
    ASSUME NEW t \in Bytes, NEW X, Closed(t, X), NEW x \in X
    PROVE  /\ \A runes, skip : Along(t, X, x, Over(t, x, runes, skip))
           /\ Along(t, X, x, PastBreak(t, x))
<1>1. ASSUME NEW y \in X, NEW runes, NEW skip PROVE Along(t, X, y, Over(t, y, runes, skip))
  BY AlongIs DEF Over
<1>2. Along(t, X, x, PastBreak(t, x))
  <2>1. Along(t, X, x, Over(t, x, {"\r"}, FALSE))
    BY <1>1
  <2>2. Over(t, x, {"\r"}, FALSE) \in X
    BY <2>1 DEF Along
  <2>3. Along(t, X, Over(t, x, {"\r"}, FALSE), PastBreak(t, x))
    BY <1>1, <2>2 DEF PastBreak
  <2> QED BY <2>1, <2>3, AlongOn
<1> QED BY <1>1, <1>2

LEMMA LexingIsClosed ==
    ASSUME NEW t \in Bytes
    PROVE  Closed(t, Lexing)
<1>1. ASSUME NEW x \in Lexing, NEW skip PROVE Advance(t, x, skip) \in Lexing
  BY LexingIs, AdvanceIs, PlacesOnRunes
<1>2. ASSUME NEW x \in Lexing PROVE MarkEnd(x) \in Lexing
  BY DEF MarkEnd, Lexing
<1>3. ASSUME NEW x \in Lexing, NEW symbol \in STRING PROVE SetResultSymbol(x, symbol) \in Lexing
  BY DEF SetResultSymbol, Lexing
<1> QED BY <1>1, <1>2, <1>3 DEF Closed

LEMMA ForwardIsClosed ==
    ASSUME NEW t \in Bytes, NEW Q, OnRunes(t, Q)
    PROVE  Closed(t, Forward(Q))
<1>1. Q \subseteq Place
  BY DEF OnRunes
<1>2. ASSUME NEW x \in Forward(Q)
      PROVE  /\ x \in Lexers(Q) /\ x \in Lexing
             /\ x = [begin |-> x.begin, at |-> x.at, end |-> x.end, result |-> x.result]
             /\ x.begin \in Q /\ x.at \in Q /\ x.end \in Q /\ x.result \in SUBSET STRING
             /\ x.begin.pos <= x.at.pos /\ x.begin.pos <= x.end.pos
             /\ x.begin.pos \in Nat /\ x.at.pos \in Nat /\ x.end.pos \in Nat
  <2>1. x \in Lexers(Q) /\ x.begin.pos <= x.at.pos /\ x.begin.pos <= x.end.pos
    BY <1>2 DEF Forward
  <2>2. x.begin \in Q /\ x.at \in Q /\ x.end \in Q /\ x.result \in SUBSET STRING
        /\ x = [begin |-> x.begin, at |-> x.at, end |-> x.end, result |-> x.result]
    BY <2>1, LexerIs
  <2>3. x \in Lexing
    BY <1>1, <2>1 DEF Lexers, Lexing
  <2> QED BY <1>1, <2>1, <2>2, <2>3 DEF Place
<1>3. ASSUME NEW x \in Forward(Q), NEW skip PROVE Advance(t, x, skip) \in Forward(Q)
  <2> DEFINE past == OneRune(t, x.at)  y == Advance(t, x, skip)
  <2>1. y \in Lexers(Q)
    BY <1>2, <1>3, AdvanceIs
  <2>2. CASE AtEnd(t, x.at.pos)
    BY <1>3, <2>2 DEF Advance
  <2>3. CASE ~ AtEnd(t, x.at.pos)
    <3>0. x.at \in Place /\ x.at.pos \in Nat
      BY <1>1, <1>2, <1>3
    <3>1. x.at.pos < Len(t)
      BY <2>3, <3>0, BeforeTheEnd
    <3>2. past \in Place /\ x.at.pos < past.pos
      BY <3>0, <3>1, OneRuneIs
    <3>3. past.pos \in Nat
      BY <3>2 DEF Place
    <3>4. y = IF skip THEN [x EXCEPT !.at = past, !.begin = past, !.end = past]
              ELSE [x EXCEPT !.at = past]
      BY <2>3 DEF Advance, AdvancedTo
    <3> HIDE DEF past, y
    <3>5. x = [begin |-> x.begin, at |-> x.at, end |-> x.end, result |-> x.result]
      BY <1>2, <1>3
    <3>6. skip => y = [begin |-> past, at |-> past, end |-> past, result |-> x.result]
      BY <3>4, <3>5
    <3>7. ~ skip => y = [begin |-> x.begin, at |-> past, end |-> x.end, result |-> x.result]
      BY <3>4, <3>5
    <3>8. x.begin.pos <= x.at.pos /\ x.begin.pos <= x.end.pos /\ x.begin.pos \in Nat
      BY <1>2, <1>3
    <3>9. CASE skip
      <4>1. y.begin = past /\ y.at = past /\ y.end = past
        BY <3>6, <3>9
      <4> QED BY <2>1, <3>3, <4>1 DEF Forward, y
    <3>10. CASE ~ skip
      <4>1. y.begin = x.begin /\ y.at = past /\ y.end = x.end
        BY <3>7, <3>10
      <4>2. x.begin.pos <= past.pos
        BY <3>0, <3>2, <3>3, <3>8
      <4> QED BY <2>1, <3>8, <4>1, <4>2 DEF Forward, y
    <3> QED BY <3>9, <3>10
  <2> QED BY <2>2, <2>3
<1>4. ASSUME NEW x \in Forward(Q) PROVE MarkEnd(x) \in Forward(Q)
  <2>1. MarkEnd(x) = [begin |-> x.begin, at |-> x.at, end |-> x.at, result |-> x.result]
    BY <1>2, <1>4 DEF MarkEnd
  <2> QED BY <1>2, <1>4, <2>1 DEF Forward, Lexers
<1>5. ASSUME NEW x \in Forward(Q), NEW symbol \in STRING PROVE SetResultSymbol(x, symbol) \in Forward(Q)
  <2> DEFINE d == SetResultSymbol(x, symbol)  one == {symbol}
  <2>0. d = [x EXCEPT !.result = one]
    BY DEF SetResultSymbol
  <2>1. one \in SUBSET STRING
    OBVIOUS
  <2> HIDE DEF d, one
  <2>2. d = [begin |-> x.begin, at |-> x.at, end |-> x.end, result |-> one]
    BY <1>2, <1>5, <2>0
  <2> QED BY <1>2, <1>5, <2>1, <2>2 DEF Forward, Lexers, d
<1> QED BY <1>2, <1>3, <1>4, <1>5 DEF Closed

-----------------------------------------------------------------------------
(* What a token does to the stacks.                                        *)

Symbols == {"indent", "dedent", "newline", "string_start", "string_content", "string_end",
            "escape_interpolation"}

LEMMA SymbolsAreStrings == Symbols \subseteq STRING
BY OutcomesAreStrings DEF Symbols

\* An indent opens a block deeper than the others, a dedent closes one; the
\* start of a string opens it, its end closes it.
Nested(py, symbol, d) ==
    /\ d \in PythonState
    /\ symbol = "indent" => \E n \in Nat : /\ n > Innermost(py.indents)
                                           /\ d.indents = Append(py.indents, n)
    /\ symbol = "dedent" => Len(py.indents) > 1 /\ d.indents = Outer(py.indents)
    /\ symbol \notin {"indent", "dedent"} => d.indents = py.indents
    /\ symbol = "string_start" => \E e \in Delimiter : d.delimiters = Append(py.delimiters, e)
    /\ symbol = "string_end" => py.delimiters # << >> /\ d.delimiters = Outer(py.delimiters)
    /\ symbol \notin {"string_start", "string_end"} => d.delimiters = py.delimiters

\* What a scan comes to: it fails and leaves the stacks, or makes a token.
Result(X, py, m) ==
    /\ m.lexer \in X
    /\ \/ m.outcome = "failed" /\ m.state = py
       \/ /\ m.outcome = "emitted"
          /\ \E symbol \in Symbols : m.lexer.result = {symbol} /\ Nested(py, symbol, m.state)

LEMMA StateIs ==
    ASSUME NEW py \in PythonState
    PROVE  /\ py = [indents |-> py.indents, delimiters |-> py.delimiters, inside |-> py.inside]
           /\ py.indents \in Seq(Nat) /\ py.indents # << >> /\ py.indents[1] = 0
           /\ py.delimiters \in Seq(Delimiter) /\ py.inside \in BOOLEAN
           /\ Innermost(py.indents) \in Nat /\ Len(py.indents) \in Nat /\ Len(py.indents) > 0
           /\ py.delimiters # << >> => Innermost(py.delimiters) \in Delimiter
<1>1. /\ py = [indents |-> py.indents, delimiters |-> py.delimiters, inside |-> py.inside]
      /\ py.indents \in Seq(Nat) /\ py.indents # << >> /\ py.indents[1] = 0
      /\ py.delimiters \in Seq(Delimiter) /\ py.inside \in BOOLEAN
  BY DEF PythonState
<1>2. ASSUME NEW S, NEW s \in Seq(S), s # << >> PROVE Innermost(s) \in S /\ Len(s) \in Nat /\ Len(s) > 0
  BY <1>2 DEF Innermost
<1> QED BY <1>1, <1>2

LEMMA OuterIs ==
    ASSUME NEW S, NEW s \in Seq(S), s # << >>
    PROVE  /\ Outer(s) \in Seq(S) /\ Len(Outer(s)) = Len(s) - 1
           /\ \A i \in 1 .. Len(s) - 1 : Outer(s)[i] = s[i]
<1> DEFINE n == Len(s) - 1
<1>1. n \in Nat /\ (\A i \in 1 .. n : s[i] \in S) /\ n - 1 + 1 = n /\ 1 \in Int
  OBVIOUS
<1> HIDE DEF n
<1>2. /\ SubSeq(s, 1, n) \in Seq(S)
      /\ Len(SubSeq(s, 1, n)) = IF 1 <= n THEN n - 1 + 1 ELSE 0
      /\ \A i \in 1 .. n - 1 + 1 : SubSeq(s, 1, n)[i] = s[1 + i - 1]
  BY <1>1, SubSeqProperties
<1>3. Len(SubSeq(s, 1, n)) = n
  BY <1>1, <1>2
<1>4. \A i \in 1 .. n : SubSeq(s, 1, n)[i] = s[i]
  <2>1. \A i \in 1 .. n : 1 + i - 1 = i
    OBVIOUS
  <2> QED BY <1>1, <1>2, <2>1
<1>5. Outer(s) = SubSeq(s, 1, n)
  BY DEF Outer, n
<1> QED BY <1>2, <1>3, <1>4, <1>5 DEF n

LEMMA FailedIs ==
    ASSUME NEW X, NEW x \in X, NEW py
    PROVE  Result(X, py, Failed(x, py))
BY DEF Result, Failed

LEMMA EmittedIs ==
    ASSUME NEW t, NEW X, Closed(t, X), NEW x \in X, NEW py, NEW symbol \in Symbols,
           NEW d, Nested(py, symbol, d)
    PROVE  Result(X, py, Emitted(x, symbol, d))
<1>1. SetResultSymbol(x, symbol) \in X
  BY SymbolsAreStrings DEF Closed
<1>2. SetResultSymbol(x, symbol).result = {symbol}
  BY DEF Closed, SetResultSymbol, Lexing
<1>3. /\ Emitted(x, symbol, d).outcome = "emitted" /\ Emitted(x, symbol, d).state = d
      /\ Emitted(x, symbol, d).lexer = SetResultSymbol(x, symbol)
  BY DEF Emitted
<1> QED BY <1>1, <1>2, <1>3 DEF Result

\* Tokens that leave the stacks as they are.
LEMMA StaysNested ==
    ASSUME NEW py \in PythonState
    PROVE  \A symbol \in {"newline", "string_content", "escape_interpolation"} : Nested(py, symbol, py)
BY DEF Nested

LEMMA OpensString ==
    ASSUME NEW py \in PythonState, NEW e \in Delimiter, NEW inside \in BOOLEAN
    PROVE  Nested(py, "string_start",
                  [py EXCEPT !.delimiters = Append(py.delimiters, e), !.inside = inside])
<1> DEFINE some == Append(py.delimiters, e)
           d == [py EXCEPT !.delimiters = some, !.inside = inside]
<1>1. some \in Seq(Delimiter)
  BY StateIs
<1>2. d = [py EXCEPT !.delimiters = some, !.inside = inside]
  OBVIOUS
<1>3. some = Append(py.delimiters, e)
  OBVIOUS
<1> HIDE DEF some, d
<1>4. d = [indents |-> py.indents, delimiters |-> some, inside |-> inside]
  BY <1>2 DEF PythonState
<1>5. d \in PythonState
  BY <1>1, <1>4, StateIs DEF PythonState
<1> QED BY <1>3, <1>4, <1>5 DEF Nested, d, some

LEMMA ClosesString ==
    ASSUME NEW py \in PythonState, py.delimiters # << >>
    PROVE  Nested(py, "string_end", [py EXCEPT !.delimiters = Outer(py.delimiters), !.inside = FALSE])
<1> DEFINE some == Outer(py.delimiters)
           d == [py EXCEPT !.delimiters = some, !.inside = FALSE]
<1>1. some \in Seq(Delimiter)
  BY StateIs, OuterIs
<1>2. d = [py EXCEPT !.delimiters = some, !.inside = FALSE]
  OBVIOUS
<1>3. some = Outer(py.delimiters)
  OBVIOUS
<1> HIDE DEF some, d
<1>4. d = [indents |-> py.indents, delimiters |-> some, inside |-> FALSE]
  BY <1>2 DEF PythonState
<1>5. d \in PythonState
  BY <1>1, <1>4, StateIs DEF PythonState
<1> QED BY <1>3, <1>4, <1>5 DEF Nested, d, some

LEMMA OpensBlock ==
    ASSUME NEW py \in PythonState, NEW n \in Nat, n > Innermost(py.indents)
    PROVE  Nested(py, "indent", [py EXCEPT !.indents = Append(py.indents, n)])
<1> DEFINE some == Append(py.indents, n)
           d == [py EXCEPT !.indents = some]
<1>1. some \in Seq(Nat) /\ some # << >> /\ some[1] = 0
  BY StateIs
<1>2. d = [py EXCEPT !.indents = some]
  OBVIOUS
<1>3. some = Append(py.indents, n)
  OBVIOUS
<1> HIDE DEF some, d
<1>4. d = [indents |-> some, delimiters |-> py.delimiters, inside |-> py.inside]
  BY <1>2 DEF PythonState
<1>5. d \in PythonState
  BY <1>1, <1>4, StateIs DEF PythonState
<1> QED BY <1>3, <1>4, <1>5 DEF Nested, d, some

\* The block around all others, at 0, is never closed.
LEMMA ClosesBlock ==
    ASSUME NEW py \in PythonState, NEW n \in Nat, n < Innermost(py.indents)
    PROVE  Nested(py, "dedent", [py EXCEPT !.indents = Outer(py.indents)])
<1> DEFINE some == Outer(py.indents)
           d == [py EXCEPT !.indents = some]
<1>0. Len(py.indents) > 1
  <2>1. Innermost(py.indents) # 0
    BY StateIs
  <2> QED BY <2>1, StateIs DEF Innermost
<1>1. some \in Seq(Nat) /\ some # << >> /\ some[1] = 0
  <2>1. some \in Seq(Nat) /\ Len(some) = Len(py.indents) - 1 /\ some[1] = py.indents[1]
    <3> DEFINE s == py.indents
    <3>1. s \in Seq(Nat) /\ s # << >> /\ 1 \in 1 .. Len(s) - 1
      BY <1>0, StateIs
    <3> HIDE DEF s
    <3>2. Outer(s) \in Seq(Nat) /\ Len(Outer(s)) = Len(s) - 1 /\ Outer(s)[1] = s[1]
      BY <3>1, OuterIs
    <3> QED BY <3>2 DEF s
  <2> HIDE DEF some
  <2> QED BY <1>0, <2>1, StateIs
<1>2. d = [py EXCEPT !.indents = some]
  OBVIOUS
<1>3. some = Outer(py.indents)
  OBVIOUS
<1> HIDE DEF some, d
<1>4. d = [indents |-> some, delimiters |-> py.delimiters, inside |-> py.inside]
  BY <1>2 DEF PythonState
<1>5. d \in PythonState
  BY <1>1, <1>4, StateIs DEF PythonState
<1> QED BY <1>0, <1>3, <1>4, <1>5 DEF Nested, d, some

-----------------------------------------------------------------------------
(* Inside a string.                                                        *)

LEMMA EscapeIs ==
    ASSUME NEW t \in Bytes, NEW X, Closed(t, X), NEW x \in X, NEW py \in PythonState
    PROVE  Result(X, py, EscapeInterpolation(t, x, py))
<1> DEFINE one == Advance(t, MarkEnd(x), FALSE)
           two == MarkEnd(Advance(t, one, FALSE))
<1>1. one \in X
  BY DEF Closed
<1> HIDE DEF one
<1>2. two \in X
  BY <1>1 DEF Closed
<1>3. \/ EscapeInterpolation(t, x, py) = Emitted(two, "escape_interpolation", py)
      \/ EscapeInterpolation(t, x, py) = Failed(one, py)
  BY DEF EscapeInterpolation, one
<1> HIDE DEF two
<1>4. "escape_interpolation" \in Symbols /\ Nested(py, "escape_interpolation", py)
  BY StaysNested DEF Symbols
<1>5. Result(X, py, Emitted(two, "escape_interpolation", py)) /\ Result(X, py, Failed(one, py))
  BY <1>1, <1>2, <1>4, EmittedIs, FailedIs
<1> QED BY <1>3, <1>5

LEMMA AtQuoteIs ==
    ASSUME NEW t \in Bytes, NEW X, Closed(t, X), NEW x \in X, NEW py \in PythonState,
           py.delimiters # << >>, NEW some \in BOOLEAN
    PROVE  Result(X, py, AtQuote(t, x, py, some))
<1> DEFINE d     == Innermost(py.delimiters)
           here  == MarkEnd(x)
           one   == Advance(t, here, FALSE)
           two   == Advance(t, one, FALSE)
           three == Advance(t, two, FALSE)
           quoted == AtQuote(t, x, py, some)
           Text(l) == Emitted(l, "string_content", py)
<1>1. here \in X /\ one \in X /\ two \in X /\ three \in X
  <2>1. here \in X /\ \A y \in X : Advance(t, y, FALSE) \in X
    BY DEF Closed
  <2> HIDE DEF here
  <2>2. one \in X
    BY <2>1
  <2> HIDE DEF one
  <2>3. two \in X
    BY <2>1, <2>2
  <2> HIDE DEF two
  <2> QED BY <2>1, <2>2, <2>3
<1>2. MarkEnd(one) \in X /\ MarkEnd(two) \in X /\ MarkEnd(three) \in X
  <2> HIDE DEF one, two, three
  <2> QED BY <1>1 DEF Closed
<1>3. d.triple \in BOOLEAN
  BY StateIs DEF Delimiter
<1>4. \/ \E l \in {here, MarkEnd(one), MarkEnd(two)} : quoted = Text(l)
      \/ \E l \in {one, three} : quoted = StringEnd(l, py)
  <2>1. CASE ~ d.triple
    <3>1. quoted = IF some THEN Text(here) ELSE StringEnd(one, py)
      BY <2>1 DEF AtQuote
    <3> HIDE DEF here, one, quoted, Text
    <3> QED BY <3>1
  <2>2. CASE d.triple /\ Lookahead(t, one) # d.quote
    <3>1. quoted = Text(MarkEnd(one))
      BY <2>2 DEF AtQuote
    <3> HIDE DEF one, quoted, Text
    <3> QED BY <3>1
  <2>3. CASE d.triple /\ Lookahead(t, one) = d.quote
    <3>1. quoted = IF Lookahead(t, two) # d.quote THEN Text(MarkEnd(two))
                   ELSE IF some THEN Text(here) ELSE StringEnd(three, py)
      BY <2>3 DEF AtQuote
    <3> HIDE DEF here, one, two, three, quoted, Text
    <3> QED BY <3>1
  <2> QED BY <1>3, <2>1, <2>2, <2>3
<1>5. ASSUME NEW l \in X PROVE Result(X, py, Text(l))
  <2>1. "string_content" \in Symbols /\ Nested(py, "string_content", py)
    BY StaysNested DEF Symbols
  <2> QED BY <2>1, EmittedIs
<1>6. ASSUME NEW l \in X, MarkEnd(l) \in X PROVE Result(X, py, StringEnd(l, py))
  <2> DEFINE e == [py EXCEPT !.delimiters = Outer(py.delimiters), !.inside = FALSE]
  <2>1. "string_end" \in Symbols /\ Nested(py, "string_end", e)
    BY ClosesString DEF Symbols
  <2>2. StringEnd(l, py) = Emitted(MarkEnd(l), "string_end", e)
    BY DEF StringEnd
  <2> HIDE DEF e
  <2> QED BY <1>6, <2>1, <2>2, EmittedIs
<1> HIDE DEF here, one, two, three, quoted, Text
<1> QED BY <1>1, <1>2, <1>4, <1>5, <1>6 DEF quoted

\* A round of the loop goes on behind a rune, comes to the end of the text, or
\* to a result.
Rounded(t, X, x, py, m) ==
    \/ m.outcome = "reading" /\ m.lexer \in X /\ ToCome(t, m.lexer) < ToCome(t, x)
    \/ m.outcome = "running" /\ m.lexer \in X /\ m.state = py
    \/ Result(X, py, m)

LEMMA PieceIs ==
    ASSUME NEW t \in Bytes, NEW X, Closed(t, X), NEW x \in X, NEW py \in PythonState,
           py.delimiters # << >>, NEW some \in BOOLEAN
    PROVE  Rounded(t, X, x, py, Piece(t, x, some, py))
<1> DEFINE d      == Innermost(py.delimiters)
           r      == Lookahead(t, x)
           on     == Advance(t, x, FALSE)
           letter == Advance(t, MarkEnd(x), FALSE)
           m      == Piece(t, x, some, py)
           Went(outcome, l) == [outcome |-> outcome, lexer |-> l, state |-> py]
           raw    == PastBreak(t, Over(t, on, {d.quote, "\\"}, FALSE))
           bytes  == Advance(t, Advance(t, letter, FALSE), FALSE)
<1>1. r = EndOfText \/ (ToCome(t, on) < ToCome(t, x) /\ ToCome(t, letter) < ToCome(t, x))
  <2>1. MarkEnd(x) \in X /\ x \in Lexing
    BY DEF Closed
  <2>2. Lookahead(t, MarkEnd(x)) = r /\ ToCome(t, MarkEnd(x)) = ToCome(t, x)
    BY <2>1, MarkStays
  <2> QED BY <2>1, <2>2, AlongIs
<1>2. on \in X /\ letter \in X
  BY DEF Closed
<1>3. Along(t, X, on, raw)
  <2> DEFINE next == Over(t, on, {d.quote, "\\"}, FALSE)
  <2> HIDE DEF on
  <2>1. Along(t, X, on, next)
    BY <1>2, OverIs
  <2> HIDE DEF next
  <2>2. Along(t, X, next, PastBreak(t, next))
    BY <2>1, OverIs DEF Along
  <2>3. Along(t, X, on, PastBreak(t, next))
    BY <1>2, <2>1, <2>2, AlongOn
  <2> QED BY <2>3 DEF next
<1>4. Along(t, X, letter, bytes)
  <2> DEFINE next == Advance(t, letter, FALSE)
  <2> HIDE DEF letter
  <2>1. Along(t, X, letter, next)
    BY <1>2, AlongIs
  <2> HIDE DEF next
  <2>2. Along(t, X, next, Advance(t, next, FALSE))
    BY <2>1, AlongIs DEF Along
  <2>3. Along(t, X, letter, Advance(t, next, FALSE))
    BY <1>2, <2>1, <2>2, AlongOn
  <2> QED BY <2>3 DEF next
<1>5. \/ m = Went("running", x)
      \/ m = Emitted(MarkEnd(x), "string_content", py)
      \/ m = Failed(x, py)
      \/ m = AtQuote(t, x, py, some)
      \/ r # EndOfText /\ \E l \in {raw, bytes, on} : m = Went("reading", l)
  <2>1. CASE r = EndOfText
    <3>1. d.quote \in {"q", "Q"}
      BY StateIs DEF Delimiter, Quotes
    <3> QED BY <2>1, <3>1 DEF Piece, EndOfText
  <2>2. CASE r # EndOfText
    <3> HIDE DEF d, r, on, raw, letter
    <3>1. m = IF r \in {"{", "}"} /\ "f" \in d.flags
              THEN IF some THEN Emitted(MarkEnd(x), "string_content", py) ELSE Failed(x, py)
              ELSE IF r = "\\" /\ "r" \in d.flags THEN Went("reading", raw)
              ELSE IF r = "\\" /\ "r" \notin d.flags
              THEN IF "b" \in d.flags /\ Lookahead(t, letter) = "N" THEN Went("reading", bytes)
                   ELSE IF some THEN Emitted(MarkEnd(x), "string_content", py) ELSE Failed(x, py)
              ELSE IF r = d.quote THEN AtQuote(t, x, py, some)
              ELSE IF r = "\n" /\ some /\ ~ d.triple THEN Failed(x, py)
              ELSE Went("reading", on)
      <4>1. d.quote \in {"q", "Q"}
        BY StateIs DEF d, Delimiter, Quotes
      <4> QED BY <2>2, <4>1 DEF Piece, d, r, on, raw, letter, Went
    <3> HIDE DEF Went, bytes, m
    <3> QED BY <2>2, <3>1
  <2> QED BY <2>1, <2>2
<1>6. ToCome(t, x) \in Nat /\ ToCome(t, on) \in Nat /\ ToCome(t, letter) \in Nat
  <2> HIDE DEF on, letter
  <2> QED BY <1>2, AlongIs
<1>7. ASSUME NEW l \in {raw, bytes, on}, r # EndOfText PROVE l \in X /\ ToCome(t, l) < ToCome(t, x)
  <2> HIDE DEF on, letter, raw, bytes
  <2>1. l \in X /\ ToCome(t, l) \in Nat
    BY <1>2, <1>3, <1>4, <1>7, AlongIs DEF Along
  <2> QED BY <1>1, <1>3, <1>4, <1>6, <1>7, <2>1 DEF Along
<1>8. Result(X, py, Emitted(MarkEnd(x), "string_content", py)) /\ Result(X, py, Failed(x, py))
  <2>1. "string_content" \in Symbols /\ Nested(py, "string_content", py) /\ MarkEnd(x) \in X
    BY StaysNested DEF Symbols, Closed
  <2> QED BY <2>1, EmittedIs, FailedIs
<1>9. Result(X, py, AtQuote(t, x, py, some))
  BY AtQuoteIs
<1>10. ASSUME NEW l \in {raw, bytes, on}, r # EndOfText, m = Went("reading", l)
       PROVE  Rounded(t, X, x, py, m)
  <2>1. m.outcome = "reading" /\ m.lexer = l
    BY <1>10
  <2> HIDE DEF m, raw, bytes, on, r
  <2> QED BY <1>7, <1>10, <2>1 DEF Rounded
<1>11. ASSUME m = Went("running", x) PROVE Rounded(t, X, x, py, m)
  <2>1. m.outcome = "running" /\ m.lexer = x /\ m.state = py
    BY <1>11
  <2> HIDE DEF m
  <2> QED BY <2>1 DEF Rounded
<1> HIDE DEF raw, bytes, on, r, m, Went
<1>12. ASSUME Result(X, py, m) PROVE Rounded(t, X, x, py, m)
  BY <1>12 DEF Rounded
<1>13. Rounded(t, X, x, py, m)
  BY <1>5, <1>8, <1>9, <1>10, <1>11, <1>12
<1> QED BY <1>13 DEF m

\* The loop ends: every round that reads on has read a rune.
LEMMA ContentIs ==
    ASSUME NEW t \in Bytes, NEW X, Closed(t, X), NEW x \in X, NEW py \in PythonState,
           py.delimiters # << >>
    PROVE  LET m == Content(t, x, py)
           IN  \/ m.outcome = "running" /\ m.lexer \in X /\ m.state = py
               \/ Result(X, py, m)
<1> DEFINE S == [lexer : Lexing, some : BOOLEAN]
           Some(c) == \/ c.some
                      \/ ~ (Lookahead(t, c.lexer) = "\\" /\ "r" \in Innermost(py.delimiters).flags)
           P(c) == Piece(t, c.lexer, c.some, py)
           Nx(c) == [lexer |-> P(c).lexer, some |-> Some(c)]
           Run[c \in S] == IF P(c).outcome = "reading" THEN Run[Nx(c)] ELSE P(c)
           begun == [lexer |-> x, some |-> FALSE]
           stop == {c \in S : P(c).outcome # "reading"}
           val == [c \in S |-> P(c)]
           next == [c \in S |-> IF c \in stop THEN c ELSE Nx(c)]
           good == [lexer : X, some : BOOLEAN]
           measure == [c \in good |-> ToCome(t, c.lexer)]
           Ended(m) == (m.outcome = "running" /\ m.lexer \in X /\ m.state = py) \/ Result(X, py, m)
           results == {m \in {P(c) : c \in good} : Ended(m)}
<1>1. Content(t, x, py) = Run[begun]
  BY DEF Content
<1>2. Closed(t, Lexing) /\ X \subseteq Lexing
  BY LexingIsClosed DEF Closed
<1>3. ASSUME NEW c \in S
      PROVE  /\ c.lexer \in Lexing /\ c.some \in BOOLEAN /\ Some(c) \in BOOLEAN
             /\ Rounded(t, Lexing, c.lexer, py, P(c))
  <2>1. c.lexer \in Lexing /\ c.some \in BOOLEAN
    OBVIOUS
  <2>2. Some(c) \in BOOLEAN
    BY <2>1
  <2> HIDE DEF Some
  <2> QED BY <1>2, <2>1, <2>2, PieceIs
<1>4. ASSUME NEW c \in S, P(c).outcome = "reading" PROVE Nx(c) \in S
  <2>1. P(c).lexer \in Lexing
    <3> DEFINE m == P(c)
    <3>1. Rounded(t, Lexing, c.lexer, py, m) /\ m.outcome = "reading"
      BY <1>3, <1>4
    <3> HIDE DEF m
    <3>2. m.lexer \in Lexing
      BY <3>1 DEF Rounded, Result
    <3> QED BY <3>2 DEF m
  <2> HIDE DEF P, Some
  <2> QED BY <1>3, <2>1
<1>5. next \in [S -> S]
  <2>1. \A c \in S : (IF c \in stop THEN c ELSE Nx(c)) \in S
    <3>1. \A c \in S : c \notin stop => P(c).outcome = "reading"
      OBVIOUS
    <3> HIDE DEF S, Nx, stop, P
    <3> QED BY <1>4, <3>1
  <2> HIDE DEF S, Nx, stop
  <2> QED BY <2>1
<1>6. ASSUME NEW g, NEW c \in S
      PROVE  (IF c \in stop THEN val[c] ELSE g[next[c]])
               = IF P(c).outcome = "reading" THEN g[Nx(c)] ELSE P(c)
  <2>1. (c \in stop <=> P(c).outcome # "reading") /\ val[c] = P(c)
        /\ (c \notin stop => next[c] = Nx(c))
    OBVIOUS
  <2> HIDE DEF stop, next, val, P, Nx
  <2> QED BY <2>1
<1>7. Recursive(S, stop, val, next, Run)
  <2>1. PICK g : Recursive(S, stop, val, next, g)
    <3> HIDE DEF S, stop, next, val
    <3> QED BY <1>5, RecursionExists
  <2>2. g = [c \in S |-> IF P(c).outcome = "reading" THEN g[Nx(c)] ELSE P(c)]
    <3> HIDE DEF S, stop, next, val, P, Nx
    <3> QED BY <1>6, <2>1 DEF Recursive
  <2>3. Run = [c \in S |-> IF P(c).outcome = "reading" THEN Run[Nx(c)] ELSE P(c)]
    <3> HIDE DEF S, P, Nx
    <3> QED BY <2>2, Zenon
  <2> HIDE DEF S, stop, next, val, Run, P, Nx
  <2> QED BY <1>6, <2>3 DEF Recursive
<1>8. ASSUME NEW c \in good
      PROVE  /\ c \in S /\ c.lexer \in X /\ c.some \in BOOLEAN /\ Some(c) \in BOOLEAN
             /\ Rounded(t, X, c.lexer, py, P(c)) /\ ToCome(t, c.lexer) \in Nat
  <2>1. c \in S /\ c.lexer \in X /\ c.some \in BOOLEAN
    BY <1>2
  <2>2. Some(c) \in BOOLEAN
    BY <1>3, <2>1
  <2>3. ToCome(t, c.lexer) \in Nat
    BY <1>2, <2>1, ToComeIs
  <2> HIDE DEF Some, S, good
  <2> QED BY <2>1, <2>2, <2>3, PieceIs
<1>9. measure \in [good -> Nat]
  BY <1>8
<1>10. Sinks(stop, val, next, good, results, measure)
  <2>1. ASSUME NEW c \in good, c \notin stop
        PROVE  next[c] \in good /\ measure[next[c]] < measure[c]
    <3> DEFINE m == P(c)
    <3>1. m.outcome = "reading" /\ next[c] = Nx(c) /\ c \in S
      BY <1>8, <2>1
    <3>2. Rounded(t, X, c.lexer, py, m) /\ Some(c) \in BOOLEAN
      BY <1>8
    <3>3. Nx(c) = [lexer |-> m.lexer, some |-> Some(c)]
      OBVIOUS
    <3> HIDE DEF m, Some, Nx, next, stop
    <3>4. m.lexer \in X /\ ToCome(t, m.lexer) < ToCome(t, c.lexer)
      BY <3>1, <3>2 DEF Rounded, Result
    <3>5. Nx(c) \in good /\ Nx(c).lexer = m.lexer
      BY <3>2, <3>3, <3>4
    <3> QED BY <3>1, <3>4, <3>5
  <2>2. ASSUME NEW c \in good, c \in stop PROVE val[c] \in results
    <3> DEFINE m == P(c)
    <3>1. m.outcome # "reading" /\ val[c] = m /\ Rounded(t, X, c.lexer, py, m)
      BY <1>8, <2>2
    <3>2. m \in {P(b) : b \in good}
      OBVIOUS
    <3> HIDE DEF m, val, P, good
    <3>3. Ended(m)
      BY <3>1 DEF Rounded
    <3> QED BY <3>1, <3>2, <3>3
  <2> HIDE DEF good, val, measure, stop, next, results
  <2> QED BY <2>1, <2>2 DEF Sinks
<1>11. good \subseteq S /\ begun \in good
  BY <1>2
<1>12. Run[begun] \in results
  <2> HIDE DEF S, good, val, measure, stop, next, results, Run, begun
  <2> QED BY <1>5, <1>7, <1>9, <1>10, <1>11, RecursionReturns
<1>13. Ended(Run[begun])
  <2> HIDE DEF good, P, Run, begun, Ended
  <2> QED BY <1>12
<1> HIDE DEF Run, begun
<1> QED BY <1>1, <1>13

-----------------------------------------------------------------------------
(* Between tokens.                                                         *)

LEMMA PastCommentIs ==
    ASSUME NEW t \in Bytes, NEW X, Closed(t, X), NEW x \in X
    PROVE  /\ Along(t, X, x, PastComment(t, x))
           /\ Lookahead(t, x) \notin {EndOfText, "\n"} => ToCome(t, PastComment(t, x)) < ToCome(t, x)
<1> DEFINE Ends(l) == Lookahead(t, l) \in {EndOfText, "\n"}
           On(l) == Advance(t, l, TRUE)
           Run[l \in Lexing] == IF Ends(l) THEN On(l) ELSE Run[On(l)]
           stop == {l \in Lexing : Ends(l)}
           next == [l \in Lexing |-> On(l)]
           far == ToCome(t, On(x))
           good == {l \in X : ToCome(t, l) <= far}
           measure == [l \in good |-> ToCome(t, l)]
<1>1. PastComment(t, x) = Run[x]
  BY DEF PastComment
<1>2. Closed(t, Lexing) /\ X \subseteq Lexing /\ x \in Lexing
  BY LexingIsClosed DEF Closed
<1>3. \A l \in Lexing : On(l) \in Lexing
  BY <1>2 DEF Closed
<1>4. next \in [Lexing -> Lexing]
  <2> HIDE DEF On
  <2> QED BY <1>3
<1>5. ASSUME NEW g, NEW l \in Lexing
      PROVE  (IF l \in stop THEN next[l] ELSE g[next[l]]) = IF Ends(l) THEN On(l) ELSE g[On(l)]
  <2>1. (l \in stop <=> Ends(l)) /\ next[l] = On(l)
    OBVIOUS
  <2> HIDE DEF stop, next, Ends, On
  <2> QED BY <2>1
<1>6. Recursive(Lexing, stop, next, next, Run)
  <2>1. PICK g : Recursive(Lexing, stop, next, next, g)
    <3> HIDE DEF stop, next
    <3> QED BY <1>4, RecursionExists
  <2>2. g = [l \in Lexing |-> IF Ends(l) THEN On(l) ELSE g[On(l)]]
    <3> HIDE DEF stop, next, Ends, On
    <3> QED BY <1>5, <2>1 DEF Recursive
  <2>3. Run = [l \in Lexing |-> IF Ends(l) THEN On(l) ELSE Run[On(l)]]
    <3> HIDE DEF Ends, On
    <3> QED BY <2>2, Zenon
  <2> HIDE DEF stop, next, Run, Ends, On
  <2> QED BY <1>5, <2>3 DEF Recursive
<1>7. ASSUME NEW l \in X
      PROVE  /\ On(l) \in X /\ ToCome(t, l) \in Nat /\ ToCome(t, On(l)) \in Nat
             /\ ToCome(t, On(l)) <= ToCome(t, l)
             /\ Lookahead(t, l) # EndOfText => ToCome(t, On(l)) < ToCome(t, l)
  <2>1. Along(t, X, l, On(l)) /\ (Lookahead(t, l) # EndOfText => ToCome(t, On(l)) < ToCome(t, l))
    BY AlongIs
  <2>2. On(l) \in X
    BY <2>1 DEF Along
  <2> HIDE DEF On
  <2> QED BY <2>1, <2>2, AlongIs DEF Along
<1> HIDE DEF On
<1>8. far \in Nat /\ far <= ToCome(t, x) /\ On(x) \in good
  BY <1>7
<1>9. measure \in [good -> Nat]
  BY <1>7
<1>10. Sinks(stop, next, next, good, good, measure)
  <2>1. ASSUME NEW l \in good, l \notin stop
        PROVE  next[l] \in good /\ measure[next[l]] < measure[l]
    <3>1. l \in X /\ next[l] = On(l) /\ Lookahead(t, l) # EndOfText /\ ToCome(t, l) <= far
      BY <1>2, <2>1
    <3>2. On(l) \in good /\ ToCome(t, On(l)) < ToCome(t, l)
      <4> HIDE DEF far
      <4> QED BY <1>7, <1>8, <3>1
    <3> HIDE DEF good
    <3> QED BY <3>1, <3>2
  <2>2. ASSUME NEW l \in good PROVE next[l] \in good
    <3>1. l \in X /\ next[l] = On(l) /\ ToCome(t, l) <= far
      BY <1>2
    <3> HIDE DEF far
    <3> QED BY <1>7, <1>8, <3>1
  <2> HIDE DEF good, measure, stop, next
  <2> QED BY <2>1, <2>2 DEF Sinks
<1>11. \A l \in good : Run[l] \in good
  <2>1. good \subseteq Lexing
    BY <1>2
  <2> HIDE DEF good, measure, stop, next, Run
  <2> QED BY <1>4, <1>6, <1>9, <1>10, <2>1, RecursionReturns
<1>12. Run[x] = IF Ends(x) THEN On(x) ELSE Run[On(x)]
  <2>1. Run[x] = IF x \in stop THEN next[x] ELSE Run[next[x]]
    <3> HIDE DEF Run, stop, next
    <3> QED BY <1>2, <1>6 DEF Recursive
  <2> HIDE DEF Run, Ends
  <2> QED BY <1>2, <1>5, <2>1
<1>13. Run[x] \in good
  <2> HIDE DEF Run, good, Ends
  <2> QED BY <1>8, <1>11, <1>12
<1>14. Run[x] \in X /\ ToCome(t, Run[x]) <= far
  <2> HIDE DEF Run, far
  <2> QED BY <1>13
<1>15. ToCome(t, Run[x]) \in Nat
  <2> HIDE DEF Run
  <2> QED BY <1>7, <1>14
<1>16. Lookahead(t, x) # EndOfText => far < ToCome(t, x)
  BY <1>7
<1> HIDE DEF Run, far
<1> QED BY <1>1, <1>7, <1>8, <1>14, <1>15, <1>16 DEF Along

\* A round of the loop reads on behind a rune, or is the last.
LinedIn(X) == [lexer : X, eol : BOOLEAN, indent : Nat, comment : Int, outcome : STRING]
LineRound(t, X, s, d) ==
    /\ d \in LinedIn(X)
    /\ \/ d.outcome = "reading" /\ ToCome(t, d.lexer) < ToCome(t, s.lexer)
       \/ d.outcome \in {"read", "failed"}

LEMMA LinedIs ==
    ASSUME NEW X, NEW x \in X, NEW eol \in BOOLEAN, NEW indent \in Nat, NEW comment \in Int,
           NEW outcome \in STRING, NEW d,
           d = [lexer |-> x, eol |-> eol, indent |-> indent, comment |-> comment, outcome |-> outcome]
    PROVE  d \in LinedIn(X) /\ d.lexer = x /\ d.outcome = outcome
BY DEF LinedIn

LEMMA LayoutOnIs ==
    ASSUME NEW t \in Bytes, NEW X, Closed(t, X), NEW s \in LinedIn(X), s.outcome = "reading", NEW valid
    PROVE  LineRound(t, X, s, LayoutOn(t, s, valid))
<1> DEFINE x    == s.lexer
           r    == Lookahead(t, x)
           on   == Advance(t, x, TRUE)
           line == Over(t, on, {"\r"}, TRUE)
           d    == LayoutOn(t, s, valid)
           Is(l, eol, n, comment, outcome) ==
               d = [lexer |-> l, eol |-> eol, indent |-> n, comment |-> comment, outcome |-> outcome]
<1>1. /\ s = [lexer |-> s.lexer, eol |-> s.eol, indent |-> s.indent, comment |-> s.comment,
              outcome |-> s.outcome]
      /\ x \in X /\ s.eol \in BOOLEAN /\ s.indent \in Nat /\ s.comment \in Int
  BY DEF LinedIn
<1>2. \/ \E eol \in BOOLEAN, n \in Nat : Is(x, eol, n, s.comment, "read")
      \/ Is(x, s.eol, s.indent, s.comment, "failed")
      \/ /\ r # EndOfText
         /\ \E l \in {on, Advance(t, line, TRUE)} \cup {y \in {PastComment(t, x)} : r # "\n"} :
            \E eol \in BOOLEAN, n \in Nat, comment \in Int : Is(l, eol, n, comment, "reading")
  <2>0. Wrapped(s.indent + 1) \in Nat /\ Wrapped(s.indent + 8) \in Nat
    BY <1>1 DEF Wrapped
  <2> DEFINE starts == valid \cap {"indent", "dedent", "newline", "except"} # {}
             behind == Lookahead(t, line) \in {"\n", EndOfText}
             w1 == Wrapped(s.indent + 1)  w8 == Wrapped(s.indent + 8)
             past == PastComment(t, x)  over == Advance(t, line, TRUE)
             first == IF s.comment = NotSeen THEN s.indent ELSE s.comment
  <2>e. EndOfText = "NUL"
    BY DEF EndOfText
  <2>d. d = IF r = "\n" THEN [s EXCEPT !.lexer = on, !.eol = TRUE, !.indent = 0]
            ELSE IF r = " " THEN [s EXCEPT !.lexer = on, !.indent = w1]
            ELSE IF r = "\t" THEN [s EXCEPT !.lexer = on, !.indent = w8]
            ELSE IF r = "\r" THEN [s EXCEPT !.lexer = on, !.indent = 0]
            ELSE IF r = "#" /\ starts
            THEN IF ~ s.eol THEN [s EXCEPT !.outcome = "failed"]
                 ELSE [s EXCEPT !.lexer = past, !.indent = 0, !.comment = first]
            ELSE IF r = "\\"
            THEN IF behind THEN [s EXCEPT !.lexer = over] ELSE [s EXCEPT !.outcome = "failed"]
            ELSE IF r = EndOfText THEN [s EXCEPT !.indent = 0, !.eol = TRUE, !.outcome = "read"]
            ELSE [s EXCEPT !.outcome = "read"]
    BY <2>e DEF LayoutOn
  <2> HIDE DEF d, r, on, line, starts, behind, w1, w8, past, over, first
  <2>1. w1 \in Nat /\ w8 \in Nat /\ first \in Int
    BY <1>1, <2>0 DEF w1, w8, first
  <2>2. CASE r \in {"\n", " ", "\t", "\r"}
    <3> DEFINE eol == IF r = "\n" THEN TRUE ELSE s.eol
               n == IF r = " " THEN w1 ELSE IF r = "\t" THEN w8
                    ELSE IF r \in {"\n", "\r"} THEN 0 ELSE s.indent
    <3>1. eol \in BOOLEAN /\ n \in Nat
      BY <1>1, <2>1
    <3>2. d = [s EXCEPT !.lexer = on, !.eol = eol, !.indent = n]
      <4>1. CASE r = "\n"
        BY <1>1, <2>d, <4>1
      <4>2. CASE r = " "
        BY <1>1, <2>d, <4>2
      <4>3. CASE r = "\t"
        BY <1>1, <2>d, <4>3
      <4>4. CASE r = "\r"
        BY <1>1, <2>d, <4>4
      <4> QED BY <2>2, <4>1, <4>2, <4>3, <4>4
    <3>3. r # EndOfText
      BY <2>2, <2>e
    <3> HIDE DEF eol, n
    <3>4. Is(on, eol, n, s.comment, "reading")
      BY <1>1, <3>2
    <3> HIDE DEF Is
    <3> QED BY <1>1, <3>1, <3>3, <3>4
  <2>3. CASE r = "#" /\ starts /\ s.eol
    <3>1. d = [s EXCEPT !.lexer = past, !.indent = 0, !.comment = first] /\ r # EndOfText /\ r # "\n"
      BY <2>d, <2>e, <2>3
    <3>2. Is(past, s.eol, 0, first, "reading")
      BY <1>1, <3>1
    <3>3. past \in {y \in {PastComment(t, x)} : r # "\n"}
      BY <3>1 DEF past
    <3> HIDE DEF Is
    <3> QED BY <1>1, <2>1, <3>1, <3>2, <3>3
  <2>4. CASE r = "\\" /\ behind
    <3>1. d = [s EXCEPT !.lexer = over] /\ r # EndOfText
      BY <2>d, <2>e, <2>4
    <3>2. Is(over, s.eol, s.indent, s.comment, "reading")
      BY <1>1, <3>1
    <3> HIDE DEF Is
    <3> QED BY <1>1, <3>1, <3>2 DEF over
  <2>5. CASE \/ r = "#" /\ starts /\ ~ s.eol
             \/ r = "\\" /\ ~ behind
    <3>1. d = [s EXCEPT !.outcome = "failed"]
      BY <2>d, <2>5
    <3>2. Is(x, s.eol, s.indent, s.comment, "failed")
      BY <1>1, <3>1
    <3> QED BY <3>2
  <2>6. CASE r \notin {"\n", " ", "\t", "\r", "\\"} /\ ~ (r = "#" /\ starts)
    <3> DEFINE eol == IF r = EndOfText THEN TRUE ELSE s.eol
               n == IF r = EndOfText THEN 0 ELSE s.indent
    <3>1. eol \in BOOLEAN /\ n \in Nat
      BY <1>1
    <3>2. d = [s EXCEPT !.indent = n, !.eol = eol, !.outcome = "read"]
      <4>1. CASE r = EndOfText
        BY <1>1, <2>d, <2>6, <4>1
      <4>2. CASE r # EndOfText
        BY <1>1, <2>d, <2>6, <4>2
      <4> QED BY <4>1, <4>2
    <3> HIDE DEF eol, n
    <3>3. Is(x, eol, n, s.comment, "read")
      BY <1>1, <3>2
    <3> HIDE DEF Is
    <3> QED BY <3>1, <3>3
  <2> QED BY <2>2, <2>3, <2>4, <2>5, <2>6
<1>3. ASSUME NEW l \in {on, Advance(t, line, TRUE)} \cup {y \in {PastComment(t, x)} : r # "\n"}, r # EndOfText
      PROVE  l \in X /\ ToCome(t, l) < ToCome(t, x)
  <2> HIDE DEF x
  <2>1. on \in X /\ ToCome(t, on) < ToCome(t, x) /\ ToCome(t, x) \in Nat
    BY <1>1, <1>3, AlongIs DEF Along
  <2> HIDE DEF on
  <2>2. Along(t, X, on, line)
    BY <2>1, OverIs
  <2> HIDE DEF line
  <2>3. Along(t, X, line, Advance(t, line, TRUE))
    BY <2>2, AlongIs DEF Along
  <2>4. Along(t, X, on, Advance(t, line, TRUE))
    BY <2>1, <2>2, <2>3, AlongOn
  <2>5. r # "\n" => /\ PastComment(t, x) \in X /\ ToCome(t, PastComment(t, x)) < ToCome(t, x)
    BY <1>1, <1>3, PastCommentIs DEF Along
  <2>6. Advance(t, line, TRUE) \in X /\ ToCome(t, Advance(t, line, TRUE)) <= ToCome(t, on)
    BY <2>4 DEF Along
  <2>7. ToCome(t, on) \in Nat /\ ToCome(t, Advance(t, line, TRUE)) \in Nat
    BY <2>1, <2>6, AlongIs
  <2> DEFINE over == Advance(t, line, TRUE)
  <2>8. ToCome(t, over) < ToCome(t, x)
    <3>1. ToCome(t, over) \in Nat /\ ToCome(t, over) <= ToCome(t, on)
      BY <2>6, <2>7
    <3> HIDE DEF over
    <3> QED BY <2>1, <2>7, <3>1
  <2> QED BY <1>3, <2>1, <2>5, <2>6, <2>8
<1>4. {"reading", "read", "failed"} \subseteq STRING
  BY OutcomesAreStrings
<1> HIDE DEF d, x, on, line, r
<1>5. LineRound(t, X, s, d)
  <2>1. ASSUME NEW eol \in BOOLEAN, NEW n \in Nat, Is(x, eol, n, s.comment, "read") PROVE LineRound(t, X, s, d)
    <3>1. d \in LinedIn(X) /\ d.outcome = "read"
      BY <1>1, <1>4, <2>1, LinedIs
    <3> QED BY <3>1 DEF LineRound
  <2>2. ASSUME Is(x, s.eol, s.indent, s.comment, "failed") PROVE LineRound(t, X, s, d)
    <3>1. d \in LinedIn(X) /\ d.outcome = "failed"
      BY <1>1, <1>4, <2>2, LinedIs
    <3> QED BY <3>1 DEF LineRound
  <2>3. ASSUME NEW l \in {on, Advance(t, line, TRUE)} \cup {y \in {PastComment(t, x)} : r # "\n"},
               NEW eol \in BOOLEAN, NEW n \in Nat, NEW comment \in Int, r # EndOfText,
               Is(l, eol, n, comment, "reading")
        PROVE  LineRound(t, X, s, d)
    <3>1. l \in X /\ ToCome(t, l) < ToCome(t, x)
      BY <1>3, <2>3
    <3>2. d \in LinedIn(X) /\ d.outcome = "reading" /\ d.lexer = l
      BY <1>4, <2>3, <3>1, LinedIs
    <3> QED BY <3>1, <3>2 DEF LineRound, x
  <2> HIDE DEF Is
  <2> QED BY <1>2, <2>1, <2>2, <2>3
<1> QED BY <1>5 DEF d

LEMMA LayoutIs ==
    ASSUME NEW t \in Bytes, NEW X, Closed(t, X), NEW x \in X, NEW valid
    PROVE  Layout(t, x, valid) \in LinedIn(X)
<1> DEFINE Ends(s) == s.outcome # "reading"
           On(s) == LayoutOn(t, s, valid)
           Run[s \in Lined] == IF Ends(s) THEN s ELSE Run[On(s)]
           begun == [lexer |-> MarkEnd(x), eol |-> FALSE, indent |-> 0, comment |-> NotSeen,
                     outcome |-> "reading"]
           stop == {s \in Lined : Ends(s)}
           val  == [s \in Lined |-> s]
           next == [s \in Lined |-> IF s \in stop THEN s ELSE On(s)]
           good == LinedIn(X)
           measure == [s \in good |-> IF Ends(s) THEN 0 ELSE ToCome(t, s.lexer) + 1]
<1>1. Layout(t, x, valid) = Run[begun]
  <2>1. Layout(t, x, valid)
          = LET Round[s \in Lined] == IF s.outcome # "reading" THEN s ELSE Round[LayoutOn(t, s, valid)]
            IN  Round[begun]
    BY DEF Layout
  <2> QED BY <2>1
<1>2. Closed(t, Lexing) /\ X \subseteq Lexing /\ MarkEnd(x) \in X
  BY LexingIsClosed DEF Closed
<1>3. Lined = LinedIn(Lexing) /\ good \subseteq Lined
  BY <1>2 DEF Lined, LinedIn
<1>4. ASSUME NEW Y, Closed(t, Y), NEW s \in LinedIn(Y), ~ Ends(s)
      PROVE  On(s) \in LinedIn(Y) /\ (Ends(On(s)) \/ ToCome(t, On(s).lexer) < ToCome(t, s.lexer))
  <2> DEFINE d == LayoutOn(t, s, valid)
  <2>1. s.outcome = "reading"
    BY <1>4
  <2>2. LineRound(t, Y, s, d)
    BY <1>4, <2>1, LayoutOnIs
  <2> HIDE DEF d
  <2>3. d \in LinedIn(Y) /\ (d.outcome # "reading" \/ ToCome(t, d.lexer) < ToCome(t, s.lexer))
    BY <2>2 DEF LineRound
  <2> QED BY <2>3 DEF d
<1> HIDE DEF On
<1>5. \A s \in Lined : s \notin stop => On(s) \in Lined
  <2>1. \A s \in Lined : s \notin stop => ~ Ends(s)
    OBVIOUS
  <2> HIDE DEF stop, Ends
  <2> QED BY <1>2, <1>3, <1>4, <2>1
<1>6. next \in [Lined -> Lined] /\ val \in [Lined -> Lined]
  <2> HIDE DEF stop
  <2> QED BY <1>5
<1>7. ASSUME NEW g, NEW s \in Lined
      PROVE  (IF s \in stop THEN val[s] ELSE g[next[s]]) = IF Ends(s) THEN s ELSE g[On(s)]
  <2>1. (s \in stop <=> Ends(s)) /\ val[s] = s /\ (s \notin stop => next[s] = On(s))
    OBVIOUS
  <2> HIDE DEF stop, next, val, Ends
  <2> QED BY <2>1
<1>8. Recursive(Lined, stop, val, next, Run)
  <2>1. PICK g : Recursive(Lined, stop, val, next, g)
    <3> HIDE DEF stop, next, val
    <3> QED BY <1>6, RecursionExists
  <2>2. g = [s \in Lined |-> IF Ends(s) THEN s ELSE g[On(s)]]
    <3> HIDE DEF stop, next, val, Ends
    <3> QED BY <1>7, <2>1 DEF Recursive
  <2>3. Run = [s \in Lined |-> IF Ends(s) THEN s ELSE Run[On(s)]]
    <3> HIDE DEF Ends
    <3> QED BY <2>2, Zenon
  <2> HIDE DEF stop, next, val, Run, Ends
  <2> QED BY <1>7, <2>3 DEF Recursive
<1>9. ASSUME NEW s \in good
      PROVE s \in Lined /\ s.lexer \in X /\ s.lexer \in Lexing /\ ToCome(t, s.lexer) \in Nat
  <2>1. s \in Lined /\ s.lexer \in X
    BY <1>3 DEF LinedIn
  <2> QED BY <1>2, <2>1, ToComeIs
<1>10. measure \in [good -> Nat]
  <2> HIDE DEF good
  <2> QED BY <1>9
<1>11. Sinks(stop, val, next, good, good, measure)
  <2>1. ASSUME NEW s \in good, s \notin stop
        PROVE  next[s] \in good /\ measure[next[s]] < measure[s]
    <3>1. s \in Lined /\ ~ Ends(s) /\ next[s] = On(s)
      BY <1>9, <2>1
    <3> HIDE DEF next, Ends
    <3>2. On(s) \in good /\ (Ends(On(s)) \/ ToCome(t, On(s).lexer) < ToCome(t, s.lexer))
      BY <1>4, <3>1
    <3> HIDE DEF good
    <3>3. ToCome(t, s.lexer) \in Nat /\ ToCome(t, On(s).lexer) \in Nat
      BY <1>9, <3>2
    <3> QED BY <3>1, <3>2, <3>3
  <2>2. ASSUME NEW s \in good, s \in stop PROVE val[s] \in good
    <3>1. val[s] = s
      BY <1>9
    <3> QED BY <3>1
  <2> HIDE DEF good, val, measure, stop, next
  <2> QED BY <2>1, <2>2 DEF Sinks
<1>12. begun \in good
  <2>1. {"reading"} \subseteq STRING /\ NotSeen \in Int
    BY OutcomesAreStrings DEF NotSeen
  <2> QED BY <1>2, <2>1 DEF LinedIn
<1>13. Run[begun] \in good
  <2> HIDE DEF good, val, measure, stop, next, Run, begun
  <2> QED BY <1>3, <1>6, <1>8, <1>10, <1>11, <1>12, RecursionReturns
<1> HIDE DEF Run, begun
<1> QED BY <1>1, <1>13

\* A line end stands for the start or the end of a block, for itself, or for
\* nothing.
LEMMA LineTokensAre ==
    ASSUME NEW t \in Bytes, NEW X, Closed(t, X), NEW line \in LinedIn(X), NEW py \in PythonState,
           NEW valid, NEW recovering
    PROVE  LET ended == LineTokens(t, line, py, valid, recovering)
           IN  ended = << >> \/ Result(X, py, ended[1])
<1> DEFINE current == Innermost(py.indents)
           x == line.lexer
           opened == Emitted(x, "indent", [py EXCEPT !.indents = Append(py.indents, line.indent)])
           closed == Emitted(x, "dedent", [py EXCEPT !.indents = Outer(py.indents)])
           ended  == LineTokens(t, line, py, valid, recovering)
<1>1. x \in X /\ line.indent \in Nat /\ current \in Nat
  BY StateIs DEF LinedIn
<1>2. \/ ended = << >>
      \/ ended = <<opened>> /\ line.indent > current
      \/ ended = <<closed>> /\ line.indent < current
      \/ ended = <<Emitted(x, "newline", py)>>
  <2> HIDE DEF opened, closed, current
  <2>1. \/ ended = << >>
        \/ ended = <<opened>> /\ line.indent > current
        \/ ended = <<closed>> /\ line.indent < current
        \/ ended = <<Emitted(x, "newline", py)>>
    BY DEF LineTokens, opened, closed, current
  <2> QED BY <2>1
<1>3. {"indent", "dedent", "newline"} \subseteq Symbols
  BY DEF Symbols
<1>4. line.indent > current => Result(X, py, opened)
  <2> DEFINE d == [py EXCEPT !.indents = Append(py.indents, line.indent)]
  <2>1. line.indent > current => Nested(py, "indent", d)
    BY <1>1, OpensBlock
  <2> HIDE DEF d, current, x
  <2>2. line.indent > current => Result(X, py, Emitted(x, "indent", d))
    BY <1>1, <1>3, <2>1, EmittedIs
  <2> QED BY <2>2 DEF d
<1>5. line.indent < current => Result(X, py, closed)
  <2> DEFINE d == [py EXCEPT !.indents = Outer(py.indents)]
  <2>1. line.indent < current => Nested(py, "dedent", d)
    BY <1>1, ClosesBlock
  <2> HIDE DEF d, current, x
  <2>2. line.indent < current => Result(X, py, Emitted(x, "dedent", d))
    BY <1>1, <1>3, <2>1, EmittedIs
  <2> QED BY <2>2 DEF d
<1>6. Result(X, py, Emitted(x, "newline", py))
  <2>1. Nested(py, "newline", py)
    BY StaysNested
  <2> HIDE DEF x
  <2> QED BY <1>1, <1>3, <2>1, EmittedIs
<1> HIDE DEF opened, closed, ended, current, x
<1>7. ended = << >> \/ Result(X, py, ended[1])
  BY <1>2, <1>4, <1>5, <1>6
<1> QED BY <1>7 DEF ended

-----------------------------------------------------------------------------
(* At the beginning of a string.                                           *)

LEMMA QuotedIs ==
    ASSUME NEW t \in Bytes, NEW X, Closed(t, X), NEW x \in X, NEW py \in PythonState,
           NEW quote \in Quotes, NEW flags \in SUBSET Flags
    PROVE  Result(X, py, Quoted(t, x, quote, flags, py))
<1> DEFINE two   == Over(t, x, {quote}, FALSE)
           three == Over(t, two, {quote}, FALSE)
           triple == three.at.pos = x.at.pos + 2
           l == IF triple THEN MarkEnd(three) ELSE two
           e == [quote |-> quote, flags |-> flags, triple |-> triple]
           inside == "f" \in flags
           d == [py EXCEPT !.delimiters = Append(py.delimiters, e), !.inside = inside]
<1>1. two \in X
  BY OverIs DEF Along
<1>2. three \in X
  <2> HIDE DEF two
  <2> QED BY <1>1, OverIs DEF Along
<1>3. l \in X
  <2> HIDE DEF two, three, triple
  <2> QED BY <1>1, <1>2 DEF Closed
<1>4. e \in Delimiter /\ inside \in BOOLEAN
  <2> HIDE DEF three
  <2> QED BY DEF Delimiter, Flags
<1>5. Nested(py, "string_start", d)
  <2> HIDE DEF e, inside
  <2> QED BY <1>4, OpensString
<1>6. Quoted(t, x, quote, flags, py) = Emitted(l, "string_start", d)
  BY DEF Quoted
<1>7. "string_start" \in Symbols
  BY DEF Symbols
<1> HIDE DEF l, d
<1> QED BY <1>3, <1>5, <1>6, <1>7, EmittedIs

\* The loop reads flags, each a rune of the text.
LEMMA StringStartIs ==
    ASSUME NEW t \in Bytes, NEW X, Closed(t, X), NEW x \in X, NEW py \in PythonState
    PROVE  Result(X, py, StringStart(t, x, py))
<1> DEFINE S == [lexer : Lexing, flags : SUBSET Flags]
           Rune(c) == Lookahead(t, c.lexer)
           Nx(c) == [lexer |-> Advance(t, c.lexer, FALSE), flags |-> c.flags \cup {Rune(c)}]
           Last(c) == IF Rune(c) \in Quotes
                      THEN Quoted(t, MarkEnd(Advance(t, c.lexer, FALSE)), Rune(c), c.flags, py)
                      ELSE Failed(c.lexer, py)
           Run[c \in S] == IF Rune(c) \in Flags THEN Run[Nx(c)] ELSE Last(c)
           begun == [lexer |-> x, flags |-> {}]
           stop == {c \in S : Rune(c) \notin Flags}
           val == [c \in S |-> Last(c)]
           next == [c \in S |-> IF c \in stop THEN c ELSE Nx(c)]
           good == [lexer : X, flags : SUBSET Flags]
           measure == [c \in good |-> ToCome(t, c.lexer)]
           results == {m \in {Last(c) : c \in good} : Result(X, py, m)}
<1>1. StringStart(t, x, py) = Run[begun]
  <2>1. StringStart(t, x, py)
          = LET Round[c \in [lexer : Lexing, flags : SUBSET Flags]] ==
                  LET r == Lookahead(t, c.lexer)
                  IN  IF r \in Flags
                      THEN Round[[lexer |-> Advance(t, c.lexer, FALSE), flags |-> c.flags \cup {r}]]
                      ELSE IF r \in Quotes
                      THEN Quoted(t, MarkEnd(Advance(t, c.lexer, FALSE)), r, c.flags, py)
                      ELSE Failed(c.lexer, py)
            IN  Round[begun]
    BY DEF StringStart
  <2> QED BY <2>1
<1>2. Closed(t, Lexing) /\ X \subseteq Lexing
  BY LexingIsClosed DEF Closed
<1>3. ASSUME NEW Y, Closed(t, Y), NEW c \in [lexer : Y, flags : SUBSET Flags]
      PROVE  /\ Rune(c) \in Flags => Nx(c) \in [lexer : Y, flags : SUBSET Flags]
             /\ Rune(c) \in Flags => ToCome(t, Nx(c).lexer) < ToCome(t, c.lexer)
             /\ Result(Y, py, Last(c))
  <2> DEFINE r == Rune(c)  on == Advance(t, c.lexer, FALSE)
  <2>1. c.lexer \in Y /\ c.flags \in SUBSET Flags /\ on \in Y /\ MarkEnd(on) \in Y
    <3>1. c.lexer \in Y /\ c.flags \in SUBSET Flags
      OBVIOUS
    <3>2. on \in Y
      BY <1>3, <3>1 DEF Closed
    <3> HIDE DEF on
    <3> QED BY <1>3, <3>1, <3>2 DEF Closed
  <2>2. Nx(c) = [lexer |-> on, flags |-> c.flags \cup {r}]
    OBVIOUS
  <2>3. r \in Flags => ToCome(t, on) < ToCome(t, c.lexer)
    <3>1. r \in Flags => Lookahead(t, c.lexer) # EndOfText
      BY DEF Flags, EndOfText
    <3> QED BY <1>3, <2>1, <3>1, AlongIs
  <2>4. Last(c) = IF r \in Quotes THEN Quoted(t, MarkEnd(on), r, c.flags, py) ELSE Failed(c.lexer, py)
    OBVIOUS
  <2> HIDE DEF r, on, Nx, Last
  <2>5. Result(Y, py, Last(c))
    <3>1. Result(Y, py, Failed(c.lexer, py))
      BY <2>1, FailedIs
    <3>2. r \in Quotes => Result(Y, py, Quoted(t, MarkEnd(on), r, c.flags, py))
      BY <1>3, <2>1, QuotedIs
    <3> QED BY <2>4, <3>1, <3>2
  <2> QED BY <2>1, <2>2, <2>3, <2>5 DEF r
<1> HIDE DEF Nx, Last, Rune
<1>4. S = [lexer : Lexing, flags : SUBSET Flags]
  OBVIOUS
<1>5. \A c \in S : c \notin stop => Nx(c) \in S
  <2>1. \A c \in S : c \notin stop => Rune(c) \in Flags
    OBVIOUS
  <2>2. \A c \in S : Rune(c) \in Flags => Nx(c) \in S
    BY <1>2, <1>3
  <2> HIDE DEF S, stop
  <2> QED BY <2>1, <2>2
<1>6. next \in [S -> S]
  <2> HIDE DEF S, stop
  <2> QED BY <1>5
<1>7. ASSUME NEW g, NEW c \in S
      PROVE  (IF c \in stop THEN val[c] ELSE g[next[c]])
               = IF Rune(c) \in Flags THEN g[Nx(c)] ELSE Last(c)
  <2>1. (c \in stop <=> Rune(c) \notin Flags) /\ val[c] = Last(c)
        /\ (c \notin stop => next[c] = Nx(c))
    OBVIOUS
  <2> HIDE DEF S, stop, next, val
  <2> QED BY <2>1
<1>8. Recursive(S, stop, val, next, Run)
  <2>1. PICK g : Recursive(S, stop, val, next, g)
    <3> HIDE DEF S, stop, next, val
    <3> QED BY <1>6, RecursionExists
  <2>2. g = [c \in S |-> IF Rune(c) \in Flags THEN g[Nx(c)] ELSE Last(c)]
    <3> HIDE DEF S, stop, next, val
    <3> QED BY <1>7, <2>1 DEF Recursive
  <2>3. Run = [c \in S |-> IF Rune(c) \in Flags THEN Run[Nx(c)] ELSE Last(c)]
    <3> HIDE DEF S
    <3> QED BY <2>2, Zenon
  <2> HIDE DEF S, stop, next, val, Run
  <2> QED BY <1>7, <2>3 DEF Recursive
<1>9. good \subseteq S /\ begun \in good
  BY <1>2
<1>10. ASSUME NEW c \in good PROVE ToCome(t, c.lexer) \in Nat
  <2>1. c.lexer \in Lexing
    BY <1>2
  <2> QED BY <2>1, ToComeIs
<1>11. measure \in [good -> Nat]
  <2> HIDE DEF good
  <2> QED BY <1>10
<1>12. Sinks(stop, val, next, good, results, measure)
  <2>1. ASSUME NEW c \in good, c \notin stop
        PROVE  next[c] \in good /\ measure[next[c]] < measure[c]
    <3>1. Rune(c) \in Flags /\ next[c] = Nx(c)
      BY <1>9, <2>1
    <3>2. Nx(c) \in good /\ ToCome(t, Nx(c).lexer) < ToCome(t, c.lexer)
      BY <1>3, <3>1
    <3> HIDE DEF good, next
    <3> QED BY <3>1, <3>2
  <2>2. ASSUME NEW c \in good, c \in stop PROVE val[c] \in results
    <3>1. val[c] = Last(c)
      BY <1>9
    <3>2. Result(X, py, Last(c))
      BY <1>3
    <3> HIDE DEF good, val
    <3> QED BY <3>1, <3>2
  <2> HIDE DEF good, val, measure, stop, next, results
  <2> QED BY <2>1, <2>2 DEF Sinks
<1>13. Run[begun] \in results
  <2> HIDE DEF S, good, val, measure, stop, next, results, Run, begun
  <2> QED BY <1>6, <1>8, <1>9, <1>11, <1>12, RecursionReturns
<1> HIDE DEF Run, begun
<1> QED BY <1>1, <1>13

-----------------------------------------------------------------------------
(* A scan as a whole.                                                      *)

LEMMA AfterLayoutIs ==
    ASSUME NEW t \in Bytes, NEW X, Closed(t, X), NEW line \in LinedIn(X), NEW py \in PythonState,
           NEW valid, NEW ended, ended = << >> \/ Result(X, py, ended[1])
    PROVE  Result(X, py, AfterLayout(t, line, py, valid, ended))
<1>1. line.lexer \in X
  BY DEF LinedIn
<1>2. Result(X, py, Failed(line.lexer, py)) /\ Result(X, py, StringStart(t, line.lexer, py))
  BY <1>1, FailedIs, StringStartIs
<1>3. \/ ended # << >> /\ AfterLayout(t, line, py, valid, ended) = ended[1]
      \/ AfterLayout(t, line, py, valid, ended) = StringStart(t, line.lexer, py)
      \/ AfterLayout(t, line, py, valid, ended) = Failed(line.lexer, py)
  BY DEF AfterLayout
<1> QED BY <1>2, <1>3

\* Whatever a scan is asked for, it keeps to the lexers it may go on with.
LEMMA ScanPythonIs ==
    ASSUME NEW t \in Bytes, NEW X, Closed(t, X), NEW x \in X, NEW py \in PythonState, NEW valid
    PROVE  Result(X, py, ScanPython(t, x, py, valid))
<1> DEFINE recovering == {"string_content", "indent"} \subseteq valid
           inString   == py.delimiters # << >> /\ ~ recovering
           Line(line) == AfterLayout(t, line, py, valid, LineTokens(t, line, py, valid, recovering))
           begun == [outcome |-> "running", lexer |-> x, state |-> py]
           m == IF inString /\ "string_content" \in valid THEN Content(t, x, py) ELSE begun
           scanned == ScanPython(t, x, py, valid)
<1>1. \/ scanned = EscapeInterpolation(t, x, py)
      \/ scanned = IF m.outcome # "running" THEN m ELSE Line(Layout(t, m.lexer, valid))
  <2> HIDE DEF recovering, Line
  <2> QED BY DEF ScanPython, recovering, Line
<1>2. Result(X, py, EscapeInterpolation(t, x, py))
  BY EscapeIs
<1>3. (m.outcome = "running" /\ m.lexer \in X /\ m.state = py) \/ Result(X, py, m)
  <2>1. CASE inString /\ "string_content" \in valid
    <3>1. py.delimiters # << >> /\ m = Content(t, x, py)
      BY <2>1
    <3> HIDE DEF m, inString
    <3> QED BY <3>1, ContentIs
  <2>2. CASE ~ (inString /\ "string_content" \in valid)
    <3>1. m = begun
      BY <2>2
    <3> HIDE DEF m, inString
    <3> QED BY <3>1
  <2> QED BY <2>1, <2>2
<1>4. ASSUME NEW line \in LinedIn(X) PROVE Result(X, py, Line(line))
  <2> HIDE DEF recovering
  <2>1. LET ended == LineTokens(t, line, py, valid, recovering) IN ended = << >> \/ Result(X, py, ended[1])
    BY LineTokensAre
  <2> QED BY <2>1, AfterLayoutIs
<1> HIDE DEF m, Line, scanned
<1>5. m.lexer \in X => Result(X, py, Line(Layout(t, m.lexer, valid)))
  BY <1>4, LayoutIs
<1>6. m.outcome = "running" => m.lexer \in X
  BY <1>3 DEF Result
<1>7. Result(X, py, scanned)
  BY <1>1, <1>2, <1>3, <1>5, <1>6
<1> QED BY <1>7 DEF scanned

-----------------------------------------------------------------------------
(* The scanner in a language.                                              *)

\* A Python scanner as it is attached to a language (python_scanner.go).
AttachedPython(scanner) ==
    /\ CreateScanner(scanner) = CreatePython
    /\ \A s : ScannerState(scanner, s) <=> s \in PythonState
    /\ \A t, lexer, s, valid :
          RunScanner(scanner, t, lexer, s, valid) = ScanPython(t, lexer, s, valid)
PythonsAreAttached ==
    \A l \in Languages : \A scanner \in l.scanner : IsPython(scanner) => AttachedPython(scanner)

\* A scan from a place of the text keeps to what is behind it.
LEMMA ScanIsForward ==
    ASSUME NEW t \in Bytes, NEW at \in Right(t), NEW py \in PythonState, NEW valid
    PROVE  Result(Forward(PlacesFrom(t, at)), py, ScanPython(t, NewExternalLexer(at), py, valid))
<1> DEFINE Q == PlacesFrom(t, at)  x == NewExternalLexer(at)
<1>1. OnRunes(t, Q) /\ at \in Q
  BY PlacesFromAre
<1>2. at.pos \in Nat
  BY DEF Right, Place
<1> HIDE DEF Q
<1>3. x \in Forward(Q)
  BY <1>1, <1>2 DEF Forward, Lexers, NewExternalLexer
<1>4. Closed(t, Forward(Q))
  BY <1>1, ForwardIsClosed
<1> HIDE DEF x
<1>5. Result(Forward(Q), py, ScanPython(t, x, py, valid))
  BY <1>3, <1>4, ScanPythonIs
<1> QED BY <1>5 DEF Q, x

LEMMA CreatedIs == CreatePython \in PythonState
BY DEF CreatePython, PythonState

LEMMA ResultIs ==
    ASSUME NEW X, NEW py \in PythonState, NEW m, Result(X, py, m)
    PROVE  m.lexer \in X /\ m.state \in PythonState
<1>1. m.lexer \in X /\ (m.state = py \/ \E symbol \in Symbols : Nested(py, symbol, m.state))
  BY DEF Result
<1> QED BY <1>1 DEF Nested

\* What is asked of scanners holds of Python's.
LEMMA PythonUsesItsLexer ==
    ASSUME NEW l \in Languages, NEW scanner, AttachedPython(scanner)
    PROVE  UsesItsLexer(l, scanner)
<1>1. /\ CreateScanner(scanner) = CreatePython
      /\ \A s : ScannerState(scanner, s) <=> s \in PythonState
      /\ \A t, lexer, s, valid :
            RunScanner(scanner, t, lexer, s, valid) = ScanPython(t, lexer, s, valid)
  BY DEF AttachedPython
<1>2. ScannerState(scanner, CreateScanner(scanner))
  BY <1>1, CreatedIs
<1>3. ASSUME NEW t \in Texts(l), NEW at \in Right(t), NEW s, NEW valid, ScannerState(scanner, s)
      PROVE  LET m == RunScanner(scanner, t, NewExternalLexer(at), s, valid)
             IN  ScannerState(scanner, m.state) /\ Scanned(t, at, m)
  <2> DEFINE m == RunScanner(scanner, t, NewExternalLexer(at), s, valid)
             Q == PlacesFrom(t, at)
  <2>1. t \in Bytes /\ s \in PythonState
    BY <1>1, <1>3, LanguagesAreTables DEF Bytes
  <2>2. Result(Forward(Q), s, ScanPython(t, NewExternalLexer(at), s, valid))
    BY <2>1, ScanIsForward
  <2>3. m = ScanPython(t, NewExternalLexer(at), s, valid)
    BY <1>1
  <2> HIDE DEF m, Q
  <2>4. m.lexer \in Forward(Q) /\ m.state \in PythonState
    BY <2>1, <2>2, <2>3, ResultIs
  <2>5. m.lexer.begin \in Q /\ m.lexer.end \in Q /\ m.lexer.result \subseteq STRING
    BY <2>4 DEF Forward, Lexers
  <2> QED BY <1>1, <2>4, <2>5 DEF Scanned, Q, m, PlacesFrom
<1> QED BY <1>2, <1>3 DEF UsesItsLexer

-----------------------------------------------------------------------------
(* The stacks are those of the tokens.                                     *)

Of(ts, symbol) == {i \in DOMAIN ts : ts[i].kind = "scanned" /\ ts[i].token.symbol = symbol}

LEMMA CountIs ==
    ASSUME NEW S, NEW ts \in Seq(S), NEW k \in S, NEW symbol
    PROVE  /\ Cardinality(Of(ts, symbol)) \in Nat
           /\ Cardinality(Of(Append(ts, k), symbol))
                = IF k.kind = "scanned" /\ k.token.symbol = symbol THEN Cardinality(Of(ts, symbol)) + 1
                  ELSE Cardinality(Of(ts, symbol))
<1> DEFINE n == Len(ts)  more == Append(ts, k)
<1>1. /\ n \in Nat /\ DOMAIN ts = 1 .. n /\ DOMAIN more = 1 .. n + 1 /\ more[n + 1] = k
      /\ \A i \in 1 .. n : more[i] = ts[i]
  OBVIOUS
<1> HIDE DEF n, more
<1>2. IsFiniteSet(Of(ts, symbol)) /\ n + 1 \notin Of(ts, symbol)
  <2>1. Of(ts, symbol) \subseteq 1 .. n
    BY <1>1 DEF Of
  <2>2. IsFiniteSet(1 .. n) /\ n + 1 \notin 1 .. n
    BY <1>1, FS_Interval
  <2> QED BY <2>1, <2>2, FS_Subset
<1>3. Of(more, symbol) = IF k.kind = "scanned" /\ k.token.symbol = symbol
                         THEN Of(ts, symbol) \cup {n + 1} ELSE Of(ts, symbol)
  <2>1. \A i : i \in 1 .. n + 1 <=> i \in 1 .. n \/ i = n + 1
    BY <1>1
  <2> QED BY <1>1, <2>1 DEF Of
<1>4. Cardinality(Of(ts, symbol) \cup {n + 1}) = Cardinality(Of(ts, symbol)) + 1
  BY <1>2, FS_AddElement
<1> QED BY <1>2, <1>3, <1>4, FS_CardinalityType DEF more

Ascending(s) == \A i \in 1 .. Len(s) - 1 : s[i] < s[i + 1]

\* What a token adds to a stack.
Changes(symbol, open, close) == IF symbol = open THEN 1 ELSE IF symbol = close THEN -1 ELSE 0

LEMMA NestedIs ==
    ASSUME NEW py \in PythonState, NEW symbol \in Symbols, NEW d, Nested(py, symbol, d),
           Ascending(py.indents)
    PROVE  /\ Ascending(d.indents)
           /\ Len(d.indents) = Len(py.indents) + Changes(symbol, "indent", "dedent")
           /\ Len(d.delimiters) = Len(py.delimiters) + Changes(symbol, "string_start", "string_end")
<1> DEFINE s == py.indents  e == py.delimiters
<1>1. s \in Seq(Nat) /\ s # << >> /\ e \in Seq(Delimiter) /\ Len(s) \in Nat /\ Len(e) \in Nat
  BY StateIs
<1>2. Ascending(d.indents) /\ Len(d.indents) = Len(s) + Changes(symbol, "indent", "dedent")
  <2>1. CASE symbol = "indent"
    <3>1. PICK n \in Nat : n > Innermost(s) /\ d.indents = Append(s, n)
      BY <2>1 DEF Nested
    <3> HIDE DEF s
    <3>2. Len(Append(s, n)) = Len(s) + 1 /\ Append(s, n)[Len(s) + 1] = n
          /\ \A i \in 1 .. Len(s) : Append(s, n)[i] = s[i]
      BY <1>1
    <3>3. Ascending(Append(s, n))
      <4> DEFINE more == Append(s, n)
      <4> SUFFICES ASSUME NEW i \in 1 .. Len(s) PROVE more[i] < more[i + 1]
        BY <1>1, <3>2 DEF Ascending
      <4> HIDE DEF more
      <4>1. more[i] = s[i] /\ (i < Len(s) => more[i + 1] = s[i + 1]) /\ (i = Len(s) => more[i + 1] = n)
        BY <1>1, <3>2 DEF more
      <4>2. CASE i < Len(s)
        <5>1. i \in 1 .. Len(s) - 1
          BY <1>1, <4>2
        <5> QED BY <4>1, <4>2, <5>1 DEF Ascending, s
      <4>3. CASE i = Len(s)
        BY <1>1, <3>1, <4>1, <4>3 DEF Innermost
      <4> QED BY <1>1, <4>2, <4>3
    <3> QED BY <2>1, <3>1, <3>2, <3>3 DEF Changes
  <2>2. CASE symbol = "dedent"
    <3>1. d.indents = Outer(s)
      BY <2>2 DEF Nested
    <3> HIDE DEF s
    <3>2. Len(Outer(s)) = Len(s) - 1 /\ \A i \in 1 .. Len(s) - 1 : Outer(s)[i] = s[i]
      BY <1>1, OuterIs
    <3>3. Ascending(Outer(s))
      <4> DEFINE some == Outer(s)
      <4> SUFFICES ASSUME NEW i \in 1 .. Len(s) - 1 - 1 PROVE some[i] < some[i + 1]
        BY <3>2 DEF Ascending
      <4>1. i \in 1 .. Len(s) - 1 /\ i + 1 \in 1 .. Len(s) - 1
        BY <1>1
      <4> HIDE DEF some
      <4>2. some[i] = s[i] /\ some[i + 1] = s[i + 1]
        BY <3>2, <4>1 DEF some
      <4> QED BY <4>1, <4>2 DEF Ascending, s
    <3> QED BY <1>1, <2>2, <3>1, <3>2, <3>3 DEF Changes
  <2>3. CASE symbol \notin {"indent", "dedent"}
    <3>1. d.indents = s
      BY <2>3 DEF Nested
    <3>2. Changes(symbol, "indent", "dedent") = 0
      BY <2>3 DEF Changes
    <3>3. Ascending(s)
      OBVIOUS
    <3> HIDE DEF s
    <3> QED BY <1>1, <3>1, <3>2, <3>3
  <2> QED BY <2>1, <2>2, <2>3
<1>3. Len(d.delimiters) = Len(e) + Changes(symbol, "string_start", "string_end")
  <2>1. CASE symbol = "string_start"
    <3>1. PICK f \in Delimiter : d.delimiters = Append(e, f)
      BY <2>1 DEF Nested
    <3>2. Len(Append(e, f)) = Len(e) + 1
      BY <1>1
    <3> QED BY <2>1, <3>1, <3>2 DEF Changes
  <2>2. CASE symbol = "string_end"
    <3>1. e # << >> /\ d.delimiters = Outer(e)
      BY <2>2 DEF Nested
    <3> HIDE DEF e
    <3>2. Len(Outer(e)) = Len(e) - 1
      BY <1>1, <3>1, OuterIs
    <3> QED BY <1>1, <2>2, <3>1, <3>2 DEF Changes
  <2>3. CASE symbol \notin {"string_start", "string_end"}
    <3>1. d.delimiters = e
      BY <2>3 DEF Nested
    <3>2. Changes(symbol, "string_start", "string_end") = 0
      BY <2>3 DEF Changes
    <3> HIDE DEF e
    <3> QED BY <1>1, <3>1, <3>2
  <2> QED BY <2>1, <2>2, <2>3
<1> QED BY <1>2, <1>3

\* A call of the scanner for a token, and the stacks behind it.
LEMMA CallNests ==
    ASSUME PythonsAreAttached, IInv, Open, NEW python \in language.scanner, IsPython(python),
           NEW at \in Right(text), NEW valid,
           NEW answer, answer = NextExternalToken(state, at, valid), answer.returns
    PROVE  \E py \in PythonState :
              /\ payload = {py}
              /\ \/ answer.found = {} /\ answer.payload = payload
                 \/ \E symbol \in Symbols : \E d, from, to :
                       /\ answer.found = {Token(symbol, from, to)} /\ answer.payload = {d}
                       /\ Nested(py, symbol, d)
<1> DEFINE py == CHOOSE p \in payload : TRUE
           m == RunScanner(Scanner, text, NewExternalLexer(at), py, valid)
<1>1. text \in Bytes /\ language \in Languages /\ language.scanner # {} /\ Scanner = python
  <2>1. text \in Bytes /\ language \in Languages /\ Scanner \in language.scanner /\ IsLanguage(language)
    BY OfLanguages DEF IInv
  <2> QED BY <2>1 DEF IsLanguage
<1>2. AttachedPython(Scanner)
  BY <1>1 DEF PythonsAreAttached
<1>3. payload = {py} /\ py \in PythonState
  <2>1. payload # {} /\ (\A s \in payload : ScannerState(Scanner, s)) /\ \A s, u \in payload : s = u
    BY <1>1 DEF IInv, Kept, Open
  <2>2. py \in payload /\ payload = {py}
    BY <2>1
  <2> HIDE DEF py
  <2> QED BY <1>2, <2>1, <2>2 DEF AttachedPython
<1> HIDE DEF py
<1>4. CASE Externals \cap language.expected[state] = {}
  <2>1. answer.found = {} /\ answer.payload = payload
    BY <1>4 DEF NextExternalToken
  <2> QED BY <1>3, <2>1
<1>5. CASE Externals \cap language.expected[state] # {}
  <2>1. answer = [found |-> IF m.outcome = "emitted" THEN ExternalToken(m.lexer) ELSE {},
                  payload |-> {m.state}, returns |-> m.outcome # "stopped"]
    BY <1>1, <1>5 DEF NextExternalToken, ScannerAnswer, RunExternalScanner, py
  <2>2. m = ScanPython(text, NewExternalLexer(at), py, valid)
    BY <1>2 DEF AttachedPython
  <2> DEFINE X == Forward(PlacesFrom(text, at))
  <2>3. Result(X, py, m)
    BY <1>1, <1>3, <2>2, ScanIsForward
  <2> HIDE DEF m
  <2>4. X \subseteq Forward(Place)
    BY DEF Forward, Lexers, PlacesFrom, Right
  <2> HIDE DEF X
  <2>5. m.lexer.begin.pos <= m.lexer.end.pos /\ m.lexer.begin.pos \in Nat /\ m.lexer.end.pos \in Nat
    <3>1. m.lexer \in Forward(Place)
      BY <2>3, <2>4 DEF Result
    <3> QED BY <3>1 DEF Forward, Lexers, Place
  <2>6. CASE m.outcome = "failed" /\ m.state = py
    <3>1. answer.found = {} /\ answer.payload = {py}
      BY <2>1, <2>6
    <3> QED BY <1>3, <3>1
  <2>7. ASSUME m.outcome = "emitted", NEW symbol \in Symbols, m.lexer.result = {symbol},
               Nested(py, symbol, m.state)
        PROVE  \E d, from, to : /\ answer.found = {Token(symbol, from, to)} /\ answer.payload = {d}
                                /\ Nested(py, symbol, d)
    <3>1. m.lexer.end.pos >= m.lexer.begin.pos
      BY <2>5
    <3>2. ExternalToken(m.lexer) = {Token(symbol, m.lexer.begin, m.lexer.end)}
      BY <2>7, <3>1, Zenon DEF ExternalToken
    <3>3. answer.found = ExternalToken(m.lexer) /\ answer.payload = {m.state}
      BY <2>1, <2>7
    <3> QED BY <2>7, <3>2, <3>3
  <2> QED BY <1>3, <2>3, <2>6, <2>7 DEF Result
<1> QED BY <1>4, <1>5

\* The stacks of a state are those of some tokens.
Nests(py, ts) ==
    /\ Len(py.indents) - 1 = Cardinality(Of(ts, "indent")) - Cardinality(Of(ts, "dedent"))
    /\ Ascending(py.indents)
    /\ Len(py.delimiters) = Cardinality(Of(ts, "string_start")) - Cardinality(Of(ts, "string_end"))

LEMMA BlocksNestIs ==
    ASSUME NEW python \in language.scanner, IsPython(python)
    PROVE  BlocksNest <=> \A py \in payload : Nests(py, tokens)
BY DEF BlocksNest, Nests, Count, Of, Ascending

LEMMA TokenNests ==
    ASSUME NEW S, NEW ts \in Seq(S), NEW k \in S, NEW py \in PythonState, NEW d, Nests(py, ts),
           \/ k.kind # "scanned" /\ d = py
           \/ k.kind = "scanned" /\ k.token.symbol \in Symbols /\ Nested(py, k.token.symbol, d)
    PROVE  Nests(d, Append(ts, k))
<1> DEFINE C(symbol) == Cardinality(Of(ts, symbol))
           More(symbol) == Cardinality(Of(Append(ts, k), symbol))
<1>1. \A symbol : /\ C(symbol) \in Nat
                  /\ More(symbol) = IF k.kind = "scanned" /\ k.token.symbol = symbol
                                    THEN C(symbol) + 1 ELSE C(symbol)
  BY CountIs
<1>2. Len(py.indents) \in Nat /\ Len(py.delimiters) \in Nat
  BY StateIs
<1>3. /\ Len(py.indents) - 1 = C("indent") - C("dedent") /\ Ascending(py.indents)
      /\ Len(py.delimiters) = C("string_start") - C("string_end")
  BY DEF Nests
<1>4. Nests(d, Append(ts, k)) <=>
         /\ Len(d.indents) - 1 = More("indent") - More("dedent") /\ Ascending(d.indents)
         /\ Len(d.delimiters) = More("string_start") - More("string_end")
  BY DEF Nests
<1> HIDE DEF C, More
<1>5. CASE k.kind # "scanned" /\ d = py
  BY <1>1, <1>3, <1>4, <1>5
<1>6. CASE k.kind = "scanned" /\ k.token.symbol \in Symbols /\ Nested(py, k.token.symbol, d)
  <2> DEFINE symbol == k.token.symbol
             blocks == Changes(symbol, "indent", "dedent")
             strings == Changes(symbol, "string_start", "string_end")
  <2>1. /\ Ascending(d.indents) /\ Len(d.indents) = Len(py.indents) + blocks
        /\ Len(d.delimiters) = Len(py.delimiters) + strings
    BY <1>3, <1>6, NestedIs
  <2>2. More("indent") - More("dedent") = C("indent") - C("dedent") + blocks
    BY <1>1, <1>6 DEF Changes
  <2>3. More("string_start") - More("string_end") = C("string_start") - C("string_end") + strings
    BY <1>1, <1>6 DEF Changes
  <2>4. blocks \in Int /\ strings \in Int
    BY DEF Changes
  <2> HIDE DEF blocks, strings
  <2>5. Len(d.indents) - 1 = C("indent") - C("dedent") + blocks
    BY <1>1, <1>2, <1>3, <2>1, <2>4
  <2>6. Len(d.delimiters) = C("string_start") - C("string_end") + strings
    BY <1>1, <1>2, <1>3, <2>1, <2>4
  <2> QED BY <1>4, <2>1, <2>2, <2>3, <2>5, <2>6
<1> QED BY <1>5, <1>6

\* A call of Next keeps the stacks to the tokens.
LEMMA AnswerNests ==
    ASSUME PythonsAreAttached, IInv, IInv', BlocksNest, Open, NEW at \in Right(text), Answer(at),
           UNCHANGED state
    PROVE  BlocksNest'
<1> SUFFICES ASSUME NEW python \in language.scanner, IsPython(python)
             PROVE  BlocksNest'
  <2>1. language' = language
    BY DEF Answer
  <2> QED BY <2>1 DEF BlocksNest
<1> DEFINE valid == externalValid'
           answer == NextExternalToken(state, at, valid)
           lexed == PromoteKeyword(NextToken(language.states, text, LexState(state), at))
           kind == IF answer.found = {} THEN "lexed" ELSE "scanned"
           Made(token) == [kind |-> kind, state |-> state, at |-> at, token |-> token]
<1>1. language.scanner # {} /\ language' = language
  BY DEF Answer
<1>2. answer.returns /\ \E token \in IF answer.found # {} THEN answer.found ELSE {lexed} :
                            payload' = answer.payload /\ tokens' = Append(tokens, Made(token))
  <2>1. \E x \in {y \in {answer} : y.returns} :
           \E token \in IF x.found # {} THEN x.found ELSE {lexed} :
              /\ payload' = x.payload
              /\ tokens' = Append(tokens, [kind |-> IF x.found = {} THEN "lexed" ELSE "scanned",
                                           state |-> state, at |-> at, token |-> token])
    <3> HIDE DEF lexed
    <3> QED BY <1>1 DEF Answer, lexed
  <2> HIDE DEF answer, lexed
  <2> QED BY <2>1
<1>3. PICK token \in IF answer.found # {} THEN answer.found ELSE {lexed} :
         payload' = answer.payload /\ tokens' = Append(tokens, Made(token))
  BY <1>2
<1> DEFINE k == Made(token)
<1>4. PICK py \in PythonState :
         /\ payload = {py}
         /\ \/ answer.found = {} /\ answer.payload = payload
            \/ \E symbol \in Symbols : \E d, from, to :
                  /\ answer.found = {Token(symbol, from, to)} /\ answer.payload = {d}
                  /\ Nested(py, symbol, d)
  <2> HIDE DEF answer
  <2>1. answer = NextExternalToken(state, at, valid)
    BY DEF answer
  <2> QED BY <1>2, <2>1, CallNests
<1>5. Nests(py, tokens)
  BY <1>4, BlocksNestIs
<1>6. k.kind = kind /\ k.token = token /\ tokens' = Append(tokens, k)
  <2> HIDE DEF kind
  <2> QED BY <1>3
<1>7. tokens \in Seq(Answers(language, text)) /\ k \in Answers(language, text)
  <2>1. tokens \in Seq(Answers(language, text)) /\ tokens' \in Seq(Answers(language, text))
    BY DEF IInv, Answer
  <2>2. Len(tokens') = Len(tokens) + 1 /\ tokens'[Len(tokens) + 1] = k /\ Len(tokens) \in Nat
    <3> HIDE DEF k
    <3> QED BY <1>6, <2>1
  <2> HIDE DEF k
  <2> QED BY <2>1, <2>2
<1>8. \E d : /\ payload' = {d}
             /\ \/ k.kind # "scanned" /\ d = py
                \/ k.kind = "scanned" /\ k.token.symbol \in Symbols /\ Nested(py, k.token.symbol, d)
  <2>1. CASE answer.found = {} /\ answer.payload = payload
    <3>1. kind = "lexed"
      BY <2>1
    <3> HIDE DEF answer, lexed, kind, k
    <3>2. payload' = {py} /\ k.kind # "scanned"
      BY <1>3, <1>4, <1>6, <2>1, <3>1
    <3> QED BY <3>2
  <2>2. ASSUME NEW symbol \in Symbols, NEW d, NEW from, NEW to,
               answer.found = {Token(symbol, from, to)}, answer.payload = {d}, Nested(py, symbol, d)
        PROVE  payload' = {d} /\ k.kind = "scanned" /\ k.token.symbol = symbol
    <3>1. answer.found # {}
      BY <2>2
    <3>2. kind = "scanned" /\ token = Token(symbol, from, to)
      <4> HIDE DEF answer, lexed
      <4> QED BY <1>3, <2>2, <3>1
    <3> HIDE DEF answer, lexed, kind, k
    <3> QED BY <1>3, <1>6, <2>2, <3>2 DEF Token
  <2> HIDE DEF answer, k
  <2> QED BY <1>4, <2>1, <2>2
<1>9. PICK d : /\ payload' = {d}
               /\ \/ k.kind # "scanned" /\ d = py
                  \/ k.kind = "scanned" /\ k.token.symbol \in Symbols /\ Nested(py, k.token.symbol, d)
  <2> HIDE DEF k
  <2> QED BY <1>8
<1>10. Nests(d, tokens')
  <2>1. Nests(d, Append(tokens, k))
    <3> DEFINE S == Answers(language, text)
    <3>1. tokens \in Seq(S) /\ k \in S
      BY <1>7
    <3> HIDE DEF k, S
    <3> QED BY <1>5, <1>9, <3>1, TokenNests
  <2> HIDE DEF k
  <2> QED BY <1>6, <2>1
<1>11. \A p \in payload' : Nests(p, tokens')
  <2> HIDE DEF k
  <2> QED BY <1>9, <1>10
<1> QED BY <1>11 DEF BlocksNest, Nests, Count, Of, Ascending

-----------------------------------------------------------------------------
(* The theorems.                                                           *)

\* The open blocks and strings of the Python scanner are those of the tokens
\* it has made, whatever the parser asks for in whatever state and wherever
\* it moves the lexer, also where a scan that fails has read on
\* (python_scanner.go Scan).
THEOREM BlocksAlwaysNest ==
    ASSUME ScannersUseTheirLexer, PythonsAreAttached
    PROVE  Spec => []BlocksNest
<1> DEFINE Inv == IInv /\ BlocksNest
<1>1. Init => Inv
  <2> SUFFICES ASSUME Init PROVE Inv
    OBVIOUS
  <2>1. IInv
    BY Begins
  <2>2. ASSUME NEW python \in language.scanner, IsPython(python) PROVE BlocksNest
    <3>1. language \in Languages /\ Scanner = python /\ payload = {CreateScanner(Scanner)} /\ tokens = << >>
      <4>1. language \in Languages /\ Scanner \in language.scanner /\ IsLanguage(language)
        BY <2>1, <2>2, OfLanguages DEF IInv
      <4>2. Scanner = python
        BY <4>1 DEF IsLanguage
      <4> QED BY <4>1, <4>2, <2>2 DEF Init
    <3>2. payload = {CreatePython}
      BY <2>2, <3>1 DEF PythonsAreAttached, AttachedPython
    <3>3. \A symbol : Cardinality(Of(tokens, symbol)) = 0
      <4>1. \A symbol : Of(tokens, symbol) = {}
        BY <3>1 DEF Of
      <4> QED BY <4>1, FS_EmptySet
    <3>4. Nests(CreatePython, tokens)
      BY <3>3 DEF Nests, CreatePython, Ascending
    <3> QED BY <2>2, <3>2, <3>4, BlocksNestIs
  <2> QED BY <2>1, <2>2 DEF BlocksNest
<1>2. Inv /\ [Calls]_vars => Inv'
  <2> SUFFICES ASSUME Inv, [Calls]_vars PROVE Inv'
    OBVIOUS
  <2>1. IInv'
    BY Goes
  <2>2. ASSUME NEW s \in DOMAIN language.expected, SetState(s) PROVE BlocksNest'
    BY <2>2 DEF SetState, BlocksNest, Count
  <2>3. CASE Next
    <3>1. PICK at \in {place} \cup Skipped : Answer(at)
      BY <2>3 DEF Next
    <3>2. Open /\ UNCHANGED state /\ at \in Right(text)
      BY <2>3, <3>1, MovesAreRight DEF Next
    <3> QED BY <2>1, <3>1, <3>2, AnswerNests
  <2>4. CASE Close
    <3>1. payload' = {}
      BY <2>4 DEF Close
    <3> QED BY <2>1, <3>1 DEF BlocksNest
  <2>5. CASE UNCHANGED vars
    <3>1. language' = language /\ payload' = payload /\ tokens' = tokens
      BY <2>5 DEF vars
    <3> QED BY <2>1, <3>1 DEF BlocksNest, Count
  <2> QED BY <2>1, <2>2, <2>3, <2>4, <2>5 DEF Calls
<1> QED BY <1>1, <1>2, PTL DEF Spec

\* Languages with scanners of external_vm.go and with Python's need no
\* hypothesis on them.
KnownScanners ==
    \A l \in Languages : \A scanner \in l.scanner :
        IF IsPython(scanner) THEN AttachedPython(scanner) ELSE AttachedProgram(scanner)

THEOREM KnownScannersKeepToTheText ==
    ASSUME KnownScanners
    PROVE  Spec => [](TypeOK /\ PositionsAgree /\ TokensGoOn /\ BlocksNest)
<1>1. ScannersUseTheirLexer
  BY PythonUsesItsLexer, ProgramUsesItsLexer DEF KnownScanners, ScannersUseTheirLexer
<1>2. PythonsAreAttached
  BY DEF KnownScanners, PythonsAreAttached
<1>3. IInv => TypeOK /\ PositionsAgree /\ TokensGoOn
  BY TypesHold, PlacesHold DEF IInv
<1>4. Spec => []BlocksNest
  BY <1>1, <1>2, BlocksAlwaysNest
<1>5. Spec => []IInv
  BY <1>1, Invariance
<1> QED BY <1>3, <1>4, <1>5, PTL
=============================================================================
