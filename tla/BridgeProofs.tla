------------------------------ MODULE BridgeProofs ------------------------------
(***************************************************************************)
(* The hand-written token sources keep to the text: the rows and columns   *)
(* of their tokens are those of their bytes, and tokens come one behind    *)
(* the other.                                                              *)
(***************************************************************************)
EXTENDS TokenBridges, NumberLemmas, FiniteSetTheorems, SequenceTheorems, TLAPS

IsText == text \in Seq(STRING)

-----------------------------------------------------------------------------
(* Loops.                                                                  *)

LEMMA SettledIs ==
    ASSUME NEW S, NEW step \in [S -> S], NEW good, good \subseteq S,
           NEW measure \in [good -> Nat],
           \A s \in good : step[s] \in good /\ (step[s] = s \/ measure[step[s]] < measure[s]),
           NEW start \in good
    PROVE  /\ Settled(S, start, step) \in good
           /\ step[Settled(S, start, step)] = Settled(S, start, step)
<1> DEFINE Go[s \in S] == LET t == step[s] IN IF t = s THEN s ELSE Go[t]
           stop == {s \in S : step[s] = s}
           val == [s \in S |-> s]
           ends == {s \in good : step[s] = s}
<1>1. Settled(S, start, step) = Go[start]
  BY DEF Settled
<1>2. \A g : \A s \in S : (IF s \in stop THEN val[s] ELSE g[step[s]])
                            = LET t == step[s] IN IF t = s THEN s ELSE g[t]
  OBVIOUS
<1>3. Recursive(S, stop, val, step, Go)
  <2>1. PICK g : Recursive(S, stop, val, step, g)
    <3> HIDE DEF stop, val
    <3> QED BY RecursionExists
  <2>2. g = [s \in S |-> LET t == step[s] IN IF t = s THEN s ELSE g[t]]
    <3> HIDE DEF stop, val
    <3> QED BY <1>2, <2>1 DEF Recursive
  <2>3. Go = [s \in S |-> LET t == step[s] IN IF t = s THEN s ELSE Go[t]]
    BY <2>2, Zenon
  <2> HIDE DEF stop, val, Go
  <2> QED BY <1>2, <2>3 DEF Recursive
<1>4. Sinks(stop, val, step, good, ends, measure)
  <2>1. \A s \in good : s \in S /\ (s \in stop => val[s] \in ends)
    OBVIOUS
  <2>2. \A s \in good : s \notin stop => step[s] \in good /\ measure[step[s]] < measure[s]
    OBVIOUS
  <2> HIDE DEF stop, val, ends
  <2> QED BY <2>1, <2>2 DEF Sinks
<1>5. Go[start] \in ends
  <2> HIDE DEF stop, val, ends, Go
  <2> QED BY <1>3, <1>4, RecursionReturns
<1> HIDE DEF Go
<1> QED BY <1>1, <1>5

LEMMA SettledAgain ==
    ASSUME NEW S, NEW step \in [S -> S], NEW start \in S
    PROVE  Settled(S, start, step)
             = IF step[start] = start THEN start ELSE Settled(S, step[start], step)
<1> DEFINE Go[s \in S] == LET t == step[s] IN IF t = s THEN s ELSE Go[t]
           stop == {s \in S : step[s] = s}
           val == [s \in S |-> s]
<1>1. \A s \in S : Settled(S, s, step) = Go[s]
  BY DEF Settled
<1>2. \A g : \A s \in S : (IF s \in stop THEN val[s] ELSE g[step[s]])
                            = LET t == step[s] IN IF t = s THEN s ELSE g[t]
  OBVIOUS
<1>3. Go = [s \in S |-> LET t == step[s] IN IF t = s THEN s ELSE Go[t]]
  <2>1. PICK g : Recursive(S, stop, val, step, g)
    <3> HIDE DEF stop, val
    <3> QED BY RecursionExists
  <2>2. g = [s \in S |-> LET t == step[s] IN IF t = s THEN s ELSE g[t]]
    <3> HIDE DEF stop, val
    <3> QED BY <1>2, <2>1 DEF Recursive
  <2> QED BY <2>2, Zenon
<1> HIDE DEF Go
<1>4. Go[start] = LET t == step[start] IN IF t = start THEN start ELSE Go[t]
  BY <1>3
<1>5. step[start] \in S
  OBVIOUS
<1> QED BY <1>1, <1>4, <1>5

-----------------------------------------------------------------------------
(* Places.                                                                 *)

\* Places that runes lead to from each other.
Runs(Q) == Q \subseteq Place /\ \A b \in Q : ~ Eof(b) => OneRune(text, b) \in Q

Far(Q, at) == {b \in Q : at.pos <= b.pos}

\* What is left of the text.
Left(at) == IF Eof(at) THEN 0 ELSE Len(text) - at.pos

LEMMA OneRuneIs ==
    ASSUME IsText, NEW at \in Place
    PROVE  /\ Left(at) \in Nat
           /\ ~ Eof(at) => /\ OneRune(text, at) \in Place
                           /\ at.pos < OneRune(text, at).pos
                           /\ OneRune(text, at).pos <= Len(text)
                           /\ Left(OneRune(text, at)) < Left(at)
<1>1. Len(text) \in Nat /\ at.pos \in Nat /\ at.row \in Nat /\ at.col \in Nat
  BY DEF IsText, Place
<1>2. Left(at) \in Nat
  BY <1>1 DEF Left, Eof, AtEnd
<1>3. ASSUME ~ Eof(at)
      PROVE  /\ OneRune(text, at) \in Place /\ at.pos < OneRune(text, at).pos
             /\ OneRune(text, at).pos <= Len(text)
  <2>1. at.pos < Len(text)
    BY <1>1, <1>3 DEF Eof, AtEnd
  <2>2. DecodeRune(text, at.pos).size \in {1, 2} /\ at.pos + DecodeRune(text, at.pos).size <= Len(text)
    BY <1>1, <2>1 DEF DecodeRune
  <2> QED BY <1>1, <2>2 DEF OneRune, Behind, Place
<1>4. ASSUME ~ Eof(at) PROVE Left(OneRune(text, at)) < Left(at)
  <2> DEFINE b == OneRune(text, at)
  <2>1. b.pos \in Nat /\ at.pos < b.pos /\ b.pos <= Len(text)
    BY <1>3, <1>4 DEF Place
  <2> HIDE DEF b
  <2>2. Left(b) < Left(at)
    BY <1>1, <1>4, <2>1 DEF Left, Eof, AtEnd
  <2> QED BY <2>2 DEF b
<1> QED BY <1>2, <1>3, <1>4

LEMMA PlacesRun == ASSUME IsText PROVE Runs(Place)
BY OneRuneIs DEF Runs

\* Loops that go on by a rune or further.
LEMMA WalkIs ==
    ASSUME IsText, NEW Q, Runs(Q), NEW at \in Q, NEW step \in [Place -> Place],
           \A b \in Q : \/ step[b] = b
                        \/ step[b] \in Far(Q, b) /\ Left(step[b]) < Left(b)
    PROVE  /\ Settled(Place, at, step) \in Far(Q, at)
           /\ step[Settled(Place, at, step)] = Settled(Place, at, step)
<1> DEFINE good == Far(Q, at)
           measure == [b \in good |-> Left(b)]
<1>1. good \subseteq Q /\ good \subseteq Place /\ at \in good
  <2>1. at.pos \in Nat
    BY DEF Runs, Place
  <2> QED BY <2>1 DEF Runs, Far
<1>2. measure \in [good -> Nat]
  BY <1>1, OneRuneIs
<1>3. ASSUME NEW b \in good
      PROVE  step[b] \in good /\ (step[b] = b \/ measure[step[b]] < measure[b])
  <2>1. b \in Q /\ b \in Place /\ at.pos <= b.pos /\ at \in Place
    BY <1>1, <1>3 DEF Far
  <2>2. CASE step[b] = b
    BY <2>2
  <2>3. CASE step[b] \in Far(Q, b) /\ Left(step[b]) < Left(b)
    <3>1. step[b] \in Q /\ step[b] \in Place /\ b.pos <= step[b].pos
      BY <2>3 DEF Far, Runs
    <3>2. at.pos \in Nat /\ b.pos \in Nat /\ step[b].pos \in Nat
      BY <2>1, <3>1 DEF Place
    <3>3. step[b] \in good
      BY <2>1, <3>1, <3>2 DEF Far
    <3> QED BY <2>3, <3>3
  <2> QED BY <2>1, <2>2, <2>3
<1> HIDE DEF good, measure
<1>4. /\ Settled(Place, at, step) \in good
      /\ step[Settled(Place, at, step)] = Settled(Place, at, step)
  BY <1>1, <1>2, <1>3, SettledIs
<1> QED BY <1>4 DEF good

\* Rune by rune to a position.
Toward(p) == [at \in Place |-> IF at.pos >= p \/ Eof(at) THEN at ELSE OneRune(text, at)]

LEMMA TowardIs ==
    ASSUME IsText, NEW p
    PROVE  /\ Toward(p) \in [Place -> Place]
           /\ \A at \in Place : /\ RunesTo(at, p) = Settled(Place, at, Toward(p))
                               /\ Toward(p)[at] = IF at.pos >= p \/ Eof(at) THEN at ELSE OneRune(text, at)
<1>1. \A at \in Place : (IF at.pos >= p \/ Eof(at) THEN at ELSE OneRune(text, at)) \in Place
  BY OneRuneIs
<1>2. Toward(p) \in [Place -> Place]
  BY <1>1 DEF Toward
<1>3. \A at \in Place : Toward(p)[at] = IF at.pos >= p \/ Eof(at) THEN at ELSE OneRune(text, at)
  BY DEF Toward
<1>4. \A at \in Place : RunesTo(at, p) = Settled(Place, at, Toward(p))
  BY DEF Toward, RunesTo
<1> QED BY <1>2, <1>3, <1>4

LEMMA RunesToIs ==
    ASSUME IsText, NEW Q, Runs(Q), NEW at \in Q, NEW p
    PROVE  /\ RunesTo(at, p) \in Far(Q, at)
           /\ RunesTo(at, p).pos >= p \/ Eof(RunesTo(at, p))
<1>1. at \in Place
  BY DEF Runs
<1>2. ASSUME NEW b \in Q
      PROVE  \/ Toward(p)[b] = b
             \/ Toward(p)[b] \in Far(Q, b) /\ Left(Toward(p)[b]) < Left(b)
  <2>1. b \in Place /\ b.pos \in Nat
    BY DEF Runs, Place
  <2>2. CASE b.pos >= p \/ Eof(b)
    BY <2>1, <2>2, TowardIs
  <2>3. CASE ~ (b.pos >= p \/ Eof(b))
    <3>1. Toward(p)[b] = OneRune(text, b)
      BY <2>1, <2>3, TowardIs
    <3>2. OneRune(text, b) \in Q /\ b.pos < OneRune(text, b).pos /\ Left(OneRune(text, b)) < Left(b)
          /\ OneRune(text, b) \in Place
      BY <2>1, <2>3, OneRuneIs DEF Runs
    <3>3. OneRune(text, b).pos \in Nat
      BY <3>2 DEF Place
    <3> QED BY <2>1, <3>1, <3>2, <3>3 DEF Far
  <2> QED BY <2>2, <2>3
<1> DEFINE z == RunesTo(at, p)
<1>3. z = Settled(Place, at, Toward(p)) /\ Toward(p) \in [Place -> Place]
  BY <1>1, TowardIs
<1>4. z \in Far(Q, at) /\ Toward(p)[z] = z
  <2> HIDE DEF z
  <2> QED BY <1>2, <1>3, WalkIs
<1> HIDE DEF z
<1>5. z \in Place
  BY <1>4 DEF Far, Runs
<1>6. z.pos >= p \/ Eof(z)
  <2> SUFFICES ASSUME ~ (z.pos >= p \/ Eof(z)) PROVE FALSE
    OBVIOUS
  <2>1. OneRune(text, z) = z /\ z.pos < OneRune(text, z).pos /\ z.pos \in Nat
    BY <1>4, <1>5, TowardIs, OneRuneIs DEF Place
  <2> QED BY <2>1
<1>7. RunesTo(at, p) \in Far(Q, at) /\ (RunesTo(at, p).pos >= p \/ Eof(RunesTo(at, p)))
  BY <1>4, <1>6 DEF z
<1> QED BY <1>7

LEMMA RunesToOn ==
    ASSUME IsText, NEW at \in Place, NEW p
    PROVE  RunesTo(at, p) = IF at.pos >= p \/ Eof(at) THEN at ELSE RunesTo(OneRune(text, at), p)
<1>1. Toward(p) \in [Place -> Place]
  BY TowardIs
<1>2. RunesTo(at, p) = IF Toward(p)[at] = at THEN at ELSE Settled(Place, Toward(p)[at], Toward(p))
  BY <1>1, SettledAgain, TowardIs
<1>3. CASE at.pos >= p \/ Eof(at)
  <2>1. Toward(p)[at] = at
    BY <1>3, TowardIs
  <2> QED BY <1>2, <1>3, <2>1
<1>4. CASE ~ (at.pos >= p \/ Eof(at))
  <2>1. Toward(p)[at] = OneRune(text, at) /\ OneRune(text, at) \in Place
        /\ at.pos \in Nat /\ at.pos < OneRune(text, at).pos
    BY <1>4, TowardIs, OneRuneIs DEF Place
  <2>2. OneRune(text, at) # at
    BY <2>1
  <2>3. RunesTo(OneRune(text, at), p) = Settled(Place, OneRune(text, at), Toward(p))
    BY <2>1, TowardIs
  <2> QED BY <1>2, <1>4, <2>1, <2>2, <2>3
<1> QED BY <1>3, <1>4

\* Going on to a position from where an earlier one was reached.
LEMMA RunesToFurther ==
    ASSUME IsText, NEW p \in Nat, NEW q \in Nat, p <= q
    PROVE  \A at \in Place : RunesTo(RunesTo(at, p), q) = RunesTo(at, q)
<1> DEFINE Fails(at) == RunesTo(RunesTo(at, p), q) # RunesTo(at, q)
           failing == {Left(at) : at \in {b \in Place : Fails(b)}}
<1> SUFFICES ASSUME failing # {} PROVE FALSE
  OBVIOUS
<1>1. failing \subseteq Nat
  BY OneRuneIs
<1>2. PICK n \in failing : \A k \in failing : n <= k
  <2> HIDE DEF failing
  <2> QED BY <1>1, LeastElement
<1>3. PICK at \in Place : Fails(at) /\ n = Left(at)
  BY <1>2
<1>4. at.pos \in Nat
  BY DEF Place
<1>5. CASE at.pos >= p \/ Eof(at)
  <2>1. RunesTo(at, p) = at
    BY <1>5, RunesToOn
  <2> QED BY <1>3, <2>1
<1>6. CASE ~ (at.pos >= p \/ Eof(at))
  <2> DEFINE b == OneRune(text, at)
  <2>1. b \in Place /\ Left(b) < Left(at) /\ Left(b) \in Nat /\ Left(at) \in Nat
    BY <1>6, OneRuneIs
  <2>2. RunesTo(at, p) = RunesTo(b, p)
    BY <1>6, RunesToOn
  <2>3. RunesTo(at, q) = RunesTo(b, q)
    <3>1. ~ (at.pos >= q \/ Eof(at))
      BY <1>4, <1>6
    <3> QED BY <3>1, RunesToOn
  <2> HIDE DEF b
  <2>4. Fails(b)
    BY <1>3, <2>2, <2>3
  <2>5. Left(b) \in failing
    BY <2>1, <2>4
  <2> QED BY <1>2, <1>3, <2>1, <2>5
<1> QED BY <1>5, <1>6

\* The places that reading from the start comes to.
Reach == {b \in Place : b.pos <= Len(text) /\ b = RunesTo(Origin, b.pos)}

LEMMA OriginIs == IsText => Origin \in Reach
<1> SUFFICES ASSUME IsText PROVE Origin \in Reach
  OBVIOUS
<1>1. Origin \in Place /\ Origin.pos = 0 /\ Len(text) \in Nat
  BY DEF Origin, Place, IsText
<1>2. RunesTo(Origin, 0) = Origin
  BY <1>1, RunesToOn
<1> QED BY <1>1, <1>2 DEF Reach

LEMMA ReachRuns == ASSUME IsText PROVE Runs(Reach)
<1> SUFFICES ASSUME NEW b \in Reach, ~ Eof(b) PROVE OneRune(text, b) \in Reach
  BY DEF Runs, Reach
<1> DEFINE c == OneRune(text, b)
<1>1. b \in Place /\ b = RunesTo(Origin, b.pos) /\ b.pos \in Nat
  BY DEF Reach, Place
<1>2. c \in Place /\ b.pos < c.pos /\ c.pos <= Len(text)
  BY <1>1, OneRuneIs
<1>3. c.pos \in Nat
  BY <1>2 DEF Place
<1>4. RunesTo(b, c.pos) = RunesTo(c, c.pos)
  BY <1>1, <1>2, <1>3, RunesToOn
<1> HIDE DEF c
<1>5. RunesTo(c, c.pos) = c
  BY <1>2, <1>3, RunesToOn
<1>6. Origin \in Place
  BY DEF Origin, Place
<1>7. RunesTo(Origin, c.pos) = RunesTo(b, c.pos)
  BY <1>1, <1>2, <1>3, <1>6, RunesToFurther
<1>8. c \in Reach
  BY <1>2, <1>4, <1>5, <1>7 DEF Reach
<1> QED BY <1>8 DEF c

\* A place as it is counted from the start.
Counted(b) == b = GoPoint(b.pos)

LEMMA ReachIsCounted ==
    ASSUME IsText, NEW b \in Reach
    PROVE  b \in Place /\ b.pos \in Nat /\ b.pos <= Len(text) /\ Counted(b)
<1>1. b \in Place /\ b = RunesTo(Origin, b.pos) /\ b.pos <= Len(text)
  BY DEF Reach
<1>2. b = [b EXCEPT !.pos = b.pos]
  BY <1>1 DEF Place
<1> QED BY <1>1, <1>2 DEF Counted, GoPoint, Place

LEMMA GoPointIs ==
    ASSUME IsText, NEW p \in Nat
    PROVE  GoPoint(p) \in Place /\ GoPoint(p).pos = p /\ Counted(GoPoint(p))
<1>1. Origin \in Place
  BY DEF Origin, Place
<1>2. RunesTo(Origin, p) \in Place
  BY <1>1, PlacesRun, RunesToIs DEF Far
<1>3. GoPoint(p) \in Place /\ GoPoint(p).pos = p
  BY <1>2 DEF GoPoint, Place
<1> QED BY <1>3 DEF Counted

-----------------------------------------------------------------------------
(* Where the cursor is moved.                                              *)

LEMMA FarIs ==
    ASSUME NEW Q, Runs(Q), NEW at \in Q, NEW b \in Far(Q, at)
    PROVE  at \in Far(Q, at) /\ b \in Q /\ b \in Place /\ b.pos \in Nat /\ at.pos <= b.pos
           /\ Far(Q, b) \subseteq Far(Q, at)
<1>1. at \in Place /\ b \in Place /\ b \in Q /\ at.pos <= b.pos
  BY DEF Far, Runs
<1>2. at.pos \in Nat /\ b.pos \in Nat
  BY <1>1 DEF Place
<1>3. ASSUME NEW c \in Far(Q, b) PROVE c \in Far(Q, at)
  <2>1. c \in Q /\ c \in Place /\ b.pos <= c.pos
    BY <1>3 DEF Far, Runs
  <2>2. c.pos \in Nat
    BY <2>1 DEF Place
  <2> QED BY <1>1, <1>2, <2>1, <2>2 DEF Far
<1> QED BY <1>1, <1>2, <1>3 DEF Far

\* Whatever the code looks for, it goes on.
LEMMA GoesOn ==
    ASSUME IsText, NEW Q, Runs(Q), NEW at \in Q, NEW b \in Far(Q, at)
    PROVE  /\ \A p : RunesTo(b, p) \in Far(Q, at)
           /\ \A n : After(b, n) \in Far(Q, at)
           /\ \A bytes : Past(b, bytes) \in Far(Q, at) /\ Upto(b, bytes) \in Far(Q, at)
           /\ \A word : UptoWord(b, word) \in Far(Q, at)
           /\ \A n : HexRun(b, n) \in Far(Q, at)
<1>1. \A p : RunesTo(b, p) \in Far(Q, at)
  <2>1. b \in Q /\ Far(Q, b) \subseteq Far(Q, at)
    BY FarIs
  <2> QED BY <2>1, RunesToIs
<1> QED BY <1>1 DEF After, Past, Upto, UptoWord, HexRun

LEMMA AfterIsFurther ==
    ASSUME IsText, NEW Q, Runs(Q), NEW at \in Q, ~ Eof(at), NEW n \in Nat \ {0}
    PROVE  at.pos < After(at, n).pos /\ After(at, n) \in Far(Q, at)
<1>1. at \in Place /\ at.pos \in Nat /\ Len(text) \in Nat
  BY DEF Runs, Place, IsText
<1> DEFINE c == After(at, n)
<1>2. c \in Far(Q, at) /\ (c.pos >= at.pos + n \/ Eof(c))
  BY RunesToIs DEF After
<1> HIDE DEF c
<1>3. c.pos \in Nat
  BY <1>2 DEF Far, Runs, Place
<1>4. at.pos < c.pos
  BY <1>1, <1>2, <1>3 DEF Eof, AtEnd
<1> QED BY <1>2, <1>4 DEF c

\* A run that begins here is not empty.
LEMMA PastIsFurther ==
    ASSUME IsText, NEW Q, Runs(Q), NEW at \in Q, NEW bytes, ByteAt(at.pos) \in bytes, "eof" \notin bytes
    PROVE  at.pos < Past(at, bytes).pos
<1>1. at \in Place /\ at.pos \in Nat /\ Len(text) \in Nat
  BY DEF Runs, Place, IsText
<1>2. ~ Eof(at) /\ at.pos < Len(text)
  BY <1>1 DEF ByteAt, Eof, AtEnd
<1> DEFINE stops == {q \in at.pos .. Len(text) : ByteAt(q) \notin bytes}
           P(q) == /\ ByteAt(q) \notin bytes
                   /\ \A r \in at.pos .. (q - 1) : ByteAt(r) \in bytes
           q0 == CHOOSE q \in at.pos .. Len(text) : P(q)
<1>3. Len(text) \in stops
  BY <1>1, <1>2 DEF ByteAt, AtEnd
<1>4. PICK n \in stops : \A k \in stops : n <= k
  <2>1. stops \subseteq Nat
    BY <1>1
  <2> HIDE DEF stops
  <2> QED BY <1>3, <2>1, LeastElement
<1>5. \A r \in at.pos .. (n - 1) : ByteAt(r) \in bytes
  <2> SUFFICES ASSUME NEW r \in at.pos .. (n - 1), ByteAt(r) \notin bytes PROVE FALSE
    OBVIOUS
  <2>1. n \in Nat /\ n <= Len(text)
    BY <1>1, <1>4
  <2>2. r \in Nat /\ r < n /\ r \in at.pos .. Len(text)
    BY <1>1, <2>1
  <2>3. r \in stops
    BY <2>2
  <2> QED BY <1>4, <2>1, <2>2, <2>3
<1>6. \E q \in at.pos .. Len(text) : P(q)
  BY <1>4, <1>5
<1>7. q0 \in at.pos .. Len(text) /\ P(q0)
  <2> HIDE DEF P
  <2> QED BY <1>6
<1>8. Past(at, bytes) = RunesTo(at, q0)
  BY DEF Past
<1> HIDE DEF q0
<1>9. q0 \in Nat /\ at.pos < q0
  BY <1>1, <1>7
<1> DEFINE c == RunesTo(at, q0)
<1>10. c \in Far(Q, at) /\ (c.pos >= q0 \/ Eof(c))
  BY RunesToIs
<1> HIDE DEF c
<1>11. c.pos \in Nat
  BY <1>10 DEF Far, Runs, Place
<1>12. at.pos < c.pos
  BY <1>1, <1>2, <1>9, <1>10, <1>11 DEF Eof, AtEnd
<1> QED BY <1>8, <1>12 DEF c

\* The parts of numbers.
LEMMA NumbersGoOn ==
    ASSUME IsText, NEW Q, Runs(Q), NEW at \in Q, NEW b \in Far(Q, at)
    PROVE  /\ Unsigned(b) \in Far(Q, at) /\ Fraction(b) \in Far(Q, at)
           /\ FractionNotDots(b) \in Far(Q, at)
           /\ \A marks : Exponent(b, marks) \in Far(Q, at) /\ HexOrDigits(b, marks) \in Far(Q, at)
<1>1. \A c \in Far(Q, at) : /\ \A n : After(c, n) \in Far(Q, at)
                            /\ \A bytes : Past(c, bytes) \in Far(Q, at)
  BY GoesOn
<1>2. \A c \in Far(Q, at) : Unsigned(c) \in Far(Q, at) /\ Fraction(c) \in Far(Q, at)
  BY <1>1 DEF Unsigned, Fraction
<1>3. \A marks : Exponent(b, marks) \in Far(Q, at) /\ HexOrDigits(b, marks) \in Far(Q, at)
  BY <1>1, <1>2 DEF Exponent, HexOrDigits
<1> QED BY <1>2, <1>3 DEF FractionNotDots

LEMMA EscapeIs ==
    ASSUME IsText, NEW Q, Runs(Q), NEW at \in Q, ~ Eof(at), NEW style
    PROVE  EscapeEnds(at, style) \in Far(Q, at) /\ at.pos < EscapeEnds(at, style).pos
<1>1. at \in Far(Q, at) /\ at.pos \in Nat /\ at \in Place
  <2>1. at \in Place /\ at.pos \in Nat
    BY DEF Runs, Place
  <2> QED BY <2>1 DEF Far
<1>2. ASSUME NEW n \in {1, 2} PROVE at.pos < After(at, n).pos /\ After(at, n) \in Far(Q, at)
  BY <1>2, AfterIsFurther
<1>3. ASSUME NEW n \in {1, 2}, NEW d \in Far(Q, After(at, n)) PROVE d \in Far(Q, at) /\ at.pos < d.pos
  <2> DEFINE c == After(at, n)
  <2>1. c \in Far(Q, at) /\ at.pos < c.pos
    BY <1>2
  <2> HIDE DEF c
  <2>2. c \in Q /\ c.pos \in Nat /\ Far(Q, c) \subseteq Far(Q, at)
    BY <2>1, FarIs
  <2>3. d \in Far(Q, c)
    BY <1>3 DEF c
  <2>4. c.pos <= d.pos /\ d.pos \in Nat
    BY <2>2, <2>3, FarIs
  <2> QED BY <1>1, <2>1, <2>2, <2>3, <2>4
<1>4. ASSUME NEW n \in {1, 2}
      PROVE  /\ \A m : HexRun(After(at, n), m) \in Far(Q, After(at, n))
             /\ \A m : HexRun(Past(After(at, n), {"u"}), m) \in Far(Q, After(at, n))
  <2>1. After(at, n) \in Q /\ After(at, n) \in Far(Q, After(at, n))
    <3>1. After(at, n) \in Q
      BY <1>2, FarIs
    <3>2. After(at, n) \in Place /\ After(at, n).pos \in Nat
      BY <3>1 DEF Runs, Place
    <3> QED BY <3>1, <3>2 DEF Far
  <2>2. Past(After(at, n), {"u"}) \in Far(Q, After(at, n))
    BY <2>1, GoesOn
  <2> QED BY <2>1, <2>2, GoesOn
<1>5. RunesTo(at, at.pos + 2) = After(at, 2)
  BY DEF After
<1> QED BY <1>2, <1>3, <1>4, <1>5 DEF EscapeEnds

-----------------------------------------------------------------------------
(* Tokens, one behind the other.                                           *)

\* The cursors of a source, in the text: Go's may be within a rune.
Inside        == {b \in Place : b.pos <= Len(text)}
Cursors(lang) == IF lang = "go" THEN Inside ELSE Reach

\* A token's rows and columns are counted from the start, and an end is the
\* text's; not so the column of a YAML scalar's end.
Fits(lang, t) ==
    /\ t \in Tokens /\ t.from.pos <= t.to.pos
    /\ t.symbol = "end" => Len(text) <= t.from.pos
    /\ Counted(t.from)
    /\ \/ Counted(t.to)
       \/ lang = "yaml" /\ t.symbol = "scalar" /\ t.to.row = RunesTo(Origin, t.to.pos).row

\* A token from a position on; the quote that closes a Go string may be the
\* one that opens it, and a line's end be within a comment of Go's.
Early(lang, t)      == lang = "go" /\ t.symbol \in {"close", "line end"}
Follows(lang, a, t) == a <= t.from.pos \/ Early(lang, t)

\* Tokens that follow each other between two positions.
Laid(lang, a, toks, b) ==
    /\ toks \in Seq(Tokens) /\ a <= b
    /\ \A i \in 1 .. Len(toks) :
          Fits(lang, toks[i]) /\ Follows(lang, a, toks[i]) /\ toks[i].to.pos <= b
    /\ \A i \in 1 .. Len(toks), j \in 1 .. Len(toks) :
          i < j => Follows(lang, toks[i].to.pos, toks[j])

\* What a reading from a place on may be; what it begins with is behind the place.
Fine(lang, at, r) ==
    /\ r.at \in Far(Cursors(lang), at) /\ r.mode \in SUBSET Flags /\ r.done \in BOOLEAN
    /\ r.tokens # << >> /\ (r.done => r.tokens[1].symbol = "end")
    /\ Laid(lang, at.pos, r.tokens, r.at.pos)
    /\ lang = "go" => at.pos <= r.tokens[1].from.pos

LEMMA LaidTokens ==
    ASSUME NEW lang, NEW a \in Nat, NEW b \in Nat, NEW toks, Laid(lang, a, toks, b)
    PROVE  \A i \in 1 .. Len(toks) : /\ toks[i] \in Tokens /\ toks[i].from.pos \in Nat
                                    /\ toks[i].to.pos \in Nat
BY DEF Laid, Fits, Tokens, Place

LEMMA LaidNone ==
    ASSUME NEW lang, NEW a \in Nat, NEW b \in Nat, a <= b
    PROVE  Laid(lang, a, << >>, b)
BY DEF Laid

LEMMA LaidOne ==
    ASSUME NEW lang, NEW a \in Nat, NEW b \in Nat, a <= b, NEW t, Fits(lang, t),
           Follows(lang, a, t), t.to.pos <= b
    PROVE  Laid(lang, a, <<t>>, b)
<1>1. t \in Tokens
  BY DEF Fits
<1>2. <<t>> \in Seq(Tokens) /\ Len(<<t>>) = 1 /\ <<t>>[1] = t
  BY <1>1
<1> QED BY <1>2 DEF Laid

LEMMA LaidWider ==
    ASSUME NEW lang, NEW a \in Nat, NEW b \in Nat, NEW c \in Nat, NEW d \in Nat,
           NEW toks, Laid(lang, b, toks, c), a <= b, c <= d
    PROVE  Laid(lang, a, toks, d)
<1>1. ASSUME NEW i \in 1 .. Len(toks)
      PROVE  Follows(lang, a, toks[i]) /\ toks[i].to.pos <= d
  <2>1. toks[i].from.pos \in Nat /\ toks[i].to.pos \in Nat
    BY LaidTokens
  <2>2. Follows(lang, b, toks[i]) /\ toks[i].to.pos <= c
    BY DEF Laid
  <2> QED BY <2>1, <2>2 DEF Follows
<1>2. b <= c
  BY DEF Laid
<1> QED BY <1>1, <1>2 DEF Laid

LEMMA LaidJoin ==
    ASSUME NEW lang, NEW a \in Nat, NEW b \in Nat, NEW c \in Nat, NEW s, NEW t,
           Laid(lang, a, s, b), Laid(lang, b, t, c)
    PROVE  Laid(lang, a, s \o t, c)
<1> DEFINE u == s \o t
<1>1. s \in Seq(Tokens) /\ t \in Seq(Tokens) /\ a <= c /\ Laid(lang, a, s, c) /\ Laid(lang, a, t, c)
  <2>1. a <= b /\ b <= c /\ s \in Seq(Tokens) /\ t \in Seq(Tokens)
    BY DEF Laid
  <2>2. Laid(lang, a, s, c)
    BY <2>1, LaidWider
  <2>3. Laid(lang, a, t, c)
    BY <2>1, LaidWider
  <2> QED BY <2>1, <2>2, <2>3
<1>2. u \in Seq(Tokens) /\ Len(u) = Len(s) + Len(t) /\ Len(s) \in Nat /\ Len(t) \in Nat
  BY <1>1
<1>3. /\ \A i \in 1 .. Len(s) : u[i] = s[i]
      /\ \A i \in (Len(s) + 1) .. Len(u) : u[i] = t[i - Len(s)] /\ i - Len(s) \in 1 .. Len(t)
  BY <1>1, <1>2
<1> HIDE DEF u
<1>4. ASSUME NEW i \in 1 .. Len(u)
      PROVE  Fits(lang, u[i]) /\ Follows(lang, a, u[i]) /\ u[i].to.pos <= c
  <2>1. CASE i <= Len(s)
    BY <1>1, <1>2, <1>3, <2>1 DEF Laid
  <2>2. CASE i > Len(s)
    <3>1. i \in (Len(s) + 1) .. Len(u)
      BY <1>2, <2>2
    <3> QED BY <1>1, <1>3, <3>1 DEF Laid
  <2> QED BY <1>2, <2>1, <2>2
<1>5. ASSUME NEW i \in 1 .. Len(u), NEW j \in 1 .. Len(u), i < j
      PROVE  Follows(lang, u[i].to.pos, u[j])
  <2>1. CASE j <= Len(s)
    BY <1>2, <1>3, <1>5, <2>1 DEF Laid
  <2>2. CASE i > Len(s)
    <3>1. /\ i \in (Len(s) + 1) .. Len(u) /\ j \in (Len(s) + 1) .. Len(u)
          /\ i - Len(s) < j - Len(s)
      BY <1>2, <1>5, <2>2
    <3> QED BY <1>3, <3>1 DEF Laid
  <2>3. CASE i <= Len(s) /\ j > Len(s)
    <3>1. i \in 1 .. Len(s) /\ j \in (Len(s) + 1) .. Len(u) /\ j - Len(s) \in 1 .. Len(t)
      BY <1>2, <1>3, <2>3
    <3>2. s[i].to.pos <= b /\ s[i].to.pos \in Nat
      BY <3>1, LaidTokens DEF Laid
    <3>3. Follows(lang, b, t[j - Len(s)]) /\ t[j - Len(s)].from.pos \in Nat
      BY <3>1, LaidTokens DEF Laid
    <3>4. Follows(lang, s[i].to.pos, t[j - Len(s)])
      BY <3>2, <3>3 DEF Follows
    <3> QED BY <1>3, <3>1, <3>4
  <2> QED BY <1>2, <2>1, <2>2, <2>3
<1>6. Laid(lang, a, u, c)
  BY <1>1, <1>2, <1>4, <1>5 DEF Laid
<1> QED BY <1>6 DEF u

\* The first is returned, the others are pending.
LEMMA LaidRest ==
    ASSUME NEW lang, NEW a \in Nat, NEW b \in Nat, NEW toks, toks # << >>, Laid(lang, a, toks, b)
    PROVE  /\ Fits(lang, Head(toks)) /\ Follows(lang, a, Head(toks)) /\ Head(toks) = toks[1]
           /\ Head(toks).to.pos \in Nat /\ Head(toks).to.pos <= b
           /\ Laid(lang, Head(toks).to.pos, Tail(toks), b)
<1>1. toks \in Seq(Tokens)
  BY DEF Laid
<1>2. Len(toks) \in Nat /\ 1 \in 1 .. Len(toks) /\ Head(toks) = toks[1]
  BY <1>1
<1>3. Fits(lang, toks[1]) /\ Follows(lang, a, toks[1]) /\ toks[1].to.pos <= b /\ toks[1].to.pos \in Nat
  BY <1>2, LaidTokens DEF Laid
<1>4. Tail(toks) \in Seq(Tokens) /\ Len(Tail(toks)) = Len(toks) - 1
  BY <1>1
<1>5. \A i \in 1 .. Len(Tail(toks)) : Tail(toks)[i] = toks[i + 1] /\ i + 1 \in 1 .. Len(toks)
  BY <1>1, <1>2, <1>4
<1>6. \A i \in 1 .. Len(Tail(toks)) :
         /\ Fits(lang, Tail(toks)[i]) /\ Tail(toks)[i].to.pos <= b
         /\ Follows(lang, toks[1].to.pos, Tail(toks)[i])
  BY <1>2, <1>4, <1>5 DEF Laid
<1>7. \A i \in 1 .. Len(Tail(toks)), j \in 1 .. Len(Tail(toks)) :
         i < j => Follows(lang, Tail(toks)[i].to.pos, Tail(toks)[j])
  BY <1>2, <1>4, <1>5 DEF Laid
<1>8. Laid(lang, toks[1].to.pos, Tail(toks), b)
  BY <1>3, <1>4, <1>6, <1>7 DEF Laid
<1> QED BY <1>2, <1>3, <1>8

\* A token, or none, between places that reading comes to.
LEMMA TokenIs ==
    ASSUME IsText, NEW lang, lang # "go", NEW at \in Reach, NEW b \in Far(Reach, at),
           NEW symbol \in Symbols \ {"end"}
    PROVE  /\ Token(symbol, at, b) \in Tokens
           /\ Laid(lang, at.pos, <<Token(symbol, at, b)>>, b.pos)
           /\ Laid(lang, at.pos, Piece(symbol, at, b), b.pos)
<1> DEFINE t == Token(symbol, at, b)
<1>1. at \in Place /\ b \in Place /\ at.pos \in Nat /\ b.pos \in Nat /\ at.pos <= b.pos
      /\ Counted(at) /\ Counted(b)
  BY ReachRuns, FarIs, ReachIsCounted
<1>2. t \in Tokens /\ t.from = at /\ t.to = b /\ t.symbol # "end"
  BY <1>1 DEF Token, Tokens
<1> HIDE DEF t
<1>3. Fits(lang, t) /\ Follows(lang, at.pos, t)
  BY <1>1, <1>2 DEF Fits, Follows
<1>4. Laid(lang, at.pos, <<t>>, b.pos)
  BY <1>1, <1>2, <1>3, LaidOne
<1>5. Laid(lang, at.pos, << >>, b.pos)
  BY <1>1, LaidNone
<1> QED BY <1>2, <1>4, <1>5 DEF Piece, t

-----------------------------------------------------------------------------
(* What is read.                                                           *)

LEMMA ReadingIs ==
    ASSUME IsText, NEW lang, lang # "go", NEW at \in Reach, NEW b \in Far(Reach, at),
           NEW toks, toks # << >>, Laid(lang, at.pos, toks, b.pos), NEW mode \in SUBSET Flags
    PROVE  Fine(lang, at, Reading(toks, b, mode))
BY DEF Fine, Reading, Cursors

\* The usual ways to read one token.
LEMMA OneIs ==
    ASSUME IsText, NEW lang, lang # "go", NEW at \in Reach, NEW b \in Far(Reach, at),
           NEW symbol \in Symbols \ {"end"}, NEW mode \in SUBSET Flags
    PROVE  Fine(lang, at, One(symbol, at, b, mode))
<1> DEFINE toks == <<Token(symbol, at, b)>>
<1>1. Laid(lang, at.pos, toks, b.pos) /\ toks # << >>
  BY TokenIs
<1> HIDE DEF toks
<1>2. Fine(lang, at, Reading(toks, b, mode))
  BY <1>1, ReadingIs
<1> QED BY <1>2 DEF toks, One

LEMMA EndedIs ==
    ASSUME IsText, NEW lang, lang # "go", NEW at \in Reach, Eof(at), NEW mode \in SUBSET Flags
    PROVE  Fine(lang, at, Ended(at, mode))
<1> DEFINE t == TheEnd(at)
<1>1. at \in Place /\ at.pos = Len(text) /\ at.pos \in Nat /\ Counted(at) /\ at \in Far(Reach, at)
  <2>1. at \in Place /\ at.pos \in Nat /\ at.pos <= Len(text) /\ Counted(at)
    BY ReachIsCounted
  <2> QED BY <2>1 DEF Eof, AtEnd, IsText, Far
<1>2. [at EXCEPT !.pos = Len(text)] = at
  BY <1>1 DEF Place
<1>3. t \in Tokens /\ t.from = at /\ t.to = at /\ t.symbol = "end"
  BY <1>1, <1>2 DEF TheEnd, Token, Tokens, Symbols
<1> HIDE DEF t
<1>4. Fits(lang, t) /\ Follows(lang, at.pos, t)
  BY <1>1, <1>3 DEF Fits, Follows
<1>5. Laid(lang, at.pos, <<t>>, at.pos)
  BY <1>1, <1>3, <1>4, LaidOne
<1>6. <<t>> # << >> /\ <<t>>[1] = t
  OBVIOUS
<1>7. Ended(at, mode) = [tokens |-> <<t>>, at |-> at, mode |-> mode, done |-> TRUE]
  BY DEF Ended, t
<1>8. Fine(lang, at, [tokens |-> <<t>>, at |-> at, mode |-> mode, done |-> TRUE])
  BY <1>1, <1>3, <1>5, <1>6 DEF Fine, Cursors
<1> QED BY <1>7, <1>8

LEMMA CursorsRun == ASSUME IsText, NEW lang PROVE Runs(Inside) /\ Runs(Cursors(lang))
<1>1. Runs(Inside)
  BY OneRuneIs DEF Runs, Inside
<1> QED BY <1>1, ReachRuns DEF Cursors

\* What is found is found at some place from here on.
LEMMA FirstReadIs ==
    ASSUME IsText, NEW Q, Runs(Q), NEW place \in Q, NEW found,
           \A at \in Q : Eof(at) => found[at] # {}
    PROVE  \E b \in Far(Q, place) : FirstRead(place, found) \in found[b]
<1> DEFINE step == [at \in Place |-> IF found[at] = {} /\ ~ Eof(at) THEN OneRune(text, at) ELSE at]
           b == Settled(Place, place, step)
<1>1. step \in [Place -> Place]
  BY OneRuneIs
<1>2. ASSUME NEW c \in Q
      PROVE  step[c] = c \/ (step[c] \in Far(Q, c) /\ Left(step[c]) < Left(c))
  <2>1. c \in Place /\ c.pos \in Nat
    BY DEF Runs, Place
  <2>2. CASE found[c] = {} /\ ~ Eof(c)
    <3>1. step[c] = OneRune(text, c)
      BY <2>1, <2>2
    <3>2. OneRune(text, c) \in Q /\ OneRune(text, c).pos \in Nat
      BY <2>1, <2>2, OneRuneIs DEF Runs, Place
    <3>3. c.pos < OneRune(text, c).pos /\ Left(OneRune(text, c)) < Left(c)
      BY <2>1, <2>2, OneRuneIs
    <3> HIDE DEF step
    <3> QED BY <2>1, <3>1, <3>2, <3>3 DEF Far
  <2>3. CASE ~ (found[c] = {} /\ ~ Eof(c))
    BY <2>1, <2>3
  <2> QED BY <2>2, <2>3
<1>3. FirstRead(place, found) = CHOOSE r \in found[b] : TRUE
  BY DEF FirstRead
<1>4. b \in Far(Q, place) /\ step[b] = b
  <2> HIDE DEF step
  <2> QED BY <1>1, <1>2, WalkIs
<1>5. b \in Q /\ b \in Place
  BY <1>4 DEF Far, Runs
<1> HIDE DEF b
<1>6. found[b] # {}
  <2> SUFFICES ASSUME found[b] = {} PROVE FALSE
    OBVIOUS
  <2>1. ~ Eof(b)
    BY <1>5
  <2>2. step[b] = OneRune(text, b)
    BY <1>5, <2>1
  <2>3. b.pos < OneRune(text, b).pos /\ b.pos \in Nat
    BY <1>5, <2>1, OneRuneIs DEF Place
  <2> HIDE DEF step
  <2> QED BY <1>4, <2>2, <2>3
<1> QED BY <1>3, <1>4, <1>6

LEMMA FineFurther ==
    ASSUME IsText, NEW lang, NEW place \in Cursors(lang), NEW at \in Far(Cursors(lang), place),
           NEW r, Fine(lang, at, r)
    PROVE  Fine(lang, place, r)
<1>1. Runs(Cursors(lang))
  BY CursorsRun
<1>2. at \in Cursors(lang) /\ at.pos \in Nat /\ place.pos <= at.pos /\ place.pos \in Nat
      /\ Far(Cursors(lang), at) \subseteq Far(Cursors(lang), place)
  BY <1>1, FarIs DEF Runs, Place
<1>3. r.at \in Far(Cursors(lang), at)
  BY DEF Fine
<1>4. r.at.pos \in Nat
  BY <1>1, <1>2, <1>3, FarIs
<1>5. Laid(lang, at.pos, r.tokens, r.at.pos) /\ r.tokens # << >> /\ r.tokens \in Seq(Tokens)
  BY DEF Fine, Laid
<1>6. Laid(lang, place.pos, r.tokens, r.at.pos)
  BY <1>2, <1>4, <1>5, LaidWider
<1>7. lang = "go" => place.pos <= r.tokens[1].from.pos
  <2>1. 1 \in 1 .. Len(r.tokens)
    BY <1>5
  <2>2. r.tokens[1].from.pos \in Nat
    BY <1>2, <1>4, <1>5, <2>1, LaidTokens
  <2>3. lang = "go" => at.pos <= r.tokens[1].from.pos
    BY DEF Fine
  <2> QED BY <1>2, <2>2, <2>3
<1> QED BY <1>2, <1>6, <1>7 DEF Fine

\* The result of a source that looks for its first token from a place on.
LEMMA FirstReadIsFine ==
    ASSUME IsText, NEW lang, NEW place \in Cursors(lang), NEW found,
           \A at \in Cursors(lang) : /\ \A r \in found[at] : Fine(lang, at, r)
                                     /\ Eof(at) => found[at] # {}
    PROVE  Fine(lang, place, FirstRead(place, found))
<1>1. Runs(Cursors(lang))
  BY CursorsRun
<1>2. PICK b \in Far(Cursors(lang), place) : FirstRead(place, found) \in found[b]
  BY <1>1, FirstReadIs
<1>3. b \in Cursors(lang)
  BY DEF Far
<1>4. Fine(lang, b, FirstRead(place, found))
  BY <1>2, <1>3
<1> QED BY <1>4, FineFurther

\* Bytes.
LEMMA ByteIs ==
    ASSUME IsText, NEW at \in Place
    PROVE  /\ Eof(at) => ByteAt(at.pos) = "eof" /\ \A word : Len(word) \in Nat \ {0} => ~ Starts(at, word)
           /\ ~ Eof(at) => Starts(at, <<ByteAt(at.pos)>>)
           /\ at \in Inside /\ Eof(at) => at.pos = Len(text)
<1>1. at.pos \in Nat /\ Len(text) \in Nat
  BY DEF Place, IsText
<1>2. ASSUME ~ Eof(at) PROVE Starts(at, <<ByteAt(at.pos)>>)
  <2>1. at.pos + 1 <= Len(text) /\ ByteAt(at.pos) = text[at.pos + 1]
    BY <1>1, <1>2 DEF Eof, AtEnd, ByteAt
  <2>2. SubSeq(text, at.pos + 1, at.pos + 1) = <<text[at.pos + 1]>>
    <3> DEFINE k == at.pos + 1
               u == SubSeq(text, k, k)
    <3>1. k \in 1 .. Len(text)
      BY <1>1, <2>1
    <3> HIDE DEF k
    <3>2. u \in Seq(STRING) /\ Len(u) = 1
      BY <3>1 DEF IsText
    <3>3. u[1] = text[k]
      BY <3>1 DEF IsText
    <3> HIDE DEF u
    <3>4. text[k] \in STRING
      BY <3>1 DEF IsText
    <3>5. <<text[k]>> \in Seq(STRING) /\ Len(<<text[k]>>) = 1 /\ <<text[k]>>[1] = text[k]
      BY <3>4
    <3>6. \A i \in 1 .. Len(u) : u[i] = <<text[k]>>[i]
      BY <3>2, <3>3, <3>5
    <3>7. u = <<text[k]>>
      BY <3>2, <3>5, <3>6, SeqEqual
    <3> QED BY <3>7 DEF k, u
  <2>3. Len(<<text[at.pos + 1]>>) = 1
    OBVIOUS
  <2> QED BY <1>1, <2>1, <2>2, <2>3 DEF Starts
<1>3. ASSUME Eof(at), NEW word, Len(word) \in Nat \ {0} PROVE ~ Starts(at, word)
  BY <1>1, <1>3 DEF Starts, Eof, AtEnd
<1>4. Eof(at) => ByteAt(at.pos) = "eof"
  BY DEF Eof, ByteAt
<1> QED BY <1>1, <1>2, <1>3, <1>4 DEF Eof, AtEnd, Inside

-----------------------------------------------------------------------------
(* Strings and comments.                                                   *)

LEMMA PieceIs ==
    ASSUME NEW from \in Place, NEW to \in Place, NEW symbol \in Symbols
    PROVE  Piece(symbol, from, to) \in Seq(Tokens)
<1>1. Token(symbol, from, to) \in Tokens
  BY DEF Token, Tokens
<1> QED BY <1>1 DEF Piece

LEMMA EscapeGoesOn ==
    ASSUME IsText, NEW Q, Runs(Q), NEW place \in Q, NEW at \in Far(Q, place), ~ Eof(at), NEW style
    PROVE  /\ EscapeEnds(at, style) \in Far(Q, place) /\ EscapeEnds(at, style) \in Place
           /\ EscapeEnds(at, style) \in Far(Q, at) /\ Left(EscapeEnds(at, style)) < Left(at)
<1> DEFINE e == EscapeEnds(at, style)
<1>1. at \in Q /\ at \in Place /\ at.pos \in Nat /\ Far(Q, at) \subseteq Far(Q, place)
  BY FarIs DEF Runs, Place
<1>2. e \in Far(Q, at) /\ at.pos < e.pos
  BY <1>1, EscapeIs
<1> HIDE DEF e
<1>3. e \in Place /\ e.pos \in Nat /\ e \in Far(Q, place)
  BY <1>1, <1>2, FarIs
<1>4. Left(e) < Left(at)
  BY <1>1, <1>2, <1>3 DEF Left, Eof, AtEnd, IsText
<1> QED BY <1>2, <1>3, <1>4 DEF e

\* A quote that is doubled is one.
Marked(quote, style) == style = "doubled" => Len(quote \o quote) \in Nat \ {0}

LEMMA NoneBegins ==
    ASSUME IsText, NEW at \in Place, Eof(at), NEW quote, NEW style, Marked(quote, style)
    PROVE  ~ EscapeBegins(at, quote, style)
<1>1. ByteAt(at.pos) = "eof"
  BY ByteIs
<1>2. style = "doubled" => ~ Starts(at, quote \o quote)
  BY ByteIs DEF Marked
<1> QED BY <1>1, <1>2 DEF EscapeBegins

LEMMA BodyTyped ==
    ASSUME IsText, NEW s \in Pieces, NEW quote, NEW style, Marked(quote, style), NEW stops
    PROVE  BodyOn(s, quote, style, stops) \in Pieces /\ (Eof(s.at) => BodyOn(s, quote, style, stops) = s)
<1>1. s.at \in Place /\ s.since \in Place /\ s.tokens \in Seq(Tokens)
  BY DEF Pieces
<1>2. CASE Eof(s.at)
  <2>1. ~ EscapeBegins(s.at, quote, style)
    BY <1>1, <1>2, NoneBegins
  <2> QED BY <1>2, <2>1 DEF BodyOn
<1>3. CASE ~ Eof(s.at)
  <2> DEFINE e == EscapeEnds(s.at, style)
             toks == s.tokens \o Piece("content", s.since, s.at)
                       \o IF style = "lost" THEN << >> ELSE Piece("escape", s.at, e)
  <2>1. e \in Place
    <3>1. s.at \in Far(Place, s.at)
      BY <1>1 DEF Far, Place
    <3> QED BY <1>1, <1>3, <3>1, PlacesRun, EscapeGoesOn
  <2>2. toks \in Seq(Tokens)
    <3> HIDE DEF e
    <3>1. Piece("content", s.since, s.at) \in Seq(Tokens) /\ Piece("escape", s.at, e) \in Seq(Tokens)
      BY <1>1, <2>1, PieceIs DEF Symbols
    <3> QED BY <1>1, <3>1
  <2>3. OneRune(text, s.at) \in Place
    BY <1>1, <1>3, OneRuneIs
  <2>4. [s EXCEPT !.at = OneRune(text, s.at)] \in Pieces
    BY <2>3 DEF Pieces
  <2>5. [at |-> e, since |-> e, tokens |-> toks] \in Pieces
    <3> HIDE DEF e, toks
    <3> QED BY <2>1, <2>2 DEF Pieces
  <2>6. \/ BodyOn(s, quote, style, stops) = s
        \/ BodyOn(s, quote, style, stops) = [at |-> e, since |-> e, tokens |-> toks]
        \/ BodyOn(s, quote, style, stops) = [s EXCEPT !.at = OneRune(text, s.at)]
    <3> HIDE DEF e
    <3> QED BY DEF BodyOn, e
  <2> HIDE DEF e, toks
  <2> QED BY <1>1, <1>3, <2>4, <2>5, <2>6
<1> QED BY <1>2, <1>3

\* The pieces of a string so far, since a place.
SplitUp(lang, place) ==
    {s \in Pieces : /\ s.since \in Far(Reach, place) /\ s.at \in Far(Reach, s.since)
                    /\ Laid(lang, place.pos, s.tokens, s.since.pos)}

LEMMA BodyOnIs ==
    ASSUME IsText, NEW lang, lang # "go", NEW place \in Reach, NEW s \in SplitUp(lang, place),
           NEW quote, NEW style, Marked(quote, style), NEW stops
    PROVE  /\ BodyOn(s, quote, style, stops) \in SplitUp(lang, place)
           /\ \/ BodyOn(s, quote, style, stops) = s
              \/ Left(BodyOn(s, quote, style, stops).at) < Left(s.at)
<1> DEFINE t == BodyOn(s, quote, style, stops)
<1>1. /\ s \in Pieces /\ s.since \in Far(Reach, place) /\ s.at \in Far(Reach, s.since)
      /\ Laid(lang, place.pos, s.tokens, s.since.pos)
  BY DEF SplitUp
<1>2. /\ Runs(Reach) /\ place \in Place /\ place.pos \in Nat /\ s.since \in Reach /\ s.since.pos \in Nat
      /\ s.at \in Reach /\ s.at \in Place /\ s.at.pos \in Nat /\ s.since.pos <= s.at.pos
      /\ Far(Reach, s.since) \subseteq Far(Reach, place)
      /\ Far(Reach, s.at) \subseteq Far(Reach, s.since)
  <2>1. Runs(Reach) /\ place \in Place /\ place.pos \in Nat
    BY ReachRuns, ReachIsCounted
  <2>2. s.since \in Reach /\ s.since.pos \in Nat /\ Far(Reach, s.since) \subseteq Far(Reach, place)
    BY <1>1, <2>1, FarIs
  <2>3. /\ s.at \in Reach /\ s.at \in Place /\ s.at.pos \in Nat /\ s.since.pos <= s.at.pos
        /\ Far(Reach, s.at) \subseteq Far(Reach, s.since)
    BY <1>1, <2>1, <2>2, FarIs
  <2> QED BY <2>1, <2>2, <2>3
<1>3. t \in Pieces
  BY <1>1, BodyTyped
<1>4. CASE t = s
  BY <1>4
<1>5. CASE ~ Eof(s.at) /\ t = [s EXCEPT !.at = OneRune(text, @)]
  <2>1. OneRune(text, s.at) \in Reach /\ s.at.pos < OneRune(text, s.at).pos
        /\ Left(OneRune(text, s.at)) < Left(s.at) /\ OneRune(text, s.at) \in Place
    BY <1>2, <1>5, OneRuneIs DEF Runs
  <2>2. OneRune(text, s.at).pos \in Nat
    BY <2>1 DEF Place
  <2>3. OneRune(text, s.at) \in Far(Reach, s.since)
    BY <1>2, <2>1, <2>2 DEF Far
  <2>4. t.at = OneRune(text, s.at) /\ t.since = s.since /\ t.tokens = s.tokens
    BY <1>1, <1>5 DEF Pieces
  <2> HIDE DEF t
  <2>5. t \in SplitUp(lang, place) /\ Left(t.at) < Left(s.at)
    BY <1>1, <1>3, <2>1, <2>3, <2>4 DEF SplitUp
  <2> QED BY <2>5 DEF t
<1>6. CASE ~ Eof(s.at) /\ t # s /\ t # [s EXCEPT !.at = OneRune(text, @)]
  <2> DEFINE e == EscapeEnds(s.at, style)
             content == Piece("content", s.since, s.at)
             escape == Piece("escape", s.at, e)
             toks == s.tokens \o content \o (IF style = "lost" THEN << >> ELSE escape)
  <2>1. t = [at |-> e, since |-> e, tokens |-> toks]
    <3>1. \/ t = s
          \/ t = [at |-> e, since |-> e, tokens |-> toks]
          \/ t = [s EXCEPT !.at = OneRune(text, s.at)]
      <4> HIDE DEF e
      <4> QED BY DEF BodyOn, e
    <3> HIDE DEF t, e, toks
    <3> QED BY <1>6, <3>1
  <2>2. e \in Far(Reach, s.since) /\ e \in Far(Reach, s.at) /\ Left(e) < Left(s.at)
    BY <1>1, <1>2, <1>6, EscapeGoesOn
  <2> HIDE DEF e
  <2>3. e \in Far(Reach, place) /\ e.pos \in Nat /\ e \in Far(Reach, e) /\ s.at.pos <= e.pos
    <3>1. e \in Reach /\ e.pos \in Nat /\ s.at.pos <= e.pos
      BY <1>2, <2>2, FarIs
    <3>2. e \in Far(Reach, e) /\ e \in Far(Reach, place)
      BY <1>2, <2>2, <3>1 DEF Far
    <3> QED BY <3>1, <3>2
  <2>4. Laid(lang, s.since.pos, content, s.at.pos) /\ Laid(lang, s.at.pos, escape, e.pos)
        /\ Laid(lang, s.at.pos, << >>, e.pos)
    <3>1. "content" \in Symbols \ {"end"} /\ "escape" \in Symbols \ {"end"}
      BY DEF Symbols
    <3> QED BY <1>1, <1>2, <2>2, <2>3, <3>1, TokenIs, LaidNone
  <2>5. Laid(lang, place.pos, toks, e.pos)
    <3> HIDE DEF content, escape
    <3>1. Laid(lang, place.pos, s.tokens \o content, s.at.pos)
      BY <1>1, <1>2, <2>4, LaidJoin
    <3>2. Laid(lang, s.at.pos, IF style = "lost" THEN << >> ELSE escape, e.pos)
      BY <2>4
    <3> DEFINE u == s.tokens \o content
               v == IF style = "lost" THEN << >> ELSE escape
    <3>3. Laid(lang, place.pos, u, s.at.pos) /\ Laid(lang, s.at.pos, v, e.pos) /\ toks = u \o v
      BY <3>1, <3>2
    <3> HIDE DEF u, v, toks
    <3> QED BY <1>2, <2>3, <3>3, LaidJoin
  <2> HIDE DEF t, toks
  <2>6. t.at = e /\ t.since = e /\ t.tokens = toks
    BY <2>1
  <2>7. t \in SplitUp(lang, place) /\ Left(t.at) < Left(s.at)
    BY <1>3, <2>2, <2>3, <2>5, <2>6 DEF SplitUp
  <2> QED BY <2>7 DEF t
<1>7. Eof(s.at) => t = s
  BY <1>1, BodyTyped
<1> QED BY <1>4, <1>5, <1>6, <1>7

\* A string's pieces lie one behind the other up to where its body ends.
LEMMA BodyIs ==
    ASSUME IsText, NEW lang, lang # "go", NEW place \in Reach,
           NEW quote, NEW style, Marked(quote, style), NEW stops
    PROVE  /\ Body(place, quote, style, stops).at \in Far(Reach, place)
           /\ Laid(lang, place.pos, Body(place, quote, style, stops).tokens,
                   Body(place, quote, style, stops).at.pos)
<1> DEFINE step == [s \in Pieces |-> BodyOn(s, quote, style, stops)]
           start == [at |-> place, since |-> place, tokens |-> << >>]
           good == SplitUp(lang, place)
           measure == [s \in good |-> Left(s.at)]
           z == Settled(Pieces, start, step)
           end == IF Eof(z.at) \/ ByteAt(z.at.pos) \in stops THEN z.at ELSE After(z.at, Len(quote))
           content == Piece("content", z.since, z.at)
           close == Piece("close", z.at, end)
<1>1. place \in Place /\ place.pos \in Nat /\ place \in Far(Reach, place) /\ Runs(Reach)
  BY ReachIsCounted, ReachRuns DEF Far
<1>2. step \in [Pieces -> Pieces] /\ good \subseteq Pieces
  BY BodyTyped DEF SplitUp
<1>3. measure \in [good -> Nat]
  <2>1. \A s \in good : s.at \in Place
    BY DEF SplitUp, Pieces
  <2> QED BY <2>1, OneRuneIs
<1>4. start \in good
  <2>1. start \in Pieces
    BY <1>1 DEF Pieces
  <2>2. Laid(lang, place.pos, << >>, place.pos)
    BY <1>1, LaidNone
  <2> QED BY <1>1, <2>1, <2>2 DEF SplitUp
<1>5. \A s \in good : step[s] \in good /\ (step[s] = s \/ measure[step[s]] < measure[s])
  <2> SUFFICES ASSUME NEW s \in good
               PROVE  step[s] \in good /\ (step[s] = s \/ measure[step[s]] < measure[s])
    OBVIOUS
  <2>1. step[s] = BodyOn(s, quote, style, stops)
    BY <1>2
  <2>2. step[s] \in good /\ (step[s] = s \/ Left(step[s].at) < Left(s.at))
    <3> HIDE DEF step
    <3> QED BY <2>1, BodyOnIs
  <2> HIDE DEF step, good
  <2> QED BY <2>2
<1>6. z \in good
  <2> HIDE DEF step, good, measure, start
  <2> QED BY <1>2, <1>3, <1>4, <1>5, SettledIs
<1>7. Body(place, quote, style, stops) = [tokens |-> z.tokens \o content \o close, at |-> end]
  BY DEF Body
<1> HIDE DEF step, start, z
<1>8. /\ z.since \in Far(Reach, place) /\ z.at \in Far(Reach, z.since)
      /\ Laid(lang, place.pos, z.tokens, z.since.pos)
  BY <1>6 DEF SplitUp
<1>9. /\ z.since \in Reach /\ z.since.pos \in Nat /\ z.at \in Reach /\ z.at.pos \in Nat
      /\ z.at \in Far(Reach, z.at) /\ z.at \in Far(Reach, place)
      /\ Far(Reach, z.at) \subseteq Far(Reach, place)
  <2>1. z.since \in Reach /\ z.since.pos \in Nat /\ Far(Reach, z.since) \subseteq Far(Reach, place)
    BY <1>1, <1>8, FarIs
  <2>2. z.at \in Reach /\ z.at.pos \in Nat /\ z.at \in Far(Reach, place)
    BY <1>1, <1>8, <2>1, FarIs
  <2>3. z.at \in Far(Reach, z.at) /\ Far(Reach, z.at) \subseteq Far(Reach, place)
    BY <1>1, <2>2, FarIs DEF Far
  <2> QED BY <2>1, <2>2, <2>3
<1>10. end \in Far(Reach, z.at) /\ end.pos \in Nat
  <2>1. After(z.at, Len(quote)) \in Far(Reach, z.at)
    BY <1>1, <1>9, GoesOn
  <2>2. end \in Far(Reach, z.at)
    BY <1>9, <2>1
  <2> HIDE DEF end
  <2> QED BY <1>1, <1>9, <2>2, FarIs
<1> HIDE DEF end
<1>11. Laid(lang, z.since.pos, content, z.at.pos) /\ Laid(lang, z.at.pos, close, end.pos)
  <2>1. "content" \in Symbols \ {"end"} /\ "close" \in Symbols \ {"end"}
    BY DEF Symbols
  <2> QED BY <1>8, <1>9, <1>10, <2>1, TokenIs
<1> HIDE DEF content, close
<1>12. Laid(lang, place.pos, z.tokens \o content, z.at.pos)
  BY <1>1, <1>8, <1>9, <1>11, LaidJoin
<1>13. Laid(lang, place.pos, z.tokens \o content \o close, end.pos)
  <2> DEFINE u == z.tokens \o content
  <2>1. Laid(lang, place.pos, u, z.at.pos)
    BY <1>12
  <2> HIDE DEF u
  <2>2. Laid(lang, place.pos, u \o close, end.pos)
    BY <1>1, <1>9, <1>10, <1>11, <2>1, LaidJoin
  <2> QED BY <2>2 DEF u
<1> QED BY <1>7, <1>9, <1>10, <1>13

\* A token that opens, and what lies behind it.
LEMMA OpenedIs ==
    ASSUME IsText, NEW lang, lang # "go", NEW at \in Reach, NEW b \in Far(Reach, at),
           NEW c \in Far(Reach, b), NEW toks, Laid(lang, b.pos, toks, c.pos),
           NEW mode \in SUBSET Flags
    PROVE  Fine(lang, at, Reading(<<Token("open", at, b)>> \o toks, c, mode))
<1> DEFINE open == <<Token("open", at, b)>>
           all == open \o toks
<1>1. Runs(Reach) /\ at.pos \in Nat /\ b \in Reach /\ b.pos \in Nat /\ Far(Reach, b) \subseteq Far(Reach, at)
  BY ReachRuns, ReachIsCounted, FarIs
<1>2. c.pos \in Nat /\ c \in Far(Reach, at)
  BY <1>1, FarIs
<1>3. Laid(lang, at.pos, open, b.pos) /\ Token("open", at, b) \in Tokens
  BY TokenIs DEF Symbols
<1>4. all # << >>
  <2>1. open \in Seq(Tokens) /\ Len(open) = 1 /\ toks \in Seq(Tokens)
    BY <1>3 DEF Laid
  <2> HIDE DEF open
  <2>2. Len(all) = Len(open) + Len(toks)
    BY <2>1, ConcatProperties
  <2>3. Len(toks) \in Nat
    BY <2>1, LenProperties
  <2> HIDE DEF all
  <2> QED BY <2>1, <2>2, <2>3, EmptySeq
<1> HIDE DEF open
<1>5. Laid(lang, at.pos, all, c.pos)
  BY <1>1, <1>2, <1>3, LaidJoin
<1> HIDE DEF all
<1>6. Fine(lang, at, Reading(all, c, mode))
  BY <1>2, <1>4, <1>5, ReadingIs
<1> QED BY <1>6 DEF all, open

LEMMA AfterIs ==
    ASSUME IsText, NEW at \in Reach, NEW n
    PROVE  After(at, n) \in Far(Reach, at) /\ After(at, n) \in Reach
<1>1. Runs(Reach) /\ at \in Far(Reach, at)
  BY ReachRuns, ReachIsCounted DEF Far
<1>2. After(at, n) \in Far(Reach, at)
  BY <1>1, GoesOn
<1> QED BY <1>2 DEF Far

LEMMA SplitIs ==
    ASSUME IsText, NEW lang, lang # "go", NEW at \in Reach, NEW opener,
           NEW quote, NEW style, Marked(quote, style), NEW stops, NEW mode \in SUBSET Flags
    PROVE  Fine(lang, at, Split(at, opener, quote, style, stops, mode))
<1> DEFINE b == After(at, Len(opener))
           body == Body(b, quote, style, stops)
<1>1. b \in Far(Reach, at) /\ b \in Reach
  BY AfterIs
<1> HIDE DEF b
<1>2. body.at \in Far(Reach, b) /\ Laid(lang, b.pos, body.tokens, body.at.pos)
  BY <1>1, BodyIs
<1> HIDE DEF body
<1>3. Fine(lang, at, Reading(<<Token("open", at, b)>> \o body.tokens, body.at, mode))
  BY <1>1, <1>2, OpenedIs
<1> QED BY <1>3 DEF b, body, Split, SplitBehind

\* A mark, and what is behind it if anything is.
LEMMA NamedIs ==
    ASSUME IsText, NEW lang, lang # "go", NEW at \in Reach, NEW b \in Far(Reach, at),
           NEW c \in Far(Reach, b), NEW mode \in SUBSET Flags
    PROVE  Fine(lang, at, Reading(<<Token("open", at, b)>> \o Piece("content", b, c), c, mode))
<1>1. b \in Reach
  BY DEF Far
<1>2. Laid(lang, b.pos, Piece("content", b, c), c.pos)
  BY <1>1, TokenIs DEF Symbols
<1> QED BY <1>2, OpenedIs

\* A token without a width, and the cursor behind it.
LEMMA MarkerIs ==
    ASSUME IsText, NEW lang, lang # "go", NEW at \in Reach, NEW b \in Far(Reach, at),
           NEW symbol \in Symbols \ {"end"}, NEW mode \in SUBSET Flags
    PROVE  Fine(lang, at, Reading(<<Token(symbol, at, at)>>, b, mode))
<1> DEFINE toks == <<Token(symbol, at, at)>>
<1>1. at.pos \in Nat /\ at \in Far(Reach, at) /\ b.pos \in Nat /\ at.pos <= b.pos
  BY ReachIsCounted, ReachRuns, FarIs DEF Far
<1>2. Laid(lang, at.pos, toks, at.pos) /\ toks # << >>
  BY <1>1, TokenIs
<1> HIDE DEF toks
<1>3. Laid(lang, at.pos, toks, b.pos)
  BY <1>1, <1>2, LaidWider
<1>4. Fine(lang, at, Reading(toks, b, mode))
  BY <1>2, <1>3, ReadingIs
<1> QED BY <1>4 DEF toks

\* Steps of a loop over places.
LEMMA StepsOn ==
    ASSUME IsText, NEW Q, Runs(Q), NEW b \in Q, ~ Eof(b)
    PROVE  /\ OneRune(text, b) \in Far(Q, b) /\ Left(OneRune(text, b)) < Left(b)
           /\ After(b, 2) \in Far(Q, b) /\ Left(After(b, 2)) < Left(b)
<1>1. b \in Place /\ b.pos \in Nat /\ Len(text) \in Nat
  BY DEF Runs, Place, IsText
<1>2. OneRune(text, b) \in Q /\ b.pos < OneRune(text, b).pos /\ Left(OneRune(text, b)) < Left(b)
      /\ OneRune(text, b).pos \in Nat
  BY <1>1, OneRuneIs DEF Runs, Place
<1> DEFINE c == After(b, 2)
<1>3. c \in Far(Q, b) /\ b.pos < c.pos
  BY AfterIsFurther
<1> HIDE DEF c
<1>4. c.pos \in Nat
  BY <1>3 DEF Far, Runs, Place
<1>5. Left(c) < Left(b)
  BY <1>1, <1>3, <1>4 DEF Left, Eof, AtEnd
<1> QED BY <1>1, <1>2, <1>3, <1>5 DEF c, Far

LEMMA AfterTyped == ASSUME IsText, NEW at \in Place, NEW n PROVE After(at, n) \in Place
BY PlacesRun, RunesToIs DEF After, Far

LEMMA WholeIs ==
    ASSUME IsText, NEW lang, lang # "go", NEW at \in Reach, NEW symbol \in Symbols \ {"end"},
           NEW quote, NEW mode \in SUBSET Flags
    PROVE  Fine(lang, at, Whole(symbol, at, quote, mode))
<1> DEFINE On(p) == CASE Eof(p) \/ ByteAt(p.pos) = quote -> p
                      [] ByteAt(p.pos) = "\\" -> RunesTo(p, p.pos + 2)
                      [] OTHER -> OneRune(text, p)
           step == [p \in Place |-> On(p)]
           b == After(at, 1)
           z == Settled(Place, b, step)
           end == IF Eof(z) THEN z ELSE After(z, 1)
<1>1. ASSUME NEW p \in Place
      PROVE  \/ On(p) = p
             \/ ~ Eof(p) /\ On(p) = After(p, 2)
             \/ ~ Eof(p) /\ On(p) = OneRune(text, p)
  <2>1. ByteAt(p.pos) = "\\" => ~ Eof(p)
    BY ByteIs
  <2> QED BY <2>1 DEF After
<1> HIDE DEF On
<1>2. step \in [Place -> Place]
  <2>1. \A p \in Place : On(p) \in Place
    BY <1>1, AfterTyped, OneRuneIs
  <2> QED BY <2>1
<1>3. b \in Reach /\ b \in Far(Reach, at) /\ Runs(Reach)
  BY AfterIs, ReachRuns
<1>4. ASSUME NEW p \in Reach
      PROVE  step[p] = p \/ (step[p] \in Far(Reach, p) /\ Left(step[p]) < Left(p))
  <2>1. p \in Place /\ step[p] = On(p)
    BY <1>2, ReachIsCounted
  <2> HIDE DEF step
  <2> QED BY <1>1, <1>3, <2>1, StepsOn
<1> HIDE DEF step, b
<1>5. z \in Far(Reach, b)
  BY <1>2, <1>3, <1>4, WalkIs
<1>6. z \in Far(Reach, at)
  BY <1>3, <1>5, FarIs
<1> HIDE DEF z
<1>7. end \in Far(Reach, at)
  BY <1>3, <1>6, GoesOn
<1> HIDE DEF end
<1>8. Fine(lang, at, One(symbol, at, end, mode))
  BY <1>7, OneIs
<1> QED BY <1>8 DEF end, z, b, step, On, Whole

LEMMA CommentsAre ==
    ASSUME IsText, NEW lang, lang # "go", NEW at \in Reach, NEW mode \in SUBSET Flags
    PROVE  /\ Fine(lang, at, LineComment(at, mode)) /\ Fine(lang, at, BlockComment(at, mode))
<1>1. Runs(Reach) /\ at \in Far(Reach, at)
  BY ReachRuns, ReachIsCounted DEF Far
<1>2. Upto(at, {"\n"}) \in Far(Reach, at)
  BY <1>1, GoesOn
<1>3. After(UptoWord(After(at, 2), <<"*", "/">>), 2) \in Far(Reach, at)
  <2>1. After(at, 2) \in Far(Reach, at)
    BY <1>1, GoesOn
  <2>2. UptoWord(After(at, 2), <<"*", "/">>) \in Far(Reach, at)
    BY <1>1, <2>1, GoesOn
  <2> QED BY <1>1, <2>2, GoesOn
<1> QED BY <1>2, <1>3, OneIs DEF LineComment, BlockComment, Symbols

\* Everywhere a token of one piece may end.
LEMMA EndsAre ==
    ASSUME IsText, NEW at \in Reach, NEW b \in Far(Reach, at)
    PROVE  /\ b \in Reach /\ at \in Far(Reach, at)
           /\ \A n : After(b, n) \in Far(Reach, at)
           /\ \A bytes : Past(b, bytes) \in Far(Reach, at) /\ Upto(b, bytes) \in Far(Reach, at)
           /\ \A word : UptoWord(b, word) \in Far(Reach, at)
           /\ Unsigned(b) \in Far(Reach, at) /\ Fraction(b) \in Far(Reach, at)
           /\ FractionNotDots(b) \in Far(Reach, at)
           /\ \A marks : Exponent(b, marks) \in Far(Reach, at) /\ HexOrDigits(b, marks) \in Far(Reach, at)
           /\ \A e \in LongestLiteral(b) : e \in Far(Reach, at)
<1>1. Runs(Reach) /\ b \in Reach /\ at \in Far(Reach, at)
  BY ReachRuns, ReachIsCounted DEF Far
<1>2. \A n : After(b, n) \in Far(Reach, at)
  BY <1>1, GoesOn
<1>3. \A e \in LongestLiteral(b) : e \in Far(Reach, at)
  BY <1>2 DEF LongestLiteral
<1> QED BY <1>1, <1>3, GoesOn, NumbersGoOn

LEMMA NothingStarts ==
    ASSUME IsText, NEW at \in Place, Eof(at)
    PROVE  /\ ByteAt(at.pos) = "eof"
           /\ \A a : ~ Starts(at, <<a>>)
           /\ \A a, b : ~ Starts(at, <<a, b>>)
           /\ \A a, b, c : ~ Starts(at, <<a, b, c>>)
           /\ \A a, b, c, d : ~ Starts(at, <<a, b, c, d>>)
<1>1. \A a, b, c, d : /\ Len(<<a>>) = 1 /\ Len(<<a, b>>) = 2
                      /\ Len(<<a, b, c>>) = 3 /\ Len(<<a, b, c, d>>) = 4
  OBVIOUS
<1>2. \A word : Len(word) \in Nat \ {0} => ~ Starts(at, word)
  BY ByteIs
<1>3. ByteAt(at.pos) = "eof"
  BY ByteIs
<1>4. \A a, b, c, d : /\ ~ Starts(at, <<a>>) /\ ~ Starts(at, <<a, b>>)
                      /\ ~ Starts(at, <<a, b, c>>) /\ ~ Starts(at, <<a, b, c, d>>)
  <2> SUFFICES ASSUME NEW a, NEW b, NEW c, NEW d
               PROVE  /\ ~ Starts(at, <<a>>) /\ ~ Starts(at, <<a, b>>)
                      /\ ~ Starts(at, <<a, b, c>>) /\ ~ Starts(at, <<a, b, c, d>>)
    OBVIOUS
  <2>1. ~ Starts(at, <<a>>)
    BY <1>1, <1>2
  <2>2. ~ Starts(at, <<a, b>>)
    BY <1>1, <1>2
  <2>3. ~ Starts(at, <<a, b, c>>)
    BY <1>1, <1>2
  <2>4. ~ Starts(at, <<a, b, c, d>>)
    BY <1>1, <1>2
  <2> QED BY <2>1, <2>2, <2>3, <2>4
<1> QED BY <1>3, <1>4

\* What a source finds at a place.
Sound(lang, at, found) == (\A r \in found : Fine(lang, at, r)) /\ (Eof(at) => found # {})

-----------------------------------------------------------------------------
(* The sources, one by one.                                                *)

LEMMA JsonIs == ASSUME IsText, NEW at \in Reach PROVE Sound("json", at, JsonAt(at))
<1>1. at \in Place /\ at \in Far(Reach, at)
  BY ReachIsCounted DEF Far
<1>2. ASSUME NEW t \in JsonComment(at) \cup JsonNumber(at) \cup JsonLiteral(at)
      PROVE  Fine("json", at, Reading(<<t>>, t.to, {}))
  <2>1. ASSUME NEW symbol \in Symbols \ {"end"}, NEW b \in Far(Reach, at), t = Token(symbol, at, b)
        PROVE  Fine("json", at, Reading(<<t>>, t.to, {}))
    <3>1. Reading(<<t>>, t.to, {}) = One(symbol, at, b, {})
      BY <2>1 DEF One, Token
    <3>2. Fine("json", at, One(symbol, at, b, {}))
      BY OneIs
    <3> QED BY <3>1, <3>2
  <2>2. CASE t \in JsonComment(at)
    <3>1. /\ LineComment(at, {}).tokens[1] = Token("comment", at, Upto(at, {"\n"}))
          /\ BlockComment(at, {}).tokens[1]
               = Token("comment", at, After(UptoWord(After(at, 2), <<"*", "/">>), 2))
      BY DEF LineComment, BlockComment, One, Reading
    <3>2. \/ t = Token("comment", at, Upto(at, {"\n"}))
          \/ t = Token("comment", at, After(UptoWord(After(at, 2), <<"*", "/">>), 2))
      BY <2>2, <3>1 DEF JsonComment
    <3>3. Upto(at, {"\n"}) \in Far(Reach, at)
          /\ After(UptoWord(After(at, 2), <<"*", "/">>), 2) \in Far(Reach, at)
      BY <1>1, EndsAre
    <3> QED BY <2>1, <3>2, <3>3 DEF Symbols
  <2>3. CASE t \in JsonNumber(at)
    <3>1. \A i \in JsonInteger(at) : i \in Far(Reach, at)
      <4>1. After(at, 1) \in Far(Reach, at)
        BY <1>1, EndsAre
      <4> QED BY <1>1, <4>1, EndsAre DEF JsonInteger
    <3>2. ASSUME NEW c \in Far(Reach, at), NEW d \in JsonDigits(c) PROVE d \in Far(Reach, at)
      BY <3>2, EndsAre DEF JsonDigits
    <3>3. ASSUME NEW c \in Far(Reach, at), NEW d \in JsonFraction(c) PROVE d \in Far(Reach, at)
      BY <3>2, <3>3, EndsAre DEF JsonFraction
    <3>4. ASSUME NEW c \in Far(Reach, at), NEW d \in JsonExponent(c) PROVE d \in Far(Reach, at)
      <4>1. After(c, 1) \in Far(Reach, at)
        BY EndsAre
      <4>2. Unsigned(After(c, 1)) \in Far(Reach, at)
        BY <4>1, EndsAre
      <4> QED BY <3>2, <3>4, <4>2 DEF JsonExponent
    <3>5. \E b \in Far(Reach, at) : t = Token("number", at, b)
      BY <2>3, <3>1, <3>3, <3>4 DEF JsonNumber
    <3> QED BY <2>1, <3>5 DEF Symbols
  <2>4. CASE t \in JsonLiteral(at)
    <3>1. \E w : t = Token("literal", at, After(at, Len(w)))
      BY <2>4 DEF JsonLiteral
    <3> QED BY <1>1, <2>1, <3>1, EndsAre DEF Symbols
  <2> QED BY <2>2, <2>3, <2>4
<1>3. Fine("json", at, One("mark", at, After(at, 1), {}))
  BY <1>1, EndsAre, OneIs DEF Symbols
<1>4. Fine("json", at, Split(at, <<"\"">>, <<"\"">>, "u", {}, {}))
  BY SplitIs DEF Marked
<1>5. Eof(at) => Fine("json", at, Ended(at, {}))
  BY EndedIs
<1>6. \A r \in JsonAt(at) : Fine("json", at, r)
  BY <1>2, <1>3, <1>4, <1>5 DEF JsonAt
<1>7. ASSUME Eof(at) PROVE JsonAt(at) # {}
  <2>1. ByteAt(at.pos) = "eof"
    BY <1>1, <1>7, NothingStarts
  <2> QED BY <1>7, <2>1 DEF JsonAt, Space, JsonMarks
<1> QED BY <1>6, <1>7 DEF Sound

LEMMA TomlIs ==
    ASSUME IsText, NEW at \in Reach, NEW mode \in SUBSET Flags
    PROVE  Sound("toml", at, TomlAt(at, mode))
<1>1. at \in Place /\ at \in Far(Reach, at)
  BY ReachIsCounted DEF Far
<1>2. mode \cup {"ended"} \in SUBSET Flags
  BY DEF Flags
<1>3. \A n : After(at, n) \in Far(Reach, at)
  BY <1>1, EndsAre
<1>4. \A symbol \in Symbols \ {"end"} : \A b \in Far(Reach, at) : Fine("toml", at, One(symbol, at, b, mode))
  BY OneIs
<1>5. Eof(at) => /\ Fine("toml", at, Ended(at, mode))
                 /\ Fine("toml", at, TomlMarker("line end", at, at, mode \cup {"ended"}))
  BY <1>1, <1>2, EndedIs, MarkerIs DEF TomlMarker, Symbols
<1>6. Fine("toml", at, TomlLineEnd(at, mode))
  <2>1. \A m \in SUBSET Flags : Fine("toml", at, TomlMarker("line end", at, After(at, 1), m))
    BY <1>3, MarkerIs DEF TomlMarker, Symbols
  <2> QED BY <1>2, <2>1 DEF TomlLineEnd
<1>7. \A p \in TomlPunct(at) : Fine("toml", at, One("mark", at, p, mode))
  <2>1. \A p \in TomlPunct(at) : p \in Far(Reach, at)
    BY <1>3 DEF TomlPunct
  <2> QED BY <1>4, <2>1 DEF Symbols
<1>8. /\ Fine("toml", at, Split(at, <<"\"">>, <<"\"">>, "rune", {}, mode))
      /\ Fine("toml", at, Split(at, <<"'">>, <<"'">>, "none", {}, mode))
  BY SplitIs DEF Marked
<1>9. Fine("toml", at, TomlNumber(at, mode))
  <2> DEFINE u == Unsigned(at)
             i == Past(u, Numeric)
             x == Past(After(u, 2), HexDigit \cup {"_"})
             e == Exponent(Fraction(i), {"e"})
  <2>1. u \in Far(Reach, at)
    BY <1>1, EndsAre
  <2> HIDE DEF u
  <2>2. i \in Far(Reach, at) /\ After(u, 2) \in Far(Reach, at)
    BY <2>1, EndsAre
  <2>3. x \in Far(Reach, at)
    BY <2>2, EndsAre
  <2> HIDE DEF i, x
  <2>4. Fraction(i) \in Far(Reach, at)
    BY <2>2, EndsAre
  <2>5. e \in Far(Reach, at)
    BY <2>4, EndsAre
  <2> HIDE DEF e
  <2>6. /\ Fine("toml", at, One("integer", at, x, mode)) /\ Fine("toml", at, One("integer", at, e, mode))
        /\ Fine("toml", at, One("float", at, e, mode))
    BY <1>4, <2>3, <2>5 DEF Symbols
  <2> QED BY <2>6 DEF TomlNumber, TomlNumberFrom, u, i, x, e
<1>10. Fine("toml", at, TomlBareKey(at, mode))
  BY <1>1, <1>4, EndsAre DEF TomlBareKey, Symbols
<1>11. Fine("toml", at, LineComment(at, mode))
  BY CommentsAre
<1>12. \A r \in TomlAt(at, mode) : Fine("toml", at, r)
  BY <1>5, <1>6, <1>7, <1>8, <1>9, <1>10, <1>11 DEF TomlAt
<1>13. ASSUME Eof(at) PROVE TomlAt(at, mode) # {}
  <2>1. ByteAt(at.pos) = "eof" /\ \A a, b : ~ Starts(at, <<a, b>>)
    BY <1>1, <1>13, NothingStarts
  <2>2. TomlPunct(at) = {}
    BY <2>1 DEF TomlPunct
  <2> QED BY <1>13, <2>1, <2>2 DEF TomlAt, Space, Gap, Digit, WordStart, Letter
<1> QED BY <1>12, <1>13 DEF Sound

LEMMA HtmlIs ==
    ASSUME IsText, NEW at \in Reach, NEW mode \in SUBSET Flags
    PROVE  Sound("html", at, HtmlInside(at, mode)) /\ Fine("html", at, HtmlOutside(at))
<1>1. at \in Place /\ at \in Far(Reach, at)
  BY ReachIsCounted DEF Far
<1>2. \A n : After(at, n) \in Far(Reach, at)
  BY <1>1, EndsAre
<1>3. {} \in SUBSET Flags /\ mode \ {"name"} \in SUBSET Flags
      /\ {"tag", "closing", "name"} \in SUBSET Flags /\ {"tag", "name"} \in SUBSET Flags
  BY DEF Flags
<1>4. \A symbol \in Symbols \ {"end"} : \A b \in Far(Reach, at) : \A m \in SUBSET Flags :
         Fine("html", at, One(symbol, at, b, m))
  BY OneIs
<1>5. Fine("html", at, HtmlOutside(at))
  <2>1. After(UptoWord(After(at, 4), <<"-", "-", ">">>), 3) \in Far(Reach, at)
    <3>1. UptoWord(After(at, 4), <<"-", "-", ">">>) \in Far(Reach, at)
      BY <1>2, EndsAre
    <3> QED BY <3>1, EndsAre
  <2>2. Upto(at, {"<"}) \in Far(Reach, at)
    BY <1>1, EndsAre
  <2>3. Fine("html", at, HtmlComment(at)) /\ Fine("html", at, HtmlText(at))
    BY <1>3, <1>4, <2>1, <2>2 DEF HtmlComment, HtmlText, Symbols
  <2>4. /\ Fine("html", at, One("</", at, After(at, 2), {"tag", "closing", "name"}))
        /\ Fine("html", at, One("<", at, After(at, 1), {"tag", "name"}))
    BY <1>2, <1>3, <1>4 DEF Symbols
  <2> QED BY <2>3, <2>4 DEF HtmlOutside
<1>6. Fine("html", at, HtmlName(at, mode))
  <2>1. Past(at, HtmlNamePart) \in Far(Reach, at)
    BY <1>1, EndsAre
  <2>2. \A symbol \in {"end tag name", "tag name", "attribute name"} :
           Fine("html", at, One(symbol, at, Past(at, HtmlNamePart), mode \ {"name"}))
    BY <1>3, <1>4, <2>1 DEF Symbols
  <2> QED BY <2>2 DEF HtmlName
<1>7. Fine("html", at, HtmlValue(at, mode))
  <2> DEFINE b == Upto(After(at, 1), {ByteAt(at.pos)})
             end == IF Eof(b) THEN b ELSE After(b, 1)
  <2>1. b \in Far(Reach, at)
    BY <1>2, EndsAre
  <2> HIDE DEF b
  <2>2. end \in Far(Reach, at)
    BY <2>1, EndsAre
  <2> HIDE DEF end
  <2>3. Fine("html", at, One("attribute value", at, end, mode))
    BY <1>4, <2>2 DEF Symbols
  <2> QED BY <2>3 DEF HtmlValue, end, b
<1>8. /\ Fine("html", at, One("/>", at, After(at, 2), {})) /\ Fine("html", at, One(">", at, After(at, 1), {}))
      /\ Fine("html", at, One("=", at, After(at, 1), mode))
  BY <1>2, <1>3, <1>4 DEF Symbols
<1>9. Eof(at) => Fine("html", at, Ended(at, mode))
  BY EndedIs
<1>10. \A r \in HtmlInside(at, mode) : Fine("html", at, r)
  BY <1>6, <1>7, <1>8, <1>9 DEF HtmlInside
<1>11. ASSUME Eof(at) PROVE HtmlInside(at, mode) # {}
  <2>1. ByteAt(at.pos) = "eof" /\ \A a, b : ~ Starts(at, <<a, b>>)
    BY <1>1, <1>11, NothingStarts
  <2> QED BY <1>11, <2>1 DEF HtmlInside, WordStart, Letter
<1> QED BY <1>5, <1>10, <1>11 DEF Sound

LEMMA CIs ==
    ASSUME IsText, NEW at \in Reach, NEW mode \in SUBSET Flags
    PROVE  Sound("c", at, CAt(at, mode))
<1>1. at \in Place /\ at \in Far(Reach, at) /\ Runs(Reach)
  BY ReachIsCounted, ReachRuns DEF Far
<1>2. \A n : After(at, n) \in Far(Reach, at)
  BY <1>1, EndsAre
<1>3. {} \in SUBSET Flags /\ {"name"} \in SUBSET Flags /\ {"argument"} \in SUBSET Flags
  BY DEF Flags
<1>4. \A symbol \in Symbols \ {"end"} : \A b \in Far(Reach, at) : \A m \in SUBSET Flags :
         Fine("c", at, One(symbol, at, b, m))
  BY OneIs
<1>5. Fine("c", at, CArgument(at, mode))
  <2> DEFINE On(p) == CASE Starts(p, <<"\\", "\n">>) -> After(p, 2)
                        [] ByteAt(p.pos) \in {"\n", "eof"} -> p
                        [] OTHER -> OneRune(text, p)
             step == [p \in Place |-> On(p)]
             z == Settled(Place, at, step)
  <2>1. ASSUME NEW p \in Place
        PROVE  \/ On(p) = p
               \/ ~ Eof(p) /\ On(p) = After(p, 2)
               \/ ~ Eof(p) /\ On(p) = OneRune(text, p)
    <3>1. Eof(p) => ByteAt(p.pos) = "eof" /\ ~ Starts(p, <<"\\", "\n">>)
      BY NothingStarts
    <3> QED BY <3>1
  <2> HIDE DEF On
  <2>2. step \in [Place -> Place]
    <3>1. \A p \in Place : On(p) \in Place
      BY <2>1, AfterTyped, OneRuneIs
    <3> QED BY <3>1
  <2>3. ASSUME NEW p \in Reach
        PROVE  step[p] = p \/ (step[p] \in Far(Reach, p) /\ Left(step[p]) < Left(p))
    <3>1. p \in Place /\ step[p] = On(p)
      BY <2>2, ReachIsCounted
    <3> HIDE DEF step
    <3> QED BY <1>1, <2>1, <3>1, StepsOn
  <2> HIDE DEF step
  <2>4. z \in Far(Reach, at)
    BY <1>1, <2>2, <2>3, WalkIs
  <2> HIDE DEF z
  <2>5. Fine("c", at, One("argument", at, z, mode))
    BY <1>4, <2>4 DEF Symbols
  <2> QED BY <2>5 DEF CArgument, z, step, On
<1>6. \A opener : Fine("c", at, CString(at, opener, mode))
  BY SplitIs DEF CString, Marked
<1>7. Fine("c", at, CWord(at, mode))
  <2>1. Past(at, WordStart \cup Digit) \in Far(Reach, at)
    BY <1>1, EndsAre
  <2> QED BY <1>3, <1>4, <2>1 DEF CWord, Symbols
<1>8. Fine("c", at, CNumber(at, mode))
  <2> DEFINE d == HexOrDigits(at, {"x"})
             e == Exponent(Fraction(d), {"e", "p"})
             s == Past(e, WordStart \cup Digit)
  <2>1. d \in Far(Reach, at)
    BY <1>1, EndsAre
  <2> HIDE DEF d
  <2>2. Fraction(d) \in Far(Reach, at)
    BY <2>1, EndsAre
  <2>3. e \in Far(Reach, at)
    BY <2>2, EndsAre
  <2> HIDE DEF e
  <2>4. s \in Far(Reach, at)
    BY <2>3, EndsAre
  <2> HIDE DEF s
  <2>5. Fine("c", at, One("number", at, s, mode))
    BY <1>4, <2>4 DEF Symbols
  <2> QED BY <2>5 DEF CNumber, s, e, d
<1>9. ASSUME NEW end \in Far(Reach, at) PROVE Fine("c", at, CAfterLiteral(at, end, mode))
  <2>1. \A m \in SUBSET Flags : Fine("c", at, One("literal", at, end, m))
    BY <1>4, <1>9 DEF Symbols
  <2> QED BY <1>3, <2>1 DEF CAfterLiteral
<1>10. Fine("c", at, LineComment(at, mode)) /\ Fine("c", at, BlockComment(at, mode))
  BY CommentsAre
<1>11. CBegins(at) => Fine("c", at, CPlain(at, mode))
  <2> DEFINE e == CHOOSE e \in LongestLiteral(at) : TRUE
             opened == \E o \in COpeners : Starts(at, o)
             other == ~ (\/ Starts(at, <<"/", "/">>) \/ Starts(at, <<"/", "*">>) \/ opened
                         \/ (ByteAt(at.pos) \in WordStart /\ ~ opened)
                         \/ ByteAt(at.pos) \in Digit)
  <2>1. CBegins(at) /\ other => e \in Far(Reach, at)
    <3> SUFFICES ASSUME CBegins(at), other PROVE e \in Far(Reach, at)
      OBVIOUS
    <3>1. ByteAt(at.pos) \notin WordStart \cup Digit
      BY DEF other
    <3>2. ByteAt(at.pos) \notin {"\"", "'"}
      <4> SUFFICES ASSUME ByteAt(at.pos) \in {"\"", "'"} PROVE opened
        BY DEF other
      <4>1. ~ Eof(at)
        BY <1>1, NothingStarts
      <4>2. Starts(at, <<ByteAt(at.pos)>>)
        BY <1>1, <4>1, ByteIs
      <4>3. <<ByteAt(at.pos)>> \in COpeners
        BY DEF COpeners
      <4> QED BY <4>2, <4>3
    <3>3. LongestLiteral(at) # {}
      BY <3>1, <3>2 DEF CBegins, other
    <3>4. e \in LongestLiteral(at)
      BY <3>3
    <3> HIDE DEF e
    <3> QED BY <1>1, <3>4, EndsAre
  <2>2. CBegins(at) /\ other => Fine("c", at, CAfterLiteral(at, e, mode))
    <3> HIDE DEF e, other
    <3> QED BY <1>9, <2>1
  <2> QED BY <1>6, <1>7, <1>8, <1>10, <2>2 DEF CPlain
<1>12. \A flag \in mode : Fine("c", at, One("line end", at, After(at, 1), {}))
  BY <1>2, <1>3, <1>4 DEF Symbols
<1>13. Eof(at) => Fine("c", at, Ended(at, mode))
  BY EndedIs
<1>14. \A r \in CAt(at, mode) : Fine("c", at, r)
  BY <1>5, <1>11, <1>12, <1>13 DEF CAt
<1>15. ASSUME Eof(at) PROVE CAt(at, mode) # {}
  <2>1. ByteAt(at.pos) = "eof"
    BY <1>1, <1>15, NothingStarts
  <2>2. ByteAt(at.pos) \notin Gap /\ ByteAt(at.pos) # "\n"
    BY <2>1 DEF Gap, Space
  <2> QED BY <1>15, <2>2 DEF CAt
<1> QED BY <1>14, <1>15 DEF Sound

LEMMA JavaIs == ASSUME IsText, NEW at \in Reach PROVE Sound("java", at, JavaAt(at))
<1>1. at \in Place /\ at \in Far(Reach, at)
  BY ReachIsCounted DEF Far
<1>2. \A symbol \in Symbols \ {"end"} : \A b \in Far(Reach, at) : Fine("java", at, One(symbol, at, b, {}))
  BY OneIs
<1>3. Fine("java", at, JavaWord(at))
  BY <1>1, <1>2, EndsAre DEF JavaWord, Symbols
<1>4. Fine("java", at, JavaNumber(at))
  <2> DEFINE hex(p) == IF ByteAt(p.pos) = "." THEN Past(After(p, 1), HexDigit \cup {"_"}) ELSE p
             a == After(at, 2)
             h == Past(a, HexDigit \cup {"_"})
             d == JavaDigits(at)
  <2>1. a \in Far(Reach, at)
    BY <1>1, EndsAre
  <2> HIDE DEF a
  <2>2. h \in Far(Reach, at) /\ Past(a, {"0", "1", "_"}) \in Far(Reach, at)
    BY <2>1, EndsAre
  <2> HIDE DEF h
  <2>3. hex(h) \in Far(Reach, at)
    <3>1. After(h, 1) \in Far(Reach, at)
      BY <2>2, EndsAre
    <3> QED BY <2>2, <3>1, EndsAre
  <2> HIDE DEF hex
  <2>4. Exponent(hex(h), {"p"}) \in Far(Reach, at)
    BY <2>3, EndsAre
  <2>5. Exponent(FractionNotDots(Past(at, Numeric)), {"e"}) \in Far(Reach, at)
    <3>1. Past(at, Numeric) \in Far(Reach, at)
      BY <1>1, EndsAre
    <3>2. FractionNotDots(Past(at, Numeric)) \in Far(Reach, at)
      BY <3>1, EndsAre
    <3> QED BY <3>2, EndsAre
  <2>6. d \in {Exponent(hex(h), {"p"}), Past(a, {"0", "1", "_"}),
               Exponent(FractionNotDots(Past(at, Numeric)), {"e"})}
    BY DEF JavaDigits, hex, h, a
  <2>7. d \in Far(Reach, at)
    BY <2>2, <2>4, <2>5, <2>6
  <2> HIDE DEF d
  <2>8. After(d, 1) \in Far(Reach, at)
    BY <2>7, EndsAre
  <2>9. Fine("java", at, One("number", at, d, {})) /\ Fine("java", at, One("number", at, After(d, 1), {}))
    BY <1>2, <2>7, <2>8 DEF Symbols
  <2> QED BY <2>9 DEF JavaNumber, d
<1>5. \A opener, quote : /\ Fine("java", at, Split(at, opener, quote, "rune", {}, {}))
                         /\ Fine("java", at, Split(at, opener, quote, "many u", {}, {}))
  BY SplitIs DEF Marked
<1>6. Fine("java", at, LineComment(at, {})) /\ Fine("java", at, BlockComment(at, {}))
      /\ Fine("java", at, Whole("char", at, "'", {}))
  BY CommentsAre, WholeIs DEF Symbols
<1>7. \A e \in LongestLiteral(at) : Fine("java", at, One("literal", at, e, {}))
  BY <1>1, <1>2, EndsAre DEF Symbols
<1>8. Eof(at) => Fine("java", at, Ended(at, {}))
  BY EndedIs
<1>9. \A r \in JavaAt(at) : Fine("java", at, r)
  BY <1>3, <1>4, <1>5, <1>6, <1>7, <1>8 DEF JavaAt
<1>10. ASSUME Eof(at) PROVE JavaAt(at) # {}
  <2>1. /\ ByteAt(at.pos) = "eof" /\ \A a, b : ~ Starts(at, <<a, b>>)
        /\ \A a, b, c : ~ Starts(at, <<a, b, c>>)
    BY <1>1, <1>10, NothingStarts
  <2> QED BY <1>10, <2>1 DEF JavaAt, Space, Digit, WordStart, Letter
<1> QED BY <1>9, <1>10 DEF Sound

LEMMA LuaIs == ASSUME IsText, NEW at \in Reach PROVE Sound("lua", at, LuaAt(at))
<1>1. at \in Place /\ at \in Far(Reach, at) /\ Runs(Reach)
  BY ReachIsCounted, ReachRuns DEF Far
<1>2. \A symbol \in Symbols \ {"end"} : \A b \in Far(Reach, at) : Fine("lua", at, One(symbol, at, b, {}))
  BY OneIs
<1>3. Fine("lua", at, LuaComment(at))
  <2> DEFINE b == After(at, 2)
             c == Upto(b, {"\n"})
  <2>1. b \in Far(Reach, at) /\ b \in Reach
    BY AfterIs
  <2> HIDE DEF b
  <2>2. c \in Far(Reach, b)
    BY <2>1, EndsAre, FarIs, ReachIsCounted DEF Far
  <2> HIDE DEF c
  <2>3. Fine("lua", at, Reading(<<Token("open", at, b)>> \o Piece("content", b, c), c, {}))
    BY <2>1, <2>2, NamedIs
  <2> QED BY <2>3 DEF LuaComment, b, c
<1>4. Fine("lua", at, LuaNumber(at))
  <2> DEFINE d == HexOrDigits(at, {"x"})
             f == FractionNotDots(d)
             e == Exponent(f, {"e", "p"})
  <2>1. d \in Far(Reach, at)
    BY <1>1, EndsAre
  <2> HIDE DEF d
  <2>2. f \in Far(Reach, at)
    BY <2>1, EndsAre
  <2> HIDE DEF f
  <2>3. e \in Far(Reach, at)
    BY <2>2, EndsAre
  <2> HIDE DEF e
  <2>4. Fine("lua", at, One("number", at, e, {}))
    BY <1>2, <2>3 DEF Symbols
  <2> QED BY <2>4 DEF LuaNumber, e, f, d
<1>5. \A opener, quote : /\ Fine("lua", at, Split(at, opener, quote, "rune", {}, {}))
                         /\ Fine("lua", at, Split(at, opener, quote, "none", {}, {}))
  BY SplitIs DEF Marked
<1>6. /\ Fine("lua", at, One("shebang", at, Upto(at, {"\n"}), {}))
      /\ Fine("lua", at, One("vararg", at, After(at, 3), {}))
      /\ Fine("lua", at, One("word", at, Past(at, WordStart \cup Digit), {}))
  <2>1. Upto(at, {"\n"}) \in Far(Reach, at) /\ After(at, 3) \in Far(Reach, at)
        /\ Past(at, WordStart \cup Digit) \in Far(Reach, at)
    BY <1>1, EndsAre
  <2> QED BY <1>2, <2>1 DEF Symbols
<1>7. \A e \in LongestLiteral(at) : Fine("lua", at, One("literal", at, e, {}))
  BY <1>1, <1>2, EndsAre DEF Symbols
<1>8. Eof(at) => Fine("lua", at, Ended(at, {}))
  BY EndedIs
<1>9. \A r \in LuaAt(at) : Fine("lua", at, r)
  BY <1>3, <1>4, <1>5, <1>6, <1>7, <1>8 DEF LuaAt
<1>10. ASSUME Eof(at) PROVE LuaAt(at) # {}
  <2>1. /\ ByteAt(at.pos) = "eof" /\ \A a, b : ~ Starts(at, <<a, b>>)
        /\ \A a, b, c : ~ Starts(at, <<a, b, c>>)
    BY <1>1, <1>10, NothingStarts
  <2> QED BY <1>10, <2>1 DEF LuaAt, Space, Digit, WordStart, Letter
<1> QED BY <1>9, <1>10 DEF Sound

LEMMA AuthzedIs == ASSUME IsText, NEW at \in Reach PROVE Sound("authzed", at, AuthzedAt(at))
<1>1. at \in Place /\ at \in Far(Reach, at)
  BY ReachIsCounted DEF Far
<1>2. \A n : After(at, n) \in Far(Reach, at)
  BY <1>1, EndsAre
<1>3. \A symbol \in Symbols \ {"end"} : \A b \in Far(Reach, at) : Fine("authzed", at, One(symbol, at, b, {}))
  BY OneIs
<1>4. Fine("authzed", at, AuthzedNumber(at))
  <2> DEFINE a == After(at, 2)
             Digits == CASE Prefixed(at, {"x"}) -> Past(a, HexDigit \cup {"_"})
                         [] Prefixed(at, {"o", "b"}) -> Past(a, {"0", "1", "_"})
                         [] OTHER -> Past(at, Numeric)
             e == Exponent(FractionNotDots(Digits), {"e"})
             Suffixed(end) == IF ByteAt(end.pos) = "i" THEN After(end, 1) ELSE end
  <2>1. a \in Far(Reach, at)
    BY <1>1, EndsAre
  <2>2. Past(a, HexDigit \cup {"_"}) \in Far(Reach, at) /\ Past(a, {"0", "1", "_"}) \in Far(Reach, at)
        /\ Past(at, Numeric) \in Far(Reach, at)
    <3> HIDE DEF a
    <3> QED BY <1>1, <2>1, EndsAre
  <2>3. Digits \in Far(Reach, at)
    <3> HIDE DEF a
    <3> QED BY <2>2
  <2> HIDE DEF Digits
  <2>4. FractionNotDots(Digits) \in Far(Reach, at)
    BY <2>3, EndsAre
  <2>5. e \in Far(Reach, at)
    BY <2>4, EndsAre
  <2> HIDE DEF e
  <2>6. Suffixed(e) \in Far(Reach, at)
    BY <2>5, EndsAre
  <2> HIDE DEF Suffixed
  <2>7. Fine("authzed", at, One("number", at, Suffixed(e), {}))
    BY <1>3, <2>6 DEF Symbols
  <2> QED BY <2>7 DEF AuthzedNumber, Suffixed, e, Digits, a
<1>5. \A e \in AuthzedOperator(at) : Fine("authzed", at, One("operator", at, e, {}))
  <2>1. \A e \in AuthzedOperator(at) : e \in Far(Reach, at)
    BY <1>2 DEF AuthzedOperator
  <2> QED BY <1>3, <2>1 DEF Symbols
<1>6. Fine("authzed", at, Split(at, <<"\"">>, <<"\"">>, "u or x", {"\n"}, {}))
  BY SplitIs DEF Marked
<1>7. LET Raw(end) == IF Eof(end) THEN end ELSE After(end, 1)
      IN  Fine("authzed", at, One("raw string", at, Raw(Upto(After(at, 1), {"BQ"})), {}))
  <2> DEFINE b == Upto(After(at, 1), {"BQ"})
             end == IF Eof(b) THEN b ELSE After(b, 1)
  <2>1. b \in Far(Reach, at)
    BY <1>2, EndsAre
  <2> HIDE DEF b
  <2>2. end \in Far(Reach, at)
    BY <2>1, EndsAre
  <2> HIDE DEF end
  <2>3. Fine("authzed", at, One("raw string", at, end, {}))
    BY <1>3, <2>2 DEF Symbols
  <2> QED BY <2>3 DEF end, b
<1>8. /\ Fine("authzed", at, One("line end", at, After(at, 1), {}))
      /\ Fine("authzed", at, One("word", at, Past(at, WordStart \cup Digit), {}))
  <2>1. Past(at, WordStart \cup Digit) \in Far(Reach, at)
    BY <1>1, EndsAre
  <2> QED BY <1>2, <1>3, <2>1 DEF Symbols
<1>9. Fine("authzed", at, LineComment(at, {}))
  BY CommentsAre
<1>10. Eof(at) => Fine("authzed", at, Ended(at, {}))
  BY EndedIs
<1>11. \A r \in AuthzedAt(at) : Fine("authzed", at, r)
  BY <1>4, <1>5, <1>6, <1>7, <1>8, <1>9, <1>10 DEF AuthzedAt
<1>12. ASSUME Eof(at) PROVE AuthzedAt(at) # {}
  <2>1. ByteAt(at.pos) = "eof" /\ \A a, b : ~ Starts(at, <<a, b>>)
    BY <1>1, <1>12, NothingStarts
  <2> QED BY <1>12, <2>1 DEF AuthzedAt, Gap, Space, Digit, WordStart, Letter
<1> QED BY <1>11, <1>12 DEF Sound

LEMMA GenericIs ==
    ASSUME IsText, NEW lang, lang # "go", NEW at \in Reach, NEW whole
    PROVE  Sound(lang, at, GenericAt(at, whole))
<1>1. at \in Place /\ at \in Far(Reach, at)
  BY ReachIsCounted DEF Far
<1>2. \A symbol \in Symbols \ {"end"} : \A b \in Far(Reach, at) : Fine(lang, at, One(symbol, at, b, {}))
  BY <1>1, OneIs
<1>3. \A opener, quote : /\ Fine(lang, at, Split(at, opener, quote, "rune", {}, {}))
                         /\ Fine(lang, at, Split(at, opener, quote, "lost", {}, {}))
  BY <1>1, SplitIs DEF Marked
<1>4. \A quote : /\ Fine(lang, at, Whole("string", at, quote, {}))
                 /\ Fine(lang, at, Whole("char", at, quote, {}))
  BY <1>1, WholeIs DEF Symbols
<1>5. Fine(lang, at, GenericString(at, whole))
  BY <1>3, <1>4 DEF GenericString
<1>6. Fine(lang, at, GenericNumber(at))
  <2> DEFINE d == HexOrDigits(at, {"x"})
             e == Exponent(FractionNotDots(d), {"e", "p"})
  <2>1. d \in Far(Reach, at)
    BY <1>1, EndsAre
  <2> HIDE DEF d
  <2>2. FractionNotDots(d) \in Far(Reach, at)
    BY <2>1, EndsAre
  <2>3. e \in Far(Reach, at)
    BY <2>2, EndsAre
  <2> HIDE DEF e
  <2>4. Fine(lang, at, One("integer", at, e, {})) /\ Fine(lang, at, One("float", at, e, {}))
    BY <1>2, <2>3 DEF Symbols
  <2> QED BY <2>4 DEF GenericNumber, e, d
<1>7. /\ Fine(lang, at, One("shebang", at, Upto(at, {"\n"}), {}))
      /\ Fine(lang, at, One("word", at, Past(at, WordPart \cup {"-"}), {}))
  <2>1. Upto(at, {"\n"}) \in Far(Reach, at) /\ Past(at, WordPart \cup {"-"}) \in Far(Reach, at)
    BY <1>1, EndsAre
  <2> QED BY <1>2, <2>1 DEF Symbols
<1>8. Fine(lang, at, LineComment(at, {})) /\ Fine(lang, at, BlockComment(at, {}))
  BY <1>1, CommentsAre
<1>9. \A e \in LongestLiteral(at) : Fine(lang, at, One("literal", at, e, {}))
  BY <1>1, <1>2, EndsAre DEF Symbols
<1>10. Eof(at) => Fine(lang, at, Ended(at, {}))
  BY <1>1, EndedIs
<1>11. \A r \in GenericAt(at, whole) : Fine(lang, at, r)
  BY <1>3, <1>4, <1>5, <1>6, <1>7, <1>8, <1>9, <1>10 DEF GenericAt
<1>12. ASSUME Eof(at) PROVE GenericAt(at, whole) # {}
  <2>1. ByteAt(at.pos) = "eof" /\ \A a, b : ~ Starts(at, <<a, b>>)
    BY <1>1, <1>12, NothingStarts
  <2>2. ~ GenericComments(at)
    BY <2>1 DEF GenericComments
  <2> QED BY <1>12, <2>1, <2>2 DEF GenericAt, Space, Digit, WordStart, Letter
<1> QED BY <1>11, <1>12 DEF Sound

\* A position is one that reading from the start comes to, or the second of
\* the bytes of a rune.
LEMMA RunesComeTo ==
    ASSUME IsText, NEW p \in 0 .. Len(text)
    PROVE  \/ RunesTo(Origin, p).pos = p
           \/ RunesTo(Origin, p).pos = p + 1 /\ ByteAt(p) = "E2"
<1> DEFINE good == {q \in 0 .. Len(text) : \/ RunesTo(Origin, q).pos = q
                                           \/ RunesTo(Origin, q).pos = q + 1 /\ ByteAt(q) = "E2"}
<1>1. Len(text) \in Nat /\ Origin \in Place /\ Origin.pos = 0
  BY DEF IsText, Origin, Place
<1>2. 0 \in good
  BY <1>1, RunesToOn
<1>3. ASSUME NEW k \in 1 .. Len(text), k - 1 \in good PROVE k \in good
  <2> DEFINE q == k - 1
             b == RunesTo(Origin, q)
  <2>1. q \in Nat /\ k = q + 1 /\ q < Len(text) /\ q \in good
    BY <1>1, <1>3
  <2> HIDE DEF q
  <2>2. b \in Place /\ b.pos \in Nat
    <3>1. b \in Place
      BY <1>1, PlacesRun, RunesToIs DEF Far
    <3> QED BY <3>1 DEF Place
  <2>3. RunesTo(Origin, k) = RunesTo(b, k)
    BY <1>1, <2>1, RunesToFurther
  <2>4. CASE b.pos = q
    <3> DEFINE c == OneRune(text, b)
    <3>1. ~ Eof(b)
      BY <1>1, <2>1, <2>2, <2>4 DEF Eof, AtEnd
    <3>2. c \in Place /\ c.pos \in Nat
      BY <2>2, <3>1, OneRuneIs DEF Place
    <3>3. \/ c.pos = k
          \/ c.pos = k + 1 /\ k < Len(text) /\ text[k + 1] = "E2"
      BY <1>1, <2>1, <2>2, <2>4 DEF OneRune, Behind, DecodeRune
    <3>4. RunesTo(b, k) = RunesTo(c, k)
      <4>1. ~ (b.pos >= k \/ Eof(b))
        BY <2>1, <2>2, <2>4, <3>1
      <4> QED BY <2>2, <4>1, RunesToOn
    <3> HIDE DEF c
    <3>5. RunesTo(c, k) = c
      BY <2>1, <3>2, <3>3, RunesToOn
    <3>6. c.pos = k \/ (c.pos = k + 1 /\ ByteAt(k) = "E2")
      BY <1>1, <2>1, <3>3 DEF ByteAt, AtEnd
    <3> QED BY <2>3, <3>4, <3>5, <3>6
  <2>5. CASE b.pos = q + 1
    <3>1. RunesTo(b, k) = b
      BY <2>1, <2>2, <2>5, RunesToOn
    <3> QED BY <2>1, <2>3, <2>5, <3>1
  <2> QED BY <2>1, <2>4, <2>5
<1> HIDE DEF good
<1>4. 0 .. Len(text) \subseteq good
  BY <1>1, <1>2, <1>3, UpTo
<1>5. p \in good
  BY <1>4
<1> QED BY <1>5 DEF good

\* A row is counted alike by bytes and by runes.
LEMMA RowsGoOn ==
    ASSUME IsText, NEW p \in 0 .. (Len(text) - 1)
    PROVE  RunesTo(Origin, p + 1).row
             = IF ByteAt(p) = "\n" THEN RunesTo(Origin, p).row + 1 ELSE RunesTo(Origin, p).row
<1> DEFINE b == RunesTo(Origin, p)
           k == p + 1
<1>1. Len(text) \in Nat /\ Origin \in Place /\ p \in Nat /\ p < Len(text) /\ k \in Nat
  BY DEF IsText, Origin, Place
<1>2. b \in Place /\ b.pos \in Nat /\ b.row \in Nat
  <2>1. b \in Place
    BY <1>1, PlacesRun, RunesToIs DEF Far
  <2> QED BY <2>1 DEF Place
<1>3. RunesTo(Origin, k) = RunesTo(b, k)
  BY <1>1, RunesToFurther
<1>4. CASE b.pos = p
  <2> DEFINE c == OneRune(text, b)
  <2>1. ~ Eof(b) /\ ~ (b.pos >= k)
    BY <1>1, <1>2, <1>4 DEF Eof, AtEnd
  <2>2. c \in Place /\ c.pos \in Nat /\ b.pos < c.pos
    BY <1>2, <2>1, OneRuneIs DEF Place
  <2>3. c.row = IF ByteAt(p) = "\n" THEN b.row + 1 ELSE b.row
    BY <1>1, <1>2, <1>4 DEF OneRune, Behind, DecodeRune, ByteAt, AtEnd
  <2>4. RunesTo(b, k) = RunesTo(c, k)
    BY <1>2, <2>1, RunesToOn
  <2> HIDE DEF c
  <2>5. RunesTo(c, k) = c
    BY <1>1, <1>4, <2>2, RunesToOn
  <2> QED BY <1>3, <2>3, <2>4, <2>5
<1>5. CASE b.pos = p + 1 /\ ByteAt(p) = "E2"
  <2>1. RunesTo(b, k) = b
    BY <1>1, <1>2, <1>5, RunesToOn
  <2> QED BY <1>3, <1>5, <2>1
<1> QED BY <1>1, <1>4, <1>5, RunesComeTo

LEMMA YamlPointIs ==
    ASSUME IsText, NEW p \in 0 .. Len(text)
    PROVE  YamlPointAt(p) \in Place /\ YamlPointAt(p).pos = p
           /\ YamlPointAt(p).row = RunesTo(Origin, p).row
<1> DEFINE On(at) == IF at.pos >= p THEN at
                     ELSE Behind(at, [rune |-> ByteAt(at.pos), size |-> 1])
           step == [at \in Place |-> On(at)]
           good == {at \in Place : at.pos <= p /\ at.row = RunesTo(Origin, at.pos).row}
           measure == [at \in good |-> p - at.pos]
           z == Settled(Place, Origin, step)
<1>1. Len(text) \in Nat /\ p \in Nat /\ p <= Len(text) /\ Origin \in Place /\ Origin.pos = 0
  BY DEF IsText, Origin, Place
<1>2. ASSUME NEW at \in Place
      PROVE  /\ at.pos \in Nat /\ On(at) \in Place /\ (at.pos >= p => On(at) = at)
             /\ at.pos < p => /\ On(at).pos = at.pos + 1
                              /\ On(at).row = IF ByteAt(at.pos) = "\n" THEN at.row + 1 ELSE at.row
  <2>1. at.pos \in Nat /\ at.row \in Nat /\ at.col \in Nat
    BY DEF Place
  <2> QED BY <1>1, <2>1 DEF Behind, Place
<1> HIDE DEF On
<1>3. step \in [Place -> Place]
  BY <1>2
<1>4. Origin \in good
  <2>1. RunesTo(Origin, 0) = Origin
    BY <1>1, RunesToOn
  <2> QED BY <1>1, <2>1
<1>5. measure \in [good -> Nat]
  BY <1>1, <1>2
<1>6. ASSUME NEW at \in good
      PROVE  step[at] \in good /\ (step[at] = at \/ measure[step[at]] < measure[at])
  <2>1. at \in Place /\ at.pos <= p /\ at.row = RunesTo(Origin, at.pos).row /\ at.pos \in Nat
    BY <1>2, <1>6
  <2>2. CASE at.pos >= p
    BY <1>2, <2>1, <2>2
  <2>3. CASE at.pos < p
    <3> DEFINE c == On(at)
    <3>1. step[at] = c /\ c \in Place /\ c.pos = at.pos + 1
      BY <1>2, <2>1, <2>3
    <3>2. at.pos \in 0 .. (Len(text) - 1)
      BY <1>1, <2>1, <2>3
    <3>3. c.row = RunesTo(Origin, c.pos).row
      BY <1>2, <2>1, <2>3, <3>1, <3>2, RowsGoOn
    <3> HIDE DEF c, step
    <3>4. c \in good
      BY <1>1, <2>1, <2>3, <3>1, <3>3
    <3>5. measure[c] < measure[at]
      <4>1. measure[c] = p - c.pos /\ measure[at] = p - at.pos
        BY <1>6, <3>4
      <4> HIDE DEF measure, good
      <4> QED BY <1>1, <2>1, <3>1, <4>1
    <3> QED BY <3>1, <3>4, <3>5
  <2> QED BY <1>1, <2>1, <2>2, <2>3
<1>7. z \in good /\ step[z] = z
  <2> HIDE DEF step, good, measure
  <2>1. good \subseteq Place
    BY DEF good
  <2> QED BY <1>3, <1>4, <1>5, <1>6, <2>1, SettledIs
<1> HIDE DEF z
<1>8. z \in Place /\ z.pos <= p /\ z.row = RunesTo(Origin, z.pos).row /\ On(z) = z /\ z.pos \in Nat
  BY <1>2, <1>7
<1>9. z.pos = p
  <2> SUFFICES ASSUME z.pos < p PROVE FALSE
    BY <1>1, <1>8
  <2>1. z.pos = z.pos + 1
    BY <1>2, <1>8
  <2> QED BY <1>8, <2>1
<1> QED BY <1>8, <1>9 DEF z, step, On, YamlPointAt

\* The first position from one on where something holds.
LEMMA FirstIs ==
    ASSUME NEW a \in Nat, NEW b \in Nat, NEW T \in SUBSET (a .. b), T # {}
    PROVE  \E q \in a .. b : q \in T /\ \A r \in a .. (q - 1) : r \notin T
<1>1. T \subseteq Nat
  OBVIOUS
<1>2. PICK q \in T : \A r \in T : q <= r
  BY <1>1, LeastElement
<1>3. q \in a .. b /\ q \in Nat
  BY <1>1
<1>4. \A r \in a .. (q - 1) : r \notin T
  BY <1>2, <1>3
<1> QED BY <1>2, <1>3, <1>4

LEMMA YamlScalarIs ==
    ASSUME IsText, NEW at \in Reach, NEW mode \in SUBSET Flags
    PROVE  Fine("yaml", at, YamlScalar(at, mode))
<1> DEFINE stop == YamlScalarEnd(at)
           Fit(q) == /\ q = at.pos \/ ByteAt(q - 1) \notin YamlBlank
                     /\ \A r \in q .. (stop - 1) : ByteAt(r) \in YamlBlank
           q == CHOOSE q \in at.pos .. stop : Fit(q)
           to == YamlPointAt(q)
           t == Token("scalar", at, to)
           b == RunesTo(at, stop)
<1>1. Len(text) \in Nat /\ at \in Place /\ at.pos \in Nat /\ at.pos <= Len(text) /\ Counted(at) /\ Runs(Reach)
  BY ReachIsCounted, ReachRuns DEF IsText
<1>2. stop \in at.pos .. Len(text)
  <2> DEFINE T == {p \in at.pos .. Len(text) : YamlScalarStops(at.pos, p)}
  <2>1. Len(text) \in T
    <3>1. ByteAt(Len(text)) = "eof"
      BY <1>1 DEF ByteAt, AtEnd
    <3> QED BY <1>1, <3>1 DEF YamlScalarStops
  <2>2. \E p \in at.pos .. Len(text) : p \in T /\ \A r \in at.pos .. (p - 1) : r \notin T
    <3>1. T \in SUBSET (at.pos .. Len(text)) /\ T # {}
      BY <2>1
    <3> HIDE DEF T
    <3> QED BY <1>1, <3>1, FirstIs
  <2>3. \E p \in at.pos .. Len(text) :
           YamlScalarStops(at.pos, p) /\ \A r \in at.pos .. (p - 1) : ~ YamlScalarStops(at.pos, r)
    BY <1>1, <2>2
  <2> QED BY <2>3 DEF YamlScalarEnd
<1> HIDE DEF stop
<1>3. q \in at.pos .. stop
  <2> DEFINE T == {p \in at.pos .. stop : \A r \in p .. (stop - 1) : ByteAt(r) \in YamlBlank}
  <2>1. stop \in T
    BY <1>1, <1>2
  <2>2. PICK p \in at.pos .. stop : p \in T /\ \A r \in at.pos .. (p - 1) : r \notin T
    <3>1. T \in SUBSET (at.pos .. stop) /\ T # {} /\ stop \in Nat
      BY <1>1, <1>2, <2>1
    <3> HIDE DEF T
    <3> QED BY <1>1, <3>1, FirstIs
  <2>3. p = at.pos \/ ByteAt(p - 1) \notin YamlBlank
    <3> SUFFICES ASSUME p # at.pos, ByteAt(p - 1) \in YamlBlank PROVE FALSE
      OBVIOUS
    <3>1. p \in Nat /\ stop \in Nat /\ at.pos < p /\ p - 1 \in at.pos .. stop /\ p - 1 \in at.pos .. (p - 1)
      BY <1>1, <1>2
    <3>2. \A r \in (p - 1) .. (stop - 1) : r = p - 1 \/ r \in p .. (stop - 1)
      BY <3>1
    <3>3. p - 1 \in T
      BY <2>2, <3>1, <3>2
    <3> QED BY <2>2, <3>1, <3>3
  <2>4. Fit(p)
    BY <2>2, <2>3
  <2> HIDE DEF Fit
  <2> QED BY <2>4
<1> HIDE DEF q
<1>4. to \in Place /\ to.pos = q /\ to.row = RunesTo(Origin, to.pos).row /\ q \in Nat
  <2>1. q \in 0 .. Len(text) /\ q \in Nat
    BY <1>1, <1>2, <1>3
  <2> QED BY <2>1, YamlPointIs
<1> HIDE DEF to
<1>5. t \in Tokens /\ t.from = at /\ t.to = to /\ t.symbol = "scalar"
  BY <1>1, <1>4 DEF Token, Tokens, Symbols
<1>6. b \in Far(Reach, at) /\ b.pos \in Nat /\ to.pos <= b.pos /\ at.pos <= b.pos
  <2>1. b \in Far(Reach, at) /\ (b.pos >= stop \/ Eof(b))
    BY <1>1, RunesToIs
  <2> HIDE DEF b
  <2>2. b.pos \in Nat /\ at.pos <= b.pos
    BY <1>1, <2>1, FarIs
  <2>3. to.pos <= b.pos
    BY <1>1, <1>2, <1>3, <1>4, <2>1, <2>2 DEF Eof, AtEnd
  <2> QED BY <2>1, <2>2, <2>3
<1> HIDE DEF t, b
<1>7. Fits("yaml", t) /\ Follows("yaml", at.pos, t)
  BY <1>1, <1>2, <1>3, <1>4, <1>5 DEF Fits, Follows
<1>8. Laid("yaml", at.pos, <<t>>, b.pos)
  BY <1>1, <1>5, <1>6, <1>7, LaidOne
<1>9. <<t>> # << >>
  OBVIOUS
<1>10. Fine("yaml", at, Reading(<<t>>, b, mode))
  BY <1>6, <1>8, <1>9, ReadingIs
<1> QED BY <1>10 DEF YamlScalar, t, b, to, q, stop

LEMMA YamlIs ==
    ASSUME IsText, NEW at \in Reach, NEW mode \in SUBSET Flags
    PROVE  Sound("yaml", at, YamlAt(at, mode))
<1>1. at \in Place /\ at \in Far(Reach, at) /\ Runs(Reach)
  BY ReachIsCounted, ReachRuns DEF Far
<1>2. \A n : After(at, n) \in Far(Reach, at)
  BY <1>1, EndsAre
<1>3. mode \cup {"ended"} \in SUBSET Flags
  BY DEF Flags
<1>4. \A symbol \in Symbols \ {"end"} : \A b \in Far(Reach, at) : Fine("yaml", at, One(symbol, at, b, mode))
  BY OneIs
<1>5. Eof(at) => /\ Fine("yaml", at, Ended(at, mode))
                 /\ Fine("yaml", at, Reading(<<Token("end marker", at, at)>>, at, mode \cup {"ended"}))
  BY <1>1, <1>3, EndedIs, MarkerIs DEF Symbols
<1>6. Fine("yaml", at, YamlNewline(at, mode))
  BY <1>2, <1>4 DEF YamlNewline, Symbols
<1>7. /\ Fine("yaml", at, One("comment", at, Upto(at, YamlBreak), mode))
      /\ Fine("yaml", at, One("mark", at, After(at, 3), mode))
      /\ Fine("yaml", at, One("mark", at, After(at, 1), mode))
  <2>1. Upto(at, YamlBreak) \in Far(Reach, at)
    BY <1>1, EndsAre
  <2> QED BY <1>2, <1>4, <2>1 DEF Symbols
<1>8. Fine("yaml", at, Split(at, <<"\"">>, <<"\"">>, "rune", {}, mode))
  BY SplitIs DEF Marked
<1>9. Fine("yaml", at, Split(at, <<"'">>, <<"'">>, "doubled", {}, mode))
  <2>1. \A c : Len(<<c>> \o <<c>>) = 2
    <3> SUFFICES ASSUME NEW c PROVE Len(<<c>> \o <<c>>) = 2
      OBVIOUS
    <3> DEFINE s == <<c>>
    <3>1. s \in Seq({c}) /\ Len(s) = 1
      OBVIOUS
    <3> HIDE DEF s
    <3>2. Len(s \o s) = Len(s) + Len(s)
      BY <3>1, ConcatProperties
    <3>3. Len(s \o s) = 2
      BY <3>1, <3>2
    <3> QED BY <3>3 DEF s
  <2>2. Marked(<<"'">>, "doubled")
    BY <2>1 DEF Marked
  <2> QED BY <2>2, SplitIs
<1>10. Fine("yaml", at, YamlNamed(at, mode)) /\ Fine("yaml", at, YamlTag(at, mode))
  <2> DEFINE b == After(at, 1)
             c == Upto(b, YamlBlank \cup YamlBreak \cup YamlFlow)
  <2>1. b \in Far(Reach, at) /\ b \in Reach
    BY AfterIs
  <2> HIDE DEF b
  <2>2. c \in Far(Reach, b) /\ c \in Far(Reach, at)
    <3>1. b \in Far(Reach, b)
      BY <2>1, ReachIsCounted DEF Far
    <3> QED BY <2>1, <3>1, EndsAre
  <2> HIDE DEF c
  <2>3. Fine("yaml", at, Reading(<<Token("open", at, b)>> \o Piece("content", b, c), c, mode))
    BY <2>1, <2>2, NamedIs
  <2>4. Fine("yaml", at, One("tag", at, c, mode))
    BY <1>4, <2>2 DEF Symbols
  <2> QED BY <2>3, <2>4 DEF YamlNamed, YamlTag, b, c
<1>11. Fine("yaml", at, YamlScalar(at, mode))
  BY YamlScalarIs
<1>12. \A r \in YamlAt(at, mode) : Fine("yaml", at, r)
  BY <1>5, <1>6, <1>7, <1>8, <1>9, <1>10, <1>11 DEF YamlAt
<1>13. ASSUME Eof(at) PROVE YamlAt(at, mode) # {}
  <2>1. ByteAt(at.pos) = "eof" /\ \A a, b, c : ~ Starts(at, <<a, b, c>>)
    BY <1>1, <1>13, NothingStarts
  <2>2. ~ YamlDocMarker(at) /\ ~ YamlIndicator(at)
    BY <2>1 DEF YamlDocMarker, YamlIndicator, YamlFlow
  <2> QED BY <1>13, <2>1, <2>2 DEF YamlAt, YamlBlank, YamlBreak
<1> QED BY <1>12, <1>13 DEF Sound

-----------------------------------------------------------------------------
(* Go's source.                                                            *)

LEMMA LeftFalls ==
    ASSUME IsText, NEW a \in Place, NEW b \in Place, a.pos <= b.pos
    PROVE  /\ Left(a) \in Nat /\ Left(b) \in Nat /\ Left(b) <= Left(a) /\ (~ Eof(b) => ~ Eof(a))
           /\ a.pos < b.pos /\ ~ Eof(a) => Left(b) < Left(a)
<1>1. a.pos \in Nat /\ b.pos \in Nat /\ Len(text) \in Nat
  BY DEF Place, IsText
<1> QED BY <1>1 DEF Left, Eof, AtEnd

LEMMA UptoIsFurther ==
    ASSUME IsText, NEW Q, Runs(Q), NEW at \in Q, NEW bytes, ~ Eof(at), ByteAt(at.pos) \notin bytes,
           ByteAt(at.pos) # "eof"
    PROVE  at.pos < Upto(at, bytes).pos
<1> DEFINE T == {q \in at.pos .. Len(text) : ByteAt(q) \in bytes \cup {"eof"}}
           P(q) == /\ ByteAt(q) \in bytes \cup {"eof"}
                   /\ \A r \in at.pos .. (q - 1) : ByteAt(r) \notin bytes
           q0 == CHOOSE q \in at.pos .. Len(text) : P(q)
           c == RunesTo(at, q0)
<1>1. at \in Place /\ at.pos \in Nat /\ Len(text) \in Nat /\ at.pos < Len(text)
  BY DEF Runs, Place, IsText, Eof, AtEnd
<1>2. Len(text) \in T
  BY <1>1 DEF ByteAt, AtEnd
<1>3. \E q \in at.pos .. Len(text) : q \in T /\ \A r \in at.pos .. (q - 1) : r \notin T
  <2>1. T \in SUBSET (at.pos .. Len(text)) /\ T # {}
    BY <1>2
  <2> HIDE DEF T
  <2> QED BY <1>1, <2>1, FirstIs
<1>4. \E q \in at.pos .. Len(text) : P(q)
  <2>1. PICK q \in at.pos .. Len(text) : q \in T /\ \A r \in at.pos .. (q - 1) : r \notin T
    BY <1>3
  <2>2. \A r \in at.pos .. (q - 1) : r \in at.pos .. Len(text)
    BY <1>1
  <2>3. P(q)
    BY <2>1, <2>2
  <2> HIDE DEF P
  <2> QED BY <2>3
<1>5. q0 \in at.pos .. Len(text) /\ P(q0)
  <2> HIDE DEF P
  <2> QED BY <1>4
<1>6. Upto(at, bytes) = c
  BY DEF Upto
<1> HIDE DEF q0
<1>7. q0 \in Nat /\ at.pos < q0 /\ q0 <= Len(text)
  <2>1. q0 # at.pos
    BY <1>5
  <2> HIDE DEF P
  <2> QED BY <1>1, <1>5, <2>1
<1>8. c \in Far(Q, at) /\ (c.pos >= q0 \/ Eof(c))
  BY RunesToIs
<1> HIDE DEF c
<1>9. c.pos \in Nat
  BY <1>8 DEF Far, Runs, Place
<1>10. at.pos < c.pos
  BY <1>1, <1>7, <1>8, <1>9 DEF Eof, AtEnd
<1> QED BY <1>6, <1>10

\* What the text of a literal leaves out is less than the literal.
LEMMA FewAre ==
    ASSUME NEW a \in Nat, NEW b \in Nat, a < b, NEW R, R \subseteq (a + 1) .. (b - 1)
    PROVE  Cardinality(R) \in Nat /\ Cardinality(R) <= b - a - 1
<1> DEFINE S == (a + 1) .. (b - 1)
<1>1. IsFiniteSet(S) /\ Cardinality(S) = b - a - 1
  <2>1. IsFiniteSet(S) /\ Cardinality(S) = IF a + 1 > b - 1 THEN 0 ELSE (b - 1) - (a + 1) + 1
    <3>1. a + 1 \in Int /\ b - 1 \in Int
      OBVIOUS
    <3> QED BY <3>1, FS_Interval
  <2> QED BY <2>1
<1> HIDE DEF S
<1>2. IsFiniteSet(R) /\ Cardinality(R) <= Cardinality(S)
  BY <1>1, FS_Subset DEF S
<1>3. Cardinality(R) \in Nat
  BY <1>2, FS_CardinalityType
<1> QED BY <1>1, <1>2, <1>3

LEMMA ReturnsAreFew ==
    ASSUME NEW from \in Place, NEW to \in Place, from.pos < to.pos, ByteAt(from.pos) # "\r"
    PROVE  /\ GoReturns(from, to) \in Nat /\ GoReturns(from, to) <= to.pos - from.pos - 1
           /\ GoBlockReturns(from, to) \in Nat /\ GoBlockReturns(from, to) <= to.pos - from.pos - 1
<1> DEFINE a == from.pos
           b == to.pos
           Stays(p) == /\ ByteAt(p + 1) = "/"
                       /\ \E q \in (from.pos + 2) .. (p - 1) :
                             ByteAt(q) = "*" /\ \A r \in (q + 1) .. (p - 1) : ByteAt(r) = "\r"
           R == {p \in a .. (b - 1) : ByteAt(p) = "\r"}
           U == {p \in a .. (b - 1) : ByteAt(p) = "\r" /\ ~ Stays(p)}
<1>1. a \in Nat /\ b \in Nat /\ a < b
  BY DEF Place
<1>2. R \subseteq (a + 1) .. (b - 1) /\ U \subseteq R
  <2> HIDE DEF Stays
  <2> QED BY <1>1
<1>3. GoReturns(from, to) = Cardinality(R) /\ GoBlockReturns(from, to) = Cardinality(U)
  BY DEF GoReturns, GoBlockReturns
<1> HIDE DEF R, U
<1>4. U \subseteq (a + 1) .. (b - 1)
  BY <1>2
<1> HIDE DEF a, b
<1>5. Cardinality(R) \in Nat /\ Cardinality(R) <= b - a - 1
  BY <1>1, <1>2, FewAre
<1>6. Cardinality(U) \in Nat /\ Cardinality(U) <= b - a - 1
  BY <1>1, <1>4, FewAre
<1> QED BY <1>3, <1>5, <1>6 DEF a, b

LEMMA GoEndsAre ==
    ASSUME IsText, NEW Q, Runs(Q), NEW at \in Q, ~ Eof(at)
    PROVE  /\ GoStringEnd(at) \in Far(Q, at) /\ at.pos < GoStringEnd(at).pos
           /\ GoRawEnd(at) \in Far(Q, at) /\ at.pos < GoRawEnd(at).pos
           /\ BlockComment(at, {}).at \in Far(Q, at) /\ at.pos < BlockComment(at, {}).at.pos
<1> DEFINE On(p) == CASE ByteAt(p.pos) \in {"\n", "eof", "\""} -> p
                      [] ByteAt(p.pos) = "\\" /\ ByteAt(p.pos + 1) \in {"\\", "\""} -> After(p, 2)
                      [] OTHER -> OneRune(text, p)
           step == [p \in Place |-> On(p)]
           b == After(at, 1)
           z == Settled(Place, b, step)
           y == Upto(b, {"BQ"})
           zEnd == IF ByteAt(z.pos) = "\"" THEN After(z, 1) ELSE z
           yEnd == IF Eof(y) THEN y ELSE After(y, 1)
<1>1. at \in Place /\ at.pos \in Nat
  BY DEF Runs, Place
<1>2. b \in Far(Q, at) /\ at.pos < b.pos
  BY AfterIsFurther
<1> HIDE DEF b
<1>3. b \in Q /\ b \in Place /\ b.pos \in Nat /\ Far(Q, b) \subseteq Far(Q, at) /\ b \in Far(Q, b)
  <2>1. b \in Q /\ b \in Place /\ b.pos \in Nat /\ Far(Q, b) \subseteq Far(Q, at)
    BY <1>2, FarIs
  <2> QED BY <2>1 DEF Far
<1>4. ASSUME NEW p \in Place
      PROVE  \/ On(p) = p
             \/ ~ Eof(p) /\ On(p) = After(p, 2)
             \/ ~ Eof(p) /\ On(p) = OneRune(text, p)
  <2>1. Eof(p) => ByteAt(p.pos) = "eof"
    BY NothingStarts
  <2> QED BY <2>1
<1> HIDE DEF On
<1>5. step \in [Place -> Place]
  <2>1. \A p \in Place : On(p) \in Place
    BY <1>4, AfterTyped, OneRuneIs
  <2> QED BY <2>1
<1>6. ASSUME NEW p \in Q
      PROVE  step[p] = p \/ (step[p] \in Far(Q, p) /\ Left(step[p]) < Left(p))
  <2>1. p \in Place /\ step[p] = On(p)
    BY <1>5 DEF Runs
  <2> HIDE DEF step
  <2> QED BY <1>4, <2>1, StepsOn
<1>7. z \in Far(Q, b)
  <2> HIDE DEF step
  <2> QED BY <1>3, <1>5, <1>6, WalkIs
<1>8. y \in Far(Q, b)
  BY <1>3, GoesOn
<1>9. GoStringEnd(at) = zEnd /\ GoRawEnd(at) = yEnd
  BY DEF GoStringEnd, GoRawEnd, On, b
<1> HIDE DEF z, y
<1>10. zEnd \in Far(Q, b) /\ yEnd \in Far(Q, b)
  BY <1>3, <1>7, <1>8, GoesOn
<1> HIDE DEF zEnd, yEnd
<1>11. b.pos <= zEnd.pos /\ b.pos <= yEnd.pos /\ zEnd.pos \in Nat /\ yEnd.pos \in Nat
  BY <1>3, <1>10, FarIs
<1>12. BlockComment(at, {}).at \in Far(Q, at) /\ at.pos < BlockComment(at, {}).at.pos
  <2> DEFINE c == After(at, 2)
             e == After(UptoWord(c, <<"*", "/">>), 2)
  <2>1. BlockComment(at, {}).at = e
    BY DEF BlockComment, One, Reading
  <2>2. c \in Far(Q, at) /\ at.pos < c.pos
    BY AfterIsFurther
  <2>3. UptoWord(c, <<"*", "/">>) \in Far(Q, c)
    <3> HIDE DEF c
    <3>1. c \in Q /\ c \in Far(Q, c)
      BY <2>2, FarIs DEF Far
    <3> QED BY <3>1, GoesOn
  <2>4. e \in Far(Q, c)
    <3> HIDE DEF c
    <3>1. c \in Q
      BY <2>2, FarIs
    <3> QED BY <2>3, <3>1, GoesOn
  <2> HIDE DEF c, e
  <2>5. e \in Far(Q, at) /\ c.pos <= e.pos /\ c.pos \in Nat /\ e.pos \in Nat
    BY <2>2, <2>4, FarIs
  <2> QED BY <1>1, <2>1, <2>2, <2>5
<1> QED BY <1>1, <1>2, <1>3, <1>9, <1>10, <1>11, <1>12

LEMMA SlashStarts ==
    ASSUME IsText, NEW at \in Place, ~ Eof(at), NEW c, Starts(at, <<"/", c>>)
    PROVE  ByteAt(at.pos) = "/"
<1> DEFINE k == at.pos + 1
           u == SubSeq(text, k, at.pos + 2)
           w == <<"/", c>>
<1>1. Len(w) = 2 /\ w[1] = "/"
  OBVIOUS
<1> HIDE DEF w
<1>2. at.pos + 2 <= Len(text) /\ u = w
  BY <1>1 DEF Starts, w
<1>3. Len(text) \in Nat /\ at.pos \in Nat /\ at.pos + 2 <= Len(text)
  <2> HIDE DEF u
  <2> QED BY <1>2 DEF IsText, Place
<1>4. u[1] = text[k + 1 - 1]
  <2>1. k \in 1 .. Len(text) + 1 /\ at.pos + 2 \in 0 .. Len(text) /\ 1 \in 1 .. (at.pos + 2) - k + 1
    BY <1>3
  <2> HIDE DEF k
  <2>2. text \in Seq(STRING)
    BY DEF IsText
  <2> QED BY <2>1, <2>2, SubSeqProperties
<1>5. text[k] = "/"
  <2>1. k + 1 - 1 = k
    BY <1>3
  <2> HIDE DEF u, k
  <2> QED BY <1>1, <1>2, <1>4, <2>1
<1> QED BY <1>3, <1>5 DEF ByteAt, Eof

\* What the scanner may find at a place.
GoNames ==
    {"line end", "IDENT", "INT", "STRING", "RAW", "COMMENT", "BLOCK", "operator", "ILLEGAL"}

Meets(Q, at, mode, f) ==
    /\ f.tok \in GoNames \cup {"EOF"} /\ f.from = at /\ f.to \in Far(Q, at) /\ f.mode \in SUBSET Flags
    /\ f.len \in Nat /\ at.pos + f.len <= f.to.pos
    /\ f.tok \in {"STRING", "RAW"} => f.len # 0
    /\ f.tok = "ILLEGAL" => ~ Eof(at)
    /\ f.tok = "BLOCK" => Upto(at, {"\n"}).pos < f.to.pos
    /\ \/ ~ Eof(at) /\ at.pos < f.to.pos /\ f.tok # "EOF"
       \/ f.tok = "EOF" /\ Eof(at)
       \/ f.tok = "line end" /\ mode # {} /\ f.mode = {}

LEMMA MeetsIs ==
    ASSUME IsText, NEW Q, Runs(Q), NEW at \in Q, ~ Eof(at), NEW mode, NEW tok \in GoNames,
           NEW to \in Far(Q, at), at.pos < to.pos, NEW lost \in Nat, lost <= to.pos - at.pos - 1,
           NEW flags \in SUBSET Flags, tok = "BLOCK" => Upto(at, {"\n"}).pos < to.pos
    PROVE  Meets(Q, at, mode, Found(tok, at, to, lost, flags))
<1> DEFINE f == Found(tok, at, to, lost, flags)
<1>1. at.pos \in Nat /\ to.pos \in Nat
  <2>1. at \in Place /\ to \in Place
    BY FarIs DEF Runs
  <2> QED BY <2>1 DEF Place
<1>2. f.tok = tok /\ f.from = at /\ f.to = to /\ f.len = to.pos - at.pos - lost /\ f.mode = flags
  BY DEF Found
<1> HIDE DEF f
<1>3. f.len \in Nat /\ at.pos + f.len <= to.pos /\ f.len # 0
  BY <1>1, <1>2
<1>4. tok # "EOF"
  BY DEF GoNames
<1>5. Meets(Q, at, mode, f)
  BY <1>2, <1>3, <1>4 DEF Meets
<1> QED BY <1>5 DEF f

LEMMA GoFoundIs ==
    ASSUME IsText, NEW Q, Runs(Q), NEW at \in Q, NEW mode \in SUBSET Flags
    PROVE  /\ \A f \in GoFound(at, mode) : Meets(Q, at, mode, f)
           /\ Eof(at) => GoFound(at, mode) # {}
<1>1. at \in Place /\ at.pos \in Nat /\ at \in Far(Q, at)
  <2>1. at \in Place /\ at.pos \in Nat
    BY DEF Runs, Place
  <2> QED BY <2>1 DEF Far
<1>2. {} \in SUBSET Flags /\ {"semicolon"} \in SUBSET Flags
  BY DEF Flags
<1>3. ASSUME Eof(at)
      PROVE  GoFound(at, mode) = {Found(IF mode = {} THEN "EOF" ELSE "line end", at, at, 0, {})}
  <2>1. ByteAt(at.pos) = "eof" /\ \A a, b : ~ Starts(at, <<a, b>>)
    BY <1>1, <1>3, NothingStarts
  <2> QED BY <1>3, <2>1 DEF GoFound, Gap, Space, WordStart, Letter, Digit
<1>4. ASSUME Eof(at), NEW f \in GoFound(at, mode) PROVE Meets(Q, at, mode, f)
  <2>1. f = Found(IF mode = {} THEN "EOF" ELSE "line end", at, at, 0, {})
    BY <1>3, <1>4
  <2>2. /\ f.tok = IF mode = {} THEN "EOF" ELSE "line end"
        /\ f.from = at /\ f.to = at /\ f.len = at.pos - at.pos - 0 /\ f.mode = {}
    BY <2>1 DEF Found
  <2>3. f.len = 0 /\ at.pos + f.len <= f.to.pos
    <3>1. at.pos \in Nat /\ f.to.pos = at.pos /\ f.len = at.pos - at.pos - 0
      BY <1>1, <2>2
    <3> QED BY <3>1
  <2>4. f.tok \in GoNames \cup {"EOF"} /\ f.tok \notin {"STRING", "RAW", "BLOCK", "ILLEGAL"}
    BY <2>2 DEF GoNames
  <2>5. f.from = at /\ f.to \in Far(Q, at) /\ f.mode = {} /\ f.mode \in SUBSET Flags
    BY <1>1, <1>2, <2>2
  <2>6. f.len \in Nat
    BY <2>3
  <2>7. (f.tok = "EOF" /\ Eof(at)) \/ (f.tok = "line end" /\ mode # {} /\ f.mode = {})
    BY <1>4, <2>2, <2>5
  <2>8. /\ f.tok \in {"STRING", "RAW"} => f.len # 0
        /\ f.tok = "ILLEGAL" => ~ Eof(at)
        /\ f.tok = "BLOCK" => Upto(at, {"\n"}).pos < f.to.pos
    BY <2>4
  <2> QED BY <2>3, <2>4, <2>5, <2>6, <2>7, <2>8 DEF Meets
<1>5. ASSUME ~ Eof(at), NEW f \in GoFound(at, mode) PROVE Meets(Q, at, mode, f)
  <2>1. ASSUME NEW tok \in GoNames, NEW to \in Far(Q, at), at.pos < to.pos, NEW flags \in SUBSET Flags,
               tok = "BLOCK" => Upto(at, {"\n"}).pos < to.pos
        PROVE  /\ Meets(Q, at, mode, Found(tok, at, to, 0, flags))
               /\ ByteAt(at.pos) # "\r" =>
                     /\ Meets(Q, at, mode, Found(tok, at, to, GoReturns(at, to), flags))
                     /\ Meets(Q, at, mode, Found(tok, at, to, GoBlockReturns(at, to), flags))
    <3>1. to \in Place /\ to.pos \in Nat
      BY <2>1 DEF Far, Runs, Place
    <3>2. 0 <= to.pos - at.pos - 1
      BY <1>1, <2>1, <3>1
    <3>3. ByteAt(at.pos) # "\r" =>
             /\ GoReturns(at, to) \in Nat /\ GoReturns(at, to) <= to.pos - at.pos - 1
             /\ GoBlockReturns(at, to) \in Nat /\ GoBlockReturns(at, to) <= to.pos - at.pos - 1
      BY <1>1, <2>1, <3>1, ReturnsAreFew
    <3> QED BY <1>5, <2>1, <3>2, <3>3, MeetsIs
  <2>2. After(at, 1) \in Far(Q, at) /\ at.pos < After(at, 1).pos
    BY <1>5, AfterIsFurther
  <2>3. \A bytes : Past(at, bytes) \in Far(Q, at) /\ Upto(at, bytes) \in Far(Q, at)
    BY <1>1, GoesOn
  <2>4. /\ ByteAt(at.pos) \in WordStart => at.pos < Past(at, WordStart \cup Digit).pos
        /\ ByteAt(at.pos) \in Digit => at.pos < Past(at, Numeric).pos
    <3>1. "eof" \notin WordStart \cup Digit /\ "eof" \notin Numeric
      BY DEF WordStart, Letter, Digit, Numeric
    <3>2. Digit \subseteq Numeric
      BY DEF Numeric
    <3> QED BY <3>1, <3>2, PastIsFurther
  <2>5. /\ Starts(at, <<"/", "/">>) => ByteAt(at.pos) = "/" /\ at.pos < Upto(at, {"\n"}).pos
        /\ Starts(at, <<"/", "*">>) => ByteAt(at.pos) = "/"
    BY <1>1, <1>5, SlashStarts, UptoIsFurther
  <2>6. /\ GoStringEnd(at) \in Far(Q, at) /\ at.pos < GoStringEnd(at).pos
        /\ GoRawEnd(at) \in Far(Q, at) /\ at.pos < GoRawEnd(at).pos
        /\ BlockComment(at, {}).at \in Far(Q, at) /\ at.pos < BlockComment(at, {}).at.pos
    BY <1>5, GoEndsAre
  <2>7. \/ ByteAt(at.pos) \in WordStart
             /\ f = Found("IDENT", at, Past(at, WordStart \cup Digit), 0, {"semicolon"})
        \/ ByteAt(at.pos) \in Digit /\ f = Found("INT", at, Past(at, Numeric), 0, {"semicolon"})
        \/ f = Found("STRING", at, GoStringEnd(at), 0, {"semicolon"})
        \/ ByteAt(at.pos) = "BQ"
             /\ f = Found("RAW", at, GoRawEnd(at), GoReturns(at, GoRawEnd(at)), {"semicolon"})
        \/ Starts(at, <<"/", "/">>)
             /\ f = Found("COMMENT", at, Upto(at, {"\n"}), GoReturns(at, Upto(at, {"\n"})), mode)
        \/ Starts(at, <<"/", "*">>) /\ f = GoBlock(at, BlockComment(at, {}).at, mode)
        \/ \E tok \in {"line end", "operator", "ILLEGAL"} : \E flags \in {{}, {"semicolon"}, mode} :
              f = Found(tok, at, After(at, 1), 0, flags)
    BY <1>5 DEF GoFound
  <2>8. /\ {"IDENT", "INT", "STRING", "RAW", "COMMENT", "line end", "operator", "ILLEGAL"} \subseteq GoNames
        /\ "BLOCK" \in GoNames
    BY DEF GoNames
  <2> QED
    <3>1. CASE ByteAt(at.pos) \in WordStart
                 /\ f = Found("IDENT", at, Past(at, WordStart \cup Digit), 0, {"semicolon"})
      BY <1>2, <2>1, <2>3, <2>4, <2>8, <3>1
    <3>2. CASE ByteAt(at.pos) \in Digit /\ f = Found("INT", at, Past(at, Numeric), 0, {"semicolon"})
      BY <1>2, <2>1, <2>3, <2>4, <2>8, <3>2
    <3>3. CASE f = Found("STRING", at, GoStringEnd(at), 0, {"semicolon"})
      BY <1>2, <2>1, <2>6, <2>8, <3>3
    <3>4. CASE ByteAt(at.pos) = "BQ"
                 /\ f = Found("RAW", at, GoRawEnd(at), GoReturns(at, GoRawEnd(at)), {"semicolon"})
      BY <1>2, <2>1, <2>6, <2>8, <3>4
    <3>5. CASE Starts(at, <<"/", "/">>)
                 /\ f = Found("COMMENT", at, Upto(at, {"\n"}), GoReturns(at, Upto(at, {"\n"})), mode)
      BY <1>2, <2>1, <2>3, <2>5, <2>8, <3>5
    <3>6. CASE \E tok \in {"line end", "operator", "ILLEGAL"} : \E flags \in {{}, {"semicolon"}, mode} :
                  f = Found(tok, at, After(at, 1), 0, flags)
      BY <1>2, <2>1, <2>2, <2>8, <3>6
    <3>7. CASE Starts(at, <<"/", "*">>) /\ f = GoBlock(at, BlockComment(at, {}).at, mode)
      <4> DEFINE end == BlockComment(at, {}).at
      <4>1. end \in Far(Q, at) /\ at.pos < end.pos /\ ByteAt(at.pos) # "\r"
        BY <2>5, <2>6, <3>7
      <4> HIDE DEF end
      <4>2. CASE mode # {} /\ Upto(at, {"\n"}).pos < end.pos
        <5>1. f = Found("BLOCK", at, end, GoBlockReturns(at, end), {})
          BY <3>7, <4>2 DEF GoBlock, end
        <5> QED BY <1>2, <2>1, <2>8, <4>1, <4>2, <5>1
      <4>3. CASE ~ (mode # {} /\ Upto(at, {"\n"}).pos < end.pos)
        <5>1. f = Found("COMMENT", at, end, GoBlockReturns(at, end), mode)
          BY <3>7, <4>3 DEF GoBlock, end
        <5> QED BY <2>1, <2>8, <4>1, <5>1
      <4> QED BY <4>2, <4>3
    <3> QED BY <2>7, <3>1, <3>2, <3>3, <3>4, <3>5, <3>6, <3>7
<1>6. Eof(at) => GoFound(at, mode) # {}
  BY <1>3
<1> QED BY <1>4, <1>5, <1>6

LEMMA GoScanIs ==
    ASSUME IsText, NEW Q, Runs(Q), NEW place \in Q, NEW mode \in SUBSET Flags
    PROVE  \E b \in Far(Q, place) : Meets(Q, b, mode, GoScan(place, mode))
<1> DEFINE found == [at \in Place |-> GoFound(at, mode)]
<1>1. \A at \in Q : found[at] = GoFound(at, mode)
  BY DEF Runs
<1>2. GoScan(place, mode) = FirstRead(place, found)
  BY DEF GoScan
<1> HIDE DEF found
<1>3. \A at \in Q : Eof(at) => found[at] # {}
  BY <1>1, GoFoundIs
<1>4. PICK b \in Far(Q, place) : FirstRead(place, found) \in found[b]
  BY <1>3, FirstReadIs
<1>5. b \in Q
  BY DEF Far
<1> QED BY <1>1, <1>2, <1>4, <1>5, GoFoundIs

LEMMA GoTokenIs ==
    ASSUME IsText, NEW symbol \in Symbols, NEW p \in Nat, NEW q \in Nat, p <= q
    PROVE  /\ GoToken(symbol, p, q) \in Tokens /\ GoToken(symbol, p, q).symbol = symbol
           /\ GoToken(symbol, p, q).from.pos = p /\ GoToken(symbol, p, q).to.pos = q
           /\ symbol # "end" => Fits("go", GoToken(symbol, p, q))
<1> DEFINE t == GoToken(symbol, p, q)
<1>1. t = [symbol |-> symbol, from |-> GoPoint(p), to |-> GoPoint(q)]
  BY DEF GoToken, Token
<1>2. /\ GoPoint(p) \in Place /\ GoPoint(p).pos = p /\ Counted(GoPoint(p))
      /\ GoPoint(q) \in Place /\ GoPoint(q).pos = q /\ Counted(GoPoint(q))
  BY GoPointIs
<1>3. t.symbol = symbol /\ t.from = GoPoint(p) /\ t.to = GoPoint(q)
  BY <1>1
<1>4. t \in Tokens
  BY <1>1, <1>2 DEF Tokens
<1> HIDE DEF t
<1>5. symbol # "end" => Fits("go", t)
  BY <1>2, <1>3, <1>4 DEF Fits
<1> QED BY <1>2, <1>3, <1>4, <1>5 DEF t

\* The semicolon of a line's end within a comment.
LEMMA LineEndIs ==
    ASSUME IsText, NEW p \in Nat
    PROVE  /\ GoToken("line end", p, p + 1) \in Tokens /\ GoToken("line end", p, p + 1).to.pos = p + 1
           /\ Fits("go", GoToken("line end", p, p + 1)) /\ Early("go", GoToken("line end", p, p + 1))
<1> DEFINE symbol == "line end"
           q == p + 1
<1>1. symbol \in Symbols /\ symbol # "end"
  BY DEF Symbols
<1>2. symbol \in {"close", "line end"} /\ q = p + 1
  OBVIOUS
<1>3. q \in Nat /\ p <= q
  OBVIOUS
<1> HIDE DEF symbol, q
<1>4. /\ GoToken(symbol, p, q) \in Tokens /\ GoToken(symbol, p, q).symbol = symbol
      /\ GoToken(symbol, p, q).to.pos = q /\ Fits("go", GoToken(symbol, p, q))
  BY <1>1, <1>3, GoTokenIs
<1>5. Early("go", GoToken(symbol, p, q))
  BY <1>2, <1>4, Zenon DEF Early
<1> QED BY <1>4, <1>5 DEF symbol, q

\* A string of Go's in its parts.
LEMMA GoSplitIs ==
    ASSUME IsText, NEW Q, Runs(Q), NEW b \in Q, NEW mode, NEW f, Meets(Q, b, mode, f), f.len # 0
    PROVE  /\ GoSplit(f).at = f.to /\ GoSplit(f).mode = f.mode /\ GoSplit(f).done = FALSE
           /\ GoSplit(f).tokens \in Seq(Tokens) /\ Len(GoSplit(f).tokens) \in 1 .. 3
           /\ Laid("go", b.pos, GoSplit(f).tokens, f.to.pos)
           /\ b.pos <= GoSplit(f).tokens[1].from.pos
<1> DEFINE a == b.pos
           z == b.pos + f.len
           mid == IF z - 1 > a + 1 THEN z - 1 ELSE a + 1
           open == GoToken("open", a, a + 1)
           content == IF z - 1 > a + 1 THEN <<GoToken("content", a + 1, z - 1)>> ELSE << >>
           close == GoToken("close", z - 1, z)
           toks == <<open>> \o content \o <<close>>
<1>1. /\ b \in Place /\ a \in Nat /\ f.len \in Nat \ {0} /\ z <= f.to.pos /\ f.from = b
      /\ f.to.pos \in Nat
  BY DEF Runs, Place, Meets, Far
<1>2. z \in Nat /\ a + 1 \in Nat /\ z - 1 \in Nat /\ a + 1 <= mid /\ mid <= z /\ mid \in Nat /\ a <= z - 1
  BY <1>1
<1>3. open \in Tokens /\ Fits("go", open) /\ open.from.pos = a /\ open.to.pos = a + 1
  <2>1. "open" \in Symbols /\ "open" # "end" /\ a \in Nat /\ a + 1 \in Nat /\ a <= a + 1
    BY <1>1, <1>2 DEF Symbols
  <2> HIDE DEF a
  <2> QED BY <2>1, GoTokenIs
<1>4. close \in Tokens /\ Fits("go", close) /\ close.to.pos = z /\ close.symbol = "close"
  <2>1. "close" \in Symbols /\ "close" # "end" /\ z \in Nat /\ z - 1 \in Nat /\ z - 1 <= z
    BY <1>2 DEF Symbols
  <2> HIDE DEF z
  <2> QED BY <2>1, GoTokenIs
<1>5. GoSplit(f) = Reading(toks, f.to, f.mode)
  BY <1>1 DEF GoSplit
<1> HIDE DEF open, close
<1>6. Laid("go", a, <<open>>, a + 1)
  BY <1>1, <1>2, <1>3, LaidOne DEF Follows
<1>7. Laid("go", mid, <<close>>, z)
  <2>1. Follows("go", mid, close)
    BY <1>4 DEF Follows, Early
  <2> QED BY <1>1, <1>2, <1>4, <2>1, LaidOne
<1>8. Laid("go", a + 1, content, mid) /\ content \in Seq(Tokens) /\ Len(content) \in 0 .. 1
  <2>1. CASE z - 1 > a + 1
    <3> DEFINE t == GoToken("content", a + 1, z - 1)
    <3>1. t \in Tokens /\ Fits("go", t) /\ t.from.pos = a + 1 /\ t.to.pos = z - 1
      <4>1. "content" \in Symbols /\ "content" # "end" /\ a + 1 \in Nat /\ z - 1 \in Nat /\ a + 1 <= z - 1
        BY <1>1, <1>2, <2>1 DEF Symbols
      <4> HIDE DEF a, z
      <4> QED BY <4>1, GoTokenIs
    <3>2. content = <<t>> /\ mid = z - 1
      BY <2>1
    <3> HIDE DEF t, content, mid
    <3>3. Laid("go", a + 1, <<t>>, z - 1)
      BY <1>2, <2>1, <3>1, LaidOne DEF Follows
    <3>4. <<t>> \in Seq(Tokens) /\ Len(<<t>>) = 1
      BY <3>1
    <3> QED BY <3>2, <3>3, <3>4
  <2>2. CASE ~ (z - 1 > a + 1)
    <3>1. content = << >> /\ mid = a + 1
      BY <2>2
    <3>2. Laid("go", a + 1, << >>, a + 1)
      BY <1>2, LaidNone
    <3>3. << >> \in Seq(Tokens) /\ Len(<< >>) = 0
      OBVIOUS
    <3> HIDE DEF content, mid
    <3> QED BY <3>1, <3>2, <3>3
  <2> QED BY <2>1, <2>2
<1> HIDE DEF content, mid
<1>9. toks \in Seq(Tokens) /\ Len(toks) \in 1 .. 3 /\ toks[1] = open
  <2> DEFINE s == <<open>>
             e == <<close>>
             u == s \o content
  <2>1. s \in Seq(Tokens) /\ Len(s) = 1 /\ e \in Seq(Tokens) /\ Len(e) = 1 /\ s[1] = open
    BY <1>3, <1>4
  <2> HIDE DEF s, e
  <2>2. u \in Seq(Tokens) /\ Len(u) = 1 + Len(content) /\ u[1] = open
    <3>1. u \in Seq(Tokens) /\ Len(u) = 1 + Len(content)
      BY <1>8, <2>1, ConcatProperties
    <3>2. 1 \in 1 .. Len(s) + Len(content) /\ 1 <= Len(s)
      BY <1>8, <2>1
    <3>3. u[1] = s[1]
      BY <1>8, <2>1, <3>2, ConcatProperties
    <3> QED BY <2>1, <3>1, <3>3
  <2> HIDE DEF u
  <2>3. u \o e \in Seq(Tokens) /\ Len(u \o e) = Len(u) + 1 /\ (u \o e)[1] = open
    BY <1>8, <2>1, <2>2, ConcatProperties
  <2>4. Len(u \o e) \in 1 .. 3
    BY <1>8, <2>2, <2>3
  <2> QED BY <2>3, <2>4 DEF u, s, e
<1>10. Laid("go", a, toks, f.to.pos)
  <2> DEFINE u == <<open>> \o content
  <2>1. Laid("go", a, u, mid)
    BY <1>1, <1>2, <1>6, <1>8, LaidJoin
  <2> HIDE DEF u
  <2>2. Laid("go", a, u \o <<close>>, z)
    BY <1>1, <1>2, <1>7, <2>1, LaidJoin
  <2>3. Laid("go", a, u \o <<close>>, f.to.pos)
    <3> DEFINE v == u \o <<close>>
    <3>1. Laid("go", a, v, z)
      BY <2>2
    <3> HIDE DEF v
    <3>2. Laid("go", a, v, f.to.pos)
      BY <1>1, <1>2, <3>1, LaidWider
    <3> QED BY <3>2 DEF v
  <2> QED BY <2>3 DEF u
<1> HIDE DEF toks
<1>11. GoSplit(f).at = f.to /\ GoSplit(f).mode = f.mode /\ GoSplit(f).done = FALSE /\ GoSplit(f).tokens = toks
  BY <1>5 DEF Reading
<1>12. a <= toks[1].from.pos
  BY <1>1, <1>3, <1>9
<1> QED BY <1>9, <1>10, <1>11, <1>12

\* What Go's source reads from a place on: it goes on, or gives the flag up,
\* or is done; and unless it was beyond the text it is in it.
GoReads(Q, place, mode, r) ==
    /\ r.at \in Far(Q, place) /\ r.mode \in SUBSET Flags /\ r.done \in BOOLEAN
    /\ r.tokens \in Seq(Tokens) /\ Len(r.tokens) \in 1 .. 3
    /\ r.done => r.tokens[1].symbol = "end"
    /\ \/ r.done
       \/ Left(r.at) < Left(place)
       \/ Left(r.at) <= Left(place) /\ mode # {} /\ r.mode = {} /\ Len(r.tokens) = 1
    /\ r.at.pos <= Len(text) => /\ Laid("go", place.pos, r.tokens, r.at.pos)
                                /\ place.pos <= r.tokens[1].from.pos

LEMMA GoBridgedIs ==
    ASSUME IsText, NEW Q, Runs(Q), NEW b \in Q, NEW mode, NEW f, Meets(Q, b, mode, f),
           f.tok # "ILLEGAL"
    PROVE  GoReads(Q, b, mode, GoBridged(f))
<1> DEFINE r == GoBridged(f)
<1>1. /\ b \in Place /\ b.pos \in Nat /\ f.to \in Far(Q, b) /\ f.to \in Place /\ f.to.pos \in Nat
      /\ f.from = b /\ b.pos <= f.to.pos /\ f.len \in Nat /\ b.pos + f.len <= f.to.pos
      /\ f.mode \in SUBSET Flags /\ Len(text) \in Nat
  <2>1. b \in Place /\ f.to \in Far(Q, b) /\ f.from = b /\ f.len \in Nat /\ b.pos + f.len <= f.to.pos
        /\ f.mode \in SUBSET Flags
    BY DEF Runs, Meets
  <2>2. f.to \in Place /\ f.to.pos \in Nat /\ b.pos <= f.to.pos
    BY <2>1, FarIs
  <2>3. b.pos \in Nat /\ Len(text) \in Nat
    BY <2>1 DEF Place, IsText
  <2> QED BY <2>1, <2>2, <2>3
<1>2. f.tok # "EOF" => \/ Left(f.to) < Left(b)
                       \/ Left(f.to) <= Left(b) /\ f.tok = "line end" /\ mode # {} /\ f.mode = {}
  <2>1. /\ Left(f.to) <= Left(b) /\ (b.pos < f.to.pos /\ ~ Eof(b) => Left(f.to) < Left(b))
    BY <1>1, LeftFalls
  <2> QED BY <2>1 DEF Meets
<1>3. CASE f.tok = "EOF"
  <2> DEFINE t == TheEnd(GoPoint(Len(text)))
  <2>1. r = [tokens |-> <<t>>, at |-> f.to, mode |-> f.mode, done |-> TRUE]
    BY <1>3 DEF GoBridged
  <2>2. GoPoint(Len(text)) \in Place /\ GoPoint(Len(text)).pos = Len(text) /\ Counted(GoPoint(Len(text)))
    BY <1>1, GoPointIs
  <2>3. [GoPoint(Len(text)) EXCEPT !.pos = Len(text)] = GoPoint(Len(text))
    BY <2>2 DEF Place
  <2>4. t = [symbol |-> "end", from |-> GoPoint(Len(text)), to |-> GoPoint(Len(text))]
    BY <2>3 DEF TheEnd, Token
  <2>5. t \in Tokens /\ Fits("go", t) /\ t.symbol = "end" /\ t.from.pos = Len(text) /\ t.to.pos = Len(text)
    <3>1. t.symbol = "end" /\ t.from = GoPoint(Len(text)) /\ t.to = GoPoint(Len(text))
      BY <2>4
    <3>2. t \in Tokens
      BY <2>2, <2>4 DEF Tokens, Symbols
    <3> HIDE DEF t
    <3> QED BY <1>1, <2>2, <3>1, <3>2 DEF Fits
  <2> HIDE DEF t, r
  <2>6. Eof(b) /\ Len(text) <= f.to.pos
    <3>1. Eof(b)
      BY <1>3 DEF Meets, GoNames
    <3> QED BY <1>1, <3>1 DEF Eof, AtEnd
  <2>7. f.to.pos <= Len(text) => Laid("go", b.pos, <<t>>, f.to.pos)
    <3> SUFFICES ASSUME f.to.pos <= Len(text) PROVE Laid("go", b.pos, <<t>>, f.to.pos)
      OBVIOUS
    <3>1. Follows("go", b.pos, t) /\ t.to.pos <= f.to.pos
      BY <1>1, <2>5, <2>6 DEF Follows
    <3> QED BY <1>1, <2>5, <3>1, LaidOne
  <2>8. <<t>> \in Seq(Tokens) /\ Len(<<t>>) = 1 /\ <<t>>[1] = t
    BY <2>5
  <2>9. r.tokens = <<t>> /\ r.at = f.to /\ r.mode = f.mode /\ r.done = TRUE
    BY <2>1
  <2>10. r.tokens \in Seq(Tokens) /\ Len(r.tokens) \in 1 .. 3 /\ r.tokens[1].symbol = "end"
    BY <2>5, <2>8, <2>9
  <2>11. r.at.pos <= Len(text) => Laid("go", b.pos, r.tokens, r.at.pos) /\ b.pos <= r.tokens[1].from.pos
    <3>1. f.to.pos <= Len(text) => b.pos <= t.from.pos
      BY <1>1, <2>5
    <3> QED BY <2>7, <2>8, <2>9, <3>1
  <2>12. GoReads(Q, b, mode, r)
    BY <1>1, <2>9, <2>10, <2>11 DEF GoReads
  <2> QED BY <2>12 DEF r
<1>4. CASE f.tok \in {"STRING", "RAW"}
  <2>1. r = GoSplit(f) /\ f.len # 0 /\ f.tok # "EOF" /\ f.tok # "line end"
    BY <1>4 DEF GoBridged, Meets
  <2>2. /\ r.at = f.to /\ r.mode = f.mode /\ r.done = FALSE
        /\ r.tokens \in Seq(Tokens) /\ Len(r.tokens) \in 1 .. 3
        /\ Laid("go", b.pos, r.tokens, f.to.pos) /\ b.pos <= r.tokens[1].from.pos
    <3> HIDE DEF r
    <3> QED BY <2>1, GoSplitIs
  <2> HIDE DEF r
  <2>3. GoReads(Q, b, mode, r)
    BY <1>1, <1>2, <2>1, <2>2 DEF GoReads
  <2> QED BY <2>3 DEF r
<1>5. CASE f.tok \in {"line end", "IDENT", "INT", "COMMENT", "operator"}
  <2> DEFINE t == GoToken(f.tok, b.pos, b.pos + f.len)
  <2>1. r = Reading(<<t>>, f.to, f.mode)
    BY <1>1, <1>5 DEF GoBridged
  <2>2. t \in Tokens /\ Fits("go", t) /\ t.from.pos = b.pos /\ t.to.pos = b.pos + f.len
    <3>1. f.tok \in Symbols /\ f.tok # "end"
      BY <1>5 DEF Symbols
    <3>2. b.pos \in Nat /\ b.pos + f.len \in Nat /\ b.pos <= b.pos + f.len
      BY <1>1
    <3> QED BY <3>1, <3>2, GoTokenIs
  <2> HIDE DEF t, r
  <2>3. Laid("go", b.pos, <<t>>, f.to.pos)
    BY <1>1, <2>2, LaidOne DEF Follows
  <2>4. <<t>> \in Seq(Tokens) /\ Len(<<t>>) = 1
    BY <2>2
  <2>5. r.tokens = <<t>> /\ r.at = f.to /\ r.mode = f.mode /\ r.done = FALSE
    BY <2>1 DEF Reading
  <2>6. f.tok # "EOF"
    BY <1>5
  <2>7. r.tokens \in Seq(Tokens) /\ Len(r.tokens) \in 1 .. 3 /\ Len(r.tokens) = 1
    BY <2>4, <2>5
  <2>8. Laid("go", b.pos, r.tokens, r.at.pos) /\ b.pos <= r.tokens[1].from.pos
    BY <1>1, <2>2, <2>3, <2>5
  <2>9. \/ Left(r.at) < Left(b)
        \/ Left(r.at) <= Left(b) /\ mode # {} /\ r.mode = {}
    BY <1>2, <2>5, <2>6
  <2>10. GoReads(Q, b, mode, r)
    BY <1>1, <2>5, <2>7, <2>8, <2>9 DEF GoReads
  <2> QED BY <2>10 DEF r
<1>6. CASE f.tok = "BLOCK"
  <2> DEFINE nl == Upto(b, {"\n"}).pos
             c == GoToken("COMMENT", b.pos, b.pos + f.len)
             e == GoToken("line end", nl, nl + 1)
  <2>1. r = Reading(<<c, e>>, f.to, f.mode)
    BY <1>1, <1>6 DEF GoBridged, GoBlockAndLineEnd
  <2>2. nl \in Nat /\ nl + 1 \in Nat /\ nl <= nl + 1 /\ nl + 1 <= f.to.pos
    <3>1. Upto(b, {"\n"}) \in Far(Q, b) /\ nl < f.to.pos
      BY <1>6, GoesOn, FarIs DEF Meets
    <3>2. Upto(b, {"\n"}).pos \in Nat
      BY <3>1, FarIs
    <3> QED BY <1>1, <3>1, <3>2
  <2> HIDE DEF nl
  <2>3. /\ c \in Tokens /\ Fits("go", c) /\ c.from.pos = b.pos /\ c.to.pos = b.pos + f.len
        /\ e \in Tokens /\ Fits("go", e) /\ Early("go", e) /\ e.to.pos = nl + 1
    <3>1. "COMMENT" \in Symbols /\ "COMMENT" # "end"
      BY DEF Symbols
    <3>2. b.pos \in Nat /\ b.pos + f.len \in Nat /\ b.pos <= b.pos + f.len
      BY <1>1
    <3>3. c \in Tokens /\ Fits("go", c) /\ c.from.pos = b.pos /\ c.to.pos = b.pos + f.len
      BY <3>1, <3>2, GoTokenIs
    <3>4. e \in Tokens /\ Fits("go", e) /\ Early("go", e) /\ e.to.pos = nl + 1
      BY <2>2, LineEndIs
    <3> HIDE DEF c, e
    <3> QED BY <3>3, <3>4
  <2> HIDE DEF c, e, r
  <2>4. Laid("go", b.pos, <<c>>, f.to.pos)
    BY <1>1, <2>3, LaidOne DEF Follows
  <2>5. Laid("go", f.to.pos, <<e>>, f.to.pos)
    <3>1. Follows("go", f.to.pos, e)
      BY <2>3 DEF Follows
    <3>2. e.to.pos <= f.to.pos /\ f.to.pos <= f.to.pos
      BY <1>1, <2>2, <2>3
    <3> QED BY <1>1, <2>3, <3>1, <3>2, LaidOne
  <2>6. Laid("go", b.pos, <<c>> \o <<e>>, f.to.pos)
    BY <1>1, <2>4, <2>5, LaidJoin
  <2>7. <<c, e>> \in Seq(Tokens) /\ Len(<<c, e>>) = 2 /\ <<c, e>>[1] = c
    <3>1. c \in Tokens /\ e \in Tokens
      BY <2>3
    <3> QED BY <3>1
  <2>8. r.tokens = <<c, e>> /\ r.at = f.to /\ r.mode = f.mode /\ r.done = FALSE
    BY <2>1 DEF Reading
  <2>9. r.tokens \in Seq(Tokens) /\ Len(r.tokens) \in 1 .. 3
    BY <2>7, <2>8
  <2>10. Laid("go", b.pos, r.tokens, r.at.pos) /\ b.pos <= r.tokens[1].from.pos
    <3>1. <<c>> \o <<e>> = <<c, e>>
      <4> DEFINE u == <<c>> \o <<e>>
                 v == <<c, e>>
      <4>1. c \in Tokens /\ e \in Tokens
        BY <2>3
      <4>2. /\ <<c>> \in Seq(Tokens) /\ Len(<<c>>) = 1 /\ <<c>>[1] = c
            /\ <<e>> \in Seq(Tokens) /\ Len(<<e>>) = 1 /\ <<e>>[1] = e
        BY <4>1
      <4>3. v \in Seq(Tokens) /\ Len(v) = 2 /\ v[1] = c /\ v[2] = e
        BY <4>1
      <4>4. u \in Seq(Tokens) /\ Len(u) = 2 /\ u[1] = c /\ u[2] = e
        BY <4>2, ConcatProperties
      <4> HIDE DEF u, v
      <4>5. \A i \in 1 .. Len(u) : u[i] = v[i]
        <5>1. \A i \in 1 .. 2 : i = 1 \/ i = 2
          OBVIOUS
        <5> QED BY <4>3, <4>4, <5>1
      <4>6. u = v
        BY <4>3, <4>4, <4>5, SeqEqual
      <4> QED BY <4>6 DEF u, v
    <3>2. Laid("go", b.pos, r.tokens, r.at.pos)
      BY <2>6, <2>8, <3>1
    <3>3. r.tokens[1] = c
      BY <2>7, <2>8
    <3>4. b.pos <= c.from.pos
      BY <1>1, <2>3
    <3> QED BY <3>2, <3>3, <3>4
  <2>11. Left(r.at) < Left(b)
    BY <1>2, <1>6, <2>8
  <2>12. GoReads(Q, b, mode, r)
    BY <1>1, <2>8, <2>9, <2>10, <2>11 DEF GoReads
  <2> QED BY <2>12 DEF r
<1>7. f.tok \in {"EOF", "STRING", "RAW", "line end", "IDENT", "INT", "COMMENT", "BLOCK", "operator"}
  BY DEF Meets, GoNames
<1> QED BY <1>3, <1>4, <1>5, <1>6, <1>7

LEMMA GoReadsFurther ==
    ASSUME IsText, NEW Q, Runs(Q), NEW place \in Q, NEW b \in Far(Q, place), NEW mode, NEW r,
           GoReads(Q, b, mode, r)
    PROVE  GoReads(Q, place, mode, r)
<1>1. place \in Place /\ place.pos \in Nat /\ b \in Q /\ b \in Place /\ b.pos \in Nat /\ place.pos <= b.pos
      /\ Far(Q, b) \subseteq Far(Q, place)
  <2>1. place \in Place
    BY DEF Runs
  <2> QED BY <2>1, FarIs DEF Place
<1>2. r.at \in Far(Q, b) /\ r.at \in Place /\ r.at.pos \in Nat
  <2>1. r.at \in Far(Q, b)
    BY DEF GoReads
  <2> QED BY <1>1, <2>1, FarIs
<1>3. Left(b) <= Left(place) /\ Left(b) \in Nat /\ Left(place) \in Nat /\ Left(r.at) \in Nat
  BY <1>1, <1>2, LeftFalls, OneRuneIs
<1>4. \/ r.done
      \/ Left(r.at) < Left(place)
      \/ Left(r.at) <= Left(place) /\ mode # {} /\ r.mode = {} /\ Len(r.tokens) = 1
  BY <1>3 DEF GoReads
<1>5. ASSUME r.at.pos <= Len(text)
      PROVE  Laid("go", place.pos, r.tokens, r.at.pos) /\ place.pos <= r.tokens[1].from.pos
  <2>1. Laid("go", b.pos, r.tokens, r.at.pos) /\ b.pos <= r.tokens[1].from.pos /\ 1 \in 1 .. Len(r.tokens)
    BY <1>5 DEF GoReads
  <2>2. r.tokens[1].from.pos \in Nat
    BY <1>1, <1>2, <2>1, LaidTokens
  <2>3. place.pos <= r.tokens[1].from.pos
    BY <1>1, <2>1, <2>2
  <2> QED BY <1>1, <1>2, <2>1, <2>3, LaidWider
<1> QED BY <1>1, <1>2, <1>4, <1>5 DEF GoReads

LEMMA GoReadIs ==
    ASSUME IsText, NEW Q, Runs(Q), NEW place \in Q, NEW mode \in SUBSET Flags
    PROVE  GoReads(Q, place, mode, ReadGo(place, mode))
<1> DEFINE found == [at \in Place |-> GoAt(at, mode)]
<1>1. ASSUME NEW at \in Q
      PROVE  /\ found[at] = GoAt(at, mode)
             /\ \A r \in GoAt(at, mode) : GoReads(Q, at, mode, r)
             /\ Eof(at) => GoAt(at, mode) # {}
  <2>1. PICK b \in Far(Q, at) : Meets(Q, b, mode, GoScan(at, mode))
    BY GoScanIs
  <2>2. b \in Q /\ b \in Place /\ at \in Place /\ at.pos <= b.pos
    BY FarIs DEF Runs
  <2>3. ASSUME NEW r \in GoAt(at, mode) PROVE GoReads(Q, at, mode, r)
    <3>1. r = GoBridged(GoScan(at, mode)) /\ GoScan(at, mode).tok # "ILLEGAL"
      BY <2>3 DEF GoAt
    <3>2. GoReads(Q, b, mode, r)
      BY <2>1, <2>2, <3>1, GoBridgedIs
    <3> QED BY <2>1, <3>2, GoReadsFurther
  <2>4. ASSUME Eof(at) PROVE GoAt(at, mode) # {}
    <3>1. Eof(b)
      BY <2>2, <2>4, LeftFalls
    <3>2. GoScan(at, mode).tok # "ILLEGAL"
      BY <2>1, <3>1 DEF Meets
    <3> QED BY <3>2 DEF GoAt
  <2>5. found[at] = GoAt(at, mode)
    BY <2>2
  <2> QED BY <2>3, <2>4, <2>5
<1>2. ReadGo(place, mode) = FirstRead(place, found)
  BY DEF ReadGo
<1> HIDE DEF found
<1>3. PICK b \in Far(Q, place) : FirstRead(place, found) \in found[b]
  <2>1. \A at \in Q : Eof(at) => found[at] # {}
    BY <1>1
  <2> QED BY <2>1, FirstReadIs
<1>4. b \in Q
  BY DEF Far
<1>5. GoReads(Q, b, mode, ReadGo(place, mode))
  BY <1>1, <1>2, <1>3, <1>4
<1> QED BY <1>5, GoReadsFurther

-----------------------------------------------------------------------------
(* Every source.                                                           *)

LEMMA ReadsAreFine ==
    ASSUME IsText, NEW lang \in Sources, NEW at \in Cursors(lang), NEW mode \in SUBSET Flags
    PROVE  Fine(lang, at, ReadAfresh(lang, at, mode))
<1>1. ASSUME lang # "go" PROVE at \in Reach /\ Cursors(lang) = Reach
  BY <1>1 DEF Cursors
<1>2. ASSUME lang # "go", NEW found, \A b \in Reach : Sound(lang, b, found[b])
      PROVE  Fine(lang, at, FirstRead(at, found))
  BY <1>1, <1>2, FirstReadIsFine DEF Sound
<1>3. \A b \in Reach : b \in Place
  BY DEF Reach
<1>4. CASE lang = "json"
  <2>1. \A b \in Reach : Sound(lang, b, [c \in Place |-> JsonAt(c)][b])
    BY <1>3, <1>4, JsonIs
  <2>2. Fine(lang, at, ReadJson(at))
    BY <1>2, <1>4, <2>1 DEF ReadJson
  <2> QED BY <1>4, <2>2 DEF ReadAfresh
<1>5. CASE lang = "toml"
  <2>1. \A b \in Reach : Sound(lang, b, [c \in Place |-> TomlAt(c, mode)][b])
    BY <1>3, <1>5, TomlIs
  <2>2. Fine(lang, at, FirstRead(at, [c \in Place |-> TomlAt(c, mode)]))
    BY <1>2, <1>5, <2>1
  <2>3. Fine(lang, at, TomlMarker("document", at, at, mode \cup {"started"}))
    <3>1. mode \cup {"started"} \in SUBSET Flags /\ "document" \in Symbols \ {"end"}
      BY DEF Flags, Symbols
    <3>2. at \in Reach /\ at \in Far(Reach, at)
      BY <1>1, <1>5, ReachIsCounted DEF Far
    <3> QED BY <1>5, <3>1, <3>2, MarkerIs DEF TomlMarker
  <2>4. Fine(lang, at, ReadToml(at, mode))
    BY <2>2, <2>3 DEF ReadToml
  <2> QED BY <1>5, <2>4 DEF ReadAfresh
<1>6. CASE lang = "yaml"
  <2>1. \A b \in Reach : Sound(lang, b, [c \in Place |-> YamlAt(c, mode)][b])
    BY <1>3, <1>6, YamlIs
  <2>2. Fine(lang, at, ReadYaml(at, mode))
    BY <1>2, <1>6, <2>1 DEF ReadYaml
  <2> QED BY <1>6, <2>2 DEF ReadAfresh
<1>7. CASE lang = "c"
  <2>1. \A b \in Reach : Sound(lang, b, [c \in Place |-> CAt(c, mode)][b])
    BY <1>3, <1>7, CIs
  <2>2. Fine(lang, at, ReadC(at, mode))
    BY <1>2, <1>7, <2>1 DEF ReadC
  <2> QED BY <1>7, <2>2 DEF ReadAfresh
<1>8. CASE lang = "java"
  <2>1. \A b \in Reach : Sound(lang, b, [c \in Place |-> JavaAt(c)][b])
    BY <1>3, <1>8, JavaIs
  <2>2. Fine(lang, at, ReadJava(at))
    BY <1>2, <1>8, <2>1 DEF ReadJava
  <2> QED BY <1>8, <2>2 DEF ReadAfresh
<1>9. CASE lang = "lua"
  <2>1. \A b \in Reach : Sound(lang, b, [c \in Place |-> LuaAt(c)][b])
    BY <1>3, <1>9, LuaIs
  <2>2. Fine(lang, at, ReadLua(at))
    BY <1>2, <1>9, <2>1 DEF ReadLua
  <2> QED BY <1>9, <2>2 DEF ReadAfresh
<1>10. CASE lang = "authzed"
  <2>1. \A b \in Reach : Sound(lang, b, [c \in Place |-> AuthzedAt(c)][b])
    BY <1>3, <1>10, AuthzedIs
  <2>2. Fine(lang, at, ReadAuthzed(at))
    BY <1>2, <1>10, <2>1 DEF ReadAuthzed
  <2> QED BY <1>10, <2>2 DEF ReadAfresh
<1>11. CASE lang \in {"generic split", "generic whole"}
  <2> DEFINE whole == lang = "generic whole"
  <2>1. lang # "go"
    BY <1>11
  <2> HIDE DEF whole
  <2>2. \A b \in Reach : Sound(lang, b, [c \in Place |-> GenericAt(c, whole)][b])
    BY <1>3, <2>1, GenericIs
  <2>3. Fine(lang, at, ReadGeneric(at, whole))
    BY <1>2, <2>1, <2>2 DEF ReadGeneric
  <2>4. ReadAfresh(lang, at, mode) = ReadGeneric(at, whole)
    BY <1>11 DEF ReadAfresh, whole
  <2> QED BY <2>3, <2>4
<1>12. CASE lang = "html"
  <2>1. \A b \in Reach : Sound(lang, b, [c \in Place |-> HtmlInside(c, mode)][b])
    BY <1>3, <1>12, HtmlIs
  <2>2. Fine(lang, at, FirstRead(at, [c \in Place |-> HtmlInside(c, mode)]))
    BY <1>2, <1>12, <2>1
  <2>3. Fine(lang, at, HtmlOutside(at)) /\ (Eof(at) => Fine(lang, at, Ended(at, mode)))
    BY <1>1, <1>12, HtmlIs, EndedIs
  <2>4. Fine(lang, at, ReadHtml(at, mode))
    BY <2>2, <2>3 DEF ReadHtml
  <2> QED BY <1>12, <2>4 DEF ReadAfresh
<1>13. CASE lang = "go"
  <2> DEFINE r == ReadGo(at, mode)
  <2>1. Runs(Inside) /\ at \in Inside /\ Cursors(lang) = Inside
    BY <1>13, CursorsRun DEF Cursors
  <2>2. GoReads(Inside, at, mode, r)
    BY <2>1, GoReadIs
  <2> HIDE DEF r
  <2>3. r.at \in Inside /\ r.at.pos <= Len(text)
    BY <2>2 DEF GoReads, Far, Inside
  <2>4. r.tokens # << >>
    <3>1. Len(r.tokens) \in 1 .. 3
      BY <2>2 DEF GoReads
    <3>2. Len(r.tokens) # 0
      BY <3>1
    <3> QED BY <3>2
  <2>5. Fine(lang, at, r)
    BY <1>13, <2>1, <2>2, <2>3, <2>4 DEF Fine, GoReads
  <2>6. ReadAfresh(lang, at, mode) = r
    BY <1>13 DEF ReadAfresh, r
  <2> QED BY <2>5, <2>6
<1> QED BY <1>4, <1>5, <1>6, <1>7, <1>8, <1>9, <1>10, <1>11, <1>12, <1>13 DEF Sources

\* A source whose tokens, and a call whose token, are in the text.
Kept(lang, s) ==
    /\ s \in Source /\ s.at \in Cursors(lang)
    /\ \A i \in 1 .. Len(s.pending) : Fits(lang, s.pending[i]) /\ s.pending[i].to.pos <= Len(text)

Given(lang, call) ==
    /\ Kept(lang, call.source) /\ (call.source.done => call.token.symbol = "end")
    /\ Fits(lang, call.token) /\ call.token.to.pos <= Len(text)

\* What is pending lies behind a position, up to the cursor.
Orderly(lang, a, s) == Laid(lang, a, s.pending, s.at.pos)

LEMMA CursorIs ==
    ASSUME IsText, NEW lang, NEW at \in Cursors(lang)
    PROVE  at \in Place /\ at.pos \in Nat /\ at.pos <= Len(text)
BY DEF Cursors, Reach, Inside, Place

LEMMA LaidIsKept ==
    ASSUME IsText, NEW lang, NEW s \in Source, s.at \in Cursors(lang), NEW a \in Nat, Orderly(lang, a, s)
    PROVE  Kept(lang, s)
<1>1. s.at.pos \in Nat /\ s.at.pos <= Len(text) /\ Len(text) \in Nat
  BY CursorIs DEF IsText
<1>2. ASSUME NEW i \in 1 .. Len(s.pending)
      PROVE  Fits(lang, s.pending[i]) /\ s.pending[i].to.pos <= Len(text)
  <2>1. Fits(lang, s.pending[i]) /\ s.pending[i].to.pos <= s.at.pos
    BY DEF Orderly, Laid
  <2>2. s.pending[i].to.pos \in Nat
    BY <2>1 DEF Fits, Tokens, Place
  <2> QED BY <1>1, <2>1, <2>2
<1> QED BY <1>2 DEF Kept

LEMMA ReturnedIs ==
    ASSUME IsText, NEW lang, NEW at \in Cursors(lang), NEW r, Fine(lang, at, r)
    PROVE  /\ Given(lang, Returned(r))
           /\ at.pos <= Returned(r).token.from.pos
           /\ Orderly(lang, Returned(r).token.to.pos, Returned(r).source)
<1> DEFINE t == Head(r.tokens)
           s == [at |-> r.at, pending |-> Tail(r.tokens), mode |-> r.mode, done |-> r.done]
<1>1. Returned(r).token = t /\ Returned(r).source = s
  BY DEF Returned, Call
<1>2. r.at \in Cursors(lang) /\ r.at \in Place /\ r.at.pos \in Nat /\ r.at.pos <= Len(text)
      /\ at.pos \in Nat /\ Len(text) \in Nat
  <2>1. r.at \in Cursors(lang)
    BY DEF Fine, Far
  <2> QED BY <2>1, CursorIs DEF IsText
<1>3. /\ r.tokens # << >> /\ Laid(lang, at.pos, r.tokens, r.at.pos) /\ r.tokens \in Seq(Tokens)
      /\ lang = "go" => at.pos <= r.tokens[1].from.pos
  BY DEF Fine, Laid
<1>4. /\ Fits(lang, t) /\ Follows(lang, at.pos, t) /\ t = r.tokens[1] /\ t.to.pos \in Nat
      /\ t.to.pos <= r.at.pos /\ Laid(lang, t.to.pos, Tail(r.tokens), r.at.pos)
  <2>1. r.tokens # << >> /\ Laid(lang, at.pos, r.tokens, r.at.pos)
    BY <1>3
  <2> QED BY <1>2, <2>1, LaidRest
<1>5. Tail(r.tokens) \in Seq(Tokens)
  BY <1>4 DEF Laid
<1>6. s \in Source /\ s.at = r.at /\ s.pending = Tail(r.tokens) /\ s.done = r.done
  BY <1>2, <1>5 DEF Source, Fine
<1> HIDE DEF t, s
<1>7. Orderly(lang, t.to.pos, s)
  BY <1>4, <1>6 DEF Orderly
<1>8. Kept(lang, s)
  BY <1>2, <1>4, <1>6, <1>7, LaidIsKept
<1>9. s.done => t.symbol = "end"
  BY <1>4, <1>6 DEF Fine
<1>10. t.to.pos <= Len(text)
  BY <1>2, <1>4
<1>11. at.pos <= t.from.pos
  BY <1>3, <1>4 DEF Follows, Early
<1> QED BY <1>1, <1>4, <1>7, <1>8, <1>9, <1>10, <1>11 DEF Given

LEMMA NextTokenIs ==
    ASSUME IsText, NEW lang \in Sources, NEW s, Kept(lang, s), ~ s.done
    PROVE  /\ Given(lang, NextToken(lang, s))
           /\ \A a \in Nat : Orderly(lang, a, s) =>
                 /\ Follows(lang, a, NextToken(lang, s).token)
                 /\ Orderly(lang, NextToken(lang, s).token.to.pos, NextToken(lang, s).source)
                 /\ \/ a <= NextToken(lang, s).token.from.pos
                    \/ NextToken(lang, s).token.symbol = "close"
                    \/ HoldsLineEnd(s)
<1>1. s \in Source /\ s.at \in Cursors(lang) /\ s.pending \in Seq(Tokens) /\ s.mode \in SUBSET Flags
      /\ s.at \in Place /\ s.at.pos \in Nat
  BY CursorIs DEF Kept, Source
<1>2. CASE s.pending # << >>
  <2> DEFINE t == Head(s.pending)
             z == [s EXCEPT !.pending = Tail(@)]
  <2>1. NextToken(lang, s) = Call(t, z)
    BY <1>2 DEF NextToken, PendingFirst
  <2>2. NextToken(lang, s).token = t /\ NextToken(lang, s).source = z
    BY <2>1 DEF Call
  <2>3. /\ Tail(s.pending) \in Seq(Tokens) /\ Len(s.pending) \in Nat /\ 1 \in 1 .. Len(s.pending)
        /\ t = s.pending[1] /\ Len(Tail(s.pending)) = Len(s.pending) - 1
    BY <1>1, <1>2
  <2>4. \A i \in 1 .. Len(Tail(s.pending)) :
           Tail(s.pending)[i] = s.pending[i + 1] /\ i + 1 \in 1 .. Len(s.pending)
    BY <1>1, <2>3
  <2>5. z \in Source /\ z.at = s.at /\ z.pending = Tail(s.pending) /\ z.done = s.done
    BY <1>1, <2>3 DEF Source
  <2> HIDE DEF z
  <2>6. Kept(lang, z)
    BY <1>1, <2>4, <2>5 DEF Kept
  <2>7. Given(lang, NextToken(lang, s))
    <3>1. Fits(lang, t) /\ t.to.pos <= Len(text)
      BY <2>3 DEF Kept
    <3> HIDE DEF t
    <3> QED BY <2>2, <2>5, <2>6, <3>1 DEF Given
  <2>8. ASSUME NEW a \in Nat, Orderly(lang, a, s)
        PROVE  /\ Follows(lang, a, t) /\ Orderly(lang, t.to.pos, z)
               /\ a <= t.from.pos \/ t.symbol = "close" \/ HoldsLineEnd(s)
    <3>1. Laid(lang, a, s.pending, s.at.pos)
      BY <2>8 DEF Orderly
    <3>2. Follows(lang, a, t) /\ Laid(lang, t.to.pos, Tail(s.pending), s.at.pos)
      BY <1>1, <1>2, <3>1, LaidRest
    <3>3. a <= t.from.pos \/ t.symbol = "close" \/ HoldsLineEnd(s)
      BY <1>2, <3>2 DEF Follows, Early, HoldsLineEnd
    <3> QED BY <2>5, <3>2, <3>3 DEF Orderly
  <2> QED BY <2>2, <2>7, <2>8
<1>3. CASE s.pending = << >>
  <2> DEFINE r == ReadAfresh(lang, s.at, s.mode)
  <2>1. NextToken(lang, s) = Returned(r)
    BY <1>3 DEF NextToken, PendingFirst
  <2>2. Fine(lang, s.at, r)
    BY <1>1, ReadsAreFine
  <2> HIDE DEF r
  <2>3. /\ Given(lang, Returned(r)) /\ s.at.pos <= Returned(r).token.from.pos
        /\ Orderly(lang, Returned(r).token.to.pos, Returned(r).source)
    BY <1>1, <2>2, ReturnedIs
  <2>4. ASSUME NEW a \in Nat, Orderly(lang, a, s)
        PROVE  Follows(lang, a, Returned(r).token) /\ a <= Returned(r).token.from.pos
    <3>1. a <= s.at.pos
      BY <2>4 DEF Orderly, Laid
    <3>2. Returned(r).token.from.pos \in Nat
      BY <2>3 DEF Given, Fits, Tokens, Place
    <3> QED BY <1>1, <2>3, <3>1, <3>2 DEF Follows
  <2> QED BY <2>1, <2>3, <2>4
<1> QED BY <1>2, <1>3

-----------------------------------------------------------------------------
(* Go's source, skipping.                                                  *)

\* What can still be taken from a source.
Weight(s) == IF s.done THEN 0
             ELSE 1 + 4 * Left(s.at) + Len(s.pending) + (IF s.mode # {} THEN 1 ELSE 0)

LEMMA WeightIs == ASSUME IsText, NEW s \in Source PROVE Weight(s) \in Nat /\ (~ s.done => 0 < Weight(s))
<1>1. s.at \in Place /\ s.pending \in Seq(Tokens)
  BY DEF Source
<1>2. Left(s.at) \in Nat /\ Len(s.pending) \in Nat
  BY <1>1, OneRuneIs
<1> QED BY <1>2 DEF Weight

\* Taking a token takes from what can be.
LEMMA GoNextFalls ==
    ASSUME IsText, NEW s \in Source
    PROVE  GoNext(s) \in Calls /\ (~ s.done => Weight(GoNext(s).source) < Weight(s))
<1>1. s.at \in Place /\ s.pending \in Seq(Tokens) /\ s.mode \in SUBSET Flags /\ s.done \in BOOLEAN
  BY DEF Source
<1>2. Len(s.pending) \in Nat /\ Left(s.at) \in Nat /\ Len(text) \in Nat
  BY <1>1, OneRuneIs DEF IsText
<1>3. CASE s.pending # << >>
  <2> DEFINE t == Head(s.pending)
             z == [s EXCEPT !.pending = Tail(@)]
  <2>1. GoNext(s) = Call(t, z)
    BY <1>3 DEF GoNext, PendingFirst
  <2>2. t \in Tokens /\ Tail(s.pending) \in Seq(Tokens) /\ Len(Tail(s.pending)) = Len(s.pending) - 1
    BY <1>1, <1>3
  <2>3. z \in Source /\ z.at = s.at /\ z.pending = Tail(s.pending) /\ z.done = s.done /\ z.mode = s.mode
    BY <1>1, <2>2 DEF Source
  <2> HIDE DEF t, z
  <2>4. GoNext(s) \in Calls /\ GoNext(s).source = z
    BY <2>1, <2>2, <2>3 DEF Call, Calls
  <2>5. Weight(z) < Weight(s) \/ s.done
    BY <1>2, <2>2, <2>3 DEF Weight
  <2> QED BY <2>4, <2>5
<1>4. CASE s.pending = << >> /\ s.done
  <2> DEFINE t == TheEnd(s.at)
  <2>1. GoNext(s) = Call(t, s)
    BY <1>4 DEF GoNext, PendingFirst
  <2>2. [s.at EXCEPT !.pos = Len(text)] \in Place
    BY <1>1, <1>2 DEF Place
  <2>3. t \in Tokens
    BY <2>2 DEF TheEnd, Token, Tokens, Symbols
  <2> HIDE DEF t
  <2> QED BY <1>4, <2>1, <2>3 DEF Call, Calls
<1>5. CASE s.pending = << >> /\ ~ s.done
  <2> DEFINE r == ReadGo(s.at, s.mode)
             z == [at |-> r.at, pending |-> Tail(r.tokens), mode |-> r.mode, done |-> r.done]
  <2>1. GoNext(s) = Call(Head(r.tokens), z)
    BY <1>5 DEF GoNext, PendingFirst, Returned
  <2>2. GoReads(Place, s.at, s.mode, r)
    BY <1>1, PlacesRun, GoReadIs
  <2> HIDE DEF r
  <2>3. r.tokens \in Seq(Tokens) /\ Len(r.tokens) \in 1 .. 3 /\ r.at \in Place
        /\ r.mode \in SUBSET Flags /\ r.done \in BOOLEAN
    BY <2>2 DEF GoReads, Far
  <2>4. Tail(r.tokens) \in Seq(Tokens) /\ Len(Tail(r.tokens)) = Len(r.tokens) - 1 /\ Head(r.tokens) \in Tokens
    BY <2>3
  <2>5. z \in Source /\ z.at = r.at /\ z.pending = Tail(r.tokens) /\ z.mode = r.mode /\ z.done = r.done
    BY <2>3, <2>4 DEF Source
  <2> HIDE DEF z
  <2>6. GoNext(s) \in Calls /\ GoNext(s).source = z
    BY <2>1, <2>4, <2>5 DEF Call, Calls
  <2>7. Left(r.at) \in Nat
    BY <2>3, OneRuneIs
  <2>8. Len(s.pending) = 0
    BY <1>5
  <2>9. \/ r.done
        \/ Left(r.at) < Left(s.at)
        \/ Left(r.at) <= Left(s.at) /\ s.mode # {} /\ r.mode = {} /\ Len(r.tokens) = 1
    BY <2>2 DEF GoReads
  <2>10. Weight(z) < Weight(s)
    <3>1. Len(z.pending) \in 0 .. 2 /\ (Len(r.tokens) = 1 => Len(z.pending) = 0)
      BY <2>3, <2>4, <2>5
    <3>2. Left(z.at) = Left(r.at) /\ z.mode = r.mode /\ z.done = r.done
      BY <2>5
    <3>3. CASE r.done
      BY <1>2, <1>5, <2>8, <3>2, <3>3 DEF Weight
    <3>4. CASE ~ r.done /\ Left(r.at) < Left(s.at)
      <4>1. Weight(z) <= 4 + 4 * Left(r.at) /\ Weight(z) \in Nat
        <5> DEFINE m == IF z.mode # {} THEN 1 ELSE 0
        <5>1. m \in 0 .. 1
          OBVIOUS
        <5>2. Weight(z) = 1 + 4 * Left(z.at) + Len(z.pending) + m
          BY <3>2, <3>4 DEF Weight
        <5>3. Weight(z) = 1 + 4 * Left(r.at) + Len(z.pending) + m
          BY <3>2, <5>2
        <5> HIDE DEF m
        <5>4. \A l \in Nat, p \in 0 .. 2, k \in 0 .. 1 :
                 1 + 4 * l + p + k <= 4 + 4 * l /\ 1 + 4 * l + p + k \in Nat
          OBVIOUS
        <5>5. Len(z.pending) \in 0 .. 2
          BY <3>1
        <5> QED BY <2>7, <5>1, <5>3, <5>4, <5>5
      <4>2. 1 + 4 * Left(s.at) <= Weight(s) /\ Weight(s) \in Nat
        BY <1>2, <1>5, <2>8 DEF Weight
      <4>3. Left(r.at) + 1 <= Left(s.at)
        BY <1>2, <2>7, <3>4
      <4> HIDE DEF Weight
      <4> QED BY <1>2, <2>7, <4>1, <4>2, <4>3
    <3>5. CASE ~ r.done /\ Left(r.at) <= Left(s.at) /\ s.mode # {} /\ r.mode = {} /\ Len(r.tokens) = 1
      BY <1>2, <1>5, <2>7, <2>8, <3>1, <3>2, <3>5 DEF Weight
    <3> QED BY <2>9, <3>3, <3>4, <3>5
  <2> QED BY <2>6, <2>10
<1> QED BY <1>1, <1>3, <1>4, <1>5

\* Calls whose token is behind a position and before what is to come.
Due(lang, call) == Given(lang, call) /\ Orderly(lang, call.token.to.pos, call.source)

\* Go's source comes to a token that begins at the target or behind it.
LEMMA GoSkipIs ==
    ASSUME IsText, NEW s, Kept("go", s), ~ s.done, NEW a \in Nat, Orderly("go", a, s),
           NEW target \in Nat, target < Len(text)
    PROVE  Due("go", GoSkip(s, target)) /\ target <= GoSkip(s, target).token.from.pos
<1> DEFINE from == IF s.pending = << >> \/ HoldsLineEnd(s)
                   THEN [at |-> GoPoint(target), pending |-> << >>, mode |-> {}, done |-> FALSE]
                   ELSE s
           step == [call \in Calls |->
                       IF call.token.symbol = "end" \/ call.token.from.pos >= target THEN call
                       ELSE GoNext(call.source)]
           good == {call \in Calls : Due("go", call)}
           measure == [call \in good |-> Weight(call.source)]
           z == Settled(Calls, GoNext(from), step)
<1>1. GoSkip(s, target) = z
  BY DEF GoSkip
<1>2. \A y \in Source : GoNext(y) = NextToken("go", y)
  BY DEF GoNext, NextToken, ReadAfresh
<1>3. /\ Kept("go", from) /\ from \in Source /\ ~ from.done
      /\ \E b \in Nat : Orderly("go", b, from)
  <2>1. CASE ~ (s.pending = << >> \/ HoldsLineEnd(s))
    BY <2>1 DEF Kept
  <2>2. CASE s.pending = << >> \/ HoldsLineEnd(s)
    <3>1. GoPoint(target) \in Place /\ GoPoint(target).pos = target /\ Len(text) \in Nat
      BY GoPointIs DEF IsText
    <3>2. GoPoint(target) \in Inside
      BY <3>1 DEF Inside
    <3>3. from = [at |-> GoPoint(target), pending |-> << >>, mode |-> {}, done |-> FALSE]
      BY <2>2
    <3> HIDE DEF from
    <3>4. from \in Source /\ from.at = GoPoint(target) /\ from.pending = << >> /\ ~ from.done
      BY <3>1, <3>3 DEF Source
    <3>5. Orderly("go", target, from)
      BY <3>1, <3>4, LaidNone DEF Orderly
    <3>6. from.at \in Cursors("go")
      BY <3>2, <3>4 DEF Cursors
    <3> QED BY <3>4, <3>5, <3>6, LaidIsKept
  <2> QED BY <2>1, <2>2
<1>4. ASSUME NEW y, Kept("go", y), ~ y.done, NEW b \in Nat, Orderly("go", b, y)
      PROVE  GoNext(y) \in good /\ Weight(GoNext(y).source) < Weight(y)
  <2>1. y \in Source
    BY <1>4 DEF Kept
  <2>2. "go" \in Sources
    BY DEF Sources
  <2>3. Due("go", NextToken("go", y))
    BY <1>4, <2>2, NextTokenIs DEF Due
  <2> QED BY <1>2, <1>4, <2>1, <2>3, GoNextFalls
<1>5. \A call \in Calls : call.source \in Source /\ call.token \in Tokens
  BY DEF Calls
<1>6. step \in [Calls -> Calls]
  BY <1>5, GoNextFalls
<1>7. measure \in [good -> Nat]
  BY <1>5, WeightIs
<1>8. ASSUME NEW call \in good
      PROVE  /\ step[call] \in good /\ (step[call] = call \/ measure[step[call]] < measure[call])
             /\ step[call] = call => target <= call.token.from.pos
  <2>1. /\ call \in Calls /\ Given("go", call) /\ Orderly("go", call.token.to.pos, call.source)
        /\ call.source \in Source /\ call.token \in Tokens /\ Kept("go", call.source)
        /\ Fits("go", call.token) /\ (call.source.done => call.token.symbol = "end")
    BY <1>5 DEF Due, Given
  <2>2. call.token.from.pos \in Nat /\ call.token.to.pos \in Nat /\ Len(text) \in Nat
    BY <2>1 DEF Tokens, Place, IsText
  <2>3. CASE call.token.symbol = "end" \/ call.token.from.pos >= target
    <3>1. step[call] = call
      BY <2>1, <2>3
    <3>2. target <= call.token.from.pos
      BY <2>1, <2>2, <2>3 DEF Fits
    <3> HIDE DEF step
    <3> QED BY <3>1, <3>2
  <2>4. CASE ~ (call.token.symbol = "end" \/ call.token.from.pos >= target)
    <3>1. step[call] = GoNext(call.source)
      BY <2>1, <2>4
    <3>2. ~ call.source.done
      BY <2>1, <2>4
    <3>3. GoNext(call.source) \in good /\ Weight(GoNext(call.source).source) < Weight(call.source)
      BY <1>4, <2>1, <2>2, <3>2
    <3>4. measure[call] = Weight(call.source)
          /\ measure[GoNext(call.source)] = Weight(GoNext(call.source).source)
      BY <3>3
    <3>5. Weight(call.source) \in Nat
      BY <2>1, WeightIs
    <3> HIDE DEF step, measure, good
    <3>6. GoNext(call.source) # call
      BY <3>3, <3>5
    <3> QED BY <3>1, <3>3, <3>4, <3>6
  <2> QED BY <2>3, <2>4
<1>9. GoNext(from) \in good
  BY <1>3, <1>4
<1> HIDE DEF step, measure, from
<1>10. z \in good /\ step[z] = z
  <2>1. good \subseteq Calls
    OBVIOUS
  <2> HIDE DEF good
  <2> QED BY <1>6, <1>7, <1>8, <1>9, <2>1, SettledIs
<1> HIDE DEF z
<1> QED BY <1>1, <1>8, <1>10

-----------------------------------------------------------------------------
(* What holds of every state.                                              *)

StaysText == text' = text

LEMMA CountStays ==
    ASSUME StaysText
    PROVE  /\ \A at, p : RunesTo(at, p)' = RunesTo(at, p)
           /\ \A p : GoPoint(p)' = GoPoint(p)
           /\ \A b : Counted(b)' <=> Counted(b)
           /\ \A lang : Cursors(lang)' = Cursors(lang)
<1>1. \A at, p : RunesTo(at, p)' = RunesTo(at, p)
  BY DEF StaysText, RunesTo, Eof
<1>2. \A p : GoPoint(p)' = GoPoint(p)
  BY <1>1 DEF GoPoint, Origin
<1>3. \A b : Counted(b)' <=> Counted(b)
  BY <1>2 DEF Counted
<1>4. Reach' = Reach /\ Inside' = Inside
  BY <1>1 DEF StaysText, Reach, Inside, Origin
<1> QED BY <1>1, <1>2, <1>3, <1>4 DEF Cursors

LEMMA FitsStays ==
    ASSUME StaysText
    PROVE  /\ \A lang, t : Fits(lang, t)' <=> Fits(lang, t)
           /\ \A lang, s : Kept(lang, s)' <=> Kept(lang, s)
           /\ \A lang, a, s : Orderly(lang, a, s)' <=> Orderly(lang, a, s)
<1>1. \A lang, t : Fits(lang, t)' <=> Fits(lang, t)
  BY CountStays DEF StaysText, Fits, Origin
<1>2. \A lang, s : Kept(lang, s)' <=> Kept(lang, s)
  BY <1>1, CountStays DEF StaysText, Kept
<1>3. \A lang, a, s : Orderly(lang, a, s)' <=> Orderly(lang, a, s)
  BY <1>1 DEF Orderly, Laid, Follows
<1> QED BY <1>1, <1>2, <1>3

\* The source keeps to the text, as the token held does, and unless what is
\* pending is stale it lies behind that token.
BridgesKeep ==
    /\ IsText /\ language \in Sources
    /\ Kept(language, source) /\ (source.done => HoldsEnd)
    /\ \A t \in last : Fits(language, t) /\ t.to.pos <= Len(text)
    /\ \/ HoldsEnd
       \/ "stale tokens" \in incident
       \/ \E a \in Nat : (\A t \in last : t.to.pos <= a) /\ Orderly(language, a, source)

LEMMA EndMadeIs ==
    ASSUME IsText, NEW lang, NEW s, Kept(lang, s), ~ s.done
    PROVE  Given(lang, EndMade(s)) /\ EndMade(s).token.symbol = "end"
           /\ EndMade(s).token.from.pos = Len(text)
<1> DEFINE end == GoPoint(Len(text))
           t == TheEnd(end)
<1>1. Len(text) \in Nat
  BY DEF IsText
<1>2. end \in Place /\ end.pos = Len(text) /\ Counted(end)
  BY <1>1, GoPointIs
<1>3. EndMade(s) = Call(t, s)
  BY DEF EndMade, GoPoint
<1> HIDE DEF end
<1>4. [end EXCEPT !.pos = Len(text)] = end
  BY <1>2 DEF Place
<1>5. t.symbol = "end" /\ t.from = end /\ t.to = end /\ t \in Tokens
  BY <1>2, <1>4 DEF TheEnd, Token, Tokens, Symbols
<1> HIDE DEF t
<1>6. Fits(lang, t) /\ t.to.pos <= Len(text)
  BY <1>1, <1>2, <1>5 DEF Fits
<1>7. EndMade(s).token = t /\ EndMade(s).source = s
  BY <1>3 DEF Call
<1> QED BY <1>2, <1>5, <1>6, <1>7 DEF Given

\* A skip returns a token that begins at its target or behind it, unless
\* TOML's source keeps what is pending.
LEMMA SkippedIs ==
    ASSUME BridgesKeep, ~ HoldsEnd, incident = {}, NEW target \in 1 .. Len(text)
    PROVE  /\ Given(language, Skipped(source, target))
           /\ \/ target # Len(text) /\ language = "toml" /\ source.pending # << >>
              \/ /\ target <= Skipped(source, target).token.from.pos
                 /\ \/ Skipped(source, target).token.symbol = "end"
                    \/ Orderly(language, Skipped(source, target).token.to.pos,
                               Skipped(source, target).source)
<1>1. IsText /\ language \in Sources /\ Kept(language, source) /\ ~ source.done
  BY DEF BridgesKeep
<1>2. Len(text) \in Nat /\ target \in Nat /\ target <= Len(text)
  BY <1>1 DEF IsText
<1>3. source \in Source /\ source.at \in Cursors(language) /\ source.pending \in Seq(Tokens)
  BY <1>1 DEF Kept, Source
<1>4. CASE target = Len(text)
  <2>1. Skipped(source, target) = EndMade(source)
    BY <1>4 DEF Skipped
  <2> QED BY <1>1, <1>2, <1>4, <2>1, EndMadeIs
<1>5. CASE target # Len(text) /\ language = "go"
  <2>1. Skipped(source, target) = GoSkip(source, target) /\ target < Len(text)
    BY <1>2, <1>5 DEF Skipped
  <2>2. PICK a \in Nat : Orderly(language, a, source)
    BY DEF BridgesKeep
  <2>3. Due("go", GoSkip(source, target)) /\ target <= GoSkip(source, target).token.from.pos
    BY <1>1, <1>2, <1>5, <2>1, <2>2, GoSkipIs
  <2> QED BY <1>5, <2>1, <2>3 DEF Due
<1>6. CASE target # Len(text) /\ language # "go"
  <2> DEFINE at == CursorMoved(source.at, target)
             pending == IF language = "toml" THEN source.pending ELSE << >>
             s == [at |-> at, pending |-> pending, mode |-> ModeBehindSkip(target), done |-> FALSE]
             call == NextToken(language, s)
  <2>1. Skipped(source, target) = call
    BY <1>6 DEF Skipped, SkipToByte
  <2>2. Cursors(language) = Reach
    BY <1>6 DEF Cursors
  <2>3. at \in Reach /\ target <= at.pos /\ at.pos \in Nat
    <3> DEFINE from == IF target < source.at.pos THEN Origin ELSE source.at
    <3>1. from \in Reach
      BY <1>1, <1>3, <2>2, OriginIs
    <3>2. at = RunesTo(from, target)
      BY DEF CursorMoved
    <3> HIDE DEF from, at
    <3>3. at \in Far(Reach, from) /\ (at.pos >= target \/ Eof(at))
      BY <1>1, <3>1, <3>2, ReachRuns, RunesToIs
    <3>4. at \in Reach /\ at.pos \in Nat
      BY <1>1, <3>1, <3>3, ReachRuns, FarIs
    <3> QED BY <1>2, <3>3, <3>4 DEF Eof, AtEnd
  <2>4. ModeBehindSkip(target) \in SUBSET Flags
    BY DEF ModeBehindSkip, Flags
  <2>5. pending \in Seq(Tokens)
        /\ \A i \in 1 .. Len(pending) : Fits(language, pending[i]) /\ pending[i].to.pos <= Len(text)
    <3>1. CASE language = "toml"
      BY <1>1, <1>3, <3>1 DEF Kept
    <3>2. CASE language # "toml"
      BY <3>2
    <3> QED BY <3>1, <3>2
  <2> HIDE DEF at, pending
  <2>6. s \in Source /\ s.at = at /\ s.pending = pending /\ ~ s.done
    <3>1. at \in Place
      BY <2>3 DEF Reach
    <3> QED BY <2>4, <2>5, <3>1 DEF Source
  <2> HIDE DEF s
  <2>7. Kept(language, s)
    BY <2>2, <2>3, <2>5, <2>6 DEF Kept
  <2>8. Given(language, call)
    BY <1>1, <2>6, <2>7, NextTokenIs
  <2>9. CASE language = "toml" /\ source.pending # << >>
    BY <1>6, <2>1, <2>8, <2>9
  <2>10. CASE ~ (language = "toml" /\ source.pending # << >>)
    <3>1. pending = << >>
      BY <2>10 DEF pending
    <3>2. Orderly(language, target, s)
      BY <1>2, <2>3, <2>6, <3>1, LaidNone DEF Orderly
    <3>3. Follows(language, target, call.token) /\ Orderly(language, call.token.to.pos, call.source)
      BY <1>1, <1>2, <2>6, <2>7, <3>2, NextTokenIs
    <3> HIDE DEF call
    <3>4. target <= call.token.from.pos
      BY <1>6, <3>3 DEF Follows, Early
    <3> QED BY <2>1, <2>8, <3>3, <3>4
  <2> QED BY <2>9, <2>10
<1> QED BY <1>4, <1>5, <1>6

LEMMA AtMostItself == \A n \in Nat : n <= n
OBVIOUS

\* Any call whose token lies before what is to come keeps the sources as they are.
LEMMA CallKeeps ==
    ASSUME BridgesKeep, StaysText, language' = language, NEW call, Given(language, call),
           source' = call.source, last' = {call.token},
           \/ call.token.symbol = "end"
           \/ "stale tokens" \in incident'
           \/ Orderly(language, call.token.to.pos, call.source)
    PROVE  BridgesKeep'
<1>1. IsText' /\ language' \in Sources
  BY DEF BridgesKeep, IsText, StaysText
<1>2. Kept(language, source)'
  BY FitsStays DEF Given
<1>3. source'.done => HoldsEnd'
  BY DEF Given, HoldsEnd
<1>4. \A t \in last' : Fits(language, t)' /\ t.to.pos <= Len(text')
  BY FitsStays DEF Given, StaysText
<1>5. call.token.to.pos \in Nat
  BY DEF Given, Fits, Tokens, Place
<1>6. \/ HoldsEnd'
      \/ "stale tokens" \in incident'
      \/ \E a \in Nat : (\A t \in last' : t.to.pos <= a) /\ Orderly(language, a, source)'
  <2>1. CASE Orderly(language, call.token.to.pos, call.source)
    <3>1. Orderly(language, call.token.to.pos, source)'
      BY <2>1, FitsStays
    <3>2. \A t \in last' : t.to.pos <= call.token.to.pos
      <4>1. \A t \in last' : t = call.token
        OBVIOUS
      <4>2. call.token.to.pos <= call.token.to.pos
        BY <1>5, AtMostItself
      <4> QED BY <4>1, <4>2
    <3> QED BY <1>5, <3>1, <3>2
  <2>2. CASE call.token.symbol = "end"
    BY <2>2 DEF HoldsEnd
  <2> QED BY <2>1, <2>2
<1> QED BY <1>1, <1>2, <1>3, <1>4, <1>6 DEF BridgesKeep

LEMMA KeptStarts == Init => BridgesKeep
<1> SUFFICES ASSUME Init PROVE BridgesKeep
  OBVIOUS
<1>1. IsText /\ language \in Sources
  BY LanguagesHaveSources DEF Init, IsText
<1>2. source = NewSource /\ last = {}
  BY DEF Init
<1>3. Origin \in Reach /\ Origin \in Place /\ Origin.pos = 0
  BY <1>1, OriginIs DEF Reach, Origin
<1>4. /\ source \in Source /\ source.at = Origin /\ source.pending = << >> /\ ~ source.done
  BY <1>2, <1>3 DEF NewSource, Source
<1>5. source.at \in Cursors(language)
  BY <1>3, <1>4, OriginIs, ReachIsCounted, <1>1 DEF Cursors, Inside
<1>6. Orderly(language, 0, source)
  BY <1>3, <1>4, LaidNone DEF Orderly
<1>7. Kept(language, source)
  BY <1>1, <1>4, <1>5, <1>6, LaidIsKept
<1> QED BY <1>1, <1>2, <1>4, <1>6, <1>7 DEF BridgesKeep

\* Taking a token: it lies behind the one held.
LEMMA TakeTokenIs ==
    ASSUME BridgesKeep, TakeToken
    PROVE  /\ BridgesKeep'
           /\ \A t \in last', u \in last :
                 \/ u.to.pos <= t.from.pos
                 \/ "stale tokens" \in incident'
                 \/ language = "go" /\ (t.symbol = "close" \/ HoldsLineEnd(source))
<1> DEFINE call == NextToken(language, source)
<1>1. IsText /\ language \in Sources /\ Kept(language, source) /\ ~ source.done /\ ~ HoldsEnd
  BY DEF BridgesKeep, TakeToken
<1>2. source' = call.source /\ last' = {call.token} /\ StaysText /\ language' = language
      /\ incident' = incident
  BY DEF TakeToken, StaysText
<1>3. /\ Given(language, call)
      /\ \A a \in Nat : Orderly(language, a, source) =>
            /\ Follows(language, a, call.token) /\ Orderly(language, call.token.to.pos, call.source)
            /\ a <= call.token.from.pos \/ call.token.symbol = "close" \/ HoldsLineEnd(source)
  BY <1>1, NextTokenIs
<1> HIDE DEF call
<1>4. CASE "stale tokens" \in incident
  BY <1>2, <1>3, <1>4, CallKeeps
<1>5. CASE "stale tokens" \notin incident
  <2>1. PICK a \in Nat : (\A u \in last : u.to.pos <= a) /\ Orderly(language, a, source)
    BY <1>1, <1>5 DEF BridgesKeep
  <2>2. /\ Follows(language, a, call.token) /\ Orderly(language, call.token.to.pos, call.source)
        /\ a <= call.token.from.pos \/ call.token.symbol = "close" \/ HoldsLineEnd(source)
    BY <1>3, <2>1
  <2>3. BridgesKeep'
    BY <1>2, <1>3, <2>2, CallKeeps
  <2>4. ASSUME NEW u \in last
        PROVE  \/ u.to.pos <= call.token.from.pos
               \/ language = "go" /\ (call.token.symbol = "close" \/ HoldsLineEnd(source))
    <3>1. u.to.pos \in Nat /\ call.token.from.pos \in Nat /\ u.to.pos <= a
      BY <1>3, <2>1 DEF BridgesKeep, Given, Fits, Tokens, Place
    <3>2. a <= call.token.from.pos => u.to.pos <= call.token.from.pos
      BY <3>1
    <3>3. language = "go" \/ a <= call.token.from.pos
      BY <2>2 DEF Follows, Early
    <3> QED BY <2>2, <3>2, <3>3
  <2> QED BY <1>2, <2>3, <2>4
<1> QED BY <1>4, <1>5

\* The line's end that Go's scanner held is returned at the target.
LEMMA LateLineEndIs ==
    ASSUME BridgesKeep, NEW target \in Nat, NEW call \in LateLineEnd(source, target)
    PROVE  Given(language, call) /\ target < Len(text) /\ language = "go" /\ HoldsLineEnd(source)
<1> DEFINE t == GoToken("line end", target, target + 1)
           s == [at |-> GoPoint(target), pending |-> << >>, mode |-> {}, done |-> FALSE]
<1>1. call = Call(t, s) /\ target < Len(text) /\ language = "go" /\ HoldsLineEnd(source)
  BY DEF LateLineEnd
<1>2. IsText /\ Len(text) \in Nat
  <2>1. IsText
    BY DEF BridgesKeep
  <2> QED BY <2>1 DEF IsText
<1>3. GoPoint(target) \in Place /\ GoPoint(target).pos = target
  BY <1>2, GoPointIs
<1>4. Fits("go", t) /\ t.to.pos = target + 1
  BY <1>2, LineEndIs
<1>5. call.token = t /\ call.source = s
  BY <1>1 DEF Call
<1>6. s \in Source /\ s.at = GoPoint(target) /\ s.pending = << >> /\ ~ s.done
  BY <1>3 DEF Source
<1> HIDE DEF t, s
<1>7. s.at \in Cursors("go")
  BY <1>1, <1>2, <1>3, <1>6 DEF Cursors, Inside
<1>8. Kept("go", s)
  BY <1>6, <1>7 DEF Kept
<1>9. t.to.pos <= Len(text)
  BY <1>1, <1>2, <1>4
<1> QED BY <1>1, <1>4, <1>5, <1>6, <1>8, <1>9 DEF Given

\* Skipping: the token lies behind the target.
LEMMA SkipIs ==
    ASSUME BridgesKeep, NEW target \in 1 .. Len(text), Skip(target)
    PROVE  /\ BridgesKeep'
           /\ \A t \in last' : "stale tokens" \in incident' \/ target <= t.from.pos
<1> DEFINE due == full[FirstBehind(target)]
<1>1. ~ HoldsEnd /\ incident = {} /\ target \in Nat
  BY DEF Skip
<1>2. PICK call \in {Skipped(source, target)} \cup LateLineEnd(source, target) :
         source' = call.source /\ last' = {call.token}
  BY DEF Skip
<1>3. StaysText /\ language' = language /\ incident' = LostBySkip(target, due)
  BY DEF Skip, StaysText
<1> HIDE DEF due
<1>4. CASE call \in LateLineEnd(source, target)
  <2>1. Given(language, call) /\ target < Len(text) /\ language = "go" /\ HoldsLineEnd(source)
    BY <1>1, <1>4, LateLineEndIs
  <2>2. target # Len(text)
    <3>1. IsText
      BY DEF BridgesKeep
    <3>2. Len(text) \in Nat
      BY <3>1 DEF IsText
    <3> QED BY <1>1, <2>1, <3>2
  <2>3. "stale tokens" \in LostBySkip(target, due)
    BY <2>1, <2>2 DEF LostBySkip
  <2> QED BY <1>2, <1>3, <2>1, <2>3, CallKeeps
<1>5. CASE call = Skipped(source, target)
  <2>1. /\ Given(language, call)
        /\ \/ target # Len(text) /\ language = "toml" /\ source.pending # << >>
           \/ /\ target <= call.token.from.pos
              /\ call.token.symbol = "end" \/ Orderly(language, call.token.to.pos, call.source)
    BY <1>1, <1>5, SkippedIs
  <2>2. CASE target # Len(text) /\ language = "toml" /\ source.pending # << >>
    <3>1. "stale tokens" \in LostBySkip(target, due)
      BY <2>2 DEF LostBySkip
    <3> QED BY <1>2, <1>3, <2>1, <3>1, CallKeeps
  <2>3. CASE /\ target <= call.token.from.pos
             /\ call.token.symbol = "end" \/ Orderly(language, call.token.to.pos, call.source)
    <3>1. BridgesKeep'
      BY <1>2, <1>3, <2>1, <2>3, CallKeeps
    <3> QED BY <1>2, <2>3, <3>1
  <2> QED BY <2>1, <2>2, <2>3
<1> QED BY <1>2, <1>4, <1>5

LEMMA KeptStays == BridgesKeep /\ UNCHANGED vars => BridgesKeep'
<1> SUFFICES ASSUME BridgesKeep, UNCHANGED vars PROVE BridgesKeep'
  OBVIOUS
<1>1. StaysText /\ language' = language /\ source' = source /\ last' = last /\ incident' = incident
  BY DEF vars, StaysText
<1>2. IsText' /\ language' \in Sources
  BY <1>1 DEF BridgesKeep, IsText, StaysText
<1>3. HoldsEnd' <=> HoldsEnd
  BY <1>1 DEF HoldsEnd
<1>4. Kept(language, source)' /\ (source'.done => HoldsEnd')
  BY <1>1, <1>3, FitsStays DEF BridgesKeep
<1>5. \A t \in last' : Fits(language, t)' /\ t.to.pos <= Len(text')
  BY <1>1, FitsStays DEF BridgesKeep, StaysText
<1>6. \/ HoldsEnd'
      \/ "stale tokens" \in incident'
      \/ \E a \in Nat : (\A t \in last' : t.to.pos <= a) /\ Orderly(language, a, source)'
  BY <1>1, <1>3, FitsStays DEF BridgesKeep
<1> QED BY <1>2, <1>4, <1>5, <1>6 DEF BridgesKeep

LEMMA KeptSteps == BridgesKeep /\ [Next]_vars => BridgesKeep'
BY TakeTokenIs, SkipIs, KeptStays DEF Next

\* The sources keep to the text in every state (all of BridgeReaders'
\* sources, and SkipToByte of each).
THEOREM SourcesAlwaysKeep == Spec => []BridgesKeep
<1> QED BY KeptStarts, KeptSteps, PTL DEF Spec

\* The row and the column a token is reported at are always those of its
\* bytes, for every text, and every order of tokens and skips (advanceRune
\* and SkipToByte of every source, Go's position mapping).
THEOREM PointsAlwaysFollowBytes == Spec => []PointsFollowBytes
<1>1. BridgesKeep => PointsFollowBytes
  BY DEF BridgesKeep, PointsFollowBytes, Fits, Counted, GoPoint
<1> QED BY <1>1, SourcesAlwaysKeep, PTL

\* No cursor and no token ever leaves the text, for every text (every source;
\* the bounds of the slices that the sources take their tokens' text from).
THEOREM SourcesStayInText == Spec => []InText
<1>1. BridgesKeep => InText
  <2> SUFFICES ASSUME BridgesKeep PROVE InText
    OBVIOUS
  <2>1. source \in Source /\ source.at.pos <= Len(text)
    BY CursorIs DEF BridgesKeep, Kept
  <2> QED BY <2>1 DEF InText, BridgesKeep, Kept, Fits, IsToken
<1> QED BY <1>1, SourcesAlwaysKeep, PTL

\* While the nodes a parser reuses hold the token they begin with, a token
\* begins where the last one ended, or the skipped node did, or behind it, for
\* every text (NextToken and SkipToByte of every source).
THEOREM TokensAlwaysAdvance == Spec /\ []NodesHoldTheirToken => TokensAdvance
<1> DEFINE Advances == \A t \in last' : \A u \in last :
                          \/ t.from.pos >= u.to.pos
                          \/ "stale tokens" \in incident'
                          \/ OpenGoString \/ LineEndInComment
<1>1. ASSUME BridgesKeep, NodesHoldTheirToken, [Next]_vars PROVE [Advances]_vars
  <2>1. \A u \in last : u.to.pos \in Nat
    BY <1>1 DEF BridgesKeep, Fits, Tokens, Place
  <2>2. CASE TakeToken
    <3>1. language' = language
      BY <2>2 DEF TakeToken
    <3>2. BridgesKeep'
      BY <1>1, <2>2, TakeTokenIs
    <3>3. \A t \in last' : t.from.pos \in Nat
      BY <3>2 DEF BridgesKeep, Fits, Tokens, Place
    <3>4. \A t \in last', u \in last :
             \/ u.to.pos <= t.from.pos
             \/ "stale tokens" \in incident'
             \/ language = "go" /\ (t.symbol = "close" \/ HoldsLineEnd(source))
      BY <1>1, <2>2, TakeTokenIs
    <3> QED BY <2>1, <3>1, <3>3, <3>4 DEF OpenGoString, LineEndInComment
  <2>3. ASSUME NEW target \in 1 .. Len(text), Skip(target) PROVE Advances
    <3>1. BridgesKeep' /\ \A t \in last' : "stale tokens" \in incident' \/ target <= t.from.pos
      BY <1>1, <2>3, SkipIs
    <3>2. \A t \in last' : t.from.pos \in Nat
      BY <3>1 DEF BridgesKeep, Fits, Tokens, Place
    <3>3. \A u \in last : u.to.pos <= target
      BY <1>1, <2>3 DEF Skip, NodesHoldTheirToken
    <3>4. target \in Nat
      BY <2>3
    <3>5. \A t \in last', u \in last : "stale tokens" \in incident' \/ t.from.pos >= u.to.pos
      <4>1. ASSUME NEW t \in last', NEW u \in last, "stale tokens" \notin incident'
            PROVE  t.from.pos >= u.to.pos
        <5>1. target <= t.from.pos /\ u.to.pos <= target
          BY <3>1, <3>3, <4>1
        <5>2. t.from.pos \in Nat /\ u.to.pos \in Nat
          BY <2>1, <3>2
        <5> QED BY <3>4, <5>1, <5>2
      <4> QED BY <4>1
    <3> QED BY <3>5
  <2>4. CASE UNCHANGED vars
    BY <2>4
  <2> HIDE DEF Advances
  <2> QED BY <1>1, <2>2, <2>3, <2>4 DEF Next
<1>2. TokensAdvance <=> [][Advances]_vars
  BY PTL DEF TokensAdvance
<1> QED BY <1>1, <1>2, SourcesAlwaysKeep, PTL DEF Spec
=============================================================================
