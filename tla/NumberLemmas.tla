---------------------------- MODULE NumberLemmas ----------------------------
(***************************************************************************)
(* Numbers in the proofs: bounded sets of naturals have a least and a      *)
(* greatest element, a step can be repeated any number of times, and a     *)
(* recursive function that steps on until it stops exists and keeps what   *)
(* its steps keep.  From the well-foundedness of <: the library's          *)
(* inductions take operators.                                              *)
(***************************************************************************)
EXTENDS Integers, FiniteSetTheorems, WellFoundedInduction, TLAPS

Less == {ss \in Nat \X Nat : ss[1] < ss[2]}

LEMMA LeastElement ==
    ASSUME NEW T, T \subseteq Nat, T # {}
    PROVE  \E x \in T : \A y \in T : x <= y
<1>1. IsWellFoundedOn(OpToRel(<, Nat), Nat)
  BY NatLessThanWellFounded
<1>2. OpToRel(<, Nat) = Less
  BY DEF OpToRel, Less
<1>3. IsWellFoundedOn(Less, Nat)
  BY <1>1, <1>2, Zenon
<1>4. PICK x \in T : \A y \in T : ~ (<<y, x>> \in Less)
  BY <1>3, WFMin
<1>5. ASSUME NEW y \in T PROVE x <= y
  <2>1. x \in Nat /\ y \in Nat
    OBVIOUS
  <2>2. y < x => <<y, x>> \in Less
    BY <2>1 DEF Less
  <2> QED BY <2>1, <2>2, <1>4
<1> QED BY <1>5

\* A set of numbers that has 0, and with each number the next one up to n.
LEMMA UpTo ==
    ASSUME NEW n \in Nat, NEW T, 0 \in T, \A k \in 1 .. n : k - 1 \in T => k \in T
    PROVE  0 .. n \subseteq T
<1> SUFFICES ASSUME (0 .. n) \ T # {} PROVE FALSE
  OBVIOUS
<1>1. PICK m \in (0 .. n) \ T : \A k \in (0 .. n) \ T : m <= k
  <2> (0 .. n) \ T \subseteq Nat
    OBVIOUS
  <2> QED BY LeastElement
<1>2. m \in 1 .. n /\ m - 1 \in 0 .. n
  BY <1>1
<1> QED BY <1>1, <1>2

LEMMA GreatestElement ==
    ASSUME NEW n \in Nat, NEW T, T \subseteq 0 .. n, T # {}
    PROVE  \E x \in T : \A y \in T : y <= x
<1> DEFINE U == {n - y : y \in T}
<1>1. U \subseteq Nat /\ U # {}
  <2>1. \A y \in T : n - y \in Nat
    OBVIOUS
  <2> QED BY <2>1
<1>2. PICK u \in U : \A v \in U : u <= v
  BY <1>1, LeastElement
<1>3. PICK x \in T : u = n - x
  OBVIOUS
<1>4. ASSUME NEW y \in T PROVE y <= x
  <2>1. n - y \in U
    OBVIOUS
  <2>2. u <= n - y
    BY <1>2, <2>1
  <2>3. x \in Int /\ y \in Int
    OBVIOUS
  <2> QED BY <1>3, <2>2, <2>3
<1> QED BY <1>4

\* Finitely many naturals have an upper bound.
LEMMA FiniteIsBounded ==
    ASSUME NEW T, T \subseteq Nat, IsFiniteSet(T)
    PROVE  \E n \in Nat : T \subseteq 0 .. n
<1> DEFINE Bounded(S) == \E n \in Nat : S \subseteq 0 .. n
           sizes == {Cardinality(S) : S \in {R \in SUBSET T : ~ Bounded(R)}}
<1> SUFFICES ASSUME ~ Bounded(T) PROVE FALSE
  OBVIOUS
<1>1. \A S \in SUBSET T : IsFiniteSet(S) /\ Cardinality(S) \in Nat
  BY FS_Subset, FS_CardinalityType
<1>2. sizes \subseteq Nat /\ sizes # {}
  BY <1>1
<1>3. PICK least \in sizes : \A k \in sizes : least <= k
  BY <1>2, LeastElement
<1>4. PICK S \in SUBSET T : ~ Bounded(S) /\ least = Cardinality(S)
  BY <1>3
<1>5. S # {}
  BY <1>4
<1>6. PICK x \in S : TRUE
  BY <1>5
<1>7. Cardinality(S \ {x}) = Cardinality(S) - 1 /\ S \ {x} \in SUBSET T
  BY <1>1, <1>4, <1>6, FS_RemoveElement
<1>8. Bounded(S \ {x})
  <2>1. Cardinality(S) \in Nat
    BY <1>1, <1>4
  <2>2. ~ (Cardinality(S) <= Cardinality(S \ {x}))
    <3> DEFINE c == Cardinality(S)  d == Cardinality(S \ {x})
    <3>1. c \in Nat /\ d = c - 1
      BY <1>7, <2>1
    <3> HIDE DEF c, d
    <3>2. ~ (c <= d)
      BY <3>1
    <3> QED BY <3>2 DEF c, d
  <2>3. ~ (Cardinality(S \ {x}) \in sizes)
    BY <1>3, <1>4, <2>2
  <2> QED BY <1>7, <2>3
<1>9. PICK n \in Nat : S \ {x} \subseteq 0 .. n
  BY <1>8
<1>10. S \subseteq 0 .. n + x /\ n + x \in Nat
  <2>1. x \in Nat /\ S \subseteq Nat
    BY <1>4, <1>6
  <2>2. ASSUME NEW y \in S PROVE y \in 0 .. n + x
    <3>1. y = x \/ y \in 0 .. n
      BY <1>9, <2>2
    <3> QED BY <2>1, <3>1
  <2> QED BY <2>1, <2>2
<1> QED BY <1>4, <1>10

\* Step k of n, t[k] on a set S, taken in turn from s.
Steps(S, s, t, n) ==
  \E f \in [0 .. n -> S] : f[0] = s /\ \A k \in 1 .. n : f[k] = t[k][f[k - 1]]

LEMMA StepsExist ==
    ASSUME NEW S, NEW s \in S, NEW n \in Nat, NEW t \in [1 .. n -> [S -> S]]
    PROVE  Steps(S, s, t, n)
<1> DEFINE T == {k \in 0 .. n : \E f \in [0 .. k -> S] :
                    \A i \in 0 .. k : f[i] = IF i = 0 THEN s ELSE t[i][f[i - 1]]}
<1>1. 0 \in T
  <2>1. \A i \in 0 .. 0 : [j \in 0 .. 0 |-> s][i] = IF i = 0 THEN s ELSE t[i][[j \in 0 .. 0 |-> s][i - 1]]
    OBVIOUS
  <2>2. [j \in 0 .. 0 |-> s] \in [0 .. 0 -> S]
    OBVIOUS
  <2>3. 0 \in 0 .. n
    OBVIOUS
  <2> QED BY <2>1, <2>2, <2>3
<1>2. ASSUME NEW k \in 1 .. n, k - 1 \in T PROVE k \in T
  <2>1. PICK f \in [0 .. k - 1 -> S] :
              \A i \in 0 .. k - 1 : f[i] = IF i = 0 THEN s ELSE t[i][f[i - 1]]
    BY <1>2
  <2> DEFINE g == [i \in 0 .. k |-> IF i = k THEN t[k][f[k - 1]] ELSE f[i]]
  <2>2. \A i \in 0 .. k - 1 : f[i] \in S /\ g[i] = f[i]
    OBVIOUS
  <2>3. g[k] = t[k][f[k - 1]] /\ f[k - 1] \in S
    OBVIOUS
  <2>4. g \in [0 .. k -> S]
    OBVIOUS
  <2> HIDE DEF g
  <2>5. \A i \in 0 .. k : g[i] = IF i = 0 THEN s ELSE t[i][g[i - 1]]
    <3> TAKE i \in 0 .. k
    <3>1. CASE i = 0 BY <3>1, <2>2, <2>1
    <3>2. CASE i = k BY <3>2, <2>2, <2>3
    <3>3. CASE i # 0 /\ i # k
      <4>1. i \in 0 .. k - 1 /\ i - 1 \in 0 .. k - 1
        BY <3>3
      <4> QED BY <4>1, <3>3, <2>2, <2>1
    <3> QED BY <3>1, <3>2, <3>3
  <2>6. k \in 0 .. n
    OBVIOUS
  <2> QED BY <2>4, <2>5, <2>6
<1>3. 0 .. n \subseteq T
  <2> HIDE DEF T
  <2> QED BY <1>1, <1>2, UpTo
<1>4. PICK f \in [0 .. n -> S] :
            \A i \in 0 .. n : f[i] = IF i = 0 THEN s ELSE t[i][f[i - 1]]
  <2>1. n \in T
    BY <1>3
  <2> QED BY <2>1
<1> QED BY <1>4 DEF Steps

\* A step t on a set S can be repeated n times from s.
Repeats(S, s, t, n) ==
  \E f \in [0 .. n -> S] : f[0] = s /\ \A k \in 1 .. n : f[k] = t[f[k - 1]]

LEMMA IterationExists ==
    ASSUME NEW S, NEW s \in S, NEW t \in [S -> S], NEW n \in Nat
    PROVE  Repeats(S, s, t, n)
<1> DEFINE same == [k \in 1 .. n |-> t]
<1>1. same \in [1 .. n -> [S -> S]]
  OBVIOUS
<1>2. Steps(S, s, same, n)
  <2> HIDE DEF same
  <2> QED BY <1>1, StepsExist
<1>3. PICK f \in [0 .. n -> S] : f[0] = s /\ \A k \in 1 .. n : f[k] = same[k][f[k - 1]]
  BY <1>2 DEF Steps
<1>4. \A k \in 1 .. n : f[k] = t[f[k - 1]]
  BY <1>3
<1> QED BY <1>3, <1>4 DEF Repeats

\* From a the steps next lead to z, the first that stops.
Leads(S, stop, next, a, z) ==
    \E n \in Nat : \E f \in [0 .. n -> S] :
        /\ f[0] = a /\ f[n] = z
        /\ \A k \in 1 .. n : f[k - 1] \notin stop /\ f[k] = next[f[k - 1]]

\* A function that is the same after a step, until there is none.
Recursive(S, stop, val, next, f) == f = [a \in S |-> IF a \in stop THEN val[a] ELSE f[next[a]]]

\* It exists also where the steps never stop.
LEMMA RecursionExists ==
    ASSUME NEW S, NEW stop, NEW val, NEW next \in [S -> S]
    PROVE  \E f : Recursive(S, stop, val, next, f)
<1> DEFINE Ends(a) == {z \in S : z \in stop /\ Leads(S, stop, next, a, z)}
           g == [a \in S |-> IF Ends(a) = {} THEN 0 ELSE val[CHOOSE z \in Ends(a) : TRUE]]
<1>1. ASSUME NEW a \in S, a \in stop PROVE Ends(a) = {a}
  <2>1. Leads(S, stop, next, a, a)
    <3> DEFINE f == [k \in 0 .. 0 |-> a]
    <3>1. 0 \in Nat /\ f \in [0 .. 0 -> S] /\ f[0] = a /\ \A k \in 1 .. 0 : FALSE
      BY <1>1
    <3> HIDE DEF f
    <3> QED BY <3>1 DEF Leads
  <2>2. ASSUME NEW z \in S, Leads(S, stop, next, a, z) PROVE z = a
    <3>1. PICK n \in Nat : \E f \in [0 .. n -> S] :
                 /\ f[0] = a /\ f[n] = z
                 /\ \A k \in 1 .. n : f[k - 1] \notin stop /\ f[k] = next[f[k - 1]]
      BY <2>2 DEF Leads
    <3>2. PICK f \in [0 .. n -> S] :
                 /\ f[0] = a /\ f[n] = z
                 /\ \A k \in 1 .. n : f[k - 1] \notin stop /\ f[k] = next[f[k - 1]]
      BY <3>1
    <3>3. n = 0
      <4> SUFFICES ASSUME n # 0 PROVE FALSE
        OBVIOUS
      <4>1. 1 \in 1 .. n /\ 1 - 1 = 0
        OBVIOUS
      <4> QED BY <4>1, <3>2, <1>1
    <3> QED BY <3>2, <3>3
  <2> QED BY <1>1, <2>1, <2>2
<1>2. ASSUME NEW a \in S, a \notin stop PROVE Ends(a) = Ends(next[a])
  <2>0. next[a] \in S
    OBVIOUS
  <2>1. ASSUME NEW z \in S, z \in stop, Leads(S, stop, next, a, z)
        PROVE  Leads(S, stop, next, next[a], z)
    <3>1. PICK n \in Nat : \E f \in [0 .. n -> S] :
                 /\ f[0] = a /\ f[n] = z
                 /\ \A k \in 1 .. n : f[k - 1] \notin stop /\ f[k] = next[f[k - 1]]
      BY <2>1 DEF Leads
    <3>2. PICK f \in [0 .. n -> S] :
                 /\ f[0] = a /\ f[n] = z
                 /\ \A k \in 1 .. n : f[k - 1] \notin stop /\ f[k] = next[f[k - 1]]
      BY <3>1
    <3>3. n # 0
      BY <3>2, <1>2, <2>1
    <3> DEFINE h == [k \in 0 .. n - 1 |-> f[k + 1]]
    <3>4. n - 1 \in Nat /\ h \in [0 .. n - 1 -> S]
      BY <3>3
    <3>5. h[0] = next[a] /\ h[n - 1] = z
      <4>1. 1 \in 1 .. n /\ 1 - 1 = 0 /\ 0 \in 0 .. n - 1 /\ n - 1 \in 0 .. n - 1 /\ n - 1 + 1 = n
        BY <3>3
      <4>2. f[1] = next[f[0]]
        BY <4>1, <3>2
      <4> QED BY <4>1, <4>2, <3>2
    <3>6. \A k \in 1 .. n - 1 : h[k - 1] \notin stop /\ h[k] = next[h[k - 1]]
      <4> TAKE k \in 1 .. n - 1
      <4>1. k + 1 \in 1 .. n /\ k + 1 - 1 = k /\ k - 1 \in 0 .. n - 1 /\ k \in 0 .. n - 1 /\ k - 1 + 1 = k
        BY <3>3
      <4>2. f[k + 1 - 1] \notin stop /\ f[k + 1] = next[f[k + 1 - 1]]
        BY <4>1, <3>2
      <4> QED BY <4>1, <4>2
    <3> HIDE DEF h
    <3> QED BY <3>4, <3>5, <3>6 DEF Leads
  <2>2. ASSUME NEW z \in S, Leads(S, stop, next, next[a], z)
        PROVE  Leads(S, stop, next, a, z)
    <3>1. PICK n \in Nat : \E f \in [0 .. n -> S] :
                 /\ f[0] = next[a] /\ f[n] = z
                 /\ \A k \in 1 .. n : f[k - 1] \notin stop /\ f[k] = next[f[k - 1]]
      BY <2>2 DEF Leads
    <3>2. PICK f \in [0 .. n -> S] :
                 /\ f[0] = next[a] /\ f[n] = z
                 /\ \A k \in 1 .. n : f[k - 1] \notin stop /\ f[k] = next[f[k - 1]]
      BY <3>1
    <3> DEFINE h == [k \in 0 .. n + 1 |-> IF k = 0 THEN a ELSE f[k - 1]]
    <3>3. n + 1 \in Nat /\ h \in [0 .. n + 1 -> S] /\ h[0] = a /\ h[n + 1] = z
      BY <3>2
    <3>4. \A k \in 1 .. n + 1 : h[k - 1] \notin stop /\ h[k] = next[h[k - 1]]
      <4> TAKE k \in 1 .. n + 1
      <4>1. CASE k = 1
        BY <4>1, <3>2, <1>2
      <4>2. CASE k # 1
        <5>1. k - 1 \in 1 .. n /\ k - 1 - 1 \in 0 .. n /\ k - 1 \in 0 .. n + 1 /\ k \in 0 .. n + 1 /\ k # 0 /\ k - 1 # 0
          BY <4>2
        <5>2. h[k - 1] = f[k - 1 - 1] /\ h[k] = f[k - 1]
          BY <5>1
        <5> QED BY <5>1, <5>2, <3>2
      <4> QED BY <4>1, <4>2
    <3> HIDE DEF h
    <3> QED BY <3>3, <3>4 DEF Leads
  <2> QED BY <2>0, <2>1, <2>2
<1>3. \A a \in S : g[a] = IF a \in stop THEN val[a] ELSE g[next[a]]
  <2> TAKE a \in S
  <2>1. CASE a \in stop
    <3>1. Ends(a) = {a}
      BY <2>1, <1>1
    <3>2. (CHOOSE z \in {a} : TRUE) = a
      OBVIOUS
    <3> HIDE DEF Ends
    <3>3. (CHOOSE z \in Ends(a) : TRUE) = a /\ Ends(a) # {}
      BY <3>1, <3>2
    <3> QED BY <2>1, <3>3
  <2>2. CASE a \notin stop
    <3>1. Ends(a) = Ends(next[a]) /\ next[a] \in S
      BY <2>2, <1>2
    <3> HIDE DEF Ends
    <3> QED BY <2>2, <3>1
  <2> QED BY <2>1, <2>2
<1>4. g = [a \in S |-> IF a \in stop THEN val[a] ELSE g[next[a]]]
  <2>1. g = [a \in S |-> g[a]]
    OBVIOUS
  <2> HIDE DEF g
  <2> QED BY <1>3, <2>1
<1> QED BY <1>4 DEF Recursive

\* From good ones, the steps go on to good ones and a measure goes down.
Sinks(stop, val, next, good, results, measure) ==
    \A a \in good :
        /\ a \in stop => val[a] \in results
        /\ a \notin stop => next[a] \in good /\ measure[next[a]] < measure[a]

\* What such a function returns, where the steps stop: a measure goes down.
LEMMA RecursionReturns ==
    ASSUME NEW S, NEW stop, NEW val, NEW next \in [S -> S], NEW f,
           Recursive(S, stop, val, next, f),
           NEW good, good \subseteq S, NEW results, NEW measure \in [good -> Nat],
           Sinks(stop, val, next, good, results, measure)
    PROVE  \A a \in good : f[a] \in results
<1> DEFINE failing == {measure[a] : a \in {b \in good : f[b] \notin results}}
<1> SUFFICES ASSUME failing # {} PROVE FALSE
  OBVIOUS
<1>1. failing \subseteq Nat
  OBVIOUS
<1>2. PICK n \in failing : \A k \in failing : n <= k
  <2> HIDE DEF failing
  <2> QED BY <1>1, LeastElement
<1>3. PICK a \in good : f[a] \notin results /\ n = measure[a]
  BY <1>2
<1>4. a \in S /\ f[a] = IF a \in stop THEN val[a] ELSE f[next[a]]
  <2>1. \A b \in S : f[b] = IF b \in stop THEN val[b] ELSE f[next[b]]
    <3>1. \A b \in S : [c \in S |-> IF c \in stop THEN val[c] ELSE f[next[c]]][b]
                         = IF b \in stop THEN val[b] ELSE f[next[b]]
      OBVIOUS
    <3>2. f = [c \in S |-> IF c \in stop THEN val[c] ELSE f[next[c]]]
      BY DEF Recursive
    <3> QED BY <3>1, <3>2, Zenon
  <2> QED BY <2>1
<1>5. a \notin stop /\ next[a] \in good /\ f[next[a]] \notin results /\ measure[next[a]] < measure[a]
  BY <1>3, <1>4 DEF Sinks
<1>6. measure[next[a]] \in failing
  BY <1>5
<1> DEFINE x == measure[a]  y == measure[next[a]]
<1>7. x \in Nat /\ y \in Nat /\ y < x
  BY <1>3, <1>5
<1>8. x <= y
  BY <1>2, <1>3, <1>6
<1> HIDE DEF x, y
<1> QED BY <1>7, <1>8
=============================================================================
