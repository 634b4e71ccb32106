------------------------- MODULE GrammarCacheProofs -------------------------
(***************************************************************************)
(* Proofs about GrammarCache, for all blobs, entries, callers and limits:  *)
(* types, the list mirrors the map, the limit is kept and the loop that    *)
(* enforces it ends, and a janitor runs exactly while idle eviction is on. *)
(*                                                                         *)
(* The list is described by its elements with a position for each, not by  *)
(* counting steps along its pointers; a loop by the sets its turns do not  *)
(* leave.                                                                  *)
(***************************************************************************)
EXTENDS GrammarCache, NumberLemmas, FiniteSetTheorems

-----------------------------------------------------------------------------
\* The list.  L are its elements; pos grows towards its front and stays
\* below top.

Links == [Elements -> Elements \cup {Nil}]

Chain(next, prev, L, pos, top) ==
  /\ top \in Nat
  /\ pos \in [Entries -> 0 .. top]
  /\ \A x \in L \cup {Root} :
       /\ next[x] \in L \cup {Root} /\ prev[next[x]] = x
       /\ prev[x] \in L \cup {Root} /\ next[prev[x]] = x
  /\ \A x \in L : next[x] # Root => pos[next[x]] < pos[x]

\* The idle times never fall from front to back.
Aged(next, L, age) ==
  \A x \in L : age[x] >= 0 /\ (next[x] # Root => age[x] <= age[next[x]])

Lru(next, prev, L, age) ==
  /\ \E top, pos : Chain(next, prev, L, pos, top)
  /\ Aged(next, L, age)

\* A closed set of elements with the sentinel in it has all of the list.
LEMMA AllReached ==
    ASSUME NEW L, L \subseteq Entries, NEW next, NEW prev, NEW top, NEW pos,
           Chain(next, prev, L, pos, top),
           NEW R, Root \in R, \A x \in R : next[x] \in R
    PROVE  L \subseteq R
<1> SUFFICES ASSUME L \ R # {} PROVE FALSE
  OBVIOUS
<1> DEFINE P == {pos[x] : x \in L \ R}
<1>1. top \in Nat /\ pos \in [Entries -> 0 .. top]
  BY DEF Chain
<1>2. P \subseteq 0 .. top /\ P # {}
  BY <1>1
<1>3. PICK m \in P : \A k \in P : k <= m
  <2> HIDE DEF P
  <2> QED BY <1>1, <1>2, GreatestElement
<1>4. PICK y \in L \ R : pos[y] = m
  BY <1>3
<1>5. prev[y] \in L \cup {Root} /\ next[prev[y]] = y
  BY DEF Chain
<1>6. prev[y] \notin R
  BY <1>5
<1>7. prev[y] \in L \ R
  BY <1>5, <1>6
<1>8. y # Root
  BY NoSuchEntry
<1>9. pos[y] < pos[prev[y]]
  BY <1>5, <1>7, <1>8 DEF Chain
<1>10. pos[prev[y]] \in P
  BY <1>7
<1>11. pos[prev[y]] <= m
  BY <1>3, <1>10
<1>12. pos[y] \in Int /\ pos[prev[y]] \in Int
  BY <1>1, <1>4, <1>7
<1> QED BY <1>4, <1>9, <1>11, <1>12

\* Only the empty list has nothing at its back.
LEMMA BackIsIn ==
    ASSUME NEW L, L \subseteq Entries, NEW next, NEW prev, NEW top, NEW pos,
           Chain(next, prev, L, pos, top), prev[Root] = Root
    PROVE  L = {}
<1>1. next[Root] = Root
  BY DEF Chain
<1>2. L \subseteq {Root}
  BY <1>1, AllReached
<1> QED BY <1>2, NoSuchEntry

\* Taking an element out: next2 and prev2 close the gap.
LEMMA UnlinkLru ==
    ASSUME NEW L, L \subseteq Entries, NEW next, NEW prev, NEW next2, NEW prev2,
           NEW age \in [Entries -> Int], Lru(next, prev, L, age), NEW e \in L,
           \A x \in (L \ {e}) \cup {Root} :
              /\ next2[x] = IF x = prev[e] THEN next[e] ELSE next[x]
              /\ prev2[x] = IF x = next[e] THEN prev[e] ELSE prev[x]
    PROVE  Lru(next2, prev2, L \ {e}, age)
<1>1. PICK top, pos : Chain(next, prev, L, pos, top)
  BY Zenon DEF Lru
<1>0. top \in Nat /\ pos \in [Entries -> 0 .. top]
  BY <1>1 DEF Chain
<1>2. Aged(next, L, age)
  BY DEF Lru
<1> DEFINE M == L \ {e}
<1>3. e # Root
  BY NoSuchEntry
<1>4. /\ next[e] \in L \cup {Root} /\ prev[next[e]] = e
      /\ prev[e] \in L \cup {Root} /\ next[prev[e]] = e
  BY <1>1 DEF Chain
<1>5. next[e] # e
  <2>1. next[e] = e => pos[e] < pos[e]
    BY <1>1, <1>3 DEF Chain
  <2> QED BY <2>1, <1>0
<1>6. prev[e] # e
  BY <1>4, <1>5
<1>7. next[e] \in M \cup {Root} /\ prev[e] \in M \cup {Root}
  BY <1>4, <1>5, <1>6
<1>8. ASSUME NEW x \in M \cup {Root}
      PROVE  /\ next2[x] \in M \cup {Root} /\ prev2[next2[x]] = x
             /\ prev2[x] \in M \cup {Root} /\ next2[prev2[x]] = x
  <2>1. /\ next[x] \in L \cup {Root} /\ prev[next[x]] = x
        /\ prev[x] \in L \cup {Root} /\ next[prev[x]] = x
    BY <1>1 DEF Chain
  <2>2. x # e
    BY <1>3
  <2>3. next2[x] \in M \cup {Root} /\ prev2[next2[x]] = x
    <3>1. CASE x = prev[e]
      BY <3>1, <1>7
    <3>2. CASE x # prev[e]
      <4>1. next[x] # e /\ next[x] # next[e]
        BY <3>2, <2>1, <2>2, <1>4
      <4>2. next[x] \in M \cup {Root} /\ next2[x] = next[x]
        BY <4>1, <2>1, <3>2
      <4> QED BY <4>1, <4>2, <2>1
    <3> QED BY <3>1, <3>2
  <2>4. prev2[x] \in M \cup {Root} /\ next2[prev2[x]] = x
    <3>1. CASE x = next[e]
      BY <3>1, <1>7
    <3>2. CASE x # next[e]
      <4>1. prev[x] # e /\ prev[x] # prev[e]
        BY <3>2, <2>1, <2>2, <1>4
      <4>2. prev[x] \in M \cup {Root} /\ prev2[x] = prev[x]
        BY <4>1, <2>1, <3>2
      <4> QED BY <4>1, <4>2, <2>1
    <3> QED BY <3>1, <3>2
  <2> QED BY <2>3, <2>4
<1>9. ASSUME NEW x \in M, next2[x] # Root
      PROVE  pos[next2[x]] < pos[x] /\ age[x] <= age[next2[x]]
  <2>1. CASE x = prev[e]
    <3>1. next2[x] = next[e] /\ next[e] \in L
      BY <2>1, <1>9, <1>4
    <3>2. pos[next[e]] < pos[e] /\ pos[e] < pos[x]
      BY <2>1, <3>1, <1>9, <1>1, <1>3, <1>4 DEF Chain
    <3>3. age[e] <= age[next[e]] /\ age[x] <= age[e]
      BY <2>1, <3>1, <1>9, <1>2, <1>3, <1>4 DEF Aged
    <3>4. x \in Entries /\ e \in Entries /\ next[e] \in Entries
      BY <3>1
    <3>5. pos[x] \in Int /\ pos[e] \in Int /\ pos[next[e]] \in Int
      BY <3>4, <1>0
    <3>6. age[x] \in Int /\ age[e] \in Int /\ age[next[e]] \in Int
      BY <3>4
    <3> QED BY <3>1, <3>2, <3>3, <3>5, <3>6
  <2>2. CASE x # prev[e]
    <3>1. next2[x] = next[x]
      BY <2>2
    <3> QED BY <3>1, <1>9, <1>1, <1>2 DEF Chain, Aged
  <2> QED BY <2>1, <2>2
<1>10. Chain(next2, prev2, M, pos, top)
  BY <1>1, <1>8, <1>9 DEF Chain
<1>11. Aged(next2, M, age)
  BY <1>2, <1>9 DEF Aged
<1> QED BY <1>1, <1>10, <1>11 DEF Lru

\* Putting an element just used in front.
LEMMA LinkLru ==
    ASSUME NEW L, L \subseteq Entries, NEW next, NEW prev, NEW next2, NEW prev2,
           NEW age \in [Entries -> Int], Lru(next, prev, L, age),
           NEW e \in Entries, e \notin L, age[e] = 0,
           next2[Root] = e, next2[e] = next[Root], prev2[e] = Root, prev2[next[Root]] = e,
           \A x \in L : next2[x] = next[x],
           \A x \in L \cup {Root} : x # next[Root] => prev2[x] = prev[x]
    PROVE  Lru(next2, prev2, L \cup {e}, age)
<1>1. PICK top, pos : Chain(next, prev, L, pos, top)
  BY Zenon DEF Lru
<1>0. top \in Nat /\ pos \in [Entries -> 0 .. top]
  BY <1>1 DEF Chain
<1>2. Aged(next, L, age)
  BY DEF Lru
<1> DEFINE M == L \cup {e}
           pos2 == [pos EXCEPT ![e] = top + 1]
<1>3. e # Root /\ Root \notin L
  BY NoSuchEntry
<1>4. next[Root] \in L \cup {Root} /\ prev[next[Root]] = Root
  BY <1>1 DEF Chain
<1>5. ASSUME NEW x \in M \cup {Root}
      PROVE  /\ next2[x] \in M \cup {Root} /\ prev2[next2[x]] = x
             /\ prev2[x] \in M \cup {Root} /\ next2[prev2[x]] = x
  <2>1. CASE x = e
    BY <2>1, <1>4
  <2>2. CASE x # e
    <3>1. x \in L \cup {Root}
      BY <2>2
    <3>2. /\ next[x] \in L \cup {Root} /\ prev[next[x]] = x
          /\ prev[x] \in L \cup {Root} /\ next[prev[x]] = x
      BY <1>1, <3>1 DEF Chain
    <3>3. next2[x] \in M \cup {Root} /\ prev2[next2[x]] = x
      <4>1. CASE x = Root
        BY <4>1
      <4>2. CASE x \in L
        <5>1. next2[x] = next[x]
          BY <4>2
        <5>2. next[x] # next[Root]
          BY <4>2, <3>2, <1>4, <1>3
        <5> QED BY <5>1, <5>2, <3>2
      <4> QED BY <4>1, <4>2, <3>1
    <3>4. prev2[x] \in M \cup {Root} /\ next2[prev2[x]] = x
      <4>1. CASE x = next[Root]
        BY <4>1
      <4>2. CASE x # next[Root]
        <5>1. prev2[x] = prev[x] /\ prev[x] # Root
          BY <4>2, <3>1, <3>2
        <5> QED BY <5>1, <3>2
      <4> QED BY <4>1, <4>2
    <3> QED BY <3>3, <3>4
  <2> QED BY <2>1, <2>2
<1>6. /\ top + 1 \in Nat
      /\ pos2 \in [Entries -> 0 .. top + 1]
      /\ pos2[e] = top + 1
      /\ \A x \in L : pos2[x] = pos[x] /\ pos[x] \in 0 .. top
  <2>1. \A x \in Entries : pos[x] \in 0 .. top
    BY <1>0
  <2>2. \A x \in Entries : pos2[x] = IF x = e THEN top + 1 ELSE pos[x]
    BY <1>0
  <2>3. pos2 = [x \in Entries |-> IF x = e THEN top + 1 ELSE pos[x]]
    BY <1>0
  <2> HIDE DEF pos2
  <2>4. \A x \in Entries : (IF x = e THEN top + 1 ELSE pos[x]) \in 0 .. top + 1
    BY <2>1, <1>0
  <2> QED BY <2>1, <2>2, <2>3, <2>4, <1>0
<1> HIDE DEF pos2
<1>7. ASSUME NEW x \in M, next2[x] # Root
      PROVE  pos2[next2[x]] < pos2[x] /\ age[x] <= age[next2[x]]
  <2>1. CASE x = e
    <3>1. next2[x] = next[Root] /\ next[Root] \in L
      BY <2>1, <1>7, <1>4
    <3>2. pos2[next[Root]] \in 0 .. top /\ age[next[Root]] >= 0
      BY <3>1, <1>6, <1>2 DEF Aged
    <3>3. pos2[next2[x]] \in 0 .. top /\ pos2[x] = top + 1
      BY <3>1, <3>2, <2>1, <1>6
    <3> QED BY <3>1, <3>2, <3>3, <2>1, <1>0
  <2>2. CASE x \in L
    <3>1. next2[x] = next[x] /\ next[x] \in L
      BY <2>2, <1>7, <1>1 DEF Chain
    <3>2. pos[next[x]] < pos[x] /\ age[x] <= age[next[x]]
      BY <3>1, <2>2, <1>7, <1>1, <1>2 DEF Chain, Aged
    <3> QED BY <3>1, <3>2, <2>2, <1>6
  <2> QED BY <2>1, <2>2
<1>8. Chain(next2, prev2, M, pos2, top + 1)
  BY <1>5, <1>6, <1>7 DEF Chain
<1>9. Aged(next2, M, age)
  BY <1>2, <1>7 DEF Aged
<1> QED BY <1>6, <1>8, <1>9 DEF Lru

-----------------------------------------------------------------------------
\* The store: its type, the entries in the map, and the elements' pointers.

Store ==
  [cache : [Blobs -> Entries \cup {Nil}], node : [Entries -> BOOLEAN],
   next : Links, prev : Links, len : Int, stuck : BOOLEAN]

BlobType == blob \in [Entries -> Blobs \cup {Nil}]

Sound(s) ==
  /\ s \in Store
  /\ \A b \in CachedBlobs(s) : blob[s.cache[b]] = b
  /\ s.next[Root] \in Elements /\ s.prev[Root] \in Elements
  /\ \A e \in Entries : s.node[e] =>
       blob[e] # Nil /\ s.next[e] \in Elements /\ s.prev[e] \in Elements

\* What LruMirrorsCache says of the list.
Fair(s, age) ==
  /\ Lru(s.next, s.prev, Recorded(s), age)
  /\ s.len = Cardinality(Recorded(s))
  /\ ~ s.stuck

LEMMA UnlinkFields ==
    ASSUME NEW s \in Store, NEW e \in Entries
    PROVE  LET r == Unlink(s, e) IN
           /\ r \in Store
           /\ r.cache = s.cache /\ r.stuck = s.stuck /\ r.node = s.node
           /\ r.len = s.len
           /\ r.next = [s.next EXCEPT ![s.prev[e]] = s.next[e]]
           /\ r.prev = [s.prev EXCEPT ![s.next[e]] = s.prev[e]]
BY DEF Unlink, Store, Links, Elements

LEMMA LinkFields ==
    ASSUME NEW s \in Store, NEW e \in Entries
    PROVE  LET r == LinkFront(s, e) IN
           /\ r \in Store
           /\ r.cache = s.cache /\ r.stuck = s.stuck /\ r.node = s.node
           /\ r.len = s.len
           /\ r.next = [[s.next EXCEPT ![e] = s.next[Root]] EXCEPT ![Root] = e]
           /\ r.prev = [[s.prev EXCEPT ![e] = Root] EXCEPT ![s.next[Root]] = e]
BY DEF LinkFront, Store, Links, Elements

LEMMA PushFields ==
    ASSUME NEW s \in Store, NEW e \in Entries
    PROVE  LET r == ListPushFront(s, e) IN
           /\ r \in Store
           /\ r.cache = s.cache /\ r.stuck = s.stuck /\ r.node = s.node
           /\ r.len = s.len + 1
           /\ r.next = [[s.next EXCEPT ![e] = s.next[Root]] EXCEPT ![Root] = e]
           /\ r.prev = [[s.prev EXCEPT ![e] = Root] EXCEPT ![s.next[Root]] = e]
<1> DEFINE u == LinkFront(s, e)
<1>1. /\ u \in Store
      /\ u.cache = s.cache /\ u.stuck = s.stuck /\ u.node = s.node
      /\ u.len = s.len
      /\ u.next = [[s.next EXCEPT ![e] = s.next[Root]] EXCEPT ![Root] = e]
      /\ u.prev = [[s.prev EXCEPT ![e] = Root] EXCEPT ![s.next[Root]] = e]
  BY LinkFields
<1>2. ListPushFront(s, e) = [u EXCEPT !.len = @ + 1]
  BY DEF ListPushFront
<1> HIDE DEF u
<1> QED BY <1>1, <1>2 DEF Store

LEMMA RemoveFields ==
    ASSUME NEW s \in Store, NEW e \in Entries
    PROVE  LET r == RemoveEntry(s, e) IN
           /\ r \in Store
           /\ r.cache = [s.cache EXCEPT ![blob[e]] = Nil]
           /\ r.stuck = s.stuck
           /\ s.node[e] =>
                /\ r.node = [s.node EXCEPT ![e] = FALSE]
                /\ r.next = [[s.next EXCEPT ![s.prev[e]] = s.next[e]] EXCEPT ![e] = Nil]
                /\ r.prev = [[s.prev EXCEPT ![s.next[e]] = s.prev[e]] EXCEPT ![e] = Nil]
                /\ r.len = s.len - 1
           /\ ~ s.node[e] => r.node = s.node /\ r.next = s.next /\ r.prev = s.prev /\ r.len = s.len
<1> DEFINE cut == [s EXCEPT !.cache[blob[e]] = Nil]
           gone == ListRemove(cut, e)
           r == RemoveEntry(s, e)
<1>1. /\ cut \in Store
      /\ cut.cache = [s.cache EXCEPT ![blob[e]] = Nil]
      /\ cut.node = s.node /\ cut.next = s.next /\ cut.prev = s.prev
      /\ cut.len = s.len /\ cut.stuck = s.stuck
  BY DEF Store
<1>2. r = IF s.node[e] THEN [gone EXCEPT !.node[e] = FALSE] ELSE cut
  BY DEF RemoveEntry
<1> HIDE DEF cut, r
<1>3. /\ gone \in Store
      /\ gone.cache = cut.cache /\ gone.stuck = cut.stuck /\ gone.node = cut.node
      /\ gone.len = cut.len - 1
      /\ gone.next = [[cut.next EXCEPT ![cut.prev[e]] = cut.next[e]] EXCEPT ![e] = Nil]
      /\ gone.prev = [[cut.prev EXCEPT ![cut.next[e]] = cut.prev[e]] EXCEPT ![e] = Nil]
  <2> DEFINE u == Unlink(cut, e)
  <2>1. /\ u \in Store
        /\ u.cache = cut.cache /\ u.stuck = cut.stuck /\ u.node = cut.node
        /\ u.len = cut.len
        /\ u.next = [cut.next EXCEPT ![cut.prev[e]] = cut.next[e]]
        /\ u.prev = [cut.prev EXCEPT ![cut.next[e]] = cut.prev[e]]
    BY <1>1, UnlinkFields
  <2>2. gone = [u EXCEPT !.next = [@ EXCEPT ![e] = Nil], !.prev = [@ EXCEPT ![e] = Nil],
                         !.len = @ - 1]
    BY DEF ListRemove
  <2> HIDE DEF u, gone
  <2>3. /\ gone.cache = u.cache /\ gone.stuck = u.stuck /\ gone.node = u.node
        /\ gone.len = u.len - 1
        /\ gone.next = [u.next EXCEPT ![e] = Nil]
        /\ gone.prev = [u.prev EXCEPT ![e] = Nil]
    BY <2>1, <2>2 DEF Store
  <2>4. gone.next \in Links /\ gone.prev \in Links
    BY <2>1, <2>3 DEF Store, Links
  <2>5. gone = [cache |-> u.cache, node |-> u.node, next |-> gone.next, prev |-> gone.prev,
               len |-> gone.len, stuck |-> u.stuck]
    BY <2>1, <2>2 DEF Store
  <2>6. gone.len \in Int
    BY <2>1, <2>3 DEF Store
  <2>7. gone \in Store
    BY <2>1, <2>4, <2>5, <2>6 DEF Store
  <2> QED BY <2>1, <2>3, <2>7
<1> HIDE DEF gone
<1>4. CASE s.node[e]
  <2>1. r = [gone EXCEPT !.node[e] = FALSE]
    BY <1>2, <1>4
  <2>2. /\ r \in Store
        /\ r.cache = gone.cache /\ r.stuck = gone.stuck
        /\ r.node = [gone.node EXCEPT ![e] = FALSE]
        /\ r.next = gone.next /\ r.prev = gone.prev /\ r.len = gone.len
    BY <1>3, <2>1 DEF Store
  <2> QED BY <1>1, <1>3, <1>4, <2>2 DEF r
<1>5. CASE ~ s.node[e]
  BY <1>1, <1>2, <1>5 DEF r
<1> QED BY <1>4, <1>5

LEMMA RemoveSound ==
    ASSUME BlobType, NEW s, Sound(s), NEW e \in Entries
    PROVE  Sound(RemoveEntry(s, e))
<1> DEFINE r == RemoveEntry(s, e)
<1>1. /\ s \in Store /\ s.next \in Links /\ s.prev \in Links /\ s.node \in [Entries -> BOOLEAN]
      /\ s.cache \in [Blobs -> Entries \cup {Nil}]
  BY DEF Sound, Store
<1>2. /\ r \in Store
      /\ r.cache = [s.cache EXCEPT ![blob[e]] = Nil]
      /\ s.node[e] =>
           /\ r.node = [s.node EXCEPT ![e] = FALSE]
           /\ r.next = [[s.next EXCEPT ![s.prev[e]] = s.next[e]] EXCEPT ![e] = Nil]
           /\ r.prev = [[s.prev EXCEPT ![s.next[e]] = s.prev[e]] EXCEPT ![e] = Nil]
      /\ ~ s.node[e] => r.node = s.node /\ r.next = s.next /\ r.prev = s.prev
  BY <1>1, RemoveFields
<1> SUFFICES Sound(r)
  OBVIOUS
<1> HIDE DEF r
<1>3. \A b \in CachedBlobs(r) : b \in CachedBlobs(s) /\ r.cache[b] = s.cache[b]
  BY <1>1, <1>2 DEF CachedBlobs
<1>4. \A b \in CachedBlobs(r) : blob[r.cache[b]] = b
  BY <1>3 DEF Sound
<1>5. CASE ~ s.node[e]
  BY <1>2, <1>4, <1>5 DEF Sound
<1>6. CASE s.node[e]
  <2>1. Root # e
    BY NoSuchEntry
  <2>2. s.next[e] \in Elements /\ s.prev[e] \in Elements
    BY <1>6 DEF Sound
  <2>3. ASSUME NEW x \in Elements, x # e, s.next[x] \in Elements, s.prev[x] \in Elements
        PROVE  r.next[x] \in Elements /\ r.prev[x] \in Elements
    <3>1. r.next[x] = IF x = s.prev[e] THEN s.next[e] ELSE s.next[x]
      BY <1>1, <1>2, <1>6, <2>3 DEF Links
    <3>2. r.prev[x] = IF x = s.next[e] THEN s.prev[e] ELSE s.prev[x]
      BY <1>1, <1>2, <1>6, <2>3 DEF Links
    <3> QED BY <3>1, <3>2, <2>2, <2>3
  <2>4. \A x \in Entries : r.node[x] => x # e /\ s.node[x]
    BY <1>1, <1>2, <1>6
  <2>5. r.next[Root] \in Elements /\ r.prev[Root] \in Elements
    BY <2>1, <2>3 DEF Sound, Elements
  <2>6. \A x \in Entries : r.node[x] =>
           blob[x] # Nil /\ r.next[x] \in Elements /\ r.prev[x] \in Elements
    BY <2>3, <2>4 DEF Sound, Elements
  <2> QED BY <1>2, <1>4, <2>5, <2>6 DEF Sound
<1> QED BY <1>5, <1>6

LEMMA TouchSound ==
    ASSUME BlobType, NEW s, Sound(s), NEW e \in Entries, blob[e] # Nil
    PROVE  Sound(Touch(s, e))
<1> DEFINE kept == IF s.cache[blob[e]] = Nil THEN [s EXCEPT !.cache[blob[e]] = e] ELSE s
           r == Touch(s, e)
<1>1. s \in Store /\ blob[e] \in Blobs
  BY DEF Sound, BlobType
<1>2. /\ kept \in Store
      /\ kept.cache = IF s.cache[blob[e]] = Nil THEN [s.cache EXCEPT ![blob[e]] = e] ELSE s.cache
      /\ kept.node = s.node /\ kept.next = s.next /\ kept.prev = s.prev
      /\ kept.len = s.len /\ kept.stuck = s.stuck
  BY <1>1 DEF Store
<1>3. r = IF s.node[e] THEN ListMoveToFront(kept, e)
                       ELSE [ListPushFront(kept, e) EXCEPT !.node[e] = TRUE]
  BY DEF Touch
<1> SUFFICES Sound(r)
  OBVIOUS
<1> HIDE DEF kept, r
<1>4. \A b \in CachedBlobs(kept) : blob[kept.cache[b]] = b
  <2>1. s.cache \in [Blobs -> Entries \cup {Nil}]
    BY <1>1 DEF Store
  <2>2. ASSUME NEW b \in CachedBlobs(kept) PROVE blob[kept.cache[b]] = b
    <3>1. CASE b = blob[e] /\ s.cache[b] = Nil
      BY <3>1, <2>1, <1>1, <1>2 DEF CachedBlobs
    <3>2. CASE b # blob[e] \/ s.cache[b] # Nil
      <4>1. kept.cache[b] = s.cache[b] /\ b \in CachedBlobs(s)
        BY <3>2, <2>1, <2>2, <1>2 DEF CachedBlobs
      <4> QED BY <4>1 DEF Sound
    <3> QED BY <3>1, <3>2
  <2> QED BY <2>2
<1>5. Sound(kept)
  BY <1>2, <1>4 DEF Sound
<1>6. Root # e
  BY NoSuchEntry
<1>7. ASSUME NEW u, Sound(u)
      PROVE  LET v == LinkFront(u, e) IN
             /\ v \in Store /\ v.cache = u.cache /\ v.node = u.node
             /\ v.next[e] \in Elements /\ v.prev[e] \in Elements
             /\ \A x \in Elements : u.next[x] \in Elements /\ u.prev[x] \in Elements =>
                   v.next[x] \in Elements /\ v.prev[x] \in Elements
  <2> DEFINE v == LinkFront(u, e)
  <2>1. /\ v \in Store /\ v.cache = u.cache /\ v.node = u.node
        /\ v.next = [[u.next EXCEPT ![e] = u.next[Root]] EXCEPT ![Root] = e]
        /\ v.prev = [[u.prev EXCEPT ![e] = Root] EXCEPT ![u.next[Root]] = e]
    BY <1>7, LinkFields DEF Sound
  <2>2. u.next \in Links /\ u.prev \in Links /\ u.next[Root] \in Elements
    BY <1>7 DEF Sound, Store
  <2>3. e \in Elements /\ Root \in Elements
    BY DEF Elements
  <2> HIDE DEF v
  <2>4. \A x \in Elements : /\ v.next[x] = IF x = Root THEN e ELSE IF x = e THEN u.next[Root] ELSE u.next[x]
                            /\ v.prev[x] = IF x = u.next[Root] THEN e ELSE IF x = e THEN Root ELSE u.prev[x]
    BY <2>1, <2>2, <2>3, <1>6 DEF Links
  <2> QED BY <2>1, <2>2, <2>3, <2>4 DEF v
<1>8. CASE s.node[e]
  <2>1. CASE kept.next[Root] = e
    BY <2>1, <1>3, <1>5, <1>8 DEF ListMoveToFront
  <2>2. CASE kept.next[Root] # e
    <3> DEFINE u == Unlink(kept, e)
    <3>1. /\ u \in Store /\ u.cache = kept.cache /\ u.node = kept.node
          /\ u.next = [kept.next EXCEPT ![kept.prev[e]] = kept.next[e]]
          /\ u.prev = [kept.prev EXCEPT ![kept.next[e]] = kept.prev[e]]
      BY <1>2, UnlinkFields
    <3>2. r = LinkFront(u, e)
      BY <1>3, <1>8, <2>2 DEF ListMoveToFront
    <3> HIDE DEF u
    <3>3. kept.next \in Links /\ kept.prev \in Links
      BY <1>2 DEF Store
    <3>4. kept.next[e] \in Elements /\ kept.prev[e] \in Elements
      BY <1>2, <1>5, <1>8 DEF Sound
    <3>5. \A x \in Elements : kept.next[x] \in Elements /\ kept.prev[x] \in Elements =>
             u.next[x] \in Elements /\ u.prev[x] \in Elements
      BY <3>1, <3>3, <3>4 DEF Links
    <3>6. Sound(u)
      <4>1. \A b \in CachedBlobs(u) : blob[u.cache[b]] = b
        BY <1>4, <3>1 DEF CachedBlobs
      <4> QED BY <1>5, <3>1, <3>5, <4>1 DEF Sound, Elements
    <3>7. /\ r \in Store /\ r.cache = u.cache /\ r.node = u.node
          /\ \A x \in Elements : u.next[x] \in Elements /\ u.prev[x] \in Elements =>
                r.next[x] \in Elements /\ r.prev[x] \in Elements
      BY <3>2, <3>6, <1>7
    <3>8. \A b \in CachedBlobs(r) : blob[r.cache[b]] = b
      BY <3>6, <3>7 DEF CachedBlobs, Sound
    <3> QED BY <3>6, <3>7, <3>8 DEF Sound, Elements
  <2> QED BY <2>1, <2>2
<1>9. CASE ~ s.node[e]
  <2> DEFINE u == LinkFront(kept, e)
  <2>1. r = [[u EXCEPT !.len = @ + 1] EXCEPT !.node = [@ EXCEPT ![e] = TRUE]]
    BY <1>3, <1>9 DEF ListPushFront
  <2>2. /\ u \in Store /\ u.cache = kept.cache /\ u.node = kept.node
        /\ u.next[e] \in Elements /\ u.prev[e] \in Elements
        /\ \A x \in Elements : kept.next[x] \in Elements /\ kept.prev[x] \in Elements =>
              u.next[x] \in Elements /\ u.prev[x] \in Elements
    BY <1>5, <1>7
  <2> HIDE DEF u
  <2>3. /\ r \in Store /\ r.cache = u.cache /\ r.next = u.next /\ r.prev = u.prev
        /\ r.node = [u.node EXCEPT ![e] = TRUE]
    <3>1. r = [cache |-> u.cache, node |-> [u.node EXCEPT ![e] = TRUE], next |-> u.next,
               prev |-> u.prev, len |-> u.len + 1, stuck |-> u.stuck]
      BY <2>1, <2>2 DEF Store
    <3> QED BY <3>1, <2>2 DEF Store
  <2>4. \A b \in CachedBlobs(r) : blob[r.cache[b]] = b
    BY <1>4, <2>2, <2>3 DEF CachedBlobs
  <2>5. \A x \in Entries : r.node[x] => x = e \/ kept.node[x]
    BY <2>2, <2>3 DEF Store
  <2> QED BY <1>5, <2>2, <2>3, <2>4, <2>5 DEF Sound, Elements
<1> QED BY <1>8, <1>9

LEMMA RecordedIsFinite ==
    ASSUME NEW s, s \in Store
    PROVE  /\ Recorded(s) \subseteq Entries
           /\ IsFiniteSet(Recorded(s)) /\ Cardinality(Recorded(s)) \in Nat
           /\ Cardinality(Recorded(s)) <= Cardinality(Entries)
           /\ IsFiniteSet(CachedBlobs(s)) /\ Cardinality(CachedBlobs(s)) \in Nat
<1>1. Recorded(s) \subseteq Entries
  BY DEF Recorded, Cached, CachedBlobs, Store
<1>2. CachedBlobs(s) \subseteq Blobs
  BY DEF CachedBlobs
<1> QED BY <1>1, <1>2, FiniteEntries, FS_Subset, FS_CardinalityType

\* An entry in the map is there under its own name, and once.
LEMMA RecordedFacts ==
    ASSUME NEW s, Sound(s), NEW e \in Entries
    PROVE  /\ e \in Cached(s) <=> (blob[e] \in Blobs /\ s.cache[blob[e]] = e)
           /\ e \in Recorded(s) <=> (blob[e] \in Blobs /\ s.cache[blob[e]] = e /\ s.node[e])
<1>1. e \in Cached(s) <=> (blob[e] \in Blobs /\ s.cache[blob[e]] = e)
  <2>1. ASSUME e \in Cached(s) PROVE blob[e] \in Blobs /\ s.cache[blob[e]] = e
    <3>1. PICK b \in CachedBlobs(s) : s.cache[b] = e
      BY <2>1 DEF Cached
    <3> QED BY <3>1 DEF Sound, CachedBlobs
  <2>2. ASSUME blob[e] \in Blobs, s.cache[blob[e]] = e PROVE e \in Cached(s)
    BY <2>2, NoSuchEntry DEF Cached, CachedBlobs
  <2> QED BY <2>1, <2>2
<1> QED BY <1>1 DEF Recorded

LEMMA RemoveFair ==
    ASSUME BlobType, NEW s, Sound(s), NEW age \in [Entries -> Int], Fair(s, age),
           NEW e \in Entries, blob[e] # Nil, s.cache[blob[e]] \in {e, Nil},
           s.node[e] => e \in Recorded(s)
    PROVE  /\ Fair(RemoveEntry(s, e), age)
           /\ Recorded(RemoveEntry(s, e)) = Recorded(s) \ {e}
<1> DEFINE r == RemoveEntry(s, e)
<1> SUFFICES Fair(r, age) /\ Recorded(r) = Recorded(s) \ {e}
  OBVIOUS
<1>1. /\ s \in Store /\ s.next \in Links /\ s.prev \in Links /\ s.node \in [Entries -> BOOLEAN]
      /\ s.cache \in [Blobs -> Entries \cup {Nil}] /\ blob[e] \in Blobs
  BY DEF Sound, Store, BlobType
<1>2. /\ r \in Store
      /\ r.cache = [s.cache EXCEPT ![blob[e]] = Nil]
      /\ r.stuck = s.stuck
      /\ s.node[e] =>
           /\ r.node = [s.node EXCEPT ![e] = FALSE]
           /\ r.next = [[s.next EXCEPT ![s.prev[e]] = s.next[e]] EXCEPT ![e] = Nil]
           /\ r.prev = [[s.prev EXCEPT ![s.next[e]] = s.prev[e]] EXCEPT ![e] = Nil]
           /\ r.len = s.len - 1
      /\ ~ s.node[e] => r.node = s.node /\ r.next = s.next /\ r.prev = s.prev /\ r.len = s.len
  BY <1>1, RemoveFields
<1>3. Sound(r)
  BY RemoveSound
<1> HIDE DEF r
<1>4. Recorded(r) = Recorded(s) \ {e}
  <2>1. Recorded(r) \subseteq Entries /\ Recorded(s) \subseteq Entries
    BY <1>1, <1>2, RecordedIsFinite
  <2>2. ASSUME NEW x \in Entries PROVE x \in Recorded(r) <=> x \in Recorded(s) /\ x # e
    <3>1. /\ x \in Recorded(s) <=> (blob[x] \in Blobs /\ s.cache[blob[x]] = x /\ s.node[x])
          /\ x \in Recorded(r) <=> (blob[x] \in Blobs /\ r.cache[blob[x]] = x /\ r.node[x])
      BY <1>3, RecordedFacts
    <3>2. x # Nil
      BY NoSuchEntry
    <3>3. CASE x = e
      BY <3>1, <3>2, <3>3, <1>1, <1>2
    <3>4. CASE x # e
      <4>1. blob[x] \in Blobs => r.cache[blob[x]] = IF blob[x] = blob[e] THEN Nil ELSE s.cache[blob[x]]
        BY <1>1, <1>2
      <4>2. r.node[x] <=> s.node[x]
        BY <1>1, <1>2, <3>4
      <4>3. blob[x] = blob[e] => s.cache[blob[x]] # x
        BY <3>2, <3>4
      <4> QED BY <3>1, <3>2, <3>4, <4>1, <4>2, <4>3
    <3> QED BY <3>3, <3>4
  <2> QED BY <2>1, <2>2
<1>5. CASE ~ s.node[e]
  <2>1. e \notin Recorded(s)
    BY <1>5 DEF Recorded
  <2>2. Recorded(r) = Recorded(s)
    BY <2>1, <1>4
  <2> QED BY <1>2, <1>4, <1>5, <2>2 DEF Fair
<1>6. CASE s.node[e]
  <2> DEFINE L == Recorded(s)
  <2>1. e \in L /\ L \subseteq Entries /\ IsFiniteSet(L)
    BY <1>1, <1>6, RecordedIsFinite
  <2>2. Lru(s.next, s.prev, L, age)
    BY DEF Fair
  <2>3. \A x \in (L \ {e}) \cup {Root} :
              /\ r.next[x] = IF x = s.prev[e] THEN s.next[e] ELSE s.next[x]
              /\ r.prev[x] = IF x = s.next[e] THEN s.prev[e] ELSE s.prev[x]
    BY <1>1, <1>2, <1>6, <2>1, NoSuchEntry DEF Links, Elements
  <2> HIDE DEF L
  <2>4. Lru(r.next, r.prev, L \ {e}, age)
    BY <2>1, <2>2, <2>3, UnlinkLru
  <2>5. Cardinality(L \ {e}) = Cardinality(L) - 1
    BY <2>1, FS_RemoveElement
  <2> QED BY <1>2, <1>4, <1>6, <2>4, <2>5 DEF L, Fair
<1> QED BY <1>4, <1>5, <1>6

LEMMA TouchFair ==
    ASSUME BlobType, NEW s, Sound(s), NEW e \in Entries, blob[e] # Nil,
           s.cache[blob[e]] \in {e, Nil}, s.node[e] => e \in Recorded(s),
           NEW age \in [Entries -> Int], Fair(s, age), NEW age2 \in [Entries -> Int],
           age2[e] = 0, \A x \in Entries \ {e} : age2[x] = age[x]
    PROVE  Fair(Touch(s, e), age2)
<1> DEFINE kept == IF s.cache[blob[e]] = Nil THEN [s EXCEPT !.cache[blob[e]] = e] ELSE s
           r == Touch(s, e)
           L == Recorded(s)
<1> SUFFICES Fair(r, age2)
  OBVIOUS
<1>1. s \in Store /\ blob[e] \in Blobs
  BY DEF Sound, BlobType
<1>2. /\ kept \in Store
      /\ kept.cache = IF s.cache[blob[e]] = Nil THEN [s.cache EXCEPT ![blob[e]] = e] ELSE s.cache
      /\ kept.node = s.node /\ kept.next = s.next /\ kept.prev = s.prev
      /\ kept.len = s.len /\ kept.stuck = s.stuck
  BY <1>1 DEF Store
<1>3. r = IF s.node[e] THEN ListMoveToFront(kept, e)
                       ELSE [ListPushFront(kept, e) EXCEPT !.node[e] = TRUE]
  BY DEF Touch
<1>4. Sound(r)
  BY TouchSound
<1>5. L \subseteq Entries /\ IsFiniteSet(L)
  BY <1>1, RecordedIsFinite
<1>6. Lru(s.next, s.prev, L, age) /\ s.len = Cardinality(L) /\ ~ s.stuck
  BY DEF Fair
<1> HIDE DEF kept, r
<1>7. s.node[e] <=> e \in L
  BY DEF Recorded
<1>8. /\ s.next \in Links /\ s.prev \in Links /\ s.node \in [Entries -> BOOLEAN]
      /\ s.cache \in [Blobs -> Entries \cup {Nil}]
  BY <1>1 DEF Store
<1>9. ASSUME r.cache = kept.cache, \A x \in Entries : r.node[x] <=> x = e \/ s.node[x]
      PROVE  Recorded(r) = L \cup {e}
  <2>1. Recorded(r) \subseteq Entries
    BY <1>4, RecordedIsFinite DEF Sound
  <2>2. ASSUME NEW x \in Entries PROVE x \in Recorded(r) <=> x \in L \/ x = e
    <3>1. /\ x \in L <=> (blob[x] \in Blobs /\ s.cache[blob[x]] = x /\ s.node[x])
          /\ x \in Recorded(r) <=> (blob[x] \in Blobs /\ r.cache[blob[x]] = x /\ r.node[x])
      BY <1>4, RecordedFacts
    <3>2. x # Nil
      BY NoSuchEntry
    <3>3. blob[x] \in Blobs => r.cache[blob[x]] = IF blob[x] = blob[e] THEN e ELSE s.cache[blob[x]]
      BY <1>1, <1>2, <1>8, <1>9
    <3>4. blob[x] = blob[e] /\ x # e => s.cache[blob[x]] # x
      BY <3>2
    <3> QED BY <3>1, <3>2, <3>3, <3>4, <1>1, <1>9
  <2> QED BY <2>1, <2>2, <1>5
<1>10. CASE ~ s.node[e]
  <2> DEFINE u == ListPushFront(kept, e)
  <2>1. r = [u EXCEPT !.node = [@ EXCEPT ![e] = TRUE]]
    BY <1>3, <1>10
  <2>2. /\ u \in Store
        /\ u.cache = kept.cache /\ u.stuck = kept.stuck /\ u.node = kept.node
        /\ u.len = kept.len + 1
        /\ u.next = [[kept.next EXCEPT ![e] = kept.next[Root]] EXCEPT ![Root] = e]
        /\ u.prev = [[kept.prev EXCEPT ![e] = Root] EXCEPT ![kept.next[Root]] = e]
    BY <1>2, PushFields
  <2> HIDE DEF u
  <2>3. /\ r.cache = kept.cache /\ r.next = u.next /\ r.prev = u.prev /\ r.len = s.len + 1
        /\ r.stuck = s.stuck /\ r.node = [s.node EXCEPT ![e] = TRUE]
    BY <1>2, <2>1, <2>2 DEF Store
  <2>4. \A x \in Entries : r.node[x] <=> x = e \/ s.node[x]
    BY <2>3, <1>8
  <2>5. Recorded(r) = L \cup {e}
    BY <2>3, <2>4, <1>9
  <2>6. e \notin L
    BY <1>7, <1>10
  <2>7. Lru(s.next, s.prev, L, age2)
    BY <1>5, <1>6, <2>6 DEF Lru, Chain, Aged
  <2>8. \A x \in L \cup {e, Root} :
           /\ r.next[x] = IF x = Root THEN e ELSE IF x = e THEN s.next[Root] ELSE s.next[x]
           /\ r.prev[x] = IF x = s.next[Root] THEN e ELSE IF x = e THEN Root ELSE s.prev[x]
    BY <2>2, <2>3, <1>2, <1>5, <1>8, NoSuchEntry DEF Links, Elements
  <2>9. s.next[Root] \in L \cup {Root}
    BY <1>6 DEF Lru, Chain
  <2> HIDE DEF L
  <2>10. Lru(r.next, r.prev, L \cup {e}, age2)
    <3>1. /\ r.next[Root] = e /\ r.next[e] = s.next[Root] /\ r.prev[e] = Root
          /\ r.prev[s.next[Root]] = e
          /\ \A x \in L : r.next[x] = s.next[x]
          /\ \A x \in L \cup {Root} : x # s.next[Root] => r.prev[x] = s.prev[x]
      BY <1>5, <2>6, <2>8, <2>9, NoSuchEntry
    <3> QED BY <3>1, <1>5, <2>6, <2>7, LinkLru
  <2>11. Cardinality(L \cup {e}) = Cardinality(L) + 1
    BY <1>5, <2>6, FS_AddElement
  <2> QED BY <1>6, <2>3, <2>5, <2>10, <2>11 DEF Fair
<1>11. CASE s.node[e]
  <2>1. r = ListMoveToFront(kept, e) /\ e \in L
    BY <1>3, <1>7, <1>11
  <2>2. CASE s.next[Root] = e
    <3>1. r = kept
      BY <2>1, <2>2, <1>2 DEF ListMoveToFront
    <3>2. Recorded(r) = L
      <4>1. Recorded(r) = L \cup {e}
        BY <3>1, <1>2, <1>9, <1>11
      <4> QED BY <4>1, <2>1
    <3>3. Lru(s.next, s.prev, L, age2)
      <4>1. PICK top, pos : Chain(s.next, s.prev, L, pos, top)
        BY <1>6, Zenon DEF Lru
      <4>2. Aged(s.next, L, age)
        BY <1>6 DEF Lru
      <4>3. ASSUME NEW x \in L
            PROVE  age2[x] >= 0 /\ (s.next[x] # Root => age2[x] <= age2[s.next[x]])
        <5>1. x # Root /\ Root # e
          BY <1>5, NoSuchEntry
        <5>2. /\ s.next[x] \in L \cup {Root} /\ s.prev[s.next[x]] = x /\ s.prev[e] = Root
          BY <4>1, <2>2 DEF Chain
        <5>3. s.next[x] # e
          BY <5>1, <5>2
        <5>4. s.next[x] # Root => age2[s.next[x]] = age[s.next[x]] /\ age[s.next[x]] >= 0
          BY <5>2, <5>3, <4>2, <1>5 DEF Aged
        <5>5. CASE x = e
          BY <5>4, <5>5
        <5>6. CASE x # e
          <6>1. age2[x] = age[x]
            BY <5>6, <1>5
          <6> QED BY <6>1, <5>4, <4>2 DEF Aged
        <5> QED BY <5>5, <5>6
      <4>4. Aged(s.next, L, age2)
        BY <4>3 DEF Aged
      <4> QED BY <4>1, <4>4 DEF Lru
    <3> QED BY <1>2, <1>6, <3>1, <3>2, <3>3 DEF Fair
  <2>3. CASE s.next[Root] # e
    <3> DEFINE u == Unlink(kept, e)
               M == L \ {e}
    <3>1. /\ u \in Store /\ u.cache = kept.cache /\ u.stuck = s.stuck /\ u.node = s.node
          /\ u.len = s.len
          /\ u.next = [s.next EXCEPT ![s.prev[e]] = s.next[e]]
          /\ u.prev = [s.prev EXCEPT ![s.next[e]] = s.prev[e]]
      BY <1>2, UnlinkFields
    <3>2. r = LinkFront(u, e)
      BY <1>2, <2>1, <2>3 DEF ListMoveToFront
    <3> HIDE DEF u
    <3>3. /\ r.cache = u.cache /\ r.stuck = u.stuck /\ r.node = u.node
          /\ r.len = u.len
          /\ r.next = [[u.next EXCEPT ![e] = u.next[Root]] EXCEPT ![Root] = e]
          /\ r.prev = [[u.prev EXCEPT ![e] = Root] EXCEPT ![u.next[Root]] = e]
      BY <3>1, <3>2, LinkFields
    <3>4. Recorded(r) = L
      <4>1. Recorded(r) = L \cup {e}
        BY <3>1, <3>3, <1>9, <1>11
      <4> QED BY <4>1, <2>1
    <3>5. u.next \in Links /\ u.prev \in Links
      BY <3>1 DEF Store
    <3> HIDE DEF L
    <3>6. Lru(u.next, u.prev, M, age)
      <4>1. \A x \in M \cup {Root} :
              /\ u.next[x] = IF x = s.prev[e] THEN s.next[e] ELSE s.next[x]
              /\ u.prev[x] = IF x = s.next[e] THEN s.prev[e] ELSE s.prev[x]
        BY <3>1, <1>5, <1>8 DEF Links, Elements
      <4> QED BY <4>1, <2>1, <1>5, <1>6, UnlinkLru
    <3>7. M \subseteq Entries /\ e \notin M /\ M \cup {e} = L
      BY <1>5, <2>1
    <3> HIDE DEF M
    <3>8. Lru(u.next, u.prev, M, age2)
      BY <3>6, <3>7 DEF Lru, Chain, Aged
    <3>9. u.next[Root] \in M \cup {Root}
      BY <3>6 DEF Lru, Chain
    <3>10. \A x \in M \cup {e, Root} :
           /\ r.next[x] = IF x = Root THEN e ELSE IF x = e THEN u.next[Root] ELSE u.next[x]
           /\ r.prev[x] = IF x = u.next[Root] THEN e ELSE IF x = e THEN Root ELSE u.prev[x]
      BY <3>3, <3>5, <3>7, NoSuchEntry DEF Links, Elements
    <3>11. Lru(r.next, r.prev, M \cup {e}, age2)
      <4>1. /\ r.next[Root] = e /\ r.next[e] = u.next[Root] /\ r.prev[e] = Root
            /\ r.prev[u.next[Root]] = e
            /\ \A x \in M : r.next[x] = u.next[x]
            /\ \A x \in M \cup {Root} : x # u.next[Root] => r.prev[x] = u.prev[x]
        BY <3>7, <3>9, <3>10, NoSuchEntry
      <4> QED BY <4>1, <3>7, <3>8, LinkLru
    <3> QED BY <1>6, <3>1, <3>3, <3>4, <3>7, <3>11 DEF Fair
  <2> QED BY <2>2, <2>3
<1> QED BY <1>10, <1>11

\* What can be reached from the sentinel is the list.
LEMMA LinkedIsTheList ==
    ASSUME NEW s, NEW L, L \subseteq Entries, NEW top, NEW pos,
           Chain(s.next, s.prev, L, pos, top)
    PROVE  Linked(s) = L
<1> DEFINE N == Cardinality(Entries)
           All == L \cup {Root}
           Sets == SUBSET All
           more(R) == R \cup {s.next[x] : x \in R}
           from[n \in 0 .. Cardinality(Entries)] ==
             IF n = 0 THEN {Root} ELSE from[n - 1] \cup {s.next[x] : x \in from[n - 1]}
<1>1. N \in Nat /\ IsFiniteSet(Entries)
  BY FiniteEntries, FS_CardinalityType
<1>2. \A x \in All : s.next[x] \in All
  BY DEF Chain
<1>3. \A R \in Sets : more(R) \in Sets
  BY <1>2
<1>4. PICK g \in [0 .. N -> Sets] :
         g[0] = {Root} /\ \A k \in 1 .. N : g[k] = more(g[k - 1])
  <2>1. PICK t \in [Sets -> Sets] : \A R \in Sets : t[R] = more(R)
    <3> DEFINE u == [R \in Sets |-> more(R)]
    <3>1. u \in [Sets -> Sets] /\ \A R \in Sets : u[R] = more(R)
      BY <1>3
    <3> HIDE DEF more, Sets
    <3> QED BY <3>1
  <2>2. {Root} \in Sets
    OBVIOUS
  <2> HIDE DEF more, Sets, N
  <2>3. Repeats(Sets, {Root}, t, N)
    BY <1>1, <2>2, IterationExists
  <2>4. PICK g \in [0 .. N -> Sets] : g[0] = {Root} /\ \A k \in 1 .. N : g[k] = t[g[k - 1]]
    BY <2>3, Zenon DEF Repeats
  <2>5. \A k \in 1 .. N : g[k - 1] \in Sets
    BY <1>1
  <2> QED BY <2>1, <2>4, <2>5
<1>5. g = [n \in 0 .. N |-> IF n = 0 THEN {Root} ELSE g[n - 1] \cup {s.next[x] : x \in g[n - 1]}]
  BY <1>1, <1>4
<1>6. from = [n \in 0 .. N |-> IF n = 0 THEN {Root}
                             ELSE from[n - 1] \cup {s.next[x] : x \in from[n - 1]}]
  BY <1>5, Zenon
<1>7. Linked(s) = from[N] \ {Root}
  BY DEF Linked
<1> DEFINE Closed(R) == \A x \in R : s.next[x] \in R
<1>8. from[0] = {Root} /\ \A k \in 1 .. N : from[k] = more(from[k - 1])
  <2> HIDE DEF from
  <2> QED BY <1>1, <1>6
<1> HIDE DEF from
<1>9. \A k \in 0 .. N : from[k] \in Sets /\ Root \in from[k]
  <2> DEFINE T == {k \in 0 .. N : from[k] \in Sets /\ Root \in from[k]}
  <2>1. 0 \in T
    BY <1>1, <1>8
  <2>2. ASSUME NEW k \in 1 .. N, k - 1 \in T PROVE k \in T
    <3>1. from[k - 1] \in Sets /\ Root \in from[k - 1]
      BY <2>2
    <3>2. from[k] = more(from[k - 1])
      BY <1>8
    <3>3. more(from[k - 1]) \in Sets
      BY <3>1, <1>3
    <3> QED BY <1>1, <3>1, <3>2, <3>3
  <2>3. 0 .. N \subseteq T
    <3> HIDE DEF T, N
    <3> QED BY <2>1, <2>2, <1>1, UpTo
  <2> QED BY <2>3
<1>10. \A k \in 0 .. N : IsFiniteSet(from[k]) /\ Cardinality(from[k]) \in Nat
  <2>1. IsFiniteSet(Elements)
    BY <1>1, FS_AddElement DEF Elements
  <2>2. \A k \in 0 .. N : from[k] \in SUBSET Elements
    BY <1>9 DEF Elements
  <2> QED BY <2>1, <2>2, FS_Subset, FS_CardinalityType
<1>11. Closed(from[N]) \/ Cardinality(from[N]) >= N + 1
  <2> DEFINE T == {k \in 0 .. N : Closed(from[k]) \/ Cardinality(from[k]) >= k + 1}
  <2>1. 0 \in T
    <3>1. Cardinality(from[0]) = 1
      BY <1>8, FS_Singleton
    <3> QED BY <3>1, <1>1
  <2>2. ASSUME NEW k \in 1 .. N, k - 1 \in T PROVE k \in T
    <3>1. from[k] = more(from[k - 1])
      BY <1>8
    <3>2. CASE Closed(from[k - 1])
      <4>1. from[k] = from[k - 1]
        BY <3>1, <3>2
      <4> QED BY <4>1, <3>2
    <3>3. CASE ~ Closed(from[k - 1])
      <4>1. PICK x \in from[k - 1] : s.next[x] \notin from[k - 1]
        BY <3>3
      <4>2. Cardinality(from[k - 1]) >= k
        BY <2>2, <3>3
      <4>3. k \in 0 .. N /\ k - 1 \in 0 .. N
        BY <1>1
      <4>4. Cardinality(from[k - 1] \cup {s.next[x]}) = Cardinality(from[k - 1]) + 1
        <5>1. IsFiniteSet(from[k - 1])
          BY <4>3, <1>10
        <5> HIDE DEF N
        <5> QED BY <5>1, <4>1, FS_AddElement
      <4>5. from[k - 1] \cup {s.next[x]} \subseteq from[k]
        BY <3>1, <4>1
      <4>6. Cardinality(from[k - 1] \cup {s.next[x]}) <= Cardinality(from[k])
        BY <4>3, <4>5, <1>10, FS_Subset
      <4>7. Cardinality(from[k]) >= k + 1
        <5> HIDE DEF N
        <5>1. Cardinality(from[k - 1]) \in Nat /\ Cardinality(from[k]) \in Nat
          BY <4>3, <1>10
        <5> QED BY <4>2, <4>4, <4>6, <5>1
      <4> QED BY <4>3, <4>7
    <3> QED BY <3>2, <3>3
  <2>3. 0 .. N \subseteq T
    <3> HIDE DEF T, N
    <3> QED BY <2>1, <2>2, <1>1, UpTo
  <2>4. N \in T
    BY <2>3, <1>1
  <2> QED BY <2>4
<1>12. N \in 0 .. N
  BY <1>1
<1>13. L \subseteq from[N]
  <2>1. CASE Closed(from[N])
    BY <2>1, <1>9, <1>12, AllReached
  <2>2. CASE Cardinality(from[N]) >= N + 1
    <3>1. IsFiniteSet(Elements) /\ Cardinality(Elements) = N + 1
      BY <1>1, FS_AddElement, NoSuchEntry DEF Elements
    <3>2. from[N] \in SUBSET Elements
      BY <1>9, <1>12 DEF Elements
    <3>3. Cardinality(from[N]) <= Cardinality(Elements)
      BY <3>1, <3>2, FS_Subset
    <3>4. Cardinality(from[N]) = Cardinality(Elements)
      <4> HIDE DEF N
      <4> QED BY <3>1, <3>3, <2>2, <1>1, <1>10, <1>12
    <3>5. Elements = from[N]
      BY <3>1, <3>2, <3>4, FS_Subset
    <3> QED BY <3>5 DEF Elements
  <2> QED BY <1>11, <2>1, <2>2
<1>14. from[N] \subseteq L \cup {Root}
  BY <1>9, <1>12
<1> QED BY <1>7, <1>13, <1>14, NoSuchEntry

-----------------------------------------------------------------------------
\* The loops.

LEMMA TurnsAreNumbers == MaxTurns \in Nat /\ Cardinality(Blobs) \in Nat
BY FiniteEntries, FS_CardinalityType DEF MaxTurns

\* The loop from s goes through the stores f[0], f[1], ... of S.
EnforceThrough(S, s, n) ==
  \E f \in [0 .. MaxTurns -> S] :
    /\ f[0] = s
    /\ \A k \in 1 .. MaxTurns : f[k] = EnforceTurn(f[k - 1], n)
    /\ Enforce(s, n) = IF Enforced(s, n) THEN s
                       ELSE IF Enforced(f[MaxTurns], n) THEN f[MaxTurns]
                            ELSE [f[MaxTurns] EXCEPT !.stuck = TRUE]

LEMMA EnforceIterates ==
    ASSUME NEW S, NEW s \in S, NEW n, \A x \in S : EnforceTurn(x, n) \in S
    PROVE  EnforceThrough(S, s, n)
<1> DEFINE after[turn \in 0 .. MaxTurns] ==
              IF turn = 0 THEN s ELSE EnforceTurn(after[turn - 1], n)
<1>1. PICK t \in [S -> S] : \A x \in S : t[x] = EnforceTurn(x, n)
  <2> DEFINE u == [x \in S |-> EnforceTurn(x, n)]
  <2>1. u \in [S -> S] /\ \A x \in S : u[x] = EnforceTurn(x, n)
    OBVIOUS
  <2> QED BY <2>1
<1>2. PICK g \in [0 .. MaxTurns -> S] :
         g[0] = s /\ \A k \in 1 .. MaxTurns : g[k] = t[g[k - 1]]
  <2>1. Repeats(S, s, t, MaxTurns)
    BY <1>1, TurnsAreNumbers, IterationExists
  <2> QED BY <2>1, Zenon DEF Repeats
<1>3. g = [turn \in 0 .. MaxTurns |-> IF turn = 0 THEN s ELSE EnforceTurn(g[turn - 1], n)]
  <2>1. ASSUME NEW k \in 1 .. MaxTurns PROVE g[k] = EnforceTurn(g[k - 1], n)
    <3>1. g[k - 1] \in S
      BY TurnsAreNumbers
    <3> QED BY <3>1, <1>1, <1>2
  <2> QED BY <1>2, <2>1, TurnsAreNumbers
<1>4. after = [turn \in 0 .. MaxTurns |-> IF turn = 0 THEN s ELSE EnforceTurn(after[turn - 1], n)]
  BY <1>3, Zenon
<1>5. Enforce(s, n) = IF Enforced(s, n) THEN s
                      ELSE IF Enforced(after[MaxTurns], n) THEN after[MaxTurns]
                                      ELSE [after[MaxTurns] EXCEPT !.stuck = TRUE]
  BY DEF Enforce
<1> HIDE DEF after
<1>6. /\ after[0] = s
      /\ \A k \in 1 .. MaxTurns : after[k] = EnforceTurn(after[k - 1], n)
  BY <1>4, TurnsAreNumbers
<1>7. \A k \in 0 .. MaxTurns : after[k] \in S
  <2> DEFINE T == {k \in 0 .. MaxTurns : after[k] \in S}
  <2>1. 0 \in T
    BY <1>6, TurnsAreNumbers
  <2>2. \A k \in 1 .. MaxTurns : k - 1 \in T => k \in T
    BY <1>6, TurnsAreNumbers
  <2>3. 0 .. MaxTurns \subseteq T
    <3> HIDE DEF T
    <3> QED BY <2>1, <2>2, TurnsAreNumbers, UpTo
  <2> QED BY <2>3
<1>8. after \in [0 .. MaxTurns -> S]
  BY <1>4, <1>7
<1> QED BY <1>5, <1>6, <1>8 DEF EnforceThrough

LEMMA EvictKeeps ==
    ASSUME NEW S, NEW s \in S, NEW d, NEW age, \A x \in S : EvictTurn(x, d, age) \in S
    PROVE  EvictIdle(s, d, age) \in S
<1> DEFINE after[turn \in 0 .. Cardinality(Blobs)] ==
              IF turn = 0 THEN s ELSE EvictTurn(after[turn - 1], d, age)
           N == Cardinality(Blobs)
<1>1. PICK t \in [S -> S] : \A x \in S : t[x] = EvictTurn(x, d, age)
  <2> DEFINE u == [x \in S |-> EvictTurn(x, d, age)]
  <2>1. u \in [S -> S] /\ \A x \in S : u[x] = EvictTurn(x, d, age)
    OBVIOUS
  <2> QED BY <2>1
<1>2. PICK g \in [0 .. N -> S] :
         g[0] = s /\ \A k \in 1 .. N : g[k] = t[g[k - 1]]
  <2>1. Repeats(S, s, t, N)
    BY <1>1, TurnsAreNumbers, IterationExists
  <2> QED BY <2>1, Zenon DEF Repeats
<1>3. g = [turn \in 0 .. N |-> IF turn = 0 THEN s ELSE EvictTurn(g[turn - 1], d, age)]
  <2>1. ASSUME NEW k \in 1 .. N PROVE g[k] = EvictTurn(g[k - 1], d, age)
    <3>1. g[k - 1] \in S
      BY TurnsAreNumbers
    <3> QED BY <3>1, <1>1, <1>2
  <2> QED BY <1>2, <2>1, TurnsAreNumbers
<1>4. after = [turn \in 0 .. N |-> IF turn = 0 THEN s ELSE EvictTurn(after[turn - 1], d, age)]
  BY <1>3, Zenon
<1>5. EvictIdle(s, d, age) = IF d <= 0 THEN s ELSE after[N]
  BY DEF EvictIdle
<1> HIDE DEF after
<1>6. /\ after[0] = s
      /\ \A k \in 1 .. N : after[k] = EvictTurn(after[k - 1], d, age)
  BY <1>4, TurnsAreNumbers
<1>7. \A k \in 0 .. N : after[k] \in S
  <2> DEFINE T == {k \in 0 .. N : after[k] \in S}
  <2>1. 0 \in T
    BY <1>6, TurnsAreNumbers
  <2>2. \A k \in 1 .. N : k - 1 \in T => k \in T
    BY <1>6, TurnsAreNumbers
  <2>3. 0 .. N \subseteq T
    <3> HIDE DEF T
    <3> QED BY <2>1, <2>2, TurnsAreNumbers, UpTo
  <2> QED BY <2>3
<1> QED BY <1>5, <1>7, TurnsAreNumbers

LEMMA EvictSound ==
    ASSUME BlobType, NEW s, Sound(s), NEW d, NEW age
    PROVE  Sound(EvictIdle(s, d, age))
<1> DEFINE S == {x \in Store : Sound(x)}
<1>1. s \in S
  BY DEF Sound
<1>2. ASSUME NEW x \in S PROVE EvictTurn(x, d, age) \in S
  <2>1. CASE IdleFor(x, d, age) = {}
    BY <2>1 DEF EvictTurn
  <2>2. CASE IdleFor(x, d, age) # {}
    <3>1. PICK e \in IdleFor(x, d, age) : EvictTurn(x, d, age) = RemoveEntry(x, e)
      BY <2>2, Zenon DEF EvictTurn
    <3>2. e \in Entries
      BY <3>1 DEF IdleFor, Cached, CachedBlobs, Store
    <3>3. Sound(RemoveEntry(x, e))
      BY <3>2, RemoveSound
    <3> QED BY <3>1, <3>3 DEF Sound
  <2> QED BY <2>1, <2>2
<1>3. EvictIdle(s, d, age) \in S
  <2> HIDE DEF S
  <2> QED BY <1>1, <1>2, EvictKeeps
<1> QED BY <1>3

LEMMA EvictFair ==
    ASSUME BlobType, NEW s, Sound(s), NEW d, NEW age \in [Entries -> Int], Fair(s, age)
    PROVE  /\ Fair(EvictIdle(s, d, age), age)
           /\ Recorded(EvictIdle(s, d, age)) \subseteq Recorded(s)
<1> DEFINE S == {x \in Store : Sound(x) /\ Fair(x, age) /\ Recorded(x) \subseteq Recorded(s)}
<1>1. s \in S
  BY DEF Sound
<1>2. ASSUME NEW x \in S PROVE EvictTurn(x, d, age) \in S
  <2>1. CASE IdleFor(x, d, age) = {}
    BY <2>1 DEF EvictTurn
  <2>2. CASE IdleFor(x, d, age) # {}
    <3>1. PICK e \in IdleFor(x, d, age) : EvictTurn(x, d, age) = RemoveEntry(x, e)
      BY <2>2, Zenon DEF EvictTurn
    <3>2. e \in Entries /\ e \in Cached(x)
      BY <3>1 DEF IdleFor, Cached, CachedBlobs, Store
    <3>3. blob[e] \in Blobs /\ x.cache[blob[e]] = e
      BY <3>2, RecordedFacts
    <3>4. x.node[e] => e \in Recorded(x)
      BY <3>2 DEF Recorded
    <3>5. Fair(RemoveEntry(x, e), age) /\ Recorded(RemoveEntry(x, e)) = Recorded(x) \ {e}
      BY <3>2, <3>3, <3>4, NoSuchBlob, RemoveFair
    <3>6. Sound(RemoveEntry(x, e))
      BY <3>2, RemoveSound
    <3> QED BY <3>1, <3>5, <3>6 DEF Sound
  <2> QED BY <2>1, <2>2
<1>3. EvictIdle(s, d, age) \in S
  <2> HIDE DEF S
  <2> QED BY <1>1, <1>2, EvictKeeps
<1> QED BY <1>3

LEMMA EnforceSound ==
    ASSUME BlobType, NEW s, Sound(s), NEW n \in Int
    PROVE  Sound(Enforce(s, n))
<1> DEFINE S == {x \in Store : Sound(x)}
<1>1. s \in S
  BY DEF Sound
<1>2. \A x \in S : EnforceTurn(x, n) \in S
  <2> SUFFICES ASSUME NEW x \in S PROVE EnforceTurn(x, n) \in S
    OBVIOUS
  <2>1. CASE Enforced(x, n) \/ x.prev[Root] = Root
    BY <2>1 DEF EnforceTurn
  <2>2. CASE ~ (Enforced(x, n) \/ x.prev[Root] = Root)
    <3>1. EnforceTurn(x, n) = RemoveEntry(x, x.prev[Root])
      BY <2>2, Zenon DEF EnforceTurn
    <3>2. x.prev[Root] \in Entries
      BY <2>2 DEF Sound, Elements
    <3>3. Sound(RemoveEntry(x, x.prev[Root]))
      BY <3>2, RemoveSound
    <3> QED BY <3>1, <3>3 DEF Sound
  <2> QED BY <2>1, <2>2
<1>3. PICK f \in [0 .. MaxTurns -> S] :
         /\ f[0] = s
         /\ \A k \in 1 .. MaxTurns : f[k] = EnforceTurn(f[k - 1], n)
         /\ Enforce(s, n) = IF Enforced(s, n) THEN s
                            ELSE IF Enforced(f[MaxTurns], n) THEN f[MaxTurns]
                                 ELSE [f[MaxTurns] EXCEPT !.stuck = TRUE]
  <2> HIDE DEF S
  <2>1. EnforceThrough(S, s, n)
    BY <1>1, <1>2, EnforceIterates
  <2> QED BY <2>1, Zenon DEF EnforceThrough
<1>4. Sound(f[MaxTurns])
  BY TurnsAreNumbers
<1>5. Sound([f[MaxTurns] EXCEPT !.stuck = TRUE])
  <2> DEFINE u == f[MaxTurns]
             v == [u EXCEPT !.stuck = TRUE]
  <2>1. u \in Store
    BY <1>4 DEF Sound
  <2> HIDE DEF u
  <2>2. /\ v \in Store /\ v.cache = u.cache /\ v.node = u.node
        /\ v.next = u.next /\ v.prev = u.prev
    BY <2>1 DEF Store
  <2> HIDE DEF v
  <2>3. Sound(u)
    BY <1>4 DEF u
  <2>4. Sound(v)
    BY <2>2, <2>3 DEF Sound, CachedBlobs
  <2> QED BY <2>4 DEF u, v
<1> QED BY <1>3, <1>4, <1>5

LEMMA EnforceFair ==
    ASSUME BlobType, NEW s, Sound(s), NEW n \in Int, NEW age \in [Entries -> Int], Fair(s, age)
    PROVE  /\ Fair(Enforce(s, n), age)
           /\ n >= 0 => Cardinality(Recorded(Enforce(s, n))) <= n
<1> DEFINE S == {x \in Store : Sound(x) /\ Fair(x, age)}
<1>1. s \in S
  BY DEF Sound
<1>2. ASSUME NEW x \in S
      PROVE  /\ EnforceTurn(x, n) \in S
             /\ Enforced(x, n) => EnforceTurn(x, n) = x
             /\ ~ Enforced(x, n) => EnforceTurn(x, n).len = x.len - 1
  <2>1. CASE Enforced(x, n)
    BY <2>1 DEF EnforceTurn
  <2>2. CASE ~ Enforced(x, n)
    <3> DEFINE e == x.prev[Root]
               L == Recorded(x)
    <3>1. PICK top, pos : Chain(x.next, x.prev, L, pos, top)
      BY Zenon DEF Fair, Lru
    <3>2. L \subseteq Entries /\ IsFiniteSet(L) /\ x.len = Cardinality(L)
      BY RecordedIsFinite DEF Fair
    <3>3. L # {}
      BY <2>2, <3>2, FS_EmptySet DEF Enforced
    <3>4. e # Root
      <4> HIDE DEF L
      <4> QED BY <3>1, <3>2, <3>3, BackIsIn
    <3>5. e \in L
      BY <3>1, <3>4 DEF Chain
    <3>6. EnforceTurn(x, n) = RemoveEntry(x, e)
      BY <2>2, <3>4, Zenon DEF EnforceTurn
    <3>7. e \in Entries /\ blob[e] \in Blobs /\ x.cache[blob[e]] = e
      BY <3>2, <3>5, RecordedFacts
    <3> HIDE DEF e
    <3>8. Fair(RemoveEntry(x, e), age) /\ Recorded(RemoveEntry(x, e)) = L \ {e}
      BY <3>5, <3>7, NoSuchBlob, RemoveFair
    <3>9. Sound(RemoveEntry(x, e))
      BY <3>7, RemoveSound
    <3>10. RemoveEntry(x, e).len = x.len - 1
      <4>1. RemoveEntry(x, e).len = Cardinality(L \ {e})
        BY <3>8 DEF Fair
      <4> HIDE DEF L
      <4> QED BY <4>1, <3>2, <3>5, FS_RemoveElement
    <3> QED BY <2>2, <3>6, <3>8, <3>9, <3>10 DEF Sound
  <2> QED BY <2>1, <2>2
<1>3. PICK f \in [0 .. MaxTurns -> S] :
         /\ f[0] = s
         /\ \A k \in 1 .. MaxTurns : f[k] = EnforceTurn(f[k - 1], n)
         /\ Enforce(s, n) = IF Enforced(s, n) THEN s
                            ELSE IF Enforced(f[MaxTurns], n) THEN f[MaxTurns]
                                 ELSE [f[MaxTurns] EXCEPT !.stuck = TRUE]
  <2> HIDE DEF S
  <2>1. EnforceThrough(S, s, n)
    BY <1>1, <1>2, EnforceIterates
  <2> QED BY <2>1, Zenon DEF EnforceThrough
<1>4. \A x \in S : /\ x.len = Cardinality(Recorded(x)) /\ x.len \in Nat
                   /\ x.len <= Cardinality(Entries)
  BY RecordedIsFinite DEF Fair
<1>5. MaxTurns \in Nat /\ Cardinality(Entries) \in Nat /\ Cardinality(Entries) <= MaxTurns
  BY TurnsAreNumbers, FiniteEntries, FS_CardinalityType DEF MaxTurns
<1>6. \A k \in 0 .. MaxTurns : f[k] \in S
  BY <1>3
<1> HIDE DEF S
<1>7. Enforced(f[MaxTurns], n)
  <2> DEFINE T == {k \in 0 .. MaxTurns : Enforced(f[k], n) \/ f[k].len <= MaxTurns - k}
  <2>1. 0 \in T
    BY <1>1, <1>3, <1>4, <1>5
  <2>2. ASSUME NEW k \in 1 .. MaxTurns, k - 1 \in T PROVE k \in T
    <3>1. k \in 0 .. MaxTurns /\ k - 1 \in 0 .. MaxTurns /\ f[k - 1] \in S
      BY <1>5, <1>6
    <3>2. f[k] = EnforceTurn(f[k - 1], n)
      BY <1>3
    <3>3. CASE Enforced(f[k - 1], n)
      BY <3>1, <3>2, <3>3, <1>2
    <3>4. CASE ~ Enforced(f[k - 1], n)
      <4>1. f[k].len = f[k - 1].len - 1 /\ f[k - 1].len <= MaxTurns - (k - 1)
        BY <3>1, <3>2, <3>4, <2>2, <1>2
      <4>2. f[k - 1].len \in Nat
        BY <3>1, <1>4
      <4>3. f[k].len <= MaxTurns - k
        BY <4>1, <4>2, <1>5
      <4> QED BY <3>1, <4>3
    <3> QED BY <3>3, <3>4
  <2>3. 0 .. MaxTurns \subseteq T
    <3> HIDE DEF T
    <3> QED BY <2>1, <2>2, <1>5, UpTo
  <2>4. MaxTurns \in T
    BY <2>3, <1>5
  <2>5. f[MaxTurns].len \in Nat
    BY <1>4, <1>5, <1>6
  <2>6. f[MaxTurns].len <= 0 => Enforced(f[MaxTurns], n)
    BY <2>5 DEF Enforced
  <2> QED BY <2>4, <2>6, <1>5
<1>8. PICK last \in S : Enforce(s, n) = last /\ Enforced(last, n)
  <2>1. MaxTurns \in 0 .. MaxTurns
    BY <1>5
  <2> QED BY <1>1, <1>3, <1>6, <1>7, <2>1
<1>9. last \in Store /\ Sound(last) /\ Fair(last, age)
  BY DEF S
<1>10. ASSUME n >= 0 PROVE Cardinality(Recorded(last)) <= n
  <2>1. CASE last.len = 0
    BY <2>1, <1>10, <1>9 DEF Fair
  <2>2. CASE Cardinality(CachedBlobs(last)) <= n
    <3>1. Cardinality(Recorded(last)) <= Cardinality(CachedBlobs(last))
      <4> DEFINE g == [e \in Recorded(last) |-> blob[e]]
      <4>1. g \in Injection(Recorded(last), CachedBlobs(last))
        <5>1. \A e \in Recorded(last) : blob[e] \in Blobs /\ last.cache[blob[e]] = e /\ e # Nil
          BY <1>9, RecordedFacts, RecordedIsFinite, NoSuchEntry
        <5>2. g \in [Recorded(last) -> CachedBlobs(last)]
          BY <5>1 DEF CachedBlobs
        <5>3. \A x, y \in Recorded(last) : g[x] = g[y] => x = y
          BY <5>1
        <5> QED BY <5>2, <5>3 DEF Injection, IsInjective
      <4> HIDE DEF g
      <4> QED BY <4>1, <1>9, RecordedIsFinite, FS_Injection
    <3>2. Cardinality(Recorded(last)) \in Nat /\ Cardinality(CachedBlobs(last)) \in Nat
      BY <1>9, RecordedIsFinite
    <3> QED BY <2>2, <3>1, <3>2
  <2> QED BY <2>1, <2>2, <1>8, <1>10 DEF Enforced
<1> QED BY <1>8, <1>9, <1>10

-----------------------------------------------------------------------------
\* The invariant.

Held == \A c \in Callers : holds[c] # Nil => blob[holds[c]] # Nil

Kept ==
  incidents = {} => /\ Fair(store, idle)
                    /\ limit >= 0 => Cardinality(Recorded(store)) <= limit

LEMMA StoreType ==
    ASSUME NEW s, Sound(s)
    PROVE  /\ s.cache \in [Blobs -> Entries \cup {Nil}]
           /\ \A b \in CachedBlobs(s) : blob[s.cache[b]] = b
           /\ s.node \in [Entries -> BOOLEAN]
           /\ s.next \in Links /\ s.prev \in Links
           /\ s.len \in Int /\ s.stuck \in BOOLEAN
BY DEF Sound, Store

\* TypeOK without the store.
RestOK ==
  /\ BlobType
  /\ decoded \in [Entries -> {"no", "ok", "bad"}]
  /\ idle \in [Entries -> {Never} \cup 0..MaxIdle]
  /\ limit \in (Limits \cap Nat) \cup {-1}
  /\ ttl \in TTLs \cup {0}
  /\ sweep \in Sweeps
  /\ janitor \in [alive : BOOLEAN, every : Sweeps \cup {0}, left : Nat]
  /\ stopping \in BOOLEAN
  /\ holds \in [Callers -> Entries \cup {Nil}]
  /\ changes \in 0..MaxChanges
  /\ incidents \subseteq {"displaced", "emptied"}

Inv1 == RestOK /\ Sound(store) /\ Held

LEMMA TypeParts == Sound(store) /\ RestOK => TypeOK
<1> SUFFICES ASSUME Sound(store), RestOK PROVE TypeOK
  OBVIOUS
<1>1. /\ store.cache \in [Blobs -> Entries \cup {Nil}]
      /\ \A b \in CachedBlobs(store) : blob[store.cache[b]] = b
      /\ store.node \in [Entries -> BOOLEAN]
      /\ store.next \in [Elements -> Elements \cup {Nil}]
      /\ store.prev \in [Elements -> Elements \cup {Nil}]
      /\ store.len \in Int /\ store.stuck \in BOOLEAN
  BY StoreType DEF Links
<1> QED BY <1>1, Zenon DEF RestOK, BlobType, TypeOK

LEMMA EmptyIsSound == ASSUME BlobType PROVE Sound(Empty)
<1>1. Empty \in Store
  BY DEF Empty, Store, Links, Elements
<1>2. CachedBlobs(Empty) = {}
  BY DEF Empty, CachedBlobs
<1> QED BY <1>1, <1>2, NoSuchEntry DEF Empty, Sound, Elements

LEMMA InitInv1 == Init => Inv1
<1> SUFFICES ASSUME Init PROVE Inv1
  OBVIOUS
<1>1. BlobType /\ store = Empty
  BY DEF Init, BlobType
<1>2. Sound(store)
  BY <1>1, EmptyIsSound
<1>3. RestOK
  <2>1. janitor \in [alive : BOOLEAN, every : Sweeps \cup {0}, left : Nat]
    BY DEF Init, Off
  <2>2. /\ decoded \in [Entries -> {"no", "ok", "bad"}]
        /\ idle \in [Entries -> {Never} \cup 0 .. MaxIdle]
        /\ holds \in [Callers -> Entries \cup {Nil}]
    BY DEF Init
  <2>3. /\ limit \in (Limits \cap Nat) \cup {-1} /\ ttl \in TTLs \cup {0} /\ sweep \in Sweeps
        /\ changes \in 0 .. MaxChanges /\ incidents \subseteq {"displaced", "emptied"}
    BY SweepValues, ChangesBound DEF Init
  <2>4. stopping \in BOOLEAN
    BY DEF Init
  <2> QED BY <1>1, <2>1, <2>2, <2>3, <2>4, Zenon DEF RestOK
<1>4. Held
  BY DEF Init, Held
<1> QED BY <1>2, <1>3, <1>4 DEF Inv1

\* What the operations on the store do when blob stays.
LEMMA SoundFrame ==
    ASSUME NEW s, Sound(s), store' = s, blob' = blob
    PROVE  Sound(store)'
BY DEF Sound

LEMMA GetInv1 ==
    ASSUME Inv1, NEW c \in Callers, NEW b \in Blobs, Get(c, b)
    PROVE  Inv1'
<1>1. CASE store.cache[b] # Nil
  <2>1. /\ holds' = [holds EXCEPT ![c] = store.cache[b]]
        /\ UNCHANGED <<store, entryVars, configVars, changes, incidents>>
    BY <1>1 DEF Get
  <2>2. store.cache[b] \in Entries /\ blob[store.cache[b]] = b
    BY <1>1, StoreType DEF Inv1, CachedBlobs
  <2>3. Sound(store)'
    BY <2>1, SoundFrame DEF Inv1, entryVars
  <2>4. RestOK'
    BY <2>1, <2>2 DEF Inv1, RestOK, BlobType, entryVars, configVars
  <2>5. Held'
    BY <2>1, <2>2, NoSuchBlob DEF Inv1, RestOK, Held, entryVars
  <2> QED BY <2>3, <2>4, <2>5 DEF Inv1
<1>2. CASE store.cache[b] = Nil
  <2> DEFINE e == CHOOSE x \in Entries \ Allocated : TRUE
  <2>1. /\ Allocated # Entries
        /\ holds' = [holds EXCEPT ![c] = e]
        /\ store' = [store EXCEPT !.cache[b] = e]
        /\ blob' = [blob EXCEPT ![e] = b]
        /\ UNCHANGED <<decoded, idle, configVars, changes, incidents>>
    BY <1>2 DEF Get
  <2>2. e \in Entries \ Allocated
    BY <2>1 DEF Allocated
  <2> HIDE DEF e
  <2>3. e \in Entries /\ blob[e] = Nil /\ blob \in [Entries -> Blobs \cup {Nil}] /\ store \in Store
    BY <2>2 DEF Allocated, Inv1, RestOK, BlobType, Sound
  <2>4. RestOK'
    BY <2>1, <2>3 DEF Inv1, RestOK, BlobType, configVars
  <2>5. Held'
    BY <2>1, <2>3, NoSuchBlob DEF Inv1, RestOK, Held
  <2>6. /\ store' \in Store /\ store'.cache = [store.cache EXCEPT ![b] = e]
        /\ store'.node = store.node /\ store'.next = store.next /\ store'.prev = store.prev
    BY <2>1, <2>3 DEF Store
  <2>7. ASSUME NEW x \in CachedBlobs(store') PROVE blob'[store'.cache[x]] = x
    <3>1. store.cache \in [Blobs -> Entries \cup {Nil}]
      BY <2>3 DEF Store
    <3>2. CASE x = b
      BY <2>1, <2>3, <2>6, <3>1, <3>2
    <3>3. CASE x # b
      <4>1. x \in CachedBlobs(store) /\ store'.cache[x] = store.cache[x]
        BY <2>6, <2>7, <3>1, <3>3 DEF CachedBlobs
      <4>2. blob[store.cache[x]] = x /\ store.cache[x] \in Entries
        BY <4>1, <3>1 DEF Inv1, Sound, CachedBlobs
      <4>3. x # Nil
        BY <4>1, NoSuchBlob DEF CachedBlobs
      <4> QED BY <4>1, <4>2, <4>3, <2>1, <2>3
    <3> QED BY <3>2, <3>3
  <2>8. \A x \in Entries : blob[x] # Nil => blob'[x] # Nil
    BY <2>1, <2>3
  <2>9. Sound(store)'
    BY <2>6, <2>7, <2>8 DEF Inv1, Sound
  <2> QED BY <2>4, <2>5, <2>9 DEF Inv1
<1> QED BY <1>1, <1>2

LEMMA RecordUseInv1 ==
    ASSUME Inv1, NEW c \in Callers, RecordUse(c)
    PROVE  Inv1'
<1> DEFINE e == holds[c]
<1>1. /\ e \in Entries /\ blob[e] # Nil /\ BlobType /\ Sound(store)
      /\ idle \in [Entries -> {Never} \cup 0 .. MaxIdle]
      /\ holds \in [Callers -> Entries \cup {Nil}]
  BY DEF RecordUse, Inv1, RestOK, Held
<1>2. /\ idle' = [idle EXCEPT ![e] = 0]
      /\ store' = IF limit = 0
                    THEN RemoveEntry(store, e)
                    ELSE LET s == Enforce(Touch(store, e), limit)
                         IN IF s.stuck THEN s ELSE EvictIdle(s, ttl, idle')
      /\ holds' = [holds EXCEPT ![c] = Nil]
      /\ incidents' = incidents \cup Met(e)
      /\ UNCHANGED <<blob, decoded, configVars, changes>>
  BY DEF RecordUse
<1> HIDE DEF e
<1>3. Sound(RemoveEntry(store, e))
  BY <1>1, RemoveSound
<1>4. Sound(Enforce(Touch(store, e), limit))
  <2>1. limit \in Int
    BY DEF Inv1, RestOK
  <2>2. Sound(Touch(store, e))
    BY <1>1, TouchSound
  <2> QED BY <1>1, <2>1, <2>2, EnforceSound
<1>5. Sound(EvictIdle(Enforce(Touch(store, e), limit), ttl, idle'))
  BY <1>1, <1>4, EvictSound
<1>6. PICK s : store' = s /\ Sound(s)
  BY <1>2, <1>3, <1>4, <1>5
<1>7. Sound(store)'
  BY <1>2, <1>6, SoundFrame
<1>8. RestOK'
  <2>1. idle' \in [Entries -> {Never} \cup 0 .. MaxIdle]
    BY <1>1, <1>2, TTLsAreTold
  <2>2. Met(e) \subseteq {"displaced", "emptied"}
    BY DEF Met
  <2>3. holds' \in [Callers -> Entries \cup {Nil}]
    BY <1>1, <1>2
  <2> QED BY <1>2, <2>1, <2>2, <2>3 DEF Inv1, RestOK, BlobType, configVars
<1>9. Held'
  BY <1>1, <1>2 DEF Inv1, Held
<1> QED BY <1>7, <1>8, <1>9 DEF Inv1

LEMMA ConfigureInv1 ==
    ASSUME Inv1, Configure
    PROVE  Inv1'
<1>1. /\ BlobType /\ Sound(store) /\ changes \in 0 .. MaxChanges
      /\ janitor \in [alive : BOOLEAN, every : Sweeps \cup {0}, left : Nat]
      /\ Held /\ RestOK
  BY DEF Inv1, RestOK
<1>2. ASSUME NEW s, Sound(s), store' = s, UNCHANGED <<blob, holds>>
      PROVE  Sound(store)' /\ Held'
  BY <1>1, <1>2, SoundFrame DEF Held
<1>3. ASSUME Change, limit' \in (Limits \cap Nat) \cup {-1}, ttl' \in TTLs \cup {0},
             sweep' \in Sweeps, stopping' \in BOOLEAN,
             janitor' \in [alive : BOOLEAN, every : Sweeps \cup {0}, left : Nat]
      PROVE  RestOK' /\ UNCHANGED <<blob, holds>>
  <2>1. changes' \in 0 .. MaxChanges
    BY <1>1, <1>3, ChangesBound DEF Change
  <2> QED BY <1>1, <1>3, <2>1 DEF Change, RestOK, BlobType, entryVars
<1>4. ASSUME NEW every \in Sweeps
      PROVE  NewJanitor(every) \in [alive : BOOLEAN, every : Sweeps \cup {0}, left : Nat]
  BY SweepValues DEF NewJanitor
<1>5. Off \in [alive : BOOLEAN, every : Sweeps \cup {0}, left : Nat]
  BY DEF Off
<1>6. ASSUME NEW n \in Limits, SetLimit(n) PROVE Inv1'
  <2>1. /\ Change /\ limit' = (IF n < 0 THEN -1 ELSE n)
        /\ UNCHANGED <<ttl, sweep, janitor, stopping>>
    BY <1>6 DEF SetLimit
  <2>2. RestOK' /\ UNCHANGED <<blob, holds>>
    <3>1. limit' \in (Limits \cap Nat) \cup {-1}
      BY <2>1, LimitValues
    <3> QED BY <1>1, <1>3, <2>1, <3>1 DEF RestOK
  <2>3. Sound(Enforce(store, n)) /\ Sound(EvictIdle(Enforce(store, n), ttl, idle))
    BY <1>1, LimitValues, EnforceSound, EvictSound
  <2>4. PICK s : store' = s /\ Sound(s)
    BY <1>1, <1>6, <2>3 DEF SetLimit
  <2> QED BY <2>2, <2>4, <1>2 DEF Inv1
<1>7. ASSUME NEW b \in Blobs, Unload(b) PROVE Inv1'
  <2>1. store.cache[b] \in Entries
    BY <1>1, <1>7, StoreType DEF Unload
  <2>2. Sound(RemoveEntry(store, store.cache[b]))
    BY <1>1, <2>1, RemoveSound
  <2>3. RestOK' /\ UNCHANGED <<blob, holds>>
    BY <1>1, <1>3, <1>7 DEF Unload, RestOK, configVars
  <2> QED BY <1>2, <1>7, <2>2, <2>3 DEF Unload, Inv1
<1>8. ASSUME Purge PROVE Inv1'
  <2> DEFINE s == [ListInit(store) EXCEPT !.cache = [b \in Blobs |-> Nil]]
  <2>1. store' = s
    BY <1>8 DEF Purge
  <2>2. store \in Store
    BY <1>1 DEF Sound
  <2>3. /\ s \in Store /\ s.cache = [b \in Blobs |-> Nil] /\ s.node = store.node
        /\ s.next = [store.next EXCEPT ![Root] = Root]
        /\ s.prev = [store.prev EXCEPT ![Root] = Root]
    <3> DEFINE none == [b \in Blobs |-> Nil]
               next == [store.next EXCEPT ![Root] = Root]
               prev == [store.prev EXCEPT ![Root] = Root]
    <3>1. s = [store EXCEPT !.next = next, !.prev = prev, !.len = 0, !.cache = none]
      BY DEF ListInit
    <3>2. none \in [Blobs -> Entries \cup {Nil}] /\ next \in Links /\ prev \in Links
      BY <2>2 DEF Store, Links, Elements
    <3> HIDE DEF none, next, prev, s
    <3>3. s = [cache |-> none, node |-> store.node, next |-> next, prev |-> prev,
               len |-> 0, stuck |-> store.stuck]
      BY <3>1, <2>2 DEF Store
    <3>4. /\ s \in Store /\ s.cache = none /\ s.node = store.node
          /\ s.next = next /\ s.prev = prev
      BY <2>2, <3>2, <3>3 DEF Store
    <3> QED BY <3>4 DEF none, next, prev
  <2> HIDE DEF s
  <2>4. CachedBlobs(s) = {}
    BY <2>3 DEF CachedBlobs
  <2>5. store.next \in Links /\ store.prev \in Links
    BY <2>2 DEF Store
  <2>6. s.next[Root] = Root /\ s.prev[Root] = Root
        /\ \A x \in Entries : s.next[x] = store.next[x] /\ s.prev[x] = store.prev[x]
    BY <2>3, <2>5, NoSuchEntry DEF Links, Elements
  <2>7. Sound(s)
    BY <1>1, <2>3, <2>4, <2>6 DEF Sound, Elements
  <2>8. RestOK' /\ UNCHANGED <<blob, holds>>
    BY <1>1, <1>3, <1>8 DEF Purge, RestOK, configVars
  <2> QED BY <1>2, <2>1, <2>7, <2>8 DEF Inv1
<1>9. ASSUME NEW d \in TTLs, SetIdleTTL(d) PROVE Inv1'
  <2>1. Sound(EvictIdle(store, d, idle))
    BY <1>1, EvictSound
  <2>2. RestOK' /\ UNCHANGED <<blob, holds>>
    <3>1. janitor' \in [alive : BOOLEAN, every : Sweeps \cup {0}, left : Nat]
      BY <1>1, <1>4, <1>5, <1>9 DEF SetIdleTTL, RestOK
    <3>2. stopping' \in BOOLEAN
      BY <1>9 DEF SetIdleTTL
    <3> QED BY <1>1, <1>3, <1>9, <3>1, <3>2 DEF SetIdleTTL, RestOK
  <2> QED BY <1>2, <1>9, <2>1, <2>2 DEF SetIdleTTL, Inv1
<1>10. ASSUME NEW n \in Sweeps, SetSweep(n) PROVE Inv1'
  <2>1. RestOK' /\ UNCHANGED <<blob, holds>>
    <3>1. janitor' \in [alive : BOOLEAN, every : Sweeps \cup {0}, left : Nat]
      BY <1>1, <1>4, <1>5, <1>10 DEF SetSweep
    <3>2. stopping' \in BOOLEAN
      BY <1>10 DEF SetSweep
    <3> QED BY <1>1, <1>3, <1>10, <3>1, <3>2 DEF SetSweep, RestOK
  <2> QED BY <1>1, <1>2, <1>10, <2>1 DEF SetSweep, Inv1
<1> QED BY <1>6, <1>7, <1>8, <1>9, <1>10 DEF Configure

LEMMA CollectInv1 ==
    ASSUME Inv1, NEW e \in Entries, Collect(e)
    PROVE  Inv1'
<1>1. /\ BlobType /\ Sound(store) /\ store \in Store /\ Held /\ RestOK
      /\ store.cache \in [Blobs -> Entries \cup {Nil}]
  BY StoreType DEF Inv1, RestOK, Sound
<1>2. /\ e \notin Cached(store) /\ \A c \in Callers : holds[c] # e
      /\ blob' = [blob EXCEPT ![e] = Nil]
      /\ decoded' = [decoded EXCEPT ![e] = "no"]
      /\ idle' = [idle EXCEPT ![e] = Never]
      /\ store' = [store EXCEPT !.node[e] = FALSE, !.next[e] = Nil, !.prev[e] = Nil]
      /\ UNCHANGED <<configVars, holds, changes, incidents>>
  BY DEF Collect
<1>3. RestOK'
  BY <1>1, <1>2 DEF RestOK, BlobType, configVars
<1>4. Held'
  BY <1>1, <1>2 DEF Held, RestOK, BlobType
<1>5. /\ store' \in Store /\ store'.cache = store.cache
      /\ store'.node = [store.node EXCEPT ![e] = FALSE]
      /\ store'.next = [store.next EXCEPT ![e] = Nil]
      /\ store'.prev = [store.prev EXCEPT ![e] = Nil]
  <2> DEFINE node == [store.node EXCEPT ![e] = FALSE]
             next == [store.next EXCEPT ![e] = Nil]
             prev == [store.prev EXCEPT ![e] = Nil]
  <2>1. store' = [store EXCEPT !.node = node, !.next = next, !.prev = prev]
    BY <1>2
  <2>2. node \in [Entries -> BOOLEAN] /\ next \in Links /\ prev \in Links
    BY <1>1 DEF Store, Links
  <2> HIDE DEF node, next, prev
  <2>3. store' = [cache |-> store.cache, node |-> node, next |-> next, prev |-> prev,
                  len |-> store.len, stuck |-> store.stuck]
    BY <1>1, <2>1 DEF Store
  <2>4. /\ store' \in Store /\ store'.cache = store.cache /\ store'.node = node
        /\ store'.next = next /\ store'.prev = prev
    BY <1>1, <2>2, <2>3 DEF Store
  <2> QED BY <2>4 DEF node, next, prev
<1>6. ASSUME NEW b \in CachedBlobs(store') PROVE blob'[store'.cache[b]] = b
  <2>1. b \in CachedBlobs(store) /\ store'.cache[b] = store.cache[b]
    BY <1>5, <1>6 DEF CachedBlobs
  <2>2. store.cache[b] \in Entries /\ store.cache[b] # e
    BY <1>1, <1>2, <2>1 DEF Cached, CachedBlobs
  <2>3. blob[store.cache[b]] = b
    BY <1>1, <2>1 DEF Sound
  <2> QED BY <1>1, <1>2, <2>1, <2>2, <2>3 DEF BlobType
<1>7. /\ store.node \in [Entries -> BOOLEAN] /\ store.next \in Links /\ store.prev \in Links
      /\ Root # e
  BY <1>1, NoSuchEntry DEF Store
<1>8. store'.next[Root] \in Elements /\ store'.prev[Root] \in Elements
  BY <1>1, <1>5, <1>7 DEF Sound, Links, Elements
<1>9. ASSUME NEW x \in Entries, store'.node[x]
      PROVE  blob'[x] # Nil /\ store'.next[x] \in Elements /\ store'.prev[x] \in Elements
  <2>1. x # e /\ store.node[x]
    BY <1>5, <1>7, <1>9
  <2> QED BY <1>1, <1>2, <1>5, <1>7, <2>1 DEF Sound, Links, Elements, BlobType
<1>10. Sound(store)'
  BY <1>5, <1>6, <1>8, <1>9 DEF Sound
<1> QED BY <1>3, <1>4, <1>10 DEF Inv1

LEMMA Inv1Step == Inv1 /\ [Next]_vars => Inv1'
<1> SUFFICES ASSUME Inv1, [Next]_vars PROVE Inv1'
  OBVIOUS
<1>1. /\ BlobType /\ Sound(store) /\ Held /\ RestOK
      /\ janitor \in [alive : BOOLEAN, every : Sweeps \cup {0}, left : Nat]
  BY DEF Inv1, RestOK
<1>2. ASSUME NEW s, Sound(s), store' = s, UNCHANGED <<blob, holds>>, RestOK'
      PROVE  Inv1'
  BY <1>1, <1>2, SoundFrame DEF Held, Inv1
<1>3. ASSUME NEW c \in Callers, Decode(c) PROVE Inv1'
  <2>1. RestOK'
    BY <1>1, <1>3 DEF Decode, RestOK, BlobType, configVars
  <2> QED BY <1>1, <1>2, <1>3, <2>1 DEF Decode
<1>4. ASSUME NEW c \in Callers, Fail(c) PROVE Inv1'
  <2>1. RestOK'
    BY <1>1, <1>4 DEF Fail, RestOK, BlobType, configVars, entryVars
  <2>2. Held'
    BY <1>1, <1>4 DEF Fail, RestOK, Held, entryVars
  <2>3. Sound(store)'
    BY <1>1, <1>4, SoundFrame DEF Fail, entryVars
  <2> QED BY <2>1, <2>2, <2>3 DEF Inv1
<1>5. ASSUME JanitorSweep PROVE Inv1'
  <2>1. janitor' \in [alive : BOOLEAN, every : Sweeps \cup {0}, left : Nat]
    BY <1>1, <1>5, SweepValues DEF JanitorSweep
  <2>2. RestOK'
    BY <1>1, <1>5, <2>1 DEF JanitorSweep, RestOK, BlobType, entryVars
  <2>3. Sound(EvictIdle(store, ttl, idle))
    BY <1>1, EvictSound
  <2> QED BY <1>2, <1>5, <2>2, <2>3 DEF JanitorSweep, entryVars
<1>6. ASSUME LateSweep PROVE Inv1'
  <2>1. RestOK'
    BY <1>1, <1>6 DEF LateSweep, RestOK, BlobType, entryVars, configVars
  <2>2. Sound(EvictIdle(store, ttl, idle))
    BY <1>1, EvictSound
  <2> QED BY <1>2, <1>6, <2>1, <2>2 DEF LateSweep, entryVars
<1>7. ASSUME JanitorExit PROVE Inv1'
  <2>1. RestOK'
    BY <1>1, <1>7 DEF JanitorExit, RestOK, BlobType, entryVars
  <2> QED BY <1>1, <1>2, <1>7, <2>1 DEF JanitorExit, entryVars
<1>8. ASSUME Tick PROVE Inv1'
  <2>1. janitor' \in [alive : BOOLEAN, every : Sweeps \cup {0}, left : Nat]
    BY <1>1, <1>8 DEF Tick
  <2>2. idle' \in [Entries -> {Never} \cup 0 .. MaxIdle]
    BY <1>1, <1>8, TTLsAreTold DEF Tick, RestOK
  <2>3. RestOK'
    BY <1>1, <1>8, <2>1, <2>2 DEF Tick, RestOK, BlobType
  <2> QED BY <1>1, <1>2, <1>8, <2>3 DEF Tick
<1>9. CASE UNCHANGED vars
  <2>1. RestOK'
    BY <1>1, <1>9 DEF vars, RestOK, BlobType
  <2> QED BY <1>1, <1>2, <1>9, <2>1 DEF vars
<1> QED
  BY <1>3, <1>4, <1>5, <1>6, <1>7, <1>8, <1>9, GetInv1, RecordUseInv1, ConfigureInv1, CollectInv1
  DEF Next, Load

-----------------------------------------------------------------------------
\* The list and the limit.

LEMMA LruFrame ==
    ASSUME NEW L, L \subseteq Entries, NEW next, NEW prev, NEW age, Lru(next, prev, L, age),
           NEW next2, NEW prev2, NEW age2,
           \A x \in L \cup {Root} : next2[x] = next[x] /\ prev2[x] = prev[x],
           \A x \in L : age2[x] = age[x]
    PROVE  Lru(next2, prev2, L, age2)
<1>1. PICK top, pos : Chain(next, prev, L, pos, top)
  BY Zenon DEF Lru
<1>2. Aged(next, L, age)
  BY DEF Lru
<1>3. \A x \in L \cup {Root} : next[x] \in L \cup {Root} /\ prev[x] \in L \cup {Root}
  BY <1>1 DEF Chain
<1>4. Chain(next2, prev2, L, pos, top)
  BY <1>1, <1>3 DEF Chain
<1>5. Aged(next2, L, age2)
  <2>1. ASSUME NEW x \in L
        PROVE  age2[x] >= 0 /\ (next2[x] # Root => age2[x] <= age2[next2[x]])
    BY <1>2, <1>3 DEF Aged
  <2> QED BY <2>1 DEF Aged
<1> QED BY <1>4, <1>5 DEF Lru

\* A store whose map and list are those of s.
LEMMA FairFrame ==
    ASSUME NEW s \in Store, NEW t, NEW age, NEW age2, Fair(s, age),
           Recorded(t) = Recorded(s), t.len = s.len, t.stuck = s.stuck,
           \A x \in Recorded(s) \cup {Root} : t.next[x] = s.next[x] /\ t.prev[x] = s.prev[x],
           \A x \in Recorded(s) : age2[x] = age[x]
    PROVE  Fair(t, age2)
<1> DEFINE L == Recorded(s)
<1>1. L \subseteq Entries /\ Lru(s.next, s.prev, L, age)
  BY RecordedIsFinite DEF Fair
<1>2. Lru(t.next, t.prev, L, age2)
  <2> HIDE DEF L
  <2>1. /\ \A x \in L \cup {Root} : t.next[x] = s.next[x] /\ t.prev[x] = s.prev[x]
        /\ \A x \in L : age2[x] = age[x]
    BY DEF L
  <2> QED BY <1>1, <2>1, LruFrame
<1> QED BY <1>2 DEF Fair

LEMMA FairAges ==
    ASSUME NEW s \in Store, NEW age, NEW age2, Fair(s, age),
           \A x \in Recorded(s) : age2[x] = age[x]
    PROVE  Fair(s, age2)
<1>1. Lru(s.next, s.prev, Recorded(s), age) /\ Recorded(s) \subseteq Entries
  BY RecordedIsFinite DEF Fair
<1>2. Lru(s.next, s.prev, Recorded(s), age2)
  BY <1>1, LruFrame
<1> QED BY <1>2 DEF Fair

LEMMA FewerRecorded ==
    ASSUME NEW s \in Store, NEW t, NEW n \in Int,
           Recorded(t) \subseteq Recorded(s), Cardinality(Recorded(s)) <= n
    PROVE  Cardinality(Recorded(t)) <= n
<1>1. IsFiniteSet(Recorded(s)) /\ Cardinality(Recorded(s)) \in Nat
  BY RecordedIsFinite
<1>2. IsFiniteSet(Recorded(t)) /\ Cardinality(Recorded(t)) <= Cardinality(Recorded(s))
  BY <1>1, FS_Subset
<1>3. Cardinality(Recorded(t)) \in Nat
  BY <1>2, FS_CardinalityType
<1> QED BY <1>1, <1>2, <1>3

LEMMA InitKept == Init => Kept
<1> SUFFICES ASSUME Init PROVE Kept
  OBVIOUS
<1> DEFINE pos == [e \in Entries |-> 0]
<1>1. Recorded(Empty) = {}
  BY DEF Recorded, Cached, CachedBlobs, Empty
<1>2. Empty.next[Root] = Root /\ Empty.prev[Root] = Root
  BY DEF Empty, Elements
<1>3. Chain(Empty.next, Empty.prev, {}, pos, 0) /\ Aged(Empty.next, {}, idle)
  BY <1>2 DEF Chain, Aged
<1>4. Lru(Empty.next, Empty.prev, {}, idle)
  BY <1>3 DEF Lru
<1>5. Empty.len = 0 /\ ~ Empty.stuck
  BY DEF Empty
<1>6. Fair(Empty, idle)
  BY <1>1, <1>4, <1>5, FS_EmptySet DEF Fair
<1> QED BY <1>6 DEF Init, Kept

\* Evicting after a change that has left the list as it should be.
LEMMA EvictAfter ==
    ASSUME BlobType, NEW s, Sound(s), NEW d, NEW age \in [Entries -> Int], Fair(s, age),
           NEW n \in Int, n >= 0 => Cardinality(Recorded(s)) <= n
    PROVE  /\ Fair(EvictIdle(s, d, age), age)
           /\ n >= 0 => Cardinality(Recorded(EvictIdle(s, d, age))) <= n
<1>1. s \in Store
  BY DEF Sound
<1> QED BY <1>1, EvictFair, FewerRecorded

LEMMA EnforceThenEvict ==
    ASSUME BlobType, NEW s, Sound(s), NEW d, NEW age \in [Entries -> Int], Fair(s, age),
           NEW n \in Int,
           NEW t, t = LET u == Enforce(s, n) IN IF u.stuck THEN u ELSE EvictIdle(u, d, age)
    PROVE  /\ Fair(t, age)
           /\ n >= 0 => Cardinality(Recorded(t)) <= n
<1> DEFINE u == Enforce(s, n)
<1>1. Sound(u) /\ Fair(u, age) /\ (n >= 0 => Cardinality(Recorded(u)) <= n)
  BY EnforceSound, EnforceFair
<1>2. t = EvictIdle(u, d, age)
  BY <1>1 DEF Fair
<1> HIDE DEF u
<1> QED BY <1>1, <1>2, EvictAfter

LEMMA MetNothing ==
    ASSUME Inv1, Kept, incidents = {}, NEW e \in Entries, Met(e) = {}
    PROVE  /\ store.cache[blob[e]] \in {e, Nil}
           /\ store.node[e] => e \in Recorded(store)
<1>1. store.cache[blob[e]] \in {e, Nil} /\ (store.node[e] => e \in Linked(store))
  BY DEF Met
<1>2. Lru(store.next, store.prev, Recorded(store), idle) /\ Recorded(store) \subseteq Entries
  BY RecordedIsFinite DEF Kept, Fair, Inv1, Sound
<1>3. Linked(store) = Recorded(store)
  <2>1. PICK top, pos : Chain(store.next, store.prev, Recorded(store), pos, top)
    BY <1>2, Zenon DEF Lru
  <2> QED BY <1>2, <2>1, LinkedIsTheList
<1> QED BY <1>1, <1>3

LEMMA GetKept ==
    ASSUME Inv1, Kept, NEW c \in Callers, NEW b \in Blobs, Get(c, b)
    PROVE  Kept'
<1>1. CASE store.cache[b] # Nil
  BY <1>1 DEF Get, Kept, entryVars, configVars
<1>2. CASE store.cache[b] = Nil
  <2> DEFINE e == CHOOSE x \in Entries \ Allocated : TRUE
  <2>1. /\ Allocated # Entries
        /\ store' = [store EXCEPT !.cache[b] = e]
        /\ UNCHANGED <<idle, limit, incidents>>
    BY <1>2 DEF Get, configVars
  <2>2. e \in Entries \ Allocated
    BY <2>1 DEF Allocated
  <2> HIDE DEF e
  <2>3. e \in Entries /\ blob[e] = Nil /\ store \in Store /\ ~ store.node[e]
    BY <2>2 DEF Allocated, Inv1, Sound
  <2>4. /\ store'.cache = [store.cache EXCEPT ![b] = e] /\ store'.node = store.node
        /\ store'.next = store.next /\ store'.prev = store.prev
        /\ store'.len = store.len /\ store'.stuck = store.stuck
    BY <2>1, <2>3 DEF Store
  <2>5. store.cache \in [Blobs -> Entries \cup {Nil}]
    BY <2>3 DEF Store
  <2>6. Cached(store') = Cached(store) \cup {e}
    <3>1. \A x \in Blobs : store'.cache[x] = IF x = b THEN e ELSE store.cache[x]
      BY <2>4, <2>5
    <3>2. CachedBlobs(store') = CachedBlobs(store) \cup {b} /\ b \notin CachedBlobs(store)
      BY <3>1, <2>3, <1>2, NoSuchEntry DEF CachedBlobs
    <3>3. \A x \in CachedBlobs(store) : x \in Blobs /\ store'.cache[x] = store.cache[x]
      BY <3>1, <3>2 DEF CachedBlobs
    <3> QED BY <3>1, <3>2, <3>3 DEF Cached
  <2>7. Recorded(store') = Recorded(store)
    BY <2>3, <2>4, <2>6 DEF Recorded
  <2>8. ASSUME Fair(store, idle) PROVE Fair(store', idle')
    <3> DEFINE t == store'
    <3>1. /\ Recorded(t) = Recorded(store) /\ t.len = store.len /\ t.stuck = store.stuck
          /\ \A x \in Recorded(store) \cup {Root} : t.next[x] = store.next[x] /\ t.prev[x] = store.prev[x]
      BY <2>4, <2>7
    <3> HIDE DEF t
    <3>2. Fair(t, idle)
      BY <2>3, <2>8, <3>1, FairFrame
    <3> QED BY <2>1, <3>2 DEF t
  <2> QED BY <2>1, <2>7, <2>8 DEF Kept
<1> QED BY <1>1, <1>2

LEMMA RecordUseKept ==
    ASSUME Inv1, Kept, NEW c \in Callers, RecordUse(c)
    PROVE  Kept'
<1> SUFFICES ASSUME incidents' = {}
             PROVE  Fair(store', idle') /\ (limit' >= 0 => Cardinality(Recorded(store')) <= limit')
  BY DEF Kept
<1> DEFINE e == holds[c]
<1>1. /\ e \in Entries /\ blob[e] # Nil /\ BlobType /\ Sound(store) /\ store \in Store
      /\ idle \in [Entries -> Int] /\ limit \in Int
  BY TTLsAreTold DEF RecordUse, Inv1, RestOK, Held, Sound, Never
<1>2. /\ idle' = [idle EXCEPT ![e] = 0]
      /\ store' = IF limit = 0
                    THEN RemoveEntry(store, e)
                    ELSE LET s == Enforce(Touch(store, e), limit)
                         IN IF s.stuck THEN s ELSE EvictIdle(s, ttl, idle')
      /\ incidents' = incidents \cup Met(e)
      /\ limit' = limit
  BY DEF RecordUse, configVars
<1> HIDE DEF e
<1>3. incidents = {} /\ Met(e) = {}
  BY <1>2
<1>4. store.cache[blob[e]] \in {e, Nil} /\ (store.node[e] => e \in Recorded(store))
  BY <1>1, <1>3, MetNothing
<1>5. Fair(store, idle) /\ (limit >= 0 => Cardinality(Recorded(store)) <= limit)
  BY <1>3 DEF Kept
<1>6. /\ idle' \in [Entries -> Int] /\ idle'[e] = 0
      /\ \A x \in Entries \ {e} : idle'[x] = idle[x]
  BY <1>1, <1>2
<1>7. CASE limit = 0
  <2> DEFINE r == RemoveEntry(store, e)
  <2>1. store' = r
    BY <1>2, <1>7
  <2>2. Fair(r, idle) /\ Recorded(r) = Recorded(store) \ {e}
    BY <1>1, <1>4, <1>5, RemoveFair
  <2>3. r \in Store
    BY <1>1, RemoveSound DEF Sound
  <2> HIDE DEF r
  <2>4. \A x \in Recorded(r) : idle'[x] = idle[x]
    BY <1>1, <1>6, <2>2, RecordedIsFinite
  <2>5. Fair(r, idle')
    BY <2>2, <2>3, <2>4, FairAges
  <2>6. Cardinality(Recorded(r)) <= limit
    <3>1. Cardinality(Recorded(store)) <= limit /\ Recorded(r) \subseteq Recorded(store)
      BY <1>5, <1>7, <2>2
    <3> QED BY <1>1, <3>1, FewerRecorded
  <2> QED BY <1>2, <1>7, <2>1, <2>5, <2>6
<1>8. CASE limit # 0
  <2>1. Sound(Touch(store, e)) /\ Fair(Touch(store, e), idle')
    BY <1>1, <1>4, <1>5, <1>6, TouchSound, TouchFair
  <2>2. store' = LET s == Enforce(Touch(store, e), limit)
                 IN IF s.stuck THEN s ELSE EvictIdle(s, ttl, idle')
    BY <1>2, <1>8
  <2> QED BY <1>1, <1>2, <1>6, <2>1, <2>2, EnforceThenEvict
<1> QED BY <1>7, <1>8

\* What a step that leaves the ages and the history alone has to show.
LEMMA KeptFrame ==
    ASSUME UNCHANGED <<idle, incidents>>, NEW s, store' = s,
           incidents = {} => /\ Fair(s, idle)
                             /\ limit' >= 0 => Cardinality(Recorded(s)) <= limit'
    PROVE  Kept'
BY DEF Kept

LEMMA SweepKept ==
    ASSUME Inv1, Kept, NEW d, store' = EvictIdle(store, d, idle),
           UNCHANGED <<idle, incidents, limit>>
    PROVE  Kept'
<1> SUFFICES ASSUME incidents = {}
             PROVE  LET s == EvictIdle(store, d, idle) IN
                    Fair(s, idle) /\ (limit >= 0 => Cardinality(Recorded(s)) <= limit)
  BY KeptFrame
<1>1. /\ BlobType /\ Sound(store) /\ idle \in [Entries -> Int] /\ limit \in Int
  BY TTLsAreTold DEF Inv1, RestOK, Never
<1>2. Fair(store, idle) /\ (limit >= 0 => Cardinality(Recorded(store)) <= limit)
  BY DEF Kept
<1> QED BY <1>1, <1>2, EvictAfter

LEMMA ConfigureKept ==
    ASSUME Inv1, Kept, Configure
    PROVE  Kept'
<1>1. /\ BlobType /\ Sound(store) /\ store \in Store /\ idle \in [Entries -> Int] /\ limit \in Int
  BY TTLsAreTold DEF Inv1, RestOK, Sound, Never
<1>2. UNCHANGED <<idle, incidents>>
  BY DEF Configure, Change, SetLimit, Unload, Purge, SetIdleTTL, SetSweep, entryVars
<1>3. incidents = {} => /\ Fair(store, idle)
                        /\ limit >= 0 => Cardinality(Recorded(store)) <= limit
  BY DEF Kept
<1>4. ASSUME NEW n \in Limits, SetLimit(n) PROVE Kept'
  <2>1. n \in Int
    BY LimitValues
  <2>2. CASE n < 0
    <3>1. store' = store /\ limit' = -1
      BY <1>4, <2>2 DEF SetLimit
    <3> QED BY <1>2, <1>3, <3>1, KeptFrame
  <2>3. CASE ~ (n < 0)
    <3>1. /\ store' = LET u == Enforce(store, n) IN IF u.stuck THEN u ELSE EvictIdle(u, ttl, idle)
          /\ limit' = n
      BY <1>4, <2>3 DEF SetLimit
    <3>2. incidents = {} => /\ Fair(store', idle)
                            /\ n >= 0 => Cardinality(Recorded(store')) <= n
      BY <1>1, <1>3, <2>1, <3>1, EnforceThenEvict
    <3> QED BY <1>2, <3>1, <3>2, KeptFrame
  <2> QED BY <2>2, <2>3
<1>5. ASSUME NEW b \in Blobs, Unload(b) PROVE Kept'
  <2> DEFINE e == store.cache[b]
             r == RemoveEntry(store, e)
  <2>1. store' = r /\ limit' = limit /\ e # Nil
    BY <1>5 DEF Unload, configVars
  <2>2. e \in Entries /\ blob[e] = b
    BY <1>1, <2>1, StoreType DEF CachedBlobs
  <2>3. e \in Cached(store)
    BY <2>1 DEF Cached, CachedBlobs
  <2>4. store.node[e] => e \in Recorded(store)
    BY <2>3 DEF Recorded
  <2>5. blob[e] # Nil /\ store.cache[blob[e]] \in {e, Nil}
    BY <2>2, NoSuchBlob
  <2> HIDE DEF e
  <2>6. incidents = {} => Fair(r, idle) /\ Recorded(r) = Recorded(store) \ {e}
    BY <1>1, <1>3, <2>2, <2>4, <2>5, RemoveFair
  <2> HIDE DEF r
  <2>7. incidents = {} /\ limit >= 0 => Cardinality(Recorded(r)) <= limit
    <3>1. incidents = {} => Recorded(r) \subseteq Recorded(store)
      BY <2>6
    <3> QED BY <1>1, <1>3, <3>1, FewerRecorded
  <2> QED BY <1>2, <2>1, <2>6, <2>7, KeptFrame
<1>6. ASSUME Purge PROVE Kept'
  <2> DEFINE pos == [e \in Entries |-> 0]
  <2>1. store' = [ListInit(store) EXCEPT !.cache = [b \in Blobs |-> Nil]] /\ limit' = limit
    BY <1>6 DEF Purge, configVars
  <2>2. /\ store'.cache = [b \in Blobs |-> Nil] /\ store'.stuck = store.stuck /\ store'.len = 0
        /\ store'.next[Root] = Root /\ store'.prev[Root] = Root
    BY <1>1, <2>1 DEF ListInit, Store, Links, Elements
  <2>3. Recorded(store') = {}
    BY <2>2 DEF Recorded, Cached, CachedBlobs
  <2>4. Chain(store'.next, store'.prev, {}, pos, 0) /\ Aged(store'.next, {}, idle)
    BY <2>2 DEF Chain, Aged
  <2>5. Lru(store'.next, store'.prev, {}, idle)
    BY <2>4 DEF Lru
  <2>6. incidents = {} => Fair(store', idle)
    BY <1>3, <2>2, <2>3, <2>5, FS_EmptySet DEF Fair
  <2>7. limit >= 0 => Cardinality(Recorded(store')) <= limit
    BY <1>1, <2>3, FS_EmptySet
  <2> QED BY <1>2, <2>1, <2>6, <2>7, KeptFrame
<1>7. ASSUME NEW d \in TTLs, SetIdleTTL(d) PROVE Kept'
  <2>1. store' = EvictIdle(store, d, idle) /\ limit' = limit
    BY <1>7 DEF SetIdleTTL
  <2> QED BY <1>2, <2>1, SweepKept
<1>8. ASSUME NEW n \in Sweeps, SetSweep(n) PROVE Kept'
  <2>1. store' = store /\ limit' = limit
    BY <1>8 DEF SetSweep
  <2> QED BY <1>2, <1>3, <2>1, KeptFrame
<1> QED BY <1>4, <1>5, <1>6, <1>7, <1>8 DEF Configure

LEMMA TickKept ==
    ASSUME Inv1, Kept, Tick
    PROVE  Kept'
<1>1. /\ store \in Store /\ idle \in [Entries -> {Never} \cup 0 .. MaxIdle] /\ MaxIdle \in Nat
  BY TTLsAreTold DEF Inv1, RestOK, Sound
<1>2. /\ idle' = [e \in Entries |-> IF idle[e] \in {Never, MaxIdle} THEN idle[e] ELSE idle[e] + 1]
      /\ UNCHANGED <<store, limit, incidents>>
  BY DEF Tick
<1>3. ASSUME incidents = {} PROVE Fair(store, idle')
  <2> DEFINE L == Recorded(store)
  <2>1. L \subseteq Entries /\ Lru(store.next, store.prev, L, idle)
    BY <1>1, <1>3, RecordedIsFinite DEF Kept, Fair
  <2>2. PICK top, pos : Chain(store.next, store.prev, L, pos, top)
    BY <2>1, Zenon DEF Lru
  <2>3. ASSUME NEW x \in L
        PROVE  idle'[x] >= 0 /\ (store.next[x] # Root => idle'[x] <= idle'[store.next[x]])
    <3>1. /\ store.next[x] \in L \cup {Root} /\ idle[x] >= 0
          /\ store.next[x] # Root => idle[x] <= idle[store.next[x]]
      BY <2>1, <2>2 DEF Lru, Chain, Aged
    <3>2. ASSUME NEW y \in Entries, idle[y] >= 0
          PROVE  /\ idle[y] \in 0 .. MaxIdle
                 /\ idle'[y] = IF idle[y] = MaxIdle THEN MaxIdle ELSE idle[y] + 1
      BY <1>1, <1>2, <3>2 DEF Never
    <3>3. x \in Entries
      BY <2>1
    <3>4. CASE store.next[x] = Root
      BY <3>1, <3>2, <3>3, <3>4, <1>1
    <3>5. CASE store.next[x] # Root
      <4> DEFINE y == store.next[x]
      <4>1. y \in L /\ y \in Entries /\ idle[x] <= idle[y]
        BY <2>1, <3>1, <3>5
      <4>2. idle[y] >= 0
        BY <2>1, <4>1 DEF Lru, Aged
      <4> HIDE DEF y
      <4>3. /\ idle[y] \in 0 .. MaxIdle
            /\ idle'[y] = IF idle[y] = MaxIdle THEN MaxIdle ELSE idle[y] + 1
        BY <3>2, <4>1, <4>2
      <4>4. /\ idle[x] \in 0 .. MaxIdle
            /\ idle'[x] = IF idle[x] = MaxIdle THEN MaxIdle ELSE idle[x] + 1
        BY <3>1, <3>2, <3>3
      <4>5. idle'[x] >= 0 /\ idle'[x] <= idle'[y]
        BY <4>1, <4>3, <4>4, <1>1
      <4> QED BY <4>5 DEF y
    <3> QED BY <3>4, <3>5
  <2>4. Aged(store.next, L, idle')
    BY <2>3 DEF Aged
  <2>5. Lru(store.next, store.prev, L, idle')
    BY <2>2, <2>4 DEF Lru
  <2> QED BY <1>3, <2>5 DEF Kept, Fair
<1> QED BY <1>2, <1>3 DEF Kept

LEMMA CollectKept ==
    ASSUME Inv1, Kept, NEW e \in Entries, Collect(e)
    PROVE  Kept'
<1>1. /\ store \in Store /\ idle \in [Entries -> {Never} \cup 0 .. MaxIdle]
      /\ store.next \in Links /\ store.prev \in Links /\ store.node \in [Entries -> BOOLEAN]
  BY DEF Inv1, RestOK, Sound, Store
<1>2. /\ e \notin Cached(store)
      /\ idle' = [idle EXCEPT ![e] = Never]
      /\ store' = [store EXCEPT !.node[e] = FALSE, !.next[e] = Nil, !.prev[e] = Nil]
      /\ UNCHANGED <<limit, incidents>>
  BY DEF Collect, configVars
<1>3. /\ store'.cache = store.cache /\ store'.len = store.len /\ store'.stuck = store.stuck
      /\ store'.node = [store.node EXCEPT ![e] = FALSE]
      /\ store'.next = [store.next EXCEPT ![e] = Nil]
      /\ store'.prev = [store.prev EXCEPT ![e] = Nil]
  BY <1>1, <1>2 DEF Store
<1>4. Cached(store') = Cached(store) /\ Cached(store) \subseteq Entries
  BY <1>1, <1>3 DEF Cached, CachedBlobs, Store
<1>5. Recorded(store') = Recorded(store)
  BY <1>1, <1>2, <1>3, <1>4 DEF Recorded
<1>6. ASSUME incidents = {} PROVE Fair(store', idle')
  <2> DEFINE t == store'
             L == Recorded(store)
  <2>1. e \notin L /\ L \subseteq Entries
    BY <1>2, <1>4 DEF Recorded
  <2>2. \A x \in L \cup {Root} : t.next[x] = store.next[x] /\ t.prev[x] = store.prev[x]
    BY <1>1, <1>3, <2>1, NoSuchEntry DEF Links, Elements
  <2>3. \A x \in L : idle'[x] = idle[x]
    BY <1>1, <1>2, <2>1
  <2>4. Lru(store.next, store.prev, L, idle)
    BY <1>6 DEF Kept, Fair
  <2> HIDE DEF t, L
  <2>5. Lru(t.next, t.prev, L, idle')
    BY <2>1, <2>2, <2>3, <2>4, LruFrame
  <2> QED BY <1>3, <1>5, <1>6, <2>5 DEF t, L, Kept, Fair
<1> QED BY <1>2, <1>5, <1>6 DEF Kept

LEMMA KeptStep == Inv1 /\ Kept /\ [Next]_vars => Kept'
<1> SUFFICES ASSUME Inv1, Kept, [Next]_vars PROVE Kept'
  OBVIOUS
<1>1. ASSUME UNCHANGED <<store, idle, limit, incidents>> PROVE Kept'
  BY <1>1 DEF Kept
<1>2. ASSUME NEW c \in Callers, Decode(c) \/ Fail(c) PROVE Kept'
  BY <1>1, <1>2 DEF Decode, Fail, configVars, entryVars
<1>3. ASSUME JanitorSweep \/ LateSweep PROVE Kept'
  <2>1. store' = EvictIdle(store, ttl, idle) /\ UNCHANGED <<idle, incidents, limit>>
    BY <1>3 DEF JanitorSweep, LateSweep, entryVars, configVars
  <2> QED BY <2>1, SweepKept
<1>4. ASSUME JanitorExit \/ UNCHANGED vars PROVE Kept'
  BY <1>1, <1>4 DEF JanitorExit, vars, entryVars
<1> QED
  BY <1>2, <1>3, <1>4, GetKept, RecordUseKept, ConfigureKept, TickKept, CollectKept
  DEF Next, Load

-----------------------------------------------------------------------------
\* The theorems.

\* Every critical section of embedded_loader.go keeps the cache sound: its
\* elements are linked where they were allocated, and, unless a use was
\* recorded of an entry displaced or purged during its load, the list is one
\* ring through the recorded entries of the map, in order of use.
THEOREM Invariant == Spec => [](Inv1 /\ Kept)
<1>1. Init => Inv1 /\ Kept
  BY InitInv1, InitKept
<1>2. Inv1 /\ Kept /\ [Next]_vars => (Inv1 /\ Kept)'
  BY Inv1Step, KeptStep
<1> QED BY <1>1, <1>2, PTL DEF Spec

\* TypeOK: the store, the janitor and the entries keep their types, and an
\* entry in the map is there under its own name.
THEOREM TypeCorrect == Spec => []TypeOK
<1>1. Inv1 => TypeOK
  BY TypeParts DEF Inv1
<1> QED BY <1>1, Invariant, PTL

\* LruMirrorsCache: whatever order loads, limits, unloads, purges and the
\* janitor come in, the list has exactly the recorded entries of the map,
\* counts them, and orders them by last use, so that the entry at its back,
\* which the limit evicts, is the one used least recently.  (As long as
\* no use met a displaced or purged entry, which nothing looks for.)
THEOREM LruMirrors == Spec => []LruMirrorsCache
<1>1. Inv1 /\ Kept => LruMirrorsCache
  <2> SUFFICES ASSUME Inv1, Kept, incidents = {}
               PROVE  /\ Linked(store) = Recorded(store)
                      /\ store.len = Cardinality(Linked(store))
                      /\ \A x \in Linked(store) \cup {Root} :
                           /\ store.next[x] \in Elements /\ store.prev[store.next[x]] = x
                           /\ x # Root /\ store.next[x] # Root => idle[x] <= idle[store.next[x]]
    BY DEF LruMirrorsCache
  <2> DEFINE L == Recorded(store)
  <2>1. /\ Lru(store.next, store.prev, L, idle) /\ L \subseteq Entries
        /\ store.len = Cardinality(L)
    BY RecordedIsFinite DEF Kept, Fair, Inv1, Sound
  <2>2. PICK top, pos : Chain(store.next, store.prev, L, pos, top)
    BY <2>1, Zenon DEF Lru
  <2>3. Linked(store) = L
    BY <2>1, <2>2, LinkedIsTheList
  <2>4. Aged(store.next, L, idle)
    BY <2>1 DEF Lru
  <2> HIDE DEF L
  <2>5. ASSUME NEW x \in L \cup {Root}
        PROVE  /\ store.next[x] \in Elements /\ store.prev[store.next[x]] = x
               /\ x # Root /\ store.next[x] # Root => idle[x] <= idle[store.next[x]]
    BY <2>1, <2>2, <2>4 DEF Chain, Aged, Elements
  <2> QED BY <2>1, <2>3, <2>5 DEF L
<1> QED BY <1>1, Invariant, PTL

\* LimitIsKept: recordEmbeddedLanguageUse and the setters never leave more
\* recorded grammars than the limit behind, for any number of blobs, and the
\* loop that evicts them ends (under the same condition).
THEOREM LimitKept == Spec => []LimitIsKept
<1>1. Inv1 /\ Kept => LimitIsKept
  BY DEF Kept, LimitIsKept, Fair
<1> QED BY <1>1, Invariant, PTL

\* JanitorFollowsTTL: after any sequence of SetEmbeddedLanguageIdleTTL and
\* SetEmbeddedLanguageIdleSweepInterval a janitor runs exactly while idle
\* eviction is on, with the interval set last.
THEOREM JanitorFollows == Spec => []JanitorFollowsTTL
<1>1. Init => JanitorFollowsTTL
  BY DEF Init, JanitorFollowsTTL, Off
<1>2. Inv1 /\ JanitorFollowsTTL /\ [Next]_vars => JanitorFollowsTTL'
  <2> SUFFICES ASSUME Inv1, JanitorFollowsTTL, [Next]_vars PROVE JanitorFollowsTTL'
    OBVIOUS
  <2>1. janitor \in [alive : BOOLEAN, every : Sweeps \cup {0}, left : Nat] /\ ttl \in Nat
    BY TTLsAreTold DEF Inv1, RestOK
  <2>2. ASSUME NEW d \in TTLs, SetIdleTTL(d) PROVE JanitorFollowsTTL'
    <3>1. d \in Nat
      BY TTLsAreTold
    <3>2. CASE d = 0
      BY <2>2, <3>2 DEF SetIdleTTL, JanitorFollowsTTL, Off
    <3>3. CASE d # 0
      BY <2>1, <2>2, <3>1, <3>3 DEF SetIdleTTL, JanitorFollowsTTL, NewJanitor
    <3> QED BY <3>2, <3>3
  <2>3. ASSUME NEW n \in Sweeps, SetSweep(n) PROVE JanitorFollowsTTL'
    <3>1. CASE janitor.alive /\ ttl > 0
      BY <2>1, <2>3, <3>1 DEF SetSweep, JanitorFollowsTTL, NewJanitor
    <3>2. CASE ~ (janitor.alive /\ ttl > 0)
      BY <2>1, <2>3, <3>2 DEF SetSweep, JanitorFollowsTTL, Off
    <3> QED BY <3>1, <3>2
  <2>4. ASSUME ttl' = ttl, sweep' = sweep,
               janitor' = janitor \/ \E k \in Nat : janitor' = [janitor EXCEPT !.left = k]
        PROVE  JanitorFollowsTTL'
    BY <2>1, <2>4 DEF JanitorFollowsTTL
  <2>5. ASSUME JanitorSweep \/ Tick PROVE JanitorFollowsTTL'
    <3>1. janitor.every \in Nat /\ janitor.left \in Nat
      <4>1. janitor.every \in Sweeps \cup {0} /\ janitor.left \in Nat
        BY <2>1
      <4>2. \A n \in Sweeps \cup {0} : n \in Nat
        BY SweepValues
      <4> QED BY <4>1, <4>2
    <3>2. \E k \in Nat : janitor' = [janitor EXCEPT !.left = k]
      BY <2>5, <3>1 DEF JanitorSweep, Tick
    <3> QED BY <2>4, <2>5, <3>2 DEF JanitorSweep, Tick
  <2>6. ASSUME UNCHANGED <<ttl, sweep, janitor>> PROVE JanitorFollowsTTL'
    BY <2>4, <2>6
  <2>7. ASSUME NEW c \in Callers, Load(c) PROVE JanitorFollowsTTL'
    BY <2>6, <2>7 DEF Load, Get, Decode, Fail, RecordUse, configVars
  <2>8. ASSUME (\E n \in Limits : SetLimit(n)) \/ (\E b \in Blobs : Unload(b)) \/ Purge
               \/ LateSweep \/ JanitorExit \/ (\E e \in Entries : Collect(e)) \/ UNCHANGED vars
        PROVE  JanitorFollowsTTL'
    BY <2>6, <2>8 DEF SetLimit, Unload, Purge, LateSweep, JanitorExit, Collect, vars, configVars
  <2> QED BY <2>2, <2>3, <2>5, <2>7, <2>8 DEF Next, Configure
<1> QED BY <1>1, <1>2, Invariant, PTL DEF Spec

=============================================================================
