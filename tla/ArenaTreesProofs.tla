-------------------------- MODULE ArenaTreesProofs --------------------------
(***************************************************************************)
(* Proofs about ArenaTrees for every finite set of parses and every set of *)
(* arenas: the counts equal the holders, nothing readable is recycled, and *)
(* the reference counts implement ArenaLifetime.                           *)
(***************************************************************************)
EXTENDS ArenaTrees, FiniteSetTheorems, TLAPS

(* The arenas parse or tree t relies on: those it holds, those it is about *)
(* to retain, and, while it parses, those its old tree holds for it.       *)
Relied(t) ==
  ReferencedArenas(t) \cup todo[t]
    \cup (IF status[t] = "parsing" THEN ArenasToRetain(t) ELSE {})

(* What each status says about a tree's own variables.                     *)
Shape ==
  \A t \in Trees :
    /\ own[t] \in {NoArena, home[t]}
    /\ own[t] \notin borrowed[t] \cup todo[t]
    /\ borrowed[t] \cap todo[t] = {}
    /\ reusedAny[t] => old[t] # NoTree
    /\ status[t] = "none" => own[t] = NoArena /\ home[t] = NoArena /\ old[t] = NoTree
    /\ status[t] \in {"none", "parsing"} => borrowed[t] = {}
    /\ status[t] = "none" => ~ reusedAny[t] /\ Nodes(t) = {}
    /\ status[t] = "parsing" => own[t] \in Arenas /\ own[t] = home[t]
    /\ status[t] # "retaining" => todo[t] = {}
    /\ todo[t] # {} => reusedAny[t] /\ todo[t] \subseteq ReferencedArenas(old[t])

(* While a parse runs, nobody else holds the arena it allocates from.      *)
OwnArenaIsPrivate ==
  \A t, u \in Trees :
    status[t] = "parsing" /\ u # t => own[t] \notin ReferencedArenas(u)

(* Nodes stored in an arena were allocated by a parse that acquired it.    *)
StoredAtHome == \A a \in Arenas : \A o \in content[a] : home[o] = a

(* The nodes a readable tree reaches are stored in arenas it relies on.    *)
NodesAreStored ==
  \A t \in Trees : Readable(t) =>
    \A o \in subs[t] : /\ home[o] \in Arenas
                       /\ o \in content[home[o]]
                       /\ home[o] \in Relied(t)

RefsExact == \A a \in Arenas : refs[a] = Cardinality(Holders(a))
InUseIffHeld == \A a \in Arenas : place[a] = "inuse" <=> refs[a] > 0

IInv ==
  /\ TypeOK
  /\ RefsExact
  /\ InUseIffHeld
  /\ IdleArenasAreClean
  /\ OldTreeOutlivesParse
  /\ Shape
  /\ NodesAreStored
  /\ OwnArenaIsPrivate
  /\ StoredAtHome

-----------------------------------------------------------------------------
(* Typing.                                                                 *)

LEMMA InitType == Init => TypeOK
  BY DEF Init, TypeOK, Places, Statuses

(* The type invariant needs the counts: a decrement stays in Nat because   *)
(* its caller holds a reference.                                           *)
LEMMA HoldersFinite ==
  ASSUME NEW a \in Arenas
  PROVE  IsFiniteSet(Holders(a)) /\ Cardinality(Holders(a)) \in Nat
  <1>1. Holders(a) \subseteq Trees
    BY DEF Holders
  <1>2. IsFiniteSet(Holders(a))
    BY <1>1, TreesFinite, FS_Subset
  <1> QED
    BY <1>2, FS_CardinalityType

LEMMA HeldIsCounted ==
  ASSUME RefsExact, NEW a \in Arenas, NEW t \in Trees, a \in ReferencedArenas(t)
  PROVE  refs[a] \in Nat /\ refs[a] > 0
  <1>1. t \in Holders(a)
    BY DEF Holders
  <1>2. Cardinality(Holders(a)) # 0
    BY <1>1, HoldersFinite, FS_EmptySet
  <1> QED
    BY <1>2, HoldersFinite DEF RefsExact

(* A reference gained, given back, or neither: the count follows.          *)
LEMMA GainKeepsCount ==
  ASSUME TypeOK, RefsExact,
         NEW a \in Arenas, NEW t \in Trees,
         a \notin ReferencedArenas(t),
         ReferencedArenas(t)' = ReferencedArenas(t) \cup {a},
         \A u \in Trees \ {t} : ReferencedArenas(u)' = ReferencedArenas(u),
         refs' = [refs EXCEPT ![a] = @ + 1]
  PROVE  RefsExact'
  <1> SUFFICES ASSUME NEW b \in Arenas
               PROVE  refs'[b] = Cardinality(Holders(b)')
    BY DEF RefsExact
  <1>1. CASE b = a
    <2>1. Holders(a)' = Holders(a) \cup {t} /\ t \notin Holders(a)
      BY DEF Holders
    <2>2. Cardinality(Holders(a)') = Cardinality(Holders(a)) + 1
      BY <2>1, HoldersFinite, FS_AddElement
    <2> QED
      BY <1>1, <2>2 DEF RefsExact, TypeOK
  <1>2. CASE b # a
    <2>1. Holders(b)' = Holders(b)
      BY <1>2 DEF Holders
    <2> QED
      BY <1>2, <2>1 DEF RefsExact, TypeOK
  <1> QED
    BY <1>1, <1>2

LEMMA DropKeepsCount ==
  ASSUME TypeOK, RefsExact,
         NEW a \in Arenas, NEW t \in Trees,
         a \in ReferencedArenas(t),
         ReferencedArenas(t)' = ReferencedArenas(t) \ {a},
         \A u \in Trees \ {t} : ReferencedArenas(u)' = ReferencedArenas(u),
         refs' = [refs EXCEPT ![a] = @ - 1]
  PROVE  RefsExact'
  <1> SUFFICES ASSUME NEW b \in Arenas
               PROVE  refs'[b] = Cardinality(Holders(b)')
    BY DEF RefsExact
  <1>1. CASE b = a
    <2>1. Holders(a)' = Holders(a) \ {t} /\ t \in Holders(a)
      BY DEF Holders
    <2>2. Cardinality(Holders(a)') = Cardinality(Holders(a)) - 1
      BY <2>1, HoldersFinite, FS_RemoveElement
    <2> QED
      BY <1>1, <2>2 DEF RefsExact, TypeOK
  <1>2. CASE b # a
    <2>1. Holders(b)' = Holders(b)
      BY <1>2 DEF Holders
    <2> QED
      BY <1>2, <2>1 DEF RefsExact, TypeOK
  <1> QED
    BY <1>1, <1>2

LEMMA SameKeepsCount ==
  ASSUME RefsExact,
         \A u \in Trees : ReferencedArenas(u)' = ReferencedArenas(u),
         refs' = refs
  PROVE  RefsExact'
  BY DEF RefsExact, Holders

LEMMA IdleIsUnheld ==
  ASSUME IInv, NEW a \in Arenas, place[a] # "inuse"
  PROVE  refs[a] = 0 /\ \A u \in Trees : a \notin ReferencedArenas(u)
  BY HeldIsCounted DEF IInv, TypeOK, InUseIffHeld

(* An arena a tree relies on is held by it or by its old tree.             *)
LEMMA ReliedIsHeld ==
  ASSUME IInv, NEW t \in Trees, NEW a \in Relied(t)
  PROVE  \E u \in Trees : a \in ReferencedArenas(u)
  BY DEF IInv, TypeOK, Shape, Nodes, Relied, ArenasToRetain

-----------------------------------------------------------------------------
(* Each action keeps the invariant.                                        *)

LEMMA ParseFullKeeps ==
  ASSUME IInv, NEW t \in Trees, ParseFull(t)
  PROVE  IInv'
  <1> USE DEF IInv
  <1>a. PICK a \in FullArenas : Acquire(t, a)
    BY DEF ParseFull
  <1>b. /\ a \in Arenas /\ refs[a] = 0
        /\ \A u \in Trees : a \notin ReferencedArenas(u)
    BY <1>a, IdleIsUnheld, FullAreArenas DEF Acquire
  <1>c. /\ own[t] = NoArena /\ home[t] = NoArena /\ borrowed[t] = {}
        /\ Nodes(t) = {} /\ old[t] = NoTree /\ ~ reusedAny[t]
    BY DEF ParseFull, Shape, Nodes
  <1>1. TypeOK'
    BY <1>a, <1>b DEF ParseFull, Acquire, TypeOK, Places, Statuses
  <1>2. RefsExact'
    <2>1. ReferencedArenas(t)' = ReferencedArenas(t) \cup {a}
      BY <1>a, <1>b, <1>c, NilArena DEF ParseFull, Acquire, TypeOK, ReferencedArenas
    <2>2. \A u \in Trees \ {t} : ReferencedArenas(u)' = ReferencedArenas(u)
      BY <1>a DEF ParseFull, Acquire, TypeOK, ReferencedArenas
    <2>3. refs' = [refs EXCEPT ![a] = @ + 1]
      BY <1>a, <1>b DEF Acquire, TypeOK
    <2> QED
      BY <1>b, <2>1, <2>2, <2>3, GainKeepsCount
  <1>3. InUseIffHeld'
    BY <1>a, <1>b DEF Acquire, TypeOK, InUseIffHeld
  <1>4. IdleArenasAreClean'
    BY <1>a, <1>b DEF Acquire, TypeOK, IdleArenasAreClean
  <1>5. OldTreeOutlivesParse'
    BY NilTree DEF ParseFull, Acquire, TypeOK, OldTreeOutlivesParse, Building, Shape, Nodes
  <1>6. Shape'
    BY <1>a, <1>b, <1>c, NilArena, NilTree
       DEF ParseFull, Acquire, TypeOK, Shape, Nodes, ReferencedArenas, OldTreeOutlivesParse, Building
  <1>7. NodesAreStored'
    <2> SUFFICES ASSUME NEW u \in Trees, Readable(u)', NEW o \in subs'[u]
                 PROVE  /\ home'[o] \in Arenas
                        /\ o \in content'[home'[o]]
                        /\ home'[o] \in Relied(u)'
      BY DEF NodesAreStored
    <2>1. u # t /\ Readable(u) /\ o \in subs[u]
      BY <1>c DEF ParseFull, TypeOK, Readable, Nodes
    <2>2. home[o] \in Arenas /\ o \in content[home[o]] /\ home[o] \in Relied(u)
      BY <2>1 DEF NodesAreStored
    <2>3. o \in Trees /\ home'[o] = home[o] /\ content' = content
      BY <1>a, <1>c, <2>1, <2>2, NilArena DEF Acquire, TypeOK
    <2>4. status[u] = "parsing" /\ old[u] # NoTree => old[u] \in Trees \ {t}
      BY DEF ParseFull, TypeOK, OldTreeOutlivesParse, Building
    <2>5. Relied(u)' = Relied(u)
      BY <1>a, <2>1, <2>4 DEF ParseFull, Acquire, TypeOK, Relied, ReferencedArenas, ArenasToRetain, Shape, Nodes
    <2> QED
      BY <2>2, <2>3, <2>5
  <1>8. OwnArenaIsPrivate'
    BY <1>a, <1>b, <1>c, NilArena DEF ParseFull, Acquire, TypeOK, OwnArenaIsPrivate, ReferencedArenas
  <1>9. StoredAtHome'
    <2>1. \A b \in Arenas : t \notin content[b]
      BY <1>c, NilArena DEF StoredAtHome
    <2> QED
      BY <1>a, <2>1 DEF Acquire, TypeOK, StoredAtHome
  <1> QED
    BY <1>1, <1>2, <1>3, <1>4, <1>5, <1>6, <1>7, <1>8, <1>9

LEMMA ParseIncrementalKeeps ==
  ASSUME IInv, NEW t \in Trees, ParseIncremental(t)
  PROVE  IInv'
  <1> USE DEF IInv
  <1>a. PICK a \in Arenas \ FullArenas : Acquire(t, a)
    BY DEF ParseIncremental
  <1>b. /\ a \in Arenas /\ refs[a] = 0
        /\ \A u \in Trees : a \notin ReferencedArenas(u)
    BY <1>a, IdleIsUnheld, FullAreArenas DEF Acquire
  <1>c. /\ own[t] = NoArena /\ home[t] = NoArena /\ borrowed[t] = {}
        /\ Nodes(t) = {} /\ old[t] = NoTree /\ ~ reusedAny[t]
    BY DEF ParseIncremental, Shape, Nodes
  <1>1. TypeOK'
    BY <1>a, <1>b DEF ParseIncremental, Acquire, TypeOK, Places, Statuses
  <1>2. RefsExact'
    <2>1. ReferencedArenas(t)' = ReferencedArenas(t) \cup {a}
      BY <1>a, <1>b, <1>c, NilArena DEF ParseIncremental, Acquire, TypeOK, ReferencedArenas
    <2>2. \A u \in Trees \ {t} : ReferencedArenas(u)' = ReferencedArenas(u)
      BY <1>a DEF ParseIncremental, Acquire, TypeOK, ReferencedArenas
    <2>3. refs' = [refs EXCEPT ![a] = @ + 1]
      BY <1>a, <1>b DEF Acquire, TypeOK
    <2> QED
      BY <1>b, <2>1, <2>2, <2>3, GainKeepsCount
  <1>3. InUseIffHeld'
    BY <1>a, <1>b DEF Acquire, TypeOK, InUseIffHeld
  <1>4. IdleArenasAreClean'
    BY <1>a, <1>b DEF Acquire, TypeOK, IdleArenasAreClean
  <1>5. OldTreeOutlivesParse'
    BY NilTree DEF ParseIncremental, Acquire, TypeOK, OldTreeOutlivesParse, Building, Shape, Nodes
  <1>6. Shape'
    BY <1>a, <1>b, <1>c, NilArena, NilTree
       DEF ParseIncremental, Acquire, TypeOK, Shape, Nodes, ReferencedArenas, OldTreeOutlivesParse, Building
  <1>7. NodesAreStored'
    <2> SUFFICES ASSUME NEW u \in Trees, Readable(u)', NEW o \in subs'[u]
                 PROVE  /\ home'[o] \in Arenas
                        /\ o \in content'[home'[o]]
                        /\ home'[o] \in Relied(u)'
      BY DEF NodesAreStored
    <2>1. u # t /\ Readable(u) /\ o \in subs[u]
      BY <1>c DEF ParseIncremental, TypeOK, Readable, Nodes
    <2>2. home[o] \in Arenas /\ o \in content[home[o]] /\ home[o] \in Relied(u)
      BY <2>1 DEF NodesAreStored
    <2>3. o \in Trees /\ home'[o] = home[o] /\ content' = content
      BY <1>a, <1>c, <2>1, <2>2, NilArena DEF Acquire, TypeOK
    <2>4. status[u] = "parsing" /\ old[u] # NoTree => old[u] \in Trees \ {t}
      BY DEF ParseIncremental, TypeOK, OldTreeOutlivesParse, Building
    <2>5. Relied(u)' = Relied(u)
      BY <1>a, <2>1, <2>4 DEF ParseIncremental, Acquire, TypeOK, Relied, ReferencedArenas, ArenasToRetain, Shape, Nodes
    <2> QED
      BY <2>2, <2>3, <2>5
  <1>8. OwnArenaIsPrivate'
    BY <1>a, <1>b, <1>c, NilArena DEF ParseIncremental, Acquire, TypeOK, OwnArenaIsPrivate, ReferencedArenas
  <1>9. StoredAtHome'
    <2>1. \A b \in Arenas : t \notin content[b]
      BY <1>c, NilArena DEF StoredAtHome
    <2> QED
      BY <1>a, <2>1 DEF Acquire, TypeOK, StoredAtHome
  <1> QED
    BY <1>1, <1>2, <1>3, <1>4, <1>5, <1>6, <1>7, <1>8, <1>9

LEMMA AllocNodesKeeps ==
  ASSUME IInv, NEW t \in Trees, NEW S \in SUBSET Trees, AllocNodes(t, S)
  PROVE  IInv'
  <1> USE DEF IInv
  <1>a. own[t] \in Arenas /\ own[t] = home[t] /\ own[t] \in ReferencedArenas(t)
    BY NilArena DEF AllocNodes, Shape, Nodes, ReferencedArenas
  <1>b. place[own[t]] = "inuse"
    BY <1>a, HeldIsCounted DEF InUseIffHeld
  <1>1. TypeOK'
    BY DEF AllocNodes, TypeOK, Places, Statuses, ReferencedArenas, ArenasToRetain
  <1>2. RefsExact'
    BY SameKeepsCount DEF AllocNodes, TypeOK, Shape, Nodes, ReferencedArenas
  <1>3. InUseIffHeld'
    BY HeldIsCounted DEF AllocNodes, TypeOK, InUseIffHeld
  <1>4. IdleArenasAreClean'
    BY <1>a, <1>b DEF AllocNodes, TypeOK, IdleArenasAreClean
  <1>5. OldTreeOutlivesParse'
    BY NilTree DEF AllocNodes, TypeOK, OldTreeOutlivesParse, Building, Shape, Nodes
  <1>6. Shape'
    BY NilArena, NilTree DEF AllocNodes, TypeOK, Shape, Nodes, ReferencedArenas, ArenasToRetain
  <1>7. NodesAreStored'
    <2>1. \A u \in Trees : Relied(u)' = Relied(u)
      BY DEF AllocNodes, Relied, ReferencedArenas, ArenasToRetain
    <2>2. \A b \in Arenas : content[b] \subseteq content'[b]
      BY <1>a DEF AllocNodes, TypeOK
    <2>3. t \in content'[home[t]] /\ home[t] \in Relied(t)
      BY <1>a DEF AllocNodes, TypeOK, Relied
    <2> QED
      BY <1>a, <2>1, <2>2, <2>3 DEF AllocNodes, TypeOK, NodesAreStored, Readable
  <1>8. OwnArenaIsPrivate'
    BY DEF AllocNodes, TypeOK, OwnArenaIsPrivate, ReferencedArenas
  <1>9. StoredAtHome'
    BY <1>a DEF AllocNodes, TypeOK, StoredAtHome
  <1> QED
    BY <1>1, <1>2, <1>3, <1>4, <1>5, <1>6, <1>7, <1>8, <1>9

LEMMA ReuseSubtreeKeeps ==
  ASSUME IInv, NEW t \in Trees, NEW S \in SUBSET Trees, ReuseSubtree(t, S)
  PROVE  IInv'
  <1> USE DEF IInv
  <1>1. TypeOK'
    BY DEF ReuseSubtree, TypeOK, Places, Statuses, ReferencedArenas, ArenasToRetain
  <1>2. RefsExact'
    BY SameKeepsCount DEF ReuseSubtree, TypeOK, Shape, Nodes, ReferencedArenas
  <1>3. InUseIffHeld'
    BY HeldIsCounted DEF ReuseSubtree, TypeOK, InUseIffHeld
  <1>4. IdleArenasAreClean'
    BY DEF ReuseSubtree, TypeOK, IdleArenasAreClean
  <1>5. OldTreeOutlivesParse'
    BY NilTree DEF ReuseSubtree, TypeOK, OldTreeOutlivesParse, Building, Shape, Nodes
  <1>6. Shape'
    BY NilArena, NilTree DEF ReuseSubtree, TypeOK, Shape, Nodes, ReferencedArenas, ArenasToRetain
  <1>7. NodesAreStored'
    <2>1. old[t] \in Trees /\ status[old[t]] = "live" /\ status[t] = "parsing"
      BY DEF ReuseSubtree, TypeOK, OldTreeOutlivesParse, Building
    <2>2. \A o \in S \cap subs[old[t]] :
            home[o] \in Arenas /\ o \in content[home[o]] /\ home[o] \in Relied(old[t])
      BY <2>1 DEF ReuseSubtree, NodesAreStored, Readable
    <2>3. Relied(old[t]) = ReferencedArenas(old[t])
      BY <2>1 DEF Shape, Nodes, Relied
    <2>4. \A u \in Trees : Relied(u) \subseteq Relied(u)'
      BY DEF ReuseSubtree, TypeOK, Relied, ReferencedArenas, ArenasToRetain
    <2>5. ReferencedArenas(old[t]) \subseteq Relied(t)'
      BY <2>1 DEF ReuseSubtree, TypeOK, Relied, ReferencedArenas, ArenasToRetain
    <2> QED
      BY <2>2, <2>3, <2>4, <2>5 DEF ReuseSubtree, TypeOK, NodesAreStored, Readable
  <1>8. OwnArenaIsPrivate'
    BY DEF ReuseSubtree, TypeOK, OwnArenaIsPrivate, ReferencedArenas
  <1>9. StoredAtHome'
    BY DEF ReuseSubtree, TypeOK, StoredAtHome
  <1> QED
    BY <1>1, <1>2, <1>3, <1>4, <1>5, <1>6, <1>7, <1>8, <1>9

LEMMA DropNodesKeeps ==
  ASSUME IInv, NEW t \in Trees, NEW S \in SUBSET Trees, DropNodes(t, S)
  PROVE  IInv'
  <1> USE DEF IInv
  <1>1. TypeOK'
    BY DEF DropNodes, TypeOK, Places, Statuses, ReferencedArenas, ArenasToRetain
  <1>2. RefsExact'
    BY SameKeepsCount DEF DropNodes, TypeOK, Shape, Nodes, ReferencedArenas
  <1>3. InUseIffHeld'
    BY HeldIsCounted DEF DropNodes, TypeOK, InUseIffHeld
  <1>4. IdleArenasAreClean'
    BY DEF DropNodes, TypeOK, IdleArenasAreClean
  <1>5. OldTreeOutlivesParse'
    BY NilTree DEF DropNodes, TypeOK, OldTreeOutlivesParse, Building, Shape, Nodes
  <1>6. Shape'
    BY NilArena, NilTree DEF DropNodes, TypeOK, Shape, Nodes, ReferencedArenas, ArenasToRetain
  <1>7. NodesAreStored'
    BY DEF DropNodes, TypeOK, Shape, Nodes, NodesAreStored, Readable, Relied, ReferencedArenas, ArenasToRetain
  <1>8. OwnArenaIsPrivate'
    BY DEF DropNodes, TypeOK, OwnArenaIsPrivate, ReferencedArenas
  <1>9. StoredAtHome'
    BY DEF DropNodes, TypeOK, StoredAtHome
  <1> QED
    BY <1>1, <1>2, <1>3, <1>4, <1>5, <1>6, <1>7, <1>8, <1>9

LEMMA FinishEmptyKeeps ==
  ASSUME IInv, NEW t \in Trees, FinishEmpty(t)
  PROVE  IInv'
  <1> USE DEF IInv
  <1>a. own[t] \in Arenas /\ own[t] \in ReferencedArenas(t)
    BY NilArena DEF FinishEmpty, TypeOK, Shape, Nodes, ReferencedArenas
  <1>b. refs[own[t]] \in Nat /\ refs[own[t]] > 0 /\ place[own[t]] = "inuse"
    BY <1>a, HeldIsCounted DEF InUseIffHeld
  <1>1. TypeOK'
    BY <1>a, <1>b DEF FinishEmpty, DropRef, TypeOK, Places, Statuses
  <1>2. RefsExact'
    <2>1. ReferencedArenas(t)' = ReferencedArenas(t) \ {own[t]}
      BY <1>a, NilArena DEF FinishEmpty, DropRef, TypeOK, ReferencedArenas, Shape, Nodes
    <2>2. \A u \in Trees \ {t} : ReferencedArenas(u)' = ReferencedArenas(u)
      BY DEF FinishEmpty, TypeOK, ReferencedArenas
    <2>3. refs' = [refs EXCEPT ![own[t]] = @ - 1]
      BY DEF FinishEmpty, DropRef
    <2> QED
      BY <1>a, <2>1, <2>2, <2>3, DropKeepsCount
  <1>3. InUseIffHeld'
    BY <1>a, <1>b DEF FinishEmpty, DropRef, TypeOK, InUseIffHeld
  <1>4. IdleArenasAreClean'
    BY <1>a DEF FinishEmpty, DropRef, TypeOK, IdleArenasAreClean
  <1>5. OldTreeOutlivesParse'
    BY NilTree DEF FinishEmpty, DropRef, TypeOK, OldTreeOutlivesParse, Building, Shape, Nodes
  <1>6. Shape'
    <2>1. \A u \in Trees : todo[u] # {} => old[u] # t
      BY NilTree DEF FinishEmpty, TypeOK, Shape, Nodes, OldTreeOutlivesParse, Building
    <2>2. \A u \in Trees \ {t} : ReferencedArenas(u)' = ReferencedArenas(u)
      BY DEF FinishEmpty, TypeOK, ReferencedArenas
    <2>3. \A u \in Trees : todo[u] # {} => old[u] \in Trees
      BY DEF TypeOK, Shape, Nodes
    <2> QED
      BY <2>1, <2>2, <2>3, NilArena DEF FinishEmpty, TypeOK, Shape, Nodes
  <1>7. NodesAreStored'
    <2>1. \A u \in Trees : Building(u) => old[u] # t
      BY NilTree DEF FinishEmpty, OldTreeOutlivesParse
    <2>3. \A u \in Trees \ {t} : ReferencedArenas(u)' = ReferencedArenas(u)
      BY DEF FinishEmpty, TypeOK, ReferencedArenas
    <2>4. \A u \in Trees \ {t} : Relied(u)' = Relied(u)
      BY <2>1, <2>3 DEF FinishEmpty, TypeOK, Shape, Nodes, Relied, ArenasToRetain, Building
    <2> QED
      BY <2>4 DEF FinishEmpty, DropRef, TypeOK, NodesAreStored, Readable, Nodes
  <1>8. OwnArenaIsPrivate'
    BY DEF FinishEmpty, DropRef, TypeOK, OwnArenaIsPrivate, ReferencedArenas
  <1>9. StoredAtHome'
    BY DEF FinishEmpty, DropRef, TypeOK, StoredAtHome
  <1> QED
    BY <1>1, <1>2, <1>3, <1>4, <1>5, <1>6, <1>7, <1>8, <1>9

LEMMA FinishKeeps ==
  ASSUME IInv, NEW t \in Trees, Finish(t)
  PROVE  IInv'
  <1> USE DEF IInv
  <1>a. own[t] \in Arenas /\ own[t] \in ReferencedArenas(t)
    BY NilArena DEF Finish, TypeOK, Shape, Nodes, ReferencedArenas
  <1>b. refs[own[t]] \in Nat /\ refs[own[t]] > 0 /\ place[own[t]] = "inuse"
    BY <1>a, HeldIsCounted DEF InUseIffHeld
  <1>c. \A u \in Trees : Building(u) => old[u] # t
    BY NilTree DEF Finish, OldTreeOutlivesParse
  <1>d. \A u \in Trees \ {t} : ReferencedArenas(u)' = ReferencedArenas(u)
    BY DEF Finish, arenaVars, TypeOK, ReferencedArenas
  <1>e. ArenasToRetain(t) \subseteq Arenas
    BY NilArena DEF TypeOK, ArenasToRetain, ReferencedArenas, Shape, Nodes
  <1>f. own[t] \notin ArenasToRetain(t)
    BY <1>a, <1>c DEF Finish, TypeOK, Shape, Nodes, OwnArenaIsPrivate, ArenasToRetain, Building
  <1>1. TypeOK'
    <2>1. /\ refs' \in [Arenas -> Nat] /\ place' \in [Arenas -> Places]
          /\ content' = content /\ own' \in [Trees -> Arenas \cup {NoArena}]
      BY <1>a, <1>b DEF Finish, DropRef, arenaVars, TypeOK, Places
    <2> QED
      BY <1>e, <2>1 DEF Finish, TypeOK, Statuses
  <1>2. RefsExact'
    <2>1. CASE content[own[t]] = {}
      <3>1. ReferencedArenas(t)' = ReferencedArenas(t) \ {own[t]}
        BY <1>a, <2>1, NilArena DEF Finish, DropRef, TypeOK, ReferencedArenas, Shape, Nodes
      <3>2. refs' = [refs EXCEPT ![own[t]] = @ - 1]
        BY <2>1 DEF Finish, DropRef
      <3> QED
        BY <1>a, <1>d, <3>1, <3>2, DropKeepsCount
    <2>2. CASE content[own[t]] # {}
      BY <2>2, SameKeepsCount DEF Finish, arenaVars, ReferencedArenas
    <2> QED
      BY <2>1, <2>2
  <1>3. InUseIffHeld'
    BY <1>a, <1>b DEF Finish, DropRef, arenaVars, TypeOK, InUseIffHeld
  <1>4. IdleArenasAreClean'
    BY <1>a DEF Finish, DropRef, arenaVars, TypeOK, IdleArenasAreClean
  <1>5. OldTreeOutlivesParse'
    BY NilTree DEF Finish, DropRef, arenaVars, TypeOK, OldTreeOutlivesParse, Building, Shape, Nodes
  <1>6. Shape'
    BY <1>a, <1>c, <1>d, <1>e, <1>f, NilArena, NilTree
       DEF Finish, arenaVars, TypeOK, Shape, Nodes, ArenasToRetain, Building
  <1>7. NodesAreStored'
    BY DEF Finish, DropRef, arenaVars, TypeOK, Shape, Nodes, NodesAreStored, Readable, Relied, ReferencedArenas, ArenasToRetain
  <1>8. OwnArenaIsPrivate'
    <2>1. ReferencedArenas(t)' \subseteq ReferencedArenas(t)
      BY DEF Finish, arenaVars, TypeOK, ReferencedArenas
    <2>2. \A x \in Trees : status'[x] = "parsing" => status[x] = "parsing" /\ own'[x] = own[x]
      BY DEF Finish, arenaVars, TypeOK
    <2> QED
      BY <1>d, <2>1, <2>2 DEF OwnArenaIsPrivate
  <1>9. StoredAtHome'
    BY DEF Finish, DropRef, arenaVars, TypeOK, StoredAtHome
  <1> QED
    BY <1>1, <1>2, <1>3, <1>4, <1>5, <1>6, <1>7, <1>8, <1>9

LEMMA RetainBorrowedKeeps ==
  ASSUME IInv, NEW t \in Trees, NEW a \in Arenas, RetainBorrowed(t, a)
  PROVE  IInv'
  <1> USE DEF IInv
  <1>a. a \notin ReferencedArenas(t) /\ old[t] \in Trees /\ a \in ReferencedArenas(old[t])
    BY DEF RetainBorrowed, TypeOK, Shape, Nodes, ReferencedArenas
  <1>b. refs[a] \in Nat /\ refs[a] > 0
    BY <1>a, HeldIsCounted
  <1>1. TypeOK'
    BY DEF RetainBorrowed, TypeOK, Places, Statuses, ReferencedArenas, ArenasToRetain
  <1>2. RefsExact'
    <2>1. ReferencedArenas(t)' = ReferencedArenas(t) \cup {a}
      BY DEF RetainBorrowed, TypeOK, ReferencedArenas
    <2>2. \A u \in Trees \ {t} : ReferencedArenas(u)' = ReferencedArenas(u)
      BY DEF RetainBorrowed, TypeOK, ReferencedArenas
    <2> QED
      BY <1>a, <2>1, <2>2, GainKeepsCount DEF RetainBorrowed
  <1>3. InUseIffHeld'
    BY <1>b DEF RetainBorrowed, TypeOK, InUseIffHeld
  <1>4. IdleArenasAreClean'
    BY DEF RetainBorrowed, TypeOK, IdleArenasAreClean
  <1>5. OldTreeOutlivesParse'
    BY NilTree DEF RetainBorrowed, TypeOK, OldTreeOutlivesParse, Building, Shape, Nodes
  <1>6. Shape'
    BY NilArena, NilTree DEF RetainBorrowed, TypeOK, Shape, Nodes, ReferencedArenas, ArenasToRetain
  <1>7. NodesAreStored'
    BY DEF RetainBorrowed, TypeOK, Shape, Nodes, NodesAreStored, Readable, Relied, ReferencedArenas, ArenasToRetain
  <1>8. OwnArenaIsPrivate'
    <2>1. status[old[t]] = "live"
      BY <1>a, NilTree DEF RetainBorrowed, OldTreeOutlivesParse, Building
    <2>2. \A x \in Trees : status[x] = "parsing" => own[x] # a
      BY <1>a, <2>1 DEF OwnArenaIsPrivate
    <2>3. \A x \in Trees : status'[x] = "parsing" => status[x] = "parsing" /\ own'[x] = own[x]
      BY DEF RetainBorrowed
    <2>4. \A u \in Trees : ReferencedArenas(u)' \subseteq ReferencedArenas(u) \cup {a}
      BY DEF RetainBorrowed, TypeOK, ReferencedArenas
    <2> QED
      BY <2>2, <2>3, <2>4 DEF OwnArenaIsPrivate
  <1>9. StoredAtHome'
    BY DEF RetainBorrowed, TypeOK, StoredAtHome
  <1> QED
    BY <1>1, <1>2, <1>3, <1>4, <1>5, <1>6, <1>7, <1>8, <1>9

LEMMA ReturnTreeKeeps ==
  ASSUME IInv, NEW t \in Trees, NEW fold \in BOOLEAN, NEW wrap \in BOOLEAN, ReturnTree(t, fold, wrap)
  PROVE  IInv'
  <1> USE DEF IInv
  <1>a. own[t] # NoArena => own[t] \in Arenas /\ place[own[t]] = "inuse"
    BY HeldIsCounted DEF TypeOK, ReferencedArenas, InUseIffHeld
  <1>1. TypeOK'
    <2>1. lent' \in [Trees -> SUBSET Trees]
      <3>1. CASE lent' = lent
        BY <3>1 DEF TypeOK
      <3>2. CASE lent' # lent
        BY <3>2 DEF ReturnTree, FoldExtras, TypeOK, Nodes
      <3> QED
        BY <3>1, <3>2
    <2>2. /\ content' \in [Arenas -> SUBSET Trees] /\ subs' \in [Trees -> SUBSET Trees]
          /\ parent' \in [Trees -> Trees] /\ status' \in [Trees -> Statuses]
      BY DEF ReturnTree, TypeOK, Statuses
    <2> QED
      BY <2>1, <2>2 DEF ReturnTree, TypeOK
  <1>2. RefsExact'
    BY SameKeepsCount DEF ReturnTree, TypeOK, Shape, Nodes, ReferencedArenas
  <1>3. InUseIffHeld'
    BY HeldIsCounted DEF ReturnTree, TypeOK, InUseIffHeld
  <1>4. IdleArenasAreClean'
    BY <1>a DEF ReturnTree, TypeOK, IdleArenasAreClean
  <1>5. OldTreeOutlivesParse'
    BY NilTree DEF ReturnTree, TypeOK, OldTreeOutlivesParse, Building, Shape, Nodes
  <1>6. Shape'
    <2>1. \A u \in Trees : status[u] = "none" => lent'[u] = lent[u]
      <3>1. old[t] # NoTree => old[t] \in Trees /\ status[old[t]] = "live"
        BY DEF ReturnTree, TypeOK, OldTreeOutlivesParse, Building
      <3>2. CASE lent' # lent
        BY <3>1, <3>2, NilTree DEF ReturnTree, FoldExtras, Readable
      <3> QED
        BY <3>2
    <2>2. \A u \in Trees : status'[u] = "none" => u # t /\ Nodes(u)' = Nodes(u)
      BY <2>1 DEF ReturnTree, TypeOK, Nodes
    <2> QED
      BY <2>2 DEF ReturnTree, TypeOK, Shape, ReferencedArenas
  <1>7. NodesAreStored'
    BY DEF ReturnTree, TypeOK, Shape, Nodes, NodesAreStored, Readable, Relied, ReferencedArenas, ArenasToRetain
  <1>8. OwnArenaIsPrivate'
    BY DEF ReturnTree, TypeOK, OwnArenaIsPrivate, ReferencedArenas
  <1>9. StoredAtHome'
    <2>1. home' = home /\ \A b \in Arenas : \A o \in content'[b] :
                            o \in content[b] \/ (o = t /\ b = own[t])
      BY DEF ReturnTree, TypeOK
    <2>2. own[t] \in Arenas => home[t] = own[t]
      BY NilArena DEF Shape
    <2> QED
      BY <2>1, <2>2 DEF StoredAtHome
  <1> QED
    BY <1>1, <1>2, <1>3, <1>4, <1>5, <1>6, <1>7, <1>8, <1>9

LEMMA ReleaseKeeps ==
  ASSUME IInv, NEW t \in Trees, Release(t)
  PROVE  IInv'
  <1> USE DEF IInv
  <1>1. TypeOK'
    BY DEF Release, arenaVars, TypeOK, Places, Statuses, ReferencedArenas, ArenasToRetain
  <1>2. RefsExact'
    BY SameKeepsCount DEF Release, arenaVars, TypeOK, Shape, Nodes, ReferencedArenas
  <1>3. InUseIffHeld'
    BY HeldIsCounted DEF Release, arenaVars, TypeOK, InUseIffHeld
  <1>4. IdleArenasAreClean'
    BY DEF Release, arenaVars, TypeOK, IdleArenasAreClean
  <1>5. OldTreeOutlivesParse'
    BY NilTree DEF Release, arenaVars, TypeOK, OldTreeOutlivesParse, Building, Shape, Nodes
  <1>6. Shape'
    BY NilArena, NilTree DEF Release, arenaVars, TypeOK, Shape, Nodes, ReferencedArenas, ArenasToRetain
  <1>7. NodesAreStored'
    BY DEF Release, arenaVars, TypeOK, Shape, Nodes, NodesAreStored, Readable, Relied, ReferencedArenas, ArenasToRetain
  <1>8. OwnArenaIsPrivate'
    BY DEF Release, arenaVars, TypeOK, OwnArenaIsPrivate, ReferencedArenas
  <1>9. StoredAtHome'
    BY DEF Release, arenaVars, TypeOK, StoredAtHome
  <1> QED
    BY <1>1, <1>2, <1>3, <1>4, <1>5, <1>6, <1>7, <1>8, <1>9

LEMMA ReleaseBorrowedKeeps ==
  ASSUME IInv, NEW t \in Trees, NEW a \in Arenas, ReleaseBorrowed(t, a)
  PROVE  IInv'
  <1> USE DEF IInv
  <1>a. a \in Arenas /\ a \in ReferencedArenas(t)
    BY NilArena DEF ReleaseBorrowed, TypeOK, Shape, Nodes, ReferencedArenas
  <1>b. refs[a] \in Nat /\ refs[a] > 0 /\ place[a] = "inuse"
    BY <1>a, HeldIsCounted DEF InUseIffHeld
  <1>1. TypeOK'
    BY <1>a, <1>b DEF ReleaseBorrowed, DropRef, TypeOK, Places, Statuses
  <1>2. RefsExact'
    <2>1. ReferencedArenas(t)' = ReferencedArenas(t) \ {a}
      BY <1>a, NilArena DEF ReleaseBorrowed, DropRef, TypeOK, ReferencedArenas, Shape, Nodes
    <2>2. \A u \in Trees \ {t} : ReferencedArenas(u)' = ReferencedArenas(u)
      BY DEF ReleaseBorrowed, TypeOK, ReferencedArenas
    <2>3. refs' = [refs EXCEPT ![a] = @ - 1]
      BY DEF ReleaseBorrowed, DropRef
    <2> QED
      BY <1>a, <2>1, <2>2, <2>3, DropKeepsCount
  <1>3. InUseIffHeld'
    BY <1>a, <1>b DEF ReleaseBorrowed, DropRef, TypeOK, InUseIffHeld
  <1>4. IdleArenasAreClean'
    BY <1>a DEF ReleaseBorrowed, DropRef, TypeOK, IdleArenasAreClean
  <1>5. OldTreeOutlivesParse'
    BY NilTree DEF ReleaseBorrowed, DropRef, TypeOK, OldTreeOutlivesParse, Building, Shape, Nodes
  <1>6. Shape'
    <2>1. \A u \in Trees : Building(u) => old[u] # t
      BY NilTree DEF ReleaseBorrowed, OldTreeOutlivesParse
    <2>2. \A u \in Trees : todo[u] # {} => Building(u) /\ old[u] \in Trees
      BY DEF TypeOK, Shape, Nodes, Building
    <2>3. \A u \in Trees \ {t} : ReferencedArenas(u)' = ReferencedArenas(u)
      BY DEF ReleaseBorrowed, TypeOK, ReferencedArenas
    <2> QED
      BY <2>1, <2>2, <2>3, NilArena DEF ReleaseBorrowed, TypeOK, Shape, Nodes
  <1>7. NodesAreStored'
    <2>1. \A u \in Trees : Building(u) => old[u] # t
      BY NilTree DEF ReleaseBorrowed, OldTreeOutlivesParse
    <2>2. \A u \in Trees : todo[u] # {} => Building(u) /\ old[u] \in Trees
      BY DEF TypeOK, Shape, Nodes, Building
    <2>3. \A u \in Trees \ {t} : ReferencedArenas(u)' = ReferencedArenas(u)
      BY DEF ReleaseBorrowed, TypeOK, ReferencedArenas
    <2>4. \A u \in Trees \ {t} : Relied(u)' = Relied(u)
      BY <2>1, <2>3 DEF ReleaseBorrowed, TypeOK, Shape, Nodes, Relied, ArenasToRetain, Building
    <2> QED
      BY <2>4 DEF ReleaseBorrowed, DropRef, TypeOK, NodesAreStored, Readable
  <1>8. OwnArenaIsPrivate'
    BY DEF ReleaseBorrowed, DropRef, TypeOK, OwnArenaIsPrivate, ReferencedArenas
  <1>9. StoredAtHome'
    BY DEF ReleaseBorrowed, DropRef, TypeOK, StoredAtHome
  <1> QED
    BY <1>1, <1>2, <1>3, <1>4, <1>5, <1>6, <1>7, <1>8, <1>9

LEMMA ReleaseOwnKeeps ==
  ASSUME IInv, NEW t \in Trees, ReleaseOwn(t)
  PROVE  IInv'
  <1> USE DEF IInv
  <1>a. own[t] \in Arenas /\ own[t] \in ReferencedArenas(t)
    BY NilArena DEF ReleaseOwn, TypeOK, Shape, Nodes, ReferencedArenas
  <1>b. refs[own[t]] \in Nat /\ refs[own[t]] > 0 /\ place[own[t]] = "inuse"
    BY <1>a, HeldIsCounted DEF InUseIffHeld
  <1>1. TypeOK'
    BY <1>a, <1>b DEF ReleaseOwn, DropRef, TypeOK, Places, Statuses
  <1>2. RefsExact'
    <2>1. ReferencedArenas(t)' = ReferencedArenas(t) \ {own[t]}
      BY <1>a, NilArena DEF ReleaseOwn, DropRef, TypeOK, ReferencedArenas, Shape, Nodes
    <2>2. \A u \in Trees \ {t} : ReferencedArenas(u)' = ReferencedArenas(u)
      BY DEF ReleaseOwn, TypeOK, ReferencedArenas
    <2>3. refs' = [refs EXCEPT ![own[t]] = @ - 1]
      BY DEF ReleaseOwn, DropRef
    <2> QED
      BY <1>a, <2>1, <2>2, <2>3, DropKeepsCount
  <1>3. InUseIffHeld'
    BY <1>a, <1>b DEF ReleaseOwn, DropRef, TypeOK, InUseIffHeld
  <1>4. IdleArenasAreClean'
    BY <1>a DEF ReleaseOwn, DropRef, TypeOK, IdleArenasAreClean
  <1>5. OldTreeOutlivesParse'
    BY NilTree DEF ReleaseOwn, DropRef, TypeOK, OldTreeOutlivesParse, Building, Shape, Nodes
  <1>6. Shape'
    <2>1. \A u \in Trees : Building(u) => old[u] # t
      BY NilTree DEF ReleaseOwn, OldTreeOutlivesParse
    <2>2. \A u \in Trees : todo[u] # {} => Building(u) /\ old[u] \in Trees
      BY DEF TypeOK, Shape, Nodes, Building
    <2>3. \A u \in Trees \ {t} : ReferencedArenas(u)' = ReferencedArenas(u)
      BY DEF ReleaseOwn, TypeOK, ReferencedArenas
    <2> QED
      BY <2>1, <2>2, <2>3, NilArena DEF ReleaseOwn, TypeOK, Shape, Nodes
  <1>7. NodesAreStored'
    <2>1. \A u \in Trees : Building(u) => old[u] # t
      BY NilTree DEF ReleaseOwn, OldTreeOutlivesParse
    <2>2. \A u \in Trees : todo[u] # {} => Building(u) /\ old[u] \in Trees
      BY DEF TypeOK, Shape, Nodes, Building
    <2>3. \A u \in Trees \ {t} : ReferencedArenas(u)' = ReferencedArenas(u)
      BY DEF ReleaseOwn, TypeOK, ReferencedArenas
    <2>4. \A u \in Trees \ {t} : Relied(u)' = Relied(u)
      BY <2>1, <2>3 DEF ReleaseOwn, TypeOK, Shape, Nodes, Relied, ArenasToRetain, Building
    <2> QED
      BY <2>4 DEF ReleaseOwn, DropRef, TypeOK, NodesAreStored, Readable
  <1>8. OwnArenaIsPrivate'
    BY DEF ReleaseOwn, DropRef, TypeOK, OwnArenaIsPrivate, ReferencedArenas
  <1>9. StoredAtHome'
    BY DEF ReleaseOwn, DropRef, TypeOK, StoredAtHome
  <1> QED
    BY <1>1, <1>2, <1>3, <1>4, <1>5, <1>6, <1>7, <1>8, <1>9

LEMMA ResetArenaKeeps ==
  ASSUME IInv, NEW a \in Arenas, ResetArena(a)
  PROVE  IInv'
  <1> USE DEF IInv
  <1>1. TypeOK'
    BY DEF ResetArena, treeVars, TypeOK, Places, Statuses, ReferencedArenas, ArenasToRetain
  <1>2. RefsExact'
    BY SameKeepsCount DEF ResetArena, treeVars, TypeOK, Shape, Nodes, ReferencedArenas
  <1>3. InUseIffHeld'
    BY HeldIsCounted DEF ResetArena, treeVars, TypeOK, InUseIffHeld
  <1>4. IdleArenasAreClean'
    BY DEF ResetArena, treeVars, TypeOK, IdleArenasAreClean
  <1>5. OldTreeOutlivesParse'
    BY NilTree DEF ResetArena, treeVars, TypeOK, OldTreeOutlivesParse, Building, Shape, Nodes
  <1>6. Shape'
    BY NilArena, NilTree DEF ResetArena, treeVars, TypeOK, Shape, Nodes, ReferencedArenas, ArenasToRetain
  <1>7. NodesAreStored'
    <2>1. \A u \in Trees : Readable(u) => a \notin Relied(u)
      BY ReliedIsHeld, IdleIsUnheld DEF ResetArena
    <2>2. \A u \in Trees : Relied(u)' = Relied(u)
      BY DEF ResetArena, treeVars, Relied, ReferencedArenas, ArenasToRetain
    <2> QED
      BY <2>1, <2>2 DEF ResetArena, treeVars, TypeOK, NodesAreStored, Readable
  <1>8. OwnArenaIsPrivate'
    BY DEF ResetArena, treeVars, TypeOK, OwnArenaIsPrivate, ReferencedArenas
  <1>9. StoredAtHome'
    BY DEF ResetArena, treeVars, TypeOK, StoredAtHome
  <1> QED
    BY <1>1, <1>2, <1>3, <1>4, <1>5, <1>6, <1>7, <1>8, <1>9

LEMMA PutArenaKeeps ==
  ASSUME IInv, NEW a \in Arenas, PutArena(a)
  PROVE  IInv'
  <1> USE DEF IInv
  <1>1. TypeOK'
    BY DEF PutArena, treeVars, TypeOK, Places, Statuses, ReferencedArenas, ArenasToRetain
  <1>2. RefsExact'
    BY SameKeepsCount DEF PutArena, treeVars, TypeOK, Shape, Nodes, ReferencedArenas
  <1>3. InUseIffHeld'
    BY HeldIsCounted DEF PutArena, treeVars, TypeOK, InUseIffHeld
  <1>4. IdleArenasAreClean'
    BY DEF PutArena, treeVars, TypeOK, IdleArenasAreClean
  <1>5. OldTreeOutlivesParse'
    BY NilTree DEF PutArena, treeVars, TypeOK, OldTreeOutlivesParse, Building, Shape, Nodes
  <1>6. Shape'
    BY NilArena, NilTree DEF PutArena, treeVars, TypeOK, Shape, Nodes, ReferencedArenas, ArenasToRetain
  <1>7. NodesAreStored'
    BY DEF PutArena, treeVars, TypeOK, Shape, Nodes, NodesAreStored, Readable, Relied, ReferencedArenas, ArenasToRetain
  <1>8. OwnArenaIsPrivate'
    BY DEF PutArena, treeVars, TypeOK, OwnArenaIsPrivate, ReferencedArenas
  <1>9. StoredAtHome'
    BY DEF PutArena, treeVars, TypeOK, StoredAtHome
  <1> QED
    BY <1>1, <1>2, <1>3, <1>4, <1>5, <1>6, <1>7, <1>8, <1>9

LEMMA CollectArenaKeeps ==
  ASSUME IInv, NEW a \in Arenas, CollectArena(a)
  PROVE  IInv'
  <1> USE DEF IInv
  <1>1. TypeOK'
    BY DEF CollectArena, treeVars, TypeOK, Places, Statuses, ReferencedArenas, ArenasToRetain
  <1>2. RefsExact'
    BY SameKeepsCount DEF CollectArena, treeVars, TypeOK, Shape, Nodes, ReferencedArenas
  <1>3. InUseIffHeld'
    BY HeldIsCounted DEF CollectArena, treeVars, TypeOK, InUseIffHeld
  <1>4. IdleArenasAreClean'
    BY DEF CollectArena, treeVars, TypeOK, IdleArenasAreClean
  <1>5. OldTreeOutlivesParse'
    BY NilTree DEF CollectArena, treeVars, TypeOK, OldTreeOutlivesParse, Building, Shape, Nodes
  <1>6. Shape'
    BY NilArena, NilTree DEF CollectArena, treeVars, TypeOK, Shape, Nodes, ReferencedArenas, ArenasToRetain
  <1>7. NodesAreStored'
    BY DEF CollectArena, treeVars, TypeOK, Shape, Nodes, NodesAreStored, Readable, Relied, ReferencedArenas, ArenasToRetain
  <1>8. OwnArenaIsPrivate'
    BY DEF CollectArena, treeVars, TypeOK, OwnArenaIsPrivate, ReferencedArenas
  <1>9. StoredAtHome'
    BY DEF CollectArena, treeVars, TypeOK, StoredAtHome
  <1> QED
    BY <1>1, <1>2, <1>3, <1>4, <1>5, <1>6, <1>7, <1>8, <1>9
-----------------------------------------------------------------------------
(* The invariant and what follows from it.                                 *)

LEMMA InitHolds == Init => IInv
  <1> SUFFICES ASSUME Init PROVE IInv
    OBVIOUS
  <1>1. \A a \in Arenas : Holders(a) = {}
    BY NilArena DEF Init, Holders, ReferencedArenas
  <1>2. RefsExact
    BY <1>1, FS_EmptySet DEF Init, RefsExact
  <1>3. InUseIffHeld /\ IdleArenasAreClean /\ OldTreeOutlivesParse
    BY DEF Init, InUseIffHeld, IdleArenasAreClean, OldTreeOutlivesParse, Building
  <1>4. Shape /\ NodesAreStored /\ OwnArenaIsPrivate /\ StoredAtHome
    BY NilArena DEF Init, Shape, Nodes, NodesAreStored, Readable, OwnArenaIsPrivate, StoredAtHome
  <1> QED
    BY <1>2, <1>3, <1>4, InitType DEF IInv

LEMMA StutterKeeps == IInv /\ UNCHANGED vars => IInv'
  <1> SUFFICES ASSUME IInv, UNCHANGED vars PROVE IInv'
    OBVIOUS
  <1>1. \A t \in Trees : ReferencedArenas(t)' = ReferencedArenas(t) /\ Relied(t)' = Relied(t)
    BY DEF vars, ReferencedArenas, Relied, ArenasToRetain
  <1>2. RefsExact'
    BY <1>1, SameKeepsCount DEF IInv, vars
  <1>3. TypeOK' /\ InUseIffHeld' /\ IdleArenasAreClean' /\ OldTreeOutlivesParse'
    BY DEF IInv, vars, TypeOK, InUseIffHeld, IdleArenasAreClean, OldTreeOutlivesParse, Building
  <1>4. Shape'
    BY <1>1 DEF IInv, TypeOK, vars, Shape, Nodes, ReferencedArenas
  <1>5. NodesAreStored' /\ OwnArenaIsPrivate' /\ StoredAtHome'
    BY <1>1 DEF IInv, vars, NodesAreStored, Readable, OwnArenaIsPrivate, StoredAtHome
  <1> QED
    BY <1>2, <1>3, <1>4, <1>5 DEF IInv

LEMMA NextKeeps == IInv /\ [Next]_vars => IInv'
  <1> SUFFICES ASSUME IInv, [Next]_vars PROVE IInv'
    OBVIOUS
  <1>1. CASE \E t \in Trees : ParseStep(t)
    BY <1>1, ParseFullKeeps, ParseIncrementalKeeps, AllocNodesKeeps, ReuseSubtreeKeeps,
       DropNodesKeeps, FinishEmptyKeeps, FinishKeeps, RetainBorrowedKeeps, ReturnTreeKeeps
       DEF ParseStep, IInv, TypeOK, Nodes
  <1>2. CASE \E t \in Trees : Release(t) \/ ReleaseStep(t)
    BY <1>2, ReleaseKeeps, ReleaseBorrowedKeeps, ReleaseOwnKeeps DEF ReleaseStep
  <1>3. CASE \E a \in Arenas : PoolStep(a) \/ CollectArena(a)
    BY <1>3, ResetArenaKeeps, PutArenaKeeps, CollectArenaKeeps DEF PoolStep
  <1>4. CASE UNCHANGED vars
    BY <1>4, StutterKeeps
  <1> QED
    BY <1>1, <1>2, <1>3, <1>4 DEF Next

(* IInv is an inductive invariant of the specification.                    *)
THEOREM Invariance == Spec => []IInv
  BY InitHolds, NextKeeps, PTL DEF Spec

(* Every variable keeps its type; in particular no count goes below zero,  *)
(* whatever the interleaving of retains and releases.                      *)
THEOREM Typing == Spec => []TypeOK
  <1>1. IInv => TypeOK
    BY DEF IInv
  <1> QED
    BY <1>1, Invariance, PTL

(* nodeArena.refs equals the number of trees that hold the arena, and the  *)
(* arena is in use exactly while that number is positive.                  *)
THEOREM CountsAreExact == Spec => []RefsCountHolders
  <1>1. IInv => RefsCountHolders
    BY DEF IInv, RefsExact, InUseIffHeld, RefsCountHolders
  <1> QED
    BY <1>1, Invariance, PTL

(* No readable tree reaches recycled memory, unless a later parse has lent *)
(* it: for any number of parses and arenas, reused subtrees stay stored    *)
(* until the last tree that took them over has been released.              *)
THEOREM NoTreeIsRecycled == Spec => []NoUseAfterRecycle
  <1>1. IInv => NoUseAfterRecycle
    <2> SUFFICES ASSUME IInv, NEW t \in Trees, Readable(t), NEW o \in subs[t]
                 PROVE  /\ home[o] \in Arenas
                        /\ o \in content[home[o]]
                        /\ place[home[o]] = "inuse"
      BY DEF NoUseAfterRecycle
    <2>1. home[o] \in Arenas /\ o \in content[home[o]] /\ home[o] \in Relied(t)
      BY DEF IInv, NodesAreStored
    <2>2. PICK u \in Trees : home[o] \in ReferencedArenas(u)
      BY <2>1, ReliedIsHeld
    <2>3. refs[home[o]] > 0
      BY <2>1, <2>2, HeldIsCounted DEF IInv
    <2> QED
      BY <2>1, <2>3 DEF IInv, InUseIffHeld
  <1> QED
    BY <1>1, Invariance, PTL

(* An arena is zeroed before it can be acquired again.                     *)
THEOREM PooledArenasAreClean == Spec => []IdleArenasAreClean
  <1>1. IInv => IdleArenasAreClean
    BY DEF IInv
  <1> QED
    BY <1>1, Invariance, PTL

-----------------------------------------------------------------------------
(* Refinement: what the reference counts do is what ArenaLifetime allows.  *)

Reach(t) == IF Readable(t) THEN Nodes(t) ELSE {}
Loans(t) == IF Readable(t) THEN lent[t] ELSE {}

LEMMA ReachedIsResident ==
  ASSUME IInv, NEW t \in Trees, NEW o \in Reach(t) \ Loans(t)
  PROVE  \E a \in Arenas : o \in content[a]
  BY DEF IInv, Reach, Loans, Nodes, NodesAreStored

(* A step that stores more nodes, rearranges what one parse reaches and    *)
(* lends to other trees is an abstract Build.                              *)
LEMMA BuildsAbstractly ==
  ASSUME IInv, IInv', NEW t \in Trees, NEW A \in SUBSET Arenas,
         content' = [a \in Arenas |-> IF a \in A THEN content[a] \cup {t} ELSE content[a]],
         Readable(t)',
         Loans(t)' \subseteq Loans(t) \/ \E u \in Trees \ {t} : Loans(u) # {},
         \A u \in Trees \ {t} :
           Reach(u) \subseteq Reach(u)' /\ Loans(u)' = Loans(u) \cup (Reach(u)' \ Reach(u))
  PROVE  Lifetime!Build(t)
  <1>1. \A o \in Reach(t)' \ Loans(t)' : \E a \in Arenas : o \in content'[a]
    BY ReachedIsResident DEF IInv, Reach, Loans, Nodes, NodesAreStored
  <1>2. \A u \in Trees : Reach(u)' \in SUBSET Trees /\ Loans(u)' \in SUBSET Trees
    BY DEF IInv, TypeOK, Reach, Loans, Nodes
  <1> QED
    BY <1>1, <1>2 DEF Lifetime!Build, Reach, Loans

LEMMA StuttersAbstractly ==
  ASSUME content' = content, \A u \in Trees : Reach(u)' = Reach(u) /\ Loans(u)' = Loans(u)
  PROVE  UNCHANGED Lifetime!vars
  BY DEF Lifetime!vars, Reach, Loans

LEMMA StepImplements == IInv /\ IInv' /\ [Next]_vars => [Lifetime!Next]_(Lifetime!vars)
  <1> SUFFICES ASSUME IInv, IInv', [Next]_vars
               PROVE  Lifetime!Next \/ UNCHANGED Lifetime!vars
    OBVIOUS
  <1> USE DEF Reach, Loans, Nodes, Readable
  <1>1. ASSUME NEW t \in Trees, ParseFull(t) \/ ParseIncremental(t)
        PROVE  UNCHANGED Lifetime!vars
    <2>1. Nodes(t) = {}
      BY <1>1 DEF IInv, Shape, Nodes, ParseFull, ParseIncremental
    <2>2. content' = content /\ subs' = subs /\ lent' = lent
      BY <1>1 DEF ParseFull, ParseIncremental, Acquire
    <2>3. \A u \in Trees \ {t} : status'[u] = status[u]
      BY <1>1 DEF ParseFull, ParseIncremental, IInv, TypeOK
    <2> QED
      BY <2>1, <2>2, <2>3, StuttersAbstractly
  <1>2. ASSUME NEW t \in Trees, NEW S, AllocNodes(t, S)
        PROVE  Lifetime!Build(t)
    <2>1. own[t] \in Arenas
      BY <1>2 DEF AllocNodes, IInv, Shape, Nodes
    <2>2. content' = [a \in Arenas |-> IF a \in {own[t]} THEN content[a] \cup {t} ELSE content[a]]
      BY <1>2, <2>1 DEF AllocNodes, IInv, TypeOK
    <2>3. {own[t]} \in SUBSET Arenas
      BY <2>1
    <2>4. /\ Readable(t)' /\ Loans(t)' = Loans(t)
          /\ \A u \in Trees \ {t} : Reach(u)' = Reach(u) /\ Loans(u)' = Loans(u)
      BY <1>2 DEF AllocNodes, IInv, TypeOK
    <2> QED
      BY <2>2, <2>3, <2>4, BuildsAbstractly
  <1>3. ASSUME NEW t \in Trees, NEW S, ReuseSubtree(t, S) \/ DropNodes(t, S)
        PROVE  Lifetime!Build(t)
    <2>1. content' = [a \in Arenas |-> IF a \in {} THEN content[a] \cup {t} ELSE content[a]]
      BY <1>3 DEF ReuseSubtree, DropNodes, IInv, TypeOK
    <2>2. /\ Readable(t)'
          /\ \A u \in Trees \ {t} : Reach(u)' = Reach(u) /\ Loans(u)' = Loans(u)
      <3>1. status[t] = "parsing" /\ status' = status
        BY <1>3 DEF ReuseSubtree, DropNodes
      <3>2. \A u \in Trees \ {t} : subs'[u] = subs[u] /\ lent'[u] = lent[u]
        BY <1>3 DEF ReuseSubtree, DropNodes, IInv, TypeOK
      <3> QED
        BY <3>1, <3>2
    <2>3. {} \in SUBSET Arenas
      OBVIOUS
    <2>4. CASE DropNodes(t, S)
      <3>1. Loans(t)' \subseteq Loans(t)
        BY <2>4 DEF DropNodes, IInv, TypeOK
      <3> QED
        BY <2>1, <2>2, <2>3, <3>1, BuildsAbstractly
    <2>5. CASE ReuseSubtree(t, S)
      <3>1. old[t] \in Trees \ {t} /\ status[old[t]] = "live"
        BY <2>5 DEF ReuseSubtree, IInv, TypeOK, OldTreeOutlivesParse, Building
      <3>2. lent[old[t]] = {} => S \subseteq subs[old[t]]
        BY <2>5 DEF ReuseSubtree, Reachable
      <3>3. Loans(t)' \subseteq Loans(t) \/ Loans(old[t]) # {}
        BY <2>5, <3>1, <3>2 DEF ReuseSubtree, IInv, TypeOK
      <3> QED
        BY <2>1, <2>2, <2>3, <3>1, <3>3, BuildsAbstractly
    <2> QED
      BY <1>3, <2>4, <2>5
  <1>4. ASSUME NEW t \in Trees, FinishEmpty(t) \/ Finish(t) \/ \E a \in Arenas : RetainBorrowed(t, a)
        PROVE  UNCHANGED Lifetime!vars
    <2>1. content' = content /\ subs' = subs /\ lent' = lent
      BY <1>4 DEF FinishEmpty, Finish, RetainBorrowed, DropRef, arenaVars
    <2>2. Readable(t) /\ Readable(t)' /\ \A u \in Trees \ {t} : status'[u] = status[u]
      BY <1>4 DEF FinishEmpty, Finish, RetainBorrowed, IInv, TypeOK
    <2> QED
      BY <2>1, <2>2, StuttersAbstractly
  <1>5. ASSUME NEW t \in Trees, NEW fold, NEW wrap, ReturnTree(t, fold, wrap)
        PROVE  Lifetime!Build(t)
    <2>1. PICK A \in SUBSET Arenas :
            content' = [a \in Arenas |-> IF a \in A THEN content[a] \cup {t} ELSE content[a]]
      <3>1. CASE (fold \/ wrap) /\ own[t] # NoArena
        <4>1. {own[t]} \in SUBSET Arenas
          BY <3>1 DEF IInv, TypeOK
        <4>2. content' = [a \in Arenas |-> IF a \in {own[t]} THEN content[a] \cup {t} ELSE content[a]]
          BY <1>5, <3>1, <4>1 DEF ReturnTree, IInv, TypeOK
        <4> QED
          BY <4>1, <4>2
      <3>2. CASE ~ ((fold \/ wrap) /\ own[t] # NoArena)
        <4>1. content' = [a \in Arenas |-> IF a \in {} THEN content[a] \cup {t} ELSE content[a]]
          BY <1>5, <3>2 DEF ReturnTree, IInv, TypeOK
        <4>2. {} \in SUBSET Arenas
          OBVIOUS
        <4> QED
          BY <4>1, <4>2
      <3> QED
        BY <3>1, <3>2
    <2>2. status[t] = "retaining" /\ status' = [status EXCEPT ![t] = "live"] /\ Readable(t)'
      BY <1>5 DEF ReturnTree, IInv, TypeOK
    <2>3. \A u \in Trees \ {t} : Readable(u)' = Readable(u) /\ subs'[u] = subs[u]
      BY <1>5, <2>2 DEF ReturnTree, IInv, TypeOK
    <2>4. /\ lent'[t] = lent[t]
          /\ \A u \in Trees \ {t} :
               lent'[u] = lent[u] \/ (Readable(u) /\ \E E : lent'[u] = lent[u] \cup (E \ subs[u]))
      <3>1. old[t] # NoTree => old[t] \in Trees \ {t} /\ Readable(old[t])
        BY <2>2 DEF IInv, TypeOK, OldTreeOutlivesParse, Building
      <3>2. CASE lent' = lent
        BY <3>2
      <3>3. CASE lent' # lent
        <4>1. PICK E \in SUBSET Nodes(t), L \in SUBSET {u \in Trees \ {t} : Readable(u)} :
                lent' = [u \in Trees |-> IF u \in L \cup {old[t]}
                           THEN lent[u] \cup ((E \cup (IF own[t] = NoArena THEN {} ELSE {t})) \ subs[u])
                           ELSE lent[u]]
          BY <1>5, <3>3 DEF ReturnTree, FoldExtras
        <4> QED
          BY <3>1, <4>1, NilTree
      <3> QED
        BY <3>2, <3>3
    <2>5. Loans(t)' \subseteq Loans(t)
      BY <2>2, <2>4
    <2>6. ASSUME NEW u \in Trees \ {t}
          PROVE  Reach(u) \subseteq Reach(u)' /\ Loans(u)' = Loans(u) \cup (Reach(u)' \ Reach(u))
      BY <2>3, <2>4
    <2> QED
      BY <2>1, <2>2, <2>5, <2>6, BuildsAbstractly
  <1>6. ASSUME NEW t \in Trees, Release(t)
        PROVE  Lifetime!LetGo(t)
    BY <1>6 DEF Release, arenaVars, Lifetime!LetGo, IInv, TypeOK
  <1>7. ASSUME NEW t \in Trees, ReleaseStep(t)
        PROVE  UNCHANGED Lifetime!vars
    BY <1>7, StuttersAbstractly DEF ReleaseStep, ReleaseBorrowed, ReleaseOwn, DropRef
  <1>8. ASSUME NEW a \in Arenas, ResetArena(a)
        PROVE  Lifetime!Reclaim(a)
    <2>1. \A t \in Trees : Readable(t) => a \notin Relied(t)
      BY <1>8, ReliedIsHeld, IdleIsUnheld DEF ResetArena
    <2>2. \A t \in Trees : (Reach(t) \ Loans(t)) \cap content[a] = {}
      BY <2>1 DEF IInv, NodesAreStored, StoredAtHome, TypeOK
    <2> QED
      BY <1>8, <2>2 DEF ResetArena, treeVars, Lifetime!Reclaim
  <1>9. ASSUME NEW a \in Arenas, PutArena(a) \/ CollectArena(a)
        PROVE  UNCHANGED Lifetime!vars
    BY <1>9, StuttersAbstractly DEF PutArena, CollectArena, treeVars
  <1>10. CASE UNCHANGED vars
    BY <1>10, StuttersAbstractly DEF vars
  <1> QED
    BY <1>1, <1>2, <1>3, <1>4, <1>5, <1>6, <1>7, <1>8, <1>9, <1>10
       DEF Next, ParseStep, PoolStep, Lifetime!Next

(* Reference counting implements the counter-free contract of              *)
(* ArenaLifetime: every reset of an arena is an allowed Reclaim.           *)
THEOREM Refinement == Spec => ImplementsLifetime
  <1>1. Init => Lifetime!Init
    BY DEF Init, Lifetime!Init, Readable, Nodes
  <1>2. IInv /\ IInv' /\ [Next]_vars => [Lifetime!Next]_(Lifetime!vars)
    BY StepImplements
  <1> QED
    BY <1>1, <1>2, Invariance, PTL DEF Spec, ImplementsLifetime, Lifetime!Spec
=============================================================================
