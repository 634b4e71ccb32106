----------------------------- MODULE ArenaTrees -----------------------------
(***************************************************************************)
(* The life of node arenas and of the syntax trees that live in them       *)
(* (arena.go, tree.go, and the result side of parser.go).                  *)
(*                                                                         *)
(* A parse call takes an arena from a sync.Pool, stores its nodes there,   *)
(* may graft subtrees of an old tree, and returns a tree that holds one    *)
(* reference on its own arena and one on every arena the old tree held.    *)
(* Tree.Release gives the references back one at a time; the arena whose   *)
(* count reaches zero is zeroed and put back in the pool.  Parse calls and *)
(* releases run on any number of goroutines: every atomic operation on a   *)
(* count, every Get, reset and Put is a step of its own.                   *)
(*                                                                         *)
(* A member of Trees names a parse call, the tree it returns and, where a  *)
(* set of "origins" is meant, the nodes it allocated.                      *)
(***************************************************************************)
EXTENDS Naturals, FiniteSets

CONSTANTS
  Trees,      \* parse calls / the trees they return
  Arenas,     \* identities of nodeArena objects
  FullArenas, \* those of arenaClassFull; the others are arenaClassIncremental
  NoArena,    \* nil *nodeArena
  NoTree      \* nil *Tree

ASSUME TreesFinite == IsFiniteSet(Trees)
ASSUME FullAreArenas == FullArenas \subseteq Arenas
ASSUME NilArena == NoArena \notin Arenas
ASSUME NilTree == NoTree \notin Trees

Places == {"fresh",      \* not allocated yet, or dropped by the garbage collector
           "inuse",      \* acquired, refs > 0
           "draining",   \* refs just reached 0, reset() has not run
           "clean",      \* reset() has run, Put has not
           "pool"}       \* idle in the sync.Pool of its class

Statuses == {"none",     \* not called yet
             "parsing",  \* inside parseInternal's loop
             "retaining",\* in retainBorrowedArenas
             "live",     \* returned to the caller
             "released"} \* Release was called; references go back one by one

VARIABLES
  place,      \* place[a]: where arena a is in its life
  refs,       \* refs[a]: nodeArena.refs
  content,    \* content[a]: origins with nodes in a (used > 0 iff non-empty)
  status,     \* status[t]
  old,        \* old[t]: the oldTree argument of parse t
  own,        \* own[t]: Tree.arena (the arena variable while parsing)
  home,       \* home[t]: the arena parse t allocated from (history)
  borrowed,   \* borrowed[t]: Tree.borrowedArena, as far as retained/unreleased
  todo,       \* todo[t]: arenas retainBorrowedArenas has still to Retain
  reusedAny,  \* reusedAny[t]: parseInternal's flag
  subs,       \* subs[t]: origins of the nodes on the stack, then in the tree
  lent,       \* lent[t]: origins t only reaches through a node of its own to which
              \* a later parse gave new children; t holds no arena for them
  parent      \* parent[o]: the tree whose node the subtrees of o point up to

arenaVars == <<place, refs, content>>
treeVars == <<status, old, own, home, borrowed, todo, reusedAny, subs, lent, parent>>
vars == <<place, refs, content, status, old, own, home, borrowed, todo,
          reusedAny, subs, lent, parent>>

Building(t) == status[t] \in {"parsing", "retaining"}
Readable(t) == status[t] \in {"parsing", "retaining", "live"}

(* Tree.referencedArenas: the primary arena and the borrowed ones.         *)
ReferencedArenas(t) == borrowed[t] \cup ({own[t]} \ {NoArena})

(* The trees that hold a reference on arena a.                             *)
Holders(a) == {t \in Trees : a \in ReferencedArenas(t)}

(* The nodes of a tree, or of a parse's stack, lent ones included.           *)
Nodes(t) == subs[t] \cup lent[t]

(* What is found where lent nodes are or were: an arena that was recycled  *)
(* has other nodes by now, which lead to all that their trees reach.       *)
Reachable(t) ==
  Nodes(t) \cup UNION {Nodes(o) : o \in UNION {content[home[p]] : p \in lent[t]}}

Init ==
  /\ place = [a \in Arenas |-> "fresh"]
  /\ refs = [a \in Arenas |-> 0]
  /\ content = [a \in Arenas |-> {}]
  /\ status = [t \in Trees |-> "none"]
  /\ old = [t \in Trees |-> NoTree]
  /\ own = [t \in Trees |-> NoArena]
  /\ home = [t \in Trees |-> NoArena]
  /\ borrowed = [t \in Trees |-> {}]
  /\ todo = [t \in Trees |-> {}]
  /\ reusedAny = [t \in Trees |-> FALSE]
  /\ subs = [t \in Trees |-> {}]
  /\ lent = [t \in Trees |-> {}]
  /\ parent = [t \in Trees |-> t]

-----------------------------------------------------------------------------
(* Parsing.                                                                *)

(* acquireNodeArena: a pooled arena of the class, or a new one.  sync.Pool *)
(* may miss although another arena of the class is idle.                   *)
Acquire(t, a) ==
  /\ place[a] \in {"fresh", "pool"}
  /\ place' = [place EXCEPT ![a] = "inuse"]
  /\ refs' = [refs EXCEPT ![a] = 1]
  /\ own' = [own EXCEPT ![t] = a]
  /\ home' = [home EXCEPT ![t] = a]
  /\ UNCHANGED content

(* Parse, ParseWithTokenSource: a full parse has no old tree.              *)
ParseFull(t) ==
  /\ status[t] = "none"
  /\ \E a \in FullArenas : Acquire(t, a)
  /\ status' = [status EXCEPT ![t] = "parsing"]
  /\ UNCHANGED <<old, borrowed, todo, reusedAny, subs, lent, parent>>

(* ParseIncremental past its fast path (the source changed or edits are    *)
(* recorded); the old tree may be nil.  The fast path returns oldTree      *)
(* itself and changes nothing.                                             *)
ParseIncremental(t) ==
  /\ status[t] = "none"
  /\ \E o \in {NoTree} \cup {u \in Trees : status[u] = "live"} :
       old' = [old EXCEPT ![t] = o]
  /\ \E a \in Arenas \ FullArenas : Acquire(t, a)
  /\ status' = [status EXCEPT ![t] = "parsing"]
  /\ UNCHANGED <<borrowed, todo, reusedAny, subs, lent, parent>>

(* A shift, an error leaf or a reduce allocates nodes from the arena; a    *)
(* reduce makes them the parent of the stacked nodes S it takes as         *)
(* children, grafted ones included.                                        *)
AllocNodes(t, S) ==
  /\ status[t] = "parsing"
  /\ content' = [content EXCEPT ![own[t]] = @ \cup {t}]
  /\ subs' = [subs EXCEPT ![t] = @ \cup {t}]
  /\ parent' = [o \in Trees |-> IF o \in S THEN t ELSE parent[o]]
  /\ UNCHANGED <<place, refs, status, old, own, home, borrowed, todo, reusedAny, lent>>

(* tryReuseSubtree pushes a subtree of the old tree, which may contain     *)
(* nodes of several earlier parses; what the old tree has on loan stays    *)
(* unheld in the new one.                                                  *)
ReuseSubtree(t, S) ==
  /\ status[t] = "parsing"
  /\ old[t] # NoTree
  /\ S # {} /\ S \subseteq Reachable(old[t])
  /\ subs' = [subs EXCEPT ![t] = @ \cup (S \cap subs[old[t]])]
  /\ lent' = [lent EXCEPT ![t] = @ \cup (S \ subs[old[t]])]
  /\ reusedAny' = [reusedAny EXCEPT ![t] = TRUE]
  /\ UNCHANGED <<place, refs, content, status, old, own, home, borrowed, todo, parent>>

(* A stack version dies, or recovery truncates it: only S stays stacked.   *)
DropNodes(t, S) ==
  /\ status[t] = "parsing"
  /\ S \subseteq Nodes(t) /\ S # Nodes(t)
  /\ subs' = [subs EXCEPT ![t] = @ \cap S]
  /\ lent' = [lent EXCEPT ![t] = @ \cap S]
  /\ UNCHANGED <<place, refs, content, status, old, own, home, borrowed, todo,
                 reusedAny, parent>>

-----------------------------------------------------------------------------
(* References.                                                             *)

(* nodeArena.Release up to the atomic decrement: whoever sees zero goes on *)
(* to reset and Put the arena.                                             *)
DropRefEarly(a) ==            \* faulty variant: compares the count before the decrement
  /\ refs' = [refs EXCEPT ![a] = @ - 1]
  /\ place' = [place EXCEPT ![a] = IF refs[a] <= 2 THEN "draining" ELSE @]
  /\ UNCHANGED content

DropRef(a) ==
  /\ refs' = [refs EXCEPT ![a] = @ - 1]
  /\ place' = [place EXCEPT ![a] = IF refs[a] = 1 THEN "draining" ELSE @]
  /\ UNCHANGED content

ResetArenaSkipsNodes(a) ==    \* faulty variant: used is cleared before the loop reads it
  /\ place[a] = "draining"
  /\ place' = [place EXCEPT ![a] = "clean"]
  /\ UNCHANGED <<refs, content, treeVars>>

ResetArena(a) ==
  /\ place[a] = "draining"
  /\ place' = [place EXCEPT ![a] = "clean"]
  /\ content' = [content EXCEPT ![a] = {}]
  /\ UNCHANGED <<refs, treeVars>>

PutArena(a) ==
  /\ place[a] = "clean"
  /\ place' = [place EXCEPT ![a] = "pool"]
  /\ UNCHANGED <<refs, content, treeVars>>

(* The garbage collector may drop idle members of a sync.Pool.             *)
CollectArena(a) ==
  /\ place[a] = "pool"
  /\ place' = [place EXCEPT ![a] = "fresh"]
  /\ UNCHANGED <<refs, content, treeVars>>

-----------------------------------------------------------------------------
(* Results.                                                                *)

(* No stack survives, or no node is stacked: the arena goes back and the   *)
(* tree is empty or a heap-allocated error node.                           *)
FinishEmptyLeaks(t) ==        \* faulty variant: the early return forgets arena.Release
  /\ status[t] = "parsing"
  /\ Nodes(t) = {}
  /\ own' = [own EXCEPT ![t] = NoArena]
  /\ status' = [status EXCEPT ![t] = "live"]
  /\ UNCHANGED <<arenaVars, old, home, borrowed, todo, reusedAny, subs, lent, parent>>

FinishEmpty(t) ==
  /\ status[t] = "parsing"
  /\ Nodes(t) = {}
  /\ DropRef(own[t])
  /\ own' = [own EXCEPT ![t] = NoArena]
  /\ status' = [status EXCEPT ![t] = "live"]
  /\ UNCHANGED <<old, home, borrowed, todo, reusedAny, subs, lent, parent>>

(* What retainBorrowedArenas walks over.                                   *)
PrimaryArenaOnly(t) ==        \* faulty variant: forgets what the old tree borrowed itself
  IF reusedAny[t] THEN {own[old[t]]} \ {NoArena} ELSE {}

ArenasToRetain(t) == IF reusedAny[t] THEN ReferencedArenas(old[t]) ELSE {}

(* buildResult gives an unused arena back at once and then collects the    *)
(* old tree's arenas when anything was reused.                             *)
Finish(t) ==
  /\ status[t] = "parsing"
  /\ Nodes(t) # {}
  /\ IF content[own[t]] = {}
       THEN DropRef(own[t]) /\ own' = [own EXCEPT ![t] = NoArena]
       ELSE UNCHANGED <<arenaVars, own>>
  /\ todo' = [todo EXCEPT ![t] = ArenasToRetain(t)]
  /\ status' = [status EXCEPT ![t] = "retaining"]
  /\ UNCHANGED <<old, home, borrowed, reusedAny, subs, lent, parent>>

(* One turn of the loop of retainBorrowedArenas.                           *)
RetainBorrowedUncounted(t, a) == \* faulty variant: lists the arena without Retain
  /\ status[t] = "retaining"
  /\ a \in todo[t]
  /\ todo' = [todo EXCEPT ![t] = @ \ {a}]
  /\ borrowed' = [borrowed EXCEPT ![t] = @ \cup {a}]
  /\ UNCHANGED <<arenaVars, status, old, own, home, reusedAny, subs, lent, parent>>

RetainBorrowed(t, a) ==
  /\ status[t] = "retaining"
  /\ a \in todo[t]
  /\ refs' = [refs EXCEPT ![a] = @ + 1]
  /\ todo' = [todo EXCEPT ![t] = @ \ {a}]
  /\ borrowed' = [borrowed EXCEPT ![t] = @ \cup {a}]
  /\ UNCHANGED <<place, content, status, old, own, home, reusedAny, subs, lent, parent>>

(* With one node besides extras on the stack, that node is given a new     *)
(* slice of children, extras E included, from the arena of t or, without   *)
(* one, from the heap.  A root new in t is nobody else's.  One reused from *)
(* the old tree is a node of that tree, and of others, say L: they now     *)
(* reach the slice and the extras, and nothing is retained for them.       *)
FoldExtras(t) ==
  \/ /\ t \in subs[t]
     /\ UNCHANGED lent
  \/ \E r \in Nodes(t) \ {t}, E \in SUBSET Nodes(t) :
     \E L \in SUBSET {u \in Trees \ {t} : Readable(u) /\ r \in Reachable(u)} :
       lent' = [u \in Trees |->
                  IF u \in L \cup {old[t]}
                    THEN lent[u] \cup ((E \cup (IF own[t] = NoArena THEN {} ELSE {t})) \ subs[u])
                    ELSE lent[u]]

(* The rest of buildResult: a lone node becomes the root as it is, extras  *)
(* are folded into the only other node, and several nodes (or a root of    *)
(* the wrong symbol, folded or not) get a new root, allocated from the     *)
(* arena or, without one, from the heap.                                   *)
ReturnTree(t, fold, wrap) ==
  /\ status[t] = "retaining"
  /\ todo[t] = {}
  /\ status' = [status EXCEPT ![t] = "live"]
  /\ IF fold THEN FoldExtras(t) ELSE UNCHANGED lent
  /\ parent' = [o \in Trees |-> IF wrap /\ o \in Nodes(t) THEN t ELSE parent[o]]
  /\ IF (fold \/ wrap) /\ own[t] # NoArena
       THEN /\ content' = [content EXCEPT ![own[t]] = @ \cup {t}]
            /\ subs' = [subs EXCEPT ![t] = @ \cup {t}]
       ELSE UNCHANGED <<content, subs>>
  /\ UNCHANGED <<place, refs, old, own, home, borrowed, todo, reusedAny>>

(* Tree.Release sets the flag; a second call returns at once.  The caller  *)
(* keeps an old tree until the incremental parse it was given to returns.  *)
Release(t) ==
  /\ status[t] = "live"
  /\ \A u \in Trees : Building(u) => old[u] # t
  /\ status' = [status EXCEPT ![t] = "released"]
  /\ UNCHANGED <<arenaVars, old, own, home, borrowed, todo, reusedAny, subs, lent, parent>>

ReleaseBorrowed(t, a) ==
  /\ status[t] = "released"
  /\ a \in borrowed[t]
  /\ DropRef(a)
  /\ borrowed' = [borrowed EXCEPT ![t] = @ \ {a}]
  /\ UNCHANGED <<status, old, own, home, todo, reusedAny, subs, lent, parent>>

ReleaseOwnKeepsPointer(t) ==  \* faulty variant: t.arena is not set to nil
  /\ status[t] = "released"
  /\ borrowed[t] = {}
  /\ own[t] # NoArena
  /\ DropRef(own[t])
  /\ UNCHANGED treeVars

ReleaseOwn(t) ==
  /\ status[t] = "released"
  /\ borrowed[t] = {}
  /\ own[t] # NoArena
  /\ DropRef(own[t])
  /\ own' = [own EXCEPT ![t] = NoArena]
  /\ UNCHANGED <<status, old, home, borrowed, todo, reusedAny, subs, lent, parent>>

-----------------------------------------------------------------------------
ParseStep(t) ==
  \/ ParseFull(t)
  \/ ParseIncremental(t)
  \/ \E S \in SUBSET Nodes(t) : AllocNodes(t, S)
  \/ \E S \in SUBSET Trees : ReuseSubtree(t, S) \/ DropNodes(t, S)
  \/ FinishEmpty(t)
  \/ Finish(t)
  \/ \E a \in Arenas : RetainBorrowed(t, a)
  \/ \E fold, wrap \in BOOLEAN : ReturnTree(t, fold, wrap)

ReleaseStep(t) ==
  \/ \E a \in Arenas : ReleaseBorrowed(t, a)
  \/ ReleaseOwn(t)

PoolStep(a) == ResetArena(a) \/ PutArena(a)

Next ==
  \/ \E t \in Trees : ParseStep(t) \/ Release(t) \/ ReleaseStep(t)
  \/ \E a \in Arenas : PoolStep(a) \/ CollectArena(a)

(* A goroutine inside Release runs it to its end; nobody has to parse, to  *)
(* release a tree or to collect the pool.                                  *)
Fairness ==
  /\ \A t \in Trees : WF_vars(ReleaseStep(t))
  /\ \A a \in Arenas : WF_vars(PoolStep(a))

Spec == Init /\ [][Next]_vars
FairSpec == Spec /\ Fairness

-----------------------------------------------------------------------------
(* Properties.                                                             *)

TypeOK ==
  /\ place \in [Arenas -> Places]
  /\ refs \in [Arenas -> Nat]
  /\ content \in [Arenas -> SUBSET Trees]
  /\ status \in [Trees -> Statuses]
  /\ old \in [Trees -> Trees \cup {NoTree}]
  /\ own \in [Trees -> Arenas \cup {NoArena}]
  /\ home \in [Trees -> Arenas \cup {NoArena}]
  /\ borrowed \in [Trees -> SUBSET Arenas]
  /\ todo \in [Trees -> SUBSET Arenas]
  /\ reusedAny \in [Trees -> BOOLEAN]
  /\ subs \in [Trees -> SUBSET Trees]
  /\ lent \in [Trees -> SUBSET Trees]
  /\ parent \in [Trees -> Trees]

(* Every node a readable tree reaches is still stored in the arena its     *)
(* parse allocated it from: no interleaving of parses and releases zeroes  *)
(* or hands out memory under a tree (arena.go's reference counting).  The  *)
(* nodes it has on loan from a later parse are excepted.                   *)
NoUseAfterRecycle ==
  \A t \in Trees : Readable(t) =>
    \A o \in subs[t] : /\ home[o] \in Arenas
                       /\ o \in content[home[o]]
                       /\ place[home[o]] = "inuse"

(* arena.go:34: "It uses ref counting so trees that borrow reused subtrees *)
(* can keep arena memory alive safely until all dependent trees are        *)
(* released."  A tree depends on the arenas of all its nodes, also of the  *)
(* slices and extras that a later parse folded into one it shares.         *)
DependentTreesKeepArenas ==
  \A t \in Trees : Readable(t) =>
    \A o \in Nodes(t) : o \in content[home[o]] /\ place[home[o]] = "inuse"

(* The count of an arena is the number of trees that hold it: a reference  *)
(* is neither lost (the arena would never return to the pool) nor given    *)
(* back twice (it would be recycled under another holder).                 *)
RefsCountHolders ==
  \A a \in Arenas : /\ refs[a] = Cardinality(Holders(a))
                    /\ place[a] = "inuse" <=> refs[a] > 0

(* What a parse takes from the pool is zeroed: idle arenas carry no nodes  *)
(* of an earlier tree (reset runs before Put).                             *)
IdleArenasAreClean ==
  \A a \in Arenas : place[a] \in {"fresh", "clean", "pool"} => content[a] = {}

(* The arenas a parse grafts from stay held by its old tree until it has   *)
(* retained them itself.                                                   *)
OldTreeOutlivesParse ==
  \A t \in Trees : Building(t) /\ old[t] # NoTree => status[old[t]] = "live"

(* Every arena whose holders have all been released leaves use: Release    *)
(* leaks no arena, even of chains of incremental parses.                   *)
ReleasedArenasAreReclaimed ==
  \A a \in Arenas :
    (\A t \in Holders(a) : status[t] = "released")
      ~> (place[a] \in {"fresh", "pool"} \/ \E t \in Holders(a) : status[t] # "released")

(* tree.go:68: "Parent returns this node's parent, or nil if it is the     *)
(* root."  While no parse is running, the parent of a node of a live tree  *)
(* is a node of that tree.                                                 *)
ParentStaysInTree ==
  (\A u \in Trees : ~ Building(u)) =>
    \A t \in Trees : status[t] = "live" =>
      \A o \in Nodes(t) : parent[o] \in Nodes(t) \cup {t}

(* The pool of reference-counted arenas implements ArenaLifetime: memory   *)
(* is recycled only when no readable tree reaches it, but on loan.         *)
Lifetime == INSTANCE ArenaLifetime
              WITH reach <- [t \in Trees |-> IF Readable(t) THEN Nodes(t) ELSE {}],
                   lent <- [t \in Trees |-> IF Readable(t) THEN lent[t] ELSE {}]
ImplementsLifetime == Lifetime!Spec
=============================================================================
