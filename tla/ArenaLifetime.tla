--------------------------- MODULE ArenaLifetime ---------------------------
(***************************************************************************)
(* What the arena pool promises to the holders of syntax trees, with no    *)
(* counters: memory is recycled only when no tree that may still be read   *)
(* reaches a node stored in it, unless the tree only has that node on      *)
(* loan.  ArenaTrees (reference counts, a pool, stepwise retain and        *)
(* release) is shown to implement this module.                             *)
(***************************************************************************)
CONSTANTS
  Trees,      \* one member per parse call, and per tree it returns
  Arenas      \* slabs of node memory

VARIABLES
  content,    \* content[a]: the parses that have nodes stored in arena a
  reach,      \* reach[t]: the parses whose nodes tree t can reach from its root
  lent        \* lent[t]: those of them whose memory nothing keeps for t

vars == <<content, reach, lent>>

Init ==
  /\ content = [a \in Arenas |-> {}]
  /\ reach = [t \in Trees |-> {}]
  /\ lent = [t \in Trees |-> {}]

-----------------------------------------------------------------------------
(* A parse stores nodes of its own and rearranges what it reaches; but for *)
(* loans, which it has from trees that have some, it may only reach nodes  *)
(* that are resident.  It may also give new children to nodes it shares    *)
(* with other trees: what they newly reach they have on loan.              *)
Build(t) ==
  /\ \E A \in SUBSET Arenas :
       content' = [a \in Arenas |-> IF a \in A THEN content[a] \cup {t}
                                               ELSE content[a]]
  /\ reach' \in [Trees -> SUBSET Trees]
  /\ lent' \in [Trees -> SUBSET Trees]
  /\ \A o \in reach'[t] \ lent'[t] : \E a \in Arenas : o \in content'[a]
  /\ lent'[t] \subseteq lent[t] \/ \E u \in Trees \ {t} : lent[u] # {}
  /\ \A u \in Trees \ {t} :
       /\ reach[u] \subseteq reach'[u]
       /\ lent'[u] = lent[u] \cup (reach'[u] \ reach[u])

(* The caller gives tree t back and reads none of its nodes again.         *)
LetGo(t) ==
  /\ reach' = [reach EXCEPT ![t] = {}]
  /\ lent' = [lent EXCEPT ![t] = {}]
  /\ UNCHANGED content

(* Memory nobody reaches, but on loan, is zeroed for reuse.                *)
Reclaim(a) ==
  /\ \A t \in Trees : (reach[t] \ lent[t]) \cap content[a] = {}
  /\ content' = [content EXCEPT ![a] = {}]
  /\ UNCHANGED <<reach, lent>>

Next ==
  \/ \E t \in Trees : Build(t) \/ LetGo(t)
  \/ \E a \in Arenas : Reclaim(a)

Spec == Init /\ [][Next]_vars
=============================================================================
