---------------------------- MODULE MCArenaTrees ----------------------------
(* Instances of ArenaTrees small enough for TLC.                           *)
EXTENDS ArenaTrees, TLC

CONSTANTS t1, t2, t3, f1, i1, i2

ThreeTrees == {t1, t2, t3}
TwoTrees == {t1, t2}
OneFullTwoIncremental == {f1, i1, i2}
OneFullOneIncremental == {f1, i1}
TheFullArena == {f1}

(* Trees are interchangeable: it is enough to follow the behaviours that   *)
(* name them in the order of their parse calls.                            *)
NamedInOrder ==
  /\ status[t2] # "none" => status[t1] # "none"
  /\ t3 \in Trees /\ status[t3] # "none" => status[t2] # "none"
=============================================================================
