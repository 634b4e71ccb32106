CONSTANTS
  t1 = t1  t2 = t2  t3 = t3
  f1 = f1  i1 = i1  i2 = i2
  Trees <- TwoTrees
  Arenas <- OneFullOneIncremental
  FullArenas <- TheFullArena
  NoArena = NoArena
  NoTree = NoTree
SPECIFICATION Spec
INVARIANTS
  DependentTreesKeepArenas
CHECK_DEADLOCK FALSE
