CONSTANTS
  t1 = t1  t2 = t2  t3 = t3
  f1 = f1  i1 = i1  i2 = i2
  Trees <- ThreeTrees
  Arenas <- OneFullTwoIncremental
  FullArenas <- TheFullArena
  NoArena = NoArena
  NoTree = NoTree
SPECIFICATION FairSpec
INVARIANTS
  TypeOK
  NoUseAfterRecycle
  RefsCountHolders
  IdleArenasAreClean
PROPERTIES
  ImplementsLifetime
  ReleasedArenasAreReclaimed
CONSTRAINT
  NamedInOrder
CHECK_DEADLOCK FALSE
