SPECIFICATION Spec
CONSTANTS
  Threads = {t1, t2, t3}
  Cells = {x1, x2, x3}
  Null = Null
  NoThread = NoThread
  Names = {a, _b}
  Unnoted = {_b}
  Moves = {"abort", "child"}
SYMMETRY Symmetric
INVARIANTS TypeOK ListIsChain ListedOnce EveryGlobalNoted
PROPERTIES PoolSpec EndLeavesClean
