SPECIFICATION Spec
CONSTANTS
  c1 = c1  c2 = c2  t1 = t1  t2 = t2
  Conns = {c1, c2}
  Threads = {t1, t2}
  NoConn = NoConn
  NoThread = NoThread
  InitPool <- OneThread
  MaxBody = 1
  MaxOps = 2
  MaxDrift = 2
  Moves = {"eof"}
CHECK_DEADLOCK FALSE
SYMMETRY Symmetric
INVARIANTS ReadingIsCounted ActiveIsCounted PoolThreadsIdle SuspendedIsServed ProcessHasScript
