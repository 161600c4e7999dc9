SPECIFICATION Spec
CONSTANTS
  c1 = c1  c2 = c2  t1 = t1  t2 = t2
  Conns = {c1}
  Threads = {t1}
  NoConn = NoConn
  NoThread = NoThread
  InitPool <- NoThreads
  MaxBody = 0
  MaxOps = 1
  MaxDrift = 2
  Moves = {"emptyflush"}
CHECK_DEADLOCK FALSE
INVARIANT WorkerNotStuck
