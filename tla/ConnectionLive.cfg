SPECIFICATION FairSpec
CONSTANTS
  c1 = c1  c2 = c2  t1 = t1  t2 = t2
  Conns = {c1}
  Threads = {t1}
  NoConn = NoConn
  NoThread = NoThread
  InitPool <- NoThreads
  MaxBody = 2
  MaxOps = 3
  MaxDrift = 2
  Moves = {"oversize", "status", "expect", "badcert", "badrequest", "nolength", "eof", "bodyeof", "timeout"}
CHECK_DEADLOCK FALSE
PROPERTIES Served GoneIsFreed
