SPECIFICATION Spec
CONSTANTS
  c1 = c1  c2 = c2  t1 = t1  t2 = t2
  Conns = {c1, c2}
  Threads = {t1}
  NoConn = NoConn
  NoThread = NoThread
  InitPool <- NoThreads
  MaxBody = 2
  MaxOps = 2
  MaxDrift = 2
  Moves = {"expect", "badcert", "badrequest", "oversize", "nolength", "status", "ssl", "eof", "bodyeof", "writefail", "timeout", "throw", "emptyflush", "exit"}
CHECK_DEADLOCK FALSE
SYMMETRY Symmetric
INVARIANTS TypeOK CallbackFits OneScript ThreadsConserved SendingIsCounted GaugesDriftOneWay
