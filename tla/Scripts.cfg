SPECIFICATION Spec
CHECK_DEADLOCK FALSE
CONSTANTS
  h1 = h1
  h2 = h2
  m1 = m1
  m2 = m2
  Hosts = {h1, h2}
  Mods = {m1}
  Route = Route
  Page = Page
  Files <- MCFiles
  Needs <- Flat
  Slot <- MCSlot
  TTL = 1
  Word = 64
  None = None
  Sentinel = Sentinel
  True = True
  Error = Error
  Moves = {"fail","delete"}
  Reqs = {r1, r2}
  NoReq = NoReq
  Start0 = 1
  Changing <- MCChanging
  MaxClock = 4
  MaxEdits = 1
  MaxStarts = 2
  MaxOps = 2
SYMMETRY Symmetric
INVARIANTS TypeOK RoutedOnce OwnGlobals ModuleRight CodeFresh
