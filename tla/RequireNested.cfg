SPECIFICATION Spec
CHECK_DEADLOCK FALSE
CONSTANTS
  h1 = h1
  h2 = h2
  m1 = m1
  m2 = m2
  Hosts = {h1}
  Mods = {m1, m2}
  Route = Route
  Page = Page
  Files <- MCFiles
  Needs <- Nested
  Slot <- MCSlot
  TTL = 1
  Word = 64
  None = None
  Sentinel = Sentinel
  True = True
  Error = Error
  Moves = {}
  Reqs = {r1}
  NoReq = NoReq
  Start0 = 1
  Changing <- MCChanging
  MaxClock = 3
  MaxEdits = 1
  MaxStarts = 2
  MaxOps = 3
PROPERTY ReturnedIsLoaded
