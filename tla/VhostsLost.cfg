SPECIFICATION Spec
CONSTANTS
  Hosts <- MCHosts
  Asked <- MCAsked
  Roots <- MCRoots
  Default = Default
  Cells = {x1, x2, x3, x4, x5}
  Null = Null
  Files <- MCFiles
  Firsts <- MCFirsts
  MaxEdits = 2
INVARIANT EveryRuleAnswers
