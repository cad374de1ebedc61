SPECIFICATION Spec
CONSTANTS
  Box = Box
  Base = Base
  Moved = Moved
  v1 = v1
  v2 = v2
  flat = flat
  iface = iface
  linked = linked
  ctor = ctor
  bad = bad
  over = over
  base1 = base1
  base2 = base2
  moved = moved
  Key = {Box, Base, Moved}
  Text = {v1, v2, flat, iface, linked, ctor, over, bad, base1, base2, moved}
  textsOf <- MCTextsOf
  imports <- MCImports
  body <- MCBody
  Named = {v1, v2, flat, iface, linked, ctor, over, bad, moved}
  Abstract = {iface}
  Namespaced = {base2}
  LongName = {linked}
  Corrupting = {over}
  AtCreation = {ctor}
  Refused = Refused
  Outside = Outside
  Missing = Missing
  Unreadable = Unreadable
  None = None
  firstDisks <- MCFirstDisks
  hosts <- MCHosts
  MaxChanges = 3
  MaxCalls = 2
CHECK_DEADLOCK FALSE
INVARIANTS
  ValidatesWhatDeploys
  OutputIsSelfContained
  SettledProjectsAreJudgedExactly
