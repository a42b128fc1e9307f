SPECIFICATION FairSpec
CONSTANTS
  main = main
  popout = popout
  p1 = p1
  p2 = p2
  Main = main
  Windows = {main, popout}
  Panels = {p1}
  MaxPty = 2
  MaxActs = 1
  MaxFaults = 1
PROPERTIES DeathIsNoticed
CHECK_DEADLOCK FALSE
