SPECIFICATION BoundedSpec
CONSTANTS
  main = main
  popout = popout
  p1 = p1
  p2 = p2
  Main = main
  Windows = {main, popout}
  Panels = {p1, p2}
  MaxPty = 2
  MaxActs = 4
  MaxFaults = 2
INVARIANTS TypeOK KnownIsPolled PanelNotLost OneLivePty DriverViews RevNamesDriver
PROPERTY NeverClosedUnderAView
CHECK_DEADLOCK FALSE
