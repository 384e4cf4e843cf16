SPECIFICATION Spec
CONSTANTS
  Tabs = {A, B}
  AdminTabs = {A}
  Students = {s1, s2}
  MaxCalls = 2
  MaxSteps = 5
  None = None
INVARIANTS
  TypeOK
  OwnDetails
  
  ShownIsStored
  ReloadKeepsHeader
  PanelIsBacked
SYMMETRY Symmetry
CHECK_DEADLOCK FALSE
