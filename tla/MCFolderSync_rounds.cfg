CONSTANTS
  v1 = v1
  v2 = v2
  v3 = v3
  Versions = {v1, v2, v3}
  Torn = torn
  None = none
  Modes = {"TwoWay", "MirrorLeftToRight", "MirrorRightToLeft", "ContributeLeftToRight"}
  MaxEdits = 3
  MaxKills = 1
SYMMETRY Symmetry
SPECIFICATION Spec
INVARIANTS
  RoundConverges
  ContributeKeepsReceiver
PROPERTIES
  SyncKeepsEdits
  SettledStaysSettled
