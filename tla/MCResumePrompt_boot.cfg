CONSTANTS
  MaxRows = 3
  MaxBoots = 3
SPECIFICATION Spec
INVARIANTS
  NoJobForgotten
  DiscardedStaysGone
