CONSTANTS
  c1 = c1
  c2 = c2
  t1 = t1
  t2 = t2
  Chunks = {c1, c2}
  Threads = {t1, t2}
  None = none
  MaxSnaps = 2
  MaxPacks <- Packs
  Rollovers = {1, 2}
  MaxSweeps = 1
  MaxFaults = 1
SYMMETRY Symmetry
SPECIFICATION Spec
INVARIANTS
  TypeOK
  NoDoubleStore
  ActivePackExists
PROPERTIES
  ImplementsCatalog
  RepairRemovesOnlyDamaged
