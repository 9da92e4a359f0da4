SPECIFICATION Spec
CONSTANTS
  Degree = 2
  Max_Level = 2
  Leafs = 3
  Written = {0, 2}
  Free_Degree = 4
  Free_Leafs = 16
  Meta_Degree = 4
  Meta_Leafs = 12
  Snapshots_Last = 4
  Max_Writes = 3
  Max_Secures = 4
  Max_Kept = 2
  Max_Key = 2
  Write_Ahead = FALSE
INVARIANTS NoProgramError SecuredIntact EachBlockOnce
PROPERTY ImplementsSnapshotStore
CHECK_DEADLOCK FALSE
