SPECIFICATION Spec
CONSTANTS
  Snapshots_Last = 3
  Superblocks_Last = 1
  VBA_Last = 1
  Max_Generation = 3
  Max_Nr_Of_Blks = 2
  Max_Restarts = 1
  Client_Ops <- MCAllOps
  Restarted_Ops = {}
  Max_Kept = 1
  Discard_Current = FALSE
  Write_Ahead = FALSE
  Extend_Full = FALSE
PROPERTY StartsFromNewest
CHECK_DEADLOCK FALSE
