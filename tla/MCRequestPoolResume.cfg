SPECIFICATION Spec
CONSTANTS
  Nr_Of_Jobs = 3
  Max_Preponed = 2
  Keys = {0, 1}
  Max_Count = 1
  Client_Ops = {"Read", "Sync"}
  SB_States = {"Rekeying"}
INVARIANT NoProgramError
CHECK_DEADLOCK FALSE
