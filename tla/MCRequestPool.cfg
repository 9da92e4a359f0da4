SPECIFICATION FairSpec
CONSTANTS
  Nr_Of_Jobs = 3
  Max_Preponed = 2
  Keys = {0, 1}
  Max_Count = 2
  Client_Ops = {"Read", "Discard_Snapshot", "Create_Snapshot", "Rekey", "Extend_VBD"}
  SB_States = {"Normal"}
INVARIANTS TypeOK QueueHoldsActive OneAtATime NoProgramError
PROPERTIES RequestsServed ImplementsRequestQueue
