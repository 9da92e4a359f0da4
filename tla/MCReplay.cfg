SPECIFICATION ReplaySpec
CONSTANTS
  file = file
  Nobody = Nobody
  Handles = {file}
  BLOCK_SIZE = 2
  Max_Vba = 1
  Max_Count = 4
  Payload <- MCPayload
  Requests <- MCRequests
  Background = {"REKEY"}
  Max_Background = 1
  Nr_Of_Steps = 2
  Nr_Of_Requests = 5
  Beyond_End = {"READ"}
INVARIANTS ReplayedIsStored
PROPERTIES RequestFinishes BackgroundFinishes
CHECK_DEADLOCK FALSE
