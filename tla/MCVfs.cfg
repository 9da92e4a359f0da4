SPECIFICATION Spec
CONSTANTS
  h = h
  k = k
  Nobody = Nobody
  Handles = {h}
  BLOCK_SIZE = 2
  Max_Vba = 1
  Max_Count = 4
  Payload <- MCPayload
  Requests <- MCRequests
  Background = {"REKEY", "EXTEND_VBD", "CREATE_SNAPSHOT", "DISCARD_SNAPSHOT"}
  Max_Background = 1
  Nr_Of_Steps = 2
  Nr_Of_Requests = 5
  Beyond_End = {}
INVARIANTS NoThrow RequestIsWorkedOn ControlFilesTruthful NoLostWakeup
PROPERTY ImplementsByteFile
