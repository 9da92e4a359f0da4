SPECIFICATION Spec
CONSTANTS
  a = a
  b = b
  PBA <- MCPBA
  Data <- MCData
  Nr_Of_Jobs = 2
  Nr_Of_Slots = 2
  Nr_Of_Entries = 1
INVARIANTS SlotsDistinct NoProgramError CleanIsStable ReadPinned IoConsistent
PROPERTY ImplementsBlockStore
CHECK_DEADLOCK FALSE
