SPECIFICATION FairSpec
CONSTANTS
  Test_Lists <- MCTest_Lists
  Max_Tests = 3
  Types = {"REQUEST", "INITIALIZE", "CHECK", "DUMP", "REKEY", "DEINITIALIZE", "EXTEND_VBD", "EXTEND_FT", "LIST_SNAPSHOTS"}
  Nr_Of_Steps = 2
INVARIANTS NoProgramError ExclusiveDevice ExitTruthful
PROPERTY TestsEnd
CHECK_DEADLOCK FALSE
