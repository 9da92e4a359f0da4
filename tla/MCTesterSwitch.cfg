SPECIFICATION FairSpec
CONSTANTS
  Test_Lists <- MCAll_Lists
  Max_Tests = 2
  Types = {"REQUEST", "CHECK", "LIST_SNAPSHOTS"}
  Nr_Of_Steps = 1
INVARIANT NoProgramError
CHECK_DEADLOCK FALSE
