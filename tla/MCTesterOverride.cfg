SPECIFICATION Spec
CONSTANTS
  Test_Lists <- MCFull_Override
  Max_Tests = 1
  Types = {"REQUEST"}
  Nr_Of_Steps = 0
INVARIANT FullOverridePasses
CHECK_DEADLOCK FALSE
