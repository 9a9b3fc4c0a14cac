\* Transfers one after the other and at the same time, stops, power losses,
\* lost answers.
CONSTANTS
  MaxRpc = 3
  MaxTask = 4
  MaxRequest = 4
  MayCrash = TRUE
SPECIFICATION Spec
CHECK_DEADLOCK FALSE
INVARIANTS TransfersInv ReportNamesTransfer OwnArguments
