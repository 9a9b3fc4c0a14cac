\* Up to three RPCs with tasks, two pending requests, and queues that are
\* empty, partly filled and full; every exchange may fail.
CONSTANTS
  RpcTasks <- Lists
  MaxTask = 4
  MaxRequest = 3
  MaxRpc = 3
  Queues <- Starts
SPECIFICATION FairSpec
CHECK_DEADLOCK FALSE
INVARIANTS SessionInv ExecutedWasAnswered DealtOnceInOrder
PROPERTIES EndsAsPromised Ends
