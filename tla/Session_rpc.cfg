CONSTANTS
  RpcTasks <- FewLists
  MaxTask = 3
  MaxRequest = 2
  MaxRpc = 2
  Queues <- Idle
SPECIFICATION Spec
CHECK_DEADLOCK FALSE
PROPERTY EveryRpcDealtWith
