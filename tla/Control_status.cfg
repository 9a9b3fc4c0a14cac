\* Two clients and the process report with more parameters than there is room
\* for; stops, dumps, saves and power losses at every point of these reports,
\* with sessions that reset, reboot and queue tasks.
CONSTANTS
  Client = {c1, c2}
  ClientEvent = {"CONNECTION_REQUEST"}
  Value = {1}
  Report = {"VALUE_CHANGE"}
  UncheckedReport = {}
  LogMsg = TRUE
  RpcTasks <- SomeRpc
  Own = own
  MaxTask = 3
  MaxRequest = 2
  MaxParam = 2
  MayDie = FALSE
  MayCrash = TRUE
  StopWaits = TRUE
SPECIFICATION Spec
SYMMETRY Clients
INVARIANTS ParametersTravelTogether TokenMeansEvent OwedPending StoredIsOwed
