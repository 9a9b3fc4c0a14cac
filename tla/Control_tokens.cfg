\* Tokens, tasks and sessions: three clients, any of which may die half way,
\* and reports of the process race for four tokens and three places in the
\* queue, so that both limits and every way to lose a token or a task happen.
CONSTANTS
  Client = {c1, c2, c3}
  ClientEvent = {"CONNECTION_REQUEST"}
  Value = {0, 1}
  Report = {"VALUE_CHANGE"}
  UncheckedReport = {"VALUE_CHANGE"}
  LogMsg = FALSE
  RpcTasks <- Diagnoses
  Own = own
  MaxTask = 4
  MaxRequest = 1
  MaxParam = 0
  MayDie = TRUE
  MayCrash = FALSE
  StopWaits = TRUE
SPECIFICATION FairSpec
INVARIANTS TypeOK TokenCover
PROPERTY EventTaken
