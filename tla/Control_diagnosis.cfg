\* The ACS asks for a ping in a session, and nothing is reported afterwards.
CONSTANTS
  Client = {c1}
  ClientEvent = {"CONNECTION_REQUEST"}
  Value = {1}
  Report = {}
  UncheckedReport = {}
  LogMsg = FALSE
  RpcTasks <- Diagnoses
  Own = own
  MaxTask = 3
  MaxRequest = 1
  MaxParam = 0
  MayDie = FALSE
  MayCrash = FALSE
  StopWaits = TRUE
SPECIFICATION FairSpec
PROPERTY DiagnosisTaken
