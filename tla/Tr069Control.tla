---------------------------- MODULE Tr069Control ----------------------------
(***************************************************************************)
(* The control manager of the tr069 process: reports of events arrive from *)
(* IPC clients and from the process's own timers, each pays a token        *)
(* (call_flag) and queues a SESSION task; the 500 ms timer picks tasks; a  *)
(* session starts when the last token is spent and takes the events and    *)
(* the parameters to inform with it.  The events survive a clean stop in   *)
(* the status file tr069.ini.                                              *)
(*                                                                         *)
(* Everything runs in one event loop, so a handler is one action; only the *)
(* SIGQUIT handler (tr069_service_stop) cuts into a handler, and nothing   *)
(* else runs while a session is open.                                      *)
(***************************************************************************)
EXTENDS SessionOutcome, FiniteSets

CONSTANTS
  Client,          \* processes that report through the IPC commands
  ClientEvent,     \* the events they report
  Value,           \* the event_value they pass: {1}, or {0, 1}
  Report,          \* events that timers and notifications of the process report
  UncheckedReport, \* of these, the ones reported without looking at the result
  LogMsg,          \* TRUE if the log message timer may be on
  Own,             \* a parameter put by the process itself
  MaxRequest,      \* TR069_MAX_REQUEST_NUM
  MaxParam,        \* TR069_MAX_INFORM_PARAM_NUM
  MayDie,          \* TRUE if a client may end between set_event and start
  MayCrash,        \* TRUE if power may be lost while the process runs
  StopWaits        \* TRUE if the loop, told to stop, still runs the dump

Primary == {"BOOTSTRAP", "BOOT", "PERIODIC", "SCHEDULED", "VALUE_CHANGE",
            "KICKED", "CONNECTION_REQUEST", "TRANSFER_COMPLETE",
            "DIAGNOSTICS_COMPLETE", "REQUEST_DOWNLOAD",
            "AUTONMOUS_TRANSFER_COMPLETE", "X_CU_ALARM"}
LastEvent == "M_CTC_LOG_PERIODIC"
Event == Primary \cup {"M_SCHEDULEINFORM", "M_REBOOT", "M_DOWNLOAD",
                       "M_UPLOAD", LastEvent}

Param == Client \cup {Own}

ASSUME ControlAssumption ==
  /\ ClientEvent \subseteq Primary
  /\ Value \subseteq {0, 1}
  /\ Report \subseteq Primary
  /\ UncheckedReport \subseteq Report
  /\ {LogMsg, MayDie, MayCrash, StopWaits} \subseteq BOOLEAN
  /\ MaxRequest \in Nat \ {0}
  /\ MaxParam \in Nat
  /\ IsFiniteSet(Client)

VARIABLES
  status,            \* of the control manager; TASK while a session is open
  finish_flag,       \* the process was told to stop
  call_flag,         \* tokens: accepted reports whose session was not picked
  task_queue,
  event,             \* the event flags that are set
  inform_parameters,
  requests,          \* TransferComplete requests in the request queue
  session,           \* the events and parameters handed to the open session
  ini,               \* tr069_status_ini, the status file's image in memory
  disk,              \* tr069.ini
  pc,                \* where each client is: idle, set (accepted), put
  owed,              \* history: primary events set and not handed to a session
  overrun,           \* history: a SESSION task was queued without a token
  leak               \* history: a token was left without a SESSION task

vars == <<status, finish_flag, call_flag, task_queue, event, inform_parameters,
          requests, session, ini, disk, pc, owed, overrun, leak>>

NoSession == [event |-> {}, params |-> <<>>]

IniFile == [event : SUBSET Event, params : Seq(Param), requests : Nat,
            first_boot : BOOLEAN]

TypeOK ==
  /\ status \in {"STOP", "IDLE", "TASK", "QUIT"}
  /\ finish_flag \in BOOLEAN
  /\ call_flag \in -1 .. MaxTask
  /\ task_queue \in Seq(Task) /\ Len(task_queue) < MaxTask
  /\ event \subseteq Event
  /\ inform_parameters \in Seq(Param) /\ Len(inform_parameters) <= MaxParam
  /\ requests \in 0 .. MaxRequest - 1
  /\ session \in [event : SUBSET Event, params : Seq(Param)]
  /\ ini \in IniFile /\ ini.requests < MaxRequest
  /\ disk \in IniFile /\ disk.requests < MaxRequest
  /\ pc \in [Client -> {"idle", "set", "put"}]
  /\ owed \subseteq Primary
  /\ overrun \in BOOLEAN
  /\ leak \in BOOLEAN
-----------------------------------------------------------------------------
PutParams(s, ps) == Bounded(s \o ps, MaxParam)
PutRequests(m, n) == IF m + n < MaxRequest THEN m + n ELSE MaxRequest - 1

SessionsIn(q) == Cardinality({i \in 1 .. Len(q) : q[i] = "SESSION"})
Sessions == SessionsIn(task_queue)
Setting == {c \in Client : pc[c] # "idle"}

Running == status # "STOP"
LoopFree == status \in {"IDLE", "QUIT"}   \* the loop may dispatch a handler
Full == Len(task_queue) = MaxTask - 1
InMemory == status \in {"IDLE", "TASK"}   \* tr069_service_target_to_set
OpenAtLimit == call_flag <= MaxTask       \* mutant of Open: off by one
Open == call_flag < MaxTask               \* set_event's admission

(***************************************************************************)
(* Set the flags of events es and put parameters ps where target_to_set    *)
(* says: in memory, or in ini once the control manager has quit.  Setting  *)
(* in ini drops the last character of the stored flags.                    *)
(***************************************************************************)
Record(es, ps) ==
  IF InMemory
  THEN /\ event' = event \cup es
       /\ inform_parameters' = PutParams(inform_parameters, ps)
       /\ UNCHANGED ini
  ELSE /\ ini' = [ini EXCEPT
            !.event = IF es = {} THEN @ ELSE (@ \ {LastEvent}) \cup es,
            !.params = PutParams(@, ps)]
       /\ UNCHANGED <<event, inform_parameters>>
-----------------------------------------------------------------------------
(* Mutant of Cleared: what was loaded stays in the file.                    *)
Loaded(ip) == [disk EXCEPT !.first_boot = @ /\ ~ip]

(* tr069.ini once its contents are loaded and BOOTSTRAP is reported.        *)
Cleared(ip) == [event |-> {}, params |-> <<>>, requests |-> 0,
                first_boot |-> disk.first_boot /\ ~ip]

(* The process starts: tr069.ini is loaded into memory and cleared, then    *)
(* check_first_boot reports BOOTSTRAP or BOOT, unless no address came up    *)
(* within two seconds (~ip).                                                *)
Boot(ip) ==
  LET first == IF ~ip THEN {} ELSE IF disk.first_boot THEN {"BOOTSTRAP"} ELSE {"BOOT"}
  IN /\ ~Running
     /\ status' = "IDLE"
     /\ event' = disk.event \cup first
     /\ inform_parameters' = PutParams(disk.params, IF ip THEN <<Own>> ELSE <<>>)
     /\ requests' = disk.requests
     /\ call_flag' = Cardinality(first)
     /\ task_queue' = IF ip THEN PutTasks(<<>>, <<"SESSION">>) ELSE <<>>
     /\ ini' = Cleared(ip)
     /\ disk' = Cleared(ip)
     /\ owed' = owed \cup first
     /\ UNCHANGED <<finish_flag, session, pc, overrun, leak>>

Init ==
  /\ status = "STOP"
  /\ finish_flag = FALSE
  /\ call_flag = 0
  /\ task_queue = <<>>
  /\ event = {}
  /\ inform_parameters = <<>>
  /\ requests = 0
  /\ session = NoSession
  /\ disk = [event |-> {}, params |-> <<>>, requests |-> 0, first_boot |-> TRUE]
  /\ ini = disk
  /\ pc = [c \in Client |-> "idle"]
  /\ owed = {}
  /\ overrun = FALSE
  /\ leak = FALSE

(* What is left of the process in the model once it has ended with file f.  *)
Ended(f) ==
  /\ status' = "STOP"
  /\ finish_flag' = FALSE
  /\ call_flag' = 0
  /\ task_queue' = <<>>
  /\ event' = {}
  /\ inform_parameters' = <<>>
  /\ requests' = 0
  /\ session' = NoSession
  /\ disk' = f
  /\ ini' = f
  /\ pc' = [c \in Client |-> "idle"]
  /\ overrun' = FALSE
  /\ leak' = FALSE

(* Mutant of LoopExit: the dictionary is not written back.                  *)
LoopExitUnsaved == LoopFree /\ finish_flag /\ Ended(disk) /\ UNCHANGED owed

(* The loop returns after a stop; the status dictionary is written back.    *)
LoopExit ==
  /\ LoopFree
  /\ finish_flag
  /\ StopWaits => status = "QUIT"
  /\ Ended(ini)
  /\ UNCHANGED owed

(* Power is lost, or the reboot that was asked for happens: only tr069.ini  *)
(* is left, and an event that is not in it cannot be owed any more.         *)
Crash ==
  /\ MayCrash /\ Running
  /\ Ended(disk)
  /\ owed' = owed \cap disk.event
-----------------------------------------------------------------------------
(***************************************************************************)
(* The IPC commands, as the clients in the repository use them: set_event, *)
(* and when it is accepted put_inform_parameter, then start.               *)
(***************************************************************************)
SetEvent(c, e, v) ==
  /\ LoopFree /\ pc[c] = "idle" /\ Open
  /\ pc' = [pc EXCEPT ![c] = "set"]
  /\ call_flag' = call_flag + 1
  /\ IF v = 1
     THEN Record({e}, <<>>) /\ owed' = owed \cup {e}
     ELSE /\ owed' = owed \ {e}
          /\ IF InMemory
             THEN event' = event \ {e} /\ UNCHANGED ini
             ELSE /\ ini' = [ini EXCEPT !.event = @ \ {e, LastEvent}]
                  /\ UNCHANGED event
          /\ UNCHANGED inform_parameters
  /\ UNCHANGED <<status, finish_flag, task_queue, requests, session, disk, overrun, leak>>

PutInformParameter(c) ==
  /\ LoopFree /\ pc[c] = "set"
  /\ IF InMemory THEN Len(inform_parameters) < MaxParam ELSE Len(ini.params) < MaxParam
  /\ pc' = [pc EXCEPT ![c] = "put"]
  /\ Record({}, <<c>>)
  /\ UNCHANGED <<status, finish_flag, call_flag, task_queue, requests, session,
                 disk, owed, overrun, leak>>

PutRequest(c) ==
  /\ LoopFree /\ pc[c] # "idle"
  /\ IF InMemory
     THEN requests' = PutRequests(requests, 1) /\ UNCHANGED ini
     ELSE /\ ini' = [ini EXCEPT !.requests = PutRequests(@, 1)]
          /\ UNCHANGED requests
  /\ UNCHANGED <<status, finish_flag, call_flag, task_queue, event,
                 inform_parameters, session, disk, pc, owed, overrun, leak>>

Start(c) ==
  /\ LoopFree /\ pc[c] # "idle"
  /\ pc' = [pc EXCEPT ![c] = "idle"]
  /\ task_queue' = PutTasks(task_queue, <<"SESSION">>)
  /\ leak' = (leak \/ Full)
  /\ UNCHANGED <<status, finish_flag, call_flag, event, inform_parameters,
                 requests, session, ini, disk, owed, overrun>>

Die(c) ==
  /\ MayDie /\ pc[c] # "idle"
  /\ pc' = [pc EXCEPT ![c] = "idle"]
  /\ leak' = TRUE
  /\ UNCHANGED <<status, finish_flag, call_flag, task_queue, event,
                 inform_parameters, requests, session, ini, disk, owed, overrun>>
-----------------------------------------------------------------------------
(***************************************************************************)
(* Reports of the process itself, each in one handler: the heartbeat, the  *)
(* offline, value change and alarm notifications, the STUN client and the  *)
(* end of a speed test.                                                    *)
(***************************************************************************)
OwnReport(e) ==
  /\ LoopFree /\ Open
  /\ Record({e}, <<Own>>)
  /\ call_flag' = call_flag + 1
  /\ task_queue' = PutTasks(task_queue, <<"SESSION">>)
  /\ owed' = owed \cup {e}
  /\ leak' = (leak \/ Full)
  /\ UNCHANGED <<status, finish_flag, requests, session, disk, pc, overrun>>

(* The result of set_event is not looked at: refused, it starts anyway.     *)
OwnReportRefused(e) ==
  /\ LoopFree /\ ~Open
  /\ e \in UncheckedReport
  /\ Record({}, <<Own>>)
  /\ task_queue' = PutTasks(task_queue, <<"SESSION">>)
  /\ overrun' = TRUE
  /\ UNCHANGED <<status, finish_flag, call_flag, requests, session, disk, pc,
                 owed, leak>>

(* tr069_value_change puts the changed parameters before it sets the event. *)
ValueChangeRefused ==
  /\ LoopFree /\ ~Open
  /\ "VALUE_CHANGE" \in Report
  /\ Record({}, <<Own>>)
  /\ UNCHANGED <<status, finish_flag, call_flag, task_queue, requests, session,
                 disk, pc, owed, overrun, leak>>

(* Two events, the result of the second decides: with one token left the    *)
(* first keeps it and no session is started.                                *)
LogMessage ==
  /\ LogMsg /\ LoopFree /\ Open
  /\ call_flag' = call_flag + 1
  /\ owed' = owed \cup {"SCHEDULED"}
  /\ IF call_flag' < MaxTask
     THEN /\ Record({"SCHEDULED", LastEvent}, <<Own>>)
          /\ task_queue' = PutTasks(task_queue, <<"SESSION">>)
          /\ leak' = (leak \/ Full)
     ELSE /\ Record({"SCHEDULED"}, <<>>)
          /\ leak' = TRUE
          /\ UNCHANGED task_queue
  /\ UNCHANGED <<status, finish_flag, requests, session, disk, pc, overrun>>

(* tr069_service_stop: SIGQUIT, at any moment, or the stop command.         *)
ServiceStop ==
  /\ Running
  /\ call_flag' = 0
  /\ finish_flag' = TRUE
  /\ UNCHANGED <<status, task_queue, event, inform_parameters, requests,
                 session, ini, disk, pc, owed, overrun, leak>>
-----------------------------------------------------------------------------
(***************************************************************************)
(* tr069_control_picktask_proc, by the task it picks.                      *)
(***************************************************************************)
Picks(t) == /\ status = "IDLE"
            /\ task_queue # <<>>
            /\ Head(task_queue) = t

TaskWithoutSetting ==
  /\ Picks("SESSION")
  /\ call_flag <= 0
  /\ task_queue' = Tail(task_queue)
  /\ UNCHANGED <<status, finish_flag, call_flag, event, inform_parameters,
                 requests, session, ini, disk, pc, owed, overrun, leak>>

(* Mutant of Spent: it does not wait for the others that still report.      *)
SpentAtOnce(r) ==
  /\ call_flag' = r
  /\ task_queue' = Tail(task_queue)
  /\ session' = [event |-> event, params |-> inform_parameters]
  /\ event' = {}
  /\ inform_parameters' = <<>>
  /\ status' = "TASK"
  /\ owed' = owed \ event
  /\ UNCHANGED <<requests, ini, disk, pc, overrun, leak>>

(* A token was spent and call_flag is now r: another report is under way,   *)
(* or no primary event is set, or the session opens.                        *)
Spent(r) ==
  /\ call_flag' = r
  /\ task_queue' = Tail(task_queue)
  /\ \/ /\ r > 0
        /\ UNCHANGED <<status, event, inform_parameters, session, owed>>
     \/ /\ r <= 0
        /\ event \cap Primary = {}
        /\ event' = {}
        /\ UNCHANGED <<status, inform_parameters, session, owed>>
     \/ /\ r <= 0
        /\ event \cap Primary # {}
        /\ session' = [event |-> event, params |-> inform_parameters]
        /\ event' = {}
        /\ inform_parameters' = <<>>
        /\ status' = "TASK"
        /\ owed' = owed \ event
  /\ UNCHANGED <<requests, ini, disk, pc, overrun, leak>>

(* Mutant of PickSession: the token is not spent.                           *)
PickSessionFree ==
  /\ Picks("SESSION")
  /\ call_flag > 0
  /\ Spent(call_flag)
  /\ UNCHANGED finish_flag

PickSession ==
  /\ Picks("SESSION")
  /\ call_flag > 0
  /\ Spent(call_flag - 1)
  /\ UNCHANGED finish_flag

(* SIGQUIT between the test of call_flag and the use of its decremented     *)
(* value: before the decrement, inside it, or after it.                     *)
PickSessionInterrupted ==
  /\ Picks("SESSION")
  /\ call_flag > 0
  /\ \E r \in {-1, call_flag - 1, 0} : Spent(r)
  /\ finish_flag' = TRUE

(* The kill -3 of its own process runs under system(), which ignores        *)
(* SIGQUIT in the caller on most C libraries: quit says if it arrives.      *)
PickReboot(quit) ==
  /\ Picks("REBOOT")
  /\ task_queue' = Tail(task_queue)
  /\ event' = event \cup {"M_REBOOT"}
  /\ call_flag' = IF quit THEN 0 ELSE call_flag
  /\ finish_flag' = (finish_flag \/ quit)
  /\ UNCHANGED <<status, inform_parameters, requests, session, ini, disk, pc,
                 owed, overrun, leak>>

PickFactoryReset ==
  /\ Picks("FACTORY_RESET")
  /\ task_queue' = Tail(task_queue)
  /\ ini' = [ini EXCEPT !.first_boot = TRUE]
  /\ disk' = [disk EXCEPT !.first_boot = TRUE]
  /\ UNCHANGED <<status, finish_flag, call_flag, event, inform_parameters,
                 requests, session, pc, owed, overrun, leak>>

(* DOWNLOAD, UPLOAD and SPEED_TEST only set other programs to work, and a   *)
(* PING or TRACERT that was no longer requested does nothing.               *)
PickOther ==
  /\ \E t \in Rpc \ {"REBOOT", "FACTORY_RESET"} : Picks(t)
  /\ task_queue' = Tail(task_queue)
  /\ UNCHANGED <<status, finish_flag, call_flag, event, inform_parameters,
                 requests, session, ini, disk, pc, owed, overrun, leak>>

(* The diagnosis was made: set_event may refuse, SESSION is put regardless. *)
PickDiagnosis ==
  /\ Picks("PING") \/ Picks("TRACERT")
  /\ task_queue' = PutTasks(Tail(task_queue), <<"SESSION">>)
  /\ IF Open
     THEN /\ event' = event \cup {"DIAGNOSTICS_COMPLETE"}
          /\ owed' = owed \cup {"DIAGNOSTICS_COMPLETE"}
          /\ call_flag' = call_flag + 1
          /\ UNCHANGED overrun
     ELSE /\ overrun' = TRUE
          /\ UNCHANGED <<event, owed, call_flag>>
  /\ UNCHANGED <<status, finish_flag, inform_parameters, requests, session,
                 ini, disk, pc, leak>>

(* No task and told to stop: tr069_dump_environment merges what is pending  *)
(* into ini, and the timer that picks tasks is gone.                        *)
Dump ==
  /\ status = "IDLE"
  /\ task_queue = <<>>
  /\ finish_flag
  /\ status' = "QUIT"
  /\ ini' = [ini EXCEPT !.event = @ \cup event,
                        !.params = PutParams(@, inform_parameters),
                        !.requests = PutRequests(@, requests)]
  /\ requests' = requests - (ini'.requests - ini.requests)
  /\ UNCHANGED <<finish_flag, call_flag, task_queue, event, inform_parameters,
                 session, disk, pc, owed, overrun, leak>>

(* The session is over, with one of the outcomes that module Tr069Session   *)
(* is shown to have.                                                        *)
SessionEnd(o) ==
  /\ status = "TASK"
  /\ status' = "IDLE"
  /\ session' = NoSession
  /\ task_queue' = QueueAfter(o, task_queue)
  /\ requests' = requests - o.sent
  /\ event' = IF o.diag THEN event \cup {"DIAGNOSTICS_COMPLETE"} ELSE event
  /\ owed' = IF o.diag THEN owed \cup {"DIAGNOSTICS_COMPLETE"} ELSE owed
  /\ ini' = [ini EXCEPT !.first_boot = @ \/ o.reset]
  /\ disk' = [disk EXCEPT !.first_boot = @ \/ o.reset]
  /\ UNCHANGED <<finish_flag, call_flag, inform_parameters, pc, overrun, leak>>

SomeSessionEnd == \E o \in Outcomes(requests) : SessionEnd(o)
-----------------------------------------------------------------------------
PickTask == \/ TaskWithoutSetting
            \/ PickSession
            \/ \E quit \in BOOLEAN : PickReboot(quit)
            \/ PickFactoryReset
            \/ PickOther
            \/ PickDiagnosis
            \/ Dump

ClientStep(c) == \/ \E e \in ClientEvent, v \in Value : SetEvent(c, e, v)
                 \/ PutInformParameter(c)
                 \/ PutRequest(c)
                 \/ Start(c)
                 \/ Die(c)

OwnStep == \/ \E e \in Report : OwnReport(e) \/ OwnReportRefused(e)
           \/ ValueChangeRefused
           \/ LogMessage

Next == \/ \E ip \in BOOLEAN : Boot(ip)
        \/ \E c \in Client : ClientStep(c)
        \/ OwnStep
        \/ ServiceStop
        \/ PickTask
        \/ PickSessionInterrupted
        \/ SomeSessionEnd
        \/ LoopExit
        \/ Crash

Spec == Init /\ [][Next]_vars

(* The timer keeps firing, a client that was accepted goes on to start      *)
(* unless it dies, and a session ends: the transport gives up after its     *)
(* time-out and the ACS runs out of requests.                               *)
Fairness == /\ WF_vars(PickTask)
            /\ WF_vars(SomeSessionEnd)
            /\ \A c \in Client : WF_vars(Start(c))

FairSpec == Spec /\ Fairness
-----------------------------------------------------------------------------
(* Every report under way and every queued SESSION task has its own token,  *)
(* and no token is left over, so that the last token is spent with the last *)
(* of them and never before: call_flag counts what it is meant to count.    *)
(* Until a stop resets it, a task queued for a refused report breaks the    *)
(* one direction, a token left without its task the other                   *)
(* (tr069_control.c:730-739).                                               *)
TokenCover ==
  ~finish_flag /\ ~overrun =>
    /\ Cardinality(Setting) + Sessions <= call_flag
    /\ ~leak => Cardinality(Setting) + Sessions = call_flag

(* The parameters that a client puts after its event are in the list until  *)
(* it starts: no session informs them before, without its event, and none   *)
(* takes its event away from them ("other proccess still setting",          *)
(* tr069_control.c:737).                                                    *)
ParametersTravelTogether ==
  ~finish_flag /\ ~overrun =>
    \A c \in Client : pc[c] = "put" =>
      \E i \in 1 .. Len(inform_parameters) : inform_parameters[i] = c

(* While a token is left some primary event is set: the last SESSION task   *)
(* never finds "no event" (tr069_control.c:749-753), which would forget the *)
(* M events with it.                                                        *)
TokenMeansEvent ==
  InMemory /\ call_flag > 0 => event \cap Primary # {}

(* An accepted primary event is in memory, in the dictionary or in the file *)
(* until a session takes it, whatever is refused, stopped, dumped, saved    *)
(* and loaded in between (tr069.c:219-462).                                 *)
OwedPending ==
  owed \subseteq event \cup (IF Running THEN ini.event ELSE disk.event)

(* No event that a session has taken comes back out of the dictionary or    *)
(* the file, not even after a crash: the load clears both (tr069.c:325-354).*)
StoredIsOwed ==
  (ini.event \cup disk.event) \cap Primary \subseteq owed

(* When reports cease, every event that is set while a token is out is      *)
(* taken by a session, or the process is stopped, or a token or a task went *)
(* astray: nothing else keeps call_flag from reaching zero                  *)
(* (tr069_control.c:730-775).                                               *)
ReportsCease == <>[][call_flag' <= call_flag]_vars

EventTaken ==
  ReportsCease =>
    \A e \in Primary :
      e \in owed /\ call_flag > 0 ~>
        e \notin owed \/ finish_flag \/ ~Running \/ leak \/ overrun

(* A diagnosis that a session executes triggers the diagnostics complete    *)
(* event, which is then informed ("should trigger diagnostics complete      *)
(* event", tr069_session.c:413 and 427; tr069_control.h:64).                *)
DiagnosisTaken ==
  ReportsCease =>
    ("DIAGNOSTICS_COMPLETE" \in owed ~>
       "DIAGNOSTICS_COMPLETE" \notin owed \/ finish_flag \/ ~Running \/ leak \/ overrun)
=============================================================================
