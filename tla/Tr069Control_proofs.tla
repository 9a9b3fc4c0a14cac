------------------------- MODULE Tr069Control_proofs -------------------------
(***************************************************************************)
(* The control manager keeps its types, and its tokens cover the reports   *)
(* under way, for any number of clients, any sizes of the queues and any   *)
(* task lists of the ACS; then its events over stops, dumps, saves,        *)
(* crashes and restarts: nothing that was informed comes back, nothing     *)
(* that is owed is lost, the parameters of a report wait for its start,    *)
(* and a report that has yet to start a session has its event set.         *)
(***************************************************************************)
EXTENDS Tr069Control, SequenceTheorems, FiniteSetTheorems, TLAPS

USE OutcomeAssumption, ControlAssumption

(* A bounded put into a list gives a list of the same kind within the bound.*)
LEMMA BoundedType ==
  ASSUME NEW S, NEW s \in Seq(S), NEW n \in Nat
  PROVE  Bounded(s, n) \in Seq(S) /\ Len(Bounded(s, n)) <= n
<1>1. CASE Len(s) <= n
  BY <1>1 DEF Bounded
<1>2. CASE ~(Len(s) <= n)
  <2>1. \A i \in 1 .. n : s[i] \in S
    BY <1>2
  <2>2. SubSeq(s, 1, n) \in Seq(S) /\ Len(SubSeq(s, 1, n)) <= n
    BY <2>1, SubSeqProperties
  <2> QED BY <1>2, <2>2 DEF Bounded
<1> QED BY <1>1, <1>2

(* put_task keeps a queue of tasks within its capacity.                     *)
LEMMA PutTasksType ==
  ASSUME NEW q \in Seq(Task), NEW ts \in Seq(Task)
  PROVE  PutTasks(q, ts) \in Seq(Task) /\ Len(PutTasks(q, ts)) < MaxTask
<1>1. q \o ts \in Seq(Task)
  BY ConcatProperties
<1>2. MaxTask - 1 \in Nat
  OBVIOUS
<1>3. PutTasks(q, ts) \in Seq(Task) /\ Len(PutTasks(q, ts)) <= MaxTask - 1
  BY <1>1, <1>2, BoundedType DEF PutTasks
<1>4. Len(PutTasks(q, ts)) \in Nat
  BY <1>3, LenProperties
<1> QED BY <1>3, <1>4

(* The lists of one task or one parameter that are put.                     *)
LEMMA Singles == /\ <<>> \in Seq(Task) /\ <<"SESSION">> \in Seq(Task)
                 /\ <<>> \in Seq(Param) /\ <<Own>> \in Seq(Param)
                 /\ \A c \in Client : <<c>> \in Seq(Param)
<1>1. "SESSION" \in Task
  BY DEF Task
<1>2. Own \in Param /\ Client \subseteq Param
  BY DEF Param
<1> QED BY <1>1, <1>2

(* What the process has when it is not running.                             *)
LEMMA Nothings == /\ NoSession \in [event : SUBSET Event, params : Seq(Param)]
                  /\ [c \in Client |-> "idle"] \in [Client -> {"idle", "set", "put"}]
<1>1. <<>> \in Seq(Param) /\ {} \in SUBSET Event
  OBVIOUS
<1> QED BY <1>1 DEF NoSession

(* put_inform_parameter keeps the list within its capacity.                 *)
LEMMA PutParamsType ==
  ASSUME NEW s \in Seq(Param), NEW ps \in Seq(Param)
  PROVE  PutParams(s, ps) \in Seq(Param) /\ Len(PutParams(s, ps)) <= MaxParam
<1>1. s \o ps \in Seq(Param)
  BY ConcatProperties
<1> QED BY <1>1, BoundedType DEF PutParams

(* put_request keeps the requests within their queue.                       *)
LEMMA PutRequestsType ==
  ASSUME NEW m \in 0 .. MaxRequest - 1, NEW n \in Nat
  PROVE  /\ PutRequests(m, n) \in 0 .. MaxRequest - 1
         /\ PutRequests(m, n) \in m .. m + n
BY DEF PutRequests

(* What the fields of the status dictionary are.                            *)
LEMMA IniFields ==
  ASSUME NEW f \in IniFile
  PROVE  /\ f.event \in SUBSET Event /\ f.params \in Seq(Param)
         /\ f.requests \in Nat /\ f.first_boot \in BOOLEAN
BY DEF IniFile

(* Setting the event flags keeps the other fields.                          *)
LEMMA IniSetEvent ==
  ASSUME NEW f \in IniFile, NEW es \in SUBSET Event
  PROVE  /\ [f EXCEPT !.event = es] \in IniFile
         /\ [f EXCEPT !.event = es].params = f.params
         /\ [f EXCEPT !.event = es].requests = f.requests
BY DEF IniFile

(* Setting the parameters keeps the count of the requests.                  *)
LEMMA IniSetParams ==
  ASSUME NEW f \in IniFile, NEW ps \in Seq(Param)
  PROVE  /\ [f EXCEPT !.params = ps] \in IniFile
         /\ [f EXCEPT !.params = ps].requests = f.requests
BY DEF IniFile

(* Setting the count of the requests gives that count.                      *)
LEMMA IniSetRequests ==
  ASSUME NEW f \in IniFile, NEW n \in Nat
  PROVE  /\ [f EXCEPT !.requests = n] \in IniFile
         /\ [f EXCEPT !.requests = n].requests = n
BY DEF IniFile

(* Setting FirstBoot keeps the count of the requests.                       *)
LEMMA IniSetFirstBoot ==
  ASSUME NEW f \in IniFile, NEW b \in BOOLEAN
  PROVE  /\ [f EXCEPT !.first_boot = b] \in IniFile
         /\ [f EXCEPT !.first_boot = b].requests = f.requests
BY DEF IniFile

(* Recording an event and a parameter keeps the types, in memory and in the *)
(* dictionary.                                                              *)
LEMMA RecordType ==
  ASSUME TypeOK, NEW es \in SUBSET Event, NEW ps \in Seq(Param), Record(es, ps)
  PROVE  /\ event' \subseteq Event
         /\ inform_parameters' \in Seq(Param) /\ Len(inform_parameters') <= MaxParam
         /\ ini' \in IniFile /\ ini'.requests < MaxRequest
<1>1. CASE InMemory
  <2>1. /\ PutParams(inform_parameters, ps) \in Seq(Param)
        /\ Len(PutParams(inform_parameters, ps)) <= MaxParam
    BY PutParamsType DEF TypeOK
  <2> QED BY <1>1, <2>1 DEF Record, TypeOK
<1>2. CASE ~InMemory
  <2> DEFINE es1 == IF es = {} THEN ini.event ELSE (ini.event \ {LastEvent}) \cup es
             f1 == [ini EXCEPT !.event = es1]
             ps1 == PutParams(f1.params, ps)
  <2>1. ini \in IniFile /\ ini.requests < MaxRequest
    BY DEF TypeOK
  <2>2. ini.event \in SUBSET Event
    BY <2>1, IniFields
  <2>3. es1 \in SUBSET Event
    BY <2>2
  <2> HIDE DEF es1
  <2>4. f1 \in IniFile /\ f1.params = ini.params /\ f1.requests = ini.requests
    BY <2>1, <2>3, IniSetEvent
  <2> HIDE DEF f1
  <2>5. ps1 \in Seq(Param)
    BY <2>4, IniFields, PutParamsType
  <2> HIDE DEF ps1
  <2>6. [f1 EXCEPT !.params = ps1] \in IniFile /\ [f1 EXCEPT !.params = ps1].requests < MaxRequest
    BY <2>1, <2>4, <2>5, IniSetParams
  <2>7. /\ ini' = [f1 EXCEPT !.params = ps1]
        /\ UNCHANGED <<event, inform_parameters>>
    BY <1>2, <2>4 DEF Record, f1, es1, ps1
  <2> QED BY <2>6, <2>7 DEF TypeOK
<1> QED BY <1>1, <1>2
-----------------------------------------------------------------------------
(* The types hold when the process has not been started yet.                *)
LEMMA InitType == Init => TypeOK
<1> SUFFICES ASSUME Init PROVE TypeOK
  OBVIOUS
<1>1. disk \in IniFile /\ disk.requests < MaxRequest
  BY DEF Init, IniFile
<1>2. status = "STOP" /\ owed = {} /\ call_flag = 0 /\ requests = 0 /\ ini = disk
  BY DEF Init
<1>3. /\ task_queue \in Seq(Task) /\ Len(task_queue) < MaxTask
      /\ inform_parameters \in Seq(Param) /\ Len(inform_parameters) <= MaxParam
  BY DEF Init
<1>4. /\ session \in [event : SUBSET Event, params : Seq(Param)]
      /\ pc \in [Client -> {"idle", "set", "put"}]
  BY Nothings DEF Init
<1>5. {finish_flag, overrun, leak} \subseteq BOOLEAN /\ event = {}
  BY DEF Init
<1> QED BY <1>1, <1>2, <1>3, <1>4, <1>5 DEF TypeOK

(* ... when it ends with a file f of the right kind ...                     *)
LEMMA EndedType ==
  ASSUME TypeOK, NEW f \in IniFile, f.requests < MaxRequest, Ended(f), owed' \subseteq owed
  PROVE  TypeOK'
<1>1. /\ status' = "STOP" /\ call_flag' = 0 /\ requests' = 0
      /\ ini' = f /\ disk' = f
  BY DEF Ended
<1>2. /\ task_queue' \in Seq(Task) /\ Len(task_queue') < MaxTask
      /\ inform_parameters' \in Seq(Param) /\ Len(inform_parameters') <= MaxParam
  BY DEF Ended
<1>3. /\ session' \in [event : SUBSET Event, params : Seq(Param)]
      /\ pc' \in [Client -> {"idle", "set", "put"}]
  BY Nothings DEF Ended
<1>4. {finish_flag', overrun', leak'} \subseteq BOOLEAN /\ event' = {}
  BY DEF Ended
<1>5. owed' \subseteq Primary
  BY DEF TypeOK
<1> QED BY <1>1, <1>2, <1>3, <1>4, <1>5 DEF TypeOK

(* ... and when it boots.                                                   *)
LEMMA BootType ==
  ASSUME TypeOK, NEW ip \in BOOLEAN, Boot(ip)
  PROVE  TypeOK'
<1> DEFINE first == IF ~ip THEN {} ELSE IF disk.first_boot THEN {"BOOTSTRAP"} ELSE {"BOOT"}
<1>1. disk \in IniFile /\ disk.requests < MaxRequest
  BY DEF TypeOK
<1>2. /\ disk.event \in SUBSET Event /\ disk.params \in Seq(Param)
      /\ disk.requests \in Nat /\ disk.first_boot \in BOOLEAN
  BY <1>1, IniFields
<1>3. first \subseteq Primary /\ Cardinality(first) \in {0, 1}
  BY FS_EmptySet, FS_Singleton DEF Primary
<1>4. Cleared(ip) \in IniFile /\ Cleared(ip).requests < MaxRequest
  BY <1>2 DEF IniFile, Cleared
<1>5. (IF ip THEN <<Own>> ELSE <<>>) \in Seq(Param)
  BY Singles
<1>6. (IF ip THEN PutTasks(<<>>, <<"SESSION">>) ELSE <<>>) \in Seq(Task)
      /\ Len(IF ip THEN PutTasks(<<>>, <<"SESSION">>) ELSE <<>>) < MaxTask
  <2>1. CASE ip
    BY <2>1, Singles, PutTasksType
  <2>2. CASE ~ip
    BY <2>2, Singles
  <2> QED BY <2>1, <2>2
<1> HIDE DEF first
<1>7. event' \subseteq Event /\ owed' \subseteq Primary
  BY <1>2, <1>3 DEF Boot, first, Event, TypeOK
<1>8. /\ inform_parameters' \in Seq(Param) /\ Len(inform_parameters') <= MaxParam
  BY <1>2, <1>5, PutParamsType DEF Boot
<1>9. call_flag' \in -1 .. MaxTask
  BY <1>3 DEF Boot, first
<1>10. ini' = Cleared(ip) /\ disk' = Cleared(ip)
  BY DEF Boot
<1>11. requests' \in 0 .. MaxRequest - 1
  BY <1>1, <1>2 DEF Boot
<1>12. task_queue' \in Seq(Task) /\ Len(task_queue') < MaxTask
  BY <1>6 DEF Boot
<1> QED BY <1>4, <1>7, <1>8, <1>9, <1>10, <1>11, <1>12 DEF Boot, TypeOK
-----------------------------------------------------------------------------
(* A step of a client keeps the types.                                      *)
LEMMA ClientType ==
  ASSUME TypeOK, NEW c \in Client, ClientStep(c)
  PROVE  TypeOK'
<1>1. <<c>> \in Seq(Param) /\ <<>> \in Seq(Param)
  BY Singles
<1>2. ASSUME NEW e \in ClientEvent, NEW v \in Value, SetEvent(c, e, v) PROVE TypeOK'
  <2>1. e \in Primary /\ {e} \in SUBSET Event
    BY DEF Event
  <2>2. /\ event' \subseteq Event
        /\ inform_parameters' \in Seq(Param) /\ Len(inform_parameters') <= MaxParam
        /\ ini' \in IniFile /\ ini'.requests < MaxRequest
    <3>1. CASE v = 1
      BY <1>1, <1>2, <2>1, <3>1, RecordType DEF SetEvent
    <3>2. CASE v # 1 /\ InMemory
      BY <1>2, <3>2 DEF SetEvent, TypeOK
    <3>3. CASE v # 1 /\ ~InMemory
      <4> DEFINE es == ini.event \ {e, LastEvent}
      <4>1. ini \in IniFile /\ es \in SUBSET Event
        BY IniFields DEF TypeOK
      <4> HIDE DEF es
      <4>2. [ini EXCEPT !.event = es] \in IniFile
            /\ [ini EXCEPT !.event = es].requests = ini.requests
        BY <4>1, IniSetEvent
      <4>3. ini' = [ini EXCEPT !.event = es] /\ UNCHANGED <<event, inform_parameters>>
        BY <1>2, <3>3 DEF SetEvent, es
      <4> QED BY <4>2, <4>3 DEF TypeOK
    <3> QED BY <3>1, <3>2, <3>3
  <2>3. call_flag' \in -1 .. MaxTask
    BY <1>2 DEF SetEvent, Open, TypeOK
  <2>4. owed' \subseteq Primary
    BY <1>2, <2>1 DEF SetEvent, TypeOK
  <2> QED BY <1>2, <2>2, <2>3, <2>4 DEF SetEvent, TypeOK
<1>3. CASE PutInformParameter(c)
  <2>1. /\ event' \subseteq Event
        /\ inform_parameters' \in Seq(Param) /\ Len(inform_parameters') <= MaxParam
        /\ ini' \in IniFile /\ ini'.requests < MaxRequest
    BY <1>1, <1>3, RecordType DEF PutInformParameter
  <2> QED BY <1>3, <2>1 DEF PutInformParameter, TypeOK
<1>4. CASE PutRequest(c)
  <2>1. requests \in 0 .. MaxRequest - 1 /\ ini \in IniFile /\ ini.requests \in 0 .. MaxRequest - 1
    BY IniFields DEF TypeOK
  <2> DEFINE n == PutRequests(ini.requests, 1)
  <2>2. PutRequests(requests, 1) \in 0 .. MaxRequest - 1 /\ n \in 0 .. MaxRequest - 1
    BY <2>1, PutRequestsType
  <2> HIDE DEF n
  <2>3. [ini EXCEPT !.requests = n] \in IniFile /\ [ini EXCEPT !.requests = n].requests < MaxRequest
    BY <2>1, <2>2, IniSetRequests
  <2>4. requests' \in 0 .. MaxRequest - 1 /\ ini' \in IniFile /\ ini'.requests < MaxRequest
    <3>1. CASE InMemory
      BY <1>4, <2>1, <2>2, <3>1 DEF PutRequest
    <3>2. CASE ~InMemory
      BY <1>4, <2>1, <2>3, <3>2 DEF PutRequest, n
    <3> QED BY <3>1, <3>2
  <2> QED BY <1>4, <2>4 DEF PutRequest, TypeOK
<1>5. CASE Start(c)
  <2>1. task_queue' \in Seq(Task) /\ Len(task_queue') < MaxTask
    BY <1>5, Singles, PutTasksType DEF Start, TypeOK
  <2> QED BY <1>5, <2>1 DEF Start, TypeOK, Full
<1>6. CASE Die(c)
  BY <1>6 DEF Die, TypeOK
<1> QED BY <1>2, <1>3, <1>4, <1>5, <1>6 DEF ClientStep

(* So does a report of the process itself.                                  *)
LEMMA OwnType ==
  ASSUME TypeOK, OwnStep
  PROVE  TypeOK'
<1>1. <<Own>> \in Seq(Param) /\ <<>> \in Seq(Param)
  BY Singles
<1>2. /\ PutTasks(task_queue, <<"SESSION">>) \in Seq(Task)
      /\ Len(PutTasks(task_queue, <<"SESSION">>)) < MaxTask
  BY Singles, PutTasksType DEF TypeOK
<1>3. /\ "SCHEDULED" \in Primary
      /\ {} \in SUBSET Event /\ {"SCHEDULED"} \in SUBSET Event
      /\ {"SCHEDULED", LastEvent} \in SUBSET Event
  BY DEF Event, Primary
<1> DEFINE Recorded == /\ event' \subseteq Event
                       /\ inform_parameters' \in Seq(Param)
                       /\ Len(inform_parameters') <= MaxParam
                       /\ ini' \in IniFile /\ ini'.requests < MaxRequest
<1>4. ASSUME NEW e \in Report, OwnReport(e) PROVE TypeOK'
  <2>1. e \in Primary /\ {e} \in SUBSET Event
    BY DEF Event
  <2>2. Recorded
    BY <1>1, <1>4, <2>1, RecordType DEF OwnReport
  <2> QED BY <1>2, <1>4, <2>1, <2>2 DEF OwnReport, TypeOK, Open, Full
<1>5. ASSUME NEW e \in Report, OwnReportRefused(e) PROVE TypeOK'
  <2>1. Recorded
    BY <1>1, <1>3, <1>5, RecordType DEF OwnReportRefused
  <2> QED BY <1>2, <1>5, <2>1 DEF OwnReportRefused, TypeOK
<1>6. CASE ValueChangeRefused
  <2>1. Recorded
    BY <1>1, <1>3, <1>6, RecordType DEF ValueChangeRefused
  <2> QED BY <1>6, <2>1 DEF ValueChangeRefused, TypeOK
<1>7. CASE LogMessage
  <2>1. Recorded
    <3>1. CASE call_flag' < MaxTask
      BY <1>1, <1>3, <1>7, <3>1, RecordType DEF LogMessage
    <3>2. CASE ~(call_flag' < MaxTask)
      BY <1>1, <1>3, <1>7, <3>2, RecordType DEF LogMessage
    <3> QED BY <3>1, <3>2
  <2>2. owed' \subseteq Primary /\ call_flag' \in -1 .. MaxTask
    BY <1>3, <1>7 DEF LogMessage, TypeOK, Open
  <2>3. task_queue' \in Seq(Task) /\ Len(task_queue') < MaxTask
    BY <1>2, <1>7 DEF LogMessage, TypeOK
  <2>4. leak' \in BOOLEAN
    BY <1>7 DEF LogMessage, TypeOK, Full
  <2> QED BY <1>7, <2>1, <2>2, <2>3, <2>4 DEF LogMessage, TypeOK
<1> QED BY <1>4, <1>5, <1>6, <1>7 DEF OwnStep

(* A token that is spent keeps the types, whatever call_flag is then.       *)
LEMMA SpentType ==
  ASSUME TypeOK, task_queue # <<>>, NEW r \in -1 .. MaxTask, Spent(r),
         finish_flag' \in BOOLEAN
  PROVE  TypeOK'
<1>1. task_queue' \in Seq(Task) /\ Len(task_queue') < MaxTask
  BY HeadTailProperties, LenProperties DEF Spent, TypeOK
<1>2. /\ status' \in {"STOP", "IDLE", "TASK", "QUIT"}
      /\ event' \subseteq Event
      /\ owed' \subseteq Primary
  BY DEF Spent, TypeOK
<1>3. /\ inform_parameters' \in Seq(Param) /\ Len(inform_parameters') <= MaxParam
      /\ session' \in [event : SUBSET Event, params : Seq(Param)]
  <2>1. CASE UNCHANGED <<inform_parameters, session>>
    BY <2>1 DEF TypeOK
  <2>2. CASE /\ session' = [event |-> event, params |-> inform_parameters]
             /\ inform_parameters' = <<>>
    BY <2>2 DEF TypeOK
  <2> QED BY <2>1, <2>2 DEF Spent
<1> QED BY <1>1, <1>2, <1>3 DEF Spent, TypeOK

(* So does the timer that picks tasks.                                      *)
LEMMA PickType ==
  ASSUME TypeOK, PickTask \/ PickSessionInterrupted
  PROVE  TypeOK'
<1>1. /\ task_queue \in Seq(Task) /\ Len(task_queue) < MaxTask
      /\ task_queue # <<>> => /\ Tail(task_queue) \in Seq(Task)
                              /\ Len(Tail(task_queue)) < MaxTask
  BY HeadTailProperties, LenProperties DEF TypeOK
<1>2. CASE TaskWithoutSetting
  BY <1>1, <1>2 DEF TaskWithoutSetting, Picks, TypeOK
<1>3. CASE PickSession
  BY <1>3, SpentType DEF PickSession, Picks, TypeOK
<1>4. CASE PickSessionInterrupted
  <2>1. PICK r \in {-1, call_flag - 1, 0} : Spent(r)
    BY <1>4 DEF PickSessionInterrupted
  <2>2. r \in -1 .. MaxTask
    BY <1>4 DEF PickSessionInterrupted, TypeOK
  <2> QED BY <1>4, <2>1, <2>2, SpentType DEF PickSessionInterrupted, Picks
<1>5. ASSUME NEW quit \in BOOLEAN, PickReboot(quit) PROVE TypeOK'
  <2>1. event' \subseteq Event
    BY <1>5 DEF PickReboot, TypeOK, Event
  <2>2. call_flag' \in -1 .. MaxTask
    BY <1>5 DEF PickReboot, TypeOK
  <2> QED BY <1>1, <1>5, <2>1, <2>2 DEF PickReboot, Picks, TypeOK
<1>6. CASE PickFactoryReset
  <2>1. /\ ini' \in IniFile /\ ini'.requests < MaxRequest
        /\ disk' \in IniFile /\ disk'.requests < MaxRequest
    BY <1>6, IniSetFirstBoot DEF PickFactoryReset, TypeOK
  <2> QED BY <1>1, <1>6, <2>1 DEF PickFactoryReset, Picks, TypeOK
<1>7. CASE PickOther
  <2>1. task_queue # <<>>
    BY <1>7 DEF PickOther, Picks
  <2> QED BY <1>1, <1>7, <2>1 DEF PickOther, TypeOK
<1>8. CASE PickDiagnosis
  <2>1. task_queue # <<>>
    BY <1>8 DEF PickDiagnosis, Picks
  <2>2. task_queue' \in Seq(Task) /\ Len(task_queue') < MaxTask
    BY <1>1, <1>8, <2>1, Singles, PutTasksType DEF PickDiagnosis
  <2>3. "DIAGNOSTICS_COMPLETE" \in Event /\ "DIAGNOSTICS_COMPLETE" \in Primary
    BY DEF Event, Primary
  <2>4. CASE Open
    <3>1. /\ event' \subseteq Event /\ owed' \subseteq Primary
          /\ overrun' = overrun
      BY <1>8, <2>3, <2>4 DEF PickDiagnosis, TypeOK
    <3>2. call_flag' \in -1 .. MaxTask
      BY <1>8, <2>4 DEF PickDiagnosis, TypeOK, Open
    <3> QED BY <1>8, <2>2, <3>1, <3>2 DEF PickDiagnosis, TypeOK
  <2>5. CASE ~Open
    BY <1>8, <2>2, <2>5 DEF PickDiagnosis, TypeOK
  <2> QED BY <2>4, <2>5
<1>9. CASE Dump
  <2> DEFINE es == ini.event \cup event
             f1 == [ini EXCEPT !.event = es]
             ps == PutParams(f1.params, inform_parameters)
             f2 == [f1 EXCEPT !.params = ps]
             n == PutRequests(f2.requests, requests)
  <2>1. /\ ini \in IniFile /\ ini.requests \in 0 .. MaxRequest - 1
        /\ requests \in 0 .. MaxRequest - 1
        /\ es \in SUBSET Event
    BY IniFields DEF TypeOK
  <2>2. ini' = [f2 EXCEPT !.requests = n]
    BY <1>9 DEF Dump
  <2> HIDE DEF es
  <2>3. f1 \in IniFile /\ f1.requests = ini.requests
    BY <2>1, IniSetEvent
  <2> HIDE DEF f1
  <2>4. ps \in Seq(Param)
    BY <2>3, IniFields, PutParamsType DEF TypeOK
  <2> HIDE DEF ps
  <2>5. f2 \in IniFile /\ f2.requests = ini.requests
    BY <2>3, <2>4, IniSetParams
  <2> HIDE DEF f2
  <2>6. n \in 0 .. MaxRequest - 1 /\ n \in ini.requests .. ini.requests + requests
    <3>1. f2.requests \in 0 .. MaxRequest - 1 /\ requests \in Nat
      BY <2>1, <2>5
    <3>2. n \in 0 .. MaxRequest - 1 /\ n \in f2.requests .. f2.requests + requests
      BY <3>1, PutRequestsType
    <3> QED BY <2>5, <3>2
  <2> HIDE DEF n
  <2>7. ini' \in IniFile /\ ini'.requests = n
    BY <2>2, <2>5, <2>6, IniSetRequests
  <2>8. requests' \in 0 .. MaxRequest - 1
    BY <1>9, <2>1, <2>6, <2>7 DEF Dump
  <2> QED BY <1>9, <2>6, <2>7, <2>8 DEF Dump, TypeOK
<1> QED BY <1>2, <1>3, <1>4, <1>5, <1>6, <1>7, <1>8, <1>9 DEF PickTask

(* So does the end of a session.                                            *)
LEMMA SessionEndType ==
  ASSUME TypeOK, NEW o \in Outcomes(requests), SessionEnd(o)
  PROVE  TypeOK'
<1>1. /\ o.drained \in BOOLEAN
      /\ o.diag \in {FALSE, Asked({"PING", "TRACERT"})}
      /\ o.reset \in {FALSE, Asked({"FACTORY_RESET"})}
      /\ o.left \in RpcTasks \cup {<<>>}
      /\ o.sent \in 0 .. requests
  BY DEF Outcomes
<1>2. o.diag \in BOOLEAN /\ o.reset \in BOOLEAN
  BY <1>1 DEF Asked
<1>3. o.left \in Seq(Task)
  <2>1. RpcTasks \subseteq Seq(Rpc) /\ Rpc \subseteq Task
    BY DEF Task
  <2>2. CASE o.left \in RpcTasks
    BY <2>1, <2>2, SeqMonotonic
  <2>3. CASE o.left = <<>>
    BY <2>3, Singles
  <2> QED BY <1>1, <2>2, <2>3
<1>4. task_queue' \in Seq(Task) /\ Len(task_queue') < MaxTask
  <2>1. CASE o.drained
    BY <1>3, <2>1, Singles, PutTasksType DEF SessionEnd, QueueAfter
  <2>2. CASE ~o.drained
    BY <1>3, <2>2, PutTasksType DEF SessionEnd, QueueAfter, TypeOK
  <2> QED BY <2>1, <2>2
<1>5. /\ ini' \in IniFile /\ ini'.requests < MaxRequest
      /\ disk' \in IniFile /\ disk'.requests < MaxRequest
  <2> DEFINE b == ini.first_boot \/ o.reset
             d == disk.first_boot \/ o.reset
  <2>1. b \in BOOLEAN /\ d \in BOOLEAN
    OBVIOUS
  <2>2. ini' = [ini EXCEPT !.first_boot = b] /\ disk' = [disk EXCEPT !.first_boot = d]
    BY DEF SessionEnd
  <2> HIDE DEF b, d
  <2> QED BY <2>1, <2>2, IniSetFirstBoot DEF TypeOK
<1>6. requests' \in 0 .. MaxRequest - 1
  BY <1>1 DEF SessionEnd, TypeOK
<1>7. event' \subseteq Event /\ owed' \subseteq Primary
  BY DEF SessionEnd, TypeOK, Event, Primary
<1>8. session' \in [event : SUBSET Event, params : Seq(Param)]
  BY Nothings DEF SessionEnd
<1> QED BY <1>4, <1>5, <1>6, <1>7, <1>8 DEF SessionEnd, TypeOK

(* Every step keeps the types.                                              *)
LEMMA StepType == TypeOK /\ [Next]_vars => TypeOK'
<1> SUFFICES ASSUME TypeOK, [Next]_vars PROVE TypeOK'
  OBVIOUS
<1>1. CASE \E ip \in BOOLEAN : Boot(ip)
  BY <1>1, BootType
<1>2. CASE \E c \in Client : ClientStep(c)
  BY <1>2, ClientType
<1>3. CASE OwnStep
  BY <1>3, OwnType
<1>4. CASE ServiceStop
  BY <1>4 DEF ServiceStop, TypeOK
<1>5. CASE PickTask \/ PickSessionInterrupted
  BY <1>5, PickType
<1>6. CASE SomeSessionEnd
  BY <1>6, SessionEndType DEF SomeSessionEnd
<1>7. CASE LoopExit
  BY <1>7, EndedType DEF LoopExit, TypeOK
<1>8. CASE Crash
  BY <1>8, EndedType DEF Crash, TypeOK
<1>9. CASE UNCHANGED vars
  BY <1>9 DEF vars, TypeOK
<1> QED BY <1>1, <1>2, <1>3, <1>4, <1>5, <1>6, <1>7, <1>8, <1>9 DEF Next

(* No run of the control manager leaves its types: call_flag stays between  *)
(* -1 and the limit of set_event, and no queue or list outgrows its array,  *)
(* with any number of clients and any sizes.                                *)
THEOREM ControlTypeCorrect == Spec => []TypeOK
BY InitType, StepType, PTL DEF Spec
-----------------------------------------------------------------------------
(***************************************************************************)
(* Counting the SESSION tasks of a queue.                                  *)
(***************************************************************************)
At(q) == {i \in 1 .. Len(q) : q[i] = "SESSION"}

(* The count is a natural number, of a finite set of positions.             *)
LEMMA CountNat ==
  ASSUME NEW q \in Seq(Task)
  PROVE  IsFiniteSet(At(q)) /\ SessionsIn(q) \in Nat /\ SessionsIn(q) = Cardinality(At(q))
<1>1. IsFiniteSet(1 .. Len(q))
  BY LenProperties, FS_Interval
<1>2. IsFiniteSet(At(q))
  BY <1>1, FS_Subset DEF At
<1> QED BY <1>2, FS_CardinalityType DEF At, SessionsIn

(* No SESSION task is in the empty queue.                                   *)
LEMMA CountEmpty == SessionsIn(<<>>) = 0
<1>1. At(<<>>) = {}
  BY DEF At
<1> QED BY <1>1, FS_EmptySet DEF At, SessionsIn

(* A SESSION task appended adds one.                                        *)
LEMMA CountAppend ==
  ASSUME NEW q \in Seq(Task)
  PROVE  SessionsIn(Append(q, "SESSION")) = SessionsIn(q) + 1
<1> DEFINE a == Append(q, "SESSION")
<1>1. "SESSION" \in Task
  BY DEF Task
<1>2. /\ a \in Seq(Task) /\ Len(a) = Len(q) + 1
      /\ a[Len(q) + 1] = "SESSION"
      /\ \A i \in 1 .. Len(q) : a[i] = q[i]
      /\ Len(q) \in Nat
  BY <1>1
<1>3. At(a) = At(q) \cup {Len(q) + 1} /\ Len(q) + 1 \notin At(q)
  BY <1>2 DEF At
<1>4. Cardinality(At(a)) = Cardinality(At(q)) + 1
  BY <1>3, CountNat, FS_AddElement
<1> QED BY <1>2, <1>4, CountNat

(* The tail has one less if the head is a SESSION task, else as many.       *)
LEMMA CountTail ==
  ASSUME NEW q \in Seq(Task), q # <<>>
  PROVE  SessionsIn(q) = SessionsIn(Tail(q)) + (IF Head(q) = "SESSION" THEN 1 ELSE 0)
<1> DEFINE t == Tail(q)
           rest == At(q) \ {1}
           f == [i \in At(t) |-> i + 1]
<1>1. /\ t \in Seq(Task) /\ Len(t) = Len(q) - 1
      /\ \A i \in 1 .. Len(t) : t[i] = q[i + 1]
      /\ Len(q) \in Nat \ {0} /\ Head(q) = q[1]
  BY HeadTailProperties, EmptySeq
<1>2. f \in Bijection(At(t), rest)
  <2>1. f \in [At(t) -> rest]
    BY <1>1 DEF At
  <2>2. \A x, y \in At(t) : f[x] = f[y] => x = y
    BY DEF At
  <2>3. \A z \in rest : \E x \in At(t) : f[x] = z
    <3> SUFFICES ASSUME NEW z \in rest PROVE \E x \in At(t) : f[x] = z
      OBVIOUS
    <3>1. z - 1 \in At(t) /\ f[z - 1] = z
      BY <1>1 DEF At
    <3> QED BY <3>1
  <2> QED BY <2>1, <2>2, <2>3 DEF Bijection, Injection, Surjection, IsInjective
<1>3. Cardinality(rest) = Cardinality(At(t))
  BY <1>1, <1>2, CountNat, FS_Bijection DEF ExistsBijection
<1>4. Cardinality(rest) = IF 1 \in At(q) THEN Cardinality(At(q)) - 1 ELSE Cardinality(At(q))
  BY CountNat, FS_RemoveElement
<1>5. 1 \in At(q) <=> Head(q) = "SESSION"
  BY <1>1 DEF At
<1>6. SessionsIn(q) = Cardinality(At(q)) /\ SessionsIn(t) = Cardinality(At(t))
      /\ SessionsIn(q) \in Nat /\ SessionsIn(t) \in Nat
  BY <1>1, CountNat
<1> QED BY <1>3, <1>4, <1>5, <1>6

(* put_task(SESSION) adds one, unless the queue is full.                    *)
LEMMA CountPut ==
  ASSUME NEW q \in Seq(Task), Len(q) < MaxTask
  PROVE  SessionsIn(PutTasks(q, <<"SESSION">>)) =
           IF Len(q) = MaxTask - 1 THEN SessionsIn(q) ELSE SessionsIn(q) + 1
<1> DEFINE a == q \o <<"SESSION">>
<1>1. "SESSION" \in Task /\ Len(q) \in Nat
  BY LenProperties DEF Task
<1>2. a = Append(q, "SESSION") /\ Len(a) = Len(q) + 1
  BY <1>1
<1>3. CASE Len(q) = MaxTask - 1
  <2>1. PutTasks(q, <<"SESSION">>) = SubSeq(a, 1, Len(q))
    BY <1>1, <1>2, <1>3 DEF PutTasks, Bounded
  <2>2. SubSeq(a, 1, Len(q)) = q
    BY <1>1, <1>2
  <2> QED BY <1>3, <2>1, <2>2
<1>4. CASE Len(q) # MaxTask - 1
  <2>1. PutTasks(q, <<"SESSION">>) = a
    BY <1>1, <1>2, <1>4 DEF PutTasks, Bounded
  <2> QED BY <1>2, <1>4, <2>1, CountAppend
<1> QED BY <1>3, <1>4

(* The tasks of an RPC add none.                                            *)
LEMMA CountLeft ==
  ASSUME NEW q \in Seq(Task), Len(q) < MaxTask, NEW l \in RpcTasks \cup {<<>>}
  PROVE  SessionsIn(PutTasks(q, l)) = SessionsIn(q)
<1> DEFINE p == PutTasks(q, l)
<1>1. l \in Seq(Rpc) /\ "SESSION" \notin Rpc /\ Rpc \subseteq Task
  <2>1. "SESSION" \notin Rpc
    BY DEF Rpc
  <2>2. Rpc \subseteq Task
    BY DEF Task
  <2>3. CASE l \in RpcTasks
    BY <2>1, <2>2, <2>3
  <2>4. CASE l = <<>>
    BY <2>1, <2>2, <2>4
  <2> QED BY <2>3, <2>4
<1>2. l \in Seq(Task)
  BY <1>1, SeqMonotonic
<1>3. /\ q \o l \in Seq(Task) /\ Len(q \o l) = Len(q) + Len(l)
      /\ \A i \in 1 .. Len(q) : (q \o l)[i] = q[i]
      /\ \A i \in 1 .. Len(q) + Len(l) : i > Len(q) => (q \o l)[i] # "SESSION"
      /\ Len(q) \in Nat /\ Len(l) \in Nat
  BY <1>1, <1>2, ConcatProperties, LenProperties, ElementOfSeq
<1>4. /\ Len(p) \in Len(q) .. Len(q) + Len(l)
      /\ \A i \in 1 .. Len(p) : p[i] = (q \o l)[i]
  <2>1. CASE Len(q \o l) <= MaxTask - 1
    BY <1>3, <2>1 DEF PutTasks, Bounded
  <2>2. CASE ~(Len(q \o l) <= MaxTask - 1)
    <3>1. p = SubSeq(q \o l, 1, MaxTask - 1)
      BY <2>2 DEF PutTasks, Bounded
    <3>2. /\ Len(p) = MaxTask - 1
          /\ \A i \in 1 .. MaxTask - 1 : p[i] = (q \o l)[i]
      BY <1>3, <2>2, <3>1
    <3> QED BY <1>3, <2>2, <3>2
  <2> QED BY <2>1, <2>2
<1>5. At(p) = At(q)
  <2> SUFFICES ASSUME NEW i \in Int PROVE i \in At(p) <=> i \in At(q)
    BY <1>3, <1>4 DEF At
  <2> HIDE DEF p
  <2>1. ASSUME i \in 1 .. Len(q) PROVE i \in 1 .. Len(p) /\ p[i] = q[i]
    BY <1>3, <1>4, <2>1
  <2>2. ASSUME i \in 1 .. Len(p), i \notin 1 .. Len(q) PROVE p[i] # "SESSION"
    <3>1. i \in 1 .. Len(q) + Len(l) /\ i > Len(q)
      BY <1>3, <1>4, <2>2
    <3>2. p[i] = (q \o l)[i]
      BY <1>4, <2>2
    <3> QED BY <1>3, <3>1, <3>2
  <2> QED BY <2>1, <2>2 DEF At
<1>6. p \in Seq(Task)
  BY <1>2, PutTasksType
<1> QED BY <1>5, <1>6, CountNat
-----------------------------------------------------------------------------
(***************************************************************************)
(* The invariant behind TokenCover: an open session has spent the last     *)
(* token, so nothing that it drains from the queue was still owed one, and *)
(* no client is half way while the process is down.                        *)
(***************************************************************************)
SessionSpent == status = "TASK" /\ ~finish_flag /\ ~overrun => call_flag = 0
StoppedQuiet == ~Running => Setting = {}

Covered == /\ Cardinality(Setting) + Sessions <= call_flag
           /\ ~leak => Cardinality(Setting) + Sessions = call_flag

TokenInv == TypeOK /\ SessionSpent /\ StoppedQuiet /\ TokenCover

(* The clients that report are finitely many.                               *)
LEMMA SettingCount ==
  ASSUME TypeOK
  PROVE  /\ IsFiniteSet(Setting) /\ Cardinality(Setting) \in Nat
         /\ Setting = {} => Cardinality(Setting) = 0
BY FS_Subset, FS_CardinalityType, FS_EmptySet DEF Setting

(* set_event of an idle client adds one that reports.                       *)
LEMMA SettingBegins ==
  ASSUME TypeOK, NEW c \in Client, pc[c] = "idle", pc' = [pc EXCEPT ![c] = "set"]
  PROVE  Cardinality(Setting') = Cardinality(Setting) + 1
<1>1. Setting' = Setting \cup {c} /\ c \notin Setting
  BY DEF Setting, TypeOK
<1> QED BY <1>1, SettingCount, FS_AddElement

(* start takes one away.                                                    *)
LEMMA SettingEnds ==
  ASSUME TypeOK, NEW c \in Client, pc[c] # "idle", pc' = [pc EXCEPT ![c] = "idle"]
  PROVE  Cardinality(Setting') = Cardinality(Setting) - 1
<1>1. Setting' = Setting \ {c} /\ c \in Setting
  BY DEF Setting, TypeOK
<1> QED BY <1>1, SettingCount, FS_RemoveElement

(* put_inform_parameter in between changes nothing.                         *)
LEMMA SettingGoesOn ==
  ASSUME TypeOK, NEW c \in Client, pc[c] # "idle", pc' = [pc EXCEPT ![c] = "put"]
  PROVE  Setting' = Setting
BY DEF Setting, TypeOK

(* A step of a client leaves the tokens covered.                            *)
LEMMA ClientCovered ==
  ASSUME TypeOK, Covered, NEW c \in Client, ClientStep(c)
  PROVE  Covered'
<1>1. /\ Cardinality(Setting) \in Nat /\ Sessions \in Nat
      /\ call_flag \in Int /\ leak \in BOOLEAN
      /\ task_queue \in Seq(Task) /\ Len(task_queue) < MaxTask
  BY SettingCount, CountNat DEF TypeOK, Sessions
<1>2. ASSUME NEW e \in ClientEvent, NEW v \in Value, SetEvent(c, e, v) PROVE Covered'
  <2>1. Cardinality(Setting') = Cardinality(Setting) + 1
    BY <1>2, SettingBegins DEF SetEvent
  <2>2. Sessions' = Sessions /\ call_flag' = call_flag + 1 /\ leak' = leak
    BY <1>2 DEF SetEvent, Sessions
  <2> QED BY <1>1, <2>1, <2>2 DEF Covered
<1>3. CASE PutInformParameter(c)
  <2>1. Setting' = Setting
    BY <1>3, SettingGoesOn DEF PutInformParameter
  <2>2. Sessions' = Sessions /\ call_flag' = call_flag /\ leak' = leak
    BY <1>3 DEF PutInformParameter, Sessions
  <2> QED BY <2>1, <2>2 DEF Covered
<1>4. CASE PutRequest(c)
  BY <1>4 DEF PutRequest, Covered, Setting, Sessions
<1>5. CASE Start(c)
  <2>1. Cardinality(Setting') = Cardinality(Setting) - 1
    BY <1>5, SettingEnds DEF Start
  <2>2. Sessions' = IF Full THEN Sessions ELSE Sessions + 1
    BY <1>1, <1>5, CountPut DEF Start, Sessions, Full
  <2>3. call_flag' = call_flag /\ (Full => leak') /\ (leak => leak')
    BY <1>5 DEF Start
  <2>4. CASE Full
    BY <1>1, <2>1, <2>2, <2>3, <2>4 DEF Covered
  <2>5. CASE ~Full
    BY <1>1, <2>1, <2>2, <2>3, <2>5 DEF Covered
  <2> QED BY <2>4, <2>5
<1>6. CASE Die(c)
  <2>1. Cardinality(Setting') = Cardinality(Setting) - 1
    BY <1>6, SettingEnds DEF Die
  <2>2. Sessions' = Sessions /\ call_flag' = call_flag /\ leak'
    BY <1>6 DEF Die, Sessions
  <2> QED BY <1>1, <2>1, <2>2 DEF Covered
<1> QED BY <1>2, <1>3, <1>4, <1>5, <1>6 DEF ClientStep

(* So does a report of the process, unless it queues a task unpaid.         *)
LEMMA OwnCovered ==
  ASSUME TypeOK, Covered, OwnStep, ~overrun'
  PROVE  Covered'
<1>1. /\ Cardinality(Setting) \in Nat /\ Sessions \in Nat
      /\ call_flag \in Int /\ leak \in BOOLEAN
      /\ task_queue \in Seq(Task) /\ Len(task_queue) < MaxTask
  BY SettingCount, CountNat DEF TypeOK, Sessions
<1>2. SessionsIn(PutTasks(task_queue, <<"SESSION">>)) = IF Full THEN Sessions ELSE Sessions + 1
  BY <1>1, CountPut DEF Sessions, Full
<1>3. ASSUME NEW e \in Report, OwnReport(e) PROVE Covered'
  <2>1. /\ Setting' = Setting /\ call_flag' = call_flag + 1
        /\ (Full => leak') /\ (leak => leak')
        /\ Sessions' = SessionsIn(PutTasks(task_queue, <<"SESSION">>))
    BY <1>3 DEF OwnReport, Setting, Sessions
  <2>2. CASE Full
    BY <1>1, <1>2, <2>1, <2>2 DEF Covered
  <2>3. CASE ~Full
    BY <1>1, <1>2, <2>1, <2>3 DEF Covered
  <2> QED BY <2>2, <2>3
<1>4. ASSUME NEW e \in Report, OwnReportRefused(e) PROVE FALSE
  BY <1>4 DEF OwnReportRefused
<1>5. CASE ValueChangeRefused
  BY <1>5 DEF ValueChangeRefused, Covered, Setting, Sessions
<1>6. CASE LogMessage
  <2>1. Setting' = Setting /\ call_flag' = call_flag + 1
    BY <1>6 DEF LogMessage, Setting
  <2>2. CASE call_flag' < MaxTask
    <3>1. /\ (Full => leak') /\ (leak => leak')
          /\ Sessions' = SessionsIn(PutTasks(task_queue, <<"SESSION">>))
      BY <1>6, <2>2 DEF LogMessage, Sessions
    <3>2. CASE Full
      BY <1>1, <1>2, <2>1, <3>1, <3>2 DEF Covered
    <3>3. CASE ~Full
      BY <1>1, <1>2, <2>1, <3>1, <3>3 DEF Covered
    <3> QED BY <3>2, <3>3
  <2>3. CASE ~(call_flag' < MaxTask)
    <3>1. leak' /\ Sessions' = Sessions
      BY <1>6, <2>3 DEF LogMessage, Sessions
    <3> QED BY <1>1, <2>1, <3>1 DEF Covered
  <2> QED BY <2>2, <2>3
<1> QED BY <1>3, <1>4, <1>5, <1>6 DEF OwnStep

(* So does the timer that picks tasks, and if it opens a session it has     *)
(* spent the last token.                                                    *)
LEMMA PickCovered ==
  ASSUME TypeOK, Covered, PickTask, ~finish_flag', ~overrun'
  PROVE  Covered' /\ (status' = "TASK" => call_flag' = 0)
<1> DEFINE Q == SessionsIn(Tail(task_queue))
<1>1. /\ Cardinality(Setting) \in Nat /\ Sessions \in Nat
      /\ call_flag \in Int /\ leak \in BOOLEAN
      /\ task_queue \in Seq(Task) /\ Len(task_queue) < MaxTask
  BY SettingCount, CountNat DEF TypeOK, Sessions
<1>2. task_queue # <<>> =>
        /\ Tail(task_queue) \in Seq(Task) /\ Len(Tail(task_queue)) < MaxTask - 1
        /\ Q \in Nat
        /\ Sessions = Q + (IF Head(task_queue) = "SESSION" THEN 1 ELSE 0)
  <2> SUFFICES ASSUME task_queue # <<>>
               PROVE  /\ Tail(task_queue) \in Seq(Task) /\ Len(Tail(task_queue)) < MaxTask - 1
                      /\ Q \in Nat
                      /\ Sessions = Q + (IF Head(task_queue) = "SESSION" THEN 1 ELSE 0)
    OBVIOUS
  <2>1. /\ Tail(task_queue) \in Seq(Task)
        /\ Len(Tail(task_queue)) = Len(task_queue) - 1
    BY <1>1, HeadTailProperties
  <2>2. Len(task_queue) \in Nat
    BY <1>1, LenProperties
  <2>3. Q \in Nat
    BY <2>1, CountNat
  <2>4. Sessions = Q + (IF Head(task_queue) = "SESSION" THEN 1 ELSE 0)
    BY <1>1, CountTail DEF Sessions
  <2> QED BY <1>1, <2>1, <2>2, <2>3, <2>4
<1> HIDE DEF Q
<1>3. CASE TaskWithoutSetting
  <2>1. Sessions >= 1 /\ call_flag <= 0
    BY <1>2, <1>3 DEF TaskWithoutSetting, Picks
  <2>2. Cardinality(Setting) + Sessions <= call_flag
    BY DEF Covered
  <2> QED BY <1>1, <2>1, <2>2
<1>4. CASE PickSession
  <2>1. /\ Sessions = Q + 1 /\ Q \in Nat
        /\ call_flag > 0 /\ call_flag' = call_flag - 1
        /\ Setting' = Setting /\ Sessions' = Q /\ leak' = leak
    BY <1>2, <1>4 DEF PickSession, Picks, Spent, Setting, Sessions, Q
  <2>2. status' = "TASK" => call_flag' <= 0
    BY <1>4 DEF PickSession, Picks, Spent
  <2>3. status' = "TASK" => call_flag' = 0
    BY <1>1, <2>1, <2>2
  <2>4. Cardinality(Setting') + Sessions' <= call_flag'
    BY <1>1, <2>1 DEF Covered
  <2>5. ASSUME ~leak PROVE Cardinality(Setting') + Sessions' = call_flag'
    <3>1. Cardinality(Setting) + Sessions = call_flag
      BY <2>5 DEF Covered
    <3> QED BY <1>1, <2>1, <3>1
  <2> QED BY <2>1, <2>3, <2>4, <2>5 DEF Covered
<1>5. ASSUME NEW quit \in BOOLEAN, PickReboot(quit) PROVE Covered' /\ status' = "IDLE"
  <2>1. /\ Sessions = Q /\ Sessions' = Q /\ Setting' = Setting
        /\ call_flag' = call_flag /\ leak' = leak /\ status' = "IDLE"
    BY <1>2, <1>5 DEF PickReboot, Picks, Setting, Sessions, Q
  <2> QED BY <2>1 DEF Covered
<1>6. CASE PickFactoryReset
  <2>1. /\ Sessions = Q /\ Sessions' = Q /\ Setting' = Setting
        /\ call_flag' = call_flag /\ leak' = leak /\ status' = "IDLE"
    BY <1>2, <1>6 DEF PickFactoryReset, Picks, Setting, Sessions, Q
  <2> QED BY <2>1 DEF Covered
<1>7. CASE PickOther
  <2>1. task_queue # <<>> /\ Head(task_queue) # "SESSION" /\ status = "IDLE"
    BY <1>7 DEF PickOther, Picks, Rpc
  <2>2. /\ Sessions = Q /\ Sessions' = Q /\ Setting' = Setting
        /\ call_flag' = call_flag /\ leak' = leak /\ status' = "IDLE"
    BY <1>2, <1>7, <2>1 DEF PickOther, Setting, Sessions, Q
  <2> QED BY <2>2 DEF Covered
<1>8. CASE PickDiagnosis
  <2>1. /\ task_queue # <<>> /\ Head(task_queue) # "SESSION" /\ status = "IDLE"
        /\ Open
    BY <1>8 DEF PickDiagnosis, Picks
  <2>2. SessionsIn(PutTasks(Tail(task_queue), <<"SESSION">>)) = Q + 1
    <3>1. Tail(task_queue) \in Seq(Task) /\ Len(Tail(task_queue)) \in Nat
      BY <1>2, <2>1, LenProperties
    <3>2. Len(Tail(task_queue)) < MaxTask /\ Len(Tail(task_queue)) # MaxTask - 1
      BY <1>2, <2>1, <3>1
    <3> QED BY <3>1, <3>2, CountPut DEF Q
  <2>3. /\ Sessions = Q /\ Sessions' = Q + 1 /\ Setting' = Setting
        /\ call_flag' = call_flag + 1 /\ leak' = leak /\ status' = "IDLE"
    BY <1>2, <1>8, <2>1, <2>2 DEF PickDiagnosis, Setting, Sessions, Q
  <2> QED BY <1>1, <1>2, <2>3 DEF Covered
<1>9. CASE Dump
  BY <1>9 DEF Dump
<1> QED BY <1>3, <1>4, <1>5, <1>6, <1>7, <1>8, <1>9 DEF PickTask

(* So does the end of a session, which finds no SESSION task to drain.      *)
LEMMA SessionEndCovered ==
  ASSUME TypeOK, Covered, call_flag = 0, NEW o \in Outcomes(requests), SessionEnd(o)
  PROVE  Covered'
<1>1. /\ Cardinality(Setting) \in Nat /\ Sessions \in Nat
      /\ task_queue \in Seq(Task) /\ Len(task_queue) < MaxTask
  BY SettingCount, CountNat DEF TypeOK, Sessions
<1>2. Sessions = 0 /\ Cardinality(Setting) = 0
  BY <1>1 DEF Covered
<1>3. o.left \in RpcTasks \cup {<<>>}
  BY DEF Outcomes
<1>4. Sessions' = 0
  <2>1. CASE o.drained
    <3>1. <<>> \in Seq(Task) /\ Len(<<>>) < MaxTask
      BY Singles
    <3>2. SessionsIn(PutTasks(<<>>, o.left)) = 0
      BY <1>3, <3>1, CountEmpty, CountLeft
    <3> QED BY <2>1, <3>2 DEF SessionEnd, QueueAfter, Sessions
  <2>2. CASE ~o.drained
    BY <1>1, <1>2, <1>3, <2>2, CountLeft DEF SessionEnd, QueueAfter, Sessions
  <2> QED BY <2>1, <2>2
<1>5. Setting' = Setting /\ call_flag' = 0
  BY DEF SessionEnd, Setting
<1> QED BY <1>2, <1>4, <1>5 DEF Covered

(* Every step keeps the invariant: what a stop, a crash or an unpaid task   *)
(* disturbs is excused, and the others leave the tokens covered.            *)
LEMMA StepToken == TokenInv /\ [Next]_vars => TokenInv'
<1> SUFFICES ASSUME TokenInv, [Next]_vars PROVE TokenInv'
  OBVIOUS
<1> USE DEF TokenInv
<1>1. SUFFICES SessionSpent' /\ StoppedQuiet' /\ TokenCover'
  BY StepType
<1>2. ASSUME NEW ip \in BOOLEAN, Boot(ip)
      PROVE  SessionSpent' /\ StoppedQuiet' /\ TokenCover'
  <2>1. Setting = {} /\ Setting' = Setting /\ status' = "IDLE"
    BY <1>2 DEF Boot, StoppedQuiet, Setting
  <2>2. Cardinality(Setting') = 0
    BY <2>1, FS_EmptySet
  <2>3. SessionsIn(PutTasks(<<>>, <<"SESSION">>)) = 1
    <3> DEFINE q == <<>>
    <3>1. q \in Seq(Task) /\ Len(q) < MaxTask /\ Len(q) # MaxTask - 1 /\ SessionsIn(q) = 0
      BY Singles, CountEmpty
    <3> HIDE DEF q
    <3>2. SessionsIn(PutTasks(q, <<"SESSION">>)) = SessionsIn(q) + 1
      BY <3>1, CountPut
    <3> QED BY <3>1, <3>2 DEF q
  <2>4. CASE ip
    <3>1. Sessions' = 1
      BY <1>2, <2>3, <2>4 DEF Boot, Sessions
    <3>2. call_flag' = 1
      BY <1>2, <2>4, FS_Singleton DEF Boot
    <3> QED BY <2>1, <2>2, <3>1, <3>2 DEF SessionSpent, StoppedQuiet, TokenCover, Running
  <2>5. CASE ~ip
    <3>1. Sessions' = 0
      BY <1>2, <2>5, CountEmpty DEF Boot, Sessions
    <3>2. call_flag' = 0
      BY <1>2, <2>5, FS_EmptySet DEF Boot
    <3> QED BY <2>1, <2>2, <3>1, <3>2 DEF SessionSpent, StoppedQuiet, TokenCover, Running
  <2> QED BY <2>4, <2>5
<1>3. ASSUME NEW f, Ended(f)
      PROVE  SessionSpent' /\ StoppedQuiet' /\ TokenCover'
  <2>1. Setting' = {} /\ Sessions' = 0 /\ call_flag' = 0 /\ status' = "STOP"
    BY <1>3, CountEmpty DEF Ended, Setting, Sessions
  <2>2. Cardinality(Setting') = 0
    BY <2>1, FS_EmptySet
  <2> QED BY <2>1, <2>2 DEF SessionSpent, StoppedQuiet, TokenCover
<1>4. ASSUME Running, UNCHANGED <<finish_flag, overrun>>, Covered => Covered',
             status' \in {"IDLE", "QUIT"}
      PROVE  SessionSpent' /\ StoppedQuiet' /\ TokenCover'
  BY <1>4 DEF SessionSpent, StoppedQuiet, TokenCover, Covered, Running
<1>5. CASE \E c \in Client : ClientStep(c)
  <2>1. PICK c \in Client : ClientStep(c)
    BY <1>5
  <2>2. UNCHANGED <<status, finish_flag, overrun>>
    BY <2>1 DEF ClientStep, SetEvent, PutInformParameter, PutRequest, Start, Die
  <2>3. Covered => Covered'
    BY <2>1, ClientCovered
  <2>4. CASE Die(c)
    <3>1. Running
      BY <2>4 DEF Die, StoppedQuiet, Setting
    <3>2. SessionSpent'
      BY <2>2, <2>4 DEF Die, SessionSpent
    <3>3. StoppedQuiet' /\ TokenCover'
      BY <2>2, <2>3, <3>1 DEF StoppedQuiet, TokenCover, Covered, Running
    <3> QED BY <3>2, <3>3
  <2>5. CASE ~Die(c)
    <3>1. LoopFree
      BY <2>1, <2>5 DEF ClientStep, SetEvent, PutInformParameter, PutRequest, Start
    <3> QED BY <1>4, <2>2, <2>3, <3>1 DEF Running, LoopFree
  <2> QED BY <2>4, <2>5
<1>6. CASE OwnStep
  <2>1. LoopFree /\ UNCHANGED <<status, finish_flag>>
    BY <1>6 DEF OwnStep, OwnReport, OwnReportRefused, ValueChangeRefused, LogMessage
  <2>2. overrun => overrun'
    BY <1>6 DEF OwnStep, OwnReport, OwnReportRefused, ValueChangeRefused, LogMessage
  <2>3. Covered /\ ~overrun' => Covered'
    BY <1>6, OwnCovered
  <2> QED BY <2>1, <2>2, <2>3
          DEF SessionSpent, StoppedQuiet, TokenCover, Covered, Running, LoopFree
<1>7. CASE ServiceStop
  BY <1>7 DEF ServiceStop, SessionSpent, StoppedQuiet, TokenCover, Running
<1>8. CASE PickTask
  <2> USE <1>8 DEF PickTask, Picks, TaskWithoutSetting, PickSession, Spent,
                   PickReboot, PickFactoryReset, PickOther, PickDiagnosis, Dump
  <2>1. status = "IDLE" /\ status' # "STOP"
    OBVIOUS
  <2>2. finish_flag => finish_flag'
    BY Zenon
  <2>3. overrun => overrun'
    BY Zenon
  <2>4. Covered /\ ~finish_flag' /\ ~overrun' =>
          Covered' /\ (status' = "TASK" => call_flag' = 0)
    BY PickCovered
  <2> QED BY <2>1, <2>2, <2>3, <2>4 DEF SessionSpent, StoppedQuiet, TokenCover, Covered, Running
<1>9. CASE PickSessionInterrupted
  BY <1>9 DEF PickSessionInterrupted, Picks, Spent, SessionSpent, StoppedQuiet,
              TokenCover, Running
<1>10. CASE SomeSessionEnd
  <2>1. PICK o \in Outcomes(requests) : SessionEnd(o)
    BY <1>10 DEF SomeSessionEnd
  <2>2. status = "TASK" /\ status' = "IDLE" /\ UNCHANGED <<finish_flag, overrun>>
    BY <2>1 DEF SessionEnd
  <2>3. Covered /\ call_flag = 0 => Covered'
    BY <2>1, SessionEndCovered
  <2> QED BY <2>2, <2>3 DEF SessionSpent, StoppedQuiet, TokenCover, Covered, Running
<1>11. CASE LoopExit
  BY <1>3, <1>11 DEF LoopExit
<1>12. CASE Crash
  BY <1>3, <1>12 DEF Crash
<1>13. CASE UNCHANGED vars
  BY <1>13 DEF vars, SessionSpent, StoppedQuiet, TokenCover, Running, Setting,
               Sessions, SessionsIn
<1> QED BY <1>2, <1>5, <1>6, <1>7, <1>8, <1>9, <1>10, <1>11, <1>12, <1>13 DEF Next

(* The invariant holds of every behaviour.                                  *)
LEMMA TokensHold == Spec => []TokenInv
<1>1. Init => TokenInv
  <2> SUFFICES ASSUME Init PROVE TokenInv
    OBVIOUS
  <2>1. Setting = {} /\ Sessions = 0 /\ call_flag = 0 /\ status = "STOP"
    BY CountEmpty DEF Init, Setting, Sessions
  <2>2. Cardinality(Setting) = 0
    BY <2>1, FS_EmptySet
  <2> QED BY <2>1, <2>2, InitType DEF TokenInv, SessionSpent, StoppedQuiet, TokenCover
<1> QED BY <1>1, StepToken, PTL DEF Spec

(* The call flag counts the tokens, whatever the clients, timers and the    *)
(* ACS do and however many they are: with every report under way and every  *)
(* queued SESSION task goes one token, and no other is out.                 *)
THEOREM TokensCover == Spec => []TokenCover
<1>1. TokenInv => TokenCover
  BY DEF TokenInv
<1> QED BY <1>1, TokensHold, PTL

-----------------------------------------------------------------------------
(* Events.                                                                  *)


(* While the process runs its file holds no events, and while the control  *)
(* manager is in charge neither does the dictionary: what is set then is   *)
(* owed.                                                                   *)
StoredInv == /\ StoredIsOwed
             /\ Running => disk.event = {}
             /\ InMemory => ini.event = {} /\ event \cap Primary \subseteq owed

(* Once it has dumped, the dictionary has all that is owed.                *)
OwedInv == /\ OwedPending
           /\ ~Running => event = {}
           /\ status = "QUIT" => owed \subseteq ini.event

Kept == StoredInv' /\ (OwedInv => OwedInv')

(* The events that only the informs of a session carry, and the others.    *)
LEMMA Names ==
  /\ Primary \subseteq Event /\ LastEvent \in Event /\ LastEvent \notin Primary
  /\ "M_REBOOT" \in Event /\ "M_REBOOT" \notin Primary
  /\ "DIAGNOSTICS_COMPLETE" \in Primary /\ "SCHEDULED" \in Primary
BY DEF Primary, Event, LastEvent

(* What is not about events keeps both.                                    *)
LEMMA QuietKeeps ==
  ASSUME StoredInv, ini'.event = ini.event, disk'.event = disk.event,
         UNCHANGED <<status, event, owed>>
  PROVE  Kept
BY DEF Kept, StoredInv, OwedInv, StoredIsOwed, OwedPending, Running, InMemory

(* So do events that are set in memory.                                    *)
LEMMA MemoryKeeps ==
  ASSUME TypeOK, StoredInv, InMemory, InMemory', NEW es \in SUBSET Event,
         event' = event \cup es, owed' = owed \cup (es \cap Primary),
         ini'.event = ini.event, disk'.event = disk.event
  PROVE  Kept
<1>1. Running /\ Running' /\ status # "QUIT" /\ status' # "QUIT"
  BY DEF InMemory, Running
<1>2. StoredInv'
  BY <1>1 DEF StoredInv, StoredIsOwed
<1>3. OwedInv => OwedInv'
  BY <1>1 DEF OwedInv, OwedPending
<1> QED BY <1>2, <1>3 DEF Kept

(* And events that a report records, in memory or in the dictionary.       *)
LEMMA RecordKeeps ==
  ASSUME TypeOK, StoredInv, LoopFree, NEW es \in SUBSET Event, NEW ps \in Seq(Param),
         Record(es, ps), owed' = owed \cup (es \cap Primary),
         UNCHANGED <<status, disk>>
  PROVE  Kept
<1>1. CASE InMemory
  <2>1. event' = event \cup es /\ ini' = ini /\ InMemory'
    BY <1>1 DEF Record, InMemory
  <2> QED BY <1>1, <2>1, MemoryKeeps
<1>2. CASE ~InMemory
  <2> DEFINE es1 == IF es = {} THEN ini.event ELSE (ini.event \ {LastEvent}) \cup es
             ps1 == PutParams(ini.params, ps)
  <2>1. status = "QUIT" /\ status' = "QUIT"
    BY <1>2 DEF LoopFree, InMemory
  <2>2. ini \in IniFile /\ ini.event \in SUBSET Event /\ ini.params \in Seq(Param)
    BY IniFields DEF TypeOK
  <2>3. ini' = [ini EXCEPT !.event = es1, !.params = ps1] /\ event' = event
    BY <1>2, <2>2 DEF Record, IniFile
  <2> HIDE DEF es1, ps1
  <2>4. ini'.event = es1
    BY <2>2, <2>3 DEF IniFile
  <2>5. /\ owed \subseteq Primary /\ disk' = disk /\ disk.event = {}
        /\ ini.event \cap Primary \subseteq owed
    BY <2>1 DEF TypeOK, StoredInv, StoredIsOwed, Running
  <2>6. StoredInv'
    BY <2>1, <2>4, <2>5 DEF StoredInv, StoredIsOwed, InMemory, es1
  <2>7. OwedInv => OwedInv'
    BY <2>1, <2>4, <2>5, Names DEF OwedInv, OwedPending, Running, es1
  <2> QED BY <2>6, <2>7 DEF Kept
<1> QED BY <1>1, <1>2

(* What a client sends keeps what is stored and what is owed.              *)
LEMMA ClientKeeps ==
  ASSUME TypeOK, StoredInv, NEW c \in Client, ClientStep(c)
  PROVE  Kept
<1>1. ASSUME NEW e \in ClientEvent, NEW v \in Value, SetEvent(c, e, v) PROVE Kept
  <2>0. e \in Primary /\ e # LastEvent /\ {e} \in SUBSET Event /\ <<>> \in Seq(Param)
    BY ControlAssumption, Names
  <2>1. LoopFree /\ UNCHANGED <<status, disk>>
    BY <1>1 DEF SetEvent
  <2>2. CASE v = 1
    <3>1. Record({e}, <<>>) /\ owed' = owed \cup ({e} \cap Primary)
      BY <1>1, <2>0, <2>2 DEF SetEvent
    <3> QED BY <2>0, <2>1, <3>1, RecordKeeps
  <2>3. CASE v # 1 /\ InMemory
    <3>1. owed' = owed \ {e} /\ event' = event \ {e} /\ ini' = ini /\ InMemory'
      BY <1>1, <2>1, <2>3 DEF SetEvent, InMemory
    <3>2. Running /\ Running' /\ status' # "QUIT"
      BY <2>1, <2>3 DEF InMemory, Running
    <3>3. StoredInv'
      BY <2>1, <2>3, <3>1, <3>2 DEF StoredInv, StoredIsOwed
    <3>4. OwedInv => OwedInv'
      BY <2>1, <3>1, <3>2 DEF OwedInv, OwedPending
    <3> QED BY <3>3, <3>4 DEF Kept
  <2>4. CASE v # 1 /\ ~InMemory
    <3>1. owed' = owed \ {e} /\ event' = event
          /\ ini' = [ini EXCEPT !.event = ini.event \ {e, LastEvent}]
      BY <1>1, <2>4 DEF SetEvent
    <3>2. ini'.event = ini.event \ {e, LastEvent}
      BY <3>1 DEF TypeOK, IniFile
    <3>3. status = "QUIT" /\ status' = "QUIT"
      BY <2>1, <2>4 DEF LoopFree, InMemory
    <3>4. owed \subseteq Primary
      BY DEF TypeOK
    <3>5. StoredInv'
      BY <2>1, <3>1, <3>2, <3>3 DEF StoredInv, StoredIsOwed, Running, InMemory
    <3>6. OwedInv => OwedInv'
      BY <3>1, <3>2, <3>3, <3>4, Names DEF OwedInv, OwedPending, Running
    <3> QED BY <3>5, <3>6 DEF Kept
  <2> QED BY <2>2, <2>3, <2>4
<1>2. CASE PutInformParameter(c)
  <2>1. <<c>> \in Seq(Param) /\ {} \in SUBSET Event
    BY DEF Param
  <2>2. Record({}, <<c>>) /\ LoopFree /\ owed' = owed /\ UNCHANGED <<status, disk>>
    BY <1>2 DEF PutInformParameter
  <2>3. owed' = owed \cup ({} \cap Primary)
    BY <2>2
  <2> QED BY <2>1, <2>2, <2>3, RecordKeeps
<1>3. CASE PutRequest(c)
  <2>1. UNCHANGED <<status, event, owed, disk>>
    BY <1>3 DEF PutRequest
  <2>2. ini'.event = ini.event
    BY <1>3 DEF PutRequest, TypeOK, IniFile
  <2> QED BY <2>1, <2>2, QuietKeeps
<1>4. CASE Start(c) \/ Die(c)
  <2>1. UNCHANGED <<status, event, owed, disk, ini>>
    BY <1>4 DEF Start, Die
  <2> QED BY <2>1, QuietKeeps
<1> QED BY <1>1, <1>2, <1>3, <1>4 DEF ClientStep

(* So does a report of the process itself,                                 *)
LEMMA OwnKeeps ==
  ASSUME TypeOK, StoredInv, OwnStep
  PROVE  Kept
<1>0. <<Own>> \in Seq(Param) /\ <<>> \in Seq(Param)
  BY DEF Param
<1>1. ASSUME NEW e \in Report, OwnReport(e) PROVE Kept
  <2>1. e \in Primary /\ {e} \in SUBSET Event
    BY ControlAssumption, Names
  <2>2. /\ LoopFree /\ Record({e}, <<Own>>) /\ UNCHANGED <<status, disk>>
        /\ owed' = owed \cup ({e} \cap Primary)
    BY <1>1, <2>1 DEF OwnReport
  <2> QED BY <1>0, <2>1, <2>2, RecordKeeps
<1>2. ASSUME NEW e \in Report, OwnReportRefused(e) \/ ValueChangeRefused PROVE Kept
  <2>1. /\ LoopFree /\ Record({}, <<Own>>) /\ UNCHANGED <<status, disk>>
        /\ owed' = owed \cup ({} \cap Primary)
    BY <1>2 DEF OwnReportRefused, ValueChangeRefused
  <2>2. {} \in SUBSET Event
    OBVIOUS
  <2> QED BY <1>0, <2>1, <2>2, RecordKeeps
<1>3. CASE LogMessage
  <2>1. LoopFree /\ UNCHANGED <<status, disk>> /\ owed' = owed \cup {"SCHEDULED"}
    BY <1>3 DEF LogMessage
  <2>2. \/ Record({"SCHEDULED", LastEvent}, <<Own>>)
        \/ Record({"SCHEDULED"}, <<>>)
    BY <1>3 DEF LogMessage
  <2>3. /\ {"SCHEDULED", LastEvent} \in SUBSET Event /\ {"SCHEDULED"} \in SUBSET Event
        /\ owed' = owed \cup ({"SCHEDULED", LastEvent} \cap Primary)
        /\ owed' = owed \cup ({"SCHEDULED"} \cap Primary)
    BY <2>1, Names
  <2> QED BY <1>0, <2>1, <2>2, <2>3, RecordKeeps
<1>4. CASE ValueChangeRefused
  <2>1. "VALUE_CHANGE" \in Report
    BY <1>4 DEF ValueChangeRefused
  <2> QED BY <1>2, <1>4, <2>1
<1> QED BY <1>1, <1>2, <1>3, <1>4 DEF OwnStep

(* and the end of an inform,                                               *)
LEMMA SpentKeeps ==
  ASSUME TypeOK, StoredInv, status = "IDLE", NEW r, Spent(r)
  PROVE  Kept
<1>1. UNCHANGED <<ini, disk>> /\ status' \in {"IDLE", "TASK"}
  BY DEF Spent
<1>2. \/ UNCHANGED <<event, owed>>
      \/ event \cap Primary = {} /\ event' = {} /\ owed' = owed
      \/ event' = {} /\ owed' = owed \ event
  BY DEF Spent
<1>3. Running /\ Running' /\ InMemory /\ InMemory' /\ status # "QUIT" /\ status' # "QUIT"
  BY <1>1 DEF Running, InMemory
<1>4. ini.event = {} /\ disk.event = {} /\ owed \subseteq Primary
  BY <1>3 DEF StoredInv, TypeOK
<1>5. StoredInv'
  BY <1>1, <1>2, <1>3, <1>4 DEF StoredInv, StoredIsOwed
<1>6. OwedInv => OwedInv'
  BY <1>1, <1>2, <1>3, <1>4 DEF OwedInv, OwedPending
<1> QED BY <1>5, <1>6 DEF Kept

(* and the start of a task,                                                *)
LEMMA PickKeeps ==
  ASSUME TypeOK, StoredInv, PickTask \/ PickSessionInterrupted
  PROVE  Kept
<1>1. CASE TaskWithoutSetting \/ PickOther
  <2>1. UNCHANGED <<status, event, owed, disk, ini>>
    BY <1>1 DEF TaskWithoutSetting, PickOther
  <2> QED BY <2>1, QuietKeeps
<1>2. CASE PickSession \/ PickSessionInterrupted
  <2>1. status = "IDLE" /\ \E r : Spent(r)
    BY <1>2 DEF PickSession, PickSessionInterrupted, Picks
  <2> QED BY <2>1, SpentKeeps
<1>3. ASSUME NEW quit \in BOOLEAN, PickReboot(quit) PROVE Kept
  <2>1. /\ event' = event \cup {"M_REBOOT"} /\ UNCHANGED <<status, owed, disk, ini>>
        /\ InMemory /\ InMemory'
    BY <1>3 DEF PickReboot, Picks, InMemory
  <2>2. {"M_REBOOT"} \in SUBSET Event /\ owed' = owed \cup ({"M_REBOOT"} \cap Primary)
    BY <2>1, Names
  <2> QED BY <2>1, <2>2, MemoryKeeps
<1>4. CASE PickFactoryReset
  <2>1. UNCHANGED <<status, event, owed>>
    BY <1>4 DEF PickFactoryReset
  <2>2. ini'.event = ini.event /\ disk'.event = disk.event
    BY <1>4 DEF PickFactoryReset, TypeOK, IniFile
  <2> QED BY <2>1, <2>2, QuietKeeps
<1>5. CASE PickDiagnosis
  <2>1. InMemory /\ InMemory' /\ UNCHANGED <<status, disk, ini>>
    BY <1>5 DEF PickDiagnosis, Picks, InMemory
  <2>2. CASE Open
    <3>1. /\ event' = event \cup {"DIAGNOSTICS_COMPLETE"}
          /\ owed' = owed \cup ({"DIAGNOSTICS_COMPLETE"} \cap Primary)
          /\ {"DIAGNOSTICS_COMPLETE"} \in SUBSET Event
      BY <1>5, <2>2, Names DEF PickDiagnosis
    <3> QED BY <2>1, <3>1, MemoryKeeps
  <2>3. CASE ~Open
    <3>1. UNCHANGED <<event, owed>>
      BY <1>5, <2>3 DEF PickDiagnosis
    <3> QED BY <2>1, <3>1, QuietKeeps
  <2> QED BY <2>2, <2>3
<1>6. CASE Dump
  <2>1. /\ status = "IDLE" /\ status' = "QUIT" /\ UNCHANGED <<event, owed, disk>>
    BY <1>6 DEF Dump
  <2>2. ini'.event = ini.event \cup event
    BY <1>6 DEF Dump, TypeOK, IniFile
  <2>3. Running /\ Running' /\ InMemory /\ ~InMemory'
    BY <2>1 DEF Running, InMemory
  <2>4. StoredInv'
    BY <2>1, <2>2, <2>3 DEF StoredInv, StoredIsOwed
  <2>5. OwedInv => OwedInv'
    BY <2>1, <2>2, <2>3 DEF OwedInv, OwedPending
  <2> QED BY <2>4, <2>5 DEF Kept
<1> QED BY <1>1, <1>2, <1>3, <1>4, <1>5, <1>6 DEF PickTask

(* and the end of a session,                                               *)
LEMMA SessionEndKeeps ==
  ASSUME TypeOK, StoredInv, NEW o, SessionEnd(o)
  PROVE  Kept
<1> DEFINE es == IF o.diag THEN {"DIAGNOSTICS_COMPLETE"} ELSE {}
<1>1. InMemory /\ InMemory'
  BY DEF SessionEnd, InMemory
<1>2. es \in SUBSET Event /\ event' = event \cup es /\ owed' = owed \cup (es \cap Primary)
  BY Names DEF SessionEnd
<1>3. ini'.event = ini.event /\ disk'.event = disk.event
  BY DEF SessionEnd, TypeOK, IniFile
<1> HIDE DEF es
<1> QED BY <1>1, <1>2, <1>3, MemoryKeeps

(* and a start of the process, which reads back what is stored,            *)
LEMMA BootKeeps ==
  ASSUME TypeOK, StoredInv, NEW ip \in BOOLEAN, Boot(ip)
  PROVE  Kept
<1> DEFINE first == IF ~ip THEN {} ELSE IF disk.first_boot THEN {"BOOTSTRAP"} ELSE {"BOOT"}
<1>1. /\ ~Running /\ Running' /\ InMemory' /\ status' = "IDLE"
      /\ event' = disk.event \cup first /\ owed' = owed \cup first
      /\ ini' = Cleared(ip) /\ disk' = Cleared(ip)
  BY DEF Boot, Running, InMemory
<1>2. ini'.event = {} /\ disk'.event = {}
  BY <1>1 DEF Cleared
<1> HIDE DEF first
<1>3. StoredInv'
  BY <1>1, <1>2 DEF StoredInv, StoredIsOwed
<1>4. OwedInv => OwedInv'
  BY <1>1, <1>2 DEF OwedInv, OwedPending
<1> QED BY <1>3, <1>4 DEF Kept

(* and its end, in order or by a loss of power.                            *)
LEMMA EndKeeps ==
  ASSUME TypeOK, StoredInv, LoopExit \/ Crash
  PROVE  StoredInv' /\ (StopWaits /\ OwedInv => OwedInv')
<1>1. CASE LoopExit
  <2>1. /\ Running /\ ~Running' /\ ~InMemory' /\ event' = {} /\ status' # "QUIT"
        /\ disk' = ini /\ ini' = ini /\ owed' = owed
    BY <1>1 DEF LoopExit, LoopFree, Ended, Running, InMemory
  <2>2. StopWaits => status = "QUIT"
    BY <1>1 DEF LoopExit
  <2>3. StoredInv'
    BY <2>1 DEF StoredInv, StoredIsOwed
  <2>4. StopWaits /\ OwedInv => OwedInv'
    BY <2>1, <2>2 DEF OwedInv, OwedPending
  <2> QED BY <2>3, <2>4
<1>2. CASE Crash
  <2>1. /\ ~Running' /\ ~InMemory' /\ event' = {} /\ status' # "QUIT"
        /\ disk' = disk /\ ini' = disk /\ owed' = owed \cap disk.event
    BY <1>2 DEF Crash, Ended, Running, InMemory
  <2>2. StoredInv'
    BY <2>1 DEF StoredInv, StoredIsOwed
  <2>3. OwedInv'
    BY <2>1 DEF OwedInv, OwedPending
  <2> QED BY <2>2, <2>3
<1> QED BY <1>1, <1>2

(* Together: every step.                                                   *)
LEMMA StepEvents ==
  TypeOK /\ StoredInv /\ [Next]_vars => StoredInv' /\ (StopWaits /\ OwedInv => OwedInv')
<1> SUFFICES ASSUME TypeOK, StoredInv, [Next]_vars
             PROVE  StoredInv' /\ (StopWaits /\ OwedInv => OwedInv')
  OBVIOUS
<1>1. CASE \E ip \in BOOLEAN : Boot(ip)
  BY <1>1, BootKeeps DEF Kept
<1>2. CASE \E c \in Client : ClientStep(c)
  BY <1>2, ClientKeeps DEF Kept
<1>3. CASE OwnStep
  BY <1>3, OwnKeeps DEF Kept
<1>4. CASE ServiceStop \/ UNCHANGED vars
  <2>1. UNCHANGED <<status, event, owed, disk, ini>>
    BY <1>4 DEF ServiceStop, vars
  <2> QED BY <2>1, QuietKeeps DEF Kept
<1>5. CASE PickTask \/ PickSessionInterrupted
  BY <1>5, PickKeeps DEF Kept
<1>6. CASE SomeSessionEnd
  BY <1>6, SessionEndKeeps DEF SomeSessionEnd, Kept
<1>7. CASE LoopExit \/ Crash
  BY <1>7, EndKeeps
<1> QED BY <1>1, <1>2, <1>3, <1>4, <1>5, <1>6, <1>7 DEF Next

(* Before the first start nothing is stored and nothing is owed.           *)
LEMMA InitEvents == Init => StoredInv /\ OwedInv
BY DEF Init, StoredInv, OwedInv, StoredIsOwed, OwedPending, Running, InMemory

(* No event that a session has taken is stored any more, so that none is   *)
(* informed again after a restart or a loss of power.                      *)
THEOREM NothingComesBack == Spec => []StoredIsOwed
<1>1. StoredInv => StoredIsOwed
  BY DEF StoredInv
<1> QED BY <1>1, InitEvents, StepEvents, ControlTypeCorrect, PTL DEF Spec

(* An accepted event is in memory, in the dictionary or in the file until  *)
(* a session takes it, if the loop waits for the dump when it is stopped.  *)
THEOREM NothingIsLost == StopWaits /\ Spec => []OwedPending
<1>1. OwedInv => OwedPending
  BY DEF OwedInv
<1>2. StopWaits => StopWaits'
  OBVIOUS
<1> QED BY <1>1, <1>2, InitEvents, StepEvents, ControlTypeCorrect, PTL DEF Spec
-----------------------------------------------------------------------------
(* What was put stays where it is while others put theirs.                  *)
Holds(s, c) == \E i \in 1 .. Len(s) : s[i] = c

(* put_inform_parameter keeps what the list holds, and adds if there is    *)
(* room.                                                                   *)
LEMMA PutHolds ==
  ASSUME NEW s \in Seq(Param), Len(s) <= MaxParam, NEW ps \in Seq(Param), NEW c
  PROVE  /\ Holds(s, c) => Holds(PutParams(s, ps), c)
         /\ Len(s) < MaxParam /\ ps = <<c>> => Holds(PutParams(s, ps), c)
<1> DEFINE u == s \o ps
           t == PutParams(s, ps)
<1>1. /\ u \in Seq(Param) /\ Len(u) = Len(s) + Len(ps)
      /\ \A i \in 1 .. Len(s) : u[i] = s[i]
      /\ \A i \in 1 .. Len(ps) : u[Len(s) + i] = ps[i]
  BY ConcatProperties
<1>2. MaxParam \in Nat /\ Len(s) \in Nat /\ Len(ps) \in Nat
  BY ControlAssumption
<1> HIDE DEF u
<1>3. t = IF Len(u) <= MaxParam THEN u ELSE SubSeq(u, 1, MaxParam)
  BY DEF PutParams, Bounded, u
<1>4. /\ Len(t) = IF Len(u) <= MaxParam THEN Len(u) ELSE MaxParam
      /\ \A i \in 1 .. Len(t) : t[i] = u[i]
  <2>1. CASE Len(u) <= MaxParam
    BY <1>3, <2>1
  <2>2. CASE ~ (Len(u) <= MaxParam)
    <3>1. MaxParam \in 0 .. Len(u)
      BY <1>1, <1>2, <2>2
    <3> QED BY <1>1, <1>2, <1>3, <2>2, <3>1, SubSeqProperties
  <2> QED BY <2>1, <2>2
<1> HIDE DEF t
<1>5. ASSUME Holds(s, c) PROVE Holds(t, c)
  <2>1. PICK i \in 1 .. Len(s) : s[i] = c
    BY <1>5 DEF Holds
  <2>2. i \in 1 .. Len(t) /\ t[i] = c
    BY <1>1, <1>2, <1>4, <2>1
  <2> QED BY <2>2 DEF Holds
<1>6. ASSUME Len(s) < MaxParam, ps = <<c>> PROVE Holds(t, c)
  <2>1. Len(ps) = 1 /\ ps[1] = c
    BY <1>6
  <2>2. Len(s) + 1 \in 1 .. Len(t) /\ t[Len(s) + 1] = c
    BY <1>1, <1>2, <1>4, <1>6, <2>1
  <2> QED BY <2>2 DEF Holds
<1> QED BY <1>5, <1>6 DEF t

(* The invariant behind ParametersTravelTogether: once the control manager *)
(* has quit, the process was told to stop.                                  *)
TravelInv == ParametersTravelTogether /\ (status = "QUIT" => finish_flag)

(* Setting an event keeps the parameters that wait.                        *)
LEMMA RecordTravels ==
  ASSUME TypeOK, NEW es \in SUBSET Event, NEW ps \in Seq(Param), Record(es, ps), NEW c,
         Holds(inform_parameters, c)
  PROVE  Holds(inform_parameters', c)
<1>1. inform_parameters \in Seq(Param) /\ Len(inform_parameters) <= MaxParam
  BY DEF TypeOK
<1>2. inform_parameters' \in {inform_parameters, PutParams(inform_parameters, ps)}
  BY DEF Record
<1> QED BY <1>1, <1>2, PutHolds

(* What is left to show of a step that ends no process.                     *)
LEMMA TravelOn ==
  ASSUME TravelInv, finish_flag => finish_flag', overrun => overrun',
         status' = "QUIT" => status = "QUIT" \/ finish_flag',
         \A c \in Client : /\ ~finish_flag' /\ ~overrun' /\ pc'[c] = "put"
                           /\ (pc[c] = "put" => Holds(inform_parameters, c))
                           => Holds(inform_parameters', c)
  PROVE  TravelInv'
<1>1. ParametersTravelTogether'
  <2> SUFFICES ASSUME ~finish_flag', ~overrun', NEW c \in Client, pc'[c] = "put"
               PROVE  Holds(inform_parameters', c)
    BY DEF ParametersTravelTogether, Holds
  <2>1. pc[c] = "put" => Holds(inform_parameters, c)
    BY DEF TravelInv, ParametersTravelTogether, Holds
  <2> QED BY <2>1
<1>2. status' = "QUIT" => finish_flag'
  BY DEF TravelInv
<1> QED BY <1>1, <1>2 DEF TravelInv

(* What a client sends keeps its parameter with its event.                 *)
LEMMA ClientTravels ==
  ASSUME TypeOK, TravelInv, NEW d \in Client, ClientStep(d)
  PROVE  TravelInv'
<1>0. UNCHANGED <<status, finish_flag, overrun>>
  BY DEF ClientStep, SetEvent, PutInformParameter, PutRequest, Start, Die
<1>1. CASE \/ \E e \in ClientEvent, v \in Value : SetEvent(d, e, v)
           \/ PutRequest(d) \/ Start(d) \/ Die(d)
  <2>1. /\ \E w \in {"idle", "set"} : pc' = [pc EXCEPT ![d] = w] \/ pc' = pc
        /\ pc \in [Client -> {"idle", "set", "put"}]
    BY <1>1 DEF SetEvent, PutRequest, Start, Die, TypeOK
  <2>2. \A c \in Client : pc'[c] = "put" => pc[c] = "put"
    BY <2>1
  <2>3. \A c : Holds(inform_parameters, c) => Holds(inform_parameters', c)
    <3>1. CASE \E e \in ClientEvent : Record({e}, <<>>)
      <4>1. PICK e \in ClientEvent : Record({e}, <<>>)
        BY <3>1
      <4>2. {e} \in SUBSET Event /\ <<>> \in Seq(Param)
        BY ControlAssumption, Names
      <4> QED BY <4>1, <4>2, RecordTravels
    <3>2. CASE inform_parameters' = inform_parameters
      BY <3>2
    <3> QED BY <1>1, <3>1, <3>2 DEF SetEvent, PutRequest, Start, Die
  <2> QED BY <1>0, <2>2, <2>3, TravelOn
<1>2. CASE PutInformParameter(d)
  <2>1. /\ LoopFree /\ Record({}, <<d>>) /\ pc' = [pc EXCEPT ![d] = "put"]
        /\ IF InMemory THEN Len(inform_parameters) < MaxParam ELSE Len(ini.params) < MaxParam
    BY <1>2 DEF PutInformParameter
  <2>2. {} \in SUBSET Event /\ <<d>> \in Seq(Param)
    BY DEF Param
  <2>3. \A c : Holds(inform_parameters, c) => Holds(inform_parameters', c)
    BY <2>1, <2>2, RecordTravels
  <2>4. ~finish_flag => Holds(inform_parameters', d)
    <3>1. ~finish_flag => InMemory
      BY <2>1 DEF TravelInv, LoopFree, InMemory
    <3>2. InMemory => /\ inform_parameters' = PutParams(inform_parameters, <<d>>)
                      /\ Len(inform_parameters) < MaxParam
      BY <2>1 DEF Record
    <3>3. inform_parameters \in Seq(Param) /\ Len(inform_parameters) <= MaxParam
      BY DEF TypeOK
    <3> QED BY <2>2, <3>1, <3>2, <3>3, PutHolds
  <2>5. \A c \in Client : pc'[c] = "put" => pc[c] = "put" \/ c = d
    BY <2>1 DEF TypeOK
  <2> QED BY <1>0, <2>3, <2>4, <2>5, TravelOn
<1> QED BY <1>1, <1>2 DEF ClientStep

(* So does a report of the process itself.                                 *)
LEMMA OwnTravels ==
  ASSUME TypeOK, TravelInv, OwnStep
  PROVE  TravelInv'
<1>1. UNCHANGED <<status, finish_flag, pc>> /\ (overrun => overrun')
  <2>1. UNCHANGED <<status, finish_flag, pc>>
    BY DEF OwnStep, OwnReport, OwnReportRefused, ValueChangeRefused, LogMessage
  <2>2. overrun => overrun'
    BY Zenon DEF OwnStep, OwnReport, OwnReportRefused, ValueChangeRefused, LogMessage
  <2> QED BY <2>1, <2>2
<1>2. PICK es \in SUBSET Event, ps \in Seq(Param) : Record(es, ps)
  <2>1. <<Own>> \in Seq(Param) /\ <<>> \in Seq(Param)
    BY DEF Param
  <2>2. ASSUME NEW e \in Report, OwnReport(e) \/ OwnReportRefused(e)
        PROVE  \E es \in SUBSET Event, ps \in Seq(Param) : Record(es, ps)
    <3>1. {e} \in SUBSET Event /\ {} \in SUBSET Event
      BY ControlAssumption, Names
    <3> QED BY <2>1, <2>2, <3>1 DEF OwnReport, OwnReportRefused
  <2>3. CASE ValueChangeRefused
    BY <2>1, <2>3 DEF ValueChangeRefused
  <2>4. CASE LogMessage
    <3>1. {"SCHEDULED", LastEvent} \in SUBSET Event /\ {"SCHEDULED"} \in SUBSET Event
      BY Names
    <3>2. Record({"SCHEDULED", LastEvent}, <<Own>>) \/ Record({"SCHEDULED"}, <<>>)
      BY <2>4 DEF LogMessage
    <3> QED BY <2>1, <3>1, <3>2
  <2> QED BY <2>2, <2>3, <2>4 DEF OwnStep
<1>3. \A c : Holds(inform_parameters, c) => Holds(inform_parameters', c)
  BY <1>2, RecordTravels
<1> QED BY <1>1, <1>3, TravelOn

(* The session that takes the parameters opens when no client has put one   *)
(* and not started: its token would be left.                                *)
LEMMA PickTravels ==
  ASSUME TokenInv, TravelInv, PickTask \/ PickSessionInterrupted
  PROVE  TravelInv'
<1>0. TypeOK /\ TokenCover
  BY DEF TokenInv
<1>1. CASE PickSession
  <2>1. /\ status = "IDLE" /\ Head(task_queue) = "SESSION" /\ task_queue # <<>>
        /\ Spent(call_flag - 1) /\ finish_flag' = finish_flag
    BY <1>1 DEF PickSession, Picks
  <2>2. UNCHANGED <<pc, overrun>> /\ status' \in {"IDLE", "TASK"}
    BY <2>1 DEF Spent
  <2>3. CASE inform_parameters' = inform_parameters
    BY <2>1, <2>2, <2>3, TravelOn
  <2>4. CASE call_flag - 1 <= 0
    <3>1. Sessions \in Nat /\ Sessions > 0
      <4>1. task_queue \in Seq(Task)
        BY <1>0 DEF TypeOK
      <4> DEFINE t == Tail(task_queue)
      <4>2. t \in Seq(Task)
        BY <2>1, <4>1, HeadTailProperties
      <4>3. SessionsIn(t) \in Nat
        BY <4>2, CountNat
      <4>4. Sessions = SessionsIn(t) + 1
        BY <2>1, <4>1, CountTail DEF Sessions
      <4> HIDE DEF t
      <4> QED BY <4>3, <4>4
    <3>2. ~finish_flag /\ ~overrun => Setting = {}
      <4>1. Cardinality(Setting) \in Nat /\ IsFiniteSet(Setting) /\ call_flag \in Int
        BY <1>0, SettingCount DEF TypeOK
      <4>2. ~finish_flag /\ ~overrun => Cardinality(Setting) = 0
        BY <1>0, <2>4, <3>1, <4>1 DEF TokenCover
      <4> QED BY <4>1, <4>2, FS_EmptySet
    <3>3. ~finish_flag /\ ~overrun => \A c \in Client : pc[c] # "put"
      BY <3>2 DEF Setting
    <3> QED BY <2>1, <2>2, <3>3, TravelOn
  <2> QED BY <2>1, <2>3, <2>4 DEF Spent
<1>2. CASE PickSessionInterrupted
  <2>1. finish_flag' /\ status' # "QUIT" /\ overrun' = overrun
    BY <1>2 DEF PickSessionInterrupted, Picks, Spent
  <2> QED BY <2>1, TravelOn
<1>3. CASE PickTask /\ ~PickSession
  <2>1. UNCHANGED <<pc, inform_parameters>>
    BY <1>3 DEF PickTask, TaskWithoutSetting, PickReboot, PickFactoryReset,
                PickOther, PickDiagnosis, Dump
  <2>2. finish_flag => finish_flag'
    BY <1>3, Zenon DEF PickTask, TaskWithoutSetting, PickReboot, PickFactoryReset,
                       PickOther, PickDiagnosis, Dump
  <2>3. overrun => overrun'
    BY <1>3, Zenon DEF PickTask, TaskWithoutSetting, PickReboot, PickFactoryReset,
                       PickOther, PickDiagnosis, Dump
  <2>4. status' = "QUIT" => status = "QUIT" \/ finish_flag'
    BY <1>3 DEF PickTask, TaskWithoutSetting, PickReboot, PickFactoryReset,
                PickOther, PickDiagnosis, Dump, Picks
  <2> QED BY <2>1, <2>2, <2>3, <2>4, TravelOn
<1> QED BY <1>1, <1>2, <1>3

(* Together: every step.                                                   *)
LEMMA StepTravels == TokenInv /\ TravelInv /\ [Next]_vars => TravelInv'
<1> SUFFICES ASSUME TokenInv, TravelInv, [Next]_vars PROVE TravelInv'
  OBVIOUS
<1>0. TypeOK
  BY DEF TokenInv
<1>1. CASE \E ip \in BOOLEAN : Boot(ip)
  <2>1. ~Running /\ UNCHANGED <<pc, finish_flag, overrun>> /\ status' = "IDLE"
    BY <1>1 DEF Boot
  <2>2. \A c \in Client : pc[c] = "idle"
    BY <2>1 DEF TokenInv, StoppedQuiet, Setting
  <2> QED BY <2>1, <2>2, TravelOn
<1>2. CASE \E c \in Client : ClientStep(c)
  BY <1>0, <1>2, ClientTravels
<1>3. CASE OwnStep
  BY <1>0, <1>3, OwnTravels
<1>4. CASE ServiceStop
  BY <1>4, TravelOn DEF ServiceStop
<1>5. CASE PickTask \/ PickSessionInterrupted
  BY <1>5, PickTravels
<1>6. CASE SomeSessionEnd
  <2>1. UNCHANGED <<pc, finish_flag, overrun, inform_parameters>> /\ status' = "IDLE"
    BY <1>6 DEF SomeSessionEnd, SessionEnd
  <2> QED BY <2>1, TravelOn
<1>7. CASE LoopExit \/ Crash
  <2>1. status' = "STOP" /\ pc' = [c \in Client |-> "idle"]
    BY <1>7 DEF LoopExit, Crash, Ended
  <2> QED BY <2>1 DEF TravelInv, ParametersTravelTogether
<1>8. CASE UNCHANGED vars
  <2>1. UNCHANGED <<pc, finish_flag, overrun, inform_parameters, status>>
    BY <1>8 DEF vars
  <2> QED BY <2>1, TravelOn
<1> QED BY <1>1, <1>2, <1>3, <1>4, <1>5, <1>6, <1>7, <1>8 DEF Next

(* The parameters that a client has put wait for it to start: no session    *)
(* takes them before, for any number of clients.                            *)
THEOREM ParametersWait == Spec => []ParametersTravelTogether
<1>1. Init => TravelInv
  BY DEF Init, TravelInv, ParametersTravelTogether
<1>2. TravelInv => ParametersTravelTogether
  BY DEF TravelInv
<1> QED BY <1>1, <1>2, StepTravels, TokensHold, PTL DEF Spec
-----------------------------------------------------------------------------
(* A step that sets events while reports may be counted.                   *)
LEMMA TokenStays ==
  ASSUME TokenMeansEvent, InMemory' => InMemory,
         InMemory' /\ call_flag' > 0 =>
           \/ event' \cap Primary # {}
           \/ call_flag > 0 /\ event \cap Primary \subseteq event'
  PROVE  TokenMeansEvent'
BY DEF TokenMeansEvent

(* A report that is recorded in memory leaves its event set.               *)
LEMMA RecordSets ==
  ASSUME NEW es, NEW ps, Record(es, ps), InMemory
  PROVE  es \subseteq event' /\ event \subseteq event'
BY DEF Record

(* A client's report has its event with its token.                         *)
LEMMA ClientMeansEvent ==
  ASSUME 0 \notin Value, TokenMeansEvent, NEW c \in Client, ClientStep(c)
  PROVE  TokenMeansEvent'
<1>1. status' = status
  BY DEF ClientStep, SetEvent, PutInformParameter, PutRequest, Start, Die
<1>2. InMemory' <=> InMemory
  BY <1>1 DEF InMemory
<1>3. ASSUME NEW e \in ClientEvent, NEW v \in Value, SetEvent(c, e, v) PROVE TokenMeansEvent'
  <2>1. v = 1 /\ e \in Primary
    BY ControlAssumption
  <2>2. Record({e}, <<>>)
    BY <1>3, <2>1 DEF SetEvent
  <2>3. InMemory => e \in event'
    BY <2>2, RecordSets
  <2> QED BY <1>2, <2>1, <2>3, TokenStays
<1>4. CASE PutInformParameter(c)
  <2>1. Record({}, <<c>>) /\ call_flag' = call_flag
    BY <1>4 DEF PutInformParameter
  <2>2. InMemory => event \subseteq event'
    BY <2>1, RecordSets
  <2> QED BY <1>2, <2>1, <2>2, TokenStays
<1>5. CASE PutRequest(c) \/ Start(c) \/ Die(c)
  <2>1. UNCHANGED <<call_flag, event>>
    BY <1>5 DEF PutRequest, Start, Die
  <2> QED BY <1>2, <2>1, TokenStays
<1> QED BY <1>3, <1>4, <1>5 DEF ClientStep

(* So has a report of the process itself, the log message with two events. *)
LEMMA OwnMeansEvent ==
  ASSUME TokenMeansEvent, OwnStep
  PROVE  TokenMeansEvent'
<1>1. status' = status
  BY DEF OwnStep, OwnReport, OwnReportRefused, ValueChangeRefused, LogMessage
<1>2. InMemory' <=> InMemory
  BY <1>1 DEF InMemory
<1>3. ASSUME NEW e \in Primary, NEW es, NEW ps, e \in es, Record(es, ps) PROVE TokenMeansEvent'
  <2>1. InMemory => e \in event'
    BY <1>3, RecordSets
  <2> QED BY <1>2, <2>1, TokenStays
<1>4. ASSUME NEW e \in Report, OwnReport(e) PROVE TokenMeansEvent'
  <2>1. Record({e}, <<Own>>) /\ e \in Primary
    BY <1>4, ControlAssumption DEF OwnReport
  <2> QED BY <1>3, <2>1
<1>5. ASSUME NEW e \in Report, OwnReportRefused(e) \/ ValueChangeRefused PROVE TokenMeansEvent'
  <2>1. Record({}, <<Own>>) /\ call_flag' = call_flag
    BY <1>5 DEF OwnReportRefused, ValueChangeRefused
  <2>2. InMemory => event \subseteq event'
    BY <2>1, RecordSets
  <2> QED BY <1>2, <2>1, <2>2, TokenStays
<1>6. CASE LogMessage
  <2>1. \/ Record({"SCHEDULED", LastEvent}, <<Own>>)
        \/ Record({"SCHEDULED"}, <<>>)
    BY <1>6 DEF LogMessage
  <2> QED BY <1>3, <2>1, Names
<1>7. ValueChangeRefused => "VALUE_CHANGE" \in Report
  BY DEF ValueChangeRefused
<1> QED BY <1>4, <1>5, <1>6, <1>7 DEF OwnStep

(* A token that is left after one was spent leaves the events.             *)
LEMMA PickMeansEvent ==
  ASSUME TypeOK, TokenMeansEvent, PickTask \/ PickSessionInterrupted
  PROVE  TokenMeansEvent'
<1>0. call_flag \in Int
  BY DEF TypeOK
<1>1. InMemory
  BY DEF PickTask, PickSessionInterrupted, TaskWithoutSetting, PickSession, PickReboot,
         PickFactoryReset, PickOther, PickDiagnosis, Dump, Picks, InMemory
<1>2. CASE PickSession \/ PickSessionInterrupted
  <2>1. PICK r \in {-1, call_flag - 1, 0} : Spent(r) /\ call_flag > 0
    BY <1>2 DEF PickSession, PickSessionInterrupted
  <2>2. r > 0 => UNCHANGED event
    BY <1>0, <2>1 DEF Spent
  <2>3. call_flag' = r
    BY <2>1 DEF Spent
  <2> QED BY <1>1, <2>1, <2>2, <2>3, TokenStays
<1>3. CASE TaskWithoutSetting \/ PickFactoryReset \/ PickOther
  <2>1. UNCHANGED <<call_flag, event>>
    BY <1>3 DEF TaskWithoutSetting, PickFactoryReset, PickOther
  <2> QED BY <1>1, <2>1, TokenStays
<1>4. ASSUME NEW quit \in BOOLEAN, PickReboot(quit) PROVE TokenMeansEvent'
  <2>1. event \subseteq event' /\ (call_flag' > 0 => call_flag > 0)
    BY <1>4 DEF PickReboot
  <2> QED BY <1>1, <2>1, TokenStays
<1>5. CASE PickDiagnosis
  <2>1. CASE Open
    <3>1. "DIAGNOSTICS_COMPLETE" \in event'
      BY <1>5, <2>1 DEF PickDiagnosis
    <3> QED BY <1>1, <3>1, Names, TokenStays
  <2>2. CASE ~Open
    <3>1. UNCHANGED <<call_flag, event>>
      BY <1>5, <2>2 DEF PickDiagnosis
    <3> QED BY <1>1, <3>1, TokenStays
  <2> QED BY <2>1, <2>2
<1>6. CASE Dump
  BY <1>6 DEF Dump, TokenMeansEvent, InMemory
<1> QED BY <1>2, <1>3, <1>4, <1>5, <1>6 DEF PickTask

(* Together: every step.                                                   *)
LEMMA StepMeansEvent ==
  0 \notin Value /\ TypeOK /\ TokenMeansEvent /\ [Next]_vars => TokenMeansEvent'
<1> SUFFICES ASSUME 0 \notin Value, TypeOK, TokenMeansEvent, [Next]_vars
             PROVE  TokenMeansEvent'
  OBVIOUS
<1>1. ASSUME NEW ip \in BOOLEAN, Boot(ip) PROVE TokenMeansEvent'
  <2>1. CASE ip
    <3>1. \E e \in {"BOOTSTRAP", "BOOT"} : e \in event'
      BY <1>1, <2>1 DEF Boot
    <3> QED BY <3>1 DEF TokenMeansEvent, Primary
  <2>2. CASE ~ip
    <3>1. call_flag' = 0
      BY <1>1, <2>2, FS_EmptySet DEF Boot
    <3> QED BY <3>1 DEF TokenMeansEvent
  <2> QED BY <2>1, <2>2
<1>2. CASE \E c \in Client : ClientStep(c)
  BY <1>2, ClientMeansEvent
<1>3. CASE OwnStep
  BY <1>3, OwnMeansEvent
<1>4. CASE ServiceStop
  BY <1>4 DEF ServiceStop, TokenMeansEvent
<1>5. CASE PickTask \/ PickSessionInterrupted
  BY <1>5, PickMeansEvent
<1>6. CASE SomeSessionEnd
  <2>1. InMemory /\ call_flag' = call_flag /\ event \subseteq event'
    BY <1>6 DEF SomeSessionEnd, SessionEnd, InMemory
  <2> QED BY <2>1, TokenStays
<1>7. CASE LoopExit \/ Crash
  BY <1>7 DEF LoopExit, Crash, Ended, TokenMeansEvent
<1>8. CASE UNCHANGED vars
  BY <1>8 DEF vars, TokenMeansEvent, InMemory
<1> QED BY <1>1, <1>2, <1>3, <1>4, <1>5, <1>6, <1>7, <1>8 DEF Next

(* While a token is left some primary event is set, so that the last task   *)
(* of a session finds one, if nobody reports an event only to clear it.     *)
THEOREM TokensHaveEvents == 0 \notin Value /\ Spec => []TokenMeansEvent
<1>1. Init => TokenMeansEvent
  BY DEF Init, TokenMeansEvent
<1>2. 0 \notin Value => (0 \notin Value)'
  OBVIOUS
<1> QED BY <1>1, <1>2, StepMeansEvent, ControlTypeCorrect, PTL DEF Spec
=============================================================================
