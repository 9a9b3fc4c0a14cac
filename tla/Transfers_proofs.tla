-------------------------- MODULE Transfers_proofs --------------------------
(***************************************************************************)
(* Theorems about file transfers, for any number of RPCs, queue sizes and  *)
(* crashes: no request to tell the ACS is lost or made up, the ACS is told *)
(* the key and the result of one transfer, and a transfer has its own      *)
(* arguments.                                                              *)
(***************************************************************************)
EXTENDS Transfers, FiniteSetTheorems, SequenceTheorems, TLAPS

Task == [task : Kind \cup {"REBOOT", "SESSION"}, id : Id]

(* The transfers that a queue holds, each in one place.                    *)
Ids(q) == {q[i].id : i \in {j \in 1 .. Len(q) : q[j].task \in Kind}}
Distinct(q) == \A i, j \in 1 .. Len(q) :
  q[i].task \in Kind /\ q[j].task \in Kind /\ q[i].id = q[j].id => i = j

(* Where a transfer is whose request has yet to be put.                    *)
Queued == Ids(task_queue)
Working == {t.id : t \in running}
Reporting == {client[k].id : k \in {l \in Kind : client[l].step = "result"}}
Live == Queued \cup Working \cup Reporting

(* A transfer is in one place, in the list of one program.                 *)
Apart == /\ Queued \cap Working = {} /\ Queued \cap Reporting = {}
         /\ Working \cap Reporting = {}
         /\ \A t, u \in running : t.id = u.id => t = u
         /\ \A k, l \in Kind :
              client[k].step = "result" /\ client[l].step = "result" =>
                (client[k].id = client[l].id => k = l)
Once == Distinct(task_queue) /\ Apart

(* So no more requests are put than RPCs were asked.                       *)
Counted == Live \subseteq 1 .. asked /\ puts + Cardinality(Live) <= asked

(* The file and the dictionary are empty while the process has the data in *)
(* memory; in memory there are no requests when they have it.              *)
Filed == /\ status # "STOP" => disk = EmptyFile
         /\ status \notin {"STOP", "QUIT"} => ini = EmptyFile
         /\ status = "STOP" => ini = disk
         /\ status \in {"STOP", "QUIT"} => requests = 0

(* While no answer was lost, the tasks of an RPC are executed before the   *)
(* next one is read, on its arguments.                                     *)
QueueOwns ==
  ~lost => \A i \in 1 .. Len(task_queue) : task_queue[i].task \in Kind =>
             /\ status = "EXECUTE"
             /\ argument[task_queue[i].task].url = task_queue[i].id
             /\ argument[task_queue[i].task].login = task_queue[i].id

(* Where the key, the result and the requests are now.                     *)
Key == IF status \in {"STOP", "QUIT"} THEN ini.key ELSE command_key
Outcome == IF status \in {"STOP", "QUIT"} THEN ini.result ELSE result
Pending == requests + ini.requests

(* An ACS that waits for each answer waits for its last RPC at most: what  *)
(* is live or pending is that one's, and so are key and result.            *)
Named ==
  ~overlapped =>
    /\ awaited \subseteq {asked} /\ Live \subseteq awaited
    /\ Pending > 0 => Pending = 1 /\ Live = {} /\ awaited = {asked}
    /\ Pending > 0 \/ Reporting # {} => Outcome \in {asked, 0}
    /\ Pending > 0 \/ Live # {} => Key \in {asked, IF crashed THEN 0 ELSE asked}
-----------------------------------------------------------------------------
(* Queues.                                                                 *)

(* A put adds its task at the end, or nothing.                             *)
LEMMA PutIs ==
  ASSUME NEW q \in Seq(Task), Len(q) < MaxTask,
         NEW t \in Kind \cup {"REBOOT", "SESSION"}, NEW n \in Id
  PROVE  /\ Put(q, t, n) \in Seq(Task) /\ Len(Put(q, t, n)) < MaxTask
         /\ \/ Put(q, t, n) = q
            \/ /\ Len(Put(q, t, n)) = Len(q) + 1
               /\ \A i \in 1 .. Len(q) : Put(q, t, n)[i] = q[i]
               /\ Put(q, t, n)[Len(q) + 1] = [task |-> t, id |-> n]
<1> DEFINE e == [task |-> t, id |-> n]
           r == Append(q, e)
<1>1. e \in Task
  BY DEF Task
<1> HIDE DEF e
<1>2. /\ r \in Seq(Task) /\ Len(r) = Len(q) + 1
      /\ \A i \in 1 .. Len(q) : r[i] = q[i]
      /\ r[Len(q) + 1] = e
  BY <1>1
<1> HIDE DEF r
<1>3. MaxTask \in Nat /\ Len(q) \in Nat
  BY TransfersAssumption
<1>4. Put(q, t, n) = IF Len(q) < MaxTask - 1 THEN r ELSE q
  BY DEF Put, r, e
<1> QED BY <1>2, <1>3, <1>4 DEF e

LEMMA PutIds ==
  ASSUME NEW q \in Seq(Task), Len(q) < MaxTask,
         NEW t \in Kind \cup {"REBOOT", "SESSION"}, NEW n \in Id
  PROVE  /\ Ids(q) \subseteq Ids(Put(q, t, n))
         /\ Ids(Put(q, t, n)) \subseteq Ids(q) \cup {n}
         /\ t \notin Kind => Ids(Put(q, t, n)) = Ids(q)
         /\ Distinct(q) /\ (t \in Kind => n \notin Ids(q))
              => Distinct(Put(q, t, n))
<1> DEFINE r == Put(q, t, n)
<1>1. CASE r = q
  BY <1>1
<1>2. CASE /\ Len(r) = Len(q) + 1
           /\ \A i \in 1 .. Len(q) : r[i] = q[i]
           /\ r[Len(q) + 1] = [task |-> t, id |-> n]
  <2>1. Len(q) \in Nat
    OBVIOUS
  <2>2. \A i \in 1 .. Len(r) : i \in 1 .. Len(q) \/ i = Len(q) + 1
    BY <1>2, <2>1
  <2>3. \A i \in 1 .. Len(q) : i \in 1 .. Len(r)
    BY <1>2, <2>1
  <2>4. r[Len(q) + 1].task = t /\ r[Len(q) + 1].id = n
    BY <1>2
  <2> HIDE DEF r
  <2>5. Ids(q) \subseteq Ids(r)
    BY <1>2, <2>3 DEF Ids
  <2>6. Ids(r) \subseteq Ids(q) \cup {n}
    BY <1>2, <2>2, <2>4 DEF Ids
  <2>7. t \notin Kind => Ids(r) \subseteq Ids(q)
    BY <1>2, <2>2, <2>4 DEF Ids
  <2>8. ASSUME Distinct(q), t \in Kind => n \notin Ids(q)
        PROVE  Distinct(r)
    <3> SUFFICES ASSUME NEW i \in 1 .. Len(r), NEW j \in 1 .. Len(r),
                        r[i].task \in Kind, r[j].task \in Kind, r[i].id = r[j].id
                 PROVE  i = j
      BY DEF Distinct
    <3>1. CASE i \in 1 .. Len(q) /\ j \in 1 .. Len(q)
      BY <1>2, <2>8, <3>1 DEF Distinct
    <3>2. CASE i \in 1 .. Len(q) /\ j = Len(q) + 1
      BY <1>2, <2>4, <2>8, <3>2 DEF Ids
    <3>3. CASE i = Len(q) + 1 /\ j \in 1 .. Len(q)
      BY <1>2, <2>4, <2>8, <3>3 DEF Ids
    <3> QED BY <2>2, <3>1, <3>2, <3>3
  <2> QED BY <2>5, <2>6, <2>7, <2>8 DEF r
<1> QED BY <1>1, <1>2, PutIs

(* A picked task leaves the others.                                        *)
LEMMA TailIs ==
  ASSUME NEW q \in Seq(Task), q # <<>>, Len(q) < MaxTask
  PROVE  /\ Tail(q) \in Seq(Task) /\ Len(Tail(q)) < MaxTask
         /\ Head(q) \in Task /\ Head(q) = q[1] /\ 1 \in 1 .. Len(q)
         /\ \A i \in 1 .. Len(Tail(q)) : i + 1 \in 1 .. Len(q)
                                         /\ Tail(q)[i] = q[i + 1]
         /\ \A i \in 1 .. Len(q) : i # 1 => /\ i - 1 \in 1 .. Len(Tail(q))
                                            /\ Tail(q)[i - 1] = q[i]
<1>1. /\ Len(q) \in Nat \ {0} /\ Tail(q) \in Seq(Task)
      /\ Len(Tail(q)) = Len(q) - 1
      /\ \A i \in 1 .. Len(Tail(q)) : Tail(q)[i] = q[i + 1]
  BY HeadTailProperties
<1>2. Head(q) \in Task /\ Head(q) = q[1] /\ 1 \in 1 .. Len(q)
  BY <1>1, ElementOfSeq
<1>3. Len(Tail(q)) < MaxTask
  BY <1>1, TransfersAssumption
<1>4. ASSUME NEW i \in 1 .. Len(Tail(q)) PROVE i + 1 \in 1 .. Len(q)
  BY <1>1
<1>5. ASSUME NEW i \in 1 .. Len(q), i # 1
      PROVE  i - 1 \in 1 .. Len(Tail(q)) /\ Tail(q)[i - 1] = q[i]
  <2>1. i - 1 \in 1 .. Len(Tail(q)) /\ (i - 1) + 1 = i
    BY <1>1, <1>5
  <2> QED BY <1>1, <2>1
<1> QED BY <1>1, <1>2, <1>3, <1>4, <1>5

LEMMA TailIds ==
  ASSUME NEW q \in Seq(Task), q # <<>>, Len(q) < MaxTask, Distinct(q)
  PROVE  /\ Distinct(Tail(q)) /\ Ids(Tail(q)) \subseteq Ids(q)
         /\ Head(q).task \in Kind => /\ Head(q).id \in Ids(q)
                                     /\ Head(q).id \notin Ids(Tail(q))
<1>1. \A i \in 1 .. Len(Tail(q)) : i + 1 \in 1 .. Len(q) /\ Tail(q)[i] = q[i + 1]
  BY TailIs
<1>2. Head(q) = q[1] /\ 1 \in 1 .. Len(q)
  BY TailIs
<1>3. ASSUME NEW i \in 1 .. Len(Tail(q)), NEW j \in 1 .. Len(Tail(q)),
             Tail(q)[i].task \in Kind, Tail(q)[j].task \in Kind,
             Tail(q)[i].id = Tail(q)[j].id
      PROVE  i = j
  <2>1. i + 1 = j + 1
    BY <1>1, <1>3 DEF Distinct
  <2> QED BY <2>1
<1>4. Distinct(Tail(q))
  BY <1>3 DEF Distinct
<1>5. Ids(Tail(q)) \subseteq Ids(q)
  BY <1>1 DEF Ids
<1>6. ASSUME Head(q).task \in Kind
      PROVE  Head(q).id \in Ids(q) /\ Head(q).id \notin Ids(Tail(q))
  <2>1. Head(q).id \in Ids(q)
    BY <1>2, <1>6 DEF Ids
  <2>2. ASSUME NEW i \in 1 .. Len(Tail(q)), Tail(q)[i].task \in Kind,
               Tail(q)[i].id = Head(q).id
        PROVE  FALSE
    <3>1. i + 1 = 1
      BY <1>1, <1>2, <1>6, <2>2 DEF Distinct
    <3>2. i + 1 # 1
      OBVIOUS
    <3> QED BY <3>1, <3>2
  <2> QED BY <2>1, <2>2 DEF Ids
<1> QED BY <1>4, <1>5, <1>6
-----------------------------------------------------------------------------
(* Types.                                                                  *)

(* Requests that are merged stay within their array.                       *)
LEMMA PutRequestsIs ==
  ASSUME NEW m \in 0 .. MaxRequest - 1, NEW n \in 0 .. MaxRequest - 1
  PROVE  /\ PutRequests(m, n) \in 0 .. MaxRequest - 1
         /\ m + n < MaxRequest => PutRequests(m, n) = m + n
         /\ n - (PutRequests(m, n) - m) \in 0 .. MaxRequest - 1
<1>1. MaxRequest \in Nat /\ 0 < MaxRequest
  BY TransfersAssumption
<1>2. CASE m + n < MaxRequest
  BY <1>1, <1>2 DEF PutRequests
<1>3. CASE ~(m + n < MaxRequest)
  <2>1. PutRequests(m, n) = MaxRequest - 1
    BY <1>3 DEF PutRequests
  <2> QED BY <1>1, <1>3, <2>1
<1> QED BY <1>2, <1>3

LEMMA OneRequest ==
  ASSUME NEW m \in 0 .. MaxRequest - 1
  PROVE  /\ PutRequests(m, 1) \in 0 .. MaxRequest - 1
         /\ PutRequests(m, 1) \in {m, m + 1}
         /\ m + 1 < MaxRequest => PutRequests(m, 1) = m + 1
<1>1. MaxRequest \in Nat /\ 0 < MaxRequest
  BY TransfersAssumption
<1>2. CASE m + 1 < MaxRequest
  BY <1>1, <1>2 DEF PutRequests
<1>3. CASE ~(m + 1 < MaxRequest)
  <2>1. PutRequests(m, 1) = MaxRequest - 1 /\ m = MaxRequest - 1
    BY <1>1, <1>3 DEF PutRequests
  <2> QED BY <1>1, <2>1, <1>3
<1> QED BY <1>2, <1>3

(* What is said of the tasks, in the terms of the lemmas about queues.     *)
LEMMA QueueType ==
  TypeOK => task_queue \in Seq(Task) /\ Len(task_queue) < MaxTask
BY DEF TypeOK, Task

(* The RPC that is asked next has a number.                                *)
LEMMA AskType ==
  ASSUME TypeOK, Asks
  PROVE  /\ asked' = asked + 1 /\ asked' \in Id /\ asked' \in Nat \ {0}
         /\ asked \in Nat /\ overlapped' \in BOOLEAN
<1>1. asked \in 0 .. MaxRpc /\ MaxRpc \in Nat
  BY TransfersAssumption DEF TypeOK, Id
<1>2. asked < MaxRpc /\ asked' = asked + 1
  BY DEF Asks
<1>3. overlapped' \in BOOLEAN
  BY DEF Asks, TypeOK
<1> QED BY <1>1, <1>2, <1>3 DEF Id

LEMMA StoredType ==
  ASSUME TypeOK, NEW k \in Kind, NEW good \in Nat, NEW n \in Id,
         Stored(k, good, n)
  PROVE  command_key' \in Id /\ argument' \in [Kind -> Argument]
<1>1. command_key' \in Id
  BY DEF Stored, TypeOK
<1>2. argument[k] \in Argument
  BY DEF TypeOK
<1>3. argument' = [argument EXCEPT ![k] =
                     [url |-> IF good >= 2 THEN n ELSE argument[k].url,
                      login |-> IF good >= 3 THEN n ELSE argument[k].login]]
  BY DEF Stored, TypeOK
<1> QED BY <1>1, <1>2, <1>3 DEF TypeOK, Argument

LEMMA AnsweredType ==
  ASSUME TypeOK, NEW n \in Id, NEW accepted, NEW next, Answered(n, accepted, next)
  PROVE  /\ status' \in {next, "IDLE"} /\ awaited' \subseteq Id
         /\ lost' \in BOOLEAN
BY DEF Answered, TypeOK

LEMMA ExecuteType ==
  ASSUME TypeOK, NEW t \in Task, Execute(t)
  PROVE  running' \subseteq Transfer /\ started' \subseteq Transfer
<1>1. CASE t.task \in Kind
  <2> DEFINE w == [id |-> t.id, kind |-> t.task, url |-> argument[t.task].url,
                   login |-> argument[t.task].login]
  <2>1. argument[t.task] \in Argument /\ t.id \in Id
    BY <1>1 DEF TypeOK, Task
  <2>2. w \in Transfer
    BY <1>1, <2>1 DEF Transfer, Argument
  <2>3. running' = running \cup {w} /\ started' = started \cup {w}
    BY <1>1 DEF Execute
  <2> HIDE DEF w
  <2> QED BY <2>2, <2>3 DEF TypeOK
<1>2. CASE t.task \notin Kind
  BY <1>2 DEF Execute, TypeOK
<1> QED BY <1>1, <1>2

LEMMA InitType == Init => TypeOK
<1> SUFFICES ASSUME Init PROVE TypeOK
  OBVIOUS
<1>1. 0 \in Id /\ 0 \in 0 .. MaxRequest - 1 /\ 0 < MaxTask
  BY TransfersAssumption DEF Id
<1>2. EmptyFile \in File
  BY <1>1 DEF EmptyFile, File
<1>3. <<>> \in Seq(Task) /\ Len(<<>>) < MaxTask
  BY <1>1
<1>4. client \in [Kind -> [step : {"idle", "result", "request"}, id : Id]]
  BY <1>1 DEF Init, NoReport
<1>5. argument \in [Kind -> Argument]
  BY <1>1 DEF Init, Argument
<1> QED BY <1>1, <1>2, <1>3, <1>4, <1>5 DEF Init, TypeOK, Task

LEMMA EndedType ==
  ASSUME TypeOK, NEW f \in File, Ended(f), crashed' \in BOOLEAN
  PROVE  TypeOK'
<1>1. 0 \in Id /\ 0 \in 0 .. MaxRequest - 1 /\ 0 < MaxTask
  BY TransfersAssumption DEF Id
<1>2. task_queue' \in Seq(Task) /\ Len(task_queue') < MaxTask
  BY <1>1 DEF Ended
<1>3. argument' \in [Kind -> Argument]
  BY <1>1 DEF Ended, Argument
<1> QED BY <1>1, <1>2, <1>3 DEF Ended, TypeOK, Task

(* Types hold in every step.                                               *)
LEMMA StepType == TypeOK /\ [Next]_vars => TypeOK'
<1> SUFFICES ASSUME TypeOK, [Next]_vars PROVE TypeOK'
  OBVIOUS
<1> USE DEF slots, history
<1>q. /\ task_queue \in Seq(Task) /\ Len(task_queue) < MaxTask
      /\ task_queue # <<>> => /\ Tail(task_queue) \in Seq(Task)
                              /\ Len(Tail(task_queue)) < MaxTask
                              /\ Head(task_queue) \in Task
  BY QueueType, TailIs
<1>0. 0 \in Id /\ 0 \in 0 .. MaxRequest - 1 /\ 0 < MaxTask /\ MaxRequest \in Nat
  BY TransfersAssumption DEF Id
<1>p. \A t \in {"SESSION", "REBOOT"} \cup Kind : \A n \in Id :
        /\ Put(task_queue, t, n) \in Seq(Task)
        /\ Len(Put(task_queue, t, n)) < MaxTask
  BY <1>q, PutIs
<1>1. CASE Boot
  <2>1. disk.key \in Id /\ disk.result \in Id /\ disk.requests \in 0 .. MaxRequest - 1
    BY DEF TypeOK, File
  <2>2. EmptyFile \in File
    BY <1>0 DEF EmptyFile, File
  <2>3. /\ Put(<<>>, "SESSION", 0) \in Seq(Task)
        /\ Len(Put(<<>>, "SESSION", 0)) < MaxTask
    <3>1. <<>> \in Seq(Task) /\ Len(<<>>) < MaxTask
      BY <1>0
    <3> QED BY <1>0, <3>1, PutIs
  <2> QED BY <1>1, <2>1, <2>2, <2>3 DEF Boot, TypeOK, Task
<1>2. CASE ServiceStop
  BY <1>2 DEF ServiceStop, TypeOK
<1>3. CASE Dump
  <2> DEFINE n == PutRequests(ini.requests, requests)
  <2>1. /\ n \in 0 .. MaxRequest - 1
        /\ requests - (n - ini.requests) \in 0 .. MaxRequest - 1
    BY PutRequestsIs DEF TypeOK, File
  <2>2. /\ ini' = [key |-> command_key, result |-> result, requests |-> n]
        /\ requests' = requests - (ini'.requests - ini.requests)
    BY <1>3 DEF Dump
  <2> HIDE DEF n
  <2>3. ini' \in File /\ requests' \in 0 .. MaxRequest - 1
    BY <2>1, <2>2 DEF TypeOK, File
  <2> QED BY <1>3, <2>3 DEF Dump, TypeOK
<1>4. CASE LoopExit
  <2>1. ini \in File /\ Ended(ini) /\ crashed' \in BOOLEAN
    BY <1>4 DEF LoopExit, TypeOK
  <2> QED BY <2>1, EndedType
<1>5. CASE Crash
  <2>1. disk \in File /\ Ended(disk) /\ crashed' \in BOOLEAN
    BY <1>5 DEF Crash, TypeOK
  <2> QED BY <2>1, EndedType
<1>6. CASE OtherReport
  BY <1>6, <1>p, <1>0 DEF OtherReport, TypeOK, Task
<1>7. ASSUME NEW k \in Kind, SetTransferComplete(k) PROVE TypeOK'
  <2>1. PICK t \in running :
          /\ running' = running \ {t}
          /\ client' = [client EXCEPT ![k] = [step |-> "result", id |-> t.id]]
          /\ IF InMemory
             THEN result' = t.id /\ UNCHANGED ini
             ELSE ini' = [ini EXCEPT !.result = t.id] /\ UNCHANGED result
    BY <1>7 DEF SetTransferComplete
  <2>2. t.id \in Id
    BY DEF TypeOK, Transfer
  <2>3. /\ running' \subseteq Transfer
        /\ client' \in [Kind -> [step : {"idle", "result", "request"}, id : Id]]
    BY <2>1, <2>2 DEF TypeOK
  <2>4. result' \in Id /\ ini' \in File
    BY <2>1, <2>2 DEF TypeOK, File
  <2> QED BY <1>7, <2>3, <2>4 DEF SetTransferComplete, TypeOK
<1>8. ASSUME NEW k \in Kind, PutRequest(k) PROVE TypeOK'
  <2>1. client' \in [Kind -> [step : {"idle", "result", "request"}, id : Id]]
    BY <1>8 DEF PutRequest, TypeOK
  <2>2. /\ PutRequests(requests, 1) \in 0 .. MaxRequest - 1
        /\ PutRequests(ini.requests, 1) \in 0 .. MaxRequest - 1
    BY OneRequest DEF TypeOK, File
  <2>3. requests' \in 0 .. MaxRequest - 1 /\ ini' \in File
    BY <1>8, <2>2 DEF PutRequest, TypeOK, File
  <2>4. puts' \in Nat
    BY <1>8 DEF PutRequest, TypeOK
  <2> QED BY <1>8, <2>1, <2>3, <2>4 DEF PutRequest, TypeOK
<1>9. ASSUME NEW k \in Kind, Start(k) PROVE TypeOK'
  <2>1. client' \in [Kind -> [step : {"idle", "result", "request"}, id : Id]]
    BY <1>9, <1>0 DEF Start, TypeOK, NoReport
  <2> QED BY <1>9, <1>p, <1>0, <2>1 DEF Start, TypeOK, Task
<1>10. CASE PickTask
  <2>1. running' \subseteq Transfer /\ started' \subseteq Transfer
    BY <1>10, <1>q, ExecuteType DEF PickTask
  <2> QED BY <1>10, <1>q, <2>1 DEF PickTask, TypeOK, Task
<1>11. CASE SessionInform \/ SessionEmpty \/ AcsHasNoMore
  BY <1>11 DEF SessionInform, SessionEmpty, AcsHasNoMore, TypeOK
<1>12. CASE SessionTransferComplete
  <2>1. requests' \in 0 .. MaxRequest - 1 /\ built' \in Nat /\ command_key' \in Id
    BY <1>12, <1>0 DEF SessionTransferComplete, TypeOK
  <2>2. reports' \subseteq [key : Id, result : Id] /\ awaited' \subseteq Id
    BY <1>12 DEF SessionTransferComplete, TypeOK
  <2> QED BY <1>12, <2>1, <2>2 DEF SessionTransferComplete, TypeOK
<1>13. ASSUME NEW k \in Kind, RpcTransfer(k) PROVE TypeOK'
  <2>1. asked' \in Id /\ overlapped' \in BOOLEAN
    BY <1>13, AskType DEF RpcTransfer
  <2>2. command_key' \in Id /\ argument' \in [Kind -> Argument]
    BY <1>13, <2>1, StoredType DEF RpcTransfer
  <2>3. /\ status' \in {"EXECUTE", "IDLE"} /\ awaited' \subseteq Id
        /\ lost' \in BOOLEAN
    BY <1>13, <2>1, AnsweredType DEF RpcTransfer
  <2>4. task_queue' \in Seq(Task) /\ Len(task_queue') < MaxTask
    BY <1>13, <1>p, <2>1 DEF RpcTransfer
  <2> QED BY <1>13, <2>1, <2>2, <2>3, <2>4 DEF RpcTransfer, TypeOK, Task
<1>14. ASSUME NEW k \in Kind, NEW good \in 0 .. 3, RpcTransferRefused(k, good)
       PROVE  TypeOK'
  <2>1. asked' \in Id /\ overlapped' \in BOOLEAN
    BY <1>14, AskType DEF RpcTransferRefused
  <2>2. command_key' \in Id /\ argument' \in [Kind -> Argument]
    BY <1>14, <2>1, StoredType DEF RpcTransferRefused
  <2>3. /\ status' \in {"RESPONSE", "IDLE"} /\ awaited' \subseteq Id
        /\ lost' \in BOOLEAN
    BY <1>14, <2>1, AnsweredType DEF RpcTransferRefused
  <2> QED BY <1>14, <2>1, <2>2, <2>3 DEF RpcTransferRefused, TypeOK
<1>15. CASE RpcReboot
  <2>1. asked' \in Id /\ overlapped' \in BOOLEAN
    BY <1>15, AskType DEF RpcReboot
  <2>2. task_queue' \in Seq(Task) /\ Len(task_queue') < MaxTask
    BY <1>15, <1>p, <2>1 DEF RpcReboot
  <2>3. status' \in {"EXECUTE", "IDLE"} /\ lost' \in BOOLEAN
    BY <1>15 DEF RpcReboot, TypeOK
  <2> QED BY <1>15, <2>1, <2>2, <2>3 DEF RpcReboot, TypeOK, Task
<1>16. CASE SessionExecute
  <2>1. CASE task_queue = <<>>
    BY <1>16, <2>1 DEF SessionExecute, TypeOK
  <2>2. CASE task_queue # <<>>
    <3>1. running' \subseteq Transfer /\ started' \subseteq Transfer
      BY <1>16, <1>q, <2>2, ExecuteType DEF SessionExecute
    <3> QED BY <1>16, <1>q, <2>2, <3>1 DEF SessionExecute, TypeOK, Task
  <2> QED BY <2>1, <2>2
<1>17. CASE UNCHANGED vars
  BY <1>17 DEF vars, TypeOK
<1> QED BY <1>1, <1>2, <1>3, <1>4, <1>5, <1>6, <1>7, <1>8, <1>9, <1>10, <1>11,
           <1>12, <1>13, <1>14, <1>15, <1>16, <1>17 DEF Next

LEMMA TypeCorrect == Spec => []TypeOK
BY InitType, StepType, PTL DEF Spec
-----------------------------------------------------------------------------
(* Every transfer is in one place, and there are no more than were asked.  *)

OnceInv == Once /\ Counted

(* A finite set: what is live was asked.                                   *)
LEMMA LiveFinite ==
  ASSUME TypeOK, Counted
  PROVE  /\ asked \in Nat /\ puts \in Nat
         /\ IsFiniteSet(Live) /\ Cardinality(Live) \in Nat
<1>1. asked \in Nat /\ puts \in Nat
  BY TransfersAssumption DEF TypeOK, Id
<1>2. IsFiniteSet(1 .. asked)
  BY <1>1, FS_Interval
<1>3. IsFiniteSet(Live)
  BY <1>2, FS_Subset DEF Counted
<1> QED BY <1>1, <1>3, FS_CardinalityType

(* Nothing new is live.                                                    *)
LEMMA CountedStays ==
  ASSUME TypeOK, Counted, Live' \subseteq Live, puts' = puts,
         asked' = asked \/ asked' = asked + 1
  PROVE  Counted'
<1>1. /\ asked \in Nat /\ puts \in Nat
      /\ IsFiniteSet(Live) /\ Cardinality(Live) \in Nat
  BY LiveFinite
<1>2. Cardinality(Live') \in Nat /\ Cardinality(Live') <= Cardinality(Live)
  BY <1>1, FS_Subset, FS_CardinalityType
<1>3. Live \subseteq 1 .. asked /\ puts + Cardinality(Live) <= asked
  BY DEF Counted
<1>4. Live' \subseteq 1 .. asked'
  BY <1>1, <1>3
<1>5. puts' + Cardinality(Live') <= asked'
  BY <1>1, <1>2, <1>3
<1> QED BY <1>4, <1>5 DEF Counted

(* The same transfers in the same places.                                  *)
LEMMA OnceStays ==
  ASSUME TypeOK, OnceInv, UNCHANGED <<running, puts>>,
         asked' = asked \/ asked' = asked + 1,
         Distinct(task_queue'), Ids(task_queue') \subseteq Queued,
         \A k \in Kind : \/ client'[k] = client[k]
                         \/ /\ client[k].step # "result"
                            /\ client'[k].step # "result"
  PROVE  OnceInv' /\ Live' \subseteq Live /\ Reporting' = Reporting
<1>1. Queued' \subseteq Queued /\ Working' = Working
  BY DEF Queued, Working
<1>2. \A k \in Kind : (client'[k].step = "result") = (client[k].step = "result")
                      /\ (client[k].step = "result" => client'[k] = client[k])
  OBVIOUS
<1>3. Reporting' = Reporting
  BY <1>2 DEF Reporting
<1>4. Counted'
  BY <1>1, <1>3, CountedStays DEF Live, OnceInv
<1>5. Distinct(task_queue)'
  BY DEF Distinct
<1>6. Apart'
  BY <1>1, <1>2, <1>3 DEF OnceInv, Once, Apart
<1> QED BY <1>1, <1>3, <1>4, <1>5, <1>6 DEF OnceInv, Once, Live

(* Another task that is no transfer, or none at all.                       *)
LEMMA PutOther ==
  ASSUME TypeOK, OnceInv, NEW t \in {"SESSION", "REBOOT"}, NEW n \in Id
  PROVE  /\ Distinct(Put(task_queue, t, n))
         /\ Ids(Put(task_queue, t, n)) \subseteq Queued
<1>1. task_queue \in Seq(Task) /\ Len(task_queue) < MaxTask
  BY QueueType
<1>2. t \notin Kind
  BY DEF Kind
<1>3. Distinct(task_queue)
  BY DEF OnceInv, Once
<1> QED BY <1>1, <1>2, <1>3, PutIds DEF Queued

LEMMA EmptyOnce ==
  /\ Distinct(<<>>) /\ Ids(<<>>) = {}
  /\ Distinct(Put(<<>>, "SESSION", 0)) /\ Ids(Put(<<>>, "SESSION", 0)) = {}
<1>1. 0 \in Id /\ 0 < MaxTask
  BY TransfersAssumption DEF Id
<1>2. <<>> \in Seq(Task) /\ Len(<<>>) < MaxTask
  BY <1>1
<1>3. Distinct(<<>>) /\ Ids(<<>>) = {}
  BY DEF Distinct, Ids
<1>4. "SESSION" \notin Kind
  BY DEF Kind
<1> QED BY <1>1, <1>2, <1>3, <1>4, PutIds

(* A transfer that is set to work leaves the queue.                        *)
LEMMA ExecuteOnce ==
  ASSUME TypeOK, OnceInv, task_queue # <<>>, task_queue' = Tail(task_queue),
         Execute(Head(task_queue)), UNCHANGED <<client, asked, puts>>
  PROVE  OnceInv' /\ Live' \subseteq Live /\ Reporting' = Reporting
<1> DEFINE t == Head(task_queue)
<1>1. /\ t \in Task
      /\ Distinct(task_queue') /\ Queued' \subseteq Queued
      /\ t.task \in Kind => t.id \in Queued /\ t.id \notin Queued'
  <2>1. task_queue \in Seq(Task) /\ Len(task_queue) < MaxTask
    BY QueueType
  <2>2. Distinct(task_queue)
    BY DEF OnceInv, Once
  <2> QED BY <2>1, <2>2, TailIs, TailIds DEF Queued
<1>2. CASE t.task \notin Kind
  <2>1. running' = running
    BY <1>2 DEF Execute
  <2>2. Ids(task_queue') \subseteq Queued
    BY <1>1 DEF Queued
  <2> QED BY <1>1, <2>1, <2>2, OnceStays
<1>3. CASE t.task \in Kind
  <2> DEFINE w == [id |-> t.id, kind |-> t.task, url |-> argument[t.task].url,
                   login |-> argument[t.task].login]
  <2>1. running' = running \cup {w} /\ w.id = t.id
    BY <1>3 DEF Execute
  <2> HIDE DEF t, w
  <2>2. Working' = Working \cup {t.id}
    BY <2>1 DEF Working
  <2>3. Reporting' = Reporting
    BY DEF Reporting
  <2>4. Live' \subseteq Live
    BY <1>1, <1>3, <2>2, <2>3 DEF Live
  <2>5. Counted'
    BY <2>4, CountedStays DEF OnceInv
  <2>6. t.id \notin Working /\ t.id \notin Reporting
    BY <1>1, <1>3 DEF OnceInv, Once, Apart
  <2>7. \A u, v \in running' : u.id = v.id => u = v
    BY <2>1, <2>6 DEF OnceInv, Once, Apart, Working
  <2>8. Apart'
    BY <1>1, <1>3, <2>2, <2>3, <2>6, <2>7 DEF OnceInv, Once, Apart
  <2> QED BY <1>1, <2>3, <2>4, <2>5, <2>8 DEF OnceInv, Once, Distinct
<1> QED BY <1>2, <1>3

(* A transfer that is done moves to the program that reports it.           *)
LEMMA CompleteOnce ==
  ASSUME TypeOK, OnceInv, NEW k \in Kind, SetTransferComplete(k)
  PROVE  OnceInv' /\ Live' \subseteq Live
<1>1. PICK t \in running :
        /\ running' = running \ {t}
        /\ client' = [client EXCEPT ![k] = [step |-> "result", id |-> t.id]]
  BY DEF SetTransferComplete
<1>2. client[k].step # "result" /\ UNCHANGED <<task_queue, asked, puts>>
  BY DEF SetTransferComplete, history
<1>3. /\ client'[k].step = "result" /\ client'[k].id = t.id
      /\ \A l \in Kind : l # k => client'[l] = client[l]
  BY <1>1 DEF TypeOK
<1>4. Working' = Working \ {t.id} /\ t.id \in Working
  BY <1>1 DEF OnceInv, Once, Apart, Working
<1>5. Reporting' = Reporting \cup {t.id}
  BY <1>2, <1>3 DEF Reporting
<1>6. Queued' = Queued
  BY <1>2 DEF Queued
<1>7. Live' \subseteq Live /\ Counted'
  BY <1>2, <1>4, <1>5, <1>6, CountedStays DEF OnceInv, Live
<1>8. t.id \notin Reporting /\ t.id \notin Queued
  BY <1>4 DEF OnceInv, Once, Apart
<1>9. ASSUME NEW l \in Kind, NEW n \in Kind, client'[l].step = "result",
             client'[n].step = "result", client'[l].id = client'[n].id
      PROVE  l = n
  <2>1. \A j \in Kind : j # k /\ client'[j].step = "result"
                          => client'[j].id # t.id
    BY <1>3, <1>8 DEF Reporting
  <2> QED BY <1>3, <1>9, <2>1 DEF OnceInv, Once, Apart
<1>10. Apart'
  BY <1>1, <1>4, <1>5, <1>6, <1>8, <1>9 DEF OnceInv, Once, Apart
<1> QED BY <1>2, <1>7, <1>10 DEF OnceInv, Once, Distinct

(* A program that has put its request has reported its transfer.           *)
LEMMA PutReports ==
  ASSUME TypeOK, OnceInv, NEW k \in Kind, PutRequest(k)
  PROVE  /\ client[k].id \in Live /\ Live' = Live \ {client[k].id}
         /\ Apart'
<1>1. /\ client[k].step = "result"
      /\ client' = [client EXCEPT ![k].step = "request"]
      /\ UNCHANGED <<task_queue, running>>
  BY DEF PutRequest
<1>2. /\ client'[k].step = "request"
      /\ \A l \in Kind : l # k => client'[l] = client[l]
  BY <1>1 DEF TypeOK
<1>3. client[k].id \in Reporting
  BY <1>1 DEF Reporting
<1>4. Reporting' = Reporting \ {client[k].id}
  BY <1>1, <1>2 DEF OnceInv, Once, Apart, Reporting
<1>5. Queued' = Queued /\ Working' = Working
  BY <1>1 DEF Queued, Working
<1>6. client[k].id \notin Queued \cup Working
  BY <1>3 DEF OnceInv, Once, Apart
<1>7. Live' = Live \ {client[k].id}
  BY <1>4, <1>5, <1>6 DEF Live
<1>8. Apart'
  BY <1>1, <1>2, <1>4, <1>5 DEF OnceInv, Once, Apart
<1> QED BY <1>3, <1>7, <1>8 DEF Live

LEMMA PutRequestOnce ==
  ASSUME TypeOK, OnceInv, NEW k \in Kind, PutRequest(k)
  PROVE  OnceInv'
<1>1. client[k].id \in Live /\ Live' = Live \ {client[k].id} /\ Apart'
  BY PutReports
<1>2. /\ asked \in Nat /\ puts \in Nat
      /\ IsFiniteSet(Live) /\ Cardinality(Live) \in Nat
  BY LiveFinite DEF OnceInv
<1>3. Cardinality(Live') = Cardinality(Live) - 1
  BY <1>1, <1>2, FS_RemoveElement
<1>4. puts' = puts + 1 /\ asked' = asked /\ task_queue' = task_queue
  BY DEF PutRequest
<1>5. Live \subseteq 1 .. asked /\ puts + Cardinality(Live) <= asked
  BY DEF OnceInv, Counted
<1>6. Live' \subseteq 1 .. asked'
  BY <1>1, <1>4, <1>5
<1>7. puts' + Cardinality(Live') <= asked'
  BY <1>2, <1>3, <1>4, <1>5
<1>8. Counted'
  BY <1>6, <1>7 DEF Counted
<1> QED BY <1>1, <1>4, <1>8 DEF OnceInv, Once, Distinct

(* The transfer of a new RPC has a number that none has.                   *)
LEMMA TransferOnce ==
  ASSUME TypeOK, OnceInv, NEW k \in Kind, RpcTransfer(k)
  PROVE  OnceInv'
<1>1. /\ task_queue' = Put(task_queue, k, asked')
      /\ UNCHANGED <<running, client, puts>>
  BY DEF RpcTransfer
<1>2. asked' = asked + 1 /\ asked' \in Id /\ asked \in Nat
  BY AskType DEF RpcTransfer
<1>3. Live \subseteq 1 .. asked /\ puts + Cardinality(Live) <= asked
  BY DEF OnceInv, Counted
<1>4. asked' \notin Live
  BY <1>2, <1>3
<1>5. Working' = Working /\ Reporting' = Reporting
  BY <1>1 DEF Working, Reporting
<1>6. Queued' \subseteq Queued \cup {asked'} /\ Distinct(task_queue')
  <2>1. task_queue \in Seq(Task) /\ Len(task_queue) < MaxTask
    BY QueueType
  <2>2. Distinct(task_queue) /\ asked' \notin Ids(task_queue)
    BY <1>4 DEF OnceInv, Once, Live, Queued
  <2> QED BY <1>1, <1>2, <2>1, <2>2, PutIds DEF Queued
<1>7. Live' \subseteq Live \cup {asked'}
  BY <1>5, <1>6 DEF Live
<1>8. /\ IsFiniteSet(Live) /\ Cardinality(Live) \in Nat /\ puts \in Nat
  BY LiveFinite DEF OnceInv
<1>9. /\ IsFiniteSet(Live \cup {asked'})
      /\ Cardinality(Live \cup {asked'}) = Cardinality(Live) + 1
  BY <1>4, <1>8, FS_AddElement
<1>10. /\ Cardinality(Live') <= Cardinality(Live) + 1
       /\ Cardinality(Live') \in Nat
  BY <1>7, <1>9, FS_Subset, FS_CardinalityType
<1>11. Counted'
  <2>1. Live' \subseteq 1 .. asked'
    BY <1>2, <1>3, <1>7
  <2>2. puts' + Cardinality(Live') <= asked'
    BY <1>1, <1>2, <1>3, <1>8, <1>10
  <2> QED BY <2>1, <2>2 DEF Counted
<1>12. Apart'
  <2>1. asked' \notin Working /\ asked' \notin Reporting
    BY <1>4 DEF Live
  <2> QED BY <1>1, <1>5, <1>6, <2>1 DEF OnceInv, Once, Apart
<1> QED BY <1>6, <1>11, <1>12 DEF OnceInv, Once, Distinct


LEMMA EndedOnce ==
  ASSUME TypeOK, OnceInv, NEW f, Ended(f)
  PROVE  OnceInv' /\ Live' \subseteq Live /\ Reporting' = Reporting
<1>1. /\ task_queue' = <<>> /\ UNCHANGED <<running, client, asked, puts>>
  BY DEF Ended
<1>2. Distinct(task_queue') /\ Ids(task_queue') \subseteq Queued
  BY <1>1, EmptyOnce
<1> QED BY <1>1, <1>2, OnceStays

(* Every step moves a transfer from one place to the next, or forgets it.  *)
LEMMA StepOnce == TypeOK /\ OnceInv /\ [Next]_vars => OnceInv'
<1> SUFFICES ASSUME TypeOK, OnceInv, [Next]_vars PROVE OnceInv'
  OBVIOUS
<1> USE DEF history
<1>0. Distinct(task_queue) /\ Ids(task_queue) \subseteq Queued
  BY DEF OnceInv, Once, Queued
<1>z. 0 \in Id
  BY TransfersAssumption DEF Id
<1>1. CASE Boot
  <2>1. UNCHANGED <<running, client, asked, puts>>
    BY <1>1 DEF Boot
  <2>2. Distinct(task_queue') /\ Ids(task_queue') \subseteq Queued
    BY <1>1, EmptyOnce DEF Boot
  <2> QED BY <2>1, <2>2, OnceStays
<1>2. CASE LoopExit \/ Crash
  BY <1>2, EndedOnce DEF LoopExit, Crash
<1>3. CASE OtherReport
  <2>1. UNCHANGED <<running, client, asked, puts>>
    BY <1>3 DEF OtherReport
  <2>2. Distinct(task_queue') /\ Ids(task_queue') \subseteq Queued
    BY <1>3, <1>z, PutOther DEF OtherReport
  <2> QED BY <2>1, <2>2, OnceStays
<1>4. ASSUME NEW k \in Kind, SetTransferComplete(k) PROVE OnceInv'
  BY <1>4, CompleteOnce
<1>5. ASSUME NEW k \in Kind, PutRequest(k) PROVE OnceInv'
  BY <1>5, PutRequestOnce
<1>6. ASSUME NEW k \in Kind, Start(k) PROVE OnceInv'
  <2>1. UNCHANGED <<running, asked, puts>>
    BY <1>6 DEF Start
  <2>2. Distinct(task_queue') /\ Ids(task_queue') \subseteq Queued
    BY <1>6, <1>z, PutOther DEF Start
  <2>3. client[k].step = "request" /\ client' = [client EXCEPT ![k] = NoReport]
    BY <1>6 DEF Start
  <2>4. ASSUME NEW l \in Kind
        PROVE  \/ client'[l] = client[l]
               \/ client[l].step # "result" /\ client'[l].step # "result"
    BY <2>3 DEF TypeOK, NoReport
  <2> QED BY <2>1, <2>2, <2>4, OnceStays
<1>7. CASE PickTask
  BY <1>7, ExecuteOnce DEF PickTask
<1>8. ASSUME NEW k \in Kind, RpcTransfer(k) PROVE OnceInv'
  BY <1>8, TransferOnce
<1>9. ASSUME NEW k \in Kind, NEW good, RpcTransferRefused(k, good) PROVE OnceInv'
  <2>1. UNCHANGED <<running, client, puts, task_queue>> /\ asked' = asked + 1
    BY <1>9 DEF RpcTransferRefused, Asks
  <2> QED BY <1>0, <2>1, OnceStays
<1>10. CASE RpcReboot
  <2>1. UNCHANGED <<running, client, puts>> /\ asked' = asked + 1 /\ asked' \in Id
    BY <1>10, AskType DEF RpcReboot
  <2>2. Distinct(task_queue') /\ Ids(task_queue') \subseteq Queued
    BY <1>10, <2>1, PutOther DEF RpcReboot
  <2> QED BY <2>1, <2>2, OnceStays
<1>11. CASE SessionExecute
  <2>1. UNCHANGED <<client, asked, puts>>
    BY <1>11 DEF SessionExecute
  <2>2. CASE task_queue = <<>>
    <3>1. UNCHANGED <<running, task_queue>>
      BY <1>11, <2>2 DEF SessionExecute
    <3> QED BY <1>0, <2>1, <3>1, OnceStays
  <2>3. CASE task_queue # <<>>
    BY <1>11, <2>1, <2>3, ExecuteOnce DEF SessionExecute
  <2> QED BY <2>2, <2>3
<1>12. CASE \/ ServiceStop \/ Dump \/ SessionInform \/ SessionTransferComplete
            \/ SessionEmpty \/ AcsHasNoMore \/ UNCHANGED vars
  <2>1. UNCHANGED <<running, client, asked, puts, task_queue>>
    BY <1>12 DEF ServiceStop, Dump, SessionInform, SessionTransferComplete,
                 SessionEmpty, AcsHasNoMore, vars
  <2> QED BY <1>0, <2>1, OnceStays
<1> QED BY <1>1, <1>2, <1>3, <1>4, <1>5, <1>6, <1>7, <1>8, <1>9, <1>10, <1>11,
           <1>12 DEF Next
-----------------------------------------------------------------------------
(* Requests.                                                               *)

FilesInv == Filed /\ RequestsKept

LEMMA FilesStay ==
  ASSUME FilesInv, UNCHANGED <<requests, ini, disk, puts, built, crashed>>,
         (status' = "STOP") = (status = "STOP"),
         (status' = "QUIT") = (status = "QUIT")
  PROVE  FilesInv'
BY DEF FilesInv, Filed, RequestsKept

(* The queue has room for the request of every RPC that was asked.         *)
LEMMA RoomForRequest ==
  ASSUME TypeOK, OnceInv, FilesInv, ~crashed, NEW k \in Kind, PutRequest(k)
  PROVE  requests + 1 < MaxRequest /\ ini.requests + 1 < MaxRequest
<1>1. client[k].id \in Live
  BY PutReports
<1>2. /\ asked \in Nat /\ puts \in Nat
      /\ IsFiniteSet(Live) /\ Cardinality(Live) \in Nat
  BY LiveFinite DEF OnceInv
<1>3. Cardinality(Live) # 0
  BY <1>1, <1>2, FS_EmptySet
<1>4. /\ MaxRpc \in Nat /\ MaxRequest \in Nat /\ MaxRpc < MaxRequest
      /\ asked <= MaxRpc
  BY TransfersAssumption DEF TypeOK, Id
<1>5. built \in Nat /\ requests \in Nat /\ ini.requests \in Nat
  BY <1>4 DEF TypeOK, File
<1>6. puts = built + requests + ini.requests
  BY DEF FilesInv, RequestsKept
<1>7. puts + Cardinality(Live) <= asked
  BY DEF OnceInv, Counted
<1> QED BY <1>2, <1>3, <1>4, <1>5, <1>6, <1>7

(* Every step keeps the sum of what is sent, queued and saved.             *)
LEMMA StepFiles == TypeOK /\ OnceInv /\ FilesInv /\ [Next]_vars => FilesInv'
<1> SUFFICES ASSUME TypeOK, OnceInv, FilesInv, [Next]_vars PROVE FilesInv'
  OBVIOUS
<1> USE DEF history, slots
<1>0. /\ requests \in 0 .. MaxRequest - 1 /\ ini.requests \in 0 .. MaxRequest - 1
      /\ puts \in Nat /\ built \in Nat /\ MaxRequest \in Nat
  BY TransfersAssumption DEF TypeOK, File
<1>1. CASE Boot
  BY <1>0, <1>1 DEF Boot, FilesInv, Filed, RequestsKept, EmptyFile
<1>2. CASE Dump
  <2>1. ini.requests = 0
    BY <1>2 DEF Dump, FilesInv, Filed, EmptyFile
  <2>2. PutRequests(ini.requests, requests) = requests
    BY <1>0, <2>1, PutRequestsIs
  <2>3. ini'.requests = requests /\ requests' = 0
    BY <1>0, <1>2, <2>1, <2>2 DEF Dump
  <2>4. status = "IDLE" /\ status' = "QUIT" /\ disk' = disk
    BY <1>2 DEF Dump
  <2>5. Filed'
    BY <2>3, <2>4 DEF FilesInv, Filed
  <2>6. RequestsKept'
    BY <1>0, <1>2, <2>1, <2>3 DEF Dump, FilesInv, RequestsKept
  <2> QED BY <2>5, <2>6 DEF FilesInv
<1>3. CASE LoopExit
  BY <1>0, <1>3 DEF LoopExit, Ended, FilesInv, Filed, RequestsKept
<1>4. CASE Crash
  BY <1>4 DEF Crash, Ended, FilesInv, Filed, RequestsKept
<1>5. ASSUME NEW k \in Kind, SetTransferComplete(k) PROVE FilesInv'
  <2>1. UNCHANGED <<status, requests, disk, puts, built, crashed>>
    BY <1>5 DEF SetTransferComplete
  <2>2. status \in {"IDLE", "QUIT"} /\ (InMemory => ini' = ini)
    BY <1>5 DEF SetTransferComplete, LoopFree
  <2>3. ini'.requests = ini.requests
    BY <1>5 DEF SetTransferComplete, TypeOK, File
  <2> QED BY <2>1, <2>2, <2>3 DEF FilesInv, Filed, RequestsKept, InMemory
<1>6. ASSUME NEW k \in Kind, PutRequest(k) PROVE FilesInv'
  <2>1. /\ UNCHANGED <<status, disk, built, crashed>> /\ puts' = puts + 1
        /\ status \in {"IDLE", "QUIT"}
    BY <1>6 DEF PutRequest, LoopFree
  <2>2. CASE InMemory
    <3>1. requests' = PutRequests(requests, 1) /\ ini' = ini /\ status = "IDLE"
      BY <1>6, <2>1, <2>2 DEF PutRequest, InMemory
    <3>2. ~crashed => requests' = requests + 1
      BY <1>0, <1>6, <3>1, RoomForRequest, OneRequest
    <3> QED BY <1>0, <2>1, <3>1, <3>2 DEF FilesInv, Filed, RequestsKept
  <2>3. CASE ~InMemory
    <3>1. /\ ini'.requests = PutRequests(ini.requests, 1) /\ requests' = requests
          /\ status = "QUIT"
      BY <1>6, <2>1, <2>3 DEF PutRequest, InMemory, TypeOK, File
    <3>2. ~crashed => ini'.requests = ini.requests + 1
      BY <1>0, <1>6, <3>1, RoomForRequest, OneRequest
    <3> QED BY <1>0, <2>1, <3>1, <3>2 DEF FilesInv, Filed, RequestsKept
  <2> QED BY <2>2, <2>3
<1>7. CASE SessionTransferComplete
  BY <1>0, <1>7 DEF SessionTransferComplete, FilesInv, Filed, RequestsKept
<1>8. CASE OtherReport \/ (\E k \in Kind : Start(k)) \/ UNCHANGED vars
  BY <1>8, FilesStay DEF OtherReport, Start, vars
<1>9. CASE ServiceStop
  BY <1>9, FilesStay DEF ServiceStop
<1>10. CASE \/ PickTask \/ SessionInform \/ SessionEmpty \/ AcsHasNoMore
            \/ SessionExecute
  <2>1. /\ UNCHANGED <<requests, ini, disk, puts, built, crashed>>
        /\ status \notin {"STOP", "QUIT"} /\ status' \notin {"STOP", "QUIT"}
    BY <1>10 DEF PickTask, SessionInform, SessionEmpty, AcsHasNoMore,
                 SessionExecute
  <2> QED BY <2>1, FilesStay
<1>11. CASE \/ \E k \in Kind : \/ RpcTransfer(k)
                               \/ \E good \in 0 .. 3 : RpcTransferRefused(k, good)
            \/ RpcReboot
  <2>1. /\ UNCHANGED <<requests, ini, disk, puts, built, crashed>>
        /\ status \notin {"STOP", "QUIT"} /\ status' \notin {"STOP", "QUIT"}
    BY <1>11 DEF RpcTransfer, RpcTransferRefused, RpcReboot, Asks, Answered
  <2> QED BY <2>1, FilesStay
<1> QED BY <1>1, <1>2, <1>3, <1>4, <1>5, <1>6, <1>7, <1>8, <1>9, <1>10,
           <1>11 DEF Next

LEMMA InitCounts == Init => OnceInv /\ FilesInv
<1> SUFFICES ASSUME Init PROVE OnceInv /\ FilesInv
  OBVIOUS
<1>1. Queued = {} /\ Working = {} /\ Reporting = {}
  BY EmptyOnce DEF Init, Queued, Working, Reporting, NoReport
<1>2. Live = {} /\ Cardinality(Live) = 0
  BY <1>1, FS_EmptySet DEF Live
<1>3. Counted
  BY <1>2 DEF Init, Counted
<1>4. Once
  BY <1>1, EmptyOnce DEF Init, Once, Apart, NoReport
<1>5. FilesInv
  BY DEF Init, FilesInv, Filed, RequestsKept, EmptyFile
<1> QED BY <1>3, <1>4, <1>5 DEF OnceInv

LEMMA CountsHold == Spec => [](OnceInv /\ FilesInv)
BY InitCounts, StepOnce, StepFiles, TypeCorrect, PTL DEF Spec

(* Types, and no request to tell the ACS of a transfer is lost or made up  *)
(* over any number of stops and starts, as long as the queue has room for  *)
(* as many as RPCs are asked: no truncation ever happens then.             *)
THEOREM TransfersCorrect == Spec => []TransfersInv
<1>1. TypeOK /\ FilesInv => TransfersInv
  BY DEF FilesInv, TransfersInv
<1> QED BY <1>1, TypeCorrect, CountsHold, PTL
-----------------------------------------------------------------------------
(* Arguments.                                                              *)

OwnInv == QueueOwns /\ OwnArguments

(* No task of a transfer is added, and arguments and phase stay.           *)
LEMMA OwnStays ==
  ASSUME OwnInv, UNCHANGED <<argument, started, lost>>,
         task_queue \in Seq(Task),
         \/ status' = status
         \/ status # "EXECUTE" \/ status' = "EXECUTE",
         \A i \in 1 .. Len(task_queue') : task_queue'[i].task \in Kind =>
           \E j \in 1 .. Len(task_queue) : task_queue'[i] = task_queue[j]
  PROVE  OwnInv'
BY DEF OwnInv, QueueOwns, OwnArguments

LEMMA PutOtherOwn ==
  ASSUME TypeOK, NEW t \in {"SESSION", "REBOOT"}, NEW n \in Id,
         task_queue' = Put(task_queue, t, n)
  PROVE  \A i \in 1 .. Len(task_queue') : task_queue'[i].task \in Kind =>
           \E j \in 1 .. Len(task_queue) : task_queue'[i] = task_queue[j]
<1>1. task_queue \in Seq(Task) /\ Len(task_queue) < MaxTask
  BY QueueType
<1>2. \/ task_queue' = task_queue
      \/ /\ Len(task_queue') = Len(task_queue) + 1
         /\ \A i \in 1 .. Len(task_queue) : task_queue'[i] = task_queue[i]
         /\ task_queue'[Len(task_queue) + 1] = [task |-> t, id |-> n]
  <2> DEFINE r == Put(task_queue, t, n)
  <2>1. \/ r = task_queue
        \/ /\ Len(r) = Len(task_queue) + 1
           /\ \A i \in 1 .. Len(task_queue) : r[i] = task_queue[i]
           /\ r[Len(task_queue) + 1] = [task |-> t, id |-> n]
    BY <1>1, PutIs
  <2>2. task_queue' = r
    OBVIOUS
  <2> HIDE DEF r
  <2> QED BY <2>1, <2>2
<1>3. t \notin Kind
  BY DEF Kind
<1>4. CASE task_queue' = task_queue
  BY <1>4
<1>5. CASE task_queue' # task_queue
  <2> SUFFICES ASSUME NEW i \in 1 .. Len(task_queue'),
                      task_queue'[i].task \in Kind
               PROVE  \E j \in 1 .. Len(task_queue) :
                        task_queue'[i] = task_queue[j]
    OBVIOUS
  <2>1. i # Len(task_queue) + 1
    BY <1>2, <1>3, <1>5
  <2>2. i \in 1 .. Len(task_queue)
    BY <1>1, <1>2, <1>5, <2>1
  <2> QED BY <1>2, <1>5, <2>2
<1> QED BY <1>4, <1>5

(* The first task of the queue is executed: its transfer has its own       *)
(* arguments.                                                              *)
LEMMA ExecuteOwn ==
  ASSUME TypeOK, OwnInv, task_queue # <<>>, task_queue' = Tail(task_queue),
         Execute(Head(task_queue)), UNCHANGED <<argument, lost>>,
         \/ status' = status
         \/ status # "EXECUTE"
  PROVE  OwnInv'
<1>1. /\ Head(task_queue) \in Task /\ Head(task_queue) = task_queue[1]
      /\ 1 \in 1 .. Len(task_queue)
      /\ \A i \in 1 .. Len(task_queue') : i + 1 \in 1 .. Len(task_queue)
                                     /\ task_queue'[i] = task_queue[i + 1]
  <2>1. task_queue \in Seq(Task) /\ Len(task_queue) < MaxTask
    BY QueueType
  <2> QED BY <2>1, TailIs
<1>2. QueueOwns'
  BY <1>1 DEF OwnInv, QueueOwns
<1>3. OwnArguments'
  <2> SUFFICES ASSUME ~lost, NEW w \in started', w \notin started
               PROVE  w.url = w.id /\ w.login = w.id
    BY DEF OwnInv, OwnArguments
  <2> DEFINE t == Head(task_queue)
  <2>1. /\ t.task \in Kind
        /\ w = [id |-> t.id, kind |-> t.task, url |-> argument[t.task].url,
                login |-> argument[t.task].login]
    BY DEF Execute
  <2>2. argument[t.task].url = t.id /\ argument[t.task].login = t.id
    BY <1>1, <2>1 DEF OwnInv, QueueOwns
  <2> QED BY <2>1, <2>2
<1> QED BY <1>2, <1>3 DEF OwnInv

(* While no answer was lost the queue holds no transfer when an RPC is      *)
(* read.                                                                   *)
LEMMA AsksAlone ==
  ASSUME OwnInv, Asks, ~lost
  PROVE  \A i \in 1 .. Len(task_queue) : task_queue[i].task \notin Kind
BY DEF OwnInv, QueueOwns, Asks

LEMMA TransferOwn ==
  ASSUME TypeOK, OwnInv, NEW k \in Kind, RpcTransfer(k)
  PROVE  OwnInv'
<1>1. asked' \in Id
  BY AskType DEF RpcTransfer
<1>2. OwnArguments'
  BY DEF RpcTransfer, Answered, OwnInv, OwnArguments
<1>3. QueueOwns'
  <2> SUFFICES ASSUME ~lost', NEW i \in 1 .. Len(task_queue'),
                      task_queue'[i].task \in Kind
               PROVE  /\ status' = "EXECUTE"
                      /\ argument'[task_queue'[i].task].url = task_queue'[i].id
                      /\ argument'[task_queue'[i].task].login = task_queue'[i].id
    BY DEF QueueOwns
  <2>1. ~lost /\ status' = "EXECUTE"
    BY DEF RpcTransfer, Answered
  <2>2. task_queue \in Seq(Task) /\ Len(task_queue) < MaxTask
    BY QueueType
  <2>3. task_queue' = Put(task_queue, k, asked')
    BY DEF RpcTransfer
  <2>4. \/ task_queue' = task_queue
        \/ /\ Len(task_queue') = Len(task_queue) + 1
           /\ \A j \in 1 .. Len(task_queue) : task_queue'[j] = task_queue[j]
           /\ task_queue'[Len(task_queue) + 1] = [task |-> k, id |-> asked']
    BY <1>1, <2>2, <2>3, PutIs
  <2>5. \A j \in 1 .. Len(task_queue) : task_queue[j].task \notin Kind
    BY <2>1, AsksAlone DEF RpcTransfer
  <2>6. task_queue'[i] = [task |-> k, id |-> asked']
    BY <2>2, <2>4, <2>5
  <2>7. /\ argument'[k].url = asked' /\ argument'[k].login = asked'
    BY DEF RpcTransfer, Stored, TypeOK
  <2> QED BY <2>1, <2>6, <2>7
<1> QED BY <1>2, <1>3 DEF OwnInv

(* A refused RPC may change the arguments of a kind, of which no transfer   *)
(* waits.                                                                  *)
LEMMA RefusedOwn ==
  ASSUME TypeOK, OwnInv, NEW k \in Kind, NEW good, RpcTransferRefused(k, good)
  PROVE  OwnInv'
<1>1. /\ UNCHANGED <<task_queue, started>> /\ (~lost' => ~lost)
      /\ Asks
  BY DEF RpcTransferRefused, Answered
<1>2. ~lost' => \A i \in 1 .. Len(task_queue) : task_queue[i].task \notin Kind
  BY <1>1, AsksAlone
<1> QED BY <1>1, <1>2 DEF OwnInv, QueueOwns, OwnArguments

LEMMA StepOwn == TypeOK /\ OwnInv /\ [Next]_vars => OwnInv'
<1> SUFFICES ASSUME TypeOK, OwnInv, [Next]_vars PROVE OwnInv'
  OBVIOUS
<1> USE DEF history, slots
<1>0. task_queue \in Seq(Task) /\ Len(task_queue) < MaxTask
  BY QueueType
<1>z. 0 \in Id
  BY TransfersAssumption DEF Id
<1>1. CASE Boot
  <2>1. \A i \in 1 .. Len(task_queue') : task_queue'[i].task \notin Kind
    <3>1. Ids(task_queue') = {}
      BY <1>1, EmptyOnce DEF Boot
    <3> QED BY <3>1 DEF Ids
  <2>2. UNCHANGED <<started, lost>>
    BY <1>1 DEF Boot
  <2> QED BY <2>1, <2>2 DEF OwnInv, QueueOwns, OwnArguments
<1>2. CASE LoopExit \/ Crash
  <2>1. Len(task_queue') = 0 /\ UNCHANGED <<started, lost>>
    BY <1>2 DEF LoopExit, Crash, Ended
  <2> QED BY <2>1 DEF OwnInv, QueueOwns, OwnArguments
<1>3. CASE OtherReport
  BY <1>0, <1>3, <1>z, PutOtherOwn, OwnStays DEF OtherReport
<1>4. ASSUME NEW k \in Kind, Start(k) PROVE OwnInv'
  BY <1>0, <1>4, <1>z, PutOtherOwn, OwnStays DEF Start
<1>5. CASE PickTask
  <2>1. UNCHANGED <<argument, lost>> /\ status = "IDLE"
    BY <1>5 DEF PickTask
  <2> QED BY <1>5, <2>1, ExecuteOwn DEF PickTask
<1>6. ASSUME NEW k \in Kind, RpcTransfer(k) PROVE OwnInv'
  BY <1>6, TransferOwn
<1>7. ASSUME NEW k \in Kind, NEW good, RpcTransferRefused(k, good) PROVE OwnInv'
  BY <1>7, RefusedOwn
<1>8. CASE RpcReboot
  <2>1. asked' \in Id
    BY <1>8, AskType DEF RpcReboot
  <2>2. \A i \in 1 .. Len(task_queue') : task_queue'[i].task \in Kind =>
          \E j \in 1 .. Len(task_queue) : task_queue'[i] = task_queue[j]
    BY <1>8, <2>1, PutOtherOwn DEF RpcReboot
  <2>3. UNCHANGED <<argument, started>> /\ status = "RESPONSE"
        /\ (~lost' => ~lost)
    BY <1>8 DEF RpcReboot, Asks
  <2> QED BY <2>2, <2>3 DEF OwnInv, QueueOwns, OwnArguments
<1>9. CASE SessionExecute
  <2>1. UNCHANGED <<argument, lost>>
    BY <1>9 DEF SessionExecute
  <2>2. CASE task_queue = <<>>
    <3>1. Len(task_queue') = 0 /\ UNCHANGED started
      BY <1>9, <2>2 DEF SessionExecute
    <3> QED BY <2>1, <3>1 DEF OwnInv, QueueOwns, OwnArguments
  <2>3. CASE task_queue # <<>>
    BY <1>9, <2>1, <2>3, ExecuteOwn DEF SessionExecute
  <2> QED BY <2>2, <2>3
<1>10. CASE \/ ServiceStop \/ Dump \/ SessionInform \/ SessionTransferComplete
            \/ SessionEmpty \/ AcsHasNoMore \/ UNCHANGED vars
            \/ \E k \in Kind : SetTransferComplete(k) \/ PutRequest(k)
  <2>1. /\ UNCHANGED <<argument, started, lost, task_queue>>
        /\ status' = status \/ status # "EXECUTE"
    BY <1>10 DEF ServiceStop, Dump, SessionInform, SessionTransferComplete,
                 SessionEmpty, AcsHasNoMore, vars, SetTransferComplete, PutRequest
  <2> QED BY <1>0, <2>1, OwnStays
<1> QED BY <1>1, <1>2, <1>3, <1>4, <1>5, <1>6, <1>7, <1>8, <1>9, <1>10 DEF Next

(* A transfer is done with the arguments of its own RPC, whatever RPCs are *)
(* refused, overlap or fail, unless an answer was lost: while none was,    *)
(* the queue has no transfer but of the RPC that was just answered.        *)
THEOREM OwnArgumentsAlways == Spec => []OwnArguments
<1>1. Init => OwnInv
  BY DEF Init, OwnInv, QueueOwns, OwnArguments
<1>2. OwnInv => OwnArguments
  BY DEF OwnInv
<1> QED BY <1>1, <1>2, StepOwn, TypeCorrect, PTL DEF Spec
-----------------------------------------------------------------------------
(* Keys and results.                                                       *)

NamedInv == Named /\ ReportNamesTransfer

(* What the ACS waits for, the key, the result and the requests stay, and  *)
(* no more is live.                                                        *)
LEMMA NamedStays ==
  ASSUME NamedInv, UNCHANGED <<asked, awaited, overlapped, reports, crashed>>,
         Live' \subseteq Live, Reporting' \subseteq Reporting,
         Pending' = Pending, Key' = Key, Outcome' = Outcome
  PROVE  NamedInv'
BY DEF NamedInv, Named, ReportNamesTransfer

(* Only transfers in the hands of a program are live by it.                *)
LEMMA SameLive ==
  ASSUME TypeOK, OnceInv, UNCHANGED <<task_queue, running, client, asked, puts>>
  PROVE  Live' \subseteq Live /\ Reporting' = Reporting
BY DEF Live, Queued, Working, Reporting

(* An ACS that asks without waiting for anything asks when nothing is live *)
(* or pending.                                                             *)
LEMMA AsksIdle ==
  ASSUME TypeOK, NamedInv, Asks, ~overlapped'
  PROVE  ~overlapped /\ awaited = {} /\ Live = {} /\ Reporting = {} /\ Pending = 0
<1>1. ~overlapped /\ awaited = {}
  BY DEF Asks
<1>2. Pending \in Nat
  <2>1. requests \in Nat /\ ini.requests \in Nat
    BY TransfersAssumption DEF TypeOK, File
  <2> QED BY <2>1 DEF Pending
<1>3. Live = {} /\ ~(Pending > 0)
  BY <1>1 DEF NamedInv, Named
<1>4. Pending = 0
  BY <1>2, <1>3
<1> QED BY <1>1, <1>3, <1>4 DEF Live

LEMMA AskNamed ==
  ASSUME TypeOK, NamedInv, Asks, UNCHANGED <<requests, ini, reports>>,
         awaited' \in {awaited, awaited \cup {asked'}},
         Reporting' = Reporting,
         \/ Live' \subseteq Live
         \/ /\ Live' \subseteq Live \cup {asked'}
            /\ awaited' = awaited \cup {asked'}
            /\ command_key' = asked' /\ status' \notin {"STOP", "QUIT"}
  PROVE  Named'
<1> SUFFICES ASSUME ~overlapped' PROVE Named'
  BY DEF Named
<1>1. /\ ~overlapped /\ awaited = {} /\ Live = {} /\ Reporting = {}
      /\ Pending = 0
  BY AsksIdle
<1>2. Pending' = 0 /\ Reporting' = {} /\ ~(Pending' > 0)
  BY <1>1 DEF Pending
<1>3. awaited' \subseteq {asked'} /\ Live' \subseteq awaited'
  BY <1>1
<1>4. Live' # {} => Key' = asked'
  BY <1>1 DEF Key
<1> QED BY <1>2, <1>3, <1>4 DEF Named

(* The reports stay as they are.                                           *)
LEMMA ReportsStay ==
  ASSUME ReportNamesTransfer, reports' = reports, overlapped => overlapped',
         crashed => crashed'
  PROVE  ReportNamesTransfer'
BY DEF ReportNamesTransfer

(* The result that a program reports is of the transfer that is awaited.   *)
LEMMA CompleteNamed ==
  ASSUME TypeOK, OnceInv, NamedInv, NEW k \in Kind, SetTransferComplete(k)
  PROVE  NamedInv'
<1>1. PICK t \in running :
        IF InMemory
        THEN result' = t.id /\ UNCHANGED ini
        ELSE ini' = [ini EXCEPT !.result = t.id] /\ UNCHANGED result
  BY DEF SetTransferComplete
<1>2. /\ UNCHANGED <<status, command_key, requests, asked, awaited, overlapped,
                     reports, crashed>>
      /\ status \in {"IDLE", "QUIT"}
  BY DEF SetTransferComplete, history, LoopFree
<1>3. Live' \subseteq Live
  BY CompleteOnce
<1>4. ini'.requests = ini.requests /\ ini'.key = ini.key
      /\ (status = "QUIT" => ini'.result = t.id)
      /\ (status # "QUIT" => result' = t.id)
  BY <1>1 DEF TypeOK, File, InMemory
<1>5. Pending' = Pending /\ Key' = Key /\ Outcome' = t.id
  BY <1>2, <1>4 DEF Pending, Key, Outcome
<1>6. t.id \in Live
  BY DEF Live, Working
<1>7. ASSUME ~overlapped PROVE t.id = asked
  BY <1>6, <1>7 DEF NamedInv, Named
<1>8. Named'
  BY <1>2, <1>3, <1>5, <1>6, <1>7 DEF NamedInv, Named
<1> QED BY <1>2, <1>8, ReportsStay DEF NamedInv

(* Its request is the only one.                                            *)
LEMMA PutRequestNamed ==
  ASSUME TypeOK, OnceInv, NamedInv, NEW k \in Kind, PutRequest(k)
  PROVE  NamedInv'
<1>1. /\ UNCHANGED <<status, slots, asked, awaited, overlapped, reports, crashed>>
      /\ status \in {"IDLE", "QUIT"}
  BY DEF PutRequest, LoopFree
<1>2. /\ client[k].id \in Live /\ Live' = Live \ {client[k].id}
  BY PutReports
<1>3. client[k].id \in Reporting
  BY DEF PutRequest, Reporting
<1>4. /\ requests \in 0 .. MaxRequest - 1 /\ ini.requests \in 0 .. MaxRequest - 1
      /\ MaxRequest \in Nat
  BY TransfersAssumption DEF TypeOK, File
<1>5. /\ requests' + ini'.requests
           \in {requests + ini.requests, requests + ini.requests + 1}
      /\ ini'.key = ini.key /\ ini'.result = ini.result
  <2>1. CASE InMemory
    <3>1. requests' = PutRequests(requests, 1) /\ ini' = ini
      BY <2>1 DEF PutRequest
    <3> QED BY <1>4, <3>1, OneRequest
  <2>2. CASE ~InMemory
    <3>1. /\ ini'.requests = PutRequests(ini.requests, 1) /\ requests' = requests
          /\ ini'.key = ini.key /\ ini'.result = ini.result
      BY <2>2 DEF PutRequest, TypeOK, File
    <3> QED BY <1>4, <3>1, OneRequest
  <2> QED BY <2>1, <2>2
<1>6. Key' = Key /\ Outcome' = Outcome
  BY <1>1, <1>5 DEF slots, Key, Outcome
<1>7. ASSUME ~overlapped
      PROVE  /\ Live = {asked} /\ awaited = {asked} /\ Live' = {}
             /\ Pending' \in {0, 1} /\ Reporting' = {}
             /\ Outcome \in {asked, 0}
             /\ Key \in {asked, IF crashed THEN 0 ELSE asked}
  <2>1. Live = {asked} /\ awaited = {asked} /\ client[k].id = asked
    BY <1>2, <1>7 DEF NamedInv, Named
  <2>2. ~(Pending > 0)
    BY <1>2, <1>7 DEF NamedInv, Named
  <2>3. Pending = 0 /\ Pending' \in {0, 1}
    BY <1>4, <1>5, <2>2 DEF Pending
  <2>4. Live' = {} /\ Reporting' = {}
    BY <1>2, <2>1 DEF Live
  <2>5. /\ Outcome \in {asked, 0}
        /\ Key \in {asked, IF crashed THEN 0 ELSE asked}
    BY <1>2, <1>3, <1>7 DEF NamedInv, Named
  <2> QED BY <2>1, <2>3, <2>4, <2>5
<1>8. Named'
  <2> SUFFICES ASSUME ~overlapped PROVE Named'
    BY <1>1 DEF Named
  <2>1. Pending' > 0 => Pending' = 1
    BY <1>7
  <2> QED BY <1>1, <1>6, <1>7, <2>1 DEF Named
<1> QED BY <1>1, <1>8, ReportsStay DEF NamedInv

(* TransferComplete is built of the key and the result of what the ACS     *)
(* waits for, and then nothing is pending.                                 *)
LEMMA SendNamed ==
  ASSUME TypeOK, OnceInv, NamedInv, SessionTransferComplete
  PROVE  NamedInv'
<1>1. /\ status = "REQUEST" /\ requests > 0 /\ requests' = requests - 1
      /\ UNCHANGED <<ini, asked, overlapped, crashed, result>>
      /\ status' \notin {"STOP", "QUIT"}
  BY DEF SessionTransferComplete
<1>2. Live' \subseteq Live /\ Reporting' = Reporting
  BY SameLive DEF SessionTransferComplete
<1>3. requests \in Nat /\ ini.requests \in Nat
  BY TransfersAssumption DEF TypeOK, File
<1>4. Pending > 0 /\ Pending' = Pending - 1
  BY <1>1, <1>3 DEF Pending
<1>5. Key = command_key /\ Outcome = result
  BY <1>1 DEF Key, Outcome
<1>6. ASSUME ~overlapped
      PROVE  /\ Pending = 1 /\ Live = {} /\ awaited = {asked}
             /\ result \in {asked, 0}
             /\ command_key \in {asked, IF crashed THEN 0 ELSE asked}
  BY <1>4, <1>5, <1>6 DEF NamedInv, Named
<1>7. Named'
  <2> SUFFICES ASSUME ~overlapped PROVE Named'
    BY <1>1 DEF Named
  <2>1. Live' = {} /\ Reporting' = {}
    BY <1>2, <1>6 DEF Live
  <2>2. ~(Pending' > 0)
    BY <1>4, <1>6
  <2>3. awaited' \subseteq awaited
    BY DEF SessionTransferComplete
  <2> QED BY <1>1, <1>6, <2>1, <2>2, <2>3 DEF Named
<1>8. ReportNamesTransfer'
  <2> SUFFICES ASSUME ~overlapped, NEW r \in reports', r.result # 0
               PROVE  r.key = r.result \/ (r.key = 0 /\ crashed)
    BY <1>1 DEF ReportNamesTransfer
  <2>1. r \in reports \/ r = [key |-> command_key, result |-> result]
    BY DEF SessionTransferComplete
  <2>2. CASE r \in reports
    BY <2>2 DEF NamedInv, ReportNamesTransfer
  <2>3. CASE r = [key |-> command_key, result |-> result]
    BY <1>6, <2>3
  <2> QED BY <2>1, <2>2, <2>3
<1> QED BY <1>7, <1>8 DEF NamedInv


LEMMA StepNamed ==
  TypeOK /\ OnceInv /\ FilesInv /\ NamedInv /\ [Next]_vars => NamedInv'
<1> SUFFICES ASSUME TypeOK, OnceInv, FilesInv, NamedInv, [Next]_vars
             PROVE  NamedInv'
  OBVIOUS
<1> USE DEF history, slots
<1>0. /\ Distinct(task_queue) /\ Ids(task_queue) \subseteq Queued
      /\ 0 \in Id
  BY TransfersAssumption DEF OnceInv, Once, Queued, Id
<1>r. /\ requests \in 0 .. MaxRequest - 1 /\ ini.requests \in 0 .. MaxRequest - 1
      /\ MaxRequest \in Nat
  BY TransfersAssumption DEF TypeOK, File
<1>1. CASE Boot
  <2>1. UNCHANGED <<running, client, asked, puts>>
    BY <1>1 DEF Boot
  <2>2. Distinct(task_queue') /\ Ids(task_queue') \subseteq Queued
    BY <1>1, EmptyOnce DEF Boot
  <2>3. Live' \subseteq Live /\ Reporting' = Reporting
    BY <2>1, <2>2, OnceStays
  <2>4. /\ status = "STOP" /\ status' = "IDLE" /\ ini = disk /\ requests = 0
        /\ command_key' = disk.key /\ result' = disk.result
        /\ requests' = disk.requests /\ ini'.requests = 0
    BY <1>1 DEF Boot, FilesInv, Filed, EmptyFile
  <2>5. Key' = Key /\ Outcome' = Outcome
    BY <2>4 DEF Key, Outcome
  <2>6. Pending' = Pending
    BY <1>r, <2>4 DEF Pending
  <2> QED BY <1>1, <2>3, <2>5, <2>6, NamedStays DEF Boot
<1>2. CASE Dump
  <2>1. Live' \subseteq Live /\ Reporting' = Reporting
    BY <1>2, SameLive DEF Dump
  <2>2. /\ ini.requests \in Nat /\ requests \in Nat
        /\ PutRequests(ini.requests, requests) \in Nat
    <3>1. PutRequests(ini.requests, requests) \in 0 .. MaxRequest - 1
      BY <1>r, PutRequestsIs
    <3> QED BY <1>r, <3>1
  <2>3. /\ status = "IDLE" /\ status' = "QUIT"
        /\ ini' = [key |-> command_key, result |-> result,
                   requests |-> PutRequests(ini.requests, requests)]
        /\ requests' = requests - (ini'.requests - ini.requests)
    BY <1>2 DEF Dump
  <2>4. /\ ini'.key = command_key /\ ini'.result = result
        /\ ini'.requests = PutRequests(ini.requests, requests)
    BY <2>3
  <2>5. Key' = Key /\ Outcome' = Outcome
    BY <2>3, <2>4 DEF Key, Outcome
  <2>6. Pending' = Pending
    BY <2>2, <2>3, <2>4 DEF Pending
  <2> QED BY <1>2, <2>1, <2>5, <2>6, NamedStays DEF Dump
<1>3. CASE LoopExit
  <2>1. Live' \subseteq Live /\ Reporting' = Reporting
    BY <1>3, EndedOnce DEF LoopExit
  <2>2. /\ status = "QUIT" /\ status' = "STOP" /\ ini' = ini
        /\ requests = 0 /\ requests' = 0
    BY <1>3 DEF LoopExit, Ended, FilesInv, Filed
  <2>3. Key' = Key /\ Outcome' = Outcome /\ Pending' = Pending
    BY <2>2 DEF Key, Outcome, Pending
  <2> QED BY <1>3, <2>1, <2>3, NamedStays DEF LoopExit, Ended
<1>4. CASE Crash
  <2>1. Live' \subseteq Live /\ Reporting' = Reporting
    BY <1>4, EndedOnce DEF Crash
  <2>2. /\ status' = "STOP" /\ ini' = EmptyFile /\ requests' = 0
        /\ UNCHANGED <<asked, awaited, overlapped, reports>> /\ crashed'
    BY <1>4 DEF Crash, Ended, FilesInv, Filed
  <2>3. Key' = 0 /\ Outcome' = 0 /\ Pending' = 0
    BY <2>2 DEF Key, Outcome, Pending, EmptyFile
  <2>4. Named'
    BY <2>1, <2>2, <2>3 DEF NamedInv, Named
  <2> QED BY <2>2, <2>4, ReportsStay DEF NamedInv
<1>5. ASSUME NEW k \in Kind, SetTransferComplete(k) PROVE NamedInv'
  BY <1>5, CompleteNamed
<1>6. ASSUME NEW k \in Kind, PutRequest(k) PROVE NamedInv'
  BY <1>6, PutRequestNamed
<1>7. ASSUME NEW k \in Kind, Start(k) PROVE NamedInv'
  <2>1. client[k].step = "request" /\ client' = [client EXCEPT ![k] = NoReport]
    BY <1>7 DEF Start
  <2>2. ASSUME NEW l \in Kind
        PROVE  \/ client'[l] = client[l]
               \/ client[l].step # "result" /\ client'[l].step # "result"
    BY <2>1 DEF TypeOK, NoReport
  <2>3. Distinct(task_queue') /\ Ids(task_queue') \subseteq Queued
    BY <1>0, <1>7, PutOther DEF Start
  <2>4. UNCHANGED <<running, asked, puts>>
    BY <1>7 DEF Start
  <2>5. Live' \subseteq Live /\ Reporting' = Reporting
    BY <2>2, <2>3, <2>4, OnceStays
  <2> QED BY <1>7, <2>5, NamedStays DEF Start, Key, Outcome, Pending
<1>8. CASE OtherReport
  <2>1. Distinct(task_queue') /\ Ids(task_queue') \subseteq Queued
    BY <1>0, <1>8, PutOther DEF OtherReport
  <2>2. UNCHANGED <<running, client, asked, puts>>
    BY <1>8 DEF OtherReport
  <2>3. Live' \subseteq Live /\ Reporting' = Reporting
    BY <2>1, <2>2, OnceStays
  <2> QED BY <1>8, <2>3, NamedStays DEF OtherReport, Key, Outcome, Pending
<1>9. CASE PickTask \/ SessionExecute
  <2>1. /\ UNCHANGED <<slots, requests, ini, client, asked, awaited, overlapped,
                       reports, puts, crashed>>
        /\ status \notin {"STOP", "QUIT"} /\ status' \notin {"STOP", "QUIT"}
    BY <1>9 DEF PickTask, SessionExecute
  <2>2. Live' \subseteq Live /\ Reporting' = Reporting
    <3>1. CASE task_queue = <<>>
      <4>1. UNCHANGED <<running, task_queue>>
        BY <1>9, <3>1 DEF PickTask, SessionExecute
      <4> QED BY <2>1, <4>1, SameLive
    <3>2. CASE task_queue # <<>>
      BY <1>9, <2>1, <3>2, ExecuteOnce DEF PickTask, SessionExecute
    <3> QED BY <3>1, <3>2
  <2> QED BY <2>1, <2>2, NamedStays DEF Key, Outcome, Pending
<1>10. CASE SessionTransferComplete
  BY <1>10, SendNamed
<1>11. ASSUME NEW k \in Kind, RpcTransfer(k) PROVE NamedInv'
  <2>1. /\ Asks /\ asked' = asked + 1 /\ asked' \in Id /\ asked \in Nat
        /\ UNCHANGED <<requests, ini, running, client, reports, crashed>>
        /\ task_queue' = Put(task_queue, k, asked') /\ command_key' = asked'
        /\ awaited' = awaited \cup {asked'} /\ status' \in {"EXECUTE", "IDLE"}
    BY <1>11, AskType DEF RpcTransfer, Stored, Answered
  <2>2. Ids(task_queue') \subseteq Queued \cup {asked'}
    <3>1. task_queue \in Seq(Task) /\ Len(task_queue) < MaxTask
      BY QueueType
    <3> QED BY <2>1, <3>1, PutIds DEF Queued
  <2>3. Queued' \subseteq Queued \cup {asked'}
    BY <2>2 DEF Queued
  <2>4. Working' = Working /\ Reporting' = Reporting
    BY <2>1 DEF Working, Reporting
  <2>5. Live' \subseteq Live \cup {asked'}
    BY <2>3, <2>4 DEF Live
  <2>6. Named'
    BY <2>1, <2>4, <2>5, AskNamed
  <2>7. overlapped => overlapped'
    BY <2>1 DEF Asks
  <2> QED BY <2>1, <2>6, <2>7, ReportsStay DEF NamedInv
<1>12. ASSUME NEW k \in Kind, NEW good, RpcTransferRefused(k, good)
       PROVE  NamedInv'
  <2>1. /\ Asks /\ (overlapped => overlapped')
        /\ UNCHANGED <<requests, ini, running, client, reports, crashed,
                       task_queue, puts>>
        /\ awaited' \in {awaited, awaited \cup {asked'}}
    BY <1>12 DEF RpcTransferRefused, Answered, Asks
  <2>2. Live' \subseteq Live /\ Reporting' = Reporting
    BY <2>1 DEF Live, Queued, Working, Reporting
  <2>3. Named'
    BY <2>1, <2>2, AskNamed
  <2> QED BY <2>1, <2>3, ReportsStay DEF NamedInv
<1>13. CASE RpcReboot
  <2>1. /\ Asks /\ (overlapped => overlapped') /\ asked' = asked + 1
        /\ UNCHANGED <<requests, ini, running, client, reports, crashed, puts>>
        /\ awaited' = awaited /\ asked' \in Id
    BY <1>13, AskType DEF RpcReboot, Asks
  <2>2. Distinct(task_queue') /\ Ids(task_queue') \subseteq Queued
    BY <1>13, <2>1, PutOther DEF RpcReboot
  <2>3. Live' \subseteq Live /\ Reporting' = Reporting
    BY <2>1, <2>2, OnceStays
  <2>4. Named'
    BY <2>1, <2>3, AskNamed
  <2> QED BY <2>1, <2>4, ReportsStay DEF NamedInv
<1>14. CASE ServiceStop \/ UNCHANGED vars
  <2>1. UNCHANGED <<status, slots, requests, ini, task_queue, running, client,
                    asked, awaited, overlapped, reports, puts, crashed>>
    BY <1>14 DEF ServiceStop, vars
  <2>2. Live' \subseteq Live /\ Reporting' = Reporting
    BY <2>1, SameLive
  <2> QED BY <2>1, <2>2, NamedStays DEF Key, Outcome, Pending
<1>15. CASE SessionInform \/ SessionEmpty \/ AcsHasNoMore
  <2>1. /\ UNCHANGED <<slots, requests, ini, task_queue, running, client, asked,
                       awaited, overlapped, reports, puts, crashed>>
        /\ status \notin {"STOP", "QUIT"} /\ status' \notin {"STOP", "QUIT"}
    BY <1>15 DEF SessionInform, SessionEmpty, AcsHasNoMore
  <2>2. Live' \subseteq Live /\ Reporting' = Reporting
    BY <2>1, SameLive
  <2> QED BY <2>1, <2>2, NamedStays DEF Key, Outcome, Pending
<1> QED BY <1>1, <1>2, <1>3, <1>4, <1>5, <1>6, <1>7, <1>8, <1>9, <1>10, <1>11,
           <1>12, <1>13, <1>14, <1>15 DEF Next

(* An ACS that waits for each TransferComplete is told the key and the     *)
(* result of one and the same transfer; Named says why: what it waits for  *)
(* is its last RPC, and nothing older is live or pending.                  *)
THEOREM ReportsAgree == Spec => []ReportNamesTransfer
<1>1. Init => NamedInv
  <2> SUFFICES ASSUME Init PROVE NamedInv
    OBVIOUS
  <2>1. Live = {} /\ Reporting = {}
    BY EmptyOnce DEF Init, Live, Queued, Working, Reporting, NoReport
  <2>2. Pending = 0 /\ ~(Pending > 0)
    BY DEF Init, Pending, EmptyFile
  <2>3. Named
    BY <2>1, <2>2 DEF Init, Named
  <2> QED BY <2>3 DEF Init, NamedInv, ReportNamesTransfer
<1>2. NamedInv => ReportNamesTransfer
  BY DEF NamedInv
<1> QED BY <1>1, <1>2, StepNamed, TypeCorrect, CountsHold, PTL DEF Spec
=============================================================================
