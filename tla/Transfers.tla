----------------------------- MODULE Transfers -----------------------------
(***************************************************************************)
(* File transfers: the ACS asks for a Download or an Upload with a command *)
(* key, another program does the transfer and reports its result, and      *)
(* TransferComplete tells the ACS.  Between the four there is one slot for *)
(* the command key, one for the arguments of each kind and one for the     *)
(* result, whatever the number of transfers; they survive a clean stop in  *)
(* tr069.ini.  RPCs are numbered, and a slot holds the number of the RPC   *)
(* that wrote it (0 when empty).                                           *)
(***************************************************************************)
EXTENDS Integers, Sequences, FiniteSets

CONSTANTS
  MaxRpc,      \* the RPCs that the ACS asks for, at most
  MaxTask,     \* TR069_MAX_TASK_NUM
  MaxRequest,  \* TR069_MAX_REQUEST_NUM
  MayCrash     \* TRUE if power may be lost

ASSUME TransfersAssumption ==
  /\ MaxRpc \in Nat
  /\ MaxTask \in Nat \ {0}
  /\ MaxRequest \in Nat /\ MaxRequest > MaxRpc
  /\ MayCrash \in BOOLEAN

Id == 0 .. MaxRpc
Kind == {"DOWNLOAD", "UPLOAD"}

VARIABLES
  status,       \* of the control manager, or of the session while it is open
  finish_flag,  \* the process was told to stop
  command_key,  \* event.command_key
  argument,     \* download_argument, upload_argument
  result,       \* transfer_stime, transfer_ctime, transfer_result
  requests,     \* TransferComplete requests in the request queue
  task_queue,   \* tasks, each with the number of the RPC that queued it
  ini,          \* tr069_status_ini
  disk,         \* tr069.ini
  running,      \* the transfers that the other programs are doing
  client,       \* how far the program of each kind is with its report
  asked,        \* history: RPCs the ACS has sent
  awaited,      \* history: transfers that the ACS waits for
  overlapped,   \* history: the ACS asked while it waited
  started,      \* history: transfers that were set to work
  reports,      \* history: what the TransferCompletes said that were sent
  puts, built,  \* history: requests put, TransferCompletes built
  lost, crashed \* history: a response was lost, the power was lost

slots == <<command_key, argument, result>>
history == <<asked, awaited, overlapped, started, reports, puts, built, lost, crashed>>
vars == <<status, finish_flag, slots, requests, task_queue, ini, disk, running,
          client, history>>

Argument == [url : Id, login : Id]
Transfer == [id : Id, kind : Kind, url : Id, login : Id]
File == [key : Id, result : Id, requests : 0 .. MaxRequest - 1]
EmptyFile == [key |-> 0, result |-> 0, requests |-> 0]
NoReport == [step |-> "idle", id |-> 0]

TypeOK ==
  /\ status \in {"STOP", "IDLE", "QUIT", "INFORM", "REQUEST", "RESPONSE", "EXECUTE"}
  /\ {finish_flag, lost, crashed, overlapped} \subseteq BOOLEAN
  /\ command_key \in Id /\ result \in Id
  /\ argument \in [Kind -> Argument]
  /\ requests \in 0 .. MaxRequest - 1
  /\ task_queue \in Seq([task : Kind \cup {"REBOOT", "SESSION"}, id : Id])
  /\ Len(task_queue) < MaxTask
  /\ ini \in File /\ disk \in File
  /\ running \subseteq Transfer /\ started \subseteq Transfer
  /\ client \in [Kind -> [step : {"idle", "result", "request"}, id : Id]]
  /\ asked \in Id /\ awaited \subseteq Id
  /\ reports \subseteq [key : Id, result : Id]
  /\ puts \in Nat /\ built \in Nat

Init ==
  /\ status = "STOP"
  /\ finish_flag = FALSE /\ lost = FALSE /\ crashed = FALSE /\ overlapped = FALSE
  /\ command_key = 0 /\ result = 0 /\ requests = 0
  /\ argument = [k \in Kind |-> [url |-> 0, login |-> 0]]
  /\ task_queue = <<>>
  /\ ini = EmptyFile /\ disk = EmptyFile
  /\ running = {} /\ started = {} /\ awaited = {} /\ reports = {}
  /\ client = [k \in Kind |-> NoReport]
  /\ asked = 0 /\ puts = 0 /\ built = 0
-----------------------------------------------------------------------------
(* A put into a full ring is refused.                                       *)
Put(q, t, n) == IF Len(q) < MaxTask - 1 THEN Append(q, [task |-> t, id |-> n]) ELSE q
PutRequests(m, n) == IF m + n < MaxRequest THEN m + n ELSE MaxRequest - 1

InMemory == status # "QUIT"             \* tr069_service_target_to_set
LoopFree == status \in {"IDLE", "QUIT"}   \* the loop may dispatch a handler

(* Mutant of Boot: the key is cleared before it is loaded.                  *)
BootKeyless ==
  /\ status = "STOP"
  /\ status' = "IDLE"
  /\ command_key' = 0
  /\ result' = disk.result
  /\ requests' = disk.requests
  /\ ini' = EmptyFile
  /\ disk' = EmptyFile
  /\ task_queue' = Put(<<>>, "SESSION", 0)
  /\ UNCHANGED <<finish_flag, argument, running, client, history>>

(* tr069.ini is loaded into memory and then cleared.                        *)
Boot ==
  /\ status = "STOP"
  /\ status' = "IDLE"
  /\ command_key' = disk.key
  /\ result' = disk.result
  /\ requests' = disk.requests
  /\ ini' = EmptyFile
  /\ disk' = EmptyFile
  /\ task_queue' = Put(<<>>, "SESSION", 0)
  /\ UNCHANGED <<finish_flag, argument, running, client, history>>

ServiceStop ==
  /\ status # "STOP"
  /\ finish_flag' = TRUE
  /\ UNCHANGED <<status, slots, requests, task_queue, ini, disk, running, client, history>>

(* Mutant of Dump: the requests that are pending are not written.           *)
DumpAnew ==
  /\ status = "IDLE" /\ finish_flag /\ task_queue = <<>>
  /\ status' = "QUIT"
  /\ ini' = [key |-> command_key, result |-> result, requests |-> ini.requests]
  /\ requests' = 0
  /\ UNCHANGED <<finish_flag, slots, task_queue, disk, running, client, history>>

(* No task and told to stop: requests are merged into what the dictionary   *)
(* holds, the slots replace what it holds.                                  *)
Dump ==
  /\ status = "IDLE" /\ finish_flag /\ task_queue = <<>>
  /\ status' = "QUIT"
  /\ ini' = [key |-> command_key, result |-> result,
             requests |-> PutRequests(ini.requests, requests)]
  /\ requests' = requests - (ini'.requests - ini.requests)
  /\ UNCHANGED <<finish_flag, slots, task_queue, disk, running, client, history>>

(* The process is gone; the programs that transfer go on, and one that was  *)
(* about to report starts its report again.                                 *)
Ended(f) ==
  /\ status' = "STOP"
  /\ finish_flag' = FALSE
  /\ command_key' = 0 /\ result' = 0 /\ requests' = 0
  /\ argument' = [k \in Kind |-> [url |-> 0, login |-> 0]]
  /\ task_queue' = <<>>
  /\ ini' = f /\ disk' = f
  /\ UNCHANGED <<running, client, asked, overlapped, awaited, started, reports, puts, built, lost>>

LoopExit == status = "QUIT" /\ Ended(ini) /\ UNCHANGED crashed

Crash == MayCrash /\ status # "STOP" /\ Ended(disk) /\ crashed' = TRUE
-----------------------------------------------------------------------------
(* Another report of the process or of a client asks for a session (one at  *)
(* a time, to bound the model).                                             *)
OtherReport ==
  /\ LoopFree
  /\ task_queue = <<>>
  /\ task_queue' = Put(task_queue, "SESSION", 0)
  /\ UNCHANGED <<status, finish_flag, slots, requests, ini, disk, running, client, history>>

(* A program ends its transfer and says so: set_transfer_complete,          *)
(* put_request, and set_event with start.                                   *)
SetTransferComplete(k) ==
  /\ LoopFree
  /\ client[k].step = "idle"
  /\ \E t \in running :
       /\ t.kind = k
       /\ running' = running \ {t}
       /\ client' = [client EXCEPT ![k] = [step |-> "result", id |-> t.id]]
       /\ IF InMemory
          THEN result' = t.id /\ UNCHANGED ini
          ELSE ini' = [ini EXCEPT !.result = t.id] /\ UNCHANGED result
  /\ UNCHANGED <<status, finish_flag, command_key, argument, requests, task_queue,
                 disk, history>>

PutRequest(k) ==
  /\ LoopFree
  /\ client[k].step = "result"
  /\ client' = [client EXCEPT ![k].step = "request"]
  /\ IF InMemory
     THEN requests' = PutRequests(requests, 1) /\ UNCHANGED ini
     ELSE ini' = [ini EXCEPT !.requests = PutRequests(@, 1)] /\ UNCHANGED requests
  /\ puts' = puts + 1
  /\ UNCHANGED <<status, finish_flag, slots, task_queue, disk, running, asked, overlapped,
                 awaited, started, reports, built, lost, crashed>>

(* The command key is not the program's to know: the one it passes is empty *)
(* and changes nothing.                                                     *)
Start(k) ==
  /\ LoopFree
  /\ client[k].step = "request"
  /\ client' = [client EXCEPT ![k] = NoReport]
  /\ task_queue' = Put(task_queue, "SESSION", 0)
  /\ UNCHANGED <<status, finish_flag, slots, requests, ini, disk, running, history>>
-----------------------------------------------------------------------------
(* The other program is set to work on the arguments that are there now.    *)
Execute(t) ==
  IF t.task \in Kind
  THEN LET w == [id |-> t.id, kind |-> t.task, url |-> argument[t.task].url,
                 login |-> argument[t.task].login]
       IN running' = running \cup {w} /\ started' = started \cup {w}
  ELSE UNCHANGED <<running, started>>

PickTask ==
  /\ status = "IDLE"
  /\ task_queue # <<>>
  /\ task_queue' = Tail(task_queue)
  /\ Execute(Head(task_queue))
  /\ \/ /\ Head(task_queue).task = "SESSION"
        /\ status' = "INFORM"
     \/ UNCHANGED status
  /\ UNCHANGED <<finish_flag, slots, requests, ini, disk, client, asked, overlapped, awaited,
                 reports, puts, built, lost, crashed>>

SessionInform ==
  /\ status = "INFORM"
  /\ status' \in {"REQUEST", "IDLE"}
  /\ UNCHANGED <<finish_flag, slots, requests, task_queue, ini, disk, running, client, history>>

(* TransferComplete is built of the slots as they are, and the key is       *)
(* forgotten; then it is sent, or the session is over.                      *)
SessionTransferComplete ==
  /\ status = "REQUEST"
  /\ requests > 0
  /\ requests' = requests - 1
  /\ built' = built + 1
  /\ command_key' = 0
  /\ \/ /\ reports' = reports \cup {[key |-> command_key, result |-> result]}
        /\ awaited' = awaited \ {result}
        /\ UNCHANGED status
     \/ /\ status' = "IDLE"
        /\ UNCHANGED <<reports, awaited>>
  /\ UNCHANGED <<finish_flag, argument, result, task_queue, ini, disk, running,
                 client, asked, overlapped, started, puts, lost, crashed>>

SessionEmpty ==
  /\ status = "REQUEST"
  /\ requests = 0
  /\ status' \in {"RESPONSE", "IDLE"}
  /\ UNCHANGED <<finish_flag, slots, requests, task_queue, ini, disk, running, client, history>>

AcsHasNoMore ==
  /\ status = "RESPONSE"
  /\ status' = "IDLE"
  /\ UNCHANGED <<finish_flag, slots, requests, task_queue, ini, disk, running, client, history>>

(* Whether an answer reaches the ACS; if it does not the session is over.   *)
(* The ACS waits for a transfer that it does not know to be refused.        *)
Answered(n, accepted, next) ==
  \/ /\ status' = next
     /\ awaited' = IF accepted THEN awaited \cup {n} ELSE awaited
     /\ UNCHANGED lost
  \/ /\ status' = "IDLE"
     /\ awaited' = awaited \cup {n}
     /\ lost' = TRUE

Asks == /\ status = "RESPONSE"
        /\ asked < MaxRpc
        /\ asked' = asked + 1
        /\ overlapped' = (overlapped \/ awaited # {})

(* tr069_rpc_download and tr069_rpc_upload: the first good arguments are    *)
(* stored as they are read, one that is refused ends it with a fault.       *)
Stored(k, good, n) ==
  /\ command_key' = IF good >= 1 THEN n ELSE command_key
  /\ argument' = [argument EXCEPT ![k] =
       [url |-> IF good >= 2 THEN n ELSE @.url,
        login |-> IF good >= 3 THEN n ELSE @.login]]

(* Mutant of RpcTransfer: the session goes on to the next RPC.              *)
RpcTransferDelayed(k) ==
  /\ Asks
  /\ Stored(k, 4, asked')
  /\ task_queue' = Put(task_queue, k, asked')
  /\ Answered(asked', TRUE, "RESPONSE")
  /\ UNCHANGED <<finish_flag, result, requests, ini, disk, running, client, started,
                 reports, puts, built, crashed>>

RpcTransfer(k) ==
  /\ Asks
  /\ Stored(k, 4, asked')
  /\ task_queue' = Put(task_queue, k, asked')
  /\ Answered(asked', TRUE, "EXECUTE")
  /\ UNCHANGED <<finish_flag, result, requests, ini, disk, running, client, started,
                 reports, puts, built, crashed>>

RpcTransferRefused(k, good) ==
  /\ Asks
  /\ Stored(k, good, asked')
  /\ Answered(asked', FALSE, "RESPONSE")
  /\ UNCHANGED <<finish_flag, result, requests, task_queue, ini, disk, running, client,
                 started, reports, puts, built, crashed>>

RpcReboot ==
  /\ Asks
  /\ command_key' = asked'
  /\ task_queue' = Put(task_queue, "REBOOT", asked')
  /\ \/ status' = "EXECUTE" /\ UNCHANGED lost
     \/ status' = "IDLE" /\ lost' = TRUE
  /\ UNCHANGED <<finish_flag, argument, result, requests, ini, disk, running, client,
                 awaited, started, reports, puts, built, crashed>>

SessionExecute ==
  /\ status = "EXECUTE"
  /\ IF task_queue = <<>>
     THEN status' = "REQUEST" /\ UNCHANGED <<task_queue, running, started>>
     ELSE /\ task_queue' = Tail(task_queue)
          /\ Execute(Head(task_queue))
          /\ UNCHANGED status
  /\ UNCHANGED <<finish_flag, slots, requests, ini, disk, client, asked, overlapped, awaited,
                 reports, puts, built, lost, crashed>>
-----------------------------------------------------------------------------
Next ==
  \/ Boot \/ ServiceStop \/ Dump \/ LoopExit \/ Crash \/ OtherReport
  \/ \E k \in Kind : SetTransferComplete(k) \/ PutRequest(k) \/ Start(k)
  \/ PickTask \/ SessionInform \/ SessionTransferComplete \/ SessionEmpty
  \/ AcsHasNoMore \/ RpcReboot \/ SessionExecute
  \/ \E k \in Kind : RpcTransfer(k) \/ \E good \in 0 .. 3 : RpcTransferRefused(k, good)

Spec == Init /\ [][Next]_vars
-----------------------------------------------------------------------------
(* An ACS that waits for each TransferComplete before it asks again is told *)
(* the key and the result of one and the same transfer, across refused      *)
(* RPCs, failed sessions and restarts; after a power loss the key may be    *)
(* missing, but it is never another's (tr069_control.c:194, tr069.c:334).   *)
ReportNamesTransfer ==
  ~overlapped => \A r \in reports : r.result # 0 =>
    \/ r.key = r.result
    \/ r.key = 0 /\ crashed

(* A transfer is done with the arguments of its own RPC and no other's,     *)
(* also when RPCs overlap and later ones are refused half-way, because a    *)
(* task is executed before the next RPC is read; only the task of an answer *)
(* that was lost waits in the queue while the slots change                  *)
(* (tr069_rpc.c:1370, tr069_session.c:362).                                 *)
OwnArguments ==
  ~lost => \A w \in started : w.url = w.id /\ w.login = w.id

(* A TransferComplete request that was put is sent once or is still queued, *)
(* in memory or in the file, whenever the process is stopped and started    *)
(* (tr069.c:236-255, 404-423).                                              *)
RequestsKept == ~crashed => puts = built + requests + ini.requests

(* Types, and no request lost or made up.                                   *)
TransfersInv == TypeOK /\ RequestsKept
=============================================================================
