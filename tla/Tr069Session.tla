---------------------------- MODULE Tr069Session ----------------------------
(***************************************************************************)
(* One session with the ACS (tr069_session_main): a loop over the session  *)
(* status, one action per turn.  A send is one HTTP exchange: it fails, or *)
(* the reply of the ACS replaces whatever recv_buff held.  Nothing else    *)
(* runs in the process until the session is over.                          *)
(***************************************************************************)
EXTENDS SessionOutcome

CONSTANTS
  MaxRequest,  \* TR069_MAX_REQUEST_NUM
  MaxRpc,      \* the RPCs that the ACS asks for in one session, at most
  Queues       \* the task queues that a session may start with

ASSUME SessionAssumption == /\ MaxRequest \in Nat \ {0}
                            /\ MaxRpc \in Nat
                            /\ \A q \in Queues : q \in Seq(Task) /\ Len(q) < MaxTask

(* Only an RPC puts a diagnosis or a factory reset (tr069_rpc.c:1048, 3020, *)
(* 3027), in this session or in an earlier one.                             *)
Askable(t) == /\ t \in {"PING", "TRACERT"} => Asked({"PING", "TRACERT"})
              /\ t = "FACTORY_RESET" => Asked({"FACTORY_RESET"})

ASSUME QueuesAssumption == \A q \in Queues : \A i \in 1 .. Len(q) : Askable(q[i])

VARIABLES
  status,          \* session_handle->status
  req_to_acs,      \* what was built last: it decides how a reply is read
  recv,            \* recv_buff: the reply to the last send
  task_queue,      \* tasks, each with the number of the RPC that queued it
  requests,        \* TransferComplete requests in the request queue
  set_param_flag,
  unsaved,         \* a value was set that the config process has not saved
  asked,           \* history: RPCs the ACS has sent
  dealt,           \* history: the RPCs that were dealt with, in order
  answered,        \* history: RPCs whose response or fault was sent
  executed,        \* history: the RPCs of the tasks that were executed
  diag, reset,     \* history: DIAGNOSTICS_COMPLETE, FirstBoot were set
  queue0, requests0   \* history: the queues when the session began

history == <<asked, dealt, answered, executed, diag, reset, queue0, requests0>>
vars == <<status, req_to_acs, recv, task_queue, requests, set_param_flag,
          unsaved, history>>

Running == status # "STOP"

(* A reply: RPCs of the ACS are numbered and name the tasks they ask for.   *)
Rpcs(n) == [kind : {"RPC"}, id : {n}, tasks : RpcTasks \cup {<<>>}]
Reply(kind) == [kind |-> kind, id |-> 0, tasks |-> <<>>]
Nothing == Reply("NONE")

TypeOK ==
  /\ status \in {"STOP", "INFORM", "REQUEST", "RESPONSE", "EXECUTE"}
  /\ req_to_acs \in {"NUMBER", "INFORM", "TRANSFER_COMPLETE", "EMPTY"}
  /\ recv \in {Reply(k) : k \in {"NONE", "OK", "RETRY", "BAD", ""}}
              \cup UNION {Rpcs(n) : n \in 1 .. MaxRpc}
  /\ task_queue \in Seq([task : Task, rpc : 0 .. MaxRpc])
  /\ Len(task_queue) < MaxTask
  /\ requests \in 0 .. MaxRequest - 1
  /\ {set_param_flag, unsaved, diag, reset} \subseteq BOOLEAN
  /\ asked \in 0 .. MaxRpc
  /\ dealt \in Seq(1 .. MaxRpc)
  /\ answered \subseteq 1 .. MaxRpc
  /\ executed \subseteq 0 .. MaxRpc
  /\ queue0 \in Queues
  /\ requests0 \in 0 .. MaxRequest - 1

Tagged(ts, n) == [i \in 1 .. Len(ts) |-> [task |-> ts[i], rpc |-> n]]
Untagged(q) == [i \in 1 .. Len(q) |-> q[i].task]

Init ==
  /\ status = "INFORM"
  /\ req_to_acs = "NUMBER"
  /\ recv = Nothing
  /\ queue0 \in Queues
  /\ requests0 \in 0 .. MaxRequest - 1
  /\ task_queue = Tagged(queue0, 0)
  /\ requests = requests0
  /\ set_param_flag = FALSE
  /\ unsaved = FALSE
  /\ asked = 0
  /\ dealt = <<>>
  /\ answered = {}
  /\ executed = {}
  /\ diag = FALSE
  /\ reset = FALSE
-----------------------------------------------------------------------------
(* FINISH_EXIT.                                                             *)
Finish(flag, dirty) == /\ status' = "STOP"
                       /\ unsaved' = (dirty /\ ~flag)

(* The transport gave up.                                                   *)
SendFails(flag, dirty) == /\ Finish(flag, dirty)
                          /\ recv' = Nothing
                          /\ UNCHANGED asked

Receive(r, next) == /\ recv' = r
                    /\ asked' = IF r.kind = "RPC" THEN r.id ELSE asked
                    /\ status' = next

(* What the ACS says when it has the turn: an RPC, or nothing more.         *)
Turn == {Reply("")} \cup (IF asked < MaxRpc THEN Rpcs(asked + 1) ELSE {})

Kept == UNCHANGED <<set_param_flag, dealt, answered, executed, diag, reset,
                    queue0, requests0>>
-----------------------------------------------------------------------------
InformAffirmed ==
  /\ status = "INFORM"
  /\ req_to_acs' = "INFORM"
  /\ Receive(Reply("OK"), "REQUEST")
  /\ UNCHANGED <<task_queue, requests, unsaved>> /\ Kept

InformRetry ==
  /\ status = "INFORM"
  /\ req_to_acs' = "INFORM"
  /\ Receive(Reply("RETRY"), "INFORM")
  /\ UNCHANGED <<task_queue, requests, unsaved>> /\ Kept

InformBreaks ==
  /\ status = "INFORM"
  /\ req_to_acs' = "INFORM"
  /\ \/ SendFails(set_param_flag, unsaved)
     \/ /\ Finish(set_param_flag, unsaved)
        /\ recv' = Reply("BAD")
        /\ UNCHANGED asked
  /\ UNCHANGED <<task_queue, requests>> /\ Kept

(* Mutant of RequestTransferComplete: the request is left in the queue.     *)
RequestPeeked ==
  /\ status = "REQUEST"
  /\ requests > 0
  /\ req_to_acs' = "TRANSFER_COMPLETE"
  /\ Receive(Reply("OK"), "REQUEST")
  /\ UNCHANGED <<task_queue, requests, unsaved>> /\ Kept

(* The reply to TransferComplete is not looked at.                          *)
RequestTransferComplete ==
  /\ status = "REQUEST"
  /\ requests > 0
  /\ requests' = requests - 1
  /\ req_to_acs' = "TRANSFER_COMPLETE"
  /\ \/ SendFails(set_param_flag, unsaved)
     \/ /\ \E k \in {"OK", "RETRY", "BAD"} : Receive(Reply(k), "REQUEST")
        /\ UNCHANGED unsaved
  /\ UNCHANGED task_queue /\ Kept

(* Mutant of RequestEmpty: requests are still pending.                      *)
RequestEmptyFirst ==
  /\ status = "REQUEST"
  /\ req_to_acs' = "EMPTY"
  /\ \E r \in Turn : Receive(r, "RESPONSE")
  /\ UNCHANGED <<task_queue, requests, unsaved>> /\ Kept

RequestEmpty ==
  /\ status = "REQUEST"
  /\ requests = 0
  /\ req_to_acs' = "EMPTY"
  /\ \/ SendFails(set_param_flag, unsaved)
     \/ /\ \E r \in Turn : Receive(r, "RESPONSE")
        /\ UNCHANGED unsaved
  /\ UNCHANGED <<task_queue, requests>> /\ Kept

(* The ACS has nothing more to ask: an empty reply is not SOAP, and neither *)
(* is an RPC a response to the request that was sent last.                  *)
ResponseBreaks ==
  /\ status = "RESPONSE"
  /\ recv.kind # "RPC" \/ req_to_acs # "EMPTY"
  /\ Finish(set_param_flag, unsaved)
  /\ UNCHANGED <<req_to_acs, recv, task_queue, requests, asked>> /\ Kept

Deals == /\ status = "RESPONSE"
         /\ recv.kind = "RPC"
         /\ req_to_acs = "EMPTY"
         /\ dealt' = Append(dealt, recv.id)

(* Mutant of ResponseFault: nothing is sent, so nothing new is received.    *)
ResponseFaultUnsent ==
  /\ Deals
  /\ UNCHANGED <<status, req_to_acs, recv, task_queue, requests, set_param_flag,
                 unsaved, asked, answered, executed, diag, reset, queue0, requests0>>

(* A fault in dealing with the RPC (unknown, or invalid arguments).         *)
ResponseFault ==
  /\ Deals
  /\ \/ SendFails(set_param_flag, unsaved) /\ UNCHANGED answered
     \/ /\ \E r \in Turn : Receive(r, "RESPONSE")
        /\ answered' = answered \cup {recv.id}
        /\ UNCHANGED unsaved
  /\ UNCHANGED <<req_to_acs, task_queue, requests, set_param_flag, executed,
                 diag, reset, queue0, requests0>>

(* Not even the fault could be built.                                       *)
ResponseFatal ==
  /\ Deals
  /\ Finish(set_param_flag, unsaved)
  /\ UNCHANGED <<req_to_acs, recv, task_queue, requests, set_param_flag, asked,
                 answered, executed, diag, reset, queue0, requests0>>

(* The RPC is dealt with, its tasks are queued, then its response is sent.  *)
(* SetParameterValues queues diagnoses, and it may have set a value.        *)
Diagnoses == {"TRACERT", "PING", "SPEED_TEST"}
Sets(ts) == IF \A i \in 1 .. Len(ts) : ts[i] \in Diagnoses THEN BOOLEAN ELSE {FALSE}

(* Mutant of ResponseOk: its tasks are executed before the response.        *)
ResponseOkUnsent ==
  /\ Deals
  /\ task_queue' = PutTasks(task_queue, Tagged(recv.tasks, recv.id))
  /\ status' = "EXECUTE"
  /\ UNCHANGED <<req_to_acs, recv, requests, set_param_flag, unsaved, asked,
                 answered, executed, diag, reset, queue0, requests0>>

ResponseOk ==
  /\ Deals
  /\ task_queue' = PutTasks(task_queue, Tagged(recv.tasks, recv.id))
  /\ \E set \in Sets(recv.tasks) :
       /\ set_param_flag' = (set_param_flag \/ set)
       /\ \/ SendFails(set_param_flag', unsaved \/ set) /\ UNCHANGED answered
          \/ /\ \E r \in Turn : Receive(r, "EXECUTE")
             /\ answered' = answered \cup {recv.id}
             /\ unsaved' = (unsaved \/ set)
  /\ UNCHANGED <<req_to_acs, requests, executed, diag, reset, queue0, requests0>>

(* Put SESSION, as a diagnosis does, or put nothing.                        *)
ExecuteTask ==
  /\ status = "EXECUTE"
  /\ task_queue # <<>>
  /\ LET t == Head(task_queue) IN
     /\ executed' = executed \cup {t.rpc}
     /\ reset' = (reset \/ t.task = "FACTORY_RESET")
     /\ \/ /\ t.task \in {"PING", "TRACERT"}
           /\ diag' = TRUE
           /\ task_queue' = PutTasks(Tail(task_queue), Tagged(<<"SESSION">>, 0))
        \/ /\ task_queue' = Tail(task_queue)
           /\ UNCHANGED diag
  /\ UNCHANGED <<status, req_to_acs, recv, requests, set_param_flag, unsaved,
                 asked, dealt, answered, queue0, requests0>>

(* Mutant of ExecuteDone: it does not wait for the last task.               *)
ExecuteDoneEarly ==
  /\ status = "EXECUTE"
  /\ status' = "REQUEST"
  /\ UNCHANGED <<req_to_acs, recv, task_queue, requests, set_param_flag, unsaved,
                 history>>

ExecuteDone ==
  /\ status = "EXECUTE"
  /\ task_queue = <<>>
  /\ status' = "REQUEST"
  /\ UNCHANGED <<req_to_acs, recv, task_queue, requests, set_param_flag, unsaved,
                 history>>
-----------------------------------------------------------------------------
Next == \/ InformAffirmed \/ InformRetry \/ InformBreaks
        \/ RequestTransferComplete \/ RequestEmpty
        \/ ResponseBreaks \/ ResponseFault \/ ResponseFatal \/ ResponseOk
        \/ ExecuteTask \/ ExecuteDone

Spec == Init /\ [][Next]_vars

(* A send returns (libcurl has a time-out) and the loop turns.              *)
FairSpec == Spec /\ WF_vars(Next)
-----------------------------------------------------------------------------
(* No task of an RPC is executed before its response is on its way: a       *)
(* reboot or a reset never cuts off the answer that announces it, and a     *)
(* task whose answer failed is left to the control manager                  *)
(* (tr069_session.c:291-302, put in tr069_rpc.c:1048).                      *)
ExecutedWasAnswered == executed \subseteq answered \cup {0}

(* Each RPC is dealt with at most once and in the order of the ACS: no turn *)
(* of the loop finds an old RPC in recv_buff (tr069_session.c:285-317).     *)
DealtOnceInOrder == \A i, j \in 1 .. Len(dealt) : i < j => dealt[i] < dealt[j]

(* While an RPC is dealt with or executed, all of the device's own requests *)
(* have been sent and the last word was the empty request, so that the RPC  *)
(* is not read as the response to one of them (tr069_rpc.c:536).            *)
AcsHasTurn ==
  status \in {"RESPONSE", "EXECUTE"} => requests = 0 /\ req_to_acs = "EMPTY"

(* However a session ends, the values that it set have been saved.          *)
EndsSaved == ~Running => ~unsaved

(* Types, whose turn it is, and what an end leaves behind.                  *)
SessionInv == TypeOK /\ AcsHasTurn /\ EndsSaved

(* The session ends as the control manager expects (Tr069Control has the    *)
(* same outcomes): nothing half drained, no diagnosis without a drain, no   *)
(* RPC before all requests, no tasks left but those of one RPC.             *)
Promise == INSTANCE SessionPromise WITH
  open <- Running,
  task_queue <- IF Running THEN queue0 ELSE Untagged(task_queue),
  requests <- IF Running THEN requests0 ELSE requests,
  diag <- diag /\ ~Running,
  reset <- reset /\ ~Running

EndsAsPromised == Promise!Spec

(* A session comes to its end unless the ACS asks for a retry of the Inform *)
(* for ever: tasks that put tasks and requests do not keep it in the loop   *)
(* (tr069_session.c:157-449).                                               *)
RetriesCease == <>[][~InformRetry]_vars
Ends == RetriesCease => <>(~Running)

(* "receive rpc request and send rpc response" (tr069_session.h:26): while  *)
(* the session goes on, no RPC is overwritten before it was dealt with.     *)
EveryRpcDealtWith ==
  [][recv.kind = "RPC" /\ recv' # recv /\ Running' =>
       \E i \in 1 .. Len(dealt') : dealt'[i] = recv.id]_vars
=============================================================================
