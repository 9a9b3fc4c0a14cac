--------------------------- MODULE SessionOutcome ---------------------------
(***************************************************************************)
(* What a session with the ACS may leave behind, as the control manager    *)
(* sees it: the contract between tr069_session_main and its caller.        *)
(***************************************************************************)
EXTENDS Integers, Sequences

CONSTANTS
  RpcTasks,  \* the task lists that one RPC of the ACS may queue
  MaxTask    \* TR069_MAX_TASK_NUM

Rpc == {"REBOOT", "FACTORY_RESET", "DOWNLOAD", "UPLOAD",
        "PING", "TRACERT", "SPEED_TEST"}
Task == Rpc \cup {"SESSION"}

ASSUME OutcomeAssumption == /\ RpcTasks \subseteq Seq(Rpc)
                            /\ MaxTask \in Nat /\ MaxTask >= 2

(* A put into a full list is refused and forgotten.                         *)
Bounded(s, n) == IF Len(s) <= n THEN s ELSE SubSeq(s, 1, n)

PutTasks(q, ts) == Bounded(q \o ts, MaxTask - 1)

Asked(ts) == \E l \in RpcTasks : \E i \in 1 .. Len(l) : l[i] \in ts

(* The session executed every task it found in the queue, or it never came  *)
(* to that (drained); a diagnosis among them set its event without a token  *)
(* (diag), a factory reset set FirstBoot (reset); the tasks of an RPC whose *)
(* response could not be sent stay queued (left); of n pending requests it  *)
(* picked some (sent), and all of them before it dealt with any RPC.        *)
Outcomes(n) ==
  {o \in [drained : BOOLEAN,
          diag : {FALSE, Asked({"PING", "TRACERT"})},
          reset : {FALSE, Asked({"FACTORY_RESET"})},
          left : RpcTasks \cup {<<>>},
          sent : 0 .. n] :
     /\ o.diag \/ o.reset => o.drained
     /\ o.drained \/ o.left # <<>> => o.sent = n}

QueueAfter(o, q) == PutTasks(IF o.drained THEN <<>> ELSE q, o.left)
=============================================================================
