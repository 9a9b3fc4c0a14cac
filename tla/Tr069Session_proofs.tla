------------------------ MODULE Tr069Session_proofs ------------------------
(***************************************************************************)
(* Theorems about one session, for any number of RPCs with any task lists  *)
(* and any queues to begin with: types, whose turn it is, what an end      *)
(* leaves behind, that a task runs after its answer, that RPCs are dealt   *)
(* with once and in order, and that the session implements its promise.    *)
(***************************************************************************)
EXTENDS Tr069Session, SequenceTheorems, TLAPS

Entry == [task : Task, rpc : 0 .. MaxRpc]

(* A value that was set and is not saved makes the end save it.            *)
FlagTells == unsaved => set_param_flag

(* While the session goes on, what is queued is answered.                  *)
QueueAnswered ==
  Running => \A i \in 1 .. Len(task_queue) : task_queue[i].rpc \in answered \cup {0}

(* What was dealt with is older than the RPC that is to be dealt with.     *)
DealtBefore ==
  /\ \A i \in 1 .. Len(dealt) : dealt[i] <= asked
  /\ status = "RESPONSE" /\ recv.kind = "RPC" =>
       recv.id = asked /\ \A i \in 1 .. Len(dealt) : dealt[i] < recv.id

IInv == /\ SessionInv /\ FlagTells /\ QueueAnswered /\ DealtBefore
        /\ ExecutedWasAnswered /\ DealtOnceInOrder

Received == {Reply(k) : k \in {"NONE", "OK", "RETRY", "BAD", ""}}
            \cup UNION {Rpcs(n) : n \in 1 .. MaxRpc}

-----------------------------------------------------------------------------
(* Lemmas about replies and lists of tasks.                                *)
LEMMA Kinds ==
  ASSUME NEW r \in Received, r.kind = "RPC"
  PROVE  r.id \in 1 .. MaxRpc /\ r.tasks \in Seq(Rpc)
<1>1. \A k \in {"NONE", "OK", "RETRY", "BAD", ""} : Reply(k).kind # "RPC"
  BY DEF Reply
<1>2. PICK n \in 1 .. MaxRpc : r \in Rpcs(n)
  BY <1>1 DEF Received
<1>3. r.id = n /\ r.tasks \in RpcTasks \cup {<<>>}
  BY <1>2 DEF Rpcs
<1>4. <<>> \in Seq(Rpc)
  OBVIOUS
<1> QED BY <1>3, <1>4, OutcomeAssumption

(* What the ACS says when it has the turn is a reply or the next RPC.      *)
LEMMA Turns ==
  ASSUME asked \in 0 .. MaxRpc, NEW r \in Turn
  PROVE  /\ r \in Received
         /\ r.kind = "RPC" => r.id = asked + 1 /\ asked + 1 \in 1 .. MaxRpc
<1>1. CASE r = Reply("")
  BY <1>1 DEF Received, Reply
<1>2. CASE asked < MaxRpc /\ r \in Rpcs(asked + 1)
  <2>1. asked + 1 \in 1 .. MaxRpc
    BY <1>2, SessionAssumption
  <2> QED BY <1>2, <2>1 DEF Received, Rpcs
<1> QED BY <1>1, <1>2 DEF Turn

(* The tasks of an RPC carry its number.                                   *)
LEMMA TaggedType ==
  ASSUME NEW ts \in Seq(Task), NEW n \in 0 .. MaxRpc
  PROVE  /\ Tagged(ts, n) \in Seq(Entry)
         /\ \A i \in 1 .. Len(Tagged(ts, n)) : Tagged(ts, n)[i].rpc = n
<1>1. Len(ts) \in Nat /\ \A i \in 1 .. Len(ts) : ts[i] \in Task
  OBVIOUS
<1> QED BY <1>1 DEF Tagged, Entry

(* put_task keeps the queue within its capacity, and what is in it was     *)
(* there or was put.                                                       *)
LEMMA PutEntries ==
  ASSUME NEW q \in Seq(Entry), NEW ts \in Seq(Entry), NEW R,
         \A i \in 1 .. Len(q) : q[i].rpc \in R,
         \A i \in 1 .. Len(ts) : ts[i].rpc \in R
  PROVE  /\ PutTasks(q, ts) \in Seq(Entry) /\ Len(PutTasks(q, ts)) < MaxTask
         /\ \A i \in 1 .. Len(PutTasks(q, ts)) : PutTasks(q, ts)[i].rpc \in R
<1> DEFINE u == q \o ts
           t == PutTasks(q, ts)
<1>1. /\ u \in Seq(Entry) /\ Len(u) = Len(q) + Len(ts)
      /\ \A i \in 1 .. Len(u) : u[i] = IF i <= Len(q) THEN q[i] ELSE ts[i - Len(q)]
  BY ConcatProperties
<1>2. MaxTask - 1 \in Nat /\ MaxTask \in Nat /\ Len(q) \in Nat /\ Len(ts) \in Nat
  BY OutcomeAssumption
<1>3. \A i \in 1 .. Len(u) : u[i].rpc \in R
  <2> SUFFICES ASSUME NEW i \in 1 .. Len(u) PROVE u[i].rpc \in R
    OBVIOUS
  <2>1. CASE i <= Len(q)
    BY <1>1, <1>2, <2>1
  <2>2. CASE ~ (i <= Len(q))
    <3>1. i - Len(q) \in 1 .. Len(ts)
      BY <1>1, <1>2, <2>2
    <3> QED BY <1>1, <2>2, <3>1
  <2> QED BY <2>1, <2>2
<1> HIDE DEF u
<1>4. t = IF Len(u) <= MaxTask - 1 THEN u ELSE SubSeq(u, 1, MaxTask - 1)
  BY DEF PutTasks, Bounded, u
<1> HIDE DEF t
<1>5. CASE Len(u) <= MaxTask - 1
  <2>1. t = u /\ Len(u) \in Nat
    BY <1>1, <1>4, <1>5
  <2> QED BY <1>1, <1>2, <1>3, <1>5, <2>1 DEF t
<1>6. CASE ~ (Len(u) <= MaxTask - 1)
  <2>1. \A i \in 1 .. MaxTask - 1 : u[i] \in Entry
    BY <1>1, <1>2, <1>6
  <2>2. /\ t \in Seq(Entry) /\ Len(t) = MaxTask - 1
        /\ \A i \in 1 .. Len(t) : t[i] = u[i]
    BY <1>1, <1>2, <1>4, <1>6, <2>1, SubSeqProperties
  <2>3. \A i \in 1 .. Len(t) : t[i].rpc \in R
    <3> SUFFICES ASSUME NEW i \in 1 .. Len(t) PROVE t[i].rpc \in R
      OBVIOUS
    <3>1. Len(u) \in Nat
      BY <1>1
    <3>2. i \in 1 .. Len(u)
      BY <1>2, <1>6, <2>2, <3>1
    <3> QED BY <1>3, <2>2, <3>2
  <2>4. Len(t) < MaxTask
    BY <1>2, <2>2
  <2> QED BY <2>2, <2>3, <2>4 DEF t
<1> QED BY <1>5, <1>6

(* pick_task takes one task and leaves the rest.                           *)
LEMMA TailEntries ==
  ASSUME NEW q \in Seq(Entry), q # <<>>, NEW R, \A i \in 1 .. Len(q) : q[i].rpc \in R
  PROVE  /\ Head(q) \in Entry /\ Head(q).rpc \in R
         /\ Tail(q) \in Seq(Entry) /\ Len(Tail(q)) < Len(q)
         /\ \A i \in 1 .. Len(Tail(q)) : Tail(q)[i].rpc \in R
<1>1. /\ Tail(q) \in Seq(Entry) /\ Len(Tail(q)) = Len(q) - 1
      /\ \A i \in 1 .. Len(Tail(q)) : Tail(q)[i] = q[i + 1]
      /\ Head(q) = q[1] /\ Len(q) \in Nat \ {0}
  BY HeadTailProperties, EmptySeq
<1>2. Head(q) \in Entry
  BY <1>1
<1> QED BY <1>1, <1>2

(* The type invariant with the sets of this module.                        *)
LEMMA Types ==
  TypeOK <=>
    /\ status \in {"STOP", "INFORM", "REQUEST", "RESPONSE", "EXECUTE"}
    /\ req_to_acs \in {"NUMBER", "INFORM", "TRANSFER_COMPLETE", "EMPTY"}
    /\ recv \in Received
    /\ task_queue \in Seq(Entry) /\ Len(task_queue) < MaxTask
    /\ requests \in 0 .. MaxRequest - 1
    /\ {set_param_flag, unsaved, diag, reset} \subseteq BOOLEAN
    /\ asked \in 0 .. MaxRpc
    /\ dealt \in Seq(1 .. MaxRpc)
    /\ answered \subseteq 1 .. MaxRpc
    /\ executed \subseteq 0 .. MaxRpc
    /\ queue0 \in Queues
    /\ requests0 \in 0 .. MaxRequest - 1
BY DEF TypeOK, Received, Entry
-----------------------------------------------------------------------------
(* The steps.                                                              *)
LEMMA InitHolds == Init => IInv
<1> SUFFICES ASSUME Init PROVE IInv
  OBVIOUS
<1>1. queue0 \in Seq(Task) /\ task_queue = Tagged(queue0, 0)
  BY SessionAssumption DEF Init
<1>2. 0 \in 0 .. MaxRpc
  BY SessionAssumption
<1>3. task_queue \in Seq(Entry) /\ \A i \in 1 .. Len(task_queue) : task_queue[i].rpc = 0
  BY <1>1, <1>2, TaggedType
<1>4. Len(task_queue) < MaxTask
  <2>1. Len(queue0) < MaxTask /\ Len(queue0) \in Nat
    BY <1>1, SessionAssumption DEF Init
  <2>2. Len(task_queue) = Len(queue0)
    BY <1>1, <2>1 DEF Tagged
  <2> QED BY <2>1, <2>2
<1>5. TypeOK
  <2>1. recv \in Received
    BY DEF Init, Received, Nothing
  <2>2. requests0 \in 0 .. MaxRequest - 1 /\ requests = requests0 /\ queue0 \in Queues
    BY DEF Init
  <2>3. /\ status = "INFORM" /\ req_to_acs = "NUMBER" /\ asked = 0
        /\ answered = {} /\ executed = {} /\ dealt = <<>>
        /\ ~set_param_flag /\ ~unsaved /\ ~diag /\ ~reset
        /\ {set_param_flag, unsaved, diag, reset} \subseteq BOOLEAN
    BY DEF Init
  <2>4. dealt \in Seq(1 .. MaxRpc)
    BY <2>3
  <2> QED BY <1>2, <1>3, <1>4, <2>1, <2>2, <2>3, <2>4, Types
<1> QED
  BY <1>3, <1>5 DEF Init, IInv, SessionInv, AcsHasTurn, EndsSaved, Running, FlagTells,
     QueueAnswered, DealtBefore, ExecutedWasAnswered, DealtOnceInOrder

(* An RPC that is dealt with comes after all that were.                    *)
LEMMA DealsInOrder ==
  ASSUME IInv, Deals
  PROVE  /\ recv \in Received /\ recv.kind = "RPC" /\ recv.id = asked
         /\ recv.id \in 1 .. MaxRpc /\ recv.tasks \in Seq(Rpc)
         /\ dealt' \in Seq(1 .. MaxRpc)
         /\ DealtOnceInOrder' /\ \A i \in 1 .. Len(dealt') : dealt'[i] <= asked
         /\ Running /\ requests = 0 /\ req_to_acs = "EMPTY"
<1>1. /\ status = "RESPONSE" /\ recv.kind = "RPC" /\ req_to_acs = "EMPTY"
      /\ dealt' = Append(dealt, recv.id)
  BY DEF Deals
<1>2. recv \in Received /\ dealt \in Seq(1 .. MaxRpc) /\ asked \in Int
  BY Types DEF IInv, SessionInv
<1>3. recv.id \in 1 .. MaxRpc /\ recv.tasks \in Seq(Rpc)
  BY <1>1, <1>2, Kinds
<1>4. recv.id = asked /\ \A i \in 1 .. Len(dealt) : dealt[i] < recv.id
  BY <1>1 DEF IInv, DealtBefore
<1>5. requests = 0 /\ Running
  BY <1>1 DEF IInv, SessionInv, AcsHasTurn, Running
<1>6. /\ dealt' \in Seq(1 .. MaxRpc) /\ Len(dealt') = Len(dealt) + 1
      /\ dealt'[Len(dealt) + 1] = recv.id
      /\ \A i \in 1 .. Len(dealt) : dealt'[i] = dealt[i]
      /\ Len(dealt) \in Nat
  BY <1>1, <1>2, <1>3, AppendProperties
<1>7. \A i \in 1 .. Len(dealt') : i \in 1 .. Len(dealt) \/ i = Len(dealt) + 1
  BY <1>6
<1>8. \A i \in 1 .. Len(dealt') : dealt'[i] <= asked
  <2> SUFFICES ASSUME NEW i \in 1 .. Len(dealt') PROVE dealt'[i] <= asked
    OBVIOUS
  <2>1. CASE i \in 1 .. Len(dealt)
    <3>1. dealt[i] \in 1 .. MaxRpc /\ dealt'[i] = dealt[i]
      BY <1>2, <1>6, <2>1, ElementOfSeq
    <3>2. dealt[i] < asked
      BY <1>4, <2>1
    <3> QED BY <1>2, <3>1, <3>2
  <2>2. CASE i = Len(dealt) + 1
    BY <1>2, <1>4, <1>6, <2>2
  <2> QED BY <1>7, <2>1, <2>2
<1>9. DealtOnceInOrder'
  <2> SUFFICES ASSUME NEW i \in 1 .. Len(dealt'), NEW j \in 1 .. Len(dealt'), i < j
               PROVE  dealt'[i] < dealt'[j]
    BY DEF DealtOnceInOrder
  <2>1. i \in 1 .. Len(dealt)
    BY <1>6, <1>7
  <2>2. CASE j \in 1 .. Len(dealt)
    BY <1>6, <2>1, <2>2 DEF IInv, DealtOnceInOrder
  <2>3. CASE j = Len(dealt) + 1
    BY <1>4, <1>6, <2>1, <2>3
  <2> QED BY <1>7, <2>2, <2>3
<1> QED BY <1>1, <1>2, <1>3, <1>4, <1>5, <1>6, <1>8, <1>9

(* What is left to show of a step that ends the session.                   *)
LEMMA EndHolds ==
  ASSUME IInv, TypeOK', NEW dirty, Finish(set_param_flag', dirty), dirty => set_param_flag',
         UNCHANGED <<executed, answered, asked>>, UNCHANGED dealt \/ Deals
  PROVE  IInv'
<1>1. status' = "STOP" /\ ~unsaved'
  BY DEF Finish
<1>2. AcsHasTurn' /\ EndsSaved' /\ FlagTells' /\ QueueAnswered'
  BY <1>1 DEF AcsHasTurn, EndsSaved, FlagTells, QueueAnswered, Running
<1>3. ExecutedWasAnswered'
  BY DEF IInv, ExecutedWasAnswered
<1>4. DealtOnceInOrder' /\ DealtBefore'
  <2>1. CASE UNCHANGED dealt
    BY <1>1, <2>1 DEF IInv, DealtOnceInOrder, DealtBefore
  <2>2. CASE Deals
    BY <1>1, <2>2, DealsInOrder DEF DealtBefore
  <2> QED BY <2>1, <2>2
<1> QED BY <1>2, <1>3, <1>4 DEF IInv, SessionInv

(* What is left to show of a step that receives something and goes on.     *)
LEMMA GoHolds ==
  ASSUME IInv, TypeOK', NEW r, NEW next, Receive(r, next), next # "STOP",
         asked \in 0 .. MaxRpc,
         r.kind = "RPC" => r \in Turn,
         AcsHasTurn', FlagTells', QueueAnswered', ExecutedWasAnswered',
         UNCHANGED dealt \/ Deals
  PROVE  IInv'
<1>1. status' = next /\ recv' = r /\ asked' = IF r.kind = "RPC" THEN r.id ELSE asked
  BY DEF Receive
<1>2. EndsSaved'
  BY <1>1 DEF EndsSaved, Running
<1>3. DealtOnceInOrder' /\ \A i \in 1 .. Len(dealt') : dealt'[i] <= asked
  <2>1. CASE UNCHANGED dealt
    BY <2>1 DEF IInv, DealtOnceInOrder, DealtBefore
  <2>2. CASE Deals
    BY <2>2, DealsInOrder
  <2> QED BY <2>1, <2>2
<1>4. \A i \in 1 .. Len(dealt') : dealt'[i] \in 1 .. MaxRpc
  <2>1. dealt' \in Seq(1 .. MaxRpc)
    BY DEF TypeOK
  <2> QED BY <2>1, ElementOfSeq
<1>5. DealtBefore'
  <2>1. CASE r.kind = "RPC"
    <3>1. r.id = asked + 1
      BY <2>1, Turns
    <3>2. asked' = asked + 1 /\ recv'.id = asked'
      BY <1>1, <2>1, <3>1
    <3>3. \A i \in 1 .. Len(dealt') : dealt'[i] <= asked' /\ dealt'[i] < asked + 1
      BY <1>3, <1>4, <3>2, SessionAssumption
    <3> QED BY <3>2, <3>3 DEF DealtBefore
  <2>2. CASE r.kind # "RPC"
    BY <1>1, <1>3, <2>2 DEF DealtBefore
  <2> QED BY <2>1, <2>2
<1> QED BY <1>2, <1>3, <1>5 DEF IInv, SessionInv

(* The Inform and the requests: nothing is dealt with or executed.         *)
Asking == /\ Running /\ Kept /\ UNCHANGED task_queue
          /\ req_to_acs' \in {"INFORM", "TRANSFER_COMPLETE", "EMPTY"}
          /\ requests' \in 0 .. MaxRequest - 1

(* Neither the tasks nor what was dealt with changes while asking.         *)
LEMMA AskingKeeps ==
  ASSUME IInv, Asking
  PROVE  /\ UNCHANGED <<set_param_flag, dealt, answered, executed>>
         /\ ExecutedWasAnswered' /\ asked \in 0 .. MaxRpc
         /\ QueueAnswered'
         /\ UNCHANGED unsaved => FlagTells' /\ unsaved' \in BOOLEAN
         /\ (/\ status' \in {"STOP", "INFORM", "REQUEST", "RESPONSE", "EXECUTE"}
             /\ recv' \in Received /\ unsaved' \in BOOLEAN /\ asked' \in 0 .. MaxRpc)
            => TypeOK'
<1>1. UNCHANGED <<set_param_flag, dealt, answered, executed, diag, reset, queue0,
                  requests0, task_queue>>
  BY DEF Asking, Kept
<1>2. TypeOK
  BY DEF IInv, SessionInv
<1>3. ExecutedWasAnswered' /\ QueueAnswered'
  BY <1>1 DEF IInv, Asking, QueueAnswered, ExecutedWasAnswered
<1>4. asked \in 0 .. MaxRpc /\ unsaved \in BOOLEAN
  BY <1>2, Types
<1>5. UNCHANGED unsaved => FlagTells'
  BY <1>1 DEF IInv, FlagTells
<1>6. ASSUME status' \in {"STOP", "INFORM", "REQUEST", "RESPONSE", "EXECUTE"},
             recv' \in Received, unsaved' \in BOOLEAN, asked' \in 0 .. MaxRpc
      PROVE  TypeOK'
  BY <1>1, <1>2, <1>6 DEF TypeOK, Received, Asking
<1> QED BY <1>1, <1>3, <1>4, <1>5, <1>6

(* The session ends while asking.                                          *)
LEMMA AskingBreaks ==
  ASSUME IInv, Asking, Finish(set_param_flag, unsaved), recv' \in Received, UNCHANGED asked
  PROVE  IInv'
<1>1. UNCHANGED <<set_param_flag, dealt, answered, executed>>
  BY AskingKeeps
<1>2. TypeOK'
  BY AskingKeeps DEF Finish
<1>3. Finish(set_param_flag', unsaved) /\ (unsaved => set_param_flag')
  BY <1>1 DEF IInv, FlagTells
<1> QED BY <1>1, <1>2, <1>3, EndHolds

(* The ACS answers and leaves the turn to the process.                     *)
LEMMA AskingGoesOn ==
  ASSUME IInv, Asking, UNCHANGED unsaved, NEW k \in {"OK", "RETRY", "BAD"},
         NEW next \in {"INFORM", "REQUEST"}, Receive(Reply(k), next)
  PROVE  IInv'
<1>1. UNCHANGED dealt /\ asked \in 0 .. MaxRpc /\ FlagTells' /\ unsaved' \in BOOLEAN
      /\ QueueAnswered' /\ ExecutedWasAnswered'
  BY AskingKeeps
<1>2. Reply(k) \in Received /\ Reply(k).kind # "RPC"
  BY DEF Received, Reply
<1>3. recv' = Reply(k) /\ status' = next /\ asked' = asked
  BY <1>2 DEF Receive
<1>4. TypeOK'
  BY <1>1, <1>2, <1>3, AskingKeeps
<1>5. AcsHasTurn'
  BY <1>3 DEF AcsHasTurn
<1> QED BY <1>1, <1>2, <1>4, <1>5, GoHolds

(* The process has no more requests: the turn is the ACS's.                *)
LEMMA AskingYields ==
  ASSUME IInv, Asking, UNCHANGED unsaved, NEW r \in Turn, Receive(r, "RESPONSE"),
         requests' = 0, req_to_acs' = "EMPTY"
  PROVE  IInv'
<1>1. UNCHANGED dealt /\ asked \in 0 .. MaxRpc /\ FlagTells' /\ unsaved' \in BOOLEAN
      /\ QueueAnswered' /\ ExecutedWasAnswered'
  BY AskingKeeps
<1>2. r \in Received /\ (r.kind = "RPC" => r.id = asked + 1 /\ asked + 1 \in 1 .. MaxRpc)
  BY <1>1, Turns
<1>3. recv' = r /\ status' = "RESPONSE" /\ asked' \in 0 .. MaxRpc
  BY <1>1, <1>2, SessionAssumption DEF Receive
<1>4. TypeOK'
  BY <1>1, <1>2, <1>3, AskingKeeps
<1>5. AcsHasTurn'
  BY DEF AcsHasTurn
<1> QED BY <1>1, <1>4, <1>5, GoHolds

(* Together: every step that asks.                                         *)
LEMMA AskHolds ==
  ASSUME IInv, \/ InformAffirmed \/ InformRetry \/ InformBreaks
               \/ RequestTransferComplete \/ RequestEmpty \/ ResponseBreaks
  PROVE  IInv'
<1>0. /\ requests \in 0 .. MaxRequest - 1 /\ MaxRequest \in Nat /\ recv \in Received
      /\ req_to_acs \in {"NUMBER", "INFORM", "TRANSFER_COMPLETE", "EMPTY"}
  BY Types, SessionAssumption DEF IInv, SessionInv
<1>1. \A k \in {"NONE", "BAD"} : Reply(k) \in Received
  BY DEF Received
<1>2. CASE InformAffirmed
  <2>1. Asking /\ UNCHANGED unsaved /\ Receive(Reply("OK"), "REQUEST")
    BY <1>0, <1>2 DEF InformAffirmed, Asking, Running
  <2> QED BY <2>1, AskingGoesOn
<1>3. CASE InformRetry
  <2>1. Asking /\ UNCHANGED unsaved /\ Receive(Reply("RETRY"), "INFORM")
    BY <1>0, <1>3 DEF InformRetry, Asking, Running
  <2> QED BY <2>1, AskingGoesOn
<1>4. CASE InformBreaks
  <2>1. Asking /\ Finish(set_param_flag, unsaved) /\ UNCHANGED asked
    BY <1>0, <1>4 DEF InformBreaks, SendFails, Asking, Running
  <2>2. recv' \in Received
    BY <1>1, <1>4 DEF InformBreaks, SendFails, Nothing
  <2> QED BY <2>1, <2>2, AskingBreaks
<1>5. CASE RequestTransferComplete
  <2>1. Asking
    BY <1>0, <1>5 DEF RequestTransferComplete, Asking, Running
  <2>2. CASE SendFails(set_param_flag, unsaved)
    <3>1. Finish(set_param_flag, unsaved) /\ recv' \in Received /\ UNCHANGED asked
      BY <1>1, <2>2 DEF SendFails, Nothing
    <3> QED BY <2>1, <3>1, AskingBreaks
  <2>3. CASE (\E k \in {"OK", "RETRY", "BAD"} : Receive(Reply(k), "REQUEST")) /\ UNCHANGED unsaved
    BY <2>1, <2>3, AskingGoesOn
  <2> QED BY <1>5, <2>2, <2>3 DEF RequestTransferComplete
<1>6. CASE RequestEmpty
  <2>1. Asking /\ requests' = 0 /\ req_to_acs' = "EMPTY"
    BY <1>0, <1>6 DEF RequestEmpty, Asking, Running
  <2>2. CASE SendFails(set_param_flag, unsaved)
    <3>1. Finish(set_param_flag, unsaved) /\ recv' \in Received /\ UNCHANGED asked
      BY <1>1, <2>2 DEF SendFails, Nothing
    <3> QED BY <2>1, <3>1, AskingBreaks
  <2>3. CASE (\E r \in Turn : Receive(r, "RESPONSE")) /\ UNCHANGED unsaved
    BY <2>1, <2>3, AskingYields
  <2> QED BY <1>6, <2>2, <2>3 DEF RequestEmpty
<1>7. CASE ResponseBreaks
  <2>1. status = "RESPONSE" /\ req_to_acs' = req_to_acs /\ req_to_acs = "EMPTY"
    BY <1>7 DEF ResponseBreaks, IInv, SessionInv, AcsHasTurn
  <2>2. Asking /\ Finish(set_param_flag, unsaved) /\ UNCHANGED asked /\ recv' \in Received
    BY <1>0, <1>7, <2>1 DEF ResponseBreaks, Asking, Running
  <2> QED BY <2>2, AskingBreaks
<1> QED BY <1>2, <1>3, <1>4, <1>5, <1>6, <1>7

(* An RPC is dealt with: its tasks are queued, and its answer is sent, or  *)
(* the session ends.                                                       *)
LEMMA FaultHolds ==
  ASSUME IInv, ResponseFault \/ ResponseFatal
  PROVE  IInv'
<1>1. /\ Deals
      /\ UNCHANGED <<req_to_acs, task_queue, requests, set_param_flag, executed,
                     diag, reset, queue0, requests0>>
  BY DEF ResponseFault, ResponseFatal
<1>2. /\ recv \in Received /\ recv.kind = "RPC" /\ recv.id = asked
      /\ recv.id \in 1 .. MaxRpc /\ dealt' \in Seq(1 .. MaxRpc)
      /\ Running /\ requests = 0 /\ req_to_acs = "EMPTY"
  BY <1>1, DealsInOrder
<1>3. TypeOK
  BY DEF IInv, SessionInv
<1>4. asked \in 0 .. MaxRpc /\ unsaved \in BOOLEAN /\ answered \subseteq 1 .. MaxRpc
  BY <1>3, Types
<1>5. ASSUME status' \in {"STOP", "RESPONSE"}, recv' \in Received, unsaved' \in BOOLEAN,
             asked' \in 0 .. MaxRpc, answered' \subseteq 1 .. MaxRpc
      PROVE  TypeOK'
  BY <1>1, <1>2, <1>3, <1>5 DEF TypeOK, Received
<1>6. CASE Finish(set_param_flag, unsaved) /\ recv' \in Received /\ UNCHANGED <<asked, answered>>
  <2>1. TypeOK'
    BY <1>4, <1>5, <1>6 DEF Finish
  <2>2. Finish(set_param_flag', unsaved) /\ (unsaved => set_param_flag')
    BY <1>1, <1>6 DEF IInv, FlagTells
  <2> QED BY <1>1, <1>6, <2>1, <2>2, EndHolds
<1>7. ASSUME NEW r \in Turn, Receive(r, "RESPONSE"), answered' = answered \cup {recv.id},
             UNCHANGED unsaved
      PROVE  IInv'
  <2>1. r \in Received /\ (r.kind = "RPC" => r.id = asked + 1 /\ asked + 1 \in 1 .. MaxRpc)
    BY <1>4, Turns
  <2>2. recv' = r /\ status' = "RESPONSE" /\ asked' \in 0 .. MaxRpc
    BY <1>4, <1>7, <2>1, SessionAssumption DEF Receive
  <2>3. TypeOK'
    BY <1>2, <1>4, <1>5, <1>7, <2>1, <2>2
  <2>4. AcsHasTurn'
    BY <1>1, <1>2 DEF AcsHasTurn
  <2>5. FlagTells' /\ QueueAnswered' /\ ExecutedWasAnswered'
    BY <1>1, <1>2, <1>7 DEF IInv, FlagTells, QueueAnswered, ExecutedWasAnswered
  <2> QED BY <1>1, <1>4, <1>7, <2>3, <2>4, <2>5, GoHolds
<1>8. Nothing \in Received
  BY DEF Nothing, Received
<1>9. CASE ResponseFault
  BY <1>6, <1>7, <1>8, <1>9 DEF ResponseFault, SendFails
<1>10. CASE ResponseFatal
  BY <1>2, <1>6, <1>10 DEF ResponseFatal
<1> QED BY <1>9, <1>10

(* An RPC that succeeds is answered, and its tasks wait for it.            *)
LEMMA OkHolds ==
  ASSUME IInv, ResponseOk
  PROVE  IInv'
<1> DEFINE ts == Tagged(recv.tasks, recv.id)
<1>1. /\ Deals /\ task_queue' = PutTasks(task_queue, ts)
      /\ UNCHANGED <<req_to_acs, requests, executed, diag, reset, queue0, requests0>>
  BY DEF ResponseOk
<1>2. /\ recv \in Received /\ recv.kind = "RPC" /\ recv.id = asked
      /\ recv.id \in 1 .. MaxRpc /\ recv.tasks \in Seq(Rpc) /\ dealt' \in Seq(1 .. MaxRpc)
      /\ Running /\ requests = 0 /\ req_to_acs = "EMPTY"
  BY <1>1, DealsInOrder
<1>3. TypeOK
  BY DEF IInv, SessionInv
<1>4. /\ asked \in 0 .. MaxRpc /\ answered \subseteq 1 .. MaxRpc
      /\ task_queue \in Seq(Entry) /\ set_param_flag \in BOOLEAN /\ unsaved \in BOOLEAN
  BY <1>3, Types
<1>5. /\ task_queue' \in Seq(Entry) /\ Len(task_queue') < MaxTask
      /\ \A i \in 1 .. Len(task_queue') :
           task_queue'[i].rpc \in answered \cup {recv.id} \cup {0}
  <2> DEFINE R == answered \cup {recv.id} \cup {0}
  <2>1. recv.tasks \in Seq(Task) /\ recv.id \in 0 .. MaxRpc
    BY <1>2, SessionAssumption DEF Task
  <2>2. ts \in Seq(Entry) /\ \A i \in 1 .. Len(ts) : ts[i].rpc \in R
    BY <2>1, TaggedType
  <2>3. \A i \in 1 .. Len(task_queue) : task_queue[i].rpc \in R
    BY <1>2 DEF IInv, QueueAnswered
  <2> HIDE DEF ts, R
  <2>4. /\ PutTasks(task_queue, ts) \in Seq(Entry) /\ Len(PutTasks(task_queue, ts)) < MaxTask
        /\ \A i \in 1 .. Len(PutTasks(task_queue, ts)) : PutTasks(task_queue, ts)[i].rpc \in R
    BY <1>4, <2>2, <2>3, PutEntries
  <2> QED BY <1>1, <2>4 DEF R
<1> HIDE DEF ts
<1>6. PICK set \in BOOLEAN :
        /\ set_param_flag' = (set_param_flag \/ set)
        /\ \/ SendFails(set_param_flag', unsaved \/ set) /\ UNCHANGED answered
           \/ /\ \E r \in Turn : Receive(r, "EXECUTE")
              /\ answered' = answered \cup {recv.id}
              /\ unsaved' = (unsaved \/ set)
  BY DEF ResponseOk, Sets
<1>7. ASSUME status' \in {"STOP", "EXECUTE"}, recv' \in Received, unsaved' \in BOOLEAN,
             asked' \in 0 .. MaxRpc, answered' \subseteq 1 .. MaxRpc
      PROVE  TypeOK'
  <2>1. set_param_flag' \in BOOLEAN
    BY <1>6
  <2> QED BY <1>1, <1>2, <1>3, <1>5, <1>7, <2>1 DEF TypeOK, Received, Entry
<1>8. unsaved \/ set => set_param_flag'
  BY <1>6 DEF IInv, FlagTells
<1>9. CASE SendFails(set_param_flag', unsaved \/ set) /\ UNCHANGED answered
  <2>1. Finish(set_param_flag', unsaved \/ set) /\ recv' \in Received /\ UNCHANGED asked
    BY <1>9 DEF SendFails, Received, Nothing
  <2>2. TypeOK'
    BY <1>4, <1>7, <1>9, <2>1 DEF Finish
  <2> DEFINE dirty == unsaved \/ set
  <2>3. Finish(set_param_flag', dirty) /\ (dirty => set_param_flag')
    BY <1>8, <2>1
  <2> HIDE DEF dirty
  <2> QED BY <1>1, <1>9, <2>1, <2>2, <2>3, EndHolds
<1>10. ASSUME NEW r \in Turn, Receive(r, "EXECUTE"), answered' = answered \cup {recv.id},
              unsaved' = (unsaved \/ set)
       PROVE  IInv'
  <2>1. r \in Received /\ (r.kind = "RPC" => r.id = asked + 1 /\ asked + 1 \in 1 .. MaxRpc)
    BY <1>4, Turns
  <2>2. recv' = r /\ status' = "EXECUTE" /\ asked' \in 0 .. MaxRpc
    BY <1>4, <1>10, <2>1, SessionAssumption DEF Receive
  <2>3. TypeOK'
    <3>1. unsaved' \in BOOLEAN
      BY <1>10
    <3>2. answered' \subseteq 1 .. MaxRpc
      BY <1>2, <1>4, <1>10
    <3> QED BY <1>7, <2>1, <2>2, <3>1, <3>2
  <2>4. AcsHasTurn'
    BY <1>1, <1>2 DEF AcsHasTurn
  <2>5. FlagTells'
    BY <1>8, <1>10 DEF FlagTells
  <2>6. QueueAnswered' /\ ExecutedWasAnswered'
    BY <1>1, <1>5, <1>10 DEF IInv, QueueAnswered, ExecutedWasAnswered
  <2> QED BY <1>1, <1>4, <1>10, <2>3, <2>4, <2>5, <2>6, GoHolds
<1> QED BY <1>6, <1>9, <1>10

(* The queue is drained: each task in it was answered.                     *)
LEMMA ExecuteHolds ==
  ASSUME IInv, ExecuteTask \/ ExecuteDone
  PROVE  IInv'
<1>0. TypeOK
  BY DEF IInv, SessionInv
<1>1. CASE ExecuteTask
  <2> DEFINE R == answered \cup {0}
             T == Tail(task_queue)
             one == Tagged(<<"SESSION">>, 0)
             h == Head(task_queue)
  <2>1. /\ status = "EXECUTE" /\ task_queue # <<>>
        /\ executed' = executed \cup {h.rpc}
        /\ reset' = (reset \/ h.task = "FACTORY_RESET")
        /\ \/ diag' = TRUE /\ task_queue' = PutTasks(T, one)
           \/ task_queue' = T /\ diag' = diag
        /\ UNCHANGED <<status, req_to_acs, recv, requests, set_param_flag, unsaved,
                       asked, dealt, answered, queue0, requests0>>
    BY <1>1 DEF ExecuteTask
  <2>2. task_queue \in Seq(Entry) /\ Len(task_queue) < MaxTask
        /\ \A i \in 1 .. Len(task_queue) : task_queue[i].rpc \in R
    BY <1>0, <2>1, Types DEF IInv, QueueAnswered, Running
  <2>3. <<"SESSION">> \in Seq(Task) /\ 0 \in 0 .. MaxRpc /\ 0 \in R
    BY SessionAssumption DEF Task
  <2>4. one \in Seq(Entry) /\ \A i \in 1 .. Len(one) : one[i].rpc \in R
    BY <2>3, TaggedType
  <2> HIDE DEF R, one
  <2>5. /\ h \in Entry /\ h.rpc \in R /\ T \in Seq(Entry) /\ Len(T) < Len(task_queue)
        /\ \A i \in 1 .. Len(T) : T[i].rpc \in R
    BY <2>1, <2>2, TailEntries
  <2> HIDE DEF T, h
  <2>6. /\ PutTasks(T, one) \in Seq(Entry) /\ Len(PutTasks(T, one)) < MaxTask
        /\ \A i \in 1 .. Len(PutTasks(T, one)) : PutTasks(T, one)[i].rpc \in R
    BY <2>4, <2>5, PutEntries
  <2>7. /\ task_queue' \in Seq(Entry) /\ Len(task_queue') < MaxTask
        /\ \A i \in 1 .. Len(task_queue') : task_queue'[i].rpc \in R
    <3>1. Len(T) \in Nat /\ Len(task_queue) \in Nat /\ MaxTask \in Nat
      BY <2>2, <2>5, OutcomeAssumption
    <3>2. Len(T) < MaxTask
      BY <2>2, <2>5, <3>1
    <3> QED BY <2>1, <2>5, <2>6, <3>2
  <2>8. diag' \in BOOLEAN /\ reset' \in BOOLEAN
    BY <1>0, <2>1, Types
  <2>9. executed' \subseteq 0 .. MaxRpc
    BY <1>0, <2>1, <2>5, Types DEF Entry
  <2>10. TypeOK'
    BY <1>0, <2>1, <2>7, <2>8, <2>9 DEF TypeOK, Entry
  <2>11. ExecutedWasAnswered' /\ QueueAnswered'
    BY <2>1, <2>5, <2>7 DEF IInv, ExecutedWasAnswered, QueueAnswered, R
  <2>12. AcsHasTurn' /\ EndsSaved' /\ FlagTells' /\ DealtBefore' /\ DealtOnceInOrder'
    BY <2>1 DEF IInv, SessionInv, AcsHasTurn, EndsSaved, FlagTells, DealtBefore,
                DealtOnceInOrder, Running
  <2> QED BY <2>10, <2>11, <2>12 DEF IInv, SessionInv
<1>2. CASE ExecuteDone
  <2>1. /\ status = "EXECUTE" /\ status' = "REQUEST"
        /\ UNCHANGED <<req_to_acs, recv, task_queue, requests, set_param_flag, unsaved>>
        /\ UNCHANGED <<asked, dealt, answered, executed, diag, reset, queue0, requests0>>
    BY <1>2 DEF ExecuteDone, history
  <2>2. TypeOK'
    BY <1>0, <2>1 DEF TypeOK
  <2>3. AcsHasTurn' /\ EndsSaved' /\ FlagTells' /\ DealtBefore' /\ DealtOnceInOrder'
        /\ ExecutedWasAnswered' /\ QueueAnswered'
    BY <2>1 DEF IInv, SessionInv, AcsHasTurn, EndsSaved, FlagTells, DealtBefore,
                DealtOnceInOrder, ExecutedWasAnswered, QueueAnswered, Running
  <2> QED BY <2>2, <2>3 DEF IInv, SessionInv
<1> QED BY <1>1, <1>2

(* The invariant holds of every session.                                   *)
LEMMA AlwaysIInv == Spec => []IInv
<1>1. IInv /\ [Next]_vars => IInv'
  <2> SUFFICES ASSUME IInv, [Next]_vars PROVE IInv'
    OBVIOUS
  <2>1. CASE UNCHANGED vars
    BY <2>1 DEF vars, history, IInv, SessionInv, TypeOK, AcsHasTurn, EndsSaved, FlagTells,
                QueueAnswered, DealtBefore, ExecutedWasAnswered, DealtOnceInOrder, Running
  <2>2. CASE Next
    BY <2>2, AskHolds, FaultHolds, OkHolds, ExecuteHolds DEF Next
  <2> QED BY <2>1, <2>2
<1> QED BY <1>1, InitHolds, PTL DEF Spec

(* Types, whose turn it is, and that values are saved at the end, for any  *)
(* number of RPCs and requests and any task lists.                         *)
THEOREM SessionCorrect == Spec => []SessionInv
<1>1. IInv => SessionInv
  BY DEF IInv
<1> QED BY <1>1, AlwaysIInv, PTL

(* No task of an RPC is executed before its answer was sent.               *)
THEOREM AnsweredBeforeExecuted == Spec => []ExecutedWasAnswered
<1>1. IInv => ExecutedWasAnswered
  BY DEF IInv
<1> QED BY <1>1, AlwaysIInv, PTL

(* Each RPC is dealt with at most once, in the order of the ACS.           *)
THEOREM InOrder == Spec => []DealtOnceInOrder
<1>1. IInv => DealtOnceInOrder
  BY DEF IInv
<1> QED BY <1>1, AlwaysIInv, PTL
-----------------------------------------------------------------------------
(***************************************************************************)
(* The session ends as promised.  What the promise cannot see while the    *)
(* session is open: the queue is as it was, or it was drained and so all   *)
(* requests are sent, or it is being drained.                              *)
(***************************************************************************)
Undrained == Untagged(task_queue) = queue0 /\ ~diag /\ ~reset
Drained == task_queue = <<>> /\ requests = 0

(* A diagnosis or a reset, queued or done, was asked for by an RPC.        *)
Meant == [task : {t \in Task : Askable(t)}, rpc : 0 .. MaxRpc]
DoneWasAsked == /\ diag => Asked({"PING", "TRACERT"})
                /\ reset => Asked({"FACTORY_RESET"})

Progress == /\ Running => status = "EXECUTE" \/ Undrained \/ Drained
            /\ Running => requests <= requests0
            /\ task_queue \in Seq(Meant)
            /\ DoneWasAsked

(* put_task appends, as far as there is room.                              *)
LEMMA PutProperties ==
  ASSUME NEW S, NEW q \in Seq(S), NEW ts \in Seq(S)
  PROVE  /\ PutTasks(q, ts) \in Seq(S)
         /\ Len(PutTasks(q, ts)) = IF Len(q) + Len(ts) <= MaxTask - 1
                                   THEN Len(q) + Len(ts) ELSE MaxTask - 1
         /\ \A i \in 1 .. Len(PutTasks(q, ts)) :
              /\ i \in 1 .. Len(q) + Len(ts)
              /\ PutTasks(q, ts)[i] = IF i <= Len(q) THEN q[i] ELSE ts[i - Len(q)]
<1> DEFINE u == q \o ts
           t == PutTasks(q, ts)
<1>1. /\ u \in Seq(S) /\ Len(u) = Len(q) + Len(ts)
      /\ \A i \in 1 .. Len(u) : u[i] = IF i <= Len(q) THEN q[i] ELSE ts[i - Len(q)]
  BY ConcatProperties
<1>2. MaxTask - 1 \in Nat /\ MaxTask \in Nat /\ Len(q) \in Nat /\ Len(ts) \in Nat
      /\ Len(u) \in Nat
  BY <1>1, OutcomeAssumption
<1>3. t = IF Len(u) <= MaxTask - 1 THEN u ELSE SubSeq(u, 1, MaxTask - 1)
  BY DEF PutTasks, Bounded
<1> HIDE DEF u, t
<1>4. CASE Len(u) <= MaxTask - 1
  <2>1. t = u
    BY <1>3, <1>4
  <2> QED BY <1>1, <1>2, <1>4, <2>1 DEF t
<1>5. CASE ~ (Len(u) <= MaxTask - 1)
  <2>1. \A i \in 1 .. MaxTask - 1 : i \in 1 .. Len(u)
    BY <1>2, <1>5
  <2>2. \A i \in 1 .. MaxTask - 1 : u[i] \in S
    BY <1>1, <2>1, ElementOfSeq
  <2>3. /\ t \in Seq(S) /\ Len(t) = MaxTask - 1
        /\ \A i \in 1 .. MaxTask - 1 : t[i] = u[i]
    BY <1>2, <1>3, <1>5, <2>2, SubSeqProperties
  <2>4. \A i \in 1 .. Len(t) : i \in 1 .. Len(u) /\ t[i] = u[i]
    BY <2>1, <2>3
  <2> QED BY <1>1, <1>5, <2>3, <2>4 DEF t
<1> QED BY <1>4, <1>5

(* Without their numbers, queued tasks are the tasks of the promise.       *)
LEMMA UntaggedType ==
  ASSUME NEW q \in Seq(Entry)
  PROVE  /\ Untagged(q) \in Seq(Task) /\ Len(Untagged(q)) = Len(q)
         /\ \A i \in 1 .. Len(q) : Untagged(q)[i] = q[i].task
<1>1. \A i \in 1 .. Len(q) : q[i].task \in Task
  <2> SUFFICES ASSUME NEW i \in 1 .. Len(q) PROVE q[i].task \in Task
    OBVIOUS
  <2>1. q[i] \in Entry
    BY ElementOfSeq
  <2> QED BY <2>1 DEF Entry
<1>2. Len(q) \in Nat
  OBVIOUS
<1> QED BY <1>1, <1>2 DEF Untagged

(* Taking the numbers off again undoes Tagged.                             *)
LEMMA TaggedUntagged ==
  ASSUME NEW ts \in Seq(Task), NEW n \in 0 .. MaxRpc
  PROVE  /\ Tagged(ts, n) \in Seq(Entry) /\ Len(Tagged(ts, n)) = Len(ts)
         /\ \A i \in 1 .. Len(ts) : Tagged(ts, n)[i].task = ts[i]
         /\ Untagged(Tagged(ts, n)) = ts
<1> DEFINE g == Tagged(ts, n)
<1>1. g \in Seq(Entry)
  BY TaggedType
<1>2. Len(ts) \in Nat
  OBVIOUS
<1>3. Len(g) = Len(ts) /\ \A i \in 1 .. Len(ts) : g[i].task = ts[i]
  BY <1>2 DEF Tagged
<1> HIDE DEF g
<1>4. /\ Untagged(g) \in Seq(Task) /\ Len(Untagged(g)) = Len(ts)
      /\ \A i \in 1 .. Len(ts) : Untagged(g)[i] = g[i].task
  BY <1>1, <1>3, UntaggedType
<1>5. \A i \in 1 .. Len(Untagged(g)) : Untagged(g)[i] = ts[i]
  BY <1>3, <1>4
<1>6. Untagged(g) = ts
  BY <1>4, <1>5, SeqEqual
<1> QED BY <1>1, <1>3, <1>6 DEF g

(* Queueing and taking the numbers off commute.                            *)
LEMMA PutUntagged ==
  ASSUME NEW q \in Seq(Entry), NEW ts \in Seq(Task), NEW n \in 0 .. MaxRpc
  PROVE  Untagged(PutTasks(q, Tagged(ts, n))) = PutTasks(Untagged(q), ts)
<1> DEFINE g == Tagged(ts, n)
           v == PutTasks(q, g)
           U == Untagged(q)
           w == PutTasks(U, ts)
           lim == IF Len(q) + Len(ts) <= MaxTask - 1
                  THEN Len(q) + Len(ts) ELSE MaxTask - 1
<1>1. /\ g \in Seq(Entry) /\ Len(g) = Len(ts)
      /\ \A i \in 1 .. Len(ts) : g[i].task = ts[i]
  BY TaggedUntagged
<1>2. U \in Seq(Task) /\ Len(U) = Len(q) /\ \A i \in 1 .. Len(q) : U[i] = q[i].task
  BY UntaggedType
<1> HIDE DEF g, U
<1>3. /\ v \in Seq(Entry) /\ Len(v) = lim
      /\ \A i \in 1 .. Len(v) : /\ i \in 1 .. Len(q) + Len(ts)
                                /\ v[i] = IF i <= Len(q) THEN q[i] ELSE g[i - Len(q)]
  BY <1>1, PutProperties
<1>4. /\ w \in Seq(Task) /\ Len(w) = lim
      /\ \A i \in 1 .. Len(w) : w[i] = IF i <= Len(q) THEN U[i] ELSE ts[i - Len(q)]
  <2>1. /\ w \in Seq(Task)
        /\ Len(w) = IF Len(U) + Len(ts) <= MaxTask - 1
                    THEN Len(U) + Len(ts) ELSE MaxTask - 1
        /\ \A i \in 1 .. Len(w) : w[i] = IF i <= Len(U) THEN U[i] ELSE ts[i - Len(U)]
    BY <1>2, PutProperties
  <2> HIDE DEF w
  <2> QED BY <1>2, <2>1
<1> HIDE DEF v, w
<1>5. /\ Untagged(v) \in Seq(Task) /\ Len(Untagged(v)) = Len(v)
      /\ \A i \in 1 .. Len(v) : Untagged(v)[i] = v[i].task
  BY <1>3, UntaggedType
<1>6. \A i \in 1 .. Len(Untagged(v)) : Untagged(v)[i] = w[i]
  <2> SUFFICES ASSUME NEW i \in 1 .. Len(v) PROVE v[i].task = w[i]
    BY <1>5
  <2>1. i \in 1 .. Len(w) /\ i \in 1 .. Len(q) + Len(ts) /\ Len(q) \in Nat /\ Len(ts) \in Nat
    BY <1>3, <1>4
  <2>2. CASE i <= Len(q)
    <3>1. v[i] = q[i] /\ w[i] = U[i] /\ i \in 1 .. Len(q)
      BY <1>3, <1>4, <2>1, <2>2
    <3> QED BY <1>2, <3>1
  <2>3. CASE ~ (i <= Len(q))
    <3>1. i - Len(q) \in 1 .. Len(ts)
      BY <2>1, <2>3
    <3>2. v[i] = g[i - Len(q)] /\ w[i] = ts[i - Len(q)]
      BY <1>3, <1>4, <2>1, <2>3
    <3>3. g[i - Len(q)].task = ts[i - Len(q)]
      BY <1>1, <3>1
    <3> QED BY <3>2, <3>3
  <2> QED BY <2>2, <2>3
<1>7. Untagged(v) = w
  BY <1>3, <1>4, <1>5, <1>6, SeqEqual
<1> QED BY <1>7 DEF v, w, g, U

(* Nothing put is nothing changed.                                         *)
LEMMA PutNothing ==
  ASSUME NEW q \in Seq(Task), Len(q) < MaxTask
  PROVE  PutTasks(q, <<>>) = q
<1>1. q \o <<>> = q
  BY ConcatEmptySeq
<1>2. Len(q) <= MaxTask - 1
  BY OutcomeAssumption
<1> QED BY <1>1, <1>2 DEF PutTasks, Bounded

(* What a step must do for the promise: end with an outcome, or nothing.   *)
PromiseStep == [Promise!End]_(Promise!vars)

(* The queue holds what RPCs asked for, or SESSION.                        *)
LEMMA RpcsAskable ==
  ASSUME NEW l \in RpcTasks \cup {<<>>}, NEW i \in 1 .. Len(l)
  PROVE  Askable(l[i])
<1>1. l \in RpcTasks
  OBVIOUS
<1> QED BY <1>1 DEF Askable, Asked

(* The same of their entries in the queue.                                 *)
LEMMA TaggedMeant ==
  ASSUME NEW ts \in Seq(Task), NEW n \in 0 .. MaxRpc,
         \A i \in 1 .. Len(ts) : Askable(ts[i])
  PROVE  Tagged(ts, n) \in Seq(Meant)
<1>1. Len(ts) \in Nat /\ \A i \in 1 .. Len(ts) : ts[i] \in Task
  OBVIOUS
<1> QED BY <1>1 DEF Tagged, Meant

(* The promise speaks of the same outcomes.                                *)
LEMMA SameOutcomes ==
  /\ Promise!Task = Task
  /\ \A n : Promise!Outcomes(n) = Outcomes(n)
  /\ \A o, q : Promise!QueueAfter(o, q) = QueueAfter(o, q)
<1>1. Promise!Task = Task
  BY DEF Promise!Task, Promise!Rpc, Task, Rpc
<1>2. \A ts : Promise!Asked(ts) = Asked(ts)
  BY DEF Promise!Asked, Asked
<1>3. \A n : Promise!Outcomes(n) = Outcomes(n)
  BY <1>2 DEF Promise!Outcomes, Outcomes
<1>4. \A q, ts : Promise!PutTasks(q, ts) = PutTasks(q, ts)
  BY DEF Promise!PutTasks, PutTasks, Promise!Bounded, Bounded
<1> QED BY <1>1, <1>3, <1>4 DEF Promise!QueueAfter, QueueAfter

(* Initially nothing was drained.                                          *)
LEMMA InitProgress == Init => Progress /\ Promise!Init
<1> SUFFICES ASSUME Init PROVE Progress /\ Promise!Init
  OBVIOUS
<1>1. /\ queue0 \in Seq(Task) /\ task_queue = Tagged(queue0, 0) /\ queue0 \in Queues
      /\ \A i \in 1 .. Len(queue0) : Askable(queue0[i])
  BY SessionAssumption, QueuesAssumption DEF Init
<1>2. 0 \in 0 .. MaxRpc
  BY SessionAssumption
<1>3. task_queue \in Seq(Meant)
  BY <1>1, <1>2, TaggedMeant
<1>4. Untagged(task_queue) = queue0
  BY <1>1, <1>2, TaggedUntagged
<1>5. Running /\ ~diag /\ ~reset /\ requests = requests0 /\ requests0 \in 0 .. MaxRequest - 1
  BY DEF Init, Running
<1>6. requests0 \in Nat /\ requests <= requests0
  BY <1>5, SessionAssumption
<1>7. Progress
  BY <1>3, <1>4, <1>5, <1>6 DEF Progress, Undrained, DoneWasAsked
<1>8. /\ Running = TRUE /\ (diag /\ ~Running) = FALSE /\ (reset /\ ~Running) = FALSE
      /\ (IF Running THEN queue0 ELSE Untagged(task_queue)) \in Seq(Task)
      /\ (IF Running THEN requests0 ELSE requests) \in Nat
  BY <1>1, <1>5, <1>6 DEF Running
<1> QED BY <1>7, <1>8, SameOutcomes DEF Promise!Init

(* A step that goes on is nothing to the promise.                          *)
LEMMA GoesOnUnseen ==
  ASSUME Running, Running', UNCHANGED <<queue0, requests0>>
  PROVE  PromiseStep
<1>1. UNCHANGED <<Running, diag /\ ~Running, reset /\ ~Running>>
  OBVIOUS
<1> QED BY <1>1 DEF PromiseStep, Promise!vars

(* A step that ends the session, with the tasks l left behind.             *)
LEMMA EndsWell ==
  ASSUME IInv, Progress, TypeOK', Running, ~Running', status # "EXECUTE",
         NEW l \in RpcTasks \cup {<<>>}, Untagged(task_queue') = PutTasks(Untagged(task_queue), l),
         requests' \in 0 .. requests, l # <<>> => requests' = 0,
         UNCHANGED <<diag, reset>>
  PROVE  PromiseStep
<1> DEFINE sent == requests0 - requests'
           o == [drained |-> ~Undrained, diag |-> diag, reset |-> reset,
                 left |-> l, sent |-> sent]
<1>1. /\ requests \in Nat /\ requests0 \in Nat /\ requests' \in Nat /\ requests <= requests0
      /\ diag \in BOOLEAN /\ reset \in BOOLEAN
  BY SessionAssumption, Types DEF IInv, SessionInv, Progress
<1>2. sent \in 0 .. requests0 /\ requests' = requests0 - sent
      /\ (requests' = 0 => sent = requests0)
  <2>1. requests \in Nat /\ requests0 \in Nat /\ requests' \in Nat /\ requests <= requests0
        /\ requests' <= requests0
    BY <1>1
  <2>2. \A a, b \in Nat : b <= a => /\ a - b \in 0 .. a /\ b = a - (a - b)
                                   /\ (b = 0 => a - b = a)
    OBVIOUS
  <2> QED BY <2>1, <2>2
<1>3. Undrained \/ Drained
  BY DEF Progress
<1>4. Drained => requests' = 0
  BY DEF Drained
<1> HIDE DEF sent
<1>5. diag \in {FALSE, Asked({"PING", "TRACERT"})} /\ reset \in {FALSE, Asked({"FACTORY_RESET"})}
  <2>1. Asked({"PING", "TRACERT"}) \in BOOLEAN /\ Asked({"FACTORY_RESET"}) \in BOOLEAN
    BY DEF Asked
  <2> QED BY <1>1, <2>1 DEF Progress, DoneWasAsked
<1>6. diag \/ reset => ~Undrained
  BY DEF Undrained
<1>7. ~Undrained \/ l # <<>> => sent = requests0
  BY <1>2, <1>3, <1>4
<1>8. o \in Outcomes(requests0)
  <2>1. (~Undrained) \in BOOLEAN
    BY DEF Undrained
  <2> QED BY <1>2, <1>5, <1>6, <1>7, <2>1 DEF Outcomes
<1>9. Untagged(task_queue') = QueueAfter(o, queue0)
  <2>1. CASE Undrained
    BY <2>1 DEF QueueAfter, Undrained
  <2>2. CASE ~Undrained
    <3>1. task_queue = <<>>
      BY <1>3, <2>2 DEF Drained
    <3>2. Untagged(task_queue) = <<>>
      BY <3>1 DEF Untagged
    <3> QED BY <2>2, <3>2 DEF QueueAfter
  <2> QED BY <2>1, <2>2
<1>10. (diag /\ ~Running)' = o.diag /\ (reset /\ ~Running)' = o.reset
  BY <1>1
<1>11. o.sent = sent
  OBVIOUS
<1> HIDE DEF o
<1>12. Promise!End
  <2>1. Running' = FALSE
    BY DEF Running
  <2>2. /\ (IF Running THEN queue0 ELSE Untagged(task_queue)) = queue0
        /\ (IF Running THEN requests0 ELSE requests) = requests0
    OBVIOUS
  <2>3. /\ (IF Running THEN queue0 ELSE Untagged(task_queue))' = Untagged(task_queue')
        /\ (IF Running THEN requests0 ELSE requests)' = requests'
    BY DEF Untagged
  <2>4. requests' = requests0 - o.sent
    BY <1>2, <1>11
  <2>5. o \in Promise!Outcomes(requests0)
    BY <1>8, SameOutcomes
  <2>6. Untagged(task_queue') = Promise!QueueAfter(o, queue0)
    BY <1>9, SameOutcomes
  <2> QED BY <1>10, <2>1, <2>2, <2>3, <2>4, <2>5, <2>6 DEF Promise!End
<1> QED BY <1>12 DEF PromiseStep

(* A step that leaves the tasks alone.                                     *)
LEMMA QuietKeeps ==
  ASSUME IInv, Progress, IInv', Running, status # "EXECUTE", status' # "EXECUTE",
         UNCHANGED <<task_queue, diag, reset, queue0, requests0>>, requests' \in 0 .. requests
  PROVE  Progress' /\ PromiseStep
<1>1. /\ requests \in Nat /\ requests0 \in Nat /\ requests' \in Nat /\ requests <= requests0
      /\ requests' <= requests
  BY SessionAssumption, Types DEF IInv, SessionInv, Progress
<1>2. Undrained \/ Drained
  BY DEF Progress
<1>3. Undrained => Undrained'
  BY DEF Undrained
<1>4. Drained => Drained'
  <2>1. requests = 0 => requests' = 0
    BY <1>1
  <2> QED BY <2>1 DEF Drained
<1>5. requests' <= requests0'
  BY <1>1
<1>6. Progress'
  BY <1>2, <1>3, <1>4, <1>5 DEF Progress, DoneWasAsked
<1>7. CASE Running'
  BY <1>6, <1>7, GoesOnUnseen
<1>8. CASE ~Running'
  <2>1. Untagged(task_queue) \in Seq(Task) /\ Len(Untagged(task_queue)) < MaxTask
    BY UntaggedType, Types DEF IInv, SessionInv
  <2>2. Untagged(task_queue') = PutTasks(Untagged(task_queue), <<>>)
    BY <2>1, PutNothing
  <2>3. TypeOK'
    BY DEF IInv, SessionInv
  <2>4. <<>> \in RpcTasks \cup {<<>>}
    OBVIOUS
  <2> QED BY <1>6, <1>8, <2>2, <2>3, <2>4, EndsWell
<1> QED BY <1>6, <1>7, <1>8

(* The tasks of an RPC are queued; if its response fails, they are left.   *)
LEMMA OkKeeps ==
  ASSUME IInv, Progress, IInv', ResponseOk
  PROVE  Progress' /\ PromiseStep
<1> DEFINE l == recv.tasks
           ts == Tagged(recv.tasks, recv.id)
<1>1. /\ Deals /\ task_queue' = PutTasks(task_queue, ts)
      /\ UNCHANGED <<requests, diag, reset, queue0, requests0>>
  BY DEF ResponseOk
<1>2. /\ recv \in Received /\ recv.kind = "RPC" /\ l \in Seq(Rpc)
      /\ recv.id \in 0 .. MaxRpc /\ Running /\ requests = 0 /\ status = "RESPONSE"
  <2>1. recv.id \in 1 .. MaxRpc => recv.id \in 0 .. MaxRpc
    BY SessionAssumption
  <2> QED BY <1>1, <2>1, DealsInOrder DEF Deals
<1>3. l \in RpcTasks \cup {<<>>}
  <2>1. \A k \in {"NONE", "OK", "RETRY", "BAD", ""} : Reply(k).kind # "RPC"
    BY DEF Reply
  <2>2. PICK n \in 1 .. MaxRpc : recv \in Rpcs(n)
    BY <1>2, <2>1 DEF Received
  <2> QED BY <2>2 DEF Rpcs
<1>4. l \in Seq(Task)
  BY <1>2 DEF Task
<1> HIDE DEF l
<1>5. ts \in Seq(Meant)
  <2>1. \A i \in 1 .. Len(l) : Askable(l[i])
    BY <1>3, RpcsAskable
  <2> QED BY <1>2, <1>4, <2>1, TaggedMeant DEF l
<1> HIDE DEF ts
<1>6. task_queue' \in Seq(Meant)
  BY <1>1, <1>5, PutProperties DEF Progress
<1>7. task_queue \in Seq(Entry)
  BY Types DEF IInv, SessionInv
<1>8. Untagged(task_queue') = PutTasks(Untagged(task_queue), l)
  BY <1>1, <1>2, <1>4, <1>7, PutUntagged DEF ts, l
<1>9. status' \in {"STOP", "EXECUTE"}
  BY DEF ResponseOk, SendFails, Finish, Receive
<1>10. Progress'
  <2>1. requests' <= requests0'
    BY <1>1, <1>2 DEF Progress
  <2> QED BY <1>1, <1>6, <1>9, <2>1 DEF Progress, DoneWasAsked, Running
<1>11. CASE Running'
  BY <1>1, <1>2, <1>10, <1>11, GoesOnUnseen
<1>12. CASE ~Running'
  <2>1. TypeOK'
    BY DEF IInv, SessionInv
  <2>2. requests' \in 0 .. requests /\ requests' = 0
    BY <1>1, <1>2
  <2> QED BY <1>1, <1>2, <1>3, <1>8, <1>10, <1>12, <2>1, <2>2, EndsWell
<1> QED BY <1>10, <1>11, <1>12

(* Draining: a task that was asked for is executed.                        *)
LEMMA ExecuteKeeps ==
  ASSUME IInv, Progress, ExecuteTask
  PROVE  Progress' /\ PromiseStep
<1> DEFINE T == Tail(task_queue)
           one == Tagged(<<"SESSION">>, 0)
           h == Head(task_queue)
<1>1. /\ status = "EXECUTE" /\ task_queue # <<>>
      /\ reset' = (reset \/ h.task = "FACTORY_RESET")
      /\ \/ h.task \in {"PING", "TRACERT"} /\ diag' = TRUE /\ task_queue' = PutTasks(T, one)
         \/ task_queue' = T /\ diag' = diag
      /\ UNCHANGED <<status, requests, queue0, requests0>>
  BY DEF ExecuteTask
<1>2. task_queue \in Seq(Meant)
  BY DEF Progress
<1>3. T \in Seq(Meant) /\ h \in Meant
  <2>1. Head(task_queue) = task_queue[1] /\ Len(task_queue) \in Nat \ {0}
        /\ Tail(task_queue) \in Seq(Meant)
    BY <1>1, <1>2, HeadTailProperties, EmptySeq
  <2>2. task_queue[1] \in Meant
    BY <1>2, <2>1, ElementOfSeq
  <2> QED BY <2>1, <2>2
<1>4. one \in Seq(Meant)
  <2>1. <<"SESSION">> \in Seq(Task) /\ 0 \in 0 .. MaxRpc
    BY SessionAssumption DEF Task
  <2>2. \A i \in 1 .. Len(<<"SESSION">>) : Askable(<<"SESSION">>[i])
    BY DEF Askable
  <2> QED BY <2>1, <2>2, TaggedMeant
<1> HIDE DEF T, h, one
<1>5. task_queue' \in Seq(Meant)
  BY <1>1, <1>3, <1>4, PutProperties
<1>6. DoneWasAsked'
  <2>1. Askable(h.task)
    BY <1>3 DEF Meant
  <2>2. ASSUME diag' PROVE Asked({"PING", "TRACERT"})
    BY <1>1, <2>1, <2>2 DEF Progress, DoneWasAsked, Askable
  <2>3. ASSUME reset' PROVE Asked({"FACTORY_RESET"})
    BY <1>1, <2>1, <2>3 DEF Progress, DoneWasAsked, Askable
  <2> QED BY <2>2, <2>3 DEF DoneWasAsked, Asked
<1>7. Running /\ Running'
  BY <1>1 DEF Running
<1>8. Progress'
  BY <1>1, <1>5, <1>6, <1>7 DEF Progress
<1> QED BY <1>1, <1>7, <1>8, GoesOnUnseen

(* The queue is drained, and before that all requests were sent.           *)
LEMMA DoneKeeps ==
  ASSUME IInv, Progress, ExecuteDone
  PROVE  Progress' /\ PromiseStep
<1>1. /\ status = "EXECUTE" /\ status' = "REQUEST" /\ task_queue = <<>>
      /\ UNCHANGED <<task_queue, requests, diag, reset, queue0, requests0>>
  BY DEF ExecuteDone, history
<1>2. requests = 0
  BY <1>1 DEF IInv, SessionInv, AcsHasTurn
<1>3. Running /\ Running' /\ Drained'
  BY <1>1, <1>2 DEF Running, Drained
<1>4. Progress'
  BY <1>1, <1>3 DEF Progress, DoneWasAsked
<1> QED BY <1>1, <1>3, <1>4, GoesOnUnseen

(* Every step keeps the promise.                                           *)
LEMMA NextKeepsPromise ==
  ASSUME IInv, Progress, IInv', [Next]_vars
  PROVE  Progress' /\ PromiseStep
<1>0. requests \in Nat
  BY SessionAssumption, Types DEF IInv, SessionInv
<1>1. CASE UNCHANGED vars
  BY <1>1 DEF vars, history, Progress, Undrained, Drained, DoneWasAsked, Running,
              PromiseStep, Promise!vars, Untagged
<1>2. CASE \/ InformAffirmed \/ InformRetry \/ InformBreaks
           \/ RequestTransferComplete \/ RequestEmpty \/ ResponseBreaks
           \/ ResponseFault \/ ResponseFatal
  <2>1. Running /\ status # "EXECUTE" /\ status' # "EXECUTE"
    BY <1>2 DEF InformAffirmed, InformRetry, InformBreaks, RequestTransferComplete,
       RequestEmpty, ResponseBreaks, ResponseFault, ResponseFatal, Deals, Running,
       Receive, SendFails, Finish
  <2>2. UNCHANGED <<task_queue, diag, reset, queue0, requests0>>
    BY <1>2 DEF InformAffirmed, InformRetry, InformBreaks, RequestTransferComplete,
       RequestEmpty, ResponseBreaks, ResponseFault, ResponseFatal, Kept
  <2>3. UNCHANGED requests \/ (requests > 0 /\ requests' = requests - 1)
    BY <1>2 DEF InformAffirmed, InformRetry, InformBreaks, RequestTransferComplete,
       RequestEmpty, ResponseBreaks, ResponseFault, ResponseFatal
  <2>4. requests' \in 0 .. requests
    BY <1>0, <2>3
  <2> QED BY <2>1, <2>2, <2>4, QuietKeeps
<1>3. CASE ResponseOk
  BY <1>3, OkKeeps
<1>4. CASE ExecuteTask
  BY <1>4, ExecuteKeeps
<1>5. CASE ExecuteDone
  BY <1>5, DoneKeeps
<1> QED BY <1>1, <1>2, <1>3, <1>4, <1>5 DEF Next

(* A session implements its promise: seen from the control manager, it is  *)
(* one step to one of the outcomes that the manager is prepared for.       *)
THEOREM PromiseKept == Spec => EndsAsPromised
<1>1. IInv /\ Progress /\ IInv' /\ [Next]_vars => Progress' /\ PromiseStep
  BY NextKeepsPromise
<1>2. PromiseStep => [Promise!End]_(Promise!vars)
  BY DEF PromiseStep
<1> QED BY <1>1, <1>2, AlwaysIInv, InitProgress, PTL
        DEF Spec, EndsAsPromised, Promise!Spec
=============================================================================
