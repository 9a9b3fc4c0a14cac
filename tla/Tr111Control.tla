---------------------------- MODULE Tr111Control ----------------------------
(***************************************************************************)
(* The STUN client of the tr069 process (tr111_control.c): every 5 s one   *)
(* datagram is received, a STUN answer or a UDP connection request, and    *)
(* then the state machine takes a step and may send a binding request.     *)
(* The address that the STUN server sees is published in the               *)
(* configuration and reported to the ACS as a value change.                *)
(*                                                                         *)
(* The network loses, delays, duplicates and reorders answers; a time-out  *)
(* is a choice of the tick, since the timer may fire late or early.        *)
(***************************************************************************)
EXTENDS Naturals, FiniteSets

CONSTANTS
  Ip,            \* addresses the box may have in its own network
  Outer,         \* addresses a NAT may give it
  NoAddress,     \* the zero address before the first setup
  Trans,         \* how many transaction ids are told apart
  RequestId,     \* ids of UDP connection requests, not zero
  MaxRetry,      \* TR111_MSG_RETRY_TIMES
  MaxFlight      \* bound: answers under way at a time

Address == Ip \cup Outer

ASSUME Tr111Assumption == /\ NoAddress \notin Address
                          /\ Trans \in Nat /\ Trans > 1
                          /\ MaxRetry \in Nat
                          /\ RequestId \subseteq Nat \ {0}
                          /\ MaxFlight \in Nat \ {0}

VARIABLES
  handle,     \* control_handle
  config,     \* what the configuration holds of it: address, NATDetected
  informing,  \* the events reported and not yet informed
  enable,     \* STUNEnable, set by the ACS
  ip,         \* the address of the box (IPAddressReal)
  mapping,    \* the address that a STUN server would see now
  answers,    \* answers of the STUN server under way
  acs,        \* history: the address that the ACS was told last
  excused,    \* history: an Inform was lost, or setup replaced the address
  seen        \* history: the mappings since the transaction began

environment == <<enable, ip, mapping>>
vars == <<handle, config, informing, environment, answers, acs, excused, seen>>

Answer == [trans : 0 .. Trans - 1, kind : {"RESPONSE"}, signed : BOOLEAN,
           addr : Address \cup {NoAddress}]
          \cup [trans : 0 .. Trans - 1, kind : {"UNAUTHORIZED"}]
Request == [kind : {"GET"}, id : RequestId]
Silence == [kind |-> "NONE"]   \* nothing, or a datagram that does not parse

Status == {"STOP", "IDLE", "TASK", "WAIT"}
NoId == 0

TypeOK ==
  /\ handle \in [status : Status, trans : 0 .. Trans - 1,
                 retry_count : 0 .. MaxRetry + 1, auth_flag : BOOLEAN,
                 binding_change_flag : BOOLEAN,
                 sock : {"none", "unbound", "bound"},
                 local : Ip \cup {NoAddress},
                 public : Address \cup {NoAddress},
                 last_id : RequestId \cup {NoId}]
  /\ config \in [address : Address \cup {NoAddress}, nat : BOOLEAN]
  /\ informing \subseteq {"VALUE_CHANGE", "CONNECTION_REQUEST"}
  /\ {enable, excused} \subseteq BOOLEAN
  /\ ip \in Ip
  /\ mapping \in Address
  /\ answers \subseteq Answer /\ Cardinality(answers) <= MaxFlight
  /\ acs \in Address \cup {NoAddress}
  /\ seen \subseteq Address

Stopped == [status |-> "STOP", trans |-> 0, retry_count |-> 0,
            auth_flag |-> FALSE, binding_change_flag |-> FALSE,
            sock |-> "none", local |-> NoAddress, public |-> NoAddress,
            last_id |-> NoId]

Init ==
  /\ handle = Stopped
  /\ config = [address |-> NoAddress, nat |-> FALSE]
  /\ informing = {}
  /\ enable \in BOOLEAN
  /\ ip \in Ip
  /\ mapping \in Address
  /\ answers = {}
  /\ acs = NoAddress
  /\ excused = FALSE
  /\ seen = {mapping}
-----------------------------------------------------------------------------
(***************************************************************************)
(* The handlers are functions of what they read and write: the handle h,   *)
(* the configuration c and whether an inform was triggered.                *)
(***************************************************************************)
State(h, c, i) == [h |-> h, c |-> c, informing |-> i]

(* Mutant of NatTurns: that a NAT has gone is not noticed.                 *)
NatComes(h, a) == h.local = h.public /\ h.local # a
NatTurns(h, a) == (h.local = h.public) # (h.local = a)

(* Mutant of Reported: the event is not set for a NAT that turns.          *)
ReportedUnlessNat(i, changed, turns) ==
  IF changed /\ ~turns THEN i \cup {"VALUE_CHANGE"} ELSE i
Reported(i, changed, turns) ==
  IF changed \/ turns THEN i \cup {"VALUE_CHANGE"} ELSE i

Published(h, c, a) ==
  [address |-> IF h.public # a THEN a ELSE c.address,
   nat |-> IF NatTurns(h, a) THEN h.local # a ELSE c.nat]

(* The address a was learnt; a change with STUN on asks for a request.     *)
ApplyNewAddress(s, a) ==
  LET changed == s.h.public # a
  IN [h |-> IF changed /\ enable
            THEN [s.h EXCEPT !.public = a, !.status = "TASK",
                             !.retry_count = 0, !.binding_change_flag = TRUE]
            ELSE [s.h EXCEPT !.public = a],
      c |-> Published(s.h, s.c, a),
      informing |-> Reported(s.informing, changed, NatTurns(s.h, a))]

NewTransaction(s) ==
  [s EXCEPT !.h.trans = (@ + 1) % Trans, !.h.retry_count = 0,
            !.h.auth_flag = FALSE, !.h.binding_change_flag = FALSE]

(* The address of the box is published, a socket opened and perhaps bound. *)
Setup(s, bound) ==
  IF bound
  THEN [s EXCEPT !.h.sock = "bound", !.h.local = ip, !.h.public = ip,
                 !.c = [address |-> ip, nat |-> FALSE]]
  ELSE [s EXCEPT !.h.sock = "unbound", !.h.local = ip, !.c.address = ip]

(* Mutant of Belongs: any answer will do.                                  *)
BelongsToAny(h, m) == h.status = "TASK"
(* Mutant of Belongs: never; the answer is looked for in another state.    *)
BelongsWaiting(h, m) == h.status = "WAIT" /\ m.trans = h.trans

(* A STUN message is read in status TASK, for the running transaction.     *)
Belongs(h, m) == h.status = "TASK" /\ m.trans = h.trans

(* parse_message: an answer is accepted, asks for credentials or is        *)
(* refused; an accepted one ends the transaction.                          *)
ParseMessage(s, m) ==
  CASE ~Belongs(s.h, m) -> s
    [] Belongs(s.h, m) /\ m.kind = "UNAUTHORIZED" ->
         [s EXCEPT !.h.auth_flag = TRUE, !.h.retry_count = 0]
    [] Belongs(s.h, m) /\ m.kind = "RESPONSE" ->
         IF s.h.auth_flag /\ ~m.signed THEN s
         ELSE [(IF m.addr = NoAddress THEN s ELSE ApplyNewAddress(s, m.addr))
               EXCEPT !.h.status = "WAIT"]

(* A connection request with the id of the last one is a repetition.       *)
ParseUdpConnectionRequest(s, m) ==
  IF m.id = s.h.last_id THEN s
  ELSE [s EXCEPT !.h.last_id = m.id, !.informing = @ \cup {"CONNECTION_REQUEST"}]

Recvfrom(s, m) ==
  IF s.h.sock = "none" \/ m = Silence THEN s
  ELSE IF m.kind = "GET" THEN ParseUdpConnectionRequest(s, m)
  ELSE ParseMessage(s, m)

(* A binding request is due: at once, or when the last one timed out.      *)
Due(h, timeout) == h.retry_count = 0 \/ timeout
Sends(s, timeout) == /\ s.h.status = "TASK" /\ enable /\ Due(s.h, timeout)
                     /\ s.h.retry_count <= MaxRetry

(* task_proc after the receive: one step of the status.                    *)
TaskProc(s, bound, timeout) ==
  CASE s.h.status = "IDLE" ->
         IF enable THEN [Setup(NewTransaction(s), bound) EXCEPT !.h.status = "TASK"]
         ELSE s
    [] s.h.status = "TASK" ->
         IF ~enable THEN ApplyNewAddress([s EXCEPT !.h.status = "IDLE"], s.h.local)
         ELSE IF Sends(s, timeout) THEN [s EXCEPT !.h.retry_count = @ + 1]
         ELSE IF Due(s.h, timeout) THEN NewTransaction(s)
         ELSE s
    [] s.h.status = "WAIT" ->
         IF timeout THEN [NewTransaction(s) EXCEPT !.h.status = "TASK"] ELSE s
    [] OTHER -> s
-----------------------------------------------------------------------------
(* What the server says to a request: the address it sees, or that it wants *)
(* credentials, or no more than that it is there.                           *)
Replies(h) ==
  {[trans |-> h.trans, kind |-> "RESPONSE", signed |-> h.auth_flag, addr |-> a] :
      a \in {mapping, NoAddress}}
  \cup IF h.auth_flag THEN {}
       ELSE {[trans |-> h.trans, kind |-> "UNAUTHORIZED"]}

(* The server's answers to what is sent join those under way, of which any *)
(* may get lost; an id is not used again while an answer with it lives.    *)
Network(sent) ==
  LET live == IF handle'.trans = handle.trans THEN answers
              ELSE {a \in answers : a.trans # handle'.trans}
  IN \E kept \in (SUBSET live) \cup {{a} \cup k : a \in sent, k \in SUBSET live} :
       /\ Cardinality(kept) <= MaxFlight
       /\ answers' = kept

(* One run of the 5 s timer: m is received, then the status takes a step.  *)
Tick(m, bound, timeout) ==
  LET received == Recvfrom(State(handle, config, informing), m)
      done == TaskProc(received, bound, timeout)
      setup == received.h.status = "IDLE" /\ done.h.status = "TASK"
  IN /\ handle.status # "STOP"
     /\ handle' = done.h
     /\ config' = done.c
     /\ informing' = done.informing
     /\ Network(IF Sends(received, timeout) THEN Replies(done.h) ELSE {})
     /\ excused' = (excused \/ (setup /\ done.c.address # config.address))
     /\ seen' = IF done.h.trans # handle.trans THEN {mapping} ELSE seen
     /\ UNCHANGED <<environment, acs>>

SomeTick == \E m \in answers \cup Request \cup {Silence}, timeout \in BOOLEAN :
              \E bound \in (IF handle.status = "IDLE" THEN BOOLEAN ELSE {TRUE}) :
                Tick(m, bound, timeout)

MainTask == /\ handle.status = "STOP"
            /\ handle' = [handle EXCEPT !.status = "IDLE"]
            /\ UNCHANGED <<config, informing, environment, answers, acs, excused, seen>>

(* The process ends; what it reported survives if it could dump it.        *)
Restart == /\ handle.status # "STOP"
           /\ handle' = Stopped
           /\ informing' \in {informing, {}}
           /\ excused' = (excused \/ (informing # informing'))
           /\ answers' = {}
           /\ UNCHANGED <<config, environment, acs, seen>>
-----------------------------------------------------------------------------
(* The rest of the world: a session that carries the address, or fails and *)
(* loses it; the ACS's switch; the box's own address; the NAT.             *)
Inform == /\ informing # {}
          /\ informing' = {}
          /\ \/ "VALUE_CHANGE" \in informing /\ acs' = config.address /\ excused' = FALSE
             \/ "VALUE_CHANGE" \notin informing /\ UNCHANGED <<acs, excused>>
          /\ UNCHANGED <<handle, config, environment, answers, seen>>

InformFails == /\ informing # {}
               /\ informing' = {}
               /\ excused' = TRUE
               /\ UNCHANGED <<handle, config, environment, answers, acs, seen>>

SetEnable == /\ enable' = ~enable
             /\ UNCHANGED <<handle, config, informing, ip, mapping, answers,
                            acs, excused, seen>>

Readdress == /\ ip' \in Ip
             /\ mapping' \in Outer \cup {ip'}
             /\ seen' = seen \cup {mapping'}
             /\ UNCHANGED <<handle, config, informing, enable, answers, acs, excused>>

Next == SomeTick \/ MainTask \/ Restart \/ Inform \/ InformFails \/ SetEnable \/ Readdress

Spec == Init /\ [][Next]_vars
-----------------------------------------------------------------------------
(* Fairness: the timer fires and time-outs expire, reports are informed,   *)
(* and the network, however lossy, now and then lets a binding request and *)
(* its answer through.                                                     *)
Useful(a) == /\ a.kind = "RESPONSE" /\ a.addr = mapping
             /\ handle.auth_flag => a.signed
             /\ Belongs(handle, a)
TimedOut == Tick(Silence, TRUE, TRUE)
Asked == TimedOut /\ \E a \in answers' : Useful(a)'
Heard == \E a \in answers : Useful(a) /\ Tick(a, TRUE, TRUE)

FairSpec == /\ Spec
            /\ WF_vars(MainTask) /\ WF_vars(TimedOut) /\ WF_vars(Inform)
            /\ SF_vars(Asked) /\ SF_vars(Heard)
-----------------------------------------------------------------------------
(* While the socket is bound, NATDetected says if the public address is    *)
(* the box's own: it is turned by comparing three addresses at each answer *)
(* and at each end of STUN.                                                *)
NatFlag == handle.sock = "bound" => config.nat = (handle.public # handle.local)

(* The address that others find in the configuration is the one that       *)
(* answers and setups have led to.                                         *)
AddressPublished == handle.sock = "bound" => config.address = handle.public

(* The ACS knows the published address, unless the report is on its way,   *)
(* an Inform was lost or setup replaced the address without a report.      *)
AcsKnows == acs = config.address \/ "VALUE_CHANGE" \in informing \/ excused

(* An answer moves the public address only to one that the box had after   *)
(* the running transaction began: an answer that comes too late is not     *)
(* taken for a new one.  (A setup and an end of STUN use the box's own.)   *)
AnswerIsCurrent ==
  [][handle'.public # handle.public /\ handle'.status = "WAIT"
     => handle'.public \in seen]_vars

(* With STUN on and the mapping at rest, the client finds the address, and *)
(* the ACS is told, whatever was lost, late, doubled or refused before.    *)
Settled(a) == enable /\ mapping = a /\ handle.status # "STOP"
Converges ==
  \A a \in Address :
    <>[]Settled(a) => <>[](handle.public = a /\ (acs = a \/ excused))

(* Types, and the published address.                                        *)
AddressInv == TypeOK /\ NatFlag /\ AddressPublished
=============================================================================
