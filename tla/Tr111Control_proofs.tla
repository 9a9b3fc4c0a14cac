------------------------ MODULE Tr111Control_proofs ------------------------
(***************************************************************************)
(* Theorems about the STUN client, for any addresses, transaction ids,     *)
(* retries and answers under way: types, the published address with its    *)
(* flag, what the ACS knows of it, and that no late answer is taken for    *)
(* one of the running transaction.                                         *)
(***************************************************************************)
EXTENDS Tr111Control, FiniteSetTheorems, TLAPS

Handle == [status : Status, trans : 0 .. Trans - 1,
           retry_count : 0 .. MaxRetry + 1, auth_flag : BOOLEAN,
           binding_change_flag : BOOLEAN,
           sock : {"none", "unbound", "bound"},
           local : Ip \cup {NoAddress},
           public : Address \cup {NoAddress},
           last_id : RequestId \cup {NoId}]
Config == [address : Address \cup {NoAddress}, nat : BOOLEAN]
Event == {"VALUE_CHANGE", "CONNECTION_REQUEST"}

States == [h : Handle, c : Config, informing : SUBSET Event]

(* NatFlag and AddressPublished of what a handler works on.                *)
Sound(s) == s.h.sock = "bound" => /\ s.c.nat = (s.h.public # s.h.local)
                                  /\ s.c.address = s.h.public

(* From s to t, a change of the published address is reported.             *)
Tells(s, t) == /\ s.informing \subseteq t.informing
               /\ \/ t.c.address = s.c.address
                  \/ "VALUE_CHANGE" \in t.informing

(* apply_new_address: the address that is told is the one that is known.   *)
LEMMA ApplyNewAddressSound ==
  ASSUME NEW s \in States, Sound(s), NEW a \in Address \cup {NoAddress}
  PROVE  /\ ApplyNewAddress(s, a) \in States
         /\ Sound(ApplyNewAddress(s, a)) /\ Tells(s, ApplyNewAddress(s, a))
         /\ ApplyNewAddress(s, a).h.trans = s.h.trans
         /\ ApplyNewAddress(s, a).h.status \in {s.h.status, "TASK"}
<1> DEFINE h1 == [s.h EXCEPT !.public = a]
           h2 == [s.h EXCEPT !.public = a, !.status = "TASK",
                             !.retry_count = 0, !.binding_change_flag = TRUE]
           changed == s.h.public # a
           t == ApplyNewAddress(s, a)
<1>1. s.h \in Handle /\ s.c \in Config /\ s.informing \in SUBSET Event
  BY DEF States
<1>2. /\ h1 \in Handle /\ h1.public = a /\ h1.local = s.h.local /\ h1.sock = s.h.sock
      /\ h1.trans = s.h.trans /\ h1.status = s.h.status
  BY <1>1 DEF Handle
<1>3. /\ h2 \in Handle /\ h2.public = a /\ h2.local = s.h.local /\ h2.sock = s.h.sock
      /\ h2.trans = s.h.trans /\ h2.status = "TASK"
  <2>1. 0 \in 0 .. MaxRetry + 1
    BY Tr111Assumption
  <2> QED
    BY <1>1, <2>1 DEF Handle, Status
<1>4. t = [h |-> IF changed /\ enable THEN h2 ELSE h1,
           c |-> Published(s.h, s.c, a),
           informing |-> Reported(s.informing, changed, NatTurns(s.h, a))]
  BY DEF ApplyNewAddress
<1>5. Published(s.h, s.c, a) \in Config
  BY <1>1 DEF Published, Config, NatTurns
<1>6. /\ Reported(s.informing, changed, NatTurns(s.h, a)) \in SUBSET Event
      /\ s.informing \subseteq Reported(s.informing, changed, NatTurns(s.h, a))
      /\ changed => "VALUE_CHANGE" \in Reported(s.informing, changed, NatTurns(s.h, a))
  BY <1>1 DEF Reported, Event
<1>7. s.h.sock = "bound" =>
        /\ Published(s.h, s.c, a).nat = (a # s.h.local)
        /\ Published(s.h, s.c, a).address = a
  BY <1>1 DEF Published, NatTurns, Sound, Config
<1>8. ~ changed => Published(s.h, s.c, a).address = s.c.address
  BY DEF Published
<1> HIDE DEF h1, h2, changed
<1>9. t \in States
  BY <1>2, <1>3, <1>4, <1>5, <1>6 DEF States
<1>10. t.h.public = a /\ t.h.local = s.h.local /\ t.h.sock = s.h.sock
  BY <1>2, <1>3, <1>4
<1>11. t.h.trans = s.h.trans /\ t.h.status \in {s.h.status, "TASK"}
  BY <1>2, <1>3, <1>4
<1>12. t.c = Published(s.h, s.c, a)
  BY <1>4
<1>13. Sound(t)
  BY <1>7, <1>10, <1>12 DEF Sound
<1>14. Tells(s, t)
  BY <1>4, <1>6, <1>8, <1>12 DEF Tells
<1> QED
  BY <1>9, <1>11, <1>13, <1>14

(* What one step tells the ACS, two steps tell.                            *)
LEMMA TellsTransitive ==
  ASSUME NEW s \in States, NEW t \in States, NEW u \in States, Tells(s, t), Tells(t, u)
  PROVE  Tells(s, u)
BY DEF Tells

(* new_transaction leaves the address and the configuration alone.         *)
LEMMA NewTransactionSound ==
  ASSUME NEW s \in States, Sound(s)
  PROVE  LET t == NewTransaction(s)
         IN  /\ t \in States /\ Sound(t) /\ Tells(s, t)
             /\ t.c = s.c /\ t.informing = s.informing
             /\ t.h.sock = s.h.sock /\ t.h.status = s.h.status
<1> DEFINE h1 == [s.h EXCEPT !.trans = (@ + 1) % Trans, !.retry_count = 0,
                             !.auth_flag = FALSE, !.binding_change_flag = FALSE]
           t == NewTransaction(s)
<1>1. s.h \in Handle /\ s.c \in Config /\ s.informing \in SUBSET Event
  BY DEF States
<1>2. /\ h1 \in Handle /\ h1.public = s.h.public /\ h1.local = s.h.local
      /\ h1.sock = s.h.sock /\ h1.status = s.h.status
  <2>1. \A n \in 0 .. Trans - 1 : (n + 1) % Trans \in 0 .. Trans - 1
    BY Tr111Assumption
  <2>2. 0 \in 0 .. MaxRetry + 1
    BY Tr111Assumption
  <2> DEFINE n == (s.h.trans + 1) % Trans
  <2>3. n \in 0 .. Trans - 1
    BY <1>1, <2>1 DEF Handle
  <2> HIDE DEF n
  <2>4. h1 = [s.h EXCEPT !.trans = n, !.retry_count = 0,
                         !.auth_flag = FALSE, !.binding_change_flag = FALSE]
    BY <1>1 DEF Handle, n
  <2> QED
    BY <1>1, <2>2, <2>3, <2>4 DEF Handle
<1>3. t = [s EXCEPT !.h = h1]
  BY <1>1 DEF NewTransaction, States
<1> HIDE DEF h1, t
<1>4. t.h = h1 /\ t.c = s.c /\ t.informing = s.informing /\ t \in States
  BY <1>1, <1>2, <1>3 DEF States
<1> QED
  BY <1>2, <1>4 DEF Sound, Tells, t

(* Setup and the status it leads to.                                       *)
LEMMA SetupSound ==
  ASSUME NEW s \in States, NEW bound \in BOOLEAN, ip \in Ip
  PROVE  LET t == [Setup(s, bound) EXCEPT !.h.status = "TASK"]
         IN  t \in States /\ Sound(t) /\ t.informing = s.informing
<1> DEFINE hb == [s.h EXCEPT !.sock = "bound", !.local = ip, !.public = ip]
           hu == [s.h EXCEPT !.sock = "unbound", !.local = ip]
           cu == [s.c EXCEPT !.address = ip]
<1>1. s.h \in Handle /\ s.c \in Config /\ s.informing \in SUBSET Event
  BY DEF States
<1>2. hb \in Handle /\ hb.public = ip /\ hb.local = ip
  BY <1>1 DEF Handle, Address
<1>3. hu \in Handle /\ hu.sock = "unbound"
  BY <1>1 DEF Handle
<1>4. cu \in Config /\ [address |-> ip, nat |-> FALSE] \in Config
  BY <1>1 DEF Config, Address
<1>5. Setup(s, bound) = IF bound THEN [s EXCEPT !.h = hb, !.c = [address |-> ip, nat |-> FALSE]]
                                 ELSE [s EXCEPT !.h = hu, !.c = cu]
  BY <1>1 DEF Setup, States
<1> HIDE DEF hb, hu, cu
<1>6. \A h \in Handle : /\ [h EXCEPT !.status = "TASK"] \in Handle
                        /\ [h EXCEPT !.status = "TASK"].public = h.public
                        /\ [h EXCEPT !.status = "TASK"].local = h.local
                        /\ [h EXCEPT !.status = "TASK"].sock = h.sock
  BY DEF Handle, Status
<1> DEFINE t == [Setup(s, bound) EXCEPT !.h.status = "TASK"]
<1>7. CASE bound
  <2> DEFINE h1 == [hb EXCEPT !.status = "TASK"]
  <2>1. h1 \in Handle /\ h1.public = ip /\ h1.local = ip
    BY <1>2, <1>6
  <2>2. t = [s EXCEPT !.h = h1, !.c = [address |-> ip, nat |-> FALSE]]
    BY <1>5, <1>7 DEF States
  <2> HIDE DEF h1, t
  <2>3. /\ t.h = h1 /\ t.c = [address |-> ip, nat |-> FALSE]
        /\ t.informing = s.informing /\ t \in States
    BY <1>4, <2>1, <2>2 DEF States
  <2>4. t.c.nat = FALSE /\ t.c.address = ip /\ (t.h.public # t.h.local) = FALSE
    BY <2>1, <2>3
  <2>5. Sound(t)
    BY <2>1, <2>3, <2>4 DEF Sound
  <2> QED
    BY <2>3, <2>5 DEF t
<1>8. CASE ~ bound
  <2> DEFINE h1 == [hu EXCEPT !.status = "TASK"]
  <2>1. h1 \in Handle /\ h1.sock = "unbound"
    BY <1>3, <1>6
  <2>2. t = [s EXCEPT !.h = h1, !.c = cu]
    BY <1>5, <1>8 DEF States
  <2> HIDE DEF h1, t
  <2>3. t.h = h1 /\ t.informing = s.informing /\ t \in States
    BY <1>4, <2>1, <2>2 DEF States
  <2> QED
    BY <2>1, <2>3 DEF Sound, t
<1> QED
  BY <1>7, <1>8

(* So does waiting.                                                        *)
LEMMA Waits ==
  ASSUME NEW s \in States, Sound(s)
  PROVE  LET t == [s EXCEPT !.h.status = "WAIT"]
         IN  t \in States /\ Sound(t) /\ Tells(s, t) /\ t.h.trans = s.h.trans
<1> DEFINE h1 == [s.h EXCEPT !.status = "WAIT"]
           t == [s EXCEPT !.h.status = "WAIT"]
<1>1. s.h \in Handle /\ s.c \in Config /\ s.informing \in SUBSET Event
  BY DEF States
<1>2. /\ h1 \in Handle /\ h1.public = s.h.public /\ h1.local = s.h.local
      /\ h1.sock = s.h.sock /\ h1.trans = s.h.trans
  BY <1>1 DEF Handle, Status
<1>3. t = [s EXCEPT !.h = h1]
  BY <1>1 DEF States
<1> HIDE DEF h1, t
<1>4. t.h = h1 /\ t.c = s.c /\ t.informing = s.informing /\ t \in States
  BY <1>1, <1>2, <1>3 DEF States
<1> QED
  BY <1>2, <1>4 DEF Sound, Tells, t

Message == Answer \cup Request \cup {Silence}

(* A message, of whatever transaction, keeps the address told.             *)
LEMMA RecvfromSound ==
  ASSUME NEW s \in States, Sound(s), NEW m \in Message
  PROVE  LET t == Recvfrom(s, m)
         IN  /\ t \in States /\ Sound(t) /\ Tells(s, t)
             /\ t.h.trans = s.h.trans
<1>0. s.h \in Handle /\ s.c \in Config /\ s.informing \in SUBSET Event
  BY DEF States
<1>1. Tells(s, s)
  BY DEF Tells
<1>2. CASE Recvfrom(s, m) = s
  BY <1>1, <1>2
<1>3. CASE s.h.sock # "none" /\ m # Silence /\ m.kind = "GET" /\ m.id # s.h.last_id
  <2> DEFINE h1 == [s.h EXCEPT !.last_id = m.id]
             t == Recvfrom(s, m)
  <2>1. m.id \in RequestId
    BY <1>3 DEF Message, Answer, Request
  <2>2. /\ h1 \in Handle /\ h1.public = s.h.public /\ h1.local = s.h.local
        /\ h1.sock = s.h.sock /\ h1.trans = s.h.trans /\ h1.status = s.h.status
    BY <1>0, <2>1 DEF Handle
  <2>3. t = [s EXCEPT !.h = h1, !.informing = s.informing \cup {"CONNECTION_REQUEST"}]
    BY <1>0, <1>3 DEF Recvfrom, ParseUdpConnectionRequest, States
  <2> HIDE DEF h1, t
  <2>4. /\ t.h = h1 /\ t.c = s.c
        /\ t.informing = s.informing \cup {"CONNECTION_REQUEST"}
        /\ t \in States
    BY <1>0, <2>2, <2>3 DEF States, Event
  <2>5. t.informing \subseteq Event
    BY <1>0, <2>4 DEF Event
  <2>6. Sound(t) /\ Tells(s, t) /\ t.h.trans = s.h.trans
    BY <2>2, <2>4 DEF Sound, Tells
  <2> QED
    BY <2>4, <2>6 DEF t
<1>4. CASE Recvfrom(s, m) = [s EXCEPT !.h.auth_flag = TRUE, !.h.retry_count = 0]
  <2> DEFINE h1 == [s.h EXCEPT !.auth_flag = TRUE, !.retry_count = 0]
             t == Recvfrom(s, m)
  <2>1. /\ h1 \in Handle /\ h1.public = s.h.public /\ h1.local = s.h.local
        /\ h1.sock = s.h.sock /\ h1.trans = s.h.trans
    <3>1. 0 \in 0 .. MaxRetry + 1
      BY Tr111Assumption
    <3> QED
      BY <1>0, <3>1 DEF Handle
  <2>2. t = [s EXCEPT !.h = h1]
    BY <1>0, <1>4 DEF States
  <2> HIDE DEF h1, t
  <2>3. t.h = h1 /\ t.c = s.c /\ t.informing = s.informing /\ t \in States
    BY <1>0, <2>1, <2>2 DEF States
  <2> QED
    BY <2>1, <2>3 DEF Sound, Tells, t
<1>5. CASE Recvfrom(s, m) = [s EXCEPT !.h.status = "WAIT"]
  <2> QED
    BY <1>0, <1>5, Waits
<1>6. ASSUME NEW a \in Address,
             Recvfrom(s, m) = [ApplyNewAddress(s, a) EXCEPT !.h.status = "WAIT"]
      PROVE  LET t == Recvfrom(s, m)
             IN  t \in States /\ Sound(t) /\ Tells(s, t) /\ t.h.trans = s.h.trans
  <2> DEFINE u == ApplyNewAddress(s, a)
  <2>1. u \in States /\ Sound(u) /\ Tells(s, u) /\ u.h.trans = s.h.trans
    BY ApplyNewAddressSound
  <2> HIDE DEF u
  <2> DEFINE t == [u EXCEPT !.h.status = "WAIT"]
  <2>2. t \in States /\ Sound(t) /\ Tells(u, t) /\ t.h.trans = u.h.trans
    BY <2>1, Waits
  <2>3. Recvfrom(s, m) = t
    BY <1>6 DEF u
  <2> HIDE DEF t
  <2> QED
    BY <2>1, <2>2, <2>3, TellsTransitive
<1>7. m = Silence \/ m \in Request \/ m \in Answer
  BY DEF Message
<1>8. CASE m = Silence
  BY <1>2, <1>8 DEF Recvfrom
<1>9. CASE m \in Request
  <2>1. m.kind = "GET" /\ m # Silence
    BY <1>9 DEF Request, Silence
  <2> QED
    BY <1>2, <1>3, <2>1 DEF Recvfrom, ParseUdpConnectionRequest
<1>10. CASE m \in Answer
  <2>1. /\ m.kind \in {"RESPONSE", "UNAUTHORIZED"} /\ m # Silence
        /\ m.kind = "RESPONSE" => m.addr \in Address \cup {NoAddress}
    BY <1>10 DEF Answer, Silence
  <2>2. CASE s.h.sock = "none" \/ ~ Belongs(s.h, m)
    BY <1>2, <2>1, <2>2 DEF Recvfrom, ParseMessage
  <2>3. CASE s.h.sock # "none" /\ Belongs(s.h, m) /\ m.kind = "UNAUTHORIZED"
    <3>1. Recvfrom(s, m) = [s EXCEPT !.h.auth_flag = TRUE, !.h.retry_count = 0]
      BY <2>1, <2>3 DEF Recvfrom, ParseMessage
    <3> QED
      BY <1>4, <3>1
  <2>4. CASE s.h.sock # "none" /\ Belongs(s.h, m) /\ m.kind = "RESPONSE"
    <3>1. Recvfrom(s, m) = IF s.h.auth_flag /\ ~m.signed THEN s
             ELSE [(IF m.addr = NoAddress THEN s ELSE ApplyNewAddress(s, m.addr))
                   EXCEPT !.h.status = "WAIT"]
      BY <2>1, <2>4 DEF Recvfrom, ParseMessage
    <3>2. CASE s.h.auth_flag /\ ~m.signed
      BY <1>2, <3>1, <3>2
    <3>3. CASE ~ (s.h.auth_flag /\ ~m.signed) /\ m.addr = NoAddress
      <4>1. Recvfrom(s, m) = [s EXCEPT !.h.status = "WAIT"]
        BY <3>1, <3>3
      <4> QED
        BY <1>5, <4>1
    <3>4. CASE ~ (s.h.auth_flag /\ ~m.signed) /\ m.addr # NoAddress
      <4>1. Recvfrom(s, m) = [ApplyNewAddress(s, m.addr) EXCEPT !.h.status = "WAIT"]
        BY <3>1, <3>4
      <4>2. m.addr \in Address
        BY <2>1, <2>4, <3>4
      <4> QED
        BY <1>6, <4>1, <4>2
    <3> QED
      BY <3>2, <3>3, <3>4
  <2> QED
    BY <2>1, <2>2, <2>3, <2>4
<1> QED
  BY <1>7, <1>8, <1>9, <1>10

(* A step of the status tells what it publishes, but for a setup.          *)
LEMMA TaskProcSound ==
  ASSUME NEW s \in States, Sound(s), NEW bound \in BOOLEAN, NEW timeout \in BOOLEAN, ip \in Ip
  PROVE  LET t == TaskProc(s, bound, timeout)
         IN  /\ t \in States /\ Sound(t)
             /\ \/ Tells(s, t)
                \/ /\ s.h.status = "IDLE" /\ t.h.status = "TASK"
                   /\ t.informing = s.informing
<1>0. s.h \in Handle /\ s.c \in Config /\ s.informing \in SUBSET Event
  BY DEF States
<1>1. Tells(s, s)
  BY DEF Tells
<1>2. CASE TaskProc(s, bound, timeout) = s
  BY <1>1, <1>2
<1>3. CASE s.h.status = "IDLE"
  <2> DEFINE n == NewTransaction(s)
  <2>1. n \in States /\ Sound(n) /\ n.informing = s.informing
    BY NewTransactionSound
  <2> HIDE DEF n
  <2> DEFINE t == [Setup(n, bound) EXCEPT !.h.status = "TASK"]
  <2>2. t \in States /\ Sound(t) /\ t.informing = n.informing
    BY <2>1, SetupSound
  <2>3. Setup(n, bound) \in [h : Handle, c : Config, informing : SUBSET Event]
    <3>1. n.h \in Handle /\ n.c \in Config /\ n = [h |-> n.h, c |-> n.c, informing |-> n.informing]
      BY <2>1 DEF States
    <3>2. /\ [n.h EXCEPT !.sock = "bound", !.local = ip, !.public = ip] \in Handle
          /\ [n.h EXCEPT !.sock = "unbound", !.local = ip] \in Handle
      BY <3>1 DEF Handle, Address
    <3>3. [n.c EXCEPT !.address = ip] \in Config /\ [address |-> ip, nat |-> FALSE] \in Config
      BY <3>1 DEF Config, Address
    <3>4. CASE bound
      <4>1. Setup(n, bound) = [n EXCEPT !.h = [n.h EXCEPT !.sock = "bound", !.local = ip, !.public = ip],
                                        !.c = [address |-> ip, nat |-> FALSE]]
        BY <2>1, <3>4 DEF Setup, States
      <4> QED
        BY <2>1, <3>2, <3>3, <4>1 DEF States
    <3>5. CASE ~ bound
      <4>1. Setup(n, bound) = [n EXCEPT !.h = [n.h EXCEPT !.sock = "unbound", !.local = ip],
                                        !.c = [n.c EXCEPT !.address = ip]]
        BY <2>1, <3>5 DEF Setup, States
      <4> QED
        BY <2>1, <3>2, <3>3, <4>1 DEF States
    <3> QED
      BY <3>4, <3>5
  <2>4. t.h.status = "TASK"
    BY <2>3 DEF Handle
  <2>5. enable => TaskProc(s, bound, timeout) = t
    BY <1>3 DEF TaskProc, n
  <2>6. ~ enable => TaskProc(s, bound, timeout) = s
    BY <1>3 DEF TaskProc
  <2> HIDE DEF t
  <2> QED
    BY <1>2, <1>3, <2>1, <2>2, <2>4, <2>5, <2>6
<1>4. CASE s.h.status = "TASK" /\ ~ enable
  <2> DEFINE h1 == [s.h EXCEPT !.status = "IDLE"]
             i == [s EXCEPT !.h.status = "IDLE"]
  <2>1. /\ h1 \in Handle /\ h1.public = s.h.public /\ h1.local = s.h.local
        /\ h1.sock = s.h.sock
    BY <1>0 DEF Handle, Status
  <2>2. i = [s EXCEPT !.h = h1]
    BY <1>0 DEF States
  <2> HIDE DEF h1, i
  <2>3. i.h = h1 /\ i.c = s.c /\ i.informing = s.informing /\ i \in States
    BY <1>0, <2>1, <2>2 DEF States
  <2>4. Sound(i) /\ Tells(s, i)
    BY <2>1, <2>3 DEF Sound, Tells
  <2> DEFINE t == ApplyNewAddress(i, s.h.local)
  <2>5. s.h.local \in Address \cup {NoAddress}
    BY <1>0 DEF Handle, Address
  <2>6. t \in States /\ Sound(t) /\ Tells(i, t)
    BY <2>3, <2>4, <2>5, ApplyNewAddressSound
  <2>7. TaskProc(s, bound, timeout) = t
    BY <1>4 DEF TaskProc, i
  <2> HIDE DEF t
  <2> QED
    BY <2>3, <2>4, <2>6, <2>7, TellsTransitive
<1>5. CASE TaskProc(s, bound, timeout) = NewTransaction(s)
  BY <1>5, NewTransactionSound
<1>6. CASE s.h.status = "TASK" /\ enable
  <2>1. CASE Sends(s, timeout)
    <3> DEFINE h1 == [s.h EXCEPT !.retry_count = s.h.retry_count + 1]
               t == TaskProc(s, bound, timeout)
    <3>1. s.h.retry_count + 1 \in 0 .. MaxRetry + 1
      BY <1>0, <2>1, Tr111Assumption DEF Sends, Handle
    <3>2. /\ h1 \in Handle /\ h1.public = s.h.public /\ h1.local = s.h.local
          /\ h1.sock = s.h.sock
      BY <1>0, <3>1 DEF Handle
    <3>3. t = [s EXCEPT !.h = h1]
      <4>1. t = [s EXCEPT !.h.retry_count = @ + 1]
        BY <1>6, <2>1 DEF TaskProc
      <4> QED
        BY <1>0, <4>1 DEF States, Handle
    <3> HIDE DEF h1, t
    <3>4. t.h = h1 /\ t.c = s.c /\ t.informing = s.informing /\ t \in States
      BY <1>0, <3>2, <3>3 DEF States
    <3> QED
      BY <3>2, <3>4 DEF Sound, Tells, t
  <2>2. CASE ~ Sends(s, timeout)
    <3>1. TaskProc(s, bound, timeout) \in {NewTransaction(s), s}
      BY <1>6, <2>2 DEF TaskProc
    <3> QED
      BY <1>2, <1>5, <3>1
  <2> QED
    BY <2>1, <2>2
<1>7. CASE s.h.status = "WAIT" /\ timeout
  <2> DEFINE n == NewTransaction(s)
  <2>1. n \in States /\ Sound(n) /\ Tells(s, n)
    BY NewTransactionSound
  <2>2. TaskProc(s, bound, timeout) = [n EXCEPT !.h.status = "TASK"]
    BY <1>7 DEF TaskProc
  <2> HIDE DEF n
  <2> DEFINE h1 == [n.h EXCEPT !.status = "TASK"]
             t == [n EXCEPT !.h.status = "TASK"]
  <2>3. n.h \in Handle
    BY <2>1 DEF States
  <2>4. /\ h1 \in Handle /\ h1.public = n.h.public /\ h1.local = n.h.local
        /\ h1.sock = n.h.sock
    BY <2>3 DEF Handle, Status
  <2>5. t = [n EXCEPT !.h = h1]
    BY <2>1 DEF States
  <2> HIDE DEF h1, t
  <2>6. t.h = h1 /\ t.c = n.c /\ t.informing = n.informing /\ t \in States
    BY <2>1, <2>4, <2>5 DEF States
  <2>7. Sound(t) /\ Tells(s, t)
    BY <2>1, <2>4, <2>6 DEF Sound, Tells
  <2> QED
    BY <2>2, <2>6, <2>7 DEF t
<1>8. CASE (s.h.status = "WAIT" /\ ~ timeout) \/ s.h.status = "STOP"
  <2>1. TaskProc(s, bound, timeout) = s
    BY <1>8 DEF TaskProc
  <2> QED
    BY <1>2, <2>1
<1>9. s.h.status \in {"STOP", "IDLE", "TASK", "WAIT"}
  BY <1>0 DEF Handle, Status
<1> QED
  BY <1>3, <1>4, <1>6, <1>7, <1>8, <1>9

(* The invariant.                                                          *)
Invariant == AddressInv /\ AcsKnows

(* The variables make up a state as the operators take it.                 *)
LEMMA Now ==
  TypeOK => /\ handle \in Handle /\ config \in Config /\ informing \in SUBSET Event
            /\ State(handle, config, informing) \in States
<1> SUFFICES ASSUME TypeOK
             PROVE  /\ handle \in Handle /\ config \in Config /\ informing \in SUBSET Event
                    /\ State(handle, config, informing) \in States
  OBVIOUS
<1>1. handle \in Handle /\ config \in Config /\ informing \in SUBSET Event
  BY DEF TypeOK, Handle, Config, Event
<1> QED
  BY <1>1 DEF State, States

(* The network loses and delays answers and invents none.                  *)
LEMMA NetworkTyped ==
  ASSUME TypeOK, handle' \in Handle, NEW sent \in SUBSET Answer, Network(sent)
  PROVE  answers' \subseteq Answer /\ Cardinality(answers') <= MaxFlight
<1> DEFINE live == IF handle'.trans = handle.trans THEN answers
                   ELSE {a \in answers : a.trans # handle'.trans}
<1>1. PICK kept \in (SUBSET live) \cup {{a} \cup k : a \in sent, k \in SUBSET live} :
        Cardinality(kept) <= MaxFlight /\ answers' = kept
  BY DEF Network
<1>2. live \subseteq Answer
  BY DEF TypeOK
<1> HIDE DEF live
<1>3. kept \subseteq Answer
  BY <1>1, <1>2
<1> QED
  BY <1>1, <1>3

(* The server answers with the mapping of the gateway.                     *)
LEMMA RepliesTyped ==
  ASSUME mapping \in Address, NEW h \in Handle
  PROVE  Replies(h) \subseteq Answer
BY DEF Replies, Answer, Handle

(* One turn of the thread keeps the invariant.                             *)
LEMMA TickHolds ==
  ASSUME Invariant, NEW m \in Message, NEW bound \in BOOLEAN, NEW timeout \in BOOLEAN,
         Tick(m, bound, timeout)
  PROVE  Invariant'
<1> DEFINE s == State(handle, config, informing)
           r == Recvfrom(s, m)
           d == TaskProc(r, bound, timeout)
           setup == r.h.status = "IDLE" /\ d.h.status = "TASK"
           sent == IF Sends(r, timeout) THEN Replies(d.h) ELSE {}
<1>1. TypeOK /\ NatFlag /\ AddressPublished /\ AcsKnows
  BY DEF Invariant, AddressInv
<1>2. /\ s \in States /\ s.h = handle /\ s.c = config /\ s.informing = informing
  BY <1>1, Now DEF State
<1>3. Sound(s)
  BY <1>1, <1>2 DEF Sound, NatFlag, AddressPublished
<1>4. /\ handle' = d.h /\ config' = d.c /\ informing' = d.informing
      /\ Network(sent)
      /\ excused' = (excused \/ (setup /\ d.c.address # config.address))
      /\ seen' = IF d.h.trans # handle.trans THEN {mapping} ELSE seen
      /\ UNCHANGED <<environment, acs>>
  BY DEF Tick
<1> HIDE DEF s
<1>5. r \in States /\ Sound(r) /\ Tells(s, r)
  BY <1>2, <1>3, RecvfromSound
<1> HIDE DEF r
<1>6. ip \in Ip /\ mapping \in Address /\ excused \in BOOLEAN
  BY <1>1 DEF TypeOK
<1>7. /\ d \in States /\ Sound(d)
      /\ Tells(r, d) \/ (setup /\ d.informing = r.informing)
  BY <1>5, <1>6, TaskProcSound
<1>8. d.h \in Handle /\ d.c \in Config /\ d.informing \in SUBSET Event
  BY <1>7 DEF States
<1>9. sent \subseteq Answer
  BY <1>6, <1>8, RepliesTyped
<1>10. answers' \subseteq Answer /\ Cardinality(answers') <= MaxFlight
  BY <1>1, <1>4, <1>8, <1>9, NetworkTyped
<1> HIDE DEF d, setup, sent
<1>12. TypeOK'
  <2>1. handle' \in Handle /\ config' \in Config /\ informing' \in SUBSET Event
    BY <1>4, <1>8
  <2>2. excused' \in BOOLEAN
    BY <1>4
  <2>3. /\ enable' \in BOOLEAN /\ ip' \in Ip /\ mapping' \in Address
        /\ acs' \in Address \cup {NoAddress}
    BY <1>1, <1>4 DEF TypeOK, environment
  <2>4. seen' \subseteq Address
    BY <1>1, <1>4, <1>6 DEF TypeOK
  <2> QED
    BY <1>10, <2>1, <2>2, <2>3, <2>4 DEF TypeOK, Handle, Config, Event
<1>13. NatFlag' /\ AddressPublished'
  BY <1>4, <1>7 DEF Sound, NatFlag, AddressPublished
<1>14. AcsKnows'
  <2>1. CASE Tells(r, d)
    <3>1. Tells(s, d)
      BY <1>2, <1>5, <1>7, <2>1, TellsTransitive
    <3> QED
      BY <1>1, <1>2, <1>4, <3>1 DEF Tells, AcsKnows
  <2>2. CASE setup /\ d.informing = r.informing
    <3>1. informing \subseteq informing'
      BY <1>2, <1>4, <1>5, <2>2 DEF Tells
    <3>2. excused => excused'
      BY <1>4
    <3>3. config'.address # config.address => excused'
      BY <1>4, <2>2
    <3> QED
      BY <1>1, <1>4, <3>1, <3>2, <3>3 DEF AcsKnows
  <2> QED
    BY <1>7, <2>1, <2>2
<1> QED
  BY <1>12, <1>13, <1>14 DEF Invariant, AddressInv

(* Types, the published address with its flag, and what the ACS knows.     *)
THEOREM AddressCorrect == Spec => [](AddressInv /\ AcsKnows)
<1>1. Init => Invariant
  <2> SUFFICES ASSUME Init PROVE Invariant
    OBVIOUS
  <2>1. handle = Stopped /\ config = [address |-> NoAddress, nat |-> FALSE]
    BY DEF Init
  <2>2. handle \in Handle /\ handle.sock = "none"
    BY <2>1, Tr111Assumption DEF Stopped, Handle, Status, NoId
  <2>3. config \in Config /\ config.address = NoAddress
    BY <2>1 DEF Config
  <2>4. answers \subseteq Answer /\ Cardinality(answers) <= MaxFlight
    <3>1. Cardinality({}) = 0
      BY FS_EmptySet
    <3> QED
      BY <3>1, Tr111Assumption DEF Init
  <2>5. TypeOK
    BY <2>2, <2>3, <2>4 DEF Init, TypeOK, Handle, Config
  <2> QED
    BY <2>2, <2>3, <2>5 DEF Init, Invariant, AddressInv, NatFlag, AddressPublished, AcsKnows
<1>2. Invariant /\ [Next]_vars => Invariant'
  <2> SUFFICES ASSUME Invariant, [Next]_vars PROVE Invariant'
    OBVIOUS
  <2>0. TypeOK /\ NatFlag /\ AddressPublished /\ AcsKnows
    BY DEF Invariant, AddressInv
  <2>1. CASE SomeTick
    <3>1. PICK m \in answers \cup Request \cup {Silence}, timeout \in BOOLEAN :
             \E bound \in (IF handle.status = "IDLE" THEN BOOLEAN ELSE {TRUE}) :
               Tick(m, bound, timeout)
      BY <2>1 DEF SomeTick
    <3>2. PICK bound \in BOOLEAN : Tick(m, bound, timeout)
      BY <3>1
    <3>3. m \in Message
      BY <2>0, <3>1 DEF TypeOK, Message
    <3> QED
      BY <3>2, <3>3, TickHolds
  <2>2. CASE MainTask
    <3>1. /\ handle' = [handle EXCEPT !.status = "IDLE"]
          /\ UNCHANGED <<config, informing, enable, ip, mapping, answers, acs, excused, seen>>
      BY <2>2 DEF MainTask, environment
    <3>2. /\ handle' \in Handle /\ handle'.sock = handle.sock
          /\ handle'.public = handle.public /\ handle'.local = handle.local
      BY <2>0, <3>1, Now DEF Handle, Status
    <3>3. TypeOK'
      BY <2>0, <3>1, <3>2 DEF TypeOK, Handle
    <3>4. NatFlag' /\ AddressPublished'
      BY <2>0, <3>1, <3>2 DEF NatFlag, AddressPublished
    <3>5. AcsKnows'
      BY <2>0, <3>1 DEF AcsKnows
    <3> QED
      BY <3>3, <3>4, <3>5 DEF Invariant, AddressInv
  <2>3. CASE Restart
    <3>1. /\ handle' = Stopped /\ informing' \in {informing, {}} /\ answers' = {}
          /\ excused' = (excused \/ (informing # informing'))
          /\ UNCHANGED <<config, enable, ip, mapping, acs, seen>>
      BY <2>3 DEF Restart, environment
    <3>2. handle' \in Handle /\ handle'.sock = "none"
      BY <3>1, Tr111Assumption DEF Stopped, Handle, Status, NoId
    <3>3. answers' \subseteq Answer /\ Cardinality(answers') <= MaxFlight
      <4>1. Cardinality({}) = 0
        BY FS_EmptySet
      <4> QED
        BY <3>1, <4>1, Tr111Assumption
    <3>4. excused' \in BOOLEAN
      BY <3>1
    <3>5. TypeOK'
      BY <2>0, <3>1, <3>2, <3>3, <3>4 DEF TypeOK, Handle
    <3>6. NatFlag' /\ AddressPublished'
      BY <3>2 DEF NatFlag, AddressPublished
    <3>7. AcsKnows'
      BY <2>0, <3>1 DEF AcsKnows
    <3> QED
      BY <3>5, <3>6, <3>7 DEF Invariant, AddressInv
  <2>4. CASE Inform \/ InformFails
    <3>1. /\ informing' = {} /\ informing # {}
          /\ UNCHANGED <<handle, config, enable, ip, mapping, answers, seen>>
      BY <2>4 DEF Inform, InformFails, environment
    <3>2. config.address \in Address \cup {NoAddress}
      BY <2>0, Now DEF Config
    <3>3. acs' \in Address \cup {NoAddress} /\ excused' \in BOOLEAN
      BY <2>0, <2>4, <3>2 DEF Inform, InformFails, TypeOK
    <3>4. TypeOK'
      BY <2>0, <3>1, <3>3 DEF TypeOK
    <3>5. NatFlag' /\ AddressPublished'
      BY <2>0, <3>1 DEF NatFlag, AddressPublished
    <3>6. AcsKnows'
      BY <2>0, <2>4 DEF Inform, InformFails, AcsKnows
    <3> QED
      BY <3>4, <3>5, <3>6 DEF Invariant, AddressInv
  <2>5. CASE SetEnable \/ Readdress
    <3>1. /\ UNCHANGED <<handle, config, informing, answers, acs, excused>>
          /\ enable' \in BOOLEAN /\ ip' \in Ip /\ mapping' \in Address
          /\ seen' \subseteq Address
      BY <2>0, <2>5 DEF SetEnable, Readdress, TypeOK, Address
    <3> QED
      BY <2>0, <3>1 DEF Invariant, AddressInv, TypeOK, NatFlag, AddressPublished, AcsKnows
  <2>6. CASE UNCHANGED vars
    BY <2>0, <2>6 DEF vars, environment, Invariant, AddressInv, TypeOK, NatFlag,
                      AddressPublished, AcsKnows
  <2> QED
    BY <2>1, <2>2, <2>3, <2>4, <2>5, <2>6 DEF Next
<1>3. Invariant => AddressInv /\ AcsKnows
  BY DEF Invariant
<1> QED
  BY <1>1, <1>2, <1>3, PTL DEF Spec


(* The public address is moved by an accepted answer only, to what it says*)
LEMMA RecvfromPublic ==
  ASSUME NEW s \in States, Sound(s), NEW m \in Message
  PROVE  LET t == Recvfrom(s, m)
         IN  \/ t.h.public = s.h.public
             \/ /\ m \in Answer /\ m.kind = "RESPONSE" /\ m.trans = s.h.trans
                /\ m.addr # NoAddress /\ t.h.public = m.addr
<1>0. s.h \in Handle /\ s \in States
  BY DEF States
<1>1. CASE m \notin Answer
  <2>1. m = Silence \/ (m \in Request /\ m.kind = "GET")
    BY <1>1 DEF Message, Request
  <2>2. \A id \in RequestId : [s.h EXCEPT !.last_id = id].public = s.h.public
    BY <1>0 DEF Handle
  <2>3. m \in Request => m.id \in RequestId
    BY DEF Request
  <2>4. Recvfrom(s, m) = s \/ (m \in Request /\ Recvfrom(s, m).h = [s.h EXCEPT !.last_id = m.id])
    BY <1>0, <2>1 DEF Recvfrom, ParseUdpConnectionRequest, States
  <2> QED
    BY <2>2, <2>3, <2>4
<1>2. CASE m \in Answer
  <2>1. m # Silence /\ m.kind \in {"RESPONSE", "UNAUTHORIZED"}
    BY <1>2 DEF Answer, Silence
  <2>2. Recvfrom(s, m) = s \/ (s.h.sock # "none" /\ Recvfrom(s, m) = ParseMessage(s, m))
    BY <2>1 DEF Recvfrom
  <2>3. CASE ~ Belongs(s.h, m)
    BY <2>2, <2>3 DEF ParseMessage
  <2>4. CASE Belongs(s.h, m) /\ m.kind = "UNAUTHORIZED"
    <3>1. ParseMessage(s, m) = [s EXCEPT !.h.auth_flag = TRUE, !.h.retry_count = 0]
      BY <2>4 DEF ParseMessage
    <3> DEFINE h1 == [s.h EXCEPT !.auth_flag = TRUE, !.retry_count = 0]
    <3>2. h1.public = s.h.public
      BY <1>0 DEF Handle
    <3>3. ParseMessage(s, m) = [s EXCEPT !.h = h1]
      BY <1>0, <3>1 DEF States
    <3> HIDE DEF h1
    <3>4. ParseMessage(s, m).h.public = s.h.public
      BY <1>0, <3>2, <3>3 DEF States
    <3> QED
      BY <2>2, <3>4
  <2>5. CASE Belongs(s.h, m) /\ m.kind = "RESPONSE"
    <3>1. m.trans = s.h.trans
      BY <2>5 DEF Belongs
    <3>2. ParseMessage(s, m) = IF s.h.auth_flag /\ ~m.signed THEN s
             ELSE [(IF m.addr = NoAddress THEN s ELSE ApplyNewAddress(s, m.addr))
                   EXCEPT !.h.status = "WAIT"]
      BY <2>5 DEF ParseMessage
    <3>3. \A u \in States : [u EXCEPT !.h.status = "WAIT"].h.public = u.h.public
      BY DEF States, Handle
    <3>4. m.addr \in Address \cup {NoAddress}
      BY <1>2, <2>5 DEF Answer
    <3> DEFINE a == ApplyNewAddress(s, m.addr)
    <3>5. a \in States
      BY <3>4, ApplyNewAddressSound
    <3>6. a.h.public = m.addr
      BY <1>0 DEF ApplyNewAddress, States, Handle
    <3>7. CASE s.h.auth_flag /\ ~m.signed
      BY <2>2, <3>2, <3>7
    <3>8. CASE ~ (s.h.auth_flag /\ ~m.signed) /\ m.addr = NoAddress
      <4>1. ParseMessage(s, m) = [s EXCEPT !.h.status = "WAIT"]
        BY <3>2, <3>8
      <4> QED
        BY <1>0, <2>2, <3>3, <4>1
    <3>9. CASE ~ (s.h.auth_flag /\ ~m.signed) /\ m.addr # NoAddress
      <4>1. ParseMessage(s, m) = [a EXCEPT !.h.status = "WAIT"]
        BY <3>2, <3>9
      <4> HIDE DEF a
      <4>2. ParseMessage(s, m).h.public = m.addr
        BY <3>3, <3>5, <3>6, <4>1
      <4> QED
        BY <1>2, <2>2, <2>5, <3>1, <3>9, <4>2
    <3> QED
      BY <3>7, <3>8, <3>9
  <2> QED
    BY <2>1, <2>3, <2>4, <2>5
<1> QED
  BY <1>1, <1>2

(* A step of the status that ends in waiting has changed nothing.          *)
LEMMA WaitingIsIdle ==
  ASSUME NEW s \in States, Sound(s), NEW bound \in BOOLEAN, NEW timeout \in BOOLEAN,
         ip \in Ip, TaskProc(s, bound, timeout).h.status = "WAIT"
  PROVE  TaskProc(s, bound, timeout) = s
<1>0. s.h \in Handle /\ s \in States
  BY DEF States
<1>1. CASE s.h.status = "IDLE"
  <2>1. TaskProc(s, bound, timeout).h.status = "TASK" \/ TaskProc(s, bound, timeout) = s
    BY <1>1, TaskProcSound DEF TaskProc
  <2> QED
    BY <1>1, <2>1
<1>2. CASE s.h.status = "TASK" /\ ~ enable
  <2> DEFINE i == [s EXCEPT !.h.status = "IDLE"]
  <2>1. i.h \in Handle /\ i.h.status = "IDLE"
    BY <1>0 DEF States, Handle, Status
  <2>2. TaskProc(s, bound, timeout) = ApplyNewAddress(i, s.h.local)
    BY <1>2 DEF TaskProc
  <2> HIDE DEF i
  <2>3. TaskProc(s, bound, timeout).h = [i.h EXCEPT !.public = s.h.local]
    BY <1>2, <2>2 DEF ApplyNewAddress
  <2>4. TaskProc(s, bound, timeout).h.status = "IDLE"
    BY <2>1, <2>3 DEF Handle
  <2> QED
    BY <2>4
<1>3. ASSUME NEW t \in {s, NewTransaction(s)} PROVE t.h.status = s.h.status
  BY <1>3, NewTransactionSound
<1>4. CASE s.h.status = "TASK" /\ enable
  <2>1. CASE Sends(s, timeout)
    <3>1. TaskProc(s, bound, timeout) = [s EXCEPT !.h.retry_count = @ + 1]
      BY <1>4, <2>1 DEF TaskProc
    <3>2. TaskProc(s, bound, timeout).h.status = "TASK"
      BY <1>0, <1>4, <3>1 DEF States, Handle
    <3> QED
      BY <3>2
  <2>2. CASE ~ Sends(s, timeout)
    <3>1. TaskProc(s, bound, timeout) \in {s, NewTransaction(s)}
      BY <1>4, <2>2 DEF TaskProc
    <3> QED
      BY <1>3, <1>4, <3>1
  <2> QED
    BY <2>1, <2>2
<1>5. CASE s.h.status = "WAIT" /\ timeout
  <2> DEFINE n == NewTransaction(s)
  <2>1. n \in States
    BY NewTransactionSound
  <2>2. TaskProc(s, bound, timeout) = [n EXCEPT !.h.status = "TASK"]
    BY <1>5 DEF TaskProc
  <2> HIDE DEF n
  <2>3. TaskProc(s, bound, timeout).h.status = "TASK"
    BY <2>1, <2>2 DEF States, Handle
  <2> QED
    BY <2>3
<1>6. CASE (s.h.status = "WAIT" /\ ~ timeout) \/ s.h.status = "STOP"
  BY <1>6 DEF TaskProc
<1> QED
  BY <1>0, <1>1, <1>2, <1>4, <1>5, <1>6 DEF Handle, Status

(* The server tells of the mapping or of none.                             *)
LEMMA RepliesSeen ==
  ASSUME NEW h, NEW a \in Replies(h), a.kind = "RESPONSE"
  PROVE  a.addr \in {mapping, NoAddress}
BY DEF Replies

(* What the running transaction can still be answered with.                *)
Fresh == /\ mapping \in seen
         /\ \A a \in answers : a.kind = "RESPONSE" /\ a.trans = handle.trans
                               => a.addr \in seen \cup {NoAddress}

(* The answers of a new transaction carry its id, older ones another.      *)
LEMMA FreshHolds ==
  ASSUME Fresh, [Next]_vars
  PROVE  Fresh'
<1>1. ASSUME NEW m, NEW bound, NEW timeout, Tick(m, bound, timeout)
      PROVE  Fresh'
  <2> DEFINE r == Recvfrom(State(handle, config, informing), m)
             d == TaskProc(r, bound, timeout)
             sent == IF Sends(r, timeout) THEN Replies(d.h) ELSE {}
             live == IF handle'.trans = handle.trans THEN answers
                     ELSE {a \in answers : a.trans # handle'.trans}
  <2>1. /\ handle' = d.h /\ Network(sent) /\ mapping' = mapping
        /\ seen' = IF d.h.trans # handle.trans THEN {mapping} ELSE seen
    BY <1>1 DEF Tick, environment
  <2>2. \A a \in answers' : a \in live \/ a \in sent
    BY <2>1 DEF Network
  <2>3. \A a \in sent : a.kind = "RESPONSE" => a.addr \in {mapping, NoAddress}
    BY RepliesSeen
  <2> HIDE DEF r, d, sent
  <2>4. mapping' \in seen'
    BY <2>1 DEF Fresh
  <2>5. ASSUME NEW a \in answers', a.kind = "RESPONSE", a.trans = handle'.trans
        PROVE  a.addr \in seen' \cup {NoAddress}
    <3>1. CASE a \in sent
      BY <2>1, <2>3, <2>4, <2>5, <3>1
    <3>2. CASE a \in live
      BY <2>1, <2>5, <3>2 DEF Fresh
    <3> QED
      BY <2>2, <3>1, <3>2
  <2> QED
    BY <2>4, <2>5 DEF Fresh
<1>2. CASE SomeTick
  BY <1>1, <1>2 DEF SomeTick
<1>3. CASE MainTask
  <2>1. handle'.trans = handle.trans
    BY <1>3 DEF MainTask
  <2> QED
    BY <1>3, <2>1 DEF MainTask, environment, Fresh
<1>4. CASE Restart
  BY <1>4 DEF Restart, environment, Fresh
<1>5. CASE Inform \/ InformFails \/ SetEnable
  BY <1>5 DEF Inform, InformFails, SetEnable, environment, Fresh
<1>6. CASE Readdress
  BY <1>6 DEF Readdress, environment, Fresh
<1>7. CASE UNCHANGED vars
  BY <1>7 DEF vars, environment, Fresh
<1> QED
  BY <1>2, <1>3, <1>4, <1>5, <1>6, <1>7 DEF Next

(* One step moves the public address to a fresh one.                       *)
LEMMA StepIsCurrent ==
  ASSUME Invariant, Fresh, [Next]_vars
  PROVE  handle'.public # handle.public /\ handle'.status = "WAIT"
           => handle'.public \in seen
<1> SUFFICES ASSUME handle'.public # handle.public, handle'.status = "WAIT"
             PROVE  handle'.public \in seen
  OBVIOUS
<1>1. TypeOK /\ NatFlag /\ AddressPublished
  BY DEF Invariant, AddressInv
<1>2. ASSUME NEW m \in answers \cup Request \cup {Silence},
             NEW bound \in BOOLEAN, NEW timeout \in BOOLEAN, Tick(m, bound, timeout)
      PROVE  handle'.public \in seen
  <2> DEFINE s == State(handle, config, informing)
             r == Recvfrom(s, m)
  <2>1. s \in States /\ s.h = handle /\ s.c = config /\ s.informing = informing
    BY <1>1, Now DEF State
  <2>2. Sound(s)
    BY <1>1, <2>1 DEF Sound, NatFlag, AddressPublished
  <2>3. handle' = TaskProc(r, bound, timeout).h
    BY <1>2 DEF Tick
  <2>4. m \in Message
    BY <1>1, <1>2 DEF TypeOK, Message
  <2> HIDE DEF s
  <2>5. r \in States /\ Sound(r)
    BY <2>1, <2>2, <2>4, RecvfromSound
  <2>6. \/ r.h.public = s.h.public
        \/ /\ m \in Answer /\ m.kind = "RESPONSE" /\ m.trans = s.h.trans
           /\ m.addr # NoAddress /\ r.h.public = m.addr
    BY <2>1, <2>2, <2>4, RecvfromPublic
  <2>7. ip \in Ip
    BY <1>1 DEF TypeOK
  <2> HIDE DEF r
  <2>8. TaskProc(r, bound, timeout) = r
    BY <2>3, <2>5, <2>7, WaitingIsIdle
  <2>9. m \in Answer /\ m.kind = "RESPONSE" /\ m.trans = handle.trans
        /\ m.addr # NoAddress /\ handle'.public = m.addr
    BY <2>1, <2>3, <2>6, <2>8
  <2>10. m \in answers
    BY <1>2, <2>9 DEF Request, Silence
  <2> QED
    BY <2>9, <2>10 DEF Fresh
<1>3. CASE SomeTick
  BY <1>2, <1>3 DEF SomeTick
<1>4. CASE MainTask
  <2>1. handle'.public = handle.public
    BY <1>4 DEF MainTask
  <2> QED
    BY <2>1
<1>5. CASE Restart
  BY <1>5 DEF Restart, Stopped
<1>6. CASE Inform \/ InformFails \/ SetEnable \/ Readdress \/ UNCHANGED vars
  BY <1>6 DEF Inform, InformFails, SetEnable, Readdress, vars
<1> QED
  BY <1>3, <1>4, <1>5, <1>6 DEF Next

(* The ACS knows the published address, or a report of it is on its way,   *)
(* or it was lost with a failed Inform, a restart or a setup.              *)
THEOREM AcsIsTold == Spec => []AcsKnows
<1>1. AddressInv /\ AcsKnows => AcsKnows
  OBVIOUS
<1> QED
  BY <1>1, AddressCorrect, PTL

(* A late answer is never taken for the answer of the running transaction: *)
(* the public address moves to one the gateway gave since that began.      *)
THEOREM CurrentAnswers == Spec => AnswerIsCurrent
<1>1. Init => Fresh
  BY DEF Init, Fresh
<1>2. Fresh /\ [Next]_vars => Fresh'
  BY FreshHolds
<1>3. Invariant /\ Fresh /\ [Next]_vars
        => [handle'.public # handle.public /\ handle'.status = "WAIT"
            => handle'.public \in seen]_vars
  BY StepIsCurrent
<1>4. AddressInv /\ AcsKnows => Invariant
  BY DEF Invariant
<1> QED
  BY <1>1, <1>2, <1>3, <1>4, AddressCorrect, PTL DEF Spec, AnswerIsCurrent
=============================================================================
