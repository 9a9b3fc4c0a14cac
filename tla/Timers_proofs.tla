---------------------------- MODULE Timers_proofs ---------------------------
(***************************************************************************)
(* Theorems about the timers, for any number of ids, any values and any    *)
(* number of changes and failures: types, one timer of each kind, and the  *)
(* heartbeat's period; that what runs is what is configured, and when a    *)
(* heartbeat can be lost.  The last part is the phase of the first beat.   *)
(***************************************************************************)
EXTENDS Timers, TLAPS

What == {"first", "periodic", "logmsg", "loss"}

(* A packet loss test that runs holds its flag: only so does the flag keep *)
(* a second one from starting.                                             *)
LossFlagged == \A i \in Id : live[i] = "loss" => lossFlag

IInv == TimersInv /\ LossFlagged

(* What all steps have in common: a timer that runs after the step ran     *)
(* before, and its kind keeps its id, or it is the new one of its kind.    *)
Keeps(i) == /\ live[i] # "none" /\ live'[i] = live[i] /\ every'[i] = every[i]
            /\ id'[KindOf(live[i])] = id[KindOf(live[i])]

Timed == /\ live \in [Id -> What \cup {"none"}]
         /\ every \in [Id -> Nat]
         /\ id \in [Kind -> Id \cup {0}]
         /\ lost \subseteq Kind /\ stale \subseteq {"heartbeat", "logmsg"}
         /\ fails \in 0 .. MaxFail

(* The kind of each thing that a timer does.                               *)
LEMMA Kinds ==
  /\ KindOf("first") = "heartbeat" /\ KindOf("periodic") = "heartbeat"
  /\ KindOf("logmsg") = "logmsg" /\ KindOf("loss") = "loss"
  /\ KindOf("none") = "none"
  /\ \A w \in What : w # "none" /\ KindOf(w) \in Kind
BY DEF KindOf, What, Kind

(* A stop leaves nothing of its kind and takes nothing else but what it    *)
(* says.                                                                   *)
LEMMA StopRemoves ==
  ASSUME TimersAssumption, Timed, OneTimerEach, NEW k \in Kind
  PROVE  /\ Stopped(k) \in [Id -> What \cup {"none"}]
         /\ \A i \in Id : Stopped(k)[i] # "none" =>
              Stopped(k)[i] = live[i] /\ KindOf(live[i]) # k
         /\ HitByStop(k) \subseteq Kind
<1>1. \A i \in Id : Stopped(k)[i] # "none" => Stopped(k)[i] = live[i] /\ i # id[k]
  BY DEF Stopped, Timed, TimersAssumption
<1>2. \A i \in Id : live[i] # "none" /\ i # id[k] => KindOf(live[i]) # k
  BY DEF OneTimerEach
<1>3. Stopped(k) \in [Id -> What \cup {"none"}]
  BY DEF Stopped, Timed
<1>4. HitByStop(k) \subseteq Kind
  <2>1. id[k] # 0 => id[k] \in Id
    BY DEF Timed
  <2>2. id[k] # 0 /\ live[id[k]] # "none" => KindOf(live[id[k]]) \in Kind
    BY <2>1, Kinds DEF Timed
  <2> QED
    BY <2>2 DEF HitByStop
<1> QED
  BY <1>1, <1>2, <1>3, <1>4

(* A restarted timer of a kind takes the place of the one before.          *)
LEMMA RestartReplaces ==
  ASSUME TimersAssumption, Timed, OneTimerEach, NEW k \in Kind,
         NEW what \in What, KindOf(what) = k, NEW period \in Nat,
         Restarted(k, what, period)
  PROVE  /\ Timed'
         /\ \A i \in Id : live'[i] # "none" =>
              \/ Keeps(i) /\ KindOf(live[i]) # k
              \/ i = id'[k] /\ live'[i] = what /\ every'[i] = period
         /\ stale' = stale \ {k}
<1> DEFINE L == Stopped(k)
           H == HitByStop(k)
<1>1. /\ L \in [Id -> What \cup {"none"}]
      /\ \A i \in Id : L[i] # "none" => L[i] = live[i] /\ KindOf(live[i]) # k
      /\ H \subseteq Kind
  BY StopRemoves
<1>2. \/ \E new \in {i \in Id : L[i] = "none"} :
            /\ live' = [L EXCEPT ![new] = what]
            /\ every' = [every EXCEPT ![new] = period]
            /\ id' = [id EXCEPT ![k] = new]
            /\ lost' = (lost \cup H) \ {k} /\ stale' = stale \ {k}
            /\ UNCHANGED fails
      \/ /\ fails < MaxFail /\ fails' = fails + 1
         /\ live' = L /\ id' = [id EXCEPT ![k] = 0]
         /\ lost' = lost \cup H \cup {k} /\ stale' = stale \ {k}
         /\ UNCHANGED every
  BY DEF Restarted
<1> HIDE DEF L, H
<1>3. stale' = stale \ {k}
  BY <1>2
<1>4. CASE \E new \in {i \in Id : L[i] = "none"} :
            /\ live' = [L EXCEPT ![new] = what]
            /\ every' = [every EXCEPT ![new] = period]
            /\ id' = [id EXCEPT ![k] = new]
            /\ lost' = (lost \cup H) \ {k} /\ stale' = stale \ {k}
            /\ UNCHANGED fails
  <2>1. PICK new \in Id :
            /\ L[new] = "none"
            /\ live' = [L EXCEPT ![new] = what]
            /\ every' = [every EXCEPT ![new] = period]
            /\ id' = [id EXCEPT ![k] = new]
            /\ lost' = (lost \cup H) \ {k} /\ stale' = stale \ {k}
            /\ UNCHANGED fails
    BY <1>4
  <2>2. Timed'
    BY <1>1, <2>1 DEF Timed
  <2>3. id'[k] = new /\ live'[new] = what /\ every'[new] = period
    BY <1>1, <2>1 DEF Timed
  <2>4. ASSUME NEW i \in Id, i # new, live'[i] # "none" PROVE Keeps(i) /\ KindOf(live[i]) # k
    <3>1. live'[i] = L[i] /\ every'[i] = every[i]
      BY <1>1, <2>1, <2>4 DEF Timed
    <3>2. live'[i] = live[i] /\ KindOf(live[i]) # k
      BY <1>1, <2>4, <3>1
    <3>3. KindOf(live[i]) \in Kind
      BY <2>4, <3>2, Kinds DEF Timed
    <3>4. id'[KindOf(live[i])] = id[KindOf(live[i])]
      BY <2>1, <3>2, <3>3 DEF Timed
    <3> QED
      BY <2>4, <3>1, <3>2, <3>4 DEF Keeps
  <2> QED
    BY <1>3, <2>2, <2>3, <2>4
<1>5. CASE /\ fails < MaxFail /\ fails' = fails + 1
           /\ live' = L /\ id' = [id EXCEPT ![k] = 0]
           /\ lost' = lost \cup H \cup {k} /\ stale' = stale \ {k}
           /\ UNCHANGED every
  <2>1. Timed'
    <3>1. fails' \in 0 .. MaxFail
      BY <1>5 DEF Timed, TimersAssumption
    <3>2. id' \in [Kind -> Id \cup {0}] /\ live' \in [Id -> What \cup {"none"}]
      BY <1>1, <1>5 DEF Timed
    <3>3. every' = every /\ lost' \subseteq Kind /\ stale' \subseteq {"heartbeat", "logmsg"}
      BY <1>1, <1>5 DEF Timed
    <3> QED
      BY <3>1, <3>2, <3>3 DEF Timed
  <2>2. ASSUME NEW i \in Id, live'[i] # "none" PROVE Keeps(i) /\ KindOf(live[i]) # k
    <3>1. live'[i] = live[i] /\ KindOf(live[i]) # k
      BY <1>1, <1>5, <2>2
    <3>2. KindOf(live[i]) \in Kind
      BY <2>2, <3>1, Kinds DEF Timed
    <3> QED
      BY <1>5, <2>2, <3>1, <3>2 DEF Keeps, Timed
  <2> QED
    BY <1>3, <2>1, <2>2
<1> QED
  BY <1>2, <1>4, <1>5

(* Stopping one kind leaves the timers of the others alone.                *)
LEMMA StopLeaves ==
  ASSUME TimersAssumption, Timed, OneTimerEach, NEW k \in Kind, Stop(k)
  PROVE  /\ Timed'
         /\ \A i \in Id : live'[i] # "none" => Keeps(i) /\ KindOf(live[i]) # k
         /\ stale' = stale \ {k}
<1> DEFINE L == Stopped(k)
           H == HitByStop(k)
<1>1. /\ L \in [Id -> What \cup {"none"}]
      /\ \A i \in Id : L[i] # "none" => L[i] = live[i] /\ KindOf(live[i]) # k
      /\ H \subseteq Kind
  BY StopRemoves
<1>2. /\ live' = L /\ id' = [id EXCEPT ![k] = 0]
      /\ lost' = (lost \cup H) \ {k} /\ stale' = stale \ {k}
      /\ UNCHANGED <<every, fails>>
  BY DEF Stop
<1> HIDE DEF L, H
<1>3. Timed'
  BY <1>1, <1>2 DEF Timed
<1>4. ASSUME NEW i \in Id, live'[i] # "none" PROVE Keeps(i) /\ KindOf(live[i]) # k
  <2>1. live'[i] = live[i] /\ KindOf(live[i]) # k
    BY <1>1, <1>2, <1>4
  <2>2. KindOf(live[i]) \in Kind
    BY <1>4, <2>1, Kinds DEF Timed
  <2> QED
    BY <1>2, <1>4, <2>1, <2>2 DEF Keeps, Timed
<1> QED
  BY <1>2, <1>3, <1>4


(* A timer that has fired for the last time leaves the others alone.       *)
LEMMA EndsLeaves ==
  ASSUME Timed, OneTimerEach, NEW i \in Id, live[i] # "none",
         NEW k \in Kind, k = KindOf(live[i]), Ends(i, k)
  PROVE  /\ Timed'
         /\ \A j \in Id : live'[j] # "none" => Keeps(j) /\ KindOf(live[j]) # k
         /\ stale' = stale \ {k}
<1>1. /\ live' = [live EXCEPT ![i] = "none"]
      /\ id' = [id EXCEPT ![k] = 0]
      /\ stale' = stale \ {k}
      /\ every' = every /\ lost' = lost /\ fails' = fails
  BY DEF Ends
<1>2. Timed'
  BY <1>1 DEF Timed
<1>3. ASSUME NEW j \in Id, live'[j] # "none" PROVE Keeps(j) /\ KindOf(live[j]) # k
  <2>1. j # i /\ live'[j] = live[j]
    BY <1>1, <1>3 DEF Timed
  <2>2. KindOf(live[j]) # k
    BY <1>3, <2>1 DEF OneTimerEach
  <2>3. KindOf(live[j]) \in Kind
    BY <1>3, <2>1, Kinds DEF Timed
  <2> QED
    BY <1>1, <1>3, <2>1, <2>2, <2>3 DEF Keeps, Timed
<1> QED
  BY <1>1, <1>2, <1>3

(* What is left to show when the timers are as the lemmas above say.       *)
LEMMA OneTimerStays ==
  ASSUME OneTimerEach,
         \A i \in Id : live'[i] # "none" => Keeps(i) \/ i = id'[KindOf(live'[i])]
  PROVE  OneTimerEach'
<1> SUFFICES ASSUME NEW i \in Id, live'[i] # "none"
             PROVE  id'[KindOf(live'[i])] = i
  BY DEF OneTimerEach
<1> QED
  BY DEF OneTimerEach, Keeps

(* Heartbeats that go on have the period in force if it is not changed.    *)
LEMMA PeriodsStay ==
  ASSUME PeriodInForce, "heartbeat" \notin stale, interval' = interval,
         \A i \in Id : live'[i] = "periodic" => Keeps(i)
  PROVE  PeriodInForce'
<1> SUFFICES ASSUME NEW i \in Id, live'[i] = "periodic"
             PROVE  every'[i] = Period(interval')
  BY DEF PeriodInForce, Period
<1>1. live[i] = "periodic" /\ every'[i] = every[i]
  BY DEF Keeps
<1> QED
  BY <1>1 DEF PeriodInForce, Period

(* The packet loss test goes on only with its flag set.                    *)
LEMMA FlagStays ==
  ASSUME LossFlagged, lossFlag' = lossFlag,
         \A i \in Id : live'[i] = "loss" => Keeps(i)
  PROVE  LossFlagged'
BY DEF LossFlagged, Keeps

(* The parts of TypeOK that are not about the timers.                      *)
Values == /\ enable \in BOOLEAN /\ interval \in Interval
          /\ logEnable \in BOOLEAN /\ logOrFile \in BOOLEAN /\ duration \in Duration
          /\ lossEnable \in BOOLEAN /\ lossFlag \in BOOLEAN

(* The type invariant in the parts that the steps treat apart.             *)
LEMMA Parts ==
  TypeOK <=> Values /\ Timed /\ left \in -1 .. LogMsgLimit /\ sets \in 0 .. MaxSet
BY DEF TypeOK, Values, Timed, What

(* The heartbeat starts with its first beat, and all others go on.         *)
LEMMA HeartbeatStarted ==
  ASSUME TimersAssumption, Timed, OneTimerEach, StartHeartbeat
  PROVE  /\ Timed'
         /\ \A i \in Id : live'[i] # "none" =>
              \/ Keeps(i) /\ KindOf(live[i]) # "heartbeat"
              \/ i = id'["heartbeat"] /\ live'[i] = "first"
<1>1. "heartbeat" \in Kind /\ "first" \in What /\ KindOf("first") = "heartbeat"
  BY Kinds DEF Kind, What
<1>2. CASE enable'
  <2>1. Restarted("heartbeat", "first", 0)
    BY <1>2 DEF StartHeartbeat
  <2> QED
    BY <1>1, <2>1, RestartReplaces
<1>3. CASE ~ enable'
  <2>1. Stop("heartbeat")
    BY <1>3 DEF StartHeartbeat
  <2> QED
    BY <1>1, <2>1, StopLeaves
<1> QED
  BY <1>2, <1>3

(* After a start of the heartbeat no timer has a period yet.               *)
LEMMA HeartbeatSteps ==
  ASSUME TimersAssumption, IInv, Values', StartHeartbeat, UNCHANGED <<left, lossFlag>>,
         sets' \in 0 .. MaxSet
  PROVE  IInv'
<1>1. Timed /\ OneTimerEach /\ LossFlagged /\ left \in -1 .. LogMsgLimit
  BY Parts DEF IInv, TimersInv
<1>2. /\ Timed'
      /\ \A i \in Id : live'[i] # "none" =>
              \/ Keeps(i) /\ KindOf(live[i]) # "heartbeat"
              \/ i = id'["heartbeat"] /\ live'[i] = "first"
  BY <1>1, HeartbeatStarted
<1>3. TypeOK'
  <2>1. left' \in -1 .. LogMsgLimit
    BY <1>1
  <2> QED
    BY <1>2, <2>1 DEF TypeOK, Values, Timed, What
<1>4. OneTimerEach'
  BY <1>1, <1>2, Kinds, OneTimerStays
<1>5. PeriodInForce'
  <2>1. \A i \in Id : live'[i] # "periodic"
    BY <1>2, Kinds DEF Keeps
  <2> QED
    BY <2>1 DEF PeriodInForce
<1>6. LossFlagged'
  BY <1>1, <1>2, FlagStays
<1> QED
  BY <1>3, <1>4, <1>5, <1>6 DEF IInv, TimersInv

(* A step that leaves the heartbeats with a period alone.                  *)
PeriodsAlone ==
  /\ interval' = interval
  /\ "heartbeat" \in stale => "heartbeat" \in stale'
  /\ \A i \in Id : live'[i] # "none" =>
       \/ Keeps(i)
       \/ i = id'[KindOf(live'[i])] /\ live'[i] # "periodic"

(* A step that starts no heartbeat leaves the periods in force.            *)
LEMMA OtherSteps ==
  ASSUME IInv, Values', Timed', left' \in -1 .. LogMsgLimit, sets' \in 0 .. MaxSet,
         LossFlagged', PeriodsAlone
  PROVE  IInv'
<1>1. TypeOK'
  BY DEF TypeOK, Values, Timed, What
<1>2. OneTimerEach'
  BY OneTimerStays DEF IInv, TimersInv, PeriodsAlone
<1>3. PeriodInForce'
  <2>1. CASE "heartbeat" \in stale
    BY <2>1 DEF PeriodInForce, PeriodsAlone
  <2>2. CASE "heartbeat" \notin stale
    <3>1. interval' = interval /\ \A i \in Id : live'[i] = "periodic" => Keeps(i)
      BY DEF PeriodsAlone
    <3> QED
      BY <2>2, <3>1, PeriodsStay DEF IInv, TimersInv
  <2> QED
    BY <2>1, <2>2
<1> QED
  BY <1>1, <1>2, <1>3 DEF IInv, TimersInv

(* The timers of a process that starts satisfy the invariant.              *)
LEMMA InitHolds == TimersAssumption /\ Init => IInv
<1> SUFFICES ASSUME TimersAssumption, Init PROVE IInv
  OBVIOUS
<1>1. PICK first \in Id :
        /\ live = [i \in Id |-> IF enable /\ i = first THEN "first" ELSE "none"]
        /\ id = [k \in Kind |-> IF enable /\ k = "heartbeat" THEN first ELSE 0]
  BY DEF Init
<1>2. Values /\ left \in -1 .. LogMsgLimit /\ sets \in 0 .. MaxSet
  <2>1. Values
    BY DEF Init, Values
  <2>2. left \in -1 .. LogMsgLimit /\ sets \in 0 .. MaxSet
    BY DEF Init, TimersAssumption
  <2> QED
    BY <2>1, <2>2
<1>3. Timed
  <2>1. live \in [Id -> What \cup {"none"}] /\ id \in [Kind -> Id \cup {0}]
    BY <1>1 DEF What
  <2>2. every \in [Id -> Nat]
    BY DEF Init
  <2>3. fails \in 0 .. MaxFail
    BY DEF Init, TimersAssumption
  <2>4. lost \subseteq Kind /\ stale \subseteq {"heartbeat", "logmsg"}
    BY DEF Init, Kind
  <2> QED
    BY <2>1, <2>2, <2>3, <2>4 DEF Timed
<1>4. OneTimerEach
  BY <1>1, Kinds DEF OneTimerEach, Kind
<1>5. PeriodInForce /\ LossFlagged
  BY <1>1 DEF PeriodInForce, LossFlagged
<1> QED
  BY <1>2, <1>3, <1>4, <1>5, Parts DEF IInv, TimersInv

(* Setting a parameter of a timer keeps the invariant.                     *)
LEMMA SetHolds == TimersAssumption /\ IInv /\ Set => IInv'
<1> SUFFICES ASSUME TimersAssumption, IInv, Set PROVE IInv'
  OBVIOUS
<1>0. /\ Values /\ Timed /\ left \in -1 .. LogMsgLimit /\ sets \in 0 .. MaxSet
      /\ OneTimerEach /\ LossFlagged
  BY Parts DEF IInv, TimersInv
<1>1. Sets => sets' \in 0 .. MaxSet
  BY <1>0 DEF Sets, TimersAssumption
<1>2. CASE SetEnable
  <2>1. Values'
    BY <1>0, <1>2 DEF SetEnable, Values
  <2>2. StartHeartbeat /\ UNCHANGED <<left, lossFlag>> /\ sets' \in 0 .. MaxSet
    BY <1>1, <1>2 DEF SetEnable
  <2> QED
    BY <2>1, <2>2, HeartbeatSteps
<1>3. ASSUME NEW i \in Interval, SetInterval(i) PROVE IInv'
  <2>1. Values'
    BY <1>0, <1>3 DEF SetInterval, Values
  <2>2. StartHeartbeat /\ UNCHANGED <<left, lossFlag>> /\ sets' \in 0 .. MaxSet
    BY <1>1, <1>3 DEF SetInterval
  <2> QED
    BY <2>1, <2>2, HeartbeatSteps
<1>4. ASSUME NEW e \in BOOLEAN, NEW o \in BOOLEAN, NEW d \in Duration, SetLog(e, o, d)
      PROVE  IInv'
  <2>1. Values' /\ interval' = interval /\ lossFlag' = lossFlag
    BY <1>0, <1>4 DEF SetLog, Values
  <2>2. StartLogmsg /\ sets' \in 0 .. MaxSet
    BY <1>1, <1>4 DEF SetLog
  <2>3. "logmsg" \in Kind /\ "logmsg" \in What /\ KindOf("logmsg") = "logmsg"
    BY Kinds DEF Kind, What
  <2>4. CASE logOrFile' /\ logEnable'
    <3>1. left' = Smaller(duration', LogMsgLimit) /\ Restarted("logmsg", "logmsg", 1)
      BY <2>2, <2>4 DEF StartLogmsg
    <3>2. left' \in -1 .. LogMsgLimit
      <4>1. duration' \in Nat
        BY <2>1 DEF Values, TimersAssumption
      <4> QED
        BY <3>1, <4>1 DEF Smaller, TimersAssumption
    <3>3. /\ Timed'
          /\ \A i \in Id : live'[i] # "none" =>
               \/ Keeps(i) /\ KindOf(live[i]) # "logmsg"
               \/ i = id'["logmsg"] /\ live'[i] = "logmsg" /\ every'[i] = 1
          /\ stale' = stale \ {"logmsg"}
      BY <1>0, <2>3, <3>1, RestartReplaces
    <3>4. LossFlagged'
      BY <1>0, <2>1, <3>3, FlagStays
    <3>5. PeriodsAlone
      BY <2>1, <2>3, <3>3 DEF PeriodsAlone
    <3> QED
      BY <2>1, <2>2, <3>2, <3>3, <3>4, <3>5, OtherSteps
  <2>5. CASE ~ (logOrFile' /\ logEnable')
    <3>1. Stop("logmsg") /\ left' = left
      BY <2>2, <2>5 DEF StartLogmsg
    <3>2. /\ Timed'
          /\ \A i \in Id : live'[i] # "none" => Keeps(i) /\ KindOf(live[i]) # "logmsg"
          /\ stale' = stale \ {"logmsg"}
      BY <1>0, <2>3, <3>1, StopLeaves
    <3>3. LossFlagged'
      BY <1>0, <2>1, <3>2, FlagStays
    <3>4. PeriodsAlone
      BY <2>1, <3>2 DEF PeriodsAlone
    <3> QED
      BY <1>0, <2>1, <2>2, <3>1, <3>2, <3>3, <3>4, OtherSteps
  <2> QED
    BY <2>4, <2>5
<1>5. ASSUME NEW e \in BOOLEAN, SetLossTest(e) PROVE IInv'
  <2>1. /\ lossEnable' = e /\ left' = left /\ sets' \in 0 .. MaxSet
        /\ enable' = enable /\ interval' = interval /\ logEnable' = logEnable
        /\ logOrFile' = logOrFile /\ duration' = duration
    BY <1>1, <1>5 DEF SetLossTest
  <2>2. CASE e /\ ~lossFlag
    <3>1. lossFlag' = TRUE /\ Values'
      BY <1>0, <1>5, <2>1, <2>2 DEF SetLossTest, Values
    <3>2. LossFlagged'
      BY <3>1 DEF LossFlagged
    <3>3. \A i \in Id : live[i] # "none" => KindOf(live[i]) # "loss"
      BY <1>0, <2>2, Kinds DEF LossFlagged, Timed, What
    <3>4. CASE \E new \in {i \in Id : live[i] = "none"} :
                  /\ live' = [live EXCEPT ![new] = "loss"]
                  /\ every' = [every EXCEPT ![new] = 1]
                  /\ id' = [id EXCEPT !["loss"] = new]
                  /\ lost' = lost \ {"loss"}
                  /\ UNCHANGED <<fails, stale>>
      <4>1. PICK new \in Id :
                  /\ live[new] = "none"
                  /\ live' = [live EXCEPT ![new] = "loss"]
                  /\ every' = [every EXCEPT ![new] = 1]
                  /\ id' = [id EXCEPT !["loss"] = new]
                  /\ lost' = lost \ {"loss"}
                  /\ UNCHANGED <<fails, stale>>
        BY <3>4
      <4>2. Timed'
        BY <1>0, <4>1 DEF Timed, What, Kind
      <4>3. ASSUME NEW i \in Id, live'[i] # "none", i # new PROVE Keeps(i)
        <5>1. live'[i] = live[i] /\ every'[i] = every[i]
          BY <1>0, <4>1, <4>3 DEF Timed
        <5>2. KindOf(live[i]) \in Kind /\ KindOf(live[i]) # "loss"
          BY <1>0, <3>3, <4>3, <5>1, Kinds DEF Timed
        <5> QED
          BY <1>0, <4>1, <4>3, <5>1, <5>2 DEF Keeps, Timed
      <4>4. live'[new] = "loss" /\ id'[KindOf("loss")] = new
        BY <1>0, <4>1, Kinds DEF Timed, Kind
      <4>5. PeriodsAlone
        BY <2>1, <4>1, <4>3, <4>4 DEF PeriodsAlone
      <4> QED
        BY <1>0, <2>1, <3>1, <3>2, <4>2, <4>5, OtherSteps
    <3>5. CASE /\ fails < MaxFail /\ fails' = fails + 1
               /\ id' = [id EXCEPT !["loss"] = 0]
               /\ lost' = lost \cup {"loss"}
               /\ UNCHANGED <<live, every, stale>>
      <4>1. Timed'
        <5>1. fails' \in 0 .. MaxFail
          BY <1>0, <3>5 DEF Timed, TimersAssumption
        <5> QED
          BY <1>0, <3>5, <5>1 DEF Timed, Kind
      <4>2. ASSUME NEW i \in Id, live'[i] # "none" PROVE Keeps(i)
        <5>1. KindOf(live[i]) \in Kind /\ KindOf(live[i]) # "loss"
          BY <1>0, <3>3, <3>5, <4>2, Kinds DEF Timed
        <5> QED
          BY <1>0, <3>5, <4>2, <5>1 DEF Keeps, Timed
      <4>3. PeriodsAlone
        BY <2>1, <3>5, <4>2 DEF PeriodsAlone
      <4> QED
        BY <1>0, <2>1, <3>1, <3>2, <4>1, <4>3, OtherSteps
    <3> QED
      BY <1>5, <2>2, <3>4, <3>5 DEF SetLossTest
  <2>3. CASE ~ (e /\ ~lossFlag)
    <3>1. UNCHANGED <<live, every, id, lost, stale, lossFlag, fails>>
      BY <1>5, <2>3 DEF SetLossTest, timers
    <3>2. Values'
      BY <1>0, <2>1, <3>1 DEF Values
    <3>3. Timed' /\ LossFlagged'
      BY <1>0, <3>1 DEF Timed, LossFlagged
    <3>4. \A i \in Id : live'[i] # "none" => Keeps(i)
      BY <3>1 DEF Keeps
    <3>5. PeriodsAlone
      BY <2>1, <3>1, <3>4 DEF PeriodsAlone
    <3> QED
      BY <1>0, <2>1, <3>2, <3>3, <3>5, OtherSteps
  <2> QED
    BY <2>2, <2>3
<1>6. CASE ChangedOutside
  <2>1. /\ UNCHANGED <<lossEnable, live, every, id, lost, left, lossFlag, fails>>
        /\ sets' \in 0 .. MaxSet
    BY <1>1, <1>6 DEF ChangedOutside
  <2>2. Values'
    BY <1>0, <1>6 DEF ChangedOutside, Values
  <2>3. stale' \subseteq {"heartbeat", "logmsg"} /\ stale \subseteq stale'
    BY <1>0, <1>6 DEF ChangedOutside, Timed
  <2>4. Timed' /\ LossFlagged'
    BY <1>0, <2>1, <2>3 DEF Timed, LossFlagged
  <2>5. \A i \in Id : live'[i] # "none" => Keeps(i)
    BY <2>1 DEF Keeps
  <2>6. CASE interval' = interval
    <3>1. PeriodsAlone
      BY <2>3, <2>5, <2>6 DEF PeriodsAlone
    <3> QED
      BY <1>0, <2>1, <2>2, <2>4, <3>1, OtherSteps
  <2>7. CASE interval' # interval
    <3>1. "heartbeat" \in stale'
      BY <1>6, <2>7 DEF ChangedOutside
    <3>2. PeriodInForce'
      BY <3>1 DEF PeriodInForce
    <3>3. OneTimerEach'
      BY <1>0, <2>1 DEF OneTimerEach
    <3>4. TypeOK'
      BY <1>0, <2>1, <2>2, <2>4 DEF TypeOK, Values, Timed, What
    <3> QED
      BY <2>4, <3>2, <3>3, <3>4 DEF IInv, TimersInv
  <2> QED
    BY <2>6, <2>7
<1> QED
  BY <1>2, <1>3, <1>4, <1>5, <1>6 DEF Set

(* A timer that fires keeps the invariant.                                 *)
LEMMA FireHolds == TimersAssumption /\ IInv /\ (\E i \in Id : Fire(i)) => IInv'
<1> SUFFICES ASSUME TimersAssumption, IInv, NEW i \in Id, Fire(i) PROVE IInv'
  OBVIOUS
<1>0. /\ Values /\ Timed /\ left \in -1 .. LogMsgLimit /\ sets \in 0 .. MaxSet
      /\ OneTimerEach /\ LossFlagged
  BY Parts DEF IInv, TimersInv
<1>k. Kind = {"heartbeat", "logmsg", "loss"}
  BY DEF Kind
<1>1. ASSUME NEW k \in Kind, k = KindOf(live[i]), live[i] # "none", Ends(i, k),
             Values', left' = left, sets' = sets, interval' = interval,
             (lossFlag' = lossFlag) \/ k = "loss"
      PROVE  IInv'
  <2>1. /\ Timed'
        /\ \A j \in Id : live'[j] # "none" => Keeps(j) /\ KindOf(live[j]) # k
        /\ stale' = stale \ {k}
    BY <1>0, <1>1, EndsLeaves
  <2>2. LossFlagged'
    BY <1>0, <1>1, <2>1, Kinds DEF LossFlagged, Keeps
  <2>3. OneTimerEach'
    BY <1>0, <2>1, OneTimerStays
  <2>4. TypeOK'
    BY <1>0, <1>1, <2>1 DEF TypeOK, Values, Timed, What
  <2>5. CASE k = "heartbeat"
    <3>1. \A j \in Id : live'[j] # "periodic"
      BY <2>1, <2>5, Kinds DEF Keeps
    <3>2. PeriodInForce'
      BY <3>1 DEF PeriodInForce
    <3> QED
      BY <2>2, <2>3, <2>4, <3>2 DEF IInv, TimersInv
  <2>6. CASE k # "heartbeat"
    <3>1. PeriodsAlone
      BY <1>1, <2>1, <2>6 DEF PeriodsAlone
    <3> QED
      BY <1>0, <1>1, <2>1, <2>2, <3>1, OtherSteps
  <2> QED
    BY <2>5, <2>6
<1>2. CASE FirstHeartbeat(i)
  <2>1. /\ live[i] = "first" /\ stale' = stale \ {"heartbeat"}
        /\ UNCHANGED <<config, left, lossFlag, sets>>
    BY <1>2 DEF FirstHeartbeat
  <2>2. Values' /\ left' = left /\ sets' = sets /\ lossFlag' = lossFlag /\ interval' = interval
    BY <1>0, <2>1 DEF Values, config
  <2>3. \A j \in Id : live[j] # "none" /\ j # i => KindOf(live[j]) # "heartbeat"
    BY <1>0, <2>1, Kinds DEF OneTimerEach
  <2>4. \A j \in Id : live[j] # "none" /\ j # i => KindOf(live[j]) \in Kind
    BY <1>0, Kinds DEF Timed
  <2>5. Period(interval) \in Nat
    BY <1>0 DEF Period, Larger, Values, TimersAssumption
  <2>6. CASE \E new \in {j \in Id : live[j] = "none"} :
               /\ live' = [live EXCEPT ![new] = "periodic", ![i] = "none"]
               /\ every' = [every EXCEPT ![new] = Period(interval)]
               /\ id' = [id EXCEPT !["heartbeat"] = new]
               /\ UNCHANGED <<lost, fails>>
    <3> DEFINE P == Period(interval)
    <3>1. PICK new \in Id :
               /\ live[new] = "none"
               /\ live' = [live EXCEPT ![new] = "periodic", ![i] = "none"]
               /\ every' = [every EXCEPT ![new] = P]
               /\ id' = [id EXCEPT !["heartbeat"] = new]
               /\ UNCHANGED <<lost, fails>>
      BY <2>6
    <3>2. P \in Nat
      BY <2>5
    <3>3. P = Period(interval')
      BY <2>2
    <3> HIDE DEF P
    <3>4. new # i /\ live'[i] = "none" /\ live'[new] = "periodic" /\ every'[new] = P
      BY <1>0, <2>1, <3>1 DEF Timed
    <3>5. Timed'
      <4>1. live' \in [Id -> What \cup {"none"}]
        BY <1>0, <3>1 DEF Timed, What
      <4>2. id' \in [Kind -> Id \cup {0}] /\ every' \in [Id -> Nat]
        BY <1>0, <3>1, <3>2 DEF Timed
      <4> QED
        BY <1>0, <2>1, <3>1, <4>1, <4>2 DEF Timed
    <3>6. ASSUME NEW j \in Id, live'[j] # "none", j # new PROVE Keeps(j) /\ live[j] # "periodic"
      <4>1. j # i /\ live'[j] = live[j] /\ every'[j] = every[j]
        BY <1>0, <3>1, <3>4, <3>6 DEF Timed
      <4>2. KindOf(live[j]) \in Kind /\ KindOf(live[j]) # "heartbeat"
        BY <2>3, <2>4, <3>6, <4>1
      <4> QED
        BY <1>0, <3>1, <3>6, <4>1, <4>2, Kinds DEF Keeps, Timed
    <3>7. id'["heartbeat"] = new
      BY <1>0, <1>k, <3>1 DEF Timed
    <3>8. OneTimerEach'
      BY <1>0, <3>4, <3>6, <3>7, Kinds, OneTimerStays
    <3>9. PeriodInForce'
      <4> SUFFICES ASSUME NEW j \in Id, live'[j] = "periodic"
                   PROVE  every'[j] = Period(interval')
        BY DEF PeriodInForce, Period
      <4>1. j = new
        BY <3>6 DEF Keeps
      <4> QED
        BY <3>3, <3>4, <4>1
    <3>10. LossFlagged'
      BY <1>0, <2>2, <3>4, <3>6, FlagStays
    <3>11. TypeOK'
      BY <1>0, <2>2, <3>5 DEF TypeOK, Values, Timed, What
    <3> QED
      BY <3>8, <3>9, <3>10, <3>11 DEF IInv, TimersInv
  <2>7. CASE /\ fails < MaxFail /\ fails' = fails + 1
             /\ live' = [live EXCEPT ![i] = "none"]
             /\ id' = [id EXCEPT !["heartbeat"] = 0]
             /\ lost' = lost \cup {"heartbeat"}
             /\ UNCHANGED every
    <3>1. Timed'
      <4>1. fails' \in 0 .. MaxFail
        BY <1>0, <2>7 DEF Timed, TimersAssumption
      <4>2. live' \in [Id -> What \cup {"none"}] /\ id' \in [Kind -> Id \cup {0}]
        BY <1>0, <2>7 DEF Timed
      <4>3. lost' \subseteq Kind /\ stale' \subseteq {"heartbeat", "logmsg"} /\ every' = every
        BY <1>0, <1>k, <2>1, <2>7 DEF Timed
      <4> QED
        BY <1>0, <4>1, <4>2, <4>3 DEF Timed
    <3>2. ASSUME NEW j \in Id, live'[j] # "none"
          PROVE  Keeps(j) /\ KindOf(live[j]) # "heartbeat"
      <4>1. j # i /\ live'[j] = live[j]
        BY <1>0, <2>7, <3>2 DEF Timed
      <4>2. KindOf(live[j]) \in Kind /\ KindOf(live[j]) # "heartbeat"
        BY <2>3, <2>4, <3>2, <4>1
      <4> QED
        BY <1>0, <2>7, <3>2, <4>1, <4>2 DEF Keeps, Timed
    <3>3. OneTimerEach'
      BY <1>0, <3>2, OneTimerStays
    <3>4. PeriodInForce'
      <4>1. \A j \in Id : live'[j] # "periodic"
        BY <3>2, Kinds DEF Keeps
      <4> QED
        BY <4>1 DEF PeriodInForce
    <3>5. LossFlagged'
      BY <1>0, <2>2, <3>2, FlagStays
    <3>6. TypeOK'
      BY <1>0, <2>2, <3>1 DEF TypeOK, Values, Timed, What
    <3> QED
      BY <3>3, <3>4, <3>5, <3>6 DEF IInv, TimersInv
  <2> QED
    BY <1>2, <2>6, <2>7 DEF FirstHeartbeat
<1>3. CASE Heartbeat(i)
  <2>1. UNCHANGED vars
    BY <1>3 DEF Heartbeat
  <2> QED
    BY <2>1 DEF vars, config, timers, IInv, TimersInv, TypeOK, OneTimerEach,
                PeriodInForce, LossFlagged, Period
<1>4. CASE HeartbeatOff(i)
  <2>1. /\ live[i] # "none" /\ KindOf(live[i]) = "heartbeat" /\ Ends(i, "heartbeat")
        /\ UNCHANGED <<config, left, lossFlag, sets>>
    BY <1>4, Kinds DEF HeartbeatOff
  <2>2. Values' /\ interval' = interval /\ lossFlag' = lossFlag
    BY <1>0, <2>1 DEF Values, config
  <2> QED
    BY <1>1, <1>k, <2>1, <2>2
<1>5. CASE Logmsg(i) \/ LogmsgNoDump(i)
  <2>1. /\ live[i] = "logmsg" /\ left' = left - 1 /\ left >= 0
        /\ UNCHANGED <<config, every, id, stale, lossFlag, sets, fails>>
        /\ \/ live' = live /\ lost' = lost
           \/ live' = [live EXCEPT ![i] = "none"] /\ lost' = lost \cup {"logmsg"}
    BY <1>5 DEF Logmsg, LogmsgNoDump, timers
  <2>2. Values' /\ interval' = interval /\ sets' = sets /\ lossFlag' = lossFlag
    BY <1>0, <2>1 DEF Values, config
  <2>3. left' \in -1 .. LogMsgLimit
    BY <1>0, <2>1 DEF TimersAssumption
  <2>4. Timed'
    BY <1>0, <1>k, <2>1 DEF Timed
  <2>5. \A j \in Id : live'[j] # "none" => Keeps(j)
    BY <1>0, <2>1 DEF Keeps, Timed
  <2>6. LossFlagged'
    BY <1>0, <2>2, <2>5, FlagStays
  <2>7. PeriodsAlone
    BY <2>1, <2>2, <2>5 DEF PeriodsAlone
  <2> QED
    BY <1>0, <2>2, <2>3, <2>4, <2>6, <2>7, OtherSteps
<1>6. CASE LogmsgOff(i) \/ LogmsgOver(i)
  <2>1. /\ live[i] = "logmsg" /\ Ends(i, "logmsg")
        /\ UNCHANGED <<enable, interval, logOrFile, duration, lossEnable, left, lossFlag, sets>>
        /\ logEnable' \in {logEnable, FALSE}
    BY <1>6 DEF LogmsgOff, LogmsgOver, config
  <2>2. Values'
    BY <1>0, <2>1 DEF Values
  <2>3. live[i] # "none" /\ KindOf(live[i]) = "logmsg" /\ lossFlag' = lossFlag
    BY <2>1, Kinds
  <2> QED
    BY <1>1, <1>k, <2>1, <2>2, <2>3
<1>7. CASE LossOff(i)
  <2>1. /\ live[i] = "loss" /\ Ends(i, "loss") /\ lossFlag' = FALSE
        /\ UNCHANGED <<config, left, sets>>
    BY <1>7 DEF LossOff
  <2>2. Values' /\ interval' = interval
    BY <1>0, <2>1 DEF Values, config
  <2>3. live[i] # "none" /\ KindOf(live[i]) = "loss"
    BY <2>1, Kinds
  <2> QED
    BY <1>1, <1>k, <2>1, <2>2, <2>3
<1> QED
  BY <1>2, <1>3, <1>4, <1>5, <1>6, <1>7 DEF Fire

(* Any step keeps the invariant.                                           *)
LEMMA InvariantHolds == IInv /\ [Next]_vars => IInv'
<1> SUFFICES ASSUME IInv, [Next]_vars PROVE IInv'
  OBVIOUS
<1>1. CASE Set
  BY <1>1, TimersAssumption, SetHolds
<1>2. CASE \E i \in Id : Fire(i)
  BY <1>2, TimersAssumption, FireHolds
<1>3. CASE UNCHANGED vars
  BY <1>3 DEF vars, config, timers, IInv, TimersInv, TypeOK, OneTimerEach,
              PeriodInForce, LossFlagged, Period
<1> QED
  BY <1>1, <1>2, <1>3 DEF Next

(* Types, one timer of each kind, and the configured period, for every     *)
(* number of ids, every value and any failures.                            *)
THEOREM TimersCorrect == Spec => []TimersInv
<1>1. Init => IInv
  BY TimersAssumption, InitHolds
<1>2. IInv /\ [Next]_vars => IInv'
  BY InvariantHolds
<1>3. IInv => TimersInv
  BY DEF IInv
<1> QED
  BY <1>1, <1>2, <1>3, PTL DEF Spec

(* A timer of the kind k runs.                                             *)
Runs(k) == \E i \in Id : live[i] # "none" /\ KindOf(live[i]) = k

(* An id that is kept is the id of a timer of its kind, unless that timer  *)
(* is known to be lost: the stop of a lost timer may hit another.          *)
OwnIds == \A k \in Kind : id[k] # 0 /\ KindOf(live[id[k]]) # k => k \in lost

(* What is configured for a kind, and that its timer tells so.             *)
On(k) == IF k = "heartbeat" THEN enable ELSE logEnable /\ logOrFile
Told(k) == k \notin lost \cup stale => (On(k) <=> Runs(k))

(* What a step that acts on the kind k does to the timers of the others:   *)
(* they go on unless they are counted as lost, and none is added.          *)
Others(k) ==
  /\ \A i \in Id : live[i] # "none" /\ KindOf(live[i]) # k
                     => live'[i] = live[i] \/ KindOf(live[i]) \in lost'
  /\ \A i \in Id : live'[i] # "none" => live'[i] = live[i] \/ KindOf(live'[i]) = k
  /\ \A j \in Kind \ {k} : id'[j] = id[j] /\ (j \in lost => j \in lost')
                           /\ (j \in lost' => j \in lost \/ k \in lost)
  /\ id'[k] = 0 \/ KindOf(live'[id'[k]]) = k \/ k \in lost'

(* Ids stay right over such a step.                                        *)
LEMMA OwnIdsStay ==
  ASSUME Timed, OwnIds, NEW k \in Kind, Others(k)
  PROVE  OwnIds'
<1> SUFFICES ASSUME NEW j \in Kind, id'[j] # 0, KindOf(live'[id'[j]]) # j
             PROVE  j \in lost'
  BY DEF OwnIds
<1>1. CASE j = k
  BY <1>1 DEF Others
<1>2. CASE j # k
  <2>1. id'[j] = id[j] /\ (j \in lost => j \in lost')
    BY <1>2 DEF Others
  <2>2. id[j] \in Id
    BY <2>1 DEF Timed
  <2>3. CASE KindOf(live[id[j]]) # j
    BY <2>1, <2>3 DEF OwnIds
  <2>4. CASE KindOf(live[id[j]]) = j
    <3>1. live[id[j]] # "none"
      BY <2>4, Kinds DEF Kind
    <3> QED
      BY <1>2, <2>1, <2>2, <2>4, <3>1 DEF Others
  <2> QED
    BY <2>3, <2>4
<1> QED
  BY <1>1, <1>2

(* So does what runs of another kind that is not lost.                     *)
LEMMA ToldStays ==
  ASSUME NEW k \in Kind, NEW j \in Kind, j # k, Others(k), Told(j),
         On(j)' <=> On(j), j \in stale => j \in stale'
  PROVE  Told(j)'
<1> SUFFICES ASSUME j \notin lost', j \notin stale' PROVE On(j)' <=> Runs(j)'
  BY DEF Told
<1>1. j \notin lost /\ j \notin stale
  BY DEF Others
<1>2. On(j) <=> Runs(j)
  BY <1>1 DEF Told
<1>3. ASSUME Runs(j) PROVE Runs(j)'
  <2>1. PICK i \in Id : live[i] # "none" /\ KindOf(live[i]) = j
    BY <1>3 DEF Runs
  <2>2. live'[i] = live[i]
    BY <2>1 DEF Others
  <2> QED
    BY <2>1, <2>2 DEF Runs
<1>4. ASSUME Runs(j)' PROVE Runs(j)
  <2>1. PICK i \in Id : live'[i] # "none" /\ KindOf(live'[i]) = j
    BY <1>4 DEF Runs
  <2>2. live'[i] = live[i]
    BY <2>1 DEF Others
  <2> QED
    BY <2>1, <2>2 DEF Runs
<1> QED
  BY <1>2, <1>3, <1>4

(* A stop hits another timer only by the id of a lost one, and counts it.  *)
LEMMA StopHits ==
  ASSUME Timed, OneTimerEach, OwnIds, NEW k \in Kind
  PROVE  /\ \A i \in Id : live[i] # "none" /\ KindOf(live[i]) # k
              => Stopped(k)[i] = live[i] \/ KindOf(live[i]) \in HitByStop(k)
         /\ k \notin HitByStop(k)
         /\ HitByStop(k) # {} => k \in lost
<1>1. ASSUME NEW i \in Id, live[i] # "none", KindOf(live[i]) # k
      PROVE  Stopped(k)[i] = live[i] \/ KindOf(live[i]) \in HitByStop(k)
  <2>1. CASE id[k] = i /\ i # 0
    BY <1>1, <2>1 DEF HitByStop
  <2>2. CASE id[k] # i \/ i = 0
    BY <1>1, <2>2 DEF Stopped, Timed
  <2> QED
    BY <2>1, <2>2
<1>2. k \notin HitByStop(k) /\ (HitByStop(k) # {} => k \in lost)
  BY DEF HitByStop, OwnIds
<1> QED
  BY <1>1, <1>2

(* A restart: the kind runs, or f_timer_add failed.                        *)
LEMMA RestartTouches ==
  ASSUME Timed, OneTimerEach, OwnIds, NEW k \in Kind,
         NEW what \in What, KindOf(what) = k, NEW period \in Nat,
         Restarted(k, what, period)
  PROVE  /\ Others(k) /\ stale' = stale \ {k}
         /\ \/ k \notin lost' /\ Runs(k)'
            \/ k \in lost' /\ fails' > fails
<1> DEFINE L == Stopped(k)
           H == HitByStop(k)
<1>1. /\ L \in [Id -> What \cup {"none"}]
      /\ \A i \in Id : L[i] # "none" => L[i] = live[i]
  BY StopRemoves, TimersAssumption
<1>2. /\ \A i \in Id : live[i] # "none" /\ KindOf(live[i]) # k
                         => L[i] = live[i] \/ KindOf(live[i]) \in H
      /\ k \notin H /\ (H # {} => k \in lost)
  BY StopHits
<1>3. \/ \E new \in {i \in Id : L[i] = "none"} :
            /\ live' = [L EXCEPT ![new] = what]
            /\ every' = [every EXCEPT ![new] = period]
            /\ id' = [id EXCEPT ![k] = new]
            /\ lost' = (lost \cup H) \ {k} /\ stale' = stale \ {k}
            /\ UNCHANGED fails
      \/ /\ fails < MaxFail /\ fails' = fails + 1
         /\ live' = L /\ id' = [id EXCEPT ![k] = 0]
         /\ lost' = lost \cup H \cup {k} /\ stale' = stale \ {k}
         /\ UNCHANGED every
  BY DEF Restarted
<1> HIDE DEF L, H
<1>4. \A j \in Kind \ {k} : /\ j \in lost => j \in lost'
                            /\ j \in lost' => j \in lost \/ k \in lost
  BY <1>2, <1>3
<1>5. H \subseteq lost'
  BY <1>2, <1>3
<1>6. \A j \in Kind \ {k} : id'[j] = id[j]
  BY <1>3 DEF Timed
<1>7. CASE \E new \in {i \in Id : L[i] = "none"} :
            /\ live' = [L EXCEPT ![new] = what]
            /\ every' = [every EXCEPT ![new] = period]
            /\ id' = [id EXCEPT ![k] = new]
            /\ lost' = (lost \cup H) \ {k} /\ stale' = stale \ {k}
            /\ UNCHANGED fails
  <2>1. PICK new \in Id :
            /\ L[new] = "none" /\ live' = [L EXCEPT ![new] = what]
            /\ id' = [id EXCEPT ![k] = new]
            /\ lost' = (lost \cup H) \ {k} /\ stale' = stale \ {k}
    BY <1>7
  <2>2. id'[k] = new /\ live'[new] = what /\ \A i \in Id \ {new} : live'[i] = L[i]
    BY <1>1, <2>1 DEF Timed
  <2>3. \A i \in Id : live[i] # "none" /\ KindOf(live[i]) # k
                        => live'[i] = live[i] \/ KindOf(live[i]) \in lost'
    <3> SUFFICES ASSUME NEW i \in Id, live[i] # "none", KindOf(live[i]) # k
                 PROVE  live'[i] = live[i] \/ KindOf(live[i]) \in lost'
      OBVIOUS
    <3>1. L[i] = live[i] \/ KindOf(live[i]) \in lost'
      BY <1>2, <1>5
    <3> QED
      BY <2>1, <2>2, <3>1
  <2>4. \A i \in Id : live'[i] # "none" => live'[i] = live[i] \/ KindOf(live'[i]) = k
    BY <1>1, <2>2
  <2>5. Runs(k)' /\ k \notin lost'
    BY <2>1, <2>2, Kinds DEF Runs
  <2> QED
    BY <1>4, <1>6, <2>1, <2>2, <2>3, <2>4, <2>5 DEF Others
<1>8. CASE /\ fails < MaxFail /\ fails' = fails + 1
           /\ live' = L /\ id' = [id EXCEPT ![k] = 0]
           /\ lost' = lost \cup H \cup {k} /\ stale' = stale \ {k}
           /\ UNCHANGED every
  <2>1. fails' > fails
    BY <1>8 DEF Timed
  <2> QED
    BY <1>1, <1>2, <1>4, <1>5, <1>6, <1>8, <2>1 DEF Others
<1> QED
  BY <1>3, <1>7, <1>8

(* A stop: the kind does not run, and is not lost by that.                 *)
LEMMA StopTouches ==
  ASSUME Timed, OneTimerEach, OwnIds, NEW k \in Kind, Stop(k)
  PROVE  Others(k) /\ stale' = stale \ {k} /\ k \notin lost' /\ ~ Runs(k)'
<1> DEFINE L == Stopped(k)
           H == HitByStop(k)
<1>1. /\ L \in [Id -> What \cup {"none"}]
      /\ \A i \in Id : L[i] # "none" => L[i] = live[i] /\ KindOf(live[i]) # k
  BY StopRemoves, TimersAssumption
<1>2. /\ \A i \in Id : live[i] # "none" /\ KindOf(live[i]) # k
                         => L[i] = live[i] \/ KindOf(live[i]) \in H
      /\ k \notin H /\ (H # {} => k \in lost)
  BY StopHits
<1>3. /\ live' = L /\ id' = [id EXCEPT ![k] = 0]
      /\ lost' = (lost \cup H) \ {k} /\ stale' = stale \ {k}
  BY DEF Stop
<1> HIDE DEF L, H
<1>4. id'[k] = 0 /\ \A j \in Kind \ {k} : id'[j] = id[j]
  BY <1>3 DEF Timed
<1>5. ~ Runs(k)'
  BY <1>1, <1>3 DEF Runs
<1> QED
  BY <1>1, <1>2, <1>3, <1>4, <1>5 DEF Others

(* A timer that ends itself.                                               *)
LEMMA EndsTouches ==
  ASSUME Timed, OneTimerEach, OwnIds, NEW i \in Id, live[i] # "none",
         NEW k \in Kind, k = KindOf(live[i]), Ends(i, k)
  PROVE  Others(k) /\ stale' = stale \ {k} /\ lost' = lost /\ ~ Runs(k)'
<1>1. /\ live' = [live EXCEPT ![i] = "none"] /\ id' = [id EXCEPT ![k] = 0]
      /\ stale' = stale \ {k} /\ lost' = lost
  BY DEF Ends
<1>2. live'[i] = "none" /\ \A j \in Id \ {i} : live'[j] = live[j]
  BY <1>1 DEF Timed
<1>3. id'[k] = 0 /\ \A j \in Kind \ {k} : id'[j] = id[j]
  BY <1>1 DEF Timed
<1>4. ~ Runs(k)'
  BY <1>2 DEF Runs, OneTimerEach
<1>5. \A j \in Id : live[j] # "none" /\ KindOf(live[j]) # k => live'[j] = live[j]
  BY <1>2
<1>6. \A j \in Id : live'[j] # "none" => live'[j] = live[j]
  BY <1>2
<1> QED
  BY <1>1, <1>3, <1>4, <1>5, <1>6 DEF Others

Truth == Told("heartbeat") /\ Told("logmsg")

(* A heartbeat is lost by a failure, or by the stop of a lost log timer.   *)
LostLate == "heartbeat" \in lost' /\ "heartbeat" \notin lost
              => fails' > fails \/ "logmsg" \in lost

(* What a step that acts on one kind has to show of that kind.             *)
LEMMA StepTells ==
  ASSUME Timed, OwnIds, Truth, NEW k \in Kind, Others(k),
         \A j \in {"heartbeat", "logmsg"} \ {k} :
           (On(j)' <=> On(j)) /\ (j \in stale => j \in stale'),
         k = "loss" \/ Told(k)'
  PROVE  OwnIds' /\ Truth'
<1>1. OwnIds'
  BY OwnIdsStay
<1>2. {"heartbeat", "logmsg"} \subseteq Kind
  BY DEF Kind
<1>3. ASSUME NEW j \in {"heartbeat", "logmsg"} PROVE Told(j)'
  <2>1. CASE j = k
    BY <2>1
  <2>2. CASE j # k
    <3>1. Told(j) /\ (On(j)' <=> On(j)) /\ (j \in stale => j \in stale')
      BY <2>2 DEF Truth
    <3> QED
      BY <1>2, <2>2, <3>1, ToldStays
  <2> QED
    BY <2>1, <2>2
<1> QED
  BY <1>1, <1>3 DEF Truth

(* A step that leaves the timers and their configuration alone.            *)
LEMMA NothingTouched ==
  ASSUME OwnIds, Truth, UNCHANGED <<live, id, lost, stale, enable, logEnable, logOrFile>>
  PROVE  OwnIds' /\ Truth' /\ LostLate
BY DEF OwnIds, Truth, Told, On, Runs, LostLate

(* The heartbeat is started again or stopped.                              *)
LEMMA HeartbeatTells ==
  ASSUME IInv, OwnIds, Truth, StartHeartbeat, UNCHANGED <<logEnable, logOrFile>>
  PROVE  OwnIds' /\ Truth' /\ LostLate
<1>1. Timed /\ OneTimerEach
  BY Parts DEF IInv, TimersInv
<1>2. "heartbeat" \in Kind /\ "first" \in What /\ KindOf("first") = "heartbeat" /\ 0 \in Nat
  BY Kinds DEF Kind, What
<1>3. \A j \in {"heartbeat", "logmsg"} \ {"heartbeat"} : On(j)' <=> On(j)
  BY DEF On
<1>4. /\ Others("heartbeat") /\ stale' = stale \ {"heartbeat"}
      /\ Told("heartbeat")' /\ LostLate
  <2>1. CASE enable'
    <3>1. Restarted("heartbeat", "first", 0)
      BY <2>1 DEF StartHeartbeat
    <3>2. /\ Others("heartbeat") /\ stale' = stale \ {"heartbeat"}
          /\ \/ "heartbeat" \notin lost' /\ Runs("heartbeat")'
             \/ "heartbeat" \in lost' /\ fails' > fails
      BY <1>1, <1>2, <3>1, RestartTouches
    <3> QED
      BY <2>1, <3>2 DEF Told, On, LostLate
  <2>2. CASE ~ enable'
    <3>1. Stop("heartbeat")
      BY <2>2 DEF StartHeartbeat
    <3>2. /\ Others("heartbeat") /\ stale' = stale \ {"heartbeat"}
          /\ "heartbeat" \notin lost' /\ ~ Runs("heartbeat")'
      BY <1>1, <1>2, <3>1, StopTouches
    <3> QED
      BY <2>2, <3>2 DEF Told, On, LostLate
  <2> QED
    BY <2>1, <2>2
<1> QED
  BY <1>1, <1>2, <1>3, <1>4, StepTells

(* A value is set, by the ACS or by another process.                       *)
LEMMA SetTells == IInv /\ OwnIds /\ Truth /\ Set => OwnIds' /\ Truth' /\ LostLate
<1> SUFFICES ASSUME IInv, OwnIds, Truth, Set PROVE OwnIds' /\ Truth' /\ LostLate
  OBVIOUS
<1>0. Timed /\ OneTimerEach /\ LossFlagged
  BY Parts DEF IInv, TimersInv
<1>1. CASE SetEnable \/ \E i \in Interval : SetInterval(i)
  <2>1. StartHeartbeat /\ UNCHANGED <<logEnable, logOrFile>>
    BY <1>1 DEF SetEnable, SetInterval
  <2> QED
    BY <2>1, HeartbeatTells
<1>2. CASE \E e, o \in BOOLEAN, d \in Duration : SetLog(e, o, d)
  <2>1. StartLogmsg /\ enable' = enable
    BY <1>2 DEF SetLog
  <2>2. "logmsg" \in Kind /\ "logmsg" \in What /\ KindOf("logmsg") = "logmsg" /\ 1 \in Nat
    BY Kinds DEF Kind, What
  <2>3. /\ Others("logmsg") /\ stale' = stale \ {"logmsg"} /\ Told("logmsg")'
    <3>1. CASE logOrFile' /\ logEnable'
      <4>1. Restarted("logmsg", "logmsg", 1)
        BY <2>1, <3>1 DEF StartLogmsg
      <4>2. /\ Others("logmsg") /\ stale' = stale \ {"logmsg"}
            /\ Runs("logmsg")' \/ "logmsg" \in lost'
        BY <1>0, <2>2, <4>1, RestartTouches
      <4> QED
        BY <3>1, <4>2 DEF Told, On
    <3>2. CASE ~ (logOrFile' /\ logEnable')
      <4>1. Stop("logmsg")
        BY <2>1, <3>2 DEF StartLogmsg
      <4>2. Others("logmsg") /\ stale' = stale \ {"logmsg"} /\ ~ Runs("logmsg")'
        BY <1>0, <2>2, <4>1, StopTouches
      <4> QED
        BY <3>2, <4>2 DEF Told, On
    <3> QED
      BY <3>1, <3>2
  <2>4. \A j \in {"heartbeat", "logmsg"} \ {"logmsg"} :
          (On(j)' <=> On(j)) /\ (j \in stale => j \in stale')
    BY <2>1, <2>3 DEF On
  <2>5. LostLate
    BY <2>3 DEF Others, LostLate, Kind
  <2> QED
    BY <1>0, <2>2, <2>3, <2>4, <2>5, StepTells
<1>3. ASSUME NEW e \in BOOLEAN, SetLossTest(e) PROVE OwnIds' /\ Truth' /\ LostLate
  <2>1. UNCHANGED <<enable, logEnable, logOrFile>>
    BY <1>3 DEF SetLossTest
  <2>2. CASE e /\ ~lossFlag
    <3>1. "loss" \in Kind
      BY DEF Kind
    <3>2. Others("loss") /\ stale' = stale /\ ("heartbeat" \in lost' => "heartbeat" \in lost)
      <4>1. CASE \E new \in {i \in Id : live[i] = "none"} :
                  /\ live' = [live EXCEPT ![new] = "loss"]
                  /\ every' = [every EXCEPT ![new] = 1]
                  /\ id' = [id EXCEPT !["loss"] = new]
                  /\ lost' = lost \ {"loss"}
                  /\ UNCHANGED <<fails, stale>>
        <5>1. PICK new \in Id :
                  /\ live[new] = "none" /\ live' = [live EXCEPT ![new] = "loss"]
                  /\ id' = [id EXCEPT !["loss"] = new]
                  /\ lost' = lost \ {"loss"} /\ stale' = stale
          BY <4>1
        <5>2. live'[new] = "loss" /\ \A i \in Id \ {new} : live'[i] = live[i]
          BY <1>0, <5>1 DEF Timed
        <5>3. id'["loss"] = new /\ \A j \in Kind \ {"loss"} : id'[j] = id[j]
          BY <1>0, <3>1, <5>1 DEF Timed
        <5> QED
          BY <5>1, <5>2, <5>3, Kinds DEF Others
      <4>2. CASE /\ fails < MaxFail /\ fails' = fails + 1
                 /\ id' = [id EXCEPT !["loss"] = 0]
                 /\ lost' = lost \cup {"loss"}
                 /\ UNCHANGED <<live, every, stale>>
        <5>1. id'["loss"] = 0 /\ \A j \in Kind \ {"loss"} : id'[j] = id[j]
          BY <1>0, <3>1, <4>2 DEF Timed
        <5> QED
          BY <4>2, <5>1 DEF Others
      <4> QED
        BY <1>3, <2>2, <4>1, <4>2 DEF SetLossTest
    <3>3. \A j \in {"heartbeat", "logmsg"} \ {"loss"} :
            (On(j)' <=> On(j)) /\ (j \in stale => j \in stale')
      BY <2>1, <3>2 DEF On
    <3> QED
      BY <1>0, <3>1, <3>2, <3>3, StepTells DEF LostLate
  <2>3. CASE ~ (e /\ ~lossFlag)
    <3>1. UNCHANGED <<live, id, lost, stale>>
      BY <1>3, <2>3 DEF SetLossTest, timers
    <3> QED
      BY <2>1, <3>1, NothingTouched
  <2> QED
    BY <2>2, <2>3
<1>4. CASE ChangedOutside
  <2>1. UNCHANGED <<live, id, lost>>
    BY <1>4 DEF ChangedOutside
  <2>2. \/ "heartbeat" \in stale' /\ UNCHANGED <<logEnable, logOrFile>>
        \/ "logmsg" \in stale' /\ enable' = enable
    BY <1>4 DEF ChangedOutside
  <2>3. stale \subseteq stale'
    BY <1>4 DEF ChangedOutside
  <2> QED
    BY <2>1, <2>2, <2>3 DEF OwnIds, Truth, Told, On, Runs, LostLate
<1> QED
  BY <1>1, <1>2, <1>3, <1>4 DEF Set

(* A timer fires.                                                          *)
LEMMA FireTells ==
  IInv /\ OwnIds /\ Truth /\ (\E i \in Id : Fire(i)) => OwnIds' /\ Truth' /\ LostLate
<1> SUFFICES ASSUME IInv, OwnIds, Truth, NEW i \in Id, Fire(i)
             PROVE  OwnIds' /\ Truth' /\ LostLate
  OBVIOUS
<1>0. Timed /\ OneTimerEach
  BY Parts DEF IInv, TimersInv
<1>k. Kind = {"heartbeat", "logmsg", "loss"}
  BY DEF Kind
<1>1. ASSUME NEW k \in Kind, k = KindOf(live[i]), live[i] # "none", Ends(i, k),
             k = "loss" \/ ~ On(k)',
             \A j \in {"heartbeat", "logmsg"} \ {k} : On(j)' <=> On(j)
      PROVE  OwnIds' /\ Truth' /\ LostLate
  <2>1. Others(k) /\ stale' = stale \ {k} /\ lost' = lost /\ ~ Runs(k)'
    BY <1>0, <1>1, EndsTouches
  <2>2. k = "loss" \/ Told(k)'
    BY <1>1, <2>1 DEF Told
  <2>3. \A j \in {"heartbeat", "logmsg"} \ {k} :
          (On(j)' <=> On(j)) /\ (j \in stale => j \in stale')
    BY <1>1, <2>1
  <2>4. OwnIds' /\ Truth'
    BY <1>0, <2>1, <2>2, <2>3, StepTells
  <2> QED
    BY <2>1, <2>4 DEF LostLate
<1>2. CASE FirstHeartbeat(i)
  <2>1. /\ live[i] = "first" /\ enable /\ stale' = stale \ {"heartbeat"}
        /\ UNCHANGED <<enable, logEnable, logOrFile>>
    BY <1>2 DEF FirstHeartbeat, config
  <2>2. KindOf(live[i]) = "heartbeat" /\ "heartbeat" \in Kind
    BY <1>k, <2>1, Kinds
  <2>3. Others("heartbeat") /\ Told("heartbeat")' /\ LostLate
    <3>1. CASE \E new \in {j \in Id : live[j] = "none"} :
               /\ live' = [live EXCEPT ![new] = "periodic", ![i] = "none"]
               /\ every' = [every EXCEPT ![new] = Period(interval)]
               /\ id' = [id EXCEPT !["heartbeat"] = new]
               /\ UNCHANGED <<lost, fails>>
      <4>1. PICK new \in Id :
               /\ live[new] = "none"
               /\ live' = [live EXCEPT ![new] = "periodic", ![i] = "none"]
               /\ id' = [id EXCEPT !["heartbeat"] = new] /\ lost' = lost
        BY <3>1
      <4>2. /\ new # i /\ live'[i] = "none" /\ live'[new] = "periodic"
            /\ \A j \in Id \ {i, new} : live'[j] = live[j]
        BY <1>0, <2>1, <4>1 DEF Timed
      <4>3. id'["heartbeat"] = new /\ \A j \in Kind \ {"heartbeat"} : id'[j] = id[j]
        BY <1>0, <2>2, <4>1 DEF Timed
      <4>4. Runs("heartbeat")'
        BY <4>2, Kinds DEF Runs
      <4>5. Others("heartbeat")
        BY <2>2, <4>1, <4>2, <4>3, Kinds DEF Others
      <4> QED
        BY <2>1, <4>1, <4>4, <4>5 DEF Told, On, LostLate
    <3>2. CASE /\ fails < MaxFail /\ fails' = fails + 1
               /\ live' = [live EXCEPT ![i] = "none"]
               /\ id' = [id EXCEPT !["heartbeat"] = 0]
               /\ lost' = lost \cup {"heartbeat"}
               /\ UNCHANGED every
      <4>1. fails' > fails
        BY <1>0, <3>2 DEF Timed
      <4>2. live'[i] = "none" /\ \A j \in Id \ {i} : live'[j] = live[j]
        BY <1>0, <3>2 DEF Timed
      <4>3. id'["heartbeat"] = 0 /\ \A j \in Kind \ {"heartbeat"} : id'[j] = id[j]
        BY <1>0, <2>2, <3>2 DEF Timed
      <4>4. Others("heartbeat")
        BY <2>2, <3>2, <4>2, <4>3 DEF Others
      <4> QED
        BY <3>2, <4>1, <4>4 DEF Told, LostLate
    <3> QED
      BY <1>2, <3>1, <3>2 DEF FirstHeartbeat
  <2>4. \A j \in {"heartbeat", "logmsg"} \ {"heartbeat"} :
          (On(j)' <=> On(j)) /\ (j \in stale => j \in stale')
    BY <2>1 DEF On
  <2> QED
    BY <1>0, <2>2, <2>3, <2>4, StepTells
<1>3. CASE Heartbeat(i) \/ Logmsg(i)
  <2>1. UNCHANGED <<live, id, lost, stale, enable, logEnable, logOrFile>>
    BY <1>3 DEF Heartbeat, Logmsg, vars, config, timers
  <2> QED
    BY <2>1, NothingTouched
<1>4. CASE HeartbeatOff(i)
  <2>1. /\ live[i] # "none" /\ KindOf(live[i]) = "heartbeat" /\ Ends(i, "heartbeat")
        /\ ~ enable /\ UNCHANGED <<enable, logEnable, logOrFile>>
    BY <1>4, Kinds DEF HeartbeatOff, config
  <2> QED
    BY <1>1, <1>k, <2>1 DEF On
<1>5. CASE LogmsgNoDump(i)
  <2>1. /\ live[i] = "logmsg" /\ live' = [live EXCEPT ![i] = "none"]
        /\ lost' = lost \cup {"logmsg"}
        /\ UNCHANGED <<id, stale, enable, logEnable, logOrFile>>
    BY <1>5 DEF LogmsgNoDump, config
  <2>2. live'[i] = "none" /\ \A j \in Id \ {i} : live'[j] = live[j]
    BY <1>0, <2>1 DEF Timed
  <2>3. Others("logmsg") /\ Told("logmsg")' /\ "logmsg" \in Kind
    BY <1>k, <2>1, <2>2, Kinds DEF Others, Told
  <2>4. \A j \in {"heartbeat", "logmsg"} \ {"logmsg"} :
          (On(j)' <=> On(j)) /\ (j \in stale => j \in stale')
    BY <2>1 DEF On
  <2>5. OwnIds' /\ Truth'
    BY <1>0, <2>3, <2>4, StepTells
  <2> QED
    BY <2>1, <2>5 DEF LostLate
<1>6. CASE LogmsgOff(i) \/ LogmsgOver(i)
  <2>1. /\ live[i] # "none" /\ KindOf(live[i]) = "logmsg" /\ Ends(i, "logmsg")
        /\ ~ logEnable' /\ enable' = enable
    BY <1>6, Kinds DEF LogmsgOff, LogmsgOver, config
  <2> QED
    BY <1>1, <1>k, <2>1 DEF On
<1>7. CASE LossOff(i)
  <2>1. /\ live[i] # "none" /\ KindOf(live[i]) = "loss" /\ Ends(i, "loss")
        /\ UNCHANGED <<enable, logEnable, logOrFile>>
    BY <1>7, Kinds DEF LossOff, config
  <2> QED
    BY <1>1, <1>k, <2>1 DEF On
<1> QED
  BY <1>2, <1>3, <1>4, <1>5, <1>6, <1>7 DEF Fire

(* The three invariants together, over any step.                           *)
LEMMA TellsHold ==
  IInv /\ OwnIds /\ Truth /\ [Next]_vars => OwnIds' /\ Truth' /\ LostLate
<1> SUFFICES ASSUME IInv, OwnIds, Truth, [Next]_vars
             PROVE  OwnIds' /\ Truth' /\ LostLate
  OBVIOUS
<1>1. CASE Set
  BY <1>1, SetTells
<1>2. CASE \E i \in Id : Fire(i)
  BY <1>2, FireTells
<1>3. CASE UNCHANGED vars
  <2>1. UNCHANGED <<live, id, lost, stale, enable, logEnable, logOrFile>>
    BY <1>3 DEF vars, config, timers
  <2> QED
    BY <2>1, NothingTouched
<1> QED
  BY <1>1, <1>2, <1>3 DEF Next

(* The timers of a process that starts are as it was configured.           *)
LEMMA InitTells == Init => OwnIds /\ Truth
<1> SUFFICES ASSUME Init PROVE OwnIds /\ Truth
  OBVIOUS
<1>1. PICK first \in Id :
        /\ live = [i \in Id |-> IF enable /\ i = first THEN "first" ELSE "none"]
        /\ id = [k \in Kind |-> IF enable /\ k = "heartbeat" THEN first ELSE 0]
  BY DEF Init
<1>2. OwnIds
  BY <1>1, Kinds DEF OwnIds
<1>3. Runs("heartbeat") <=> enable
  BY <1>1, Kinds DEF Runs
<1>4. ~ Runs("logmsg")
  BY <1>1, Kinds DEF Runs
<1>5. lost = IF logEnable /\ logOrFile THEN {"logmsg"} ELSE {}
  BY DEF Init
<1> QED
  BY <1>2, <1>3, <1>4, <1>5 DEF Truth, Told, On

(* Told, in the words of the runs.                                         *)
LEMMA TruthMeans == TypeOK /\ Truth => AsConfigured
<1> SUFFICES ASSUME TypeOK, Truth PROVE AsConfigured
  OBVIOUS
<1>0. Values /\ Timed
  BY Parts
<1>1. Runs("heartbeat") <=> \E i \in Id : live[i] \in {"first", "periodic"}
  BY <1>0, Kinds DEF Runs, Timed, What
<1>2. Runs("logmsg") <=> \E i \in Id : live[i] = "logmsg"
  BY <1>0, Kinds DEF Runs, Timed, What
<1>3. BeatsWhenEnabled
  BY <1>0, <1>1 DEF Truth, Told, On, BeatsWhenEnabled, Values
<1>4. LogTruth
  BY <1>0, <1>2 DEF Truth, Told, On, LogTruth, Values
<1> QED
  BY <1>3, <1>4 DEF AsConfigured

(* The invariant with which both properties of the timers are proved.      *)
LEMMA TellsAlways == Spec => [](IInv /\ OwnIds /\ Truth)
<1>1. Init => IInv /\ OwnIds /\ Truth
  BY TimersAssumption, InitHolds, InitTells
<1>2. IInv /\ [Next]_vars => IInv'
  BY InvariantHolds
<1> QED
  BY <1>1, <1>2, TellsHold, PTL DEF Spec

(* A heartbeat beats when it is enabled and log messages are sent when they*)
(* are, unless the timer was lost or another process changed the values.   *)
THEOREM RunsAsConfigured == Spec => []AsConfigured
<1>1. IInv /\ OwnIds /\ Truth => AsConfigured
  BY TruthMeans DEF IInv, TimersInv
<1> QED
  BY <1>1, TellsAlways, PTL

(* The heartbeat is lost only by a failure of f_timer_add or by the stop of*)
(* a log timer that was lost before.                                       *)
THEOREM HeartbeatNotLost == Spec => HeartbeatLostLate
<1>1. IInv /\ OwnIds /\ Truth /\ [Next]_vars
        => [("heartbeat" \in lost' /\ "heartbeat" \notin lost) =>
              fails' > fails \/ "logmsg" \in lost]_vars
  BY TellsHold DEF LostLate
<1> QED
  BY <1>1, TellsAlways, PTL DEF Spec, HeartbeatLostLate

(* Euclid's division.                                                      *)
LEMMA Division ==
  ASSUME NEW x \in Nat, NEW p \in Nat \ {0}
  PROVE  /\ x \div p \in Int /\ x % p \in 0 .. p - 1
         /\ x = (x \div p) * p + (x % p)
OBVIOUS

(* A multiple leaves no remainder.                                         *)
LEMMA Multiple ==
  ASSUME NEW k \in Int, NEW p \in Nat \ {0}
  PROVE  (k * p) % p = 0
OBVIOUS

(* The first heartbeat comes within one period, and in phase with the      *)
(* reference time unless it is due at once (tr069_heartbeat_init).         *)
THEOREM FirstBeatInPhase ==
  ASSUME NEW now \in Int, NEW ref \in Int, NEW period \in Nat \ {0}
  PROVE  LET s == FirstBeat(now, period, ref)
         IN  s \in 1 .. period /\ ((now + s - ref) % period = 0 \/ s = 1)
<1> DEFINE s == FirstBeat(now, period, ref)
<1>1. CASE now > ref
  <2> DEFINE m == (now - ref) % period
             q == (now - ref) \div period
  <2>1. q \in Int /\ m \in 0 .. period - 1 /\ now - ref = q * period + m
    <3>1. now - ref \in Nat
      BY <1>1
    <3> QED
      BY <3>1, Division
  <2>2. s = Larger(1, period - m)
    BY <1>1 DEF FirstBeat
  <2> HIDE DEF m, q, s
  <2>3. s = period - m /\ s \in 1 .. period
    BY <2>1, <2>2 DEF Larger
  <2>4. now + s - ref = (q + 1) * period
    BY <2>1, <2>3
  <2>5. (now + s - ref) % period = 0
    BY <2>1, <2>4, Multiple
  <2> QED
    BY <2>3, <2>5 DEF s
<1>2. CASE ~ (now > ref)
  <2> DEFINE m == (ref - now) % period
             q == (ref - now) \div period
  <2>1. q \in Int /\ m \in 0 .. period - 1 /\ ref - now = q * period + m
    <3>1. ref - now \in Nat
      BY <1>2
    <3> QED
      BY <3>1, Division
  <2>2. s = Larger(1, m)
    BY <1>2 DEF FirstBeat
  <2> HIDE DEF m, q, s
  <2>3. s \in 1 .. period /\ (s = m \/ s = 1)
    BY <2>1, <2>2 DEF Larger
  <2>4. ASSUME s = m PROVE (now + s - ref) % period = 0
    <3>1. now + s - ref = (-q) * period
      BY <2>1, <2>4
    <3>2. -q \in Int
      BY <2>1
    <3> QED
      BY <3>1, <3>2, Multiple
  <2> QED
    BY <2>3, <2>4 DEF s
<1> QED
  BY <1>1, <1>2
=============================================================================
