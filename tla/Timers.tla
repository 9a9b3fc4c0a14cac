------------------------------- MODULE Timers -------------------------------
(***************************************************************************)
(* The timers of tr069_timer.c: the heartbeat with its first beat and its  *)
(* period, the log messages with their duration, the packet loss test.     *)
(* Each keeps the id of its timer in a variable of its own and stops the   *)
(* timer by that id.  The process has one thread: a timer's function, and  *)
(* a value the ACS sets in a session, run to their end before the next.    *)
(*                                                                         *)
(* f_timer_add gives an id that is not in use, which may have been in use  *)
(* before, or fails; a function that returns -1 ends its timer.            *)
(***************************************************************************)
EXTENDS Integers, FiniteSets

CONSTANTS
  Id,               \* ids of f_timer
  Interval,         \* values of PeriodicInformInterval
  HeartbeatLimit,   \* TR069_HEARTBEAT_LIMIT
  Duration,         \* values of LogMsgDuration, in periods of 10 s
  LogMsgLimit,      \* TR069_LOGMSG_LIMIT, likewise
  MaxSet, MaxFail   \* bounds: changes of values, calls of f_timer_add that fail

ASSUME TimersAssumption ==
  /\ Id \subseteq Nat \ {0} /\ Interval \subseteq Nat /\ Duration \subseteq Nat
  /\ HeartbeatLimit \in Nat \ {0} /\ LogMsgLimit \in Nat
  /\ MaxSet \in Nat /\ MaxFail \in Nat

Kind == {"heartbeat", "logmsg", "loss"}

VARIABLES
  enable,           \* PeriodicInformEnable
  interval,         \* PeriodicInformInterval
  logEnable, logOrFile, duration, \* LogMsgEnable, LogMsgOrFile (TRUE: messages), LogMsgDuration
  lossEnable,       \* PacketLostTestEnable
  live,             \* what runs under each id; "none": not in use
  every,            \* the period of the timer under each id; 0 before the first beat
  id,               \* tr069_heartbeat_timer, tr069_logmsg_timer, tr069_packetlost_timer
  left,             \* logmsg_duration_i, in periods of 10 s
  lossFlag,         \* g_packetlost_flag
  lost,             \* timers that are gone and were not to be: f_timer_add
                    \* failed, the dump of the player was missing, another
                    \* timer's old id was stopped, or boot did not start it
  stale,            \* timers whose values another process changed since they
                    \* were started
  sets, fails
config == <<enable, interval, logEnable, logOrFile, duration, lossEnable>>
timers == <<live, every, id, lost, stale>>
vars == <<config, timers, left, lossFlag, sets, fails>>

Larger(a, b) == IF a >= b THEN a ELSE b
Smaller(a, b) == IF a <= b THEN a ELSE b

(* get_1st_heartbeat_time: seconds to the first beat; beats are in phase    *)
(* with the time the ACS gave.  The operands of % are never negative here.  *)
FirstBeat(now, period, ref) ==
  Larger(1, IF now > ref THEN period - ((now - ref) % period) ELSE (ref - now) % period)

KindOf(what) == CASE what \in {"first", "periodic"} -> "heartbeat"
                  [] what = "logmsg" -> "logmsg"
                  [] what = "loss" -> "loss"
                  [] OTHER -> "none"

-----------------------------------------------------------------------------
(* tr069_..._timer_stop: what runs under the id k keeps, be it its own or   *)
(* not, is removed.                                                         *)
Stopped(k) == IF id[k] = 0 THEN live ELSE [live EXCEPT ![id[k]] = "none"]
HitByStop(k) ==
  IF id[k] # 0 /\ live[id[k]] # "none" /\ KindOf(live[id[k]]) # k
  THEN {KindOf(live[id[k]])} ELSE {}

(* Mutant of Restarted: the old timer is not stopped.                       *)
RestartedUnstopped(k, what, period) ==
  \/ \E new \in {i \in Id : live[i] = "none"} :
       /\ live' = [live EXCEPT ![new] = what]
       /\ every' = [every EXCEPT ![new] = period]
       /\ id' = [id EXCEPT ![k] = new]
       /\ lost' = lost \ {k} /\ stale' = stale \ {k}
       /\ UNCHANGED fails
  \/ /\ fails < MaxFail /\ fails' = fails + 1
     /\ live' = live /\ id' = [id EXCEPT ![k] = 0]
     /\ lost' = lost \cup {k} /\ stale' = stale \ {k}
     /\ UNCHANGED every

(* The timer of k is stopped and added anew.                                *)
Restarted(k, what, period) ==
  \/ \E new \in {i \in Id : Stopped(k)[i] = "none"} :
       /\ live' = [Stopped(k) EXCEPT ![new] = what]
       /\ every' = [every EXCEPT ![new] = period]
       /\ id' = [id EXCEPT ![k] = new]
       /\ lost' = (lost \cup HitByStop(k)) \ {k} /\ stale' = stale \ {k}
       /\ UNCHANGED fails
  \/ /\ fails < MaxFail /\ fails' = fails + 1
     /\ live' = Stopped(k) /\ id' = [id EXCEPT ![k] = 0]
     /\ lost' = lost \cup HitByStop(k) \cup {k} /\ stale' = stale \ {k}
     /\ UNCHANGED every

Stop(k) == /\ live' = Stopped(k) /\ id' = [id EXCEPT ![k] = 0]
           /\ lost' = (lost \cup HitByStop(k)) \ {k} /\ stale' = stale \ {k}
           /\ UNCHANGED <<every, fails>>

(* Mutant of StartHeartbeat: it does nothing when there is nothing to start. *)
StartHeartbeatOnly == IF enable' THEN Restarted("heartbeat", "first", 0)
                      ELSE UNCHANGED <<timers, fails>>

(* tr069_start_heartbeat, with the values just set.                         *)
StartHeartbeat == IF enable' THEN Restarted("heartbeat", "first", 0)
                             ELSE Stop("heartbeat")

(* tr069_start_logmsg.                                                      *)
StartLogmsg ==
  IF logOrFile' /\ logEnable'
  THEN /\ left' = Smaller(duration', LogMsgLimit)
       /\ Restarted("logmsg", "logmsg", 1)
  ELSE Stop("logmsg") /\ UNCHANGED left

-----------------------------------------------------------------------------
(* The ACS sets a value that differs.                                       *)

Sets == sets < MaxSet /\ sets' = sets + 1

SetEnable == /\ Sets /\ enable' = ~enable
             /\ UNCHANGED <<interval, logEnable, logOrFile, duration, lossEnable>>
             /\ StartHeartbeat
             /\ UNCHANGED <<left, lossFlag>>

SetInterval(i) == /\ Sets /\ i # interval /\ interval' = i
                  /\ UNCHANGED <<enable, logEnable, logOrFile, duration, lossEnable>>
                  /\ StartHeartbeat
                  /\ UNCHANGED <<left, lossFlag>>

SetLog(e, o, d) == /\ Sets
                   /\ logEnable' = e /\ logOrFile' = o /\ duration' = d
                   /\ <<e, o, d>> # <<logEnable, logOrFile, duration>>
                   /\ UNCHANGED <<enable, interval, lossEnable>>
                   /\ StartLogmsg
                   /\ UNCHANGED lossFlag

(* The value is kept in memory and set though it does not differ; the test  *)
(* starts unless one is on, and its flag is up even when its timer fails.   *)
SetLossTest(e) ==
  /\ Sets /\ lossEnable' = e
  /\ UNCHANGED <<enable, interval, logEnable, logOrFile, duration, left>>
  /\ IF e /\ ~lossFlag
     THEN /\ lossFlag' = TRUE
          /\ \/ \E new \in {i \in Id : live[i] = "none"} :
                  /\ live' = [live EXCEPT ![new] = "loss"]
                  /\ every' = [every EXCEPT ![new] = 1]
                  /\ id' = [id EXCEPT !["loss"] = new]
                  /\ lost' = lost \ {"loss"}
                  /\ UNCHANGED <<fails, stale>>
             \/ /\ fails < MaxFail /\ fails' = fails + 1
                /\ id' = [id EXCEPT !["loss"] = 0]
                /\ lost' = lost \cup {"loss"}
                /\ UNCHANGED <<live, every, stale>>
     ELSE UNCHANGED <<timers, lossFlag, fails>>

(* Another process has the config process change values, or load them      *)
(* again: tr069_timer.c reads them when a timer fires and not before.       *)
ChangedOutside ==
  /\ Sets
  /\ \/ /\ enable' \in BOOLEAN /\ interval' \in Interval
        /\ stale' = stale \cup {"heartbeat"}
        /\ UNCHANGED <<logEnable, logOrFile, duration>>
     \/ /\ logEnable' \in BOOLEAN
        /\ stale' = stale \cup {"logmsg"}
        /\ UNCHANGED <<enable, interval, logOrFile, duration>>
  /\ UNCHANGED <<lossEnable, live, every, id, lost, left, lossFlag, fails>>

-----------------------------------------------------------------------------
(* A timer fires.                                                           *)

(* Its function returns -1.                                                 *)
Ends(i, k) == /\ live' = [live EXCEPT ![i] = "none"]
              /\ id' = [id EXCEPT ![k] = 0]
              /\ stale' = stale \ {k}
              /\ UNCHANGED <<every, lost, fails>>

Period(i) == Larger(i, HeartbeatLimit)

(* tr069_heartbeat, the first beat: a timer with the period is added while  *)
(* this one still has its id, which it then gives back.                     *)
FirstHeartbeat(i) ==
  /\ live[i] = "first" /\ enable
  /\ \/ \E new \in {j \in Id : live[j] = "none"} :
          /\ live' = [live EXCEPT ![new] = "periodic", ![i] = "none"]
          /\ every' = [every EXCEPT ![new] = Period(interval)]
          /\ id' = [id EXCEPT !["heartbeat"] = new]
          /\ UNCHANGED <<lost, fails>>
     \/ /\ fails < MaxFail /\ fails' = fails + 1
        /\ live' = [live EXCEPT ![i] = "none"]
        /\ id' = [id EXCEPT !["heartbeat"] = 0]
        /\ lost' = lost \cup {"heartbeat"}
        /\ UNCHANGED every
  /\ stale' = stale \ {"heartbeat"}
  /\ UNCHANGED <<config, left, lossFlag, sets>>

Heartbeat(i) == /\ live[i] = "periodic" /\ enable
                /\ UNCHANGED vars

HeartbeatOff(i) == /\ live[i] \in {"first", "periodic"} /\ ~enable
                   /\ Ends(i, "heartbeat")
                   /\ UNCHANGED <<config, left, lossFlag, sets>>

(* Mutant of LogmsgOff: the id of the timer is kept.                        *)
LogmsgOffKept(i) == /\ live[i] = "logmsg" /\ ~logEnable
                    /\ live' = [live EXCEPT ![i] = "none"]
                    /\ UNCHANGED <<config, every, id, lost, stale, fails, left, lossFlag, sets>>

(* tr069_logmsg.                                                            *)
LogmsgOff(i) == /\ live[i] = "logmsg" /\ ~logEnable
                /\ Ends(i, "logmsg")
                /\ UNCHANGED <<config, left, lossFlag, sets>>

(* The duration is over: LogMsgEnable is made false.                        *)
LogmsgOver(i) == /\ live[i] = "logmsg" /\ logEnable /\ left < 0
                 /\ logEnable' = FALSE
                 /\ Ends(i, "logmsg")
                 /\ UNCHANGED <<enable, interval, logOrFile, duration, lossEnable,
                                left, lossFlag, sets>>

(* Mutant of Logmsg: the duration does not run.                             *)
LogmsgForever(i) == /\ live[i] = "logmsg" /\ logEnable /\ left >= 0
                    /\ UNCHANGED vars

Logmsg(i) == /\ live[i] = "logmsg" /\ logEnable /\ left >= 0
             /\ left' = left - 1
             /\ UNCHANGED <<config, timers, lossFlag, sets, fails>>

(* The dump of the player is missing: the function returns -1 and leaves    *)
(* the id of its timer, which is no more, in tr069_logmsg_timer.            *)
LogmsgNoDump(i) == /\ live[i] = "logmsg" /\ logEnable /\ left >= 0
                   /\ left' = left - 1
                   /\ live' = [live EXCEPT ![i] = "none"]
                   /\ lost' = lost \cup {"logmsg"}
                   /\ UNCHANGED <<config, every, id, stale, lossFlag, sets, fails>>

(* check_packetlost.                                                        *)
LossOff(i) == /\ live[i] = "loss" /\ ~lossEnable
              /\ lossFlag' = FALSE
              /\ Ends(i, "loss")
              /\ UNCHANGED <<config, left, sets>>

-----------------------------------------------------------------------------
(* Boot starts the heartbeat as configured, and nothing else.               *)
Init == /\ enable \in BOOLEAN /\ interval \in Interval
        /\ logEnable \in BOOLEAN /\ logOrFile \in BOOLEAN /\ duration \in Duration
        /\ lossEnable = FALSE /\ lossFlag = FALSE
        /\ \E first \in Id :
             /\ live = [i \in Id |-> IF enable /\ i = first THEN "first" ELSE "none"]
             /\ id = [k \in Kind |-> IF enable /\ k = "heartbeat" THEN first ELSE 0]
        /\ every = [i \in Id |-> 0]
        /\ left = 0
        /\ lost = IF logEnable /\ logOrFile THEN {"logmsg"} ELSE {}
        /\ stale = {} /\ sets = 0 /\ fails = 0

Fire(i) == \/ FirstHeartbeat(i) \/ Heartbeat(i) \/ HeartbeatOff(i)
           \/ Logmsg(i) \/ LogmsgNoDump(i) \/ LogmsgOff(i) \/ LogmsgOver(i)
           \/ LossOff(i)

Set == \/ SetEnable
       \/ \E i \in Interval : SetInterval(i)
       \/ \E e, o \in BOOLEAN, d \in Duration : SetLog(e, o, d)
       \/ \E e \in BOOLEAN : SetLossTest(e)
       \/ ChangedOutside

Next == Set \/ \E i \in Id : Fire(i)

Spec == Init /\ [][Next]_vars

(* A timer that runs fires again and again; the dump of the player need     *)
(* never be missing.                                                        *)
FairSpec ==
  /\ Spec
  /\ \A i \in Id :
       /\ WF_vars(FirstHeartbeat(i) \/ HeartbeatOff(i))
       /\ WF_vars(Logmsg(i) \/ LogmsgOff(i) \/ LogmsgOver(i))
       /\ WF_vars(LossOff(i))

-----------------------------------------------------------------------------
(* Types of the variables.                                                  *)
TypeOK ==
  /\ enable \in BOOLEAN /\ interval \in Interval
  /\ logEnable \in BOOLEAN /\ logOrFile \in BOOLEAN /\ duration \in Duration
  /\ lossEnable \in BOOLEAN /\ lossFlag \in BOOLEAN
  /\ live \in [Id -> {"none", "first", "periodic", "logmsg", "loss"}]
  /\ every \in [Id -> Nat]
  /\ id \in [Kind -> Id \cup {0}]
  /\ left \in -1 .. LogMsgLimit
  /\ lost \subseteq Kind /\ stale \subseteq {"heartbeat", "logmsg"}
  /\ sets \in 0 .. MaxSet /\ fails \in 0 .. MaxFail

(* Each timer that runs is the one whose id its variable keeps: there are   *)
(* never two heartbeats, over the change from the first beat to the period, *)
(* stops, restarts and failures.                                            *)
OneTimerEach == \A i \in Id : live[i] # "none" => id[KindOf(live[i])] = i

(* A heartbeat that is enabled is due, one that is not is gone, unless its  *)
(* timer was lost or another process changed its values.                    *)
BeatsWhenEnabled ==
  "heartbeat" \notin lost \cup stale =>
    enable = (\E i \in Id : live[i] \in {"first", "periodic"})

(* A timer with a period has the one that is configured now, unless         *)
(* another process changed it.                                              *)
PeriodInForce ==
  "heartbeat" \notin stale =>
    \A i \in Id : live[i] = "periodic" => every[i] = Period(interval)

(* LogMsgEnable says whether log messages are sent: it is taken back when   *)
(* their time is over.                                                      *)
LogTruth ==
  "logmsg" \notin lost \cup stale =>
    (logEnable /\ logOrFile) = (\E i \in Id : live[i] = "logmsg")

(* The heartbeat is lost only when f_timer_add failed, or when log messages *)
(* whose timer was lost were stopped by an id that was not theirs any more. *)
HeartbeatLostLate ==
  [][("heartbeat" \in lost' /\ "heartbeat" \notin lost) =>
       fails' > fails \/ "logmsg" \in lost]_vars

(* Log messages end by themselves, and so does a packet loss test that was  *)
(* turned off, unless its timer was lost.                                   *)
LogEnds == \A i \in Id : live[i] = "logmsg" ~> live[i] # "logmsg"
LossEnds == lossFlag /\ ~lossEnable ~> ~lossFlag \/ lossEnable \/ "loss" \in lost

(* Types, and the timers that the variables tell of.                        *)
TimersInv == TypeOK /\ OneTimerEach /\ PeriodInForce

(* What runs is what is configured.                                         *)
AsConfigured == BeatsWhenEnabled /\ LogTruth

(* What is to end ends.                                                     *)
TestsEnd == LogEnds /\ LossEnds
=============================================================================
