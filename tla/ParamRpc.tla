------------------------------ MODULE ParamRpc ------------------------------
(***************************************************************************)
(* The RPCs of an ACS that read and write parameters (tr069_rpc.c), the    *)
(* parameters they find (tr069_parameter.c) and the configuration keys     *)
(* and memory behind these (tr069_interface.c), within a session that      *)
(* saves what it changed when it ends (tr069_session.c).                   *)
(*                                                                         *)
(* The tree is fixed after init (see ParamTree), so a lookup is a look     *)
(* into Names.  The text of a value matters by its kind only.              *)
(***************************************************************************)
EXTENDS Integers, Sequences, FiniteSets, SequencesExt, TLC

CONSTANTS
  Param,        \* the indexes TR069_PARAM_... of a box
  NoNameCu, NoNameOther, \* those without a name, by standard
  TypeOf,       \* the data type of each parameter
  Writable,     \* the parameters with write_flag 1
  KeyOf,        \* tr069_index_map, where it names a key
  FirstKey,     \* key number 0 of the configuration
  InMemory,     \* diagnosis parameters: kept by this process
  Configured,   \* for ...Real parameters: the key that is written
  Computed,     \* for parameters that are computed: what is read
  Passwords,    \* those whose value is not told to an ACS that names them
  PeriodicInform, LogMsg, Sqm, \* parameters whose change has an effect
  PresetCu, PresetCtc, \* parameters whose notification is preset to 2
  PresetKey,    \* keys whose flag is preset to 1, for CU
  Below,        \* for each object: the parameters below it, in tree order
  Key, Val,
  BoolText, IntText, NegText, TimeText, \* the values of a kind
  Fits,         \* the values shorter than the buffer of each key
  Cut,          \* what the 256 bytes of a diagnosis parameter hold of a value
  FirstDisk,    \* what the configuration files may hold at first
  ValueLists, AttributeLists, NameLists, \* the arguments of RPCs
  Stand,        \* values of g_tr069_stand
  MaxRpc, MaxRestart \* bounds: RPCs, restarts

ASSUME RpcAssumption ==
  /\ Writable \subseteq Param /\ InMemory \subseteq Param
  /\ DOMAIN KeyOf \subseteq Param /\ DOMAIN Configured \subseteq DOMAIN KeyOf
  /\ FirstKey \in Key /\ NegText \subseteq IntText
  /\ {"", "false"} \subseteq Val /\ FirstDisk \subseteq [Key -> Val]
  /\ MaxRpc \in Nat /\ MaxRestart \in Nat

(* The config process loads no more of a value than fits.                   *)
ASSUME BufferAssumption ==
  /\ Fits \in [Key -> SUBSET Val] /\ Cut \in [Val -> Val]
  /\ \A d \in FirstDisk, k \in Key : d[k] \in Fits[k]

(* Where a value is kept: in memory or under keys, of which a ...Real       *)
(* parameter has two of its own and none is the URL that was set locally.   *)
ASSUME PlaceAssumption ==
  /\ \A p \in DOMAIN KeyOf : KeyOf[p] \in Key \ {"LocalManageServerUrl"}
  /\ \A p \in DOMAIN Configured : Configured[p] \in Key \ {"LocalManageServerUrl"}
  /\ "LocalManageServerUrl" \in Key \ {FirstKey}
  /\ {"DNSServer0Real", "DNSServer1Real"} \subseteq DOMAIN Configured
  /\ Configured["DNSServer0Real"] # Configured["DNSServer1Real"]
  /\ InMemory \cap DOMAIN Configured = {}
  /\ "ManageSerURL" \notin InMemory \cup DOMAIN Configured \cup DOMAIN Computed

(* The entries of lists: texts of an ACS for values; for notifications one  *)
(* digit (the code tests the first character and keeps what atoi makes of   *)
(* the text).                                                               *)
Entry(Data) == [form : {"ok", "malformed", "longName", "longValue"},
                name : STRING, value : Seq(Data) \ {<<>>}]
AttributeEntry == [form : {"ok", "malformed", "longName", "longValue"},
                   name : STRING, value : Seq(0 .. 9) \ {<<>>}, meant : BOOLEAN]

ASSUME ListAssumption ==
  /\ \A list \in ValueLists : list \in Seq(Entry(Val))
  /\ \A list \in AttributeLists : list \in Seq(AttributeEntry)
  /\ NameLists \subseteq Seq(STRING)
  /\ \A n \in DOMAIN Below : Below[n] \in Seq(Param)

VARIABLES
  stand,        \* g_tr069_stand
  box,          \* conf: the values in the config process; mem: diagnosis
                \* parameters; setFlag: set_param_flag of the session;
                \* effects: what was restarted because of a value
  disk,         \* the values in the files
  attr,         \* notif: notif_type of each parameter; flag: the attribute
                \* of each key in the config process
  inSession,    \* a session is on
  tasks,        \* put into the queue and not yet taken
  busy,         \* g_speedtest_flag, g_packetlost_flag
  reply,        \* the last RPC and what was answered
  rpcs, restarts
vars == <<stand, box, disk, attr, inSession, tasks, busy, reply, rpcs, restarts>>

DNSServers == "Device.LAN.DNSServers"

-----------------------------------------------------------------------------
(* Names and keys.                                                          *)

NamedCu == Param \ NoNameCu
NamedOther == Param \ NoNameOther
Names == IF stand = "CU" THEN NamedCu ELSE NamedOther

(* A parameter without a key of its own holds 0 in tr069_index_map.         *)
ConfigKey(p) == IF p \in DOMAIN KeyOf THEN KeyOf[p] ELSE FirstKey

(* Parameters that share a key cannot be set by an ACS and are not preset,  *)
(* or a box of CU has but one of them; the lists of the parameters and of   *)
(* the keys that are preset agree.                                          *)
ASSUME KeyAssumption ==
  /\ PresetCu \cap NamedCu \subseteq DOMAIN KeyOf
  /\ PresetKey = {KeyOf[p] : p \in PresetCu \cap NamedCu}
  /\ \A p \in DOMAIN KeyOf \cap NamedCu : \A q \in NamedCu \ {p} :
       ConfigKey(q) = KeyOf[p] =>
         KeyOf[p] = FirstKey \/ {p, q} \cap (Writable \cup PresetCu) = {}

(* tr069_parameter_get_param: a parameter, or all below an object.          *)
GetParam(n) ==
  CASE n \in Names -> <<n>>
    [] n \in DOMAIN Below \ Names ->
         FoldLeft(LAMBDA found, p : IF p \in Names THEN Append(found, p) ELSE found,
                  <<>>, Below[n])
    [] OTHER -> <<>>

-----------------------------------------------------------------------------
(* Values.                                                                  *)

(* tr069_get_config.                                                        *)
GetConfig(b, p) ==
  CASE p \in InMemory -> b.mem[p]
    [] p \in DOMAIN Computed -> Computed[p]
    [] p = "AuthServiceInfoPPPOEEnable" ->
         IF b.conf["AddressingType"] = "PPPOE" THEN "true" ELSE "false"
    [] p = "ManageSerURL" /\ b.conf["LocalManageServerUrl"] # "" ->
         b.conf["LocalManageServerUrl"]
    [] OTHER -> b.conf[ConfigKey(p)]

(* What a new value of p restarts.                                          *)
Effect(p) == (IF p \in PeriodicInform THEN {"heartbeat"} ELSE {})
             \cup (IF p \in LogMsg THEN {"logmsg"} ELSE {})
             \cup (IF p \in Sqm THEN {"sqm"} ELSE {})

(* A value that restarts something has a key of its own.                    *)
ASSUME EffectAssumption ==
  \A p \in DOMAIN KeyOf : Effect(p) # {} =>
    /\ \A q \in DOMAIN Configured : Configured[q] # KeyOf[p]
    /\ KeyOf[p] # FirstKey /\ \A q \in DOMAIN KeyOf \ {p} : KeyOf[q] # KeyOf[p]

(* n_cfg_set_config: cfg_service_set_config refuses a value that does not   *)
(* fit its key and leaves the old one, and its caller is told FV_OK: the    *)
(* flag is raised and the effects are started all the same.                 *)
CfgSetConfig(conf, k, v) ==
  IF v \in Fits[k] THEN [conf EXCEPT ![k] = v] ELSE conf
Write(b, k, v, effect) == [b EXCEPT !.conf = CfgSetConfig(@, k, v), !.setFlag = TRUE,
                                    !.effects = @ \cup effect]

(* Mutants of SetConfig: the session is not told of a value of a ...Real    *)
(* parameter; what is restarted already is not set again.                   *)
SetConfigUnsaved(b, p, v) ==
  CASE p \in InMemory -> [b EXCEPT !.mem[p] = Cut[v]]
    [] p \in DOMAIN Configured -> [b EXCEPT !.conf = CfgSetConfig(@, Configured[p], v)]
    [] GetConfig(b, p) = v -> b
    [] OTHER -> Write(b, ConfigKey(p), v, Effect(p))

SetConfigOnce(b, p, v) ==
  CASE p \in InMemory -> [b EXCEPT !.mem[p] = Cut[v]]
    [] p \in DOMAIN Configured -> Write(b, Configured[p], v, {})
    [] GetConfig(b, p) = v \/ Effect(p) \cap b.effects # {} -> b
    [] OTHER -> Write(b, ConfigKey(p), v, Effect(p))

(* tr069_set_config.                                                        *)
SetConfig(b, p, v) ==
  CASE p \in InMemory -> [b EXCEPT !.mem[p] = Cut[v]]
    [] p \in DOMAIN Configured -> Write(b, Configured[p], v, {})
    [] p \notin InMemory \cup DOMAIN Configured /\ GetConfig(b, p) = v -> b
    [] OTHER -> Write(b, ConfigKey(p), v, Effect(p))

(* The checks of tr069_parameter_set_value, as the fault of the reply.      *)
ValueFault(n, v) ==
  CASE n \notin Names -> 9005
    [] n \in Names \ Writable -> 9008
    [] TypeOf[n] = "boolean" /\ v \notin BoolText -> 9006
    [] TypeOf[n] \in {"int", "unsignedInt"} /\ v \notin IntText -> 9006
    [] TypeOf[n] = "unsignedInt" /\ v \in NegText -> 9007
    [] TypeOf[n] = "dateTime" /\ v \notin TimeText -> 9006
    [] OTHER -> 0

(* The checks of tr069_parameter_set_attribute.                             *)
AttributeFault(n, v) == CASE n \notin Names -> 9005
                          [] n \in Names \ Writable -> 9008
                          [] n \in Writable /\ v \notin 0 .. 2 -> 9007
                          [] OTHER -> 0

-----------------------------------------------------------------------------
(* Lists of entries.  An entry has a name, the parts of its value (two when *)
(* there is a comma in a value for DNSServers), for attributes whether the  *)
(* change is meant, and a form: how far its elements are as they must be.   *)

FormFault(e) == CASE e.form = "ok" -> 0
                  [] e.form = "malformed" -> 9003
                  [] e.form = "longName" -> 9005
                  [] e.form = "longValue" -> 9007

(* The checks of a list RPC, of one parameter and of an entry.  The value   *)
(* of DNSServers is two values; the second is checked first.                *)
Fault(rpc, n, v) == IF rpc = "SetParameterValues" THEN ValueFault(n, v)
                    ELSE AttributeFault(n, v)
EntryFault(rpc, e) ==
  IF e.name # DNSServers THEN Fault(rpc, e.name, e.value[1])
  ELSE LET second == IF Len(e.value) = 2 THEN Fault(rpc, "DNSServer1Real", e.value[2])
                     ELSE 0
       IN IF second # 0 THEN second ELSE Fault(rpc, "DNSServer0Real", e.value[1])

(* tr069_rpc_add_spvf / add_spaf for each entry at fault, in order.         *)
AddFault(rpc, faults, e) ==
  IF EntryFault(rpc, e) = 0 THEN faults ELSE Append(faults, <<e.name, EntryFault(rpc, e)>>)
Faults(rpc, list) == FoldLeft(LAMBDA faults, e : AddFault(rpc, faults, e), <<>>, list)

(* For a mutant: the fault for a malformed entry keeps what was collected.  *)
CheckedKept(rpc, list) ==
  LET broken == SelectInSeq(list, LAMBDA e : FormFault(e) # 0)
      before == Faults(rpc, IF broken = 0 THEN list ELSE SubSeq(list, 1, broken - 1))
  IN [code |-> IF broken # 0 THEN FormFault(list[broken])
               ELSE IF before # <<>> THEN 9003 ELSE 0,
      items |-> before]

(* The first pass over a list: a malformed entry ends it with a fault of    *)
(* its own, and what was collected is dropped with the fault it was in.     *)
Checked(rpc, list) ==
  LET broken == SelectInSeq(list, LAMBDA e : FormFault(e) # 0) IN
  [code |-> IF broken # 0 THEN FormFault(list[broken])
            ELSE IF \E i \in 1 .. Len(list) : EntryFault(rpc, list[i]) # 0
            THEN 9003 ELSE 0,
   items |-> IF broken # 0 THEN <<>> ELSE Faults(rpc, list)]

(* What the second pass does with an entry; Set is for one parameter.       *)
SetEntry(s, e, Set(_, _, _)) ==
  IF e.name # DNSServers THEN Set(s, e.name, e.value[1])
  ELSE LET s1 == IF Len(e.value) = 2 THEN Set(s, "DNSServer1Real", e.value[2]) ELSE s
       IN Set(s1, "DNSServer0Real", e.value[1])

SetAll(list) ==
  FoldLeft(LAMBDA b, e : SetEntry(b, e, SetConfig), [box EXCEPT !.effects = {}], list)

Named(list, p) == \E i \in 1 .. Len(list) : list[i].name = p

(* The tasks of a list of values that were set.                             *)
TasksOf(list) ==
  (IF Named(list, "TracertDiagState") THEN <<"TRACERT">> ELSE <<>>)
  \o (IF Named(list, "PingDiagState") THEN <<"PING">> ELSE <<>>)
  \o (IF Named(list, "SpeedTestEnable") /\ "speed" \notin busy
      THEN <<"SPEED_TEST">> ELSE <<>>)

(* tr069_packetlost_test starts when the value is true.                     *)
LossStarts(list, b) ==
  Named(list, "PacketLostTestEnable") /\ b.mem["PacketLostTestEnable"] = "true"

-----------------------------------------------------------------------------
NoReply == [rpc |-> "none", args |-> <<>>, code |-> 0, items |-> <<>>, answers |-> <<>>]

Reply(rpc, args, code, items, answers) ==
  /\ inSession /\ rpcs < MaxRpc
  /\ rpcs' = rpcs + 1
  /\ reply' = [rpc |-> rpc, args |-> args, code |-> code, items |-> items,
               answers |-> answers]
  /\ UNCHANGED <<stand, disk, inSession, restarts>>

(* Mutant of SetParameterValues: entries are set as they are checked.       *)
SetParameterValuesAtOnce(list) ==
  LET check == Checked("SetParameterValues", list)
      good == SelectSeq(list, LAMBDA e :
                FormFault(e) = 0 /\ EntryFault("SetParameterValues", e) = 0)
  IN /\ Reply("SetParameterValues", list, check.code, check.items, <<>>)
     /\ box' = SetAll(good)
     /\ UNCHANGED <<tasks, busy, attr>>

(* tr069_rpc_set_parameter_values.                                          *)
SetParameterValues(list) ==
  LET check == Checked("SetParameterValues", list) IN
  /\ Reply("SetParameterValues", list, check.code, check.items, <<>>)
  /\ IF check.code # 0 THEN UNCHANGED <<box, tasks, busy>>
     ELSE /\ box' = SetAll(list)
          /\ tasks' = tasks \o TasksOf(list)
          /\ busy' = IF "loss" \notin busy /\ LossStarts(list, box')
                     THEN busy \cup {"loss"} ELSE busy
  /\ UNCHANGED attr

(* Mutants: a 2 is not made a 1; all entries are set.                       *)
SetAttributeQuiet(a, p, v) == [a EXCEPT !.notif[p] = v,
                                        !.flag[ConfigKey(p)] = IF v = 1 THEN 1 ELSE 0]

(* tr069_set_parameter_attribute: the key of the parameter gets the flag,   *)
(* all others are left alone.                                               *)
SetAttribute(a, p, v) == [a EXCEPT !.notif[p] = v,
                                   !.flag[ConfigKey(p)] = IF v = 0 THEN 0 ELSE 1]

MeantAny(e) == TRUE

(* NotificationChange is true.                                              *)
Meant(e) == e.meant

SetAttributes(list) ==
  FoldLeft(LAMBDA a, e : IF Meant(e) THEN SetEntry(a, e, SetAttribute) ELSE a, attr, list)

(* Mutant of SetParameterAttributes: see CheckedKept.                       *)
SetParameterAttributesKept(list) ==
  LET check == CheckedKept("SetParameterAttributes", list) IN
  /\ Reply("SetParameterAttributes", list, check.code, check.items, <<>>)
  /\ attr' = IF check.code # 0 THEN attr ELSE SetAttributes(list)
  /\ UNCHANGED <<box, tasks, busy>>

(* tr069_rpc_set_parameter_attributes: all entries are checked, those whose *)
(* NotificationChange is true are set.                                      *)
SetParameterAttributes(list) ==
  LET check == Checked("SetParameterAttributes", list) IN
  /\ Reply("SetParameterAttributes", list, check.code, check.items, <<>>)
  /\ attr' = IF check.code # 0 THEN attr ELSE SetAttributes(list)
  /\ UNCHANGED <<box, tasks, busy>>

(* tr069_parameter_get_value, get_attribute.                                *)
GetValue(p) == GetConfig(box, p)
GetAttribute(p) == attr.notif[p]

(* An answer for every parameter a name stands for.                         *)
Got(rpc, p) == IF rpc = "GetParameterValues" THEN GetValue(p) ELSE GetAttribute(p)
Answers(rpc, n) ==
  IF n = DNSServers
  THEN << <<DNSServers, <<Got(rpc, "DNSServer0Real"), Got(rpc, "DNSServer1Real")>> >> >>
  ELSE IF rpc = "GetParameterValues" /\ n \in Passwords THEN << <<n, "">> >>
  ELSE [j \in 1 .. Len(GetParam(n)) |-> <<GetParam(n)[j], Got(rpc, GetParam(n)[j])>>]
AnswerAll(rpc, names) == FoldLeft(LAMBDA as, n : as \o Answers(rpc, n), <<>>, names)

Unknown(n) == n # DNSServers /\ GetParam(n) = <<>>

(* GetParameterValues and GetParameterAttributes: one name that is unknown  *)
(* makes the whole reply a fault.                                           *)
GetReply(rpc, names) ==
  /\ IF \E i \in 1 .. Len(names) : Unknown(names[i])
     THEN Reply(rpc, names, 9005, <<>>, <<>>)
     ELSE Reply(rpc, names, 0, <<>>, AnswerAll(rpc, names))
  /\ UNCHANGED <<box, attr, tasks, busy>>

GetParameterValues(names) == GetReply("GetParameterValues", names)
GetParameterAttributes(names) == GetReply("GetParameterAttributes", names)

(* GetParameterNames of one path, to the end of the tree.                   *)
GetParameterNames(path) ==
  LET found == GetParam(path) IN
  /\ IF found = <<>> THEN Reply("GetParameterNames", <<path>>, 9005, <<>>, <<>>)
     ELSE Reply("GetParameterNames", <<path>>, 0, <<>>,
                [i \in 1 .. Len(found) |-> <<found[i], found[i] \in Writable>>])
  /\ UNCHANGED <<box, attr, tasks, busy>>

(* X_FV_Setup, well formed: no check of the values, and none of the names.  *)
XFvSetup(mac, stbid) ==
  /\ Reply("X_FV_Setup", <<mac, stbid>>, 0, <<>>, <<>>)
  /\ box' = SetConfig(SetConfig([box EXCEPT !.effects = {}], "MACAddress", mac), "STBID", stbid)
  /\ UNCHANGED <<attr, tasks, busy>>

FactoryReset == /\ Reply("FactoryReset", <<>>, 0, <<>>, <<>>)
                /\ tasks' = Append(tasks, "FACTORY_RESET")
                /\ UNCHANGED <<box, attr, busy>>

(* A request whose elements are not as they must be, or too long.           *)
MalformedRpc(rpc, code) == /\ Reply(rpc, <<>>, code, <<>>, <<>>)
                           /\ UNCHANGED <<box, attr, tasks, busy>>

UnknownRpc == /\ Reply("unknown", <<>>, 9000, <<>>, <<>>)
              /\ UNCHANGED <<box, attr, tasks, busy>>

-----------------------------------------------------------------------------
(* Around the RPCs.                                                         *)

SessionStart == /\ ~inSession
                /\ inSession' = TRUE
                /\ box' = [box EXCEPT !.setFlag = FALSE]
                /\ UNCHANGED <<stand, disk, attr, tasks, busy, reply, rpcs, restarts>>

SessionEnd == /\ inSession
              /\ inSession' = FALSE
              /\ disk' = IF box.setFlag THEN box.conf ELSE disk
              /\ UNCHANGED <<stand, box, attr, tasks, busy, reply, rpcs, restarts>>

(* The main task takes a task; a speed test starts unless it was turned off *)
(* since.                                                                   *)
TakeTask == /\ ~inSession /\ tasks # <<>>
            /\ tasks' = Tail(tasks)
            /\ busy' = IF Head(tasks) = "SPEED_TEST" /\ box.mem["SpeedTestEnable"] = "true"
                       THEN busy \cup {"speed"} ELSE busy
            /\ UNCHANGED <<stand, box, disk, attr, inSession, reply, rpcs, restarts>>

(* upload_speed_test: the test is over, or was turned off (its report is in *)
(* Tr069Control).                                                           *)
SpeedTestEnds ==
  /\ ~inSession /\ "speed" \in busy
  /\ busy' = busy \ {"speed"}
  /\ box' = [box EXCEPT !.mem["SpeedTestEnable"] = "false"]
  /\ UNCHANGED <<stand, disk, attr, inSession, tasks, reply, rpcs, restarts>>

(* check_packetlost: the ACS turned the test off.                           *)
LossTestEnds ==
  /\ ~inSession /\ "loss" \in busy /\ box.mem["PacketLostTestEnable"] = "false"
  /\ busy' = busy \ {"loss"}
  /\ UNCHANGED <<stand, box, disk, attr, inSession, tasks, reply, rpcs, restarts>>

(* tr069_parameter_init: the notifications preset in memory, and for CU the *)
(* flags in the config process, which stand at 0 for all other keys.        *)
FirstBox(d) == [conf |-> d, mem |-> [p \in InMemory |-> ""], setFlag |-> FALSE, effects |-> {}]
FirstAttr(s) ==
  LET preset == CASE s = "CU" -> PresetCu \cap NamedCu
                  [] s = "CTC" -> PresetCtc \cap NamedOther
                  [] OTHER -> {} IN
  [notif |-> [p \in Param |-> IF p \in preset THEN 2 ELSE 0],
   flag |-> [k \in Key |-> IF s = "CU" /\ k \in PresetKey THEN 1 ELSE 0]]

(* The box restarts: only the files are left.                               *)
Restart == /\ restarts < MaxRestart
           /\ restarts' = restarts + 1
           /\ box' = FirstBox(disk)
           /\ attr' = FirstAttr(stand)
           /\ inSession' = FALSE
           /\ tasks' = <<>> /\ busy' = {}
           /\ reply' = NoReply
           /\ UNCHANGED <<stand, disk, rpcs>>

Init == /\ stand \in Stand
        /\ disk \in FirstDisk
        /\ box = FirstBox(disk)
        /\ attr = FirstAttr(stand)
        /\ inSession = FALSE
        /\ tasks = <<>> /\ busy = {}
        /\ reply = NoReply
        /\ rpcs = 0 /\ restarts = 0

Rpc == \/ \E list \in ValueLists : SetParameterValues(list)
       \/ \E list \in AttributeLists : SetParameterAttributes(list)
       \/ \E names \in NameLists : GetParameterValues(names)
       \/ \E names \in NameLists : GetParameterAttributes(names)
       \/ \E path \in UNION {Range(names) : names \in NameLists} : GetParameterNames(path)
       \/ \E mac, stbid \in Val \ BoolText : XFvSetup(mac, stbid)
       \/ FactoryReset
       \/ \E code \in {9003, 9005} : MalformedRpc("GetParameterNames", code)
       \/ \E code \in {9003, 9005} : MalformedRpc("GetParameterValues", code)
       \/ \E code \in {9003, 9005} : MalformedRpc("GetParameterAttributes", code)
       \/ MalformedRpc("X_FV_Setup", 9003)
       \/ UnknownRpc

Next == Rpc \/ SessionStart \/ SessionEnd \/ TakeTask \/ SpeedTestEnds
        \/ LossTestEnds \/ Restart

Spec == Init /\ [][Next]_vars

-----------------------------------------------------------------------------
(* Types of the variables.                                                  *)
TypeOK ==
  /\ stand \in Stand /\ disk \in [Key -> Val]
  /\ box \in [conf : [Key -> Val], mem : [InMemory -> Val], setFlag : BOOLEAN,
              effects : SUBSET {"heartbeat", "logmsg", "sqm"}]
  /\ attr \in [notif : [Param -> 0 .. 2], flag : [Key -> 0 .. 1]]
  /\ inSession \in BOOLEAN /\ busy \subseteq {"speed", "loss"}
  /\ tasks \in Seq({"TRACERT", "PING", "SPEED_TEST", "FACTORY_RESET"})
  /\ rpcs \in 0 .. MaxRpc /\ restarts \in 0 .. MaxRestart

(* An RPC that is answered with a fault has changed nothing: no value, no   *)
(* notification, no task, no test (the two passes of the list RPCs).        *)
SetAllOrNothing ==
  [][rpcs' > rpcs /\ reply'.code # 0 => UNCHANGED <<box, attr, tasks, busy>>]_vars

(* The parameters, with their values, that an entry sets.                   *)
Targets(e) == IF e.name # DNSServers THEN {<<e.name, e.value[1]>>}
              ELSE {<<"DNSServer0Real", e.value[1]>>}
                   \cup (IF Len(e.value) = 2 THEN {<<"DNSServer1Real", e.value[2]>>} ELSE {})

WrittenKey(p) == IF p \in DOMAIN Configured THEN Configured[p] ELSE ConfigKey(p)
Taken(t) == t[1] \in InMemory \/ t[2] \in Fits[WrittenKey(t[1])]
SamePlace(p, q) == IF p \in InMemory THEN p = q
                   ELSE q \notin InMemory /\ WrittenKey(p) = WrittenKey(q)
Holds(b, p, v) == CASE p \in DOMAIN Configured -> b.conf[Configured[p]] = v
                    [] p = "ManageSerURL" -> b.conf["LocalManageServerUrl"] # ""
                                             \/ GetConfig(b, p) = v
                    [] p \in DOMAIN Computed \cup {"AuthServiceInfoPPPOEEnable"} -> TRUE
                    [] p \in InMemory -> b.mem[p] = Cut[v]
                    [] OTHER -> GetConfig(b, p) = v

(* t is the last value of the list for its place that is taken there.       *)
LastTaken(list, i, t) ==
  /\ t \in Targets(list[i]) /\ Taken(t)
  /\ \A j \in i + 1 .. Len(list) : \A u \in Targets(list[j]) :
       ~(SamePlace(t[1], u[1]) /\ Taken(u))

(* A key that a list has changed has a value the list gave it, which fits.  *)
GivenBy(list, k, v) ==
  \E i \in 1 .. Len(list) : \E t \in Targets(list[i]) :
    t[1] \notin InMemory /\ WrittenKey(t[1]) = k /\ v = t[2] /\ v \in Fits[k]

(* After a SetParameterValues that was accepted every parameter has the     *)
(* last value of the list that its key has room for (a diagnosis parameter  *)
(* as much of it as it holds), whatever was set before, after and under     *)
(* other names, and no key has any other new value: a value that is too     *)
(* long is dropped, though answered with Status 0, and disturbs nothing (a  *)
(* local URL of the ACS hides the one that was set).                        *)
LastValueHolds ==
  [][rpcs' > rpcs /\ reply'.rpc = "SetParameterValues" /\ reply'.code = 0 =>
       LET list == reply'.args IN
       /\ \A i \in 1 .. Len(list) : \A t \in Targets(list[i]) :
            LastTaken(list, i, t) => Holds(box', t[1], t[2])
       /\ \A k \in Key : box'.conf[k] # box.conf[k] => GivenBy(list, k, box'.conf[k])]_vars

(* The faults listed in a reply are those of the entries of the request     *)
(* that cannot be done, none of them is left out, and there are none in the *)
(* fault of a request that is malformed.                                    *)
FaultsExplain ==
  reply.rpc \in {"SetParameterValues", "SetParameterAttributes"} =>
    LET listed == {reply.items[i][1] : i \in 1 .. Len(reply.items)} IN
       IF \E i \in 1 .. Len(reply.args) : FormFault(reply.args[i]) # 0
       THEN reply.code # 0 /\ listed = {}
       ELSE /\ listed = {e.name : e \in {f \in Range(reply.args) :
                              \E t \in Targets(f) : Fault(reply.rpc, t[1], t[2]) # 0}}
            /\ (reply.code = 0) = (listed = {})

(* A value that is not yet in the files was set in the session that is on,  *)
(* which will save it; so a restart loses only what that session did.       *)
ChangedIsSaved == box.conf # disk => inSession /\ box.setFlag

(* An RPC that changes when reports are due restarts what reports them.     *)
RestartsOnChange ==
  [][rpcs' > rpcs =>
       \A p \in DOMAIN KeyOf :
         box'.conf[KeyOf[p]] # box.conf[KeyOf[p]] => Effect(p) \subseteq box'.effects]_vars

(* On a CU box the config process watches a key exactly when the parameter  *)
(* of that key is to be notified: a value change is reported when the ACS   *)
(* asked for it, over all orders of RPCs and restarts.                      *)
NotifMatchesFlag ==
  stand = "CU" =>
    \A p \in DOMAIN KeyOf \cap NamedCu : KeyOf[p] # FirstKey =>
      (attr.notif[p] # 0) = (attr.flag[KeyOf[p]] = 1)

(* Only entries whose NotificationChange is true change a notification.     *)
OnlyMeantChange ==
  [][rpcs' > rpcs => \A p \in Param : attr'.notif[p] # attr.notif[p] =>
       \E i \in 1 .. Len(reply'.args) :
         /\ reply'.args[i].meant
         /\ \E t \in Targets(reply'.args[i]) : t = <<p, attr'.notif[p]>>]_vars

(* A reply to a reading RPC has an answer for every name, or is a fault and *)
(* has none.                                                                *)
AnswersWhole ==
  reply.rpc \in {"GetParameterValues", "GetParameterAttributes"} =>
    IF reply.code # 0 THEN reply.answers = <<>>
    ELSE \A i \in 1 .. Len(reply.args) : \E j \in 1 .. Len(reply.answers) :
           \/ reply.answers[j][1] = reply.args[i]
           \/ /\ reply.args[i] \in DOMAIN Below
              /\ reply.answers[j][1] \in Range(Below[reply.args[i]])

(* Types, and what an RPC answers.                                          *)
AnswersInv == TypeOK /\ FaultsExplain /\ AnswersWhole

(* An RPC changes what its entries say and nothing else.                    *)
ChangesAsAsked == RestartsOnChange /\ OnlyMeantChange
=============================================================================
