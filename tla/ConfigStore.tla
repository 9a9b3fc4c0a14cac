----------------------------- MODULE ConfigStore -----------------------------
(***************************************************************************)
(* The configuration process (config/cfg.c, config/cfg_service.c) with its *)
(* clients: values in memory over ini files, the notification of changes   *)
(* to the tr069 process, and the session that sets values and saves them   *)
(* at its end (tr069_interface.c, tr069_session.c).                        *)
(*                                                                         *)
(* The process has one thread, so each IPC command is one step; power may  *)
(* fail inside a save or a factory reset.                                  *)
(***************************************************************************)
EXTENDS Naturals, Sequences

CONSTANTS
  Param,         \* the parameters (F_CFG_...)
  Value,         \* their values
  Cut,           \* what the buffer of a parameter (bufsize) holds of a value
  Missing,       \* a parameter that its file has no entry for
  FileOf,        \* the file of each parameter, or "none"
  Builtin,       \* default_value: what a parameter without an entry becomes
  Factory,       \* what default_config.ini holds
  Silent,        \* parameters that are set without a modify flag
  AtOnce         \* parameters whose set saves their file (MP_Volume)

File == {FileOf[p] : p \in Param} \ {"none"}
In(f) == {p \in Param : FileOf[p] = f}
SaveOrder == <<"config", "iptv", "tr069">>

ASSUME ConfigAssumption ==
  /\ Missing \notin Value
  /\ FileOf \in [Param -> {"config", "dynamic", "product", "stb", "iptv",
                           "tr069", "none"}]
  /\ {Builtin, Factory} \subseteq [Param -> Value]
  /\ Silent \subseteq Param /\ AtOnce \subseteq Param

(* What is cut to the size of a buffer is not cut again.                   *)
ASSUME BufferAssumption ==
  /\ Cut \in [Param -> [Value -> Value]]
  /\ \A p \in Param, v \in Value : Cut[p][Cut[p][v]] = Cut[p][v]

VARIABLES
  memory,          \* g_cfg_params
  file,            \* the ini files, by parameter
  modify_flag,     \* the parameters whose modify_flag is 1
  attribute,       \* the parameters whose tr069_notify is not '0'
  notify,          \* g_tr069_notify: the parameters that are '1'
  timer,           \* g_cfg_para_notify_timer is set
  running,         \* the tr069 process is running
  session,         \* it is in a session
  set_param_flag,  \* the session set a value
  saving,          \* the files that the end of the session has yet to save
  unreported,      \* history: changes neither told nor lost for a known reason
  acs              \* history: the last value of the ACS that was taken, of a
                   \* parameter nobody else touched since

store == <<memory, file>>
news == <<modify_flag, attribute, notify, timer>>
tr069 == <<running, session, set_param_flag, saving>>
history == <<unreported, acs>>
vars == <<store, news, tr069, history>>

TypeOK ==
  /\ memory \in [Param -> Value]
  /\ file \in [Param -> Value \cup {Missing}]
  /\ {modify_flag, attribute, notify, unreported} \subseteq SUBSET Param
  /\ {timer, running, session, set_param_flag} \subseteq BOOLEAN
  /\ saving \in {SubSeq(SaveOrder, i, Len(SaveOrder)) : i \in 1 .. Len(SaveOrder) + 1}
  /\ acs \in [Param -> Value \cup {Missing}]

(* A value shorter than the buffer of its parameter.                       *)
Fits(p, v) == Cut[p][v] = v

(* load_ini_string_parameter, for every parameter: too long is cut short.  *)
Loaded(d) ==
  [p \in Param |-> Cut[p][IF d[p] = Missing THEN Builtin[p] ELSE d[p]]]

Init ==
  /\ file \in [Param -> Value \cup {Missing}]
  /\ \A p \in In("none") : file[p] = Missing
  /\ memory = Loaded(file)
  /\ modify_flag = {} /\ attribute = {} /\ notify = {}
  /\ timer = FALSE
  /\ running \in BOOLEAN
  /\ session = FALSE /\ set_param_flag = FALSE /\ saving = <<>>
  /\ unreported = {}
  /\ acs = [p \in Param |-> Missing]

Forget(S) == [p \in Param |-> IF p \in S THEN Missing ELSE acs[p]]
-----------------------------------------------------------------------------
(* Saving a file (cfg_params_save and the five like it).                   *)

Marked(f) == In(f) \cap modify_flag \cap attribute

(* Mutant of Renewed: the marks of the other files are dropped.            *)
RenewedAlone(f) == Marked(f)
Renewed(f) == (notify \ In(f)) \cup Marked(f)

NeedsTimer(f) == Marked(f) # {} /\ ~timer

(* The dump goes to a file of its own, which replaces the old one.         *)
Written(f, m) == [p \in Param |-> IF p \in In(f) THEN m[p] ELSE file[p]]

(* cfg_para_tr069_notify, then the dump and the move.  No timer, or no     *)
(* temporary file: nothing is saved, and the clients are not told.         *)
Save(f, m, ok) ==
  /\ notify' = Renewed(f)
  /\ modify_flag' = modify_flag \ Marked(f)
  /\ \/ NeedsTimer(f) /\ ~ok /\ UNCHANGED timer
     \/ timer' = (timer \/ NeedsTimer(f))
  /\ file' = IF ok THEN Written(f, m) ELSE file

(* What a save brings to an end: marks made again before they were sent.   *)
SaveLoses(f) == (notify \cap In(f)) \ modify_flag

SaveFile(f) ==
  /\ f \in File
  /\ \E ok \in BOOLEAN :
       /\ Save(f, memory, ok)
       /\ acs' = IF ok THEN acs ELSE Forget(In(f))
  /\ unreported' = unreported \ SaveLoses(f)
  /\ UNCHANGED <<memory, attribute, tr069>>

(* cfg_para_notify_proc: the marks are sent if the tr069 process runs.     *)
(* Mutant: the marks are left.                                             *)
NotifyProcKeeps ==
  /\ timer
  /\ timer' = FALSE
  /\ notify' = notify
  /\ unreported' = unreported \ (notify \ modify_flag)
  /\ UNCHANGED <<store, modify_flag, attribute, tr069, acs>>
NotifyProc ==
  /\ timer
  /\ timer' = FALSE
  /\ notify' = {}
  /\ unreported' = unreported \ (notify \ modify_flag)
  /\ UNCHANGED <<store, modify_flag, attribute, tr069, acs>>
-----------------------------------------------------------------------------
(* Setting a value, by whomever, once it fits.                             *)
Write(p, v) ==
  LET m == [memory EXCEPT ![p] = v]
      changed == v # memory[p] /\ p \notin Silent \cup AtOnce
  IN /\ memory' = m
     /\ IF p \in AtOnce /\ FileOf[p] # "none"
        THEN /\ \E ok \in BOOLEAN : Save(FileOf[p], m, ok)
             /\ unreported' = unreported \ SaveLoses(FileOf[p])
        ELSE /\ modify_flag' = IF changed THEN modify_flag \cup {p} ELSE modify_flag
             /\ unreported' = IF changed THEN unreported \cup {p} ELSE unreported
             /\ UNCHANGED <<notify, timer, file>>
     /\ UNCHANGED <<attribute, running, session, saving>>

(* cfg_service_set_config refuses a value that does not fit; its callers   *)
(* are told FV_OK whatever it returns.                                     *)
Set(p, v) == \/ Fits(p, v) /\ Write(p, v)
             \/ /\ ~Fits(p, v)
                /\ UNCHANGED <<store, news, running, session, saving, unreported>>

SetConfig(p, v) == /\ Set(p, v)
                   /\ acs' = IF Fits(p, v) THEN Forget({p}) ELSE acs
                   /\ UNCHANGED set_param_flag

(* A parameter that the ACS sets in a session; equal values are skipped.   *)
(* A value that was refused raises the flag like one that was taken.       *)
(* Mutant: the flag is not raised.                                         *)
SetParameterUnflagged(p, v) ==
  /\ session /\ saving = <<>>
  /\ v # memory[p]
  /\ Set(p, v)
  /\ acs' = IF Fits(p, v) THEN [acs EXCEPT ![p] = v] ELSE acs
  /\ UNCHANGED set_param_flag
SetParameter(p, v) ==
  /\ session /\ saving = <<>>
  /\ v # memory[p]
  /\ Set(p, v)
  /\ acs' = IF Fits(p, v) THEN [acs EXCEPT ![p] = v] ELSE acs
  /\ set_param_flag' = TRUE

SetAttribute(p) == /\ attribute' \in {attribute \cup {p}, attribute \ {p}}
                   /\ UNCHANGED <<store, modify_flag, notify, timer, tr069, history>>

(* sync_config, sync_tr069: one value goes to the file and not to memory,  *)
(* if it fits.                                                             *)
SyncConfig(p, v) ==
  /\ FileOf[p] \in {"config", "tr069"} /\ Fits(p, v)
  /\ file' = [file EXCEPT ![p] = v]
  /\ acs' = Forget({p})
  /\ UNCHANGED <<memory, news, tr069, unreported>>

(* usb_ini_read: values of any number of lines, of any length, go to their *)
(* files.                                                                  *)
UsbParam == {p \in Param : FileOf[p] \in {"config", "product", "iptv", "stb"}}
ReadUsbIni(S, w) ==
  /\ S \subseteq UsbParam
  /\ file' = [p \in Param |-> IF p \in S THEN w[p] ELSE file[p]]
  /\ acs' = Forget(S)
  /\ UNCHANGED <<memory, news, tr069, unreported>>

(* factory_reset: one file is replaced, memory stays as it is.             *)
Replaced == [p \in Param |-> IF p \in In("config") THEN Factory[p] ELSE file[p]]
FactoryReset ==
  /\ session /\ saving = <<>>
  /\ file' = Replaced
  /\ acs' = Forget(In("config"))
  /\ UNCHANGED <<memory, news, tr069, unreported>>

Load(d) == /\ memory' = Loaded(d)
           /\ modify_flag' = {}

(* reload_config: what was not saved is lost, what is marked stays marked. *)
ReloadConfig ==
  /\ Load(file)
  /\ acs' = [p \in Param |-> IF acs[p] = memory'[p] THEN acs[p] ELSE Missing]
  /\ unreported' = unreported \cap notify
  /\ UNCHANGED <<file, attribute, notify, timer, tr069>>
-----------------------------------------------------------------------------
(* The tr069 process, as far as the configuration sees it.                 *)

StartTr069 == /\ ~running
              /\ running' = TRUE
              /\ UNCHANGED <<store, news, session, set_param_flag, saving, history>>

StopTr069 == /\ running /\ ~session
             /\ running' = FALSE
             /\ UNCHANGED <<store, news, session, set_param_flag, saving, history>>

OpenSession == /\ running /\ ~session
               /\ session' = TRUE
               /\ set_param_flag' = FALSE
               /\ UNCHANGED <<store, news, running, saving, history>>

(* The end of the session: one IPC call for each of three files.           *)
EndSession ==
  /\ session /\ saving = <<>>
  /\ IF set_param_flag
     THEN saving' = SaveOrder /\ session' = session
     ELSE saving' = <<>> /\ session' = FALSE
  /\ set_param_flag' = FALSE
  /\ UNCHANGED <<store, news, running, history>>

SaveNext ==
  /\ saving # <<>>
  /\ LET f == Head(saving) IN
       IF f \in File
       THEN /\ \E ok \in BOOLEAN : /\ Save(f, memory, ok)
                                   /\ acs' = IF ok THEN acs ELSE Forget(In(f))
            /\ unreported' = unreported \ SaveLoses(f)
       ELSE UNCHANGED <<file, modify_flag, notify, timer, unreported, acs>>
  /\ saving' = Tail(saving)
  /\ session' = (saving' # <<>>)
  /\ UNCHANGED <<memory, attribute, running, set_param_flag>>

(* Power fails, perhaps in a save or while cp replaces config.ini, and     *)
(* everything starts again; a cut cp leaves entries out.                   *)
Without(c, d) == [p \in Param |-> IF p \in c THEN Missing ELSE d[p]]
(* Mutant of CutSave: the file is written in place.                        *)
CutSaveInPlace(f) == {file, Written(f, memory), Without(In(f), file)}
CutSave(f) == {file, Written(f, memory)}
CutReset == {Without(c, Replaced) : c \in SUBSET In("config")}

PowerLoss ==
  /\ \/ file' = file
     \/ \E f \in File : file' \in CutSave(f)
     \/ session /\ saving = <<>> /\ file' \in CutReset
  /\ Load(file')
  /\ attribute' = {} /\ notify' = {} /\ timer' = FALSE
  /\ running' = FALSE /\ session' = FALSE /\ set_param_flag' = FALSE
  /\ saving' = <<>>
  /\ unreported' = {}
  /\ acs' = [p \in Param |-> IF acs[p] = memory'[p] THEN acs[p] ELSE Missing]

Next ==
  \/ \E p \in Param, v \in Value :
       SetConfig(p, v) \/ SetParameter(p, v) \/ SyncConfig(p, v)
  \/ \E p \in Param : SetAttribute(p)
  \/ \E S \in SUBSET UsbParam : \E w \in [S -> Value] : ReadUsbIni(S, w)
  \/ \E f \in File : SaveFile(f)
  \/ NotifyProc \/ FactoryReset \/ ReloadConfig
  \/ StartTr069 \/ StopTr069 \/ OpenSession \/ EndSession \/ SaveNext \/ PowerLoss

Spec == Init /\ [][Next]_vars
-----------------------------------------------------------------------------
(* A change is told, or still flagged, or marked, unless its file was saved *)
(* a second time before the timer fired, or tr069 was down, or a reload    *)
(* dropped it: saving the other files, as the end of a session does at     *)
(* once, takes nothing away.                                               *)
ChangeKept == unreported \subseteq modify_flag \cup notify

(* What is marked for the next notification was changed and not told since. *)
NoFalseNews == notify \subseteq unreported

(* The last value of the ACS that the process took is in memory and in the *)
(* file when the session is over, so a restart finds it, whatever came     *)
(* after it and did not fit, unless somebody else wrote the parameter, the *)
(* save failed, or a session does not save its file.  A value that does    *)
(* not fit is dropped, although the ACS is told that it is set.            *)
SessionSaves == {f \in File : \E i \in 1 .. Len(SaveOrder) : SaveOrder[i] = f}
AcsValueKept ==
  ~session => \A p \in Param : acs[p] # Missing /\ FileOf[p] \in SessionSaves
                                  => acs[p] = memory[p] /\ acs[p] = Loaded(file)[p]

(* The promise to the clients: a file is saved as a whole or not at all,   *)
(* power losses included, and a restart finds what was saved.              *)
Promise == INSTANCE DurableStore
  WITH Key <- Param, Val <- Value, Default <- Builtin, NoEntry <- Missing,
       Group <- {In(f) : f \in File}, ResetGroup <- In("config"),
       ResetTo <- Factory, Held <- Cut, mem <- memory, dur <- file
ImplementsStore == Promise!Spec

(* Types, and no mark without a change.                                     *)
StoreInv == TypeOK /\ NoFalseNews
=============================================================================
