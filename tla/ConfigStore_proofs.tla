------------------------- MODULE ConfigStore_proofs -------------------------
(***************************************************************************)
(* Theorems about the configuration process, for any parameters, values    *)
(* and files: no change is forgotten, nothing is told that did not change, *)
(* a value of the ACS is in its file when the session is over, and the     *)
(* store keeps the promise of DurableStore, power losses included.         *)
(***************************************************************************)
EXTENDS ConfigStore, SequenceTheorems, TLAPS

(* The files that the end of the session has yet to save.                  *)
Pending == {saving[i] : i \in 1 .. Len(saving)}

(* What keeps a value of the ACS until it is in its file.                  *)
SafeValue(p) == \/ Loaded(file)[p] = acs[p]
                \/ set_param_flag
                \/ FileOf[p] \in Pending

(* A flagged parameter has changed, a value of the ACS is still the one in *)
(* memory, it is in the file or a save of it is ahead; nothing is ahead    *)
(* when the session is over, and it sets nothing while it saves.           *)
FlagsAreNews == modify_flag \subseteq unreported
SessionOver == /\ ~session => saving = <<>> /\ ~set_param_flag
               /\ saving # <<>> => ~set_param_flag
AcsInMemory == \A p \in Param : acs[p] # Missing => acs[p] = memory[p]
AcsSafe == \A p \in Param : acs[p] # Missing /\ FileOf[p] \in SessionSaves
                              => SafeValue(p)

NewsInv == FlagsAreNews /\ NoFalseNews /\ ChangeKept
AcsInv == SessionOver /\ AcsInMemory /\ AcsSafe
-----------------------------------------------------------------------------
(* Types.                                                                  *)

Queues == {SubSeq(SaveOrder, i, Len(SaveOrder)) : i \in 1 .. Len(SaveOrder) + 1}

(* The files of a queue are its first one and those of its tail.           *)
LEMMA FirstAndRest ==
  ASSUME NEW S, NEW s \in Seq(S), s # <<>>
  PROVE  /\ Tail(s) \in Seq(S)
         /\ {s[i] : i \in 1 .. Len(s)} =
              {Head(s)} \cup {Tail(s)[i] : i \in 1 .. Len(Tail(s))}
<1>1. /\ Len(s) \in Nat \ {0}
      /\ Tail(s) \in Seq(S) /\ Len(Tail(s)) = Len(s) - 1
      /\ \A i \in 1 .. Len(s) - 1 : Tail(s)[i] = s[i + 1]
  OBVIOUS
<1>2. Head(s) = s[1]
  OBVIOUS
<1>3. ASSUME NEW i \in 1 .. Len(s), i # 1
      PROVE  i - 1 \in 1 .. Len(s) - 1 /\ s[i] = Tail(s)[i - 1]
  BY <1>1, <1>3
<1>4. ASSUME NEW i \in 1 .. Len(s) - 1
      PROVE  i + 1 \in 1 .. Len(s) /\ Tail(s)[i] = s[i + 1]
  BY <1>1
<1>5. 1 \in 1 .. Len(s)
  BY <1>1
<1> QED BY <1>1, <1>2, <1>3, <1>4, <1>5

(* The files of a queue.                                                   *)
SavedFile == {"config", "iptv", "tr069"}

LEMMA OrderIs == Len(SaveOrder) = 3 /\ SaveOrder \in Seq(SavedFile)
BY DEF SaveOrder, SavedFile

(* What a queue leaves is a queue.                                         *)
LEMMA QueueIs ==
  ASSUME NEW q \in Queues
  PROVE  /\ q \in Seq(SavedFile)
         /\ q # <<>> => Tail(q) \in Queues
<1>1. PICK i \in 1 .. 4 : q = SubSeq(SaveOrder, i, 3)
  BY OrderIs DEF Queues
<1>2. CASE i = 4
  <2>1. q = <<>>
    BY <1>1, <1>2, OrderIs, SubSeqEmpty
  <2> QED BY <2>1
<1>3. CASE i \in 1 .. 3
  <2>1. \A j \in i .. 3 : j \in 1 .. Len(SaveOrder)
    BY <1>3, OrderIs
  <2>2. \A j \in i .. 3 : SaveOrder[j] \in SavedFile
    BY <2>1, OrderIs, ElementOfSeq
  <2>3. q \in Seq(SavedFile)
    BY <1>1, <2>2, SubSeqProperties
  <2>4. Tail(q) = SubSeq(SaveOrder, i + 1, 3)
    BY <1>1, <1>3, OrderIs, HeadTailOfSubSeq
  <2>5. i + 1 \in 1 .. 4
    BY <1>3
  <2> QED BY <2>3, <2>4, <2>5, OrderIs DEF Queues
<1> QED BY <1>2, <1>3

(* Among them are the three files and the queue that is done.              *)
LEMMA WholeAndEmpty == SaveOrder \in Queues /\ <<>> \in Queues
<1>1. SubSeq(SaveOrder, 1, 3) = SaveOrder
  BY OrderIs, SubSeqFull
<1>2. SubSeq(SaveOrder, 4, 3) = <<>>
  BY OrderIs, SubSeqEmpty
<1> QED BY <1>1, <1>2, OrderIs DEF Queues

(* A save takes its file from the front of the queue, which stays one.     *)
LEMMA NextQueue ==
  ASSUME saving \in Queues, saving # <<>>
  PROVE  /\ Tail(saving) \in Queues
         /\ Pending = {Head(saving)} \cup
                      {Tail(saving)[i] : i \in 1 .. Len(Tail(saving))}
BY QueueIs, FirstAndRest DEF Pending

(* Every file that a session saves is in the queue that its end makes.     *)
LEMMA AllAhead ==
  ASSUME saving' = SaveOrder
  PROVE  SessionSaves \subseteq Pending'
BY DEF SessionSaves, Pending

(* What is loaded and what is written are values.                          *)
LEMMA LoadedType ==
  ASSUME NEW d \in [Param -> Value \cup {Missing}]
  PROVE  Loaded(d) \in [Param -> Value]
BY ConfigAssumption, BufferAssumption DEF Loaded

LEMMA WrittenType ==
  ASSUME TypeOK, NEW f, NEW m \in [Param -> Value]
  PROVE  Written(f, m) \in [Param -> Value \cup {Missing}]
BY DEF Written, TypeOK

LEMMA ReplacedType ==
  ASSUME TypeOK
  PROVE  /\ Replaced \in [Param -> Value \cup {Missing}]
         /\ \A c \in SUBSET Param :
              Without(c, Replaced) \in [Param -> Value \cup {Missing}]
BY ConfigAssumption DEF Replaced, Without, TypeOK

LEMMA ForgetType ==
  ASSUME TypeOK, NEW S
  PROVE  Forget(S) \in [Param -> Value \cup {Missing}]
BY DEF Forget, TypeOK

(* A save leaves marks, flags, timer and files what they are.              *)
LEMMA SaveType ==
  ASSUME TypeOK, NEW f, NEW m \in [Param -> Value], NEW ok \in BOOLEAN,
         Save(f, m, ok)
  PROVE  /\ notify' \subseteq Param /\ modify_flag' \subseteq Param
         /\ timer' \in BOOLEAN
         /\ file' \in [Param -> Value \cup {Missing}]
<1>1. notify' \subseteq Param /\ modify_flag' \subseteq Param
  BY DEF Save, Renewed, Marked, TypeOK
<1>2. timer' \in BOOLEAN
  <2>1. timer \in BOOLEAN
    BY DEF TypeOK
  <2>2. UNCHANGED timer \/ timer' = (timer \/ NeedsTimer(f))
    BY DEF Save
  <2> QED BY <2>1, <2>2
<1>3. file' \in [Param -> Value \cup {Missing}]
  BY WrittenType DEF Save, TypeOK
<1> QED BY <1>1, <1>2, <1>3
-----------------------------------------------------------------------------
(* A value that anybody sets, with the save of its file where there is one. *)
LEMMA WriteType ==
  ASSUME TypeOK, NEW p \in Param, NEW v \in Value, Write(p, v)
  PROVE  /\ memory' \in [Param -> Value]
         /\ file' \in [Param -> Value \cup {Missing}]
         /\ {modify_flag', attribute', notify', unreported'} \subseteq SUBSET Param
         /\ {timer', running', session'} \subseteq BOOLEAN
         /\ saving' \in Queues
<1> DEFINE m == [memory EXCEPT ![p] = v]
<1>1. m \in [Param -> Value]
  BY DEF TypeOK
<1>2. /\ memory' = m
      /\ UNCHANGED <<attribute, running, session, saving>>
  BY DEF Write
<1>3. CASE p \in AtOnce /\ FileOf[p] # "none"
  <2>1. PICK ok \in BOOLEAN : Save(FileOf[p], m, ok)
    BY <1>3 DEF Write
  <2>2. unreported' \subseteq unreported
    BY <1>3 DEF Write
  <2> HIDE DEF m
  <2>3. /\ notify' \subseteq Param /\ modify_flag' \subseteq Param
        /\ timer' \in BOOLEAN
        /\ file' \in [Param -> Value \cup {Missing}]
    BY <1>1, <2>1, SaveType
  <2> QED BY <1>1, <1>2, <2>2, <2>3 DEF TypeOK, Queues
<1>4. CASE ~(p \in AtOnce /\ FileOf[p] # "none")
  <2>1. /\ modify_flag' \subseteq modify_flag \cup {p}
        /\ unreported' \subseteq unreported \cup {p}
        /\ UNCHANGED <<notify, timer, file>>
    BY <1>4 DEF Write
  <2> QED BY <1>1, <1>2, <2>1 DEF TypeOK, Queues
<1> QED BY <1>3, <1>4

LEMMA SetType ==
  ASSUME TypeOK, NEW p \in Param, NEW v \in Value, Set(p, v)
  PROVE  /\ memory' \in [Param -> Value]
         /\ file' \in [Param -> Value \cup {Missing}]
         /\ {modify_flag', attribute', notify', unreported'} \subseteq SUBSET Param
         /\ {timer', running', session'} \subseteq BOOLEAN
         /\ saving' \in Queues
<1>1. CASE Fits(p, v)
  <2>1. Write(p, v)
    BY <1>1 DEF Set
  <2> QED BY <2>1, WriteType
<1>2. CASE ~Fits(p, v)
  <2>1. UNCHANGED <<store, news, running, session, saving, unreported>>
    BY <1>2 DEF Set
  <2> QED BY <2>1 DEF TypeOK, Queues, store, news
<1> QED BY <1>1, <1>2

(* Types hold in every step.                                               *)
LEMMA StepType == TypeOK /\ [Next]_vars => TypeOK'
<1> SUFFICES ASSUME TypeOK, [Next]_vars PROVE TypeOK'
  OBVIOUS
<1>1. ASSUME NEW p \in Param, NEW v \in Value, SetConfig(p, v) PROVE TypeOK'
  <2>1. acs' \in [Param -> Value \cup {Missing}]
    BY <1>1, ForgetType DEF SetConfig, TypeOK
  <2>2. Set(p, v) /\ set_param_flag' = set_param_flag
    BY <1>1 DEF SetConfig
  <2> QED BY <2>1, <2>2, SetType DEF TypeOK, Queues
<1>2. ASSUME NEW p \in Param, NEW v \in Value, SetParameter(p, v)
      PROVE  TypeOK'
  <2>1. acs' \in [Param -> Value \cup {Missing}]
    BY <1>2 DEF SetParameter, TypeOK
  <2>2. Set(p, v) /\ set_param_flag' = TRUE
    BY <1>2 DEF SetParameter
  <2> QED BY <2>1, <2>2, SetType DEF TypeOK, Queues
<1>3. ASSUME NEW p \in Param, NEW v \in Value, SyncConfig(p, v) PROVE TypeOK'
  <2>1. acs' \in [Param -> Value \cup {Missing}]
    BY <1>3, ForgetType DEF SyncConfig
  <2> QED BY <1>3, <2>1 DEF SyncConfig, TypeOK, news, tr069
<1>4. ASSUME NEW p \in Param, SetAttribute(p) PROVE TypeOK'
  BY <1>4 DEF SetAttribute, TypeOK, store, tr069, history
<1>5. ASSUME NEW S \in SUBSET UsbParam, NEW w \in [S -> Value], ReadUsbIni(S, w)
      PROVE  TypeOK'
  <2>1. acs' \in [Param -> Value \cup {Missing}]
    BY <1>5, ForgetType DEF ReadUsbIni
  <2>2. file' \in [Param -> Value \cup {Missing}]
    BY <1>5 DEF ReadUsbIni, TypeOK, UsbParam
  <2> QED BY <1>5, <2>1, <2>2 DEF ReadUsbIni, TypeOK, news, tr069
<1>6. ASSUME NEW f \in File, SaveFile(f) PROVE TypeOK'
  <2>1. PICK ok \in BOOLEAN : /\ Save(f, memory, ok)
                              /\ acs' = IF ok THEN acs ELSE Forget(In(f))
    BY <1>6 DEF SaveFile
  <2>2. acs' \in [Param -> Value \cup {Missing}]
    BY <2>1, ForgetType DEF TypeOK
  <2>3. memory \in [Param -> Value]
    BY DEF TypeOK
  <2>4. /\ notify' \subseteq Param /\ modify_flag' \subseteq Param
        /\ timer' \in BOOLEAN
        /\ file' \in [Param -> Value \cup {Missing}]
    BY <2>1, <2>3, SaveType
  <2>5. unreported' \subseteq unreported /\ UNCHANGED <<memory, attribute, tr069>>
    BY <1>6 DEF SaveFile
  <2> QED BY <2>2, <2>4, <2>5 DEF TypeOK, tr069
<1>7. CASE NotifyProc
  BY <1>7 DEF NotifyProc, TypeOK, store, tr069
<1>8. CASE FactoryReset
  <2>1. acs' \in [Param -> Value \cup {Missing}]
    BY <1>8, ForgetType DEF FactoryReset
  <2> QED BY <1>8, <2>1, ReplacedType DEF FactoryReset, TypeOK, news, tr069
<1>9. CASE ReloadConfig
  <2>1. memory' \in [Param -> Value] /\ modify_flag' = {}
    BY <1>9, LoadedType DEF ReloadConfig, Load, TypeOK
  <2>2. acs' \in [Param -> Value \cup {Missing}]
    BY <1>9 DEF ReloadConfig, TypeOK
  <2> QED BY <1>9, <2>1, <2>2 DEF ReloadConfig, TypeOK, tr069
<1>10. CASE StartTr069 \/ StopTr069 \/ OpenSession
  BY <1>10 DEF StartTr069, StopTr069, OpenSession, TypeOK, store, news, history
<1>11. CASE EndSession
  <2>1. saving' \in Queues
    BY <1>11, WholeAndEmpty DEF EndSession
  <2>2. session' \in BOOLEAN /\ set_param_flag' = FALSE
    BY <1>11 DEF EndSession, TypeOK
  <2> QED BY <1>11, <2>1, <2>2
          DEF EndSession, TypeOK, Queues, store, news, history
<1>12. CASE SaveNext
  <2>1. Tail(saving) \in Queues
    BY <1>12, NextQueue DEF SaveNext, TypeOK, Queues
  <2>2. session' \in BOOLEAN /\ saving' = Tail(saving)
    BY <1>12 DEF SaveNext
  <2>3. CASE Head(saving) \in File
    <3>1. PICK ok \in BOOLEAN :
            /\ Save(Head(saving), memory, ok)
            /\ acs' = IF ok THEN acs ELSE Forget(In(Head(saving)))
      BY <1>12, <2>3 DEF SaveNext
    <3>2. acs' \in [Param -> Value \cup {Missing}]
      BY <3>1, ForgetType DEF TypeOK
    <3>3. unreported' \subseteq unreported
      BY <1>12, <2>3 DEF SaveNext
    <3>4. memory \in [Param -> Value]
      BY DEF TypeOK
    <3>5. /\ notify' \subseteq Param /\ modify_flag' \subseteq Param
          /\ timer' \in BOOLEAN
          /\ file' \in [Param -> Value \cup {Missing}]
      BY <3>1, <3>4, SaveType
    <3>6. UNCHANGED <<memory, attribute, running, set_param_flag>>
      BY <1>12 DEF SaveNext
    <3> QED BY <2>1, <2>2, <3>2, <3>3, <3>5, <3>6 DEF TypeOK, Queues
  <2>4. CASE Head(saving) \notin File
    BY <1>12, <2>1, <2>2, <2>4 DEF SaveNext, TypeOK, Queues
  <2> QED BY <2>3, <2>4
<1>13. CASE PowerLoss
  <2>1. file' \in [Param -> Value \cup {Missing}]
    <3>1. memory \in [Param -> Value] /\ file \in [Param -> Value \cup {Missing}]
      BY DEF TypeOK
    <3>2. ASSUME NEW f \in File, file' \in CutSave(f)
          PROVE  file' \in [Param -> Value \cup {Missing}]
      BY <3>1, <3>2, WrittenType DEF CutSave
    <3>3. ASSUME file' \in CutReset
          PROVE  file' \in [Param -> Value \cup {Missing}]
      <4>1. In("config") \subseteq Param
        BY DEF In
      <4> QED BY <3>3, <4>1, ReplacedType DEF CutReset
    <3> QED BY <1>13, <3>1, <3>2, <3>3 DEF PowerLoss
  <2>2. memory' \in [Param -> Value] /\ modify_flag' = {}
    BY <1>13, <2>1, LoadedType DEF PowerLoss, Load
  <2>3. acs' \in [Param -> Value \cup {Missing}]
    BY <1>13 DEF PowerLoss, TypeOK
  <2>4. saving' \in Queues
    BY <1>13, WholeAndEmpty DEF PowerLoss
  <2> QED BY <1>13, <2>1, <2>2, <2>3, <2>4 DEF PowerLoss, TypeOK, Queues
<1>14. CASE UNCHANGED vars
  BY <1>14 DEF vars, store, news, tr069, history, TypeOK
<1> QED BY <1>1, <1>2, <1>3, <1>4, <1>5, <1>6, <1>7, <1>8, <1>9, <1>10,
           <1>11, <1>12, <1>13, <1>14 DEF Next

(* For any parameters, values and files every variable keeps its type.     *)
LEMMA InitType == Init => TypeOK
<1> SUFFICES ASSUME Init PROVE TypeOK
  OBVIOUS
<1>1. memory \in [Param -> Value]
  BY LoadedType DEF Init
<1> QED BY <1>1, WholeAndEmpty, ConfigAssumption DEF Init, TypeOK, Queues

LEMMA TypeCorrect == Spec => []TypeOK
BY InitType, StepType, PTL DEF Spec
-----------------------------------------------------------------------------
(* Changes and the news of them.                                           *)

(* A save marks what is flagged, and gives up only marks that were there   *)
(* before.                                                                 *)
LEMMA SaveNews ==
  ASSUME NewsInv, NEW f, NEW m, NEW ok, Save(f, m, ok),
         unreported' = unreported \ SaveLoses(f)
  PROVE  NewsInv'
<1>1. /\ notify' = (notify \ In(f)) \cup Marked(f)
      /\ modify_flag' = modify_flag \ Marked(f)
      /\ Marked(f) \subseteq In(f) \cap modify_flag
      /\ unreported' = unreported \ ((notify \cap In(f)) \ modify_flag)
  BY DEF Save, Renewed, SaveLoses, Marked
<1> QED BY <1>1 DEF NewsInv, FlagsAreNews, NoFalseNews, ChangeKept

LEMMA WriteNews ==
  ASSUME NewsInv, NEW p \in Param, NEW v \in Value, Write(p, v)
  PROVE  NewsInv'
<1>1. CASE p \in AtOnce /\ FileOf[p] # "none"
  <2>1. /\ \E ok \in BOOLEAN : Save(FileOf[p], [memory EXCEPT ![p] = v], ok)
        /\ unreported' = unreported \ SaveLoses(FileOf[p])
    BY <1>1 DEF Write
  <2> QED BY <2>1, SaveNews
<1>2. CASE ~(p \in AtOnce /\ FileOf[p] # "none")
  <2>1. /\ \/ modify_flag' = modify_flag \cup {p} /\ unreported' = unreported \cup {p}
           \/ modify_flag' = modify_flag /\ unreported' = unreported
        /\ notify' = notify
    BY <1>2 DEF Write
  <2> QED BY <2>1 DEF NewsInv, FlagsAreNews, NoFalseNews, ChangeKept
<1> QED BY <1>1, <1>2

LEMMA SetNews ==
  ASSUME NewsInv, NEW p \in Param, NEW v \in Value, Set(p, v)
  PROVE  NewsInv'
<1>1. CASE Write(p, v)
  BY <1>1, WriteNews
<1>2. CASE UNCHANGED <<store, news, running, session, saving, unreported>>
  BY <1>2 DEF news, NewsInv, FlagsAreNews, NoFalseNews, ChangeKept
<1> QED BY <1>1, <1>2 DEF Set

LEMMA StepNews == NewsInv /\ [Next]_vars => NewsInv'
<1> SUFFICES ASSUME NewsInv, [Next]_vars PROVE NewsInv'
  OBVIOUS
<1> USE DEF NewsInv, FlagsAreNews, NoFalseNews, ChangeKept
<1>1. ASSUME NEW p \in Param, NEW v \in Value,
             SetConfig(p, v) \/ SetParameter(p, v)
      PROVE  NewsInv'
  BY <1>1, SetNews DEF SetConfig, SetParameter
<1>2. ASSUME NEW p \in Param, NEW v \in Value, SyncConfig(p, v) PROVE NewsInv'
  BY <1>2 DEF SyncConfig, news
<1>3. ASSUME NEW p \in Param, SetAttribute(p) PROVE NewsInv'
  BY <1>3 DEF SetAttribute, history
<1>4. ASSUME NEW S \in SUBSET UsbParam, NEW w \in [S -> Value], ReadUsbIni(S, w)
      PROVE  NewsInv'
  BY <1>4 DEF ReadUsbIni, news
<1>5. ASSUME NEW f \in File, SaveFile(f) PROVE NewsInv'
  BY <1>5, SaveNews DEF SaveFile
<1>6. CASE NotifyProc
  BY <1>6 DEF NotifyProc
<1>7. CASE FactoryReset
  BY <1>7 DEF FactoryReset, news
<1>8. CASE ReloadConfig
  BY <1>8 DEF ReloadConfig, Load
<1>9. CASE StartTr069 \/ StopTr069 \/ OpenSession \/ EndSession
  BY <1>9 DEF StartTr069, StopTr069, OpenSession, EndSession, news, history
<1>10. CASE SaveNext
  <2>1. CASE Head(saving) \in File
    BY <1>10, <2>1, SaveNews DEF SaveNext
  <2>2. CASE Head(saving) \notin File
    BY <1>10, <2>2 DEF SaveNext
  <2> QED BY <2>1, <2>2
<1>11. CASE PowerLoss
  BY <1>11 DEF PowerLoss, Load
<1>12. CASE UNCHANGED vars
  BY <1>12 DEF vars, news, history
<1> QED BY <1>1, <1>2, <1>3, <1>4, <1>5, <1>6, <1>7, <1>8, <1>9, <1>10,
           <1>11, <1>12 DEF Next

(* Whatever is set, saved, reloaded, told or cut off: every change is told, *)
(* flagged or marked, unless it was lost for one of the reasons that the   *)
(* code has (ChangeKept), and no mark is left of what did not change.      *)
LEMMA NewsHold == Spec => []NewsInv
<1>1. Init => NewsInv
  BY DEF Init, NewsInv, FlagsAreNews, NoFalseNews, ChangeKept
<1> QED BY <1>1, StepNews, PTL DEF Spec

(* StoreInv: types, and no mark without a change.                          *)
THEOREM StoreCorrect == Spec => []StoreInv
<1>1. TypeOK /\ NewsInv => StoreInv
  BY DEF NewsInv, StoreInv
<1> QED BY <1>1, TypeCorrect, NewsHold, PTL

(* A change is never forgotten while it waits to be told.                  *)
THEOREM ChangesKept == Spec => []ChangeKept
<1>1. NewsInv => ChangeKept
  BY DEF NewsInv
<1> QED BY <1>1, NewsHold, PTL
-----------------------------------------------------------------------------
(* The values that the ACS set.                                            *)

(* The file of a parameter whose file a session saves is one of the files. *)
LEMMA SavedIsFile ==
  ASSUME NEW p \in Param, FileOf[p] \in SessionSaves
  PROVE  FileOf[p] \in File /\ p \in In(FileOf[p])
BY DEF SessionSaves, In

(* Memory holds of every value what its buffer holds.                      *)
MemoryFits == \A p \in Param : Fits(p, memory[p])

LEMMA LoadedFits ==
  ASSUME NEW d \in [Param -> Value \cup {Missing}], NEW p \in Param
  PROVE  Fits(p, Loaded(d)[p])
<1>1. PICK v \in Value : v = IF d[p] = Missing THEN Builtin[p] ELSE d[p]
  BY ConfigAssumption
<1>2. Loaded(d)[p] = Cut[p][v]
  BY <1>1 DEF Loaded
<1> QED BY <1>2, BufferAssumption DEF Fits

LEMMA SetFits ==
  ASSUME TypeOK, MemoryFits, NEW p \in Param, NEW v \in Value, Set(p, v)
  PROVE  MemoryFits'
<1>1. CASE Fits(p, v)
  <2>1. memory' = [memory EXCEPT ![p] = v]
    BY <1>1 DEF Set, Write
  <2>2. \A q \in Param : memory'[q] = IF q = p THEN v ELSE memory[q]
    BY <2>1 DEF TypeOK
  <2> QED BY <1>1, <2>2 DEF MemoryFits, Fits
<1>2. CASE ~Fits(p, v)
  <2>1. memory' = memory
    BY <1>2 DEF Set, store
  <2> QED BY <2>1 DEF MemoryFits, Fits
<1> QED BY <1>1, <1>2

LEMMA StepFits == TypeOK /\ TypeOK' /\ MemoryFits /\ [Next]_vars => MemoryFits'
<1> SUFFICES ASSUME TypeOK, TypeOK', MemoryFits, [Next]_vars PROVE MemoryFits'
  OBVIOUS
<1>1. ASSUME NEW p \in Param, NEW v \in Value, SetConfig(p, v) \/ SetParameter(p, v)
      PROVE  MemoryFits'
  BY <1>1, SetFits DEF SetConfig, SetParameter
<1>2. CASE ReloadConfig \/ PowerLoss
  <2>1. Load(file') /\ file' \in [Param -> Value \cup {Missing}]
    BY <1>2 DEF ReloadConfig, PowerLoss, Load, TypeOK
  <2>2. PICK d \in [Param -> Value \cup {Missing}] : memory' = Loaded(d)
    BY <2>1 DEF Load
  <2>3. \A p \in Param : Fits(p, memory'[p])
    BY <2>2, LoadedFits
  <2> QED BY <2>3 DEF MemoryFits, Fits
<1>3. CASE UNCHANGED memory
  BY <1>3 DEF MemoryFits, Fits
<1>4. ASSUME \/ NotifyProc \/ FactoryReset
             \/ StartTr069 \/ StopTr069 \/ OpenSession \/ EndSession \/ SaveNext
             \/ UNCHANGED vars
      PROVE  MemoryFits'
  BY <1>3, <1>4 DEF NotifyProc, FactoryReset, StartTr069, StopTr069, OpenSession,
                    EndSession, SaveNext, vars, store
<1>5. ASSUME \/ \E p \in Param, v \in Value : SyncConfig(p, v)
             \/ \E p \in Param : SetAttribute(p)
             \/ \E S \in SUBSET UsbParam : \E w \in [S -> Value] : ReadUsbIni(S, w)
             \/ \E f \in File : SaveFile(f)
      PROVE  MemoryFits'
  BY <1>3, <1>5 DEF SyncConfig, SetAttribute, ReadUsbIni, SaveFile, store
<1> QED BY <1>1, <1>2, <1>4, <1>5 DEF Next

(* A value in memory that is also in its file is what is loaded from it.   *)
LEMMA WrittenIsLoaded ==
  ASSUME NEW p \in Param, file'[p] = memory'[p], memory'[p] \in Value,
         MemoryFits',
         file' \in [Param -> Value \cup {Missing}]
  PROVE  Loaded(file)'[p] = memory'[p]
BY ConfigAssumption DEF Loaded, MemoryFits, Fits

(* A save puts the values in memory in its file, or leaves the file.       *)
LEMMA SaveSafe ==
  ASSUME TypeOK, TypeOK', MemoryFits', NEW f, NEW ok \in BOOLEAN, Save(f, memory', ok),
         NEW p \in Param
  PROVE  \/ ok /\ p \in In(f) /\ Loaded(file)'[p] = memory'[p]
         \/ p \notin In(f) /\ Loaded(file)'[p] = Loaded(file)[p]
         \/ ~ok /\ Loaded(file)'[p] = Loaded(file)[p]
<1>1. memory'[p] \in Value /\ file' \in [Param -> Value \cup {Missing}]
  BY DEF TypeOK
<1>2. file' = IF ok THEN [q \in Param |-> IF q \in In(f) THEN memory'[q]
                                                         ELSE file[q]]
              ELSE file
  BY DEF Save, Written
<1>3. CASE ok /\ p \in In(f)
  BY <1>1, <1>2, <1>3, WrittenIsLoaded
<1>4. CASE ~(ok /\ p \in In(f))
  <2>1. file'[p] = file[p]
    BY <1>2, <1>4
  <2> QED BY <1>4, <2>1 DEF Loaded
<1> QED BY <1>3, <1>4


(* A value of the ACS that stays as safe as it was.                        *)
Stays(p) == /\ acs'[p] = acs[p] /\ memory'[p] = memory[p]
            /\ Loaded(file)'[p] \in {Loaded(file)[p], memory[p]}

LEMMA AcsStays ==
  ASSUME AcsInv, \A p \in Param : acs'[p] = Missing \/ Stays(p),
         UNCHANGED <<session, set_param_flag, saving>>
  PROVE  AcsInv'
<1>1. SessionOver'
  BY DEF AcsInv, SessionOver
<1>2. AcsInMemory'
  BY DEF AcsInv, AcsInMemory, Stays
<1>3. AcsSafe'
  <2> SUFFICES ASSUME NEW p \in Param, acs'[p] # Missing,
                      FileOf[p] \in SessionSaves
               PROVE  SafeValue(p)'
    BY DEF AcsSafe
  <2>1. Stays(p) /\ SafeValue(p) /\ acs[p] = memory[p]
    BY DEF AcsInv, AcsSafe, AcsInMemory, Stays
  <2>2. Pending' = Pending
    BY DEF Pending
  <2> QED BY <2>1, <2>2 DEF Stays, SafeValue
<1> QED BY <1>1, <1>2, <1>3 DEF AcsInv

(* What a save that is not the session's own leaves of them.               *)
LEMMA SaveStays ==
  ASSUME TypeOK, TypeOK', MemoryFits', NEW f, NEW ok \in BOOLEAN, Save(f, memory', ok),
         NEW p \in Param, acs'[p] = acs[p], memory'[p] = memory[p]
  PROVE  Stays(p)
BY SaveSafe DEF Stays

(* Whoever else sets a value takes the parameter from the ACS.             *)
LEMMA SetConfigSafe ==
  ASSUME TypeOK, TypeOK', MemoryFits', AcsInv, NEW p \in Param, NEW v \in Value,
         SetConfig(p, v), Fits(p, v)
  PROVE  AcsInv'
<1>1. /\ memory' = [memory EXCEPT ![p] = v]
      /\ acs' = Forget({p}) /\ Write(p, v)
      /\ UNCHANGED <<session, set_param_flag, saving>>
  BY DEF SetConfig, Set, Write
<1>2. ASSUME NEW q \in Param PROVE acs'[q] = Missing \/ Stays(q)
  <2>1. CASE q = p
    BY <1>1, <2>1 DEF Forget
  <2>2. CASE q # p
    <3>1. acs'[q] = acs[q] /\ memory'[q] = memory[q]
      BY <1>1, <2>2 DEF Forget, TypeOK
    <3>2. CASE p \in AtOnce /\ FileOf[p] # "none"
      <4>1. \E ok \in BOOLEAN : Save(FileOf[p], memory', ok)
        BY <1>1, <3>2 DEF Write
      <4> QED BY <3>1, <4>1, SaveStays
    <3>3. CASE ~(p \in AtOnce /\ FileOf[p] # "none")
      <4>1. file' = file
        BY <1>1, <3>3 DEF Write
      <4> QED BY <3>1, <4>1 DEF Stays, Loaded
    <3> QED BY <3>2, <3>3
  <2> QED BY <2>1, <2>2
<1> QED BY <1>1, <1>2, AcsStays

(* The session that sets a value has to save it.                           *)
LEMMA SetParameterSafe ==
  ASSUME TypeOK, AcsInv, NEW p \in Param, NEW v \in Value, SetParameter(p, v),
         Fits(p, v)
  PROVE  AcsInv'
<1>1. /\ memory' = [memory EXCEPT ![p] = v] /\ acs' = [acs EXCEPT ![p] = v]
      /\ session' = session /\ session /\ set_param_flag' = TRUE
      /\ saving' = <<>>
  BY DEF SetParameter, Set, Write
<1>2. SessionOver'
  BY <1>1 DEF SessionOver
<1>3. AcsInMemory'
  <2> SUFFICES ASSUME NEW q \in Param, acs'[q] # Missing
               PROVE  acs'[q] = memory'[q]
    BY DEF AcsInMemory
  <2>1. acs'[p] = v /\ memory'[p] = v
    BY <1>1 DEF TypeOK
  <2>2. q # p => acs'[q] = acs[q] /\ memory'[q] = memory[q]
    BY <1>1 DEF TypeOK
  <2> QED BY <2>1, <2>2 DEF AcsInv, AcsInMemory
<1>4. AcsSafe'
  BY <1>1 DEF AcsSafe, SafeValue
<1> QED BY <1>2, <1>3, <1>4 DEF AcsInv

(* What is refused leaves every value as safe as it was, and may have the  *)
(* session save them once more.                                            *)
LEMMA RefusedSafe ==
  ASSUME AcsInv, NEW p \in Param, NEW v \in Value, ~Fits(p, v),
         SetConfig(p, v) \/ SetParameter(p, v)
  PROVE  AcsInv'
<1>1. /\ UNCHANGED <<memory, file, acs, session, saving>>
      /\ set_param_flag' = set_param_flag
           \/ (set_param_flag' = TRUE /\ session /\ saving = <<>>)
  BY DEF SetConfig, SetParameter, Set, store
<1>2. SessionOver'
  BY <1>1 DEF AcsInv, SessionOver
<1>3. AcsInMemory'
  BY <1>1 DEF AcsInv, AcsInMemory
<1>4. AcsSafe'
  <2>1. Loaded(file)' = Loaded(file) /\ Pending' = Pending
    BY <1>1 DEF Loaded, Pending
  <2> QED BY <1>1, <2>1 DEF AcsInv, AcsSafe, SafeValue
<1> QED BY <1>2, <1>3, <1>4 DEF AcsInv

(* What is loaded from the files is safe there.                            *)
LEMMA LoadSafe ==
  ASSUME TypeOK, SessionOver', Load(file'),
         acs' = [p \in Param |-> IF acs[p] = memory'[p] THEN acs[p] ELSE Missing]
  PROVE  AcsInv'
<1>1. AcsInMemory'
  BY DEF AcsInMemory
<1>2. AcsSafe'
  <2> SUFFICES ASSUME NEW p \in Param, acs'[p] # Missing
               PROVE  Loaded(file)'[p] = acs'[p]
    BY DEF AcsSafe, SafeValue
  <2>1. acs'[p] = memory'[p]
    OBVIOUS
  <2>2. memory' = Loaded(file)'
    BY DEF Load, Loaded
  <2> QED BY <2>1, <2>2
<1> QED BY <1>1, <1>2 DEF AcsInv

(* The end of a session with new values has every file before it.          *)
LEMMA EndSafe ==
  ASSUME AcsInv, EndSession
  PROVE  AcsInv'
<1>1. UNCHANGED <<memory, file, acs>>
  BY DEF EndSession, store, history
<1>2. AcsInMemory'
  BY <1>1 DEF AcsInv, AcsInMemory
<1>3. CASE set_param_flag
  <2>1. /\ saving' = SaveOrder /\ session' = session /\ session
        /\ ~set_param_flag'
    BY <1>3 DEF EndSession
  <2>2. SessionOver'
    BY <2>1 DEF SessionOver
  <2>3. AcsSafe'
    BY <2>1, AllAhead DEF AcsSafe, SafeValue
  <2> QED BY <1>2, <2>2, <2>3 DEF AcsInv
<1>4. CASE ~set_param_flag
  <2>1. saving' = <<>> /\ set_param_flag' = FALSE /\ saving = <<>>
    BY <1>4 DEF EndSession
  <2>2. SessionOver'
    BY <2>1 DEF SessionOver
  <2>3. Pending' = Pending /\ Loaded(file)' = Loaded(file)
    BY <1>1, <2>1 DEF Pending, Loaded
  <2>4. AcsSafe'
    BY <1>1, <1>4, <2>3 DEF AcsInv, AcsSafe, SafeValue
  <2> QED BY <1>2, <2>2, <2>4 DEF AcsInv
<1> QED BY <1>3, <1>4

(* A save of the session puts the values of one file where they are safe.  *)
LEMMA SaveNextSafe ==
  ASSUME TypeOK, TypeOK', MemoryFits', AcsInv, SaveNext
  PROVE  AcsInv'
<1> DEFINE f == Head(saving)
<1>1. /\ saving # <<>> /\ saving' = Tail(saving) /\ session' = (saving' # <<>>)
      /\ UNCHANGED <<memory, set_param_flag>> /\ ~set_param_flag
  BY DEF SaveNext, AcsInv, SessionOver
<1>2. Pending = {f} \cup Pending'
  <2>1. saving \in Queues
    BY DEF TypeOK, Queues
  <2> QED BY <1>1, <2>1, NextQueue DEF Pending
<1>3. SessionOver'
  BY <1>1 DEF SessionOver
<1>4. CASE f \in File
  <2>1. PICK ok \in BOOLEAN : /\ Save(f, memory', ok)
                              /\ acs' = IF ok THEN acs ELSE Forget(In(f))
    BY <1>1, <1>4 DEF SaveNext
  <2> HIDE DEF f
  <2>2. ASSUME NEW p \in Param, acs'[p] # Missing
        PROVE  /\ acs'[p] = acs[p] /\ (p \in In(f) => ok)
               /\ acs[p] = memory[p] /\ memory'[p] = memory[p]
    BY <1>1, <2>1, <2>2 DEF Forget, AcsInv, AcsInMemory
  <2>3. AcsInMemory'
    BY <2>2 DEF AcsInMemory
  <2>4. AcsSafe'
    <3> SUFFICES ASSUME NEW p \in Param, acs'[p] # Missing,
                        FileOf[p] \in SessionSaves
                 PROVE  SafeValue(p)'
      BY DEF AcsSafe
    <3>1. \/ ok /\ p \in In(f) /\ Loaded(file)'[p] = memory'[p]
          \/ p \notin In(f) /\ Loaded(file)'[p] = Loaded(file)[p]
          \/ ~ok /\ Loaded(file)'[p] = Loaded(file)[p]
      BY <2>1, SaveSafe
    <3>2. Loaded(file)[p] = acs[p] \/ FileOf[p] \in Pending
      BY <1>1, <2>2 DEF AcsInv, AcsSafe, SafeValue
    <3>3. FileOf[p] = f => p \in In(f)
      BY DEF In
    <3>4. FileOf[p] # f /\ FileOf[p] \in Pending => FileOf[p] \in Pending'
      BY <1>2
    <3>5. Loaded(file)'[p] = acs'[p] \/ FileOf[p] \in Pending'
      BY <2>2, <3>1, <3>2, <3>3, <3>4
    <3> QED BY <3>5 DEF SafeValue
  <2> QED BY <1>3, <2>3, <2>4 DEF AcsInv
<1>5. CASE f \notin File
  <2>1. UNCHANGED <<file, acs>>
    BY <1>5 DEF SaveNext
  <2>2. AcsInMemory'
    BY <1>1, <2>1 DEF AcsInv, AcsInMemory
  <2>3. AcsSafe'
    <3> SUFFICES ASSUME NEW p \in Param, acs[p] # Missing,
                        FileOf[p] \in SessionSaves
                 PROVE  SafeValue(p)'
      BY <2>1 DEF AcsSafe
    <3>1. FileOf[p] # f
      BY <1>5, SavedIsFile
    <3>2. Loaded(file)[p] = acs[p] \/ FileOf[p] \in Pending
      BY <1>1 DEF AcsInv, AcsSafe, SafeValue
    <3>3. Loaded(file)' = Loaded(file)
      BY <2>1 DEF Loaded
    <3>4. Loaded(file)'[p] = acs'[p] \/ FileOf[p] \in Pending'
      BY <1>2, <2>1, <3>1, <3>2, <3>3
    <3> QED BY <3>4 DEF SafeValue
  <2> QED BY <1>3, <2>2, <2>3 DEF AcsInv
<1> QED BY <1>4, <1>5

LEMMA StepAcs ==
  TypeOK /\ TypeOK' /\ MemoryFits' /\ AcsInv /\ [Next]_vars => AcsInv'
<1> SUFFICES ASSUME TypeOK, TypeOK', MemoryFits', AcsInv, [Next]_vars PROVE AcsInv'
  OBVIOUS
<1>1. ASSUME NEW p \in Param, NEW v \in Value,
             SetConfig(p, v) \/ SetParameter(p, v)
      PROVE  AcsInv'
  BY <1>1, SetConfigSafe, SetParameterSafe, RefusedSafe
<1>2. ASSUME NEW p \in Param, NEW v \in Value, SyncConfig(p, v) PROVE AcsInv'
  <2>1. UNCHANGED <<memory, session, set_param_flag, saving>>
    BY <1>2 DEF SyncConfig, tr069
  <2>2. ASSUME NEW q \in Param PROVE acs'[q] = Missing \/ Stays(q)
    BY <1>2, <2>1 DEF SyncConfig, Forget, TypeOK, Stays, Loaded
  <2> QED BY <2>1, <2>2, AcsStays
<1>3. ASSUME NEW S \in SUBSET UsbParam, NEW w \in [S -> Value], ReadUsbIni(S, w)
      PROVE  AcsInv'
  <2>1. UNCHANGED <<memory, session, set_param_flag, saving>>
    BY <1>3 DEF ReadUsbIni, tr069
  <2>2. ASSUME NEW q \in Param PROVE acs'[q] = Missing \/ Stays(q)
    BY <1>3, <2>1 DEF ReadUsbIni, Forget, Stays, Loaded
  <2> QED BY <2>1, <2>2, AcsStays
<1>4. CASE FactoryReset
  <2>1. UNCHANGED <<memory, session, set_param_flag, saving>>
    BY <1>4 DEF FactoryReset, tr069
  <2>2. ASSUME NEW q \in Param PROVE acs'[q] = Missing \/ Stays(q)
    BY <1>4, <2>1 DEF FactoryReset, Replaced, Forget, Stays, Loaded
  <2> QED BY <2>1, <2>2, AcsStays
<1>5. ASSUME NEW f \in File, SaveFile(f) PROVE AcsInv'
  <2>1. UNCHANGED <<memory, session, set_param_flag, saving>>
    BY <1>5 DEF SaveFile, tr069
  <2>2. PICK ok \in BOOLEAN : /\ Save(f, memory', ok)
                              /\ acs' = IF ok THEN acs ELSE Forget(In(f))
    BY <1>5, <2>1 DEF SaveFile
  <2>3. ASSUME NEW q \in Param PROVE acs'[q] = Missing \/ Stays(q)
    <3>1. acs'[q] = Missing \/ acs'[q] = acs[q]
      BY <2>2 DEF Forget
    <3> QED BY <2>1, <2>2, <3>1, SaveStays
  <2> QED BY <2>1, <2>3, AcsStays
<1>6. CASE NotifyProc \/ StartTr069 \/ StopTr069
             \/ (\E p \in Param : SetAttribute(p)) \/ UNCHANGED vars
  <2>1. UNCHANGED <<memory, file, acs, session, set_param_flag, saving>>
    BY <1>6 DEF SetAttribute, NotifyProc, StartTr069, StopTr069, vars, store,
                tr069, history
  <2>2. ASSUME NEW q \in Param PROVE Stays(q)
    BY <2>1 DEF Stays, Loaded
  <2> QED BY <2>1, <2>2, AcsStays
<1>7. CASE OpenSession
  <2>1. /\ UNCHANGED <<memory, file, acs, saving>>
        /\ ~set_param_flag /\ ~set_param_flag'
    BY <1>7 DEF OpenSession, store, history, AcsInv, SessionOver
  <2>2. SessionOver' /\ AcsInMemory'
    BY <1>7, <2>1 DEF OpenSession, AcsInv, SessionOver, AcsInMemory
  <2>3. AcsSafe'
    BY <2>1 DEF AcsInv, AcsSafe, SafeValue, Pending, Loaded
  <2> QED BY <2>2, <2>3 DEF AcsInv
<1>8. CASE EndSession
  BY <1>8, EndSafe
<1>9. CASE SaveNext
  BY <1>9, SaveNextSafe
<1>10. CASE ReloadConfig
  <2>1. SessionOver'
    BY <1>10 DEF ReloadConfig, tr069, AcsInv, SessionOver
  <2> QED BY <1>10, <2>1, LoadSafe DEF ReloadConfig, Load
<1>11. CASE PowerLoss
  <2>1. SessionOver'
    BY <1>11 DEF PowerLoss, SessionOver
  <2> QED BY <1>11, <2>1, LoadSafe DEF PowerLoss
<1> QED BY <1>1, <1>2, <1>3, <1>4, <1>5, <1>6, <1>7, <1>8, <1>9, <1>10,
           <1>11 DEF Next

(* AcsValueKept: the last value of the ACS that fitted, whatever was       *)
(* refused since, is in memory and in the file when the session is over    *)
(* and comes back whole, if nobody else touched it: what AcsSafe says      *)
(* while the session runs leaves nothing else then.                        *)
THEOREM AcsValuesKept == Spec => []AcsValueKept
<1>1. Init => AcsInv
  BY DEF Init, AcsInv, SessionOver, AcsInMemory, AcsSafe
<1>2. AcsInv => AcsValueKept
  <2> SUFFICES ASSUME AcsInv, ~session, NEW p \in Param, acs[p] # Missing,
                      FileOf[p] \in SessionSaves
               PROVE  acs[p] = memory[p] /\ acs[p] = Loaded(file)[p]
    BY DEF AcsValueKept
  <2>1. saving = <<>> /\ ~set_param_flag
    BY DEF AcsInv, SessionOver
  <2>2. Pending = {}
    BY <2>1 DEF Pending
  <2> QED BY <2>1, <2>2 DEF AcsInv, AcsInMemory, AcsSafe, SafeValue
<1>3. Init => MemoryFits
  <2> SUFFICES ASSUME Init PROVE MemoryFits
    OBVIOUS
  <2>1. PICK d \in [Param -> Value \cup {Missing}] : memory = Loaded(d)
    BY DEF Init
  <2> QED BY <2>1, LoadedFits DEF MemoryFits
<1> QED BY <1>1, <1>2, <1>3, StepFits, StepAcs, TypeCorrect, PTL DEF Spec
-----------------------------------------------------------------------------
(* The promise of DurableStore.                                            *)

(* A save commits its file as a whole, or nothing.                         *)
LEMMA SaveCommits ==
  ASSUME NEW f \in File, NEW m, NEW ok \in BOOLEAN, Save(f, m, ok)
  PROVE  file' = file \/ file' = Promise!Committed(In(f), m)
BY DEF Save, Written, Promise!Committed

(* A set writes a value that fits, or nothing.                             *)
LEMMA WriteIsWrite ==
  ASSUME NEW p \in Param, NEW v \in Value, Write(p, v), Fits(p, v)
  PROVE  Promise!Write(p)
<1> DEFINE m == [memory EXCEPT ![p] = v]
<1>1. memory' = m /\ Cut[p][v] = v
  BY DEF Write, Fits
<1>2. CASE p \in AtOnce /\ FileOf[p] # "none"
  <2>1. PICK ok \in BOOLEAN : Save(FileOf[p], m, ok)
    BY <1>2 DEF Write
  <2>2. FileOf[p] \in File /\ p \in In(FileOf[p])
    BY <1>2 DEF File, In
  <2> HIDE DEF m
  <2>3. file' = file \/ file' = Promise!Committed(In(FileOf[p]), memory')
    BY <1>1, <2>1, <2>2, SaveCommits
  <2> QED BY <1>1, <2>2, <2>3 DEF Promise!Write, m
<1>3. CASE ~(p \in AtOnce /\ FileOf[p] # "none")
  <2>1. file' = file
    BY <1>3 DEF Write
  <2> QED BY <1>1, <2>1 DEF Promise!Write
<1> QED BY <1>2, <1>3

LEMMA SetIsWrite ==
  ASSUME NEW p \in Param, NEW v \in Value, Set(p, v)
  PROVE  Promise!Write(p) \/ UNCHANGED <<memory, file>>
BY WriteIsWrite DEF Set, store

LEMMA SaveIsCommit ==
  ASSUME NEW f \in File, NEW ok \in BOOLEAN, Save(f, memory, ok),
         UNCHANGED memory
  PROVE  Promise!Commit(In(f)) \/ UNCHANGED <<memory, file>>
BY SaveCommits DEF Promise!Commit

(* Power that fails leaves the files as they were, with one of them saved, *)
(* or with a reset that was cut; then everything is loaded from them.      *)
LEMMA LossIsRestart ==
  ASSUME PowerLoss
  PROVE  Promise!Restart
<1>1. memory' = Promise!Load(file')
  BY DEF PowerLoss, Load, Loaded, Promise!Load
<1>2. ASSUME NEW f \in File, file' \in CutSave(f) PROVE Promise!Restart
  <2>1. file' = file \/ file' = Promise!Committed(In(f), memory)
    BY <1>2 DEF CutSave, Written, Promise!Committed
  <2> QED BY <1>1, <2>1 DEF Promise!Restart
<1>3. ASSUME file' \in CutReset PROVE Promise!Restart
  <2>1. PICK c \in SUBSET In("config") : file' = Without(c, Replaced)
    BY <1>3 DEF CutReset
  <2>2. file' = Promise!Reset(c)
    BY <2>1 DEF Without, Replaced, Promise!Reset, In
  <2> QED BY <1>1, <2>1, <2>2 DEF Promise!Restart
<1>4. ASSUME file' = file PROVE Promise!Restart
  BY <1>1, <1>4 DEF Promise!Restart
<1> QED BY <1>2, <1>3, <1>4 DEF PowerLoss

LEMMA StepKeepsPromise ==
  TypeOK /\ [Next]_vars => [Promise!Next]_<<memory, file>>
<1> SUFFICES ASSUME TypeOK, [Next]_vars
             PROVE  Promise!Next \/ UNCHANGED <<memory, file>>
  OBVIOUS
<1>1. ASSUME NEW p \in Param, NEW v \in Value,
             SetConfig(p, v) \/ SetParameter(p, v)
      PROVE  Promise!Next \/ UNCHANGED <<memory, file>>
  BY <1>1, SetIsWrite DEF SetConfig, SetParameter, Promise!Next
<1>2. ASSUME NEW p \in Param, NEW v \in Value, SyncConfig(p, v)
      PROVE  Promise!Next
  <2> DEFINE w == [q \in {p} |-> v]
  <2>1. w \in [{p} -> Value] /\ w[p] = v
    OBVIOUS
  <2>2. file' = [q \in Param |-> IF q \in {p} THEN w[q] ELSE file[q]]
    BY <1>2, <2>1 DEF SyncConfig, TypeOK
  <2>3. UNCHANGED memory
    BY <1>2 DEF SyncConfig
  <2> HIDE DEF w
  <2>4. Promise!WriteThrough({p})
    BY <2>1, <2>2, <2>3 DEF Promise!WriteThrough
  <2> QED BY <2>4 DEF Promise!Next
<1>3. ASSUME NEW S \in SUBSET UsbParam, NEW w \in [S -> Value], ReadUsbIni(S, w)
      PROVE  Promise!Next
  <2>1. S \in SUBSET Param
    BY DEF UsbParam
  <2>2. Promise!WriteThrough(S)
    BY <1>3 DEF ReadUsbIni, Promise!WriteThrough
  <2> QED BY <2>1, <2>2 DEF Promise!Next
<1>4. ASSUME NEW f \in File, SaveFile(f)
      PROVE  Promise!Next \/ UNCHANGED <<memory, file>>
  <2>1. Promise!Commit(In(f)) \/ UNCHANGED <<memory, file>>
    BY <1>4, SaveIsCommit DEF SaveFile
  <2> QED BY <2>1 DEF Promise!Next
<1>5. CASE SaveNext
  <2>1. CASE Head(saving) \in File
    <3>1. UNCHANGED memory /\ \E ok \in BOOLEAN : Save(Head(saving), memory, ok)
      BY <1>5, <2>1 DEF SaveNext
    <3>2. Promise!Commit(In(Head(saving))) \/ UNCHANGED <<memory, file>>
      BY <2>1, <3>1, SaveIsCommit
    <3> QED BY <2>1, <3>2 DEF Promise!Next
  <2>2. CASE Head(saving) \notin File
    BY <1>5, <2>2 DEF SaveNext
  <2> QED BY <2>1, <2>2
<1>6. CASE FactoryReset
  <2>1. file' = Promise!Reset({}) /\ UNCHANGED memory
    BY <1>6 DEF FactoryReset, Replaced, Promise!Reset, In
  <2> QED BY <2>1 DEF Promise!FactoryReset, Promise!Next
<1>7. CASE ReloadConfig
  <2>1. memory' = Promise!Load(file') /\ file' = file
    BY <1>7 DEF ReloadConfig, Load, Loaded, Promise!Load
  <2> QED BY <2>1 DEF Promise!Restart, Promise!Next
<1>8. CASE PowerLoss
  BY <1>8, LossIsRestart DEF Promise!Next
<1>9. CASE \/ NotifyProc \/ StartTr069 \/ StopTr069 \/ OpenSession \/ EndSession
           \/ (\E p \in Param : SetAttribute(p)) \/ UNCHANGED vars
  BY <1>9 DEF NotifyProc, StartTr069, StopTr069, OpenSession, EndSession,
              SetAttribute, vars, store
<1> QED BY <1>1, <1>2, <1>3, <1>4, <1>5, <1>6, <1>7, <1>8, <1>9 DEF Next

(* The configuration process implements the store that DurableStore        *)
(* promises, whatever its clients do and whenever power fails: memory over *)
(* files that are written as a whole or not at all.                        *)
THEOREM StoreIsDurable == Spec => ImplementsStore
<1>1. Init => Promise!Init
  BY DEF Init, Loaded, Promise!Init, Promise!Load
<1> QED BY <1>1, StepKeepsPromise, TypeCorrect, PTL
        DEF Spec, ImplementsStore, Promise!Spec
=============================================================================
