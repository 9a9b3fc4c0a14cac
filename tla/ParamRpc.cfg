CONSTANTS
  Param <- MCParam
  NoNameCu <- MCNoNameCu
  NoNameOther <- MCNoNameOther
  TypeOf <- MCTypeOf
  Writable <- MCWritable
  KeyOf <- MCKeyOf
  FirstKey <- MCFirstKey
  InMemory <- MCInMemory
  Configured <- MCConfigured
  Computed <- MCComputed
  Passwords <- MCPasswords
  PeriodicInform = {"PeriodicInformInterval"}
  LogMsg = {}
  Sqm = {}
  PresetCu <- MCPresetCu
  PresetKey <- MCPresetKey
  PresetCtc <- MCPresetCtc
  Below <- MCBelow
  Key <- MCKey
  Val <- MCVal
  BoolText <- MCBoolText
  IntText <- MCIntText
  NegText <- MCNegText
  TimeText = {}
  Fits <- MCFits
  Cut <- MCCut
  FirstDisk <- MCFirstDisk
  ValueLists <- MCValueLists
  AttributeLists <- MCAttributeLists
  NameLists <- MCNameLists
  Stand = {"CU", "CTC"}
  MaxRpc = 2
  MaxRestart = 1
SPECIFICATION Spec
CHECK_DEADLOCK FALSE
INVARIANTS AnswersInv  NotifMatchesFlag
PROPERTIES SetAllOrNothing LastValueHolds ChangesAsAsked
