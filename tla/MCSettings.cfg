\* The five clients, with up to two options of any kind or four of two keys.
SPECIFICATION Spec
CONSTANTS
  Keys <- MCKeys
  Texts <- MCTexts
  OwnDefaults <- MCOwnDefaults
  Selector = 1
  Modules = {"m"}
  ChildDefaults <- MCChildDefaults
  Numbers = {"1", "2"}
  Refused <- MCRefused
  Configs <- MCConfigs
INVARIANTS
  TypeOK
  OptionsAreComplete
  GivenOptionsHold
  EarlyOptionsHold
  FailsForAReason
  MistakesAreReported
CHECK_DEADLOCK FALSE
