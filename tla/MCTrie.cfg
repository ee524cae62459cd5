\* Every list of up to three candidates of up to three of two characters.
SPECIFICATION Spec
CONSTANTS
  Chars <- MCChars
  CandidateLists <- MCCandidateLists
INVARIANTS
  TypeOK
  FindIsUniquePrefix
PROPERTIES
  ImplementsDictionary
CHECK_DEADLOCK FALSE
