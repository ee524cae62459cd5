\* -k is documented but getopt does not know it.
SPECIFICATION Spec
CONSTANTS
  Flags <- MCFlagsK
  MaxFlags = 3
  None = None
  Positionals = {None}
  Accepts <- MCAccepts
  Types <- MCTypes
  Brings <- MCBrings
INVARIANTS
  KIsAFlag
CHECK_DEADLOCK FALSE
