\* Every sequence of up to four flags, before an optional compressor.
SPECIFICATION Spec
CONSTANTS
  Flags <- MCFlags
  MaxFlags = 4
  None = None
  Positionals = {None, "sz"}
  Accepts <- MCAccepts
  Types <- MCTypes
  Brings <- MCBrings
INVARIANTS
  TypeOK
  BuffersAligned
  FormatIsAsAsked
  OptionsReachPlugins
CHECK_DEADLOCK FALSE
