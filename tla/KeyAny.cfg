\* Any stdin, in any pieces.
SPECIFICATION Spec
CONSTANTS
  Byte <- MCByte
  KeyByte = {"k"}
  NL = "nl"
  CR = "cr"
  Inputs <- MCInputs
  Room = 3
INVARIANTS TypeOK KeySource RefusedForCause BuffersWiped
