\* A key from the environment, and from stdin.
SPECIFICATION Spec
CONSTANTS
  Byte <- MCByte
  KeyByte = {"k"}
  NL = "nl"
  CR = "cr"
  Inputs <- MCInputs
  Room = 3
INVARIANT SingleCopy
