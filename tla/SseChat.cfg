\* Well-formed streams of up to six lines.
SPECIFICATION ChatSpec
CONSTANTS
  None = None
  Token <- MCToken
  CallId <- MCCallId
  Name <- MCName
  Index <- MCIndex
  Reason <- MCReason
  Usage <- MCUsage
  Chunks <- MCChunks
  MaxLines = 6
INVARIANTS ItemsBracketed ItemsSealed StatusAndUsage
PROPERTIES StreamKept
