\* Text after a finish reason.
SPECIFICATION Spec
CONSTANTS
  None = None
  Token <- MCToken
  CallId <- MCCallId
  Name <- MCName
  Index <- MCIndex
  Reason <- MCReason
  Usage <- MCUsage
  Chunks <- MCChunks
  MaxLines = 5
INVARIANT OneItemAtZero
