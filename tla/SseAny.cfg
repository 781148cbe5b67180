\* Any lines, in any order, up to five of them.
SPECIFICATION Spec
CONSTANTS
  None = None
  Token <- MCToken
  CallId <- MCCallId
  Name <- MCName
  Index <- MCIndex
  Reason <- MCReason
  Usage <- MCUsage
  Chunks <- MCChunks
  MaxLines = 5
INVARIANTS TypeOK SequenceDense IndicesNeverShift FramedOnce SealedIsStreamed AnnouncedOnce
