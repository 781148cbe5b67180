\* Conversations of up to six items.
SPECIFICATION Spec
CONSTANTS
  None = None
  Image = Image
  Text <- MCText
  Calls <- MCCalls
  Replies <- MCReplies
  Additions <- MCAdditions
  ToolOutputs <- MCToolOutputs
  Prompts <- MCPrompts
  MaxItems = 6
INVARIANTS TypeOK NoTextLost OutputsFollowCalls
PROPERTIES ConversationGrows SystemGrows
