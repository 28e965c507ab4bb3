SPECIFICATION PromptSpec
CONSTANTS
  Last = 2
  PageSize = 2
  Budget <- LostEvents
  Starts <- Unspent
PROPERTY Converges
