\* The newlines that join a window of several turns.
SPECIFICATION Spec
CONSTANTS
  Configurations <- MCConfigurations
  Conversations <- MCConversations
INVARIANT SelectedCovers
CHECK_DEADLOCK FALSE
