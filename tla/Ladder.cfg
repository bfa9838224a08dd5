\* Every small roster with every short conversation, and what an engine makes of it.
SPECIFICATION CSpec
CONSTANTS
  Configurations <- MCConfigurations
  Conversations <- MCConversations
  NaN = NaN
  Answers <- MCAnswers
  Floors <- MCFloors
INVARIANTS TypeOK WindowIsRecent EscalationSound TextsFitEngine TierIsEarned FollowUpInheritsContext
CHECK_DEADLOCK FALSE
