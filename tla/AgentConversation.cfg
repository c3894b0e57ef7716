SPECIFICATION FairSpec
CONSTANTS
    Asked <- MCAsked
    StepLimit = 2
    MaxCalls = 2
    MaxMessages = 8
INVARIANTS ConversationsAreWellFormed
PROPERTIES StepsCountTurns RequestsEnd ImplementsDialogue
