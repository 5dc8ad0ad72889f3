SPECIFICATION FairSpec
CONSTANT MaxMessages = 3
INVARIANT TypeOK
PROPERTIES OneCallerSpec ProgramEnds MessagesTaken
CHECK_DEADLOCK FALSE
