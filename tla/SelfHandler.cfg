SPECIFICATION FairSpec
CONSTANTS
  Code <- MCCode
  ExitNr = 3
  Ret = 77
  MaxEvent = 4
  Slack = 3
  Junk = 99
INVARIANT HandlerAlone
PROPERTIES Invisible ProgramEnds
