SPECIFICATION FairSpec
CONSTANTS
  MaxPieces = 1
  MaxTries = 1
  MaxFaults = 2
 
PROPERTIES ImplementsAgentStream StreamIsDone AgentStops
CHECK_DEADLOCK FALSE
