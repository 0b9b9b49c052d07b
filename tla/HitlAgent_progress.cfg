CONSTANTS
  c1 = c1 w1 = w1 w2 = w2
  write = write gone = gone
  local = local oauth = oauth
  name = name body = body
  NoTool = NoTool NoJob = NoJob
  Calls = {c1}
  Workers = {w1, w2}
  Fields = {name}
  Tools <- TwoTools
  Connectors <- TwoConnectors
  ConnectorOf <- TwoOn
  Known <- TwoConnectors
  Published <- WriteOnly
  TokenConnectors <- LocalOnly
  Required <- TwoNeeds
  Policies <- AnyPolicy
  Faults <- ReplyFaults
SPECIFICATION FairSpec
INVARIANTS
  DispatchesComplete
PROPERTIES
  ProcessingEnds
  TasksAreAnswered
