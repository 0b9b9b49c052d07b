CONSTANTS
  c1 = c1 w1 = w1 w2 = w2
  write = write gone = gone
  local = local oauth = oauth
  name = name body = body
  NoTool = NoTool NoJob = NoJob
  Calls = {c1}
  Workers = {w1, w2}
  Fields = {name, body}
  Tools <- WriteOnly
  Connectors <- LocalOnly
  ConnectorOf <- WriteOnLocal
  Known <- LocalOnly
  Published <- WriteOnly
  TokenConnectors <- LocalOnly
  Required <- WriteNeedsAll
  Policies <- AskFirst
  Faults <- SchemaFaults
SPECIFICATION Spec
INVARIANTS
  IncompleteInputRepauses
