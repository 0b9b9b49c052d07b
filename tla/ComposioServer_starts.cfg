CONSTANTS
  Gateway = gateway
  Staging = staging
  Other = other
  ServerNames = {gateway, staging, other}
  Machines = {m1, m2}
  Environments <- Sharing
  Foreign <- OtherServer
  Faults = {"composio_error", "odd_reply", "late_post", "exit"}
  MaxServers = 5
  MaxStrays = 2
SPECIFICATION Spec
INVARIANTS
  TypeOK
  OneServerPerStarter
