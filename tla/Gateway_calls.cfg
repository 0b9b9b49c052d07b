CONSTANTS
  Char <- Letters
  Underscore = "_"
  Registry <- Mocks
  HasSlot = TRUE
  Slot <- Composio
  RegistryTools <- MockTools
  SlotTools <- ComposioTools
  RawNames <- OddNames
  Asked <- AskedTools
  Blocked <- BlockedTools
  CallIds = {c1}
  Handlers = {h1, h2}
  Faults = {"connector_error", "errorless_answer", "db_error", "client_gone", "restart"}
  MaxCalls = 2
SYMMETRY HandlerSymmetry
SPECIFICATION Spec
INVARIANTS
  TypeOK
  RunsWhatWasMeant
  PolicyGovernsRuns
  NothingRunsOffTheRecord
  EveryCallIsConcluded
