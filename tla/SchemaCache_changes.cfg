CONSTANTS
  Create = create
  Search = search
  Page = page
  GitHub = github
  Notion = notion
  Title = title
  Tools = {create, search, page}
  Connectors = {github, notion}
  ConnectorOf <- Topology
  Fields = {title}
  FirstPublished <- CreateOnly
  Handlers = {h1, h2}
  Faults = {"gateway_error", "list_omits", "client_gone", "restart"}
  MaxChanges = 2
  None = none
  Unjudged = unjudged
  Failed = failed
SYMMETRY HandlerSymmetry
SPECIFICATION Spec
INVARIANTS
  TypeOK
  VerdictIsReal
PROPERTIES
  NothingForgotten
  VerdictSpec
