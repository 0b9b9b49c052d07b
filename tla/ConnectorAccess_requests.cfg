CONSTANTS
  OneUser = ben
  OtherUser = ana
  Users = {ana, ben}
  Names = {notion, github, typo}
  Registered = {notion}
  Slot = github
  Asked <- Made
  Handlers = {h1, h2}
  Faults = {"composio_error", "db_error", "reply_lost", "client_gone"}
  Earlier <- OneAccountEach
  MaxAccounts = 3
SYMMETRY HandlerSymmetry
SPECIFICATION Spec
INVARIANTS
  TypeOK
  StatusIsTrue
  LogoutClears
PROPERTIES
  OthersStayIn
