\* Two application servers, the first with the database and Varnish.
SPECIFICATION Spec
CONSTANTS
  h1 = h1
  h2 = h2
  o1 = o1
  cap = cap
  Hosts = {h1, h2}
  AppHosts = {h1, h2}
  WebHosts = {h1}
  DbHost = h1
  NumSites = 1
  Deployer = cap
  Operators = {o1}
  Commands = {"deploy", "rollback"}
  KeepReleases = 2
  OwnRevs = {0, 1}
  StageRevs = {0, 1}
  VarnishHosts = {h1}
  SecretHosts = {h1}
  Faults = {"abort", "copy"}
  Serialised = TRUE
  MaxReleases = 3
  MaxRev = 1
  MaxEdits = 0
INVARIANTS
  SuccessIsLive
  DeployIsStaged
  NoStalePages
PROPERTIES
  UpdatesCanBeUndone
CHECK_DEADLOCK FALSE
