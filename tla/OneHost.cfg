\* One server has every role, as in config/deploy/*.rb; remote commands fail.
SPECIFICATION Spec
CONSTANTS
  h1 = h1
  o1 = o1
  cap = cap
  Hosts = {h1}
  AppHosts = {h1}
  WebHosts = {h1}
  DbHost = h1
  NumSites = 1
  Deployer = cap
  Operators = {o1}
  Commands = {"deploy", "rollback"}
  KeepReleases = 2
  OwnRevs = {0, 1}
  StageRevs = {0, 1}
  VarnishHosts = {}
  SecretHosts = {}
  Faults = {"abort", "copy"}
  Serialised = TRUE
  MaxReleases = 4
  MaxRev = 1
  MaxEdits = 1
INVARIANTS
  TypeOK
  LiveReleaseExists
  ContentKept
  SuccessIsLive
  DeployIsBackedUp
  RollbackReady
  KeptAtMost
CHECK_DEADLOCK FALSE
