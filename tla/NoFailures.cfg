\* Nothing fails: five releases, three commits, rollbacks between them.
SPECIFICATION FairSpec
CONSTANTS
  h1 = h1
  o1 = o1
  cap = cap
  Hosts = {h1}
  AppHosts = {h1}
  WebHosts = {h1}
  DbHost = h1
  NumSites = 1
  Deployer = cap
  Operators = {o1}
  Commands = {"deploy", "rollback"}
  KeepReleases = 2
  OwnRevs = {0, 1, 2}
  StageRevs = {0, 1, 2}
  VarnishHosts = {}
  SecretHosts = {}
  Faults = {}
  Serialised = TRUE
  MaxReleases = 5
  MaxRev = 2
  MaxEdits = 1
INVARIANTS
  SchemaFitsCode
PROPERTIES
  DeployGoesLive
CHECK_DEADLOCK FALSE
