\* Two sites in :site_url.
SPECIFICATION Spec
CONSTANTS
  h1 = h1
  o1 = o1
  cap = cap
  Hosts = {h1}
  AppHosts = {h1}
  WebHosts = {h1}
  DbHost = h1
  NumSites = 2
  Deployer = cap
  Operators = {o1}
  Commands = {"deploy", "rollback"}
  KeepReleases = 2
  OwnRevs = {0, 1}
  StageRevs = {0, 1}
  VarnishHosts = {}
  SecretHosts = {}
  Faults = {}
  Serialised = TRUE
  MaxReleases = 3
  MaxRev = 1
  MaxEdits = 0
INVARIANTS
  SchemaFitsCode
CHECK_DEADLOCK FALSE
