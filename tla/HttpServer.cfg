\* Two connections and two instances; the process comes up, serves and goes down.
SPECIFICATION FairSpec
CONSTANTS
  http = http  messaging = messaging  config = config  b1 = b1  b2 = b2  a1 = a1
  None = None
  Hosts = {http, messaging, config}
  Deployments <- MCDeployments
  Listening = {http, messaging}
  BackendOf <- MCBackendOf
  Http = http
  Connections = {1, 2}
  Instances = {1, 2}
  Scopes = {1, 2}
  Requests <- MCRequests
  MaxRequests = 2
  MaxTraced = 1
INVARIANT AnsweredInTurn
PROPERTIES FlushedWhenDone DecidedIsAnswered OneDownAllDown
CHECK_DEADLOCK FALSE
