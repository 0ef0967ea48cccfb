SPECIFICATION Spec
CONSTANTS
  nodes = nodes
  pods = pods
  servers = servers
  authorizations = authorizations
  Watches = {nodes, pods, servers}
  Custom = {servers}
  FailureThreshold = 2
INVARIANTS
  TypeOK
  ReadyAfterLists
  ReadyWhenAllAre
PROPERTIES
  BecomesReady
