SPECIFICATION ProbedSpec
CONSTANTS
  nodes = nodes
  pods = pods
  servers = servers
  authorizations = authorizations
  Watches = {nodes, pods}
  Custom = {}
  FailureThreshold = 2
PROPERTIES
  FailedWhenDisconnected
