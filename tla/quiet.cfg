SPECIFICATION Spec
CONSTANTS
  nodes = nodes
  pods = pods
  servers = servers
  authorizations = authorizations
  Watches = {pods}
  Custom = {}
  FailureThreshold = 2
PROPERTIES
  ResetAfterFailure
