SPECIFICATION Spec
CONSTANTS
  deny = deny
  mtls = mtls
  open = open
  pod = pod
  other = other
  Policies = {deny, mtls}
  MaxLag = 1
  Workloads = {pod, other}
  Malformed = Malformed
  Pod = pod
  Port = 80
  Ports <- EdgePorts
  Window = 1
PROPERTIES
  GivesUpIfAbsent
