SPECIFICATION Spec
CONSTANTS
  deny = deny
  mtls = mtls
  open = open
  pod = pod
  other = other
  Policies = {deny, mtls, open}
  MaxLag = 3
  Workloads = {pod, other}
  Malformed = Malformed
  Pod = pod
  Port = 80
  Ports <- EdgePorts
  Window = 2
INVARIANTS
  TypeOK
  TargetExact
  EndToEnd
  GivesUpOnlyIfInvalid
PROPERTIES
  Converges
  Rests
  ShutsDown
  LetsGo
