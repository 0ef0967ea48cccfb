SPECIFICATION Spec
CONSTANTS
  a = a
  b = b
  deny = deny
  mtls = mtls
  Default = Default
  Servers = {a, b}
  Policies = {deny, mtls}
  DefaultPolicy = deny
INVARIANTS
  TypeOK
  NoLostUpdate
  SpinsOnlyWhileRemoving
PROPERTIES
  Settles
  EndsWithPod
  EndsOnShutdown
  KeepsPromise
