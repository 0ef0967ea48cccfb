SPECIFICATION Spec
CONSTANTS
  None = None
  ns = ns
  az = az
  n1 = n1
  ip1 = ip1
  ip2 = ip2
  p = p
  a = a
  b = b
  x = x
  y = y
  http = http
  Namespaces = {ns}
  PodNames = {}
  NodeNames = {n1}
  ServerNames = {a}
  AuthzNames = {}
  PodLabels = {x}
  ServerLabels = {x}
  PortNumbers = {80, 90}
  PortNames = {http}
  PortLists <- PlainLists
  Modes = {"deny"}
  ClusterDefault = "deny"
  ProxyProtocols = {"unknown", "opaque"}
  Clients = {"mtls", "any"}
  KubeletIps = {ip1, ip2}
  NodeObjs <- NodesNone
  PodObjs <- PodsNone
  ServerObjs <- ServersProtocol
  AuthzObjs <- AuthzsNone
  Restarts = {"nodes", "pods", "servers", "authzs"}
  ConflictFree = FALSE
INVARIANTS
  ServersCurrent
