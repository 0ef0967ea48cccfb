SPECIFICATION Spec
CONSTANTS
  None = None
  ns = ns
  az = az
  n1 = n1
  ip1 = ip1
  ip2 = ip2
  p = p
  a = a
  b = b
  x = x
  y = y
  http = http
  Namespaces = {ns}
  PodNames = {p}
  NodeNames = {n1}
  ServerNames = {}
  AuthzNames = {}
  PodLabels = {x}
  ServerLabels = {x}
  PortNumbers = {80}
  PortNames = {http}
  PortLists <- PlainLists
  Modes = {"deny"}
  ClusterDefault = "deny"
  ProxyProtocols = {"unknown"}
  Clients = {"mtls", "any"}
  KubeletIps = {ip1, ip2}
  NodeObjs <- NodesNoCidr
  PodObjs <- PodsAnyNode
  ServerObjs <- ServersNone
  AuthzObjs <- AuthzsNone
  Restarts = {}
  ConflictFree = FALSE
INVARIANTS
  PodsAccountedFor
