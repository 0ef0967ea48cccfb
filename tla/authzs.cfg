SPECIFICATION Spec
CONSTANTS
  None = None
  ns = ns
  az = az
  n1 = n1
  ip1 = ip1
  ip2 = ip2
  p = p
  a = a
  b = b
  x = x
  y = y
  http = http
  Namespaces = {ns, other}
  PodNames = {}
  NodeNames = {n1}
  ServerNames = {a}
  AuthzNames = {az, bz}
  PodLabels = {x}
  ServerLabels = {x, y}
  PortNumbers = {80, 90}
  PortNames = {http}
  PortLists <- PlainLists
  Modes = {"deny"}
  ClusterDefault = "deny"
  ProxyProtocols = {"unknown", "opaque"}
  Clients = {"mtls", "any"}
  KubeletIps = {ip1, ip2}
  NodeObjs <- NodesNone
  PodObjs <- PodsNone
  ServerObjs <- ServersLabels
  AuthzObjs <- AuthzsAll
  Restarts = {"nodes", "pods", "servers", "authzs"}
  ConflictFree = FALSE
INVARIANTS
  TypeOK
  AuthorizationsExact
  AuthzsCurrent
  ServersCurrent
PROPERTIES
  AuthzsKept
