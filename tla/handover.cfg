SPECIFICATION Spec
CONSTANTS
  None = None
  ns = ns
  az = az
  n1 = n1
  ip1 = ip1
  ip2 = ip2
  p = p
  a = a
  b = b
  x = x
  y = y
  http = http
  Namespaces = {ns}
  PodNames = {p}
  NodeNames = {n1}
  ServerNames = {a, b}
  AuthzNames = {}
  PodLabels = {x, y}
  ServerLabels = {x}
  PortNumbers = {80, 90}
  PortNames = {http}
  PortLists <- PlainLists
  Modes = {"deny"}
  ClusterDefault = "deny"
  ProxyProtocols = {"unknown"}
  Clients = {"mtls", "any"}
  KubeletIps = {ip1, ip2}
  NodeObjs <- NodesFixed
  PodObjs <- PodsAnyNode
  ServerObjs <- ServersOne
  AuthzObjs <- AuthzsNone
  Restarts = {"servers"}
  ConflictFree = TRUE
INVARIANTS
  SoleMatchLinked
