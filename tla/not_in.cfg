SPECIFICATION Spec
CONSTANTS
  kubelet = kubelet
  inside = inside
  outside = outside
  six = six
  web = web
  sa = sa
  ours = ours
  theirs = theirs
  cluster_local = cluster_local
  app = app
  tier = tier
  front = front
  back = back
  srv = srv
  other = other
  None = None
  Star = Star
  Parts <- IdentityLabels
  BadCidr = BadCidr
  Keys = {app, tier}
  Values = {front, back}
  Operators = {"In", "NotIn"}
  V4 <- IPv4
  V6 = {six}
  Domain <- LocalDomain
  Namespace = ours
  ClusterNets <- ClusterPods
  DefaultName = 0
  HealthCheck = 2
  Names = {1, 3}
  Specs <- Two
  Modes <- AllModes
  ServerName = srv
  ServerLabels <- LabelChoices
  KubeletIps = {kubelet}
  WatchedPort = 80
  HttpRequests <- Requests
INVARIANTS
  DecisionsRight
