SPECIFICATION Spec
CONSTANTS
  Hosts = {h1, h2}
  Nodes = {n1, n2, n3}
  Data = {d1, d2, d3, d4}
  Executor = {t1}
  Mdns = mdns
  Kinds = {"discover", "update", "add", "pair", "quit", "wol", "forget"}
  Nothing = Nothing
INVARIANTS
  HostsInOrder
PROPERTIES
  RequestsEnd
CHECK_DEADLOCK FALSE
