SPECIFICATION Spec
CONSTANTS
  Hosts = {h1}
  Nodes = {n1, n2, n3}
  Data = {d1, d2, d3}
  Executor = {t1}
  Mdns = mdns
  Kinds = {"discover", "update", "forget"}
  Nothing = Nothing
INVARIANT
  NoAssertionFails
CHECK_DEADLOCK FALSE
