SPECIFICATION Spec
CONSTANTS
  Processes = {p1, p2}
  Handles = {h1, h2, h3}
  Buffers = {b1, b2}
  Addresses = {a1, a2}
  Usages <- AllUsages
  NULL = NULL
  MaxFaults = 1
SYMMETRY Symmetry
CHECK_DEADLOCK FALSE
INVARIANT UsableIsMapped
INVARIANT MappingsBounded
INVARIANT HostRefsBounded
INVARIANT WritesReachHost
