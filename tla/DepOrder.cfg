CONSTANTS
  n1 = n1
  n2 = n2
  n3 = n3
  Node <- MCNode
SPECIFICATION Spec
INVARIANTS TypeOK Topological OmitsOnlyHopeless
PROPERTIES Terminates ImplementsTopo
CHECK_DEADLOCK FALSE
