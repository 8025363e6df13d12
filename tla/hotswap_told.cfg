\* The product is told of the current generation "either way".
SPECIFICATION Spec
CONSTANTS
  v1 = v1
  v2 = v2
  v3 = v3
  a = a
  b = b
  c = c
  Versions = {v1, v2, v3}
  Names = {a, b, c}
  NoPart = NoPart
  Packaged = Packaged
  Part <- MCPart
  Roots = {Packaged, v1}
  Pushes = {p1, p2}
  Requests = {r1}
  StoreKeep = 1
  MaxStarts = 2
INVARIANT ToldOfCurrent
\* No push or request has to come, and the process may stay down.
CHECK_DEADLOCK FALSE
