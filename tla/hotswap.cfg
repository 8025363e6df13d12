\* Two pushes of any of three versions, on a root that may hold one already.
SPECIFICATION FairSpec
CONSTANTS
  v1 = v1
  v2 = v2
  v3 = v3
  a = a
  b = b
  c = c
  Versions = {v1, v2, v3}
  Names = {a, b, c}
  NoPart = NoPart
  Packaged = Packaged
  Part <- MCPart
  Roots = {Packaged, v1}
  Pushes = {p1, p2}
  Requests = {r1}
  StoreKeep = 1
  MaxStarts = 2
INVARIANTS
  TypeOK
  CommittedIsWhole
  RunningHasAssets
  NoneHandedDisposed
PROPERTIES
  CommittedIsSpared
  KeepsDeployment
  EverybodyAnswered
\* No push or request has to come, and the process may stay down.
CHECK_DEADLOCK FALSE
