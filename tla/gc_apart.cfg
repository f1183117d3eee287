SPECIFICATION SweepsSpec
CONSTANTS
  None = None
  genuine = genuine
  other = other
  Bytes <- MCBytes
  SizeOf <- MCSizeOf
  Shas = {s1, s2}
  Contents = {genuine, other}
  Announced = {1}
  HashMax = 1
  Clients = {c1}
  VersionHolders = {v1}
  RunHolders = {u1}
  Publishers = {p1}
  Replicas = {g1, g2}
INVARIANT NoLeak ServedUnlessCut
