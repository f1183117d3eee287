SPECIFICATION LiveSpec
CONSTANTS
  None = None
  a = a
  b = b
  rung = rung
  depth = depth
  num = num
  str = str
  Schemas = {a, b}
  Paths = {rung, depth}
  Types = {num, str}
  TypeAt <- MCTypeAt
  Replicas = {g1, g2}
INVARIANT TypeOK AppliedIsIndexed OfferedIsIndexed OneBuilder
PROPERTY SchemasApplied
