CONSTANTS
  e1 = e1
  e2 = e2
  c1 = c1
  a = a
  b = b
  h1 = h1
  h2 = h2
  m1 = m1
  m2 = m2
  s1 = s1
  NoRun = NoRun
  Torn = Torn
  NoOne = NoOne
  Evals = {e1, e2}
  Cards = {c1}
  RunIds = {a, b}
  MaxSeq = 2
  Migrators = {m1, m2}
  Servers = {s1}
  SqlFiles = 3
  MaxCrashes = 1
  EvalOrder <- MCEvalOrder
  Databases <- MCDatabases
SPECIFICATION Spec
INVARIANTS ServedCurrent RefusalNamesAll
PROPERTIES Implements
