SPECIFICATION LiveSpec
CONSTANTS
  None = None
  acc = acc
  f1 = f1
  harness = harness
  bare = bare
  v1 = v1
  v2 = v2
  MetricEntries = {1, 2, 3}
  MetricOf <- MCMetricOf
  HarnessEntries = {harness}
  IdOf <- MCIdOf
  Versions = {v1, v2}
  MetricsOf <- MCMetricsOf
  HarnessOf <- MCHarnessOf
  FromRecord <- MCFromRecord
  Refs <- MCRefs
  ListMax = 3
  Replicas = {g1, g2}
INVARIANT BadgesTrue
PROPERTY BadgesKept MetricBadgeFollows
