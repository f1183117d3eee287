-------------------------------- MODULE MCBadges -------------------------------
(* One metric with two entries, another with one; a version that reports    *)
(* both and cites the harness by its address, and one without results.      *)
EXTENDS Badges, TLC

CONSTANTS acc, f1, harness, bare, v1, v2

MCMetricOf == (1 :> acc) @@ (2 :> acc) @@ (3 :> f1)
MCIdOf == harness :> bare
MCMetricsOf == (v1 :> {acc, f1}) @@ (v2 :> {})
MCHarnessOf == (v1 :> harness) @@ (v2 :> harness)
MCFromRecord == (v1 :> {"env_pinned"}) @@ (v2 :> {})
MCRefs == (v1 :> TRUE) @@ (v2 :> FALSE)

LiveSpec == Spec /\ Fairness

(* No sweep fails.                                                          *)
SteadyNext ==
  \/ \E x \in MetricEntries \cup HarnessEntries : Put(x)
  \/ \E v \in Versions :
       PostBegin(v) \/ PostHarness(v) \/ PostMetrics(v) \/ PostCommit(v)
  \/ \E g \in Replicas : SweepStep(g)
SteadySpec == Init /\ [][SteadyNext]_vars /\ Fairness
================================================================================
