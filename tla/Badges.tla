--------------------------------- MODULE Badges --------------------------------
(***************************************************************************)
(* The badges of a version that follow the registry: computed when it is    *)
(* posted (records.rs), and again by the sweep of jobs.rs after a harness   *)
(* or a metric was registered.  The sweep reads and writes in statements of *)
(* their own, under an advisory lock but in no transaction.                 *)
(***************************************************************************)
EXTENDS Integers, FiniteSets

CONSTANTS
  MetricEntries,    \* metrics entries of one namespace: naturals, in list order
  MetricOf,         \* the metric each entry is a version of
  HarnessEntries,   \* harnesses entries {ns}/{id}@{version}
  IdOf,             \* the bare id of each
  Versions,
  MetricsOf,        \* the metrics a version reports
  HarnessOf,        \* its harness.name@version: an entry, a bare id, or None
  FromRecord,       \* env_pinned, redacted: what its body alone earns
  Refs,             \* whether its relations resolved when it was posted
  ListMax,          \* registry::list's limit in metrics_registered
  Replicas,
  None

ASSUME BadgesAssumption ==
  /\ MetricEntries \subseteq Nat /\ ListMax \in Nat
  /\ IsFiniteSet(MetricEntries)
  /\ FromRecord \in [Versions -> SUBSET {"env_pinned", "redacted"}]
  /\ Refs \in [Versions -> BOOLEAN]
  /\ None \notin Replicas \cup Versions \cup HarnessEntries

VARIABLES
  registry,  \* the entries there are
  version,   \* where each version stands: "absent", "live", "tombstoned"
  badges,    \* versions.badges
  posting,   \* create_or_append: the facts read so far
  lock,      \* the replica holding BADGE_RECOMPUTE
  sweep      \* where each replica's sweep stands
vars == <<registry, version, badges, posting, lock, sweep>>

Badge == {"refs_resolved", "harness_registered", "metric_registered",
          "env_pinned", "redacted"}
Facts == [refs : BOOLEAN, harness : BOOLEAN, metrics : BOOLEAN]
Posting == [facts : Facts, at : {"harness", "metrics", "insert"}]
Sweep == [affected : SUBSET Versions, doing : Versions \cup {None},
          current : SUBSET Badge, facts : Facts,
          at : {"gather", "next", "harness", "metrics", "write"}]

TypeOK ==
  /\ registry \subseteq MetricEntries \cup HarnessEntries
  /\ version \in [Versions -> {"absent", "live", "tombstoned"}]
  /\ badges \in [Versions -> SUBSET Badge]
  /\ posting \in [Versions -> Posting \cup {None}]
  /\ lock \in Replicas \cup {None}
  /\ sweep \in [Replicas -> Sweep \cup {None}]
  /\ \A g \in Replicas : sweep[g] # None <=> lock = g

NoFacts(refs) == [refs |-> refs, harness |-> FALSE, metrics |-> FALSE]

Init ==
  /\ registry = {}
  /\ version = [v \in Versions |-> "absent"]
  /\ badges = [v \in Versions |-> {}]
  /\ posting = [v \in Versions |-> None]
  /\ lock = None
  /\ sweep = [g \in Replicas |-> None]

(* evalhub_core::badge::compute                                             *)
Compute(v, facts) ==
  FromRecord[v] \cup (IF facts.refs THEN {"refs_resolved"} ELSE {})
                \cup (IF facts.harness THEN {"harness_registered"} ELSE {})
                \cup (IF facts.metrics THEN {"metric_registered"} ELSE {})

HarnessRegistered(v) == HarnessOf[v] \in registry
Registered(metric) == \E x \in registry \cap MetricEntries : MetricOf[x] = metric
AllMetricsRegistered(v) == \A m \in MetricsOf[v] : Registered(m)

(* registry::list: the first ListMax entries.                               *)
Listed == {x \in registry \cap MetricEntries :
             Cardinality({y \in registry \cap MetricEntries : y < x}) < ListMax}
AnyMetricListed(v) ==        \* the loop returns true too soon
  MetricsOf[v] = {} \/ \E m \in MetricsOf[v] : \E x \in Listed : MetricOf[x] = m
MetricsListed(v) == \A m \in MetricsOf[v] : \E x \in Listed : MetricOf[x] = m

-----------------------------------------------------------------------------
Put(x) ==                    \* PUT /registry/{kind}/{ns}/{id}@{version}
  /\ x \notin registry
  /\ registry' = registry \cup {x}
  /\ UNCHANGED <<version, badges, posting, lock, sweep>>

-----------------------------------------------------------------------------
(* create_or_append asks for the harness, then for the metrics, and inserts *)
(* the version with the badges those answers earn.                          *)
PostBegin(v) ==
  /\ version[v] = "absent" /\ posting[v] = None
  /\ posting' = [posting EXCEPT ![v] = [facts |-> NoFacts(Refs[v]), at |-> "harness"]]
  /\ UNCHANGED <<registry, version, badges, lock, sweep>>
PostHarness(v) ==
  /\ posting[v] # None /\ posting[v].at = "harness"
  /\ posting' = [posting EXCEPT ![v] =
       [facts |-> [@.facts EXCEPT !.harness = HarnessRegistered(v)], at |-> "metrics"]]
  /\ UNCHANGED <<registry, version, badges, lock, sweep>>
PostMetrics(v) ==
  /\ posting[v] # None /\ posting[v].at = "metrics"
  /\ posting' = [posting EXCEPT ![v] =
       [facts |-> [@.facts EXCEPT !.metrics = AllMetricsRegistered(v)], at |-> "insert"]]
  /\ UNCHANGED <<registry, version, badges, lock, sweep>>
PostCommit(v) ==
  /\ posting[v] # None /\ posting[v].at = "insert"
  /\ version' = [version EXCEPT ![v] = "live"]
  /\ badges' = [badges EXCEPT ![v] = Compute(v, posting[v].facts)]
  /\ posting' = [posting EXCEPT ![v] = None]
  /\ UNCHANGED <<registry, lock, sweep>>
PostAbort(v) ==
  /\ posting[v] # None
  /\ posting' = [posting EXCEPT ![v] = None]
  /\ UNCHANGED <<registry, version, badges, lock, sweep>>

Tombstone(v) ==              \* the badges stay
  /\ version[v] = "live"
  /\ version' = [version EXCEPT ![v] = "tombstoned"]
  /\ UNCHANGED <<registry, badges, posting, lock, sweep>>

-----------------------------------------------------------------------------
(* The sweep                                                                *)

SweepUnchanged == UNCHANGED <<registry, version, posting>>
At(g, at) == sweep[g] # None /\ sweep[g].at = at
Sets(g, s) == sweep' = [sweep EXCEPT ![g] = s]
Goes(g, affected, doing, current, facts, at) ==
  Sets(g, [affected |-> affected, doing |-> doing, current |-> current,
           facts |-> facts, at |-> at])
Ends(g) == Sets(g, None) /\ lock' = None

CitingHarnessOnly(v) == HarnessOf[v] \in registry   \* the metrics loop left out
(* versions_citing_metric with {ns}/{id}, versions_citing_harness with the  *)
(* entry's bare id.                                                         *)
Citing(v) ==
  \/ \E m \in MetricsOf[v] : Registered(m)
  \/ \E x \in registry \cap HarnessEntries : HarnessOf[v] = IdOf[x]

AnyLock(g) == TRUE           \* try_acquire's answer not looked at
LockFree(g) == lock = None

Begin(g) ==
  /\ sweep[g] = None /\ LockFree(g)
  /\ lock' = g
  /\ Goes(g, {}, None, {}, NoFacts(FALSE), "gather")
  /\ SweepUnchanged /\ UNCHANGED badges

Gather(g) ==
  /\ At(g, "gather")
  /\ Goes(g, {v \in Versions : version[v] = "live" /\ Citing(v)}, None, {},
          NoFacts(FALSE), "next")
  /\ SweepUnchanged /\ UNCHANGED <<badges, lock>>

CarriedRefs(g, v) == "refs_resolved" \in badges[v]

(* body_and_badges: a version tombstoned meanwhile is skipped.              *)
Take(g) ==
  /\ At(g, "next")
  /\ \E v \in sweep[g].affected :
       IF version[v] = "live"
       THEN Goes(g, sweep[g].affected \ {v}, v, badges[v], NoFacts(CarriedRefs(g, v)),
                 "harness")
       ELSE Goes(g, sweep[g].affected \ {v}, None, {}, NoFacts(FALSE), "next")
  /\ SweepUnchanged /\ UNCHANGED <<badges, lock>>

AskHarness(g) ==
  /\ At(g, "harness")
  /\ LET r == sweep[g]
     IN Goes(g, r.affected, r.doing, r.current,
             [r.facts EXCEPT !.harness = HarnessRegistered(r.doing)], "metrics")
  /\ SweepUnchanged /\ UNCHANGED <<badges, lock>>
AskMetrics(g) ==
  /\ At(g, "metrics")
  /\ LET r == sweep[g]
     IN Goes(g, r.affected, r.doing, r.current,
             [r.facts EXCEPT !.metrics = MetricsListed(r.doing)], "write")
  /\ SweepUnchanged /\ UNCHANGED <<badges, lock>>

(* set_badges, when they differ from what was read: the whole array, on a   *)
(* version that may have been tombstoned since.                             *)
Write(g) ==
  /\ At(g, "write")
  /\ LET v == sweep[g].doing
         recomputed == Compute(v, sweep[g].facts)
     IN badges' = IF recomputed = sweep[g].current THEN badges
                  ELSE [badges EXCEPT ![v] = recomputed]
  /\ Goes(g, sweep[g].affected, None, {}, NoFacts(FALSE), "next")
  /\ SweepUnchanged /\ UNCHANGED lock

Finish(g) ==
  /\ At(g, "next") /\ sweep[g].affected = {}
  /\ Ends(g) /\ SweepUnchanged /\ UNCHANGED badges

(* An error, an abort at an await point, the end of the process: the lock   *)
(* is released in any case.                                                 *)
Fails(g) ==
  /\ sweep[g] # None
  /\ Ends(g) /\ SweepUnchanged /\ UNCHANGED badges

-----------------------------------------------------------------------------
SweepStep(g) ==
  \/ Begin(g) \/ Gather(g) \/ Take(g) \/ AskHarness(g) \/ AskMetrics(g)
  \/ Write(g) \/ Finish(g)

Next ==
  \/ \E x \in MetricEntries \cup HarnessEntries : Put(x)
  \/ \E v \in Versions :
       \/ PostBegin(v) \/ PostHarness(v) \/ PostMetrics(v) \/ PostCommit(v)
       \/ PostAbort(v) \/ Tombstone(v)
  \/ \E g \in Replicas : SweepStep(g) \/ Fails(g)

Spec == Init /\ [][Next]_vars

(* The timer of each server never stops.                                    *)
Fairness == \A g \in Replicas : SF_vars(SweepStep(g))

-----------------------------------------------------------------------------
(* A badge says what the hub checked (badge.rs): refs_resolved exactly what *)
(* resolved at ingest, carried through every sweep; the others only of      *)
(* entries that are there.                                                  *)
BadgesTrue ==
  \A v \in Versions : version[v] # "absent" =>
    /\ "refs_resolved" \in badges[v] <=> Refs[v]
    /\ "harness_registered" \in badges[v] => HarnessRegistered(v)
    /\ "metric_registered" \in badges[v] => AllMetricsRegistered(v)

(* A badge once earned stays: the registry only grows and the record never  *)
(* changes, although the sweep replaces the whole array with facts it read  *)
(* one by one.                                                              *)
BadgesKept ==
  [][\A v \in Versions : version[v] # "absent" => badges[v] \subseteq badges'[v]]_vars

(* A sweep that ends with versions left to do.                              *)
CutShort(g) ==
  /\ sweep[g] # None /\ sweep'[g] = None
  /\ ~(At(g, "next") /\ sweep[g].affected = {})
FailuresStop == <>[][\A g \in Replicas : ~CutShort(g)]_vars

(* Badges awarded by the registry follow the registry (registry.rs): a live *)
(* version gets metric_registered once all its metrics are registered, in   *)
(* whatever order it was posted and they were registered.                   *)
MetricBadgeFollows ==
  FailuresStop => \A v \in Versions :
    (version[v] = "live" /\ MetricsOf[v] # {} /\ AllMetricsRegistered(v))
      ~> (version[v] = "tombstoned" \/ "metric_registered" \in badges[v])

(* The same of the harness (jobs.rs, spawn_badge_recompute: "registering a  *)
(* harness or a metric therefore changes them on versions that were stored  *)
(* before, and this sweep is what makes that true").                        *)
HarnessBadgeFollows ==
  \A v \in Versions :
    (version[v] = "live" /\ HarnessRegistered(v))
      ~> (version[v] = "tombstoned" \/ "harness_registered" \in badges[v])
================================================================================
