------------------------------ MODULE BadgesProofs ------------------------------
(***************************************************************************)
(* Proofs about Badges, for any versions, entries and replicas: a badge      *)
(* never claims an entry that is not there, and - as long as the registry    *)
(* fits into one listing - no sweep takes a badge away.  The sweep reads    *)
(* fact by fact and writes without a condition; the invariant says what     *)
(* keeps the facts it has read right until it writes.                       *)
(***************************************************************************)
EXTENDS Badges, FiniteSetTheorems, TLAPS

(* Every metrics entry of a namespace fits into metrics_registered's list. *)
Small == Cardinality(MetricEntries) <= ListMax

HarnessIn(v, reg) == HarnessOf[v] \in reg
MetricsIn(v, reg) ==
  \A m \in MetricsOf[v] : \E x \in reg \cap MetricEntries : MetricOf[x] = m

(* Facts read for a version: what resolved at ingest, and answers that were
   true and still are, for entries are never removed. *)
FactsOK(f, v, reg) ==
  /\ f = [refs |-> f.refs, harness |-> f.harness, metrics |-> f.metrics]
  /\ f.refs = Refs[v]
  /\ f.harness => HarnessIn(v, reg)
  /\ f.metrics => MetricsIn(v, reg)

PostOK(p, v, reg) ==
  /\ p = [facts |-> p.facts, at |-> p.at]
  /\ p.at \in {"harness", "metrics", "insert"}
  /\ FactsOK(p.facts, v, reg)

Working == {"harness", "metrics", "write"}

(* A sweep at a version holds the badges the version still has, and finds
   again each of the facts that earned them. *)
SweepOK(r, ver, bad, reg) ==
  /\ r = [affected |-> r.affected, doing |-> r.doing, current |-> r.current,
          facts |-> r.facts, at |-> r.at]
  /\ r.at \in Working \cup {"gather", "next"}
  /\ r.affected \subseteq Versions
  /\ r.at \in Working =>
       /\ r.doing \in Versions /\ ver[r.doing] # "absent"
       /\ r.current = bad[r.doing]
       /\ FactsOK(r.facts, r.doing, reg)
  /\ r.at \in {"metrics", "write"} /\ "harness_registered" \in r.current => r.facts.harness
  /\ r.at = "write" /\ Small /\ "metric_registered" \in r.current => r.facts.metrics

BadgeOK(b, v, reg) ==
  /\ FromRecord[v] \subseteq b
  /\ b \subseteq FromRecord[v] \cup {"refs_resolved", "harness_registered", "metric_registered"}
  /\ "refs_resolved" \in b <=> Refs[v]
  /\ "harness_registered" \in b => HarnessIn(v, reg)
  /\ "metric_registered" \in b => MetricsIn(v, reg)

Shapes ==
  /\ DOMAIN version = Versions /\ DOMAIN badges = Versions
  /\ DOMAIN posting = Versions /\ DOMAIN sweep = Replicas
BadgeInv == \A v \in Versions : version[v] # "absent" => BadgeOK(badges[v], v, registry)
PostInv  == \A v \in Versions :
  posting[v] # None => version[v] = "absent" /\ PostOK(posting[v], v, registry)
SweepInv == \A g \in Replicas :
  sweep[g] # None => lock = g /\ SweepOK(sweep[g], version, badges, registry)

Inv == Shapes /\ BadgeInv /\ PostInv /\ SweepInv

-----------------------------------------------------------------------------
(* compute of evalhub_core::badge, of facts that are right. *)
LEMMA ComputeOK ==
  ASSUME NEW v \in Versions, NEW reg, NEW f, FactsOK(f, v, reg)
  PROVE  BadgeOK(Compute(v, f), v, reg)
<1>1. /\ "refs_resolved" \notin FromRecord[v] /\ "harness_registered" \notin FromRecord[v]
      /\ "metric_registered" \notin FromRecord[v]
  BY BadgesAssumption
<1>2. Refs[v] \in BOOLEAN
  BY BadgesAssumption
<1>3. /\ "refs_resolved" \in Compute(v, f) <=> f.refs
      /\ "harness_registered" \in Compute(v, f) <=> f.harness
      /\ "metric_registered" \in Compute(v, f) <=> f.metrics
  BY <1>1 DEF Compute
<1>4. /\ FromRecord[v] \subseteq Compute(v, f)
      /\ Compute(v, f) \subseteq
           FromRecord[v] \cup {"refs_resolved", "harness_registered", "metric_registered"}
  BY DEF Compute
<1> QED BY <1>3, <1>4 DEF BadgeOK, FactsOK

(* Entries are only added, and what was true of the registry stays true. *)
LEMMA Grows ==
  ASSUME NEW reg, NEW more, reg \subseteq more, NEW v \in Versions
  PROVE  /\ \A f : FactsOK(f, v, reg) => FactsOK(f, v, more)
         /\ \A p : PostOK(p, v, reg) => PostOK(p, v, more)
         /\ \A b : BadgeOK(b, v, reg) => BadgeOK(b, v, more)
<1>1. HarnessIn(v, reg) => HarnessIn(v, more)
  BY DEF HarnessIn
<1>2. MetricsIn(v, reg) => MetricsIn(v, more)
  BY DEF MetricsIn
<1>3. \A f : FactsOK(f, v, reg) => FactsOK(f, v, more)
  BY <1>1, <1>2 DEF FactsOK
<1> QED BY <1>1, <1>2, <1>3 DEF PostOK, BadgeOK

(* The list of metrics_registered is part of the registry, and all of it
   when the registry is small. *)
LEMMA ListedSome == \A v \in Versions : MetricsListed(v) => MetricsIn(v, registry)
  BY DEF MetricsListed, MetricsIn, Listed

LEMMA ListedAll == Small => \A v \in Versions : MetricsIn(v, registry) => MetricsListed(v)
<1> SUFFICES ASSUME Small, NEW x \in registry \cap MetricEntries PROVE x \in Listed
  BY DEF MetricsListed, MetricsIn
<1> DEFINE before == {y \in registry \cap MetricEntries : y < x}
<1>1. IsFiniteSet(MetricEntries) /\ x \in Nat /\ ListMax \in Nat
  BY BadgesAssumption
<1>2. /\ IsFiniteSet(MetricEntries \ {x})
      /\ Cardinality(MetricEntries \ {x}) = Cardinality(MetricEntries) - 1
  BY <1>1, FS_RemoveElement
<1>3. before \subseteq MetricEntries \ {x}
  BY <1>1
<1>4. Cardinality(before) <= Cardinality(MetricEntries \ {x}) /\ IsFiniteSet(before)
  BY <1>2, <1>3, FS_Subset
<1>5. Cardinality(before) \in Nat /\ Cardinality(MetricEntries) \in Nat
  BY <1>1, <1>4, FS_CardinalityType
<1>6. Cardinality(before) < ListMax
  BY <1>1, <1>2, <1>4, <1>5 DEF Small
<1> QED BY <1>6 DEF Listed

-----------------------------------------------------------------------------
LEMMA InitInv == Init => Inv
  BY DEF Init, Inv, Shapes, BadgeInv, PostInv, SweepInv

(* PUT /registry. *)
LEMMA PutStep ==
  ASSUME Inv, NEW x \in MetricEntries \cup HarnessEntries, Put(x)
  PROVE  Inv'
<1>1. registry \subseteq registry' /\ UNCHANGED <<version, badges, posting, lock, sweep>>
  BY DEF Put
<1>2. Shapes'
  BY <1>1 DEF Inv, Shapes
<1>3. BadgeInv'
  BY <1>1, Grows DEF Inv, BadgeInv
<1>4. PostInv'
  BY <1>1, Grows DEF Inv, PostInv
<1>5. SweepInv'
  <2> SUFFICES ASSUME NEW g \in Replicas, sweep[g] # None
               PROVE  SweepOK(sweep[g], version, badges, registry')
    BY <1>1 DEF Inv, SweepInv
  <2>1. SweepOK(sweep[g], version, badges, registry)
    BY DEF Inv, SweepInv
  <2>2. sweep[g].at \in Working => FactsOK(sweep[g].facts, sweep[g].doing, registry')
    BY <1>1, <2>1, Grows DEF SweepOK
  <2> QED BY <2>1, <2>2 DEF SweepOK
<1> QED BY <1>2, <1>3, <1>4, <1>5 DEF Inv

(* A post that asks or gives up. *)
LEMMA PostAsks ==
  ASSUME Inv, NEW v \in Versions, NEW p, posting' = [posting EXCEPT ![v] = p],
         UNCHANGED <<registry, version, badges, lock, sweep>>,
         version[v] = "absent", p = None \/ PostOK(p, v, registry)
  PROVE  Inv'
<1>1. /\ DOMAIN posting' = Versions /\ posting'[v] = p
      /\ \A w \in Versions \ {v} : posting'[w] = posting[w]
  BY DEF Inv, Shapes
<1>2. Shapes' /\ BadgeInv' /\ SweepInv'
  BY <1>1 DEF Inv, Shapes, BadgeInv, SweepInv
<1>3. PostInv'
  BY <1>1 DEF Inv, PostInv
<1> QED BY <1>2, <1>3 DEF Inv

LEMMA PostBeginStep ==
  ASSUME Inv, NEW v \in Versions, PostBegin(v)
  PROVE  Inv'
<1> DEFINE f == NoFacts(Refs[v])
           p == [facts |-> f, at |-> "harness"]
<1>1. FactsOK(f, v, registry)
  BY DEF NoFacts, FactsOK
<1> HIDE DEF f
<1>2. PostOK(p, v, registry)
  BY <1>1 DEF PostOK
<1>3. posting' = [posting EXCEPT ![v] = p] /\ version[v] = "absent"
      /\ UNCHANGED <<registry, version, badges, lock, sweep>>
  BY DEF PostBegin, f
<1> HIDE DEF p
<1> QED BY <1>2, <1>3, PostAsks

LEMMA PostHarnessStep ==
  ASSUME Inv, NEW v \in Versions, PostHarness(v)
  PROVE  Inv'
<1> DEFINE old == posting[v].facts
           f == [old EXCEPT !.harness = HarnessRegistered(v)]
           p == [facts |-> f, at |-> "metrics"]
<1>1. posting[v] # None /\ version[v] = "absent" /\ FactsOK(old, v, registry)
  BY DEF PostHarness, Inv, PostInv, PostOK
<1>2. FactsOK(f, v, registry)
  <2>1. f = [refs |-> old.refs, harness |-> HarnessRegistered(v), metrics |-> old.metrics]
    BY <1>1 DEF FactsOK
  <2> QED BY <1>1, <2>1 DEF FactsOK, HarnessRegistered, HarnessIn
<1>3. posting' = [posting EXCEPT ![v] = p]
      /\ UNCHANGED <<registry, version, badges, lock, sweep>>
  BY DEF PostHarness
<1> HIDE DEF f
<1>4. PostOK(p, v, registry)
  BY <1>2 DEF PostOK
<1> HIDE DEF p
<1> QED BY <1>1, <1>3, <1>4, PostAsks

LEMMA PostMetricsStep ==
  ASSUME Inv, NEW v \in Versions, PostMetrics(v)
  PROVE  Inv'
<1> DEFINE old == posting[v].facts
           f == [old EXCEPT !.metrics = AllMetricsRegistered(v)]
           p == [facts |-> f, at |-> "insert"]
<1>1. posting[v] # None /\ version[v] = "absent" /\ FactsOK(old, v, registry)
  BY DEF PostMetrics, Inv, PostInv, PostOK
<1>2. FactsOK(f, v, registry)
  <2>1. f = [refs |-> old.refs, harness |-> old.harness, metrics |-> AllMetricsRegistered(v)]
    BY <1>1 DEF FactsOK
  <2> QED BY <1>1, <2>1 DEF FactsOK, AllMetricsRegistered, Registered, MetricsIn
<1>3. posting' = [posting EXCEPT ![v] = p]
      /\ UNCHANGED <<registry, version, badges, lock, sweep>>
  BY DEF PostMetrics
<1> HIDE DEF f
<1>4. PostOK(p, v, registry)
  BY <1>2 DEF PostOK
<1> HIDE DEF p
<1> QED BY <1>1, <1>3, <1>4, PostAsks

(* The insert: the version was absent, so no sweep is at it. *)
LEMMA PostCommitStep ==
  ASSUME Inv, NEW v \in Versions, PostCommit(v)
  PROVE  Inv'
<1>1. posting[v] # None /\ version[v] = "absent" /\ FactsOK(posting[v].facts, v, registry)
  BY DEF PostCommit, Inv, PostInv, PostOK
<1>2. /\ version' = [version EXCEPT ![v] = "live"]
      /\ badges' = [badges EXCEPT ![v] = Compute(v, posting[v].facts)]
      /\ posting' = [posting EXCEPT ![v] = None]
      /\ UNCHANGED <<registry, lock, sweep>>
  BY DEF PostCommit
<1>3. /\ Shapes' /\ version'[v] = "live" /\ badges'[v] = Compute(v, posting[v].facts)
      /\ posting'[v] = None
      /\ \A w \in Versions \ {v} : /\ version'[w] = version[w] /\ badges'[w] = badges[w]
                                   /\ posting'[w] = posting[w]
  BY <1>2 DEF Inv, Shapes
<1>4. BadgeInv'
  BY <1>1, <1>2, <1>3, ComputeOK DEF Inv, BadgeInv
<1>5. PostInv'
  BY <1>2, <1>3 DEF Inv, PostInv
<1>6. SweepInv'
  <2> SUFFICES ASSUME NEW g \in Replicas, sweep[g] # None
               PROVE  SweepOK(sweep[g], version', badges', registry)
    BY <1>2 DEF Inv, SweepInv
  <2>1. SweepOK(sweep[g], version, badges, registry)
    BY DEF Inv, SweepInv
  <2> QED BY <1>1, <1>3, <2>1 DEF SweepOK
<1> QED BY <1>3, <1>4, <1>5, <1>6 DEF Inv

LEMMA TombstoneStep ==
  ASSUME Inv, NEW v \in Versions, Tombstone(v)
  PROVE  Inv'
<1>1. /\ version[v] # "absent" /\ version' = [version EXCEPT ![v] = "tombstoned"]
      /\ UNCHANGED <<registry, badges, posting, lock, sweep>>
  BY DEF Tombstone
<1>2. Shapes' /\ \A w \in Versions : version'[w] # "absent" <=> version[w] # "absent"
  BY <1>1 DEF Inv, Shapes
<1>3. BadgeInv'
  BY <1>1, <1>2 DEF Inv, BadgeInv
<1>4. PostInv'
  BY <1>1, <1>2 DEF Inv, Shapes, PostInv
<1>5. SweepInv'
  <2> SUFFICES ASSUME NEW g \in Replicas, sweep[g] # None
               PROVE  SweepOK(sweep[g], version', badges, registry)
    BY <1>1 DEF Inv, SweepInv
  <2>1. SweepOK(sweep[g], version, badges, registry)
    BY DEF Inv, SweepInv
  <2> QED BY <1>2, <2>1 DEF SweepOK
<1> QED BY <1>2, <1>3, <1>4, <1>5 DEF Inv

-----------------------------------------------------------------------------
(* The holder of the lock is the only sweep: a step of it that writes no
   badges asks only for what it now holds. *)
LEMMA SweepReads ==
  ASSUME Inv, NEW g \in Replicas, NEW r, sweep' = [sweep EXCEPT ![g] = r],
         UNCHANGED <<registry, version, badges, posting>>,
         lock' = g, \A o \in Replicas \ {g} : sweep[o] = None,
         SweepOK(r, version, badges, registry)
  PROVE  Inv'
<1>1. /\ DOMAIN sweep' = Replicas /\ sweep'[g] = r
      /\ \A o \in Replicas \ {g} : sweep'[o] = None
  BY DEF Inv, Shapes
<1>2. Shapes' /\ BadgeInv' /\ PostInv'
  BY <1>1 DEF Inv, Shapes, BadgeInv, PostInv
<1>3. SweepInv'
  BY <1>1 DEF SweepInv
<1> QED BY <1>2, <1>3 DEF Inv

LEMMA Alone ==
  ASSUME Inv, NEW g \in Replicas, sweep[g] # None
  PROVE  /\ lock = g /\ SweepOK(sweep[g], version, badges, registry)
         /\ \A o \in Replicas \ {g} : sweep[o] = None
  BY DEF Inv, SweepInv

(* A sweep between versions. *)
LEMMA Between ==
  ASSUME NEW affected, affected \subseteq Versions, NEW at \in {"gather", "next"},
         NEW doing, NEW facts
  PROVE  SweepOK([affected |-> affected, doing |-> doing, current |-> {},
                  facts |-> facts, at |-> at], version, badges, registry)
  BY DEF SweepOK, Working

LEMMA BeginStep ==
  ASSUME Inv, NEW g \in Replicas, Begin(g)
  PROVE  Inv'
<1> DEFINE r == [affected |-> {}, doing |-> None, current |-> {},
                 facts |-> NoFacts(FALSE), at |-> "gather"]
<1>1. /\ sweep' = [sweep EXCEPT ![g] = r] /\ lock' = g
      /\ UNCHANGED <<registry, version, badges, posting>>
  BY DEF Begin, Goes, Sets, SweepUnchanged
<1>2. \A o \in Replicas \ {g} : sweep[o] = None
  <2>1. lock = None
    BY DEF Begin, LockFree
  <2> QED BY <2>1, BadgesAssumption DEF Inv, SweepInv
<1>3. SweepOK(r, version, badges, registry)
  BY Between
<1> HIDE DEF r
<1> QED BY <1>1, <1>2, <1>3, SweepReads

LEMMA GatherStep ==
  ASSUME Inv, NEW g \in Replicas, Gather(g)
  PROVE  Inv'
<1> DEFINE vs == {v \in Versions : version[v] = "live" /\ Citing(v)}
           r == [affected |-> vs, doing |-> None, current |-> {},
                 facts |-> NoFacts(FALSE), at |-> "next"]
<1>1. /\ sweep' = [sweep EXCEPT ![g] = r] /\ lock' = lock /\ sweep[g] # None
      /\ UNCHANGED <<registry, version, badges, posting>>
  BY DEF Gather, At, Goes, Sets, SweepUnchanged
<1>2. SweepOK(r, version, badges, registry)
  <2>1. vs \subseteq Versions
    OBVIOUS
  <2> HIDE DEF vs
  <2> QED BY <2>1, Between
<1> HIDE DEF r
<1> QED BY <1>1, <1>2, Alone, SweepReads

LEMMA TakeStep ==
  ASSUME Inv, NEW g \in Replicas, Take(g)
  PROVE  Inv'
<1> DEFINE s == sweep[g]
<1>1. /\ s # None /\ lock' = g /\ (\A o \in Replicas \ {g} : sweep[o] = None)
      /\ SweepOK(s, version, badges, registry)
      /\ UNCHANGED <<registry, version, badges, posting>>
  BY Alone DEF Take, At, SweepUnchanged
<1>2. PICK v \in s.affected :
        IF version[v] = "live"
        THEN Goes(g, s.affected \ {v}, v, badges[v], NoFacts(CarriedRefs(g, v)), "harness")
        ELSE Goes(g, s.affected \ {v}, None, {}, NoFacts(FALSE), "next")
  BY DEF Take
<1>3. v \in Versions /\ s.affected \ {v} \subseteq Versions
  BY <1>1 DEF SweepOK
<1>4. CASE version[v] = "live"
  <2> DEFINE f == NoFacts(CarriedRefs(g, v))
             r == [affected |-> s.affected \ {v}, doing |-> v, current |-> badges[v],
                   facts |-> f, at |-> "harness"]
  <2>1. BadgeOK(badges[v], v, registry)
    BY <1>3, <1>4 DEF Inv, BadgeInv
  <2>2. Refs[v] \in BOOLEAN
    BY <1>3, BadgesAssumption
  <2>3. CarriedRefs(g, v) = Refs[v]
    BY <2>1, <2>2 DEF BadgeOK, CarriedRefs
  <2>4. FactsOK(f, v, registry)
    BY <2>3 DEF FactsOK, NoFacts
  <2>5. sweep' = [sweep EXCEPT ![g] = r]
    BY <1>2, <1>4 DEF Goes, Sets
  <2> HIDE DEF f
  <2>6. SweepOK(r, version, badges, registry)
    BY <1>3, <1>4, <2>4 DEF SweepOK, Working
  <2> HIDE DEF r
  <2> QED BY <1>1, <2>5, <2>6, SweepReads
<1>5. CASE version[v] # "live"
  <2> DEFINE r == [affected |-> s.affected \ {v}, doing |-> None, current |-> {},
                   facts |-> NoFacts(FALSE), at |-> "next"]
  <2>1. sweep' = [sweep EXCEPT ![g] = r]
    BY <1>2, <1>5 DEF Goes, Sets
  <2>2. SweepOK(r, version, badges, registry)
    BY <1>3, Between
  <2> HIDE DEF r
  <2> QED BY <1>1, <2>1, <2>2, SweepReads
<1> QED BY <1>4, <1>5

LEMMA AskHarnessStep ==
  ASSUME Inv, NEW g \in Replicas, AskHarness(g)
  PROVE  Inv'
<1> DEFINE s == sweep[g]
           f == [s.facts EXCEPT !.harness = HarnessRegistered(s.doing)]
           r == [affected |-> s.affected, doing |-> s.doing, current |-> s.current,
                 facts |-> f, at |-> "metrics"]
<1>1. /\ s # None /\ s.at = "harness" /\ lock' = g
      /\ (\A o \in Replicas \ {g} : sweep[o] = None)
      /\ SweepOK(s, version, badges, registry)
      /\ sweep' = [sweep EXCEPT ![g] = r]
      /\ UNCHANGED <<registry, version, badges, posting>>
  BY Alone DEF AskHarness, At, Goes, Sets, SweepUnchanged
<1>2. /\ s.doing \in Versions /\ version[s.doing] # "absent" /\ s.affected \subseteq Versions
      /\ s.current = badges[s.doing] /\ FactsOK(s.facts, s.doing, registry)
  BY <1>1 DEF SweepOK, Working
<1>3. f = [refs |-> s.facts.refs, harness |-> HarnessRegistered(s.doing),
           metrics |-> s.facts.metrics]
  BY <1>2 DEF FactsOK
<1>4. FactsOK(f, s.doing, registry) /\ f.harness = HarnessRegistered(s.doing)
  BY <1>2, <1>3 DEF FactsOK, HarnessRegistered, HarnessIn
<1>5. "harness_registered" \in s.current => f.harness
  <2>1. BadgeOK(badges[s.doing], s.doing, registry)
    BY <1>2 DEF Inv, BadgeInv
  <2> QED BY <1>2, <1>4, <2>1 DEF BadgeOK, HarnessIn, HarnessRegistered
<1> HIDE DEF f
<1>6. SweepOK(r, version, badges, registry)
  BY <1>2, <1>4, <1>5 DEF SweepOK, Working
<1> HIDE DEF r
<1> QED BY <1>1, <1>6, SweepReads

LEMMA AskMetricsStep ==
  ASSUME Inv, NEW g \in Replicas, AskMetrics(g)
  PROVE  Inv'
<1> DEFINE s == sweep[g]
           f == [s.facts EXCEPT !.metrics = MetricsListed(s.doing)]
           r == [affected |-> s.affected, doing |-> s.doing, current |-> s.current,
                 facts |-> f, at |-> "write"]
<1>1. /\ s # None /\ s.at = "metrics" /\ lock' = g
      /\ (\A o \in Replicas \ {g} : sweep[o] = None)
      /\ SweepOK(s, version, badges, registry)
      /\ sweep' = [sweep EXCEPT ![g] = r]
      /\ UNCHANGED <<registry, version, badges, posting>>
  BY Alone DEF AskMetrics, At, Goes, Sets, SweepUnchanged
<1>2. /\ s.doing \in Versions /\ version[s.doing] # "absent" /\ s.affected \subseteq Versions
      /\ s.current = badges[s.doing] /\ FactsOK(s.facts, s.doing, registry)
      /\ "harness_registered" \in s.current => s.facts.harness
  BY <1>1 DEF SweepOK, Working
<1>3. f = [refs |-> s.facts.refs, harness |-> s.facts.harness,
           metrics |-> MetricsListed(s.doing)]
  BY <1>2 DEF FactsOK
<1>4. f.harness = s.facts.harness /\ f.metrics = MetricsListed(s.doing)
  BY <1>3
<1>5. FactsOK(f, s.doing, registry)
  BY <1>2, <1>3, ListedSome DEF FactsOK
<1>6. Small /\ "metric_registered" \in s.current => f.metrics
  <2>1. BadgeOK(badges[s.doing], s.doing, registry)
    BY <1>2 DEF Inv, BadgeInv
  <2> QED BY <1>2, <1>4, <2>1, ListedAll DEF BadgeOK
<1> HIDE DEF f
<1>7. SweepOK(r, version, badges, registry)
  BY <1>2, <1>4, <1>5, <1>6 DEF SweepOK, Working
<1> HIDE DEF r
<1> QED BY <1>1, <1>7, SweepReads

(* The write: the badges are those the sweep read, so nothing written
   meanwhile is lost, and the new ones are true of the registry. *)
LEMMA WriteFacts ==
  ASSUME Inv, NEW g \in Replicas, Write(g)
  PROVE  LET v == sweep[g].doing IN
         /\ v \in Versions /\ version[v] # "absent" /\ sweep[g].affected \subseteq Versions
         /\ badges'[v] = Compute(v, sweep[g].facts) /\ FactsOK(sweep[g].facts, v, registry)
         /\ DOMAIN badges' = Versions /\ \A w \in Versions \ {v} : badges'[w] = badges[w]
         /\ "harness_registered" \in badges[v] => sweep[g].facts.harness
         /\ Small /\ "metric_registered" \in badges[v] => sweep[g].facts.metrics
         /\ lock' = g /\ \A o \in Replicas \ {g} : sweep[o] = None
<1> DEFINE s == sweep[g]
           v == s.doing
<1>1. /\ s # None /\ s.at = "write" /\ lock' = lock
      /\ badges' = IF Compute(v, s.facts) = s.current THEN badges
                   ELSE [badges EXCEPT ![v] = Compute(v, s.facts)]
  BY DEF Write, At
<1>2. /\ lock = g /\ SweepOK(s, version, badges, registry)
      /\ \A o \in Replicas \ {g} : sweep[o] = None
  BY <1>1, Alone
<1>3. /\ v \in Versions /\ version[v] # "absent" /\ s.affected \subseteq Versions
      /\ s.current = badges[v] /\ FactsOK(s.facts, v, registry)
      /\ "harness_registered" \in s.current => s.facts.harness
      /\ Small /\ "metric_registered" \in s.current => s.facts.metrics
  BY <1>1, <1>2 DEF SweepOK, Working
<1>4. /\ badges'[v] = Compute(v, s.facts) /\ DOMAIN badges' = Versions
      /\ \A w \in Versions \ {v} : badges'[w] = badges[w]
  BY <1>1, <1>3 DEF Inv, Shapes
<1> QED BY <1>1, <1>2, <1>3, <1>4

LEMMA WriteStep ==
  ASSUME Inv, NEW g \in Replicas, Write(g)
  PROVE  Inv'
<1> DEFINE v == sweep[g].doing
           r == [affected |-> sweep[g].affected, doing |-> None, current |-> {},
                 facts |-> NoFacts(FALSE), at |-> "next"]
<1>1. /\ v \in Versions /\ sweep[g].affected \subseteq Versions
      /\ badges'[v] = Compute(v, sweep[g].facts) /\ FactsOK(sweep[g].facts, v, registry)
      /\ DOMAIN badges' = Versions /\ (\A w \in Versions \ {v} : badges'[w] = badges[w])
      /\ lock' = g /\ \A o \in Replicas \ {g} : sweep[o] = None
  BY WriteFacts
<1>2. sweep' = [sweep EXCEPT ![g] = r] /\ UNCHANGED <<registry, version, posting>>
  BY DEF Write, Goes, Sets, SweepUnchanged
<1>3. SweepOK(r, version', badges', registry')
  BY <1>1 DEF SweepOK, Working
<1> HIDE DEF r
<1>4. /\ DOMAIN sweep' = Replicas /\ sweep'[g] = r
      /\ \A o \in Replicas \ {g} : sweep'[o] = None
  BY <1>1, <1>2 DEF Inv, Shapes
<1>5. Shapes' /\ PostInv'
  BY <1>1, <1>2, <1>4 DEF Inv, Shapes, PostInv
<1>6. BadgeInv'
  BY <1>1, <1>2, ComputeOK DEF Inv, BadgeInv
<1>7. SweepInv'
  BY <1>1, <1>3, <1>4 DEF SweepInv
<1> QED BY <1>5, <1>6, <1>7 DEF Inv

LEMMA EndStep ==
  ASSUME Inv, NEW g \in Replicas, Finish(g) \/ Fails(g)
  PROVE  Inv'
<1>1. /\ sweep[g] # None /\ sweep' = [sweep EXCEPT ![g] = None]
      /\ UNCHANGED <<registry, version, badges, posting>>
  BY DEF Finish, Fails, At, Ends, Sets, SweepUnchanged
<1>2. DOMAIN sweep' = Replicas /\ \A o \in Replicas : sweep'[o] = None
  BY <1>1, Alone DEF Inv, Shapes
<1> QED BY <1>1, <1>2 DEF Inv, Shapes, BadgeInv, PostInv, SweepInv

-----------------------------------------------------------------------------
LEMMA NextInv == Inv /\ [Next]_vars => Inv'
<1> SUFFICES ASSUME Inv, [Next]_vars PROVE Inv'
  OBVIOUS
<1>1. ASSUME NEW x \in MetricEntries \cup HarnessEntries, Put(x) PROVE Inv'
  BY <1>1, PutStep
<1>2. ASSUME NEW v \in Versions, PostBegin(v) PROVE Inv'
  BY <1>2, PostBeginStep
<1>3. ASSUME NEW v \in Versions, PostHarness(v) PROVE Inv'
  BY <1>3, PostHarnessStep
<1>4. ASSUME NEW v \in Versions, PostMetrics(v) PROVE Inv'
  BY <1>4, PostMetricsStep
<1>5. ASSUME NEW v \in Versions, PostCommit(v) PROVE Inv'
  BY <1>5, PostCommitStep
<1>6. ASSUME NEW v \in Versions, PostAbort(v) PROVE Inv'
  <2>1. version[v] = "absent"
    BY <1>6 DEF PostAbort, Inv, PostInv
  <2> QED BY <1>6, <2>1, PostAsks DEF PostAbort
<1>7. ASSUME NEW v \in Versions, Tombstone(v) PROVE Inv'
  BY <1>7, TombstoneStep
<1>8. ASSUME NEW g \in Replicas, SweepStep(g) \/ Fails(g) PROVE Inv'
  BY <1>8, BeginStep, GatherStep, TakeStep, AskHarnessStep, AskMetricsStep, WriteStep, EndStep
  DEF SweepStep
<1>9. CASE UNCHANGED vars
  BY <1>9 DEF vars, Inv, Shapes, BadgeInv, PostInv, SweepInv
<1> QED BY <1>1, <1>2, <1>3, <1>4, <1>5, <1>6, <1>7, <1>8, <1>9 DEF Next

(* Together: the invariant, for any instance. *)
THEOREM Inductive == Spec => []Inv
  BY InitInv, NextInv, PTL DEF Spec

(* A badge claims only what the hub checked (badge.rs compute), whatever is
   posted, registered and swept at once. *)
THEOREM BadgesHonest == Spec => []BadgesTrue
<1>1. Inv => BadgesTrue
  BY DEF Inv, BadgeInv, BadgeOK, BadgesTrue, HarnessIn, MetricsIn,
         HarnessRegistered, AllMetricsRegistered, Registered
<1> QED BY <1>1, Inductive, PTL

(* No badge is taken away while the metrics entries fit into one listing of
   jobs.rs metrics_registered; past it the sweep does take badges away. *)
THEOREM BadgesStay ==
  ASSUME Cardinality(MetricEntries) <= ListMax
  PROVE  Spec => BadgesKept
<1> DEFINE Kept == \A v \in Versions : version[v] # "absent" => badges[v] \subseteq badges'[v]
<1>1. Inv /\ [Next]_vars => [Kept]_vars
  <2> SUFFICES ASSUME Inv, Next, NEW v \in Versions, version[v] # "absent"
               PROVE  badges[v] \subseteq badges'[v]
    OBVIOUS
  <2>1. ASSUME NEW w \in Versions, PostCommit(w) PROVE badges[v] \subseteq badges'[v]
    <3>1. version[w] = "absent"
      BY <2>1 DEF PostCommit, Inv, PostInv
    <3> QED BY <2>1, <3>1 DEF PostCommit, Inv, Shapes
  <2>2. ASSUME NEW g \in Replicas, Write(g) PROVE badges[v] \subseteq badges'[v]
    <3> DEFINE f == sweep[g].facts
    <3>1. CASE v = sweep[g].doing
      <4>1. /\ badges'[v] = Compute(v, f) /\ FactsOK(f, v, registry)
            /\ "harness_registered" \in badges[v] => f.harness
            /\ Small /\ "metric_registered" \in badges[v] => f.metrics
        BY <2>2, <3>1, WriteFacts
      <4>2. BadgeOK(badges[v], v, registry)
        BY DEF Inv, BadgeInv
      <4>3. Refs[v] \in BOOLEAN /\ Small
        BY BadgesAssumption DEF Small
      <4> QED BY <4>1, <4>2, <4>3 DEF BadgeOK, FactsOK, Compute
    <3>2. CASE v # sweep[g].doing
      BY <2>2, <3>2, WriteFacts
    <3> QED BY <3>1, <3>2
  <2>3. ASSUME NEW w \in Versions, PostBegin(w) \/ PostHarness(w) \/ PostMetrics(w)
                 \/ PostAbort(w) \/ Tombstone(w)
        PROVE  UNCHANGED badges
    BY <2>3 DEF PostBegin, PostHarness, PostMetrics, PostAbort, Tombstone
  <2>4. ASSUME NEW g \in Replicas,
               Begin(g) \/ Gather(g) \/ Take(g) \/ AskHarness(g) \/ AskMetrics(g)
                 \/ Finish(g) \/ Fails(g)
        PROVE  UNCHANGED badges
    BY <2>4 DEF Begin, Gather, Take, AskHarness, AskMetrics, Finish, Fails
  <2>5. ASSUME NEW x \in MetricEntries \cup HarnessEntries, Put(x) PROVE UNCHANGED badges
    BY <2>5 DEF Put
  <2> QED BY <2>1, <2>2, <2>3, <2>4, <2>5 DEF Next, SweepStep
<1> QED BY <1>1, Inductive, PTL DEF Spec, BadgesKept

================================================================================
