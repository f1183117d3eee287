------------------------ MODULE DataMigrationsProofs ------------------------
(***************************************************************************)
(* Proofs about DataMigrations, for any Evals, versions, databases and     *)
(* number of migrate processes and servers: the commands implement the one *)
(* step of RunsSplit, a refusal is owed and complete, and no server is up  *)
(* on a database that still holds 1.0 bodies.  The inductive invariant     *)
(* says what a data step under way has written: Half(db, k), the database  *)
(* with the Evals before the k-th converted, stated value by value.  That  *)
(* each turn takes it to Half(db, k + 1) needs that the map the code fills *)
(* version after version is the newest run of each id; that is proved by   *)
(* its least counterexample, for any number of versions.                   *)
(***************************************************************************)
EXTENDS DataMigrations, WellFoundedInduction, TLAPS

Last == Len(EvalOrder) + 1

(* A non-empty set of numbers has a least one. *)
LEMMA LeastNatural ==
  ASSUME NEW T \in SUBSET Nat, T # {}
  PROVE  \E x \in T : \A y \in T : x <= y
<1>1. PICK x \in T : \A y \in T : <<y, x>> \notin OpToRel(<, Nat)
  <2>1. \E x \in T : \A y \in T : ~ (<<y, x>> \in OpToRel(<, Nat))
    BY WFMin, NatLessThanWellFounded, Zenon
  <2> QED BY <2>1, Zenon
<1>2. ASSUME NEW y \in T PROVE x <= y
  <2>1. ASSUME y < x PROVE <<y, x>> \in OpToRel(<, Nat)
    <3>1. y \in Nat /\ x \in Nat OBVIOUS
    <3> QED BY <2>1, <3>1, Zenon DEF OpToRel
  <2>2. ~ (y < x) BY <1>1, <2>1, Zenon
  <2> QED BY <2>2
<1> QED BY <1>2

(* Latest of RunsSplit is the greatest of the seqs it is given. *)
LEMMA LatestIsGreatest ==
  ASSUME NEW S \in SUBSET Seqs, S # {}
  PROVE  Split!Latest(S) \in S /\ \A t \in S : t <= Split!Latest(S)
<1>1. MaxSeq \in Nat BY MigrationsAssumption
<1>2. PICK x \in { MaxSeq - t : t \in S } : \A y \in { MaxSeq - t : t \in S } : x <= y
  <2>1. { MaxSeq - t : t \in S } \in SUBSET Nat
    BY <1>1 DEF Seqs
  <2>2. { MaxSeq - t : t \in S } # {}
    OBVIOUS
  <2> HIDE DEF Seqs
  <2> QED BY <2>1, <2>2, LeastNatural
<1>3. PICK s \in S : x = MaxSeq - s OBVIOUS
<1>4. \A t \in S : t <= s
  <2> SUFFICES ASSUME NEW t \in S PROVE t <= s OBVIOUS
  <2>1. x <= MaxSeq - t BY <1>2
  <2>2. t \in Nat /\ s \in Nat BY DEF Seqs
  <2> QED BY <1>1, <1>3, <2>1, <2>2
<1> QED BY <1>4 DEF Split!Latest

(* The newest run of each id among the versions S up to seq n. *)
Upto(d, e, S, n) ==
  [id \in RunIds |-> Split!Newest(d, e, { s \in S : s <= n }, id)]

(* One more version: its runs win over those of the versions before it. *)
LEMMA NewestStep ==
  ASSUME NEW d, NEW e \in Evals, NEW S \in SUBSET Seqs, NEW n \in Seqs,
         \A id \in RunIds : LET v == d.versions[e][n] IN
           [run |-> v.runs[id], header |-> v.header] # NoRun
  PROVE  Upto(d, e, S, n) =
           IF n \in S THEN Over(Upto(d, e, S, n - 1), RunHashes(d.versions[e][n]))
           ELSE Upto(d, e, S, n - 1)
<1> DEFINE v == d.versions[e][n]
           having(m, id) == { s \in { t \in S : t <= m } : d.versions[e][s].runs[id] # NoRun }
<1>1. n \in Nat /\ \A s \in S : s \in Nat /\ s \in Seqs
  <2>1. Seqs \subseteq Nat
    BY DEF Seqs
  <2> QED BY <2>1
<1>2. ASSUME NEW id \in RunIds
      PROVE  Split!Newest(d, e, { s \in S : s <= n }, id) =
               IF n \in S /\ v.runs[id] # NoRun THEN Split!RunHash(v, id)
               ELSE Split!Newest(d, e, { s \in S : s <= n - 1 }, id)
  <2>1. CASE n \in S /\ v.runs[id] # NoRun
    <3>1. n \in having(n, id) /\ having(n, id) \in SUBSET Seqs
      <4>1. n \in { t \in S : t <= n }
        BY <1>1, <2>1
      <4> QED BY <1>1, <2>1, <4>1
    <3>2. Split!Latest(having(n, id)) = n
      <4> HIDE DEF having
      <4>1. Split!Latest(having(n, id)) \in having(n, id) /\ n <= Split!Latest(having(n, id))
        BY <3>1, LatestIsGreatest
      <4>2. Split!Latest(having(n, id)) \in S /\ Split!Latest(having(n, id)) <= n
        <5> DEFINE x == Split!Latest(having(n, id))
        <5> HIDE DEF x
        <5>1. x \in having(n, id)
          BY <4>1 DEF x
        <5>2. x \in S /\ x <= n
          BY <5>1 DEF having
        <5> QED BY <5>2 DEF x
      <4>3. Split!Latest(having(n, id)) \in Nat
        BY <1>1, <4>2
      <4> QED BY <1>1, <4>1, <4>2, <4>3
    <3> QED BY <2>1, <3>1, <3>2 DEF Split!Newest
  <2>2. CASE ~ (n \in S /\ v.runs[id] # NoRun)
    <3>1. having(n, id) = having(n - 1, id)
      <4>1. \A s \in S : s <= n <=> s <= n - 1 \/ s = n
        BY <1>1
      <4> QED BY <2>2, <4>1
    <3> QED BY <2>2, <3>1 DEF Split!Newest
  <2> QED BY <2>1, <2>2
<1>3. ASSUME NEW id \in RunIds
      PROVE  /\ RunHashes(v)[id] = Split!RunHash(v, id)
             /\ (RunHashes(v)[id] # NoRun) = (v.runs[id] # NoRun)
  BY DEF RunHashes, Split!RunHash
<1> HIDE DEF v
<1>4. CASE n \in S
  <2>1. ASSUME NEW id \in RunIds
        PROVE  Upto(d, e, S, n)[id] = Over(Upto(d, e, S, n - 1), RunHashes(v))[id]
    BY <1>2, <1>3, <1>4 DEF Upto, Over
  <2> QED BY <1>4, <2>1 DEF Upto, Over, v
<1>5. CASE n \notin S
  BY <1>2, <1>5 DEF Upto
<1> QED BY <1>4, <1>5

(* The map filled in seq order (v1.rs materialise, data_migrations.rs step 3)
   holds the newest run of each id. *)
LEMMA MergedIsNewest ==
  ASSUME NEW d, NEW e \in Evals, Unfilled(d), NEW S \in SUBSET Seqs
  PROVE  Merged(d.versions[e], S) = [id \in RunIds |-> Split!Newest(d, e, S, id)]
<1> DEFINE vs == d.versions[e]
           upto[n \in 0..MaxSeq] ==
             IF n = 0 THEN Nothing
             ELSE IF n \in S THEN Over(upto[n-1], RunHashes(vs[n]))
             ELSE upto[n-1]
           best == [n \in 0..MaxSeq |-> Upto(d, e, S, n)]
<1>0. Seqs = 1..MaxSeq /\ \A s \in S : s \in Nat /\ s >= 1 /\ s <= MaxSeq
  <2>1. \A s \in Seqs : s \in Nat /\ s >= 1 /\ s <= MaxSeq
    BY MigrationsAssumption DEF Seqs
  <2> QED BY <2>1 DEF Seqs
<1>1. Merged(d.versions[e], S) = upto[MaxSeq]
  BY DEF Merged
<1>2. Upto(d, e, S, 0) = Nothing
  <2>1. { s \in S : s <= 0 } = {}
    <3>1. \A s \in S : ~ (s <= 0)
      BY <1>0
    <3> QED BY <3>1
  <2> QED BY <2>1 DEF Upto, Split!Newest, Nothing, Split!Nothing
<1>3. \A n \in 1..MaxSeq :
        Upto(d, e, S, n) = IF n \in S THEN Over(Upto(d, e, S, n - 1), RunHashes(vs[n]))
                           ELSE Upto(d, e, S, n - 1)
  <2>1. \A n \in Seqs, id \in RunIds :
          [run |-> vs[n].runs[id], header |-> vs[n].header] # NoRun
    BY DEF Unfilled
  <2> QED BY <1>0, <2>1, NewestStep
<1>4. best = [n \in 0..MaxSeq |-> IF n = 0 THEN Nothing
                ELSE IF n \in S THEN Over(best[n-1], RunHashes(vs[n]))
                ELSE best[n-1]]
  <2>1. ASSUME NEW n \in 0..MaxSeq
        PROVE  best[n] = IF n = 0 THEN Nothing
                         ELSE IF n \in S THEN Over(best[n-1], RunHashes(vs[n]))
                         ELSE best[n-1]
    <3>1. CASE n = 0
      BY <1>2, <3>1
    <3>2. CASE n # 0
      <4>1. n \in 1..MaxSeq /\ n - 1 \in 0..MaxSeq
        BY <3>2, MigrationsAssumption
      <4>2. best[n - 1] = Upto(d, e, S, n - 1) /\ best[n] = Upto(d, e, S, n)
        BY <4>1
      <4> HIDE DEF best
      <4> QED BY <1>3, <3>2, <4>1, <4>2
    <3> QED BY <3>1, <3>2
  <2> QED BY <2>1
<1> HIDE DEF best
<1>5. upto = [n \in 0..MaxSeq |-> IF n = 0 THEN Nothing
                ELSE IF n \in S THEN Over(upto[n-1], RunHashes(vs[n]))
                ELSE upto[n-1]]
  BY <1>4, Zenon
<1> HIDE DEF upto
<1>6. \A n \in 0..MaxSeq : upto[n] = best[n]
  <2> DEFINE wrong == { n \in 0..MaxSeq : upto[n] # best[n] }
  <2> SUFFICES ASSUME wrong # {} PROVE FALSE
    OBVIOUS
  <2>1. PICK n \in wrong : \A m \in wrong : n <= m
    <3>1. wrong \in SUBSET Nat
      OBVIOUS
    <3> HIDE DEF wrong
    <3> QED BY <3>1, LeastNatural
  <2>2. n \in 0..MaxSeq /\ upto[n] # best[n]
    OBVIOUS
  <2>3. CASE n = 0
    <3>1. upto[0] = Nothing /\ best[0] = Nothing
      BY <1>4, <1>5, MigrationsAssumption
    <3> QED BY <2>2, <2>3, <3>1
  <2>4. CASE n # 0
    <3>1. n - 1 \in 0..MaxSeq /\ n - 1 < n
      BY <2>2, <2>4, MigrationsAssumption
    <3>2. upto[n - 1] = best[n - 1]
      BY <2>1, <3>1
    <3>3. /\ upto[n] = IF n \in S THEN Over(upto[n-1], RunHashes(vs[n])) ELSE upto[n-1]
          /\ best[n] = IF n \in S THEN Over(best[n-1], RunHashes(vs[n])) ELSE best[n-1]
      BY <1>4, <1>5, <2>2, <2>4
    <3> QED BY <2>2, <3>2, <3>3
  <2> QED BY <2>3, <2>4
<1>7. upto[MaxSeq] = Upto(d, e, S, MaxSeq)
  BY <1>6, MigrationsAssumption DEF best
<1>8. { s \in S : s <= MaxSeq } = S
  BY <1>0
<1> QED BY <1>1, <1>7, <1>8 DEF Upto

-----------------------------------------------------------------------------
(* The database d with the Evals before the k-th converted, and what each part
   of it holds for an Eval that had its turn. *)
Turned(d, k) ==
  { e \in Evals : Split!Sources(d, e) # {} /\ \E i \in 1..(k - 1) : EvalOrder[i] = e }

RowsOf(d, e) == [id \in RunIds |-> Split!Newest(d, e, Split!Sources(d, e), id)]
UsedOf(d, c, e) == [id \in RunIds |-> Split!JudgedRun(d, c, e, id)]

HalfVersions(d, k) ==
  [e \in Evals |-> [s \in Seqs |->
     IF e \in Turned(d, k) /\ s \in Split!Sources(d, e)
     THEN Split!Header(d.versions[e][s]) ELSE d.versions[e][s]]]
HalfRuns(d, k) == [e \in Evals |-> IF e \in Turned(d, k) THEN RowsOf(d, e) ELSE Nothing]
HalfUsed(d, k) ==
  [c \in Cards |-> [e \in Evals |-> IF e \in Turned(d, k) THEN UsedOf(d, c, e) ELSE Nothing]]
HalfRewritten(d, k) ==
  { [eval |-> x[1], seq |-> x[2], old |-> d.versions[x[1]][x[2]].hash,
     new |-> Split!Header(d.versions[x[1]][x[2]]).hash] :
      x \in { y \in Evals \X Seqs : y[1] \in Turned(d, k) /\ y[2] \in Split!Sources(d, y[1]) } }
HalfUnmatched(d, k) ==
  { x \in Cards \X Evals \X RunIds :
      /\ x[2] \in Turned(d, k) /\ x[3] \in Split!Named(d, x[1], x[2])
      /\ Split!JudgedRun(d, x[1], x[2], x[3]) = NoRun }
Half(d, k) ==
  [versions |-> HalfVersions(d, k), edges |-> d.edges,
   runs |-> HalfRuns(d, k), digest |-> HalfRuns(d, k), used |-> HalfUsed(d, k),
   rewritten |-> HalfRewritten(d, k), unmatched |-> HalfUnmatched(d, k)]

(* What the step reads of an Eval is what RunsSplit says of it. *)
LEMMA SourcesAgree ==
  ASSUME NEW d, NEW e \in Evals
  PROVE  Sources(d.versions[e]) = Split!Sources(d, e) /\ Split!Sources(d, e) \in SUBSET Seqs
  BY DEF Sources, Split!Sources, Split!Seqs, Seqs

LEMMA WinnersAreRows ==
  ASSUME NEW d, NEW e \in Evals, Unfilled(d)
  PROVE  Winners(d.versions[e]) = RowsOf(d, e)
<1>1. Merged(d.versions[e], Split!Sources(d, e)) =
        [id \in RunIds |-> Split!Newest(d, e, Split!Sources(d, e), id)]
  BY SourcesAgree, MergedIsNewest
<1> QED BY <1>1, SourcesAgree DEF Winners, RowsOf

(* Step 5 gives a Card the runs it judged, and misses the ids nobody has. *)
LEMMA CardRunsAreJudged ==
  ASSUME NEW d, NEW e \in Evals, NEW c \in Cards, Tables(d), Unfilled(d)
  PROVE  /\ CardRuns(d, c, e).used = UsedOf(d, c, e)
         /\ \A id \in RunIds :
              id \in CardRuns(d, c, e).unmatched <=>
                id \in Split!Named(d, c, e) /\ Split!JudgedRun(d, c, e, id) = NoRun
<1> DEFINE vs == d.versions[e]
           edges == LiveEdges(d, c, e)
           pointed == Merged(vs, { x.seq : x \in edges } \cap Sources(vs))
           explicit == { x \in edges : x.named }
           named == UNION { x.ids : x \in explicit }
           found == Over(Winners(vs), pointed)
<1>1. edges = Split!Edges(d, c, e)
  BY DEF Tables, LiveEdges, Split!Edges, Split!Live, Split!Seqs, Seqs
<1>2. /\ { x.seq : x \in edges } \cap Sources(vs) = Split!Pointed(d, c, e)
      /\ Split!Pointed(d, c, e) \in SUBSET Seqs
  BY <1>1, SourcesAgree DEF Split!Pointed
<1>3. pointed = [id \in RunIds |-> Split!Newest(d, e, Split!Pointed(d, c, e), id)]
  BY <1>2, MergedIsNewest
<1>4. explicit = Split!Explicit(d, c, e) /\ named = Split!Named(d, c, e)
  BY <1>1 DEF Split!Explicit, Split!Named
<1>5. Winners(vs) = RowsOf(d, e)
  BY WinnersAreRows
<1>6. CardRuns(d, c, e) =
        IF explicit = {} THEN [used |-> pointed, unmatched |-> {}]
        ELSE [used |-> [id \in RunIds |-> IF id \in named THEN found[id] ELSE NoRun],
              unmatched |-> { id \in named : found[id] = NoRun }]
  BY DEF CardRuns
<1>7. \A id \in RunIds : found[id] =
        IF Split!Newest(d, e, Split!Pointed(d, c, e), id) # NoRun
        THEN Split!Newest(d, e, Split!Pointed(d, c, e), id)
        ELSE Split!Newest(d, e, Split!Sources(d, e), id)
  BY <1>3, <1>5 DEF Over, RowsOf
<1> HIDE DEF edges, pointed, explicit, named, found
<1>8. CASE explicit = {}
  <2>1. Split!Named(d, c, e) = {}
    BY <1>4, <1>8 DEF Split!Named
  <2> QED BY <1>3, <1>4, <1>6, <1>8, <2>1 DEF UsedOf, Split!JudgedRun
<1>9. CASE explicit # {}
  <2>1. \A id \in RunIds : Split!JudgedRun(d, c, e, id) =
          IF id \in named THEN found[id] ELSE NoRun
    BY <1>4, <1>7, <1>9 DEF Split!JudgedRun
  <2> QED BY <1>4, <1>6, <1>9, <2>1 DEF UsedOf
<1> QED BY <1>8, <1>9

LEMMA Lengths == Len(EvalOrder) \in Nat
  BY MigrationsAssumption

LEMMA OnceOnly ==
  ASSUME NEW i \in 1..Len(EvalOrder)
  PROVE  /\ EvalOrder[i] \in Evals
         /\ \A j \in 1..Len(EvalOrder) : EvalOrder[j] = EvalOrder[i] => j = i
  BY MigrationsAssumption

(* The k-th Eval has its turn once, and then it is among those turned. *)
LEMMA TurnedSoFar ==
  ASSUME NEW d, NEW k \in 1..Len(EvalOrder)
  PROVE  /\ EvalOrder[k] \notin Turned(d, k)
         /\ Turned(d, k + 1) = Turned(d, k) \cup
              (IF Split!Sources(d, EvalOrder[k]) = {} THEN {} ELSE {EvalOrder[k]})
<1>1. \A i \in 1..(k - 1) : i \in 1..Len(EvalOrder) /\ i # k
  BY Lengths
<1>2. EvalOrder[k] \notin Turned(d, k)
  BY <1>1, OnceOnly DEF Turned
<1>3. \A i : i \in 1..((k + 1) - 1) <=> i \in 1..(k - 1) \/ i = k
  BY Lengths
<1>4. EvalOrder[k] \in Evals
  BY OnceOnly
<1> QED BY <1>2, <1>3, <1>4 DEF Turned

(* The Evals from the k-th on are as found. *)
LEMMA LaterUntouched ==
  ASSUME NEW d, Tables(d), NEW k \in 1..Last, NEW i \in k..Len(EvalOrder)
  PROVE  Half(d, k).versions[EvalOrder[i]] = d.versions[EvalOrder[i]]
<1>1. i \in 1..Len(EvalOrder) /\ \A j \in 1..(k - 1) : j \in 1..Len(EvalOrder) /\ j # i
  BY Lengths DEF Last
<1>2. EvalOrder[i] \in Evals /\ EvalOrder[i] \notin Turned(d, k)
  BY <1>1, OnceOnly DEF Turned
<1>3. Half(d, k).versions = HalfVersions(d, k)
  BY DEF Half
<1>4. HalfVersions(d, k)[EvalOrder[i]] = [n \in Seqs |-> d.versions[EvalOrder[i]][n]]
  BY <1>2 DEF HalfVersions
<1> QED BY <1>2, <1>3, <1>4 DEF Tables

(* A rewritten version is a header whose content_hash is its own. *)
LEMMA RewriteIsHeader ==
  ASSUME NEW v, v = [form |-> v.form, header |-> v.header, runs |-> v.runs,
                     bad |-> v.bad, hash |-> v.hash]
  PROVE  /\ Rewrite(v) = Split!Header(v)
         /\ Rewrite(v).form = "v2" /\ Rewrite(v).hash = Split!HashOf(Rewrite(v))
<1> DEFINE h == [v EXCEPT !.form = "v2", !.runs = Nothing]
           new == [h EXCEPT !.hash = Split!HashOf(h)]
           fields == {"form", "header", "runs", "bad", "hash"}
<1>1. v = [x \in fields |-> v[x]]
  OBVIOUS
<1>2. /\ h = [x \in fields |-> h[x]]
      /\ h.form = "v2" /\ h.header = v.header /\ h.runs = Nothing /\ h.bad = v.bad
  BY <1>1
<1>3. Split!Header(v) = new
  BY Zenon DEF Split!Header, Nothing, Split!Nothing
<1> HIDE DEF h
<1>4. /\ new = [x \in fields |-> new[x]] /\ new.hash = Split!HashOf(h)
      /\ new.form = "v2" /\ new.header = v.header /\ new.runs = Nothing /\ new.bad = v.bad
  BY <1>2
<1> HIDE DEF new
<1>5. Split!HashOf(h) = [form |-> "v2", header |-> v.header, runs |-> Nothing]
  BY <1>2 DEF Split!HashOf
<1>6. new = [form |-> "v2", header |-> v.header, runs |-> Nothing, bad |-> v.bad,
             hash |-> [form |-> "v2", header |-> v.header, runs |-> Nothing]]
  BY <1>4, <1>5
<1> QED BY <1>3, <1>6 DEF Rewrite, Split!HashOf

(* One Eval of the step takes the half-done database to the next: nothing in it
   has yet changed what the step reads of the Eval. *)
LEMMA HalfStep ==
  ASSUME NEW d, Tables(d), Unfilled(d), NEW k \in 1..Len(EvalOrder)
  PROVE  Half(d, k + 1) = IF Sources(d.versions[EvalOrder[k]]) = {} THEN Half(d, k)
                          ELSE SplitEval(Half(d, k), EvalOrder[k])
<1> DEFINE e == EvalOrder[k]
           h == Half(d, k)
           cards == [c \in Cards |-> CardRuns(h, c, e)]
           vs == h.versions[e]
<1>1. e \in Evals
  BY OnceOnly
<1>2. h.versions[e] = d.versions[e] /\ h.edges = d.edges
  <2>1. k \in 1..Last /\ k \in k..Len(EvalOrder)
    BY Lengths DEF Last
  <2> QED BY <2>1, LaterUntouched DEF Half
<1>3. CASE Sources(d.versions[e]) = {}
  <2>1. Turned(d, k + 1) = Turned(d, k)
    BY <1>1, <1>3, TurnedSoFar, SourcesAgree
  <2> QED BY <1>3, <2>1
          DEF Half, HalfVersions, HalfRuns, HalfUsed, HalfRewritten, HalfUnmatched
<1>4. CASE Sources(d.versions[e]) # {}
  <2>1. e \notin Turned(d, k) /\ Turned(d, k + 1) = Turned(d, k) \cup {e}
    BY <1>1, <1>4, TurnedSoFar, SourcesAgree
  <2>2. Sources(vs) = Split!Sources(d, e) /\ Split!Sources(d, e) \in SUBSET Seqs
    BY <1>1, <1>2, SourcesAgree
  <2>3. \A n \in Seqs : Rewrite(vs[n]) = Split!Header(d.versions[e][n])
    BY <1>1, <1>2, RewriteIsHeader DEF Tables
  <2>4. Winners(vs) = RowsOf(d, e)
    BY <1>1, <1>2, WinnersAreRows
  <2>5. ASSUME NEW c \in Cards PROVE cards[c] = CardRuns(d, c, e)
    BY <1>2 DEF CardRuns, LiveEdges
  <2>6. ASSUME NEW c \in Cards
        PROVE  /\ cards[c].used = UsedOf(d, c, e)
               /\ \A id \in RunIds : id \in cards[c].unmatched <=>
                    id \in Split!Named(d, c, e) /\ Split!JudgedRun(d, c, e, id) = NoRun
    BY <1>1, <2>5, CardRunsAreJudged
  <2>7. SplitEval(h, e) =
          [versions  |-> [h.versions EXCEPT ![e] =
                           [s \in Seqs |-> IF s \in Sources(vs) THEN Rewrite(vs[s]) ELSE vs[s]]],
           edges     |-> h.edges,
           runs      |-> [h.runs EXCEPT ![e] = Winners(vs)],
           digest    |-> [h.digest EXCEPT ![e] = Winners(vs)],
           used      |-> [c \in Cards |-> [h.used[c] EXCEPT ![e] = cards[c].used]],
           rewritten |-> h.rewritten \cup { [eval |-> e, seq |-> s, old |-> vs[s].hash,
                                             new |-> Rewrite(vs[s]).hash] : s \in Sources(vs) },
           unmatched |-> h.unmatched \cup
                         { x \in Cards \X {e} \X RunIds : x[3] \in cards[x[1]].unmatched }]
    BY Zenon DEF SplitEval
  <2> HIDE DEF cards
  <2>8. /\ h.versions = HalfVersions(d, k) /\ h.runs = HalfRuns(d, k)
        /\ h.digest = HalfRuns(d, k) /\ h.used = HalfUsed(d, k)
        /\ h.rewritten = HalfRewritten(d, k) /\ h.unmatched = HalfUnmatched(d, k)
    BY DEF Half
  <2> HIDE DEF h, vs
  <2>9. [HalfVersions(d, k) EXCEPT ![e] =
           [s \in Seqs |-> IF s \in Sources(vs) THEN Rewrite(vs[s]) ELSE vs[s]]]
          = HalfVersions(d, k + 1)
    <3> DEFINE new == [s \in Seqs |-> IF s \in Sources(vs) THEN Rewrite(vs[s]) ELSE vs[s]]
    <3>1. new = HalfVersions(d, k + 1)[e]
      <4>1. \A s \in Seqs : vs[s] = d.versions[e][s]
        BY <1>2 DEF vs
      <4> QED BY <1>1, <2>1, <2>2, <2>3, <4>1 DEF HalfVersions
    <3>2. \A f \in Evals : f # e => HalfVersions(d, k)[f] = HalfVersions(d, k + 1)[f]
      BY <2>1 DEF HalfVersions
    <3> HIDE DEF new
    <3>3. /\ HalfVersions(d, k) = [f \in Evals |-> HalfVersions(d, k)[f]]
          /\ HalfVersions(d, k + 1) = [f \in Evals |-> HalfVersions(d, k + 1)[f]]
      BY DEF HalfVersions
    <3> HIDE DEF e
    <3>4. [HalfVersions(d, k) EXCEPT ![e] = new] = HalfVersions(d, k + 1)
      BY <1>1, <3>1, <3>2, <3>3
    <3> QED BY <3>4 DEF new
  <2>10. [HalfRuns(d, k) EXCEPT ![e] = Winners(vs)] = HalfRuns(d, k + 1)
    BY <1>1, <2>1, <2>4 DEF HalfRuns
  <2>11. [c \in Cards |-> [HalfUsed(d, k)[c] EXCEPT ![e] = cards[c].used]] = HalfUsed(d, k + 1)
    <3>1. ASSUME NEW c \in Cards
          PROVE  [HalfUsed(d, k)[c] EXCEPT ![e] = cards[c].used] = HalfUsed(d, k + 1)[c]
      BY <1>1, <2>1, <2>6 DEF HalfUsed
    <3> QED BY <3>1 DEF HalfUsed
  <2>12. HalfRewritten(d, k) \cup { [eval |-> e, seq |-> s, old |-> vs[s].hash,
                                     new |-> Rewrite(vs[s]).hash] : s \in Sources(vs) }
           = HalfRewritten(d, k + 1)
    <3> DEFINE row(f, s) == [eval |-> f, seq |-> s, old |-> d.versions[f][s].hash,
                             new |-> Split!Header(d.versions[f][s]).hash]
    <3>1. { [eval |-> e, seq |-> s, old |-> vs[s].hash, new |-> Rewrite(vs[s]).hash] :
              s \in Sources(vs) } = { row(e, s) : s \in Split!Sources(d, e) }
      BY <1>2, <2>2, <2>3 DEF vs
    <3>2. \A j : HalfRewritten(d, j) =
            { row(x[1], x[2]) : x \in { y \in Evals \X Seqs :
                y[1] \in Turned(d, j) /\ y[2] \in Split!Sources(d, y[1]) } }
      BY DEF HalfRewritten
    <3> HIDE DEF row, e
    <3>3. \A j, r : r \in HalfRewritten(d, j) <=>
            \E f \in Turned(d, j) : \E s \in Split!Sources(d, f) : r = row(f, s)
      <4>1. \A j : \A f \in Turned(d, j) : f \in Evals /\ Split!Sources(d, f) \in SUBSET Seqs
        BY SourcesAgree DEF Turned
      <4> SUFFICES ASSUME NEW j, NEW r
                   PROVE  r \in HalfRewritten(d, j) <=>
                     \E f \in Turned(d, j) : \E s \in Split!Sources(d, f) : r = row(f, s)
        OBVIOUS
      <4>2. ASSUME r \in HalfRewritten(d, j)
            PROVE  \E f \in Turned(d, j) : \E s \in Split!Sources(d, f) : r = row(f, s)
        <5>1. PICK x \in { y \in Evals \X Seqs :
                y[1] \in Turned(d, j) /\ y[2] \in Split!Sources(d, y[1]) } : r = row(x[1], x[2])
          BY <3>2, <4>2
        <5> QED BY <5>1
      <4>3. ASSUME NEW f \in Turned(d, j), NEW s \in Split!Sources(d, f), r = row(f, s)
            PROVE  r \in HalfRewritten(d, j)
        <5> DEFINE x == <<f, s>>
        <5>1. x \in { y \in Evals \X Seqs :
                y[1] \in Turned(d, j) /\ y[2] \in Split!Sources(d, y[1]) }
          BY <4>1, <4>3
        <5>2. r = row(x[1], x[2])
          BY <4>3
        <5> HIDE DEF x
        <5> QED BY <3>2, <5>1, <5>2
      <4> QED BY <4>2, <4>3
    <3> QED BY <2>1, <3>1, <3>3
  <2>13. HalfUnmatched(d, k) \cup
           { x \in Cards \X {e} \X RunIds : x[3] \in cards[x[1]].unmatched }
           = HalfUnmatched(d, k + 1)
    BY <1>1, <2>1, <2>6 DEF HalfUnmatched
  <2>14. SplitEval(h, e) = Half(d, k + 1)
    BY <1>2, <2>7, <2>8, <2>9, <2>10, <2>11, <2>12, <2>13 DEF Half
  <2> QED BY <1>4, <2>14 DEF h
<1> QED BY <1>3, <1>4

(* Before the first Eval the half-done database is the one found. *)
LEMMA HalfStarts ==
  ASSUME NEW d, Tables(d), Unfilled(d)
  PROVE  Half(d, 1) = d
<1>1. Turned(d, 1) = {}
  BY DEF Turned
<1>2. HalfVersions(d, 1) = d.versions
  <2>1. \A e \in Evals : HalfVersions(d, 1)[e] = d.versions[e]
    BY <1>1 DEF HalfVersions, Tables
  <2>2. /\ HalfVersions(d, 1) = [e \in Evals |-> HalfVersions(d, 1)[e]]
        /\ d.versions = [e \in Evals |-> d.versions[e]]
    BY DEF HalfVersions, Tables
  <2> QED BY <2>1, <2>2
<1>3. HalfRuns(d, 1) = [e \in Evals |-> Nothing]
  BY <1>1 DEF HalfRuns
<1>4. HalfUsed(d, 1) = [c \in Cards |-> [e \in Evals |-> Nothing]]
  BY <1>1 DEF HalfUsed
<1>5. HalfRewritten(d, 1) = {} /\ HalfUnmatched(d, 1) = {}
  BY <1>1 DEF HalfRewritten, HalfUnmatched
<1>6. d = [versions |-> d.versions, edges |-> d.edges, runs |-> d.runs,
           digest |-> d.digest, used |-> d.used, rewritten |-> d.rewritten,
           unmatched |-> d.unmatched]
  BY DEF Tables
<1>7. /\ d.runs = HalfRuns(d, 1) /\ d.digest = HalfRuns(d, 1) /\ d.used = HalfUsed(d, 1)
      /\ d.rewritten = HalfRewritten(d, 1) /\ d.unmatched = HalfUnmatched(d, 1)
  BY <1>3, <1>4, <1>5 DEF Unfilled
<1> QED BY <1>2, <1>6, <1>7 DEF Half

LEMMA AllTurned ==
  ASSUME NEW d
  PROVE  Turned(d, Last) = { e \in Evals : Split!Sources(d, e) # {} }
<1>1. \A i : i \in 1..(Last - 1) <=> i \in 1..Len(EvalOrder)
  BY Lengths DEF Last
<1>2. \A e \in Evals : \E i \in 1..Len(EvalOrder) : EvalOrder[i] = e
  BY MigrationsAssumption
<1> QED BY <1>1, <1>2 DEF Turned

(* Only a 1.0 version has a run to give. *)
LEMMA NoSourceNoRun ==
  ASSUME NEW d, NEW e, NEW id
  PROVE  Split!Newest(d, e, {}, id) = NoRun
  BY DEF Split!Newest

(* After the last Eval it is the split of the one found. *)
LEMMA HalfEnds ==
  ASSUME NEW d, Tables(d)
  PROVE  Half(d, Last) = Split!Split(d)
<1> DEFINE split == { e \in Evals : Split!Sources(d, e) # {} }
           rows == [e \in Evals |->
                     [id \in RunIds |-> Split!Newest(d, e, Split!Sources(d, e), id)]]
           versions == [e \in Evals |-> [s \in Seqs |->
                        IF s \in Split!Sources(d, e) THEN Split!Header(d.versions[e][s])
                                                     ELSE d.versions[e][s]]]
           used == [c \in Cards |-> [e \in Evals |-> [id \in RunIds |->
                    IF e \in split THEN Split!JudgedRun(d, c, e, id) ELSE NoRun]]]
           rewritten == { [eval |-> x[1], seq |-> x[2],
                           old |-> d.versions[x[1]][x[2]].hash,
                           new |-> Split!Header(d.versions[x[1]][x[2]]).hash] :
                            x \in { y \in Evals \X Seqs : y[2] \in Split!Sources(d, y[1]) } }
           unmatched == { x \in Cards \X Evals \X RunIds :
                            /\ x[2] \in split
                            /\ x[3] \in Split!Named(d, x[1], x[2])
                            /\ Split!JudgedRun(d, x[1], x[2], x[3]) = NoRun }
           new == [d EXCEPT !.versions = versions, !.runs = rows, !.digest = rows,
                            !.used = used, !.rewritten = rewritten, !.unmatched = unmatched]
           fields == {"versions", "edges", "runs", "digest", "used", "rewritten", "unmatched"}
<1>1. Split!Split(d) = new
  BY DEF Split!Split, Split!Seqs, Seqs
<1>2. Turned(d, Last) = split
  BY AllTurned
<1>3. HalfVersions(d, Last) = versions
  BY <1>2 DEF HalfVersions
<1>4. HalfRuns(d, Last) = rows
  <2>1. ASSUME NEW e \in Evals, e \notin split PROVE rows[e] = Nothing
    BY <2>1, NoSourceNoRun DEF Nothing, Split!Nothing
  <2> QED BY <1>2, <2>1 DEF HalfRuns, RowsOf
<1>5. HalfUsed(d, Last) = used
  BY <1>2 DEF HalfUsed, UsedOf, Nothing, Split!Nothing
<1>6. HalfRewritten(d, Last) = rewritten
  BY <1>2 DEF HalfRewritten
<1>7. HalfUnmatched(d, Last) = unmatched
  BY <1>2 DEF HalfUnmatched
<1> HIDE DEF split, rows, versions, used, rewritten, unmatched
<1>8. d = [f \in fields |-> d[f]]
  BY DEF Tables
<1>9. /\ new = [f \in fields |-> new[f]] /\ new.edges = d.edges
      /\ new.versions = versions /\ new.runs = rows /\ new.digest = rows
      /\ new.used = used /\ new.rewritten = rewritten /\ new.unmatched = unmatched
  BY <1>8
<1> HIDE DEF new
<1>10. new = [versions |-> versions, edges |-> d.edges, runs |-> rows, digest |-> rows,
              used |-> used, rewritten |-> rewritten, unmatched |-> unmatched]
  BY <1>9
<1> QED BY <1>1, <1>3, <1>4, <1>5, <1>6, <1>7, <1>10 DEF Half

-----------------------------------------------------------------------------
(* What the Evals before the k-th are like. *)
Converted(d, k) ==
  \A i \in 1..(k - 1), n \in Seqs : d.versions[EvalOrder[i]][n].form # "v1"
Convertible(d, k) ==
  \A i \in 1..(k - 1) : BadVersions(d, EvalOrder[i]) = {} /\ TornWinners(d, EvalOrder[i]) = {}

(* So every Eval that had its turn is free of 1.0 bodies, and every hash is
   right. *)
LEMMA SplitConverts ==
  ASSUME NEW d, Tables(d), HashesRight(d)
  PROVE  Converted(Split!Split(d), Last) /\ HashesRight(Split!Split(d))
<1> DEFINE h == Half(d, Last)
<1>1. \A e \in Evals, n \in Seqs : h.versions[e][n] =
        IF n \in Split!Sources(d, e) THEN Split!Header(d.versions[e][n]) ELSE d.versions[e][n]
  BY AllTurned DEF Half, HalfVersions
<1>2. ASSUME NEW e \in Evals, NEW n \in Seqs
      PROVE  LET v == Split!Header(d.versions[e][n]) IN
             v.form = "v2" /\ v.hash = Split!HashOf(v)
  <2> DEFINE v == d.versions[e][n]
  <2>1. v = [form |-> v.form, header |-> v.header, runs |-> v.runs, bad |-> v.bad,
             hash |-> v.hash]
    BY DEF Tables
  <2> HIDE DEF v
  <2>2. Split!Header(v) = Rewrite(v) /\ Rewrite(v).form = "v2"
        /\ Rewrite(v).hash = Split!HashOf(Rewrite(v))
    BY <2>1, RewriteIsHeader
  <2> QED BY <2>2 DEF v
<1> HIDE DEF h
<1>3. HashesRight(h)
  BY <1>1, <1>2 DEF HashesRight
<1>4. \A e \in Evals, n \in Seqs : h.versions[e][n].form # "v1"
  BY <1>1, <1>2 DEF Split!Sources, Split!Seqs, Seqs
<1>5. Converted(h, Last)
  BY <1>4, OnceOnly, Lengths DEF Converted, Last
<1> QED BY <1>3, <1>5, HalfEnds DEF h

LEMMA ConvertibleIsNotRefused ==
  ASSUME NEW d, Unfilled(d)
  PROVE  Convertible(d, Last) <=> ~ Split!Refused(d)
<1>1. ASSUME NEW e \in Evals
      PROVE  /\ \A s : <<e, s>> \in Split!BadIds(d) <=> <<e, s>> \in BadVersions(d, e)
             /\ \A id : <<e, id>> \in Split!TornRows(d) <=> <<e, id>> \in TornWinners(d, e)
  <2>1. Sources(d.versions[e]) = Split!Sources(d, e) /\ Split!Sources(d, e) \in SUBSET Seqs
    BY SourcesAgree
  <2>2. Winners(d.versions[e]) = RowsOf(d, e)
    BY WinnersAreRows
  <2>3. \A s : <<e, s>> \in Split!BadIds(d) <=> <<e, s>> \in BadVersions(d, e)
    BY <2>1 DEF Split!BadIds, Split!Seqs, Seqs, BadVersions
  <2>4. \A id : <<e, id>> \in Split!TornRows(d) <=> <<e, id>> \in TornWinners(d, e)
    BY <2>2 DEF Split!TornRows, TornWinners, RowsOf
  <2> QED BY <2>3, <2>4
<1>2. Split!BadIds(d) \subseteq Evals \X Seqs /\ Split!TornRows(d) \subseteq Evals \X RunIds
  BY DEF Split!BadIds, Split!TornRows, Split!Seqs, Seqs
<1>3. ASSUME NEW e
      PROVE  /\ \A x \in BadVersions(d, e) : x = <<e, x[2]>>
             /\ \A x \in TornWinners(d, e) : x = <<e, x[2]>>
  BY DEF BadVersions, TornWinners
<1>4. (\A e \in Evals : BadVersions(d, e) = {} /\ TornWinners(d, e) = {}) <=> ~ Split!Refused(d)
  BY <1>1, <1>2, <1>3 DEF Split!Refused
<1>5. Convertible(d, Last) <=> \A e \in Evals : BadVersions(d, e) = {} /\ TornWinners(d, e) = {}
  <2>1. \A i : i \in 1..(Last - 1) <=> i \in 1..Len(EvalOrder)
    BY Lengths DEF Last
  <2>2. \A e \in Evals : \E i \in 1..Len(EvalOrder) : EvalOrder[i] = e
    BY MigrationsAssumption
  <2> QED BY <2>1, <2>2, OnceOnly DEF Convertible
<1> QED BY <1>4, <1>5

-----------------------------------------------------------------------------
Reported(d, problems, k) ==
  \A i \in 1..(k - 1) : BadVersions(d, EvalOrder[i]) \subseteq problems

(* What the transaction sees of the Evals from the k-th on. *)
Untouched(tx, d, k) ==
  \A i \in k..Len(EvalOrder) : tx.versions[EvalOrder[i]] = d.versions[EvalOrder[i]]

InStep(t) ==
  /\ t = [at |-> "step", next |-> t.next, tx |-> t.tx, problems |-> t.problems]
  /\ t.next \in 1..Last
  /\ Untouched(t.tx, db, t.next)
  /\ t.problems = {} => t.tx = Half(db, t.next) /\ Convertible(db, t.next)
  /\ t.problems # {} => ~ Convertible(db, Last)
  /\ Reported(db, t.problems, t.next)

DbInv ==
  /\ HashesRight(db)
  /\ ~ applied => Tables(db) /\ Unfilled(db)
  /\ applied => sql = SqlFiles /\ Converted(db, Last)
ServerInv ==
  \A s \in Servers : /\ server[s] = "checked" => sql = SqlFiles
                     /\ server[s] = "up" => applied
StepInv ==
  \A m \in Migrators :
    /\ mig[m].at \in {"pending", "step"} => sql = SqlFiles
    /\ mig[m].at = "step" => ~ applied /\ InStep(mig[m])
RefusedInv ==
  \A m \in Migrators : mig[m].at = "refused" =>
    ~ applied /\ ~ Convertible(db, Last) /\ Reported(db, mig[m].problems, Last)

Inv == TypeOK /\ DbInv /\ ServerInv /\ StepInv /\ RefusedInv

-----------------------------------------------------------------------------
LEMMA InitInv == Init => Inv
<1> SUFFICES ASSUME Init PROVE Inv OBVIOUS
<1>1. PICK start \in Databases : sql = start.sql /\ db = start.db
  BY DEF Init
<1>2. sql \in 0..SqlFiles /\ Tables(db) /\ HashesRight(db) /\ Unfilled(db)
  BY <1>1, DatabasesAssumption
<1> USE <1>2, MigrationsAssumption DEF Init, Away
<1>3. TypeOK BY DEF TypeOK
<1>4. DbInv BY DEF DbInv
<1>5. ServerInv BY DEF ServerInv
<1>6. StepInv BY DEF StepInv
<1>7. RefusedInv BY DEF RefusedInv
<1> QED BY <1>3, <1>4, <1>5, <1>6, <1>7 DEF Inv

-----------------------------------------------------------------------------
(* A step that changes neither the data nor its bookkeeping keeps what is said
   of them, and of every migrator it leaves where it is. *)
LEMMA SameData ==
  ASSUME Inv, UNCHANGED <<applied, db>>, sql' >= sql, sql' \in 0..SqlFiles
  PROVE  /\ DbInv'
         /\ \A m \in Migrators : mig'[m] = mig[m] =>
              /\ mig'[m].at \in {"pending", "step"} => sql' = SqlFiles
              /\ mig'[m].at = "step" => ~ applied' /\ InStep(mig[m])'
              /\ mig'[m].at = "refused" =>
                   ~ applied' /\ ~ Convertible(db, Last)' /\ Reported(db, mig[m].problems, Last)'
<1> USE MigrationsAssumption DEF Inv, TypeOK, DbInv, StepInv, RefusedInv
<1>1. sql = SqlFiles => sql' = SqlFiles
  OBVIOUS
<1>2. DbInv'
  BY <1>1 DEF Tables, HashesRight, Unfilled, Converted
<1>3. ASSUME NEW m \in Migrators, mig'[m] = mig[m]
      PROVE  /\ mig'[m].at \in {"pending", "step"} => sql' = SqlFiles
             /\ mig'[m].at = "step" => ~ applied' /\ InStep(mig[m])'
             /\ mig'[m].at = "refused" =>
                  ~ applied' /\ ~ Convertible(db, Last)' /\ Reported(db, mig[m].problems, Last)'
  <2>1. mig[m].at = "step" => InStep(mig[m])'
    BY <1>3 DEF InStep
  <2>2. mig[m].at = "refused" => ~ Convertible(db, Last)' /\ Reported(db, mig[m].problems, Last)'
    BY <1>3
  <2> QED BY <1>1, <1>3, <2>1, <2>2
<1> QED BY <1>2, <1>3

LEMMA ServersKept ==
  ASSUME Inv, UNCHANGED server, sql' >= sql, sql' \in 0..SqlFiles, applied => applied'
  PROVE  ServerInv'
  BY MigrationsAssumption DEF Inv, TypeOK, ServerInv

(* Taking sqlx's lock and applying the SQL files (pool.rs migrate). *)
LEMMA SqlSteps ==
  ASSUME Inv, NEW m \in Migrators, StartMigrate(m) \/ ApplySql(m) \/ SqlDone(m)
  PROVE  Inv'
<1>1. CASE StartMigrate(m)
  <2> USE <1>1, MigrationsAssumption DEF Inv, TypeOK, StartMigrate, Away
  <2>1. TypeOK' OBVIOUS
  <2>2. \A k \in Migrators : k # m => mig'[k] = mig[k] OBVIOUS
  <2>3. mig'[m].at = "sql" OBVIOUS
  <2>4. DbInv' /\ StepInv' /\ RefusedInv'
    BY <2>2, <2>3, SameData DEF StepInv, RefusedInv
  <2> QED BY <2>1, <2>4, ServersKept
<1>2. CASE ApplySql(m)
  <2> USE <1>2, MigrationsAssumption DEF Inv, TypeOK, ApplySql
  <2>1. TypeOK' OBVIOUS
  <2>2. DbInv' /\ StepInv' /\ RefusedInv'
    BY SameData DEF StepInv, RefusedInv
  <2> QED BY <2>1, <2>2, ServersKept
<1>3. CASE SqlDone(m)
  <2> USE <1>3, MigrationsAssumption DEF Inv, TypeOK, SqlDone
  <2>1. TypeOK' OBVIOUS
  <2>2. \A k \in Migrators : k # m => mig'[k] = mig[k] OBVIOUS
  <2>3. mig'[m].at = "pending" OBVIOUS
  <2>4. DbInv' /\ StepInv' /\ RefusedInv'
    BY <2>2, <2>3, SameData DEF StepInv, RefusedInv
  <2> QED BY <2>1, <2>4, ServersKept
<1> QED BY <1>1, <1>2, <1>3

(* run_pending inserts the bookkeeping row and starts from what is committed. *)
LEMMA ClaimStep ==
  ASSUME Inv, NEW m \in Migrators, Claim(m)
  PROVE  Inv'
<1> USE MigrationsAssumption DEF Inv, TypeOK, Claim
<1>1. TypeOK' OBVIOUS
<1>2. \A k \in Migrators : k # m => mig'[k] = mig[k] OBVIOUS
<1>3. sql' = SqlFiles
  BY DEF StepInv
<1>4. CASE applied
  <2>1. mig'[m].at = "done" BY <1>4
  <2>2. DbInv' /\ StepInv' /\ RefusedInv'
    BY <1>2, <2>1, SameData DEF StepInv, RefusedInv
  <2> QED BY <1>1, <2>2, ServersKept
<1>5. CASE ~ applied
  <2>1. mig'[m] = [at |-> "step", next |-> 1, tx |-> db, problems |-> {}]
    BY <1>5
  <2>2. InStep(mig[m])'
    <3>1. 1 \in 1..Last BY Lengths DEF Last
    <3>2. Untouched(db, db, 1)' BY DEF Untouched
    <3>3. Convertible(db, 1)' /\ Reported(db, {}, 1)'
      BY DEF Convertible, Reported
    <3>4. db' = db /\ (Half(db, 1) = db)'
      BY <1>5, HalfStarts DEF DbInv
    <3> QED BY <2>1, <3>1, <3>2, <3>3, <3>4 DEF InStep
  <2>3. UNCHANGED <<applied, db>> /\ sql' >= sql /\ sql' \in 0..SqlFiles
    BY <1>5
  <2>4. mig'[m].at = "step" /\ ~ applied'
    BY <2>1, <1>5
  <2>5. StepInv'
    BY <1>2, <1>3, <2>2, <2>3, <2>4, SameData DEF StepInv
  <2>6. RefusedInv'
    BY <1>2, <2>3, <2>4, SameData DEF RefusedInv
  <2>7. DbInv'
    BY <2>3, SameData
  <2> QED BY <1>1, <2>3, <2>5, <2>6, <2>7, ServersKept
<1> QED BY <1>4, <1>5

(* One Eval of the loop: with nothing wrong so far it is converted, with
   anything wrong the snapshot is left alone and the reading goes on. *)
LEMMA StepKeeps ==
  ASSUME NEW m \in Migrators, StepEval(m), InStep(mig[m]), DOMAIN mig = Migrators,
         Tables(db), Unfilled(db)
  PROVE  mig'[m].at = "step" /\ InStep(mig[m])'
<1> DEFINE t   == mig[m]
           e   == EvalOrder[t.next]
           ids == Problems(t.problems, t.tx, e)
           all == IF ids # {} THEN ids ELSE TornWinners(t.tx, e)
           tx  == IF all # {} \/ Sources(t.tx.versions[e]) = {} THEN t.tx
                  ELSE SplitEval(t.tx, e)
<1>1. /\ mig'[m] = [at |-> "step", next |-> t.next + 1, problems |-> all, tx |-> tx]
      /\ db' = db /\ t.next \in 1..Len(EvalOrder)
  BY MigrationsAssumption DEF StepEval, InStep, Last
<1>2. e \in Evals
  BY <1>1, MigrationsAssumption
<1>3. t.tx.versions[e] = db.versions[e]
  BY <1>1 DEF InStep, Untouched
<1>4. BadVersions(t.tx, e) = BadVersions(db, e) /\ TornWinners(t.tx, e) = TornWinners(db, e)
  BY <1>3 DEF BadVersions, TornWinners
<1>5. ids = t.problems \cup BadVersions(db, e)
  BY <1>4 DEF Problems
<1> HIDE DEF ids
<1>6. all = IF ids # {} THEN ids ELSE TornWinners(db, e)
  BY <1>4
<1> HIDE DEF all
<1>7. ASSUME all = {} PROVE tx = Half(db, t.next + 1)
  <2>1. t.problems = {} /\ t.tx = Half(db, t.next)
    BY <1>5, <1>6, <1>7 DEF InStep
  <2>2. tx = IF Sources(db.versions[e]) = {} THEN Half(db, t.next)
             ELSE SplitEval(Half(db, t.next), e)
    BY <1>3, <1>7, <2>1
  <2> HIDE DEF tx
  <2> QED BY <1>1, <2>2, HalfStep
<1>8. all # {} => tx = t.tx
  OBVIOUS
<1> HIDE DEF tx
<1>9. t.next + 1 \in 1..Last
  BY <1>1, Lengths DEF Last
<1>10. Untouched(tx, db, t.next + 1)
  <2>1. CASE all = {}
    BY <1>7, <1>9, <2>1, LaterUntouched DEF Untouched
  <2>2. CASE all # {}
    <3>1. \A i \in (t.next + 1)..Len(EvalOrder) : i \in t.next..Len(EvalOrder)
      BY <1>1, Lengths
    <3> QED BY <1>8, <2>2, <3>1 DEF InStep, Untouched
  <2> QED BY <2>1, <2>2
<1>11. Reported(db, all, t.next + 1)
  <2>1. \A i \in 1..(t.next - 1) : BadVersions(db, EvalOrder[i]) \subseteq ids
    BY <1>5 DEF InStep, Reported
  <2>2. \A i \in 1..t.next : BadVersions(db, EvalOrder[i]) \subseteq ids
    BY <1>1, <1>5, <2>1
  <2> QED BY <1>1, <1>6, <2>2 DEF Reported
<1>12. ASSUME all = {} PROVE tx = Half(db, t.next + 1) /\ Convertible(db, t.next + 1)
  <2>1. t.problems = {} /\ BadVersions(db, e) = {} /\ TornWinners(db, e) = {}
    BY <1>5, <1>6, <1>12
  <2>2. Convertible(db, t.next + 1)
    <3>1. (t.next + 1) - 1 = t.next
      BY <1>1, Lengths
    <3>2. SUFFICES ASSUME NEW i \in 1..t.next
                   PROVE  /\ BadVersions(db, EvalOrder[i]) = {}
                          /\ TornWinners(db, EvalOrder[i]) = {}
      BY <3>1 DEF Convertible
    <3>3. CASE i = t.next
      BY <2>1, <3>3
    <3>4. CASE i # t.next
      <4>1. i \in 1..(t.next - 1)
        BY <1>1, <3>4, Lengths
      <4>2. Convertible(db, t.next)
        BY <2>1 DEF InStep
      <4> QED BY <4>1, <4>2 DEF Convertible
    <3> QED BY <3>3, <3>4
  <2> QED BY <1>7, <1>12, <2>2
<1>13. ASSUME all # {} PROVE ~ Convertible(db, Last)
  <2>1. CASE t.problems # {}
    BY <2>1 DEF InStep
  <2>2. CASE BadVersions(db, e) # {} \/ TornWinners(db, e) # {}
    <3>1. t.next \in 1..(Last - 1)
      BY <1>1, Lengths DEF Last
    <3> QED BY <2>2, <3>1 DEF Convertible
  <2> QED BY <1>5, <1>6, <1>13, <2>1, <2>2
<1> QED
  BY <1>1, <1>9, <1>10, <1>11, <1>12, <1>13 DEF InStep

LEMMA StepEvalStep ==
  ASSUME Inv, NEW m \in Migrators, StepEval(m)
  PROVE  Inv'
<1>1. /\ mig'[m].at = "step" /\ InStep(mig[m])'
      /\ sql' = SqlFiles /\ ~ applied'
  BY StepKeeps DEF Inv, TypeOK, DbInv, StepInv, StepEval
<1>2. /\ DOMAIN mig' = Migrators /\ \A k \in Migrators : k # m => mig'[k] = mig[k]
      /\ UNCHANGED <<sql, sqlLock, claimed, applied, db, server, crashes>>
      /\ sql' >= sql /\ sql' \in 0..SqlFiles
  <2>1. UNCHANGED <<sql, sqlLock, claimed, applied, db, server, crashes>>
    BY DEF StepEval
  <2>2. PICK x : mig' = [mig EXCEPT ![m] = x]
    BY DEF StepEval
  <2>3. DOMAIN mig = Migrators /\ sql \in Nat /\ sql \in 0..SqlFiles
    BY MigrationsAssumption DEF Inv, TypeOK
  <2>4. DOMAIN mig' = Migrators /\ \A k \in Migrators : k # m => mig'[k] = mig[k]
    BY <2>2, <2>3
  <2> QED BY <2>1, <2>3, <2>4
<1>3. TypeOK'
  <2>1. mig[m].at = "step"
    BY DEF StepEval
  <2> QED BY <1>1, <1>2, <2>1 DEF Inv, TypeOK
<1>4. StepInv'
  BY <1>1, <1>2, SameData DEF StepInv
<1>5. RefusedInv'
  BY <1>1, <1>2, SameData DEF RefusedInv
<1>6. DbInv' /\ ServerInv'
  BY <1>2, SameData, ServersKept
<1> QED BY <1>3, <1>4, <1>5, <1>6 DEF Inv

(* A transaction that commits has had nothing wrong, and leaves the split. *)
LEMMA CommitsSplit ==
  ASSUME Inv, NEW m \in Migrators, Commit(m)
  PROVE  /\ mig[m].at = "step" /\ ~ applied /\ sql = SqlFiles /\ Convertible(db, Last)
         /\ ~ Split!Refused(db) /\ db' = Split!Split(db)
<1> DEFINE t == mig[m]
<1>1. /\ t.at = "step" /\ t.problems = {} /\ t.next > Len(EvalOrder)
      /\ InStep(t) /\ sql = SqlFiles /\ ~ applied /\ db' = t.tx
  BY DEF Inv, StepInv, Commit
<1>2. t.next = Last
  BY <1>1, Lengths DEF InStep, Last
<1>3. t.tx = Half(db, Last) /\ Convertible(db, Last)
  BY <1>1, <1>2 DEF InStep
<1>4. Tables(db) /\ Unfilled(db)
  BY <1>1 DEF Inv, DbInv
<1> QED BY <1>1, <1>3, <1>4, HalfEnds, ConvertibleIsNotRefused

(* The transaction commits: every Eval had its turn and nothing was wrong, so
   no other command can have refused. *)
LEMMA CommitStep ==
  ASSUME Inv, NEW m \in Migrators, Commit(m)
  PROVE  Inv'
<1> DEFINE t == mig[m]
<1>1. t.at = "step" /\ ~ applied /\ sql = SqlFiles
  BY CommitsSplit
<1>2. HashesRight(db)' /\ Converted(db, Last)' /\ Convertible(db, Last)
  <2>1. Converted(Split!Split(db), Last) /\ HashesRight(Split!Split(db))
    BY <1>1, SplitConverts DEF Inv, DbInv
  <2>2. Converted(db', Last) /\ HashesRight(db') /\ Convertible(db, Last)
    BY <2>1, CommitsSplit
  <2> QED BY <2>2 DEF Converted, HashesRight
<1>3. /\ mig'[m].at = "done" /\ \A k \in Migrators : k # m => mig'[k] = mig[k]
      /\ DOMAIN mig' = Migrators
  BY DEF Inv, TypeOK, Commit
<1>4. \A k \in Migrators : k # m => mig[k].at # "step"
  BY <1>1 DEF Inv, TypeOK
<1>5. TypeOK'
  BY <1>1, <1>3, <1>4, MigrationsAssumption DEF Inv, TypeOK, Commit
<1>6. DbInv'
  BY <1>1, <1>2 DEF DbInv, Commit
<1>7. ServerInv'
  BY DEF Inv, ServerInv, Commit
<1>8. StepInv'
  BY <1>1, <1>3, <1>4 DEF StepInv, Commit
<1>9. RefusedInv'
  BY <1>2, <1>3 DEF Inv, RefusedInv
<1> QED BY <1>5, <1>6, <1>7, <1>8, <1>9 DEF Inv

(* DataMigrationRefused: the command reports what it found. *)
LEMMA RefuseStep ==
  ASSUME Inv, NEW m \in Migrators, Refuse(m)
  PROVE  Inv'
<1> DEFINE t == mig[m]
<1>1. t.at = "step" /\ InStep(t) /\ t.next = Last /\ t.problems # {} /\ ~ applied
  BY Lengths DEF Inv, StepInv, Refuse, InStep, Last
<1>2. ~ Convertible(db, Last) /\ Reported(db, t.problems, Last)
  BY <1>1 DEF InStep
<1>3. /\ mig'[m] = [at |-> "refused", problems |-> t.problems]
      /\ \A k \in Migrators : k # m => mig'[k] = mig[k]
      /\ DOMAIN mig' = Migrators
      /\ UNCHANGED <<sql, sqlLock, applied, db, server, crashes>>
      /\ sql' >= sql /\ sql' \in 0..SqlFiles
  BY MigrationsAssumption DEF Inv, TypeOK, Refuse
<1>4. TypeOK'
  BY <1>1, <1>3, MigrationsAssumption DEF Inv, TypeOK, Refuse
<1>5. StepInv'
  BY <1>3, SameData DEF StepInv
<1>6. RefusedInv'
  BY <1>1, <1>2, <1>3, SameData DEF RefusedInv
<1>7. DbInv' /\ ServerInv'
  BY <1>3, SameData, ServersKept
<1> QED BY <1>4, <1>5, <1>6, <1>7 DEF Inv

(* A command is killed, or run again after it ended. *)
LEMMA AwayStep ==
  ASSUME Inv, NEW m \in Migrators, KillMigrate(m) \/ AgainMigrate(m)
  PROVE  Inv'
<1>1. /\ mig'[m].at = "away" /\ \A k \in Migrators : k # m => mig'[k] = mig[k]
      /\ DOMAIN mig' = Migrators
      /\ UNCHANGED <<sql, applied, db, server>>
      /\ sql' >= sql /\ sql' \in 0..SqlFiles
  BY MigrationsAssumption DEF Inv, TypeOK, KillMigrate, AgainMigrate, Away
<1>2. TypeOK'
  <2>1. CASE KillMigrate(m)
    BY <1>1, <2>1, MigrationsAssumption DEF Inv, TypeOK, KillMigrate, Dropped
  <2>2. CASE AgainMigrate(m)
    BY <1>1, <2>2, MigrationsAssumption DEF Inv, TypeOK, AgainMigrate
  <2> QED BY <2>1, <2>2
<1>3. StepInv'
  BY <1>1, SameData DEF StepInv
<1>4. RefusedInv'
  BY <1>1, SameData DEF RefusedInv
<1>5. DbInv' /\ ServerInv'
  BY <1>1, SameData, ServersKept
<1> QED BY <1>2, <1>3, <1>4, <1>5 DEF Inv

(* A server reads the two lists, and is stopped. *)
LEMMA ServerSteps ==
  ASSUME Inv, NEW s \in Servers, CheckSql(s) \/ CheckData(s) \/ StopServer(s)
  PROVE  Inv'
<1>1. /\ UNCHANGED <<sql, sqlLock, claimed, applied, db, mig, crashes>>
      /\ sql' >= sql /\ sql' \in 0..SqlFiles
  BY MigrationsAssumption DEF Inv, TypeOK, CheckSql, CheckData, StopServer
<1>2. TypeOK' /\ ServerInv'
  BY <1>1 DEF Inv, TypeOK, ServerInv, CheckSql, CheckData, StopServer, DataPending
<1>3. DbInv' /\ StepInv' /\ RefusedInv'
  BY <1>1, SameData DEF StepInv, RefusedInv
<1> QED BY <1>2, <1>3 DEF Inv

LEMMA Idle == ASSUME Inv, UNCHANGED vars PROVE Inv'
<1>1. /\ UNCHANGED <<sql, sqlLock, claimed, applied, db, mig, server, crashes>>
      /\ sql' >= sql /\ sql' \in 0..SqlFiles
  BY MigrationsAssumption DEF Inv, TypeOK, vars
<1>2. TypeOK' /\ ServerInv'
  BY <1>1 DEF Inv, TypeOK, ServerInv
<1>3. DbInv' /\ StepInv' /\ RefusedInv'
  BY <1>1, SameData DEF StepInv, RefusedInv
<1> QED BY <1>2, <1>3 DEF Inv

(* The inductive invariant: whatever is killed, started twice or refused. *)
THEOREM Inductive == Spec => []Inv
<1>1. Init => Inv
  BY InitInv
<1>2. Inv /\ [Next]_vars => Inv'
  <2> SUFFICES ASSUME Inv, [Next]_vars PROVE Inv' OBVIOUS
  <2>1. CASE UNCHANGED vars
    BY <2>1, Idle
  <2>2. CASE \E m \in Migrators : MigrateStep(m) \/ KillMigrate(m) \/ AgainMigrate(m)
    BY <2>2, SqlSteps, ClaimStep, StepEvalStep, CommitStep, RefuseStep, AwayStep
       DEF MigrateStep
  <2>3. CASE \E s \in Servers : CheckSql(s) \/ CheckData(s) \/ StopServer(s)
    BY <2>3, ServerSteps
  <2> QED BY <2>1, <2>2, <2>3 DEF Next
<1> QED BY <1>1, <1>2, PTL DEF Spec

(* No server is up on a database with a 1.0 body or a wrong content_hash, for
   any databases, Evals, commands and crashes (pool.rs pending_migrations,
   main.rs serve). *)
THEOREM ServersServeCurrent == Spec => []ServedCurrent
<1>1. Inv => ServedCurrent
  <2> SUFFICES ASSUME Inv, NEW s \in Servers, server[s] = "up"
               PROVE  /\ sql = SqlFiles /\ applied
                      /\ \A e \in Evals, n \in Seqs :
                           /\ db.versions[e][n].form # "v1"
                           /\ db.versions[e][n].form = "v2" =>
                                db.versions[e][n].hash = Split!HashOf(db.versions[e][n])
    BY DEF ServedCurrent
  <2>1. applied /\ sql = SqlFiles /\ Converted(db, Last) /\ HashesRight(db)
    BY DEF Inv, ServerInv, DbInv
  <2>2. ASSUME NEW e \in Evals, NEW n \in Seqs PROVE db.versions[e][n].form # "v1"
    <3>1. PICK i \in 1..Len(EvalOrder) : EvalOrder[i] = e
      BY MigrationsAssumption
    <3> QED BY <2>1, <3>1, Lengths DEF Converted, Last
  <2> QED BY <2>1, <2>2 DEF HashesRight
<1> QED BY <1>1, Inductive, PTL

(* A refused command was right to refuse, has reported every version with a
   bad run_id and has left the database as it was, whatever was killed or run
   twice before (data_migrations.rs: "every offender listed"). *)
THEOREM RefusalsReportAll == Spec => []RefusalNamesAll
<1>1. Inv => RefusalNamesAll
  <2> SUFFICES ASSUME Inv, NEW m \in Migrators, mig[m].at = "refused"
               PROVE  /\ ~ applied /\ Split!Refused(db)
                      /\ Split!BadIds(db) \subseteq mig[m].problems
    BY DEF RefusalNamesAll
  <2>1. ~ applied /\ ~ Convertible(db, Last) /\ Reported(db, mig[m].problems, Last)
    BY DEF Inv, RefusedInv
  <2>2. Split!Refused(db)
    BY <2>1, ConvertibleIsNotRefused DEF Inv, DbInv
  <2>3. ASSUME NEW x \in Split!BadIds(db) PROVE x \in mig[m].problems
    <3>1. PICK i \in 1..Len(EvalOrder) : EvalOrder[i] = x[1]
      BY MigrationsAssumption DEF Split!BadIds
    <3>2. x \in BadVersions(db, x[1])
      BY DEF Split!BadIds, Split!Sources, Split!Seqs, BadVersions, Sources, Seqs
    <3>3. BadVersions(db, EvalOrder[i]) \subseteq mig[m].problems
      BY <2>1, <3>1, Lengths DEF Reported, Last
    <3> QED BY <3>1, <3>2, <3>3
  <2> QED BY <2>1, <2>2, <2>3
<1> QED BY <1>1, Inductive, PTL

(* The commands implement the migration of RunsSplit: the database ever
   committed is the one found, or its split in one step that happens once and
   only when nothing stored must be refused (data_migrations.rs run_pending and
   runs_split, pool.rs migrate). *)
THEOREM CommandsImplementSplit == Spec => Implements
<1>1. Init => Split!Init
  BY DEF Init, Split!Init
<1>2. ASSUME Inv, [Next]_vars
      PROVE  [Split!Apply]_<<db, applied>>
  <2>1. ASSUME NEW m \in Migrators, Commit(m) PROVE Split!Apply
    BY <1>2, <2>1, CommitsSplit DEF Commit, Split!Apply
  <2>2. ASSUME UNCHANGED vars PROVE UNCHANGED <<db, applied>>
    BY <2>2 DEF vars
  <2>3. ASSUME NEW m \in Migrators,
               \/ StartMigrate(m) \/ ApplySql(m) \/ SqlDone(m) \/ Claim(m) \/ StepEval(m)
               \/ Refuse(m) \/ KillMigrate(m) \/ AgainMigrate(m)
        PROVE  UNCHANGED <<db, applied>>
    BY <2>3 DEF StartMigrate, ApplySql, SqlDone, Claim, StepEval, Refuse, KillMigrate,
                AgainMigrate
  <2>4. ASSUME NEW s \in Servers, CheckSql(s) \/ CheckData(s) \/ StopServer(s)
        PROVE  UNCHANGED <<db, applied>>
    BY <2>4 DEF CheckSql, CheckData, StopServer
  <2> QED BY <1>2, <2>1, <2>2, <2>3, <2>4 DEF Next, MigrateStep
<1> QED BY <1>1, <1>2, Inductive, PTL DEF Spec, Implements, Split!Spec
=============================================================================
