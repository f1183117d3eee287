------------------------------- MODULE HubProofs -------------------------------
(***************************************************************************)
(* Safety of Hub.tla for every set of records, writers, bodies and runs:    *)
(* first that its tables keep their types, then each invariant.             *)
(***************************************************************************)
EXTENDS Hub, WellFoundedInduction, TLAPS

-----------------------------------------------------------------------------
(* Greatest sequence numbers                                                *)

(* Every non-empty set of naturals has a least element.                     *)
LEMMA LeastNatural ==
  ASSUME NEW T \in SUBSET Nat, T # {}
  PROVE  \E x \in T : \A y \in T : x <= y
<1>1. PICK x \in T : \A y \in T : <<y, x>> \notin OpToRel(<, Nat)
  <2>1. \E x \in T : \A y \in T : ~ (<<y, x>> \in OpToRel(<, Nat))
    BY WFMin, NatLessThanWellFounded, Zenon
  <2> QED BY <2>1, Zenon
<1>2. \A a, b \in Nat : a < b => <<a, b>> \in OpToRel(<, Nat)
  <2>1. ASSUME NEW a \in Nat, NEW b \in Nat, a < b PROVE <<a, b>> \in OpToRel(<, Nat)
    BY <2>1, Zenon DEF OpToRel
  <2> QED BY <2>1
<1>3. \A y \in T : ~(y < x)
  BY <1>1, <1>2, Zenon
<1>4. \A y \in T : x <= y
  BY <1>3
<1> QED BY <1>4

(* Max of a non-empty set of sequence numbers is its greatest element.      *)
LEMMA GreatestSeq ==
  ASSUME NEW n \in Nat, NEW T \in SUBSET (0..n), T # {}
  PROVE  Max(T) \in T /\ \A y \in T : y <= Max(T)
<1> DEFINE D == {n - t : t \in T}
<1>1. D \in SUBSET Nat /\ D # {}
  <2>1. \A t \in T : t \in 0..n
    OBVIOUS
  <2>2. \A t \in T : n - t \in Nat
    BY <2>1
  <2>3. PICK t \in T : TRUE
    OBVIOUS
  <2>4. n - t \in D
    BY <2>3
  <2> QED BY <2>2, <2>4
<1>2. PICK d \in D : \A y \in D : d <= y
  <2> HIDE DEF D
  <2> QED BY <1>1, LeastNatural
<1>3. PICK x \in T : d = n - x
  BY <1>2
<1>4. \A y \in T : x >= y
  <2> TAKE y \in T
  <2>1. d <= n - y
    BY <1>2
  <2>2. x \in 0..n /\ y \in 0..n
    OBVIOUS
  <2> QED BY <1>3, <2>1, <2>2
<1>5. \E z \in T : \A y \in T : z >= y
  BY <1>4
<1>6. Max(T) \in T /\ \A y \in T : Max(T) >= y
  BY <1>5 DEF Max
<1> QED BY <1>6

-----------------------------------------------------------------------------
(* Types                                                                    *)

(* What used_set::fix reads are rows of card_eval_runs.                     *)
LEMMA FixUsedType ==
  ASSUME HubTypeOK, NEW card \in Records, NEW seq, NEW rels
  PROVE  FixUsed(card, seq, rels) \subseteq
           [card : Records, seq : {seq}, eval : Evals, run : RunIds, content_hash : Contents]
<1> SUFFICES ASSUME NEW e \in Evals, NEW i \in UsedRuns(rels, e)
             PROVE  i \in RunIds /\ runs[e][i].content_hash \in Contents
  BY DEF FixUsed, UsesEval
<1>1. i \in RunRows(e)
  BY DEF UsedRuns, LiveRuns
<1> QED BY <1>1, NoRowAssumption DEF HubTypeOK, RunRows, RunRow

(* The header runs are materialised from is a posted body.                  *)
LEMMA LatestBodyType ==
  ASSUME HubTypeOK, NEW r \in Records, Live(r) # {}
  PROVE  LatestBody(r) \in Bodies
<1>1. Live(r) \in SUBSET (0..MaxSeq)
  BY HubAssumption DEF Live, Stored, Seqs
<1>2. Max(Live(r)) \in Live(r)
  BY <1>1, GreatestSeq, HubAssumption
<1> QED BY <1>2 DEF HubTypeOK, LatestBody, Live, Stored, VersionRow

(* A caller's batch leaves rows of the table's type.                        *)
LEMMA AfterBatchType ==
  ASSUME HubTypeOK, NEW e \in Evals, NEW batch \in Batches,
         NEW prior, NEW header \in Bodies \cup {NoHeader}
  PROVE  AfterBatch(e, batch, prior, header) \in [RunIds -> RunRow \cup {NoRow}]
<1> SUFFICES ASSUME NEW i \in RunIds
             PROVE  AfterBatch(e, batch, prior, header)[i] \in RunRow \cup {NoRow}
  BY DEF AfterBatch
<1>1. runs[e][i] \in RunRow \cup {NoRow}
  BY DEF HubTypeOK
<1>2. CASE i \in DOMAIN batch
  <2>1. batch[i] \in RunBodies
    BY <1>2 DEF Batches
  <2>2. Materialise(batch[i], header) \in Contents
    BY <2>1 DEF Materialise, Contents
  <2>3. runs[e][i] # NoRow => runs[e][i].archived \in BOOLEAN /\ runs[e][i].tombstoned \in BOOLEAN
    BY <1>1 DEF RunRow
  <2> QED BY <1>1, <1>2, <2>2, <2>3 DEF AfterBatch, RunRow
<1> QED BY <1>1, <1>2 DEF AfterBatch

LEMMA InsertUsedType ==
  ASSUME HubTypeOK, NEW rows \in SUBSET UsedRow
  PROVE  InsertUsed(rows) \subseteq UsedRow
BY DEF InsertUsed, HubTypeOK

LEMMA DigestType ==
  ASSUME NEW row \in [RunIds -> RunRow \cup {NoRow}]
  PROVE  Digest(row) \subseteq RunIds \X Contents
BY NoRowAssumption DEF Digest, RunRow

LEMMA WriteVersionType ==
  ASSUME HubTypeOK, NEW r \in Records, NEW seq, NEW body \in BodiesFor(r),
         NEW label \in Labels \cup {NoLabel}, NEW resolved,
         NEW used \in SUBSET [card : Records, seq : {seq}, eval : Evals, run : RunIds,
                              content_hash : Contents],
         WriteVersion(r, seq, body, label, resolved, used)
  PROVE  HubTypeOK'
<1>1. seq \in Seqs /\ body \in Bodies /\ body.relations \subseteq Relations
      /\ body.run_results \subseteq Evals \X RunIds
  BY HubAssumption DEF WriteVersion, BodiesFor, Bodies, BodyShape
<1>2. versions' \in [Records -> [Seqs -> VersionRow \cup {NoRow}]]
  <2> DEFINE v == [content_hash |-> body, label |-> label, tombstoned |-> FALSE,
                   refs_resolved |-> AllResolved(body, resolved)]
  <2>1. AllResolved(body, resolved) \in BOOLEAN
    BY DEF AllResolved
  <2>2. v \in VersionRow
    BY <1>1, <2>1 DEF VersionRow
  <2>3. versions' = [versions EXCEPT ![r][seq] = v]
    BY DEF WriteVersion
  <2> HIDE DEF v
  <2> QED BY <1>1, <2>2, <2>3 DEF HubTypeOK
<1>3. relations' \subseteq EdgeRow
  <2>1. \A rel \in body.relations :
          [from |-> r, seq |-> seq, rel |-> rel, resolved |-> rel \in resolved] \in EdgeRow
    BY <1>1 DEF EdgeRow
  <2> QED BY <2>1 DEF WriteVersion, HubTypeOK
<1>4. card_eval_runs' \subseteq UsedRow
  <2>1. used \in SUBSET UsedRow
    BY <1>1 DEF UsedRow
  <2> QED BY <2>1, InsertUsedType DEF WriteVersion
<1>5. run_results' \subseteq JudgedRow
  BY <1>1 DEF WriteVersion, HubTypeOK, JudgedRow
<1> QED BY <1>2, <1>3, <1>4, <1>5 DEF WriteVersion, HubTypeOK

(* create_or_append, relations::add and the run writes keep the types, and  *)
(* so do the short writes.                                                  *)
LEMMA HubTypeStep == HubTypeOK /\ [HubNext]_hubVars => HubTypeOK'
<1> SUFFICES ASSUME HubTypeOK, [HubNext]_hubVars PROVE HubTypeOK'
  OBVIOUS
<1>1. ASSUME NEW w \in Writers, NEW r \in Records, NEW l \in Labels \cup {NoLabel},
             NEW b \in BodiesFor(r), NEW resolved \in SUBSET b.relations,
             Post(w, r, b, l, resolved)
      PROVE  HubTypeOK'
  <2> DEFINE used == IF r \in Cards THEN FixUsed(r, NextSeq(r), resolved) ELSE {}
  <2>1. WriteVersion(r, NextSeq(r), b, l, resolved, used)
    BY <1>1 DEF Post
  <2>2. used \in SUBSET [card : Records, seq : {NextSeq(r)}, eval : Evals, run : RunIds,
                         content_hash : Contents]
    BY FixUsedType
  <2> HIDE DEF used
  <2> QED BY <2>1, <2>2, WriteVersionType
<1>2. ASSUME NEW w \in Writers, NEW r \in Records, NEW s \in Seqs, NEW l \in Labels,
             SetLabel(w, r, s, l)
      PROVE  HubTypeOK'
  <2>1. \A q \in Stored(r) : versions[r][q] \in VersionRow
    BY DEF Stored, HubTypeOK
  <2>2. s \in Stored(r)
    BY <1>2 DEF SetLabel
  <2>3. versions' \in [Records -> [Seqs -> VersionRow \cup {NoRow}]]
    BY <1>2, <2>1, <2>2 DEF SetLabel, HubTypeOK, VersionRow
  <2> QED BY <1>2, <2>3 DEF SetLabel, HubTypeOK
<1>3. ASSUME NEW w \in Writers, NEW r \in Records, NEW v \in {"private", "public"},
             SetVisibility(w, r, v)
      PROVE  HubTypeOK'
  BY <1>3 DEF SetVisibility, HubTypeOK
<1>4. ASSUME NEW w \in Writers, NEW r \in Records, NEW s \in Seqs, Tombstone(w, r, s)
      PROVE  HubTypeOK'
  <2>1. s \in Live(r) /\ versions[r][s] \in VersionRow
    BY <1>4 DEF Tombstone, Live, Stored, HubTypeOK
  <2>2. versions' \in [Records -> [Seqs -> VersionRow \cup {NoRow}]]
    BY <1>4, <2>1 DEF Tombstone, HubTypeOK, VersionRow
  <2> QED BY <1>4, <2>2 DEF Tombstone, HubTypeOK
<1>5. ASSUME NEW w \in Writers, NEW e \in Evals, NEW i \in RunIds, NEW a \in BOOLEAN,
             SetArchived(w, e, i, a)
      PROVE  HubTypeOK'
  <2>1. runs[e][i] \in RunRow
    BY <1>5 DEF SetArchived, RunRows, HubTypeOK
  <2>2. runs' \in [Evals -> [RunIds -> RunRow \cup {NoRow}]]
    BY <1>5, <2>1 DEF SetArchived, HubTypeOK, RunRow
  <2> QED BY <1>5, <2>2 DEF SetArchived, HubTypeOK
<1>6. ASSUME NEW w \in Writers, NEW e \in Evals, NEW i \in RunIds, DeleteRun(w, e, i)
      PROVE  HubTypeOK'
  <2>1. runs[e][i] \in RunRow
    BY <1>6 DEF DeleteRun, RunRows, HubTypeOK
  <2>2. runs' \in [Evals -> [RunIds -> RunRow \cup {NoRow}]]
    BY <1>6, <2>1 DEF DeleteRun, HubTypeOK, RunRow
  <2> QED BY <1>6, <2>2 DEF DeleteRun, HubTypeOK
<1>7. ASSUME NEW w \in Writers, NEW e \in Evals, NEW batch \in Batches, PutRuns(w, e, batch)
      PROVE  HubTypeOK'
  <2>1. LatestBody(e) \in Bodies
    BY <1>7, LatestBodyType DEF PutRuns, Records
  <2>2. AfterBatch(e, batch, runs[e], LatestBody(e)) \in [RunIds -> RunRow \cup {NoRow}]
    BY <2>1, AfterBatchType
  <2>3. runs' \in [Evals -> [RunIds -> RunRow \cup {NoRow}]]
        /\ runs'[e] \in [RunIds -> RunRow \cup {NoRow}]
    BY <1>7, <2>2 DEF PutRuns, WriteRuns, HubTypeOK
  <2>4. Digest(runs'[e]) \subseteq RunIds \X Contents
    BY <2>3, DigestType
  <2>5. runs_hash' \in [Evals -> SUBSET (RunIds \X Contents)]
    BY <1>7, <2>4 DEF PutRuns, WriteRuns, HubTypeOK
  <2> QED BY <1>7, <2>3, <2>5 DEF PutRuns, WriteRuns, HubTypeOK
<1>8. ASSUME NEW w \in Writers, NEW r \in Records, NEW s \in Seqs, NEW rel \in NewEdges,
             NEW resolved \in BOOLEAN, AddRelation(w, r, s, rel, resolved)
      PROVE  HubTypeOK'
  <2>1. AddEdge(r, s, rel, resolved) /\ rel \in Relations
    BY <1>8, HubAssumption DEF AddRelation
  <2>2. relations' \subseteq EdgeRow
    BY <2>1 DEF AddEdge, HubTypeOK, EdgeRow
  <2>3. card_eval_runs' \subseteq UsedRow
    <3>1. FixUsed(r, s, StoredUses(r, s, rel.to) \cup {rel}) \in SUBSET UsedRow
      BY FixUsedType DEF UsedRow
    <3> QED BY <2>1, <3>1, InsertUsedType DEF AddEdge, HubTypeOK
  <2> QED BY <2>1, <2>2, <2>3 DEF AddEdge, HubTypeOK
<1>9. CASE UNCHANGED hubVars
  BY <1>9 DEF HubTypeOK, hubVars
<1> QED
  BY <1>1, <1>2, <1>3, <1>4, <1>5, <1>6, <1>7, <1>8, <1>9 DEF HubNext, ShortWrite, LongWrite

(* The tables only ever hold rows of their types.                           *)
THEOREM HubTypeCorrect == HubSpec => []HubTypeOK
<1>1. HubInit => HubTypeOK
  BY DEF HubInit, HubTypeOK
<1> QED BY <1>1, HubTypeStep, PTL DEF HubSpec

-----------------------------------------------------------------------------
(* Versions                                                                 *)

(* The next seq follows every stored one, and there is none between.        *)
LEMMA NextSeqFollows ==
  ASSUME HubTypeOK, NEW r \in Records
  PROVE  /\ NextSeq(r) \in Nat
         /\ NextSeq(r) - 1 \in Stored(r) \cup {0}
         /\ \A s \in Stored(r) : s < NextSeq(r)
<1> DEFINE T == Stored(r) \cup {0}
<1>1. T \in SUBSET (0..MaxSeq) /\ T # {} /\ MaxSeq \in Nat
  BY HubAssumption DEF Stored, Seqs
<1>2. Max(T) \in T /\ \A y \in T : y <= Max(T)
  <2> HIDE DEF T
  <2> QED BY <1>1, GreatestSeq
<1>3. NextSeq(r) = Max(T) + 1
  BY DEF NextSeq
<1>4. Max(T) \in 0..MaxSeq
  <2> HIDE DEF T
  <2> QED BY <1>1, <1>2
<1>5. \A s \in Stored(r) : s \in Nat /\ s <= Max(T)
  BY <1>1, <1>2 DEF Stored, Seqs
<1>6. Max(T) \in Nat
  BY <1>1, <1>4
<1>7. NextSeq(r) - 1 = Max(T)
  BY <1>3, <1>6
<1>8. NextSeq(r) - 1 \in Stored(r) \cup {0}
  BY <1>2, <1>7
<1>9. \A s \in Stored(r) : s < NextSeq(r)
  <2> HIDE DEF T
  <2> QED BY <1>3, <1>5, <1>6
<1> QED
  <2> HIDE DEF T
  <2> QED BY <1>3, <1>6, <1>8, <1>9

(* What one write does to the versions of a record: nothing is rewritten,   *)
(* and at most the next seq is added.                                       *)
VersionsGrow == \A r \in Records :
  /\ Stored(r)' \in {Stored(r), Stored(r) \cup {NextSeq(r)}}
  /\ \A s \in Stored(r) :
       /\ versions'[r][s].content_hash = versions[r][s].content_hash
       /\ versions'[r][s].refs_resolved = versions[r][s].refs_resolved
       /\ versions[r][s].tombstoned => versions'[r][s].tombstoned

LEMMA VersionsGrowStep == HubTypeOK /\ [HubNext]_hubVars => VersionsGrow
<1> SUFFICES ASSUME HubTypeOK, [HubNext]_hubVars PROVE VersionsGrow
  OBVIOUS
<1>0. ASSUME versions' = versions PROVE VersionsGrow
  BY <1>0 DEF VersionsGrow, Stored
<1>1. ASSUME NEW w \in Writers, NEW r \in Records, NEW l \in Labels \cup {NoLabel},
             NEW b \in BodiesFor(r), NEW resolved \in SUBSET b.relations,
             Post(w, r, b, l, resolved)
      PROVE  VersionsGrow
  <2> DEFINE v == [content_hash |-> b, label |-> l, tombstoned |-> FALSE,
                   refs_resolved |-> AllResolved(b, resolved)]
  <2>1. versions' = [versions EXCEPT ![r][NextSeq(r)] = v] /\ NextSeq(r) \in Seqs
    BY <1>1 DEF Post, WriteVersion
  <2>2. NextSeq(r) \notin Stored(r)
    BY NextSeqFollows
  <2>3. v \in [content_hash : Bodies, label : Labels \cup {NoLabel},
               tombstoned : BOOLEAN, refs_resolved : BOOLEAN]
    BY DEF AllResolved, BodiesFor, Bodies
  <2>4. v # NoRow
    BY <2>3, NoRowAssumption DEF VersionRow
  <2> HIDE DEF v
  <2>5. ASSUME NEW q \in Records, q # r PROVE versions'[q] = versions[q]
    BY <2>1, <2>5 DEF HubTypeOK
  <2>6. Stored(r)' = Stored(r) \cup {NextSeq(r)}
    BY <2>1, <2>4 DEF Stored, HubTypeOK
  <2>7. \A s \in Stored(r) : versions'[r][s] = versions[r][s]
    BY <2>1, <2>2 DEF Stored, HubTypeOK
  <2> QED BY <2>5, <2>6, <2>7 DEF VersionsGrow, Stored
<1>2. ASSUME NEW w \in Writers, NEW r \in Records, NEW s \in Seqs, NEW l \in Labels,
             SetLabel(w, r, s, l)
      PROVE  VersionsGrow
  <2>1. \A q \in Stored(r) : versions[r][q] \in VersionRow
    BY DEF Stored, HubTypeOK
  <2>2. \A q \in Seqs : q \notin Stored(r) => versions'[r][q] = NoRow
    BY <1>2 DEF SetLabel, Stored, HubTypeOK
  <2>3. \A q \in Stored(r) :
          /\ versions'[r][q] \in VersionRow
          /\ versions'[r][q].content_hash = versions[r][q].content_hash
          /\ versions'[r][q].refs_resolved = versions[r][q].refs_resolved
          /\ versions'[r][q].tombstoned = versions[r][q].tombstoned
    BY <1>2, <2>1 DEF SetLabel, Stored, HubTypeOK, VersionRow
  <2>4. Stored(r)' = Stored(r)
    BY <2>2, <2>3, NoRowAssumption DEF Stored
  <2>5. ASSUME NEW q \in Records, q # r PROVE versions'[q] = versions[q]
    BY <1>2, <2>5 DEF SetLabel, HubTypeOK
  <2> QED BY <2>3, <2>4, <2>5 DEF VersionsGrow, Stored
<1>3. ASSUME NEW w \in Writers, NEW r \in Records, NEW s \in Seqs, Tombstone(w, r, s)
      PROVE  VersionsGrow
  <2>1. s \in Stored(r) /\ versions[r][s] \in VersionRow
    BY <1>3 DEF Tombstone, Live, Stored, HubTypeOK
  <2>2. versions'[r][s] = [versions[r][s] EXCEPT !.tombstoned = TRUE]
    BY <1>3 DEF Tombstone, HubTypeOK
  <2>3. versions'[r][s] \in VersionRow
    BY <2>1, <2>2 DEF VersionRow
  <2>4. \A q \in Seqs : q # s => versions'[r][q] = versions[r][q]
    BY <1>3 DEF Tombstone, HubTypeOK
  <2>5. Stored(r)' = Stored(r)
    BY <2>1, <2>3, <2>4, NoRowAssumption DEF Stored
  <2>6. ASSUME NEW q \in Records, q # r PROVE versions'[q] = versions[q]
    BY <1>3, <2>6 DEF Tombstone, HubTypeOK
  <2>7. \A q \in Stored(r) :
          /\ versions'[r][q].content_hash = versions[r][q].content_hash
          /\ versions'[r][q].refs_resolved = versions[r][q].refs_resolved
          /\ versions[r][q].tombstoned => versions'[r][q].tombstoned
    BY <2>1, <2>2, <2>4 DEF Stored, VersionRow
  <2> QED BY <2>5, <2>6, <2>7 DEF VersionsGrow, Stored
<1>4. ASSUME NEW w \in Writers,
             \/ \E r \in Records, v \in {"private", "public"} : SetVisibility(w, r, v)
             \/ \E e \in Evals, i \in RunIds, a \in BOOLEAN : SetArchived(w, e, i, a)
             \/ \E e \in Evals, i \in RunIds : DeleteRun(w, e, i)
             \/ \E e \in Evals, batch \in Batches : PutRuns(w, e, batch)
             \/ \E r \in Records, s \in Seqs, rel \in NewEdges, resolved \in BOOLEAN :
                  AddRelation(w, r, s, rel, resolved)
      PROVE  VersionsGrow
  <2>1. versions' = versions
    BY <1>4 DEF SetVisibility, SetArchived, DeleteRun, PutRuns, WriteRuns, AddRelation, AddEdge
  <2> QED BY <2>1, <1>0
<1>5. CASE UNCHANGED hubVars
  BY <1>5, <1>0 DEF hubVars
<1> QED BY <1>1, <1>2, <1>3, <1>4, <1>5 DEF HubNext, ShortWrite, LongWrite

(* No gap and no reuse in the seqs of a record.                             *)
THEOREM SeqsGapFree == HubSpec => []SeqGapFree
<1>1. HubInit => SeqGapFree
  BY DEF HubInit, SeqGapFree, Stored
<1>2. HubTypeOK /\ SeqGapFree /\ [HubNext]_hubVars => SeqGapFree'
  <2> SUFFICES ASSUME HubTypeOK, SeqGapFree, VersionsGrow, NEW r \in Records,
                      NEW s \in Stored(r)'
               PROVE  1..s \subseteq Stored(r)'
    BY VersionsGrowStep DEF SeqGapFree
  <2>1. CASE s \in Stored(r)
    BY <2>1 DEF SeqGapFree, VersionsGrow
  <2>2. CASE s \notin Stored(r)
    <3>1. s = NextSeq(r) /\ Stored(r)' = Stored(r) \cup {NextSeq(r)}
      BY <2>2 DEF VersionsGrow
    <3>2. 1..(s - 1) \subseteq Stored(r)
      <4>1. CASE s - 1 = 0
        BY <4>1
      <4>2. CASE s - 1 \in Stored(r)
        BY <4>2 DEF SeqGapFree
      <4> QED BY <3>1, <4>1, <4>2, NextSeqFollows
    <3>3. 1..s \subseteq 1..(s - 1) \cup {s}
      BY <3>1, NextSeqFollows
    <3> QED BY <3>1, <3>2, <3>3
  <2> QED BY <2>1, <2>2
<1> QED BY <1>1, <1>2, HubTypeCorrect, PTL DEF HubSpec

(* Only posts, label moves and tombstones write versions rows.              *)
Posts(w) == \E r \in Records, l \in Labels \cup {NoLabel} : \E b \in BodiesFor(r) :
  \E resolved \in SUBSET b.relations : Post(w, r, b, l, resolved)
SetsLabel(w) == \E r \in Records, s \in Seqs, l \in Labels : SetLabel(w, r, s, l)
Tombstones(w) == \E r \in Records, s \in Seqs : Tombstone(w, r, s)

LEMMA VersionsWriters ==
  ASSUME [HubNext]_hubVars, versions' # versions
  PROVE  \E w \in Writers : Posts(w) \/ SetsLabel(w) \/ Tombstones(w)
<1>1. PICK w \in Writers : ShortWrite(w) \/ LongWrite(w)
  BY DEF HubNext, hubVars
<1>2. ASSUME ShortWrite(w) PROVE SetsLabel(w) \/ Tombstones(w)
  BY <1>2 DEF ShortWrite, SetsLabel, Tombstones, SetVisibility, SetArchived, DeleteRun
<1>3. ASSUME LongWrite(w) PROVE Posts(w)
  <2>1. ~ \E e \in Evals, batch \in Batches : PutRuns(w, e, batch)
    BY DEF PutRuns, WriteRuns
  <2>2. ~ \E r \in Records, s \in Seqs, rel \in NewEdges, resolved \in BOOLEAN :
            AddRelation(w, r, s, rel, resolved)
    BY DEF AddRelation, AddEdge
  <2> QED BY <1>3, <2>1, <2>2 DEF LongWrite, Posts
<1> QED BY <1>1, <1>2, <1>3

(* Only a post adds a version, and it adds the one it was given.            *)
LEMMA AddedByPost ==
  ASSUME HubTypeOK, [HubNext]_hubVars, NEW r \in Records, NEW s \in Stored(r)',
         s \notin Stored(r)
  PROVE  \E w \in Writers, l \in Labels \cup {NoLabel}, b \in BodiesFor(r) :
           \E resolved \in SUBSET b.relations :
             /\ Post(w, r, b, l, resolved)
             /\ versions'[r][s] = [content_hash |-> b, label |-> l, tombstoned |-> FALSE,
                                   refs_resolved |-> AllResolved(b, resolved)]
<1>1. s \in Seqs /\ versions[r][s] = NoRow /\ versions'[r][s] # NoRow
  BY DEF Stored
<1>2. ASSUME NEW w \in Writers, NEW q \in Records, NEW l \in Labels \cup {NoLabel},
             NEW b \in BodiesFor(q), NEW resolved \in SUBSET b.relations,
             Post(w, q, b, l, resolved)
      PROVE  /\ q = r /\ s = NextSeq(r)
             /\ versions'[r][s] = [content_hash |-> b, label |-> l, tombstoned |-> FALSE,
                                   refs_resolved |-> AllResolved(b, resolved)]
  <2> DEFINE v == [content_hash |-> b, label |-> l, tombstoned |-> FALSE,
                   refs_resolved |-> AllResolved(b, resolved)]
  <2>1. versions' = [versions EXCEPT ![q][NextSeq(q)] = v]
    BY <1>2 DEF Post, WriteVersion
  <2> HIDE DEF v
  <2>2. q = r /\ s = NextSeq(r)
    BY <1>1, <2>1 DEF HubTypeOK
  <2>3. versions'[r][s] = v
    BY <1>1, <2>1, <2>2 DEF HubTypeOK
  <2> QED BY <2>2, <2>3 DEF v
<1>3. ASSUME NEW w \in Writers, NEW q \in Records, NEW t \in Seqs, NEW l \in Labels,
             SetLabel(w, q, t, l)
      PROVE  FALSE
  <2>1. s \notin Stored(r) /\ t \in Stored(q)
    BY <1>3 DEF SetLabel
  <2> QED BY <1>1, <1>3, <2>1 DEF SetLabel, HubTypeOK
<1>4. ASSUME NEW w \in Writers, NEW q \in Records, NEW t \in Seqs, Tombstone(w, q, t)
      PROVE  FALSE
  <2>1. t \in Stored(q)
    BY <1>4 DEF Tombstone, Live
  <2>2. \A k \in Seqs : q # r \/ k # t => versions'[r][k] = versions[r][k]
    BY <1>4 DEF Tombstone, HubTypeOK
  <2> QED BY <1>1, <2>1, <2>2 DEF Stored
<1>5. versions' # versions
  BY <1>1
<1>6. \E w \in Writers, q \in Records, l \in Labels \cup {NoLabel} : \E b \in BodiesFor(q) :
        \E resolved \in SUBSET b.relations : Post(w, q, b, l, resolved)
  <2>1. PICK w \in Writers : Posts(w) \/ SetsLabel(w) \/ Tombstones(w)
    BY <1>5, VersionsWriters
  <2>2. ~SetsLabel(w)
    BY <1>3 DEF SetsLabel
  <2>3. ~Tombstones(w)
    BY <1>4 DEF Tombstones
  <2> QED BY <2>1, <2>2, <2>3 DEF Posts
<1>7. PICK w \in Writers, q \in Records, l \in Labels \cup {NoLabel} :
        \E b \in BodiesFor(q) : \E resolved \in SUBSET b.relations :
           Post(w, q, b, l, resolved)
  BY <1>6, Zenon
<1>8. PICK b \in BodiesFor(q) : \E resolved \in SUBSET b.relations :
        Post(w, q, b, l, resolved)
  BY <1>7, Zenon
<1>9. PICK resolved \in SUBSET b.relations : Post(w, q, b, l, resolved)
  BY <1>8, Zenon
<1>10. /\ q = r /\ s = NextSeq(r)
       /\ versions'[r][s] = [content_hash |-> b, label |-> l, tombstoned |-> FALSE,
                             refs_resolved |-> AllResolved(b, resolved)]
  BY <1>2, <1>9, Zenon
<1>11. Post(w, r, b, l, resolved) /\ b \in BodiesFor(r)
  BY <1>9, <1>10, Zenon
<1> QED BY <1>10, <1>11, Zenon

(* Identical posts never make two versions in a row.                        *)
THEOREM VersionsDiffer == HubSpec => []NoRepeatedVersion
<1>1. HubInit => NoRepeatedVersion
  BY DEF HubInit, NoRepeatedVersion, Live, Stored
<1>2. HubTypeOK /\ NoRepeatedVersion /\ [HubNext]_hubVars => NoRepeatedVersion'
  <2> SUFFICES ASSUME HubTypeOK, NoRepeatedVersion, [HubNext]_hubVars, NEW r \in Records,
                      NEW s \in Live(r)', NEW q \in Live(r)', q = s + 1
               PROVE  versions'[r][q].content_hash # versions'[r][s].content_hash
    BY DEF NoRepeatedVersion
  <2>1. VersionsGrow /\ s \in Seqs /\ q \in Seqs /\ s \in Stored(r)' /\ q \in Stored(r)'
    BY VersionsGrowStep DEF Live, Stored
  <2>2. ASSUME NEW t \in Live(r)', t \in Stored(r)
        PROVE  t \in Live(r) /\ versions'[r][t].content_hash = versions[r][t].content_hash
    BY <2>1, <2>2 DEF VersionsGrow, Live
  <2>3. CASE s \in Stored(r) /\ q \in Stored(r)
    BY <2>2, <2>3 DEF NoRepeatedVersion
  <2>4. ASSUME q \notin Stored(r)
        PROVE  versions'[r][q].content_hash # versions'[r][s].content_hash
    <3>1. PICK w \in Writers, l \in Labels \cup {NoLabel}, b \in BodiesFor(r) :
            \E resolved \in SUBSET b.relations :
              /\ Post(w, r, b, l, resolved)
              /\ versions'[r][q] = [content_hash |-> b, label |-> l, tombstoned |-> FALSE,
                                    refs_resolved |-> AllResolved(b, resolved)]
      <4>1. q \in Stored(r)' /\ q \notin Stored(r)
        BY <2>1, <2>4
      <4> QED BY <4>1, AddedByPost
    <3>2. versions'[r][q].content_hash = b /\ q = NextSeq(r) /\ ~IsLatest(r, b)
      BY <2>1, <2>4, <3>1 DEF Post, VersionsGrow
    <3>3. s # NextSeq(r) /\ s \in Stored(r)
      BY <2>1, <3>2 DEF VersionsGrow, Seqs
    <3>4. s \in Live(r) /\ versions'[r][s].content_hash = versions[r][s].content_hash
      BY <2>2, <3>3
    <3>5. Max(Live(r)) = s
      <4>1. Live(r) \in SUBSET (0..MaxSeq) /\ Live(r) # {} /\ MaxSeq \in Nat
        BY <3>4, HubAssumption DEF Live, Stored, Seqs
      <4>2. Max(Live(r)) \in Live(r) /\ s <= Max(Live(r))
        BY <3>4, <4>1, GreatestSeq
      <4>3. Max(Live(r)) < s + 1 /\ Max(Live(r)) \in Seqs
        BY <3>2, <4>2, NextSeqFollows DEF Live, Stored
      <4> QED BY <2>1, <4>2, <4>3 DEF Seqs
    <3> QED BY <3>2, <3>4, <3>5 DEF IsLatest, LatestBody
  <2>5. CASE q \in Stored(r) /\ s \notin Stored(r)
    <3>1. s = NextSeq(r) /\ q < NextSeq(r)
      BY <2>1, <2>5, NextSeqFollows DEF VersionsGrow
    <3> QED BY <2>1, <3>1 DEF Seqs
  <2> QED BY <2>3, <2>4, <2>5
<1> QED BY <1>1, <1>2, HubTypeCorrect, PTL DEF HubSpec

(* A label names one version, whoever moves it.                             *)
THEOREM LabelsUnique == HubSpec => []LabelUnique
<1>1. HubInit => LabelUnique
  BY DEF HubInit, LabelUnique, Stored
<1>2. HubTypeOK /\ LabelUnique /\ [HubNext]_hubVars => LabelUnique'
  <2> SUFFICES ASSUME HubTypeOK, LabelUnique, [HubNext]_hubVars, NEW r \in Records
               PROVE  \A s, q \in Stored(r)' :
                        versions'[r][s].label = versions'[r][q].label
                        /\ versions'[r][s].label # NoLabel => s = q
    BY DEF LabelUnique
  <2>1. VersionsGrow
    BY VersionsGrowStep
  <2>2. CASE Stored(r)' # Stored(r)
    <3>1. NextSeq(r) \notin Stored(r) /\ Stored(r)' = Stored(r) \cup {NextSeq(r)}
      BY <2>1, <2>2, NextSeqFollows DEF VersionsGrow
    <3>2. PICK w \in Writers, l \in Labels \cup {NoLabel}, b \in BodiesFor(r) :
            \E resolved \in SUBSET b.relations :
              /\ Post(w, r, b, l, resolved)
              /\ versions'[r][NextSeq(r)] =
                   [content_hash |-> b, label |-> l, tombstoned |-> FALSE,
                    refs_resolved |-> AllResolved(b, resolved)]
      <4>1. NextSeq(r) \in Stored(r)' /\ NextSeq(r) \notin Stored(r)
        BY <3>1
      <4> QED BY <4>1, AddedByPost
    <3>3. versions'[r][NextSeq(r)].label = l /\ ~LabelTaken(r, l)
      BY <3>2 DEF Post
    <3>4. \A s \in Stored(r) : versions'[r][s] = versions[r][s]
      <4>1. PICK resolved \in SUBSET b.relations : Post(w, r, b, l, resolved)
        BY <3>2
      <4> DEFINE v == [content_hash |-> b, label |-> l, tombstoned |-> FALSE,
                       refs_resolved |-> AllResolved(b, resolved)]
      <4>2. versions' = [versions EXCEPT ![r][NextSeq(r)] = v]
        BY <4>1 DEF Post, WriteVersion
      <4> HIDE DEF v
      <4> QED BY <3>1, <4>2 DEF HubTypeOK, Stored
    <3>5. \A s, q \in Stored(r) :
            versions[r][s].label = versions[r][q].label /\ versions[r][s].label # NoLabel
              => s = q
      BY DEF LabelUnique
    <3>6. \A s \in Stored(r) : l # NoLabel => versions[r][s].label # l
      BY <3>3 DEF LabelTaken
    <3> QED BY <3>1, <3>3, <3>4, <3>5, <3>6
  <2>3. ASSUME NEW w \in Writers, NEW t \in Seqs, NEW l \in Labels, SetLabel(w, r, t, l)
        PROVE  \A s \in Stored(r) : versions'[r][s].label =
                 IF s = t THEN l
                 ELSE IF versions[r][s].label = l THEN NoLabel ELSE versions[r][s].label
    <3>1. \A s \in Stored(r) : versions[r][s] \in VersionRow /\ s \in Seqs
      BY DEF Stored, HubTypeOK
    <3>2. \A s \in Stored(r) : versions'[r][s] =
             IF s = t THEN [versions[r][s] EXCEPT !.label = l]
             ELSE IF versions[r][s].label = l
                  THEN [versions[r][s] EXCEPT !.label = NoLabel] ELSE versions[r][s]
      BY <2>3, <3>1 DEF SetLabel, HubTypeOK
    <3> QED BY <3>1, <3>2 DEF VersionRow
  <2>4. ASSUME Stored(r)' = Stored(r),
               \A s \in Stored(r) : versions'[r][s].label = versions[r][s].label
        PROVE  \A s, q \in Stored(r)' :
                 versions'[r][s].label = versions'[r][q].label
                 /\ versions'[r][s].label # NoLabel => s = q
    BY <2>4 DEF LabelUnique
  <2>5. ASSUME Stored(r)' = Stored(r),
               ~ \E w \in Writers, t \in Seqs, l \in Labels : SetLabel(w, r, t, l)
        PROVE  \A s \in Stored(r) : versions'[r][s].label = versions[r][s].label
    <3>1. ASSUME NEW w \in Writers, NEW q \in Records, NEW l \in Labels \cup {NoLabel},
                 NEW b \in BodiesFor(q), NEW resolved \in SUBSET b.relations,
                 Post(w, q, b, l, resolved)
          PROVE  versions'[r] = versions[r]
      <4> DEFINE v == [content_hash |-> b, label |-> l, tombstoned |-> FALSE,
                       refs_resolved |-> AllResolved(b, resolved)]
      <4>1. versions' = [versions EXCEPT ![q][NextSeq(q)] = v] /\ NextSeq(q) \in Seqs
        BY <3>1 DEF Post, WriteVersion
      <4>2. v # NoRow
        <5>1. v \in VersionRow
          BY DEF VersionRow, AllResolved, BodiesFor, Bodies
        <5> QED BY <5>1, NoRowAssumption
      <4> HIDE DEF v
      <4>3. q # r
        <5>1. SUFFICES ASSUME q = r PROVE FALSE
          OBVIOUS
        <5>2. NextSeq(r) \in Stored(r)'
          BY <4>1, <4>2, <5>1 DEF Stored, HubTypeOK
        <5> QED BY <2>5, <5>2, NextSeqFollows
      <4> QED BY <4>1, <4>3 DEF HubTypeOK
    <3>2. ASSUME NEW w \in Writers, NEW q \in Records, NEW t \in Seqs, NEW l \in Labels,
                 SetLabel(w, q, t, l)
          PROVE  versions'[r] = versions[r]
      <4>1. q # r
        BY <2>5, <3>2
      <4> QED BY <3>2, <4>1 DEF SetLabel, HubTypeOK
    <3>3. ASSUME NEW w \in Writers, NEW q \in Records, NEW t \in Seqs, Tombstone(w, q, t)
          PROVE  \A s \in Stored(r) : versions'[r][s].label = versions[r][s].label
      <4>1. versions[q][t] \in VersionRow
        BY <3>3 DEF Tombstone, Live, Stored, HubTypeOK
      <4>2. [versions[q][t] EXCEPT !.tombstoned = TRUE].label = versions[q][t].label
        BY <4>1 DEF VersionRow
      <4>3. \A s \in Seqs : versions'[r][s] =
               IF q = r /\ s = t THEN [versions[q][t] EXCEPT !.tombstoned = TRUE]
               ELSE versions[r][s]
        BY <3>3 DEF Tombstone, HubTypeOK
      <4> QED BY <4>2, <4>3 DEF Stored
    <3>4. versions' = versions => \A s \in Stored(r) :
             versions'[r][s].label = versions[r][s].label
      OBVIOUS
    <3>5. CASE versions' # versions
      <4>1. PICK w \in Writers : Posts(w) \/ SetsLabel(w) \/ Tombstones(w)
        BY <3>5, VersionsWriters
      <4>2. CASE Posts(w)
        BY <3>1, <4>2 DEF Posts
      <4>3. CASE SetsLabel(w)
        BY <3>2, <4>3 DEF SetsLabel
      <4>4. CASE Tombstones(w)
        BY <3>3, <4>4 DEF Tombstones
      <4> QED BY <4>1, <4>2, <4>3, <4>4
    <3> QED BY <3>4, <3>5
  <2>6. CASE Stored(r)' = Stored(r)
             /\ \E w \in Writers, t \in Seqs, l \in Labels : SetLabel(w, r, t, l)
    <3>1. PICK w \in Writers, t \in Seqs, l \in Labels : SetLabel(w, r, t, l)
      BY <2>6
    <3>2. \A s \in Stored(r) : versions'[r][s].label =
             IF s = t THEN l
             ELSE IF versions[r][s].label = l THEN NoLabel ELSE versions[r][s].label
      BY <2>3, <3>1
    <3> QED BY <2>6, <3>2 DEF LabelUnique
  <2> QED BY <2>2, <2>4, <2>5, <2>6
<1> QED BY <1>1, <1>2, HubTypeCorrect, PTL DEF HubSpec

-----------------------------------------------------------------------------
(* Runs and side rows                                                       *)

(* Edges, used runs and judgements are only ever added.                     *)
LEMMA RowsKept == [HubNext]_hubVars => KeepsRows
<1> SUFFICES ASSUME [HubNext]_hubVars PROVE KeepsRows
  OBVIOUS
<1>1. \A rows : card_eval_runs \subseteq InsertUsed(rows)
  BY DEF InsertUsed
<1>2. ASSUME NEW w, NEW r, NEW l, NEW b, NEW resolved, Post(w, r, b, l, resolved)
      PROVE  KeepsRows
  BY <1>1, <1>2 DEF Post, WriteVersion, KeepsRows
<1>3. ASSUME NEW w, NEW r, NEW s, NEW rel, NEW resolved, AddRelation(w, r, s, rel, resolved)
      PROVE  KeepsRows
  BY <1>1, <1>3 DEF AddRelation, AddEdge, KeepsRows
<1> QED
  BY <1>2, <1>3
     DEF HubNext, ShortWrite, LongWrite, hubVars, SetLabel, SetVisibility, Tombstone,
         SetArchived, DeleteRun, PutRuns, WriteRuns, KeepsRows

(* What one write does to the runs of an Eval: a row stays, a deleted one   *)
(* is not touched again, and the hash of the whole follows.                 *)
LEMMA RunsStep ==
  HubTypeOK /\ RunsHashAgrees /\ [HubNext]_hubVars => RunsHashAgrees' /\ KeepsDeletedRuns
<1> SUFFICES ASSUME HubTypeOK, RunsHashAgrees, [HubNext]_hubVars
             PROVE  RunsHashAgrees' /\ KeepsDeletedRuns
  OBVIOUS
<1>1. CASE UNCHANGED <<runs, runs_hash>>
  <2>1. \A e \in Evals : RunRows(e)' = RunRows(e)
    BY <1>1 DEF RunRows
  <2> QED BY <1>1, <2>1 DEF RunsHashAgrees, KeepsDeletedRuns, RunRows
<1>2. ASSUME NEW w \in Writers, NEW e \in Evals, NEW i \in RunIds, NEW row,
             row \in {[runs[e][i] EXCEPT !.archived = a] : a \in BOOLEAN}
                     \cup {[runs[e][i] EXCEPT !.tombstoned = TRUE]},
             i \in RunRows(e), ~runs[e][i].tombstoned,
             runs' = [runs EXCEPT ![e][i] = row], runs_hash' = runs_hash
      PROVE  RunsHashAgrees' /\ KeepsDeletedRuns
  <2>0. runs[e][i] \in RunRow
    BY <1>2 DEF HubTypeOK, RunRows
  <2>1. row \in RunRow /\ row.content_hash = runs[e][i].content_hash
    <3>1. CASE row = [runs[e][i] EXCEPT !.tombstoned = TRUE]
      BY <2>0, <3>1 DEF RunRow
    <3>2. ASSUME NEW a \in BOOLEAN, row = [runs[e][i] EXCEPT !.archived = a]
          PROVE  row \in RunRow /\ row.content_hash = runs[e][i].content_hash
      BY <2>0, <3>2 DEF RunRow
    <3> QED BY <1>2, <3>1, <3>2
  <2>2. row # NoRow
    BY <2>1, NoRowAssumption
  <2>3. \A f \in Evals : \A j \in RunIds :
          runs'[f][j] = IF f = e /\ j = i THEN row ELSE runs[f][j]
    BY <1>2 DEF HubTypeOK
  <2>4. \A f \in Evals : RunRows(f)' = RunRows(f)
    BY <1>2, <2>2, <2>3 DEF RunRows
  <2>5. \A f \in Evals : \A j \in RunRows(f) :
          runs'[f][j].content_hash = runs[f][j].content_hash
    BY <2>1, <2>3 DEF RunRows
  <2>6. RunsHashAgrees'
    BY <1>2, <2>4, <2>5 DEF RunsHashAgrees
  <2>7. KeepsDeletedRuns
    BY <1>2, <2>2, <2>3 DEF KeepsDeletedRuns, RunRows
  <2> QED BY <2>6, <2>7
<1>3. ASSUME NEW w \in Writers, NEW e \in Evals, NEW batch \in Batches, PutRuns(w, e, batch)
      PROVE  RunsHashAgrees' /\ KeepsDeletedRuns
  <2> DEFINE after == AfterBatch(e, batch, runs[e], LatestBody(e))
  <2>1. after \in [RunIds -> RunRow \cup {NoRow}]
    BY <1>3, LatestBodyType, AfterBatchType DEF PutRuns, Records
  <2>2. runs' = [runs EXCEPT ![e] = after]
    BY <1>3 DEF PutRuns, WriteRuns
  <2>3. \A i \in RunRows(e) : after[i] # NoRow
    <3> TAKE i \in RunRows(e)
    <3>2. CASE after[i] = runs[e][i]
      BY <3>2 DEF RunRows
    <3>3. CASE after[i] # runs[e][i]
      <4> DEFINE hash == Materialise(batch[i], LatestBody(e))
      <4>1. i \in RunIds /\ i \in DOMAIN batch /\ runs[e][i] # NoRow
        BY <3>3 DEF AfterBatch, RunRows
      <4>2. runs[e][i] \in RunRow
        BY <4>1 DEF HubTypeOK
      <4>3. after[i] = [content_hash |-> hash, archived |-> runs[e][i].archived,
                        tombstoned |-> runs[e][i].tombstoned]
        BY <3>3, <4>1, <4>2 DEF AfterBatch, RunRow
      <4>4. hash \in Contents
        <5>1. batch[i] \in RunBodies
          BY <4>1 DEF Batches
        <5>2. LatestBody(e) \in Bodies
          BY <1>3, LatestBodyType DEF PutRuns, Records
        <5> QED BY <5>1, <5>2 DEF Materialise, Contents
      <4>5. after[i] \in RunRow
        <5> HIDE DEF hash, after
        <5> QED BY <4>2, <4>3, <4>4 DEF RunRow
      <4> QED BY <4>5, NoRowAssumption
    <3> QED BY <3>2, <3>3
  <2>4. \A i \in RunRows(e) : runs[e][i].tombstoned => after[i] = runs[e][i]
    BY <1>3 DEF PutRuns, NamesDeleted, AfterBatch, RunRows
  <2> HIDE DEF after
  <2>5. KeepsDeletedRuns
    BY <2>2, <2>3, <2>4 DEF KeepsDeletedRuns, HubTypeOK, RunRows
  <2>6. ASSUME NEW f \in Evals, f # e
        PROVE  runs_hash'[f] = runs_hash[f] /\ runs'[f] = runs[f] /\ RunRows(f)' = RunRows(f)
    BY <1>3, <2>2, <2>6 DEF PutRuns, WriteRuns, HubTypeOK, RunRows
  <2>7. runs_hash'[e] = IF runs'[e] = runs[e] THEN runs_hash[e] ELSE Digest(runs'[e])
    BY <1>3 DEF PutRuns, WriteRuns, HubTypeOK
  <2>8. runs_hash'[e] = {<<i, runs'[e][i].content_hash>> : i \in RunRows(e)'}
    <3>1. CASE runs'[e] = runs[e]
      BY <2>7, <3>1 DEF RunsHashAgrees, RunRows
    <3>2. CASE runs'[e] # runs[e]
      BY <2>7, <3>2 DEF Digest, RunRows
    <3> QED BY <3>1, <3>2
  <2>9. RunsHashAgrees'
    BY <2>6, <2>8 DEF RunsHashAgrees
  <2> QED BY <2>5, <2>9
<1>4. ASSUME NEW w \in Writers, NEW e \in Evals, NEW i \in RunIds, NEW a \in BOOLEAN,
             SetArchived(w, e, i, a)
      PROVE  RunsHashAgrees' /\ KeepsDeletedRuns
  <2>1. runs' = [runs EXCEPT ![e][i] = [runs[e][i] EXCEPT !.archived = a]]
    BY <1>4 DEF SetArchived, HubTypeOK
  <2> QED BY <1>2, <1>4, <2>1 DEF SetArchived
<1>5. ASSUME NEW w \in Writers, NEW e \in Evals, NEW i \in RunIds, DeleteRun(w, e, i)
      PROVE  RunsHashAgrees' /\ KeepsDeletedRuns
  <2>1. runs' = [runs EXCEPT ![e][i] = [runs[e][i] EXCEPT !.tombstoned = TRUE]]
    BY <1>5 DEF DeleteRun, HubTypeOK
  <2> QED BY <1>2, <1>5, <2>1 DEF DeleteRun
<1>6. ASSUME NEW w \in Writers,
             \/ \E r \in Records, l \in Labels \cup {NoLabel} : \E b \in BodiesFor(r) :
                  \E resolved \in SUBSET b.relations : Post(w, r, b, l, resolved)
             \/ \E r \in Records, s \in Seqs, l \in Labels : SetLabel(w, r, s, l)
             \/ \E r \in Records, v \in {"private", "public"} : SetVisibility(w, r, v)
             \/ \E r \in Records, s \in Seqs : Tombstone(w, r, s)
             \/ \E r \in Records, s \in Seqs, rel \in NewEdges, resolved \in BOOLEAN :
                  AddRelation(w, r, s, rel, resolved)
      PROVE  UNCHANGED <<runs, runs_hash>>
  <2>1. CASE \E r \in Records, l \in Labels \cup {NoLabel} : \E b \in BodiesFor(r) :
               \E resolved \in SUBSET b.relations : Post(w, r, b, l, resolved)
    BY <2>1 DEF Post, WriteVersion
  <2>2. CASE \E r \in Records, s \in Seqs, rel \in NewEdges, resolved \in BOOLEAN :
               AddRelation(w, r, s, rel, resolved)
    BY <2>2 DEF AddRelation, AddEdge
  <2>3. CASE \/ \E r \in Records, s \in Seqs, l \in Labels : SetLabel(w, r, s, l)
             \/ \E r \in Records, v \in {"private", "public"} : SetVisibility(w, r, v)
             \/ \E r \in Records, s \in Seqs : Tombstone(w, r, s)
    BY <2>3 DEF SetLabel, SetVisibility, Tombstone
  <2> QED BY <1>6, <2>1, <2>2, <2>3
<1>7. CASE UNCHANGED hubVars
  BY <1>1, <1>7 DEF hubVars
<1> QED
  BY <1>1, <1>3, <1>4, <1>5, <1>6, <1>7 DEF HubNext, ShortWrite, LongWrite

(* records.runs_hash digests every row of the Eval.                         *)
THEOREM RunsHashCorrect == HubSpec => []RunsHashAgrees
<1>1. HubInit => RunsHashAgrees
  BY DEF HubInit, RunsHashAgrees, RunRows
<1> QED BY <1>1, RunsStep, HubTypeCorrect, PTL DEF HubSpec

(* Nothing that was published is rewritten.                                 *)
THEOREM PublishedRowsStay == HubSpec => PublishedStays
<1>1. HubTypeOK /\ RunsHashAgrees /\ [HubNext]_hubVars
        => KeepsVersions /\ KeepsDeletedRuns /\ KeepsRows
  <2> SUFFICES ASSUME HubTypeOK, RunsHashAgrees, [HubNext]_hubVars
               PROVE  KeepsVersions /\ KeepsDeletedRuns /\ KeepsRows
    OBVIOUS
  <2>1. KeepsVersions
    <3>1. VersionsGrow
      BY VersionsGrowStep
    <3>2. \A r \in Records : \A s \in Stored(r) : s \in Stored(r)'
      BY <3>1 DEF VersionsGrow
    <3> QED BY <3>1, <3>2 DEF VersionsGrow, KeepsVersions, Stored
  <2> QED BY <2>1, RowsKept, RunsStep
<1>2. HubSpec => [][HubNext]_hubVars
  BY DEF HubSpec
<1> QED BY <1>1, <1>2, HubTypeCorrect, RunsHashCorrect, PTL DEF PublishedStays

-----------------------------------------------------------------------------
(* Used sets                                                                *)

(* One write adds to the used sets what used_set::fix reads for edges that  *)
(* are stored, resolved, after it.                                          *)
LEMMA UsedSetStep ==
  ASSUME HubTypeOK, [HubNext]_hubVars, card_eval_runs' # card_eval_runs
  PROVE  \E card \in Records, seq \in Seqs, rels \in SUBSET Relations :
           /\ card_eval_runs' = InsertUsed(FixUsed(card, seq, rels))
           /\ \A rel \in rels :
                [from |-> card, seq |-> seq, rel |-> rel, resolved |-> TRUE] \in relations'
<1>1. ASSUME NEW w \in Writers, NEW r \in Records, NEW l \in Labels \cup {NoLabel},
             NEW b \in BodiesFor(r), NEW resolved \in SUBSET b.relations,
             Post(w, r, b, l, resolved)
      PROVE  \E card \in Records, seq \in Seqs, rels \in SUBSET Relations :
               /\ card_eval_runs' = InsertUsed(FixUsed(card, seq, rels))
               /\ \A rel \in rels :
                    [from |-> card, seq |-> seq, rel |-> rel, resolved |-> TRUE]
                      \in relations'
  <2>1. NextSeq(r) \in Seqs /\ resolved \in SUBSET Relations
    BY <1>1, HubAssumption DEF Post, WriteVersion, BodiesFor, Bodies, BodyShape
  <2>2. r \in Cards
    <3>1. InsertUsed({}) = card_eval_runs
      BY DEF InsertUsed
    <3> QED BY <1>1, <3>1 DEF Post, WriteVersion
  <2>3. card_eval_runs' = InsertUsed(FixUsed(r, NextSeq(r), resolved))
    BY <1>1, <2>2 DEF Post, WriteVersion
  <2>4. \A rel \in resolved :
          [from |-> r, seq |-> NextSeq(r), rel |-> rel, resolved |-> TRUE] \in relations'
    <3> TAKE rel \in resolved
    <3>1. rel \in b.relations /\ (rel \in resolved) = TRUE
      OBVIOUS
    <3>2. [from |-> r, seq |-> NextSeq(r), rel |-> rel, resolved |-> rel \in resolved]
            \in relations'
      BY <1>1, <3>1 DEF Post, WriteVersion
    <3> QED BY <3>1, <3>2
  <2> QED BY <2>1, <2>3, <2>4
<1>2. ASSUME NEW w \in Writers, NEW r \in Records, NEW s \in Seqs, NEW rel \in NewEdges,
             NEW resolved \in BOOLEAN, AddRelation(w, r, s, rel, resolved)
      PROVE  \E card \in Records, seq \in Seqs, rels \in SUBSET Relations :
               /\ card_eval_runs' = InsertUsed(FixUsed(card, seq, rels))
               /\ \A x \in rels :
                    [from |-> card, seq |-> seq, rel |-> x, resolved |-> TRUE]
                      \in relations'
  <2> DEFINE rels == StoredUses(r, s, rel.to) \cup {rel}
  <2>1. /\ resolved = TRUE
        /\ card_eval_runs' = InsertUsed(FixUsed(r, s, rels))
        /\ relations' = relations \cup
             {[from |-> r, seq |-> s, rel |-> rel, resolved |-> resolved]}
    BY <1>2 DEF AddRelation, AddEdge, ExtendsUsedSet
  <2>2. \A x \in StoredUses(r, s, rel.to) : x \in Relations
          /\ [from |-> r, seq |-> s, rel |-> x, resolved |-> TRUE] \in relations
    <3> TAKE x \in StoredUses(r, s, rel.to)
    <3>1. PICK y \in relations : y.from = r /\ y.seq = s /\ y.resolved /\ y.rel = x
      BY DEF StoredUses
    <3>2. y \in EdgeRow
      BY DEF HubTypeOK
    <3>3. y = [from |-> r, seq |-> s, rel |-> x, resolved |-> TRUE]
      BY <3>1, <3>2 DEF EdgeRow
    <3> QED BY <3>1, <3>2, <3>3 DEF EdgeRow
  <2>3. rels \in SUBSET Relations
    BY <2>2, HubAssumption
  <2>4. \A x \in rels :
          [from |-> r, seq |-> s, rel |-> x, resolved |-> TRUE] \in relations'
    BY <2>1, <2>2
  <2> HIDE DEF rels
  <2> QED BY <2>1, <2>3, <2>4
<1> QED
  BY <1>1, <1>2
     DEF HubNext, ShortWrite, LongWrite, hubVars, SetLabel, SetVisibility, Tombstone,
         SetArchived, DeleteRun, PutRuns, WriteRuns

(* A used run is recorded once, under one hash.                             *)
THEOREM UsedRunsUnique == HubSpec => []UsedKeyUnique
<1>1. HubInit => UsedKeyUnique
  BY DEF HubInit, UsedKeyUnique
<1>2. HubTypeOK /\ UsedKeyUnique /\ [HubNext]_hubVars => UsedKeyUnique'
  <2> SUFFICES ASSUME HubTypeOK, UsedKeyUnique, [HubNext]_hubVars,
                      card_eval_runs' # card_eval_runs
               PROVE  UsedKeyUnique'
    BY DEF UsedKeyUnique
  <2>1. PICK card \in Records, seq \in Seqs, rels \in SUBSET Relations :
          card_eval_runs' = InsertUsed(FixUsed(card, seq, rels))
    BY UsedSetStep
  <2>2. \A u, v \in FixUsed(card, seq, rels) : u.eval = v.eval /\ u.run = v.run => u = v
    <3> TAKE u, v \in FixUsed(card, seq, rels)
    <3>1. \A x \in FixUsed(card, seq, rels) :
            x = [card |-> card, seq |-> seq, eval |-> x.eval, run |-> x.run,
                 content_hash |-> runs[x.eval][x.run].content_hash]
      BY DEF FixUsed
    <3> QED BY <3>1
  <2> QED BY <2>1, <2>2 DEF InsertUsed, UsedKeyUnique
<1> QED BY <1>1, <1>2, HubTypeCorrect, PTL DEF HubSpec

(* A used run keeps its row and its edge.                                   *)
THEOREM UsedRunsBacked == HubSpec => []UsedBacked
<1>1. HubInit => UsedBacked
  BY DEF HubInit, UsedBacked
<1>2. HubTypeOK /\ RunsHashAgrees /\ UsedBacked /\ [HubNext]_hubVars => UsedBacked'
  <2> SUFFICES ASSUME HubTypeOK, RunsHashAgrees, UsedBacked, [HubNext]_hubVars,
                      NEW u \in card_eval_runs'
               PROVE  u.run \in RunRows(u.eval)' /\ StoredUses(u.card, u.seq, u.eval)' # {}
    BY DEF UsedBacked
  <2>1. KeepsDeletedRuns /\ KeepsRows
    BY RunsStep, RowsKept
  <2>2. \A e \in Evals : RunRows(e) \subseteq RunRows(e)'
    BY <2>1 DEF KeepsDeletedRuns, RunRows
  <2>3. CASE u \in card_eval_runs
    <3>1. u.eval \in Evals
      BY <2>3 DEF HubTypeOK, UsedRow
    <3>2. StoredUses(u.card, u.seq, u.eval) \subseteq StoredUses(u.card, u.seq, u.eval)'
      BY <2>1 DEF KeepsRows, StoredUses
    <3> QED BY <2>2, <2>3, <3>1, <3>2 DEF UsedBacked
  <2>4. CASE u \notin card_eval_runs
    <3>1. PICK card \in Records, seq \in Seqs, rels \in SUBSET Relations :
            /\ card_eval_runs' = InsertUsed(FixUsed(card, seq, rels))
            /\ \A rel \in rels :
                 [from |-> card, seq |-> seq, rel |-> rel, resolved |-> TRUE] \in relations'
      BY <2>4, UsedSetStep
    <3>2. u \in FixUsed(card, seq, rels)
      BY <2>4, <3>1 DEF InsertUsed
    <3>3. PICK rel \in UsesEval(rels) : rel.to = u.eval /\ u.run \in UsedRuns(rels, u.eval)
      BY <3>2 DEF FixUsed
    <3>4. u.card = card /\ u.seq = seq
      BY <3>2 DEF FixUsed
    <3>5. u.run \in RunRows(u.eval) /\ u.eval \in Evals
      BY <3>3 DEF UsesEval, UsedRuns, LiveRuns
    <3> DEFINE edge == [from |-> card, seq |-> seq, rel |-> rel, resolved |-> TRUE]
    <3>6. edge \in relations' /\ rel.type = "core/uses_eval"
      BY <3>1, <3>3 DEF UsesEval
    <3>7. edge.rel \in StoredUses(u.card, u.seq, u.eval)'
      BY <3>3, <3>4, <3>6 DEF StoredUses
    <3> QED BY <2>2, <3>5, <3>7
  <2> QED BY <2>3, <2>4
<1> QED BY <1>1, <1>2, HubTypeCorrect, RunsHashCorrect, PTL DEF HubSpec

(* Every judgement of a Card is of a run the Card used.                     *)
THEOREM JudgementsOfUsedRuns == HubSpec => []JudgedWasUsed
<1>1. HubInit => JudgedWasUsed
  BY DEF HubInit, JudgedWasUsed
<1>2. HubTypeOK /\ JudgedWasUsed /\ [HubNext]_hubVars => JudgedWasUsed'
  <2> SUFFICES ASSUME HubTypeOK, JudgedWasUsed, [HubNext]_hubVars, NEW j \in run_results'
               PROVE  \E u \in card_eval_runs' :
                        u.card = j.card /\ u.seq = j.seq /\ u.eval = j.eval /\ u.run = j.run
    BY DEF JudgedWasUsed
  <2>1. CASE j \in run_results
    BY <2>1, RowsKept DEF KeepsRows, JudgedWasUsed
  <2>2. CASE j \notin run_results
    <3>0. ASSUME NEW w, ~ \E r \in Records, l \in Labels \cup {NoLabel} :
                            \E b \in BodiesFor(r) : \E resolved \in SUBSET b.relations :
                               Post(w, r, b, l, resolved),
                 ShortWrite(w) \/ LongWrite(w)
          PROVE  run_results' = run_results
      <4>1. CASE ShortWrite(w)
        BY <4>1 DEF ShortWrite, SetLabel, SetVisibility, Tombstone, SetArchived, DeleteRun
      <4>2. CASE LongWrite(w)
        BY <3>0, <4>2 DEF LongWrite, PutRuns, WriteRuns, AddRelation, AddEdge
      <4> QED BY <3>0, <4>1, <4>2
    <3>9. \E w, r, l, b, resolved : Post(w, r, b, l, resolved)
      BY <2>2, <3>0 DEF HubNext, hubVars
    <3>1. PICK w, r, l, b, resolved : Post(w, r, b, l, resolved)
      BY <3>9, Zenon
    <3>2. r \in Cards
      BY <2>2, <3>1 DEF Post, WriteVersion
    <3>3. PICK judged \in b.run_results :
            j = [card |-> r, seq |-> NextSeq(r), eval |-> judged[1], run |-> judged[2]]
      BY <2>2, <3>1, <3>2 DEF Post, WriteVersion
    <3> DEFINE rows == FixUsed(r, NextSeq(r), resolved)
               u == [card |-> r, seq |-> NextSeq(r), eval |-> judged[1], run |-> judged[2],
                     content_hash |-> runs[judged[1]][judged[2]].content_hash]
    <3>4. /\ judged[1] \in {rel.to : rel \in UsesEval(resolved)}
          /\ judged[2] \in UsedRuns(resolved, judged[1])
      BY <3>1, <3>2 DEF Post, ResultsOutside
    <3>5. u \in rows
      BY <3>4 DEF FixUsed
    <3>6. card_eval_runs' = InsertUsed(rows)
      BY <3>1, <3>2 DEF Post, WriteVersion
    <3>7. u.card = j.card /\ u.seq = j.seq /\ u.eval = j.eval /\ u.run = j.run
      BY <3>3
    <3> HIDE DEF rows, u
    <3> QED BY <3>5, <3>6, <3>7 DEF InsertUsed
  <2> QED BY <2>1, <2>2
<1> QED BY <1>1, <1>2, HubTypeCorrect, PTL DEF HubSpec

(* The refs_resolved badge is what the stored edges say.                    *)
THEOREM BadgesHonest == HubSpec => []RefsBadgeHonest
<1>1. HubInit => RefsBadgeHonest
  BY DEF HubInit, RefsBadgeHonest, Stored
<1>2. HubTypeOK /\ RefsBadgeHonest /\ [HubNext]_hubVars => RefsBadgeHonest'
  <2> SUFFICES ASSUME HubTypeOK, RefsBadgeHonest, [HubNext]_hubVars, NEW r \in Records,
                      NEW s \in Stored(r)', versions'[r][s].refs_resolved,
                      NEW rel \in versions'[r][s].content_hash.relations
               PROVE  [from |-> r, seq |-> s, rel |-> rel, resolved |-> TRUE] \in relations'
    BY DEF RefsBadgeHonest
  <2>1. VersionsGrow /\ KeepsRows
    BY VersionsGrowStep, RowsKept
  <2>2. CASE s \in Stored(r)
    BY <2>1, <2>2 DEF VersionsGrow, KeepsRows, RefsBadgeHonest
  <2>3. CASE s \notin Stored(r)
    <3>1. PICK w \in Writers, l \in Labels \cup {NoLabel}, b \in BodiesFor(r) :
            \E resolved \in SUBSET b.relations :
              /\ Post(w, r, b, l, resolved)
              /\ versions'[r][s] = [content_hash |-> b, label |-> l, tombstoned |-> FALSE,
                                    refs_resolved |-> AllResolved(b, resolved)]
      BY <2>3, AddedByPost
    <3>2. PICK resolved \in SUBSET b.relations :
            /\ Post(w, r, b, l, resolved)
            /\ versions'[r][s] = [content_hash |-> b, label |-> l, tombstoned |-> FALSE,
                                  refs_resolved |-> AllResolved(b, resolved)]
      BY <3>1
    <3>3. resolved = b.relations /\ rel \in b.relations /\ (rel \in resolved) = TRUE
      <4>1. versions'[r][s].content_hash = b
            /\ versions'[r][s].refs_resolved = AllResolved(b, resolved)
        BY <3>2
      <4> QED BY <4>1 DEF AllResolved
    <3>4. s = NextSeq(r)
      BY <2>1, <2>3 DEF VersionsGrow
    <3>5. [from |-> r, seq |-> s, rel |-> rel, resolved |-> rel \in resolved] \in relations'
      BY <3>2, <3>3, <3>4 DEF Post, WriteVersion
    <3> QED BY <3>3, <3>5
  <2> QED BY <2>2, <2>3
<1> QED BY <1>1, <1>2, HubTypeCorrect, PTL DEF HubSpec

================================================================================
