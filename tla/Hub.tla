---------------------------------- MODULE Hub ----------------------------------
(***************************************************************************)
(* What evalhub-store promises about its tables: named records with         *)
(* versions, the runs of an Eval, and the runs a Card version used.  Every  *)
(* write is one atomic step on the committed rows.  RecordStore.tla breaks   *)
(* the three multi-statement writes (create_or_append, put/put_batch,       *)
(* relations::add) into the statements and row locks of their transactions  *)
(* and is shown to implement this module.                                   *)
(*                                                                         *)
(* A JSON body is a record of what the store reads out of it; a content     *)
(* hash is the hashed value itself (collision-free).                        *)
(***************************************************************************)
EXTENDS Integers, FiniteSets, FiniteSetsExt

CONSTANTS
  Evals, Cards,     \* record ids (records.id): naturals, as locks go in id order
  Ns, NsOf,         \* namespaces; the namespace of each record
  Writers, Covers,  \* API callers; the namespaces each one's token covers
  HeaderBodies, CardBodies,  \* the version bodies callers post to each kind
  Labels, NoLabel,  \* version labels; the SQL NULL
  RunIds,
  RunBodies,        \* run bodies as sent
  Omits,            \* those that leave a facet out, to be copied from the header
  NoHeader,
  NewEdges,         \* the edges callers add after ingest
  MaxSeq,           \* bound: versions per record
  NoRow             \* no row under this key

Records == Evals \cup Cards
Bodies == HeaderBodies \cup CardBodies
BodiesFor(r) == IF r \in Cards THEN CardBodies ELSE HeaderBodies
Seqs == 1..MaxSeq

(* One relations[] element.  named: attrs carries a runs array.            *)
Relations == [type : {"core/uses_eval", "other"}, to : Records, seq : Seqs,
              named : BOOLEAN, runs : SUBSET RunIds]

(* results[] of a body are side rows nothing here reads; run_results[] are  *)
(* the Card's judgements of single runs.                                    *)
BodyShape == [id : Nat, relations : SUBSET Relations,
              run_results : SUBSET (Evals \X RunIds)]

ASSUME HubAssumption ==
  /\ Evals \subseteq Nat /\ Cards \subseteq Nat /\ Evals \cap Cards = {}
  /\ IsFiniteSet(Evals)
  /\ NsOf \in [Records -> Ns]
  /\ Covers \in [Writers -> SUBSET Ns]
  /\ Bodies \subseteq BodyShape
  /\ NewEdges \subseteq Relations
  /\ Omits \subseteq RunBodies
  /\ NoLabel \notin Labels
  /\ MaxSeq \in Nat

ASSUME BodiesAreValid ==   \* evalhub_core::validate: run_results_eval_unknown
  \A b \in Bodies : \A j \in b.run_results :
     \E rel \in b.relations : rel.type = "core/uses_eval" /\ rel.to = j[1]

Contents == RunBodies \X (Bodies \cup {NoHeader})

VersionRow == [content_hash : Bodies, label : Labels \cup {NoLabel},
               tombstoned : BOOLEAN, refs_resolved : BOOLEAN]
RunRow == [content_hash : Contents, archived : BOOLEAN, tombstoned : BOOLEAN]

ASSUME NoRowAssumption == NoRow \notin VersionRow /\ NoRow \notin RunRow

VARIABLES
  visibility,   \* records.visibility (a name without versions has no row yet)
  versions,     \* versions, by (record_id, seq)
  runs,         \* runs, by (record_id, run_id)
  runs_hash,    \* records.runs_hash: the (run_id, content_hash) pairs it digests
  relations,    \* relations rows; resolved: to_version_id is not NULL
  card_eval_runs, \* the used sets, with the hashes at posting time
  run_results   \* run_results rows
hubVars == <<visibility, versions, runs, runs_hash, relations, card_eval_runs,
             run_results>>

EdgeRow == [from : Records, seq : Seqs, rel : Relations, resolved : BOOLEAN]
UsedRow == [card : Records, seq : Seqs, eval : Evals, run : RunIds,
            content_hash : Contents]
JudgedRow == [card : Records, seq : Seqs, eval : Evals, run : RunIds]

HubTypeOK ==
  /\ visibility \in [Records -> {"private", "public"}]
  /\ versions \in [Records -> [Seqs -> VersionRow \cup {NoRow}]]
  /\ runs \in [Evals -> [RunIds -> RunRow \cup {NoRow}]]
  /\ runs_hash \in [Evals -> SUBSET (RunIds \X Contents)]
  /\ relations \subseteq EdgeRow
  /\ card_eval_runs \subseteq UsedRow
  /\ run_results \subseteq JudgedRow

HubInit ==
  /\ visibility = [r \in Records |-> "private"]
  /\ versions = [r \in Records |-> [s \in Seqs |-> NoRow]]
  /\ runs = [e \in Evals |-> [i \in RunIds |-> NoRow]]
  /\ runs_hash = [e \in Evals |-> {}]
  /\ relations = {}
  /\ card_eval_runs = {}
  /\ run_results = {}

-----------------------------------------------------------------------------
(* Reading the tables                                                       *)

Stored(r) == {s \in Seqs : versions[r][s] # NoRow}
Live(r) == {s \in Stored(r) : ~versions[r][s].tombstoned}
Exists(r) == Stored(r) # {}
LatestBody(r) == versions[r][Max(Live(r))].content_hash

(* seq = max(seq) + 1, tombstoned versions counted.                         *)
NextSeq(r) == Max(Stored(r) \cup {0}) + 1

Visible(w, r) == visibility[r] = "public" \/ NsOf[r] \in Covers[w]
MayWrite(w, r) == NsOf[r] \in Covers[w]

RunRows(e) == {i \in RunIds : runs[e][i] # NoRow}
LiveRuns(e) == {i \in RunRows(e) : ~runs[e][i].archived /\ ~runs[e][i].tombstoned}
DigestOfLiveRuns(row) ==  \* archived and deleted runs left out
  {<<i, row[i].content_hash>> :
     i \in {j \in RunIds : row[j] # NoRow /\ ~row[j].archived /\ ~row[j].tombstoned}}
Digest(row) == {<<i, row[i].content_hash>> : i \in {j \in RunIds : row[j] # NoRow}}

(* evalhub_core::run::materialise, then the hash of the result.             *)
Materialise(body, header) ==
  IF body \in Omits THEN <<body, header>> ELSE <<body, NoHeader>>

-----------------------------------------------------------------------------
(* The used set (used_set.rs)                                               *)

UsesEval(rels) == {rel \in rels : rel.type = "core/uses_eval" /\ rel.to \in Evals}
Naming(rels, e) == {rel \in UsesEval(rels) : rel.to = e /\ rel.named}
NamedRuns(rels, e) == UNION {rel.runs : rel \in Naming(rels, e)}

UsedRuns(rels, e) ==
  IF Naming(rels, e) = {} THEN LiveRuns(e) ELSE NamedRuns(rels, e) \cap RunRows(e)

(* used_set::fix for the edges rels of version seq of card.                 *)
FixUsed(card, seq, rels) ==
  UNION {{[card |-> card, seq |-> seq, eval |-> e, run |-> i,
           content_hash |-> runs[e][i].content_hash] : i \in UsedRuns(rels, e)}
          : e \in {rel.to : rel \in UsesEval(rels)}}

(* run_unknown at /relations/{j}/attrs/runs/{k}                             *)
RunsUnknown(rels) ==
  \E rel \in UsesEval(rels) : rel.named /\ ~(rel.runs \subseteq RunRows(rel.to))

ResultsWithoutRow(body, rels) ==  \* run_unknown, without run_not_in_used_set
  \E j \in body.run_results :
     \/ j[1] \notin {rel.to : rel \in UsesEval(rels)}
     \/ j[2] \notin RunRows(j[1])
(* run_unknown or run_not_in_used_set at /run_results/{i}/run_id            *)
ResultsOutside(body, rels) ==
  \E j \in body.run_results :
     \/ j[1] \notin {rel.to : rel \in UsesEval(rels)}
     \/ j[2] \notin UsedRuns(rels, j[1])

AppendUsed(rows) == card_eval_runs \cup rows  \* without the conflict clause
(* ON CONFLICT (card_version_id, eval_record_id, run_id) DO NOTHING         *)
InsertUsed(rows) ==
  card_eval_runs \cup
  {n \in rows : \A u \in card_eval_runs :
     <<n.card, n.seq, n.eval, n.run>> # <<u.card, u.seq, u.eval, u.run>>}

-----------------------------------------------------------------------------
(* The writes                                                               *)

NeverLatest(r, body) == FALSE  \* every post appends
IsLatest(r, body) == Live(r) # {} /\ LatestBody(r) = body
LabelTaken(r, label) ==
  label # NoLabel /\ \E s \in Stored(r) : versions[r][s].label = label

AllExist(body, resolved) ==  \* visibility forgotten
  \A rel \in body.relations : versions[rel.to][rel.seq] # NoRow
AllResolved(body, resolved) == resolved = body.relations

(* INSERT the version row and its side rows (create_or_append, step 8).     *)
WriteVersion(r, seq, body, label, resolved, used) ==
  /\ seq \in Seqs
  /\ versions' = [versions EXCEPT ![r][seq] =
       [content_hash |-> body, label |-> label, tombstoned |-> FALSE,
        refs_resolved |-> AllResolved(body, resolved)]]
  /\ relations' = relations \cup
       {[from |-> r, seq |-> seq, rel |-> rel, resolved |-> rel \in resolved]
          : rel \in body.relations}
  /\ card_eval_runs' = InsertUsed(used)
  /\ run_results' = run_results \cup
       (IF r \in Cards
        THEN {[card |-> r, seq |-> seq, eval |-> j[1], run |-> j[2]]
                : j \in body.run_results}
        ELSE {})
  /\ UNCHANGED <<visibility, runs, runs_hash>>

(* A version is appended with the relations that resolved.  Which ones did  *)
(* is the writer's view at some earlier moment, except that a Card's used   *)
(* sets are fixed in Evals it may see now.                                  *)
Post(w, r, body, label, resolved) ==
  /\ MayWrite(w, r)
  /\ ~IsLatest(r, body)
  /\ ~LabelTaken(r, label)
  /\ resolved \subseteq body.relations
  /\ \A rel \in resolved : versions[rel.to][rel.seq] # NoRow
  /\ r \in Cards =>
       /\ \A rel \in UsesEval(resolved) : Visible(w, rel.to)
       /\ ~RunsUnknown(resolved)
       /\ ~ResultsOutside(body, resolved)
  /\ WriteVersion(r, NextSeq(r), body, label, resolved,
       IF r \in Cards THEN FixUsed(r, NextSeq(r), resolved) ELSE {})

SetLabelOnly(w, r, s, label) ==  \* without clearing the previous holder
  /\ MayWrite(w, r) /\ s \in Stored(r)
  /\ versions' = [versions EXCEPT ![r][s].label = label]
  /\ UNCHANGED <<visibility, runs, runs_hash, relations, card_eval_runs, run_results>>
(* Move a label to version s from whichever version held it.                *)
SetLabel(w, r, s, label) ==
  /\ MayWrite(w, r) /\ s \in Stored(r)
  /\ versions' = [versions EXCEPT ![r] = [q \in Seqs |->
       IF q = s THEN [versions[r][q] EXCEPT !.label = label]
       ELSE IF q \in Stored(r) /\ versions[r][q].label = label
            THEN [versions[r][q] EXCEPT !.label = NoLabel]
            ELSE versions[r][q]]]
  /\ UNCHANGED <<visibility, runs, runs_hash, relations, card_eval_runs, run_results>>

SetVisibility(w, r, v) ==
  /\ MayWrite(w, r) /\ Exists(r)
  /\ visibility' = [visibility EXCEPT ![r] = v]
  /\ UNCHANGED <<versions, runs, runs_hash, relations, card_eval_runs, run_results>>

DropVersion(w, r, s) ==  \* a DELETE where the code writes a tombstone
  /\ MayWrite(w, r) /\ s \in Live(r)
  /\ versions' = [versions EXCEPT ![r][s] = NoRow]
  /\ UNCHANGED <<visibility, runs, runs_hash, relations, card_eval_runs, run_results>>
TombstoneHash(w, r, s) ==  \* the hash goes with the body
  /\ MayWrite(w, r) /\ s \in Live(r)
  /\ versions' = [versions EXCEPT ![r][s].tombstoned = TRUE, ![r][s].content_hash = NoHeader]
  /\ UNCHANGED <<visibility, runs, runs_hash, relations, card_eval_runs, run_results>>
(* The body goes; the row, its hash, its label and its edges stay.          *)
Tombstone(w, r, s) ==
  /\ MayWrite(w, r) /\ s \in Live(r)
  /\ versions' = [versions EXCEPT ![r][s].tombstoned = TRUE]
  /\ UNCHANGED <<visibility, runs, runs_hash, relations, card_eval_runs, run_results>>

(* The rows of e after a batch (run_id |-> body), given the rows `prior`    *)
(* the write read and the header it materialised from.  An overwritten run  *)
(* keeps archived; an unchanged one is not written.                         *)
AfterBatch(e, batch, prior, header) ==
  [i \in RunIds |->
     IF i \notin DOMAIN batch THEN runs[e][i]
     ELSE LET hash == Materialise(batch[i], header)
          IN IF prior[i] # NoRow /\ prior[i].content_hash = hash THEN runs[e][i]
             ELSE [content_hash |-> hash,
                   archived |-> runs[e][i] # NoRow /\ runs[e][i].archived,
                   tombstoned |-> runs[e][i] # NoRow /\ runs[e][i].tombstoned]]

WriteRuns(e, batch, prior, header) ==
  /\ runs' = [runs EXCEPT ![e] = AfterBatch(e, batch, prior, header)]
  /\ runs_hash' = [runs_hash EXCEPT ![e] =
       IF runs'[e] = runs[e] THEN runs_hash[e] ELSE Digest(runs'[e])]
  /\ UNCHANGED <<visibility, versions, relations, card_eval_runs, run_results>>

NoneDeleted(batch, prior) == FALSE  \* the check dropped
(* run_deleted: an id in the batch whose row is tombstoned                  *)
NamesDeleted(batch, prior) ==
  \E i \in DOMAIN batch : prior[i] # NoRow /\ prior[i].tombstoned

PutRuns(w, e, batch) ==
  /\ MayWrite(w, e)
  /\ Live(e) # {}
  /\ ~NamesDeleted(batch, runs[e])
  /\ WriteRuns(e, batch, runs[e], LatestBody(e))

SetArchived(w, e, i, archived) ==
  /\ MayWrite(w, e) /\ Live(e) # {}
  /\ i \in RunRows(e) /\ ~runs[e][i].tombstoned
  /\ runs' = [runs EXCEPT ![e][i].archived = archived]
  /\ UNCHANGED <<visibility, versions, runs_hash, relations, card_eval_runs, run_results>>

RemoveRun(w, e, i) ==    \* a DELETE where the code writes a tombstone
  /\ MayWrite(w, e) /\ Live(e) # {}
  /\ i \in RunRows(e) /\ ~runs[e][i].tombstoned
  /\ runs' = [runs EXCEPT ![e][i] = NoRow]
  /\ UNCHANGED <<visibility, versions, runs_hash, relations, card_eval_runs, run_results>>
DeleteRun(w, e, i) ==
  /\ MayWrite(w, e) /\ Live(e) # {}
  /\ i \in RunRows(e) /\ ~runs[e][i].tombstoned
  /\ runs' = [runs EXCEPT ![e][i].tombstoned = TRUE]
  /\ UNCHANGED <<visibility, versions, runs_hash, relations, card_eval_runs, run_results>>

(* The stored uses_eval edges of a Card version into Eval record e          *)
StoredUses(card, s, e) ==
  {x.rel : x \in {y \in relations : y.from = card /\ y.seq = s /\ y.resolved
                                    /\ y.rel.type = "core/uses_eval"
                                    /\ y.rel.to = e}}

(* relations::add.  Only a resolved uses_eval edge from a Card into an Eval *)
(* touches a used set, and then it only grows.                              *)
ExtendsUsedSet(r, rel, resolved) ==
  resolved /\ r \in Cards /\ rel.type = "core/uses_eval" /\ rel.to \in Evals

AddEdge(r, s, rel, resolved) ==
  /\ relations' = relations \cup
       {[from |-> r, seq |-> s, rel |-> rel, resolved |-> resolved]}
  /\ card_eval_runs' =
       IF ExtendsUsedSet(r, rel, resolved)
       THEN InsertUsed(FixUsed(r, s, StoredUses(r, s, rel.to) \cup {rel}))
       ELSE card_eval_runs
  /\ UNCHANGED <<visibility, versions, runs, runs_hash, run_results>>

AddRelation(w, r, s, rel, resolved) ==
  /\ MayWrite(w, r)
  /\ s \in Stored(r)
  /\ resolved => versions[rel.to][rel.seq] # NoRow
  /\ ExtendsUsedSet(r, rel, resolved) => Visible(w, rel.to) /\ ~RunsUnknown({rel})
  /\ AddEdge(r, s, rel, resolved)

-----------------------------------------------------------------------------
Batches == UNION {[ids -> RunBodies] : ids \in SUBSET RunIds \ {{}}}

(* The single-statement writes: they read nothing before their lock.        *)
ShortWrite(w) ==
  \/ \E r \in Records, s \in Seqs, l \in Labels : SetLabel(w, r, s, l)
  \/ \E r \in Records, v \in {"private", "public"} : SetVisibility(w, r, v)
  \/ \E r \in Records, s \in Seqs : Tombstone(w, r, s)
  \/ \E e \in Evals, i \in RunIds, a \in BOOLEAN : SetArchived(w, e, i, a)
  \/ \E e \in Evals, i \in RunIds : DeleteRun(w, e, i)

LongWrite(w) ==
  \/ \E r \in Records, l \in Labels \cup {NoLabel} : \E b \in BodiesFor(r) :
       \E resolved \in SUBSET b.relations : Post(w, r, b, l, resolved)
  \/ \E e \in Evals, batch \in Batches : PutRuns(w, e, batch)
  \/ \E r \in Records, s \in Seqs, rel \in NewEdges, resolved \in BOOLEAN :
       AddRelation(w, r, s, rel, resolved)

HubNext == \E w \in Writers : ShortWrite(w) \/ LongWrite(w)

HubSpec == HubInit /\ [][HubNext]_hubVars

-----------------------------------------------------------------------------
(* Safety                                                                   *)

(* The seqs of a record are 1, 2, ..., n: no post, concurrent or after a    *)
(* tombstone, leaves a gap or reuses one (create_or_append, steps 1 and 6). *)
SeqGapFree == \A r \in Records : \A s \in Stored(r) : 1..s \subseteq Stored(r)

(* Identical posts, concurrent or retried, make one version: a version never *)
(* repeats the live one right before it (create_or_append, steps 1-3).      *)
NoRepeatedVersion ==
  \A r \in Records : \A s, q \in Live(r) :
     q = s + 1 => versions[r][q].content_hash # versions[r][s].content_hash

(* A label names at most one version of a record, tombstoned ones counted,  *)
(* whatever mix of ?label= posts and label moves ran.                       *)
LabelUnique ==
  \A r \in Records : \A s, q \in Stored(r) :
     versions[r][s].label = versions[r][q].label /\ versions[r][s].label # NoLabel
       => s = q

(* records.runs_hash always digests the rows of the Eval, archived and      *)
(* deleted ones included (write_runs step 5, recompute_runs_hash).          *)
RunsHashAgrees ==
  \A e \in Evals : runs_hash[e] = {<<i, runs[e][i].content_hash>> : i \in RunRows(e)}

(* A Card's judgement is always of a run in its used set: the check at      *)
(* ingest stays true although edges are added, runs overwritten, archived   *)
(* or deleted later (relations::add: "the used set only grows").            *)
JudgedWasUsed ==
  \A j \in run_results : \E u \in card_eval_runs :
     /\ u.card = j.card /\ u.seq = j.seq
     /\ u.eval = j.eval /\ u.run = j.run

(* A used run is recorded once per Card version, under one hash.            *)
UsedKeyUnique ==
  \A u, v \in card_eval_runs :
     u.card = v.card /\ u.seq = v.seq /\ u.eval = v.eval /\ u.run = v.run => u = v

(* Every recorded used run still has its row, and the Card version has a    *)
(* resolved core/uses_eval edge into that Eval: no edge, no used set.       *)
UsedBacked ==
  \A u \in card_eval_runs :
     /\ u.run \in RunRows(u.eval)
     /\ StoredUses(u.card, u.seq, u.eval) # {}

(* The refs_resolved badge and the stored edges of the version agree.       *)
RefsBadgeHonest ==
  \A r \in Records : \A s \in Stored(r) :
     versions[r][s].refs_resolved =>
       \A rel \in versions[r][s].content_hash.relations :
         [from |-> r, seq |-> s, rel |-> rel, resolved |-> TRUE] \in relations

(* Nothing that was published is rewritten: a version keeps its hash and    *)
(* badge and never comes back from its tombstone, a deleted run keeps its   *)
(* hash, edges and used runs are only added.                                *)
KeepsVersions ==
  \A r \in Records : \A s \in Stored(r) :
     /\ versions'[r][s] # NoRow
     /\ versions'[r][s].content_hash = versions[r][s].content_hash
     /\ versions'[r][s].refs_resolved = versions[r][s].refs_resolved
     /\ versions[r][s].tombstoned => versions'[r][s].tombstoned
KeepsDeletedRuns ==
  \A e \in Evals : \A i \in RunRows(e) :
     /\ runs'[e][i] # NoRow
     /\ runs[e][i].tombstoned => runs'[e][i] = runs[e][i]
KeepsRows ==
  /\ relations \subseteq relations'
  /\ card_eval_runs \subseteq card_eval_runs'
  /\ run_results \subseteq run_results'
PublishedStays == [][KeepsVersions /\ KeepsDeletedRuns /\ KeepsRows]_hubVars
================================================================================
