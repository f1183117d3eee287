------------------------------ MODULE RecordStore ------------------------------
(***************************************************************************)
(* The transactions of records.rs, runs.rs and relations.rs over the tables *)
(* of Hub.tla, under READ COMMITTED with the row locks they take.  A writer *)
(* is one request in flight; its uncommitted rows are invisible, so a step  *)
(* either takes a lock, reads committed rows into the writer's locals, or   *)
(* commits.  Statements that run back to back under the lock of the only    *)
(* record they touch are one step (set_label, set_visibility, tombstone,    *)
(* archive, delete).                                                        *)
(***************************************************************************)
EXTENDS Hub

CONSTANT None   \* no lock holder, no job

VARIABLES
  pc,       \* where each writer's transaction stands
  job,      \* what it was asked to do
  resolved, \* its relations that resolved (step 5; relations::add before its BEGIN)
  seqRead,  \* step 6's max(seq) + 1
  used,     \* the used sets step 5b fixed
  header,   \* the header a run write materialises from
  prior,    \* the run rows it found
  xlock,    \* record row -> the writer holding it FOR UPDATE
  slock     \* record row -> the writers holding it FOR SHARE

txVars == <<pc, job, resolved, seqRead, used, header, prior, xlock, slock>>
vars == <<hubVars, txVars>>

PostJob == [rec : Records, body : Bodies, label : Labels \cup {NoLabel}]
PutJob == [rec : Evals, batch : Batches]
AddJob == [rec : Records, seq : Seqs, rel : NewEdges]

PostPc == {"resolve", "share", "commit"}
AddPc == {"add", "addshare"}

ASSUME NoneAssumption == None \notin Writers /\ None \notin Records

TypeOK ==
  /\ HubTypeOK
  /\ pc \in [Writers -> {"idle", "put"} \cup PostPc \cup AddPc]
  /\ job \in [Writers -> PostJob \cup PutJob \cup AddJob \cup {None}]
  /\ resolved \in [Writers -> SUBSET Relations]
  /\ seqRead \in [Writers -> Nat]
  /\ used \in [Writers -> SUBSET [card : Records, seq : Nat, eval : Evals,
                                  run : RunIds, content_hash : Contents]]
  /\ header \in [Writers -> Bodies \cup {NoHeader}]
  /\ prior \in [Writers -> [RunIds -> RunRow \cup {NoRow}]]
  /\ xlock \in [Records -> Writers \cup {None}]
  /\ slock \in [Records -> SUBSET Writers]

NoRuns == [i \in RunIds |-> NoRow]

Quiet ==   \* no request in flight
  /\ pc = [w \in Writers |-> "idle"]
  /\ job = [w \in Writers |-> None]
  /\ resolved = [w \in Writers |-> {}]
  /\ seqRead = [w \in Writers |-> 0]
  /\ used = [w \in Writers |-> {}]
  /\ header = [w \in Writers |-> NoHeader]
  /\ prior = [w \in Writers |-> NoRuns]
  /\ xlock = [r \in Records |-> None]
  /\ slock = [r \in Records |-> {}]

Init == HubInit /\ Quiet

-----------------------------------------------------------------------------
(* Row locks.  FOR UPDATE excludes every other holder, FOR SHARE only an    *)
(* exclusive one.                                                           *)

NoLockTaken(w, r) == TRUE  \* a plain SELECT
FreeForUpdate(w, r) == xlock[r] \in {None, w} /\ slock[r] \subseteq {w}
FreeForShare(w, r) == xlock[r] \in {None, w}

LocksReleased(w) ==
  /\ xlock' = [r \in Records |-> IF xlock[r] = w THEN None ELSE xlock[r]]
  /\ slock' = [r \in Records |-> slock[r] \ {w}]

Forget(w) ==
  /\ pc' = [pc EXCEPT ![w] = "idle"]
  /\ job' = [job EXCEPT ![w] = None]
  /\ resolved' = [resolved EXCEPT ![w] = {}]
  /\ seqRead' = [seqRead EXCEPT ![w] = 0]
  /\ used' = [used EXCEPT ![w] = {}]
  /\ header' = [header EXCEPT ![w] = NoHeader]
  /\ prior' = [prior EXCEPT ![w] = NoRuns]

(* COMMIT or ROLLBACK: the locks go with the transaction.                   *)
End(w) == LocksReleased(w) /\ Forget(w)
Rollback(w) == End(w) /\ UNCHANGED hubVars

(* The Evals step 5b locks: those the uses_eval edges resolved to.          *)
Candidates(w) ==
  IF job[w].rec \in Cards THEN {rel.to : rel \in UsesEval(resolved[w])} ELSE {}
Unlocked(w) == {e \in Candidates(w) : w \notin slock[e]}

(* lock_evals: SELECT ... ORDER BY id FOR SHARE, one row after the other.   *)
FirstUnlocked(w) == {e \in Unlocked(w) : \A f \in Unlocked(w) : e <= f}
ShareNextExclusive(w) ==     \* FOR UPDATE, without the ORDER BY
  /\ \E e \in Unlocked(w) : FreeForUpdate(w, e) /\ slock' = [slock EXCEPT ![e] = @ \cup {w}]
  /\ UNCHANGED <<hubVars, pc, job, resolved, seqRead, used, header, prior, xlock>>
ShareNext(w) ==
  /\ \E e \in FirstUnlocked(w) :
       FreeForShare(w, e) /\ slock' = [slock EXCEPT ![e] = @ \cup {w}]
  /\ UNCHANGED <<hubVars, pc, job, resolved, seqRead, used, header, prior, xlock>>

(* resolve_version / resolve_ref: a version that exists, in a record the    *)
(* writer may see.  Unlocked reads.                                         *)
Resolves(w, rel) ==
  versions[rel.to][rel.seq] # NoRow /\ Visible(w, rel.to)

-----------------------------------------------------------------------------
(* create_or_append                                                         *)

(* Steps 1-3.  The unique index on (type, ns, name) makes a second insert   *)
(* of a new name wait exactly as FOR UPDATE does on an existing one.  An    *)
(* idempotent hit answers with the stored version and changes nothing.      *)
PostBegin(w, r, body, label) ==
  /\ pc[w] = "idle" /\ MayWrite(w, r)
  /\ FreeForUpdate(w, r)
  /\ ~IsLatest(r, body)
  /\ NextSeq(r) \in Seqs
  /\ xlock' = [xlock EXCEPT ![r] = w]
  /\ pc' = [pc EXCEPT ![w] = "resolve"]
  /\ job' = [job EXCEPT ![w] = [rec |-> r, body |-> body, label |-> label]]
  /\ UNCHANGED <<hubVars, resolved, seqRead, used, header, prior, slock>>

(* Step 5.                                                                  *)
PostResolve(w) ==
  /\ pc[w] = "resolve"
  /\ resolved' = [resolved EXCEPT ![w] =
       {rel \in job[w].body.relations : Resolves(w, rel)}]
  /\ pc' = [pc EXCEPT ![w] = "share"]
  /\ UNCHANGED <<hubVars, job, seqRead, used, header, prior, xlock, slock>>

PostShare(w) == pc[w] = "share" /\ ShareNext(w)

(* The relations left after the visibility is read again under the locks.   *)
NotDemoted(w) == resolved[w]
Demoted(w) ==
  {rel \in resolved[w] : rel.to \in Candidates(w) => Visible(w, rel.to)}

(* Step 5b after lock_evals, and step 6.                                    *)
PostFix(w) ==
  /\ pc[w] = "share" /\ Unlocked(w) = {}
  /\ LET r == job[w].rec
         rels == Demoted(w)
     IN IF r \in Cards /\ (RunsUnknown(rels) \/ ResultsOutside(job[w].body, rels))
        THEN Rollback(w)
        ELSE /\ resolved' = [resolved EXCEPT ![w] = rels]
             /\ seqRead' = [seqRead EXCEPT ![w] = NextSeq(r)]
             /\ used' = [used EXCEPT ![w] =
                  IF r \in Cards THEN FixUsed(r, NextSeq(r), rels) ELSE {}]
             /\ pc' = [pc EXCEPT ![w] = "commit"]
             /\ UNCHANGED <<hubVars, job, header, prior, xlock, slock>>

(* Steps 7-9; the unique index on (record_id, label) refuses a taken label. *)
PostCommit(w) ==
  /\ pc[w] = "commit"
  /\ IF LabelTaken(job[w].rec, job[w].label)
     THEN Rollback(w)
     ELSE /\ WriteVersion(job[w].rec, seqRead[w], job[w].body, job[w].label,
                          resolved[w], used[w])
          /\ End(w)

-----------------------------------------------------------------------------
(* put / put_batch                                                          *)

(* lock_with_header and the read of the existing rows.                      *)
PutBegin(w, e, batch) ==
  /\ pc[w] = "idle" /\ MayWrite(w, e)
  /\ FreeForUpdate(w, e)
  /\ Live(e) # {}
  /\ xlock' = [xlock EXCEPT ![e] = w]
  /\ header' = [header EXCEPT ![w] = LatestBody(e)]
  /\ prior' = [prior EXCEPT ![w] = runs[e]]
  /\ pc' = [pc EXCEPT ![w] = "put"]
  /\ job' = [job EXCEPT ![w] = [rec |-> e, batch |-> batch]]
  /\ UNCHANGED <<hubVars, resolved, seqRead, used, slock>>

(* All of the batch or none of it.                                          *)
PutCommit(w) ==
  /\ pc[w] = "put"
  /\ IF NamesDeleted(job[w].batch, prior[w])
     THEN Rollback(w)
     ELSE WriteRuns(job[w].rec, job[w].batch, prior[w], header[w]) /\ End(w)

-----------------------------------------------------------------------------
(* relations::add                                                           *)

(* The source is read and the target resolved before the transaction.       *)
AddBegin(w, r, s, rel) ==
  /\ pc[w] = "idle" /\ MayWrite(w, r)
  /\ s \in Stored(r)
  /\ resolved' = [resolved EXCEPT ![w] = {x \in {rel} : Resolves(w, x)}]
  /\ pc' = [pc EXCEPT ![w] = "add"]
  /\ job' = [job EXCEPT ![w] = [rec |-> r, seq |-> s, rel |-> rel]]
  /\ UNCHANGED <<hubVars, seqRead, used, header, prior, xlock, slock>>

(* No used set to extend: the edge is one INSERT.                           *)
AddPlain(w) ==
  /\ pc[w] = "add" /\ Candidates(w) = {}
  /\ AddEdge(job[w].rec, job[w].seq, job[w].rel, resolved[w] # {})
  /\ End(w)

(* extend_used_set: the Card record FOR UPDATE, then the Eval FOR SHARE.    *)
AddLock(w) ==
  /\ pc[w] = "add" /\ Candidates(w) # {}
  /\ FreeForUpdate(w, job[w].rec)
  /\ xlock' = [xlock EXCEPT ![job[w].rec] = w]
  /\ pc' = [pc EXCEPT ![w] = "addshare"]
  /\ UNCHANGED <<hubVars, job, resolved, seqRead, used, header, prior, slock>>

AddShare(w) == pc[w] = "addshare" /\ ShareNext(w)

AddCommit(w) ==
  /\ pc[w] = "addshare" /\ Unlocked(w) = {}
  /\ LET r == job[w].rec
         rel == job[w].rel
     IN IF ~Visible(w, rel.to)      \* turned private: stored as text
        THEN AddEdge(r, job[w].seq, rel, FALSE) /\ End(w)
        ELSE IF RunsUnknown({rel})
             THEN Rollback(w)
             ELSE AddEdge(r, job[w].seq, rel, TRUE) /\ End(w)

-----------------------------------------------------------------------------
(* A short write locks its record; a writer of a name with no row gets      *)
(* RecordNotFound, whatever is in flight.                                   *)
Locked(w, r) == pc[w] = "idle" /\ FreeForUpdate(w, r)

Short(w) ==
  /\ \/ \E r \in Records, s \in Seqs, l \in Labels : Locked(w, r) /\ SetLabel(w, r, s, l)
     \/ \E r \in Records, v \in {"private", "public"} :
          Locked(w, r) /\ SetVisibility(w, r, v)
     \/ \E r \in Records, s \in Seqs : Locked(w, r) /\ Tombstone(w, r, s)
     \/ \E e \in Evals, i \in RunIds, a \in BOOLEAN :
          Locked(w, e) /\ SetArchived(w, e, i, a)
     \/ \E e \in Evals, i \in RunIds : Locked(w, e) /\ DeleteRun(w, e, i)
  /\ UNCHANGED txVars

(* The client goes away, a statement fails, the server dies: Postgres rolls *)
(* the transaction back.                                                    *)
Abort(w) == pc[w] # "idle" /\ Rollback(w)

Begin(w) ==
  \/ \E r \in Records, l \in Labels \cup {NoLabel} : \E b \in BodiesFor(r) :
       PostBegin(w, r, b, l)
  \/ \E e \in Evals, batch \in Batches : PutBegin(w, e, batch)
  \/ \E r \in Records, s \in Seqs, rel \in NewEdges : AddBegin(w, r, s, rel)

Step(w) ==
  \/ PostResolve(w) \/ PostShare(w) \/ PostFix(w) \/ PostCommit(w)
  \/ PutCommit(w)
  \/ AddPlain(w) \/ AddLock(w) \/ AddShare(w) \/ AddCommit(w)

Next == \E w \in Writers : Begin(w) \/ Step(w) \/ Short(w) \/ Abort(w)

Spec == Init /\ [][Next]_vars

(* A statement is executed once its lock is granted, and Postgres grants    *)
(* a row to its waiters in turn.                                            *)
Fairness == \A w \in Writers : SF_vars(Step(w))

-----------------------------------------------------------------------------
(* The argument by which the long writes are atomic: who holds which lock,  *)
(* and that what a transaction read still holds when it commits.            *)

Exclusive == {"resolve", "share", "commit", "put", "addshare"}
Sharing == {"share", "commit", "addshare"}

(* A transaction holds its own record from its first locking statement to   *)
(* its end, Eval rows only for a Card, and an exclusive lock on a row       *)
(* excludes every share lock on it.                                         *)
LocksConsistent ==
  /\ \A r \in Records : \A w \in Writers :
       /\ xlock[r] = w => pc[w] \in Exclusive /\ job[w].rec = r
       /\ w \in slock[r] => pc[w] \in Sharing /\ job[w].rec \in Cards /\ r \in Evals
  /\ \A w \in Writers : pc[w] \in Exclusive => xlock[job[w].rec] = w
  /\ \A r \in Records : xlock[r] # None => slock[r] = {}

(* put / put_batch: the header and the rows read under the lock             *)
PutReadsHold(w) == pc[w] = "put" =>
  /\ job[w] \in PutJob
  /\ Live(job[w].rec) # {}
  /\ header[w] = LatestBody(job[w].rec)
  /\ prior[w] = runs[job[w].rec]

(* create_or_append: the latest version, the seq, the resolved targets and  *)
(* the used sets, hashes included.                                          *)
PostReadsHold(w) == pc[w] \in PostPc =>
  /\ job[w] \in PostJob /\ job[w].body \in BodiesFor(job[w].rec)
  /\ ~IsLatest(job[w].rec, job[w].body)
  /\ NextSeq(job[w].rec) \in Seqs
  /\ resolved[w] \subseteq job[w].body.relations
FixedUsedHold(w) == pc[w] = "commit" =>
  /\ seqRead[w] = NextSeq(job[w].rec)
  /\ job[w].rec \notin Cards => used[w] = {}
  /\ job[w].rec \in Cards =>
       /\ \A rel \in UsesEval(resolved[w]) : w \in slock[rel.to] /\ Visible(w, rel.to)
       /\ used[w] = FixUsed(job[w].rec, seqRead[w], resolved[w])
       /\ ~RunsUnknown(resolved[w])
       /\ ~ResultsOutside(job[w].body, resolved[w])

AddReadsHold(w) == pc[w] \in AddPc =>
  /\ job[w] \in AddJob
  /\ job[w].seq \in Stored(job[w].rec)
  /\ resolved[w] \subseteq {job[w].rel}
  /\ pc[w] = "addshare" => Candidates(w) # {}

ReadsHold ==
  \A w \in Writers :
    /\ pc[w] = "idle" => resolved[w] = {}
    /\ pc[w] # "idle" => MayWrite(w, job[w].rec)
    /\ \A rel \in resolved[w] : versions[rel.to][rel.seq] # NoRow
    /\ PutReadsHold(w) /\ PostReadsHold(w) /\ FixedUsedHold(w) /\ AddReadsHold(w)

TxInv == LocksConsistent /\ ReadsHold

(* Every request in flight ends, by commit, refusal or rollback: no set of   *)
(* requests waits for each other's locks (used_set.rs: "the two never wait  *)
(* on each other in a cycle") and none outlives its transaction.            *)
EveryRequestEnds == \A w \in Writers : pc[w] # "idle" ~> pc[w] = "idle"
================================================================================
