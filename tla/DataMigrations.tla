--------------------------- MODULE DataMigrations ---------------------------
(***************************************************************************)
(* `evalhub migrate' and the start-up check of `evalhub serve'             *)
(* (evalhub-store/src/pool.rs, data_migrations.rs and v1.rs,               *)
(* evalhub-server/src/main.rs).  Several migrate processes and servers run *)
(* against one database and any of them may be killed.  SQL files are      *)
(* applied one transaction each under sqlx's advisory lock; the data step  *)
(* is one transaction that first inserts its bookkeeping row, then works   *)
(* through the Evals in id order on what the transaction has written.      *)
(***************************************************************************)
EXTENDS Naturals, Sequences

CONSTANTS
  Evals, Cards, RunIds, MaxSeq, NoRun, Torn,
  EvalOrder,   \* the Evals in records.id order
  Migrators,   \* processes running `evalhub migrate'
  Servers,     \* processes running `evalhub serve'
  NoOne,
  SqlFiles,    \* the number of embedded SQL migrations; the last one creates
               \* data_migrations
  Databases,   \* [sql, db]: the databases the first command can find
  MaxCrashes   \* a bound: how many processes are killed in a behaviour

ASSUME MigrationsAssumption ==
  /\ SqlFiles \in Nat \ {0}
  /\ MaxSeq \in Nat /\ MaxCrashes \in Nat
  /\ NoOne \notin Migrators
  /\ EvalOrder \in Seq(Evals)
  /\ \A e \in Evals : \E i \in 1..Len(EvalOrder) : EvalOrder[i] = e
  /\ \A i, j \in 1..Len(EvalOrder) : EvalOrder[i] = EvalOrder[j] => i = j

VARIABLES
  sql,      \* how many SQL migrations are applied
  sqlLock,  \* who holds sqlx's migration lock
  claimed,  \* the migrator with an uncommitted data_migrations row, or NoOne
  applied,  \* the data_migrations row is committed
  db,       \* the committed records, versions, runs, used sets and audit rows
  mig,      \* each migrator: where it is, what its transaction has written
  server,   \* each server: "off", "checked" (SQL list read), "up" or "refused"
  crashes

vars == <<sql, sqlLock, claimed, applied, db, mig, server, crashes>>

Split == INSTANCE RunsSplit WITH data <- db, ran <- applied

Seqs    == 1..MaxSeq
Nothing == Split!Nothing

-----------------------------------------------------------------------------
(* One Eval, as runs_split works through it: d is what the transaction sees,
   vs the versions of the Eval. *)

Sources(vs) == { s \in Seqs : vs[s].form = "v1" }

(* A converted run carries the header's facets (split_v1, materialise). *)
RunHashes(v) ==
  [id \in RunIds |-> IF v.runs[id] = NoRun THEN NoRun
                     ELSE [run |-> v.runs[id], header |-> v.header]]

(* A mistaken form: the lowest seq wins. *)
OverOldest(f, g) == [id \in RunIds |-> IF f[id] # NoRun THEN f[id] ELSE g[id]]
Over(f, g) == [id \in RunIds |-> IF g[id] # NoRun THEN g[id] ELSE f[id]]

(* Inserting version after version into one map, in seq order. *)
Merged(vs, S) ==
  LET upto[n \in 0..MaxSeq] ==
        IF n = 0 THEN Nothing
        ELSE IF n \in S THEN Over(upto[n-1], RunHashes(vs[n]))
        ELSE upto[n-1]
  IN upto[MaxSeq]

(* The bodies as they were before step 4 rewrote them are kept in memory. *)
Winners(vs) == Merged(vs, Sources(vs))

Rewrite(v) ==
  LET body == [form |-> "v2", header |-> v.header, runs |-> Nothing]
  IN [form |-> body.form, header |-> body.header, runs |-> body.runs,
      bad |-> v.bad, hash |-> Split!HashOf(body)]

(* Step 5, for one Card version: edges into tombstoned versions are dropped;
   with no attrs.runs among the rest the pointed-at runs, otherwise the named
   ids, each from the pointed-at runs or else from the rows of step 3. *)
LiveEdges(d, c, e) ==
  { x \in d.edges : x.card = c /\ x.eval = e
                    /\ d.versions[e][x.seq].form \in {"v1", "v2"} }
CardRuns(d, c, e) ==
  LET edges   == LiveEdges(d, c, e)
      vs      == d.versions[e]
      pointed == Merged(vs, { x.seq : x \in edges } \cap Sources(vs))
      explicit == { x \in edges : x.named }
      named   == UNION { x.ids : x \in explicit }
      found   == Over(Winners(vs), pointed)
  IN IF explicit = {} THEN [used |-> pointed, unmatched |-> {}]
     ELSE [used |-> [id \in RunIds |-> IF id \in named THEN found[id] ELSE NoRun],
           unmatched |-> { id \in named : found[id] = NoRun }]

BadVersions(d, e) ==
  { <<e, s>> : s \in { s \in Sources(d.versions[e]) : d.versions[e][s].bad } }
TornWinners(d, e) ==
  LET rows == Winners(d.versions[e]) IN
  { <<e, id>> : id \in { id \in RunIds : rows[id] # NoRun /\ rows[id].run = Torn } }

SplitEval(d, e) ==
  LET cards == [c \in Cards |-> CardRuns(d, c, e)]
      vs    == d.versions[e] IN
  [versions  |-> [d.versions EXCEPT ![e] =
                   [s \in Seqs |-> IF s \in Sources(vs) THEN Rewrite(vs[s]) ELSE vs[s]]],
   edges     |-> d.edges,
   runs      |-> [d.runs EXCEPT ![e] = Winners(vs)],
   digest    |-> [d.digest EXCEPT ![e] = Winners(vs)],
   used      |-> [c \in Cards |-> [d.used[c] EXCEPT ![e] = cards[c].used]],
   rewritten |-> d.rewritten \cup { [eval |-> e, seq |-> s, old |-> vs[s].hash,
                                     new |-> Rewrite(vs[s]).hash] : s \in Sources(vs) },
   unmatched |-> d.unmatched \cup
                 { x \in Cards \X {e} \X RunIds : x[3] \in cards[x[1]].unmatched }]

(* What is known to be wrong after reading Eval e.  A mistaken form: the first
   offender ends the reading. *)
FirstProblem(known, d, e) == IF known # {} THEN known ELSE BadVersions(d, e)
Problems(known, d, e) == known \cup BadVersions(d, e)

-----------------------------------------------------------------------------
(* The tables and columns a step reads and writes, a version for each seq, and
   edges into stored versions (the foreign key of to_version_id). *)
Tables(d) ==
  /\ d = [versions |-> d.versions, edges |-> d.edges, runs |-> d.runs,
          digest |-> d.digest, used |-> d.used, rewritten |-> d.rewritten,
          unmatched |-> d.unmatched]
  /\ d.versions = [f \in Evals |-> d.versions[f]]
  /\ \A e \in Evals : d.versions[e] = [n \in Seqs |-> d.versions[e][n]]
  /\ \A e \in Evals, n \in Seqs : LET v == d.versions[e][n] IN
       v = [form |-> v.form, header |-> v.header, runs |-> v.runs, bad |-> v.bad,
            hash |-> v.hash]
  /\ \A x \in d.edges : x.eval \in Evals => x.seq \in Seqs

(* A content_hash column that holds the hash of its body: what every write of
   the store leaves. *)
HashesRight(d) ==
  \A e \in Evals, n \in Seqs : LET v == d.versions[e][n] IN
    v.form = "v2" => v.hash = Split!HashOf(v)

(* What the step fills was made empty by the SQL file before it, and no server
   runs in between; a converted run is not "no run". *)
Unfilled(d) ==
  /\ d.runs = [e \in Evals |-> Nothing] /\ d.digest = [e \in Evals |-> Nothing]
  /\ d.used = [c \in Cards |-> [e \in Evals |-> Nothing]]
  /\ d.rewritten = {} /\ d.unmatched = {}
  /\ \A e \in Evals, n \in Seqs, id \in RunIds : LET v == d.versions[e][n] IN
       [run |-> v.runs[id], header |-> v.header] # NoRun

ASSUME DatabasesAssumption ==
  \A start \in Databases :
    /\ start.sql \in 0..SqlFiles
    /\ Tables(start.db) /\ HashesRight(start.db) /\ Unfilled(start.db)

Away == [at |-> "away"]

Init ==
  /\ \E start \in Databases : sql = start.sql /\ db = start.db
  /\ sqlLock = NoOne /\ claimed = NoOne /\ applied = FALSE
  /\ mig = [m \in Migrators |-> Away]
  /\ server = [s \in Servers |-> "off"]
  /\ crashes = 0

(* `evalhub migrate': MIGRATOR.run waits for the lock, then applies what is
   missing, one file per transaction. *)
StartMigrate(m) ==
  /\ mig[m] = Away /\ sqlLock = NoOne
  /\ sqlLock' = m
  /\ mig' = [mig EXCEPT ![m] = [at |-> "sql"]]
  /\ UNCHANGED <<sql, claimed, applied, db, server, crashes>>

ApplySql(m) ==
  /\ mig[m].at = "sql" /\ sql < SqlFiles
  /\ sql' = sql + 1
  /\ UNCHANGED <<sqlLock, claimed, applied, db, mig, server, crashes>>

SqlDone(m) ==
  /\ mig[m].at = "sql" /\ sql = SqlFiles
  /\ sqlLock' = NoOne
  /\ mig' = [mig EXCEPT ![m] = [at |-> "pending"]]
  /\ UNCHANGED <<sql, claimed, applied, db, server, crashes>>

(* run_pending: the row first.  The INSERT waits for another transaction's
   uncommitted row and then finds it, or inserts its own. *)
Claim(m) ==
  /\ mig[m].at = "pending" /\ claimed = NoOne
  /\ IF applied
       THEN claimed' = NoOne /\ mig' = [mig EXCEPT ![m] = [at |-> "done"]]
       ELSE /\ claimed' = m
            /\ mig' = [mig EXCEPT ![m] =
                 [at |-> "step", next |-> 1, tx |-> db, problems |-> {}]]
  /\ UNCHANGED <<sql, sqlLock, applied, db, server, crashes>>

(* One Eval.  Once anything is refused nothing more is written, but the run
   ids of the remaining Evals are still read and reported. *)
StepEval(m) ==
  LET t == mig[m]  e == EvalOrder[t.next]
      ids == Problems(t.problems, t.tx, e)
      all == IF ids # {} THEN ids ELSE TornWinners(t.tx, e) IN
  /\ t.at = "step" /\ t.next <= Len(EvalOrder)
  /\ mig' = [mig EXCEPT ![m] =
       [at |-> "step", next |-> t.next + 1, problems |-> all,
        tx |-> IF all # {} \/ Sources(t.tx.versions[e]) = {} THEN t.tx ELSE SplitEval(t.tx, e)]]
  /\ UNCHANGED <<sql, sqlLock, claimed, applied, db, server, crashes>>

Commit(m) ==
  LET t == mig[m] IN
  /\ t.at = "step" /\ t.next > Len(EvalOrder) /\ t.problems = {}
  /\ db' = t.tx /\ applied' = TRUE /\ claimed' = NoOne
  /\ mig' = [mig EXCEPT ![m] = [at |-> "done"]]
  /\ UNCHANGED <<sql, sqlLock, server, crashes>>

(* DataMigrationRefused: the transaction rolls back with its row. *)
Refuse(m) ==
  LET t == mig[m] IN
  /\ t.at = "step" /\ t.next > Len(EvalOrder) /\ t.problems # {}
  /\ claimed' = NoOne
  /\ mig' = [mig EXCEPT ![m] = [at |-> "refused", problems |-> t.problems]]
  /\ UNCHANGED <<sql, sqlLock, applied, db, server, crashes>>

(* A session that ends drops its locks and its transaction. *)
Dropped(holder, m) == IF holder = m THEN NoOne ELSE holder

(* A migrate is killed. *)
KillMigrate(m) ==
  /\ mig[m].at \in {"sql", "pending", "step"} /\ crashes < MaxCrashes
  /\ crashes' = crashes + 1
  /\ sqlLock' = Dropped(sqlLock, m)
  /\ claimed' = Dropped(claimed, m)
  /\ mig' = [mig EXCEPT ![m] = Away]
  /\ UNCHANGED <<sql, applied, db, server>>

-----------------------------------------------------------------------------
(* `evalhub serve': pending_migrations reads the SQL list, then the data list
   (all of it is pending while the table does not exist).  A mistaken form: only the
   SQL files count. *)
SqlPending == sql < SqlFiles
DataPending == sql < SqlFiles \/ ~ applied

CheckSql(s) ==
  /\ server[s] = "off"
  /\ server' = [server EXCEPT ![s] = IF sql = SqlFiles THEN "checked" ELSE "refused"]
  /\ UNCHANGED <<sql, sqlLock, claimed, applied, db, mig, crashes>>

CheckData(s) ==
  /\ server[s] = "checked"
  /\ server' = [server EXCEPT ![s] = IF DataPending THEN "refused" ELSE "up"]
  /\ UNCHANGED <<sql, sqlLock, claimed, applied, db, mig, crashes>>

(* A server that refused, or went down, is started again. *)
StopServer(s) ==
  /\ server[s] \in {"up", "refused"}
  /\ server' = [server EXCEPT ![s] = "off"]
  /\ UNCHANGED <<sql, sqlLock, claimed, applied, db, mig, crashes>>

(* An operator runs the command again. *)
AgainMigrate(m) ==
  /\ mig[m].at \in {"done", "refused"}
  /\ mig' = [mig EXCEPT ![m] = Away]
  /\ UNCHANGED <<sql, sqlLock, claimed, applied, db, server, crashes>>

MigrateStep(m) ==
  \/ StartMigrate(m) \/ ApplySql(m) \/ SqlDone(m) \/ Claim(m)
  \/ StepEval(m) \/ Commit(m) \/ Refuse(m)

Next ==
  \/ \E m \in Migrators : MigrateStep(m) \/ KillMigrate(m) \/ AgainMigrate(m)
  \/ \E s \in Servers : CheckSql(s) \/ CheckData(s) \/ StopServer(s)

Spec == Init /\ [][Next]_vars

-----------------------------------------------------------------------------
(* The locks are held by the processes that are inside the steps they guard
   (pool.rs migrate, data_migrations.rs run_pending). *)
TypeOK ==
  /\ sql \in 0..SqlFiles /\ crashes \in 0..MaxCrashes
  /\ DOMAIN mig = Migrators
  /\ \A m \in Migrators : /\ (mig[m].at = "sql") = (sqlLock = m)
                          /\ (mig[m].at = "step") = (claimed = m)
  /\ server \in [Servers -> {"off", "checked", "up", "refused"}]

(* A server that is up serves a database with every SQL file and the split
   applied: no live 1.0 body is ever behind a running server, and every
   version's content_hash is the hash of the body stored.  (pool.rs: "a server
   whose database is behind refuses to start"; data_migrations.rs: "the
   invariant ... holds after the step as before it".) *)
ServedCurrent ==
  \A s \in Servers : server[s] = "up" =>
    /\ sql = SqlFiles /\ applied
    /\ \A e \in Evals, n \in Seqs : LET v == db.versions[e][n] IN
         v.form # "v1" /\ (v.form = "v2" => v.hash = Split!HashOf(v))

(* A refusal names every version with a bad run_id, in whatever Eval the first
   problem was met, and changes nothing: not the data, not the row.
   (data_migrations.rs: "stops the whole migration with every offender
   listed".) *)
RefusalNamesAll ==
  \A m \in Migrators : mig[m].at = "refused" =>
    /\ ~ applied /\ Split!Refused(db)
    /\ Split!BadIds(db) \subseteq mig[m].problems

(* The commands implement the one-step migration: whatever is killed or run
   twice, the committed database is the one found or its split, the step
   happens at most once, and never on data it must refuse. *)
Implements == Split!Spec
=============================================================================
