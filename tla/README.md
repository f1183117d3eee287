# evalhub in TLA+

evalhub is a hub for evaluation records. Callers publish *Evals* (what is
measured), *Cards* (what was claimed about a model) and the *runs* of an Eval,
link them by relations, and attach files. A Rust server (`evalhub-server`, axum)
serves the API; `evalhub-store` keeps everything in Postgres, and files in an
S3-like object store. Several server replicas may run against one database.

Nothing the hub publishes is ever rewritten: versions are numbered, a deletion is
a tombstone, and a Card remembers the exact content hash of each run it was
computed from. Those promises are kept by transactions under READ COMMITTED with
row locks taken by hand, by unique indexes and foreign keys, and by background
jobs under advisory locks. This directory models that part, who may ask for it,
the one-shot migration of old data, and the paged reads that run beside the writes.

## Reading guide

| module | what it is | source |
|---|---|---|
| `Hub` | what the store promises: each write is one atomic step on committed rows | `records.rs`, `runs.rs`, `used_set.rs`, `relations.rs` |
| `RecordStore` | the same writes as transactions: statements, row locks, rollbacks | the same, statement by statement |
| `Attachments` | upload life cycle, references and the collector | `objects.rs`, `jobs.rs`, the reference inserts of `records.rs` and `runs.rs` |
| `IndexBuild` | extension schemas, their index build on several servers, path tables | `index.rs`, `jobs.rs`, `registry.rs`, `state.rs` |
| `Badges` | registry entries and the badges that follow them | `jobs.rs`, `registry.rs`, `badge.rs`, `records.rs` |
| `Access` | users, organisations, tokens, sessions and their audit rows | both `auth.rs`, `api/auth.rs`, `audit.rs` |
| `RunsSplit` | what the one-shot migration promises: one step, stated value by value | `data_migrations.rs`, `v1.rs` |
| `DataMigrations` | `migrate` commands and servers that start, die and start again; implements `RunsSplit` | `pool.rs`, `data_migrations.rs`, `main.rs` |
| `QueryLang` | path tables, grammar and type check of a query | `evalhub-query` |
| `RecordQuery` | the meaning of a checked record query: filter, order, keyset | `query_sql.rs` |
| `RunProjection` | the same for the runs of an Eval, with its mask | `run_sql.rs`, `runs.rs` |
| `RelationReads` | edges from both ends, traversal, comparison, what a body withholds | `relations.rs`, `api/relations.rs`, `used_set.rs` |
| `Reads` | a client walks pages, statement by statement, while others write | `api/query.rs`, `api/runs.rs`, `records.rs`, `audit.rs`, `state.rs` |
| `HubProofs`, `RecordStoreProofs`, `AttachmentsProofs`, `IndexBuildProofs`, `BadgesProofs`, `AccessProofs`, `DataMigrationsProofs` | TLAPS: theorems for every value of the constants | |
| `MCRecordStore`, `MCAttachments`, `MCSweeps`, `MCIndexBuild`, `MCBadges`, `MCAccess`, `MCMigrations`, `MCReads` | small instances for TLC; one `.cfg` per run | |

`RecordStore` extends `Hub`; `DataMigrations` instantiates `RunsSplit`; each module
of the read family extends the one above it in the table, from `QueryLang` down to
`Reads`; `MCSweeps` extends `MCAttachments`.

A definition called a mistaken form, or marked with a trailing comment such as
`\* a plain SELECT`, stands right before another with the same parameters and is a
wrong variant of it: what the code would do with one guard, lock or clause missing.
Each checked property was seen to fail when the variant stands in for the definition.

## The system

Paths are relative to `src/crates/`.

**Named records and versions** (`evalhub-store/src/records.rs`). State: `records`
(type, ns, name, visibility, runs_hash), `versions` (seq, content hash, label,
tombstone, `refs_resolved` badge) and side rows. `create_or_append` locks the
record, answers an identical post with the stored version, resolves relation
targets, fixes a Card's used sets, takes `max(seq)+1`, and inserts. `set_label`,
`set_visibility`, `tombstone` lock the record and update. *Correct* when the seqs
are 1..n with no gap or reuse; concurrent or retried identical posts make one
version; a label names one version; a tombstone keeps hash, label and edges.

**Runs of an Eval** (`evalhub-store/src/runs.rs`, `evalhub-core/src/run.rs`).
State: `runs` (hash, archived, tombstoned) under an Eval record and a digest of
all of them, `records.runs_hash`. `put`/`put_batch` lock the record, copy facets a
body omits from the latest live header, refuse a deleted run id, write what
changed, all of the batch or nothing, and recompute the digest. Archive, unarchive
and delete are flags. *Correct* when the digest always covers the rows, a deleted
run never changes, and a run write is atomic against header posts.

**Used sets** (`evalhub-store/src/used_set.rs`). A Card's resolved
`core/uses_eval` relation fixes which runs it used: those its `attrs.runs` names,
or else all live ones, each with its hash at posting time (`card_eval_runs`). The
Eval rows are locked `FOR SHARE` in id order after the Card's record. *Correct*
when the recorded hashes are those of the rows at commit, the Card's judgements
(`run_results`) stay inside the used set for ever, and the waiting has no cycle.

**Relations** (`evalhub-store/src/relations.rs`). `add` appends an edge after
ingest, resolving the target *before* its transaction; a new `uses_eval` edge
extends the used set. Traversals redact what the reader may not see.

**Attachments** (`evalhub-store/src/objects.rs`, `evalhub-server/src/jobs.rs`).
A client announces a digest, PUTs to a presigned URL that the hub does not see, and
asks to complete; a posted version or run then references the row. A collector
deletes unreferenced uploads past a grace period: the object first, then the row.
Postgres and the object store share no transaction. *Correct* when a referenced row
stays, what is referenced can be downloaded, no object is left without a row, and
garbage eventually goes.

**Authorization** (`evalhub-server/src/auth.rs`, `api/auth.rs`,
`evalhub-store/src/auth.rs`). State: `users`, `namespaces`, `org_members`, `tokens`.
A request presents a token; the extractor reads its row, then one membership row per
namespace it names, and the handler decides on that snapshot. Handlers mint and
revoke tokens, open and close UI sessions (a session *is* a second token), found
organisations and change their members. *Correct* when nobody acts beyond a standing
the user had while the request ran, no token is a ladder to more than its parent,
closing a session leaves the pasted token alone, and the audit log tells the tables.

**Registry** (`evalhub-store/src/registry.rs`). Immutable entries by address:
metrics, harnesses, relation types, extension schemas. The last ones start
`applying` and become `applied`.

**Index build job** (`evalhub-store/src/index.rs`, `evalhub-server/src/jobs.rs`,
`state.rs`). Under an advisory lock, outside any transaction, each server's sweep
creates one expression index per path of each pending schema, drops those Postgres
left invalid, sets the schema `applied`, and swaps its own path tables. *Correct*
when nothing is applied or offered to queries before its indexes are valid, one
server builds at a time, and every schema is applied and reaches every server.

**Badge recompute job** (`jobs.rs`, `evalhub-core/src/badge.rs`). A post computes a
version's badges from what the registry says then; a sweep under another advisory
lock computes them again for versions that cite registered entries, reading and
writing in separate statements. *Correct* when a badge never says more than the
registry, is never lost, and follows the registry in whatever order things came.

**Data migrations** (`evalhub-store/src/pool.rs`, `data_migrations.rs`). `evalhub
migrate` applies SQL files under sqlx's lock, then one-shot data steps, each with a
bookkeeping row in the transaction of its data. The one step there is turns stored 1.0
Evals into headers and run rows and fixes the used sets of old Cards. `serve` refuses
to start on a database that is behind. *Correct* when the step happens once and whole
or not at all, a refusal reports every offending version, and no server is up on old
bodies.

**Queries and reads** (`evalhub-query`, `query_sql.rs`, `run_sql.rs`, `relations.rs`,
`api/query.rs`, `api/runs.rs`). A JSON query is parsed, type-checked against path
tables (the committed schema, the applied extension schemas), compiled to one SQL
statement, and paged by signed cursors. Bodies are redacted by further statements; the
run projection masks archived and deleted runs. *Correct* when a walk over the pages
neither repeats nor skips a row that stayed, nothing it shows depends on what its
reader may not see, and what the type check accepts SQL can run.

**Audit log** (`audit.rs`). Rows inserted by the transaction they describe; listed by
namespace, newest first.

**Record validation, hashing, schema types, export, server shell**: pure functions
over JSON text and start-up; no state of their own.

Interaction: handlers call the store; records, runs and relations share the
`records` row locks; all three call `used_set`; posts and run writes read
`attachments` and insert references that the collector reads; the jobs share the
pool's advisory locks (`pool.rs`); every write is asked of a token first; queries take
their path tables from the index job and read every table the writes change.

Hard behaviours: several transactions between two locks, reads made before a lock,
writes dropped at any await point, two reference tables, an object store outside the
transaction, sweeps that die between two deletions, replicas competing, decisions on
snapshots of roles, commands killed inside a migration, pages of one walk read
between other people's writes. Each is
listed with its line under `hazards` in `PROJECT.json`.

## Hub and RecordStore

A body is abstracted to the record of what the store reads out of it: an id, the
set of relations, the set of judged runs. A content hash *is* the hashed value, so
hashes do not collide. `relations[]` is a set, although two identical elements
would be two rows in the code; no property counts edges. A target that is textual
for ever (another hub, a missing name) behaves as one that does not resolve; a
version a relation points at is given by record and seq.

| TLA+ | code |
|---|---|
| `versions[r][s]`, `NoRow` | rows of `versions`; no such row |
| `visibility[r]` | `records.visibility`; a name without versions has no row, and `Exists` tells the two apart |
| `runs[e][i]`, `runs_hash[e]` | `runs`, `records.runs_hash` |
| `relations`, `resolved` | `relations` rows, `to_version_id` not NULL |
| `card_eval_runs`, `run_results` | the tables of those names |
| `pc`, `job`, `resolved`, `seqRead`, `used`, `header`, `prior` | the locals of one request |
| `xlock`, `slock` | `FOR UPDATE` (and the index wait of a first insert), `FOR SHARE` on `records` rows |

`PostBegin`, `PostResolve`, `PostShare`, `PostFix`, `PostCommit` are steps 1-3, 5,
the locks of 5b, the rest of 5b with 6, and 7-9 of `create_or_append`; `PutBegin`
and `PutCommit` are `lock_with_header` with the read of the rows, and the rest of
`write_runs`; `AddBegin`, `AddPlain`, `AddLock`, `AddShare`, `AddCommit` are
`relations::add` before its BEGIN, without and with `extend_used_set`. Anything
else that runs under one lock, touching one record, is one step (`Short`).
`Abort` rolls any transaction back at any step: a dropped request, a failed
statement, a server that dies.

Simplifications, on purpose:

- uncommitted rows are invisible to everyone (READ COMMITTED) and so live in the
  writer's locals; what another transaction can see of them is their lock;
- `PostResolve` reads all targets at one moment; in the code each relation is
  resolved by its own statement. What it reads is checked again (visibility) or
  never disappears (a version row), so later steps do not tell the two apart;
- a run write sees Evals with at least one live header, else it is refused;
- foreign-key share locks on `versions` rows are left out (see `hazards`);
- results, fingerprints, audit rows, `changed[]` and badges other than
  `refs_resolved` are written by the same commit and read by no other write;
- an existing version is addressed by its seq; `latest` and labels are resolved by
  the handlers in an earlier statement, and the model lets every seq come out.

`Hub` says what one committed write may have done. `Post` takes *some* set of
resolved relations: resolution is the writer's view of an earlier moment, except
that the used sets of a Card are fixed in Evals its writer may see at the commit.

## Attachments

`row`, `object`, `refs` are the `attachments` table, the bucket, and the two
reference tables; a holder is a version or a run. Each action is one statement or one
object-store call: `Announce` (`begin_upload`), `Put`, `UrlExpires`, the four
statements of `complete`, `PublishCheck`/`PublishInsert`/`PublishCommit`
(`missing_attachments` or its twin in `write_runs`, the insert that takes the
foreign key's lock, the commit), `Delete` (tombstone or run delete), and for each
replica `GcBegin`, `GcDeleteObject`, `GcDeleteRow`, `GcFails`.

Time is the flag `old`: `created_at` lies before the cutoff. Any content may be PUT through a valid URL, the wrong one
included. `complete` hashes only objects up to `HashMax`. `GcDeleteRow` has both
outcomes Postgres has for a row whose reference committed: the re-check keeps it, or
the foreign key refuses the DELETE and the sweep ends.

## IndexBuild

`state`, `index` are the `state` column of the extension schemas and what Postgres
says of each index; index names hash the path only, so `index` is indexed by path and
schemas share indexes. `lock`, `leaked` are the advisory lock: `apply_pending`
returns by `?` past its release, the connection goes back to the pool still holding
the lock, and the same session may be granted it again. `sweep[g]` is the program
counter and the locals of `apply_pending` and `apply_ext_schema` on server `g`, one
action per statement; `tables[g]` the schemas that server's path tables were built
from. `Fails` is an error of any statement, a failed `CREATE INDEX CONCURRENTLY` with
its invalid index included; `Closes` the pool giving up the idle connection that kept
a lock; `Restart` the end of a process in the middle of anything and its next start.
A session lost while its sweep goes on is left out (see `hazards`).

## Badges

`registry` holds the metrics entries of one namespace as naturals in the order of
`registry::list` (several may be versions of one metric), and harness entries.
`posting[v]` is `create_or_append` between its two questions to the registry and its
commit; the rest of that transaction is `RecordStore`'s. `sweep[g]` is
`sweep_badges` on server `g`: what is affected, then for each version the badges
read, the two questions, the write of the whole array. `HarnessOf` and `IdOf` keep
what the code compares: a version cites `{ns}/{id}`, the sweep asks with `{id}`. The
lists of metrics and harnesses are read as one step with the lookups of citing
versions (`Gather`): an entry registered in between is one the next sweep finds.
`Fails` ends a sweep anywhere, its lock with it.

## Access

One action per statement of a request, and one for the commit of a transaction that
takes a row lock. `Present` and `ReadRole` are `resolve`; `AskToken`, `Delegable`,
`Mint` are `POST /tokens`; `OpenSession`, `CloseSession` the session routes;
`AskRevoke`, `Revoke`, `CommitRevoke` the revocation; `CreateOrg`, `AskMember`,
`StoreMember`, `DropMember`, `CommitMember` the organisation routes; `CreateUser` the
command line; `Act` any handler that asks for a scope on a namespace. `Cut` ends any
request anywhere. `audit` keeps rows in id order with their fate: ids are taken before
the commit. `high` (the greatest role the user has had in each namespace since the
request began), and `parent`, `backed` and `session` of a token, are history. A login
and the namespace of that name are one value; secrets, cookies' text and expiry are
left out.

## DataMigrations and RunsSplit

`db` is the database as the step sees it: versions of each Eval with their form (1.0,
2.0, tombstone), edges of Cards with the ids they name, runs, digests, used sets, audit
rows, unmatched ids. `mig[m].tx` is what the transaction of migrator `m` has written;
`StepEval` is one turn of the loop over Evals, steps 2 to 6 of the code on what the
transaction sees. Once something is refused nothing more is written and the remaining
Evals are only read. `RunsSplit` says the same database with quantifiers: the run of
the highest live seq that has the id, the pointed-at run before the row. The property
`Implements` is `Split!Spec`, the refinement with `data <- db, ran <- applied`.
A server of an older release that is still up and writes is not modelled.

## The read family

A snapshot `db` holds versions and what they carry (`content`, which never changes),
which are live or dead, which records are public, and the runs. `QueryLang` compiles a
request to the intermediate representation with its type errors. A filter is its JSON
tree and, for each leaf, what it asks of which column: what a leaf means is one
definition, and `Verdict` gives the tree its three-valued truth. `Depth` is how deep a
filter or a schema nests (128 in `serde_json`; 3 is all the requests of the runs have),
so a tree is what is reached from its root in that many steps and every recursion is a
function over it. Of errors the codes are kept, not where each was met. `RecordQuery` and
`RunProjection` give that tree the meaning its SQL has: three-valued truth, casts,
generated columns, NULLs last or first, mixed directions, the keyset predicate, the
mask of archived and deleted runs before filter and sort. `Reads` puts time in
between: `Select` is the page statement, `ReadHiddenTargets`, `ReadHiddenEvals` and
`Respond` the further reads of a record page; posts, tombstones, visibility changes,
run writes, audit rows, rebuilt path tables and a restart with a new signing key come
between any two. `steady` (the rows that matched with the same keys all along),
`seen`, `told` and `veiled` are history. The text of JSON and SQL is left out; a
string, number or instant is a literal with an order.

## The runs

| run | question | instance and why it is enough |
|---|---|---|
| `used` | do used sets, judgements and the `refs_resolved` badge stay coherent, and is each long write atomic? | one Eval and one Card in two namespaces, two writers of different reach, one run with two bodies, edges naming and not naming it: a run overwritten or deleted, a visibility change and an added edge all fit between any two statements of a Card post |
| `names` | gap-free seqs, one version per identical post, one holder per label, digest, atomic batches, deleted ids, nothing rewritten | one Eval, two header bodies of which one points at the first version, a label, three versions, two runs with two bodies of which one is completed from the header, two writers: a gap, a reuse, a tombstone in the middle and a batch between two headers need no more |
| `progress` | does every request end? | two Evals and two Cards that use both: cycles of two and of waiting across record kinds; Evals start posted, and the short writes, which hold no lock beyond their own step, are left out |
| `gc` | does a committed reference keep its row, a ready row its size, and is garbage collected? | one digest, two announced sizes of which one is the object's, a publishing transaction, a version and a run, two replicas, failures at every point |
| `gc_apart` | is no object left without a row, and everything referenced served, sweeps cut anywhere, clients apart from sweeps? | two digests in one sweep, right and wrong contents, both reference tables, two replicas; the history variable `cut` names the digests whose object went before their sweep was cut |
| `index` | nothing applied or offered before its indexes are valid, one builder, every schema applied in the end? | two schemas that share a path, one with a second path, two servers, failures and restarts anywhere |
| `badges` | are badges true, kept, and following the registry? | three metrics entries of two metrics (two versions of one), a harness, a version with results and one without, two servers |
| `access` | standing, no ladder, sessions apart, an audit log that tells | two users, an organisation with both as admins, a free name to found and to take, three requests: the checked one, the one that changes the roles under it, and one more to race the second |
| `migrate` | one atomic split, complete refusals, no server on old data? | two Evals (one with two versions, whose runs overlap or not, are torn, or have bad ids), a Card pointing at either version or both, naming ids or none; two commands, a server, one kill; three SQL files, two of them applied or none |
| `reads` | do page walks keep order and rows, hide what must be hidden, and fail only as known? | 16 requests over five versions of four records and three runs, from two databases, and `Budget` 2 writes by others, placed anywhere in the walk: enough to move a page border, and to hide one thing and show another |
| `tables`, `badge_harness` | the documented promises below | the smallest instance that has the behaviour, in which no statement fails and no server stops |

Bounds on what is otherwise unbounded: `MaxSeq` (versions of a name, in `NextSeq(r)
\in Seqs`), `MaxCrashes` (kills in `migrate`), `Budget` (writes during a walk), each
request id of `Access` used once, `ListMax` (the page of 200 entries the badge sweep
looks at; the runs keep the registry within it, see below for what happens past it).
All other sets are finite parameters. `access` declares its request ids symmetric:
they are only compared with each other, and its properties are safety properties.
Restrictions a run makes are stated by name: `NoOverlap` in `MCAttachments`,
`SteadyNext`, `ProgressInit` and `ProgressNext`. Deadlock is checked by TLC in every
run but `reads`, whose walks end; a row-lock deadlock is not a TLC deadlock (a request
can abort), which is what `EveryRequestEnds` is for.

Fairness. `progress`: `SF` on each writer's `Step`; strong, because a lock may be taken
by others again and again while one waits, and Postgres queues the waiters of a row,
so a waiter is served when the lock keeps coming free. `Abort` has no fairness:
nothing depends on requests giving up. `gc`: the collector's timer never stops, an
object-store call or a sweep retried for ever does not fail for ever, and of each
digest whose insert keeps being tried some insert is committed (the DELETE waits for
uncommitted references); the last conjunct is per digest, so commits of others do not
count. `index`: each server's timer never stops (`WF` of `SweepStep`), and the pool
closes idle connections (`WF` of `Closes`). `badges`, and the two steady
specifications: `SF` of each server's `SweepStep`, so that one server cannot keep
another out by always holding the lock when it asks. `SchemasApplied` and
`MetricBadgeFollows` say `FailuresStop =>`: sweeps may fail any number of times, but
are not cut for ever; without that nothing can be promised. `access`, `migrate` and
`reads` ask only for safety.

## What the violated runs show

- `tables`: a comment in `spawn_index_build` says that a replica which found the lock
  held picks the entries up on a later tick. No arm does: with nothing pending any
  more, its sweeps apply nothing and rebuild nothing, until it restarts.
- `badge_harness`: the sweep asks for versions citing a harness with the bare `id`,
  while versions hold `{ns}/{id}`. A harness registered after the version is found
  only through a metric the same version reports.

## Known disagreements, and the limits of the properties

Met while modelling, at the lines given (files below `src/crates/`); properties are
stated around them, by name where one had to be weakened.

Attachments:

- `evalhub-store/src/objects.rs:510-515`: a sweep cut between its two deletions leaves
  the row `ready` without an object; `objects.rs:42-44` and `jobs.rs:44-45` call that
  harmless. A later announcement answers `ready`, the client uploads nothing, and a
  post may reference the row, which then no sweep repairs: `ServedUnlessCut` excepts it.
- `objects.rs:232` updates by digest alone, though 354-373 checked another state: an
  announcement of another size in between becomes ready with it.
- `objects.rs:492`: grace counts from the first announcement, so an old digest announced again
  has none left, although `objects.rs:39-41` says that a ready, unreferenced upload is
  not collected under its client.
- `objects.rs:510`: an object whose deletion always fails stops every sweep at the same
  candidate (`GarbageGoes` assumes it does not); an upload through a URL still valid
  after collection leaves an object without a row (`NoLeak` is stated under
  `NoOverlap`); `objects.rs:372`: `complete` on a row collected meanwhile answers success.

Reads:

- `query_sql.rs:394-403`: without a sort key the order is `created_at, version_id` but
  the keyset compares `version_id` alone (ids are ULIDs minted before the transaction,
  `created_at` is the time the database gives it), so a walk may skip or repeat rows
  whose ids and times are ordered differently, against `api/query.rs:35-40`. In the
  content of `reads`, a walk over three Cards that nobody changes goes from id 4 to id 2
  and leaves out 5, older than 4. `InOrder` and `NoSkips` are stated for requests with a
  sort key (`Sorted`). A NULL key of a record cursor cannot be bound: `NoSkips` excepts
  rows with one (`Kept`).
- The type check lets any operator on a fingerprint through, SQL knows only `eq` and
  `ne` with a hexadecimal value: the answer is 500, against `error.rs:122-127`. So
  does a cursor key that is NULL or whose path changed its type. `OnlyKnownFailures`
  names exactly these.
- `grammar.rs:114` says of `exists` that null counts: so it does in an unindexed path,
  and does not in an indexed one. `grammar.rs:96` says of `not` that the child must not
  match: a row where the child is neither true nor false is left out as well.
- A cursor with another number of keys is 422, where `api/query.rs:37-40` says 400; a
  cursor is bound neither to its query nor to its list order.
- `check_metric_sorts` looks among the first 100 entries of a namespace.

Jobs, writes and access:

- `jobs.rs:316`: with more metrics entries in a namespace than one listing holds, the
  sweep takes away a badge a post had awarded; `BadgesKept` is proved under
  `Cardinality(MetricEntries) <= ListMax`.
- `index.rs:59`: `index_name` hashes the path and not its type, so a later schema that
  declares another type finds the old index. `pool.rs:140`: an advisory lock whose session
  dies alone while its sweep goes on is not modelled.
- `api/relations.rs:569`: the version an edge is added to is resolved before the
  transaction; `records.rs:1241`: some handlers read visibility in one statement and rows
  in the next. The model lets every seq come out.
- `api/auth.rs:283`: an organisation whose creator's membership was cut, or whose last
  admin was removed, has nobody to administer it. `Access` reaches these states.

## What is proved

Eight proof modules, each extending the module it is about, for every value of the
constants the named assumptions allow (ids are naturals, Evals finite, sentinels
distinct, bodies pass `evalhub_core::validate`, stored hashes are right).

1. `HubProofs`: the type invariant of `Hub` and each invariant the runs check on it.
   Some need company to be inductive. `NoRepeatedVersion` needs that posts are
   the only steps that add a row, and do so at `Max(Stored)+1`, so `SeqGapFree`
   comes first and the neighbour of a new version is the latest one or a tombstone.
   `RunsHashAgrees` goes through what a batch does to the rows. `JudgedWasUsed`,
   `UsedKeyUnique` and `UsedBacked` rest on `UsedSetStep`: a step only adds used
   runs, under new keys, with an edge.
2. `RecordStoreProofs`, `TypeCorrect` and `TxCorrect`: `IInv == TypeOK /\ TxInv` is
   inductive. `TxInv` is the argument a reader of the code would make: who holds
   which lock at each point (`LocksConsistent`), and that everything read under a
   lock still holds (`ReadsHold`): the header and rows of a run write, the latest
   version, seq and used sets (hashes included) of a post. Neither half is inductive
   alone. The heart is `WritesOneRecord` (a step changes rows of the one record its
   writer has locked exclusively) with `OthersReads` (so reads of others hold on).
3. `ImplementsHub`: with `IInv`, each step is a step of `Hub` or a stutter
   (`StepImplementsHub`; one lemma per commit). The mapping is the identity on the
   tables: `RecordStore` extends `Hub` and adds only locals and locks, so no
   `INSTANCE` substitution is needed and `Spec => HubSpec` is the refinement.
4. `HubPromises`: so the transactions inherit every theorem of 1.
5. `IndexBuildProofs`: `IInv` adds three facts to what the run checks: a sweep inside
   `apply_pending` holds the lock, leaked or not (`LockHeld`); it works on one path of
   its own schema at a time (`SweepSane`); and `all_valid` vouches for the paths it
   has done (`Vouched`). The heart is `ValidStays`: no statement of any server turns a
   valid index invalid or drops it, so what one sweep saw stays true without any
   lock. That is why a schema is applied rightly even if two servers build.
6. `AttachmentsProofs`. `RefsKeepRow` needs one thing more: the rows of references
   inserted and not yet committed are there (`InsertedInv`), because the insert took
   the foreign key's lock and the collector's DELETE waits for it. `ReadyFrozen`
   follows by cases on what may touch a row. For `NoLeak` and `ServedUnlessCut`, under
   `NoOverlap` and with the history `cut`, the invariant `ApartInv` follows an upload
   through its life: a valid URL has a row, a call that is about to confirm has an
   object, a checked post has ready rows, a referenced row is ready, a ready row has
   its object unless a sweep is between its two deletions or was cut there, and a
   digest being swept is used by nobody.
7. `BadgesProofs`: a sweep holds the lock alone, the badges it read are still the
   version's, and facts about the registry, once true, stay true (entries are never
   removed), so an array replaced without a condition loses nothing. That last part
   (`BadgesStay`) needs the registry within one listing, and says so.
8. `AccessProofs`: the token row a request read is still as it was (only `revoked`
   moves), each role it read is at most `high`, and what it was let through for
   follows from these (`GrantOK`); a token's parent, user and namespaces are related
   when it is minted and never change (`TokenOK`), which gives `TokensBacked`; tokens
   in cookies are session tokens, which gives `SessionsApart`.
   `AuditReplays` is a second invariant on top (`AuditInv`): a request between its
   statement and its commit holds the lock of the row it writes, its open rows of the
   log describe that write, one for each namespace, and a member write's row comes
   after every settled row of the same membership. So a commit appends to the order the
   log already has, a rollback leaves the order as it was, and two open transactions
   never write one row (`Exclusive`): that is why ids taken before the commit still
   replay to the table. `Cardinality` needs the set of names to be finite
   (`AccessAssumption`), as the names a database has met are.
9. `DataMigrationsProofs`: the Evals before `next` are converted in the
   transaction, those from `next` on are as committed, and the bad ids of all Evals
   read are reported. So a commit leaves no live 1.0 body (`ServersServeCurrent`,
   with the order of `serve`'s two reads), and a refused command was right to refuse and
   has reported every version with a bad id, not just those before the first problem
   (`RefusalsReportAll`). `CommandsImplementSplit` is the refinement of `RunsSplit`: the
   transaction's tables are at each turn the split of the Evals before `next` (`Half`),
   so the commit is the abstract step and every other step stutters. What the code
   computes by walking an Eval's versions in order, the newest version that holds an id,
   is what `RunsSplit` states with a maximum (`MergedIsNewest`; the induction over the
   seqs is a least counterexample, `LeastNatural`, since the library's induction
   theorems cannot be instantiated). `DatabasesAssumption` says what the SQL files leave
   for the step: the new tables exist and are empty (`Unfilled`).
10. `ReadsProofs`. `HiddenMakesNoDifference`: two databases are `Alike` to a reader if
   they agree on the versions the reader sees, on those versions' edges to what the
   reader sees and on what shown runs carry. Everything a page is computed from is then
   the same in both, operator by operator (`SameMatches`, `SameKeys`, `SamePage`,
   `SameRun`, `SameRunPage`, `SameList`, `SameEdges`), and the database and
   `Openly(req)`, what is left of it without the hidden part, are alike
   (`OpenlyAlike`). For that a stored edge must point to a stored version, which no
   write breaks (`StoreInv`), and a judgement may be read only of the Cards named, all
   visible, which is what the type check accepts (`AcceptedNamesCards`).
   `NothingHiddenTold` follows `veiled` through the four statements of a record page
   (`RedactInv`). `FailuresAreKnown` goes along the path tables: every path they offer is
   served by a column of that type (`LookupServed`), so what the type check accepts
   renders (`AcceptedRenders`, `AcceptedSortKey`), extension paths of any declared type
   included. `BothEndsAgree` unfolds the first level of the traversal (`OneStep`).
   `WalksInOrder` and `WalksComplete` share one invariant (`IWalk`). The border of a walk
   is the cursor its next page will get: the steady rows delivered are in order
   (`Ordered`), none is past the border (`Behind`), and each that is not delivered is
   past it (`Ahead`). A page extends all three (`Extended`), which takes that the order
   is strict and, on the rows of one database, total: the lexical order of values
   (`LessTotal`), NULL first or last (`PrecedesTotal`), the keys of a row being literals
   of the types of their columns (`KeyTyped`, `RunKeyTyped`), and ids
   (`RowOrderStrict`, `RowOrderTotal`). A page is then the sorted beginning of
   what is past its cursor (`PageSorted`), and each keyset predicate finds what comes
   after the cursor (`PastIsAfter`): the run projection all of it, the record query
   all of it but rows with a NULL key, which is why `NoSkips` excepts them. A write
   can only end a row's steadiness (`SteadyElsewhere`), so what was delivered stays in
   the order of the keys it was delivered with.
   Assumed: `TypesAssumption` (generated columns have the types of the schema's leaves,
   and the facets of the schema are those fingerprints are stored for: two lists the
   code keeps twice), `ReadsAssumption` and `StoreAssumption` (what rows carry, and the
   foreign keys of the databases a walk begins in), and `RowsAssumption` (the sets of a
   database are finite, ids and times are numbers, a scalar is a literal of its
   column's type, and `None` is no cursor).

Only model-checked: `EveryRequestEnds`, `GarbageGoes`, `SchemasApplied` and
`MetricBadgeFollows` (liveness under fairness is out of the prover's reach).

## Not modelled

- Record validation, canonical JSON, hashing and fingerprints (`evalhub-core`): pure
  functions whose content is the format of JSON text character by character. What the
  store relies on is the assumption `BodiesAreValid` of `Hub` and that hashes do not collide.
- Schema types and errors: declarations.
- Routing, configuration, limits and envelopes, metadata and CSV export, the web
  interface: no state, and formats. The order in which requests are checked matters
  only where a handler reads twice, and those reads are actions.
- Audit rows of record and run writes: inserted by the same commit, read back by no
  write. The rows of tokens and members are in `Access`, the listing in `Reads`.
- Foreign-key share locks on `versions` rows. They can make two writes that point at
  each other's records wait in a cycle; Postgres then aborts one, which `Abort` covers
  for safety, and `EveryRequestEnds` does not see.
- Registry reads by address, and the read-only `core` namespace: one immutable row.

`components` in `PROJECT.json` says the same part by part, and `hazards` says of each
hazard without a property why it has none.
