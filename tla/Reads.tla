---------------------------------- MODULE Reads --------------------------------
(* A client reads a list page by page, following the signed cursors, while   *)
(* others write: the record query, the run projection, the list of records   *)
(* and the audit log.  One action per statement of a handler; every page is  *)
(* one statement, and the record query makes further reads for its page.     *)
EXTENDS RelationReads

CONSTANTS
  Content,       \* every version that may be stored
  Records,
  Created, Name, \* record -> records.created_at, records.name (for the list)
  Searched,      \* search text -> the names and titles (versions) containing it
  RunContents,   \* what a run may hold: [hash, is]
  Registered,    \* metric ids in the registry
  Schemas,       \* the ext_schema entries that may become applied
  AuditIds,      \* ids of audit rows of one namespace
  Requests,      \* what the client asks for
  Starts,        \* the databases a walk may begin in
  Budget         \* writes by others during one walk

ASSUME ReadsAssumption ==
  /\ Budget \in Nat
  /\ \A v \in DOMAIN Content : Content[v].rec \in Records
  /\ \A e \in Schemas : e.ty \in ValueType
  /\ \A r \in Requests :
       /\ r.target \in {"records", "runs", "list", "audit"} /\ r.limit \in Nat \ {0}
       /\ r.target = "records" => r.kind \in DOMAIN Schema
       /\ r.target \in {"records", "runs"} =>
            /\ r.sort \in Seq(ToSet(r.sort))
            /\ \A i \in DOMAIN r.sort : r.sort[i].dir \in {"asc", "desc"}
  /\ \A s \in Starts : s.applied \in Seq(Schemas)
(* A version and a run carry what the snapshot of RecordQuery says; an edge  *)
(* of a stored version points to a stored one (the foreign key of relations). *)
ASSUME StoreAssumption ==
  /\ IsFiniteSet(DOMAIN Content)
  /\ \A v \in DOMAIN Content :
       /\ DOMAIN Content[v] = {"rec", "seq", "created", "body", "results", "edges", "files",
                               "fingerprints", "judgements", "used"}
       /\ Content[v].seq \in Nat
  /\ \A s \in Starts :
       /\ s.live \cup s.dead \subseteq DOMAIN Content
       /\ \A v \in s.live \cup s.dead : \A e \in Content[v].edges :
            e.to # None => e.to \in s.live \cup s.dead
       /\ \A r \in DOMAIN s.runs : DOMAIN s.runs[r] = {"state", "hash", "is"}
(* Ids are numbered in their order, the sets of one database are finite, and  *)
(* a scalar of a row or a body is a literal of the type its column has, and  *)
(* the absence of a cursor is no cursor.                                     *)
ScalarTypes == ValueType \cup {"timestamp"}
OfType(ty, x) ==
  x = Null \/ (ty \in ScalarTypes /\ x = Lit(ty, x.v) /\ x.v \in Seq(Int))
Literals(body) == \A p \in DOMAIN body : OfType(body[p].t, body[p])
Carries(is) ==
  /\ OfType("string", is.status) /\ OfType("string", is.error_kind)
  /\ OfType("timestamp", is.started_at) /\ OfType("timestamp", is.ended_at)
  /\ Literals(is.body)
  /\ \A m \in DOMAIN is.metrics : OfType("number", is.metrics[m])
  /\ \A f \in DOMAIN is.fingerprints : OfType("string", is.fingerprints[f])
ASSUME RowsAssumption ==
  /\ None \notin [keys : Seq([t : ScalarTypes \cup {"null"}, v : Seq(Int)] \cup Int),
                   id : Int, key : Nat]
  /\ Records \in SUBSET Int /\ IsFiniteSet(Records) /\ DOMAIN Content \subseteq Int
  /\ AuditIds \in SUBSET Int /\ IsFiniteSet(AuditIds)
  /\ \A x \in Records : Created[x] \in Int /\ Name[x] \in Int
  /\ \A v \in DOMAIN Content :
       /\ Content[v].created \in Int /\ Literals(Content[v].body)
       /\ IsFiniteSet(Content[v].results) /\ IsFiniteSet(Content[v].judgements)
       /\ \A s \in Content[v].results : OfType("number", s.value)
       /\ \A j \in Content[v].judgements : OfType("number", j.value) /\ OfType("string", j.label)
  /\ \A c \in RunContents : Carries(c.is)
  /\ \A s \in Starts :
       /\ s.log \subseteq AuditIds /\ DOMAIN s.runs \subseteq Int /\ IsFiniteSet(DOMAIN s.runs)
       /\ \A r \in DOMAIN s.runs : s.runs[r].state = "absent" \/ Carries(s.runs[r].is)

VARIABLES
  live, dead,   \* versions stored, tombstoned
  public,       \* public records
  runs,         \* runs of TheEval
  log,          \* committed audit rows
  applied,      \* the ext_schemas of the server's path tables
  key,          \* the key cursors are signed with: one per process
  left,         \* writes left
  req,          \* the client's request, without its cursor
  phase,        \* walking, selected, redacted, judged; done, refused (4xx), failed (500)
  cursor,       \* the cursor of the next page
  page,         \* the page selected and not yet delivered
  hidden,       \* hidden_targets and hidden_evals of that page
  seen,         \* rows delivered, in order (history)
  steady,       \* row -> keys, of the rows that matched all along (history)
  told,         \* what the bodies of the last page show (history)
  veiled        \* records hidden from the reader all through the last request (history)
db == [content |-> Content, live |-> live, dead |-> dead, public |-> public, runs |-> runs]
world == <<live, dead, public, runs, log, applied, key>>
walk == <<req, phase, cursor, page, hidden, seen>>
vars == <<world, left, walk, steady, told, veiled>>

-----------------------------------------------------------------------------
(* The list of records: created_at or name, then id                          *)

ListMatches(d, r) ==
  {x \in Records :
     /\ LiveVersions(d, x) # {} /\ Kind[x] = r.kind /\ VisibleTo(d, x, r.caller)
     /\ r.ns # None => NsOf[x] = r.ns
     /\ r.search # None => {x, LatestOf(d, x)} \cap Searched[r.search] # {}}
ListKey(x, sort) == IF sort = "name_asc" THEN Name[x] ELSE Created[x]
ListBefore(x, y, sort) ==
  IF sort = "created_desc"
  THEN ListKey(x, sort) > ListKey(y, sort) \/ (ListKey(x, sort) = ListKey(y, sort) /\ x > y)
  ELSE ListKey(x, sort) < ListKey(y, sort) \/ (ListKey(x, sort) = ListKey(y, sort) /\ x < y)
ListPage(d, r, c) ==
  LET found == {x \in ListMatches(d, r) : c # None => ListBefore(c.id, x, r.sort)}
  IN PageOf(Ranked(found, {p \in found \X found : ListBefore(p[1], p[2], r.sort)}), r.limit)

(* The audit log of a namespace, newest first.                               *)
AuditPage(r, c, rows) ==
  LET found == {x \in rows : c # None => x < c.id}
  IN PageOf(Ranked(found, {p \in found \X found : p[1] > p[2]}), r.limit)

-----------------------------------------------------------------------------
(* One request against a database                                           *)

Table(r, entries) ==
  [paths |-> WithExt(IF r.target = "runs" THEN ForRuns ELSE FromSchema[r.kind], entries),
   runs |-> r.target = "runs", cards |-> IF r.target = "runs" THEN r.cards ELSE {}]
(* check_metric_sorts: a metric the registry does not know is not sorted on. *)
UnknownMetrics(q) ==
  {i \in DOMAIN q.sort : q.sort[i].key.at = "metric" /\ q.sort[i].key.path[1] \notin Registered}
KnownEval(d, r) ==
  LiveVersions(d, TheEval) # {} /\ VisibleTo(d, TheEval, r.caller)
  /\ \A c \in r.cards : Joined(d, c, r.caller)

Queried(r) == r.target \in {"records", "runs"}
Plan(r, c, entries) == Compile(r, Table(r, entries), c)
Accepted(d, r, c, entries) ==
  /\ Queried(r) => CompileErrors(r, Table(r, entries), c) = {}
  /\ r.target = "records" => UnknownMetrics(Plan(r, c, entries)) = {}
  /\ r.target = "runs" => KnownEval(d, r) /\ RunSupported(Plan(r, c, entries))
Renderable(r, c, entries) == r.target = "records" => Supported(Plan(r, c, entries))

RowsOf(d, r, entries, rows) ==
  CASE r.target = "records" -> Matches(d, Plan(r, None, entries), r.kind, r.caller)
    [] r.target = "runs" -> RunMatches(d, Plan(r, None, entries), Scope(d, r, r.caller))
    [] r.target = "list" -> ListMatches(d, r)
    [] r.target = "audit" -> rows
SortOf(r, entries) == IF Queried(r) THEN Plan(r, None, entries).sort ELSE <<>>
KeysOf(d, r, sort, x) ==
  CASE r.target = "records" -> Keys(d, x, sort)
    [] r.target = "runs" -> RunKeys(d, x, sort, Scope(d, r, r.caller))
    [] r.target = "list" -> <<Created[x], Name[x]>>
    [] r.target = "audit" -> <<>>
PageIn(d, r, c, entries, rows) ==
  CASE r.target = "records" -> Run(d, Plan(r, c, entries), r.kind, r.caller)
    [] r.target = "runs" -> ProjectPage(d, Plan(r, c, entries), Scope(d, r, r.caller))
    [] r.target = "list" -> ListPage(d, r, c)
    [] r.target = "audit" -> AuditPage(r, c, rows)
RowBefore(d, r, entries, x, y) ==
  CASE r.target = "records" -> Before(d, x, y, Plan(r, None, entries).sort)
    [] r.target = "runs" ->
         RunBefore(d, x, y, Plan(r, None, entries).sort, Scope(d, r, r.caller))
    [] r.target = "list" -> ListBefore(x, y, r.sort)
    [] r.target = "audit" -> x > y

-----------------------------------------------------------------------------
(* The handler                                                              *)

Unverified(c, k) == c # None /\ c.key # k    \* CursorSigner::verify
Veiled(r) == {x \in Records : ~VisibleTo(db, x, r.caller)}
Continue(p) ==    \* the cursor that continues page p
  IF ~p.more THEN None
  ELSE [keys |-> KeysOf(db, req, SortOf(req, applied), Last(p.hits)), id |-> Last(p.hits), key |-> key]

Steady(r) ==
  IF Accepted(db, r, None, applied) /\ Renderable(r, None, applied)
  THEN LET sort == SortOf(r, applied)
       IN [x \in RowsOf(db, r, applied, log) |-> KeysOf(db, r, sort, x)]
  ELSE <<>>

Stop(how) ==
  /\ phase' = how /\ UNCHANGED <<cursor, page, hidden, seen, told, veiled>>
Deliver(p, next) ==
  /\ seen' = seen \o p.hits
  /\ cursor' = next
  /\ phase' = IF next = None THEN "done" ELSE "walking"
  /\ page' = None /\ hidden' = {}

Refuse ==    \* a cursor of another process, a failed check, an unknown Eval or Card
  /\ phase = "walking"
  /\ Unverified(cursor, key) \/ ~Accepted(db, req, cursor, applied)
  /\ Stop("refused") /\ UNCHANGED <<world, left, req, steady>>
Fail ==    \* QueryUnsupported is a 500 of the record query
  /\ phase = "walking" /\ ~Unverified(cursor, key) /\ Accepted(db, req, cursor, applied)
  /\ ~Renderable(req, cursor, applied)
  /\ Stop("failed") /\ UNCHANGED <<world, left, req, steady>>
Select ==    \* the page statement
  /\ phase = "walking" /\ ~Unverified(cursor, key)
  /\ Accepted(db, req, cursor, applied) /\ Renderable(req, cursor, applied)
  /\ LET p == PageIn(db, req, cursor, applied, log)
     IN IF req.target = "records"
        THEN /\ phase' = "selected" /\ veiled' = Veiled(req) /\ told' = {}
             /\ page' = [hits |-> p.hits, next |-> Continue(p)]
             /\ UNCHANGED <<cursor, hidden, seen>>
        ELSE Deliver(p, Continue(p)) /\ UNCHANGED <<told, veiled>>
  /\ UNCHANGED <<world, left, req, steady>>
ReadHiddenTargets ==
  /\ phase = "selected"
  /\ hidden' = [v \in ToSet(page.hits) |->
                  [targets |-> HiddenTargets(db, v, req.caller), evals |-> {}]]
  /\ phase' = "redacted"
  /\ UNCHANGED <<world, left, req, cursor, page, seen, steady, told, veiled>>
ReadHiddenEvals ==
  /\ phase = "redacted"
  /\ hidden' = [v \in DOMAIN hidden |->
                  [hidden[v] EXCEPT !.evals = HiddenEvals(db, v, req.caller)]]
  /\ phase' = "judged"
  /\ UNCHANGED <<world, left, req, cursor, page, seen, steady, told, veiled>>

(* The bodies, and with expand=relations the edges of each hit.              *)
Respond ==
  /\ phase = "judged"
  /\ Deliver(page, page.next)
  /\ LET hits == ToSet(page.hits)
         results(v) == WithholdResults(db, v, hidden[v].evals)
         shown(v) == {e \in Outgoing(db, v, None, req.caller) :
                        Has(e.to, "version") /\ e.to.visible}
     IN told' =
          UNION {{Content[e.to].rec : e \in {x \in WithholdRelations(db, v, hidden[v].targets) : x.to # None}}
                   \cup {j.eval : j \in results(v)}
                   \cup IF req.expand THEN {Content[e.to.version].rec : e \in shown(v)} ELSE {} :
                 v \in hits}
  /\ UNCHANGED <<world, left, req, steady, veiled>>

-----------------------------------------------------------------------------
(* Others                                                                   *)

Over == phase \in {"done", "refused", "failed"}
Turn == ~Over /\ left > 0 /\ left' = left - 1    \* somebody else writes
StillSteady(rows, sort) ==
  LET still == {x \in DOMAIN steady \cap rows : KeysOf(db', req, sort, x) = steady[x]}
  IN [x \in still |-> steady[x]]
Elsewhere ==    \* what a write leaves alone, and what the history makes of it
  /\ UNCHANGED <<walk, told>>
  /\ steady' =
       IF Accepted(db', req, None, applied') /\ Renderable(req, None, applied')
       THEN StillSteady(RowsOf(db', req, applied', log'), SortOf(req, applied')) ELSE <<>>
  /\ veiled' = IF phase \in {"selected", "redacted", "judged"}
               THEN {x \in veiled : ~VisibleTo(db', x, req.caller)} ELSE veiled

Commit(v) ==    \* a post: seqs of a name are in order, created_at and ids are not
  /\ Turn
  /\ v \notin live \cup dead
  /\ \A w \in DOMAIN Content :
       Content[w].rec = Content[v].rec /\ Content[w].seq < Content[v].seq => w \in live \cup dead
  /\ \A e \in Content[v].edges : e.to # None => e.to \in live \cup dead
  /\ \A r \in DOMAIN Content[v].used : runs[r].hash = Content[v].used[r]
  /\ live' = live \cup {v}
  /\ UNCHANGED <<dead, public, runs, log, applied, key>> /\ Elsewhere
Tombstone(v) ==
  /\ Turn
  /\ v \in live
  /\ live' = live \ {v} /\ dead' = dead \cup {v}
  /\ UNCHANGED <<public, runs, log, applied, key>> /\ Elsewhere
SetVisibility(x) ==
  /\ Turn
  /\ public' = IF x \in public THEN public \ {x} ELSE public \cup {x}
  /\ UNCHANGED <<live, dead, runs, log, applied, key>> /\ Elsewhere
WriteRun(r, is) ==    \* put: a new run or an overwrite; never of a deleted one
  /\ Turn
  /\ runs[r].state # "deleted" /\ runs[r].is # is.is
  /\ runs' = [runs EXCEPT ![r] =
       [state |-> IF @.state = "absent" THEN "live" ELSE @.state, hash |-> is.hash, is |-> is.is]]
  /\ UNCHANGED <<live, dead, public, log, applied, key>> /\ Elsewhere
SetRunState(r, state) ==    \* archive, unarchive, tombstone
  /\ Turn
  /\ <<runs[r].state, state>> \in {"live", "archived"} \X {"live", "archived", "deleted"}
  /\ runs[r].state # state
  /\ runs' = [runs EXCEPT ![r].state = state]
  /\ UNCHANGED <<live, dead, public, log, applied, key>> /\ Elsewhere
Audit(i) ==    \* ids are taken before the commits
  /\ Turn
  /\ i \notin log /\ log' = log \cup {i}
  /\ UNCHANGED <<live, dead, public, runs, applied, key>> /\ Elsewhere
Apply(e) ==    \* the index job rebuilds the path tables
  /\ Turn
  /\ e \notin ToSet(applied) /\ applied' = Append(applied, e)
  /\ UNCHANGED <<live, dead, public, runs, log, key>> /\ Elsewhere
Restart ==     \* without auth.cursor_key; the new process reads the registry first
  /\ Turn
  /\ key' = key + 1
  /\ UNCHANGED <<live, dead, public, runs, log, applied>> /\ Elsewhere

-----------------------------------------------------------------------------
Init ==
  /\ \E s \in Starts :
       /\ live = s.live /\ dead = s.dead /\ public = s.public
       /\ runs = s.runs /\ log = s.log /\ applied = s.applied
  /\ key = 0 /\ left = Budget
  /\ req \in Requests /\ phase = "walking" /\ cursor = None
  /\ page = None /\ hidden = {} /\ seen = <<>>
  /\ steady = Steady(req) /\ told = {} /\ veiled = {}

Handler == Refuse \/ Fail \/ Select \/ ReadHiddenTargets \/ ReadHiddenEvals \/ Respond
Others ==
  \/ \E v \in DOMAIN Content : Commit(v) \/ Tombstone(v)
  \/ \E x \in Records : SetVisibility(x)
  \/ \E r \in DOMAIN runs, is \in RunContents : WriteRun(r, is)
  \/ \E r \in DOMAIN runs, state \in {"live", "archived", "deleted"} : SetRunState(r, state)
  \/ \E i \in AuditIds : Audit(i)
  \/ \E e \in Schemas : Apply(e)
  \/ Restart
Next == Handler \/ Others
Spec == Init /\ [][Next]_vars

TypeOK ==
  /\ live \subseteq DOMAIN Content /\ dead \subseteq DOMAIN Content /\ live \cap dead = {}
  /\ public \subseteq Records /\ log \subseteq AuditIds /\ left \in 0..Budget
  /\ phase \in {"walking", "selected", "redacted", "judged", "done", "refused", "failed"}
  /\ page # None => Len(page.hits) <= req.limit

-----------------------------------------------------------------------------
(* What a walk promises                                                     *)

(* Without a sort key the record query orders by created_at, version_id and  *)
(* compares version_id alone with the cursor: a walk may skip or repeat.     *)
Sorted == req.target = "records" => req.sort # <<>>

(* A row that matched with the same sort keys from the first page to the     *)
(* last is delivered at most once and in the order asked for, whatever is    *)
(* posted, tombstoned, hidden or overwritten between the pages (the keyset   *)
(* predicates agree with ORDER BY and its tiebreaker).                       *)
InOrder == Sorted =>
  \A i, j \in DOMAIN seen :
    i < j /\ seen[i] \in DOMAIN steady /\ seen[j] \in DOMAIN steady
      => RowBefore(db, req, applied, seen[i], seen[j])

(* ... and a walk that ends has delivered it.  The record query keeps to     *)
(* that for rows whose keys are not NULL (the known limitation of            *)
(* query_sql.rs).                                                            *)
Kept(x) ==
  req.target = "records" => \A i \in DOMAIN req.sort : steady[x][i] # Null
NoSkips == Sorted /\ phase = "done" =>
  \A x \in DOMAIN steady : Kept(x) => x \in ToSet(seen)

(* What is said of a database and its reader alone, whatever the page, is    *)
(* said before the first one.                                                *)
AtStart == phase = "walking" /\ cursor = None

(* A page is the same whether or not the database holds what its reader may  *)
(* not see: private records, edges resolved to them, and what archived and   *)
(* deleted runs carry.  No filter, order, page border or edge read tells     *)
(* them apart (visibility inside the SQL, the mask of p0, lazy resolution).  *)
Blank == [status |-> Null, error_kind |-> Null, started_at |-> Null, ended_at |-> Null,
          body |-> <<>>, metrics |-> <<>>, fingerprints |-> <<>>]
Openly(r) ==
  LET seenBy == {v \in live \cup dead : SeesVersion(db, v, r.caller)}
      open(v) == [Content[v] EXCEPT !.edges = {e \in @ : e.to = None \/ e.to \in seenBy}]
      member == NsOf[TheEval] \in r.caller
      clear(x) == IF x.state = "live" \/ (x.state = "archived" /\ member)
                  THEN x ELSE [x EXCEPT !.is = Blank]
  IN [content |-> [v \in DOMAIN Content |-> IF v \in seenBy THEN open(v) ELSE Content[v]],
      live |-> live \cap seenBy, dead |-> dead \cap seenBy, public |-> public,
      runs |-> [x \in DOMAIN runs |-> clear(runs[x])]]
VisibleEdges(d, r, v) ==
  {e \in Outgoing(d, v, None, r.caller) : Has(e.to, "version") => e.to.visible}
Unseen ==
  /\ phase = "walking" /\ Accepted(db, req, cursor, applied) /\ Renderable(req, cursor, applied)
       => /\ PageIn(db, req, cursor, applied, log) = PageIn(Openly(req), req, cursor, applied, log)
          /\ Steady(req) = [x \in RowsOf(Openly(req), req, applied, log) |->
                              KeysOf(Openly(req), req, SortOf(req, applied), x)]
          /\ req.target = "runs" =>
               LET scope == Scope(db, req, req.caller)
               IN \A x \in DOMAIN Steady(req) :
                    RowOf(db, x, scope) = RowOf(Openly(req), x, scope)
  /\ AtStart => \A v \in live \cup dead : SeesVersion(db, v, req.caller)
       => VisibleEdges(db, req, v) = VisibleEdges(Openly(req), req, v)

(* No body names a record that was hidden from the reader from the page      *)
(* statement to the response, though its targets, the hidden ones and the    *)
(* judged Evals are read one after the other (hidden_targets, hidden_evals). *)
Redacted == told \cap veiled = {}

(* What the type check accepts, SQL can run, but for the operators of a      *)
(* fingerprint and a cursor with a NULL key or a key of a type its path has  *)
(* lost since (error.rs: QueryUnsupported is rejected before).               *)
Fingerprints(f) ==
  \E g \in DOMAIN f.leaf : f.leaf[g].is = "cmp" /\ f.leaf[g].cmp.column.at = "fingerprint"
OnlyKnownFailures ==
  phase = "failed" =>
    LET q == Plan(req, cursor, applied)
    IN \/ q.filter # None /\ Fingerprints(q.filter)
       \/ \E s \in ToSet(q.sort) : s.key.at = "fingerprint"
       \/ ~CursorBinds(q)

(* An edge is read from both ends: what outgoing resolves to a version,      *)
(* incoming of that version finds, and so does a traversal against the edge, *)
(* edges resolved lazily from their text included; and the comparison view   *)
(* lists exactly the latest live Cards among the users of an Eval.           *)
EndsAgree == AtStart =>
  LET edges == UNION {Outgoing(db, v, None, req.caller) : v \in live \cup dead}
      resolved == {e \in edges : Has(e.to, "version")}
      against(ty) == [direction |-> "in", types |-> {ty}, depth |-> 1, latest |-> FALSE]
  IN \A w \in {e.to.version : e \in resolved} :
       LET entering == {e \in resolved : e.to.version = w}
           compared == {c.version : c \in Compare(db, w, req.caller)}
       IN /\ entering \subseteq Incoming(db, w, None, req.caller)
          /\ \A ty \in {e.type : e \in entering} :
               {e.from.version : e \in {x \in entering : x.type = ty}}
                 \subseteq Traverse(db, w, against(ty), req.caller).nodes
          /\ \A e \in {x \in entering : x.type = UsesEval} : LET v == e.from.version IN
               (v \in live /\ Kind[Content[v].rec] = "card" /\ e.from.visible /\ Latest(db, v))
                 = (v \in compared)
================================================================================
