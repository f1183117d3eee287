------------------------------ MODULE RunProjection ----------------------------
(* The run projection of one Eval: its rows as a reader may see them, with   *)
(* the judgements of the Cards a request names.  The mask is applied before  *)
(* the filter and the sort, and the keyset knows NULL.                       *)
EXTENDS RecordQuery

CONSTANTS
  TheEval,     \* the Eval record whose runs are read
  CardRecord,  \* id of a Card -> its record
  UsesEval,    \* core/uses_eval as a string literal
  Instant      \* the string literals that are RFC 3339 -> the timestamp

RunFacets == {"model", "task", "harness", "generation", "trial", "env"}

-----------------------------------------------------------------------------
(* The scope: the Eval, the reader's membership, the Cards                   *)

LiveVersions(db, rec) == {v \in db.live : db.content[v].rec = rec}
LatestOf(db, rec) ==
  LET newest == {v \in LiveVersions(db, rec) : Latest(db, v)}
  IN IF LiveVersions(db, rec) = {} THEN None ELSE CHOOSE v \in newest : TRUE
Uses(db, v) == \E e \in db.content[v].edges :
  e.type = UsesEval /\ e.to # None /\ db.content[e.to].rec = TheEval
(* Visible, live and using this Eval; otherwise the Card is unknown.         *)
Joined(db, card, caller) ==
  LET v == LatestOf(db, CardRecord[card])
  IN /\ VisibleTo(db, CardRecord[card], caller)
     /\ v # None
     /\ Uses(db, v)
Scope(db, request, caller) ==
  [member |-> NsOf[TheEval] \in caller,
   include |-> request.include,
   version |-> [c \in request.cards |-> LatestOf(db, CardRecord[c])]]

ShownAlways(run, member) == run.state # "absent"    \* A mistaken form: no mask
Shown(run, member) == run.state = "live" \/ (run.state = "archived" /\ member)
InProjection(db, r, scope) ==    \* the rows of p0
  \/ db.runs[r].state = "live"
  \/ scope.member /\ db.runs[r].state \in scope.include
  \/ /\ db.runs[r].state # "absent"
     /\ \E c \in DOMAIN scope.version : r \in DOMAIN db.content[scope.version[c]].used

-----------------------------------------------------------------------------
(* A column of a row                                                        *)

IsResult(column) == column.at = "result"
FieldOf(column) == column.path[4]
FacetType(path) ==
  IF path \in DOMAIN ForRuns THEN ForRuns[path].ty ELSE None
RunType(column) ==    \* None when the projection has no such column
  IF column.at = "ext" THEN column.ty
  ELSE IF IsResult(column) THEN IF FieldOf(column) = "value" THEN "number" ELSE "string"
  ELSE IF column.at # "run" THEN None
  ELSE CASE column.path[1] \in {"started_at", "ended_at"} -> "timestamp"
         [] column.path[1] \in {"run_id", "status", "error_kind"} -> "string"
         [] column.path[1] = "fingerprint" ->
              IF column.path[2] \in RunFacets THEN "string" ELSE None
         [] column.path[1] = "metrics" -> "number"
         [] OTHER -> FacetType(column.path)

Judgements(db, r, column, scope) ==
  {j \in db.content[scope.version[column.path[2]]].judgements :
     j.eval = TheEval /\ j.run = r /\ j.metric = column.path[3]}
BestJudgement(db, r, column, scope, dir) ==
  LET found == {j[FieldOf(column)] : j \in Judgements(db, r, column, scope)} \ {Null}
  IN IF found = {} THEN Null
     ELSE CHOOSE x \in found : \A y \in found :
            IF dir = "asc" THEN ~Less(y.v, x.v) ELSE ~Less(x.v, y.v)

(* Every expression but a judgement is NULL of a row that is not shown.      *)
Unmasked(run, column) ==
  LET path == column.path
  IN IF column.at = "ext" THEN Cast(column.ty, At(run.is.body, path))
     ELSE CASE path[1] \in {"status", "error_kind", "started_at", "ended_at"} -> run.is[path[1]]
            [] path[1] = "fingerprint" ->
                 IF path[2] \in DOMAIN run.is.fingerprints
                 THEN run.is.fingerprints[path[2]] ELSE Null
            [] path[1] = "metrics" ->
                 IF path[2] \in DOMAIN run.is.metrics THEN run.is.metrics[path[2]] ELSE Null
            [] OTHER -> Cast(FacetType(path), At(run.is.body, path))
RunValue(db, r, column, scope) ==
  IF column.path = <<"run_id">> THEN Lit("string", <<r>>)
  ELSE IF Shown(db.runs[r], scope.member) THEN Unmasked(db.runs[r], column) ELSE Null
RunKey(db, r, s, scope) ==
  IF IsResult(s.key) THEN BestJudgement(db, r, s.key, scope, s.dir)
  ELSE RunValue(db, r, s.key, scope)
RunKeys(db, r, sort, scope) == [i \in DOMAIN sort |-> RunKey(db, r, sort[i], scope)]

-----------------------------------------------------------------------------
(* What reaches SQL: timestamps are parsed, and have no text form            *)

Parses(value) == value.t = "string" /\ value \in DOMAIN Instant
RunBinds(column, op, value) ==
  LET ty == RunType(column)
  IN CASE ty = None -> FALSE
       [] ty = "timestamp" ->
            CASE op \in {"prefix", "contains"} -> FALSE
              [] op = "in" -> value.t = "array" /\ \A i \in DOMAIN value.of : Parses(value.of[i])
              [] OTHER -> Parses(value)
       [] OTHER -> OperatorBinds(op, ty, value)
RunCmpRenders(c) ==
  IF c.column.at = "body" THEN c.op = "eq" ELSE RunBinds(c.column, c.op, c.value)
RunLeafRenders(f) ==
  CASE f.is = "exists" -> f.column.at = "body" \/ RunType(f.column) # None
    [] f.is = "any" -> FALSE
    [] OTHER -> RunCmpRenders(f.cmp)
RunRenders(f) == \A g \in DOMAIN f.leaf : RunLeafRenders(f.leaf[g])
RunCursorBinds(q) ==
  q.cursor # None =>
    /\ Len(q.cursor.keys) = Len(q.sort)
    /\ \A i \in DOMAIN q.sort :
         q.cursor.keys[i] = Null \/ Binds(RunType(q.sort[i].key), q.cursor.keys[i])
RunSupported(q) ==
  /\ q.filter # None => RunRenders(q.filter)
  /\ \A i \in DOMAIN q.sort : q.sort[i].key.at \in {"run", "result", "ext"} /\ RunType(q.sort[i].key) # None
  /\ RunCursorBinds(q)

-----------------------------------------------------------------------------
(* The predicate                                                            *)

Bound(ty, op, value) ==
  IF ty # "timestamp" THEN value
  ELSE IF op = "in" THEN List([i \in DOMAIN value.of |-> Instant[value.of[i]]])
  ELSE Instant[value]
RunCmpTruth(db, r, c, scope) ==
  IF IsResult(c.column)    \* any of the Card's entries for this run and metric
  THEN Truth(\E j \in Judgements(db, r, c.column, scope) :
               Operator(c.op, j[FieldOf(c.column)], c.value) = "T")
  ELSE IF c.column.at = "body"
  THEN IF ~Shown(db.runs[r], scope.member) THEN "N"
       ELSE Truth(At(db.runs[r].is.body, c.column.path) = c.value
                  /\ c.column.path \in DOMAIN db.runs[r].is.body)
  ELSE Operator(c.op, RunValue(db, r, c.column, scope),
                Bound(RunType(c.column), c.op, c.value))
RunExistsTruth(db, r, column, scope) ==
  IF IsResult(column)
  THEN Truth(\E j \in Judgements(db, r, column, scope) : j[FieldOf(column)] # Null)
  ELSE IF column.at = "body"
  THEN IF ~Shown(db.runs[r], scope.member) THEN "N"
       ELSE Truth(column.path \in DOMAIN db.runs[r].is.body)
  ELSE Truth(RunValue(db, r, column, scope) # Null)
RunLeafTruth(db, r, f, scope) ==
  IF f.is = "exists" THEN RunExistsTruth(db, r, f.column, scope)
  ELSE RunCmpTruth(db, r, f.cmp, scope)
RunFilterTruth(db, r, f, scope) ==
  Verdict(f.tree, [g \in DOMAIN f.leaf |-> RunLeafTruth(db, r, f.leaf[g], scope)])
RunMatches(db, q, scope) ==
  {r \in DOMAIN db.runs :
     /\ InProjection(db, r, scope)
     /\ q.filter # None => RunFilterTruth(db, r, q.filter, scope) = "T"}

-----------------------------------------------------------------------------
(* Order and keyset; ASC puts NULL last, DESC first                          *)

Tiebreak(sort) == IF sort = <<>> THEN "asc" ELSE Last(sort).dir
RunBefore(db, r, t, sort, scope) ==
  LET a == RunKeys(db, r, sort, scope)
      b == RunKeys(db, t, sort, scope)
  IN \/ \E i \in DOMAIN sort : Precedes(a[i], b[i], sort[i].dir)
                               /\ \A j \in 1..(i - 1) : a[j] = b[j]
     \/ a = b /\ IdBefore(r, t, Tiebreak(sort))
KeyAfterPlain(key, cursor, dir) ==    \* A mistaken form: NULL as SQL compares it
  Operator(IF dir = "asc" THEN "gt" ELSE "lt", key, cursor) = "T"
KeyAfter(key, cursor, dir) ==
  IF cursor = Null THEN dir = "desc" /\ key # Null
  ELSE \/ dir = "asc" /\ (key = Null \/ Less(cursor.v, key.v))
       \/ dir = "desc" /\ key # Null /\ Less(key.v, cursor.v)
RunAfter(db, r, q, scope) ==
  LET a == RunKeys(db, r, q.sort, scope)
      c == q.cursor.keys
  IN \/ \E i \in DOMAIN q.sort : KeyAfter(a[i], c[i], q.sort[i].dir)
                                 /\ \A j \in 1..(i - 1) : a[j] = c[j]
     \/ a = c /\ IdBefore(q.cursor.id, r, Tiebreak(q.sort))

ProjectPage(db, q, scope) ==
  LET found == {r \in RunMatches(db, q, scope) : q.cursor # None => RunAfter(db, r, q, scope)}
      less == {p \in found \X found : RunBefore(db, p[1], p[2], q.sort, scope)}
  IN PageOf(Ranked(found, less), q.limit)

-----------------------------------------------------------------------------
(* The cells of a row: what it shows, and per Card whether it was used, has  *)
(* changed since the Card, and its judgements.                               *)
Detail(db, r, scope) ==
  LET run == db.runs[r]
  IN IF Shown(run, scope.member)
     THEN [state |-> run.state, is |-> run.is] ELSE [state |-> "deleted", is |-> None]
Changed(db, v) ==    \* used_set::summarise, of the rows used_set::read joins
  {r \in DOMAIN db.content[v].used : db.content[v].used[r] # db.runs[r].hash}
Cell(db, r, v) ==
  [used |-> r \in DOMAIN db.content[v].used,
   changed |-> r \in Changed(db, v),
   results |-> {j \in db.content[v].judgements : j.eval = TheEval /\ j.run = r}]
RowOf(db, r, scope) ==
  [run |-> r, detail |-> Detail(db, r, scope),
   cells |-> [c \in DOMAIN scope.version |-> Cell(db, r, scope.version[c])]]
================================================================================
