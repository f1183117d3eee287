------------------------------- MODULE RecordQuery -----------------------------
(* A checked record query as the statement it compiles to: which versions it *)
(* matches, in which order, and the page after a cursor.  A snapshot db of   *)
(* the database has                                                         *)
(*   content   version -> what it carries, which never changes:              *)
(*             [rec, seq, created, body, results, edges, files, fingerprints, *)
(*              judgements, used]                                            *)
(*   live      the versions stored and not tombstoned, dead the tombstoned   *)
(*   public    the public records                                           *)
(*   runs      run id of TheEval -> [state, is]                              *)
EXTENDS QueryLang, FiniteSetsExt

CONSTANTS
  Kind, NsOf,  \* record -> "card" or "eval", record -> namespace
  Address,     \* version -> {ns}/{name}@{seq} as a string literal
  Text,        \* id of a metric -> the string literal it is stored as
  Hex          \* the string literals that are hexadecimal

Fingerprinted == {"model", "task", "harness", "generation", "trial", "grading", "env"}
TypeOfColumn(path) ==    \* how a generated column binds
  CASE path[1] = "generation" \/ path = <<"trial", "k">> -> "number"
    [] path = <<"env", "git", "dirty">> -> "boolean"
    [] OTHER -> "string"

(* What the lists kept by hand say of the schema: a generated column binds    *)
(* as the schema types its path, and every facet has a fingerprint (the      *)
(* check constraint of the migration).                                       *)
ASSUME TypesAssumption ==
  /\ None \notin ValueType \cup {"timestamp"}
  /\ \A kind \in DOMAIN Schema :
       /\ Facets[kind] \subseteq Fingerprinted
       /\ \A l \in ScalarLeaves(kind) : l[1] \in Generated => l[2] = TypeOfColumn(l[1])

(* visible_to, and the records and versions a caller may see.                *)
VisibleTo(db, rec, caller) == rec \in db.public \/ NsOf[rec] \in caller
SeesVersion(db, v, caller) == VisibleTo(db, db.content[v].rec, caller)

-----------------------------------------------------------------------------
(* What reaches SQL; anything else is StoreError::QueryUnsupported           *)

FieldType(column) == ArrayColumn(column.path[1], column.path[2])
FingerprintBinds(column, op, value) ==
  /\ column.path[1] \in Fingerprinted /\ op \in {"eq", "ne"}
  /\ value.t = "string" /\ value \in Hex
CmpRenders(c, table) ==    \* table is None outside an any condition
  CASE c.column.at = "fingerprint" -> FingerprintBinds(c.column, c.op, c.value)
    [] c.column.at = "body" -> c.op = "eq"
    [] c.column.at = "array" ->
         c.column.path[1] = table /\ OperatorBinds(c.op, FieldType(c.column), c.value)
    [] c.column.at = "generated" ->
         OperatorBinds(c.op, TypeOfColumn(c.column.path), c.value)
    [] c.column.at = "ext" -> OperatorBinds(c.op, c.column.ty, c.value)
    [] OTHER -> FALSE

LeafRenders(f) ==
  CASE f.is = "exists" ->
         f.column.at \in {"generated", "ext", "body"}
         \/ (f.column.at = "fingerprint" /\ f.column.path[1] \in Fingerprinted)
    [] f.is = "any" -> \A c \in f.conditions : CmpRenders(c, f.table)
    [] OTHER -> CmpRenders(f.cmp, None)
Renders(f) == \A g \in DOMAIN f.leaf : LeafRenders(f.leaf[g])

KeyType(key) ==
  CASE key.at = "created_at" -> "timestamp"
    [] key.at = "metric" -> "number"
    [] key.at = "generated" -> TypeOfColumn(key.path)
    [] key.at = "ext" -> key.ty
    [] OTHER -> None
CursorBinds(q) ==
  q.cursor # None =>
    /\ Len(q.cursor.keys) = Len(q.sort)
    /\ \A i \in DOMAIN q.sort : Binds(KeyType(q.sort[i].key), q.cursor.keys[i])
Supported(q) ==
  /\ q.filter # None => Renders(q.filter)
  /\ \A i \in DOMAIN q.sort : KeyType(q.sort[i].key) # None
  /\ CursorBinds(q)

-----------------------------------------------------------------------------
(* The predicate                                                            *)

EdgeAlways(db, e, caller) == TRUE    \* A mistaken form: no predicate on the target
(* A resolved edge is a row only for those who may see its target.           *)
EdgeVisible(db, e, caller) == e.to = None \/ SeesVersion(db, e.to, caller)
EdgeRow(e) == [type |-> e.type, to |-> IF e.text # None THEN e.text ELSE Address[e.to]]
Rows(db, v, table, caller) ==
  CASE table = "results" -> db.content[v].results
    [] table = "attachments" -> db.content[v].files
    [] table = "relations" ->
         {EdgeRow(e) : e \in {x \in db.content[v].edges : EdgeVisible(db, x, caller)}}

Expression(db, v, column) ==
  CASE column.at = "generated" -> Cast(TypeOfColumn(column.path), At(db.content[v].body, column.path))
    [] column.at = "ext" -> Cast(column.ty, At(db.content[v].body, column.path))

CmpTruth(db, v, c) ==
  CASE c.column.at = "fingerprint" ->
         LET there == c.column.path[1] \in DOMAIN db.content[v].fingerprints
               /\ db.content[v].fingerprints[c.column.path[1]] = c.value
         IN Truth(there = (c.op = "eq"))
    [] c.column.at = "body" ->    \* jsonb containment
         Truth(c.column.path \in DOMAIN db.content[v].body
               /\ db.content[v].body[c.column.path] = c.value)
    [] OTHER -> Operator(c.op, Expression(db, v, c.column), c.value)
ExistsTruth(db, v, column) ==
  CASE column.at = "fingerprint" -> Truth(column.path[1] \in DOMAIN db.content[v].fingerprints)
    [] column.at = "body" -> Truth(column.path \in DOMAIN db.content[v].body)
    [] OTHER -> Truth(Expression(db, v, column) # Null)

LeafTruth(db, v, f, caller) ==
  CASE f.is = "exists" -> ExistsTruth(db, v, f.column)
    [] f.is = "any" ->    \* EXISTS is never unknown
         Truth(\E row \in Rows(db, v, f.table, caller) : \A c \in f.conditions :
                 Operator(c.op, row[c.column.path[2]], c.value) = "T")
    [] OTHER -> CmpTruth(db, v, f.cmp)
FilterTruth(db, v, f, caller) ==
  Verdict(f.tree, [g \in DOMAIN f.leaf |-> LeafTruth(db, v, f.leaf[g], caller)])

Latest(db, v) ==
  \A w \in db.live : db.content[w].rec = db.content[v].rec => db.content[w].seq <= db.content[v].seq
Matches(db, q, kind, caller) ==
  {v \in db.live :
     /\ Kind[db.content[v].rec] = kind /\ SeesVersion(db, v, caller)
     /\ q.version = "latest" => Latest(db, v)
     /\ q.filter # None => FilterTruth(db, v, q.filter, caller) = "T"}

-----------------------------------------------------------------------------
(* Order and keyset                                                         *)

BestValue(db, v, metric, dir) ==    \* the lateral join
  LET values == {r \in db.content[v].results : r.metric = Text[metric]}
      best == CHOOSE r \in values : \A o \in values :
                IF dir = "asc" THEN ~Less(o.value.v, r.value.v) ELSE ~Less(r.value.v, o.value.v)
  IN IF values = {} THEN Null ELSE best.value
KeyValue(db, v, s) ==
  CASE s.key.at = "created_at" -> Lit("timestamp", <<db.content[v].created>>)
    [] s.key.at = "metric" -> BestValue(db, v, s.key.path[1], s.dir)
    [] OTHER -> Expression(db, v, s.key)
Keys(db, v, sort) == [i \in DOMAIN sort |-> KeyValue(db, v, sort[i])]

Direction(sort) == IF sort = <<>> THEN "desc" ELSE Last(sort).dir    \* of the tiebreaker
(* ASC puts NULL last, DESC first.                                          *)
Precedes(a, b, dir) ==
  IF dir = "asc" THEN a.t # "null" /\ (b.t = "null" \/ Less(a.v, b.v))
  ELSE b.t # "null" /\ (a.t = "null" \/ Less(b.v, a.v))
IdBefore(v, w, dir) == IF dir = "asc" THEN v < w ELSE w < v
Before(db, v, w, sort) ==
  IF sort = <<>>
  THEN \/ db.content[v].created > db.content[w].created
       \/ db.content[v].created = db.content[w].created /\ v > w
  ELSE LET a == Keys(db, v, sort)
           b == Keys(db, w, sort)
       IN \/ \E i \in DOMAIN sort : Precedes(a[i], b[i], sort[i].dir)
                                    /\ \A j \in 1..(i - 1) : a[j] = b[j]
          \/ a = b /\ IdBefore(v, w, Direction(sort))

AfterOrAt(db, v, q) ==    \* A mistaken form: a tie on the keys is taken as after
  LET a == Keys(db, v, q.sort)
      c == q.cursor.keys
      beyond(i) == Operator(IF q.sort[i].dir = "asc" THEN "gt" ELSE "lt", a[i], c[i]) = "T"
      equal(i) == Operator("eq", a[i], c[i]) = "T"
  IN \E i \in DOMAIN q.sort :
       /\ \A j \in 1..(i - 1) : equal(j)
       /\ beyond(i) \/ (i = Len(q.sort) /\ equal(i))
(* Strictly after the cursor.  A NULL key is after nothing, and nothing is   *)
(* after a NULL key.  Without sort keys only the version ids are compared.   *)
After(db, v, q) ==
  LET a == Keys(db, v, q.sort)
      c == q.cursor.keys
      differ(i) == Operator(IF q.sort[i].dir = "asc" THEN "gt" ELSE "lt", a[i], c[i]) = "T"
      equal(i) == Operator("eq", a[i], c[i]) = "T"
  IN \/ \E i \in DOMAIN q.sort : differ(i) /\ \A j \in 1..(i - 1) : equal(j)
     \/ /\ \A i \in DOMAIN q.sort : equal(i)
        /\ IdBefore(q.cursor.id, v, Direction(q.sort))

(* The rows in the order of a relation, which holds their pairs.             *)
Ranked(rows, less) ==
  [i \in 1..Cardinality(rows) |->
     CHOOSE x \in rows : Cardinality({y \in rows : <<y, x>> \in less}) = i - 1]
(* One row more than asked is fetched; when it is there the page goes on.    *)
PageOf(fetched, limit) ==
  [hits |-> SubSeq(fetched, 1, Min({limit, Len(fetched)})), more |-> Len(fetched) > limit]
Run(db, q, kind, caller) ==
  LET found == {v \in Matches(db, q, kind, caller) : q.cursor # None => After(db, v, q)}
      less == {p \in found \X found : Before(db, p[1], p[2], q.sort)}
  IN PageOf(Ranked(found, less), q.limit)
================================================================================
