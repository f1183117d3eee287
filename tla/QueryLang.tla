------------------------------- MODULE QueryLang -------------------------------
(* The query language: the path tables, the grammar and the type check.      *)
(* Nothing here knows SQL; RecordQuery and RunProjection give the checked    *)
(* tree its meaning.  A path is a tuple of segments, a JSON scalar a record  *)
(* of its type and a sequence of integers, so that one lexical order serves  *)
(* numbers, strings and timestamps.                                          *)
EXTENDS Integers, Sequences, FiniteSets, SequencesExt

CONSTANTS
  Schema,      \* kind -> [props: name -> node, defs: name -> node], the committed JSON Schema
  Generated,   \* leaf paths with a generated column
  Facets,      \* kind -> facet names
  Ids,         \* the well-formed {ns}/{name}, of metrics and of Cards
  None,        \* absent
  Junk,        \* a JSON value of the wrong shape
  Depth        \* how deep the parser lets JSON nest

Lit(ty, v) == [t |-> ty, v |-> v]
Num(n) == Lit("number", <<n>>)
Null == Lit("null", <<>>)
List(items) == [t |-> "array", v |-> <<>>, of |-> items]

-----------------------------------------------------------------------------
(* The intermediate representation                                          *)

Column(at, path) == [at |-> at, path |-> path]
ExtColumn(path, ty) == [at |-> "ext", path |-> path, ty |-> ty]
RunColumn(path) == Column("run", path)
ResultColumn(path) == Column("result", path)    \* a judgement of a named Card
Cmp(column, op, value) == [column |-> column, op |-> op, value |-> value]
Scalar(column, ty, indexed) ==
  [is |-> "scalar", column |-> column, ty |-> ty, indexed |-> indexed]
Array(table) == [is |-> "array", table |-> table]

ValueType == {"string", "number", "boolean"}
ScalarOp == {"eq", "ne", "gt", "gte", "lt", "lte", "in", "prefix", "contains"}
ArrayTables == {"results", "relations", "attachments"}

-----------------------------------------------------------------------------
(* The path tables.  A schema node is a reference, an anyOf, an object or a  *)
(* leaf with its type names.                                                *)

(* What is reached from a value through its parts.                           *)
Closure(root, Parts(_)) ==
  LET reached[n \in 0..Depth] ==
        IF n = 0 THEN {root}
        ELSE LET before == reached[n - 1] IN before \cup UNION {Parts(x) : x \in before}
  IN reached[Depth]

(* The first branch that has a shape, null left aside.                       *)
NullLeaf == [is |-> "leaf", types |-> <<"null">>]
Branches(node) == IF node.is = "anyOf" THEN ToSet(node.of) ELSE {}
FirstShape(shapes) == Head(Append(SelectSeq(shapes, LAMBDA s : s # None), None))
Resolve(defs, node) ==
  LET shape[n \in Closure(node, Branches)] ==
        CASE n.is = "ref" -> IF n.to \in DOMAIN defs THEN defs[n.to] ELSE None
          [] n.is = "anyOf" ->
               FirstShape([i \in DOMAIN n.of |-> IF n.of[i] = NullLeaf THEN None ELSE shape[n.of[i]]])
          [] OTHER -> n
  IN shape[node]

ScalarType(shape) ==
  LET names == IF shape = None \/ shape.is # "leaf" THEN <<>>
               ELSE SelectSeq(shape.types,
                      LAMBDA n : n \in {"string", "number", "integer", "boolean"})
  IN IF names = <<>> THEN None
     ELSE IF Head(names) = "integer" THEN "number" ELSE Head(names)

Fields(path, shape) ==
  IF shape = None \/ shape.is # "object" THEN {}
  ELSE {[path |-> Append(path, n), node |-> shape.props[n]] : n \in DOMAIN shape.props \ {"ext"}}
Leaves(defs, prop, path) ==
  {l \in {<<x.path, ScalarType(Resolve(defs, x.node))>> :
            x \in Closure([path |-> path, node |-> prop],
                          LAMBDA x : Fields(x.path, Resolve(defs, x.node)))} : l[2] # None}

LeavesOf(kind, names) ==
  UNION {Leaves(Schema[kind].defs, Schema[kind].props[n], <<n>>) :
           n \in names \cap DOMAIN Schema[kind].props}

Listed(entries) ==    \* a set of <<path, info>> as a table
  [p \in {e[1] : e \in entries} |-> (CHOOSE e \in entries : e[1] = p)[2]]

ScalarLeaves(kind) ==
  LeavesOf(kind, DOMAIN Schema[kind].props \ (ArrayTables \cup {"ext"}))
FromSchema == [kind \in DOMAIN Schema |->
  LET names == DOMAIN Schema[kind].props
      leaf(l) == IF l[1] \in Generated
                 THEN Scalar(Column("generated", l[1]), l[2], "Full")
                 ELSE Scalar(Column("body", l[1]), l[2], "EqExistsOnly")
  IN Listed({<<<<n>>, Array(n)>> : n \in names \cap ArrayTables}
       \cup {<<l[1], leaf(l)>> : l \in ScalarLeaves(kind)}
       \cup {<<<<"fingerprint", f>>,
               Scalar(Column("fingerprint", <<f>>), "string", "Full")>> : f \in Facets[kind]})]

RunScalar(path, ty) == <<path, Scalar(RunColumn(path), ty, "Full")>>
ForRuns ==
  Listed({RunScalar(<<c>>, "string") : c \in {"run_id", "status", "started_at", "ended_at"}}
    \cup {<<<<"error", "kind">>, Scalar(RunColumn(<<"error_kind">>), "string", "Full")>>}
    \cup {RunScalar(l[1], l[2]) : l \in LeavesOf("eval", Facets["eval"])}
    \cup {RunScalar(<<"fingerprint", f>>, "string") : f \in Facets["eval"]})

(* Entries are applied ext_schemas, [ns, key, ty]; the last one wins.        *)
ExtPath(e) == <<"ext", e.ns, e.key>>
WithExt(table, entries) ==
  LET declared == {ExtPath(e) : e \in ToSet(entries)}
      last(p) == CHOOSE i \in DOMAIN entries :
                   /\ ExtPath(entries[i]) = p
                   /\ \A j \in DOMAIN entries : ExtPath(entries[j]) = p => j <= i
      ty(p) == entries[last(p)].ty
  IN [p \in DOMAIN table \cup declared |->
        IF p \in declared THEN Scalar(ExtColumn(p, ty(p)), ty(p), "Full") ELSE table[p]]

(* metrics[{id}] and results[{card}][{id}].value or .label.                 *)
RunParam(path, cards) ==
  CASE Len(path) = 2 /\ path[1] = "metrics" /\ path[2] \in Ids ->
         Scalar(RunColumn(path), "number", "Full")
    [] Len(path) = 4 /\ path[1] = "results" /\ path[2] \in cards \cap Ids
         /\ path[3] \in Ids /\ path[4] \in {"value", "label"} ->
         Scalar(ResultColumn(path), IF path[4] = "value" THEN "number" ELSE "string", "Full")
    [] OTHER -> None

(* A table to look in: [paths, runs: is it the run projection's, cards].     *)
Lookup(table, path) ==
  IF path \in DOMAIN table.paths THEN table.paths[path]
  ELSE IF table.runs /\ RunParam(path, table.cards) # None
  THEN RunParam(path, table.cards)
  ELSE IF Len(path) > 2 /\ path[1] = "ext"
  THEN Scalar(Column("body", path), "string", "EqExistsUntyped")
  ELSE None

ArrayColumn(table, key) ==    \* the type of an element's field
  CASE table = "results" /\ key \in {"metric", "aggregation"} -> "string"
    [] table = "results" /\ key \in {"value", "n"} -> "number"
    [] table = "relations" /\ key \in {"type", "to"} -> "string"
    [] table = "attachments" /\ key \in {"path", "sha256"} -> "string"
    [] OTHER -> None

-----------------------------------------------------------------------------
(* The grammar.  A wire filter is a record of the keys it carries; what is   *)
(* wrong with it is a set of codes, those of its parts together (where each  *)
(* was met is left out).                                                     *)

Has(w, key) == key \in DOMAIN w
Junction(w) == IF Has(w, "and") THEN "and" ELSE "or"
IsJunction(w) == Has(w, "and") \/ Has(w, "or")
IsLeaf(w) == ~IsJunction(w) /\ ~Has(w, "not")

(* A part is looked into when its one key has a value of the right shape.    *)
Children(w) ==
  IF w = Junk THEN {}
  ELSE IF IsJunction(w)
  THEN IF DOMAIN w # {Junction(w)} \/ w[Junction(w)] = Junk THEN {} ELSE ToSet(w[Junction(w)])
  ELSE IF DOMAIN w = {"not"} THEN {w["not"]} ELSE {}
Nodes(w) == Closure(w, Children)
LeafNodes(w) == {g \in Nodes(w) : IsLeaf(g)}

Extra(w, allowed) == IF DOMAIN w \subseteq allowed THEN {} ELSE {"schema"}
Needs(w, key) == IF Has(w, key) THEN {} ELSE {"schema"}

TermShape(term) ==
  IF term # Junk /\ (Has(term, "op") \/ Has(term, "value"))
  THEN Extra(term, {"op", "value"}) \cup Needs(term, "value")
  ELSE {}

LeafShape(w) ==
  IF ~Has(w, "path") \/ ~Has(w, "op") \/ Junk \in {w.path, w.op} THEN {"schema"}
  ELSE CASE w.op = "exists" -> Extra(w, {"path", "op"})
         [] w.op = "any" ->
              Extra(w, {"path", "op", "match"}) \cup
              IF ~Has(w, "match") \/ w.match = Junk THEN {"schema"}
              ELSE UNION {TermShape(w.match[k]) : k \in DOMAIN w.match}
         [] OTHER -> Extra(w, {"path", "op", "value"}) \cup Needs(w, "value")

Shape(w) ==
  IF w = Junk THEN {"schema"}
  ELSE IF IsJunction(w)
  THEN IF DOMAIN w # {Junction(w)} \/ w[Junction(w)] = Junk THEN {"schema"} ELSE {}
  ELSE IF Has(w, "not") THEN Extra(w, {"not"})
  ELSE LeafShape(w)

Term(term) ==    \* a bare literal means eq
  IF Has(term, "value")
  THEN [op |-> IF Has(term, "op") THEN term.op ELSE "eq", value |-> term.value]
  ELSE [op |-> "eq", value |-> term]

KnownOps(w) ==
  IF w.op = "any" THEN \A k \in DOMAIN w.match : Term(w.match[k]).op \in ScalarOp
  ELSE w.op \in ScalarOp \cup {"exists"}

(* Every structural problem, then the builder's own: an unknown operator.    *)
ParseErrors(w) ==
  LET shape == UNION {Shape(g) : g \in Nodes(w)}
  IN IF shape # {} THEN shape
     ELSE IF \A g \in LeafNodes(w) : KnownOps(g) THEN {} ELSE {"schema"}

-----------------------------------------------------------------------------
(* The type check                                                           *)

OpSuits(op, ty) ==
  CASE op \in {"eq", "ne", "in"} -> TRUE
    [] op \in {"gt", "gte", "lt", "lte"} -> ty \in {"number", "string"}
    [] op \in {"prefix", "contains"} -> ty = "string"
IndexServesAll(indexed, op) == TRUE    \* A mistaken form: the table's second row missed
IndexServes(indexed, op) == indexed = "Full" \/ op = "eq"

ValueSuits(op, ty, value) ==
  IF op = "in" THEN value.t = "array" /\ \A i \in DOMAIN value.of : value.of[i].t = ty
  ELSE value.t = ty
CmpErrors(ty, indexed, op, value) ==
  LET typed == indexed # "EqExistsUntyped"
  IN (IF typed /\ ~OpSuits(op, ty) THEN {"type_mismatch"}
      ELSE IF ~IndexServes(indexed, op) THEN {"not_indexed"}
      ELSE {})
     \cup IF typed THEN IF ValueSuits(op, ty, value) THEN {} ELSE {"type_mismatch"}
          ELSE IF op = "in" /\ value.t # "array" THEN {"type_mismatch"} ELSE {}

TermErrors(table, terms) ==
  IF DOMAIN terms = {} THEN {"schema"}
  ELSE UNION {IF ArrayColumn(table, k) = None THEN {"unknown_path"}
              ELSE CmpErrors(ArrayColumn(table, k), "Full", Term(terms[k]).op, Term(terms[k]).value) :
                k \in DOMAIN terms}

LeafErrors(w, table) ==
  LET info == Lookup(table, w.path)
  IN IF info = None THEN {"unknown_path"}
     ELSE CASE w.op = "any" ->
                 IF info.is = "array" THEN TermErrors(info.table, w.match) ELSE {"type_mismatch"}
            [] w.op = "exists" -> IF info.is = "scalar" THEN {} ELSE {"type_mismatch"}
            [] OTHER ->
                 IF info.is = "scalar" THEN CmpErrors(info.ty, info.indexed, w.op, w.value)
                 ELSE {"type_mismatch"}

FilterErrors(where, table) ==
  IF where = None THEN {}
  ELSE IF ParseErrors(where) # {} THEN ParseErrors(where)
  ELSE UNION {LeafErrors(g, table) : g \in LeafNodes(where)}

(* The tree the store compiles, of a filter without errors: its shape, and   *)
(* for each leaf what it asks of which column.                               *)
CheckedLeaf(w, table) ==
  LET info == Lookup(table, w.path)
  IN CASE w.op = "exists" -> [is |-> "exists", column |-> info.column]
       [] w.op = "any" ->
            [is |-> "any", table |-> info.table,
             conditions |-> {Cmp(Column("array", <<info.table, k>>),
                                 Term(w.match[k]).op, Term(w.match[k]).value) :
                               k \in DOMAIN w.match}]
       [] OTHER -> [is |-> "cmp", cmp |-> Cmp(info.column, w.op, w.value)]
Checked(w, table) ==
  [tree |-> w, leaf |-> [g \in LeafNodes(w) |-> CheckedLeaf(g, table)]]

-----------------------------------------------------------------------------
(* Sort keys and whole requests                                             *)

CheckSort(path, table) ==    \* [key] or [code]
  IF path = <<"created_at">> THEN [key |-> Column("created_at", <<>>)]
  ELSE IF Len(path) = 3 /\ path[1] = "results"
  THEN IF path[3] = "value" /\ path[2] \in Ids
       THEN [key |-> Column("metric", <<path[2]>>)] ELSE [code |-> "unknown_path"]
  ELSE LET info == Lookup(table, path)
       IN CASE info = None -> [code |-> "unknown_path"]
            [] info # None /\ info.is = "array" -> [code |-> "type_mismatch"]
            [] OTHER -> IF info.indexed = "Full" THEN [key |-> info.column]
                        ELSE [code |-> "not_indexed"]
CheckRunSort(path, table) ==
  LET info == Lookup(table, path)
  IN CASE info = None -> [code |-> "unknown_path"]
       [] info # None /\ info.is = "array" -> [code |-> "type_mismatch"]
       [] OTHER -> IF info.column.at \in {"run", "result"} \/ info.indexed = "Full"
                   THEN [key |-> info.column] ELSE [code |-> "not_indexed"]

(* compile and compile_runs: every problem of the filter and of the sort     *)
(* keys, and a cursor that carries another number of keys.                  *)
CheckKeys(request, table) ==
  [i \in DOMAIN request.sort |->
     IF table.runs THEN CheckRunSort(request.sort[i].path, table)
     ELSE CheckSort(request.sort[i].path, table)]
KeyErrors(keys, cursor) ==
  LET good == {i \in DOMAIN keys : Has(keys[i], "key")}
  IN {keys[i].code : i \in DOMAIN keys \ good}
     \cup IF cursor # None /\ Len(cursor.keys) # Cardinality(good) THEN {"schema"} ELSE {}
CompileErrors(request, table, cursor) ==
  FilterErrors(request.where, table) \cup KeyErrors(CheckKeys(request, table), cursor)
Compile(request, table, cursor) ==
  [filter |-> IF request.where = None THEN None ELSE Checked(request.where, table),
   sort |-> [i \in DOMAIN request.sort |->
               [key |-> CheckKeys(request, table)[i].key, dir |-> request.sort[i].dir]],
   limit |-> request.limit,
   version |-> request.version,
   cursor |-> cursor]

-----------------------------------------------------------------------------
(* SQL's three truth values, and the comparison of two scalars               *)

Truth(b) == IF b THEN "T" ELSE "F"
Not3(x) == CASE x = "T" -> "F" [] x = "F" -> "T" [] OTHER -> "N"
And3(xs) == IF "F" \in xs THEN "F" ELSE IF "N" \in xs THEN "N" ELSE "T"
Or3(xs) == IF "T" \in xs THEN "T" ELSE IF "N" \in xs THEN "N" ELSE "F"

(* What a tree says of a row of which its leaves say what `says' tells.      *)
Verdict(tree, says) ==
  LET verdict[g \in Nodes(tree)] ==
        IF Has(g, "and") THEN And3({verdict[g["and"][i]] : i \in DOMAIN g["and"]})
        ELSE IF Has(g, "or") THEN Or3({verdict[g["or"][i]] : i \in DOMAIN g["or"]})
        ELSE IF Has(g, "not") THEN Not3(verdict[g["not"]])
        ELSE says[g]
  IN verdict[tree]

(* Lexical: a proper prefix, or less at the first place that differs.        *)
Less(a, b) ==
  \E i \in 1..Len(b) :
    /\ i <= Len(a) + 1 /\ \A j \in 1..(i - 1) : a[j] = b[j]
    /\ i <= Len(a) => a[i] < b[i]
Within(a, b) == \E i \in 1..(Len(b) - Len(a) + 1) : SubSeq(b, i, i + Len(a) - 1) = a
Holds(op, a, b) ==
  CASE op = "eq" -> a = b
    [] op = "ne" -> a # b
    [] op = "gt" -> Less(b, a)
    [] op = "gte" -> ~Less(a, b)
    [] op = "lt" -> Less(a, b)
    [] op = "lte" -> ~Less(b, a)
    [] op = "prefix" -> IsPrefix(b, a)
    [] op = "contains" -> Within(b, a)

(* One operator applied to one expression: unknown on NULL.                 *)
Operator(op, x, value) ==
  IF x.t = "null" THEN "N"
  ELSE IF op = "in" THEN Truth(\E i \in DOMAIN value.of : value.of[i].v = x.v)
  ELSE Truth(Holds(op, x.v, value.v))

(* What a literal binds as: a comparison, or a cursor key, of type ty.       *)
Binds(ty, value) == value.t = ty
OperatorBinds(op, ty, value) ==
  CASE op = "in" -> value.t = "array" /\ \A i \in DOMAIN value.of : Binds(ty, value.of[i])
    [] op \in {"prefix", "contains"} -> ty = "string" /\ Binds(ty, value)
    [] OTHER -> Binds(ty, value)

Cast(ty, value) == IF value.t = ty THEN value ELSE Null    \* evalhub_num, _str, _bool
At(body, path) == IF path \in DOMAIN body THEN body[path] ELSE Null
================================================================================
