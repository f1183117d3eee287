---------------------------- MODULE ReadsProofs ----------------------------
(***************************************************************************)
(* Proofs about Reads, for any content, path tables, requests and number   *)
(* of writes by others: no body names a record that stayed hidden from the *)
(* reader while its page was redacted; edges read alike from both ends;    *)
(* what the type check accepts SQL can run, but for the known exceptions;  *)
(* a page is the same whether or not the database holds what its reader    *)
(* may not see; and a walk delivers the rows that keep their keys in       *)
(* order, each at most once, and when it ends none that a cursor can       *)
(* reach is left out.                                                      *)
(***************************************************************************)
EXTENDS Reads, FiniteSetTheorems, WellFoundedInduction, NaturalsInduction, TLAPS

Reading == phase \in {"selected", "redacted", "judged"}

(* While a page of the record query is being redacted, what stayed hidden
   since its statement is still hidden; what names it has been read as hidden. *)
VeiledInv ==
  Reading => told = {} /\ \A x \in veiled : ~VisibleTo(db, x, req.caller)
HiddenInv ==
  phase \in {"redacted", "judged"} =>
    /\ DOMAIN hidden = ToSet(page.hits)
    /\ \A v \in DOMAIN hidden :
         /\ hidden[v] = [targets |-> hidden[v].targets, evals |-> hidden[v].evals]
         /\ \A e \in Content[v].edges :
              e.to # None /\ Content[e.to].rec \in veiled => e \in hidden[v].targets
JudgedInv ==
  phase = "judged" =>
    \A v \in DOMAIN hidden : \A j \in Content[v].judgements :
      j.eval \in veiled => j.eval \in hidden[v].evals
RedactInv == VeiledInv /\ HiddenInv /\ JudgedInv /\ Redacted

(* Whatever somebody else writes leaves the walk alone and can only take from
   what is said of it. *)
LEMMA OthersElsewhere == Others => Turn /\ Elsewhere
  BY DEF Others, Commit, Tombstone, SetVisibility, WriteRun, SetRunState, Audit, Apply, Restart

(* What others write keeps what is said of the page being redacted. *)
LEMMA RedactElsewhere == RedactInv /\ Elsewhere => RedactInv'
<1> SUFFICES ASSUME RedactInv, Elsewhere PROVE RedactInv'
  OBVIOUS
<1>1. UNCHANGED <<req, phase, page, hidden, told>>
  BY DEF Elsewhere, walk
<1>2. /\ veiled' \subseteq veiled
      /\ Reading => \A x \in veiled' : ~VisibleTo(db', x, req.caller)
  BY DEF Elsewhere, Reading
<1>3. VeiledInv'
  BY <1>1, <1>2 DEF RedactInv, VeiledInv, Reading
<1>4. HiddenInv'
  BY <1>1, <1>2 DEF RedactInv, HiddenInv
<1>5. JudgedInv' /\ Redacted'
  BY <1>1, <1>2 DEF RedactInv, JudgedInv, Redacted
<1> QED BY <1>3, <1>4, <1>5 DEF RedactInv

(* The steps before the page statement, and the statement. *)
LEMMA RedactSelect == RedactInv /\ (Refuse \/ Fail \/ Select) => RedactInv'
<1> SUFFICES ASSUME RedactInv, Refuse \/ Fail \/ Select PROVE RedactInv'
  OBVIOUS
<1>1. CASE Refuse \/ Fail
  <2>1. phase' \in {"refused", "failed"} /\ UNCHANGED <<told, veiled>>
    BY <1>1 DEF Refuse, Fail, Stop
  <2> QED BY <2>1 DEF RedactInv, VeiledInv, HiddenInv, JudgedInv, Redacted, Reading
<1>2. CASE Select /\ req.target = "records"
  <2>1. /\ phase' = "selected" /\ veiled' = Veiled(req) /\ told' = {}
        /\ UNCHANGED <<world, req>>
    BY <1>2 DEF Select
  <2>2. \A x \in veiled' : ~VisibleTo(db', x, req'.caller)
    BY <2>1 DEF Veiled, db, world
  <2> QED BY <2>1, <2>2 DEF RedactInv, VeiledInv, HiddenInv, JudgedInv, Redacted, Reading
<1>3. CASE Select /\ req.target # "records"
  <2>1. phase' \in {"done", "walking"} /\ UNCHANGED <<told, veiled>>
    BY <1>3 DEF Select, Deliver
  <2> QED BY <2>1 DEF RedactInv, VeiledInv, HiddenInv, JudgedInv, Redacted, Reading
<1> QED BY <1>1, <1>2, <1>3

(* The two further reads of a page. *)
LEMMA RedactReads == RedactInv /\ (ReadHiddenTargets \/ ReadHiddenEvals) => RedactInv'
<1> SUFFICES ASSUME RedactInv, ReadHiddenTargets \/ ReadHiddenEvals PROVE RedactInv'
  OBVIOUS
<1>1. /\ UNCHANGED <<world, req, page, told, veiled>> /\ Reading /\ Reading'
      /\ \A x \in veiled : ~VisibleTo(db, x, req.caller)
  BY DEF ReadHiddenTargets, ReadHiddenEvals, Reading, RedactInv, VeiledInv
<1>2. VeiledInv' /\ Redacted'
  BY <1>1 DEF RedactInv, VeiledInv, Redacted, db, world
<1>3. CASE ReadHiddenTargets
  <2>1. /\ phase' = "redacted" /\ page' = page
        /\ hidden' = [v \in ToSet(page.hits) |->
                        [targets |-> HiddenTargets(db, v, req.caller), evals |-> {}]]
    BY <1>3 DEF ReadHiddenTargets
  <2>2. ASSUME NEW v, NEW e \in Content[v].edges, e.to # None, Content[e.to].rec \in veiled
        PROVE  e \in HiddenTargets(db, v, req.caller)
    BY <1>1, <2>2 DEF HiddenTargets, SeesVersion, db
  <2>3. HiddenInv'
    BY <1>1, <2>1, <2>2 DEF HiddenInv
  <2> QED BY <1>2, <2>1, <2>3 DEF RedactInv, JudgedInv
<1>4. CASE ReadHiddenEvals
  <2>1. /\ phase = "redacted" /\ phase' = "judged" /\ page' = page
        /\ hidden' = [v \in DOMAIN hidden |->
                        [hidden[v] EXCEPT !.evals = HiddenEvals(db, v, req.caller)]]
    BY <1>4 DEF ReadHiddenEvals
  <2>2. \A v \in DOMAIN hidden :
          /\ hidden'[v].targets = hidden[v].targets
          /\ hidden'[v].evals = HiddenEvals(db, v, req.caller)
          /\ hidden'[v] = [targets |-> hidden'[v].targets, evals |-> hidden'[v].evals]
    BY <2>1 DEF RedactInv, HiddenInv
  <2>3. DOMAIN hidden' = DOMAIN hidden
    BY <2>1
  <2>4. HiddenInv'
    BY <1>1, <2>1, <2>2, <2>3 DEF RedactInv, HiddenInv
  <2>5. ASSUME NEW v, NEW j \in Content[v].judgements, j.eval \in veiled
        PROVE  j.eval \in HiddenEvals(db, v, req.caller)
    BY <1>1, <2>5 DEF HiddenEvals, db
  <2>6. JudgedInv'
    BY <1>1, <2>2, <2>3, <2>5 DEF JudgedInv
  <2> QED BY <1>2, <2>4, <2>6 DEF RedactInv
<1> QED BY <1>3, <1>4

(* The bodies, and the edges read with them. *)
LEMMA RedactRespond == RedactInv /\ Respond => RedactInv'
<1> SUFFICES ASSUME RedactInv, Respond PROVE RedactInv'
  OBVIOUS
<1> DEFINE results(v) == WithholdResults(db, v, hidden[v].evals)
           relations(v) == {x \in WithholdRelations(db, v, hidden[v].targets) : x.to # None}
           shown(v) == {e \in Outgoing(db, v, None, req.caller) :
                          Has(e.to, "version") /\ e.to.visible}
           tells(v) == {Content[e.to].rec : e \in relations(v)} \cup {j.eval : j \in results(v)}
             \cup IF req.expand THEN {Content[e.to.version].rec : e \in shown(v)} ELSE {}
<1>1. /\ phase = "judged" /\ phase' \in {"done", "walking"} /\ UNCHANGED <<world, req, veiled>>
      /\ told' = UNION {tells(v) : v \in ToSet(page.hits)}
  BY DEF Respond, Deliver
<1>2. /\ \A x \in veiled : ~VisibleTo(db, x, req.caller)
      /\ DOMAIN hidden = ToSet(page.hits)
  BY <1>1 DEF RedactInv, VeiledInv, HiddenInv, Reading
<1>3. ASSUME NEW v \in DOMAIN hidden PROVE tells(v) \cap veiled = {}
  <2>1. \A e \in relations(v) : Content[e.to].rec \notin veiled
    <3> SUFFICES ASSUME NEW e \in relations(v), Content[e.to].rec \in veiled PROVE FALSE
      OBVIOUS
    <3>1. e \in Content[v].edges /\ e.to # None /\ e \notin hidden[v].targets
      BY DEF WithholdRelations, db
    <3> QED BY <1>1, <1>3, <3>1 DEF RedactInv, HiddenInv
  <2>2. \A j \in results(v) : j.eval \notin veiled
    BY <1>1, <1>3 DEF RedactInv, JudgedInv, WithholdResults, db
  <2>3. \A e \in shown(v) : Content[e.to.version].rec \notin veiled
    <3> SUFFICES ASSUME NEW e \in shown(v), Content[e.to.version].rec \in veiled PROVE FALSE
      OBVIOUS
    <3>1. \A w : ~Has(TextEnd(w), "version")
      BY DEF TextEnd, Has
    <3>2. PICK w : e.to = VersionEnd(db, w, req.caller)
      BY <3>1 DEF Outgoing, ResolveStored
    <3>3. SeesVersion(db, w, req.caller) /\ e.to.version = w
      BY <3>2 DEF VersionEnd
    <3> QED BY <1>2, <3>3 DEF SeesVersion, db
  <2> HIDE DEF results, relations, shown
  <2> QED BY <2>1, <2>2, <2>3
<1> HIDE DEF tells
<1>4. told' \cap veiled' = {}
  BY <1>1, <1>2, <1>3
<1> QED BY <1>1, <1>4 DEF RedactInv, VeiledInv, HiddenInv, JudgedInv, Redacted, Reading

(* No body names a record hidden from the reader all through the request, for
   any versions, edges and judgements, and any writes between the three reads
   and the response (api/query.rs, relations.rs hidden_targets). *)
THEOREM NothingHiddenTold == Spec => []Redacted
<1>1. Init => RedactInv
  BY DEF Init, RedactInv, VeiledInv, HiddenInv, JudgedInv, Redacted, Reading
<1>2. RedactInv /\ [Next]_vars => RedactInv'
  <2> SUFFICES ASSUME RedactInv, [Next]_vars PROVE RedactInv'
    OBVIOUS
  <2>1. CASE UNCHANGED vars
    BY <2>1 DEF vars, world, walk, db, RedactInv, VeiledInv, HiddenInv, JudgedInv, Redacted,
       Reading
  <2>2. CASE Handler
    BY <2>2, RedactSelect, RedactReads, RedactRespond DEF Handler
  <2>3. CASE Others
    BY <2>3, OthersElsewhere, RedactElsewhere
  <2> QED BY <2>1, <2>2, <2>3 DEF Next
<1>3. RedactInv => Redacted
  BY DEF RedactInv
<1> QED BY <1>1, <1>2, <1>3, PTL DEF Spec

(* A traversal of one step visits what is one edge away. *)
LEMMA OneStep ==
  ASSUME NEW d, NEW v, NEW caller, NEW p, p.depth = 1, p.latest = FALSE
  PROVE  Ends(d, v, p, caller) \subseteq Traverse(d, v, p, caller).nodes
<1> DEFINE start == [frontier |-> {v}, nodes |-> {v}, edges |-> {}]
           next(x) == Level(d, p, caller, x)
           reached[n \in 0..5] == IF n = 0 THEN start ELSE next(reached[n - 1])
           two == next(next(start))
           given == [n \in 0..5 |->
             IF n = 0 THEN start ELSE IF n = 1 THEN next(start) ELSE IF n = 2 THEN two
             ELSE IF n = 3 THEN next(two) ELSE IF n = 4 THEN next(next(two))
             ELSE next(next(next(two)))]
<1>1. \A w : Follow(d, w, p.latest) = w
  BY DEF Follow
<1>2. Traverse(d, v, p, caller) = reached[1]
  <2>1. Min({p.depth, 5}) = 1
    BY DEF Min
  <2> QED BY <1>1, <2>1 DEF Traverse
<1>3. given = [n \in 0..5 |-> IF n = 0 THEN start ELSE next(given[n - 1])]
  <2> HIDE DEF next, start
  <2> QED OBVIOUS
<1>4. reached = [n \in 0..5 |-> IF n = 0 THEN start ELSE next(reached[n - 1])]
  <2> HIDE DEF given, next, start
  <2> QED BY <1>3 DEF reached
<1>5. reached[1] = next(start)
  <2> HIDE DEF reached, next, start
  <2> QED BY <1>4
<1> HIDE DEF reached
<1>6. next(start).nodes = {v} \cup UNION {{Follow(d, w, p.latest) : w \in Ends(d, u, p, caller)} : u \in {v}}
  BY DEF Level
<1> QED BY <1>1, <1>2, <1>5, <1>6

(* The text of an edge resolves to a stored version of that address. *)
LEMMA ResolvedHasAddress ==
  ASSUME NEW d, NEW text, NEW caller, ResolveRef(d, text, caller) # None
  PROVE  /\ ResolveRef(d, text, caller) \in Stored(d)
         /\ Address[ResolveRef(d, text, caller)] = text
<1> DEFINE named == {v \in Stored(d) : Address[v] = text /\ SeesVersion(d, v, caller)}
           cards == {v \in named : Kind[d.content[v].rec] = "card"}
           from == IF cards # {} THEN cards ELSE named
<1>1. named # {} /\ ResolveRef(d, text, caller) = CHOOSE v \in from : TRUE
  BY DEF ResolveRef
<1>2. from # {} /\ from \subseteq named
  BY <1>1
<1>3. ResolveRef(d, text, caller) \in from
  BY <1>1, <1>2
<1> QED BY <1>2, <1>3

(* What outgoing resolves to a version, that version's incoming finds. *)
LEMMA LeavingEnters ==
  ASSUME NEW d, NEW caller, NEW v \in Stored(d), NEW e \in Outgoing(d, v, None, caller),
         Has(e.to, "version")
  PROVE  \E x \in d.content[v].edges :
           /\ e = [from |-> VersionEnd(d, v, caller), type |-> x.type,
                   to |-> VersionEnd(d, e.to.version, caller)]
           /\ Enters(x, e.to.version)
<1>1. PICK x \in d.content[v].edges :
        e = [from |-> VersionEnd(d, v, caller), type |-> x.type, to |-> ResolveStored(d, x, caller)]
  BY DEF Outgoing
<1>2. PICK w : e.to = VersionEnd(d, w, caller) /\ Enters(x, w)
  <2>1. CASE x.to # None
    BY <1>1, <2>1 DEF ResolveStored, Enters
  <2>2. CASE x.to = None /\ ResolveRef(d, x.text, caller) # None
    BY <1>1, <2>2, ResolvedHasAddress DEF ResolveStored, Enters
  <2>3. CASE x.to = None /\ ResolveRef(d, x.text, caller) = None
    BY <1>1, <2>3 DEF ResolveStored, TextEnd, Has
  <2> QED BY <2>1, <2>2, <2>3
<1>3. e.to.version = w
  BY <1>2 DEF VersionEnd
<1> QED BY <1>1, <1>2, <1>3

(* The comparison view has a row for each version it compares. *)
LEMMA ComparedVersions ==
  ASSUME NEW d, NEW w, NEW caller
  PROVE  {c.version : c \in Compare(d, w, caller)} = Comparing(d, w, caller)
<1> DEFINE row(v) ==
      [version |-> v, same_harness |-> Same(d, v, w, "harness"),
       same_model |-> Same(d, v, w, "model"),
       runs_used |-> Cardinality(DOMAIN UsedOf(d, v, w)),
       changed_since_card |-> {r \in DOMAIN UsedOf(d, v, w) :
                                 UsedOf(d, v, w)[r] # d.runs[r].hash}]
<1>1. Compare(d, w, caller) = {row(v) : v \in Comparing(d, w, caller)}
  BY DEF Compare
<1>2. \A v : row(v).version = v
  OBVIOUS
<1> HIDE DEF row
<1> QED BY <1>1, <1>2

(* An edge is found from both its ends, by a traversal against it too, and the
   comparison view lists the latest live Cards among the users of an Eval, for
   any versions, addresses and edges (relations.rs outgoing, incoming, traverse
   and cards_using_eval read the same edges). *)
THEOREM BothEndsAgree == Spec => []EndsAgree
<1>1. EndsAgree
  <2> DEFINE edges == UNION {Outgoing(db, v, None, req.caller) : v \in live \cup dead}
             resolved == {e \in edges : Has(e.to, "version")}
             against(ty) == [direction |-> "in", types |-> {ty}, depth |-> 1, latest |-> FALSE]
             entering(w) == {e \in resolved : e.to.version = w}
             compared(w) == {c.version : c \in Compare(db, w, req.caller)}
             mayCompare(e, v) == v \in live /\ Kind[Content[v].rec] = "card"
                                 /\ e.from.visible /\ Latest(db, v)
  <2>1. ASSUME NEW w, NEW e \in entering(w)
        PROVE  \E v \in Stored(db) : \E x \in Content[v].edges :
                 /\ e = [from |-> VersionEnd(db, v, req.caller), type |-> x.type,
                         to |-> VersionEnd(db, w, req.caller)]
                 /\ Enters(x, w)
    BY <2>1, LeavingEnters DEF Stored, db
  <2> HIDE DEF edges
  <2> DEFINE entered(w, types) == Incoming(db, w, types, req.caller)
  <2>2. ASSUME NEW w, NEW e \in entering(w), NEW types, types = None \/ e.type \in types
        PROVE  e \in entered(w, types)
    <3>0. PICK v \in Stored(db) : \E x \in Content[v].edges :
            /\ e = [from |-> VersionEnd(db, v, req.caller), type |-> x.type,
                    to |-> VersionEnd(db, w, req.caller)]
            /\ Enters(x, w)
      BY <2>1
    <3>1. PICK x \in Content[v].edges :
            /\ e = [from |-> VersionEnd(db, v, req.caller), type |-> x.type,
                    to |-> VersionEnd(db, w, req.caller)]
            /\ Enters(x, w)
      BY <3>0
    <3>2. Followed(x, types)
      BY <2>2, <3>1 DEF Followed
    <3> QED BY <3>1, <3>2 DEF Incoming, db
  <2>3. ASSUME NEW w, NEW e \in entering(w)
        PROVE  e.from.version \in Traverse(db, w, against(e.type), req.caller).nodes
    <3>1. e \in Entering(db, w, against(e.type), req.caller)
      BY <2>2 DEF Entering
    <3>2. e.from.version \in Ends(db, w, against(e.type), req.caller)
      BY <3>1 DEF Ends
    <3> HIDE DEF entering
    <3>3. against(e.type).depth = 1 /\ against(e.type).latest = FALSE
      OBVIOUS
    <3> HIDE DEF against
    <3> QED BY <3>2, <3>3, OneStep
  <2>4. ASSUME NEW w, NEW e \in entering(w), e.type = UsesEval
        PROVE  mayCompare(e, e.from.version) = (e.from.version \in compared(w))
    <3>0. PICK v \in Stored(db) : \E x \in Content[v].edges :
            /\ e = [from |-> VersionEnd(db, v, req.caller), type |-> x.type,
                    to |-> VersionEnd(db, w, req.caller)]
            /\ Enters(x, w)
      BY <2>1
    <3>1. PICK x \in Content[v].edges :
            /\ e = [from |-> VersionEnd(db, v, req.caller), type |-> x.type,
                    to |-> VersionEnd(db, w, req.caller)]
            /\ Enters(x, w)
      BY <3>0
    <3>2. e.from.version = v /\ e.from.visible = SeesVersion(db, v, req.caller)
          /\ x.type = UsesEval
      BY <2>4, <3>1 DEF VersionEnd
    <3>3. compared(w) = Comparing(db, w, req.caller)
      BY ComparedVersions
    <3>4. v \in Comparing(db, w, req.caller) <=> mayCompare(e, v)
      BY <3>1, <3>2 DEF Comparing, db
    <3> QED BY <3>2, <3>3, <3>4
  <2> HIDE DEF entering, resolved, compared, mayCompare, entered, against
  <2>5. ASSUME NEW w
        PROVE  /\ entering(w) \subseteq entered(w, None)
               /\ \A ty \in {e.type : e \in entering(w)} :
                    {e.from.version : e \in {x \in entering(w) : x.type = ty}}
                      \subseteq Traverse(db, w, against(ty), req.caller).nodes
               /\ \A e \in {x \in entering(w) : x.type = UsesEval} :
                    mayCompare(e, e.from.version) = (e.from.version \in compared(w))
    BY <2>2, <2>3, <2>4
  <2> QED BY <2>5 DEF EndsAgree, entering, resolved, edges, compared, mayCompare, entered, against
<1> QED BY <1>1, PTL

(* What the path tables of the record query offer at a path, and what SQL
   makes of it. *)
Served(info) ==
  \/ info.is = "array"
  \/ /\ info.is = "scalar"
     /\ \/ /\ info.column.at = "generated" /\ info.indexed = "Full"
           /\ info.ty = TypeOfColumn(info.column.path)
        \/ info.column.at = "body" /\ info.indexed # "Full"
        \/ /\ info.column.at = "ext" /\ info.indexed = "Full"
           /\ info.ty = info.column.ty /\ info.ty \in ValueType
        \/ info.column.at = "fingerprint" /\ info.column.path[1] \in Fingerprinted

(* An entry of a table is one of the pairs it was listed from. *)
LEMMA TableEntry ==
  ASSUME NEW entries, NEW p \in DOMAIN Listed(entries)
  PROVE  \E e \in entries : e[1] = p /\ Listed(entries)[p] = e[2]
<1>1. p \in {e[1] : e \in entries}
  BY DEF Listed
<1>2. \E e \in entries : e[1] = p
  BY <1>1
<1>3. Listed(entries)[p] = (CHOOSE e \in entries : e[1] = p)[2]
  BY <1>1 DEF Listed
<1> QED BY <1>2, <1>3

(* Of the entries that declare a path there is a last one. *)
LEMMA LastOfMany ==
  ASSUME NEW S \in SUBSET Nat, NEW n \in Nat, \A i \in S : i <= n, S # {}
  PROVE  \E i \in S : \A j \in S : j <= i
<1> DEFINE T == {k \in 0..n : n - k \in S}
<1>1. T \subseteq Nat
  OBVIOUS
<1>2. T # {}
  <2>1. PICK i \in S : i <= n
    OBVIOUS
  <2>2. n - i \in 0..n /\ n - (n - i) = i
    BY <2>1
  <2> QED BY <2>1, <2>2
<1>3. PICK m \in T : \A k \in T : ~(<<k, m>> \in OpToRel(<, Nat))
  BY <1>1, <1>2, NatLessThanWellFounded, WFMin
<1>4. \A k \in T : m <= k
  <2>1. T \subseteq Nat /\ m \in T
    BY <1>1, <1>3
  <2> HIDE DEF T
  <2>2. \A k \in T : ~(k < m)
    BY <1>3, <2>1, Zenon DEF OpToRel
  <2> QED BY <2>1, <2>2
<1>5. \A j \in S : n - j \in T
  OBVIOUS
<1>6. n - m \in S /\ \A j \in S : j <= n - m
  BY <1>4, <1>5
<1> QED BY <1>6

(* What the committed schema gives the record query is served. *)
LEMMA FromSchemaServed ==
  ASSUME NEW kind \in DOMAIN Schema, NEW p \in DOMAIN FromSchema[kind]
  PROVE  Served(FromSchema[kind][p])
<1> DEFINE names == DOMAIN Schema[kind].props
           leaf(l) == IF l[1] \in Generated
                      THEN Scalar(Column("generated", l[1]), l[2], "Full")
                      ELSE Scalar(Column("body", l[1]), l[2], "EqExistsOnly")
           arrays == {<<<<n>>, Array(n)>> : n \in names \cap ArrayTables}
           scalars == {<<l[1], leaf(l)>> : l \in ScalarLeaves(kind)}
           facets == {<<<<"fingerprint", f>>,
                        Scalar(Column("fingerprint", <<f>>), "string", "Full")>> : f \in Facets[kind]}
<1>1. FromSchema[kind] = Listed(arrays \cup scalars \cup facets)
  BY DEF FromSchema
<1>2. PICK e \in arrays \cup scalars \cup facets : FromSchema[kind][p] = e[2]
  <2> HIDE DEF arrays, scalars, facets
  <2> QED BY <1>1, TableEntry
<1>3. CASE e \in arrays
  BY <1>2, <1>3 DEF Served, Array
<1>4. CASE e \in scalars
  BY <1>2, <1>4, TypesAssumption DEF Served, Scalar, Column
<1>5. CASE e \in facets
  BY <1>2, <1>5, TypesAssumption DEF Served, Scalar, Column
<1> QED BY <1>2, <1>3, <1>4, <1>5

(* Declared extension paths are served beside it. *)
LEMMA ExtServed ==
  ASSUME NEW table, NEW entries \in Seq(Schemas), NEW p \in DOMAIN WithExt(table, entries),
         p \in DOMAIN table => Served(table[p])
  PROVE  Served(WithExt(table, entries)[p])
<1> DEFINE declared == {ExtPath(e) : e \in ToSet(entries)}
           at == {i \in DOMAIN entries : ExtPath(entries[i]) = p}
           last == CHOOSE i \in DOMAIN entries :
                     /\ ExtPath(entries[i]) = p
                     /\ \A j \in DOMAIN entries : ExtPath(entries[j]) = p => j <= i
           ty == entries[last].ty
<1>1. WithExt(table, entries)[p]
        = (IF p \in declared THEN Scalar(ExtColumn(p, ty), ty, "Full") ELSE table[p])
      /\ (p \in DOMAIN table \/ p \in declared)
  BY DEF WithExt
<1>2. CASE p \notin declared
  BY <1>1, <1>2
<1>3. CASE p \in declared
  <2>1. at \in SUBSET Nat /\ Len(entries) \in Nat /\ (\A i \in at : i <= Len(entries)) /\ at # {}
    BY <1>3 DEF ToSet
  <2>2. \E i \in at : \A j \in at : j <= i
    <3> HIDE DEF at
    <3> QED BY <2>1, LastOfMany
  <2>3. last \in DOMAIN entries
    BY <2>2
  <2>4. ty \in ValueType
    BY <2>3, ReadsAssumption
  <2> HIDE DEF ty, declared
  <2> QED BY <1>1, <1>3, <2>4 DEF Served, Scalar, ExtColumn
<1> QED BY <1>2, <1>3

(* So is every path a record query may look up. *)
LEMMA LookupServed ==
  ASSUME NEW r \in Requests, r.target = "records", NEW entries \in Seq(Schemas), NEW path,
         Lookup(Table(r, entries), path) # None
  PROVE  Served(Lookup(Table(r, entries), path))
<1> DEFINE paths == WithExt(FromSchema[r.kind], entries)
<1>1. Table(r, entries) = [paths |-> paths, runs |-> FALSE, cards |-> {}]
  BY DEF Table
<1>2. CASE path \in DOMAIN paths
  <2>1. Lookup(Table(r, entries), path) = paths[path]
    <3> HIDE DEF paths
    <3> QED BY <1>1, <1>2 DEF Lookup
  <2>2. \A p \in DOMAIN FromSchema[r.kind] : Served(FromSchema[r.kind][p])
    BY FromSchemaServed, ReadsAssumption
  <2> QED BY <1>2, <2>1, <2>2, ExtServed
<1>3. CASE path \notin DOMAIN paths
  <2>1. Lookup(Table(r, entries), path) = Scalar(Column("body", path), "string", "EqExistsUntyped")
    <3> HIDE DEF paths
    <3> QED BY <1>1, <1>3 DEF Lookup
  <2> QED BY <2>1 DEF Served, Scalar, Column
<1> QED BY <1>2, <1>3

(* A literal of the type of its column binds. *)
LEMMA LiteralBinds ==
  ASSUME NEW op \in ScalarOp, NEW ty, NEW indexed, NEW value, indexed # "EqExistsUntyped",
         CmpErrors(ty, indexed, op, value) = {}
  PROVE  OperatorBinds(op, ty, value)
<1>1. OpSuits(op, ty) /\ ValueSuits(op, ty, value)
  BY DEF CmpErrors
<1> QED BY <1>1 DEF OpSuits, ValueSuits, OperatorBinds, Binds, ScalarOp

(* A leaf the type check accepts is one SQL can run, a comparison of a
   fingerprint apart. *)
LEMMA AcceptedRenders ==
  ASSUME NEW r \in Requests, r.target = "records", NEW entries \in Seq(Schemas), NEW g,
         KnownOps(g), LeafErrors(g, Table(r, entries)) = {}
  PROVE  LET f == CheckedLeaf(g, Table(r, entries))
         IN LeafRenders(f) \/ (f.is = "cmp" /\ f.cmp.column.at = "fingerprint")
<1> DEFINE table == Table(r, entries)
           info == Lookup(table, g.path)
           f == CheckedLeaf(g, table)
<1> SUFFICES LeafRenders(f) \/ (f.is = "cmp" /\ f.cmp.column.at = "fingerprint")
  OBVIOUS
<1>1. info # None
  BY DEF LeafErrors
<1>2. Served(info)
  BY <1>1, LookupServed
<1> HIDE DEF table
<1>3. CASE g.op = "exists"
  <2>1. info.is = "scalar" /\ f = [is |-> "exists", column |-> info.column]
    BY <1>1, <1>3 DEF LeafErrors, CheckedLeaf, table
  <2> HIDE DEF f, info
  <2> QED BY <1>2, <2>1 DEF Served, LeafRenders
<1>4. CASE g.op = "any"
  <2>1. /\ info.is = "array" /\ TermErrors(info.table, g.match) = {}
        /\ f = [is |-> "any", table |-> info.table,
                conditions |-> {Cmp(Column("array", <<info.table, k>>),
                                    Term(g.match[k]).op, Term(g.match[k]).value) :
                                  k \in DOMAIN g.match}]
    BY <1>1, <1>4 DEF LeafErrors, CheckedLeaf, table
  <2>2. ASSUME NEW k \in DOMAIN g.match
        PROVE  CmpRenders(Cmp(Column("array", <<info.table, k>>),
                              Term(g.match[k]).op, Term(g.match[k]).value), info.table)
    <3>1. CmpErrors(ArrayColumn(info.table, k), "Full", Term(g.match[k]).op, Term(g.match[k]).value)
            = {}
      BY <2>1 DEF TermErrors
    <3>2. Term(g.match[k]).op \in ScalarOp
      BY <1>4 DEF KnownOps
    <3>3. OperatorBinds(Term(g.match[k]).op, ArrayColumn(info.table, k), Term(g.match[k]).value)
      BY <3>1, <3>2, LiteralBinds
    <3> HIDE DEF info
    <3> QED BY <3>3 DEF CmpRenders, Cmp, Column, FieldType
  <2> HIDE DEF f, info
  <2> QED BY <2>1, <2>2 DEF LeafRenders
<1>5. CASE g.op \notin {"exists", "any"}
  <2>1. /\ info.is = "scalar" /\ CmpErrors(info.ty, info.indexed, g.op, g.value) = {}
        /\ f = [is |-> "cmp", cmp |-> Cmp(info.column, g.op, g.value)]
    BY <1>1, <1>5 DEF LeafErrors, CheckedLeaf, table
  <2>2. g.op \in ScalarOp
    BY <1>5 DEF KnownOps
  <2>3. info.indexed # "EqExistsUntyped" => OperatorBinds(g.op, info.ty, g.value)
    BY <2>1, <2>2, LiteralBinds
  <2>4. info.indexed = "Full" \/ g.op = "eq"
    BY <2>1, <2>2 DEF CmpErrors, IndexServes
  <2>5. f.cmp.column = info.column /\ f.cmp.op = g.op /\ f.cmp.value = g.value /\ f.is = "cmp"
    BY <2>1 DEF Cmp
  <2> HIDE DEF f, info
  <2> QED BY <1>2, <2>1, <2>3, <2>4, <2>5 DEF Served, LeafRenders, CmpRenders
<1> QED BY <1>3, <1>4, <1>5 DEF table

(* So is a sort key. *)
LEMMA AcceptedSortKey ==
  ASSUME NEW r \in Requests, r.target = "records", NEW entries \in Seq(Schemas), NEW path,
         Has(CheckSort(path, Table(r, entries)), "key")
  PROVE  LET sorted == CheckSort(path, Table(r, entries)).key
         IN KeyType(sorted) # None \/ sorted.at = "fingerprint"
<1> DEFINE table == Table(r, entries)
           info == Lookup(table, path)
           sort == CheckSort(path, table)
<1> SUFFICES KeyType(sort.key) # None \/ sort.key.at = "fingerprint"
  OBVIOUS
<1>1. CASE sort = [key |-> Column("created_at", <<>>)]
  BY <1>1, TypesAssumption DEF Column, KeyType
<1>2. CASE sort = [key |-> Column("metric", <<path[2]>>)]
  <2>1. sort.key.at = "metric"
    BY <1>2 DEF Column
  <2> HIDE DEF sort
  <2> QED BY <2>1, TypesAssumption DEF KeyType, ValueType
<1>3. CASE info # None /\ info.is # "array" /\ info.indexed = "Full" /\ sort = [key |-> info.column]
  <2>1. Served(info)
    BY <1>3, LookupServed
  <2>2. sort.key = info.column
    BY <1>3
  <2> HIDE DEF sort, info
  <2>3. CASE info.column.at = "generated"
    BY <2>2, <2>3, TypesAssumption DEF KeyType, TypeOfColumn, ValueType
  <2>4. CASE info.column.at = "ext" /\ info.column.ty \in ValueType
    BY <2>2, <2>4, TypesAssumption DEF KeyType
  <2> QED BY <1>3, <2>1, <2>2, <2>3, <2>4 DEF Served
<1>4. CASE \E code : sort = [code |-> code]
  BY <1>4 DEF Has
<1>5. \/ sort = [key |-> Column("created_at", <<>>)]
      \/ sort = [key |-> Column("metric", <<path[2]>>)]
      \/ info # None /\ info.is # "array" /\ info.indexed = "Full" /\ sort = [key |-> info.column]
      \/ \E code : sort = [code |-> code]
  <2> HIDE DEF info, table
  <2> QED BY DEF CheckSort, info
<1> QED BY <1>1, <1>2, <1>3, <1>4, <1>5

(* What the checks of a record request leave for SQL to refuse. *)
LEMMA AcceptedRuns ==
  ASSUME NEW r \in Requests, r.target = "records", NEW entries \in Seq(Schemas), NEW c,
         CompileErrors(r, Table(r, entries), c) = {}, ~Supported(Plan(r, c, entries))
  PROVE  LET q == Plan(r, c, entries)
         IN \/ q.filter # None /\ Fingerprints(q.filter)
            \/ \E s \in ToSet(q.sort) : s.key.at = "fingerprint"
            \/ ~CursorBinds(q)
<1> DEFINE table == Table(r, entries)
           q == Plan(r, c, entries)
<1>1. /\ q.filter = IF r.where = None THEN None ELSE Checked(r.where, table)
      /\ q.sort = [i \in DOMAIN r.sort |->
                     [key |-> CheckKeys(r, table)[i].key, dir |-> r.sort[i].dir]]
  BY DEF Plan, Compile
<1>2. /\ FilterErrors(r.where, table) = {}
      /\ \A i \in DOMAIN CheckKeys(r, table) : Has(CheckKeys(r, table)[i], "key")
  BY DEF CompileErrors, KeyErrors
<1>3. CheckKeys(r, table) = [i \in DOMAIN r.sort |-> CheckSort(r.sort[i].path, table)]
  BY DEF CheckKeys, Table
<1> HIDE DEF q, table
<1>4. ASSUME q.filter # None, ~Fingerprints(q.filter) PROVE Renders(q.filter)
  <2>1. r.where # None /\ q.filter = Checked(r.where, table)
    BY <1>1, <1>4
  <2>2. /\ ParseErrors(r.where) = {}
        /\ \A g \in LeafNodes(r.where) : LeafErrors(g, table) = {}
    BY <1>2, <2>1 DEF FilterErrors
  <2>3. \A g \in LeafNodes(r.where) : KnownOps(g)
    BY <2>2 DEF ParseErrors
  <2>4. q.filter.leaf = [g \in LeafNodes(r.where) |-> CheckedLeaf(g, table)]
    BY <2>1 DEF Checked
  <2>5. \A g \in LeafNodes(r.where) :
          LET f == CheckedLeaf(g, table)
          IN LeafRenders(f) \/ (f.is = "cmp" /\ f.cmp.column.at = "fingerprint")
    BY <2>2, <2>3, AcceptedRenders DEF table
  <2> QED BY <1>4, <2>4, <2>5 DEF Renders, Fingerprints
<1>5. ASSUME NEW i \in DOMAIN q.sort
      PROVE  KeyType(q.sort[i].key) # None \/ q.sort[i].key.at = "fingerprint"
  <2>1. i \in DOMAIN r.sort /\ q.sort[i].key = CheckKeys(r, table)[i].key
    BY <1>1, <1>5
  <2>2. CheckKeys(r, table)[i] = CheckSort(r.sort[i].path, table) /\ i \in DOMAIN CheckKeys(r, table)
    BY <1>3, <2>1
  <2>3. Has(CheckSort(r.sort[i].path, table), "key")
    BY <1>2, <2>2
  <2> QED BY <2>1, <2>2, <2>3, AcceptedSortKey DEF table
<1>6. ~(/\ q.filter # None => Renders(q.filter)
        /\ \A i \in DOMAIN q.sort : KeyType(q.sort[i].key) # None
        /\ CursorBinds(q))
  BY DEF Supported, q
<1>7. \A i \in DOMAIN q.sort : q.sort[i] \in ToSet(q.sort)
  BY DEF ToSet
<1> QED BY <1>4, <1>5, <1>6, <1>7 DEF q

FailInv == req \in Requests /\ applied \in Seq(Schemas) /\ OnlyKnownFailures

(* A record request that passes the checks and that SQL cannot run compares
   or sorts by a fingerprint, or carries a key its columns do not bind, for
   any schema, extension schemas and filters of any shape (error.rs says
   QueryUnsupported is rejected before). *)
THEOREM FailuresAreKnown == Spec => []OnlyKnownFailures
<1>1. Init => FailInv
  BY ReadsAssumption DEF Init, FailInv, OnlyKnownFailures
<1>2. FailInv /\ [Next]_vars => FailInv'
  <2> SUFFICES ASSUME FailInv, [Next]_vars PROVE FailInv'
    OBVIOUS
  <2>1. req' = req
    BY DEF Next, Handler, Others, Refuse, Fail, Select, ReadHiddenTargets, ReadHiddenEvals,
       Respond, Commit, Tombstone, SetVisibility, WriteRun, SetRunState, Audit, Apply, Restart,
       Elsewhere, walk, vars
  <2>2. CASE UNCHANGED vars
    BY <2>2 DEF vars, world, walk, FailInv, OnlyKnownFailures
  <2>3. CASE Fail
    <3>1. /\ req.target = "records" /\ CompileErrors(req, Table(req, applied), cursor) = {}
          /\ ~Supported(Plan(req, cursor, applied))
      BY <2>3 DEF Fail, Accepted, Renderable, Queried
    <3>2. UNCHANGED <<req, cursor, applied>>
      BY <2>3 DEF Fail, Stop, world
    <3> QED BY <3>1, <3>2, AcceptedRuns DEF FailInv, OnlyKnownFailures
  <2>4. CASE Refuse \/ Select \/ ReadHiddenTargets \/ ReadHiddenEvals \/ Respond
    <3>1. phase' # "failed" /\ applied' = applied
      BY <2>4 DEF Refuse, Stop, Select, Deliver, ReadHiddenTargets, ReadHiddenEvals, Respond, world
    <3> QED BY <2>1, <3>1 DEF FailInv, OnlyKnownFailures
  <2>5. CASE Others
    <3>1. phase' = phase /\ phase # "failed"
      BY <2>5, OthersElsewhere DEF Turn, Over, Elsewhere, walk
    <3>2. applied' = applied \/ \E e \in Schemas : applied' = Append(applied, e)
      BY <2>5 DEF Others, Commit, Tombstone, SetVisibility, WriteRun, SetRunState, Audit, Apply,
         Restart
    <3>3. applied' \in Seq(Schemas)
      BY <3>2 DEF FailInv
    <3> QED BY <2>1, <3>1, <3>3 DEF FailInv, OnlyKnownFailures
  <2> QED BY <2>2, <2>3, <2>4, <2>5 DEF Next, Handler
<1> QED BY <1>1, <1>2, PTL DEF Spec, FailInv

(* Two snapshots a reader cannot tell apart: the same stored versions, live
   and dead, among those the reader sees, carrying the same but for the edges
   to what the reader does not see; the same runs, but for what a run carries
   that is not shown to the reader. *)
SeenOf(a, versions, c) == {v \in versions : SeesVersion(a, v, c)}
ShownEdges(a, v, c) == {e \in a.content[v].edges : EdgeVisible(a, e, c)}
SameButEdges(x, y) ==
  /\ x.rec = y.rec /\ x.seq = y.seq /\ x.created = y.created /\ x.body = y.body
  /\ x.results = y.results /\ x.files = y.files /\ x.fingerprints = y.fingerprints
  /\ x.judgements = y.judgements /\ x.used = y.used
AlikeVersions(a, b, c) ==
  /\ a.public = b.public
  /\ a.live \subseteq DOMAIN Content /\ b.live \subseteq DOMAIN Content
  /\ a.dead \subseteq DOMAIN Content /\ b.dead \subseteq DOMAIN Content
  /\ \A v \in DOMAIN Content : SameButEdges(a.content[v], b.content[v])
  /\ \A v \in DOMAIN Content : a.content[v].rec = Content[v].rec /\ a.content[v].seq = Content[v].seq
  /\ SeenOf(a, a.live, c) = SeenOf(b, b.live, c)
  /\ SeenOf(a, a.dead, c) = SeenOf(b, b.dead, c)
  /\ \A v \in SeenOf(a, a.live \cup a.dead, c) : ShownEdges(a, v, c) = ShownEdges(b, v, c)
AlikeRuns(a, b, c) ==
  /\ DOMAIN a.runs = DOMAIN b.runs
  /\ \A r \in DOMAIN a.runs :
       /\ a.runs[r].state = b.runs[r].state /\ a.runs[r].hash = b.runs[r].hash
       /\ Shown(a.runs[r], NsOf[TheEval] \in c) => a.runs[r].is = b.runs[r].is
Alike(a, b, c) == AlikeVersions(a, b, c) /\ AlikeRuns(a, b, c)

-----------------------------------------------------------------------------
(* Who sees what *)

(* Who sees which record and version. *)
LEMMA SameSight ==
  ASSUME NEW a, NEW b, NEW c, AlikeVersions(a, b, c)
  PROVE  /\ \A x : VisibleTo(a, x, c) <=> VisibleTo(b, x, c)
         /\ \A v \in DOMAIN Content : SeesVersion(a, v, c) <=> SeesVersion(b, v, c)
  BY DEF AlikeVersions, SameButEdges, VisibleTo, SeesVersion

(* The live versions of a record the reader sees, and which is the latest. *)
LEMMA SameLatest ==
  ASSUME NEW a, NEW b, NEW c, AlikeVersions(a, b, c), NEW x, VisibleTo(a, x, c)
  PROVE  /\ LiveVersions(a, x) = LiveVersions(b, x)
         /\ \A v \in LiveVersions(a, x) : Latest(a, v) <=> Latest(b, v)
         /\ LatestOf(a, x) = LatestOf(b, x)
<1>1. LiveVersions(a, x) = LiveVersions(b, x)
  BY SameSight DEF LiveVersions, AlikeVersions, SameButEdges, SeenOf, SeesVersion
<1>2. ASSUME NEW v \in LiveVersions(a, x) PROVE Latest(a, v) <=> Latest(b, v)
  <2>1. v \in DOMAIN Content /\ a.content[v].rec = x /\ b.content[v].rec = x
    BY <1>1 DEF LiveVersions, AlikeVersions, SameButEdges
  <2>2. /\ Latest(a, v) <=> \A w \in LiveVersions(a, x) : a.content[w].seq <= a.content[v].seq
        /\ Latest(b, v) <=> \A w \in LiveVersions(b, x) : b.content[w].seq <= b.content[v].seq
    BY <2>1 DEF Latest, LiveVersions
  <2>3. \A w \in LiveVersions(a, x) : a.content[w].seq = b.content[w].seq
    BY DEF LiveVersions, AlikeVersions, SameButEdges
  <2> QED BY <1>1, <2>2, <2>3
<1> DEFINE newest(d) == {v \in LiveVersions(d, x) : Latest(d, v)}
<1>3. newest(a) = newest(b)
  BY <1>1, <1>2
<1>4. \A d : LatestOf(d, x) = IF LiveVersions(d, x) = {} THEN None ELSE CHOOSE v \in newest(d) : TRUE
  BY DEF LatestOf
<1> HIDE DEF newest
<1>5. LatestOf(a, x) = LatestOf(b, x)
  BY <1>1, <1>3, <1>4
<1> QED BY <1>1, <1>2, <1>5

-----------------------------------------------------------------------------
(* The record query *)

(* The rows an any-filter looks through. *)
LEMMA SameRows ==
  ASSUME NEW a, NEW b, NEW c, AlikeVersions(a, b, c),
         NEW v \in SeenOf(a, a.live, c), NEW table
  PROVE  Rows(a, v, table, c) = Rows(b, v, table, c)
<1>1. v \in DOMAIN Content /\ ShownEdges(a, v, c) = ShownEdges(b, v, c)
  BY DEF AlikeVersions, SeenOf
<1>2. /\ a.content[v].results = b.content[v].results /\ a.content[v].files = b.content[v].files
  BY <1>1 DEF AlikeVersions, SameButEdges
<1> QED BY <1>1, <1>2 DEF Rows, ShownEdges

(* What a filter says of a version the reader sees. *)
LEMMA SameVerdict ==
  ASSUME NEW a, NEW b, NEW c, AlikeVersions(a, b, c), NEW v \in SeenOf(a, a.live, c), NEW f
  PROVE  FilterTruth(a, v, f, c) = FilterTruth(b, v, f, c)
<1>1. SameButEdges(a.content[v], b.content[v])
  BY DEF AlikeVersions, SeenOf
<1>2. ASSUME NEW col PROVE Expression(a, v, col) = Expression(b, v, col)
  BY <1>1 DEF Expression, SameButEdges
<1>3. ASSUME NEW l PROVE LeafTruth(a, v, l, c) = LeafTruth(b, v, l, c)
  <2>1. ExistsTruth(a, v, l.column) = ExistsTruth(b, v, l.column)
    BY <1>1, <1>2 DEF ExistsTruth, SameButEdges
  <2>2. CmpTruth(a, v, l.cmp) = CmpTruth(b, v, l.cmp)
    BY <1>1, <1>2 DEF CmpTruth, SameButEdges
  <2>3. Rows(a, v, l.table, c) = Rows(b, v, l.table, c)
    BY SameRows
  <2> QED BY <2>1, <2>2, <2>3 DEF LeafTruth
<1>4. [g \in DOMAIN f.leaf |-> LeafTruth(a, v, f.leaf[g], c)]
        = [g \in DOMAIN f.leaf |-> LeafTruth(b, v, f.leaf[g], c)]
  BY <1>3
<1> QED BY <1>4 DEF FilterTruth

(* The versions that match, all of them seen. *)
LEMMA SameMatches ==
  ASSUME NEW a, NEW b, NEW c, AlikeVersions(a, b, c), NEW q, NEW kind
  PROVE  /\ Matches(a, q, kind, c) = Matches(b, q, kind, c)
         /\ Matches(a, q, kind, c) \subseteq SeenOf(a, a.live, c)
<1>1. ASSUME NEW v \in SeenOf(a, a.live, c)
      PROVE  v \in Matches(a, q, kind, c) <=> v \in Matches(b, q, kind, c)
  <2>1. /\ v \in DOMAIN Content /\ v \in a.live /\ v \in b.live
        /\ SeesVersion(a, v, c) /\ SeesVersion(b, v, c)
        /\ a.content[v].rec = b.content[v].rec
    BY DEF AlikeVersions, SeenOf, SameButEdges
  <2>2. Latest(a, v) <=> Latest(b, v)
    BY <2>1, SameLatest DEF LiveVersions, SeesVersion
  <2>3. FilterTruth(a, v, q.filter, c) = FilterTruth(b, v, q.filter, c)
    BY SameVerdict
  <2> QED BY <2>1, <2>2, <2>3 DEF Matches
<1>2. Matches(a, q, kind, c) \subseteq SeenOf(a, a.live, c)
      /\ Matches(b, q, kind, c) \subseteq SeenOf(b, b.live, c)
  BY DEF Matches, SeenOf
<1> QED BY <1>1, <1>2 DEF AlikeVersions

(* The sort keys of a version. *)
LEMMA SameKeys ==
  ASSUME NEW a, NEW b, NEW c, AlikeVersions(a, b, c), NEW v \in DOMAIN Content, NEW sort
  PROVE  Keys(a, v, sort) = Keys(b, v, sort)
<1>1. SameButEdges(a.content[v], b.content[v])
  BY DEF AlikeVersions
<1>2. ASSUME NEW s PROVE KeyValue(a, v, s) = KeyValue(b, v, s)
  BY <1>1 DEF KeyValue, BestValue, Expression, SameButEdges
<1> QED BY <1>2 DEF Keys

(* A page of the record query. *)
LEMMA SamePage ==
  ASSUME NEW a, NEW b, NEW c, AlikeVersions(a, b, c), NEW q, NEW kind
  PROVE  Run(a, q, kind, c) = Run(b, q, kind, c)
<1> DEFINE found(d) == {v \in Matches(d, q, kind, c) : q.cursor # None => After(d, v, q)}
           less(d, rows) == {p \in rows \X rows : Before(d, p[1], p[2], q.sort)}
<1>1. Matches(a, q, kind, c) = Matches(b, q, kind, c)
      /\ Matches(a, q, kind, c) \subseteq DOMAIN Content
  BY SameMatches DEF AlikeVersions, SeenOf
<1>2. ASSUME NEW v \in DOMAIN Content PROVE After(a, v, q) <=> After(b, v, q)
  <2>1. Keys(a, v, q.sort) = Keys(b, v, q.sort)
    BY SameKeys
  <2> QED BY <2>1 DEF After
<1>3. ASSUME NEW v \in DOMAIN Content, NEW w \in DOMAIN Content
      PROVE  Before(a, v, w, q.sort) <=> Before(b, v, w, q.sort)
  <2>1. /\ Keys(a, v, q.sort) = Keys(b, v, q.sort) /\ Keys(a, w, q.sort) = Keys(b, w, q.sort)
        /\ a.content[v].created = b.content[v].created /\ a.content[w].created = b.content[w].created
    BY SameKeys DEF AlikeVersions, SameButEdges
  <2> QED BY <2>1 DEF Before
<1>4. found(a) = found(b) /\ found(a) \subseteq DOMAIN Content
  BY <1>1, <1>2
<1>5. less(a, found(a)) = less(b, found(b))
  <2> HIDE DEF found
  <2> QED BY <1>3, <1>4
<1>6. \A d : Run(d, q, kind, c) = PageOf(Ranked(found(d), less(d, found(d))), q.limit)
  BY DEF Run
<1> HIDE DEF found, less
<1> QED BY <1>4, <1>5, <1>6

-----------------------------------------------------------------------------
(* The run projection, of Cards the reader sees *)

CardsSeen(a, r, c) ==
  \A x \in r.cards : VisibleTo(a, CardRecord[x], c) /\ LatestOf(a, CardRecord[x]) \in DOMAIN Content

(* The versions the Cards of a request are joined by. *)
LEMMA SameScope ==
  ASSUME NEW a, NEW b, NEW c, AlikeVersions(a, b, c), NEW r, CardsSeen(a, r, c)
  PROVE  Scope(a, r, c) = Scope(b, r, c)
<1>1. \A x \in r.cards : LatestOf(a, CardRecord[x]) = LatestOf(b, CardRecord[x])
  BY SameLatest DEF CardsSeen
<1> QED BY <1>1 DEF Scope

(* A judgement is read only of a Card the request names. *)
NamesCard(column, cards) ==
  IsResult(column) => column.path[2] \in cards /\ FieldOf(column) \in {"value", "label"}
LeafNamesCard(f, cards) ==
  \/ f.is = "exists" /\ NamesCard(f.column, cards)
  \/ f.is = "cmp" /\ NamesCard(f.cmp.column, cards)
NamesCards(q, cards) ==
  /\ q.filter # None => \A g \in DOMAIN q.filter.leaf : LeafNamesCard(q.filter.leaf[g], cards)
  /\ \A i \in DOMAIN q.sort : NamesCard(q.sort[i].key, cards)

(* What is read of one run: whether it is a row, filters, keys, cells. *)
LEMMA SameRun ==
  ASSUME NEW a, NEW b, NEW c, Alike(a, b, c), NEW r, CardsSeen(a, r, c),
         NEW x \in DOMAIN a.runs, NEW scope, scope = Scope(a, r, c)
  PROVE  /\ InProjection(a, x, scope) <=> InProjection(b, x, scope)
         /\ \A f : LeafNamesCard(f, r.cards) =>
              RunLeafTruth(a, x, f, scope) = RunLeafTruth(b, x, f, scope)
         /\ \A s : NamesCard(s.key, r.cards) => RunKey(a, x, s, scope) = RunKey(b, x, s, scope)
         /\ RowOf(a, x, scope) = RowOf(b, x, scope)
<1>1. /\ a.runs[x].state = b.runs[x].state /\ a.runs[x].hash = b.runs[x].hash
      /\ Shown(a.runs[x], scope.member) => a.runs[x].is = b.runs[x].is
      /\ Shown(a.runs[x], scope.member) <=> Shown(b.runs[x], scope.member)
  BY DEF Alike, AlikeRuns, Scope, Shown
<1>2. ASSUME NEW d \in r.cards
      PROVE  /\ d \in DOMAIN scope.version /\ scope.version[d] \in DOMAIN Content
             /\ a.content[scope.version[d]].judgements = b.content[scope.version[d]].judgements
             /\ a.content[scope.version[d]].used = b.content[scope.version[d]].used
  BY DEF Scope, CardsSeen, Alike, AlikeVersions, SameButEdges
<1>3. DOMAIN scope.version = r.cards
  BY DEF Scope
<1>4. InProjection(a, x, scope) <=> InProjection(b, x, scope)
  BY <1>1, <1>2, <1>3 DEF InProjection
<1>5. ASSUME NEW col, NamesCard(col, r.cards), IsResult(col)
      PROVE  Judgements(a, x, col, scope) = Judgements(b, x, col, scope)
  BY <1>2, <1>5 DEF Judgements, NamesCard
<1>6. ASSUME NEW col PROVE RunValue(a, x, col, scope) = RunValue(b, x, col, scope)
  BY <1>1 DEF RunValue, Unmasked
<1>7. ASSUME NEW f, LeafNamesCard(f, r.cards)
      PROVE  RunLeafTruth(a, x, f, scope) = RunLeafTruth(b, x, f, scope)
  <2>1. CASE f.is = "exists" /\ NamesCard(f.column, r.cards)
    BY <1>1, <1>5, <1>6, <2>1 DEF RunLeafTruth, RunExistsTruth
  <2>2. CASE f.is = "cmp" /\ NamesCard(f.cmp.column, r.cards)
    BY <1>1, <1>5, <1>6, <2>2 DEF RunLeafTruth, RunCmpTruth
  <2> QED BY <1>7, <2>1, <2>2 DEF LeafNamesCard
<1>8. ASSUME NEW s, NamesCard(s.key, r.cards)
      PROVE  RunKey(a, x, s, scope) = RunKey(b, x, s, scope)
  <2>1. CASE IsResult(s.key)
    <3>1. Judgements(a, x, s.key, scope) = Judgements(b, x, s.key, scope)
      BY <1>5, <1>8, <2>1
    <3> DEFINE values(d) == {j[FieldOf(s.key)] : j \in Judgements(d, x, s.key, scope)} \ {Null}
               best(found) == IF found = {} THEN Null
                              ELSE CHOOSE m \in found : \A y \in found :
                                     IF s.dir = "asc" THEN ~Less(y.v, m.v) ELSE ~Less(m.v, y.v)
    <3>2. values(a) = values(b)
      BY <3>1
    <3>3. \A d : BestJudgement(d, x, s.key, scope, s.dir) = best(values(d))
      BY DEF BestJudgement
    <3> HIDE DEF values, best
    <3>4. BestJudgement(a, x, s.key, scope, s.dir) = BestJudgement(b, x, s.key, scope, s.dir)
      BY <3>2, <3>3
    <3> QED BY <2>1, <3>4 DEF RunKey
  <2>2. CASE ~IsResult(s.key)
    BY <1>6, <2>2 DEF RunKey
  <2> QED BY <2>1, <2>2
<1>9. RowOf(a, x, scope) = RowOf(b, x, scope)
  <2>1. Detail(a, x, scope) = Detail(b, x, scope)
    BY <1>1 DEF Detail
  <2>2. ASSUME NEW d \in r.cards PROVE Cell(a, x, scope.version[d]) = Cell(b, x, scope.version[d])
    <3>1. Changed(a, scope.version[d]) \cap {x} = Changed(b, scope.version[d]) \cap {x}
      BY <1>1, <1>2 DEF Changed
    <3>2. x \in Changed(a, scope.version[d]) <=> x \in Changed(b, scope.version[d])
      BY <3>1
    <3> QED BY <1>2, <3>2 DEF Cell
  <2> QED BY <1>3, <2>1, <2>2 DEF RowOf
<1> QED BY <1>4, <1>7, <1>8, <1>9

(* A page of the projection. *)
LEMMA SameRunPage ==
  ASSUME NEW a, NEW b, NEW c, Alike(a, b, c), NEW r, CardsSeen(a, r, c),
         NEW scope, scope = Scope(a, r, c), NEW q, NamesCards(q, r.cards)
  PROVE  /\ RunMatches(a, q, scope) = RunMatches(b, q, scope)
         /\ RunMatches(a, q, scope) \subseteq DOMAIN a.runs
         /\ \A x \in DOMAIN a.runs : RunKeys(a, x, q.sort, scope) = RunKeys(b, x, q.sort, scope)
         /\ ProjectPage(a, q, scope) = ProjectPage(b, q, scope)
<1> DEFINE found(d) == {x \in RunMatches(d, q, scope) : q.cursor # None => RunAfter(d, x, q, scope)}
           less(d, rows) == {p \in rows \X rows : RunBefore(d, p[1], p[2], q.sort, scope)}
<1>1. DOMAIN a.runs = DOMAIN b.runs
  BY DEF Alike, AlikeRuns
<1>2. ASSUME NEW x \in DOMAIN a.runs, q.filter # None
      PROVE  RunFilterTruth(a, x, q.filter, scope) = RunFilterTruth(b, x, q.filter, scope)
  <2>1. \A g \in DOMAIN q.filter.leaf :
          RunLeafTruth(a, x, q.filter.leaf[g], scope) = RunLeafTruth(b, x, q.filter.leaf[g], scope)
    BY <1>2, SameRun DEF NamesCards
  <2>2. [g \in DOMAIN q.filter.leaf |-> RunLeafTruth(a, x, q.filter.leaf[g], scope)]
          = [g \in DOMAIN q.filter.leaf |-> RunLeafTruth(b, x, q.filter.leaf[g], scope)]
    BY <2>1
  <2> QED BY <2>2 DEF RunFilterTruth
<1>3. RunMatches(a, q, scope) = RunMatches(b, q, scope)
      /\ RunMatches(a, q, scope) \subseteq DOMAIN a.runs
  BY <1>1, <1>2, SameRun DEF RunMatches
<1>4. ASSUME NEW x \in DOMAIN a.runs
      PROVE  RunKeys(a, x, q.sort, scope) = RunKeys(b, x, q.sort, scope)
  <2>1. \A i \in DOMAIN q.sort : RunKey(a, x, q.sort[i], scope) = RunKey(b, x, q.sort[i], scope)
    BY SameRun DEF NamesCards
  <2> QED BY <2>1 DEF RunKeys
<1>5. ASSUME NEW x \in DOMAIN a.runs
      PROVE  RunAfter(a, x, q, scope) <=> RunAfter(b, x, q, scope)
  BY <1>4 DEF RunAfter
<1>6. ASSUME NEW x \in DOMAIN a.runs, NEW y \in DOMAIN a.runs
      PROVE  RunBefore(a, x, y, q.sort, scope) <=> RunBefore(b, x, y, q.sort, scope)
  BY <1>4 DEF RunBefore
<1>7. found(a) = found(b) /\ found(a) \subseteq DOMAIN a.runs
  BY <1>3, <1>5
<1>8. less(a, found(a)) = less(b, found(b))
  <2> HIDE DEF found
  <2> QED BY <1>6, <1>7
<1>9. \A d : ProjectPage(d, q, scope) = PageOf(Ranked(found(d), less(d, found(d))), q.limit)
  BY DEF ProjectPage
<1> HIDE DEF found, less
<1>10. ProjectPage(a, q, scope) = ProjectPage(b, q, scope)
  BY <1>7, <1>8, <1>9
<1> QED BY <1>3, <1>4, <1>10

-----------------------------------------------------------------------------
(* The list of records *)

(* A page of the list of records. *)
LEMMA SameList ==
  ASSUME NEW a, NEW b, NEW r, AlikeVersions(a, b, r.caller)
  PROVE  ListMatches(a, r) = ListMatches(b, r) /\ \A c : ListPage(a, r, c) = ListPage(b, r, c)
<1>1. \A x : VisibleTo(a, x, r.caller) =>
        LiveVersions(a, x) = LiveVersions(b, x) /\ LatestOf(a, x) = LatestOf(b, x)
  BY SameLatest
<1>2. ListMatches(a, r) = ListMatches(b, r)
  BY <1>1, SameSight DEF ListMatches
<1> QED BY <1>2 DEF ListPage

(* A finite set of numbers has a greatest. *)
LEMMA FiniteMax ==
  ASSUME NEW S \in SUBSET Int, IsFiniteSet(S), S # {}
  PROVE  \E x \in S : \A y \in S : y <= x
<1> DEFINE ends(T) == \E x \in T : \A y \in T : y <= x
           bad == {T \in FiniteSubsetsOf(S) : T # {} /\ ~ends(T)}
<1>1. SUFFICES ASSUME bad # {} PROVE FALSE
  <2>1. S \in FiniteSubsetsOf(S)
    BY DEF FiniteSubsetsOf
  <2> QED BY <1>1, <2>1
<1>2. PICK T \in bad : \A U \in bad : ~(<<U, T>> \in StrictSubsetOrdering(S))
  <2>1. bad \subseteq FiniteSubsetsOf(S)
    OBVIOUS
  <2> QED BY <1>1, <2>1, FS_StrictSubsetOrderingWellFounded, WFMin
<1>3. PICK t \in T : TRUE
  OBVIOUS
<1>4. T \ {t} \in FiniteSubsetsOf(S)
  BY FS_Subset DEF FiniteSubsetsOf
<1>5. <<T \ {t}, T>> \in StrictSubsetOrdering(S)
  BY <1>3 DEF StrictSubsetOrdering, FiniteSubsetsOf
<1>6. T \ {t} \notin bad
  BY <1>2, <1>5
<1>7. CASE T \ {t} = {}
  BY <1>3, <1>7 DEF FiniteSubsetsOf
<1>8. CASE ends(T \ {t})
  <2>1. PICK x \in T \ {t} : \A y \in T \ {t} : y <= x
    BY <1>8
  <2>2. x \in Int /\ t \in Int
    BY <1>3, <2>1 DEF FiniteSubsetsOf
  <2>3. \A y \in T : y <= IF t <= x THEN x ELSE t
    BY <2>1, <2>2 DEF FiniteSubsetsOf
  <2> QED BY <1>3, <2>1, <2>3
<1> QED BY <1>4, <1>6, <1>7, <1>8

(* The latest live version of a record is one of them. *)
LEMMA LatestIsLive ==
  ASSUME NEW a, a.live \subseteq DOMAIN Content,
         \A v \in DOMAIN Content : a.content[v].seq = Content[v].seq,
         NEW x, LiveVersions(a, x) # {}
  PROVE  LatestOf(a, x) \in LiveVersions(a, x) /\ Latest(a, LatestOf(a, x))
<1> DEFINE mine == LiveVersions(a, x)
           seqs == {Content[v].seq : v \in mine}
           newest == {v \in mine : Latest(a, v)}
<1>1. mine \subseteq DOMAIN Content /\ IsFiniteSet(mine)
  BY StoreAssumption, FS_Subset DEF LiveVersions
<1>2. seqs \in SUBSET Int /\ seqs # {}
  BY <1>1, StoreAssumption
<1>3. IsFiniteSet(seqs)
  <2>1. [v \in mine |-> Content[v].seq] \in Surjection(mine, seqs)
    BY DEF Surjection
  <2> QED BY <1>1, <2>1, FS_Surjection
<1>4. PICK s \in seqs : \A t \in seqs : t <= s
  BY <1>2, <1>3, FiniteMax
<1>5. PICK v \in mine : s = Content[v].seq
  BY <1>4
<1>6. Latest(a, v)
  <2>1. ASSUME NEW w \in a.live, a.content[w].rec = a.content[v].rec
        PROVE  a.content[w].seq <= a.content[v].seq
    BY <1>1, <1>4, <1>5, <2>1 DEF LiveVersions
  <2> QED BY <2>1 DEF Latest
<1>7. LatestOf(a, x) = CHOOSE w \in newest : TRUE
  BY DEF LatestOf
<1>8. newest # {} /\ newest \subseteq mine /\ \A w \in newest : Latest(a, w)
  BY <1>5, <1>6
<1> HIDE DEF newest
<1> QED BY <1>7, <1>8

(* The path table of the run projection offers a judgement only of a Card it
   was built for. *)
LEMMA RunLookup ==
  ASSUME NEW r, r.target = "runs", NEW entries, NEW path,
         Lookup(Table(r, entries), path) # None
  PROVE  NamesCard(Lookup(Table(r, entries), path).column, r.cards)
<1> DEFINE paths == WithExt(ForRuns, entries)
           info == Lookup(Table(r, entries), path)
<1> SUFFICES NamesCard(info.column, r.cards)
  OBVIOUS
<1>1. Table(r, entries) = [paths |-> paths, runs |-> TRUE, cards |-> r.cards]
  BY DEF Table
<1>2. ASSUME NEW p \in DOMAIN ForRuns PROVE ForRuns[p].column.at = "run"
  <2> DEFINE plain == {RunScalar(<<c>>, "string") : c \in {"run_id", "status", "started_at", "ended_at"}}
             kind == {<<<<"error", "kind">>, Scalar(RunColumn(<<"error_kind">>), "string", "Full")>>}
             leaves == {RunScalar(l[1], l[2]) : l \in LeavesOf("eval", Facets["eval"])}
             facets == {RunScalar(<<"fingerprint", f>>, "string") : f \in Facets["eval"]}
             all == plain \cup kind \cup leaves \cup facets
  <2>1. ForRuns = Listed(all)
    BY DEF ForRuns
  <2>2. \A e \in all : e[2].column.at = "run"
    BY DEF RunScalar, Scalar, RunColumn, Column
  <2> HIDE DEF all
  <2> QED BY <1>2, <2>1, <2>2, TableEntry
<1>3. ASSUME NEW p \in DOMAIN paths PROVE paths[p].column.at \in {"run", "ext"}
  <2>1. p \in DOMAIN ForRuns \/ \E ty : paths[p] = Scalar(ExtColumn(p, ty), ty, "Full")
    BY <1>3 DEF WithExt
  <2>2. CASE \E ty : paths[p] = Scalar(ExtColumn(p, ty), ty, "Full")
    <3> HIDE DEF paths
    <3> QED BY <2>2 DEF Scalar, ExtColumn
  <2>3. CASE p \in DOMAIN ForRuns /\ ~\E ty : paths[p] = Scalar(ExtColumn(p, ty), ty, "Full")
    <3>1. paths[p] = ForRuns[p]
      BY <1>3, <2>3 DEF WithExt
    <3> QED BY <1>2, <2>3, <3>1
  <2> QED BY <2>1, <2>2, <2>3
<1> HIDE DEF paths
<1>4. CASE path \in DOMAIN paths
  <2>1. info = paths[path]
    BY <1>1, <1>4 DEF Lookup
  <2> HIDE DEF info
  <2> QED BY <1>3, <1>4, <2>1 DEF NamesCard, IsResult
<1>5. CASE path \notin DOMAIN paths /\ RunParam(path, r.cards) # None
  <2>1. info = RunParam(path, r.cards)
    BY <1>1, <1>5 DEF Lookup
  <2> HIDE DEF info
  <2> QED BY <1>5, <2>1 DEF RunParam, NamesCard, IsResult, FieldOf, Scalar, RunColumn, ResultColumn, Column
<1>6. CASE path \notin DOMAIN paths /\ RunParam(path, r.cards) = None
  <2>1. info = Scalar(Column("body", path), "string", "EqExistsUntyped")
    BY <1>1, <1>6 DEF Lookup
  <2> HIDE DEF info
  <2> QED BY <2>1 DEF NamesCard, IsResult, Scalar, Column
<1> QED BY <1>4, <1>5, <1>6

(* The judgements an accepted request reads are of its Cards. *)
LEMMA AcceptedNamesCards ==
  ASSUME NEW r, r.target = "runs", NEW c, NEW entries,
         CompileErrors(r, Table(r, entries), c) = {}, RunSupported(Plan(r, c, entries))
  PROVE  NamesCards(Plan(r, c, entries), r.cards)
<1> DEFINE table == Table(r, entries)
           q == Plan(r, c, entries)
<1>1. /\ q.filter = IF r.where = None THEN None ELSE Checked(r.where, table)
      /\ q.sort = [i \in DOMAIN r.sort |->
                     [key |-> CheckKeys(r, table)[i].key, dir |-> r.sort[i].dir]]
  BY DEF Plan, Compile
<1>2. /\ FilterErrors(r.where, table) = {}
      /\ \A i \in DOMAIN CheckKeys(r, table) : Has(CheckKeys(r, table)[i], "key")
  BY DEF CompileErrors, KeyErrors
<1>3. CheckKeys(r, table) = [i \in DOMAIN r.sort |-> CheckRunSort(r.sort[i].path, table)]
  BY DEF CheckKeys, Table
<1>4. q.filter # None => RunRenders(q.filter)
  BY DEF RunSupported
<1> HIDE DEF q, table
<1>5. ASSUME q.filter # None, NEW g \in DOMAIN q.filter.leaf
      PROVE  LeafNamesCard(q.filter.leaf[g], r.cards)
  <2>1. r.where # None /\ q.filter = Checked(r.where, table)
    BY <1>1, <1>5
  <2>2. g \in LeafNodes(r.where) /\ q.filter.leaf[g] = CheckedLeaf(g, table)
    BY <1>5, <2>1 DEF Checked
  <2>3. LeafErrors(g, table) = {}
    BY <1>2, <2>1, <2>2 DEF FilterErrors
  <2>4. RunLeafRenders(q.filter.leaf[g])
    BY <1>4, <1>5 DEF RunRenders
  <2> DEFINE info == Lookup(table, g.path)
  <2>5. info # None
    BY <2>3 DEF LeafErrors
  <2>6. NamesCard(info.column, r.cards)
    BY <2>5, RunLookup DEF table
  <2>7. CASE g.op = "exists"
    <3>1. info.is = "scalar" /\ q.filter.leaf[g] = [is |-> "exists", column |-> info.column]
      BY <2>2, <2>3, <2>5, <2>7 DEF LeafErrors, CheckedLeaf
    <3> HIDE DEF info
    <3> QED BY <2>6, <3>1 DEF LeafNamesCard
  <2>8. CASE g.op = "any"
    <3>1. q.filter.leaf[g].is = "any"
      BY <2>2, <2>8 DEF CheckedLeaf
    <3> QED BY <2>4, <3>1 DEF RunLeafRenders
  <2>9. CASE g.op \notin {"exists", "any"}
    <3>1. info.is = "scalar"
          /\ q.filter.leaf[g] = [is |-> "cmp", cmp |-> Cmp(info.column, g.op, g.value)]
      BY <2>2, <2>3, <2>5, <2>9 DEF LeafErrors, CheckedLeaf
    <3>2. q.filter.leaf[g].is = "cmp" /\ q.filter.leaf[g].cmp.column = info.column
      BY <3>1 DEF Cmp
    <3> HIDE DEF info
    <3> QED BY <2>6, <3>1, <3>2 DEF LeafNamesCard
  <2> QED BY <2>7, <2>8, <2>9
<1>6. ASSUME NEW i \in DOMAIN q.sort PROVE NamesCard(q.sort[i].key, r.cards)
  <2>1. i \in DOMAIN r.sort /\ q.sort[i].key = CheckKeys(r, table)[i].key
    BY <1>1, <1>6
  <2> DEFINE path == r.sort[i].path
             info == Lookup(table, path)
  <2>2. CheckKeys(r, table)[i] = CheckRunSort(path, table) /\ Has(CheckRunSort(path, table), "key")
    BY <1>2, <1>3, <2>1
  <2>3. info # None /\ info.is # "array" /\ CheckRunSort(path, table).key = info.column
    <3>1. \/ \E code : CheckRunSort(path, table) = [code |-> code]
          \/ info # None /\ info.is # "array" /\ CheckRunSort(path, table) = [key |-> info.column]
      BY DEF CheckRunSort
    <3> HIDE DEF info, path
    <3> QED BY <2>2, <3>1 DEF Has
  <2>4. NamesCard(info.column, r.cards)
    BY <2>3, RunLookup DEF table
  <2> HIDE DEF info, path
  <2> QED BY <2>1, <2>2, <2>3, <2>4
<1> QED BY <1>5, <1>6 DEF NamesCards, q

(* A request accepted with a cursor is accepted without it. *)
LEMMA AcceptedFirst ==
  ASSUME NEW d, NEW r, NEW c, NEW entries, Accepted(d, r, c, entries), Renderable(r, c, entries)
  PROVE  /\ Accepted(d, r, None, entries) /\ Renderable(r, None, entries)
         /\ Plan(r, None, entries).filter = Plan(r, c, entries).filter
         /\ Plan(r, None, entries).sort = Plan(r, c, entries).sort
<1> DEFINE q == Plan(r, c, entries)
           first == Plan(r, None, entries)
<1>1. first.filter = q.filter /\ first.sort = q.sort /\ first.cursor = None
  BY DEF Plan, Compile
<1>2. Queried(r) => CompileErrors(r, Table(r, entries), None) = {}
  BY DEF Accepted, CompileErrors, KeyErrors
<1> HIDE DEF first, q
<1>3. UnknownMetrics(first) = UnknownMetrics(q)
  BY <1>1 DEF UnknownMetrics
<1>4. RunSupported(q) => RunSupported(first)
  BY <1>1 DEF RunSupported, RunCursorBinds
<1>5. Supported(q) => Supported(first)
  BY <1>1 DEF Supported, CursorBinds
<1>6. Accepted(d, r, None, entries)
  BY <1>2, <1>3, <1>4 DEF Accepted, first, q
<1>7. Renderable(r, None, entries)
  BY <1>5 DEF Renderable, first, q
<1> QED BY <1>1, <1>6, <1>7 DEF first, q

(* The Cards of an accepted request are seen and have a live version. *)
LEMMA AcceptedCardsSeen ==
  ASSUME NEW a, a.live \subseteq DOMAIN Content,
         \A v \in DOMAIN Content : a.content[v].seq = Content[v].seq,
         NEW r, r.target = "runs", NEW c, NEW entries, Accepted(a, r, c, entries)
  PROVE  CardsSeen(a, r, r.caller)
<1>1. ASSUME NEW x \in r.cards
      PROVE  VisibleTo(a, CardRecord[x], r.caller) /\ LatestOf(a, CardRecord[x]) # None
  BY DEF Accepted, KnownEval, Joined
<1>2. ASSUME NEW x \in r.cards PROVE LatestOf(a, CardRecord[x]) \in DOMAIN Content
  <2>1. LiveVersions(a, CardRecord[x]) # {}
    BY <1>1 DEF LatestOf
  <2> QED BY <2>1, LatestIsLive DEF LiveVersions
<1> QED BY <1>1, <1>2 DEF CardsSeen

-----------------------------------------------------------------------------
(* The database without what the reader may not see *)

StoreInv ==
  /\ req \in Requests
  /\ live \subseteq DOMAIN Content /\ dead \subseteq DOMAIN Content
  /\ \A v \in live \cup dead : \A e \in Content[v].edges :
       e.to # None => e.to \in live \cup dead
  /\ \A r \in DOMAIN runs : DOMAIN runs[r] = {"state", "hash", "is"}

(* The database and the one without what the reader may not see look alike. *)
LEMMA OpenlyAlike == StoreInv => Alike(db, Openly(req), req.caller)
<1> SUFFICES ASSUME StoreInv PROVE Alike(db, Openly(req), req.caller)
  OBVIOUS
<1> DEFINE c == req.caller
           b == Openly(req)
           seenBy == {v \in live \cup dead : SeesVersion(db, v, c)}
           open(v) == [Content[v] EXCEPT !.edges = {e \in @ : e.to = None \/ e.to \in seenBy}]
           clear(x) == IF x.state = "live" \/ (x.state = "archived" /\ NsOf[TheEval] \in c)
                       THEN x ELSE [x EXCEPT !.is = Blank]
<1>1. b = [content |-> [v \in DOMAIN Content |-> IF v \in seenBy THEN open(v) ELSE Content[v]],
           live |-> live \cap seenBy, dead |-> dead \cap seenBy, public |-> public,
           runs |-> [x \in DOMAIN runs |-> clear(runs[x])]]
  BY DEF Openly
<1> HIDE DEF b
<1>2. /\ b.live = live \cap seenBy /\ b.dead = dead \cap seenBy /\ b.public = public
      /\ b.content = [v \in DOMAIN Content |-> IF v \in seenBy THEN open(v) ELSE Content[v]]
      /\ b.runs = [x \in DOMAIN runs |-> clear(runs[x])]
  BY <1>1
<1>3. ASSUME NEW v \in DOMAIN Content PROVE SameButEdges(Content[v], b.content[v])
  <2>1. DOMAIN Content[v] = {"rec", "seq", "created", "body", "results", "edges", "files",
                             "fingerprints", "judgements", "used"}
    BY StoreAssumption
  <2>2. SameButEdges(Content[v], open(v))
    <3> HIDE DEF seenBy
    <3> QED BY <2>1 DEF SameButEdges
  <2> HIDE DEF open, seenBy
  <2>3. SameButEdges(Content[v], Content[v])
    BY DEF SameButEdges
  <2> QED BY <1>2, <2>2, <2>3
<1>4. ASSUME NEW v \in DOMAIN Content PROVE SeesVersion(b, v, c) <=> SeesVersion(db, v, c)
  BY <1>2, <1>3 DEF SeesVersion, VisibleTo, SameButEdges, db
<1>5. /\ db.public = b.public /\ db.live = live /\ db.dead = dead /\ db.content = Content
      /\ live \subseteq DOMAIN Content /\ dead \subseteq DOMAIN Content
      /\ b.live \subseteq DOMAIN Content /\ b.dead \subseteq DOMAIN Content
  BY <1>2 DEF db, StoreInv
<1>6. SeenOf(db, db.live, c) = SeenOf(b, b.live, c)
  BY <1>2, <1>4, <1>5 DEF SeenOf
<1>7. SeenOf(db, db.dead, c) = SeenOf(b, b.dead, c)
  BY <1>2, <1>4, <1>5 DEF SeenOf
<1>8. ASSUME NEW v \in seenBy PROVE ShownEdges(db, v, c) = ShownEdges(b, v, c)
  <2>1. v \in DOMAIN Content /\ b.content[v] = open(v)
    BY <1>2, <1>5
  <2>2. open(v).edges = {e \in Content[v].edges : e.to = None \/ e.to \in seenBy}
    <3> HIDE DEF seenBy
    <3> QED BY <2>1, StoreAssumption
  <2>3. \A e \in Content[v].edges : e.to # None => e.to \in live \cup dead
    BY DEF StoreInv
  <2>4. ASSUME NEW e \in Content[v].edges
        PROVE  EdgeVisible(db, e, c) <=> (e.to = None \/ e.to \in seenBy) /\ EdgeVisible(b, e, c)
    <3>1. CASE e.to = None
      BY <3>1 DEF EdgeVisible
    <3>2. CASE e.to # None
      <4>1. e.to \in live \cup dead /\ e.to \in DOMAIN Content
        BY <2>3, <3>2, <1>5
      <4> QED BY <1>4, <3>2, <4>1 DEF EdgeVisible
    <3> QED BY <3>1, <3>2
  <2> HIDE DEF open, seenBy
  <2> QED BY <1>5, <2>1, <2>2, <2>4 DEF ShownEdges
<1>9. SeenOf(db, db.live \cup db.dead, c) = seenBy
  BY <1>5 DEF SeenOf
<1>10. AlikeVersions(db, b, c)
  <2> HIDE DEF seenBy
  <2> QED BY <1>3, <1>5, <1>6, <1>7, <1>8, <1>9 DEF AlikeVersions
<1>11. AlikeRuns(db, b, c)
  <2>1. ASSUME NEW x \in DOMAIN runs
        PROVE  /\ runs[x].state = clear(runs[x]).state /\ runs[x].hash = clear(runs[x]).hash
               /\ Shown(runs[x], NsOf[TheEval] \in c) => runs[x].is = clear(runs[x]).is
    <3>1. DOMAIN runs[x] = {"state", "hash", "is"}
      BY DEF StoreInv
    <3> QED BY <3>1 DEF Shown
  <2> HIDE DEF clear
  <2> QED BY <1>2, <2>1 DEF AlikeRuns, db
<1> QED BY <1>10, <1>11 DEF Alike, b

(* What an address resolves to, for the reader to see. *)
LEMMA SameResolved ==
  ASSUME NEW a, NEW b, NEW c, AlikeVersions(a, b, c), NEW text
  PROVE  /\ ResolveRef(a, text, c) = ResolveRef(b, text, c)
         /\ ResolveRef(a, text, c) # None =>
              SeesVersion(a, ResolveRef(a, text, c), c) /\ SeesVersion(b, ResolveRef(a, text, c), c)
<1> DEFINE named(d) == {v \in Stored(d) : Address[v] = text /\ SeesVersion(d, v, c)}
           cards(d) == {v \in named(d) : Kind[d.content[v].rec] = "card"}
           from(d) == IF cards(d) # {} THEN cards(d) ELSE named(d)
<1>1. named(a) = named(b)
  BY DEF AlikeVersions, SeenOf, Stored
<1>2. named(a) \subseteq DOMAIN Content
  BY DEF AlikeVersions, Stored
<1>3. cards(a) = cards(b)
  BY <1>1, <1>2 DEF AlikeVersions, SameButEdges
<1>4. from(a) = from(b) /\ from(a) \subseteq named(a) /\ (named(a) # {} => from(a) # {})
  BY <1>1, <1>3
<1>5. \A d : ResolveRef(d, text, c) = IF named(d) = {} THEN None ELSE CHOOSE v \in from(d) : TRUE
  BY DEF ResolveRef
<1>6. \A v \in named(a) : SeesVersion(a, v, c) /\ SeesVersion(b, v, c)
  BY <1>1
<1> HIDE DEF named, from
<1> QED BY <1>1, <1>4, <1>5, <1>6

(* The edges read of a version, those to hidden versions left out. *)
LEMMA SameEdges ==
  ASSUME NEW a, NEW b, NEW r, NEW c, c = r.caller, AlikeVersions(a, b, c),
         NEW v \in SeenOf(a, a.live \cup a.dead, c)
  PROVE  VisibleEdges(a, r, v) = VisibleEdges(b, r, v)
<1> DEFINE end(d, e) == [from |-> VersionEnd(d, v, c), type |-> e.type, to |-> ResolveStored(d, e, c)]
           open(to) == Has(to, "version") => to.visible
<1>1. ASSUME NEW w, SeesVersion(a, w, c), SeesVersion(b, w, c)
      PROVE  VersionEnd(a, w, c) = VersionEnd(b, w, c) /\ open(VersionEnd(a, w, c))
  <2>1. w \in a.dead <=> w \in b.dead
    <3>1. SeenOf(a, a.dead, c) = SeenOf(b, b.dead, c)
      BY DEF AlikeVersions
    <3>2. w \in SeenOf(a, a.dead, c) <=> w \in SeenOf(b, b.dead, c)
      BY <3>1
    <3> QED BY <1>1, <3>2 DEF SeenOf
  <2>2. VersionEnd(a, w, c) = [version |-> w, visible |-> TRUE, dead |-> w \in a.dead]
        /\ VersionEnd(b, w, c) = [version |-> w, visible |-> TRUE, dead |-> w \in b.dead]
    BY <1>1 DEF VersionEnd
  <2>3. (w \in a.dead) = (w \in b.dead)
    BY <2>1
  <2>4. VersionEnd(a, w, c) = VersionEnd(b, w, c)
    BY <2>2, <2>3
  <2> QED BY <2>2, <2>4
<1>2. SeesVersion(a, v, c) /\ SeesVersion(b, v, c)
  BY DEF AlikeVersions, SeenOf
<1>3. VersionEnd(a, v, c) = VersionEnd(b, v, c)
  BY <1>1, <1>2
<1>4. ShownEdges(a, v, c) = ShownEdges(b, v, c)
  BY DEF AlikeVersions
<1>5. ASSUME NEW e \in ShownEdges(a, v, c)
      PROVE  /\ ResolveStored(a, e, c) = ResolveStored(b, e, c)
             /\ open(ResolveStored(a, e, c))
  <2>1. CASE e.to # None
    <3>1. SeesVersion(a, e.to, c) /\ SeesVersion(b, e.to, c)
      BY <1>4, <1>5, <2>1 DEF ShownEdges, EdgeVisible
    <3> HIDE DEF open
    <3> QED BY <1>1, <2>1, <3>1 DEF ResolveStored
  <2>2. CASE e.to = None /\ ResolveRef(a, e.text, c) # None
    <3>1. /\ ResolveRef(a, e.text, c) = ResolveRef(b, e.text, c)
          /\ SeesVersion(a, ResolveRef(a, e.text, c), c)
          /\ SeesVersion(b, ResolveRef(a, e.text, c), c)
      BY <2>2, SameResolved
    <3> HIDE DEF open
    <3> QED BY <1>1, <2>2, <3>1 DEF ResolveStored
  <2>3. CASE e.to = None /\ ResolveRef(a, e.text, c) = None
    <3>1. ResolveRef(b, e.text, c) = None
      BY <2>3, SameResolved
    <3>2. ResolveStored(a, e, c) = TextEnd(e.text) /\ ResolveStored(b, e, c) = TextEnd(e.text)
      BY <2>3, <3>1 DEF ResolveStored
    <3> QED BY <3>2 DEF TextEnd, Has
  <2> QED BY <2>1, <2>2, <2>3
<1>6. ASSUME NEW d \in {a, b}, NEW e \in d.content[v].edges, e \notin ShownEdges(d, v, c)
      PROVE  ~open(ResolveStored(d, e, c))
  <2>1. e.to # None /\ ~SeesVersion(d, e.to, c)
    BY <1>6 DEF ShownEdges, EdgeVisible
  <2>2. ResolveStored(d, e, c) = VersionEnd(d, e.to, c)
    BY <2>1 DEF ResolveStored
  <2> QED BY <2>1, <2>2 DEF VersionEnd, Has
<1>7. ASSUME NEW d \in {a, b}
      PROVE  VisibleEdges(d, r, v)
               = {end(d, e) : e \in {x \in d.content[v].edges : open(ResolveStored(d, x, c))}}
  <2>1. Outgoing(d, v, None, c) = {end(d, e) : e \in d.content[v].edges}
    BY DEF Outgoing, Followed
  <2>2. \A e : end(d, e).to = ResolveStored(d, e, c)
    OBVIOUS
  <2>3. VisibleEdges(d, r, v) = {y \in {end(d, e) : e \in d.content[v].edges} : open(y.to)}
    BY <2>1 DEF VisibleEdges
  <2> HIDE DEF end, open
  <2> QED BY <2>2, <2>3
<1>8. ASSUME NEW d \in {a, b}
      PROVE  {x \in d.content[v].edges : open(ResolveStored(d, x, c))} = ShownEdges(d, v, c)
  <2>1. \A e \in ShownEdges(d, v, c) : open(ResolveStored(d, e, c))
    BY <1>4, <1>5
  <2>2. ShownEdges(d, v, c) \subseteq d.content[v].edges
    BY DEF ShownEdges
  <2> HIDE DEF open
  <2> QED BY <1>6, <2>1, <2>2
<1>9. \A e \in ShownEdges(a, v, c) : end(a, e) = end(b, e)
  BY <1>3, <1>5
<1> HIDE DEF end, open
<1>10. VisibleEdges(a, r, v) = {end(a, e) : e \in ShownEdges(a, v, c)}
       /\ VisibleEdges(b, r, v) = {end(b, e) : e \in ShownEdges(b, v, c)}
  BY <1>7, <1>8
<1> QED BY <1>4, <1>9, <1>10

(* The pages, keys and cells of two databases that look alike. *)
LEMMA SameReads ==
  ASSUME NEW a, NEW b, NEW r, Alike(a, b, r.caller), NEW c, NEW entries, NEW rows,
         r.target \in {"records", "runs", "list", "audit"},
         Accepted(a, r, c, entries), Renderable(r, c, entries)
  PROVE  /\ PageIn(a, r, c, entries, rows) = PageIn(b, r, c, entries, rows)
         /\ RowsOf(a, r, entries, rows) = RowsOf(b, r, entries, rows)
         /\ \A x \in RowsOf(a, r, entries, rows) :
              /\ KeysOf(a, r, SortOf(r, entries), x) = KeysOf(b, r, SortOf(r, entries), x)
              /\ r.target = "runs" =>
                   RowOf(a, x, Scope(a, r, r.caller)) = RowOf(b, x, Scope(a, r, r.caller))
<1> DEFINE q == Plan(r, c, entries)
           first == Plan(r, None, entries)
<1>0. AlikeVersions(a, b, r.caller)
  BY DEF Alike
<1>1. CASE r.target = "records"
  <2>1. Matches(a, first, r.kind, r.caller) = Matches(b, first, r.kind, r.caller)
        /\ Matches(a, first, r.kind, r.caller) \subseteq DOMAIN Content
    BY <1>0, SameMatches DEF SeenOf, AlikeVersions
  <2>2. Run(a, q, r.kind, r.caller) = Run(b, q, r.kind, r.caller)
    BY <1>0, SamePage
  <2>3. \A sort : \A x \in DOMAIN Content : Keys(a, x, sort) = Keys(b, x, sort)
    BY <1>0, SameKeys
  <2> HIDE DEF q, first
  <2> QED BY <1>1, <2>1, <2>2, <2>3 DEF PageIn, RowsOf, KeysOf, q, first
<1>2. CASE r.target = "runs"
  <2> DEFINE scope == Scope(a, r, r.caller)
  <2>1. CardsSeen(a, r, r.caller)
    BY <1>0, <1>2, AcceptedCardsSeen DEF AlikeVersions
  <2>2. scope = Scope(b, r, r.caller)
    BY <1>0, <2>1, SameScope
  <2>3. NamesCards(q, r.cards) /\ NamesCards(first, r.cards)
    <3>1. Accepted(a, r, None, entries)
      BY AcceptedFirst
    <3> QED BY <1>2, <3>1, AcceptedNamesCards DEF Accepted, Queried
  <2>4. ProjectPage(a, q, scope) = ProjectPage(b, q, scope)
    BY <2>1, <2>3, SameRunPage
  <2>5. /\ RunMatches(a, first, scope) = RunMatches(b, first, scope)
        /\ RunMatches(a, first, scope) \subseteq DOMAIN a.runs
        /\ \A x \in DOMAIN a.runs : RunKeys(a, x, first.sort, scope) = RunKeys(b, x, first.sort, scope)
    BY <2>1, <2>3, SameRunPage
  <2>6. \A x \in DOMAIN a.runs : RowOf(a, x, scope) = RowOf(b, x, scope)
    BY <2>1, SameRun
  <2>7. SortOf(r, entries) = first.sort
    BY <1>2 DEF SortOf, Queried
  <2> HIDE DEF q, first, scope
  <2> QED BY <1>2, <2>2, <2>4, <2>5, <2>6, <2>7 DEF PageIn, RowsOf, KeysOf, q, first, scope
<1>3. CASE r.target = "list"
  BY <1>0, <1>3, SameList DEF PageIn, RowsOf, KeysOf
<1>4. CASE r.target = "audit"
  BY <1>4 DEF PageIn, RowsOf, KeysOf
<1> QED BY <1>1, <1>2, <1>3, <1>4

(* The databases a walk begins in are sound. *)
LEMMA StoreInvInit == Init => StoreInv
  BY StoreAssumption DEF Init, StoreInv

(* No request and no writer breaks that. *)
LEMMA StoreInvNext == StoreInv /\ [Next]_vars => StoreInv'
<1> SUFFICES ASSUME StoreInv, [Next]_vars PROVE StoreInv'
  OBVIOUS
<1> USE DEF StoreInv
<1>1. CASE Handler
  BY <1>1 DEF Handler, Refuse, Fail, Select, ReadHiddenTargets, ReadHiddenEvals, Respond, world
<1>2. ASSUME NEW v \in DOMAIN Content, Commit(v) PROVE StoreInv'
  BY <1>2 DEF Commit, Elsewhere, walk
<1>3. ASSUME NEW v \in DOMAIN Content, Tombstone(v) PROVE StoreInv'
  <2>1. (live \cup dead)' = live \cup dead
    BY <1>3 DEF Tombstone
  <2> QED BY <1>3, <2>1 DEF Tombstone, Elsewhere, walk
<1>4. ASSUME NEW x \in Records, SetVisibility(x) PROVE StoreInv'
  BY <1>4 DEF SetVisibility, Elsewhere, walk
<1>5. ASSUME NEW r \in DOMAIN runs, NEW is \in RunContents, WriteRun(r, is) PROVE StoreInv'
  BY <1>5 DEF WriteRun, Elsewhere, walk
<1>6. ASSUME NEW r \in DOMAIN runs, NEW state \in {"live", "archived", "deleted"},
             SetRunState(r, state)
      PROVE  StoreInv'
  BY <1>6 DEF SetRunState, Elsewhere, walk
<1>7. ASSUME NEW i \in AuditIds, Audit(i) PROVE StoreInv'
  BY <1>7 DEF Audit, Elsewhere, walk
<1>8. ASSUME NEW e \in Schemas, Apply(e) PROVE StoreInv'
  BY <1>8 DEF Apply, Elsewhere, walk
<1>9. CASE Restart
  BY <1>9 DEF Restart, Elsewhere, walk
<1>10. CASE UNCHANGED vars
  BY <1>10 DEF vars, world, walk
<1> QED BY <1>1, <1>2, <1>3, <1>4, <1>5, <1>6, <1>7, <1>8, <1>9, <1>10 DEF Next, Others

(* In a sound database what is hidden makes no difference to a page. *)
LEMMA StoreImpliesUnseen == StoreInv => Unseen
<1> SUFFICES ASSUME StoreInv PROVE Unseen
  OBVIOUS
<1> DEFINE b == Openly(req)
<1>1. Alike(db, b, req.caller)
  BY OpenlyAlike
<1>2. req.target \in {"records", "runs", "list", "audit"}
  BY ReadsAssumption DEF StoreInv
<1> HIDE DEF b
<1>3. ASSUME Accepted(db, req, cursor, applied), Renderable(req, cursor, applied)
      PROVE  /\ PageIn(db, req, cursor, applied, log) = PageIn(b, req, cursor, applied, log)
             /\ Steady(req) = [x \in RowsOf(b, req, applied, log) |->
                                 KeysOf(b, req, SortOf(req, applied), x)]
             /\ req.target = "runs" =>
                  \A x \in DOMAIN Steady(req) :
                    RowOf(db, x, Scope(db, req, req.caller)) = RowOf(b, x, Scope(db, req, req.caller))
  <2>1. /\ PageIn(db, req, cursor, applied, log) = PageIn(b, req, cursor, applied, log)
        /\ RowsOf(db, req, applied, log) = RowsOf(b, req, applied, log)
        /\ \A x \in RowsOf(db, req, applied, log) :
             /\ KeysOf(db, req, SortOf(req, applied), x) = KeysOf(b, req, SortOf(req, applied), x)
             /\ req.target = "runs" =>
                  RowOf(db, x, Scope(db, req, req.caller)) = RowOf(b, x, Scope(db, req, req.caller))
    BY <1>1, <1>2, <1>3, SameReads
  <2>2. Accepted(db, req, None, applied) /\ Renderable(req, None, applied)
    BY <1>3, AcceptedFirst
  <2>3. Steady(req) = [x \in RowsOf(db, req, applied, log) |->
                         KeysOf(db, req, SortOf(req, applied), x)]
    BY <2>2 DEF Steady
  <2> QED BY <2>1, <2>3
<1>4. ASSUME NEW v \in live \cup dead, SeesVersion(db, v, req.caller)
      PROVE  VisibleEdges(db, req, v) = VisibleEdges(b, req, v)
  <2>1. v \in SeenOf(db, db.live \cup db.dead, req.caller)
    BY <1>4 DEF SeenOf, db
  <2>2. AlikeVersions(db, b, req.caller)
    BY <1>1 DEF Alike
  <2> QED BY <2>1, <2>2, SameEdges
<1> QED BY <1>3, <1>4 DEF Unseen, b

(* Unseen: no page, row, key, cell or edge differs between the database and
   the one without what its reader may not see. *)
THEOREM HiddenMakesNoDifference == Spec => []Unseen
  BY StoreInvInit, StoreInvNext, StoreImpliesUnseen, PTL DEF Spec

-----------------------------------------------------------------------------
(* The lexical order *)

(* A non-empty set of naturals has a least. *)
LEMMA LeastNatural ==
  ASSUME NEW T \in SUBSET Nat, T # {}
  PROVE  \E x \in T : \A y \in T : x <= y
<1>1. PICK x \in T : \A y \in T : ~(<<y, x>> \in OpToRel(<, Nat))
  <2>1. \E x \in T : \A y \in T : ~(<<y, x>> \in OpToRel(<, Nat))
    BY WFMin, NatLessThanWellFounded, Zenon
  <2> QED BY <2>1, Zenon
<1>2. ASSUME NEW y \in T PROVE x <= y
  <2>1. ASSUME y < x PROVE <<y, x>> \in OpToRel(<, Nat)
    <3>1. y \in Nat /\ x \in Nat OBVIOUS
    <3> QED BY <2>1, <3>1, Zenon DEF OpToRel
  <2>2. ~(y < x) BY <1>1, <2>1, Zenon
  <2> QED BY <2>2
<1> QED BY <1>2

(* The lexical order of sequences of numbers is irreflexive, *)
LEMMA LessIrreflexive ==
  ASSUME NEW a \in Seq(Int)
  PROVE  ~Less(a, a)
<1> SUFFICES ASSUME NEW i \in 1..Len(a), i <= Len(a) => a[i] < a[i] PROVE FALSE
  BY DEF Less
<1>1. a[i] < a[i] /\ a[i] \in Int
  OBVIOUS
<1> QED BY <1>1

(* transitive, *)
LEMMA LessTransitive ==
  ASSUME NEW a \in Seq(Int), NEW b \in Seq(Int), NEW c \in Seq(Int), Less(a, b), Less(b, c)
  PROVE  Less(a, c)
<1>1. PICK i \in 1..Len(b) : i <= Len(a) + 1 /\ (\A j \in 1..(i - 1) : a[j] = b[j])
                             /\ (i <= Len(a) => a[i] < b[i])
  BY DEF Less
<1>2. PICK k \in 1..Len(c) : k <= Len(b) + 1 /\ (\A j \in 1..(k - 1) : b[j] = c[j])
                             /\ (k <= Len(b) => b[k] < c[k])
  BY DEF Less
<1>3. i \in Nat /\ k \in Nat /\ Len(a) \in Nat /\ Len(b) \in Nat /\ Len(c) \in Nat
      /\ 1 <= i /\ i <= Len(b) /\ 1 <= k /\ k <= Len(c)
  OBVIOUS
<1>4. CASE i < k
  <2>1. i \in 1..Len(c) /\ b[i] = c[i] /\ \A j \in 1..(i - 1) : a[j] = c[j]
    BY <1>1, <1>2, <1>3, <1>4
  <2> QED BY <1>1, <2>1 DEF Less
<1>5. CASE i = k
  <2>1. i <= Len(a) => a[i] < c[i]
    <3> SUFFICES ASSUME i <= Len(a) PROVE a[i] < c[i]
      OBVIOUS
    <3>1. a[i] \in Int /\ b[i] \in Int /\ c[i] \in Int
      BY <1>3, <1>5
    <3>2. a[i] < b[i] /\ b[i] < c[i]
      BY <1>1, <1>2, <1>3, <1>5
    <3> QED BY <3>1, <3>2
  <2>2. i \in 1..Len(c) /\ \A j \in 1..(i - 1) : a[j] = c[j]
    BY <1>1, <1>2, <1>5
  <2> QED BY <1>1, <2>1, <2>2 DEF Less
<1>6. CASE k < i
  <2>1. k <= Len(a) /\ k <= Len(b) /\ a[k] = b[k] /\ b[k] < c[k]
    <3>1. k <= Len(b) /\ k <= Len(a) /\ k \in 1..(i - 1)
      BY <1>1, <1>3, <1>6
    <3> QED BY <1>1, <1>2, <3>1
  <2>2. \A j \in 1..(k - 1) : a[j] = c[j]
    BY <1>1, <1>2, <1>3, <1>6
  <2>3. a[k] < c[k] /\ k \in 1..Len(c) /\ k <= Len(a) + 1
    BY <1>3, <2>1
  <2> QED BY <2>2, <2>3 DEF Less
<1> QED BY <1>3, <1>4, <1>5, <1>6

(* and total. *)
LEMMA LessTotal ==
  ASSUME NEW a \in Seq(Int), NEW b \in Seq(Int), a # b
  PROVE  Less(a, b) \/ Less(b, a)
<1> DEFINE parts == {i \in Nat : i >= 1 /\ (i > Len(a) \/ i > Len(b) \/ a[i] # b[i])}
<1>1. Len(a) + 1 \in parts
  OBVIOUS
<1>2. parts \in SUBSET Nat /\ parts # {}
  BY <1>1
<1>3. PICK i \in parts : \A j \in parts : i <= j
  BY <1>2, LeastNatural
<1>4. i \in Nat /\ i >= 1 /\ (i > Len(a) \/ i > Len(b) \/ a[i] # b[i])
      /\ Len(a) \in Nat /\ Len(b) \in Nat
  OBVIOUS
<1>5. ASSUME NEW j \in 1..(i - 1) PROVE j <= Len(a) /\ j <= Len(b) /\ a[j] = b[j]
  <2>1. j \in Nat /\ j >= 1 /\ ~(i <= j)
    BY <1>4
  <2>2. j \notin parts
    BY <1>3, <2>1
  <2> QED BY <2>1, <2>2
<1>6. i <= Len(a) + 1 /\ i <= Len(b) + 1
  <2>1. CASE i = 1
    BY <1>4, <2>1
  <2>2. CASE i > 1
    <3>1. i - 1 \in 1..(i - 1)
      BY <1>4, <2>2
    <3> QED BY <1>4, <1>5, <3>1
  <2> QED BY <1>4, <2>1, <2>2
<1> HIDE DEF parts
<1>7. CASE i > Len(a) /\ i > Len(b)
  <2>1. Len(a) = Len(b) /\ \A j \in 1..Len(a) : a[j] = b[j]
    BY <1>4, <1>5, <1>6, <1>7
  <2>2. a = [j \in 1..Len(a) |-> a[j]] /\ b = [j \in 1..Len(b) |-> b[j]]
    OBVIOUS
  <2>3. a = b
    BY <2>1, <2>2
  <2> QED BY <2>3
<1>8. CASE i > Len(a) /\ i <= Len(b)
  <2>1. i \in 1..Len(b) /\ i <= Len(a) + 1 /\ ~(i <= Len(a))
    BY <1>4, <1>6, <1>8
  <2> QED BY <1>5, <2>1 DEF Less
<1>9. CASE i <= Len(a) /\ i > Len(b)
  <2>1. i \in 1..Len(a) /\ i <= Len(b) + 1 /\ ~(i <= Len(b))
    BY <1>4, <1>6, <1>9
  <2>2. \A j \in 1..(i - 1) : b[j] = a[j]
    BY <1>5
  <2> QED BY <2>1, <2>2 DEF Less
<1>10. CASE i <= Len(a) /\ i <= Len(b)
  <2>1. a[i] \in Int /\ b[i] \in Int /\ a[i] # b[i]
    BY <1>4, <1>10
  <2>2. a[i] < b[i] \/ b[i] < a[i]
    BY <2>1
  <2>3. i \in 1..Len(a) /\ i \in 1..Len(b) /\ i <= Len(a) + 1 /\ i <= Len(b) + 1
    BY <1>4, <1>10
  <2>4. (\A j \in 1..(i - 1) : a[j] = b[j]) /\ (\A j \in 1..(i - 1) : b[j] = a[j])
    BY <1>5
  <2> QED BY <2>2, <2>3, <2>4 DEF Less
<1> QED BY <1>4, <1>7, <1>8, <1>9, <1>10

(* A finite set in the order of a strict total relation. *)
LEMMA RankedSorted ==
  ASSUME NEW S, IsFiniteSet(S), NEW less,
         \A x \in S : <<x, x>> \notin less,
         \A x \in S, y \in S, z \in S : <<x, y>> \in less /\ <<y, z>> \in less => <<x, z>> \in less,
         \A x \in S, y \in S : x # y => <<x, y>> \in less \/ <<y, x>> \in less
  PROVE  /\ Ranked(S, less) \in Seq(S)
         /\ \A x \in S : \E i \in DOMAIN Ranked(S, less) : Ranked(S, less)[i] = x
         /\ \A i, j \in DOMAIN Ranked(S, less) :
              i < j => <<Ranked(S, less)[i], Ranked(S, less)[j]>> \in less
<1> DEFINE n == Cardinality(S)
           before(x) == {y \in S : <<y, x>> \in less}
           rank == [x \in S |-> Cardinality(before(x))]
           R == Ranked(S, less)
<1>1. n \in Nat
  BY FS_CardinalityType
<1>2. ASSUME NEW x \in S PROVE IsFiniteSet(before(x)) /\ rank[x] \in 0..(n - 1)
  <2>1. before(x) \in SUBSET (S \ {x}) /\ IsFiniteSet(S \ {x}) /\ Cardinality(S \ {x}) = n - 1
    BY FS_RemoveElement
  <2> HIDE DEF before, n
  <2>2. IsFiniteSet(before(x)) /\ Cardinality(before(x)) <= n - 1
    BY <2>1, FS_Subset
  <2>3. Cardinality(before(x)) \in Nat
    BY <2>2, FS_CardinalityType
  <2> QED BY <1>1, <2>2, <2>3
<1>3. ASSUME NEW x \in S, NEW y \in S, <<x, y>> \in less PROVE rank[x] < rank[y]
  <2>1. before(x) \in SUBSET before(y) /\ x \in before(y) /\ x \notin before(x)
    BY <1>3
  <2>2. before(x) # before(y)
    BY <2>1
  <2> HIDE DEF before
  <2>3. Cardinality(before(x)) <= Cardinality(before(y))
        /\ Cardinality(before(y)) # Cardinality(before(x))
    BY <1>2, <2>1, <2>2, FS_Subset
  <2>4. Cardinality(before(x)) \in Nat /\ Cardinality(before(y)) \in Nat
    BY <1>2, FS_CardinalityType
  <2> QED BY <2>3, <2>4
<1> HIDE DEF before
<1>4. rank \in [S -> 0..(n - 1)]
  BY <1>2
<1> HIDE DEF rank
<1>5. ASSUME NEW x \in S, NEW y \in S, x # y PROVE rank[x] # rank[y]
  <2>1. rank[x] \in Int /\ rank[y] \in Int
    BY <1>1, <1>4
  <2>2. rank[x] < rank[y] \/ rank[y] < rank[x]
    BY <1>3, <1>5
  <2> QED BY <2>1, <2>2
<1>6. rank \in Injection(S, 0..(n - 1))
  BY <1>4, <1>5 DEF Injection, IsInjective
<1>7. IsFiniteSet(0..(n - 1)) /\ Cardinality(0..(n - 1)) = n
  <2>1. 0 \in Int /\ n - 1 \in Int
    BY <1>1
  <2>2. IsFiniteSet(0..(n - 1)) /\ Cardinality(0..(n - 1)) = IF 0 > n - 1 THEN 0 ELSE n - 1 - 0 + 1
    BY <2>1, FS_Interval
  <2> HIDE DEF n
  <2> QED BY <1>1, <2>2
<1>8. rank \in Surjection(S, 0..(n - 1))
  BY <1>6, <1>7, FS_Injection
<1>9. R = [i \in 1..n |-> CHOOSE x \in S : Cardinality(before(x)) = i - 1]
  BY DEF Ranked, before
<1>10. ASSUME NEW i \in 1..n PROVE R[i] \in S /\ rank[R[i]] = i - 1
  <2>1. i - 1 \in 0..(n - 1)
    BY <1>1
  <2>2. PICK x \in S : rank[x] = i - 1
    BY <1>8, <2>1 DEF Surjection
  <2>3. Cardinality(before(x)) = i - 1
    BY <2>2 DEF rank
  <2>4. R[i] = CHOOSE y \in S : Cardinality(before(y)) = i - 1
    BY <1>9
  <2> HIDE DEF R
  <2>5. R[i] \in S /\ Cardinality(before(R[i])) = i - 1
    BY <2>3, <2>4
  <2> QED BY <2>5 DEF rank
<1> HIDE DEF R
<1>11. DOMAIN R = 1..n /\ R = [i \in 1..n |-> R[i]]
  BY <1>9
<1>12. R \in Seq(S)
  BY <1>1, <1>10, <1>11
<1>13. ASSUME NEW x \in S PROVE \E i \in DOMAIN R : R[i] = x
  <2>1. rank[x] + 1 \in 1..n
    BY <1>1, <1>4
  <2>2. R[rank[x] + 1] \in S /\ rank[R[rank[x] + 1]] = rank[x]
    BY <1>1, <1>4, <1>10, <2>1
  <2>3. R[rank[x] + 1] = x
    BY <1>5, <2>2
  <2> QED BY <1>11, <2>1, <2>3
<1>14. ASSUME NEW i \in DOMAIN R, NEW j \in DOMAIN R, i < j PROVE <<R[i], R[j]>> \in less
  <2>1. R[i] \in S /\ R[j] \in S /\ rank[R[i]] = i - 1 /\ rank[R[j]] = j - 1 /\ i \in Int /\ j \in Int
    BY <1>1, <1>10, <1>11
  <2>2. R[i] # R[j]
    BY <1>14, <2>1
  <2>3. ~(<<R[j], R[i]>> \in less)
    BY <1>3, <1>14, <2>1
  <2> QED BY <2>1, <2>2, <2>3
<1> QED BY <1>12, <1>13, <1>14 DEF R

-----------------------------------------------------------------------------
(* Rows in the order of their keys, then of their ids *)

Literal(x) == OfType(x.t, x)

(* A direction orders the values of a key, NULLs included, *)
LEMMA PrecedesOrders ==
  ASSUME NEW a, NEW b, NEW c, Literal(a), Literal(b), Literal(c), NEW dir
  PROVE  /\ ~Precedes(a, a, dir)
         /\ Precedes(a, b, dir) /\ Precedes(b, c, dir) => Precedes(a, c, dir)
<1>1. a.v \in Seq(Int) /\ b.v \in Seq(Int) /\ c.v \in Seq(Int)
  <2>1. Null.v \in Seq(Int)
    BY DEF Null, Lit
  <2> QED BY <2>1 DEF Literal, OfType
<1>2. ~Less(a.v, a.v)
  BY <1>1, LessIrreflexive
<1>3. /\ Less(a.v, b.v) /\ Less(b.v, c.v) => Less(a.v, c.v)
      /\ Less(c.v, b.v) /\ Less(b.v, a.v) => Less(c.v, a.v)
  BY <1>1, LessTransitive
<1> QED BY <1>2, <1>3 DEF Precedes

(* totally those of one type. *)
LEMMA PrecedesTotal ==
  ASSUME NEW ty, NEW a, NEW b, OfType(ty, a), OfType(ty, b), a # b, NEW dir
  PROVE  Precedes(a, b, dir) \/ Precedes(b, a, dir)
<1>1. CASE a = Null
  BY <1>1 DEF ScalarTypes, ValueType, OfType, Null, Lit, Precedes
<1>2. CASE b = Null
  BY <1>2 DEF ScalarTypes, ValueType, OfType, Null, Lit, Precedes
<1>3. CASE a # Null /\ b # Null
  <2>1. /\ a.t = ty /\ b.t = ty /\ ty # "null"
        /\ a.v \in Seq(Int) /\ b.v \in Seq(Int) /\ a.v # b.v
    BY <1>3 DEF ScalarTypes, ValueType, OfType, Lit
  <2>2. Less(a.v, b.v) \/ Less(b.v, a.v)
    BY <2>1, LessTotal
  <2> QED BY <2>1, <2>2 DEF Precedes
<1> QED BY <1>1, <1>2, <1>3

KeysBefore(a, b, dirs) ==
  \E i \in DOMAIN dirs : Precedes(a[i], b[i], dirs[i]) /\ \A j \in 1..(i - 1) : a[j] = b[j]
TupleBefore(a, x, b, y, dirs, dir) == KeysBefore(a, b, dirs) \/ (a = b /\ IdBefore(x, y, dir))
KeyTuple(a, n) == a = [i \in 1..n |-> a[i]] /\ \A i \in 1..n : Literal(a[i])

(* Rows are strictly ordered by their keys and ids, *)
LEMMA TuplesOrdered ==
  ASSUME NEW n \in Nat, NEW dirs, DOMAIN dirs = 1..n, NEW dir,
         NEW a, NEW b, NEW c, KeyTuple(a, n), KeyTuple(b, n), KeyTuple(c, n),
         NEW x \in Int, NEW y \in Int, NEW z \in Int
  PROVE  /\ ~TupleBefore(a, x, a, x, dirs, dir)
         /\ TupleBefore(a, x, b, y, dirs, dir) /\ TupleBefore(b, y, c, z, dirs, dir)
              => TupleBefore(a, x, c, z, dirs, dir)
<1>1. ~TupleBefore(a, x, a, x, dirs, dir)
  <2>1. ~KeysBefore(a, a, dirs)
    <3>1. \A i \in 1..n : ~Precedes(a[i], a[i], dirs[i])
      BY PrecedesOrders DEF KeyTuple
    <3> QED BY <3>1 DEF KeysBefore
  <2>2. ~IdBefore(x, x, dir)
    BY DEF IdBefore
  <2> QED BY <2>1, <2>2 DEF TupleBefore
<1>2. ASSUME KeysBefore(a, b, dirs), KeysBefore(b, c, dirs) PROVE KeysBefore(a, c, dirs)
  <2>1. PICK i \in 1..n : Precedes(a[i], b[i], dirs[i]) /\ \A j \in 1..(i - 1) : a[j] = b[j]
    BY <1>2 DEF KeysBefore
  <2>2. PICK k \in 1..n : Precedes(b[k], c[k], dirs[k]) /\ \A j \in 1..(k - 1) : b[j] = c[j]
    BY <1>2 DEF KeysBefore
  <2>3. CASE i < k
    <3>1. b[i] = c[i] /\ \A j \in 1..(i - 1) : a[j] = c[j]
      BY <2>1, <2>2, <2>3
    <3> QED BY <2>1, <3>1 DEF KeysBefore
  <2>4. CASE i = k
    <3>1. Precedes(a[i], c[i], dirs[i])
      BY <2>1, <2>2, <2>4, PrecedesOrders DEF KeyTuple
    <3>2. \A j \in 1..(i - 1) : a[j] = c[j]
      BY <2>1, <2>2, <2>4
    <3> QED BY <3>1, <3>2 DEF KeysBefore
  <2>5. CASE k < i
    <3>1. a[k] = b[k] /\ \A j \in 1..(k - 1) : a[j] = c[j]
      BY <2>1, <2>2, <2>5
    <3> QED BY <2>2, <3>1 DEF KeysBefore
  <2> QED BY <2>3, <2>4, <2>5
<1>3. IdBefore(x, y, dir) /\ IdBefore(y, z, dir) => IdBefore(x, z, dir)
  BY DEF IdBefore
<1> QED BY <1>1, <1>2, <1>3 DEF TupleBefore

(* totally when each key is of one type. *)
LEMMA TuplesTotal ==
  ASSUME NEW n \in Nat, NEW dirs, DOMAIN dirs = 1..n, NEW dir, NEW types,
         NEW a, NEW b, KeyTuple(a, n), KeyTuple(b, n),
         \A i \in 1..n : OfType(types[i], a[i]) /\ OfType(types[i], b[i]),
         NEW x \in Int, NEW y \in Int, x # y
  PROVE  TupleBefore(a, x, b, y, dirs, dir) \/ TupleBefore(b, y, a, x, dirs, dir)
<1>1. CASE a = b
  <2>1. IdBefore(x, y, dir) \/ IdBefore(y, x, dir)
    BY DEF IdBefore
  <2> QED BY <1>1, <2>1 DEF TupleBefore
<1>2. CASE a # b
  <2> DEFINE differ == {i \in 1..n : a[i] # b[i]}
  <2>1. differ # {}
    <3> SUFFICES ASSUME differ = {} PROVE FALSE
      OBVIOUS
    <3>1. \A i \in 1..n : a[i] = b[i]
      OBVIOUS
    <3>2. [i \in 1..n |-> a[i]] = [i \in 1..n |-> b[i]]
      BY <3>1
    <3> QED BY <1>2, <3>2 DEF KeyTuple
  <2>2. PICK i \in differ : \A j \in differ : i <= j
    <3>1. differ \in SUBSET Nat
      OBVIOUS
    <3> HIDE DEF differ
    <3> QED BY <2>1, <3>1, LeastNatural
  <2>3. i \in 1..n /\ a[i] # b[i] /\ \A j \in 1..(i - 1) : a[j] = b[j]
    BY <2>2
  <2>4. Precedes(a[i], b[i], dirs[i]) \/ Precedes(b[i], a[i], dirs[i])
    BY <2>3, PrecedesTotal
  <2> QED BY <2>3, <2>4 DEF TupleBefore, KeysBefore
<1> QED BY <1>1, <1>2

-----------------------------------------------------------------------------
(* The keys of a row are literals of the types of their columns *)

(* A finite set has a member before which no other comes. *)
LEMMA FiniteLeast ==
  ASSUME NEW S, IsFiniteSet(S), S # {}, NEW less,
         \A x \in S : <<x, x>> \notin less,
         \A x \in S, y \in S, z \in S : <<x, y>> \in less /\ <<y, z>> \in less => <<x, z>> \in less
  PROVE  \E m \in S : \A y \in S : <<y, m>> \notin less
<1> DEFINE before(x) == {y \in S : <<y, x>> \in less}
           ranks == {Cardinality(before(x)) : x \in S}
<1>1. ASSUME NEW x \in S PROVE IsFiniteSet(before(x)) /\ Cardinality(before(x)) \in Nat
  BY FS_Subset, FS_CardinalityType
<1>2. ranks \in SUBSET Nat /\ ranks # {}
  <2> HIDE DEF before
  <2> QED BY <1>1
<1>3. PICK n \in ranks : \A k \in ranks : n <= k
  BY <1>2, LeastNatural
<1>4. PICK m \in S : n = Cardinality(before(m))
  BY <1>3
<1>5. ASSUME NEW y \in S, <<y, m>> \in less PROVE FALSE
  <2>1. before(y) \in SUBSET before(m) /\ y \in before(m) /\ y \notin before(y)
    BY <1>5
  <2>2. before(y) # before(m)
    BY <2>1
  <2>3. Cardinality(before(m)) <= Cardinality(before(y))
    <3>1. Cardinality(before(y)) \in ranks
      OBVIOUS
    <3> QED BY <1>3, <1>4, <3>1
  <2> HIDE DEF before
  <2>4. Cardinality(before(y)) <= Cardinality(before(m))
        /\ Cardinality(before(m)) # Cardinality(before(y))
    BY <1>1, <2>1, <2>2, FS_Subset
  <2> QED BY <1>1, <2>3, <2>4
<1> QED BY <1>5

(* What has a type is a literal, and NULL or of that type. *)
LEMMA OfTypeLiteral ==
  ASSUME NEW ty, NEW x, OfType(ty, x)
  PROVE  Literal(x) /\ x.v \in Seq(Int) /\ (x = Null \/ (x.t = ty /\ ty # "null"))
<1>1. CASE x = Null
  BY <1>1 DEF OfType, Literal, Null, Lit
<1>2. CASE x # Null
  <2>1. ty # "null" /\ x = Lit(ty, x.v) /\ x.v \in Seq(Int)
    BY <1>2 DEF ScalarTypes, ValueType, OfType
  <2>2. x.t = ty
    BY <2>1 DEF Lit
  <2> QED BY <2>1, <2>2 DEF OfType, Literal
<1> QED BY <1>1, <1>2

(* A cast gives NULL or a literal of its type, *)
LEMMA CastTyped ==
  ASSUME NEW ty, NEW body, Literals(body), NEW path
  PROVE  OfType(ty, Cast(ty, At(body, path)))
<1> DEFINE x == At(body, path)
<1>1. OfType(x.t, x)
  BY DEF At, Literals, OfType
<1> HIDE DEF x
<1>2. OfType(ty, Cast(ty, x))
  BY <1>1 DEF Cast, OfType
<1> QED BY <1>2 DEF x

(* What a snapshot holds. *)
Sound(d) ==
  /\ d.content = Content /\ d.live \subseteq DOMAIN Content
  /\ DOMAIN d.runs \subseteq Int /\ IsFiniteSet(DOMAIN d.runs)
  /\ \A r \in DOMAIN d.runs : d.runs[r].state = "absent" \/ Carries(d.runs[r].is)

(* so does the best of the results of a metric, *)
LEMMA BestValueTyped ==
  ASSUME NEW d, Sound(d), NEW v \in DOMAIN Content, NEW metric, NEW dir
  PROVE  OfType("number", BestValue(d, v, metric, dir))
<1> DEFINE values == {r \in d.content[v].results : r.metric = Text[metric]}
           comes(o, r) == IF dir = "asc" THEN Less(o.value.v, r.value.v)
                                         ELSE Less(r.value.v, o.value.v)
           less == {p \in values \X values : comes(p[1], p[2])}
           best == CHOOSE r \in values : \A o \in values :
                     IF dir = "asc" THEN ~Less(o.value.v, r.value.v) ELSE ~Less(r.value.v, o.value.v)
<1>1. CASE values = {}
  BY <1>1 DEF BestValue, OfType
<1>2. CASE values # {}
  <2>1. IsFiniteSet(values) /\ \A r \in values : OfType("number", r.value)
    <3>1. IsFiniteSet(Content[v].results) /\ \A s \in Content[v].results : OfType("number", s.value)
      BY RowsAssumption
    <3>2. values \subseteq Content[v].results
      BY DEF Sound
    <3> HIDE DEF values
    <3> QED BY <3>1, <3>2, FS_Subset
  <2>2. \A r \in values : r.value.v \in Seq(Int)
    BY <2>1, OfTypeLiteral
  <2> HIDE DEF values
  <2>3. \A x \in values : ~comes(x, x)
    BY <2>2, LessIrreflexive
  <2>4. \A x \in values, y \in values, z \in values : comes(x, y) /\ comes(y, z) => comes(x, z)
    BY <2>2, LessTransitive
  <2> HIDE DEF comes
  <2>5. \A x \in values : <<x, x>> \notin less
    BY <2>3
  <2>6. \A x \in values, y \in values, z \in values :
          <<x, y>> \in less /\ <<y, z>> \in less => <<x, z>> \in less
    BY <2>4
  <2>7. PICK m \in values : \A o \in values : <<o, m>> \notin less
    <3> HIDE DEF less
    <3> QED BY <1>2, <2>1, <2>5, <2>6, FiniteLeast
  <2>8. \A o \in values : ~comes(o, m)
    BY <2>7
  <2>9. best \in values
    BY <2>8 DEF comes
  <2>10. BestValue(d, v, metric, dir) = best.value
    BY <1>2 DEF BestValue, values
  <2> QED BY <2>1, <2>9, <2>10
<1> QED BY <1>1, <1>2

(* and the best judgement of a run by a Card. *)
LEMMA BestJudgementTyped ==
  ASSUME NEW d, Sound(d), NEW r, NEW column, NEW scope, NEW dir,
         scope.version[column.path[2]] \in DOMAIN Content, FieldOf(column) \in {"value", "label"}
  PROVE  OfType(IF FieldOf(column) = "value" THEN "number" ELSE "string",
                BestJudgement(d, r, column, scope, dir))
<1> DEFINE ty == IF FieldOf(column) = "value" THEN "number" ELSE "string"
           given == Judgements(d, r, column, scope)
           found == {j[FieldOf(column)] : j \in given} \ {Null}
           comes(x, y) == IF dir = "asc" THEN Less(x.v, y.v) ELSE Less(y.v, x.v)
           less == {p \in found \X found : comes(p[1], p[2])}
           best == CHOOSE x \in found : \A y \in found :
                     IF dir = "asc" THEN ~Less(y.v, x.v) ELSE ~Less(x.v, y.v)
<1>1. CASE found = {}
  BY <1>1 DEF BestJudgement, OfType
<1>2. CASE found # {}
  <2>1. IsFiniteSet(given) /\ \A j \in given : OfType(ty, j[FieldOf(column)])
    <3> DEFINE all == Content[scope.version[column.path[2]]].judgements
    <3>1. /\ IsFiniteSet(all)
          /\ \A j \in all : OfType("number", j.value) /\ OfType("string", j.label)
      BY RowsAssumption
    <3>2. given \subseteq all
      BY DEF Sound, Judgements
    <3>3. \A j \in all : OfType(ty, j[FieldOf(column)])
      BY <3>1
    <3> HIDE DEF all, given, ty
    <3> QED BY <3>1, <3>2, <3>3, FS_Subset
  <2> HIDE DEF given, ty
  <2>2. IsFiniteSet(found)
    <3> DEFINE all == {j[FieldOf(column)] : j \in given}
    <3>1. [j \in given |-> j[FieldOf(column)]] \in Surjection(given, all)
      BY DEF Surjection
    <3>2. IsFiniteSet(all)
      BY <2>1, <3>1, FS_Surjection
    <3> QED BY <3>2, FS_Subset
  <2>3. \A x \in found : OfType(ty, x)
    BY <2>1
  <2>4. \A x \in found : x.v \in Seq(Int)
    BY <2>3, OfTypeLiteral
  <2> HIDE DEF found
  <2>5. \A x \in found : ~comes(x, x)
    BY <2>4, LessIrreflexive
  <2>6. \A x \in found, y \in found, z \in found : comes(x, y) /\ comes(y, z) => comes(x, z)
    BY <2>4, LessTransitive
  <2> HIDE DEF comes
  <2>7. \A x \in found : <<x, x>> \notin less
    BY <2>5
  <2>8. \A x \in found, y \in found, z \in found :
          <<x, y>> \in less /\ <<y, z>> \in less => <<x, z>> \in less
    BY <2>6
  <2>9. PICK m \in found : \A o \in found : <<o, m>> \notin less
    <3> HIDE DEF less
    <3> QED BY <1>2, <2>2, <2>7, <2>8, FiniteLeast
  <2>10. \A o \in found : ~comes(o, m)
    BY <2>9
  <2>11. best \in found
    BY <2>10 DEF comes
  <2>12. BestJudgement(d, r, column, scope, dir) = best
    BY <1>2 DEF BestJudgement, found, given
  <2> QED BY <2>3, <2>11, <2>12 DEF ty
<1> QED BY <1>1, <1>2

(* A sort key of a version is of the type it binds as. *)
LEMMA KeyTyped ==
  ASSUME NEW d, Sound(d), NEW v \in DOMAIN Content, NEW s, KeyType(s.key) # None
  PROVE  OfType(KeyType(s.key), KeyValue(d, v, s))
<1>1. Content[v].created \in Int /\ Literals(Content[v].body)
  BY RowsAssumption
<1>2. CASE s.key.at = "created_at"
  <2>1. <<Content[v].created>> \in Seq(Int)
    BY <1>1
  <2>2. KeyType(s.key) = "timestamp" /\ KeyValue(d, v, s) = Lit("timestamp", <<Content[v].created>>)
    BY <1>2 DEF KeyType, KeyValue, Sound
  <2> QED BY <2>1, <2>2 DEF ScalarTypes, ValueType, OfType, Lit
<1>3. CASE s.key.at = "metric"
  <2>1. KeyType(s.key) = "number" /\ KeyValue(d, v, s) = BestValue(d, v, s.key.path[1], s.dir)
    BY <1>3 DEF KeyType, KeyValue
  <2> QED BY <2>1, BestValueTyped
<1>4. CASE s.key.at = "generated"
  <2>1. KeyType(s.key) = TypeOfColumn(s.key.path)
        /\ KeyValue(d, v, s) = Cast(TypeOfColumn(s.key.path), At(Content[v].body, s.key.path))
    BY <1>4 DEF KeyType, KeyValue, Expression, Sound
  <2> QED BY <1>1, <2>1, CastTyped
<1>5. CASE s.key.at = "ext"
  <2>1. KeyType(s.key) = s.key.ty
        /\ KeyValue(d, v, s) = Cast(s.key.ty, At(Content[v].body, s.key.path))
    BY <1>5 DEF KeyType, KeyValue, Expression, Sound
  <2> QED BY <1>1, <2>1, CastTyped
<1> QED BY <1>2, <1>3, <1>4, <1>5 DEF KeyType

(* The type a column of the run projection has whatever the request. *)
ColumnType(column) ==
  CASE IsResult(column) -> IF FieldOf(column) = "value" THEN "number" ELSE "string"
    [] ~IsResult(column) /\ column.path = <<"run_id">> -> "string"
    [] ~IsResult(column) /\ column.path # <<"run_id">> ->
         CASE column.at = "ext" -> column.ty
           [] column.at # "ext" /\ column.path[1] \in {"status", "error_kind", "fingerprint"} -> "string"
           [] column.at # "ext" /\ column.path[1] \in {"started_at", "ended_at"} -> "timestamp"
           [] column.at # "ext" /\ column.path[1] = "metrics" -> "number"
           [] OTHER -> FacetType(column.path)

(* A sort key of a run is of the type of its column. *)
LEMMA RunKeyTyped ==
  ASSUME NEW d, Sound(d), NEW r \in DOMAIN d.runs, NEW s, NEW scope,
         IsResult(s.key) => /\ scope.version[s.key.path[2]] \in DOMAIN Content
                            /\ FieldOf(s.key) \in {"value", "label"}
  PROVE  OfType(ColumnType(s.key), RunKey(d, r, s, scope))
<1> DEFINE run == d.runs[r]
           path == s.key.path
<1>1. CASE IsResult(s.key)
  BY <1>1, BestJudgementTyped DEF ColumnType, RunKey
<1>2. CASE ~IsResult(s.key) /\ path = <<"run_id">>
  <2>1. r \in Int
    BY DEF Sound
  <2>2. <<r>> \in Seq(Int)
    BY <2>1
  <2>3. ColumnType(s.key) = "string" /\ RunKey(d, r, s, scope) = Lit("string", <<r>>)
    BY <1>2 DEF ColumnType, RunKey, RunValue
  <2> QED BY <2>2, <2>3 DEF ScalarTypes, ValueType, OfType, Lit
<1>3. CASE ~IsResult(s.key) /\ path # <<"run_id">> /\ ~Shown(run, scope.member)
  <2>1. RunKey(d, r, s, scope) = Null
    BY <1>3 DEF RunKey, RunValue
  <2> QED BY <2>1 DEF OfType
<1>4. CASE ~IsResult(s.key) /\ path # <<"run_id">> /\ Shown(run, scope.member)
  <2>1. Carries(run.is)
    BY <1>4 DEF Sound, Shown
  <2>2. RunKey(d, r, s, scope) = Unmasked(run, s.key)
    BY <1>4 DEF RunKey, RunValue
  <2> HIDE DEF run
  <2>3. CASE s.key.at = "ext"
    <3>1. ColumnType(s.key) = s.key.ty /\ Unmasked(run, s.key) = Cast(s.key.ty, At(run.is.body, path))
      BY <1>4, <2>3 DEF ColumnType, Unmasked
    <3> QED BY <2>1, <2>2, <3>1, CastTyped DEF Carries
  <2>4. CASE s.key.at # "ext" /\ path[1] \in {"status", "error_kind"}
    <3>1. ColumnType(s.key) = "string" /\ Unmasked(run, s.key) = run.is[path[1]]
      BY <1>4, <2>4 DEF ColumnType, Unmasked
    <3> QED BY <2>1, <2>2, <2>4, <3>1 DEF Carries
  <2>5. CASE s.key.at # "ext" /\ path[1] \in {"started_at", "ended_at"}
    <3>1. ColumnType(s.key) = "timestamp" /\ Unmasked(run, s.key) = run.is[path[1]]
      BY <1>4, <2>5 DEF ColumnType, Unmasked
    <3> QED BY <2>1, <2>2, <2>5, <3>1 DEF Carries
  <2>6. CASE s.key.at # "ext" /\ path[1] = "fingerprint"
    <3>1. ColumnType(s.key) = "string"
          /\ Unmasked(run, s.key) = IF path[2] \in DOMAIN run.is.fingerprints
                                    THEN run.is.fingerprints[path[2]] ELSE Null
      BY <1>4, <2>6 DEF ColumnType, Unmasked
    <3> QED BY <2>1, <2>2, <3>1 DEF Carries, OfType
  <2>7. CASE s.key.at # "ext" /\ path[1] = "metrics"
    <3>1. ColumnType(s.key) = "number"
          /\ Unmasked(run, s.key) = IF path[2] \in DOMAIN run.is.metrics
                                    THEN run.is.metrics[path[2]] ELSE Null
      BY <1>4, <2>7 DEF ColumnType, Unmasked
    <3> QED BY <2>1, <2>2, <3>1 DEF Carries, OfType
  <2>8. CASE /\ s.key.at # "ext"
             /\ path[1] \notin {"status", "error_kind", "started_at", "ended_at", "fingerprint", "metrics"}
    <3>1. ColumnType(s.key) = FacetType(path)
          /\ Unmasked(run, s.key) = Cast(FacetType(path), At(run.is.body, path))
      BY <1>4, <2>8 DEF ColumnType, Unmasked
    <3> QED BY <2>1, <2>2, <3>1, CastTyped DEF Carries
  <2> QED BY <2>3, <2>4, <2>5, <2>6, <2>7, <2>8
<1> QED BY <1>1, <1>2, <1>3, <1>4

-----------------------------------------------------------------------------
(* The order of a request, of the keys and the id of a row *)

Dirs(r) == [i \in DOMAIN r.sort |-> r.sort[i].dir]
TieOf(r) == IF r.sort = <<>> THEN "asc" ELSE Last(r.sort).dir
RowOrder(r, a, x, b, y) ==
  CASE Queried(r) -> TupleBefore(a, x, b, y, Dirs(r), TieOf(r))
    [] r.target = "list" -> ListBefore(x, y, r.sort)
    [] r.target = "audit" -> x > y
Fit(r, a, x) ==
  /\ x \in Int /\ (r.target = "list" => x \in Records)
  /\ Queried(r) => KeyTuple(a, Len(r.sort))
Keyset(r) == r.target = "records" => r.sort # <<>>
KeyTypes(r, entries) ==
  [i \in DOMAIN r.sort |->
     IF r.target = "records" THEN KeyType(Plan(r, None, entries).sort[i].key)
     ELSE ColumnType(Plan(r, None, entries).sort[i].key)]

(* A compiled request sorts by as many keys in the same directions, cursor or not. *)
LEMMA SortIs ==
  ASSUME NEW r \in Requests, Queried(r), NEW c, NEW entries
  PROVE  LET sort == Plan(r, c, entries).sort
         IN /\ Len(r.sort) \in Nat /\ DOMAIN r.sort = 1..Len(r.sort)
            /\ DOMAIN sort = 1..Len(r.sort) /\ Len(sort) = Len(r.sort)
            /\ \A i \in DOMAIN r.sort : sort[i].dir = r.sort[i].dir /\ sort[i].dir \in {"asc", "desc"}
            /\ sort = <<>> <=> r.sort = <<>>
            /\ r.sort # <<>> => Last(sort).dir = Last(r.sort).dir
<1> DEFINE sort == Plan(r, c, entries).sort
           n == Len(r.sort)
<1>1. r.sort \in Seq(ToSet(r.sort)) /\ \A i \in DOMAIN r.sort : r.sort[i].dir \in {"asc", "desc"}
  BY ReadsAssumption DEF Queried
<1>2. n \in Nat /\ DOMAIN r.sort = 1..n /\ (r.sort = <<>> <=> n = 0)
  BY <1>1
<1>3. sort = [i \in 1..n |->
                [key |-> CheckKeys(r, Table(r, entries))[i].key, dir |-> r.sort[i].dir]]
  BY <1>2 DEF Plan, Compile
<1> HIDE DEF n, sort
<1>4. DOMAIN sort = 1..n /\ Len(sort) = n /\ \A i \in 1..n : sort[i].dir = r.sort[i].dir
  BY <1>2, <1>3
<1>5. sort = <<>> <=> r.sort = <<>>
  BY <1>2, <1>3
<1>6. ASSUME r.sort # <<>> PROVE Last(sort).dir = Last(r.sort).dir
  <2>1. n \in 1..n
    BY <1>2, <1>6
  <2> QED BY <1>4, <2>1 DEF Last, n
<1> QED BY <1>1, <1>2, <1>4, <1>5, <1>6 DEF n, sort

(* The order of a request is strict, *)
LEMMA RowOrderStrict ==
  ASSUME NEW r \in Requests, NEW a, NEW x, NEW b, NEW y, NEW c, NEW z,
         Fit(r, a, x), Fit(r, b, y), Fit(r, c, z)
  PROVE  /\ ~RowOrder(r, a, x, a, x)
         /\ RowOrder(r, a, x, b, y) /\ RowOrder(r, b, y, c, z) => RowOrder(r, a, x, c, z)
<1>1. CASE Queried(r)
  <2>1. Len(r.sort) \in Nat /\ DOMAIN Dirs(r) = 1..Len(r.sort)
    BY <1>1, SortIs DEF Dirs
  <2>2. /\ KeyTuple(a, Len(r.sort)) /\ KeyTuple(b, Len(r.sort)) /\ KeyTuple(c, Len(r.sort))
        /\ x \in Int /\ y \in Int /\ z \in Int
    BY <1>1 DEF Fit
  <2>3. \A k, m, u, v : RowOrder(r, k, u, m, v) <=> TupleBefore(k, u, m, v, Dirs(r), TieOf(r))
    BY <1>1 DEF RowOrder, Queried
  <2>4. /\ ~TupleBefore(a, x, a, x, Dirs(r), TieOf(r))
        /\ TupleBefore(a, x, b, y, Dirs(r), TieOf(r)) /\ TupleBefore(b, y, c, z, Dirs(r), TieOf(r))
             => TupleBefore(a, x, c, z, Dirs(r), TieOf(r))
    BY <2>1, <2>2, TuplesOrdered
  <2> QED BY <2>3, <2>4
<1>2. CASE r.target = "list"
  <2>1. /\ x \in Int /\ y \in Int /\ z \in Int
        /\ ListKey(x, r.sort) \in Int /\ ListKey(y, r.sort) \in Int /\ ListKey(z, r.sort) \in Int
    BY <1>2, RowsAssumption DEF Fit, ListKey
  <2>2. /\ ~ListBefore(x, x, r.sort)
        /\ ListBefore(x, y, r.sort) /\ ListBefore(y, z, r.sort) => ListBefore(x, z, r.sort)
    BY <2>1 DEF ListBefore
  <2>3. ~Queried(r)
    BY <1>2 DEF Queried
  <2> QED BY <1>2, <2>2, <2>3 DEF RowOrder
<1>3. CASE r.target = "audit"
  BY <1>3 DEF RowOrder, Fit, Queried
<1> QED BY <1>1, <1>2, <1>3, ReadsAssumption DEF Queried

(* it is the order its statement sorts rows in, *)
LEMMA BeforeIsOrder ==
  ASSUME NEW r \in Requests, Keyset(r), NEW d, NEW entries, NEW x, NEW y
  PROVE  RowBefore(d, r, entries, x, y) <=>
           RowOrder(r, KeysOf(d, r, SortOf(r, entries), x), x,
                       KeysOf(d, r, SortOf(r, entries), y), y)
<1> DEFINE sort == Plan(r, None, entries).sort
<1>1. CASE r.target = "records"
  <2>1. /\ DOMAIN sort = DOMAIN Dirs(r) /\ \A i \in DOMAIN sort : sort[i].dir = Dirs(r)[i]
        /\ sort # <<>> /\ Direction(sort) = TieOf(r)
    BY <1>1, SortIs DEF Keyset, Queried, Dirs, TieOf, Direction
  <2>2. SortOf(r, entries) = sort /\ \A z : KeysOf(d, r, sort, z) = Keys(d, z, sort)
    BY <1>1 DEF SortOf, Queried, KeysOf
  <2>3. RowBefore(d, r, entries, x, y) <=> Before(d, x, y, sort)
    BY <1>1 DEF RowBefore
  <2> HIDE DEF sort
  <2>4. Before(d, x, y, sort) <=>
          TupleBefore(Keys(d, x, sort), x, Keys(d, y, sort), y, Dirs(r), TieOf(r))
    BY <2>1 DEF Before, TupleBefore, KeysBefore
  <2> QED BY <1>1, <2>2, <2>3, <2>4 DEF RowOrder, Queried
<1>2. CASE r.target = "runs"
  <2> DEFINE scope == Scope(d, r, r.caller)
  <2>1. /\ DOMAIN sort = DOMAIN Dirs(r) /\ \A i \in DOMAIN sort : sort[i].dir = Dirs(r)[i]
        /\ Tiebreak(sort) = TieOf(r)
    BY <1>2, SortIs DEF Queried, Dirs, TieOf, Tiebreak
  <2>2. SortOf(r, entries) = sort /\ \A z : KeysOf(d, r, sort, z) = RunKeys(d, z, sort, scope)
    BY <1>2 DEF SortOf, Queried, KeysOf
  <2>3. RowBefore(d, r, entries, x, y) <=> RunBefore(d, x, y, sort, scope)
    BY <1>2 DEF RowBefore
  <2> HIDE DEF sort, scope
  <2>4. RunBefore(d, x, y, sort, scope) <=>
          TupleBefore(RunKeys(d, x, sort, scope), x, RunKeys(d, y, sort, scope), y, Dirs(r), TieOf(r))
    BY <2>1 DEF RunBefore, TupleBefore, KeysBefore
  <2> QED BY <1>2, <2>2, <2>3, <2>4 DEF RowOrder, Queried
<1>3. CASE r.target = "list"
  BY <1>3 DEF RowBefore, RowOrder, Queried
<1>4. CASE r.target = "audit"
  BY <1>4 DEF RowBefore, RowOrder, Queried
<1> QED BY <1>1, <1>2, <1>3, <1>4, ReadsAssumption

(* The rows a request may deliver. *)
Typed(r, entries, keys) ==
  Queried(r) => \A i \in DOMAIN r.sort : OfType(KeyTypes(r, entries)[i], keys[i])

(* the rows of a request have keys it can be asked of, *)
LEMMA RowsFit ==
  ASSUME NEW r \in Requests, NEW d, Sound(d), NEW entries, NEW rows \in SUBSET AuditIds,
         Accepted(d, r, None, entries), Renderable(r, None, entries)
  PROVE  /\ IsFiniteSet(RowsOf(d, r, entries, rows))
         /\ \A x \in RowsOf(d, r, entries, rows) :
              /\ Fit(r, KeysOf(d, r, SortOf(r, entries), x), x)
              /\ Typed(r, entries, KeysOf(d, r, SortOf(r, entries), x))
<1> DEFINE q == Plan(r, None, entries)
           n == Len(r.sort)
<1>1. CASE r.target = "records"
  <2>1. RowsOf(d, r, entries, rows) \subseteq DOMAIN Content
    BY <1>1 DEF RowsOf, Matches, Sound
  <2>2. IsFiniteSet(RowsOf(d, r, entries, rows)) /\ RowsOf(d, r, entries, rows) \subseteq Int
    BY <2>1, StoreAssumption, RowsAssumption, FS_Subset
  <2>3. DOMAIN q.sort = 1..n /\ DOMAIN r.sort = 1..n /\ \A i \in 1..n : KeyType(q.sort[i].key) # None
    BY <1>1, SortIs DEF Renderable, Supported, Queried
  <2>4. SortOf(r, entries) = q.sort
    BY <1>1 DEF SortOf, Queried
  <2>5. \A i \in 1..n : KeyTypes(r, entries)[i] = KeyType(q.sort[i].key)
    BY <1>1, <2>3 DEF KeyTypes
  <2> HIDE DEF q, n
  <2>6. ASSUME NEW x \in RowsOf(d, r, entries, rows)
        PROVE  LET keys == KeysOf(d, r, q.sort, x)
               IN /\ keys = [i \in 1..n |-> keys[i]]
                  /\ \A i \in 1..n : OfType(KeyTypes(r, entries)[i], keys[i]) /\ Literal(keys[i])
    <3>1. KeysOf(d, r, q.sort, x) = [i \in 1..n |-> KeyValue(d, x, q.sort[i])]
      BY <1>1, <2>3 DEF KeysOf, Keys
    <3>2. \A i \in 1..n : OfType(KeyTypes(r, entries)[i], KeyValue(d, x, q.sort[i]))
      BY <2>1, <2>3, <2>5, KeyTyped
    <3>3. \A i \in 1..n : Literal(KeyValue(d, x, q.sort[i]))
      BY <3>2, OfTypeLiteral
    <3> QED BY <3>1, <3>2, <3>3
  <2> QED BY <1>1, <2>2, <2>3, <2>4, <2>6 DEF Fit, Typed, KeyTuple, n
<1>2. CASE r.target = "runs"
  <2> DEFINE scope == Scope(d, r, r.caller)
  <2>1. RowsOf(d, r, entries, rows) \subseteq DOMAIN d.runs
    BY <1>2 DEF RowsOf, RunMatches
  <2>2. IsFiniteSet(RowsOf(d, r, entries, rows)) /\ RowsOf(d, r, entries, rows) \subseteq Int
    BY <2>1, FS_Subset DEF Sound
  <2>3. DOMAIN q.sort = 1..n /\ DOMAIN r.sort = 1..n
    BY <1>2, SortIs DEF Queried
  <2>4. SortOf(r, entries) = q.sort
    BY <1>2 DEF SortOf, Queried
  <2>5. \A i \in 1..n : KeyTypes(r, entries)[i] = ColumnType(q.sort[i].key)
    BY <1>2, <2>3 DEF KeyTypes
  <2>6. \A i \in 1..n : NamesCard(q.sort[i].key, r.cards)
    <3>1. CompileErrors(r, Table(r, entries), None) = {} /\ RunSupported(q)
      BY <1>2 DEF Accepted, Queried
    <3>2. NamesCards(q, r.cards)
      BY <1>2, <3>1, AcceptedNamesCards
    <3> QED BY <2>3, <3>2 DEF NamesCards
  <2>7. \A c \in r.cards : scope.version[c] \in DOMAIN Content
    <3>1. d.live \subseteq DOMAIN Content /\ \A v \in DOMAIN Content : d.content[v].seq = Content[v].seq
      BY DEF Sound
    <3>2. CardsSeen(d, r, r.caller)
      BY <1>2, <3>1, AcceptedCardsSeen
    <3> QED BY <3>2 DEF CardsSeen, Scope
  <2> HIDE DEF q, n, scope
  <2>8. ASSUME NEW x \in RowsOf(d, r, entries, rows)
        PROVE  LET keys == KeysOf(d, r, q.sort, x)
               IN /\ keys = [i \in 1..n |-> keys[i]]
                  /\ \A i \in 1..n : OfType(KeyTypes(r, entries)[i], keys[i]) /\ Literal(keys[i])
    <3>1. KeysOf(d, r, q.sort, x) = [i \in 1..n |-> RunKey(d, x, q.sort[i], scope)]
      BY <1>2, <2>3 DEF KeysOf, RunKeys, scope
    <3>2. \A i \in 1..n : OfType(KeyTypes(r, entries)[i], RunKey(d, x, q.sort[i], scope))
      <4> TAKE i \in 1..n
      <4>1. IsResult(q.sort[i].key) =>
              /\ scope.version[q.sort[i].key.path[2]] \in DOMAIN Content
              /\ FieldOf(q.sort[i].key) \in {"value", "label"}
        BY <2>6, <2>7 DEF NamesCard
      <4> QED BY <2>1, <2>5, <4>1, RunKeyTyped
    <3>3. \A i \in 1..n : Literal(RunKey(d, x, q.sort[i], scope))
      BY <3>2, OfTypeLiteral
    <3> QED BY <3>1, <3>2, <3>3
  <2> QED BY <1>2, <2>2, <2>3, <2>4, <2>8 DEF Fit, Typed, KeyTuple, n
<1>3. CASE r.target = "list"
  <2>1. RowsOf(d, r, entries, rows) \subseteq Records
    BY <1>3 DEF RowsOf, ListMatches
  <2>2. IsFiniteSet(RowsOf(d, r, entries, rows))
    BY <2>1, RowsAssumption, FS_Subset
  <2> QED BY <1>3, <2>1, <2>2, RowsAssumption DEF Fit, Typed, Queried
<1>4. CASE r.target = "audit"
  <2>1. RowsOf(d, r, entries, rows) = rows
    BY <1>4 DEF RowsOf
  <2>2. IsFiniteSet(rows) /\ rows \subseteq Int
    BY RowsAssumption, FS_Subset
  <2> QED BY <1>4, <2>1, <2>2 DEF Fit, Typed, Queried
<1> QED BY <1>1, <1>2, <1>3, <1>4, ReadsAssumption

(* and any two of them are ordered. *)
LEMMA RowOrderTotal ==
  ASSUME NEW r \in Requests, NEW entries, NEW a, NEW x, NEW b, NEW y, x # y,
         Fit(r, a, x), Fit(r, b, y), Typed(r, entries, a), Typed(r, entries, b)
  PROVE  RowOrder(r, a, x, b, y) \/ RowOrder(r, b, y, a, x)
<1>1. CASE Queried(r)
  <2> DEFINE types == KeyTypes(r, entries)
  <2>1. Len(r.sort) \in Nat /\ DOMAIN Dirs(r) = 1..Len(r.sort) /\ DOMAIN r.sort = 1..Len(r.sort)
    BY <1>1, SortIs DEF Dirs
  <2>2. KeyTuple(a, Len(r.sort)) /\ KeyTuple(b, Len(r.sort)) /\ x \in Int /\ y \in Int
    BY <1>1 DEF Fit
  <2>3. \A i \in 1..Len(r.sort) : OfType(types[i], a[i]) /\ OfType(types[i], b[i])
    BY <1>1, <2>1 DEF Typed
  <2> HIDE DEF types
  <2>4. TupleBefore(a, x, b, y, Dirs(r), TieOf(r)) \/ TupleBefore(b, y, a, x, Dirs(r), TieOf(r))
    BY <2>1, <2>2, <2>3, TuplesTotal
  <2> QED BY <1>1, <2>4 DEF RowOrder, Queried
<1>2. CASE r.target = "list"
  <2>1. /\ x \in Int /\ y \in Int
        /\ ListKey(x, r.sort) \in Int /\ ListKey(y, r.sort) \in Int
    BY <1>2, RowsAssumption DEF Fit, ListKey
  <2>2. ListBefore(x, y, r.sort) \/ ListBefore(y, x, r.sort)
    BY <2>1 DEF ListBefore
  <2> QED BY <1>2, <2>2 DEF RowOrder, Queried
<1>3. CASE r.target = "audit"
  BY <1>3 DEF RowOrder, Fit, Queried
<1> QED BY <1>1, <1>2, <1>3, ReadsAssumption DEF Queried

-----------------------------------------------------------------------------
(* A page holds the first rows past its cursor *)

(* The first rows of a finite set, sorted: every other comes after the last of them. *)
LEMMA PageSorted ==
  ASSUME NEW S, IsFiniteSet(S), NEW less,
         \A x \in S : <<x, x>> \notin less,
         \A x \in S, y \in S, z \in S : <<x, y>> \in less /\ <<y, z>> \in less => <<x, z>> \in less,
         \A x \in S, y \in S : x # y => <<x, y>> \in less \/ <<y, x>> \in less,
         NEW limit \in Nat \ {0}
  PROVE  LET p == PageOf(Ranked(S, less), limit)
         IN /\ p.hits \in Seq(S)
            /\ \A i, j \in DOMAIN p.hits : i < j => <<p.hits[i], p.hits[j]>> \in less
            /\ p.more => p.hits # <<>>
            /\ \A i \in DOMAIN p.hits : p.hits[i] = Last(p.hits) \/ <<p.hits[i], Last(p.hits)>> \in less
            /\ \A x \in S : (\E i \in DOMAIN p.hits : p.hits[i] = x)
                            \/ (p.more /\ <<Last(p.hits), x>> \in less)
<1> DEFINE R == Ranked(S, less)
           n == IF limit <= Len(R) THEN limit ELSE Len(R)
           p == PageOf(R, limit)
<1>1. /\ R \in Seq(S)
      /\ \A x \in S : \E i \in DOMAIN R : R[i] = x
      /\ \A i, j \in DOMAIN R : i < j => <<R[i], R[j]>> \in less
  BY RankedSorted
<1> HIDE DEF R
<1>2. Len(R) \in Nat /\ n \in Nat /\ n <= Len(R) /\ n <= limit
  BY <1>1
<1>3. Min({limit, Len(R)}) = n
  <2>1. n \in {limit, Len(R)} /\ \A y \in {limit, Len(R)} : n <= y
    BY <1>2
  <2>2. \A m \in {limit, Len(R)} : (\A y \in {limit, Len(R)} : m <= y) => m = n
    BY <1>2
  <2> HIDE DEF n
  <2>3. Min({limit, Len(R)}) = CHOOSE m \in {limit, Len(R)} : \A y \in {limit, Len(R)} : m <= y
    BY DEF Min
  <2> QED BY <2>1, <2>2, <2>3
<1>4. p.hits = SubSeq(R, 1, n) /\ (p.more <=> Len(R) > limit)
  BY <1>3 DEF PageOf
<1> HIDE DEF p
<1>5. /\ p.more => n = limit /\ n >= 1
      /\ ~p.more => n = Len(R)
  <2>1. limit \in Nat /\ limit >= 1
    OBVIOUS
  <2>2. CASE Len(R) > limit
    BY <1>2, <1>4, <2>1, <2>2
  <2>3. CASE ~(Len(R) > limit)
    BY <1>2, <1>4, <2>1, <2>3
  <2> QED BY <2>2, <2>3
<1> HIDE DEF n
<1>6. /\ p.hits \in Seq(S) /\ Len(p.hits) = n /\ DOMAIN p.hits = 1..n
      /\ \A i \in 1..n : p.hits[i] = R[i]
  BY <1>1, <1>2, <1>4
<1>7. n >= 1 => Last(p.hits) = R[n] /\ p.hits # <<>>
  BY <1>2, <1>6 DEF Last
<1>8. DOMAIN R = 1..Len(R) /\ \A i \in 1..n : i \in DOMAIN R /\ i \in Int
  BY <1>1, <1>2
<1>9. ASSUME NEW i \in DOMAIN p.hits
      PROVE  p.hits[i] = Last(p.hits) \/ <<p.hits[i], Last(p.hits)>> \in less
  <2>1. i \in 1..n /\ n >= 1 /\ p.hits[i] = R[i] /\ Last(p.hits) = R[n] /\ n \in 1..n
    BY <1>2, <1>6, <1>7
  <2>2. i = n \/ i < n
    BY <1>2, <2>1
  <2>3. i \in DOMAIN R /\ n \in DOMAIN R
    BY <1>8, <2>1
  <2>4. i < n => <<R[i], R[n]>> \in less
    BY <1>1, <2>3
  <2> QED BY <2>1, <2>2, <2>4
<1>10. ASSUME NEW x \in S, \A i \in DOMAIN p.hits : p.hits[i] # x
       PROVE  p.more /\ <<Last(p.hits), x>> \in less
  <2>1. PICK k \in DOMAIN R : R[k] = x
    BY <1>1
  <2>2. k \in Nat /\ k >= 1 /\ k <= Len(R) /\ k \notin 1..n
    BY <1>2, <1>6, <1>10, <1>8, <2>1
  <2>3. k > n
    BY <1>2, <2>2
  <2>4. p.more
    BY <1>2, <1>5, <2>2, <2>3
  <2>5. n \in 1..n /\ Last(p.hits) = R[n]
    BY <1>2, <1>5, <1>7, <2>4
  <2>6. <<R[n], R[k]>> \in less
    BY <1>1, <1>8, <2>3, <2>5
  <2> QED BY <2>1, <2>4, <2>5, <2>6
<1>11. ASSUME NEW i \in DOMAIN p.hits, NEW j \in DOMAIN p.hits, i < j
       PROVE  <<p.hits[i], p.hits[j]>> \in less
  <2>1. i \in DOMAIN R /\ j \in DOMAIN R /\ p.hits[i] = R[i] /\ p.hits[j] = R[j]
    BY <1>6, <1>8
  <2>2. <<R[i], R[j]>> \in less
    BY <1>1, <1>11, <2>1
  <2> QED BY <2>1, <2>2
<1> QED BY <1>5, <1>6, <1>7, <1>9, <1>10, <1>11 DEF p, R

(* The keyset predicate of each statement. *)
Past(d, r, c, entries, x) ==
  CASE r.target = "records" -> After(d, x, Plan(r, c, entries))
    [] r.target = "runs" -> RunAfter(d, x, Plan(r, c, entries), Scope(d, r, r.caller))
    [] r.target = "list" -> ListBefore(c.id, x, r.sort)
    [] r.target = "audit" -> x < c.id
Found(d, r, c, entries, rows) ==
  {x \in RowsOf(d, r, entries, rows) : c # None => Past(d, r, c, entries, x)}

(* A page is the first of the rows past its cursor, whatever the request is for. *)
LEMMA PageFound ==
  ASSUME NEW r \in Requests, NEW d, NEW c, NEW entries, NEW rows
  PROVE  LET found == Found(d, r, c, entries, rows)
         IN PageIn(d, r, c, entries, rows) =
              PageOf(Ranked(found, {p \in found \X found : RowBefore(d, r, entries, p[1], p[2])}), r.limit)
<1> DEFINE found == Found(d, r, c, entries, rows)
           q == Plan(r, c, entries)
           first == Plan(r, None, entries)
<1>1. /\ q.filter = first.filter /\ q.sort = first.sort /\ q.version = first.version
      /\ q.cursor = c /\ q.limit = r.limit
  BY DEF Plan, Compile
<1>2. CASE r.target = "records"
  <2>1. PageIn(d, r, c, entries, rows) = Run(d, q, r.kind, r.caller)
    BY <1>2 DEF PageIn
  <2> HIDE DEF q, first
  <2>2. Matches(d, q, r.kind, r.caller) = Matches(d, first, r.kind, r.caller)
    BY <1>1 DEF Matches
  <2>3. found = {v \in Matches(d, q, r.kind, r.caller) : q.cursor # None => After(d, v, q)}
    BY <1>1, <1>2, <2>2 DEF Found, RowsOf, Past, q, first
  <2>4. {p \in found \X found : RowBefore(d, r, entries, p[1], p[2])}
          = {p \in found \X found : Before(d, p[1], p[2], q.sort)}
    BY <1>1, <1>2 DEF RowBefore, first
  <2> HIDE DEF found
  <2> QED BY <1>1, <2>1, <2>3, <2>4 DEF Run, found
<1>3. CASE r.target = "runs"
  <2> DEFINE scope == Scope(d, r, r.caller)
  <2>1. PageIn(d, r, c, entries, rows) = ProjectPage(d, q, scope)
    BY <1>3 DEF PageIn
  <2> HIDE DEF q, first, scope
  <2>2. RunMatches(d, q, scope) = RunMatches(d, first, scope)
    BY <1>1 DEF RunMatches
  <2>3. found = {x \in RunMatches(d, q, scope) : q.cursor # None => RunAfter(d, x, q, scope)}
    BY <1>1, <1>3, <2>2 DEF Found, RowsOf, Past, q, first, scope
  <2>4. {p \in found \X found : RowBefore(d, r, entries, p[1], p[2])}
          = {p \in found \X found : RunBefore(d, p[1], p[2], q.sort, scope)}
    BY <1>1, <1>3 DEF RowBefore, first, scope
  <2> HIDE DEF found
  <2> QED BY <1>1, <2>1, <2>3, <2>4 DEF ProjectPage, found
<1>4. CASE r.target = "list"
  <2>1. found = {x \in ListMatches(d, r) : c # None => ListBefore(c.id, x, r.sort)}
    BY <1>4 DEF Found, RowsOf, Past
  <2>2. {p \in found \X found : RowBefore(d, r, entries, p[1], p[2])}
          = {p \in found \X found : ListBefore(p[1], p[2], r.sort)}
    BY <1>4 DEF RowBefore
  <2> HIDE DEF found
  <2> QED BY <1>4, <2>1, <2>2 DEF PageIn, ListPage, found
<1>5. CASE r.target = "audit"
  <2>1. found = {x \in rows : c # None => x < c.id}
    BY <1>5 DEF Found, RowsOf, Past
  <2>2. {p \in found \X found : RowBefore(d, r, entries, p[1], p[2])}
          = {p \in found \X found : p[1] > p[2]}
    BY <1>5 DEF RowBefore
  <2> HIDE DEF found
  <2> QED BY <1>5, <2>1, <2>2 DEF PageIn, AuditPage, found
<1> QED BY <1>2, <1>3, <1>4, <1>5, ReadsAssumption

-----------------------------------------------------------------------------
(* The keyset predicates agree with the order of a request *)

(* What SQL compares with a key of the cursor, when neither is NULL. *)
LEMMA BeyondIsPrecedes ==
  ASSUME NEW ty, NEW a, NEW c, OfType(ty, a), Literal(c), c.t = ty, NEW dir \in {"asc", "desc"}
  PROVE  /\ (Operator(IF dir = "asc" THEN "gt" ELSE "lt", a, c) = "T") <=> (a # Null /\ Precedes(c, a, dir))
         /\ (Operator("eq", a, c) = "T") <=> (a # Null /\ a = c)
<1>1. CASE a = Null
  BY <1>1 DEF Operator, Null, Lit
<1>2. CASE a # Null
  <2>1. ty # "null" /\ a = Lit(ty, a.v) /\ a.t = ty
    BY <1>2 DEF OfType, ScalarTypes, ValueType, Lit
  <2>2. c # Null
    BY <2>1 DEF Null, Lit
  <2>3. c = Lit(ty, c.v)
    BY <2>2 DEF Literal, OfType
  <2>4. \A op : Operator(op, a, c) = "T" <=>
          IF op = "in" THEN \E i \in DOMAIN c.of : c.of[i].v = a.v ELSE Holds(op, a.v, c.v)
    BY <2>1 DEF Operator, Truth
  <2>5. (Operator("eq", a, c) = "T") <=> a = c
    <3>1. (Operator("eq", a, c) = "T") <=> a.v = c.v
      BY <2>4 DEF Holds
    <3> QED BY <2>1, <2>3, <3>1
  <2>6. (Operator("gt", a, c) = "T") <=> Less(c.v, a.v)
    BY <2>4 DEF Holds
  <2>7. (Operator("lt", a, c) = "T") <=> Less(a.v, c.v)
    BY <2>4 DEF Holds
  <2> QED BY <1>2, <2>1, <2>5, <2>6, <2>7 DEF Precedes
<1> QED BY <1>1, <1>2

(* The projection compares NULL keys too. *)
LEMMA KeyAfterIsPrecedes ==
  ASSUME NEW a, NEW c, Literal(a), Literal(c), NEW dir \in {"asc", "desc"}
  PROVE  KeyAfter(a, c, dir) <=> Precedes(c, a, dir)
<1>1. (a.t = "null" <=> a = Null) /\ (c.t = "null" <=> c = Null)
  BY DEF Literal, OfType, ScalarTypes, ValueType, Null, Lit
<1> QED BY <1>1 DEF KeyAfter, Precedes

(* The rows whose keys the record query compares. *)
Full(r, keys) == r.target = "records" => \A i \in DOMAIN r.sort : keys[i] # Null

(* What a keyset predicate finds comes after the cursor; of the rows that come after
   it, those it misses have a NULL key, and the run projection misses none. *)
LEMMA PastIsAfter ==
  ASSUME NEW r \in Requests, Keyset(r), NEW d, Sound(d), NEW entries, NEW rows \in SUBSET AuditIds,
         NEW c, c # None, Accepted(d, r, c, entries), Renderable(r, c, entries),
         Fit(r, c.keys, c.id),
         NEW x \in RowsOf(d, r, entries, rows)
  PROVE  LET keys == KeysOf(d, r, SortOf(r, entries), x)
         IN /\ Past(d, r, c, entries, x) => RowOrder(r, c.keys, c.id, keys, x)
            /\ Full(r, keys) /\ RowOrder(r, c.keys, c.id, keys, x) => Past(d, r, c, entries, x)
<1> DEFINE q == Plan(r, c, entries)
           first == Plan(r, None, entries)
           keys == KeysOf(d, r, SortOf(r, entries), x)
           n == Len(r.sort)
<1>1. /\ Accepted(d, r, None, entries) /\ Renderable(r, None, entries)
      /\ first.sort = q.sort /\ q.cursor = c
  BY AcceptedFirst DEF Plan, Compile
<1>2. Fit(r, keys, x) /\ Typed(r, entries, keys)
  BY <1>1, RowsFit
<1>3. ASSUME Queried(r)
      PROVE  /\ n \in Nat /\ DOMAIN r.sort = 1..n /\ DOMAIN q.sort = 1..n /\ DOMAIN Dirs(r) = 1..n
             /\ \A i \in 1..n : Dirs(r)[i] = q.sort[i].dir /\ q.sort[i].dir \in {"asc", "desc"}
             /\ (q.sort = <<>> <=> r.sort = <<>>) /\ (r.sort # <<>> => Last(q.sort).dir = Last(r.sort).dir)
             /\ KeyTuple(c.keys, n) /\ KeyTuple(keys, n)
             /\ SortOf(r, entries) = q.sort
             /\ RowOrder(r, c.keys, c.id, keys, x) <=>
                  TupleBefore(c.keys, c.id, keys, x, Dirs(r), TieOf(r))
  <2>1. /\ n \in Nat /\ DOMAIN r.sort = 1..n /\ DOMAIN q.sort = 1..n
        /\ \A i \in 1..n : q.sort[i].dir = r.sort[i].dir /\ q.sort[i].dir \in {"asc", "desc"}
        /\ (q.sort = <<>> <=> r.sort = <<>>) /\ (r.sort # <<>> => Last(q.sort).dir = Last(r.sort).dir)
    BY <1>3, SortIs
  <2>2. KeyTuple(c.keys, n) /\ KeyTuple(keys, n)
    BY <1>2, <1>3 DEF Fit
  <2>3. SortOf(r, entries) = q.sort
    BY <1>1, <1>3 DEF SortOf
  <2>4. DOMAIN Dirs(r) = 1..n /\ \A i \in 1..n : Dirs(r)[i] = q.sort[i].dir
    BY <2>1 DEF Dirs
  <2>5. RowOrder(r, c.keys, c.id, keys, x) <=> TupleBefore(c.keys, c.id, keys, x, Dirs(r), TieOf(r))
    BY <1>3 DEF RowOrder, Queried
  <2> HIDE DEF q, keys, n
  <2> QED BY <2>1, <2>2, <2>3, <2>4, <2>5
<1>4. CASE r.target = "records"
  <2> DEFINE beyond(i) == Operator(IF q.sort[i].dir = "asc" THEN "gt" ELSE "lt", keys[i], c.keys[i]) = "T"
             equal(i) == Operator("eq", keys[i], c.keys[i]) = "T"
  <2>1. Queried(r)
    BY <1>4 DEF Queried
  <2>2. \A i \in 1..n : c.keys[i].t = KeyType(q.sort[i].key) /\ KeyTypes(r, entries)[i] = KeyType(q.sort[i].key)
    <3>1. Supported(q)
      BY <1>4 DEF Renderable
    <3>2. \A i \in DOMAIN q.sort : Binds(KeyType(q.sort[i].key), c.keys[i])
      BY <1>1, <3>1 DEF Supported, CursorBinds
    <3> HIDE DEF q, n
    <3> QED BY <1>1, <1>3, <1>4, <2>1, <3>2 DEF Binds, KeyTypes, first
  <2>3. \A i \in 1..n : Literal(c.keys[i]) /\ OfType(c.keys[i].t, keys[i])
    <3> HIDE DEF q, n, keys
    <3> QED BY <1>2, <1>3, <2>1, <2>2 DEF KeyTuple, Typed
  <2>4. keys = Keys(d, x, q.sort)
    BY <1>3, <1>4, <2>1 DEF KeysOf
  <2>5. Past(d, r, c, entries, x) = After(d, x, q)
    BY <1>4 DEF Past
  <2>6. Direction(q.sort) = TieOf(r)
    <3> HIDE DEF q, n, keys
    <3> QED BY <1>3, <1>4, <2>1 DEF Direction, TieOf, Keyset
  <2>7. Full(r, keys) <=> \A i \in 1..n : keys[i] # Null
    BY <1>3, <1>4, <2>1 DEF Full
  <2> HIDE DEF q, n, keys
  <2>8. After(d, x, q) <=>
          \/ \E i \in 1..n : beyond(i) /\ \A j \in 1..(i - 1) : equal(j)
          \/ (\A i \in 1..n : equal(i)) /\ IdBefore(c.id, x, TieOf(r))
    BY <1>1, <1>3, <2>1, <2>4, <2>6 DEF After
  <2>9. \A i \in 1..n : /\ beyond(i) <=> (keys[i] # Null /\ Precedes(c.keys[i], keys[i], Dirs(r)[i]))
                        /\ equal(i) <=> (keys[i] # Null /\ keys[i] = c.keys[i])
    <3> TAKE i \in 1..n
    <3>1. /\ Literal(c.keys[i]) /\ OfType(c.keys[i].t, keys[i])
          /\ q.sort[i].dir \in {"asc", "desc"} /\ Dirs(r)[i] = q.sort[i].dir
      BY <1>3, <2>1, <2>3
    <3> QED BY <3>1, BeyondIsPrecedes
  <2> HIDE DEF beyond, equal
  <2>10. TupleBefore(c.keys, c.id, keys, x, Dirs(r), TieOf(r)) <=>
           \/ \E i \in 1..n : Precedes(c.keys[i], keys[i], Dirs(r)[i]) /\ \A j \in 1..(i - 1) : c.keys[j] = keys[j]
           \/ (\A i \in 1..n : keys[i] = c.keys[i]) /\ IdBefore(c.id, x, TieOf(r))
    <3>1. (\A i \in 1..n : keys[i] = c.keys[i]) <=> c.keys = keys
      <4>1. (\A i \in 1..n : keys[i] = c.keys[i]) => [i \in 1..n |-> keys[i]] = [i \in 1..n |-> c.keys[i]]
        OBVIOUS
      <4> QED BY <1>3, <2>1, <4>1 DEF KeyTuple
    <3> QED BY <1>3, <2>1, <3>1 DEF TupleBefore, KeysBefore
  <2>11. \A i \in 1..n : \A j \in 1..(i - 1) : j \in 1..n
    BY <1>3, <2>1
  <2>12. After(d, x, q) => TupleBefore(c.keys, c.id, keys, x, Dirs(r), TieOf(r))
    BY <2>8, <2>9, <2>10, <2>11
  <2>13. Full(r, keys) /\ TupleBefore(c.keys, c.id, keys, x, Dirs(r), TieOf(r)) => After(d, x, q)
    BY <2>7, <2>8, <2>9, <2>10, <2>11
  <2> QED BY <1>3, <2>1, <2>5, <2>12, <2>13 DEF keys
<1>5. CASE r.target = "runs"
  <2> DEFINE scope == Scope(d, r, r.caller)
  <2>1. Queried(r)
    BY <1>5 DEF Queried
  <2>2. keys = RunKeys(d, x, q.sort, scope)
    BY <1>3, <1>5, <2>1 DEF KeysOf
  <2>3. Past(d, r, c, entries, x) = RunAfter(d, x, q, scope)
    BY <1>5 DEF Past
  <2> HIDE DEF q, n, keys, scope
  <2>4. Tiebreak(q.sort) = TieOf(r)
    BY <1>3, <2>1 DEF Tiebreak, TieOf
  <2>5. \A i \in 1..n : KeyAfter(keys[i], c.keys[i], q.sort[i].dir) <=> Precedes(c.keys[i], keys[i], Dirs(r)[i])
    BY <1>3, <2>1, KeyAfterIsPrecedes DEF KeyTuple
  <2>6. RunAfter(d, x, q, scope) <=> TupleBefore(c.keys, c.id, keys, x, Dirs(r), TieOf(r))
    BY <1>1, <1>3, <2>1, <2>2, <2>4, <2>5 DEF RunAfter, TupleBefore, KeysBefore
  <2> QED BY <1>3, <2>1, <2>3, <2>6 DEF keys
<1>6. CASE r.target = "list"
  BY <1>6 DEF Past, RowOrder, Queried
<1>7. CASE r.target = "audit"
  BY <1>2, <1>7 DEF Past, RowOrder, Queried, Fit
<1> QED BY <1>4, <1>5, <1>6, <1>7, ReadsAssumption

KeysIn(d, r, entries, x) == KeysOf(d, r, SortOf(r, entries), x)

(* A page is in order, past its cursor, and complete up to its last row. *)
LEMMA PageHolds ==
  ASSUME NEW r \in Requests, Keyset(r), NEW d, Sound(d), NEW entries, NEW rows \in SUBSET AuditIds,
         NEW c, Accepted(d, r, c, entries), Renderable(r, c, entries),
         c # None => Fit(r, c.keys, c.id)
  PROVE  LET p == PageIn(d, r, c, entries, rows)
             hits == p.hits
             rs == RowsOf(d, r, entries, rows)
             K(x) == KeysIn(d, r, entries, x)
         IN /\ hits \in Seq(rs)
            /\ \A i, j \in DOMAIN hits : i < j => RowOrder(r, K(hits[i]), hits[i], K(hits[j]), hits[j])
            /\ p.more => hits # <<>>
            /\ \A i \in DOMAIN hits :
                 hits[i] = Last(hits) \/ RowOrder(r, K(hits[i]), hits[i], K(Last(hits)), Last(hits))
            /\ c # None => \A i \in DOMAIN hits : RowOrder(r, c.keys, c.id, K(hits[i]), hits[i])
            /\ \A x \in rs :
                 (c # None => Full(r, K(x)) /\ RowOrder(r, c.keys, c.id, K(x), x))
                   => \/ \E i \in DOMAIN hits : hits[i] = x
                      \/ p.more /\ RowOrder(r, K(Last(hits)), Last(hits), K(x), x)
<1> DEFINE p == PageIn(d, r, c, entries, rows)
           rs == RowsOf(d, r, entries, rows)
           K(x) == KeysIn(d, r, entries, x)
           found == Found(d, r, c, entries, rows)
           less == {e \in found \X found : RowBefore(d, r, entries, e[1], e[2])}
<1>1. Accepted(d, r, None, entries) /\ Renderable(r, None, entries)
  BY AcceptedFirst
<1>2. IsFiniteSet(rs) /\ \A x \in rs : Fit(r, K(x), x) /\ Typed(r, entries, K(x))
  BY <1>1, RowsFit DEF KeysIn
<1>3. found \subseteq rs /\ IsFiniteSet(found)
  <2>1. found \subseteq rs
    BY DEF Found
  <2> HIDE DEF found
  <2> QED BY <1>2, <2>1, FS_Subset
<1>4. \A x, y : RowBefore(d, r, entries, x, y) <=> RowOrder(r, K(x), x, K(y), y)
  BY BeforeIsOrder DEF KeysIn
<1>5. p = PageOf(Ranked(found, less), r.limit)
  BY PageFound
<1>6. r.limit \in Nat \ {0}
  BY ReadsAssumption
<1>7. \A x \in rs : c # None => /\ Past(d, r, c, entries, x) => RowOrder(r, c.keys, c.id, K(x), x)
                                /\ Full(r, K(x)) /\ RowOrder(r, c.keys, c.id, K(x), x)
                                     => Past(d, r, c, entries, x)
  BY PastIsAfter DEF KeysIn
<1>8. \A x \in rs : x \in found <=> (c # None => Past(d, r, c, entries, x))
  BY DEF Found
<1> HIDE DEF p, rs, K, found
<1>9. \A x \in found, y \in found : <<x, y>> \in less <=> RowOrder(r, K(x), x, K(y), y)
  BY <1>4
<1>10. \A x \in found : <<x, x>> \notin less
  <2> TAKE x \in found
  <2>1. ~RowOrder(r, K(x), x, K(x), x)
    BY <1>2, <1>3, RowOrderStrict
  <2> QED BY <1>9, <2>1
<1>11. \A x \in found, y \in found, z \in found : <<x, y>> \in less /\ <<y, z>> \in less => <<x, z>> \in less
  <2> TAKE x \in found, y \in found, z \in found
  <2>1. RowOrder(r, K(x), x, K(y), y) /\ RowOrder(r, K(y), y, K(z), z) => RowOrder(r, K(x), x, K(z), z)
    BY <1>2, <1>3, RowOrderStrict
  <2> HIDE DEF less
  <2> QED BY <1>9, <2>1
<1>12. \A x \in found, y \in found : x # y => <<x, y>> \in less \/ <<y, x>> \in less
  <2> TAKE x \in found, y \in found
  <2>1. x # y => RowOrder(r, K(x), x, K(y), y) \/ RowOrder(r, K(y), y, K(x), x)
    BY <1>2, <1>3, RowOrderTotal
  <2> HIDE DEF less
  <2> QED BY <1>9, <2>1
<1> HIDE DEF less
<1>13. /\ p.hits \in Seq(found)
       /\ \A i, j \in DOMAIN p.hits : i < j => <<p.hits[i], p.hits[j]>> \in less
       /\ p.more => p.hits # <<>>
       /\ \A i \in DOMAIN p.hits : p.hits[i] = Last(p.hits) \/ <<p.hits[i], Last(p.hits)>> \in less
       /\ \A x \in found : (\E i \in DOMAIN p.hits : p.hits[i] = x)
                           \/ (p.more /\ <<Last(p.hits), x>> \in less)
  BY <1>3, <1>5, <1>6, <1>10, <1>11, <1>12, PageSorted
<1>14. /\ \A i \in DOMAIN p.hits : p.hits[i] \in found
       /\ p.hits # <<>> => Last(p.hits) \in found
  BY <1>13 DEF Last
<1>15. p.hits \in Seq(rs)
  BY <1>3, <1>13
<1>16. \A i, j \in DOMAIN p.hits : i < j => RowOrder(r, K(p.hits[i]), p.hits[i], K(p.hits[j]), p.hits[j])
  BY <1>9, <1>13, <1>14
<1>17. \A i \in DOMAIN p.hits :
         p.hits[i] = Last(p.hits) \/ RowOrder(r, K(p.hits[i]), p.hits[i], K(Last(p.hits)), Last(p.hits))
  <2>1. \A i \in DOMAIN p.hits : p.hits # <<>>
    BY <1>13
  <2> QED BY <1>9, <1>13, <1>14, <2>1
<1>18. c # None => \A i \in DOMAIN p.hits : RowOrder(r, c.keys, c.id, K(p.hits[i]), p.hits[i])
  BY <1>3, <1>7, <1>8, <1>14
<1>19. ASSUME NEW x \in rs, c # None => Full(r, K(x)) /\ RowOrder(r, c.keys, c.id, K(x), x)
       PROVE  \/ \E i \in DOMAIN p.hits : p.hits[i] = x
              \/ p.more /\ RowOrder(r, K(Last(p.hits)), Last(p.hits), K(x), x)
  <2>1. x \in found
    BY <1>7, <1>8, <1>19
  <2> QED BY <1>9, <1>13, <1>14, <2>1
<1> QED BY <1>13, <1>15, <1>16, <1>17, <1>18, <1>19 DEF p, rs, K

-----------------------------------------------------------------------------
(* The walk *)

(* What is delivered once the page in hand is, and where the walk goes on. *)
Coming == IF Reading THEN seen \o page.hits ELSE seen
Border == IF Reading THEN page.next ELSE cursor

SoundInv == req \in Requests /\ Sound(db) /\ log \subseteq AuditIds /\ key \in Nat
SteadyNow == \A x \in DOMAIN steady :
  /\ Accepted(db, req, None, applied) /\ Renderable(req, None, applied)
  /\ x \in RowsOf(db, req, applied, log) /\ steady[x] = KeysIn(db, req, applied, x)
(* Rows with such keys have come in order, none of them past the border, and
   those not past it have all come. *)
Ordered(r, keys, coming) == \A i, j \in DOMAIN coming :
  i < j /\ coming[i] \in DOMAIN keys /\ coming[j] \in DOMAIN keys
    => RowOrder(r, keys[coming[i]], coming[i], keys[coming[j]], coming[j])
Behind(r, keys, coming, border) == border # None =>
  /\ Fit(r, border.keys, border.id)
  /\ \A i \in DOMAIN coming : coming[i] \in DOMAIN keys =>
       \/ coming[i] = border.id /\ keys[coming[i]] = border.keys
       \/ RowOrder(r, keys[coming[i]], coming[i], border.keys, border.id)
Ahead(r, keys, coming, border) == \A x \in DOMAIN keys : Full(r, keys[x]) =>
  \/ \E i \in DOMAIN coming : coming[i] = x
  \/ border # None /\ RowOrder(r, border.keys, border.id, keys[x], x)
WalkInv ==
  /\ Keyset(req) =>
       /\ seen \in Seq(Int) /\ (Reading => page.hits \in Seq(Int))
       /\ Ordered(req, steady, Coming) /\ Behind(req, steady, Coming, Border)
       /\ phase \notin {"refused", "failed"} /\ ~AtStart => Ahead(req, steady, Coming, Border)
  /\ AtStart => seen = <<>>
  /\ phase = "done" => cursor = None

(* The snapshots a walk begins in are sound, *)
LEMMA SoundInvInit == Init => SoundInv
<1> SUFFICES ASSUME Init PROVE SoundInv
  OBVIOUS
<1>1. PICK s \in Starts : live = s.live /\ dead = s.dead /\ public = s.public
                          /\ runs = s.runs /\ log = s.log /\ applied = s.applied
  BY DEF Init
<1>2. s.live \subseteq DOMAIN Content
  BY StoreAssumption
<1>3. /\ s.log \subseteq AuditIds /\ DOMAIN s.runs \subseteq Int /\ IsFiniteSet(DOMAIN s.runs)
      /\ \A r \in DOMAIN s.runs : s.runs[r].state = "absent" \/ Carries(s.runs[r].is)
  BY RowsAssumption
<1> QED BY <1>1, <1>2, <1>3 DEF Init, SoundInv, Sound, db

(* and writes keep them so. *)
LEMMA SoundInvNext == StoreInv /\ SoundInv /\ [Next]_vars => SoundInv'
<1> SUFFICES ASSUME StoreInv, SoundInv, [Next]_vars PROVE SoundInv'
  OBVIOUS
<1> USE DEF SoundInv, Sound, db
<1>1. CASE Handler
  BY <1>1 DEF Handler, Refuse, Fail, Select, ReadHiddenTargets, ReadHiddenEvals, Respond, world
<1>2. ASSUME NEW v \in DOMAIN Content, Commit(v) PROVE SoundInv'
  BY <1>2 DEF Commit, Elsewhere, walk
<1>3. ASSUME NEW v \in DOMAIN Content, Tombstone(v) PROVE SoundInv'
  BY <1>3 DEF Tombstone, Elsewhere, walk
<1>4. ASSUME NEW x \in Records, SetVisibility(x) PROVE SoundInv'
  BY <1>4 DEF SetVisibility, Elsewhere, walk
<1>5. ASSUME NEW r \in DOMAIN runs, NEW is \in RunContents, WriteRun(r, is) PROVE SoundInv'
  <2>1. Carries(is.is)
    BY RowsAssumption
  <2>2. /\ DOMAIN runs' = DOMAIN runs
        /\ \A x \in DOMAIN runs : runs'[x] = IF x = r
             THEN [state |-> IF runs[r].state = "absent" THEN "live" ELSE runs[r].state,
                   hash |-> is.hash, is |-> is.is]
             ELSE runs[x]
    BY <1>5 DEF WriteRun
  <2>3. \A x \in DOMAIN runs : runs'[x].state = "absent" \/ Carries(runs'[x].is)
    BY <2>1, <2>2
  <2> QED BY <1>5, <2>2, <2>3 DEF WriteRun, Elsewhere, walk
<1>6. ASSUME NEW r \in DOMAIN runs, NEW state \in {"live", "archived", "deleted"},
             SetRunState(r, state)
      PROVE  SoundInv'
  <2>1. runs[r].state # "absent"
    BY <1>6 DEF SetRunState
  <2>2. /\ DOMAIN runs' = DOMAIN runs
        /\ \A x \in DOMAIN runs : runs'[x] = IF x = r THEN [runs[r] EXCEPT !.state = state] ELSE runs[x]
    BY <1>6 DEF SetRunState
  <2>3. \A x \in DOMAIN runs : runs'[x].state = "absent" \/ Carries(runs'[x].is)
    <3>1. DOMAIN runs[r] = {"state", "hash", "is"}
      BY DEF StoreInv
    <3>2. [runs[r] EXCEPT !.state = state].is = runs[r].is
      BY <3>1
    <3> QED BY <2>1, <2>2, <3>2
  <2> QED BY <1>6, <2>2, <2>3 DEF SetRunState, Elsewhere, walk
<1>7. ASSUME NEW i \in AuditIds, Audit(i) PROVE SoundInv'
  BY <1>7 DEF Audit, Elsewhere, walk
<1>8. ASSUME NEW e \in Schemas, Apply(e) PROVE SoundInv'
  BY <1>8 DEF Apply, Elsewhere, walk
<1>9. CASE Restart
  BY <1>9 DEF Restart, Elsewhere, walk
<1>10. CASE UNCHANGED vars
  BY <1>10 DEF vars, world, walk
<1> QED BY <1>1, <1>2, <1>3, <1>4, <1>5, <1>6, <1>7, <1>8, <1>9, <1>10 DEF Next, Others

(* The history begins with the rows that match. *)
LEMMA SteadyInit == Init => SteadyNow
<1> SUFFICES ASSUME Init PROVE SteadyNow
  OBVIOUS
<1>1. steady = Steady(req)
  BY DEF Init
<1>2. CASE Accepted(db, req, None, applied) /\ Renderable(req, None, applied)
  BY <1>1, <1>2 DEF Steady, SteadyNow, KeysIn
<1>3. CASE ~(Accepted(db, req, None, applied) /\ Renderable(req, None, applied))
  BY <1>1, <1>3 DEF Steady, SteadyNow
<1> QED BY <1>2, <1>3

(* Whatever is written, a row that still counts as steady matches as it did. *)
LEMMA SteadyElsewhere ==
  Elsewhere => /\ SteadyNow'
               /\ \A x \in DOMAIN steady' : x \in DOMAIN steady /\ steady'[x] = steady[x]
<1> SUFFICES ASSUME Elsewhere
             PROVE  /\ SteadyNow'
                    /\ \A x \in DOMAIN steady' : x \in DOMAIN steady /\ steady'[x] = steady[x]
  OBVIOUS
<1>1. req' = req
  BY DEF Elsewhere, walk
<1>2. CASE Accepted(db', req, None, applied') /\ Renderable(req, None, applied')
  <2> DEFINE rows == RowsOf(db', req, applied', log')
             sort == SortOf(req, applied')
             still == {x \in DOMAIN steady \cap rows : KeysOf(db', req, sort, x) = steady[x]}
  <2>1. steady' = [x \in still |-> steady[x]]
    BY <1>2 DEF Elsewhere, StillSteady
  <2>2. \A x \in DOMAIN steady' : x \in DOMAIN steady /\ x \in rows /\ steady'[x] = steady[x]
                                  /\ steady'[x] = KeysIn(db', req, applied', x)
    BY <2>1 DEF KeysIn
  <2> HIDE DEF rows
  <2>3. SteadyNow'
    BY <1>1, <1>2, <2>2 DEF SteadyNow, rows
  <2> QED BY <2>2, <2>3
<1>3. CASE ~(Accepted(db', req, None, applied') /\ Renderable(req, None, applied'))
  <2>1. steady' = <<>>
    BY <1>3 DEF Elsewhere
  <2> QED BY <2>1 DEF SteadyNow
<1> QED BY <1>2, <1>3

(* A cursor is not the absence of one. *)
LEMMA CursorIsSome ==
  ASSUME NEW r \in Requests, NEW d, Sound(d), NEW entries, NEW rows \in SUBSET AuditIds,
         Accepted(d, r, None, entries), Renderable(r, None, entries),
         NEW x \in RowsOf(d, r, entries, rows), NEW k \in Nat
  PROVE  [keys |-> KeysIn(d, r, entries, x), id |-> x, key |-> k] # None
<1> DEFINE keys == KeysIn(d, r, entries, x)
           Key == [t : ScalarTypes \cup {"null"}, v : Seq(Int)] \cup Int
<1>1. Fit(r, keys, x)
  BY RowsFit DEF KeysIn
<1>2. keys \in Seq(Key)
  <2>1. CASE Queried(r)
    <3>1. Len(r.sort) \in Nat /\ keys = [i \in 1..Len(r.sort) |-> keys[i]]
          /\ \A i \in 1..Len(r.sort) : Literal(keys[i])
      BY <1>1, <2>1, SortIs DEF Fit, KeyTuple
    <3>2. \A y : Literal(y) => y \in Key
      <4> TAKE y
      <4>1. Null \in Key
        BY DEF Null, Lit
      <4>2. ASSUME y.t \in ScalarTypes, y = Lit(y.t, y.v), y.v \in Seq(Int) PROVE y \in Key
        <5>1. Lit(y.t, y.v) \in [t : ScalarTypes \cup {"null"}, v : Seq(Int)]
          BY <4>2 DEF Lit
        <5> QED BY <4>2, <5>1
      <4> HIDE DEF Key
      <4> QED BY <4>1, <4>2 DEF Literal, OfType
    <3> HIDE DEF keys, Key
    <3>3. \A i \in 1..Len(r.sort) : keys[i] \in Key
      BY <3>1, <3>2
    <3> QED BY <3>1, <3>3
  <2>2. CASE r.target = "list"
    <3>1. x \in Records
      BY <1>1, <2>2 DEF Fit
    <3>2. keys = <<Created[x], Name[x]>>
      BY <2>2 DEF KeysIn, KeysOf
    <3>3. Created[x] \in Int /\ Name[x] \in Int
      BY <3>1, RowsAssumption
    <3> HIDE DEF keys
    <3> QED BY <3>2, <3>3
  <2>3. CASE r.target = "audit"
    <3>1. keys = <<>>
      BY <2>3 DEF KeysIn, KeysOf
    <3> HIDE DEF keys
    <3> QED BY <3>1
  <2> QED BY <2>1, <2>2, <2>3, ReadsAssumption DEF Queried
<1>3. None \notin [keys : Seq(Key), id : Int, key : Nat]
  BY RowsAssumption
<1>4. x \in Int
  BY <1>1 DEF Fit
<1> HIDE DEF keys, Key
<1>5. [keys |-> keys, id |-> x, key |-> k] \in [keys : Seq(Key), id : Int, key : Nat]
  BY <1>2, <1>4
<1> QED BY <1>3, <1>5 DEF keys

(* A page carries the walk on. *)
LEMMA Extended ==
  ASSUME SoundInv, SteadyNow, WalkInv, Keyset(req), phase = "walking",
         Accepted(db, req, cursor, applied), Renderable(req, cursor, applied)
  PROVE  LET p == PageIn(db, req, cursor, applied, log)
             coming == seen \o p.hits
         IN /\ p.hits \in Seq(Int) /\ coming \in Seq(Int)
            /\ Ordered(req, steady, coming) /\ Behind(req, steady, coming, Continue(p))
            /\ Ahead(req, steady, coming, Continue(p))
<1> DEFINE p == PageIn(db, req, cursor, applied, log)
           hits == p.hits
           next == Continue(p)
           coming == seen \o hits
           rs == RowsOf(db, req, applied, log)
           K(x) == KeysIn(db, req, applied, x)
<1>1. /\ req \in Requests /\ Sound(db) /\ log \in SUBSET AuditIds /\ key \in Nat
      /\ Accepted(db, req, None, applied) /\ Renderable(req, None, applied)
  BY AcceptedFirst DEF SoundInv
<1>2. /\ seen \in Seq(Int) /\ Ordered(req, steady, seen) /\ Behind(req, steady, seen, cursor)
      /\ cursor # None => Ahead(req, steady, seen, cursor)
      /\ cursor = None => seen = <<>>
  BY DEF WalkInv, Coming, Border, Reading, AtStart
<1>3. cursor # None => Fit(req, cursor.keys, cursor.id)
  BY <1>2 DEF Behind
<1>4. /\ hits \in Seq(rs)
      /\ \A i, j \in DOMAIN hits : i < j => RowOrder(req, K(hits[i]), hits[i], K(hits[j]), hits[j])
      /\ p.more => hits # <<>>
      /\ \A i \in DOMAIN hits :
           hits[i] = Last(hits) \/ RowOrder(req, K(hits[i]), hits[i], K(Last(hits)), Last(hits))
      /\ cursor # None => \A i \in DOMAIN hits : RowOrder(req, cursor.keys, cursor.id, K(hits[i]), hits[i])
      /\ \A x \in rs :
           (cursor # None => Full(req, K(x)) /\ RowOrder(req, cursor.keys, cursor.id, K(x), x))
             => \/ \E i \in DOMAIN hits : hits[i] = x
                \/ p.more /\ RowOrder(req, K(Last(hits)), Last(hits), K(x), x)
  BY <1>1, <1>3, PageHolds
<1>5. \A x \in rs : Fit(req, K(x), x) /\ x \in Int
  BY <1>1, RowsFit DEF KeysIn, Fit
<1>6. \A x \in DOMAIN steady : x \in rs /\ steady[x] = K(x)
  BY DEF SteadyNow
<1>7. \A x \in rs : [keys |-> K(x), id |-> x, key |-> key] # None
  BY <1>1, CursorIsSome
<1>8. next = IF ~p.more THEN None ELSE [keys |-> K(Last(hits)), id |-> Last(hits), key |-> key]
  BY DEF Continue, KeysIn
<1> HIDE DEF p, hits, next, rs, K
<1>9. hits # <<>> => Last(hits) \in rs
  BY <1>4 DEF Last
<1>10. p.more => next # None /\ next.keys = K(Last(hits)) /\ next.id = Last(hits) /\ Last(hits) \in rs
  BY <1>4, <1>7, <1>8, <1>9
<1>11. hits \in Seq(Int)
  BY <1>4, <1>5
<1>12. /\ coming \in Seq(Int)
       /\ \A i \in DOMAIN coming : \/ i \in DOMAIN seen /\ coming[i] = seen[i]
                                   \/ /\ i - Len(seen) \in DOMAIN hits /\ i > Len(seen)
                                      /\ coming[i] = hits[i - Len(seen)]
       /\ \A i \in DOMAIN seen : i \in DOMAIN coming /\ coming[i] = seen[i] /\ i <= Len(seen)
       /\ \A i \in DOMAIN hits : Len(seen) + i \in DOMAIN coming /\ coming[Len(seen) + i] = hits[i]
  BY <1>2, <1>11
<1>13. Len(seen) \in Nat /\ DOMAIN coming \subseteq Int /\ \A i \in DOMAIN seen : cursor # None
  BY <1>2, <1>12
<1> HIDE DEF coming
<1>14. \A i \in DOMAIN hits : hits[i] \in rs
  BY <1>4
<1>15. ASSUME NEW i \in DOMAIN seen, seen[i] \in DOMAIN steady, NEW y \in rs,
              RowOrder(req, cursor.keys, cursor.id, K(y), y)
       PROVE  RowOrder(req, steady[seen[i]], seen[i], K(y), y)
  <2>1. \/ seen[i] = cursor.id /\ steady[seen[i]] = cursor.keys
        \/ RowOrder(req, steady[seen[i]], seen[i], cursor.keys, cursor.id)
    BY <1>2, <1>13, <1>15 DEF Behind
  <2>2. Fit(req, steady[seen[i]], seen[i]) /\ Fit(req, cursor.keys, cursor.id) /\ Fit(req, K(y), y)
    BY <1>3, <1>5, <1>6, <1>13, <1>15
  <2> QED BY <1>1, <1>15, <2>1, <2>2, RowOrderStrict
<1>16. Ordered(req, steady, coming)
  <2> SUFFICES ASSUME NEW i \in DOMAIN coming, NEW j \in DOMAIN coming, i < j,
                      coming[i] \in DOMAIN steady, coming[j] \in DOMAIN steady
               PROVE  RowOrder(req, steady[coming[i]], coming[i], steady[coming[j]], coming[j])
    BY DEF Ordered
  <2>1. CASE i \in DOMAIN seen /\ j \in DOMAIN seen
    <3>1. coming[i] = seen[i] /\ coming[j] = seen[j]
      BY <1>12, <2>1
    <3> QED BY <1>2, <2>1, <3>1 DEF Ordered
  <2>2. CASE i \in DOMAIN seen /\ j \notin DOMAIN seen
    <3>1. coming[i] = seen[i] /\ j - Len(seen) \in DOMAIN hits /\ coming[j] = hits[j - Len(seen)]
      BY <1>12, <2>2
    <3>2. RowOrder(req, cursor.keys, cursor.id, K(coming[j]), coming[j]) /\ coming[j] \in rs
      BY <1>4, <1>13, <1>14, <2>2, <3>1
    <3>3. RowOrder(req, steady[seen[i]], seen[i], K(coming[j]), coming[j])
      BY <1>15, <2>2, <3>1, <3>2
    <3> QED BY <1>6, <3>1, <3>3
  <2>3. CASE i \notin DOMAIN seen
    <3>1. i > Len(seen) /\ i - Len(seen) \in DOMAIN hits /\ coming[i] = hits[i - Len(seen)]
      BY <1>12, <2>3
    <3>2. j \notin DOMAIN seen
      BY <1>12, <1>13, <3>1
    <3>3. j - Len(seen) \in DOMAIN hits /\ coming[j] = hits[j - Len(seen)]
      BY <1>12, <3>2
    <3>4. i - Len(seen) < j - Len(seen)
      BY <1>13
    <3>5. RowOrder(req, K(coming[i]), coming[i], K(coming[j]), coming[j])
      BY <1>4, <3>1, <3>3, <3>4
    <3> QED BY <1>6, <3>5
  <2> QED BY <2>1, <2>2, <2>3
<1>17. Behind(req, steady, coming, next)
  <2> SUFFICES ASSUME p.more
               PROVE  /\ Fit(req, next.keys, next.id)
                      /\ \A i \in DOMAIN coming : coming[i] \in DOMAIN steady =>
                           \/ coming[i] = next.id /\ steady[coming[i]] = next.keys
                           \/ RowOrder(req, steady[coming[i]], coming[i], next.keys, next.id)
    BY <1>8 DEF Behind
  <2>1. Fit(req, next.keys, next.id)
    BY <1>5, <1>10
  <2>2. PICK m \in DOMAIN hits : hits[m] = Last(hits)
    BY <1>4 DEF Last
  <2> SUFFICES ASSUME NEW i \in DOMAIN coming, coming[i] \in DOMAIN steady
               PROVE  \/ coming[i] = next.id /\ steady[coming[i]] = next.keys
                      \/ RowOrder(req, steady[coming[i]], coming[i], next.keys, next.id)
    BY <2>1
  <2>3. CASE i \in DOMAIN seen
    <3>1. coming[i] = seen[i] /\ cursor # None
      BY <1>12, <1>13, <2>3
    <3>2. RowOrder(req, cursor.keys, cursor.id, K(Last(hits)), Last(hits))
      BY <1>4, <2>2, <3>1
    <3>3. RowOrder(req, steady[seen[i]], seen[i], K(Last(hits)), Last(hits))
      BY <1>10, <1>15, <2>3, <3>1, <3>2
    <3> QED BY <1>10, <3>1, <3>3
  <2>4. CASE i \notin DOMAIN seen
    <3>1. i - Len(seen) \in DOMAIN hits /\ coming[i] = hits[i - Len(seen)]
      BY <1>12, <2>4
    <3>2. coming[i] = Last(hits) \/ RowOrder(req, K(coming[i]), coming[i], K(Last(hits)), Last(hits))
      BY <1>4, <3>1
    <3> QED BY <1>6, <1>10, <3>2
  <2> QED BY <2>3, <2>4
<1>18. Ahead(req, steady, coming, next)
  <2> SUFFICES ASSUME NEW x \in DOMAIN steady, Full(req, steady[x]), \A i \in DOMAIN coming : coming[i] # x
               PROVE  next # None /\ RowOrder(req, next.keys, next.id, steady[x], x)
    BY DEF Ahead
  <2>1. x \in rs /\ steady[x] = K(x)
    BY <1>6
  <2>2. (\A i \in DOMAIN hits : hits[i] # x) /\ (\A i \in DOMAIN seen : seen[i] # x)
    BY <1>12
  <2>3. cursor # None => RowOrder(req, cursor.keys, cursor.id, steady[x], x)
    BY <1>2, <2>2 DEF Ahead
  <2>4. p.more /\ RowOrder(req, K(Last(hits)), Last(hits), K(x), x)
    BY <1>4, <2>1, <2>2, <2>3
  <2> QED BY <1>10, <2>1, <2>4
<1> QED BY <1>11, <1>12, <1>16, <1>17, <1>18 DEF p, hits, next, coming

(* Nothing has come when a walk begins. *)
LEMMA WalkInit == Init => WalkInv
<1> SUFFICES ASSUME Init PROVE WalkInv
  OBVIOUS
<1>1. phase = "walking" /\ cursor = None /\ seen = <<>> /\ ~Reading
  BY DEF Init, Reading
<1>2. Coming = <<>> /\ Border = None
  BY <1>1 DEF Coming, Border
<1> QED BY <1>1, <1>2 DEF WalkInv, AtStart, Ordered, Behind

(* Others can only make fewer rows count as steady. *)
LEMMA WalkElsewhere == WalkInv /\ Elsewhere => WalkInv'
<1> SUFFICES ASSUME WalkInv, Elsewhere PROVE WalkInv'
  OBVIOUS
<1>1. UNCHANGED <<req, phase, cursor, page, seen>>
  BY DEF Elsewhere, walk
<1>2. Coming' = Coming /\ Border' = Border /\ AtStart' = AtStart
  BY <1>1 DEF Coming, Border, Reading, AtStart
<1>3. \A x \in DOMAIN steady' : x \in DOMAIN steady /\ steady'[x] = steady[x]
  BY SteadyElsewhere
<1>4. ASSUME NEW coming, Ordered(req, steady, coming) PROVE Ordered(req, steady', coming)
  BY <1>3, <1>4 DEF Ordered
<1>5. ASSUME NEW coming, NEW border, Behind(req, steady, coming, border)
      PROVE  Behind(req, steady', coming, border)
  BY <1>3, <1>5 DEF Behind
<1>6. ASSUME NEW coming, NEW border, Ahead(req, steady, coming, border)
      PROVE  Ahead(req, steady', coming, border)
  BY <1>3, <1>6 DEF Ahead
<1>7. ASSUME Keyset(req)
      PROVE  /\ seen \in Seq(Int) /\ (Reading => page.hits \in Seq(Int))
             /\ Ordered(req, steady', Coming) /\ Behind(req, steady', Coming, Border)
             /\ phase \notin {"refused", "failed"} /\ ~AtStart => Ahead(req, steady', Coming, Border)
  BY <1>4, <1>5, <1>6, <1>7 DEF WalkInv
<1>8. (AtStart => seen = <<>>) /\ (phase = "done" => cursor = None)
  BY DEF WalkInv
<1> QED BY <1>1, <1>2, <1>7, <1>8 DEF WalkInv, Reading

(* A refusal delivers nothing. *)
LEMMA WalkStop == WalkInv /\ (Refuse \/ Fail) => WalkInv'
<1> SUFFICES ASSUME WalkInv, Refuse \/ Fail PROVE WalkInv'
  OBVIOUS
<1>1. /\ phase = "walking" /\ phase' \in {"refused", "failed"}
      /\ UNCHANGED <<req, cursor, seen, steady>>
  BY DEF Refuse, Fail, Stop
<1>2. Coming' = Coming /\ Border' = Border
  BY <1>1 DEF Coming, Border, Reading
<1>3. ~AtStart'
  BY <1>1 DEF AtStart
<1> QED BY <1>1, <1>2, <1>3 DEF WalkInv, Reading

(* The page statement, which also delivers where nothing is redacted. *)
LEMMA WalkSelect == SoundInv /\ SteadyNow /\ WalkInv /\ Select => WalkInv'
<1> SUFFICES ASSUME SoundInv, SteadyNow, WalkInv, Select PROVE WalkInv'
  OBVIOUS
<1> DEFINE p == PageIn(db, req, cursor, applied, log)
<1>1. /\ phase = "walking" /\ Accepted(db, req, cursor, applied) /\ Renderable(req, cursor, applied)
      /\ UNCHANGED <<req, steady>>
  BY DEF Select
<1>2. /\ phase' \in {"selected", "walking", "done"}
      /\ Coming' = seen \o p.hits /\ Border' = Continue(p)
      /\ phase' = "walking" => cursor' # None
      /\ phase' = "done" => cursor' = None
      /\ seen' = seen \/ seen' = seen \o p.hits
      /\ Reading' => page'.hits = p.hits
  <2>1. CASE req.target = "records"
    <3>1. /\ phase' = "selected" /\ seen' = seen
          /\ page' = [hits |-> p.hits, next |-> Continue(p)]
      BY <2>1 DEF Select
    <3> HIDE DEF p
    <3> QED BY <3>1 DEF Coming, Border, Reading
  <2>2. CASE req.target # "records"
    <3>1. Deliver(p, Continue(p))
      BY <2>2 DEF Select
    <3> HIDE DEF p
    <3>2. /\ seen' = seen \o p.hits /\ cursor' = Continue(p)
          /\ phase' = IF Continue(p) = None THEN "done" ELSE "walking"
      BY <3>1 DEF Deliver
    <3> QED BY <3>2 DEF Coming, Border, Reading
  <2> QED BY <2>1, <2>2
<1>3. ~AtStart'
  BY <1>2 DEF AtStart
<1>4. ASSUME Keyset(req)
      PROVE  /\ seen \in Seq(Int) /\ p.hits \in Seq(Int) /\ (seen \o p.hits) \in Seq(Int)
             /\ Ordered(req, steady, seen \o p.hits) /\ Behind(req, steady, seen \o p.hits, Continue(p))
             /\ Ahead(req, steady, seen \o p.hits, Continue(p))
  BY <1>1, <1>4, Extended DEF WalkInv
<1> HIDE DEF p
<1> QED BY <1>1, <1>2, <1>3, <1>4 DEF WalkInv

(* What is read for the page in hand leaves it alone. *)
LEMMA WalkReads == WalkInv /\ (ReadHiddenTargets \/ ReadHiddenEvals) => WalkInv'
<1> SUFFICES ASSUME WalkInv, ReadHiddenTargets \/ ReadHiddenEvals PROVE WalkInv'
  OBVIOUS
<1>1. /\ phase \in {"selected", "redacted"} /\ phase' \in {"redacted", "judged"}
      /\ UNCHANGED <<req, cursor, page, seen, steady>>
  BY DEF ReadHiddenTargets, ReadHiddenEvals
<1>2. Coming' = Coming /\ Border' = Border /\ ~AtStart /\ ~AtStart'
  BY <1>1 DEF Coming, Border, Reading, AtStart
<1> QED BY <1>1, <1>2 DEF WalkInv, Reading

(* The page in hand is delivered. *)
LEMMA WalkRespond == WalkInv /\ Respond => WalkInv'
<1> SUFFICES ASSUME WalkInv, Respond PROVE WalkInv'
  OBVIOUS
<1>1. /\ phase = "judged" /\ Deliver(page, page.next) /\ UNCHANGED <<req, steady>>
  BY DEF Respond
<1>2. /\ seen' = seen \o page.hits /\ cursor' = page.next
      /\ phase' = IF page.next = None THEN "done" ELSE "walking"
  BY <1>1 DEF Deliver
<1>3. Coming' = Coming /\ Border' = Border /\ ~AtStart /\ ~AtStart'
  BY <1>1, <1>2 DEF Coming, Border, Reading, AtStart
<1>4. Keyset(req) => seen' \in Seq(Int)
  BY <1>1, <1>2 DEF WalkInv, Reading
<1> QED BY <1>1, <1>2, <1>3, <1>4 DEF WalkInv, Reading

IWalk == StoreInv /\ SoundInv /\ SteadyNow /\ WalkInv
(* The inductive invariant of a walk: initially, *)
LEMMA IWalkInit == Init => IWalk
  BY StoreInvInit, SoundInvInit, SteadyInit, WalkInit DEF IWalk

(* at every step, *)
LEMMA IWalkNext == IWalk /\ [Next]_vars => IWalk'
<1> SUFFICES ASSUME IWalk, [Next]_vars PROVE IWalk'
  OBVIOUS
<1>1. StoreInv' /\ SoundInv'
  BY StoreInvNext, SoundInvNext DEF IWalk
<1>2. SteadyNow' /\ WalkInv'
  <2>1. CASE Handler
    <3>1. UNCHANGED <<world, req, steady>>
      BY <2>1 DEF Handler, Refuse, Fail, Select, ReadHiddenTargets, ReadHiddenEvals, Respond
    <3>2. db' = db /\ applied' = applied /\ log' = log
      BY <3>1 DEF db, world
    <3>3. SteadyNow'
      BY <3>1, <3>2 DEF IWalk, SteadyNow
    <3>4. WalkInv'
      BY <2>1, WalkStop, WalkSelect, WalkReads, WalkRespond DEF IWalk, Handler
    <3> QED BY <3>3, <3>4
  <2>2. CASE Others
    <3>1. Elsewhere
      BY <2>2, OthersElsewhere
    <3> QED BY <3>1, SteadyElsewhere, WalkElsewhere DEF IWalk
  <2>3. CASE UNCHANGED vars
    <3>1. UNCHANGED <<world, req, phase, cursor, page, seen, steady>>
      BY <2>3 DEF vars, walk
    <3>2. db' = db /\ applied' = applied /\ log' = log
      BY <3>1 DEF db, world
    <3>3. SteadyNow'
      BY <3>1, <3>2 DEF IWalk, SteadyNow
    <3>4. Coming' = Coming /\ Border' = Border /\ AtStart' = AtStart
      BY <3>1 DEF Coming, Border, Reading, AtStart
    <3>5. WalkInv'
      BY <3>1, <3>4 DEF IWalk, WalkInv, Reading
    <3> QED BY <3>3, <3>5
  <2> QED BY <2>1, <2>2, <2>3 DEF Next
<1> QED BY <1>1, <1>2 DEF IWalk

(* and what it gives: order, *)
LEMMA IWalkOrders == IWalk => InOrder
<1> SUFFICES ASSUME IWalk, Sorted, NEW i \in DOMAIN seen, NEW j \in DOMAIN seen,
                    i < j, seen[i] \in DOMAIN steady, seen[j] \in DOMAIN steady
             PROVE  RowBefore(db, req, applied, seen[i], seen[j])
  BY DEF InOrder
<1>1. Keyset(req) /\ req \in Requests
  BY DEF Sorted, Keyset, IWalk, SoundInv
<1>2. seen \in Seq(Int) /\ (Reading => page.hits \in Seq(Int)) /\ Ordered(req, steady, Coming)
  BY <1>1 DEF IWalk, WalkInv
<1>3. i \in DOMAIN Coming /\ j \in DOMAIN Coming /\ Coming[i] = seen[i] /\ Coming[j] = seen[j]
  <2>1. CASE ~Reading
    BY <2>1 DEF Coming
  <2>2. CASE Reading
    <3>1. Coming = seen \o page.hits /\ seen \in Seq(Int) /\ page.hits \in Seq(Int)
      BY <1>2, <2>2 DEF Coming
    <3> QED BY <3>1
  <2> QED BY <2>1, <2>2
<1>4. RowOrder(req, steady[seen[i]], seen[i], steady[seen[j]], seen[j])
  BY <1>2, <1>3 DEF Ordered
<1>5. steady[seen[i]] = KeysIn(db, req, applied, seen[i]) /\ steady[seen[j]] = KeysIn(db, req, applied, seen[j])
  BY DEF IWalk, SteadyNow
<1> QED BY <1>1, <1>4, <1>5, BeforeIsOrder DEF KeysIn

(* and completeness. *)
LEMMA IWalkComplete == IWalk => NoSkips
<1> SUFFICES ASSUME IWalk, Sorted, phase = "done", NEW x \in DOMAIN steady, Kept(x)
             PROVE  x \in ToSet(seen)
  BY DEF NoSkips
<1>1. Keyset(req)
  BY DEF Sorted, Keyset
<1>2. Coming = seen /\ Border = None /\ ~AtStart
  BY DEF IWalk, WalkInv, Coming, Border, Reading, AtStart
<1>3. Ahead(req, steady, seen, None)
  BY <1>1, <1>2 DEF IWalk, WalkInv
<1>4. Full(req, steady[x])
  BY DEF Kept, Full
<1>5. PICK i \in DOMAIN seen : seen[i] = x
  BY <1>3, <1>4 DEF Ahead
<1> QED BY <1>5 DEF ToSet

(* InOrder, whatever is written between the pages of a walk: the keyset
   predicate of each statement (After, RunAfter and those of the list and the
   audit log) agrees with its ORDER BY and tiebreaker, a cursor holds the keys
   of the last row delivered, and a row whose keys stayed keeps its place. *)
THEOREM WalksInOrder == Spec => []InOrder
<1>1. Init => IWalk
  BY IWalkInit
<1>2. IWalk /\ [Next]_vars => IWalk'
  BY IWalkNext
<1>3. IWalk => InOrder
  BY IWalkOrders
<1> QED BY <1>1, <1>2, <1>3, PTL DEF Spec

(* NoSkips: what is not behind the cursor is ahead of it, and a page without a
   next one has left nothing ahead. *)
THEOREM WalksComplete == Spec => []NoSkips
<1>1. Init => IWalk
  BY IWalkInit
<1>2. IWalk /\ [Next]_vars => IWalk'
  BY IWalkNext
<1>3. IWalk => NoSkips
  BY IWalkComplete
<1> QED BY <1>1, <1>2, <1>3, PTL DEF Spec
=============================================================================
