------------------------------ MODULE RelationReads ----------------------------
(* The read side of relations.rs and what a body read withholds: edges with  *)
(* their ends resolved for a reader, the traversal, the comparison view.     *)
(* An edge is [type, to, text]: resolved at write time to a version, or to   *)
(* None with the text the writer typed.                                      *)
EXTENDS RunProjection

Stored(db) == db.live \cup db.dead

-----------------------------------------------------------------------------
(* Resolution                                                               *)

(* resolve_ref: cards before evals, the first the reader may see.            *)
ResolveRef(db, text, caller) ==
  LET named == {v \in Stored(db) : Address[v] = text /\ SeesVersion(db, v, caller)}
      cards == {v \in named : Kind[db.content[v].rec] = "card"}
  IN IF named = {} THEN None
     ELSE CHOOSE v \in IF cards # {} THEN cards ELSE named : TRUE

(* An end is a version, as the reader may see it, or a text.                 *)
VersionEnd(db, v, caller) ==
  [version |-> v, visible |-> SeesVersion(db, v, caller), dead |-> v \in db.dead]
TextEnd(text) == [text |-> text]
ResolveStored(db, e, caller) ==
  IF e.to # None THEN VersionEnd(db, e.to, caller)
  ELSE IF ResolveRef(db, e.text, caller) # None
  THEN VersionEnd(db, ResolveRef(db, e.text, caller), caller)
  ELSE TextEnd(e.text)

Followed(e, types) == types = None \/ e.type \in types
Outgoing(db, v, types, caller) ==
  {[from |-> VersionEnd(db, v, caller), type |-> e.type, to |-> ResolveStored(db, e, caller)] :
     e \in {x \in db.content[v].edges : Followed(x, types)}}

EntersResolved(e, v) == e.to = v    \* A mistaken form: to_external not compared
Enters(e, v) == e.to = v \/ (e.to = None /\ e.text = Address[v])
Incoming(db, v, types, caller) ==
  UNION {{[from |-> VersionEnd(db, w, caller), type |-> e.type, to |-> VersionEnd(db, v, caller)] :
            e \in {x \in db.content[w].edges : Followed(x, types) /\ Enters(x, v)}} :
           w \in Stored(db)}

-----------------------------------------------------------------------------
(* The traversal, level by level: what a breadth-first queue reaches         *)

Follow(db, v, latest) ==
  LET newest == LatestOf(db, db.content[v].rec)
  IN IF latest /\ newest # None THEN newest ELSE v
Leaving(db, v, p, caller) ==
  IF p.direction \in {"out", "both"} THEN Outgoing(db, v, p.types, caller) ELSE {}
Entering(db, v, p, caller) ==
  IF p.direction \in {"in", "both"} THEN Incoming(db, v, p.types, caller) ELSE {}
Edge(e) ==
  [from |-> e.from.version, type |-> e.type,
   to |-> IF Has(e.to, "version") THEN e.to.version ELSE e.to.text]
Ends(db, v, p, caller) ==    \* the versions one edge away, before follow_latest
  {e.to.version : e \in {x \in Leaving(db, v, p, caller) : Has(x.to, "version")}}
    \cup {e.from.version : e \in Entering(db, v, p, caller)}

(* One level: the edges of the frontier, and what they reach for the first   *)
(* time as the next one.                                                     *)
Level(db, p, caller, walked) ==
  LET reached == UNION {{Follow(db, w, p.latest) : w \in Ends(db, v, p, caller)} :
                          v \in walked.frontier}
      edges == UNION {{Edge(e) : e \in Leaving(db, v, p, caller) \cup Entering(db, v, p, caller)} :
                        v \in walked.frontier}
  IN [frontier |-> reached \ walked.nodes, nodes |-> walked.nodes \cup reached,
      edges |-> walked.edges \cup edges]
Traverse(db, v, p, caller) ==
  LET start == Follow(db, v, p.latest)
      depth == IF p.depth < 1 THEN 1 ELSE Min({p.depth, 5})
      walk[n \in 0..5] ==
        IF n = 0 THEN [frontier |-> {start}, nodes |-> {start}, edges |-> {}]
        ELSE Level(db, p, caller, walk[n - 1])
  IN walk[depth]

-----------------------------------------------------------------------------
(* The comparison view of an Eval version: the Cards using it, at their      *)
(* latest live version, against the runs each used                           *)

UsedOf(db, v, eval) ==
  IF db.content[eval].rec = TheEval THEN db.content[v].used ELSE [r \in {} |-> None]
Comparing(db, eval, caller) ==
  {v \in db.live :
     /\ \E e \in db.content[v].edges : e.type = UsesEval /\ Enters(e, eval)
     /\ Kind[db.content[v].rec] = "card" /\ SeesVersion(db, v, caller) /\ Latest(db, v)}
Same(db, v, eval, facet) ==
  LET stored == db.content[v].fingerprints
      used == DOMAIN UsedOf(db, v, eval)
  IN /\ facet \in DOMAIN stored /\ used # {}
     /\ \A r \in used : facet \in DOMAIN db.runs[r].is.fingerprints
                        /\ db.runs[r].is.fingerprints[facet] = stored[facet]
Compare(db, eval, caller) ==
  {[version |-> v, same_harness |-> Same(db, v, eval, "harness"),
    same_model |-> Same(db, v, eval, "model"),
    runs_used |-> Cardinality(DOMAIN UsedOf(db, v, eval)),
    changed_since_card |-> {r \in DOMAIN UsedOf(db, v, eval) :
                              UsedOf(db, v, eval)[r] # db.runs[r].hash}] :
     v \in Comparing(db, eval, caller)}

-----------------------------------------------------------------------------
(* What a body read withholds: the elements that name a resolved target the  *)
(* reader may not see, and the judgements of an Eval the reader may not see. *)

HiddenTargetsLive(db, v, caller) ==    \* A mistaken form: tombstoned targets missed
  {e \in db.content[v].edges : e.to \in db.live /\ ~SeesVersion(db, e.to, caller)}
HiddenTargets(db, v, caller) ==
  {e \in db.content[v].edges : e.to # None /\ ~SeesVersion(db, e.to, caller)}
HiddenEvals(db, v, caller) ==
  {j.eval : j \in {x \in db.content[v].judgements : ~VisibleTo(db, x.eval, caller)}}
WithholdRelations(db, v, hidden) ==
  {e \in db.content[v].edges : \A h \in hidden : EdgeRow(h) # EdgeRow(e)}
WithholdResults(db, v, hidden) ==
  {j \in db.content[v].judgements : j.eval \notin hidden}
================================================================================
