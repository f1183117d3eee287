------------------------------- MODULE IndexBuild ------------------------------
(***************************************************************************)
(* Extension schemas of the registry: the index build job of index.rs and   *)
(* jobs.rs, and the path tables each server keeps of the applied ones.      *)
(* CREATE INDEX CONCURRENTLY runs outside any transaction, so every         *)
(* statement is a step and may be the last one of its sweep.                *)
(***************************************************************************)
EXTENDS Integers

CONSTANTS
  Schemas,          \* registry addresses (ext_schemas, ns, id, version)
  Paths, Types,     \* typed paths; number, string, boolean
  TypeAt,           \* schema -> its paths -> the type it declares
  Replicas,
  None

ASSUME IndexAssumption ==
  /\ TypeAt \in [Schemas -> UNION {[ps -> Types] : ps \in SUBSET Paths}]
  /\ None \notin Replicas \cup Schemas \cup Paths \cup {"applying", "applied"}

PathsOf(x) == DOMAIN TypeAt[x]

VARIABLES
  state,   \* registry.state, None before the PUT
  index,   \* pg_index, by path: index names hash the path
  lock,    \* the replica whose session holds INDEX_BUILD
  leaked,  \* ... on a connection that went back to its pool still holding it
  sweep,   \* where each replica's job stands
  tables   \* the schemas each replica's path tables were built from
vars == <<state, index, lock, leaked, sweep, tables>>

Index == [type : Types, valid : BOOLEAN]
(* todo: of the pending list; doing, left: apply_ext_schema's schema and     *)
(* paths; at: its next call; applied: whether the sweep counted one.        *)
Sweep == [todo : SUBSET Schemas, doing : Schemas \cup {None}, left : SUBSET Paths,
          path : Paths \cup {None}, allValid : BOOLEAN, applied : BOOLEAN,
          at : {"next", "create", "check", "drop", "rebuild"}]

TypeOK ==
  /\ state \in [Schemas -> {"applying", "applied", None}]
  /\ index \in [Paths -> Index \cup {None}]
  /\ lock \in Replicas \cup {None}
  /\ leaked \in BOOLEAN
  /\ sweep \in [Replicas -> Sweep \cup {None}]
  /\ tables \in [Replicas -> SUBSET Schemas]

Init ==
  /\ state = [x \in Schemas |-> None]
  /\ index = [p \in Paths |-> None]
  /\ lock = None /\ leaked = FALSE
  /\ sweep = [g \in Replicas |-> None]
  /\ tables = [g \in Replicas |-> {}]

InState(s) == {x \in Schemas : state[x] = s}
Valid(p) == index[p] # None /\ index[p].valid
At(g, at) == sweep[g] # None /\ sweep[g].at = at
Building(g) == sweep[g] # None /\ sweep[g].at # "rebuild"  \* inside apply_pending
Sets(g, s) == sweep' = [sweep EXCEPT ![g] = s]

-----------------------------------------------------------------------------
PutPending(x) ==             \* a state the column's readers do not know
  /\ state[x] = None
  /\ state' = [state EXCEPT ![x] = "pending"]
  /\ UNCHANGED <<index, lock, leaked, sweep, tables>>
(* PUT /registry/ext_schemas: an entry is immutable.                        *)
Put(x) ==
  /\ state[x] = None
  /\ state' = [state EXCEPT ![x] = "applying"]
  /\ UNCHANGED <<index, lock, leaked, sweep, tables>>

-----------------------------------------------------------------------------
(* apply_pending                                                            *)

(* An advisory lock is granted again to the session that holds it: the pool *)
(* may hand out the very connection that leaked it.                         *)
AnyLock(g) == TRUE           \* try_acquire's answer not looked at
LockFree(g) == lock = None \/ (lock = g /\ leaked)

Begin(g) ==
  /\ sweep[g] = None /\ LockFree(g)
  /\ lock' = g
  /\ Sets(g, [todo |-> InState("applying"), doing |-> None, left |-> {}, path |-> None,
              allValid |-> TRUE, applied |-> FALSE, at |-> "next"])
  /\ UNCHANGED <<state, index, leaked, tables>>

(* for schema in &pending                                                   *)
NextSchema(g) ==
  /\ At(g, "next") /\ sweep[g].doing = None
  /\ \E x \in sweep[g].todo :
       Sets(g, [sweep[g] EXCEPT !.todo = @ \ {x}, !.doing = x,
                                !.left = PathsOf(x), !.allValid = TRUE])
  /\ UNCHANGED <<state, index, lock, leaked, tables>>

(* for path in &schema.paths                                                *)
NextPath(g) ==
  /\ At(g, "next") /\ sweep[g].doing # None
  /\ \E p \in sweep[g].left :
       Sets(g, [sweep[g] EXCEPT !.left = @ \ {p}, !.path = p, !.at = "create"])
  /\ UNCHANGED <<state, index, lock, leaked, tables>>

(* IF NOT EXISTS: an index of that name is left as it is, valid or not.     *)
Create(g) ==
  /\ At(g, "create")
  /\ LET p == sweep[g].path
     IN index' = [index EXCEPT ![p] =
          IF @ # None THEN @ ELSE [type |-> TypeAt[sweep[g].doing][p], valid |-> TRUE]]
  /\ Sets(g, [sweep[g] EXCEPT !.at = "check"])
  /\ UNCHANGED <<state, lock, leaked, tables>>

CheckKeeps(g) ==             \* an invalid index left for Postgres to mend
  /\ At(g, "check")
  /\ Sets(g, [sweep[g] EXCEPT !.at = "next", !.allValid = @ /\ Valid(sweep[g].path)])
  /\ UNCHANGED <<state, index, lock, leaked, tables>>
CheckBuilt(g) ==             \* the name is there
  /\ At(g, "check")
  /\ Sets(g, [sweep[g] EXCEPT !.at = "next"])
  /\ UNCHANGED <<state, index, lock, leaked, tables>>
Check(g) ==
  /\ At(g, "check")
  /\ Sets(g, IF Valid(sweep[g].path) THEN [sweep[g] EXCEPT !.at = "next"]
             ELSE [sweep[g] EXCEPT !.at = "drop"])
  /\ UNCHANGED <<state, index, lock, leaked, tables>>

(* drop_invalid looks again before it drops.                                *)
Drop(g) ==
  /\ At(g, "drop")
  /\ LET p == sweep[g].path
     IN index' = [index EXCEPT ![p] = IF Valid(p) THEN @ ELSE None]
  /\ Sets(g, [sweep[g] EXCEPT !.at = "next", !.allValid = FALSE])
  /\ UNCHANGED <<state, lock, leaked, tables>>

(* set_state, when every path was valid.                                    *)
FinishSchema(g) ==
  /\ At(g, "next") /\ sweep[g].doing # None /\ sweep[g].left = {}
  /\ state' = IF sweep[g].allValid
              THEN [state EXCEPT ![sweep[g].doing] = "applied"] ELSE state
  /\ Sets(g, [sweep[g] EXCEPT !.doing = None, !.path = None,
                              !.applied = @ \/ sweep[g].allValid])
  /\ UNCHANGED <<index, lock, leaked, tables>>

(* release: one unlock, which a session that had leaked the lock survives.  *)
Release(g) ==
  /\ At(g, "next") /\ sweep[g].doing = None /\ sweep[g].todo = {}
  /\ lock' = IF leaked THEN lock ELSE None
  /\ Sets(g, IF sweep[g].applied THEN [sweep[g] EXCEPT !.at = "rebuild"] ELSE None)
  /\ UNCHANGED <<state, index, leaked, tables>>

RebuildAll(g) ==             \* the entries of either state
  /\ At(g, "rebuild")
  /\ tables' = [tables EXCEPT ![g] = InState("applying") \cup InState("applied")]
  /\ Sets(g, None) /\ UNCHANGED <<state, index, lock, leaked>>
(* ext_schemas_applied, then the swap: only this job writes these tables.   *)
Rebuild(g) ==
  /\ At(g, "rebuild")
  /\ tables' = [tables EXCEPT ![g] = InState("applied")]
  /\ Sets(g, None) /\ UNCHANGED <<state, index, lock, leaked>>

-----------------------------------------------------------------------------
(* Failures                                                                 *)

(* A statement answers with an error and `?` returns past the release.  A   *)
(* CREATE INDEX CONCURRENTLY that fails leaves an invalid index.            *)
Fails(g) ==
  /\ sweep[g] # None
  /\ \/ UNCHANGED index
     \/ /\ sweep[g].at = "create" /\ index[sweep[g].path] = None
        /\ index' = [index EXCEPT ![sweep[g].path] =
             [type |-> TypeAt[sweep[g].doing][sweep[g].path], valid |-> FALSE]]
  /\ leaked' = (leaked \/ Building(g))
  /\ Sets(g, None) /\ UNCHANGED <<state, lock, tables>>

(* The pool closes the idle connection that still held the lock.            *)
Closes(g) ==
  /\ lock = g /\ leaked /\ ~Building(g)
  /\ lock' = None /\ leaked' = FALSE
  /\ UNCHANGED <<state, index, sweep, tables>>

(* The process ends, a build under way with it, and starts again: serve     *)
(* loads the applied schemas, or goes on without them when that read fails. *)
Restart(g) ==
  /\ \/ UNCHANGED index
     \/ /\ At(g, "create") /\ index[sweep[g].path] = None
        /\ index' = [index EXCEPT ![sweep[g].path] =
             [type |-> TypeAt[sweep[g].doing][sweep[g].path], valid |-> FALSE]]
  /\ lock' = IF lock = g THEN None ELSE lock
  /\ leaked' = (leaked /\ lock # g)
  /\ Sets(g, None)
  /\ \E ts \in {InState("applied"), {}} : tables' = [tables EXCEPT ![g] = ts]
  /\ UNCHANGED state

-----------------------------------------------------------------------------
SweepStep(g) ==
  \/ Begin(g) \/ NextSchema(g) \/ NextPath(g) \/ Create(g) \/ Check(g) \/ Drop(g)
  \/ FinishSchema(g) \/ Release(g) \/ Rebuild(g)

Next ==
  \/ \E x \in Schemas : Put(x)
  \/ \E g \in Replicas : SweepStep(g) \/ Fails(g) \/ Closes(g) \/ Restart(g)

Spec == Init /\ [][Next]_vars

(* The job's timer never stops, and the pool closes idle connections.       *)
Fairness == \A g \in Replicas : WF_vars(SweepStep(g)) /\ WF_vars(Closes(g))

-----------------------------------------------------------------------------
(* `applied` is a promise: every index of the schema exists and is valid    *)
(* (index.rs, "State is read, not stored"), whatever failed on the way and   *)
(* however often.                                                           *)
AppliedIsIndexed == \A x \in InState("applied") : \A p \in PathsOf(x) : Valid(p)

(* No server offers ranges and sorts on a path before its index can serve   *)
(* them (jobs.rs, spawn_index_build; state.rs, rebuild).                    *)
OfferedIsIndexed ==
  \A g \in Replicas : \A x \in tables[g] : \A p \in PathsOf(x) : Valid(p)

(* Only one replica builds at a time, although sweeps leave without         *)
(* releasing and connections carry the lock back to their pool.             *)
OneBuilder == \A g, h \in Replicas : Building(g) /\ Building(h) => g = h

(* A sweep that ends before its release.                                    *)
Finished(g) == At(g, "next") /\ sweep[g].doing = None /\ sweep[g].todo = {}
CutShort(g) == Building(g) /\ ~Finished(g) /\ sweep'[g] = None
FailuresStop == <>[][\A g \in Replicas : ~CutShort(g)]_vars

(* Once sweeps stop failing every registered schema is applied: invalid *)
(* indexes are dropped and built again, and a leaked lock is given back.    *)
SchemasApplied ==
  FailuresStop => \A x \in Schemas : state[x] = "applying" ~> state[x] = "applied"

(* jobs.rs: a replica that found the lock held "picks the entries up on a   *)
(* later tick through ext_schemas_applied".                                 *)
EveryReplicaServes ==
  \A g \in Replicas, x \in Schemas : state[x] = "applied" ~> x \in tables[g]
================================================================================
