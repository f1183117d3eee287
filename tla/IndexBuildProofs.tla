---------------------------- MODULE IndexBuildProofs ---------------------------
(* Proofs of the safety of IndexBuild, for any schemas, paths and replicas.  *)
EXTENDS IndexBuild, TLAPS

(* A sweep holds the lock while it builds, whatever leaked before.           *)
LockHeld == \A g \in Replicas : Building(g) => lock = g

(* Where a sweep stands: it works on a schema's own paths, one at a time.    *)
Working(g) == sweep[g].doing # None
Done(g) == PathsOf(sweep[g].doing)
             \ (sweep[g].left \cup (IF sweep[g].at = "next" THEN {} ELSE {sweep[g].path}))
Sane(g) == sweep[g] # None =>
  /\ sweep[g].at \in {"create", "check", "drop"} =>
       Working(g) /\ sweep[g].path \in PathsOf(sweep[g].doing)
  /\ Working(g) => sweep[g].left \subseteq PathsOf(sweep[g].doing)
SweepSane == \A g \in Replicas : Sane(g)

(* allValid vouches for the paths already done.                              *)
Vouches(g) ==
  sweep[g] # None /\ Working(g) /\ sweep[g].allValid => \A p \in Done(g) : Valid(p)
Vouched == \A g \in Replicas : Vouches(g)

(* What a server's tables were built from is applied.                        *)
TablesApplied == \A g \in Replicas : tables[g] \subseteq InState("applied")

IInv == TypeOK /\ LockHeld /\ SweepSane /\ Vouched /\ AppliedIsIndexed /\ TablesApplied

USE DEF At, Sets, InState

-----------------------------------------------------------------------------
LEMMA InitIInv == Init => IInv
  BY IndexAssumption DEF Init, IInv, TypeOK, LockHeld, Building, SweepSane, Sane,
         Vouched, Vouches,
         AppliedIsIndexed, TablesApplied

LEMMA PathTypes ==
  ASSUME NEW x \in Schemas
  PROVE  PathsOf(x) \subseteq Paths /\ \A p \in PathsOf(x) : TypeAt[x][p] \in Types
<1>1. TypeAt[x] \in UNION {[ps -> Types] : ps \in SUBSET Paths}
  BY IndexAssumption
<1>2. PICK ps \in SUBSET Paths : TypeAt[x] \in [ps -> Types]
  BY <1>1
<1> QED BY <1>2 DEF PathsOf

(* A step of a sweep keeps the types.                                        *)
LEMMA SweepStepTypes ==
  ASSUME TypeOK, SweepSane, NEW g \in Replicas, SweepStep(g)
  PROVE  TypeOK'
<1>0. sweep[g] # None => sweep[g] \in Sweep
  BY DEF TypeOK
<1>1. CASE Begin(g)
  <2>1. sweep'[g] \in Sweep
    BY <1>1 DEF Begin, TypeOK, Sweep
  <2> QED BY <1>1, <2>1 DEF Begin, TypeOK
<1>2. CASE NextSchema(g)
  <2>1. PICK x \in sweep[g].todo :
          sweep'[g] = [sweep[g] EXCEPT !.todo = @ \ {x}, !.doing = x,
                                       !.left = PathsOf(x), !.allValid = TRUE]
    BY <1>2 DEF NextSchema, TypeOK
  <2>2. x \in Schemas /\ sweep[g] \in Sweep
    BY <1>0, <1>2, <2>1 DEF NextSchema, Sweep
  <2>3. PathsOf(x) \subseteq Paths
    BY <2>2, PathTypes
  <2>4. sweep'[g] \in Sweep
    BY <2>1, <2>2, <2>3 DEF Sweep
  <2> QED BY <1>2, <2>4 DEF NextSchema, TypeOK
<1>3. CASE NextPath(g)
  <2>1. PICK p \in sweep[g].left :
          sweep'[g] = [sweep[g] EXCEPT !.left = @ \ {p}, !.path = p, !.at = "create"]
    BY <1>3 DEF NextPath, TypeOK
  <2>2. sweep[g] \in Sweep
    BY <1>0, <1>3 DEF NextPath
  <2>a. sweep[g].left \subseteq Paths /\ p \in Paths
    BY <2>1, <2>2 DEF Sweep
  <2>b. \A z \in Sweep, q \in Paths :
           [z EXCEPT !.left = @ \ {q}, !.path = q, !.at = "create"] \in Sweep
    BY DEF Sweep
  <2>3. sweep'[g] \in Sweep
    BY <2>1, <2>2, <2>a, <2>b
  <2> QED BY <1>3, <2>3 DEF NextPath, TypeOK
<1>4. CASE Create(g)
  <2>1. sweep'[g] \in Sweep
    BY <1>4 DEF Create, TypeOK, Sweep
  <2> DEFINE p == sweep[g].path  new == [type |-> TypeAt[sweep[g].doing][p], valid |-> TRUE]
  <2>a. sweep[g].doing \in Schemas /\ p \in PathsOf(sweep[g].doing)
    BY <1>0, <1>4 DEF Create, SweepSane, Sane, Working, Sweep
  <2>b. new \in Index
    BY <2>a, PathTypes DEF Index
  <2>c. index' = [index EXCEPT ![p] = IF index[p] # None THEN index[p] ELSE new]
    BY <1>4 DEF Create
  <2> HIDE DEF new
  <2>2. index' \in [Paths -> Index \cup {None}]
    BY <2>b, <2>c DEF TypeOK
  <2> QED BY <1>4, <2>1, <2>2 DEF Create, TypeOK
<1>5. CASE Check(g)
  <2>1. sweep'[g] \in Sweep
    BY <1>5 DEF Check, TypeOK, Sweep
  <2> QED BY <1>5, <2>1 DEF Check, TypeOK
<1>6. CASE Drop(g)
  <2>1. sweep'[g] \in Sweep
    BY <1>6 DEF Drop, TypeOK, Sweep
  <2> QED BY <1>6, <2>1 DEF Drop, TypeOK
<1>7. CASE FinishSchema(g)
  <2>0. sweep[g] \in Sweep
    BY <1>7 DEF FinishSchema, TypeOK
  <2>a. sweep'[g] = [sweep[g] EXCEPT !.doing = None, !.path = None,
                                     !.applied = @ \/ sweep[g].allValid]
    BY <1>7 DEF FinishSchema, TypeOK
  <2>1. sweep'[g] \in Sweep
    BY <2>0, <2>a DEF Sweep
  <2>2. state' \in [Schemas -> {"applying", "applied", None}]
    BY <1>7 DEF FinishSchema, TypeOK
  <2>3. sweep' \in [Replicas -> Sweep \cup {None}]
    BY <1>7, <2>1 DEF FinishSchema, TypeOK
  <2> QED BY <1>7, <2>2, <2>3 DEF FinishSchema, TypeOK
<1>8. CASE Release(g)
  <2>1. sweep'[g] \in Sweep \cup {None}
    BY <1>8 DEF Release, TypeOK, Sweep
  <2> QED BY <1>8, <2>1 DEF Release, TypeOK
<1>9. CASE Rebuild(g)
  BY <1>9 DEF Rebuild, TypeOK
<1> QED BY <1>1, <1>2, <1>3, <1>4, <1>5, <1>6, <1>7, <1>8, <1>9 DEF SweepStep

LEMMA OutageTypes ==
  ASSUME TypeOK, SweepSane, NEW g \in Replicas, Fails(g) \/ Closes(g) \/ Restart(g)
  PROVE  TypeOK'
<1> DEFINE p == sweep[g].path  new == [type |-> TypeAt[sweep[g].doing][p], valid |-> FALSE]
<1>1. ASSUME At(g, "create") PROVE new \in Index
  <2>1. sweep[g].doing \in Schemas /\ p \in PathsOf(sweep[g].doing)
    BY <1>1 DEF TypeOK, SweepSane, Sane, Working, Sweep
  <2> QED BY <2>1, PathTypes DEF Index
<1>2. \/ index' = index
      \/ At(g, "create") /\ index' = [index EXCEPT ![p] = new]
  BY DEF Fails, Closes, Restart
<1> HIDE DEF new
<1>3. index' \in [Paths -> Index \cup {None}]
  BY <1>1, <1>2 DEF TypeOK
<1>4. /\ lock' \in Replicas \cup {None} /\ leaked' \in BOOLEAN
      /\ state' = state
  BY DEF Fails, Closes, Restart, TypeOK, Building
<1>5. sweep' \in [Replicas -> Sweep \cup {None}]
  BY DEF Fails, Closes, Restart, TypeOK
<1>6. tables' \in [Replicas -> SUBSET Schemas]
  BY DEF Fails, Closes, Restart, TypeOK
<1> QED BY <1>3, <1>4, <1>5, <1>6 DEF TypeOK

LEMMA TypesKept ==
  ASSUME TypeOK, SweepSane, [Next]_vars
  PROVE  TypeOK'
<1>1. ASSUME NEW x \in Schemas, Put(x) PROVE TypeOK'
  BY <1>1 DEF Put, TypeOK
<1>2. CASE UNCHANGED vars
  BY <1>2 DEF vars, TypeOK
<1> QED BY <1>1, <1>2, SweepStepTypes, OutageTypes DEF Next

-----------------------------------------------------------------------------
(* Which replica a step is of, and what it leaves alone.                     *)

Acts(g) == SweepStep(g) \/ Fails(g) \/ Closes(g) \/ Restart(g)

LEMMA OthersKept ==
  ASSUME TypeOK, NEW g \in Replicas, Acts(g), NEW h \in Replicas \ {g}
  PROVE  sweep'[h] = sweep[h] /\ tables'[h] = tables[h]
<1>1. sweep'[h] = sweep[h]
  BY DEF Acts, SweepStep, Begin, NextSchema, NextPath, Create, Check, Drop,
         FinishSchema, Release, Rebuild, Fails, Closes, Restart, TypeOK
<1>2. tables'[h] = tables[h]
  BY DEF Acts, SweepStep, Begin, NextSchema, NextPath, Create, Check, Drop,
         FinishSchema, Release, Rebuild, Fails, Closes, Restart, TypeOK
<1> QED BY <1>1, <1>2

(* A valid index stays: Create and a failed CREATE leave it, Drop looks.     *)
LEMMA ValidStays ==
  ASSUME TypeOK, [Next]_vars, NEW p \in Paths, Valid(p)
  PROVE  Valid(p)'
<1>1. \/ UNCHANGED index
      \/ \E g \in Replicas : Create(g) \/ Drop(g) \/ Fails(g) \/ Restart(g)
  BY DEF Next, vars, Put, SweepStep, Begin, NextSchema, NextPath, Check,
         FinishSchema, Release, Rebuild, Closes
<1>2. CASE UNCHANGED index
  BY <1>2 DEF Valid
<1>3. ASSUME NEW g \in Replicas, Create(g) PROVE Valid(p)'
  BY <1>3 DEF Create, Valid, TypeOK
<1>4. ASSUME NEW g \in Replicas, Drop(g) PROVE Valid(p)'
  BY <1>4 DEF Drop, Valid, TypeOK
<1>5. ASSUME NEW g \in Replicas, Fails(g) \/ Restart(g) PROVE Valid(p)'
  BY <1>5 DEF Fails, Restart, Valid, TypeOK
<1> QED BY <1>1, <1>2, <1>3, <1>4, <1>5

LEMMA AppliedStays ==
  ASSUME TypeOK, [Next]_vars
  PROVE  InState("applied") \subseteq InState("applied")'
<1>1. \/ UNCHANGED state
      \/ \E x \in Schemas : Put(x)
      \/ \E g \in Replicas : FinishSchema(g)
  BY DEF Next, vars, SweepStep, Begin, NextSchema, NextPath, Create, Check, Drop,
         Release, Rebuild, Closes, Fails, Restart
<1>2. ASSUME NEW x \in Schemas, Put(x) PROVE InState("applied") \subseteq InState("applied")'
  BY <1>2, IndexAssumption DEF Put, TypeOK
<1>3. ASSUME NEW g \in Replicas, FinishSchema(g)
      PROVE  InState("applied") \subseteq InState("applied")'
  BY <1>3 DEF FinishSchema, TypeOK
<1> QED BY <1>1, <1>2, <1>3

-----------------------------------------------------------------------------
(* The parts of the invariant                                                *)

LEMMA LockHeldKept ==
  ASSUME TypeOK, LockHeld, [Next]_vars
  PROVE  LockHeld'
<1>1. CASE UNCHANGED <<lock, sweep>>
  BY <1>1 DEF LockHeld, Building
<1>2. ASSUME NEW g \in Replicas, Acts(g) PROVE LockHeld'
  <2>1. ASSUME NEW h \in Replicas \ {g} PROVE Building(h)' => lock' = h
    <3>1. Building(h)' => lock = h
      BY <1>2, OthersKept DEF LockHeld, Building
    <3>2. lock = h => lock' = h
      BY <1>2, IndexAssumption
         DEF Acts, SweepStep, Begin, NextSchema, NextPath, Create, Check, Drop,
             FinishSchema, Release, Rebuild, Fails, Closes, Restart, LockFree,
             LockHeld, Building
    <3> QED BY <3>1, <3>2
  <2>2. Building(g)' => lock' = g
    <3>1. CASE Begin(g) \/ Rebuild(g) \/ Fails(g) \/ Restart(g)
      BY <3>1 DEF Begin, Rebuild, Fails, Restart, Building, TypeOK
    <3>2. CASE Closes(g)
      BY <3>2 DEF Closes, Building
    <3>3. CASE NextSchema(g) \/ NextPath(g) \/ Create(g) \/ Check(g) \/ Drop(g)
                 \/ FinishSchema(g)
      BY <3>3 DEF NextSchema, NextPath, Create, Check, Drop, FinishSchema,
                  LockHeld, Building
    <3>4. CASE Release(g)
      BY <3>4 DEF Release, Building, TypeOK, Sweep
    <3> QED BY <1>2, <3>1, <3>2, <3>3, <3>4 DEF Acts, SweepStep
  <2> QED BY <2>1, <2>2 DEF LockHeld
<1> QED BY <1>1, <1>2 DEF Next, Acts, Put, vars

LEMMA SaneStep ==
  ASSUME TypeOK, NEW g \in Replicas, Sane(g), Acts(g)
  PROVE  Sane(g)'
<1>1. sweep[g] # None => sweep[g] \in Sweep
  BY DEF TypeOK
<1>2. CASE Begin(g)
  BY <1>2 DEF Begin, Sane, Working, TypeOK
<1>3. CASE NextSchema(g)
  BY <1>1, <1>3 DEF NextSchema, Sane, Working, TypeOK, Sweep
<1>4. CASE NextPath(g)
  BY <1>1, <1>4 DEF NextPath, Sane, Working, TypeOK, Sweep
<1>5. CASE Create(g)
  BY <1>1, <1>5 DEF Create, Sane, Working, TypeOK, Sweep
<1>6. CASE Check(g)
  BY <1>1, <1>6 DEF Check, Sane, Working, TypeOK, Sweep
<1>7. CASE Drop(g)
  BY <1>1, <1>7 DEF Drop, Sane, Working, TypeOK, Sweep
<1>8. CASE FinishSchema(g)
  BY <1>1, <1>8 DEF FinishSchema, Sane, Working, TypeOK, Sweep
<1>9. CASE Release(g)
  BY <1>1, <1>9 DEF Release, Sane, Working, TypeOK, Sweep
<1>10. CASE Rebuild(g) \/ Fails(g) \/ Restart(g)
  BY <1>10 DEF Rebuild, Fails, Restart, Sane, TypeOK
<1>11. CASE Closes(g)
  BY <1>11 DEF Closes, Sane, Working
<1> QED
  BY <1>2, <1>3, <1>4, <1>5, <1>6, <1>7, <1>8, <1>9, <1>10, <1>11 DEF Acts, SweepStep

LEMMA VouchesStep ==
  ASSUME TypeOK, [Next]_vars, NEW g \in Replicas, Sane(g), Vouches(g), Acts(g)
  PROVE  Vouches(g)'
<1>1. sweep[g] # None => sweep[g] \in Sweep
  BY DEF TypeOK
<1>2. CASE Begin(g)
  BY <1>2 DEF Begin, Vouches, Working, TypeOK
<1>3. CASE NextSchema(g)
  BY <1>1, <1>3 DEF NextSchema, Vouches, Done, TypeOK, Sweep
<1>4. CASE NextPath(g)
  BY <1>1, <1>4 DEF NextPath, Vouches, Working, Done, Valid, TypeOK, Sweep
<1>5. CASE Create(g)
  <2>1. sweep'[g] = [sweep[g] EXCEPT !.at = "check"]
    BY <1>5 DEF Create, TypeOK
  <2>2. Working(g)' = Working(g) /\ Done(g)' = Done(g)
    BY <1>1, <1>5, <2>1 DEF Create, Working, Done, Sweep
  <2>3. Working(g) => Done(g) \subseteq Paths
    BY <1>1, <1>5, PathTypes DEF Create, Working, Done, Sweep
  <2> QED BY <1>1, <1>5, <2>1, <2>2, <2>3, ValidStays DEF Create, Vouches, Sweep
<1>6. CASE Check(g)
  <2>1. CASE Valid(sweep[g].path)
    BY <1>1, <1>6, <2>1 DEF Check, Vouches, Working, Done, Valid, TypeOK, Sweep
  <2>2. CASE ~Valid(sweep[g].path)
    BY <1>1, <1>6, <2>2 DEF Check, Vouches, Working, Done, Valid, TypeOK, Sweep
  <2> QED BY <2>1, <2>2
<1>7. CASE Drop(g)
  BY <1>1, <1>7 DEF Drop, Vouches, TypeOK, Sweep
<1>8. CASE FinishSchema(g)
  BY <1>1, <1>8 DEF FinishSchema, Vouches, Working, TypeOK, Sweep
<1>9. CASE Release(g)
  BY <1>1, <1>9 DEF Release, Vouches, Working, TypeOK, Sweep
<1>10. CASE Rebuild(g) \/ Fails(g) \/ Restart(g)
  BY <1>10 DEF Rebuild, Fails, Restart, Vouches, TypeOK
<1>11. CASE Closes(g)
  BY <1>11 DEF Closes, Vouches, Working, Done, Valid
<1> QED
  BY <1>2, <1>3, <1>4, <1>5, <1>6, <1>7, <1>8, <1>9, <1>10, <1>11 DEF Acts, SweepStep

LEMMA SweepsKept ==
  ASSUME TypeOK, SweepSane, Vouched, [Next]_vars
  PROVE  SweepSane' /\ Vouched'
<1>1. ASSUME NEW h \in Replicas, sweep'[h] = sweep[h] PROVE Sane(h)' /\ Vouches(h)'
  <2>1. Sane(h) /\ Vouches(h)
    BY DEF SweepSane, Vouched
  <2>2. Sane(h)'
    BY <1>1, <2>1 DEF Sane, Working
  <2>3. (sweep[h] # None /\ Working(h)) => Done(h) \subseteq Paths
    BY PathTypes DEF Working, Done, TypeOK, Sweep
  <2>4. Vouches(h)'
    BY <1>1, <2>1, <2>3, ValidStays DEF Vouches, Working, Done
  <2> QED BY <2>2, <2>4
<1>2. CASE UNCHANGED sweep
  BY <1>1, <1>2 DEF SweepSane, Vouched
<1>3. ASSUME NEW g \in Replicas, Acts(g) PROVE SweepSane' /\ Vouched'
  <2>1. Sane(g)' /\ Vouches(g)'
    BY <1>3, SaneStep, VouchesStep DEF SweepSane, Vouched
  <2>2. \A h \in Replicas \ {g} : Sane(h)' /\ Vouches(h)'
    BY <1>1, <1>3, OthersKept
  <2> QED BY <2>1, <2>2 DEF SweepSane, Vouched
<1> QED BY <1>2, <1>3 DEF Next, Acts, Put, vars

LEMMA AppliedIndexedKept ==
  ASSUME TypeOK, Vouched, AppliedIsIndexed, [Next]_vars
  PROVE  AppliedIsIndexed'
<1>1. SUFFICES ASSUME NEW x \in InState("applied")', NEW p \in PathsOf(x)
               PROVE  Valid(p)'
  BY DEF AppliedIsIndexed
<1>2. p \in Paths
  BY PathTypes
<1>3. CASE state[x] = "applied"
  BY <1>2, <1>3, ValidStays DEF AppliedIsIndexed
<1>4. CASE state[x] # "applied"
  <2>1. PICK g \in Replicas : FinishSchema(g)
    BY <1>4 DEF Next, vars, Put, SweepStep, Begin, NextSchema, NextPath, Create,
                Check, Drop, Release, Rebuild, Closes, Fails, Restart, TypeOK
  <2>2. sweep[g].doing = x /\ sweep[g].allValid
    BY <1>4, <2>1 DEF FinishSchema, TypeOK
  <2>3. sweep[g] # None /\ Working(g) /\ p \in Done(g)
    BY <2>1, <2>2 DEF FinishSchema, Working, Done
  <2>4. Valid(p)
    BY <2>2, <2>3 DEF Vouched, Vouches
  <2> QED BY <1>2, <2>4, ValidStays
<1> QED BY <1>3, <1>4

LEMMA TablesKept ==
  ASSUME TypeOK, TablesApplied, [Next]_vars
  PROVE  TablesApplied'
<1>1. CASE UNCHANGED tables
  BY <1>1, AppliedStays DEF TablesApplied
<1>2. ASSUME NEW g \in Replicas, Rebuild(g) \/ Restart(g) PROVE TablesApplied'
  <2>1. tables'[g] \subseteq InState("applied")
    BY <1>2 DEF Rebuild, Restart, TypeOK
  <2>2. \A h \in Replicas \ {g} : tables'[h] \subseteq InState("applied")
    BY <1>2, OthersKept DEF TablesApplied, Acts, SweepStep
  <2> QED BY <2>1, <2>2, AppliedStays DEF TablesApplied
<1> QED
  BY <1>1, <1>2 DEF Next, vars, Put, SweepStep, Begin, NextSchema, NextPath, Create,
                    Check, Drop, FinishSchema, Release, Closes, Fails

-----------------------------------------------------------------------------
LEMMA IInvKept == IInv /\ [Next]_vars => IInv'
  BY TypesKept, LockHeldKept, SweepsKept, AppliedIndexedKept, TablesKept DEF IInv

LEMMA Inductive == Spec => []IInv
  BY InitIInv, IInvKept, PTL DEF Spec

(* The types of the registry states, the indexes and every sweep.            *)
THEOREM TypesCorrect == Spec => []TypeOK
  BY Inductive, PTL DEF IInv

(* Every index of an applied schema exists and is valid, however many sweeps *)
(* of however many replicas failed on the way (index.rs, apply_ext_schema).  *)
THEOREM AppliedIndexed == Spec => []AppliedIsIndexed
  BY Inductive, PTL DEF IInv

(* No server's path tables hold a path without its index (state.rs,          *)
(* rebuild).                                                                 *)
THEOREM OfferedIndexed == Spec => []OfferedIsIndexed
<1>1. IInv => OfferedIsIndexed
  BY DEF IInv, TablesApplied, AppliedIsIndexed, OfferedIsIndexed
<1> QED BY <1>1, Inductive, PTL

(* One replica builds at a time, although failed sweeps leak the advisory    *)
(* lock into their pool (index.rs, apply_pending).                           *)
THEOREM BuildsApart == Spec => []OneBuilder
<1>1. IInv => OneBuilder
  BY DEF IInv, LockHeld, OneBuilder
<1> QED BY <1>1, Inductive, PTL
================================================================================
