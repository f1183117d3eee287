------------------------------ MODULE RunsSplit ------------------------------
(***************************************************************************)
(* What the one-shot migration `0003_runs_split' promises                  *)
(* (evalhub-store/src/data_migrations.rs, module doc): the stored 1.0      *)
(* Evals become headers and run rows, and every Card is given the used set *)
(* of what it judged, all in one step that happens at most once, and not   *)
(* at all when something stored cannot be converted.  The database after   *)
(* the step is stated value by value, without the order the code works in. *)
(***************************************************************************)
EXTENDS Naturals

CONSTANTS
  Evals, Cards, RunIds, MaxSeq,
  NoRun,     \* "no such run", "no row"
  Torn       \* a run naming an attachment whose sha256 does not decode

Seqs == 1..MaxSeq

(* A version: `form' is "none" (no such seq), "tomb", "v1" or "v2"; `runs' the
   runs[] of a 1.0 body by id (the last element with an id, as split_v1 takes
   it); `bad' when some element has no valid run_id; `hash' the content hash,
   kept as the content it is the hash of. *)
HashOf(v) == [form |-> v.form, header |-> v.header, runs |-> v.runs]

Nothing == [id \in RunIds |-> NoRun]

(* A run as converted carries the facets of the header it was taken from, so
   its hash is told apart by both. *)
RunHash(v, id) ==
  IF v.runs[id] = NoRun THEN NoRun ELSE [run |-> v.runs[id], header |-> v.header]

Sources(db, e) == { s \in Seqs : db.versions[e][s].form = "v1" }
Live(db, e)    == { s \in Seqs : db.versions[e][s].form \in {"v1", "v2"} }
Latest(S) == CHOOSE s \in S : \A t \in S : t <= s

(* The run of the highest among the versions S of the Eval that have it. *)
Newest(db, e, S, id) ==
  LET having == { s \in S : db.versions[e][s].runs[id] # NoRun } IN
  IF having = {} THEN NoRun ELSE RunHash(db.versions[e][Latest(having)], id)

(* The split cannot be done: an element without a valid run_id in any live
   1.0 version, or a run that would become a row and cannot be stored. *)
BadIds(db) ==
  { x \in Evals \X Seqs :
      x[2] \in Sources(db, x[1]) /\ db.versions[x[1]][x[2]].bad }
TornRows(db) ==
  { x \in Evals \X RunIds :
      LET h == Newest(db, x[1], Sources(db, x[1]), x[2]) IN h # NoRun /\ h.run = Torn }
Refused(db) == BadIds(db) # {} \/ TornRows(db) # {}

(* The live versions of Eval e that Card c points at, and the ids it names. *)
Edges(db, c, e) ==
  { x \in db.edges : x.card = c /\ x.eval = e /\ x.seq \in Live(db, e) }
Pointed(db, c, e) == { x.seq : x \in Edges(db, c, e) } \cap Sources(db, e)
Explicit(db, c, e) == { x \in Edges(db, c, e) : x.named }
Named(db, c, e) == UNION { x.ids : x \in Explicit(db, c, e) }

(* What Card c judged of Eval e: the pointed-at run; an id it names that no
   pointed-at version has is taken from the Eval's row. *)
JudgedRun(db, c, e, id) ==
  LET pointed == Newest(db, e, Pointed(db, c, e), id) IN
  IF Explicit(db, c, e) = {} THEN pointed
  ELSE IF id \notin Named(db, c, e) THEN NoRun
  ELSE IF pointed # NoRun THEN pointed
  ELSE Newest(db, e, Sources(db, e), id)

Header(v) ==
  LET h == [v EXCEPT !.form = "v2", !.runs = Nothing] IN [h EXCEPT !.hash = HashOf(h)]

Split(db) ==
  LET split == { e \in Evals : Sources(db, e) # {} }
      rows  == [e \in Evals |-> [id \in RunIds |-> Newest(db, e, Sources(db, e), id)]]
  IN [db EXCEPT
        !.versions = [e \in Evals |-> [s \in Seqs |->
                        IF s \in Sources(db, e) THEN Header(db.versions[e][s])
                                                ELSE db.versions[e][s]]],
        !.runs = rows,
        !.digest = rows,
        !.used = [c \in Cards |-> [e \in Evals |-> [id \in RunIds |->
                    IF e \in split THEN JudgedRun(db, c, e, id) ELSE NoRun]]],
        !.rewritten = { [eval |-> x[1], seq |-> x[2],
                         old |-> db.versions[x[1]][x[2]].hash,
                         new |-> Header(db.versions[x[1]][x[2]]).hash] :
                          x \in { y \in Evals \X Seqs : y[2] \in Sources(db, y[1]) } },
        !.unmatched = { x \in Cards \X Evals \X RunIds :
                          /\ x[2] \in split
                          /\ x[3] \in Named(db, x[1], x[2])
                          /\ JudgedRun(db, x[1], x[2], x[3]) = NoRun }]

-----------------------------------------------------------------------------
VARIABLES data, ran

Init == ran = FALSE
Apply == ~ ran /\ ~ Refused(data) /\ data' = Split(data) /\ ran' = TRUE
Spec == Init /\ [][Apply]_<<data, ran>>
=============================================================================
