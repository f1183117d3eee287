---------------------------- MODULE MCMigrations ----------------------------
(* Two Evals: one with two versions and a Card pointing at either or both,
   one with a single version, good or bad. *)
EXTENDS DataMigrations, TLC
CONSTANTS e1, e2, c1, a, b, h1, h2

MCEvalOrder == <<e1, e2>>
Made(v) == v @@ [hash |-> Split!HashOf(v)]
Absent == Made([form |-> "none", header |-> h1, runs |-> Nothing, bad |-> FALSE])
V1(h, runs, bad) == Made([form |-> "v1", header |-> h, runs |-> runs, bad |-> bad])

Fresh(vs1, vs2, edges) ==
  [versions |-> [e \in Evals |-> IF e = e1 THEN vs1 ELSE vs2], edges |-> edges,
   runs |-> [e \in Evals |-> Nothing], digest |-> [e \in Evals |-> Nothing],
   used |-> [c \in Cards |-> [e \in Evals |-> Nothing]],
   rewritten |-> {}, unmatched |-> {}]

First  == { V1(h1, r, FALSE) : r \in [RunIds -> {1, NoRun}] }
          \cup { V1(h1, [id \in RunIds |-> 1], TRUE),
                 [Absent EXCEPT !.form = "tomb"] }
Second == { V1(h2, r, FALSE) : r \in [RunIds -> {2, Torn, NoRun}] }
          \cup { Absent, [Absent EXCEPT !.form = "tomb"] }
Other  == { Absent, V1(h1, [id \in RunIds |-> 1], FALSE),
            V1(h1, [id \in RunIds |-> 1], TRUE), V1(h2, [id \in RunIds |-> Torn], FALSE) }

(* What a Card's edge into one version can be: none, without attrs.runs, or
   naming some ids; an edge needs a version to have existed. *)
EdgesTo(s, v) ==
  IF v.form = "none" THEN {{}}
  ELSE {{}} \cup { {[card |-> c1, eval |-> e1, seq |-> s, named |-> n, ids |-> ids]} :
                     <<n, ids>> \in {<<FALSE, {}>>, <<TRUE, {}>>, <<TRUE, {a, b}>>} }

Old == UNION { UNION { { Fresh(<<v, w>>, <<o, Absent>>, x \cup y) :
                           x \in EdgesTo(1, v), y \in EdgesTo(2, w), o \in Other } :
                         w \in Second } : v \in First }
MCDatabases == { [sql |-> 2, db |-> d] : d \in Old }
               \cup { [sql |-> 0, db |-> Fresh(<<Absent, Absent>>, <<Absent, Absent>>, {})] }
Symmetry == Permutations(Migrators)
=============================================================================
