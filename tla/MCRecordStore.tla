----------------------------- MODULE MCRecordStore -----------------------------
(* Small instances of RecordStore.  Ids below 10 are Evals, the others Cards. *)
EXTENDS RecordStore

CONSTANTS w1, w2, mine, theirs, r1, r2, x, y

Uses(e, s) == [type |-> "core/uses_eval", to |-> e, seq |-> s, named |-> FALSE, runs |-> {}]
UsesRuns(e, s, is) == [Uses(e, s) EXCEPT !.named = TRUE, !.runs = is]
Cites(r, s) == [Uses(r, s) EXCEPT !.type = "other"]

Header(n) == [id |-> n, relations |-> {}, run_results |-> {}]
Card(n, rels, judged) == [id |-> n, relations |-> rels, run_results |-> judged]

(* The Evals belong to a namespace of their own that only w2's token covers. *)
MCNs == {mine, theirs}
MCNsOf == [r \in Records |-> IF r \in Evals THEN theirs ELSE mine]
TwoWriters == {w1, w2}
MCCovers == [w \in Writers |-> IF w = w1 THEN {mine} ELSE {theirs}]
BothCoverAll == [w \in Writers |-> {mine, theirs}]

NoBodies == {}
OneHeader == {Header(1)}
(* The second one points at the first version of the name. *)
TwoHeaders == {Header(1), [Header(2) EXCEPT !.relations = {Cites(1, 1)}]}
(* Cards that take every live run of Eval 1, one of them judging r1.        *)
UsingCards == {Card(3, {Uses(1, 1)}, {<<1, r1>>}), Card(4, {Uses(1, 1)}, {})}
TwoEvalCard == {Card(3, {Uses(1, 1), Uses(2, 1)}, {})}

NoEdges == {}
UseOne == {Uses(1, 1)}
MCNewEdges == {UsesRuns(1, 1, {r1}), Uses(1, 1)}

(* Who waits for whom, from the state in which both Evals have their header. *)
(* The short writes are left out: they hold no lock beyond their own step.  *)
PostedHeader == [content_hash |-> Header(1), label |-> NoLabel,
                 tombstoned |-> FALSE, refs_resolved |-> TRUE]
EvalsPosted ==
  /\ versions = [r \in Records |-> [s \in Seqs |->
                   IF r \in Evals /\ s = 1 THEN PostedHeader ELSE NoRow]]
  /\ visibility = [r \in Records |-> "private"]
  /\ runs = [e \in Evals |-> NoRuns]
  /\ runs_hash = [e \in Evals |-> {}]
  /\ relations = {} /\ card_eval_runs = {} /\ run_results = {}
ProgressInit == EvalsPosted /\ Quiet
ProgressNext == \E w \in Writers : Begin(w) \/ Step(w) \/ Abort(w)
ProgressSpec == ProgressInit /\ [][ProgressNext]_vars /\ Fairness
================================================================================
