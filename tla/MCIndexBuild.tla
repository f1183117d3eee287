----------------------------- MODULE MCIndexBuild -----------------------------
(* Two schemas that share a path, on two servers.                           *)
EXTENDS IndexBuild, TLC

CONSTANTS a, b, rung, depth, num, str

MCTypeAt == (a :> (rung :> num)) @@ (b :> (rung :> num @@ depth :> str))

LiveSpec == Spec /\ Fairness

(* No statement fails and no server stops.                                  *)
SteadyNext ==
  \/ \E x \in Schemas : Put(x)
  \/ \E g \in Replicas : SweepStep(g)
SteadySpec ==
  Init /\ [][SteadyNext]_vars /\ \A g \in Replicas : SF_vars(SweepStep(g))
================================================================================
