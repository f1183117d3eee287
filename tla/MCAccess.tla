------------------------------ MODULE MCAccess ------------------------------
(* Access on two users, one organisation and one free name. *)
EXTENDS Access, TLC
CONSTANTS alice, bob, acme, lab

(* acme has two admins; each may act, delegate, re-role and remove the other,
   and found lab; the command line may create a user named after either. *)
MCOffers ==
  { [op |-> "act", ns |-> acme, scope |-> Write], [op |-> "act", ns |-> lab, scope |-> Admin],
    [op |-> "issue", scope |-> Admin, list |-> {acme}],
    [op |-> "issue", scope |-> Write, list |-> {bob, lab}],
    [op |-> "org", ns |-> lab],
    [op |-> "add", ns |-> acme, user |-> bob, role |-> Read],
    [op |-> "add", ns |-> lab, user |-> bob, role |-> Admin],
    [op |-> "remove", ns |-> acme, user |-> bob],
    [op |-> "remove", ns |-> acme, user |-> alice] }
  \cup [op : {"revoke"}, token : Requests \cup {bob}]
MCCliOffers == { [op |-> "cli", login |-> lab, scope |-> Write] }
MCFirstRole ==
  [n \in Names |-> [u \in Names |->
     IF n = acme /\ u = alice THEN Admin
     ELSE IF n = acme /\ u = bob THEN Admin ELSE None]]
Symmetry == Permutations(Requests)
=============================================================================
