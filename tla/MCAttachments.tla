----------------------------- MODULE MCAttachments -----------------------------
(* Small instances of Attachments, and an assumption about its environment: *)
(* no client works on an upload a sweep is collecting.                      *)
EXTENDS Attachments

CONSTANTS genuine, other

MCBytes == [s \in Shas |-> genuine]
MCSizeOf == [c \in Contents |-> IF c = genuine THEN 1 ELSE 2]

Swept(s) == \E g \in Replicas :
  sweep[g] # None /\ (s \in sweep[g].todo \/ s = sweep[g].deleting)
InUse(s) ==
  \/ \E c \in Clients :
       <<c, s>> \in urls \/ (completing[c] # None /\ completing[c].sha = s)
  \/ \E p \in Publishers : publishing[p] # None /\ s \in publishing[p].shas
NoOverlap == \A s \in Shas : ~(Swept(s) /\ InUse(s))

ApartNext == Next /\ NoOverlap'

LiveSpec == Spec /\ Fairness
================================================================================
