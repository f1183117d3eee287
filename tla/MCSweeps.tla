-------------------------------- MODULE MCSweeps -------------------------------
(* Sweeps and uploads apart from each other, with the memory of the sweeps   *)
(* that were cut.                                                           *)
EXTENDS MCAttachments

(* The digests whose object a sweep deleted before it was cut, their row     *)
(* still there (a history variable).                                        *)
VARIABLE cut

CutNow == {s \in Shas : \E g \in Replicas :
  sweep[g] # None /\ sweep[g].deleting = s /\ sweep'[g] = None}
SweepsNext ==
  /\ ApartNext
  /\ cut' = {s \in cut \cup CutNow : row'[s] # None /\ object'[s] = None}
SweepsSpec == Init /\ cut = {} /\ [][SweepsNext]_<<vars, cut>>

(* What a posted version or run references can be downloaded: its row is     *)
(* ready and the object there, unless a sweep was cut right between the two  *)
(* deletions.  The collector counts the references of versions and of runs.  *)
ServedUnlessCut == \A s \in Shas \ cut :
  Referenced(s) => Ready(s) /\ object[s] # None
================================================================================
