--------------------------- MODULE AttachmentsProofs ---------------------------
(***************************************************************************)
(* Proofs about Attachments, for any digests, holders, clients, writers and *)
(* replicas: a referenced row is never collected, a confirmed row never     *)
(* changes, and - when clients and sweeps keep off each other's uploads - no *)
(* object leaks and whatever is referenced is served unless a sweep was cut. *)
(***************************************************************************)
EXTENDS MCSweeps, TLAPS

(* A transaction that inserted its references holds their rows by the
   foreign key's lock. *)
InsertedInv == \A p \in Publishers :
  publishing[p] # None /\ publishing[p].at = "inserted" =>
    \A s \in publishing[p].shas : row[s] # None

Inv == TypeOK /\ RefsKeepRow /\ InsertedInv

(* What a step may do to the rows short of collecting one: none goes, none
   becomes unready, a ready one keeps its size. *)
RowsStay ==
  \A t \in Shas : /\ row[t] # None => row'[t] # None
                  /\ Ready(t) => Ready(t)' /\ row'[t].size = row[t].size

-----------------------------------------------------------------------------
(* The single updates of a row. *)
LEMMA Reannounced ==
  ASSUME NEW r \in Row, NEW n \in Nat
  PROVE  /\ AfterAnnounce(r, n) \in Row /\ AfterAnnounce(r, n).state = r.state
         /\ r.state = "ready" => AfterAnnounce(r, n).size = r.size
  BY DEF Row, AfterAnnounce

LEMMA Confirmed ==
  ASSUME NEW r \in Row
  PROVE  LET m == [r EXCEPT !.state = "ready"]
         IN  m \in Row /\ m.state = "ready" /\ m.size = r.size
  BY DEF Row

LEMMA Aged ==
  ASSUME NEW r \in Row
  PROVE  LET m == [r EXCEPT !.old = TRUE]
         IN  m \in Row /\ m.state = r.state /\ m.size = r.size
  BY DEF Row

LEMMA AnnounceRows ==
  ASSUME TypeOK, NEW c \in Clients, NEW s \in Shas, NEW n \in Announced, Announce(c, s, n)
  PROVE  /\ row' \in [Shas -> Row \cup {None}] /\ RowsStay /\ row'[s] # None
         /\ \A t \in Shas : Ready(t)' => Ready(t)
<1> DEFINE new == [size |-> n, state |-> "pending", old |-> FALSE]
           R == IF row[s] = None THEN new ELSE AfterAnnounce(row[s], n)
<1>1. n \in Nat
  BY AttachmentsAssumption
<1>2. new \in Row /\ new.state = "pending"
  BY <1>1 DEF Row
<1>3. /\ R \in Row
      /\ row[s] # None => R.state = row[s].state /\ (R.state = "ready" => R.size = row[s].size)
      /\ row[s] = None => R.state = "pending"
  <2>1. CASE row[s] = None
    BY <2>1, <1>2
  <2>2. CASE row[s] # None
    <3>1. row[s] \in Row
      BY <2>2 DEF TypeOK
    <3> QED BY <2>2, <3>1, <1>1, Reannounced
  <2> QED BY <2>1, <2>2
<1>4. row' = [row EXCEPT ![s] = R]
  BY DEF Announce
<1> HIDE DEF R, new
<1>5. row'[s] = R /\ \A t \in Shas \ {s} : row'[t] = row[t]
  BY <1>4 DEF TypeOK
<1>6. row' \in [Shas -> Row \cup {None}]
  BY <1>3, <1>4 DEF TypeOK
<1>7. R # None
  BY <1>3, NoneAssumption
<1>8. ASSUME NEW t \in Shas
      PROVE  /\ row[t] # None => row'[t] # None
             /\ Ready(t)' <=> Ready(t)
             /\ Ready(t) => row'[t].size = row[t].size
  <2>1. CASE t = s
    BY <2>1, <1>3, <1>5, <1>7 DEF Ready
  <2>2. CASE t # s
    BY <2>2, <1>5 DEF Ready
  <2> QED BY <2>1, <2>2
<1> QED BY <1>5, <1>6, <1>7, <1>8 DEF RowsStay

LEMMA ConfirmRows ==
  ASSUME TypeOK, NEW c \in Clients, CompleteUpdate(c)
  PROVE  /\ row' \in [Shas -> Row \cup {None}] /\ RowsStay
         /\ completing[c] \in Completing /\ completing[c].at = "update"
         /\ \A t \in Shas : /\ row'[t] # None => row[t] # None
                            /\ Ready(t)' => Ready(t) \/ t = completing[c].sha
<1> DEFINE s == completing[c].sha
           R == IF row[s] = None THEN None ELSE [row[s] EXCEPT !.state = "ready"]
<1>1. completing[c] \in Completing /\ s \in Shas /\ completing[c].at = "update"
  BY DEF TypeOK, CompleteUpdate, Completing
<1>2. /\ R \in Row \cup {None} /\ (R = None <=> row[s] = None)
      /\ row[s] # None => R.state = "ready" /\ R.size = row[s].size
  <2>1. CASE row[s] = None
    BY <2>1
  <2>2. CASE row[s] # None
    <3>1. row[s] \in Row
      BY <2>2, <1>1 DEF TypeOK
    <3> QED BY <2>2, <3>1, Confirmed, NoneAssumption
  <2> QED BY <2>1, <2>2
<1>3. row' = [row EXCEPT ![s] = R]
  BY DEF CompleteUpdate
<1> HIDE DEF R
<1>4. row'[s] = R /\ \A t \in Shas \ {s} : row'[t] = row[t]
  BY <1>1, <1>3 DEF TypeOK
<1>5. row' \in [Shas -> Row \cup {None}]
  BY <1>1, <1>2, <1>3 DEF TypeOK
<1>6. ASSUME NEW t \in Shas
      PROVE  /\ row[t] # None <=> row'[t] # None
             /\ Ready(t) => Ready(t)' /\ row'[t].size = row[t].size
             /\ Ready(t)' => Ready(t) \/ t = s
  <2>1. CASE t = s
    BY <2>1, <1>2, <1>4 DEF Ready
  <2>2. CASE t # s
    BY <2>2, <1>4 DEF Ready
  <2> QED BY <2>1, <2>2
<1> QED BY <1>1, <1>5, <1>6 DEF RowsStay

LEMMA AgeRows ==
  ASSUME TypeOK, NEW s \in Shas, Age(s)
  PROVE  /\ row' \in [Shas -> Row \cup {None}] /\ RowsStay
         /\ \A t \in Shas : /\ row'[t] # None => row[t] # None
                            /\ Ready(t)' => Ready(t)
<1> DEFINE R == [row[s] EXCEPT !.old = TRUE]
<1>1. row[s] \in Row
  BY DEF TypeOK, Age
<1>2. R \in Row /\ R.state = row[s].state /\ R.size = row[s].size
  BY <1>1, Aged
<1>3. row' = [row EXCEPT ![s] = R]
  BY DEF Age
<1> HIDE DEF R
<1>4. row'[s] = R /\ \A t \in Shas \ {s} : row'[t] = row[t]
  BY <1>3 DEF TypeOK
<1>5. row' \in [Shas -> Row \cup {None}]
  BY <1>2, <1>3 DEF TypeOK
<1> QED BY <1>1, <1>2, <1>4, <1>5, NoneAssumption DEF RowsStay, Ready

(* The collector's DELETE touches the digest it is at, and only without
   references and without an insert that holds the row. *)
LEMMA CollectRows ==
  ASSUME TypeOK, NEW g \in Replicas, GcDeleteRow(g)
  PROVE  /\ row' \in [Shas -> Row \cup {None}]
         /\ sweep[g] # None /\ sweep[g].deleting \in Shas
         /\ \A t \in Shas : t # sweep[g].deleting \/ Referenced(t) => row'[t] = row[t]
         /\ ~Referenced(sweep[g].deleting) => row'[sweep[g].deleting] = None
         /\ ~Inserting(sweep[g].deleting)
<1> DEFINE s == sweep[g].deleting
           R == IF Referenced(s) THEN row[s] ELSE None
<1>1. sweep[g] # None /\ s \in Shas
  BY DEF TypeOK, GcDeleteRow, Sweep
<1>2. row' = [row EXCEPT ![s] = R] /\ ~Inserting(s)
  BY DEF GcDeleteRow
<1>3. R \in Row \cup {None}
  BY <1>1 DEF TypeOK
<1> HIDE DEF R
<1>4. row'[s] = R /\ (\A t \in Shas \ {s} : row'[t] = row[t])
      /\ row' \in [Shas -> Row \cup {None}]
  BY <1>1, <1>2, <1>3 DEF TypeOK
<1> QED BY <1>1, <1>2, <1>4 DEF R

-----------------------------------------------------------------------------
LEMMA InitInv == Init => Inv
  BY DEF Init, Inv, TypeOK, RefsKeepRow, InsertedInv, Referenced

(* Where a call stands: complete of objects.rs, and a transaction that posts
   a version or writes runs. *)
LEMMA CompletingAt ==
  ASSUME NEW m \in Completing, NEW at \in {"head", "hash", "update"}
  PROVE  LET n == [m EXCEPT !.at = at]
         IN  n \in Completing /\ n.sha = m.sha /\ n.at = at
  BY DEF Completing

LEMMA PublishingAt ==
  ASSUME NEW m \in Publishing, NEW at \in {"checked", "inserted"}
  PROVE  LET n == [m EXCEPT !.at = at]
         IN  n \in Publishing /\ n.shas = m.shas /\ n.holder = m.holder /\ n.at = at
  BY DEF Publishing

LEMMA CompleteMoves ==
  ASSUME TypeOK, NEW c \in Clients, completing[c] # None,
         NEW at \in {"head", "hash", "update"},
         CompleteEnds(c) \/ CompleteAt(c, at)
  PROVE  /\ completing' \in [Clients -> Completing \cup {None}]
         /\ \A b \in Clients \ {c} : completing'[b] = completing[b]
         /\ \/ completing'[c] = None
            \/ /\ completing'[c].sha = completing[c].sha
               /\ completing'[c].at = at /\ CompleteAt(c, at)
<1>1. completing[c] \in Completing
  BY DEF TypeOK
<1>2. CASE CompleteEnds(c)
  BY <1>2 DEF CompleteEnds, TypeOK
<1>3. CASE CompleteAt(c, at)
  <2> DEFINE n == [completing[c] EXCEPT !.at = at]
  <2>1. n \in Completing /\ n.sha = completing[c].sha /\ n.at = at
    BY <1>1, CompletingAt
  <2>2. completing' = [completing EXCEPT ![c] = n]
    BY <1>3 DEF CompleteAt
  <2> HIDE DEF n
  <2> QED BY <1>3, <2>1, <2>2 DEF TypeOK
<1> QED BY <1>2, <1>3

LEMMA InsertMoves ==
  ASSUME TypeOK, NEW p \in Publishers, PublishInsert(p)
  PROVE  /\ publishing' \in [Publishers -> Publishing \cup {None}]
         /\ publishing[p] \in Publishing /\ publishing[p].at = "checked"
         /\ \A o \in Publishers \ {p} : publishing'[o] = publishing[o]
         /\ \/ publishing'[p] = None
            \/ /\ publishing'[p].shas = publishing[p].shas
               /\ \A s \in publishing[p].shas : row[s] # None
<1>1. publishing[p] \in Publishing /\ publishing[p].at = "checked"
  BY DEF TypeOK, PublishInsert
<1>2. CASE \A s \in publishing[p].shas : row[s] # None
  <2> DEFINE n == [publishing[p] EXCEPT !.at = "inserted"]
  <2>1. n \in Publishing /\ n.shas = publishing[p].shas
    BY <1>1, PublishingAt
  <2>2. publishing' = [publishing EXCEPT ![p] = n]
    BY <1>2 DEF PublishInsert
  <2> HIDE DEF n
  <2> QED BY <1>1, <1>2, <2>1, <2>2 DEF TypeOK
<1>3. CASE ~ \A s \in publishing[p].shas : row[s] # None
  BY <1>1, <1>3 DEF PublishInsert, PublishEnds, TypeOK
<1> QED BY <1>2, <1>3

LEMMA SweepMoves ==
  ASSUME TypeOK, NEW g \in Replicas, GcDeleteRow(g)
  PROVE  /\ sweep' \in [Replicas -> Sweep \cup {None}] /\ gcLock' \in Replicas \cup {None}
         /\ \A o \in Replicas \ {g} : sweep'[o] = sweep[o]
         /\ \/ sweep'[g] = None
            \/ sweep'[g].todo = sweep[g].todo /\ sweep'[g].deleting = None
<1>1. sweep[g] \in Sweep
  BY DEF TypeOK, GcDeleteRow
<1>2. CASE SweepEnds(g)
  BY <1>1, <1>2 DEF SweepEnds, TypeOK
<1>3. CASE sweep' = [sweep EXCEPT ![g].deleting = None] /\ UNCHANGED gcLock
  <2> DEFINE n == [sweep[g] EXCEPT !.deleting = None]
  <2>1. n \in Sweep /\ n.todo = sweep[g].todo /\ n.deleting = None
    BY <1>1 DEF Sweep
  <2>2. sweep' = [sweep EXCEPT ![g] = n]
    BY <1>3
  <2> HIDE DEF n
  <2> QED BY <1>3, <2>1, <2>2 DEF TypeOK
<1> QED BY <1>2, <1>3 DEF GcDeleteRow

-----------------------------------------------------------------------------
(* Every step keeps the types. *)
LEMMA TypeStep == TypeOK /\ [Next]_vars => TypeOK'
<1> SUFFICES ASSUME TypeOK, [Next]_vars PROVE TypeOK'
  OBVIOUS
<1>1. ASSUME NEW c \in Clients, NEW s \in Shas, NEW n \in Announced, Announce(c, s, n)
      PROVE  TypeOK'
  <2>1. row' \in [Shas -> Row \cup {None}]
    BY <1>1, AnnounceRows
  <2>2. urls' \subseteq Clients \X Shas
    BY <1>1 DEF Announce, TypeOK
  <2> QED BY <1>1, <2>1, <2>2 DEF Announce, TypeOK
<1>2. ASSUME NEW c \in Clients, NEW s \in Shas, NEW content \in Contents, Put(c, s, content)
      PROVE  TypeOK'
  BY <1>2 DEF Put, TypeOK
<1>3. ASSUME NEW c \in Clients, NEW s \in Shas, UrlExpires(c, s) PROVE TypeOK'
  BY <1>3 DEF UrlExpires, TypeOK
<1>4. ASSUME NEW c \in Clients, NEW s \in Shas, CompleteBegin(c, s) PROVE TypeOK'
  <2>1. row[s] \in Row
    BY <1>4 DEF CompleteBegin, TypeOK
  <2>2. [sha |-> s, size |-> row[s].size, at |-> "head"] \in Completing
    BY <2>1 DEF Row, Completing
  <2>3. completing' \in [Clients -> Completing \cup {None}]
    BY <1>4, <2>2 DEF CompleteBegin, TypeOK
  <2> QED BY <1>4, <2>3 DEF CompleteBegin, CompleteUnchanged, TypeOK
<1>5. ASSUME NEW c \in Clients, CompleteHead(c) PROVE TypeOK'
  <2>1. completing' \in [Clients -> Completing \cup {None}]
    <3>1. CASE CompleteEnds(c)
      BY <1>5, <3>1, CompleteMoves DEF CompleteHead
    <3>2. CASE CompleteAt(c, "hash")
      BY <1>5, <3>2, CompleteMoves DEF CompleteHead
    <3>3. CASE CompleteAt(c, "update")
      BY <1>5, <3>3, CompleteMoves DEF CompleteHead
    <3> QED BY <1>5, <3>1, <3>2, <3>3 DEF CompleteHead
  <2> QED BY <1>5, <2>1 DEF CompleteHead, CompleteUnchanged, TypeOK
<1>6. ASSUME NEW c \in Clients, CompleteHash(c) PROVE TypeOK'
  <2>1. completing' \in [Clients -> Completing \cup {None}]
    BY <1>6, CompleteMoves DEF CompleteHash
  <2> QED BY <1>6, <2>1 DEF CompleteHash, CompleteUnchanged, TypeOK
<1>7. ASSUME NEW c \in Clients, CompleteUpdate(c) PROVE TypeOK'
  <2>1. completing' \in [Clients -> Completing \cup {None}]
    BY <1>7, CompleteMoves DEF CompleteUpdate
  <2>2. row' \in [Shas -> Row \cup {None}]
    BY <1>7, ConfirmRows
  <2> QED BY <1>7, <2>1, <2>2 DEF CompleteUpdate, CompleteUnchanged, TypeOK
<1>8. ASSUME NEW s \in Shas, Age(s) PROVE TypeOK'
  <2>1. row' \in [Shas -> Row \cup {None}]
    BY <1>8, AgeRows
  <2> QED BY <1>8, <2>1 DEF Age, TypeOK
<1>9. ASSUME NEW p \in Publishers, NEW h \in Holders, NEW shas \in SUBSET Shas,
             PublishCheck(p, h, shas)
      PROVE  TypeOK'
  <2>1. [holder |-> h, shas |-> shas, at |-> "checked"] \in Publishing
    BY DEF Publishing
  <2>2. publishing' \in [Publishers -> Publishing \cup {None}]
    BY <1>9, <2>1 DEF PublishCheck, TypeOK
  <2> QED BY <1>9, <2>2 DEF PublishCheck, PublishUnchanged, TypeOK
<1>10. ASSUME NEW p \in Publishers, PublishInsert(p) PROVE TypeOK'
  <2>1. publishing' \in [Publishers -> Publishing \cup {None}]
    BY <1>10, InsertMoves
  <2> QED BY <1>10, <2>1 DEF PublishInsert, PublishUnchanged, TypeOK
<1>11. ASSUME NEW p \in Publishers, PublishCommit(p) PROVE TypeOK'
  <2>1. publishing[p] \in Publishing
    BY <1>11 DEF PublishCommit, TypeOK
  <2>2. publishing[p].holder \in Holders /\ publishing[p].shas \subseteq Shas
    BY <2>1 DEF Publishing
  <2>3. refs' \subseteq Holders \X Shas
    BY <1>11, <2>2 DEF PublishCommit, TypeOK
  <2>4. /\ holder' \in [Holders -> {"absent", "live", "deleted"}]
        /\ publishing' \in [Publishers -> Publishing \cup {None}]
    BY <1>11, <2>2 DEF PublishCommit, PublishEnds, TypeOK
  <2> QED BY <1>11, <2>3, <2>4 DEF PublishCommit, PublishUnchanged, TypeOK
<1>12. ASSUME NEW p \in Publishers, PublishAbort(p) PROVE TypeOK'
  BY <1>12 DEF PublishAbort, PublishEnds, PublishUnchanged, TypeOK
<1>13. ASSUME NEW h \in Holders, Delete(h) PROVE TypeOK'
  BY <1>13 DEF Delete, PublishUnchanged, TypeOK
<1>14. ASSUME NEW g \in Replicas, GcBegin(g) PROVE TypeOK'
  <2>1. [todo |-> GcCandidates, deleting |-> None] \in Sweep
    BY DEF Sweep, GcCandidates
  <2>2. sweep' \in [Replicas -> Sweep \cup {None}] /\ gcLock' \in Replicas \cup {None}
    BY <1>14, <2>1 DEF GcBegin, TypeOK
  <2> QED BY <1>14, <2>2 DEF GcBegin, GcUnchanged, TypeOK
<1>15. ASSUME NEW g \in Replicas, GcDeleteObject(g) PROVE TypeOK'
  <2>1. sweep[g] \in Sweep
    BY <1>15 DEF GcDeleteObject, TypeOK
  <2>2. PICK s \in sweep[g].todo :
          /\ object' = [object EXCEPT ![s] = None]
          /\ sweep' = [sweep EXCEPT ![g] = [todo |-> sweep[g].todo \ {s}, deleting |-> s]]
    BY <1>15 DEF GcDeleteObject
  <2>3. [todo |-> sweep[g].todo \ {s}, deleting |-> s] \in Sweep /\ s \in Shas
    BY <2>1 DEF Sweep
  <2>4. /\ sweep' \in [Replicas -> Sweep \cup {None}]
        /\ object' \in [Shas -> Contents \cup {None}]
    BY <2>2, <2>3 DEF TypeOK
  <2> QED BY <1>15, <2>4 DEF GcDeleteObject, GcUnchanged, TypeOK
<1>16. ASSUME NEW g \in Replicas, GcDeleteRow(g) PROVE TypeOK'
  BY <1>16, CollectRows, SweepMoves DEF GcDeleteRow, GcUnchanged, TypeOK
<1>17. ASSUME NEW g \in Replicas, GcFails(g) PROVE TypeOK'
  BY <1>17 DEF GcFails, SweepEnds, GcUnchanged, TypeOK
<1>18. CASE UNCHANGED vars
  BY <1>18 DEF vars, TypeOK
<1> QED BY <1>1, <1>2, <1>3, <1>4, <1>5, <1>6, <1>7, <1>8, <1>9, <1>10, <1>11, <1>12,
           <1>13, <1>14, <1>15, <1>16, <1>17, <1>18 DEF Next, ClientStep, GcStep

-----------------------------------------------------------------------------
(* Whose step it is, and what the others' steps leave alone. *)
PublishStep(p) ==
  \/ \E h \in Holders, shas \in SUBSET Shas : PublishCheck(p, h, shas)
  \/ PublishInsert(p) \/ PublishCommit(p) \/ PublishAbort(p)

LEMMA Steps ==
  ASSUME Next
  PROVE  \/ \E c \in Clients : ClientStep(c) /\ UNCHANGED <<refs, holder, publishing, gcLock, sweep>>
         \/ \E s \in Shas : Age(s)
         \/ \E p \in Publishers : PublishStep(p) /\ PublishUnchanged
         \/ \E h \in Holders : Delete(h)
         \/ \E g \in Replicas : (GcStep(g) \/ GcFails(g)) /\ GcUnchanged
<1>1. ASSUME NEW c \in Clients, ClientStep(c)
      PROVE  UNCHANGED <<refs, holder, publishing, gcLock, sweep>>
  <2>1. ASSUME NEW s \in Shas, NEW n \in Announced, Announce(c, s, n)
        PROVE  UNCHANGED <<refs, holder, publishing, gcLock, sweep>>
    BY <2>1 DEF Announce
  <2>2. ASSUME NEW s \in Shas, NEW content \in Contents, Put(c, s, content)
        PROVE  UNCHANGED <<refs, holder, publishing, gcLock, sweep>>
    BY <2>2 DEF Put
  <2>3. ASSUME NEW s \in Shas, UrlExpires(c, s) \/ CompleteBegin(c, s)
        PROVE  UNCHANGED <<refs, holder, publishing, gcLock, sweep>>
    BY <2>3 DEF UrlExpires, CompleteBegin, CompleteUnchanged
  <2>4. CASE CompleteHead(c) \/ CompleteHash(c) \/ CompleteUpdate(c)
    BY <2>4 DEF CompleteHead, CompleteHash, CompleteUpdate, CompleteUnchanged
  <2> QED BY <1>1, <2>1, <2>2, <2>3, <2>4 DEF ClientStep
<1>2. ASSUME NEW p \in Publishers, PublishStep(p) PROVE PublishUnchanged
  BY <1>2 DEF PublishStep, PublishCheck, PublishInsert, PublishCommit, PublishAbort
<1>3. ASSUME NEW g \in Replicas, GcStep(g) \/ GcFails(g) PROVE GcUnchanged
  BY <1>3 DEF GcStep, GcBegin, GcDeleteObject, GcDeleteRow, GcFails
<1>4. \/ \E c \in Clients : ClientStep(c)
      \/ \E s \in Shas : Age(s)
      \/ \E p \in Publishers : PublishStep(p)
      \/ \E h \in Holders : Delete(h)
      \/ \E g \in Replicas : GcStep(g) \/ GcFails(g)
  BY DEF Next, PublishStep
<1> QED BY <1>1, <1>2, <1>3, <1>4

(* Rows that are not collected: any step but the collector's DELETE. *)
LEMMA OnlyTheCollector ==
  ASSUME TypeOK, Next, \A g \in Replicas : ~GcDeleteRow(g)
  PROVE  RowsStay
<1>1. CASE UNCHANGED row
  BY <1>1 DEF RowsStay, Ready
<1>2. ASSUME NEW c \in Clients, ClientStep(c) PROVE RowsStay
  <2>1. ASSUME NEW s \in Shas, NEW n \in Announced, Announce(c, s, n) PROVE RowsStay
    BY <2>1, AnnounceRows
  <2>2. CASE CompleteUpdate(c)
    BY <2>2, ConfirmRows
  <2>3. ASSUME NEW s \in Shas, NEW content \in Contents, Put(c, s, content) PROVE UNCHANGED row
    BY <2>3 DEF Put
  <2>4. ASSUME NEW s \in Shas, UrlExpires(c, s) \/ CompleteBegin(c, s) PROVE UNCHANGED row
    BY <2>4 DEF UrlExpires, CompleteBegin
  <2>5. CASE CompleteHead(c) \/ CompleteHash(c)
    BY <2>5, <1>1 DEF CompleteHead, CompleteHash
  <2> QED BY <1>1, <1>2, <2>1, <2>2, <2>3, <2>4, <2>5 DEF ClientStep
<1>3. ASSUME NEW s \in Shas, Age(s) PROVE RowsStay
  BY <1>3, AgeRows
<1>4. CASE PublishUnchanged
  BY <1>1, <1>4 DEF PublishUnchanged
<1>5. ASSUME NEW h \in Holders, Delete(h) PROVE RowsStay
  BY <1>4, <1>5 DEF Delete
<1>6. ASSUME NEW g \in Replicas, GcBegin(g) \/ GcDeleteObject(g) \/ GcFails(g) PROVE RowsStay
  BY <1>1, <1>6 DEF GcBegin, GcDeleteObject, GcFails
<1> QED BY <1>2, <1>3, <1>4, <1>5, <1>6, Steps DEF GcStep

(* What a transaction has inserted stays covered: the foreign key asks for
   the row at the INSERT and the collector's DELETE waits after it. *)
LEMMA InsertedStep == Inv /\ [Next]_vars => InsertedInv'
<1> SUFFICES ASSUME Inv, [Next]_vars,
                    NEW p \in Publishers, publishing'[p] # None,
                    publishing'[p].at = "inserted",
                    NEW s \in Shas, s \in publishing'[p].shas
             PROVE  row'[s] # None
  <2> SUFFICES ASSUME Inv, [Next]_vars PROVE InsertedInv'
    OBVIOUS
  <2>1. publishing' \in [Publishers -> Publishing \cup {None}]
    BY TypeStep DEF Inv, TypeOK
  <2> QED BY <2>1 DEF InsertedInv, Publishing
<1>1. CASE publishing'[p] = publishing[p]
  <2>1. row[s] # None /\ Inserting(s)
    BY <1>1 DEF Inv, InsertedInv, Inserting
  <2>2. ASSUME NEW g \in Replicas, GcDeleteRow(g) PROVE row'[s] = row[s]
    BY <2>1, <2>2, CollectRows DEF Inv
  <2>3. CASE Next
    BY <2>1, <2>2, <2>3, OnlyTheCollector DEF Inv, RowsStay
  <2>4. CASE UNCHANGED vars
    BY <2>1, <2>4 DEF vars
  <2> QED BY <2>3, <2>4
<1>2. CASE publishing'[p] # publishing[p]
  <2>1. PICK q \in Publishers : PublishStep(q) /\ UNCHANGED row
    BY <1>2, Steps DEF vars, Age, Delete, GcUnchanged, PublishUnchanged
  <2>2. ASSUME NEW h \in Holders, NEW shas \in SUBSET Shas, PublishCheck(q, h, shas)
        PROVE  FALSE
    <3>1. publishing' = [publishing EXCEPT ![q] = [holder |-> h, shas |-> shas, at |-> "checked"]]
      BY <2>2 DEF PublishCheck
    <3>2. publishing'[p] = [holder |-> h, shas |-> shas, at |-> "checked"]
      BY <1>2, <3>1 DEF Inv, TypeOK
    <3> QED BY <3>2
  <2>3. CASE PublishInsert(q)
    BY <1>2, <2>1, <2>3, InsertMoves DEF Inv
  <2>4. CASE PublishCommit(q) \/ PublishAbort(q)
    BY <1>2, <2>4 DEF PublishCommit, PublishAbort, PublishEnds, Inv, TypeOK
  <2> QED BY <2>1, <2>2, <2>3, <2>4 DEF PublishStep
<1> QED BY <1>1, <1>2

(* No referenced row goes: the collector looks for references again in its
   DELETE, and a commit adds only what its INSERT was let through for. *)
LEMMA RefsStep == Inv /\ [Next]_vars => RefsKeepRow'
<1> SUFFICES ASSUME Inv, [Next]_vars, NEW s \in Shas, Referenced(s)' PROVE row'[s] # None
  BY DEF RefsKeepRow
<1>1. CASE Referenced(s)
  <2>1. row[s] # None
    BY <1>1 DEF Inv, RefsKeepRow
  <2>2. ASSUME NEW g \in Replicas, GcDeleteRow(g) PROVE row'[s] = row[s]
    BY <1>1, <2>2, CollectRows DEF Inv
  <2>3. CASE Next
    BY <2>1, <2>2, <2>3, OnlyTheCollector DEF Inv, RowsStay
  <2>4. CASE UNCHANGED vars
    BY <2>1, <2>4 DEF vars
  <2> QED BY <2>3, <2>4
<1>2. CASE ~Referenced(s)
  <2>1. refs' # refs
    BY <1>2 DEF Referenced
  <2>2. \/ \E q \in Publishers : PublishStep(q) /\ UNCHANGED row
        \/ \E h \in Holders : Delete(h)
    BY <2>1, Steps DEF vars, Age, GcUnchanged, PublishUnchanged
  <2>3. ASSUME NEW h \in Holders, Delete(h) PROVE FALSE
    BY <1>2, <2>3 DEF Delete, Referenced
  <2>4. PICK q \in Publishers : PublishStep(q) /\ UNCHANGED row
    BY <2>2, <2>3
  <2>5. PublishCommit(q)
    BY <2>1, <2>4 DEF PublishStep, PublishCheck, PublishInsert, PublishAbort
  <2>6. publishing[q] \in Publishing /\ publishing[q].at = "inserted" /\ publishing[q] # None
    BY <2>5 DEF PublishCommit, Inv, TypeOK
  <2>7. s \in publishing[q].shas
    BY <1>2, <2>5 DEF PublishCommit, Referenced
  <2> QED BY <2>4, <2>6, <2>7 DEF Inv, InsertedInv
<1> QED BY <1>1, <1>2

-----------------------------------------------------------------------------
(* Together: the invariant, for any instance. *)
THEOREM Inductive == Spec => []Inv
<1>1. Init => Inv
  BY InitInv
<1>2. Inv /\ [Next]_vars => Inv'
  BY TypeStep, InsertedStep, RefsStep DEF Inv
<1> QED BY <1>1, <1>2, PTL DEF Spec

(* The types of rows, objects, references, calls, transactions and sweeps. *)
THEOREM TypesCorrect == Spec => []TypeOK
<1>1. Inv => TypeOK
  BY DEF Inv
<1> QED BY <1>1, Inductive, PTL

(* A reference in either table keeps its row, whatever the collector and the
   other writers do at the same time (objects.rs gc_row, the foreign keys). *)
THEOREM ReferencesKept == Spec => []RefsKeepRow
<1>1. Inv => RefsKeepRow
  BY DEF Inv
<1> QED BY <1>1, Inductive, PTL

(* A confirmed row keeps its size, and its state until it is collected,
   whatever is announced meanwhile (begin_upload's CASE). *)
THEOREM ReadyStays == Spec => ReadyFrozen
<1> DEFINE Frozen == \A s \in Shas :
             Ready(s) /\ row'[s] # None => Ready(s)' /\ row'[s].size = row[s].size
<1>1. Inv /\ [Next]_vars => [Frozen]_vars
  <2> SUFFICES ASSUME Inv, Next PROVE Frozen
    OBVIOUS
  <2>1. ASSUME NEW g \in Replicas, GcDeleteRow(g) PROVE Frozen
    BY <2>1, CollectRows DEF Inv, Ready
  <2>2. CASE \A g \in Replicas : ~GcDeleteRow(g)
    BY <2>2, OnlyTheCollector DEF Inv, RowsStay
  <2> QED BY <2>1, <2>2
<1> QED BY <1>1, Inductive, PTL DEF Spec, ReadyFrozen

-----------------------------------------------------------------------------
(* When clients and sweeps keep off each other's uploads.  A digest a sweep
   is at has no reference, an object it has deleted stays deleted, and what
   is confirmed has its object unless that sweep stands between its two
   deletions, or was cut there. *)
Deleting(s) == \E g \in Replicas : sweep[g] # None /\ sweep[g].deleting = s

SweptInv    == \A s \in Shas : Swept(s) => ~Referenced(s)
DeletingInv == \A s \in Shas : Deleting(s) => object[s] = None
UrlInv      == \A c \in Clients, s \in Shas : <<c, s>> \in urls => row[s] # None
CompleteInv == \A c \in Clients :
  completing[c] # None /\ completing[c].at \in {"hash", "update"} =>
    object[completing[c].sha] # None
PublishInv  == \A p \in Publishers :
  publishing[p] # None => \A s \in publishing[p].shas : Ready(s)
RefInv      == \A s \in Shas : Referenced(s) => Ready(s)
ReadyInv    == \A s \in Shas : Ready(s) => object[s] # None \/ Deleting(s) \/ s \in cut

ApartInv ==
  /\ TypeOK /\ NoOverlap
  /\ NoLeak /\ SweptInv /\ DeletingInv /\ UrlInv
  /\ CompleteInv /\ PublishInv /\ RefInv /\ ReadyInv

(* Who makes a row, an object, a sweep's claim or a reference move. *)
LEMMA RowGoes ==
  ASSUME TypeOK, Next, NEW s \in Shas, row[s] # None, row'[s] = None
  PROVE  \E g \in Replicas : /\ GcDeleteRow(g) /\ sweep[g] # None /\ sweep[g].deleting = s
                             /\ ~Referenced(s)
<1>1. PICK g \in Replicas : GcDeleteRow(g)
  BY OnlyTheCollector DEF RowsStay
<1>2. sweep[g] # None /\ sweep[g].deleting = s /\ ~Referenced(s)
  BY <1>1, CollectRows
<1> QED BY <1>1, <1>2

LEMMA ReadyGoes ==
  ASSUME TypeOK, Next, NEW s \in Shas, Ready(s), ~Ready(s)'
  PROVE  \E g \in Replicas : /\ GcDeleteRow(g) /\ sweep[g] # None /\ sweep[g].deleting = s
                             /\ ~Referenced(s)
<1>1. PICK g \in Replicas : GcDeleteRow(g)
  BY OnlyTheCollector DEF RowsStay
<1>2. sweep[g] # None /\ sweep[g].deleting = s /\ ~Referenced(s)
  BY <1>1, CollectRows DEF Ready
<1> QED BY <1>1, <1>2

LEMMA ObjectMoves ==
  ASSUME TypeOK, Next, NEW s \in Shas, object'[s] # object[s]
  PROVE  \/ \E c \in Clients : <<c, s>> \in urls /\ object'[s] # None
         \/ \E g \in Replicas : /\ sweep[g] # None /\ s \in sweep[g].todo
                                /\ sweep'[g] # None /\ sweep'[g].deleting = s
                                /\ object'[s] = None
<1>1. ASSUME NEW c \in Clients, ClientStep(c)
      PROVE  <<c, s>> \in urls /\ object'[s] # None
  <2>1. PICK t \in Shas, content \in Contents : Put(c, t, content)
    <3>1. CASE CompleteHead(c) \/ CompleteHash(c) \/ CompleteUpdate(c)
      BY <3>1 DEF CompleteHead, CompleteHash, CompleteUpdate, CompleteUnchanged
    <3>2. ASSUME NEW t \in Shas, UrlExpires(c, t) \/ CompleteBegin(c, t) PROVE FALSE
      BY <3>2 DEF UrlExpires, CompleteBegin, CompleteUnchanged
    <3>3. ASSUME NEW t \in Shas, NEW n \in Announced, Announce(c, t, n) PROVE FALSE
      BY <3>3 DEF Announce
    <3> QED BY <1>1, <3>1, <3>2, <3>3 DEF ClientStep
  <2>2. s = t /\ object'[s] = content
    BY <2>1 DEF Put, TypeOK
  <2>3. content # None
    BY AttachmentsAssumption
  <2> QED BY <2>1, <2>2, <2>3 DEF Put
<1>2. ASSUME NEW g \in Replicas, GcStep(g) \/ GcFails(g)
      PROVE  /\ sweep[g] # None /\ s \in sweep[g].todo
             /\ sweep'[g] # None /\ sweep'[g].deleting = s /\ object'[s] = None
  <2>1. GcDeleteObject(g)
    BY <1>2 DEF GcStep, GcBegin, GcDeleteRow, GcFails
  <2>2. sweep[g] \in Sweep /\ sweep[g] # None
    BY <2>1 DEF GcDeleteObject, TypeOK
  <2>3. PICK t \in sweep[g].todo :
          /\ object' = [object EXCEPT ![t] = None]
          /\ sweep' = [sweep EXCEPT ![g] = [todo |-> sweep[g].todo \ {t}, deleting |-> t]]
    BY <2>1 DEF GcDeleteObject
  <2>4. s = t /\ object'[s] = None
    BY <2>2, <2>3 DEF TypeOK, Sweep
  <2>5. sweep'[g] = [todo |-> sweep[g].todo \ {t}, deleting |-> t]
    BY <2>3 DEF TypeOK
  <2>6. [todo |-> sweep[g].todo \ {t}, deleting |-> t] \in Sweep
    BY <2>2, <2>4 DEF Sweep
  <2> QED BY <2>2, <2>3, <2>4, <2>5, <2>6, NoneAssumption
<1> QED BY <1>1, <1>2, Steps DEF Age, PublishUnchanged, Delete

LEMMA SweptGrows ==
  ASSUME TypeOK, Next, NEW s \in Shas, Swept(s)', ~Swept(s)
  PROVE  s \in GcCandidates /\ UNCHANGED refs
<1>1. PICK g \in Replicas : sweep'[g] # None /\ (s \in sweep'[g].todo \/ s = sweep'[g].deleting)
  BY DEF Swept
<1>2. sweep'[g] # sweep[g]
  BY <1>1 DEF Swept
<1>3. PICK o \in Replicas : (GcStep(o) \/ GcFails(o)) /\ GcUnchanged
  BY <1>2, Steps DEF Age, PublishUnchanged, Delete
<1>4. s # None
  BY AttachmentsAssumption
<1>5. CASE GcBegin(o)
  <2>1. sweep' = [sweep EXCEPT ![o] = [todo |-> GcCandidates, deleting |-> None]]
    BY <1>5 DEF GcBegin
  <2>2. o = g /\ sweep'[g].todo = GcCandidates /\ sweep'[g].deleting = None
    BY <1>2, <2>1 DEF TypeOK
  <2> QED BY <1>1, <1>3, <1>4, <2>2 DEF GcUnchanged
<1>6. CASE GcDeleteObject(o)
  <2>1. PICK t \in sweep[o].todo :
          sweep' = [sweep EXCEPT ![o] = [todo |-> sweep[o].todo \ {t}, deleting |-> t]]
    BY <1>6 DEF GcDeleteObject
  <2>2. o = g /\ sweep'[g].todo = sweep[g].todo \ {t} /\ sweep'[g].deleting = t
        /\ sweep[g] # None
    BY <1>2, <1>6, <2>1 DEF TypeOK, GcDeleteObject
  <2> QED BY <1>1, <2>1, <2>2 DEF Swept
<1>7. CASE GcDeleteRow(o)
  <2>1. o = g
    BY <1>2, <1>7, SweepMoves
  <2> QED BY <1>1, <1>4, <1>7, <2>1, SweepMoves DEF Swept, GcDeleteRow
<1>8. CASE GcFails(o)
  BY <1>1, <1>2, <1>8 DEF GcFails, SweepEnds, TypeOK
<1> QED BY <1>3, <1>5, <1>6, <1>7, <1>8 DEF GcStep

LEMMA ReferencedGrows ==
  ASSUME TypeOK, Next, NEW s \in Shas, Referenced(s)', ~Referenced(s)
  PROVE  \E p \in Publishers : /\ publishing[p] # None /\ s \in publishing[p].shas
                               /\ UNCHANGED row
<1>1. refs' # refs
  BY DEF Referenced
<1>2. ASSUME NEW h \in Holders, Delete(h) PROVE FALSE
  BY <1>2 DEF Delete, Referenced
<1>3. PICK p \in Publishers : PublishStep(p) /\ UNCHANGED row
  BY <1>1, <1>2, Steps DEF Age, GcUnchanged, PublishUnchanged
<1>4. PublishCommit(p)
  BY <1>1, <1>3 DEF PublishStep, PublishCheck, PublishInsert, PublishAbort
<1>5. s \in publishing[p].shas
  BY <1>4 DEF PublishCommit, Referenced
<1> QED BY <1>3, <1>4, <1>5 DEF PublishCommit

(* A digest in use is at no sweep, so none of its row and object goes. *)
LEMMA InUseStays ==
  ASSUME ApartInv, Next, NEW s \in Shas, InUse(s)
  PROVE  /\ row[s] # None => row'[s] # None
         /\ Ready(s) => Ready(s)'
         /\ object[s] # None => object'[s] # None
<1>1. ~Swept(s)
  BY DEF ApartInv, NoOverlap
<1>2. row[s] # None => row'[s] # None
  BY <1>1, RowGoes DEF ApartInv, Swept
<1>3. Ready(s) => Ready(s)'
  BY <1>1, ReadyGoes DEF ApartInv, Swept
<1>4. object[s] # None => object'[s] # None
  BY <1>1, ObjectMoves DEF ApartInv, Swept
<1> QED BY <1>2, <1>3, <1>4

LEMMA LeakStep == ApartInv /\ Next => NoLeak'
<1> SUFFICES ASSUME ApartInv, Next, NEW s \in Shas, object'[s] # None PROVE row'[s] # None
  BY DEF NoLeak
<1>1. CASE object[s] = None
  <2>1. PICK c \in Clients : <<c, s>> \in urls
    BY <1>1, ObjectMoves DEF ApartInv
  <2>2. row[s] # None /\ InUse(s)
    BY <2>1 DEF ApartInv, UrlInv, InUse
  <2> QED BY <2>2, InUseStays
<1>2. CASE object[s] # None
  <2>1. row[s] # None /\ ~Deleting(s)
    BY <1>2 DEF ApartInv, NoLeak, DeletingInv
  <2> QED BY <2>1, RowGoes DEF ApartInv, Deleting
<1> QED BY <1>1, <1>2

LEMMA UrlStep == ApartInv /\ Next => UrlInv'
<1> SUFFICES ASSUME ApartInv, Next, NEW c \in Clients, NEW s \in Shas, <<c, s>> \in urls'
             PROVE  row'[s] # None
  BY DEF UrlInv
<1>1. CASE <<c, s>> \in urls
  <2>1. row[s] # None /\ InUse(s)
    BY <1>1 DEF ApartInv, UrlInv, InUse
  <2> QED BY <2>1, InUseStays
<1>2. CASE <<c, s>> \notin urls
  <2>1. PICK b \in Clients : ClientStep(b)
    BY <1>2, Steps DEF Age, PublishUnchanged, Delete, GcUnchanged
  <2>2. PICK t \in Shas, n \in Announced : Announce(b, t, n)
    <3>1. CASE CompleteHead(b) \/ CompleteHash(b) \/ CompleteUpdate(b)
      BY <1>2, <3>1 DEF CompleteHead, CompleteHash, CompleteUpdate, CompleteUnchanged
    <3>2. ASSUME NEW t \in Shas, UrlExpires(b, t) \/ CompleteBegin(b, t) PROVE FALSE
      BY <1>2, <3>2 DEF UrlExpires, CompleteBegin, CompleteUnchanged
    <3>3. ASSUME NEW t \in Shas, NEW content \in Contents, Put(b, t, content) PROVE FALSE
      BY <1>2, <3>3 DEF Put
    <3> QED BY <2>1, <3>1, <3>2, <3>3 DEF ClientStep
  <2>3. s = t
    BY <1>2, <2>2 DEF Announce
  <2> QED BY <2>2, <2>3, AnnounceRows DEF ApartInv
<1> QED BY <1>1, <1>2

LEMMA SweptStep == ApartInv /\ Next => SweptInv'
<1> SUFFICES ASSUME ApartInv, Next, NEW s \in Shas, Swept(s)', Referenced(s)' PROVE FALSE
  BY DEF SweptInv
<1>1. CASE Swept(s)
  <2>1. ~Referenced(s) /\ ~InUse(s)
    BY <1>1 DEF ApartInv, SweptInv, NoOverlap
  <2> QED BY <2>1, ReferencedGrows DEF ApartInv, InUse
<1>2. CASE ~Swept(s)
  BY <1>2, SweptGrows DEF ApartInv, GcCandidates, Referenced
<1> QED BY <1>1, <1>2

LEMMA DeletingStep == ApartInv /\ Next => DeletingInv'
<1> SUFFICES ASSUME ApartInv, Next, NEW s \in Shas, Deleting(s)', object'[s] # None
             PROVE  FALSE
  BY DEF DeletingInv
<1>1. CASE Deleting(s)
  <2>1. object[s] = None /\ ~InUse(s)
    BY <1>1 DEF ApartInv, DeletingInv, NoOverlap, Swept, Deleting
  <2> QED BY <2>1, ObjectMoves DEF ApartInv, InUse
<1>2. CASE ~Deleting(s)
  <2>1. PICK g \in Replicas : sweep'[g] # None /\ sweep'[g].deleting = s
    BY DEF Deleting
  <2>2. sweep'[g] # sweep[g] /\ s # None
    BY <1>2, <2>1, AttachmentsAssumption DEF Deleting
  <2>3. PICK o \in Replicas : GcStep(o) \/ GcFails(o)
    BY <2>2, Steps DEF Age, PublishUnchanged, Delete
  <2>4. CASE GcBegin(o)
    <3>1. sweep' = [sweep EXCEPT ![o] = [todo |-> GcCandidates, deleting |-> None]]
      BY <2>4 DEF GcBegin
    <3>2. sweep'[g].deleting = None
      BY <2>2, <3>1 DEF ApartInv, TypeOK
    <3> QED BY <2>1, <2>2, <3>2
  <2>5. CASE GcDeleteObject(o)
    <3>1. PICK t \in sweep[o].todo :
            /\ object' = [object EXCEPT ![t] = None]
            /\ sweep' = [sweep EXCEPT ![o] = [todo |-> sweep[o].todo \ {t}, deleting |-> t]]
      BY <2>5 DEF GcDeleteObject
    <3>2. sweep'[g].deleting = t
      BY <2>2, <3>1 DEF ApartInv, TypeOK
    <3> QED BY <2>1, <3>1, <3>2 DEF ApartInv, TypeOK
  <2>6. CASE GcDeleteRow(o)
    BY <2>1, <2>2, <2>6, SweepMoves DEF ApartInv
  <2>7. CASE GcFails(o)
    BY <2>1, <2>2, <2>7 DEF GcFails, SweepEnds, ApartInv, TypeOK
  <2> QED BY <2>3, <2>4, <2>5, <2>6, <2>7 DEF GcStep
<1> QED BY <1>1, <1>2

LEMMA CompleteStep == ApartInv /\ Next => CompleteInv'
<1> SUFFICES ASSUME ApartInv, Next, NEW c \in Clients, completing'[c] # None,
                    completing'[c].at \in {"hash", "update"}
             PROVE  object'[completing'[c].sha] # None
  BY DEF CompleteInv
<1>1. CASE completing'[c] = completing[c]
  <2>1. completing[c] \in Completing
    BY <1>1 DEF ApartInv, TypeOK
  <2>2. completing[c].sha \in Shas /\ object[completing[c].sha] # None
    BY <1>1, <2>1 DEF ApartInv, CompleteInv, Completing
  <2>3. InUse(completing[c].sha)
    BY <1>1 DEF InUse
  <2> QED BY <1>1, <2>2, <2>3, InUseStays
<1>2. CASE completing'[c] # completing[c]
  <2>1. PICK b \in Clients : ClientStep(b)
    BY <1>2, Steps DEF Age, PublishUnchanged, Delete, GcUnchanged
  <2>2. ASSUME NEW s \in Shas,
               \/ \E n \in Announced : Announce(b, s, n)
               \/ \E content \in Contents : Put(b, s, content)
               \/ UrlExpires(b, s)
        PROVE  FALSE
    BY <1>2, <2>2 DEF Announce, Put, UrlExpires
  <2>3. ASSUME NEW s \in Shas, CompleteBegin(b, s) PROVE FALSE
    <3>1. completing' = [completing EXCEPT ![b] = [sha |-> s, size |-> row[s].size, at |-> "head"]]
      BY <2>3 DEF CompleteBegin
    <3>2. completing'[c] = [sha |-> s, size |-> row[s].size, at |-> "head"]
      BY <1>2, <3>1 DEF ApartInv, TypeOK
    <3> QED BY <3>2
  <2>4. CASE CompleteUpdate(b)
    BY <1>2, <2>4 DEF CompleteUpdate, CompleteEnds, ApartInv, TypeOK
  <2>5. CASE CompleteHead(b)
    <3>1. CASE object[completing[b].sha] = None
      BY <1>2, <2>5, <3>1 DEF CompleteHead, CompleteEnds, ApartInv, TypeOK
    <3>2. CASE object[completing[b].sha] # None
      <4>1. CASE CompleteEnds(b)
        BY <1>2, <4>1 DEF CompleteEnds, ApartInv, TypeOK
      <4>2. CASE CompleteAt(b, "hash")
        BY <1>2, <2>5, <3>2, <4>2, CompleteMoves
        DEF CompleteHead, CompleteUnchanged, ApartInv
      <4>3. CASE CompleteAt(b, "update")
        BY <1>2, <2>5, <3>2, <4>3, CompleteMoves
        DEF CompleteHead, CompleteUnchanged, ApartInv
      <4> QED BY <2>5, <4>1, <4>2, <4>3 DEF CompleteHead
    <3> QED BY <3>1, <3>2
  <2>6. CASE CompleteHash(b)
    <3>1. completing[b] \in Completing /\ completing[b].at = "hash" /\ completing[b] # None
      BY <2>6 DEF CompleteHash, ApartInv, TypeOK
    <3>2. object[completing[b].sha] # None
      BY <3>1 DEF ApartInv, CompleteInv
    <3>3. CASE CompleteEnds(b)
      BY <1>2, <3>3 DEF CompleteEnds, ApartInv, TypeOK
    <3>4. CASE CompleteAt(b, "update")
      BY <1>2, <2>6, <3>1, <3>2, <3>4, CompleteMoves
      DEF CompleteHash, CompleteUnchanged, ApartInv
    <3> QED BY <2>6, <3>3, <3>4 DEF CompleteHash
  <2> QED BY <2>1, <2>2, <2>3, <2>4, <2>5, <2>6 DEF ClientStep
<1> QED BY <1>1, <1>2

LEMMA PublishReadyStep == ApartInv /\ Next => PublishInv'
<1> SUFFICES ASSUME ApartInv, Next, NEW p \in Publishers, publishing'[p] # None,
                    NEW s \in Shas, s \in publishing'[p].shas
             PROVE  Ready(s)'
  <2> SUFFICES ASSUME ApartInv, Next PROVE PublishInv'
    OBVIOUS
  <2>1. publishing' \in [Publishers -> Publishing \cup {None}]
    BY TypeStep DEF ApartInv, TypeOK
  <2> QED BY <2>1 DEF PublishInv, Publishing
<1>1. CASE publishing[p] # None /\ s \in publishing[p].shas
  <2>1. Ready(s) /\ InUse(s)
    BY <1>1 DEF ApartInv, PublishInv, InUse
  <2> QED BY <2>1, InUseStays
<1>2. CASE ~(publishing[p] # None /\ s \in publishing[p].shas)
  <2>1. PICK q \in Publishers : PublishStep(q) /\ UNCHANGED row
    BY <1>2, Steps DEF Age, Delete, GcUnchanged, PublishUnchanged
  <2>2. ASSUME NEW h \in Holders, NEW shas \in SUBSET Shas, PublishCheck(q, h, shas)
        PROVE  Ready(s)'
    <3>1. publishing' = [publishing EXCEPT ![q] = [holder |-> h, shas |-> shas, at |-> "checked"]]
      BY <2>2 DEF PublishCheck
    <3>2. publishing'[p].shas = shas
      BY <1>2, <3>1 DEF ApartInv, TypeOK
    <3> QED BY <2>1, <2>2, <3>2 DEF PublishCheck, Ready
  <2>3. CASE PublishInsert(q)
    BY <1>2, <2>3, InsertMoves DEF ApartInv, PublishInsert
  <2>4. CASE PublishCommit(q) \/ PublishAbort(q)
    BY <1>2, <2>4 DEF PublishCommit, PublishAbort, PublishEnds, ApartInv, TypeOK
  <2> QED BY <2>1, <2>2, <2>3, <2>4 DEF PublishStep
<1> QED BY <1>1, <1>2

LEMMA RefStep == ApartInv /\ Next => RefInv'
<1> SUFFICES ASSUME ApartInv, Next, NEW s \in Shas, Referenced(s)' PROVE Ready(s)'
  BY DEF RefInv
<1>1. CASE Referenced(s)
  <2>1. Ready(s)
    BY <1>1 DEF ApartInv, RefInv
  <2> QED BY <1>1, <2>1, ReadyGoes DEF ApartInv
<1>2. CASE ~Referenced(s)
  BY <1>2, ReferencedGrows DEF ApartInv, PublishInv, Ready
<1> QED BY <1>1, <1>2

(* A sweep that is cut after it deleted an object leaves the row to `cut'. *)
LEMMA ReadyStep == ApartInv /\ SweepsNext => ReadyInv'
<1> SUFFICES ASSUME ApartInv, SweepsNext, NEW s \in Shas, Ready(s)', object'[s] = None
             PROVE  Deleting(s)' \/ s \in cut'
  BY DEF ReadyInv
<1>0. /\ Next
      /\ cut' = {t \in cut \cup CutNow : row'[t] # None /\ object'[t] = None}
  BY DEF SweepsNext, ApartNext
<1>1. row'[s] # None
  BY DEF Ready
<1>2. CASE s \in cut
  BY <1>0, <1>1, <1>2
<1>3. CASE Deleting(s)
  <2>1. PICK g \in Replicas : sweep[g] # None /\ sweep[g].deleting = s
    BY <1>3 DEF Deleting
  <2>2. CASE sweep'[g] = sweep[g]
    BY <2>1, <2>2 DEF Deleting
  <2>3. CASE sweep'[g] = None
    BY <1>0, <1>1, <2>1, <2>3 DEF CutNow
  <2>4. CASE sweep'[g] # sweep[g] /\ sweep'[g] # None
    <3>1. s # None /\ Swept(s) /\ sweep[g] \in Sweep
      BY <2>1, AttachmentsAssumption DEF Swept, ApartInv, TypeOK
    <3>2. PICK o \in Replicas : GcStep(o) \/ GcFails(o)
      BY <1>0, <2>4, Steps DEF Age, PublishUnchanged, Delete
    <3>3. GcDeleteRow(o) /\ o = g
      <4>1. CASE GcBegin(o)
        BY <2>1, <2>4, <4>1 DEF GcBegin, ApartInv, TypeOK
      <4>2. CASE GcDeleteObject(o)
        BY <2>1, <2>4, <3>1, <4>2 DEF GcDeleteObject, ApartInv, TypeOK
      <4>3. CASE GcFails(o)
        BY <2>1, <2>4, <4>3 DEF GcFails, SweepEnds, ApartInv, TypeOK
      <4>4. CASE GcDeleteRow(o)
        BY <2>4, <4>4, SweepMoves DEF ApartInv
      <4> QED BY <3>2, <4>1, <4>2, <4>3, <4>4 DEF GcStep
    <3>4. ~Referenced(s)
      BY <3>1 DEF ApartInv, SweptInv
    <3>5. row'[s] = None
      BY <2>1, <3>3, <3>4, CollectRows DEF ApartInv
    <3> QED BY <1>1, <3>5
  <2> QED BY <2>2, <2>3, <2>4
<1>4. CASE object[s] # None
  BY <1>0, <1>4, ObjectMoves DEF ApartInv, Deleting
<1>5. CASE ~Ready(s) /\ object[s] = None
  <2>1. PICK c \in Clients : CompleteUpdate(c)
    <3>1. PICK c \in Clients : ClientStep(c)
      <4>1. ASSUME NEW g \in Replicas, GcStep(g) \/ GcFails(g) PROVE FALSE
        <5>1. CASE GcDeleteRow(g)
          BY <1>1, <1>5, <5>1, CollectRows DEF ApartInv, Ready
        <5>2. CASE UNCHANGED row
          BY <1>5, <5>2 DEF Ready
        <5> QED BY <4>1, <5>1, <5>2 DEF GcStep, GcBegin, GcDeleteObject, GcFails
      <4>2. ASSUME NEW t \in Shas, Age(t) PROVE FALSE
        BY <1>5, <4>2, AgeRows DEF ApartInv
      <4> QED BY <1>0, <1>5, <4>1, <4>2, Steps DEF PublishUnchanged, Delete, Ready
    <3>2. ASSUME NEW t \in Shas, NEW n \in Announced, Announce(c, t, n) PROVE FALSE
      BY <1>5, <3>2, AnnounceRows DEF ApartInv
    <3>3. CASE UNCHANGED row
      BY <1>5, <3>3 DEF Ready
    <3>4. ASSUME NEW t \in Shas,
                 \/ \E content \in Contents : Put(c, t, content)
                 \/ UrlExpires(c, t) \/ CompleteBegin(c, t)
          PROVE  UNCHANGED row
      BY <3>4 DEF Put, UrlExpires, CompleteBegin
    <3>5. CASE CompleteHead(c) \/ CompleteHash(c)
      BY <3>3, <3>5 DEF CompleteHead, CompleteHash
    <3> QED BY <3>1, <3>2, <3>3, <3>4, <3>5 DEF ClientStep
  <2>2. s = completing[c].sha /\ completing[c].at = "update" /\ completing[c] # None
    BY <1>5, <2>1, ConfirmRows DEF ApartInv, CompleteUpdate
  <2> QED BY <1>5, <2>2 DEF ApartInv, CompleteInv
<1> QED BY <1>2, <1>3, <1>4, <1>5 DEF ApartInv, ReadyInv

-----------------------------------------------------------------------------
(* Together, under the assumption that clients and sweeps keep apart. *)
THEOREM ApartInductive == SweepsSpec => []ApartInv
<1>1. Init /\ cut = {} => ApartInv
  BY DEF Init, ApartInv, TypeOK, NoOverlap, Swept, InUse, NoLeak, SweptInv, DeletingInv,
         UrlInv, CompleteInv, PublishInv, RefInv, ReadyInv, Ready, Referenced, Deleting
<1>2. ApartInv /\ [SweepsNext]_<<vars, cut>> => ApartInv'
  <2>1. CASE SweepsNext
    <3>1. Next /\ NoOverlap'
      BY <2>1 DEF SweepsNext, ApartNext
    <3> QED BY <2>1, <3>1, TypeStep, LeakStep, SweptStep, DeletingStep, UrlStep, CompleteStep,
               PublishReadyStep, RefStep, ReadyStep DEF ApartInv
  <2>2. CASE UNCHANGED <<vars, cut>>
    BY <2>2 DEF vars, ApartInv, TypeOK, NoOverlap, Swept, InUse, NoLeak, SweptInv, DeletingInv,
         UrlInv, CompleteInv, PublishInv, RefInv, ReadyInv, Ready, Referenced, Deleting
  <2> QED BY <2>1, <2>2
<1> QED BY <1>1, <1>2, PTL DEF SweepsSpec

(* No object without a row while clients and sweeps keep apart: the collector
   deletes the object before the row (objects.rs gc). *)
THEOREM NothingLeaks == SweepsSpec => []NoLeak
<1>1. ApartInv => NoLeak
  BY DEF ApartInv
<1> QED BY <1>1, ApartInductive, PTL

(* What is referenced is confirmed and downloadable, unless a sweep was cut
   between its two deletions of that digest. *)
THEOREM ReferencedServed == SweepsSpec => []ServedUnlessCut
<1>1. ApartInv => ServedUnlessCut
  <2> SUFFICES ASSUME ApartInv, NEW s \in Shas, s \notin cut, Referenced(s)
               PROVE  Ready(s) /\ object[s] # None
    BY DEF ServedUnlessCut
  <2>1. Ready(s) /\ ~Swept(s)
    BY DEF ApartInv, RefInv, SweptInv
  <2>2. ~Deleting(s)
    BY <2>1 DEF Swept, Deleting
  <2> QED BY <2>1, <2>2 DEF ApartInv, ReadyInv
<1> QED BY <1>1, ApartInductive, PTL

================================================================================
