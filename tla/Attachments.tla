------------------------------ MODULE Attachments ------------------------------
(***************************************************************************)
(* The attachment life cycle of objects.rs: announce, upload, complete,      *)
(* reference from a version or a run, and the garbage collector of jobs.rs. *)
(* Two stores that share no transaction: Postgres (rows, refs) and the       *)
(* object store (objects).  One action per statement or object-store call.  *)
(***************************************************************************)
EXTENDS Integers, FiniteSets

CONSTANTS
  Shas, Contents,   \* digests; what an object may hold
  Bytes,            \* the content each digest is of
  SizeOf,           \* bytes of each content
  Announced,        \* the sizes clients announce
  HashMax,          \* attachments.hash_verify_max_bytes
  Clients,          \* callers uploading
  VersionHolders, RunHolders,  \* what references objects
  Publishers,       \* transactions posting versions or runs
  Replicas,         \* server processes, each with its collector
  None

Holders == VersionHolders \cup RunHolders

ASSUME AttachmentsAssumption ==
  /\ Bytes \in [Shas -> Contents]
  /\ SizeOf \in [Contents -> Nat]
  /\ Announced \subseteq Nat /\ HashMax \in Nat
  /\ VersionHolders \cap RunHolders = {}
  /\ None \notin Shas \cup Contents \cup Replicas

VARIABLES
  row,      \* attachments, by sha256
  object,   \* what the object store holds under sha256/<hex>
  refs,     \* attachment_refs and run_attachment_refs
  holder,   \* the version or run: not there yet, live, or deleted
  urls,     \* presigned PUT URLs still valid
  completing, \* complete: where each client's call stands
  publishing, \* create_or_append / write_runs: check, insert, commit
  gcLock,   \* the advisory lock ATTACHMENT_GC
  sweep     \* each replica's sweep
vars == <<row, object, refs, holder, urls, completing, publishing, gcLock, sweep>>

(* old: created_at is more than the grace period ago.                       *)
Row == [size : Nat, state : {"pending", "ready"}, old : BOOLEAN]
Completing == [sha : Shas, size : Nat, at : {"head", "hash", "update"}]
Publishing == [holder : Holders, shas : SUBSET Shas, at : {"checked", "inserted"}]
Sweep == [todo : SUBSET Shas, deleting : Shas \cup {None}]

ASSUME NoneAssumption ==
  /\ None \notin Row /\ None \notin Completing
  /\ None \notin Publishing /\ None \notin Sweep

TypeOK ==
  /\ row \in [Shas -> Row \cup {None}]
  /\ object \in [Shas -> Contents \cup {None}]
  /\ refs \subseteq Holders \X Shas
  /\ holder \in [Holders -> {"absent", "live", "deleted"}]
  /\ urls \subseteq Clients \X Shas
  /\ completing \in [Clients -> Completing \cup {None}]
  /\ publishing \in [Publishers -> Publishing \cup {None}]
  /\ gcLock \in Replicas \cup {None}
  /\ sweep \in [Replicas -> Sweep \cup {None}]

Init ==
  /\ row = [s \in Shas |-> None]
  /\ object = [s \in Shas |-> None]
  /\ refs = {}
  /\ holder = [h \in Holders |-> "absent"]
  /\ urls = {}
  /\ completing = [c \in Clients |-> None]
  /\ publishing = [p \in Publishers |-> None]
  /\ gcLock = None
  /\ sweep = [g \in Replicas |-> None]

Ready(s) == row[s] # None /\ row[s].state = "ready"
Referenced(s) == \E h \in Holders : <<h, s>> \in refs

-----------------------------------------------------------------------------
(* Uploading                                                                *)

AfterAnnounceRestarts(r, n) == [r EXCEPT !.state = "announced"]
AfterAnnounceAnyState(r, n) == [r EXCEPT !.size = n]
(* ON CONFLICT: a pending row takes the new size, a ready one nothing;      *)
(* created_at stays that of the first announcement.                         *)
AfterAnnounce(r, n) ==
  IF r.state = "pending" THEN [r EXCEPT !.size = n] ELSE r

(* begin_upload; a ready row needs no URL.                                  *)
Announce(c, s, n) ==
  /\ row' = [row EXCEPT ![s] =
       IF row[s] = None THEN [size |-> n, state |-> "pending", old |-> FALSE]
       ELSE AfterAnnounce(row[s], n)]
  /\ urls' = IF Ready(s) THEN urls ELSE urls \cup {<<c, s>>}
  /\ UNCHANGED <<object, refs, holder, completing, publishing, gcLock, sweep>>

(* The client PUTs to the object store; the hub does not see it.            *)
Put(c, s, content) ==
  /\ <<c, s>> \in urls
  /\ object' = [object EXCEPT ![s] = content]
  /\ UNCHANGED <<row, refs, holder, urls, completing, publishing, gcLock, sweep>>

UrlExpires(c, s) ==
  /\ <<c, s>> \in urls
  /\ urls' = urls \ {<<c, s>>}
  /\ UNCHANGED <<row, object, refs, holder, completing, publishing, gcLock, sweep>>

CompleteUnchanged == UNCHANGED <<object, refs, holder, urls, publishing, gcLock, sweep>>
CompleteAt(c, at) == completing' = [completing EXCEPT ![c].at = at]
CompleteEnds(c) == completing' = [completing EXCEPT ![c] = None]

(* complete: SELECT, HEAD, GET (when small enough), UPDATE.                 *)
CompleteBegin(c, s) ==
  /\ completing[c] = None /\ row[s] # None
  /\ completing' = [completing EXCEPT ![c] =
       [sha |-> s, size |-> row[s].size, at |-> "head"]]
  /\ UNCHANGED row /\ CompleteUnchanged

CompleteHead(c) ==
  /\ completing[c] # None /\ completing[c].at = "head"
  /\ LET found == object[completing[c].sha]
     IN IF found = None THEN CompleteEnds(c)
        ELSE IF SizeOf[found] # completing[c].size THEN CompleteEnds(c)
        ELSE CompleteAt(c, IF SizeOf[found] <= HashMax THEN "hash" ELSE "update")
  /\ UNCHANGED row /\ CompleteUnchanged

CompleteHash(c) ==
  /\ completing[c] # None /\ completing[c].at = "hash"
  /\ IF object[completing[c].sha] = Bytes[completing[c].sha]
     THEN CompleteAt(c, "update") ELSE CompleteEnds(c)
  /\ UNCHANGED row /\ CompleteUnchanged

(* The UPDATE of a row that is gone changes nothing and is not an error.    *)
CompleteUpdate(c) ==
  /\ completing[c] # None /\ completing[c].at = "update"
  /\ row' = [row EXCEPT ![completing[c].sha] =
       IF @ = None THEN None ELSE [@ EXCEPT !.state = "ready"]]
  /\ CompleteEnds(c) /\ CompleteUnchanged

(* created_at passes out of the grace period, counted from the first         *)
(* announcement.                                                            *)
Age(s) ==
  /\ row[s] # None /\ ~row[s].old
  /\ row' = [row EXCEPT ![s].old = TRUE]
  /\ UNCHANGED <<object, refs, holder, urls, completing, publishing, gcLock, sweep>>

-----------------------------------------------------------------------------
(* Referencing                                                              *)

PublishUnchanged == UNCHANGED <<row, object, urls, completing, gcLock, sweep>>
PublishEnds(p) == publishing' = [publishing EXCEPT ![p] = None]

(* The record lock: one transaction at a time writes a holder.              *)
HolderFree(h) == \A p \in Publishers : publishing[p] # None => publishing[p].holder # h

(* missing_attachments / write_runs step 2f: a plain SELECT, no lock.       *)
PublishCheck(p, h, shas) ==
  /\ publishing[p] = None /\ HolderFree(h)
  /\ holder[h] = "absent" \/ (h \in RunHolders /\ holder[h] = "live")
  /\ \A s \in shas : Ready(s)
  /\ publishing' = [publishing EXCEPT ![p] = [holder |-> h, shas |-> shas, at |-> "checked"]]
  /\ UNCHANGED <<refs, holder>> /\ PublishUnchanged

PublishInsertNoKey(p) ==     \* sha256 without its foreign key
  /\ publishing[p] # None /\ publishing[p].at = "checked"
  /\ publishing' = [publishing EXCEPT ![p].at = "inserted"]
  /\ UNCHANGED <<refs, holder>> /\ PublishUnchanged
(* INSERT INTO attachment_refs: the foreign key wants the row, in whatever  *)
(* state, and locks it against deletion.                                    *)
PublishInsert(p) ==
  /\ publishing[p] # None /\ publishing[p].at = "checked"
  /\ IF \A s \in publishing[p].shas : row[s] # None
     THEN publishing' = [publishing EXCEPT ![p].at = "inserted"]
     ELSE PublishEnds(p)
  /\ UNCHANGED <<refs, holder>> /\ PublishUnchanged

(* An overwritten run's references are replaced.                            *)
PublishCommit(p) ==
  /\ publishing[p] # None /\ publishing[p].at = "inserted"
  /\ LET h == publishing[p].holder
     IN /\ refs' = {x \in refs : x[1] # h} \cup {<<h, s>> : s \in publishing[p].shas}
        /\ holder' = [holder EXCEPT ![h] = "live"]
  /\ PublishEnds(p) /\ PublishUnchanged

PublishAbort(p) ==
  /\ publishing[p] # None /\ PublishEnds(p)
  /\ UNCHANGED <<refs, holder>> /\ PublishUnchanged

(* A version tombstone or a run delete.                                     *)
Delete(h) ==
  /\ holder[h] = "live" /\ HolderFree(h)
  /\ refs' = {x \in refs : x[1] # h}
  /\ holder' = [holder EXCEPT ![h] = "deleted"]
  /\ UNCHANGED publishing /\ PublishUnchanged

-----------------------------------------------------------------------------
(* Collecting                                                               *)

GcUnchanged == UNCHANGED <<refs, holder, urls, completing, publishing>>
CandidatesByVersion ==       \* run_attachment_refs forgotten
  {s \in Shas : row[s] # None /\ row[s].old /\ \A h \in VersionHolders : <<h, s>> \notin refs}
GcCandidates == {s \in Shas : row[s] # None /\ row[s].old /\ ~Referenced(s)}
Inserting(s) == \E p \in Publishers :
  publishing[p] # None /\ publishing[p].at = "inserted" /\ s \in publishing[p].shas

SweepEnds(g) == sweep' = [sweep EXCEPT ![g] = None] /\ gcLock' = None

(* try_acquire, then gc_candidates.                                         *)
GcBegin(g) ==
  /\ sweep[g] = None /\ gcLock = None /\ GcCandidates # {}
  /\ gcLock' = g
  /\ sweep' = [sweep EXCEPT ![g] = [todo |-> GcCandidates, deleting |-> None]]
  /\ UNCHANGED <<row, object>> /\ GcUnchanged

GcDeleteRowFirst(g) ==       \* the object left for the next statement
  /\ sweep[g] # None /\ sweep[g].deleting = None
  /\ \E s \in sweep[g].todo :
       /\ row' = [row EXCEPT ![s] = IF Referenced(s) THEN @ ELSE None]
       /\ sweep' = [sweep EXCEPT ![g] = [todo |-> sweep[g].todo \ {s}, deleting |-> s]]
  /\ UNCHANGED <<object, gcLock>> /\ GcUnchanged
GcDeleteObject(g) ==
  /\ sweep[g] # None /\ sweep[g].deleting = None
  /\ \E s \in sweep[g].todo :
       /\ object' = [object EXCEPT ![s] = None]
       /\ sweep' = [sweep EXCEPT ![g] = [todo |-> sweep[g].todo \ {s}, deleting |-> s]]
  /\ UNCHANGED <<row, gcLock>> /\ GcUnchanged

(* The DELETE waits for an uncommitted reference.  A committed one keeps    *)
(* the row: NOT EXISTS sees it and the sweep goes on, or the statement had  *)
(* waited for it, the foreign key refuses and the sweep ends.               *)
GcDeleteRow(g) ==
  /\ sweep[g] # None /\ sweep[g].deleting # None
  /\ LET s == sweep[g].deleting
     IN /\ ~Inserting(s)
        /\ row' = [row EXCEPT ![s] = IF Referenced(s) THEN @ ELSE None]
        /\ \/ sweep[g].todo = {} /\ SweepEnds(g)
           \/ /\ sweep[g].todo # {}
              /\ sweep' = [sweep EXCEPT ![g].deleting = None] /\ UNCHANGED gcLock
           \/ Referenced(s) /\ SweepEnds(g)
  /\ UNCHANGED object /\ GcUnchanged

GcFailsLocked(g) ==          \* returns before the release
  /\ sweep[g] # None
  /\ sweep' = [sweep EXCEPT ![g] = None]
  /\ UNCHANGED <<row, object, gcLock>> /\ GcUnchanged
(* The object store or Postgres answers with an error, the process dies or  *)
(* the task is aborted at an await point: the lock is released either way.  *)
GcFails(g) ==
  /\ sweep[g] # None /\ SweepEnds(g)
  /\ UNCHANGED <<row, object>> /\ GcUnchanged

-----------------------------------------------------------------------------
ClientStep(c) ==
  \/ \E s \in Shas, n \in Announced : Announce(c, s, n)
  \/ \E s \in Shas, content \in Contents : Put(c, s, content)
  \/ \E s \in Shas : UrlExpires(c, s) \/ CompleteBegin(c, s)
  \/ CompleteHead(c) \/ CompleteHash(c) \/ CompleteUpdate(c)
GcStep(g) == GcBegin(g) \/ GcDeleteObject(g) \/ GcDeleteRow(g)

Next ==
  \/ \E c \in Clients : ClientStep(c)
  \/ \E s \in Shas : Age(s)
  \/ \E p \in Publishers, h \in Holders, shas \in SUBSET Shas :
       PublishCheck(p, h, shas)
  \/ \E p \in Publishers : PublishInsert(p) \/ PublishCommit(p) \/ PublishAbort(p)
  \/ \E h \in Holders : Delete(h)
  \/ \E g \in Replicas : GcStep(g) \/ GcFails(g)

Spec == Init /\ [][Next]_vars

(* The collector is a timer that never stops, and no call, sweep or insert   *)
(* that is tried again and again fails every time.                          *)
Fairness ==
  /\ \A g \in Replicas :
       SF_vars(GcBegin(g)) /\ SF_vars(GcDeleteObject(g)) /\ SF_vars(GcDeleteRow(g))
  /\ \A p \in Publishers, s \in Shas :
       SF_vars(PublishCommit(p) /\ s \in publishing[p].shas)

-----------------------------------------------------------------------------
(* A reference in either table keeps its attachments row, whatever the      *)
(* collector and other writers do at the same time (gc's NOT EXISTS re-check *)
(* and the foreign keys).                                                   *)
RefsKeepRow == \A s \in Shas : Referenced(s) => row[s] # None

(* A confirmed size is not changed by later announcements, and a ready row  *)
(* leaves that state only by being collected (begin_upload's CASE).         *)
ReadyFrozen == [][\A s \in Shas :
  Ready(s) /\ row'[s] # None => Ready(s)' /\ row'[s].size = row[s].size]_vars

(* No object without a row: the collector would never find it (objects.rs:  *)
(* "an object without a row would leak for ever").                          *)
NoLeak == \A s \in Shas : object[s] # None => row[s] # None

(* Garbage goes: an upload past its grace period and never referenced is    *)
(* collected although replicas compete, sweeps fail and servers restart.    *)
GarbageGoes == \A s \in Shas :
  (row[s] # None /\ row[s].old /\ ~Referenced(s)) ~> (row[s] = None \/ Referenced(s))
================================================================================
