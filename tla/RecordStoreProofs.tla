--------------------------- MODULE RecordStoreProofs ---------------------------
(***************************************************************************)
(* The transactions of RecordStore.tla are atomic: for every number of      *)
(* writers and records the locks keep what each transaction read, so every  *)
(* commit is one write of Hub.tla, and Hub's guarantees carry over.         *)
(***************************************************************************)
EXTENDS RecordStore, HubProofs

(* One step of writer u.                                                    *)
Acts(u) == Begin(u) \/ Step(u) \/ Short(u) \/ Abort(u)

IInv == TypeOK /\ TxInv

-----------------------------------------------------------------------------
(* What a writer cannot do to another                                       *)

(* No step of u moves another writer's transaction or touches its locks.    *)
OthersKept(u) ==
  \A w \in Writers \ {u} :
    /\ pc'[w] = pc[w] /\ job'[w] = job[w] /\ resolved'[w] = resolved[w]
    /\ seqRead'[w] = seqRead[w] /\ used'[w] = used[w]
    /\ header'[w] = header[w] /\ prior'[w] = prior[w]
    /\ \A r \in Records : /\ xlock'[r] = w <=> xlock[r] = w
                          /\ w \in slock'[r] <=> w \in slock[r]

LEMMA EndKeepsOthers ==
  ASSUME TypeOK, NEW u \in Writers, End(u)
  PROVE  OthersKept(u)
<1>1. \A w \in Writers \ {u} :
        /\ pc'[w] = pc[w] /\ job'[w] = job[w] /\ resolved'[w] = resolved[w]
        /\ seqRead'[w] = seqRead[w] /\ used'[w] = used[w]
        /\ header'[w] = header[w] /\ prior'[w] = prior[w]
  BY DEF End, Forget, TypeOK
<1>2. \A w \in Writers \ {u} : \A r \in Records :
        /\ xlock'[r] = w <=> xlock[r] = w
        /\ w \in slock'[r] <=> w \in slock[r]
  BY NoneAssumption DEF End, LocksReleased, TypeOK
<1> QED BY <1>1, <1>2 DEF OthersKept

LEMMA ShareNextKeepsOthers ==
  ASSUME TypeOK, NEW u \in Writers, ShareNext(u)
  PROVE  OthersKept(u)
<1>1. PICK e \in FirstUnlocked(u) : slock' = [slock EXCEPT ![e] = @ \cup {u}]
  BY DEF ShareNext
<1>2. \A w \in Writers \ {u}, r \in Records : w \in slock'[r] <=> w \in slock[r]
  BY <1>1 DEF TypeOK
<1> QED BY <1>2 DEF ShareNext, OthersKept

LEMMA ActsKeepOthers ==
  ASSUME TypeOK, NEW u \in Writers, Acts(u)
  PROVE  OthersKept(u)
<1>1. ASSUME NEW r \in Records, NEW b, NEW l, PostBegin(u, r, b, l) PROVE OthersKept(u)
  BY <1>1, NoneAssumption DEF PostBegin, FreeForUpdate, TypeOK, OthersKept
<1>2. ASSUME NEW e \in Evals, NEW batch, PutBegin(u, e, batch) PROVE OthersKept(u)
  BY <1>2, NoneAssumption DEF PutBegin, FreeForUpdate, TypeOK, OthersKept, Records
<1>3. ASSUME NEW r \in Records, NEW s, NEW rel, AddBegin(u, r, s, rel) PROVE OthersKept(u)
  BY <1>3 DEF AddBegin, TypeOK, OthersKept
<1>4. CASE PostResolve(u)
  BY <1>4 DEF PostResolve, TypeOK, OthersKept
<1>5. CASE PostShare(u) \/ AddShare(u)
  BY <1>5, ShareNextKeepsOthers DEF PostShare, AddShare
<1>6. CASE PostFix(u)
  <2>1. CASE Rollback(u)
    BY <2>1, EndKeepsOthers DEF Rollback
  <2>2. CASE ~Rollback(u)
    BY <1>6, <2>2 DEF PostFix, TypeOK, OthersKept
  <2> QED BY <2>1, <2>2
<1>7. CASE PostCommit(u) \/ PutCommit(u) \/ AddPlain(u) \/ AddCommit(u) \/ Abort(u)
  <2>1. End(u)
    BY <1>7 DEF PostCommit, PutCommit, AddPlain, AddCommit, Abort, Rollback
  <2> QED BY <2>1, EndKeepsOthers
<1>8. CASE AddLock(u)
  BY <1>8, NoneAssumption DEF AddLock, FreeForUpdate, TypeOK, OthersKept
<1>9. CASE Short(u)
  BY <1>9 DEF Short, txVars, OthersKept
<1> QED
  BY <1>1, <1>2, <1>3, <1>4, <1>5, <1>6, <1>7, <1>8, <1>9 DEF Acts, Begin, Step

-----------------------------------------------------------------------------
(* Every step is a write of Hub.tla or changes no table                     *)

LEMMA PostCommitIsPost ==
  ASSUME IInv, NEW u \in Writers, PostCommit(u)
  PROVE  [HubNext]_hubVars
<1> DEFINE r == job[u].rec  b == job[u].body  l == job[u].label
<1>1. CASE Rollback(u)
  BY <1>1 DEF Rollback
<1>2. CASE ~Rollback(u)
  <2>1. /\ pc[u] = "commit" /\ ~LabelTaken(r, l)
        /\ WriteVersion(r, seqRead[u], b, l, resolved[u], used[u])
    BY <1>2 DEF PostCommit
  <2>2. /\ job[u] \in PostJob /\ b \in BodiesFor(r) /\ ~IsLatest(r, b)
        /\ resolved[u] \in SUBSET b.relations /\ MayWrite(u, r)
        /\ \A rel \in resolved[u] : versions[rel.to][rel.seq] # NoRow
    BY <2>1 DEF IInv, TxInv, ReadsHold, PostReadsHold, PostPc
  <2>3. FixedUsedHold(u)
    BY DEF IInv, TxInv, ReadsHold
  <2>4. /\ seqRead[u] = NextSeq(r)
        /\ used[u] = IF r \in Cards THEN FixUsed(r, NextSeq(r), resolved[u]) ELSE {}
        /\ r \in Cards =>
             /\ \A rel \in UsesEval(resolved[u]) : Visible(u, rel.to)
             /\ ~RunsUnknown(resolved[u])
             /\ ~ResultsOutside(b, resolved[u])
    BY <2>1, <2>3 DEF FixedUsedHold
  <2>5. r \in Records /\ l \in Labels \cup {NoLabel}
    BY <2>2 DEF PostJob
  <2> HIDE DEF r, b, l
  <2>6. Post(u, r, b, l, resolved[u])
    BY <2>1, <2>2, <2>4 DEF Post
  <2>7. LongWrite(u)
    BY <2>2, <2>5, <2>6 DEF LongWrite
  <2> QED BY <2>7 DEF HubNext
<1> QED BY <1>1, <1>2

LEMMA PutCommitIsPutRuns ==
  ASSUME IInv, NEW u \in Writers, PutCommit(u)
  PROVE  [HubNext]_hubVars
<1> DEFINE e == job[u].rec  batch == job[u].batch
<1>1. CASE Rollback(u)
  BY <1>1 DEF Rollback
<1>2. CASE ~Rollback(u)
  <2>1. /\ pc[u] = "put" /\ ~NamesDeleted(batch, prior[u])
        /\ WriteRuns(e, batch, prior[u], header[u])
    BY <1>2 DEF PutCommit
  <2>2. /\ job[u] \in PutJob /\ Live(e) # {} /\ header[u] = LatestBody(e)
        /\ prior[u] = runs[e] /\ MayWrite(u, e)
    BY <2>1 DEF IInv, TxInv, ReadsHold, PutReadsHold
  <2>3. PutRuns(u, e, batch) /\ e \in Evals /\ batch \in Batches
    BY <2>1, <2>2 DEF PutRuns, PutJob
  <2> HIDE DEF e, batch
  <2>4. LongWrite(u)
    BY <2>3 DEF LongWrite
  <2> QED BY <2>4 DEF HubNext
<1> QED BY <1>1, <1>2

(* relations::add: a one-statement insert, or extend_used_set.              *)
LEMMA AddIsAddRelation ==
  ASSUME IInv, NEW u \in Writers, AddPlain(u) \/ AddCommit(u)
  PROVE  [HubNext]_hubVars
<1> DEFINE r == job[u].rec  rel == job[u].rel  s == job[u].seq
<1>1. CASE Rollback(u)
  BY <1>1 DEF Rollback
<1>2. CASE ~Rollback(u)
  <2>1. /\ job[u] \in AddJob /\ s \in Stored(r) /\ resolved[u] \subseteq {rel}
        /\ MayWrite(u, r) /\ \A x \in resolved[u] : versions[x.to][x.seq] # NoRow
    BY DEF IInv, TxInv, ReadsHold, AddReadsHold, AddPlain, AddCommit, AddPc
  <2>2. r \in Records /\ rel \in NewEdges /\ s \in Seqs
    BY <2>1 DEF AddJob
  <2>3. rel.type = "core/uses_eval" /\ r \in Cards /\ rel.to \in Evals /\ rel \in resolved[u]
          <=> Candidates(u) # {}
    BY <2>1 DEF Candidates, UsesEval
  <2>4. CASE AddPlain(u)
    <3>1. AddRelation(u, r, s, rel, resolved[u] # {})
      BY <2>1, <2>3, <2>4 DEF AddPlain, AddRelation, ExtendsUsedSet
    <3> HIDE DEF r, rel, s
    <3>2. LongWrite(u)
      BY <2>2, <3>1 DEF LongWrite
    <3> QED BY <3>2 DEF HubNext
  <2>5. CASE AddCommit(u)
    <3>1. Candidates(u) # {}
      BY <2>5 DEF AddCommit, IInv, TxInv, ReadsHold, AddReadsHold, AddPc
    <3>2. \E resolvedNow \in BOOLEAN : AddRelation(u, r, s, rel, resolvedNow)
      <4>1. CASE ~Visible(u, rel.to)
        BY <1>2, <2>1, <2>5, <4>1 DEF AddCommit, AddRelation, ExtendsUsedSet
      <4>2. CASE Visible(u, rel.to)
        BY <1>2, <2>1, <2>3, <2>5, <3>1, <4>2 DEF AddCommit, AddRelation, ExtendsUsedSet
      <4> QED BY <4>1, <4>2
    <3> HIDE DEF r, rel, s
    <3>3. LongWrite(u)
      BY <2>2, <3>2 DEF LongWrite
    <3> QED BY <3>3 DEF HubNext
  <2> QED BY <2>4, <2>5
<1> QED BY <1>1, <1>2

LEMMA ShortIsShortWrite ==
  ASSUME NEW u \in Writers, Short(u)
  PROVE  [HubNext]_hubVars
<1>1. ShortWrite(u)
  BY DEF Short, ShortWrite
<1> QED BY <1>1 DEF HubNext

LEMMA StepImplementsHub == IInv /\ [Next]_vars => [HubNext]_hubVars
<1> SUFFICES ASSUME IInv, [Next]_vars PROVE [HubNext]_hubVars
  OBVIOUS
<1>1. ASSUME NEW u \in Writers, Begin(u) PROVE UNCHANGED hubVars
  BY <1>1 DEF Begin, PostBegin, PutBegin, AddBegin
<1>2. ASSUME NEW u \in Writers,
             PostResolve(u) \/ PostShare(u) \/ PostFix(u) \/ AddLock(u) \/ AddShare(u)
             \/ Abort(u)
      PROVE  UNCHANGED hubVars
  BY <1>2 DEF PostResolve, PostShare, PostFix, AddLock, AddShare, ShareNext, Abort, Rollback
<1>3. ASSUME NEW u \in Writers, Step(u) \/ Abort(u) PROVE [HubNext]_hubVars
  BY <1>2, <1>3, PostCommitIsPost, PutCommitIsPutRuns, AddIsAddRelation DEF Step
<1>4. CASE UNCHANGED vars
  BY <1>4 DEF vars
<1> QED BY <1>1, <1>3, <1>4, ShortIsShortWrite DEF Next

-----------------------------------------------------------------------------
(* Types                                                                    *)

LEMMA RowOfRuns ==
  ASSUME HubTypeOK, NEW e \in Evals
  PROVE  runs[e] \in [RunIds -> RunRow \cup {NoRow}]
BY DEF HubTypeOK

LEMMA EndType ==
  ASSUME TypeOK, HubTypeOK', NEW u \in Writers, End(u)
  PROVE  TypeOK'
<1>1. NoRuns \in [RunIds -> RunRow \cup {NoRow}]
  BY DEF NoRuns
<1>2. xlock' \in [Records -> Writers \cup {None}] /\ slock' \in [Records -> SUBSET Writers]
  BY DEF End, LocksReleased, TypeOK
<1>3. prior' \in [Writers -> [RunIds -> RunRow \cup {NoRow}]]
  BY <1>1 DEF End, Forget, TypeOK
<1> QED BY <1>2, <1>3 DEF End, Forget, TypeOK

LEMMA ShareNextType ==
  ASSUME TypeOK, NEW u \in Writers, ShareNext(u), HubTypeOK'
  PROVE  TypeOK'
<1>1. PICK e \in FirstUnlocked(u) : slock' = [slock EXCEPT ![e] = @ \cup {u}]
  BY DEF ShareNext
<1>2. slock' \in [Records -> SUBSET Writers]
  BY <1>1 DEF TypeOK
<1> QED BY <1>2 DEF ShareNext, TypeOK

LEMMA TypeStep == IInv /\ [Next]_vars => TypeOK'
<1> SUFFICES ASSUME IInv, [Next]_vars PROVE TypeOK'
  OBVIOUS
<1>0. TypeOK /\ HubTypeOK /\ HubTypeOK'
  BY StepImplementsHub, HubTypeStep DEF IInv, TypeOK
<1>1. ASSUME NEW u \in Writers, NEW r \in Records, NEW l \in Labels \cup {NoLabel},
             NEW b \in BodiesFor(r), PostBegin(u, r, b, l)
      PROVE  TypeOK'
  <2>1. [rec |-> r, body |-> b, label |-> l] \in PostJob
    BY DEF PostJob, BodiesFor, Bodies
  <2> QED BY <1>0, <1>1, <2>1 DEF PostBegin, TypeOK, PostPc
<1>2. ASSUME NEW u \in Writers, NEW e \in Evals, NEW batch \in Batches, PutBegin(u, e, batch)
      PROVE  TypeOK'
  <2>1. [rec |-> e, batch |-> batch] \in PutJob
    BY DEF PutJob
  <2>2. LatestBody(e) \in Bodies
    BY <1>0, <1>2, LatestBodyType DEF PutBegin, Records
  <2>3. xlock' \in [Records -> Writers \cup {None}]
    BY <1>0, <1>2 DEF PutBegin, TypeOK, Records
  <2>4. prior' \in [Writers -> [RunIds -> RunRow \cup {NoRow}]]
    BY <1>0, <1>2, RowOfRuns DEF PutBegin, TypeOK
  <2> QED BY <1>0, <1>2, <2>1, <2>2, <2>3, <2>4 DEF PutBegin, TypeOK
<1>3. ASSUME NEW u \in Writers, NEW r \in Records, NEW s \in Seqs, NEW rel \in NewEdges,
             AddBegin(u, r, s, rel)
      PROVE  TypeOK'
  <2>1. [rec |-> r, seq |-> s, rel |-> rel] \in AddJob
    BY DEF AddJob
  <2>2. {x \in {rel} : Resolves(u, x)} \in SUBSET Relations
    BY HubAssumption
  <2> QED BY <1>0, <1>3, <2>1, <2>2 DEF AddBegin, TypeOK, AddPc
<1>4. ASSUME NEW u \in Writers, PostResolve(u) PROVE TypeOK'
  <2>1. job[u].body.relations \subseteq Relations
    <3>1. job[u].body \in Bodies
      BY <1>4 DEF PostResolve, IInv, TxInv, ReadsHold, PostReadsHold, PostPc, PostJob
    <3> QED BY <3>1, HubAssumption DEF BodyShape
  <2>2. {rel \in job[u].body.relations : Resolves(u, rel)} \in SUBSET Relations
    BY <2>1
  <2> QED BY <1>0, <1>4, <2>2 DEF PostResolve, TypeOK, PostPc
<1>5. ASSUME NEW u \in Writers, PostShare(u) \/ AddShare(u) PROVE TypeOK'
  BY <1>0, <1>5, ShareNextType DEF PostShare, AddShare
<1>6. ASSUME NEW u \in Writers, PostFix(u) PROVE TypeOK'
  <2>1. CASE Rollback(u)
    BY <1>0, <2>1, EndType DEF Rollback
  <2>2. CASE ~Rollback(u)
    <3> DEFINE r == job[u].rec
               fixed == IF r \in Cards THEN FixUsed(r, NextSeq(r), Demoted(u)) ELSE {}
    <3>1. r \in Records
      BY <1>6 DEF PostFix, IInv, TxInv, ReadsHold, PostReadsHold, PostPc, PostJob
    <3>2. NextSeq(r) \in Nat
      BY <1>0, <3>1, NextSeqFollows
    <3>3. fixed \in SUBSET [card : Records, seq : Nat, eval : Evals, run : RunIds,
                            content_hash : Contents]
      <4>1. FixUsed(r, NextSeq(r), Demoted(u)) \subseteq
              [card : Records, seq : {NextSeq(r)}, eval : Evals, run : RunIds,
               content_hash : Contents]
        BY <1>0, <3>1, FixUsedType
      <4> QED BY <3>2, <4>1
    <3>4. Demoted(u) \in SUBSET Relations
      BY <1>0 DEF Demoted, TypeOK
    <3>5. /\ resolved' = [resolved EXCEPT ![u] = Demoted(u)]
          /\ seqRead' = [seqRead EXCEPT ![u] = NextSeq(r)]
          /\ used' = [used EXCEPT ![u] = fixed]
          /\ pc' = [pc EXCEPT ![u] = "commit"]
          /\ UNCHANGED <<hubVars, job, header, prior, xlock, slock>>
      BY <1>6, <2>2 DEF PostFix
    <3> HIDE DEF fixed, r
    <3> QED BY <1>0, <3>2, <3>3, <3>4, <3>5 DEF TypeOK, PostPc
  <2> QED BY <2>1, <2>2
<1>7. ASSUME NEW u \in Writers,
             PostCommit(u) \/ PutCommit(u) \/ AddPlain(u) \/ AddCommit(u) \/ Abort(u)
      PROVE  TypeOK'
  BY <1>0, <1>7, EndType DEF PostCommit, PutCommit, AddPlain, AddCommit, Abort, Rollback
<1>8. ASSUME NEW u \in Writers, AddLock(u) PROVE TypeOK'
  BY <1>0, <1>8 DEF AddLock, TypeOK, AddPc
<1>9. ASSUME NEW u \in Writers, Short(u) PROVE TypeOK'
  BY <1>0, <1>9 DEF Short, txVars, TypeOK
<1>10. CASE UNCHANGED vars
  BY <1>0, <1>10 DEF vars, txVars, TypeOK
<1> QED
  BY <1>1, <1>2, <1>3, <1>4, <1>5, <1>6, <1>7, <1>8, <1>9, <1>10 DEF Next, Begin, Step

-----------------------------------------------------------------------------
(* Locks                                                                    *)

(* LocksConsistent, one writer or one row at a time.                        *)
WriterLocks(w) ==
  /\ \A r \in Records :
       /\ xlock[r] = w => pc[w] \in Exclusive /\ job[w].rec = r
       /\ w \in slock[r] => pc[w] \in Sharing /\ job[w].rec \in Cards /\ r \in Evals
  /\ pc[w] \in Exclusive => xlock[job[w].rec] = w
RowLocks == \A r \in Records : xlock[r] # None => slock[r] = {}

LEMMA JobRecord ==
  ASSUME TypeOK, ReadsHold, NEW w \in Writers, pc[w] # "idle"
  PROVE  job[w].rec \in Records
<1>1. pc[w] \in {"put"} \cup PostPc \cup AddPc
  BY DEF TypeOK
<1> QED
  BY <1>1 DEF ReadsHold, PutReadsHold, PostReadsHold, AddReadsHold, PutJob, PostJob, AddJob,
              Records

LEMMA OthersLocks ==
  ASSUME TypeOK, ReadsHold, NEW u \in Writers, NEW w \in Writers \ {u}, OthersKept(u),
         WriterLocks(w)
  PROVE  WriterLocks(w)'
<1>1. pc[w] \in Exclusive => job[w].rec \in Records
  BY JobRecord DEF Exclusive
<1> QED BY <1>1 DEF OthersKept, WriterLocks

LEMMA EndLocks ==
  ASSUME TypeOK, RowLocks, NEW u \in Writers, End(u)
  PROVE  WriterLocks(u)' /\ RowLocks'
<1>1. WriterLocks(u)'
  BY NoneAssumption DEF End, LocksReleased, Forget, TypeOK, WriterLocks, Exclusive
<1>2. RowLocks'
  BY DEF End, LocksReleased, TypeOK, RowLocks
<1> QED BY <1>1, <1>2

LEMMA ShareNextLocks ==
  ASSUME TypeOK, RowLocks, NEW u \in Writers, WriterLocks(u), pc[u] \in Sharing, ShareNext(u)
  PROVE  WriterLocks(u)' /\ RowLocks'
<1>1. PICK e \in FirstUnlocked(u) :
        FreeForShare(u, e) /\ slock' = [slock EXCEPT ![e] = @ \cup {u}]
  BY DEF ShareNext
<1>2. e \in Evals /\ e \in Records /\ job[u].rec \in Cards
  BY <1>1 DEF FirstUnlocked, Unlocked, Candidates, UsesEval, Records
<1>3. xlock[e] = None
  BY <1>1, <1>2, HubAssumption DEF FreeForShare, WriterLocks
<1>4. xlock' = xlock /\ pc' = pc /\ job' = job
  BY DEF ShareNext
<1>5. WriterLocks(u)'
  BY <1>1, <1>2, <1>4 DEF WriterLocks, TypeOK
<1>6. RowLocks'
  BY <1>1, <1>3, <1>4 DEF RowLocks, TypeOK
<1> QED BY <1>5, <1>6

(* Taking a free row FOR UPDATE, from a point where u holds nothing.        *)
LEMMA LockTaken ==
  ASSUME TypeOK, RowLocks, NEW u \in Writers, WriterLocks(u), pc[u] \in {"idle", "add"},
         NEW r \in Records, FreeForUpdate(u, r), xlock' = [xlock EXCEPT ![r] = u],
         slock' = slock, pc'[u] \in Exclusive, job'[u].rec = r
  PROVE  WriterLocks(u)' /\ RowLocks'
<1>1. \A q \in Records : u \notin slock[q] /\ xlock[q] # u
  BY DEF WriterLocks, Exclusive, Sharing
<1>2. slock[r] = {}
  BY <1>1 DEF FreeForUpdate
<1>3. WriterLocks(u)'
  BY <1>1 DEF WriterLocks, TypeOK
<1>4. RowLocks'
  BY <1>2 DEF RowLocks, TypeOK
<1> QED BY <1>3, <1>4

LEMMA LocksStep == IInv /\ [Next]_vars => LocksConsistent'
<1> SUFFICES ASSUME IInv, [Next]_vars PROVE LocksConsistent'
  OBVIOUS
<1>0. TypeOK /\ ReadsHold /\ RowLocks /\ \A w \in Writers : WriterLocks(w)
  BY DEF IInv, TxInv, LocksConsistent, RowLocks, WriterLocks
<1>1. ASSUME NEW u \in Writers, Acts(u) PROVE WriterLocks(u)' /\ RowLocks'
  <2>1. ASSUME NEW r \in Records, NEW b, NEW l, PostBegin(u, r, b, l)
        PROVE  WriterLocks(u)' /\ RowLocks'
    <3>1. /\ pc[u] = "idle" /\ pc'[u] = "resolve" /\ job'[u].rec = r
          /\ FreeForUpdate(u, r) /\ xlock' = [xlock EXCEPT ![r] = u] /\ slock' = slock
      BY <1>0, <2>1 DEF PostBegin, TypeOK
    <3>2. pc'[u] \in Exclusive /\ pc[u] \in {"idle", "add"}
      BY <3>1 DEF Exclusive
    <3> QED BY <1>0, <3>1, <3>2, LockTaken
  <2>2. ASSUME NEW e \in Evals, NEW batch, PutBegin(u, e, batch)
        PROVE  WriterLocks(u)' /\ RowLocks'
    <3>1. /\ pc[u] = "idle" /\ pc'[u] = "put" /\ job'[u].rec = e /\ e \in Records
          /\ FreeForUpdate(u, e) /\ xlock' = [xlock EXCEPT ![e] = u] /\ slock' = slock
      BY <1>0, <2>2 DEF PutBegin, TypeOK, Records
    <3>2. pc'[u] \in Exclusive /\ pc[u] \in {"idle", "add"}
      BY <3>1 DEF Exclusive
    <3> QED BY <1>0, <3>1, <3>2, LockTaken
  <2>3. ASSUME NEW r, NEW s, NEW rel, AddBegin(u, r, s, rel)
        PROVE  WriterLocks(u)' /\ RowLocks'
    <3>1. pc'[u] = "add" /\ pc[u] = "idle" /\ xlock' = xlock /\ slock' = slock
      BY <1>0, <2>3 DEF AddBegin, TypeOK
    <3> QED BY <1>0, <3>1 DEF WriterLocks, RowLocks, Exclusive, Sharing
  <2>4. CASE PostResolve(u)
    <3>1. /\ pc'[u] = "share" /\ pc[u] = "resolve"
          /\ xlock' = xlock /\ slock' = slock /\ job' = job
      BY <1>0, <2>4 DEF PostResolve, TypeOK
    <3> QED BY <1>0, <3>1 DEF WriterLocks, RowLocks, Exclusive, Sharing
  <2>5. CASE PostShare(u) \/ AddShare(u)
    BY <1>0, <2>5, ShareNextLocks DEF PostShare, AddShare, Sharing
  <2>6. CASE PostFix(u)
    <3>1. CASE Rollback(u)
      BY <1>0, <3>1, EndLocks DEF Rollback
    <3>2. CASE ~Rollback(u)
      <4>1. /\ pc'[u] = "commit" /\ pc[u] = "share"
            /\ xlock' = xlock /\ slock' = slock /\ job' = job
        BY <1>0, <2>6, <3>2 DEF PostFix, TypeOK
      <4> QED BY <1>0, <4>1 DEF WriterLocks, RowLocks, Exclusive, Sharing
    <3> QED BY <3>1, <3>2
  <2>7. CASE PostCommit(u) \/ PutCommit(u) \/ AddPlain(u) \/ AddCommit(u) \/ Abort(u)
    BY <1>0, <2>7, EndLocks DEF PostCommit, PutCommit, AddPlain, AddCommit, Abort, Rollback
  <2>8. CASE AddLock(u)
    <3>1. pc'[u] = "addshare" /\ pc[u] = "add" /\ job' = job
      BY <1>0, <2>8 DEF AddLock, TypeOK
    <3>2. job[u].rec \in Records
      BY <1>0, <3>1, JobRecord
    <3> QED BY <1>0, <2>8, <3>1, <3>2, LockTaken DEF AddLock, Exclusive
  <2>9. CASE Short(u)
    BY <1>0, <2>9 DEF Short, txVars, WriterLocks, RowLocks
  <2> QED
    BY <1>1, <2>1, <2>2, <2>3, <2>4, <2>5, <2>6, <2>7, <2>8, <2>9 DEF Acts, Begin, Step
<1>2. ASSUME NEW u \in Writers, Acts(u) PROVE \A w \in Writers : WriterLocks(w)'
  <2>1. OthersKept(u)
    BY <1>0, <1>2, ActsKeepOthers
  <2>2. \A w \in Writers \ {u} : WriterLocks(w)'
    BY <1>0, <2>1, OthersLocks
  <2> QED BY <1>1, <1>2, <2>2
<1>3. CASE UNCHANGED vars
  BY <1>0, <1>3 DEF vars, txVars, LocksConsistent, RowLocks, WriterLocks
<1>4. ASSUME NEW u \in Writers, Acts(u) PROVE LocksConsistent'
  BY <1>1, <1>2, <1>4 DEF LocksConsistent, RowLocks, WriterLocks
<1> QED BY <1>3, <1>4 DEF Next, Acts

-----------------------------------------------------------------------------
(* Reads                                                                    *)

(* ReadsHold, one writer at a time.                                         *)
WriterReads(w) ==
  /\ pc[w] = "idle" => resolved[w] = {}
  /\ pc[w] # "idle" => MayWrite(w, job[w].rec)
  /\ \A rel \in resolved[w] : versions[rel.to][rel.seq] # NoRow
  /\ PutReadsHold(w) /\ PostReadsHold(w) /\ FixedUsedHold(w) /\ AddReadsHold(w)

(* The rows of q that the transactions read.                                *)
RowsKeptAt(q) ==
  versions'[q] = versions[q] /\ visibility'[q] = visibility[q]
  /\ (q \in Evals => runs'[q] = runs[q])

(* A write changes the rows of the one record it has for itself.            *)
LEMMA WritesOneRecord ==
  ASSUME IInv, NEW u \in Writers, Acts(u), NEW q \in Records
  PROVE  RowsKeptAt(q) \/ xlock[q] = u \/ FreeForUpdate(u, q)
<1>0. TypeOK /\ HubTypeOK
  BY DEF IInv, TypeOK
<1>1. CASE UNCHANGED <<versions, visibility, runs>>
  BY <1>1 DEF RowsKeptAt
<1>2. CASE PostCommit(u) /\ ~Rollback(u)
  <2>1. pc[u] = "commit" /\ xlock[job[u].rec] = u
    BY <1>2 DEF PostCommit, IInv, TxInv, LocksConsistent, Exclusive
  <2>2. job[u].rec # q => RowsKeptAt(q)
    BY <1>0, <1>2 DEF PostCommit, WriteVersion, RowsKeptAt, HubTypeOK
  <2> QED BY <2>1, <2>2
<1>3. CASE PutCommit(u) /\ ~Rollback(u)
  <2>1. pc[u] = "put" /\ xlock[job[u].rec] = u
    BY <1>3 DEF PutCommit, IInv, TxInv, LocksConsistent, Exclusive
  <2>2. job[u].rec # q => RowsKeptAt(q)
    BY <1>0, <1>3 DEF PutCommit, WriteRuns, RowsKeptAt, HubTypeOK
  <2> QED BY <2>1, <2>2
<1>4. CASE Short(u)
  <2>1. ASSUME NEW r \in Records, NEW s \in Seqs, NEW l \in Labels,
               Locked(u, r) /\ SetLabel(u, r, s, l), r # q
        PROVE  RowsKeptAt(q)
    BY <1>0, <2>1 DEF SetLabel, RowsKeptAt, HubTypeOK
  <2>2. ASSUME NEW r \in Records, NEW v \in {"private", "public"},
               Locked(u, r) /\ SetVisibility(u, r, v), r # q
        PROVE  RowsKeptAt(q)
    BY <1>0, <2>2 DEF SetVisibility, RowsKeptAt, HubTypeOK
  <2>3. ASSUME NEW r \in Records, NEW s \in Seqs, Locked(u, r) /\ Tombstone(u, r, s), r # q
        PROVE  RowsKeptAt(q)
    BY <1>0, <2>3 DEF Tombstone, RowsKeptAt, HubTypeOK
  <2>4. ASSUME NEW e \in Evals, NEW i \in RunIds, NEW a \in BOOLEAN,
               Locked(u, e) /\ SetArchived(u, e, i, a), e # q
        PROVE  RowsKeptAt(q)
    BY <1>0, <2>4 DEF SetArchived, RowsKeptAt, HubTypeOK
  <2>5. ASSUME NEW e \in Evals, NEW i \in RunIds, Locked(u, e) /\ DeleteRun(u, e, i), e # q
        PROVE  RowsKeptAt(q)
    BY <1>0, <2>5 DEF DeleteRun, RowsKeptAt, HubTypeOK
  <2> QED BY <1>4, <2>1, <2>2, <2>3, <2>4, <2>5 DEF Short, Locked
<1>5. ASSUME Begin(u) PROVE UNCHANGED hubVars
  BY <1>5 DEF Begin, PostBegin, PutBegin, AddBegin
<1>6. ASSUME PostResolve(u) \/ PostShare(u) \/ PostFix(u) \/ AddLock(u) \/ AddShare(u)
             \/ Abort(u) \/ Rollback(u)
      PROVE  UNCHANGED hubVars
  BY <1>6 DEF PostResolve, PostShare, PostFix, AddLock, AddShare, ShareNext, Abort, Rollback
<1>7. ASSUME AddPlain(u) \/ AddCommit(u) PROVE UNCHANGED <<versions, visibility, runs>>
  BY <1>7 DEF AddPlain, AddCommit, AddEdge, Rollback, hubVars
<1> QED
  BY <1>1, <1>2, <1>3, <1>4, <1>5, <1>6, <1>7 DEF Acts, Step, hubVars

(* So what another transaction has locked, exclusively or shared, keeps.    *)
LEMMA LockedRowsKept ==
  ASSUME IInv, NEW u \in Writers, Acts(u), NEW w \in Writers \ {u}, NEW q \in Records,
         xlock[q] = w \/ w \in slock[q]
  PROVE  RowsKeptAt(q)
<1>1. xlock[q] # u
  BY NoneAssumption DEF IInv, TxInv, LocksConsistent
<1>2. ~FreeForUpdate(u, q)
  BY NoneAssumption DEF FreeForUpdate
<1> QED BY <1>1, <1>2, WritesOneRecord

(* What used_set::fix computes depends on the rows of the Evals it names.   *)
LEMMA UsedRunsKept ==
  ASSUME NEW rels, NEW e \in Evals, runs'[e] = runs[e]
  PROVE  UsedRuns(rels, e)' = UsedRuns(rels, e) /\ RunRows(e)' = RunRows(e)
BY DEF UsedRuns, NamedRuns, Naming, UsesEval, LiveRuns, RunRows

LEMMA FixUsedKept ==
  ASSUME NEW card, NEW seq, NEW rels, NEW body,
         \A rel \in UsesEval(rels) : runs'[rel.to] = runs[rel.to]
  PROVE  /\ FixUsed(card, seq, rels)' = FixUsed(card, seq, rels)
         /\ RunsUnknown(rels)' <=> RunsUnknown(rels)
         /\ ResultsOutside(body, rels)' <=> ResultsOutside(body, rels)
<1>1. \A rel \in UsesEval(rels) : rel.to \in Evals
  BY DEF UsesEval
<1>2. \A e \in {rel.to : rel \in UsesEval(rels)} :
        /\ runs'[e] = runs[e]
        /\ UsedRuns(rels, e)' = UsedRuns(rels, e)
        /\ RunRows(e)' = RunRows(e)
  BY <1>1, UsedRunsKept
<1>3. FixUsed(card, seq, rels)' = FixUsed(card, seq, rels)
  BY <1>2 DEF FixUsed, UsesEval
<1>4. RunsUnknown(rels)' <=> RunsUnknown(rels)
  BY <1>2 DEF RunsUnknown, UsesEval
<1>5. ResultsOutside(body, rels)' <=> ResultsOutside(body, rels)
  BY <1>2 DEF ResultsOutside, UsesEval
<1> QED BY <1>3, <1>4, <1>5

(* Another transaction's reads hold after any step of u.                    *)
LEMMA OthersReads ==
  ASSUME IInv, NEW u \in Writers, Acts(u), NEW w \in Writers \ {u}
  PROVE  WriterReads(w)'
<1>0. /\ TypeOK /\ HubTypeOK /\ WriterReads(w) /\ LocksConsistent
      /\ ReadsHold
  BY DEF IInv, TypeOK, TxInv, ReadsHold, WriterReads
<1>1. OthersKept(u)
  BY <1>0, ActsKeepOthers
<1>2. /\ pc'[w] = pc[w] /\ job'[w] = job[w] /\ resolved'[w] = resolved[w]
      /\ seqRead'[w] = seqRead[w] /\ used'[w] = used[w]
      /\ header'[w] = header[w] /\ prior'[w] = prior[w]
      /\ \A q \in Records : w \in slock[q] => w \in slock'[q]
  BY <1>1 DEF OthersKept
<1>3. VersionsGrow
  BY <1>0, StepImplementsHub, VersionsGrowStep DEF Acts, Next
<1>4. \A q \in Records : \A s \in Seqs : versions[q][s] # NoRow => versions'[q][s] # NoRow
  BY <1>3 DEF VersionsGrow, Stored
<1>5. \A rel \in resolved[w] : versions'[rel.to][rel.seq] # NoRow
  <2>1. \A rel \in resolved[w] : rel.to \in Records /\ rel.seq \in Seqs
    BY <1>0 DEF TypeOK, Relations
  <2> QED BY <1>0, <1>4, <2>1 DEF WriterReads
<1>6. \A q \in Records : xlock[q] = w \/ w \in slock[q] => RowsKeptAt(q)
  BY LockedRowsKept
<1>7. pc[w] # "idle" => job[w].rec \in Records
  BY <1>0, JobRecord
<1>8. pc[w] \in Exclusive => RowsKeptAt(job[w].rec)
  BY <1>0, <1>6, <1>7 DEF LocksConsistent, Exclusive
<1>9. PutReadsHold(w)'
  <2> SUFFICES ASSUME pc[w] = "put" PROVE PutReadsHold(w)'
    BY <1>2 DEF PutReadsHold
  <2>1. PutReadsHold(w) /\ RowsKeptAt(job[w].rec)
    BY <1>0, <1>8 DEF WriterReads, Exclusive
  <2>2. job[w].rec \in Evals
    BY <2>1 DEF PutReadsHold, PutJob
  <2> QED BY <1>2, <2>1, <2>2 DEF PutReadsHold, RowsKeptAt, Live, Stored, LatestBody
<1>10. pc[w] \in PostPc => /\ job'[w] = job[w] /\ versions'[job[w].rec] = versions[job[w].rec]
                           /\ Stored(job[w].rec)' = Stored(job[w].rec)
                           /\ Live(job[w].rec)' = Live(job[w].rec)
  BY <1>2, <1>8 DEF PostPc, Exclusive, RowsKeptAt, Live, Stored
<1>11. PostReadsHold(w)'
  <2> SUFFICES ASSUME pc[w] \in PostPc PROVE PostReadsHold(w)'
    BY <1>2 DEF PostReadsHold
  <2>1. PostReadsHold(w)
    BY <1>0 DEF WriterReads
  <2>2. IsLatest(job[w].rec, job[w].body)' <=> IsLatest(job[w].rec, job[w].body)
    BY <1>10 DEF IsLatest, LatestBody
  <2>3. NextSeq(job[w].rec)' = NextSeq(job[w].rec)
    BY <1>10 DEF NextSeq
  <2> QED BY <1>2, <2>1, <2>2, <2>3 DEF PostReadsHold
<1>12. FixedUsedHold(w)'
  <2> SUFFICES ASSUME pc[w] = "commit" PROVE FixedUsedHold(w)'
    BY <1>2 DEF FixedUsedHold
  <2>1. FixedUsedHold(w)
    BY <1>0 DEF WriterReads
  <2>2. seqRead'[w] = NextSeq(job[w].rec)'
    BY <1>2, <1>10, <2>1 DEF FixedUsedHold, NextSeq, PostPc
  <2>3. CASE job[w].rec \notin Cards
    <3>1. used'[w] = {} /\ job'[w].rec \notin Cards
      BY <1>2, <2>1, <2>3 DEF FixedUsedHold
    <3> QED BY <1>2, <2>2, <3>1 DEF FixedUsedHold
  <2>4. CASE job[w].rec \in Cards
    <3>1. \A rel \in UsesEval(resolved[w]) :
            /\ rel.to \in Evals /\ rel.to \in Records
            /\ w \in slock[rel.to] /\ RowsKeptAt(rel.to) /\ Visible(w, rel.to)
      BY <1>6, <2>1, <2>4 DEF FixedUsedHold, UsesEval, Records
    <3>2. \A rel \in UsesEval(resolved[w]) :
            /\ w \in slock'[rel.to] /\ Visible(w, rel.to)' /\ runs'[rel.to] = runs[rel.to]
      BY <1>2, <3>1 DEF RowsKeptAt, Visible
    <3>3. /\ FixUsed(job[w].rec, seqRead[w], resolved[w])'
               = FixUsed(job[w].rec, seqRead[w], resolved[w])
          /\ ~RunsUnknown(resolved[w])'
          /\ ~ResultsOutside(job[w].body, resolved[w])'
      BY <1>2, <2>1, <2>4, <3>2, FixUsedKept DEF FixedUsedHold
    <3>4. UsesEval(resolved[w])' = UsesEval(resolved[w])
      BY <1>2 DEF UsesEval
    <3> QED BY <1>2, <2>1, <2>2, <2>4, <3>2, <3>3, <3>4 DEF FixedUsedHold
  <2> QED BY <2>3, <2>4
<1>13. AddReadsHold(w)'
  <2> SUFFICES ASSUME pc[w] \in AddPc PROVE AddReadsHold(w)'
    BY <1>2 DEF AddReadsHold
  <2>1. AddReadsHold(w)
    BY <1>0 DEF WriterReads
  <2>2. Candidates(w)' = Candidates(w)
    BY <1>2 DEF Candidates, UsesEval
  <2>3. job[w].seq \in Stored(job[w].rec)'
    <3>1. job[w].seq \in Stored(job[w].rec) /\ job[w].rec \in Records
      BY <1>7, <2>1 DEF AddReadsHold, AddPc
    <3>2. Stored(job[w].rec) \subseteq {s \in Seqs : versions'[job[w].rec][s] # NoRow}
      BY <1>4, <3>1 DEF Stored
    <3> QED BY <1>2, <3>1, <3>2 DEF Stored
  <2> QED BY <1>2, <2>1, <2>2, <2>3 DEF AddReadsHold
<1> QED BY <1>0, <1>2, <1>5, <1>9, <1>11, <1>12, <1>13 DEF WriterReads, MayWrite

(* A transaction that has ended has read nothing.                           *)
LEMMA EndReads ==
  ASSUME TypeOK, NEW u \in Writers, End(u)
  PROVE  WriterReads(u)'
<1>1. pc'[u] = "idle" /\ resolved'[u] = {}
  BY DEF End, Forget, TypeOK
<1> QED
  BY <1>1 DEF WriterReads, PutReadsHold, PostReadsHold, FixedUsedHold, AddReadsHold, PostPc, AddPc

(* u's own reads hold where it takes them, and until its next step.         *)
LEMMA OwnReads ==
  ASSUME IInv, NEW u \in Writers, Acts(u)
  PROVE  WriterReads(u)'
<1>0. TypeOK /\ HubTypeOK /\ TypeOK' /\ WriterReads(u) /\ LocksConsistent
  BY TypeStep DEF IInv, TypeOK, TxInv, ReadsHold, WriterReads, Acts, Next
<1>1. ASSUME NEW r \in Records, NEW l \in Labels \cup {NoLabel}, NEW b \in BodiesFor(r),
             PostBegin(u, r, b, l)
      PROVE  WriterReads(u)'
  <2>1. /\ pc'[u] = "resolve" /\ resolved'[u] = {}
        /\ job'[u] = [rec |-> r, body |-> b, label |-> l]
        /\ MayWrite(u, r) /\ ~IsLatest(r, b) /\ NextSeq(r) \in Seqs
        /\ versions' = versions
    BY <1>0, <1>1 DEF PostBegin, TypeOK, WriterReads, hubVars
  <2>2. [rec |-> r, body |-> b, label |-> l] \in PostJob
    BY DEF PostJob, BodiesFor, Bodies
  <2>3. ~IsLatest(r, b)' /\ NextSeq(r)' \in Seqs
    BY <2>1 DEF IsLatest, LatestBody, Live, Stored, NextSeq
  <2>4. PostReadsHold(u)'
    BY <2>1, <2>2, <2>3 DEF PostReadsHold, IsLatest, LatestBody, Live, Stored, NextSeq
  <2> QED
    BY <2>1, <2>4
       DEF WriterReads, PutReadsHold, FixedUsedHold, AddReadsHold, AddPc, MayWrite
<1>2. ASSUME NEW e \in Evals, NEW batch \in Batches, PutBegin(u, e, batch)
      PROVE  WriterReads(u)'
  <2>1. /\ pc'[u] = "put" /\ resolved'[u] = {}
        /\ job'[u] = [rec |-> e, batch |-> batch]
        /\ MayWrite(u, e) /\ Live(e) # {}
        /\ header'[u] = LatestBody(e) /\ prior'[u] = runs[e]
        /\ versions' = versions /\ runs' = runs
    BY <1>0, <1>2 DEF PutBegin, TypeOK, WriterReads, hubVars
  <2>2. [rec |-> e, batch |-> batch] \in PutJob
    BY DEF PutJob
  <2>3. PutReadsHold(u)'
    BY <2>1, <2>2 DEF PutReadsHold, Live, Stored, LatestBody
  <2> QED
    BY <2>1, <2>3
       DEF WriterReads, PostReadsHold, FixedUsedHold, AddReadsHold, PostPc, AddPc, MayWrite
<1>3. ASSUME NEW r \in Records, NEW s \in Seqs, NEW rel \in NewEdges, AddBegin(u, r, s, rel)
      PROVE  WriterReads(u)'
  <2>1. /\ pc'[u] = "add" /\ resolved'[u] = {x \in {rel} : Resolves(u, x)}
        /\ job'[u] = [rec |-> r, seq |-> s, rel |-> rel]
        /\ MayWrite(u, r) /\ s \in Stored(r) /\ versions' = versions
    BY <1>0, <1>3 DEF AddBegin, TypeOK, hubVars
  <2>2. [rec |-> r, seq |-> s, rel |-> rel] \in AddJob
    BY DEF AddJob
  <2>3. AddReadsHold(u)'
    BY <2>1, <2>2 DEF AddReadsHold, Stored
  <2>4. \A x \in resolved'[u] : versions'[x.to][x.seq] # NoRow
    BY <2>1 DEF Resolves
  <2> QED
    BY <2>1, <2>3, <2>4
       DEF WriterReads, PutReadsHold, PostReadsHold, FixedUsedHold, PostPc, MayWrite
<1>4. CASE PostResolve(u)
  <2>1. /\ pc[u] = "resolve" /\ pc'[u] = "share" /\ job' = job /\ versions' = versions
        /\ resolved'[u] = {rel \in job[u].body.relations : Resolves(u, rel)}
    BY <1>0, <1>4 DEF PostResolve, TypeOK, hubVars
  <2>2. PostReadsHold(u)'
    BY <1>0, <2>1
       DEF WriterReads, PostReadsHold, PostPc, IsLatest, LatestBody, Live, Stored, NextSeq
  <2>3. \A x \in resolved'[u] : versions'[x.to][x.seq] # NoRow
    BY <2>1 DEF Resolves
  <2> QED
    BY <1>0, <2>1, <2>2, <2>3
       DEF WriterReads, PutReadsHold, FixedUsedHold, AddReadsHold, AddPc, MayWrite
<1>5. CASE PostShare(u) \/ AddShare(u)
  <2>1. /\ UNCHANGED <<hubVars, pc, job, resolved, seqRead, used, header, prior>>
        /\ pc[u] \in {"share", "addshare"}
    BY <1>5 DEF PostShare, AddShare, ShareNext
  <2>2. PostReadsHold(u)' /\ AddReadsHold(u)'
    BY <1>0, <2>1
       DEF WriterReads, PostReadsHold, AddReadsHold, hubVars, IsLatest, LatestBody, Live,
           Stored, NextSeq, Candidates, UsesEval
  <2> QED
    BY <1>0, <2>1, <2>2 DEF WriterReads, PutReadsHold, FixedUsedHold, MayWrite, hubVars
<1>6. CASE PostFix(u)
  <2>1. CASE Rollback(u)
    BY <1>0, <2>1, EndReads DEF Rollback
  <2>2. CASE ~Rollback(u)
    <3> DEFINE r == job[u].rec  rels == Demoted(u)
    <3>1. /\ pc[u] = "share" /\ Unlocked(u) = {} /\ pc'[u] = "commit" /\ job' = job
          /\ resolved'[u] = rels /\ seqRead'[u] = NextSeq(r)
          /\ used'[u] = IF r \in Cards THEN FixUsed(r, NextSeq(r), rels) ELSE {}
          /\ r \in Cards => ~RunsUnknown(rels) /\ ~ResultsOutside(job[u].body, rels)
          /\ slock' = slock
          /\ versions' = versions /\ runs' = runs /\ visibility' = visibility
      BY <1>0, <1>6, <2>2 DEF PostFix, TypeOK, hubVars
    <3>2. rels \subseteq resolved[u]
      BY DEF Demoted
    <3>3. PostReadsHold(u)'
      BY <1>0, <3>1, <3>2
         DEF WriterReads, PostReadsHold, PostPc, IsLatest, LatestBody, Live, Stored, NextSeq
    <3>4. r \in Cards => \A rel \in UsesEval(rels) :
             u \in slock[rel.to] /\ Visible(u, rel.to)
      BY <3>1, <3>2 DEF UsesEval, Demoted, Candidates, Unlocked
    <3>5. FixedUsedHold(u)'
      <4>1. job'[u].rec = r /\ job'[u].body = job[u].body /\ NextSeq(r)' = NextSeq(r)
        BY <3>1 DEF NextSeq, Stored
      <4>2. /\ FixUsed(r, NextSeq(r), rels) = FixUsed(job[u].rec, seqRead[u], resolved[u])'
            /\ RunsUnknown(resolved[u])' <=> RunsUnknown(rels)
            /\ ResultsOutside(job[u].body, resolved[u])'
                 <=> ResultsOutside(job[u].body, rels)
        <5> HIDE DEF r, rels
        <5> QED
          BY <3>1, <4>1
             DEF FixUsed, RunsUnknown, ResultsOutside, UsedRuns, NamedRuns, Naming, UsesEval,
                 LiveRuns, RunRows
      <4>3. r \in Cards => \A rel \in UsesEval(resolved[u])' :
               u \in slock'[rel.to] /\ Visible(u, rel.to)'
        <5>1. UsesEval(resolved[u])' = UsesEval(rels)
          BY <3>1 DEF UsesEval
        <5>2. \A q : Visible(u, q)' <=> Visible(u, q)
          BY <3>1 DEF Visible
        <5> HIDE DEF r, rels
        <5> QED BY <3>1, <3>4, <5>1, <5>2
      <4> HIDE DEF rels
      <4>4. seqRead'[u] = NextSeq(job[u].rec)'
        BY <3>1, <4>1 DEF NextSeq, Stored
      <4>5. r \notin Cards => used'[u] = {}
        BY <3>1
      <4>6. r \in Cards =>
               /\ used'[u] = FixUsed(job[u].rec, seqRead[u], resolved[u])'
               /\ ~RunsUnknown(resolved[u])'
               /\ ~ResultsOutside(job[u].body, resolved[u])'
        BY <3>1, <4>2
      <4> QED BY <4>1, <4>3, <4>4, <4>5, <4>6 DEF FixedUsedHold
    <3> QED
      BY <1>0, <3>1, <3>2, <3>3, <3>5
         DEF WriterReads, PutReadsHold, AddReadsHold, AddPc, MayWrite
  <2> QED BY <2>1, <2>2
<1>7. CASE PostCommit(u) \/ PutCommit(u) \/ AddPlain(u) \/ AddCommit(u) \/ Abort(u)
  BY <1>0, <1>7, EndReads DEF PostCommit, PutCommit, AddPlain, AddCommit, Abort, Rollback
<1>8. CASE AddLock(u)
  <2>1. /\ pc[u] = "add" /\ pc'[u] = "addshare" /\ job' = job /\ resolved' = resolved
        /\ versions' = versions /\ Candidates(u) # {}
    BY <1>0, <1>8 DEF AddLock, TypeOK, hubVars
  <2>2. AddReadsHold(u)'
    BY <1>0, <2>1 DEF WriterReads, AddReadsHold, AddPc, Stored, Candidates, UsesEval
  <2> QED
    BY <1>0, <2>1, <2>2
       DEF WriterReads, PutReadsHold, PostReadsHold, FixedUsedHold, PostPc, MayWrite
<1>9. CASE Short(u)
  <2>1. pc[u] = "idle" /\ pc' = pc /\ resolved' = resolved
    BY <1>9 DEF Short, Locked, txVars
  <2> QED
    BY <1>0, <2>1
       DEF WriterReads, PutReadsHold, PostReadsHold, FixedUsedHold, AddReadsHold, PostPc, AddPc
<1> QED
  BY <1>1, <1>2, <1>3, <1>4, <1>5, <1>6, <1>7, <1>8, <1>9 DEF Acts, Begin, Step

-----------------------------------------------------------------------------
(* Theorems                                                                 *)

LEMMA InvInit == Init => IInv
<1> SUFFICES ASSUME Init PROVE IInv
  OBVIOUS
<1>1. HubTypeOK
  BY DEF Init, HubInit, HubTypeOK
<1>2. TypeOK
  BY <1>1, NoneAssumption DEF Init, Quiet, TypeOK, NoRuns
<1>3. LocksConsistent
  BY NoneAssumption DEF Init, Quiet, LocksConsistent, Exclusive
<1>4. ReadsHold
  BY DEF Init, Quiet, ReadsHold, PutReadsHold, PostReadsHold, FixedUsedHold, AddReadsHold,
         PostPc, AddPc
<1> QED BY <1>2, <1>3, <1>4 DEF IInv, TxInv

LEMMA InvStep == IInv /\ [Next]_vars => IInv'
<1> SUFFICES ASSUME IInv, [Next]_vars PROVE IInv'
  OBVIOUS
<1>1. TypeOK' /\ LocksConsistent'
  BY TypeStep, LocksStep
<1>2. ASSUME NEW u \in Writers, Acts(u) PROVE ReadsHold'
  <2>1. \A w \in Writers : WriterReads(w)'
    BY <1>2, OthersReads, OwnReads
  <2> QED BY <2>1 DEF ReadsHold, WriterReads
<1>3. ASSUME UNCHANGED vars PROVE ReadsHold'
  <2>1. ReadsHold
    BY DEF IInv, TxInv
  <2>2. UNCHANGED hubVars /\ UNCHANGED txVars
    BY <1>3 DEF vars
  <2>3. \A w \in Writers : PutReadsHold(w)' <=> PutReadsHold(w)
    BY <2>2 DEF hubVars, txVars, PutReadsHold, LatestBody, Live, Stored
  <2>4. \A w \in Writers : PostReadsHold(w)' <=> PostReadsHold(w)
    BY <2>2 DEF hubVars, txVars, PostReadsHold, IsLatest, LatestBody, NextSeq, Live, Stored
  <2>5. \A w \in Writers : AddReadsHold(w)' <=> AddReadsHold(w)
    BY <2>2 DEF hubVars, txVars, AddReadsHold, Stored, Candidates, UsesEval
  <2>6. \A w \in Writers : FixedUsedHold(w)' <=> FixedUsedHold(w)
    <3> TAKE w \in Writers
    <3> DEFINE r == job[w].rec  rels == resolved[w]  seq == seqRead[w]  body == job[w].body
    <3>1. /\ r' = r /\ rels' = rels /\ seq' = seq /\ body' = body
          /\ pc' = pc /\ used' = used /\ slock' = slock
          /\ visibility' = visibility /\ versions' = versions /\ runs' = runs
      BY <2>2 DEF hubVars, txVars
    <3>2. /\ FixUsed(r, seq, rels)' = FixUsed(r, seq, rels)
          /\ RunsUnknown(rels)' <=> RunsUnknown(rels)
          /\ ResultsOutside(body, rels)' <=> ResultsOutside(body, rels)
      <4> HIDE DEF r, rels, seq, body
      <4> QED BY <3>1, FixUsedKept
    <3>3. NextSeq(r)' = NextSeq(r) /\ UsesEval(rels)' = UsesEval(rels)
      BY <3>1 DEF NextSeq, Stored, UsesEval
    <3>4. \A q : Visible(w, q)' <=> Visible(w, q)
      BY <3>1 DEF Visible
    <3> QED BY <3>1, <3>2, <3>3, <3>4 DEF FixedUsedHold
  <2>7. \A w \in Writers : WriterReads(w)'
    <3>1. \A w \in Writers : WriterReads(w)
      BY <2>1 DEF ReadsHold, WriterReads
    <3>2. pc' = pc /\ job' = job /\ resolved' = resolved /\ versions' = versions
      BY <2>2 DEF hubVars, txVars
    <3> QED BY <2>3, <2>4, <2>5, <2>6, <3>1, <3>2 DEF WriterReads, MayWrite
  <2> QED BY <2>7 DEF ReadsHold, WriterReads
<1>4. ReadsHold'
  <2>1. ASSUME Next PROVE \E u \in Writers : Acts(u)
    BY <2>1 DEF Next, Acts
  <2> QED BY <1>2, <1>3, <2>1
<1> QED BY <1>1, <1>4 DEF IInv, TxInv

LEMMA InvCorrect == Spec => []IInv
BY InvInit, InvStep, PTL DEF Spec

(* The tables, the locals and the locks keep their types.                   *)
THEOREM TypeCorrect == Spec => []TypeOK
<1>1. IInv => TypeOK
  BY DEF IInv
<1> QED BY <1>1, InvCorrect, PTL

(* What a transaction read under its locks still holds when it commits.     *)
THEOREM TxCorrect == Spec => []TxInv
<1>1. IInv => TxInv
  BY DEF IInv
<1> QED BY <1>1, InvCorrect, PTL

(* The transactions implement the atomic writes of Hub.tla.                 *)
THEOREM ImplementsHub == Spec => HubSpec
<1>1. Init => HubInit
  BY DEF Init
<1> QED BY <1>1, InvCorrect, StepImplementsHub, PTL DEF Spec, HubSpec

(* So they keep every promise of Hub.tla.                                   *)
THEOREM HubPromises ==
  Spec => /\ [](SeqGapFree /\ NoRepeatedVersion /\ LabelUnique /\ RunsHashAgrees)
          /\ [](JudgedWasUsed /\ UsedKeyUnique /\ UsedBacked /\ RefsBadgeHonest)
          /\ PublishedStays
BY ImplementsHub, SeqsGapFree, VersionsDiffer, LabelsUnique, RunsHashCorrect,
   JudgementsOfUsedRuns, UsedRunsUnique, UsedRunsBacked, BadgesHonest, PublishedRowsStay, PTL

================================================================================
