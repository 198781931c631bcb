---------------------- MODULE DatasetActivation_proofs ----------------------
(***************************************************************************)
(* Proofs about DatasetActivation and DatasetDisturbed, for every number   *)
(* of batches, workbooks, retries, crashes, clear requests, time limits    *)
(* and rebuilds, and for every number of worker processes and of threads   *)
(* in each of them.                                                        *)
(*                                                                         *)
(* Types, messages, the order of batches and the lock between processes    *)
(* need no hypothesis (BaseInv).  Within a process the advisory lock can be *)
(* re-entered, because the session gives its connection back to the pool   *)
(* while it holds the lock there (the run shared_pool); the theorems about *)
(* the served dataset therefore say what holds as long as that does not    *)
(* happen: Spec /\ []NotReentered => ...  SingleThreads proves that it     *)
(* never happens where every process has one thread.                       *)
(*                                                                         *)
(* The argument: a thread enters the locked section only with one more     *)
(* lock on the connection that owns it, so there are never more threads in *)
(* the section than locks (LockInv); with one lock at most, what a thread  *)
(* read or deleted under it still holds when it commits (ServedInv).       *)
(*                                                                         *)
(* A time limit may invalidate the connection that owns the lock, but then *)
(* the thread that held it leaves the section as well (ExclusiveLock); so  *)
(* between a reset and its activation only the rebuilds, which take no     *)
(* lock, can add rows (OtherRowsSeen).                                     *)
(***************************************************************************)
EXTENDS DatasetDisturbed, FiniteSetTheorems, TLAPS

-----------------------------------------------------------------------------
(* The connection pools *)

\* What every step keeps of connections and lock.
PoolState == PoolTypeOK /\ ConnInv

\* A thread's connections are connections.
LEMMA ConnFacts ==
  ASSUME NEW w \in Workers
  PROVE  /\ ProcOf[w] \in Procs
         /\ ConnsOf(ProcOf[w]) \subseteq Conns
         /\ NoConn \notin ConnsOf(ProcOf[w])
         /\ \A c \in ConnsOf(ProcOf[w]) : c[1] = ProcOf[w]
BY ProcOfType DEF ConnsOf, NoConn, Conns

\* The pool of a process in both of its types.
LEMMA IdleFacts ==
  ASSUME PoolState, NEW p \in Procs
  PROVE  /\ idle[p] \in Seq(ConnsOf(p)) /\ idle[p] \in Seq(Conns) /\ opened[p] \in Nat
         /\ NextConn(p) \in ConnsOf(p) /\ NextConn(p) \in Conns
         /\ idle[p] # <<>> => /\ Tail(idle[p]) \in Seq(ConnsOf(p))
                              /\ Tail(idle[p]) \in Seq(Conns)
                              /\ NextConn(p) = Head(idle[p])
<1>1. /\ idle[p] \in Seq(ConnsOf(p)) /\ idle[p] \in Seq(Conns) /\ opened[p] \in Nat
  BY DEF PoolState, PoolTypeOK, ConnInv
<1>2. CASE idle[p] = <<>>
  BY <1>1, <1>2 DEF NextConn, ConnsOf, Conns
<1>3. CASE idle[p] # <<>>
  BY <1>1, <1>3 DEF NextConn
<1> QED BY <1>1, <1>2, <1>3

\* What a step of thread w does to the pools and the places of the threads.
Places(w, l, c, q) ==
  /\ pc' = [pc EXCEPT ![w] = l]
  /\ conn' = [conn EXCEPT ![w] = c]
  /\ idle' = [idle EXCEPT ![ProcOf[w]] = q]
  /\ opened' \in [Procs -> Nat]

\* A step that leaves w with a connection of its process exactly where it needs
\* one keeps the pools in order.
LEMMA PlacesKeep ==
  ASSUME PoolState, pc \in [Workers -> PCs], NEW w \in Workers, NEW l, NEW c, NEW q,
         Places(w, l, c, q),
         c \in ConnsOf(ProcOf[w]) \cup {NoConn},
         l \in InTransaction => c # NoConn,
         l \in {"idle", "replacing", "superseding", "failing"} => c = NoConn,
         q \in Seq(ConnsOf(ProcOf[w])), q \in Seq(Conns),
         lockOwner' \in Conns \cup {NoConn}, lockDepth' \in Nat,
         lockOwner' = NoConn <=> lockDepth' = 0
  PROVE  PoolState'
<1> USE DEF PoolState
<1>1. /\ ProcOf[w] \in Procs /\ c \in Conns \cup {NoConn}
  BY ConnFacts
<1>2. PoolTypeOK'
  BY <1>1 DEF PoolTypeOK, Places
<1>3. \A p \in Procs : idle'[p] \in Seq(ConnsOf(p))
  BY <1>1 DEF PoolTypeOK, ConnInv, Places
<1>4. ASSUME NEW v \in Workers
      PROVE  /\ conn'[v] \in ConnsOf(ProcOf[v]) \cup {NoConn}
             /\ pc'[v] \in InTransaction => conn'[v] # NoConn
             /\ pc'[v] \in {"idle", "replacing", "superseding", "failing"} => conn'[v] = NoConn
  <2>1. CASE v = w
    BY <1>1, <2>1 DEF PoolTypeOK, Places
  <2>2. CASE v # w
    BY <2>2 DEF PoolTypeOK, ConnInv, Places
  <2> QED BY <2>1, <2>2
<1> QED BY <1>2, <1>3, <1>4 DEF ConnInv

\* The state of pools and lock before a step.
LEMMA LockTypes ==
  ASSUME PoolState, UNCHANGED <<lockOwner, lockDepth>>
  PROVE  /\ lockOwner' \in Conns \cup {NoConn} /\ lockDepth' \in Nat
         /\ lockOwner' = NoConn <=> lockDepth' = 0
BY DEF PoolState, PoolTypeOK, ConnInv

\* A step of w that takes a connection of its pool (the QueuePool of
\* core/database.py).
LEMMA CheckoutKeeps ==
  ASSUME PoolState, pc \in [Workers -> PCs], NEW w \in Workers, NEW l,
         Checkout(w), pc' = [pc EXCEPT ![w] = l],
         l \notin {"idle", "replacing", "superseding", "failing"},
         lockOwner' \in Conns \cup {NoConn}, lockDepth' \in Nat,
         lockOwner' = NoConn <=> lockDepth' = 0
  PROVE  PoolState'
<1> DEFINE p == ProcOf[w]
           q == IF idle[p] = <<>> THEN idle[p] ELSE Tail(idle[p])
<1>1. p \in Procs /\ NoConn \notin ConnsOf(p)
  BY ConnFacts
<1>2. /\ NextConn(p) \in ConnsOf(p) /\ q \in Seq(ConnsOf(p)) /\ q \in Seq(Conns)
  BY <1>1, IdleFacts
<1>3. /\ idle' = [idle EXCEPT ![p] = q] /\ conn' = [conn EXCEPT ![w] = NextConn(p)]
  BY DEF Checkout
<1>4. opened' \in [Procs -> Nat]
  BY <1>1 DEF Checkout, PoolState, PoolTypeOK
<1>5. Places(w, l, NextConn(p), q)
  BY <1>3, <1>4 DEF Places
<1> HIDE DEF q
<1> QED BY <1>1, <1>2, <1>5, PlacesKeep

\* A step of w that gives its connection back: commit(), rollback(), close().
LEMMA ReleaseKeeps ==
  ASSUME PoolState, pc \in [Workers -> PCs], NEW w \in Workers, NEW l,
         Release(w), pc' = [pc EXCEPT ![w] = l], l \notin InTransaction,
         UNCHANGED <<lockOwner, lockDepth>>
  PROVE  PoolState'
<1> DEFINE p == ProcOf[w]
           q == Append(idle[p], conn[w])
<1>1. p \in Procs
  BY ConnFacts
<1>2. conn[w] \in ConnsOf(p) /\ conn[w] \in Conns
  BY ConnFacts DEF Release, PoolState, ConnInv
<1>3. q \in Seq(ConnsOf(p)) /\ q \in Seq(Conns)
  BY <1>1, <1>2, IdleFacts
<1>4. Places(w, l, NoConn, q)
  BY DEF Release, Places, PoolState, PoolTypeOK
<1> HIDE DEF q
<1> QED BY <1>3, <1>4, LockTypes, PlacesKeep

\* A step of w with a transaction of its own.
LEMMA OneShotKeeps ==
  ASSUME PoolState, pc \in [Workers -> PCs], NEW w \in Workers,
         OneShot(w), pc' = [pc EXCEPT ![w] = "unlocking"],
         UNCHANGED <<lockOwner, lockDepth>>
  PROVE  PoolState'
<1> DEFINE p == ProcOf[w]
           q == IF idle[p] = <<>> THEN <<NextConn(p)>> ELSE Append(Tail(idle[p]), Head(idle[p]))
<1>1. p \in Procs
  BY ConnFacts
<1>2. q \in Seq(ConnsOf(p)) /\ q \in Seq(Conns)
  <2>1. CASE idle[p] = <<>>
    <3>1. NextConn(p) \in ConnsOf(p) /\ NextConn(p) \in Conns
      BY <1>1, IdleFacts
    <3> QED BY <2>1, <3>1
  <2>2. CASE idle[p] # <<>>
    <3>1. /\ Tail(idle[p]) \in Seq(ConnsOf(p)) /\ Tail(idle[p]) \in Seq(Conns)
          /\ Head(idle[p]) \in ConnsOf(p) /\ Head(idle[p]) \in Conns
      BY <1>1, <2>2, IdleFacts
    <3> QED BY <2>2, <3>1
  <2> QED BY <2>1, <2>2
<1>3. opened' \in [Procs -> Nat] /\ idle' = [idle EXCEPT ![p] = q]
  BY <1>1 DEF OneShot, PoolState, PoolTypeOK
<1>4. conn' = [conn EXCEPT ![w] = NoConn]
  BY DEF OneShot, PoolState, PoolTypeOK
<1>5. Places(w, "unlocking", NoConn, q)
  BY <1>3, <1>4 DEF Places
<1> HIDE DEF q
<1> QED BY <1>2, <1>5, LockTypes, PlacesKeep DEF InTransaction

\* A step of w that leaves its pool alone and keeps its connection.
LEMMA HoldKeeps ==
  ASSUME PoolState, pc \in [Workers -> PCs], NEW w \in Workers, NEW l,
         pc' = [pc EXCEPT ![w] = l], conn[w] # NoConn,
         l \notin {"idle", "replacing", "superseding", "failing"},
         UNCHANGED <<idle, opened, conn>>,
         lockOwner' \in Conns \cup {NoConn}, lockDepth' \in Nat,
         lockOwner' = NoConn <=> lockDepth' = 0
  PROVE  PoolState'
<1>1. ProcOf[w] \in Procs
  BY ConnFacts
<1>2. conn[w] \in ConnsOf(ProcOf[w])
  BY DEF PoolState, ConnInv
<1>3. idle[ProcOf[w]] \in Seq(ConnsOf(ProcOf[w])) /\ idle[ProcOf[w]] \in Seq(Conns)
  BY <1>1, IdleFacts
<1>4. Places(w, l, conn[w], idle[ProcOf[w]])
  BY DEF Places, PoolState, PoolTypeOK
<1> QED BY <1>2, <1>3, <1>4, PlacesKeep

\* pg_advisory_unlock takes at most one lock away.
LEMMA UnlockFacts ==
  ASSUME PoolState, NEW c \in Conns, UnlockOn(c)
  PROVE  /\ lockOwner' \in Conns \cup {NoConn} /\ lockDepth' \in Nat
         /\ lockOwner' = NoConn <=> lockDepth' = 0
         /\ \/ UNCHANGED <<lockOwner, lockDepth>>
            \/ /\ lockDepth > 0 /\ lockDepth' = lockDepth - 1
               /\ lockOwner' = IF lockDepth = 1 THEN NoConn ELSE lockOwner
<1>1. NoConn \notin Conns
  BY DEF Conns, NoConn
<1> QED BY <1>1 DEF PoolState, PoolTypeOK, ConnInv, UnlockOn

-----------------------------------------------------------------------------
(* The advisory lock *)

\* What a step does to the lock and to the threads in the locked section.
LockKept == UNCHANGED <<lockOwner, lockDepth, Section>>

LockEntered(w) ==
  /\ w \notin Section /\ Section' = Section \cup {w}
  /\ lockOwner \in {NoConn, lockOwner'} /\ lockOwner' \in ConnsOf(ProcOf[w])
  /\ lockDepth' = lockDepth + 1

LockLeft(w) ==
  /\ w \in Section /\ Section' = Section \ {w}
  /\ \/ UNCHANGED <<lockOwner, lockDepth>>
     \/ /\ lockDepth > 0 /\ lockDepth' = lockDepth - 1
        /\ lockOwner' = IF lockDepth = 1 THEN NoConn ELSE lockOwner

LockDropped(w) ==
  /\ w \in Section /\ Section' = Section \ {w}
  /\ lockOwner' = NoConn /\ lockDepth' = 0

LockCrashed(p) ==
  /\ Section' = {w \in Section : ProcOf[w] # p}
  /\ IF lockOwner # NoConn /\ lockOwner[1] = p
       THEN lockOwner' = NoConn /\ lockDepth' = 0
       ELSE UNCHANGED <<lockOwner, lockDepth>>

\* How the section changes with the place of one thread.
LEMMA SectionFacts ==
  ASSUME pc \in [Workers -> PCs], NEW w \in Workers, NEW l, pc' = [pc EXCEPT ![w] = l]
  PROVE  /\ l \in Locked <=> pc[w] \in Locked => Section' = Section
         /\ pc[w] \notin Locked => w \notin Section
         /\ pc[w] \notin Locked /\ l \in Locked => Section' = Section \cup {w}
         /\ pc[w] \in Locked => w \in Section
         /\ pc[w] \in Locked /\ l \notin Locked => Section' = Section \ {w}
BY DEF Section

\* There are never more threads in the section than locks, and they are of the
\* process that owns the lock (main.py, pg_advisory_lock and pg_advisory_unlock).
LEMMA LockInvKept ==
  ASSUME PoolState, LockInv,
         \/ LockKept
         \/ \E w \in Workers : LockEntered(w) \/ LockLeft(w)
         \/ \E p \in Procs : LockCrashed(p)
  PROVE  LockInv'
<1>0. /\ IsFiniteSet(Section) /\ lockDepth \in Nat /\ Cardinality(Section) \in Nat
      /\ Cardinality(Section) <= lockDepth
      /\ Section = {} <=> Cardinality(Section) = 0
      /\ lockOwner = NoConn <=> lockDepth = 0
  <2>1. IsFiniteSet(Section)
    BY WorkersFinite, FS_Subset DEF Section
  <2>2. Cardinality(Section) \in Nat /\ (Section = {} <=> Cardinality(Section) = 0)
    BY <2>1, FS_CardinalityType, FS_EmptySet
  <2> QED BY <2>1, <2>2 DEF PoolState, PoolTypeOK, ConnInv, LockInv
<1>1. CASE LockKept
  BY <1>1 DEF LockKept, LockInv
<1>2. ASSUME NEW w \in Workers, LockEntered(w)
      PROVE  LockInv'
  <2>1. Cardinality(Section') = Cardinality(Section) + 1
    BY <1>0, <1>2, FS_AddElement DEF LockEntered
  <2>2. Cardinality(Section)' <= lockDepth'
    BY <1>0, <1>2, <2>1 DEF LockEntered
  <2>3. \A v \in Section' : lockOwner' \in ConnsOf(ProcOf[v])
    <3>1. CASE lockOwner = NoConn
      BY <1>0, <1>2, <3>1 DEF LockEntered
    <3>2. CASE lockOwner = lockOwner'
      BY <1>2, <3>2 DEF LockEntered, LockInv
    <3> QED BY <1>2, <3>1, <3>2 DEF LockEntered
  <2> QED BY <2>2, <2>3 DEF LockInv
<1>3. ASSUME NEW w \in Workers, LockLeft(w)
      PROVE  LockInv'
  <2>1. Cardinality(Section') = Cardinality(Section) - 1
    BY <1>0, <1>3, FS_RemoveElement DEF LockLeft
  <2>2. /\ Section' = {} <=> Cardinality(Section') = 0
        /\ Cardinality(Section') \in Nat
    <3>1. IsFiniteSet(Section')
      BY <1>0, <1>3, FS_Subset DEF LockLeft
    <3> QED BY <3>1, FS_EmptySet, FS_CardinalityType
  <2>3. Cardinality(Section)' <= lockDepth'
    BY <1>0, <1>3, <2>1 DEF LockLeft
  <2>4. \A v \in Section' : lockOwner' \in ConnsOf(ProcOf[v])
    <3>1. CASE lockOwner' = lockOwner
      BY <1>3, <3>1 DEF LockLeft, LockInv
    <3>2. CASE lockOwner' # lockOwner
      <4>1. lockDepth = 1 /\ lockDepth' = 0
        BY <1>3, <3>2 DEF LockLeft
      <4>2. Section' = {}
        BY <1>0, <2>1, <2>2, <4>1
      <4> QED BY <4>2
    <3> QED BY <3>1, <3>2
  <2> QED BY <2>3, <2>4 DEF LockInv
<1>4. ASSUME NEW p \in Procs, LockCrashed(p)
      PROVE  LockInv'
  <2>1. \A w \in Section : ProcOf[w] = lockOwner[1] /\ lockOwner # NoConn
    BY ConnFacts DEF LockInv, Section
  <2>2. CASE lockOwner # NoConn /\ lockOwner[1] = p
    <3>1. Section' = {} /\ lockDepth' = 0
      BY <1>4, <2>1, <2>2 DEF LockCrashed
    <3>2. Cardinality(Section)' = 0
      BY <3>1, FS_EmptySet
    <3> QED BY <3>1, <3>2 DEF LockInv
  <2>3. CASE ~(lockOwner # NoConn /\ lockOwner[1] = p)
    <3>1. Section' = Section /\ UNCHANGED <<lockOwner, lockDepth>>
      BY <1>4, <2>1, <2>3 DEF LockCrashed
    <3> QED BY <3>1 DEF LockInv
  <2> QED BY <2>2, <2>3
<1> QED BY <1>1, <1>2, <1>3, <1>4

\* With one lock there is one thread in the section.
LEMMA Exclusion ==
  ASSUME LockInv, NotReentered, PoolState
  PROVE  ExclusiveLock
<1>1. IsFiniteSet(Section) /\ Cardinality(Section) \in Nat
  BY WorkersFinite, FS_Subset, FS_CardinalityType DEF Section
<1>2. Cardinality(Section) <= 1
  BY <1>1 DEF LockInv, NotReentered, PoolState, PoolTypeOK
<1>3. ASSUME NEW v \in Section, NEW w \in Section
      PROVE  v = w
  <2>1. Cardinality(Section \ {w}) = Cardinality(Section) - 1 /\ IsFiniteSet(Section \ {w})
    BY <1>1, FS_RemoveElement
  <2>2. Section \ {w} = {}
    <3>1. Cardinality(Section \ {w}) \in Nat
      BY <2>1, FS_CardinalityType
    <3>2. Cardinality(Section \ {w}) = 0
      BY <1>1, <1>2, <2>1, <3>1
    <3> QED BY <2>1, <3>2, FS_EmptySet
  <2> QED BY <2>2
<1> QED BY <1>3 DEF ExclusiveLock, LockInv

\* One thread at most stays in the section, with time limits too, as long as
\* the lock is not re-entered.
LEMMA ExclusiveKept ==
  ASSUME PoolState, ExclusiveLock, NotReentered, NotReentered',
         \/ LockKept
         \/ \E w \in Workers : LockEntered(w) \/ LockLeft(w) \/ LockDropped(w)
         \/ \E p \in Procs : LockCrashed(p)
  PROVE  ExclusiveLock'
<1>0. /\ lockDepth \in Nat /\ (lockOwner = NoConn <=> lockDepth = 0)
      /\ lockOwner = NoConn => Section = {}
  BY ConnFacts DEF PoolState, PoolTypeOK, ConnInv, ExclusiveLock, Section
<1>1. CASE LockKept
  BY <1>1 DEF LockKept, ExclusiveLock
<1>2. ASSUME NEW w \in Workers, LockEntered(w)
      PROVE  ExclusiveLock'
  <2>1. lockDepth = 0
    BY <1>0, <1>2 DEF LockEntered, NotReentered
  <2>2. Section' = {w}
    BY <1>0, <1>2, <2>1 DEF LockEntered
  <2> QED BY <1>2, <2>2 DEF LockEntered, ExclusiveLock
<1>3. ASSUME NEW w \in Workers, LockLeft(w) \/ LockDropped(w)
      PROVE  ExclusiveLock'
  <2>1. Section' = {}
    BY <1>3 DEF LockLeft, LockDropped, ExclusiveLock
  <2> QED BY <2>1 DEF ExclusiveLock
<1>4. ASSUME NEW p \in Procs, LockCrashed(p)
      PROVE  ExclusiveLock'
  <2>1. \A w \in Section : ProcOf[w] = lockOwner[1]
    BY ConnFacts DEF ExclusiveLock, Section
  <2>2. Section' \subseteq Section
    BY <1>4 DEF LockCrashed
  <2>3. Section' = {} \/ lockOwner' = lockOwner
    BY <1>4, <2>1 DEF LockCrashed
  <2> QED BY <2>2, <2>3 DEF ExclusiveLock
<1> QED BY <1>1, <1>2, <1>3, <1>4

-----------------------------------------------------------------------------
(* Every step on the pools and on the lock *)

\* A step of w that neither enters nor leaves the section.
LEMMA SameSection ==
  ASSUME pc \in [Workers -> PCs], NEW w \in Workers, NEW l, pc' = [pc EXCEPT ![w] = l],
         l \in Locked <=> pc[w] \in Locked, UNCHANGED <<lockOwner, lockDepth>>
  PROVE  LockKept
BY SectionFacts DEF LockKept

\* The steps of a thread outside pg_advisory_lock and pg_advisory_unlock.
LEMMA ThreadKeeps ==
  ASSUME PoolState, pc \in [Workers -> PCs], NEW w \in Workers,
         \/ \E b \in Batches : Receive(w, b)
         \/ Recheck(w) \/ Reset(w) \/ StillNewest(w) \/ Overtaken(w) \/ Activate(w)
         \/ ReplacementFails(w) \/ MarkSuperseded(w) \/ MarkFailed(w) \/ Finish(w)
  PROVE  PoolState' /\ LockKept
<1> USE DEF Goto, Locked, Replacing, InTransaction
<1>1. ASSUME NEW b \in Batches, Receive(w, b)
      PROVE  PoolState' /\ LockKept
  <2>1. PICK l \in {"closing", "locking"} : pc' = [pc EXCEPT ![w] = l]
    BY <1>1 DEF Receive
  <2>2. Checkout(w) /\ pc[w] = "idle" /\ UNCHANGED <<lockOwner, lockDepth>>
    BY <1>1 DEF Receive
  <2>3. PoolState'
    BY <2>1, <2>2, LockTypes, CheckoutKeeps
  <2> QED BY <2>1, <2>2, <2>3, SameSection
<1>2. CASE Recheck(w) \/ Overtaken(w) \/ Activate(w) \/ ReplacementFails(w)
  <2>1. PICK l \in {"failing", "unlocking", "replacing", "superseding"} : pc' = [pc EXCEPT ![w] = l]
    BY <1>2 DEF Recheck, Overtaken, Activate, ReplacementFails
  <2>2. /\ Release(w) /\ pc[w] \in {"checking", "building", "activating"}
        /\ UNCHANGED <<lockOwner, lockDepth>>
    BY <1>2 DEF Recheck, Overtaken, Activate, ReplacementFails
  <2>3. PoolState'
    BY <2>1, <2>2, ReleaseKeeps
  <2> QED BY <2>1, <2>2, <2>3, SameSection
<1>3. CASE Reset(w)
  <2>1. /\ Checkout(w) /\ pc' = [pc EXCEPT ![w] = "building"] /\ pc[w] = "replacing"
        /\ UNCHANGED <<lockOwner, lockDepth>>
    BY <1>3 DEF Reset
  <2>2. PoolState'
    BY <2>1, LockTypes, CheckoutKeeps
  <2> QED BY <2>1, <2>2, SameSection
<1>4. CASE StillNewest(w)
  <2>1. pc' = [pc EXCEPT ![w] = "activating"] /\ pc[w] = "building" /\ UNCHANGED poolVars
    BY <1>4 DEF StillNewest
  <2>2. conn[w] # NoConn /\ UNCHANGED <<idle, opened, conn, lockOwner, lockDepth>>
    BY <2>1 DEF PoolState, ConnInv, poolVars
  <2>3. PoolState'
    BY <2>1, <2>2, LockTypes, HoldKeeps
  <2> QED BY <2>1, <2>2, <2>3, SameSection
<1>5. CASE MarkSuperseded(w) \/ MarkFailed(w)
  <2>1. /\ pc' = [pc EXCEPT ![w] = "unlocking"] /\ pc[w] \in {"superseding", "failing"}
        /\ UNCHANGED <<lockOwner, lockDepth>>
        /\ OneShot(w) \/ Checkout(w)
    BY <1>5 DEF MarkSuperseded, MarkFailed, Mark
  <2>2. PoolState'
    BY <2>1, LockTypes, OneShotKeeps, CheckoutKeeps
  <2> QED BY <2>1, <2>2, SameSection
<1>6. CASE Finish(w)
  <2>1. /\ Release(w) /\ pc' = [pc EXCEPT ![w] = "idle"] /\ pc[w] = "closing"
        /\ UNCHANGED <<lockOwner, lockDepth>>
    BY <1>6 DEF Finish
  <2>2. PoolState'
    BY <2>1, ReleaseKeeps
  <2> QED BY <2>1, <2>2, SameSection
<1> QED BY <1>1, <1>2, <1>3, <1>4, <1>5, <1>6

\* pg_advisory_lock: free, or already on the connection of the session.
LEMMA AcquireLockKeeps ==
  ASSUME PoolState, pc \in [Workers -> PCs], NEW w \in Workers, AcquireLock(w)
  PROVE  PoolState' /\ LockEntered(w)
<1>1. /\ pc[w] = "locking" /\ pc' = [pc EXCEPT ![w] = "checking"]
      /\ lockOwner \in {NoConn, conn[w]} /\ lockOwner' = conn[w] /\ lockDepth' = lockDepth + 1
      /\ UNCHANGED <<idle, opened, conn>>
  BY DEF AcquireLock, Goto, Lock, Grantable
<1>2. conn[w] # NoConn /\ conn[w] \in ConnsOf(ProcOf[w]) /\ conn[w] \in Conns /\ lockDepth \in Nat
  BY <1>1, ConnFacts DEF PoolState, PoolTypeOK, ConnInv, InTransaction
<1>3. PoolState'
  <2>1. /\ lockOwner' \in Conns \cup {NoConn} /\ lockDepth' \in Nat
        /\ lockOwner' # NoConn /\ lockDepth' # 0
    BY <1>1, <1>2
  <2> QED BY <1>1, <1>2, <2>1, HoldKeeps
<1>4. w \notin Section /\ Section' = Section \cup {w}
  BY <1>1, SectionFacts DEF Locked, Replacing
<1> QED BY <1>1, <1>2, <1>3, <1>4 DEF LockEntered

\* pg_advisory_unlock: on the connection the session has then, whether or not
\* that is the one it locked.
LEMMA ReleaseLockKeeps ==
  ASSUME PoolState, pc \in [Workers -> PCs], NEW w \in Workers, ReleaseLock(w)
  PROVE  PoolState' /\ LockLeft(w)
<1> DEFINE c == IF conn[w] # NoConn THEN conn[w] ELSE NextConn(ProcOf[w])
<1>1. /\ pc[w] = "unlocking" /\ pc' = [pc EXCEPT ![w] = "closing"] /\ UnlockOn(c)
  BY DEF ReleaseLock, Goto
<1>2. c \in Conns
  BY ConnFacts, IdleFacts DEF PoolState, PoolTypeOK
<1>3. /\ lockOwner' \in Conns \cup {NoConn} /\ lockDepth' \in Nat
      /\ lockOwner' = NoConn <=> lockDepth' = 0
      /\ \/ UNCHANGED <<lockOwner, lockDepth>>
         \/ /\ lockDepth > 0 /\ lockDepth' = lockDepth - 1
            /\ lockOwner' = IF lockDepth = 1 THEN NoConn ELSE lockOwner
  <2> HIDE DEF c
  <2> QED BY <1>1, <1>2, UnlockFacts
<1>4. PoolState'
  <2>1. CASE conn[w] # NoConn
    <3>1. UNCHANGED <<idle, opened, conn>>
      BY <2>1 DEF ReleaseLock
    <3> QED BY <1>1, <1>3, <2>1, <3>1, HoldKeeps
  <2>2. CASE conn[w] = NoConn
    <3>1. Checkout(w)
      BY <2>2 DEF ReleaseLock
    <3> QED BY <1>1, <1>3, <3>1, CheckoutKeeps
  <2> QED BY <2>1, <2>2
<1>5. w \in Section /\ Section' = Section \ {w}
  <2>1. "unlocking" \in Locked /\ "closing" \notin Locked
    BY DEF Locked, Replacing
  <2> QED BY <1>1, <2>1, SectionFacts
<1> QED BY <1>3, <1>4, <1>5 DEF LockLeft

\* A time limit: the unlock of the finally clause, or the server drops the lock
\* with the invalidated connection.
LEMMA TimeLimitKeeps ==
  ASSUME PoolState, pc \in [Workers -> PCs], NEW w \in Workers, TimeLimit(w)
  PROVE  PoolState' /\ (LockLeft(w) \/ LockDropped(w))
<1>1. pc[w] \in {"building", "activating"}
  BY DEF TimeLimit, TimeLimitCommits, TimeLimitRollsBack, Interrupted
<1>2. conn[w] # NoConn /\ conn[w] \in Conns /\ ProcOf[w] \in Procs
  BY <1>1, ConnFacts DEF PoolState, PoolTypeOK, ConnInv, InTransaction
<1>3. CASE TimeLimitCommits(w)
  <2>1. /\ UnlockOn(conn[w]) /\ pc' = [pc EXCEPT ![w] = "closing"] /\ UNCHANGED <<idle, opened, conn>>
    BY <1>3 DEF TimeLimitCommits, Goto
  <2>2. /\ lockOwner' \in Conns \cup {NoConn} /\ lockDepth' \in Nat
        /\ lockOwner' = NoConn <=> lockDepth' = 0
        /\ \/ UNCHANGED <<lockOwner, lockDepth>>
           \/ /\ lockDepth > 0 /\ lockDepth' = lockDepth - 1
              /\ lockOwner' = IF lockDepth = 1 THEN NoConn ELSE lockOwner
    BY <1>2, <2>1, UnlockFacts
  <2>3. PoolState'
    BY <1>2, <2>1, <2>2, HoldKeeps
  <2>4. w \in Section /\ Section' = Section \ {w}
    <3>1. pc[w] \in Locked /\ "closing" \notin Locked
      BY <1>1 DEF Locked, Replacing
    <3> QED BY <2>1, <3>1, SectionFacts
  <2> QED BY <2>2, <2>3, <2>4 DEF LockLeft
<1>4. CASE TimeLimitRollsBack(w)
  <2>1. /\ pc' = [pc EXCEPT ![w] = "idle"] /\ conn' = [conn EXCEPT ![w] = NoConn]
        /\ UNCHANGED <<idle, opened>>
        /\ \/ lockOwner' = NoConn /\ lockDepth' = 0
           \/ UNCHANGED <<lockOwner, lockDepth>>
    BY <1>4 DEF TimeLimitRollsBack, Goto
  <2>2. Places(w, "idle", NoConn, idle[ProcOf[w]])
    BY <2>1 DEF Places, PoolState, PoolTypeOK
  <2>3. /\ lockOwner' \in Conns \cup {NoConn} /\ lockDepth' \in Nat
        /\ lockOwner' = NoConn <=> lockDepth' = 0
    BY <2>1, LockTypes
  <2>4. PoolState'
    <3>1. idle[ProcOf[w]] \in Seq(ConnsOf(ProcOf[w])) /\ idle[ProcOf[w]] \in Seq(Conns)
      BY <1>2, IdleFacts
    <3> QED BY <2>2, <2>3, <3>1, PlacesKeep DEF InTransaction
  <2>5. w \in Section /\ Section' = Section \ {w}
    <3>1. pc[w] \in Locked /\ "idle" \notin Locked
      BY <1>1 DEF Locked, Replacing
    <3> QED BY <2>1, <3>1, SectionFacts
  <2> QED BY <2>1, <2>4, <2>5 DEF LockLeft, LockDropped
<1> QED BY <1>3, <1>4 DEF TimeLimit

\* The death of a process closes its connections and drops its lock.
LEMMA CrashKeeps ==
  ASSUME PoolState, pc \in [Workers -> PCs], NEW p \in Procs, WorkerCrash(p)
  PROVE  PoolState' /\ LockCrashed(p)
<1> USE DEF PoolState
<1>1. /\ idle' = [idle EXCEPT ![p] = <<>>]
      /\ opened' = [opened EXCEPT ![p] = 0]
      /\ conn' = [w \in Workers |-> IF ProcOf[w] = p THEN NoConn ELSE conn[w]]
      /\ pc' = [w \in Workers |-> IF ProcOf[w] = p THEN "idle" ELSE pc[w]]
      /\ IF lockOwner # NoConn /\ lockOwner[1] = p
           THEN lockOwner' = NoConn /\ lockDepth' = 0
           ELSE UNCHANGED <<lockOwner, lockDepth>>
  BY DEF WorkerCrash, PoolCrash
<1>2. PoolTypeOK'
  BY <1>1 DEF PoolTypeOK
<1>3. \A q \in Procs : idle'[q] \in Seq(ConnsOf(q))
  BY <1>1 DEF PoolTypeOK, ConnInv
<1>4. ASSUME NEW w \in Workers
      PROVE  /\ conn'[w] \in ConnsOf(ProcOf[w]) \cup {NoConn}
             /\ pc'[w] \in InTransaction => conn'[w] # NoConn
             /\ pc'[w] \in {"idle", "replacing", "superseding", "failing"} => conn'[w] = NoConn
  BY <1>1 DEF ConnInv, InTransaction
<1>5. lockOwner' = NoConn <=> lockDepth' = 0
  BY <1>1 DEF ConnInv
<1>6. Section' = {w \in Section : ProcOf[w] # p}
  BY <1>1 DEF Section, Locked, Replacing
<1> QED BY <1>1, <1>2, <1>3, <1>4, <1>5, <1>6 DEF ConnInv, LockCrashed

\* API requests, rebuilds and stuttering do not touch pools and lock.
LEMMA QuietKeeps ==
  ASSUME PoolState, UNCHANGED <<pc, poolVars>>
  PROVE  PoolState' /\ LockKept
<1> USE DEF PoolState, poolVars
<1>1. PoolTypeOK'
  BY DEF PoolTypeOK
<1>2. ConnInv'
  BY DEF ConnInv
<1>3. LockKept
  BY DEF LockKept, Section
<1> QED BY <1>1, <1>2, <1>3

\* Pools stay in order in every step of API, workers and crashes, and the lock
\* changes only where a thread enters or leaves its section.
LEMMA PoolStep ==
  ASSUME PoolState, pc \in [Workers -> PCs], [Next]_vars
  PROVE  /\ PoolState'
         /\ \/ LockKept
            \/ \E w \in Workers : LockEntered(w) \/ LockLeft(w)
            \/ \E p \in Procs : LockCrashed(p)
<1>1. CASE UNCHANGED <<pc, poolVars>>
  BY <1>1, QuietKeeps
<1>2. CASE ApiNext
  BY <1>2, <1>1
  DEF ApiNext, Upload, AppendRead, AppendInsert, RequestStep, ParseFails, Send, RequestDies,
      ClearReset, ClearBatches, threadVars
<1>3. ASSUME NEW w \in Workers, WorkerStep(w)
      PROVE  PoolState' /\ (LockKept \/ LockEntered(w) \/ LockLeft(w))
  BY <1>3, ThreadKeeps, AcquireLockKeeps, ReleaseLockKeeps DEF WorkerStep
<1>4. CASE \E p \in Procs : WorkerCrash(p)
  BY <1>4, CrashKeeps
<1>5. CASE UNCHANGED vars
  BY <1>5, <1>1 DEF vars, poolVars
<1> QED BY <1>2, <1>3, <1>4, <1>5 DEF Next

\* The same with time limits and rebuilds.
LEMMA DisturbedPoolStep ==
  ASSUME PoolState, pc \in [Workers -> PCs], [DisturbedNext]_disturbedVars
  PROVE  /\ PoolState'
         /\ \/ LockKept
            \/ \E w \in Workers : LockEntered(w) \/ LockLeft(w) \/ LockDropped(w)
            \/ \E p \in Procs : LockCrashed(p)
<1>1. CASE UNCHANGED <<pc, poolVars>>
  BY <1>1, QuietKeeps
<1>2. CASE Next
  BY <1>2, PoolStep
<1>3. CASE \E w \in Workers : TimeLimit(w)
  BY <1>3, TimeLimitKeeps
<1>4. CASE \E r \in Rebuilds : Rebuild(r)
  BY <1>4, <1>1
  DEF Rebuild, RebuildRead, RebuildReset, RebuildRows, RebuildMark, RebuildFails, threadVars, vars, poolVars
<1>5. CASE UNCHANGED disturbedVars
  BY <1>5, <1>1 DEF disturbedVars, vars, poolVars
<1> QED BY <1>2, <1>3, <1>4, <1>5 DEF DisturbedNext

-----------------------------------------------------------------------------
(* Jobs and messages *)

\* A busy thread has a message whose API request is over.
LEMMA JobFacts ==
  ASSUME TypeOK, MessageInv, NEW w \in Workers, pc[w] # "idle"
  PROVE  /\ job[w] \in Batches
         /\ message[job[w]] = "running"
         /\ request[job[w]] = "done"
BY BoundsType DEF TypeOK, MessageInv, Batches

\* The statuses an API request writes one after the other.
LEMMA FollowingFacts ==
  ASSUME NEW r \in DOMAIN Following
  PROVE  /\ r \in {"UPLOADED", "PARSED", "MAPPED", "VALIDATED"}
         /\ Following[r] \in {"PARSED", "MAPPED", "VALIDATED", "PROCESSING"}
BY DEF Following

-----------------------------------------------------------------------------
(* Every API step keeps the invariant *)

\* upload_file keeps the invariant.
LEMMA UploadStep ==
  ASSUME BaseInv, PoolState', LockInv', NEW F \in SUBSET Files, Upload(F)
  PROVE  BaseInv' /\ (ServedInv => ServedInv')
<1> USE BoundsType DEF BaseInv, PoolState, Batches, Exists, Upload, apiVars, queueVars, threadVars, poolVars
<1>1. TypeOK'
  BY DEF TypeOK, Statuses, Phases, PCs
<1>4. MessageInv'
  BY DEF MessageInv, TypeOK
<1>5. ActiveInv'
  BY DEF ActiveInv, MessageInv, TypeOK, Locked, Replacing
<1>6. ServedInv => NoNewerServed'
  BY JobFacts DEF ServedInv, NoNewerServed, MessageInv, ActiveInv, TypeOK, Serving
<1>7. ServedInv => OldRowsSeen'
  BY DEF ServedInv, OldRowsSeen
<1>8. LoserHasNewer'
  <2>1. \A c \in Batches : Exists(c) => Exists(c)'
    BY DEF TypeOK
  <2>2. \A w \in Workers : pc[w] # "idle" => job[w] # started + 1 /\ (Exists(job[w])' => Exists(job[w]))
    BY JobFacts, SMTT(30) DEF TypeOK, MessageInv
  <2> QED BY <2>1, <2>2, JobFacts DEF LoserHasNewer
<1>9. CandidateNotFailed'
  BY JobFacts DEF CandidateNotFailed, MessageInv, TypeOK
<1>10. ServedInv => AtMostOneActive'
  BY DEF ServedInv, AtMostOneActive, ActiveInv, MessageInv, TypeOK
<1>11. ServedInv => ServedRowsMatch'
  BY DEF ServedInv, ServedRowsMatch, ActiveInv, MessageInv, TypeOK, Serving
<1>12. SupersededHasNewer'
  BY DEF SupersededHasNewer, MessageInv, TypeOK
<1> QED BY <1>1, <1>4, <1>5, <1>6, <1>7, <1>8, <1>9, <1>10, <1>11, <1>12 DEF BaseInv, ServedInv, PoolState

\* append_files_to_active_dataset keeps the invariant up to its file check.
LEMMA AppendReadStep ==
  ASSUME BaseInv, PoolState', LockInv', NEW F \in SUBSET Files, AppendRead(F)
  PROVE  BaseInv' /\ (ServedInv => ServedInv')
<1> USE BoundsType DEF BaseInv, PoolState, Batches, Exists, AppendRead, apiVars, queueVars, threadVars, poolVars
<1>1. TypeOK'
  <2>1. PICK a \in Batches : /\ base' = [base EXCEPT ![started + 1] = a]
                             /\ files' = [files EXCEPT ![started + 1] = files[a] \cup F]
    OBVIOUS
  <2>2. files[a] \cup F \in SUBSET Files /\ a \in 0..MaxBatches
    BY DEF TypeOK
  <2>3. base' \in [Batches -> 0..MaxBatches] /\ files' \in [Batches -> SUBSET Files]
    BY <2>1, <2>2 DEF TypeOK
  <2>4. started' \in 0..MaxBatches /\ request' \in [Batches -> Phases]
    BY DEF TypeOK, Phases
  <2> QED BY <2>3, <2>4 DEF TypeOK
<1>4. MessageInv'
  BY DEF MessageInv, TypeOK
<1>5. ActiveInv'
  BY DEF ActiveInv, MessageInv, TypeOK, Locked, Replacing
<1>6. ServedInv => NoNewerServed'
  BY JobFacts DEF ServedInv, NoNewerServed, MessageInv, ActiveInv, TypeOK, Serving
<1>7. ServedInv => OldRowsSeen'
  BY DEF ServedInv, OldRowsSeen
<1>8. LoserHasNewer'
  BY JobFacts DEF LoserHasNewer, MessageInv, TypeOK
<1>9. CandidateNotFailed'
  BY JobFacts DEF CandidateNotFailed, MessageInv, TypeOK
<1>10. ServedInv => AtMostOneActive'
  BY DEF ServedInv, AtMostOneActive, ActiveInv, MessageInv, TypeOK
<1>11. ServedInv => ServedRowsMatch'
  BY DEF ServedInv, ServedRowsMatch, ActiveInv, MessageInv, TypeOK, Serving
<1>12. SupersededHasNewer'
  BY DEF SupersededHasNewer, MessageInv, TypeOK
<1> QED BY <1>1, <1>4, <1>5, <1>6, <1>7, <1>8, <1>9, <1>10, <1>11, <1>12 DEF BaseInv, ServedInv, PoolState

\* The insert of the append's batch row keeps the invariant.
LEMMA AppendInsertStep ==
  ASSUME BaseInv, PoolState', LockInv', NEW b \in Batches, AppendInsert(b)
  PROVE  BaseInv' /\ (ServedInv => ServedInv')
<1> USE BoundsType DEF BaseInv, PoolState, Batches, Exists, AppendInsert, apiVars, queueVars, threadVars, poolVars
<1>1. TypeOK'
  BY DEF TypeOK, Statuses, Phases, PCs
<1>4. MessageInv'
  BY DEF MessageInv, TypeOK
<1>5. ActiveInv'
  BY DEF ActiveInv, MessageInv, TypeOK, Locked, Replacing
<1>6. ServedInv => NoNewerServed'
  BY JobFacts DEF ServedInv, NoNewerServed, MessageInv, ActiveInv, TypeOK, Serving
<1>7. ServedInv => OldRowsSeen'
  BY DEF ServedInv, OldRowsSeen
<1>8. LoserHasNewer'
  <2>1. \A c \in Batches : Exists(c) => Exists(c)'
    BY DEF TypeOK
  <2>2. \A w \in Workers : pc[w] # "idle" => job[w] # b /\ (Exists(job[w])' => Exists(job[w]))
    BY JobFacts DEF TypeOK, MessageInv
  <2> QED BY <2>1, <2>2, JobFacts DEF LoserHasNewer
<1>9. CandidateNotFailed'
  BY JobFacts DEF CandidateNotFailed, MessageInv, TypeOK
<1>10. ServedInv => AtMostOneActive'
  BY DEF ServedInv, AtMostOneActive, ActiveInv, MessageInv, TypeOK
<1>11. ServedInv => ServedRowsMatch'
  BY DEF ServedInv, ServedRowsMatch, ActiveInv, MessageInv, TypeOK, Serving
<1>12. SupersededHasNewer'
  BY DEF SupersededHasNewer, MessageInv, TypeOK
<1> QED BY <1>1, <1>4, <1>5, <1>6, <1>7, <1>8, <1>9, <1>10, <1>11, <1>12 DEF BaseInv, ServedInv, PoolState

\* The blind status writes of a request keep the invariant: the batch has no
\* message yet, so no thread works on it and it is not active.
LEMMA RequestStepStep ==
  ASSUME BaseInv, PoolState', LockInv', NEW b \in Batches, RequestStep(b)
  PROVE  BaseInv' /\ (ServedInv => ServedInv')
<1> USE BoundsType DEF BaseInv, PoolState, Batches, Exists, RequestStep, apiVars, queueVars, threadVars, poolVars
<1>a. /\ request[b] \in {"UPLOADED", "PARSED", "MAPPED", "VALIDATED"}
      /\ Following[request[b]] \in {"PARSED", "MAPPED", "VALIDATED", "PROCESSING"}
  BY FollowingFacts
<1>1. TypeOK'
  <2>1. Following[request[b]] \in Statuses \cap Phases
    BY <1>a DEF Statuses, Phases
  <2> QED BY <2>1 DEF TypeOK
<1>4. MessageInv'
  BY <1>a DEF MessageInv, TypeOK
<1>5. ActiveInv'
  BY <1>a DEF ActiveInv, MessageInv, TypeOK, Locked, Replacing
<1>6. ServedInv => NoNewerServed'
  BY <1>a, JobFacts DEF ServedInv, NoNewerServed, MessageInv, ActiveInv, TypeOK, Serving
<1>7. ServedInv => OldRowsSeen'
  BY <1>a DEF ServedInv, OldRowsSeen
<1>8. LoserHasNewer'
  <2>1. \A c \in Batches : Exists(c) => Exists(c)'
    BY <1>a DEF TypeOK
  <2>2. \A w \in Workers : pc[w] # "idle" => job[w] # b /\ (Exists(job[w])' => Exists(job[w]))
    BY <1>a, JobFacts DEF TypeOK, MessageInv
  <2> QED BY <2>1, <2>2, JobFacts DEF LoserHasNewer
<1>9. CandidateNotFailed'
  BY <1>a, JobFacts DEF CandidateNotFailed, MessageInv, TypeOK
<1>10. ServedInv => AtMostOneActive'
  BY <1>a DEF ServedInv, AtMostOneActive, ActiveInv, MessageInv, TypeOK
<1>11. ServedInv => ServedRowsMatch'
  BY <1>a DEF ServedInv, ServedRowsMatch, ActiveInv, MessageInv, TypeOK, Serving
<1>12. SupersededHasNewer'
  <2>1. \A c \in Batches : Exists(c) => Exists(c)'
    BY <1>a DEF TypeOK
  <2>2. \A c \in Batches : status'[c] = "SUPERSEDED" => status[c] = "SUPERSEDED"
    BY <1>a DEF TypeOK
  <2> QED BY <2>1, <2>2 DEF SupersededHasNewer
<1> QED BY <1>1, <1>4, <1>5, <1>6, <1>7, <1>8, <1>9, <1>10, <1>11, <1>12 DEF BaseInv, ServedInv, PoolState

\* A request that fails keeps the invariant.
LEMMA ParseFailsStep ==
  ASSUME BaseInv, PoolState', LockInv', NEW b \in Batches, ParseFails(b)
  PROVE  BaseInv' /\ (ServedInv => ServedInv')
<1> USE BoundsType DEF BaseInv, PoolState, Batches, Exists, ParseFails, apiVars, queueVars, threadVars, poolVars
<1>1. TypeOK'
  BY DEF TypeOK, Statuses, Phases, PCs
<1>4. MessageInv'
  BY DEF MessageInv, TypeOK
<1>5. ActiveInv'
  BY DEF ActiveInv, MessageInv, TypeOK, Locked, Replacing
<1>6. ServedInv => NoNewerServed'
  BY JobFacts DEF ServedInv, NoNewerServed, MessageInv, ActiveInv, TypeOK, Serving
<1>7. ServedInv => OldRowsSeen'
  BY DEF ServedInv, OldRowsSeen
<1>8. LoserHasNewer'
  BY JobFacts DEF LoserHasNewer, MessageInv, TypeOK
<1>9. CandidateNotFailed'
  BY JobFacts DEF CandidateNotFailed, MessageInv, TypeOK
<1>10. ServedInv => AtMostOneActive'
  BY DEF ServedInv, AtMostOneActive, ActiveInv, MessageInv, TypeOK
<1>11. ServedInv => ServedRowsMatch'
  BY DEF ServedInv, ServedRowsMatch, ActiveInv, MessageInv, TypeOK, Serving
<1>12. SupersededHasNewer'
  BY DEF SupersededHasNewer, MessageInv, TypeOK
<1> QED BY <1>1, <1>4, <1>5, <1>6, <1>7, <1>8, <1>9, <1>10, <1>11, <1>12 DEF BaseInv, ServedInv, PoolState

\* Enqueuing the message keeps the invariant.
LEMMA SendStep ==
  ASSUME BaseInv, PoolState', LockInv', NEW b \in Batches, Send(b)
  PROVE  BaseInv' /\ (ServedInv => ServedInv')
<1> USE BoundsType DEF BaseInv, PoolState, Batches, Exists, Send, apiVars, queueVars, threadVars, poolVars
<1>1. TypeOK'
  BY DEF TypeOK, Statuses, Phases, PCs
<1>4. MessageInv'
  <2>1. \A w \in Workers : job[w] # 0 => job[w] \in Batches /\ job[w] # b
    <3>1. message[b] = "none"
      BY DEF MessageInv
    <3> QED BY <3>1, JobFacts DEF MessageInv
  <2>2. b <= started
    BY DEF MessageInv, TypeOK
  <2> QED BY <2>1, <2>2 DEF MessageInv, TypeOK
<1>5. ActiveInv'
  BY DEF ActiveInv, MessageInv, TypeOK, Locked, Replacing
<1>6. ServedInv => NoNewerServed'
  BY JobFacts DEF ServedInv, NoNewerServed, MessageInv, ActiveInv, TypeOK, Serving
<1>7. ServedInv => OldRowsSeen'
  BY DEF ServedInv, OldRowsSeen
<1>8. LoserHasNewer'
  BY JobFacts DEF LoserHasNewer, MessageInv, TypeOK
<1>9. CandidateNotFailed'
  BY JobFacts DEF CandidateNotFailed, MessageInv, TypeOK
<1>10. ServedInv => AtMostOneActive'
  BY DEF ServedInv, AtMostOneActive, ActiveInv, MessageInv, TypeOK
<1>11. ServedInv => ServedRowsMatch'
  BY DEF ServedInv, ServedRowsMatch, ActiveInv, MessageInv, TypeOK, Serving
<1>12. SupersededHasNewer'
  BY DEF SupersededHasNewer, MessageInv, TypeOK
<1> QED BY <1>1, <1>4, <1>5, <1>6, <1>7, <1>8, <1>9, <1>10, <1>11, <1>12 DEF BaseInv, ServedInv, PoolState

\* A request that dies keeps the invariant.
LEMMA RequestDiesStep ==
  ASSUME BaseInv, PoolState', LockInv', NEW b \in Batches, RequestDies(b)
  PROVE  BaseInv' /\ (ServedInv => ServedInv')
<1> USE BoundsType DEF BaseInv, PoolState, Batches, Exists, RequestDies, apiVars, queueVars, threadVars, poolVars
<1>1. TypeOK'
  BY DEF TypeOK, Statuses, Phases, PCs
<1>4. MessageInv'
  BY DEF MessageInv, TypeOK
<1>5. ActiveInv'
  BY DEF ActiveInv, MessageInv, TypeOK, Locked, Replacing
<1>6. ServedInv => NoNewerServed'
  BY JobFacts DEF ServedInv, NoNewerServed, MessageInv, ActiveInv, TypeOK, Serving
<1>7. ServedInv => OldRowsSeen'
  BY DEF ServedInv, OldRowsSeen
<1>8. LoserHasNewer'
  BY JobFacts DEF LoserHasNewer, MessageInv, TypeOK
<1>9. CandidateNotFailed'
  BY JobFacts DEF CandidateNotFailed, MessageInv, TypeOK
<1>10. ServedInv => AtMostOneActive'
  BY DEF ServedInv, AtMostOneActive, ActiveInv, MessageInv, TypeOK
<1>11. ServedInv => ServedRowsMatch'
  BY DEF ServedInv, ServedRowsMatch, ActiveInv, MessageInv, TypeOK, Serving
<1>12. SupersededHasNewer'
  BY DEF SupersededHasNewer, MessageInv, TypeOK
<1> QED BY <1>1, <1>4, <1>5, <1>6, <1>7, <1>8, <1>9, <1>10, <1>11, <1>12 DEF BaseInv, ServedInv, PoolState

\* The first transaction of clear_dataset keeps the invariant.
LEMMA ClearResetStep ==
  ASSUME BaseInv, PoolState', LockInv', ClearReset
  PROVE  BaseInv' /\ (ServedInv => ServedInv')
<1> USE BoundsType DEF BaseInv, PoolState, Batches, Exists, ClearReset, apiVars, queueVars, threadVars, poolVars
<1>1. TypeOK'
  BY DEF TypeOK, Statuses, Phases, PCs
<1>4. MessageInv'
  BY DEF MessageInv, TypeOK
<1>5. ActiveInv'
  BY DEF ActiveInv, MessageInv, TypeOK, Locked, Replacing
<1>6. ServedInv => NoNewerServed'
  BY JobFacts DEF ServedInv, NoNewerServed, MessageInv, ActiveInv, TypeOK, Serving
<1>7. ServedInv => OldRowsSeen'
  BY DEF ServedInv, OldRowsSeen
<1>8. LoserHasNewer'
  BY JobFacts DEF LoserHasNewer, MessageInv, TypeOK
<1>9. CandidateNotFailed'
  BY JobFacts DEF CandidateNotFailed, MessageInv, TypeOK
<1>10. ServedInv => AtMostOneActive'
  BY DEF ServedInv, AtMostOneActive, ActiveInv, MessageInv, TypeOK
<1>11. ServedInv => ServedRowsMatch'
  BY DEF ServedInv, ServedRowsMatch, ActiveInv, MessageInv, TypeOK, Serving
<1>12. SupersededHasNewer'
  BY DEF SupersededHasNewer, MessageInv, TypeOK
<1> QED BY <1>1, <1>4, <1>5, <1>6, <1>7, <1>8, <1>9, <1>10, <1>11, <1>12 DEF BaseInv, ServedInv, PoolState

\* The second transaction of clear_dataset keeps the invariant.
LEMMA ClearBatchesStep ==
  ASSUME BaseInv, PoolState', LockInv', ClearBatches
  PROVE  BaseInv' /\ (ServedInv => ServedInv')
<1> USE BoundsType DEF BaseInv, PoolState, Batches, Exists, ClearBatches, apiVars, queueVars, threadVars, poolVars
<1>1. TypeOK'
  BY SMTT(30) DEF TypeOK, Statuses, Phases, PCs
<1>4. MessageInv'
  BY DEF MessageInv, TypeOK
<1>5. ActiveInv'
  BY DEF ActiveInv, MessageInv, TypeOK, Locked, Replacing
<1>6. ServedInv => NoNewerServed'
  BY JobFacts DEF ServedInv, NoNewerServed, MessageInv, ActiveInv, TypeOK, Serving
<1>7. ServedInv => OldRowsSeen'
  BY DEF ServedInv, OldRowsSeen
<1>8. LoserHasNewer'
  BY JobFacts DEF LoserHasNewer, MessageInv, TypeOK
<1>9. CandidateNotFailed'
  BY JobFacts DEF CandidateNotFailed, MessageInv, TypeOK
<1>10. ServedInv => AtMostOneActive'
  BY DEF ServedInv, AtMostOneActive, ActiveInv, MessageInv, TypeOK
<1>11. ServedInv => ServedRowsMatch'
  BY DEF ServedInv, ServedRowsMatch, ActiveInv, MessageInv, TypeOK, Serving
<1>12. SupersededHasNewer'
  BY DEF SupersededHasNewer, MessageInv, TypeOK
<1> QED BY <1>1, <1>4, <1>5, <1>6, <1>7, <1>8, <1>9, <1>10, <1>11, <1>12 DEF BaseInv, ServedInv, PoolState

-----------------------------------------------------------------------------
(* Every worker step keeps the invariant *)

\* Taking a message and reading its batch keeps the invariant.
LEMMA ReceiveStep ==
  ASSUME BaseInv, PoolState', LockInv', NEW w \in Workers, NEW b \in Batches, Receive(w, b)
  PROVE  BaseInv' /\ (ServedInv => ServedInv')
<1> USE BoundsType DEF BaseInv, PoolState, Receive, Goto, Settled, Exists, apiVars, queueVars, threadVars, poolVars
<1>1. TypeOK'
  <2>1. /\ pc' \in [Workers -> PCs]
        /\ job' \in [Workers -> 0..MaxBatches]
        /\ message' \in [Batches -> {"none", "queued", "running", "acked", "dropped"}]
    BY DEF TypeOK, PCs, Batches
  <2>2. raised' \in [Workers -> BOOLEAN]
    BY DEF TypeOK
  <2> QED BY <2>1, <2>2 DEF TypeOK
<1>4. MessageInv'
  <2>1. \A v \in Workers : job[v] # 0 => job[v] # b /\ job[v] \in Batches
    BY JobFacts DEF MessageInv
  <2>2. request[b] = "done" /\ job[w] = 0 /\ b # 0
    BY DEF MessageInv, Batches
  <2>3. /\ job' = [job EXCEPT ![w] = b] /\ message' = [message EXCEPT ![b] = "running"]
        /\ pc'[w] # "idle" /\ \A v \in Workers \ {w} : pc'[v] = pc[v]
    BY DEF TypeOK
  <2> QED BY <2>1, <2>2, <2>3 DEF MessageInv, TypeOK
<1>5. ActiveInv'
  BY JobFacts DEF ActiveInv, MessageInv, TypeOK, Locked, Replacing, Serving
<1>6. ServedInv => NoNewerServed'
  BY JobFacts DEF ServedInv, NoNewerServed, ActiveInv, TypeOK, Serving
<1>7. ServedInv => OldRowsSeen'
  BY JobFacts DEF ServedInv, OldRowsSeen, TypeOK
<1>8. LoserHasNewer'
  BY JobFacts DEF LoserHasNewer, TypeOK, Exists
<1>9. CandidateNotFailed'
  BY JobFacts DEF CandidateNotFailed, TypeOK
<1>10. ServedInv => AtMostOneActive'
  BY DEF ServedInv, AtMostOneActive, ActiveInv, MessageInv, TypeOK
<1>11. ServedInv => ServedRowsMatch'
  BY JobFacts DEF ServedInv, ServedRowsMatch, ActiveInv, MessageInv, TypeOK, Serving
<1>12. SupersededHasNewer'
  BY DEF SupersededHasNewer, TypeOK, Exists
<1> QED BY <1>1, <1>4, <1>5, <1>6, <1>7, <1>8, <1>9, <1>10, <1>11, <1>12 DEF BaseInv, ServedInv, PoolState

\* pg_advisory_lock keeps the invariant.
LEMMA AcquireLockStep ==
  ASSUME BaseInv, PoolState', LockInv', NEW w \in Workers, AcquireLock(w)
  PROVE  BaseInv' /\ (ServedInv => ServedInv')
<1> USE BoundsType DEF BaseInv, PoolState, AcquireLock, Goto, Lock, Grantable, apiVars, queueVars, threadVars, poolVars
<1>c. job[w] \in Batches /\ message[job[w]] = "running" /\ request[job[w]] = "done"
  BY JobFacts
<1>1. TypeOK'
  BY <1>c DEF TypeOK, PCs, Statuses
<1>4. MessageInv'
  BY <1>c DEF MessageInv, TypeOK
<1>5. ActiveInv'
  BY <1>c, JobFacts DEF ActiveInv, MessageInv, TypeOK, Locked, Replacing, Serving
<1>6. ServedInv => NoNewerServed'
  BY <1>c, JobFacts DEF ServedInv, NoNewerServed, ActiveInv, TypeOK, Serving
<1>7. ServedInv => OldRowsSeen'
  BY <1>c, JobFacts DEF ServedInv, OldRowsSeen, TypeOK
<1>8. LoserHasNewer'
  BY <1>c, JobFacts DEF LoserHasNewer, TypeOK, Exists
<1>9. CandidateNotFailed'
  BY <1>c, JobFacts DEF CandidateNotFailed, TypeOK
<1>10. ServedInv => AtMostOneActive'
  BY <1>c DEF ServedInv, AtMostOneActive, ActiveInv, MessageInv, TypeOK
<1>11. ServedInv => ServedRowsMatch'
  BY <1>c, JobFacts DEF ServedInv, ServedRowsMatch, ActiveInv, MessageInv, TypeOK, Serving
<1>12. SupersededHasNewer'
  BY <1>c DEF SupersededHasNewer, TypeOK, Exists
<1> QED BY <1>1, <1>4, <1>5, <1>6, <1>7, <1>8, <1>9, <1>10, <1>11, <1>12 DEF BaseInv, ServedInv, PoolState

\* Re-reading the batch under the lock keeps the invariant.
LEMMA RecheckStep ==
  ASSUME BaseInv, PoolState', LockInv', NEW w \in Workers, Recheck(w)
  PROVE  BaseInv' /\ (ServedInv => ServedInv')
<1> USE BoundsType DEF BaseInv, PoolState, Recheck, Goto, Exists, IsNewest, apiVars, queueVars, threadVars, poolVars
<1>c. job[w] \in Batches /\ message[job[w]] = "running" /\ request[job[w]] = "done"
  BY JobFacts
<1>1. TypeOK'
  <2>1. pc' \in [Workers -> PCs]
    BY DEF TypeOK, PCs
  <2>2. status' \in [Batches -> Statuses]
    BY <1>c DEF TypeOK, Statuses
  <2>3. active' \in [Batches -> BOOLEAN]
    BY <1>c DEF TypeOK
  <2> QED BY <2>1, <2>2, <2>3 DEF TypeOK
<1>4. MessageInv'
  BY <1>c DEF MessageInv, TypeOK
<1>5. ActiveInv'
  BY <1>c, JobFacts DEF ActiveInv, MessageInv, TypeOK, Locked, Replacing, Serving
<1>6. ServedInv => NoNewerServed'
  BY <1>c, JobFacts DEF ServedInv, NoNewerServed, ActiveInv, TypeOK, Serving
<1>7. ServedInv => OldRowsSeen'
  BY <1>c, JobFacts DEF ServedInv, OldRowsSeen, TypeOK
<1>8. LoserHasNewer'
  BY <1>c, JobFacts DEF LoserHasNewer, TypeOK, Exists
<1>9. CandidateNotFailed'
  BY <1>c, JobFacts DEF CandidateNotFailed, TypeOK
<1>10. ServedInv => AtMostOneActive'
  BY <1>c DEF ServedInv, AtMostOneActive, ActiveInv, MessageInv, TypeOK
<1>11. ServedInv => ServedRowsMatch'
  BY <1>c, JobFacts DEF ServedInv, ServedRowsMatch, ActiveInv, MessageInv, TypeOK, Serving
<1>12. SupersededHasNewer'
  <2>1. \A c \in Batches : Exists(c)' <=> Exists(c)
    BY <1>c DEF TypeOK
  <2>2. CASE Exists(job[w]) /\ (status[job[w]] \in {"SUPERSEDED", "FAILED"} \/ ~IsNewest(job[w]))
    <3>1. \E c \in Batches : c > job[w] /\ Exists(c)
      BY <2>2, <1>c DEF SupersededHasNewer, CandidateNotFailed, Batches
    <3> QED BY <2>1, <2>2, <3>1, <1>c DEF SupersededHasNewer, TypeOK
  <2>3. CASE ~(Exists(job[w]) /\ (status[job[w]] \in {"SUPERSEDED", "FAILED"} \/ ~IsNewest(job[w])))
    <3>1. \A c \in Batches : status'[c] = "SUPERSEDED" => status[c] = "SUPERSEDED"
      BY <2>3 DEF TypeOK
    <3> QED BY <2>1, <3>1 DEF SupersededHasNewer
  <2> QED BY <2>2, <2>3
<1> QED BY <1>1, <1>4, <1>5, <1>6, <1>7, <1>8, <1>9, <1>10, <1>11, <1>12 DEF BaseInv, ServedInv, PoolState

\* reset_tenant_dataset in the replacement transaction keeps the invariant:
\* all the rows there are have been deleted.
LEMMA ResetStep ==
  ASSUME BaseInv, PoolState', LockInv', NEW w \in Workers, Reset(w)
  PROVE  BaseInv' /\ (ServedInv => ServedInv')
<1> USE BoundsType DEF BaseInv, PoolState, Reset, Goto, RowsUnlocked, DeletedByReset, apiVars, queueVars, threadVars, poolVars
<1>c. job[w] \in Batches /\ message[job[w]] = "running" /\ request[job[w]] = "done"
  BY JobFacts
<1>1. TypeOK'
  BY <1>c DEF TypeOK, PCs, Statuses
<1>4. MessageInv'
  BY <1>c DEF MessageInv, TypeOK
<1>5. ActiveInv'
  BY <1>c, JobFacts DEF ActiveInv, MessageInv, TypeOK, Locked, Replacing, Serving
<1>6. ServedInv => NoNewerServed'
  BY <1>c, JobFacts DEF ServedInv, NoNewerServed, ActiveInv, TypeOK, Serving
<1>7. ServedInv => OldRowsSeen'
  BY <1>c, JobFacts DEF ServedInv, OldRowsSeen, TypeOK
<1>8. LoserHasNewer'
  BY <1>c, JobFacts DEF LoserHasNewer, TypeOK, Exists
<1>9. CandidateNotFailed'
  BY <1>c, JobFacts DEF CandidateNotFailed, TypeOK
<1>10. ServedInv => AtMostOneActive'
  BY <1>c DEF ServedInv, AtMostOneActive, ActiveInv, MessageInv, TypeOK
<1>11. ServedInv => ServedRowsMatch'
  BY <1>c, JobFacts DEF ServedInv, ServedRowsMatch, ActiveInv, MessageInv, TypeOK, Serving
<1>12. SupersededHasNewer'
  BY <1>c DEF SupersededHasNewer, TypeOK, Exists
<1> QED BY <1>1, <1>4, <1>5, <1>6, <1>7, <1>8, <1>9, <1>10, <1>11, <1>12 DEF BaseInv, ServedInv, PoolState

\* The last look for a newer batch keeps the invariant: no newer dataset is
\* served from here to the commit.
LEMMA StillNewestStep ==
  ASSUME BaseInv, PoolState', LockInv', NEW w \in Workers, StillNewest(w)
  PROVE  BaseInv' /\ (ServedInv => ServedInv')
<1> USE BoundsType DEF BaseInv, PoolState, StillNewest, Goto, apiVars, queueVars, threadVars, poolVars
<1>c. job[w] \in Batches /\ message[job[w]] = "running" /\ request[job[w]] = "done"
  BY JobFacts
<1>1. TypeOK'
  BY <1>c DEF TypeOK, PCs, Statuses
<1>4. MessageInv'
  BY <1>c DEF MessageInv, TypeOK
<1>5. ActiveInv'
  BY <1>c, JobFacts DEF ActiveInv, MessageInv, TypeOK, Locked, Replacing, Serving
<1>6. ServedInv => NoNewerServed'
  <2>1. \A c \in Batches : Serving(c) => c < job[w]
    BY <1>c DEF IsNewest, Serving, Exists, ActiveInv, Locked, Replacing, Batches
  <2>2. \A v \in Workers \ {w} : pc'[v] = pc[v]
    BY DEF TypeOK
  <2> QED BY <2>1, <2>2 DEF ServedInv, NoNewerServed, Serving
<1>7. ServedInv => OldRowsSeen'
  BY <1>c, JobFacts DEF ServedInv, OldRowsSeen, TypeOK
<1>8. LoserHasNewer'
  BY <1>c, JobFacts DEF LoserHasNewer, TypeOK, Exists
<1>9. CandidateNotFailed'
  BY <1>c, JobFacts DEF CandidateNotFailed, TypeOK
<1>10. ServedInv => AtMostOneActive'
  BY <1>c DEF ServedInv, AtMostOneActive, ActiveInv, MessageInv, TypeOK
<1>11. ServedInv => ServedRowsMatch'
  BY <1>c, JobFacts DEF ServedInv, ServedRowsMatch, ActiveInv, MessageInv, TypeOK, Serving
<1>12. SupersededHasNewer'
  BY <1>c DEF SupersededHasNewer, TypeOK, Exists
<1> QED BY <1>1, <1>4, <1>5, <1>6, <1>7, <1>8, <1>9, <1>10, <1>11, <1>12 DEF BaseInv, ServedInv, PoolState

\* Rolling back for a newer batch keeps the invariant.
LEMMA OvertakenStep ==
  ASSUME BaseInv, PoolState', LockInv', NEW w \in Workers, Overtaken(w)
  PROVE  BaseInv' /\ (ServedInv => ServedInv')
<1> USE BoundsType DEF BaseInv, PoolState, Overtaken, Goto, apiVars, queueVars, threadVars, poolVars
<1>c. job[w] \in Batches /\ message[job[w]] = "running" /\ request[job[w]] = "done"
  BY JobFacts
<1>1. TypeOK'
  BY <1>c DEF TypeOK, PCs, Statuses
<1>4. MessageInv'
  BY <1>c DEF MessageInv, TypeOK
<1>5. ActiveInv'
  BY <1>c, JobFacts DEF ActiveInv, MessageInv, TypeOK, Locked, Replacing, Serving
<1>6. ServedInv => NoNewerServed'
  BY <1>c, JobFacts DEF ServedInv, NoNewerServed, ActiveInv, TypeOK, Serving
<1>7. ServedInv => OldRowsSeen'
  BY <1>c, JobFacts DEF ServedInv, OldRowsSeen, TypeOK
<1>8. LoserHasNewer'
  <2>1. Exists(job[w]) => \E c \in Batches : c > job[w] /\ Exists(c)
    BY <1>c DEF IsNewest, Batches
  <2>2. \A v \in Workers \ {w} : pc'[v] = pc[v]
    BY DEF TypeOK
  <2> QED BY <2>1, <2>2 DEF LoserHasNewer, Exists
<1>9. CandidateNotFailed'
  BY <1>c, JobFacts DEF CandidateNotFailed, TypeOK
<1>10. ServedInv => AtMostOneActive'
  BY <1>c DEF ServedInv, AtMostOneActive, ActiveInv, MessageInv, TypeOK
<1>11. ServedInv => ServedRowsMatch'
  BY <1>c, JobFacts DEF ServedInv, ServedRowsMatch, ActiveInv, MessageInv, TypeOK, Serving
<1>12. SupersededHasNewer'
  BY <1>c DEF SupersededHasNewer, TypeOK, Exists
<1> QED BY <1>1, <1>4, <1>5, <1>6, <1>7, <1>8, <1>9, <1>10, <1>11, <1>12 DEF BaseInv, ServedInv, PoolState

\* The commit that activates a dataset keeps the invariant: as long as the lock is
\* not re-entered, no other thread is in the locked section.
LEMMA ActivateStep ==
  ASSUME BaseInv, PoolState', LockInv', NEW w \in Workers, Activate(w)
  PROVE  BaseInv' /\ (ServedInv /\ NotReentered => ServedInv')
<1> USE BoundsType DEF BaseInv, PoolState, Activate, Goto, Exists, Retires, apiVars, queueVars, threadVars, poolVars
<1>c. job[w] \in Batches /\ message[job[w]] = "running" /\ request[job[w]] = "done"
  BY JobFacts
<1>d. ServedInv => \A c \in Batches : active[c] => c < job[w] /\ Exists(c)
  BY DEF ServedInv, NoNewerServed, ActiveInv, Serving
<1>e. NotReentered => \A v \in Workers : pc'[v] \notin {"building", "activating"}
  <2>1. ASSUME NotReentered, NEW v \in Workers, v # w
        PROVE  pc[v] \notin {"building", "activating"}
    <3>1. ExclusiveLock
      BY <2>1, Exclusion DEF TypeOK
    <3>2. w \in Section
      BY DEF Section, Locked, Replacing
    <3>3. v \notin Section
      BY <2>1, <3>1, <3>2 DEF ExclusiveLock
    <3> QED BY <2>1, <3>3 DEF Section, Locked, Replacing
  <2> QED BY <2>1 DEF TypeOK
<1>1. TypeOK'
  <2>1. status' \in [Batches -> Statuses] /\ active' \in [Batches -> BOOLEAN]
    BY DEF TypeOK, Statuses
  <2>2. pc' \in [Workers -> PCs] /\ canon' \in SUBSET Batches /\ seen' \in [Workers -> SUBSET Batches]
    BY <1>c DEF TypeOK, PCs
  <2> QED BY <2>1, <2>2 DEF TypeOK
<1>4. MessageInv'
  BY <1>c DEF MessageInv, TypeOK
<1>5. ActiveInv'
  <2>1. \A c \in Batches : c # job[w] => (active'[c] => active[c] /\ status'[c] = status[c])
    BY DEF TypeOK, ActiveInv
  <2>2. \A v \in Workers : pc'[v] # "idle" /\ v # w => job'[v] # job[w] /\ job[v] \in Batches /\ pc'[v] = pc[v]
    BY <1>c, JobFacts DEF MessageInv, TypeOK
  <2>3. \A c \in Batches : message[c] = "none" => c # job[w]
    BY <1>c
  <2>4. pc'[w] = "unlocking" /\ status'[job[w]] = "COMMITTED"
    BY <1>c DEF TypeOK
  <2>5. \A c \in Batches : c # job[w] => (status'[c] = "COMMITTED" => status[c] = "COMMITTED")
    BY DEF TypeOK
  <2> QED BY <2>1, <2>2, <2>3, <2>4, <2>5, <1>c, JobFacts DEF ActiveInv, Locked, Replacing
<1>6. ServedInv /\ NotReentered => NoNewerServed'
  BY <1>c, <1>e DEF ServedInv, NoNewerServed, TypeOK
<1>7. ServedInv /\ NotReentered => OldRowsSeen'
  BY <1>c, <1>e DEF ServedInv, OldRowsSeen, TypeOK
<1>8. LoserHasNewer'
  BY <1>c, JobFacts DEF LoserHasNewer, TypeOK, Exists
<1>9. CandidateNotFailed'
  BY <1>c, JobFacts DEF CandidateNotFailed, TypeOK
<1>10. ServedInv => AtMostOneActive'
  BY <1>c, <1>d DEF ServedInv, AtMostOneActive, ActiveInv, TypeOK
<1>11. ServedInv => ServedRowsMatch'
  <2>1. ServedInv => canon' = {job[w]}
    BY <1>c DEF ServedInv, OldRowsSeen
  <2>2. ServedInv => \A c \in Batches : active'[c] => c = job[w]
    BY <1>c, <1>d DEF ActiveInv, TypeOK
  <2> QED BY <2>1, <2>2 DEF ServedRowsMatch, Serving
<1>12. SupersededHasNewer'
  BY <1>c DEF SupersededHasNewer, TypeOK, Exists
<1> QED BY <1>1, <1>4, <1>5, <1>6, <1>7, <1>8, <1>9, <1>10, <1>11, <1>12 DEF BaseInv, ServedInv, PoolState

\* The handler of _SupersededByNewerUpload keeps the invariant.
LEMMA MarkSupersededStep ==
  ASSUME BaseInv, PoolState', LockInv', NEW w \in Workers, MarkSuperseded(w)
  PROVE  BaseInv' /\ (ServedInv => ServedInv')
<1> USE BoundsType DEF BaseInv, PoolState, MarkSuperseded, Goto, Mark, apiVars, queueVars, threadVars, poolVars
<1>c. job[w] \in Batches /\ message[job[w]] = "running" /\ request[job[w]] = "done"
  BY JobFacts
<1>1. TypeOK'
  BY <1>c DEF TypeOK, PCs, Statuses
<1>4. MessageInv'
  BY <1>c DEF MessageInv, TypeOK
<1>5. ActiveInv'
  BY <1>c, JobFacts DEF ActiveInv, MessageInv, TypeOK, Locked, Replacing, Serving
<1>6. ServedInv => NoNewerServed'
  BY <1>c, JobFacts DEF ServedInv, NoNewerServed, ActiveInv, TypeOK, Serving
<1>7. ServedInv => OldRowsSeen'
  BY <1>c, JobFacts DEF ServedInv, OldRowsSeen, TypeOK
<1>8. LoserHasNewer'
  BY <1>c, JobFacts DEF LoserHasNewer, TypeOK, Exists
<1>9. CandidateNotFailed'
  BY <1>c, JobFacts DEF CandidateNotFailed, TypeOK
<1>10. ServedInv => AtMostOneActive'
  BY <1>c DEF ServedInv, AtMostOneActive, ActiveInv, MessageInv, TypeOK
<1>11. ServedInv => ServedRowsMatch'
  BY <1>c, JobFacts DEF ServedInv, ServedRowsMatch, ActiveInv, MessageInv, TypeOK, Serving
<1>12. SupersededHasNewer'
  <2>1. \A c \in Batches : Exists(c)' <=> Exists(c)
    BY <1>c DEF TypeOK, Exists
  <2>2. Exists(job[w]) => \E c \in Batches : c > job[w] /\ Exists(c)
    BY DEF LoserHasNewer
  <2>3. \A c \in Batches : status'[c] = "SUPERSEDED" =>
          status[c] = "SUPERSEDED" \/ (c = job[w] /\ Exists(job[w]))
    BY <1>c DEF TypeOK
  <2> QED BY <2>1, <2>2, <2>3 DEF SupersededHasNewer
<1> QED BY <1>1, <1>4, <1>5, <1>6, <1>7, <1>8, <1>9, <1>10, <1>11, <1>12 DEF BaseInv, ServedInv, PoolState

\* The handler of Exception keeps the invariant.
LEMMA MarkFailedStep ==
  ASSUME BaseInv, PoolState', LockInv', NEW w \in Workers, MarkFailed(w)
  PROVE  BaseInv' /\ (ServedInv => ServedInv')
<1> USE BoundsType DEF BaseInv, PoolState, MarkFailed, Goto, Mark, apiVars, queueVars, threadVars, poolVars
<1>c. job[w] \in Batches /\ message[job[w]] = "running" /\ request[job[w]] = "done"
  BY JobFacts
<1>1. TypeOK'
  BY <1>c DEF TypeOK, PCs, Statuses
<1>4. MessageInv'
  BY <1>c DEF MessageInv, TypeOK
<1>5. ActiveInv'
  BY <1>c, JobFacts DEF ActiveInv, MessageInv, TypeOK, Locked, Replacing, Serving
<1>6. ServedInv => NoNewerServed'
  BY <1>c, JobFacts DEF ServedInv, NoNewerServed, ActiveInv, TypeOK, Serving
<1>7. ServedInv => OldRowsSeen'
  BY <1>c, JobFacts DEF ServedInv, OldRowsSeen, TypeOK
<1>8. LoserHasNewer'
  BY <1>c, JobFacts DEF LoserHasNewer, TypeOK, Exists
<1>9. CandidateNotFailed'
  <2>1. \A v \in Workers \ {w} : pc[v] # "idle" => job[v] # job[w] /\ job[v] \in Batches
    BY <1>c, JobFacts DEF MessageInv, Batches
  <2>2. pc'[w] = "unlocking" /\ \A v \in Workers \ {w} : pc'[v] = pc[v]
    BY DEF TypeOK
  <2>3. \A c \in Batches : c # job[w] => status'[c] = status[c]
    BY <1>c DEF TypeOK
  <2> QED BY <2>1, <2>2, <2>3 DEF CandidateNotFailed
<1>10. ServedInv => AtMostOneActive'
  BY <1>c DEF ServedInv, AtMostOneActive, ActiveInv, MessageInv, TypeOK
<1>11. ServedInv => ServedRowsMatch'
  BY <1>c, JobFacts DEF ServedInv, ServedRowsMatch, ActiveInv, MessageInv, TypeOK, Serving
<1>12. SupersededHasNewer'
  BY <1>c DEF SupersededHasNewer, TypeOK, Exists
<1> QED BY <1>1, <1>4, <1>5, <1>6, <1>7, <1>8, <1>9, <1>10, <1>11, <1>12 DEF BaseInv, ServedInv, PoolState

\* pg_advisory_unlock keeps the invariant.
LEMMA ReleaseLockStep ==
  ASSUME BaseInv, PoolState', LockInv', NEW w \in Workers, ReleaseLock(w)
  PROVE  BaseInv' /\ (ServedInv => ServedInv')
<1> USE BoundsType DEF BaseInv, PoolState, ReleaseLock, Goto, apiVars, queueVars, threadVars, poolVars
<1>c. job[w] \in Batches /\ message[job[w]] = "running" /\ request[job[w]] = "done"
  BY JobFacts
<1>1. TypeOK'
  BY <1>c DEF TypeOK, PCs
<1>4. MessageInv'
  BY <1>c DEF MessageInv, TypeOK
<1>5. ActiveInv'
  BY <1>c, JobFacts DEF ActiveInv, MessageInv, TypeOK, Locked, Replacing, Serving
<1>6. ServedInv => NoNewerServed'
  BY <1>c, JobFacts DEF ServedInv, NoNewerServed, ActiveInv, TypeOK, Serving
<1>7. ServedInv => OldRowsSeen'
  BY <1>c, JobFacts DEF ServedInv, OldRowsSeen, TypeOK
<1>8. LoserHasNewer'
  BY <1>c, JobFacts DEF LoserHasNewer, TypeOK, Exists
<1>9. CandidateNotFailed'
  BY <1>c, JobFacts DEF CandidateNotFailed, TypeOK
<1>10. ServedInv => AtMostOneActive'
  BY <1>c DEF ServedInv, AtMostOneActive, ActiveInv, MessageInv, TypeOK
<1>11. ServedInv => ServedRowsMatch'
  BY <1>c, JobFacts DEF ServedInv, ServedRowsMatch, ActiveInv, MessageInv, TypeOK, Serving
<1>12. SupersededHasNewer'
  BY <1>c DEF SupersededHasNewer, TypeOK, Exists
<1> QED BY <1>1, <1>4, <1>5, <1>6, <1>7, <1>8, <1>9, <1>10, <1>11, <1>12 DEF BaseInv, ServedInv, PoolState

\* Rolling back a failed replacement keeps the invariant.
LEMMA ReplacementFailsStep ==
  ASSUME BaseInv, PoolState', LockInv', NEW w \in Workers, ReplacementFails(w)
  PROVE  BaseInv' /\ (ServedInv => ServedInv')
<1> USE BoundsType DEF BaseInv, PoolState, ReplacementFails, Goto, apiVars, queueVars, threadVars, poolVars
<1>c. job[w] \in Batches /\ message[job[w]] = "running" /\ request[job[w]] = "done"
  BY JobFacts
<1>1. TypeOK'
  BY <1>c DEF TypeOK, PCs, Statuses
<1>4. MessageInv'
  BY <1>c DEF MessageInv, TypeOK
<1>5. ActiveInv'
  BY <1>c, JobFacts DEF ActiveInv, MessageInv, TypeOK, Locked, Replacing, Serving
<1>6. ServedInv => NoNewerServed'
  BY <1>c, JobFacts DEF ServedInv, NoNewerServed, ActiveInv, TypeOK, Serving
<1>7. ServedInv => OldRowsSeen'
  BY <1>c, JobFacts DEF ServedInv, OldRowsSeen, TypeOK
<1>8. LoserHasNewer'
  BY <1>c, JobFacts DEF LoserHasNewer, TypeOK, Exists
<1>9. CandidateNotFailed'
  BY <1>c, JobFacts DEF CandidateNotFailed, TypeOK
<1>10. ServedInv => AtMostOneActive'
  BY <1>c DEF ServedInv, AtMostOneActive, ActiveInv, MessageInv, TypeOK
<1>11. ServedInv => ServedRowsMatch'
  BY <1>c, JobFacts DEF ServedInv, ServedRowsMatch, ActiveInv, MessageInv, TypeOK, Serving
<1>12. SupersededHasNewer'
  BY <1>c DEF SupersededHasNewer, TypeOK, Exists
<1> QED BY <1>1, <1>4, <1>5, <1>6, <1>7, <1>8, <1>9, <1>10, <1>11, <1>12 DEF BaseInv, ServedInv, PoolState

\* Acknowledging or retrying the message keeps the invariant.
LEMMA FinishStep ==
  ASSUME BaseInv, PoolState', LockInv', NEW w \in Workers, Finish(w)
  PROVE  BaseInv' /\ (ServedInv => ServedInv')
<1> USE BoundsType DEF BaseInv, PoolState, Finish, Goto, AfterMessage, apiVars, queueVars, threadVars, poolVars
<1>c. job[w] \in Batches /\ message[job[w]] = "running" /\ request[job[w]] = "done"
  BY JobFacts
<1>1. TypeOK'
  BY <1>c DEF TypeOK, PCs, Statuses
<1>4. MessageInv'
  BY <1>c DEF MessageInv, TypeOK
<1>5. ActiveInv'
  BY <1>c, JobFacts DEF ActiveInv, MessageInv, TypeOK, Locked, Replacing, Serving
<1>6. ServedInv => NoNewerServed'
  BY <1>c, JobFacts DEF ServedInv, NoNewerServed, ActiveInv, TypeOK, Serving
<1>7. ServedInv => OldRowsSeen'
  BY <1>c, JobFacts DEF ServedInv, OldRowsSeen, TypeOK
<1>8. LoserHasNewer'
  BY <1>c, JobFacts DEF LoserHasNewer, TypeOK, Exists
<1>9. CandidateNotFailed'
  BY <1>c, JobFacts DEF CandidateNotFailed, TypeOK
<1>10. ServedInv => AtMostOneActive'
  BY <1>c DEF ServedInv, AtMostOneActive, ActiveInv, MessageInv, TypeOK
<1>11. ServedInv => ServedRowsMatch'
  BY <1>c, JobFacts DEF ServedInv, ServedRowsMatch, ActiveInv, MessageInv, TypeOK, Serving
<1>12. SupersededHasNewer'
  BY <1>c DEF SupersededHasNewer, TypeOK, Exists
<1> QED BY <1>1, <1>4, <1>5, <1>6, <1>7, <1>8, <1>9, <1>10, <1>11, <1>12 DEF BaseInv, ServedInv, PoolState

\* The death of a worker process keeps the invariant.
LEMMA WorkerCrashStep ==
  ASSUME BaseInv, PoolState', LockInv', NEW p \in Procs, WorkerCrash(p)
  PROVE  BaseInv' /\ (ServedInv => ServedInv')
<1> USE BoundsType DEF BaseInv, PoolState, WorkerCrash, PoolCrash, apiVars
<1>a. \A w \in Workers : /\ ProcOf[w] \in Procs
                         /\ ProcOf[w] = p => pc'[w] = "idle" /\ job'[w] = 0 /\ conn'[w] = NoConn
                         /\ ProcOf[w] # p => pc'[w] = pc[w] /\ job'[w] = job[w] /\ conn'[w] = conn[w]
                                             /\ seen'[w] = seen[w]
  BY ConnFacts
<1>1. TypeOK'
  <2>2. /\ pc' \in [Workers -> PCs] /\ job' \in [Workers -> 0..MaxBatches]
        /\ seen' \in [Workers -> SUBSET Batches] /\ crashes' \in 0..MaxCrashes
    BY DEF TypeOK, PCs
  <2>3. raised' \in [Workers -> BOOLEAN]
    BY DEF TypeOK
  <2>4. message' \in [Batches -> {"none", "queued", "running", "acked", "dropped"}]
    BY DEF TypeOK
  <2> QED BY <2>2, <2>3, <2>4 DEF TypeOK
<1>4. MessageInv'
  <2>1. \A w \in Workers : job'[w] # 0 => message'[job'[w]] = "running"
    <3> SUFFICES ASSUME NEW w \in Workers, job'[w] # 0
                 PROVE  message'[job'[w]] = "running"
      OBVIOUS
    <3>1. ProcOf[w] # p /\ job'[w] = job[w] /\ job[w] \in Batches
      BY <1>a, JobFacts DEF MessageInv
    <3>2. ~ \E v \in {u \in Workers : ProcOf[u] = p} : job[v] = job[w]
      BY <1>a, <3>1 DEF MessageInv
    <3> QED BY <3>1, <3>2, JobFacts DEF MessageInv
  <2>2. \A b \in Batches : request[b] # "done" => message'[b] = "none"
    BY JobFacts DEF MessageInv, Batches
  <2>3. \A v, w \in Workers : job'[v] = job'[w] /\ job'[w] # 0 => v = w
    BY <1>a DEF MessageInv
  <2>4. \A w \in Workers : pc'[w] = "idle" <=> job'[w] = 0
    BY <1>a DEF MessageInv
  <2> QED BY <2>1, <2>2, <2>3, <2>4 DEF MessageInv
<1>5. ActiveInv'
  <2>1. \A b \in Batches : message'[b] = "none" => message[b] = "none"
    OBVIOUS
  <2> QED BY <1>a, <2>1 DEF ActiveInv, Locked, Replacing
<1>6. ServedInv => NoNewerServed'
  BY <1>a DEF ServedInv, NoNewerServed, Serving
<1>7. ServedInv => OldRowsSeen'
  BY <1>a DEF ServedInv, OldRowsSeen
<1>8. LoserHasNewer'
  BY <1>a DEF LoserHasNewer, Exists
<1>9. CandidateNotFailed'
  BY <1>a DEF CandidateNotFailed
<1>10. ServedInv => AtMostOneActive' /\ ServedRowsMatch'
  BY DEF ServedInv, AtMostOneActive, ServedRowsMatch, Serving
<1>12. SupersededHasNewer'
  BY DEF SupersededHasNewer, Exists
<1> QED BY <1>1, <1>4, <1>5, <1>6, <1>7, <1>8, <1>9, <1>10, <1>12 DEF BaseInv, ServedInv, PoolState
-----------------------------------------------------------------------------
(* The inductive invariant *)

\* The invariant holds of an empty database with idle workers.
LEMMA InitInv == Init => IInv
<1> SUFFICES ASSUME Init PROVE IInv
  OBVIOUS
<1> USE BoundsType DEF Init, PoolInit
<1>1. TypeOK
  BY DEF TypeOK, PoolTypeOK, Statuses, Phases, PCs
<1>2. ConnInv
  BY ConnFacts DEF ConnInv, InTransaction
<1>3. LockInv
  <2>1. Section = {}
    BY DEF Section, Locked, Replacing
  <2> QED BY <2>1, FS_EmptySet DEF LockInv
<1>4. MessageInv /\ ActiveInv
  BY DEF MessageInv, ActiveInv, Locked, Replacing
<1>5. NoNewerServed /\ OldRowsSeen /\ LoserHasNewer /\ CandidateNotFailed
  BY DEF NoNewerServed, OldRowsSeen, LoserHasNewer, CandidateNotFailed
<1>6. AtMostOneActive /\ ServedRowsMatch /\ SupersededHasNewer
  BY DEF AtMostOneActive, ServedRowsMatch, SupersededHasNewer, Serving
<1> QED BY <1>1, <1>2, <1>3, <1>4, <1>5, <1>6 DEF IInv, BaseInv, ServedInv

\* Every step of API, workers and crashes keeps the types, the messages and the
\* lock; what is served stays right unless the lock was re-entered.
LEMMA NextInv ==
  ASSUME BaseInv, [Next]_vars
  PROVE  BaseInv' /\ (ServedInv /\ NotReentered => ServedInv')
<1>p. PoolState' /\ LockInv'
  BY PoolStep, LockInvKept DEF BaseInv, TypeOK, PoolState
<1>1. CASE UNCHANGED vars
  <2> USE <1>1 DEF vars, poolVars
  <2>1. TypeOK'
    BY DEF BaseInv, TypeOK, PoolTypeOK
  <2>2. MessageInv' /\ ActiveInv'
    BY DEF BaseInv, MessageInv, ActiveInv
  <2>3. LoserHasNewer' /\ CandidateNotFailed' /\ SupersededHasNewer'
    BY DEF BaseInv, LoserHasNewer, CandidateNotFailed, SupersededHasNewer, Exists
  <2>4. ServedInv => ServedInv'
    BY DEF ServedInv, NoNewerServed, OldRowsSeen, AtMostOneActive, ServedRowsMatch, Serving
  <2> QED BY <1>p, <2>1, <2>2, <2>3, <2>4 DEF BaseInv, PoolState
<1>2. CASE ApiNext
  BY <1>p, <1>2, UploadStep, AppendReadStep, AppendInsertStep, RequestStepStep,
     ParseFailsStep, SendStep, RequestDiesStep, ClearResetStep, ClearBatchesStep
  DEF ApiNext
<1>3. CASE \E w \in Workers : WorkerStep(w)
  BY <1>p, <1>3, ReceiveStep, AcquireLockStep, RecheckStep, ResetStep, StillNewestStep,
     OvertakenStep, ActivateStep, ReplacementFailsStep, MarkSupersededStep,
     MarkFailedStep, ReleaseLockStep, FinishStep
  DEF WorkerStep
<1>4. CASE \E p \in Procs : WorkerCrash(p)
  BY <1>p, <1>4, WorkerCrashStep
<1> QED BY <1>1, <1>2, <1>3, <1>4 DEF Next

\* However many threads share a pool, types, connections, messages and the order
\* of the batches are kept, and the locked section (main.py, between
\* pg_advisory_lock and pg_advisory_unlock) has never more threads than locks.
THEOREM BaseInvariant == Spec => []BaseInv
<1>1. Init => BaseInv
  BY InitInv DEF IInv
<1>2. BaseInv /\ [Next]_vars => BaseInv'
  BY NextInv
<1> QED BY <1>1, <1>2, PTL DEF Spec

\* In every behaviour in which the advisory lock is never re-entered the
\* inductive invariant holds throughout: between its commits, a worker
\* (main.py, process_ingestion_analytics_task) can rely on what it read under
\* the lock.
THEOREM InductiveInvariant == Spec /\ []NotReentered => []IInv
<1>1. Init => IInv
  BY InitInv
<1>2. IInv /\ NotReentered /\ [Next]_vars => IInv'
  BY NextInv DEF IInv
<1> QED BY <1>1, <1>2, PTL DEF Spec

\* What the advisory lock gives in every deployment: the locked sections of two
\* processes never overlap, and those of two threads only while the lock is held
\* more than once.  The actor is "one tenant-serialized operation" (main.py)
\* exactly as far as that.
THEOREM Serialization ==
  Spec => [](/\ \A v, w \in Section : ProcOf[v] = ProcOf[w]
             /\ Cardinality(Section) <= lockDepth
             /\ NotReentered => SerializedReplacement)
<1>1. ASSUME BaseInv
      PROVE  /\ \A v, w \in Section : ProcOf[v] = ProcOf[w]
             /\ Cardinality(Section) <= lockDepth
             /\ NotReentered => SerializedReplacement
  <2>1. \A v, w \in Section : ProcOf[v] = ProcOf[w]
    BY <1>1, ConnFacts DEF BaseInv, LockInv, Section
  <2>2. NotReentered => ExclusiveLock
    BY <1>1, Exclusion DEF BaseInv, TypeOK, PoolState
  <2>3. NotReentered => SerializedReplacement
    BY <2>2 DEF ExclusiveLock, SerializedReplacement, Section, Locked, Replacing
  <2> QED BY <1>1, <2>1, <2>3 DEF BaseInv, LockInv
<1> QED BY <1>1, BaseInvariant, PTL

\* As long as the lock is not re-entered, at most one batch is active and the
\* rows that queries see while a dataset is served are exactly its rows
\* (main.py, the replacement transaction).
THEOREM DatasetSafety == Spec /\ []NotReentered => [](AtMostOneActive /\ ServedRowsMatch)
<1>1. IInv => AtMostOneActive /\ ServedRowsMatch
  BY DEF IInv, ServedInv
<1> QED BY <1>1, InductiveInvariant, PTL

\* Every variable keeps its type, with any number of processes and threads: in
\* particular the rows of an operation never name a batch or a file that was not
\* accepted.
THEOREM DatasetTypes == Spec => []TypeOK
<1>1. BaseInv => TypeOK
  BY DEF BaseInv
<1> QED BY <1>1, BaseInvariant, PTL

\* An older candidate never retires a newer one (main.py, the status of a stale
\* candidate), with any number of processes and threads and also where the lock
\* is re-entered.
THEOREM RetiredByNewer == Spec => []SupersededHasNewer
<1>1. BaseInv => SupersededHasNewer
  BY DEF BaseInv
<1> QED BY <1>1, BaseInvariant, PTL

-----------------------------------------------------------------------------
(* What the invariant implies for the served dataset *)

\* The served dataset of the refinement mapping is the active one.
LEMMA ServedValue ==
  ASSUME AtMostOneActive
  PROVE  /\ \A b \in Batches : Serving(b) => served = b
         /\ (\A b \in Batches : ~Serving(b)) => served = 0
<1>1. ASSUME NEW b \in Batches, Serving(b)
      PROVE  served = b
  <2>1. IsActiveDataset(b) /\ \A c \in Batches : IsActiveDataset(c) => c = b
    BY <1>1, BoundsType DEF AtMostOneActive, Serving, IsActiveDataset, Batches
  <2> QED BY <1>1, <2>1 DEF served
<1>2. (\A b \in Batches : ~Serving(b)) => served = 0
  BY DEF served
<1> QED BY <1>1, <1>2

\* The same in the next state.
LEMMA ServedValueNext ==
  ASSUME AtMostOneActive'
  PROVE  /\ \A b \in Batches : Serving(b)' => served' = b
         /\ (\A b \in Batches : ~Serving(b)') => served' = 0
<1>1. ASSUME NEW b \in Batches, Serving(b)'
      PROVE  served' = b
  <2>1. IsActiveDataset(b)' /\ \A c \in Batches : IsActiveDataset(c)' => c = b
    BY <1>1, BoundsType DEF AtMostOneActive, Serving, IsActiveDataset, Batches
  <2> QED BY <1>1, <2>1 DEF served
<1>2. (\A b \in Batches : ~Serving(b)') => served' = 0
  BY DEF served
<1> QED BY <1>1, <1>2

\* is_active only changes in the activating commit and in clear_dataset: all
\* the other writes of is_active write the value that is there.
LEMMA ActiveChange ==
  ASSUME BaseInv, [Next]_vars
  PROVE  \/ /\ \A b \in Batches : active'[b] = active[b]
            /\ UNCHANGED clearing
         \/ \E w \in Workers : pc[w] = "activating" /\ Activate(w)
         \/ ClearReset \/ ClearBatches
<1> USE DEF BaseInv, apiVars
<1>1. CASE UNCHANGED vars
  BY <1>1 DEF vars
<1>2. CASE ApiNext
  <2>1. ASSUME NEW b \in Batches, RequestStep(b)
        PROVE  /\ \A c \in Batches : active'[c] = active[c]
               /\ UNCHANGED clearing
    <3>1. message[b] = "none" /\ active[b] = FALSE
      BY <2>1, FollowingFacts DEF RequestStep, MessageInv, ActiveInv, TypeOK
    <3> QED BY <2>1, <3>1 DEF RequestStep, TypeOK
  <2> QED BY <1>2, <2>1
      DEF ApiNext, Upload, AppendRead, AppendInsert, ParseFails, Send, RequestDies
<1>3. ASSUME NEW w \in Workers, WorkerStep(w), ~Activate(w)
      PROVE  /\ \A c \in Batches : active'[c] = active[c]
             /\ UNCHANGED clearing
  <2>1. ASSUME Recheck(w) \/ MarkSuperseded(w) \/ MarkFailed(w)
        PROVE  /\ \A c \in Batches : active'[c] = active[c]
               /\ UNCHANGED clearing
    <3>1. job[w] \in Batches /\ active[job[w]] = FALSE
      BY <2>1, JobFacts
      DEF Recheck, MarkSuperseded, MarkFailed, ActiveInv, TypeOK, Locked, Replacing
    <3> QED BY <2>1, <3>1 DEF Recheck, MarkSuperseded, MarkFailed, Mark, TypeOK
  <2> QED BY <1>3, <2>1
      DEF WorkerStep, Receive, AcquireLock, Reset, StillNewest, Overtaken,
          ReplacementFails, ReleaseLock, Finish
<1>4. CASE \E p \in Procs : WorkerCrash(p)
  BY <1>4 DEF WorkerCrash
<1>5. \A w \in Workers : Activate(w) => pc[w] = "activating"
  BY DEF Activate
<1> QED BY <1>1, <1>2, <1>3, <1>4, <1>5 DEF Next

\* The activating commit serves the thread's batch, which is newer than
\* whatever was served.
LEMMA ActivateServes ==
  ASSUME IInv, NEW w \in Workers, Activate(w)
  PROVE  /\ job[w] \in Batches
         /\ active'[job[w]] /\ status'[job[w]] = "COMMITTED"
         /\ \A c \in Batches : Serving(c) => c < job[w]
         /\ UNCHANGED clearing
<1>1. job[w] \in Batches
  BY JobFacts DEF IInv, BaseInv, Activate
<1>2. active'[job[w]] /\ status'[job[w]] = "COMMITTED"
  BY <1>1 DEF IInv, BaseInv, TypeOK, Activate
<1>3. \A c \in Batches : Serving(c) => c < job[w]
  BY DEF IInv, ServedInv, NoNewerServed, Activate
<1> QED BY <1>1, <1>2, <1>3 DEF Activate, apiVars

\* The active dataset is only replaced by a later one: stale results are never
\* activated (main.py, the two newest_batch_id checks), as long as the lock is not
\* re-entered.
THEOREM Forward ==
  Spec /\ []NotReentered => ActivationMovesForward
<1>1. ASSUME IInv, IInv', [Next]_vars
      PROVE  \A b, c \in Batches : Serving(b) /\ Serving(c)' => b <= c
  <2>1. CASE \A b \in Batches : active'[b] = active[b]
    BY <1>1, <2>1, BoundsType DEF IInv, BaseInv, ServedInv, AtMostOneActive, Serving, Batches
  <2>2. ASSUME NEW w \in Workers, Activate(w)
        PROVE  \A b, c \in Batches : Serving(b) /\ Serving(c)' => b <= c
    <3>1. \A c \in Batches : Serving(c)' => c = job[w]
      BY <1>1, <2>2, ActivateServes DEF IInv, BaseInv, ServedInv, AtMostOneActive, Serving
    <3> QED BY <1>1, <2>2, <3>1, ActivateServes, BoundsType DEF Batches
  <2>3. CASE ClearReset \/ ClearBatches
    BY <2>3 DEF ClearReset, ClearBatches, Serving
  <2> QED BY <1>1, <2>1, <2>2, <2>3, ActiveChange DEF IInv
<1>2. IInv /\ IInv' /\ [Next]_vars
        => [\A b, c \in Batches : Serving(b) /\ Serving(c)' => b <= c]_vars
  BY <1>1
<1> QED BY <1>2, InductiveInvariant, PTL DEF Spec, ActivationMovesForward

\* The initial states refine those of ActiveDataset.
LEMMA RefinementInit == Init => Abstract!DatasetInit
BY ServedValue DEF Init, AtMostOneActive, Serving, Abstract!DatasetInit

\* Every step refines a step of ActiveDataset or leaves it unchanged.
LEMMA RefinementStep ==
  ASSUME IInv, IInv', [Next]_vars
  PROVE  [Abstract!DatasetNext]_(Abstract!datasetVars)
<1>1. CASE /\ \A b \in Batches : active'[b] = active[b]
           /\ UNCHANGED clearing
  <2>1. \A b \in Batches : Serving(b)' <=> Serving(b)
    BY <1>1 DEF IInv, BaseInv, ServedInv, ActiveInv, Serving
  <2>2. served' = served
    BY <2>1, ServedValue, ServedValueNext DEF IInv, BaseInv, ServedInv
  <2> QED BY <1>1, <2>2 DEF Abstract!datasetVars
<1>2. ASSUME NEW w \in Workers, Activate(w)
      PROVE  Abstract!Replace
  <2>1. served' = job[w] /\ job[w] \in Batches /\ UNCHANGED clearing
    BY <1>2, ActivateServes, ServedValueNext DEF IInv, BaseInv, ServedInv, Serving
  <2>2. job[w] > served
    <3>1. CASE \E c \in Batches : Serving(c)
      BY <1>2, <3>1, ActivateServes, ServedValue, BoundsType DEF IInv, BaseInv, ServedInv, Batches
    <3>2. CASE \A c \in Batches : ~Serving(c)
      BY <2>1, <3>2, ServedValue, BoundsType DEF IInv, BaseInv, ServedInv, Batches
    <3> QED BY <3>1, <3>2
  <2> QED BY <2>1, <2>2 DEF Abstract!Replace
<1>3. CASE ClearReset \/ ClearBatches
  <2>1. served' = 0
    BY <1>3, ServedValueNext DEF IInv, BaseInv, ServedInv, ClearReset, ClearBatches, Serving
  <2> QED BY <1>3, <2>1
      DEF ClearReset, ClearBatches, Abstract!DatasetNext, Abstract!BeginRemoval,
          Abstract!EndRemoval
<1> QED BY <1>1, <1>2, <1>3, ActiveChange DEF IInv, Abstract!DatasetNext

\* The ingestion protocol of the API and the worker implements ActiveDataset:
\* only clear_dataset takes the dataset away, and whatever uploads, failures,
\* retries and crashes come together it is replaced in one step, by a later one,
\* as long as the lock is not re-entered.
THEOREM Refinement ==
  Spec /\ []NotReentered => ImplementsActiveDataset
<1>1. IInv /\ IInv' /\ [Next]_vars => [Abstract!DatasetNext]_(Abstract!datasetVars)
  BY RefinementStep
<1> QED BY <1>1, RefinementInit, InductiveInvariant, PTL
        DEF Spec, ImplementsActiveDataset, Abstract!DatasetSpec

-----------------------------------------------------------------------------
(* Batches, messages and rows *)

\* The types outside the pool.
DataTypeOK ==
  /\ started \in 0..MaxBatches
  /\ status \in [Batches -> Statuses]
  /\ active \in [Batches -> BOOLEAN]
  /\ files \in [Batches -> SUBSET Files]
  /\ base \in [Batches -> 0..MaxBatches]
  /\ request \in [Batches -> Phases]
  /\ message \in [Batches -> {"none", "queued", "running", "acked", "dropped"}]
  /\ retries \in [Batches -> 0..MaxRetries]
  /\ pc \in [Workers -> PCs]
  /\ job \in [Workers -> 0..MaxBatches]
  /\ seen \in [Workers -> SUBSET Batches]
  /\ raised \in [Workers -> BOOLEAN]
  /\ canon \in SUBSET Batches
  /\ clearing \in 0..MaxClears
  /\ crashes \in 0..MaxCrashes
  /\ timeouts \in Nat
  /\ stage \in [Rebuilds -> {"none", "read", "reset", "rows", "marked", "failed"}]
  /\ target \in [Rebuilds -> 0..MaxBatches]

\* What the steps keep outside the pool.
DataState == DataTypeOK /\ RequestInv

\* What they keep of the rows.
RowsKept == OtherRowsSeen => OtherRowsSeen'

\* The invariant is what is kept of the pool and of the rest.
LEMMA InvParts == DisturbedBase <=> PoolState /\ DataState
BY DEF DisturbedBase, DisturbedTypeOK, TypeOK, PoolState, DataState, DataTypeOK

\* upload_file creates a batch that no thread and no rebuild knows.
LEMMA UploadData ==
  ASSUME DataState, NEW F \in SUBSET Files, Upload(F), UNCHANGED <<timeouts, rebuildVars>>
  PROVE  DataState' /\ RowsKept
<1> USE BoundsType DEF DataState, Upload, Batches, queueVars, threadVars, rebuildVars
<1>1. DataTypeOK'
  <2>1. started' \in 0..MaxBatches /\ files' \in [Batches -> SUBSET Files]
    BY DEF DataTypeOK
  <2>2. status' \in [Batches -> Statuses]
    BY DEF DataTypeOK, Statuses
  <2>3. request' \in [Batches -> Phases]
    BY DEF DataTypeOK, Phases
  <2> QED BY <2>1, <2>2, <2>3 DEF DataTypeOK
<1>2. RequestInv'
  <2>1. /\ started \in Nat /\ started + 1 \in Batches /\ started' = started + 1
        /\ message[started + 1] = "none" /\ request' = [request EXCEPT ![started + 1] = "UPLOADED"]
    BY DEF RequestInv, DataTypeOK
  <2> QED BY <2>1 DEF RequestInv, DataTypeOK
<1>3. RowsKept
  BY DEF RowsKept, OtherRowsSeen
<1> QED BY <1>1, <1>2, <1>3

\* So does append_files_to_active_dataset.
LEMMA AppendData ==
  ASSUME DataState, NEW F \in SUBSET Files, AppendRead(F), UNCHANGED <<timeouts, rebuildVars>>
  PROVE  DataState' /\ RowsKept
<1> USE BoundsType DEF DataState, AppendRead, Batches, queueVars, threadVars, rebuildVars
<1>1. DataTypeOK'
  <2>1. PICK a \in Batches : /\ base' = [base EXCEPT ![started + 1] = a]
                             /\ files' = [files EXCEPT ![started + 1] = files[a] \cup F]
    OBVIOUS
  <2>2. files[a] \cup F \in SUBSET Files /\ a \in 0..MaxBatches
    BY DEF DataTypeOK
  <2>3. base' \in [Batches -> 0..MaxBatches] /\ files' \in [Batches -> SUBSET Files]
    BY <2>1, <2>2 DEF DataTypeOK
  <2>4. started' \in 0..MaxBatches /\ request' \in [Batches -> Phases]
    BY DEF DataTypeOK, Phases
  <2> QED BY <2>3, <2>4 DEF DataTypeOK
<1>2. RequestInv'
  BY SMTT(30) DEF RequestInv, DataTypeOK
<1>3. RowsKept
  BY DEF RowsKept, OtherRowsSeen
<1> QED BY <1>1, <1>2, <1>3

\* The statuses a request writes one after the other.
LEMMA FollowingDomain ==
  ASSUME NEW r \in DOMAIN Following
  PROVE  /\ r \notin {"none", "done"}
         /\ Following[r] \in Statuses \cap Phases
         /\ Following[r] # "none"
BY DEF Following, Statuses, Phases

\* The later writes of a request: the batch is not active while it has no
\* message, so the write of is_active in _queue_candidate changes nothing.
LEMMA RequestData ==
  ASSUME DataState, NEW b \in Batches,
         AppendInsert(b) \/ RequestStep(b) \/ ParseFails(b) \/ Send(b) \/ RequestDies(b),
         UNCHANGED <<timeouts, rebuildVars>>
  PROVE  DataState' /\ RowsKept /\ \A c \in Batches : active'[c] = active[c]
<1> USE BoundsType DEF DataState, rebuildVars
<1>1. /\ UNCHANGED <<started, files, base, retries, threadVars, clearing, canon, crashes>>
      /\ request[b] \notin {"none", "done"}
  BY FollowingDomain DEF AppendInsert, RequestStep, ParseFails, Send, RequestDies, queueVars, threadVars
<1>2. PICK s \in Statuses, q \in Phases, m \in {"none", "queued"} :
        /\ status' = [status EXCEPT ![b] = s] \/ status' = status
        /\ request' = [request EXCEPT ![b] = q] /\ q # "none"
        /\ message' = [message EXCEPT ![b] = m]
        /\ q # "done" => m = "none"
  <2>1. message = [message EXCEPT ![b] = "none"]
    BY <1>1 DEF RequestInv, DataTypeOK
  <2>2. CASE AppendInsert(b) \/ ParseFails(b) \/ RequestDies(b)
    BY <2>1, <2>2 DEF AppendInsert, ParseFails, RequestDies, queueVars, Statuses, Phases
  <2>3. CASE RequestStep(b)
    <3>1. Following[request[b]] \in Statuses \cap Phases /\ Following[request[b]] # "none"
      BY <2>3, FollowingDomain DEF RequestStep
    <3>2. /\ status' = [status EXCEPT ![b] = Following[request[b]]]
          /\ request' = [request EXCEPT ![b] = Following[request[b]]]
          /\ message' = message
      BY <2>3 DEF RequestStep, queueVars
    <3>3. message' = [message EXCEPT ![b] = "none"]
      BY <2>1, <3>2
    <3> QED BY <3>1, <3>2, <3>3
  <2>4. CASE Send(b)
    BY <2>4 DEF Send, Statuses, Phases
  <2> QED BY <2>2, <2>3, <2>4
<1>3. active' \in [Batches -> BOOLEAN] /\ \A c \in Batches : active'[c] = active[c]
  <2>1. active[b] = FALSE /\ active \in [Batches -> BOOLEAN]
    BY <1>1 DEF RequestInv, DataTypeOK
  <2>2. CASE RequestStep(b)
    BY <2>1, <2>2 DEF RequestStep
  <2>3. CASE ~RequestStep(b)
    <3>1. active' = active
      BY <2>3 DEF AppendInsert, ParseFails, Send, RequestDies
    <3> QED BY <2>1, <3>1
  <2> QED BY <2>2, <2>3
<1>4. DataTypeOK'
  BY <1>1, <1>2, <1>3 DEF DataTypeOK, threadVars
<1>5. RequestInv'
  BY <1>1, <1>2, <1>3 DEF RequestInv, DataTypeOK, threadVars, Batches
<1>6. RowsKept
  BY <1>1 DEF RowsKept, OtherRowsSeen, threadVars
<1> QED BY <1>3, <1>4, <1>5, <1>6

\* clear_dataset leaves no row and nothing active.
LEMMA ClearData ==
  ASSUME DataState, ClearReset \/ ClearBatches, UNCHANGED <<timeouts, rebuildVars>>
  PROVE  DataState' /\ RowsKept
<1> USE BoundsType DEF DataState, ClearReset, ClearBatches, queueVars, threadVars, rebuildVars
<1>1. DataTypeOK'
  <2>1. status' \in [Batches -> Statuses] /\ clearing' \in 0..MaxClears /\ canon' \in SUBSET Batches
    BY DEF DataTypeOK, Statuses
  <2>2. active' \in [Batches -> BOOLEAN]
    OBVIOUS
  <2> QED BY <2>1, <2>2 DEF DataTypeOK
<1>2. RequestInv'
  BY DEF RequestInv, DataTypeOK
<1>3. RowsKept
  BY DEF RowsKept, OtherRowsSeen
<1> QED BY <1>1, <1>2, <1>3

\* A thread takes a message.
LEMMA ReceiveData ==
  ASSUME DataState, NEW w \in Workers, NEW b \in Batches, Receive(w, b),
         UNCHANGED <<timeouts, rebuildVars>>
  PROVE  DataState' /\ RowsKept
<1> USE BoundsType DEF DataState, Receive, Goto, apiVars, rebuildVars
<1>1. PICK l \in {"closing", "locking"} : pc' = [pc EXCEPT ![w] = l]
  OBVIOUS
<1>2. DataTypeOK'
  <2>1. raised' \in [Workers -> BOOLEAN]
    BY DEF DataTypeOK
  <2>2. /\ pc' \in [Workers -> PCs] /\ job' \in [Workers -> 0..MaxBatches]
        /\ message' \in [Batches -> {"none", "queued", "running", "acked", "dropped"}]
    BY <1>1 DEF DataTypeOK, PCs, Batches
  <2> QED BY <2>1, <2>2 DEF DataTypeOK
<1>3. RequestInv'
  BY <1>1 DEF RequestInv, DataTypeOK
<1>4. RowsKept
  BY <1>1 DEF RowsKept, OtherRowsSeen, DataTypeOK
<1> QED BY <1>2, <1>3, <1>4

\* A step of a thread that neither takes nor ends a message and commits no
\* rows; it may deactivate its batch, and enters the replacement only after the
\* reset.
LEMMA MiddleData ==
  ASSUME DataState, NEW w \in Workers, NEW l \in PCs, l # "idle", pc[w] # "idle",
         pc' = [pc EXCEPT ![w] = l],
         status' \in [Batches -> Statuses], active' \in [Batches -> BOOLEAN],
         raised' \in [Workers -> BOOLEAN], seen' \in [Workers -> SUBSET Batches],
         \A b \in Batches : active'[b] => active[b],
         \A v \in Workers \ {w} : seen'[v] = seen[v],
         l \in {"building", "activating"} =>
           canon \subseteq seen'[w] \/ (pc[w] = "building" /\ seen' = seen),
         UNCHANGED <<apiVars, queueVars, job, canon, crashes, timeouts, rebuildVars>>
  PROVE  DataState' /\ RowsKept
<1> USE DEF DataState, apiVars, queueVars, rebuildVars
<1>1. DataTypeOK'
  BY DEF DataTypeOK
<1>2. \A v \in Workers : pc'[v] = "idle" <=> pc[v] = "idle"
  BY DEF DataTypeOK
<1>3. RequestInv'
  BY <1>2 DEF RequestInv
<1>4. RowsKept
  <2>1. ASSUME OtherRowsSeen, NEW v \in Workers, pc'[v] \in {"building", "activating"}
        PROVE  canon \ seen'[v] \subseteq {target[r] : r \in Rebuilds}
    <3>1. CASE v # w
      BY <2>1, <3>1 DEF OtherRowsSeen, DataTypeOK
    <3>2. CASE v = w
      BY <2>1, <3>2 DEF OtherRowsSeen, DataTypeOK
    <3> QED BY <3>1, <3>2
  <2> QED BY <2>1 DEF RowsKept, OtherRowsSeen
<1> QED BY <1>1, <1>3, <1>4

\* A thread between its message and its activation.
LEMMA ThreadData ==
  ASSUME DataState, NEW w \in Workers,
         \/ AcquireLock(w) \/ Recheck(w) \/ Reset(w) \/ StillNewest(w) \/ Overtaken(w)
         \/ ReplacementFails(w) \/ MarkSuperseded(w) \/ MarkFailed(w) \/ ReleaseLock(w),
         UNCHANGED <<timeouts, rebuildVars>>
  PROVE  DataState' /\ RowsKept
<1> USE DEF Goto
<1> DEFINE Kept == UNCHANGED <<apiVars, queueVars, job, canon, crashes, timeouts, rebuildVars>>
<1>t. /\ status \in [Batches -> Statuses] /\ active \in [Batches -> BOOLEAN] /\ canon \in SUBSET Batches
      /\ raised \in [Workers -> BOOLEAN] /\ seen \in [Workers -> SUBSET Batches]
  BY DEF DataState, DataTypeOK
<1>b. pc[w] # "idle" => job[w] \in Batches
  BY DEF DataState, RequestInv
<1>1. CASE AcquireLock(w)
  <2>1. /\ Kept /\ UNCHANGED <<status, active, raised, seen>>
        /\ pc[w] = "locking" /\ pc' = [pc EXCEPT ![w] = "checking"]
    BY <1>1 DEF AcquireLock
  <2>2. "checking" \in PCs
    BY DEF PCs
  <2> QED BY <1>t, <2>1, <2>2, MiddleData
<1>2. CASE Recheck(w)
  <2>1. PICK l \in {"failing", "unlocking", "replacing"} : pc' = [pc EXCEPT ![w] = l]
    BY <1>2 DEF Recheck
  <2>2. /\ Kept /\ UNCHANGED <<raised, seen>> /\ pc[w] = "checking"
    BY <1>2 DEF Recheck
  <2>3. status' \in [Batches -> Statuses]
    BY <1>2, <1>t, <1>b, <2>2 DEF Recheck, Statuses
  <2>4. active' = active \/ active' = [active EXCEPT ![job[w]] = FALSE]
    BY <1>2 DEF Recheck
  <2>5. active' \in [Batches -> BOOLEAN] /\ \A b \in Batches : active'[b] => active[b]
    BY <1>t, <2>4
  <2>6. l \in PCs
    BY DEF PCs
  <2> QED BY <1>t, <2>1, <2>2, <2>3, <2>5, <2>6, MiddleData
<1>3. CASE Reset(w)
  <2>1. /\ Kept /\ UNCHANGED <<status, active, raised>> /\ seen' = [seen EXCEPT ![w] = canon]
        /\ pc[w] = "replacing" /\ pc' = [pc EXCEPT ![w] = "building"]
    BY <1>3 DEF Reset, DeletedByReset
  <2>2. "building" \in PCs
    BY DEF PCs
  <2>3. /\ seen' \in [Workers -> SUBSET Batches] /\ canon \subseteq seen'[w]
        /\ \A v \in Workers \ {w} : seen'[v] = seen[v]
    BY <1>t, <2>1
  <2> QED BY <1>t, <2>1, <2>2, <2>3, MiddleData
<1>4. CASE StillNewest(w)
  <2>1. /\ Kept /\ UNCHANGED <<status, active, raised, seen>>
        /\ pc[w] = "building" /\ pc' = [pc EXCEPT ![w] = "activating"]
    BY <1>4 DEF StillNewest
  <2>2. "activating" \in PCs
    BY DEF PCs
  <2> QED BY <1>t, <2>1, <2>2, MiddleData
<1>5. CASE Overtaken(w) \/ ReplacementFails(w)
  <2>1. PICK l \in {"superseding", "failing"} : pc' = [pc EXCEPT ![w] = l]
    BY <1>5 DEF Overtaken, ReplacementFails
  <2>2. /\ Kept /\ UNCHANGED <<status, active, raised>> /\ seen' = [seen EXCEPT ![w] = {}]
        /\ pc[w] # "idle"
    BY <1>5 DEF Overtaken, ReplacementFails
  <2>3. l \in PCs /\ l # "idle" /\ l \notin {"building", "activating"}
    BY DEF PCs
  <2>4. /\ seen' \in [Workers -> SUBSET Batches]
        /\ \A v \in Workers \ {w} : seen'[v] = seen[v]
    BY <1>t, <2>2
  <2> QED BY <1>t, <2>1, <2>2, <2>3, <2>4, MiddleData
<1>6. CASE MarkSuperseded(w) \/ MarkFailed(w)
  <2>1. /\ Kept /\ UNCHANGED seen
        /\ pc[w] # "idle" /\ pc' = [pc EXCEPT ![w] = "unlocking"]
    BY <1>6 DEF MarkSuperseded, MarkFailed
  <2>2. raised' \in [Workers -> BOOLEAN]
    <3>1. raised' = raised \/ raised' = [raised EXCEPT ![w] = TRUE]
      BY <1>6 DEF MarkSuperseded, MarkFailed
    <3> QED BY <1>t, <3>1
  <2>3. status' \in [Batches -> Statuses]
    BY <1>6, <1>t, <1>b, <2>1 DEF MarkSuperseded, MarkFailed, Mark, Statuses
  <2>4. active' = active \/ active' = [active EXCEPT ![job[w]] = FALSE]
    BY <1>6 DEF MarkSuperseded, MarkFailed, Mark
  <2>5. active' \in [Batches -> BOOLEAN] /\ \A b \in Batches : active'[b] => active[b]
    BY <1>t, <2>4
  <2>6. "unlocking" \in PCs
    BY DEF PCs
  <2> QED BY <1>t, <2>1, <2>2, <2>3, <2>5, <2>6, MiddleData
<1>7. CASE ReleaseLock(w)
  <2>1. /\ Kept /\ UNCHANGED <<status, active, raised, seen>>
        /\ pc[w] = "unlocking" /\ pc' = [pc EXCEPT ![w] = "closing"]
    BY <1>7 DEF ReleaseLock
  <2>2. "closing" \in PCs
    BY DEF PCs
  <2> QED BY <1>t, <2>1, <2>2, MiddleData
<1> QED BY <1>1, <1>2, <1>3, <1>4, <1>5, <1>6, <1>7

\* With an exclusive lock a thread that replaces the dataset is alone in that.
LEMMA AloneInSection ==
  ASSUME ExclusiveLock, NEW w \in Workers, pc[w] \in {"building", "activating"},
         NEW v \in Workers, v # w
  PROVE  pc[v] \notin {"building", "activating"}
BY DEF ExclusiveLock, Section, Locked, Replacing

\* The activating commit: with an exclusive lock no other thread is in its
\* replacement.
LEMMA ActivateData ==
  ASSUME DataState, NEW w \in Workers, Activate(w), UNCHANGED <<timeouts, rebuildVars>>
  PROVE  /\ DataState' /\ (ExclusiveLock => RowsKept)
         /\ job[w] \in canon'
         /\ OtherRowsSeen => canon' \ {job[w]} \subseteq {target[r] : r \in Rebuilds}
<1> USE DEF DataState, Goto, apiVars, queueVars, rebuildVars
<1>1. /\ pc[w] = "activating" /\ pc' = [pc EXCEPT ![w] = "unlocking"]
      /\ canon' = (canon \ seen[w]) \cup {job[w]} /\ seen' = [seen EXCEPT ![w] = {}]
      /\ job[w] \in Batches /\ message[job[w]] # "none"
  BY DEF Activate, RequestInv
<1>2. DataTypeOK'
  <2>1. /\ status' \in [Batches -> Statuses] /\ canon' \in SUBSET Batches
        /\ seen' \in [Workers -> SUBSET Batches] /\ pc' \in [Workers -> PCs]
    BY <1>1 DEF Activate, DataTypeOK, Statuses, PCs
  <2>2. active' \in [Batches -> BOOLEAN]
    BY DEF Activate, DataTypeOK
  <2> QED BY <2>1, <2>2 DEF Activate, DataTypeOK
<1>3. RequestInv'
  <2>1. \A b \in Batches : active'[b] => active[b] \/ b = job[w]
    BY DEF Activate
  <2>2. \A v \in Workers : pc'[v] = "idle" <=> pc[v] = "idle"
    BY <1>1 DEF DataTypeOK
  <2> QED BY <1>1, <2>1, <2>2 DEF Activate, RequestInv
<1>4. ExclusiveLock => RowsKept
  <2>1. ExclusiveLock => \A v \in Workers : pc'[v] \notin {"building", "activating"}
    BY <1>1, AloneInSection DEF DataTypeOK
  <2> QED BY <2>1 DEF RowsKept, OtherRowsSeen
<1> QED BY <1>1, <1>2, <1>3, <1>4 DEF OtherRowsSeen

\* Dramatiq keeps or ends a message, and never takes it back.
LEMMA AfterMessageData ==
  ASSUME DataTypeOK, NEW b \in Batches, NEW failed \in BOOLEAN, AfterMessage(b, failed)
  PROVE  /\ message' \in [Batches -> {"none", "queued", "running", "acked", "dropped"}]
         /\ retries' \in [Batches -> 0..MaxRetries]
         /\ message'[b] # "none"
         /\ \A c \in Batches \ {b} : message'[c] = message[c]
<1>1. PICK m \in {"queued", "dropped", "acked"} : message' = [message EXCEPT ![b] = m]
  BY DEF AfterMessage
<1>2. retries' \in [Batches -> 0..MaxRetries]
  BY BoundsType DEF AfterMessage, DataTypeOK
<1> QED BY <1>1, <1>2 DEF DataTypeOK

\* A thread that ends its message, with the rows as they are.
LEMMA EndData ==
  ASSUME DataState, NEW w \in Workers, pc[w] # "idle", NEW failed \in BOOLEAN,
         AfterMessage(job[w], failed), pc' = [pc EXCEPT ![w] = "idle"],
         job' = [job EXCEPT ![w] = 0], raised' \in [Workers -> BOOLEAN],
         seen' \in [Workers -> SUBSET Batches], \A v \in Workers \ {w} : seen'[v] = seen[v],
         timeouts' \in Nat,
         UNCHANGED <<apiVars, status, active, canon, crashes, rebuildVars>>
  PROVE  DataState' /\ RowsKept
<1> USE DEF DataState, apiVars, rebuildVars
<1>1. /\ job[w] \in Batches
      /\ message' \in [Batches -> {"none", "queued", "running", "acked", "dropped"}]
      /\ retries' \in [Batches -> 0..MaxRetries]
      /\ \A c \in Batches : message'[c] = "none" => message[c] = "none"
      /\ \A c \in Batches : message[c] = "none" => message'[c] = "none"
  <2>1. job[w] \in Batches /\ message[job[w]] # "none"
    BY DEF RequestInv
  <2>2. /\ message' \in [Batches -> {"none", "queued", "running", "acked", "dropped"}]
        /\ retries' \in [Batches -> 0..MaxRetries]
        /\ message'[job[w]] # "none"
        /\ \A c \in Batches \ {job[w]} : message'[c] = message[c]
    BY <2>1, AfterMessageData
  <2> QED BY <2>1, <2>2
<1>2. DataTypeOK'
  <2>1. pc' \in [Workers -> PCs] /\ job' \in [Workers -> 0..MaxBatches]
    BY BoundsType DEF DataTypeOK, PCs
  <2> QED BY <1>1, <2>1 DEF DataTypeOK
<1>3. RequestInv'
  <2>1. \A v \in Workers : \/ pc'[v] = pc[v] /\ job'[v] = job[v]
                           \/ pc'[v] = "idle" /\ job'[v] = 0
    BY DEF DataTypeOK
  <2> QED BY <1>1, <2>1 DEF RequestInv
<1>4. RowsKept
  <2>1. \A v \in Workers : pc'[v] \in {"building", "activating"} => v # w /\ pc'[v] = pc[v]
    BY DEF DataTypeOK
  <2> QED BY <2>1 DEF RowsKept, OtherRowsSeen
<1> QED BY <1>2, <1>3, <1>4

\* The actor returns or raises.
LEMMA FinishData ==
  ASSUME DataState, NEW w \in Workers, Finish(w), UNCHANGED <<timeouts, rebuildVars>>
  PROVE  DataState' /\ RowsKept
<1>1. raised[w] \in BOOLEAN /\ timeouts' \in Nat /\ seen' \in [Workers -> SUBSET Batches]
  BY DEF DataState, DataTypeOK, Finish
<1>2. raised' \in [Workers -> BOOLEAN]
  BY DEF DataState, DataTypeOK, Finish
<1>3. /\ pc[w] # "idle" /\ AfterMessage(job[w], raised[w])
      /\ pc' = [pc EXCEPT ![w] = "idle"] /\ job' = [job EXCEPT ![w] = 0] /\ seen' = seen
      /\ UNCHANGED <<apiVars, status, active, canon, crashes, rebuildVars>>
  BY DEF Finish, Goto
<1> QED BY <1>1, <1>2, <1>3, EndData

\* A process dies and its messages are delivered again.
LEMMA CrashData ==
  ASSUME DataState, NEW p \in Procs, WorkerCrash(p), UNCHANGED <<timeouts, rebuildVars>>
  PROVE  DataState' /\ RowsKept
<1> USE BoundsType DEF DataState, WorkerCrash, apiVars, rebuildVars
<1>1. \A w \in Workers : \/ pc'[w] = pc[w] /\ job'[w] = job[w] /\ seen'[w] = seen[w]
                         \/ pc'[w] = "idle" /\ job'[w] = 0
  OBVIOUS
<1>2. \A b \in Batches : message'[b] = message[b] \/ message'[b] = "queued"
  OBVIOUS
<1>3. \A b \in Batches : message[b] = "none" => message'[b] = "none"
  <2>1. \A w \in Workers : job[w] \in Batches => message[job[w]] # "none"
    BY DEF RequestInv, Batches
  <2> QED BY <2>1
<1>4. DataTypeOK'
  <2>1. raised' \in [Workers -> BOOLEAN]
    BY DEF DataTypeOK
  <2>2. /\ pc' \in [Workers -> PCs] /\ job' \in [Workers -> 0..MaxBatches]
        /\ seen' \in [Workers -> SUBSET Batches] /\ crashes' \in 0..MaxCrashes
    BY DEF DataTypeOK, PCs
  <2>3. message' \in [Batches -> {"none", "queued", "running", "acked", "dropped"}]
    BY DEF DataTypeOK
  <2> QED BY <2>1, <2>2, <2>3 DEF DataTypeOK
<1>5. RequestInv'
  BY <1>1, <1>2, <1>3 DEF RequestInv
<1>6. RowsKept
  BY <1>1 DEF RowsKept, OtherRowsSeen
<1> QED BY <1>4, <1>5, <1>6

\* A time limit: with an exclusive lock no other thread is in its replacement,
\* whatever is committed.
LEMMA TimeLimitData ==
  ASSUME DataState, NEW w \in Workers, TimeLimit(w), UNCHANGED rebuildVars
  PROVE  DataState' /\ (ExclusiveLock => RowsKept)
<1>1. /\ pc[w] \in {"building", "activating"} /\ timeouts' \in Nat
      /\ seen' = [seen EXCEPT ![w] = {}]
      /\ job[w] \in Batches /\ message[job[w]] # "none"
  <2>1. Interrupted(w)
    BY DEF TimeLimit, TimeLimitCommits, TimeLimitRollsBack
  <2>2. timeouts \in Nat
    BY DEF DataState, DataTypeOK
  <2> QED BY <2>1, <2>2 DEF Interrupted, DataState, RequestInv
<1>2. seen' \in [Workers -> SUBSET Batches] /\ \A v \in Workers \ {w} : seen'[v] = seen[v]
  BY <1>1 DEF DataState, DataTypeOK
<1>3. CASE TimeLimitRollsBack(w)
  <2>1. raised' \in [Workers -> BOOLEAN]
    BY <1>3 DEF TimeLimitRollsBack, DataState, DataTypeOK
  <2>2. /\ AfterMessage(job[w], TRUE) /\ pc' = [pc EXCEPT ![w] = "idle"]
        /\ job' = [job EXCEPT ![w] = 0] /\ pc[w] # "idle"
        /\ UNCHANGED <<apiVars, status, active, canon, crashes, rebuildVars>>
    BY <1>1, <1>3 DEF TimeLimitRollsBack, Goto
  <2> QED BY <1>1, <1>2, <2>1, <2>2, EndData
<1>4. CASE TimeLimitCommits(w)
  <2> USE DEF DataState, apiVars, queueVars, rebuildVars
  <2>1. /\ pc' = [pc EXCEPT ![w] = "closing"] /\ raised' = [raised EXCEPT ![w] = TRUE]
        /\ UNCHANGED <<apiVars, queueVars, job, crashes>>
    BY <1>4 DEF TimeLimitCommits, Goto
  <2>2. /\ canon' \in SUBSET Batches /\ status' \in [Batches -> Statuses]
        /\ active' \in [Batches -> BOOLEAN]
        /\ \A b \in Batches : active'[b] => active[b] \/ b = job[w]
    <3>1. CASE UNCHANGED <<status, active>>
      <4>1. canon' \in SUBSET Batches
        BY <1>1, <1>4 DEF TimeLimitCommits, DataTypeOK
      <4> QED BY <3>1, <4>1 DEF DataTypeOK
    <3>2. CASE ~UNCHANGED <<status, active>>
      <4>1. PICK promoted \in BOOLEAN : Retired(job[w], promoted)
        BY <1>4, <3>2 DEF TimeLimitCommits
      <4>2. canon' \in SUBSET Batches
        BY <1>1, <1>4 DEF TimeLimitCommits, DataTypeOK
      <4>3. status' \in [Batches -> Statuses]
        BY <1>1, <4>1 DEF Retired, DataTypeOK, Statuses
      <4>4. active' \in [Batches -> BOOLEAN] /\ \A b \in Batches : active'[b] => active[b] \/ b = job[w]
        BY <4>1 DEF Retired, DataTypeOK
      <4> QED BY <4>2, <4>3, <4>4
    <3> QED BY <3>1, <3>2
  <2>3. raised' \in [Workers -> BOOLEAN]
    BY <2>1 DEF DataTypeOK
  <2>4. DataTypeOK'
    BY <1>1, <1>2, <2>1, <2>2, <2>3 DEF DataTypeOK, PCs
  <2>5. RequestInv'
    <3>1. \A v \in Workers : pc'[v] = "idle" <=> pc[v] = "idle"
      BY <1>1, <2>1 DEF DataTypeOK
    <3> QED BY <1>1, <2>1, <2>2, <3>1 DEF RequestInv
  <2>6. ExclusiveLock => RowsKept
    <3>1. ExclusiveLock => \A v \in Workers : pc'[v] \notin {"building", "activating"}
      BY <1>1, <2>1, AloneInSection DEF DataTypeOK
    <3> QED BY <3>1 DEF RowsKept, OtherRowsSeen
  <2> QED BY <2>4, <2>5, <2>6
<1> QED BY <1>3, <1>4 DEF TimeLimit

\* The rebuilds of the API add only the rows of their target.
LEMMA RebuildData ==
  ASSUME DataState, NEW r \in Rebuilds, Rebuild(r), UNCHANGED timeouts
  PROVE  DataState' /\ RowsKept
<1> USE DEF DataState, apiVars, queueVars, threadVars, rebuildVars
<1>1. CASE RebuildRead(r)
  <2>1. PICK a \in Batches : active[a] /\ target' = [target EXCEPT ![r] = a]
    BY <1>1 DEF RebuildRead
  <2>2. stage' = [stage EXCEPT ![r] = "read"] /\ stage[r] = "none" /\ target[r] = 0 /\ UNCHANGED vars
    BY <1>1 DEF RebuildRead, RequestInv
  <2>3. message[a] # "none"
    BY <2>1 DEF RequestInv
  <2>4. DataTypeOK'
    BY <2>1, <2>2, BoundsType DEF DataTypeOK, vars, Batches
  <2>5. RequestInv'
    BY <2>1, <2>2, <2>3 DEF RequestInv, vars, DataTypeOK
  <2>6. RowsKept
    <3>1. 0 \notin canon
      BY DEF DataTypeOK, Batches
    <3>2. {target[q] : q \in Rebuilds} \ {0} \subseteq {target'[q] : q \in Rebuilds}
      BY <2>1, <2>2 DEF DataTypeOK
    <3> QED BY <2>2, <3>1, <3>2 DEF RowsKept, OtherRowsSeen, vars
  <2> QED BY <2>4, <2>5, <2>6
<1>2. CASE RebuildReset(r)
  <2>1. /\ stage' = [stage EXCEPT ![r] = "reset"] /\ stage[r] = "read" /\ canon' = {}
        /\ UNCHANGED <<target, apiVars, status, active, queueVars, threadVars, crashes>>
    BY <1>2 DEF RebuildReset, DeletedByReset
  <2>2. DataTypeOK'
    BY <2>1 DEF DataTypeOK
  <2>3. RequestInv'
    BY <2>1 DEF RequestInv, DataTypeOK
  <2>4. RowsKept
    BY <2>1 DEF RowsKept, OtherRowsSeen
  <2> QED BY <2>2, <2>3, <2>4
<1>3. CASE RebuildRows(r) \/ RebuildMark(r)
  <2>1. PICK l \in {"rows", "marked"} : stage' = [stage EXCEPT ![r] = l]
    BY <1>3 DEF RebuildRows, RebuildMark
  <2>2. /\ stage[r] \in {"reset", "rows"} /\ target[r] \in Batches /\ message[target[r]] # "none"
        /\ status' = [status EXCEPT ![target[r]] = "COMMITTED"]
        /\ UNCHANGED <<target, apiVars, queueVars, threadVars, crashes>>
    BY <1>3 DEF RebuildRows, RebuildMark, RequestInv
  <2>3. canon' \subseteq canon \cup {target[r]}
    BY <1>3 DEF RebuildRows, RebuildMark
  <2>4. active' \in [Batches -> BOOLEAN] /\ \A b \in Batches : active'[b] => active[b] \/ b = target[r]
    BY <1>3 DEF RebuildRows, RebuildMark, DataTypeOK
  <2>5. DataTypeOK'
    BY <2>1, <2>2, <2>3, <2>4 DEF DataTypeOK, Statuses
  <2>6. RequestInv'
    BY <2>1, <2>2, <2>4 DEF RequestInv, DataTypeOK
  <2>7. RowsKept
    BY <2>2, <2>3 DEF RowsKept, OtherRowsSeen
  <2> QED BY <2>5, <2>6, <2>7
<1>4. CASE RebuildFails(r)
  <2>1. stage' = [stage EXCEPT ![r] = "failed"] /\ stage[r] # "none" /\ UNCHANGED <<vars, target>>
    BY <1>4 DEF RebuildFails
  <2>2. DataTypeOK'
    BY <2>1 DEF DataTypeOK, vars
  <2>3. RequestInv'
    BY <2>1 DEF RequestInv, vars, DataTypeOK
  <2>4. RowsKept
    BY <2>1 DEF RowsKept, OtherRowsSeen, vars
  <2> QED BY <2>2, <2>3, <2>4
<1> QED BY <1>1, <1>2, <1>3, <1>4 DEF Rebuild

-----------------------------------------------------------------------------
(* The theorems *)

\* Nothing happens.
LEMMA QuietData ==
  ASSUME DataState, UNCHANGED disturbedVars
  PROVE  DataState' /\ RowsKept
<1> USE DEF DataState, disturbedVars, vars, rebuildVars
<1>1. DataTypeOK'
  BY DEF DataTypeOK
<1>2. RequestInv'
  BY DEF RequestInv
<1>3. RowsKept
  BY DEF RowsKept, OtherRowsSeen
<1> QED BY <1>1, <1>2, <1>3

\* Every step keeps batches, messages and rows in order.
LEMMA DataStep ==
  ASSUME DataState, [DisturbedNext]_disturbedVars
  PROVE  DataState' /\ (ExclusiveLock => RowsKept)
<1>1. CASE UNCHANGED disturbedVars
  BY <1>1, QuietData
<1>2. CASE ApiNext /\ UNCHANGED <<timeouts, rebuildVars>>
  BY <1>2, UploadData, AppendData, RequestData, ClearData DEF ApiNext
<1>3. CASE (\E w \in Workers : WorkerStep(w)) /\ UNCHANGED <<timeouts, rebuildVars>>
  <2>1. PICK w \in Workers : WorkerStep(w)
    BY <1>3
  <2>2. ASSUME NEW b \in Batches, Receive(w, b)
        PROVE  DataState' /\ RowsKept
    BY <1>3, <2>2, ReceiveData
  <2> QED BY <1>3, <2>1, <2>2, ThreadData, ActivateData, FinishData DEF WorkerStep
<1>4. CASE (\E p \in Procs : WorkerCrash(p)) /\ UNCHANGED <<timeouts, rebuildVars>>
  BY <1>4, CrashData
<1>5. CASE \E w \in Workers : TimeLimit(w) /\ UNCHANGED rebuildVars
  BY <1>5, TimeLimitData
<1>6. CASE \E r \in Rebuilds : Rebuild(r) /\ UNCHANGED timeouts
  BY <1>6, RebuildData
<1> QED BY <1>1, <1>2, <1>3, <1>4, <1>5, <1>6 DEF DisturbedNext, Next

\* The invariant holds at the start.
LEMMA DisturbedInitInv == DisturbedInit => DisturbedInv
<1> SUFFICES ASSUME DisturbedInit PROVE DisturbedInv
  OBVIOUS
<1> USE BoundsType DEF DisturbedInit, Init, PoolInit, RebuildInit
<1>1. DisturbedTypeOK
  BY DEF DisturbedTypeOK, TypeOK, PoolTypeOK, Statuses, Phases, PCs
<1>2. ConnInv
  BY ConnFacts DEF ConnInv, InTransaction
<1>3. ExclusiveLock
  BY DEF ExclusiveLock, Section, Locked, Replacing
<1>4. RequestInv /\ OtherRowsSeen
  BY DEF RequestInv, OtherRowsSeen
<1> QED BY <1>1, <1>2, <1>3, <1>4 DEF DisturbedInv, DisturbedBase

\* Every step keeps types, messages and connections, and the lock keeps one
\* thread in its section as long as it is not re-entered.
LEMMA DisturbedStep ==
  ASSUME DisturbedBase, [DisturbedNext]_disturbedVars
  PROVE  /\ DisturbedBase'
         /\ DisturbedInv /\ NotReentered /\ NotReentered' => DisturbedInv'
<1>1. PoolState /\ DataState /\ pc \in [Workers -> PCs]
  BY InvParts DEF DataState, DataTypeOK
<1>2. PoolState' /\ DataState' /\ (ExclusiveLock => RowsKept)
  BY <1>1, DisturbedPoolStep, DataStep
<1>3. DisturbedBase'
  BY <1>2 DEF DisturbedBase, DisturbedTypeOK, TypeOK, PoolState, DataState, DataTypeOK
<1>4. ExclusiveLock /\ NotReentered /\ NotReentered' => ExclusiveLock'
  BY <1>1, DisturbedPoolStep, ExclusiveKept
<1> QED BY <1>2, <1>3, <1>4 DEF DisturbedInv, RowsKept

\* However time limits, rebuilds and crashes fall, and however many threads share
\* a pool, types, connections and messages are kept.
LEMMA DisturbedBaseInvariant == DisturbedSpec => []DisturbedBase
<1>1. DisturbedInit => DisturbedBase
  BY DisturbedInitInv DEF DisturbedInv
<1>2. DisturbedBase /\ [DisturbedNext]_disturbedVars => DisturbedBase'
  BY DisturbedStep
<1> QED BY <1>1, <1>2, PTL DEF DisturbedSpec

\* The inductive invariant holds however time limits, rebuilds and crashes fall,
\* in every behaviour in which the lock of process_ingestion_analytics_task is
\* never re-entered.
THEOREM DisturbedInvariant == DisturbedSpec /\ []NotReentered => []DisturbedInv
<1>1. DisturbedInv /\ NotReentered /\ NotReentered' /\ [DisturbedNext]_disturbedVars => DisturbedInv'
  BY DisturbedStep DEF DisturbedInv
<1> QED BY <1>1, DisturbedInitInv, PTL DEF DisturbedSpec

\* The advisory lock still serializes the replacements when time limits
\* invalidate connections in the middle of them (main.py: "one
\* tenant-serialized operation"), as long as it is not re-entered.
THEOREM DisturbedSerialization == DisturbedSpec /\ []NotReentered => []SerializedReplacement
<1>1. DisturbedInv => SerializedReplacement
  BY DEF DisturbedInv, ExclusiveLock, SerializedReplacement, Section, Locked, Replacing
<1> QED BY <1>1, DisturbedInvariant, PTL

\* Only the activating commit goes from "activating" to "unlocking".
LEMMA OnlyActivate ==
  ASSUME DisturbedBase, [DisturbedNext]_disturbedVars, NEW w \in Workers,
         pc[w] = "activating", pc'[w] = "unlocking"
  PROVE  Activate(w) /\ UNCHANGED <<timeouts, rebuildVars>>
<1>1. pc \in [Workers -> PCs]
  BY DEF DisturbedBase, DisturbedTypeOK, TypeOK
<1>2. pc' # pc
  OBVIOUS
<1>3. ~ UNCHANGED disturbedVars /\ ~ApiNext /\ ~ \E r \in Rebuilds : Rebuild(r)
  BY <1>2
  DEF disturbedVars, vars, ApiNext, Upload, AppendRead, AppendInsert, RequestStep, ParseFails, Send,
      RequestDies, ClearReset, ClearBatches, threadVars, Rebuild, RebuildRead, RebuildReset,
      RebuildRows, RebuildMark, RebuildFails
<1>4. ~ \E p \in Procs : WorkerCrash(p)
  BY DEF WorkerCrash
<1>5. \A v \in Workers : ~TimeLimit(v)
  BY <1>1 DEF TimeLimit, TimeLimitCommits, TimeLimitRollsBack, Goto
<1>6. ASSUME NEW v \in Workers, WorkerStep(v)
      PROVE  Activate(w)
  <2>1. PICK l \in PCs : pc' = [pc EXCEPT ![v] = l]
    BY <1>6
    DEF WorkerStep, Receive, AcquireLock, Recheck, Reset, StillNewest, Overtaken, Activate,
        ReplacementFails, MarkSuperseded, MarkFailed, ReleaseLock, Finish, Goto, PCs
  <2>2. v = w
    BY <1>1, <2>1
  <2> QED BY <1>1, <1>6, <2>2
      DEF WorkerStep, Receive, AcquireLock, Recheck, Reset, StillNewest, Overtaken,
          ReplacementFails, MarkSuperseded, MarkFailed, ReleaseLock, Finish, Goto
<1> QED BY <1>3, <1>4, <1>5, <1>6 DEF DisturbedNext, Next

\* An activation shows all of its batch and, beyond it, only what a rebuild
\* committed meanwhile: rows that an interrupted replacement left are deleted
\* by the reset of the next one (main.py, the replacement transaction), as long as
\* the lock is not re-entered.
THEOREM Repairs == DisturbedSpec /\ []NotReentered => ActivationRepairs
<1>1. ASSUME DisturbedInv, [DisturbedNext]_disturbedVars, NEW w \in Workers,
             pc[w] = "activating", pc'[w] = "unlocking"
      PROVE  /\ job[w] \in canon'
             /\ canon' \ {job[w]} \subseteq {target[r] : r \in Rebuilds}
  <2>1. Activate(w) /\ UNCHANGED <<timeouts, rebuildVars>>
    BY <1>1, OnlyActivate DEF DisturbedInv
  <2> QED BY <1>1, <2>1, ActivateData, InvParts DEF DisturbedInv
<1>2. DisturbedInv /\ [DisturbedNext]_disturbedVars
        => [\A w \in Workers :
              pc[w] = "activating" /\ pc'[w] = "unlocking" =>
                /\ job[w] \in canon'
                /\ canon' \ {job[w]} \subseteq {target[r] : r \in Rebuilds}]_disturbedVars
  BY <1>1
<1> QED BY <1>2, DisturbedInvariant, PTL DEF DisturbedSpec, ActivationRepairs

\* A batch that stays active and committed is not hidden.
LEMMA ShownStays ==
  ASSUME NEW b \in Batches, NEW c \in Batches, Serving(b)', IsActiveDataset(c)'
  PROVE  b <= c
BY DEF IsActiveDataset

\* The commit of a replacement hides a served batch only behind a newer one:
\* when the thread got that far, and when a time limit stopped it before.
LEMMA CommitShows ==
  ASSUME NEW n \in Batches, NEW b \in Batches, NEW c \in Batches, NEW promoted \in BOOLEAN,
         IsActiveDataset(b), IsActiveDataset(c)',
         status' = [x \in Batches |-> IF x = n /\ promoted THEN "COMMITTED"
                                      ELSE IF Retires(n, x) THEN "SUPERSEDED" ELSE status[x]],
         active' = [x \in Batches |-> IF x = n THEN promoted ELSE active[x] /\ ~Retires(n, x)]
  PROVE  b <= c
<1> USE BoundsType DEF Batches
<1>0. Serving(b) /\ Serving(c)'
  BY DEF IsActiveDataset
<1>1. CASE b > n
  <2>1. ~Retires(n, b)
    BY <1>1 DEF Retires
  <2>2. Serving(b)'
    BY <1>0, <1>1, <2>1 DEF Serving
  <2> QED BY <2>2, ShownStays
<1>2. CASE b <= n /\ promoted
  <2>1. Serving(n)'
    BY <1>2 DEF Serving
  <2>2. n <= c
    BY <2>1, ShownStays
  <2> QED BY <1>2, <2>2
<1>3. CASE b <= n /\ ~promoted
  <2>1. c # n
    BY <1>0, <1>3 DEF Serving
  <2>2. active'[c] /\ status'[c] = "COMMITTED"
    BY <1>0 DEF Serving
  <2>3. ~Retires(n, c)
    BY <2>1, <2>2
  <2>4. status[c] = "COMMITTED"
    BY <2>1, <2>2, <2>3
  <2>5. ~(c < n)
    BY <2>3, <2>4 DEF Retires, Exists
  <2> QED BY <1>3, <2>1, <2>5
<1> QED BY <1>1, <1>2, <1>3

\* What a step may do to the batch that is shown.
LEMMA ShownStep ==
  ASSUME DisturbedBase, [DisturbedNext]_disturbedVars,
         NEW b \in Batches, NEW c \in Batches,
         IsActiveDataset(b), IsActiveDataset(c)', c < b
  PROVE  \E w \in Workers : job[w] = b /\ pc[w] \in {"checking", "superseding", "failing"}
                            /\ pc'[w] # pc[w]
<1>a. Serving(b) /\ active[b] /\ status[b] = "COMMITTED" /\ Serving(c)' /\ ~(b <= c)
  BY BoundsType DEF IsActiveDataset, Serving, Batches
<1>b. DataTypeOK /\ RequestInv
  BY InvParts DEF DataState
<1>c. ~Serving(b)'
  BY <1>a, ShownStays
<1>d. ~UNCHANGED <<status, active>>
  BY <1>a, <1>c DEF Serving
<1>1. CASE UNCHANGED disturbedVars
  BY <1>1, <1>d DEF disturbedVars, vars
<1>2. CASE ApiNext
  <2>1. ASSUME NEW x \in Batches, request[x] \notin {"done"}
        PROVE  x # b
    BY <1>a, <1>b, <2>1 DEF RequestInv
  <2>2. ASSUME NEW F \in SUBSET Files, Upload(F)
        PROVE  FALSE
    <3>1. started + 1 \in Batches /\ request[started + 1] = "none"
      BY <1>b, <2>2, BoundsType DEF Upload, RequestInv, DataTypeOK, Batches
    <3>2. active'[b] = active[b] /\ status'[b] = status[b]
      BY <1>b, <2>1, <2>2, <3>1 DEF Upload, DataTypeOK
    <3> QED BY <1>a, <1>c, <3>2 DEF Serving
  <2>3. ASSUME NEW x \in Batches, AppendInsert(x) \/ RequestStep(x) \/ ParseFails(x)
        PROVE  FALSE
    <3>1. x # b
      BY <2>1, <2>3, FollowingDomain DEF AppendInsert, RequestStep, ParseFails
    <3>2. active'[b] = active[b] /\ status'[b] = status[b]
      BY <1>b, <2>3, <3>1 DEF AppendInsert, RequestStep, ParseFails, DataTypeOK
    <3> QED BY <1>a, <1>c, <3>2 DEF Serving
  <2>4. CASE ClearReset \/ ClearBatches
    BY <1>a, <2>4 DEF ClearReset, ClearBatches, Serving
  <2> QED BY <1>2, <1>d, <2>2, <2>3, <2>4 DEF ApiNext, AppendRead, Send, RequestDies
<1>3. ASSUME NEW w \in Workers, WorkerStep(w)
      PROVE  job[w] = b /\ pc[w] \in {"checking", "superseding", "failing"} /\ pc'[w] # pc[w]
  <2>1. CASE Activate(w)
    <3>1. job[w] \in Batches
      BY <1>b, <2>1 DEF Activate, RequestInv
    <3>2. /\ status' = [x \in Batches |-> IF x = job[w] /\ TRUE THEN "COMMITTED"
                                          ELSE IF Retires(job[w], x) THEN "SUPERSEDED" ELSE status[x]]
          /\ active' = [x \in Batches |-> IF x = job[w] THEN TRUE ELSE active[x] /\ ~Retires(job[w], x)]
      BY <2>1 DEF Activate
    <3> QED BY <1>a, <3>1, <3>2, CommitShows
  <2>2. CASE Recheck(w) \/ MarkSuperseded(w) \/ MarkFailed(w)
    <3>1. pc[w] \in {"checking", "superseding", "failing"}
      BY <2>2 DEF Recheck, MarkSuperseded, MarkFailed
    <3>2. pc'[w] # pc[w]
      BY <1>b, <2>2 DEF Recheck, MarkSuperseded, MarkFailed, Goto, DataTypeOK
    <3>3. ASSUME job[w] # b
          PROVE  active'[b] = active[b] /\ status'[b] = status[b]
      BY <1>b, <2>2, <3>3 DEF Recheck, MarkSuperseded, MarkFailed, Mark, DataTypeOK
    <3> QED BY <1>a, <1>c, <3>1, <3>2, <3>3 DEF Serving
  <2> QED BY <1>3, <1>d, <2>1, <2>2
      DEF WorkerStep, Receive, AcquireLock, Reset, StillNewest, Overtaken, ReplacementFails,
          ReleaseLock, Finish
<1>4. CASE \E p \in Procs : WorkerCrash(p)
  BY <1>4, <1>d DEF WorkerCrash
<1>5. ASSUME NEW w \in Workers, TimeLimit(w)
      PROVE  FALSE
  <2>1. TimeLimitCommits(w)
    BY <1>5, <1>d DEF TimeLimit, TimeLimitRollsBack
  <2>2. PICK promoted \in BOOLEAN : Retired(job[w], promoted)
    BY <1>d, <2>1 DEF TimeLimitCommits
  <2>3. job[w] \in Batches
    BY <1>b, <2>1 DEF TimeLimitCommits, Interrupted, RequestInv
  <2> QED BY <1>a, <2>2, <2>3, CommitShows DEF Retired
<1>6. ASSUME NEW r \in Rebuilds, Rebuild(r)
      PROVE  FALSE
  <2>1. RebuildRows(r) \/ RebuildMark(r)
    BY <1>6, <1>d DEF Rebuild, RebuildRead, RebuildReset, RebuildFails, vars
  <2>2. active'[b] /\ status'[b] = "COMMITTED"
    BY <1>a, <1>b, <2>1 DEF RebuildRows, RebuildMark, DataTypeOK
  <2> QED BY <1>c, <2>2 DEF Serving
<1> QED BY <1>1, <1>2, <1>3, <1>4, <1>5, <1>6 DEF DisturbedNext, Next

\* A rebuild that reactivates an older batch never hides the newer one: what
\* /ingestion/active shows goes back only where a worker withdraws the very
\* batch that is shown, with any number of processes and threads and also where
\* the lock is re-entered.
THEOREM ShownForward == DisturbedSpec => ShownMovesForward
<1>1. DisturbedBase /\ [DisturbedNext]_disturbedVars
        => [\A b, c \in Batches :
              IsActiveDataset(b) /\ IsActiveDataset(c)' /\ c < b =>
                \E w \in Workers : job[w] = b /\ pc[w] \in {"checking", "superseding", "failing"}
                                   /\ pc'[w] # pc[w]]_disturbedVars
  BY ShownStep
<1> QED BY <1>1, DisturbedBaseInvariant, PTL DEF DisturbedSpec, ShownMovesForward

-----------------------------------------------------------------------------
(* Processes with one thread: the connection of a process *)

\* Every process has one worker thread (dramatiq --threads 1).
OneThreadPerProcess ==
  \A v, w \in Workers : ProcOf[v] = ProcOf[w] => v = w

\* The connection a process opened last.
LastConn(w) == <<ProcOf[w], opened[ProcOf[w]]>>

\* It is held by the thread, idle in the pool, or gone; a thread in the locked
\* section still has it.
Connected(w) ==
  /\ conn[w] \in {NoConn, LastConn(w)}
  /\ idle[ProcOf[w]] \in {<<>>, <<LastConn(w)>>}
  /\ conn[w] # NoConn => idle[ProcOf[w]] = <<>>
  /\ conn[w] # NoConn \/ idle[ProcOf[w]] # <<>> => opened[ProcOf[w]] > 0
  /\ pc[w] \in InTransaction => conn[w] # NoConn
  /\ pc[w] \in {"idle", "replacing", "superseding", "failing"} => conn[w] = NoConn
  /\ pc[w] \in Locked /\ conn[w] = NoConn => idle[ProcOf[w]] = <<LastConn(w)>>

LastConnInv == \A w \in Workers : Connected(w)

\* It holds the lock exactly in the locked section.
LastLockInv ==
  /\ \A w \in Workers : pc[w] \in Locked => lockOwner = LastConn(w)
  /\ lockOwner # NoConn => \E w \in Workers : pc[w] \in Locked /\ lockOwner = LastConn(w)
  /\ lockDepth = IF lockOwner = NoConn THEN 0 ELSE 1

\* What a step of thread w leaves alone: the other threads and their pools.
Others(w) ==
  \A v \in Workers \ {w} :
    /\ pc'[v] = pc[v] /\ conn'[v] = conn[v]
    /\ idle'[ProcOf[v]] = idle[ProcOf[v]] /\ opened'[ProcOf[v]] = opened[ProcOf[v]]

PoolStepOK(w) ==
  /\ idle' \in [Procs -> Seq(Conns)] /\ opened' \in [Procs -> Nat]
  /\ conn' \in [Workers -> Conns \cup {NoConn}]
  /\ \A v \in Workers \ {w} :
       /\ conn'[v] = conn[v]
       /\ idle'[ProcOf[v]] = idle[ProcOf[v]] /\ opened'[ProcOf[v]] = opened[ProcOf[v]]

\* No two threads share a process.
LEMMA Processes ==
  ASSUME OneThreadPerProcess, NEW w \in Workers
  PROVE  /\ ProcOf[w] \in Procs
         /\ \A v \in Workers \ {w} : ProcOf[v] \in Procs /\ ProcOf[v] # ProcOf[w]
BY ProcOfType DEF OneThreadPerProcess

\* In the locked section the connection that is not held is idle in the pool.
LEMMA IdleNotEmpty ==
  ASSUME NEW w \in Workers, Connected(w), pc[w] \in Locked, conn[w] = NoConn
  PROVE  idle[ProcOf[w]] = <<LastConn(w)>> /\ idle[ProcOf[w]] # <<>>
<1>1. <<LastConn(w)>> # <<>>
  OBVIOUS
<1>2. idle[ProcOf[w]] = <<LastConn(w)>>
  BY DEF Connected
<1> QED BY <1>1, <1>2

\* A checkout takes the idle connection or opens one (the QueuePool of
\* core/database.py).
LEMMA CheckoutLast ==
  ASSUME OneThreadPerProcess, PoolTypeOK, NEW w \in Workers, Connected(w), Checkout(w)
  PROVE  /\ PoolStepOK(w)
         /\ conn[w] = NoConn
         /\ conn'[w] = <<ProcOf[w], opened'[ProcOf[w]]>>
         /\ idle'[ProcOf[w]] = <<>>
         /\ opened'[ProcOf[w]] > 0
         /\ idle[ProcOf[w]] # <<>> => opened'[ProcOf[w]] = opened[ProcOf[w]]
<1> DEFINE p == ProcOf[w]
<1>1. p \in Procs /\ \A v \in Workers \ {w} : ProcOf[v] \in Procs /\ ProcOf[v] # p
  BY Processes
<1>2. CASE idle[p] = <<>>
  <2>1. opened[p] + 1 \in Nat \ {0} /\ <<p, opened[p] + 1>> \in Conns
    BY <1>1 DEF PoolTypeOK, Conns
  <2>2. /\ conn' = [conn EXCEPT ![w] = <<p, opened[p] + 1>>]
        /\ opened' = [opened EXCEPT ![p] = opened[p] + 1]
        /\ idle' = [idle EXCEPT ![p] = <<>>]
    BY <1>2, <1>1 DEF Checkout, NextConn, PoolTypeOK
  <2>3. PoolStepOK(w)
    BY <1>1, <2>1, <2>2 DEF PoolTypeOK, PoolStepOK
  <2>4. conn[w] = NoConn /\ conn'[w] = <<p, opened[p] + 1>> /\ opened'[p] = opened[p] + 1
    BY <1>1, <2>2 DEF PoolTypeOK, Checkout
  <2> QED BY <1>1, <1>2, <2>1, <2>2, <2>3, <2>4 DEF PoolTypeOK
<1>3. CASE idle[p] # <<>>
  <2>1. idle[p] = <<LastConn(w)>> /\ opened[p] > 0 /\ LastConn(w) \in Conns
    BY <1>1, <1>3 DEF Connected, LastConn, Conns, PoolTypeOK
  <2>2. Head(idle[p]) = LastConn(w) /\ Tail(idle[p]) = <<>>
    BY <2>1
  <2>3. /\ conn' = [conn EXCEPT ![w] = LastConn(w)]
        /\ opened' = [opened EXCEPT ![p] = opened[p]]
        /\ idle' = [idle EXCEPT ![p] = <<>>]
    BY <1>3, <1>1, <2>2 DEF Checkout, NextConn, PoolTypeOK
  <2>4. PoolStepOK(w)
    BY <1>1, <2>1, <2>3 DEF PoolTypeOK, PoolStepOK
  <2>5. conn[w] = NoConn /\ conn'[w] = LastConn(w) /\ opened'[p] = opened[p]
    BY <1>1, <2>3 DEF PoolTypeOK, Checkout
  <2> QED BY <1>1, <1>3, <2>1, <2>3, <2>4, <2>5 DEF PoolTypeOK, LastConn
<1> QED BY <1>2, <1>3

\* commit(), rollback() and close() leave the connection idle in the pool.
LEMMA ReleaseLast ==
  ASSUME OneThreadPerProcess, PoolTypeOK, NEW w \in Workers, Connected(w), Release(w)
  PROVE  /\ PoolStepOK(w)
         /\ conn'[w] = NoConn
         /\ idle'[ProcOf[w]] = <<LastConn(w)>>
         /\ opened' = opened /\ opened[ProcOf[w]] > 0
<1>1. /\ ProcOf[w] \in Procs
      /\ \A v \in Workers \ {w} : ProcOf[v] \in Procs /\ ProcOf[v] # ProcOf[w]
  BY Processes
<1>2. /\ conn[w] = LastConn(w) /\ idle[ProcOf[w]] = <<>>
      /\ opened[ProcOf[w]] > 0 /\ LastConn(w) \in Conns
  BY <1>1 DEF Release, Connected, PoolTypeOK, LastConn, Conns
<1>3. idle' = [idle EXCEPT ![ProcOf[w]] = <<LastConn(w)>>]
  BY <1>2 DEF Release
<1> QED BY <1>1, <1>2, <1>3 DEF Release, PoolTypeOK, PoolStepOK

\* So does a transaction of its own.
LEMMA OneShotLast ==
  ASSUME OneThreadPerProcess, PoolTypeOK, NEW w \in Workers, Connected(w), OneShot(w)
  PROVE  /\ PoolStepOK(w)
         /\ conn'[w] = NoConn
         /\ idle'[ProcOf[w]] = <<<<ProcOf[w], opened'[ProcOf[w]]>>>>
         /\ opened'[ProcOf[w]] > 0
         /\ idle[ProcOf[w]] # <<>> => opened'[ProcOf[w]] = opened[ProcOf[w]]
<1> DEFINE p == ProcOf[w]
<1>1. p \in Procs /\ \A v \in Workers \ {w} : ProcOf[v] \in Procs /\ ProcOf[v] # p
  BY Processes
<1>2. CASE idle[p] = <<>>
  <2>1. opened[p] + 1 \in Nat \ {0} /\ <<p, opened[p] + 1>> \in Conns
    BY <1>1 DEF PoolTypeOK, Conns
  <2>2. /\ opened' = [opened EXCEPT ![p] = opened[p] + 1]
        /\ idle' = [idle EXCEPT ![p] = <<<<p, opened[p] + 1>>>>]
        /\ conn' = conn /\ conn[w] = NoConn
    BY <1>2, <1>1 DEF OneShot, NextConn, PoolTypeOK
  <2> QED BY <1>1, <1>2, <2>1, <2>2 DEF PoolTypeOK, PoolStepOK
<1>3. CASE idle[p] # <<>>
  <2>1. idle[p] = <<LastConn(w)>> /\ opened[p] > 0 /\ LastConn(w) \in Conns
    BY <1>1, <1>3 DEF Connected, LastConn, Conns, PoolTypeOK
  <2>2. Append(Tail(idle[p]), Head(idle[p])) = <<LastConn(w)>>
    BY <2>1
  <2>3. /\ opened' = [opened EXCEPT ![p] = opened[p]]
        /\ idle' = [idle EXCEPT ![p] = <<LastConn(w)>>]
        /\ conn' = conn /\ conn[w] = NoConn
    BY <1>3, <1>1, <2>2 DEF OneShot, PoolTypeOK
  <2> QED BY <1>1, <1>3, <2>1, <2>3 DEF PoolTypeOK, PoolStepOK, LastConn
<1> QED BY <1>2, <1>3

-----------------------------------------------------------------------------
(* Processes with one thread: the advisory lock *)

\* Only one thread is in the locked section.
LEMMA LastExclusion ==
  ASSUME OneThreadPerProcess, LastLockInv, NEW v \in Workers, NEW w \in Workers,
         pc[v] \in Locked, pc[w] \in Locked
  PROVE  v = w
BY DEF LastLockInv, LastConn, OneThreadPerProcess

\* A step that leaves the lock alone and neither enters nor leaves the section.
LEMMA LastLockKept ==
  ASSUME LastLockInv, NEW w \in Workers, Others(w),
         lockOwner' = lockOwner, lockDepth' = lockDepth,
         pc'[w] \in Locked <=> pc[w] \in Locked,
         pc[w] \in Locked => opened'[ProcOf[w]] = opened[ProcOf[w]]
  PROVE  LastLockInv'
<1>1. \A v \in Workers : /\ pc'[v] \in Locked <=> pc[v] \in Locked
                         /\ pc[v] \in Locked => LastConn(v)' = LastConn(v)
  BY DEF Others, LastConn
<1> QED BY <1>1 DEF LastLockInv

\* The unlock of a thread in the section frees the lock.
LEMMA LockFreed ==
  ASSUME OneThreadPerProcess, LastLockInv, NEW w \in Workers, Others(w),
         pc[w] \in Locked, pc'[w] \notin Locked, lockOwner' = NoConn, lockDepth' = 0
  PROVE  LastLockInv'
<1>1. \A v \in Workers : pc'[v] \notin Locked
  BY LastExclusion DEF Others
<1> QED BY <1>1 DEF LastLockInv

\* A step of one thread keeps the connections of the others.
LEMMA ConnKept ==
  ASSUME LastConnInv, NEW w \in Workers, Others(w), Connected(w)'
  PROVE  LastConnInv'
<1>1. ASSUME NEW v \in Workers \ {w}
      PROVE  Connected(v)'
  BY <1>1 DEF LastConnInv, Others, Connected, LastConn
<1> QED BY <1>1 DEF LastConnInv

-----------------------------------------------------------------------------
(* Processes with one thread: the steps *)

\* What the steps keep of pool and lock.
LockState == PoolTypeOK /\ LastConnInv /\ LastLockInv

\* A step of w that takes a connection.
LEMMA CheckoutLastKeeps ==
  ASSUME OneThreadPerProcess, LockState, pc \in [Workers -> PCs], NEW w \in Workers, NEW l,
         Checkout(w), pc' = [pc EXCEPT ![w] = l], l \in InTransaction \cup {"unlocking"},
         l \in Locked <=> pc[w] \in Locked, lockOwner' = lockOwner, lockDepth' = lockDepth
  PROVE  LockState'
<1> USE DEF LockState
<1>1. Connected(w)
  BY DEF LastConnInv
<1>2. /\ PoolStepOK(w)
      /\ conn[w] = NoConn
      /\ conn'[w] = <<ProcOf[w], opened'[ProcOf[w]]>>
      /\ idle'[ProcOf[w]] = <<>>
      /\ opened'[ProcOf[w]] > 0
      /\ idle[ProcOf[w]] # <<>> => opened'[ProcOf[w]] = opened[ProcOf[w]]
  BY <1>1, CheckoutLast
<1>3. Others(w) /\ pc'[w] = l
  BY <1>2 DEF Others, PoolStepOK
<1>4. Connected(w)'
  BY <1>2, <1>3 DEF Connected, LastConn, InTransaction, Locked, Replacing, NoConn
<1>5. pc[w] \in Locked => opened'[ProcOf[w]] = opened[ProcOf[w]]
  BY <1>1, <1>2, IdleNotEmpty
<1>6. PoolTypeOK'
  BY <1>2 DEF PoolStepOK, PoolTypeOK
<1> QED BY <1>3, <1>4, <1>5, <1>6, ConnKept, LastLockKept

\* A step of w that gives its connection back.
LEMMA ReleaseLastKeeps ==
  ASSUME OneThreadPerProcess, LockState, pc \in [Workers -> PCs], NEW w \in Workers, NEW l,
         Release(w), pc' = [pc EXCEPT ![w] = l], l \notin InTransaction,
         l \in Locked <=> pc[w] \in Locked, lockOwner' = lockOwner, lockDepth' = lockDepth
  PROVE  LockState'
<1> USE DEF LockState
<1>1. Connected(w)
  BY DEF LastConnInv
<1>2. /\ PoolStepOK(w)
      /\ conn'[w] = NoConn
      /\ idle'[ProcOf[w]] = <<LastConn(w)>>
      /\ opened' = opened /\ opened[ProcOf[w]] > 0
  BY <1>1, ReleaseLast
<1>3. Others(w) /\ pc'[w] = l
  BY <1>2 DEF Others, PoolStepOK
<1>4. Connected(w)'
  BY <1>2, <1>3 DEF Connected, LastConn, InTransaction, Locked, Replacing
<1>5. PoolTypeOK'
  BY <1>2 DEF PoolStepOK, PoolTypeOK
<1> QED BY <1>2, <1>3, <1>4, <1>5, ConnKept, LastLockKept

\* An exception handler that marks the batch in a transaction of its own.
LEMMA OneShotLastKeeps ==
  ASSUME OneThreadPerProcess, LockState, pc \in [Workers -> PCs], NEW w \in Workers,
         OneShot(w), pc' = [pc EXCEPT ![w] = "unlocking"],
         pc[w] \in Locked, lockOwner' = lockOwner, lockDepth' = lockDepth
  PROVE  LockState'
<1> USE DEF LockState
<1>1. Connected(w)
  BY DEF LastConnInv
<1>2. /\ PoolStepOK(w)
      /\ conn'[w] = NoConn
      /\ idle'[ProcOf[w]] = <<<<ProcOf[w], opened'[ProcOf[w]]>>>>
      /\ opened'[ProcOf[w]] > 0
      /\ idle[ProcOf[w]] # <<>> => opened'[ProcOf[w]] = opened[ProcOf[w]]
  BY <1>1, OneShotLast
<1>3. Others(w) /\ pc'[w] = "unlocking"
  BY <1>2 DEF Others, PoolStepOK
<1>4. Connected(w)'
  BY <1>2, <1>3 DEF Connected, LastConn, InTransaction, Locked, Replacing
<1>5. opened'[ProcOf[w]] = opened[ProcOf[w]] /\ pc'[w] \in Locked
  <2>1. conn[w] = NoConn => idle[ProcOf[w]] # <<>>
    BY <1>1, IdleNotEmpty
  <2> QED BY <1>2, <1>3, <2>1 DEF OneShot, Locked
<1>6. PoolTypeOK'
  BY <1>2 DEF PoolStepOK, PoolTypeOK
<1> QED BY <1>3, <1>4, <1>5, <1>6, ConnKept, LastLockKept

\* A step of w within its transaction, outside the pool.
LEMMA HoldLastKeeps ==
  ASSUME LockState, pc \in [Workers -> PCs], NEW w \in Workers, NEW l,
         pc' = [pc EXCEPT ![w] = l], pc[w] \in InTransaction, l \in InTransaction,
         l \in Locked <=> pc[w] \in Locked, UNCHANGED poolVars
  PROVE  LockState'
<1> USE DEF LockState, poolVars
<1>1. Others(w) /\ pc'[w] = l
  BY DEF Others
<1>2. Connected(w)'
  BY <1>1 DEF LastConnInv, Connected, LastConn, InTransaction
<1>3. PoolTypeOK'
  BY DEF PoolTypeOK
<1> QED BY <1>1, <1>2, <1>3, ConnKept, LastLockKept

\* pg_advisory_lock returns only when no other thread is in the section.
LEMMA AcquireLockLastKeeps ==
  ASSUME OneThreadPerProcess, LockState, pc \in [Workers -> PCs], NEW w \in Workers, AcquireLock(w)
  PROVE  LockState'
<1> USE DEF LockState
<1>1. Connected(w) /\ conn[w] = LastConn(w) /\ conn[w] # NoConn
  BY DEF LastConnInv, Connected, AcquireLock, InTransaction
<1>2. Others(w) /\ pc'[w] = "checking" /\ pc[w] = "locking" /\ LastConn(w)' = LastConn(w)
  BY DEF Others, AcquireLock, Goto, LastConn
<1>3. \A v \in Workers : pc[v] \notin Locked
  <2> SUFFICES ASSUME NEW v \in Workers, pc[v] \in Locked PROVE FALSE
    OBVIOUS
  <2>1. lockOwner = LastConn(v) /\ lockOwner # NoConn
    BY DEF LastLockInv, LastConn, NoConn
  <2>2. LastConn(v) = LastConn(w)
    BY <1>1, <2>1 DEF AcquireLock, Lock, Grantable
  <2>3. v = w
    BY <2>2 DEF LastConn, OneThreadPerProcess
  <2> QED BY <1>2, <2>3 DEF Locked, Replacing
<1>4. lockOwner = NoConn /\ lockDepth = 0
  BY <1>3 DEF LastLockInv
<1>5. lockOwner' = LastConn(w) /\ lockDepth' = 1
  BY <1>1, <1>4 DEF AcquireLock, Lock
<1>6. LastLockInv'
  <2>1. \A v \in Workers : pc'[v] \in Locked <=> v = w
    BY <1>2, <1>3 DEF Others, Locked
  <2> QED BY <1>1, <1>2, <1>5, <2>1 DEF LastLockInv
<1>7. Connected(w)'
  BY <1>1, <1>2 DEF Connected, LastConn, AcquireLock, InTransaction, Locked, Replacing
<1>8. PoolTypeOK'
  <2>1. lockOwner' \in Conns \cup {NoConn} /\ lockDepth' \in Nat
    BY <1>1, <1>5 DEF PoolTypeOK
  <2> QED BY <2>1 DEF PoolTypeOK, AcquireLock
<1> QED BY <1>2, <1>6, <1>7, <1>8, ConnKept

\* The session's connection at the unlock is the one that was locked.
LEMMA ReleaseLockLastKeeps ==
  ASSUME OneThreadPerProcess, LockState, pc \in [Workers -> PCs], NEW w \in Workers, ReleaseLock(w)
  PROVE  LockState'
<1> USE DEF LockState
<1>1. Connected(w) /\ pc[w] = "unlocking" /\ pc[w] \in Locked
  BY DEF LastConnInv, ReleaseLock, Locked
<1>2. lockOwner = LastConn(w) /\ lockOwner # NoConn /\ lockDepth = 1
  BY <1>1 DEF LastLockInv, LastConn, NoConn
<1>3. CASE conn[w] # NoConn
  <2>1. lockOwner' = NoConn /\ lockDepth' = 0 /\ UNCHANGED <<idle, opened, conn>>
    BY <1>1, <1>2, <1>3 DEF ReleaseLock, UnlockOn, Connected
  <2>2. Others(w) /\ pc'[w] = "closing"
    BY <2>1 DEF Others, ReleaseLock, Goto
  <2>3. Connected(w)'
    BY <1>1, <1>3, <2>1, <2>2 DEF Connected, LastConn, Locked, Replacing
  <2>4. PoolTypeOK'
    BY <2>1 DEF PoolTypeOK
  <2> QED BY <1>1, <2>1, <2>2, <2>3, <2>4, ConnKept, LockFreed DEF Locked, Replacing
<1>4. CASE conn[w] = NoConn
  <2>1. Checkout(w)
    BY <1>4 DEF ReleaseLock
  <2>2. /\ PoolStepOK(w)
        /\ conn'[w] = <<ProcOf[w], opened'[ProcOf[w]]>>
        /\ idle'[ProcOf[w]] = <<>>
        /\ opened'[ProcOf[w]] > 0
    BY <1>1, <2>1, CheckoutLast
  <2>3. Others(w) /\ pc'[w] = "closing"
    BY <2>2 DEF Others, PoolStepOK, ReleaseLock, Goto
  <2>4. Connected(w)'
    BY <2>2, <2>3 DEF Connected, LastConn, Locked, Replacing, NoConn
  <2>5. NextConn(ProcOf[w]) = LastConn(w)
    <3>1. idle[ProcOf[w]] = <<LastConn(w)>> /\ idle[ProcOf[w]] # <<>>
      BY <1>1, <1>4, IdleNotEmpty
    <3> QED BY <3>1 DEF NextConn
  <2>6. lockOwner' = NoConn /\ lockDepth' = 0
    BY <1>2, <1>4, <2>5 DEF ReleaseLock, UnlockOn
  <2>7. PoolTypeOK'
    BY <2>2, <2>6 DEF PoolStepOK, PoolTypeOK
  <2> QED BY <1>1, <2>3, <2>4, <2>6, <2>7, ConnKept, LockFreed DEF Locked, Replacing
<1> QED BY <1>3, <1>4

\* A time limit frees the lock too: by the unlock of the finally clause, or
\* because the server drops it with the invalidated connection.
LEMMA TimeLimitLastKeeps ==
  ASSUME OneThreadPerProcess, LockState, pc \in [Workers -> PCs], NEW w \in Workers, TimeLimit(w)
  PROVE  LockState'
<1> USE DEF LockState
<1>1. Connected(w) /\ pc[w] \in {"building", "activating"} /\ pc[w] \in Locked
  BY DEF LastConnInv, TimeLimit, TimeLimitCommits, TimeLimitRollsBack, Interrupted, Locked, Replacing
<1>2. conn[w] = LastConn(w) /\ lockOwner = conn[w] /\ lockOwner # NoConn /\ lockDepth = 1
  BY <1>1 DEF LastLockInv, Connected, InTransaction
<1>3. lockOwner' = NoConn /\ lockDepth' = 0
  <2>1. CASE TimeLimitCommits(w)
    <3>1. UnlockOn(conn[w])
      BY <2>1 DEF TimeLimitCommits
    <3> QED BY <1>2, <3>1 DEF UnlockOn
  <2>2. CASE TimeLimitRollsBack(w)
    BY <1>2, <2>2 DEF TimeLimitRollsBack
  <2> QED BY <2>1, <2>2 DEF TimeLimit
<1>4. /\ idle' = idle /\ opened' = opened
      /\ \/ conn' = conn /\ pc' = [pc EXCEPT ![w] = "closing"]
         \/ conn' = [conn EXCEPT ![w] = NoConn] /\ pc' = [pc EXCEPT ![w] = "idle"]
  BY DEF TimeLimit, TimeLimitCommits, TimeLimitRollsBack, Goto
<1>5. Others(w) /\ pc'[w] \in {"closing", "idle"}
  BY <1>4 DEF Others, PoolTypeOK
<1>6. Connected(w)'
  <2>1. \/ conn'[w] = conn[w] /\ pc'[w] = "closing"
        \/ conn'[w] = NoConn /\ pc'[w] = "idle"
    BY <1>4 DEF PoolTypeOK
  <2>2. idle'[ProcOf[w]] = <<>> /\ LastConn(w)' = LastConn(w) /\ opened[ProcOf[w]] > 0
    BY <1>1, <1>2, <1>4 DEF Connected, LastConn
  <2> QED BY <1>2, <1>4, <2>1, <2>2 DEF Connected, InTransaction, Locked, Replacing
<1>7. PoolTypeOK'
  BY <1>3, <1>4 DEF PoolTypeOK
<1> QED BY <1>1, <1>3, <1>5, <1>6, <1>7, ConnKept, LockFreed DEF Locked, Replacing

\* The death of a process closes its connection and drops its lock.
LEMMA CrashLastKeeps ==
  ASSUME OneThreadPerProcess, LockState, NEW p \in Procs, WorkerCrash(p)
  PROVE  LockState'
<1> USE DEF LockState
<1>1. /\ idle' = [idle EXCEPT ![p] = <<>>]
      /\ opened' = [opened EXCEPT ![p] = 0]
      /\ conn' = [w \in Workers |-> IF ProcOf[w] = p THEN NoConn ELSE conn[w]]
      /\ pc' = [w \in Workers |-> IF ProcOf[w] = p THEN "idle" ELSE pc[w]]
  BY DEF WorkerCrash, PoolCrash
<1>2. \A w \in Workers : ProcOf[w] \in Procs
  BY ProcOfType
<1>3. ASSUME NEW w \in Workers, ProcOf[w] # p
      PROVE  /\ pc'[w] = pc[w] /\ conn'[w] = conn[w] /\ LastConn(w)' = LastConn(w)
             /\ idle'[ProcOf[w]] = idle[ProcOf[w]] /\ opened'[ProcOf[w]] = opened[ProcOf[w]]
  BY <1>1, <1>2, <1>3 DEF PoolTypeOK, LastConn
<1>4. ASSUME NEW w \in Workers, ProcOf[w] = p
      PROVE  pc'[w] = "idle" /\ conn'[w] = NoConn /\ idle'[ProcOf[w]] = <<>>
  BY <1>1, <1>2, <1>4 DEF PoolTypeOK
<1>5. LastConnInv'
  <2>1. ASSUME NEW w \in Workers, ProcOf[w] # p
        PROVE  Connected(w)'
    <3>1. Connected(w)
      BY DEF LastConnInv
    <3> QED BY <1>3, <2>1, <3>1 DEF Connected
  <2>2. ASSUME NEW w \in Workers, ProcOf[w] = p
        PROVE  Connected(w)'
    BY <1>4, <2>2 DEF Connected, InTransaction, Locked, Replacing
  <2> QED BY <2>1, <2>2 DEF LastConnInv
<1>6. PoolTypeOK'
  BY <1>1 DEF PoolTypeOK, WorkerCrash, PoolCrash
<1>7. \A w \in Workers : pc'[w] \in Locked => pc[w] \in Locked /\ ProcOf[w] # p
  BY <1>3, <1>4 DEF Locked, Replacing
<1>8. CASE lockOwner # NoConn
  <2>1. PICK v \in Workers : pc[v] \in Locked /\ lockOwner = LastConn(v)
    BY <1>8 DEF LastLockInv
  <2>2. \A w \in Workers : pc'[w] \in Locked => w = v
    BY <1>7, <2>1, LastExclusion
  <2>3. lockOwner[1] = ProcOf[v]
    BY <2>1 DEF LastConn
  <2>4. CASE ProcOf[v] = p
    <3>1. lockOwner' = NoConn /\ lockDepth' = 0
      BY <1>8, <2>3, <2>4 DEF WorkerCrash, PoolCrash
    <3> QED BY <1>5, <1>6, <1>7, <2>2, <2>4, <3>1 DEF LastLockInv
  <2>5. CASE ProcOf[v] # p
    <3>1. lockOwner' = lockOwner /\ lockDepth' = lockDepth
      BY <2>3, <2>5 DEF WorkerCrash, PoolCrash
    <3>2. pc'[v] \in Locked /\ LastConn(v)' = LastConn(v)
      BY <1>3, <2>1, <2>5
    <3> QED BY <1>5, <1>6, <1>8, <2>1, <2>2, <3>1, <3>2 DEF LastLockInv
  <2> QED BY <2>4, <2>5
<1>9. CASE lockOwner = NoConn
  <2>1. lockOwner' = NoConn /\ lockDepth' = lockDepth
    BY <1>9 DEF WorkerCrash, PoolCrash
  <2>2. \A w \in Workers : pc[w] \notin Locked
    BY <1>9 DEF LastLockInv, LastConn, NoConn
  <2> QED BY <1>5, <1>6, <1>7, <1>9, <2>1, <2>2 DEF LastLockInv
<1> QED BY <1>8, <1>9

\* Every step of a thread keeps its pool and the lock in order.
LEMMA WorkerKeeps ==
  ASSUME OneThreadPerProcess, LockState, pc \in [Workers -> PCs], NEW w \in Workers, WorkerStep(w)
  PROVE  LockState'
<1> USE DEF Goto, Locked, Replacing, InTransaction
<1>1. ASSUME NEW b \in Batches, Receive(w, b) PROVE LockState'
  <2> DEFINE l == IF ~Exists(b) \/ Settled(b) THEN "closing" ELSE "locking"
  <2>1. /\ Checkout(w) /\ pc' = [pc EXCEPT ![w] = l] /\ pc[w] = "idle"
        /\ lockOwner' = lockOwner /\ lockDepth' = lockDepth
    BY <1>1 DEF Receive
  <2>2. l \in {"closing", "locking"}
    OBVIOUS
  <2> HIDE DEF l
  <2>3. l \in InTransaction \cup {"unlocking"} /\ (l \in Locked <=> pc[w] \in Locked)
    BY <2>1, <2>2
  <2> QED BY <2>1, <2>3, CheckoutLastKeeps
<1>2. CASE AcquireLock(w)
  BY <1>2, AcquireLockLastKeeps
<1>3. CASE Recheck(w)
  <2>1. PICK l \in {"failing", "unlocking", "replacing"} : pc' = [pc EXCEPT ![w] = l]
    BY <1>3 DEF Recheck
  <2>2. /\ Release(w) /\ pc[w] = "checking"
        /\ lockOwner' = lockOwner /\ lockDepth' = lockDepth
    BY <1>3 DEF Recheck
  <2>3. l \notin InTransaction /\ (l \in Locked <=> pc[w] \in Locked)
    BY <2>2
  <2> QED BY <2>1, <2>2, <2>3, ReleaseLastKeeps
<1>4. CASE Reset(w)
  <2>1. /\ Checkout(w) /\ pc' = [pc EXCEPT ![w] = "building"] /\ pc[w] = "replacing"
        /\ lockOwner' = lockOwner /\ lockDepth' = lockDepth
    BY <1>4 DEF Reset
  <2>2. "building" \in InTransaction \cup {"unlocking"} /\ ("building" \in Locked <=> pc[w] \in Locked)
    BY <2>1
  <2> QED BY <2>1, <2>2, CheckoutLastKeeps
<1>5. CASE StillNewest(w)
  <2>1. pc' = [pc EXCEPT ![w] = "activating"] /\ pc[w] = "building" /\ UNCHANGED poolVars
    BY <1>5 DEF StillNewest
  <2>2. /\ pc[w] \in InTransaction /\ "activating" \in InTransaction
        /\ "activating" \in Locked <=> pc[w] \in Locked
    BY <2>1
  <2> QED BY <2>1, <2>2, HoldLastKeeps
<1>6. CASE Overtaken(w)
  <2>1. PICK l \in {"superseding", "failing"} : pc' = [pc EXCEPT ![w] = l]
    BY <1>6 DEF Overtaken
  <2>2. /\ Release(w) /\ pc[w] = "building"
        /\ lockOwner' = lockOwner /\ lockDepth' = lockDepth
    BY <1>6 DEF Overtaken
  <2>3. l \notin InTransaction /\ (l \in Locked <=> pc[w] \in Locked)
    BY <2>2
  <2> QED BY <2>1, <2>2, <2>3, ReleaseLastKeeps
<1>7. CASE Activate(w) \/ ReplacementFails(w)
  <2>1. PICK l \in {"unlocking", "failing"} : pc' = [pc EXCEPT ![w] = l]
    BY <1>7 DEF Activate, ReplacementFails
  <2>2. /\ Release(w) /\ pc[w] \in {"building", "activating"}
        /\ lockOwner' = lockOwner /\ lockDepth' = lockDepth
    BY <1>7 DEF Activate, ReplacementFails
  <2>3. l \notin InTransaction /\ (l \in Locked <=> pc[w] \in Locked)
    BY <2>2
  <2> QED BY <2>1, <2>2, <2>3, ReleaseLastKeeps
<1>8. CASE MarkSuperseded(w) \/ MarkFailed(w)
  <2>1. /\ pc' = [pc EXCEPT ![w] = "unlocking"] /\ pc[w] \in Locked
        /\ lockOwner' = lockOwner /\ lockDepth' = lockDepth
        /\ OneShot(w) \/ Checkout(w)
    BY <1>8 DEF MarkSuperseded, MarkFailed, Mark
  <2>2. "unlocking" \in InTransaction \cup {"unlocking"} /\ ("unlocking" \in Locked <=> pc[w] \in Locked)
    BY <2>1
  <2> QED BY <2>1, <2>2, OneShotLastKeeps, CheckoutLastKeeps
<1>9. CASE ReleaseLock(w)
  BY <1>9, ReleaseLockLastKeeps
<1>10. CASE Finish(w)
  <2>1. /\ Release(w) /\ pc' = [pc EXCEPT ![w] = "idle"] /\ pc[w] = "closing"
        /\ lockOwner' = lockOwner /\ lockDepth' = lockDepth
    BY <1>10 DEF Finish
  <2>2. "idle" \notin InTransaction /\ ("idle" \in Locked <=> pc[w] \in Locked)
    BY <2>1
  <2> QED BY <2>1, <2>2, ReleaseLastKeeps
<1> QED BY <1>1, <1>2, <1>3, <1>4, <1>5, <1>6, <1>7, <1>8, <1>9, <1>10 DEF WorkerStep

\* API requests, rebuilds and stuttering do not touch pools and lock.
LEMMA QuietLastKeeps ==
  ASSUME LockState, UNCHANGED <<pc, poolVars>>
  PROVE  LockState'
<1> USE DEF LockState, poolVars
<1>1. PoolTypeOK'
  BY DEF PoolTypeOK
<1>2. LastConnInv'
  BY DEF LastConnInv, Connected, LastConn
<1>3. LastLockInv'
  BY DEF LastLockInv, LastConn
<1> QED BY <1>1, <1>2, <1>3

\* Pools and lock stay in order in every step.
LEMMA LockStep ==
  ASSUME OneThreadPerProcess, LockState, pc \in [Workers -> PCs], [Next]_vars
  PROVE  LockState'
<1>1. CASE UNCHANGED <<pc, poolVars>>
  BY <1>1, QuietLastKeeps
<1>2. CASE ApiNext
  BY <1>2, <1>1
  DEF ApiNext, Upload, AppendRead, AppendInsert, RequestStep, ParseFails, Send, RequestDies,
      ClearReset, ClearBatches, threadVars
<1>3. CASE \E w \in Workers : WorkerStep(w)
  BY <1>3, WorkerKeeps
<1>4. CASE \E p \in Procs : WorkerCrash(p)
  BY <1>4, CrashLastKeeps
<1>5. CASE UNCHANGED vars
  BY <1>5, <1>1 DEF vars, poolVars
<1> QED BY <1>2, <1>3, <1>4, <1>5 DEF Next

\* The same with time limits and rebuilds.
LEMMA DisturbedLockStep ==
  ASSUME OneThreadPerProcess, LockState, pc \in [Workers -> PCs], [DisturbedNext]_disturbedVars
  PROVE  LockState'
<1>1. CASE UNCHANGED <<pc, poolVars>>
  BY <1>1, QuietLastKeeps
<1>2. CASE Next
  BY <1>2, LockStep
<1>3. CASE \E w \in Workers : TimeLimit(w)
  BY <1>3, TimeLimitLastKeeps
<1>4. CASE \E r \in Rebuilds : Rebuild(r)
  BY <1>4, <1>1
  DEF Rebuild, RebuildRead, RebuildReset, RebuildRows, RebuildMark, RebuildFails, threadVars, vars, poolVars
<1>5. CASE UNCHANGED disturbedVars
  BY <1>5, <1>1 DEF disturbedVars, vars, poolVars
<1> QED BY <1>2, <1>3, <1>4, <1>5 DEF DisturbedNext

\* At the start the pools are empty and the lock is free.
LEMMA LockInit == Init => LockState
<1> SUFFICES ASSUME Init PROVE LockState
  OBVIOUS
<1> USE DEF Init, PoolInit
<1>1. PoolTypeOK
  BY DEF PoolTypeOK
<1>2. LastConnInv
  BY ProcOfType DEF LastConnInv, Connected, InTransaction, Locked, Replacing
<1>3. LastLockInv
  BY DEF LastLockInv, Locked, Replacing
<1> QED BY <1>1, <1>2, <1>3 DEF LockState

\* Where every worker process has one thread, its session always finds the
\* connection that holds the lock again, and the lock is never re-entered, also
\* with time limits and rebuilds: every theorem above holds of such a deployment
\* without its hypothesis (main.py, the commit right after pg_advisory_lock).
THEOREM SingleThreads ==
  ASSUME OneThreadPerProcess
  PROVE  (Spec => []NotReentered) /\ (DisturbedSpec => []NotReentered)
<1>1. LockState => NotReentered
  BY DEF LockState, LastLockInv, NotReentered
<1>2. BaseInv => pc \in [Workers -> PCs]
  BY DEF BaseInv, TypeOK
<1>3. DisturbedBase => pc \in [Workers -> PCs]
  BY DEF DisturbedBase, DisturbedTypeOK, TypeOK
<1>4. DisturbedInit => LockState
  BY LockInit DEF DisturbedInit
<1>5. LockState /\ BaseInv /\ [Next]_vars => LockState'
  BY <1>2, LockStep
<1>6. LockState /\ DisturbedBase /\ [DisturbedNext]_disturbedVars => LockState'
  BY <1>3, DisturbedLockStep
<1>7. Spec => []NotReentered
  BY <1>1, <1>5, LockInit, BaseInvariant, PTL DEF Spec
<1>8. DisturbedSpec => []NotReentered
  BY <1>1, <1>4, <1>6, DisturbedBaseInvariant, PTL DEF DisturbedSpec
<1> QED BY <1>7, <1>8
=============================================================================
