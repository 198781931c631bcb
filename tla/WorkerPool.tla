----------------------------- MODULE WorkerPool -----------------------------
(***************************************************************************)
(* The Dramatiq worker threads' database sessions: the engine's connection *)
(* pool of each worker process and the PostgreSQL advisory lock            *)
(* "ingestion:<tenant>" that is taken on a connection of that pool.        *)
(*                                                                         *)
(* A SQLAlchemy Session checks a connection out when it first executes a   *)
(* statement and gives it back at commit, rollback or close.  The pool is  *)
(* the default QueuePool: first in, first out, a new connection only when  *)
(* none is idle.  An advisory lock belongs to the CONNECTION it was taken  *)
(* on, is re-entrant on that connection, and survives commit and rollback. *)
(***************************************************************************)
EXTENDS Naturals, Sequences, FiniteSets

CONSTANTS
  Workers,      \* the worker threads
  Procs,        \* the worker processes
  ProcOf        \* the process every thread runs in

ASSUME ProcOfType == ProcOf \in [Workers -> Procs]
ASSUME WorkersFinite == IsFiniteSet(Workers)

VARIABLES
  idle,         \* per process: the idle connections of its pool, oldest first
  opened,       \* per process: how many connections its pool has opened
  conn,         \* per thread: the connection its session holds, or NoConn
  lockOwner,    \* the connection that holds the advisory lock, or NoConn
  lockDepth     \* how often that connection has locked it

poolVars == <<idle, opened, conn, lockOwner, lockDepth>>

Conns == Procs \X (Nat \ {0})
NoConn == <<>>

\* The connections that process p can open.
ConnsOf(p) == {p} \X (Nat \ {0})

PoolTypeOK ==
  /\ idle \in [Procs -> Seq(Conns)]
  /\ opened \in [Procs -> Nat]
  /\ conn \in [Workers -> Conns \cup {NoConn}]
  /\ lockOwner \in Conns \cup {NoConn}
  /\ lockDepth \in Nat

PoolInit ==
  /\ idle = [p \in Procs |-> <<>>]
  /\ opened = [p \in Procs |-> 0]
  /\ conn = [w \in Workers |-> NoConn]
  /\ lockOwner = NoConn
  /\ lockDepth = 0

-----------------------------------------------------------------------------
(* Pool operations of one session *)

\* The connection the next checkout of process p returns.
NextConn(p) ==
  IF idle[p] = <<>> THEN <<p, opened[p] + 1>> ELSE Head(idle[p])

\* A session's first statement since its last commit or rollback.
Checkout(w) ==
  LET p == ProcOf[w] IN
  /\ conn[w] = NoConn
  /\ conn' = [conn EXCEPT ![w] = NextConn(p)]
  /\ opened' = [opened EXCEPT ![p] = IF idle[p] = <<>> THEN @ + 1 ELSE @]
  /\ idle' = [idle EXCEPT ![p] = IF @ = <<>> THEN @ ELSE Tail(@)]

\* commit(), rollback() and close() return the connection to the pool.
Release(w) ==
  LET p == ProcOf[w] IN
  /\ conn[w] # NoConn
  /\ conn' = [conn EXCEPT ![w] = NoConn]
  /\ idle' = [idle EXCEPT ![p] = Append(@, conn[w])]
  /\ UNCHANGED opened

\* A transaction of its own: the connection is taken and given back at once.
\* In a FIFO pool it moves from the head of the queue to its tail.
OneShot(w) ==
  LET p == ProcOf[w] IN
  /\ conn[w] = NoConn
  /\ opened' = [opened EXCEPT ![p] = IF idle[p] = <<>> THEN @ + 1 ELSE @]
  /\ idle' = [idle EXCEPT ![p] = IF @ = <<>> THEN <<NextConn(p)>>
                                 ELSE Append(Tail(@), Head(@))]
  /\ UNCHANGED conn

-----------------------------------------------------------------------------
(* The advisory lock *)

\* Mutant: the lock does not exclude.
GrantedAlways(w) == TRUE

\* pg_advisory_lock returns at once on the connection that already holds it.
Grantable(w) == lockOwner \in {NoConn, conn[w]}

Lock(w) ==
  /\ Grantable(w)
  /\ lockOwner' = conn[w]
  /\ lockDepth' = lockDepth + 1

\* pg_advisory_unlock on connection c only undoes a lock that c holds;
\* otherwise it answers false with a warning, which the caller ignores.
UnlockOn(c) ==
  IF lockOwner = c
    THEN /\ lockDepth' = lockDepth - 1
         /\ lockOwner' = IF lockDepth = 1 THEN NoConn ELSE lockOwner
    ELSE UNCHANGED <<lockOwner, lockDepth>>

\* The death of process p closes its connections; the server then drops
\* their advisory locks.
PoolCrash(p) ==
  /\ idle' = [idle EXCEPT ![p] = <<>>]
  /\ opened' = [opened EXCEPT ![p] = 0]
  /\ conn' = [w \in Workers |-> IF ProcOf[w] = p THEN NoConn ELSE conn[w]]
  /\ IF lockOwner # NoConn /\ lockOwner[1] = p
       THEN lockOwner' = NoConn /\ lockDepth' = 0
       ELSE UNCHANGED <<lockOwner, lockDepth>>
=============================================================================
