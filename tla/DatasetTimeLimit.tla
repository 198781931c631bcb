--------------------------- MODULE DatasetTimeLimit ---------------------------
(***************************************************************************)
(* DatasetActivation with Dramatiq's time limit.  The actor sets none, so  *)
(* the broker's default of ten minutes applies: TimeLimitExceeded is       *)
(* raised in the worker thread wherever it is.  It is not an Exception, so *)
(* neither handler of process_ingestion_analytics_task catches it, and     *)
(* nothing rolls the replacement transaction back before the finally       *)
(* clause unlocks and calls commit, which is the real commit again.        *)
(***************************************************************************)
EXTENDS DatasetActivation

CONSTANT MaxTimeouts    \* bound: time limits exceeded in a behaviour

ASSUME MaxTimeoutsType == MaxTimeouts \in Nat

VARIABLE timeouts       \* how many were exceeded

\* The thread is interrupted in the middle of the replacement.
Interrupted(w) ==
  /\ timeouts < MaxTimeouts
  /\ timeouts' = timeouts + 1
  /\ pc[w] \in {"building", "activating"}
  /\ seen' = [seen EXCEPT ![w] = {}]

\* The older batches after the UPDATE of the activation, and the candidate
\* after its two assignments if the thread got that far.
Retired(b, promoted) ==
  /\ status' = [c \in Batches |->
                  IF c = b /\ promoted THEN "COMMITTED"
                  ELSE IF Retires(b, c) THEN "SUPERSEDED" ELSE status[c]]
  /\ active' = [c \in Batches |->
                  IF c = b THEN promoted ELSE active[c] /\ ~Retires(b, c)]

\* In Python code: the finally clause unlocks on the connection of the open
\* transaction and commits what is in it: the reset, perhaps rows of the
\* candidate, and after the UPDATE the end of the older batches.
TimeLimitCommits(w) ==
  LET b == job[w] IN
  /\ Interrupted(w)
  /\ UnlockOn(conn[w])
  /\ \/ /\ \E rows \in {{}, {b}} : canon' = (canon \ seen[w]) \cup rows
        /\ UNCHANGED <<status, active>>
     \/ /\ pc[w] = "activating"
        /\ canon' = (canon \ seen[w]) \cup {b}
        /\ \E promoted \in BOOLEAN : (promoted => Exists(b)) /\ Retired(b, promoted)
  /\ raised' = [raised EXCEPT ![w] = TRUE]
  /\ Goto(w, "closing")
  /\ UNCHANGED <<apiVars, queueVars, job, crashes, idle, opened, conn>>

\* Inside a database call: SQLAlchemy invalidates the connection, so its
\* transaction is rolled back and its advisory lock dropped; the unlock
\* fails and is swallowed.
TimeLimitRollsBack(w) ==
  /\ Interrupted(w)
  /\ conn' = [conn EXCEPT ![w] = NoConn]
  /\ IF lockOwner = conn[w]
       THEN lockOwner' = NoConn /\ lockDepth' = 0
       ELSE UNCHANGED <<lockOwner, lockDepth>>
  /\ AfterMessage(job[w], TRUE)
  /\ job' = [job EXCEPT ![w] = 0]
  /\ Goto(w, "idle")
  /\ UNCHANGED <<apiVars, status, active, raised, canon, crashes, idle, opened>>

TimeLimit(w) == TimeLimitCommits(w) \/ TimeLimitRollsBack(w)
=============================================================================
