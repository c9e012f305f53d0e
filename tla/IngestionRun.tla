---------------------------- MODULE IngestionRun ----------------------------
(***************************************************************************)
(* One ingestion run and every attempt to work on it                       *)
(* (api/src/routes/ingestion.ts).                                          *)
(*                                                                         *)
(* POST /ingestion/runs writes the run's row and starts the first attempt; *)
(* POST /ingestion/runs/:id/resume starts another.  An attempt processes   *)
(* the file in chunks, one transaction each, under a session advisory lock *)
(* it takes without waiting; a chunk's objects, quarantined rows and       *)
(* counters commit together.  The counters are the checkpoint a resume     *)
(* starts from.                                                            *)
(*                                                                         *)
(* An attempt is one request and the background work it starts.  Postgres  *)
(* runs at READ COMMITTED, so every statement that another attempt's       *)
(* commit can separate from the next one is a step of its own.             *)
(***************************************************************************)
EXTENDS Integers, FiniteSets

CONSTANTS Attempts,      \* create and resume requests
          NoAttempt,     \* the lock is free
          NumRows,       \* records.length, the same for every attempt
          ChunkSize,     \* CHUNK_SIZE
          BadRows,       \* rows the validation rejects on every attempt
          EdgeTemplate   \* TRUE: the run uses an edge template

ASSUME RunAssumption ==
  /\ NumRows \in Nat
  /\ ChunkSize \in Nat \ {0}
  /\ BadRows \subseteq 1..NumRows
  /\ EdgeTemplate \in BOOLEAN
  /\ NoAttempt \notin Attempts

VARIABLES
  status,     \* ingestion_runs.status, or "absent" before the row exists
  counts,     \* records_ingested and records_quarantined
  objects,    \* <<row, attempt>>: rows committed as an object or an edge
  errors,     \* <<row, attempt>>: rows committed to ingestion_run_errors
  audits,     \* "ingestion.run" audit entries, with the attempt that wrote each
  lock,       \* the attempt that holds the advisory lock of this run
  stray,      \* a session that holds it although no attempt works in it:
              \* "none", "pooled" (back in the pool) or "lost" (leaked)
  pc,         \* where each attempt is
  cursor,     \* chunkStart of each attempt; before the loop, its startAt
  seen        \* the counters finalizeRun has read

dbVars == <<status, counts, objects, errors, audits>>
vars == <<status, counts, objects, errors, audits, lock, stray, pc, cursor, seen>>

Rows == 1..NumRows

Counts == [ingested : Nat, quarantined : Nat]

Statuses == {"absent", "running", "failed", "completed", "completed_with_errors"}

Completed == status \in {"completed", "completed_with_errors"}

Steps == {"idle", "reviving", "locking", "working", "failing", "finalizing",
          "completing", "releasing", "done"}

(* records_ingested + records_quarantined                                  *)
Checkpoint == counts.ingested + counts.quarantined

(* The attempts that are under way: requests being served and background   *)
(* work.                                                                   *)
UnderWay == {a \in Attempts : pc[a] \notin {"idle", "done"}}

Init ==
  /\ status = "absent"
  /\ counts = [ingested |-> 0, quarantined |-> 0]
  /\ objects = {}
  /\ errors = {}
  /\ audits = {}
  /\ lock = NoAttempt
  /\ stray = "none"
  /\ pc = [a \in Attempts |-> "idle"]
  /\ cursor = [a \in Attempts |-> 0]
  /\ seen = [a \in Attempts |-> [ingested |-> 0, quarantined |-> 0]]

Goto(a, step) == pc' = [pc EXCEPT ![a] = step]

-----------------------------------------------------------------------------
(* Deviations.  Each operator here is a mistake that could have been made  *)
(* in the definition it names; none of them is part of the specification.  *)
(* Putting it in that definition's place must break a property.            *)

(* ChunkEnd without Math.min.                                              *)
ChunkEndUncapped(a) == cursor[a] + ChunkSize

(* AfterSetup with an off-by-one on the last row.                          *)
AfterSetupEarly(start) == IF start + 1 >= NumRows THEN "finalizing" ELSE "locking"

(* AfterFinalize without the finally that releases the lock.               *)
AfterFinalizeNoRelease(a) == "done"

(* Counting a quarantined row as ingested too: no "continue".              *)
ChunkEffectNoContinue(a) ==
  LET rows == (cursor[a] + 1)..(IF cursor[a] + ChunkSize <= NumRows
                                THEN cursor[a] + ChunkSize ELSE NumRows)
      bad == rows \cap BadRows
  IN  /\ objects' = objects \cup ((rows \ bad) \X {a})
      /\ errors' = errors \cup (bad \X {a})
      /\ counts' = [ingested    |-> counts.ingested + Cardinality(rows),
                    quarantined |-> counts.quarantined + Cardinality(bad)]

(* AcquireLock that ignores what pg_try_advisory_lock answered.            *)
AcquireLockBlindly(a) ==
  /\ pc[a] = "locking"
  /\ lock' = a
  /\ Goto(a, "working")
  /\ UNCHANGED <<dbVars, stray, cursor, seen>>

(* ResumeRead that forgets the quarantined rows.                           *)
ResumeReadIngestedOnly(a) ==
  /\ pc[a] = "idle"
  /\ status \in {"running", "failed"}
  /\ cursor' = [cursor EXCEPT ![a] = counts.ingested]
  /\ Goto(a, IF status = "failed" THEN "reviving" ELSE "locking")
  /\ UNCHANGED <<dbVars, lock, stray, seen>>

(* ResumeRead without the check on the run's status.                       *)
ResumeReadAnyStatus(a) ==
  /\ pc[a] = "idle"
  /\ status # "absent"
  /\ cursor' = [cursor EXCEPT ![a] = Checkpoint]
  /\ Goto(a, IF status = "failed" THEN "reviving"
             ELSE IF Checkpoint >= NumRows THEN "finalizing" ELSE "locking")
  /\ UNCHANGED <<dbVars, lock, stray, seen>>

(* ChunkCommitUnanswered with the counters updated after the rows, in a    *)
(* transaction of their own that the failure prevents.                     *)
ChunkCommitCountersLater(a) ==
  /\ pc[a] = "working"
  /\ cursor[a] < NumRows
  /\ objects' = objects \cup (({cursor[a] + 1} \ BadRows) \X {a})
  /\ errors' = errors \cup (({cursor[a] + 1} \cap BadRows) \X {a})
  /\ Goto(a, "failing")
  /\ UNCHANGED <<status, counts, audits, lock, stray, cursor, seen>>

(* ChunkAborts with the result of runChunks not looked at.                 *)
ChunkAbortsUnnoticed(a) ==
  /\ pc[a] = "working"
  /\ cursor[a] < NumRows
  /\ Goto(a, "finalizing")
  /\ UNCHANGED <<dbVars, lock, stray, cursor, seen>>

(* FinalizeAborts with the status already committed: the audit entry is    *)
(* written outside the transaction.                                        *)
FinalizeAbortsHalfway(a) ==
  /\ pc[a] = "completing"
  /\ status' = "completed"
  /\ Goto(a, "releasing")
  /\ UNCHANGED <<counts, objects, errors, audits, lock, stray, cursor, seen>>

-----------------------------------------------------------------------------
(* Chunks, and where an attempt goes next                                  *)

(* The rows of the chunk that starts at the attempt's cursor.              *)
ChunkEnd(a) ==
  IF cursor[a] + ChunkSize <= NumRows THEN cursor[a] + ChunkSize ELSE NumRows

Chunk(a) == (cursor[a] + 1)..ChunkEnd(a)

(* The sets of rows a chunk may send to quarantine.  Object rows: exactly  *)
(* those validateProperties rejects.  Edge rows: those that miss a value,  *)
(* and any whose source or target matches no canonical object right now.   *)
Quarantines(rows) ==
  IF EdgeTemplate
  THEN {q \in SUBSET rows : rows \cap BadRows \subseteq q}
  ELSE {rows \cap BadRows}

(* Where a resume goes when its setup transaction has committed: with no   *)
(* row left it finalizes at once, without the lock.                        *)
AfterSetup(start) == IF start >= NumRows THEN "finalizing" ELSE "locking"

(* finalizeRun is reached with the lock held, from the background work,    *)
(* or without it, from a resume that found no row left.                    *)
AfterFinalize(a) == IF lock = a THEN "releasing" ELSE "done"

-----------------------------------------------------------------------------
(* Requests                                                                *)

(* POST /ingestion/runs: the setup transaction inserts the run; the first  *)
(* attempt starts at row 0 and goes on to take the lock.                   *)
Create(a) ==
  /\ pc[a] = "idle"
  /\ status = "absent"
  /\ status' = "running"
  /\ cursor' = [cursor EXCEPT ![a] = 0]
  /\ Goto(a, "locking")
  /\ UNCHANGED <<counts, objects, errors, audits, lock, stray, seen>>

(* POST .../resume: the setup transaction reads the run and computes       *)
(* startAt.  A failed run is set back to running by a later statement.     *)
ResumeRead(a) ==
  /\ pc[a] = "idle"
  /\ status \in {"running", "failed"}
  /\ cursor' = [cursor EXCEPT ![a] = Checkpoint]
  /\ Goto(a, IF status = "failed" THEN "reviving" ELSE AfterSetup(Checkpoint))
  /\ UNCHANGED <<dbVars, lock, stray, seen>>

(* UPDATE ingestion_runs SET status = 'running', whatever it is by now.    *)
Revive(a) ==
  /\ pc[a] = "reviving"
  /\ status' = "running"
  /\ Goto(a, AfterSetup(cursor[a]))
  /\ UNCHANGED <<counts, objects, errors, audits, lock, stray, cursor, seen>>

(* A resume is refused: the run is complete, or the file is not the        *)
(* original one.                                                           *)
ResumeRefused(a) ==
  /\ pc[a] = "idle"
  /\ status # "absent"
  /\ Goto(a, "done")
  /\ UNCHANGED <<dbVars, lock, stray, cursor, seen>>

(* pg_try_advisory_lock answers true to a session when no other session    *)
(* holds the lock.  One that holds it already takes it once more, which is *)
(* what happens when the pool hands out the connection of a stray lock.    *)
LockIsToBeHad == lock = NoAttempt /\ stray \in {"none", "pooled"}

(* tryAcquireRunLock: pg_try_advisory_lock on a connection of its own.     *)
AcquireLock(a) ==
  /\ pc[a] = "locking"
  /\ LockIsToBeHad
  /\ lock' = a
  /\ Goto(a, "working")
  /\ UNCHANGED <<dbVars, stray, cursor, seen>>

(* The query takes the lock but fails on its way back: no release follows, *)
(* so the connection stays out and its session keeps the lock.             *)
LockQueryFails(a) ==
  /\ pc[a] = "locking"
  /\ LockIsToBeHad
  /\ stray' = "lost"
  /\ Goto(a, "done")
  /\ UNCHANGED <<dbVars, lock, cursor, seen>>

(* The request fails before its background work starts: its setup rolls    *)
(* back or its COMMIT is not answered, no connection is to be had, or the  *)
(* query for the lock fails without having taken it.                       *)
RequestAborts(a) ==
  /\ pc[a] \in {"reviving", "locking"}
  /\ Goto(a, "done")
  /\ UNCHANGED <<dbVars, lock, stray, cursor, seen>>

(* Another session holds the lock: 409.                                    *)
LockBusy(a) ==
  /\ pc[a] = "locking"
  /\ lock # NoAttempt \/ stray # "none"
  /\ Goto(a, "done")
  /\ UNCHANGED <<dbVars, lock, stray, cursor, seen>>

-----------------------------------------------------------------------------
(* Background processing                                                   *)

(* The committed effect of a chunk's transaction.                          *)
ChunkEffect(a) ==
  \E q \in Quarantines(Chunk(a)) :
    /\ objects' = objects \cup ((Chunk(a) \ q) \X {a})
    /\ errors' = errors \cup (q \X {a})
    /\ counts' = [ingested    |-> counts.ingested + Cardinality(Chunk(a) \ q),
                  quarantined |-> counts.quarantined + Cardinality(q)]

CommitChunk(a) ==
  /\ pc[a] = "working"
  /\ cursor[a] < NumRows
  /\ ChunkEffect(a)
  /\ cursor' = [cursor EXCEPT ![a] = @ + ChunkSize]
  /\ UNCHANGED <<status, audits, lock, stray, pc, seen>>

(* A statement of the chunk fails and the transaction rolls back.          *)
ChunkAborts(a) ==
  /\ pc[a] = "working"
  /\ cursor[a] < NumRows
  /\ Goto(a, "failing")
  /\ UNCHANGED <<dbVars, lock, stray, cursor, seen>>

(* The transaction commits but the answer to COMMIT never arrives.         *)
ChunkCommitUnanswered(a) ==
  /\ pc[a] = "working"
  /\ cursor[a] < NumRows
  /\ ChunkEffect(a)
  /\ Goto(a, "failing")
  /\ UNCHANGED <<status, audits, lock, stray, cursor, seen>>

(* The catch block: UPDATE ingestion_runs SET status = 'failed'.           *)
MarkFailed(a) ==
  /\ pc[a] = "failing"
  /\ status' = "failed"
  /\ Goto(a, "releasing")
  /\ UNCHANGED <<counts, objects, errors, audits, lock, stray, cursor, seen>>

(* ... which may fail too; its error is swallowed.                         *)
MarkFailedAborts(a) ==
  /\ pc[a] = "failing"
  /\ Goto(a, "releasing")
  /\ UNCHANGED <<dbVars, lock, stray, cursor, seen>>

ChunksDone(a) ==
  /\ pc[a] = "working"
  /\ cursor[a] >= NumRows
  /\ Goto(a, "finalizing")
  /\ UNCHANGED <<dbVars, lock, stray, cursor, seen>>

(* finalizeRun reads the run's counters ...                                *)
FinalizeRead(a) ==
  /\ pc[a] = "finalizing"
  /\ seen' = [seen EXCEPT ![a] = counts]
  /\ Goto(a, "completing")
  /\ UNCHANGED <<dbVars, lock, stray, cursor>>

(* ... and writes the status and the audit entry from what it has read.    *)
FinalizeWrite(a) ==
  /\ pc[a] = "completing"
  /\ status' = IF seen[a].quarantined > 0 THEN "completed_with_errors" ELSE "completed"
  /\ audits' = audits \cup {<<seen[a], a>>}
  /\ Goto(a, AfterFinalize(a))
  /\ UNCHANGED <<counts, objects, errors, lock, stray, cursor, seen>>

(* The transaction of finalizeRun rolls back; the error is only logged.    *)
FinalizeAborts(a) ==
  /\ pc[a] \in {"finalizing", "completing"}
  /\ Goto(a, AfterFinalize(a))
  /\ UNCHANGED <<dbVars, lock, stray, cursor, seen>>

(* pg_advisory_unlock gives back one level of the lock, then the           *)
(* connection goes back to the pool.  A session that had taken the lock    *)
(* once more over a stray one still holds that one.                        *)
ReleaseLock(a) ==
  /\ pc[a] = "releasing"
  /\ lock' = NoAttempt
  /\ Goto(a, "done")
  /\ UNCHANGED <<dbVars, stray, cursor, seen>>

(* The unlock fails, which is only logged; the connection goes back to the *)
(* pool all the same and its session keeps the lock.                       *)
UnlockFails(a) ==
  /\ pc[a] = "releasing"
  /\ lock' = NoAttempt
  /\ stray' = "pooled"
  /\ Goto(a, "done")
  /\ UNCHANGED <<dbVars, cursor, seen>>

-----------------------------------------------------------------------------
(* The pool closes a connection nobody has used for a while, and with it   *)
(* the session and its locks.  A busy pool need never do so.               *)
PoolCloses ==
  /\ stray = "pooled"
  /\ lock = NoAttempt
  /\ stray' = "none"
  /\ UNCHANGED <<dbVars, lock, pc, cursor, seen>>

(* The API server's process dies: every attempt under way is gone, open    *)
(* transactions roll back and every session ends.                          *)
Crash ==
  /\ UnderWay # {} \/ stray # "none"
  /\ pc' = [a \in Attempts |-> IF a \in UnderWay THEN "done" ELSE pc[a]]
  /\ lock' = NoAttempt
  /\ stray' = "none"
  /\ UNCHANGED <<dbVars, cursor, seen>>

Request(a) == Create(a) \/ ResumeRead(a) \/ ResumeRefused(a)

(* What the server does of itself once a request is in and the database    *)
(* answers.                                                                *)
Work(a) ==
  \/ Revive(a) \/ AcquireLock(a) \/ LockBusy(a)
  \/ CommitChunk(a) \/ ChunkAborts(a) \/ ChunkCommitUnanswered(a)
  \/ MarkFailed(a) \/ ChunksDone(a)
  \/ FinalizeRead(a) \/ FinalizeWrite(a) \/ ReleaseLock(a)

(* A request, or a statement that is only there to record how the run      *)
(* ended or to give back its lock, fails.                                  *)
BookkeepingFails(a) ==
  \/ RequestAborts(a) \/ LockQueryFails(a)
  \/ MarkFailedAborts(a) \/ FinalizeAborts(a) \/ UnlockFails(a)

Next ==
  \/ \E a \in Attempts : Request(a) \/ Work(a) \/ BookkeepingFails(a)
  \/ PoolCloses
  \/ Crash

Spec == Init /\ [][Next]_vars

(* The server runs its event loop and the database answers every           *)
(* statement, with success or with an error; requests need not come.       *)
Fairness == \A a \in Attempts : WF_vars(Work(a) \/ BookkeepingFails(a))

FairSpec == Spec /\ Fairness

(* The discipline under which the checkpoint is sound: a request is sent   *)
(* only when no attempt is under way.  The code does not enforce it.       *)
Serially ==
  (\E a \in Attempts : pc[a] = "idle" /\ pc'[a] # "idle") => UnderWay = {}

SerialNext == Next /\ Serially

SerialSpec == Init /\ [][SerialNext]_vars

(* A process that stays up and a database that accepts the writes that     *)
(* record how a run ended.                                                 *)
ReliableNext == \E a \in Attempts : Request(a) \/ Work(a)

ReliableSpec ==
  Init /\ [][ReliableNext]_vars /\ \A a \in Attempts : WF_vars(Work(a))
-----------------------------------------------------------------------------
(* Properties                                                              *)

TypeOK ==
  /\ status \in Statuses
  /\ counts \in Counts
  /\ objects \subseteq Rows \X Attempts
  /\ errors \subseteq Rows \X Attempts
  /\ audits \subseteq Counts \X Attempts
  /\ lock \in Attempts \cup {NoAttempt}
  /\ stray \in {"none", "pooled", "lost"}
  /\ pc \in [Attempts -> Steps]
  /\ cursor \in [Attempts -> Nat]
  /\ seen \in [Attempts -> Counts]

(* Whoever is inside the chunk loop, is recording its failure or is about  *)
(* to release the lock holds the lock, through crashes and refused         *)
(* resumes: two attempts never process the run at once.                    *)
OneWorker ==
  \A a \in Attempts : pc[a] \in {"working", "failing", "releasing"} => lock = a

(* The two counters are the number of rows committed as objects and the    *)
(* number committed to quarantine, over all attempts and failures.  A row  *)
(* committed twice counts twice.                                           *)
CountersExact ==
  /\ counts.ingested = Cardinality(objects)
  /\ counts.quarantined = Cardinality(errors)

(* A run that says it is complete has counted at least as many rows as the *)
(* file has, and the audit log says so too.                                *)
CompletedIsCovered ==
  Completed => Checkpoint >= NumRows /\ audits # {}

(* Row r has been committed, as an object or in quarantine.                *)
Committed(r) == \E a \in Attempts : <<r, a>> \in objects \cup errors

(* No row is committed twice, neither by two attempts nor with two         *)
(* outcomes.                                                               *)
ExactlyOnce ==
  /\ \A r \in Rows, a, b \in Attempts :
       <<r, a>> \in objects \cup errors /\ <<r, b>> \in objects \cup errors => a = b
  /\ objects \cap errors = {}

(* "their sum is always exactly how many rows (from the start of the file) *)
(* have been durably processed": the committed rows are the first          *)
(* Checkpoint rows of the file.                                            *)
CheckpointIsPrefix == {r \in Rows : Committed(r)} = 1..Checkpoint

(* A completed run that nothing works on any more has committed every row  *)
(* of the file: none was skipped by a resume that started too far down.    *)
CompletedHasEveryRow ==
  Completed /\ UnderWay = {} => \A r \in Rows : Committed(r)

(* A completed run has exactly one audit entry, its numbers are the run's  *)
(* own, and the status tells whether there were quarantined rows.          *)
AuditIsTruthful ==
  Completed =>
    /\ \E a \in Attempts : audits = {<<counts, a>>}
    /\ (status = "completed_with_errors") <=> (errors # {})

(* No session holds the lock, so that the run can be resumed.              *)
LockIsFree == lock = NoAttempt /\ stray = "none"

(* Whatever statement of an attempt's work fails, the attempt comes to     *)
(* give the lock back.  It is free then, unless the lock query or the      *)
(* unlock is itself the statement that failed: the code promises no more,  *)
(* and a stray lock may refuse every resume while the server lives.        *)
LockIsFreed ==
  (lock # NoAttempt) ~>
    \/ LockIsFree
    \/ lock = NoAttempt /\ stray # "none"

(* A running run is not left at 'running' for good: it completes or it is  *)
(* marked failed.                                                          *)
RunSettles == (status = "running") ~> (status # "running")

(* Under the serial discipline a run is an ingestion job: running and      *)
(* failed are one phase, the tables are the sets of rows they hold, and    *)
(* the report is the audit entry without its author.                       *)
JobPhase ==
  IF status = "absent" THEN "none" ELSE IF Completed THEN "complete" ELSE "open"

RowsOf(table) == {r \in Rows : \E a \in Attempts : <<r, a>> \in table}

JobReport == {e[1] : e \in audits}

Job == INSTANCE IngestionJob WITH
  phase <- JobPhase, made <- RowsOf(objects), rejected <- RowsOf(errors),
  report <- JobReport

JobRefinement == Job!JobSpec

-----------------------------------------------------------------------------
(* What the proofs add to the invariants to make them inductive            *)

(* An attempt has committed nothing before its chunk loop, and nothing at  *)
(* or after its cursor inside it.                                          *)
OwnRowsBehind ==
  \A a \in Attempts :
    /\ pc[a] \in {"idle", "reviving", "locking"} =>
         \A r \in Rows : <<r, a>> \notin objects \cup errors
    /\ pc[a] = "working" =>
         \A r \in Rows : <<r, a>> \in objects \cup errors => r <= cursor[a]

(* A cursor may be stale but is never ahead of the counters, and an        *)
(* attempt that finalizes has seen the counters reach the end of the file. *)
CursorsCovered ==
  \A a \in Attempts :
    /\ pc[a] \in {"reviving", "locking", "working"} =>
         cursor[a] <= Checkpoint \/ NumRows <= Checkpoint
    /\ pc[a] \in {"finalizing", "completing"} => NumRows <= Checkpoint

SafetyInv ==
  /\ TypeOK
  /\ OneWorker
  /\ IsFiniteSet(objects) /\ IsFiniteSet(errors)
  /\ CountersExact
  /\ OwnRowsBehind
  /\ CursorsCovered
  /\ CompletedIsCovered

(* Under the serial discipline: at most one attempt is under way; its      *)
(* cursor is exactly the checkpoint, which is the end of the file when it  *)
(* finalizes; and the run's status is what that attempt expects.           *)
AloneUnderWay == \A a, b \in UnderWay : a = b

CursorsExact ==
  \A a \in Attempts :
    /\ pc[a] \in {"reviving", "locking"} => cursor[a] = Checkpoint
    /\ pc[a] = "working" =>
         \/ cursor[a] = Checkpoint
         \/ NumRows <= cursor[a] /\ NumRows = Checkpoint
    /\ pc[a] \in {"finalizing", "completing"} => NumRows = Checkpoint
    /\ pc[a] = "completing" => seen[a] = counts

StatusExpected ==
  \A a \in Attempts :
    /\ pc[a] \in {"locking", "working", "failing", "finalizing", "completing"} =>
         status = "running"
    /\ pc[a] = "reviving" => status = "failed"

NothingBeforeCreate == status = "absent" => Checkpoint = 0 /\ UnderWay = {}

AuditsFollowStatus ==
  /\ Completed => NumRows = Checkpoint
  /\ ~Completed => audits = {}

SerialInv ==
  /\ SafetyInv
  /\ AloneUnderWay
  /\ CursorsExact
  /\ StatusExpected
  /\ NothingBeforeCreate
  /\ AuditsFollowStatus
  /\ Checkpoint <= NumRows
  /\ ExactlyOnce
  /\ CheckpointIsPrefix
  /\ AuditIsTruthful
=============================================================================
