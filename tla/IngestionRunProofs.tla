------------------------- MODULE IngestionRunProofs -------------------------
(***************************************************************************)
(* Proofs about IngestionRun, for every file length, chunk size, set of    *)
(* bad rows, kind of template and set of attempts.                         *)
(***************************************************************************)
EXTENDS IngestionRun, FiniteSetTheorems, TLAPS

-----------------------------------------------------------------------------
(* Lemmas about chunks                                                     *)

(* A chunk is a finite, non-empty run of rows of the file right after the  *)
(* cursor, and no longer than the rest of the file.                        *)
LEMMA ChunkRows ==
  ASSUME TypeOK, NEW a \in Attempts, cursor[a] < NumRows
  PROVE  /\ ChunkEnd(a) \in Nat
         /\ cursor[a] < ChunkEnd(a)
         /\ ChunkEnd(a) <= NumRows
         /\ ChunkEnd(a) <= cursor[a] + ChunkSize
         /\ Chunk(a) \subseteq Rows
         /\ IsFiniteSet(Chunk(a))
         /\ Cardinality(Chunk(a)) = ChunkEnd(a) - cursor[a]
<1>1. /\ cursor[a] \in Nat /\ NumRows \in Nat /\ ChunkSize \in Nat \ {0}
  BY RunAssumption DEF TypeOK
<1>2. /\ ChunkEnd(a) \in Nat
      /\ cursor[a] < ChunkEnd(a)
      /\ ChunkEnd(a) <= NumRows
      /\ ChunkEnd(a) <= cursor[a] + ChunkSize
  BY <1>1 DEF ChunkEnd
<1>3. Chunk(a) \subseteq Rows
  BY <1>1, <1>2 DEF Chunk, Rows
<1>4. /\ IsFiniteSet(Chunk(a))
      /\ Cardinality(Chunk(a)) = ChunkEnd(a) - cursor[a]
  <2>1. cursor[a] + 1 \in Int /\ ChunkEnd(a) \in Int /\ ~(cursor[a] + 1 > ChunkEnd(a))
    BY <1>1, <1>2
  <2>2. /\ IsFiniteSet(Chunk(a))
        /\ Cardinality(Chunk(a)) = ChunkEnd(a) - (cursor[a] + 1) + 1
    BY <2>1, FS_Interval DEF Chunk
  <2>3. QED
    BY <1>1, <1>2, <2>2
<1>5. QED
  BY <1>2, <1>3, <1>4

(* Whatever a chunk sends to quarantine are rows of the chunk.             *)
LEMMA QuarantinedRows ==
  ASSUME NEW rows, NEW q \in Quarantines(rows)
  PROVE  q \subseteq rows
BY DEF Quarantines

(* A chunk's rows are split between the two counters.                      *)
LEMMA SplitRows ==
  ASSUME NEW rows, IsFiniteSet(rows), NEW q \in SUBSET rows
  PROVE  /\ IsFiniteSet(q) /\ IsFiniteSet(rows \ q)
         /\ Cardinality(q) \in Nat /\ Cardinality(rows \ q) \in Nat
         /\ Cardinality(rows \ q) + Cardinality(q) = Cardinality(rows)
<1>1. IsFiniteSet(q) /\ IsFiniteSet(rows \ q)
  BY FS_Subset, FS_Difference
<1>2. Cardinality(rows \ q) = Cardinality(rows) - Cardinality(rows \cap q)
  BY FS_Difference
<1>3. rows \cap q = q
  OBVIOUS
<1>4. Cardinality(q) \in Nat /\ Cardinality(rows) \in Nat
      /\ Cardinality(rows \ q) \in Nat
  BY <1>1, FS_CardinalityType
<1>5. QED
  BY <1>1, <1>2, <1>3, <1>4

(* Tagging rows with the attempt that commits them does not change how     *)
(* many there are.                                                         *)
LEMMA TaggedRows ==
  ASSUME NEW rows, IsFiniteSet(rows), NEW a
  PROVE  /\ IsFiniteSet(rows \X {a})
         /\ Cardinality(rows \X {a}) = Cardinality(rows)
<1> DEFINE tag == [r \in rows |-> <<r, a>>]
<1>1. tag \in Bijection(rows, rows \X {a})
  <2>1. tag \in [rows -> rows \X {a}]
    OBVIOUS
  <2>2. \A r, s \in rows : tag[r] = tag[s] => r = s
    OBVIOUS
  <2>3. \A t \in rows \X {a} : \E r \in rows : tag[r] = t
    OBVIOUS
  <2>4. QED
    BY <2>1, <2>2, <2>3 DEF Bijection, Injection, Surjection, IsInjective
<1>2. ExistsBijection(rows, rows \X {a})
  BY <1>1 DEF ExistsBijection
<1>3. QED
  BY <1>2, FS_Bijection

(* Adding to a finite set what it does not contain.                        *)
LEMMA DisjointUnion ==
  ASSUME NEW S, NEW T, IsFiniteSet(S), IsFiniteSet(T), S \cap T = {}
  PROVE  /\ IsFiniteSet(S \cup T)
         /\ Cardinality(S \cup T) = Cardinality(S) + Cardinality(T)
<1>1. /\ IsFiniteSet(S \cup T)
      /\ Cardinality(S \cup T) = Cardinality(S) + Cardinality(T) - Cardinality(S \cap T)
  BY FS_Union
<1>2. Cardinality(S \cap T) = 0
  BY FS_EmptySet
<1>3. Cardinality(S) \in Nat /\ Cardinality(T) \in Nat
  BY FS_CardinalityType
<1>4. QED
  BY <1>1, <1>2, <1>3

-----------------------------------------------------------------------------
(* Type correctness                                                        *)

(* What the commit of a chunk does to the types of the tables it writes.   *)
LEMMA ChunkEffectTyped ==
  ASSUME TypeOK, NEW a \in Attempts, cursor[a] < NumRows, ChunkEffect(a)
  PROVE  /\ objects' \subseteq Rows \X Attempts
         /\ errors' \subseteq Rows \X Attempts
         /\ counts' \in Counts
         /\ counts'.ingested + counts'.quarantined = Checkpoint + ChunkEnd(a) - cursor[a]
<1>1. PICK q \in Quarantines(Chunk(a)) :
        /\ objects' = objects \cup ((Chunk(a) \ q) \X {a})
        /\ errors' = errors \cup (q \X {a})
        /\ counts' = [ingested    |-> counts.ingested + Cardinality(Chunk(a) \ q),
                      quarantined |-> counts.quarantined + Cardinality(q)]
  BY DEF ChunkEffect
<1>2. /\ Chunk(a) \subseteq Rows
      /\ IsFiniteSet(Chunk(a))
      /\ Cardinality(Chunk(a)) = ChunkEnd(a) - cursor[a]
      /\ ChunkEnd(a) \in Nat
  BY ChunkRows
<1>3. q \in SUBSET Chunk(a)
  BY QuarantinedRows
<1>4. /\ Cardinality(q) \in Nat /\ Cardinality(Chunk(a) \ q) \in Nat
      /\ Cardinality(Chunk(a) \ q) + Cardinality(q) = Cardinality(Chunk(a))
  BY <1>2, <1>3, SplitRows
<1>5. objects' \subseteq Rows \X Attempts /\ errors' \subseteq Rows \X Attempts
  BY <1>1, <1>2, <1>3 DEF TypeOK
<1>6. counts.ingested \in Nat /\ counts.quarantined \in Nat /\ cursor[a] \in Nat
  BY DEF TypeOK, Counts
<1>7. counts' \in Counts
  BY <1>1, <1>4, <1>6 DEF Counts
<1>8. counts'.ingested + counts'.quarantined = Checkpoint + ChunkEnd(a) - cursor[a]
  BY <1>1, <1>2, <1>4, <1>6 DEF Checkpoint
<1>9. QED
  BY <1>5, <1>7, <1>8

LEMMA TypeStep == TypeOK /\ [Next]_vars => TypeOK'
<1> SUFFICES ASSUME TypeOK, [Next]_vars PROVE TypeOK'
  OBVIOUS
<1> USE DEF TypeOK, dbVars, Goto, Steps, Statuses
<1>1. CASE UNCHANGED vars
  BY <1>1 DEF vars
<1>2. ASSUME NEW a \in Attempts, Request(a) PROVE TypeOK'
  <2>1. Checkpoint \in Nat
    BY DEF Checkpoint, Counts
  <2>2. AfterSetup(Checkpoint) \in {"finalizing", "locking"}
    BY DEF AfterSetup
  <2>3. QED
    BY <1>2, <2>1, <2>2 DEF Request, Create, ResumeRead, ResumeRefused
<1>3. ASSUME NEW a \in Attempts, Work(a) PROVE TypeOK'
  <2>1. CASE Revive(a)
    BY <2>1 DEF Revive, AfterSetup
  <2>2. CASE AcquireLock(a) \/ LockBusy(a) \/ ReleaseLock(a)
    BY <2>2 DEF AcquireLock, LockIsToBeHad, LockBusy, ReleaseLock
  <2>3. CASE CommitChunk(a)
    <3>1. /\ objects' \subseteq Rows \X Attempts
          /\ errors' \subseteq Rows \X Attempts
          /\ counts' \in Counts
      BY <2>3, ChunkEffectTyped DEF CommitChunk
    <3>2. QED
      BY <2>3, <3>1, RunAssumption DEF CommitChunk
  <2>4. CASE ChunkCommitUnanswered(a)
    <3>1. /\ objects' \subseteq Rows \X Attempts
          /\ errors' \subseteq Rows \X Attempts
          /\ counts' \in Counts
      BY <2>4, ChunkEffectTyped DEF ChunkCommitUnanswered
    <3>2. QED
      BY <2>4, <3>1 DEF ChunkCommitUnanswered
  <2>5. CASE ChunkAborts(a) \/ MarkFailed(a) \/ ChunksDone(a)
    BY <2>5 DEF ChunkAborts, MarkFailed, ChunksDone
  <2>6. CASE FinalizeRead(a)
    BY <2>6 DEF FinalizeRead
  <2>7. CASE FinalizeWrite(a)
    BY <2>7 DEF FinalizeWrite, AfterFinalize
  <2>8. QED
    BY <1>3, <2>1, <2>2, <2>3, <2>4, <2>5, <2>6, <2>7 DEF Work
<1>4. ASSUME NEW a \in Attempts, BookkeepingFails(a) PROVE TypeOK'
  BY <1>4 DEF BookkeepingFails, RequestAborts, LockQueryFails,
         MarkFailedAborts, FinalizeAborts, UnlockFails, AfterFinalize
<1>5. CASE Crash \/ PoolCloses
  BY <1>5 DEF Crash, PoolCloses
<1>6. QED
  BY <1>1, <1>2, <1>3, <1>4, <1>5 DEF Next

(* Every variable keeps its type, for every value of the constants.        *)
THEOREM TypeCorrect == Spec => []TypeOK
<1>1. Init => TypeOK
  BY DEF Init, TypeOK, Counts, Statuses, Steps
<1>2. QED
  BY <1>1, TypeStep, PTL DEF Spec

-----------------------------------------------------------------------------
(* The safety invariant                                                    *)

(* What the commit of a chunk does to the tables and counters when the     *)
(* attempt has committed nothing past its cursor: no new pair was there    *)
(* before, so the counters grow by exactly the rows added.                 *)
LEMMA ChunkEffectCounted ==
  ASSUME SafetyInv, NEW a \in Attempts, pc[a] = "working", cursor[a] < NumRows,
         ChunkEffect(a)
  PROVE  /\ IsFiniteSet(objects') /\ IsFiniteSet(errors')
         /\ CountersExact'
         /\ \A r \in Rows : <<r, a>> \in objects' \cup errors' => r <= cursor[a] + ChunkSize
         /\ \A b \in Attempts \ {a}, r \in Rows :
              <<r, b>> \in objects' \cup errors' <=> <<r, b>> \in objects \cup errors
<1> USE DEF SafetyInv
<1>1. PICK q \in Quarantines(Chunk(a)) :
        /\ objects' = objects \cup ((Chunk(a) \ q) \X {a})
        /\ errors' = errors \cup (q \X {a})
        /\ counts' = [ingested    |-> counts.ingested + Cardinality(Chunk(a) \ q),
                      quarantined |-> counts.quarantined + Cardinality(q)]
  BY DEF ChunkEffect
<1>2. /\ Chunk(a) \subseteq Rows
      /\ IsFiniteSet(Chunk(a))
      /\ ChunkEnd(a) \in Nat
      /\ ChunkEnd(a) <= cursor[a] + ChunkSize
  BY ChunkRows
<1>3. q \in SUBSET Chunk(a)
  BY QuarantinedRows
<1>4. IsFiniteSet(q) /\ IsFiniteSet(Chunk(a) \ q)
  BY <1>2, <1>3, SplitRows
<1>5. cursor[a] \in Nat /\ NumRows \in Nat /\ ChunkSize \in Nat \ {0}
  BY RunAssumption DEF TypeOK
<1>6. \A r \in Chunk(a) : cursor[a] < r /\ r <= cursor[a] + ChunkSize /\ r \in Nat
  BY <1>2, <1>5 DEF Chunk
<1>7. \A r \in Chunk(a) : <<r, a>> \notin objects /\ <<r, a>> \notin errors
  BY <1>2, <1>5, <1>6 DEF OwnRowsBehind, Rows
<1>8. objects \cap ((Chunk(a) \ q) \X {a}) = {} /\ errors \cap (q \X {a}) = {}
  BY <1>3, <1>7
<1>9. /\ IsFiniteSet((Chunk(a) \ q) \X {a})
      /\ Cardinality((Chunk(a) \ q) \X {a}) = Cardinality(Chunk(a) \ q)
      /\ IsFiniteSet(q \X {a})
      /\ Cardinality(q \X {a}) = Cardinality(q)
  BY <1>4, TaggedRows
<1>10. /\ IsFiniteSet(objects')
       /\ Cardinality(objects') = Cardinality(objects) + Cardinality(Chunk(a) \ q)
  BY <1>1, <1>8, <1>9, DisjointUnion
<1>11. /\ IsFiniteSet(errors')
       /\ Cardinality(errors') = Cardinality(errors) + Cardinality(q)
  BY <1>1, <1>8, <1>9, DisjointUnion
<1>12. CountersExact'
  BY <1>1, <1>10, <1>11 DEF CountersExact
<1>13. \A r \in Rows : <<r, a>> \in objects' \cup errors' => r <= cursor[a] + ChunkSize
  <2>1. SUFFICES ASSUME NEW r \in Rows, <<r, a>> \in objects' \cup errors'
                 PROVE  r <= cursor[a] + ChunkSize
    OBVIOUS
  <2>2. CASE <<r, a>> \in objects \cup errors
    BY <2>2, <1>5 DEF OwnRowsBehind, Rows
  <2>3. CASE <<r, a>> \notin objects \cup errors
    BY <2>1, <2>3, <1>1, <1>3, <1>6
  <2>4. QED
    BY <2>2, <2>3
<1>14. \A b \in Attempts \ {a}, r \in Rows :
         <<r, b>> \in objects' \cup errors' <=> <<r, b>> \in objects \cup errors
  BY <1>1
<1>15. QED
  BY <1>10, <1>11, <1>12, <1>13, <1>14

(* Nobody enters the loop while somebody else is inside: the lock is free  *)
(* when it is taken, and only its holder gives it back.                    *)
LEMMA OneWorkerStep ==
  ASSUME TypeOK, OneWorker, [Next]_vars
  PROVE  OneWorker'
<1> USE DEF TypeOK, OneWorker, Goto
<1>1. CASE UNCHANGED vars
  BY <1>1 DEF vars
<1>2. ASSUME NEW a \in Attempts, Request(a) PROVE OneWorker'
  BY <1>2 DEF Request, Create, ResumeRead, ResumeRefused, AfterSetup
<1>3. ASSUME NEW a \in Attempts, Work(a) PROVE OneWorker'
  <2>1. CASE Revive(a) \/ LockBusy(a)
    BY <2>1 DEF Revive, LockBusy, AfterSetup
  <2>2. CASE AcquireLock(a)
    BY <2>2, RunAssumption DEF AcquireLock, LockIsToBeHad
  <2>3. CASE CommitChunk(a) \/ ChunkAborts(a) \/ ChunkCommitUnanswered(a)
    BY <2>3 DEF CommitChunk, ChunkAborts, ChunkCommitUnanswered
  <2>4. CASE MarkFailed(a) \/ ChunksDone(a) \/ FinalizeRead(a)
    BY <2>4 DEF MarkFailed, ChunksDone, FinalizeRead
  <2>5. CASE FinalizeWrite(a)
    BY <2>5 DEF FinalizeWrite, AfterFinalize
  <2>6. CASE ReleaseLock(a)
    BY <2>6 DEF ReleaseLock
  <2>7. QED
    BY <1>3, <2>1, <2>2, <2>3, <2>4, <2>5, <2>6 DEF Work
<1>4. ASSUME NEW a \in Attempts, BookkeepingFails(a) PROVE OneWorker'
  BY <1>4 DEF BookkeepingFails, RequestAborts, LockQueryFails,
         MarkFailedAborts, FinalizeAborts, UnlockFails, AfterFinalize
<1>5. CASE Crash \/ PoolCloses
  BY <1>5 DEF Crash, PoolCloses, UnderWay
<1>6. QED
  BY <1>1, <1>2, <1>3, <1>4, <1>5 DEF Next

(* Steps that commit no row leave the tables and counters alone, and start *)
(* no chunk loop for an attempt that has already committed something.      *)
LEMMA CountersStep ==
  ASSUME SafetyInv, TypeOK', [Next]_vars
  PROVE  /\ IsFiniteSet(objects') /\ IsFiniteSet(errors')
         /\ CountersExact'
         /\ OwnRowsBehind'
<1> DEFINE Goal == /\ IsFiniteSet(objects') /\ IsFiniteSet(errors')
                   /\ CountersExact'
                   /\ OwnRowsBehind'
<1>1. ASSUME UNCHANGED <<counts, objects, errors>>, OwnRowsBehind' PROVE Goal
  BY <1>1 DEF SafetyInv, CountersExact
<1>2. CASE UNCHANGED vars
  BY <1>1, <1>2 DEF vars, SafetyInv, OwnRowsBehind
<1>3. ASSUME NEW a \in Attempts, Request(a) PROVE Goal
  BY <1>1, <1>3 DEF Request, Create, ResumeRead, ResumeRefused, AfterSetup, SafetyInv,
       OwnRowsBehind, TypeOK, dbVars, Goto
<1>4. ASSUME NEW a \in Attempts, Work(a) PROVE Goal
  <2>1. CASE Revive(a) \/ LockBusy(a) \/ AcquireLock(a) \/ ReleaseLock(a)
    BY <1>1, <2>1 DEF Revive, LockBusy, AcquireLock, ReleaseLock, AfterSetup, SafetyInv,
         OwnRowsBehind, TypeOK, dbVars, Goto
  <2>2. CASE ChunkAborts(a) \/ MarkFailed(a) \/ ChunksDone(a)
    BY <1>1, <2>2 DEF ChunkAborts, MarkFailed, ChunksDone, SafetyInv, OwnRowsBehind,
         TypeOK, dbVars, Goto
  <2>3. CASE FinalizeRead(a)
    BY <1>1, <2>3 DEF FinalizeRead, SafetyInv, OwnRowsBehind, TypeOK, dbVars, Goto
  <2>4. CASE FinalizeWrite(a)
    BY <1>1, <2>4 DEF FinalizeWrite, AfterFinalize, SafetyInv, OwnRowsBehind, TypeOK, Goto
  <2>5. CASE CommitChunk(a)
    <3>1. /\ IsFiniteSet(objects') /\ IsFiniteSet(errors')
          /\ CountersExact'
          /\ \A r \in Rows : <<r, a>> \in objects' \cup errors' => r <= cursor[a] + ChunkSize
          /\ \A b \in Attempts \ {a}, r \in Rows :
               <<r, b>> \in objects' \cup errors' <=> <<r, b>> \in objects \cup errors
      BY <2>5, ChunkEffectCounted DEF CommitChunk
    <3>2. OwnRowsBehind'
      BY <2>5, <3>1 DEF CommitChunk, SafetyInv, OwnRowsBehind, TypeOK
    <3>3. QED
      BY <3>1, <3>2
  <2>6. CASE ChunkCommitUnanswered(a)
    <3>1. /\ IsFiniteSet(objects') /\ IsFiniteSet(errors')
          /\ CountersExact'
          /\ \A b \in Attempts \ {a}, r \in Rows :
               <<r, b>> \in objects' \cup errors' <=> <<r, b>> \in objects \cup errors
      BY <2>6, ChunkEffectCounted DEF ChunkCommitUnanswered
    <3>2. OwnRowsBehind'
      BY <2>6, <3>1 DEF ChunkCommitUnanswered, SafetyInv, OwnRowsBehind, TypeOK, Goto
    <3>3. QED
      BY <3>1, <3>2
  <2>7. QED
    BY <1>4, <2>1, <2>2, <2>3, <2>4, <2>5, <2>6 DEF Work
<1>5. ASSUME NEW a \in Attempts, BookkeepingFails(a) PROVE Goal
  BY <1>1, <1>5 DEF BookkeepingFails, RequestAborts, LockQueryFails,
         MarkFailedAborts, FinalizeAborts, UnlockFails, AfterFinalize,
       SafetyInv, OwnRowsBehind, TypeOK, dbVars, Goto
<1>6. CASE Crash \/ PoolCloses
  BY <1>1, <1>6 DEF Crash, PoolCloses, UnderWay, SafetyInv, OwnRowsBehind, TypeOK, dbVars
<1>7. QED
  BY <1>2, <1>3, <1>4, <1>5, <1>6 DEF Next

(* The counters are natural numbers, and a chunk moves them by its length. *)
LEMMA CheckpointGrows ==
  ASSUME TypeOK, NEW a \in Attempts, cursor[a] < NumRows, ChunkEffect(a)
  PROVE  /\ Checkpoint \in Nat /\ Checkpoint' \in Nat
         /\ Checkpoint' = Checkpoint + ChunkEnd(a) - cursor[a]
         /\ Checkpoint' > Checkpoint
         /\ cursor[a] \in Nat /\ NumRows \in Nat /\ ChunkSize \in Nat
         /\ ChunkEnd(a) = NumRows \/ ChunkEnd(a) = cursor[a] + ChunkSize
<1>1. /\ counts' \in Counts
      /\ counts'.ingested + counts'.quarantined = Checkpoint + ChunkEnd(a) - cursor[a]
  BY ChunkEffectTyped
<1>2. Checkpoint \in Nat /\ Checkpoint' \in Nat
  BY <1>1 DEF TypeOK, Counts, Checkpoint
<1>3. /\ cursor[a] < ChunkEnd(a) /\ ChunkEnd(a) \in Nat
  BY ChunkRows
<1>4. cursor[a] \in Nat /\ NumRows \in Nat /\ ChunkSize \in Nat
  BY RunAssumption DEF TypeOK
<1>5. Checkpoint' = Checkpoint + ChunkEnd(a) - cursor[a]
  BY <1>1 DEF Checkpoint
<1>6. QED
  BY <1>2, <1>3, <1>4, <1>5 DEF ChunkEnd

(* A cursor is read from the counters, moves with them, and they never     *)
(* fall.                                                                   *)
LEMMA CursorsStep ==
  ASSUME SafetyInv, TypeOK', [Next]_vars
  PROVE  CursorsCovered' /\ CompletedIsCovered'
<1> DEFINE Goal == CursorsCovered' /\ CompletedIsCovered'
<1> USE DEF SafetyInv
<1>a. /\ Checkpoint \in Nat /\ NumRows \in Nat
      /\ \A b \in Attempts : cursor[b] \in Nat
  BY RunAssumption DEF TypeOK, Counts, Checkpoint
<1>1. CASE UNCHANGED vars
  BY <1>1 DEF vars, CursorsCovered, CompletedIsCovered, Completed, Checkpoint
<1>2. ASSUME NEW a \in Attempts, Request(a) PROVE Goal
  <2>1. Checkpoint' = Checkpoint
    BY <1>2 DEF Request, Create, ResumeRead, ResumeRefused, dbVars, Checkpoint
  <2>2. CASE Create(a)
    BY <1>a, <2>1, <2>2 DEF Create, CursorsCovered, CompletedIsCovered, Completed, TypeOK, Goto
  <2>3. CASE ResumeRead(a)
    BY <1>a, <2>1, <2>3 DEF ResumeRead, AfterSetup, CursorsCovered, CompletedIsCovered,
         Completed, TypeOK, dbVars, Goto
  <2>4. CASE ResumeRefused(a)
    BY <1>a, <2>1, <2>4 DEF ResumeRefused, CursorsCovered, CompletedIsCovered, Completed,
         TypeOK, dbVars, Goto
  <2>5. QED
    BY <1>2, <2>2, <2>3, <2>4 DEF Request
<1>3. ASSUME NEW a \in Attempts, Work(a) PROVE Goal
  <2>1. CASE Revive(a)
    BY <1>a, <2>1 DEF Revive, AfterSetup, CursorsCovered, CompletedIsCovered, Completed,
         Checkpoint, TypeOK, Goto
  <2>2. CASE AcquireLock(a) \/ LockBusy(a) \/ ReleaseLock(a) \/ ChunkAborts(a)
    BY <1>a, <2>2 DEF AcquireLock, LockIsToBeHad, LockBusy, ReleaseLock, ChunkAborts, CursorsCovered,
         CompletedIsCovered, Completed, Checkpoint, TypeOK, dbVars, Goto
  <2>3. CASE MarkFailed(a) \/ ChunksDone(a) \/ FinalizeRead(a)
    BY <1>a, <2>3 DEF MarkFailed, ChunksDone, FinalizeRead, CursorsCovered,
         CompletedIsCovered, Completed, Checkpoint, TypeOK, dbVars, Goto
  <2>4. CASE FinalizeWrite(a)
    BY <1>a, <2>4 DEF FinalizeWrite, AfterFinalize, CursorsCovered,
         CompletedIsCovered, Completed, Checkpoint, TypeOK, Goto
  <2>5. CASE CommitChunk(a)
    <3>1. /\ Checkpoint' \in Nat
          /\ Checkpoint' = Checkpoint + ChunkEnd(a) - cursor[a]
          /\ Checkpoint' > Checkpoint
          /\ ChunkEnd(a) = NumRows \/ ChunkEnd(a) = cursor[a] + ChunkSize
          /\ ChunkSize \in Nat
      BY <2>5, CheckpointGrows DEF CommitChunk
    <3>2. CursorsCovered'
      <4>1. ASSUME NEW b \in Attempts, b # a
            PROVE  /\ pc'[b] \in {"reviving", "locking", "working"} =>
                        cursor'[b] <= Checkpoint' \/ NumRows <= Checkpoint'
                   /\ pc'[b] \in {"finalizing", "completing"} => NumRows <= Checkpoint'
        BY <1>a, <2>5, <3>1, <4>1 DEF CommitChunk, CursorsCovered, TypeOK
      <4>2. cursor'[a] = cursor[a] + ChunkSize /\ pc'[a] = "working"
        BY <2>5 DEF CommitChunk, TypeOK
      <4>3. cursor[a] <= Checkpoint \/ NumRows <= Checkpoint
        BY <2>5 DEF CommitChunk, CursorsCovered
      <4>4. cursor'[a] <= Checkpoint' \/ NumRows <= Checkpoint'
        BY <1>a, <3>1, <4>2, <4>3
      <4>5. QED
        BY <4>1, <4>2, <4>4 DEF CursorsCovered
    <3>3. CompletedIsCovered'
      BY <1>a, <2>5, <3>1 DEF CommitChunk, CompletedIsCovered, Completed
    <3>4. QED
      BY <3>2, <3>3
  <2>6. CASE ChunkCommitUnanswered(a)
    <3>1. Checkpoint' \in Nat /\ Checkpoint' > Checkpoint
      BY <2>6, CheckpointGrows DEF ChunkCommitUnanswered
    <3>2. QED
      BY <1>a, <2>6, <3>1 DEF ChunkCommitUnanswered, CursorsCovered, CompletedIsCovered,
           Completed, TypeOK, Goto
  <2>7. QED
    BY <1>3, <2>1, <2>2, <2>3, <2>4, <2>5, <2>6 DEF Work
<1>4. ASSUME NEW a \in Attempts, BookkeepingFails(a) PROVE Goal
  BY <1>a, <1>4 DEF BookkeepingFails, RequestAborts, LockQueryFails,
         MarkFailedAborts, FinalizeAborts, UnlockFails, AfterFinalize,
       CursorsCovered, CompletedIsCovered, Completed, Checkpoint, TypeOK, dbVars, Goto
<1>5. CASE Crash \/ PoolCloses
  BY <1>a, <1>5 DEF Crash, PoolCloses, UnderWay, CursorsCovered, CompletedIsCovered, Completed,
       Checkpoint, TypeOK, dbVars
<1>6. QED
  BY <1>1, <1>2, <1>3, <1>4, <1>5 DEF Next

LEMMA SafetyInit == Init => SafetyInv
<1> SUFFICES ASSUME Init PROVE SafetyInv
  OBVIOUS
<1>1. TypeOK
  BY DEF Init, TypeOK, Counts, Statuses, Steps
<1>2. IsFiniteSet({}) /\ Cardinality({}) = 0
  BY FS_EmptySet
<1>3. OneWorker /\ OwnRowsBehind /\ CursorsCovered /\ CompletedIsCovered
  BY DEF Init, OneWorker, OwnRowsBehind, CursorsCovered, CompletedIsCovered, Completed
<1>4. QED
  BY <1>1, <1>2, <1>3 DEF Init, SafetyInv, CountersExact

LEMMA SafetyStep == SafetyInv /\ [Next]_vars => SafetyInv'
<1> SUFFICES ASSUME SafetyInv, [Next]_vars PROVE SafetyInv'
  OBVIOUS
<1>1. TypeOK'
  BY TypeStep DEF SafetyInv
<1>2. OneWorker'
  BY OneWorkerStep DEF SafetyInv
<1>3. IsFiniteSet(objects') /\ IsFiniteSet(errors') /\ CountersExact' /\ OwnRowsBehind'
  BY <1>1, CountersStep
<1>4. CursorsCovered' /\ CompletedIsCovered'
  BY <1>1, CursorsStep
<1>5. QED
  BY <1>1, <1>2, <1>3, <1>4 DEF SafetyInv

THEOREM SafetyInvariant == Spec => []SafetyInv
BY SafetyInit, SafetyStep, PTL DEF Spec

(* The advisory lock works: whatever requests, failures and crashes come,  *)
(* at most one attempt is between taking the lock and giving it back.      *)
THEOREM MutualExclusion == Spec => []OneWorker
<1>1. SafetyInv => OneWorker
  BY DEF SafetyInv
<1>2. QED
  BY SafetyInvariant, <1>1, PTL

(* The counters of a run count the rows it committed, however its attempts *)
(* interleave and fail, even those that process a row a second time.       *)
THEOREM CountersAreExact == Spec => []CountersExact
<1>1. SafetyInv => CountersExact
  BY DEF SafetyInv
<1>2. QED
  BY SafetyInvariant, <1>1, PTL

(* A run that says it is complete has counted the whole file and has an    *)
(* audit entry.                                                            *)
THEOREM CompletionIsCovered == Spec => []CompletedIsCovered
<1>1. SafetyInv => CompletedIsCovered
  BY DEF SafetyInv
<1>2. QED
  BY SafetyInvariant, <1>1, PTL

-----------------------------------------------------------------------------
(* Under the serial discipline                                             *)

(* The attempt that takes a step is the only one under way.                *)
LEMMA OthersRest ==
  ASSUME SerialInv, NEW a \in Attempts, pc[a] \notin {"idle", "done"}
  PROVE  \A b \in Attempts \ {a} : pc[b] \in {"idle", "done"}
BY DEF SerialInv, AloneUnderWay, UnderWay

(* A chunk takes the rows right after the committed prefix, none of which  *)
(* anybody has committed.                                                  *)
LEMMA SerialChunk ==
  ASSUME SerialInv, NEW a \in Attempts, pc[a] = "working", cursor[a] < NumRows,
         ChunkEffect(a)
  PROVE  /\ cursor[a] = Checkpoint
         /\ Checkpoint' = ChunkEnd(a)
         /\ ExactlyOnce'
         /\ CheckpointIsPrefix'
<1> USE DEF SerialInv, SafetyInv
<1>1. PICK q \in Quarantines(Chunk(a)) :
        /\ objects' = objects \cup ((Chunk(a) \ q) \X {a})
        /\ errors' = errors \cup (q \X {a})
  BY DEF ChunkEffect
<1>2. /\ Checkpoint \in Nat /\ cursor[a] \in Nat /\ NumRows \in Nat
      /\ Checkpoint' = Checkpoint + ChunkEnd(a) - cursor[a]
  BY CheckpointGrows
<1>3. cursor[a] = Checkpoint
  BY <1>2 DEF CursorsExact
<1>4. /\ ChunkEnd(a) \in Nat /\ Checkpoint < ChunkEnd(a)
      /\ Chunk(a) \subseteq Rows
      /\ ChunkEnd(a) <= NumRows
  BY <1>3, ChunkRows
<1>5. Checkpoint' = ChunkEnd(a)
  BY <1>2, <1>3, <1>4
<1>6. q \subseteq Chunk(a)
  BY QuarantinedRows
<1>7. Chunk(a) = (Checkpoint + 1)..ChunkEnd(a)
  BY <1>3 DEF Chunk
<1>8. \A r \in Chunk(a) : ~Committed(r)
  BY <1>2, <1>4, <1>7 DEF CheckpointIsPrefix, Rows
<1>9. ExactlyOnce'
  <2>1. ASSUME NEW r \in Rows, NEW b \in Attempts, NEW c \in Attempts,
               <<r, b>> \in objects' \cup errors', <<r, c>> \in objects' \cup errors'
        PROVE  b = c
    <3>1. CASE r \in Chunk(a)
      BY <1>1, <1>6, <1>8, <2>1, <3>1 DEF Committed
    <3>2. CASE r \notin Chunk(a)
      BY <1>1, <1>6, <2>1, <3>2 DEF ExactlyOnce
    <3>3. QED
      BY <3>1, <3>2
  <2>2. objects' \cap errors' = {}
    <3>1. objects \cap (q \X {a}) = {} /\ errors \cap ((Chunk(a) \ q) \X {a}) = {}
      BY <1>6, <1>8 DEF Committed
    <3>2. objects \cap errors = {}
      BY DEF ExactlyOnce
    <3>3. QED
      BY <1>1, <3>1, <3>2
  <2>3. QED
    BY <2>1, <2>2 DEF ExactlyOnce
<1>10. CheckpointIsPrefix'
  <2>1. \A r \in Rows : Committed(r)' <=> Committed(r) \/ r \in Chunk(a)
    BY <1>1, <1>6 DEF Committed
  <2>2. \A r \in Rows : Committed(r) <=> r \in 1..Checkpoint
    BY DEF CheckpointIsPrefix
  <2>3. 1..ChunkEnd(a) \subseteq Rows
    BY <1>2, <1>4 DEF Rows
  <2>4. \A r \in Rows : r \in 1..ChunkEnd(a) <=> r \in 1..Checkpoint \/ r \in Chunk(a)
    BY <1>2, <1>4, <1>7 DEF Rows
  <2>5. {r \in Rows : Committed(r)'} = 1..ChunkEnd(a)
    BY <2>1, <2>2, <2>3, <2>4
  <2>6. QED
    BY <1>5, <2>5 DEF CheckpointIsPrefix
<1>11. QED
  BY <1>3, <1>5, <1>9, <1>10

(* The tables stay as they are when a step commits no row.                 *)
LEMMA TablesUnchanged ==
  ASSUME ExactlyOnce, CheckpointIsPrefix, UNCHANGED <<objects, errors, counts>>
  PROVE  ExactlyOnce' /\ CheckpointIsPrefix' /\ Checkpoint' = Checkpoint
<1>1. Checkpoint' = Checkpoint
  BY DEF Checkpoint
<1>2. ExactlyOnce'
  BY DEF ExactlyOnce
<1>3. \A r \in Rows : Committed(r)' <=> Committed(r)
  BY DEF Committed
<1>4. QED
  BY <1>1, <1>2, <1>3 DEF CheckpointIsPrefix

(* The part of SerialInv that is about the attempts and the status.        *)
SerialControl ==
  /\ AloneUnderWay
  /\ CursorsExact
  /\ StatusExpected
  /\ NothingBeforeCreate
  /\ AuditsFollowStatus
  /\ AuditIsTruthful

LEMMA SerialRequest ==
  ASSUME SerialInv, NEW a \in Attempts, Request(a), Serially
  PROVE  SerialControl' /\ UNCHANGED <<objects, errors, counts>>
<1> USE DEF SerialInv, SafetyInv, SerialControl
<1>1. pc[a] = "idle" /\ pc'[a] # "idle"
  <2>1. AfterSetup(Checkpoint) \in {"finalizing", "locking"}
    BY DEF AfterSetup
  <2>2. QED
    BY <2>1 DEF Request, Create, ResumeRead, ResumeRefused, Goto, TypeOK
<1>2. \A b \in Attempts : pc[b] \in {"idle", "done"}
  BY <1>1 DEF Serially, UnderWay
<1>3. Checkpoint \in Nat /\ NumRows \in Nat
  BY RunAssumption DEF TypeOK, Counts, Checkpoint
<1>4. CASE Create(a)
  <2>1. UNCHANGED <<objects, errors, counts, audits>> /\ Checkpoint' = Checkpoint
    BY <1>4 DEF Create, Checkpoint
  <2>2. AloneUnderWay' /\ CursorsExact' /\ StatusExpected'
    BY <1>2, <1>4, <2>1 DEF Create, AloneUnderWay, UnderWay, CursorsExact, StatusExpected,
         NothingBeforeCreate, TypeOK, Goto
  <2>3. NothingBeforeCreate' /\ AuditsFollowStatus' /\ AuditIsTruthful'
    BY <1>4, <2>1 DEF Create, NothingBeforeCreate, AuditsFollowStatus, AuditIsTruthful,
         Completed
  <2>4. QED
    BY <2>1, <2>2, <2>3
<1>5. CASE ResumeRead(a)
  <2>1. /\ UNCHANGED <<objects, errors, counts, audits, status>>
        /\ Checkpoint' = Checkpoint
    BY <1>5 DEF ResumeRead, dbVars, Checkpoint
  <2>2. AloneUnderWay' /\ StatusExpected'
    BY <1>2, <1>5, <2>1 DEF ResumeRead, AfterSetup, AloneUnderWay, UnderWay, StatusExpected,
         TypeOK, Goto
  <2>3. CursorsExact'
    BY <1>2, <1>3, <1>5, <2>1 DEF ResumeRead, AfterSetup, CursorsExact, TypeOK, Goto
  <2>4. NothingBeforeCreate' /\ AuditsFollowStatus' /\ AuditIsTruthful'
    BY <1>5, <2>1 DEF ResumeRead, NothingBeforeCreate, AuditsFollowStatus, AuditIsTruthful,
         Completed
  <2>5. QED
    BY <2>1, <2>2, <2>3, <2>4
<1>6. CASE ResumeRefused(a)
  <2>1. /\ UNCHANGED <<objects, errors, counts, audits, status>>
        /\ Checkpoint' = Checkpoint
    BY <1>6 DEF ResumeRefused, dbVars, Checkpoint
  <2>2. AloneUnderWay' /\ StatusExpected' /\ CursorsExact' /\ NothingBeforeCreate'
    BY <1>2, <1>6, <2>1 DEF ResumeRefused, AloneUnderWay, UnderWay, StatusExpected,
         CursorsExact, NothingBeforeCreate, TypeOK, Goto
  <2>3. AuditsFollowStatus' /\ AuditIsTruthful'
    BY <2>1 DEF AuditsFollowStatus, AuditIsTruthful, Completed
  <2>4. QED
    BY <2>1, <2>2, <2>3
<1>7. QED
  BY <1>4, <1>5, <1>6 DEF Request

(* An audit entry written by finalizeRun tells the truth: the counters it  *)
(* read are still the run's.                                               *)
LEMMA SerialFinalize ==
  ASSUME SerialInv, NEW a \in Attempts, FinalizeWrite(a)
  PROVE  AuditsFollowStatus' /\ AuditIsTruthful'
<1> USE DEF SerialInv, SafetyInv
<1>1. /\ pc[a] = "completing" /\ status = "running" /\ audits = {}
      /\ NumRows = Checkpoint /\ seen[a] = counts
  BY DEF FinalizeWrite, StatusExpected, AuditsFollowStatus, Completed, CursorsExact
<1>2. /\ audits' = {<<counts, a>>}
      /\ counts' = counts /\ errors' = errors
      /\ status' = IF counts.quarantined > 0 THEN "completed_with_errors" ELSE "completed"
      /\ Checkpoint' = Checkpoint
  BY <1>1 DEF FinalizeWrite, Checkpoint
<1>3. counts.quarantined > 0 <=> errors # {}
  <2>1. counts.quarantined = Cardinality(errors) /\ counts.quarantined \in Nat
    BY DEF CountersExact, TypeOK, Counts
  <2>2. Cardinality(errors) = 0 <=> errors = {}
    BY FS_EmptySet
  <2>3. QED
    BY <2>1, <2>2
<1>4. AuditIsTruthful'
  BY <1>2, <1>3 DEF AuditIsTruthful, Completed
<1>5. AuditsFollowStatus'
  BY <1>1, <1>2 DEF AuditsFollowStatus, Completed
<1>6. QED
  BY <1>4, <1>5

LEMMA SerialWork ==
  ASSUME SerialInv, NEW a \in Attempts, Work(a) \/ BookkeepingFails(a)
  PROVE  SerialControl'
<1> USE DEF SerialInv, SafetyInv, SerialControl
<1>1. pc[a] \notin {"idle", "done"}
  BY DEF Work, Revive, AcquireLock, LockBusy, CommitChunk, ChunkAborts,
         ChunkCommitUnanswered, MarkFailed, ChunksDone, FinalizeRead, FinalizeWrite,
         ReleaseLock, BookkeepingFails, RequestAborts, LockQueryFails,
         MarkFailedAborts, FinalizeAborts, UnlockFails
<1>2. \A b \in Attempts \ {a} : pc[b] \in {"idle", "done"}
  BY <1>1, OthersRest
<1>3. status # "absent"
  BY <1>1 DEF NothingBeforeCreate, UnderWay
<1>4. \A b \in Attempts \ {a} : pc'[b] = pc[b] /\ cursor'[b] = cursor[b]
  BY DEF Work, Revive, AcquireLock, LockBusy, CommitChunk, ChunkAborts,
         ChunkCommitUnanswered, MarkFailed, ChunksDone, FinalizeRead, FinalizeWrite,
         ReleaseLock, BookkeepingFails, RequestAborts, LockQueryFails,
         MarkFailedAborts, FinalizeAborts, UnlockFails, TypeOK, Goto
<1>5. AloneUnderWay'
  BY <1>2, <1>4 DEF AloneUnderWay, UnderWay
<1>6. Checkpoint \in Nat /\ NumRows \in Nat /\ cursor[a] \in Nat
  BY RunAssumption DEF TypeOK, Counts, Checkpoint
<1>7. SUFFICES /\ CursorsExact' /\ StatusExpected' /\ NothingBeforeCreate'
               /\ AuditsFollowStatus' /\ AuditIsTruthful'
  BY <1>5
<1>8. CASE Revive(a)
  <2>1. Checkpoint' = Checkpoint /\ UNCHANGED <<counts, errors, audits>> /\ status = "failed"
    BY <1>8 DEF Revive, StatusExpected, Checkpoint
  <2>2. CursorsExact' /\ StatusExpected'
    BY <1>2, <1>4, <1>6, <1>8, <2>1 DEF Revive, AfterSetup, CursorsExact, StatusExpected,
         TypeOK, Goto
  <2>3. NothingBeforeCreate' /\ AuditsFollowStatus' /\ AuditIsTruthful'
    BY <1>8, <2>1 DEF Revive, NothingBeforeCreate, AuditsFollowStatus, AuditIsTruthful,
         Completed
  <2>4. QED
    BY <2>2, <2>3
<1>9. CASE \/ AcquireLock(a) \/ LockBusy(a) \/ ReleaseLock(a) \/ ChunkAborts(a)
           \/ ChunksDone(a) \/ FinalizeRead(a) \/ RequestAborts(a) \/ LockQueryFails(a)
           \/ MarkFailedAborts(a) \/ FinalizeAborts(a) \/ UnlockFails(a)
  <2>1. Checkpoint' = Checkpoint /\ UNCHANGED <<counts, errors, audits, status>>
    BY <1>9 DEF AcquireLock, LockIsToBeHad, LockBusy, ReleaseLock, ChunkAborts, ChunksDone, FinalizeRead,
         RequestAborts, LockQueryFails,
         MarkFailedAborts, FinalizeAborts, UnlockFails, dbVars, Checkpoint
  <2>2. NothingBeforeCreate' /\ AuditsFollowStatus' /\ AuditIsTruthful'
    BY <1>3, <2>1 DEF NothingBeforeCreate, AuditsFollowStatus, AuditIsTruthful, Completed
  <2>3. CASE AcquireLock(a) \/ LockBusy(a) \/ ReleaseLock(a) \/ ChunkAborts(a)
    BY <1>2, <1>4, <2>1, <2>2, <2>3 DEF AcquireLock, LockIsToBeHad, LockBusy, ReleaseLock, ChunkAborts,
         CursorsExact, StatusExpected, TypeOK, Goto
  <2>4. CASE ChunksDone(a)
    BY <1>2, <1>4, <1>6, <2>1, <2>2, <2>4 DEF ChunksDone, CursorsExact, StatusExpected,
         TypeOK, Goto
  <2>5. CASE FinalizeRead(a)
    BY <1>2, <1>4, <2>1, <2>2, <2>5 DEF FinalizeRead, CursorsExact, StatusExpected,
         TypeOK, Goto
  <2>6. CASE \/ RequestAborts(a) \/ LockQueryFails(a)
             \/ MarkFailedAborts(a) \/ FinalizeAborts(a) \/ UnlockFails(a)
    BY <1>2, <1>4, <2>1, <2>2, <2>6 DEF RequestAborts, LockQueryFails,
         MarkFailedAborts, FinalizeAborts, UnlockFails, AfterFinalize,
         CursorsExact, StatusExpected, TypeOK, Goto
  <2>7. QED
    BY <1>9, <2>3, <2>4, <2>5, <2>6
<1>10. CASE MarkFailed(a)
  <2>1. Checkpoint' = Checkpoint /\ UNCHANGED <<counts, errors, audits>>
        /\ status = "running" /\ status' = "failed" /\ pc'[a] = "releasing"
    BY <1>10 DEF MarkFailed, StatusExpected, Checkpoint, TypeOK, Goto
  <2>2. CursorsExact' /\ StatusExpected'
    BY <1>2, <1>4, <2>1 DEF CursorsExact, StatusExpected
  <2>3. NothingBeforeCreate' /\ AuditsFollowStatus' /\ AuditIsTruthful'
    BY <2>1 DEF NothingBeforeCreate, AuditsFollowStatus, AuditIsTruthful, Completed
  <2>4. QED
    BY <2>2, <2>3
<1>11. CASE FinalizeWrite(a)
  <2>1. AuditsFollowStatus' /\ AuditIsTruthful'
    BY <1>11, SerialFinalize
  <2>2. CursorsExact' /\ StatusExpected' /\ NothingBeforeCreate'
    BY <1>2, <1>4, <1>11 DEF FinalizeWrite, AfterFinalize, CursorsExact, StatusExpected,
         NothingBeforeCreate, TypeOK, Goto
  <2>3. QED
    BY <2>1, <2>2
<1>12. CASE CommitChunk(a) \/ ChunkCommitUnanswered(a)
  <2>1. pc[a] = "working" /\ cursor[a] < NumRows /\ ChunkEffect(a)
    BY <1>12 DEF CommitChunk, ChunkCommitUnanswered
  <2>2. /\ cursor[a] = Checkpoint /\ Checkpoint' = ChunkEnd(a)
        /\ ChunkEnd(a) = NumRows \/ ChunkEnd(a) = cursor[a] + ChunkSize
        /\ ChunkEnd(a) \in Nat /\ ChunkSize \in Nat
        /\ ChunkEnd(a) <= NumRows /\ ChunkEnd(a) <= cursor[a] + ChunkSize
    BY <2>1, SerialChunk, CheckpointGrows, ChunkRows
  <2>3. UNCHANGED <<audits, status>> /\ status = "running"
    BY <1>12, <2>1 DEF CommitChunk, ChunkCommitUnanswered, StatusExpected
  <2>4. NothingBeforeCreate' /\ AuditsFollowStatus' /\ AuditIsTruthful'
    BY <2>3 DEF NothingBeforeCreate, AuditsFollowStatus, AuditIsTruthful, Completed
  <2>5. CASE CommitChunk(a)
    <3>1. pc'[a] = "working" /\ cursor'[a] = cursor[a] + ChunkSize
      BY <2>5 DEF CommitChunk, TypeOK
    <3>2. cursor'[a] = Checkpoint' \/ (NumRows <= cursor'[a] /\ NumRows = Checkpoint')
      BY <1>6, <2>2, <3>1
    <3>3. CursorsExact' /\ StatusExpected'
      BY <1>2, <1>4, <2>3, <3>1, <3>2 DEF CursorsExact, StatusExpected
    <3>4. QED
      BY <2>4, <3>3
  <2>6. CASE ChunkCommitUnanswered(a)
    <3>1. pc'[a] = "failing"
      BY <2>6 DEF ChunkCommitUnanswered, TypeOK, Goto
    <3>2. CursorsExact' /\ StatusExpected'
      BY <1>2, <1>4, <2>3, <3>1 DEF CursorsExact, StatusExpected
    <3>3. QED
      BY <2>4, <3>2
  <2>7. QED
    BY <1>12, <2>5, <2>6
<1>13. QED
  BY <1>8, <1>9, <1>10, <1>11, <1>12 DEF Work, BookkeepingFails

LEMMA SerialCrash ==
  ASSUME SerialInv, Crash \/ PoolCloses
  PROVE  SerialControl' /\ UNCHANGED <<objects, errors, counts>>
<1>1. UNCHANGED <<objects, errors, counts, audits, status>> /\ Checkpoint' = Checkpoint
  BY DEF Crash, PoolCloses, dbVars, Checkpoint
<1>2. \A a \in Attempts : pc'[a] \in {"idle", "done"} \/ UNCHANGED <<pc, cursor, seen>>
  BY DEF Crash, PoolCloses, UnderWay
<1>3. AloneUnderWay' /\ CursorsExact' /\ StatusExpected' /\ NothingBeforeCreate'
  BY <1>1, <1>2 DEF AloneUnderWay, UnderWay, CursorsExact, StatusExpected,
       NothingBeforeCreate, SerialInv
<1>4. AuditsFollowStatus' /\ AuditIsTruthful'
  BY <1>1 DEF AuditsFollowStatus, AuditIsTruthful, Completed, SerialInv
<1>5. QED
  BY <1>1, <1>3, <1>4 DEF SerialControl

(* A step commits rows of one chunk or none.                               *)
LEMMA TablesStep ==
  ASSUME SerialInv, NEW a \in Attempts, Work(a) \/ BookkeepingFails(a)
  PROVE  ExactlyOnce' /\ CheckpointIsPrefix' /\ (Checkpoint <= NumRows)'
<1> USE DEF SerialInv, SafetyInv
<1>1. CASE CommitChunk(a) \/ ChunkCommitUnanswered(a)
  <2>1. pc[a] = "working" /\ cursor[a] < NumRows /\ ChunkEffect(a)
    BY <1>1 DEF CommitChunk, ChunkCommitUnanswered
  <2>2. QED
    BY <2>1, SerialChunk, ChunkRows
<1>2. CASE UNCHANGED <<objects, errors, counts>>
  BY <1>2, TablesUnchanged
<1>3. CommitChunk(a) \/ ChunkCommitUnanswered(a) \/ UNCHANGED <<objects, errors, counts>>
  BY DEF Work, Revive, AcquireLock, LockBusy, ChunkAborts, MarkFailed, ChunksDone,
         FinalizeRead, FinalizeWrite, ReleaseLock, BookkeepingFails, RequestAborts,
         LockQueryFails, MarkFailedAborts, FinalizeAborts, UnlockFails, dbVars
<1>4. QED
  BY <1>1, <1>2, <1>3

LEMMA SerialInit == Init => SerialInv
<1> SUFFICES ASSUME Init PROVE SerialInv
  OBVIOUS
<1>1. SafetyInv /\ Checkpoint = 0
  BY SafetyInit DEF Init, Checkpoint
<1>2. ExactlyOnce
  BY DEF Init, ExactlyOnce
<1>3. CheckpointIsPrefix
  BY <1>1 DEF Init, CheckpointIsPrefix, Committed
<1>4. AloneUnderWay /\ CursorsExact /\ StatusExpected /\ NothingBeforeCreate
  BY <1>1 DEF Init, AloneUnderWay, UnderWay, CursorsExact, StatusExpected, NothingBeforeCreate
<1>5. AuditsFollowStatus /\ AuditIsTruthful
  BY DEF Init, AuditsFollowStatus, AuditIsTruthful, Completed
<1>6. QED
  BY <1>1, <1>2, <1>3, <1>4, <1>5, RunAssumption DEF SerialInv

LEMMA SerialStep == SerialInv /\ [SerialNext]_vars => SerialInv'
<1> SUFFICES ASSUME SerialInv, [SerialNext]_vars PROVE SerialInv'
  OBVIOUS
<1>1. SafetyInv'
  BY SafetyStep DEF SerialInv, SerialNext
<1>2. ASSUME SerialControl', ExactlyOnce', CheckpointIsPrefix', (Checkpoint <= NumRows)'
      PROVE  SerialInv'
  BY <1>1, <1>2 DEF SerialInv, SerialControl
<1>3. CASE UNCHANGED vars
  <2>1. UNCHANGED <<objects, errors, counts, audits, status, pc, cursor, seen>>
    BY <1>3 DEF vars
  <2>2. SerialControl'
    BY <2>1 DEF SerialInv, SerialControl, AloneUnderWay, UnderWay, CursorsExact,
         StatusExpected, NothingBeforeCreate, AuditsFollowStatus, AuditIsTruthful,
         Completed, Checkpoint
  <2>3. QED
    BY <1>2, <2>1, <2>2, TablesUnchanged DEF SerialInv
<1>4. ASSUME NEW a \in Attempts, Request(a), Serially PROVE SerialInv'
  BY <1>2, <1>4, SerialRequest, TablesUnchanged DEF SerialInv
<1>5. ASSUME NEW a \in Attempts, Work(a) \/ BookkeepingFails(a) PROVE SerialInv'
  BY <1>2, <1>5, SerialWork, TablesStep
<1>6. CASE Crash \/ PoolCloses
  BY <1>2, <1>6, SerialCrash, TablesUnchanged DEF SerialInv
<1>7. QED
  BY <1>3, <1>4, <1>5, <1>6 DEF SerialNext, Next

THEOREM SerialInvariant == SerialSpec => []SerialInv
BY SerialInit, SerialStep, PTL DEF SerialSpec

(* As long as a request is only sent when no attempt is under way, no row  *)
(* is committed twice, through any number of failures and crashes.         *)
THEOREM SerialExactlyOnce == SerialSpec => []ExactlyOnce
<1>1. SerialInv => ExactlyOnce
  BY DEF SerialInv
<1>2. QED
  BY SerialInvariant, <1>1, PTL

(* ... and the counters are the length of the committed prefix of the      *)
(* file, which is what a resume takes them for.                            *)
THEOREM SerialCheckpoint == SerialSpec => []CheckpointIsPrefix
<1>1. SerialInv => CheckpointIsPrefix
  BY DEF SerialInv
<1>2. QED
  BY SerialInvariant, <1>1, PTL

(* ... and a completed run has committed every row of the file.            *)
THEOREM SerialCompleteness == SerialSpec => []CompletedHasEveryRow
<1>1. SerialInv => CompletedHasEveryRow
  <2> SUFFICES ASSUME SerialInv, Completed, NEW r \in Rows PROVE Committed(r)
    BY DEF CompletedHasEveryRow
  <2>1. NumRows = Checkpoint
    BY DEF SerialInv, AuditsFollowStatus
  <2>2. QED
    BY <2>1 DEF SerialInv, CheckpointIsPrefix, Rows
<1>2. QED
  BY SerialInvariant, <1>1, PTL

(* ... and its one audit entry has the numbers of the run.                 *)
THEOREM SerialAudit == SerialSpec => []AuditIsTruthful
<1>1. SerialInv => AuditIsTruthful
  BY DEF SerialInv
<1>2. QED
  BY SerialInvariant, <1>1, PTL

-----------------------------------------------------------------------------
(* A serially used run implements the ingestion job                        *)

(* A table that has each row at most once has as many entries as rows.     *)
LEMMA OneEntryPerRow ==
  ASSUME NEW table \in SUBSET (Rows \X Attempts), IsFiniteSet(table),
         \A r \in Rows, a, b \in Attempts :
           <<r, a>> \in table /\ <<r, b>> \in table => a = b
  PROVE  Cardinality(RowsOf(table)) = Cardinality(table)
<1> DEFINE row == [e \in table |-> e[1]]
<1>1. \A e \in table : e = <<e[1], e[2]>> /\ e[1] \in Rows /\ e[2] \in Attempts
  OBVIOUS
<1>2. row \in [table -> RowsOf(table)]
  BY <1>1 DEF RowsOf
<1>3. \A d, e \in table : row[d] = row[e] => d = e
  BY <1>1
<1>4. \A r \in RowsOf(table) : \E e \in table : row[e] = r
  BY DEF RowsOf
<1>5. row \in Bijection(table, RowsOf(table))
  BY <1>2, <1>3, <1>4 DEF Bijection, Injection, Surjection, IsInjective
<1>6. ExistsBijection(table, RowsOf(table))
  BY <1>5 DEF ExistsBijection
<1>7. QED
  BY <1>6, FS_Bijection

(* The rows the job has taken are the committed prefix of the file.        *)
LEMMA TakenRows ==
  ASSUME SerialInv
  PROVE  RowsOf(objects) \cup RowsOf(errors) = 1..Checkpoint
BY DEF SerialInv, CheckpointIsPrefix, Committed, RowsOf

LEMMA ChunkRefines ==
  ASSUME SerialInv, NEW a \in Attempts, CommitChunk(a) \/ ChunkCommitUnanswered(a)
  PROVE  Job!Advance
<1> USE DEF SerialInv, SafetyInv
<1>1. pc[a] = "working" /\ cursor[a] < NumRows /\ ChunkEffect(a)
  BY DEF CommitChunk, ChunkCommitUnanswered
<1>2. PICK q \in Quarantines(Chunk(a)) :
        /\ objects' = objects \cup ((Chunk(a) \ q) \X {a})
        /\ errors' = errors \cup (q \X {a})
  BY <1>1 DEF ChunkEffect
<1>3. /\ cursor[a] = Checkpoint
      /\ Checkpoint \in Nat /\ NumRows \in Nat /\ ChunkSize \in Nat
      /\ ChunkEnd(a) \in Nat /\ Checkpoint < ChunkEnd(a)
      /\ ChunkEnd(a) <= NumRows /\ ChunkEnd(a) <= Checkpoint + ChunkSize
      /\ Chunk(a) \subseteq Rows
  BY <1>1, SerialChunk, CheckpointGrows, ChunkRows
<1>4. Chunk(a) = (Checkpoint + 1)..ChunkEnd(a)
  BY <1>3 DEF Chunk
<1>5. q \in SUBSET Chunk(a)
  BY QuarantinedRows
<1>6. /\ RowsOf(errors)' = RowsOf(errors) \cup q
      /\ RowsOf(objects)' = RowsOf(objects) \cup (Chunk(a) \ q)
  BY <1>2, <1>3, <1>5 DEF RowsOf
<1>7. JobPhase = "open" /\ UNCHANGED <<JobPhase, JobReport>>
  <2>1. status = "running" /\ UNCHANGED <<status, audits>>
    BY <1>1 DEF CommitChunk, ChunkCommitUnanswered, StatusExpected
  <2>2. QED
    BY <2>1 DEF JobPhase, Completed, JobReport
<1>8. RowsOf(objects) \cup RowsOf(errors) = 1..Checkpoint
  BY TakenRows
<1>9. Checkpoint \in 0..NumRows /\ ChunkEnd(a) \in 1..NumRows
  BY <1>3
<1>10. \E n \in 0..NumRows, m \in 1..NumRows :
         /\ RowsOf(objects) \cup RowsOf(errors) = 1..n
         /\ n < m /\ m <= n + ChunkSize
         /\ \E bad \in SUBSET ((n+1)..m) :
              /\ RowsOf(errors)' = RowsOf(errors) \cup bad
              /\ RowsOf(objects)' = RowsOf(objects) \cup (((n+1)..m) \ bad)
  BY <1>3, <1>4, <1>5, <1>6, <1>8, <1>9
<1>11. QED
  BY <1>7, <1>10 DEF Job!Advance

LEMMA FinalizeRefines ==
  ASSUME SerialInv, NEW a \in Attempts, FinalizeWrite(a)
  PROVE  Job!Complete
<1> USE DEF SerialInv, SafetyInv
<1>1. /\ status = "running" /\ audits = {} /\ NumRows = Checkpoint /\ seen[a] = counts
  BY DEF FinalizeWrite, StatusExpected, AuditsFollowStatus, Completed, CursorsExact
<1>2. /\ status' \in {"completed", "completed_with_errors"}
      /\ audits' = {<<counts, a>>}
      /\ UNCHANGED <<objects, errors>>
  BY <1>1 DEF FinalizeWrite
<1>3. JobPhase = "open" /\ JobPhase' = "complete"
  BY <1>1, <1>2 DEF JobPhase, Completed
<1>4. JobReport' = {counts}
  BY <1>2 DEF JobReport
<1>5. /\ Cardinality(RowsOf(objects)) = counts.ingested
      /\ Cardinality(RowsOf(errors)) = counts.quarantined
  <2>1. /\ objects \in SUBSET (Rows \X Attempts) /\ errors \in SUBSET (Rows \X Attempts)
    BY DEF TypeOK
  <2>2. /\ Cardinality(RowsOf(objects)) = Cardinality(objects)
        /\ Cardinality(RowsOf(errors)) = Cardinality(errors)
    BY <2>1, OneEntryPerRow DEF ExactlyOnce
  <2>3. QED
    BY <2>2 DEF CountersExact
<1>6. counts = [ingested |-> Cardinality(RowsOf(objects)),
                quarantined |-> Cardinality(RowsOf(errors))]
  BY <1>5 DEF TypeOK, Counts
<1>7. RowsOf(objects) \cup RowsOf(errors) = 1..NumRows
  BY <1>1, TakenRows
<1>8. UNCHANGED <<RowsOf(objects), RowsOf(errors)>>
  BY <1>2 DEF RowsOf
<1>9. JobReport' = {[ingested |-> Cardinality(RowsOf(objects)),
                     quarantined |-> Cardinality(RowsOf(errors))]}
  BY <1>4, <1>6
<1>10. \A S : Job!Cardinality(S) = Cardinality(S)
  BY DEF Job!Cardinality, Cardinality
<1>11. QED
  BY <1>3, <1>7, <1>8, <1>9, <1>10 DEF Job!Complete

(* Every other step changes nothing the job can see.                       *)
LEMMA OtherStepsStutter ==
  ASSUME UNCHANGED <<objects, errors, audits>>, UNCHANGED JobPhase
  PROVE  UNCHANGED Job!jobVars
BY DEF Job!jobVars, RowsOf, JobReport

LEMMA JobStep ==
  ASSUME SerialInv, [SerialNext]_vars
  PROVE  [Job!JobNext]_(Job!jobVars)
<1> USE DEF SerialInv, SafetyInv
<1>1. CASE UNCHANGED vars
  BY <1>1, OtherStepsStutter DEF vars, JobPhase, Completed
<1>2. ASSUME NEW a \in Attempts, Request(a), Serially PROVE [Job!JobNext]_(Job!jobVars)
  <2>1. CASE Create(a)
    <3>1. JobPhase = "none" /\ JobPhase' = "open"
      BY <2>1 DEF Create, JobPhase, Completed
    <3>2. UNCHANGED <<RowsOf(objects), RowsOf(errors), JobReport>>
      BY <2>1 DEF Create, RowsOf, JobReport
    <3>3. QED
      BY <3>1, <3>2 DEF Job!Open, Job!JobNext
  <2>2. CASE ResumeRead(a) \/ ResumeRefused(a)
    BY <2>2, OtherStepsStutter DEF ResumeRead, ResumeRefused, dbVars, JobPhase, Completed
  <2>3. QED
    BY <1>2, <2>1, <2>2 DEF Request
<1>3. ASSUME NEW a \in Attempts, Work(a) \/ BookkeepingFails(a)
      PROVE  [Job!JobNext]_(Job!jobVars)
  <2>1. CASE CommitChunk(a) \/ ChunkCommitUnanswered(a)
    BY <2>1, ChunkRefines DEF Job!JobNext
  <2>2. CASE FinalizeWrite(a)
    BY <2>2, FinalizeRefines DEF Job!JobNext
  <2>3. CASE Revive(a) \/ MarkFailed(a)
    <3>1. status \in {"running", "failed"} /\ status' \in {"running", "failed"}
      BY <2>3 DEF Revive, MarkFailed, StatusExpected
    <3>2. UNCHANGED JobPhase
      BY <3>1 DEF JobPhase, Completed
    <3>3. QED
      BY <2>3, <3>2, OtherStepsStutter DEF Revive, MarkFailed
  <2>4. CASE \/ AcquireLock(a) \/ LockBusy(a) \/ ChunkAborts(a) \/ ChunksDone(a)
             \/ FinalizeRead(a) \/ ReleaseLock(a) \/ BookkeepingFails(a)
    BY <2>4, OtherStepsStutter DEF AcquireLock, LockIsToBeHad, LockBusy, ChunkAborts, ChunksDone,
         FinalizeRead, ReleaseLock, BookkeepingFails, RequestAborts, LockQueryFails,
         MarkFailedAborts, FinalizeAborts, UnlockFails,
         dbVars, JobPhase, Completed
  <2>5. QED
    BY <1>3, <2>1, <2>2, <2>3, <2>4 DEF Work
<1>4. CASE Crash \/ PoolCloses
  BY <1>4, OtherStepsStutter DEF Crash, PoolCloses, dbVars, JobPhase, Completed
<1>5. QED
  BY <1>1, <1>2, <1>3, <1>4 DEF SerialNext, Next

(* A run whose requests come one at a time processes its file as promised: *)
(* in order, each row once, complete only at the end, one true report.     *)
THEOREM SerialRunIsAJob == SerialSpec => JobRefinement
<1>1. Init => Job!JobInit
  BY DEF Init, Job!JobInit, JobPhase, RowsOf, JobReport
<1>2. SerialInv /\ [SerialNext]_vars => [Job!JobNext]_(Job!jobVars)
  BY JobStep
<1>3. QED
  BY <1>1, <1>2, SerialInvariant, PTL DEF SerialSpec, JobRefinement, Job!JobSpec
=============================================================================
