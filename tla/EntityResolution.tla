-------------------------- MODULE EntityResolution --------------------------
(***************************************************************************)
(* Entity resolution: ingestion links a new object to the one it           *)
(* duplicates or queues the two for review (routes/ingestion.ts), and      *)
(* reviewers merge them, decline, or undo a merge                          *)
(* (routes/resolutionQueue.ts).                                            *)
(*                                                                         *)
(* All objects are of one type, as only those are compared.  Ids are       *)
(* numbers in the order of insertion.  A pair of the queue is named by its *)
(* newer object, object_b_id: that object was new when it was queued, so   *)
(* it is queued at most once.  How alike two objects are is not modelled:  *)
(* a new object may match any candidate, or none.                          *)
(***************************************************************************)
EXTENDS Integers, FiniteSets, Sequences

CONSTANTS Chunks,      \* transactions of ingestion
          Reviews,     \* requests to decide a pair or to undo a merge
          MaxObjects,  \* bound on the objects ever inserted
          ChunkSize,   \* CHUNK_SIZE
          Restricted,  \* objects not every session is cleared for
          Cleared      \* chunks and reviews of sessions cleared for all

Ids == 1 .. MaxObjects

ASSUME ResolutionAssumption ==
  /\ MaxObjects \in Nat
  /\ ChunkSize \in Nat \ {0}
  /\ Chunks \cap Reviews = {}
  /\ Restricted \subseteq Ids

Null == 0

DECISIONS == {"merged", "not_a_match", "skipped"}

VARIABLES
  known,        \* committed objects
  inserted,     \* objects a chunk has inserted and not committed
  canonicalOf,  \* objects.canonical_of
  objectA,      \* object_a_id of a pair, Null where there is no pair
  decision,     \* resolution_queue.decision
  at,           \* where each transaction is: "idle", "open" or "ended"
  review        \* a review's pair, its verdict and the rows it has to write

rows == <<known, inserted, canonicalOf, objectA, decision>>
vars == <<known, inserted, canonicalOf, objectA, decision, at, review>>

NoReview == [pair |-> Null, verdict |-> "pending", wrote |-> {}, todo |-> <<>>]

Init ==
  /\ known = {}
  /\ inserted = [c \in Chunks |-> {}]
  /\ canonicalOf = [o \in Ids |-> Null]
  /\ objectA = [o \in Ids |-> Null]
  /\ decision = [o \in Ids |-> "pending"]
  /\ at = [t \in Chunks \cup Reviews |-> "idle"]
  /\ review = [r \in Reviews |-> NoReview]

(* Row-level security on objects: an object's classification is within the *)
(* session's clearance.                                                    *)
Visible(t, o) == t \in Cleared \/ o \notin Restricted

-----------------------------------------------------------------------------
(* Deviations: each changes the definition it is named after the way a     *)
(* plausible mistake would.  None is part of the specification.            *)

(* PairVisible as it was before migration 011.                             *)
PairVisibleToAll(t, b) == TRUE

(* Candidates without the test that the new object is another one.         *)
CandidatesAndItself(c, b) ==
  {o \in known \cup inserted[c] \cup {b} : canonicalOf[o] = Null /\ Visible(c, o)}

(* Statements with an undo that writes in the opposite order.              *)
StatementsUndoQueueFirst(verdict) ==
  CASE verdict = "merged" -> <<"object", "queue">>
    [] verdict = "pending" -> <<"queue", "object">>
    [] OTHER -> <<"queue">>

-----------------------------------------------------------------------------
(* Row-level security on the queue, since migration 011: both objects are. *)
PairVisible(t, b) == Visible(t, objectA[b]) /\ Visible(t, b)

Pairs == {b \in known : objectA[b] # Null}

-----------------------------------------------------------------------------
(* Ingestion                                                               *)

Used == known \cup UNION {inserted[c] : c \in Chunks}

(* The id of the next object.                                              *)
IsNext(b) ==
  /\ \A o \in Used : o < b
  /\ \A o \in Ids : o < b => \E u \in Used : o <= u

(* id <> $4 AND canonical_of IS NULL, among what the transaction sees.     *)
Candidates(c, b) ==
  {o \in (known \cup inserted[c]) \ {b} : canonicalOf[o] = Null /\ Visible(c, o)}

(* A valid row: a new object, alone, or merged at once with the best       *)
(* candidate, or queued with it.  The one statement that depends on other  *)
(* transactions is the search, so that the row is one step.                *)
IngestRow(c) ==
  /\ at[c] \in {"idle", "open"}
  /\ Cardinality(inserted[c]) < ChunkSize
  /\ \E b \in Ids :
       /\ IsNext(b)
       /\ Visible(c, b)
       /\ inserted' = [inserted EXCEPT ![c] = @ \cup {b}]
       /\ \/ UNCHANGED <<canonicalOf, objectA>>
          \/ \E best \in Candidates(c, b) :
               /\ canonicalOf' = [canonicalOf EXCEPT ![b] = best]
               /\ UNCHANGED objectA
          \/ \E best \in Candidates(c, b) :
               /\ objectA' = [objectA EXCEPT ![b] = best]
               /\ UNCHANGED canonicalOf
  /\ at' = [at EXCEPT ![c] = "open"]
  /\ UNCHANGED <<known, decision, review>>

CommitChunk(c) ==
  /\ at[c] = "open"
  /\ known' = known \cup inserted[c]
  /\ inserted' = [inserted EXCEPT ![c] = {}]
  /\ at' = [at EXCEPT ![c] = "ended"]
  /\ UNCHANGED <<canonicalOf, objectA, decision, review>>

ChunkAborts(c) ==
  /\ at[c] = "open"
  /\ inserted' = [inserted EXCEPT ![c] = {}]
  /\ canonicalOf' = [o \in Ids |-> IF o \in inserted[c] THEN Null ELSE canonicalOf[o]]
  /\ objectA' = [o \in Ids |-> IF o \in inserted[c] THEN Null ELSE objectA[o]]
  /\ at' = [at EXCEPT ![c] = "ended"]
  /\ UNCHANGED <<known, decision, review>>

-----------------------------------------------------------------------------
(* Review.  A request that undoes a merge is one whose verdict is          *)
(* "pending".                                                              *)

(* The rows a request updates, in its order.                               *)
Statements(verdict) ==
  IF verdict \in {"merged", "pending"} THEN <<"object", "queue">> ELSE <<"queue">>

(* SELECT * FROM resolution_queue WHERE id = $1, and what comes of it: 404 *)
(* for a pair that is not there or not visible, 400 for an undo of what is *)
(* not merged.  A decision asks nothing of the pair.                       *)
ReadPair(r) ==
  /\ at[r] = "idle"
  /\ \E b \in Pairs, verdict \in DECISIONS \cup {"pending"} :
       /\ PairVisible(r, b)
       /\ verdict = "pending" => decision[b] = "merged"
       /\ review' = [review EXCEPT ![r] =
            [pair |-> b, verdict |-> verdict, wrote |-> {}, todo |-> Statements(verdict)]]
  /\ at' = [at EXCEPT ![r] = "open"]
  /\ UNCHANGED rows

(* The object or the pair is updated by an open transaction, whose row     *)
(* lock keeps others waiting.                                              *)
Locked(row, b) ==
  \E r \in Reviews : at[r] = "open" /\ review[r].pair = b /\ row \in review[r].wrote

(* An UPDATE that matches no row, because the session does not see it,     *)
(* locks nothing.  A merge then ends with 403; an undo does not look.      *)
Update(r) ==
  LET b == review[r].pair
      row == Head(review[r].todo)
      matches == row = "queue" \/ Visible(r, b)
      blocked == ~matches /\ review[r].verdict = "merged"
  IN  /\ at[r] = "open"
      /\ review[r].todo # <<>>
      /\ ~Locked(row, b)
      /\ review' = [review EXCEPT ![r].todo = Tail(@),
                                  ![r].wrote = IF matches THEN @ \cup {row} ELSE @]
      /\ at' = [at EXCEPT ![r] = IF blocked THEN "ended" ELSE @]
      /\ UNCHANGED rows

(* What canonical_of of the pair's newer object is set to.                 *)
Link(r) == IF review[r].verdict = "merged" THEN objectA[review[r].pair] ELSE Null

(* COMMIT, after the audit entry: both rows change for everybody else.     *)
CommitReview(r) ==
  LET b == review[r].pair IN
  /\ at[r] = "open"
  /\ review[r].todo = <<>>
  /\ canonicalOf' = IF "object" \in review[r].wrote
                    THEN [canonicalOf EXCEPT ![b] = Link(r)]
                    ELSE canonicalOf
  /\ decision' = IF "queue" \in review[r].wrote
                 THEN [decision EXCEPT ![b] = review[r].verdict]
                 ELSE decision
  /\ at' = [at EXCEPT ![r] = "ended"]
  /\ UNCHANGED <<known, inserted, objectA, review>>

(* A statement fails or the process goes down.                             *)
ReviewAborts(r) ==
  /\ at[r] = "open"
  /\ at' = [at EXCEPT ![r] = "ended"]
  /\ UNCHANGED <<known, inserted, canonicalOf, objectA, decision, review>>

Ingest(c) == IngestRow(c) \/ CommitChunk(c) \/ ChunkAborts(c)

Proceed(r) == Update(r) \/ CommitReview(r)

Next ==
  \/ \E c \in Chunks : Ingest(c)
  \/ \E r \in Reviews : ReadPair(r) \/ Proceed(r) \/ ReviewAborts(r)

Spec == Init /\ [][Next]_vars

(* A review that has begun goes on as soon as no row lock is in its way.   *)
FairSpec == Spec /\ \A r \in Reviews : WF_vars(Proceed(r))

-----------------------------------------------------------------------------
(* Properties                                                              *)

ReviewStates ==
  [pair : Ids \cup {Null}, verdict : DECISIONS \cup {"pending"},
   wrote : SUBSET {"object", "queue"}, todo : {<<>>, <<"queue">>, <<"object", "queue">>}]

TypeOK ==
  /\ known \subseteq Ids
  /\ inserted \in [Chunks -> SUBSET Ids]
  /\ canonicalOf \in [Ids -> Ids \cup {Null}]
  /\ objectA \in [Ids -> Ids \cup {Null}]
  /\ decision \in [Ids -> DECISIONS \cup {"pending"}]
  /\ at \in [Chunks \cup Reviews -> {"idle", "open", "ended"}]
  /\ review \in [Reviews -> ReviewStates]
  /\ \A o \in Ids \ Used : canonicalOf[o] = Null /\ objectA[o] = Null

(* What the queue says is so: a pair recorded as merged is merged, and one *)
(* that is pending, new or undone, is not - whoever decides and undoes it  *)
(* at the same time, and whatever the session may see.                     *)
DecisionsAreTrue ==
  \A b \in Pairs :
    /\ decision[b] = "merged" => canonicalOf[b] = objectA[b]
    /\ decision[b] = "pending" => canonicalOf[b] = Null

(* Following canonical_of from any object ends at a canonical one: no set  *)
(* of objects is closed under it, whatever merges of whatever chunks and   *)
(* reviewers have made it long.                                            *)
NoMergeCycle ==
  \A loop \in SUBSET known : loop # {} => \E o \in loop : canonicalOf[o] \notin loop

(* Reviews of one pair do not keep each other waiting: each ends.          *)
ReviewEnds == \A r \in Reviews : at[r] = "open" ~> at[r] = "ended"

(* "Merge sets objects.canonical_of on the duplicate (reversible) rather   *)
(* than deleting it, so a bad merge can be undone": the undo of a pair     *)
(* whose objects are merged is not refused.                                *)
MergeCanBeUndone ==
  \A b \in Pairs : canonicalOf[b] # Null => decision[b] = "merged"
=============================================================================
