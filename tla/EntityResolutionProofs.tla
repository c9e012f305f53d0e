----------------------- MODULE EntityResolutionProofs -----------------------
(***************************************************************************)
(* Proofs about EntityResolution, for any number of objects, chunks and    *)
(* reviews, any chunk size and any clearances.                             *)
(***************************************************************************)
EXTENDS EntityResolution, WellFoundedInduction, TLAPS

-----------------------------------------------------------------------------
(* The inductive invariant.                                                *)

(* Links and pairs point to objects inserted earlier.                      *)
PointsBack == \A o \in Ids : canonicalOf[o] < o /\ objectA[o] < o

(* An object belongs to one transaction, or to everybody.                  *)
InsertedApart ==
  \A c \in Chunks :
    /\ inserted[c] \cap known = {}
    /\ \A d \in Chunks \ {c} : inserted[c] \cap inserted[d] = {}

(* Nobody has decided an object that is not committed, and an object is    *)
(* merged or queued when it is inserted, not both.                         *)
NewAreUndecided ==
  \A o \in Ids \ known :
    /\ decision[o] = "pending"
    /\ objectA[o] # Null => canonicalOf[o] = Null

(* An open review has found its pair, sees both objects, and has done what *)
(* it no longer has to do.                                                 *)
ReviewSound(r) ==
  /\ review[r].pair \in Pairs
  /\ PairVisible(r, review[r].pair)
  /\ review[r].todo = <<>> => "queue" \in review[r].wrote
  /\ review[r].verdict \in {"merged", "pending"} =>
       review[r].todo = <<"object", "queue">> \/ "object" \in review[r].wrote
  /\ review[r].verdict \notin {"merged", "pending"} =>
       review[r].todo # <<"object", "queue">> /\ "object" \notin review[r].wrote

ReviewsSound == \A r \in Reviews : at[r] = "open" => ReviewSound(r)

ResolutionInv ==
  TypeOK /\ PointsBack /\ InsertedApart /\ NewAreUndecided /\ ReviewsSound
    /\ DecisionsAreTrue

-----------------------------------------------------------------------------
(* Lemmas                                                                  *)

(* What a transaction may still have to write, statement by statement.     *)
LEMMA TodoParts ==
  /\ Head(<<"queue">>) = "queue" /\ Tail(<<"queue">>) = <<>>
  /\ Head(<<"object", "queue">>) = "object"
  /\ Tail(<<"object", "queue">>) = <<"queue">>
  /\ <<>> # <<"queue">> /\ <<>> # <<"object", "queue">>
  /\ <<"queue">> # <<"object", "queue">>
<1>1. Len(<<>>) = 0 /\ Len(<<"queue">>) = 1 /\ Len(<<"object", "queue">>) = 2
  OBVIOUS
<1>2. QED
  BY <1>1

(* A nonempty set of ids has a least member.                               *)
LEMMA LeastId ==
  ASSUME NEW S \in SUBSET Ids, S # {}
  PROVE  \E x \in S : \A y \in S : ~(y < x)
<1>1. S \subseteq Nat
  BY ResolutionAssumption DEF Ids
<1>2. IsWellFoundedOn(OpToRel(<, Nat), Nat)
  BY NatLessThanWellFounded
<1>3. PICK x \in S : \A y \in S : ~(<<y, x>> \in OpToRel(<, Nat))
  BY <1>1, <1>2, WFMin
<1>4. QED
  BY <1>1, <1>3 DEF OpToRel

(* Links that point back close no cycle.                                   *)
LEMMA BackwardsIsAcyclic == TypeOK /\ PointsBack => NoMergeCycle
<1> SUFFICES ASSUME TypeOK, PointsBack, NEW loop \in SUBSET known, loop # {}
             PROVE  \E o \in loop : canonicalOf[o] \notin loop
  BY DEF NoMergeCycle
<1>1. loop \in SUBSET Ids
  BY DEF TypeOK
<1>2. PICK o \in loop : \A y \in loop : ~(y < o)
  BY <1>1, LeastId
<1>3. canonicalOf[o] < o
  BY <1>1 DEF PointsBack
<1>4. QED
  BY <1>2, <1>3

-----------------------------------------------------------------------------
(* Ingestion preserves the invariant                                       *)

(* A new row: its id is above all others, so that what it points to was    *)
(* inserted earlier, and it was neither linked nor queued.                 *)
LEMMA IngestRowInv ==
  ASSUME ResolutionInv, NEW c \in Chunks, IngestRow(c)
  PROVE  ResolutionInv'
<1>1. PICK b \in Ids :
        /\ IsNext(b)
        /\ Visible(c, b)
        /\ inserted' = [inserted EXCEPT ![c] = @ \cup {b}]
        /\ \/ UNCHANGED <<canonicalOf, objectA>>
           \/ \E best \in Candidates(c, b) :
                /\ canonicalOf' = [canonicalOf EXCEPT ![b] = best]
                /\ UNCHANGED objectA
           \/ \E best \in Candidates(c, b) :
                /\ objectA' = [objectA EXCEPT ![b] = best]
                /\ UNCHANGED canonicalOf
  BY DEF IngestRow
<1>2. /\ at' = [at EXCEPT ![c] = "open"]
      /\ UNCHANGED <<known, decision, review>>
  BY DEF IngestRow
<1> USE DEF ResolutionInv
<1>3. TypeOK
  OBVIOUS
<1>4. b \notin Used /\ \A o \in Used : o < b
  BY <1>1, ResolutionAssumption DEF IsNext, Ids
<1>5. canonicalOf[b] = Null /\ objectA[b] = Null
  BY <1>3, <1>4 DEF TypeOK
<1>6. \A best \in Candidates(c, b) : best \in Ids /\ best < b
  BY <1>3, <1>4 DEF Candidates, Used, TypeOK
<1>7. /\ canonicalOf' \in [Ids -> Ids \cup {Null}]
      /\ objectA' \in [Ids -> Ids \cup {Null}]
      /\ canonicalOf'[b] < b /\ objectA'[b] < b
      /\ objectA'[b] # Null => canonicalOf'[b] = Null
      /\ \A o \in Ids \ {b} : canonicalOf'[o] = canonicalOf[o] /\ objectA'[o] = objectA[o]
  <2>1. canonicalOf \in [Ids -> Ids \cup {Null}] /\ objectA \in [Ids -> Ids \cup {Null}]
    BY <1>3 DEF TypeOK
  <2>2. 0 < b
    BY ResolutionAssumption DEF Ids
  <2>3. CASE UNCHANGED <<canonicalOf, objectA>>
    BY <2>1, <2>2, <2>3, <1>5 DEF Null
  <2>4. CASE \E best \in Candidates(c, b) :
               /\ canonicalOf' = [canonicalOf EXCEPT ![b] = best]
               /\ UNCHANGED objectA
    BY <2>1, <2>2, <2>4, <1>5, <1>6 DEF Null
  <2>5. CASE \E best \in Candidates(c, b) :
               /\ objectA' = [objectA EXCEPT ![b] = best]
               /\ UNCHANGED canonicalOf
    BY <2>1, <2>2, <2>5, <1>5, <1>6 DEF Null
  <2>6. QED
    BY <1>1, <2>3, <2>4, <2>5
<1>8. /\ inserted' \in [Chunks -> SUBSET Ids]
      /\ inserted'[c] = inserted[c] \cup {b}
      /\ \A d \in Chunks \ {c} : inserted'[d] = inserted[d]
  BY <1>1, <1>3 DEF TypeOK
<1>9. Used' = Used \cup {b}
  BY <1>2, <1>8 DEF Used
<1>10. b \notin known /\ \A d \in Chunks : b \notin inserted[d]
  BY <1>4 DEF Used
<1>11. TypeOK'
  <2>1. at' \in [Chunks \cup Reviews -> {"idle", "open", "ended"}]
    BY <1>2, <1>3 DEF TypeOK
  <2>2. \A o \in Ids \ Used' : canonicalOf'[o] = Null /\ objectA'[o] = Null
    BY <1>3, <1>7, <1>9 DEF TypeOK
  <2>3. QED
    BY <1>2, <1>3, <1>7, <1>8, <2>1, <2>2 DEF TypeOK
<1>12. PointsBack'
  BY <1>7 DEF PointsBack
<1>13. InsertedApart'
  BY <1>2, <1>8, <1>10 DEF InsertedApart
<1>14. NewAreUndecided'
  BY <1>2, <1>7 DEF NewAreUndecided
<1>15. Pairs' = Pairs /\ \A o \in known : o # b /\ o \in Ids
  BY <1>2, <1>3, <1>7, <1>10 DEF Pairs, TypeOK
<1>16. ReviewsSound'
  <2>1. \A r \in Reviews : at'[r] = at[r]
    BY <1>2, <1>3, ResolutionAssumption DEF TypeOK
  <2>2. \A r \in Reviews, o \in Pairs : PairVisible(r, o)' = PairVisible(r, o)
    BY <1>7, <1>15 DEF PairVisible, Visible, Pairs
  <2>3. QED
    BY <1>2, <1>15, <2>1, <2>2 DEF ReviewsSound, ReviewSound
<1>17. DecisionsAreTrue'
  BY <1>2, <1>7, <1>15 DEF DecisionsAreTrue, Pairs
<1>18. QED
  BY <1>11, <1>12, <1>13, <1>14, <1>16, <1>17

(* A commit makes the chunk's pairs visible, undecided and unlinked.       *)
LEMMA CommitChunkInv ==
  ASSUME ResolutionInv, NEW c \in Chunks, CommitChunk(c)
  PROVE  ResolutionInv'
<1> USE DEF ResolutionInv
<1>1. /\ known' = known \cup inserted[c]
      /\ inserted' = [inserted EXCEPT ![c] = {}]
      /\ at' = [at EXCEPT ![c] = "ended"]
      /\ UNCHANGED <<canonicalOf, objectA, decision, review>>
  BY DEF CommitChunk
<1>2. /\ inserted' \in [Chunks -> SUBSET Ids] /\ inserted'[c] = {}
      /\ \A d \in Chunks \ {c} : inserted'[d] = inserted[d]
      /\ known' \subseteq Ids
  BY <1>1 DEF TypeOK
<1>3. Used' = Used
  BY <1>1, <1>2 DEF Used
<1>4. TypeOK'
  BY <1>1, <1>2, <1>3 DEF TypeOK
<1>5. InsertedApart'
  BY <1>1, <1>2 DEF InsertedApart
<1>6. PointsBack' /\ NewAreUndecided'
  BY <1>1 DEF PointsBack, NewAreUndecided
<1>7. ReviewsSound'
  <2>1. \A r \in Reviews : at'[r] = at[r]
    BY <1>1, ResolutionAssumption DEF TypeOK
  <2>2. Pairs \subseteq Pairs'
    BY <1>1 DEF Pairs
  <2>3. \A r \in Reviews, o \in Pairs : PairVisible(r, o)' = PairVisible(r, o)
    BY <1>1 DEF PairVisible, Visible
  <2>4. QED
    BY <1>1, <2>1, <2>2, <2>3 DEF ReviewsSound, ReviewSound
<1>8. DecisionsAreTrue'
  <2>1. \A b \in inserted[c] : b \in Ids \ known
    BY DEF TypeOK, InsertedApart
  <2>2. \A b \in inserted[c] :
          objectA[b] # Null => decision[b] = "pending" /\ canonicalOf[b] = Null
    BY <2>1 DEF NewAreUndecided
  <2>3. QED
    BY <1>1, <2>2 DEF DecisionsAreTrue, Pairs
<1>9. QED
  BY <1>4, <1>5, <1>6, <1>7, <1>8

(* A rollback takes the links and pairs of the chunk's objects with it.    *)
LEMMA ChunkAbortsInv ==
  ASSUME ResolutionInv, NEW c \in Chunks, ChunkAborts(c)
  PROVE  ResolutionInv'
<1> USE DEF ResolutionInv
<1>1. /\ inserted' = [inserted EXCEPT ![c] = {}]
      /\ canonicalOf' = [o \in Ids |-> IF o \in inserted[c] THEN Null ELSE canonicalOf[o]]
      /\ objectA' = [o \in Ids |-> IF o \in inserted[c] THEN Null ELSE objectA[o]]
      /\ at' = [at EXCEPT ![c] = "ended"]
      /\ UNCHANGED <<known, decision, review>>
  BY DEF ChunkAborts
<1>2. /\ inserted' \in [Chunks -> SUBSET Ids] /\ inserted'[c] = {}
      /\ \A d \in Chunks \ {c} : inserted'[d] = inserted[d]
  BY <1>1 DEF TypeOK
<1>3. \A o \in Ids : o \in known => o \notin inserted[c]
  BY DEF InsertedApart
<1>4. \A o \in Ids : o \in Used => o \in Used' \/ o \in inserted[c]
  BY <1>1, <1>2 DEF Used
<1>5. TypeOK'
  BY <1>1, <1>2, <1>4 DEF TypeOK
<1>6. InsertedApart'
  BY <1>1, <1>2 DEF InsertedApart
<1>7. PointsBack'
  <2>1. \A o \in Ids : Null < o
    BY ResolutionAssumption DEF Ids, Null
  <2>2. QED
    BY <1>1, <2>1 DEF PointsBack
<1>8. NewAreUndecided'
  BY <1>1 DEF NewAreUndecided
<1>9. \A o \in known : canonicalOf'[o] = canonicalOf[o] /\ objectA'[o] = objectA[o]
  BY <1>1, <1>3 DEF TypeOK
<1>10. Pairs' = Pairs
  BY <1>1, <1>9 DEF Pairs
<1>11. ReviewsSound'
  <2>1. \A r \in Reviews : at'[r] = at[r]
    BY <1>1, ResolutionAssumption DEF TypeOK
  <2>2. \A r \in Reviews, o \in Pairs : PairVisible(r, o)' = PairVisible(r, o)
    BY <1>9 DEF PairVisible, Visible, Pairs
  <2>3. QED
    BY <1>1, <1>10, <2>1, <2>2 DEF ReviewsSound, ReviewSound
<1>12. DecisionsAreTrue'
  BY <1>1, <1>9, <1>10 DEF DecisionsAreTrue, Pairs
<1>13. QED
  BY <1>5, <1>6, <1>7, <1>8, <1>11, <1>12

-----------------------------------------------------------------------------
(* Review preserves the invariant                                          *)

(* The reads of a request admit it only to a pair it may see.              *)
LEMMA ReadPairInv ==
  ASSUME ResolutionInv, NEW r \in Reviews, ReadPair(r)
  PROVE  ResolutionInv'
<1> USE DEF ResolutionInv
<1>1. PICK b \in Pairs, verdict \in DECISIONS \cup {"pending"} :
        /\ PairVisible(r, b)
        /\ review' = [review EXCEPT ![r] =
             [pair |-> b, verdict |-> verdict, wrote |-> {}, todo |-> Statements(verdict)]]
  BY DEF ReadPair
<1>2. at' = [at EXCEPT ![r] = "open"] /\ UNCHANGED rows
  BY DEF ReadPair
<1>3. Used' = Used /\ Pairs' = Pairs
  BY <1>2 DEF Used, Pairs, rows
<1>4. b \in Ids
  BY DEF Pairs, TypeOK
<1>5. /\ review'[r] = [pair |-> b, verdict |-> verdict, wrote |-> {}, todo |-> Statements(verdict)]
      /\ \A q \in Reviews \ {r} : review'[q] = review[q] /\ at'[q] = at[q]
  BY <1>1, <1>2 DEF TypeOK
<1>6. TypeOK'
  <2>1. Statements(verdict) \in {<<>>, <<"queue">>, <<"object", "queue">>}
    BY DEF Statements
  <2>2. review' \in [Reviews -> ReviewStates]
    BY <1>1, <1>4, <2>1 DEF TypeOK, ReviewStates
  <2>3. QED
    BY <1>2, <1>3, <2>2 DEF TypeOK, rows
<1>7. PointsBack' /\ InsertedApart' /\ NewAreUndecided' /\ DecisionsAreTrue'
  BY <1>2, <1>3 DEF PointsBack, InsertedApart, NewAreUndecided, DecisionsAreTrue, rows
<1>8. \A q \in Reviews, o \in Pairs : PairVisible(q, o)' = PairVisible(q, o)
  BY <1>2 DEF PairVisible, Visible, rows
<1>9. ReviewSound(r)'
  BY <1>1, <1>3, <1>5, <1>8, TodoParts DEF ReviewSound, Statements
<1>10. \A q \in Reviews \ {r} : at'[q] = "open" => ReviewSound(q)'
  BY <1>3, <1>5, <1>8 DEF ReviewsSound, ReviewSound
<1>11. QED
  BY <1>6, <1>7, <1>9, <1>10 DEF ReviewsSound

(* A statement moves from what a review has to do to what it has done.     *)
LEMMA UpdateInv ==
  ASSUME ResolutionInv, NEW r \in Reviews, Update(r)
  PROVE  ResolutionInv'
<1> USE DEF ResolutionInv
<1> DEFINE row == Head(review[r].todo)
<1>1. /\ at[r] = "open" /\ review[r].todo # <<>>
      /\ UNCHANGED rows
  BY DEF Update
<1>2. ReviewSound(r)
  BY <1>1 DEF ReviewsSound
<1>3. Visible(r, review[r].pair)
  BY <1>2 DEF ReviewSound, PairVisible
<1>4. /\ review' = [review EXCEPT ![r].todo = Tail(@), ![r].wrote = @ \cup {row}]
      /\ at' = at
  <2>1. review' = [review EXCEPT ![r].todo = Tail(@), ![r].wrote = @ \cup {row}]
    BY <1>3 DEF Update
  <2>2. at' = [at EXCEPT ![r] = at[r]]
    BY <1>3 DEF Update
  <2>3. at \in [Chunks \cup Reviews -> {"idle", "open", "ended"}]
    BY DEF TypeOK
  <2>4. at' = at
    BY <2>2, <2>3
  <2>5. QED
    BY <2>1, <2>4
<1>5. Used' = Used /\ Pairs' = Pairs
  BY <1>1 DEF Used, Pairs, rows
<1>6. review[r] \in ReviewStates
  BY DEF TypeOK
<1>7. /\ review[r].todo = <<"queue">> \/ review[r].todo = <<"object", "queue">>
      /\ review[r].todo = <<"queue">> => row = "queue" /\ Tail(review[r].todo) = <<>>
      /\ review[r].todo = <<"object", "queue">> =>
           row = "object" /\ Tail(review[r].todo) = <<"queue">>
  BY <1>1, <1>6, TodoParts DEF ReviewStates
<1>8. /\ review'[r].pair = review[r].pair
      /\ review'[r].verdict = review[r].verdict
      /\ review'[r].todo = Tail(review[r].todo)
      /\ review'[r].wrote = review[r].wrote \cup {row}
      /\ \A q \in Reviews \ {r} : review'[q] = review[q]
  BY <1>4, <1>6 DEF TypeOK
<1>9. TypeOK'
  <2>1. review \in [Reviews -> ReviewStates]
    BY DEF TypeOK
  <2>2. review'[r] = [pair |-> review[r].pair, verdict |-> review[r].verdict,
                      wrote |-> review[r].wrote \cup {row}, todo |-> Tail(review[r].todo)]
    BY <1>4, <1>6, <2>1 DEF ReviewStates
  <2>3. review'[r] \in ReviewStates
    BY <1>6, <1>7, <2>2 DEF ReviewStates
  <2>4. review' = [q \in Reviews |-> IF q = r THEN review'[r] ELSE review[q]]
    BY <1>4, <2>1
  <2>5. review' \in [Reviews -> ReviewStates]
    BY <2>1, <2>3, <2>4
  <2>6. QED
    BY <1>1, <1>4, <1>5, <2>5 DEF TypeOK, rows
<1>10. PointsBack' /\ InsertedApart' /\ NewAreUndecided' /\ DecisionsAreTrue'
  BY <1>1, <1>5 DEF PointsBack, InsertedApart, NewAreUndecided, DecisionsAreTrue, rows
<1>11. \A q \in Reviews, o \in Pairs : PairVisible(q, o)' = PairVisible(q, o)
  BY <1>1 DEF PairVisible, Visible, rows
<1>12. ReviewSound(r)'
  <2>. HIDE DEF row
  <2>1. review'[r].pair \in Pairs' /\ PairVisible(r, review[r].pair)'
    BY <1>2, <1>5, <1>8, <1>11 DEF ReviewSound
  <2>2. CASE review[r].todo = <<"queue">>
    BY <1>2, <1>7, <1>8, <2>1, <2>2, TodoParts DEF ReviewSound
  <2>3. CASE review[r].todo = <<"object", "queue">>
    BY <1>2, <1>7, <1>8, <2>1, <2>3, TodoParts DEF ReviewSound
  <2>4. QED
    BY <1>7, <2>2, <2>3
<1>13. ASSUME NEW q \in Reviews \ {r}, at'[q] = "open" PROVE ReviewSound(q)'
  <2>1. ReviewSound(q) /\ review'[q] = review[q]
    BY <1>4, <1>8, <1>13 DEF ReviewsSound
  <2>. HIDE DEF row
  <2>2. QED
    BY <1>5, <1>11, <2>1 DEF ReviewSound
<1>14. QED
  BY <1>9, <1>10, <1>12, <1>13 DEF ReviewsSound

(* A commit writes the pair, and the link too if the verdict speaks of it. *)
LEMMA CommitReviewInv ==
  ASSUME ResolutionInv, NEW r \in Reviews, CommitReview(r)
  PROVE  ResolutionInv'
<1> USE DEF ResolutionInv
<1> DEFINE b == review[r].pair
           verdict == review[r].verdict
<1>1. /\ at[r] = "open" /\ review[r].todo = <<>>
      /\ at' = [at EXCEPT ![r] = "ended"]
      /\ UNCHANGED <<known, inserted, objectA, review>>
  BY DEF CommitReview
<1>2. ReviewSound(r)
  BY <1>1 DEF ReviewsSound
<1>3. b \in known /\ objectA[b] # Null /\ b \in Ids
  BY <1>2 DEF ReviewSound, Pairs, TypeOK
<1>4. /\ "queue" \in review[r].wrote
      /\ verdict \in {"merged", "pending"} <=> "object" \in review[r].wrote
      /\ verdict \in DECISIONS \cup {"pending"}
  BY <1>1, <1>2, TodoParts DEF ReviewSound, TypeOK, ReviewStates
<1>5. decision' = [decision EXCEPT ![b] = verdict]
  BY <1>4 DEF CommitReview
<1>6. canonicalOf' = IF verdict \in {"merged", "pending"}
                     THEN [canonicalOf EXCEPT ![b] = Link(r)]
                     ELSE canonicalOf
  BY <1>4 DEF CommitReview
<1>7. Link(r) = IF verdict = "merged" THEN objectA[b] ELSE Null
  BY DEF Link
<1> HIDE DEF b, verdict
<1>8. Link(r) \in Ids \cup {Null} /\ Link(r) < b
  <2>1. objectA[b] \in Ids \cup {Null} /\ objectA[b] < b
    BY <1>3 DEF TypeOK, PointsBack
  <2>2. Null < b
    BY <1>3, ResolutionAssumption DEF Ids, Null
  <2>3. QED
    BY <1>7, <2>1, <2>2
<1>9. /\ canonicalOf' \in [Ids -> Ids \cup {Null}] /\ canonicalOf'[b] < b
      /\ \A o \in Ids \ {b} : canonicalOf'[o] = canonicalOf[o]
      /\ verdict = "merged" => canonicalOf'[b] = objectA[b]
      /\ verdict = "pending" => canonicalOf'[b] = Null
  <2>1. canonicalOf \in [Ids -> Ids \cup {Null}] /\ canonicalOf[b] < b
    BY <1>3 DEF TypeOK, PointsBack
  <2>2. CASE verdict \in {"merged", "pending"}
    <3>1. canonicalOf' = [canonicalOf EXCEPT ![b] = Link(r)]
      BY <1>6, <2>2
    <3>2. QED
      BY <1>3, <1>7, <1>8, <2>1, <3>1
  <2>3. CASE verdict \notin {"merged", "pending"}
    BY <1>6, <2>1, <2>3
  <2>4. QED
    BY <2>2, <2>3
<1>10. /\ decision' \in [Ids -> DECISIONS \cup {"pending"}] /\ decision'[b] = verdict
       /\ \A o \in Ids \ {b} : decision'[o] = decision[o]
  BY <1>3, <1>4, <1>5 DEF TypeOK
<1>11. Used' = Used /\ Pairs' = Pairs /\ b \in Used
  BY <1>1, <1>3 DEF Used, Pairs
<1>12. TypeOK'
  BY <1>1, <1>9, <1>10, <1>11 DEF TypeOK
<1>13. PointsBack'
  BY <1>1, <1>9 DEF PointsBack
<1>14. InsertedApart'
  BY <1>1 DEF InsertedApart
<1>15. NewAreUndecided'
  BY <1>1, <1>3, <1>9, <1>10 DEF NewAreUndecided
<1>16. ReviewsSound'
  BY <1>1, <1>11 DEF ReviewsSound, ReviewSound, PairVisible, Visible, TypeOK
<1>17. DecisionsAreTrue'
  <2>1. \A o \in Pairs : o \in Ids
    BY DEF Pairs, TypeOK
  <2>2. QED
    BY <1>1, <1>9, <1>10, <1>11, <2>1 DEF DecisionsAreTrue
<1>18. QED
  BY <1>12, <1>13, <1>14, <1>15, <1>16, <1>17

LEMMA ReviewAbortsInv ==
  ASSUME ResolutionInv, NEW r \in Reviews, ReviewAborts(r)
  PROVE  ResolutionInv'
<1> USE DEF ResolutionInv
<1>1. /\ at' = [at EXCEPT ![r] = "ended"]
      /\ UNCHANGED <<known, inserted, canonicalOf, objectA, decision, review>>
  BY DEF ReviewAborts
<1>2. Used' = Used /\ Pairs' = Pairs
  BY <1>1 DEF Used, Pairs
<1>3. TypeOK'
  BY <1>1, <1>2 DEF TypeOK
<1>4. PointsBack' /\ InsertedApart' /\ NewAreUndecided' /\ DecisionsAreTrue'
  BY <1>1, <1>2 DEF PointsBack, InsertedApart, NewAreUndecided, DecisionsAreTrue
<1>5. ReviewsSound'
  BY <1>1, <1>2 DEF ReviewsSound, ReviewSound, PairVisible, Visible, TypeOK
<1>6. QED
  BY <1>3, <1>4, <1>5

-----------------------------------------------------------------------------
(* Theorems                                                                *)

LEMMA InitInv == Init => ResolutionInv
<1> SUFFICES ASSUME Init PROVE ResolutionInv
  OBVIOUS
<1> USE DEF Init
<1>1. TypeOK
  BY DEF TypeOK, ReviewStates, NoReview, DECISIONS, Null
<1>2. PointsBack
  BY ResolutionAssumption DEF PointsBack, Ids, Null
<1>3. InsertedApart /\ NewAreUndecided /\ DecisionsAreTrue
  BY DEF InsertedApart, NewAreUndecided, DecisionsAreTrue, Pairs
<1>4. ReviewsSound
  BY DEF ReviewsSound
<1>5. QED
  BY <1>1, <1>2, <1>3, <1>4 DEF ResolutionInv

LEMMA NextInv == ResolutionInv /\ [Next]_vars => ResolutionInv'
<1> SUFFICES ASSUME ResolutionInv, [Next]_vars PROVE ResolutionInv'
  OBVIOUS
<1>1. ASSUME NEW c \in Chunks, Ingest(c) PROVE ResolutionInv'
  BY <1>1, IngestRowInv, CommitChunkInv, ChunkAbortsInv DEF Ingest
<1>2. ASSUME NEW r \in Reviews, ReadPair(r) \/ Proceed(r) \/ ReviewAborts(r)
      PROVE  ResolutionInv'
  BY <1>2, ReadPairInv, UpdateInv, CommitReviewInv, ReviewAbortsInv DEF Proceed
<1>3. CASE UNCHANGED vars
  BY <1>3 DEF vars, ResolutionInv, TypeOK, Used, PointsBack, InsertedApart, NewAreUndecided,
              ReviewsSound, ReviewSound, PairVisible, Visible, Pairs, DecisionsAreTrue
<1>4. QED
  BY <1>1, <1>2, <1>3 DEF Next

(* The invariant that all else follows from.                               *)
THEOREM ResolutionInvariant == Spec => []ResolutionInv
  BY InitInv, NextInv, PTL DEF Spec

(* The variables have their types, and an id nobody has inserted, or whose *)
(* chunk was rolled back, has neither link nor pair.                       *)
THEOREM TypeCorrect == Spec => []TypeOK
<1>1. ResolutionInv => TypeOK
  BY DEF ResolutionInv
<1>2. QED
  BY <1>1, ResolutionInvariant, PTL

(* What the queue says of a pair is what canonical_of is, for every        *)
(* interleaving of ingestion, decisions and undos of any clearance.        *)
THEOREM QueueTellsTheTruth == Spec => []DecisionsAreTrue
<1>1. ResolutionInv => DecisionsAreTrue
  BY DEF ResolutionInv
<1>2. QED
  BY <1>1, ResolutionInvariant, PTL

(* canonical_of never closes a cycle.                                      *)
THEOREM MergesEnd == Spec => []NoMergeCycle
<1>1. ResolutionInv => NoMergeCycle
  BY BackwardsIsAcyclic DEF ResolutionInv
<1>2. QED
  BY <1>1, ResolutionInvariant, PTL
=============================================================================
