------------------------ MODULE ConnectionPoolProofs ------------------------
(***************************************************************************)
(* Proofs about ConnectionPool, for every pool size, number of chunks and  *)
(* set of clients.                                                         *)
(***************************************************************************)
EXTENDS ConnectionPool, FiniteSetTheorems, SequenceTheorems, TLAPS

-----------------------------------------------------------------------------
(* Lemmas about the queue                                                  *)

(* Asking appends the client to the queue, and nobody else moves.          *)
LEMMA AskStep ==
  ASSUME TypeOK, QueuedWait, QueuedOnce, NEW c \in Clients, NEW place \in Waiting,
         pc[c] \notin Waiting, Ask(c, place)
  PROVE  /\ queue' \in Seq(Clients) /\ pc' \in [Clients -> Places]
         /\ pc'[c] = place
         /\ \A d \in Clients : d # c => pc'[d] = pc[d]
         /\ QueuedWait' /\ QueuedOnce'
<1>1. queue' = Append(queue, c) /\ pc' = [pc EXCEPT ![c] = place]
  BY DEF Ask, Goto
<1>2. queue \in Seq(Clients) /\ pc \in [Clients -> Places] /\ place \in Places
  BY DEF TypeOK, Waiting, Places
<1>3. /\ queue' \in Seq(Clients) /\ pc' \in [Clients -> Places]
      /\ pc'[c] = place
      /\ \A d \in Clients : d # c => pc'[d] = pc[d]
  BY <1>1, <1>2
<1>4. \A i \in DOMAIN queue : queue[i] \in Clients /\ queue[i] # c
  BY <1>2 DEF QueuedWait
<1>5. \A i \in DOMAIN queue' :
        \/ i \in DOMAIN queue /\ queue'[i] = queue[i]
        \/ i = Len(queue) + 1 /\ queue'[i] = c
  BY <1>1, <1>2
<1>6. QueuedWait'
  BY <1>3, <1>4, <1>5 DEF QueuedWait
<1>7. QueuedOnce'
  BY <1>4, <1>5 DEF QueuedOnce
<1>8. QED
  BY <1>3, <1>6, <1>7

(* A client that is not waiting may go anywhere without disturbing the     *)
(* queue.                                                                  *)
LEMMA GotoStep ==
  ASSUME TypeOK, QueuedWait, QueuedOnce, NEW c \in Clients, NEW place \in Places,
         pc[c] \notin Waiting, Goto(c, place), queue' = queue
  PROVE  /\ queue' \in Seq(Clients) /\ pc' \in [Clients -> Places]
         /\ pc'[c] = place
         /\ \A d \in Clients : d # c => pc'[d] = pc[d]
         /\ QueuedWait' /\ QueuedOnce'
<1>1. pc' = [pc EXCEPT ![c] = place] /\ pc \in [Clients -> Places]
      /\ queue \in Seq(Clients)
  BY DEF Goto, TypeOK
<1>2. \A i \in DOMAIN queue : queue[i] \in Clients /\ queue[i] # c
  BY <1>1 DEF QueuedWait
<1>3. QueuedWait' /\ QueuedOnce'
  BY <1>1, <1>2 DEF QueuedWait, QueuedOnce
<1>4. QED
  BY <1>1, <1>3

(* Returning a connection.                                                 *)
LEMMA ReleaseStep ==
  ASSUME TypeOK, IsFiniteSet(held), Cardinality(held) <= PoolSize,
         NEW c \in Clients, NEW purpose \in {"tx", "lock"}, Release(c, purpose)
  PROVE  /\ held' \subseteq Clients \X {"tx", "lock"}
         /\ IsFiniteSet(held')
         /\ Cardinality(held') <= PoolSize
         /\ \A d \in Clients, p \in {"tx", "lock"} :
              <<d, p>> \in held' <=> <<d, p>> \in held /\ <<d, p>> # <<c, purpose>>
<1>1. held' = held \ {<<c, purpose>>}
  BY DEF Release
<1>2. held' \subseteq held
  BY <1>1
<1>3. IsFiniteSet(held') /\ Cardinality(held') <= Cardinality(held)
  BY <1>2, FS_Subset
<1>4. Cardinality(held') \in Nat /\ Cardinality(held) \in Nat /\ PoolSize \in Nat
  BY <1>3, FS_CardinalityType, PoolAssumption
<1>5. QED
  BY <1>1, <1>3, <1>4 DEF TypeOK

-----------------------------------------------------------------------------
(* The inductive invariant                                                 *)

LEMMA PoolInvInit == Init => PoolInv
<1> SUFFICES ASSUME Init PROVE PoolInv
  OBVIOUS
<1>1. TypeOK
  BY PoolAssumption DEF Init, TypeOK, Clients, Places
<1>2. IsFiniteSet(held) /\ Cardinality(held) <= PoolSize
  BY FS_EmptySet, PoolAssumption DEF Init
<1>3. PoolExact /\ LocksAreOfRuns /\ RequestsPlain
  BY <1>2 DEF Init, PoolExact, LocksAreOfRuns, RequestsPlain, Clients
<1>4. QueuedWait /\ QueuedOnce
  BY DEF Init, QueuedWait, QueuedOnce
<1>5. QED
  BY <1>1, <1>2, <1>3, <1>4 DEF PoolInv

LEMMA ServeStep ==
  ASSUME PoolInv, Serve
  PROVE  PoolInv'
<1> DEFINE c == Head(queue)
<1>1. /\ queue # << >> /\ Cardinality(held) < PoolSize
      /\ held' = held \cup {<<c, Purpose(pc[c])>>}
      /\ queue' = Tail(queue)
      /\ pc' = [pc EXCEPT ![c] = Granted(pc[c])]
      /\ todo' = todo
  BY DEF Serve, Goto
<1>2. queue \in Seq(Clients) /\ pc \in [Clients -> Places] /\ todo \in [Runs -> Nat]
      /\ held \subseteq Clients \X {"tx", "lock"}
  BY DEF PoolInv, TypeOK
<1>3. c \in Clients /\ c = queue[1] /\ 1 \in DOMAIN queue
  BY <1>1, <1>2
<1>4. pc[c] \in Waiting
  BY <1>3 DEF PoolInv, QueuedWait
<1>5. \A i \in DOMAIN queue' : /\ i + 1 \in DOMAIN queue
                               /\ queue'[i] = queue[i + 1]
                               /\ i \in Nat
  BY <1>1, <1>2
<1>6. \A i \in DOMAIN queue' : queue'[i] \in Clients /\ queue'[i] # c
  <2> SUFFICES ASSUME NEW i \in DOMAIN queue' PROVE queue'[i] \in Clients /\ queue'[i] # c
    OBVIOUS
  <2>1. i + 1 \in DOMAIN queue /\ queue'[i] = queue[i + 1] /\ i + 1 # 1
    BY <1>5, <1>2, <1>1
  <2>2. QED
    BY <2>1, <1>2, <1>3 DEF PoolInv, QueuedOnce
<1>7. \A d \in Clients : d # c => pc'[d] = pc[d]
  BY <1>1, <1>2
<1>8. pc'[c] = Granted(pc[c])
  BY <1>1, <1>2, <1>3
<1>9. Granted(pc[c]) \in Places \ Waiting
  BY <1>4 DEF Granted, Places, Waiting
<1>10. Purpose(pc[c]) \in {"tx", "lock"}
  BY DEF Purpose
<1>11. TypeOK'
  <2>1. queue' \in Seq(Clients)
    BY <1>1, <1>2
  <2>2. pc' \in [Clients -> Places]
    BY <1>1, <1>2, <1>9
  <2>3. QED
    BY <1>1, <1>2, <1>3, <1>10, <2>1, <2>2 DEF TypeOK
<1>12. IsFiniteSet(held') /\ Cardinality(held') <= PoolSize
  <2> DEFINE h == <<c, Purpose(pc[c])>>
  <2>a. IsFiniteSet(held) /\ Cardinality(held) \in Nat
    BY FS_CardinalityType DEF PoolInv
  <2>b. /\ IsFiniteSet(held \cup {h})
        /\ Cardinality(held \cup {h}) =
             IF h \in held THEN Cardinality(held) ELSE Cardinality(held) + 1
    BY <2>a, FS_AddElement
  <2>1. IsFiniteSet(held') /\ Cardinality(held') <= Cardinality(held) + 1
    BY <1>1, <2>a, <2>b
  <2>2. Cardinality(held') \in Nat /\ Cardinality(held) \in Nat /\ PoolSize \in Nat
    BY <2>1, FS_CardinalityType, PoolAssumption DEF PoolInv
  <2>3. QED
    BY <1>1, <2>1, <2>2
<1>13. QueuedWait'
  BY <1>5, <1>6, <1>7 DEF PoolInv, QueuedWait
<1>14. QueuedOnce'
  BY <1>2, <1>5 DEF PoolInv, QueuedOnce
<1>15. c \in Requests => pc[c] = "txWait"
  BY <1>4 DEF PoolInv, RequestsPlain, Waiting
<1>16. RequestsPlain'
  BY <1>7, <1>8, <1>15 DEF PoolInv, RequestsPlain, Granted, Clients
<1>17. LocksAreOfRuns'
  BY <1>1, <1>3, <1>15 DEF PoolInv, LocksAreOfRuns, Purpose, Clients
<1>18. PoolExact'
  <2>1. \A d \in Clients, p \in {"tx", "lock"} :
          d # c => (<<d, p>> \in held' <=> <<d, p>> \in held)
    BY <1>1
  <2>2. \A p \in {"tx", "lock"} :
          <<c, p>> \in held' <=> <<c, p>> \in held \/ p = Purpose(pc[c])
    BY <1>1
  <2>3. \A d \in Clients : <<d, "tx">> \in held' <=> pc'[d] \in {"setup", "tx"}
    BY <1>4, <1>7, <1>8, <2>1, <2>2 DEF PoolInv, PoolExact, Granted, Purpose, Waiting
  <2>4. \A r \in Runs :
          <<r, "lock">> \in held' <=>
            pc'[r] \in {"lockQuery", "txWait", "tx", "unlocking", "leaked"}
    BY <1>4, <1>7, <1>8, <2>1, <2>2
       DEF PoolInv, PoolExact, Granted, Purpose, Waiting, Clients
  <2>5. QED
    BY <1>12, <2>3, <2>4 DEF PoolExact
<1>19. QED
  BY <1>11, <1>12, <1>13, <1>14, <1>16, <1>17, <1>18 DEF PoolInv

LEMMA RequestStep ==
  ASSUME PoolInv, NEW q \in Requests, Request(q) \/ Answer(q)
  PROVE  PoolInv'
<1>1. q \in Clients /\ q \notin Runs
  BY PoolAssumption DEF Clients
<1>2. CASE Request(q)
  <2>1. /\ pc[q] = "idle" /\ Ask(q, "txWait") /\ held' = held /\ todo' = todo
    BY <1>2 DEF Request
  <2>2. "txWait" \in Waiting /\ pc[q] \notin Waiting
    BY <2>1 DEF Waiting
  <2>3. /\ queue' \in Seq(Clients) /\ pc' \in [Clients -> Places]
        /\ pc'[q] = "txWait"
        /\ \A d \in Clients : d # q => pc'[d] = pc[d]
        /\ QueuedWait' /\ QueuedOnce'
    BY <1>1, <2>1, <2>2, AskStep DEF PoolInv
  <2>4. TypeOK' /\ IsFiniteSet(held')
    BY <2>1, <2>3 DEF PoolInv, TypeOK
  <2>5. PoolExact' /\ LocksAreOfRuns' /\ RequestsPlain'
    BY <1>1, <2>1, <2>3 DEF PoolInv, PoolExact, LocksAreOfRuns, RequestsPlain, Clients
  <2>6. QED
    BY <2>3, <2>4, <2>5 DEF PoolInv
<1>3. CASE Answer(q)
  <2>1. /\ pc[q] = "tx" /\ Release(q, "tx") /\ Goto(q, "idle")
        /\ queue' = queue /\ todo' = todo
    BY <1>3 DEF Answer
  <2>2. "idle" \in Places /\ pc[q] \notin Waiting
    BY <2>1 DEF Waiting, Places
  <2>3. /\ queue' \in Seq(Clients) /\ pc' \in [Clients -> Places]
        /\ pc'[q] = "idle"
        /\ \A d \in Clients : d # q => pc'[d] = pc[d]
        /\ QueuedWait' /\ QueuedOnce'
    BY <1>1, <2>1, <2>2, GotoStep DEF PoolInv
  <2>4. /\ held' \subseteq Clients \X {"tx", "lock"}
        /\ IsFiniteSet(held')
        /\ Cardinality(held') <= PoolSize
        /\ \A d \in Clients, p \in {"tx", "lock"} :
             <<d, p>> \in held' <=> <<d, p>> \in held /\ <<d, p>> # <<q, "tx">>
    BY <1>1, <2>1, ReleaseStep DEF PoolInv, PoolExact
  <2>5. TypeOK'
    BY <2>1, <2>3, <2>4 DEF PoolInv, TypeOK
  <2>6. PoolExact' /\ LocksAreOfRuns' /\ RequestsPlain'
    BY <1>1, <2>1, <2>3, <2>4 DEF PoolInv, PoolExact, LocksAreOfRuns, RequestsPlain, Clients
  <2>7. QED
    BY <2>3, <2>4, <2>5, <2>6 DEF PoolInv
<1>4. QED
  BY <1>2, <1>3

(* Steps of a run that ask for a connection and return none.               *)
LEMMA RunAsks ==
  ASSUME PoolInv, NEW r \in Runs, StartRun(r) \/ LockTaken(r)
  PROVE  PoolInv'
<1>1. r \in Clients /\ r \notin Requests
  BY PoolAssumption DEF Clients
<1>2. PICK place \in {"setupWait", "txWait"} :
        /\ Ask(r, place)
        /\ pc[r] = IF place = "setupWait" THEN "idle" ELSE "lockQuery"
        /\ held' = held /\ todo' = todo
  BY DEF StartRun, LockTaken
<1>3. place \in Waiting /\ pc[r] \notin Waiting
  BY <1>2 DEF Waiting
<1>4. /\ queue' \in Seq(Clients) /\ pc' \in [Clients -> Places]
      /\ pc'[r] = place
      /\ \A d \in Clients : d # r => pc'[d] = pc[d]
      /\ QueuedWait' /\ QueuedOnce'
  BY <1>1, <1>2, <1>3, AskStep DEF PoolInv
<1>5. TypeOK' /\ IsFiniteSet(held')
  BY <1>2, <1>4 DEF PoolInv, TypeOK
<1>6. PoolExact' /\ LocksAreOfRuns' /\ RequestsPlain'
  BY <1>1, <1>2, <1>4 DEF PoolInv, PoolExact, LocksAreOfRuns, RequestsPlain, Clients
<1>7. QED
  BY <1>4, <1>5, <1>6 DEF PoolInv

(* Steps that return a connection and ask for the next one.                *)
LEMMA RunReturnsAndAsks ==
  ASSUME PoolInv, NEW r \in Runs,
         SetupDone(r) \/ ChunkDone(r) \/ TransactionFails(r)
  PROVE  PoolInv'
<1>1. r \in Clients /\ r \notin Requests
  BY PoolAssumption DEF Clients
<1>2. PICK place \in {"lockWait", "txWait"} :
        /\ Ask(r, place)
        /\ Release(r, "tx")
        /\ pc[r] = IF place = "lockWait" THEN "setup" ELSE "tx"
        /\ todo' \in [Runs -> Nat]
  BY DEF SetupDone, ChunkDone, TransactionFails, PoolInv, TypeOK
<1>3. place \in Waiting /\ pc[r] \notin Waiting
  BY <1>2 DEF Waiting
<1>4. /\ queue' \in Seq(Clients) /\ pc' \in [Clients -> Places]
      /\ pc'[r] = place
      /\ \A d \in Clients : d # r => pc'[d] = pc[d]
      /\ QueuedWait' /\ QueuedOnce'
  BY <1>1, <1>2, <1>3, AskStep DEF PoolInv
<1>5. /\ held' \subseteq Clients \X {"tx", "lock"}
      /\ IsFiniteSet(held')
      /\ Cardinality(held') <= PoolSize
      /\ \A d \in Clients, p \in {"tx", "lock"} :
           <<d, p>> \in held' <=> <<d, p>> \in held /\ <<d, p>> # <<r, "tx">>
  BY <1>1, <1>2, ReleaseStep DEF PoolInv, PoolExact
<1>6. TypeOK'
  BY <1>2, <1>4, <1>5 DEF TypeOK
<1>7. PoolExact' /\ LocksAreOfRuns' /\ RequestsPlain'
  BY <1>1, <1>2, <1>4, <1>5 DEF PoolInv, PoolExact, LocksAreOfRuns, RequestsPlain, Clients
<1>8. QED
  BY <1>4, <1>5, <1>6, <1>7 DEF PoolInv

(* Steps that return a connection and ask for none.                        *)
LEMMA RunReturns ==
  ASSUME PoolInv, NEW r \in Runs,
         SetupRefused(r) \/ LockRefused(r) \/ LastTransaction(r) \/ Unlock(r)
  PROVE  PoolInv'
<1>1. r \in Clients /\ r \notin Requests
  BY PoolAssumption DEF Clients
<1>2. PICK place \in {"done", "unlocking"}, purpose \in {"tx", "lock"} :
        /\ Goto(r, place)
        /\ Release(r, purpose)
        /\ queue' = queue
        /\ todo' \in [Runs -> Nat]
        /\ \/ place = "unlocking" /\ purpose = "tx" /\ pc[r] = "tx"
           \/ place = "done" /\ purpose = "tx" /\ pc[r] = "setup"
           \/ place = "done" /\ purpose = "lock" /\ pc[r] \in {"lockQuery", "unlocking"}
  BY DEF SetupRefused, LockRefused, LastTransaction, Unlock, PoolInv, TypeOK
<1>3. place \in Places /\ pc[r] \notin Waiting
  BY <1>2 DEF Waiting, Places
<1>4. /\ queue' \in Seq(Clients) /\ pc' \in [Clients -> Places]
      /\ pc'[r] = place
      /\ \A d \in Clients : d # r => pc'[d] = pc[d]
      /\ QueuedWait' /\ QueuedOnce'
  BY <1>1, <1>2, <1>3, GotoStep DEF PoolInv
<1>5. /\ held' \subseteq Clients \X {"tx", "lock"}
      /\ IsFiniteSet(held')
      /\ Cardinality(held') <= PoolSize
      /\ \A d \in Clients, p \in {"tx", "lock"} :
           <<d, p>> \in held' <=> <<d, p>> \in held /\ <<d, p>> # <<r, purpose>>
  BY <1>1, <1>2, ReleaseStep DEF PoolInv, PoolExact
<1>6. TypeOK'
  BY <1>2, <1>4, <1>5 DEF TypeOK
<1>7. PoolExact' /\ LocksAreOfRuns' /\ RequestsPlain'
  BY <1>1, <1>2, <1>4, <1>5 DEF PoolInv, PoolExact, LocksAreOfRuns, RequestsPlain, Clients
<1>8. QED
  BY <1>4, <1>5, <1>6, <1>7 DEF PoolInv

LEMMA LeakStep ==
  ASSUME PoolInv, NEW r \in Runs, LockQueryFails(r)
  PROVE  PoolInv'
<1>1. r \in Clients /\ r \notin Requests
  BY PoolAssumption DEF Clients
<1>2. /\ pc[r] = "lockQuery" /\ Goto(r, "leaked")
      /\ held' = held /\ queue' = queue /\ todo' = todo
  BY DEF LockQueryFails
<1>3. "leaked" \in Places /\ pc[r] \notin Waiting
  BY <1>2 DEF Waiting, Places
<1>4. /\ queue' \in Seq(Clients) /\ pc' \in [Clients -> Places]
      /\ pc'[r] = "leaked"
      /\ \A d \in Clients : d # r => pc'[d] = pc[d]
      /\ QueuedWait' /\ QueuedOnce'
  BY <1>1, <1>2, <1>3, GotoStep DEF PoolInv
<1>5. TypeOK' /\ IsFiniteSet(held')
  BY <1>2, <1>4 DEF PoolInv, TypeOK
<1>6. PoolExact' /\ LocksAreOfRuns' /\ RequestsPlain'
  BY <1>1, <1>2, <1>4 DEF PoolInv, PoolExact, LocksAreOfRuns, RequestsPlain, Clients
<1>7. QED
  BY <1>4, <1>5, <1>6 DEF PoolInv

(* Every reachable state satisfies the inductive invariant.                *)
THEOREM PoolInvariant == Spec => []PoolInv
<1>1. Init => PoolInv
  BY PoolInvInit
<1>2. PoolInv /\ [Next]_vars => PoolInv'
  <2> SUFFICES ASSUME PoolInv, [Next]_vars PROVE PoolInv'
    OBVIOUS
  <2>1. CASE Serve
    BY <2>1, ServeStep
  <2>2. ASSUME NEW q \in Requests, Request(q) \/ Answer(q) PROVE PoolInv'
    BY <2>2, RequestStep
  <2>3. ASSUME NEW r \in Runs, StartRun(r) \/ Processing(r) \/ LockQueryFails(r)
        PROVE  PoolInv'
    <3>1. CASE StartRun(r) \/ LockTaken(r)
      BY <3>1, RunAsks
    <3>2. CASE SetupDone(r) \/ ChunkDone(r) \/ TransactionFails(r)
      BY <3>2, RunReturnsAndAsks
    <3>3. CASE SetupRefused(r) \/ LockRefused(r) \/ LastTransaction(r) \/ Unlock(r)
      BY <3>3, RunReturns
    <3>4. CASE LockQueryFails(r)
      BY <3>4, LeakStep
    <3>5. QED
      BY <2>3, <3>1, <3>2, <3>3, <3>4 DEF Processing
  <2>4. CASE UNCHANGED vars
    BY <2>4 DEF vars, PoolInv, TypeOK, PoolExact, LocksAreOfRuns, QueuedWait,
                QueuedOnce, RequestsPlain
  <2>5. QED
    BY <2>1, <2>2, <2>3, <2>4 DEF Next
<1>3. QED
  BY <1>1, <1>2, PTL DEF Spec

(* The variables keep their types: no run ever has fewer than zero         *)
(* transactions left.                                                      *)
THEOREM TypeCorrect == Spec => []TypeOK
<1>1. PoolInv => TypeOK
  BY DEF PoolInv
<1>2. QED
  BY <1>1, PoolInvariant, PTL

(* The pool never has more connections out than it has, and knows them.    *)
THEOREM ConnectionsAccountedFor == Spec => []PoolExact
<1>1. PoolInv => PoolExact
  BY DEF PoolInv
<1>2. QED
  BY <1>1, PoolInvariant, PTL

(* However many runs and requests there are, the clients of the pool wait  *)
(* for each other in one way only: as many runs as the pool has            *)
(* connections, all different, each keep one for their lock and work with  *)
(* none.  With fewer runs than connections they never do.                  *)
THEOREM OnlyLocksExhaustThePool == Spec => []StuckOnLocksOnly
<1>1. PoolInv => StuckOnLocksOnly
  <2> SUFFICES ASSUME PoolInv, Stuck
               PROVE  /\ Cardinality(LockHolders) = PoolSize
                      /\ \A r \in LockHolders : pc[r] \in {"txWait", "leaked"}
    BY DEF StuckOnLocksOnly
  <2> DEFINE ofRun == [h \in held |-> h[1]]
  <2>1. \A c \in Clients : pc[c] \notin {"setup", "lockQuery", "tx", "unlocking"}
    BY DEF Stuck, AtWork
  <2>2. \A h \in held : h[1] \in LockHolders /\ h = <<h[1], "lock">>
    BY <2>1 DEF PoolInv, TypeOK, PoolExact, LocksAreOfRuns, LockHolders
  <2>3. \A r \in LockHolders : <<r, "lock">> \in held /\ <<r, "lock">>[1] = r
    BY DEF LockHolders
  <2>4. ofRun \in Bijection(held, LockHolders)
    <3>1. ofRun \in [held -> LockHolders]
      BY <2>2
    <3>2. \A g, h \in held : ofRun[g] = ofRun[h] => g = h
      BY <2>2
    <3>3. \A r \in LockHolders : \E h \in held : ofRun[h] = r
      BY <2>3
    <3>4. QED
      BY <3>1, <3>2, <3>3 DEF Bijection, Injection, Surjection, IsInjective
  <2>5. Cardinality(LockHolders) = Cardinality(held)
    BY <2>4, FS_Bijection DEF ExistsBijection, PoolInv
  <2>6. \A r \in LockHolders : pc[r] \in {"txWait", "leaked"}
    BY <2>1 DEF PoolInv, PoolExact, LockHolders, Clients
  <2>7. QED
    BY <2>5, <2>6 DEF Stuck
<1>2. QED
  BY <1>1, PoolInvariant, PTL
=============================================================================
