--------------------------- MODULE ConnectionPool ---------------------------
(***************************************************************************)
(* The server's one pool of database connections (api/src/db.ts) and those *)
(* who draw on it.                                                         *)
(*                                                                         *)
(* A request checks out one connection for its transaction and returns it  *)
(* when the transaction has ended.  An ingestion run does so for its setup *)
(* transaction, then keeps a connection for its advisory lock for as long  *)
(* as it is processed and needs a second one for each of its transactions: *)
(* one per chunk and one that finalizes the run or marks it failed.  The   *)
(* pool has no connection timeout: whoever finds it empty waits in line.   *)
(***************************************************************************)
EXTENDS Integers, Sequences, FiniteSets

CONSTANTS Runs,       \* ingestion runs, one attempt each
          Requests,   \* clients, each with one request after another
          PoolSize,   \* max: 10
          Chunks      \* chunks of a run

ASSUME PoolAssumption ==
  /\ PoolSize \in Nat \ {0}
  /\ Chunks \in Nat
  /\ Runs \cap Requests = {}
  /\ IsFiniteSet(Runs)

VARIABLES
  held,    \* connections checked out: <<client, what it is for>>
  queue,   \* _pendingQueue of the pool: clients that wait, in order
  pc,      \* where each client is
  todo     \* transactions each run has yet to do under its lock

vars == <<held, queue, pc, todo>>

Clients == Runs \cup Requests

Places == {"idle", "setupWait", "setup", "lockWait", "lockQuery", "txWait",
           "tx", "unlocking", "leaked", "done"}

Waiting == {"setupWait", "lockWait", "txWait"}

Init ==
  /\ held = {}
  /\ queue = << >>
  /\ pc = [c \in Clients |-> "idle"]
  /\ todo = [r \in Runs |-> Chunks + 1]

Goto(c, place) == pc' = [pc EXCEPT ![c] = place]

(* pool.connect()                                                          *)
Ask(c, place) ==
  /\ queue' = Append(queue, c)
  /\ Goto(c, place)

(* client.release()                                                        *)
Release(c, purpose) == held' = held \ {<<c, purpose>>}

(* What the place a client waits at wants a connection for, and where the  *)
(* client goes once it has it.                                             *)
Purpose(place) == IF place = "lockWait" THEN "lock" ELSE "tx"

Granted(place) ==
  CASE place = "setupWait" -> "setup"
    [] place = "lockWait"  -> "lockQuery"
    [] OTHER               -> "tx"

-----------------------------------------------------------------------------
(* Deviations.  Each operator here is a mistake that could have been made  *)
(* in the definition it names; none of them is part of the specification.  *)

(* Serve that lets one connection too many out.                            *)
ServeOneMore ==
  /\ queue # << >>
  /\ Cardinality(held) <= PoolSize
  /\ held' = held \cup {<<Head(queue), Purpose(pc[Head(queue)])>>}
  /\ queue' = Tail(queue)
  /\ Goto(Head(queue), Granted(pc[Head(queue)]))
  /\ UNCHANGED todo

(* SetupDone that takes the lock's connection before it returns the other. *)
SetupDoneKeepsConnection(r) ==
  /\ pc[r] = "setup"
  /\ Ask(r, "lockWait")
  /\ UNCHANGED <<held, todo>>

(* Serve that gives a connection to whoever asked last.                    *)
ServeLast ==
  LET c == queue[Len(queue)] IN
  /\ queue # << >>
  /\ Cardinality(held) < PoolSize
  /\ held' = held \cup {<<c, Purpose(pc[c])>>}
  /\ queue' = SubSeq(queue, 1, Len(queue) - 1)
  /\ Goto(c, Granted(pc[c]))
  /\ UNCHANGED todo

-----------------------------------------------------------------------------
(* The pool gives a connection to the first in line.                       *)
Serve ==
  /\ queue # << >>
  /\ Cardinality(held) < PoolSize
  /\ held' = held \cup {<<Head(queue), Purpose(pc[Head(queue)])>>}
  /\ queue' = Tail(queue)
  /\ Goto(Head(queue), Granted(pc[Head(queue)]))
  /\ UNCHANGED todo

(* A request of an analyst: one transaction, on one connection.            *)
Request(q) ==
  /\ pc[q] = "idle"
  /\ Ask(q, "txWait")
  /\ UNCHANGED <<held, todo>>

Answer(q) ==
  /\ pc[q] = "tx"
  /\ Release(q, "tx")
  /\ Goto(q, "idle")
  /\ UNCHANGED <<queue, todo>>

(* POST /ingestion/runs and POST .../resume                                *)
StartRun(r) ==
  /\ pc[r] = "idle"
  /\ Ask(r, "setupWait")
  /\ UNCHANGED <<held, todo>>

(* The setup transaction has ended and tryAcquireRunLock asks for a        *)
(* connection of its own ...                                               *)
SetupDone(r) ==
  /\ pc[r] = "setup"
  /\ Release(r, "tx")
  /\ Ask(r, "lockWait")
  /\ UNCHANGED todo

(* ... unless the request is refused or its setup fails.                   *)
SetupRefused(r) ==
  /\ pc[r] = "setup"
  /\ Release(r, "tx")
  /\ Goto(r, "done")
  /\ UNCHANGED <<queue, todo>>

(* The lock is taken and the first transaction asks for a connection.      *)
LockTaken(r) ==
  /\ pc[r] = "lockQuery"
  /\ Ask(r, "txWait")
  /\ UNCHANGED <<held, todo>>

LockRefused(r) ==
  /\ pc[r] = "lockQuery"
  /\ Release(r, "lock")
  /\ Goto(r, "done")
  /\ UNCHANGED <<queue, todo>>

(* The query for the lock fails: nobody releases its connection.           *)
LockQueryFails(r) ==
  /\ pc[r] = "lockQuery"
  /\ Goto(r, "leaked")
  /\ UNCHANGED <<held, queue, todo>>

(* A chunk has committed and the next transaction asks for a connection.   *)
ChunkDone(r) ==
  /\ pc[r] = "tx"
  /\ todo[r] > 1
  /\ Release(r, "tx")
  /\ todo' = [todo EXCEPT ![r] = @ - 1]
  /\ Ask(r, "txWait")

(* A chunk fails: what is left is the transaction that marks the run       *)
(* failed.                                                                 *)
TransactionFails(r) ==
  /\ pc[r] = "tx"
  /\ todo[r] > 1
  /\ Release(r, "tx")
  /\ todo' = [todo EXCEPT ![r] = 1]
  /\ Ask(r, "txWait")

(* finalizeRun, or marking the run failed, has ended in whatever way.      *)
LastTransaction(r) ==
  /\ pc[r] = "tx"
  /\ todo[r] = 1
  /\ Release(r, "tx")
  /\ todo' = [todo EXCEPT ![r] = 0]
  /\ Goto(r, "unlocking")
  /\ UNCHANGED queue

(* releaseLock, in the finally of processInBackground                      *)
Unlock(r) ==
  /\ pc[r] = "unlocking"
  /\ Release(r, "lock")
  /\ Goto(r, "done")
  /\ UNCHANGED <<queue, todo>>

(* What a run does once it is started, with a database that answers.       *)
Processing(r) ==
  \/ SetupDone(r) \/ SetupRefused(r) \/ LockTaken(r) \/ LockRefused(r)
  \/ ChunkDone(r) \/ TransactionFails(r) \/ LastTransaction(r) \/ Unlock(r)

Next ==
  \/ Serve
  \/ \E q \in Requests : Request(q) \/ Answer(q)
  \/ \E r \in Runs : StartRun(r) \/ Processing(r) \/ LockQueryFails(r)

Spec == Init /\ [][Next]_vars

(* The pool serves its queue and every transaction ends, since the         *)
(* database answers every statement; nobody need start anything.           *)
Fairness ==
  /\ WF_vars(Serve)
  /\ \A q \in Requests : WF_vars(Answer(q))
  /\ \A r \in Runs : WF_vars(Processing(r))

FairSpec == Spec /\ Fairness

(* No query for the lock ever fails.                                       *)
ReliableNext ==
  \/ Serve
  \/ \E q \in Requests : Request(q) \/ Answer(q)
  \/ \E r \in Runs : StartRun(r) \/ Processing(r)

ReliableSpec == Init /\ [][ReliableNext]_vars /\ Fairness
-----------------------------------------------------------------------------
(* Properties                                                              *)

TypeOK ==
  /\ held \subseteq Clients \X {"tx", "lock"}
  /\ queue \in Seq(Clients)
  /\ pc \in [Clients -> Places]
  /\ todo \in [Runs -> Nat]

(* The connections that are out are never more than the pool has, and are  *)
(* those somebody is using: only a failed query for the lock leaks one.    *)
PoolExact ==
  /\ Cardinality(held) <= PoolSize
  /\ \A c \in Clients : <<c, "tx">> \in held <=> pc[c] \in {"setup", "tx"}
  /\ \A r \in Runs :
       <<r, "lock">> \in held <=>
         pc[r] \in {"lockQuery", "txWait", "tx", "unlocking", "leaked"}

(* Somebody waits, the pool has nothing to give and nobody who holds a     *)
(* connection is at work with it: from here on nothing ever moves.         *)
AtWork == {c \in Clients : pc[c] \in {"setup", "lockQuery", "tx", "unlocking"}}

Stuck == queue # << >> /\ Cardinality(held) = PoolSize /\ AtWork = {}

(* The one way to get stuck: as many different runs as the pool has        *)
(* connections each keep one for a lock, and each waits for its next       *)
(* transaction or has leaked it.  Requests and setups never add to it, for *)
(* they hold nothing while they wait.                                      *)
LockHolders == {r \in Runs : <<r, "lock">> \in held}

StuckOnLocksOnly ==
  Stuck =>
    /\ Cardinality(LockHolders) = PoolSize
    /\ \A r \in LockHolders : pc[r] \in {"txWait", "leaked"}

(* Whoever asks for a connection gets one, unless the clients get stuck.   *)
EveryoneServed ==
  \A c \in Clients : (pc[c] \in Waiting) ~> (pc[c] \notin Waiting \/ Stuck)

-----------------------------------------------------------------------------
(* What the proofs add to the invariants to make them inductive            *)

(* Only a run holds a connection for a lock, and whoever is in line is     *)
(* waiting.                                                                *)
LocksAreOfRuns == \A c \in Clients : <<c, "lock">> \in held => c \in Runs

QueuedWait == \A i \in DOMAIN queue : pc[queue[i]] \in Waiting

QueuedOnce == \A i, j \in DOMAIN queue : queue[i] = queue[j] => i = j

RequestsPlain ==
  \A q \in Requests : pc[q] \in {"idle", "txWait", "tx"}

PoolInv ==
  /\ TypeOK
  /\ IsFiniteSet(held)
  /\ PoolExact
  /\ LocksAreOfRuns
  /\ QueuedWait
  /\ QueuedOnce
  /\ RequestsPlain
=============================================================================
