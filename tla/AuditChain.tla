----------------------------- MODULE AuditChain -----------------------------
(***************************************************************************)
(* The hash-chained audit log and the transactions that write to it        *)
(* (db/migrations/004 and 008, api/src/audit.ts, api/src/db.ts).           *)
(*                                                                         *)
(* All work is done in transactions (withRequestContext): one may change   *)
(* rows, then records itself with write_audit_log if its handler calls     *)
(* writeAudit at all, then commits, and only then is its client answered.  *)
(* Handlers that record nothing commit changes and answer with data just   *)
(* the same; which they are is a parameter.                                *)
(*                                                                         *)
(* write_audit_log takes a transaction-level advisory lock, reads the hash *)
(* of the last entry and inserts its own.  Each statement of a READ        *)
(* COMMITTED transaction sees what is committed when it starts and what    *)
(* the transaction wrote itself, so each statement is a step.              *)
(*                                                                         *)
(* SHA-256 is taken to be injective: the hash of an entry is the sequence  *)
(* of the contents that were chained into it, and an entry's content is    *)
(* the request that wrote it.                                              *)
(***************************************************************************)
EXTENDS Integers, Sequences

CONSTANTS Requests,   \* requests and background work, one transaction each
          Unaudited,  \* those whose way through the code never calls writeAudit
          Nobody      \* a lock is free

ASSUME ChainAssumption ==
  /\ Nobody \notin Requests
  /\ Unaudited \subseteq Requests

VARIABLES
  log,        \* committed rows of audit_log
  own,        \* rows each open transaction has inserted in audit_log
  nextSeq,    \* the next value of audit_log_seq; never rolled back
  chainLock,  \* pg_advisory_xact_lock(hashtext('audit_log_chain'))
  rowLock,    \* the lock of a row that several requests change
  changed,    \* requests whose change of that row is committed
  pc,         \* where each request is
  last        \* v_prev_hash of each request

vars == <<log, own, nextSeq, chainLock, rowLock, changed, pc, last>>

Hashes == Seq(Requests)

Entries == [seq : Nat, by : Requests, prev : Hashes, hash : Hashes]

(* The states of an open transaction ...                                   *)
InTransaction == {"open", "updating", "updated", "waiting", "reading",
                  "inserting", "written"}

(* ... and what the client has been told: nothing yet, an error (500), a   *)
(* refusal of the handler (400, 403, 404) or the result.                   *)
Places == InTransaction \cup {"idle", "failed", "refused", "answered"}

(* repeat('0', 64)                                                         *)
Genesis == << >>

Digest(prev, content) == Append(prev, content)

(* SELECT row_hash FROM audit_log ORDER BY seq DESC LIMIT 1                *)
LastHash(rows) ==
  IF rows = {} THEN Genesis
  ELSE (CHOOSE r \in rows : \A q \in rows : q.seq <= r.seq).hash

Init ==
  /\ log = {}
  /\ own = [t \in Requests |-> {}]
  /\ nextSeq = 1
  /\ chainLock = Nobody
  /\ rowLock = Nobody
  /\ changed = {}
  /\ pc = [t \in Requests |-> "idle"]
  /\ last = [t \in Requests |-> Genesis]

Goto(t, place) == pc' = [pc EXCEPT ![t] = place]

(* COMMIT and ROLLBACK release every lock of the transaction.              *)
Unlocked(lock, t) == IF lock = t THEN Nobody ELSE lock

-----------------------------------------------------------------------------
(* Deviations.  Each operator here is a mistake that could have been made  *)
(* in the definition it names; none of them is part of the specification.  *)

(* TakeLock of migration 004: there was no lock.                           *)
TakeLockNone(t) ==
  /\ pc[t] = "waiting"
  /\ Goto(t, "reading")
  /\ UNCHANGED <<log, own, nextSeq, chainLock, rowLock, changed, last>>

(* Insert that unlocks at the end of the function: a session-level lock.   *)
InsertUnlocks(t) ==
  /\ pc[t] = "inserting"
  /\ own' = [own EXCEPT ![t] = {[seq |-> nextSeq, by |-> t, prev |-> last[t],
                                 hash |-> Digest(last[t], t)]}]
  /\ nextSeq' = nextSeq + 1
  /\ chainLock' = Nobody
  /\ Goto(t, "written")
  /\ UNCHANGED <<log, rowLock, changed, last>>

(* StartUpdate also after the audit entry has been written.                *)
StartUpdateLate(t) ==
  /\ pc[t] \in {"open", "written"}
  /\ Goto(t, "updating")
  /\ UNCHANGED <<log, own, nextSeq, chainLock, rowLock, changed, last>>

(* Rollback that leaves the advisory lock with the pooled connection.      *)
RollbackKeepsLock(t) ==
  /\ pc[t] \in InTransaction
  /\ own' = [own EXCEPT ![t] = {}]
  /\ rowLock' = Unlocked(rowLock, t)
  /\ Goto(t, "failed")
  /\ UNCHANGED <<log, nextSeq, chainLock, changed, last>>

(* Rollback of the audit entry only: the change was made on a connection   *)
(* of its own.                                                             *)
RollbackEntryOnly(t) ==
  /\ pc[t] \in InTransaction
  /\ own' = [own EXCEPT ![t] = {}]
  /\ changed' = IF rowLock = t THEN changed \cup {t} ELSE changed
  /\ chainLock' = Unlocked(chainLock, t)
  /\ rowLock' = Unlocked(rowLock, t)
  /\ Goto(t, "failed")
  /\ UNCHANGED <<log, nextSeq, last>>

-----------------------------------------------------------------------------
(* The transaction of a request                                            *)

(* withRequestContext: a connection, BEGIN, set_config.                    *)
Begin(t) ==
  /\ pc[t] = "idle"
  /\ Goto(t, "open")
  /\ UNCHANGED <<log, own, nextSeq, chainLock, rowLock, changed, last>>

(* The handler updates a row; it waits while another transaction holds it. *)
(* No handler changes a row after it has written its audit entry.          *)
StartUpdate(t) ==
  /\ pc[t] = "open"
  /\ Goto(t, "updating")
  /\ UNCHANGED <<log, own, nextSeq, chainLock, rowLock, changed, last>>

Update(t) ==
  /\ pc[t] = "updating"
  /\ rowLock = Nobody
  /\ rowLock' = t
  /\ Goto(t, "updated")
  /\ UNCHANGED <<log, own, nextSeq, chainLock, changed, last>>

(* The handler refuses and changed nothing: not found or forbidden.  The   *)
(* transaction commits without an audit entry.                             *)
EarlyReturn(t) ==
  /\ pc[t] = "open"
  /\ Goto(t, "refused")
  /\ UNCHANGED <<log, own, nextSeq, chainLock, rowLock, changed, last>>

(* write_audit_log is called with a purpose and the session's own user.    *)
CallWriteAuditLog(t) ==
  /\ t \notin Unaudited
  /\ pc[t] \in {"open", "updated"}
  /\ Goto(t, "waiting")
  /\ UNCHANGED <<log, own, nextSeq, chainLock, rowLock, changed, last>>

TakeLock(t) ==
  /\ pc[t] = "waiting"
  /\ chainLock = Nobody
  /\ chainLock' = t
  /\ Goto(t, "reading")
  /\ UNCHANGED <<log, own, nextSeq, rowLock, changed, last>>

ReadLast(t) ==
  /\ pc[t] = "reading"
  /\ last' = [last EXCEPT ![t] = LastHash(log \cup own[t])]
  /\ Goto(t, "inserting")
  /\ UNCHANGED <<log, own, nextSeq, chainLock, rowLock, changed>>

Insert(t) ==
  /\ pc[t] = "inserting"
  /\ own' = [own EXCEPT ![t] = {[seq |-> nextSeq, by |-> t, prev |-> last[t],
                                 hash |-> Digest(last[t], t)]}]
  /\ nextSeq' = nextSeq + 1
  /\ Goto(t, "written")
  /\ UNCHANGED <<log, chainLock, rowLock, changed, last>>

(* COMMIT: the entry and the change become visible together, then the      *)
(* locks are released.  If the answer to COMMIT is lost the client is told *)
(* of an error although the transaction is committed.                      *)
Commit(t) ==
  /\ pc[t] = "written"
  /\ log' = log \cup own[t]
  /\ own' = [own EXCEPT ![t] = {}]
  /\ changed' = IF rowLock = t THEN changed \cup {t} ELSE changed
  /\ chainLock' = Unlocked(chainLock, t)
  /\ rowLock' = Unlocked(rowLock, t)
  /\ \/ Goto(t, "answered")
     \/ Goto(t, "failed")
  /\ UNCHANGED <<nextSeq, last>>

(* COMMIT of work that records nothing: a chunk of an ingestion, the setup *)
(* and the failure of a run, a batch of a retention sweep; the lists of    *)
(* runs, templates, users, sweeps and pending pairs.  Its change becomes   *)
(* visible and its client gets the result, and no entry says so.           *)
CommitUnaudited(t) ==
  /\ t \in Unaudited
  /\ pc[t] \in {"open", "updated"}
  /\ changed' = IF rowLock = t THEN changed \cup {t} ELSE changed
  /\ rowLock' = Unlocked(rowLock, t)
  /\ \/ Goto(t, "answered")
     \/ Goto(t, "failed")
  /\ UNCHANGED <<log, own, nextSeq, chainLock, last>>

(* A statement fails (write_audit_log refuses an empty purpose or another  *)
(* user's id), the connection is lost, or COMMIT itself fails.             *)
Rollback(t) ==
  /\ pc[t] \in InTransaction
  /\ own' = [own EXCEPT ![t] = {}]
  /\ chainLock' = Unlocked(chainLock, t)
  /\ rowLock' = Unlocked(rowLock, t)
  /\ Goto(t, "failed")
  /\ UNCHANGED <<log, nextSeq, changed, last>>

Work(t) ==
  \/ StartUpdate(t) \/ Update(t) \/ EarlyReturn(t) \/ CallWriteAuditLog(t)
  \/ TakeLock(t) \/ ReadLast(t) \/ Insert(t) \/ Commit(t) \/ CommitUnaudited(t)

Next == \E t \in Requests : Begin(t) \/ Work(t) \/ Rollback(t)

Spec == Init /\ [][Next]_vars

(* A transaction that is not waiting for a lock goes on: no handler waits  *)
(* for its client inside one.  Rollbacks need not happen.                  *)
FairSpec == Spec /\ \A t \in Requests : WF_vars(Work(t))
-----------------------------------------------------------------------------
(* Properties                                                              *)

TypeOK ==
  /\ log \subseteq Entries
  /\ own \in [Requests -> SUBSET Entries]
  /\ nextSeq \in Nat
  /\ chainLock \in Requests \cup {Nobody}
  /\ rowLock \in Requests \cup {Nobody}
  /\ changed \subseteq Requests
  /\ pc \in [Requests -> Places]
  /\ last \in [Requests -> Hashes]

(* verify_audit_log: the rows, walked in the order of seq, at which the    *)
(* chain breaks.  The log is valid when there is none.                     *)
Before(rows, r) == {q \in rows : q.seq < r.seq}

Broken(rows) ==
  {r \in rows : \/ r.prev # LastHash(Before(rows, r))
                \/ r.hash # Digest(r.prev, r.by)}

(* verify_audit_log never reports a broken chain, whichever transaction    *)
(* runs it and however many writers are under way.                         *)
VerifyPasses == \A t \in Requests : Broken(log \cup own[t]) = {}

(* A handler that records itself is never answered, and never changes a    *)
(* row, without its entry: the entry is durable before anything else is,   *)
(* even when the answer to COMMIT is lost.  Nothing is claimed of the      *)
(* handlers in Unaudited.                                                  *)
NothingUnaudited ==
  \A t \in Requests \ Unaudited :
    pc[t] = "answered" \/ t \in changed => \E r \in log : r.by = t

(* Whoever holds the chain lock waits for no other lock, so no cycle of    *)
(* transactions that wait for each other goes through the audit log.       *)
ChainHolderNeverWaits ==
  \A t \in Requests : chainLock = t => pc[t] \in {"reading", "inserting", "written"}

(* A request that waits to write its audit entry gets its turn, whatever   *)
(* happens to the others.                                                  *)
WriterServed ==
  \A t \in Requests : (pc[t] = "waiting") ~> (pc[t] # "waiting")

(* Every step of the table is a step of the abstract log: the hash of the  *)
(* last committed row is the hash of one growing history.                  *)
Log == INSTANCE AuditLog WITH history <- LastHash(log)

LogRefinement == Log!LogSpec

-----------------------------------------------------------------------------
(* What the proofs add to the invariants to make them inductive            *)

Holding == {"reading", "inserting", "written"}

LockHeld ==
  \A t \in Requests : pc[t] \in Holding => chainLock = t

(* The entry a transaction has read is still the last one, and the entry   *)
(* it has written extends it.                                              *)
Linked ==
  \A t \in Requests :
    /\ pc[t] = "inserting" => last[t] = LastHash(log)
    /\ pc[t] # "written" => own[t] = {}
    /\ pc[t] = "written" =>
         \E r \in own[t] :
           /\ own[t] = {r}
           /\ r.by = t
           /\ r.prev = LastHash(log)
           /\ r.hash = Digest(r.prev, t)
           /\ r.seq < nextSeq
           /\ \A q \in log : q.seq < r.seq

(* Sequence numbers are below the next one, and a log that is not empty    *)
(* has a last entry.                                                       *)
SeqsBelow ==
  /\ \A r \in log : r.seq < nextSeq
  /\ log # {} => \E r \in log : \A q \in log : q.seq <= r.seq

(* The last hash holds exactly the committed requests, each of which has   *)
(* ended.                                                                  *)
HistoryIsLog ==
  /\ \A i \in DOMAIN LastHash(log) : \E r \in log : r.by = LastHash(log)[i]
  /\ \A r \in log : pc[r.by] \in {"failed", "answered"}

ChainInv ==
  /\ TypeOK
  /\ LockHeld
  /\ ChainHolderNeverWaits
  /\ Linked
  /\ SeqsBelow
  /\ HistoryIsLog
  /\ Broken(log) = {}
  /\ NothingUnaudited
=============================================================================
