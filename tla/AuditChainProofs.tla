-------------------------- MODULE AuditChainProofs --------------------------
(***************************************************************************)
(* Proofs about AuditChain, for every set of requests.                     *)
(***************************************************************************)
EXTENDS AuditChain, TLAPS

-----------------------------------------------------------------------------
(* Lemmas about chains                                                     *)

(* Rows with a last one.                                                   *)
HasLast(rows) == rows # {} => \E r \in rows : \A q \in rows : q.seq <= r.seq

LEMMA LastHashType ==
  ASSUME NEW rows \in SUBSET Entries, HasLast(rows)
  PROVE  LastHash(rows) \in Hashes
<1>1. CASE rows = {}
  BY <1>1 DEF LastHash, Genesis, Hashes
<1>2. CASE rows # {}
  <2>1. PICK r \in rows : \A q \in rows : q.seq <= r.seq
    BY <1>2 DEF HasLast
  <2> DEFINE top == CHOOSE x \in rows : \A q \in rows : q.seq <= x.seq
  <2>2. top \in rows
    BY <2>1
  <2>3. LastHash(rows) = top.hash
    BY <1>2 DEF LastHash
  <2>4. QED
    BY <2>2, <2>3 DEF Entries
<1>3. QED
  BY <1>1, <1>2

(* A row after all others is the last one, and its hash the last hash.     *)
LEMMA LastHashOfExtension ==
  ASSUME NEW rows \in SUBSET Entries, NEW r \in Entries,
         \A q \in rows : q.seq < r.seq
  PROVE  /\ LastHash(rows \cup {r}) = r.hash
         /\ HasLast(rows \cup {r})
<1> DEFINE all == rows \cup {r}
<1>1. \A q \in all : q.seq \in Nat
  BY DEF Entries
<1>2. \A q \in all : q.seq <= r.seq
  BY <1>1
<1>3. \A x \in all : (\A q \in all : q.seq <= x.seq) => x = r
  BY <1>1
<1>4. (CHOOSE x \in all : \A q \in all : q.seq <= x.seq) = r
  BY <1>2, <1>3
<1>5. QED
  BY <1>2, <1>4 DEF LastHash, HasLast

(* A row that extends a valid log by the rules of write_audit_log leaves   *)
(* it valid.                                                               *)
LEMMA ExtensionIsValid ==
  ASSUME NEW rows \in SUBSET Entries, NEW r \in Entries,
         \A q \in rows : q.seq < r.seq,
         Broken(rows) = {},
         r.prev = LastHash(rows),
         r.hash = Digest(r.prev, r.by)
  PROVE  Broken(rows \cup {r}) = {}
<1> DEFINE all == rows \cup {r}
<1>1. \A q \in all : q.seq \in Nat
  BY DEF Entries
<1>2. Before(all, r) = rows
  BY <1>1 DEF Before
<1>3. r \notin Broken(all)
  BY <1>2 DEF Broken
<1>4. ASSUME NEW q \in rows
      PROVE  q \notin Broken(all)
  <2>1. Before(all, q) = Before(rows, q)
    BY <1>1 DEF Before
  <2>2. q \notin Broken(rows)
    OBVIOUS
  <2>3. QED
    BY <2>1, <2>2 DEF Broken
<1>5. Broken(all) \subseteq all
  BY DEF Broken
<1>6. QED
  BY <1>3, <1>4, <1>5

-----------------------------------------------------------------------------
(* The inductive invariant                                                 *)

LEMMA ChainInvInit == Init => ChainInv
<1> SUFFICES ASSUME Init PROVE ChainInv
  OBVIOUS
<1>1. TypeOK
  BY DEF Init, TypeOK, Genesis, Hashes, Places, InTransaction
<1>2. LockHeld /\ ChainHolderNeverWaits
  BY ChainAssumption DEF Init, LockHeld, ChainHolderNeverWaits, Holding
<1>3. Linked /\ SeqsBelow
  BY DEF Init, Linked, SeqsBelow
<1>4. HistoryIsLog
  BY DEF Init, HistoryIsLog, LastHash, Genesis
<1>5. Broken(log) = {}
  BY DEF Init, Broken
<1>6. NothingUnaudited
  BY DEF Init, NothingUnaudited
<1>7. QED
  BY <1>1, <1>2, <1>3, <1>4, <1>5, <1>6 DEF ChainInv

(* A step that leaves the log and the inserted rows alone, and takes its   *)
(* request neither to the insertion nor to an end, keeps what the          *)
(* invariant says about them.                                              *)
LEMMA QuietStep ==
  ASSUME ChainInv, NEW t \in Requests, NEW place \in Places,
         Goto(t, place),
         place \notin {"inserting", "written", "answered"},
         pc[t] \notin {"written", "failed", "answered"},
         UNCHANGED <<log, own, nextSeq, changed, last>>
  PROVE  /\ Linked' /\ SeqsBelow' /\ HistoryIsLog' /\ (Broken(log) = {})'
         /\ NothingUnaudited'
<1>1. /\ pc' = [pc EXCEPT ![t] = place] /\ pc \in [Requests -> Places]
      /\ own' = own /\ log' = log /\ last' = last /\ nextSeq' = nextSeq /\ changed' = changed
  BY DEF Goto, ChainInv, TypeOK
<1>2. pc'[t] = place /\ \A s \in Requests : s # t => pc'[s] = pc[s]
  BY <1>1
<1>3. Linked'
  BY <1>1, <1>2 DEF ChainInv, Linked
<1>4. SeqsBelow' /\ (Broken(log) = {})'
  BY <1>1 DEF ChainInv, SeqsBelow
<1>5. HistoryIsLog'
  <2>1. \A r \in log : r.by \in Requests /\ r.by # t
    BY DEF ChainInv, TypeOK, Entries, HistoryIsLog
  <2>2. QED
    BY <1>1, <1>2, <2>1 DEF ChainInv, HistoryIsLog
<1>6. NothingUnaudited'
  BY <1>1, <1>2 DEF ChainInv, NothingUnaudited
<1>7. QED
  BY <1>3, <1>4, <1>5, <1>6

(* The committed log, extended by the row of a transaction about to        *)
(* commit.                                                                 *)
LEMMA WrittenRow ==
  ASSUME ChainInv, NEW t \in Requests, pc[t] = "written"
  PROVE  \E r \in Entries :
           /\ own[t] = {r}
           /\ r.by = t
           /\ r.hash = Append(LastHash(log), t)
           /\ r.seq < nextSeq
           /\ \A q \in log : q.seq < r.seq
           /\ LastHash(log \cup {r}) = r.hash
           /\ HasLast(log \cup {r})
           /\ Broken(log \cup {r}) = {}
<1>1. PICK r \in own[t] :
        /\ own[t] = {r}
        /\ r.by = t
        /\ r.prev = LastHash(log)
        /\ r.hash = Digest(r.prev, t)
        /\ r.seq < nextSeq
        /\ \A q \in log : q.seq < r.seq
  BY DEF ChainInv, Linked
<1>2. log \in SUBSET Entries /\ r \in Entries
  BY DEF ChainInv, TypeOK
<1>3. LastHash(log \cup {r}) = r.hash /\ HasLast(log \cup {r})
  BY <1>1, <1>2, LastHashOfExtension
<1>4. Broken(log \cup {r}) = {}
  BY <1>1, <1>2, ExtensionIsValid DEF ChainInv
<1>5. r.hash = Append(LastHash(log), t)
  BY <1>1 DEF Digest
<1>6. QED
  BY <1>1, <1>2, <1>3, <1>4, <1>5

(* No request's entry is in the log before it has ended.                   *)
LEMMA UnderWayNotLogged ==
  ASSUME ChainInv, NEW t \in Requests, pc[t] \notin {"failed", "answered"}
  PROVE  \A r \in log : r.by # t
BY DEF ChainInv, HistoryIsLog

(* Steps before the entry is read: Begin, StartUpdate, Update, EarlyReturn *)
(* and CallWriteAuditLog.                                                  *)
LEMMA HandlerStep ==
  ASSUME ChainInv, NEW t \in Requests,
         Begin(t) \/ StartUpdate(t) \/ Update(t) \/ EarlyReturn(t) \/ CallWriteAuditLog(t)
  PROVE  ChainInv'
<1>1. PICK place \in {"open", "updating", "updated", "refused", "waiting"} : Goto(t, place)
  BY DEF Begin, StartUpdate, Update, EarlyReturn, CallWriteAuditLog
<1>2. /\ pc[t] \in {"idle", "open", "updating", "updated"}
      /\ UNCHANGED <<log, own, nextSeq, changed, last, chainLock>>
      /\ rowLock' \in Requests \cup {Nobody}
  BY DEF Begin, StartUpdate, Update, EarlyReturn, CallWriteAuditLog, ChainInv, TypeOK
<1>3. place \in Places
  BY <1>1 DEF Places, InTransaction
<1>4. /\ Linked' /\ SeqsBelow' /\ HistoryIsLog' /\ (Broken(log) = {})'
      /\ NothingUnaudited'
  BY <1>1, <1>2, <1>3, QuietStep
<1>5. pc' = [pc EXCEPT ![t] = place]
  BY <1>1 DEF Goto
<1>6. TypeOK'
  BY <1>2, <1>3, <1>5 DEF ChainInv, TypeOK
<1>7. LockHeld' /\ ChainHolderNeverWaits'
  BY <1>1, <1>2, <1>5 DEF ChainInv, TypeOK, LockHeld, ChainHolderNeverWaits, Holding
<1>8. QED
  BY <1>4, <1>6, <1>7 DEF ChainInv

LEMMA TakeLockStep ==
  ASSUME ChainInv, NEW t \in Requests, TakeLock(t)
  PROVE  ChainInv'
<1>1. /\ pc[t] = "waiting" /\ chainLock = Nobody /\ chainLock' = t
      /\ pc' = [pc EXCEPT ![t] = "reading"]
      /\ UNCHANGED <<log, own, nextSeq, rowLock, changed, last>>
  BY DEF TakeLock, Goto
<1>2. "reading" \in Places
  BY DEF Places, InTransaction
<1>3. /\ Linked' /\ SeqsBelow' /\ HistoryIsLog' /\ (Broken(log) = {})'
      /\ NothingUnaudited'
  BY <1>1, <1>2, QuietStep DEF Goto
<1>4. TypeOK'
  BY <1>1, <1>2 DEF ChainInv, TypeOK
<1>5. LockHeld' /\ ChainHolderNeverWaits'
  BY <1>1, ChainAssumption DEF ChainInv, TypeOK, LockHeld, ChainHolderNeverWaits, Holding
<1>6. QED
  BY <1>3, <1>4, <1>5 DEF ChainInv

LEMMA ReadLastStep ==
  ASSUME ChainInv, NEW t \in Requests, ReadLast(t)
  PROVE  ChainInv'
<1>1. /\ pc[t] = "reading"
      /\ last' = [last EXCEPT ![t] = LastHash(log \cup own[t])]
      /\ pc' = [pc EXCEPT ![t] = "inserting"]
      /\ UNCHANGED <<log, own, nextSeq, chainLock, rowLock, changed>>
  BY DEF ReadLast, Goto
<1>2. own[t] = {}
  BY <1>1 DEF ChainInv, Linked
<1>3. log \cup own[t] = log
  BY <1>2
<1>4. LastHash(log) \in Hashes
  BY LastHashType DEF ChainInv, TypeOK, SeqsBelow, HasLast
<1>5. TypeOK'
  BY <1>1, <1>3, <1>4 DEF ChainInv, TypeOK, Places, InTransaction
<1>6. LockHeld' /\ ChainHolderNeverWaits'
  BY <1>1 DEF ChainInv, TypeOK, LockHeld, ChainHolderNeverWaits, Holding
<1>7. Linked'
  BY <1>1, <1>3 DEF ChainInv, TypeOK, Linked
<1>8. SeqsBelow' /\ (Broken(log) = {})'
  BY <1>1 DEF ChainInv, SeqsBelow
<1>9. HistoryIsLog'
  <2>1. \A r \in log : r.by # t /\ r.by \in Requests
    BY <1>1, UnderWayNotLogged DEF ChainInv, TypeOK, Entries
  <2>2. QED
    BY <1>1, <2>1 DEF ChainInv, TypeOK, HistoryIsLog
<1>10. NothingUnaudited'
  BY <1>1 DEF ChainInv, TypeOK, NothingUnaudited
<1>11. QED
  BY <1>5, <1>6, <1>7, <1>8, <1>9, <1>10 DEF ChainInv

LEMMA InsertStep ==
  ASSUME ChainInv, NEW t \in Requests, Insert(t)
  PROVE  ChainInv'
<1> DEFINE r == [seq |-> nextSeq, by |-> t, prev |-> last[t], hash |-> Digest(last[t], t)]
<1>1. /\ pc[t] = "inserting"
      /\ own' = [own EXCEPT ![t] = {r}]
      /\ nextSeq' = nextSeq + 1
      /\ pc' = [pc EXCEPT ![t] = "written"]
      /\ UNCHANGED <<log, chainLock, rowLock, changed, last>>
  BY DEF Insert, Goto
<1>2. r \in Entries
  BY DEF ChainInv, TypeOK, Entries, Digest, Hashes
<1>3. TypeOK'
  BY <1>1, <1>2 DEF ChainInv, TypeOK, Places, InTransaction
<1>4. LockHeld' /\ ChainHolderNeverWaits'
  BY <1>1 DEF ChainInv, TypeOK, LockHeld, ChainHolderNeverWaits, Holding
<1>5. last[t] = LastHash(log)
  BY <1>1 DEF ChainInv, Linked
<1>6. \A s \in Requests : s # t => pc[s] # "written"
  BY <1>1 DEF ChainInv, LockHeld, Holding
<1>7. \A q \in log : q.seq \in Nat /\ q.seq < nextSeq
  BY DEF ChainInv, TypeOK, SeqsBelow, Entries
<1>8. Linked'
  <2>1. own'[t] = {r} /\ pc'[t] = "written" /\ nextSeq < nextSeq'
    BY <1>1 DEF ChainInv, TypeOK
  <2>2. /\ r.by = t /\ r.prev = LastHash(log) /\ r.hash = Digest(r.prev, t)
        /\ r.seq < nextSeq' /\ \A q \in log : q.seq < r.seq
    BY <1>5, <1>7, <2>1
  <2>3. \A s \in Requests : s # t => own'[s] = own[s] /\ pc'[s] = pc[s] /\ last'[s] = last[s]
    BY <1>1 DEF ChainInv, TypeOK
  <2>4. log' = log
    BY <1>1
  <2>5. QED
    BY <1>6, <2>1, <2>2, <2>3, <2>4 DEF ChainInv, Linked
<1>9. SeqsBelow' /\ (Broken(log) = {})'
  <2>1. \A q \in log : q.seq < nextSeq + 1
    BY <1>7 DEF ChainInv, TypeOK
  <2>2. QED
    BY <1>1, <2>1 DEF ChainInv, SeqsBelow
<1>10. HistoryIsLog'
  <2>1. \A q \in log : q.by # t /\ q.by \in Requests
    BY <1>1, UnderWayNotLogged DEF ChainInv, TypeOK, Entries
  <2>2. QED
    BY <1>1, <2>1 DEF ChainInv, TypeOK, HistoryIsLog
<1>11. NothingUnaudited'
  BY <1>1 DEF ChainInv, TypeOK, NothingUnaudited
<1>12. QED
  BY <1>3, <1>4, <1>8, <1>9, <1>10, <1>11 DEF ChainInv

LEMMA CommitStep ==
  ASSUME ChainInv, NEW t \in Requests, Commit(t)
  PROVE  ChainInv'
<1>1. /\ pc[t] = "written"
      /\ log' = log \cup own[t]
      /\ own' = [own EXCEPT ![t] = {}]
      /\ changed' = IF rowLock = t THEN changed \cup {t} ELSE changed
      /\ chainLock' = Unlocked(chainLock, t)
      /\ rowLock' = Unlocked(rowLock, t)
      /\ UNCHANGED <<nextSeq, last>>
  BY DEF Commit
<1>2. PICK place \in {"answered", "failed"} : pc' = [pc EXCEPT ![t] = place]
  BY DEF Commit, Goto
<1>3. PICK r \in Entries :
        /\ own[t] = {r}
        /\ r.by = t
        /\ r.hash = Append(LastHash(log), t)
        /\ r.seq < nextSeq
        /\ \A q \in log : q.seq < r.seq
        /\ LastHash(log \cup {r}) = r.hash
        /\ HasLast(log \cup {r})
        /\ Broken(log \cup {r}) = {}
  BY <1>1, WrittenRow
<1>4. log' = log \cup {r}
  BY <1>1, <1>3
<1>5. \A s \in Requests : s # t => /\ pc[s] \notin Holding
                                   /\ pc'[s] = pc[s] /\ own'[s] = own[s]
  BY <1>1, <1>2 DEF ChainInv, TypeOK, LockHeld, Holding
<1>6. pc'[t] = place /\ own'[t] = {}
  BY <1>1, <1>2 DEF ChainInv, TypeOK
<1>7. TypeOK'
  <2>1. /\ chainLock' \in Requests \cup {Nobody} /\ rowLock' \in Requests \cup {Nobody}
        /\ changed' \subseteq Requests
    BY <1>1 DEF ChainInv, TypeOK, Unlocked
  <2>2. QED
    BY <1>1, <1>2, <1>4, <2>1 DEF ChainInv, TypeOK, Places
<1>8. LockHeld' /\ ChainHolderNeverWaits'
  <2>1. chainLock = t /\ chainLock' = Nobody
    BY <1>1 DEF ChainInv, LockHeld, Holding, Unlocked
  <2>2. QED
    BY <1>2, <1>5, <1>6, <2>1, ChainAssumption DEF LockHeld, ChainHolderNeverWaits, Holding
<1>9. Linked'
  BY <1>2, <1>5, <1>6 DEF ChainInv, Linked, Holding
<1>10. SeqsBelow' /\ (Broken(log) = {})'
  BY <1>1, <1>3, <1>4 DEF ChainInv, SeqsBelow, HasLast
<1>11. HistoryIsLog'
  <2>1. LastHash(log) \in Seq(Requests)
    BY LastHashType DEF ChainInv, TypeOK, SeqsBelow, HasLast, Hashes
  <2>2. LastHash(log') = Append(LastHash(log), t)
    BY <1>3, <1>4
  <2>3. ASSUME NEW i \in DOMAIN LastHash(log')
        PROVE  \E q \in log' : q.by = LastHash(log')[i]
    <3>1. CASE i \in DOMAIN LastHash(log)
      <4>1. LastHash(log')[i] = LastHash(log)[i]
        BY <2>1, <2>2, <3>1
      <4>2. PICK q \in log : q.by = LastHash(log)[i]
        BY <3>1 DEF ChainInv, HistoryIsLog
      <4>3. QED
        BY <1>4, <4>1, <4>2
    <3>2. CASE i \notin DOMAIN LastHash(log)
      <4>1. LastHash(log')[i] = t
        BY <2>1, <2>2, <3>2
      <4>2. QED
        BY <1>3, <1>4, <4>1
    <3>3. QED
      BY <3>1, <3>2
  <2>4. \A q \in log' : pc'[q.by] \in {"failed", "answered"}
    <3>1. \A q \in log : q.by \in Requests
      BY DEF ChainInv, TypeOK, Entries
    <3>2. QED
      BY <1>2, <1>3, <1>4, <1>5, <1>6, <3>1 DEF ChainInv, HistoryIsLog
  <2>5. QED
    BY <2>3, <2>4 DEF HistoryIsLog
<1>12. NothingUnaudited'
  BY <1>1, <1>3, <1>4, <1>5, <1>6 DEF ChainInv, NothingUnaudited
<1>13. QED
  BY <1>7, <1>8, <1>9, <1>10, <1>11, <1>12 DEF ChainInv

(* A transaction that records nothing is nobody's entry, before or after.  *)
LEMMA CommitUnauditedStep ==
  ASSUME ChainInv, NEW t \in Requests, CommitUnaudited(t)
  PROVE  ChainInv'
<1>1. /\ t \in Unaudited
      /\ pc[t] \in {"open", "updated"}
      /\ changed' = IF rowLock = t THEN changed \cup {t} ELSE changed
      /\ rowLock' = Unlocked(rowLock, t)
      /\ UNCHANGED <<log, own, nextSeq, chainLock, last>>
  BY DEF CommitUnaudited
<1>2. PICK place \in {"answered", "failed"} : pc' = [pc EXCEPT ![t] = place]
  BY DEF CommitUnaudited, Goto
<1>3. /\ pc'[t] = place
      /\ \A s \in Requests : s # t => pc'[s] = pc[s]
  BY <1>2 DEF ChainInv, TypeOK
<1>4. TypeOK'
  <2>1. rowLock' \in Requests \cup {Nobody} /\ changed' \subseteq Requests
    BY <1>1 DEF ChainInv, TypeOK, Unlocked
  <2>2. QED
    BY <1>1, <1>2, <2>1 DEF ChainInv, TypeOK, Places
<1>5. LockHeld' /\ ChainHolderNeverWaits'
  BY <1>1, <1>2, <1>3 DEF ChainInv, LockHeld, ChainHolderNeverWaits, Holding
<1>6. Linked'
  BY <1>1, <1>2, <1>3 DEF ChainInv, Linked
<1>7. SeqsBelow' /\ (Broken(log) = {})'
  BY <1>1 DEF ChainInv, SeqsBelow
<1>8. HistoryIsLog'
  <2>1. \A r \in log : r.by \in Requests /\ r.by # t
    BY <1>1, UnderWayNotLogged DEF ChainInv, TypeOK, Entries
  <2>2. QED
    BY <1>1, <1>3, <2>1 DEF ChainInv, HistoryIsLog
<1>9. NothingUnaudited'
  BY <1>1, <1>3 DEF ChainInv, NothingUnaudited
<1>10. QED
  BY <1>4, <1>5, <1>6, <1>7, <1>8, <1>9 DEF ChainInv

LEMMA RollbackStep ==
  ASSUME ChainInv, NEW t \in Requests, Rollback(t)
  PROVE  ChainInv'
<1>1. /\ pc[t] \in InTransaction
      /\ own' = [own EXCEPT ![t] = {}]
      /\ chainLock' = Unlocked(chainLock, t)
      /\ rowLock' = Unlocked(rowLock, t)
      /\ pc' = [pc EXCEPT ![t] = "failed"]
      /\ UNCHANGED <<log, nextSeq, changed, last>>
  BY DEF Rollback, Goto
<1>2. /\ pc'[t] = "failed" /\ own'[t] = {}
      /\ \A s \in Requests : s # t => pc'[s] = pc[s] /\ own'[s] = own[s]
  BY <1>1 DEF ChainInv, TypeOK
<1>3. TypeOK'
  <2>1. chainLock' \in Requests \cup {Nobody} /\ rowLock' \in Requests \cup {Nobody}
    BY <1>1 DEF ChainInv, TypeOK, Unlocked
  <2>2. QED
    BY <1>1, <2>1 DEF ChainInv, TypeOK, Places
<1>4. LockHeld' /\ ChainHolderNeverWaits'
  BY <1>1, <1>2, ChainAssumption
     DEF ChainInv, LockHeld, ChainHolderNeverWaits, Holding, Unlocked
<1>5. Linked'
  BY <1>1, <1>2 DEF ChainInv, Linked
<1>6. SeqsBelow' /\ (Broken(log) = {})'
  BY <1>1 DEF ChainInv, SeqsBelow
<1>7. HistoryIsLog'
  <2>1. \A r \in log : r.by \in Requests
    BY DEF ChainInv, TypeOK, Entries
  <2>2. QED
    BY <1>1, <1>2, <2>1 DEF ChainInv, HistoryIsLog
<1>8. NothingUnaudited'
  BY <1>1, <1>2 DEF ChainInv, NothingUnaudited
<1>9. QED
  BY <1>3, <1>4, <1>5, <1>6, <1>7, <1>8 DEF ChainInv

(* Every reachable state satisfies the inductive invariant.                *)
THEOREM ChainInvariant == Spec => []ChainInv
<1>1. Init => ChainInv
  BY ChainInvInit
<1>2. ChainInv /\ [Next]_vars => ChainInv'
  <2> SUFFICES ASSUME ChainInv, [Next]_vars PROVE ChainInv'
    OBVIOUS
  <2>1. ASSUME NEW t \in Requests,
               Begin(t) \/ StartUpdate(t) \/ Update(t) \/ EarlyReturn(t) \/ CallWriteAuditLog(t)
        PROVE  ChainInv'
    BY <2>1, HandlerStep
  <2>2. ASSUME NEW t \in Requests, TakeLock(t) PROVE ChainInv'
    BY <2>2, TakeLockStep
  <2>3. ASSUME NEW t \in Requests, ReadLast(t) PROVE ChainInv'
    BY <2>3, ReadLastStep
  <2>4. ASSUME NEW t \in Requests, Insert(t) PROVE ChainInv'
    BY <2>4, InsertStep
  <2>5. ASSUME NEW t \in Requests, Commit(t) PROVE ChainInv'
    BY <2>5, CommitStep
  <2>6. ASSUME NEW t \in Requests, Rollback(t) PROVE ChainInv'
    BY <2>6, RollbackStep
  <2>7. ASSUME NEW t \in Requests, CommitUnaudited(t) PROVE ChainInv'
    BY <2>7, CommitUnauditedStep
  <2>8. CASE UNCHANGED vars
    BY <2>8 DEF vars, ChainInv, TypeOK, LockHeld, ChainHolderNeverWaits, Linked,
                SeqsBelow, HistoryIsLog, NothingUnaudited
  <2>9. QED
    BY <2>1, <2>2, <2>3, <2>4, <2>5, <2>6, <2>7, <2>8 DEF Next, Work
<1>3. QED
  BY <1>1, <1>2, PTL DEF Spec

(* The variables keep their types: in particular every stored hash is the  *)
(* hash of a finite history, never NULL.                                   *)
THEOREM TypeCorrect == Spec => []TypeOK
<1>1. ChainInv => TypeOK
  BY DEF ChainInv
<1>2. QED
  BY <1>1, ChainInvariant, PTL

(* verify_audit_log() never reports a break, for whoever runs it and       *)
(* however many transactions write at once.                                *)
THEOREM ChainNeverBreaks == Spec => []VerifyPasses
<1>1. ChainInv => VerifyPasses
  <2> SUFFICES ASSUME ChainInv, NEW t \in Requests PROVE Broken(log \cup own[t]) = {}
    BY DEF VerifyPasses
  <2>1. CASE pc[t] = "written"
    BY <2>1, WrittenRow
  <2>2. CASE pc[t] # "written"
    <3>1. log \cup own[t] = log
      BY <2>2 DEF ChainInv, Linked
    <3>2. QED
      BY <3>1 DEF ChainInv
  <2>3. QED
    BY <2>1, <2>2
<1>2. QED
  BY <1>1, ChainInvariant, PTL

(* A handler that calls writeAudit answers nothing and changes nothing     *)
(* without a durable entry, whatever the transactions beside it do that    *)
(* record nothing at all.                                                  *)
THEOREM EverythingAudited == Spec => []NothingUnaudited
<1>1. ChainInv => NothingUnaudited
  BY DEF ChainInv
<1>2. QED
  BY <1>1, ChainInvariant, PTL

(* The audit log takes part in no deadlock.                                *)
THEOREM NoWaitBehindChain == Spec => []ChainHolderNeverWaits
<1>1. ChainInv => ChainHolderNeverWaits
  BY DEF ChainInv
<1>2. QED
  BY <1>1, ChainInvariant, PTL

(* The table, its locks and its transactions implement the abstract        *)
(* append-only log, of which the last hash is the history.                 *)
THEOREM ChainImplementsLog == Spec => LogRefinement
<1>1. Init => Log!LogInit
  BY DEF Init, Log!LogInit, LastHash, Genesis
<1>2. ChainInv /\ [Next]_vars => [Log!LogNext]_(LastHash(log))
  <2> SUFFICES ASSUME ChainInv, [Next]_vars, LastHash(log)' # LastHash(log)
               PROVE  Log!LogNext
    OBVIOUS
  <2>1. log' # log
    OBVIOUS
  <2>2. PICK t \in Requests : Commit(t)
    BY <2>1 DEF Next, Work, Begin, StartUpdate, Update, EarlyReturn,
                CallWriteAuditLog, TakeLock, ReadLast, Insert, CommitUnaudited,
                Rollback, vars
  <2>3. PICK r \in Entries :
          /\ own[t] = {r}
          /\ r.hash = Append(LastHash(log), t)
          /\ LastHash(log \cup {r}) = r.hash
    BY <2>2, WrittenRow DEF Commit
  <2>4. LastHash(log)' = Append(LastHash(log), t)
    BY <2>2, <2>3 DEF Commit
  <2>5. ~Log!Recorded(t)
    BY <2>2, UnderWayNotLogged DEF Commit, Log!Recorded, ChainInv, HistoryIsLog
  <2>6. Log!Record(t)
    BY <2>4, <2>5 DEF Log!Record
  <2>7. QED
    BY <2>6 DEF Log!LogNext
<1>3. QED
  BY <1>1, <1>2, ChainInvariant, PTL DEF Spec, LogRefinement, Log!LogSpec
=============================================================================
