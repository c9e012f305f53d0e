------------------------------ MODULE AuditLog ------------------------------
(***************************************************************************)
(* What the audit log promises (db/migrations/004_audit_log.sql): one      *)
(* history, to which entries are only ever added, one at a time and at the *)
(* end, and in which a request is recorded at most once.                   *)
(***************************************************************************)
EXTENDS Naturals, Sequences

CONSTANT Requests

VARIABLE history    \* the requests recorded, in order

Recorded(t) == \E i \in DOMAIN history : history[i] = t

LogInit == history = << >>

Record(t) ==
  /\ ~Recorded(t)
  /\ history' = Append(history, t)

LogNext == \E t \in Requests : Record(t)

LogSpec == LogInit /\ [][LogNext]_history
=============================================================================
