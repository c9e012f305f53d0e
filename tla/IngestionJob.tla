---------------------------- MODULE IngestionJob ----------------------------
(***************************************************************************)
(* What an ingestion run promises, whatever happens to the processes that  *)
(* work on it: the rows of the uploaded file are taken in file order, each *)
(* one once; a row ends up either as an object (or edge) or in quarantine; *)
(* the run is complete only when no row is left, and completing it         *)
(* publishes one report with the true numbers.  How many attempts, crashes *)
(* and restarts it takes is not part of the promise.                       *)
(*                                                                         *)
(* IngestionRun is shown to implement this module.                         *)
(***************************************************************************)
EXTENDS Integers, FiniteSets

CONSTANTS NumRows,    \* rows in the uploaded file
          ChunkSize   \* rows one database transaction takes

VARIABLES phase,      \* "none", "open" or "complete"
          made,       \* rows that became an object or an edge
          rejected,   \* rows in quarantine
          report      \* what the audit log says of the run: a set of entries

jobVars == <<phase, made, rejected, report>>

JobInit ==
  /\ phase = "none"
  /\ made = {}
  /\ rejected = {}
  /\ report = {}

Open ==
  /\ phase = "none"
  /\ phase' = "open"
  /\ UNCHANGED <<made, rejected, report>>

(* The rows taken so far are always a prefix 1..n of the file, and the     *)
(* next step takes the rows right after it.                                *)
Advance ==
  /\ phase = "open"
  /\ \E n \in 0..NumRows, m \in 1..NumRows :
       /\ made \cup rejected = 1..n
       /\ n < m /\ m <= n + ChunkSize
       /\ \E bad \in SUBSET ((n+1)..m) :
            /\ rejected' = rejected \cup bad
            /\ made' = made \cup (((n+1)..m) \ bad)
  /\ UNCHANGED <<phase, report>>

Complete ==
  /\ phase = "open"
  /\ made \cup rejected = 1..NumRows
  /\ phase' = "complete"
  /\ report' = {[ingested |-> Cardinality(made), quarantined |-> Cardinality(rejected)]}
  /\ UNCHANGED <<made, rejected>>

JobNext == Open \/ Advance \/ Complete

JobSpec == JobInit /\ [][JobNext]_jobVars
=============================================================================
