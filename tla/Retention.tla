----------------------------- MODULE Retention ------------------------------
(***************************************************************************)
(* Retention sweeps (api/src/retention.ts) over the objects and edges of a *)
(* case that is being worked on: CaseFile with the sweeps as one more kind *)
(* of actor.                                                               *)
(*                                                                         *)
(* A sweep records that it has started, anonymizes expired objects batch   *)
(* by batch, then expired edges, and finally records how many it has       *)
(* anonymized, with an audit entry.  Each batch is a transaction of two    *)
(* statements: a SELECT that decides what is eligible and an UPDATE by id. *)
(***************************************************************************)
EXTENDS CaseFile

CONSTANTS Sweeps,      \* sweeps, scheduled or started by an admin
          Expired,     \* objects and edges past their source's retention_days
          BatchSize    \* BATCH_SIZE

ASSUME RetentionAssumption ==
  /\ Expired \subseteq Objects \cup Edges
  /\ BatchSize \in Nat \ {0}
  /\ Real \notin Sweeps
  /\ None \notin Sweeps \cup {Real}
  /\ None \notin Snapshots(Sweeps \cup {Real})

VARIABLES
  at,        \* where each sweep is
  batch,     \* the ids it has selected
  count,     \* how many it has anonymized, by its own count
  reported,  \* the count it has recorded and audited, or -1
  overlapped \* history: sweeps that were at work while another was

sweepVars == <<at, batch, count, reported, overlapped>>
vars == <<status, entities, notes, snapshot, data, req, met, stragglers,
          at, batch, count, reported, overlapped>>

SweepPlaces == {"idle", "objects", "objectsUpdate", "edges", "edgesUpdate",
                "reporting", "done", "failed"}

Sweeping == {s \in Sweeps : at[s] \notin {"idle", "done", "failed"}}

Init ==
  /\ CaseInit
  /\ at = [s \in Sweeps |-> "idle"]
  /\ batch = [s \in Sweeps |-> {}]
  /\ count = [s \in Sweeps |-> 0]
  /\ reported = [s \in Sweeps |-> -1]
  /\ overlapped = {}

Arrive(s, place) == at' = [at EXCEPT ![s] = place]

(* "An object still pinned to a live investigation"                        *)
Live == status \in {"open", "under_review"}

-----------------------------------------------------------------------------
(* Deviations, as in CaseFile.                                             *)

(* Anonymize with = where the loops have +=.                               *)
AnonymizeLastBatchOnly(s) ==
  LET full == Cardinality(batch[s]) = BatchSize
      more == IF at[s] = "objectsUpdate" THEN "objects" ELSE "edges"
      over == IF at[s] = "objectsUpdate" THEN "edges" ELSE "reporting"
  IN  /\ at[s] \in {"objectsUpdate", "edgesUpdate"}
      /\ data' = [x \in DOMAIN data |-> IF x \in batch[s] THEN s ELSE data[x]]
      /\ count' = [count EXCEPT ![s] = Cardinality(batch[s])]
      /\ batch' = [batch EXCEPT ![s] = {}]
      /\ Arrive(s, IF full THEN more ELSE over)
      /\ UNCHANGED <<caseRow, entities, notes, req, met, reported, overlapped>>

(* Eligible that spares the objects pinned to open cases only.             *)
EligibleOpenOnly(kind) ==
  IF kind = "objects"
  THEN {o \in Objects \cap Expired : data[o] = Real /\ ~(status = "open" /\ o \in entities)}
  ELSE {e \in Edges \cap Expired : data[e] = Real}

-----------------------------------------------------------------------------
(* What a batch may select: objects past their window, not yet marked and  *)
(* not pinned to a live case; edges past their window and not yet marked.  *)
Eligible(kind) ==
  IF kind = "objects"
  THEN {o \in Objects \cap Expired : data[o] = Real /\ ~(Live /\ o \in entities)}
  ELSE {e \in Edges \cap Expired : data[e] = Real}

(* LIMIT BATCH_SIZE: as many as there are, up to the limit.                *)
Batches(kind) ==
  {ids \in SUBSET Eligible(kind) :
     /\ Cardinality(ids) <= BatchSize
     /\ Cardinality(ids) < BatchSize => ids = Eligible(kind)}

(* INSERT INTO retention_enforcement_runs.  The scheduler's sweeps are a   *)
(* day apart; one that an admin starts may overlap another.                *)
StartSweep(s) ==
  /\ at[s] = "idle"
  /\ Arrive(s, "objects")
  /\ overlapped' = overlapped \cup (IF Sweeping = {} THEN {} ELSE Sweeping \cup {s})
  /\ UNCHANGED <<caseVars, batch, count, reported>>

(* A deviation: Select in a loop that goes on while anything past its      *)
(* window is not marked, pinned or not.                                    *)
SelectWhileAnyLeft(s, kind, update, next) ==
  LET left == {x \in Expired : data[x] = Real}
                \cap (IF kind = "objects" THEN Objects ELSE Edges)
  IN  /\ at[s] = kind
      /\ \E ids \in Batches(kind) :
           /\ batch' = [batch EXCEPT ![s] = ids]
           /\ Arrive(s, IF ids # {} THEN update ELSE IF left = {} THEN next ELSE kind)
      /\ UNCHANGED <<caseVars, count, reported, overlapped>>

(* The SELECT of a batch; an empty one ends the loop.                      *)
Select(s, kind, update, next) ==
  /\ at[s] = kind
  /\ \E ids \in Batches(kind) :
       /\ batch' = [batch EXCEPT ![s] = ids]
       /\ Arrive(s, IF ids = {} THEN next ELSE update)
  /\ UNCHANGED <<caseVars, count, reported, overlapped>>

SelectObjects(s) == Select(s, "objects", "objectsUpdate", "edges")
SelectEdges(s) == Select(s, "edges", "edgesUpdate", "reporting")

(* The loop goes on while batches are full.                                *)
AfterBatch(s) ==
  LET full == Cardinality(batch[s]) = BatchSize IN
  IF at[s] = "objectsUpdate" THEN IF full THEN "objects" ELSE "edges"
                             ELSE IF full THEN "edges" ELSE "reporting"

(* UPDATE ... WHERE id = ANY(ids), whatever has become of them since.      *)
Anonymize(s) ==
  /\ at[s] \in {"objectsUpdate", "edgesUpdate"}
  /\ data' = [x \in DOMAIN data |-> IF x \in batch[s] THEN s ELSE data[x]]
  /\ count' = [count EXCEPT ![s] = @ + Cardinality(batch[s])]
  /\ batch' = [batch EXCEPT ![s] = {}]
  /\ Arrive(s, AfterBatch(s))
  /\ UNCHANGED <<caseRow, entities, notes, req, met, reported, overlapped>>

(* The run row and the audit entry get the counts, in one transaction.     *)
RecordRun(s) ==
  /\ at[s] = "reporting"
  /\ reported' = [reported EXCEPT ![s] = count[s]]
  /\ Arrive(s, "done")
  /\ UNCHANGED <<caseVars, batch, count, overlapped>>

(* A statement fails or the server goes down: the batches committed so far *)
(* stay, the rest does not happen.                                         *)
SweepFails(s) ==
  /\ s \in Sweeping
  /\ batch' = [batch EXCEPT ![s] = {}]
  /\ Arrive(s, "failed")
  /\ UNCHANGED <<caseVars, count, reported, overlapped>>

Sweep(s) == SelectObjects(s) \/ SelectEdges(s) \/ Anonymize(s) \/ RecordRun(s)

SweepStep == \E s \in Sweeps : StartSweep(s) \/ Sweep(s) \/ SweepFails(s)

Next ==
  \/ CaseStep /\ UNCHANGED sweepVars
  \/ SweepStep

Spec == Init /\ [][Next]_vars

(* A started sweep goes on by itself, whoever else is at work.             *)
SweepSpec == Spec /\ \A s \in Sweeps : WF_vars(Sweep(s))

-----------------------------------------------------------------------------
(* Properties                                                              *)

TypeOK ==
  /\ CaseTypeOK(Sweeps \cup {Real})
  /\ at \in [Sweeps -> SweepPlaces]
  /\ batch \in [Sweeps -> SUBSET (Objects \cup Edges)]
  /\ count \in [Sweeps -> Nat]
  /\ reported \in [Sweeps -> Nat \cup {-1}]
  /\ overlapped \in SUBSET Sweeps

(* The objects and edges that carry a sweep's marker.                      *)
MarkedBy(s) == {x \in DOMAIN data : data[x] = s}

(* No anonymization goes unreported, also when sweeps overlap: a finished  *)
(* sweep has put at least the number that carries its marker in the audit  *)
(* log.                                                                    *)
NothingUncounted ==
  \A s \in Sweeps : at[s] = "done" => reported[s] >= Cardinality(MarkedBy(s))

(* The number a finished sweep has put in the audit log is that number,    *)
(* and stays so whatever sweeps come later, if no other sweep was at work  *)
(* while it was.                                                           *)
SweepReportExact ==
  \A s \in Sweeps \ overlapped :
    at[s] = "done" => reported[s] = Cardinality(MarkedBy(s))

(* A sweep ends: its loops run out of work although analysts keep pinning, *)
(* unpinning, closing and reopening.                                       *)
SweepEnds == \A s \in Sweeps : (s \in Sweeping) ~> (s \notin Sweeping)

(* An object pinned to a live case and selected by no sweep keeps its      *)
(* properties, and is selected by none, for as long as it stays pinned and *)
(* the case live.  (A sweep that has selected it before it was pinned      *)
(* clears it all the same.)                                                *)
Protected(o) ==
  Live /\ o \in entities /\ data[o] = Real /\ \A s \in Sweeps : o \notin batch[s]

PinProtects ==
  [][\A o \in Objects : Protected(o) /\ Live' /\ o \in entities' => Protected(o)']_vars

(* "An object/edge still pinned to a currently-open case is skipped        *)
(* regardless of how expired it is": no step clears the properties of an   *)
(* object pinned to a live case, or of an edge between two of them.        *)
PinnedDataKept ==
  [][\A x \in Objects \cup Edges :
       data[x] = Real /\ data'[x] # Real =>
         ~(Live /\ x \in entities \cup EdgesAmong(entities))]_vars
=============================================================================
