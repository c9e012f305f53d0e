------------------------------ MODULE CaseFile ------------------------------
(***************************************************************************)
(* One investigation case and the requests that work on it                 *)
(* (api/src/routes/cases/workspace.ts and lifecycle.ts): notes, pinned     *)
(* entities, status changes, the evidence snapshot that is frozen when the *)
(* case is closed, and the report that is made from it.                    *)
(*                                                                         *)
(* A request is one READ COMMITTED transaction.  It reads the case without *)
(* locking it, so whatever it has read may be out of date when it writes.  *)
(* What follows a request's last write, the activity trail and the audit   *)
(* entry, commits with it and is not kept apart here.                      *)
(*                                                                         *)
(* The objects have been ingested; edges between them go on being          *)
(* ingested while the case is worked on.                                   *)
(***************************************************************************)
EXTENDS Integers, FiniteSets

CONSTANTS Requests,   \* requests, one transaction each
          Objects,    \* objects an analyst may pin
          Edges,      \* <<source, target>>: edges between them
          Classified, \* objects and edges that some sessions may not read
          Cleared,    \* the requests of sessions that may read everything
          Real,       \* the properties an object or edge was ingested with
          None        \* no snapshot; no object; an edge not ingested yet

ASSUME CaseAssumption ==
  /\ IsFiniteSet(Objects)
  /\ Edges \subseteq Objects \X Objects
  /\ Objects \cap Edges = {}
  /\ None \notin Objects

VARIABLES
  status,     \* cases.status
  entities,   \* case_entities: the objects pinned
  notes,      \* case_notes: the requests that added one
  snapshot,   \* cases.evidence_snapshot
  data,       \* properties of each object and edge: Real, or who cleared them
  req,        \* each request: where it is, its task and what it has read
  met,        \* history: requests that were under way while a locking one was
  stragglers  \* history: those that met the one that has locked the case

caseRow == <<status, snapshot, stragglers>>
caseVars == <<status, entities, notes, snapshot, data, req, met, stragglers>>

(* STATUSES and LOCKED_STATUSES                                            *)
Statuses == {"open", "under_review", "closed", "archived"}
Locked == {"closed", "archived"}

Edits == {"note", "pin", "unpin"}

Places == {"idle", "started", "checked", "written", "entitiesRead",
           "objectsRead", "ready", "done"}

NothingSeen == [ids |-> {}, objects |-> << >>, edges |-> << >>]

(* A request before it arrives and after it has ended; "pending" is the    *)
(* row of case_entities it has written and not committed, "seen" what a    *)
(* closing request has read for its snapshot.                              *)
Idle == [at |-> "idle", task |-> "none", object |-> None, pending |-> "none",
         seen |-> NothingSeen]

Ended(r) == [Idle EXCEPT !.at = "done", !.object = r.object]

UnderWay == {t \in Requests : req[t].at \notin {"idle", "done"}}

(* The edges the snapshot and the graph view show: those with both ends    *)
(* among the given objects, of the edges there are by now.                 *)
EdgesAmong(ids) == {e \in Edges : data[e] # None /\ e[1] \in ids /\ e[2] \in ids}

(* Row-level security: what the session of a request can read.             *)
Visible(t) == (Objects \cup Edges) \ (IF t \in Cleared THEN {} ELSE Classified)

(* The given objects or edges with their properties.                       *)
DataOf(things) == [x \in things |-> data[x]]

CaseInit ==
  /\ status = "open"
  /\ entities \in SUBSET Objects
  /\ notes = {}
  /\ snapshot = None
  /\ data \in [Objects \cup Edges -> {Real, None}]
  /\ \A o \in Objects : data[o] = Real
  /\ req = [t \in Requests |-> Idle]
  /\ met = [t \in Requests |-> {}]
  /\ stragglers = {}

(* The request's transaction goes on, or ends.                             *)
Continue(t, r) == req' = [req EXCEPT ![t] = r] /\ met' = met

Goto(t, place) == Continue(t, [req[t] EXCEPT !.at = place])

End(t) ==
  /\ req' = [req EXCEPT ![t] = Ended(@)]
  /\ met' = [met EXCEPT ![t] = {}]

-----------------------------------------------------------------------------
(* Deviations.  Each operator here is a mistake that could have been made  *)
(* in the definition it names; none of them is part of the specification.  *)

(* CheckStatus that tests for 'closed' only.                               *)
CheckStatusClosedOnly(t) ==
  /\ req[t].at = "started"
  /\ req[t].task \in Edits
  /\ IF status = "closed" THEN End(t) ELSE Goto(t, "checked")
  /\ UNCHANGED <<caseRow, entities, notes, data>>

(* ReadEntities that leaves out objects already anonymized.                *)
ReadEntitiesRealOnly(t) ==
  /\ req[t].at = "started"
  /\ req[t].task = "closed"
  /\ Continue(t, [req[t] EXCEPT !.seen.ids = {o \in entities : data[o] = Real},
                               !.at = "entitiesRead"])
  /\ UNCHANGED <<caseRow, entities, notes, data>>

(* FrozenReport that renders the ids of the snapshot from live data: the   *)
(* snapshot of an earlier version held ids only.                           *)
FrozenReportLive == [objects |-> DataOf(snapshot.ids), notes |-> notes]

-----------------------------------------------------------------------------
(* Requests that edit the case                                             *)

(* A request arrives: an edit, or PATCH .../status.                        *)
Begin(t) ==
  /\ req[t] = Idle
  /\ \E what \in Edits \cup Statuses :
       \E o \in IF what \in {"pin", "unpin"} THEN Objects ELSE {None} :
         req' = [req EXCEPT ![t] = [Idle EXCEPT !.at = "started", !.task = what, !.object = o]]
  /\ met' = [u \in Requests |-> IF req'[u].task \notin Locked THEN {}
                               ELSE IF u = t THEN UnderWay ELSE met[u] \cup {t}]
  /\ UNCHANGED <<caseRow, entities, notes, data>>

(* SELECT status FROM cases: a locked case is not edited (409).            *)
CheckStatus(t) ==
  /\ req[t].at = "started"
  /\ req[t].task \in Edits
  /\ IF status \in Locked THEN End(t) ELSE Goto(t, "checked")
  /\ UNCHANGED <<caseRow, entities, notes, data>>

(* Requests whose uncommitted change of the row of t's object t must wait  *)
(* for.  An inserted row is seen by a conflicting INSERT, not by a DELETE. *)
InTheWay(t) ==
  {u \in Requests \ {t} :
     /\ req[u].object = req[t].object
     /\ \/ req[u].pending = "delete"
        \/ req[u].pending = "insert" /\ req[t].task = "pin"}

(* INSERT ... ON CONFLICT DO NOTHING                                       *)
Pin(t) ==
  /\ req[t].at = "checked"
  /\ req[t].task = "pin"
  /\ InTheWay(t) = {}
  /\ Continue(t, [req[t] EXCEPT
                    !.at = "written",
                    !.pending = IF req[t].object \in entities THEN "none" ELSE "insert"])
  /\ UNCHANGED <<caseRow, entities, notes, data>>

(* DELETE FROM case_entities                                               *)
Unpin(t) ==
  /\ req[t].at = "checked"
  /\ req[t].task = "unpin"
  /\ InTheWay(t) = {}
  /\ Continue(t, [req[t] EXCEPT
                    !.at = "written",
                    !.pending = IF req[t].object \in entities THEN "delete" ELSE "none"])
  /\ UNCHANGED <<caseRow, entities, notes, data>>

CommitPin(t) ==
  /\ req[t].at = "written"
  /\ entities' = IF req[t].pending = "insert" THEN entities \cup {req[t].object}
                 ELSE IF req[t].pending = "delete" THEN entities \ {req[t].object}
                 ELSE entities
  /\ End(t)
  /\ UNCHANGED <<caseRow, notes, data>>

AddNote(t) ==
  /\ req[t].at = "checked"
  /\ req[t].task = "note"
  /\ notes' = notes \cup {t}
  /\ End(t)
  /\ UNCHANGED <<caseRow, entities, data>>

-----------------------------------------------------------------------------
(* Requests that change the status                                         *)

(* Closing reads, statement by statement, what it is going to freeze: the  *)
(* pinned objects' ids ...                                                 *)
ReadEntities(t) ==
  /\ req[t].at = "started"
  /\ req[t].task = "closed"
  /\ Continue(t, [req[t] EXCEPT !.seen.ids = entities, !.at = "entitiesRead"])
  /\ UNCHANGED <<caseRow, entities, notes, data>>

(* ... those of the objects that its session can read ...                  *)
ReadObjects(t) ==
  /\ req[t].at = "entitiesRead"
  /\ Continue(t, [req[t] EXCEPT !.seen.objects = DataOf(req[t].seen.ids \cap Visible(t)),
                               !.at = "objectsRead"])
  /\ UNCHANGED <<caseRow, entities, notes, data>>

(* ... and those of the edges that are by now among the pinned objects.    *)
ReadEdges(t) ==
  /\ req[t].at = "objectsRead"
  /\ Continue(t, [req[t] EXCEPT
                    !.seen.edges = DataOf(EdgesAmong(req[t].seen.ids) \cap Visible(t)),
                    !.at = "ready"])
  /\ UNCHANGED <<caseRow, entities, notes, data>>

(* UPDATE cases SET status, from whatever status the case has by now; and  *)
(* the snapshot with it when closing.                                      *)
Close(t) ==
  /\ req[t].at = "ready"
  /\ status' = "closed"
  /\ snapshot' = req[t].seen
  /\ stragglers' = met[t]
  /\ End(t)
  /\ UNCHANGED <<entities, notes, data>>

ChangeStatus(t) ==
  /\ req[t].at = "started"
  /\ req[t].task \in Statuses \ {"closed"}
  /\ status' = req[t].task
  /\ stragglers' = IF status' \in Locked THEN met[t] ELSE {}
  /\ End(t)
  /\ UNCHANGED <<entities, notes, snapshot, data>>

(* A request fails and its transaction rolls back.                         *)
RequestFails(t) ==
  /\ t \in UnderWay
  /\ End(t)
  /\ UNCHANGED <<caseRow, entities, notes, data>>

Serve(t) ==
  \/ CheckStatus(t) \/ Pin(t) \/ Unpin(t) \/ CommitPin(t) \/ AddNote(t)
  \/ ReadEntities(t) \/ ReadObjects(t) \/ ReadEdges(t) \/ Close(t)
  \/ ChangeStatus(t)

(* A chunk of another source's edges commits.                              *)
EdgeIngested(e) ==
  /\ data[e] = None
  /\ data' = [data EXCEPT ![e] = Real]
  /\ UNCHANGED <<caseRow, entities, notes, req, met>>

CaseStep ==
  \/ \E t \in Requests : Begin(t) \/ Serve(t) \/ RequestFails(t)
  \/ \E e \in Edges : EdgeIngested(e)

-----------------------------------------------------------------------------
(* GET /cases/:id/report, for a reader who may read everything: a closed   *)
(* case is rendered from its snapshot, any other case from live data; the  *)
(* notes are always live.                                                  *)
FrozenReport == [objects |-> snapshot.objects, notes |-> notes]

LiveReport == [objects |-> DataOf(entities), notes |-> notes]

Report ==
  IF status = "closed" /\ snapshot # None THEN FrozenReport ELSE LiveReport

-----------------------------------------------------------------------------
(* Properties                                                              *)

(* Properties of some objects or edges, each one of the given values.      *)
Readings(values) == UNION {[things -> values] : things \in SUBSET (Objects \cup Edges)}

Snapshots(values) ==
  [ids : SUBSET Objects, objects : Readings(values), edges : Readings(values)]

RequestStates(values) ==
  [at : Places, task : Edits \cup Statuses \cup {"none"}, object : Objects \cup {None},
   pending : {"none", "insert", "delete"}, seen : Snapshots(values)]

CaseTypeOK(values) ==
  /\ status \in Statuses
  /\ entities \in SUBSET Objects
  /\ notes \in SUBSET Requests
  /\ snapshot \in Snapshots(values) \cup {None}
  /\ data \in [Objects \cup Edges -> values \cup {None}]
  /\ \A o \in Objects : data[o] # None
  /\ req \in [Requests -> RequestStates(values)]
  /\ met \in [Requests -> SUBSET Requests]
  /\ stragglers \in SUBSET Requests

ObjectsOf(requests) == {req[t].object : t \in requests}

(* A closed case has a snapshot.  The objects it was made from are those   *)
(* pinned, except for objects that a request was pinning or unpinning      *)
(* while another was closing the case: of such a race either may come out. *)
ClosedIsTheSnapshot ==
  status = "closed" =>
    /\ snapshot # None
    /\ \A o \in Objects \ ObjectsOf(stragglers) : o \in snapshot.ids <=> o \in entities

(* "Closed/archived cases can no longer be edited": while a case is locked *)
(* no step changes its notes or its pinned entities.                       *)
LockedIsFinal ==
  [][(status \in Locked) => UNCHANGED <<entities, notes>> ]_caseVars

(* What is left of that, with the status read by one statement and the     *)
(* edit written by another: once the requests that were under way when the *)
(* case was being locked have ended, nothing changes it until a status     *)
(* change unlocks it, whatever is sent.                                    *)
FinalOnceQuiet ==
  [][(status \in Locked /\ stragglers \cap UnderWay = {}) =>
       UNCHANGED <<entities, notes>> ]_caseVars

(* The report of a closed case stays as it is as long as the case stays    *)
(* closed, whatever is ingested or happens to the objects it is about,     *)
(* once the requests that raced the closing have ended; only closing the   *)
(* case again makes another report.                                        *)
ClosedReportFixed ==
  [][status = "closed" /\ status' = "closed" /\ stragglers \cap UnderWay = {} =>
       Report' = Report \/ \E t \in Requests : Close(t)]_caseVars
=============================================================================
