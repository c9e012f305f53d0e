-------------------------- MODULE RetentionProofs ---------------------------
(***************************************************************************)
(* Proofs about CaseFile and Retention, for any number of requests,        *)
(* objects, edges and sweeps, any batch size, any clearances and any set   *)
(* of expired rows.                                                        *)
(***************************************************************************)
EXTENDS Retention, FiniteSetTheorems, TLAPS

Values == Sweeps \cup {Real}

-----------------------------------------------------------------------------
(* The inductive invariant of a case                                       *)

Reading == {"entitiesRead", "objectsRead", "ready"}

(* Where a request is tells its task.                                      *)
StateSound(r) ==
  /\ r.at \in {"idle", "done"} => r.task = "none"
  /\ r.task \in {"pin", "unpin"} => r.object \in Objects
  /\ r.pending # "none" => r.task \in {"pin", "unpin"}
  /\ r.at \in {"checked", "written"} => r.task \in Edits
  /\ r.at \in Reading => r.task = "closed"

CaseInv == TypeOK /\ \A t \in Requests : StateSound(req[t])

(* The requests that are recorded as met have begun, and those that are    *)
(* about to lock the case have met all that are under way ...              *)
OnlyBegun ==
  \A u \in stragglers \cup UNION {met[t] : t \in Requests} : req[u].at # "idle"

LockersMeetAll ==
  \A t, u \in UnderWay : t # u /\ req[t].task \in Locked => u \in met[t]

(* ... so that what has passed its check is among those that met the one   *)
(* that has locked the case since ...                                      *)
LateAreRefused ==
  status \in Locked =>
    \A t \in Requests : req[t].at \in {"checked", "written"} => t \in stragglers

(* ... and what a request that is closing the case has read is still what  *)
(* is pinned, except for the objects of those that it has met.             *)
ReadIsCurrent ==
  \A t \in Requests : req[t].at \in Reading =>
    \A o \in Objects \ ObjectsOf(met[t]) : o \in req[t].seen.ids <=> o \in entities

RaceInv ==
  /\ OnlyBegun /\ LockersMeetAll /\ LateAreRefused /\ ReadIsCurrent
  /\ ClosedIsTheSnapshot

-----------------------------------------------------------------------------
(* The inductive invariant of sweeps                                       *)

(* A row carries the marker of the last sweep that has anonymized it, so   *)
(* that a sweep's own count is at least the number that carry its marker.  *)
CountsCover ==
  \A s \in Sweeps :
    /\ Cardinality(MarkedBy(s)) <= count[s]
    /\ at[s] = "done" => reported[s] = count[s]

(* Of two sweeps at work both have overlapped; and only these clear rows   *)
(* that another has selected: for a sweep that has not overlapped, what it *)
(* selects stays unmarked until it marks it, and what it has marked keeps  *)
(* its marker.                                                             *)
OverlapsKnown == \A r, s \in Sweeping : r # s => r \in overlapped

SelectedUnmarked ==
  \A s \in Sweeps :
    /\ batch[s] # {} => at[s] \in {"objectsUpdate", "edgesUpdate"}
    /\ \A x \in batch[s] : data[x] \in {Real} \cup overlapped
    /\ s \notin overlapped => \A x \in batch[s] : data[x] = Real

CountsExact ==
  \A s \in Sweeps \ overlapped :
    /\ count[s] = Cardinality(MarkedBy(s))
    /\ at[s] = "done" => reported[s] = count[s]

SweepInv == CountsCover /\ OverlapsKnown /\ SelectedUnmarked /\ CountsExact

-----------------------------------------------------------------------------
(* Lemmas about requests                                                   *)

LEMMA IdleAndEnded ==
  /\ Idle \in RequestStates(Values) /\ StateSound(Idle)
  /\ \A r \in RequestStates(Values) :
       /\ Ended(r) \in RequestStates(Values) /\ StateSound(Ended(r))
       /\ Ended(r).at = "done" /\ Ended(r).task = "none" /\ Ended(r).object = r.object
<1>1. << >> \in Readings(Values)
  <2>1. << >> \in [{} -> Values]
    OBVIOUS
  <2>2. QED
    BY <2>1 DEF Readings
<1>2. NothingSeen \in Snapshots(Values)
  BY <1>1 DEF NothingSeen, Snapshots
<1>3. Idle \in RequestStates(Values)
  BY <1>2 DEF Idle, RequestStates, Places
<1>4. Idle.at = "idle" /\ Idle.task = "none" /\ Idle.pending = "none"
  BY DEF Idle
<1>5. ASSUME NEW r \in RequestStates(Values)
      PROVE  /\ Ended(r) \in RequestStates(Values) /\ Ended(r).pending = "none"
             /\ Ended(r).at = "done" /\ Ended(r).task = "none" /\ Ended(r).object = r.object
  BY <1>3, <1>4 DEF Ended, RequestStates, Places
<1>6. QED
  BY <1>3, <1>4, <1>5 DEF StateSound, Edits, Reading

(* What a statement reads of some objects or edges.                        *)
LEMMA DataRead ==
  ASSUME TypeOK, NEW things \in SUBSET (Objects \cup Edges),
         \A x \in things : data[x] # None
  PROVE  DataOf(things) \in Readings(Values)
<1>1. data \in [Objects \cup Edges -> Values \cup {None}]
  BY DEF TypeOK, CaseTypeOK, Values
<1>2. DataOf(things) \in [things -> Values]
  BY <1>1 DEF DataOf
<1>3. QED
  BY <1>2 DEF Readings

(* What every step of a request leaves true of requests: it is one that    *)
(* moves, from a sound state to another; and what a request has begun with *)
(* as its object stays its object.                                         *)
Moved(t) ==
  /\ req' \in [Requests -> RequestStates(Values)]
  /\ met' \in [Requests -> SUBSET Requests]
  /\ \A u \in Requests \ {t} : req'[u] = req[u]
  /\ StateSound(req'[t])
  /\ req'[t].at # "idle"
  /\ req[t].at # "idle" => req'[t].object = req[t].object

LEMMA RequestTypes ==
  ASSUME CaseInv
  PROVE  /\ TypeOK
         /\ req \in [Requests -> RequestStates(Values)]
         /\ met \in [Requests -> SUBSET Requests]
         /\ stragglers \in SUBSET Requests
         /\ entities \in SUBSET Objects
         /\ \A t \in Requests :
              /\ req[t] \in RequestStates(Values) /\ StateSound(req[t])
              /\ req[t].seen \in Snapshots(Values) /\ req[t].seen.ids \in SUBSET Objects
<1>1. req \in [Requests -> RequestStates(Values)]
  BY DEF CaseInv, TypeOK, CaseTypeOK, Values
<1>2. \A r \in RequestStates(Values) : r.seen \in Snapshots(Values)
  BY DEF RequestStates
<1>3. \A v \in Snapshots(Values) : v.ids \in SUBSET Objects
  BY DEF Snapshots
<1>4. QED
  BY <1>1, <1>2, <1>3 DEF CaseInv, TypeOK, CaseTypeOK, Values

LEMMA EndMoves ==
  ASSUME CaseInv, NEW t \in Requests, req[t].at # "idle", End(t)
  PROVE  /\ Moved(t)
         /\ req'[t].at = "done" /\ req'[t].task = "none"
         /\ met' = [met EXCEPT ![t] = {}]
<1>1. req'[t] = Ended(req[t]) /\ \A u \in Requests \ {t} : req'[u] = req[u]
  BY RequestTypes DEF End
<1>2. QED
  BY <1>1, IdleAndEnded, RequestTypes DEF End, Moved

LEMMA ContinueMoves ==
  ASSUME CaseInv, NEW t \in Requests, req[t].at # "idle",
         NEW r \in RequestStates(Values), Continue(t, r),
         StateSound(r), r.at # "idle", r.object = req[t].object
  PROVE  Moved(t) /\ req'[t] = r /\ met' = met
BY RequestTypes DEF Continue, Moved

LEMMA BeginMoves ==
  ASSUME CaseInv, NEW t \in Requests, Begin(t)
  PROVE  /\ Moved(t) /\ req[t] = Idle /\ req[t].at = "idle"
         /\ req'[t].at = "started"
         /\ met' = [u \in Requests |-> IF req'[u].task \notin Locked THEN {}
                                       ELSE IF u = t THEN UnderWay ELSE met[u] \cup {t}]
<1>1. PICK what \in Edits \cup Statuses, o \in Objects \cup {None} :
        /\ req' = [req EXCEPT ![t] = [Idle EXCEPT !.at = "started", !.task = what, !.object = o]]
        /\ what \in {"pin", "unpin"} => o \in Objects
  BY DEF Begin
<1> DEFINE r == [Idle EXCEPT !.at = "started", !.task = what, !.object = o]
<1>2. /\ r \in RequestStates(Values) /\ r.at = "started"
      /\ r.task = what /\ r.object = o /\ r.pending = "none"
  BY IdleAndEnded DEF RequestStates, Places, Idle
<1>3. StateSound(r)
  BY <1>1, <1>2 DEF StateSound, Reading
<1>4. /\ req' \in [Requests -> RequestStates(Values)] /\ req'[t] = r
      /\ \A u \in Requests \ {t} : req'[u] = req[u]
  BY <1>1, <1>2, RequestTypes
<1>5. met' \in [Requests -> SUBSET Requests]
  BY RequestTypes DEF Begin, UnderWay
<1>6. req[t] = Idle /\ req[t].at = "idle"
  BY DEF Begin, Idle
<1>7. QED
  BY <1>2, <1>3, <1>4, <1>5, <1>6 DEF Begin, Moved

(* CheckStatus goes on only in a case that is not locked.                  *)
LEMMA CheckMoves ==
  ASSUME CaseInv, NEW t \in Requests, CheckStatus(t)
  PROVE  /\ Moved(t)
         /\ \/ /\ status \notin Locked /\ req'[t].at = "checked"
               /\ req'[t].task = req[t].task /\ met' = met
            \/ req'[t].at = "done" /\ req'[t].task = "none" /\ met' = [met EXCEPT ![t] = {}]
<1>1. req[t].at # "idle"
  BY DEF CheckStatus
<1>2. CASE status \in Locked
  BY <1>1, <1>2, EndMoves DEF CheckStatus
<1>3. CASE status \notin Locked
  <2> DEFINE r == [req[t] EXCEPT !.at = "checked"]
  <2>1. /\ r \in RequestStates(Values) /\ r.at = "checked"
        /\ r.task = req[t].task /\ r.object = req[t].object /\ r.pending = req[t].pending
    BY RequestTypes DEF RequestStates, Places
  <2>2. StateSound(r)
    BY <2>1, RequestTypes DEF StateSound, CheckStatus, Reading
  <2>3. Continue(t, r)
    BY <1>3 DEF CheckStatus, Goto
  <2>4. QED
    BY <1>1, <1>3, <2>1, <2>2, <2>3, ContinueMoves
<1>4. QED
  BY <1>2, <1>3

(* Pin and unpin differ in what they leave pending.                        *)
LEMMA WriteMoves ==
  ASSUME CaseInv, NEW t \in Requests, Pin(t) \/ Unpin(t)
  PROVE  /\ Moved(t) /\ req[t].at = "checked" /\ req'[t].at = "written"
         /\ req'[t].task = req[t].task /\ met' = met
<1>1. PICK change \in {"none", "insert", "delete"} :
        Continue(t, [req[t] EXCEPT !.at = "written", !.pending = change])
  BY DEF Pin, Unpin
<1> DEFINE r == [req[t] EXCEPT !.at = "written", !.pending = change]
<1>2. /\ r \in RequestStates(Values) /\ r.at = "written"
      /\ r.task = req[t].task /\ r.object = req[t].object
  BY RequestTypes DEF RequestStates, Places
<1>3. r.task \in {"pin", "unpin"} /\ req[t].at = "checked"
  BY <1>2 DEF Pin, Unpin
<1>4. StateSound(r)
  BY <1>2, <1>3, RequestTypes DEF StateSound, Edits, Reading
<1>5. QED
  BY <1>1, <1>2, <1>3, <1>4, ContinueMoves

(* The three reads of a request that closes the case.                      *)
LEMMA ReadMoves ==
  ASSUME CaseInv, NEW t \in Requests,
         ReadEntities(t) \/ ReadObjects(t) \/ ReadEdges(t)
  PROVE  /\ Moved(t) /\ req[t].at # "idle" /\ req'[t].at \in Reading
         /\ req'[t].task = req[t].task /\ met' = met
         /\ \/ req'[t].seen.ids = entities
            \/ req[t].at \in Reading /\ req'[t].seen.ids = req[t].seen.ids
<1>1. /\ TypeOK /\ entities \in SUBSET Objects
      /\ req[t] \in RequestStates(Values) /\ StateSound(req[t])
      /\ req[t].seen \in Snapshots(Values) /\ req[t].seen.ids \in SUBSET Objects
  BY RequestTypes
<1>2. CASE ReadEntities(t)
  <2> DEFINE r == [req[t] EXCEPT !.seen.ids = entities, !.at = "entitiesRead"]
  <2>1. /\ r \in RequestStates(Values) /\ r.at = "entitiesRead" /\ r.seen.ids = entities
        /\ r.task = req[t].task /\ r.object = req[t].object /\ r.pending = req[t].pending
    BY <1>1 DEF RequestStates, Snapshots, Places
  <2>2. StateSound(r)
    BY <1>1, <1>2, <2>1 DEF StateSound, ReadEntities, Reading
  <2>3. QED
    BY <1>2, <2>1, <2>2, ContinueMoves DEF ReadEntities, Reading
<1>3. CASE ReadObjects(t)
  <2> DEFINE things == req[t].seen.ids \cap Visible(t)
             r == [req[t] EXCEPT !.seen.objects = DataOf(things), !.at = "objectsRead"]
  <2>1. \A o \in Objects : data[o] # None
    BY <1>1 DEF TypeOK, CaseTypeOK
  <2>2. DataOf(things) \in Readings(Values)
    BY <1>1, <2>1, DataRead
  <2>3. /\ r \in RequestStates(Values) /\ r.at = "objectsRead"
        /\ r.task = req[t].task /\ r.object = req[t].object /\ r.pending = req[t].pending
        /\ r.seen.ids = req[t].seen.ids
    BY <1>1, <2>2 DEF RequestStates, Snapshots, Places
  <2>4. StateSound(r)
    BY <1>1, <1>3, <2>3 DEF StateSound, ReadObjects, Reading
  <2>5. QED
    BY <1>3, <2>3, <2>4, ContinueMoves DEF ReadObjects, Reading
<1>4. CASE ReadEdges(t)
  <2> DEFINE things == EdgesAmong(req[t].seen.ids) \cap Visible(t)
             r == [req[t] EXCEPT !.seen.edges = DataOf(things), !.at = "ready"]
  <2>1. DataOf(things) \in Readings(Values)
    BY <1>1, DataRead DEF EdgesAmong
  <2>2. /\ r \in RequestStates(Values) /\ r.at = "ready"
        /\ r.task = req[t].task /\ r.object = req[t].object /\ r.pending = req[t].pending
        /\ r.seen.ids = req[t].seen.ids
    BY <1>1, <2>1 DEF RequestStates, Snapshots, Places
  <2>3. StateSound(r)
    BY <1>1, <1>4, <2>2 DEF StateSound, ReadEdges, Reading
  <2>4. QED
    BY <1>4, <2>2, <2>3, ContinueMoves DEF ReadEdges, Reading
<1>5. QED
  BY <1>2, <1>3, <1>4

(* Steps that end a request.                                               *)
Ending(t) == CommitPin(t) \/ AddNote(t) \/ Close(t) \/ ChangeStatus(t) \/ RequestFails(t)

LEMMA EndingMoves ==
  ASSUME CaseInv, NEW t \in Requests, Ending(t)
  PROVE  /\ Moved(t) /\ t \in UnderWay
         /\ req'[t].at = "done" /\ req'[t].task = "none"
         /\ met' = [met EXCEPT ![t] = {}]
<1>1. t \in UnderWay /\ req[t].at # "idle"
  BY DEF Ending, CommitPin, AddNote, Close, ChangeStatus, RequestFails, UnderWay
<1>2. End(t)
  BY DEF Ending, CommitPin, AddNote, Close, ChangeStatus, RequestFails
<1>3. QED
  BY <1>1, <1>2, EndMoves

-----------------------------------------------------------------------------
(* Types                                                                   *)

(* Every step of a request is one of these.                                *)
LEMMA RequestCases ==
  ASSUME NEW t \in Requests, Begin(t) \/ Serve(t) \/ RequestFails(t)
  PROVE  \/ Begin(t) \/ CheckStatus(t) \/ Pin(t) \/ Unpin(t)
         \/ ReadEntities(t) \/ ReadObjects(t) \/ ReadEdges(t)
         \/ Ending(t)
BY DEF Serve, Ending

LEMMA MovesInv ==
  ASSUME CaseInv, NEW t \in Requests, Begin(t) \/ Serve(t) \/ RequestFails(t)
  PROVE  Moved(t)
BY RequestCases, BeginMoves, CheckMoves, WriteMoves, ReadMoves, EndingMoves

(* Only status changes change the case's row.                              *)
LEMMA OtherSteps ==
  ASSUME NEW t \in Requests, Begin(t) \/ Serve(t) \/ RequestFails(t),
         ~Close(t), ~ChangeStatus(t)
  PROVE  UNCHANGED caseRow
BY RequestCases DEF Begin, CheckStatus, Pin, Unpin, ReadEntities, ReadObjects, ReadEdges,
   Ending, CommitPin, AddNote, RequestFails

LEMMA RequestStepInv ==
  ASSUME CaseInv, NEW t \in Requests, Begin(t) \/ Serve(t) \/ RequestFails(t),
         UNCHANGED sweepVars
  PROVE  CaseInv' /\ data' = data
<1>1. Moved(t)
  BY MovesInv
<1>2. data' = data
  BY RequestCases DEF Begin, CheckStatus, Pin, Unpin, ReadEntities, ReadObjects, ReadEdges,
     Ending, CommitPin, AddNote, Close, ChangeStatus, RequestFails
<1>3. status' \in Statuses /\ stragglers' \in SUBSET Requests
  <2>1. met[t] \in SUBSET Requests /\ stragglers \in SUBSET Requests /\ status \in Statuses
    BY RequestTypes DEF TypeOK, CaseTypeOK
  <2>2. CASE Close(t) \/ ChangeStatus(t)
    BY <2>1, <2>2 DEF Close, ChangeStatus, Statuses
  <2>3. QED
    BY <2>1, <2>2, OtherSteps DEF caseRow
<1>4. entities' \in SUBSET Objects /\ notes' \in SUBSET Requests
  <2>1. req[t].pending = "insert" => req[t].object \in Objects
    BY RequestTypes DEF StateSound
  <2>2. QED
    BY <2>1, RequestCases, RequestTypes DEF Begin, CheckStatus, Pin, Unpin, ReadEntities,
       ReadObjects, ReadEdges, Ending, CommitPin, AddNote, Close, ChangeStatus, RequestFails,
       TypeOK, CaseTypeOK
<1>5. snapshot' \in Snapshots(Values) \cup {None}
  BY RequestCases, RequestTypes DEF Begin, CheckStatus, Pin, Unpin, ReadEntities, ReadObjects,
     ReadEdges, Ending, CommitPin, AddNote, Close, ChangeStatus, RequestFails, caseRow,
     TypeOK, CaseTypeOK, Values
<1>6. TypeOK'
  BY <1>1, <1>2, <1>3, <1>4, <1>5, RequestTypes
     DEF TypeOK, CaseTypeOK, Values, Moved, sweepVars
<1>7. \A u \in Requests : StateSound(req'[u])
  BY <1>1, RequestTypes DEF Moved
<1>8. QED
  BY <1>2, <1>6, <1>7 DEF CaseInv

(* An edge is ingested.                                                    *)
LEMMA EdgeInv ==
  ASSUME CaseInv, NEW e \in Edges, EdgeIngested(e), UNCHANGED sweepVars
  PROVE  /\ CaseInv'
         /\ data[e] = None /\ data'[e] = Real
         /\ \A x \in (Objects \cup Edges) \ {e} : data'[x] = data[x]
<1>1. data \in [Objects \cup Edges -> Values \cup {None}]
  BY RequestTypes DEF TypeOK, CaseTypeOK, Values
<1>2. /\ data[e] = None /\ data'[e] = Real
      /\ \A x \in (Objects \cup Edges) \ {e} : data'[x] = data[x]
      /\ data' \in [Objects \cup Edges -> Values \cup {None}]
  BY <1>1 DEF EdgeIngested, Values
<1>3. \A o \in Objects : data'[o] # None
  BY <1>2, RequestTypes DEF TypeOK, CaseTypeOK
<1>4. TypeOK'
  BY <1>2, <1>3, RequestTypes DEF TypeOK, CaseTypeOK, Values, EdgeIngested, caseRow, sweepVars
<1>5. QED
  BY <1>2, <1>4 DEF CaseInv, EdgeIngested

-----------------------------------------------------------------------------
(* Races with the request that locks the case                              *)

(* A step that is not a status change and does not change what is pinned.  *)
LEMMA QuietRace ==
  ASSUME CaseInv, RaceInv, NEW t \in Requests, Moved(t), req[t].at # "idle",
         UNCHANGED <<status, snapshot, entities, stragglers>>,
         \/ met' = met /\ t \in UnderWay /\ req'[t].task = req[t].task
         \/ met' = [met EXCEPT ![t] = {}] /\ req'[t].at = "done",
         req'[t].at \in {"checked", "written"} =>
           status \notin Locked \/ req[t].at \in {"checked", "written"},
         req'[t].at \in Reading =>
           \/ req'[t].seen.ids = entities
           \/ req[t].at \in Reading /\ req'[t].seen.ids = req[t].seen.ids
  PROVE  RaceInv'
<1>1. /\ \A u \in Requests \ {t} : req'[u] = req[u] /\ met'[u] = met[u]
      /\ \A u \in Requests : met'[u] \in {{}, met[u]}
      /\ met \in [Requests -> SUBSET Requests] /\ stragglers \in SUBSET Requests
      /\ req'[t].at # "idle" /\ req'[t].object = req[t].object
  BY RequestTypes DEF Moved
<1>2. OnlyBegun'
  BY <1>1 DEF RaceInv, OnlyBegun
<1>3. LockersMeetAll'
  <2>1. \A u \in UnderWay' : u \in UnderWay /\ req'[u].task = req[u].task /\ met'[u] = met[u]
    BY <1>1 DEF UnderWay
  <2>2. QED
    BY <2>1 DEF RaceInv, LockersMeetAll
<1>4. LateAreRefused'
  BY <1>1 DEF RaceInv, LateAreRefused
<1>5. \A S \in SUBSET Requests : {req'[u].object : u \in S} = ObjectsOf(S)
  BY <1>1 DEF ObjectsOf
<1>6. ReadIsCurrent'
  <2> SUFFICES ASSUME NEW u \in Requests, req'[u].at \in Reading,
                      NEW o \in Objects \ ObjectsOf(met[u])
               PROVE  o \in req'[u].seen.ids <=> o \in entities
    <3>1. ASSUME NEW u \in Requests, req'[u].at \in Reading
          PROVE  met'[u] = met[u]
      BY <1>1, <3>1 DEF Reading
    <3>2. \A u \in Requests : req'[u].at \in Reading => ObjectsOf(met[u]) = ObjectsOf(met[u])'
      BY <1>1, <1>5, <3>1 DEF ObjectsOf
    <3>3. QED
      BY <3>2 DEF ReadIsCurrent
  <2>1. QED
    BY <1>1 DEF RaceInv, ReadIsCurrent
<1>7. ClosedIsTheSnapshot'
  BY <1>1, <1>5 DEF RaceInv, ClosedIsTheSnapshot, ObjectsOf
<1>8. QED
  BY <1>2, <1>3, <1>4, <1>6, <1>7 DEF RaceInv

(* A request that arrives meets those that are about to lock the case.     *)
LEMMA BeginRace ==
  ASSUME CaseInv, RaceInv, NEW t \in Requests, Begin(t)
  PROVE  RaceInv'
<1>1. /\ Moved(t) /\ req[t].at = "idle" /\ req'[t].at = "started"
      /\ met' = [u \in Requests |-> IF req'[u].task \notin Locked THEN {}
                                    ELSE IF u = t THEN UnderWay ELSE met[u] \cup {t}]
      /\ UNCHANGED <<status, snapshot, entities, stragglers>>
      /\ \A u \in Requests \ {t} : req'[u] = req[u]
  BY BeginMoves DEF Begin, caseRow, Moved
<1>2. met \in [Requests -> SUBSET Requests] /\ stragglers \in SUBSET Requests
  BY RequestTypes
<1>3. UnderWay' = UnderWay \cup {t} /\ t \notin UnderWay /\ \A u \in UnderWay : req[u].at # "idle"
  BY <1>1 DEF UnderWay
<1>4. \A u \in Requests : \A w \in met'[u] : req'[w].at # "idle"
  BY <1>1, <1>2, <1>3 DEF RaceInv, OnlyBegun, Moved, UnderWay
<1>5. OnlyBegun'
  BY <1>1, <1>2, <1>4 DEF RaceInv, OnlyBegun
<1>6. LockersMeetAll'
  <2> SUFFICES ASSUME NEW v \in UnderWay', NEW u \in UnderWay', v # u, req'[v].task \in Locked
               PROVE  u \in met'[v]
    BY DEF LockersMeetAll
  <2>1. CASE v = t
    BY <1>1, <1>3, <2>1
  <2>2. CASE v # t
    <3>1. v \in UnderWay /\ req[v].task \in Locked /\ met'[v] = met[v] \cup {t}
      BY <1>1, <1>3, <2>2 DEF UnderWay
    <3>2. QED
      BY <1>3, <3>1 DEF RaceInv, LockersMeetAll
  <2>3. QED
    BY <2>1, <2>2
<1>7. LateAreRefused'
  BY <1>1 DEF RaceInv, LateAreRefused
<1>8. \A S \in SUBSET Requests : t \notin S => {req'[u].object : u \in S} = ObjectsOf(S)
  BY <1>1 DEF ObjectsOf
<1>9. t \notin stragglers /\ \A u \in Requests : t \notin met[u]
  BY <1>1 DEF RaceInv, OnlyBegun
<1>10. ReadIsCurrent'
  <2> SUFFICES ASSUME NEW u \in Requests, req'[u].at \in Reading,
                      NEW o \in Objects, o \notin ObjectsOf(met[u])'
               PROVE  o \in req'[u].seen.ids <=> o \in entities
    BY <1>1 DEF ReadIsCurrent
  <2>1. u # t /\ req[u].at \in Reading /\ req'[u] = req[u]
    BY <1>1 DEF Reading
  <2>2. req[u].task \in Locked
    BY <2>1, RequestTypes DEF StateSound, Locked
  <2>3. met'[u] = met[u] \cup {t}
    BY <1>1, <2>1, <2>2
  <2>4. o \notin {req'[w].object : w \in met[u]}
    BY <2>3 DEF ObjectsOf
  <2>5. o \notin ObjectsOf(met[u])
    BY <1>2, <1>8, <1>9, <2>4
  <2>6. QED
    BY <2>1, <2>5 DEF RaceInv, ReadIsCurrent
<1>11. ClosedIsTheSnapshot'
  BY <1>1, <1>2, <1>8, <1>9 DEF RaceInv, ClosedIsTheSnapshot, ObjectsOf
<1>12. QED
  BY <1>5, <1>6, <1>7, <1>10, <1>11 DEF RaceInv

(* A pin or an unpin commits: those that are closing the case have met it, *)
(* and so has the one that has closed it.                                  *)
LEMMA CommitRace ==
  ASSUME CaseInv, RaceInv, NEW t \in Requests, CommitPin(t)
  PROVE  RaceInv'
<1>1. /\ Moved(t) /\ t \in UnderWay /\ req[t].at = "written"
      /\ req'[t].at = "done" /\ req'[t].task = "none"
      /\ met' = [met EXCEPT ![t] = {}]
      /\ UNCHANGED <<status, snapshot, stragglers>>
      /\ \A u \in Requests \ {t} : req'[u] = req[u]
      /\ req'[t].object = req[t].object
  BY EndingMoves DEF CommitPin, caseRow, Moved, Ending
<1>2. met \in [Requests -> SUBSET Requests] /\ stragglers \in SUBSET Requests
  BY RequestTypes
<1>3. \A o \in Objects \ {req[t].object} : o \in entities' <=> o \in entities
  BY DEF CommitPin
<1>4. OnlyBegun'
  BY <1>1, <1>2 DEF RaceInv, OnlyBegun
<1>5. LockersMeetAll' /\ LateAreRefused'
  <2>1. \A u \in UnderWay' : u # t /\ u \in UnderWay /\ req'[u].task = req[u].task
    BY <1>1 DEF UnderWay
  <2>2. QED
    BY <1>1, <1>2, <2>1 DEF RaceInv, LockersMeetAll, LateAreRefused, UnderWay
<1>6. \A S \in SUBSET Requests : {req'[u].object : u \in S} = ObjectsOf(S)
  BY <1>1 DEF ObjectsOf
<1>7. ReadIsCurrent'
  <2> SUFFICES ASSUME NEW u \in Requests, req'[u].at \in Reading,
                      NEW o \in Objects, o \notin ObjectsOf(met[u])'
               PROVE  o \in req'[u].seen.ids <=> o \in entities'
    BY DEF ReadIsCurrent
  <2>1. u # t /\ req[u].at \in Reading /\ req'[u] = req[u] /\ met'[u] = met[u]
    BY <1>1, <1>2 DEF Reading
  <2>2. u \in UnderWay /\ req[u].task \in Locked
    BY <2>1, RequestTypes DEF StateSound, Locked, UnderWay, Reading
  <2>3. t \in met[u]
    BY <1>1, <2>1, <2>2 DEF RaceInv, LockersMeetAll
  <2>4. o \notin ObjectsOf(met[u])
    BY <1>2, <1>6, <2>1 DEF ObjectsOf
  <2>5. o # req[t].object
    BY <2>3, <2>4 DEF ObjectsOf
  <2>6. QED
    BY <1>3, <2>1, <2>4, <2>5 DEF RaceInv, ReadIsCurrent
<1>8. ClosedIsTheSnapshot'
  <2> SUFFICES ASSUME status = "closed", NEW o \in Objects, o \notin ObjectsOf(stragglers)'
               PROVE  o \in snapshot.ids <=> o \in entities'
    BY <1>1 DEF RaceInv, ClosedIsTheSnapshot
  <2>1. t \in stragglers
    BY <1>1 DEF RaceInv, LateAreRefused, Locked
  <2>2. o \notin ObjectsOf(stragglers)
    BY <1>1, <1>2, <1>6 DEF ObjectsOf
  <2>3. o # req[t].object
    BY <2>1, <2>2 DEF ObjectsOf
  <2>4. QED
    BY <1>3, <2>2, <2>3 DEF RaceInv, ClosedIsTheSnapshot
<1>9. QED
  BY <1>4, <1>5, <1>7, <1>8 DEF RaceInv

(* A status change: whoever has passed its check by now, the request that  *)
(* locks the case has met.                                                 *)
LEMMA StatusRace ==
  ASSUME CaseInv, RaceInv, NEW t \in Requests, Close(t) \/ ChangeStatus(t)
  PROVE  RaceInv'
<1>1. /\ Moved(t) /\ t \in UnderWay
      /\ req'[t].at = "done" /\ req'[t].task = "none"
      /\ met' = [met EXCEPT ![t] = {}]
      /\ \A u \in Requests \ {t} : req'[u] = req[u]
      /\ req'[t].object = req[t].object
  BY EndingMoves DEF Moved, UnderWay, Ending
<1>2. met \in [Requests -> SUBSET Requests]
  BY RequestTypes
<1>3. entities' = entities
  BY DEF Close, ChangeStatus
<1>4. /\ status' \in Locked => stragglers' = met[t] /\ req[t].task \in Locked
      /\ stragglers' \in {met[t], {}}
  BY RequestTypes DEF Close, ChangeStatus, StateSound, Reading, Locked
<1>5. OnlyBegun'
  BY <1>1, <1>2, <1>4 DEF RaceInv, OnlyBegun
<1>6. \A u \in UnderWay' : u # t /\ u \in UnderWay /\ req'[u] = req[u] /\ met'[u] = met[u]
  BY <1>1, <1>2 DEF UnderWay
<1>7. LockersMeetAll'
  BY <1>6 DEF RaceInv, LockersMeetAll
<1>8. LateAreRefused'
  <2> SUFFICES ASSUME status' \in Locked, NEW u \in Requests, req'[u].at \in {"checked", "written"}
               PROVE  u \in stragglers'
    BY DEF LateAreRefused
  <2>1. u \in UnderWay'
    BY DEF UnderWay
  <2>2. QED
    BY <1>1, <1>4, <1>6, <2>1 DEF RaceInv, LockersMeetAll
<1>9. \A S \in SUBSET Requests : {req'[u].object : u \in S} = ObjectsOf(S)
  BY <1>1 DEF ObjectsOf
<1>10. ReadIsCurrent'
  <2> SUFFICES ASSUME NEW u \in Requests, req'[u].at \in Reading,
                      NEW o \in Objects, o \notin ObjectsOf(met[u])'
               PROVE  o \in req'[u].seen.ids <=> o \in entities
    BY <1>3 DEF ReadIsCurrent
  <2>1. u \in UnderWay'
    BY DEF UnderWay, Reading
  <2>2. o \notin ObjectsOf(met[u])
    BY <1>2, <1>6, <1>9, <2>1 DEF ObjectsOf
  <2>3. QED
    BY <1>6, <2>1, <2>2 DEF RaceInv, ReadIsCurrent
<1>11. ClosedIsTheSnapshot'
  <2> SUFFICES ASSUME status' = "closed"
               PROVE  /\ snapshot' # None
                      /\ \A o \in Objects \ ObjectsOf(stragglers)' :
                           o \in snapshot'.ids <=> o \in entities'
    BY DEF ClosedIsTheSnapshot
  <2>1. Close(t) /\ req[t].at \in Reading /\ snapshot' = req[t].seen /\ stragglers' = met[t]
    BY DEF Close, ChangeStatus, Reading
  <2>2. snapshot' # None
    BY <2>1, RequestTypes, RetentionAssumption DEF Values
  <2>3. ObjectsOf(stragglers)' = ObjectsOf(met[t])
    BY <1>2, <1>9, <2>1 DEF ObjectsOf
  <2>4. QED
    BY <1>3, <2>1, <2>2, <2>3 DEF RaceInv, ReadIsCurrent
<1>12. QED
  BY <1>5, <1>7, <1>8, <1>10, <1>11 DEF RaceInv

LEMMA RequestStepRace ==
  ASSUME CaseInv, RaceInv, NEW t \in Requests, Begin(t) \/ Serve(t) \/ RequestFails(t)
  PROVE  RaceInv'
<1>1. "checked" \notin Reading /\ "written" \notin Reading /\ "done" \notin Reading
  BY DEF Reading
<1>2. CASE Begin(t)
  BY <1>2, BeginRace
<1>3. CASE CheckStatus(t)
  <2>1. /\ t \in UnderWay /\ req[t].at # "idle"
        /\ UNCHANGED <<status, snapshot, entities, stragglers>>
    BY <1>3 DEF CheckStatus, UnderWay, caseRow
  <2>2. QED
    BY <1>1, <1>3, <2>1, CheckMoves, QuietRace
<1>4. CASE Pin(t) \/ Unpin(t)
  <2>1. /\ t \in UnderWay /\ req[t].at # "idle"
        /\ UNCHANGED <<status, snapshot, entities, stragglers>>
    BY <1>4 DEF Pin, Unpin, UnderWay, caseRow
  <2>2. QED
    BY <1>1, <1>4, <2>1, WriteMoves, QuietRace
<1>5. CASE ReadEntities(t) \/ ReadObjects(t) \/ ReadEdges(t)
  <2>1. t \in UnderWay /\ UNCHANGED <<status, snapshot, entities, stragglers>>
    BY <1>5 DEF ReadEntities, ReadObjects, ReadEdges, UnderWay, caseRow
  <2>2. QED
    BY <1>1, <1>5, <2>1, ReadMoves, QuietRace
<1>6. CASE AddNote(t) \/ RequestFails(t)
  <2>1. Ending(t) /\ UNCHANGED <<status, snapshot, entities, stragglers>>
    BY <1>6 DEF Ending, AddNote, RequestFails, caseRow
  <2>2. /\ Moved(t) /\ req[t].at # "idle"
        /\ req'[t].at = "done" /\ met' = [met EXCEPT ![t] = {}]
    BY <2>1, EndingMoves DEF UnderWay
  <2>3. QED
    BY <1>1, <2>1, <2>2, QuietRace
<1>7. CASE CommitPin(t)
  BY <1>7, CommitRace
<1>8. CASE Close(t) \/ ChangeStatus(t)
  BY <1>8, StatusRace
<1>9. QED
  BY <1>2, <1>3, <1>4, <1>5, <1>6, <1>7, <1>8, RequestCases DEF Ending

(* Sweeps and ingestion do not touch what these invariants are about.      *)
LEMMA OthersRace ==
  ASSUME RaceInv, UNCHANGED <<caseRow, entities, req, met>>
  PROVE  RaceInv'
BY DEF RaceInv, OnlyBegun, LockersMeetAll, LateAreRefused, ReadIsCurrent, ClosedIsTheSnapshot,
       ObjectsOf, UnderWay, caseRow

-----------------------------------------------------------------------------
(* Lemmas about sweeps                                                     *)

LEMMA RowsFinite ==
  ASSUME NEW rows \in SUBSET (Objects \cup Edges)
  PROVE  IsFiniteSet(rows) /\ Cardinality(rows) \in Nat
<1>1. IsFiniteSet(Objects \X Objects)
  BY CaseAssumption, FS_Product
<1>2. IsFiniteSet(Edges)
  BY <1>1, CaseAssumption, FS_Subset
<1>3. IsFiniteSet(Objects \cup Edges)
  BY <1>2, CaseAssumption, FS_Union
<1>4. IsFiniteSet(rows)
  BY <1>3, FS_Subset
<1>5. QED
  BY <1>4, FS_CardinalityType

LEMMA MarkedType ==
  ASSUME TypeOK, NEW s \in Sweeps
  PROVE  /\ MarkedBy(s) \in SUBSET (Objects \cup Edges)
         /\ Cardinality(MarkedBy(s)) \in Nat
<1>1. MarkedBy(s) \in SUBSET (Objects \cup Edges)
  BY DEF TypeOK, CaseTypeOK, MarkedBy
<1>2. QED
  BY <1>1, RowsFinite

(* A sweep touches of the case's rows the data only.                       *)
LEMMA SelectStep ==
  ASSUME TypeOK, NEW s \in Sweeps, SelectObjects(s) \/ SelectEdges(s)
  PROVE  \E ids \in SUBSET (Objects \cup Edges), place \in SweepPlaces :
           /\ batch' = [batch EXCEPT ![s] = ids]
           /\ \A x \in ids : data[x] = Real
           /\ at' = [at EXCEPT ![s] = place]
           /\ at[s] \in {"objects", "edges"}
           /\ place \in {"objectsUpdate", "edges", "edgesUpdate", "reporting"}
           /\ ids # {} => place \in {"objectsUpdate", "edgesUpdate"}
           /\ UNCHANGED <<caseVars, count, reported, overlapped>>
<1>1. \A kind : \A ids \in Batches(kind) :
        ids \in SUBSET (Objects \cup Edges) /\ \A x \in ids : data[x] = Real
  BY DEF Batches, Eligible
<1>2. CASE SelectObjects(s)
  BY <1>1, <1>2 DEF SelectObjects, Select, Arrive, SweepPlaces
<1>3. CASE SelectEdges(s)
  BY <1>1, <1>3 DEF SelectEdges, Select, Arrive, SweepPlaces
<1>4. QED
  BY <1>2, <1>3

(* What marking a batch does to the numbers of marked rows.                *)
LEMMA AnonymizeMarks ==
  ASSUME TypeOK, NEW s \in Sweeps, Anonymize(s)
  PROVE  /\ MarkedBy(s)' = MarkedBy(s) \cup batch[s]
         /\ \A r \in Sweeps \ {s} : MarkedBy(r)' = MarkedBy(r) \ batch[s]
         /\ count'[s] = count[s] + Cardinality(batch[s])
         /\ \A r \in Sweeps \ {s} : count'[r] = count[r]
<1>1. /\ data \in [Objects \cup Edges -> Values \cup {None}] /\ batch[s] \in SUBSET (Objects \cup Edges)
      /\ count \in [Sweeps -> Nat]
  BY DEF TypeOK, CaseTypeOK, Values
<1>2. /\ data' = [x \in Objects \cup Edges |-> IF x \in batch[s] THEN s ELSE data[x]]
      /\ count' = [count EXCEPT ![s] = @ + Cardinality(batch[s])]
  BY <1>1 DEF Anonymize
<1>3. QED
  BY <1>1, <1>2 DEF MarkedBy

LEMMA SweepStepTyped ==
  ASSUME TypeOK, SweepStep
  PROVE  TypeOK' /\ UNCHANGED <<caseRow, entities, notes, req, met>>
<1>1. PICK s \in Sweeps : StartSweep(s) \/ Sweep(s) \/ SweepFails(s)
  BY DEF SweepStep
<1>2. UNCHANGED <<caseRow, entities, notes, req, met>>
  BY <1>1 DEF StartSweep, Sweep, SweepFails, SelectObjects, SelectEdges, Select, Anonymize,
              RecordRun, caseVars, caseRow
<1>3. /\ data' \in [Objects \cup Edges -> Values \cup {None}]
      /\ \A o \in Objects : data'[o] # None
      /\ at' \in [Sweeps -> SweepPlaces]
      /\ batch' \in [Sweeps -> SUBSET (Objects \cup Edges)]
      /\ count' \in [Sweeps -> Nat]
      /\ reported' \in [Sweeps -> Nat \cup {-1}]
      /\ overlapped' \in SUBSET Sweeps
  <2>1. /\ data \in [Objects \cup Edges -> Values \cup {None}]
        /\ \A o \in Objects : data[o] # None
        /\ at \in [Sweeps -> SweepPlaces]
        /\ batch \in [Sweeps -> SUBSET (Objects \cup Edges)]
        /\ count \in [Sweeps -> Nat]
        /\ reported \in [Sweeps -> Nat \cup {-1}]
        /\ overlapped \in SUBSET Sweeps
    BY DEF TypeOK, CaseTypeOK, Values
  <2>2. CASE StartSweep(s) \/ SweepFails(s) \/ RecordRun(s)
    BY <2>1, <2>2 DEF StartSweep, SweepFails, RecordRun, Arrive, SweepPlaces, caseVars, Sweeping
  <2>3. CASE SelectObjects(s) \/ SelectEdges(s)
    BY <2>1, <2>3, SelectStep DEF caseVars
  <2>4. CASE Anonymize(s)
    <3>1. Cardinality(batch[s]) \in Nat
      BY <2>1, RowsFinite
    <3>2. AfterBatch(s) \in SweepPlaces
      BY DEF AfterBatch, SweepPlaces
    <3>3. /\ data' \in [Objects \cup Edges -> Values \cup {None}]
          /\ \A o \in Objects : data'[o] # None
      BY <2>1, <2>4, RetentionAssumption DEF Anonymize, Values
    <3>4. QED
      BY <2>1, <2>4, <3>1, <3>2, <3>3 DEF Anonymize, Arrive
  <2>5. QED
    BY <1>1, <2>2, <2>3, <2>4 DEF Sweep
<1>4. TypeOK'
  BY <1>2, <1>3 DEF TypeOK, CaseTypeOK, Values, caseRow
<1>5. QED
  BY <1>2, <1>4

(* Nobody but a sweep's own update makes the number of rows with its       *)
(* marker grow.                                                            *)
LEMMA CountsCoverStep ==
  ASSUME TypeOK, CountsCover, SweepStep
  PROVE  CountsCover'
<1>1. TypeOK /\ CountsCover /\ at \in [Sweeps -> SweepPlaces]
      /\ reported \in [Sweeps -> Nat \cup {-1}]
  BY DEF TypeOK
<1>2. PICK s \in Sweeps : StartSweep(s) \/ Sweep(s) \/ SweepFails(s)
  BY DEF SweepStep
<1>3. CASE StartSweep(s) \/ SweepFails(s) \/ RecordRun(s)
  BY <1>1, <1>3 DEF CountsCover, MarkedBy, StartSweep, SweepFails, RecordRun, Arrive, caseVars
<1>4. CASE SelectObjects(s) \/ SelectEdges(s)
  BY <1>1, <1>4, SelectStep DEF CountsCover, MarkedBy, caseVars
<1>5. CASE Anonymize(s)
  <2>1. batch[s] \in SUBSET (Objects \cup Edges)
    BY <1>1 DEF TypeOK
  <2>2. ASSUME NEW r \in Sweeps
        PROVE  Cardinality(MarkedBy(r)') <= count'[r]
    <3>1. /\ IsFiniteSet(MarkedBy(r)) /\ IsFiniteSet(batch[s])
          /\ Cardinality(MarkedBy(r)) \in Nat /\ Cardinality(batch[s]) \in Nat
          /\ Cardinality(MarkedBy(r) \cap batch[s]) \in Nat
      BY <1>1, <2>1, MarkedType, RowsFinite
    <3>2. count[r] \in Nat /\ Cardinality(MarkedBy(r)) <= count[r]
      BY <1>1 DEF TypeOK, CountsCover
    <3>3. CASE r = s
      <4>1. Cardinality(MarkedBy(s) \cup batch[s])
              = Cardinality(MarkedBy(s)) + Cardinality(batch[s])
                  - Cardinality(MarkedBy(s) \cap batch[s])
        BY <3>1, <3>3, FS_Union
      <4>2. /\ MarkedBy(s)' = MarkedBy(s) \cup batch[s]
            /\ count'[s] = count[s] + Cardinality(batch[s])
        BY <1>1, <1>5, AnonymizeMarks
      <4>3. QED
        BY <3>1, <3>2, <3>3, <4>1, <4>2
    <3>4. CASE r # s
      <4>1. MarkedBy(r)' = MarkedBy(r) \ batch[s] /\ count'[r] = count[r]
        BY <1>1, <1>5, <3>4, AnonymizeMarks
      <4>2. /\ Cardinality(MarkedBy(r) \ batch[s]) <= Cardinality(MarkedBy(r))
            /\ Cardinality(MarkedBy(r) \ batch[s]) \in Nat
        BY <3>1, FS_Subset, FS_CardinalityType
      <4>3. QED
        BY <3>1, <3>2, <4>1, <4>2
    <3>5. QED
      BY <3>3, <3>4
  <2>3. \A r \in Sweeps : at'[r] = "done" => at[r] = "done" /\ r # s
    <3>1. at' = [at EXCEPT ![s] = AfterBatch(s)] /\ at[s] # "done"
      BY <1>5 DEF Anonymize, Arrive
    <3>2. AfterBatch(s) # "done"
      BY DEF AfterBatch
    <3>3. QED
      BY <1>1, <3>1, <3>2
  <2>4. reported' = reported
    BY <1>5 DEF Anonymize
  <2>5. \A r \in Sweeps \ {s} : count'[r] = count[r]
    BY <1>1, <1>5, AnonymizeMarks
  <2>6. QED
    BY <1>1, <2>2, <2>3, <2>4, <2>5 DEF CountsCover
<1>6. QED
  BY <1>2, <1>3, <1>4, <1>5 DEF Sweep

(* A step of a sweep keeps track of who overlaps whom, of what has been    *)
(* selected, and the count of a sweep that has not overlapped exact.       *)
ExactInv == OverlapsKnown /\ SelectedUnmarked /\ CountsExact

LEMMA ExactStep ==
  ASSUME TypeOK, ExactInv, SweepStep
  PROVE  ExactInv'
<1>1. /\ OverlapsKnown /\ SelectedUnmarked /\ CountsExact
      /\ data \in [Objects \cup Edges -> Values \cup {None}]
      /\ at \in [Sweeps -> SweepPlaces] /\ count \in [Sweeps -> Nat]
      /\ batch \in [Sweeps -> SUBSET (Objects \cup Edges)]
      /\ reported \in [Sweeps -> Nat \cup {-1}]
      /\ overlapped \in SUBSET Sweeps
  BY DEF ExactInv, TypeOK, CaseTypeOK, Values
<1>2. PICK s \in Sweeps : StartSweep(s) \/ Sweep(s) \/ SweepFails(s)
  BY DEF SweepStep
<1>3. CASE StartSweep(s)
  <2>1. /\ at[s] = "idle" /\ at' = [at EXCEPT ![s] = "objects"]
        /\ UNCHANGED <<data, batch, count, reported>>
        /\ overlapped' = overlapped \cup (IF Sweeping = {} THEN {} ELSE Sweeping \cup {s})
    BY <1>3 DEF StartSweep, Arrive, caseVars
  <2>2. Sweeping' = Sweeping \cup {s} /\ s \notin Sweeping
    BY <1>1, <2>1 DEF Sweeping
  <2>3. OverlapsKnown'
    BY <1>1, <2>1, <2>2 DEF OverlapsKnown
  <2>4. batch[s] = {} /\ \A r \in Sweeps : at'[r] = "done" => at[r] = "done"
    BY <1>1, <2>1 DEF SelectedUnmarked
  <2>5. SelectedUnmarked' /\ CountsExact'
    BY <1>1, <2>1, <2>4 DEF SelectedUnmarked, CountsExact, MarkedBy
  <2>6. QED
    BY <2>3, <2>5 DEF ExactInv
<1>4. CASE SweepFails(s)
  <2>1. /\ at' = [at EXCEPT ![s] = "failed"] /\ batch' = [batch EXCEPT ![s] = {}]
        /\ UNCHANGED <<data, count, reported, overlapped>>
    BY <1>4 DEF SweepFails, Arrive, caseVars
  <2>2. OverlapsKnown' /\ SelectedUnmarked' /\ CountsExact'
    BY <1>1, <2>1 DEF OverlapsKnown, SelectedUnmarked, CountsExact, MarkedBy, Sweeping
  <2>3. QED
    BY <2>2 DEF ExactInv
<1>5. CASE RecordRun(s)
  <2>1. /\ at' = [at EXCEPT ![s] = "done"] /\ at[s] = "reporting"
        /\ reported' = [reported EXCEPT ![s] = count[s]]
        /\ UNCHANGED <<data, count, batch, overlapped>>
    BY <1>5 DEF RecordRun, Arrive, caseVars
  <2>2. batch[s] = {}
    BY <1>1, <2>1 DEF SelectedUnmarked
  <2>3. OverlapsKnown' /\ SelectedUnmarked' /\ CountsExact'
    BY <1>1, <2>1, <2>2 DEF OverlapsKnown, SelectedUnmarked, CountsExact, MarkedBy, Sweeping
  <2>4. QED
    BY <2>3 DEF ExactInv
<1>6. CASE SelectObjects(s) \/ SelectEdges(s)
  <2>1. PICK ids \in SUBSET (Objects \cup Edges), place \in SweepPlaces :
           /\ batch' = [batch EXCEPT ![s] = ids]
           /\ \A x \in ids : data[x] = Real
           /\ at' = [at EXCEPT ![s] = place]
           /\ at[s] \in {"objects", "edges"}
           /\ place \in {"objectsUpdate", "edges", "edgesUpdate", "reporting"}
           /\ ids # {} => place \in {"objectsUpdate", "edgesUpdate"}
           /\ UNCHANGED <<caseVars, count, reported, overlapped>>
    BY <1>1, <1>6, SelectStep
  <2>2. OverlapsKnown'
    BY <1>1, <2>1 DEF OverlapsKnown, Sweeping
  <2>3. SelectedUnmarked'
    BY <1>1, <2>1 DEF SelectedUnmarked, caseVars
  <2>4. CountsExact'
    BY <1>1, <2>1 DEF CountsExact, MarkedBy, caseVars
  <2>5. QED
    BY <2>2, <2>3, <2>4 DEF ExactInv
<1>7. CASE Anonymize(s)
  <2>1. /\ at[s] \in {"objectsUpdate", "edgesUpdate"} /\ UNCHANGED <<reported, overlapped>>
        /\ batch' = [batch EXCEPT ![s] = {}] /\ at' = [at EXCEPT ![s] = AfterBatch(s)]
        /\ AfterBatch(s) \in {"objects", "edges", "reporting"}
        /\ data' = [x \in Objects \cup Edges |-> IF x \in batch[s] THEN s ELSE data[x]]
    BY <1>1, <1>7 DEF Anonymize, Arrive, AfterBatch
  <2>2. ASSUME NEW r \in Sweeps \ {s}, batch[r] # {}
        PROVE  r \in overlapped /\ s \in overlapped
    <3>1. r \in Sweeping /\ s \in Sweeping
      BY <1>1, <2>1, <2>2 DEF SelectedUnmarked, Sweeping
    <3>2. QED
      BY <1>1, <3>1 DEF OverlapsKnown
  <2>3. OverlapsKnown'
    BY <1>1, <2>1 DEF OverlapsKnown, Sweeping
  <2>4. SelectedUnmarked'
    BY <1>1, <2>1, <2>2 DEF SelectedUnmarked
  <2>5. ASSUME NEW r \in Sweeps \ overlapped
        PROVE  count'[r] = Cardinality(MarkedBy(r)')
    <3>1. Real # r /\ MarkedBy(r) \cap batch[s] = {}
      BY <1>1, <2>5, RetentionAssumption DEF SelectedUnmarked, MarkedBy
    <3>2. CASE r = s
      <4>1. /\ IsFiniteSet(MarkedBy(s)) /\ IsFiniteSet(batch[s])
            /\ Cardinality(MarkedBy(s)) \in Nat /\ Cardinality(batch[s]) \in Nat
        BY <1>1, MarkedType, RowsFinite
      <4>2. Cardinality(MarkedBy(s) \cup batch[s])
              = Cardinality(MarkedBy(s)) + Cardinality(batch[s]) - Cardinality({})
        BY <3>1, <3>2, <4>1, FS_Union
      <4>3. Cardinality({}) = 0
        BY FS_EmptySet
      <4>4. count[s] = Cardinality(MarkedBy(s))
        BY <1>1, <2>5, <3>2 DEF CountsExact
      <4>5. /\ MarkedBy(s)' = MarkedBy(s) \cup batch[s]
            /\ count'[s] = count[s] + Cardinality(batch[s])
        BY <1>7, AnonymizeMarks
      <4>6. QED
        BY <3>2, <4>1, <4>2, <4>3, <4>4, <4>5
    <3>3. CASE r # s
      <4>1. MarkedBy(r)' = MarkedBy(r) \ batch[s] /\ count'[r] = count[r]
        BY <1>7, <3>3, AnonymizeMarks
      <4>2. MarkedBy(r)' = MarkedBy(r)
        BY <3>1, <4>1
      <4>3. QED
        BY <1>1, <2>5, <4>1, <4>2 DEF CountsExact
    <3>4. QED
      BY <3>2, <3>3
  <2>6. \A r \in Sweeps : at'[r] = "done" => r # s /\ at[r] = "done"
    BY <1>1, <2>1
  <2>7. \A r \in Sweeps \ {s} : count'[r] = count[r]
    BY <1>7, AnonymizeMarks
  <2>8. CountsExact'
    BY <1>1, <2>1, <2>5, <2>6, <2>7 DEF CountsExact
  <2>9. QED
    BY <2>3, <2>4, <2>8 DEF ExactInv
<1>8. QED
  BY <1>2, <1>3, <1>4, <1>5, <1>6, <1>7 DEF Sweep

(* Requests and the ingestion of edges leave all this alone.               *)
LEMMA CaseStepSweeps ==
  ASSUME CaseInv, SweepInv, CaseStep, UNCHANGED sweepVars
  PROVE  SweepInv'
<1>1. data \in [Objects \cup Edges -> Values \cup {None}]
      /\ batch \in [Sweeps -> SUBSET (Objects \cup Edges)] /\ overlapped \in SUBSET Sweeps
  BY DEF CaseInv, TypeOK, CaseTypeOK, Values
<1>2. \A s \in Sweeps : MarkedBy(s)' = MarkedBy(s) /\ \A x \in batch[s] : data'[x] = data[x]
  <2>1. CASE data' = data
    BY <2>1 DEF MarkedBy
  <2>2. ASSUME NEW e \in Edges, EdgeIngested(e)
        PROVE  \A s \in Sweeps :
                 MarkedBy(s)' = MarkedBy(s) /\ \A x \in batch[s] : data'[x] = data[x]
    <3>1. /\ data[e] = None /\ data'[e] = Real
          /\ \A x \in (Objects \cup Edges) \ {e} : data'[x] = data[x]
          /\ DOMAIN data' = DOMAIN data
      BY <1>1, <2>2, EdgeInv DEF EdgeIngested
    <3>2. \A s \in Sweeps : None # s /\ Real # s /\ e \notin batch[s]
      BY <1>1, <3>1, RetentionAssumption DEF SweepInv, SelectedUnmarked
    <3>3. QED
      BY <1>1, <3>1, <3>2 DEF MarkedBy
  <2>3. QED
    BY <2>1, <2>2, RequestStepInv DEF CaseStep
<1>3. UNCHANGED <<at, batch, count, reported, overlapped>>
  BY DEF sweepVars
<1>4. QED
  BY <1>2, <1>3 DEF SweepInv, CountsCover, OverlapsKnown, SelectedUnmarked, CountsExact, Sweeping

-----------------------------------------------------------------------------
(* Theorems                                                                *)

Inv == CaseInv /\ RaceInv /\ SweepInv

LEMMA InvInit == Init => Inv
<1> SUFFICES ASSUME Init PROVE Inv
  OBVIOUS
<1>1. \A t \in Requests : req[t] = Idle /\ req[t].at = "idle" /\ met[t] = {}
  BY DEF Init, CaseInit, Idle
<1>2. CaseInv
  <2>1. data \in [Objects \cup Edges -> Values \cup {None}]
        /\ \A o \in Objects : data[o] # None
    BY RetentionAssumption DEF Init, CaseInit, Values
  <2>2. req \in [Requests -> RequestStates(Values)]
    BY IdleAndEnded DEF Init, CaseInit
  <2>3. TypeOK
    BY <2>1, <2>2 DEF Init, CaseInit, TypeOK, CaseTypeOK, Values, Statuses, SweepPlaces
  <2>4. QED
    BY <1>1, <2>3, IdleAndEnded DEF CaseInv
<1>3. RaceInv
  BY <1>1 DEF Init, CaseInit, RaceInv, OnlyBegun, LockersMeetAll, LateAreRefused, ReadIsCurrent,
     ClosedIsTheSnapshot, UnderWay, Reading, Locked
<1>4. SweepInv
  <2>1. \A s \in Sweeps : MarkedBy(s) = {} /\ batch[s] = {} /\ count[s] = 0 /\ at[s] = "idle"
    BY RetentionAssumption DEF Init, CaseInit, MarkedBy
  <2>2. CountsCover /\ CountsExact
    BY <2>1, FS_EmptySet DEF CountsCover, CountsExact
  <2>3. OverlapsKnown /\ SelectedUnmarked
    BY <2>1 DEF OverlapsKnown, SelectedUnmarked, Sweeping
  <2>4. QED
    BY <2>2, <2>3 DEF SweepInv
<1>5. QED
  BY <1>2, <1>3, <1>4 DEF Inv

LEMMA InvNext == Inv /\ [Next]_vars => Inv'
<1> SUFFICES ASSUME Inv, [Next]_vars PROVE Inv'
  OBVIOUS
<1>1. CASE CaseStep /\ UNCHANGED sweepVars
  <2>1. SweepInv'
    BY <1>1, CaseStepSweeps DEF Inv
  <2>2. CASE \E t \in Requests : Begin(t) \/ Serve(t) \/ RequestFails(t)
    BY <1>1, <2>1, <2>2, RequestStepInv, RequestStepRace DEF Inv
  <2>3. CASE \E e \in Edges : EdgeIngested(e)
    BY <1>1, <2>1, <2>3, EdgeInv, OthersRace DEF Inv, EdgeIngested
  <2>4. QED
    BY <1>1, <2>2, <2>3 DEF CaseStep
<1>2. CASE SweepStep
  <2>1. TypeOK' /\ UNCHANGED <<caseRow, entities, notes, req, met>>
    BY <1>2, SweepStepTyped DEF Inv, CaseInv
  <2>2. CaseInv' /\ RaceInv'
    BY <2>1, OthersRace DEF Inv, CaseInv
  <2>3. SweepInv'
    BY <1>2, CountsCoverStep, ExactStep DEF Inv, CaseInv, SweepInv, ExactInv
  <2>4. QED
    BY <2>2, <2>3 DEF Inv
<1>3. CASE UNCHANGED vars
  <2>1. CaseInv'
    BY <1>3 DEF vars, Inv, CaseInv, TypeOK, CaseTypeOK
  <2>2. RaceInv'
    BY <1>3, OthersRace DEF vars, Inv, caseRow
  <2>3. SweepInv'
    BY <1>3 DEF vars, Inv, SweepInv, CountsCover, OverlapsKnown, SelectedUnmarked, CountsExact,
                MarkedBy, Sweeping
  <2>4. QED
    BY <2>1, <2>2, <2>3 DEF Inv
<1>4. QED
  BY <1>1, <1>2, <1>3 DEF Next

LEMMA InvAlways == Spec => []Inv
BY InvInit, InvNext, PTL DEF Spec

(* The variables of cases and sweeps have their types.                     *)
THEOREM TypeCorrect == Spec => []TypeOK
<1>1. Inv => TypeOK
  BY DEF Inv, CaseInv
<1>2. QED
  BY <1>1, InvAlways, PTL

(* What a closed case has pinned is what its snapshot was made from, up to *)
(* the objects of requests that raced the closing, however the statements  *)
(* of all of them interleave (cases/lifecycle.ts, cases/workspace.ts).     *)
THEOREM SnapshotUpToRaces == Spec => []ClosedIsTheSnapshot
<1>1. Inv => ClosedIsTheSnapshot
  BY DEF Inv, RaceInv
<1>2. QED
  BY <1>1, InvAlways, PTL

(* In a locked case whose stragglers have ended nobody is about to write.  *)
LEMMA NobodyWrites ==
  ASSUME Inv, status \in Locked, stragglers \cap UnderWay = {}
  PROVE  \A t \in Requests : req[t].at \notin {"checked", "written"}
BY DEF Inv, RaceInv, LateAreRefused, UnderWay

LEMMA QuietWhenLocked ==
  ASSUME Inv, [Next]_vars, status \in Locked, stragglers \cap UnderWay = {}
  PROVE  UNCHANGED <<entities, notes>>
<1>1. CASE SweepStep
  BY <1>1, SweepStepTyped DEF Inv, CaseInv
<1>2. ASSUME NEW t \in Requests, Begin(t) \/ Serve(t) \/ RequestFails(t)
      PROVE  UNCHANGED <<entities, notes>>
  <2>1. ~CommitPin(t) /\ ~AddNote(t)
    BY NobodyWrites DEF CommitPin, AddNote
  <2>2. QED
    BY <1>2, <2>1, RequestCases DEF Begin, CheckStatus, Pin, Unpin, ReadEntities, ReadObjects,
       ReadEdges, Ending, Close, ChangeStatus, RequestFails
<1>3. QED
  BY <1>1, <1>2 DEF Next, CaseStep, EdgeIngested, vars

(* Once the requests that were under way when a case was being locked have *)
(* ended, its notes and pinned entities stay as they are until it is       *)
(* unlocked (cases/workspace.ts).                                          *)
THEOREM LockedIsFinalOnceQuiet == Spec => FinalOnceQuiet
<1>1. Inv /\ [Next]_vars
        => [(status \in Locked /\ stragglers \cap UnderWay = {}) =>
              UNCHANGED <<entities, notes>> ]_caseVars
  BY QuietWhenLocked
<1>2. QED
  BY <1>1, InvAlways, PTL DEF Spec, FinalOnceQuiet

(* From then on the report of a closed case stays as it is, whatever is    *)
(* ingested and anonymized, unless the case is closed again                *)
(* (cases/lifecycle.ts).                                                   *)
THEOREM ClosedReportStays == Spec => ClosedReportFixed
<1>1. Inv /\ [Next]_vars
        => [status = "closed" /\ status' = "closed" /\ stragglers \cap UnderWay = {} =>
              Report' = Report \/ \E t \in Requests : Close(t)]_caseVars
  <2> SUFFICES ASSUME Inv, [Next]_vars, status = "closed", status' = "closed",
                      stragglers \cap UnderWay = {}, ~ \E t \in Requests : Close(t)
               PROVE  Report' = Report
    OBVIOUS
  <2>1. notes' = notes
    BY QuietWhenLocked DEF Locked
  <2>2. snapshot' = snapshot
    <3>1. CASE SweepStep
      BY <3>1, SweepStepTyped DEF Inv, CaseInv, caseRow
    <3>2. ASSUME NEW t \in Requests, Begin(t) \/ Serve(t) \/ RequestFails(t)
          PROVE  snapshot' = snapshot
      BY <3>2, OtherSteps DEF ChangeStatus, caseRow
    <3>3. QED
      BY <3>1, <3>2 DEF Next, CaseStep, EdgeIngested, vars, caseRow
  <2>3. snapshot # None
    BY DEF Inv, RaceInv, ClosedIsTheSnapshot
  <2>4. QED
    BY <2>1, <2>2, <2>3 DEF Report, FrozenReport
<1>2. QED
  BY <1>1, InvAlways, PTL DEF Spec, ClosedReportFixed

(* What a finished sweep has put in the audit log is at least the number   *)
(* of rows that carry its marker, also when sweeps overlap (retention.ts)  *)
(* ...                                                                     *)
THEOREM AllCounted == Spec => []NothingUncounted
<1>1. Inv => NothingUncounted
  BY MarkedType DEF Inv, CaseInv, SweepInv, CountsCover, NothingUncounted, TypeOK
<1>2. QED
  BY <1>1, InvAlways, PTL

(* ... and exactly that number, for good, if no other sweep was at work    *)
(* while it was.                                                           *)
THEOREM ReportsExact == Spec => []SweepReportExact
<1>1. Inv => SweepReportExact
  BY DEF Inv, SweepInv, CountsExact, SweepReportExact
<1>2. QED
  BY <1>1, InvAlways, PTL

(* An object pinned to a live case that no sweep has selected yet is safe  *)
(* from all sweeps while it stays pinned and the case live (retention.ts). *)
THEOREM PinsProtect == Spec => PinProtects
<1>1. Inv /\ [Next]_vars
        => [\A o \in Objects : Protected(o) /\ Live' /\ o \in entities' => Protected(o)']_vars
  <2> SUFFICES ASSUME Inv, [Next]_vars, NEW o \in Objects,
                      Protected(o), Live', o \in entities'
               PROVE  data'[o] = Real /\ \A s \in Sweeps : o \notin batch'[s]
    BY DEF Protected
  <2>1. /\ TypeOK /\ batch \in [Sweeps -> SUBSET (Objects \cup Edges)]
        /\ data \in [Objects \cup Edges -> Values \cup {None}]
        /\ Live /\ o \in entities /\ data[o] = Real /\ \A s \in Sweeps : o \notin batch[s]
    BY DEF Inv, CaseInv, TypeOK, CaseTypeOK, Values, Protected
  <2>2. CASE CaseStep /\ UNCHANGED sweepVars
    <3>1. CASE data' = data
      BY <2>1, <2>2, <3>1 DEF sweepVars
    <3>2. ASSUME NEW e \in Edges, EdgeIngested(e)
          PROVE  data'[o] = Real
      BY <2>1, <2>2, <3>2, EdgeInv DEF Inv
    <3>3. QED
      BY <2>1, <2>2, <3>1, <3>2, RequestStepInv DEF CaseStep, Inv, sweepVars
  <2>3. CASE SweepStep
    <3>1. PICK s \in Sweeps : StartSweep(s) \/ Sweep(s) \/ SweepFails(s)
      BY <2>3 DEF SweepStep
    <3>2. CASE SelectObjects(s)
      <4>1. PICK ids \in Batches("objects") :
              batch' = [batch EXCEPT ![s] = ids] /\ data' = data
        BY <3>2 DEF SelectObjects, Select, caseVars
      <4>2. o \notin ids
        BY <2>1, <4>1 DEF Batches, Eligible
      <4>3. QED
        BY <2>1, <4>1, <4>2
    <3>3. CASE SelectEdges(s)
      <4>1. PICK ids \in Batches("edges") :
              batch' = [batch EXCEPT ![s] = ids] /\ data' = data
        BY <3>3 DEF SelectEdges, Select, caseVars
      <4>2. o \notin ids
        BY <4>1, CaseAssumption DEF Batches, Eligible
      <4>3. QED
        BY <2>1, <4>1, <4>2
    <3>4. CASE Anonymize(s)
      BY <2>1, <3>4 DEF Anonymize
    <3>5. CASE StartSweep(s) \/ SweepFails(s) \/ RecordRun(s)
      BY <2>1, <3>5 DEF StartSweep, SweepFails, RecordRun, caseVars
    <3>6. QED
      BY <3>1, <3>2, <3>3, <3>4, <3>5 DEF Sweep
  <2>4. CASE UNCHANGED vars
    BY <2>1, <2>4 DEF vars
  <2>5. QED
    BY <2>2, <2>3, <2>4 DEF Next
<1>2. QED
  BY <1>1, InvAlways, PTL DEF Spec, PinProtects
=============================================================================
