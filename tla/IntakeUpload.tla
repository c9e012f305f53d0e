---------------------------- MODULE IntakeUpload ----------------------------
(***************************************************************************)
(* Uploading a file and following its run (web/src/IntakePage.tsx): the    *)
(* upload form, POST /ingestion/runs (api/src/routes/ingestion.ts; what    *)
(* the run then does is IngestionRun's subject), and the table of runs,    *)
(* which polls while it shows a run that is not over.                      *)
(***************************************************************************)
EXTENDS CachedQuery, Naturals, FiniteSets, Sequences

CONSTANTS Sources,         \* ingestion_sources
          ObjectTemplates, \* column_mapping_templates
          EdgeTemplates,   \* edge_mapping_templates
          SourceOf,        \* a template's source_id
          MaxPicks,        \* bound: files picked
          MaxRuns          \* bound: runs created

ASSUME IntakeAssumption ==
  /\ SourceOf \in [ObjectTemplates \cup EdgeTemplates -> Sources]
  /\ ObjectTemplates \cap EdgeTemplates = {}
  /\ None \notin [source : Sources, template : ObjectTemplates \cup EdgeTemplates,
                  pick : Nat, at : {"sent", "created"}, run : Nat]

VARIABLES
  form,      \* the upload form's fields
  picks,     \* files picked so far; a pick stands for its file
  upload,    \* the runIngestion mutation under way, or None
  runs,      \* ingestion_runs
  table,     \* the ["ingestion-runs"] query
  followed   \* history: runs whose upload was answered while the table had
             \* been loaded, since the table's last failed fetch

intakeVars == <<form, picks, upload, runs, table, followed>>

Template == IF form.kind = "object" THEN form.template ELSE form.edgeTemplate
OfKind(kind) == IF kind = "object" THEN ObjectTemplates ELSE EdgeTemplates

(* refetchInterval                                                         *)
HasActiveRun(data) == data # None /\ \E r \in DOMAIN data : ~data[r]

IntakeInit ==
  /\ form = [kind |-> "object", source |-> None, template |-> None, edgeTemplate |-> None, file |-> None]
  /\ picks = 0
  /\ upload = None
  /\ runs = << >>
  /\ table = Mounted
  /\ followed = {}

-----------------------------------------------------------------------------
(* Deviations.  Each operator here is a mistake that could have been made  *)
(* in the definition it names; none of them is part of the specification.  *)

(* ChooseSource that leaves the templates as they are.                     *)
ChooseSourceOnly(source) ==
  /\ form' = [form EXCEPT !.source = source]
  /\ UNCHANGED <<picks, upload, runs, table, followed>>

(* UploadAnswered that does not take the file off the form.                *)
UploadAnsweredKeepsFile ==
  /\ upload # None /\ upload.at = "created"
  /\ upload' = None
  /\ table' = Invalidated(table)
  /\ followed' = IF table.data # None \/ table.at = "idle" THEN followed \cup {upload.run} ELSE followed
  /\ runs' = [runs EXCEPT ![upload.run].answer = "arrived"]
  /\ UNCHANGED <<form, picks>>

(* PollRuns that stops at the first run that is over.                      *)
PollRunsIfNoneOver ==
  /\ HasActiveRun(table.data) /\ \A r \in DOMAIN table.data : ~table.data[r]
  /\ table.at = "idle"
  /\ table' = Polled(table)
  /\ UNCHANGED <<form, picks, upload, runs, followed>>

-----------------------------------------------------------------------------
(* The form                                                                *)

(* The radio buttons: each empties the other kind's template.              *)
ChooseKind(kind) ==
  /\ form.kind # kind
  /\ form' = IF kind = "object" THEN [form EXCEPT !.kind = kind, !.edgeTemplate = None]
                                ELSE [form EXCEPT !.kind = kind, !.template = None]
  /\ UNCHANGED <<picks, upload, runs, table, followed>>

ChooseSource(source) ==
  /\ form' = [form EXCEPT !.source = source, !.template = None, !.edgeTemplate = None]
  /\ UNCHANGED <<picks, upload, runs, table, followed>>

(* The template select offers the chosen source's templates, once their    *)
(* list has come; templates are never removed.                             *)
ChooseTemplate(t) ==
  /\ form.source # None
  /\ t # None => t \in OfKind(form.kind) /\ SourceOf[t] = form.source
  /\ form' = IF form.kind = "object" THEN [form EXCEPT !.template = t]
                                     ELSE [form EXCEPT !.edgeTemplate = t]
  /\ UNCHANGED <<picks, upload, runs, table, followed>>

(* Also while an upload is under way.                                      *)
PickFile ==
  /\ picks < MaxPicks
  /\ picks' = picks + 1
  /\ form' = [form EXCEPT !.file = picks']
  /\ UNCHANGED <<upload, runs, table, followed>>

(* The button, disabled while a field is empty or an upload is under way.  *)
(* That it is disabled is taken to be on the screen before the next click; *)
(* a click that was queued before that render is not modelled.             *)
Ingest ==
  /\ form.file # None /\ form.source # None /\ Template # None /\ upload = None
  /\ upload' = [source |-> form.source, template |-> Template, pick |-> form.file,
                at |-> "sent", run |-> 0]
  /\ UNCHANGED <<form, picks, runs, table, followed>>

(* onSuccess.  A file picked meanwhile goes from the form as well.         *)
UploadAnswered ==
  /\ upload # None /\ upload.at = "created"
  /\ upload' = None
  /\ form' = [form EXCEPT !.file = None]
  /\ table' = Invalidated(table)
  /\ followed' = IF table.data # None \/ table.at = "idle" THEN followed \cup {upload.run} ELSE followed
  /\ runs' = [runs EXCEPT ![upload.run].answer = "arrived"]
  /\ UNCHANGED <<picks>>

(* The answer is lost: an error is shown, the form stays.                  *)
UploadLost ==
  /\ upload # None /\ upload.at = "created"
  /\ upload' = None
  /\ runs' = [runs EXCEPT ![upload.run].answer = "lost"]
  /\ UNCHANGED <<form, picks, table, followed>>

-----------------------------------------------------------------------------
(* The table                                                               *)

(* Two seconds have passed since the table, showing an active run, came.   *)
PollRuns ==
  /\ HasActiveRun(table.data) /\ table.at = "idle"
  /\ table' = Polled(table)
  /\ UNCHANGED <<form, picks, upload, runs, followed>>

TableFocused ==
  /\ table.at = "idle"
  /\ table' = Polled(table)
  /\ UNCHANGED <<form, picks, upload, runs, followed>>

(* GET /ingestion/runs                                                     *)
TableServed ==
  /\ table.at = "asked"
  /\ table' = Served(table, [r \in 1..Len(runs) |-> runs[r].over])
  /\ UNCHANGED <<form, picks, upload, runs, followed>>

TableArrived ==
  /\ table.at = "served"
  /\ table' = Arrived(table)
  /\ UNCHANGED <<form, picks, upload, runs, followed>>

TableFailed ==
  /\ table.at # "idle"
  /\ table' = Failed(table)
  /\ followed' = {}
  /\ UNCHANGED <<form, picks, upload, runs>>

-----------------------------------------------------------------------------
(* The server                                                              *)

(* POST /ingestion/runs creates the run, of whatever source and template   *)
(* the request names, and starts its background work; the answer follows.  *)
RunCreated ==
  /\ upload # None /\ upload.at = "sent" /\ Len(runs) < MaxRuns
  /\ runs' = Append(runs, [source |-> upload.source, template |-> upload.template,
                           pick |-> upload.pick, over |-> FALSE, answer |-> "none"])
  /\ upload' = [upload EXCEPT !.at = "created", !.run = Len(runs')]
  /\ UNCHANGED <<form, picks, table, followed>>

(* The file cannot be parsed, or the request does not get there.           *)
UploadRefused ==
  /\ upload # None /\ upload.at = "sent"
  /\ upload' = None
  /\ UNCHANGED <<form, picks, runs, table, followed>>

(* completed, completed_with_errors or failed; until then running.         *)
RunOver(r) ==
  /\ ~runs[r].over
  /\ runs' = [runs EXCEPT ![r].over = TRUE]
  /\ UNCHANGED <<form, picks, upload, table, followed>>

IntakeNext ==
  \/ \E kind \in {"object", "edge"} : ChooseKind(kind)
  \/ \E source \in Sources \cup {None} : ChooseSource(source)
  \/ \E t \in ObjectTemplates \cup EdgeTemplates \cup {None} : ChooseTemplate(t)
  \/ PickFile \/ Ingest \/ UploadAnswered \/ UploadLost
  \/ PollRuns \/ TableFocused \/ TableServed \/ TableArrived \/ TableFailed
  \/ RunCreated \/ UploadRefused
  \/ \E r \in 1..Len(runs) : RunOver(r)

-----------------------------------------------------------------------------
(* Properties                                                              *)

(* A run's template is one of the source's own, which the server does not  *)
(* check: the form has to keep the two together through every order of     *)
(* choosing kind, source and template, and of lists arriving.              *)
RunMatchesItsSource ==
  \A r \in 1..Len(runs) : SourceOf[runs[r].template] = runs[r].source

(* A picked file becomes one run.  Only when the answer of an upload was   *)
(* lost may the user, seeing an error, have started another.               *)
OneRunPerPick ==
  \A k \in 1..picks :
    Cardinality({r \in 1..Len(runs) : runs[r].pick = k /\ runs[r].answer # "lost"}) <= 1

(* "The runs list polls while any run is still in flight and stops once    *)
(* everything has reached a terminal status": a run that was started here  *)
(* is shown in the end as over, unless fetching the table failed meanwhile.*)
PageCatchesUp ==
  \A r \in 1..MaxRuns :
    r \in followed ~> \/ r \notin followed
                      \/ table.data # None /\ r \in DOMAIN table.data /\ table.data[r]
=============================================================================
