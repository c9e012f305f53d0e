---------------------------- MODULE IntakeForms ----------------------------
(***************************************************************************)
(* The forms below the upload on the intake page (web/src/IntakePage.tsx): *)
(* an admin adds sources, mapping templates and edge mapping templates,    *)
(* and starts retention sweeps; and the requests they send                 *)
(* (api/src/routes/ingestion.ts, admin.ts).  Each form has a list above    *)
(* it, a query of its own.  Rows are only ever added, so that a list is as *)
(* recent as the number of rows it holds.                                  *)
(*                                                                         *)
(* A draft is what a form's required fields hold: None while one of them   *)
(* is empty, else the name (or, of a sweep, the purpose).                  *)
(***************************************************************************)
EXTENDS CachedQuery, Naturals, Sequences

CONSTANTS Names,        \* what may be typed
          UsedTogether, \* bound: sets of forms used in one behaviour
          MaxRows,      \* bound: rows of a form
          MaxPosts      \* bound: requests under way at once

ASSUME FormsAssumption ==
  /\ UsedTogether \subseteq SUBSET {"source", "template", "edgeTemplate", "retention"}
  /\ {MaxRows, MaxPosts} \subseteq Nat

VARIABLES
  used,     \* the forms that this behaviour is about
  draft,    \* each form's fields
  posts,    \* the create mutations under way, in the order they were begun
  rows,     \* the rows each form has created, here or elsewhere
  formLists, \* the query of each form's list
  owed      \* history: the last row of each form whose creation was answered
            \* while the list had been loaded

formsVars == <<used, draft, posts, rows, formLists, owed>>

Forms == {"source", "template", "edgeTemplate", "retention"}

(* A deviation of KeyOf, not part of the specification: the key of the     *)
(* form that this one was copied from.                                     *)
KeyOfTemplates(f) == IF f = "edgeTemplate" THEN "template" ELSE f

(* The list that a form's onSuccess invalidates.                           *)
KeyOf(f) == f

FormsInit ==
  /\ used \in UsedTogether
  /\ draft = [f \in Forms |-> None]
  /\ posts = << >>
  /\ rows = [f \in Forms |-> << >>]
  /\ formLists = [f \in Forms |-> IF f \in used THEN Mounted ELSE Arrived(Served(Mounted, 0))]
  /\ owed = [f \in Forms |-> 0]

Without(i) == SubSeq(posts, 1, i - 1) \o SubSeq(posts, i + 1, Len(posts))

-----------------------------------------------------------------------------
(* The forms                                                               *)

Type(f, name) ==
  /\ draft[f] # name
  /\ draft' = [draft EXCEPT ![f] = name]
  /\ UNCHANGED <<used, posts, rows, formLists, owed>>

(* onSubmit.  Only the sweep's form holds back a second request while one  *)
(* is under way.                                                           *)
Submit(f) ==
  /\ draft[f] # None /\ Len(posts) < MaxPosts
  /\ f = "retention" => \A i \in 1..Len(posts) : posts[i].form # f
  /\ posts' = Append(posts, [form |-> f, name |-> draft[f], row |-> 0])
  /\ UNCHANGED <<used, draft, rows, formLists, owed>>

(* onSuccess: the fields are emptied, also of what was typed meanwhile,    *)
(* and the list is fetched again.                                          *)
PostAnswered(i) ==
  LET f == posts[i].form IN
  /\ posts[i].row # 0
  /\ posts' = Without(i)
  /\ draft' = [draft EXCEPT ![f] = None]
  /\ formLists' = [formLists EXCEPT ![KeyOf(f)] = Invalidated(@)]
  /\ owed' = IF (formLists[f].data # None \/ formLists[f].at = "idle") /\ posts[i].row > owed[f]
               THEN [owed EXCEPT ![f] = posts[i].row] ELSE owed
  /\ UNCHANGED <<used, rows>>

(* The request is refused, does not get there, or its answer is lost.      *)
PostFails(i) ==
  /\ posts' = Without(i)
  /\ UNCHANGED <<used, draft, rows, formLists, owed>>

-----------------------------------------------------------------------------
(* The lists                                                               *)

ListServedFor(f) ==
  /\ formLists[f].at = "asked"
  /\ formLists' = [formLists EXCEPT ![f] = Served(@, Len(rows[f]))]
  /\ UNCHANGED <<used, draft, posts, rows, owed>>

ListArrivedFor(f) ==
  /\ formLists[f].at = "served"
  /\ formLists' = [formLists EXCEPT ![f] = Arrived(@)]
  /\ UNCHANGED <<used, draft, posts, rows, owed>>

ListFailedFor(f) ==
  /\ formLists[f].at # "idle"
  /\ formLists' = [formLists EXCEPT ![f] = Failed(@)]
  /\ UNCHANGED <<used, draft, posts, rows, owed>>

-----------------------------------------------------------------------------
(* The server                                                              *)

(* The row is inserted with its audit entry; a source's name is UNIQUE.    *)
PostCommits(i) ==
  LET f == posts[i].form IN
  /\ posts[i].row = 0 /\ Len(rows[f]) < MaxRows
  /\ f = "source" => \A r \in 1..Len(rows[f]) : rows[f][r] # posts[i].name
  /\ rows' = [rows EXCEPT ![f] = Append(@, posts[i].name)]
  /\ posts' = [posts EXCEPT ![i].row = Len(rows'[f])]
  /\ UNCHANGED <<used, draft, formLists, owed>>

FormsNext ==
  \/ \E f \in used :
       \/ \E name \in Names \cup {None} : Type(f, name)
       \/ Submit(f) \/ ListServedFor(f) \/ ListArrivedFor(f) \/ ListFailedFor(f)
  \/ \E i \in 1..Len(posts) : PostAnswered(i) \/ PostFails(i) \/ PostCommits(i)

-----------------------------------------------------------------------------
(* Properties                                                              *)

(* A list that is settled shows every row that its form was told it had    *)
(* created, although a double click creates two, answers overtake each     *)
(* other, and lists read before a row may arrive after it.                 *)
OwnRowsListed ==
  \A f \in Forms : Settled(formLists[f]) => formLists[f].data >= owed[f]
=============================================================================
