----------------------------- MODULE UserAdmin -----------------------------
(***************************************************************************)
(* User administration: the page (web/src/AdminUsersPage.tsx) in the tabs  *)
(* of several admins, and GET and PATCH /admin/users                       *)
(* (api/src/routes/admin.ts) behind authenticate (api/src/auth.ts), which  *)
(* takes a request's role from app_users at the request's start.           *)
(*                                                                         *)
(* A user's row is its role and is_active; clearance is handled like role. *)
(* A PATCH is a READ COMMITTED transaction: it reads the row, updates it,  *)
(* which waits for the row's lock, and writes the audit entry; audit       *)
(* entries are written one transaction at a time (AuditChain).             *)
(***************************************************************************)
EXTENDS CachedQuery, Naturals, Sequences

CONSTANTS Admins,      \* users who are admins at first, each with a tab
          Clerks,      \* the other users
          MaxPatches   \* bound: changes in a behaviour

VARIABLES
  users,      \* app_users: the committed rows
  audits,     \* admin.user.update entries, in the order of the audit log
  patches,    \* the PATCH requests, in the order they were sent
  userLists   \* the ["admin-users"] query of each admin's tab

userAdminVars == <<users, audits, patches, userLists>>

Users == Admins \cup Clerks
Roles == {"admin", "analyst"}

ASSUME UserAdminAssumption ==
  /\ Admins \cap Clerks = {} /\ MaxPatches \in Nat
  /\ None \notin [rows : [Users -> [role : Roles, active : BOOLEAN]], changes : Nat]

(* The request bodies the page sends: one column each.                     *)
Bodies == [column : {"role"}, value : Roles] \cup [column : {"active"}, value : BOOLEAN]

With(row, body) == [row EXCEPT ![body.column] = body.value]

(* authenticate, and the check of the role that both handlers begin with.  *)
MayAdminister(u) == users[u].active /\ users[u].role = "admin"

UserAdminInit ==
  /\ users = [u \in Users |-> [role |-> IF u \in Admins THEN "admin" ELSE "analyst",
                               active |-> TRUE]]
  /\ audits = << >>
  /\ patches = << >>
  /\ userLists = [a \in Admins |-> Mounted]

(* A list as the API read it, and how many changes it includes.            *)
CurrentList == [rows |-> users, changes |-> Len(audits)]

-----------------------------------------------------------------------------
(* Deviations.  Each operator here is a mistake that could have been made  *)
(* in the definition it names; none of them is part of the specification.  *)

(* PatchCommits when UPDATE sets every column from the row read before.    *)
PatchCommitsRowAsRead(p) ==
  /\ patches[p].at = "locked"
  /\ LET r == patches[p] IN
       /\ users' = [users EXCEPT ![r.user] = With(r.previous, r.body)]
       /\ audits' = Append(audits, [user |-> r.user, previous |-> r.previous, updated |-> r.body])
  /\ patches' = [patches EXCEPT ![p].at = "committed", ![p].change = Len(audits')]
  /\ UNCHANGED userLists

(* PatchAnswered that does not invalidate the list.                        *)
PatchAnsweredOnly(p) ==
  /\ patches[p].at = "committed"
  /\ patches' = [patches EXCEPT ![p].at = "answered"]
  /\ UNCHANGED <<users, audits, userLists>>

-----------------------------------------------------------------------------
(* The page                                                                *)

(* A select or the checkbox of a row sends the change at once; nothing     *)
(* keeps a second one back until the first is answered.                    *)
ChangeUser(a, u, body) ==
  /\ Len(patches) < MaxPatches
  /\ userLists[a].data # None /\ ~userLists[a].error
  /\ userLists[a].data.rows[u][body.column] # body.value
  /\ patches' = Append(patches, [by |-> a, user |-> u, body |-> body, at |-> "sent",
                                 previous |-> None, change |-> 0])
  /\ UNCHANGED <<users, audits, userLists>>

(* onSuccess.                                                              *)
PatchAnswered(p) ==
  /\ patches[p].at = "committed"
  /\ patches' = [patches EXCEPT ![p].at = "answered"]
  /\ userLists' = [userLists EXCEPT ![patches[p].by] = Invalidated(@)]
  /\ UNCHANGED <<users, audits>>

(* The answer is lost: the page does nothing.                              *)
PatchAnswerLost(p) ==
  /\ patches[p].at = "committed"
  /\ patches' = [patches EXCEPT ![p].at = "lost"]
  /\ UNCHANGED <<users, audits, userLists>>

(* The tab gets the focus.                                                 *)
ListFocused(a) ==
  /\ userLists[a].at = "idle"
  /\ userLists' = [userLists EXCEPT ![a] = Polled(@)]
  /\ UNCHANGED <<users, audits, patches>>

(* GET /admin/users, refused to who is not, or no longer, an active admin. *)
ListServed(a) ==
  /\ userLists[a].at = "asked" /\ MayAdminister(a)
  /\ userLists' = [userLists EXCEPT ![a] = Served(@, CurrentList)]
  /\ UNCHANGED <<users, audits, patches>>

ListArrived(a) ==
  /\ userLists[a].at = "served"
  /\ userLists' = [userLists EXCEPT ![a] = Arrived(@)]
  /\ UNCHANGED <<users, audits, patches>>

ListFailed(a) ==
  /\ userLists[a].at # "idle"
  /\ userLists' = [userLists EXCEPT ![a] = Failed(@)]
  /\ UNCHANGED <<users, audits, patches>>

-----------------------------------------------------------------------------
(* PATCH /admin/users/:id                                                  *)

(* authenticate.  From here on the request is an admin's, whatever happens *)
(* to the row it was read from.                                            *)
PatchAuthenticated(p) ==
  /\ patches[p].at = "sent"
  /\ patches' = [patches EXCEPT ![p].at = IF MayAdminister(patches[p].by) THEN "accepted" ELSE "refused"]
  /\ UNCHANGED <<users, audits, userLists>>

(* SELECT: the committed row, without a lock.                              *)
PatchReads(p) ==
  /\ patches[p].at = "accepted"
  /\ patches' = [patches EXCEPT ![p].at = "read", ![p].previous = users[patches[p].user]]
  /\ UNCHANGED <<users, audits, userLists>>

(* UPDATE gets the row's lock, which a transaction keeps to its end.       *)
PatchLocks(p) ==
  /\ patches[p].at = "read"
  /\ \A q \in 1..Len(patches) :
       patches[q].user = patches[p].user => patches[q].at # "locked"
  /\ patches' = [patches EXCEPT ![p].at = "locked"]
  /\ UNCHANGED <<users, audits, userLists>>

(* The audit entry, with the row as read before the update, and COMMIT.    *)
PatchCommits(p) ==
  /\ patches[p].at = "locked"
  /\ LET r == patches[p] IN
       /\ users' = [users EXCEPT ![r.user] = With(@, r.body)]
       /\ audits' = Append(audits, [user |-> r.user, previous |-> r.previous, updated |-> r.body])
  /\ patches' = [patches EXCEPT ![p].at = "committed", ![p].change = Len(audits')]
  /\ UNCHANGED userLists

(* An error before the commit: ROLLBACK, and an error to the page.         *)
PatchFails(p) ==
  /\ patches[p].at \in {"accepted", "read", "locked"}
  /\ patches' = [patches EXCEPT ![p].at = "failed"]
  /\ UNCHANGED <<users, audits, userLists>>

UserAdminNext ==
  \/ \E a \in Admins : \/ \E u \in Users, body \in Bodies : ChangeUser(a, u, body)
                       \/ ListFocused(a) \/ ListServed(a) \/ ListArrived(a) \/ ListFailed(a)
  \/ \E p \in 1..Len(patches) :
       \/ PatchAuthenticated(p) \/ PatchReads(p) \/ PatchLocks(p) \/ PatchCommits(p)
       \/ PatchFails(p) \/ PatchAnswered(p) \/ PatchAnswerLost(p)

-----------------------------------------------------------------------------
(* Properties                                                              *)

(* The audit log accounts for every row: what its entries say was updated, *)
(* applied in the log's order, gives the committed rows, although changes  *)
(* of several admins overlap and `previous` may be out of date.            *)
AuditReplays ==
  LET replay[n \in 0..Len(audits)] ==
        IF n = 0 THEN [u \in Users |-> [role |-> IF u \in Admins THEN "admin" ELSE "analyst",
                                        active |-> TRUE]]
        ELSE [replay[n - 1] EXCEPT ![audits[n].user] = With(@, audits[n].updated)]
  IN  users = replay[Len(audits)]

(* What a tab shows when nothing is on its way includes every change it    *)
(* was told had succeeded, although lists may have been read before such a *)
(* change and arrive after it.                                             *)
OwnChangesShown ==
  \A a \in Admins : Settled(userLists[a]) =>
    \A p \in 1..Len(patches) :
      patches[p].by = a /\ patches[p].at = "answered" => userLists[a].data.changes >= patches[p].change
=============================================================================
