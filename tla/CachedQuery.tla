---------------------------- MODULE CachedQuery ----------------------------
(***************************************************************************)
(* What the web client's pages rely on TanStack Query for (external; the   *)
(* pages create it with the default options, web/src/main.tsx:9).  A query *)
(* holds the data of its last successful fetch, and of the fetch under way *)
(* how far it is and what the API read for it.                             *)
(***************************************************************************)
CONSTANT None

(* A page mounts: the query's first fetch.                                 *)
Mounted == [data |-> None, at |-> "asked", reply |-> None, error |-> FALSE]

Refetched(q) == [q EXCEPT !.at = "asked", !.reply = None]

(* invalidateQueries: a fetch under way is cancelled and a new one begun,  *)
(* but not the first, before which there are no data.                      *)
Invalidated(q) ==
  IF q.data = None /\ q.at # "idle" THEN q ELSE Refetched(q)

(* The tab gets the focus, or the interval has passed: a fetch unless one  *)
(* is under way.                                                           *)
Polled(q) == IF q.at = "idle" THEN Refetched(q) ELSE q

(* The API has read its answer; the answer arrives; the fetch fails for    *)
(* good, after its retries.                                                *)
Served(q, reply) == [q EXCEPT !.at = "served", !.reply = reply]
Arrived(q) == [q EXCEPT !.at = "idle", !.data = q.reply, !.reply = None, !.error = FALSE]
Failed(q) == [q EXCEPT !.at = "idle", !.reply = None, !.error = TRUE]

(* The page shows the data and none is on its way.                         *)
Settled(q) == q.at = "idle" /\ ~q.error
=============================================================================
