----------------------------- MODULE ReviewPage -----------------------------
(***************************************************************************)
(* The review queue in a reviewer's tab (web/src/ResolutionQueuePage.tsx): *)
(* the list of pending pairs, most similar first, the focused pair, the    *)
(* keys and buttons that decide a pair, and the requests behind them       *)
(* (api/src/routes/resolutionQueue.ts; what a decision does to the objects *)
(* is EntityResolution's subject).                                         *)
(*                                                                         *)
(* A behaviour is `calm` or not.  A calm reviewer acts only when the list  *)
(* on the screen is settled and no decision is under way, and the network  *)
(* loses nothing; any other presses and clicks as the page lets them.      *)
(***************************************************************************)
EXTENDS CachedQuery, Integers, FiniteSets, Sequences

CONSTANTS Pairs,        \* 1..n: the candidate pairs, 1 the most similar
          Decisions,    \* what keys and buttons decide
          HastyPairs,   \* bound: those of a behaviour that is not calm
          PageSize,     \* LIMIT of the list
          MaxUnderWay   \* bound: decisions under way at once

ASSUME ReviewAssumption ==
  /\ HastyPairs \subseteq Pairs /\ Pairs \subseteq Nat /\ PageSize \in Nat \ {0}
  /\ IsFiniteSet(Pairs)
  /\ Decisions \cap {"none", "pending"} = {}
  /\ None \notin UNION {[1..n -> Pairs] : n \in 0..PageSize}

VARIABLES
  calm,      \* see above
  pairs,     \* resolution_queue.decision, "none" before the pair is queued
  queue,     \* the ["resolution-queue"] query
  focus,     \* focusedIndex
  decides,   \* the decide mutations under way, in the order they were begun
  isPending, \* decide.isPending: the mutation begun last is under way
  rendered,  \* what it was at the last render, which the keys' handler sees
  told       \* history: pairs whose decision was acknowledged to this tab

reviewVars == <<calm, pairs, queue, focus, decides, isPending, rendered, told>>

(* The first PageSize pairs of a set, the most similar first.              *)
Page(set) ==
  LET rank(p) == Cardinality({q \in set : q <= p})
      size == IF Cardinality(set) < PageSize THEN Cardinality(set) ELSE PageSize
  IN  [i \in 1..size |-> CHOOSE p \in set : rank(p) = i]

(* A deviation of PendingList, not part of the specification: the page is  *)
(* cut before the decided pairs are left out.                              *)
PendingListCutFirst ==
  SelectSeq(Page({p \in Pairs : pairs[p] # "none"}), LAMBDA p : pairs[p] = "pending")

(* GET /resolution-queue?status=pending                                    *)
PendingList == Page({p \in Pairs : pairs[p] = "pending"})

Items == IF queue.data = None THEN << >> ELSE queue.data

(* items[focusedIndex] is a pair, not undefined.                           *)
HasFocused == focus + 1 \in 1..Len(Items)
Focused == Items[focus + 1]

(* When the reviewer acts.                                                 *)
Acts == calm => Settled(queue) /\ decides = << >>

Exists(p) == calm \/ p \in HastyPairs

ReviewInit ==
  /\ calm \in BOOLEAN
  /\ pairs \in [Pairs -> {"none", "pending"}]
  /\ \A p \in Pairs : pairs[p] = "pending" => Exists(p)
  /\ queue = Mounted
  /\ focus = 0
  /\ decides = << >>
  /\ isPending = FALSE
  /\ rendered = FALSE
  /\ told = {}

(* decide.mutate                                                           *)
Decide(pair, decision) ==
  /\ Len(decides) < MaxUnderWay
  /\ decides' = Append(decides, [pair |-> pair, decision |-> decision, at |-> "sent"])
  /\ isPending' = TRUE
  /\ UNCHANGED <<calm, pairs, queue, focus, rendered, told>>

(* The focus moves; a page whose state has changed is rendered again.      *)
MoveFocus(index) ==
  /\ focus' = index
  /\ rendered' = IF index # focus THEN isPending ELSE rendered

(* The i-th mutation under way is over.                                    *)
Over(i) ==
  /\ decides' = SubSeq(decides, 1, i - 1) \o SubSeq(decides, i + 1, Len(decides))
  /\ isPending' = (isPending /\ i < Len(decides))

-----------------------------------------------------------------------------
(* Deviations.  Each operator here is a mistake that could have been made  *)
(* in the definition it names; none of them is part of the specification.  *)

(* DecideAnswered with refetch() where the code invalidates the query: a   *)
(* fetch that is under way is taken for the new one.                       *)
DecideAnsweredPolls(i) ==
  /\ decides[i].at = "committed"
  /\ Over(i)
  /\ queue' = Polled(queue)
  /\ told' = told \cup {decides[i].pair}
  /\ focus' = IF focus = 0 THEN 0 ELSE focus - 1
  /\ UNCHANGED <<calm, pairs, rendered>>

-----------------------------------------------------------------------------
(* The page.  Its keys act on the cached list also while an error hides it.*)

(* m, n and s.  A mutation that has begun is not rendered at once: a key   *)
(* pressed before it is still finds the page at rest.                      *)
DecideKey(decision) ==
  /\ Acts /\ HasFocused /\ ~rendered
  /\ Decide(Focused, decision)

ArrowDown ==
  /\ Acts /\ HasFocused /\ ~rendered
  /\ MoveFocus(IF focus + 1 < Len(Items) THEN focus + 1 ELSE Len(Items) - 1)
  /\ UNCHANGED <<calm, pairs, queue, decides, isPending, told>>

ArrowUp ==
  /\ Acts /\ HasFocused /\ ~rendered
  /\ MoveFocus(IF focus = 0 THEN 0 ELSE focus - 1)
  /\ UNCHANGED <<calm, pairs, queue, decides, isPending, told>>

(* A click on a pair, and on one of its buttons, which nothing disables.   *)
ClickItem(i) ==
  /\ Acts /\ ~queue.error
  /\ MoveFocus(i - 1)
  /\ UNCHANGED <<calm, pairs, queue, decides, isPending, told>>

ClickButton(i, decision) ==
  /\ Acts /\ ~queue.error
  /\ Decide(Items[i], decision)

(* The change of isPending that the library has announced is rendered.     *)
Render ==
  /\ rendered # isPending
  /\ rendered' = isPending
  /\ UNCHANGED <<calm, pairs, queue, focus, decides, isPending, told>>

(* onSuccess.                                                              *)
DecideAnswered(i) ==
  /\ decides[i].at = "committed"
  /\ Over(i)
  /\ queue' = Invalidated(queue)
  /\ told' = told \cup {decides[i].pair}
  /\ focus' = IF focus = 0 THEN 0 ELSE focus - 1
  /\ UNCHANGED <<calm, pairs, rendered>>

(* The decision is refused, or its answer lost.                            *)
DecideFails(i) ==
  /\ ~calm
  /\ Over(i)
  /\ UNCHANGED <<calm, pairs, queue, focus, rendered, told>>

QueueFocused ==
  /\ queue.at = "idle"
  /\ queue' = Polled(queue)
  /\ UNCHANGED <<calm, pairs, focus, decides, isPending, rendered, told>>

QueueServed ==
  /\ queue.at = "asked"
  /\ queue' = Served(queue, PendingList)
  /\ UNCHANGED <<calm, pairs, focus, decides, isPending, rendered, told>>

QueueArrived ==
  /\ queue.at = "served"
  /\ queue' = Arrived(queue)
  /\ UNCHANGED <<calm, pairs, focus, decides, isPending, rendered, told>>

QueueFailed ==
  /\ queue.at # "idle" /\ ~calm
  /\ queue' = Failed(queue)
  /\ UNCHANGED <<calm, pairs, focus, decides, isPending, rendered, told>>

-----------------------------------------------------------------------------
(* The server                                                              *)

(* POST /resolution-queue/:id/decide commits; it does not ask whether the  *)
(* pair has been decided.                                                  *)
DecideCommits(i) ==
  /\ decides[i].at = "sent"
  /\ pairs' = [pairs EXCEPT ![decides[i].pair] = decides[i].decision]
  /\ decides' = [decides EXCEPT ![i].at = "committed"]
  /\ UNCHANGED <<calm, queue, focus, isPending, rendered, told>>

(* Another reviewer decides a pair; ingestion queues one.                  *)
OtherDecides(p) ==
  /\ pairs[p] = "pending"
  /\ pairs' = [pairs EXCEPT ![p] = "decidedByAnother"]
  /\ UNCHANGED <<calm, queue, focus, decides, isPending, rendered, told>>

PairQueued(p) ==
  /\ pairs[p] = "none" /\ Exists(p)
  /\ pairs' = [pairs EXCEPT ![p] = "pending"]
  /\ UNCHANGED <<calm, queue, focus, decides, isPending, rendered, told>>

ReviewNext ==
  \/ \E d \in Decisions : DecideKey(d)
  \/ ArrowDown \/ ArrowUp
  \/ \E i \in 1..Len(Items) : ClickItem(i) \/ \E d \in Decisions : ClickButton(i, d)
  \/ Render
  \/ QueueFocused \/ QueueServed \/ QueueArrived \/ QueueFailed
  \/ \E i \in 1..Len(decides) : DecideAnswered(i) \/ DecideFails(i) \/ DecideCommits(i)
  \/ \E p \in Pairs : PairQueued(p) \/ OtherDecides(p)

(* A reviewer works through the queue: decides the focused pair, or clicks *)
(* on one when the focus is on none.                                       *)
KeepsReviewing ==
  \/ \E d \in Decisions : DecideKey(d)
  \/ ~HasFocused /\ \E i \in 1..Len(Items) : ClickItem(i)

-----------------------------------------------------------------------------
(* Properties                                                              *)

(* Once the list has settled, no pair is in it whose decision was          *)
(* acknowledged: not by a list that was read before the decision and       *)
(* arrives after its answer, not when one pair was decided twice, nor      *)
(* after an error.  (Undo, which makes a merged pair pending again, is     *)
(* offered by no page.)                                                    *)
DecidedPairsLeave ==
  Settled(queue) => \A i \in 1..Len(Items) : Items[i] \notin told

(* "Reviewers process dozens at a sitting": a calm reviewer who keeps      *)
(* deciding what is focused gets to every pair, also when other reviewers  *)
(* decide and ingestion queues pairs, when the list shows only the most    *)
(* similar ones, and when the focus ends up beyond the list's end.         *)
QueueDrains == calm ~> \A p \in Pairs : pairs[p] # "pending"
=============================================================================
