---------------------------- MODULE MCRetention -----------------------------
(***************************************************************************)
(* Retention, and with it CaseFile, for TLC: two objects joined by an      *)
(* edge.  A behaviour holds up to three requests, or two beside one sweep, *)
(* or one beside two sweeps: all of both at once is beyond TLC.            *)
(***************************************************************************)
EXTENDS Retention

CONSTANTS person, company,
          q1, q2,   \* two requests of Cleared, which differ in nothing
          s1, s2,   \* sweeps
          MaxLoad   \* 2 for each request that arrives and 3 for each sweep that starts

TwoObjects == {person, company}

OneEdge == {<<person, company>>}

OnlyThePerson == {person}

AllExpired == TwoObjects \cup OneEdge

Load ==
  2 * Cardinality({t \in Requests : req[t].at # "idle"})
    + 3 * Cardinality({s \in Sweeps : at[s] # "idle"})

(* Of two actors that are alike the same one comes first.                  *)
InTurn ==
  /\ req[q2].at # "idle" => req[q1].at # "idle"
  /\ s2 \in Sweeps /\ at[s2] # "idle" => at[s1] # "idle"

MCNext == Next /\ Load' <= MaxLoad /\ InTurn'

MCSpec == Init /\ [][MCNext]_vars /\ \A s \in Sweeps : WF_vars(Sweep(s))
=============================================================================
