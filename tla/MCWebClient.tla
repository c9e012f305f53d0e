---------------------------- MODULE MCWebClient ----------------------------
(* A small instance of WebClient for TLC.                                  *)
EXTENDS WebClient

CONSTANTS sanctions, ledger,   \* sources
          people, payments     \* an object template and an edge template

EachOfItsOwn == [t \in {people, payments} |-> IF t = people THEN sanctions ELSE ledger]

(* The two forms that are alike, and the two that are special.             *)
FormSets == {{"template", "edgeTemplate"}, {"source"}, {"retention"}}
=============================================================================
