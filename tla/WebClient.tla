----------------------------- MODULE WebClient -----------------------------
(***************************************************************************)
(* The pages of the web client behind its router (web/src/router.tsx): a   *)
(* tab shows one page, and a page's state lives while it is shown.  The    *)
(* pages share no query, so that a behaviour is about one of them; the     *)
(* others stay as they were initially.                                     *)
(***************************************************************************)
EXTENDS UserAdmin, ReviewPage, IntakeUpload, IntakeForms

VARIABLE screen   \* the page that is shown

vars == <<screen, userAdminVars, reviewVars, intakeVars, formsVars>>

Screens == {"users", "review", "upload", "forms"}

Init ==
  /\ screen \in Screens
  /\ UserAdminInit /\ ReviewInit /\ IntakeInit /\ FormsInit
  /\ screen # "review" => ~calm /\ \A p \in Pairs : pairs[p] = "none"
  /\ screen # "forms" => used = CHOOSE u \in UsedTogether : TRUE

Next ==
  \/ screen = "users" /\ UserAdminNext /\ UNCHANGED <<screen, reviewVars, intakeVars, formsVars>>
  \/ screen = "review" /\ ReviewNext /\ UNCHANGED <<screen, userAdminVars, intakeVars, formsVars>>
  \/ screen = "upload" /\ IntakeNext /\ UNCHANGED <<screen, userAdminVars, reviewVars, formsVars>>
  \/ screen = "forms" /\ FormsNext /\ UNCHANGED <<screen, userAdminVars, reviewVars, intakeVars>>

(* Requests are served and answered.  A reviewer who can work goes on (SF: *)
(* while a decision is under way the keys do nothing), and comes back to   *)
(* the window, which fetches the list.  The tab of the intake page stays   *)
(* in the foreground, where its interval runs, and the server works on its *)
(* runs (one that a crash leaves behind is over too, in this sense, when   *)
(* somebody has resumed it).                                               *)
Fairness ==
  /\ WF_reviewVars(screen = "review" /\ QueueServed)
  /\ WF_reviewVars(screen = "review" /\ QueueArrived)
  /\ WF_reviewVars(screen = "review" /\ QueueFocused)
  /\ WF_reviewVars(screen = "review" /\ Render)
  /\ WF_reviewVars(screen = "review" /\ \E i \in 1..Len(decides) : DecideCommits(i) \/ DecideAnswered(i))
  /\ SF_reviewVars(screen = "review" /\ KeepsReviewing)
  /\ WF_intakeVars(screen = "upload" /\ PollRuns)
  /\ WF_intakeVars(screen = "upload" /\ TableServed)
  /\ WF_intakeVars(screen = "upload" /\ TableArrived)
  /\ \A r \in 1..MaxRuns : WF_intakeVars(screen = "upload" /\ r <= Len(runs) /\ RunOver(r))

Spec == Init /\ [][Next]_vars /\ Fairness
=============================================================================
