------------------------------ MODULE Session ------------------------------
(***************************************************************************)
(* One browser tab's session (web/src/lib/auth.ts, lib/AuthContext.tsx,    *)
(* AuthCallbackPage.tsx, lib/api): signing in by the authorization code    *)
(* flow with PKCE, the tokens in sessionStorage and in React's state, the  *)
(* refresh that any API call may start, and signing out.                   *)
(*                                                                         *)
(* The identity provider is external: it issues a code for the attempt     *)
(* whose page the user completes, and access tokens that live Life ticks.  *)
(* The realm neither rotates nor revokes refresh tokens                    *)
(* (keycloak/realm-export.json).  Times are what is left of a token's life: *)
(* `real` until the API refuses it, `said` until the tab believes it       *)
(* expired, which is later by the time the token's answer was on its way.  *)
(***************************************************************************)
EXTENDS Naturals, Sequences

CONSTANTS Calls,       \* API calls that may be under way at once
          Life,        \* an access token's life (expires_in)
          Skew,        \* REFRESH_SKEW_MS
          TokenDelay,  \* the longest time a token is on its way to the tab
          ApiDelay,    \* the longest time a call is on its way to the API
          EffectRuns,  \* 2 when React.StrictMode runs effects twice, else 1
          MaxLogins,   \* bound: attempts to sign in, and codes issued
          None

(* The skew is there for what messages take; a token outlives it.          *)
ASSUME SessionAssumption ==
  /\ {Life, Skew, TokenDelay, ApiDelay, MaxLogins} \subseteq Nat
  /\ TokenDelay + ApiDelay <= Skew /\ Skew < Life
  /\ EffectRuns \in {1, 2}
  /\ None \notin Nat

VARIABLES
  page,      \* what the tab shows
  stored,    \* the tokens in sessionStorage, or None
  signedIn,  \* tokens # null in AuthProvider's state
  pkce,      \* the attempt whose verifier and state are stored, or None
  clicks,    \* startLogin calls waiting for their challenge
  attempts,  \* attempts to sign in so far
  calls,     \* getValidAccessToken and the request that follows it
  callback,  \* what /auth/callback was opened with, and what it does
  codes,     \* identity provider: the codes issued and how they were presented
  sso        \* identity provider: the user's session is alive

vars == <<page, stored, signedIn, pkce, clicks, attempts, calls, callback, codes, sso>>
loginVars == <<pkce, clicks, attempts, callback, codes>>

(* AuthProvider's eager refresh calls no API; its effect runs as often as  *)
(* any other.                                                              *)
Eager == 1..EffectRuns
Callers == Calls \cup Eager

Idle == [at |-> "idle", real |-> 0, age |-> 0]
NoCallback == [code |-> 0, runs |-> 0, exchanges |-> 0, issued |-> None]

Less(n) == IF n = 0 THEN 0 ELSE n - 1
Older(t) == IF t = None THEN None ELSE [t EXCEPT !.real = Less(@), !.said = Less(@)]

(* storeTokens: expiresAt counts from the moment the answer arrives.       *)
Arrived(real) == [real |-> real, said |-> Life]

(* A deviation of Valid, not part of the specification: no skew.           *)
ValidUntilExpiry(t) == t.said > 0

(* Date.now() < expiresAt - REFRESH_SKEW_MS                                *)
Valid(t) == t.said > Skew

(* The application is loaded, and runs until the next page has loaded.     *)
Running == page \in {"app", "toProvider", "loggingOut"}

(* A page load: AuthProvider reads sessionStorage and refreshes eagerly a  *)
(* token that is past the skew; what the old page was doing is gone.       *)
Load(p, tokens) ==
  /\ page' = p
  /\ signedIn' = (tokens # None)
  /\ calls' = [c \in Callers |->
       IF c \in Eager /\ tokens # None /\ ~Valid(tokens)
         THEN [Idle EXCEPT !.at = "asking"] ELSE Idle]
  /\ clicks' = 0

Init ==
  /\ page = "app" /\ stored = None /\ signedIn = FALSE
  /\ pkce = None /\ clicks = 0 /\ attempts = 0
  /\ calls = [c \in Callers |-> Idle]
  /\ callback = NoCallback /\ codes = << >> /\ sso = FALSE

-----------------------------------------------------------------------------
(* Deviations.  Each operator here is a mistake that could have been made  *)
(* in the definition it names; none of them is part of the specification.  *)

(* CallbackEffect that removes verifier and state only when the exchange   *)
(* has succeeded.                                                          *)
CallbackEffectRemovingLate ==
  /\ page = "callback" /\ callback.runs > 0
  /\ IF pkce = codes[callback.code].attempt
       THEN /\ callback' = [callback EXCEPT !.runs = @ - 1, !.exchanges = @ + 1]
            /\ codes' = [codes EXCEPT ![callback.code].presented = Append(@, pkce)]
       ELSE /\ callback' = [callback EXCEPT !.runs = @ - 1]
            /\ UNCHANGED codes
  /\ UNCHANGED <<page, stored, signedIn, pkce, clicks, attempts, calls, sso>>

-----------------------------------------------------------------------------
(* Signing in                                                              *)

(* The button of the sign-in screen: startLogin up to its await.           *)
ClickSignIn ==
  /\ page \in {"app", "toProvider"} /\ ~signedIn /\ clicks < 2 /\ attempts + clicks < MaxLogins
  /\ clicks' = clicks + 1
  /\ UNCHANGED <<page, stored, signedIn, pkce, attempts, calls, callback, codes, sso>>

(* The challenge is there: verifier and state are stored, the tab goes to  *)
(* the identity provider.  The page keeps running until that page loads,   *)
(* so that a second click may do the same once more.                       *)
GoToProvider ==
  /\ Running /\ clicks > 0
  /\ clicks' = clicks - 1
  /\ attempts' = attempts + 1
  /\ pkce' = attempts'
  /\ page' = "toProvider"
  /\ UNCHANGED <<stored, signedIn, calls, callback, codes, sso>>

ProviderLoads ==
  /\ page = "toProvider"
  /\ page' = "provider"
  /\ clicks' = 0
  /\ calls' = [c \in Callers |-> Idle]
  /\ UNCHANGED <<stored, signedIn, pkce, attempts, callback, codes, sso>>

(* The user completes a sign-in page, the last one or an older one the     *)
(* Back button leads to, and is sent to /auth/callback with a code and     *)
(* that attempt's state.                                                   *)
ProviderRedirects(attempt) ==
  /\ page = "provider" /\ Len(codes) < MaxLogins
  /\ codes' = Append(codes, [attempt |-> attempt, presented |-> << >>])
  /\ callback' = [NoCallback EXCEPT !.code = Len(codes'), !.runs = EffectRuns]
  /\ Load("callback", stored)
  /\ sso' = TRUE
  /\ UNCHANGED <<stored, pkce, attempts>>

(* The Back button leads to a callback page seen before.                   *)
BackToCallback(code) ==
  /\ page \in {"app", "provider"}
  /\ callback' = [NoCallback EXCEPT !.code = code, !.runs = EffectRuns]
  /\ Load("callback", stored)
  /\ UNCHANGED <<stored, pkce, attempts, codes, sso>>

(* handleCallback up to the fetch: a callback that is not the one awaited  *)
(* is refused, otherwise verifier and state are removed and the code is    *)
(* presented with the verifier.                                            *)
CallbackEffect ==
  /\ page = "callback" /\ callback.runs > 0
  /\ IF pkce = codes[callback.code].attempt
       THEN /\ pkce' = None
            /\ callback' = [callback EXCEPT !.runs = @ - 1, !.exchanges = @ + 1]
            /\ codes' = [codes EXCEPT ![callback.code].presented = Append(@, pkce)]
       ELSE /\ callback' = [callback EXCEPT !.runs = @ - 1]
            /\ UNCHANGED <<pkce, codes>>
  /\ UNCHANGED <<page, stored, signedIn, clicks, attempts, calls, sso>>

(* The provider answers an exchange, of a code it has not seen before and  *)
(* whose challenge matches, with tokens.                                   *)
ExchangeIssues ==
  /\ page = "callback" /\ callback.runs = 0 /\ callback.exchanges > 0
  /\ callback.issued = None /\ sso
  /\ codes[callback.code].presented = <<codes[callback.code].attempt>>
  /\ callback' = [callback EXCEPT !.issued = [real |-> Life, age |-> 0], !.exchanges = @ - 1]
  /\ UNCHANGED <<page, stored, signedIn, pkce, clicks, attempts, calls, codes, sso>>

(* The tokens are stored; a hard reload to "/" follows.                    *)
ExchangeArrives ==
  /\ page = "callback" /\ callback.issued # None
  /\ stored' = Arrived(callback.issued.real)
  /\ callback' = NoCallback
  /\ Load("app", stored')
  /\ UNCHANGED <<pkce, attempts, codes, sso>>

(* The user opens the application again, also because the exchange has     *)
(* failed and "Sign-in failed" is all the page shows.                      *)
OpenAgain ==
  /\ page \in {"callback", "provider"}
  /\ page = "callback" => callback.runs = 0
  /\ callback' = NoCallback
  /\ Load("app", stored)
  /\ UNCHANGED <<stored, pkce, attempts, codes, sso>>

-----------------------------------------------------------------------------
(* Calls                                                                   *)

(* withToken: a valid token goes out with the request at once, any other   *)
(* is refreshed first; without tokens the call fails.                      *)
Call(c) ==
  /\ Running /\ signedIn /\ stored # None /\ calls[c].at = "idle"
  /\ calls' = [calls EXCEPT ![c] =
       IF Valid(stored) THEN [at |-> "sent", real |-> stored.real, age |-> 0]
                        ELSE [Idle EXCEPT !.at = "asking"]]
  /\ UNCHANGED <<page, stored, signedIn, loginVars, sso>>

(* refreshTokens, on the provider's side ...                               *)
RefreshIssues(c) ==
  /\ calls[c].at = "asking" /\ sso
  /\ calls' = [calls EXCEPT ![c] = [at |-> "issued", real |-> Life, age |-> 0]]
  /\ UNCHANGED <<page, stored, signedIn, loginVars, sso>>

(* ... and when the answer arrives: stored and shown, and the request goes *)
(* out with the new token.                                                 *)
RefreshArrives(c) ==
  /\ calls[c].at = "issued"
  /\ stored' = Arrived(calls[c].real)
  /\ signedIn' = TRUE
  /\ calls' = [calls EXCEPT ![c] = IF c \in Eager THEN Idle ELSE [@ EXCEPT !.at = "sent", !.age = 0]]
  /\ UNCHANGED <<page, loginVars, sso>>

(* The refresh fails: the session is over, or the network failed or lost   *)
(* the answer.  The sign-in screen is shown; sessionStorage stays as it is.*)
RefreshFails(c) ==
  /\ calls[c].at \in {"asking", "issued"}
  /\ signedIn' = FALSE
  /\ calls' = [calls EXCEPT ![c] = Idle]
  /\ UNCHANGED <<page, stored, loginVars, sso>>

(* The API receives the request; jwtVerify accepts it while real > 0.      *)
ApiReceives(c) ==
  /\ calls[c].at = "sent"
  /\ calls' = [calls EXCEPT ![c] = Idle]
  /\ UNCHANGED <<page, stored, signedIn, loginVars, sso>>

-----------------------------------------------------------------------------
(* Leaving, reloading, time                                                *)

(* logout clears sessionStorage and goes to the provider; the page runs on *)
(* until that page loads, so that a refresh under way may store again.     *)
Logout ==
  /\ Running /\ signedIn
  /\ stored' = None
  /\ page' = "loggingOut"
  /\ UNCHANGED <<signedIn, loginVars, calls, sso>>

(* The provider ends its session and sends the tab back.                   *)
LoggedOut ==
  /\ page = "loggingOut"
  /\ sso' = FALSE
  /\ Load("app", stored)
  /\ UNCHANGED <<stored, pkce, attempts, callback, codes>>

Reload ==
  /\ page = "app"
  /\ Load("app", stored)
  /\ UNCHANGED <<stored, pkce, attempts, callback, codes, sso>>

(* The provider ends the user's session on its own.                        *)
SessionEnds ==
  /\ sso
  /\ sso' = FALSE
  /\ UNCHANGED <<page, stored, signedIn, loginVars, calls>>

(* Nothing is on its way for longer than the delays say.                   *)
Tick ==
  /\ \A c \in Callers :
       /\ calls[c].at = "issued" => calls[c].age < TokenDelay
       /\ calls[c].at = "sent" => calls[c].age < ApiDelay
  /\ callback.issued # None => callback.issued.age < TokenDelay
  /\ stored' = Older(stored)
  /\ calls' = [c \in Callers |-> IF calls[c].at \in {"issued", "sent"}
                 THEN [calls[c] EXCEPT !.real = Less(@), !.age = @ + 1] ELSE calls[c]]
  /\ callback' = IF callback.issued = None THEN callback
                 ELSE [callback EXCEPT !.issued.real = Less(@), !.issued.age = @ + 1]
  /\ UNCHANGED <<page, signedIn, pkce, clicks, attempts, codes, sso>>

Next ==
  \/ ClickSignIn \/ GoToProvider \/ ProviderLoads
  \/ \E k \in 1..attempts : ProviderRedirects(k)
  \/ \E k \in 1..Len(codes) : BackToCallback(k)
  \/ CallbackEffect \/ ExchangeIssues \/ ExchangeArrives \/ OpenAgain
  \/ \E c \in Calls : Call(c) \/ ApiReceives(c)
  \/ \E c \in Callers : RefreshIssues(c) \/ RefreshArrives(c) \/ RefreshFails(c)
  \/ Logout \/ LoggedOut \/ Reload \/ SessionEnds \/ Tick

Spec == Init /\ [][Next]_vars

-----------------------------------------------------------------------------
(* Properties                                                              *)

(* "Refresh a bit before actual expiry so an in-flight request never races *)
(* the token's real expiry moment": no request is on its way to the API    *)
(* with a token that has expired, although the tab counts a token's life   *)
(* from the arrival of the answer that brought it and several refreshes,   *)
(* reloads and sign-ins may overwrite each other.                          *)
NeverExpiredInFlight ==
  \A c \in Calls : calls[c].at = "sent" => calls[c].real > 0

(* A code is presented at most once and with the verifier of the attempt   *)
(* that obtained it, whatever clicks, Back button and doubled effects do.  *)
ExchangeOnceWithItsVerifier ==
  \A k \in 1..Len(codes) :
    codes[k].presented \in {<< >>, <<codes[k].attempt>>}
=============================================================================
