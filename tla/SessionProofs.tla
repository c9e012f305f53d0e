--------------------------- MODULE SessionProofs ----------------------------
(***************************************************************************)
(* Proofs about Session, for any number of calls and sign-ins, and any     *)
(* token lifetime, skew and delays that satisfy SessionAssumption.         *)
(***************************************************************************)
EXTENDS Session, SequenceTheorems, TLAPS

-----------------------------------------------------------------------------
(* The inductive invariant                                                 *)

CallStates == [at : {"idle", "asking", "issued", "sent"}, real : Nat, age : Nat]

Tokens == [real : Nat, said : Nat] \cup {None}
Answers == [real : Nat, age : Nat] \cup {None}
Callbacks == [code : Nat, runs : Nat, exchanges : Nat, issued : Answers]
Codes == [attempt : Nat, presented : Seq(Nat)]

(* The module states no type invariant of its own; the bookkeeping of time *)
(* and of codes needs these.                                               *)
TypeInvariant ==
  /\ stored \in Tokens
  /\ pkce \in Nat \cup {None}
  /\ attempts \in Nat
  /\ calls \in [Callers -> CallStates]
  /\ callback \in Callbacks
  /\ codes \in Seq(Codes)

(* A token the tab has stored lives at least until TokenDelay before the   *)
(* tab believes it expired; one on its way from the provider has lost of   *)
(* its life what it has travelled; and a request has left with a token     *)
(* that lives longer than any request is on its way.                       *)
TokensLive ==
  /\ stored # None => stored.said <= stored.real + TokenDelay
  /\ callback.issued # None =>
       callback.issued.real + callback.issued.age = Life /\ callback.issued.age <= TokenDelay
  /\ \A c \in Callers :
       /\ calls[c].at = "issued" =>
            calls[c].real + calls[c].age = Life /\ calls[c].age <= TokenDelay
       /\ calls[c].at = "sent" =>
            calls[c].real + calls[c].age > ApiDelay /\ calls[c].age <= ApiDelay

(* An attempt whose verifier is stored has presented no code, and a code   *)
(* is presented with the verifier of its own attempt only.                 *)
CodesSound ==
  /\ pkce # None => pkce <= attempts
  /\ page = "callback" /\ callback.runs > 0 => callback.code \in 1..Len(codes)
  /\ \A k \in 1..Len(codes) :
       /\ codes[k].attempt <= attempts
       /\ codes[k].presented \in {<< >>, <<codes[k].attempt>>}
       /\ codes[k].attempt = pkce => codes[k].presented = << >>

SessionInv == TypeInvariant /\ TokensLive /\ CodesSound

-----------------------------------------------------------------------------
(* Lemmas                                                                  *)

LEMMA Bounds ==
  /\ Life \in Nat /\ Skew \in Nat /\ TokenDelay \in Nat /\ ApiDelay \in Nat
  /\ TokenDelay + ApiDelay <= Skew /\ Skew < Life /\ None \notin Nat
BY SessionAssumption

(* A tick takes one tick of what is left, if anything is.                  *)
LEMMA LessType ==
  ASSUME NEW n \in Nat
  PROVE  Less(n) \in Nat /\ Less(n) <= n /\ (n # 0 => Less(n) + 1 = n) /\ n <= Less(n) + 1
BY DEF Less

LEMMA IdleCall == Idle \in CallStates /\ Idle.at = "idle"
BY DEF Idle, CallStates

(* A page load leaves no token on its way to a call.                       *)
LEMMA LoadCalls ==
  ASSUME NEW p, NEW tokens, Load(p, tokens)
  PROVE  /\ calls' \in [Callers -> CallStates]
         /\ \A c \in Callers : calls'[c].at \in {"idle", "asking"}
         /\ page' = p
<1>1. [Idle EXCEPT !.at = "asking"] \in CallStates /\ [Idle EXCEPT !.at = "asking"].at = "asking"
  BY DEF Idle, CallStates
<1>2. QED
  BY <1>1, IdleCall DEF Load

(* Of the steps that leave the codes alone, all but the sign-in's keep     *)
(* what is known of them.                                                  *)
LEMMA CodesRest ==
  ASSUME SessionInv, UNCHANGED <<pkce, attempts, codes>>,
         page' = "callback" /\ callback'.runs > 0 => callback'.code \in 1..Len(codes)
  PROVE  CodesSound'
BY DEF SessionInv, CodesSound

(* A record of an issued code, and a code's sound presentation.            *)
LEMMA CodeAt ==
  ASSUME SessionInv, NEW k \in 1..Len(codes)
  PROVE  /\ codes[k] \in Codes /\ codes[k].attempt \in Nat
         /\ codes[k].attempt <= attempts
         /\ codes[k].presented \in {<< >>, <<codes[k].attempt>>}
         /\ codes[k].attempt = pkce => codes[k].presented = << >>
<1>1. codes \in Seq(Codes)
  BY DEF SessionInv, TypeInvariant
<1>2. codes[k] \in Codes
  BY <1>1, ElementOfSeq
<1>3. QED
  BY <1>2 DEF SessionInv, CodesSound, Codes

(* A step that loads a page with the tokens it finds stored, or stores an  *)
(* answer of the provider's.                                               *)
LEMMA LoadTokens ==
  ASSUME SessionInv, NEW p, NEW tokens, Load(p, tokens),
         \/ stored' \in {stored, None}
         \/ callback.issued # None /\ stored' = Arrived(callback.issued.real),
         callback'.issued = None
  PROVE  stored' \in Tokens /\ calls' \in [Callers -> CallStates] /\ TokensLive'
<1>1. /\ stored \in Tokens
      /\ callback.issued # None =>
           /\ callback.issued \in [real : Nat, age : Nat]
           /\ callback.issued.real + callback.issued.age = Life
           /\ callback.issued.age <= TokenDelay
      /\ stored # None => stored.said <= stored.real + TokenDelay
  BY DEF SessionInv, TypeInvariant, TokensLive, Callbacks, Answers
<1>2. /\ stored' \in Tokens
      /\ stored' # None => stored'.said <= stored'.real + TokenDelay
  <2>1. CASE stored' \in {stored, None}
    BY <1>1, <2>1 DEF Tokens
  <2>2. CASE callback.issued # None /\ stored' = Arrived(callback.issued.real)
    BY <1>1, <2>2, Bounds DEF Arrived, Tokens
  <2>3. QED
    BY <2>1, <2>2
<1>3. calls' \in [Callers -> CallStates] /\ \A c \in Callers : calls'[c].at \in {"idle", "asking"}
  BY LoadCalls
<1>4. QED
  BY <1>2, <1>3 DEF TokensLive

(* So does one that loads the application.                                 *)
LEMMA LoadInv ==
  ASSUME SessionInv, NEW p, NEW tokens, Load(p, tokens),
         \/ stored' \in {stored, None}
         \/ callback.issued # None /\ stored' = Arrived(callback.issued.real),
         callback'.issued = None, callback' \in Callbacks,
         UNCHANGED <<pkce, attempts, codes>>,
         p = "callback" /\ callback'.runs > 0 => callback'.code \in 1..Len(codes)
  PROVE  SessionInv'
<1>1. stored' \in Tokens /\ calls' \in [Callers -> CallStates] /\ TokensLive'
  BY LoadTokens
<1>2. page' = p
  BY LoadCalls
<1>3. CodesSound'
  BY <1>2, CodesRest
<1>4. pkce \in Nat \cup {None} /\ attempts \in Nat /\ codes \in Seq(Codes)
  BY DEF SessionInv, TypeInvariant
<1>5. QED
  BY <1>1, <1>3, <1>4 DEF SessionInv, TypeInvariant

(* What the callback page begins with.                                     *)
LEMMA NewCallback ==
  ASSUME NEW k \in Nat, NEW new, new = [NoCallback EXCEPT !.code = k, !.runs = EffectRuns]
  PROVE  /\ new \in Callbacks /\ new.code = k /\ new.issued = None
         /\ NoCallback \in Callbacks /\ NoCallback.issued = None /\ NoCallback.runs = 0
<1>1. NoCallback \in Callbacks /\ NoCallback.issued = None /\ NoCallback.runs = 0
  BY DEF NoCallback, Callbacks, Answers
<1>2. EffectRuns \in Nat
  BY SessionAssumption
<1>3. QED
  BY <1>1, <1>2 DEF Callbacks

-----------------------------------------------------------------------------
(* Signing in preserves the invariant                                      *)

LEMMA GoToProviderInv ==
  ASSUME SessionInv, GoToProvider
  PROVE  SessionInv'
<1>1. TypeInvariant'
  <2>1. TypeInvariant
    BY DEF SessionInv
  <2>2. /\ stored' = stored /\ calls' = calls /\ callback' = callback /\ codes' = codes
        /\ pkce' = attempts' /\ attempts' = attempts + 1
    BY DEF GoToProvider
  <2>3. QED
    BY <2>1, <2>2 DEF TypeInvariant
<1>2. TokensLive'
  BY DEF SessionInv, TokensLive, GoToProvider
<1>3. CodesSound'
  <2>1. /\ pkce' = attempts + 1 /\ attempts' = attempts + 1 /\ codes' = codes
        /\ page' = "toProvider" /\ attempts \in Nat
    BY DEF SessionInv, TypeInvariant, GoToProvider
  <2>2. ASSUME NEW k \in 1..Len(codes)
        PROVE  /\ codes[k].attempt <= attempts' /\ codes[k].attempt # pkce'
               /\ codes[k].presented \in {<< >>, <<codes[k].attempt>>}
    <3>1. /\ codes[k].attempt \in Nat /\ codes[k].attempt <= attempts
          /\ codes[k].presented \in {<< >>, <<codes[k].attempt>>}
      BY CodeAt
    <3>2. QED
      BY <2>1, <3>1
  <2>3. pkce' # None => pkce' <= attempts'
    BY <2>1
  <2>4. ~ (page' = "callback" /\ callback'.runs > 0)
    BY <2>1
  <2>5. \A k \in 1..Len(codes') :
          /\ codes'[k].attempt <= attempts'
          /\ codes'[k].presented \in {<< >>, <<codes'[k].attempt>>}
          /\ codes'[k].attempt = pkce' => codes'[k].presented = << >>
    BY <2>1, <2>2
  <2>6. QED
    BY <2>3, <2>4, <2>5 DEF CodesSound
<1>4. QED
  BY <1>1, <1>2, <1>3 DEF SessionInv

LEMMA ProviderRedirectsInv ==
  ASSUME SessionInv, NEW attempt \in 1..attempts, ProviderRedirects(attempt)
  PROVE  SessionInv'
<1> DEFINE code == [attempt |-> attempt, presented |-> << >>]
<1>1. /\ codes \in Seq(Codes) /\ attempts \in Nat /\ pkce \in Nat \cup {None}
      /\ codes' = Append(codes, code)
      /\ callback' = [NoCallback EXCEPT !.code = Len(codes'), !.runs = EffectRuns]
      /\ Load("callback", stored) /\ UNCHANGED <<stored, pkce, attempts>>
  BY DEF SessionInv, TypeInvariant, ProviderRedirects
<1>2. code \in Codes
  BY <1>1, EmptySeq DEF Codes
<1>3. /\ codes' \in Seq(Codes)
      /\ Len(codes') = Len(codes) + 1 /\ Len(codes) \in Nat
      /\ \A k \in 1..Len(codes) : codes'[k] = codes[k]
      /\ codes'[Len(codes) + 1] = code
  BY <1>1, <1>2, AppendProperties, LenProperties
<1>4. callback' \in Callbacks /\ callback'.issued = None /\ callback'.code = Len(codes')
  <2>1. Len(codes') \in Nat
    BY <1>3
  <2>2. QED
    BY <1>1, <2>1, NewCallback
<1>5. stored' \in Tokens /\ calls' \in [Callers -> CallStates] /\ TokensLive'
  <2>1. stored' \in {stored, None}
    BY <1>1
  <2>2. Load("callback", stored) /\ callback'.issued = None
    BY <1>1, <1>4
  <2>3. QED
    BY <2>1, <2>2, LoadTokens
<1>6. TypeInvariant'
  BY <1>1, <1>3, <1>4, <1>5 DEF TypeInvariant
<1>7. CodesSound'
  <2>1. ASSUME NEW k \in 1..Len(codes')
        PROVE  /\ codes'[k].attempt <= attempts'
               /\ codes'[k].presented \in {<< >>, <<codes'[k].attempt>>}
               /\ codes'[k].attempt = pkce' => codes'[k].presented = << >>
    <3>1. CASE k = Len(codes) + 1
      BY <1>1, <1>3, <3>1
    <3>2. CASE k # Len(codes) + 1
      <4>1. k \in 1..Len(codes) /\ codes'[k] = codes[k]
        BY <1>3, <3>2
      <4>2. QED
        BY <1>1, <4>1, CodeAt
    <3>3. QED
      BY <3>1, <3>2
  <2>2. callback'.code \in 1..Len(codes')
    BY <1>3, <1>4
  <2>3. QED
    BY <1>1, <2>1, <2>2 DEF SessionInv, CodesSound
<1>8. QED
  BY <1>5, <1>6, <1>7 DEF SessionInv

(* The code that is presented is one that the attempt whose verifier is    *)
(* removed has not presented before.                                       *)
LEMMA CallbackEffectInv ==
  ASSUME SessionInv, CallbackEffect
  PROVE  SessionInv'
<1>1. /\ TypeInvariant /\ TokensLive /\ CodesSound /\ callback.code \in 1..Len(codes)
      /\ UNCHANGED <<page, stored, attempts, calls>> /\ callback.runs > 0 /\ page = "callback"
      /\ codes \in Seq(Codes) /\ callback \in Callbacks
  BY DEF SessionInv, CodesSound, CallbackEffect, TypeInvariant
<1>2. callback'.issued = callback.issued /\ callback'.code = callback.code
      /\ callback' \in Callbacks
  <2>1. callback.runs - 1 \in Nat /\ callback.exchanges + 1 \in Nat
    BY <1>1 DEF Callbacks
  <2>2. \/ callback' = [callback EXCEPT !.runs = @ - 1, !.exchanges = @ + 1]
        \/ callback' = [callback EXCEPT !.runs = @ - 1]
    BY DEF CallbackEffect
  <2>3. QED
    BY <1>1, <2>1, <2>2 DEF Callbacks
<1>3. TokensLive'
  BY <1>1, <1>2 DEF TokensLive
<1>4. CASE pkce # codes[callback.code].attempt
  <2>1. UNCHANGED <<pkce, codes>>
    BY <1>4 DEF CallbackEffect
  <2>2. CodesSound'
    BY <1>1, <1>2, <2>1, CodesRest
  <2>3. TypeInvariant'
    BY <1>1, <1>2, <2>1 DEF TypeInvariant
  <2>4. QED
    BY <1>3, <2>2, <2>3 DEF SessionInv
<1>5. CASE pkce = codes[callback.code].attempt
  <2>1. PICK c \in 1..Len(codes) : c = callback.code
    BY <1>1
  <2>2. codes[c] \in Codes /\ pkce \in Nat /\ codes[c].presented = << >>
        /\ codes[c].attempt = pkce
    BY <1>5, <2>1, CodeAt
  <2>3. PICK code : code = [attempt |-> pkce, presented |-> <<pkce>>]
    OBVIOUS
  <2>4. [codes[c] EXCEPT !.presented = Append(@, pkce)] = code
    BY <2>2, <2>3 DEF Codes
  <2>5. pkce' = None /\ codes' = [codes EXCEPT ![c] = code]
    BY <1>5, <2>1, <2>4 DEF CallbackEffect
  <2>6. code \in Codes
    BY <2>2, <2>3 DEF Codes
  <2>7. /\ codes' \in Seq(Codes)
        /\ Len(codes') = Len(codes) /\ codes'[c] = code
        /\ \A k \in 1..Len(codes) \ {c} : codes'[k] = codes[k]
    BY <1>1, <2>5, <2>6, ExceptSeq
  <2>8. TypeInvariant'
    BY <1>1, <1>2, <2>5, <2>7 DEF TypeInvariant
  <2>9. ASSUME NEW k \in 1..Len(codes')
        PROVE  /\ codes'[k].attempt <= attempts'
               /\ codes'[k].presented \in {<< >>, <<codes'[k].attempt>>}
               /\ codes'[k].attempt # pkce'
    <3>1. k \in 1..Len(codes) /\ attempts' = attempts
      BY <1>1, <2>7
    <3>2. CASE k = c
      <4>1. codes'[k] = code /\ pkce <= attempts
        BY <2>2, <2>7, <3>1, <3>2, CodeAt
      <4>2. QED
        BY <2>2, <2>3, <2>5, <3>1, <4>1, Bounds
    <3>3. CASE k # c
      <4>1. codes'[k] = codes[k]
        BY <2>7, <3>1, <3>3
      <4>2. QED
        BY <2>5, <3>1, <4>1, CodeAt, Bounds
    <3>4. QED
      BY <3>2, <3>3
  <2>10. CodesSound'
    BY <1>1, <1>2, <2>5, <2>7, <2>9 DEF CodesSound
  <2>11. QED
    BY <1>3, <2>8, <2>10 DEF SessionInv
<1>6. QED
  BY <1>4, <1>5

LEMMA ProviderLoadsInv ==
  ASSUME SessionInv, ProviderLoads
  PROVE  SessionInv'
<1>1. /\ UNCHANGED <<stored, pkce, attempts, callback, codes>> /\ page' = "provider"
      /\ calls' = [c \in Callers |-> Idle]
  BY DEF ProviderLoads
<1>2. calls' \in [Callers -> CallStates] /\ \A c \in Callers : calls'[c].at = "idle"
  BY <1>1, IdleCall
<1>3. TypeInvariant'
  BY <1>1, <1>2 DEF SessionInv, TypeInvariant
<1>4. TokensLive'
  BY <1>1, <1>2 DEF SessionInv, TokensLive
<1>5. CodesSound'
  BY <1>1, CodesRest
<1>6. QED
  BY <1>3, <1>4, <1>5 DEF SessionInv

LEMMA BackToCallbackInv ==
  ASSUME SessionInv, NEW code \in 1..Len(codes), BackToCallback(code)
  PROVE  SessionInv'
<1>1. /\ callback' = [NoCallback EXCEPT !.code = code, !.runs = EffectRuns]
      /\ Load("callback", stored) /\ UNCHANGED <<stored, pkce, attempts, codes>>
  BY DEF BackToCallback
<1>2. callback' \in Callbacks /\ callback'.code = code /\ callback'.issued = None
  <2>1. code \in Nat
    BY LenProperties DEF SessionInv, TypeInvariant
  <2>2. QED
    BY <1>1, <2>1, NewCallback
<1>3. stored' \in {stored, None}
  BY <1>1
<1>4. QED
  BY <1>1, <1>2, <1>3, LoadInv

LEMMA ExchangeIssuesInv ==
  ASSUME SessionInv, ExchangeIssues
  PROVE  SessionInv'
<1> DEFINE issued == [real |-> Life, age |-> 0]
<1>1. /\ UNCHANGED <<page, stored, pkce, attempts, calls, codes>> /\ callback.runs = 0
      /\ callback' = [callback EXCEPT !.issued = issued, !.exchanges = @ - 1]
      /\ callback.exchanges > 0 /\ callback \in Callbacks
  BY DEF ExchangeIssues, SessionInv, TypeInvariant
<1>2. callback' \in Callbacks /\ callback'.issued = issued /\ callback'.runs = 0
  <2>1. issued \in Answers
    BY Bounds DEF Answers
  <2>2. callback.exchanges - 1 \in Nat
    BY <1>1 DEF Callbacks
  <2>3. QED
    BY <1>1, <2>1, <2>2 DEF Callbacks
<1>3. TypeInvariant'
  BY <1>1, <1>2 DEF SessionInv, TypeInvariant
<1>4. TokensLive'
  <2>1. issued.real + issued.age = Life /\ issued.age <= TokenDelay
    BY Bounds
  <2>2. QED
    BY <1>1, <1>2, <2>1 DEF SessionInv, TokensLive
<1>5. CodesSound'
  BY <1>1, <1>2, CodesRest
<1>6. QED
  BY <1>3, <1>4, <1>5 DEF SessionInv

(* The exchange's answer is stored, or the application opened once more:   *)
(* the callback page is left for the application.                          *)
LEMMA LeaveCallbackInv ==
  ASSUME SessionInv, ExchangeArrives \/ OpenAgain
  PROVE  SessionInv'
<1>1. /\ Load("app", stored') /\ callback' = NoCallback /\ UNCHANGED <<pkce, attempts, codes>>
      /\ \/ stored' \in {stored, None}
         \/ callback.issued # None /\ stored' = Arrived(callback.issued.real)
  <2>1. CASE ExchangeArrives
    BY <2>1 DEF ExchangeArrives
  <2>2. CASE OpenAgain
    BY <2>2 DEF OpenAgain
  <2>3. QED
    BY <2>1, <2>2
<1>2. callback' \in Callbacks /\ callback'.issued = None
  <2>1. callback' = NoCallback
    BY <1>1
  <2>2. QED
    BY <2>1 DEF NoCallback, Callbacks, Answers
<1>3. QED
  BY <1>1, <1>2, LoadInv

-----------------------------------------------------------------------------
(* Calls preserve the invariant                                            *)

(* A step of one call's.                                                   *)
LEMMA OneCall ==
  ASSUME SessionInv, UNCHANGED <<page, stored, loginVars>>,
         NEW c \in Callers, NEW call \in CallStates, calls' = [calls EXCEPT ![c] = call],
         call.at = "issued" => call.real + call.age = Life /\ call.age <= TokenDelay,
         call.at = "sent" => call.real + call.age > ApiDelay /\ call.age <= ApiDelay
  PROVE  SessionInv'
<1>1. UNCHANGED <<page, stored, pkce, attempts, callback, codes>>
  BY DEF loginVars
<1>2. TypeInvariant'
  BY <1>1 DEF SessionInv, TypeInvariant
<1>3. TokensLive'
  BY <1>1 DEF SessionInv, TypeInvariant, TokensLive
<1>4. CodesSound'
  BY <1>1 DEF SessionInv, CodesSound
<1>5. QED
  BY <1>2, <1>3, <1>4 DEF SessionInv

(* A token within the skew lives longer than a request is on its way.      *)
LEMMA CallInv ==
  ASSUME SessionInv, NEW c \in Calls, Call(c)
  PROVE  SessionInv'
<1>1. c \in Callers
  BY DEF Callers
<1>2. CASE Valid(stored)
  <2>1. stored \in [real : Nat, said : Nat] /\ stored.said <= stored.real + TokenDelay
    BY DEF SessionInv, TypeInvariant, Tokens, TokensLive, Call
  <2>2. stored.real > ApiDelay
    BY <1>2, <2>1, Bounds DEF Valid
  <2>3. PICK call : call = [at |-> "sent", real |-> stored.real, age |-> 0]
    OBVIOUS
  <2>4. /\ call \in CallStates /\ call.at = "sent"
        /\ call.real + call.age > ApiDelay /\ call.age <= ApiDelay
    BY <2>1, <2>2, <2>3, Bounds DEF CallStates
  <2>5. calls' = [calls EXCEPT ![c] = call] /\ UNCHANGED <<page, stored, loginVars>>
    BY <1>2, <2>3 DEF Call
  <2>6. QED
    BY <1>1, <2>4, <2>5, OneCall
<1>3. CASE ~Valid(stored)
  <2>1. PICK call : call = [Idle EXCEPT !.at = "asking"]
    OBVIOUS
  <2>2. call \in CallStates /\ call.at = "asking"
    BY <2>1 DEF Idle, CallStates
  <2>3. calls' = [calls EXCEPT ![c] = call] /\ UNCHANGED <<page, stored, loginVars>>
    BY <1>3, <2>1 DEF Call
  <2>4. QED
    BY <1>1, <2>2, <2>3, OneCall
<1>4. QED
  BY <1>2, <1>3

LEMMA RefreshIssuesInv ==
  ASSUME SessionInv, NEW c \in Callers, RefreshIssues(c)
  PROVE  SessionInv'
<1>1. PICK call : call = [at |-> "issued", real |-> Life, age |-> 0]
  OBVIOUS
<1>2. /\ call \in CallStates /\ call.at = "issued"
      /\ call.real + call.age = Life /\ call.age <= TokenDelay
  BY <1>1, Bounds DEF CallStates
<1>3. calls' = [calls EXCEPT ![c] = call] /\ UNCHANGED <<page, stored, loginVars>>
  BY <1>1 DEF RefreshIssues
<1>4. QED
  BY <1>2, <1>3, OneCall

(* The request goes out with what is left of the new token, which has been *)
(* on its way for TokenDelay at most.                                      *)
LEMMA RefreshArrivesInv ==
  ASSUME SessionInv, NEW c \in Callers, RefreshArrives(c)
  PROVE  SessionInv'
<1>1. /\ calls[c] \in CallStates /\ calls[c].real + calls[c].age = Life
      /\ calls[c].age <= TokenDelay
  BY DEF SessionInv, TypeInvariant, TokensLive, RefreshArrives
<1>2. calls[c].real \in Nat /\ Life <= calls[c].real + TokenDelay /\ calls[c].real > ApiDelay
  BY <1>1, Bounds DEF CallStates
<1>3. PICK call : call = IF c \in Eager THEN Idle ELSE [calls[c] EXCEPT !.at = "sent", !.age = 0]
  OBVIOUS
<1>4. /\ call \in CallStates /\ call.at \in {"idle", "sent"}
      /\ call.at = "sent" => call.real + call.age > ApiDelay /\ call.age <= ApiDelay
  <2>1. CASE c \in Eager
    BY <1>3, <2>1, IdleCall
  <2>2. CASE c \notin Eager
    <3>1. call = [calls[c] EXCEPT !.at = "sent", !.age = 0]
      BY <1>3, <2>2
    <3>2. call \in CallStates /\ call.at = "sent" /\ call.real = calls[c].real /\ call.age = 0
      BY <1>1, <3>1 DEF CallStates
    <3>3. QED
      BY <1>2, <3>2, Bounds
  <2>3. QED
    BY <2>1, <2>2
<1>5. /\ calls' = [calls EXCEPT ![c] = call] /\ UNCHANGED <<page, pkce, attempts, callback, codes>>
      /\ stored' = [real |-> calls[c].real, said |-> Life]
  BY <1>3 DEF RefreshArrives, loginVars, Arrived
<1>6. TypeInvariant'
  BY <1>2, <1>4, <1>5, Bounds DEF SessionInv, TypeInvariant, Tokens
<1>7. TokensLive'
  <2>1. stored'.said <= stored'.real + TokenDelay
    BY <1>2, <1>5
  <2>2. \A d \in Callers : calls'[d] = IF d = c THEN call ELSE calls[d]
    BY <1>5 DEF SessionInv, TypeInvariant
  <2>3. QED
    BY <1>4, <1>5, <2>1, <2>2 DEF SessionInv, TokensLive
<1>8. CodesSound'
  BY <1>5 DEF SessionInv, CodesSound
<1>9. QED
  BY <1>6, <1>7, <1>8 DEF SessionInv

(* A refresh that fails, a request the API has received.                   *)
LEMMA CallEndsInv ==
  ASSUME SessionInv, NEW c \in Callers, RefreshFails(c) \/ ApiReceives(c)
  PROVE  SessionInv'
<1>1. calls' = [calls EXCEPT ![c] = Idle] /\ UNCHANGED <<page, stored, loginVars>>
  BY DEF RefreshFails, ApiReceives
<1>2. QED
  BY <1>1, IdleCall, OneCall

-----------------------------------------------------------------------------
(* Leaving, reloading and time preserve the invariant                      *)

LEMMA LogoutInv ==
  ASSUME SessionInv, Logout
  PROVE  SessionInv'
<1>1. /\ UNCHANGED <<pkce, attempts, callback, codes, calls>> /\ stored' = None
      /\ page' = "loggingOut"
  BY DEF Logout, loginVars
<1>2. QED
  BY <1>1 DEF SessionInv, TypeInvariant, TokensLive, CodesSound, Tokens

(* Nothing is known of a callback page that is not shown, so that the      *)
(* pages that are loaded from here may leave its record as it is: no token *)
(* is on its way to it.                                                    *)
LEMMA ReloadInv ==
  ASSUME SessionInv, Reload \/ LoggedOut
  PROVE  SessionInv'
<1>1. Load("app", stored) /\ UNCHANGED <<stored, pkce, attempts, callback, codes>>
  BY DEF Reload, LoggedOut
<1>2. /\ page' = "app" /\ calls' \in [Callers -> CallStates]
      /\ \A c \in Callers : calls'[c].at \in {"idle", "asking"}
  BY <1>1, LoadCalls
<1>3. TypeInvariant'
  BY <1>1, <1>2 DEF SessionInv, TypeInvariant
<1>4. TokensLive'
  BY <1>1, <1>2 DEF SessionInv, TokensLive
<1>5. CodesSound'
  BY <1>1, <1>2, CodesRest
<1>6. QED
  BY <1>3, <1>4, <1>5 DEF SessionInv

(* What a token on its way has of its life left and what it has travelled  *)
(* add up to the same after a tick, as long as it has any left.            *)
LEMMA TickInv ==
  ASSUME SessionInv, Tick
  PROVE  SessionInv'
<1>1. /\ stored \in Tokens /\ calls \in [Callers -> CallStates] /\ callback \in Callbacks
      /\ UNCHANGED <<page, pkce, attempts, codes>>
      /\ stored # None => stored.said <= stored.real + TokenDelay
  BY DEF SessionInv, TypeInvariant, TokensLive, Tick
<1>2. stored' \in Tokens /\ (stored' # None => stored'.said <= stored'.real + TokenDelay)
  <2>1. stored' = IF stored = None THEN None
                  ELSE [stored EXCEPT !.real = Less(@), !.said = Less(@)]
    BY DEF Tick, Older
  <2>2. CASE stored = None
    BY <2>1, <2>2 DEF Tokens
  <2>3. CASE stored # None
    <3>1. stored \in [real : Nat, said : Nat]
      BY <1>1, <2>3 DEF Tokens
    <3>2. stored' \in [real : Nat, said : Nat]
          /\ stored'.real = Less(stored.real) /\ stored'.said = Less(stored.said)
      BY <2>1, <2>3, <3>1, LessType
    <3>3. Less(stored.said) <= Less(stored.real) + TokenDelay
      BY <1>1, <2>3, <3>1, Bounds DEF Less
    <3>4. QED
      BY <3>2, <3>3 DEF Tokens
  <2>4. QED
    BY <2>2, <2>3
<1>3. /\ callback' \in Callbacks /\ callback'.code = callback.code
      /\ callback'.runs = callback.runs
      /\ callback'.issued # None => /\ callback'.issued.real + callback'.issued.age = Life
                                    /\ callback'.issued.age <= TokenDelay
  <2>1. CASE callback.issued = None
    <3>1. callback' = callback
      BY <2>1 DEF Tick
    <3>2. QED
      BY <1>1, <2>1, <3>1
  <2>2. CASE callback.issued # None
    <3>1. /\ callback.issued \in [real : Nat, age : Nat] /\ callback.issued.age < TokenDelay
          /\ callback.issued.real + callback.issued.age = Life
      BY <1>1, <2>2 DEF SessionInv, TokensLive, Tick, Callbacks, Answers
    <3>2. PICK t : t = [callback.issued EXCEPT !.real = Less(@), !.age = @ + 1]
      OBVIOUS
    <3>3. /\ t \in [real : Nat, age : Nat]
          /\ t.real = Less(callback.issued.real) /\ t.age = callback.issued.age + 1
      <4>1. callback.issued.real \in Nat /\ callback.issued.age \in Nat
        BY <3>1
      <4>2. PICK left \in Nat : left = Less(callback.issued.real)
        BY <4>1, LessType
      <4>3. t = [callback.issued EXCEPT !.real = left, !.age = @ + 1]
        BY <3>2, <4>2
      <4>4. t \in [real : Nat, age : Nat]
        <5>1. PICK age \in Nat : age = callback.issued.age + 1
          BY <4>1
        <5>2. t = [callback.issued EXCEPT !.real = left, !.age = age]
          BY <4>3, <5>1
        <5>3. QED
          BY <3>1, <5>2
      <4>5. t.real = left /\ t.age = callback.issued.age + 1
        BY <3>1, <4>3
      <4>6. QED
        BY <4>2, <4>4, <4>5
    <3>4. t.real + t.age = Life /\ t.age <= TokenDelay
      BY <3>1, <3>3, LessType, Bounds
    <3>5. callback' = [callback EXCEPT !.issued = t]
      BY <1>1, <2>2, <3>2 DEF Tick, Callbacks
    <3>6. QED
      BY <1>1, <3>3, <3>4, <3>5 DEF Callbacks, Answers
  <2>3. QED
    BY <2>1, <2>2
<1>4. /\ calls' \in [Callers -> CallStates]
      /\ \A c \in Callers :
           /\ calls'[c].at = "issued" =>
                calls'[c].real + calls'[c].age = Life /\ calls'[c].age <= TokenDelay
           /\ calls'[c].at = "sent" =>
                calls'[c].real + calls'[c].age > ApiDelay /\ calls'[c].age <= ApiDelay
  <2>1. calls' = [c \in Callers |-> IF calls[c].at \in {"issued", "sent"}
                    THEN [calls[c] EXCEPT !.real = Less(@), !.age = @ + 1] ELSE calls[c]]
    BY DEF Tick
  <2>2. ASSUME NEW c \in Callers
        PROVE  /\ calls'[c] \in CallStates
               /\ calls'[c].at = "issued" =>
                    calls'[c].real + calls'[c].age = Life /\ calls'[c].age <= TokenDelay
               /\ calls'[c].at = "sent" =>
                    calls'[c].real + calls'[c].age > ApiDelay /\ calls'[c].age <= ApiDelay
    <3>1. /\ calls[c] \in CallStates
          /\ calls[c].at = "issued" =>
               calls[c].real + calls[c].age = Life /\ calls[c].age < TokenDelay
          /\ calls[c].at = "sent" =>
               calls[c].real + calls[c].age > ApiDelay /\ calls[c].age < ApiDelay
      BY <1>1 DEF SessionInv, TokensLive, Tick
    <3>2. CASE calls[c].at \notin {"issued", "sent"}
      BY <2>1, <3>1, <3>2
    <3>3. CASE calls[c].at \in {"issued", "sent"}
      <4>1. calls'[c] = [calls[c] EXCEPT !.real = Less(@), !.age = @ + 1]
        BY <2>1, <3>3
      <4>2. calls[c].real \in Nat /\ calls[c].age \in Nat
        BY <3>1 DEF CallStates
      <4>3. Less(calls[c].real) \in Nat /\ calls[c].real <= Less(calls[c].real) + 1
            /\ (calls[c].real # 0 => Less(calls[c].real) + 1 = calls[c].real)
        BY <4>2, LessType
      <4>4. /\ calls'[c] \in CallStates /\ calls'[c].at = calls[c].at
            /\ calls'[c].real = Less(calls[c].real) /\ calls'[c].age = calls[c].age + 1
        <5>1. PICK left \in Nat : left = Less(calls[c].real)
          BY <4>3
        <5>2. calls'[c] = [calls[c] EXCEPT !.real = left, !.age = @ + 1]
          BY <4>1, <5>1
        <5>3. calls'[c] \in CallStates
          <6>1. PICK age \in Nat : age = calls[c].age + 1
            BY <4>2
          <6>2. calls'[c] = [calls[c] EXCEPT !.real = left, !.age = age]
            BY <5>2, <6>1
          <6>3. QED
            BY <3>1, <6>2 DEF CallStates
        <5>4. calls'[c].at = calls[c].at /\ calls'[c].real = left /\ calls'[c].age = calls[c].age + 1
          BY <3>1, <5>2 DEF CallStates
        <5>5. QED
          BY <5>1, <5>3, <5>4
      <4>5. QED
        BY <3>1, <4>2, <4>3, <4>4, Bounds
    <3>4. QED
      BY <3>2, <3>3
  <2>3. QED
    BY <2>1, <2>2
<1>5. TypeInvariant'
  BY <1>1, <1>2, <1>3, <1>4 DEF SessionInv, TypeInvariant
<1>6. TokensLive'
  BY <1>2, <1>3, <1>4 DEF TokensLive
<1>7. CodesSound'
  BY <1>1, <1>3 DEF SessionInv, CodesSound
<1>8. QED
  BY <1>5, <1>6, <1>7 DEF SessionInv

(* The steps that touch nothing the invariant speaks of.                   *)
LEMMA OthersInv ==
  ASSUME SessionInv, ClickSignIn \/ SessionEnds \/ UNCHANGED vars
  PROVE  SessionInv'
<1>1. UNCHANGED <<page, stored, pkce, attempts, calls, callback, codes>>
  BY DEF ClickSignIn, SessionEnds, vars, loginVars
<1>2. QED
  BY <1>1 DEF SessionInv, TypeInvariant, TokensLive, CodesSound

-----------------------------------------------------------------------------
(* The invariant holds in every state                                      *)

LEMMA InitInv == Init => SessionInv
<1> SUFFICES ASSUME Init PROVE SessionInv
  OBVIOUS
<1>1. /\ stored = None /\ pkce = None /\ attempts = 0 /\ codes = << >> /\ page = "app"
      /\ calls = [c \in Callers |-> Idle] /\ callback = NoCallback
  BY DEF Init
<1>2. calls \in [Callers -> CallStates] /\ \A c \in Callers : calls[c].at = "idle"
  BY <1>1, IdleCall
<1>3. callback \in Callbacks /\ callback.issued = None
  BY <1>1 DEF NoCallback, Callbacks, Answers
<1>4. codes \in Seq(Codes) /\ Len(codes) = 0
  BY <1>1, EmptySeq
<1>5. TypeInvariant
  BY <1>1, <1>2, <1>3, <1>4 DEF TypeInvariant, Tokens
<1>6. TokensLive
  BY <1>1, <1>2, <1>3 DEF TokensLive
<1>7. CodesSound
  BY <1>1, <1>4 DEF CodesSound
<1>8. QED
  BY <1>5, <1>6, <1>7 DEF SessionInv

LEMMA NextInv == SessionInv /\ [Next]_vars => SessionInv'
<1> SUFFICES ASSUME SessionInv, [Next]_vars PROVE SessionInv'
  OBVIOUS
<1>1. ASSUME GoToProvider PROVE SessionInv'
  BY <1>1, GoToProviderInv
<1>2. ASSUME ProviderLoads PROVE SessionInv'
  BY <1>2, ProviderLoadsInv
<1>3. ASSUME NEW k \in 1..attempts, ProviderRedirects(k) PROVE SessionInv'
  BY <1>3, ProviderRedirectsInv
<1>4. ASSUME NEW k \in 1..Len(codes), BackToCallback(k) PROVE SessionInv'
  BY <1>4, BackToCallbackInv
<1>5. ASSUME CallbackEffect PROVE SessionInv'
  BY <1>5, CallbackEffectInv
<1>6. ASSUME ExchangeIssues PROVE SessionInv'
  BY <1>6, ExchangeIssuesInv
<1>7. ASSUME ExchangeArrives \/ OpenAgain PROVE SessionInv'
  BY <1>7, LeaveCallbackInv
<1>8. ASSUME NEW c \in Calls, Call(c) \/ ApiReceives(c) PROVE SessionInv'
  BY <1>8, CallInv, CallEndsInv DEF Callers
<1>9. ASSUME NEW c \in Callers, RefreshIssues(c) \/ RefreshArrives(c) \/ RefreshFails(c)
      PROVE  SessionInv'
  BY <1>9, RefreshIssuesInv, RefreshArrivesInv, CallEndsInv
<1>10. ASSUME Logout PROVE SessionInv'
  BY <1>10, LogoutInv
<1>11. ASSUME LoggedOut \/ Reload PROVE SessionInv'
  BY <1>11, ReloadInv
<1>12. ASSUME Tick PROVE SessionInv'
  BY <1>12, TickInv
<1>13. ASSUME ClickSignIn \/ SessionEnds \/ UNCHANGED vars PROVE SessionInv'
  BY <1>13, OthersInv
<1>14. QED
  BY <1>1, <1>2, <1>3, <1>4, <1>5, <1>6, <1>7, <1>8, <1>9, <1>10, <1>11, <1>12, <1>13 DEF Next

LEMMA SessionInvariant == Spec => []SessionInv
BY InitInv, NextInv, PTL DEF Spec

-----------------------------------------------------------------------------
(* Theorems                                                                *)

(* Whatever refreshes, reloads and sign-ins overlap, a request on its way  *)
(* to the API carries a token that is still alive there: getValidAccess-   *)
(* Token's skew covers the way of the answer that brought the token and    *)
(* the way of the request, for every lifetime and every number of calls.   *)
THEOREM TokensOutliveRequests == Spec => []NeverExpiredInFlight
<1>1. SessionInv => NeverExpiredInFlight
  <2> SUFFICES ASSUME SessionInv, NEW c \in Calls, calls[c].at = "sent"
               PROVE  calls[c].real > 0
    BY DEF NeverExpiredInFlight
  <2>1. calls[c] \in CallStates /\ calls[c].real + calls[c].age > ApiDelay /\ calls[c].age <= ApiDelay
    BY DEF SessionInv, TypeInvariant, TokensLive, Callers
  <2>2. QED
    BY <2>1, Bounds DEF CallStates
<1>2. QED
  BY <1>1, SessionInvariant, PTL

(* handleCallback removes the stored verifier before it presents a code:   *)
(* whatever second clicks, the Back button and effects that run twice do,  *)
(* no code is presented twice or with another attempt's verifier.          *)
THEOREM CodesPresentedOnce == Spec => []ExchangeOnceWithItsVerifier
<1>1. SessionInv => ExchangeOnceWithItsVerifier
  BY DEF SessionInv, CodesSound, ExchangeOnceWithItsVerifier
<1>2. QED
  BY <1>1, SessionInvariant, PTL
=============================================================================
