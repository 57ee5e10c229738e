-------------------------------- MODULE SignIn --------------------------------
(***************************************************************************)
(* Signing in with Globus (auth/globus.ts) and federating to AWS           *)
(* (auth/aws-federation.ts), as the direct page drives them                *)
(* (demo/direct/main.ts): one tab, whose sessionStorage holds the verifier *)
(* and the state of one login, written and removed together.               *)
(*                                                                         *)
(* Globus and STS are external.  A login is a click; its code is good for  *)
(* one exchange.                                                           *)
(***************************************************************************)
EXTENDS Naturals, Sequences

CONSTANT MaxLogins   \* bound: clicks on "sign in"

ASSUME SignInBound == MaxLogins \in Nat

Logins == 1 .. MaxLogins

VARIABLES
    place,       \* the tab: "app", "leaving", "globus", "callback"
    at,          \* the login whose authorize page it shows, or whose answer it holds; 0 for
                 \* one that was begun elsewhere
    target,      \* the login to whose authorize page it is leaving
    login,       \* each login: "none", "digesting", "sent"
    storage,     \* the login whose verifier and state are stored; 0 is none
    code,        \* Globus: the code of each login, "none", "fresh" or "spent"
    exchange,    \* of the page that is loaded: "off", "asked", "federating", "identifying",
                 \* "connected", "refused", "failed"
    tokens,      \* of the answer to the exchange: [granted, held], whose are granted and which it holds
    overlapped      \* history: logins that another login, or the end of an exchange, came after

signInVars == <<place, at, target, login, storage, code, exchange, tokens, overlapped>>

\* No answer yet.
NoTokens == [granted |-> {}, held |-> {}]

SignInInit ==
    /\ place = "app" /\ at = 0 /\ target = 0 /\ login = [l \in Logins |-> "none"]
    /\ storage = 0 /\ code = [l \in Logins |-> "none"]
    /\ exchange = "off" /\ tokens = NoTokens /\ overlapped = {}

Begun == {l \in Logins : login[l] # "none"}

-----------------------------------------------------------------------------
\* beginLogin, up to the digest of the verifier.
BeginLogin(l) ==
    /\ place = "app" \/ (place = "callback" /\ exchange # "off")
    /\ login[l] = "none" /\ \A k \in 1 .. l - 1 : k \in Begun
    /\ login' = [login EXCEPT ![l] = "digesting"]
    /\ storage' = l
    /\ overlapped' = overlapped \cup Begun
    /\ UNCHANGED <<place, at, target, code, exchange, tokens>>

\* The digest is there: the tab is sent to Globus, whatever it is doing.
Redirects(l) ==
    /\ place \in {"app", "callback", "leaving"} /\ login[l] = "digesting"
    /\ login' = [login EXCEPT ![l] = "sent"]
    /\ place' = "leaving" /\ target' = l
    /\ UNCHANGED <<at, storage, code, exchange, overlapped, tokens>>

\* The page is gone, with the logins and the exchange it had under way.
Leaves ==
    /\ place = "leaving"
    /\ place' = "globus" /\ at' = target /\ target' = 0
    /\ login' = [l \in Logins |-> IF login[l] = "digesting" THEN "sent" ELSE login[l]]
    /\ exchange' = "off" /\ tokens' = NoTokens
    /\ UNCHANGED <<storage, code, overlapped>>

\* External: the user consents, or comes back without a code.
Consents ==
    /\ place = "globus"
    /\ place' = "callback"
    /\ code' = [code EXCEPT ![at] = IF @ = "none" THEN "fresh" ELSE @]
    /\ UNCHANGED <<at, target, login, storage, exchange, overlapped, tokens>>

Declines ==
    /\ place = "globus"
    /\ place' = "app" /\ at' = 0
    /\ UNCHANGED <<target, login, storage, code, exchange, overlapped, tokens>>

\* A callback of a login that was begun in another tab is opened in this one.
OpensAnother ==
    /\ place = "app" /\ exchange = "off" /\ \A l \in Logins : login[l] # "digesting"
    /\ place' = "callback" /\ at' = 0
    /\ UNCHANGED <<target, login, storage, code, exchange, overlapped, tokens>>

-----------------------------------------------------------------------------
\* The page loads: completeLogin compares the states and asks for the tokens.
CompleteLogin ==
    /\ place = "callback" /\ exchange = "off"
    /\ IF storage # 0 /\ at = storage THEN exchange' = "asked"
                                      ELSE exchange' = "refused"
    /\ UNCHANGED <<place, at, target, login, storage, code, overlapped, tokens>>

Spend == code' = [code EXCEPT ![at] = "spent"]

(***************************************************************************)
(* An answer holds a section for each service whose token was granted: one *)
(* stands at the top, the other below, in whichever order; the id_token    *)
(* stands at the top or in the section of auth.globus.org, if anywhere.    *)
(***************************************************************************)
TokenResponses ==
    [sections : {<<"auth">>, <<"transfer">>, <<"auth", "transfer">>, <<"transfer", "auth">>},
     id : {"top", "own", "missing"}]

SectionsOf(data) == {data.sections[n] : n \in DOMAIN data.sections}

ExtractIdToken(data) == IF data.id = "top" \/ (data.id = "own" /\ "auth" \in SectionsOf(data)) THEN {"id"} ELSE {}

ExtractTransferToken(data) == SectionsOf(data) \cap {"transfer"}

\* The tokens are there; what is stored is removed, whichever login it is of.  Without an
\* id_token, or with one that does not parse, the exchange fails.
TokensAnswered ==
    /\ exchange = "asked" /\ code[at] = "fresh"
    /\ Spend
    /\ storage' = 0 /\ overlapped' = overlapped \cup (Begun \ {at})
    /\ \E data \in TokenResponses :
         LET held == ExtractIdToken(data) \cup ExtractTransferToken(data) IN
           \/ /\ "id" \in held /\ exchange' = "federating"
              /\ tokens' = [granted |-> SectionsOf(data), held |-> held]
           \/ exchange' = "failed" /\ UNCHANGED tokens
    /\ UNCHANGED <<place, at, target, login>>

\* The stored values are removed whatever the answer.
TokensFailed_Removes ==
    /\ exchange = "asked"
    /\ Spend \/ UNCHANGED code
    /\ exchange' = "failed" /\ storage' = 0
    /\ UNCHANGED <<place, at, target, login, overlapped, tokens>>

\* Refused, or lost before or after Globus saw the code.
TokensFailed ==
    /\ exchange = "asked"
    /\ Spend \/ UNCHANGED code
    /\ exchange' = "failed"
    /\ UNCHANGED <<place, at, target, login, storage, overlapped, tokens>>

\* AssumeRoleWithWebIdentity, all three parts of the credentials or none.
Federated ==
    /\ exchange = "federating"
    /\ exchange' \in {"identifying", "failed"}
    /\ UNCHANGED <<place, at, target, login, storage, code, overlapped, tokens>>

\* GetCallerIdentity; the page connects and takes the code out of its address.
Identified ==
    /\ exchange = "identifying"
    /\ \/ /\ exchange' = "connected"
          /\ IF place = "callback" THEN place' = "app" /\ at' = 0
                                   ELSE UNCHANGED <<place, at>>
       \/ exchange' = "failed" /\ UNCHANGED <<place, at>>
    /\ UNCHANGED <<target, login, storage, code, overlapped, tokens>>

\* The user reloads the page: its memory goes, its address and its storage stay.
Reloads ==
    /\ place \in {"app", "callback"}
    /\ login' = [l \in Logins |-> IF login[l] = "digesting" THEN "sent" ELSE login[l]]
    /\ exchange' = "off" /\ tokens' = NoTokens
    /\ UNCHANGED <<place, at, target, storage, code, overlapped>>

Answers == CompleteLogin \/ TokensAnswered \/ TokensFailed \/ Federated \/ Identified

SignInNext ==
    \/ \E l \in Logins : BeginLogin(l) \/ Redirects(l)
    \/ Leaves \/ Consents \/ Declines \/ OpensAnother \/ Answers \/ Reloads

SignInSpec == SignInInit /\ [][SignInNext]_signInVars /\ WF_signInVars(Answers)
-----------------------------------------------------------------------------
\* The types of the variables.
SignInTypeOK ==
    /\ place \in {"app", "leaving", "globus", "callback"} /\ {at, target} \subseteq {0} \cup Logins
    /\ login \in [Logins -> {"none", "digesting", "sent"}]
    /\ storage \in {0} \cup Logins /\ code \in [Logins -> {"none", "fresh", "spent"}]
    /\ exchange \in {"off", "asked", "federating", "identifying", "connected", "refused", "failed"}
    /\ overlapped \subseteq Logins

\* Only a login this tab began is exchanged, not one of another tab (globus.ts:152).
OnlyOwnLoginIsExchanged ==
    place = "callback" /\ exchange \in {"asked", "federating", "identifying"} => at # 0

(***************************************************************************)
(* The user who consented is refused only if the login crossed another,    *)
(* or its code is spent.                                                   *)
(***************************************************************************)
ConsentIsAccepted ==
    exchange = "refused" /\ place = "callback" /\ at # 0 => at \in overlapped \/ code[at] = "spent"

(***************************************************************************)
(* An exchange that failed before Globus saw the code can be repeated by   *)
(* loading the page again: nothing of it was thrown away (globus.ts:169).  *)
(***************************************************************************)
FailedExchangeCanBeRepeated ==
    exchange = "failed" /\ place = "callback" /\ at # 0 /\ code[at] = "fresh" => storage = at \/ at \in overlapped

(***************************************************************************)
(* Once connected, a reload does not run the exchange of a spent code      *)
(* again (main.ts:316).                                                    *)
(***************************************************************************)
ReloadIsClean == exchange = "connected" => place # "callback"

(***************************************************************************)
(* Whoever is signed in has a token for the transfers exactly if that was  *)
(* consented to, wherever it stood in the answer (globus.ts:208).          *)
(***************************************************************************)
TransferIsAsConsented ==
    exchange \in {"federating", "identifying", "connected"} =>
        "id" \in tokens.held /\ ("transfer" \in tokens.held <=> "transfer" \in tokens.granted)

(***************************************************************************)
(* A page that comes back from Globus says in the end how the sign-in      *)
(* went, or is left, unless the user reloads it for ever.                  *)
(***************************************************************************)
EverySignInIsAnswered ==
    <>[][~Reloads]_signInVars =>
        []<>(place = "callback" => exchange \in {"connected", "refused", "failed"})

(***************************************************************************)
(* A sign-in exchanges its own login's code and no other, is not refused   *)
(* to the user who gave it unless two crossed, can be repeated after a     *)
(* failure but not after a success, and holds the tokens consented to.     *)
(***************************************************************************)
SignInIsSafe ==
    /\ SignInTypeOK /\ OnlyOwnLoginIsExchanged /\ ConsentIsAccepted
    /\ FailedExchangeCanBeRepeated /\ ReloadIsClean
    /\ TransferIsAsConsented
=============================================================================
