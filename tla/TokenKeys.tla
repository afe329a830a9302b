----------------------------- MODULE TokenKeys -----------------------------
(***************************************************************************)
(* internal/auth: the authentication middleware, ValidateToken and the     *)
(* JWKS cache it takes its keys from, while the issuer rotates its keys.   *)
(*                                                                         *)
(* Refresh fetches without the lock and replaces all keys when the answer  *)
(* is in; requests that miss a key and the refresh loop do so side by      *)
(* side.  Cryptography is reduced to who signed a token.                   *)
(***************************************************************************)
EXTENDS Integers, FiniteSets

CONSTANTS
    Kid,            \* IDs of the keys the issuer may publish
    Request, Loop,  \* goroutines that serve requests; the refresh loop
    Secret, Static, \* a shared secret, a static key (publicKeys["default"]) is configured
    Tokens,         \* the tokens that requests come with
    MaxRotations,   \* bound: how often the issuer rotates
    NoKid

ASSUME KeysAssumption ==
    Secret \in BOOLEAN /\ Static \in BOOLEAN /\ MaxRotations \in Nat /\ NoKid \notin Kid /\ Loop \notin Request

VARIABLES
    published,    \* what the endpoint answers
    keys,         \* JWKSCache.keys
    loopOn,       \* the loop's context is alive
    caller,       \* where each request, and the loop, is
    fetched,      \* the keys a Refresh has fetched and not stored yet
    token,        \* the token of each request
    requirement,  \* AuthRequirement of its endpoint
    verdict,      \* what became of the request
    rotations,    \* bound
    disturbed     \* history: requests that met a failed fetch, a withdrawn key, or a Refresh begun earlier

keysVars == <<published, keys, loopOn, caller, fetched, token, requirement, verdict, rotations,
              disturbed>>

Refresher == Request \cup {Loop}
Requirement == {"required", "optional", "public"}
\* signer: the key that made the signature, "secret" or "static".
Token ==
    [alg : {"HS", "RS", "other"}, kid : Kid \cup {NoKid}, signer : Kid \cup {"secret", "static"},
     fault : {"none", "expired", "issuer", "audience"}]
ASSUME TokensAssumption == Tokens \subseteq Token

NoToken == [alg |-> "none", kid |-> NoKid, signer |-> "none", fault |-> "none"]
\* The answers of ValidateToken that the middleware tells apart.
Error == {"ErrInvalidToken", "ErrExpiredToken", "ErrInvalidIssuer", "ErrInvalidAudience"}
Verdict == {"none", "user", "anonymous", "401"} \cup Error

KeysTypeOK ==
    /\ published \subseteq Kid /\ keys \subseteq Kid /\ loopOn \in BOOLEAN
    /\ caller \in [Refresher -> {"idle", "cached", "fetch", "store", "lookup", "done"}]
    /\ fetched \in [Refresher -> SUBSET Kid]
    /\ token \in [Request -> Token \cup {NoToken}]
    /\ requirement \in [Request -> Requirement] /\ verdict \in [Request -> Verdict]
    /\ rotations \in 0..MaxRotations /\ disturbed \subseteq Request

\* NewValidator loads the keys before it returns.
KeysInit ==
    /\ published \in SUBSET Kid /\ keys = published
    /\ loopOn = FALSE
    /\ caller = [r \in Refresher |-> "idle"]
    /\ fetched = [r \in Refresher |-> {}]
    /\ token = [r \in Request |-> NoToken]
    /\ requirement = [r \in Request |-> "public"] /\ verdict = [r \in Request |-> "none"]
    /\ rotations = 0 /\ disturbed = {}

-----------------------------------------------------------------------------
\* The issuer withdraws and adds keys.
Rotate(new) ==
    /\ rotations < MaxRotations /\ rotations' = rotations + 1
    /\ published' = new
    /\ disturbed' = disturbed \cup {r \in Request : token[r].kid \notin new}
    /\ UNCHANGED <<keys, loopOn, caller, fetched, token, requirement, verdict>>

\* What the middleware makes of an error.
Refused(r, err) == IF requirement[r] = "required" THEN err ELSE "anonymous"

\* The signature is checked first, then the claims, then issuer and audience.
Judge(r, key) ==
    IF key # token[r].signer THEN Refused(r, "ErrInvalidToken")
    ELSE CASE token[r].fault = "none"     -> "user"
           [] token[r].fault = "expired"  -> Refused(r, "ErrExpiredToken")
           [] token[r].fault = "issuer"   -> Refused(r, "ErrInvalidIssuer")
           [] token[r].fault = "audience" -> Refused(r, "ErrInvalidAudience")

\* publicKeys holds at most the key under "default".
StaticKey == IF Static THEN "static" ELSE "none"

Finish(r, result) ==
    /\ verdict' = [verdict EXCEPT ![r] = result]
    /\ caller' = [caller EXCEPT ![r] = "done"]

\* Authenticate up to the lookup in the cache.
Authenticate(r, tok, need) ==
    /\ caller[r] = "idle"
    /\ token' = [token EXCEPT ![r] = tok]
    /\ requirement' = [requirement EXCEPT ![r] = need]
    /\ IF need = "public" THEN Finish(r, "anonymous")
       ELSE IF tok = NoToken THEN Finish(r, IF need = "required" THEN "401" ELSE "anonymous")
       ELSE caller' = [caller EXCEPT ![r] = "cached"] /\ UNCHANGED verdict
    /\ disturbed' = IF tok.kid \in published /\ \A q \in Refresher : caller[q] # "store"
                    THEN disturbed \ {r} ELSE disturbed \cup {r}
    /\ UNCHANGED <<published, keys, loopOn, fetched, rotations>>

\* getKey, and GetKey up to Refresh.
GetKey(r) ==
    /\ caller[r] = "cached"
    /\ CASE token[r].alg = "HS"        -> Finish(r, Judge(r, IF Secret THEN "secret" ELSE "none"))
         [] token[r].alg = "other"     -> Finish(r, Judge(r, "none"))
         [] token[r].alg = "RS" /\ token[r].kid \in keys -> Finish(r, Judge(r, token[r].kid))
         [] token[r].alg = "RS" /\ token[r].kid \notin keys ->
              caller' = [caller EXCEPT ![r] = "fetch"] /\ UNCHANGED verdict
    /\ UNCHANGED <<published, keys, loopOn, fetched, token, requirement, rotations, disturbed>>

StartJWKSRefresh ==
    /\ ~loopOn
    /\ loopOn' = TRUE
    /\ UNCHANGED <<published, keys, caller, fetched, token, requirement, verdict, rotations, disturbed>>

\* A tick of the loop.
RefreshTick ==
    /\ loopOn /\ caller[Loop] = "idle"
    /\ caller' = [caller EXCEPT ![Loop] = "fetch"]
    /\ UNCHANGED <<published, keys, loopOn, fetched, token, requirement, verdict, rotations, disturbed>>

\* The answer of the endpoint; keys that are not RSA or do not parse are not in it.
Fetch(r, ok) ==
    /\ caller[r] = "fetch"
    /\ fetched' = [fetched EXCEPT ![r] = IF ok THEN published ELSE {}]
    /\ IF ok THEN caller' = [caller EXCEPT ![r] = "store"] /\ UNCHANGED verdict
       ELSE IF r = Loop THEN caller' = [caller EXCEPT ![r] = "idle"] /\ UNCHANGED verdict
       ELSE Finish(r, Judge(r, StaticKey))
    /\ disturbed' = IF ok THEN disturbed ELSE disturbed \cup ({r} \cap Request)
    /\ UNCHANGED <<published, keys, loopOn, token, requirement, rotations>>

\* Wrong on purpose: new keys are added, withdrawn ones stay.
MergedKeys(new) == keys \cup new

\* Wrong on purpose: keys of which there is one already are taken, new ones are not.
KnownKeys(new) == IF keys = {} THEN new ELSE keys \cap new

NewKeys(new) == new

Store(r) ==
    /\ caller[r] = "store"
    /\ keys' = NewKeys(fetched[r])
    /\ fetched' = [fetched EXCEPT ![r] = {}]
    /\ caller' = [caller EXCEPT ![r] = IF r = Loop THEN "idle" ELSE "lookup"]
    /\ UNCHANGED <<published, loopOn, token, requirement, verdict, rotations, disturbed>>

Lookup(r) ==
    /\ caller[r] = "lookup"
    /\ Finish(r, Judge(r, IF token[r].kid \in keys THEN token[r].kid ELSE StaticKey))
    /\ UNCHANGED <<published, keys, loopOn, fetched, token, requirement, rotations, disturbed>>

\* The request is over and another one comes; a request that runs may be disturbed by its key.
Again(r) ==
    /\ caller[r] = "done"
    /\ caller' = [caller EXCEPT ![r] = "idle"]
    /\ token' = [token EXCEPT ![r] = NoToken]
    /\ requirement' = [requirement EXCEPT ![r] = "public"] /\ verdict' = [verdict EXCEPT ![r] = "none"]
    /\ disturbed' = disturbed \ {r}
    /\ UNCHANGED <<published, keys, loopOn, fetched, rotations>>

\* The context of the loop ends, between two refreshes.
StopLoop ==
    /\ loopOn /\ caller[Loop] = "idle"
    /\ loopOn' = FALSE
    /\ UNCHANGED <<published, keys, caller, fetched, token, requirement, verdict, rotations, disturbed>>

RefreshStep(r) == Store(r) \/ \E ok \in BOOLEAN : Fetch(r, ok)
RequestStep(r) == GetKey(r) \/ Lookup(r) \/ RefreshStep(r)

KeysNext ==
    \/ \E new \in SUBSET Kid : Rotate(new)
    \/ \E r \in Request : \/ RequestStep(r) \/ Again(r)
                          \/ \E need \in Requirement, tok \in Tokens \cup {NoToken} : Authenticate(r, tok, need)
    \/ StartJWKSRefresh \/ RefreshTick \/ RefreshStep(Loop) \/ StopLoop

KeysSpec == KeysInit /\ [][KeysNext]_keysVars

\* Goroutines run on, the ticker ticks, and the endpoint does not fail every time.
KeysFairness ==
    /\ WF_keysVars(RefreshTick) /\ WF_keysVars(Store(Loop)) /\ SF_keysVars(Fetch(Loop, TRUE))
    /\ WF_keysVars(\E ok \in BOOLEAN : Fetch(Loop, ok))
    /\ \A r \in Request : WF_keysVars(RequestStep(r))

-----------------------------------------------------------------------------
(* Properties *)

\* A token with nothing wrong, signed by a key that was published before the request
\* and all through it, is accepted even if the cache did not know the key: unless
\* the endpoint failed, or a Refresh that had fetched earlier stored later.
NewKeyAccepted ==
    /\ KeysTypeOK
    /\ \A r \in Request \ disturbed :
          caller[r] = "done" /\ token[r].alg = "RS" /\ token[r].signer = token[r].kid
            /\ token[r].fault = "none" /\ requirement[r] # "public" => verdict[r] = "user"

\* When the issuer rotates no more, the cache ends up with exactly its keys, whatever
\* older answers were stored out of order, if the refresh loop keeps running.
KeysConverge == <>[](loopOn) => <>[](keys = published)
=============================================================================
