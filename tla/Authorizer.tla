---------------------------- MODULE Authorizer ----------------------------
(***************************************************************************)
(* Who is let in.  API Gateway asks the authorizer Lambda about a key and  *)
(* keeps the answer, allow or deny, for 300 seconds.  The authorizer looks *)
(* the key up, then checks the license: a signed token in an SSM parameter *)
(* that each of its containers caches until the token expires.  The        *)
(* license_refresh Lambda, run daily, replaces the token by what the       *)
(* license server answers; keys come and go by the auth Lambda.            *)
(***************************************************************************)
EXTENDS Naturals

CONSTANTS
    Keys,
    Org,          \* the organization setup-env.sh creates; no operation adds another
    FirstKey,     \* the key setup-env.sh creates
    Containers,   \* containers of the authorizer
    Licenses,     \* licenses on paid plans: <<organization, serial number>>
    Lasting,      \* those whose token names no expiry
    None

ASSUME AuthorizerAssumption ==
    /\ FirstKey \in Keys
    /\ None \notin Keys \cup {Org}
    /\ \A l \in Licenses : l[2] \in Nat \ {0}
    /\ Lasting \subseteq Licenses

\* License tokens.  The trial, and the sentinel for a trial that is over, are for
\* no organization.
TokenFor(l) == [plan |-> "paid", org |-> l[1], serial |-> l[2]]
Tokens == {TokenFor(l) : l \in Licenses}
          \cup [plan : {"trial", "trial_expired"}, org : {None}, serial : {0}]

Placeholder == [plan |-> "placeholder", org |-> None, serial |-> 0]
NoToken     == [plan |-> "none", org |-> None, serial |-> 0]

\* The token has an exp claim.
Expires(t) == t \notin {TokenFor(l) : l \in Lasting}

VARIABLES
    key,          \* "none", "live", or "dead": revoked or past expires_at
    policy,       \* what the gateway has cached for a key: "none", "allow", "deny"
    cached,       \* cachedJWT of a container; cachedExp is the expiry of the token
    job,          \* the valid key a container checks the license for
    fetched,      \* the parameter as that container has read it, NoToken before
    ssm,          \* the parameter /ngx/license-token
    setup,        \* setup-env.sh has seen no license and is about to write one
    expired,      \* tokens that have expired
    refresh       \* the token license_refresh has read, NoToken while it does not run

vars == <<key, policy, cached, job, fetched, ssm, setup, expired, refresh>>

Init ==
    /\ key = [k \in Keys |-> IF k = FirstKey THEN "live" ELSE "none"]
    /\ policy = [k \in Keys |-> "none"]
    /\ cached = [c \in Containers |-> NoToken]
    /\ job = [c \in Containers |-> None]
    /\ fetched = [c \in Containers |-> NoToken]
    /\ ssm = Placeholder
    /\ setup = FALSE
    /\ expired = {}
    /\ refresh = NoToken

-----------------------------------------------------------------------------
(* Keys.  Both operations need an admin key that is let in. *)

CreateKey(admin, k) ==
    /\ policy[admin] = "allow"
    /\ key[k] = "none"
    /\ key' = [key EXCEPT ![k] = "live"]
    /\ UNCHANGED <<policy, cached, job, fetched, ssm, setup, expired, refresh>>

\* revokeKey; the key the request comes with may be the one it revokes.
RevokeKey(admin, k) ==
    /\ policy[admin] = "allow"
    /\ key[k] = "live"
    /\ key' = [key EXCEPT ![k] = "dead"]
    /\ UNCHANGED <<policy, cached, job, fetched, ssm, setup, expired, refresh>>

ExpireKey(k) ==
    /\ key[k] = "live"
    /\ key' = [key EXCEPT ![k] = "dead"]
    /\ UNCHANGED <<policy, cached, job, fetched, ssm, setup, expired, refresh>>

-----------------------------------------------------------------------------
(* The authorizer *)

\* Mutant: revoked_at is not looked at.
ValidKey_AnyRow(k) == key[k] # "none"

ValidKey(k) == key[k] = "live"

\* A request comes with a key the gateway knows nothing about.
ValidateKey(c, k) ==
    /\ policy[k] = "none"
    /\ job[c] = None
    /\ ValidKey(k)
    /\ job' = [job EXCEPT ![c] = k]
    /\ UNCHANGED <<key, policy, cached, fetched, ssm, setup, expired, refresh>>

\* The key is not valid, or the lookup fails: any error of it denies.
DenyKey(k) ==
    /\ policy[k] = "none"
    /\ \E c \in Containers : job[c] = None
    /\ policy' = [policy EXCEPT ![k] = "deny"]
    /\ UNCHANGED <<key, cached, job, fetched, ssm, setup, expired, refresh>>

\* Mutant: a cached token is used for good.
UseCache_Forever(c) == cached[c] # NoToken

\* checkLicense, under licenseMu.
UseCache(c) == cached[c] # NoToken /\ cached[c] \notin expired

\* The token of the check, NoToken before the parameter is read.
TokenOf(c)  == IF UseCache(c) THEN cached[c] ELSE fetched[c]

\* What a token must be to let the organization in; parsing it rejects what has
\* expired, and the placeholder.
Grants(t) ==
    /\ t \in Tokens \ expired
    /\ t.plan # "trial_expired"
    /\ t.plan = "trial" \/ t.org = Org

\* GetParameter, without a token in the cache.
FetchToken(c) ==
    /\ job[c] # None
    /\ TokenOf(c) = NoToken
    /\ fetched' = [fetched EXCEPT ![c] = ssm]
    /\ UNCHANGED <<key, policy, cached, job, ssm, setup, expired, refresh>>

\* The check is over: the key gets its answer.
Answer(c, answer) ==
    /\ policy' = [policy EXCEPT ![job[c]] = answer]
    /\ job' = [job EXCEPT ![c] = None]
    /\ fetched' = [fetched EXCEPT ![c] = NoToken]
    /\ UNCHANGED <<key, ssm, setup, expired, refresh>>

\* Only a verified token is cached, and only one that says when it expires.  The
\* revocation check of a cold start only logs.
CheckLicense(c) ==
    LET t == TokenOf(c) IN
    /\ job[c] # None
    /\ t # NoToken
    /\ IF Grants(t)
       THEN /\ Answer(c, "allow")
            /\ cached' = IF Expires(t) THEN [cached EXCEPT ![c] = t] ELSE cached
       ELSE Answer(c, "deny") /\ UNCHANGED cached

\* GetParameter fails.
FetchFails(c) ==
    /\ job[c] # None
    /\ TokenOf(c) = NoToken
    /\ Answer(c, "deny")
    /\ UNCHANGED cached

-----------------------------------------------------------------------------
(* license_refresh *)

ReadToken ==
    /\ refresh = NoToken
    /\ refresh' = ssm
    /\ UNCHANGED <<key, policy, cached, job, fetched, ssm, setup, expired>>

\* What the license server may answer: a renewed or upgraded token, or 402 with the
\* sentinel.  For the placeholder a trial is asked for.
Answers(t) ==
    {u \in Tokens \ expired :
        CASE t.plan = "placeholder" -> u.plan # "paid"
          [] t.plan = "paid"        -> u.plan = "trial_expired" \/ u.org = t.org
          [] OTHER                  -> TRUE}

WriteToken(t) ==
    /\ refresh # NoToken
    /\ t \in Answers(refresh)
    /\ ssm' = t
    /\ refresh' = NoToken
    /\ UNCHANGED <<key, policy, cached, job, fetched, setup, expired>>

\* There is no bootstrap organization yet, the server cannot be reached, refuses or
\* sends no token, the write fails, or the Lambda dies.
RefreshFails ==
    /\ refresh # NoToken
    /\ refresh' = NoToken
    /\ UNCHANGED <<key, policy, cached, job, fetched, ssm, setup, expired>>

-----------------------------------------------------------------------------
(* Around them *)

\* setup-env.sh leaves a license alone; without one, and also if it cannot read the
\* parameter, it activates a paid license or a trial, while license_refresh may do
\* the same.
SetupReads ==
    /\ ~ setup
    /\ setup' = TRUE
    /\ UNCHANGED <<key, policy, cached, job, fetched, ssm, expired, refresh>>

SetupWrites(t) ==
    /\ setup /\ t.plan # "trial_expired" /\ t \notin expired
    /\ ssm' = t
    /\ setup' = FALSE
    /\ UNCHANGED <<key, policy, cached, job, fetched, expired, refresh>>

SetupFails ==
    /\ setup
    /\ setup' = FALSE
    /\ UNCHANGED <<key, policy, cached, job, fetched, ssm, expired, refresh>>

\* The gateway forgets an answer after its 300 seconds.
PolicyExpires(k) ==
    /\ policy[k] # "none"
    /\ policy' = [policy EXCEPT ![k] = "none"]
    /\ UNCHANGED <<key, cached, job, fetched, ssm, setup, expired, refresh>>

TokenExpires(t) ==
    /\ t \notin expired
    /\ Expires(t)
    /\ expired' = expired \cup {t}
    /\ UNCHANGED <<key, policy, cached, job, fetched, ssm, setup, refresh>>

\* A container ends, answering nothing, and a new one takes its place.
ContainerEnds(c) ==
    /\ cached' = [cached EXCEPT ![c] = NoToken]
    /\ job' = [job EXCEPT ![c] = None]
    /\ fetched' = [fetched EXCEPT ![c] = NoToken]
    /\ UNCHANGED <<key, policy, ssm, setup, expired, refresh>>

-----------------------------------------------------------------------------
Next ==
    \/ \E a, k \in Keys : CreateKey(a, k) \/ RevokeKey(a, k)
    \/ \E k \in Keys : ExpireKey(k) \/ DenyKey(k) \/ PolicyExpires(k)
    \/ \E c \in Containers :
          \/ \E k \in Keys : ValidateKey(c, k)
          \/ FetchToken(c) \/ CheckLicense(c) \/ FetchFails(c) \/ ContainerEnds(c)
    \/ ReadToken \/ RefreshFails \/ SetupReads \/ SetupFails
    \/ \E t \in Tokens : WriteToken(t) \/ SetupWrites(t) \/ TokenExpires(t)

Spec == Init /\ [][Next]_vars

\* The client of a key keeps asking, and the gateway forgets its answers.  Other
\* keys may keep a container busy, and SSM may fail or a container end, but not at
\* every check of the key for ever: hence strong fairness.
FairSpec ==
    /\ Spec
    /\ \A k \in Keys :
          /\ WF_vars(PolicyExpires(k))
          /\ SF_vars(\E c \in Containers : ValidateKey(c, k))
          /\ \A c \in Containers : /\ SF_vars(job[c] = k /\ FetchToken(c))
                                  /\ SF_vars(job[c] = k /\ CheckLicense(c))

-----------------------------------------------------------------------------
\* A revoked key stays out.  Once the gateway has forgotten what it was told, and
\* no container is past the lookup of the key, nothing lets the key in again: no
\* cache, late answer or renewal.
Out(k) ==
    /\ key[k] = "dead"
    /\ policy[k] # "allow"
    /\ \A c \in Containers : job[c] # k

RevokedStaysOut == [][\A k \in Keys : Out(k) => Out(k)']_vars

\* If a key stays valid and SSM keeps a license that grants the organization, the
\* key is let in again and again: a container gets over a token that expires while
\* it is cached, and over answers that denied.
LicenseServes == \A k \in Keys :
    <>[](key[k] = "live" /\ Grants(ssm)) => []<>(policy[k] = "allow")
=============================================================================
