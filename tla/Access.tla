------------------------------- MODULE Access ------------------------------
(***************************************************************************)
(* Who is let in: the tokens of app/auth.py, the API keys of               *)
(* app/security.py, and require_jwt_or_api_key, which every route of       *)
(* main.py depends on with the roles it allows.                            *)
(*                                                                         *)
(* Nothing of a session is kept on the server: a token stands for itself   *)
(* until it expires, and a refresh token makes a new pair as often as it   *)
(* is used.  Settings come from the environment, and every one of them may *)
(* be another after a restart: the flags, the secrets (which the two kinds *)
(* of token share by default), the lives of tokens, the API keys.          *)
(***************************************************************************)
EXTENDS Integers, FiniteSets

CONSTANTS Users, UserRole,   \* _IN_MEMORY_USERS
          Keys,              \* the keys clients hold
          ApiKeys,           \* what API_KEYS may list: keys, with a role as spelt
          Secrets,
          AccessLives,       \* what JWT_EXPIRE_MINUTES may be, in ticks
          RefreshLives,      \* what REFRESH_TOKEN_EXPIRE_MINUTES may be
          MaxLife,           \* bound of both
          MaxTokens          \* bound of the model: live tokens at a time

Role == {"viewer", "operator", "admin"}

Nobody  == "nobody"
Service == "service"
Anonymous == "anonymous"

ASSUME AccessAssumption ==
    /\ UserRole \in [Users -> Role]
    /\ {Nobody, Service, Anonymous} \cap Users = {}
    /\ \A listed \in ApiKeys : DOMAIN listed \subseteq Keys
    /\ MaxLife \in Nat
    /\ AccessLives \subseteq 0 .. MaxLife /\ RefreshLives \subseteq 0 .. MaxLife

(* The routes by the roles they allow, one of each sort.                   *)
Endpoint == {"tasks", "verify", "analyze"}

Allowed(e) == CASE e = "tasks"   -> {"viewer"}
                [] e = "verify"  -> {"operator", "admin"}
                [] e = "analyze" -> Role

VARIABLES
    settings,  \* the environment the process was started with
    tokens,    \* the tokens that have not expired, in whatever hands
    promised,  \* history: what is left of the longest expires_in and
               \* refresh_expires_in a user was told, RunOut when nothing is
    decision   \* history: how the last request ended

vars == <<settings, tokens, promised, decision>>

Settings == [auth : BOOLEAN, keys : BOOLEAN, api_keys : ApiKeys,
             jwt : Secrets, refresh : Secrets,
             access_life : AccessLives, refresh_life : RefreshLives]

Kind == {"access", "refresh"}

LivesOf(kind) == IF kind = "access" THEN AccessLives ELSE RefreshLives

RunOut == -1

Left == RunOut .. MaxLife

Token == [kind : Kind, user : Users, role : Role, secret : Secrets, left : 0 .. MaxLife]

(* left: what was left of the time promised to the user who was let in.    *)
Decision == [status : {"none", "in", "renewed", "401", "403"},
             user : Users \cup {Nobody, Service, Anonymous},
             role : Role,
             endpoint : Endpoint \cup {"auth"},
             left : Left]

TypeOK == /\ settings \in Settings
          /\ tokens \subseteq Token
          /\ \A t \in tokens : \E life \in LivesOf(t.kind) : t.left <= life
          /\ promised \in [Users -> [Kind -> Left]]
          /\ decision \in Decision

Ended(status, user, role, endpoint, left) ==
    [status |-> status, user |-> user, role |-> role, endpoint |-> endpoint, left |-> left]

Refused(status, endpoint) == Ended(status, Nobody, "viewer", endpoint, RunOut)

Init == /\ settings \in Settings
        /\ tokens = {}
        /\ promised = [u \in Users |-> [kind \in Kind |-> RunOut]]
        /\ decision = Refused("none", "auth")

-----------------------------------------------------------------------------
(* /auth/token and /auth/refresh.                                          *)

Life(kind) == IF kind = "access" THEN settings.access_life ELSE settings.refresh_life

(* Mutant: a token lives a tick too long.                                  *)
TokenWithGrace(kind, u, role) ==
    [kind |-> kind, user |-> u, role |-> role, left |-> Life(kind) + 1,
     secret |-> IF kind = "access" THEN settings.jwt ELSE settings.refresh]

(* _create_access_token, _create_refresh_token.                            *)
TokenFor(kind, u, role) ==
    [kind |-> kind, user |-> u, role |-> role, left |-> Life(kind),
     secret |-> IF kind = "access" THEN settings.jwt ELSE settings.refresh]

(* The new pair, and the two lives the answer names.                       *)
Mint(u, role) ==
    /\ tokens' = tokens \cup {TokenFor("access", u, role), TokenFor("refresh", u, role)}
    /\ Cardinality(tokens') <= MaxTokens
    /\ promised' = [promised EXCEPT ![u] =
                        [kind \in Kind |-> IF @[kind] > Life(kind) THEN @[kind] ELSE Life(kind)]]
    /\ UNCHANGED settings

LogIn(u) ==
    /\ settings.auth
    /\ Mint(u, UserRole[u])
    /\ decision' = Ended("renewed", u, UserRole[u], "auth", Life("refresh"))

Renewable == {t \in tokens : t.secret = settings.refresh /\ t.kind = "refresh"}

(* Mutant: the new pair is made for a viewer.                              *)
RenewAsViewer(t) ==
    /\ settings.auth
    /\ t \in Renewable
    /\ Mint(t.user, "viewer")
    /\ decision' = Ended("renewed", t.user, "viewer", "auth", promised[t.user]["refresh"])

(* The old refresh token stays good; the role is the token's.              *)
Renew(t) ==
    /\ settings.auth
    /\ t \in Renewable
    /\ Mint(t.user, t.role)
    /\ decision' = Ended("renewed", t.user, t.role, "auth", promised[t.user]["refresh"])

(* Wrong credentials, no refresh token, or authentication disabled.        *)
RefuseTokens ==
    /\ decision' = Refused(IF settings.auth THEN "401" ELSE "403", "auth")
    /\ UNCHANGED <<settings, tokens, promised>>

-----------------------------------------------------------------------------
(* require_jwt_or_api_key for endpoint e.  b and k are the token and the   *)
(* key of the request; either may be missing, which is what a malformed or *)
(* expired token and an unknown key amount to.                             *)

(* Mutant: the type claim of a bearer token is not looked at.              *)
RecognisedOfAnyKind(b) == {t \in b : settings.auth /\ t.secret = settings.jwt}

Recognised(b) ==
    {t \in b : settings.auth /\ t.secret = settings.jwt /\ t.kind = "access"}

(* The key counts if it is listed, and no access token was recognised.     *)
Considered(b, k) ==
    IF settings.keys /\ Recognised(b) = {} THEN k \cap DOMAIN settings.api_keys ELSE {}

(* _parse_api_keys: no role, or one it does not know, makes a viewer.      *)
RoleOfKey(key) ==
    IF settings.api_keys[key] \in Role THEN settings.api_keys[key] ELSE "viewer"

Judge(e, user, role, left) ==
    decision' = IF role \in Allowed(e) THEN Ended("in", user, role, e, left)
                                       ELSE Refused("403", e)

Open == ~settings.auth /\ ~settings.keys

LetAnyoneIn(e) ==
    /\ Open
    /\ decision' = Ended("in", Anonymous, "viewer", e, RunOut)

JudgeToken(e, b) ==
    \E t \in Recognised(b) : Judge(e, t.user, t.role, promised[t.user]["access"])

JudgeKey(e, b, k) ==
    \E key \in Considered(b, k) : Judge(e, Service, RoleOfKey(key), RunOut)

TurnAway(e, b, k) ==
    /\ ~Open /\ Recognised(b) = {} /\ Considered(b, k) = {}
    /\ decision' = Refused("401", e)

Request(e, b, k) ==
    /\ \/ LetAnyoneIn(e)
       \/ JudgeToken(e, b)
       \/ JudgeKey(e, b, k)
       \/ TurnAway(e, b, k)
    /\ UNCHANGED <<settings, tokens, promised>>

AtMostOne(S) == {{}} \cup {{x} : x \in S}

-----------------------------------------------------------------------------
Tick == /\ tokens' = {[t EXCEPT !.left = @ - 1] : t \in {u \in tokens : u.left > 0}}
        /\ promised' = [u \in Users |-> [kind \in Kind |->
                            IF promised[u][kind] > RunOut THEN promised[u][kind] - 1
                                                          ELSE RunOut]]
        /\ UNCHANGED <<settings, decision>>

(* A new process, perhaps with other settings; tokens are not its state.   *)
Restart == /\ settings' \in Settings
           /\ UNCHANGED <<tokens, promised, decision>>

Next == \/ \E u \in Users : LogIn(u)
        \/ \E t \in tokens : Renew(t)
        \/ RefuseTokens
        \/ \E e \in Endpoint, b \in AtMostOne(tokens), k \in AtMostOne(Keys) :
              Request(e, b, k)
        \/ Tick
        \/ Restart

Spec == Init /\ [][Next]_vars

-----------------------------------------------------------------------------
(***************************************************************************)
(* A session ends when its user was told it would: nobody is let in with a *)
(* token after every expires_in that /auth/token and /auth/refresh told    *)
(* the user has run out, and no pair is renewed after every                *)
(* refresh_expires_in has, whatever secrets the two kinds of token share   *)
(* and whatever lives a restart brings.                                    *)
(***************************************************************************)
SessionsEnd ==
    decision.status \in {"in", "renewed"} /\ decision.user \in Users
        => decision.left > RunOut

(***************************************************************************)
(* Nobody acts in a role that is not theirs: through any number of         *)
(* refreshes a user keeps the role of the user store, a route is entered   *)
(* in a role it allows, and only an open server knows no names.            *)
(***************************************************************************)
AdmittedInRole ==
    /\ decision.user \in Users => decision.role = UserRole[decision.user]
    /\ decision.status = "in" =>
           decision.user = Anonymous \/ decision.role \in Allowed(decision.endpoint)
=============================================================================
