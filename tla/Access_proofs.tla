---------------------------- MODULE Access_proofs --------------------------
(***************************************************************************)
(* Proofs about Access, for any users, keys and secrets, and any change of *)
(* flags, keys, secrets and lives at a restart.                            *)
(***************************************************************************)
EXTENDS Access, TLAPS

(***************************************************************************)
(* The inductive invariant: a token expires no later than its user was     *)
(* told of its kind, whatever the settings were when it was made, and it   *)
(* carries the role of the user store.                                     *)
(***************************************************************************)
TokensPromised == \A t \in tokens : t.left <= promised[t.user][t.kind]

TokensKeepRole == \A t \in tokens : t.role = UserRole[t.user]

IInv == TypeOK /\ TokensPromised /\ TokensKeepRole /\ SessionsEnd /\ AdmittedInRole

(***************************************************************************)
(* RunOut is below every life.                                             *)
(***************************************************************************)
LEMMA Lives ==
    /\ MaxLife \in Nat /\ RunOut \in Int
    /\ RunOut \in Left /\ 0 .. MaxLife \subseteq Left
    /\ \A x \in Left : x \in Int /\ (x # RunOut => x > RunOut)
    /\ \A x \in 0 .. MaxLife : x > RunOut
BY AccessAssumption DEF RunOut, Left

LEMMA LivesInBounds ==
    \A kind \in Kind : LivesOf(kind) \subseteq 0 .. MaxLife
BY AccessAssumption DEF LivesOf

LEMMA LifeNow ==
    ASSUME settings \in Settings, NEW kind \in Kind
    PROVE  /\ Life(kind) \in LivesOf(kind) /\ Life(kind) \in 0 .. MaxLife
           /\ Life(kind) \in Left /\ Life(kind) > RunOut
<1>1. Life(kind) \in LivesOf(kind)
  BY DEF Life, LivesOf, Settings
<1>. QED BY <1>1, LivesInBounds, Lives

LEMMA RolesOfUsers ==
    \A u \in Users : UserRole[u] \in Role /\ u \notin {Nobody, Service, Anonymous}
BY AccessAssumption

LEMMA TokenParts ==
    ASSUME IInv, NEW t \in tokens
    PROVE  /\ t \in Token
           /\ t.kind \in Kind /\ t.user \in Users
           /\ t.role \in Role /\ t.role = UserRole[t.user]
           /\ t.left \in 0 .. MaxLife
           /\ \E life \in LivesOf(t.kind) : t.left <= life
           /\ promised[t.user][t.kind] \in Left
           /\ t.left <= promised[t.user][t.kind]
           /\ promised[t.user][t.kind] > RunOut
<1>1. /\ t \in Token /\ t.role = UserRole[t.user]
      /\ \E life \in LivesOf(t.kind) : t.left <= life
      /\ t.left <= promised[t.user][t.kind]
      /\ promised \in [Users -> [Kind -> Left]]
  BY DEF IInv, TypeOK, TokensPromised, TokensKeepRole
<1>2. /\ t.kind \in Kind /\ t.user \in Users
      /\ t.role \in Role /\ t.left \in 0 .. MaxLife
  BY <1>1 DEF Token
<1>3. promised[t.user][t.kind] \in Left
  BY <1>1, <1>2
<1>4. t.left \in Nat
  BY <1>2, Lives
<1>5. promised[t.user][t.kind] \in Int
  BY <1>3, Lives
<1>6. promised[t.user][t.kind] > RunOut
  BY <1>1, <1>4, <1>5 DEF RunOut
<1>. QED BY <1>1, <1>2, <1>3, <1>6

LEMMA Initially == Init => IInv
<1>. SUFFICES ASSUME Init PROVE IInv
  OBVIOUS
<1>1. promised \in [Users -> [Kind -> Left]]
  BY Lives DEF Init
<1>2. decision \in Decision
  BY Lives DEF Init, Refused, Ended, Decision, Role, Nobody
<1>3. TypeOK
  BY <1>1, <1>2 DEF Init, TypeOK
<1>4. TokensPromised /\ TokensKeepRole
  BY DEF Init, TokensPromised, TokensKeepRole
<1>5. /\ decision.status = "none" /\ decision.user = Nobody
  BY DEF Init, Refused, Ended
<1>6. Nobody \notin Users
  BY AccessAssumption
<1>7. SessionsEnd /\ AdmittedInRole
  BY <1>5, <1>6 DEF SessionsEnd, AdmittedInRole
<1>. QED BY <1>3, <1>4, <1>7 DEF IInv

(***************************************************************************)
(* How a request ends.                                                     *)
(***************************************************************************)
LEMMA RefusedFine ==
    ASSUME NEW status \in {"none", "401", "403"}, NEW e \in Endpoint \cup {"auth"},
           decision' = Refused(status, e)
    PROVE  decision' \in Decision /\ SessionsEnd' /\ AdmittedInRole'
<1>1. /\ decision'.status = status /\ decision'.user = Nobody
      /\ decision' \in Decision
  BY Lives DEF Refused, Ended, Decision, Role
<1>2. Nobody \notin Users
  BY AccessAssumption
<1>. QED BY <1>1, <1>2 DEF SessionsEnd, AdmittedInRole

LEMMA JudgedFine ==
    ASSUME NEW e \in Endpoint, NEW user \in Users \cup {Service}, NEW role \in Role,
           NEW left \in Left, Judge(e, user, role, left),
           user \in Users => role = UserRole[user] /\ left > RunOut
    PROVE  decision' \in Decision /\ SessionsEnd' /\ AdmittedInRole'
<1>1. CASE role \in Allowed(e)
  <2>1. /\ decision' = Ended("in", user, role, e, left)
        /\ decision' \in Decision
    BY <1>1 DEF Judge, Ended, Decision
  <2>2. /\ decision'.status = "in" /\ decision'.user = user /\ decision'.role = role
        /\ decision'.endpoint = e /\ decision'.left = left
    BY <2>1 DEF Ended
  <2>. QED BY <1>1, <2>1, <2>2 DEF SessionsEnd, AdmittedInRole
<1>2. CASE role \notin Allowed(e)
  BY <1>2, RefusedFine DEF Judge
<1>. QED BY <1>1, <1>2

LEMMA RequestStep ==
    ASSUME IInv, NEW e \in Endpoint, NEW b \in AtMostOne(tokens),
           NEW k \in AtMostOne(Keys), Request(e, b, k)
    PROVE  IInv'
<1>0. b \subseteq tokens /\ k \subseteq Keys
  BY DEF AtMostOne
<1>1. UNCHANGED <<settings, tokens, promised>>
  BY DEF Request
<1>2. decision' \in Decision /\ SessionsEnd' /\ AdmittedInRole'
  <2>1. CASE LetAnyoneIn(e)
    <3>1. /\ decision' = Ended("in", Anonymous, "viewer", e, RunOut)
      BY <2>1 DEF LetAnyoneIn
    <3>2. /\ decision'.status = "in" /\ decision'.user = Anonymous
      BY <3>1 DEF Ended
    <3>3. decision' \in Decision
      BY <3>1, Lives DEF Ended, Decision, Role
    <3>4. Anonymous \notin Users
      BY AccessAssumption
    <3>. QED BY <3>2, <3>3, <3>4 DEF SessionsEnd, AdmittedInRole
  <2>2. CASE JudgeToken(e, b)
    <3>1. PICK t \in Recognised(b) : Judge(e, t.user, t.role, promised[t.user]["access"])
      BY <2>2 DEF JudgeToken
    <3>2. t \in tokens /\ t.kind = "access"
      BY <1>0 DEF Recognised
    <3>3. /\ t.user \in Users /\ t.role \in Role /\ t.role = UserRole[t.user]
          /\ promised[t.user]["access"] \in Left /\ promised[t.user]["access"] > RunOut
      BY <3>2, TokenParts
    <3>. QED BY <3>1, <3>3, JudgedFine
  <2>3. CASE JudgeKey(e, b, k)
    <3>1. PICK key \in Considered(b, k) : Judge(e, Service, RoleOfKey(key), RunOut)
      BY <2>3 DEF JudgeKey
    <3>2. RoleOfKey(key) \in Role /\ RunOut \in Left
      BY Lives DEF RoleOfKey, Role
    <3>3. Service \notin Users
      BY AccessAssumption
    <3>. QED BY <3>1, <3>2, <3>3, JudgedFine
  <2>4. CASE TurnAway(e, b, k)
    BY <2>4, RefusedFine DEF TurnAway
  <2>. QED BY <2>1, <2>2, <2>3, <2>4 DEF Request
<1>. QED BY <1>1, <1>2 DEF IInv, TypeOK, TokensPromised, TokensKeepRole

-----------------------------------------------------------------------------
(***************************************************************************)
(* New tokens, and time.                                                   *)
(***************************************************************************)
LEMMA NewToken ==
    ASSUME IInv, NEW kind \in Kind, NEW u \in Users, NEW role \in Role
    PROVE  /\ TokenFor(kind, u, role) \in Token
           /\ TokenFor(kind, u, role).kind = kind
           /\ TokenFor(kind, u, role).user = u
           /\ TokenFor(kind, u, role).role = role
           /\ TokenFor(kind, u, role).left = Life(kind)
<1>1. settings \in Settings
  BY DEF IInv, TypeOK
<1>2. settings.jwt \in Secrets /\ settings.refresh \in Secrets
  BY <1>1 DEF Settings
<1>3. Life(kind) \in 0 .. MaxLife
  BY <1>1, LifeNow
<1>. QED BY <1>2, <1>3 DEF TokenFor, Token

(***************************************************************************)
(* What a user was told only grows when a new pair is made.                *)
(***************************************************************************)
LEMMA PromiseGrows ==
    ASSUME IInv, NEW u \in Users, NEW role, Mint(u, role)
    PROVE  /\ promised' \in [Users -> [Kind -> Left]]
           /\ \A v \in Users, kind \in Kind : promised'[v][kind] >= promised[v][kind]
           /\ \A kind \in Kind : promised'[u][kind] >= Life(kind)
<1>0. promised \in [Users -> [Kind -> Left]] /\ settings \in Settings
  BY DEF IInv, TypeOK
<1>. DEFINE Longer(kind) == IF promised[u][kind] > Life(kind) THEN promised[u][kind]
                                                             ELSE Life(kind)
<1>1. promised' = [promised EXCEPT ![u] = [kind \in Kind |-> Longer(kind)]]
  BY DEF Mint
<1>2. \A v \in Users, kind \in Kind : promised[v][kind] \in Left /\ promised[v][kind] \in Int
  BY <1>0, Lives
<1>3. \A kind \in Kind : Life(kind) \in Left /\ Life(kind) \in Int
  BY <1>0, LifeNow, Lives
<1>4. \A kind \in Kind : /\ Longer(kind) \in Left
                        /\ Longer(kind) >= promised[u][kind] /\ Longer(kind) >= Life(kind)
  BY <1>2, <1>3
<1>. HIDE DEF Longer
<1>5. [kind \in Kind |-> Longer(kind)] \in [Kind -> Left]
  BY <1>4
<1>6. promised' \in [Users -> [Kind -> Left]]
  BY <1>0, <1>1, <1>5
<1>7. \A kind \in Kind : promised'[u][kind] = Longer(kind)
  BY <1>0, <1>1
<1>8. \A v \in Users \ {u} : promised'[v] = promised[v]
  BY <1>0, <1>1
<1>9. ASSUME NEW v \in Users, NEW kind \in Kind
      PROVE  promised'[v][kind] >= promised[v][kind]
  <2>1. CASE v = u
    BY <2>1, <1>4, <1>7
  <2>2. CASE v # u
    <3>1. promised'[v][kind] = promised[v][kind]
      BY <2>2, <1>8
    <3>. QED BY <3>1, <1>2
  <2>. QED BY <2>1, <2>2
<1>. QED BY <1>4, <1>6, <1>7, <1>9

LEMMA MintStep ==
    ASSUME IInv, NEW u \in Users, NEW role, role = UserRole[u], Mint(u, role),
           NEW left \in Left, left > RunOut,
           decision' = Ended("renewed", u, role, "auth", left)
    PROVE  IInv'
<1>0. role \in Role /\ UNCHANGED settings /\ settings \in Settings
  BY RolesOfUsers DEF Mint, IInv, TypeOK
<1>1. /\ promised' \in [Users -> [Kind -> Left]]
      /\ \A v \in Users, kind \in Kind : promised'[v][kind] >= promised[v][kind]
      /\ \A kind \in Kind : promised'[u][kind] >= Life(kind)
  BY PromiseGrows
<1>2. ASSUME NEW t \in tokens'
      PROVE  /\ t \in Token /\ t.left <= promised'[t.user][t.kind]
             /\ \E life \in LivesOf(t.kind) : t.left <= life
             /\ t.role = UserRole[t.user]
  <2>1. CASE t \in tokens
    <3>1. /\ t \in Token /\ t.kind \in Kind /\ t.user \in Users /\ t.left \in 0 .. MaxLife
          /\ \E life \in LivesOf(t.kind) : t.left <= life
          /\ t.role = UserRole[t.user]
          /\ promised[t.user][t.kind] \in Left /\ t.left <= promised[t.user][t.kind]
      BY <2>1, TokenParts
    <3>2. promised'[t.user][t.kind] \in Left
      BY <1>1, <3>1
    <3>3. /\ t.left \in Int /\ promised[t.user][t.kind] \in Int
          /\ promised'[t.user][t.kind] \in Int
      BY <3>1, <3>2, Lives
    <3>4. promised'[t.user][t.kind] >= promised[t.user][t.kind]
      BY <1>1, <3>1
    <3>5. t.left <= promised'[t.user][t.kind]
      BY <3>1, <3>3, <3>4
    <3>. QED BY <3>1, <3>5
  <2>2. CASE t \in {TokenFor("access", u, role), TokenFor("refresh", u, role)}
    <3>1. PICK kind \in Kind : t = TokenFor(kind, u, role)
      BY <2>2 DEF Kind
    <3>2. /\ t \in Token /\ t.kind = kind /\ t.user = u /\ t.role = role
          /\ t.left = Life(kind)
      BY <1>0, <3>1, NewToken
    <3>3. /\ Life(kind) \in LivesOf(kind) /\ Life(kind) \in Int
      BY <1>0, LifeNow, Lives
    <3>4. promised'[u][kind] \in Int
      BY <1>1, Lives
    <3>5. Life(kind) <= promised'[u][kind]
      BY <1>1, <3>3, <3>4
    <3>. QED BY <3>2, <3>3, <3>5
  <2>. QED BY <2>1, <2>2 DEF Mint
<1>3. /\ decision' \in Decision
      /\ decision'.status = "renewed" /\ decision'.user = u
      /\ decision'.role = role /\ decision'.left = left
  BY <1>0 DEF Ended, Decision
<1>4. TypeOK'
  BY <1>0, <1>1, <1>2, <1>3 DEF IInv, TypeOK
<1>5. TokensPromised' /\ TokensKeepRole'
  BY <1>2 DEF TokensPromised, TokensKeepRole
<1>6. SessionsEnd' /\ AdmittedInRole'
  BY <1>3 DEF SessionsEnd, AdmittedInRole
<1>. QED BY <1>4, <1>5, <1>6 DEF IInv

LEMMA TickStep == IInv /\ Tick => IInv'
<1>. SUFFICES ASSUME IInv, Tick PROVE IInv'
  OBVIOUS
<1>0. /\ promised \in [Users -> [Kind -> Left]]
      /\ UNCHANGED <<settings, decision>>
  BY DEF IInv, TypeOK, Tick
<1>1. \A u \in Users, kind \in Kind :
         /\ promised[u][kind] \in Left
         /\ promised'[u][kind] = IF promised[u][kind] > RunOut THEN promised[u][kind] - 1
                                                               ELSE RunOut
  BY <1>0 DEF Tick
<1>2. promised' \in [Users -> [Kind -> Left]]
  <2>1. \A x \in Left : x > RunOut => x - 1 \in Left
    BY AccessAssumption DEF Left, RunOut
  <2>2. ASSUME NEW u \in Users, NEW kind \in Kind PROVE promised'[u][kind] \in Left
    <3>1. CASE promised[u][kind] > RunOut
      BY <3>1, <1>1, <2>1
    <3>2. CASE ~(promised[u][kind] > RunOut)
      <4>1. promised'[u][kind] = RunOut
        BY <3>2, <1>1
      <4>. QED BY <4>1, Lives
    <3>. QED BY <3>1, <3>2
  <2>. QED BY <2>2 DEF Tick
<1>3. ASSUME NEW t \in tokens'
      PROVE  /\ t \in Token /\ t.left <= promised'[t.user][t.kind]
             /\ \E life \in LivesOf(t.kind) : t.left <= life
             /\ t.role = UserRole[t.user]
  <2>1. PICK o \in tokens : o.left > 0 /\ t = [o EXCEPT !.left = @ - 1]
    BY DEF Tick
  <2>2. /\ o \in Token /\ o.kind \in Kind /\ o.user \in Users /\ o.left \in 0 .. MaxLife
        /\ o.role = UserRole[o.user]
        /\ \E life \in LivesOf(o.kind) : o.left <= life
        /\ promised[o.user][o.kind] \in Left /\ o.left <= promised[o.user][o.kind]
        /\ promised[o.user][o.kind] > RunOut
    BY TokenParts
  <2>3. /\ t.left = o.left - 1 /\ t.kind = o.kind /\ t.user = o.user
        /\ t.role = o.role /\ t.secret = o.secret
    BY <2>1, <2>2 DEF Token
  <2>4. o.left - 1 \in 0 .. MaxLife /\ o.left \in Int
    BY <2>1, <2>2, Lives
  <2>5. t \in Token
    BY <2>1, <2>2, <2>4 DEF Token
  <2>6. promised'[o.user][o.kind] = promised[o.user][o.kind] - 1
    BY <1>1, <2>2
  <2>7. promised[o.user][o.kind] \in Int
    BY <2>2, Lives
  <2>8. o.left - 1 <= promised'[o.user][o.kind]
    BY <2>2, <2>4, <2>6, <2>7
  <2>9. \E life \in LivesOf(o.kind) : o.left - 1 <= life
    <3>1. PICK life \in LivesOf(o.kind) : o.left <= life
      BY <2>2
    <3>2. life \in Int
      BY <2>2, LivesInBounds, Lives
    <3>3. o.left - 1 <= life
      BY <3>1, <3>2, <2>4
    <3>. QED BY <3>3
  <2>. QED BY <2>2, <2>3, <2>5, <2>8, <2>9
<1>4. TypeOK'
  BY <1>0, <1>2, <1>3 DEF IInv, TypeOK
<1>5. TokensPromised' /\ TokensKeepRole'
  BY <1>3 DEF TokensPromised, TokensKeepRole
<1>6. SessionsEnd' /\ AdmittedInRole'
  BY <1>0 DEF IInv, SessionsEnd, AdmittedInRole
<1>. QED BY <1>4, <1>5, <1>6 DEF IInv

LEMMA Inductive == Spec => []IInv
<1>1. IInv /\ [Next]_vars => IInv'
  <2>. SUFFICES ASSUME IInv, [Next]_vars PROVE IInv'
    OBVIOUS
  <2>1. ASSUME NEW u \in Users, LogIn(u) PROVE IInv'
    <3>1. Life("refresh") \in Left /\ Life("refresh") > RunOut
      BY LifeNow DEF IInv, TypeOK, Kind
    <3>. QED BY <2>1, <3>1, MintStep DEF LogIn
  <2>2. ASSUME NEW t \in tokens, Renew(t) PROVE IInv'
    <3>1. /\ t.kind = "refresh" /\ t.user \in Users /\ t.role = UserRole[t.user]
          /\ promised[t.user]["refresh"] \in Left /\ promised[t.user]["refresh"] > RunOut
      BY <2>2, TokenParts DEF Renew, Renewable
    <3>. QED BY <2>2, <3>1, MintStep DEF Renew
  <2>3. CASE RefuseTokens
    <3>1. PICK status \in {"401", "403"} : decision' = Refused(status, "auth")
      BY <2>3 DEF RefuseTokens
    <3>2. decision' \in Decision /\ SessionsEnd' /\ AdmittedInRole'
      BY <3>1, RefusedFine
    <3>. QED BY <2>3, <3>2 DEF RefuseTokens, IInv, TypeOK, TokensPromised, TokensKeepRole
  <2>4. ASSUME NEW e \in Endpoint, NEW b \in AtMostOne(tokens),
               NEW k \in AtMostOne(Keys), Request(e, b, k)
        PROVE  IInv'
    BY <2>4, RequestStep
  <2>5. CASE Tick
    BY <2>5, TickStep
  <2>6. CASE Restart
    BY <2>6 DEF Restart, IInv, TypeOK, TokensPromised, TokensKeepRole, SessionsEnd,
                AdmittedInRole
  <2>7. CASE UNCHANGED vars
    BY <2>7 DEF vars, IInv, TypeOK, TokensPromised, TokensKeepRole, SessionsEnd,
                AdmittedInRole
  <2>. QED BY <2>1, <2>2, <2>3, <2>4, <2>5, <2>6, <2>7 DEF Next
<1>. QED BY <1>1, Initially, PTL DEF Spec

-----------------------------------------------------------------------------
(***************************************************************************)
(* The types, and no token with more left than a life of its kind.         *)
(***************************************************************************)
THEOREM TypeCorrect == Spec => []TypeOK
<1>1. IInv => TypeOK
  BY DEF IInv
<1>. QED BY <1>1, Inductive, PTL

(***************************************************************************)
(* Nobody is let in with a token once every expires_in told to the user    *)
(* has run out, and no pair is renewed once every refresh_expires_in has:  *)
(* the type claim keeps the two kinds apart where the secrets do not, and  *)
(* a restart with other lives moves no expiry already told.                *)
(***************************************************************************)
THEOREM SessionsEndAlways == Spec => []SessionsEnd
<1>1. IInv => SessionsEnd
  BY DEF IInv
<1>. QED BY <1>1, Inductive, PTL

(***************************************************************************)
(* A user keeps the role of the user store through any chain of refreshes, *)
(* and a route is entered in a role it allows.                             *)
(***************************************************************************)
THEOREM AdmittedInRoleAlways == Spec => []AdmittedInRole
<1>1. IInv => AdmittedInRole
  BY DEF IInv
<1>. QED BY <1>1, Inductive, PTL
=============================================================================
