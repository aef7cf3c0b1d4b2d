------------------------------- MODULE Access -------------------------------
(***************************************************************************)
(* What stands between a request and a task: the verifier of bearer tokens *)
(* with its cache of the issuer's signing keys, the principal made of the  *)
(* claims, the role and scope policies, and the scoped task repository.    *)
(*                                                                         *)
(* A token names the key it is signed with.  The issuer rotates its keys,  *)
(* withdrawn ones are not published again.  A request that finds no fresh  *)
(* key fetches the key set, stores it and looks again; two requests may do *)
(* so at once, and a set fetched early may be stored late.  A request      *)
(* fetches, stores and looks again within FetchTime.                       *)
(*                                                                         *)
(* A token is [kid, wellFormed, issued, exp, nbf, iat, type, subject,      *)
(* tenant, project, roles]: wellFormed for one Authorization header of     *)
(* bounded size and a header with an allowed algorithm, issued for the     *)
(* configured issuer and audience; 0 and "" are absent claims.             *)
(***************************************************************************)
EXTENDS Integers

CONSTANTS
  Visitors,      \* requests handled at the same time
  Tokens,        \* what they carry
  APICalls,      \* [path, method, task] they make
  KeyIds,        \* the issuer's keys, past and future
  FirstKeys,     \* those published when the server starts
  ScopedTasks,   \* ids of tasks
  FirstOwners,   \* task -> its owner, or NoOne
  TTL,           \* JWKSCacheTTL
  FetchTime,     \* bound: from the fetch of a key set to its last use
  Skew,          \* ClockSkew
  MaxTime        \* bound: the clock

ASSUME AccessConstants ==
  /\ TTL \in Nat \ {0} /\ FetchTime \in 0..TTL /\ Skew \in Nat
  /\ FirstKeys # {} /\ FirstKeys \subseteq KeyIds
  /\ FirstOwners \in [ScopedTasks -> [tenant : STRING, project : STRING, creator : STRING]]

VARIABLES
  authMode,      \* "oidc" or "trusted_ingress"
  durable,       \* whether tasks are kept in PostgreSQL
  time,
  published,     \* the keys the issuer publishes
  withdrawn,     \* key -> when it was withdrawn; 0 for a key that was not
  keys, keysUntil, \* the cached key set and the end of its validity
  visit,         \* visitor -> the local state of its request
  owners         \* task -> [tenant, project, creator], or NoOne

accessVars == <<authMode, durable, time, published, withdrawn, keys, keysUntil, visit, owners>>

NoOne == [tenant |-> "", project |-> "", creator |-> ""]

NoToken == [kid |-> ""]

NoCall == [path |-> ""]

(* fetched and fetchedAt are the set a request fetched and when, until it  *)
(* has looked at the cache again; verifiedAt is when it chose its key.     *)
Nothing == [pc |-> "idle", token |-> NoToken, fetched |-> {}, fetchedAt |-> 0, verifiedAt |-> 0,
            call |-> NoCall, seen |-> {}]

(* NewOIDCVerifier fetches the keys before the server starts.              *)
AccessInit ==
  /\ authMode \in {"oidc", "trusted_ingress"} /\ durable \in BOOLEAN
  /\ time = 1
  /\ published = FirstKeys
  /\ withdrawn = [k \in KeyIds |-> 0]
  /\ keys = FirstKeys /\ keysUntil = 1 + TTL
  /\ visit = [v \in Visitors |-> Nothing]
  /\ owners = FirstOwners

-----------------------------------------------------------------------------
Pass ==
  /\ time < MaxTime
  /\ \A v \in Visitors : visit[v].pc \in {"store", "reread"} => time < visit[v].fetchedAt + FetchTime
  /\ time' = time + 1
  /\ UNCHANGED <<authMode, durable, published, withdrawn, keys, keysUntil, visit, owners>>

Rotate ==
  /\ authMode = "oidc"
  /\ \E next \in SUBSET {k \in KeyIds : withdrawn[k] = 0} :
       /\ next # published
       /\ published' = next
       /\ withdrawn' = [k \in KeyIds |-> IF k \in published \ next THEN time ELSE withdrawn[k]]
  /\ UNCHANGED <<authMode, durable, time, keys, keysUntil, visit, owners>>

Arrive(v) ==
  /\ visit[v].pc = "idle"
  /\ \E token \in Tokens :
       visit' = [visit EXCEPT ![v].pc = IF authMode = "oidc" THEN "verify" ELSE "admit", ![v].token = token]
  /\ UNCHANGED <<authMode, durable, time, published, withdrawn, keys, keysUntil, owners>>

(* The error envelope, or the end of an answered request.                  *)
Leave(v) == visit' = [visit EXCEPT ![v] = Nothing]

Verified(v) == visit' =
  [visit EXCEPT ![v].pc = "admit", ![v].verifiedAt = time, ![v].fetchedAt = 0]

-----------------------------------------------------------------------------
\* Mutation: the end of the validity is not looked at.
KeyCachedForever(kid) == kid \in keys

KeyCached(kid) == kid \in keys /\ time < keysUntil

(* keyFor, the first look.                                                 *)
KeyFor(v) ==
  /\ visit[v].pc = "verify"
  /\ IF ~visit[v].token.wellFormed THEN Leave(v)
     ELSE IF KeyCached(visit[v].token.kid) THEN Verified(v)
     ELSE visit' = [visit EXCEPT ![v].pc = "fetch"]
  /\ UNCHANGED <<authMode, durable, time, published, withdrawn, keys, keysUntil, owners>>

(* The fetch fails, or returns what is published.                          *)
FetchJSON(v) ==
  /\ visit[v].pc = "fetch"
  /\ \/ Leave(v)
     \/ visit' = [visit EXCEPT ![v].pc = "store", ![v].fetched = published, ![v].fetchedAt = time]
  /\ UNCHANGED <<authMode, durable, time, published, withdrawn, keys, keysUntil, owners>>

(* A set without acceptable key is refused and the cache kept.             *)
Refresh(v) ==
  /\ visit[v].pc = "store"
  /\ IF visit[v].fetched = {}
     THEN Leave(v) /\ UNCHANGED <<keys, keysUntil>>
     ELSE /\ keys' = visit[v].fetched
          /\ keysUntil' = time + TTL
          /\ visit' = [visit EXCEPT ![v].pc = "reread", ![v].fetched = {}]
  /\ UNCHANGED <<authMode, durable, time, published, withdrawn, owners>>

(* keyFor, the second look, at whatever set is stored by then.             *)
KeyForAgain(v) ==
  /\ visit[v].pc = "reread"
  /\ IF visit[v].token.kid \in keys THEN Verified(v) ELSE Leave(v)
  /\ UNCHANGED <<authMode, durable, time, published, withdrawn, keys, keysUntil, owners>>

-----------------------------------------------------------------------------
ValidateClaims(token) ==
  /\ token.issued /\ token.subject # ""
  /\ time <= token.exp + Skew
  /\ token.nbf > 0 => token.nbf <= time + Skew
  /\ token.iat > 0 => token.iat <= time + Skew /\ token.iat <= token.exp

(* identity.Validate; a system principal never comes from outside.         *)
ValidPrincipal(token) == token.subject # "" /\ token.tenant # ""

PrincipalFromClaims(token) == token.type \in {"", "user", "service_account"} /\ ValidPrincipal(token)

TrustedIngress(token) == token.type \in {"", "user", "service_account"} /\ ValidPrincipal(token)

OnProject(c) == c.path \notin {"models", "model", "admission", "tools"}

(* WithPrincipalVerifier: tasks are asked for within a project.            *)
Identified(token, c) ==
  /\ IF authMode = "oidc" THEN ValidateClaims(token) /\ PrincipalFromClaims(token) ELSE TrustedIngress(token)
  /\ OnProject(c) => token.project # ""

(* Path, method and the action they stand for.                             *)
ModelActions ==
  {<<"models", "GET", "model:read">>, <<"models", "POST", "model:write">>,
   <<"model", "GET", "model:read">>, <<"model", "PUT", "model:write">>,
   <<"admission", "GET", "model:admission:read">>, <<"admission", "POST", "model:admission:write">>}

TaskActions ==
  {<<"tasks", "GET", "task:read">>, <<"tasks", "POST", "task:create">>, <<"task", "GET", "task:read">>,
   <<"route", "POST", "task:route">>, <<"routes", "GET", "task:route:read">>,
   <<"costs", "GET", "task:cost:read">>, <<"audit", "GET", "task:audit:read">>,
   <<"task model", "POST", "task:model:execute">>, <<"trace", "GET", "task:trace:read">>,
   <<"evaluations", "GET", "task:evaluation:read">>, <<"evaluations", "POST", "task:evaluation:write">>,
   <<"task tool", "POST", "tool:execute">>}

(* resolveAPIAccess                                                        *)
APIActions == ModelActions \union TaskActions \union {<<"tools", "GET", "tool:read">>}

(* An unknown path or method has none.                                     *)
ActionsOf(c) == {a[3] : a \in {b \in APIActions : b[1] = c.path /\ b[2] = c.method}}

IsReadAction(action) ==
  action \in {"model:read", "model:admission:read", "tool:read", "task:read", "task:route:read",
              "task:cost:read", "task:audit:read", "task:trace:read", "task:evaluation:read"}

RoleAllows(role, action) ==
  \/ role = "tenant_admin"
  \/ IsReadAction(action) /\ role \in {"project_admin", "developer", "operator", "reviewer", "viewer"}
  \/ /\ action \in {"task:create", "task:route", "task:model:execute", "tool:execute"}
     /\ role \in {"project_admin", "developer", "operator"}
  \/ action = "task:evaluation:write" /\ role \in {"project_admin", "reviewer"}

(* RBAC.Evaluate                                                           *)
RoleGrants(token, action) == \E role \in token.roles : RoleAllows(role, action)

(* ScopePolicy.Evaluate: the resource carries the tenant and the project   *)
(* of the principal itself, so only their presence matters.                *)
ScopeAllows(token, c) == token.tenant # "" /\ (OnProject(c) => token.project # "")

Authorized(token, c) == \E action \in ActionsOf(c) : RoleGrants(token, action) /\ ScopeAllows(token, c)

-----------------------------------------------------------------------------
OwnsProject(token, t) ==
  /\ token.tenant # "" /\ token.project # ""
  /\ owners[t].tenant = token.tenant /\ owners[t].project = token.project

(* The row security of tasks, under the scope the transaction has set.     *)
RowVisible(token, t) == owners[t].tenant = token.tenant /\ owners[t].project = token.project

(* ScopedTasks.Get                                                         *)
ScopedGet(token, t) ==
  /\ t \in ScopedTasks /\ owners[t] # NoOne
  /\ durable => RowVisible(token, t)
  /\ OwnsProject(token, t)

ScopedList(token) == {t \in ScopedTasks : (durable => RowVisible(token, t)) /\ OwnsProject(token, t)}

(* taskScopeGuard looks the task of a path up before any of its resources. *)
InScope(token, c) == OnProject(c) /\ c.path # "tasks" => ScopedGet(token, c.task)

(* From the claims to the handler.  Nothing here is shared but the owners  *)
(* of tasks, which never change, so the steps are taken as one.            *)
Admit(v) ==
  /\ visit[v].pc = "admit"
  /\ \E c \in APICalls :
       LET token == visit[v].token
       IN  IF Identified(token, c) /\ Authorized(token, c) /\ InScope(token, c)
           THEN visit' = [visit EXCEPT ![v].pc = "handle", ![v].call = c]
           ELSE Leave(v)
  /\ UNCHANGED <<authMode, durable, time, published, withdrawn, keys, keysUntil, owners>>

Answer(v, tasks) == visit' = [visit EXCEPT ![v].pc = "answered", ![v].call = NoCall, ![v].seen = tasks]

(* A created task carries the identity of the principal.                   *)
CreateOwned(v) ==
  /\ visit[v].pc = "handle"
  /\ visit[v].call.path = "tasks" /\ visit[v].call.method = "POST"
  /\ \E t \in ScopedTasks :
       /\ owners[t] = NoOne
       /\ owners' = [owners EXCEPT ![t] = [tenant |-> visit[v].token.tenant, project |-> visit[v].token.project,
                                           creator |-> visit[v].token.subject]]
       /\ Answer(v, {t})
  /\ UNCHANGED <<authMode, durable, time, published, withdrawn, keys, keysUntil>>

(* The other handlers show the task they were asked for, or a list.        *)
Handle(v) ==
  /\ visit[v].pc = "handle"
  /\ LET c == visit[v].call
     IN  \/ OnProject(c) /\ c.path # "tasks" /\ Answer(v, {t \in {c.task} : ScopedGet(visit[v].token, t)})
         \/ /\ c.path = "tasks" /\ c.method = "GET"
            /\ Answer(v, ScopedList(visit[v].token))
         \/ ~OnProject(c) /\ Answer(v, {})
  /\ UNCHANGED <<authMode, durable, time, published, withdrawn, keys, keysUntil, owners>>

Depart(v) ==
  /\ visit[v].pc = "answered"
  /\ Leave(v)
  /\ UNCHANGED <<authMode, durable, time, published, withdrawn, keys, keysUntil, owners>>

AccessNext ==
  \/ Pass \/ Rotate
  \/ \E v \in Visitors :
       \/ Arrive(v) \/ KeyFor(v) \/ FetchJSON(v) \/ Refresh(v) \/ KeyForAgain(v)
       \/ Admit(v) \/ CreateOwned(v) \/ Handle(v) \/ Depart(v)

-----------------------------------------------------------------------------
AccessSpec == AccessInit /\ [][AccessNext]_accessVars

(* "Keys are cached for a bounded TTL": whoever is answered was verified   *)
(* with a key that was still published, or had been withdrawn no longer    *)
(* ago than a cached set lives after a slow fetch, however many requests   *)
(* refreshed the cache at once and in whatever order their sets arrived;   *)
(* and every task they are shown belongs to the project they came from.    *)
AnsweredUnderCurrentKey ==
  \A v \in Visitors : visit[v].pc = "answered" =>
    LET token == visit[v].token
    IN  /\ authMode = "oidc" =>
             \/ token.kid \in published
             \/ visit[v].verifiedAt <= withdrawn[token.kid] + TTL + FetchTime
        /\ \A t \in visit[v].seen : owners[t].tenant = token.tenant /\ owners[t].project = token.project
=============================================================================
