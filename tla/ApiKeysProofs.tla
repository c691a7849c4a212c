---------------------------- MODULE ApiKeysProofs ----------------------------
(* The isolation of tenants, for any number of applications, keys and callers.
   What a request was allowed by stays true until it is answered: a key's row
   keeps its application and scopes, and is never unrevoked. *)
EXTENDS ApiKeys, TLAPS

\* The row of a key that request r presents, and what it was allowed by
ByKey(r) ==
  /\ r.cred \in Key /\ key[r.cred] # NoRow /\ r.route.who # "admin"
  /\ key[r.cred].app = r.app /\ r.route.scope \in key[r.cred].scopes

GrantsHold ==
  \A c \in Caller : req[c].allowed =>
    ((req[c].cred = Admin /\ req[c].route.who # "key") \/ ByKey(req[c])) /\ ~req[c].revoked

\* A request that began with a revoked key has one still
RevokedStays ==
  \A c \in Caller : req[c].revoked => req[c].cred \in Key /\ key[req[c].cred].state = "revoked"

KeysOfApps == \A k \in Key : key[k] # NoRow => key[k].app \in apps

IInv == TypeOK /\ GrantsHold /\ RevokedStays /\ KeysOfApps

Rows == [state : {"live", "revoked"}, app : App, scopes : SUBSET SCOPES]

Asking == [route : Route, app : App, cred : Credential, allowed : BOOLEAN, revoked : BOOLEAN]

-----------------------------------------------------------------------------
LEMMA InitIInv == Init => IInv
  BY DEF Init, IInv, TypeOK, GrantsHold, RevokedStays, KeysOfApps, NoRequest

(* A step that leaves the rows alone and makes one request new: idle, or one for
   which what the invariant says holds. *)
LEMMA RequestOnly ==
  ASSUME IInv, NEW c \in Caller, NEW r, UNCHANGED <<apps, key, users>>,
         req' = [req EXCEPT ![c] = r],
         r = NoRequest \/ r \in Asking,
         r.allowed => ((r.cred = Admin /\ r.route.who # "key") \/ ByKey(r)) /\ ~r.revoked,
         r.revoked => r.cred \in Key /\ key[r.cred].state = "revoked"
  PROVE  IInv'
<1>1. TypeOK'
  BY DEF IInv, TypeOK, Asking
<1>2. \A d \in Caller : req'[d] = IF d = c THEN r ELSE req[d]
  BY DEF IInv, TypeOK
<1>3. GrantsHold'
  BY <1>2 DEF IInv, GrantsHold, ByKey
<1>4. RevokedStays'
  BY <1>2 DEF IInv, RevokedStays
<1>5. KeysOfApps'
  BY DEF IInv, KeysOfApps
<1> QED  BY <1>1, <1>3, <1>4, <1>5 DEF IInv

LEMMA EndsIInv ==
  ASSUME IInv, NEW c \in Caller, Ends(c), UNCHANGED <<apps, key, users>>
  PROVE  IInv'
<1>1. ~NoRequest.allowed /\ ~NoRequest.revoked
  BY DEF NoRequest
<1> QED  BY <1>1, RequestOnly DEF Ends

(* Growing tables and requests that end break nothing. *)
LEMMA EndsTyped ==
  ASSUME IInv, NEW c \in Caller, Ends(c)
  PROVE  /\ req' \in [Caller -> {NoRequest} \cup Asking]
         /\ \A d \in Caller : req'[d] = req[d] \/ (~req'[d].allowed /\ ~req'[d].revoked)
  BY DEF IInv, TypeOK, Ends, NoRequest, Asking

LEMMA AskIInv ==
  ASSUME IInv, NEW c \in Caller, NEW route \in Route, NEW app \in App, NEW cred \in Credential,
         Ask(c, route, app, cred)
  PROVE  IInv'
<1> DEFINE r == [route |-> route, app |-> app, cred |-> cred, allowed |-> FALSE,
                 revoked |-> cred \in Key /\ key[cred].state = "revoked"]
<1>1. r \in Asking /\ ~r.allowed
  BY DEF Asking
<1>2. r.revoked => r.cred \in Key /\ key[r.cred].state = "revoked"
  OBVIOUS
<1>3. req' = [req EXCEPT ![c] = r] /\ UNCHANGED <<apps, key, users>>
  BY DEF Ask
<1> QED  BY <1>1, <1>2, <1>3, RequestOnly

LEMMA AllowedIInv ==
  ASSUME IInv, NEW c \in Caller, Allowed(c)
  PROVE  IInv'
<1> DEFINE r == [req[c] EXCEPT !.allowed = TRUE]
<1>1. req[c] \in Asking
  BY DEF IInv, TypeOK, Allowed, Asked, Asking
<1>2. /\ r \in Asking /\ r.cred = req[c].cred /\ r.route = req[c].route /\ r.app = req[c].app
      /\ r.revoked = req[c].revoked
  BY <1>1 DEF Asking
<1>3. \/ req[c].cred = Admin /\ req[c].route.who \in {"admin", "both"}
      \/ verifyApiKey(req[c]) /\ Covers(req[c])
  BY DEF Allowed, IsAdmin
<1>4. (req[c].cred = Admin /\ req[c].route.who # "key") \/ ByKey(req[c])
  BY <1>3 DEF verifyApiKey, Covers, ByKey, NoRow
<1>5. ~req[c].revoked
  BY <1>3, CredentialAssumption DEF verifyApiKey, IInv, RevokedStays
<1>6. ByKey(req[c]) => ByKey(r)
  BY <1>2 DEF ByKey
<1>7. req' = [req EXCEPT ![c] = r] /\ UNCHANGED <<apps, key, users>>
  BY DEF Allowed
<1>8. r.revoked => r.cred \in Key /\ key[r.cred].state = "revoked"
  BY <1>2, <1>5
<1> QED  BY <1>2, <1>4, <1>5, <1>6, <1>7, <1>8, RequestOnly

(* A step that changes rows keeps the invariant if keys keep their application
   and scopes, stay revoked and belong to applications. *)
LEMMA RowsIInv ==
  ASSUME IInv, NEW c \in Caller, Ends(c),
         key' \in [Key -> {NoRow} \cup Rows], apps' \subseteq App, users' \subseteq App \X Phone,
         apps \subseteq apps',
         \A k \in Key : /\ key[k] # NoRow => /\ key'[k] # NoRow
                                             /\ key'[k].app = key[k].app /\ key'[k].scopes = key[k].scopes
                        /\ key[k].state = "revoked" => key'[k].state = "revoked",
         \A k \in Key : key'[k] # NoRow => key'[k].app \in apps'
  PROVE  IInv'
<1>1. TypeOK'
  BY EndsTyped DEF TypeOK, Rows, Asking
<1>2. GrantsHold'
  <2> SUFFICES ASSUME NEW d \in Caller, req'[d].allowed
               PROVE  ((req'[d].cred = Admin /\ req'[d].route.who # "key") \/ ByKey(req[d])') /\ ~req'[d].revoked
    BY DEF GrantsHold
  <2>1. req'[d] = req[d]
    BY EndsTyped
  <2> QED  BY <2>1 DEF IInv, GrantsHold, ByKey
<1>3. RevokedStays'
  BY EndsTyped DEF IInv, RevokedStays
<1>4. KeysOfApps'
  BY DEF KeysOfApps
<1> QED  BY <1>1, <1>2, <1>3, <1>4 DEF IInv

LEMMA NextIInv == IInv /\ [Next]_vars => IInv'
<1> SUFFICES ASSUME IInv, [Next]_vars PROVE IInv'
  OBVIOUS
<1>1. CASE UNCHANGED vars
  BY <1>1 DEF vars, IInv, TypeOK, GrantsHold, ByKey, RevokedStays, KeysOfApps
<1>2. ASSUME NEW c \in Caller, Refused(c) \/ Forbidden(c) \/ Rejected(c) \/ Served(c) PROVE IInv'
  BY <1>2, EndsIInv DEF Refused, Forbidden, Rejected, Served
<1>3. ASSUME NEW c \in Caller, NEW a \in App, CreateApplication(c, a) PROVE IInv'
  BY <1>3, RowsIInv DEF CreateApplication, IInv, TypeOK, KeysOfApps, Rows
<1>4. ASSUME NEW c \in Caller, NEW phone \in Phone, AddUser(c, phone) PROVE IInv'
  <2>1. req[c].app \in App
    BY <1>4 DEF AddUser, IInv, TypeOK
  <2> QED  BY <1>4, <2>1, RowsIInv DEF AddUser, IInv, TypeOK, KeysOfApps, Rows
<1>5. ASSUME NEW c \in Caller, NEW k \in Key, RevokeKey(c, k) PROVE IInv'
  <2>1. key[k] \in Rows
    BY <1>5 DEF RevokeKey, Revocable, IInv, TypeOK, Rows, NoRow
  <2>2. /\ key'[k] \in Rows /\ key'[k].state = "revoked"
        /\ key'[k].app = key[k].app /\ key'[k].scopes = key[k].scopes
        /\ \A j \in Key \ {k} : key'[j] = key[j]
        /\ key' \in [Key -> {NoRow} \cup Rows]
    BY <1>5, <2>1 DEF RevokeKey, IInv, TypeOK, Rows
  <2>3. key'[k] # NoRow
    BY <2>2 DEF NoRow
  <2>4. Ends(c) /\ apps' = apps /\ users' = users
    BY <1>5 DEF RevokeKey
  <2>5. apps' \subseteq App /\ users' \subseteq App \X Phone /\ apps \subseteq apps'
    BY <2>4 DEF IInv, TypeOK
  <2>6. \A j \in Key :
          /\ key[j] # NoRow => /\ key'[j] # NoRow
                               /\ key'[j].app = key[j].app /\ key'[j].scopes = key[j].scopes
          /\ key[j].state = "revoked" => key'[j].state = "revoked"
    BY <2>2, <2>3
  <2>7. key[k] # NoRow
    BY <1>5 DEF RevokeKey, Revocable, NoRow
  <2>8. \A j \in Key : key'[j] # NoRow => key'[j].app \in apps'
    BY <2>2, <2>4, <2>7 DEF IInv, KeysOfApps
  <2>9. key' \in [Key -> {NoRow} \cup Rows]
    BY <2>2
  <2> QED  BY <2>4, <2>5, <2>6, <2>8, <2>9, RowsIInv
<1>6. ASSUME NEW c \in Caller, NEW k \in Key, NEW scopes \in SUBSET SCOPES, IssueKey(c, k, scopes) PROVE IInv'
  <2>1. req[c].app \in apps /\ req[c].app \in App /\ key[k] = NoRow
    BY <1>6 DEF IssueKey, IInv, TypeOK
  <2>2. /\ key'[k] \in Rows /\ key'[k].app = req[c].app
        /\ \A j \in Key \ {k} : key'[j] = key[j]
        /\ key' \in [Key -> {NoRow} \cup Rows]
    BY <1>6, <2>1 DEF IssueKey, IInv, TypeOK, Rows
  <2>3. key[k].state # "revoked"
    BY <2>1 DEF NoRow
  <2> QED  BY <1>6, <2>1, <2>2, <2>3, RowsIInv DEF IssueKey, IInv, TypeOK, KeysOfApps
<1> QED  BY <1>1, <1>2, <1>3, <1>4, <1>5, <1>6, AskIInv, AllowedIInv DEF Next

-----------------------------------------------------------------------------
(* Types, and what requests were allowed by. *)
THEOREM IInvHolds == Spec => []IInv
  BY InitIInv, NextIInv, PTL DEF Spec

THEOREM TypeCorrect == Spec => []TypeOK
<1>1. IInv => TypeOK
  BY DEF IInv
<1> QED  BY IInvHolds, <1>1, PTL

(* No request that began with a revoked key is allowed (apikeys.ts:57). *)
THEOREM RevokedIsRefused == Spec => []RevokedNeverAllowed
<1>1. IInv => RevokedNeverAllowed
  BY DEF IInv, GrantsHold, RevokedNeverAllowed
<1> QED  BY IInvHolds, <1>1, PTL

(* A route for keys alone never meets a missing application (app.ts:597). *)
THEOREM ApplicationExists == Spec => []KeysHaveApplications
<1>1. IInv => KeysHaveApplications
  BY DEF IInv, GrantsHold, ByKey, KeysOfApps, KeysHaveApplications
<1> QED  BY IInvHolds, <1>1, PTL

(* One tenant's key never works on another (app.ts:232). *)
THEOREM TenantIsolation == Spec => OwnTenantOnly
<1> DEFINE Own ==
      /\ \A k \in Key : key'[k] # key[k] => \E c \in Caller : Entitled(c, key'[k].app, "keys:manage")
      /\ \A u \in users' \ users : \E c \in Caller : Entitled(c, u[1], "users:write")
<1>1. ASSUME NEW c \in Caller, IInv, req[c].allowed, NEW scope, req[c].route.scope = scope
      PROVE  Entitled(c, req[c].app, scope)
  BY <1>1 DEF IInv, GrantsHold, ByKey, Entitled
<1>2. ASSUME NEW c \in Caller, IInv, NEW does \in {"issue", "revoke"}, Handles(c, does)
      PROVE  req[c].route.scope = "keys:manage"
  <2>1. req[c].route \in Routes /\ req[c].route.does = does
    BY <1>2, RouteAssumption DEF Handles, IInv, TypeOK, NoRequest
  <2> QED  BY <2>1 DEF Routes, RouteOf, ApplicationRoutes, KeyRoutes, AuditRoutes, RiskRoutes,
                       AnalyticsRoutes, WebhookRoutes, UserRoutes, OtpRoutes, DeliveryRoutes
<1>3. ASSUME NEW c \in Caller, IInv, Handles(c, "add")
      PROVE  req[c].route.scope = "users:write"
  <2>1. req[c].route \in Routes /\ req[c].route.does = "add"
    BY <1>3, RouteAssumption DEF Handles, IInv, TypeOK, NoRequest
  <2> QED  BY <2>1 DEF Routes, RouteOf, ApplicationRoutes, KeyRoutes, AuditRoutes, RiskRoutes,
                       AnalyticsRoutes, WebhookRoutes, UserRoutes, OtpRoutes, DeliveryRoutes
<1>4. ASSUME IInv, NEW c \in Caller, NEW k \in Key, RevokeKey(c, k) PROVE Own
  <2>1. Entitled(c, req[c].app, "keys:manage")
    BY <1>1, <1>2, <1>4 DEF RevokeKey, Handles
  <2>2. /\ key[k].app = req[c].app /\ key[k] \in Rows /\ users' = users
        /\ key' = [key EXCEPT ![k].state = "revoked"] /\ key \in [Key -> {NoRow} \cup Rows]
    BY <1>4 DEF RevokeKey, Revocable, IInv, TypeOK, Rows, NoRow
  <2>3. key'[k].app = req[c].app /\ \A j \in Key \ {k} : key'[j] = key[j]
    BY <2>2 DEF Rows
  <2> QED  BY <2>1, <2>2, <2>3
<1>5. ASSUME IInv, NEW c \in Caller, NEW k \in Key, NEW scopes \in SUBSET SCOPES, IssueKey(c, k, scopes)
      PROVE  Own
  <2>1. Entitled(c, req[c].app, "keys:manage")
    BY <1>1, <1>2, <1>5 DEF IssueKey, Handles
  <2>2. users' = users /\ key'[k].app = req[c].app /\ \A j \in Key \ {k} : key'[j] = key[j]
    BY <1>5 DEF IssueKey, IInv, TypeOK
  <2> QED  BY <2>1, <2>2
<1>6. ASSUME IInv, NEW c \in Caller, NEW phone \in Phone, AddUser(c, phone) PROVE Own
  <2>1. Entitled(c, req[c].app, "users:write")
    BY <1>1, <1>3, <1>6 DEF AddUser, Handles
  <2> QED  BY <1>6, <2>1 DEF AddUser
<1>7. ASSUME IInv, NEW c \in Caller, UNCHANGED <<key, users>> PROVE Own
  BY <1>7
<1>8. IInv /\ [Next]_vars => [Own]_vars
  BY <1>4, <1>5, <1>6, <1>7
  DEF Next, Ask, Refused, Allowed, Forbidden, Rejected, Served, CreateApplication
<1> QED  BY IInvHolds, <1>8, PTL DEF Spec, OwnTenantOnly
=============================================================================
