------------------------------- MODULE ApiKeys -------------------------------
(***************************************************************************)
(* Who may do what: applications, their API keys (lib/apikeys.ts), and the    *)
(* authorize and authorizeAdmin of app.ts that guard the routes.  Callers use  *)
(* keys, the admin token or guesses, on any application, at the same time.     *)
(* The lockout that a call goes through first, and that a rejected credential  *)
(* counts for, is AuthLockout: to it, Allowed and Forbidden are VerifyAccepts  *)
(* and Rejected is VerifyRejects.  What a route does once it is allowed is     *)
(* followed for the routes that change applications, keys and users; the rest  *)
(* only read, or are other modules' ("serve").                               *)
(***************************************************************************)
EXTENDS Naturals, FiniteSets

CONSTANTS
  Caller,  \* requests served at once
  App,     \* ids of applications, existing or not
  Key,     \* ids of API keys
  Admin,   \* the admin token
  Guess,   \* a credential that is neither
  None,    \* no request, no application
  Route,   \* routes the callers use
  Phone    \* phones of users

VARIABLES
  apps,    \* the Application rows
  key,     \* key[k]: its ApiKey row
  users,   \* the User rows: <<application, phone>>
  req      \* req[c]: the request caller c makes

vars == <<apps, key, users, req>>

-----------------------------------------------------------------------------
(* The routes: what they do, the scope they ask for and the credential they
   take (a key, the admin token, or both: allowAdmin). *)
RouteOf(does, scope, who) == [does |-> does, scope |-> scope, who |-> who]

ApplicationRoutes == {RouteOf("create", "none", "admin"), RouteOf("serve", "none", "admin")}
KeyRoutes == {RouteOf(does, "keys:manage", "both") : does \in {"issue", "serve", "revoke"}}
AuditRoutes == {RouteOf("serve", "audit:read", "both"), RouteOf("serve", "none", "admin")}
RiskRoutes == {RouteOf("serve", "risk:manage", "both")}
AnalyticsRoutes == {RouteOf("serve", "analytics:read", "both"), RouteOf("serve", "none", "admin")}
WebhookRoutes == {RouteOf("serve", "webhooks:manage", "both")}
UserRoutes == {RouteOf("serve", "users:read", "key")}
              \cup {RouteOf(does, "users:write", "key") : does \in {"add", "serve"}}
OtpRoutes == {RouteOf("serve", scope, "key") : scope \in {"otp:request", "otp:verify"}}
DeliveryRoutes == {RouteOf("serve", "deliveries:read", "key")}

Routes == ApplicationRoutes \cup KeyRoutes \cup AuditRoutes \cup RiskRoutes \cup AnalyticsRoutes
          \cup WebhookRoutes \cup UserRoutes \cup OtpRoutes \cup DeliveryRoutes

SCOPES == {r.scope : r \in Route} \ {"none"}

ASSUME RouteAssumption == Route \subseteq Routes
ASSUME CredentialAssumption == Admin \notin Key /\ Guess \notin Key /\ Guess # Admin /\ None \notin App

Credential == Key \cup {Admin, Guess}

NoRow == [state |-> "none", app |-> None, scopes |-> {}]
NoRequest == [route |-> None, app |-> None, cred |-> Guess, allowed |-> FALSE, revoked |-> FALSE]

\* revoked: history: the request began with a key that was revoked already
TypeOK ==
  /\ apps \subseteq App
  /\ key \in [Key -> {NoRow} \cup [state : {"live", "revoked"}, app : App, scopes : SUBSET SCOPES]]
  /\ users \subseteq App \X Phone
  /\ req \in [Caller -> {NoRequest} \cup [route : Route, app : App, cred : Credential,
                                          allowed : BOOLEAN, revoked : BOOLEAN]]

Init ==
  /\ apps = {}
  /\ key = [k \in Key |-> NoRow]
  /\ users = {}
  /\ req = [c \in Caller |-> NoRequest]

-----------------------------------------------------------------------------
Ends(c) == req' = [req EXCEPT ![c] = NoRequest]

\* A caller may present a key only once somebody was shown it
Ask(c, route, app, cred) ==
  /\ req[c] = NoRequest
  /\ cred \in Key => key[cred] # NoRow
  /\ req' = [req EXCEPT ![c] = [route |-> route, app |-> app, cred |-> cred, allowed |-> FALSE,
                                revoked |-> cred \in Key /\ key[cred].state = "revoked"]]
  /\ UNCHANGED <<apps, key, users>>

\* 429 of lockedOut, an error of Redis or the database, or a crash
Refused(c) ==
  /\ req[c] # NoRequest
  /\ Ends(c)
  /\ UNCHANGED <<apps, key, users>>

Asked(c) == req[c] # NoRequest /\ ~req[c].allowed

\* isAdminToken, where the route takes the token
IsAdmin(r) == r.cred = Admin /\ r.route.who \in {"admin", "both"}

\* Mistake: a row is enough
verifyApiKeyRevoked(r) == r.route.who \in {"key", "both"} /\ r.cred \in Key /\ key[r.cred] # NoRow

\* The key is known and not revoked, where the route takes keys
verifyApiKey(r) == r.route.who \in {"key", "both"} /\ r.cred \in Key /\ key[r.cred].state = "live"

\* auth.applicationId === opts.applicationId && auth.scopes.includes(opts.scope)
Covers(r) == key[r.cred].app = r.app /\ r.route.scope \in key[r.cred].scopes

Allowed(c) ==
  /\ Asked(c)
  /\ IsAdmin(req[c]) \/ (verifyApiKey(req[c]) /\ Covers(req[c]))
  /\ req' = [req EXCEPT ![c].allowed = TRUE]
  /\ UNCHANGED <<apps, key, users>>

\* 403 FORBIDDEN, which counts as no guess
Forbidden(c) ==
  /\ Asked(c)
  /\ verifyApiKey(req[c]) /\ ~Covers(req[c])
  /\ Ends(c)
  /\ UNCHANGED <<apps, key, users>>

\* INVALID_API_KEY or INVALID_ADMIN_TOKEN: the token on a route for keys is one too
Rejected(c) ==
  /\ Asked(c)
  /\ ~IsAdmin(req[c]) /\ ~verifyApiKey(req[c])
  /\ Ends(c)
  /\ UNCHANGED <<apps, key, users>>

-----------------------------------------------------------------------------
Handles(c, does) == req[c].allowed /\ req[c].route.does = does

\* POST /applications
CreateApplication(c, a) ==
  /\ Handles(c, "create")
  /\ a \notin apps
  /\ apps' = apps \cup {a}
  /\ Ends(c)
  /\ UNCHANGED <<key, users>>

\* Mistake: the application of the path is not looked up
IssueUnchecked(c, k, scopes) ==
  /\ Handles(c, "issue")
  /\ key[k] = NoRow
  /\ key' = [key EXCEPT ![k] = [state |-> "live", app |-> req[c].app, scopes |-> scopes]]
  /\ Ends(c)
  /\ UNCHANGED <<apps, users>>

\* POST .../api-keys.  issueApiKey draws a new prefix
IssueKey(c, k, scopes) ==
  /\ Handles(c, "issue")
  /\ req[c].app \in apps
  /\ key[k] = NoRow
  /\ key' = [key EXCEPT ![k] = [state |-> "live", app |-> req[c].app, scopes |-> scopes]]
  /\ Ends(c)
  /\ UNCHANGED <<apps, users>>

\* Mistake: the key is found by its id alone
RevocableById(c, k) == key[k].state = "live"

\* where: { id, applicationId, revokedAt: null }
Revocable(c, k) == key[k].state = "live" /\ key[k].app = req[c].app

\* DELETE .../api-keys/:keyId
RevokeKey(c, k) ==
  /\ Handles(c, "revoke")
  /\ Revocable(c, k)
  /\ key' = [key EXCEPT ![k].state = "revoked"]
  /\ Ends(c)
  /\ UNCHANGED <<apps, users>>

\* POST .../users: 404 without the application, 409 when the phone has a user
AddUser(c, phone) ==
  /\ Handles(c, "add")
  /\ req[c].app \in apps
  /\ <<req[c].app, phone>> \notin users
  /\ users' = users \cup {<<req[c].app, phone>>}
  /\ Ends(c)
  /\ UNCHANGED <<apps, key>>

\* Every other route, a 404, or an error
Served(c) ==
  /\ req[c].allowed
  /\ Ends(c)
  /\ UNCHANGED <<apps, key, users>>

-----------------------------------------------------------------------------
Next ==
  \E c \in Caller :
    \/ \E route \in Route, app \in App, cred \in Credential : Ask(c, route, app, cred)
    \/ Refused(c) \/ Allowed(c) \/ Forbidden(c) \/ Rejected(c) \/ Served(c)
    \/ \E a \in App : CreateApplication(c, a)
    \/ \E phone \in Phone : AddUser(c, phone)
    \/ \E k \in Key : RevokeKey(c, k) \/ \E scopes \in SUBSET SCOPES : IssueKey(c, k, scopes)

Spec == Init /\ [][Next]_vars

-----------------------------------------------------------------------------
(* A key that was revoked before a request began never gets it allowed, however
   the request is delayed on its way to verifyApiKey (apikeys.ts:57). *)
RevokedNeverAllowed == \A c \in Caller : req[c].allowed => ~req[c].revoked

\* Caller c may act on application a by a route of this scope
Entitled(c, a, scope) ==
  /\ req[c].allowed /\ req[c].app = a
  /\ \/ req[c].cred = Admin
     \/ req[c].cred \in Key /\ key[req[c].cred].app = a /\ scope \in key[req[c].cred].scopes

(* "one tenant's key never works on another" (app.ts:232): a key is issued or
   revoked, and a user added, only on a request for its own application, made by
   the admin or with a key of that application that has the scope. *)
OwnTenantOnly ==
  [][/\ \A k \in Key : key'[k] # key[k] => \E c \in Caller : Entitled(c, key'[k].app, "keys:manage")
     /\ \A u \in users' \ users : \E c \in Caller : Entitled(c, u[1], "users:write")]_vars

(* A key exists only for an application that exists, so a route that takes keys
   alone never meets one that does not: POST /otp/request relies on it to skip
   the lookup (app.ts:597). *)
KeysHaveApplications ==
  \A c \in Caller : req[c].allowed /\ req[c].route.who = "key" => req[c].app \in apps
=============================================================================
