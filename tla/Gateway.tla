-------------------------------- MODULE Gateway --------------------------------
(***************************************************************************)
(* The gateway: requests pass the limiter by address, CORS, the API key,   *)
(* the limiter by key and the JWT before a route forwards them.  With it,  *)
(* what the calls reach: token-service, the registry of origins, refresh   *)
(* and logout of auth-service, and the sessions these two write.           *)
(*                                                                         *)
(* A step ends where the code awaits an answer.  Routes whose operations   *)
(* are in other modules end with what the service is handed.               *)
(***************************************************************************)
EXTENDS TokenService, OriginRegistry

CONSTANTS
  Addresses,  \* client addresses
  Requests,   \* requests received
  Passwords,  \* passwords
  Login,      \* Login[s]: the user who opened session s, with pair s
  Limit,      \* Limit[x]: requests in a window on resource x, by address and path
  KeyLimit,   \* settings.rate_limit_per_key_rpm
  Window,     \* window_seconds, in ticks
  First,      \* First[u]: the password of u at the start
  Plans       \* bound: calls of each request, applications, passwords, failures, end
              \* of the clock, and whether the Redis of the limiters can be reached


SignInRoutes == {"register", "login"}
LinkRoutes == {"reset-password", "verify-email", "resend-verification", "confirm-deletion",
               "confirm-email-change"}
Probes == {"health", "ready"}
PublicRoutes == SignInRoutes \cup LinkRoutes \cup {"refresh"} \cup Probes
KeyRoutes == {"application"}
ProfileRoutes == {"profile", "update"}
AvatarRoutes == {"upload-avatar", "avatar-url"}
DestructiveRoutes == {"delete", "reset-avatar"}
OwnRoutes == {"deletion-request", "email-change"}
Confirmed == DestructiveRoutes \cup OwnRoutes
UserRoutes == ProfileRoutes \cup AvatarRoutes \cup DestructiveRoutes
SessionRoutes == {"sessions", "revoke-all", "revoke-session"}
Routes == PublicRoutes \cup KeyRoutes \cup UserRoutes \cup OwnRoutes \cup SessionRoutes \cup {"me", "logout"}
Admin == {"create", "update-app"}

ClientCalls ==
  [route : Routes, address : Addresses, bearer : Pairs \cup {None}, key : Apps \cup {None},
   header : Users \cup {None}, path : Users \cup {None}, password : Passwords \cup {None},
   refresh : Pairs \cup {None}, origin : Origins \cup {None}, preflight : BOOLEAN]
AdminCalls ==
  [route : {"create"}, app : Apps, origins : SUBSET Origins, active : {Absent}]
  \cup [route : {"update-app"}, app : Apps, origins : (SUBSET Origins) \cup {Absent},
       active : BOOLEAN \cup {Absent}]

(* The resource a route names: routes of one resource have one path for a   *)
(* user, whatever their method.  One session id stands for all of them.     *)
Resource(route) ==
  CASE route \in ProfileRoutes \cup {"delete"} -> "user"
    [] route \in AvatarRoutes \cup {"reset-avatar"} -> "avatar"
    [] OTHER -> route
Resources == {Resource(x) : x \in Routes}

PathOf(c) ==
  <<Resource(c.route), IF c.route \in UserRoutes \cup OwnRoutes THEN c.path ELSE None>>
Paths == {PathOf(c) : c \in [route : Routes, path : Users \cup {None}]}
Buckets == (Addresses \cup Apps) \X Paths

SessionRow == [user : Users, hash : Pairs, revoked : BOOLEAN]
OpenRow == [by : Requests, row : SessionRow]

(* The sessions at the start have the first pairs, and the applications at  *)
(* the start share no origin.                                               *)
ASSUME WindowAssumption == Window \in Nat \ {0}
ASSUME LimitAssumption == Limit \in [Resources -> Nat] /\ KeyLimit \in Nat
ASSUME LoginAssumption == \E n \in Pairs : DOMAIN Login = 0..n /\ Login \in [0..n -> Users]
ASSUME FirstAssumption == First \in [Users -> Passwords]
ASSUME NoneAssumption ==
  None \notin Requests \cup Apps \cup Passwords \cup ClientCalls \cup AdminCalls \cup OpenRow
ASSUME AppsAssumption == Apps \cap Addresses = {}
ASSUME PlansAssumption ==
  \A p \in Plans :
    /\ p.calls \in [Requests -> SUBSET (ClientCalls \cup AdminCalls)]
    /\ p.apps \in [Apps -> Application \cup {Absent}]
    /\ \A x, y \in Apps :
         x # y /\ p.apps[x] # Absent /\ p.apps[y] # Absent => p.apps[x].origins \cap p.apps[y].origins = {}
    /\ p.passwords \subseteq Passwords
    /\ p.failures \in Nat /\ p.end \in Nat /\ p.limited \in BOOLEAN

VARIABLES
  plan,      \* the plan of this behaviour
  pc,        \* pc[r]: what request r does next
  call,      \* call[r]: what the client sent
  stamp,     \* stamp[r]: time.time() as r took it for the limiter it is at
  scope,     \* scope[r]: the application the key resolved to, or None
  name,      \* name[r]: the header X-User-Id as it stands, or None
  got,       \* got[r]: the pair a refresh received
  target,    \* target[r]: the session whose rotation was checked
  answer,    \* answer[r]: the status the client received, or None
  window,    \* window[b]: sorted set and expiry of bucket b
  session,   \* session[s]: the committed row of session s
  open,      \* open[s]: an uncommitted row of s and its writer, or None
  password,  \* password[u]: the current password of u
  lost,      \* failures so far
  served,    \* history, served[r]: the user a service acted for
  met,       \* history, met[r]: writers in progress together with the writer r
  held,      \* history, held[r]: credentials of r that were good since it came
  ledger     \* history, ledger[b]: stamps accepted, the highest, late ones

requestVars == <<plan, pc, call, stamp, scope, name, got, target, answer, served, met>>
limiterVars == <<window, ledger>>
sessionVars == <<session, open>>
vars == <<tokenVars, registryVars, requestVars, limiterVars, sessionVars, password, lost, held>>

Sessions == DOMAIN Login

------------------------------------------------------------------------------
Init ==
  /\ now = 0
  /\ token = [p \in Pairs |-> IF p \in Sessions THEN [user |-> Login[p], exp |-> Life] ELSE None]
  /\ black = [p \in Pairs |-> None]
  /\ plan \in Plans
  /\ app = plan.apps
  /\ cached = [a \in Apps |-> Absent]
  /\ claim = [a \in Apps |-> None]
  /\ asleep = {x \in Apps : plan.apps[x] # Absent /\ ~plan.apps[x].active}
  /\ pc = [r \in Requests |-> "idle"]
  /\ call = [r \in Requests |-> None]
  /\ stamp = [r \in Requests |-> 0]
  /\ scope = [r \in Requests |-> None]
  /\ name = [r \in Requests |-> None]
  /\ got = [r \in Requests |-> None]
  /\ target = [r \in Requests |-> None]
  /\ answer = [r \in Requests |-> None]
  /\ window = [b \in Buckets |-> [stamps |-> {}, until |-> 0]]
  /\ session = [s \in Sessions |-> [user |-> Login[s], hash |-> s, revoked |-> FALSE]]
  /\ open = [s \in Sessions |-> None]
  /\ password = First
  /\ lost = 0
  /\ served = [r \in Requests |-> None]
  /\ met = [r \in Requests |-> {}]
  /\ held = [r \in Requests |-> {}]
  /\ ledger = [b \in Buckets |-> [accepted |-> {}, top |-> 0, late |-> FALSE]]

Lose == lost < plan.failures /\ lost' = lost + 1

Writes(r) == \E s \in Sessions : open[s] # None /\ open[s].by = r
Underway(r) == pc[r] \notin {"idle", "done"} \/ Writes(r)

At(r, step) == pc[r] = step
Go(r, step) == pc' = [pc EXCEPT ![r] = step]

(* A response that is sent already, by a timeout, stays.                    *)
Respond(r, code) == answer' = [answer EXCEPT ![r] = IF @ = None THEN code ELSE @]

(* Mutation: an exception ends the request and nothing is sent. *)
End_Silent(r, code) == Go(r, "done") /\ UNCHANGED answer

End(r, code) == Go(r, "done") /\ Respond(r, code)

------------------------------------------------------------------------------
(* RateLimit and RateLimitByKey: two windows of the same kind *)

LimitOf(b) == IF b[1] \in Apps THEN KeyLimit ELSE Limit[b[2][1]]

(* ZREMRANGEBYSCORE, ZADD, ZCARD and EXPIRE are one transaction.  Members   *)
(* are stamps: equal ones are one member.                                   *)
Live(b) == IF now < window[b].until THEN window[b].stamps ELSE {}

(* Mutation: the window ends before the oldest stamp that counts. *)
Recent_Narrow(b, s) == {x \in Live(b) : x + Window > s + 1}

Recent(b, s) == {x \in Live(b) : x + Window > s}

Entered(b, s) == Recent(b, s) \cup {s}

Over(b, s) == Cardinality(Entered(b, s)) > LimitOf(b)

Enter(b, s) == window' = [window EXCEPT ![b] = [stamps |-> Entered(b, s), until |-> now + Window]]

Note(b, s, admitted) ==
  ledger' = [ledger EXCEPT
    ![b].accepted = IF admitted THEN {x \in @ : x + Window > s} \cup {s} ELSE @,
    ![b].top = IF s > @ THEN s ELSE @,
    ![b].late = @ \/ s < ledger[b].top \/ (s < window[b].until /\ window[b].until <= now)]

(* Redis out of reach: the request passes, and so it does when Redis has    *)
(* counted it and the answer is lost.                                       *)
Budget(r, b, next) ==
  \/ /\ plan.limited
     /\ Enter(b, stamp[r])
     /\ Note(b, stamp[r], ~Over(b, stamp[r]))
     /\ IF Over(b, stamp[r]) THEN End(r, 429) ELSE Go(r, next) /\ UNCHANGED answer
     /\ UNCHANGED lost
  \/ /\ plan.limited
     /\ Enter(b, stamp[r])
     /\ Note(b, stamp[r], FALSE)
     /\ Go(r, next)
     /\ UNCHANGED answer
     /\ Lose
  \/ Lose /\ Go(r, next) /\ UNCHANGED <<limiterVars, answer>>
  \/ ~plan.limited /\ Go(r, next) /\ UNCHANGED <<limiterVars, answer, lost>>

(* A stamp that no Redis will see is left out, and so is one that was used. *)
TakeStamp(r) == stamp' = [stamp EXCEPT ![r] = IF plan.limited THEN now ELSE 0]
UseStamp(r) == stamp' = [stamp EXCEPT ![r] = 0]

(* Only sessions and origins are written by several requests. *)
Writers == Admin \cup {"logout", "refresh"}
Meet(r, c) ==
  LET others == {q \in Requests : Underway(q) /\ call[q].route \in Writers}
  IN  met' = IF c.route \notin Writers THEN met
             ELSE [q \in Requests |-> IF q = r THEN others
                                      ELSE IF q \in others THEN met[q] \cup {r} ELSE met[q]]

Receive(r, c) ==
  /\ At(r, "idle")
  /\ c \in plan.calls[r]
  /\ \A f \in {"bearer", "refresh"} \cap DOMAIN c : c[f] \in Issued \cup {None}
  /\ call' = [call EXCEPT ![r] = c]
  /\ name' = [name EXCEPT ![r] = IF c.route \in Admin THEN None ELSE c.header]
  /\ TakeStamp(r)
  /\ Go(r, IF c.route \in Admin THEN "check" ELSE "count")
  /\ Meet(r, c)
  /\ UNCHANGED <<plan, scope, got, target, answer, served>>
  /\ UNCHANGED <<tokenVars, registryVars, limiterVars, sessionVars, password, lost>>

AfterLimit(c) ==
  IF c.preflight THEN "preflight" ELSE IF c.key # None THEN "key" ELSE "jwt"

Count(r) ==
  /\ At(r, "count")
  /\ Budget(r, <<call[r].address, PathOf(call[r])>>, AfterLimit(call[r]))
  /\ UseStamp(r)
  /\ UNCHANGED <<plan, call, scope, name, got, target, served, met>>
  /\ UNCHANGED <<tokenVars, registryVars, sessionVars, password>>

CountKey(r) ==
  /\ At(r, "budget")
  /\ Budget(r, <<scope[r], PathOf(call[r])>>, "jwt")
  /\ UseStamp(r)
  /\ UNCHANGED <<plan, call, scope, name, got, target, served, met>>
  /\ UNCHANGED <<tokenVars, registryVars, sessionVars, password>>

------------------------------------------------------------------------------
(* DynamicCORS and ApiKeyAuth *)

Preflight(r) ==
  /\ At(r, "preflight")
  /\ LET o == call[r].origin
     IN  \/ End(r, IF IsStatic(o) \/ Resolves(o) THEN 200 ELSE 400) /\ UNCHANGED lost
         \/ ~IsStatic(o) /\ End(r, 400) /\ Lose
  /\ UNCHANGED <<plan, call, stamp, scope, name, got, target, served, met>>
  /\ UNCHANGED <<tokenVars, registryVars, limiterVars, sessionVars, password>>

(* The stamp of the limiter by key is taken when the answer is in. *)
VerifyKey(r) ==
  /\ At(r, "key")
  /\ LET x == call[r].key
     IN  \/ /\ Accepted(x) /\ Fill(x)
            /\ scope' = [scope EXCEPT ![r] = x]
            /\ TakeStamp(r)
            /\ Go(r, "budget")
            /\ UNCHANGED <<answer, lost>>
         \/ /\ ~Accepted(x)
            /\ End(r, 401)
            /\ UNCHANGED <<scope, stamp, cached, lost>>
         \/ Lose /\ End(r, 503) /\ UNCHANGED <<scope, stamp, cached>>
  /\ UNCHANGED <<plan, call, name, got, target, served, met, app, claim, asleep>>
  /\ UNCHANGED <<tokenVars, limiterVars, sessionVars, password>>

(* PATCH and POST of application-service, by an administrator. *)
CheckOrigins(r) ==
  /\ At(r, "check")
  /\ LET c == call[r]
     IN  IF c.route = "update-app" /\ app[c.app] = Absent THEN End(r, 404)
         ELSE IF c.origins # Absent /\ ~Available(c.app, c.origins) THEN End(r, 409)
         ELSE Go(r, "write") /\ UNCHANGED answer
  /\ UNCHANGED <<plan, call, stamp, scope, name, got, target, served, met, lost>>
  /\ UNCHANGED <<tokenVars, registryVars, limiterVars, sessionVars, password>>

WriteApplication(r) ==
  /\ At(r, "write")
  /\ \/ Write(call[r], r) /\ End(r, 200) /\ UNCHANGED lost
     \/ Lose /\ End(r, 500) /\ UNCHANGED registryVars
  /\ UNCHANGED <<plan, call, stamp, scope, name, got, target, served, met>>
  /\ UNCHANGED <<tokenVars, limiterVars, sessionVars, password>>

------------------------------------------------------------------------------
(* JWTAuth, and the checks a route makes before it calls a service *)

ByKeyAlone(r) == scope[r] # None /\ call[r].route \in KeyRoutes
Public(r) == call[r].route \in PublicRoutes
Protected(r) == ~Public(r) /\ ~ByKeyAlone(r)
Authentic(p) == p \in Issued /\ Verifies(p)

NextStep(c) ==
  CASE c.route = "logout" -> "end session"
    [] c.route = "refresh" -> "validate"
    [] c.route \in Probes -> "probe"
    [] c.route \in Confirmed -> "confirm"
    [] OTHER -> "forward"

(* The e-mail change and the deletion request compare the header with the   *)
(* path, and all four destructive routes want a password.                   *)
Dispatch(r, user) ==
  LET c == call[r] IN
  IF c.route \in OwnRoutes /\ user # c.path THEN End(r, 403)
  ELSE IF c.route \in Confirmed /\ c.password = None THEN End(r, 422)
  ELSE Go(r, NextStep(c)) /\ UNCHANGED answer

(* Mutation: a request with an API key needs no JWT, on any route.          *)
VerifyToken_KeySuffices(r) ==
  /\ At(r, "jwt")
  /\ LET p == call[r].bearer
         admit(user) == name' = [name EXCEPT ![r] = user] /\ Dispatch(r, user)
     IN  \/ scope[r] # None /\ admit(name[r])
         \/ scope[r] = None /\ Public(r) /\ admit(None)
         \/ scope[r] = None /\ ~Public(r) /\ Authentic(p) /\ admit(token[p].user)
  /\ UNCHANGED <<plan, call, stamp, scope, got, target, served, met, lost>>
  /\ UNCHANGED <<tokenVars, registryVars, limiterVars, sessionVars, password>>

(* Headers that came with the request are removed, except on a route that   *)
(* an API key opens.                                                        *)
VerifyToken(r) ==
  /\ At(r, "jwt")
  /\ LET p == call[r].bearer
         admit(user) == name' = [name EXCEPT ![r] = user] /\ Dispatch(r, user)
     IN  \/ ByKeyAlone(r) /\ admit(name[r]) /\ UNCHANGED lost
         \/ Public(r) /\ admit(None) /\ UNCHANGED lost
         \/ /\ Protected(r)
            /\ \/ /\ Authentic(p)
                  /\ admit(token[p].user)
                  /\ UNCHANGED lost
               \/ p # None /\ Lose /\ End(r, 503) /\ UNCHANGED name
               \/ ~Authentic(p) /\ End(r, 401) /\ UNCHANGED <<name, lost>>
  /\ UNCHANGED <<plan, call, stamp, scope, got, target, served, met>>
  /\ UNCHANGED <<tokenVars, registryVars, limiterVars, sessionVars, password>>

(* A call that fails counts as a wrong password. *)
ConfirmPassword(r) ==
  /\ At(r, "confirm")
  /\ LET c == call[r]
     IN  \/ c.password = password[c.path] /\ Go(r, "forward") /\ UNCHANGED <<answer, lost>>
         \/ c.password # password[c.path] /\ End(r, 403) /\ UNCHANGED lost
         \/ Lose /\ End(r, 403)
  /\ UNCHANGED <<plan, call, stamp, scope, name, got, target, served, met>>
  /\ UNCHANGED <<tokenVars, registryVars, limiterVars, sessionVars, password>>

(* user-service compares the header with the path. *)
Refused(r) == call[r].route \in UserRoutes /\ name[r] # call[r].path

(* Who the service acts for.  An own route hands on the user of the path,   *)
(* and the route of API keys no user.                                       *)
ActsFor(r) ==
  IF call[r].route \in OwnRoutes THEN call[r].path
  ELSE IF call[r].route \in KeyRoutes THEN None ELSE name[r]

Act(r) == served' = [served EXCEPT ![r] = [for |-> ActsFor(r)]]

(* A call that times out may have been carried out. *)
Forward(r) ==
  /\ At(r, "forward")
  /\ \/ Refused(r) /\ End(r, 403) /\ UNCHANGED <<served, lost>>
     \/ ~Refused(r) /\ Act(r) /\ End(r, 200) /\ UNCHANGED lost
     \/ ~Refused(r) /\ Act(r) /\ Lose /\ End(r, 504)
     \/ Lose /\ End(r, 503) /\ UNCHANGED served
  /\ UNCHANGED <<plan, call, stamp, scope, name, got, target, met>>
  /\ UNCHANGED <<tokenVars, registryVars, limiterVars, sessionVars, password>>

(* /health is 200 whatever the services answer, /ready is not.              *)
Probe(r) ==
  /\ At(r, "probe")
  /\ \/ End(r, 200) /\ UNCHANGED lost
     \/ Lose /\ End(r, IF call[r].route = "ready" THEN 503 ELSE 200)
  /\ UNCHANGED <<plan, call, stamp, scope, name, got, target, served, met>>
  /\ UNCHANGED <<tokenVars, registryVars, limiterVars, sessionVars, password>>

------------------------------------------------------------------------------
(* session-service: an UPDATE waits for an open transaction on its row, and *)
(* get_db commits after the answer.  SessionStore has the whole service.    *)

OfHash(p) == {s \in Sessions : session[s].hash = p}
Valid(s) == ~session[s].revoked

Put(r, s, to) ==
  /\ open[s] = None
  /\ open' = [open EXCEPT ![s] = [by |-> r, row |-> to]]

CommitSession(s) ==
  /\ open[s] # None
  /\ \/ session' = [session EXCEPT ![s] = open[s].row] /\ UNCHANGED lost
     \/ Lose /\ UNCHANGED session
  /\ open' = [open EXCEPT ![s] = None]
  /\ UNCHANGED <<requestVars, tokenVars, registryVars, limiterVars, password>>

------------------------------------------------------------------------------
(* logout: both revocations are best effort *)

EndSession(r) ==
  /\ At(r, "end session")
  /\ LET mine == OfHash(call[r].refresh)
     IN  \/ /\ \A s \in mine : open[s] = None
            /\ open' = [s \in Sessions |->
                         IF s \in mine THEN [by |-> r, row |-> [session[s] EXCEPT !.revoked = TRUE]]
                         ELSE open[s]]
            /\ UNCHANGED lost
         \/ Lose /\ UNCHANGED open
  /\ Act(r)
  /\ Go(r, "end token")
  /\ UNCHANGED <<plan, call, stamp, scope, name, got, target, answer, met, session>>
  /\ UNCHANGED <<tokenVars, registryVars, limiterVars, password>>

(* Mutation: the gateway does not hand on the access token. *)
EndToken_NoHeader(r) ==
  /\ At(r, "end token")
  /\ End(r, 200)
  /\ UNCHANGED <<plan, call, stamp, scope, name, got, target, served, met, lost>>
  /\ UNCHANGED <<tokenVars, registryVars, limiterVars, sessionVars, password>>

EndToken(r) ==
  /\ At(r, "end token")
  /\ \/ RevokePair(call[r].bearer) /\ UNCHANGED lost
     \/ Lose /\ UNCHANGED black
  /\ End(r, 200)
  /\ UNCHANGED <<plan, call, stamp, scope, name, got, target, served, met, now, token>>
  /\ UNCHANGED <<registryVars, limiterVars, sessionVars, password>>

------------------------------------------------------------------------------
(* refresh *)

Validate(r) ==
  /\ At(r, "validate")
  /\ \/ /\ \E s \in OfHash(call[r].refresh) : Valid(s)
        /\ Go(r, "generate")
        /\ UNCHANGED <<answer, lost>>
     \/ /\ \A s \in OfHash(call[r].refresh) : ~Valid(s)
        /\ End(r, 401)
        /\ UNCHANGED lost
     \/ Lose /\ End(r, 503)
  /\ UNCHANGED <<plan, call, stamp, scope, name, got, target, served, met>>
  /\ UNCHANGED <<tokenVars, registryVars, limiterVars, sessionVars, password>>

(* With the profile, whose fetch can only fail.  The user is the session's, *)
(* and the one of the pair it was validated with.                           *)
Generate(r) ==
  /\ At(r, "generate")
  /\ \/ /\ GeneratePair(token[call[r].refresh].user)
        /\ got' = [got EXCEPT ![r] = NewPair]
        /\ Go(r, "rotate")
        /\ UNCHANGED <<answer, lost>>
     \/ Lose /\ End(r, 503) /\ UNCHANGED <<token, got>>
  /\ UNCHANGED <<plan, call, stamp, scope, name, target, served, met, now, black>>
  /\ UNCHANGED <<registryVars, limiterVars, sessionVars, password>>

(* rotate_session reads by hash, and updates by id.  auth-service answers   *)
(* with the new pair whatever status it gets.                               *)
CheckRotation(r) ==
  /\ At(r, "rotate")
  /\ \/ /\ \E s \in OfHash(call[r].refresh) :
              Valid(s) /\ target' = [target EXCEPT ![r] = s]
        /\ Go(r, "swap")
        /\ UNCHANGED <<answer, lost>>
     \/ /\ \A s \in OfHash(call[r].refresh) : ~Valid(s)
        /\ End(r, 200)
        /\ UNCHANGED <<target, lost>>
     \/ Lose /\ End(r, 503) /\ UNCHANGED target
  /\ UNCHANGED <<plan, call, stamp, scope, name, got, served, met>>
  /\ UNCHANGED <<tokenVars, registryVars, limiterVars, sessionVars, password>>

(* Mutation: the UPDATE writes the whole row as the check has read it.      *)
Swap_WholeRow(r) ==
  /\ At(r, "swap")
  /\ LET s == target[r]
     IN  Put(r, s, [session[s] EXCEPT !.hash = got[r], !.revoked = FALSE])
  /\ End(r, 200)
  /\ UNCHANGED <<plan, call, stamp, scope, name, got, target, served, met, session, lost>>
  /\ UNCHANGED <<tokenVars, registryVars, limiterVars, password>>

Swap(r) ==
  /\ At(r, "swap")
  /\ LET s == target[r]
     IN  Put(r, s, [session[s] EXCEPT !.hash = got[r]])
  /\ End(r, 200)
  /\ UNCHANGED <<plan, call, stamp, scope, name, got, target, served, met, session, lost>>
  /\ UNCHANGED <<tokenVars, registryVars, limiterVars, password>>

(* The gateway times out, and auth-service goes on or dies. *)
GiveUp(r) ==
  /\ pc[r] \in {"end session", "end token", "validate", "generate", "rotate", "swap"}
  /\ answer[r] = None
  /\ Lose
  /\ Respond(r, 504)
  /\ Go(r, pc[r]) \/ Go(r, "done")
  /\ UNCHANGED <<plan, call, stamp, scope, name, got, target, served, met>>
  /\ UNCHANGED <<tokenVars, registryVars, limiterVars, sessionVars, password>>

------------------------------------------------------------------------------
(* A reset, which PasswordReset models, changes a password. *)
ResetPassword(u) ==
  /\ \E new \in plan.passwords \ {password[u]} : password' = [password EXCEPT ![u] = new]
  /\ UNCHANGED <<requestVars, tokenVars, registryVars, limiterVars, sessionVars, lost>>

PassTime ==
  /\ Tick(plan.end)
  /\ UNCHANGED <<requestVars, registryVars, limiterVars, sessionVars, password, lost>>

DropEntry(a) ==
  /\ Evict(a)
  /\ UNCHANGED <<requestVars, tokenVars, limiterVars, sessionVars, password, lost>>

(* What of the credentials of r is good now. *)
Good(r) ==
  IF pc[r] \in {"idle", "done"} \/ call[r].route \in Admin THEN {}
  ELSE {x \in {"token"} : Authentic(call[r].bearer)}
       \cup {x \in {"password"} : call[r].path # None /\ call[r].password = password[call[r].path]}

Watch == held' = [r \in Requests |-> held[r] \cup Good(r)']

RequestStep(r) ==
  \/ \E c \in plan.calls[r] : Receive(r, c)
  \/ Count(r) \/ CountKey(r) \/ Preflight(r) \/ VerifyKey(r) \/ VerifyToken(r)
  \/ CheckOrigins(r) \/ WriteApplication(r)
  \/ ConfirmPassword(r) \/ Forward(r) \/ Probe(r)
  \/ EndSession(r) \/ EndToken(r)
  \/ Validate(r) \/ Generate(r) \/ CheckRotation(r) \/ Swap(r) \/ GiveUp(r)

Environment ==
  \/ \E s \in Sessions : CommitSession(s)
  \/ \E u \in Users : ResetPassword(u)
  \/ \E a \in Apps : DropEntry(a)
  \/ PassTime

Next == ((\E r \in Requests : RequestStep(r)) \/ Environment) /\ Watch

Spec == Init /\ [][Next]_vars

------------------------------------------------------------------------------
(* Properties *)

Steps == {"idle", "count", "preflight", "key", "budget", "jwt", "confirm", "forward", "probe",
          "check", "write", "end session", "end token", "validate", "generate", "rotate",
          "swap", "done"}
Statuses == {200, 400, 401, 403, 404, 409, 422, 429, 500, 503, 504}

(* Every variable has its type. *)
TypeOK ==
  /\ TokensOK /\ RegistryOK
  /\ pc \in [Requests -> Steps]
  /\ stamp \in [Requests -> Nat]
  /\ scope \in [Requests -> Apps \cup {None}]
  /\ name \in [Requests -> Users \cup {None}]
  /\ got \in [Requests -> Pairs \cup {None}]
  /\ answer \in [Requests -> Statuses \cup {None}]
  /\ \A r \in Requests : pc[r] = "done" => answer[r] # None
  /\ session \in [Sessions -> SessionRow]
  /\ open \in [Sessions -> OpenRow \cup {None}]
  /\ password \in [Users -> Passwords]
  /\ lost \in 0..plan.failures
  /\ met \in [Requests -> SUBSET Requests]

(* middleware/jwt_auth.py: "All other routes require a valid JWT", and      *)
(* routes/users.py: a destructive operation wants the password "so a stolen *)
(* access token alone cannot destroy a profile".  A service acts for a user *)
(* only when a token of that user, and on a destructive route the password  *)
(* of that user, was good at some moment since the request came in,         *)
(* whatever API key and headers came with it and whatever is revoked,       *)
(* expires or changes while it is on its way.                               *)
IdentityProven ==
  \A r \in Requests : served[r] # None =>
    LET c == call[r] user == served[r].for
    IN  /\ Public(r) => user = None
        /\ Protected(r) => "token" \in held[r]
        /\ Protected(r) /\ c.route \notin KeyRoutes => user = token[c.bearer].user
        /\ c.route \in Confirmed => user = c.path /\ "password" \in held[r]

(* middleware/rate_limit.py: "If the count exceeds the limit" in a sliding  *)
(* window, 429.  Of the requests that an answer of Redis let pass, on one   *)
(* path and by whatever methods, no window ever holds more stamps than the  *)
(* limit, as long as they were counted in the order of their stamps and     *)
(* none waited until the key had expired.                                   *)
BudgetHolds ==
  \A b \in Buckets : ledger[b].late \/
    \A s \in ledger[b].accepted :
      Cardinality({x \in ledger[b].accepted : x <= s /\ x + Window > s}) <= LimitOf(b)

(* _ensure_origins_available: "Each origin may be claimed by at most one    *)
(* application."  Nothing is locked between the look-up and the write, and  *)
(* a suspended application is left out: two active applications list one    *)
(* origin only if their writes overlapped or one of them has been asleep.   *)
OneOwner ==
  \A a, b \in Apps : a # b /\ Shared(a, b) =>
    \/ {a, b} \cap asleep # {}
    \/ claim[a] # None /\ claim[b] \in met[claim[a]]

Calling(route) ==
  {r \in Requests : call[r] # None /\ call[r].route = route /\ ~call[r].preflight}
Logouts == Calling("logout")
Refreshes == Calling("refresh")

SignedOutBy(r) ==
  /\ r \in Logouts
  /\ answer[r] = 200 /\ ~Underway(r)
  /\ met[r] \cap Refreshes = {}

(* routes/auth.py: logout ends the session and revokes the tokens.  Once a  *)
(* logout is over that nothing failed in and that met no refresh, its       *)
(* access token is refused but for the last two seconds of its life, the    *)
(* session it named is revoked, and no refresh that presents the same token *)
(* has succeeded or will, unless it met a logout itself: auth-service       *)
(* answers with the new pair also when the rotation was refused.            *)
SignedOut ==
  \A r \in Requests : SignedOutBy(r) /\ lost = 0 =>
    LET c == call[r] IN
    /\ Verifies(c.bearer) => LastSeconds(c.bearer)
    /\ \A s \in OfHash(c.refresh) : session[s].revoked
    /\ \A s \in OfHash(c.refresh), q \in Refreshes :
         call[q].refresh = c.refresh /\ answer[q] = 200 => met[q] \cap Logouts # {}

(* Nobody is left who could write the token of pair x in a session.         *)
Settled(x) == x \in Issued /\ \A p \in Requests : got[p] = x => ~Underway(p)

(* The part of session-service that refresh and logout reach keeps the      *)
(* promise of the whole, which SessionStore shows for all its operations:   *)
(* seen at its commits, each refresh and logout has the effect of one step  *)
(* of the ledger.  A refresh that overtakes a logout does not bring the     *)
(* session back, and no token is written twice.                             *)
LedgerState == [s \in Sessions |-> IF session[s].revoked THEN "ended" ELSE "live"]
LedgerOwner == [s \in Sessions |-> session[s].user]
LedgerToken == [s \in Sessions |-> session[s].hash]
LedgerSpent == {x \in Pairs : Settled(x)}

Service == INSTANCE SessionLedger WITH
  Tokens <- Pairs,
  state <- LedgerState, owner <- LedgerOwner, token <- LedgerToken, spent <- LedgerSpent

ImplementsLedger == Service!Spec
==============================================================================
