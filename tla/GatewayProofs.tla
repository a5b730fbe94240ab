----------------------------- MODULE GatewayProofs -----------------------------
(***************************************************************************)
(* Proofs about Gateway: TypeOK, IdentityProven, BudgetHolds, OneOwner,    *)
(* SignedOut and ImplementsLedger hold for any requests, users,            *)
(* applications, plans and limits.                                         *)
(***************************************************************************)
EXTENDS Gateway, TLAPS, FiniteSetTheorems

Calls == ClientCalls \cup AdminCalls
WindowRow == [stamps : SUBSET Nat, until : Nat]
LedgerRow == [accepted : SUBSET Nat, top : Nat, late : BOOLEAN]

(* Pairs are numbered without a gap: a new one is in nobody's hands.        *)
Numbered == \E n \in Pairs : Issued = 0..n

(* TypeOK in parts, with the types of what it leaves out. *)
RequestsOK ==
  /\ plan \in Plans
  /\ pc \in [Requests -> Steps]
  /\ call \in [Requests -> Calls \cup {None}]
  /\ stamp \in [Requests -> Nat]
  /\ scope \in [Requests -> Apps \cup {None}]
  /\ name \in [Requests -> Users \cup {None}]
  /\ got \in [Requests -> Pairs \cup {None}]
  /\ target \in [Requests -> Sessions \cup {None}]
  /\ answer \in [Requests -> Statuses \cup {None}]
  /\ \A r \in Requests : pc[r] = "done" => answer[r] # None
  /\ met \in [Requests -> SUBSET Requests]
  /\ lost \in 0..plan.failures

OriginsOK == RegistryOK /\ claim \in [Apps -> Requests \cup {None}]

LimitersOK == window \in [Buckets -> WindowRow] /\ ledger \in [Buckets -> LedgerRow]

SessionsOK ==
  /\ session \in [Sessions -> SessionRow]
  /\ open \in [Sessions -> OpenRow \cup {None}]

Types ==
  /\ TokensOK /\ OriginsOK /\ RequestsOK /\ LimitersOK /\ SessionsOK
  /\ password \in [Users -> Passwords]
  /\ held \in [Requests -> SUBSET {"token", "password"}]
  /\ served \in [Requests -> [for : Users \cup {None}] \cup {None}]

(* Which route goes through which step, and what it has by then.            *)
Routed(r) ==
  LET c == call[r] IN
  /\ pc[r] = "idle" <=> c = None
  /\ pc[r] \in {"check", "write"} => c.route \in Admin
  /\ pc[r] = "write" /\ c.route = "update-app" => app[c.app] # Absent
  /\ pc[r] \notin {"idle", "check", "write", "done"} =>
       /\ c.route \in Routes
       /\ {c.bearer, c.refresh} \subseteq Issued \cup {None}
  /\ pc[r] = "key" => c.key # None
  /\ pc[r] = "budget" => scope[r] # None
  /\ pc[r] \in {"end session", "end token"} => c.route = "logout"
  /\ pc[r] \in {"validate", "generate", "rotate", "swap"} => c.route = "refresh"
  /\ pc[r] \in {"generate", "rotate", "swap"} => c.refresh # None
  /\ pc[r] \in {"rotate", "swap"} => got[r] # None
  /\ pc[r] = "swap" => target[r] # None
Routing == \A r \in Requests : Routed(r)

(* What a request that is past the JWT has proven, ...                      *)
Admitted(r) ==
  pc[r] \in {"confirm", "forward", "end session"} =>
    LET c == call[r] IN
    /\ Public(r) => name[r] = None
    /\ Protected(r) => /\ "token" \in held[r] /\ c.bearer \in Issued
                       /\ name[r] = token[c.bearer].user
    /\ c.route \in OwnRoutes => name[r] = c.path
    /\ pc[r] = "forward" /\ c.route \in Confirmed /\ c.path # None => "password" \in held[r]

(* ... and what was proven of one a service has acted for.                  *)
Proven(r) ==
  served[r] # None =>
    LET c == call[r] user == served[r].for
    IN  /\ pc[r] \in {"end token", "done"}
        /\ c # None /\ c.route \in Routes
        /\ Public(r) => user = None
        /\ Protected(r) => "token" \in held[r] /\ c.bearer \in Issued
        /\ Protected(r) /\ c.route \notin KeyRoutes => user = token[c.bearer].user
        /\ c.route \in Confirmed => user = c.path /\ "password" \in held[r]

Identity == \A r \in Requests : Admitted(r) /\ Proven(r)

(* A bucket that was counted in order: what it has accepted is still in its *)
(* window, or older than any stamp to come, and within the limit.           *)
Counted(b) ==
  /\ window[b].stamps \subseteq 0..now /\ IsFiniteSet(window[b].stamps)
  /\ ledger[b].accepted \subseteq 0..now /\ IsFiniteSet(ledger[b].accepted)
  /\ ~ledger[b].late =>
       /\ Cardinality(ledger[b].accepted) <= LimitOf(b)
       /\ \A x \in ledger[b].accepted :
            /\ x <= ledger[b].top
            /\ x + Window <= window[b].until
            /\ x \in window[b].stamps \/ x + Window <= ledger[b].top

Budgeting == (\A r \in Requests : stamp[r] <= now) /\ \A b \in Buckets : Counted(b)

(* Two administrators at work have met.  Whoever is about to write saw the  *)
(* origins free of active applications, but for those written meanwhile.    *)
AtWork(r) == pc[r] \in {"check", "write"}
Rival(a, r) == claim[a] # None /\ claim[a] \in met[r] /\ r \in met[claim[a]]

Owning ==
  /\ \A a \in Apps : claim[a] # None => call[claim[a]] # None
  /\ \A a \in Apps : app[a] # Absent /\ ~app[a].active => a \in asleep
  /\ \A r, q \in Requests : r # q /\ AtWork(r) /\ AtWork(q) => q \in met[r]
  /\ \A r \in Requests, a \in Apps :
       /\ pc[r] = "write" /\ call[r].origins # Absent
       /\ a # call[r].app /\ a \notin asleep /\ Active(a)
       /\ app[a].origins \cap call[r].origins # {}
       => Rival(a, r)
  /\ \A a, b \in Apps : a # b /\ Shared(a, b) /\ {a, b} \cap asleep = {} =>
       claim[b] # None /\ Rival(a, claim[b])

IInv == Numbered /\ Types /\ Routing /\ Identity /\ Budgeting /\ Owning
------------------------------------------------------------------------------
(* Calls and steps *)

(* What a client and an administrator send. *)
LEMMA CallFacts ==
  ASSUME NEW c \in Calls
  PROVE  /\ c # None
         /\ c \in ClientCalls <=> c.route \in Routes
         /\ c \in AdminCalls <=> c.route \in Admin
         /\ c.route \in Admin <=> c.route \notin Routes
  <1>1. Routes \cap Admin = {}
    BY DEF Routes, PublicRoutes, SignInRoutes, LinkRoutes, Probes, KeyRoutes, UserRoutes,
           ProfileRoutes, AvatarRoutes, DestructiveRoutes, OwnRoutes, SessionRoutes, Admin
  <1>2. c \in ClientCalls => c.route \in Routes
    BY DEF ClientCalls
  <1>3. c \in AdminCalls => c.route \in Admin
    BY DEF AdminCalls, Admin
  <1> QED
    BY <1>1, <1>2, <1>3, NoneAssumption DEF Calls

(* Few steps write what token-service keeps, ... *)
LEMMA TokenSteps ==
  ASSUME [Next]_vars
  PROVE  \/ UNCHANGED tokenVars
         \/ \E r \in Requests : EndToken(r) \/ Generate(r)
         \/ PassTime
  <1>1. ASSUME NEW r \in Requests, NEW c \in plan.calls[r], Receive(r, c) PROVE UNCHANGED tokenVars
    BY <1>1 DEF Receive
  <1>2. ASSUME NEW r \in Requests, Count(r) PROVE UNCHANGED tokenVars
    BY <1>2 DEF Count
  <1>3. ASSUME NEW r \in Requests, CountKey(r) PROVE UNCHANGED tokenVars
    BY <1>3 DEF CountKey
  <1>4. ASSUME NEW r \in Requests, Preflight(r) PROVE UNCHANGED tokenVars
    BY <1>4 DEF Preflight
  <1>5. ASSUME NEW r \in Requests, VerifyKey(r) PROVE UNCHANGED tokenVars
    BY <1>5 DEF VerifyKey
  <1>6. ASSUME NEW r \in Requests, VerifyToken(r) PROVE UNCHANGED tokenVars
    BY <1>6 DEF VerifyToken
  <1>7. ASSUME NEW r \in Requests, CheckOrigins(r) PROVE UNCHANGED tokenVars
    BY <1>7 DEF CheckOrigins
  <1>8. ASSUME NEW r \in Requests, WriteApplication(r) PROVE UNCHANGED tokenVars
    BY <1>8 DEF WriteApplication
  <1>9. ASSUME NEW r \in Requests, ConfirmPassword(r) PROVE UNCHANGED tokenVars
    BY <1>9 DEF ConfirmPassword
  <1>10. ASSUME NEW r \in Requests, Forward(r) PROVE UNCHANGED tokenVars
    BY <1>10 DEF Forward
  <1>11. ASSUME NEW r \in Requests, Probe(r) PROVE UNCHANGED tokenVars
    BY <1>11 DEF Probe
  <1>12. ASSUME NEW r \in Requests, EndSession(r) PROVE UNCHANGED tokenVars
    BY <1>12 DEF EndSession
  <1>13. ASSUME NEW r \in Requests, Validate(r) PROVE UNCHANGED tokenVars
    BY <1>13 DEF Validate
  <1>14. ASSUME NEW r \in Requests, CheckRotation(r) PROVE UNCHANGED tokenVars
    BY <1>14 DEF CheckRotation
  <1>15. ASSUME NEW r \in Requests, Swap(r) PROVE UNCHANGED tokenVars
    BY <1>15 DEF Swap
  <1>16. ASSUME NEW r \in Requests, GiveUp(r) PROVE UNCHANGED tokenVars
    BY <1>16 DEF GiveUp
  <1>17. ASSUME NEW x \in Sessions, CommitSession(x) PROVE UNCHANGED tokenVars
    BY <1>17 DEF CommitSession
  <1>18. ASSUME NEW x \in Users, ResetPassword(x) PROVE UNCHANGED tokenVars
    BY <1>18 DEF ResetPassword
  <1>19. ASSUME NEW x \in Apps, DropEntry(x) PROVE UNCHANGED tokenVars
    BY <1>19 DEF DropEntry
  <1>20. CASE UNCHANGED vars
    BY <1>20 DEF vars
  <1> QED
    BY <1>1, <1>2, <1>3, <1>4, <1>5, <1>6, <1>7, <1>8, <1>9, <1>10, <1>11, <1>12, <1>13, <1>14,
       <1>15, <1>16, <1>17, <1>18, <1>19, <1>20
    DEF Next, RequestStep, Environment

(* ... the applications and their origins, ... *)
LEMMA RegistrySteps ==
  ASSUME [Next]_vars
  PROVE  \/ UNCHANGED registryVars
         \/ \E r \in Requests : VerifyKey(r) \/ WriteApplication(r)
         \/ \E a \in Apps : DropEntry(a)
  <1>1. ASSUME NEW r \in Requests, NEW c \in plan.calls[r], Receive(r, c) PROVE UNCHANGED registryVars
    BY <1>1 DEF Receive
  <1>2. ASSUME NEW r \in Requests, Count(r) PROVE UNCHANGED registryVars
    BY <1>2 DEF Count
  <1>3. ASSUME NEW r \in Requests, CountKey(r) PROVE UNCHANGED registryVars
    BY <1>3 DEF CountKey
  <1>4. ASSUME NEW r \in Requests, Preflight(r) PROVE UNCHANGED registryVars
    BY <1>4 DEF Preflight
  <1>5. ASSUME NEW r \in Requests, VerifyToken(r) PROVE UNCHANGED registryVars
    BY <1>5 DEF VerifyToken
  <1>6. ASSUME NEW r \in Requests, CheckOrigins(r) PROVE UNCHANGED registryVars
    BY <1>6 DEF CheckOrigins
  <1>7. ASSUME NEW r \in Requests, ConfirmPassword(r) PROVE UNCHANGED registryVars
    BY <1>7 DEF ConfirmPassword
  <1>8. ASSUME NEW r \in Requests, Forward(r) PROVE UNCHANGED registryVars
    BY <1>8 DEF Forward
  <1>9. ASSUME NEW r \in Requests, Probe(r) PROVE UNCHANGED registryVars
    BY <1>9 DEF Probe
  <1>10. ASSUME NEW r \in Requests, EndSession(r) PROVE UNCHANGED registryVars
    BY <1>10 DEF EndSession
  <1>11. ASSUME NEW r \in Requests, EndToken(r) PROVE UNCHANGED registryVars
    BY <1>11 DEF EndToken
  <1>12. ASSUME NEW r \in Requests, Validate(r) PROVE UNCHANGED registryVars
    BY <1>12 DEF Validate
  <1>13. ASSUME NEW r \in Requests, Generate(r) PROVE UNCHANGED registryVars
    BY <1>13 DEF Generate
  <1>14. ASSUME NEW r \in Requests, CheckRotation(r) PROVE UNCHANGED registryVars
    BY <1>14 DEF CheckRotation
  <1>15. ASSUME NEW r \in Requests, Swap(r) PROVE UNCHANGED registryVars
    BY <1>15 DEF Swap
  <1>16. ASSUME NEW r \in Requests, GiveUp(r) PROVE UNCHANGED registryVars
    BY <1>16 DEF GiveUp
  <1>17. ASSUME NEW x \in Sessions, CommitSession(x) PROVE UNCHANGED registryVars
    BY <1>17 DEF CommitSession
  <1>18. ASSUME NEW x \in Users, ResetPassword(x) PROVE UNCHANGED registryVars
    BY <1>18 DEF ResetPassword
  <1>19. CASE PassTime
    BY <1>19 DEF PassTime
  <1>20. CASE UNCHANGED vars
    BY <1>20 DEF vars
  <1> QED
    BY <1>1, <1>2, <1>3, <1>4, <1>5, <1>6, <1>7, <1>8, <1>9, <1>10, <1>11, <1>12, <1>13, <1>14,
       <1>15, <1>16, <1>17, <1>18, <1>19, <1>20
    DEF Next, RequestStep, Environment

(* ... the windows of the limiters, ... *)
LEMMA LimiterSteps ==
  ASSUME [Next]_vars
  PROVE  \/ UNCHANGED limiterVars
         \/ \E r \in Requests : Count(r) \/ CountKey(r)
  <1>1. ASSUME NEW r \in Requests, NEW c \in plan.calls[r], Receive(r, c) PROVE UNCHANGED limiterVars
    BY <1>1 DEF Receive
  <1>2. ASSUME NEW r \in Requests, Preflight(r) PROVE UNCHANGED limiterVars
    BY <1>2 DEF Preflight
  <1>3. ASSUME NEW r \in Requests, VerifyKey(r) PROVE UNCHANGED limiterVars
    BY <1>3 DEF VerifyKey
  <1>4. ASSUME NEW r \in Requests, VerifyToken(r) PROVE UNCHANGED limiterVars
    BY <1>4 DEF VerifyToken
  <1>5. ASSUME NEW r \in Requests, CheckOrigins(r) PROVE UNCHANGED limiterVars
    BY <1>5 DEF CheckOrigins
  <1>6. ASSUME NEW r \in Requests, WriteApplication(r) PROVE UNCHANGED limiterVars
    BY <1>6 DEF WriteApplication
  <1>7. ASSUME NEW r \in Requests, ConfirmPassword(r) PROVE UNCHANGED limiterVars
    BY <1>7 DEF ConfirmPassword
  <1>8. ASSUME NEW r \in Requests, Forward(r) PROVE UNCHANGED limiterVars
    BY <1>8 DEF Forward
  <1>9. ASSUME NEW r \in Requests, Probe(r) PROVE UNCHANGED limiterVars
    BY <1>9 DEF Probe
  <1>10. ASSUME NEW r \in Requests, EndSession(r) PROVE UNCHANGED limiterVars
    BY <1>10 DEF EndSession
  <1>11. ASSUME NEW r \in Requests, EndToken(r) PROVE UNCHANGED limiterVars
    BY <1>11 DEF EndToken
  <1>12. ASSUME NEW r \in Requests, Validate(r) PROVE UNCHANGED limiterVars
    BY <1>12 DEF Validate
  <1>13. ASSUME NEW r \in Requests, Generate(r) PROVE UNCHANGED limiterVars
    BY <1>13 DEF Generate
  <1>14. ASSUME NEW r \in Requests, CheckRotation(r) PROVE UNCHANGED limiterVars
    BY <1>14 DEF CheckRotation
  <1>15. ASSUME NEW r \in Requests, Swap(r) PROVE UNCHANGED limiterVars
    BY <1>15 DEF Swap
  <1>16. ASSUME NEW r \in Requests, GiveUp(r) PROVE UNCHANGED limiterVars
    BY <1>16 DEF GiveUp
  <1>17. ASSUME NEW x \in Sessions, CommitSession(x) PROVE UNCHANGED limiterVars
    BY <1>17 DEF CommitSession
  <1>18. ASSUME NEW x \in Users, ResetPassword(x) PROVE UNCHANGED limiterVars
    BY <1>18 DEF ResetPassword
  <1>19. ASSUME NEW x \in Apps, DropEntry(x) PROVE UNCHANGED limiterVars
    BY <1>19 DEF DropEntry
  <1>20. CASE PassTime
    BY <1>20 DEF PassTime
  <1>21. CASE UNCHANGED vars
    BY <1>21 DEF vars
  <1> QED
    BY <1>1, <1>2, <1>3, <1>4, <1>5, <1>6, <1>7, <1>8, <1>9, <1>10, <1>11, <1>12, <1>13, <1>14,
       <1>15, <1>16, <1>17, <1>18, <1>19, <1>20, <1>21
    DEF Next, RequestStep, Environment

(* ... the sessions, ... *)
LEMMA SessionSteps ==
  ASSUME [Next]_vars
  PROVE  \/ UNCHANGED sessionVars
         \/ \E r \in Requests : EndSession(r) \/ Swap(r)
         \/ \E s \in Sessions : CommitSession(s)
  <1>1. ASSUME NEW r \in Requests, NEW c \in plan.calls[r], Receive(r, c) PROVE UNCHANGED sessionVars
    BY <1>1 DEF Receive
  <1>2. ASSUME NEW r \in Requests, Count(r) PROVE UNCHANGED sessionVars
    BY <1>2 DEF Count
  <1>3. ASSUME NEW r \in Requests, CountKey(r) PROVE UNCHANGED sessionVars
    BY <1>3 DEF CountKey
  <1>4. ASSUME NEW r \in Requests, Preflight(r) PROVE UNCHANGED sessionVars
    BY <1>4 DEF Preflight
  <1>5. ASSUME NEW r \in Requests, VerifyKey(r) PROVE UNCHANGED sessionVars
    BY <1>5 DEF VerifyKey
  <1>6. ASSUME NEW r \in Requests, VerifyToken(r) PROVE UNCHANGED sessionVars
    BY <1>6 DEF VerifyToken
  <1>7. ASSUME NEW r \in Requests, CheckOrigins(r) PROVE UNCHANGED sessionVars
    BY <1>7 DEF CheckOrigins
  <1>8. ASSUME NEW r \in Requests, WriteApplication(r) PROVE UNCHANGED sessionVars
    BY <1>8 DEF WriteApplication
  <1>9. ASSUME NEW r \in Requests, ConfirmPassword(r) PROVE UNCHANGED sessionVars
    BY <1>9 DEF ConfirmPassword
  <1>10. ASSUME NEW r \in Requests, Forward(r) PROVE UNCHANGED sessionVars
    BY <1>10 DEF Forward
  <1>11. ASSUME NEW r \in Requests, Probe(r) PROVE UNCHANGED sessionVars
    BY <1>11 DEF Probe
  <1>12. ASSUME NEW r \in Requests, EndToken(r) PROVE UNCHANGED sessionVars
    BY <1>12 DEF EndToken
  <1>13. ASSUME NEW r \in Requests, Validate(r) PROVE UNCHANGED sessionVars
    BY <1>13 DEF Validate
  <1>14. ASSUME NEW r \in Requests, Generate(r) PROVE UNCHANGED sessionVars
    BY <1>14 DEF Generate
  <1>15. ASSUME NEW r \in Requests, CheckRotation(r) PROVE UNCHANGED sessionVars
    BY <1>15 DEF CheckRotation
  <1>16. ASSUME NEW r \in Requests, GiveUp(r) PROVE UNCHANGED sessionVars
    BY <1>16 DEF GiveUp
  <1>17. ASSUME NEW x \in Users, ResetPassword(x) PROVE UNCHANGED sessionVars
    BY <1>17 DEF ResetPassword
  <1>18. ASSUME NEW x \in Apps, DropEntry(x) PROVE UNCHANGED sessionVars
    BY <1>18 DEF DropEntry
  <1>19. CASE PassTime
    BY <1>19 DEF PassTime
  <1>20. CASE UNCHANGED vars
    BY <1>20 DEF vars
  <1> QED
    BY <1>1, <1>2, <1>3, <1>4, <1>5, <1>6, <1>7, <1>8, <1>9, <1>10, <1>11, <1>12, <1>13, <1>14,
       <1>15, <1>16, <1>17, <1>18, <1>19, <1>20
    DEF Next, RequestStep, Environment

(* ... and the passwords. *)
LEMMA PasswordSteps ==
  ASSUME [Next]_vars
  PROVE  UNCHANGED password \/ \E u \in Users : ResetPassword(u)
  <1>1. ASSUME NEW r \in Requests, NEW c \in plan.calls[r], Receive(r, c) PROVE UNCHANGED password
    BY <1>1 DEF Receive
  <1>2. ASSUME NEW r \in Requests, Count(r) PROVE UNCHANGED password
    BY <1>2 DEF Count
  <1>3. ASSUME NEW r \in Requests, CountKey(r) PROVE UNCHANGED password
    BY <1>3 DEF CountKey
  <1>4. ASSUME NEW r \in Requests, Preflight(r) PROVE UNCHANGED password
    BY <1>4 DEF Preflight
  <1>5. ASSUME NEW r \in Requests, VerifyKey(r) PROVE UNCHANGED password
    BY <1>5 DEF VerifyKey
  <1>6. ASSUME NEW r \in Requests, VerifyToken(r) PROVE UNCHANGED password
    BY <1>6 DEF VerifyToken
  <1>7. ASSUME NEW r \in Requests, CheckOrigins(r) PROVE UNCHANGED password
    BY <1>7 DEF CheckOrigins
  <1>8. ASSUME NEW r \in Requests, WriteApplication(r) PROVE UNCHANGED password
    BY <1>8 DEF WriteApplication
  <1>9. ASSUME NEW r \in Requests, ConfirmPassword(r) PROVE UNCHANGED password
    BY <1>9 DEF ConfirmPassword
  <1>10. ASSUME NEW r \in Requests, Forward(r) PROVE UNCHANGED password
    BY <1>10 DEF Forward
  <1>11. ASSUME NEW r \in Requests, Probe(r) PROVE UNCHANGED password
    BY <1>11 DEF Probe
  <1>12. ASSUME NEW r \in Requests, EndSession(r) PROVE UNCHANGED password
    BY <1>12 DEF EndSession
  <1>13. ASSUME NEW r \in Requests, EndToken(r) PROVE UNCHANGED password
    BY <1>13 DEF EndToken
  <1>14. ASSUME NEW r \in Requests, Validate(r) PROVE UNCHANGED password
    BY <1>14 DEF Validate
  <1>15. ASSUME NEW r \in Requests, Generate(r) PROVE UNCHANGED password
    BY <1>15 DEF Generate
  <1>16. ASSUME NEW r \in Requests, CheckRotation(r) PROVE UNCHANGED password
    BY <1>16 DEF CheckRotation
  <1>17. ASSUME NEW r \in Requests, Swap(r) PROVE UNCHANGED password
    BY <1>17 DEF Swap
  <1>18. ASSUME NEW r \in Requests, GiveUp(r) PROVE UNCHANGED password
    BY <1>18 DEF GiveUp
  <1>19. ASSUME NEW x \in Sessions, CommitSession(x) PROVE UNCHANGED password
    BY <1>19 DEF CommitSession
  <1>20. ASSUME NEW x \in Apps, DropEntry(x) PROVE UNCHANGED password
    BY <1>20 DEF DropEntry
  <1>21. CASE PassTime
    BY <1>21 DEF PassTime
  <1>22. CASE UNCHANGED vars
    BY <1>22 DEF vars
  <1> QED
    BY <1>1, <1>2, <1>3, <1>4, <1>5, <1>6, <1>7, <1>8, <1>9, <1>10, <1>11, <1>12, <1>13, <1>14,
       <1>15, <1>16, <1>17, <1>18, <1>19, <1>20, <1>21, <1>22
    DEF Next, RequestStep, Environment

(* What was good of a request stays noted. *)
LEMMA Watched ==
  ASSUME [Next]_vars, held \in [Requests -> SUBSET {"token", "password"}]
  PROVE  /\ held' \in [Requests -> SUBSET {"token", "password"}]
         /\ \A r \in Requests : held[r] \subseteq held'[r]
         /\ \/ UNCHANGED vars
            \/ \A r \in Requests : Good(r)' \subseteq held'[r]
  <1>1. CASE Watch
    <2>1. \A r \in Requests : Good(r)' \subseteq {"token", "password"}
      BY DEF Good
    <2> QED
      BY <1>1, <2>1 DEF Watch
  <1>2. CASE UNCHANGED vars
    BY <1>2 DEF vars
  <1> QED
    BY <1>1, <1>2 DEF Next

------------------------------------------------------------------------------
(* Pairs *)

(* A new pair has a number nobody has seen. *)
LEMMA NewPairs ==
  ASSUME Numbered
  PROVE  /\ Issued \subseteq Pairs /\ NewPair \notin Issued
         /\ \A n \in Pairs : Issued = 0..n => NewPair = n + 1
  <1>1. PICK n \in Pairs : Issued = 0..n
    BY DEF Numbered
  <1>2. n \in Nat /\ 0..n \subseteq Pairs
    BY PairsAssumption DEF Pairs
  <1>3. Cardinality(0..n) = n + 1
    BY <1>2, FS_Interval
  <1> HIDE DEF Issued
  <1>4. ASSUME NEW m \in Pairs, Issued = 0..m PROVE m = n
    BY <1>1, <1>2, <1>4, PairsAssumption DEF Pairs
  <1> QED
    BY <1>1, <1>2, <1>3, <1>4 DEF NewPair

(* Seconds and times to live are numbers. *)
LEMMA Numbers ==
  ASSUME TokensOK
  PROVE  Second \in Nat /\ \A p \in Pairs : token[p] # None => Ttl(p) * PerSecond \in Nat
  <1>1. \A m \in Nat : m \div PerSecond \in Nat
    BY ClockAssumption
  <1>2. now \in Nat /\ PerSecond \in Nat
    BY ClockAssumption DEF TokensOK
  <1>3. ASSUME NEW p \in Pairs, token[p] # None PROVE Ttl(p) * PerSecond \in Nat
    <2>1. token[p].exp \in Nat
      BY <1>3 DEF TokensOK, Token
    <2>2. Expiry(p) \in Nat
      BY <1>2, <2>1 DEF Expiry
    <2>3. Ttl(p) \in Nat
      BY <1>1, <1>2, <2>2 DEF Ttl
    <2> QED
      BY <1>2, <2>3
  <1> QED
    BY <1>1, <1>2, <1>3 DEF Second

(* Pairs are only added, and keep user and expiry. *)
LEMMA TokensStep ==
  ASSUME Numbered, TokensOK, Routing, RequestsOK, [Next]_vars
  PROVE  /\ Numbered' /\ TokensOK'
         /\ Issued \subseteq Issued' /\ \A p \in Issued : token'[p] = token[p]
         /\ now <= now'
  <1>1. CASE UNCHANGED tokenVars
    BY <1>1 DEF tokenVars, Numbered, TokensOK, Issued
  <1>2. ASSUME NEW r \in Requests, EndToken(r)
        PROVE  /\ Numbered' /\ TokensOK' /\ UNCHANGED <<token, now>>
    <2>1. UNCHANGED <<token, now>>
      BY <1>2 DEF EndToken
    <2>2. black' \in [Pairs -> Nat \cup {None}]
      <3>1. CASE RevokePair(call[r].bearer)
        <4> DEFINE p == call[r].bearer
        <4>1. CASE Decodes(p)
          <5>1. p \in Issued \cup {None}
            BY <1>2 DEF EndToken, At, Routing, Routed, Steps
          <5>2. None \notin Pairs
            BY AbsentAssumption DEF Pairs
          <5>3. p \in Pairs => token[p] # None
            BY <5>1, <5>2 DEF Issued
          <5>4. p \in Pairs => now + Ttl(p) * PerSecond \in Nat
            BY <5>3, Numbers DEF TokensOK
          <5>5. RevokePair(p)
            BY <3>1
          <5> HIDE DEF p
          <5> QED
            BY <5>4, <5>5 DEF RevokePair, TokensOK
        <4>2. CASE ~Decodes(p)
          BY <3>1, <4>2 DEF RevokePair, TokensOK
        <4> QED
          BY <4>1, <4>2
      <3>2. CASE UNCHANGED black
        BY <3>2 DEF TokensOK
      <3> QED
        BY <1>2, <3>1, <3>2 DEF EndToken
    <2> QED
      BY <2>1, <2>2 DEF Numbered, TokensOK, Issued
  <1>3. ASSUME NEW r \in Requests, Generate(r)
        PROVE  /\ Numbered' /\ TokensOK' /\ now' = now
               /\ Issued \subseteq Issued' /\ \A p \in Issued : token'[p] = token[p]
    <2>1. UNCHANGED <<now, black>>
      BY <1>3 DEF Generate
    <2>2. CASE UNCHANGED token
      BY <2>1, <2>2 DEF Numbered, TokensOK, Issued
    <2>3. CASE GeneratePair(token[call[r].refresh].user)
      <3>1. call[r].refresh \in Issued
        BY <1>3 DEF Generate, At, Routing, Routed, Steps
      <3>2. token[call[r].refresh].user \in Users
        BY <3>1 DEF Issued, TokensOK, Token
      <3> DEFINE new == [user |-> token[call[r].refresh].user, exp |-> Second + Life]
      <3>3. new \in Token /\ new # None
        BY <3>2, Numbers, ClockAssumption, AbsentAssumption DEF Token
      <3>4. token' = [token EXCEPT ![NewPair] = new] /\ NewPair \in Pairs
        BY <2>3 DEF GeneratePair
      <3>5. NewPair \notin Issued
        BY NewPairs
      <3> HIDE DEF new
      <3>6. token' \in [Pairs -> Token \cup {None}]
        BY <3>3, <3>4 DEF TokensOK
      <3>7. Issued' = Issued \cup {NewPair}
        BY <3>3, <3>4 DEF Issued, TokensOK
      <3>8. Numbered'
        <4>1. PICK n \in Pairs : Issued = 0..n
          BY DEF Numbered
        <4>2. NewPair = n + 1 /\ n \in Nat
          BY <4>1, NewPairs DEF Pairs
        <4>3. Issued' = 0..(n + 1)
          BY <3>7, <4>1, <4>2
        <4> QED
          BY <3>4, <4>2, <4>3 DEF Numbered
      <3>9. \A p \in Issued : token'[p] = token[p]
        BY <3>4, <3>5 DEF TokensOK, Issued
      <3> QED
        BY <2>1, <3>6, <3>7, <3>8, <3>9 DEF TokensOK
    <2> QED
      BY <1>3, <2>2, <2>3 DEF Generate
  <1>4. CASE PassTime
    BY <1>4 DEF PassTime, Tick, Numbered, TokensOK, Issued
  <1>5. now \in Nat /\ (now' = now => now <= now')
    BY DEF TokensOK
  <1>6. PassTime => now' = now + 1
    BY DEF PassTime, Tick
  <1> QED
    BY <1>1, <1>2, <1>3, <1>4, <1>5, <1>6, TokenSteps DEF tokenVars, Issued

------------------------------------------------------------------------------
(* Types *)

(* What a step is about: a call of the kind it is for. *)
LEMMA CallAt ==
  ASSUME RequestsOK, Routing, NEW r \in Requests, pc[r] \notin {"idle", "done"}
  PROVE  /\ call[r] \in Calls
         /\ pc[r] \in {"check", "write"} => call[r] \in AdminCalls
         /\ pc[r] \notin {"check", "write"} => call[r] \in ClientCalls
  BY CallFacts DEF RequestsOK, Routing, Routed

(* What an administrator writes is a row. *)
LEMMA WriteTyped ==
  ASSUME OriginsOK, RequestsOK, Routing, NEW r \in Requests, pc[r] = "write", Write(call[r], r)
  PROVE  call[r].app \in Apps /\ app'[call[r].app] \in Application /\ OriginsOK'
  <1> DEFINE c == call[r]
  <1>1. c \in AdminCalls
    BY CallAt
  <1>2. c.app \in Apps /\ c.route \in {"create", "update-app"}
    BY <1>1 DEF AdminCalls
  <1>3. c.route = "create" => Created(c) \in Application
    BY <1>1 DEF AdminCalls, Created, Application
  <1>4. c.route = "update-app" => Updated(c) \in Application
    <2> SUFFICES ASSUME c.route = "update-app" PROVE Updated(c) \in Application
      OBVIOUS
    <2>1. app[c.app] \in Application
      BY <1>2 DEF Routing, Routed, OriginsOK, RegistryOK
    <2>2. c.origins \in (SUBSET Origins) \cup {Absent} /\ c.active \in BOOLEAN \cup {Absent}
      BY <1>1 DEF AdminCalls
    <2> HIDE DEF c
    <2> QED
      BY <2>1, <2>2 DEF Updated, Application
  <1> HIDE DEF c
  <1>5. Write(c, r)
    BY DEF c
  <1>6. c.app \in Apps /\ app'[c.app] \in Application
    BY <1>2, <1>3, <1>4, <1>5 DEF Write, OriginsOK, RegistryOK
  <1>7. OriginsOK'
    <2>1. app' \in [Apps -> Application \cup {Absent}]
      BY <1>2, <1>3, <1>4, <1>5 DEF Write, OriginsOK, RegistryOK
    <2>2. claim' \in [Apps -> Requests \cup {None}]
      BY <1>2, <1>5 DEF Write, OriginsOK
    <2>3. asleep' \subseteq Apps /\ cached' = cached
      BY <1>2, <1>5 DEF Write, OriginsOK, RegistryOK
    <2> QED
      BY <2>1, <2>2, <2>3 DEF OriginsOK, RegistryOK
  <1> QED
    BY <1>6, <1>7 DEF c

(* Rows and entries of applications. *)
LEMMA OriginsStep ==
  ASSUME OriginsOK, RequestsOK, Routing, [Next]_vars
  PROVE  OriginsOK'
  <1>1. CASE UNCHANGED registryVars
    BY <1>1 DEF registryVars, OriginsOK, RegistryOK
  <1>2. ASSUME NEW r \in Requests, VerifyKey(r) PROVE OriginsOK'
    <2> DEFINE x == call[r].key
    <2>1. x \in Apps
      BY <1>2, CallAt DEF VerifyKey, At, Routing, Routed, ClientCalls
    <2>2. CASE UNCHANGED cached
      BY <1>2, <2>2 DEF VerifyKey, OriginsOK, RegistryOK
    <2>3. CASE Accepted(x) /\ Fill(x)
      <3>1. Resolution(x) \in SUBSET Origins
        BY <2>1, <2>3 DEF Accepted, Active, Resolution, OriginsOK, RegistryOK, Application
      <3>2. UNCHANGED <<app, claim, asleep>>
        BY <1>2 DEF VerifyKey
      <3> HIDE DEF x
      <3> QED
        BY <2>3, <3>1, <3>2 DEF Fill, OriginsOK, RegistryOK
    <2> QED
      BY <1>2, <2>2, <2>3 DEF VerifyKey
  <1>3. ASSUME NEW r \in Requests, WriteApplication(r) PROVE OriginsOK'
    <2>1. CASE UNCHANGED registryVars
      BY <2>1, <1>1
    <2>2. CASE Write(call[r], r)
      BY <1>3, <2>2, WriteTyped DEF WriteApplication, At
    <2> QED
      BY <1>3, <2>1, <2>2 DEF WriteApplication
  <1>4. ASSUME NEW a \in Apps, DropEntry(a) PROVE OriginsOK'
    BY <1>4 DEF DropEntry, Evict, OriginsOK, RegistryOK
  <1> QED
    BY <1>1, <1>2, <1>3, <1>4, RegistrySteps

(* The bucket of a call. *)
LEMMA InBuckets ==
  ASSUME NEW c \in ClientCalls, NEW x
  PROVE  /\ x = c.address => <<x, PathOf(c)>> \in Buckets
         /\ x \in Apps => <<x, PathOf(c)>> \in Buckets
  <1>1. c.route \in Routes /\ c.path \in Users \cup {None} /\ c.address \in Addresses
    BY DEF ClientCalls
  <1> DEFINE d == [route |-> c.route, path |-> c.path]
  <1>2. d \in [route : Routes, path : Users \cup {None}] /\ PathOf(d) = PathOf(c)
    BY <1>1 DEF PathOf
  <1> HIDE DEF d
  <1>3. PathOf(c) \in Paths
    BY <1>2 DEF Paths
  <1> QED
    BY <1>1, <1>3 DEF Buckets

(* The limit of a bucket is a number. *)
LEMMA LimitType == \A b \in Buckets : LimitOf(b) \in Nat
  <1> SUFFICES ASSUME NEW b \in Buckets PROVE LimitOf(b) \in Nat
    OBVIOUS
  <1>1. PICK c \in [route : Routes, path : Users \cup {None}] : b[2] = PathOf(c)
    BY DEF Buckets, Paths
  <1>2. b[2][1] \in Resources
    BY <1>1 DEF PathOf, Resources
  <1> HIDE DEF Resources
  <1> QED
    BY <1>2, LimitAssumption DEF LimitOf

(* The windows. *)
LEMMA LimitersStep ==
  ASSUME LimitersOK, RequestsOK, TokensOK, Routing, [Next]_vars
  PROVE  LimitersOK'
  <1>1. CASE UNCHANGED limiterVars
    BY <1>1 DEF limiterVars, LimitersOK
  <1>2. ASSUME NEW b \in Buckets, NEW s \in Nat, NEW admitted, Enter(b, s), Note(b, s, admitted)
        PROVE  LimitersOK'
    <2>1. now + Window \in Nat
      BY WindowAssumption DEF TokensOK
    <2>2. Entered(b, s) \in SUBSET Nat
      BY DEF Entered, Recent, Live, LimitersOK, WindowRow
    <2>3. window' \in [Buckets -> WindowRow]
      BY <1>2, <2>1, <2>2 DEF Enter, LimitersOK, WindowRow
    <2>4. ledger' \in [Buckets -> LedgerRow]
      <3>1. ledger[b] \in LedgerRow
        BY DEF LimitersOK
      <3> DEFINE l == [ledger[b] EXCEPT
                         !.accepted = IF admitted THEN {x \in @ : x + Window > s} \cup {s} ELSE @,
                         !.top = IF s > @ THEN s ELSE @,
                         !.late = @ \/ s < ledger[b].top \/ (s < window[b].until /\ window[b].until <= now)]
      <3>2. l \in LedgerRow
        BY <3>1 DEF LedgerRow
      <3>3. ledger' = [ledger EXCEPT ![b] = l]
        BY <1>2 DEF Note
      <3> HIDE DEF l
      <3> QED
        BY <3>2, <3>3 DEF LimitersOK
    <2> QED
      BY <2>3, <2>4 DEF LimitersOK
  <1>3. ASSUME NEW r \in Requests, Count(r) PROVE LimitersOK'
    <2>1. <<call[r].address, PathOf(call[r])>> \in Buckets /\ stamp[r] \in Nat
      BY <1>3, CallAt, InBuckets DEF Count, At, RequestsOK
    <2> QED
      BY <1>1, <1>2, <1>3, <2>1 DEF Count, Budget
  <1>4. ASSUME NEW r \in Requests, CountKey(r) PROVE LimitersOK'
    <2>1. scope[r] \in Apps /\ call[r] \in ClientCalls /\ stamp[r] \in Nat
      BY <1>4, CallAt DEF CountKey, At, Routing, Routed, RequestsOK
    <2>2. <<scope[r], PathOf(call[r])>> \in Buckets
      BY <2>1, InBuckets
    <2> QED
      BY <1>1, <1>2, <1>4, <2>1, <2>2 DEF CountKey, Budget
  <1> QED
    BY <1>1, <1>3, <1>4, LimiterSteps

(* Rows of sessions, written and committed. *)
LEMMA SessionsStep ==
  ASSUME SessionsOK, RequestsOK, Routing, [Next]_vars
  PROVE  SessionsOK'
  <1>1. CASE UNCHANGED sessionVars
    BY <1>1 DEF sessionVars, SessionsOK
  <1>2. ASSUME NEW r \in Requests, EndSession(r) PROVE SessionsOK'
    <2>1. UNCHANGED session
      BY <1>2 DEF EndSession
    <2>2. \A s \in Sessions : [session[s] EXCEPT !.revoked = TRUE] \in SessionRow
      BY DEF SessionsOK, SessionRow
    <2>3. CASE UNCHANGED open
      BY <2>1, <2>3 DEF SessionsOK
    <2>4. CASE open' = [s \in Sessions |->
                         IF s \in OfHash(call[r].refresh)
                         THEN [by |-> r, row |-> [session[s] EXCEPT !.revoked = TRUE]]
                         ELSE open[s]]
      BY <2>1, <2>2, <2>4 DEF SessionsOK, OpenRow
    <2> QED
      BY <1>2, <2>3, <2>4 DEF EndSession
  <1>3. ASSUME NEW r \in Requests, Swap(r) PROVE SessionsOK'
    <2>1. target[r] \in Sessions /\ got[r] \in Pairs
      BY <1>3 DEF Swap, At, Routing, Routed, RequestsOK, Steps
    <2>2. [session[target[r]] EXCEPT !.hash = got[r]] \in SessionRow
      BY <2>1 DEF SessionsOK, SessionRow
    <2> QED
      BY <1>3, <2>1, <2>2 DEF Swap, Put, SessionsOK, OpenRow
  <1>4. ASSUME NEW s \in Sessions, CommitSession(s) PROVE SessionsOK'
    BY <1>4 DEF CommitSession, SessionsOK, OpenRow
  <1> QED
    BY <1>1, <1>2, <1>3, <1>4, SessionSteps

(* Passwords. *)
LEMMA PasswordStep ==
  ASSUME password \in [Users -> Passwords], plan \in Plans, [Next]_vars
  PROVE  password' \in [Users -> Passwords]
  BY PasswordSteps, PlansAssumption DEF ResetPassword

(* A plan, and the step that a route leads to. *)
LEMMA PlanFacts ==
  ASSUME RequestsOK
  PROVE  /\ \A r \in Requests : plan.calls[r] \subseteq Calls
         /\ plan.failures \in Nat /\ plan.end \in Nat
  BY PlansAssumption DEF RequestsOK, Calls

(* Where a request goes that the JWT lets pass. *)
LEMMA NextSteps ==
  \A c \in Calls : NextStep(c) \in {"end session", "validate", "probe", "confirm", "forward"}
  BY DEF NextStep

(* None is no status. *)
LEMMA StatusFacts == Statuses \subseteq Nat /\ None \notin Statuses
  BY AbsentAssumption DEF Statuses

(* Whoever is sent a response has one; whoever is not keeps what it had.    *)
Answered ==
  /\ answer' \in [Requests -> Statuses \cup {None}]
  /\ \A q \in Requests : answer[q] # None => answer'[q] # None
  /\ \A q \in Requests : pc'[q] = "done" => answer'[q] # None

(* An end sends a response to whoever has none. *)
LEMMA Ends ==
  ASSUME RequestsOK, NEW r \in Requests, NEW code \in Statuses, End(r, code)
  PROVE  Answered /\ pc' = [pc EXCEPT ![r] = "done"]
  <1>1. \A q \in Requests : answer'[q] = IF q = r /\ answer[q] = None THEN code ELSE answer[q]
    BY DEF End, Respond, RequestsOK
  <1>2. answer' \in [Requests -> Statuses \cup {None}]
    BY DEF End, Respond, RequestsOK
  <1>3. pc' = [pc EXCEPT ![r] = "done"]
    BY DEF End, Go
  <1> QED
    BY <1>1, <1>2, <1>3, StatusFacts DEF Answered, RequestsOK

(* Going on sends nothing. *)
LEMMA Goes ==
  ASSUME RequestsOK, NEW r \in Requests, NEW step, step # "done", Go(r, step), UNCHANGED answer
  PROVE  Answered
  BY DEF Go, Answered, RequestsOK

(* Nor does standing still. *)
LEMMA Stays == RequestsOK /\ UNCHANGED <<pc, answer>> => Answered
  BY DEF Answered, RequestsOK

(* The limiters and the JWT end a request or send it on. *)
LEMMA Budgets ==
  ASSUME NEW r, NEW b, NEW next, Budget(r, b, next)
  PROVE  /\ End(r, 429) \/ (Go(r, next) /\ UNCHANGED answer)
         /\ UNCHANGED lost \/ Lose
         /\ \/ UNCHANGED limiterVars
            \/ \E admitted \in BOOLEAN :
                 Enter(b, stamp[r]) /\ Note(b, stamp[r], admitted) /\ (admitted => ~Over(b, stamp[r]))
  BY DEF Budget

(* Past the JWT a request ends, or it goes on as a user its path may name. *)
LEMMA Dispatches ==
  ASSUME RequestsOK, NEW r \in Requests, call[r] \in Calls, NEW user, Dispatch(r, user)
  PROVE  \/ End(r, 403) \/ End(r, 422)
         \/ /\ call[r].route \in OwnRoutes => user = call[r].path
            /\ Go(r, NextStep(call[r])) /\ UNCHANGED answer
  BY DEF Dispatch

(* The JWT middleware fails, refuses, or lets in a user it has a reason for. *)
LEMMA Admits ==
  ASSUME NEW r, VerifyToken(r)
  PROVE  /\ UNCHANGED lost \/ Lose
         /\ \/ End(r, 503) /\ UNCHANGED name
            \/ End(r, 401) /\ UNCHANGED name
            \/ \E user :
                 /\ Dispatch(r, user) /\ name' = [name EXCEPT ![r] = user]
                 /\ \/ ByKeyAlone(r) /\ user = name[r]
                    \/ Public(r) /\ user = None
                    \/ /\ Protected(r) /\ Authentic(call[r].bearer)
                       /\ user = token[call[r].bearer].user
  BY DEF VerifyToken

(* Responses, for the steps that send one. *)
LEMMA AnswersStep ==
  ASSUME RequestsOK, Routing, [Next]_vars
  PROVE  Answered
  <1>s. {200, 400, 401, 403, 404, 409, 422, 429, 500, 503, 504} = Statuses
    BY DEF Statuses
  <1>1. ASSUME NEW r \in Requests, NEW c \in plan.calls[r], Receive(r, c) PROVE Answered
    BY <1>1, <1>s, Ends, Goes, Stays, Goes
    DEF Receive, At
  <1>2. ASSUME NEW r \in Requests, Count(r) PROVE Answered
    BY <1>2, <1>s, Ends, Goes, Stays, CallAt, Budgets
    DEF Count, At, AfterLimit
  <1>3. ASSUME NEW r \in Requests, CountKey(r) PROVE Answered
    BY <1>3, <1>s, Ends, Goes, Stays, Budgets
    DEF CountKey, At
  <1>4. ASSUME NEW r \in Requests, Preflight(r) PROVE Answered
    BY <1>4, <1>s, Ends, Goes, Stays
    DEF Preflight, At
  <1>5. ASSUME NEW r \in Requests, VerifyKey(r) PROVE Answered
    BY <1>5, <1>s, Ends, Goes, Stays
    DEF VerifyKey, At
  <1>6. ASSUME NEW r \in Requests, VerifyToken(r) PROVE Answered
    <2>1. \/ End(r, 403) \/ End(r, 422) \/ End(r, 503) \/ End(r, 401)
          \/ Go(r, NextStep(call[r])) /\ UNCHANGED answer
      BY <1>6, CallAt, Admits, Dispatches DEF VerifyToken, At
    <2>2. NextStep(call[r]) \in Steps \ {"done"}
      BY <1>6, CallAt, NextSteps DEF VerifyToken, At, Steps
    <2> QED
      BY <2>1, <2>2, <1>s, Ends, Goes
  <1>7. ASSUME NEW r \in Requests, CheckOrigins(r) PROVE Answered
    BY <1>7, <1>s, Ends, Goes, Stays
    DEF CheckOrigins, At
  <1>8. ASSUME NEW r \in Requests, WriteApplication(r) PROVE Answered
    BY <1>8, <1>s, Ends, Goes, Stays
    DEF WriteApplication, At
  <1>9. ASSUME NEW r \in Requests, ConfirmPassword(r) PROVE Answered
    BY <1>9, <1>s, Ends, Goes, Stays
    DEF ConfirmPassword, At
  <1>10. ASSUME NEW r \in Requests, Forward(r) PROVE Answered
    BY <1>10, <1>s, Ends, Goes, Stays
    DEF Forward, At
  <1>11. ASSUME NEW r \in Requests, Probe(r) PROVE Answered
    BY <1>11, <1>s, Ends, Goes, Stays
    DEF Probe, At
  <1>12. ASSUME NEW r \in Requests, EndSession(r) PROVE Answered
    <2>1. Go(r, "end token") /\ UNCHANGED answer
      BY <1>12 DEF EndSession
    <2> QED
      BY <2>1, Goes
  <1>13. ASSUME NEW r \in Requests, EndToken(r) PROVE Answered
    <2>1. End(r, 200)
      BY <1>13 DEF EndToken
    <2> QED
      BY <2>1, <1>s, Ends
  <1>14. ASSUME NEW r \in Requests, Validate(r) PROVE Answered
    BY <1>14, <1>s, Ends, Goes, Stays
    DEF Validate, At
  <1>15. ASSUME NEW r \in Requests, Generate(r) PROVE Answered
    BY <1>15, <1>s, Ends, Goes, Stays
    DEF Generate, At
  <1>16. ASSUME NEW r \in Requests, CheckRotation(r) PROVE Answered
    BY <1>16, <1>s, Ends, Goes, Stays
    DEF CheckRotation, At
  <1>17. ASSUME NEW r \in Requests, Swap(r) PROVE Answered
    BY <1>17, <1>s, Ends, Goes, Stays
    DEF Swap, At
  <1>18. ASSUME NEW r \in Requests, GiveUp(r) PROVE Answered
    <2>0. 504 \in Statuses
      BY <1>s
    <2>3. Respond(r, 504) /\ answer[r] = None
      BY <1>18 DEF GiveUp
    <2>1. answer' = [answer EXCEPT ![r] = 504]
      BY <2>3 DEF Respond, RequestsOK
    <2>2. pc' = [pc EXCEPT ![r] = "done"] \/ pc' = pc
      BY <1>18 DEF GiveUp, Go, RequestsOK
    <2> QED
      BY <2>0, <2>1, <2>2, StatusFacts DEF Answered, RequestsOK
  <1>19. ASSUME NEW x \in Sessions, CommitSession(x) PROVE Answered
    BY <1>19, <1>s, Ends, Goes, Stays
    DEF CommitSession, At, requestVars
  <1>20. ASSUME NEW x \in Users, ResetPassword(x) PROVE Answered
    BY <1>20, <1>s, Ends, Goes, Stays
    DEF ResetPassword, At, requestVars
  <1>21. ASSUME NEW x \in Apps, DropEntry(x) PROVE Answered
    BY <1>21, <1>s, Ends, Goes, Stays
    DEF DropEntry, At, requestVars
  <1>22. ASSUME PassTime PROVE Answered
    BY <1>22, <1>s, Ends, Goes, Stays
    DEF PassTime, At, requestVars
  <1>23. ASSUME UNCHANGED vars PROVE Answered
    BY <1>23, <1>s, Ends, Goes, Stays
    DEF vars, At, requestVars
  <1> QED
    BY <1>1, <1>2, <1>3, <1>4, <1>5, <1>6, <1>7, <1>8, <1>9, <1>10, <1>11, <1>12, <1>13, <1>14,
       <1>15, <1>16, <1>17, <1>18, <1>19, <1>20, <1>21, <1>22, <1>23
    DEF Next, RequestStep, Environment

(* Where a request stands, and what a step may lose. *)
LEMMA StandsStep ==
  ASSUME RequestsOK, Routing, [Next]_vars
  PROVE  pc' \in [Requests -> Steps]
  <1> DEFINE Stand == pc' \in [Requests -> Steps]
  <1>p. /\ pc \in [Requests -> Steps]
        /\ {"budget", "check", "count", "done", "end token", "forward", "generate", "jwt", "key", "preflight", "rotate",
         "swap", "write"} \subseteq Steps
    BY DEF RequestsOK, Steps
  <1>e. ASSUME NEW r \in Requests, \E code : End(r, code) PROVE Stand
    BY <1>e, <1>p DEF End, Go
  <1>g. ASSUME NEW r \in Requests, NEW step \in Steps, Go(r, step) PROVE Stand
    BY <1>g, <1>p DEF Go
  <1>1. ASSUME NEW r \in Requests, NEW c \in plan.calls[r], Receive(r, c) PROVE Stand
    <2>1. Go(r, "check") \/ Go(r, "count")
      BY <1>1 DEF Receive
    <2> QED
      BY <2>1, <1>p, <1>g
  <1>2. ASSUME NEW r \in Requests, Count(r) PROVE Stand
    <2>1. End(r, 429) \/ Go(r, AfterLimit(call[r]))
      BY <1>2, Budgets DEF Count
    <2> QED
      BY <2>1, <1>p DEF End, Go, AfterLimit
  <1>3. ASSUME NEW r \in Requests, CountKey(r) PROVE Stand
    <2>1. End(r, 429) \/ Go(r, "jwt")
      BY <1>3, Budgets DEF CountKey
    <2> QED
      BY <2>1, <1>p DEF End, Go
  <1>4. ASSUME NEW r \in Requests, VerifyKey(r) PROVE Stand
    <2>1. Go(r, "budget") \/ \E code : End(r, code)
      BY <1>4 DEF VerifyKey
    <2> QED
      BY <2>1, <1>p, <1>e, <1>g
  <1>5. ASSUME NEW r \in Requests, VerifyToken(r) PROVE Stand
    <2>1. \/ End(r, 403) \/ End(r, 422) \/ End(r, 503) \/ End(r, 401)
          \/ Go(r, NextStep(call[r])) /\ UNCHANGED answer
      BY <1>5, CallAt, Admits, Dispatches DEF VerifyToken, At
    <2>2. NextStep(call[r]) \in Steps \ {"done"}
      BY <1>5, CallAt, NextSteps DEF VerifyToken, At, Steps
    <2> QED
      BY <2>1, <2>2, <1>p DEF End, Go
  <1>6. ASSUME NEW r \in Requests, CheckOrigins(r) PROVE Stand
    <2>1. End(r, 404) \/ End(r, 409) \/ Go(r, "write")
      BY <1>6 DEF CheckOrigins
    <2> QED
      BY <2>1, <1>p DEF End, Go
  <1>7. ASSUME NEW r \in Requests, Generate(r) PROVE Stand
    <2>1. Go(r, "rotate") \/ \E code : End(r, code)
      BY <1>7 DEF Generate
    <2> QED
      BY <2>1, <1>p, <1>e, <1>g
  <1>8. ASSUME NEW r \in Requests, CheckRotation(r) PROVE Stand
    <2>1. Go(r, "swap") \/ \E code : End(r, code)
      BY <1>8 DEF CheckRotation
    <2> QED
      BY <2>1, <1>p, <1>e, <1>g
  <1>9. ASSUME NEW r \in Requests, Swap(r) PROVE Stand
    <2>1. \E code : End(r, code)
      BY <1>9 DEF Swap
    <2> QED
      BY <2>1, <1>p, <1>e, <1>g
  <1>10. ASSUME NEW r \in Requests, GiveUp(r) PROVE Stand
    <2>1. Go(r, pc[r]) \/ Go(r, "done")
      BY <1>10 DEF GiveUp
    <2> QED
      BY <2>1, <1>p DEF Go
  <1>11. ASSUME NEW x \in Sessions, CommitSession(x) PROVE Stand
    BY <1>11, <1>p
    DEF CommitSession, requestVars
  <1>12. ASSUME NEW x \in Users, ResetPassword(x) PROVE Stand
    BY <1>12, <1>p
    DEF ResetPassword, requestVars
  <1>13. ASSUME NEW x \in Apps, DropEntry(x) PROVE Stand
    BY <1>13, <1>p
    DEF DropEntry, requestVars
  <1>14. ASSUME PassTime PROVE Stand
    BY <1>14, <1>p
    DEF PassTime, requestVars
  <1>15. ASSUME UNCHANGED vars PROVE Stand
    BY <1>15, <1>p
    DEF vars, requestVars
  <1>16. ASSUME NEW r \in Requests, Preflight(r) PROVE Stand
    <2>1. \E code : End(r, code)
      BY <1>16 DEF Preflight
    <2> QED
      BY <2>1, <1>p, <1>e, <1>g
  <1>17. ASSUME NEW r \in Requests, Forward(r) PROVE Stand
    <2>1. \E code : End(r, code)
      BY <1>17 DEF Forward
    <2> QED
      BY <2>1, <1>p, <1>e, <1>g
  <1>18. ASSUME NEW r \in Requests, Probe(r) PROVE Stand
    <2>1. \E code : End(r, code)
      BY <1>18 DEF Probe
    <2> QED
      BY <2>1, <1>p, <1>e, <1>g
  <1>19. ASSUME NEW r \in Requests, WriteApplication(r) PROVE Stand
    <2>1. \E code : End(r, code)
      BY <1>19 DEF WriteApplication
    <2> QED
      BY <2>1, <1>p, <1>e, <1>g
  <1>20. ASSUME NEW r \in Requests, ConfirmPassword(r) PROVE Stand
    <2>1. Go(r, "forward") \/ \E code : End(r, code)
      BY <1>20 DEF ConfirmPassword
    <2> QED
      BY <2>1, <1>p, <1>e, <1>g
  <1>21. ASSUME NEW r \in Requests, EndSession(r) PROVE Stand
    <2>1. Go(r, "end token") \/ \E code : End(r, code)
      BY <1>21 DEF EndSession
    <2> QED
      BY <2>1, <1>p, <1>e, <1>g
  <1>22. ASSUME NEW r \in Requests, EndToken(r) PROVE Stand
    <2>1. \E code : End(r, code)
      BY <1>22 DEF EndToken
    <2> QED
      BY <2>1, <1>p, <1>e, <1>g
  <1>23. ASSUME NEW r \in Requests, Validate(r) PROVE Stand
    <2>1. Go(r, "generate") \/ \E code : End(r, code)
      BY <1>23 DEF Validate
    <2> QED
      BY <2>1, <1>p, <1>e, <1>g
  <1> QED
    BY <1>1, <1>2, <1>3, <1>4, <1>5, <1>6, <1>7, <1>8, <1>9, <1>10, <1>11, <1>12, <1>13, <1>14,
       <1>15, <1>16, <1>17, <1>18, <1>19, <1>20, <1>21, <1>22, <1>23
    DEF Next, RequestStep, Environment

(* Failures are within the plan, and the plan is fixed. *)
LEMMA LostStep ==
  ASSUME RequestsOK, Routing, [Next]_vars
  PROVE  plan' \in Plans /\ lost' \in 0..plan'.failures /\ lost <= lost'
  <1> DEFINE Few == plan' = plan /\ (lost' = lost \/ Lose)
  <1> USE DEF requestVars
  <1>1. ASSUME NEW r \in Requests, NEW c \in plan.calls[r], Receive(r, c) PROVE Few
    BY <1>1
    DEF Receive
  <1>2. ASSUME NEW r \in Requests, Count(r) PROVE Few
    BY <1>2, Budgets
    DEF Count
  <1>3. ASSUME NEW r \in Requests, CountKey(r) PROVE Few
    BY <1>3, Budgets
    DEF CountKey
  <1>4. ASSUME NEW r \in Requests, VerifyKey(r) PROVE Few
    BY <1>4
    DEF VerifyKey
  <1>5. ASSUME NEW r \in Requests, VerifyToken(r) PROVE Few
    BY <1>5, Admits
    DEF VerifyToken
  <1>6. ASSUME NEW r \in Requests, CheckOrigins(r) PROVE Few
    BY <1>6
    DEF CheckOrigins
  <1>7. ASSUME NEW r \in Requests, Generate(r) PROVE Few
    BY <1>7
    DEF Generate
  <1>8. ASSUME NEW r \in Requests, CheckRotation(r) PROVE Few
    BY <1>8
    DEF CheckRotation
  <1>9. ASSUME NEW r \in Requests, Swap(r) PROVE Few
    BY <1>9
    DEF Swap
  <1>10. ASSUME NEW r \in Requests, GiveUp(r) PROVE Few
    BY <1>10
    DEF GiveUp
  <1>11. ASSUME NEW x \in Sessions, CommitSession(x) PROVE Few
    BY <1>11
    DEF CommitSession
  <1>12. ASSUME NEW x \in Users, ResetPassword(x) PROVE Few
    BY <1>12
    DEF ResetPassword
  <1>13. ASSUME NEW x \in Apps, DropEntry(x) PROVE Few
    BY <1>13
    DEF DropEntry
  <1>14. ASSUME PassTime PROVE Few
    BY <1>14
    DEF PassTime
  <1>15. ASSUME UNCHANGED vars PROVE Few
    BY <1>15
    DEF vars
  <1>16. ASSUME NEW r \in Requests, Preflight(r) \/ Forward(r) \/ Probe(r) PROVE Few
    BY <1>16
    DEF Preflight, Forward, Probe
  <1>17. ASSUME NEW r \in Requests, WriteApplication(r) \/ ConfirmPassword(r) PROVE Few
    BY <1>17
    DEF WriteApplication, ConfirmPassword
  <1>18. ASSUME NEW r \in Requests, EndSession(r) \/ EndToken(r) \/ Validate(r) PROVE Few
    BY <1>18
    DEF EndSession, EndToken, Validate
  <1>x. Few
    BY <1>1, <1>2, <1>3, <1>4, <1>5, <1>6, <1>7, <1>8, <1>9, <1>10, <1>11, <1>12, <1>13, <1>14,
       <1>15, <1>16, <1>17, <1>18
    DEF Next, RequestStep, Environment
  <1> QED
    BY <1>x, PlanFacts DEF Lose, RequestsOK

(* The fields of a request. *)
LEMMA FieldsStep ==
  ASSUME RequestsOK, TokensOK, Routing, [Next]_vars
  PROVE  /\ call' \in [Requests -> Calls \cup {None}]
         /\ stamp' \in [Requests -> Nat]
         /\ scope' \in [Requests -> Apps \cup {None}]
         /\ name' \in [Requests -> Users \cup {None}]
         /\ got' \in [Requests -> Pairs \cup {None}]
         /\ target' \in [Requests -> Sessions \cup {None}]
         /\ met' \in [Requests -> SUBSET Requests]
  <1> DEFINE Rest ==
        /\ call' \in [Requests -> Calls \cup {None}]
        /\ stamp' \in [Requests -> Nat]
        /\ scope' \in [Requests -> Apps \cup {None}]
        /\ name' \in [Requests -> Users \cup {None}]
        /\ got' \in [Requests -> Pairs \cup {None}]
        /\ target' \in [Requests -> Sessions \cup {None}]
        /\ met' \in [Requests -> SUBSET Requests]
  <1> USE DEF requestVars, RequestsOK
  <1>1. ASSUME NEW r \in Requests, NEW c \in plan.calls[r], Receive(r, c) PROVE Rest
    BY <1>1, CallFacts, PlanFacts
    DEF Receive, TakeStamp, Meet, ClientCalls, TokensOK
  <1>2. ASSUME NEW r \in Requests, Count(r) PROVE Rest
    BY <1>2
    DEF Count, UseStamp
  <1>3. ASSUME NEW r \in Requests, CountKey(r) PROVE Rest
    BY <1>3
    DEF CountKey, UseStamp
  <1>4. ASSUME NEW r \in Requests, VerifyKey(r) PROVE Rest
    BY <1>4, CallAt
    DEF VerifyKey, TakeStamp, TokensOK, ClientCalls, At
  <1>5. ASSUME NEW r \in Requests, VerifyToken(r) PROVE Rest
    BY <1>5
    DEF VerifyToken, Authentic, Issued, TokensOK, Token
  <1>6. ASSUME NEW r \in Requests, CheckOrigins(r) PROVE Rest
    BY <1>6
    DEF CheckOrigins
  <1>7. ASSUME NEW r \in Requests, Generate(r) PROVE Rest
    BY <1>7
    DEF Generate, GeneratePair
  <1>8. ASSUME NEW r \in Requests, CheckRotation(r) PROVE Rest
    <2>1. target' = target \/ \E s \in OfHash(call[r].refresh) : target' = [target EXCEPT ![r] = s]
      BY <1>8 DEF CheckRotation
    <2>2. target' \in [Requests -> Sessions \cup {None}]
      BY <2>1 DEF OfHash
    <2> QED
      BY <1>8, <2>2 DEF CheckRotation
  <1>9. ASSUME NEW r \in Requests, Swap(r) PROVE Rest
    BY <1>9
    DEF Swap
  <1>10. ASSUME NEW r \in Requests, GiveUp(r) PROVE Rest
    BY <1>10
    DEF GiveUp
  <1>11. ASSUME NEW x \in Sessions, CommitSession(x) PROVE Rest
    BY <1>11
    DEF CommitSession
  <1>12. ASSUME NEW x \in Users, ResetPassword(x) PROVE Rest
    BY <1>12
    DEF ResetPassword
  <1>13. ASSUME NEW x \in Apps, DropEntry(x) PROVE Rest
    BY <1>13
    DEF DropEntry
  <1>14. ASSUME PassTime PROVE Rest
    BY <1>14
    DEF PassTime
  <1>15. ASSUME UNCHANGED vars PROVE Rest
    BY <1>15
    DEF vars
  <1>16. ASSUME NEW r \in Requests, Preflight(r) \/ Forward(r) \/ Probe(r) PROVE Rest
    BY <1>16
    DEF Preflight, Forward, Probe
  <1>17. ASSUME NEW r \in Requests, WriteApplication(r) \/ ConfirmPassword(r) PROVE Rest
    BY <1>17
    DEF WriteApplication, ConfirmPassword
  <1>18. ASSUME NEW r \in Requests, EndSession(r) \/ EndToken(r) \/ Validate(r) PROVE Rest
    BY <1>18
    DEF EndSession, EndToken, Validate
  <1> QED
    BY <1>1, <1>2, <1>3, <1>4, <1>5, <1>6, <1>7, <1>8, <1>9, <1>10, <1>11, <1>12, <1>13, <1>14,
       <1>15, <1>16, <1>17, <1>18
    DEF Next, RequestStep, Environment

(* The requests. *)
LEMMA RequestsStep ==
  ASSUME RequestsOK, TokensOK, Routing, [Next]_vars
  PROVE  RequestsOK'
  BY AnswersStep, StandsStep, LostStep, FieldsStep DEF RequestsOK, Answered

------------------------------------------------------------------------------
(* Who takes a step, and the others *)

Same(q) ==
  UNCHANGED <<pc[q], call[q], stamp[q], scope[q], name[q], got[q], target[q], served[q]>>

(* A request changes its own fields only. *)
LEMMA Others ==
  ASSUME RequestsOK, DOMAIN served = Requests, NEW r \in Requests, RequestStep(r),
         NEW q \in Requests, q # r
  PROVE  Same(q)
  <1> USE DEF requestVars, RequestsOK, At, Go, End, Same
  <1>1. ASSUME NEW c \in plan.calls[r], Receive(r, c) PROVE Same(q)
    BY <1>1
    DEF Receive, TakeStamp, Meet
  <1>2. ASSUME Count(r) PROVE Same(q)
    BY <1>2, Budgets
    DEF Count, UseStamp
  <1>3. ASSUME CountKey(r) PROVE Same(q)
    BY <1>3, Budgets
    DEF CountKey, UseStamp
  <1>4. ASSUME VerifyKey(r) PROVE Same(q)
    BY <1>4
    DEF VerifyKey, TakeStamp
  <1>5. ASSUME VerifyToken(r) PROVE Same(q)
    BY <1>5, Admits
    DEF VerifyToken, Dispatch
  <1>6. ASSUME Preflight(r) PROVE Same(q)
    BY <1>6
    DEF Preflight
  <1>7. ASSUME CheckOrigins(r) PROVE Same(q)
    BY <1>7
    DEF CheckOrigins
  <1>8. ASSUME WriteApplication(r) PROVE Same(q)
    BY <1>8
    DEF WriteApplication
  <1>9. ASSUME ConfirmPassword(r) PROVE Same(q)
    BY <1>9
    DEF ConfirmPassword
  <1>10. ASSUME Forward(r) PROVE Same(q)
    BY <1>10
    DEF Forward, Act
  <1>11. ASSUME Probe(r) PROVE Same(q)
    BY <1>11
    DEF Probe
  <1>12. ASSUME EndSession(r) PROVE Same(q)
    BY <1>12
    DEF EndSession, Act
  <1>13. ASSUME EndToken(r) PROVE Same(q)
    BY <1>13
    DEF EndToken
  <1>14. ASSUME Validate(r) PROVE Same(q)
    BY <1>14
    DEF Validate
  <1>15. ASSUME Generate(r) PROVE Same(q)
    BY <1>15
    DEF Generate
  <1>16. ASSUME CheckRotation(r) PROVE Same(q)
    BY <1>16
    DEF CheckRotation
  <1>17. ASSUME Swap(r) PROVE Same(q)
    BY <1>17
    DEF Swap
  <1>18. ASSUME GiveUp(r) PROVE Same(q)
    BY <1>18
    DEF GiveUp
  <1> QED
    BY <1>1, <1>2, <1>3, <1>4, <1>5, <1>6, <1>7, <1>8, <1>9, <1>10, <1>11, <1>12, <1>13, <1>14,
       <1>15, <1>16, <1>17, <1>18
    DEF RequestStep

(* Every step is one of a request, or leaves all of them alone. *)
LEMMA Movers ==
  ASSUME RequestsOK, DOMAIN served = Requests, [Next]_vars
  PROVE  \/ \A q \in Requests : Same(q)
         \/ \E r \in Requests : RequestStep(r) /\ \A q \in Requests \ {r} : Same(q)
  <1>1. ASSUME UNCHANGED requestVars PROVE \A q \in Requests : Same(q)
    BY <1>1 DEF requestVars, Same
  <1>2. CASE Environment
    BY <1>1, <1>2 DEF Environment, CommitSession, ResetPassword, DropEntry, PassTime
  <1>3. CASE UNCHANGED vars
    BY <1>1, <1>3 DEF vars
  <1>4. ASSUME NEW r \in Requests, RequestStep(r)
        PROVE  \A q \in Requests \ {r} : Same(q)
    BY <1>4, Others
  <1> QED
    BY <1>2, <1>3, <1>4 DEF Next

(* Applications are not removed. *)
LEMMA RowsStay ==
  ASSUME OriginsOK, RequestsOK, Routing, [Next]_vars, NEW a \in Apps, app[a] # Absent
  PROVE  app'[a] # Absent
  <1>1. CASE app' = app
    BY <1>1
  <1>2. ASSUME NEW r \in Requests, WriteApplication(r) PROVE app'[a] # Absent
    <2>1. CASE UNCHANGED registryVars
      BY <2>1 DEF registryVars
    <2>2. CASE Write(call[r], r)
      <3>1. a # call[r].app => app'[a] = app[a]
        BY <2>2 DEF Write, OriginsOK, RegistryOK
      <3>2. a = call[r].app => app'[a] \in Application
        BY WriteTyped, <1>2, <2>2 DEF WriteApplication, At, OriginsOK, RegistryOK
      <3> QED
        BY <3>1, <3>2, AbsentOriginAssumption
    <2> QED
      BY <1>2, <2>1, <2>2 DEF WriteApplication
  <1> QED
    BY <1>1, <1>2, RegistrySteps DEF VerifyKey, DropEntry, Evict, registryVars

------------------------------------------------------------------------------
(* Routing *)

(* Who takes no step stays where it is. *)
LEMMA RoutedStays ==
  ASSUME OriginsOK, RequestsOK, Routing, [Next]_vars, Issued \subseteq Issued',
         NEW q \in Requests, Same(q)
  PROVE  Routed(q)'
  <1>1. Routed(q)
    BY DEF Routing
  <1>2. pc[q] = "write" => call[q].app \in Apps
    BY CallAt DEF AdminCalls
  <1>3. pc[q] = "write" /\ call[q].route = "update-app" => app'[call[q].app] # Absent
    BY <1>1, <1>2, RowsStay DEF Routed
  <1> HIDE DEF Issued
  <1> QED
    BY <1>1, <1>3 DEF Routed, Same

(* What a step wants of the request that is sent to it. *)
Due(r, step) ==
  /\ step = "key" => call[r].key # None
  /\ step = "budget" => scope'[r] # None
  /\ step \in {"end session", "end token"} => call[r].route = "logout"
  /\ step \in {"validate", "generate", "rotate", "swap"} => call[r].route = "refresh"
  /\ step \in {"generate", "rotate", "swap"} => call[r].refresh # None
  /\ step \in {"rotate", "swap"} => got'[r] # None
  /\ step = "swap" => target'[r] # None

SentTo(r, step) ==
  /\ step \in Steps \ {"idle", "check", "write"}
  /\ pc' = [pc EXCEPT ![r] = step] /\ call' = call
  /\ Due(r, step)

(* A step that is sent where its route allows is routed. *)
LEMMA RoutedSent ==
  ASSUME RequestsOK, Routing, Issued \subseteq Issued',
         NEW r \in Requests, pc[r] # "idle", NEW step, SentTo(r, step),
         pc[r] \in {"check", "write", "done"} => step = "done"
  PROVE  Routed(r)'
  <1>1. Routed(r) /\ pc'[r] = step /\ call'[r] = call[r]
    BY DEF Routing, RequestsOK, SentTo
  <1> HIDE DEF Issued
  <1> QED
    BY <1>1 DEF Routed, SentTo, Due

(* An end is a step any route allows. *)
LEMMA SentEnd ==
  ASSUME NEW r, NEW code, End(r, code), UNCHANGED call
  PROVE  SentTo(r, "done")
  BY DEF SentTo, Due, End, Go, Steps

(* Whoever takes one goes where its route leads. *)
LEMMA RoutedGoes ==
  ASSUME OriginsOK, RequestsOK, SessionsOK, Routing, [Next]_vars, Issued \subseteq Issued',
         NEW r \in Requests, RequestStep(r)
  PROVE  Routed(r)'
  <1>r. Routed(r)
    BY DEF Routing
  <1>t. /\ pc \in [Requests -> Steps] /\ call \in [Requests -> Calls \cup {None}]
        /\ scope \in [Requests -> Apps \cup {None}] /\ got \in [Requests -> Pairs \cup {None}]
        /\ target \in [Requests -> Sessions \cup {None}]
    BY DEF RequestsOK
  <1>n. None \notin Pairs \cup Apps \cup Sessions
    BY AbsentAssumption, NoneAssumption, LoginAssumption DEF Pairs, Sessions
  <1>a. pc[r] = "check" => call[r].app \in Apps
    BY CallAt DEF AdminCalls
  <1> HIDE DEF Issued
  <1> USE DEF At, Go
  <1>1. ASSUME NEW c \in plan.calls[r], Receive(r, c) PROVE Routed(r)'
    <2>1. c \in Calls /\ c # None
      BY PlanFacts, CallFacts
    <2>2. call'[r] = c /\ pc'[r] = IF c.route \in Admin THEN "check" ELSE "count"
      BY <1>1, <1>t DEF Receive
    <2>3. c.route \notin Admin => {c.bearer, c.refresh} \subseteq Issued \cup {None}
      <3> SUFFICES ASSUME c.route \notin Admin
                   PROVE  {c.bearer, c.refresh} \subseteq Issued \cup {None}
        OBVIOUS
      <3>1. {"bearer", "refresh"} \subseteq DOMAIN c
        BY <2>1, CallFacts DEF ClientCalls
      <3> QED
        BY <1>1, <3>1 DEF Receive
    <2> QED
      BY <2>1, <2>2, <2>3, CallFacts DEF Routed
  <1>2. ASSUME Count(r) PROVE Routed(r)'
    <2>1. (\E code : End(r, code)) \/ Go(r, AfterLimit(call[r]))
      BY <1>2, Budgets
      DEF Count, AfterLimit
    <2>2. UNCHANGED call /\ pc[r] \notin {"idle", "done"}
      BY <1>2 DEF Count
    <2>3. Go(r, AfterLimit(call[r])) => SentTo(r, AfterLimit(call[r]))
      BY <1>2, <2>2, <1>r, <1>t, <1>n
      DEF Count, SentTo, Due, Routed, Steps, AfterLimit
    <2> QED
      BY <1>2, <2>1, <2>2, <2>3, SentEnd, RoutedSent DEF Count
  <1>3. ASSUME CountKey(r) PROVE Routed(r)'
    <2>1. (\E code : End(r, code)) \/ Go(r, "jwt")
      BY <1>3, Budgets
      DEF CountKey
    <2>2. UNCHANGED call /\ pc[r] \notin {"idle", "done"}
      BY <1>3 DEF CountKey
    <2>3. Go(r, "jwt") => SentTo(r, "jwt")
      BY <1>3, <2>2, <1>r, <1>t, <1>n
      DEF CountKey, SentTo, Due, Routed, Steps
    <2> QED
      BY <1>3, <2>1, <2>2, <2>3, SentEnd, RoutedSent DEF CountKey
  <1>4. ASSUME Preflight(r) PROVE Routed(r)'
    <2>1. (\E code : End(r, code)) /\ UNCHANGED call
      BY <1>4 DEF Preflight
    <2> QED
      BY <1>4, <2>1, SentEnd, RoutedSent DEF Preflight
  <1>5. ASSUME VerifyKey(r) PROVE Routed(r)'
    <2>1. \/ (\E code : End(r, code))
          \/ Go(r, "budget") /\ scope' = [scope EXCEPT ![r] = call[r].key]
      BY <1>5 DEF VerifyKey
    <2>2. UNCHANGED call /\ pc[r] = "key"
      BY <1>5 DEF VerifyKey
    <2>3. Go(r, "budget") /\ scope' = [scope EXCEPT ![r] = call[r].key] => SentTo(r, "budget")
      BY <2>2, <1>r, <1>t DEF SentTo, Due, Routed, Steps
    <2> QED
      BY <2>1, <2>2, <2>3, SentEnd, RoutedSent
  <1>6. ASSUME VerifyToken(r) PROVE Routed(r)'
    <2>1. (\E code : End(r, code)) \/ Go(r, NextStep(call[r]))
      BY <1>6, CallAt, Admits, Dispatches DEF VerifyToken
    <2>2. UNCHANGED call /\ pc[r] = "jwt" /\ call[r] \in Calls
      BY <1>6, CallAt DEF VerifyToken
    <2>3. Go(r, NextStep(call[r])) => SentTo(r, NextStep(call[r]))
      BY <2>2 DEF SentTo, Due, NextStep, Steps
    <2> QED
      BY <2>1, <2>2, <2>3, SentEnd, RoutedSent
  <1>7. ASSUME CheckOrigins(r) PROVE Routed(r)'
    <2>1. UNCHANGED <<call, app>> /\ pc[r] = "check"
      BY <1>7 DEF CheckOrigins, registryVars
    <2>2. CASE \E code : End(r, code)
      BY <2>1, <2>2, SentEnd, RoutedSent
    <2>3. CASE Go(r, "write") /\ ~(call[r].route = "update-app" /\ app[call[r].app] = Absent)
      BY <2>1, <2>3, <1>r, <1>t DEF Routed
    <2> QED
      BY <1>7, <2>2, <2>3 DEF CheckOrigins
  <1>8. ASSUME WriteApplication(r) PROVE Routed(r)'
    <2>1. (\E code : End(r, code)) /\ UNCHANGED call
      BY <1>8 DEF WriteApplication
    <2> QED
      BY <1>8, <2>1, SentEnd, RoutedSent DEF WriteApplication
  <1>9. ASSUME ConfirmPassword(r) PROVE Routed(r)'
    <2>1. (\E code : End(r, code)) \/ Go(r, "forward")
      BY <1>9
      DEF ConfirmPassword
    <2>2. UNCHANGED call /\ pc[r] \notin {"idle", "done"}
      BY <1>9 DEF ConfirmPassword
    <2>3. Go(r, "forward") => SentTo(r, "forward")
      BY <1>9, <2>2, <1>r, <1>t, <1>n
      DEF ConfirmPassword, SentTo, Due, Routed, Steps
    <2> QED
      BY <1>9, <2>1, <2>2, <2>3, SentEnd, RoutedSent DEF ConfirmPassword
  <1>10. ASSUME Forward(r) PROVE Routed(r)'
    <2>1. (\E code : End(r, code)) /\ UNCHANGED call
      BY <1>10 DEF Forward
    <2> QED
      BY <1>10, <2>1, SentEnd, RoutedSent DEF Forward
  <1>11. ASSUME Probe(r) PROVE Routed(r)'
    <2>1. (\E code : End(r, code)) /\ UNCHANGED call
      BY <1>11 DEF Probe
    <2> QED
      BY <1>11, <2>1, SentEnd, RoutedSent DEF Probe
  <1>12. ASSUME EndSession(r) PROVE Routed(r)'
    <2>1. UNCHANGED call /\ pc[r] = "end session" /\ Go(r, "end token")
      BY <1>12 DEF EndSession
    <2>2. SentTo(r, "end token")
      BY <2>1, <1>r DEF SentTo, Due, Routed, Steps
    <2> QED
      BY <2>1, <2>2, RoutedSent
  <1>13. ASSUME EndToken(r) PROVE Routed(r)'
    <2>1. (\E code : End(r, code)) /\ UNCHANGED call
      BY <1>13 DEF EndToken
    <2> QED
      BY <1>13, <2>1, SentEnd, RoutedSent DEF EndToken
  <1>14. ASSUME Validate(r) PROVE Routed(r)'
    <2>1. \/ (\E code : End(r, code))
          \/ Go(r, "generate") /\ \E s \in OfHash(call[r].refresh) : Valid(s)
      BY <1>14 DEF Validate
    <2>2. UNCHANGED call /\ pc[r] = "validate"
      BY <1>14 DEF Validate
    <2>3. (\E s \in OfHash(call[r].refresh) : Valid(s)) => call[r].refresh # None
      BY <1>n DEF OfHash, SessionsOK, SessionRow
    <2>4. Go(r, "generate") /\ call[r].refresh # None => SentTo(r, "generate")
      BY <2>2, <1>r DEF SentTo, Due, Routed, Steps
    <2>5. (\E code : End(r, code)) => SentTo(r, "done")
      BY <2>2, SentEnd
    <2>6. SentTo(r, "generate") \/ SentTo(r, "done")
      BY <2>1, <2>3, <2>4, <2>5
    <2> QED
      BY <2>2, <2>6, RoutedSent
  <1>15. ASSUME Generate(r) PROVE Routed(r)'
    <2>1. \/ (\E code : End(r, code))
          \/ Go(r, "rotate") /\ NewPair \in Pairs /\ got' = [got EXCEPT ![r] = NewPair]
      BY <1>15 DEF Generate, GeneratePair
    <2>2. UNCHANGED call /\ pc[r] = "generate"
      BY <1>15 DEF Generate
    <2> HIDE DEF NewPair
    <2>3. Go(r, "rotate") /\ NewPair \in Pairs /\ got' = [got EXCEPT ![r] = NewPair] => SentTo(r, "rotate")
      <3>1. call[r].route = "refresh" /\ call[r].refresh # None
        BY <2>2, <1>r DEF Routed
      <3>2. NewPair \in Pairs /\ got' = [got EXCEPT ![r] = NewPair] => got'[r] # None
        BY <1>t, <1>n
      <3> QED
        BY <2>2, <3>1, <3>2 DEF SentTo, Due, Steps
    <2>4. (\E code : End(r, code)) => SentTo(r, "done")
      BY <2>2, SentEnd
    <2>5. SentTo(r, "rotate") \/ SentTo(r, "done")
      BY <2>1, <2>3, <2>4
    <2> QED
      BY <2>2, <2>5, RoutedSent
  <1>16. ASSUME CheckRotation(r) PROVE Routed(r)'
    <2>1. \/ (\E code : End(r, code))
          \/ Go(r, "swap") /\ got' = got /\ \E s \in Sessions : target' = [target EXCEPT ![r] = s]
      BY <1>16 DEF CheckRotation, OfHash
    <2>2. UNCHANGED call /\ pc[r] = "rotate"
      BY <1>16 DEF CheckRotation
    <2>3. ASSUME NEW s \in Sessions, Go(r, "swap"), got' = got, target' = [target EXCEPT ![r] = s]
          PROVE  SentTo(r, "swap")
      BY <2>2, <2>3, <1>r, <1>t, <1>n DEF SentTo, Due, Routed, Steps
    <2> QED
      BY <2>1, <2>2, <2>3, SentEnd, RoutedSent
  <1>17. ASSUME Swap(r) PROVE Routed(r)'
    <2>1. (\E code : End(r, code)) /\ UNCHANGED call
      BY <1>17 DEF Swap
    <2> QED
      BY <1>17, <2>1, SentEnd, RoutedSent DEF Swap
  <1>18. ASSUME GiveUp(r) PROVE Routed(r)'
    <2>1. /\ UNCHANGED <<call, scope, got, target>>
          /\ pc[r] \in {"end session", "end token", "validate", "generate", "rotate", "swap"}
          /\ Go(r, pc[r]) \/ Go(r, "done")
      BY <1>18 DEF GiveUp
    <2>2. Go(r, pc[r]) => SentTo(r, pc[r])
      BY <2>1, <1>r, <1>t DEF SentTo, Due, Routed, Steps
    <2>3. Go(r, "done") => SentTo(r, "done")
      BY <2>1 DEF SentTo, Due, Steps
    <2> QED
      BY <2>1, <2>2, <2>3, RoutedSent
  <1> QED
    BY <1>1, <1>2, <1>3, <1>4, <1>5, <1>6, <1>7, <1>8, <1>9, <1>10, <1>11, <1>12, <1>13, <1>14,
       <1>15, <1>16, <1>17, <1>18
    DEF RequestStep

(* Every step keeps requests on their routes. *)
LEMMA RoutingStep ==
  ASSUME OriginsOK, RequestsOK, SessionsOK, DOMAIN served = Requests, Routing, [Next]_vars,
         Issued \subseteq Issued'
  PROVE  Routing'
  BY Movers, RoutedStays, RoutedGoes DEF Routing

------------------------------------------------------------------------------
(* Identity *)

(* Services act for users, or for nobody. *)
LEMMA ServedStep ==
  ASSUME RequestsOK, Routing, served \in [Requests -> [for : Users \cup {None}] \cup {None}], [Next]_vars
  PROVE  served' \in [Requests -> [for : Users \cup {None}] \cup {None}]
  <1> DEFINE Typed == served' \in [Requests -> [for : Users \cup {None}] \cup {None}]
  <1>a. ASSUME NEW r \in Requests, pc[r] \in {"forward", "end session"}, Act(r) PROVE Typed
    <2>1. ActsFor(r) \in Users \cup {None}
      BY <1>a, CallAt DEF ActsFor, ClientCalls, RequestsOK
    <2> HIDE DEF ActsFor
    <2> QED
      BY <1>a, <2>1 DEF Act
  <1> USE DEF requestVars
  <1>1. ASSUME NEW r \in Requests, NEW c \in plan.calls[r], Receive(r, c) PROVE Typed
    BY <1>1
    DEF Receive
  <1>2. ASSUME NEW r \in Requests, VerifyToken(r) PROVE Typed
    BY <1>2
    DEF VerifyToken
  <1>3. ASSUME NEW r \in Requests, Forward(r) PROVE Typed
    BY <1>3, <1>a
    DEF Forward, At
  <1>4. ASSUME NEW r \in Requests, EndSession(r) PROVE Typed
    BY <1>4, <1>a
    DEF EndSession, At
  <1>5. ASSUME NEW x \in Sessions, CommitSession(x) PROVE Typed
    BY <1>5
    DEF CommitSession
  <1>6. ASSUME NEW x \in Users, ResetPassword(x) PROVE Typed
    BY <1>6
    DEF ResetPassword
  <1>7. ASSUME NEW x \in Apps, DropEntry(x) PROVE Typed
    BY <1>7
    DEF DropEntry
  <1>8. ASSUME PassTime PROVE Typed
    BY <1>8
    DEF PassTime
  <1>9. ASSUME UNCHANGED vars PROVE Typed
    BY <1>9
    DEF vars
  <1>10. ASSUME NEW r \in Requests, Count(r) \/ CountKey(r) \/ Preflight(r) PROVE Typed
    BY <1>10
    DEF Count, CountKey, Preflight
  <1>11. ASSUME NEW r \in Requests, VerifyKey(r) \/ CheckOrigins(r) \/ WriteApplication(r) PROVE Typed
    BY <1>11
    DEF VerifyKey, CheckOrigins, WriteApplication
  <1>12. ASSUME NEW r \in Requests, ConfirmPassword(r) \/ Probe(r) \/ EndToken(r) PROVE Typed
    BY <1>12
    DEF ConfirmPassword, Probe, EndToken
  <1>13. ASSUME NEW r \in Requests, Validate(r) \/ Generate(r) PROVE Typed
    BY <1>13
    DEF Validate, Generate
  <1>14. ASSUME NEW r \in Requests, CheckRotation(r) \/ Swap(r) \/ GiveUp(r) PROVE Typed
    BY <1>14
    DEF CheckRotation, Swap, GiveUp
  <1> QED
    BY <1>1, <1>2, <1>3, <1>4, <1>5, <1>6, <1>7, <1>8, <1>9, <1>10, <1>11, <1>12, <1>13, <1>14
    DEF Next, RequestStep, Environment

(* A proof is kept, while its request stays or is over. *)
LEMMA IdentityKept ==
  ASSUME NEW q \in Requests, Admitted(q), Proven(q), held[q] \subseteq held'[q],
         Issued \subseteq Issued', \A p \in Issued : token'[p] = token[p],
         UNCHANGED <<call[q], scope[q], name[q], served[q]>>,
         pc'[q] = pc[q] \/ pc'[q] \notin {"confirm", "forward", "end session"},
         served[q] # None => pc'[q] \in {"end token", "done"}
  PROVE  Admitted(q)' /\ Proven(q)'
  <1> HIDE DEF Issued
  <1>1. (Public(q)' <=> Public(q)) /\ (Protected(q)' <=> Protected(q))
    BY DEF Public, Protected, ByKeyAlone
  <1> HIDE DEF Public, Protected
  <1> QED
    BY <1>1 DEF Admitted, Proven

(* The route decides what is wanted. *)
LEMMA RouteKinds ==
  /\ PublicRoutes \cap (Confirmed \cup KeyRoutes \cup {"logout"}) = {}
  /\ KeyRoutes \cap (Confirmed \cup UserRoutes \cup {"logout"}) = {}
  /\ OwnRoutes \cap (UserRoutes \cup {"logout"}) = {}
  /\ Confirmed \cap {"logout"} = {}
  /\ Confirmed \subseteq UserRoutes \cup OwnRoutes
  /\ Routes \cap Admin = {}
  BY DEF PublicRoutes, SignInRoutes, LinkRoutes, Probes, KeyRoutes, ProfileRoutes, AvatarRoutes,
         DestructiveRoutes, OwnRoutes, Confirmed, UserRoutes, SessionRoutes, Routes, Admin

(* VerifyToken: a request is let in as the user of its token, as nobody, or *)
(* with an API key on a route for keys.                                     *)
LEMMA Admission ==
  ASSUME RequestsOK, Routing, TokensOK, NEW r \in Requests, VerifyToken(r), Proven(r),
         Good(r)' \subseteq held'[r]
  PROVE  Admitted(r)' /\ Proven(r)'
  <1>1. /\ UNCHANGED <<call, scope, served, token, now, black>> /\ pc[r] = "jwt"
        /\ call[r] \in ClientCalls /\ call[r].route \in Routes
    BY CallAt DEF VerifyToken, At, requestVars, tokenVars, Routing, Routed
  <1>2. served[r] = None
    BY <1>1 DEF Proven
  <1>3. (Public(r)' <=> Public(r)) /\ (Protected(r)' <=> Protected(r))
    BY <1>1 DEF Public, Protected, ByKeyAlone
  <1>4. ASSUME NEW user, Dispatch(r, user), name' = [name EXCEPT ![r] = user],
               \/ ByKeyAlone(r) /\ user = name[r]
               \/ Public(r) /\ user = None
               \/ /\ Protected(r) /\ Authentic(call[r].bearer)
                  /\ user = token[call[r].bearer].user,
               pc'[r] \in {"confirm", "forward", "end session"}
        PROVE  Admitted(r)'
    <2>1. name'[r] = user
      BY <1>4 DEF RequestsOK
    <2>2. call[r] \in Calls /\ pc' # [pc EXCEPT ![r] = "done"]
      BY <1>1, <1>4 DEF Calls, RequestsOK
    <2>3. (call[r].route \in OwnRoutes => user = call[r].path) /\ Go(r, NextStep(call[r]))
      BY <1>4, <2>2, Dispatches DEF End, Go
    <2>4. pc'[r] = "forward" => call[r].route \notin Confirmed
      BY <2>3 DEF Go, NextStep, RequestsOK
    <2>5. Protected(r) => Authentic(call[r].bearer) /\ user = token[call[r].bearer].user
      BY <1>4 DEF Protected
    <2>6. Authentic(call[r].bearer) => Authentic(call[r].bearer)' /\ call[r].bearer \in Issued'
      BY <1>1 DEF Authentic, Issued, Verifies, Decodes, Blacklisted, Second
    <2>7. Authentic(call[r].bearer)' => "token" \in held'[r]
      BY <1>1, <1>4, RouteKinds DEF Good
    <2>8. Public(r) => user = None
      BY <1>4, RouteKinds DEF ByKeyAlone, Protected, Public
    <2> HIDE DEF Public, Protected, Issued
    <2> QED
      BY <1>1, <1>3, <2>1, <2>3, <2>4, <2>5, <2>6, <2>7, <2>8 DEF Admitted
  <1>5. Admitted(r)'
    <2> SUFFICES ASSUME pc'[r] \in {"confirm", "forward", "end session"} PROVE Admitted(r)'
      BY DEF Admitted
    <2>1. pc' # [pc EXCEPT ![r] = "done"]
      BY DEF RequestsOK
    <2>2. ~End(r, 503) /\ ~End(r, 401)
      BY <2>1 DEF End, Go
    <2> HIDE DEF Admitted, End, Dispatch, Protected, Public, ByKeyAlone, Authentic
    <2>3. PICK user : /\ Dispatch(r, user) /\ name' = [name EXCEPT ![r] = user]
                      /\ \/ ByKeyAlone(r) /\ user = name[r]
                         \/ Public(r) /\ user = None
                         \/ /\ Protected(r) /\ Authentic(call[r].bearer)
                            /\ user = token[call[r].bearer].user
      BY <2>2, Admits
    <2> QED
      BY <1>4, <2>3
  <1> QED
    BY <1>1, <1>2, <1>5 DEF Proven

(* Confirming a password proves it. *)
LEMMA Confirmation ==
  ASSUME RequestsOK, Routing, NEW r \in Requests, ConfirmPassword(r), Admitted(r), Proven(r),
         held[r] \cup Good(r)' \subseteq held'[r]
  PROVE  Admitted(r)' /\ Proven(r)'
  <1>1. /\ UNCHANGED <<call, scope, name, served, token, now, black, password>>
        /\ pc[r] = "confirm" /\ call[r].route \in Routes
        /\ pc \in [Requests -> Steps]
    BY DEF ConfirmPassword, At, tokenVars, Routing, Routed, RequestsOK
  <1>2. served[r] = None /\ served'[r] = None
    BY <1>1 DEF Proven
  <1>3. (Public(r)' <=> Public(r)) /\ (Protected(r)' <=> Protected(r)) /\ Issued' = Issued
    BY <1>1 DEF Public, Protected, ByKeyAlone, Issued
  <1>4. pc'[r] = "forward" => call[r].password = password[call[r].path]
    BY <1>1 DEF ConfirmPassword, Go, End
  <1>5. pc'[r] = "forward" /\ call[r].path # None => "password" \in held'[r]
    BY <1>1, <1>4, RouteKinds DEF Good
  <1>6. pc'[r] \in {"forward", "done"}
    BY <1>1 DEF ConfirmPassword, Go, End
  <1> HIDE DEF Public, Protected, Issued
  <1> QED
    BY <1>1, <1>2, <1>3, <1>5, <1>6 DEF Admitted, Proven

(* A service acts for whom the gateway let in. *)
LEMMA Action ==
  ASSUME RequestsOK, Routing, TokensOK, served \in [Requests -> [for : Users \cup {None}] \cup {None}],
         NEW r \in Requests, Admitted(r), held[r] \subseteq held'[r],
         Act(r), UNCHANGED <<call, scope, name, token>>, ~Refused(r),
         \/ pc[r] = "forward" /\ pc'[r] = "done"
         \/ pc[r] = "end session" /\ pc'[r] = "end token"
  PROVE  Admitted(r)' /\ Proven(r)'
  <1>1. call[r] # None /\ call[r].route \in Routes
    BY CallAt, CallFacts DEF Routing, Routed
  <1>2. (Public(r)' <=> Public(r)) /\ (Protected(r)' <=> Protected(r)) /\ Issued' = Issued
    BY DEF Public, Protected, ByKeyAlone, Issued
  <1>3. served'[r] # None => served'[r].for = ActsFor(r)
    BY DEF Act
  <1>4. pc[r] = "end session" => call[r].route = "logout"
    BY DEF Routing, Routed
  <1>5. call[r].route \in Confirmed => Protected(r)
    BY RouteKinds DEF Protected, Public, ByKeyAlone
  <1>6. Protected(r) => name[r] \in Users
    BY DEF Admitted, TokensOK, Token, Issued
  <1>7. Public(r) => ActsFor(r) = None
    BY RouteKinds DEF ActsFor, Public, Admitted
  <1>8. Protected(r) /\ call[r].route \notin KeyRoutes => ActsFor(r) = token[call[r].bearer].user
    BY DEF ActsFor, Admitted
  <1>9. call[r].route \in Confirmed => ActsFor(r) = call[r].path /\ "password" \in held[r]
    <2> SUFFICES ASSUME call[r].route \in Confirmed
                 PROVE  ActsFor(r) = call[r].path /\ "password" \in held[r]
      OBVIOUS
    <2>1. pc[r] = "forward" /\ call[r].route \notin KeyRoutes
      BY <1>4, RouteKinds
    <2>2. ActsFor(r) = call[r].path /\ name[r] = call[r].path
      BY <2>1, RouteKinds DEF ActsFor, Refused, Admitted
    <2> QED
      BY <1>5, <1>6, <2>1, <2>2, AbsentAssumption DEF Admitted
  <1>10. Protected(r) => "token" \in held[r] /\ call[r].bearer \in Issued
    BY DEF Admitted
  <1>11. Admitted(r)'
    BY DEF Admitted
  <1> HIDE DEF Public, Protected, Issued, ActsFor
  <1> QED
    BY <1>1, <1>2, <1>3, <1>7, <1>8, <1>9, <1>10, <1>11 DEF Proven

(* Before and after that nothing has to be proven, or it is proven already. *)
LEMMA Early ==
  ASSUME NEW r, Proven(r), pc[r] \notin {"end token", "done"}, UNCHANGED served,
         pc'[r] \notin {"confirm", "forward", "end session"}
  PROVE  Admitted(r)' /\ Proven(r)'
  BY DEF Admitted, Proven

(* Whoever takes a step has proven what its next one needs. *)
LEMMA IdentityGoes ==
  ASSUME RequestsOK, Routing, TokensOK,
         served \in [Requests -> [for : Users \cup {None}] \cup {None}],
         NEW r \in Requests, RequestStep(r), Admitted(r), Proven(r),
         held[r] \cup Good(r)' \subseteq held'[r],
         Issued \subseteq Issued', \A p \in Issued : token'[p] = token[p]
  PROVE  Admitted(r)' /\ Proven(r)'
  <1> DEFINE Kept == Admitted(r)' /\ Proven(r)'
  <1>p. pc \in [Requests -> Steps]
    BY DEF RequestsOK
  <1>e. ASSUME NEW code, End(r, code) PROVE pc'[r] = "done"
    BY <1>e, <1>p DEF End, Go
  <1>g. ASSUME NEW step, Go(r, step) PROVE pc'[r] = step
    BY <1>g, <1>p DEF Go
  <1> HIDE DEF Issued
  <1>1. ASSUME NEW c \in plan.calls[r], Receive(r, c) PROVE Kept
    BY <1>1, <1>g, Early
    DEF Receive, At
  <1>2. ASSUME Count(r) PROVE Kept
    BY <1>2, <1>e, <1>g, Early, Budgets
    DEF Count, At, AfterLimit
  <1>3. ASSUME CountKey(r) PROVE Kept
    BY <1>3, <1>e, <1>g, Early, Budgets
    DEF CountKey, At
  <1>4. ASSUME Preflight(r) PROVE Kept
    <2>1. pc[r] = "preflight" /\ UNCHANGED served
      BY <1>4 DEF Preflight, At
    <2>2. \E code : End(r, code)
      BY <1>4 DEF Preflight
    <2> QED
      BY <2>1, <2>2, <1>e, <1>g, Early
  <1>5. ASSUME VerifyKey(r) PROVE Kept
    <2>1. pc[r] = "key" /\ UNCHANGED served /\ (Go(r, "budget") \/ \E code : End(r, code))
      BY <1>5 DEF VerifyKey, At
    <2> QED
      BY <2>1, <1>e, <1>g, Early
  <1>6. ASSUME CheckOrigins(r) PROVE Kept
    <2>1. pc[r] = "check" /\ UNCHANGED served
      BY <1>6 DEF CheckOrigins, At
    <2>2. Go(r, "write") \/ \E code : End(r, code)
      BY <1>6 DEF CheckOrigins
    <2> QED
      BY <2>1, <2>2, <1>e, <1>g, Early
  <1>7. ASSUME WriteApplication(r) PROVE Kept
    <2>1. pc[r] = "write" /\ UNCHANGED served
      BY <1>7 DEF WriteApplication, At
    <2>2. \E code : End(r, code)
      BY <1>7 DEF WriteApplication
    <2> QED
      BY <2>1, <2>2, <1>e, <1>g, Early
  <1>8. ASSUME Probe(r) PROVE Kept
    <2>1. pc[r] = "probe" /\ UNCHANGED served
      BY <1>8 DEF Probe, At
    <2>2. \E code : End(r, code)
      BY <1>8 DEF Probe
    <2> QED
      BY <2>1, <2>2, <1>e, <1>g, Early
  <1>9. ASSUME Validate(r) PROVE Kept
    <2>1. pc[r] = "validate" /\ UNCHANGED served /\ (Go(r, "generate") \/ \E code : End(r, code))
      BY <1>9 DEF Validate, At
    <2> QED
      BY <2>1, <1>e, <1>g, Early
  <1>10. ASSUME Generate(r) PROVE Kept
    <2>1. pc[r] = "generate" /\ UNCHANGED served
      BY <1>10 DEF Generate, At
    <2>2. Go(r, "rotate") \/ \E code : End(r, code)
      BY <1>10 DEF Generate
    <2> QED
      BY <2>1, <2>2, <1>e, <1>g, Early
  <1>11. ASSUME CheckRotation(r) PROVE Kept
    <2>1. pc[r] = "rotate" /\ UNCHANGED served
      BY <1>11 DEF CheckRotation, At
    <2>2. Go(r, "swap") \/ \E code : End(r, code)
      BY <1>11 DEF CheckRotation
    <2> QED
      BY <2>1, <2>2, <1>e, <1>g, Early
  <1>12. ASSUME Swap(r) PROVE Kept
    <2>1. pc[r] = "swap" /\ UNCHANGED served
      BY <1>12 DEF Swap, At
    <2>2. \E code : End(r, code)
      BY <1>12 DEF Swap
    <2> QED
      BY <2>1, <2>2, <1>e, <1>g, Early
  <1>13. ASSUME EndToken(r) \/ GiveUp(r) PROVE Kept
    <2>1. pc[r] \notin {"confirm", "forward", "idle", "done"}
      BY <1>13 DEF EndToken, GiveUp, At
    <2>2. pc'[r] = pc[r] \/ pc'[r] = "done"
      BY <1>13, <1>e, <1>g DEF EndToken, GiveUp
    <2>3. UNCHANGED <<call, scope, name, served>>
      BY <1>13 DEF EndToken, GiveUp
    <2>4. served[r] # None => pc'[r] \in {"end token", "done"}
      BY <2>2 DEF Proven
    <2> QED
      BY <2>2, <2>3, <2>4, IdentityKept
  <1>14. ASSUME VerifyToken(r) PROVE Kept
    BY <1>14, Admission
  <1>15. ASSUME ConfirmPassword(r) PROVE Kept
    BY <1>15, Confirmation
  <1>16. ASSUME Forward(r) PROVE Kept
    <2>1. pc[r] = "forward" /\ pc'[r] = "done" /\ UNCHANGED <<call, scope, name, token>>
      BY <1>16, <1>e DEF Forward, At, tokenVars
    <2>2. UNCHANGED served \/ (~Refused(r) /\ Act(r))
      BY <1>16 DEF Forward
    <2> QED
      BY <2>1, <2>2, Action, Early
  <1>17. ASSUME EndSession(r) PROVE Kept
    <2>1. /\ pc[r] = "end session" /\ pc'[r] = "end token" /\ Act(r)
          /\ UNCHANGED <<call, scope, name, token>>
      BY <1>17, <1>g DEF EndSession, At, tokenVars
    <2>2. ~Refused(r)
      BY <2>1, RouteKinds DEF Refused, Routing, Routed, UserRoutes, ProfileRoutes, AvatarRoutes,
                              DestructiveRoutes
    <2> QED
      BY <2>1, <2>2, Action
  <1> QED
    BY <1>1, <1>2, <1>3, <1>4, <1>5, <1>6, <1>7, <1>8, <1>9, <1>10, <1>11, <1>12, <1>13, <1>14,
       <1>15, <1>16, <1>17
    DEF RequestStep

(* Every step keeps what was proven proven. *)
LEMMA IdentityStep ==
  ASSUME RequestsOK, Routing, TokensOK, Identity,
         served \in [Requests -> [for : Users \cup {None}] \cup {None}],
         held \in [Requests -> SUBSET {"token", "password"}], [Next]_vars,
         Issued \subseteq Issued', \A p \in Issued : token'[p] = token[p]
  PROVE  Identity'
  <1>1. ASSUME NEW q \in Requests, Same(q) PROVE Admitted(q)' /\ Proven(q)'
    <2>1. Admitted(q) /\ Proven(q) /\ held[q] \subseteq held'[q]
      BY Watched DEF Identity
    <2>2. served[q] # None => pc[q] \in {"end token", "done"}
      BY <2>1 DEF Proven
    <2>3. UNCHANGED <<pc[q], call[q], scope[q], name[q], served[q]>>
      BY <1>1 DEF Same
    <2> HIDE DEF Issued
    <2> QED
      BY <2>1, <2>2, <2>3, IdentityKept
  <1>2. ASSUME NEW r \in Requests, RequestStep(r) PROVE UNCHANGED vars \/ (Admitted(r)' /\ Proven(r)')
    <2>1. Admitted(r) /\ Proven(r) /\ held[r] \subseteq held'[r]
      BY Watched DEF Identity
    <2> HIDE DEF Issued
    <2> QED
      BY <1>2, <2>1, IdentityGoes, Watched
  <1>3. UNCHANGED vars => \A q \in Requests : Same(q)
    BY DEF vars, requestVars, Same
  <1> QED
    BY <1>1, <1>2, <1>3, Movers DEF Identity

------------------------------------------------------------------------------
(* Budgets *)

(* A stamp is taken from the clock, and the clock does not go back. *)
LEMMA StampsStep ==
  ASSUME RequestsOK, TokensOK, DOMAIN served = Requests, [Next]_vars, now <= now', now' \in Nat,
         \A r \in Requests : stamp[r] <= now
  PROVE  \A r \in Requests : stamp'[r] <= now'
  <1>0. now \in Nat /\ 0 <= now /\ stamp \in [Requests -> Nat]
    BY DEF TokensOK, RequestsOK
  <1>1. ASSUME NEW r \in Requests, RequestStep(r)
        PROVE  TakeStamp(r) \/ UseStamp(r) \/ UNCHANGED stamp
    <2>1. (\E c \in plan.calls[r] : Receive(r, c)) \/ VerifyKey(r) => TakeStamp(r) \/ UNCHANGED stamp
      BY DEF Receive, VerifyKey
    <2>2. Count(r) \/ CountKey(r) => UseStamp(r)
      BY DEF Count, CountKey
    <2>3. Preflight(r) \/ VerifyToken(r) \/ CheckOrigins(r) \/ WriteApplication(r) => UNCHANGED stamp
      BY DEF Preflight, VerifyToken, CheckOrigins, WriteApplication
    <2>4. ConfirmPassword(r) \/ Forward(r) \/ Probe(r) \/ EndSession(r) \/ EndToken(r) => UNCHANGED stamp
      BY DEF ConfirmPassword, Forward, Probe, EndSession, EndToken
    <2>5. Validate(r) \/ Generate(r) \/ CheckRotation(r) \/ Swap(r) \/ GiveUp(r) => UNCHANGED stamp
      BY DEF Validate, Generate, CheckRotation, Swap, GiveUp
    <2> QED
      BY <1>1, <2>1, <2>2, <2>3, <2>4, <2>5 DEF RequestStep
  <1>2. ASSUME NEW q \in Requests, Same(q) PROVE stamp'[q] <= now'
    BY <1>0, <1>2 DEF Same
  <1>3. ASSUME NEW r \in Requests, RequestStep(r) PROVE stamp'[r] <= now'
    BY <1>0, <1>1, <1>3 DEF TakeStamp, UseStamp
  <1> QED
    BY <1>2, <1>3, Movers

(* A limiter counts r in bucket b, and lets it pass only within the limit.  *)
Counts(r, b) ==
  \E admitted \in BOOLEAN :
    /\ Enter(b, stamp[r]) /\ Note(b, stamp[r], admitted) /\ UNCHANGED now
    /\ admitted => ~Over(b, stamp[r])

(* Which bucket a limiter counts in, and when. *)
LEMMA Counting ==
  ASSUME RequestsOK, Routing, [Next]_vars
  PROVE  \/ UNCHANGED limiterVars
         \/ \E r \in Requests, b \in Buckets : Counts(r, b)
  <1>1. ASSUME NEW r \in Requests, Count(r), ~UNCHANGED limiterVars
        PROVE  \E b \in Buckets : Counts(r, b)
    <2>1. <<call[r].address, PathOf(call[r])>> \in Buckets
      BY <1>1, CallAt, InBuckets DEF Count, At
    <2> QED
      BY <1>1, <2>1, Budgets DEF Count, Counts, tokenVars
  <1>2. ASSUME NEW r \in Requests, CountKey(r), ~UNCHANGED limiterVars
        PROVE  \E b \in Buckets : Counts(r, b)
    <2>1. scope[r] \in Apps /\ call[r] \in ClientCalls
      BY <1>2, CallAt DEF CountKey, At, Routing, Routed, RequestsOK
    <2>2. <<scope[r], PathOf(call[r])>> \in Buckets
      BY <2>1, InBuckets
    <2> QED
      BY <1>2, <2>2, Budgets DEF CountKey, Counts, tokenVars
  <1> QED
    BY <1>1, <1>2, LimiterSteps

(* What is noted of a stamp. *)
LEMMA Noted ==
  ASSUME LimitersOK, NEW b \in Buckets, NEW s \in Nat, NEW admitted \in BOOLEAN,
         Enter(b, s), Note(b, s, admitted)
  PROVE  /\ window'[b] = [stamps |-> Entered(b, s), until |-> now + Window]
         /\ ledger'[b].accepted = IF admitted THEN {x \in ledger[b].accepted : x + Window > s} \cup {s}
                                  ELSE ledger[b].accepted
         /\ ledger'[b].top = IF s > ledger[b].top THEN s ELSE ledger[b].top
         /\ ~ledger'[b].late => /\ ~ledger[b].late /\ ~(s < ledger[b].top)
                                /\ ~(s < window[b].until /\ window[b].until <= now)
         /\ \A d \in Buckets \ {b} : window'[d] = window[d] /\ ledger'[d] = ledger[d]
  <1>1. ledger[b] \in LedgerRow
    BY DEF LimitersOK
  <1> DEFINE l == [ledger[b] EXCEPT
                     !.accepted = IF admitted THEN {x \in @ : x + Window > s} \cup {s} ELSE @,
                     !.top = IF s > @ THEN s ELSE @,
                     !.late = @ \/ s < ledger[b].top \/ (s < window[b].until /\ window[b].until <= now)]
  <1>2. /\ l.accepted = IF admitted THEN {x \in ledger[b].accepted : x + Window > s} \cup {s}
                        ELSE ledger[b].accepted
        /\ l.top = IF s > ledger[b].top THEN s ELSE ledger[b].top
        /\ ~l.late => /\ ~ledger[b].late /\ ~(s < ledger[b].top)
                      /\ ~(s < window[b].until /\ window[b].until <= now)
    BY <1>1 DEF LedgerRow
  <1>3. ledger' = [ledger EXCEPT ![b] = l]
    BY DEF Note
  <1> HIDE DEF l
  <1>4. ledger'[b] = l /\ \A d \in Buckets \ {b} : ledger'[d] = ledger[d]
    BY <1>3 DEF LimitersOK
  <1>5. /\ window'[b] = [stamps |-> Entered(b, s), until |-> now + Window]
        /\ \A d \in Buckets \ {b} : window'[d] = window[d]
    BY DEF Enter, LimitersOK
  <1> QED
    BY <1>2, <1>4, <1>5

(* A bucket stays counted as the clock goes on. *)
LEMMA CountedStays ==
  ASSUME NEW b, Counted(b), now \in Nat, now' \in Nat, now <= now',
         window'[b] = window[b], ledger'[b] = ledger[b]
  PROVE  Counted(b)'
  <1>1. 0..now \subseteq 0..now'
    OBVIOUS
  <1>2. LimitOf(b)' = LimitOf(b)
    BY DEF LimitOf
  <1> HIDE DEF LimitOf
  <1> QED
    BY <1>1, <1>2 DEF Counted

(* A stamp that is counted in order leaves its bucket within the limit: what *)
(* was accepted inside its window is still in the sorted set.                *)
LEMMA CountedNext ==
  ASSUME LimitersOK, TokensOK, NEW b \in Buckets, Counted(b), NEW s \in Nat, s <= now,
         NEW admitted \in BOOLEAN, admitted => ~Over(b, s),
         Enter(b, s), Note(b, s, admitted), UNCHANGED now
  PROVE  Counted(b)'
  <1> DEFINE acc == ledger[b].accepted
             top == ledger[b].top
             until == window[b].until
             kept == {x \in acc : x + Window > s} \cup {s}
  <1>t. /\ now \in Nat /\ Window \in Nat /\ top \in Nat /\ until \in Nat
        /\ acc \subseteq Nat /\ window[b].stamps \subseteq Nat
    BY WindowAssumption DEF TokensOK, LimitersOK, WindowRow, LedgerRow
  <1>l. LimitOf(b)' = LimitOf(b)
    BY DEF LimitOf
  <1>c. Counted(b)
    OBVIOUS
  <1>n. /\ window'[b].stamps = Entered(b, s) /\ window'[b].until = now + Window
        /\ ledger'[b].accepted = IF admitted THEN kept ELSE acc
        /\ ledger'[b].top = IF s > top THEN s ELSE top
        /\ ~ledger'[b].late => ~ledger[b].late /\ ~(s < top) /\ ~(s < until /\ until <= now)
    <2>1. window'[b] = [stamps |-> Entered(b, s), until |-> now + Window]
      BY Noted
    <2>2. ledger'[b].accepted = IF admitted THEN kept ELSE acc
      BY Noted
    <2>3. ledger'[b].top = IF s > top THEN s ELSE top
      BY Noted
    <2>4. ~ledger'[b].late => ~ledger[b].late /\ ~(s < top) /\ ~(s < until /\ until <= now)
      BY Noted
    <2> QED
      BY <2>1, <2>2, <2>3, <2>4
  <1>1. Entered(b, s) \subseteq window[b].stamps \cup {s}
    BY DEF Entered, Recent, Live
  <1>2. Entered(b, s) \subseteq 0..now
    BY <1>1, <1>t, <1>c DEF Counted
  <1>3. IsFiniteSet(0..now)
    <2>1. 0 \in Int /\ now \in Int
      BY <1>t
    <2> QED
      BY <2>1, FS_Interval
  <1>4. IsFiniteSet(Entered(b, s))
    BY <1>2, <1>3, FS_Subset
  <1>5. kept \subseteq 0..now /\ acc \subseteq 0..now
    BY <1>t, <1>c DEF Counted
  <1>6. IsFiniteSet(kept) /\ IsFiniteSet(acc)
    BY <1>3, <1>5, FS_Subset
  <1>7. ASSUME ~ledger'[b].late
        PROVE  /\ Cardinality(ledger'[b].accepted) <= LimitOf(b)
               /\ \A x \in ledger'[b].accepted :
                    /\ x <= ledger'[b].top
                    /\ x + Window <= window'[b].until
                    /\ x \in window'[b].stamps \/ x + Window <= ledger'[b].top
    <2>1. ~ledger[b].late /\ top <= s /\ (until <= s \/ now < until)
      BY <1>7, <1>n, <1>t
    <2>2. ledger'[b].top = s
      BY <2>1, <1>n, <1>t
    <2>3. /\ Cardinality(acc) <= LimitOf(b)
          /\ \A x \in acc : /\ x <= top /\ x + Window <= until
                            /\ x \in window[b].stamps \/ x + Window <= top
      BY <2>1, <1>c DEF Counted
    <2>4. ASSUME NEW x \in acc, x + Window > s PROVE x \in Entered(b, s)
      <3>1. x \in Nat /\ x \in window[b].stamps /\ now < until
        BY <2>1, <2>3, <2>4, <1>t
      <3> QED
        BY <3>1, <2>4 DEF Entered, Recent, Live
    <2>5. kept \subseteq Entered(b, s)
      BY <2>4 DEF Entered
    <2>6. ~Over(b, s) => Cardinality(kept) <= LimitOf(b)
      <3>1. Cardinality(kept) <= Cardinality(Entered(b, s))
        BY <1>4, <2>5, FS_Subset
      <3>2. Cardinality(kept) \in Nat /\ Cardinality(Entered(b, s)) \in Nat
        BY <1>4, <1>6, FS_CardinalityType
      <3>3. LimitOf(b) \in Nat
        BY LimitType
      <3> QED
        BY <3>1, <3>2, <3>3 DEF Over
    <2>7. Cardinality(ledger'[b].accepted) <= LimitOf(b)
      BY <1>n, <2>3, <2>6
    <2>8. ASSUME NEW x \in ledger'[b].accepted
          PROVE  x <= s /\ x + Window <= now + Window /\ (x \in Entered(b, s) \/ x + Window <= s)
      <3>1. x \in acc \/ x = s
        BY <1>n, <2>8
      <3>2. s \in Entered(b, s)
        BY DEF Entered
      <3>3. CASE x \in acc
        BY <3>3, <2>1, <2>3, <2>4, <1>t
      <3> QED
        BY <3>1, <3>2, <3>3, <1>t
    <2> QED
      BY <2>2, <2>7, <2>8, <1>n
  <1>8. /\ window'[b].stamps \subseteq 0..now' /\ IsFiniteSet(window'[b].stamps)
        /\ ledger'[b].accepted \subseteq 0..now' /\ IsFiniteSet(ledger'[b].accepted)
    BY <1>n, <1>2, <1>4, <1>5, <1>6
  <1> HIDE DEF LimitOf
  <1> QED
    BY <1>7, <1>8, <1>l DEF Counted

(* Every step keeps the buckets counted. *)
LEMMA BudgetStep ==
  ASSUME RequestsOK, TokensOK, LimitersOK, Routing, DOMAIN served = Requests, Budgeting,
         [Next]_vars, now <= now', now' \in Nat
  PROVE  Budgeting'
  <1>1. \A r \in Requests : stamp'[r] <= now'
    BY StampsStep DEF Budgeting
  <1>2. now \in Nat /\ stamp \in [Requests -> Nat]
    BY DEF TokensOK, RequestsOK
  <1>3. ASSUME NEW b \in Buckets, window'[b] = window[b], ledger'[b] = ledger[b] PROVE Counted(b)'
    BY <1>2, <1>3, CountedStays DEF Budgeting
  <1>4. CASE UNCHANGED limiterVars
    BY <1>1, <1>3, <1>4 DEF limiterVars, Budgeting
  <1>5. ASSUME NEW r \in Requests, NEW b \in Buckets, Counts(r, b)
        PROVE  Budgeting'
    <2>0. PICK admitted \in BOOLEAN :
            /\ Enter(b, stamp[r]) /\ Note(b, stamp[r], admitted) /\ UNCHANGED now
            /\ admitted => ~Over(b, stamp[r])
      BY <1>5 DEF Counts
    <2>1. stamp[r] \in Nat /\ stamp[r] <= now /\ Counted(b)
      BY <1>2 DEF Budgeting
    <2>2. Counted(b)'
      BY <2>0, <2>1, CountedNext
    <2>3. ASSUME NEW d \in Buckets, d # b PROVE Counted(d)'
      <3>1. window'[d] = window[d] /\ ledger'[d] = ledger[d]
        BY <2>0, <2>1, <2>3, Noted
      <3> QED
        BY <3>1, <1>3
    <2> QED
      BY <1>1, <2>2, <2>3 DEF Budgeting
  <1> QED
    BY <1>4, <1>5, Counting

------------------------------------------------------------------------------
(* Owners of origins *)

(* A call that came in is kept, ... *)
LEMMA CallsKept ==
  ASSUME RequestsOK, Routing, DOMAIN served = Requests, [Next]_vars,
         NEW q \in Requests, call[q] # None
  PROVE  call'[q] = call[q]
  <1>1. pc[q] # "idle"
    BY DEF Routing, Routed
  <1>2. ASSUME RequestStep(q) PROVE call'[q] = call[q]
    <2>1. ASSUME NEW c \in plan.calls[q], Receive(q, c) PROVE FALSE
      BY <1>1, <2>1 DEF Receive, At
    <2>2. Count(q) \/ CountKey(q) \/ Preflight(q) \/ VerifyKey(q) \/ VerifyToken(q) => UNCHANGED call
      BY DEF Count, CountKey, Preflight, VerifyKey, VerifyToken
    <2>3. CheckOrigins(q) \/ WriteApplication(q) \/ ConfirmPassword(q) \/ Forward(q) => UNCHANGED call
      BY DEF CheckOrigins, WriteApplication, ConfirmPassword, Forward
    <2>4. Probe(q) \/ EndSession(q) \/ EndToken(q) \/ Validate(q) \/ Generate(q) => UNCHANGED call
      BY DEF Probe, EndSession, EndToken, Validate, Generate
    <2>5. CheckRotation(q) \/ Swap(q) \/ GiveUp(q) => UNCHANGED call
      BY DEF CheckRotation, Swap, GiveUp
    <2> QED
      BY <1>2, <2>1, <2>2, <2>3, <2>4, <2>5 DEF RequestStep
  <1> QED
    BY <1>2, Movers DEF Same

(* ... and whom it has met it has met. *)
LEMMA MetStep ==
  ASSUME RequestsOK, [Next]_vars
  PROVE  UNCHANGED met \/ \E r \in Requests : \E c \in plan.calls[r] : Receive(r, c)
  <1> DEFINE Kept == UNCHANGED met
  <1> USE DEF requestVars
  <1>1. ASSUME NEW r \in Requests, Count(r) \/ CountKey(r) PROVE Kept
    BY <1>1
    DEF Count, CountKey
  <1>2. ASSUME NEW r \in Requests, Preflight(r) \/ VerifyKey(r) \/ VerifyToken(r) PROVE Kept
    BY <1>2
    DEF Preflight, VerifyKey, VerifyToken
  <1>3. ASSUME NEW r \in Requests, CheckOrigins(r) \/ WriteApplication(r) PROVE Kept
    BY <1>3
    DEF CheckOrigins, WriteApplication
  <1>4. ASSUME NEW r \in Requests, ConfirmPassword(r) \/ Forward(r) \/ Probe(r) PROVE Kept
    BY <1>4
    DEF ConfirmPassword, Forward, Probe
  <1>5. ASSUME NEW r \in Requests, EndSession(r) \/ EndToken(r) \/ Validate(r) \/ Generate(r) PROVE Kept
    BY <1>5
    DEF EndSession, EndToken, Validate, Generate
  <1>6. ASSUME NEW r \in Requests, CheckRotation(r) \/ Swap(r) \/ GiveUp(r) PROVE Kept
    BY <1>6
    DEF CheckRotation, Swap, GiveUp
  <1>7. ASSUME Environment PROVE Kept
    BY <1>7
    DEF Environment, CommitSession, ResetPassword, DropEntry, PassTime
  <1>8. ASSUME UNCHANGED vars PROVE Kept
    BY <1>8
    DEF vars
  <1> QED
    BY <1>1, <1>2, <1>3, <1>4, <1>5, <1>6, <1>7, <1>8
    DEF Next, RequestStep

(* A request keeps whom it has met. *)
LEMMA MetGrows ==
  ASSUME RequestsOK, Routing, [Next]_vars, NEW q \in Requests, call[q] # None
  PROVE  met[q] \subseteq met'[q]
  <1>1. CASE UNCHANGED met
    BY <1>1
  <1>2. ASSUME NEW r \in Requests, NEW c \in plan.calls[r], Receive(r, c)
        PROVE  met[q] \subseteq met'[q]
    <2>1. q # r
      BY <1>2 DEF Receive, At, Routing, Routed
    <2>2. Meet(r, c)
      BY <1>2 DEF Receive
    <2> DEFINE others == {x \in Requests : Underway(x) /\ call[x].route \in Writers}
    <2>3. \/ met' = met
          \/ met' = [x \in Requests |-> IF x = r THEN others
                                        ELSE IF x \in others THEN met[x] \cup {r} ELSE met[x]]
      BY <2>2 DEF Meet
    <2> HIDE DEF others
    <2> QED
      BY <2>1, <2>3
  <1> QED
    BY <1>1, <1>2, MetStep

(* How a request gets to work on an application. *)
LEMMA WorkSteps ==
  ASSUME RequestsOK, Routing, NEW r \in Requests, RequestStep(r), pc'[r] \in {"check", "write"}
  PROVE  \/ pc'[r] = "check" /\ \E c \in plan.calls[r] : Receive(r, c) /\ c.route \in Admin
         \/ pc'[r] = "write" /\ pc[r] = "check" /\ CheckOrigins(r)
  <1>p. pc \in [Requests -> Steps]
    BY DEF RequestsOK
  <1>e. ASSUME NEW code, End(r, code) PROVE FALSE
    BY <1>e, <1>p DEF End, Go
  <1>g. ASSUME NEW step, Go(r, step) PROVE pc'[r] = step
    BY <1>g, <1>p DEF Go
  <1>1. ASSUME NEW c \in plan.calls[r], Receive(r, c)
        PROVE  pc'[r] = "check" /\ c.route \in Admin
    BY <1>1, <1>g DEF Receive
  <1>2. ASSUME CheckOrigins(r) PROVE pc'[r] = "write" /\ pc[r] = "check"
    <2>1. Go(r, "write") \/ \E code : End(r, code)
      BY <1>2 DEF CheckOrigins
    <2> QED
      BY <1>2, <2>1, <1>e, <1>g DEF CheckOrigins, At
  <1>3. ASSUME Count(r) PROVE FALSE
    <2>1. Go(r, AfterLimit(call[r])) \/ \E code : End(r, code)
      BY <1>3, Budgets
      DEF Count
    <2> QED
      BY <2>1, <1>e, <1>g
      DEF AfterLimit
  <1>4. ASSUME CountKey(r) PROVE FALSE
    <2>1. Go(r, "jwt") \/ \E code : End(r, code)
      BY <1>4, Budgets
      DEF CountKey
    <2> QED
      BY <2>1, <1>e, <1>g
  <1>5. ASSUME Preflight(r) PROVE FALSE
    <2>1. \E code : End(r, code)
      BY <1>5
      DEF Preflight
    <2> QED
      BY <2>1, <1>e, <1>g
  <1>6. ASSUME VerifyKey(r) PROVE FALSE
    <2>1. Go(r, "budget") \/ \E code : End(r, code)
      BY <1>6
      DEF VerifyKey
    <2> QED
      BY <2>1, <1>e, <1>g
  <1>7. ASSUME WriteApplication(r) PROVE FALSE
    <2>1. \E code : End(r, code)
      BY <1>7
      DEF WriteApplication
    <2> QED
      BY <2>1, <1>e, <1>g
  <1>8. ASSUME ConfirmPassword(r) PROVE FALSE
    <2>1. Go(r, "forward") \/ \E code : End(r, code)
      BY <1>8
      DEF ConfirmPassword
    <2> QED
      BY <2>1, <1>e, <1>g
  <1>9. ASSUME Forward(r) PROVE FALSE
    <2>1. \E code : End(r, code)
      BY <1>9
      DEF Forward
    <2> QED
      BY <2>1, <1>e, <1>g
  <1>10. ASSUME Probe(r) PROVE FALSE
    <2>1. \E code : End(r, code)
      BY <1>10
      DEF Probe
    <2> QED
      BY <2>1, <1>e, <1>g
  <1>11. ASSUME EndSession(r) PROVE FALSE
    <2>1. Go(r, "end token") \/ \E code : End(r, code)
      BY <1>11
      DEF EndSession
    <2> QED
      BY <2>1, <1>e, <1>g
  <1>12. ASSUME EndToken(r) PROVE FALSE
    <2>1. \E code : End(r, code)
      BY <1>12
      DEF EndToken
    <2> QED
      BY <2>1, <1>e, <1>g
  <1>13. ASSUME Validate(r) PROVE FALSE
    <2>1. Go(r, "generate") \/ \E code : End(r, code)
      BY <1>13
      DEF Validate
    <2> QED
      BY <2>1, <1>e, <1>g
  <1>14. ASSUME Generate(r) PROVE FALSE
    <2>1. Go(r, "rotate") \/ \E code : End(r, code)
      BY <1>14
      DEF Generate
    <2> QED
      BY <2>1, <1>e, <1>g
  <1>15. ASSUME CheckRotation(r) PROVE FALSE
    <2>1. Go(r, "swap") \/ \E code : End(r, code)
      BY <1>15
      DEF CheckRotation
    <2> QED
      BY <2>1, <1>e, <1>g
  <1>16. ASSUME Swap(r) PROVE FALSE
    <2>1. \E code : End(r, code)
      BY <1>16
      DEF Swap
    <2> QED
      BY <2>1, <1>e, <1>g
  <1>17. ASSUME VerifyToken(r) PROVE FALSE
    <2>1. call[r] \in Calls
      BY <1>17, CallAt DEF VerifyToken, At
    <2>2. (\E code : End(r, code)) \/ Go(r, NextStep(call[r]))
      BY <1>17, <2>1, Admits, Dispatches
    <2> QED
      BY <2>1, <2>2, <1>e, <1>g, NextSteps
  <1>18. ASSUME GiveUp(r) PROVE FALSE
    BY <1>18, <1>g DEF GiveUp
  <1> QED
    BY <1>1, <1>2, <1>3, <1>4, <1>5, <1>6, <1>7, <1>8, <1>9, <1>10, <1>11, <1>12, <1>13, <1>14,
       <1>15, <1>16, <1>17, <1>18
    DEF RequestStep

(* Administrators who are at work together have met: the one who came later *)
(* found the other one under way.                                           *)
LEMMA WorkStep ==
  ASSUME RequestsOK, Routing, DOMAIN served = Requests, [Next]_vars,
         \A r, q \in Requests : r # q /\ AtWork(r) /\ AtWork(q) => q \in met[r]
  PROVE  \A r, q \in Requests : r # q /\ AtWork(r)' /\ AtWork(q)' => q \in met'[r]
  <1> SUFFICES ASSUME NEW x \in Requests, NEW y \in Requests, x # y, AtWork(x)', AtWork(y)'
               PROVE  y \in met'[x]
    OBVIOUS
  <1>1. \A r \in Requests : AtWork(r) => call[r] # None /\ call[r].route \in Admin
    BY CallAt, CallFacts DEF AtWork, Routing, Routed
  <1>2. CASE AtWork(x) /\ AtWork(y)
    BY <1>1, <1>2, MetGrows
  <1>3. ASSUME NEW r \in Requests, NEW q \in Requests, r # q, ~AtWork(r), AtWork(r)', AtWork(q)'
        PROVE  q \in met'[r] /\ r \in met'[q]
    <2>1. RequestStep(r) /\ Same(q)
      BY <1>3, Movers DEF Same, AtWork
    <2>2. PICK c \in plan.calls[r] : Receive(r, c) /\ c.route \in Admin
      BY <1>3, <2>1, WorkSteps DEF AtWork
    <2>3. AtWork(q)
      BY <1>3, <2>1 DEF Same, AtWork
    <2>4. Underway(q) /\ call[q].route \in Writers /\ c.route \in Writers
      BY <1>1, <2>2, <2>3 DEF Underway, AtWork, Writers
    <2>5. Meet(r, c)
      BY <2>2 DEF Receive
    <2> DEFINE others == {z \in Requests : Underway(z) /\ call[z].route \in Writers}
    <2>6. met' = [z \in Requests |-> IF z = r THEN others
                                     ELSE IF z \in others THEN met[z] \cup {r} ELSE met[z]]
      BY <2>4, <2>5 DEF Meet
    <2>7. q \in others
      BY <2>4
    <2> HIDE DEF others
    <2> QED
      BY <1>3, <2>6, <2>7
  <1> QED
    BY <1>2, <1>3

(* What a write changes. *)
LEMMA WriteFacts ==
  ASSUME OriginsOK, RequestsOK, Routing, NEW r \in Requests, pc[r] = "write", Write(call[r], r)
  PROVE  LET c == call[r] d == c.app IN
         /\ d \in Apps /\ app'[d] # Absent /\ asleep \subseteq asleep'
         /\ \A a \in Apps \ {d} : app'[a] = app[a] /\ claim'[a] = claim[a]
         /\ c.origins # Absent => app'[d].origins = c.origins /\ claim'[d] = r
         /\ c.origins = Absent => /\ app[d] # Absent /\ app'[d].origins = app[d].origins
                                  /\ claim'[d] = claim[d]
         /\ ~app'[d].active => d \in asleep' \/ (app[d] # Absent /\ ~app[d].active)
  <1> DEFINE c == call[r]
  <1>1. c \in AdminCalls
    BY CallAt
  <1>2. c.app \in Apps /\ c.route \in {"create", "update-app"}
    BY <1>1 DEF AdminCalls
  <1>3. c.route = "create" => c.origins # Absent
    BY <1>1, AbsentOriginAssumption DEF AdminCalls
  <1>4. c.route = "update-app" => app[c.app] \in Application
    BY <1>2 DEF Routing, Routed, OriginsOK, RegistryOK
  <1>5. app'[c.app] # Absent
    BY WriteTyped, AbsentOriginAssumption
  <1> HIDE DEF c
  <1>6. Write(c, r)
    BY DEF c
  <1>7. /\ \A a \in Apps \ {c.app} : app'[a] = app[a] /\ claim'[a] = claim[a]
        /\ claim'[c.app] = IF c.origins = Absent THEN claim[c.app] ELSE r
        /\ app'[c.app] = IF c.route = "create" THEN Created(c) ELSE Updated(c)
        /\ asleep' = asleep \cup {a \in {c.app} : c.active = FALSE}
    BY <1>2, <1>6 DEF Write, OriginsOK, RegistryOK
  <1>8. ASSUME c.route = "update-app"
        PROVE  /\ Updated(c).origins = IF c.origins = Absent THEN app[c.app].origins ELSE c.origins
               /\ Updated(c).active = IF c.active = Absent THEN app[c.app].active ELSE c.active
    BY <1>4, <1>8 DEF Updated, Application
  <1>9. Created(c).origins = c.origins /\ Created(c).active = TRUE
    BY DEF Created
  <1>10. c.origins # Absent => app'[c.app].origins = c.origins /\ claim'[c.app] = r
    BY <1>2, <1>7, <1>8, <1>9
  <1>11. c.origins = Absent => /\ app[c.app] # Absent /\ app'[c.app].origins = app[c.app].origins
                               /\ claim'[c.app] = claim[c.app]
    BY <1>2, <1>3, <1>4, <1>7, <1>8, AbsentOriginAssumption
  <1>12. ASSUME ~app'[c.app].active
         PROVE  c.app \in asleep' \/ (app[c.app] # Absent /\ ~app[c.app].active)
    <2>1. c.route = "update-app" /\ app[c.app] # Absent
      BY <1>2, <1>4, <1>7, <1>9, <1>12, AbsentOriginAssumption
    <2>2. c.active \in BOOLEAN \cup {Absent}
      BY <1>1, <2>1 DEF AdminCalls
    <2>3. CASE c.active = Absent
      BY <1>7, <1>8, <1>12, <2>1, <2>3
    <2>4. CASE c.active # Absent
      <3>1. app'[c.app].active = c.active
        BY <1>7, <1>8, <2>1, <2>4
      <3>2. c.active = FALSE
        BY <1>12, <2>2, <2>4, <3>1
      <3> QED
        BY <1>7, <3>2
    <2> QED
      BY <2>3, <2>4
  <1> QED
    BY <1>2, <1>5, <1>7, <1>10, <1>11, <1>12 DEF c

(* Only a write changes who has which origins. *)
LEMMA Writing ==
  ASSUME RequestsOK, [Next]_vars
  PROVE  \/ UNCHANGED <<app, claim, asleep>>
         \/ \E r \in Requests : /\ WriteApplication(r) /\ pc[r] = "write" /\ pc'[r] = "done"
                                /\ Write(call[r], r) /\ UNCHANGED met
  <1>1. ASSUME NEW r \in Requests, WriteApplication(r)
        PROVE  /\ UNCHANGED registryVars \/ Write(call[r], r)
               /\ pc[r] = "write" /\ pc'[r] = "done" /\ UNCHANGED met
    BY <1>1 DEF WriteApplication, At, End, Go, RequestsOK
  <1> QED
    BY <1>1, RegistrySteps DEF VerifyKey, DropEntry, Evict, registryVars

(* Rivals stay rivals. *)
LEMMA RivalStays ==
  ASSUME OriginsOK, RequestsOK, Routing, Owning, [Next]_vars,
         NEW a \in Apps, NEW q \in Requests, call[q] # None, Rival(a, q), claim'[a] = claim[a]
  PROVE  Rival(a, q)'
  <1>1. claim[a] \in Requests /\ call[claim[a]] # None
    BY DEF Rival, OriginsOK, Owning
  <1> QED
    BY <1>1, MetGrows DEF Rival

(* Every step keeps origins with one owner, but for rivals. *)
LEMMA OwningStep ==
  ASSUME OriginsOK, OriginsOK', RequestsOK, RequestsOK', Routing, DOMAIN served = Requests, Owning,
         [Next]_vars
  PROVE  Owning'
  <1>0. \A r \in Requests : pc[r] = "write" => call[r] # None
    BY CallAt, CallFacts
  <1>1. ASSUME NEW a \in Apps, claim'[a] # None PROVE call'[claim'[a]] # None
    <2>1. claim'[a] \in Requests
      BY <1>1 DEF OriginsOK
    <2>2. call[claim'[a]] # None
      BY <1>0, <1>1, Writing, WriteFacts DEF Owning
    <2> QED
      BY <2>1, <2>2, CallsKept
  <1>2. ASSUME NEW a \in Apps, app'[a] # Absent, ~app'[a].active PROVE a \in asleep'
    <2>1. CASE UNCHANGED <<app, claim, asleep>>
      BY <1>2, <2>1 DEF Owning
    <2>2. ASSUME NEW r \in Requests, pc[r] = "write", Write(call[r], r) PROVE a \in asleep'
      BY <1>2, <2>2, WriteFacts DEF Owning
    <2> QED
      BY <2>1, <2>2, Writing
  <1>3. \A r, q \in Requests : r # q /\ AtWork(r)' /\ AtWork(q)' => q \in met'[r]
    BY WorkStep DEF Owning
  <1>4. ASSUME NEW r \in Requests, NEW a \in Apps, pc'[r] = "write", call'[r].origins # Absent,
               a # call'[r].app, a \notin asleep', Active(a)', app'[a].origins \cap call'[r].origins # {}
        PROVE  Rival(a, r)'
    <2>1. CASE RequestStep(r)
      <3>1. CheckOrigins(r) /\ pc[r] = "check"
        BY <1>4, <2>1, WorkSteps
      <3>2. UNCHANGED <<call, app>> /\ Go(r, "write")
        BY <1>4, <3>1 DEF CheckOrigins, registryVars, End, Go, RequestsOK
      <3>3. Available(call[r].app, call[r].origins)
        BY <1>4, <3>1, <3>2 DEF CheckOrigins, End, Go, RequestsOK
      <3>4. a \in Matching(call[r].origins)
        BY <1>4, <3>2 DEF Matching, Active
      <3> QED
        BY <1>4, <3>2, <3>3, <3>4 DEF Available
    <2>2. CASE Same(r)
      <3>1. pc[r] = "write" /\ call'[r] = call[r] /\ call[r] # None
        BY <1>0, <1>4, <2>2 DEF Same
      <3>2. ASSUME claim'[a] = claim[a], app[a] # Absent, app'[a].origins = app[a].origins,
                   asleep \subseteq asleep'
            PROVE  Rival(a, r)'
        <4>1. Active(a) /\ a \notin asleep
          BY <1>4, <3>2 DEF Active, Owning
        <4>2. Rival(a, r)
          BY <1>4, <3>1, <3>2, <4>1 DEF Owning
        <4> QED
          BY <3>1, <3>2, <4>2, RivalStays
      <3>3. CASE UNCHANGED <<app, claim, asleep>>
        BY <1>4, <3>2, <3>3 DEF Active
      <3>4. ASSUME NEW q \in Requests, pc[q] = "write", pc'[q] = "done", Write(call[q], q), UNCHANGED met
            PROVE  Rival(a, r)'
        <4>1. q # r
          BY <1>4, <3>4
        <4>2. q \in met[r] /\ r \in met[q]
          BY <3>1, <3>4, <4>1 DEF Owning, AtWork
        <4>3. CASE a = call[q].app /\ call[q].origins # Absent
          <5>1. claim'[a] = q
            BY <3>4, <4>3, WriteFacts
          <5> QED
            BY <3>4, <4>2, <5>1, NoneAssumption DEF Rival
        <4>4. CASE ~(a = call[q].app /\ call[q].origins # Absent)
          BY <1>4, <3>2, <3>4, <4>4, WriteFacts DEF Active
        <4> QED
          BY <4>3, <4>4
      <3> QED
        BY <3>3, <3>4, Writing
    <2> QED
      BY <2>1, <2>2, Movers
  <1>5. ASSUME NEW a \in Apps, NEW b \in Apps, a # b, Shared(a, b)', {a, b} \cap asleep' = {}
        PROVE  claim'[b] # None /\ Rival(a, claim[b])'
    <2>1. Active(a)' /\ Active(b)' /\ app'[a].origins \cap app'[b].origins # {}
          /\ a \notin asleep' /\ b \notin asleep'
      BY <1>5 DEF Shared
    <2>2. ASSUME \A d \in {a, b} : /\ claim'[d] = claim[d] /\ app[d] # Absent
                                   /\ app'[d].origins = app[d].origins,
                 asleep \subseteq asleep'
          PROVE  claim'[b] # None /\ Rival(a, claim[b])'
      <3>1. Active(a) /\ Active(b)
        BY <2>1, <2>2 DEF Active, Owning
      <3>2. Shared(a, b) /\ {a, b} \cap asleep = {}
        BY <2>1, <2>2, <3>1 DEF Shared
      <3>3. claim[b] # None /\ Rival(a, claim[b])
        BY <1>5, <3>2 DEF Owning
      <3>4. claim[b] \in Requests /\ call[claim[b]] # None
        BY <3>3 DEF Owning, OriginsOK
      <3>5. claim[a] \in Requests /\ call[claim[a]] # None
        BY <3>3 DEF Owning, OriginsOK, Rival
      <3>6. met[claim[a]] \subseteq met'[claim[a]] /\ met[claim[b]] \subseteq met'[claim[b]]
        BY <3>4, <3>5, MetGrows
      <3> QED
        BY <2>2, <3>3, <3>6 DEF Rival
    <2>3. CASE UNCHANGED <<app, claim, asleep>>
      BY <2>1, <2>2, <2>3 DEF Active
    <2>4. ASSUME NEW r \in Requests, pc[r] = "write", Write(call[r], r), UNCHANGED met
          PROVE  claim'[b] # None /\ Rival(a, claim[b])'
      <3> DEFINE c == call[r]
      <3>1. ASSUME c.origins # Absent, NEW d \in {a, b}, d # c.app, c.app \in {a, b}
            PROVE  Rival(d, r) /\ claim'[d] = claim[d] /\ claim'[c.app] = r
        <4>1. claim'[d] = claim[d] /\ app'[d] = app[d] /\ asleep \subseteq asleep'
              /\ app'[c.app].origins = c.origins /\ claim'[c.app] = r
          BY <2>4, <3>1, WriteFacts
        <4>2. Active(d) /\ d \notin asleep /\ app[d].origins \cap c.origins # {}
          BY <1>5, <2>1, <3>1, <4>1 DEF Active
        <4> QED
          BY <2>4, <3>1, <4>1, <4>2 DEF Owning
      <3>2. CASE c.origins # Absent /\ c.app = a
        BY <1>5, <2>4, <3>1, <3>2, NoneAssumption DEF Rival
      <3>3. CASE c.origins # Absent /\ c.app = b
        BY <1>5, <2>4, <3>1, <3>3, NoneAssumption DEF Rival
      <3>4. CASE c.origins = Absent \/ c.app \notin {a, b}
        <4>1. ASSUME NEW d \in {a, b}
              PROVE  claim'[d] = claim[d] /\ app[d] # Absent /\ app'[d].origins = app[d].origins
          BY <2>1, <2>4, <3>4, WriteFacts DEF Active
        <4> QED
          BY <2>2, <2>4, <4>1, WriteFacts
      <3> QED
        BY <3>2, <3>3, <3>4
    <2> QED
      BY <2>3, <2>4, Writing
  <1> QED
    BY <1>1, <1>2, <1>3, <1>4, <1>5 DEF Owning

------------------------------------------------------------------------------
(* The invariant *)

(* At the start nobody has asked anything, the first sessions have the first *)
(* pairs and no origin is listed twice.                                      *)
LEMMA Initial == Init => IInv
  <1> SUFFICES ASSUME Init PROVE IInv
    OBVIOUS
  <1>1. PICK n \in Pairs : DOMAIN Login = 0..n /\ Login \in [0..n -> Users]
    BY LoginAssumption
  <1>2. 0..n \subseteq Pairs
    BY <1>1, PairsAssumption DEF Pairs
  <1>3. token \in [Pairs -> Token \cup {None}] /\ \A p \in Pairs : token[p] # None <=> p \in 0..n
    <2>1. Life \in Nat
      BY ClockAssumption
    <2>2. \A p \in 0..n : [user |-> Login[p], exp |-> Life] \in Token
      BY <1>1, <2>1 DEF Token
    <2> QED
      BY <1>1, <2>2, AbsentAssumption DEF Init, Sessions, Token
  <1>4. Numbered
    BY <1>1, <1>2, <1>3 DEF Numbered, Issued
  <1>5. TokensOK
    BY <1>3 DEF Init, TokensOK
  <1>6. plan \in Plans /\ app = plan.apps /\ \A r \in Requests : pc[r] = "idle" /\ call[r] = None
    BY DEF Init
  <1>7. OriginsOK
    BY <1>6, PlansAssumption DEF Init, OriginsOK, RegistryOK
  <1>8. lost \in 0..plan.failures
    BY <1>6, PlansAssumption DEF Init
  <1>9. RequestsOK
    BY <1>6, <1>8 DEF Init, RequestsOK, Steps
  <1>10. LimitersOK
    BY DEF Init, LimitersOK, WindowRow, LedgerRow
  <1>11. SessionsOK
    BY <1>1, <1>2 DEF Init, SessionsOK, Sessions, SessionRow
  <1>12. /\ password \in [Users -> Passwords] /\ held \in [Requests -> SUBSET {"token", "password"}]
         /\ served \in [Requests -> [for : Users \cup {None}] \cup {None}]
    BY FirstAssumption DEF Init
  <1>13. Types
    BY <1>5, <1>7, <1>9, <1>10, <1>11, <1>12 DEF Types
  <1>14. Routing
    BY <1>6 DEF Routing, Routed
  <1>15. Identity
    <2>1. \A r \in Requests : served[r] = None
      BY DEF Init
    <2> QED
      BY <1>6, <2>1 DEF Identity, Admitted, Proven
  <1>16. Budgeting
    <2>1. (\A r \in Requests : stamp[r] = 0) /\ now = 0
      BY DEF Init
    <2>2. ASSUME NEW b \in Buckets PROVE Counted(b)
      <3>1. window[b] = [stamps |-> {}, until |-> 0] /\ ledger[b].accepted = {}
        BY DEF Init
      <3>2. LimitOf(b) \in Nat
        BY LimitType
      <3>3. IsFiniteSet({}) /\ Cardinality({}) = 0
        BY FS_EmptySet
      <3> HIDE DEF LimitOf
      <3> QED
        BY <3>1, <3>2, <3>3 DEF Counted
    <2> QED
      BY <2>1, <2>2 DEF Budgeting
  <1>17. Owning
    <2>1. \A a \in Apps : claim[a] = None
      BY DEF Init
    <2>2. asleep = {x \in Apps : app[x] # Absent /\ ~app[x].active}
      BY DEF Init
    <2>3. ASSUME NEW a \in Apps, NEW b \in Apps, a # b PROVE ~Shared(a, b)
      BY <1>6, <2>3, PlansAssumption DEF Shared, Active
    <2> QED
      BY <1>6, <2>1, <2>2, <2>3 DEF Owning, AtWork
  <1> QED
    BY <1>4, <1>13, <1>14, <1>15, <1>16, <1>17 DEF IInv

(* Every step keeps every part of it. *)
LEMMA Invariance == IInv /\ [Next]_vars => IInv'
  <1> SUFFICES ASSUME IInv, [Next]_vars PROVE IInv'
    OBVIOUS
  <1>1. /\ Numbered /\ Routing /\ Identity /\ Budgeting /\ Owning
        /\ TokensOK /\ OriginsOK /\ RequestsOK /\ LimitersOK /\ SessionsOK
        /\ plan \in Plans /\ DOMAIN served = Requests
    BY DEF IInv, Types, RequestsOK
  <1>2. /\ password \in [Users -> Passwords] /\ held \in [Requests -> SUBSET {"token", "password"}]
        /\ served \in [Requests -> [for : Users \cup {None}] \cup {None}]
    BY DEF IInv, Types
  <1>3. /\ Numbered' /\ TokensOK' /\ now <= now'
        /\ Issued \subseteq Issued' /\ \A p \in Issued : token'[p] = token[p]
    BY <1>1, TokensStep
  <1>4. OriginsOK' /\ RequestsOK' /\ LimitersOK' /\ SessionsOK'
    BY <1>1, OriginsStep, RequestsStep, LimitersStep, SessionsStep
  <1>5. /\ password' \in [Users -> Passwords] /\ held' \in [Requests -> SUBSET {"token", "password"}]
        /\ served' \in [Requests -> [for : Users \cup {None}] \cup {None}]
    BY <1>1, <1>2, PasswordStep, Watched, ServedStep
  <1>6. Types'
    BY <1>3, <1>4, <1>5 DEF Types
  <1>7. Routing'
    BY <1>1, <1>3, RoutingStep
  <1>8. Identity'
    BY <1>1, <1>2, <1>3, IdentityStep
  <1>9. now' \in Nat
    BY <1>3 DEF TokensOK
  <1>10. Budgeting'
    BY <1>1, <1>3, <1>9, BudgetStep
  <1>11. Owning'
    BY <1>1, <1>4, OwningStep
  <1> QED
    BY <1>3, <1>6, <1>7, <1>8, <1>10, <1>11 DEF IInv

(* The invariant holds in every state. *)
LEMMA Inductive == Spec => []IInv
  <1>1. Init => IInv
    BY Initial
  <1>2. IInv /\ [Next]_vars => IInv'
    BY Invariance
  <1> QED
    BY <1>1, <1>2, PTL DEF Spec

(* Every variable of the gateway and of what it reaches has its type, for   *)
(* any requests, users, applications and limits.                            *)
THEOREM TypeCorrect == Spec => []TypeOK
  <1>1. IInv => TypeOK
    BY DEF IInv, Types, TypeOK, OriginsOK, RequestsOK, SessionsOK, OpenRow
  <1> QED
    BY <1>1, Inductive, PTL

(* middleware/jwt_auth.py: whatever comes with a request, a service acts    *)
(* for a user only when a token of that user was good since it came in, and *)
(* destroys nothing without that user's password.                           *)
THEOREM ActsForOwner == Spec => []IdentityProven
  <1>1. IInv => IdentityProven
    BY DEF IInv, Identity, Proven, IdentityProven
  <1> QED
    BY <1>1, Inductive, PTL

(* middleware/rate_limit.py: no window of a bucket that is counted in order *)
(* of the stamps has more accepted requests than the limit.                 *)
THEOREM WithinLimit == Spec => []BudgetHolds
  <1>1. ASSUME IInv PROVE BudgetHolds
    <2> SUFFICES ASSUME NEW b \in Buckets, ~ledger[b].late, NEW s \in ledger[b].accepted
                 PROVE  Cardinality({x \in ledger[b].accepted : x <= s /\ x + Window > s}) <= LimitOf(b)
      BY DEF BudgetHolds
    <2> DEFINE acc == ledger[b].accepted
               seen == {x \in acc : x <= s /\ x + Window > s}
    <2>1. IsFiniteSet(acc) /\ Cardinality(acc) <= LimitOf(b)
      BY <1>1 DEF IInv, Budgeting, Counted
    <2>2. IsFiniteSet(seen) /\ Cardinality(seen) <= Cardinality(acc)
      BY <2>1, FS_Subset
    <2>3. Cardinality(seen) \in Nat /\ Cardinality(acc) \in Nat
      BY <2>1, <2>2, FS_CardinalityType
    <2>4. LimitOf(b) \in Nat
      BY LimitType
    <2> HIDE DEF acc, seen
    <2>5. Cardinality(seen) <= LimitOf(b)
      BY <2>1, <2>2, <2>3, <2>4
    <2> QED
      BY <2>5 DEF seen, acc
  <1> QED
    BY <1>1, Inductive, PTL

(* services/application_service.py: two applications in use list the same   *)
(* origin only if their writes overlapped, or one of them was suspended.    *)
THEOREM OriginOwned == Spec => []OneOwner
  <1>1. IInv => OneOwner
    BY DEF IInv, Owning, Rival, OneOwner
  <1> QED
    BY <1>1, Inductive, PTL

------------------------------------------------------------------------------
(* Signing out *)

Services == {"end session", "end token", "validate", "generate", "rotate", "swap"}

OpenBy(s, r) == open[s] # None /\ open[s].by = r

(* What the steps of a request tell of its call and of its answer.          *)
Tracked(r) ==
  LET c == call[r] IN
  /\ c # None /\ c.route \in Routes => {c.bearer, c.refresh} \subseteq Issued \cup {None}
  /\ pc[r] = "preflight" => c.preflight
  /\ pc[r] \notin {"idle", "count", "preflight", "check", "write", "done"} => ~c.preflight
  /\ pc[r] \in {"confirm", "forward", "probe"} => c.route \notin {"logout", "refresh"}
  /\ pc[r] \in {"end session", "end token"} => c.bearer \in Issued
  /\ got[r] # None => /\ pc[r] \in {"rotate", "swap", "done"} /\ r \in Refreshes
                      /\ got[r] \in Issued
  /\ lost = 0 /\ answer[r] # None => pc[r] = "done"
Tracking ==
  /\ \A r \in Requests : Tracked(r)
  /\ \A r, q \in Requests : got[r] # None /\ got[r] = got[q] => r = q

(* An open row is that of a logout, or of a refresh that swapped the hash.  *)
Opened(s) ==
  open[s] # None =>
    LET q == open[s].by to == open[s].row IN
    \/ /\ q \in Logouts /\ pc[q] \in {"end token", "done"}
       /\ to.revoked /\ to.hash = session[s].hash /\ to.user = session[s].user
    \/ /\ q \in Refreshes /\ pc[q] = "done" /\ target[q] = s
       /\ got[q] # None /\ to.hash = got[q] /\ to.revoked = session[s].revoked
       /\ to.user = session[s].user

(* A refresh token is that of one session, and was brought by nobody who is *)
(* still under way.                                                         *)
Hashing ==
  /\ \A s \in Sessions : session[s].hash \in Issued /\ Opened(s)
  /\ \A s, t \in Sessions : session[s].hash = session[t].hash => s = t
  /\ \A s \in Sessions, q \in Requests :
       got[q] = session[s].hash => target[q] = s /\ ~Underway(q)

(* Writers that are under way together have met. *)
Meeting ==
  \A r, q \in Requests :
    r # q /\ Underway(r) /\ Underway(q) /\ {call[r].route, call[q].route} \subseteq Writers
      => q \in met[r]

(* The access token of pair p is listed for what is left of its life, but   *)
(* for less than a second.                                                  *)
Listed(p) ==
  p \in Issued /\ (LastSeconds(p) \/ (black[p] # None /\ black[p] + PerSecond > Expiry(p)))

(* What a logout has done, when nothing failed. *)
LogoutDone(r) ==
  lost = 0 /\ r \in Logouts =>
    LET x == call[r].refresh IN
    /\ answer[r] = 200 => Listed(call[r].bearer)
    /\ met[r] \cap Refreshes = {} =>
         /\ x # None => Settled(x)
         /\ pc[r] = "end token" \/ answer[r] = 200 =>
              \A s \in OfHash(x) : session[s].revoked \/ OpenBy(s, r)

(* What a refresh that met no logout knows of the session it was for. *)
RefreshGoesOn(q) ==
  /\ lost = 0 /\ q \in Refreshes /\ met[q] \cap Logouts = {}
  /\ pc[q] \in {"generate", "rotate", "swap"} \/ answer[q] = 200
  => LET x == call[q].refresh IN
     /\ Settled(x)
     /\ \A s \in OfHash(x) : Valid(s)
     /\ pc[q] = "swap" => OfHash(x) \subseteq {target[q]}
     /\ answer[q] = 200 => \A s \in OfHash(x) : OpenBy(s, q)

SInv ==
  /\ Tracking /\ Hashing /\ Meeting
  /\ \A r \in Requests : LogoutDone(r) /\ RefreshGoesOn(r)

(* What stays as it is once it is there. *)
LEMMA Lasting ==
  ASSUME IInv, [Next]_vars
  PROVE  /\ lost' = 0 => lost = 0
         /\ \A q \in Requests : call[q] # None =>
              /\ call'[q] = call[q] /\ met[q] \subseteq met'[q]
              /\ q \in Logouts' <=> q \in Logouts
              /\ q \in Refreshes' <=> q \in Refreshes
         /\ Logouts \subseteq Logouts' /\ Refreshes \subseteq Refreshes'
         /\ Issued \subseteq Issued' /\ \A p \in Issued : token'[p] = token[p]
         /\ now <= now'
  <1>1. /\ Numbered /\ TokensOK /\ Routing /\ RequestsOK /\ DOMAIN served = Requests
    BY DEF IInv, Types
  <1>2. lost' = 0 => lost = 0
    BY <1>1, LostStep, PlanFacts DEF RequestsOK
  <1>3. \A q \in Requests : call[q] # None => call'[q] = call[q] /\ met[q] \subseteq met'[q]
    BY <1>1, CallsKept, MetGrows
  <1>4. \A q \in Requests : call[q] # None =>
          /\ q \in Logouts' <=> q \in Logouts
          /\ q \in Refreshes' <=> q \in Refreshes
    BY <1>3 DEF Logouts, Refreshes, Calling
  <1>5. Logouts \subseteq Logouts' /\ Refreshes \subseteq Refreshes'
    BY <1>4 DEF Logouts, Refreshes, Calling
  <1> QED
    BY <1>1, <1>2, <1>3, <1>4, <1>5, TokensStep

(* The steps on the way to a service, and to those other modules have. *)
Plain(r) ==
  \/ Count(r) \/ CountKey(r) \/ Preflight(r) \/ VerifyKey(r) \/ VerifyToken(r)
  \/ CheckOrigins(r) \/ WriteApplication(r) \/ ConfirmPassword(r) \/ Forward(r) \/ Probe(r)

Fits(r, step) ==
  /\ step = "preflight" => call[r].preflight
  /\ step \notin {"preflight", "write"} => ~call[r].preflight
  /\ step \in {"confirm", "forward", "probe"} => call[r].route \notin {"logout", "refresh"}
  /\ step = "end session" => call[r].bearer \in Issued

GoesOn(r) ==
  \E step \in {"preflight", "key", "budget", "jwt", "confirm", "forward", "probe", "write",
               "end session", "validate"} :
    Go(r, step) /\ UNCHANGED answer /\ Fits(r, step)
Stops(r) ==
  \E code \in Statuses : End(r, code) /\ (code = 200 => r \notin Logouts \cup Refreshes)

(* They touch no session and no token.  None of them answers a logout or a  *)
(* refresh with 200, and only a good token gets a logout to its service.    *)
LEMMA PlainStep ==
  ASSUME IInv, NEW r \in Requests, Tracked(r), Plain(r)
  PROVE  /\ pc[r] \notin {"idle", "done"} \cup Services
         /\ UNCHANGED <<now, token, black, session, open, call, got, target, met>>
         /\ GoesOn(r) \/ Stops(r)
  <1>1. RequestsOK /\ Routing /\ Routed(r)
    BY DEF IInv, Types, Routing
  <1>2. /\ {400, 401, 403, 404, 409, 422, 429, 500, 503, 504} \subseteq Statuses
        /\ 200 \in Statuses
    BY DEF Statuses
  <1> DEFINE Goal == /\ pc[r] \notin {"idle", "done"} \cup Services
                     /\ UNCHANGED <<now, token, black, session, open, call, got, target, met>>
                     /\ GoesOn(r) \/ Stops(r)
  <1>3. ASSUME NEW code \in {400, 401, 403, 404, 409, 422, 429, 500, 503, 504}, End(r, code)
        PROVE  Stops(r)
    <2>1. code \in Statuses /\ code # 200
      BY DEF Statuses
    <2> QED
      BY <1>3, <2>1 DEF Stops
  <1>e. ASSUME End(r, 200), r \notin Logouts \cup Refreshes PROVE Stops(r)
    BY <1>2, <1>e DEF Stops
  <1>g. \A step \in {"preflight", "key", "budget", "jwt", "confirm", "forward", "probe", "write",
                   "end session", "validate"} :
          Go(r, step) /\ UNCHANGED answer /\ Fits(r, step) => GoesOn(r)
    BY DEF GoesOn
  <1> USE DEF At, tokenVars, sessionVars, Services
  <1>4. ASSUME Count(r) PROVE Goal
    <2>1. /\ pc[r] = "count" /\ UNCHANGED <<now, token, black, session, open, call, got, target, met>>
      BY <1>4 DEF Count
    <2>2. End(r, 429) \/ (Go(r, AfterLimit(call[r])) /\ UNCHANGED answer)
      BY <1>4, Budgets DEF Count
    <2>3. AfterLimit(call[r]) \in {"preflight", "key", "jwt"} /\ Fits(r, AfterLimit(call[r]))
      BY DEF AfterLimit, Fits
    <2>4. End(r, 429) => Stops(r)
      BY <1>3
    <2>5. Go(r, AfterLimit(call[r])) /\ UNCHANGED answer /\ Fits(r, AfterLimit(call[r])) => GoesOn(r)
      BY <1>g, <2>1, <2>3
    <2> QED
      BY <2>1, <2>2, <2>3, <2>4, <2>5
  <1>5. ASSUME CountKey(r) PROVE Goal
    <2>1. /\ pc[r] = "budget" /\ UNCHANGED <<now, token, black, session, open, call, got, target, met>>
      BY <1>5 DEF CountKey
    <2>2. End(r, 429) \/ (Go(r, "jwt") /\ UNCHANGED answer)
      BY <1>5, Budgets DEF CountKey
    <2>3. Fits(r, "jwt")
      BY <2>1 DEF Fits, Tracked
    <2>4. End(r, 429) => Stops(r)
      BY <1>3
    <2>5. Go(r, "jwt") /\ UNCHANGED answer /\ Fits(r, "jwt") => GoesOn(r)
      BY <1>g, <2>1
    <2> QED
      BY <2>1, <2>2, <2>3, <2>4, <2>5
  <1>6. ASSUME Preflight(r) PROVE Goal
    <2>1. /\ pc[r] = "preflight" /\ UNCHANGED <<now, token, black, session, open, call, got, target, met>>
      BY <1>6 DEF Preflight
    <2>2. End(r, 200) \/ End(r, 400)
      BY <1>6 DEF Preflight
    <2>3. r \notin Logouts \cup Refreshes
      BY <2>1 DEF Tracked, Logouts, Refreshes, Calling
    <2>4. Stops(r)
      BY <1>3, <1>e, <2>2, <2>3
    <2> QED
      BY <2>1, <2>4
  <1>7. ASSUME VerifyKey(r) PROVE Goal
    <2>1. /\ pc[r] = "key" /\ UNCHANGED <<now, token, black, session, open, call, got, target, met>>
      BY <1>7 DEF VerifyKey
    <2>2. End(r, 401) \/ End(r, 503) \/ (Go(r, "budget") /\ UNCHANGED answer)
      BY <1>7 DEF VerifyKey
    <2>3. Fits(r, "budget")
      BY <2>1 DEF Fits, Tracked
    <2>4. (End(r, 401) \/ End(r, 503)) => Stops(r)
      BY <1>3
    <2>5. Go(r, "budget") /\ UNCHANGED answer /\ Fits(r, "budget") => GoesOn(r)
      BY <1>g, <2>1
    <2> QED
      BY <2>1, <2>2, <2>3, <2>4, <2>5
  <1>8. ASSUME VerifyToken(r) PROVE Goal
    <2>1. /\ pc[r] = "jwt" /\ UNCHANGED <<now, token, black, session, open, call, got, target, met>>
          /\ call[r] \in Calls
      BY <1>1, <1>8, CallAt DEF VerifyToken
    <2>2. (\E code \in {401, 403, 422, 503} : End(r, code)) \/
            /\ Go(r, NextStep(call[r])) /\ UNCHANGED answer
            /\ ByKeyAlone(r) \/ Public(r) \/ Authentic(call[r].bearer)
      BY <1>1, <1>8, <2>1, Admits, Dispatches
    <2>3. ASSUME ByKeyAlone(r) \/ Public(r) \/ Authentic(call[r].bearer)
          PROVE  Fits(r, NextStep(call[r]))
      <3>1. NextStep(call[r]) = "end session" => call[r].route = "logout"
        BY DEF NextStep
      <3>2. call[r].route = "logout" => ~ByKeyAlone(r) /\ ~Public(r)
        BY RouteKinds DEF ByKeyAlone, Public
      <3>3. Authentic(call[r].bearer) => call[r].bearer \in Issued
        BY DEF Authentic
      <3>4. NextStep(call[r]) \in {"confirm", "forward", "probe"} =>
              call[r].route \notin {"logout", "refresh"}
        BY DEF NextStep, Probes, Confirmed, DestructiveRoutes, OwnRoutes
      <3>5. NextStep(call[r]) \notin {"preflight", "write"} /\ ~call[r].preflight
        BY <2>1, NextSteps DEF Tracked
      <3> HIDE DEF Issued
      <3> QED
        BY <2>3, <3>1, <3>2, <3>3, <3>4, <3>5 DEF Fits
    <2>4. (\E code \in {401, 403, 422, 503} : End(r, code)) => Stops(r)
      BY <1>3
    <2>5. Go(r, NextStep(call[r])) /\ UNCHANGED answer /\ Fits(r, NextStep(call[r])) => GoesOn(r)
      BY <1>g, <2>1, NextSteps
    <2> QED
      BY <2>1, <2>2, <2>3, <2>4, <2>5
  <1>9. ASSUME CheckOrigins(r) PROVE Goal
    <2>1. /\ pc[r] = "check" /\ UNCHANGED <<now, token, black, session, open, call, got, target, met>>
      BY <1>9 DEF CheckOrigins
    <2>2. End(r, 404) \/ End(r, 409) \/ (Go(r, "write") /\ UNCHANGED answer)
      BY <1>9 DEF CheckOrigins
    <2>3. Fits(r, "write")
      BY DEF Fits
    <2>4. (End(r, 404) \/ End(r, 409)) => Stops(r)
      BY <1>3
    <2>5. Go(r, "write") /\ UNCHANGED answer /\ Fits(r, "write") => GoesOn(r)
      BY <1>g, <2>1
    <2> QED
      BY <2>1, <2>2, <2>3, <2>4, <2>5
  <1>10. ASSUME WriteApplication(r) PROVE Goal
    <2>1. /\ pc[r] = "write" /\ UNCHANGED <<now, token, black, session, open, call, got, target, met>>
      BY <1>10 DEF WriteApplication
    <2>2. End(r, 200) \/ End(r, 500)
      BY <1>10 DEF WriteApplication
    <2>3. r \notin Logouts \cup Refreshes
      BY <1>1, <2>1 DEF Routed, Admin, Logouts, Refreshes, Calling
    <2>4. Stops(r)
      BY <1>3, <1>e, <2>2, <2>3
    <2> QED
      BY <2>1, <2>4
  <1>11. ASSUME ConfirmPassword(r) PROVE Goal
    <2>1. /\ pc[r] = "confirm" /\ UNCHANGED <<now, token, black, session, open, call, got, target, met>>
      BY <1>11 DEF ConfirmPassword
    <2>2. End(r, 403) \/ (Go(r, "forward") /\ UNCHANGED answer)
      BY <1>11 DEF ConfirmPassword
    <2>3. Fits(r, "forward")
      BY <2>1 DEF Fits, Tracked
    <2>4. End(r, 403) => Stops(r)
      BY <1>3
    <2>5. Go(r, "forward") /\ UNCHANGED answer /\ Fits(r, "forward") => GoesOn(r)
      BY <1>g, <2>1
    <2> QED
      BY <2>1, <2>2, <2>3, <2>4, <2>5
  <1>12. ASSUME Forward(r) \/ Probe(r) PROVE Goal
    <2>1. /\ pc[r] \in {"forward", "probe"}
          /\ UNCHANGED <<now, token, black, session, open, call, got, target, met>>
      BY <1>12 DEF Forward, Probe
    <2>2. \E code \in {200, 403, 503, 504} : End(r, code)
      BY <1>12 DEF Forward, Probe
    <2>3. r \notin Logouts \cup Refreshes
      BY <2>1 DEF Tracked, Logouts, Refreshes, Calling
    <2>4. Stops(r)
      BY <1>3, <1>e, <2>2, <2>3
    <2> QED
      BY <2>1, <2>4
  <1> HIDE DEF Goal
  <1>13. Goal
    BY <1>4, <1>5, <1>6, <1>7, <1>8, <1>9, <1>10, <1>11, <1>12 DEF Plain
  <1> QED
    BY <1>13 DEF Goal

(* No step sends a response for another request. *)
Still(q) == Same(q) /\ answer'[q] = answer[q]

LEMMA Silent ==
  ASSUME RequestsOK, Routing, DOMAIN served = Requests, NEW r \in Requests, RequestStep(r),
         NEW q \in Requests, q # r
  PROVE  Still(q)
  <1>1. Same(q)
    BY Others
  <1> DEFINE Goal == answer'[q] = answer[q]
  <1>e. ASSUME NEW code, Respond(r, code) PROVE Goal
    BY <1>e DEF Respond, RequestsOK
  <1>2. ASSUME NEW c \in plan.calls[r], Receive(r, c) PROVE Goal
    BY <1>2 DEF Receive
  <1>3. ASSUME Count(r) \/ CountKey(r) PROVE Goal
    BY <1>3, <1>e, Budgets DEF Count, CountKey, End
  <1>4. ASSUME VerifyToken(r) PROVE Goal
    <2>1. \/ End(r, 403) \/ End(r, 422) \/ End(r, 503) \/ End(r, 401)
          \/ Go(r, NextStep(call[r])) /\ UNCHANGED answer
      BY <1>4, CallAt, Admits, Dispatches DEF VerifyToken, At
    <2> QED
      BY <1>e, <2>1 DEF End
  <1>5. ASSUME Preflight(r) \/ VerifyKey(r) \/ CheckOrigins(r) \/ WriteApplication(r) PROVE Goal
    BY <1>5, <1>e DEF Preflight, VerifyKey, CheckOrigins, WriteApplication, End
  <1>6. ASSUME ConfirmPassword(r) \/ Forward(r) \/ Probe(r) PROVE Goal
    BY <1>6, <1>e DEF ConfirmPassword, Forward, Probe, End
  <1>7. ASSUME EndSession(r) \/ EndToken(r) \/ Validate(r) PROVE Goal
    BY <1>7, <1>e DEF EndSession, EndToken, Validate, End
  <1>8. ASSUME Generate(r) \/ CheckRotation(r) \/ Swap(r) \/ GiveUp(r) PROVE Goal
    BY <1>8, <1>e DEF Generate, CheckRotation, Swap, GiveUp, End
  <1> HIDE DEF Goal
  <1>9. Goal
    BY <1>2, <1>3, <1>4, <1>5, <1>6, <1>7, <1>8 DEF RequestStep
  <1> QED
    BY <1>1, <1>9 DEF Goal, Still

(* A step is one of the program around the requests, or one of a request.   *)
Around == \A q \in Requests : Still(q)
ServiceStep(r) ==
  \/ EndSession(r) \/ EndToken(r) \/ Validate(r) \/ Generate(r) \/ CheckRotation(r)
  \/ Swap(r) \/ GiveUp(r)

LEMMA Turns ==
  ASSUME IInv, [Next]_vars
  PROVE  \/ Around /\ UNCHANGED <<token, black, met>>
         \/ \E r \in Requests :
              /\ \A q \in Requests \ {r} : Still(q)
              /\ (\E c \in plan.calls[r] : Receive(r, c)) \/ Plain(r) \/ ServiceStep(r)
  <1>1. RequestsOK /\ Routing /\ DOMAIN served = Requests
    BY DEF IInv, Types
  <1>2. ASSUME Environment \/ UNCHANGED vars
        PROVE  Around /\ UNCHANGED <<token, black, met>>
    <2>1. UNCHANGED <<requestVars, token, black>>
      <3>1. ASSUME NEW s \in Sessions, CommitSession(s) PROVE UNCHANGED <<requestVars, token, black>>
        BY <3>1 DEF CommitSession, tokenVars
      <3>2. ASSUME NEW u \in Users, ResetPassword(u) PROVE UNCHANGED <<requestVars, token, black>>
        BY <3>2 DEF ResetPassword, tokenVars
      <3>3. ASSUME NEW a \in Apps, DropEntry(a) PROVE UNCHANGED <<requestVars, token, black>>
        BY <3>3 DEF DropEntry, tokenVars
      <3>4. ASSUME PassTime PROVE UNCHANGED <<requestVars, token, black>>
        BY <3>4 DEF PassTime, Tick
      <3>5. ASSUME UNCHANGED vars PROVE UNCHANGED <<requestVars, token, black>>
        BY <3>5 DEF vars, tokenVars
      <3> QED
        BY <1>2, <3>1, <3>2, <3>3, <3>4, <3>5 DEF Environment
    <2> QED
      BY <2>1 DEF requestVars, Around, Still, Same
  <1>3. ASSUME NEW r \in Requests, RequestStep(r)
        PROVE  /\ \A q \in Requests \ {r} : Still(q)
               /\ (\E c \in plan.calls[r] : Receive(r, c)) \/ Plain(r) \/ ServiceStep(r)
    <2>1. \A q \in Requests \ {r} : Still(q)
      BY <1>1, <1>3, Silent
    <2>2. (\E c \in plan.calls[r] : Receive(r, c)) \/ Plain(r) \/ ServiceStep(r)
      BY <1>3 DEF RequestStep, Plain, ServiceStep
    <2> QED
      BY <2>1, <2>2
  <1> QED
    BY <1>2, <1>3 DEF Next

------------------------------------------------------------------------------
(* Signing out: the calls and their answers *)

(* What the steps of a call at a service leave. *)
LEMMA Served ==
  ASSUME IInv, NEW r \in Requests, Tracked(r), pc[r] \in Services
  PROVE  /\ call[r] # None /\ call[r].route \in Routes
         /\ ~call[r].preflight
         /\ {call[r].bearer, call[r].refresh} \subseteq Issued \cup {None}
         /\ pc[r] \in {"end session", "end token"} => r \in Logouts /\ call[r].bearer \in Issued
         /\ pc[r] \notin {"end session", "end token"} => r \in Refreshes
         /\ pc[r] \in {"generate", "rotate", "swap"} => call[r].refresh \in Issued
  <1>1. RequestsOK /\ Routing /\ Routed(r)
    BY DEF IInv, Types, Routing
  <1>2. call[r] # None /\ call[r].route \in Routes /\ ~call[r].preflight
    BY <1>1 DEF Routed, Tracked, Services
  <1> HIDE DEF Issued
  <1>3. {call[r].bearer, call[r].refresh} \subseteq Issued \cup {None}
    BY <1>2 DEF Tracked
  <1> QED
    BY <1>1, <1>2, <1>3 DEF Routed, Tracked, Services, Logouts, Refreshes, Calling

(* A pair that is generated was nobody's. *)
LEMMA Generated ==
  ASSUME Numbered, TokensOK, NEW x \in Issued, GeneratePair(token[x].user)
  PROVE  NewPair \in Pairs /\ NewPair \in Issued' /\ NewPair \notin Issued
  <1> DEFINE new == [user |-> token[x].user, exp |-> Second + Life]
  <1>1. new # None
    <2>1. token[x].user \in Users
      BY DEF Issued, TokensOK, Token
    <2> QED
      BY <2>1, Numbers, ClockAssumption, AbsentAssumption
  <1>2. NewPair \in Pairs /\ token' = [token EXCEPT ![NewPair] = new]
    BY DEF GeneratePair
  <1>3. NewPair \notin Issued
    BY NewPairs
  <1> HIDE DEF new
  <1> QED
    BY <1>1, <1>2, <1>3 DEF Issued, TokensOK

(* Who takes no step is tracked as before, ... *)
LEMMA TrackedStays ==
  ASSUME IInv, [Next]_vars, NEW q \in Requests, Tracked(q), Still(q)
  PROVE  Tracked(q)'
  <1>1. /\ lost' = 0 => lost = 0
        /\ Refreshes \subseteq Refreshes' /\ Issued \subseteq Issued'
    BY Lasting
  <1> HIDE DEF Issued, Refreshes
  <1> QED
    BY <1>1 DEF Tracked, Still, Same

(* ... and so is whoever comes in, ... *)
LEMMA TrackedReceived ==
  ASSUME IInv, [Next]_vars, NEW r \in Requests, Tracked(r), NEW c \in plan.calls[r], Receive(r, c)
  PROVE  Tracked(r)'
  <1>1. RequestsOK /\ c \in Calls /\ pc[r] = "idle"
    BY PlanFacts DEF IInv, Types, Receive, At
  <1>2. call'[r] = c /\ pc'[r] \in {"check", "count"} /\ UNCHANGED <<got, answer, lost>>
    BY <1>1 DEF Receive, Go, RequestsOK
  <1>3. c.route \in Routes => {c.bearer, c.refresh} \subseteq Issued \cup {None}
    <2> SUFFICES ASSUME c.route \in Routes PROVE {c.bearer, c.refresh} \subseteq Issued \cup {None}
      OBVIOUS
    <2>1. {"bearer", "refresh"} \subseteq DOMAIN c
      BY <1>1, CallFacts DEF ClientCalls
    <2> HIDE DEF Issued
    <2> QED
      BY <2>1 DEF Receive
  <1>4. Issued \subseteq Issued'
    BY Lasting
  <1>5. got[r] = None /\ (lost = 0 => answer[r] = None)
    BY <1>1 DEF Tracked
  <1> HIDE DEF Issued
  <1>6. c.route \in Routes => {c.bearer, c.refresh} \subseteq Issued' \cup {None}
    BY <1>3, <1>4
  <1> QED
    BY <1>2, <1>5, <1>6 DEF Tracked

(* ... on the way to a service, ... *)
LEMMA TrackedPlain ==
  ASSUME IInv, [Next]_vars, NEW r \in Requests, Tracked(r), Plain(r)
  PROVE  Tracked(r)'
  <1>1. RequestsOK
    BY DEF IInv, Types
  <1>2. /\ pc[r] \notin {"idle", "done"} \cup Services
        /\ UNCHANGED <<call, got>>
        /\ GoesOn(r) \/ Stops(r)
    BY PlainStep
  <1>3. (lost' = 0 => lost = 0) /\ Issued \subseteq Issued'
    BY Lasting
  <1>4. got[r] = None /\ (lost = 0 => answer[r] = None)
    BY <1>2 DEF Tracked, Services
  <1> HIDE DEF Issued
  <1>5. CASE GoesOn(r)
    <2>1. PICK step \in {"preflight", "key", "budget", "jwt", "confirm", "forward", "probe", "write",
                         "end session", "validate"} :
            Go(r, step) /\ UNCHANGED answer /\ Fits(r, step)
      BY <1>5 DEF GoesOn
    <2>2. pc'[r] = step
      BY <1>1, <2>1 DEF Go, RequestsOK
    <2> QED
      BY <1>2, <1>3, <1>4, <2>1, <2>2 DEF Tracked, Fits
  <1>6. CASE Stops(r)
    <2>1. pc'[r] = "done"
      BY <1>1, <1>6 DEF Stops, End, Go, RequestsOK
    <2> QED
      BY <1>2, <1>3, <1>4, <2>1 DEF Tracked
  <1> QED
    BY <1>2, <1>5, <1>6

(* ... and at one. *)
LEMMA TrackedServed ==
  ASSUME IInv, [Next]_vars, NEW r \in Requests, Tracked(r), ServiceStep(r)
  PROVE  Tracked(r)' /\ (\A q \in Requests : got'[q] = got[q] \/ (q = r /\ got'[r] \notin Issued))
  <1>1. RequestsOK /\ Numbered /\ TokensOK /\ Routing
    BY DEF IInv, Types
  <1>2. /\ lost' = 0 => lost = 0
        /\ Refreshes \subseteq Refreshes' /\ Issued \subseteq Issued'
    BY Lasting
  <1> USE DEF At, Go, End, RequestsOK, Services
  <1>3. pc[r] \in Services
    BY DEF ServiceStep, EndSession, EndToken, Validate, Generate, CheckRotation, Swap, GiveUp
  <1>4. /\ call[r].route \in Routes /\ ~call[r].preflight
        /\ {call[r].bearer, call[r].refresh} \subseteq Issued \cup {None}
        /\ pc[r] \in {"end session", "end token"} => call[r].bearer \in Issued
        /\ pc[r] \notin {"end session", "end token"} => r \in Refreshes
        /\ pc[r] \in {"generate", "rotate", "swap"} => call[r].refresh \in Issued
        /\ call[r].route \in {"logout", "refresh"}
    BY <1>3, Served DEF Logouts, Refreshes, Calling
  <1>5. (got[r] # None => got[r] \in Issued) /\ (lost = 0 => answer[r] = None)
    BY <1>3 DEF Tracked
  <1> DEFINE Goal == /\ Tracked(r)'
                     /\ \A q \in Requests : got'[q] = got[q] \/ (q = r /\ got'[r] \notin Issued)
  <1> HIDE DEF Issued, Refreshes
  <1>a. ASSUME UNCHANGED <<call, got>>,
               pc'[r] = "done" \/ (pc'[r] = "end token" /\ pc[r] = "end session" /\ UNCHANGED answer)
        PROVE  Goal
    BY <1>1, <1>2, <1>3, <1>4, <1>5, <1>a DEF Tracked
  <1>6. ASSUME EndSession(r) \/ EndToken(r) PROVE Goal
    BY <1>1, <1>6, <1>a DEF EndSession, EndToken
  <1>7. ASSUME Validate(r) PROVE Goal
    <2>1. UNCHANGED <<call, got>> /\ pc[r] = "validate"
      BY <1>7 DEF Validate
    <2>2. pc'[r] = "done" \/ (pc'[r] = "generate" /\ UNCHANGED answer)
      BY <1>1, <1>7 DEF Validate
    <2> QED
      BY <1>2, <1>4, <1>5, <2>1, <2>2 DEF Tracked
  <1>8. ASSUME Generate(r) PROVE Goal
    <2>1. UNCHANGED call /\ pc[r] = "generate"
      BY <1>8 DEF Generate
    <2>2. CASE UNCHANGED got /\ pc'[r] = "done"
      BY <2>1, <2>2, <1>a
    <2>3. CASE /\ GeneratePair(token[call[r].refresh].user) /\ got' = [got EXCEPT ![r] = NewPair]
               /\ pc'[r] = "rotate" /\ UNCHANGED answer
      <3>1. NewPair \in Issued' /\ NewPair \notin Issued
        BY <1>1, <1>4, <2>1, <2>3, Generated
      <3>2. got'[r] = NewPair /\ \A q \in Requests \ {r} : got'[q] = got[q]
        BY <1>1, <2>3
      <3> QED
        BY <1>2, <1>4, <1>5, <2>1, <2>3, <3>1, <3>2 DEF Tracked
    <2> QED
      BY <1>1, <1>8, <2>2, <2>3 DEF Generate
  <1>9. ASSUME CheckRotation(r) PROVE Goal
    <2>1. UNCHANGED <<call, got>> /\ pc[r] = "rotate"
      BY <1>9 DEF CheckRotation
    <2>2. pc'[r] = "done" \/ (pc'[r] = "swap" /\ UNCHANGED answer)
      BY <1>1, <1>9 DEF CheckRotation
    <2> QED
      BY <1>2, <1>4, <1>5, <2>1, <2>2 DEF Tracked
  <1>10. ASSUME Swap(r) PROVE Goal
    BY <1>1, <1>10, <1>a DEF Swap
  <1>11. ASSUME GiveUp(r) PROVE Goal
    <2>1. UNCHANGED <<call, got>> /\ pc'[r] \in {pc[r], "done"}
      BY <1>1, <1>11 DEF GiveUp
    <2>2. lost' = lost + 1 /\ lost \in 0..plan.failures
      BY <1>1, <1>11 DEF GiveUp, Lose
    <2>3. lost' # 0
      BY <1>1, <2>2, PlanFacts
    <2> QED
      BY <1>2, <1>3, <1>4, <1>5, <2>1, <2>3 DEF Tracked
  <1> HIDE DEF Goal
  <1>12. Goal
    BY <1>6, <1>7, <1>8, <1>9, <1>10, <1>11 DEF ServiceStep
  <1> QED
    BY <1>12 DEF Goal

LEMMA TrackingStep ==
  ASSUME IInv, Tracking, [Next]_vars
  PROVE  Tracking'
  <1>1. RequestsOK /\ \A q \in Requests : Tracked(q)
    BY DEF IInv, Types, Tracking
  <1>2. CASE Around
    <2>1. \A q \in Requests : Tracked(q)' /\ got'[q] = got[q]
      BY <1>1, <1>2, TrackedStays DEF Around, Still, Same
    <2> QED
      BY <2>1 DEF Tracking
  <1>3. ASSUME NEW r \in Requests, \A q \in Requests \ {r} : Still(q),
               (\E c \in plan.calls[r] : Receive(r, c)) \/ Plain(r) \/ ServiceStep(r)
        PROVE  Tracking'
    <2>1. \A q \in Requests \ {r} : Tracked(q)' /\ got'[q] = got[q]
      BY <1>1, <1>3, TrackedStays DEF Still, Same
    <2>2. Tracked(r)' /\ (got'[r] = got[r] \/ got'[r] \notin Issued)
      <3>1. (\E c \in plan.calls[r] : Receive(r, c)) => Tracked(r)' /\ got' = got
        BY <1>1, TrackedReceived DEF Receive
      <3>2. Plain(r) => Tracked(r)' /\ got' = got
        BY <1>1, TrackedPlain, PlainStep
      <3>3. ServiceStep(r) => Tracked(r)' /\ (got'[r] = got[r] \/ got'[r] \notin Issued)
        BY <1>1, TrackedServed
      <3> QED
        BY <1>3, <3>1, <3>2, <3>3
    <2>3. \A q \in Requests : got[q] # None => got[q] \in Issued
      BY <1>1 DEF Tracked
    <2> HIDE DEF Issued
    <2>4. \A q \in Requests \ {r} : got'[q] # None => got'[q] # got'[r]
      BY <2>1, <2>2, <2>3 DEF Tracking
    <2> QED
      BY <2>1, <2>2, <2>4 DEF Tracking
  <1> QED
    BY <1>2, <1>3, Turns

------------------------------------------------------------------------------
(* Signing out: the rows of sessions *)

(* How a step changes the row of a session, or the one that is to be it.    *)
Kept(s) == session'[s] = session[s] /\ open'[s] = open[s]
Closed(s) ==
  /\ open[s] # None /\ open'[s] = None
  /\ session'[s] = open[s].row \/ (session'[s] = session[s] /\ lost' # 0)
Written(s, r) ==
  /\ open[s] = None /\ session'[s] = session[s]
  /\ open'[s] # None /\ open'[s].by = r /\ open'[s].row.user = session[s].user
Revoking(s, r) ==
  /\ pc[r] = "end session" /\ pc'[r] = "end token"
  /\ s \in OfHash(call[r].refresh) /\ Written(s, r)
  /\ open'[s].row.revoked /\ open'[s].row.hash = session[s].hash
Rotating(s, r) ==
  /\ pc[r] = "swap" /\ pc'[r] = "done" /\ UNCHANGED <<got, target>>
  /\ target[r] = s /\ Written(s, r)
  /\ open'[s].row.revoked = session[s].revoked /\ open'[s].row.hash = got[r]

(* A row that is to be is no None. *)
LEMMA OpenRows ==
  ASSUME NEW r \in Requests, NEW row \in SessionRow, NEW x, x = [by |-> r, row |-> row]
  PROVE  x # None /\ x.by = r /\ x.row = row
  BY NoneAssumption DEF OpenRow

LEMMA Ending ==
  ASSUME IInv, NEW r \in Requests, EndSession(r)
  PROVE  \/ lost' # 0 /\ \A s \in Sessions : Kept(s)
         \/ \A s \in Sessions :
              IF s \in OfHash(call[r].refresh) THEN Revoking(s, r) ELSE Kept(s)
  <1>1. RequestsOK /\ SessionsOK
    BY DEF IInv, Types
  <1>2. session' = session /\ pc[r] = "end session" /\ pc'[r] = "end token"
    BY <1>1 DEF EndSession, At, Go, RequestsOK
  <1> DEFINE mine == OfHash(call[r].refresh)
  <1>3. \/ Lose /\ UNCHANGED open
        \/ /\ \A x \in mine : open[x] = None
           /\ open' = [x \in Sessions |->
                        IF x \in mine THEN [by |-> r, row |-> [session[x] EXCEPT !.revoked = TRUE]]
                        ELSE open[x]]
    BY DEF EndSession
  <1>4. Lose => lost' # 0
    BY <1>1, PlanFacts DEF Lose, RequestsOK
  <1>5. CASE Lose /\ UNCHANGED open
    BY <1>2, <1>4, <1>5 DEF Kept
  <1>6. ASSUME ~(Lose /\ UNCHANGED open), NEW s \in Sessions
        PROVE  IF s \in mine THEN Revoking(s, r) ELSE Kept(s)
    <2> DEFINE row == [session[s] EXCEPT !.revoked = TRUE]
    <2>1. /\ row \in SessionRow /\ row.revoked
          /\ row.hash = session[s].hash /\ row.user = session[s].user
      BY <1>1 DEF SessionsOK, SessionRow
    <2> HIDE DEF mine
    <2>2. s \notin mine => Kept(s)
      BY <1>2, <1>3, <1>6 DEF Kept
    <2>3. ASSUME s \in mine PROVE Revoking(s, r)
      <3> HIDE DEF row
      <3>1. open[s] = None /\ open'[s] = [by |-> r, row |-> row]
        BY <1>3, <1>6, <2>3 DEF row
      <3>2. open'[s] # None /\ open'[s].by = r /\ open'[s].row = row
        BY <2>1, <3>1, OpenRows
      <3> QED
        BY <1>2, <2>1, <2>3, <3>1, <3>2 DEF Revoking, Written, mine
    <2> QED
      BY <2>2, <2>3
  <1> QED
    BY <1>5, <1>6

LEMMA Swapping ==
  ASSUME IInv, NEW r \in Requests, Swap(r)
  PROVE  /\ target[r] \in Sessions /\ Rotating(target[r], r)
         /\ \A s \in Sessions : s # target[r] => Kept(s)
  <1>1. RequestsOK /\ SessionsOK
    BY DEF IInv, Types
  <1> DEFINE row == [session[target[r]] EXCEPT !.hash = got[r]]
  <1>2. /\ UNCHANGED <<session, got, target>> /\ pc[r] = "swap" /\ pc'[r] = "done"
        /\ Put(r, target[r], row)
    BY <1>1 DEF Swap, At, Go, End, RequestsOK
  <1>3. target[r] \in Sessions /\ got[r] \in Pairs
    BY <1>1, <1>2 DEF IInv, Routing, Routed, RequestsOK
  <1>4. /\ row \in SessionRow /\ row.hash = got[r]
        /\ row.revoked = session[target[r]].revoked /\ row.user = session[target[r]].user
    BY <1>1, <1>3 DEF SessionsOK, SessionRow
  <1> HIDE DEF row
  <1>5. /\ open[target[r]] = None
        /\ open' = [open EXCEPT ![target[r]] = [by |-> r, row |-> row]]
    BY <1>2 DEF Put
  <1>6. open'[target[r]] = [by |-> r, row |-> row]
    BY <1>1, <1>3, <1>5 DEF SessionsOK
  <1>7. open'[target[r]] # None /\ open'[target[r]].by = r /\ open'[target[r]].row = row
    BY <1>4, <1>6, OpenRows
  <1>8. \A s \in Sessions : s # target[r] => Kept(s)
    BY <1>1, <1>2, <1>5 DEF SessionsOK, Kept
  <1> QED
    BY <1>2, <1>3, <1>4, <1>5, <1>7, <1>8 DEF Rotating, Written

LEMMA RowStep ==
  ASSUME IInv, [Next]_vars, NEW s \in Sessions
  PROVE  Kept(s) \/ Closed(s) \/ \E r \in Requests : Revoking(s, r) \/ Rotating(s, r)
  <1>1. RequestsOK /\ SessionsOK /\ plan.failures \in Nat
    BY PlanFacts DEF IInv, Types
  <1>2. CASE UNCHANGED sessionVars
    BY <1>2 DEF sessionVars, Kept
  <1>3. ASSUME NEW r \in Requests, EndSession(r) PROVE Kept(s) \/ Revoking(s, r)
    BY <1>3, Ending
  <1>4. ASSUME NEW r \in Requests, Swap(r) PROVE Kept(s) \/ Rotating(s, r)
    BY <1>4, Swapping
  <1>5. ASSUME NEW t \in Sessions, CommitSession(t) PROVE Kept(s) \/ Closed(s)
    <2>1. /\ open[t] # None /\ open' = [open EXCEPT ![t] = None]
          /\ session' = [session EXCEPT ![t] = open[t].row] \/ (Lose /\ UNCHANGED session)
      BY <1>5 DEF CommitSession
    <2>2. Lose => lost' # 0
      BY <1>1 DEF Lose, RequestsOK
    <2> QED
      BY <1>1, <2>1, <2>2 DEF SessionsOK, Kept, Closed
  <1> QED
    BY <1>2, <1>3, <1>4, <1>5, SessionSteps

(* A request that is done takes no more steps, ... *)
LEMMA DoneStays ==
  ASSUME IInv, Tracking, [Next]_vars, NEW q \in Requests, pc[q] = "done"
  PROVE  Still(q)
  <1>1. \A c : ~Receive(q, c)
    BY DEF Receive, At
  <1>2. ~Plain(q)
    BY PlainStep DEF Tracking
  <1>3. ~ServiceStep(q)
    BY DEF ServiceStep, EndSession, EndToken, Validate, Generate, CheckRotation, Swap, GiveUp, At
  <1> QED
    BY <1>1, <1>2, <1>3, Turns DEF Around

(* ... and writes nothing more. *)
LEMMA UnderwayEnds ==
  ASSUME IInv, Tracking, [Next]_vars, NEW q \in Requests, call[q] # None, ~Underway(q)
  PROVE  Still(q) /\ ~Underway(q)'
  <1>1. pc[q] = "done" /\ ~Writes(q)
    BY DEF Underway, IInv, Routing, Routed
  <1>2. Still(q)
    BY <1>1, DoneStays
  <1>3. ~Writes(q)'
    <2> SUFFICES ASSUME NEW s \in Sessions, open'[s] # None, open'[s].by = q PROVE FALSE
      BY DEF Writes
    <2>1. open[s] = None \/ open[s].by # q
      BY <1>1 DEF Writes
    <2>2. ~Kept(s) /\ ~Closed(s)
      BY <2>1 DEF Kept, Closed
    <2>3. ASSUME NEW r \in Requests, Revoking(s, r) PROVE FALSE
      <3>1. open'[s].by = r /\ pc[r] = "end session"
        BY <2>3 DEF Revoking, Written
      <3> QED
        BY <1>1, <3>1
    <2>4. ASSUME NEW r \in Requests, Rotating(s, r) PROVE FALSE
      <3>1. open'[s].by = r /\ pc[r] = "swap"
        BY <2>4 DEF Rotating, Written
      <3> QED
        BY <1>1, <3>1
    <2> QED
      BY <2>2, <2>3, <2>4, RowStep
  <1> QED
    BY <1>1, <1>2, <1>3 DEF Underway, Still, Same

(* After its first half a logout is at the second, or done. *)
LEMMA EndTokenStays ==
  ASSUME IInv, Tracking, [Next]_vars, NEW q \in Requests, pc[q] = "end token"
  PROVE  pc'[q] \in {"end token", "done"}
  <1>1. RequestsOK
    BY DEF IInv, Types
  <1>2. (\A c : ~Receive(q, c)) /\ ~Plain(q)
    BY PlainStep DEF Receive, At, Tracking, Services
  <1>3. ServiceStep(q) => EndToken(q) \/ GiveUp(q)
    BY DEF ServiceStep, EndSession, Validate, Generate, CheckRotation, Swap, At
  <1>4. EndToken(q) \/ GiveUp(q) => pc'[q] \in {"end token", "done"}
    BY <1>1 DEF EndToken, GiveUp, End, Go, RequestsOK
  <1> QED
    BY <1>2, <1>3, <1>4, Turns DEF Around, Still, Same

(* A logout is no refresh. *)
LEMMA Apart == Logouts \cap Refreshes = {}
  BY DEF Logouts, Refreshes, Calling

LEMMA OpenedStep ==
  ASSUME IInv, Tracking, Hashing, [Next]_vars, NEW s \in Sessions
  PROVE  Opened(s)' /\ session'[s].hash \in Issued
  <1>1. SessionsOK /\ RequestsOK
    BY DEF IInv, Types
  <1>2. Opened(s) /\ session[s].hash \in Issued
    BY DEF Hashing
  <1>3. Logouts \subseteq Logouts' /\ Refreshes \subseteq Refreshes'
    BY Lasting
  <1> HIDE DEF Issued, Logouts, Refreshes
  <1>4. CASE Kept(s)
    <2>1. CASE open[s] = None
      BY <1>2, <1>4, <2>1 DEF Kept, Opened
    <2>2. CASE open[s] # None
      <3> DEFINE q == open[s].by
      <3>1. q \in Requests
        BY <1>1, <2>2 DEF SessionsOK, OpenRow
      <3>2. pc[q] = "done" => Still(q)
        BY <3>1, DoneStays
      <3>3. pc[q] = "end token" => pc'[q] \in {"end token", "done"}
        BY <3>1, EndTokenStays
      <3> QED
        BY <1>2, <1>3, <1>4, <2>2, <3>2, <3>3 DEF Kept, Opened, Still, Same
    <2> QED
      BY <2>1, <2>2
  <1>5. CASE Closed(s)
    <2>1. open[s].row.hash \in Issued
      <3>1. open[s].by \in Requests
        BY <1>1, <1>5 DEF SessionsOK, OpenRow, Closed
      <3> QED
        BY <1>2, <1>5, <3>1 DEF Closed, Opened, Tracking, Tracked
    <2> QED
      BY <1>2, <1>5, <2>1 DEF Closed, Opened
  <1>6. ASSUME NEW r \in Requests, Revoking(s, r) PROVE Opened(s)' /\ session'[s].hash \in Issued
    <2>1. r \in Logouts
      BY <1>6, Served DEF Revoking, Tracking, Services
    <2> QED
      BY <1>2, <1>3, <1>6, <2>1 DEF Revoking, Written, Opened
  <1>7. ASSUME NEW r \in Requests, Rotating(s, r) PROVE Opened(s)' /\ session'[s].hash \in Issued
    <2>1. r \in Refreshes /\ got[r] # None
      BY <1>7, Served DEF Rotating, Tracking, Services, IInv, Routing, Routed
    <2> QED
      BY <1>2, <1>3, <1>7, <2>1 DEF Rotating, Written, Opened
  <1> QED
    BY <1>4, <1>5, <1>6, <1>7, RowStep

(* The hash of a row is what it was, or the pair of a refresh that is done. *)
LEMMA HashStep ==
  ASSUME IInv, Tracking, Hashing, [Next]_vars, NEW s \in Sessions
  PROVE  \/ session'[s].hash = session[s].hash
         \/ \E p \in Refreshes :
              /\ open[s] # None /\ open[s].by = p /\ open'[s] = None
              /\ pc[p] = "done" /\ target[p] = s /\ got[p] # None /\ session'[s].hash = got[p]
  <1>1. CASE Closed(s)
    <2>1. Opened(s)
      BY DEF Hashing
    <2> QED
      BY <1>1, <2>1 DEF Closed, Opened
  <1>2. ~Closed(s) => session'[s] = session[s]
    BY RowStep DEF Kept, Revoking, Rotating, Written
  <1> QED
    BY <1>1, <1>2

(* Whoever swaps the hash of a row is over once the row is written. *)
LEMMA Rotated ==
  ASSUME IInv, Tracking, Hashing, [Next]_vars, NEW s \in Sessions, NEW p \in Refreshes,
         pc[p] = "done", target[p] = s, open'[s] = None
  PROVE  Still(p) /\ ~Underway(p)'
  <1>1. p \in Requests
    BY DEF Refreshes, Calling
  <1>2. Still(p)
    BY <1>1, DoneStays
  <1>3. ~Writes(p)'
    <2> SUFFICES ASSUME NEW t \in Sessions, open'[t] # None, open'[t].by = p PROVE FALSE
      BY DEF Writes
    <2>1. Opened(t)' /\ p \notin Logouts'
      BY <1>1, OpenedStep, Lasting, Apart DEF Refreshes, Calling
    <2>2. target'[p] = t
      BY <2>1 DEF Opened
    <2> QED
      BY <1>2, <2>2 DEF Still, Same
  <1> QED
    BY <1>2, <1>3 DEF Underway, Still, Same

(* Who received a pair has received it by then. *)
LEMMA GotStep ==
  ASSUME IInv, Tracking, [Next]_vars, NEW q \in Requests, got'[q] \in Issued
  PROVE  got[q] = got'[q] /\ got[q] # None /\ q \in Refreshes
  <1>1. \A r \in Requests : ServiceStep(r) => got'[q] = got[q] \/ got'[q] \notin Issued
    BY TrackedServed DEF Tracking
  <1>2. \A r \in Requests : Plain(r) => got' = got
    BY PlainStep DEF Tracking
  <1>3. \A r, c : Receive(r, c) => got' = got
    BY DEF Receive
  <1>4. got[q] = got'[q]
    BY <1>1, <1>2, <1>3, Turns DEF Around, Still, Same
  <1>5. None \notin Issued
    BY AbsentAssumption DEF Issued, Pairs
  <1> QED
    BY <1>4, <1>5 DEF Tracking, Tracked

LEMMA HashingStep ==
  ASSUME IInv, Tracking, Hashing, [Next]_vars
  PROVE  Hashing'
  <1> HIDE DEF Issued, Refreshes, Logouts
  <1>1. Issued \subseteq Issued'
    BY Lasting
  <1>2. \A s \in Sessions : session'[s].hash \in Issued /\ Opened(s)'
    BY OpenedStep
  <1>3. Refreshes \subseteq Requests
    BY DEF Refreshes, Calling
  <1>4. \A r, q \in Requests : got[r] # None /\ got[r] = got[q] => r = q
    BY DEF Tracking
  <1>5. \A s \in Sessions, q \in Requests :
          got[q] = session[s].hash => target[q] = s /\ ~Underway(q)
    BY DEF Hashing
  <1>6. ASSUME NEW s \in Sessions, NEW t \in Sessions, session'[s].hash = session'[t].hash
        PROVE  s = t
    <2>1. ASSUME NEW x \in Sessions, NEW y \in Sessions, session'[x].hash = session'[y].hash,
                 session'[x].hash = session[x].hash
          PROVE  x = y
      <3>1. CASE session'[y].hash = session[y].hash
        BY <2>1, <3>1 DEF Hashing
      <3>2. ASSUME NEW p \in Refreshes, target[p] = y, session'[y].hash = got[p] PROVE x = y
        BY <1>3, <1>5, <2>1, <3>2
      <3> QED
        BY <3>1, <3>2, HashStep
    <2>2. ASSUME NEW p \in Refreshes, NEW q \in Refreshes, target[p] = s, target[q] = t,
                 got[p] # None, session'[s].hash = got[p], session'[t].hash = got[q]
          PROVE  s = t
      BY <1>3, <1>4, <1>6, <2>2
    <2>3. CASE session'[s].hash = session[s].hash \/ session'[t].hash = session[t].hash
      BY <1>6, <2>1, <2>3
    <2> QED
      BY <2>2, <2>3, HashStep
  <1>7. ASSUME NEW s \in Sessions, NEW q \in Requests, got'[q] = session'[s].hash
        PROVE  target'[q] = s /\ ~Underway(q)'
    <2>1. got[q] = got'[q] /\ got[q] # None /\ q \in Refreshes
      BY <1>2, <1>7, GotStep
    <2>2. call[q] # None
      BY <2>1 DEF Refreshes, Calling
    <2>3. CASE session'[s].hash = session[s].hash
      <3>1. target[q] = s /\ ~Underway(q)
        BY <1>5, <1>7, <2>1, <2>3
      <3> QED
        BY <2>2, <3>1, UnderwayEnds DEF Still, Same
    <2>4. ASSUME NEW p \in Refreshes, pc[p] = "done", target[p] = s, open'[s] = None,
                 session'[s].hash = got[p]
          PROVE  target'[q] = s /\ ~Underway(q)'
      <3>1. q = p
        BY <1>3, <1>4, <1>7, <2>1, <2>4
      <3> QED
        BY <2>4, <3>1, Rotated DEF Still, Same
    <2> QED
      BY <2>3, <2>4, HashStep
  <1> QED
    BY <1>1, <1>2, <1>6, <1>7 DEF Hashing

(* What is settled stays so, and its token is left in no more sessions. *)
LEMMA SettledStays ==
  ASSUME IInv, Tracking, Hashing, [Next]_vars, NEW x, Settled(x)
  PROVE  Settled(x)' /\ OfHash(x)' \subseteq OfHash(x)
  <1>1. x \in Issued /\ x \in Issued'
    BY Lasting DEF Settled
  <1>2. ASSUME NEW p \in Requests, got'[p] = x PROVE ~Underway(p)'
    <2>1. got[p] = x /\ p \in Refreshes
      BY <1>1, <1>2, GotStep
    <2>2. ~Underway(p) /\ call[p] # None
      BY <2>1 DEF Settled, Refreshes, Calling
    <2> QED
      BY <2>2, UnderwayEnds
  <1>3. ASSUME NEW s \in Sessions, session'[s].hash = x PROVE session[s].hash = x
    <2>1. ASSUME NEW p \in Refreshes, open[s] # None, open[s].by = p, session'[s].hash = got[p]
          PROVE  FALSE
      <3>1. Underway(p)
        BY <2>1 DEF Underway, Writes
      <3> QED
        BY <1>3, <2>1, <3>1 DEF Settled, Refreshes, Calling
    <2> QED
      BY <1>3, <2>1, HashStep
  <1> QED
    BY <1>1, <1>2, <1>3 DEF Settled, OfHash

(* Whoever was not there and is under way has just come. *)
LEMMA Comers ==
  ASSUME IInv, Tracking, Hashing, [Next]_vars, NEW x \in Requests, call[x] = None, Underway(x)'
  PROVE  (\E c \in plan.calls[x] : Receive(x, c)) /\ \A q \in Requests \ {x} : Still(q)
  <1>1. pc[x] = "idle"
    BY DEF IInv, Routing, Routed
  <1>2. ~Plain(x) /\ ~ServiceStep(x)
    <2>1. ~Plain(x)
      BY <1>1, PlainStep DEF Tracking
    <2>2. ~ServiceStep(x)
      BY <1>1
      DEF ServiceStep, EndSession, EndToken, Validate, Generate, CheckRotation, Swap, GiveUp, At
    <2> QED
      BY <2>1, <2>2
  <1>3. ~Still(x)
    <2> SUFFICES ASSUME Still(x) PROVE FALSE
      OBVIOUS
    <2>1. pc'[x] = "idle" /\ call'[x] = None
      BY <1>1 DEF Still, Same
    <2>2. PICK s \in Sessions : open'[s] # None /\ open'[s].by = x
      BY <2>1 DEF Underway, Writes
    <2>3. Opened(s)'
      BY OpenedStep
    <2> QED
      BY <2>1, <2>2, <2>3 DEF Opened, Logouts, Refreshes, Calling
  <1> QED
    BY <1>2, <1>3, Turns DEF Around

LEMMA MeetingStep ==
  ASSUME IInv, Tracking, Hashing, Meeting, [Next]_vars
  PROVE  Meeting'
  <1> SUFFICES ASSUME NEW x \in Requests, NEW y \in Requests, x # y, Underway(x)', Underway(y)',
                      call'[x].route \in Writers, call'[y].route \in Writers
               PROVE  y \in met'[x]
    BY DEF Meeting
  <1>1. RequestsOK /\ Routing
    BY DEF IInv, Types
  <1>2. \A q \in Requests : call[q] # None => call'[q] = call[q] /\ (Underway(q)' => Underway(q))
    BY Lasting, UnderwayEnds
  <1>3. CASE call[x] # None /\ call[y] # None
    <2>1. y \in met[x]
      BY <1>2, <1>3 DEF Meeting
    <2> QED
      BY <1>3, <2>1, Lasting
  <1>4. ASSUME NEW r \in Requests, NEW q \in Requests, r # q, call[r] = None,
               Underway(r)', Underway(q)', call'[r].route \in Writers, call'[q].route \in Writers
        PROVE  q \in met'[r] /\ r \in met'[q]
    <2>1. PICK c \in plan.calls[r] : Receive(r, c)
      BY <1>4, Comers
    <2>2. Still(q)
      BY <1>4, Comers
    <2>3. call[q] # None
      <3> SUFFICES ASSUME call[q] = None PROVE FALSE
        OBVIOUS
      <3>1. PICK d \in plan.calls[q] : Receive(q, d)
        BY <1>4, Comers
      <3>2. pc[q] = "idle" /\ pc'[q] \in {"check", "count"}
        BY <1>1, <3>1 DEF Receive, At, Go, RequestsOK
      <3> QED
        BY <2>2, <3>2 DEF Still, Same
    <2>4. Underway(q) /\ call[q].route \in Writers /\ c.route \in Writers
      <3>1. call'[r] = c
        BY <1>1, <2>1 DEF Receive, RequestsOK
      <3> QED
        BY <1>2, <1>4, <2>3, <3>1
    <2>5. Meet(r, c)
      BY <2>1 DEF Receive
    <2> DEFINE others == {z \in Requests : Underway(z) /\ call[z].route \in Writers}
    <2>6. met' = [z \in Requests |-> IF z = r THEN others
                                     ELSE IF z \in others THEN met[z] \cup {r} ELSE met[z]]
      BY <2>4, <2>5 DEF Meet
    <2>7. q \in others
      BY <2>4
    <2> HIDE DEF others
    <2> QED
      BY <1>4, <2>6, <2>7
  <1> QED
    BY <1>3, <1>4

------------------------------------------------------------------------------
(* Signing out: the entry of an access token *)

LEMMA Quotients ==
  ASSUME NEW a \in Nat, NEW b \in Nat \ {0}
  PROVE  a \div b \in Nat /\ (a \div b) * b <= a /\ a < (a \div b) * b + b
  <1>1. a \div b \in Nat /\ a % b \in 0..(b - 1) /\ a = b * (a \div b) + (a % b)
    OBVIOUS
  <1>2. b * (a \div b) = (a \div b) * b
    BY <1>1
  <1> QED
    BY <1>1, <1>2

LEMMA Products ==
  ASSUME NEW m \in Nat, NEW n \in Nat, m < n, NEW b \in Nat
  PROVE  m * b + b <= n * b
  <1>1. PICK k \in Nat : n = m + 1 + k
    <2>1. n - m - 1 \in Nat /\ n = m + 1 + (n - m - 1)
      OBVIOUS
    <2> QED
      BY <2>1
  <1>2. (m + 1 + k) * b = m * b + b + k * b /\ k * b \in Nat /\ m * b \in Nat
    OBVIOUS
  <1> QED
    BY <1>1, <1>2

(* What the revocation of a token leaves it: less than a second. *)
LEMMA Revoked ==
  ASSUME TokensOK, NEW p \in Issued, RevokePair(p), UNCHANGED <<now, token>>
  PROVE  Listed(p)'
  <1> DEFINE e == Expiry(p)
  <1>1. /\ p \in Pairs /\ p \in Issued' /\ token[p] # None /\ token[p].exp \in Nat
        /\ now \in Nat /\ now' = now /\ PerSecond \in Nat \ {0} /\ token'[p] = token[p]
    BY ClockAssumption DEF TokensOK, Token, Issued
  <1>2. e \in Nat /\ Expiry(p)' = e
    BY <1>1 DEF Expiry
  <1>3. CASE Decodes(p) /\ Ttl(p) > 0
    <2>1. now < e /\ Ttl(p) = (e - now) \div PerSecond
      BY <1>3 DEF Ttl
    <2>2. e - now \in Nat
      BY <1>1, <1>2, <2>1
    <2> HIDE DEF e
    <2>3. e - now < Ttl(p) * PerSecond + PerSecond /\ Ttl(p) \in Nat
      BY <1>1, <2>1, <2>2, Quotients
    <2>4. black'[p] = now + Ttl(p) * PerSecond
      BY <1>1, <1>3 DEF RevokePair, TokensOK
    <2>5. Ttl(p) * PerSecond \in Nat
      BY <1>1, <2>3
    <2>6. black'[p] \in Nat /\ black'[p] + PerSecond > e
      BY <1>1, <1>2, <2>3, <2>4, <2>5
    <2> QED
      BY <1>1, <1>2, <2>6, AbsentAssumption DEF Listed
  <1>4. CASE Decodes(p) /\ ~(Ttl(p) > 0)
    <2>1. CASE now < e
      <3>1. Ttl(p) = (e - now) \div PerSecond /\ e - now \in Nat
        BY <1>1, <1>2, <2>1 DEF Ttl
      <3> HIDE DEF e
      <3>2. Ttl(p) \in Nat /\ e - now < Ttl(p) * PerSecond + PerSecond
        BY <1>1, <3>1, Quotients
      <3>3. Ttl(p) = 0
        BY <1>4, <3>2
      <3>4. now + PerSecond > e
        BY <1>1, <1>2, <3>2, <3>3
      <3> QED
        BY <1>1, <1>2, <3>4 DEF Listed, LastSeconds
    <2>2. CASE ~(now < e)
      <3>1. now + PerSecond > e
        BY <1>1, <1>2, <2>2
      <3> HIDE DEF e
      <3> QED
        BY <1>1, <1>2, <3>1 DEF Listed, LastSeconds
    <2> QED
      BY <2>1, <2>2
  <1>5. CASE ~Decodes(p)
    <2>1. Second \in Nat /\ Second * PerSecond <= now
      BY <1>1, Quotients DEF Second
    <2>2. token[p].exp < Second
      BY <1>1, <1>5, <2>1 DEF Decodes
    <2>3. e + PerSecond <= Second * PerSecond
      BY <1>1, <2>1, <2>2, Products DEF Expiry
    <2> HIDE DEF e
    <2>4. Second * PerSecond \in Nat
      BY <1>1, <2>1
    <2>5. now + PerSecond > e
      BY <1>1, <1>2, <2>1, <2>3, <2>4
    <2> QED
      BY <1>1, <1>2, <2>5 DEF Listed, LastSeconds
  <1> QED
    BY <1>3, <1>4, <1>5

(* The entry of a token that is listed stays, or one like it takes its place. *)
LEMMA ListedStays ==
  ASSUME IInv, Tracking, [Next]_vars, NEW p, Listed(p)
  PROVE  Listed(p)'
  <1>1. /\ TokensOK /\ p \in Issued /\ p \in Issued' /\ token'[p] = token[p] /\ now <= now'
    BY Lasting DEF IInv, Types, Listed
  <1>2. TokensOK'
    BY TokensStep DEF IInv, Types
  <1>3. Expiry(p) \in Nat /\ Expiry(p)' = Expiry(p) /\ now \in Nat /\ now' \in Nat
    BY <1>1, <1>2, ClockAssumption DEF Expiry, TokensOK, Issued, Token
  <1> HIDE DEF Issued
  <1>4. LastSeconds(p) => LastSeconds(p)'
    BY <1>1, <1>3, ClockAssumption DEF LastSeconds
  <1>5. CASE black'[p] = black[p]
    BY <1>1, <1>3, <1>4, <1>5 DEF Listed
  <1>6. ASSUME NEW r \in Requests, EndToken(r), black'[p] # black[p] PROVE Listed(p)'
    <2>1. pc[r] = "end token" /\ UNCHANGED <<now, token>>
      BY <1>6 DEF EndToken, At
    <2>2. call[r].bearer \in Issued
      BY <2>1 DEF Tracking, Tracked
    <2>3. RevokePair(call[r].bearer)
      BY <1>6 DEF EndToken
    <2>4. call[r].bearer = p
      BY <1>1, <1>6, <2>3 DEF RevokePair, TokensOK
    <2> QED
      BY <1>1, <2>1, <2>2, <2>3, <2>4, Revoked
  <1>7. (\E r \in Requests : EndToken(r)) \/ UNCHANGED black
    BY TokenSteps DEF tokenVars, Generate, PassTime, Tick
  <1> QED
    BY <1>5, <1>6, <1>7

------------------------------------------------------------------------------
(* Signing out: what a logout has done, and what a refresh can *)

(* Who sends a logout or a refresh a 200, when nothing failed. *)
LEMMA Answering ==
  ASSUME IInv, Tracking, [Next]_vars, lost' = 0, NEW q \in Requests,
         q \in Logouts \cup Refreshes, answer'[q] = 200, answer[q] # 200
  PROVE  \/ EndToken(q) /\ pc[q] = "end token"
         \/ /\ CheckRotation(q) /\ pc[q] = "rotate" /\ UNCHANGED session
            /\ \A s \in OfHash(call[q].refresh) : ~Valid(s)
         \/ Swap(q) /\ pc[q] = "swap"
  <1>1. RequestsOK /\ plan.failures \in Nat /\ lost = 0
    BY PlanFacts, Lasting DEF IInv, Types
  <1>2. answer[q] = None
    <2>1. answer[q] # None => pc[q] = "done"
      BY <1>1 DEF Tracking, Tracked
    <2>2. pc[q] = "done" => answer'[q] = answer[q]
      BY DoneStays DEF Still
    <2> QED
      BY <2>1, <2>2
  <1>3. ~Lose
    BY <1>1 DEF Lose
  <1>4. \A code : code # 200 => ~End(q, code)
    <2> SUFFICES ASSUME NEW code, code # 200, End(q, code) PROVE FALSE
      OBVIOUS
    <2>1. answer'[q] = code
      BY <1>1, <1>2 DEF End, Respond, RequestsOK
    <2> QED
      BY <2>1
  <1>5. \A c : ~Receive(q, c)
    BY DEF Receive
  <1>6. ~Plain(q)
    <2>1. Plain(q) => GoesOn(q) \/ Stops(q)
      BY PlainStep DEF Tracking
    <2>2. ~GoesOn(q)
      BY DEF GoesOn
    <2>3. ~Stops(q)
      BY <1>4 DEF Stops
    <2> QED
      BY <2>1, <2>2, <2>3
  <1>7. ~EndSession(q) /\ ~Generate(q) /\ ~GiveUp(q)
    BY <1>3 DEF EndSession, Generate, GiveUp
  <1>8. ~Validate(q)
    BY <1>3, <1>4 DEF Validate
  <1>9. CheckRotation(q) =>
          /\ pc[q] = "rotate" /\ UNCHANGED session
          /\ \A s \in OfHash(call[q].refresh) : ~Valid(s)
    BY <1>3 DEF CheckRotation, At, sessionVars
  <1>10. (EndToken(q) => pc[q] = "end token") /\ (Swap(q) => pc[q] = "swap")
    BY DEF EndToken, Swap, At
  <1>11. ServiceStep(q)
    BY <1>5, <1>6, Turns DEF Around, Still
  <1> QED
    BY <1>7, <1>8, <1>9, <1>10, <1>11 DEF ServiceStep

(* How a logout or a refresh gets to its later steps. *)
LEMMA Moving ==
  ASSUME IInv, Tracking, [Next]_vars, NEW q \in Requests, pc'[q] # pc[q],
         pc'[q] \in {"end token", "generate", "rotate", "swap"}
  PROVE  /\ pc'[q] = "end token" => EndSession(q)
         /\ pc'[q] = "generate" =>
              /\ pc[q] = "validate" /\ UNCHANGED <<answer, session>>
              /\ \E s \in OfHash(call[q].refresh) : Valid(s)
         /\ pc'[q] = "rotate" => pc[q] = "generate"
         /\ pc'[q] = "swap" =>
              /\ pc[q] = "rotate" /\ UNCHANGED session
              /\ target'[q] \in OfHash(call[q].refresh)
  <1>1. RequestsOK
    BY DEF IInv, Types
  <1>2. \A c : ~Receive(q, c)
    BY <1>1 DEF Receive, Go, RequestsOK
  <1>3. ~Plain(q)
    <2>1. Plain(q) => GoesOn(q) \/ Stops(q)
      BY PlainStep DEF Tracking
    <2>2. ~GoesOn(q)
      BY <1>1 DEF GoesOn, Go, RequestsOK
    <2>3. ~Stops(q)
      BY <1>1 DEF Stops, End, Go, RequestsOK
    <2> QED
      BY <2>1, <2>2, <2>3
  <1>4. ServiceStep(q)
    BY <1>2, <1>3, Turns DEF Around, Still, Same
  <1> USE DEF At, Go, End, RequestsOK
  <1>5. ~EndToken(q) /\ ~Swap(q) /\ ~GiveUp(q)
    BY <1>1 DEF EndToken, Swap, GiveUp
  <1>6. EndSession(q) => pc'[q] = "end token"
    BY <1>1 DEF EndSession
  <1>7. Validate(q) => /\ pc[q] = "validate" /\ pc'[q] = "generate" /\ UNCHANGED <<answer, session>>
                       /\ \E s \in OfHash(call[q].refresh) : Valid(s)
    BY <1>1 DEF Validate, sessionVars
  <1>8. Generate(q) => pc[q] = "generate" /\ pc'[q] = "rotate"
    BY <1>1 DEF Generate
  <1>9. CheckRotation(q) => /\ pc[q] = "rotate" /\ pc'[q] = "swap" /\ UNCHANGED session
                            /\ target'[q] \in OfHash(call[q].refresh)
    <2> SUFFICES ASSUME CheckRotation(q)
                 PROVE  /\ pc[q] = "rotate" /\ pc'[q] = "swap" /\ UNCHANGED session
                        /\ target'[q] \in OfHash(call[q].refresh)
      OBVIOUS
    <2>1. pc[q] = "rotate" /\ UNCHANGED session
      BY DEF CheckRotation, sessionVars
    <2>2. PICK s \in OfHash(call[q].refresh) : target' = [target EXCEPT ![q] = s] /\ Go(q, "swap")
      BY <1>1 DEF CheckRotation
    <2> QED
      BY <1>1, <2>1, <2>2
  <1> QED
    BY <1>4, <1>5, <1>6, <1>7, <1>8, <1>9 DEF ServiceStep

(* When nothing failed, a row that is written is the session. *)
LEMMA Written200 ==
  ASSUME IInv, Tracking, Hashing, [Next]_vars, lost' = 0, NEW s \in Sessions,
         open[s] # None
  PROVE  \/ Kept(s)
         \/ Closed(s) /\ session'[s] = open[s].row /\ Opened(s)
  BY RowStep DEF Closed, Hashing, Revoking, Rotating, Written

LEMMA LogoutStep ==
  ASSUME IInv, Tracking, Hashing, Meeting, [Next]_vars, NEW r \in Requests, LogoutDone(r)
  PROVE  LogoutDone(r)'
  <1> SUFFICES ASSUME lost' = 0, r \in Logouts' PROVE LogoutDone(r)'
    BY DEF LogoutDone
  <1> SUFFICES ASSUME NEW x, NEW b, x = call'[r].refresh, b = call'[r].bearer PROVE LogoutDone(r)'
    OBVIOUS
  <1>1. RequestsOK /\ lost = 0 /\ Tracked(r) /\ Refreshes \subseteq Refreshes'
    BY Lasting DEF IInv, Types, Tracking
  <1> HIDE DEF Issued, Refreshes, Logouts
  <1>2. CASE call[r] = None
    <2>1. call'[r] # None /\ call'[r].route = "logout"
      BY DEF Logouts, Calling
    <2>2. ~Still(r) /\ pc[r] = "idle" /\ got[r] = None
      BY <1>2, <2>1, <1>1 DEF Still, Same, IInv, Routing, Routed, Tracked
    <2>3. ~Plain(r) /\ ~ServiceStep(r)
      <3>1. ~Plain(r)
        BY <2>2, PlainStep DEF Tracking
      <3>2. ~ServiceStep(r)
        BY <2>2
        DEF ServiceStep, EndSession, EndToken, Validate, Generate, CheckRotation, Swap, GiveUp, At
      <3> QED
        BY <3>1, <3>2
    <2>4. PICK c \in plan.calls[r] : Receive(r, c)
      BY <2>2, <2>3, Turns DEF Around
    <2>5. /\ call'[r] = c /\ pc'[r] \in {"check", "count"} /\ answer'[r] = None
          /\ UNCHANGED <<got, open>>
      BY <1>1, <2>2, <2>4 DEF Receive, RequestsOK, Go, sessionVars, Tracked
    <2>6. \A p \in Requests : got[p] # None => got[p] \in Issued /\ p \in Refreshes /\ call[p] # None
      BY DEF Tracking, Tracked, Refreshes, Calling
    <2>7. ASSUME met'[r] \cap Refreshes' = {}, x # None PROVE Settled(x)'
      <3>1. x \in Issued'
        <4>1. Tracked(r)' /\ call'[r].route \in Routes
          BY <2>1, TrackingStep DEF Tracking, Routes, SessionRoutes
        <4> QED
          BY <2>1, <2>7, <4>1 DEF Tracked
      <3>2. ASSUME NEW p \in Requests, got'[p] = x, Underway(p)' PROVE FALSE
        <4>1. p \in Refreshes /\ p # r
          BY <2>2, <2>5, <2>6, <2>7, <3>2
        <4>2. Underway(r)' /\ call'[p].route \in Writers /\ call'[r].route \in Writers
          BY <1>1, <2>1, <2>5, <4>1 DEF Underway, Refreshes, Calling, Writers
        <4>3. p \in met'[r]
          BY <3>2, <4>1, <4>2, MeetingStep DEF Meeting
        <4> QED
          BY <1>1, <2>7, <4>1, <4>3
      <3> QED
        BY <3>1, <3>2 DEF Settled
    <2>8. answer'[r] # 200
      BY <2>5, StatusFacts DEF Statuses
    <2> QED
      BY <2>5, <2>7, <2>8 DEF LogoutDone
  <1>3. CASE call[r] # None
    <2>1. /\ r \in Logouts /\ call'[r] = call[r] /\ met[r] \subseteq met'[r]
      BY <1>3, Lasting
    <2>2. met'[r] \cap Refreshes' = {} => met[r] \cap Refreshes = {}
      BY <1>1, <2>1
    <2>3. answer'[r] = 200 /\ answer[r] # 200 =>
            /\ pc[r] = "end token" /\ EndToken(r)
      <3>1. r \notin Refreshes
        BY <2>1, Apart
      <3>2. pc[r] \in {"rotate", "swap"} => r \in Refreshes
        BY <1>1, Served DEF Services
      <3> QED
        BY <2>1, <3>1, <3>2, Answering
    <2>5. ASSUME answer'[r] = 200 PROVE Listed(b)'
      <3>1. CASE answer[r] = 200
        <4>1. Listed(b)
          BY <1>1, <2>1, <3>1 DEF LogoutDone
        <4> QED
          BY <4>1, ListedStays
      <3>2. CASE EndToken(r)
        <4>1. ~Lose
          BY <1>1 DEF Lose
        <4>2. RevokePair(b) /\ UNCHANGED <<now, token>> /\ pc[r] = "end token"
          BY <2>1, <3>2, <4>1 DEF EndToken, At
        <4>3. b \in Issued /\ TokensOK
          BY <1>1, <2>1, <4>2 DEF Tracked, IInv, Types
        <4> QED
          BY <4>2, <4>3, Revoked
      <3> QED
        BY <2>3, <2>5, <3>1, <3>2
    <2>6. ASSUME met'[r] \cap Refreshes' = {}, x # None
          PROVE  Settled(x)' /\ OfHash(x)' \subseteq OfHash(x)
      <3>1. Settled(x)
        BY <1>1, <2>1, <2>2, <2>6 DEF LogoutDone
      <3> QED
        BY <3>1, SettledStays
    <2>7. ASSUME met'[r] \cap Refreshes' = {}, pc'[r] = "end token" \/ answer'[r] = 200,
                 NEW s \in OfHash(x)'
          PROVE  (session[s].revoked \/ OpenBy(s, r))'
      <3>1. s \in Sessions /\ x # None /\ s \in OfHash(x)
        <4>1. s \in Sessions /\ session'[s].hash = x
          BY DEF OfHash
        <4>2. session'[s].hash \in Issued
          BY <4>1, OpenedStep
        <4>3. None \notin Issued
          BY AbsentAssumption DEF Issued, Pairs
        <4> QED
          BY <2>6, <2>7, <4>1, <4>2, <4>3
      <3>2. CASE pc[r] = "end token" \/ answer[r] = 200
        <4>1. session[s].revoked \/ OpenBy(s, r)
          BY <1>1, <2>1, <2>2, <2>7, <3>1, <3>2 DEF LogoutDone
        <4>2. CASE open[s] = None
          <5>1. session'[s] = session[s]
            BY <3>1, <4>2, RowStep DEF Kept, Closed, Revoking, Rotating, Written
          <5> QED
            BY <4>1, <4>2, <5>1 DEF OpenBy
        <4>3. CASE Kept(s)
          BY <4>1, <4>3 DEF Kept, OpenBy
        <4>4. CASE session'[s] = open[s].row /\ Opened(s) /\ open[s] # None
          BY <2>1, <4>1, <4>4, Apart DEF Opened, OpenBy
        <4> QED
          BY <3>1, <4>2, <4>3, <4>4, Written200
      <3>3. CASE pc[r] # "end token" /\ answer[r] # 200
        <4>1. EndSession(r)
          BY <2>3, <2>7, <3>3, Moving
        <4>2. Revoking(s, r)
          BY <2>1, <3>1, <4>1, Ending
        <4> QED
          BY <4>2 DEF Revoking, Written, OpenBy
      <3> QED
        BY <3>2, <3>3
    <2> QED
      BY <2>1, <2>5, <2>6, <2>7 DEF LogoutDone
  <1> QED
    BY <1>2, <1>3

(* Only a logout revokes, and one that is open has met who is under way.    *)
LEMMA ValidStays ==
  ASSUME IInv, Tracking, Hashing, Meeting, [Next]_vars, NEW q \in Refreshes, Underway(q),
         met[q] \cap Logouts = {}, NEW s \in Sessions, Valid(s)
  PROVE  Valid(s)'
  <1>1. CASE session'[s] = session[s]
    BY <1>1 DEF Valid
  <1>2. CASE Closed(s) /\ session'[s] = open[s].row
    <2> DEFINE p == open[s].by
    <2>1. Opened(s) /\ open[s] # None /\ p \in Requests /\ q \in Requests
      BY <1>2 DEF Hashing, Closed, IInv, Types, SessionsOK, OpenRow, Refreshes, Calling
    <2>2. p \notin Logouts
      <3> SUFFICES ASSUME p \in Logouts PROVE FALSE
        OBVIOUS
      <3>1. Underway(p)
        BY <2>1 DEF Underway, Writes
      <3>2. p # q /\ {call[p].route, call[q].route} \subseteq Writers
        BY Apart DEF Logouts, Refreshes, Calling, Writers
      <3>3. p \in met[q]
        BY <2>1, <3>1, <3>2 DEF Meeting
      <3> QED
        BY <3>3
    <2> QED
      BY <1>2, <2>1, <2>2 DEF Opened, Valid
  <1> QED
    BY <1>1, <1>2, RowStep DEF Kept, Closed, Revoking, Rotating, Written

LEMMA RefreshStep ==
  ASSUME IInv, Tracking, Hashing, Meeting, [Next]_vars, NEW q \in Requests, RefreshGoesOn(q)
  PROVE  RefreshGoesOn(q)'
  <1> SUFFICES ASSUME NEW x, x = call'[q].refresh, lost' = 0, q \in Refreshes',
                      met'[q] \cap Logouts' = {},
                      pc'[q] \in {"generate", "rotate", "swap"} \/ answer'[q] = 200
               PROVE  RefreshGoesOn(q)'
    BY DEF RefreshGoesOn
  <1>1. /\ RequestsOK /\ lost = 0 /\ Tracked(q) /\ Logouts \subseteq Logouts'
        /\ pc[q] = "idle" <=> call[q] = None
    BY Lasting DEF IInv, Types, Tracking, Routing, Routed
  <1> HIDE DEF Issued, Refreshes, Logouts
  <1>2. call[q] # None
    <2> SUFFICES ASSUME call[q] = None PROVE FALSE
      OBVIOUS
    <2>1. pc[q] = "idle" /\ answer[q] = None
      BY <1>1 DEF Tracked
    <2>2. pc'[q] \notin {"generate", "rotate", "swap"}
      <3>1. pc'[q] \in {"generate", "rotate", "swap"} => pc[q] \in {"validate", "generate", "rotate"}
        BY <2>1, Moving
      <3> QED
        BY <2>1, <3>1
    <2>3. answer'[q] = answer[q]
      <3>1. \A c : Receive(q, c) => UNCHANGED answer
        BY DEF Receive
      <3>2. ~Plain(q)
        BY <2>1, PlainStep DEF Tracking
      <3>3. ~ServiceStep(q)
        BY <2>1
        DEF ServiceStep, EndSession, EndToken, Validate, Generate, CheckRotation, Swap, GiveUp, At
      <3> QED
        BY <3>1, <3>2, <3>3, Turns DEF Around, Still
    <2> QED
      BY <2>1, <2>2, <2>3, StatusFacts DEF Statuses
  <1>3. /\ q \in Refreshes /\ call'[q] = call[q] /\ met[q] \subseteq met'[q]
        /\ met[q] \cap Logouts = {} /\ x = call[q].refresh
    BY <1>1, <1>2, Lasting
  <1>4. q \notin Logouts
    BY <1>3, Apart
  <1>5. \A s, t \in OfHash(x) : s = t
    BY DEF Hashing, OfHash
  <1>6. CASE pc[q] \in {"generate", "rotate", "swap"} \/ answer[q] = 200
    <2>1. /\ Settled(x) /\ \A s \in OfHash(x) : Valid(s)
          /\ pc[q] = "swap" => OfHash(x) \subseteq {target[q]}
          /\ answer[q] = 200 => \A s \in OfHash(x) : OpenBy(s, q)
      BY <1>1, <1>3, <1>6 DEF RefreshGoesOn
    <2>2. Settled(x)' /\ OfHash(x)' \subseteq OfHash(x)
      BY <2>1, SettledStays
    <2>3. OfHash(x) # {} => Underway(q)
      <3>1. pc[q] \in {"generate", "rotate", "swap"} => Underway(q)
        BY DEF Underway
      <3>2. \A s \in OfHash(x) : OpenBy(s, q) => Underway(q)
        BY DEF OpenBy, Underway, Writes, OfHash
      <3> QED
        BY <1>6, <2>1, <3>1, <3>2
    <2>4. ASSUME NEW s \in OfHash(x)' PROVE Valid(s)'
      <3>1. s \in OfHash(x) /\ s \in Sessions
        BY <2>2, <2>4 DEF OfHash
      <3> QED
        BY <1>3, <2>1, <2>3, <3>1, ValidStays
    <2>5. ASSUME pc'[q] = "swap" PROVE OfHash(x)' \subseteq {target'[q]}
      <3>1. CASE pc[q] = "swap"
        <4>1. target'[q] = target[q]
          <5>1. (\A c : ~Receive(q, c)) /\ ~Plain(q)
            BY <3>1, PlainStep DEF Receive, At, Tracking, Services
          <5>2. ServiceStep(q) => UNCHANGED target
            BY <3>1
            DEF ServiceStep, EndSession, EndToken, Validate, Generate, CheckRotation, Swap, GiveUp, At
          <5> QED
            BY <5>1, <5>2, Turns DEF Around, Still, Same
        <4> QED
          BY <2>1, <2>2, <3>1, <4>1
      <3>2. CASE pc[q] # "swap"
        <4>1. target'[q] \in OfHash(x)
          BY <1>3, <2>5, <3>2, Moving
        <4> QED
          BY <1>5, <2>2, <4>1
      <3> QED
        BY <3>1, <3>2
    <2>6. ASSUME answer'[q] = 200, NEW s \in OfHash(x)' PROVE OpenBy(s, q)'
      <3>1. s \in OfHash(x) /\ s \in Sessions /\ session'[s].hash = x
        BY <2>2, <2>6 DEF OfHash
      <3>2. CASE answer[q] = 200
        <4>1. open[s] # None /\ open[s].by = q
          BY <2>1, <3>1, <3>2 DEF OpenBy
        <4>2. CASE Kept(s)
          BY <4>1, <4>2 DEF Kept, OpenBy
        <4>3. CASE session'[s] = open[s].row /\ Opened(s)
          <5>1. got[q] = x
            BY <1>4, <3>1, <4>1, <4>3 DEF Opened
          <5>2. Underway(q)
            BY <3>1, <4>1 DEF Underway, Writes
          <5> QED
            BY <2>1, <5>1, <5>2 DEF Settled
        <4> QED
          BY <3>1, <4>1, <4>2, <4>3, Written200
      <3>3. CASE answer[q] # 200
        <4>1. pc[q] # "end token"
          BY <1>6, <3>3
        <4>2. ~\A t \in OfHash(x) : ~Valid(t)
          BY <2>1, <3>1
        <4>3. Swap(q) /\ pc[q] = "swap"
          BY <1>3, <2>6, <3>3, <4>1, <4>2, Answering
        <4>4. Rotating(target[q], q) /\ s = target[q]
          BY <2>1, <3>1, <4>3, Swapping
        <4> QED
          BY <4>4 DEF Rotating, Written, OpenBy
      <3> QED
        BY <3>2, <3>3
    <2> QED
      BY <1>3, <2>2, <2>4, <2>5, <2>6 DEF RefreshGoesOn
  <1>7. CASE pc[q] \notin {"generate", "rotate", "swap"} /\ answer[q] # 200
    <2>1. answer'[q] # 200
      <3> SUFFICES ASSUME answer'[q] = 200 PROVE FALSE
        OBVIOUS
      <3>1. pc[q] = "end token"
        BY <1>3, <1>7, Answering
      <3> QED
        BY <1>1, <1>4, <3>1, Served DEF Services
    <2>2. /\ pc'[q] = "generate" /\ UNCHANGED session
          /\ \E s \in OfHash(x) : Valid(s)
      <3>1. pc'[q] \in {"generate", "rotate", "swap"} /\ pc'[q] # pc[q]
        BY <1>7, <2>1
      <3> QED
        BY <1>3, <1>7, <3>1, Moving
    <2>3. PICK s \in OfHash(x) : Valid(s)
      BY <2>2
    <2>4. Settled(x)
      BY <2>3 DEF Settled, Hashing, OfHash
    <2>5. Settled(x)'
      BY <2>4, SettledStays
    <2>6. \A t \in OfHash(x)' : Valid(t)'
      BY <1>5, <2>2, <2>3 DEF OfHash, Valid
    <2> QED
      BY <1>3, <2>1, <2>2, <2>5, <2>6 DEF RefreshGoesOn
  <1> QED
    BY <1>6, <1>7

LEMMA SignedStep == IInv /\ SInv /\ [Next]_vars => SInv'
  <1> SUFFICES ASSUME IInv, SInv, [Next]_vars PROVE SInv'
    OBVIOUS
  <1>1. Tracking /\ Hashing /\ Meeting /\ \A r \in Requests : LogoutDone(r) /\ RefreshGoesOn(r)
    BY DEF SInv
  <1>2. Tracking' /\ Hashing' /\ Meeting'
    BY <1>1, TrackingStep, HashingStep, MeetingStep
  <1>3. \A r \in Requests : LogoutDone(r)' /\ RefreshGoesOn(r)'
    BY <1>1, LogoutStep, RefreshStep
  <1> QED
    BY <1>2, <1>3 DEF SInv

LEMMA SignedInit == Init => SInv
  <1> SUFFICES ASSUME Init PROVE SInv
    OBVIOUS
  <1>1. PICK n \in Pairs : Sessions = 0..n /\ Login \in [0..n -> Users]
    BY LoginAssumption DEF Sessions
  <1>2. Sessions \subseteq Pairs
    BY <1>1, PairsAssumption DEF Pairs
  <1>3. \A s \in Sessions : token[s] # None
    <2> SUFFICES ASSUME NEW s \in Sessions PROVE token[s] # None
      OBVIOUS
    <2>1. token[s] = [user |-> Login[s], exp |-> Life] /\ Login[s] \in Users
      BY <1>1, <1>2 DEF Init
    <2> QED
      BY <2>1, ClockAssumption, AbsentAssumption
  <1>4. \A s \in Sessions : session[s].hash = s /\ s \in Issued /\ open[s] = None
    BY <1>2, <1>3 DEF Init, Issued
  <1>5. \A r \in Requests : pc[r] = "idle" /\ call[r] = None /\ got[r] = None /\ answer[r] = None
    BY DEF Init
  <1>6. \A r \in Requests : ~Underway(r) /\ r \notin Logouts /\ r \notin Refreshes
    BY <1>4, <1>5 DEF Underway, Writes, Logouts, Refreshes, Calling
  <1>7. None \notin Pairs
    BY AbsentAssumption DEF Pairs
  <1> HIDE DEF Issued, Logouts, Refreshes
  <1>8. Tracking
    BY <1>5 DEF Tracking, Tracked
  <1>9. Hashing
    <2>1. \A s \in Sessions : session[s].hash \in Issued /\ Opened(s)
      BY <1>4 DEF Opened
    <2>2. \A s, t \in Sessions : session[s].hash = session[t].hash => s = t
      BY <1>4
    <2>3. \A s \in Sessions, q \in Requests : got[q] # session[s].hash
      BY <1>2, <1>4, <1>5, <1>7
    <2> QED
      BY <2>1, <2>2, <2>3 DEF Hashing
  <1>10. Meeting
    BY <1>6 DEF Meeting
  <1>11. \A r \in Requests : LogoutDone(r) /\ RefreshGoesOn(r)
    BY <1>6 DEF LogoutDone, RefreshGoesOn
  <1> QED
    BY <1>8, <1>9, <1>10, <1>11 DEF SInv

(* A logout that is over, that nothing failed in and that met no refresh    *)
(* has ended the session it named and its access token, and who refreshes   *)
(* with the token of that session is refused, whatever else is under way.   *)
THEOREM SignsOut == Spec => []SignedOut
  <1>1. IInv /\ SInv => SignedOut
    <2> SUFFICES ASSUME IInv, SInv, NEW r \in Requests, SignedOutBy(r), lost = 0
                 PROVE  LET c == call[r] IN
                        /\ Verifies(c.bearer) => LastSeconds(c.bearer)
                        /\ \A s \in OfHash(c.refresh) : session[s].revoked
                        /\ \A s \in OfHash(c.refresh), q \in Refreshes :
                             call[q].refresh = c.refresh /\ answer[q] = 200 => met[q] \cap Logouts # {}
      BY DEF SignedOut
    <2>1. LogoutDone(r) /\ r \in Logouts /\ answer[r] = 200 /\ ~Underway(r) /\ met[r] \cap Refreshes = {}
      BY DEF SInv, SignedOutBy
    <2> HIDE DEF Logouts, Refreshes, Issued
    <2>2. Listed(call[r].bearer)
      BY <2>1 DEF LogoutDone
    <2>3. Verifies(call[r].bearer) => LastSeconds(call[r].bearer)
      <3> DEFINE p == call[r].bearer
      <3>1. /\ p \in Pairs /\ token[p].exp \in Nat /\ now \in Nat /\ PerSecond \in Nat
            /\ black[p] \in Nat \cup {None}
        BY <2>2, ClockAssumption DEF Listed, IInv, Types, TokensOK, Token, Issued
      <3>2. Expiry(p) \in Nat
        BY <3>1 DEF Expiry
      <3> HIDE DEF p
      <3>3. ASSUME Verifies(p), Listed(p) PROVE LastSeconds(p)
        BY <3>1, <3>2, <3>3 DEF Verifies, Blacklisted, Listed, LastSeconds
      <3> QED
        BY <2>2, <3>3 DEF p
    <2>4. \A s \in OfHash(call[r].refresh) : session[s].revoked
      <3>1. \A s \in OfHash(call[r].refresh) : session[s].revoked \/ OpenBy(s, r)
        BY <2>1 DEF LogoutDone
      <3>2. \A s \in Sessions : ~OpenBy(s, r)
        BY <2>1 DEF OpenBy, Underway, Writes
      <3> QED
        BY <3>1, <3>2 DEF OfHash
    <2>5. \A s \in OfHash(call[r].refresh), q \in Refreshes :
            call[q].refresh = call[r].refresh /\ answer[q] = 200 => met[q] \cap Logouts # {}
      <3> SUFFICES ASSUME NEW s \in OfHash(call[r].refresh), NEW q \in Refreshes,
                          call[q].refresh = call[r].refresh, answer[q] = 200, met[q] \cap Logouts = {}
                   PROVE  FALSE
        OBVIOUS
      <3>1. RefreshGoesOn(q)
        BY DEF SInv, Refreshes, Calling
      <3>2. Valid(s)
        BY <3>1 DEF RefreshGoesOn
      <3> QED
        BY <2>4, <3>2 DEF Valid
    <2> QED
      BY <2>3, <2>4, <2>5
  <1> QED
    BY <1>1, SignedInit, SignedStep, Inductive, PTL DEF Spec
------------------------------------------------------------------------------
(* Refinement of SessionLedger *)

(* A pair that is new is in the hands of a refresh that is under way. *)
LEMMA NewPairTaken ==
  ASSUME IInv, Tracking, [Next]_vars, NEW x \in Issued', x \notin Issued
  PROVE  \E r \in Requests : got'[r] = x /\ Underway(r)'
  <1>1. TokensOK /\ Numbered /\ RequestsOK
    BY DEF IInv, Types
  <1>2. ~UNCHANGED token
    BY DEF Issued
  <1>3. PICK r \in Requests : Generate(r)
    BY <1>2, TokenSteps DEF tokenVars, EndToken, PassTime, Tick
  <1>4. /\ GeneratePair(token[call[r].refresh].user)
        /\ got' = [got EXCEPT ![r] = NewPair] /\ Go(r, "rotate")
    BY <1>2, <1>3 DEF Generate
  <1>5. x = NewPair
    <2>1. \E row : token' = [token EXCEPT ![NewPair] = row]
      BY <1>4 DEF GeneratePair
    <2> QED
      BY <1>1, <2>1 DEF Issued, TokensOK
  <1>6. got'[r] = x /\ pc'[r] = "rotate"
    BY <1>1, <1>4, <1>5 DEF Go, RequestsOK
  <1> QED
    BY <1>6 DEF Underway

(* What was received stays received. *)
LEMMA GotStays ==
  ASSUME IInv, Tracking, [Next]_vars, NEW q \in Requests, got[q] # None
  PROVE  got'[q] = got[q]
  <1>1. RequestsOK
    BY DEF IInv, Types
  <1>2. pc[q] \in {"rotate", "swap", "done"}
    BY DEF Tracking, Tracked
  <1>3. ~Generate(q)
    BY <1>2 DEF Generate, At
  <1>4. ServiceStep(q) => got'[q] = got[q]
    BY <1>3
    DEF ServiceStep, EndSession, EndToken, Validate, CheckRotation, Swap, GiveUp
  <1>5. Plain(q) => got'[q] = got[q]
    BY PlainStep DEF Tracking
  <1>6. (\E c \in plan.calls[q] : Receive(q, c)) => got'[q] = got[q]
    BY DEF Receive
  <1> QED
    BY <1>4, <1>5, <1>6, Turns DEF Around, Still, Same

(* While no transaction ends, at most one token becomes useless: that of    *)
(* the refresh which takes the step.                                        *)
LEMMA SpentStep ==
  ASSUME IInv, Tracking, Hashing, [Next]_vars, \A s \in Sessions : ~Closed(s)
  PROVE  \/ LedgerSpent' = LedgerSpent
         \/ \E t \in Pairs \ LedgerSpent : LedgerSpent' = LedgerSpent \cup {t}
  <1>1. LedgerSpent \subseteq LedgerSpent'
    BY SettledStays DEF LedgerSpent
  <1>2. Issued' \subseteq Pairs
    BY DEF Issued
  <1>3. ASSUME NEW x \in LedgerSpent', x \notin LedgerSpent
        PROVE  \E p \in Requests : ~Still(p) /\ got[p] = x
    <2>1. x \in Issued' /\ \A p \in Requests : got'[p] = x => ~Underway(p)'
      BY <1>3 DEF LedgerSpent, Settled
    <2>2. x \in Issued
      BY <2>1, NewPairTaken
    <2>3. PICK p \in Requests : got[p] = x /\ Underway(p)
      BY <1>2, <1>3, <2>1, <2>2 DEF LedgerSpent, Settled
    <2>4. got[p] # None
      BY <1>2, <2>1, <2>3, AbsentAssumption DEF Pairs
    <2>5. ~Underway(p)'
      BY <2>1, <2>3, <2>4, GotStays
    <2>6. Writes(p) => Writes(p)'
      <3> SUFFICES ASSUME NEW s \in Sessions, open[s] # None, open[s].by = p PROVE Writes(p)'
        BY DEF Writes
      <3>1. open'[s] = open[s]
        BY RowStep DEF Kept, Revoking, Rotating, Written
      <3> QED
        BY <3>1 DEF Writes
    <2>7. ~Still(p)
      BY <2>3, <2>5, <2>6 DEF Underway, Still, Same
    <2> QED
      BY <2>3, <2>7
  <1>4. \A p, q \in Requests : ~Still(p) /\ ~Still(q) => p = q
    BY Turns DEF Around
  <1>5. \A x, y \in LedgerSpent' \ LedgerSpent : x = y
    BY <1>3, <1>4
  <1>6. LedgerSpent' \subseteq Pairs
    BY DEF LedgerSpent, Pairs
  <1> QED
    BY <1>1, <1>5, <1>6

(* A transaction that ends makes the token it was to write, if any, spent,  *)
(* and no other.                                                            *)
LEMMA SpentAtCommit ==
  ASSUME IInv, Tracking, Hashing, [Next]_vars, NEW s \in Sessions, CommitSession(s)
  PROVE  IF open[s].by \in Refreshes
         THEN /\ got[open[s].by] \in Pairs \ LedgerSpent
              /\ LedgerSpent' = LedgerSpent \cup {got[open[s].by]}
         ELSE LedgerSpent' = LedgerSpent
  <1>1. SessionsOK /\ RequestsOK
    BY DEF IInv, Types
  <1>2. /\ open[s] # None /\ open' = [open EXCEPT ![s] = None]
        /\ UNCHANGED <<pc, call, got, target, token>>
    BY DEF CommitSession, requestVars, tokenVars
  <1>3. Opened(s)
    BY DEF Hashing
  <1>4. PICK q \in Requests : open[s].by = q
    BY <1>1, <1>2 DEF SessionsOK, OpenRow
  <1>5. Issued' = Issued
    BY <1>2 DEF Issued
  <1>6. \A p \in Requests : p # q => (Underway(p)' <=> Underway(p))
    <2>1. \A p \in Requests : p # q => (Writes(p)' <=> Writes(p))
      BY <1>1, <1>2, <1>4 DEF Writes, SessionsOK
    <2> QED
      BY <1>2, <2>1 DEF Underway
  <1>7. Underway(q)
    BY <1>2, <1>4 DEF Underway, Writes
  <1> HIDE DEF Issued
  <1>8. ASSUME NEW x \in Pairs, x # got[q] PROVE Settled(x)' <=> Settled(x)
    BY <1>2, <1>5, <1>6, <1>8 DEF Settled
  <1>9. CASE q \in Refreshes
    <2>1. pc[q] = "done" /\ target[q] = s /\ got[q] # None
      BY <1>2, <1>3, <1>4, <1>9, Apart DEF Opened
    <2>2. got[q] \in Issued
      BY <1>3, <2>1 DEF Tracking, Tracked
    <2>3. got[q] \in Pairs
      BY <2>2 DEF Issued
    <2>4. ~Settled(got[q])
      BY <1>3, <1>7 DEF Settled
    <2>5. ~Underway(q)'
      <3>1. open'[s] = None
        BY <1>1, <1>2 DEF SessionsOK
      <3> QED
        BY <1>9, <2>1, <3>1, Rotated
    <2>6. \A p \in Requests : got[p] = got[q] => p = q
      BY <1>3, <2>1 DEF Tracking
    <2>7. Settled(got[q])'
      BY <1>2, <1>5, <2>2, <2>5, <2>6 DEF Settled
    <2>8. LedgerSpent' = LedgerSpent \cup {got[q]}
      <3>1. \A x \in Pairs : Settled(x)' <=> Settled(x) \/ x = got[q]
        BY <1>2, <1>8, <2>7
      <3> QED
        BY <2>3, <3>1 DEF LedgerSpent, Pairs
    <2> QED
      BY <1>4, <1>9, <2>3, <2>4, <2>8 DEF LedgerSpent
  <1>10. CASE q \notin Refreshes
    <2>1. got[q] = None
      BY <1>3, <1>10 DEF Tracking, Tracked
    <2>2. \A x \in Pairs : x # got[q]
      BY <2>1, AbsentAssumption DEF Pairs
    <2>3. \A x \in Pairs : Settled(x)' <=> Settled(x)
      BY <1>8, <2>2
    <2> QED
      BY <1>4, <1>10, <2>3 DEF LedgerSpent, Pairs
  <1> QED
    BY <1>9, <1>10

(* A transaction that ends is one step of the ledger, ... *)
LEMMA CommitIsServiceStep ==
  ASSUME IInv, Tracking, Hashing, [Next]_vars, NEW s \in Sessions, CommitSession(s)
  PROVE  [Service!Next]_(Service!ledger)
  <1> DEFINE q == open[s].by
  <1>1. SessionsOK /\ Opened(s) /\ open[s] # None
    BY DEF IInv, Types, Hashing, CommitSession
  <1>2. \/ session' = [session EXCEPT ![s] = open[s].row]
        \/ UNCHANGED session
    BY DEF CommitSession
  <1>3. ASSUME UNCHANGED session
        PROVE  UNCHANGED <<LedgerState, LedgerOwner, LedgerToken>>
    BY <1>3 DEF LedgerState, LedgerOwner, LedgerToken
  <1>4. \A x \in Sessions : session'[x] = IF x = s /\ ~UNCHANGED session THEN open[s].row ELSE session[x]
    BY <1>1, <1>2 DEF SessionsOK
  <1>5. CASE q \in Refreshes
    <2>1. got[q] \in Pairs \ LedgerSpent /\ LedgerSpent' = LedgerSpent \cup {got[q]}
      BY <1>5, SpentAtCommit
    <2>2. CASE UNCHANGED session
      <3>1. Service!Waste(got[q])
        BY <1>3, <2>1, <2>2 DEF Service!Waste
      <3> QED
        BY <2>1, <3>1 DEF Service!Next
    <2>3. CASE ~UNCHANGED session
      <3>1. /\ open[s].row.hash = got[q] /\ open[s].row.revoked = session[s].revoked
            /\ open[s].row.user = session[s].user
        BY <1>1, <1>5, Apart DEF Opened
      <3>2. UNCHANGED <<LedgerState, LedgerOwner>>
        BY <1>4, <3>1 DEF LedgerState, LedgerOwner
      <3>3. LedgerToken' = [LedgerToken EXCEPT ![s] = got[q]]
        BY <1>4, <2>3, <3>1 DEF LedgerToken
      <3>4. LedgerState[s] # "none"
        BY DEF LedgerState
      <3>5. Service!Roll(s, got[q])
        BY <2>1, <3>2, <3>3, <3>4 DEF Service!Roll
      <3> QED
        BY <2>1, <3>5 DEF Service!Next
    <2> QED
      BY <2>2, <2>3
  <1>6. CASE q \notin Refreshes
    <2>1. LedgerSpent' = LedgerSpent
      BY <1>6, SpentAtCommit
    <2>2. CASE UNCHANGED session
      BY <1>3, <2>1, <2>2 DEF Service!ledger
    <2>3. CASE ~UNCHANGED session
      <3>1. /\ open[s].row.revoked /\ open[s].row.hash = session[s].hash
            /\ open[s].row.user = session[s].user
        BY <1>1, <1>6 DEF Opened
      <3>2. UNCHANGED <<LedgerOwner, LedgerToken>>
        BY <1>4, <3>1 DEF LedgerOwner, LedgerToken
      <3>3. LedgerState' = Service!Ended({s})
        BY <1>4, <2>3, <3>1 DEF LedgerState, Service!Ended
      <3>4. CASE session[s].revoked
        <4>1. LedgerState' = LedgerState
          BY <1>4, <2>3, <3>1, <3>4 DEF LedgerState
        <4> QED
          BY <2>1, <3>2, <4>1 DEF Service!ledger
      <3>5. CASE ~session[s].revoked
        <4>1. {s} \in SUBSET Service!Live
          BY <3>5 DEF Service!Live, LedgerState
        <4>2. Service!End({s})
          BY <2>1, <3>2, <3>3, <4>1 DEF Service!End
        <4> QED
          BY <4>1, <4>2 DEF Service!Next
      <3> QED
        BY <3>4, <3>5
    <2> QED
      BY <2>2, <2>3
  <1> QED
    BY <1>5, <1>6

(* ... and so is every other step, at most: it may waste a token. *)
LEMMA OtherServiceStep ==
  ASSUME IInv, Tracking, Hashing, [Next]_vars, \A s \in Sessions : ~CommitSession(s)
  PROVE  [Service!Next]_(Service!ledger)
  <1>1. UNCHANGED session /\ \A s \in Sessions : ~Closed(s)
    <2>1. UNCHANGED sessionVars \/ \E r \in Requests : EndSession(r) \/ Swap(r)
      BY SessionSteps
    <2>2. UNCHANGED session
      BY <2>1 DEF sessionVars, EndSession, Swap
    <2>3. ASSUME NEW r \in Requests, EndSession(r), NEW s \in Sessions PROVE ~Closed(s)
      <3>1. Kept(s) \/ Revoking(s, r)
        BY <2>3, Ending
      <3> QED
        BY <3>1 DEF Kept, Closed, Revoking, Written
    <2>4. ASSUME NEW r \in Requests, Swap(r), NEW s \in Sessions PROVE ~Closed(s)
      <3>1. Kept(s) \/ Rotating(s, r)
        BY <2>4, Swapping
      <3> QED
        BY <3>1 DEF Kept, Closed, Rotating, Written
    <2>5. UNCHANGED sessionVars => \A s \in Sessions : ~Closed(s)
      BY DEF sessionVars, Closed
    <2> QED
      BY <2>1, <2>2, <2>3, <2>4, <2>5
  <1>2. UNCHANGED <<LedgerState, LedgerOwner, LedgerToken>>
    BY <1>1 DEF LedgerState, LedgerOwner, LedgerToken
  <1>3. CASE LedgerSpent' = LedgerSpent
    BY <1>2, <1>3 DEF Service!ledger
  <1>4. ASSUME NEW t \in Pairs \ LedgerSpent, LedgerSpent' = LedgerSpent \cup {t}
        PROVE  Service!Next
    <2>1. Service!Waste(t)
      BY <1>2, <1>4 DEF Service!Waste
    <2> QED
      BY <2>1 DEF Service!Next
  <1> QED
    BY <1>1, <1>3, <1>4, SpentStep

LEMMA ServiceInit == Init => Service!Init
  <1> SUFFICES ASSUME Init PROVE Service!Init
    OBVIOUS
  <1>1. PICK n \in Pairs : Sessions = 0..n /\ Login \in [0..n -> Users]
    BY LoginAssumption DEF Sessions
  <1>2. Sessions \subseteq Pairs
    BY <1>1, PairsAssumption DEF Pairs
  <1>3. \A s \in Sessions : Login[s] \in Users /\ Login[s] # None /\ s # None
    BY <1>1, <1>2, AbsentAssumption DEF Pairs
  <1>4. /\ LedgerState = [s \in Sessions |-> "live"]
        /\ LedgerOwner = [s \in Sessions |-> Login[s]]
        /\ LedgerToken = [s \in Sessions |-> s]
    BY DEF Init, LedgerState, LedgerOwner, LedgerToken
  <1>5. Service!Live = Sessions
    BY <1>4 DEF Service!Live
  <1>6. LedgerSpent = Sessions
    <2>1. \A r \in Requests : got[r] = None
      BY DEF Init
    <2>2. Issued = Sessions
      <3>1. \A s \in Sessions : token[s] # None
        <4> SUFFICES ASSUME NEW s \in Sessions PROVE token[s] # None
          OBVIOUS
        <4>1. token[s] = [user |-> Login[s], exp |-> Life] /\ Login[s] \in Users
          BY <1>2, <1>3 DEF Init
        <4> QED
          BY <4>1, ClockAssumption, AbsentAssumption
      <3>2. \A p \in Pairs \ Sessions : token[p] = None
        BY DEF Init
      <3> QED
        BY <1>2, <3>1, <3>2 DEF Issued
    <2>3. None \notin Pairs
      BY AbsentAssumption DEF Pairs
    <2> HIDE DEF Issued
    <2> QED
      BY <1>2, <2>1, <2>2, <2>3 DEF LedgerSpent, Settled
  <1> QED
    BY <1>2, <1>3, <1>4, <1>5, <1>6 DEF Service!Init

(* The sessions that refresh and logout reach, looked at when transactions  *)
(* commit, are a session ledger, as those of the whole service are.         *)
THEOREM SessionsRefined == Spec => ImplementsLedger
  <1>1. IInv /\ SInv /\ [Next]_vars => [Service!Next]_(Service!ledger)
    BY CommitIsServiceStep, OtherServiceStep DEF SInv
  <1> QED
    BY <1>1, ServiceInit, SignedInit, SignedStep, Inductive, PTL
    DEF Spec, ImplementsLedger, Service!Spec
================================================================================
