--------------------------- MODULE EmailFlowsProofs ---------------------------
(***************************************************************************)
(* Proofs about EmailFlows: every invariant the run email_flows checks     *)
(* holds for any users, addresses, requests and plans.                     *)
(*                                                                         *)
(* The invariant says at which step of its call each request is and what   *)
(* it has written (Steps, Locks, Overlaps, Written), where tokens and mail *)
(* come from (Sent, Origins), that a used link and a transaction that      *)
(* followed it go together (Used, Once), why rows and addresses have gone  *)
(* (Causes) and what the files are while a request is on them (Pictures).  *)
(***************************************************************************)
EXTENDS EmailFlows, FiniteSetTheorems, TLAPS

(* The account that a request writes. *)
Target(r) == IF Follows(r) THEN Key(r).user ELSE call[r].user

(* A token whose transaction has been committed. *)
Kept(k) == link[k] # None /\ link[k].state \in {"unused", "used"}

(* Which call goes through which step, and what it has by then. *)
Routed(r) ==
  LET o == call[r].op IN
  /\ pc[r] = "idle" <=> call[r] = None
  /\ pc[r] = "update" => o = "patch"
  /\ pc[r] = "store" => o = "upload"
  /\ pc[r] = "unstore" => o \in {"reset", "delete", "erase"}
  /\ pc[r] = "point" => o \in {"upload", "reset"}
  /\ pc[r] = "remove" => o \in {"delete", "erase"}
  /\ pc[r] = "free" => o = "change"
  /\ pc[r] \in {"save", "publish"} => o \in {"resend", "change"} /\ got[r] # None
  /\ pc[r] = "fetch" => o = "confirm"
  /\ pc[r] \in {"mark", "apply"} => o \in {"verify", "confirm"}
  /\ Follows(r) /\ (pc[r] \in {"fetch", "mark", "apply", "answered"} \/ tx[r] # "none") => Kept(Key(r))
  /\ pc[r] = "apply" => tx[r] = "open"
  /\ pc[r] \notin Over \cup {"apply"} => tx[r] = "none"
  /\ tx[r] # "none" => o \notin {"resend", "change"}
  /\ put[r] # None <=> tx[r] = "open" /\ pc[r] # "apply"
  /\ put[r] # None => put[r].user = Target(r) /\ row[put[r].user] # None
  /\ got[r] # None =>
       /\ pc[r] \in {"save", "publish"} \cup Over
       /\ IF o = "change" THEN got[r].key.kind = "change" /\ got[r].to = call[r].email
          ELSE o = "resend" /\ got[r].key.kind = "verify"
  /\ Follows(r) => [to |-> call[r].to, key |-> Key(r)] \in mail

(* The plan and the calls are those of the constants. *)
Steps == plan \in Plans /\ \A r \in Requests : Routed(r) /\ (call[r] # None => call[r] \in plan[r])

(* Two requests never write one row. *)
Locks ==
  \A r, q \in Requests :
    put[r] # None /\ put[q] # None /\ put[r].user = put[q].user => r = q

(* Requests that are in progress together have met. *)
Overlaps ==
  \A r, q \in Requests :
    /\ q \in met[r] => r # q /\ r \in met[q] /\ call[r] # None
    /\ r # q /\ Active(r) /\ Active(q) => q \in met[r]

(* The write of a request is the committed row with its change. *)
Writ(r) ==
  put[r] # None /\ ~put[r].gone =>
    LET old == row[put[r].user] new == put[r].profile c == call[r] IN
    /\ c.op \notin {"delete", "erase"}
    /\ c.op = "patch" => new.email \in {old.email, c.email} /\ new.avatar = old.avatar
    /\ c.op \in {"upload", "reset"} =>
         new = [old EXCEPT !.avatar = NewAvatar(r)]
    /\ Follows(r) => new = Proved(r)

Written ==
  \A r \in Requests :
    /\ Writ(r)
    /\ put[r] # None /\ put[r].gone => call[r].op \in {"delete", "erase"}

(* A token of a change, and its mail, were made by a request. *)
Sent ==
  /\ \A k \in Keys : link[k] # None /\ k.kind = "change" =>
       \E q \in Requests : got[q] # None /\ got[q].key = k /\ got[q].to = link[k].pending
  /\ \A m \in mail : m.key.kind = "change" => m \in {got[q] : q \in Requests}

(* An address is proven, or was registered with and nothing is proven.  A   *)
(* verification mail goes to the one or the other.                          *)
Excused(u) == PatchedUser(u) \/ Twin(u)

Known(u) ==
  row[u] # None =>
    \/ <<u, row[u].email>> \in proven
    \/ row[u].email = Home[u] /\ ~row[u].verified /\ \A e \in Emails : <<u, e>> \notin proven

Shown(u, m) ==
  m # None /\ m.key.user = u /\ m.key.kind = "verify" => m.to = Home[u] \/ <<u, m.to>> \in proven

Origins ==
  \A u \in Users :
    \/ Excused(u)
    \/ /\ Known(u)
       /\ \A m \in mail : Shown(u, m)
       /\ \A q \in Requests : Shown(u, got[q])

(* A link is marked once a transaction that followed it is committed, and   *)
(* from then on only requests that met that one can go on with it.          *)
Used ==
  \A r \in Requests : Follows(r) /\ Done(r) => link[Key(r)].state = "used"

Once ==
  \A r, q \in Requests :
    Follows(r) /\ Follows(q) /\ r # q /\ Key(r) = Key(q) /\ Done(r) /\ q \notin met[r]
      => pc[q] \notin {"fetch", "mark", "apply"} /\ tx[q] \notin {"open", "done"}

(* While no call fails: a row has gone because a request erased it, and the *)
(* address a change was made for is an account's because a request took it. *)
Takes(q, e) ==
  /\ Done(q)
  /\ \/ call[q].op = "confirm" /\ link[Key(q)].pending = e
     \/ call[q].op = "patch" /\ call[q].email = e
Erases(q, u) == Done(q) /\ call[q].op \in {"delete", "erase"} /\ call[q].user = u

Causes ==
  lost = 0 =>
   /\ \A u \in Users : row[u] = None => \E q \in Requests : Erases(q, u)
   /\ \A r \in Requests, e \in Emails, u \in Users :
        /\ got[r] # None /\ got[r].key.kind = "change" /\ got[r].to = e
        /\ row[u] # None /\ row[u].email = e
        => \E q \in Requests : Takes(q, e)

(* What the files of an account are between and during requests on it, as   *)
(* long as no call fails, no two requests meet and one format is uploaded.  *)
Calm(u) ==
  /\ lost = 0
  /\ \A r \in On(u) : met[r] = {}
  /\ \A f, g \in Uploaded(u) : f = g

Agree(u) == files[u] = IF row[u] = None THEN {} ELSE {row[u].avatar} \ {None}

Midway(r, u) ==
  /\ pc[r] \in {"begin", "update", "store", "unstore", "free", "save", "publish"} => Agree(u)
  /\ pc[r] \in {"store", "unstore", "point", "remove"} => row[u] # None
  /\ pc[r] = "unstore" => row[u].avatar # None
  /\ pc[r] = "point" => files[u] = {NewAvatar(r)} \ {None}
  /\ pc[r] = "remove" => files[u] = {}
  /\ pc[r] \in Over => files[u] = IF put[r].gone THEN {} ELSE {put[r].profile.avatar} \ {None}

Pictures ==
  \A u \in Users : Calm(u) =>
    /\ files[u] \subseteq Uploaded(u)
    /\ (\A r \in On(u) : ~Active(r)) => Agree(u)
    /\ \A r \in On(u) : Active(r) => Midway(r, u)

------------------------------------------------------------------------------
(* Calls *)

(* What each kind of call has. *)
LEMMA CallFacts ==
  ASSUME NEW c \in Calls
  PROVE  /\ c # None
         /\ c.op \in {"patch", "upload", "reset", "delete", "erase", "verify", "confirm", "resend", "change"}
         /\ c.op = "patch" => /\ c.user \in Users /\ c.email \in Emails \cup {None}
                              /\ c.flag \in BOOLEAN \cup {None}
         /\ c.op \in {"upload", "reset", "delete", "erase"} => c.user \in Users
         /\ c.op = "upload" => c.format \in Formats
         /\ c.op \in {"verify", "confirm"} => c.key \in Keys /\ c.to \in Emails
         /\ c.op \in {"verify", "confirm"} => (c.op = "confirm" <=> c.key.kind = "change")
         /\ c.op = "resend" => c.email \in Emails
         /\ c.op = "change" => c.user \in Users /\ c.email \in Emails
         /\ "user" \in DOMAIN c <=> c.op \notin {"verify", "confirm", "resend"}
  <1>1. c # None
    BY AbsentAssumption
  <1>2. CASE c \in PatchCalls
    BY <1>1, <1>2 DEF PatchCalls
  <1>3. CASE c \in AvatarCalls
    BY <1>1, <1>3 DEF AvatarCalls
  <1>4. CASE c \in DeleteCalls
    BY <1>1, <1>4 DEF DeleteCalls
  <1>5. CASE c \in FollowCalls
    BY <1>1, <1>5 DEF FollowCalls
  <1>6. CASE c \in AskCalls
    BY <1>1, <1>6 DEF AskCalls
  <1> QED
    BY <1>2, <1>3, <1>4, <1>5, <1>6 DEF Calls

(* A call of the plan is a call. *)
LEMMA Planned ==
  ASSUME plan \in Plans, NEW r \in Requests PROVE plan[r] \subseteq Calls
  BY PlansAssumption

(* A request that is under way has a call. *)
LEMMA CallAt ==
  ASSUME TypeOK, Steps, NEW r \in Requests, pc[r] # "idle"
  PROVE  call[r] \in Calls /\ call[r] # None
  BY AbsentAssumption DEF TypeOK, Steps, Routed

(* What a step takes its request to have. *)
LEMMA Given ==
  ASSUME TypeOK, Steps, NEW r \in Requests
  PROVE  LET c == call[r] IN
         /\ pc[r] = "begin" => c \in Calls
         /\ pc[r] \in {"update", "free", "store", "unstore", "point", "remove"} => c.user \in Users
         /\ pc[r] = "store" => c.format \in Formats
         /\ pc[r] = "update" => /\ c.email \in Emails \cup {None}
                                /\ c.flag \in BOOLEAN \cup {None}
         /\ pc[r] = "point" => NewAvatar(r) \in Formats \cup {None}
         /\ pc[r] = "free" => c.email \in Emails
         /\ pc[r] \in {"save", "publish"} => got[r] \in Mail /\ Pending(r) \in Emails \cup {None}
         /\ Follows(r) => Key(r) \in Keys /\ c.to \in Emails
         /\ pc[r] \in {"fetch", "mark", "apply"} => Follows(r) /\ link[Key(r)] \in Links
         /\ tx[r] # "none" /\ Follows(r) => link[Key(r)] \in Links
  <1>1. Routed(r)
    BY DEF Steps
  <1>2. CASE pc[r] = "idle"
    BY <1>1, <1>2 DEF Routed, Follows, Over
  <1>3. CASE pc[r] # "idle"
    <2>1. call[r] \in Calls /\ call[r] # None
      BY <1>3, CallAt
    <2>2. pc[r] \in {"update", "free", "store", "unstore", "point", "remove"} => call[r].user \in Users
      BY <1>1, <2>1, CallFacts DEF Routed
    <2>3. /\ pc[r] = "store" => call[r].format \in Formats
          /\ pc[r] = "update" => call[r].email \in Emails \cup {None} /\ call[r].flag \in BOOLEAN \cup {None}
          /\ pc[r] = "point" => NewAvatar(r) \in Formats \cup {None}
          /\ pc[r] = "free" => call[r].email \in Emails
      BY <1>1, <2>1, CallFacts DEF Routed, NewAvatar
    <2>4. pc[r] \in {"save", "publish"} => got[r] \in Mail /\ Pending(r) \in Emails \cup {None}
      BY <1>1, <2>1, CallFacts DEF Routed, Pending, TypeOK
    <2>5. Follows(r) => Key(r) \in Keys /\ call[r].to \in Emails
      BY <2>1, CallFacts DEF Follows, Key
    <2>6. pc[r] \in {"fetch", "mark", "apply"} => Follows(r) /\ link[Key(r)] \in Links
      BY <1>1, <2>1, <2>5 DEF Routed, Follows, Kept, TypeOK
    <2>7. tx[r] # "none" /\ Follows(r) => link[Key(r)] \in Links
      BY <1>1, <2>5 DEF Routed, Kept, TypeOK
    <2> QED
      BY <2>1, <2>2, <2>3, <2>4, <2>5, <2>6, <2>7
  <1> QED
    BY <1>2, <1>3

------------------------------------------------------------------------------
(* Types *)

(* A token has a key. *)
LEMMA KeyFacts ==
  ASSUME second \in 0..MaxSecond, NEW u \in Users, NEW kind \in {"verify", "change"}
  PROVE  TokenOf(u, kind) \in Keys
  BY DEF TokenOf, Keys

(* The initial states have their types. *)
LEMMA TypeInit == Init => TypeOK
  <1> SUFFICES ASSUME Init PROVE TypeOK
    OBVIOUS
  <1>1. ProfileTypeOK
    BY HomeAssumption, BoundsAssumption DEF Init, InitProfiles, ProfileTypeOK, Profile
  <1>2. link \in [Keys -> Links \cup {None}]
    BY DEF Init, Links
  <1>3. mail \subseteq Mail
    BY HomeAssumption, BoundsAssumption DEF Init, Mail, Keys
  <1> QED
    BY <1>1, <1>2, <1>3, BoundsAssumption DEF Init, InitProfiles, TypeOK, Over

(* Changed profiles are profiles. *)
LEMMA Shapes ==
  ASSUME NEW p \in Profile
  PROVE  /\ \A f \in Formats \cup {None} : [p EXCEPT !.avatar = f] \in Profile
         /\ [p EXCEPT !.verified = TRUE] \in Profile
         /\ \A e \in Emails, f \in BOOLEAN : [p EXCEPT !.email = e, !.verified = f] \in Profile
  BY DEF Profile

(* What the requests write. *)
LEMMA NewRows ==
  ASSUME TypeOK, Steps, Sent, NEW r \in Requests
  PROVE  /\ pc[r] = "update" /\ row[call[r].user] # None => Patched(call[r].user, call[r]) \in Profile
         /\ pc[r] = "point" /\ row[call[r].user] # None =>
              [row[call[r].user] EXCEPT !.avatar = NewAvatar(r)] \in Profile
         /\ pc[r] = "apply" /\ row[Key(r).user] # None => Proved(r) \in Profile
  <1>1. ASSUME NEW u \in Users, row[u] # None PROVE row[u] \in Profile
    BY <1>1 DEF TypeOK, ProfileTypeOK
  <1>2. ASSUME pc[r] = "update", row[call[r].user] # None PROVE Patched(call[r].user, call[r]) \in Profile
    <2> DEFINE c == call[r]
    <2>1. /\ c.user \in Users /\ c.email \in Emails \cup {None} /\ c.flag \in BOOLEAN \cup {None}
          /\ row[c.user] \in Profile
      BY <1>1, <1>2, Given
    <2>2. row[c.user].email \in Emails /\ row[c.user].verified \in BOOLEAN
      BY <2>1 DEF Profile
    <2>3. Patched(c.user, c) =
            [row[c.user] EXCEPT !.email = IF c.email = None THEN row[c.user].email ELSE c.email,
                                !.verified = IF c.flag = None THEN row[c.user].verified ELSE c.flag]
      BY <2>1 DEF Patched, Profile
    <2>4. PICK e \in Emails : e = IF c.email = None THEN row[c.user].email ELSE c.email
      BY <2>1, <2>2
    <2>5. PICK f \in BOOLEAN : f = IF c.flag = None THEN row[c.user].verified ELSE c.flag
      BY <2>1, <2>2
    <2>6. Patched(c.user, c) = [row[c.user] EXCEPT !.email = e, !.verified = f]
      BY <2>3, <2>4, <2>5, Zenon
    <2>7. [row[c.user] EXCEPT !.email = e, !.verified = f] \in Profile
      BY <2>1 DEF Profile
    <2> QED
      BY <2>6, <2>7
  <1>3. ASSUME pc[r] = "point", row[call[r].user] # None
        PROVE  [row[call[r].user] EXCEPT !.avatar = NewAvatar(r)] \in Profile
    BY <1>1, <1>3, Given, Shapes
  <1>4. ASSUME pc[r] = "apply", row[Key(r).user] # None PROVE Proved(r) \in Profile
    <2>1. Key(r) \in Keys /\ Key(r).user \in Users /\ link[Key(r)] # None
      BY <1>4, Given, AbsentAssumption DEF Keys
    <2>2. row[Key(r).user] \in Profile
      BY <1>1, <1>4, <2>1
    <2>3. call[r].op = "confirm" => link[Key(r)].pending \in Emails
      <3>1. call[r] \in Calls
        BY <1>4, CallAt
      <3>2. call[r].op = "confirm" => Key(r).kind = "change"
        BY <3>1, CallFacts DEF Key
      <3> QED
        BY <2>1, <3>2 DEF Sent, TypeOK, Mail
    <2> QED
      BY <2>2, <2>3, Shapes DEF Proved, Moved, Verified
  <1> QED
    BY <1>2, <1>3, <1>4

(* A write that is saved, or refused, keeps the types of what it changes. *)
LEMMA SaveTypes ==
  ASSUME TypeOK, NEW r \in Requests, NEW u \in Users, NEW p \in Profile, NEW step,
         Save(r, u, p, step)
  PROVE  /\ put' \in [Requests -> Writes \cup {None}]
         /\ tx' \in [Requests -> {"none", "open", "done", "undone"}]
         /\ pc' = [pc EXCEPT ![r] = "failed"] \/ pc' = [pc EXCEPT ![r] = step]
  <1>1. Write(u, p) \in Writes
    BY DEF Write, Writes
  <1> QED
    BY <1>1 DEF Save, Go, TypeOK, ProfileTypeOK

(* Failures are counted up to the bound. *)
LEMMA Loses ==
  ASSUME TypeOK, Lose PROVE lost' \in 0..MaxLost
  BY BoundsAssumption DEF Lose, TypeOK, ProfileTypeOK

(* Every variable keeps its type. *)
LEMMA TypeStep == TypeOK /\ Steps /\ Sent /\ [Next]_vars => TypeOK'
  <1> SUFFICES ASSUME TypeOK, Steps, Sent, [Next]_vars PROVE TypeOK'
    OBVIOUS
  <1> DEFINE AllSteps == Over \cup {"idle", "begin", "update", "store", "unstore", "point", "remove",
                                    "free", "save", "publish", "fetch", "mark", "apply"}
  <1> USE DEF service, profileVars, mailVars
  <1>a. ASSUME NEW r \in Requests, NEW step \in AllSteps, Go(r, step)
        PROVE  pc' \in [Requests -> AllSteps]
    BY <1>a DEF Go, TypeOK
  <1>b. ASSUME NEW r \in Requests, Begins(r, "verify") \/ Begins(r, "confirm") PROVE Key(r) \in Keys
    BY <1>b, CallAt, Given DEF Begins, Follows
  <1>1. ASSUME NEW r \in Requests, ReadForUpdate(r), UNCHANGED mailVars PROVE TypeOK'
    BY <1>1 DEF ReadForUpdate, Begins, Go, TypeOK, ProfileTypeOK, Over
  <1>2. ASSUME NEW r \in Requests, UpdateProfile(r), UNCHANGED mailVars PROVE TypeOK'
    <2> DEFINE u == call[r].user
    <2>1. u \in Users /\ (row[u] # None => Patched(u, call[r]) \in Profile)
      BY <1>2, Given, NewRows DEF UpdateProfile
    <2>2. CASE row[u] = None
      BY <1>2, <2>2 DEF UpdateProfile, Go, TypeOK, ProfileTypeOK, Over
    <2>3. CASE row[u] # None
      <3>1. Save(r, u, Patched(u, call[r]), "answered")
        BY <1>2, <2>3 DEF UpdateProfile
      <3> QED
        BY <1>2, <2>1, <2>3, <3>1, SaveTypes DEF UpdateProfile, TypeOK, ProfileTypeOK, Over
    <2> QED
      BY <2>2, <2>3
  <1>3. ASSUME NEW r \in Requests, ReadForUpload(r), UNCHANGED mailVars PROVE TypeOK'
    BY <1>3 DEF ReadForUpload, Begins, Go, TypeOK, ProfileTypeOK, Over
  <1>4. ASSUME NEW r \in Requests, ReadForReset(r), UNCHANGED mailVars PROVE TypeOK'
    BY <1>4 DEF ReadForReset, Begins, Go, TypeOK, ProfileTypeOK, Over
  <1>5. ASSUME NEW r \in Requests, Store(r), UNCHANGED mailVars PROVE TypeOK'
    <2>1. Stored(r) \in [Users -> SUBSET Formats]
      BY <1>5, Given DEF Store, Stored, TypeOK, ProfileTypeOK
    <2>2. files' \in [Users -> SUBSET Formats] /\ lost' \in 0..MaxLost
      BY <1>5, <2>1, Loses DEF Store, TypeOK, ProfileTypeOK
    <2>3. pc' \in [Requests -> AllSteps]
      BY <1>5, <1>a DEF Store, Over
    <2> QED
      BY <1>5, <2>2, <2>3 DEF Store, TypeOK, ProfileTypeOK
  <1>6. ASSUME NEW r \in Requests, Unstore(r), UNCHANGED mailVars PROVE TypeOK'
    <2> DEFINE u == call[r].user
    <2>1. u \in Users
      BY <1>6, Given DEF Unstore
    <2>2. UNCHANGED files \/ \E f : files' = [files EXCEPT ![u] = @ \ {f}]
      BY <1>6 DEF Unstore, RemoveOne
    <2>3. files' \in [Users -> SUBSET Formats]
      BY <2>1, <2>2 DEF TypeOK, ProfileTypeOK
    <2>4. lost' \in 0..MaxLost
      BY <1>6, Loses DEF Unstore, TypeOK, ProfileTypeOK
    <2>5. pc' \in [Requests -> AllSteps]
      BY <1>6, <1>a DEF Unstore, AfterUnstore, Over
    <2> QED
      BY <1>6, <2>3, <2>4, <2>5 DEF Unstore, TypeOK, ProfileTypeOK
  <1>7. ASSUME NEW r \in Requests, PointAvatar(r), UNCHANGED mailVars PROVE TypeOK'
    <2> DEFINE u == call[r].user
    <2>1. u \in Users /\ (row[u] # None => [row[u] EXCEPT !.avatar = NewAvatar(r)] \in Profile)
      BY <1>7, Given, NewRows DEF PointAvatar
    <2>2. CASE row[u] = None
      BY <1>7, <2>2 DEF PointAvatar, Go, TypeOK, ProfileTypeOK, Over
    <2>3. CASE row[u] # None
      <3>1. Save(r, u, [row[u] EXCEPT !.avatar = NewAvatar(r)], "answered")
        BY <1>7, <2>3 DEF PointAvatar
      <3> QED
        BY <1>7, <2>1, <2>3, <3>1, SaveTypes DEF PointAvatar, TypeOK, ProfileTypeOK, Over
    <2> QED
      BY <2>2, <2>3
  <1>8. ASSUME NEW r \in Requests, ReadForDelete(r), UNCHANGED mailVars PROVE TypeOK'
    BY <1>8 DEF ReadForDelete, Go, TypeOK, ProfileTypeOK, Over
  <1>9. ASSUME NEW r \in Requests, RemoveProfile(r), UNCHANGED mailVars PROVE TypeOK'
    <2>1. Erasure(call[r].user) \in Writes
      BY <1>9, Given DEF RemoveProfile, Erasure, Writes
    <2> QED
      BY <1>9, <2>1 DEF RemoveProfile, Go, TypeOK, ProfileTypeOK, Over
  <1>10. ASSUME NEW r \in Requests, LookUpByEmail(r) PROVE TypeOK'
    <2>1. got' \in [Requests -> Mail \cup {None}]
      <3>1. ASSUME NEW u \in Owner(call[r].email), Make(r, TokenOf(u, "verify"), row[u].email)
            PROVE  got' \in [Requests -> Mail \cup {None}]
        <4>1. u \in Users /\ row[u] \in Profile /\ row[u].email \in Emails
          BY <3>1 DEF Owner, TypeOK, ProfileTypeOK, Profile
        <4>2. TokenOf(u, "verify") \in Keys
          BY <4>1, KeyFacts DEF TypeOK
        <4> QED
          BY <3>1, <4>1, <4>2 DEF Make, Mail, TypeOK
      <3> QED
        BY <1>10, <3>1 DEF LookUpByEmail, TypeOK
    <2>2. pc' \in [Requests -> AllSteps]
      BY <1>10, <1>a DEF LookUpByEmail, Over
    <2> QED
      BY <1>10, <2>1, <2>2 DEF LookUpByEmail, TypeOK, ProfileTypeOK
  <1>11. ASSUME NEW r \in Requests, FetchForChange(r) PROVE TypeOK'
    BY <1>11 DEF FetchForChange, Begins, Go, TypeOK, ProfileTypeOK, Over
  <1>12. ASSUME NEW r \in Requests, CheckFree(r) PROVE TypeOK'
    <2>1. TokenOf(call[r].user, "change") \in Keys /\ call[r].email \in Emails
      BY <1>12, Given, KeyFacts DEF CheckFree, TypeOK
    <2>2. got' \in [Requests -> Mail \cup {None}]
      BY <1>12, <2>1 DEF CheckFree, Make, Mail, TypeOK
    <2>3. pc' \in [Requests -> AllSteps]
      BY <1>12, <1>a DEF CheckFree, Over
    <2> QED
      BY <1>12, <2>2, <2>3 DEF CheckFree, TypeOK, ProfileTypeOK
  <1>13. ASSUME NEW r \in Requests, SaveToken(r) PROVE TypeOK'
    <2>1. got[r].key \in Keys /\ [pending |-> Pending(r), state |-> "open"] \in Links
      BY <1>13, Given DEF SaveToken, Mail, Links
    <2>2. link' \in [Keys -> Links \cup {None}] /\ lost' \in 0..MaxLost
      BY <1>13, <2>1, Loses DEF SaveToken, StoreToken, TypeOK, ProfileTypeOK
    <2> QED
      BY <1>13, <2>2 DEF SaveToken, Go, TypeOK, ProfileTypeOK, Over
  <1>14. ASSUME NEW r \in Requests, Publish(r) PROVE TypeOK'
    <2>1. [to |-> got[r].to, key |-> got[r].key] \in Mail
      BY <1>14, Given DEF Publish, Mail
    <2>2. mail' \subseteq Mail /\ lost' \in 0..MaxLost
      BY <1>14, <2>1, Loses DEF Publish, TypeOK, ProfileTypeOK
    <2> QED
      BY <1>14, <2>2 DEF Publish, Go, TypeOK, ProfileTypeOK, Over
  <1>15. ASSUME NEW r \in Requests, CheckVerification(r) PROVE TypeOK'
    BY <1>15, <1>b DEF CheckVerification, Check, Expired, Go, TypeOK, ProfileTypeOK, Over
  <1>16. ASSUME NEW r \in Requests, CheckEmailChange(r) PROVE TypeOK'
    BY <1>16, <1>b DEF CheckEmailChange, Check, Expired, Go, TypeOK, ProfileTypeOK, Over
  <1>17. ASSUME NEW r \in Requests, FetchOld(r) PROVE TypeOK'
    BY <1>17 DEF FetchOld, Go, TypeOK, ProfileTypeOK, Over
  <1>18. ASSUME NEW r \in Requests, MarkLink(r) PROVE TypeOK'
    BY <1>18 DEF MarkLink, Go, TypeOK, ProfileTypeOK, Over
  <1>19. ASSUME NEW r \in Requests, ApplyLink(r) PROVE TypeOK'
    <2> DEFINE u == Key(r).user
    <2>1. u \in Users
      BY <1>19, Given DEF ApplyLink, Keys
    <2>2. \/ row[u] # None /\ Save(r, u, Proved(r), "answered")
          \/ /\ tx' = [tx EXCEPT ![r] = "undone"] /\ UNCHANGED put
             /\ Go(r, "failed") \/ Go(r, "answered")
      BY <1>19 DEF ApplyLink
    <2>3. row[u] # None => Proved(r) \in Profile
      BY <1>19, NewRows DEF ApplyLink
    <2>4. /\ put' \in [Requests -> Writes \cup {None}]
          /\ tx' \in [Requests -> {"none", "open", "done", "undone"}]
          /\ pc' = [pc EXCEPT ![r] = "failed"] \/ pc' = [pc EXCEPT ![r] = "answered"]
      BY <2>1, <2>2, <2>3, SaveTypes DEF Go, TypeOK, ProfileTypeOK
    <2> QED
      BY <1>19, <2>4 DEF ApplyLink, TypeOK, ProfileTypeOK, Over
  <1>20. ASSUME NEW r \in Requests, SettleRequest(r) PROVE TypeOK'
    <2>1. put[r] # None => put[r].user \in Users /\ (~put[r].gone => put[r].profile \in Profile)
      BY DEF TypeOK, ProfileTypeOK, Writes
    <2>2. Applied(r) \in [Users -> Profile \cup {None}]
      BY <2>1 DEF Applied, TypeOK, ProfileTypeOK
    <2>3. /\ row' \in [Users -> Profile \cup {None}] /\ lost' \in 0..MaxLost
          /\ tx' \in [Requests -> {"none", "open", "done", "undone"}]
          /\ put' \in [Requests -> Writes \cup {None}]
      BY <1>20, <2>2, Loses
      DEF SettleRequest, Settle, CommitProfile, RollBackProfile, Unlock, TypeOK, ProfileTypeOK
    <2>4. Follows(r) => /\ Key(r) \in Keys /\ Key(r).user \in Users /\ call[r].to \in Emails
                        /\ link[Key(r)] \in Links
      BY <1>20, Given DEF SettleRequest, Settle, Settleable, Keys
    <2>5. Follows(r) => Marks(r) \in [Keys -> Links \cup {None}]
      BY <2>4 DEF Marks, Links, TypeOK
    <2>6. link' \in [Keys -> Links \cup {None}] /\ proven' \subseteq Users \X Emails
      BY <1>20, <2>4, <2>5 DEF SettleRequest, TypeOK
    <2> QED
      BY <1>20, <2>3, <2>6 DEF SettleRequest, Settle, TypeOK, ProfileTypeOK
  <1>21. ASSUME NEW r \in Requests, BreakOff(r), UNCHANGED mailVars PROVE TypeOK'
    BY <1>21, Loses DEF BreakOff, Go, TypeOK, ProfileTypeOK, Over
  <1>22. ASSUME NEW r \in Requests, AbandonLink(r) PROVE TypeOK'
    BY <1>22, Loses DEF AbandonLink, Go, TypeOK, ProfileTypeOK, Over
  <1>23. ASSUME NEW r \in Requests, LoseAnswer(r) PROVE TypeOK'
    BY <1>23, Loses DEF LoseAnswer, Go, TypeOK, ProfileTypeOK, Over
  <1>24. ASSUME NEW r \in Requests, NEW c \in plan[r], ReceiveCall(r, c) PROVE TypeOK'
    <2>1. c \in Calls
      BY Planned DEF Steps
    <2>2. met' \in [Requests -> SUBSET Requests]
      BY <1>24 DEF ReceiveCall, Receive, TypeOK, ProfileTypeOK
    <2>3. pc' \in [Requests -> AllSteps]
      BY <1>24, <1>a DEF ReceiveCall, Receive
    <2> QED
      BY <1>24, <2>1, <2>2, <2>3 DEF ReceiveCall, Receive, TypeOK, ProfileTypeOK
  <1>25. ASSUME NEW k \in Keys, SettleToken(k) PROVE TypeOK'
    <2>1. link[k] \in Links
      BY <1>25 DEF SettleToken, TypeOK
    <2>2. [link[k] EXCEPT !.state = "unused"] \in Links
      BY <2>1 DEF Links
    <2>3. link' \in [Keys -> Links \cup {None}] /\ lost' \in 0..MaxLost
      BY <1>25, <2>2, Loses DEF SettleToken, TypeOK, ProfileTypeOK
    <2> QED
      BY <1>25, <2>3 DEF SettleToken, TypeOK, ProfileTypeOK
  <1>26. ASSUME Tick PROVE TypeOK'
    BY <1>26, BoundsAssumption DEF Tick, TypeOK, ProfileTypeOK
  <1>27. CASE UNCHANGED vars
    BY <1>27 DEF vars, TypeOK, ProfileTypeOK
  <1> QED
    BY <1>1, <1>2, <1>3, <1>4, <1>5, <1>6, <1>7, <1>8, <1>9, <1>10, <1>11, <1>12, <1>13,
       <1>14, <1>15, <1>16, <1>17, <1>18, <1>19, <1>20, <1>21, <1>22, <1>23, <1>24, <1>25,
       <1>26, <1>27
    DEF Next, Proceed, Fails, ProfileStep, FlowStep

------------------------------------------------------------------------------
(* What every step keeps *)

Grown ==
  /\ \A q \in Requests : call[q] # None => call'[q] = call[q]
  /\ \A q \in Requests : tx[q] = "done" => tx'[q] = "done"
  /\ \A q \in Requests : got[q] # None => got'[q] = got[q]
  /\ \A q \in Requests : met[q] \subseteq met'[q]
  /\ mail \subseteq mail' /\ proven \subseteq proven'
  /\ \A k \in Keys : Kept(k) => Kept(k)' /\ link'[k].pending = link[k].pending
  /\ \A k \in Keys : link[k] # None /\ link[k].state = "used" =>
       link'[k] # None /\ link'[k].state = "used"
  /\ lost' = 0 => lost = 0

(* Histories, mail and used links grow, and what was done stays done. *)
LEMMA Growth ==
  ASSUME TypeOK, Steps, Overlaps, [Next]_vars PROVE Grown
  <1>r. ASSUME NEW r \in Requests
        PROVE  /\ pc[r] \notin Over \cup {"apply"} => tx[r] = "none"
               /\ pc[r] \in {"begin", "free"} => got[r] = None
               /\ pc[r] = "apply" => tx[r] = "open"
               /\ pc[r] = "idle" => call[r] = None
    BY DEF Steps, Routed, Over
  <1>t. /\ tx \in [Requests -> {"none", "open", "done", "undone"}] /\ lost \in Nat
        /\ got \in [Requests -> Mail \cup {None}] /\ link \in [Keys -> Links \cup {None}]
        /\ call \in [Requests -> Calls \cup {None}] /\ met \in [Requests -> SUBSET Requests]
    BY BoundsAssumption DEF TypeOK, ProfileTypeOK
  <1> USE DEF Go, Lose, service, profileVars, mailVars
  <1>1. ASSUME NEW r \in Requests, ReadForUpdate(r), UNCHANGED mailVars PROVE Grown
    BY <1>1, <1>r, <1>t DEF ReadForUpdate, Begins, Grown, Kept, Over
  <1>2. ASSUME NEW r \in Requests, UpdateProfile(r), UNCHANGED mailVars PROVE Grown
    BY <1>2, <1>r, <1>t DEF UpdateProfile, Save, Grown, Kept, Over
  <1>3. ASSUME NEW r \in Requests, ReadForUpload(r), UNCHANGED mailVars PROVE Grown
    BY <1>3, <1>r, <1>t DEF ReadForUpload, Begins, Grown, Kept, Over
  <1>4. ASSUME NEW r \in Requests, ReadForReset(r), UNCHANGED mailVars PROVE Grown
    BY <1>4, <1>r, <1>t DEF ReadForReset, Begins, Grown, Kept, Over
  <1>5. ASSUME NEW r \in Requests, Store(r), UNCHANGED mailVars PROVE Grown
    BY <1>5, <1>r, <1>t DEF Store, Grown, Kept, Over
  <1>6. ASSUME NEW r \in Requests, Unstore(r), UNCHANGED mailVars PROVE Grown
    BY <1>6, <1>r, <1>t DEF Unstore, RemoveOne, Grown, Kept, Over
  <1>7. ASSUME NEW r \in Requests, PointAvatar(r), UNCHANGED mailVars PROVE Grown
    BY <1>7, <1>r, <1>t DEF PointAvatar, Save, Grown, Kept, Over
  <1>8. ASSUME NEW r \in Requests, ReadForDelete(r), UNCHANGED mailVars PROVE Grown
    BY <1>8, <1>r, <1>t DEF ReadForDelete, Begins, Grown, Kept, Over
  <1>9. ASSUME NEW r \in Requests, RemoveProfile(r), UNCHANGED mailVars PROVE Grown
    BY <1>9, <1>r, <1>t DEF RemoveProfile, Grown, Kept, Over
  <1>10. ASSUME NEW r \in Requests, LookUpByEmail(r) PROVE Grown
    BY <1>10, <1>r, <1>t DEF LookUpByEmail, Begins, Make, Grown, Kept, Over
  <1>11. ASSUME NEW r \in Requests, FetchForChange(r) PROVE Grown
    BY <1>11, <1>r, <1>t DEF FetchForChange, Begins, Grown, Kept, Over
  <1>12. ASSUME NEW r \in Requests, CheckFree(r) PROVE Grown
    BY <1>12, <1>r, <1>t DEF CheckFree, Make, Grown, Kept, Over
  <1>13. ASSUME NEW r \in Requests, SaveToken(r) PROVE Grown
    BY <1>13, <1>r, <1>t DEF SaveToken, StoreToken, Grown, Kept, Over
  <1>14. ASSUME NEW r \in Requests, Publish(r) PROVE Grown
    BY <1>14, <1>r, <1>t DEF Publish, Grown, Kept, Over
  <1>15. ASSUME NEW r \in Requests, CheckVerification(r) PROVE Grown
    BY <1>15, <1>r, <1>t DEF CheckVerification, Begins, Check, Expired, Grown, Kept, Over
  <1>16. ASSUME NEW r \in Requests, CheckEmailChange(r) PROVE Grown
    BY <1>16, <1>r, <1>t DEF CheckEmailChange, Begins, Check, Expired, Grown, Kept, Over
  <1>17. ASSUME NEW r \in Requests, FetchOld(r) PROVE Grown
    BY <1>17, <1>r, <1>t DEF FetchOld, Grown, Kept, Over
  <1>18. ASSUME NEW r \in Requests, MarkLink(r) PROVE Grown
    BY <1>18, <1>r, <1>t DEF MarkLink, Grown, Kept, Over
  <1>19. ASSUME NEW r \in Requests, ApplyLink(r) PROVE Grown
    BY <1>19, <1>r, <1>t DEF ApplyLink, Save, Grown, Kept, Over
  <1>20. ASSUME NEW r \in Requests, SettleRequest(r) PROVE Grown
    <2>1. Follows(r) => Key(r) \in Keys /\ link[Key(r)] \in Links
      BY <1>20, Given DEF SettleRequest, Settle, Settleable
    <2>2. link' = link \/ (Follows(r) /\ link' = [link EXCEPT ![Key(r)].state = "used"])
      BY <1>20 DEF SettleRequest, Marks
    <2>3. ASSUME NEW k \in Keys, Kept(k) PROVE Kept(k)' /\ link'[k].pending = link[k].pending
      <3>1. link[k] \in Links
        BY <1>t, <2>3 DEF Kept
      <3>2. CASE link' = link
        BY <2>3, <3>2 DEF Kept
      <3>3. CASE Follows(r) /\ link' = [link EXCEPT ![Key(r)].state = "used"]
        <4>1. link'[k] = link[k] \/ link'[k] = [link[k] EXCEPT !.state = "used"]
          BY <1>t, <2>1, <3>3
        <4> QED
          BY <2>3, <3>1, <4>1, AbsentAssumption DEF Kept, Links
      <3> QED
        BY <2>2, <3>2, <3>3
    <2>4. \A k \in Keys : link[k] # None /\ link[k].state = "used" =>
            link'[k] # None /\ link'[k].state = "used"
      BY <1>t, <2>1, <2>2 DEF Links
    <2>5. /\ \A q \in Requests : tx[q] = "done" => tx'[q] = "done"
          /\ UNCHANGED <<call, got, met, mail>> /\ proven \subseteq proven' /\ (lost' = 0 => lost = 0)
      BY <1>20, <1>t
      DEF SettleRequest, Settle, Settleable, CommitProfile, RollBackProfile
    <2> QED
      BY <2>3, <2>4, <2>5 DEF Grown
  <1>21. ASSUME NEW r \in Requests, BreakOff(r), UNCHANGED mailVars PROVE Grown
    BY <1>21, <1>r, <1>t DEF BreakOff, Grown, Kept, Over
  <1>22. ASSUME NEW r \in Requests, AbandonLink(r) PROVE Grown
    BY <1>22, <1>r, <1>t DEF AbandonLink, Grown, Kept, Over
  <1>23. ASSUME NEW r \in Requests, LoseAnswer(r) PROVE Grown
    BY <1>23, <1>r, <1>t DEF LoseAnswer, Grown, Kept, Over
  <1>24. ASSUME NEW r \in Requests, NEW c \in plan[r], ReceiveCall(r, c) PROVE Grown
    <2>1. \A q \in Requests : met[q] \subseteq met'[q] \/ q = r
      BY <1>24, <1>t DEF ReceiveCall, Receive
    <2>2. met[r] = {}
      BY <1>24, <1>r, <1>t DEF ReceiveCall, Receive, Overlaps
    <2> QED
      BY <1>24, <1>r, <1>t, <2>1, <2>2 DEF ReceiveCall, Receive, Grown, Kept
  <1>25. ASSUME NEW k \in Keys, SettleToken(k) PROVE Grown
    BY <1>25, <1>r, <1>t DEF SettleToken, Grown, Kept, Over
  <1>26. ASSUME Tick PROVE Grown
    BY <1>26, <1>r, <1>t DEF Tick, Grown, Kept, Over
  <1>27. ASSUME UNCHANGED vars PROVE Grown
    BY <1>27, <1>r, <1>t DEF vars, Grown, Kept, Over
  <1> QED
    BY <1>1, <1>2, <1>3, <1>4, <1>5, <1>6, <1>7, <1>8, <1>9, <1>10, <1>11, <1>12, <1>13,
       <1>14, <1>15, <1>16, <1>17, <1>18, <1>19, <1>20, <1>21, <1>22, <1>23, <1>24, <1>25,
       <1>26, <1>27
    DEF Next, Proceed, Fails, ProfileStep, FlowStep

(* The other requests are where they were. *)
Others(r) ==
  \A q \in Requests \ {r} :
    pc'[q] = pc[q] /\ tx'[q] = tx[q] /\ put'[q] = put[q] /\ got'[q] = got[q] /\ call'[q] = call[q]

(* A step that request r takes. *)
RequestStep(r) == (\E c \in plan[r] : ReceiveCall(r, c)) \/ Proceed(r) \/ Fails(r)

(* It leaves the others where they are. *)
LEMMA Frame ==
  ASSUME TypeOK, NEW r \in Requests, RequestStep(r) PROVE Others(r)
  <1>t. /\ tx \in [Requests -> {"none", "open", "done", "undone"}]
        /\ pc \in [Requests -> Over \cup {"idle", "begin", "update", "store", "unstore", "point",
             "remove", "free", "save", "publish", "fetch", "mark", "apply"}]
        /\ got \in [Requests -> Mail \cup {None}] /\ call \in [Requests -> Calls \cup {None}]
        /\ put \in [Requests -> Writes \cup {None}]
    BY DEF TypeOK, ProfileTypeOK
  <1> USE DEF Go, Lose, service, profileVars, mailVars
  <1>1. ASSUME ReadForUpdate(r), UNCHANGED mailVars PROVE Others(r)
    BY <1>1, <1>t DEF ReadForUpdate, Begins, Others
  <1>2. ASSUME UpdateProfile(r), UNCHANGED mailVars PROVE Others(r)
    BY <1>2, <1>t DEF UpdateProfile, Save, Others
  <1>3. ASSUME ReadForUpload(r), UNCHANGED mailVars PROVE Others(r)
    BY <1>3, <1>t DEF ReadForUpload, Begins, Others
  <1>4. ASSUME ReadForReset(r), UNCHANGED mailVars PROVE Others(r)
    BY <1>4, <1>t DEF ReadForReset, Begins, Others
  <1>5. ASSUME Store(r), UNCHANGED mailVars PROVE Others(r)
    BY <1>5, <1>t DEF Store, Others
  <1>6. ASSUME Unstore(r), UNCHANGED mailVars PROVE Others(r)
    BY <1>6, <1>t DEF Unstore, RemoveOne, Others
  <1>7. ASSUME PointAvatar(r), UNCHANGED mailVars PROVE Others(r)
    BY <1>7, <1>t DEF PointAvatar, Save, Others
  <1>8. ASSUME ReadForDelete(r), UNCHANGED mailVars PROVE Others(r)
    BY <1>8, <1>t DEF ReadForDelete, Begins, Others
  <1>9. ASSUME RemoveProfile(r), UNCHANGED mailVars PROVE Others(r)
    BY <1>9, <1>t DEF RemoveProfile, Others
  <1>10. ASSUME LookUpByEmail(r) PROVE Others(r)
    BY <1>10, <1>t DEF LookUpByEmail, Begins, Make, Others
  <1>11. ASSUME FetchForChange(r) PROVE Others(r)
    BY <1>11, <1>t DEF FetchForChange, Begins, Others
  <1>12. ASSUME CheckFree(r) PROVE Others(r)
    BY <1>12, <1>t DEF CheckFree, Make, Others
  <1>13. ASSUME SaveToken(r) PROVE Others(r)
    BY <1>13, <1>t DEF SaveToken, StoreToken, Others
  <1>14. ASSUME Publish(r) PROVE Others(r)
    BY <1>14, <1>t DEF Publish, Others
  <1>15. ASSUME CheckVerification(r) PROVE Others(r)
    BY <1>15, <1>t DEF CheckVerification, Begins, Check, Expired, Others
  <1>16. ASSUME CheckEmailChange(r) PROVE Others(r)
    BY <1>16, <1>t DEF CheckEmailChange, Begins, Check, Expired, Others
  <1>17. ASSUME FetchOld(r) PROVE Others(r)
    BY <1>17, <1>t DEF FetchOld, Others
  <1>18. ASSUME MarkLink(r) PROVE Others(r)
    BY <1>18, <1>t DEF MarkLink, Others
  <1>19. ASSUME ApplyLink(r) PROVE Others(r)
    BY <1>19, <1>t DEF ApplyLink, Save, Others
  <1>20. ASSUME SettleRequest(r) PROVE Others(r)
    BY <1>20, <1>t DEF SettleRequest, Settle, CommitProfile, RollBackProfile, Unlock, Others
  <1>21. ASSUME BreakOff(r), UNCHANGED mailVars PROVE Others(r)
    BY <1>21, <1>t DEF BreakOff, Others
  <1>22. ASSUME AbandonLink(r) PROVE Others(r)
    BY <1>22, <1>t DEF AbandonLink, Others
  <1>23. ASSUME LoseAnswer(r) PROVE Others(r)
    BY <1>23, <1>t DEF LoseAnswer, Others
  <1>24. ASSUME NEW c \in plan[r], ReceiveCall(r, c) PROVE Others(r)
    BY <1>24, <1>t DEF ReceiveCall, Receive, Others
  <1> QED
    BY <1>1, <1>2, <1>3, <1>4, <1>5, <1>6, <1>7, <1>8, <1>9, <1>10, <1>11, <1>12, <1>13,
       <1>14, <1>15, <1>16, <1>17, <1>18, <1>19, <1>20, <1>21, <1>22, <1>23, <1>24
    DEF RequestStep, Proceed, Fails, ProfileStep, FlowStep

------------------------------------------------------------------------------
(* Requests that meet *)

(* A request that takes a step is in progress, and so is nobody new. *)
LEMMA InProgress ==
  ASSUME TypeOK, Steps, NEW r \in Requests, Proceed(r) \/ Fails(r)
  PROVE  Active(r) /\ UNCHANGED <<plan, call, met>>
  <1>r. pc[r] \notin Over \cup {"idle"} => call[r] # None
    BY DEF Steps, Routed
  <1> DEFINE Goal == Active(r) /\ UNCHANGED <<plan, call, met>>
  <1> USE DEF service, profileVars, mailVars
  <1>1. ASSUME ReadForUpdate(r), UNCHANGED mailVars PROVE Goal
    BY <1>1, <1>r DEF ReadForUpdate, Begins, Active, Over
  <1>2. ASSUME UpdateProfile(r), UNCHANGED mailVars PROVE Goal
    BY <1>2, <1>r DEF UpdateProfile, Save, Active, Over
  <1>3. ASSUME ReadForUpload(r), UNCHANGED mailVars PROVE Goal
    BY <1>3, <1>r DEF ReadForUpload, Begins, Active, Over
  <1>4. ASSUME ReadForReset(r), UNCHANGED mailVars PROVE Goal
    BY <1>4, <1>r DEF ReadForReset, Begins, Active, Over
  <1>5. ASSUME Store(r), UNCHANGED mailVars PROVE Goal
    BY <1>5, <1>r DEF Store, Active, Over
  <1>6. ASSUME Unstore(r), UNCHANGED mailVars PROVE Goal
    BY <1>6, <1>r DEF Unstore, RemoveOne, Active, Over
  <1>7. ASSUME PointAvatar(r), UNCHANGED mailVars PROVE Goal
    BY <1>7, <1>r DEF PointAvatar, Save, Active, Over
  <1>8. ASSUME ReadForDelete(r), UNCHANGED mailVars PROVE Goal
    BY <1>8, <1>r DEF ReadForDelete, Begins, Active, Over
  <1>9. ASSUME RemoveProfile(r), UNCHANGED mailVars PROVE Goal
    BY <1>9, <1>r DEF RemoveProfile, Active, Over
  <1>10. ASSUME LookUpByEmail(r) PROVE Goal
    BY <1>10, <1>r DEF LookUpByEmail, Begins, Make, Active, Over
  <1>11. ASSUME FetchForChange(r) PROVE Goal
    BY <1>11, <1>r DEF FetchForChange, Begins, Active, Over
  <1>12. ASSUME CheckFree(r) PROVE Goal
    BY <1>12, <1>r DEF CheckFree, Make, Active, Over
  <1>13. ASSUME SaveToken(r) PROVE Goal
    BY <1>13, <1>r DEF SaveToken, StoreToken, Active, Over
  <1>14. ASSUME Publish(r) PROVE Goal
    BY <1>14, <1>r DEF Publish, Active, Over
  <1>15. ASSUME CheckVerification(r) PROVE Goal
    BY <1>15, <1>r DEF CheckVerification, Begins, Check, Expired, Active, Over
  <1>16. ASSUME CheckEmailChange(r) PROVE Goal
    BY <1>16, <1>r DEF CheckEmailChange, Begins, Check, Expired, Active, Over
  <1>17. ASSUME FetchOld(r) PROVE Goal
    BY <1>17, <1>r DEF FetchOld, Active, Over
  <1>18. ASSUME MarkLink(r) PROVE Goal
    BY <1>18, <1>r DEF MarkLink, Active, Over
  <1>19. ASSUME ApplyLink(r) PROVE Goal
    BY <1>19, <1>r DEF ApplyLink, Save, Active, Over
  <1>20. ASSUME SettleRequest(r) PROVE Goal
    BY <1>20, <1>r DEF SettleRequest, Settle, CommitProfile, RollBackProfile, Settleable, Active, Over
  <1>21. ASSUME BreakOff(r), UNCHANGED mailVars PROVE Goal
    BY <1>21, <1>r DEF BreakOff, Active, Over
  <1>22. ASSUME AbandonLink(r) PROVE Goal
    BY <1>22, <1>r DEF AbandonLink, Active, Over
  <1>23. ASSUME LoseAnswer(r) PROVE Goal
    BY <1>23, <1>r DEF LoseAnswer, Active, Over
  <1> QED
    BY <1>1, <1>2, <1>3, <1>4, <1>5, <1>6, <1>7, <1>8, <1>9, <1>10, <1>11, <1>12, <1>13,
       <1>14, <1>15, <1>16, <1>17, <1>18, <1>19, <1>20, <1>21, <1>22, <1>23
    DEF Proceed, Fails, ProfileStep, FlowStep

(* Whoever is in progress together has met. *)
LEMMA OverlapsStep ==
  ASSUME TypeOK, Steps, Overlaps, [Next]_vars PROVE Overlaps'
  <1>1. ASSUME NEW r \in Requests, Proceed(r) \/ Fails(r) PROVE Overlaps'
    <2>1. Active(r) /\ UNCHANGED <<call, met>>
      BY <1>1, InProgress
    <2>2. \A q \in Requests : Active(q)' => Active(q)
      BY <1>1, <2>1, Frame DEF RequestStep, Others, Active
    <2> QED
      BY <2>1, <2>2 DEF Overlaps
  <1>2. ASSUME NEW r \in Requests, NEW c \in plan[r], ReceiveCall(r, c) PROVE Overlaps'
    <2> DEFINE others == {q \in Requests : Active(q)}
    <2>1. /\ \A q \in Requests : met'[q] = IF q = r THEN others
                                           ELSE IF q \in others THEN met[q] \cup {r} ELSE met[q]
          /\ tx' = tx
      BY <1>2 DEF ReceiveCall, Receive, service
    <2>2. call[r] = None /\ ~Active(r) /\ c # None
      BY <1>2, Planned, CallFacts DEF ReceiveCall, Receive, Steps, Routed, Active, Over
    <2>3. call' = [call EXCEPT ![r] = c] /\ pc' = [pc EXCEPT ![r] = "begin"]
      BY <1>2 DEF ReceiveCall, Receive, Go
    <2>4. call'[r] # None /\ \A q \in Requests \ {r} : call'[q] = call[q] /\ (Active(q)' <=> Active(q))
      BY <2>1, <2>2, <2>3 DEF Active, TypeOK
    <2>5. \A q \in Requests : r \notin met[q] /\ q \notin met[r]
      BY <2>2 DEF Overlaps
    <2>6. \A q \in others : q # r
      BY <2>2
    <2>7. \A q \in others : call[q] # None
      BY DEF Active, Steps, Routed, Over
    <2>8. ASSUME NEW p \in Requests, NEW q \in Requests, q \in met'[p]
          PROVE  p # q /\ p \in met'[q] /\ call'[p] # None
      <3>1. CASE p = r
        BY <2>1, <2>4, <2>6, <2>8, <3>1
      <3>2. CASE p # r /\ q = r
        BY <2>1, <2>4, <2>5, <2>7, <2>8, <3>2
      <3>3. CASE p # r /\ q # r
        <4>1. q \in met[p]
          BY <2>1, <2>8, <3>3
        <4>2. p # q /\ p \in met[q] /\ call[p] # None
          BY <4>1 DEF Overlaps
        <4>3. p \in met'[q]
          BY <2>1, <3>3, <4>2
        <4> QED
          BY <2>4, <3>3, <4>2, <4>3
      <3> QED
        BY <3>1, <3>2, <3>3
    <2>9. ASSUME NEW p \in Requests, NEW q \in Requests, p # q, Active(p)', Active(q)'
          PROVE  q \in met'[p]
      <3>1. CASE p = r
        BY <2>1, <2>4, <2>9, <3>1
      <3>2. CASE p # r /\ q = r
        BY <2>1, <2>4, <2>9, <3>2
      <3>3. CASE p # r /\ q # r
        BY <2>1, <2>4, <2>9, <3>3 DEF Overlaps
      <3> QED
        BY <3>1, <3>2, <3>3
    <2> HIDE DEF others
    <2> QED
      BY <2>8, <2>9 DEF Overlaps
  <1>3. ASSUME (\E k \in Keys : SettleToken(k)) \/ Tick \/ UNCHANGED vars PROVE Overlaps'
    <2>1. UNCHANGED <<call, met, pc, tx>>
      BY <1>3 DEF SettleToken, Tick, vars, profileVars, service
    <2> QED
      BY <2>1 DEF Overlaps, Active
  <1> QED
    BY <1>1, <1>2, <1>3 DEF Next

------------------------------------------------------------------------------
(* Row locks *)

(* What each step writes. *)
Wanted(r, w) ==
  \/ pc[r] = "update" /\ w = Write(call[r].user, Patched(call[r].user, call[r]))
  \/ pc[r] = "point" /\ w = Write(call[r].user, [row[call[r].user] EXCEPT !.avatar = NewAvatar(r)])
  \/ pc[r] = "remove" /\ w = Erasure(call[r].user)
  \/ pc[r] = "apply" /\ w = Write(Key(r).user, Proved(r))

(* A step that writes w. *)
Puts(r, w) ==
  /\ Wanted(r, w) /\ w \in Writes /\ w.user = Target(r)
  /\ row[w.user] # None /\ ~Locked(r, w.user)
  /\ put' = [put EXCEPT ![r] = w] /\ tx' = [tx EXCEPT ![r] = "open"] /\ Go(r, "answered")
  /\ UNCHANGED <<row, files, call, met, lost, link, got, mail, proven>>

(* An UPDATE that is carried out. *)
LEMMA SaveEffect ==
  ASSUME NEW r, NEW u, NEW p, Save(r, u, p, "answered")
  PROVE  \/ UNCHANGED <<put, tx>> /\ Go(r, "failed") /\ p.email # row[u].email
         \/ /\ ~Locked(r, u) /\ put' = [put EXCEPT ![r] = Write(u, p)]
            /\ tx' = [tx EXCEPT ![r] = "open"] /\ Go(r, "answered")
  BY DEF Save, Waits

(* What a step does to the rows and the writes: nothing, a write of a row   *)
(* that is not locked, or the end of one.                                   *)
LEMMA Writing ==
  ASSUME TypeOK, Steps, Sent, NEW r \in Requests, RequestStep(r)
  PROVE  \/ /\ UNCHANGED <<put, row, proven>>
            /\ tx'[r] = "open" => tx[r] = "open" \/ pc'[r] = "apply"
            /\ tx'[r] = "done" => tx[r] = "done"
         \/ \E w \in Writes : Puts(r, w)
         \/ SettleRequest(r)
  <1> DEFINE Plain == /\ UNCHANGED <<put, row, proven>>
                      /\ tx'[r] = "open" => tx[r] = "open" \/ pc'[r] = "apply"
                      /\ tx'[r] = "done" => tx[r] = "done"
             Goal == Plain \/ (\E w \in Writes : Puts(r, w)) \/ SettleRequest(r)
  <1>t. /\ tx \in [Requests -> {"none", "open", "done", "undone"}]
        /\ pc \in [Requests -> Over \cup {"idle", "begin", "update", "store", "unstore", "point",
             "remove", "free", "save", "publish", "fetch", "mark", "apply"}]
    BY DEF TypeOK, ProfileTypeOK
  <1>r. Routed(r)
    BY DEF Steps
  <1>w. ASSUME NEW u \in Users, NEW p \in Profile PROVE Write(u, p) \in Writes /\ Write(u, p).user = u
    BY DEF Write, Writes
  <1>2. ASSUME UpdateProfile(r), UNCHANGED mailVars PROVE Goal
    <2> DEFINE u == call[r].user  p == Patched(u, call[r])
    <2>1. pc[r] = "update" /\ u \in Users /\ Target(r) = u
      BY <1>2, <1>r, Given DEF UpdateProfile, Routed, Target, Follows
    <2>2. UNCHANGED <<put, tx, row, proven>> \/ (row[u] # None /\ Save(r, u, p, "answered"))
      <3>1. row[u] = None => UNCHANGED <<put, tx>>
        BY <1>2 DEF UpdateProfile
      <3>2. row[u] # None => Save(r, u, p, "answered")
        BY <1>2 DEF UpdateProfile
      <3>3. UNCHANGED <<row, proven>>
        BY <1>2 DEF UpdateProfile, mailVars
      <3> QED
        BY <3>1, <3>2, <3>3
    <2>3. ASSUME row[u] # None, Save(r, u, p, "answered") PROVE Goal
      <3>1. Write(u, p) \in Writes /\ Write(u, p).user = u
        BY <2>1, <2>3, <1>w, NewRows
      <3>2. CASE UNCHANGED <<put, tx>>
        BY <1>2, <3>2 DEF UpdateProfile, mailVars
      <3>3. CASE ~UNCHANGED <<put, tx>>
        <4>1. /\ ~Locked(r, u) /\ put' = [put EXCEPT ![r] = Write(u, p)]
              /\ tx' = [tx EXCEPT ![r] = "open"] /\ Go(r, "answered")
          BY <2>3, <3>3, SaveEffect
        <4>2. Wanted(r, Write(u, p))
          BY <2>1 DEF Wanted
        <4>3. UNCHANGED <<row, files, call, met, lost, link, got, mail, proven>>
          BY <1>2 DEF UpdateProfile, mailVars
        <4> HIDE DEF p
        <4> QED
          BY <2>1, <2>3, <3>1, <4>1, <4>2, <4>3 DEF Puts
      <3> QED
        BY <3>2, <3>3
    <2> QED
      BY <2>2, <2>3
  <1>7. ASSUME PointAvatar(r), UNCHANGED mailVars PROVE Goal
    <2> DEFINE u == call[r].user  p == [row[u] EXCEPT !.avatar = NewAvatar(r)]
    <2>1. pc[r] = "point" /\ u \in Users /\ Target(r) = u
      BY <1>7, <1>r, Given DEF PointAvatar, Routed, Target, Follows
    <2>2. UNCHANGED <<put, tx, row, proven>> \/ (row[u] # None /\ Save(r, u, p, "answered"))
      <3>1. row[u] = None => UNCHANGED <<put, tx>>
        BY <1>7 DEF PointAvatar
      <3>2. row[u] # None => Save(r, u, p, "answered")
        BY <1>7 DEF PointAvatar
      <3>3. UNCHANGED <<row, proven>>
        BY <1>7 DEF PointAvatar, mailVars
      <3> QED
        BY <3>1, <3>2, <3>3
    <2>3. ASSUME row[u] # None, Save(r, u, p, "answered") PROVE Goal
      <3>1. Write(u, p) \in Writes /\ Write(u, p).user = u
        BY <2>1, <2>3, <1>w, NewRows
      <3>2. CASE UNCHANGED <<put, tx>>
        BY <1>7, <3>2 DEF PointAvatar, mailVars
      <3>3. CASE ~UNCHANGED <<put, tx>>
        <4>1. /\ ~Locked(r, u) /\ put' = [put EXCEPT ![r] = Write(u, p)]
              /\ tx' = [tx EXCEPT ![r] = "open"] /\ Go(r, "answered")
          BY <2>3, <3>3, SaveEffect
        <4>2. Wanted(r, Write(u, p))
          BY <2>1 DEF Wanted
        <4>3. UNCHANGED <<row, files, call, met, lost, link, got, mail, proven>>
          BY <1>7 DEF PointAvatar, mailVars
        <4> HIDE DEF p
        <4> QED
          BY <2>1, <2>3, <3>1, <4>1, <4>2, <4>3 DEF Puts
      <3> QED
        BY <3>2, <3>3
    <2> QED
      BY <2>2, <2>3
  <1>9. ASSUME RemoveProfile(r), UNCHANGED mailVars PROVE Goal
    <2> DEFINE u == call[r].user
    <2>1. pc[r] = "remove" /\ u \in Users /\ Target(r) = u
      BY <1>9, <1>r, Given DEF RemoveProfile, Routed, Target, Follows
    <2>2. Erasure(u) \in Writes /\ Erasure(u).user = u
      BY <2>1 DEF Erasure, Writes
    <2>3. CASE row[u] = None
      BY <1>9, <2>3 DEF RemoveProfile, mailVars
    <2>4. CASE row[u] # None
      <3>1. /\ ~Locked(r, u) /\ put' = [put EXCEPT ![r] = Erasure(u)]
            /\ tx' = [tx EXCEPT ![r] = "open"] /\ Go(r, "answered")
            /\ UNCHANGED <<row, files, call, met, lost, link, got, mail, proven>>
        BY <1>9, <2>4 DEF RemoveProfile, mailVars
      <3>2. Wanted(r, Erasure(u))
        BY <2>1 DEF Wanted
      <3> QED
        BY <2>1, <2>2, <2>4, <3>1, <3>2 DEF Puts
    <2> QED
      BY <2>3, <2>4
  <1>19. ASSUME ApplyLink(r) PROVE Goal
    <2> DEFINE u == Key(r).user  p == Proved(r)
    <2>1. pc[r] = "apply" /\ u \in Users /\ Target(r) = u
      BY <1>19, <1>r, Given DEF ApplyLink, Target, Keys
    <2>2. \/ UNCHANGED <<put, row, proven>> /\ tx' = [tx EXCEPT ![r] = "undone"]
          \/ row[u] # None /\ Save(r, u, p, "answered")
      BY <1>19 DEF ApplyLink, mailVars
    <2>3. ASSUME row[u] # None, Save(r, u, p, "answered") PROVE Goal
      <3>1. Write(u, p) \in Writes /\ Write(u, p).user = u
        BY <2>1, <2>3, <1>w, NewRows
      <3>2. CASE UNCHANGED <<put, tx>>
        BY <1>19, <3>2 DEF ApplyLink, mailVars
      <3>3. CASE ~UNCHANGED <<put, tx>>
        <4>1. /\ ~Locked(r, u) /\ put' = [put EXCEPT ![r] = Write(u, p)]
              /\ tx' = [tx EXCEPT ![r] = "open"] /\ Go(r, "answered")
          BY <2>3, <3>3, SaveEffect
        <4>2. Wanted(r, Write(u, p))
          BY <2>1 DEF Wanted
        <4>3. UNCHANGED <<row, files, call, met, lost, link, got, mail, proven>>
          BY <1>19 DEF ApplyLink, mailVars
        <4> HIDE DEF p
        <4> QED
          BY <2>1, <2>3, <3>1, <4>1, <4>2, <4>3 DEF Puts
      <3> QED
        BY <3>2, <3>3
    <2>4. ASSUME UNCHANGED <<put, row, proven>>, tx' = [tx EXCEPT ![r] = "undone"] PROVE Goal
      BY <1>t, <2>4
    <2> QED
      BY <2>2, <2>3, <2>4
  <1>20. ASSUME SettleRequest(r) PROVE Goal
    BY <1>20
  <1>a. ASSUME Plain PROVE Goal
    BY <1>a
  <1> HIDE DEF Goal
  <1> USE DEF Go, Lose, service, profileVars, mailVars
  <1>1. ASSUME ReadForUpdate(r), UNCHANGED mailVars PROVE Plain
    BY <1>1, <1>t DEF ReadForUpdate, Begins
  <1>3. ASSUME ReadForUpload(r), UNCHANGED mailVars PROVE Plain
    BY <1>3, <1>t DEF ReadForUpload, Begins
  <1>4. ASSUME ReadForReset(r), UNCHANGED mailVars PROVE Plain
    BY <1>4, <1>t DEF ReadForReset, Begins
  <1>5. ASSUME Store(r), UNCHANGED mailVars PROVE Plain
    BY <1>5, <1>t DEF Store
  <1>6. ASSUME Unstore(r), UNCHANGED mailVars PROVE Plain
    BY <1>6, <1>t DEF Unstore, RemoveOne
  <1>8. ASSUME ReadForDelete(r), UNCHANGED mailVars PROVE Plain
    BY <1>8, <1>t DEF ReadForDelete, Begins
  <1>10. ASSUME LookUpByEmail(r) PROVE Plain
    BY <1>10, <1>t DEF LookUpByEmail, Begins, Make
  <1>11. ASSUME FetchForChange(r) PROVE Plain
    BY <1>11, <1>t DEF FetchForChange, Begins
  <1>12. ASSUME CheckFree(r) PROVE Plain
    BY <1>12, <1>t DEF CheckFree, Make
  <1>13. ASSUME SaveToken(r) PROVE Plain
    BY <1>13, <1>t DEF SaveToken, StoreToken
  <1>14. ASSUME Publish(r) PROVE Plain
    BY <1>14, <1>t DEF Publish
  <1>15. ASSUME CheckVerification(r) PROVE Plain
    BY <1>15, <1>t DEF CheckVerification, Begins, Check, Expired
  <1>16. ASSUME CheckEmailChange(r) PROVE Plain
    BY <1>16, <1>t DEF CheckEmailChange, Begins, Check, Expired
  <1>17. ASSUME FetchOld(r) PROVE Plain
    BY <1>17, <1>t DEF FetchOld
  <1>18. ASSUME MarkLink(r) PROVE Plain
    BY <1>18, <1>t DEF MarkLink
  <1>21. ASSUME BreakOff(r), UNCHANGED mailVars PROVE Plain
    BY <1>21, <1>t DEF BreakOff
  <1>22. ASSUME AbandonLink(r) PROVE Plain
    BY <1>22, <1>t DEF AbandonLink
  <1>23. ASSUME LoseAnswer(r) PROVE Plain
    BY <1>23, <1>t DEF LoseAnswer
  <1>24. ASSUME NEW c \in plan[r], ReceiveCall(r, c) PROVE Plain
    BY <1>24, <1>t DEF ReceiveCall, Receive
  <1>z. Goal
    BY <1>a, <1>1, <1>2, <1>3, <1>4, <1>5, <1>6, <1>7, <1>8, <1>9, <1>10, <1>11, <1>12,
       <1>13, <1>14, <1>15, <1>16, <1>17, <1>18, <1>19, <1>20, <1>21, <1>22, <1>23, <1>24
    DEF RequestStep, Proceed, Fails, ProfileStep, FlowStep
  <1> QED
    BY <1>z DEF Goal

(* No row is written by two at a time. *)
LEMMA LocksStep ==
  ASSUME TypeOK, Steps, Sent, Locks, [Next]_vars PROVE Locks'
  <1>t. put \in [Requests -> Writes \cup {None}]
    BY DEF TypeOK, ProfileTypeOK
  <1>1. ASSUME NEW r \in Requests, RequestStep(r) PROVE Locks'
    <2>1. CASE UNCHANGED put
      BY <2>1 DEF Locks
    <2>2. ASSUME NEW w \in Writes, Puts(r, w) PROVE Locks'
      <3>1. put' = [put EXCEPT ![r] = w] /\ \A q \in Requests \ {r} : put[q] # None => put[q].user # w.user
        BY <2>2 DEF Puts, Locked
      <3> QED
        BY <1>t, <3>1 DEF Locks
    <2>3. CASE SettleRequest(r)
      <3>1. put' = [put EXCEPT ![r] = None]
        BY <2>3 DEF SettleRequest, Settle, Unlock
      <3> QED
        BY <1>t, <3>1 DEF Locks
    <2> QED
      BY <1>1, <2>1, <2>2, <2>3, Writing
  <1>2. ASSUME (\E k \in Keys : SettleToken(k)) \/ Tick \/ UNCHANGED vars PROVE Locks'
    BY <1>2 DEF SettleToken, Tick, vars, profileVars, service, Locks
  <1> QED
    BY <1>1, <1>2 DEF Next, RequestStep

------------------------------------------------------------------------------
(* Steps and calls *)

(* A request that does not move stays where its call allows. *)
LEMMA RoutedStays ==
  ASSUME TypeOK, Steps, Grown, NEW q \in Requests,
         pc'[q] = pc[q], tx'[q] = tx[q], put'[q] = put[q], got'[q] = got[q], call'[q] = call[q],
         put[q] # None => row'[put[q].user] # None
  PROVE  Routed(q)'
  <1>1. Routed(q)
    BY DEF Steps
  <1>2. (Follows(q)' <=> Follows(q)) /\ Key(q)' = Key(q) /\ Target(q)' = Target(q)
    BY DEF Follows, Key, Target
  <1>3. Follows(q) /\ Kept(Key(q)) => Kept(Key(q))'
    BY Given DEF Grown, Key
  <1>4. mail \subseteq mail'
    BY DEF Grown
  <1> QED
    BY <1>1, <1>2, <1>3, <1>4 DEF Routed

(* A request that ends, or has ended, needs little, *)
LEMMA RoutedOver ==
  ASSUME TypeOK, Steps, Grown, NEW r \in Requests, call[r] # None, UNCHANGED <<call, got>>,
         pc'[r] \in Over, put'[r] # None <=> tx'[r] = "open",
         put'[r] # None => put'[r].user = Target(r) /\ row'[put'[r].user] # None,
         tx'[r] # "none" => call[r].op \notin {"resend", "change"},
         Follows(r) /\ (pc'[r] = "answered" \/ tx'[r] # "none") => Kept(Key(r))
  PROVE  Routed(r)'
  <1>1. Routed(r)
    BY DEF Steps
  <1>2. (Follows(r)' <=> Follows(r)) /\ Key(r)' = Key(r) /\ Target(r)' = Target(r)
    BY DEF Follows, Key, Target
  <1>3. Follows(r) /\ Kept(Key(r)) => Kept(Key(r))'
    BY Given DEF Grown, Key
  <1>4. mail \subseteq mail'
    BY DEF Grown
  <1>5. pc'[r] \in {"refused", "failed", "answered"}
    BY DEF Over
  <1>6. Follows(r) => [to |-> call[r].to, key |-> Key(r)] \in mail
    BY <1>1 DEF Routed
  <1>7. got[r] # None => IF call[r].op = "change" THEN got[r].key.kind = "change" /\ got[r].to = call[r].email
                         ELSE call[r].op = "resend" /\ got[r].key.kind = "verify"
    BY <1>1 DEF Routed
  <1> QED
    BY <1>2, <1>3, <1>4, <1>5, <1>6, <1>7 DEF Routed, Over

(* ... also when it has written a row, *)
LEMMA RoutedPut ==
  ASSUME TypeOK, Steps, Grown, NEW r \in Requests, NEW w \in Writes, Puts(r, w)
  PROVE  Routed(r)'
  <1>1. Routed(r)
    BY DEF Steps
  <1>2. /\ pc'[r] = "answered" /\ tx'[r] = "open" /\ put'[r] = w /\ w # None
        /\ UNCHANGED <<row, call, got>> /\ w.user = Target(r) /\ row[w.user] # None
    BY AbsentAssumption DEF Puts, Go, TypeOK, ProfileTypeOK
  <1>3. pc[r] \in {"update", "point", "remove", "apply"}
    BY DEF Puts, Wanted
  <1>4. call[r] # None /\ call[r].op \notin {"resend", "change"}
    BY <1>1, <1>3 DEF Routed
  <1>5. Follows(r) => Kept(Key(r))
    BY <1>1, <1>3 DEF Routed, Follows
  <1> QED
    BY <1>2, <1>4, <1>5, RoutedOver DEF Over

(* ... or might have. *)
LEMMA RoutedEdit ==
  ASSUME TypeOK, Steps, Sent, Grown, NEW r \in Requests, RequestStep(r),
         pc[r] \in {"update", "point", "remove"}, UNCHANGED <<call, got>>,
         pc'[r] \in Over, tx'[r] \in {"none", "open"}
  PROVE  Routed(r)'
  <1>1. Routed(r)
    BY DEF Steps
  <1>2. call[r] # None /\ tx[r] = "none" /\ put[r] = None /\ ~Follows(r)
    BY <1>1 DEF Routed, Over, Follows
  <1>3. CASE \E w \in Writes : Puts(r, w)
    BY <1>3, RoutedPut
  <1>4. CASE UNCHANGED put /\ tx'[r] # "open"
    BY <1>2, <1>4, RoutedOver
  <1>5. ~SettleRequest(r)
    BY <1>2 DEF SettleRequest, Settle, Settleable
  <1>6. pc'[r] # "apply"
    BY DEF Over
  <1> QED
    BY <1>2, <1>3, <1>4, <1>5, <1>6, Writing

(* A request that moves goes on where its call allows. *)
LEMMA RoutedGoes ==
  ASSUME TypeOK, Steps, Sent, Grown, NEW r \in Requests, Proceed(r) \/ Fails(r), UNCHANGED call
  PROVE  Routed(r)'
  <1>r. Routed(r)
    BY DEF Steps
  <1>c. (Follows(r)' <=> Follows(r)) /\ Key(r)' = Key(r) /\ Target(r)' = Target(r)
    BY DEF Follows, Key, Target
  <1>k. Follows(r) /\ Kept(Key(r)) => Kept(Key(r))'
    BY Given DEF Grown, Key
  <1>t. /\ tx \in [Requests -> {"none", "open", "done", "undone"}]
        /\ pc \in [Requests -> Over \cup {"idle", "begin", "update", "store", "unstore", "point",
             "remove", "free", "save", "publish", "fetch", "mark", "apply"}]
        /\ put \in [Requests -> Writes \cup {None}]
        /\ got \in [Requests -> Mail \cup {None}] /\ None \notin Mail \cup Writes
    BY AbsentAssumption DEF TypeOK, ProfileTypeOK
  <1>o. pc[r] = "begin" => call[r] # None
    BY <1>r DEF Routed
  <1>f. Follows(r) <=> call[r] # None /\ call[r].op \in {"verify", "confirm"}
    BY DEF Follows
  <1>m. mail \subseteq mail'
    BY DEF Grown
  <1>n. \A u \in Users, kind \in {"verify", "change"}, e \in Emails : [key |-> TokenOf(u, kind), to |-> e] # None
    BY KeyFacts, AbsentAssumption DEF Mail, TypeOK
  <1> USE DEF Go, Lose, service, profileVars, mailVars
  <1>1. ASSUME ReadForUpdate(r), UNCHANGED mailVars PROVE Routed(r)'
    BY <1>1, <1>r, <1>c, <1>k, <1>t, <1>o, <1>f, <1>m DEF ReadForUpdate, Begins, Over, Routed
  <1>2. ASSUME UpdateProfile(r), UNCHANGED mailVars PROVE Routed(r)'
    <2>1. pc[r] = "update" /\ tx[r] = "none"
      BY <1>2, <1>r DEF UpdateProfile, Routed, Over
    <2>2. pc'[r] \in Over /\ tx'[r] \in {"none", "open"} /\ UNCHANGED got
      BY <1>2, <1>t, <2>1 DEF UpdateProfile, Save, Over
    <2> QED
      BY <1>2, <2>1, <2>2, RoutedEdit DEF RequestStep, Proceed, ProfileStep
  <1>3. ASSUME ReadForUpload(r), UNCHANGED mailVars PROVE Routed(r)'
    BY <1>3, <1>r, <1>c, <1>k, <1>t, <1>o, <1>f, <1>m DEF ReadForUpload, Begins, Over, Routed
  <1>4. ASSUME ReadForReset(r), UNCHANGED mailVars PROVE Routed(r)'
    BY <1>4, <1>r, <1>c, <1>k, <1>t, <1>o, <1>f, <1>m DEF ReadForReset, Begins, Over, Routed
  <1>5. ASSUME Store(r), UNCHANGED mailVars PROVE Routed(r)'
    BY <1>5, <1>r, <1>c, <1>k, <1>t, <1>o, <1>f, <1>m DEF Store, Over, Routed
  <1>6. ASSUME Unstore(r), UNCHANGED mailVars PROVE Routed(r)'
    <2>1. pc[r] = "unstore" /\ UNCHANGED <<row, tx, put, got, link, mail>>
      BY <1>6 DEF Unstore
    <2>2. pc'[r] \in {AfterUnstore(r), "failed"}
      BY <1>6, <1>t DEF Unstore, RemoveOne
    <2>3. call[r].op \in {"reset", "delete", "erase"} /\ tx[r] = "none"
      BY <1>r, <2>1 DEF Routed, Over
    <2>4. ~Follows(r) /\ (pc'[r] = "point" => call[r].op = "reset") /\ (pc'[r] = "remove" => call[r].op # "reset")
          /\ pc'[r] \in {"point", "remove", "failed"}
      BY <2>2, <2>3 DEF Follows, AfterUnstore
    <2> QED
      BY <1>r, <1>c, <1>t, <2>1, <2>3, <2>4 DEF Routed, Over
  <1>7. ASSUME PointAvatar(r), UNCHANGED mailVars PROVE Routed(r)'
    <2>1. pc[r] = "point" /\ tx[r] = "none"
      BY <1>7, <1>r DEF PointAvatar, Routed, Over
    <2>2. pc'[r] \in Over /\ tx'[r] \in {"none", "open"} /\ UNCHANGED got
      BY <1>7, <1>t, <2>1 DEF PointAvatar, Save, Over
    <2> QED
      BY <1>7, <2>1, <2>2, RoutedEdit DEF RequestStep, Proceed, ProfileStep
  <1>8. ASSUME ReadForDelete(r), UNCHANGED mailVars PROVE Routed(r)'
    BY <1>8, <1>r, <1>c, <1>k, <1>t, <1>o, <1>f, <1>m DEF ReadForDelete, Begins, Over, Routed
  <1>9. ASSUME RemoveProfile(r), UNCHANGED mailVars PROVE Routed(r)'
    <2>1. pc[r] = "remove" /\ tx[r] = "none"
      BY <1>9, <1>r DEF RemoveProfile, Routed, Over
    <2>2. pc'[r] \in Over /\ tx'[r] \in {"none", "open"} /\ UNCHANGED got
      BY <1>9, <1>t, <2>1 DEF RemoveProfile, Over
    <2> QED
      BY <1>9, <2>1, <2>2, RoutedEdit DEF RequestStep, Proceed, ProfileStep
  <1>10. ASSUME LookUpByEmail(r) PROVE Routed(r)'
    <2>1. pc[r] = "begin" /\ call[r].op = "resend" /\ UNCHANGED <<row, tx, put, link, mail>>
          /\ tx[r] = "none" /\ put[r] = None /\ got[r] = None /\ ~Follows(r)
      BY <1>10, <1>r DEF LookUpByEmail, Begins, Routed, Over, Follows
    <2>2. CASE pc'[r] = "answered" /\ UNCHANGED got
      BY <1>o, <2>1, <2>2, RoutedOver DEF Over
    <2>3. CASE pc'[r] = "save" /\ \E u \in Users : row[u] # None /\ Make(r, TokenOf(u, "verify"), row[u].email)
      <3>1. PICK u \in Users : row[u] # None /\ Make(r, TokenOf(u, "verify"), row[u].email)
        BY <2>3
      <3>5. row[u].email \in Emails
        BY <3>1 DEF TypeOK, ProfileTypeOK, Profile
      <3>2. got'[r] = [key |-> TokenOf(u, "verify"), to |-> row[u].email]
        BY <1>t, <3>1 DEF Make
      <3>3. got'[r].key.kind = "verify"
        BY <3>2 DEF TokenOf
      <3>4. got'[r] # None
        BY <1>n, <3>2, <3>5
      <3> QED
        BY <1>r, <1>c, <2>1, <2>3, <3>3, <3>4 DEF Routed, Over
    <2> QED
      BY <1>10, <1>t, <2>2, <2>3 DEF LookUpByEmail, Owner
  <1>11. ASSUME FetchForChange(r) PROVE Routed(r)'
    BY <1>11, <1>r, <1>c, <1>k, <1>t, <1>o, <1>f, <1>m DEF FetchForChange, Begins, Over, Routed
  <1>12. ASSUME CheckFree(r) PROVE Routed(r)'
    <2>1. pc[r] = "free" /\ call[r].op = "change" /\ UNCHANGED <<row, tx, put, link, mail>>
          /\ tx[r] = "none" /\ put[r] = None /\ got[r] = None /\ ~Follows(r) /\ call[r] # None
      BY <1>12, <1>r DEF CheckFree, Routed, Over, Follows
    <2>2. CASE pc'[r] = "refused" /\ UNCHANGED got
      BY <1>o, <2>1, <2>2, RoutedOver DEF Over
    <2>3. CASE pc'[r] = "save" /\ Make(r, TokenOf(call[r].user, "change"), call[r].email)
      <3>1. got'[r] = [key |-> TokenOf(call[r].user, "change"), to |-> call[r].email]
        BY <1>t, <2>3 DEF Make
      <3>3. call[r].user \in Users /\ call[r].email \in Emails
        BY <2>1, Given
      <3>2. got'[r].key.kind = "change" /\ got'[r].to = call[r].email /\ got'[r] # None
        BY <3>1, <3>3, <1>n DEF TokenOf
      <3> QED
        BY <1>r, <1>c, <2>1, <2>3, <3>2 DEF Routed, Over
    <2> QED
      BY <1>12, <1>t, <2>2, <2>3 DEF CheckFree
  <1>13. ASSUME SaveToken(r) PROVE Routed(r)'
    BY <1>13, <1>r, <1>c, <1>k, <1>t, <1>o, <1>f, <1>m DEF SaveToken, StoreToken, Over, Routed
  <1>14. ASSUME Publish(r) PROVE Routed(r)'
    BY <1>14, <1>r, <1>c, <1>k, <1>t, <1>o, <1>f, <1>m DEF Publish, Over, Routed
  <1>15. ASSUME CheckVerification(r) PROVE Routed(r)'
    <2>1. pc[r] = "begin" /\ call[r].op = "verify" /\ UNCHANGED <<row, tx, put, link, mail, got>>
          /\ tx[r] = "none" /\ put[r] = None /\ got[r] = None /\ Follows(r)
      BY <1>15, <1>r, <1>o, <1>f DEF CheckVerification, Begins, Check, Routed, Over
    <2>2. pc'[r] = "refused" \/ (pc'[r] = "mark" /\ Usable(Key(r)))
      BY <1>15, <1>t DEF CheckVerification, Check
    <2>3. Usable(Key(r)) => Kept(Key(r))'
      BY <2>1 DEF Usable, Kept, Key
    <2> QED
      BY <1>r, <1>c, <1>o, <2>1, <2>2, <2>3 DEF Routed, Over
  <1>16. ASSUME CheckEmailChange(r) PROVE Routed(r)'
    <2>1. pc[r] = "begin" /\ call[r].op = "confirm" /\ UNCHANGED <<row, tx, put, link, mail, got>>
          /\ tx[r] = "none" /\ put[r] = None /\ got[r] = None /\ Follows(r)
      BY <1>16, <1>r, <1>o, <1>f DEF CheckEmailChange, Begins, Check, Routed, Over
    <2>2. pc'[r] = "refused" \/ (pc'[r] = "fetch" /\ Usable(Key(r)))
      BY <1>16, <1>t DEF CheckEmailChange, Check
    <2>3. Usable(Key(r)) => Kept(Key(r))'
      BY <2>1 DEF Usable, Kept, Key
    <2> QED
      BY <1>r, <1>c, <1>o, <2>1, <2>2, <2>3 DEF Routed, Over
  <1>17. ASSUME FetchOld(r) PROVE Routed(r)'
    BY <1>17, <1>r, <1>c, <1>k, <1>t, <1>o, <1>f, <1>m DEF FetchOld, Over, Routed
  <1>18. ASSUME MarkLink(r) PROVE Routed(r)'
    BY <1>18, <1>r, <1>c, <1>k, <1>t, <1>o, <1>f, <1>m DEF MarkLink, Over, Routed
  <1>19. ASSUME ApplyLink(r) PROVE Routed(r)'
    <2>1. /\ pc[r] = "apply" /\ Follows(r) /\ tx[r] = "open" /\ put[r] = None /\ call[r] # None
          /\ Kept(Key(r)) /\ call[r].op \notin {"resend", "change"} /\ UNCHANGED <<call, got>>
      BY <1>19, <1>r, <1>f DEF ApplyLink, Routed, Over
    <2>2. CASE \E w \in Writes : Puts(r, w)
      BY <2>2, RoutedPut
    <2>3. CASE UNCHANGED put /\ tx'[r] # "open" /\ pc'[r] \in Over
      BY <2>1, <2>3, RoutedOver
    <2>4. CASE UNCHANGED put /\ tx'[r] = "open"
      <3> DEFINE u == Key(r).user p == Proved(r)
      <3>1. /\ row[u] # None /\ Save(r, u, p, "answered")
            /\ ~(p.email # row[u].email /\ Owner(p.email) # {})
        BY <1>19, <1>t, <2>4 DEF ApplyLink
      <3>2. put' = [put EXCEPT ![r] = Write(u, p)]
        BY <3>1 DEF Save
      <3>3. Proved(r) \in Profile /\ u \in Users
        BY <2>1, <3>1, NewRows, Given DEF Keys
      <3>5. Write(u, p) \in Writes
        BY <3>3 DEF Write, Writes
      <3>4. Write(u, p) # None
        BY <3>5, AbsentAssumption
      <3> QED
        BY <1>t, <2>1, <2>4, <3>2, <3>4
    <2>5. pc'[r] \in Over \/ \E w \in Writes : Puts(r, w)
      BY <1>19, <1>t DEF ApplyLink, Save, Over
    <2>6. ~SettleRequest(r)
      BY <2>1 DEF SettleRequest, Settle, Settleable
    <2> QED
      BY <1>19, <2>2, <2>3, <2>4, <2>5, <2>6, Writing DEF RequestStep, Proceed, FlowStep
  <1>20. ASSUME SettleRequest(r) PROVE Routed(r)'
    <2>1. /\ tx[r] = "open" /\ pc[r] # "apply" /\ UNCHANGED <<pc, call, got>> /\ tx'[r] \in {"done", "undone"}
          /\ put'[r] = None
      BY <1>20, <1>t DEF SettleRequest, Settle, Settleable, CommitProfile, RollBackProfile, Unlock
    <2>2. /\ pc[r] \in Over /\ call[r].op \notin {"resend", "change"}
          /\ Follows(r) => Kept(Key(r))
      BY <1>r, <2>1 DEF Routed
    <2>3. call[r] # None
      BY <1>r, <2>2 DEF Routed, Over
    <2> QED
      BY <2>1, <2>2, <2>3, RoutedOver
  <1>21. ASSUME BreakOff(r), UNCHANGED mailVars PROVE Routed(r)'
    BY <1>21, <1>r, <1>c, <1>k, <1>t, <1>o, <1>f, <1>m DEF BreakOff, Over, Routed
  <1>22. ASSUME AbandonLink(r) PROVE Routed(r)'
    BY <1>22, <1>r, <1>c, <1>k, <1>t, <1>o, <1>f, <1>m DEF AbandonLink, Over, Routed
  <1>23. ASSUME LoseAnswer(r) PROVE Routed(r)'
    BY <1>23, <1>r, <1>c, <1>k, <1>t, <1>o, <1>f, <1>m DEF LoseAnswer, Over, Routed
  <1> QED
    BY <1>1, <1>2, <1>3, <1>4, <1>5, <1>6, <1>7, <1>8, <1>9, <1>10, <1>11, <1>12, <1>13,
       <1>14, <1>15, <1>16, <1>17, <1>18, <1>19, <1>20, <1>21, <1>22, <1>23
    DEF Proceed, Fails, ProfileStep, FlowStep

(* A row that is being written by another request is not removed. *)
LEMMA Remains ==
  ASSUME TypeOK, Steps, Sent, Locks, NEW r \in Requests, RequestStep(r),
         NEW q \in Requests \ {r}, put[q] # None
  PROVE  row'[put[q].user] = row[put[q].user]
  <1>1. CASE UNCHANGED row
    BY <1>1
  <1>2. CASE SettleRequest(r)
    <2>1. row' = row \/ (put[r] # None /\ \E v : row' = [row EXCEPT ![put[r].user] = v])
      BY <1>2 DEF SettleRequest, Settle, CommitProfile, RollBackProfile, Applied
    <2>2. put[r] # None => put[r].user # put[q].user
      BY DEF Locks
    <2>3. put[q].user \in Users
      BY DEF TypeOK, ProfileTypeOK, Writes
    <2> QED
      BY <2>1, <2>2, <2>3 DEF TypeOK, ProfileTypeOK
  <1> QED
    BY <1>1, <1>2, Writing DEF Puts

(* A request that is received may be at its first step. *)
LEMMA RoutedFirst ==
  ASSUME TypeOK, Steps, NEW r \in Requests, NEW c \in plan[r], ReceiveCall(r, c)
  PROVE  Routed(r)'
  <1>1. /\ pc[r] = "idle" /\ tx[r] = "none" /\ put[r] = None /\ got[r] = None
    BY DEF ReceiveCall, Receive, Steps, Routed, Over
  <1>2. /\ pc'[r] = "begin" /\ call'[r] = c /\ UNCHANGED <<tx, put, got, mail>>
        /\ c.op \in {"verify", "confirm"} => [to |-> c.to, key |-> c.key] \in mail
    BY DEF ReceiveCall, Receive, Go, TypeOK, service, mailVars
  <1>3. c # None
    BY Planned, CallFacts DEF Steps
  <1> QED
    BY <1>1, <1>2, <1>3 DEF Routed, Follows, Key, Over

(* Every request is at a step of its call. *)
LEMMA StepsStep ==
  ASSUME TypeOK, Steps, Sent, Locks, Overlaps, [Next]_vars PROVE Steps'
  <1>g. Grown
    BY Growth
  <1>1. ASSUME NEW r \in Requests, Proceed(r) \/ Fails(r) PROVE Steps'
    <2>1. UNCHANGED <<plan, call>> /\ Routed(r)'
      BY <1>1, <1>g, InProgress, RoutedGoes
    <2>2. ASSUME NEW q \in Requests \ {r} PROVE Routed(q)'
      <3>1. /\ pc'[q] = pc[q] /\ tx'[q] = tx[q] /\ put'[q] = put[q] /\ got'[q] = got[q] /\ call'[q] = call[q]
        BY <1>1, Frame DEF Others, RequestStep
      <3>2. put[q] # None => row'[put[q].user] # None
        BY <1>1, Remains DEF RequestStep, Steps, Routed
      <3> QED
        BY <1>g, <3>1, <3>2, RoutedStays
    <2> QED
      BY <2>1, <2>2 DEF Steps
  <1>2. ASSUME NEW r \in Requests, NEW c \in plan[r], ReceiveCall(r, c) PROVE Steps'
    <2>1. UNCHANGED <<plan, row>> /\ call' = [call EXCEPT ![r] = c]
      BY <1>2 DEF ReceiveCall, Receive, service
    <2>2. ASSUME NEW q \in Requests \ {r} PROVE Routed(q)'
      <3>1. /\ pc'[q] = pc[q] /\ tx'[q] = tx[q] /\ put'[q] = put[q] /\ got'[q] = got[q] /\ call'[q] = call[q]
        BY <1>2, Frame DEF Others, RequestStep
      <3>2. put[q] # None => row'[put[q].user] # None
        BY <2>1 DEF Steps, Routed
      <3> QED
        BY <1>g, <3>1, <3>2, RoutedStays
    <2> QED
      BY <1>2, <2>1, <2>2, RoutedFirst DEF Steps, TypeOK
  <1>3. ASSUME (\E k \in Keys : SettleToken(k)) \/ Tick \/ UNCHANGED vars PROVE Steps'
    <2>1. UNCHANGED <<plan, call, pc, tx, put, got, row>>
      BY <1>3 DEF SettleToken, Tick, vars, profileVars, mailVars, service
    <2>2. ASSUME NEW q \in Requests PROVE Routed(q)'
      <3>1. put[q] # None => row'[put[q].user] # None
        BY <2>1 DEF Steps, Routed
      <3> QED
        BY <1>g, <2>1, <3>1, RoutedStays
    <2> QED
      BY <2>1, <2>2 DEF Steps
  <1> QED
    BY <1>1, <1>2, <1>3 DEF Next

------------------------------------------------------------------------------
(* What is written *)

(* A write stays what it is while its row and its token do. *)
LEMMA WritStays ==
  ASSUME TypeOK, Steps, Written, Grown, NEW q \in Requests, put'[q] = put[q], call'[q] = call[q],
         put[q] # None => row'[put[q].user] = row[put[q].user]
  PROVE  Writ(q)' /\ ((put[q] # None /\ put[q].gone)' => call'[q].op \in {"delete", "erase"})
  <1>1. Writ(q) /\ (put[q] # None /\ put[q].gone => call[q].op \in {"delete", "erase"}) /\ Routed(q)
    BY DEF Written, Steps
  <1>3. call[q].op \in {"upload", "reset"} => NewAvatar(q)' = NewAvatar(q)
    BY DEF NewAvatar
  <1>4. (Follows(q)' <=> Follows(q)) /\ Key(q)' = Key(q)
    BY DEF Follows, Key
  <1>5. ASSUME put[q] # None, Follows(q) PROVE Proved(q)' = Proved(q)
    <2>1. put[q].user = Key(q).user /\ tx[q] = "open"
      BY <1>1, <1>5 DEF Routed, Target
    <2>2. Kept(Key(q)) /\ Key(q) \in Keys
      BY <1>1, <1>5, <2>1, Given DEF Routed
    <2>3. link'[Key(q)].pending = link[Key(q)].pending
      BY <2>2 DEF Grown
    <2>4. row'[Key(q).user] = row[Key(q).user]
      BY <1>5, <2>1
    <2> QED
      BY <1>4, <2>3, <2>4 DEF Proved, Moved, Verified
  <1> QED
    BY <1>1, <1>3, <1>4, <1>5 DEF Writ

(* A PATCH leaves the avatar, and the address or sets the one it was given. *)
LEMMA PatchedFields ==
  ASSUME NEW u, NEW c, row[u] \in Profile
  PROVE  /\ Patched(u, c).avatar = row[u].avatar
         /\ Patched(u, c).email \in {row[u].email, c.email}
  BY DEF Patched, Profile

(* What is written is what the step of the request says. *)
LEMMA WritPut ==
  ASSUME TypeOK, Steps, Written, NEW r \in Requests, NEW w \in Writes, Puts(r, w)
  PROVE  Writ(r)' /\ ((put[r] # None /\ put[r].gone)' => call'[r].op \in {"delete", "erase"})
  <1>1. /\ put'[r] = w /\ UNCHANGED <<row, call, link>> /\ Wanted(r, w)
        /\ row[w.user] # None /\ w.user = Target(r)
    BY DEF Puts, TypeOK, ProfileTypeOK
  <1>2. Routed(r)
    BY DEF Steps
  <1>3. (Follows(r)' <=> Follows(r)) /\ Proved(r)' = Proved(r)
    BY <1>1 DEF Follows, Proved, Moved, Verified, Key
  <1>4. NewAvatar(r)' = NewAvatar(r)
    BY <1>1 DEF NewAvatar
  <1>5. CASE pc[r] = "update" /\ w = Write(call[r].user, Patched(call[r].user, call[r]))
    <2>1. call[r].op = "patch" /\ ~Follows(r) /\ call[r].user \in Users
      BY <1>2, <1>5, Given DEF Routed, Follows
    <2>2. w.user = call[r].user /\ ~w.gone /\ w.profile = Patched(call[r].user, call[r])
      BY <1>5 DEF Write
    <2>3. row[call[r].user] \in Profile
      BY <1>1, <2>1, <2>2 DEF TypeOK, ProfileTypeOK
    <2>4. /\ Patched(call[r].user, call[r]).avatar = row[call[r].user].avatar
          /\ Patched(call[r].user, call[r]).email \in {row[call[r].user].email, call[r].email}
      BY <2>3, PatchedFields
    <2> QED
      BY <1>1, <1>3, <2>1, <2>2, <2>4 DEF Writ
  <1>6. CASE pc[r] = "point" /\ w = Write(call[r].user, [row[call[r].user] EXCEPT !.avatar = NewAvatar(r)])
    <2>1. call[r].op \in {"upload", "reset"} /\ ~Follows(r)
      BY <1>2, <1>6 DEF Routed, Follows
    <2> QED
      BY <1>1, <1>3, <1>4, <1>6, <2>1 DEF Writ, Write
  <1>7. CASE pc[r] = "remove" /\ w = Erasure(call[r].user)
    BY <1>1, <1>2, <1>7 DEF Writ, Erasure, Routed
  <1>8. CASE pc[r] = "apply" /\ w = Write(Key(r).user, Proved(r))
    <2>1. call[r].op \in {"verify", "confirm"}
      BY <1>2, <1>8 DEF Routed
    <2> QED
      BY <1>1, <1>3, <1>8, <2>1 DEF Writ, Write
  <1> QED
    BY <1>1, <1>5, <1>6, <1>7, <1>8 DEF Wanted

(* Every write is what its call and its row say. *)
LEMMA WrittenStep ==
  ASSUME TypeOK, Steps, Sent, Locks, Overlaps, Written, [Next]_vars PROVE Written'
  <1>g. Grown
    BY Growth
  <1>1. ASSUME NEW r \in Requests, RequestStep(r) PROVE Written'
    <2>1. ASSUME NEW q \in Requests \ {r}
          PROVE  Writ(q)' /\ ((put[q] # None /\ put[q].gone)' => call'[q].op \in {"delete", "erase"})
      <3>1. put'[q] = put[q] /\ call'[q] = call[q]
        BY <1>1, Frame DEF Others
      <3> QED
        BY <1>1, <1>g, <3>1, Remains, WritStays
    <2>2. Writ(r)' /\ ((put[r] # None /\ put[r].gone)' => call'[r].op \in {"delete", "erase"})
      <3>1. ASSUME NEW w \in Writes, Puts(r, w)
            PROVE  Writ(r)' /\ ((put[r] # None /\ put[r].gone)' => call'[r].op \in {"delete", "erase"})
        BY <3>1, WritPut
      <3>2. CASE SettleRequest(r)
        <4>1. put'[r] = None
          BY <3>2 DEF SettleRequest, Settle, Unlock, TypeOK, ProfileTypeOK
        <4> QED
          BY <4>1 DEF Writ
      <3>3. CASE UNCHANGED <<put, row>>
        <4>1. CASE put[r] = None
          BY <3>3, <4>1 DEF Writ
        <4>2. CASE put[r] # None
          <5>1. call[r] # None
            BY <4>2 DEF Steps, Routed, Over
          <5> QED
            BY <1>g, <3>3, <5>1, WritStays DEF Grown
        <4> QED
          BY <4>1, <4>2
      <3> QED
        BY <1>1, <3>1, <3>2, <3>3, Writing
    <2> QED
      BY <2>1, <2>2 DEF Written
  <1>2. ASSUME (\E k \in Keys : SettleToken(k)) \/ Tick \/ UNCHANGED vars PROVE Written'
    <2>1. UNCHANGED <<call, put, row>>
      BY <1>2 DEF SettleToken, Tick, vars, profileVars, service
    <2> QED
      BY <1>g, <2>1, WritStays DEF Written
  <1> QED
    BY <1>1, <1>2 DEF Next, RequestStep

------------------------------------------------------------------------------
(* Tokens and mail *)

(* Which steps touch the tokens, the mail, the files and what requests make. *)
LEMMA Telling ==
  ASSUME NEW r \in Requests, RequestStep(r)
  PROVE  /\ UNCHANGED <<link, mail>> \/ SaveToken(r) \/ Publish(r) \/ SettleRequest(r)
         /\ UNCHANGED got \/ LookUpByEmail(r) \/ CheckFree(r)
         /\ UNCHANGED files \/ Store(r) \/ Unstore(r)
  <1> DEFINE Goal == /\ UNCHANGED <<link, mail>> \/ SaveToken(r) \/ Publish(r) \/ SettleRequest(r)
                     /\ UNCHANGED got \/ LookUpByEmail(r) \/ CheckFree(r)
                     /\ UNCHANGED files \/ Store(r) \/ Unstore(r)
  <1> USE DEF profileVars, mailVars, service
  <1>1. ASSUME ReadForUpdate(r), UNCHANGED mailVars PROVE Goal
    BY <1>1 DEF ReadForUpdate, Begins
  <1>2. ASSUME UpdateProfile(r), UNCHANGED mailVars PROVE Goal
    BY <1>2 DEF UpdateProfile, Save
  <1>3. ASSUME ReadForUpload(r), UNCHANGED mailVars PROVE Goal
    BY <1>3 DEF ReadForUpload, Begins
  <1>4. ASSUME ReadForReset(r), UNCHANGED mailVars PROVE Goal
    BY <1>4 DEF ReadForReset, Begins
  <1>5. ASSUME Store(r), UNCHANGED mailVars PROVE Goal
    BY <1>5 DEF Store
  <1>6. ASSUME Unstore(r), UNCHANGED mailVars PROVE Goal
    BY <1>6 DEF Unstore, RemoveOne
  <1>7. ASSUME PointAvatar(r), UNCHANGED mailVars PROVE Goal
    BY <1>7 DEF PointAvatar, Save
  <1>8. ASSUME ReadForDelete(r), UNCHANGED mailVars PROVE Goal
    BY <1>8 DEF ReadForDelete, Begins
  <1>9. ASSUME RemoveProfile(r), UNCHANGED mailVars PROVE Goal
    BY <1>9 DEF RemoveProfile
  <1>10. ASSUME LookUpByEmail(r) PROVE Goal
    BY <1>10 DEF LookUpByEmail
  <1>11. ASSUME FetchForChange(r) PROVE Goal
    BY <1>11 DEF FetchForChange, Begins
  <1>12. ASSUME CheckFree(r) PROVE Goal
    BY <1>12 DEF CheckFree
  <1>13. ASSUME SaveToken(r) PROVE Goal
    BY <1>13 DEF SaveToken
  <1>14. ASSUME Publish(r) PROVE Goal
    BY <1>14 DEF Publish
  <1>15. ASSUME CheckVerification(r) PROVE Goal
    BY <1>15 DEF CheckVerification, Begins, Check, Expired
  <1>16. ASSUME CheckEmailChange(r) PROVE Goal
    BY <1>16 DEF CheckEmailChange, Begins, Check, Expired
  <1>17. ASSUME FetchOld(r) PROVE Goal
    BY <1>17 DEF FetchOld
  <1>18. ASSUME MarkLink(r) PROVE Goal
    BY <1>18 DEF MarkLink
  <1>19. ASSUME ApplyLink(r) PROVE Goal
    BY <1>19 DEF ApplyLink, Save
  <1>20. ASSUME SettleRequest(r) PROVE Goal
    BY <1>20 DEF SettleRequest, Settle
  <1>21. ASSUME BreakOff(r), UNCHANGED mailVars PROVE Goal
    BY <1>21 DEF BreakOff
  <1>22. ASSUME AbandonLink(r) PROVE Goal
    BY <1>22 DEF AbandonLink
  <1>23. ASSUME LoseAnswer(r) PROVE Goal
    BY <1>23 DEF LoseAnswer
  <1>24. ASSUME NEW c \in plan[r], ReceiveCall(r, c) PROVE Goal
    BY <1>24 DEF ReceiveCall, Receive
  <1> HIDE DEF Goal
  <1>z. Goal
    BY <1>1, <1>2, <1>3, <1>4, <1>5, <1>6, <1>7, <1>8, <1>9, <1>10, <1>11, <1>12, <1>13,
       <1>14, <1>15, <1>16, <1>17, <1>18, <1>19, <1>20, <1>21, <1>22, <1>23, <1>24
    DEF RequestStep, Proceed, Fails, ProfileStep, FlowStep
  <1> QED
    BY <1>z DEF Goal

(* Tokens that are kept, and mail that was sent, stay what they are. *)
LEMMA SentStays ==
  ASSUME TypeOK, Sent, Grown, mail' = mail,
         \A k \in Keys : link'[k] # None => link[k] # None /\ link'[k].pending = link[k].pending
  PROVE  Sent'
  <1>1. ASSUME NEW k \in Keys, link'[k] # None, k.kind = "change"
        PROVE  \E q \in Requests : got'[q] # None /\ got'[q].key = k /\ got'[q].to = link'[k].pending
    <2>1. PICK q \in Requests : got[q] # None /\ got[q].key = k /\ got[q].to = link[k].pending
      BY <1>1 DEF Sent
    <2> QED
      BY <1>1, <2>1 DEF Grown
  <1>2. ASSUME NEW m \in mail, m.key.kind = "change" PROVE m \in {got'[q] : q \in Requests}
    <2>1. PICK q \in Requests : m = got[q]
      BY <1>2 DEF Sent
    <2>2. m # None
      BY <1>2, AbsentAssumption DEF TypeOK
    <2> QED
      BY <2>1, <2>2 DEF Grown
  <1> QED
    BY <1>1, <1>2 DEF Sent

(* Tokens of a change, and their mail, are what requests made. *)
LEMMA SentStep ==
  ASSUME TypeOK, Steps, Overlaps, Sent, [Next]_vars PROVE Sent'
  <1>g. Grown
    BY Growth
  <1>t. link \in [Keys -> Links \cup {None}]
    BY DEF TypeOK
  <1>1. ASSUME NEW r \in Requests, RequestStep(r) PROVE Sent'
    <2>1. CASE UNCHANGED <<link, mail>>
      BY <1>g, <2>1, SentStays
    <2>2. CASE SaveToken(r)
      <3>1. UNCHANGED <<mail, got>> /\ got[r] \in Mail /\ got[r] # None
            /\ (got[r].key.kind = "change" => got[r].to = Pending(r))
        BY <2>2, Given DEF SaveToken, Steps, Routed, Pending
      <3>2. UNCHANGED link \/ link' = [link EXCEPT ![got[r].key] = [pending |-> Pending(r), state |-> "open"]]
        BY <2>2 DEF SaveToken, StoreToken
      <3>3. CASE UNCHANGED link
        BY <1>g, <3>1, <3>3, SentStays
      <3>4. CASE link' = [link EXCEPT ![got[r].key] = [pending |-> Pending(r), state |-> "open"]]
        <4>1. ASSUME NEW k \in Keys, link'[k] # None, k.kind = "change"
              PROVE  \E q \in Requests : got'[q] # None /\ got'[q].key = k /\ got'[q].to = link'[k].pending
          <5>1. CASE k = got[r].key
            BY <1>t, <3>1, <3>4, <4>1, <5>1
          <5>2. CASE k # got[r].key
            <6>1. link'[k] = link[k]
              BY <1>t, <3>4, <5>2
            <6> QED
              BY <3>1, <4>1, <6>1 DEF Sent
          <5> QED
            BY <5>1, <5>2
        <4> QED
          BY <3>1, <4>1 DEF Sent
      <3> QED
        BY <3>2, <3>3, <3>4
    <2>3. CASE Publish(r)
      <3>1. UNCHANGED <<link, got>> /\ got[r] \in Mail /\ mail' \subseteq mail \cup {[to |-> got[r].to, key |-> got[r].key]}
        BY <2>3, Given DEF Publish, Mail
      <3>2. [to |-> got[r].to, key |-> got[r].key] = got[r]
        BY <3>1 DEF Mail
      <3> QED
        BY <3>1, <3>2 DEF Sent
    <2>4. CASE SettleRequest(r)
      <3>1. mail' = mail /\ (link' = link \/ (Follows(r) /\ link' = Marks(r)))
        BY <2>4 DEF SettleRequest
      <3>2. Follows(r) => Key(r) \in Keys /\ link[Key(r)] \in Links
        BY <2>4, Given DEF SettleRequest, Settle, Settleable
      <3>3. ASSUME NEW k \in Keys, link'[k] # None PROVE link[k] # None /\ link'[k].pending = link[k].pending
        <4>1. CASE link' = link
          BY <3>3, <4>1
        <4>2. CASE Follows(r) /\ link' = Marks(r) /\ k = Key(r)
          <5>1. link'[k] = [link[k] EXCEPT !.state = "used"]
            BY <1>t, <4>2 DEF Marks
          <5> QED
            BY <3>2, <4>2, <5>1, AbsentAssumption DEF Links
        <4>3. CASE Follows(r) /\ link' = Marks(r) /\ k # Key(r)
          <5>1. link'[k] = link[k]
            BY <1>t, <4>3 DEF Marks
          <5> QED
            BY <3>3, <5>1
        <4> QED
          BY <3>1, <4>1, <4>2, <4>3
      <3> QED
        BY <1>g, <3>1, <3>3, SentStays
    <2> QED
      BY <1>1, <2>1, <2>2, <2>3, <2>4, Telling
  <1>2. ASSUME NEW j \in Keys, SettleToken(j) PROVE Sent'
    <2>1. mail' = mail /\ link[j] \in Links
      BY <1>2 DEF SettleToken, TypeOK
    <2>2. ASSUME NEW k \in Keys, link'[k] # None PROVE link[k] # None /\ link'[k].pending = link[k].pending
      <3>1. CASE k = j
        BY <1>2, <1>t, <2>1, <2>2, <3>1 DEF SettleToken, Links
      <3>2. CASE k # j
        BY <1>2, <1>t, <2>2, <3>2 DEF SettleToken
      <3> QED
        BY <3>1, <3>2
    <2> QED
      BY <1>g, <2>1, <2>2, SentStays
  <1>3. ASSUME Tick \/ UNCHANGED vars PROVE Sent'
    BY <1>3, <1>g, SentStays DEF Tick, vars, mailVars
  <1> QED
    BY <1>1, <1>2, <1>3 DEF Next, RequestStep

------------------------------------------------------------------------------
(* One-time links *)

(* The steps of a request that follows a link. *)
LEMMA FollowingSteps ==
  ASSUME Steps, NEW q \in Requests, Proceed(q) \/ Fails(q), Follows(q)
  PROVE  \/ CheckVerification(q) \/ CheckEmailChange(q) \/ FetchOld(q) \/ MarkLink(q) \/ ApplyLink(q)
         \/ SettleRequest(q) \/ AbandonLink(q) \/ LoseAnswer(q)
         \/ BreakOff(q) /\ UNCHANGED mailVars
  <1>r. Routed(q) /\ call[q].op \in {"verify", "confirm"}
    BY DEF Steps, Follows
  <1>1. ~(ReadForUpdate(q) \/ ReadForUpload(q) \/ ReadForReset(q) \/ ReadForDelete(q)
          \/ LookUpByEmail(q) \/ FetchForChange(q))
    BY <1>r DEF ReadForUpdate, ReadForUpload, ReadForReset, ReadForDelete, LookUpByEmail, FetchForChange, Begins
  <1>2. ~(UpdateProfile(q) \/ Store(q) \/ Unstore(q) \/ PointAvatar(q) \/ RemoveProfile(q)
          \/ CheckFree(q) \/ SaveToken(q) \/ Publish(q))
    BY <1>r DEF UpdateProfile, Store, Unstore, PointAvatar, RemoveProfile, CheckFree, SaveToken, Publish, Routed
  <1> QED
    BY <1>1, <1>2 DEF Proceed, Fails, ProfileStep, FlowStep

(* A request goes on with a link that its check found usable. *)
LEMMA Following ==
  ASSUME TypeOK, Steps, NEW q \in Requests, Proceed(q) \/ Fails(q), Follows(q)
  PROVE  /\ pc'[q] \in {"fetch", "mark", "apply"} => pc[q] \in {"fetch", "mark", "apply"} \/ Usable(Key(q))
         /\ tx'[q] \in {"open", "done"} => tx[q] \in {"open", "done"} \/ pc[q] \in {"mark", "apply"}
  <1> DEFINE Goal ==
        /\ pc'[q] \in {"fetch", "mark", "apply"} => pc[q] \in {"fetch", "mark", "apply"} \/ Usable(Key(q))
        /\ tx'[q] \in {"open", "done"} => tx[q] \in {"open", "done"} \/ pc[q] \in {"mark", "apply"}
  <1>t. /\ tx \in [Requests -> {"none", "open", "done", "undone"}]
        /\ pc \in [Requests -> Over \cup {"idle", "begin", "update", "store", "unstore", "point",
             "remove", "free", "save", "publish", "fetch", "mark", "apply"}]
    BY DEF TypeOK, ProfileTypeOK
  <1> USE DEF Go, service, profileVars
  <1>1. ASSUME CheckVerification(q) \/ CheckEmailChange(q) PROVE Goal
    BY <1>1, <1>t DEF CheckVerification, CheckEmailChange, Begins, Check, Expired, Usable
  <1>2. ASSUME FetchOld(q) \/ MarkLink(q) PROVE Goal
    BY <1>2, <1>t DEF FetchOld, MarkLink
  <1>3. ASSUME ApplyLink(q) PROVE Goal
    BY <1>3, <1>t DEF ApplyLink, Save, Over
  <1>4. ASSUME SettleRequest(q) PROVE Goal
    BY <1>4, <1>t DEF SettleRequest, Settle, CommitProfile, RollBackProfile, Settleable
  <1>5. ASSUME AbandonLink(q) \/ LoseAnswer(q) \/ BreakOff(q) PROVE Goal
    BY <1>5, <1>t DEF AbandonLink, LoseAnswer, BreakOff, Over
  <1> QED
    BY <1>1, <1>2, <1>3, <1>4, <1>5, FollowingSteps

(* A transaction that becomes done is settled by this step, which marks the *)
(* link it followed as used.                                                *)
LEMMA Settles ==
  ASSUME TypeOK, Steps, Sent, [Next]_vars, NEW r \in Requests, ~Done(r), Done(r)'
  PROVE  /\ SettleRequest(r) /\ UNCHANGED <<call, got, met, pc>> /\ \A q \in Requests \ {r} : tx'[q] = tx[q]
         /\ Follows(r) => Key(r) \in Keys /\ link[Key(r)] \in Links /\ link' = Marks(r)
  <1>1. PICK q \in Requests : RequestStep(q)
    <2>1. (\E k \in Keys : SettleToken(k)) \/ Tick \/ UNCHANGED vars => UNCHANGED tx
      BY DEF SettleToken, Tick, vars, profileVars, service
    <2> QED
      BY <2>1 DEF Next, RequestStep, Done
  <1>2. q = r
    BY <1>1, Frame DEF Others, Done
  <1>3. SettleRequest(r)
    <2>1. ~\E w \in Writes : Puts(r, w)
      BY DEF Puts, Done, TypeOK, ProfileTypeOK
    <2>2. ~(tx'[r] = "done" => tx[r] = "done")
      BY DEF Done
    <2>3. RequestStep(r)
      BY <1>1, <1>2
    <2>4. \/ UNCHANGED <<put, row, proven>>
          \/ \E w \in Writes : Puts(r, w)
          \/ SettleRequest(r)
      BY <2>3, Writing
    <2>5. CASE UNCHANGED <<put, row, proven>>
      BY <2>1, <2>2, <2>3, <2>5, Writing
    <2> QED
      BY <2>1, <2>4, <2>5
  <1>4. UNCHANGED <<call, got, met, pc>> /\ \A p \in Requests \ {r} : tx'[p] = tx[p]
    BY <1>1, <1>2, <1>3, Frame DEF Others, SettleRequest, Settle
  <1>5. Follows(r) => Key(r) \in Keys /\ link[Key(r)] \in Links
    BY <1>3, Given DEF SettleRequest, Settle, Settleable
  <1> QED
    BY <1>3, <1>4, <1>5 DEF SettleRequest, Done

(* A link is used once its effect is there. *)
LEMMA UsedStep ==
  ASSUME TypeOK, Steps, Sent, Overlaps, Used, [Next]_vars PROVE Used'
  <1>g. Grown
    BY Growth
  <1> SUFFICES ASSUME NEW r \in Requests, Follows(r)', Done(r)' PROVE link'[Key(r)'].state = "used"
    BY DEF Used
  <1>1. CASE Done(r)
    <2>1. call[r] # None /\ tx[r] = "done"
      BY <1>1 DEF Done, Steps, Routed, Over
    <2>2. Follows(r) /\ Key(r)' = Key(r)
      BY <1>g, <2>1 DEF Grown, Follows, Key
    <2>3. Kept(Key(r)) /\ Key(r) \in Keys
      BY <2>1, <2>2, Given DEF Steps, Routed
    <2> QED
      BY <1>1, <1>g, <2>2, <2>3 DEF Used, Grown, Kept
  <1>2. CASE ~Done(r)
    <2>1. UNCHANGED call /\ (Follows(r) => Key(r) \in Keys /\ link[Key(r)] \in Links /\ link' = Marks(r))
      BY <1>2, Settles
    <2>2. Follows(r) /\ Key(r)' = Key(r)
      BY <2>1 DEF Follows, Key
    <2> QED
      BY <2>1, <2>2 DEF Marks, Links, TypeOK
  <1> QED
    BY <1>1, <1>2

(* Who did not overlap a request that used a link cannot use it. *)
LEMMA OnceStep ==
  ASSUME TypeOK, Steps, Sent, Overlaps, Used, Once, [Next]_vars PROVE Once'
  <1>g. Grown
    BY Growth
  <1> SUFFICES ASSUME NEW r \in Requests, NEW q \in Requests, Follows(r)', Follows(q)', r # q,
                      Key(r)' = Key(q)', Done(r)', q \notin met'[r]
               PROVE  pc'[q] \notin {"fetch", "mark", "apply"} /\ tx'[q] \notin {"open", "done"}
    BY DEF Once
  <1>0. q \notin met[r]
    BY <1>g DEF Grown
  <1>1. CASE ~Done(r)
    <2>1. /\ SettleRequest(r) /\ UNCHANGED <<call, pc>> /\ tx'[q] = tx[q]
      BY <1>1, Settles
    <2>2. Follows(r) /\ Follows(q) /\ Key(r) = Key(q)
      BY <2>1 DEF Follows, Key
    <2>3. tx[r] = "open" /\ Active(r)
      BY <2>1 DEF SettleRequest, Settle, Settleable, Active
    <2>4. ~Active(q)
      BY <1>0, <2>3 DEF Overlaps
    <2>5. pc[q] \in Over /\ tx[q] # "open"
      BY <2>2, <2>4 DEF Active, Follows
    <2>6. ~Done(q)
      <3>1. r \notin met[q]
        BY <1>0 DEF Overlaps
      <3> QED
        BY <2>2, <2>3, <3>1 DEF Once
    <2> QED
      BY <2>1, <2>5, <2>6 DEF Over, Done
  <1>2. CASE Done(r)
    <2>1. call[r] # None /\ Follows(r) /\ Key(r)' = Key(r) /\ Key(r) \in Keys /\ Kept(Key(r))
      <3>1. call[r] # None /\ tx[r] = "done"
        BY <1>2 DEF Done, Steps, Routed, Over
      <3>2. Follows(r) /\ Key(r)' = Key(r)
        BY <1>g, <3>1 DEF Grown, Follows, Key
      <3> QED
        BY <3>1, <3>2, Given DEF Steps, Routed
    <2>2. link[Key(r)].state = "used"
      BY <1>2, <2>1 DEF Used
    <2>3. CASE call[q] = None
      <3>1. pc[q] = "idle" /\ tx[q] = "none"
        BY <2>3 DEF Steps, Routed, Over
      <3>2. PICK p \in Requests : RequestStep(p)
        <4>1. (\E k \in Keys : SettleToken(k)) \/ Tick \/ UNCHANGED vars => UNCHANGED call
          BY DEF SettleToken, Tick, vars, profileVars, service
        <4> QED
          BY <2>3, <4>1 DEF Next, RequestStep, Follows
      <3>3. p = q
        BY <2>3, <3>2, Frame DEF Others, Follows
      <3>4. PICK c \in plan[q] : ReceiveCall(q, c)
        BY <2>3, <3>2, <3>3, InProgress DEF RequestStep, Follows
      <3> QED
        BY <3>1, <3>4 DEF ReceiveCall, Receive, Go, TypeOK, service
    <2>4. CASE call[q] # None
      <3>1. Follows(q) /\ Key(q) = Key(r)
        BY <1>g, <2>1, <2>4 DEF Grown, Follows, Key
      <3>2. pc[q] \notin {"fetch", "mark", "apply"} /\ tx[q] \notin {"open", "done"}
        BY <1>0, <1>2, <2>1, <3>1 DEF Once
      <3>3. CASE pc'[q] = pc[q] /\ tx'[q] = tx[q]
        BY <3>2, <3>3
      <3>4. CASE Proceed(q) \/ Fails(q)
        BY <2>2, <3>1, <3>2, <3>4, Following DEF Usable
      <3>5. ASSUME NEW c \in plan[q], ReceiveCall(q, c) PROVE FALSE
        BY <2>4, <3>5 DEF ReceiveCall, Receive, Steps, Routed
      <3>6. ASSUME NEW p \in Requests, p # q, RequestStep(p) PROVE pc'[q] = pc[q] /\ tx'[q] = tx[q]
        BY <3>6, Frame DEF Others
      <3>7. (\E k \in Keys : SettleToken(k)) \/ Tick \/ UNCHANGED vars => UNCHANGED <<pc, tx>>
        BY DEF SettleToken, Tick, vars, profileVars, service
      <3> QED
        BY <3>3, <3>4, <3>5, <3>6, <3>7 DEF Next, RequestStep
    <2> QED
      BY <2>3, <2>4
  <1> QED
    BY <1>1, <1>2

(* A used link has had its effect. *)
LEMMA AppliedStep ==
  ASSUME TypeOK, Steps, Sent, Overlaps, UsedMeansApplied, [Next]_vars PROVE UsedMeansApplied'
  <1>g. Grown
    BY Growth
  <1>t. link \in [Keys -> Links \cup {None}]
    BY DEF TypeOK
  <1>a. ASSUME NEW k \in Keys, link[k] # None, link[k].state = "used"
        PROVE  \E r \in Requests : Follows(r)' /\ call'[r].key = k /\ Done(r)'
    <2>1. PICK r \in Requests : Follows(r) /\ call[r].key = k /\ Done(r)
      BY <1>a DEF UsedMeansApplied
    <2> QED
      BY <1>g, <2>1 DEF Grown, Follows, Done
  <1>1. ASSUME NEW k \in Keys, link'[k] # None, link'[k].state = "used", ~(link[k] # None /\ link[k].state = "used")
        PROVE  \E r \in Requests : Follows(r)' /\ call'[r].key = k /\ Done(r)'
    <2>1. ASSUME NEW j \in Keys, SettleToken(j) PROVE FALSE
      BY <1>t, <1>1, <2>1 DEF SettleToken, Links
    <2>2. ~(Tick \/ UNCHANGED vars)
      BY <1>1 DEF Tick, vars, mailVars
    <2>3. PICK r \in Requests : RequestStep(r)
      BY <2>1, <2>2 DEF Next, RequestStep
    <2>4. ~SaveToken(r)
      BY <1>t, <1>1 DEF SaveToken, StoreToken
    <2>5. ~Publish(r)
      BY <1>1 DEF Publish
    <2>6. SettleRequest(r)
      BY <1>1, <2>3, <2>4, <2>5, Telling
    <2>7. Follows(r) /\ tx'[r] = "done" /\ link' = Marks(r) /\ UNCHANGED call
      BY <1>1, <2>6 DEF SettleRequest, Settle
    <2>8. Key(r) = k
      BY <1>t, <1>1, <2>7 DEF Marks
    <2> QED
      BY <2>7, <2>8 DEF Follows, Done, Key
  <1> QED
    BY <1>a, <1>1 DEF UsedMeansApplied

------------------------------------------------------------------------------
(* Where the addresses come from *)

(* Rows and proofs of an address change when a transaction commits. *)
LEMMA Moves ==
  ASSUME TypeOK, Steps, Sent, [Next]_vars
  PROVE  \/ UNCHANGED <<row, proven>>
         \/ \E r \in Requests : SettleRequest(r) /\ row' = Applied(r) /\ Done(r)' /\ put[r] \in Writes
  <1>1. ASSUME NEW r \in Requests, RequestStep(r), ~UNCHANGED <<row, proven>>
        PROVE  SettleRequest(r) /\ row' = Applied(r) /\ Done(r)' /\ put[r] \in Writes
    <2>1. SettleRequest(r)
      BY <1>1, Writing DEF Puts
    <2>2. tx[r] = "open" /\ pc[r] # "apply"
      BY <2>1 DEF SettleRequest, Settle, Settleable
    <2>5. put[r] \in Writes
      <3>1. put[r] # None
        BY <2>2 DEF Steps, Routed
      <3> QED
        BY <3>1 DEF TypeOK, ProfileTypeOK
    <2>3. tx \in [Requests -> {"none", "open", "done", "undone"}]
      BY DEF TypeOK, ProfileTypeOK
    <2>4. ~RollBackProfile(r)
      BY <1>1, <2>1, <2>3 DEF SettleRequest, RollBackProfile
    <2> QED
      BY <2>1, <2>3, <2>4, <2>5 DEF SettleRequest, Settle, CommitProfile, Done
  <1>2. (\E k \in Keys : SettleToken(k)) \/ Tick \/ UNCHANGED vars => UNCHANGED <<row, proven>>
    BY DEF SettleToken, Tick, vars, profileVars, mailVars, service
  <1> QED
    BY <1>1, <1>2 DEF Next, RequestStep

(* What a transaction that commits leaves in a row, and what is proven by it. *)
LEMMA Commits ==
  ASSUME TypeOK, Steps, Sent, Written, NEW r \in Requests, SettleRequest(r), row' = Applied(r), Done(r)',
         put[r] \in Writes, NEW u \in Users
  PROVE  /\ u # Target(r) =>
              row'[u] = row[u] /\ \A e \in Emails : <<u, e>> \in proven' <=> <<u, e>> \in proven
         /\ u = Target(r) =>
              \/ row'[u] = None /\ call[r].op \in {"delete", "erase"} /\ call[r].user = u /\ ~Follows(r)
              \/ /\ row[u] # None /\ row'[u] # None
                 /\ \/ /\ call[r].op = "patch" /\ call[r].user = u /\ ~Follows(r)
                       /\ row'[u].email \in {row[u].email, call[r].email}
                    \/ /\ ~Follows(r) /\ UNCHANGED proven
                       /\ row'[u].email = row[u].email /\ row'[u].verified = row[u].verified
                    \/ /\ Follows(r) /\ proven' = proven \cup {<<u, call[r].to>>}
                       /\ row[u] \in Profile /\ row'[u] = Proved(r)
  <1>1. /\ Routed(r) /\ put[r] # None /\ put[r].user = Target(r) /\ row[put[r].user] # None
        /\ put[r].user \in Users
    BY AbsentAssumption DEF Steps, Routed, Writes
  <1>2. proven' = IF Follows(r) THEN proven \cup {<<Key(r).user, call[r].to>>} ELSE proven
    BY DEF SettleRequest, Done
  <1>3. row' = [row EXCEPT ![put[r].user] = IF put[r].gone THEN None ELSE put[r].profile]
    BY <1>1 DEF Applied
  <1>4. ASSUME u # Target(r)
        PROVE  row'[u] = row[u] /\ \A e \in Emails : <<u, e>> \in proven' <=> <<u, e>> \in proven
    BY <1>1, <1>2, <1>3, <1>4 DEF TypeOK, ProfileTypeOK, Target
  <1>5. ASSUME u = Target(r), put[r].gone
        PROVE  row'[u] = None /\ call[r].op \in {"delete", "erase"} /\ call[r].user = u /\ ~Follows(r)
    <2>1. call[r].op \in {"delete", "erase"} /\ ~Follows(r)
      BY <1>1, <1>5 DEF Written, Follows
    <2> QED
      BY <1>1, <1>3, <1>5, <2>1 DEF TypeOK, ProfileTypeOK, Target
  <1>6. ASSUME u = Target(r), ~put[r].gone
        PROVE  /\ row[u] # None /\ row'[u] # None
               /\ \/ /\ call[r].op = "patch" /\ call[r].user = u /\ ~Follows(r)
                     /\ row'[u].email \in {row[u].email, call[r].email}
                  \/ /\ ~Follows(r) /\ UNCHANGED proven
                     /\ row'[u].email = row[u].email /\ row'[u].verified = row[u].verified
                  \/ /\ Follows(r) /\ proven' = proven \cup {<<u, call[r].to>>}
                     /\ row[u] \in Profile /\ row'[u] = Proved(r)
    <2>1. row'[u] = put[r].profile /\ put[r].profile \in Profile /\ row[u] \in Profile
      BY <1>1, <1>3, <1>6 DEF TypeOK, ProfileTypeOK, Writes
    <2>2. row'[u] # None /\ row[u] # None
      BY <2>1, AbsentAssumption
    <2>3. Writ(r)
      BY DEF Written
    <2>4. call[r] \in Calls
      <3>1. call[r] # None
        BY <1>1 DEF Routed, Over
      <3> QED
        BY <3>1 DEF TypeOK
    <2>5. call[r].op \in {"patch", "upload", "reset", "verify", "confirm"}
      BY <1>1, <1>6, <2>3, <2>4, CallFacts DEF Writ, Routed
    <2>6. call[r] # None
      BY <2>4, AbsentAssumption
    <2>7. CASE call[r].op = "patch"
      BY <1>1, <1>6, <2>1, <2>2, <2>3, <2>7 DEF Writ, Follows, Target
    <2>8. CASE call[r].op \in {"upload", "reset"}
      <3>1. ~Follows(r) /\ UNCHANGED proven
        BY <1>2, <2>8 DEF Follows
      <3>2. row'[u] = [row[u] EXCEPT !.avatar = NewAvatar(r)]
        BY <1>1, <1>6, <2>1, <2>3, <2>8 DEF Writ
      <3> QED
        BY <2>1, <2>2, <3>1, <3>2 DEF Profile
    <2>9. CASE call[r].op \in {"verify", "confirm"}
      <3>1. Follows(r)
        BY <2>6, <2>9 DEF Follows
      <3> QED
        BY <1>1, <1>2, <1>6, <2>1, <2>2, <2>3, <3>1 DEF Writ, Target
    <2> QED
      BY <2>5, <2>7, <2>8, <2>9
  <1> QED
    BY <1>4, <1>5, <1>6

(* An excuse does not go away. *)
LEMMA ExcusedStays ==
  ASSUME Grown, NEW u \in Users, Excused(u) PROVE Excused(u)'
  <1>1. CASE PatchedUser(u)
    <2>1. PICK r \in Requests :
            /\ call[r] # None /\ "user" \in DOMAIN call[r] /\ call[r].user = u
            /\ call[r].op = "patch" /\ Done(r)
      BY <1>1 DEF PatchedUser, On
    <2>2. call'[r] = call[r] /\ Done(r)'
      BY <2>1 DEF Grown, Done
    <2>3. r \in On(u)'
      BY <2>1, <2>2 DEF On
    <2> QED
      BY <2>1, <2>2, <2>3 DEF Excused, PatchedUser
  <1>2. CASE Twin(u)
    <2>1. PICK r \in Requests, q \in Requests :
            /\ got[r] # None /\ got[q] # None
            /\ got[r].key = got[q].key /\ got[r].to # got[q].to
            /\ got[r].key.user = u /\ got[r].key.kind = "change"
      BY <1>2 DEF Twin
    <2>2. got'[r] = got[r] /\ got'[q] = got[q]
      BY <2>1 DEF Grown
    <2> QED
      BY <2>1, <2>2 DEF Excused, Twin
  <1> QED
    BY <1>1, <1>2 DEF Excused

(* The link that a request follows was mailed to the address it proves. *)
LEMMA Followed ==
  ASSUME TypeOK, Steps, Sent, Origins, NEW r \in Requests, Follows(r), tx[r] # "none",
         ~Excused(Key(r).user)
  PROVE  LET u == Key(r).user IN
         /\ u \in Users /\ call[r].to \in Emails
         /\ call[r].op = "verify" => call[r].to = Home[u] \/ <<u, call[r].to>> \in proven
         /\ call[r].op = "confirm" => call[r].to = link[Key(r)].pending
  <1> DEFINE m == [to |-> call[r].to, key |-> Key(r)]
  <1>1. Key(r) \in Keys /\ Key(r).user \in Users /\ call[r].to \in Emails /\ m \in mail /\ link[Key(r)] # None
    BY Given DEF Steps, Routed, Keys, Kept
  <1>2. call[r].op = "confirm" <=> Key(r).kind = "change"
    <2>1. call[r] \in Calls
      BY DEF Follows, TypeOK
    <2> QED
      BY <2>1, CallFacts DEF Follows, Key
  <1>3. ASSUME call[r].op = "verify"
        PROVE  call[r].to = Home[Key(r).user] \/ <<Key(r).user, call[r].to>> \in proven
    <2>1. Key(r).kind = "verify"
      BY <1>1, <1>2, <1>3 DEF Keys
    <2>2. Shown(Key(r).user, m)
      BY <1>1 DEF Origins
    <2>3. m # None
      BY <1>1, AbsentAssumption DEF TypeOK
    <2> QED
      BY <2>1, <2>2, <2>3 DEF Shown
  <1>4. ASSUME call[r].op = "confirm" PROVE call[r].to = link[Key(r)].pending
    <2>1. PICK q \in Requests : got[q] # None /\ got[q].key = Key(r) /\ got[q].to = link[Key(r)].pending
      BY <1>1, <1>2, <1>4 DEF Sent
    <2>2. PICK p \in Requests : m = got[p]
      BY <1>1, <1>2, <1>4 DEF Sent
    <2>3. m # None
      BY <1>1, AbsentAssumption DEF TypeOK
    <2>4. ~Twin(Key(r).user)
      BY DEF Excused
    <2> QED
      BY <1>2, <1>4, <2>1, <2>2, <2>3, <2>4 DEF Twin
  <1> QED
    BY <1>1, <1>3, <1>4

(* What is known of an address stays so. *)
LEMMA KnownStep ==
  ASSUME TypeOK, Steps, Sent, Overlaps, Written, Origins, [Next]_vars, NEW u \in Users, ~Excused(u)'
  PROVE  Known(u)'
  <1>g. Grown
    BY Growth
  <1>1. ~Excused(u) /\ Known(u)
    BY <1>g, ExcusedStays DEF Origins
  <1>2. CASE UNCHANGED <<row, proven>>
    BY <1>1, <1>2 DEF Known
  <1>3. ASSUME NEW r \in Requests, SettleRequest(r), row' = Applied(r), Done(r)', put[r] \in Writes
        PROVE  Known(u)'
    <2>1. CASE u # Target(r)
      <3>1. row'[u] = row[u] /\ \A e \in Emails : <<u, e>> \in proven' <=> <<u, e>> \in proven
        BY <1>3, <2>1, Commits
      <3>2. row[u] # None => row[u].email \in Emails
        BY DEF TypeOK, ProfileTypeOK, Profile
      <3> QED
        BY <1>1, <3>1, <3>2 DEF Known
    <2>2. CASE u = Target(r)
      <3>1. CASE row'[u] = None
        BY <3>1 DEF Known
      <3>2. CASE call[r].op = "patch" /\ call[r].user = u /\ ~Follows(r)
        <4>1. call[r] # None /\ call'[r] = call[r] /\ call[r] \in Calls
          <5>1. call[r] # None
            BY <1>3 DEF SettleRequest, Settle, Settleable, Steps, Routed, Over
          <5> QED
            BY <1>g, <5>1 DEF Grown, TypeOK
        <4>2. "user" \in DOMAIN call[r]
          BY <3>2, <4>1, CallFacts
        <4> QED
          BY <1>3, <3>2, <4>1, <4>2 DEF Excused, PatchedUser, On
      <3>3. CASE /\ row[u] # None /\ UNCHANGED proven
                 /\ row'[u].email = row[u].email /\ row'[u].verified = row[u].verified
        BY <1>1, <3>3 DEF Known
      <3>4. CASE /\ Follows(r) /\ proven' = proven \cup {<<u, call[r].to>>}
                 /\ row[u] \in Profile /\ row'[u] = Proved(r)
        <4>1. Key(r).user = u /\ row[u] # None /\ tx[r] # "none"
          BY <1>3, <2>2, <3>4, AbsentAssumption DEF Target, SettleRequest, Settle, Settleable
        <4>2. CASE call[r].op = "verify"
          <5>1. row'[u].email = row[u].email
            BY <3>4, <4>1, <4>2 DEF Proved, Verified, Profile
          <5>2. call[r].to = Home[u] \/ <<u, call[r].to>> \in proven
            BY <1>1, <3>4, <4>1, <4>2, Followed
          <5>3. call[r].to \in Emails
            BY <1>1, <3>4, <4>1, Followed
          <5> QED
            BY <1>1, <3>4, <4>1, <5>1, <5>2, <5>3 DEF Known
        <4>3. CASE call[r].op = "confirm"
          <5>1. row'[u].email = link[Key(r)].pending
            BY <3>4, <4>1, <4>3 DEF Proved, Moved, Profile
          <5>2. call[r].to = link[Key(r)].pending
            BY <1>1, <3>4, <4>1, <4>3, Followed
          <5> QED
            BY <3>4, <5>1, <5>2 DEF Known
        <4> QED
          BY <3>4, <4>2, <4>3 DEF Follows
      <3> QED
        BY <1>3, <2>2, <3>1, <3>2, <3>3, <3>4, Commits
    <2> QED
      BY <2>1, <2>2
  <1> QED
    BY <1>2, <1>3, Moves

(* Verification mail goes to an address the account was registered with, or *)
(* one that was proven.                                                     *)
LEMMA OriginsStep ==
  ASSUME TypeOK, Steps, Sent, Overlaps, Written, Origins, [Next]_vars PROVE Origins'
  <1>g. Grown
    BY Growth
  <1>1. SUFFICES ASSUME NEW u \in Users, ~Excused(u)'
                 PROVE  /\ Known(u)'
                        /\ \A m \in mail' : Shown(u, m)'
                        /\ \A q \in Requests : Shown(u, got[q])'
    BY DEF Origins
  <1>2. /\ ~Excused(u) /\ Known(u)
        /\ \A m \in mail : Shown(u, m)
        /\ \A q \in Requests : Shown(u, got[q])
    BY <1>g, <1>1, ExcusedStays DEF Origins
  <1>3. ASSUME NEW m, Shown(u, m) PROVE Shown(u, m)'
    BY <1>3, <1>g DEF Shown, Grown
  <1>4. ASSUME NEW m \in mail' PROVE Shown(u, m)'
    <2>1. m \in mail \/ \E r \in Requests : got[r] \in Mail /\ m = got[r]
      <3>1. ASSUME NEW r \in Requests, RequestStep(r), m \notin mail PROVE got[r] \in Mail /\ m = got[r]
        <4>1. Publish(r)
          BY <1>4, <3>1, Telling DEF SaveToken, SettleRequest
        <4>2. got[r] \in Mail
          BY <4>1, Given DEF Publish
        <4> QED
          BY <1>4, <3>1, <4>1, <4>2 DEF Publish, Mail
      <3>2. (\E k \in Keys : SettleToken(k)) \/ Tick \/ UNCHANGED vars => UNCHANGED mail
        BY DEF SettleToken, Tick, vars, mailVars
      <3> QED
        BY <1>4, <3>1, <3>2 DEF Next, RequestStep
    <2> QED
      BY <1>2, <1>3, <2>1
  <1>5. ASSUME NEW q \in Requests PROVE Shown(u, got[q])'
    <2>1. CASE got'[q] = got[q]
      BY <1>2, <2>1, <1>g DEF Shown, Grown
    <2>2. CASE got'[q] # got[q]
      <3>1. PICK r \in Requests : LookUpByEmail(r) \/ CheckFree(r)
        <4>1. (\E k \in Keys : SettleToken(k)) \/ Tick \/ UNCHANGED vars => UNCHANGED got
          BY DEF SettleToken, Tick, vars, mailVars
        <4> QED
          BY <2>2, <4>1, Telling DEF Next, RequestStep
      <3>2. got \in [Requests -> Mail \cup {None}] /\ UNCHANGED proven
        BY <3>1 DEF TypeOK, LookUpByEmail, CheckFree
      <3>3. CASE CheckFree(r)
        <4>1. r = q /\ got'[q] = [key |-> TokenOf(call[r].user, "change"), to |-> call[r].email]
          BY <2>2, <3>2, <3>3 DEF CheckFree, Make
        <4> QED
          BY <4>1 DEF Shown, TokenOf
      <3>4. CASE LookUpByEmail(r)
        <4>1. PICK v \in Owner(call[r].email) :
                r = q /\ got'[q] = [key |-> TokenOf(v, "verify"), to |-> row[v].email]
          BY <2>2, <3>2, <3>4 DEF LookUpByEmail, Make
        <4>2. v = u => row[u] # None
          BY <4>1 DEF Owner
        <4> QED
          BY <1>2, <3>2, <4>1, <4>2 DEF Shown, TokenOf, Known
      <3> QED
        BY <3>1, <3>3, <3>4
    <2> QED
      BY <2>1, <2>2
  <1> QED
    BY <1>1, <1>4, <1>5, KnownStep

------------------------------------------------------------------------------
(* Why rows and addresses have gone *)

(* A request that has erased an account, or taken an address, has. *)
LEMMA CausesStay ==
  ASSUME TypeOK, Steps, Grown, NEW q \in Requests
  PROVE  /\ \A u : Erases(q, u) => Erases(q, u)'
         /\ \A e : Takes(q, e) => Takes(q, e)'
  <1>1. ASSUME Done(q) PROVE Done(q)' /\ call'[q] = call[q]
    <2>1. call[q] # None
      BY <1>1 DEF Done, Steps, Routed, Over
    <2> QED
      BY <1>1, <2>1 DEF Done, Grown
  <1>2. ASSUME Done(q), call[q].op = "confirm" PROVE link'[Key(q)].pending = link[Key(q)].pending
    <2>1. Follows(q)
      BY <1>2 DEF Follows, Done, Steps, Routed, Over
    <2>2. Key(q) \in Keys /\ Kept(Key(q))
      BY <1>2, <2>1, Given DEF Done, Steps, Routed
    <2> QED
      BY <2>2 DEF Grown
  <1> QED
    BY <1>1, <1>2 DEF Erases, Takes, Key

(* An account goes because a request erases it. *)
LEMMA ErasedStep ==
  ASSUME TypeOK, Steps, Sent, Overlaps, Written, Causes, [Next]_vars, lost' = 0,
         NEW u \in Users, row'[u] = None
  PROVE  \E q \in Requests : Erases(q, u)'
  <1>g. Grown
    BY Growth
  <1>1. CASE row[u] = None
    <2>1. PICK q \in Requests : Erases(q, u)
      BY <1>g, <1>1 DEF Causes, Grown
    <2> QED
      BY <1>g, <2>1, CausesStay
  <1>2. CASE row[u] # None
    <2>1. PICK r \in Requests : SettleRequest(r) /\ row' = Applied(r) /\ Done(r)' /\ put[r] \in Writes
      BY <1>2, Moves
    <2>2. u = Target(r)
      BY <1>2, <2>1, Commits
    <2>3. call[r].op \in {"delete", "erase"} /\ call[r].user = u
      BY <2>1, <2>2, Commits
    <2>4. call'[r] = call[r]
      BY <2>1 DEF SettleRequest, Settle
    <2> QED
      BY <2>1, <2>3, <2>4 DEF Erases, Done
  <1> QED
    BY <1>1, <1>2

(* An address that a change was asked for while it was free is an account's *)
(* because a request takes it.                                              *)
LEMMA TakenStep ==
  ASSUME TypeOK, Steps, Sent, Overlaps, Written, Causes, [Next]_vars, lost' = 0,
         NEW r \in Requests, got'[r] # None, got'[r].key.kind = "change",
         NEW e \in Emails, got'[r].to = e,
         NEW u \in Users, row'[u] # None, row'[u].email = e
  PROVE  \E q \in Requests : Takes(q, e)'
  <1>g. Grown
    BY Growth
  <1>1. ASSUME got'[r] = got[r], row[u] # None, row[u].email = row'[u].email
        PROVE  \E q \in Requests : Takes(q, e)'
    <2>1. PICK q \in Requests : Takes(q, e)
      BY <1>g, <1>1 DEF Causes, Grown
    <2> QED
      BY <1>g, <2>1, CausesStay
  <1>2. CASE got'[r] # got[r]
    <2>1. PICK p \in Requests : LookUpByEmail(p) \/ CheckFree(p)
      <3>1. (\E k \in Keys : SettleToken(k)) \/ Tick \/ UNCHANGED vars => UNCHANGED got
        BY DEF SettleToken, Tick, vars, mailVars
      <3> QED
        BY <1>2, <3>1, Telling DEF Next, RequestStep
    <2>2. got \in [Requests -> Mail \cup {None}] /\ UNCHANGED row
      BY <2>1 DEF TypeOK, LookUpByEmail, CheckFree, service
    <2>3. ~LookUpByEmail(p)
      BY <1>2, <2>2 DEF LookUpByEmail, Make, TokenOf
    <2>4. CheckFree(p)
      BY <2>1, <2>3
    <2>5. p = r /\ Owner(call[p].email) = {} /\ got'[r].to = call[p].email
      BY <1>2, <2>2, <2>4 DEF CheckFree, Make
    <2> QED
      BY <2>2, <2>5 DEF Owner
  <1>3. CASE got'[r] = got[r] /\ ~(row[u] # None /\ row[u].email = row'[u].email)
    <2>1. PICK q \in Requests : SettleRequest(q) /\ row' = Applied(q) /\ Done(q)' /\ put[q] \in Writes
      BY <1>3, Moves
    <2>2. u = Target(q)
      BY <1>3, <2>1, Commits
    <2>3. call'[q] = call[q] /\ Routed(q) /\ tx[q] = "open"
      BY <2>1 DEF SettleRequest, Settle, Settleable, Steps
    <2>4. CASE call[q].op = "patch" /\ row'[u].email = call[q].email
      BY <2>1, <2>3, <2>4 DEF Takes, Done
    <2>5. CASE Follows(q) /\ row[u] \in Profile /\ row'[u] = Proved(q)
      <3>1. CASE call[q].op = "verify"
        <4>1. row'[u].email = row[u].email
          BY <2>2, <2>5, <3>1 DEF Proved, Verified, Profile, Target
        <4> QED
          BY <1>3, <2>5, <4>1, AbsentAssumption
      <3>2. CASE call[q].op = "confirm"
        <4>1. row'[u].email = link[Key(q)].pending
          BY <2>2, <2>5, <3>2 DEF Proved, Moved, Profile, Target
        <4>2. Key(q) \in Keys /\ Kept(Key(q))
          BY <2>3, <2>5, Given DEF Routed
        <4>3. link'[Key(q)].pending = link[Key(q)].pending /\ Key(q)' = Key(q)
          BY <1>g, <2>3, <4>2 DEF Grown, Key
        <4> QED
          BY <2>1, <2>3, <3>2, <4>1, <4>3 DEF Takes, Done
      <3> QED
        BY <2>5, <3>1, <3>2 DEF Follows
    <2>6. \/ call[q].op = "patch" /\ row'[u].email = call[q].email
          \/ Follows(q) /\ row[u] \in Profile /\ row'[u] = Proved(q)
      BY <1>3, <2>1, <2>2, Commits
    <2> QED
      BY <2>4, <2>5, <2>6
  <1> QED
    BY <1>1, <1>2, <1>3

(* Nothing is gone or taken without a cause, while no call fails. *)
LEMMA CausesStep ==
  ASSUME TypeOK, Steps, Sent, Overlaps, Written, Causes, [Next]_vars PROVE Causes'
  <1>1. ASSUME lost' = 0, NEW u \in Users, row'[u] = None PROVE \E q \in Requests : Erases(q, u)'
    BY <1>1, ErasedStep
  <1>2. ASSUME lost' = 0, NEW r \in Requests, got'[r] # None, got'[r].key.kind = "change",
               NEW e \in Emails, got'[r].to = e, NEW u \in Users, row'[u] # None, row'[u].email = e
        PROVE  \E q \in Requests : Takes(q, e)'
    BY <1>2, TakenStep
  <1> QED
    BY <1>1, <1>2 DEF Causes

------------------------------------------------------------------------------
(* Success that had no effect *)

(* A request is answered without an effect because the account has gone or  *)
(* the address is taken.                                                    *)
LEMMA Answering ==
  ASSUME TypeOK, Steps, NEW q \in Requests, Proceed(q) \/ Fails(q), Follows(q),
         pc'[q] = "answered", tx'[q] \in {"none", "undone"}, lost' = 0
  PROVE  \/ pc[q] = "answered" /\ tx[q] \in {"none", "undone"}
         \/ ~Done(q) /\ Kept(Key(q)) /\ UNCHANGED <<call, tx>> /\ Refuses(q)
         \/ ~Done(q) /\ Kept(Key(q)) /\ row[Key(q).user] = None
  <1> DEFINE Goal ==
         \/ pc[q] = "answered" /\ tx[q] \in {"none", "undone"}
         \/ ~Done(q) /\ Kept(Key(q)) /\ UNCHANGED <<call, tx>> /\ Refuses(q)
         \/ ~Done(q) /\ Kept(Key(q)) /\ row[Key(q).user] = None
  <1>t. /\ tx \in [Requests -> {"none", "open", "done", "undone"}] /\ lost \in Nat
        /\ pc \in [Requests -> Over \cup {"idle", "begin", "update", "store", "unstore", "point",
             "remove", "free", "save", "publish", "fetch", "mark", "apply"}]
    BY BoundsAssumption DEF TypeOK, ProfileTypeOK
  <1>r. Routed(q)
    BY DEF Steps
  <1> USE DEF Go, Lose, service, profileVars
  <1>1. ASSUME CheckVerification(q) \/ CheckEmailChange(q) PROVE FALSE
    BY <1>1, <1>t DEF CheckVerification, CheckEmailChange, Begins, Check, Expired
  <1>2. ASSUME FetchOld(q) PROVE FALSE
    BY <1>2, <1>t DEF FetchOld
  <1>3. ASSUME MarkLink(q) PROVE Goal
    <2>1. pc[q] = "mark" /\ Kept(Key(q))
      BY <1>3, <1>r DEF MarkLink, Routed
    <2>2. ~Done(q)
      BY <1>r, <2>1 DEF Routed, Done, Over
    <2>3. Refuses(q) /\ UNCHANGED <<call, tx>>
      BY <1>3, <1>t DEF MarkLink
    <2> QED
      BY <2>1, <2>2, <2>3
  <1>4. ASSUME ApplyLink(q) PROVE Goal
    <2>1. pc[q] = "apply" /\ tx[q] = "open" /\ Kept(Key(q))
      BY <1>4, <1>r DEF ApplyLink, Routed
    <2>2. row[Key(q).user] = None
      BY <1>4, <1>t, <2>1 DEF ApplyLink, Save
    <2> QED
      BY <2>1, <2>2 DEF Done
  <1>5. ASSUME SettleRequest(q) PROVE FALSE
    BY <1>5, <1>t DEF SettleRequest, Settle, CommitProfile, RollBackProfile, Settleable
  <1>6. ASSUME AbandonLink(q) \/ LoseAnswer(q) \/ BreakOff(q) PROVE FALSE
    BY <1>6, <1>t DEF AbandonLink, LoseAnswer, BreakOff
  <1> QED
    BY <1>1, <1>2, <1>3, <1>4, <1>5, <1>6, FollowingSteps

(* Success is answered without an effect only if another request had one. *)
LEMMA EmptyStep ==
  ASSUME TypeOK, Steps, Sent, Overlaps, Causes, EmptySuccess, [Next]_vars PROVE EmptySuccess'
  <1>g. Grown
    BY Growth
  <1>1. SUFFICES ASSUME NEW r \in Requests, Follows(r)', pc'[r] = "answered",
                        tx'[r] \in {"none", "undone"}, lost' = 0
                 PROVE  \E q \in Requests \ {r} : (Done(q) /\ Took(q, r))'
    BY DEF EmptySuccess
  <1>2. lost = 0
    BY <1>1, <1>g DEF Grown
  <1>3. Follows(r) /\ Key(r)' = Key(r) /\ Key(r) \in Keys
    <2>1. call[r] # None
      <3>1. ASSUME call[r] = None PROVE FALSE
        <4>1. pc[r] = "idle" /\ tx[r] = "none"
          BY <3>1 DEF Steps, Routed, Over
        <4>2. PICK p \in Requests : RequestStep(p)
          <5>1. (\E k \in Keys : SettleToken(k)) \/ Tick \/ UNCHANGED vars => UNCHANGED call
            BY DEF SettleToken, Tick, vars, profileVars, service
          <5> QED
            BY <1>1, <3>1, <5>1 DEF Next, RequestStep, Follows
        <4>3. p = r
          BY <1>1, <3>1, <4>2, Frame DEF Others, Follows
        <4>4. PICK c \in plan[r] : ReceiveCall(r, c)
          BY <1>1, <3>1, <4>2, <4>3, InProgress DEF RequestStep, Follows
        <4> QED
          BY <1>1, <4>1, <4>4 DEF ReceiveCall, Receive, Go, TypeOK
      <3> QED
        BY <3>1
    <2>2. call'[r] = call[r]
      BY <2>1, <1>g DEF Grown
    <2> QED
      BY <1>1, <2>1, <2>2, Given DEF Follows, Key
  <1>4. ASSUME NEW q \in Requests \ {r}, Done(q), Took(q, r), Kept(Key(r))
        PROVE  (Done(q) /\ Took(q, r))'
    <2>1. Done(q)' /\ call'[q] = call[q] /\ (Follows(q)' <=> Follows(q)) /\ call[q] # None
      <3>1. call[q] # None
        BY <1>4 DEF Done, Steps, Routed, Over
      <3> QED
        BY <1>4, <3>1, <1>g DEF Grown, Done, Follows
    <2>2. link'[Key(r)].pending = link[Key(r)].pending
      BY <1>3, <1>4, <1>g DEF Grown
    <2>3. Follows(q) => link'[Key(q)].pending = link[Key(q)].pending
      <3>1. Follows(q) => Kept(Key(q)) /\ Key(q) \in Keys
        BY <1>4, Given DEF Done, Steps, Routed
      <3> QED
        BY <3>1, <1>g DEF Grown
    <2> QED
      BY <1>3, <1>4, <2>1, <2>2, <2>3 DEF Took, Key
  <1>5. CASE pc[r] = "answered" /\ tx[r] \in {"none", "undone"}
    <2>1. PICK q \in Requests \ {r} : Done(q) /\ Took(q, r)
      BY <1>2, <1>3, <1>5 DEF EmptySuccess
    <2>2. Kept(Key(r))
      BY <1>3, <1>5 DEF Steps, Routed
    <2> QED
      BY <1>4, <2>1, <2>2
  <1>6. CASE ~(pc[r] = "answered" /\ tx[r] \in {"none", "undone"})
    <2>1. PICK p \in Requests : RequestStep(p)
      <3>1. (\E k \in Keys : SettleToken(k)) \/ Tick \/ UNCHANGED vars => UNCHANGED <<pc, tx>>
        BY DEF SettleToken, Tick, vars, profileVars, service
      <3> QED
        BY <1>1, <1>6, <3>1 DEF Next, RequestStep
    <2>2. p = r
      BY <1>1, <1>6, <2>1, Frame DEF Others
    <2>3. Proceed(r) \/ Fails(r)
      <3>1. ASSUME NEW c \in plan[r], ReceiveCall(r, c) PROVE FALSE
        BY <1>1, <3>1 DEF ReceiveCall, Receive, Go, TypeOK
      <3> QED
        BY <2>1, <2>2, <3>1 DEF RequestStep
    <2>4. ~Done(r) /\ Kept(Key(r)) /\ (Refuses(r) \/ row[Key(r).user] = None)
      BY <1>1, <1>3, <1>6, <2>3, Answering
    <2>5. PICK q \in Requests \ {r} : Done(q) /\ Took(q, r)
      <3>1. CASE row[Key(r).user] = None
        <4>1. PICK q \in Requests : Erases(q, Key(r).user)
          BY <1>2, <1>3, <3>1 DEF Causes, Keys
        <4>2. ~Follows(q) /\ q # r
          BY <2>4, <4>1 DEF Erases, Follows
        <4> QED
          BY <4>1, <4>2 DEF Erases, Took
      <3>2. CASE PendingTaken(r)
        <4>1. PICK u \in Users : row[u] # None /\ row[u].email = link[Key(r)].pending
          BY <3>2 DEF PendingTaken, Owner
        <4>2. Key(r).kind = "change"
          <5>1. call[r] \in Calls
            BY <1>3 DEF Follows, TypeOK
          <5> QED
            BY <3>2, <5>1, CallFacts DEF PendingTaken, Key
        <4>3. PICK p1 \in Requests : got[p1] # None /\ got[p1].key = Key(r) /\ got[p1].to = link[Key(r)].pending
          BY <1>3, <2>4, <4>2 DEF Sent, Kept
        <4>4. row[u].email \in Emails
          BY <4>1 DEF TypeOK, ProfileTypeOK, Profile
        <4>5. PICK q \in Requests : Takes(q, link[Key(r)].pending)
          BY <1>2, <4>1, <4>2, <4>3, <4>4 DEF Causes
        <4>6. q # r
          BY <2>4, <4>5 DEF Takes
        <4>7. call[q] # None
          BY <4>5 DEF Takes, Done, Steps, Routed, Over
        <4> QED
          BY <4>5, <4>6, <4>7 DEF Takes, Took, Key, Follows
      <3> QED
        BY <2>4, <3>1, <3>2 DEF Refuses
    <2> QED
      BY <1>4, <2>4, <2>5
  <1> QED
    BY <1>5, <1>6

------------------------------------------------------------------------------
(* Pictures *)

(* The request that is in progress on an account keeps its pictures in step *)
(* with its row, or leaves them so.                                         *)
LEMMA MidwayStep ==
  ASSUME TypeOK, Steps, Written, NEW u \in Users, NEW p \in On(u), Proceed(p) \/ Fails(p), lost' = 0,
         Midway(p, u), files[u] \subseteq Uploaded(u), \A f, g \in Uploaded(u) : f = g
  PROVE  /\ Active(p)' => Midway(p, u)'
         /\ ~Active(p)' => Agree(u)'
  <1> DEFINE Goal == (Active(p)' => Midway(p, u)') /\ (~Active(p)' => Agree(u)')
  <1>t. /\ tx \in [Requests -> {"none", "open", "done", "undone"}] /\ lost \in Nat
        /\ pc \in [Requests -> Over \cup {"idle", "begin", "update", "store", "unstore", "point",
             "remove", "free", "save", "publish", "fetch", "mark", "apply"}]
        /\ put \in [Requests -> Writes \cup {None}] /\ files \in [Users -> SUBSET Formats]
        /\ row[u] # None => row[u] \in Profile
    BY BoundsAssumption DEF TypeOK, ProfileTypeOK
  <1>c. /\ p \in Requests /\ call[p] # None /\ call[p].user = u /\ UNCHANGED call /\ Routed(p)
        /\ call[p].op \in {"patch", "upload", "reset", "delete", "erase", "change"} /\ ~Follows(p)
    <2>1. p \in Requests /\ call[p] # None /\ call[p].user = u /\ "user" \in DOMAIN call[p]
      BY DEF On
    <2>2. call[p] \in Calls
      BY <2>1 DEF TypeOK
    <2> QED
      BY <2>1, <2>2, CallFacts, InProgress DEF Follows, Steps
  <1>f. call[p].op = "upload" => files[u] \cup {call[p].format} = {call[p].format} /\ call[p].format # None
    <2>1. ASSUME call[p].op = "upload" PROVE call[p].format \in Uploaded(u) /\ call[p].format # None
      <3>1. call[p].format \in Formats
        BY <1>c, <2>1, CallFacts DEF TypeOK
      <3> QED
        BY <1>c, <2>1, <3>1, NoneAssumption DEF Uploaded
    <2> QED
      BY <2>1
  <1>n. call[p].op \in {"upload", "reset"} =>
          NewAvatar(p)' = NewAvatar(p) /\ NewAvatar(p) = IF call[p].op = "upload" THEN call[p].format ELSE None
    BY <1>c DEF NewAvatar
  <1>1. ASSUME ReadForUpdate(p) \/ ReadForUpload(p) \/ ReadForReset(p) \/ ReadForDelete(p) PROVE Goal
    <2>1. /\ pc[p] = "begin" /\ UNCHANGED service /\ tx[p] = "none"
          /\ pc'[p] = "point" => call[p].op = "reset"
          /\ pc'[p] \in {"refused", "update"} \/ row[u] # None
          /\ pc'[p] \in {"refused", "update", "store", "unstore", "point", "remove"}
          /\ pc'[p] = "unstore" => row[u].avatar # None
          /\ pc'[p] \in {"point", "remove"} => row[u].avatar = None
      BY <1>1, <1>t, <1>c DEF ReadForUpdate, ReadForUpload, ReadForReset, ReadForDelete, Begins, Profiled, Go,
         Routed, Over
    <2>2. Agree(u) /\ Agree(u)' /\ UNCHANGED <<row, files, put, tx>>
      BY <2>1 DEF Midway, Agree, service
    <2>3. pc'[p] \in {"point", "remove"} => files[u] = {}
      BY <2>1, <2>2 DEF Agree
    <2> QED
      BY <1>c, <1>n, <2>1, <2>2, <2>3 DEF Midway, Active, Over
  <1>2. ASSUME UpdateProfile(p) PROVE Goal
    <2> DEFINE q == Patched(u, call[p])
    <2>1. pc[p] = "update" /\ Agree(u) /\ Agree(u)' /\ UNCHANGED <<row, files>> /\ tx[p] = "none"
      BY <1>2, <1>c DEF UpdateProfile, Midway, Agree, Routed, Over
    <2>2. CASE UNCHANGED <<put, tx>> /\ Go(p, "failed")
      BY <1>t, <1>c, <2>1, <2>2 DEF Active, Over, Go
    <2>3. CASE /\ put' = [put EXCEPT ![p] = Write(u, q)] /\ row[u] # None
               /\ tx' = [tx EXCEPT ![p] = "open"] /\ Go(p, "answered")
      <3>1. put'[p] = Write(u, q) /\ tx'[p] = "open" /\ pc'[p] = "answered"
        BY <1>t, <1>c, <2>3 DEF Go
      <3>2. q.avatar = row[u].avatar
        BY <1>t, <2>3, PatchedFields
      <3>3. ~put'[p].gone /\ put'[p].profile.avatar = row[u].avatar
        BY <3>1, <3>2 DEF Write
      <3> QED
        BY <2>1, <2>3, <3>1, <3>3 DEF Active, Midway, Agree, Over
    <2>4. \/ UNCHANGED <<put, tx>> /\ Go(p, "failed")
          \/ row[u] # None /\ Save(p, u, q, "answered")
      BY <1>2, <1>c DEF UpdateProfile
    <2> HIDE DEF q
    <2> QED
      BY <2>2, <2>3, <2>4, SaveEffect
  <1>3. ASSUME Store(p) PROVE Goal
    <2>1. pc[p] = "store" /\ call[p].op = "upload" /\ tx[p] = "none" /\ row[u] # None
      BY <1>3, <1>c DEF Store, Midway, Routed, Over
    <2>2. files' = Stored(p) /\ Go(p, "point") /\ UNCHANGED <<row, put, tx>>
      BY <1>3, <1>t DEF Store, Lose
    <2>3. files'[u] = {call[p].format} /\ pc'[p] = "point"
      BY <1>t, <1>c, <1>f, <2>1, <2>2 DEF Stored, Go
    <2> QED
      BY <1>c, <1>f, <1>n, <2>1, <2>2, <2>3 DEF Midway, Active, Over
  <1>4. ASSUME Unstore(p) PROVE Goal
    <2>1. /\ pc[p] = "unstore" /\ call[p].op \in {"reset", "delete", "erase"} /\ tx[p] = "none"
          /\ row[u] # None /\ row[u].avatar # None /\ Agree(u)
      BY <1>4, <1>c DEF Unstore, Midway, Routed, Over
    <2>2. files[u] = {row[u].avatar}
      BY <2>1 DEF Agree
    <2>3. RemoveOne(u) /\ Go(p, AfterUnstore(p)) /\ UNCHANGED <<row, put, tx>>
      BY <1>4, <1>t, <1>c, <2>2 DEF Unstore, Lose
    <2>4. files'[u] = {} /\ pc'[p] = IF call[p].op = "reset" THEN "point" ELSE "remove"
      BY <1>t, <1>c, <2>2, <2>3 DEF RemoveOne, Go, AfterUnstore
    <2> QED
      BY <1>c, <1>n, <2>1, <2>3, <2>4 DEF Midway, Active, Over
  <1>5. ASSUME PointAvatar(p) PROVE Goal
    <2> DEFINE q == [row[u] EXCEPT !.avatar = NewAvatar(p)]
    <2>1. /\ pc[p] = "point" /\ row[u] # None /\ files[u] = {NewAvatar(p)} \ {None} /\ UNCHANGED files
          /\ Save(p, u, q, "answered")
      BY <1>5, <1>c DEF PointAvatar, Midway
    <2>2. q.email = row[u].email /\ q.avatar = NewAvatar(p)
      BY <1>t, <2>1 DEF Profile
    <2> HIDE DEF q
    <2>3. put' = [put EXCEPT ![p] = Write(u, q)] /\ tx' = [tx EXCEPT ![p] = "open"] /\ Go(p, "answered")
      BY <2>1, <2>2, SaveEffect
    <2>4. put'[p] = Write(u, q) /\ tx'[p] = "open" /\ pc'[p] = "answered"
      BY <1>t, <1>c, <2>3 DEF Go
    <2>5. ~put'[p].gone /\ put'[p].profile.avatar = NewAvatar(p)
      BY <2>2, <2>4 DEF Write
    <2> QED
      BY <2>1, <2>4, <2>5 DEF Active, Midway, Over
  <1>6. ASSUME RemoveProfile(p) PROVE Goal
    <2>1. pc[p] = "remove" /\ row[u] # None /\ files[u] = {} /\ UNCHANGED files
      BY <1>6, <1>c DEF RemoveProfile, Midway
    <2>2. put'[p] = Erasure(u) /\ tx'[p] = "open" /\ pc'[p] = "answered"
      BY <1>6, <1>t, <1>c, <2>1 DEF RemoveProfile, Go
    <2>3. put'[p].gone
      BY <2>2 DEF Erasure
    <2> QED
      BY <2>1, <2>2, <2>3 DEF Active, Midway, Over
  <1>7. ASSUME LookUpByEmail(p) \/ FetchForChange(p) \/ CheckFree(p) \/ SaveToken(p) \/ Publish(p) PROVE Goal
    <2>1. /\ pc[p] \in {"begin", "free", "save", "publish"} /\ UNCHANGED service /\ tx[p] = "none"
          /\ pc'[p] \in {"answered", "refused", "free", "save", "publish"}
      BY <1>7, <1>t, <1>c DEF LookUpByEmail, FetchForChange, CheckFree, SaveToken, Publish, Begins, Go, Routed, Over
    <2>2. Agree(u)' /\ tx'[p] = "none"
      BY <2>1 DEF Midway, Agree, service
    <2> QED
      BY <2>1, <2>2 DEF Midway, Active, Over
  <1>8. ASSUME SettleRequest(p) PROVE Goal
    <2>1. tx[p] = "open" /\ pc[p] \in Over /\ put[p] # None /\ put[p].user = u /\ UNCHANGED <<files, pc>>
      BY <1>8, <1>c DEF SettleRequest, Settle, Settleable, Routed, Target
    <2>2. files[u] = IF put[p].gone THEN {} ELSE {put[p].profile.avatar} \ {None}
      BY <2>1 DEF Midway
    <2>3. row' = Applied(p) /\ tx'[p] = "done"
      BY <1>8, <1>t, <1>c DEF SettleRequest, Settle, CommitProfile, RollBackProfile, Lose
    <2>4. row'[u] = IF put[p].gone THEN None ELSE put[p].profile
      BY <2>1, <2>3 DEF Applied, TypeOK, ProfileTypeOK
    <2>5. ~put[p].gone => put[p].profile # None
      <3>1. put[p] \in Writes
        BY <1>t, <1>c, <2>1
      <3> QED
        BY <3>1, AbsentAssumption DEF Writes
    <2> QED
      BY <2>1, <2>2, <2>3, <2>4, <2>5 DEF Active, Agree
  <1>9. ASSUME Fails(p) PROVE FALSE
    BY <1>9, <1>t DEF Fails, BreakOff, AbandonLink, LoseAnswer, Lose
  <1>10. ~(CheckVerification(p) \/ CheckEmailChange(p) \/ FetchOld(p) \/ MarkLink(p) \/ ApplyLink(p))
    BY <1>c DEF CheckVerification, CheckEmailChange, FetchOld, MarkLink, ApplyLink, Begins, Routed
  <1> HIDE DEF Goal
  <1>z. Goal
    BY <1>1, <1>2, <1>3, <1>4, <1>5, <1>6, <1>7, <1>8, <1>9, <1>10 DEF Proceed, ProfileStep, FlowStep
  <1> QED
    BY <1>z DEF Goal

(* The steps of other requests leave the pictures of an account alone. *)
LEMMA PicturesApart ==
  ASSUME TypeOK, Steps, Sent, Written, NEW u \in Users, NEW p \in Requests, p \notin On(u),
         Proceed(p) \/ Fails(p), Agree(u)
  PROVE  Agree(u)'
  <1>n. [Next]_vars
    BY DEF Next
  <1>t. /\ files \in [Users -> SUBSET Formats] /\ row \in [Users -> Profile \cup {None}]
        /\ pc[p] # "idle" => call[p] \in Calls /\ call[p] # None
    BY CallAt DEF TypeOK, ProfileTypeOK
  <1>1. files'[u] = files[u]
    <2>1. ASSUME Store(p) \/ Unstore(p) PROVE files'[u] = files[u]
      <3>1. call[p] \in Calls /\ call[p] # None /\ call[p].op \in {"upload", "reset", "delete", "erase"}
        BY <1>t, <2>1 DEF Store, Unstore, Steps, Routed
      <3>2. call[p].user # u
        BY <3>1, CallFacts DEF On
      <3> QED
        BY <1>t, <2>1, <3>2 DEF Store, Stored, Unstore, RemoveOne
    <2> QED
      BY <2>1, Telling DEF RequestStep
  <1>2. CASE UNCHANGED row
    BY <1>1, <1>2 DEF Agree
  <1>3. ASSUME NEW r \in Requests, SettleRequest(r), row' = Applied(r), Done(r)', put[r] \in Writes
        PROVE  Agree(u)'
    <2>1. CASE u # Target(r)
      <3>1. row'[u] = row[u]
        BY <1>3, <2>1, Commits
      <3> QED
        BY <1>1, <3>1 DEF Agree
    <2>2. CASE u = Target(r)
      <3>1. tx[r] = "open" /\ tx'[r] = "done"
        BY <1>3 DEF SettleRequest, Settle, Settleable, Done
      <3>2. r = p
        BY <3>1, Frame DEF RequestStep, Others
      <3>3. Routed(r) /\ call[r] \in Calls /\ call[r] # None
        BY <1>t, <3>1, <3>2 DEF Steps, Routed, Over
      <3>4. Follows(r)
        <4>1. ~Follows(r) => "user" \in DOMAIN call[r]
          BY <3>1, <3>3, CallFacts DEF Routed, Follows
        <4> QED
          BY <2>2, <3>2, <3>3, <4>1 DEF On, Target
      <3>5. row[u] \in Profile /\ row'[u] = Proved(r) /\ Key(r).user = u /\ row'[u] # None /\ row[u] # None
        BY <1>3, <2>2, <3>3, <3>4, Commits DEF Target, Follows
      <3>6. row'[u].avatar = row[u].avatar
        BY <3>5 DEF Proved, Moved, Verified, Profile
      <3> QED
        BY <1>1, <3>5, <3>6 DEF Agree
    <2> QED
      BY <2>1, <2>2
  <1> QED
    BY <1>n, <1>2, <1>3, Moves

(* The pictures of an account are those its row names, and those the        *)
(* request that is in progress leaves.                                      *)
LEMMA PicturesStep ==
  ASSUME TypeOK, Steps, Sent, Overlaps, Written, Pictures, [Next]_vars PROVE Pictures'
  <1>g. Grown
    BY Growth
  <1>1. SUFFICES ASSUME NEW u \in Users, Calm(u)'
                 PROVE  /\ files'[u] \subseteq Uploaded(u)'
                        /\ (\A r \in On(u) : ~Active(r))' => Agree(u)'
                        /\ \A r \in On(u)' : Active(r)' => Midway(r, u)'
    BY DEF Pictures
  <1>2. /\ On(u) \subseteq On(u)' /\ \A r \in On(u) : call'[r] = call[r] /\ call[r] # None
        /\ \A r \in On(u)' : call[r] # None => r \in On(u)
    BY <1>g DEF Grown, On
  <1>3. Uploaded(u) \subseteq Uploaded(u)'
    <2>1. ASSUME NEW f \in Uploaded(u) PROVE f \in Uploaded(u)'
      <3>1. PICK r \in On(u) : call[r].op = "upload" /\ f = call[r].format
        BY <2>1 DEF Uploaded
      <3> QED
        BY <1>2, <3>1 DEF Uploaded
    <2> QED
      BY <2>1
  <1>4. lost' = 0 /\ lost = 0 /\ \A r \in On(u) : met'[r] = {} /\ met[r] = {} /\ r \in Requests
    <2>1. lost' = 0 /\ \A r \in On(u)' : met'[r] = {}
      BY <1>1 DEF Calm
    <2> QED
      BY <1>2, <1>g, <2>1 DEF Grown, On
  <1>5. Calm(u)
    <2>1. \A f, g \in Uploaded(u)' : f = g
      BY <1>1 DEF Calm
    <2> QED
      BY <1>3, <1>4, <2>1 DEF Calm
  <1>6. /\ files[u] \subseteq Uploaded(u)
        /\ (\A r \in On(u) : ~Active(r)) => Agree(u)
        /\ \A r \in On(u) : Active(r) => Midway(r, u)
    BY <1>5 DEF Pictures
  <1>7. ASSUME NEW p \in Requests, RequestStep(p), NEW r \in On(u)', r # p, ~Active(r) PROVE ~Active(r)'
    <2>1. pc'[r] = pc[r] /\ tx'[r] = tx[r] /\ call'[r] = call[r]
      BY <1>7, Frame DEF Others, On
    <2> QED
      BY <1>7, <2>1 DEF Active
  <1>8. ASSUME NEW p \in Requests, RequestStep(p) PROVE files'[u] \subseteq Uploaded(u)'
    <2>1. CASE UNCHANGED files
      BY <1>3, <1>6, <2>1
    <2>2. CASE Store(p)
      <3>1. call[p] \in Calls /\ call[p] # None /\ call[p].op = "upload"
        BY <2>2, CallAt DEF Store, Steps, Routed
      <3>2. call[p].user = u => call[p].format \in Uploaded(u)
        BY <3>1, CallFacts DEF Uploaded, On
      <3>3. files'[u] = files[u] \/ (call[p].user = u /\ files'[u] = files[u] \cup {call[p].format})
        BY <2>2 DEF Store, Stored, TypeOK, ProfileTypeOK
      <3> QED
        BY <1>3, <1>6, <3>2, <3>3
    <2>3. CASE Unstore(p)
      <3>1. files'[u] \subseteq files[u]
        BY <2>3 DEF Unstore, RemoveOne, TypeOK, ProfileTypeOK
      <3> QED
        BY <1>3, <1>6, <3>1
    <2> QED
      BY <1>8, <2>1, <2>2, <2>3, Telling
  <1>9. ASSUME NEW p \in On(u), Proceed(p) \/ Fails(p)
        PROVE  /\ (\A r \in On(u) : ~Active(r))' => Agree(u)'
               /\ \A r \in On(u)' : Active(r)' => Midway(r, u)'
    <2>1. p \in Requests /\ Active(p) /\ Midway(p, u) /\ On(u)' = On(u)
      BY <1>4, <1>6, <1>9, InProgress DEF On
    <2>2. (Active(p)' => Midway(p, u)') /\ (~Active(p)' => Agree(u)')
      BY <1>4, <1>5, <1>6, <1>9, <2>1, MidwayStep DEF Calm
    <2>3. \A r \in On(u)' : r # p => ~Active(r)
      BY <1>4, <2>1 DEF Overlaps
    <2>4. \A r \in On(u)' : r # p => ~Active(r)'
      BY <1>7, <1>9, <2>1, <2>3 DEF RequestStep
    <2> QED
      BY <2>1, <2>2, <2>4
  <1>10. ASSUME NEW p \in Requests, p \notin On(u), Proceed(p) \/ Fails(p)
         PROVE  /\ (\A r \in On(u) : ~Active(r))' => Agree(u)'
                /\ \A r \in On(u)' : Active(r)' => Midway(r, u)'
    <2>1. Active(p) /\ On(u)' = On(u)
      BY <1>10, InProgress DEF On
    <2>2. \A r \in On(u) : r # p /\ ~Active(r)
      BY <1>4, <1>10, <2>1 DEF Overlaps
    <2>3. \A r \in On(u)' : ~Active(r)'
      BY <1>7, <1>10, <2>1, <2>2 DEF RequestStep
    <2> QED
      BY <1>6, <1>10, <2>2, <2>3, PicturesApart
  <1>11. ASSUME NEW p \in Requests, NEW c \in plan[p], ReceiveCall(p, c)
         PROVE  /\ (\A r \in On(u) : ~Active(r))' => Agree(u)'
                /\ \A r \in On(u)' : Active(r)' => Midway(r, u)'
    <2>1. call[p] = None /\ p \notin On(u) /\ pc'[p] = "begin" /\ UNCHANGED <<row, files>>
      BY <1>11, <1>2 DEF ReceiveCall, Receive, Go, service, Steps, Routed, TypeOK
    <2>2. ASSUME NEW r \in On(u) PROVE r \in Requests /\ r # p /\ ~Active(r)
      <3>1. r \in Requests /\ r # p
        BY <1>4, <2>1
      <3>2. p \in met'[r] \/ ~Active(r)
        BY <1>11, <3>1 DEF ReceiveCall, Receive, TypeOK, ProfileTypeOK
      <3> QED
        BY <1>4, <3>1, <3>2
    <2>3. Agree(u) /\ Agree(u)'
      BY <1>6, <2>1, <2>2 DEF Agree
    <2>4. \A r \in On(u)' : r = p \/ ~Active(r)'
      <3>1. ASSUME NEW r \in On(u)', r # p PROVE ~Active(r)'
        <4>1. r \in On(u)
          <5>1. call'[r] # None /\ r \in Requests
            BY DEF On
          <5>2. call'[r] = call[r]
            BY <1>11, <3>1, <5>1, Frame DEF Others, RequestStep
          <5> QED
            BY <1>2, <5>1, <5>2
        <4> QED
          BY <1>7, <1>11, <2>2, <3>1, <4>1 DEF RequestStep
      <3> QED
        BY <3>1
    <2>5. Midway(p, u)'
      BY <2>1, <2>3 DEF Midway, Over
    <2> QED
      BY <2>3, <2>4, <2>5
  <1>12. ASSUME (\E k \in Keys : SettleToken(k)) \/ Tick \/ UNCHANGED vars
         PROVE  /\ files'[u] \subseteq Uploaded(u)'
                /\ (\A r \in On(u) : ~Active(r))' => Agree(u)'
                /\ \A r \in On(u)' : Active(r)' => Midway(r, u)'
    <2>1. UNCHANGED <<row, files, put, tx, pc, call>>
      BY <1>12 DEF SettleToken, Tick, vars, profileVars, service
    <2>2. On(u)' = On(u) /\ (Agree(u)' <=> Agree(u))
      BY <2>1 DEF On, Agree
    <2>3. \A r \in On(u) : (Active(r)' <=> Active(r)) /\ NewAvatar(r)' = NewAvatar(r)
      BY <2>1 DEF Active, NewAvatar
    <2>4. \A r \in On(u) : Midway(r, u)' <=> Midway(r, u)
      BY <2>1, <2>2, <2>3 DEF Midway
    <2> QED
      BY <1>3, <1>6, <2>1, <2>2, <2>3, <2>4
  <1> QED
    BY <1>8, <1>9, <1>10, <1>11, <1>12 DEF Next, RequestStep

------------------------------------------------------------------------------
(* The inductive invariant *)

IInv ==
  /\ TypeOK /\ Steps /\ Locks /\ Overlaps /\ Written /\ Sent
  /\ Origins /\ Used /\ Once /\ UsedMeansApplied /\ Causes /\ EmptySuccess
  /\ Pictures

(* It holds initially. *)
LEMMA InitInv == Init => IInv
  <1> SUFFICES ASSUME Init PROVE IInv
    OBVIOUS
  <1> USE DEF Init, InitProfiles
  <1>1. TypeOK
    BY TypeInit
  <1>2. Steps
    BY DEF Steps, Routed, Follows, Over
  <1>3. Locks /\ Overlaps /\ Written
    BY DEF Locks, Overlaps, Active, Written, Writ
  <1>4. Sent
    BY DEF Sent
  <1>5. Origins
    <2>1. ASSUME NEW u \in Users PROVE Known(u)
      BY DEF Known
    <2>2. ASSUME NEW u \in Users, NEW m \in mail PROVE Shown(u, m)
      BY <2>2 DEF Shown
    <2>3. ASSUME NEW u \in Users, NEW q \in Requests PROVE Shown(u, got[q])
      BY DEF Shown
    <2> QED
      BY <2>1, <2>2, <2>3 DEF Origins
  <1>6. Used /\ Once /\ EmptySuccess
    BY DEF Used, Once, EmptySuccess, Follows
  <1>7. UsedMeansApplied
    BY DEF UsedMeansApplied
  <1>8. Causes
    <2>1. ASSUME NEW u \in Users PROVE row[u] # None
      <3>1. row[u] \in Profile
        BY HomeAssumption DEF Profile
      <3> QED
        BY <3>1, AbsentAssumption
    <2> QED
      BY <2>1 DEF Causes
  <1>9. Pictures
    BY DEF Pictures, Agree, On
  <1> QED
    BY <1>1, <1>2, <1>3, <1>4, <1>5, <1>6, <1>7, <1>8, <1>9 DEF IInv

(* Every step keeps it. *)
LEMMA NextInv == IInv /\ [Next]_vars => IInv'
  <1> SUFFICES ASSUME IInv, [Next]_vars PROVE IInv'
    OBVIOUS
  <1> USE DEF IInv
  <1>1. TypeOK' /\ Steps' /\ Locks' /\ Overlaps' /\ Written' /\ Sent'
    BY TypeStep, StepsStep, LocksStep, OverlapsStep, WrittenStep, SentStep
  <1>2. Origins' /\ Used' /\ Once' /\ UsedMeansApplied'
    BY OriginsStep, UsedStep, OnceStep, AppliedStep
  <1>3. Causes' /\ EmptySuccess' /\ Pictures'
    BY CausesStep, EmptyStep, PicturesStep
  <1> QED
    BY <1>1, <1>2, <1>3

(* The invariant holds throughout. *)
THEOREM Invariance == Spec => []IInv
  BY InitInv, NextInv, PTL DEF Spec

(* Every variable keeps its type: no handler of the e-mail flows, and none  *)
(* of the profiles, leaves a row, a token or a mail that is malformed.      *)
THEOREM TypeCorrect == Spec => []TypeOK
  <1>1. IInv => TypeOK
    BY DEF IInv
  <1> QED
    BY <1>1, Invariance, PTL

(* An account that is verified has followed a link mailed to its address,   *)
(* unless a PATCH set it or two changes were asked for in one second.       *)
THEOREM Ownership == Spec => []VerifiedMeansProven
  <1>1. IInv => VerifiedMeansProven
    BY DEF IInv, Origins, Known, Excused, VerifiedMeansProven
  <1> QED
    BY <1>1, Invariance, PTL

(* A link takes effect once unless the requests that follow it overlap.     *)
THEOREM SingleUse == Spec => []LinkTakesEffectOnce
  <1>1. IInv => LinkTakesEffectOnce
    BY DEF IInv, Once, LinkTakesEffectOnce, Key, Done
  <1> QED
    BY <1>1, Invariance, PTL

(* A link that is used has had its effect. *)
THEOREM MarkAndEffect == Spec => []UsedMeansApplied
  <1>1. IInv => UsedMeansApplied
    BY DEF IInv
  <1> QED
    BY <1>1, Invariance, PTL

(* While no call fails, success without an effect has another request for   *)
(* its cause.                                                               *)
THEOREM SuccessIsCaused == Spec => []EmptySuccess
  <1>1. IInv => EmptySuccess
    BY DEF IInv
  <1> QED
    BY <1>1, Invariance, PTL

(* The files of an account are the avatar its row names once its requests   *)
(* have ended, if none failed or overlapped and one format was uploaded.    *)
THEOREM PicturesAgree == Spec => []AvatarAgrees
  <1>1. ASSUME IInv, NEW u \in Users, lost = 0, Cardinality(Uploaded(u)) < 2,
               \A r \in On(u) : ~Active(r) /\ met[r] = {}
        PROVE  Agree(u)
    <2>1. Uploaded(u) \subseteq Formats
      <3>1. ASSUME NEW q \in On(u), call[q].op = "upload" PROVE call[q].format \in Formats
        <4>1. call[q] \in Calls
          BY <1>1 DEF On, IInv, TypeOK
        <4> QED
          BY <3>1, <4>1, CallFacts
      <3> QED
        BY <3>1 DEF Uploaded
    <2>2. IsFiniteSet(Uploaded(u))
      BY <2>1, FormatsAssumption, FS_Subset
    <2>3. ASSUME NEW f \in Uploaded(u), NEW g \in Uploaded(u), f # g PROVE FALSE
      <3>1. Cardinality({f, g}) = 2
        <4>1. IsFiniteSet({f}) /\ Cardinality({f}) = 1
          BY FS_Singleton
        <4>2. Cardinality({f} \cup {g}) = 2
          BY <2>3, <4>1, FS_AddElement
        <4>3. {f, g} = {f} \cup {g}
          OBVIOUS
        <4> QED
          BY <4>2, <4>3
      <3>2. Cardinality({f, g}) <= Cardinality(Uploaded(u))
        BY <2>2, FS_Subset
      <3>3. Cardinality(Uploaded(u)) \in Nat
        BY <2>2, FS_CardinalityType
      <3> QED
        BY <1>1, <3>1, <3>2, <3>3
    <2>4. Calm(u)
      BY <1>1, <2>3 DEF Calm
    <2> QED
      BY <1>1, <2>4 DEF IInv, Pictures
  <1>2. IInv => AvatarAgrees
    BY <1>1 DEF AvatarAgrees, Agree
  <1> QED
    BY <1>2, Invariance, PTL
==============================================================================
