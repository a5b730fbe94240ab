------------------------------- MODULE Profiles -------------------------------
(***************************************************************************)
(* user-service: the rows of the table users under update_user,            *)
(* delete_user, confirm_deletion and the avatar endpoints, and the avatar  *)
(* files, which are kept in a GitHub repository.                           *)
(*                                                                         *)
(* A request is one transaction: it reads what is committed, its UPDATE or *)
(* DELETE locks the row, and get_db commits after the answer.  A file is   *)
(* stored or removed at once, whatever becomes of the transaction.         *)
(*                                                                         *)
(* User names behave as e-mail addresses do and are left out.  EmailFlows  *)
(* extends this module; Plans lists what the requests of a behaviour are.  *)
(***************************************************************************)
EXTENDS Naturals, FiniteSets

CONSTANTS
  Users,     \* user ids
  Emails,    \* addresses, in lower case and stripped
  Formats,   \* file extensions of avatars
  Requests,  \* requests received
  Plans,     \* bound: plan[r] holds the calls request r may be
  MaxLost,   \* bound: failures of calls, statements and commits
  None       \* no row, no address, no file, no call

ASSUME NoneAssumption == None \notin Users \cup Emails \cup Formats \cup Requests

VARIABLES
  row,    \* row[u]: the committed profile of u, or None
  files,  \* files[u]: the formats in which storage has an avatar of u
  plan,   \* the plan of this behaviour
  pc,     \* pc[r]: what request r does next
  call,   \* call[r]: endpoint and arguments
  put,    \* put[r]: the row that r wrote, uncommitted
  tx,     \* tx[r]: the transaction of r in user-service
  lost,   \* failures so far
  met     \* history, met[r]: requests that were in progress together with r

service == <<row, files, put, tx>>
progress == <<plan, pc, call, lost, met>>
profileVars == <<row, files, plan, pc, call, put, tx, lost, met>>

------------------------------------------------------------------------------
Profile == [email : Emails, verified : BOOLEAN, avatar : Formats \cup {None}]

(* A write is the new profile of a user; gone is the DELETE of the row.     *)
Write(u, p) == [user |-> u, gone |-> FALSE, profile |-> p]
Erasure(u) == [user |-> u, gone |-> TRUE]
Writes == [user : Users, gone : {FALSE}, profile : Profile] \cup [user : Users, gone : {TRUE}]

Over == {"refused", "failed", "answered"}
Active(r) == (call[r] # None /\ pc[r] \notin Over) \/ tx[r] = "open"

Go(r, step) == pc' = [pc EXCEPT ![r] = step]
Lose == lost < MaxLost /\ lost' = lost + 1

InitProfiles ==
  /\ files = [u \in Users |-> {}]
  /\ plan \in Plans
  /\ pc = [r \in Requests |-> "idle"]
  /\ call = [r \in Requests |-> None]
  /\ put = [r \in Requests |-> None]
  /\ tx = [r \in Requests |-> "none"]
  /\ lost = 0
  /\ met = [r \in Requests |-> {}]

Receive(r, c) ==
  /\ pc[r] = "idle"
  /\ call' = [call EXCEPT ![r] = c]
  /\ Go(r, "begin")
  /\ LET others == {q \in Requests : Active(q)}
     IN  met' = [q \in Requests |->
                   IF q = r THEN others
                   ELSE IF q \in others THEN met[q] \cup {r} ELSE met[q]]
  /\ UNCHANGED <<service, plan, lost>>

(* _ensure_owner holds of these calls: the user of the path is the caller.  *)
Begins(r, op) == pc[r] = "begin" /\ call[r].op = op
Profiled(r) == row[call[r].user] # None

------------------------------------------------------------------------------
(* PostgreSQL: row locks and the unique index of the addresses. *)

Locked(r, u) == \E q \in Requests \ {r} : put[q] # None /\ put[q].user = u

Owner(e) == {u \in Users : row[u] # None /\ row[u].email = e}

(* An INSERT or UPDATE waits for a transaction that takes or frees e.       *)
Disputed(r, e) ==
  \E q \in Requests \ {r} :
    /\ put[q] # None
    /\ \/ ~put[q].gone /\ put[q].profile.email = e
       \/ put[q].user \in Owner(e)

Waits(r, u, e) == Locked(r, u) \/ (e # row[u].email /\ Disputed(r, e))

------------------------------------------------------------------------------
(* PATCH /users/{id} *)

Taken(u, e) == e # None /\ e # row[u].email /\ Owner(e) # {}

ReadForUpdate(r) ==
  /\ Begins(r, "patch")
  /\ Go(r, IF ~Profiled(r) \/ Taken(call[r].user, call[r].email)
           THEN "refused" ELSE "update")
  /\ UNCHANGED <<service, plan, call, lost, met>>

(* Mutation: model_dump without exclude_none. *)
Patched_KeepsNone(u, c) == [row[u] EXCEPT !.email = c.email, !.verified = c.flag]

(* Fields that are None are left out of the UPDATE. *)
Patched(u, c) ==
  [row[u] EXCEPT !.email = IF c.email = None THEN @ ELSE c.email,
                 !.verified = IF c.flag = None THEN @ ELSE c.flag]

(* The row p is written unless it is gone or the index refuses its address. *)
Save(r, u, p, next) ==
  /\ ~Waits(r, u, p.email)
  /\ IF p.email # row[u].email /\ Owner(p.email) # {}
     THEN Go(r, "failed") /\ UNCHANGED <<put, tx>>
     ELSE /\ put' = [put EXCEPT ![r] = Write(u, p)]
          /\ tx' = [tx EXCEPT ![r] = "open"]
          /\ Go(r, next)

UpdateProfile(r) ==
  /\ pc[r] = "update"
  /\ LET u == call[r].user
     IN  IF row[u] = None
         THEN Go(r, "failed") /\ UNCHANGED <<put, tx>>
         ELSE Save(r, u, Patched(u, call[r]), "answered")
  /\ UNCHANGED <<row, files, plan, call, lost, met>>

------------------------------------------------------------------------------
(* Storage: a provider with one file per user and extension. *)

(* A PUT that is answered with an error may have stored the file.           *)
Stored(r) == [files EXCEPT ![call[r].user] = @ \cup {call[r].format}]

Store(r) ==
  /\ pc[r] = "store"
  /\ \/ files' = Stored(r) /\ Go(r, "point") /\ UNCHANGED lost
     \/ Lose /\ files' \in {files, Stored(r)} /\ Go(r, "failed")
  /\ UNCHANGED <<row, put, tx, plan, call, met>>

(* delete_avatar tries the extensions in the order of a set and stops at    *)
(* the first file it removes.  confirm_deletion swallows what it raises.    *)
AfterUnstore(r) == IF call[r].op = "reset" THEN "point" ELSE "remove"

RemoveOne(u) == \E f \in files[u] : files' = [files EXCEPT ![u] = @ \ {f}]

Unstore(r) ==
  /\ pc[r] = "unstore"
  /\ LET u == call[r].user
     IN  \/ files[u] = {} /\ Go(r, AfterUnstore(r)) /\ UNCHANGED <<files, lost>>
         \/ /\ RemoveOne(u)
            /\ Go(r, AfterUnstore(r)) /\ UNCHANGED lost
         \/ /\ Lose /\ UNCHANGED files
            /\ \/ Go(r, AfterUnstore(r))
               \/ call[r].op # "erase" /\ Go(r, "failed")
  /\ UNCHANGED <<row, put, tx, plan, call, met>>

------------------------------------------------------------------------------
(* The avatar endpoints *)

ReadForUpload(r) ==
  /\ Begins(r, "upload")
  /\ Go(r, IF Profiled(r) THEN "store" ELSE "refused")
  /\ UNCHANGED <<service, plan, call, lost, met>>

ReadForReset(r) ==
  /\ Begins(r, "reset")
  /\ Go(r, IF ~Profiled(r) THEN "refused"
           ELSE IF row[call[r].user].avatar # None THEN "unstore" ELSE "point")
  /\ UNCHANGED <<service, plan, call, lost, met>>

(* Mutation: a reset changes the provider and keeps the URL of the file.    *)
NewAvatar_KeepsUrl(r) ==
  IF call[r].op = "upload" THEN call[r].format ELSE row[call[r].user].avatar

NewAvatar(r) == IF call[r].op = "upload" THEN call[r].format ELSE None

(* update_avatar: nothing is written, or noticed, when the row is gone.     *)
PointAvatar(r) ==
  /\ pc[r] = "point"
  /\ LET u == call[r].user
     IN  IF row[u] = None
         THEN Go(r, "answered") /\ UNCHANGED <<put, tx>>
         ELSE Save(r, u, [row[u] EXCEPT !.avatar = NewAvatar(r)], "answered")
  /\ UNCHANGED <<row, files, plan, call, lost, met>>

------------------------------------------------------------------------------
(* DELETE /users/{id} ("delete") and the transaction of confirm_deletion    *)
(* ("erase"), whose token is in Accounts.                                   *)

ReadForDelete(r) ==
  /\ Begins(r, "delete") \/ Begins(r, "erase")
  /\ Go(r, IF ~Profiled(r) THEN "refused"
           ELSE IF row[call[r].user].avatar # None THEN "unstore" ELSE "remove")
  /\ UNCHANGED <<service, plan, call, lost, met>>

RemoveProfile(r) ==
  /\ pc[r] = "remove"
  /\ LET u == call[r].user
     IN  IF row[u] = None
         THEN Go(r, "refused") /\ UNCHANGED <<put, tx>>
         ELSE /\ ~Locked(r, u)
              /\ put' = [put EXCEPT ![r] = Erasure(u)]
              /\ tx' = [tx EXCEPT ![r] = "open"]
              /\ Go(r, "answered")
  /\ UNCHANGED <<row, files, plan, call, lost, met>>

------------------------------------------------------------------------------
(* The end of a transaction, and of a request that breaks off. *)

Applied(r) ==
  IF put[r] = None THEN row
  ELSE [row EXCEPT ![put[r].user] = IF put[r].gone THEN None ELSE put[r].profile]

Settleable(r) == tx[r] = "open" /\ pc[r] # "apply"

CommitProfile(r) ==
  /\ row' = Applied(r)
  /\ tx' = [tx EXCEPT ![r] = "done"]

RollBackProfile(r) ==
  /\ UNCHANGED row
  /\ tx' = [tx EXCEPT ![r] = "undone"]

(* Mutation: get_db does not close its session, which keeps the row lock.   *)
Unlock_Leak(r) == UNCHANGED put

Unlock(r) == put' = [put EXCEPT ![r] = None]

Settle(r) ==
  /\ Settleable(r)
  /\ \/ CommitProfile(r) /\ UNCHANGED lost
     \/ RollBackProfile(r) /\ Lose
  /\ Unlock(r)
  /\ UNCHANGED <<files, plan, pc, call, met>>

(* A statement fails or the process dies before anything was written.       *)
BreakOff(r) ==
  /\ call[r] # None /\ pc[r] \notin Over /\ tx[r] = "none"
  /\ Lose
  /\ Go(r, "failed")
  /\ UNCHANGED <<service, plan, call, met>>

ProfileStep(r) ==
  \/ ReadForUpdate(r) \/ UpdateProfile(r)
  \/ ReadForUpload(r) \/ ReadForReset(r) \/ Store(r) \/ Unstore(r) \/ PointAvatar(r)
  \/ ReadForDelete(r) \/ RemoveProfile(r)

------------------------------------------------------------------------------
(* Properties of the rows and the files *)

ProfileTypeOK ==
  /\ row \in [Users -> Profile \cup {None}]
  /\ files \in [Users -> SUBSET Formats]
  /\ tx \in [Requests -> {"none", "open", "done", "undone"}]
  /\ put \in [Requests -> Writes \cup {None}]
  /\ lost \in 0..MaxLost
  /\ met \in [Requests -> SUBSET Requests]

On(u) == {r \in Requests : call[r] # None /\ "user" \in DOMAIN call[r] /\ call[r].user = u}

Uploaded(u) == {call[r].format : r \in {q \in On(u) : call[q].op = "upload"}}

(* storage/service.py: the file is named with the user's id "to ensure      *)
(* uniqueness and allow for overwriting when a photo is changed".  Storage  *)
(* and table are different systems.  They agree, and a deleted account      *)
(* leaves no picture behind, once the requests on an account have ended,    *)
(* provided none failed, no two overlapped and one format was uploaded.     *)
AvatarAgrees ==
  \A u \in Users :
    (/\ lost = 0
     /\ \A r \in On(u) : ~Active(r) /\ met[r] = {}
     /\ Cardinality(Uploaded(u)) < 2)
    => files[u] = IF row[u] = None THEN {} ELSE {row[u].avatar} \ {None}
==============================================================================
