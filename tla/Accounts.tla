------------------------------- MODULE Accounts -------------------------------
(***************************************************************************)
(* The life of an account across three services: its profile in            *)
(* user-service, its credential in auth-service and its sessions in        *)
(* session-service, under register, login, confirm_deletion and the        *)
(* deletion of a profile through DELETE /users/{id}.                       *)
(*                                                                         *)
(* There is no distributed transaction.  auth-service writes its own row   *)
(* in a transaction that get_db commits after the answer; user-service and *)
(* session-service do the same, so a profile or a session is visible, or   *)
(* gone, later than the answer about it.  A user is named by the request   *)
(* that registered it, a session by the request that opened it.            *)
(***************************************************************************)
EXTENDS Naturals, FiniteSets

CONSTANTS
  Requests,  \* requests received
  Emails,    \* addresses
  Asks,      \* bound: Asks[r] holds the endpoints request r may be
  MaxLost,   \* bound: remote calls, commits and requests that fail
  None       \* no call, no user, no address

ASSUME AbsentAssumption ==
  None \notin Requests \cup Emails \cup {"register", "login", "delete", "remove"}
ASSUME LossesAssumption == MaxLost \in Nat

VARIABLES
  profile,   \* profile[u]: "none", "open", "live", "closing" or "deleted"
  email,     \* email[u]: its address
  cred,      \* users with a committed credential
  put,       \* put[r]: the change of cred in the transaction of r, or "none"
  session,   \* session[r]: that of r: "none", "open", "live", "closing" or "ended"
  ending,    \* ending[r]: sessions the revoke-all of r matches, then holds
  pc, op,    \* pc[r]: next step of request r; op[r]: its endpoint
  who,       \* who[r]: the user it is about
  lost,      \* failures so far
  removed,   \* history: users whose profile was deleted by DELETE /users/{id}
  during     \* history, during[r]: requests in progress at the sweep of r

vars == <<profile, email, cred, put, session, ending, pc, op, who, lost, removed, during>>
history == <<removed, during>>
tables == <<profile, email, cred, session, ending>>

------------------------------------------------------------------------------
Open == {"begin", "store", "rollback", "read", "session",
         "confirm", "erase", "revoke", "sweep", "answered"}
Over == {"refused", "undone", "failed", "committed"}

Go(r, step) == pc' = [pc EXCEPT ![r] = step]
Lose == lost < MaxLost /\ lost' = lost + 1

(* What a SELECT finds, and what a unique index takes into account. *)
Visible(u) == profile[u] \in {"live", "closing"}
Holders(e) == {u \in Requests : email[u] = e}
Unclaimed(e) == \A u \in Holders(e) : profile[u] \in {"none", "deleted"}

Init ==
  /\ profile = [u \in Requests |-> "none"]
  /\ email = [u \in Requests |-> None]
  /\ cred = {}
  /\ put = [r \in Requests |-> "none"]
  /\ session = [r \in Requests |-> "none"]
  /\ ending = [r \in Requests |-> {}]
  /\ pc = [r \in Requests |-> "idle"]
  /\ op = [r \in Requests |-> None]
  /\ who = [r \in Requests |-> None]
  /\ lost = 0
  /\ removed = {}
  /\ during = [r \in Requests |-> {}]

(* Deleting takes an access token, or a link mailed to a user whose profile *)
(* was found: the request that registered the user has ended, and for the   *)
(* link the profile is committed.                                           *)
Receive(r, endpoint, u) ==
  /\ pc[r] = "idle"
  /\ \/ endpoint = "register" /\ u = r
     \/ /\ endpoint \in {"delete", "remove"} /\ u # None
        /\ pc[u] = "committed" /\ op[u] = "register"
        /\ endpoint = "delete" => profile[u] \notin {"none", "open"}
     \/ endpoint = "login" /\ u = None
  /\ op' = [op EXCEPT ![r] = endpoint]
  /\ who' = [who EXCEPT ![r] = u]
  /\ Go(r, "begin")
  /\ UNCHANGED <<tables, put, lost, history>>

------------------------------------------------------------------------------
(* register *)

(* Mutation: the index on users.email is not unique. *)
CreateProfile_NoIndex(r, e) ==
  /\ pc[r] = "begin" /\ op[r] = "register"
  /\ IF \E u \in Holders(e) : Visible(u)
       THEN Go(r, "refused") /\ UNCHANGED <<profile, email>>
       ELSE /\ profile' = [profile EXCEPT ![r] = "open"]
            /\ email' = [email EXCEPT ![r] = e]
            /\ Go(r, "store")
  /\ UNCHANGED <<cred, session, ending, put, op, who, lost, history>>

(* Mutation: the columns of the new row are mixed up. *)
CreateProfile_Swapped(r, e) ==
  /\ pc[r] = "begin" /\ op[r] = "register"
  /\ profile' = [profile EXCEPT ![r] = "open"]
  /\ email' = [email EXCEPT ![r] = r]
  /\ Go(r, "store")
  /\ UNCHANGED <<cred, session, ending, put, op, who, lost, history>>

(* create_user: 409 for an address its SELECT finds.  The INSERT waits for   *)
(* another one of the address, and for a deletion if the SELECT came first. *)
CreateProfile(r, e) ==
  /\ pc[r] = "begin" /\ op[r] = "register"
  /\ \/ /\ \E u \in Holders(e) : Visible(u)
        /\ Go(r, "refused")
        /\ UNCHANGED <<profile, email>>
     \/ /\ Unclaimed(e)
        /\ profile' = [profile EXCEPT ![r] = "open"]
        /\ email' = [email EXCEPT ![r] = e]
        /\ Go(r, "store")
  /\ UNCHANGED <<cred, session, ending, put, op, who, lost, history>>

StoreCredential(r) ==
  /\ pc[r] = "store"
  /\ \/ /\ put' = [put EXCEPT ![r] = "insert"]
        /\ Go(r, "session")
        /\ UNCHANGED lost
     \/ Lose /\ Go(r, "rollback") /\ UNCHANGED put
  /\ UNCHANGED <<tables, op, who, history>>

(* _delete_user_profile sends no X-User-Id to DELETE /users/{id}, which     *)
(* answers 401; the answer is not looked at.                                *)
DeleteUserProfile(r) ==
  /\ pc[r] = "rollback"
  /\ Go(r, "undone")
  /\ UNCHANGED <<tables, put, op, who, lost, history>>

(* register and login: _generate_tokens, then _create_session, which        *)
(* ignores the status of the answer.                                        *)
CreateSession(r) ==
  /\ pc[r] = "session"
  /\ \/ session' = [session EXCEPT ![r] = "open"] /\ UNCHANGED lost
     \/ Lose /\ UNCHANGED session
  /\ Go(r, "answered")
  /\ UNCHANGED <<profile, email, cred, ending, put, op, who, history>>

------------------------------------------------------------------------------
(* login *)

(* A profile is found until its deletion has committed, also by a login     *)
(* that comes after the sweep of the sessions.                              *)
LookupByEmail(r, e) ==
  /\ pc[r] = "begin" /\ op[r] = "login"
  /\ \/ /\ \A u \in Holders(e) : ~Visible(u)
        /\ Go(r, "refused") /\ UNCHANGED <<who, during>>
     \/ \E u \in Holders(e) :
          /\ Visible(u)
          /\ who' = [who EXCEPT ![r] = u]
          /\ Go(r, "read")
          /\ during' = [q \in Requests |->
                          IF who[q] = u /\ op[q] = "delete" /\ profile[u] = "closing"
                          THEN during[q] \cup {r} ELSE during[q]]
  /\ UNCHANGED <<tables, put, op, lost, removed>>

ReadCredential(r) ==
  /\ pc[r] = "read"
  /\ Go(r, IF who[r] \in cred THEN "session" ELSE "refused")
  /\ UNCHANGED <<tables, put, op, who, lost, history>>

------------------------------------------------------------------------------
(* confirm_deletion, and DELETE /users/{id} *)

(* One deletion token per user; it is marked as used with the profile. *)
TokenUsed(u) == profile[u] = "deleted" /\ u \notin removed

CheckDeletion(r) ==
  /\ pc[r] = "begin" /\ op[r] = "delete"
  /\ Go(r, IF TokenUsed(who[r]) THEN "refused" ELSE "confirm")
  /\ UNCHANGED <<tables, put, op, who, lost, history>>

(* confirm_deletion of user-service waits for another deletion of the row;  *)
(* the 404 it answers when the profile is gone is not looked at.            *)
ConfirmDeletion(r) ==
  /\ pc[r] = "confirm"
  /\ profile[who[r]] # "closing"
  /\ profile' = [profile EXCEPT ![who[r]] = IF @ = "live" THEN "closing" ELSE @]
  /\ Go(r, "erase")
  /\ UNCHANGED <<email, cred, session, ending, put, op, who, lost, history>>

(* Mutation: the credential is kept. *)
EraseCredential_Kept(r) ==
  /\ pc[r] = "erase"
  /\ Go(r, "revoke")
  /\ UNCHANGED <<tables, put, op, who, lost, history>>

(* delete_by_user_id; its failure is logged and ignored. *)
EraseCredential(r) ==
  /\ pc[r] = "erase"
  /\ \A q \in Requests \ {r} : who[q] = who[r] => put[q] # "delete"
  /\ \/ put' = [put EXCEPT ![r] = "delete"] /\ UNCHANGED lost
     \/ Lose /\ UNCHANGED put
  /\ Go(r, "revoke")
  /\ UNCHANGED <<tables, op, who, history>>

(* Mutation: only the session of the registration is revoked. *)
SessionsOf_First(u) == {q \in {u} : session[q] \in {"live", "closing"}}

(* What an UPDATE of session-service finds, that another one may hold.      *)
SessionsOf(u) == {q \in Requests : who[q] = u /\ session[q] \in {"live", "closing"}}

(* A login, or registration, whose session is not committed yet.            *)
InProgress(q, u) ==
  /\ who[q] = u /\ op[q] \in {"register", "login"}
  /\ session[q] = "open" \/ pc[q] \in {"read", "session"}

(* The revocation of every session; its failure is ignored.                 *)
RevokeAll(r) ==
  /\ pc[r] = "revoke"
  /\ \/ /\ ending' = [ending EXCEPT ![r] = SessionsOf(who[r])]
        /\ during' = [during EXCEPT ![r] = {q \in Requests : InProgress(q, who[r])}]
        /\ Go(r, "sweep")
        /\ UNCHANGED lost
     \/ Lose /\ Go(r, "answered") /\ UNCHANGED <<ending, during>>
  /\ UNCHANGED <<profile, email, cred, session, put, op, who, removed>>

(* The UPDATE waits for the rows that another one holds, and leaves those   *)
(* alone that are revoked by then.                                          *)
Revoked(r) ==
  /\ \A q \in ending[r] : session[q] # "closing"
  /\ ending' = [ending EXCEPT ![r] = {q \in @ : session[q] = "live"}]
  /\ session' = [q \in Requests |-> IF q \in ending'[r] THEN "closing" ELSE session[q]]

Sweep(r) ==
  /\ pc[r] = "sweep"
  /\ \/ Revoked(r) /\ UNCHANGED lost
     \/ Lose /\ ending' = [ending EXCEPT ![r] = {}] /\ UNCHANGED session
  /\ Go(r, "answered")
  /\ UNCHANGED <<profile, email, cred, put, op, who, history>>

(* delete_user of user-service removes the profile and nothing else. *)
RemoveProfile(r) ==
  /\ pc[r] = "begin" /\ op[r] = "remove"
  /\ profile[who[r]] # "closing"
  /\ \/ /\ profile[who[r]] = "live"
        /\ profile' = [profile EXCEPT ![who[r]] = "closing"]
        /\ removed' = removed \cup {who[r]}
        /\ Go(r, "committed")
     \/ profile[who[r]] # "live" /\ Go(r, "refused") /\ UNCHANGED <<profile, removed>>
  /\ UNCHANGED <<email, cred, session, ending, put, op, who, lost, during>>

------------------------------------------------------------------------------
(* The end of the transactions *)

(* Mutation: the session is not closed and keeps its row lock. *)
Commit_Leak(r) ==
  /\ pc[r] = "answered"
  /\ cred' = CASE put[r] = "insert" -> cred \cup {who[r]}
               [] put[r] = "delete" -> cred \ {who[r]}
               [] OTHER -> cred
  /\ Go(r, "committed")
  /\ UNCHANGED <<profile, email, session, ending, put, op, who, lost, history>>

Commit(r) ==
  /\ pc[r] = "answered"
  /\ cred' = CASE put[r] = "insert" -> cred \cup {who[r]}
               [] put[r] = "delete" -> cred \ {who[r]}
               [] OTHER -> cred
  /\ put' = [put EXCEPT ![r] = "none"]
  /\ Go(r, "committed")
  /\ UNCHANGED <<profile, email, session, ending, op, who, lost, history>>

(* A call raises, a statement or the COMMIT fails, or the process dies.     *)
(* The call may have been carried out all the same.                         *)
Abort(r) ==
  /\ pc[r] \in Open
  /\ Lose
  /\ \/ /\ ending' = [ending EXCEPT ![r] = IF pc[r] = "sweep" THEN {} ELSE @]
        /\ UNCHANGED <<profile, email, session>>
     \/ \E e \in Emails :
          /\ pc[r] = "begin" /\ op[r] = "register" /\ Unclaimed(e)
          /\ profile' = [profile EXCEPT ![r] = "open"]
          /\ email' = [email EXCEPT ![r] = e]
          /\ UNCHANGED <<session, ending>>
     \/ /\ pc[r] = "session" /\ session' = [session EXCEPT ![r] = "open"]
        /\ UNCHANGED <<profile, email, ending>>
     \/ /\ pc[r] = "confirm" /\ profile[who[r]] = "live"
        /\ profile' = [profile EXCEPT ![who[r]] = "closing"]
        /\ UNCHANGED <<email, session, ending>>
     \/ pc[r] = "sweep" /\ Revoked(r) /\ UNCHANGED <<profile, email>>
  /\ put' = [put EXCEPT ![r] = "none"]
  /\ Go(r, "failed")
  /\ UNCHANGED <<cred, op, who, history>>

(* user-service commits what it did to profile u, or fails to.              *)
CommitProfile(u) ==
  /\ profile[u] \in {"open", "closing"}
  /\ \/ /\ profile' = [profile EXCEPT ![u] = IF @ = "open" THEN "live" ELSE "deleted"]
        /\ UNCHANGED <<lost, removed>>
     \/ /\ Lose
        /\ profile' = [profile EXCEPT ![u] = IF @ = "open" THEN "none" ELSE "live"]
        /\ removed' = removed \ {u}
  /\ UNCHANGED <<email, cred, session, ending, put, pc, op, who, during>>

(* So does session-service with the session of r, *)
CommitSession(r) ==
  /\ session[r] = "open"
  /\ \/ session' = [session EXCEPT ![r] = "live"] /\ UNCHANGED lost
     \/ Lose /\ session' = [session EXCEPT ![r] = "none"]
  /\ UNCHANGED <<profile, email, cred, ending, put, pc, op, who, history>>

(* and with the sessions the revoke-all of r has revoked.                   *)
CommitSweep(r) ==
  /\ pc[r] # "sweep" /\ ending[r] # {}
  /\ \E end \in {"ended", "live"} :
       /\ session' = [q \in Requests |-> IF q \in ending[r] THEN end ELSE session[q]]
       /\ IF end = "ended" THEN UNCHANGED lost ELSE Lose
  /\ ending' = [ending EXCEPT ![r] = {}]
  /\ UNCHANGED <<profile, email, cred, put, pc, op, who, history>>

Proceed(r) ==
  \/ \E e \in Emails : CreateProfile(r, e) \/ LookupByEmail(r, e)
  \/ StoreCredential(r) \/ DeleteUserProfile(r) \/ CreateSession(r)
  \/ ReadCredential(r)
  \/ CheckDeletion(r) \/ ConfirmDeletion(r) \/ EraseCredential(r) \/ RevokeAll(r) \/ Sweep(r)
  \/ RemoveProfile(r)
  \/ Commit(r)

Settle(r) == CommitProfile(r) \/ CommitSession(r) \/ CommitSweep(r)

Next ==
  \/ \E r \in Requests, endpoint \in {"register", "login", "delete", "remove"},
        u \in Requests \cup {None} :
       endpoint \in Asks[r] /\ Receive(r, endpoint, u)
  \/ \E r \in Requests : Proceed(r) \/ Abort(r)
  \/ \E r \in Requests : Settle(r)

Spec == Init /\ [][Next]_vars
FairSpec == Spec /\ \A r \in Requests : WF_vars(Proceed(r)) /\ WF_vars(Settle(r))

------------------------------------------------------------------------------
(* Properties *)

TypeOK ==
  /\ profile \in [Requests -> {"none", "open", "live", "closing", "deleted"}]
  /\ email \in [Requests -> Emails \cup {None}]
  /\ cred \subseteq Requests
  /\ put \in [Requests -> {"none", "insert", "delete"}]
  /\ session \in [Requests -> {"none", "open", "live", "closing", "ended"}]
  /\ ending \in [Requests -> SUBSET Requests]
  /\ pc \in [Requests -> Open \cup Over \cup {"idle"}]
  /\ op \in [Requests -> {"register", "login", "delete", "remove", None}]
  /\ who \in [Requests -> Requests \cup {None}]
  /\ lost \in 0..MaxLost
  /\ removed \subseteq Requests
  /\ during \in [Requests -> SUBSET Requests]

(* Two profiles never hold one address, whatever registrations and          *)
(* deletions of it overlap and whenever their transactions commit.          *)
EmailUnique ==
  \A u, v \in Requests :
    email[u] = email[v] /\ email[u] # None /\ u # v =>
      ~(profile[u] \in {"open", "live", "closing"} /\ profile[v] \in {"open", "live", "closing"})

(* The rows of an account agree once nothing is under way: while no call    *)
(* has failed, a user has a credential exactly when it has a profile, or    *)
(* DELETE /users/{id} took the profile away and left the credential, which  *)
(* no confirmed deletion has erased.                                        *)
Busy(u) ==
  \/ profile[u] \in {"open", "closing"}
  \/ \E r \in Requests : who[r] = u /\ pc[r] \in Open

LeftBehind(u) ==
  /\ u \in removed /\ profile[u] = "deleted"
  /\ \A r \in Requests : op[r] = "delete" /\ who[r] = u => pc[r] # "committed"

RowsAgree ==
  \A u \in Requests :
    lost = 0 /\ ~Busy(u) => (u \in cred <=> profile[u] = "live" \/ LeftBehind(u))

(* confirm_deletion: "Revoke all sessions (every device is disconnected)".  *)
(* After a deletion during which no call failed, a session of the user is   *)
(* live, or about to be, only if its login or registration had not committed*)
(* it when the sessions were swept and was past the look-up of the profile, *)
(* or found the profile before the deletion committed.                      *)
DeletedMeansOut ==
  \A r, q \in Requests :
    /\ lost = 0 /\ pc[r] = "committed" /\ op[r] = "delete"
    /\ who[q] = who[r] /\ session[q] \in {"open", "live"}
    => q \in during[r]

(* Every request ends, the registrations that wait on the unique index and  *)
(* the deletions that wait for another one included.                        *)
EveryRequestEnds ==
  \A r \in Requests : (pc[r] = "begin") ~> (pc[r] \in Over)

(* README: "If step 3 fails, the created profile is rolled back             *)
(* (best-effort) to avoid an orphan account."  Checked as a documented      *)
(* promise: no profile outlives a roll-back that was carried out.           *)
RollbackRemovesProfile ==
  \A r \in Requests : pc[r] = "undone" => profile[r] # "live"
==============================================================================
