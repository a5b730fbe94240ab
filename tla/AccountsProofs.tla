----------------------------- MODULE AccountsProofs -----------------------------
(***************************************************************************)
(* Proofs about Accounts: TypeOK, EmailUnique, RowsAgree and               *)
(* DeletedMeansOut hold for any requests, addresses and number of losses.  *)
(***************************************************************************)
EXTENDS Accounts, TLAPS

Past(r, steps, endpoint) == op[r] = endpoint /\ pc[r] \in steps

(* User u exists for auth-service: its registration has come to the profile.*)
Registered(u) == Past(u, {"store", "session", "answered", "committed"}, "register")

(* r deletes user u, and is past the profile. *)
Deletes(r, u) ==
  who[r] = u /\ Past(r, {"erase", "revoke", "sweep", "answered", "committed"}, "delete")

(* Which endpoint goes through which step, and whom it is about. *)
Steps ==
  \A r \in Requests :
    /\ pc[r] = "idle" => put[r] = "none"
    /\ put[r] # "none" => who[r] \in Requests
    /\ pc[r] \in {"store", "rollback"} => op[r] = "register"
    /\ pc[r] = "read" => op[r] = "login"
    /\ pc[r] = "session" => op[r] \in {"register", "login"}
    /\ pc[r] \in {"confirm", "erase", "revoke", "sweep"} => op[r] = "delete"
    /\ session[r] # "none" =>
         op[r] \in {"register", "login"} /\ pc[r] \in {"answered", "committed", "failed"}
    /\ \A q \in ending[r] : session[q] \in {"live", "closing", "ended"}
    /\ op[r] = "register" => who[r] = r
    /\ op[r] \in {"delete", "remove"} =>
         who[r] \in Requests /\ Past(who[r], {"committed"}, "register")

(* While nothing was lost, a transaction holds the change its step implies. *)
Pending ==
  \A r \in Requests :
    /\ put[r] = "insert" <=> Past(r, {"session", "answered"}, "register")
    /\ put[r] = "delete" <=> Past(r, {"revoke", "sweep", "answered"}, "delete")
    /\ pc[r] \notin {"rollback", "undone", "failed"}

(* ... the credentials are those registered and not deleted,                *)
Credentials ==
  \A u \in Requests :
    u \in cred <=> /\ Past(u, {"committed"}, "register")
                   /\ \A r \in Requests : ~(who[r] = u /\ Past(r, {"committed"}, "delete"))

(* ... a profile is there from its registration to the first deletion,      *)
Profiles ==
  /\ \A u \in Requests :
       /\ profile[u] = "none" <=> ~Registered(u)
       /\ profile[u] \in {"open", "live"} => \A r \in Requests : ~Deletes(r, u)
       /\ profile[u] \in {"closing", "deleted"} =>
            u \in removed \/ \E r \in Requests : Deletes(r, u)
  /\ \A r \in Requests : op[r] = "delete" => profile[who[r]] # "open"

(* ... and whoever opens a session of a deleted user overlapped: its        *)
(* session is not committed yet, or was not when the sweep took its         *)
(* snapshot; the sessions of the snapshot the sweep still has to end.       *)
Overlaps ==
  \A r, q \in Requests :
    Past(r, {"sweep", "answered", "committed"}, "delete") /\ who[q] = who[r] =>
      /\ session[q] = "open" \/ pc[q] \in {"read", "session"} => q \in during[r]
      /\ session[q] = "live" => q \in during[r] \/ (pc[r] = "sweep" /\ q \in ending[r])

Undisturbed == lost = 0 => Pending /\ Credentials /\ Profiles /\ Overlaps

IInv == TypeOK /\ EmailUnique /\ Steps /\ Undisturbed
------------------------------------------------------------------------------
(* Types *)

(* The initial states have their types. *)
LEMMA TypeInit == Init => TypeOK
  BY LossesAssumption DEF Init, TypeOK

(* Every variable keeps its type. *)
LEMMA TypeStep == TypeOK /\ Steps /\ [Next]_vars => TypeOK'
  <1> SUFFICES ASSUME TypeOK, Steps, [Next]_vars PROVE TypeOK'
    OBVIOUS
  <1> USE LossesAssumption DEF Open, Over, Go, Lose, tables, history
  <1>1. ASSUME NEW r \in Requests, NEW endpoint \in {"register", "login", "delete", "remove"},
               NEW u \in Requests \cup {None}, Receive(r, endpoint, u)
        PROVE  TypeOK'
    BY <1>1 DEF TypeOK, Receive
  <1>2. ASSUME NEW r \in Requests, NEW e \in Emails, CreateProfile(r, e) PROVE TypeOK'
    BY <1>2 DEF TypeOK, CreateProfile
  <1>3. ASSUME NEW r \in Requests, NEW e \in Emails, LookupByEmail(r, e) PROVE TypeOK'
    BY <1>3 DEF TypeOK, LookupByEmail, Holders
  <1>4. ASSUME NEW r \in Requests, StoreCredential(r) PROVE TypeOK'
    BY <1>4 DEF TypeOK, StoreCredential
  <1>5. ASSUME NEW r \in Requests, DeleteUserProfile(r) \/ ReadCredential(r) \/ CheckDeletion(r)
        PROVE  TypeOK'
    BY <1>5 DEF TypeOK, DeleteUserProfile, ReadCredential, CheckDeletion
  <1>6. ASSUME NEW r \in Requests, CreateSession(r) PROVE TypeOK'
    BY <1>6 DEF TypeOK, CreateSession
  <1>7. ASSUME NEW r \in Requests, ConfirmDeletion(r) PROVE TypeOK'
    BY <1>7 DEF TypeOK, ConfirmDeletion
  <1>8. ASSUME NEW r \in Requests, EraseCredential(r) PROVE TypeOK'
    BY <1>8 DEF TypeOK, EraseCredential
  <1>9. ASSUME NEW r \in Requests, RevokeAll(r) PROVE TypeOK'
    BY <1>9 DEF TypeOK, RevokeAll, SessionsOf
  <1>10. ASSUME NEW r \in Requests, RemoveProfile(r) PROVE TypeOK'
    <2>1. op[r] = "remove" => who[r] \in Requests
      BY DEF Steps
    <2> QED
      BY <1>10, <2>1 DEF TypeOK, RemoveProfile
  <1>11. ASSUME NEW r \in Requests, Commit(r) PROVE TypeOK'
    <2>1. put[r] = "insert" \/ put[r] = "delete" => who[r] \in Requests
      BY DEF TypeOK, Steps
    <2> QED
      BY <1>11, <2>1 DEF TypeOK, Commit
  <1>12. ASSUME NEW r \in Requests, Abort(r) PROVE TypeOK'
    BY <1>12 DEF TypeOK, Abort, Revoked
  <1>13. ASSUME NEW u \in Requests, CommitProfile(u) PROVE TypeOK'
    BY <1>13 DEF TypeOK, CommitProfile
  <1>14. ASSUME NEW r \in Requests, Sweep(r) PROVE TypeOK'
    BY <1>14 DEF TypeOK, Sweep, Revoked
  <1>15. ASSUME NEW r \in Requests, CommitSession(r) PROVE TypeOK'
    BY <1>15 DEF TypeOK, CommitSession
  <1>16. ASSUME NEW r \in Requests, CommitSweep(r) PROVE TypeOK'
    BY <1>16 DEF TypeOK, CommitSweep
  <1>17. CASE UNCHANGED vars
    BY <1>17 DEF TypeOK, vars
  <1> QED
    BY <1>1, <1>2, <1>3, <1>4, <1>5, <1>6, <1>7, <1>8, <1>9, <1>10, <1>11, <1>12, <1>13, <1>14,
       <1>15, <1>16, <1>17
    DEF Next, Proceed, Settle

------------------------------------------------------------------------------
(* One profile for an address *)

(* An address is taken only when no profile holds it. *)
LEMMA UniqueStep == TypeOK /\ EmailUnique /\ [Next]_vars => EmailUnique'
  <1> SUFFICES ASSUME TypeOK, EmailUnique, [Next]_vars PROVE EmailUnique'
    OBVIOUS
  <1> DEFINE Held(u) == profile[u] \in {"open", "live", "closing"}
  <1>1. ASSUME NEW r \in Requests, NEW e \in Emails, Unclaimed(e),
               profile' = [profile EXCEPT ![r] = "open"], email' = [email EXCEPT ![r] = e]
        PROVE  EmailUnique'
    <2>1. \A u \in Requests \ {r} : profile'[u] = profile[u] /\ email'[u] = email[u]
      BY <1>1 DEF TypeOK
    <2>2. \A u \in Requests \ {r} : email[u] = e => ~Held(u)
      BY <1>1 DEF Unclaimed, Holders
    <2>3. email'[r] = e
      BY <1>1 DEF TypeOK
    <2> QED
      BY <2>1, <2>2, <2>3 DEF EmailUnique
  <1>2. ASSUME NEW r \in Requests, NEW e \in Emails, CreateProfile(r, e), ~UNCHANGED <<profile, email>>
        PROVE  EmailUnique'
    BY <1>1, <1>2 DEF CreateProfile
  <1>3. ASSUME email' = email, \A u \in Requests : Held(u)' => Held(u)
        PROVE  EmailUnique'
    BY <1>3 DEF EmailUnique
  <1>4. ASSUME NEW r \in Requests, ConfirmDeletion(r) \/ RemoveProfile(r) PROVE EmailUnique'
    BY <1>3, <1>4 DEF ConfirmDeletion, RemoveProfile, TypeOK
  <1>5. ASSUME NEW u \in Requests, CommitProfile(u) PROVE EmailUnique'
    BY <1>3, <1>5 DEF CommitProfile, TypeOK
  <1>6. ASSUME NEW r \in Requests, Abort(r) PROVE EmailUnique'
    <2>1. CASE UNCHANGED <<profile, email>>
      BY <1>3, <2>1
    <2>2. CASE profile[who[r]] = "live" /\ profile' = [profile EXCEPT ![who[r]] = "closing"]
               /\ UNCHANGED email
      BY <1>3, <2>2 DEF TypeOK
    <2> QED
      BY <1>1, <1>6, <2>1, <2>2 DEF Abort
  <1>7. CASE UNCHANGED <<profile, email>>
    BY <1>3, <1>7
  <1> QED
    BY <1>2, <1>4, <1>5, <1>6, <1>7
    DEF Next, Proceed, Receive, StoreCredential, DeleteUserProfile, CreateSession, LookupByEmail,
        ReadCredential, CheckDeletion, EraseCredential, RevokeAll, Sweep, Commit, Settle, CommitSession,
        CommitSweep, vars, tables

------------------------------------------------------------------------------
(* The steps of a request *)

(* Every step leads its endpoint to one of its own steps. *)
LEMMA StepsStep == TypeOK /\ Steps /\ [Next]_vars => Steps'
  <1> SUFFICES ASSUME TypeOK, Steps, [Next]_vars PROVE Steps'
    OBVIOUS
  <1> USE DEF Open, Over, Go, Lose, tables, history, Past
  <1>1. ASSUME NEW r \in Requests, NEW endpoint \in {"register", "login", "delete", "remove"},
               NEW u \in Requests \cup {None}, Receive(r, endpoint, u)
        PROVE  Steps'
    BY <1>1, AbsentAssumption DEF TypeOK, Receive, Steps
  <1>2. ASSUME NEW r \in Requests, NEW e \in Emails, CreateProfile(r, e) PROVE Steps'
    BY <1>2 DEF TypeOK, CreateProfile, Steps
  <1>3. ASSUME NEW r \in Requests, NEW e \in Emails, LookupByEmail(r, e) PROVE Steps'
    BY <1>3 DEF TypeOK, LookupByEmail, Holders, Steps
  <1>4. ASSUME NEW r \in Requests, StoreCredential(r) PROVE Steps'
    BY <1>4 DEF TypeOK, StoreCredential, Steps
  <1>5. ASSUME NEW r \in Requests, DeleteUserProfile(r) \/ ReadCredential(r) \/ CheckDeletion(r)
        PROVE  Steps'
    BY <1>5 DEF TypeOK, DeleteUserProfile, ReadCredential, CheckDeletion, Steps
  <1>6. ASSUME NEW r \in Requests, CreateSession(r) PROVE Steps'
    BY <1>6 DEF TypeOK, CreateSession, Steps
  <1>7. ASSUME NEW r \in Requests, ConfirmDeletion(r) PROVE Steps'
    BY <1>7 DEF TypeOK, ConfirmDeletion, Steps
  <1>8. ASSUME NEW r \in Requests, EraseCredential(r) PROVE Steps'
    BY <1>8 DEF TypeOK, EraseCredential, Steps
  <1>9. ASSUME NEW r \in Requests, RevokeAll(r) PROVE Steps'
    BY <1>9 DEF TypeOK, RevokeAll, SessionsOf, Steps
  <1>10. ASSUME NEW r \in Requests, RemoveProfile(r) PROVE Steps'
    BY <1>10 DEF TypeOK, RemoveProfile, Steps
  <1>11. ASSUME NEW r \in Requests, Commit(r) PROVE Steps'
    BY <1>11 DEF TypeOK, Commit, Steps
  <1>12. ASSUME NEW r \in Requests, Abort(r) PROVE Steps'
    BY <1>12 DEF TypeOK, Abort, Revoked, Steps
  <1>13. ASSUME NEW u \in Requests, CommitProfile(u) PROVE Steps'
    BY <1>13 DEF TypeOK, CommitProfile, Steps
  <1>14. ASSUME NEW r \in Requests, Sweep(r) PROVE Steps'
    BY <1>14 DEF TypeOK, Steps, Sweep, Revoked
  <1>15. ASSUME NEW r \in Requests, CommitSession(r) PROVE Steps'
    BY <1>15 DEF TypeOK, Steps, CommitSession
  <1>16. ASSUME NEW r \in Requests, CommitSweep(r) PROVE Steps'
    BY <1>16 DEF TypeOK, Steps, CommitSweep
  <1>17. CASE UNCHANGED vars
    BY <1>17 DEF vars, Steps
  <1> QED
    BY <1>1, <1>2, <1>3, <1>4, <1>5, <1>6, <1>7, <1>8, <1>9, <1>10, <1>11, <1>12, <1>13, <1>14,
       <1>15, <1>16, <1>17
    DEF Next, Proceed, Settle

------------------------------------------------------------------------------
(* The rows, while nothing was lost *)

(* Losses are only counted up. *)
LEMMA StillCalm ==
  ASSUME TypeOK, [Next]_vars, lost' = 0
  PROVE  lost = 0
  BY DEF TypeOK, Next, Proceed, Receive, CreateProfile, StoreCredential, DeleteUserProfile,
     CreateSession, LookupByEmail, ReadCredential, CheckDeletion, ConfirmDeletion, EraseCredential,
     RevokeAll, Sweep, RemoveProfile, Commit, Abort, Settle, CommitProfile, CommitSession, CommitSweep,
     Lose, vars

(* A transaction holds what its step implies. *)
LEMMA PendingStep ==
  ASSUME TypeOK, Steps, Pending, lost = 0, lost' = 0, [Next]_vars
  PROVE  Pending'
  <1> USE DEF Open, Over, Go, Lose, tables, history, Past
  <1>1. ASSUME NEW r \in Requests, NEW endpoint \in {"register", "login", "delete", "remove"},
               NEW u \in Requests \cup {None}, Receive(r, endpoint, u)
        PROVE  Pending'
    BY <1>1 DEF TypeOK, Steps, Receive, Pending
  <1>2. ASSUME NEW r \in Requests, NEW e \in Emails, CreateProfile(r, e) PROVE Pending'
    BY <1>2 DEF TypeOK, Steps, CreateProfile, Pending
  <1>3. ASSUME NEW r \in Requests, NEW e \in Emails, LookupByEmail(r, e) PROVE Pending'
    BY <1>3 DEF TypeOK, Steps, LookupByEmail, Pending
  <1>4. ASSUME NEW r \in Requests, StoreCredential(r) PROVE Pending'
    BY <1>4 DEF TypeOK, Steps, StoreCredential, Pending
  <1>5. ASSUME NEW r \in Requests, DeleteUserProfile(r) \/ ReadCredential(r) \/ CheckDeletion(r)
        PROVE  Pending'
    <2>1. ~DeleteUserProfile(r)
      BY DEF DeleteUserProfile, Pending
    <2>2. CASE ReadCredential(r)
      BY <2>2 DEF TypeOK, Steps, ReadCredential, Pending
    <2>3. CASE CheckDeletion(r)
      BY <2>3 DEF TypeOK, Steps, CheckDeletion, Pending
    <2> QED
      BY <1>5, <2>1, <2>2, <2>3
  <1>6. ASSUME NEW r \in Requests, CreateSession(r) PROVE Pending'
    BY <1>6 DEF TypeOK, Steps, CreateSession, Pending
  <1>7. ASSUME NEW r \in Requests, ConfirmDeletion(r) PROVE Pending'
    BY <1>7 DEF TypeOK, Steps, ConfirmDeletion, Pending
  <1>8. ASSUME NEW r \in Requests, EraseCredential(r) PROVE Pending'
    BY <1>8 DEF TypeOK, Steps, EraseCredential, Pending
  <1>9. ASSUME NEW r \in Requests, RevokeAll(r) PROVE Pending'
    BY <1>9 DEF TypeOK, Steps, RevokeAll, Pending
  <1>10. ASSUME NEW r \in Requests, RemoveProfile(r) PROVE Pending'
    BY <1>10 DEF TypeOK, Steps, RemoveProfile, Pending
  <1>11. ASSUME NEW r \in Requests, Commit(r) PROVE Pending'
    BY <1>11 DEF TypeOK, Steps, Commit, Pending
  <1>12. ASSUME NEW u \in Requests, CommitProfile(u) PROVE Pending'
    BY <1>12 DEF TypeOK, Steps, CommitProfile, Pending
  <1>13. ASSUME NEW r \in Requests PROVE ~Abort(r)
    BY DEF Abort
  <1>14. ASSUME NEW r \in Requests, Sweep(r) PROVE Pending'
    BY <1>14 DEF TypeOK, Steps, Pending, Sweep, Revoked
  <1>15. ASSUME NEW r \in Requests, CommitSession(r) PROVE Pending'
    BY <1>15 DEF TypeOK, Steps, Pending, CommitSession
  <1>16. ASSUME NEW r \in Requests, CommitSweep(r) PROVE Pending'
    BY <1>16 DEF TypeOK, Steps, Pending, CommitSweep
  <1>17. CASE UNCHANGED vars
    BY <1>17 DEF vars, Pending
  <1> QED
    BY <1>1, <1>2, <1>3, <1>4, <1>5, <1>6, <1>7, <1>8, <1>9, <1>10, <1>11, <1>12, <1>13, <1>14,
       <1>15, <1>16, <1>17
    DEF Next, Proceed, Settle

(* The credentials follow the registrations and deletions that commit. *)
LEMMA CredentialsStep ==
  ASSUME TypeOK, Steps, Pending, Credentials, lost = 0, lost' = 0, [Next]_vars
  PROVE  Credentials'
  <1> USE DEF Open, Over, Go, Lose, tables, history, Past
  <1>1. ASSUME NEW r \in Requests, NEW endpoint \in {"register", "login", "delete", "remove"},
               NEW u \in Requests \cup {None}, Receive(r, endpoint, u)
        PROVE  Credentials'
    BY <1>1 DEF TypeOK, Steps, Receive, Pending, Credentials
  <1>2. ASSUME NEW r \in Requests, NEW e \in Emails, CreateProfile(r, e) PROVE Credentials'
    BY <1>2 DEF TypeOK, Steps, CreateProfile, Pending, Credentials
  <1>3. ASSUME NEW r \in Requests, NEW e \in Emails, LookupByEmail(r, e) PROVE Credentials'
    BY <1>3 DEF TypeOK, Steps, LookupByEmail, Pending, Credentials
  <1>4. ASSUME NEW r \in Requests, StoreCredential(r) PROVE Credentials'
    BY <1>4 DEF TypeOK, Steps, StoreCredential, Pending, Credentials
  <1>5. ASSUME NEW r \in Requests, DeleteUserProfile(r) \/ ReadCredential(r) \/ CheckDeletion(r)
        PROVE  Credentials'
    BY <1>5
    DEF TypeOK, Steps, DeleteUserProfile, ReadCredential, CheckDeletion, Pending, Credentials
  <1>6. ASSUME NEW r \in Requests, CreateSession(r) PROVE Credentials'
    BY <1>6 DEF TypeOK, Steps, CreateSession, Pending, Credentials
  <1>7. ASSUME NEW r \in Requests, ConfirmDeletion(r) PROVE Credentials'
    BY <1>7 DEF TypeOK, Steps, ConfirmDeletion, Pending, Credentials
  <1>8. ASSUME NEW r \in Requests, EraseCredential(r) PROVE Credentials'
    BY <1>8 DEF TypeOK, Steps, EraseCredential, Pending, Credentials
  <1>9. ASSUME NEW r \in Requests, RevokeAll(r) PROVE Credentials'
    BY <1>9 DEF TypeOK, Steps, RevokeAll, Pending, Credentials
  <1>10. ASSUME NEW r \in Requests, RemoveProfile(r) PROVE Credentials'
    BY <1>10 DEF TypeOK, Steps, RemoveProfile, Pending, Credentials
  <1>11. ASSUME NEW r \in Requests, Commit(r) PROVE Credentials'
    BY <1>11 DEF TypeOK, Steps, Commit, Pending, Credentials
  <1>12. ASSUME NEW u \in Requests, CommitProfile(u) PROVE Credentials'
    BY <1>12 DEF TypeOK, Steps, CommitProfile, Pending, Credentials
  <1>13. ASSUME NEW r \in Requests PROVE ~Abort(r)
    BY DEF Abort
  <1>14. ASSUME NEW r \in Requests, Sweep(r) PROVE Credentials'
    BY <1>14 DEF TypeOK, Steps, Pending, Credentials, Sweep, Revoked
  <1>15. ASSUME NEW r \in Requests, CommitSession(r) PROVE Credentials'
    BY <1>15 DEF TypeOK, Steps, Pending, Credentials, CommitSession
  <1>16. ASSUME NEW r \in Requests, CommitSweep(r) PROVE Credentials'
    BY <1>16 DEF TypeOK, Steps, Pending, Credentials, CommitSweep
  <1>17. CASE UNCHANGED vars
    BY <1>17 DEF vars, Pending, Credentials
  <1> QED
    BY <1>1, <1>2, <1>3, <1>4, <1>5, <1>6, <1>7, <1>8, <1>9, <1>10, <1>11, <1>12, <1>13, <1>14,
       <1>15, <1>16, <1>17
    DEF Next, Proceed, Settle

(* The profiles follow them earlier. *)
LEMMA ProfilesStep ==
  ASSUME TypeOK, Steps, Pending, Profiles, lost = 0, lost' = 0, [Next]_vars
  PROVE  Profiles'
  <1> USE DEF Open, Over, Go, Lose, tables, history, Past
  <1>1. ASSUME NEW r \in Requests, NEW endpoint \in {"register", "login", "delete", "remove"},
               NEW u \in Requests \cup {None}, Receive(r, endpoint, u)
        PROVE  Profiles'
    BY <1>1 DEF TypeOK, Steps, Receive, Pending, Profiles, Registered, Deletes
  <1>2. ASSUME NEW r \in Requests, NEW e \in Emails, CreateProfile(r, e) PROVE Profiles'
    BY <1>2 DEF TypeOK, Steps, CreateProfile, Pending, Profiles, Registered, Deletes
  <1>3. ASSUME NEW r \in Requests, NEW e \in Emails, LookupByEmail(r, e) PROVE Profiles'
    BY <1>3 DEF TypeOK, Steps, LookupByEmail, Pending, Profiles, Registered, Deletes
  <1>4. ASSUME NEW r \in Requests, StoreCredential(r) PROVE Profiles'
    BY <1>4 DEF TypeOK, Steps, StoreCredential, Pending, Profiles, Registered, Deletes
  <1>5. ASSUME NEW r \in Requests, DeleteUserProfile(r) \/ ReadCredential(r) \/ CheckDeletion(r)
        PROVE  Profiles'
    <2>1. ~DeleteUserProfile(r)
      BY DEF DeleteUserProfile, Pending
    <2>2. CASE ReadCredential(r)
      BY <2>2 DEF TypeOK, Steps, ReadCredential, Pending, Profiles, Registered, Deletes
    <2>3. CASE CheckDeletion(r)
      BY <2>3 DEF TypeOK, Steps, CheckDeletion, Pending, Profiles, Registered, Deletes
    <2> QED
      BY <1>5, <2>1, <2>2, <2>3
  <1>6. ASSUME NEW r \in Requests, CreateSession(r) PROVE Profiles'
    BY <1>6 DEF TypeOK, Steps, CreateSession, Pending, Profiles, Registered, Deletes
  <1>7. ASSUME NEW r \in Requests, ConfirmDeletion(r) PROVE Profiles'
    <2> DEFINE v == who[r]
    <2>1. v \in Requests /\ op[r] = "delete" /\ Registered(v) /\ profile[v] # "none"
      BY <1>7 DEF ConfirmDeletion, Steps, Profiles, Registered
    <2>2. \A u, q \in Requests : Deletes(q, u)' <=> Deletes(q, u) \/ (q = r /\ u = v)
      BY <1>7, <2>1 DEF ConfirmDeletion, Deletes, TypeOK
    <2>3. \A u \in Requests : Registered(u)' <=> Registered(u)
      BY <1>7, <2>1 DEF ConfirmDeletion, Registered, TypeOK
    <2>4. profile[v] # "open"
      BY <1>7, <2>1 DEF ConfirmDeletion, Profiles, Deletes
    <2>5. /\ profile'[v] \in {"closing", "deleted"} /\ removed' = removed
          /\ \A u \in Requests \ {v} : profile'[u] = profile[u]
      BY <1>7, <2>1, <2>4 DEF ConfirmDeletion, TypeOK
    <2>6. \A q \in Requests : op'[q] = "delete" => profile'[who'[q]] # "open"
      <3>1. UNCHANGED <<op, who>> /\ \A q \in Requests : op[q] = "delete" => who[q] \in Requests
        BY <1>7 DEF ConfirmDeletion, Steps
      <3> QED
        BY <2>5, <3>1 DEF Profiles
    <2>7. ASSUME NEW u \in Requests
          PROVE  /\ profile'[u] = "none" <=> ~Registered(u)'
                 /\ profile'[u] \in {"open", "live"} => \A q \in Requests : ~Deletes(q, u)'
                 /\ profile'[u] \in {"closing", "deleted"} =>
                      u \in removed' \/ \E q \in Requests : Deletes(q, u)'
      BY <2>1, <2>2, <2>3, <2>5 DEF Profiles
    <2> QED
      BY <2>6, <2>7 DEF Profiles
  <1>8. ASSUME NEW r \in Requests, EraseCredential(r) PROVE Profiles'
    BY <1>8 DEF TypeOK, Steps, EraseCredential, Pending, Profiles, Registered, Deletes
  <1>9. ASSUME NEW r \in Requests, RevokeAll(r) PROVE Profiles'
    BY <1>9 DEF TypeOK, Steps, RevokeAll, Pending, Profiles, Registered, Deletes
  <1>10. ASSUME NEW r \in Requests, RemoveProfile(r) PROVE Profiles'
    BY <1>10 DEF TypeOK, Steps, RemoveProfile, Pending, Profiles, Registered, Deletes
  <1>11. ASSUME NEW r \in Requests, Commit(r) PROVE Profiles'
    BY <1>11 DEF TypeOK, Steps, Commit, Pending, Profiles, Registered, Deletes
  <1>12. ASSUME NEW u \in Requests, CommitProfile(u) PROVE Profiles'
    BY <1>12 DEF TypeOK, Steps, CommitProfile, Pending, Profiles, Registered, Deletes
  <1>13. ASSUME NEW r \in Requests PROVE ~Abort(r)
    BY DEF Abort
  <1>14. ASSUME NEW r \in Requests, Sweep(r) PROVE Profiles'
    BY <1>14 DEF TypeOK, Steps, Pending, Profiles, Registered, Deletes, Sweep, Revoked
  <1>15. ASSUME NEW r \in Requests, CommitSession(r) PROVE Profiles'
    BY <1>15 DEF TypeOK, Steps, Pending, Profiles, Registered, Deletes, CommitSession
  <1>16. ASSUME NEW r \in Requests, CommitSweep(r) PROVE Profiles'
    BY <1>16 DEF TypeOK, Steps, Pending, Profiles, Registered, Deletes, CommitSweep
  <1>17. CASE UNCHANGED vars
    BY <1>17 DEF vars, Pending, Profiles, Registered, Deletes
  <1> QED
    BY <1>1, <1>2, <1>3, <1>4, <1>5, <1>6, <1>7, <1>8, <1>9, <1>10, <1>11, <1>12, <1>13, <1>14,
       <1>15, <1>16, <1>17
    DEF Next, Proceed, Settle

(* A session of a deleted user is one of an overlapping login. *)
LEMMA OverlapsStep ==
  ASSUME TypeOK, Steps, Pending, Profiles, Overlaps, lost = 0, lost' = 0, [Next]_vars
  PROVE  Overlaps'
  <1> USE DEF Open, Over, Go, Lose, tables, history, Past
  <1>1. ASSUME NEW r \in Requests, NEW endpoint \in {"register", "login", "delete", "remove"},
               NEW u \in Requests \cup {None}, Receive(r, endpoint, u)
        PROVE  Overlaps'
    BY <1>1 DEF TypeOK, Steps, Receive, Pending, Profiles, Overlaps, Registered, Deletes
  <1>2. ASSUME NEW r \in Requests, NEW e \in Emails, CreateProfile(r, e) PROVE Overlaps'
    BY <1>2 DEF TypeOK, Steps, CreateProfile, Pending, Profiles, Overlaps, Registered, Deletes
  <1>3. ASSUME NEW r \in Requests, NEW e \in Emails, LookupByEmail(r, e) PROVE Overlaps'
    <2>1. session[r] = "none" /\ UNCHANGED <<session, ending, op>>
      BY <1>3 DEF LookupByEmail, Steps
    <2>2. CASE pc'[r] = "refused"
      <3>1. UNCHANGED <<who, during>> /\ pc' = [pc EXCEPT ![r] = "refused"]
        BY <1>3, <2>2 DEF LookupByEmail, TypeOK
      <3> QED
        BY <1>3, <2>1, <3>1 DEF LookupByEmail, TypeOK, Overlaps
    <2>3. CASE pc'[r] # "refused"
      <3>1. PICK u \in Holders(e) : /\ Visible(u) /\ who' = [who EXCEPT ![r] = u]
                                   /\ during' = [x \in Requests |->
                                        IF who[x] = u /\ op[x] = "delete" /\ profile[u] = "closing"
                                        THEN during[x] \cup {r} ELSE during[x]]
        BY <1>3, <2>3 DEF LookupByEmail, TypeOK
      <3> SUFFICES ASSUME NEW d \in Requests, NEW q \in Requests, who'[q] = who'[d],
                          Past(d, {"sweep", "answered", "committed"}, "delete")'
                   PROVE  /\ session[q] = "open" \/ pc'[q] \in {"read", "session"} => q \in during'[d]
                          /\ session[q] = "live" =>
                               q \in during'[d] \/ (pc'[d] = "sweep" /\ q \in ending[d])
        BY <2>1 DEF Overlaps
      <3>2. /\ d # r /\ Past(d, {"sweep", "answered", "committed"}, "delete") /\ who'[d] = who[d]
            /\ pc'[d] = pc[d] /\ during[d] \subseteq during'[d]
        BY <1>3, <3>1 DEF LookupByEmail, TypeOK
      <3>3. CASE q # r
        <4>1. who'[q] = who[q] /\ pc'[q] = pc[q]
          BY <1>3, <3>1, <3>3 DEF LookupByEmail, TypeOK
        <4> QED
          BY <3>2, <4>1 DEF Overlaps
      <3>4. CASE q = r
        <4>1. u \in Requests /\ who[d] = u
          BY <3>1, <3>2, <3>4 DEF Holders, TypeOK
        <4>2. profile[u] = "closing"
          BY <3>1, <3>2, <4>1 DEF Visible, Profiles, Deletes
        <4> QED
          BY <2>1, <3>1, <3>2, <3>4, <4>1, <4>2
      <3> QED
        BY <3>3, <3>4
    <2> QED
      BY <2>2, <2>3
  <1>4. ASSUME NEW r \in Requests, StoreCredential(r) PROVE Overlaps'
    BY <1>4 DEF TypeOK, Steps, StoreCredential, Pending, Profiles, Overlaps, Registered, Deletes
  <1>5. ASSUME NEW r \in Requests, DeleteUserProfile(r) \/ ReadCredential(r) \/ CheckDeletion(r)
        PROVE  Overlaps'
    BY <1>5
    DEF TypeOK, Steps, DeleteUserProfile, ReadCredential, CheckDeletion, Pending, Profiles, Overlaps, Registered, Deletes
  <1>6. ASSUME NEW r \in Requests, CreateSession(r) PROVE Overlaps'
    BY <1>6 DEF TypeOK, Steps, CreateSession, Pending, Profiles, Overlaps, Registered, Deletes
  <1>7. ASSUME NEW r \in Requests, ConfirmDeletion(r) PROVE Overlaps'
    BY <1>7 DEF TypeOK, Steps, ConfirmDeletion, Pending, Profiles, Overlaps, Registered, Deletes
  <1>8. ASSUME NEW r \in Requests, EraseCredential(r) PROVE Overlaps'
    BY <1>8 DEF TypeOK, Steps, EraseCredential, Pending, Profiles, Overlaps, Registered, Deletes
  <1>9. ASSUME NEW r \in Requests, RevokeAll(r) PROVE Overlaps'
    <2>1. /\ pc[r] = "revoke" /\ pc' = [pc EXCEPT ![r] = "sweep"]
          /\ ending' = [ending EXCEPT ![r] = SessionsOf(who[r])]
          /\ during' = [during EXCEPT ![r] = {x \in Requests : InProgress(x, who[r])}]
          /\ UNCHANGED <<who, op, session>>
      BY <1>9 DEF RevokeAll
    <2> SUFFICES ASSUME NEW d \in Requests, NEW q \in Requests, who[q] = who[d],
                        Past(d, {"sweep", "answered", "committed"}, "delete")'
                 PROVE  /\ session[q] = "open" \/ pc'[q] \in {"read", "session"} => q \in during'[d]
                        /\ session[q] = "live" =>
                             q \in during'[d] \/ (pc'[d] = "sweep" /\ q \in ending'[d])
      BY <2>1 DEF Overlaps
    <2>2. pc'[q] \in {"read", "session"} => pc[q] = pc'[q]
      BY <2>1 DEF TypeOK
    <2>3. CASE d # r
      BY <2>1, <2>2, <2>3 DEF TypeOK, Overlaps
    <2>4. CASE d = r
      <3>1. session[q] = "open" \/ pc[q] \in {"read", "session"} => InProgress(q, who[r])
        BY <2>4 DEF InProgress, Steps
      <3>2. session[q] = "live" => q \in SessionsOf(who[r])
        BY <2>4 DEF SessionsOf
      <3> QED
        BY <2>1, <2>2, <2>4, <3>1, <3>2 DEF TypeOK
    <2> QED
      BY <2>3, <2>4
  <1>10. ASSUME NEW r \in Requests, RemoveProfile(r) PROVE Overlaps'
    BY <1>10 DEF TypeOK, Steps, RemoveProfile, Pending, Profiles, Overlaps, Registered, Deletes
  <1>11. ASSUME NEW r \in Requests, Commit(r) PROVE Overlaps'
    BY <1>11 DEF TypeOK, Steps, Commit, Pending, Profiles, Overlaps, Registered, Deletes
  <1>12. ASSUME NEW u \in Requests, CommitProfile(u) PROVE Overlaps'
    BY <1>12 DEF TypeOK, Steps, CommitProfile, Pending, Profiles, Overlaps, Registered, Deletes
  <1>13. ASSUME NEW r \in Requests PROVE ~Abort(r)
    BY DEF Abort
  <1>14. ASSUME NEW r \in Requests, Sweep(r) PROVE Overlaps'
    BY <1>14 DEF TypeOK, Steps, Pending, Profiles, Overlaps, Registered, Deletes, Sweep, Revoked
  <1>15. ASSUME NEW r \in Requests, CommitSession(r) PROVE Overlaps'
    BY <1>15 DEF TypeOK, Steps, Pending, Profiles, Overlaps, Registered, Deletes, CommitSession
  <1>16. ASSUME NEW r \in Requests, CommitSweep(r) PROVE Overlaps'
    BY <1>16 DEF TypeOK, Steps, Pending, Profiles, Overlaps, Registered, Deletes, CommitSweep
  <1>17. CASE UNCHANGED vars
    BY <1>17 DEF vars, Pending, Profiles, Overlaps, Registered, Deletes
  <1> QED
    BY <1>1, <1>2, <1>3, <1>4, <1>5, <1>6, <1>7, <1>8, <1>9, <1>10, <1>11, <1>12, <1>13, <1>14,
       <1>15, <1>16, <1>17
    DEF Next, Proceed, Settle

------------------------------------------------------------------------------
(* The theorems *)

(* IInv holds at first, *)
LEMMA Inductive == Init => IInv
  <1> SUFFICES ASSUME Init PROVE IInv
    OBVIOUS
  <1>1. TypeOK
    BY TypeInit
  <1>2. EmailUnique
    BY DEF Init, EmailUnique
  <1>3. Steps
    BY AbsentAssumption DEF Init, Steps
  <1>4. Pending /\ Credentials /\ Profiles /\ Overlaps
    BY AbsentAssumption DEF Init, Pending, Credentials, Profiles, Overlaps, Registered, Past
  <1> QED
    BY <1>1, <1>2, <1>3, <1>4 DEF IInv, Undisturbed

(* every step preserves it, *)
LEMMA Preserved == IInv /\ [Next]_vars => IInv'
  <1> SUFFICES ASSUME IInv, [Next]_vars PROVE IInv'
    OBVIOUS
  <1>1. TypeOK' /\ EmailUnique' /\ Steps'
    BY TypeStep, UniqueStep, StepsStep DEF IInv
  <1>2. ASSUME lost' = 0 PROVE Pending' /\ Credentials' /\ Profiles' /\ Overlaps'
    <2>1. lost = 0
      BY <1>2, StillCalm DEF IInv
    <2> QED
      BY <1>2, <2>1, PendingStep, CredentialsStep, ProfilesStep, OverlapsStep
      DEF IInv, Undisturbed
  <1> QED
    BY <1>1, <1>2 DEF IInv, Undisturbed

(* so it is an invariant. *)
LEMMA Always == Spec => []IInv
  BY Inductive, Preserved, PTL DEF Spec

(* Every variable keeps its type. *)
THEOREM TypeCorrect == Spec => []TypeOK
  <1>1. IInv => TypeOK
    BY DEF IInv
  <1> QED
    BY <1>1, Always, PTL

(* create_user and the unique index: two profiles never hold one address.   *)
THEOREM Unique == Spec => []EmailUnique
  <1>1. IInv => EmailUnique
    BY DEF IInv
  <1> QED
    BY <1>1, Always, PTL

(* register, confirm_deletion and DELETE /users/{id}: while no call failed,  *)
(* a user that nothing is under way for has a credential exactly when it    *)
(* has a profile, or the last of the three took the profile only.           *)
THEOREM Agreement == Spec => []RowsAgree
  <1>1. IInv => RowsAgree
    <2> SUFFICES ASSUME IInv, NEW u \in Requests, lost = 0, ~Busy(u)
                 PROVE  u \in cred <=> profile[u] = "live" \/ LeftBehind(u)
      BY DEF RowsAgree
    <2>1. Credentials /\ Profiles /\ Steps /\ TypeOK
      BY DEF IInv, Undisturbed
    <2>2. profile[u] \in {"none", "live", "deleted"}
      BY <2>1 DEF Busy, TypeOK
    <2>3. \A r \in Requests : Deletes(r, u) => who[r] = u /\ Past(r, {"committed"}, "delete")
      BY DEF Deletes, Past, Busy, Open
    <2>4. Registered(u) => Past(u, {"committed"}, "register")
      BY <2>1 DEF Registered, Past, Steps, Busy, Open
    <2>5. CASE profile[u] = "none"
      BY <2>1, <2>5 DEF Credentials, Profiles, Registered, Past, LeftBehind
    <2>6. CASE profile[u] = "live"
      BY <2>1, <2>4, <2>6 DEF Credentials, Profiles, Deletes, Past
    <2>7. CASE profile[u] = "deleted"
      BY <2>1, <2>3, <2>4, <2>7 DEF Credentials, Profiles, LeftBehind, Past
    <2> QED
      BY <2>2, <2>5, <2>6, <2>7
  <1> QED
    BY <1>1, Always, PTL

(* confirm_deletion: while no call failed, a session that is live, or waits *)
(* for its commit, after a deletion of its user belongs to a login that     *)
(* overlapped: it had not committed the session when the sweep took its     *)
(* snapshot and was past the look-up of the profile, or found the profile   *)
(* before the deletion committed.                                           *)
THEOREM Disconnected == Spec => []DeletedMeansOut
  <1>1. IInv => DeletedMeansOut
    BY DEF IInv, Undisturbed, Overlaps, DeletedMeansOut, Past
  <1> QED
    BY <1>1, Always, PTL
=============================================================================
