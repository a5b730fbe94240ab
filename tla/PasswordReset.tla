---------------------------- MODULE PasswordReset -----------------------------
(***************************************************************************)
(* auth-service: the password of one account, under login, verify_password *)
(* and reset_password.  The credential row is in the database of           *)
(* auth-service; reset tokens are in user-service and sessions in          *)
(* session-service, both behind HTTP calls that may be lost.               *)
(*                                                                         *)
(* Each request is one transaction over the row: it keeps the row lock of  *)
(* an UPDATE across its remote calls, and get_db commits after the answer. *)
(* The same holds in the remote services: a session or a used mark is      *)
(* visible to others only once its own transaction has committed.          *)
(*                                                                         *)
(* The session and the reset token of a login are named by its request.    *)
(***************************************************************************)
EXTENDS Naturals, FiniteSets

CONSTANTS
  Requests,  \* requests received
  Passwords, \* passwords
  First,     \* the password at registration
  Asks,      \* bound: Asks[r] holds the pairs <<endpoint, password>> r may be
  MaxLost,   \* bound: remote calls, commits and requests that fail
  None       \* no password, no token, no call

Calls ==
       [op : {"login", "verify"}, pw : Passwords, arg : {None}]
  \cup [op : {"reset"}, pw : Passwords, arg : Requests]

ASSUME FirstAssumption == First \in Passwords
ASSUME NoneAssumption == None \notin Requests \cup Passwords \cup Calls
ASSUME LossesAssumption == MaxLost \in Nat

VARIABLES
  hash,      \* the committed row: password, and whether its parameters are old
  token,     \* token[l]: the reset token mailed after login l
  session,   \* session[l]: that of login l: "none", "open", "live", "closing" or "ended"
  ending,    \* ending[r]: sessions the revoke-all of r matches, then holds
  pc,        \* pc[r]: what request r does next
  call,      \* call[r]: endpoint and arguments
  put,       \* put[r]: password whose hash r wrote, uncommitted, or None
  swept,     \* swept[r]: the revoke-all of reset r took effect
  lost,      \* failures so far
  older,     \* history, older[r]: requests that read the row before r committed
  during     \* history, during[r]: logins in progress around the sweep of r

vars == <<hash, token, session, ending, pc, call, put, swept, lost, older, during>>
history == <<older, during>>
remote == <<token, session, ending, swept>>

------------------------------------------------------------------------------
Open == {"begin", "rehash", "session", "alert",
         "update", "confirm", "revoke", "sweep", "answered"}
Over == {"refused", "failed", "committed"}

Go(r, step) == pc' = [pc EXCEPT ![r] = step]
Locked(r) == \E q \in Requests \ {r} : put[q] # None
Lose == lost < MaxLost /\ lost' = lost + 1

Init ==
  /\ hash \in [pw : {First}, old : BOOLEAN]
  /\ token = [r \in Requests |-> "none"]
  /\ session = [r \in Requests |-> "none"]
  /\ ending = [r \in Requests |-> {}]
  /\ pc = [r \in Requests |-> "idle"]
  /\ call = [r \in Requests |-> None]
  /\ put = [r \in Requests |-> None]
  /\ swept = [r \in Requests |-> FALSE]
  /\ lost = 0
  /\ older = [r \in Requests |-> {}]
  /\ during = [r \in Requests |-> {}]

(* A reset presents a token that was mailed. *)
Receive(r, c) ==
  /\ pc[r] = "idle"
  /\ c.op = "reset" => token[c.arg] # "none"
  /\ call' = [call EXCEPT ![r] = c]
  /\ Go(r, "begin")
  /\ UNCHANGED <<hash, remote, put, lost, history>>

------------------------------------------------------------------------------
(* login and verify_password *)

(* Mutation: the result of verify_password is not used. *)
Matches_Always(pw) == TRUE

Matches(pw) == pw = hash.pw

AfterRead(r) ==
  IF hash.old THEN "rehash"
  ELSE IF call[r].op = "login" THEN "session" ELSE "answered"

(* A login that reads the old row while a reset is between the snapshot of  *)
(* its sweep and its commit counts as one that goes on around the sweep.    *)
ReadHash(r) ==
  /\ pc[r] = "begin" /\ call[r].op # "reset"
  /\ Go(r, IF Matches(call[r].pw) THEN AfterRead(r) ELSE "refused")
  /\ during' = [q \in Requests |->
                  IF pc[q] = "sweep" \/ (swept[q] /\ pc[q] = "answered")
                  THEN during[q] \cup {r} ELSE during[q]]
  /\ UNCHANGED <<hash, remote, call, put, lost, older>>

(* needs_rehash: the hash of the password that was presented is written.    *)
Rehash(r) ==
  /\ pc[r] = "rehash"
  /\ ~Locked(r)
  /\ put' = [put EXCEPT ![r] = call[r].pw]
  /\ Go(r, IF call[r].op = "login" THEN "session" ELSE "answered")
  /\ UNCHANGED <<hash, remote, call, lost, history>>

(* _create_session ignores the status of the answer.                        *)
CreateSession(r) ==
  /\ pc[r] = "session"
  /\ \/ session' = [session EXCEPT ![r] = "open"] /\ UNCHANGED lost
     \/ Lose /\ UNCHANGED session
  /\ Go(r, "alert")
  /\ UNCHANGED <<hash, token, ending, swept, call, put, history>>

(* Step 8: after enough failures a reset token is stored, or not, and sent. *)
Alert(r) ==
  /\ pc[r] = "alert"
  /\ \/ UNCHANGED <<token, lost>>
     \/ token' = [token EXCEPT ![r] = "unused"] /\ UNCHANGED lost
     \/ Lose /\ token' = [token EXCEPT ![r] = "unsaved"]
  /\ Go(r, "answered")
  /\ UNCHANGED <<hash, session, ending, swept, call, put, history>>

------------------------------------------------------------------------------
(* reset_password *)

(* check_password_reset_token, or no answer: invalid. *)
CheckToken(r) ==
  /\ pc[r] = "begin" /\ call[r].op = "reset"
  /\ \/ /\ Go(r, IF token[call[r].arg] \in {"unused", "marked"} THEN "update" ELSE "refused")
        /\ UNCHANGED lost
     \/ Lose /\ Go(r, "refused")
  /\ UNCHANGED <<hash, remote, call, put, history>>

(* Mutation: the arguments of reset_password are swapped. *)
UpdatePassword_Swapped(r) ==
  /\ pc[r] = "update"
  /\ ~Locked(r)
  /\ put' = [put EXCEPT ![r] = call[r].arg]
  /\ Go(r, "confirm")
  /\ UNCHANGED <<hash, remote, call, lost, history>>

UpdatePassword(r) ==
  /\ pc[r] = "update"
  /\ ~Locked(r)
  /\ put' = [put EXCEPT ![r] = call[r].pw]
  /\ Go(r, "confirm")
  /\ UNCHANGED <<hash, remote, call, lost, history>>

(* Mutation: mark_as_used finds no row. *)
ConfirmReset_NoMark(r) ==
  /\ pc[r] = "confirm"
  /\ Go(r, "revoke")
  /\ UNCHANGED <<hash, remote, call, put, lost, history>>

(* The UPDATE of mark_as_used, which changes nothing about a token that is  *)
(* used or expired already; its failure is logged and ignored.              *)
ConfirmReset(r) ==
  /\ pc[r] = "confirm"
  /\ \/ /\ token[call[r].arg] # "marked"
        /\ token' = [token EXCEPT ![call[r].arg] = IF @ = "unused" THEN "marked" ELSE @]
        /\ UNCHANGED lost
     \/ Lose /\ UNCHANGED token
  /\ Go(r, "revoke")
  /\ UNCHANGED <<hash, session, ending, swept, call, put, history>>

(* What an UPDATE of session-service finds, that another one may hold.      *)
Found == {l \in Requests : session[l] \in {"live", "closing"}}

(* A login whose session is not committed, or not asked for yet. *)
InProgress(l) ==
  /\ call[l] # None /\ call[l].op = "login"
  /\ \/ session[l] = "open"
     \/ session[l] = "none" /\ pc[l] \in Open

(* The revocation of every session; a failure is logged and ignored.        *)
RevokeAll(r) ==
  /\ pc[r] = "revoke"
  /\ during' = [during EXCEPT ![r] = {l \in Requests : InProgress(l)}]
  /\ \/ ending' = [ending EXCEPT ![r] = Found] /\ Go(r, "sweep") /\ UNCHANGED lost
     \/ Lose /\ Go(r, "answered") /\ UNCHANGED ending
  /\ UNCHANGED <<hash, token, session, swept, call, put, older>>

(* Mutation: the session of the login that mailed the token is spared. *)
Revoked_SparesOwn(r) ==
  /\ \A l \in ending[r] : session[l] # "closing"
  /\ ending' = [ending EXCEPT ![r] = {l \in @ : session[l] = "live" /\ l # call[r].arg}]
  /\ session' = [l \in Requests |-> IF l \in ending'[r] THEN "closing" ELSE session[l]]

(* The UPDATE waits for the rows that another one holds, and leaves those   *)
(* alone that are revoked by then.                                          *)
Revoked(r) ==
  /\ \A l \in ending[r] : session[l] # "closing"
  /\ ending' = [ending EXCEPT ![r] = {l \in @ : session[l] = "live"}]
  /\ session' = [l \in Requests |-> IF l \in ending'[r] THEN "closing" ELSE session[l]]

Sweep(r) ==
  /\ pc[r] = "sweep"
  /\ \/ Revoked(r) /\ swept' = [swept EXCEPT ![r] = TRUE] /\ UNCHANGED lost
     \/ Lose /\ ending' = [ending EXCEPT ![r] = {}] /\ UNCHANGED <<session, swept>>
  /\ Go(r, "answered")
  /\ UNCHANGED <<hash, token, call, put, history>>

------------------------------------------------------------------------------
(* The end of the transactions, and the clock. *)

(* Mutation: the session is not closed and keeps its row lock. *)
Close_Leak(r) == UNCHANGED put

Close(r) == put' = [put EXCEPT ![r] = None]

Written(r) == [pw |-> put[r], old |-> FALSE]

Commit(r) ==
  /\ pc[r] = "answered"
  /\ hash' = IF put[r] = None THEN hash ELSE Written(r)
  /\ older' = [older EXCEPT ![r] = {q \in Requests : pc[q] \notin {"idle", "begin"}}]
  /\ Close(r)
  /\ Go(r, "committed")
  /\ UNCHANGED <<remote, call, lost, during>>

(* A call raises, a statement or the COMMIT fails, or the process dies.     *)
(* session-service may have carried out the call all the same.              *)
Abort(r) ==
  /\ pc[r] \in Open
  /\ Lose
  /\ \/ /\ ending' = [ending EXCEPT ![r] = IF pc[r] = "sweep" THEN {} ELSE @]
        /\ UNCHANGED session
     \/ /\ pc[r] = "session" /\ session' = [session EXCEPT ![r] = "open"]
        /\ UNCHANGED ending
     \/ pc[r] = "sweep" /\ Revoked(r)
  /\ Close(r)
  /\ Go(r, "failed")
  /\ UNCHANGED <<hash, token, swept, call, history>>

(* session-service commits the session of login l, or fails to,             *)
CommitSession(l) ==
  /\ session[l] = "open"
  /\ \/ session' = [session EXCEPT ![l] = "live"] /\ UNCHANGED lost
     \/ Lose /\ session' = [session EXCEPT ![l] = "none"]
  /\ UNCHANGED <<hash, token, ending, swept, pc, call, put, history>>

(* and the revocations of r.                                                *)
CommitSweep(r) ==
  /\ pc[r] # "sweep" /\ ending[r] # {}
  /\ \E end \in {"ended", "live"} :
       /\ session' = [l \in Requests |-> IF l \in ending[r] THEN end ELSE session[l]]
       /\ IF end = "ended" THEN UNCHANGED <<lost, swept>>
          ELSE Lose /\ swept' = [swept EXCEPT ![r] = FALSE]
  /\ ending' = [ending EXCEPT ![r] = {}]
  /\ UNCHANGED <<hash, token, pc, call, put, history>>

(* user-service commits the used mark of token l, or fails to. *)
CommitMark(l) ==
  /\ token[l] = "marked"
  /\ \/ token' = [token EXCEPT ![l] = "used"] /\ UNCHANGED lost
     \/ Lose /\ token' = [token EXCEPT ![l] = "unused"]
  /\ UNCHANGED <<hash, session, ending, swept, pc, call, put, history>>

ExpireToken(l) ==
  /\ token[l] = "unused"
  /\ token' = [token EXCEPT ![l] = "expired"]
  /\ UNCHANGED <<hash, session, ending, swept, pc, call, put, lost, history>>

Proceed(r) ==
  \/ ReadHash(r) \/ Rehash(r) \/ CreateSession(r) \/ Alert(r)
  \/ CheckToken(r) \/ UpdatePassword(r) \/ ConfirmReset(r)
  \/ RevokeAll(r) \/ Sweep(r)
  \/ Commit(r)

Settle(l) == CommitSession(l) \/ CommitSweep(l) \/ CommitMark(l)

Next ==
  \/ \E r \in Requests : \E c \in {d \in Calls : <<d.op, d.pw>> \in Asks[r]} :
       Receive(r, c)
  \/ \E r \in Requests : Proceed(r) \/ Abort(r)
  \/ \E l \in Requests : Settle(l) \/ ExpireToken(l)

Spec == Init /\ [][Next]_vars
FairSpec == Spec /\ \A r \in Requests : WF_vars(Proceed(r)) /\ WF_vars(Settle(r))

------------------------------------------------------------------------------
(* Properties *)

TypeOK ==
  /\ hash \in [pw : Passwords, old : BOOLEAN]
  /\ token \in [Requests -> {"none", "unsaved", "unused", "marked", "used", "expired"}]
  /\ session \in [Requests -> {"none", "open", "live", "closing", "ended"}]
  /\ ending \in [Requests -> SUBSET Requests]
  /\ pc \in [Requests -> Open \cup Over \cup {"idle"}]
  /\ call \in [Requests -> Calls \cup {None}]
  /\ put \in [Requests -> Passwords \cup {None}]
  /\ swept \in [Requests -> BOOLEAN]
  /\ lost \in 0..MaxLost
  /\ older \in [Requests -> SUBSET Requests]
  /\ during \in [Requests -> SUBSET Requests]

(* reset_password: "A successful reset revokes every session for the user". *)
(* The row commits after the sweep and a session after the answer of        *)
(* session-service, so the old password can leave a session behind: but     *)
(* only that of a login in progress when the sweep took its snapshot, or    *)
(* one that read the row between that and the commit.                       *)
SurvivorsOverlap ==
  \A r, l \in Requests :
    /\ pc[r] = "committed" /\ swept[r]
    /\ session[l] = "live" /\ l \in older[r]
    => l \in during[r]

(* The rehash of a login or of a password check changes which password is   *)
(* accepted only when a reset committed after it had read the row.          *)
Reset(q) == call[q] # None /\ call[q].op = "reset"
Commits(r) == pc[r] = "answered" /\ pc'[r] = "committed"

StaleRehashOnly ==
  [][\A r \in Requests :
       Commits(r) /\ ~Reset(r) /\ hash'.pw # hash.pw =>
         \E q \in Requests : Reset(q) /\ pc[q] = "committed" /\ r \in older[q]]_vars

(* "It is single-use", for resets that do not overlap: while no call has    *)
(* failed, a reset is refused once another reset with its token has         *)
(* committed and so has the used mark it left in user-service.              *)
UsedTokenRefused ==
  [][\A r, q \in Requests :
       /\ pc[r] = "begin" /\ pc'[r] = "update"
       /\ Reset(q) /\ call[q].arg = call[r].arg
       /\ pc[q] = "committed" /\ lost = 0
       => token[call[r].arg] = "marked"]_vars

(* A reset ends although it waits for the lock of the one row, which others *)
(* hold across calls to three services.                                     *)
EveryRequestEnds ==
  \A r \in Requests : (pc[r] = "begin") ~> (pc[r] \in Over)

(* login, step 4: "Update the hash if necessary ... (Argon2 parameters      *)
(* changed in production)".  Checked as a documented promise: a login or a  *)
(* password check leaves the account with the password it had.              *)
RehashKeepsPassword ==
  [][\A r \in Requests : Commits(r) /\ ~Reset(r) => hash'.pw = hash.pw]_vars
==============================================================================
