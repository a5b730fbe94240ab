-------------------------- MODULE PasswordResetProofs ---------------------------
(***************************************************************************)
(* Proofs about PasswordReset: TypeOK, SurvivorsOverlap, StaleRehashOnly   *)
(* and UsedTokenRefused hold for any requests, passwords and number of     *)
(* losses.                                                                 *)
(***************************************************************************)
EXTENDS PasswordReset, TLAPS

Login(r) == call[r] # None /\ call[r].op = "login"

(* Which endpoint goes through which step, and what it has by then. *)
Steps ==
  \A r \in Requests :
    /\ pc[r] # "idle" => call[r] \in Calls
    /\ pc[r] \in {"session", "alert"} => Login(r)
    /\ pc[r] = "rehash" => ~Reset(r)
    /\ pc[r] \in {"update", "confirm", "revoke", "sweep"} => Reset(r)
    /\ session[r] # "none" => Login(r)
    /\ pc[r] \in {"idle", "begin", "rehash", "session"} => session[r] = "none"
    /\ pc[r] \in {"idle", "begin", "rehash", "session", "alert"} => token[r] = "none"
    /\ Reset(r) => token[call[r].arg] # "none"
    /\ Reset(r) /\ pc[r] \in {"update", "confirm"} => token[call[r].arg] # "unsaved"
    /\ swept[r] => Reset(r) /\ pc[r] \in {"answered", "committed", "failed"}
    /\ ending[r] # {} => pc[r] \in {"sweep", "answered", "committed", "failed"}

(* A transaction writes the password of its call, a reset always.           *)
Writes ==
  \A r \in Requests :
    /\ put[r] # None => pc[r] \notin {"idle", "begin"} /\ put[r] = call[r].pw
    /\ Reset(r) /\ pc[r] \in {"confirm", "revoke", "sweep", "answered"} => put[r] # None

(* Who read the row before a commit has begun. *)
OlderBegan ==
  \A r, l \in Requests : l \in older[r] => pc[l] \notin {"idle", "begin"}

(* A sweep matches committed sessions.  Once it has taken them, it holds    *)
(* them alone until its transaction ends.                                   *)
Holds ==
  \A r \in Requests :
    /\ \A l \in ending[r] : session[l] \notin {"none", "open"}
    /\ pc[r] # "sweep" => \A l \in ending[r] :
         /\ session[l] = "closing"
         /\ \A q \in Requests \ {r} : pc[q] # "sweep" => l \notin ending[q]

(* A login that had begun when a reset committed and has a session, or may  *)
(* still get one, overlapped with the sweep of the reset, unless the sweep  *)
(* has its session.                                                         *)
Opens(l) ==
  \/ session[l] = "open"
  \/ session[l] = "none" /\ pc[l] \in Open /\ Login(l)

Near(r, l) ==
  \/ pc[r] = "sweep" /\ pc[l] \notin {"idle", "begin"}
  \/ /\ swept[r]
     /\ \/ pc[r] = "answered" /\ pc[l] \notin {"idle", "begin"}
        \/ pc[r] = "committed" /\ l \in older[r]

Overlaps ==
  \A r, l \in Requests : Near(r, l) =>
    /\ Opens(l) => l \in during[r]
    /\ session[l] = "live" => l \in during[r] \/ (pc[r] = "sweep" /\ l \in ending[r])
    /\ session[l] = "closing" => l \in during[r] \cup ending[r]

(* The parameters of a hash are old until the first reset.  A rehash that   *)
(* is under way writes the password of the row, unless a reset overtook it. *)
Done(q) == Reset(q) /\ pc[q] = "committed"
Rehashes(r) == ~Reset(r) /\ (pc[r] = "rehash" \/ put[r] # None)

RehashFollows ==
  /\ (\E q \in Requests : Done(q)) => ~hash.old
  /\ \A r \in Requests : Rehashes(r) =>
       \/ hash.pw = call[r].pw /\ \A q \in Requests : ~Done(q)
       \/ \E q \in Requests : Done(q) /\ r \in older[q]

(* While nothing was lost, a reset leaves its token marked, used or expired.*)
Marked ==
  \A q \in Requests :
    lost = 0 /\ Reset(q) /\ pc[q] \in {"revoke", "sweep", "answered", "committed"} =>
      token[call[q].arg] \in {"marked", "used", "expired"}

IInv ==
  TypeOK /\ Steps /\ Writes /\ OlderBegan /\ Holds /\ Overlaps /\ RehashFollows /\ Marked

------------------------------------------------------------------------------
(* Types and steps *)

(* A call has an operation, a password and, for a reset, a token. *)
LEMMA CallTypes ==
  ASSUME NEW c \in Calls
  PROVE  /\ c.pw \in Passwords /\ c.op \in {"login", "verify", "reset"} /\ c # None
         /\ c.op = "reset" => c.arg \in Requests
  BY NoneAssumption DEF Calls

(* Every variable keeps its type. *)
LEMMA TypeStep ==
  ASSUME TypeOK, Steps, [Next]_vars
  PROVE  TypeOK'
  <1> USE DEF Open, Over, Go, Lose, remote, history
  <1>1. ASSUME NEW r \in Requests, NEW c \in Calls, Receive(r, c) PROVE TypeOK'
    BY <1>1, LossesAssumption, CallTypes DEF Receive, TypeOK, Steps
  <1>2. ASSUME NEW r \in Requests, ReadHash(r) PROVE TypeOK'
    BY <1>2, LossesAssumption, CallTypes DEF ReadHash, AfterRead, TypeOK, Steps
  <1>3. ASSUME NEW r \in Requests, Rehash(r) PROVE TypeOK'
    BY <1>3, LossesAssumption, CallTypes DEF Rehash, TypeOK, Steps
  <1>4. ASSUME NEW r \in Requests, CreateSession(r) PROVE TypeOK'
    BY <1>4, LossesAssumption, CallTypes DEF CreateSession, TypeOK, Steps
  <1>5. ASSUME NEW r \in Requests, Alert(r) PROVE TypeOK'
    BY <1>5, LossesAssumption, CallTypes DEF Alert, TypeOK, Steps
  <1>6. ASSUME NEW r \in Requests, CheckToken(r) PROVE TypeOK'
    BY <1>6, LossesAssumption, CallTypes DEF CheckToken, TypeOK, Steps
  <1>7. ASSUME NEW r \in Requests, UpdatePassword(r) PROVE TypeOK'
    BY <1>7, LossesAssumption, CallTypes DEF UpdatePassword, TypeOK, Steps
  <1>8. ASSUME NEW r \in Requests, ConfirmReset(r) PROVE TypeOK'
    BY <1>8, LossesAssumption, CallTypes DEF ConfirmReset, TypeOK, Steps
  <1>9. ASSUME NEW r \in Requests, RevokeAll(r) PROVE TypeOK'
    <2>1. Found \in SUBSET Requests /\ {l \in Requests : InProgress(l)} \in SUBSET Requests
      BY DEF Found
    <2> QED
      BY <1>9, <2>1, LossesAssumption DEF RevokeAll, TypeOK
  <1>10. ASSUME NEW r \in Requests, Commit(r) PROVE TypeOK'
    BY <1>10, LossesAssumption, CallTypes DEF Commit, Close, Written, TypeOK, Steps
  <1>11. ASSUME NEW r \in Requests, Abort(r) PROVE TypeOK'
    BY <1>11, LossesAssumption, CallTypes DEF Abort, Revoked, Close, TypeOK, Steps
  <1>12. ASSUME NEW l \in Requests, CommitSession(l) PROVE TypeOK'
    BY <1>12, LossesAssumption, CallTypes DEF CommitSession, TypeOK, Steps
  <1>13. ASSUME NEW l \in Requests, CommitMark(l) PROVE TypeOK'
    BY <1>13, LossesAssumption, CallTypes DEF CommitMark, TypeOK, Steps
  <1>14. ASSUME NEW l \in Requests, ExpireToken(l) PROVE TypeOK'
    BY <1>14, LossesAssumption, CallTypes DEF ExpireToken, TypeOK, Steps
  <1>15. ASSUME NEW r \in Requests, Sweep(r) PROVE TypeOK'
    <2>1. ending' \in [Requests -> SUBSET Requests]
      BY <1>15 DEF Sweep, Revoked, TypeOK
    <2>2. session' \in [Requests -> {"none", "open", "live", "closing", "ended"}]
      BY <1>15 DEF Sweep, Revoked, TypeOK
    <2>3. swept' \in [Requests -> BOOLEAN]
      BY <1>15 DEF Sweep, TypeOK
    <2>4. lost' \in 0..MaxLost
      BY <1>15, LossesAssumption DEF Sweep, TypeOK
    <2> QED
      BY <1>15, <2>1, <2>2, <2>3, <2>4 DEF Sweep, TypeOK
  <1>16. ASSUME NEW r \in Requests, CommitSweep(r) PROVE TypeOK'
    <2>1. ending' \in [Requests -> SUBSET Requests]
      BY <1>16 DEF CommitSweep, TypeOK
    <2>2. session' \in [Requests -> {"none", "open", "live", "closing", "ended"}]
      BY <1>16 DEF CommitSweep, TypeOK
    <2>3. UNCHANGED <<lost, swept>> \/ (lost < MaxLost /\ lost' = lost + 1 /\ swept' = [swept EXCEPT ![r] = FALSE])
      BY <1>16 DEF CommitSweep
    <2>4. lost' \in 0..MaxLost
      BY <2>3, LossesAssumption DEF TypeOK
    <2>5. swept' \in [Requests -> BOOLEAN]
      BY <2>3 DEF TypeOK
    <2> QED
      BY <1>16, <2>1, <2>2, <2>4, <2>5 DEF CommitSweep, TypeOK
  <1>17. CASE UNCHANGED vars
    BY <1>17 DEF vars, TypeOK, Steps
  <1> QED
    BY <1>1, <1>2, <1>3, <1>4, <1>5, <1>6, <1>7, <1>8, <1>9, <1>10, <1>11, <1>12, <1>13, <1>14,
       <1>15, <1>16, <1>17
    DEF Next, Proceed, Settle

(* Requests go through the steps of their endpoint. *)
LEMMA StepsStep ==
  ASSUME TypeOK, Steps, Holds, [Next]_vars
  PROVE  Steps'
  <1> USE DEF Open, Over, Go, Lose, remote, history
  <1>1. ASSUME NEW r \in Requests, NEW c \in Calls, Receive(r, c) PROVE Steps'
    BY <1>1, CallTypes DEF Receive, TypeOK, Steps, Login, Reset
  <1>2. ASSUME NEW r \in Requests, ReadHash(r) PROVE Steps'
    BY <1>2, CallTypes DEF ReadHash, AfterRead, TypeOK, Steps, Login, Reset
  <1>3. ASSUME NEW r \in Requests, Rehash(r) PROVE Steps'
    BY <1>3, CallTypes DEF Rehash, TypeOK, Steps, Login, Reset
  <1>4. ASSUME NEW r \in Requests, CreateSession(r) PROVE Steps'
    BY <1>4, CallTypes DEF CreateSession, TypeOK, Steps, Login, Reset
  <1>5. ASSUME NEW r \in Requests, Alert(r) PROVE Steps'
    BY <1>5, CallTypes DEF Alert, TypeOK, Steps, Login, Reset
  <1>6. ASSUME NEW r \in Requests, CheckToken(r) PROVE Steps'
    BY <1>6, CallTypes DEF CheckToken, TypeOK, Steps, Login, Reset
  <1>7. ASSUME NEW r \in Requests, UpdatePassword(r) PROVE Steps'
    BY <1>7, CallTypes DEF UpdatePassword, TypeOK, Steps, Login, Reset
  <1>8. ASSUME NEW r \in Requests, ConfirmReset(r) PROVE Steps'
    BY <1>8, CallTypes DEF ConfirmReset, TypeOK, Steps, Login, Reset
  <1>9. ASSUME NEW r \in Requests, RevokeAll(r) PROVE Steps'
    BY <1>9, CallTypes DEF RevokeAll, Found, TypeOK, Steps, Login, Reset
  <1>10. ASSUME NEW r \in Requests, Commit(r) PROVE Steps'
    BY <1>10, CallTypes DEF Commit, Close, Written, TypeOK, Steps, Login, Reset
  <1>11. ASSUME NEW r \in Requests, Abort(r) PROVE Steps'
    BY <1>11, CallTypes DEF Abort, Revoked, Close, TypeOK, Steps, Login, Reset
  <1>12. ASSUME NEW l \in Requests, CommitSession(l) PROVE Steps'
    BY <1>12, CallTypes DEF CommitSession, TypeOK, Steps, Login, Reset
  <1>13. ASSUME NEW l \in Requests, CommitMark(l) PROVE Steps'
    BY <1>13, CallTypes DEF CommitMark, TypeOK, Steps, Login, Reset
  <1>14. ASSUME NEW l \in Requests, ExpireToken(l) PROVE Steps'
    BY <1>14, CallTypes DEF ExpireToken, TypeOK, Steps, Login, Reset
  <1>15. ASSUME NEW r \in Requests, Sweep(r) PROVE Steps'
    BY <1>15, CallTypes DEF Sweep, Revoked, TypeOK, Steps, Login, Reset
  <1>16. ASSUME NEW l \in Requests, CommitSweep(l) PROVE Steps'
    BY <1>16, CallTypes DEF CommitSweep, TypeOK, Steps, Holds, Login, Reset
  <1>17. CASE UNCHANGED vars
    BY <1>17 DEF vars, TypeOK, Steps, Login, Reset
  <1> QED
    BY <1>1, <1>2, <1>3, <1>4, <1>5, <1>6, <1>7, <1>8, <1>9, <1>10, <1>11, <1>12, <1>13, <1>14,
       <1>15, <1>16, <1>17
    DEF Next, Proceed, Settle

(* An uncommitted hash is that of the password of the call. *)
LEMMA WritesStep ==
  ASSUME TypeOK, Steps, Writes, [Next]_vars
  PROVE  Writes'
  <1> USE DEF Open, Over, Go, Lose, remote, history
  <1>1. ASSUME NEW r \in Requests, NEW c \in Calls, Receive(r, c) PROVE Writes'
    BY <1>1, CallTypes, NoneAssumption DEF Receive, TypeOK, Steps, Writes, Login, Reset
  <1>2. ASSUME NEW r \in Requests, ReadHash(r) PROVE Writes'
    BY <1>2, CallTypes, NoneAssumption
    DEF ReadHash, AfterRead, TypeOK, Steps, Writes, Login, Reset
  <1>3. ASSUME NEW r \in Requests, Rehash(r) PROVE Writes'
    BY <1>3, CallTypes, NoneAssumption DEF Rehash, TypeOK, Steps, Writes, Login, Reset
  <1>4. ASSUME NEW r \in Requests, CreateSession(r) PROVE Writes'
    BY <1>4, CallTypes, NoneAssumption DEF CreateSession, TypeOK, Steps, Writes, Login, Reset
  <1>5. ASSUME NEW r \in Requests, Alert(r) PROVE Writes'
    BY <1>5, CallTypes, NoneAssumption DEF Alert, TypeOK, Steps, Writes, Login, Reset
  <1>6. ASSUME NEW r \in Requests, CheckToken(r) PROVE Writes'
    BY <1>6, CallTypes, NoneAssumption DEF CheckToken, TypeOK, Steps, Writes, Login, Reset
  <1>7. ASSUME NEW r \in Requests, UpdatePassword(r) PROVE Writes'
    BY <1>7, CallTypes, NoneAssumption DEF UpdatePassword, TypeOK, Steps, Writes, Login, Reset
  <1>8. ASSUME NEW r \in Requests, ConfirmReset(r) PROVE Writes'
    BY <1>8, CallTypes, NoneAssumption DEF ConfirmReset, TypeOK, Steps, Writes, Login, Reset
  <1>9. ASSUME NEW r \in Requests, RevokeAll(r) PROVE Writes'
    BY <1>9, CallTypes, NoneAssumption DEF RevokeAll, Found, TypeOK, Steps, Writes, Login, Reset
  <1>10. ASSUME NEW r \in Requests, Commit(r) PROVE Writes'
    BY <1>10, CallTypes, NoneAssumption
    DEF Commit, Close, Written, TypeOK, Steps, Writes, Login, Reset
  <1>11. ASSUME NEW r \in Requests, Abort(r) PROVE Writes'
    BY <1>11, CallTypes, NoneAssumption DEF Abort, Revoked, Close, TypeOK, Steps, Writes, Login, Reset
  <1>12. ASSUME NEW l \in Requests, CommitSession(l) PROVE Writes'
    BY <1>12, CallTypes, NoneAssumption DEF CommitSession, TypeOK, Steps, Writes, Login, Reset
  <1>13. ASSUME NEW l \in Requests, CommitMark(l) PROVE Writes'
    BY <1>13, CallTypes, NoneAssumption DEF CommitMark, TypeOK, Steps, Writes, Login, Reset
  <1>14. ASSUME NEW l \in Requests, ExpireToken(l) PROVE Writes'
    BY <1>14, CallTypes, NoneAssumption DEF ExpireToken, TypeOK, Steps, Writes, Login, Reset
  <1>15. ASSUME NEW r \in Requests, Sweep(r) PROVE Writes'
    BY <1>15, CallTypes, NoneAssumption DEF Sweep, Revoked, TypeOK, Steps, Writes, Login, Reset
  <1>16. ASSUME NEW l \in Requests, CommitSweep(l) PROVE Writes'
    BY <1>16, CallTypes, NoneAssumption DEF CommitSweep, TypeOK, Steps, Writes, Login, Reset
  <1>17. CASE UNCHANGED vars
    BY <1>17 DEF vars, TypeOK, Steps, Writes, Login, Reset
  <1> QED
    BY <1>1, <1>2, <1>3, <1>4, <1>5, <1>6, <1>7, <1>8, <1>9, <1>10, <1>11, <1>12, <1>13, <1>14,
       <1>15, <1>16, <1>17
    DEF Next, Proceed, Settle

(* Nobody goes back to the beginning. *)
LEMMA OlderStep ==
  ASSUME TypeOK, OlderBegan, [Next]_vars
  PROVE  OlderBegan'
  <1> USE DEF Open, Over, Go, Lose, remote, history
  <1>1. ASSUME NEW r \in Requests, NEW c \in Calls, Receive(r, c) PROVE OlderBegan'
    BY <1>1 DEF Receive, TypeOK, OlderBegan
  <1>2. ASSUME NEW r \in Requests, ReadHash(r) PROVE OlderBegan'
    BY <1>2 DEF ReadHash, AfterRead, TypeOK, OlderBegan
  <1>3. ASSUME NEW r \in Requests, Rehash(r) PROVE OlderBegan'
    BY <1>3 DEF Rehash, TypeOK, OlderBegan
  <1>4. ASSUME NEW r \in Requests, CreateSession(r) PROVE OlderBegan'
    BY <1>4 DEF CreateSession, TypeOK, OlderBegan
  <1>5. ASSUME NEW r \in Requests, Alert(r) PROVE OlderBegan'
    BY <1>5 DEF Alert, TypeOK, OlderBegan
  <1>6. ASSUME NEW r \in Requests, CheckToken(r) PROVE OlderBegan'
    BY <1>6 DEF CheckToken, TypeOK, OlderBegan
  <1>7. ASSUME NEW r \in Requests, UpdatePassword(r) PROVE OlderBegan'
    BY <1>7 DEF UpdatePassword, TypeOK, OlderBegan
  <1>8. ASSUME NEW r \in Requests, ConfirmReset(r) PROVE OlderBegan'
    BY <1>8 DEF ConfirmReset, TypeOK, OlderBegan
  <1>9. ASSUME NEW r \in Requests, RevokeAll(r) PROVE OlderBegan'
    BY <1>9 DEF RevokeAll, Found, TypeOK, OlderBegan
  <1>10. ASSUME NEW r \in Requests, Commit(r) PROVE OlderBegan'
    BY <1>10 DEF Commit, Close, Written, TypeOK, OlderBegan
  <1>11. ASSUME NEW r \in Requests, Abort(r) PROVE OlderBegan'
    BY <1>11 DEF Abort, Revoked, Close, TypeOK, OlderBegan
  <1>12. ASSUME NEW l \in Requests, CommitSession(l) PROVE OlderBegan'
    BY <1>12 DEF CommitSession, TypeOK, OlderBegan
  <1>13. ASSUME NEW l \in Requests, CommitMark(l) PROVE OlderBegan'
    BY <1>13 DEF CommitMark, TypeOK, OlderBegan
  <1>14. ASSUME NEW l \in Requests, ExpireToken(l) PROVE OlderBegan'
    BY <1>14 DEF ExpireToken, TypeOK, OlderBegan
  <1>15. ASSUME NEW r \in Requests, Sweep(r) PROVE OlderBegan'
    BY <1>15 DEF Sweep, Revoked, TypeOK, OlderBegan
  <1>16. ASSUME NEW l \in Requests, CommitSweep(l) PROVE OlderBegan'
    BY <1>16 DEF CommitSweep, TypeOK, OlderBegan
  <1>17. CASE UNCHANGED vars
    BY <1>17 DEF vars, TypeOK, OlderBegan
  <1> QED
    BY <1>1, <1>2, <1>3, <1>4, <1>5, <1>6, <1>7, <1>8, <1>9, <1>10, <1>11, <1>12, <1>13, <1>14,
       <1>15, <1>16, <1>17
    DEF Next, Proceed, Settle

(* Sweeps wait for each other's rows. *)
LEMMA HoldsStep ==
  ASSUME TypeOK, Steps, Holds, [Next]_vars
  PROVE  Holds'
  <1> USE DEF Open, Over, Go, Lose, remote, history
  <1>1. ASSUME NEW r \in Requests, NEW c \in Calls, Receive(r, c) PROVE Holds'
    BY <1>1 DEF Receive, TypeOK, Steps, Holds
  <1>2. ASSUME NEW r \in Requests, ReadHash(r) PROVE Holds'
    BY <1>2 DEF ReadHash, AfterRead, TypeOK, Steps, Holds
  <1>3. ASSUME NEW r \in Requests, Rehash(r) PROVE Holds'
    BY <1>3 DEF Rehash, TypeOK, Steps, Holds
  <1>4. ASSUME NEW r \in Requests, CreateSession(r) PROVE Holds'
    BY <1>4 DEF CreateSession, TypeOK, Steps, Holds
  <1>5. ASSUME NEW r \in Requests, Alert(r) PROVE Holds'
    BY <1>5 DEF Alert, TypeOK, Steps, Holds
  <1>6. ASSUME NEW r \in Requests, CheckToken(r) PROVE Holds'
    BY <1>6 DEF CheckToken, TypeOK, Steps, Holds
  <1>7. ASSUME NEW r \in Requests, UpdatePassword(r) PROVE Holds'
    BY <1>7 DEF UpdatePassword, TypeOK, Steps, Holds
  <1>8. ASSUME NEW r \in Requests, ConfirmReset(r) PROVE Holds'
    BY <1>8 DEF ConfirmReset, TypeOK, Steps, Holds
  <1>9. ASSUME NEW r \in Requests, RevokeAll(r) PROVE Holds'
    BY <1>9 DEF RevokeAll, Found, TypeOK, Steps, Holds
  <1>10. ASSUME NEW r \in Requests, Commit(r) PROVE Holds'
    BY <1>10 DEF Commit, Close, Written, TypeOK, Steps, Holds
  <1>11. ASSUME NEW r \in Requests, Abort(r) PROVE Holds'
    BY <1>11 DEF Abort, Revoked, Close, TypeOK, Steps, Holds
  <1>12. ASSUME NEW r \in Requests, Sweep(r) PROVE Holds'
    BY <1>12 DEF Sweep, Revoked, TypeOK, Steps, Holds
  <1>13. ASSUME NEW r \in Requests, CommitSession(r) PROVE Holds'
    BY <1>13 DEF CommitSession, TypeOK, Steps, Holds
  <1>14. ASSUME NEW r \in Requests, CommitSweep(r) PROVE Holds'
    BY <1>14 DEF CommitSweep, TypeOK, Steps, Holds
  <1>15. ASSUME NEW r \in Requests, CommitMark(r) PROVE Holds'
    BY <1>15 DEF CommitMark, TypeOK, Steps, Holds
  <1>16. ASSUME NEW r \in Requests, ExpireToken(r) PROVE Holds'
    BY <1>16 DEF ExpireToken, TypeOK, Steps, Holds
  <1>17. CASE UNCHANGED vars
    BY <1>17 DEF vars, Holds
  <1> QED
    BY <1>1, <1>2, <1>3, <1>4, <1>5, <1>6, <1>7, <1>8, <1>9, <1>10, <1>11, <1>12, <1>13, <1>14,
       <1>15, <1>16, <1>17
    DEF Next, Proceed, Settle

(* The logins whose session survives a reset overlapped with it. *)
LEMMA OverlapsStep ==
  ASSUME TypeOK, Steps, OlderBegan, Holds, Overlaps, [Next]_vars
  PROVE  Overlaps'
  <1> USE DEF Open, Over, Go, Lose, remote, history
  <1>1. ASSUME NEW r \in Requests, NEW c \in Calls, Receive(r, c) PROVE Overlaps'
    BY <1>1
    DEF Receive, TypeOK, Steps, OlderBegan, Overlaps, Near, Opens, Login, Reset, InProgress
  <1>2. ASSUME NEW r \in Requests, ReadHash(r) PROVE Overlaps'
    <2>1. /\ UNCHANGED <<swept, session, ending, call, older>> /\ pc[r] = "begin" /\ ~Reset(r)
          /\ \A q \in Requests \ {r} : pc'[q] = pc[q]
          /\ call[r] \in Calls /\ pc'[r] # "sweep"
      BY <1>2 DEF ReadHash, AfterRead, TypeOK, Steps, Reset
    <2>2. ~swept[r] /\ (pc'[r] \in Open => pc[r] \in Open)
      BY <2>1 DEF Steps
    <2>3. \A q \in Requests : /\ during[q] \subseteq during'[q]
                              /\ pc[q] = "sweep" \/ (swept[q] /\ pc[q] = "answered") => r \in during'[q]
      BY <1>2 DEF ReadHash, TypeOK
    <2> SUFFICES ASSUME NEW q \in Requests, NEW l \in Requests, Near(q, l)'
                 PROVE  /\ Opens(l)' => l \in during'[q]
                        /\ session[l] = "live" =>
                             l \in during'[q] \/ (pc'[q] = "sweep" /\ l \in ending[q])
                        /\ session[l] = "closing" => l \in during'[q] \cup ending[q]
      BY <2>1 DEF Overlaps
    <2>4. q # r /\ pc'[q] = pc[q]
      BY <2>1, <2>2 DEF Near, OlderBegan
    <2>5. CASE l = r
      BY <2>1, <2>3, <2>4, <2>5 DEF Near, OlderBegan
    <2>6. CASE l # r
      BY <2>1, <2>3, <2>4, <2>6 DEF Overlaps, Near, Opens, Login
    <2> QED
      BY <2>5, <2>6
  <1>3. ASSUME NEW r \in Requests, Rehash(r) PROVE Overlaps'
    <2>1. /\ UNCHANGED <<swept, session, ending, call, older, during>> /\ pc[r] = "rehash"
          /\ pc'[r] # "sweep" /\ \A q \in Requests \ {r} : pc'[q] = pc[q]
      BY <1>3 DEF Rehash, TypeOK
    <2>2. ~swept[r]
      BY <2>1 DEF Steps, Reset
    <2> QED
      BY <2>1, <2>2 DEF Overlaps, Near, Opens, Login
  <1>4. ASSUME NEW r \in Requests, CreateSession(r) PROVE Overlaps'
    BY <1>4
    DEF CreateSession, TypeOK, Steps, OlderBegan, Overlaps, Near, Opens, Login, Reset, InProgress
  <1>5. ASSUME NEW r \in Requests, Alert(r) PROVE Overlaps'
    <2>1. /\ UNCHANGED <<swept, session, ending, call, older, during>> /\ pc[r] = "alert"
          /\ pc'[r] # "sweep" /\ \A q \in Requests \ {r} : pc'[q] = pc[q]
      BY <1>5 DEF Alert, TypeOK
    <2>2. ~swept[r]
      BY <2>1 DEF Steps, Reset, Login
    <2> QED
      BY <2>1, <2>2 DEF Overlaps, Near, Opens, Login
  <1>6. ASSUME NEW r \in Requests, CheckToken(r) PROVE Overlaps'
    BY <1>6
    DEF CheckToken, TypeOK, Steps, OlderBegan, Overlaps, Near, Opens, Login, Reset, InProgress
  <1>7. ASSUME NEW r \in Requests, UpdatePassword(r) PROVE Overlaps'
    BY <1>7
    DEF UpdatePassword, TypeOK, Steps, OlderBegan, Overlaps, Near, Opens, Login, Reset, InProgress
  <1>8. ASSUME NEW r \in Requests, ConfirmReset(r) PROVE Overlaps'
    BY <1>8
    DEF ConfirmReset, TypeOK, Steps, OlderBegan, Overlaps, Near, Opens, Login, Reset, InProgress
  <1>9. ASSUME NEW r \in Requests, RevokeAll(r) PROVE Overlaps'
    <2>1. /\ UNCHANGED <<call, session, swept, older>> /\ pc[r] = "revoke" /\ ~swept[r]
          /\ \A q \in Requests \ {r} : /\ pc'[q] = pc[q] /\ during'[q] = during[q]
                                       /\ ending'[q] = ending[q]
      BY <1>9 DEF RevokeAll, TypeOK, Steps
    <2>2. \A l \in Requests : Opens(l)' => Opens(l)
      BY <1>9, <2>1 DEF RevokeAll, Opens, Login, TypeOK
    <2>3. \A q \in Requests \ {r}, l \in Requests : Near(q, l)' => Near(q, l)
      BY <1>9, <2>1 DEF RevokeAll, Near, TypeOK
    <2>4. ASSUME NEW l \in Requests, Near(r, l)'
          PROVE  /\ pc'[r] = "sweep" /\ pc[l] \notin {"idle", "begin"}
                 /\ during'[r] = {x \in Requests : InProgress(x)} /\ ending'[r] = Found
      BY <1>9, <2>1, <2>4 DEF RevokeAll, Near, TypeOK
    <2>5. ASSUME NEW l \in Requests, Near(r, l)', Opens(l)' PROVE l \in during'[r]
      <3>1. InProgress(l)
        BY <2>2, <2>5 DEF Opens, InProgress, Login, Steps
      <3> QED
        BY <2>4, <2>5, <3>1
    <2>6. ASSUME NEW l \in Requests, Near(r, l)', session'[l] \in {"live", "closing"}
          PROVE  l \in ending'[r]
      BY <2>1, <2>4, <2>6 DEF Found
    <2>7. ASSUME NEW q \in Requests \ {r}, NEW l \in Requests, Near(q, l)'
          PROVE  /\ Opens(l)' => l \in during'[q]
                 /\ session'[l] = "live" =>
                      l \in during'[q] \/ (pc'[q] = "sweep" /\ l \in ending'[q])
                 /\ session'[l] = "closing" => l \in during'[q] \cup ending'[q]
      BY <2>1, <2>2, <2>3, <2>7 DEF Overlaps
    <2> QED
      BY <2>4, <2>5, <2>6, <2>7 DEF Overlaps
  <1>10. ASSUME NEW r \in Requests, Commit(r) PROVE Overlaps'
    BY <1>10
    DEF Commit, Close, Written, TypeOK, Steps, OlderBegan, Overlaps, Near, Opens, Login, Reset, InProgress
  <1>11. ASSUME NEW r \in Requests, Abort(r) PROVE Overlaps'
    BY <1>11
    DEF Abort, Revoked, Close, TypeOK, Steps, OlderBegan, Overlaps, Near, Opens, Login, Reset, InProgress
  <1>12. ASSUME NEW l \in Requests, CommitSession(l) PROVE Overlaps'
    BY <1>12
    DEF CommitSession, TypeOK, Steps, OlderBegan, Overlaps, Near, Opens, Login, Reset, InProgress
  <1>13. ASSUME NEW l \in Requests, CommitMark(l) PROVE Overlaps'
    BY <1>13
    DEF CommitMark, TypeOK, Steps, OlderBegan, Overlaps, Near, Opens, Login, Reset, InProgress
  <1>14. ASSUME NEW l \in Requests, ExpireToken(l) PROVE Overlaps'
    BY <1>14
    DEF ExpireToken, TypeOK, Steps, OlderBegan, Overlaps, Near, Opens, Login, Reset, InProgress
  <1>15. ASSUME NEW r \in Requests, Sweep(r) PROVE Overlaps'
    BY <1>15 DEF Sweep, Revoked, TypeOK, Steps, OlderBegan, Holds, Overlaps, Near, Opens, Login, Reset, InProgress
  <1>16. ASSUME NEW l \in Requests, CommitSweep(l) PROVE Overlaps'
    BY <1>16 DEF CommitSweep, TypeOK, Steps, OlderBegan, Holds, Overlaps, Near, Opens, Login, Reset, InProgress
  <1>17. CASE UNCHANGED vars
    BY <1>17 DEF vars, TypeOK, Steps, OlderBegan, Overlaps, Near, Opens, Login, Reset, InProgress
  <1> QED
    BY <1>1, <1>2, <1>3, <1>4, <1>5, <1>6, <1>7, <1>8, <1>9, <1>10, <1>11, <1>12, <1>13, <1>14,
       <1>15, <1>16, <1>17
    DEF Next, Proceed, Settle

(* Only a reset that overtook it comes between a rehash and the row. *)
LEMMA RehashStep ==
  ASSUME TypeOK, Steps, Writes, RehashFollows, [Next]_vars
  PROVE  RehashFollows'
  <1> USE DEF Open, Over, Go, Lose, remote, history
  <1>1. ASSUME NEW r \in Requests, NEW c \in Calls, Receive(r, c) PROVE RehashFollows'
    BY <1>1 DEF Receive, TypeOK, Steps, Writes, RehashFollows, Rehashes, Done, Reset, Matches
  <1>2. ASSUME NEW r \in Requests, ReadHash(r) PROVE RehashFollows'
    BY <1>2
    DEF ReadHash, AfterRead, TypeOK, Steps, Writes, RehashFollows, Rehashes, Done, Reset, Matches
  <1>3. ASSUME NEW r \in Requests, Rehash(r) PROVE RehashFollows'
    BY <1>3 DEF Rehash, TypeOK, Steps, Writes, RehashFollows, Rehashes, Done, Reset, Matches
  <1>4. ASSUME NEW r \in Requests, CreateSession(r) PROVE RehashFollows'
    BY <1>4
    DEF CreateSession, TypeOK, Steps, Writes, RehashFollows, Rehashes, Done, Reset, Matches
  <1>5. ASSUME NEW r \in Requests, Alert(r) PROVE RehashFollows'
    BY <1>5 DEF Alert, TypeOK, Steps, Writes, RehashFollows, Rehashes, Done, Reset, Matches
  <1>6. ASSUME NEW r \in Requests, CheckToken(r) PROVE RehashFollows'
    BY <1>6 DEF CheckToken, TypeOK, Steps, Writes, RehashFollows, Rehashes, Done, Reset, Matches
  <1>7. ASSUME NEW r \in Requests, UpdatePassword(r) PROVE RehashFollows'
    BY <1>7
    DEF UpdatePassword, TypeOK, Steps, Writes, RehashFollows, Rehashes, Done, Reset, Matches
  <1>8. ASSUME NEW r \in Requests, ConfirmReset(r) PROVE RehashFollows'
    BY <1>8 DEF ConfirmReset, TypeOK, Steps, Writes, RehashFollows, Rehashes, Done, Reset, Matches
  <1>9. ASSUME NEW r \in Requests, RevokeAll(r) PROVE RehashFollows'
    BY <1>9
    DEF RevokeAll, Found, TypeOK, Steps, Writes, RehashFollows, Rehashes, Done, Reset, Matches
  <1>10. ASSUME NEW r \in Requests, Commit(r) PROVE RehashFollows'
    <2>1. /\ UNCHANGED call /\ pc[r] = "answered" /\ pc' = [pc EXCEPT ![r] = "committed"]
          /\ put' = [put EXCEPT ![r] = None]
          /\ older' = [older EXCEPT ![r] = {q \in Requests : pc[q] \notin {"idle", "begin"}}]
      BY <1>10 DEF Commit, Close
    <2>2. \A q \in Requests : Done(q)' <=> Done(q) \/ (q = r /\ Reset(r))
      BY <2>1 DEF Done, Reset, TypeOK
    <2>3. \A q \in Requests : Rehashes(q)' => Rehashes(q) /\ q # r
      BY <2>1 DEF Rehashes, Reset, TypeOK
    <2>4. hash' = IF put[r] = None THEN hash ELSE [pw |-> call[r].pw, old |-> FALSE]
      BY <1>10 DEF Commit, Written, Writes
    <2>5. CASE Reset(r)
      <3>1. hash'.old = FALSE
        BY <2>1, <2>4, <2>5 DEF Writes
      <3>2. \A q \in Requests : Rehashes(q)' => q \in older'[r]
        BY <2>1, <2>3 DEF Rehashes, Writes, Steps, TypeOK
      <3> QED
        BY <2>2, <2>5, <3>1, <3>2 DEF RehashFollows
    <2>6. CASE ~Reset(r)
      <3>1. hash.old = FALSE => hash'.old = FALSE
        BY <2>4 DEF TypeOK
      <3>2. \A q \in Requests : Done(q) => older'[q] = older[q]
        BY <2>1, <2>6 DEF Done, TypeOK
      <3>3. put[r] # None => hash.pw = call[r].pw \/ \E q \in Requests : Done(q)
        BY <2>6 DEF RehashFollows, Rehashes
      <3>4. hash'.pw = hash.pw \/ \E q \in Requests : Done(q)
        BY <2>4, <3>3
      <3>5. ASSUME NEW x \in Requests, Rehashes(x)'
            PROVE  \/ hash'.pw = call'[x].pw /\ \A q \in Requests : ~Done(q)'
                   \/ \E q \in Requests : Done(q)' /\ x \in older'[q]
        <4>1. Rehashes(x)
          BY <2>3, <3>5
        <4> QED
          BY <2>1, <2>2, <2>6, <3>2, <3>4, <4>1 DEF RehashFollows
      <3>6. (\E q \in Requests : Done(q)') => ~hash'.old
        BY <2>2, <2>6, <3>1 DEF RehashFollows, TypeOK
      <3> QED
        BY <3>5, <3>6 DEF RehashFollows
    <2> QED
      BY <2>5, <2>6
  <1>11. ASSUME NEW r \in Requests, Abort(r) PROVE RehashFollows'
    BY <1>11
    DEF Abort, Revoked, Close, TypeOK, Steps, Writes, RehashFollows, Rehashes, Done, Reset, Matches
  <1>12. ASSUME NEW l \in Requests, CommitSession(l) PROVE RehashFollows'
    BY <1>12
    DEF CommitSession, TypeOK, Steps, Writes, RehashFollows, Rehashes, Done, Reset, Matches
  <1>13. ASSUME NEW l \in Requests, CommitMark(l) PROVE RehashFollows'
    BY <1>13 DEF CommitMark, TypeOK, Steps, Writes, RehashFollows, Rehashes, Done, Reset, Matches
  <1>14. ASSUME NEW l \in Requests, ExpireToken(l) PROVE RehashFollows'
    BY <1>14 DEF ExpireToken, TypeOK, Steps, Writes, RehashFollows, Rehashes, Done, Reset, Matches
  <1>15. ASSUME NEW r \in Requests, Sweep(r) PROVE RehashFollows'
    BY <1>15 DEF Sweep, Revoked, TypeOK, Steps, Writes, RehashFollows, Rehashes, Done, Reset, Matches
  <1>16. ASSUME NEW l \in Requests, CommitSweep(l) PROVE RehashFollows'
    BY <1>16 DEF CommitSweep, TypeOK, Steps, Writes, RehashFollows, Rehashes, Done, Reset, Matches
  <1>17. CASE UNCHANGED vars
    BY <1>17 DEF vars, TypeOK, Steps, Writes, RehashFollows, Rehashes, Done, Reset, Matches
  <1> QED
    BY <1>1, <1>2, <1>3, <1>4, <1>5, <1>6, <1>7, <1>8, <1>9, <1>10, <1>11, <1>12, <1>13, <1>14,
       <1>15, <1>16, <1>17
    DEF Next, Proceed, Settle

(* A used mark that was not lost stays. *)
LEMMA MarkedStep ==
  ASSUME TypeOK, Steps, Marked, [Next]_vars
  PROVE  Marked'
  <1> USE DEF Open, Over, Go, Lose, remote, history
  <1>1. ASSUME NEW r \in Requests, NEW c \in Calls, Receive(r, c) PROVE Marked'
    BY <1>1, CallTypes DEF Receive, TypeOK, Steps, Marked, Login, Reset
  <1>2. ASSUME NEW r \in Requests, ReadHash(r) PROVE Marked'
    BY <1>2, CallTypes DEF ReadHash, AfterRead, TypeOK, Steps, Marked, Login, Reset
  <1>3. ASSUME NEW r \in Requests, Rehash(r) PROVE Marked'
    BY <1>3, CallTypes DEF Rehash, TypeOK, Steps, Marked, Login, Reset
  <1>4. ASSUME NEW r \in Requests, CreateSession(r) PROVE Marked'
    BY <1>4, CallTypes DEF CreateSession, TypeOK, Steps, Marked, Login, Reset
  <1>5. ASSUME NEW r \in Requests, Alert(r) PROVE Marked'
    BY <1>5, CallTypes DEF Alert, TypeOK, Steps, Marked, Login, Reset
  <1>6. ASSUME NEW r \in Requests, CheckToken(r) PROVE Marked'
    BY <1>6, CallTypes DEF CheckToken, TypeOK, Steps, Marked, Login, Reset
  <1>7. ASSUME NEW r \in Requests, UpdatePassword(r) PROVE Marked'
    BY <1>7, CallTypes DEF UpdatePassword, TypeOK, Steps, Marked, Login, Reset
  <1>8. ASSUME NEW r \in Requests, ConfirmReset(r) PROVE Marked'
    BY <1>8, CallTypes DEF ConfirmReset, TypeOK, Steps, Marked, Login, Reset
  <1>9. ASSUME NEW r \in Requests, RevokeAll(r) PROVE Marked'
    BY <1>9, CallTypes DEF RevokeAll, Found, TypeOK, Steps, Marked, Login, Reset
  <1>10. ASSUME NEW r \in Requests, Commit(r) PROVE Marked'
    BY <1>10, CallTypes DEF Commit, Close, Written, TypeOK, Steps, Marked, Login, Reset
  <1>11. ASSUME NEW r \in Requests, Abort(r) PROVE Marked'
    BY <1>11, CallTypes DEF Abort, Revoked, Close, TypeOK, Steps, Marked, Login, Reset
  <1>12. ASSUME NEW l \in Requests, CommitSession(l) PROVE Marked'
    BY <1>12, CallTypes DEF CommitSession, TypeOK, Steps, Marked, Login, Reset
  <1>13. ASSUME NEW l \in Requests, CommitMark(l) PROVE Marked'
    BY <1>13, CallTypes DEF CommitMark, TypeOK, Steps, Marked, Login, Reset
  <1>14. ASSUME NEW l \in Requests, ExpireToken(l) PROVE Marked'
    BY <1>14, CallTypes DEF ExpireToken, TypeOK, Steps, Marked, Login, Reset
  <1>15. ASSUME NEW r \in Requests, Sweep(r) PROVE Marked'
    BY <1>15, CallTypes DEF Sweep, Revoked, TypeOK, Steps, Marked, Login, Reset
  <1>16. ASSUME NEW l \in Requests, CommitSweep(l) PROVE Marked'
    BY <1>16, CallTypes DEF CommitSweep, TypeOK, Steps, Marked, Login, Reset
  <1>17. CASE UNCHANGED vars
    BY <1>17 DEF vars, TypeOK, Steps, Marked, Login, Reset
  <1> QED
    BY <1>1, <1>2, <1>3, <1>4, <1>5, <1>6, <1>7, <1>8, <1>9, <1>10, <1>11, <1>12, <1>13, <1>14,
       <1>15, <1>16, <1>17
    DEF Next, Proceed, Settle

------------------------------------------------------------------------------
(* The theorems *)

(* IInv holds at first, *)
LEMMA Inductive == Init => IInv
  <1> SUFFICES ASSUME Init PROVE IInv
    OBVIOUS
  <1>1. TypeOK
    BY FirstAssumption, LossesAssumption DEF Init, TypeOK
  <1>2. Steps /\ Writes /\ OlderBegan /\ Holds /\ Overlaps /\ Marked
    BY DEF Init, Steps, Writes, OlderBegan, Holds, Overlaps, Near, Marked, Login, Reset
  <1>3. RehashFollows
    BY DEF Init, RehashFollows, Rehashes, Done, Reset
  <1> QED
    BY <1>1, <1>2, <1>3 DEF IInv

(* every step preserves it, *)
LEMMA Preserved == IInv /\ [Next]_vars => IInv'
  BY TypeStep, StepsStep, WritesStep, OlderStep, HoldsStep, OverlapsStep, RehashStep, MarkedStep
  DEF IInv

(* so it is an invariant. *)
LEMMA Always == Spec => []IInv
  BY Inductive, Preserved, PTL DEF Spec

(* Every variable keeps its type. *)
THEOREM TypeCorrect == Spec => []TypeOK
  <1>1. IInv => TypeOK
    BY DEF IInv
  <1> QED
    BY <1>1, Always, PTL

(* reset_password: a session that survives a committed reset whose sweep    *)
(* took effect, of a login that had read the row before the commit, belongs *)
(* to a login in progress around the sweep.                                 *)
THEOREM Survivors == Spec => []SurvivorsOverlap
  <1>1. IInv => SurvivorsOverlap
    BY DEF IInv, Overlaps, Near, Opens, SurvivorsOverlap
  <1> QED
    BY <1>1, Always, PTL

(* login and verify_password: a rehash changes which password is accepted   *)
(* only when a reset committed after it had read the row.                   *)
THEOREM RehashIsStale == Spec => StaleRehashOnly
  <1> DEFINE A == \A r \in Requests :
                    Commits(r) /\ ~Reset(r) /\ hash'.pw # hash.pw =>
                      \E q \in Requests : Reset(q) /\ pc[q] = "committed" /\ r \in older[q]
  <1>1. IInv /\ [Next]_vars => [A]_vars
    <2> SUFFICES ASSUME IInv, [Next]_vars, NEW r \in Requests, Commits(r), ~Reset(r),
                        hash'.pw # hash.pw
                 PROVE  \E q \in Requests : Reset(q) /\ pc[q] = "committed" /\ r \in older[q]
      OBVIOUS
    <2>1. Commit(r)
      <3>1. pc \in [Requests -> Open \cup Over \cup {"idle"}] /\ pc[r] = "answered" /\ pc'[r] = "committed"
        BY DEF IInv, TypeOK, Commits
      <3>2. ASSUME NEW x \in Requests, NEW c \in Calls PROVE ~Receive(x, c)
        BY <3>1 DEF Receive, Go
      <3>3. ASSUME NEW x \in Requests PROVE ~ReadHash(x) /\ ~CheckToken(x) /\ ~Abort(x)
        BY <3>1 DEF ReadHash, AfterRead, CheckToken, Abort, Go
      <3>4. ASSUME NEW x \in Requests PROVE ~Rehash(x) /\ ~CreateSession(x) /\ ~Alert(x)
        BY <3>1 DEF Rehash, CreateSession, Alert, Go
      <3>5. ASSUME NEW x \in Requests PROVE ~UpdatePassword(x) /\ ~ConfirmReset(x) /\ ~RevokeAll(x) /\ ~Sweep(x)
        BY <3>1 DEF UpdatePassword, ConfirmReset, RevokeAll, Sweep, Go
      <3>6. ASSUME NEW x \in Requests
              PROVE  ~CommitSession(x) /\ ~CommitSweep(x) /\ ~CommitMark(x) /\ ~ExpireToken(x)
        BY <3>1 DEF CommitSession, CommitSweep, CommitMark, ExpireToken
      <3>7. ASSUME NEW x \in Requests, Commit(x) PROVE x = r
        BY <3>1, <3>7 DEF Commit, Go
      <3> QED
        BY <3>1, <3>2, <3>3, <3>4, <3>5, <3>6, <3>7 DEF Next, Proceed, Settle, vars
    <2>2. put[r] # None /\ hash'.pw = call[r].pw
      BY <2>1 DEF Commit, Written, IInv, Writes
    <2> QED
      BY <2>2 DEF IInv, RehashFollows, Rehashes, Done
  <1> QED
    BY <1>1, Always, PTL DEF Spec, StaleRehashOnly

(* check_password_reset_token: while no call was lost, a reset is refused   *)
(* once another with its token has committed, and so has the used mark.     *)
THEOREM SingleUse == Spec => UsedTokenRefused
  <1> DEFINE A == \A r, q \in Requests :
                    /\ pc[r] = "begin" /\ pc'[r] = "update"
                    /\ Reset(q) /\ call[q].arg = call[r].arg
                    /\ pc[q] = "committed" /\ lost = 0
                    => token[call[r].arg] = "marked"
  <1>1. IInv /\ [Next]_vars => [A]_vars
    <2> SUFFICES ASSUME IInv, [Next]_vars, NEW r \in Requests, NEW q \in Requests,
                        pc[r] = "begin", pc'[r] = "update", Reset(q), call[q].arg = call[r].arg,
                        pc[q] = "committed", lost = 0
                 PROVE  token[call[r].arg] = "marked"
      OBVIOUS
    <2>1. CheckToken(r)
      <3>1. pc \in [Requests -> Open \cup Over \cup {"idle"}] /\ pc[r] = "begin" /\ pc'[r] = "update"
        BY DEF IInv, TypeOK
      <3>2. ASSUME NEW x \in Requests, NEW c \in Calls PROVE ~Receive(x, c)
        BY <3>1 DEF Receive, Go
      <3>3. ASSUME NEW x \in Requests PROVE ~ReadHash(x) /\ ~Commit(x) /\ ~Abort(x)
        BY <3>1 DEF ReadHash, AfterRead, Commit, Abort, Go
      <3>4. ASSUME NEW x \in Requests PROVE ~Rehash(x) /\ ~CreateSession(x) /\ ~Alert(x)
        BY <3>1 DEF Rehash, CreateSession, Alert, Go
      <3>5. ASSUME NEW x \in Requests PROVE ~UpdatePassword(x) /\ ~ConfirmReset(x) /\ ~RevokeAll(x) /\ ~Sweep(x)
        BY <3>1 DEF UpdatePassword, ConfirmReset, RevokeAll, Sweep, Go
      <3>6. ASSUME NEW x \in Requests
              PROVE  ~CommitSession(x) /\ ~CommitSweep(x) /\ ~CommitMark(x) /\ ~ExpireToken(x)
        BY <3>1 DEF CommitSession, CommitSweep, CommitMark, ExpireToken
      <3>7. ASSUME NEW x \in Requests, CheckToken(x) PROVE x = r
        BY <3>1, <3>7 DEF CheckToken, Go
      <3> QED
        BY <3>1, <3>2, <3>3, <3>4, <3>5, <3>6, <3>7 DEF Next, Proceed, Settle, vars
    <2>2. token[call[r].arg] \in {"unused", "marked"}
      BY <2>1 DEF CheckToken, Go, IInv, TypeOK
    <2> QED
      BY <2>2 DEF IInv, Marked
  <1> QED
    BY <1>1, Always, PTL DEF Spec, UsedTokenRefused
==============================================================================
