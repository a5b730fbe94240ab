-------------------------- MODULE SessionStoreProofs --------------------------
(***************************************************************************)
(* Theorems about SessionStore, for any set of requests and users.         *)
(***************************************************************************)
EXTENDS SessionStore, FiniteSetTheorems, TLAPS

(* What a request in progress knows: its endpoint, and that the session it  *)
(* selected exists and belongs to the user it serves.                       *)
CallInv ==
  \A r \in Requests :
    /\ pc[r] # "idle" => call[r] # None
    /\ pc[r] \in {"evict", "insert"} => call[r].op = "create"
    /\ pc[r] = "kill" => /\ call[r].op \in {"create", "revoke_by_id"}
                         /\ victim[r] \in Stored
                         /\ rows[victim[r]].user = call[r].user
    /\ pc[r] = "update" => call[r].op = "rotate" /\ victim[r] \in Stored
    /\ pc[r] = "sweep" => call[r].op = "revoke_all"

(* A row was written by a committed creation, and its hash by a committed   *)
(* creation or rotation.                                                    *)
RowInv ==
  \A s \in Stored :
    /\ pc[s] = "committed" /\ call[s].op = "create"
    /\ pc[rows[s].hash] = "committed" /\ call[rows[s].hash].op \in Writers

(* The rows a request holds, and why it may revoke them. *)
LockInv ==
  \A r \in Requests :
    /\ put[r] \subseteq Stored /\ kill[r] \subseteq Stored
    /\ put[r] # {} => pc[r] = "answered" /\ call[r].op = "rotate"
    /\ pc[r] = "answered" /\ call[r].op = "rotate" => put[r] # {}
    /\ kill[r] # {} => /\ pc[r] \in {"insert", "sweep", "answered"}
                       /\ call[r].op \notin {"rotate", "validate"}
    /\ \A s, t \in put[r] : s = t
    /\ call[r] # None /\ call[r].op # "revoke_all" => \A s, t \in kill[r] : s = t
    /\ \A s \in kill[r] : \/ rows[s].user = call[r].user
                          \/ call[r].op = "revoke" /\ rows[s].hash = call[r].arg

(* A row lock has one holder. *)
LockExclusive ==
  \A r, q \in Requests : r # q => Held(r) \cap Held(q) = {}

(* How far the UPDATE of a revoke_all has come. *)
SweepInv ==
  \A r \in Requests :
    /\ targets[r] \subseteq Stored
    /\ \A s \in targets[r] : rows[s].user = call[r].user
    /\ targets[r] # {} => pc[r] \in {"sweep", "answered", "committed"}
    /\ swept[r] \subseteq Stored
    /\ swept[r] # {} => pc[r] = "sweep"
    /\ pc[r] = "sweep" => \A s \in swept[r] : s \in kill[r] \/ rows[s].revoked
    /\ pc[r] = "answered" => \A s \in targets[r] : s \in kill[r] \/ rows[s].revoked

IInv ==
  /\ TypeOK
  /\ CallInv
  /\ RowInv
  /\ LockInv
  /\ LockExclusive
  /\ SweepInv
  /\ HashUnique
  /\ SweepComplete

------------------------------------------------------------------------------
(* Type correctness *)

(* A stored row, once the columns written by a request are merged in, is a  *)
(* row again and keeps its owner.                                           *)
LEMMA MergedRow ==
  ASSUME NEW r \in Requests, NEW s \in Requests, rows[s] \in Row
  PROVE  /\ Merged(r, s) \in Row
         /\ Merged(r, s).user = rows[s].user
         /\ Merged(r, s).hash = IF s \in put[r] THEN r ELSE rows[s].hash
         /\ Merged(r, s).revoked = (rows[s].revoked \/ s \in kill[r])
BY DEF Merged, Row

(* The row a creation inserts. *)
LEMMA CreatedRow ==
  ASSUME NEW r \in Requests, call[r] \in Calls, call[r].op = "create"
  PROVE  /\ Created(r) \in Row
         /\ Created(r).user = call[r].user
         /\ Created(r).hash = r
         /\ Created(r).revoked = FALSE
BY DEF Created, Row, Calls

(* The committed table after a commit. *)
LEMMA CommitRows ==
  ASSUME TypeOK, CallInv, LockInv, NEW r \in Requests, Commit(r)
  PROVE  /\ rows' \in [Requests -> Row \cup {None}]
         /\ \A s \in Requests :
              rows'[s] = IF s = r /\ call[r].op = "create" THEN Created(r)
                         ELSE IF s \in Held(r) THEN Merged(r, s) ELSE rows[s]
<1>1. call[r] \in Calls
  BY DEF TypeOK, CallInv, Commit
<1>2. \A s \in Held(r) : rows[s] \in Row /\ s \in Requests
  BY DEF Held, LockInv, Stored, TypeOK
<1>3. \A s \in Requests :
        (IF s = r /\ call[r].op = "create" THEN Created(r)
         ELSE IF s \in Held(r) THEN Merged(r, s) ELSE rows[s]) \in Row \cup {None}
  BY <1>1, <1>2, MergedRow, CreatedRow DEF TypeOK
<1>4. rows' = [s \in Requests |->
                 IF s = r /\ call[r].op = "create" THEN Created(r)
                 ELSE IF s \in Held(r) THEN Merged(r, s) ELSE rows[s]]
  BY DEF Commit
<1> QED BY <1>3, <1>4

(* Counts are natural numbers. *)
LEMMA CountType == \A S \in SUBSET Requests : Cardinality(S) \in Nat
BY FiniteAssumption, FS_Subset, FS_CardinalityType

(* The invariant holds at the start. *)
LEMMA InitIInv == Init => IInv
BY DEF Init, IInv, TypeOK, CallInv, RowInv, LockInv, LockExclusive, SweepInv,
       HashUnique, SweepComplete, Stored, Held

(* Every step keeps the types, ... *)
LEMMA TypeStep ==
  ASSUME IInv, [Next]_vars
  PROVE  TypeOK'
<1> USE DEF IInv
<1>1. CASE UNCHANGED vars
  BY <1>1 DEF TypeOK, vars
<1>2. ASSUME NEW r \in Requests, NEW c \in Calls, Receive(r, c)
      PROVE  TypeOK'
  BY <1>2 DEF TypeOK, Receive, Go, request, Open
<1>3. ASSUME NEW r \in Requests, CountActive(r)
      PROVE  TypeOK'
  <2>1. call[r].user \in Users
    BY <1>3 DEF TypeOK, CallInv, CountActive, Calls
  <2> QED BY <1>3, <2>1 DEF TypeOK, CountActive, Go, request, Open
<1>4. ASSUME NEW r \in Requests, FindOldest(r)
      PROVE  TypeOK'
  <2>1. ActiveOf(call[r].user) \subseteq Requests
    BY DEF ActiveOf, Active, Stored
  <2>2. victim' \in [Requests -> Requests \cup {None}]
    BY <1>4, <2>1 DEF TypeOK, FindOldest
  <2> QED BY <1>4, <2>2 DEF TypeOK, FindOldest, Go, Open
<1>5. ASSUME NEW r \in Requests, Insert(r)
      PROVE  TypeOK'
  BY <1>5, CountType DEF TypeOK, Insert, Go, Tell, Open
<1>6. ASSUME NEW r \in Requests, Validate(r)
      PROVE  TypeOK'
  BY <1>6 DEF TypeOK, Validate, Go, Tell, request, Finished
<1>7. ASSUME NEW r \in Requests, RevokeByToken(r)
      PROVE  TypeOK'
  <2>1. ByHash(call[r].arg) \in SUBSET Requests
    BY DEF ByHash, Stored
  <2> QED BY <1>7, <2>1 DEF TypeOK, RevokeByToken, Go, Tell, Open
<1>8. ASSUME NEW r \in Requests, LookupById(r)
      PROVE  TypeOK'
  <2>1. call[r].arg \in Requests
    BY <1>8 DEF TypeOK, CallInv, LookupById, Calls
  <2> QED BY <1>8, <2>1 DEF TypeOK, LookupById, Go, Tell, Open, Finished
<1>9. ASSUME NEW r \in Requests, RevokeRow(r)
      PROVE  TypeOK'
  BY <1>9 DEF TypeOK, RevokeRow, CallInv, Stored, Go, Tell, Open
<1>10. ASSUME NEW r \in Requests, MatchForRevokeAll(r)
       PROVE  TypeOK'
  BY <1>10 DEF TypeOK, MatchForRevokeAll, Stored, Go, Open
<1>11. ASSUME NEW r \in Requests, NEW s \in Requests, SweepRow(r, s)
       PROVE  TypeOK'
  BY <1>11 DEF TypeOK, SweepRow
<1>12. ASSUME NEW r \in Requests, SweepDone(r)
       PROVE  TypeOK'
  BY <1>12 DEF TypeOK, SweepDone, Go, Tell, Open
<1>13. ASSUME NEW r \in Requests, LookupForRotate(r)
       PROVE  TypeOK'
  BY <1>13 DEF TypeOK, LookupForRotate, ByHash, Stored, Go, Tell, Open, Finished
<1>14. ASSUME NEW r \in Requests, UpdateHash(r)
       PROVE  TypeOK'
  BY <1>14 DEF TypeOK, UpdateHash, CallInv, Stored, Go, Tell, Open
<1>15. ASSUME NEW r \in Requests, Commit(r)
       PROVE  TypeOK'
  <2>1. rows' \in [Requests -> Row \cup {None}]
    BY <1>15, CommitRows
  <2>2. \A u \in Users : {s \in Rescued(r) : rows[s].user = u} \in SUBSET Requests
    BY DEF Rescued, TypeOK
  <2>3. slack' \in [Users -> Nat]
    BY <1>15, <2>2, CountType DEF Commit, TypeOK
  <2> QED BY <1>15, <2>1, <2>3 DEF TypeOK, Commit, Release, Go, Finished
<1>16. ASSUME NEW r \in Requests, Rollback(r)
       PROVE  TypeOK'
  BY <1>16 DEF TypeOK, Rollback, Release, Go, Tell, Finished
<1>17. ASSUME NEW s \in Requests, Expire(s)
       PROVE  TypeOK'
  <2>1. rows[s] \in Row
    BY <1>17 DEF TypeOK, Expire, Stored
  <2>2. Lapsed(s) \in Row
    BY <2>1 DEF Row, Lapsed
  <2> QED BY <1>17, <2>2 DEF TypeOK, Expire, request
<1> QED BY <1>1, <1>2, <1>3, <1>4, <1>5, <1>6, <1>7, <1>8, <1>9, <1>10, <1>11, <1>12,
          <1>13, <1>14, <1>15, <1>16, <1>17 DEF Next, Proceed, CancelDeadlock, Abort

------------------------------------------------------------------------------
(* The rest of the inductive invariant *)

(* No step loses a row, changes its owner, or clears is_revoked; a hash     *)
(* changes only in the rows that a committing request holds for it.         *)
LEMMA RowsStep ==
  ASSUME IInv, [Next]_vars, NEW s \in Stored
  PROVE  /\ s \in Stored'
         /\ rows'[s].user = rows[s].user
         /\ rows[s].revoked => rows'[s].revoked
         /\ \/ rows'[s].hash = rows[s].hash
            \/ \E r \in Requests : /\ Commit(r) /\ s \in put[r]
                                   /\ rows'[s].hash = r
<1> USE DEF IInv
<1>1. s \in Requests /\ rows[s] \in Row /\ rows[s] # None
  BY DEF Stored, TypeOK
<1>2. ASSUME NEW r \in Requests, Commit(r)
      PROVE  /\ s \in Stored'
             /\ rows'[s].user = rows[s].user
             /\ rows[s].revoked => rows'[s].revoked
             /\ \/ rows'[s].hash = rows[s].hash
                \/ Commit(r) /\ s \in put[r] /\ rows'[s].hash = r
  <2>1. s # r
    BY <1>2 DEF RowInv, Commit
  <2>2. rows'[s] = IF s \in Held(r) THEN Merged(r, s) ELSE rows[s]
    BY <1>1, <1>2, <2>1, CommitRows
  <2>3. rows'[s] \in Row
    BY <1>1, <2>2, MergedRow
  <2>4. s \in Stored'
    BY <1>1, <2>3, NoneAssumption DEF Stored
  <2>5. CASE s \in Held(r)
    <3>1. rows'[s] = Merged(r, s) /\ r \in Requests
      BY <2>2, <2>5
    <3>2. rows[s].revoked \in BOOLEAN
      BY <1>1 DEF Row
    <3> QED BY <1>1, <1>2, <2>4, <3>1, <3>2, MergedRow
  <2>6. CASE s \notin Held(r)
    BY <2>2, <2>4, <2>6
  <2> QED BY <2>5, <2>6
<1>3. ASSUME NEW q \in Requests, Expire(q)
      PROVE  /\ s \in Stored'
             /\ rows'[s].user = rows[s].user
             /\ rows'[s].revoked = rows[s].revoked
             /\ rows'[s].hash = rows[s].hash
  <2>1. rows'[s] = IF s = q THEN Lapsed(s) ELSE rows[s]
    BY <1>1, <1>3 DEF Expire, TypeOK
  <2>2. rows'[s] \in Row
    BY <1>1, <2>1 DEF Lapsed, Row
  <2> QED BY <1>1, <2>1, <2>2, NoneAssumption DEF Stored, Lapsed
<1>4. (\E r \in Requests : Commit(r)) \/ (\E q \in Requests : Expire(q)) \/ rows' = rows
  BY DEF Next, Proceed, CancelDeadlock, Abort, vars, Receive, CountActive, FindOldest,
         Insert, Validate, RevokeByToken, LookupById, RevokeRow, MatchForRevokeAll,
         SweepRow, SweepDone, LookupForRotate, UpdateHash, Rollback
<1> QED BY <1>1, <1>2, <1>3, <1>4 DEF Stored

(* ... the calls in progress consistent, ... *)
LEMMA CallStep ==
  ASSUME IInv, [Next]_vars
  PROVE  CallInv'
<1> USE DEF IInv
<1>1. \A s \in Stored : s \in Stored' /\ rows'[s].user = rows[s].user
  BY RowsStep
<1>2. CASE UNCHANGED vars
  BY <1>2 DEF CallInv, vars, Stored
<1>3. ASSUME NEW r \in Requests, NEW c \in Calls, Receive(r, c)
      PROVE  CallInv'
  BY <1>3, NoneAssumption DEF TypeOK, CallInv, Receive, Go, request, Stored
<1>4. ASSUME NEW r \in Requests, CountActive(r)
      PROVE  CallInv'
  BY <1>4 DEF TypeOK, CallInv, CountActive, Go, request, Stored
<1>5. ASSUME NEW r \in Requests, FindOldest(r)
      PROVE  CallInv'
  <2>1. ActiveOf(call[r].user) \subseteq {s \in Stored : rows[s].user = call[r].user}
    BY DEF ActiveOf, Active
  <2>2. \/ pc' = [pc EXCEPT ![r] = "insert"] /\ victim' = victim
        \/ \E s \in Stored : /\ rows[s].user = call[r].user
                             /\ victim' = [victim EXCEPT ![r] = s]
                             /\ pc' = [pc EXCEPT ![r] = "kill"]
    BY <1>5, <2>1 DEF FindOldest, Go
  <2>3. call[r].op = "create" /\ UNCHANGED <<rows, call>>
    BY <1>5 DEF FindOldest, CallInv
  <2> QED BY <1>5, <2>2, <2>3 DEF TypeOK, CallInv, Stored, FindOldest
<1>6. ASSUME NEW r \in Requests, Insert(r)
      PROVE  CallInv'
  BY <1>6 DEF TypeOK, CallInv, Insert, Go, Stored
<1>7. ASSUME NEW r \in Requests, Validate(r)
      PROVE  CallInv'
  BY <1>7 DEF TypeOK, CallInv, Validate, Go, request, Stored
<1>8. ASSUME NEW r \in Requests, RevokeByToken(r)
      PROVE  CallInv'
  BY <1>8 DEF TypeOK, CallInv, RevokeByToken, Go, Stored
<1>9. ASSUME NEW r \in Requests, LookupById(r)
      PROVE  CallInv'
  BY <1>9 DEF TypeOK, CallInv, LookupById, OwnedBy, Go, Stored
<1>10. ASSUME NEW r \in Requests, RevokeRow(r)
       PROVE  CallInv'
  BY <1>10 DEF TypeOK, CallInv, RevokeRow, Go, Stored
<1>11. ASSUME NEW r \in Requests, MatchForRevokeAll(r)
       PROVE  CallInv'
  BY <1>11 DEF TypeOK, CallInv, MatchForRevokeAll, Go, Stored
<1>12. ASSUME NEW r \in Requests, NEW s \in Requests, SweepRow(r, s)
       PROVE  CallInv'
  BY <1>12 DEF TypeOK, CallInv, SweepRow, Stored
<1>13. ASSUME NEW r \in Requests, SweepDone(r)
       PROVE  CallInv'
  BY <1>13 DEF TypeOK, CallInv, SweepDone, Go, Stored
<1>14. ASSUME NEW r \in Requests, LookupForRotate(r)
       PROVE  CallInv'
  BY <1>14 DEF TypeOK, CallInv, LookupForRotate, ByHash, Go, Stored
<1>15. ASSUME NEW r \in Requests, UpdateHash(r)
       PROVE  CallInv'
  BY <1>15 DEF TypeOK, CallInv, UpdateHash, Go, Stored
<1>16. ASSUME NEW r \in Requests, Commit(r)
       PROVE  CallInv'
  BY <1>1, <1>16 DEF TypeOK, CallInv, Commit, Go
<1>17. ASSUME NEW r \in Requests, Rollback(r)
       PROVE  CallInv'
  BY <1>17 DEF TypeOK, CallInv, Rollback, Go, Stored, Open
<1>18. ASSUME NEW s \in Requests, Expire(s)
       PROVE  CallInv'
  BY <1>1, <1>18 DEF TypeOK, CallInv, Expire, request
<1> QED BY <1>2, <1>3, <1>4, <1>5, <1>6, <1>7, <1>8, <1>9, <1>10, <1>11, <1>12, <1>13,
          <1>14, <1>15, <1>16, <1>17, <1>18 DEF Next, Proceed, CancelDeadlock, Abort

(* A committed request stays as it is. *)
LEMMA CommittedStays ==
  ASSUME IInv, [Next]_vars, NEW q \in Requests, pc[q] = "committed"
  PROVE  pc'[q] = "committed" /\ call'[q] = call[q]
<1> USE DEF IInv, TypeOK, Go
<1>1. CASE UNCHANGED vars
  BY <1>1 DEF vars
<1>2. ASSUME NEW r \in Requests, NEW c \in Calls, Receive(r, c)
      PROVE  pc'[q] = "committed" /\ call'[q] = call[q]
  BY <1>2 DEF Receive
<1>3. ASSUME NEW r \in Requests,
             \/ CountActive(r) \/ FindOldest(r) \/ Insert(r)
             \/ Validate(r) \/ RevokeByToken(r) \/ LookupById(r) \/ RevokeRow(r)
      PROVE  pc'[q] = "committed" /\ call'[q] = call[q]
  BY <1>3 DEF CountActive, FindOldest, Insert, Validate, RevokeByToken, LookupById, RevokeRow
<1>4. ASSUME NEW r \in Requests,
             \/ MatchForRevokeAll(r) \/ SweepDone(r)
             \/ \E s \in Requests : SweepRow(r, s)
             \/ LookupForRotate(r) \/ UpdateHash(r)
             \/ Commit(r) \/ Rollback(r)
      PROVE  pc'[q] = "committed" /\ call'[q] = call[q]
  BY <1>4 DEF MatchForRevokeAll, SweepDone, SweepRow, LookupForRotate, UpdateHash, Commit,
              Rollback, Open
<1>5. ASSUME NEW s \in Requests, Expire(s)
      PROVE  pc'[q] = "committed" /\ call'[q] = call[q]
  BY <1>5 DEF Expire
<1> QED BY <1>1, <1>2, <1>3, <1>4, <1>5 DEF Next, Proceed, CancelDeadlock, Abort

(* A row appears only when the creation it is named after commits. *)
LEMMA NewRow ==
  ASSUME IInv, [Next]_vars, NEW s \in Stored', s \notin Stored
  PROVE  /\ Commit(s) /\ call[s].op = "create"
         /\ rows'[s] = Created(s) /\ Created(s).user = call[s].user
         /\ Created(s).hash = s /\ Created(s).revoked = FALSE
<1> USE DEF IInv
<1>1. s \in Requests /\ rows[s] = None /\ rows'[s] # None
  BY DEF Stored
<1>2. ASSUME NEW r \in Requests, Commit(r)
      PROVE  s = r /\ call[r].op = "create" /\ rows'[s] = Created(r)
  <2>1. s \notin Held(r)
    BY DEF LockInv, Held
  <2> QED BY <1>1, <1>2, <2>1, CommitRows
<1>3. \E r \in Requests : Commit(r)
  <2>1. ASSUME NEW q \in Requests, Expire(q)
        PROVE  FALSE
    BY <1>1, <2>1 DEF Expire, Stored, TypeOK
  <2>2. (\E r \in Requests : Commit(r)) \/ (\E q \in Requests : Expire(q)) \/ rows' = rows
    BY DEF Next, Proceed, CancelDeadlock, Abort, vars, Receive, CountActive, FindOldest,
           Insert, Validate, RevokeByToken, LookupById, RevokeRow, MatchForRevokeAll,
           SweepRow, SweepDone, LookupForRotate, UpdateHash, Rollback
  <2> QED BY <1>1, <2>1, <2>2
<1>4. call[s] \in Calls
  BY <1>1, <1>2, <1>3 DEF CallInv, TypeOK, Commit
<1> QED BY <1>1, <1>2, <1>3, <1>4, CreatedRow

(* ... the rows consistent with who wrote them, ... *)
LEMMA RowStep ==
  ASSUME IInv, [Next]_vars
  PROVE  RowInv'
<1> USE DEF IInv
<1>1. SUFFICES ASSUME NEW s \in Stored'
               PROVE  /\ pc'[s] = "committed" /\ call'[s].op = "create"
                      /\ pc'[rows'[s].hash] = "committed"
                      /\ call'[rows'[s].hash].op \in Writers
  BY DEF RowInv
<1>2. \A r \in Requests : Commit(r) => pc'[r] = "committed" /\ call'[r] = call[r]
  BY DEF Commit, Go, TypeOK
<1>3. CASE s \in Stored
  <2>1. /\ pc[s] = "committed" /\ call[s].op = "create"
        /\ pc[rows[s].hash] = "committed" /\ call[rows[s].hash].op \in Writers
        /\ s \in Requests /\ rows[s].hash \in Requests
    BY <1>3 DEF RowInv, Stored, TypeOK, Row
  <2>2. CASE rows'[s].hash = rows[s].hash
    BY <2>1, <2>2, CommittedStays
  <2>3. ASSUME NEW r \in Requests, Commit(r), s \in put[r], rows'[s].hash = r
        PROVE  pc'[rows'[s].hash] = "committed" /\ call'[rows'[s].hash].op \in Writers
    BY <1>2, <2>3 DEF LockInv, Writers
  <2> QED BY <1>3, <2>1, <2>2, <2>3, RowsStep, CommittedStays
<1>4. CASE s \notin Stored
  <2>1. s \in Requests
    BY DEF Stored
  <2>2. /\ Commit(s) /\ call[s].op = "create"
        /\ rows'[s] = Created(s) /\ Created(s).hash = s
    BY <1>4, NewRow
  <2> QED BY <1>2, <2>1, <2>2 DEF Writers
<1> QED BY <1>3, <1>4

(* ... no hash in two rows, ... *)
LEMMA HashStep ==
  ASSUME IInv, [Next]_vars
  PROVE  HashUnique'
<1> USE DEF IInv
<1>1. SUFFICES ASSUME NEW s \in Stored', NEW t \in Stored', rows'[s].hash = rows'[t].hash
               PROVE  s = t
  BY DEF HashUnique
<1>2. \A q \in Stored : pc[rows[q].hash] = "committed"
  BY DEF RowInv
<1>3. \A r \in Requests : Commit(r) => pc[r] = "answered"
  BY DEF Commit
<1>4. s \in Requests /\ t \in Requests
  BY DEF Stored
<1>5. CASE s \in Stored /\ t \in Stored
  <2>1. CASE rows'[s].hash = rows[s].hash /\ rows'[t].hash = rows[t].hash
    BY <1>1, <1>5, <2>1 DEF HashUnique
  <2>2. CASE rows'[s].hash # rows[s].hash
    <3>1. PICK r \in Requests : Commit(r) /\ s \in put[r] /\ rows'[s].hash = r
      BY <1>5, <2>2, RowsStep
    <3>2. rows'[t].hash # rows[t].hash
      BY <1>1, <1>2, <1>3, <1>5, <3>1
    <3>3. t \in put[r]
      BY <1>1, <1>5, <3>1, <3>2, RowsStep
    <3> QED BY <3>1, <3>3 DEF LockInv
  <2>3. CASE rows'[t].hash # rows[t].hash
    <3>1. PICK r \in Requests : Commit(r) /\ t \in put[r] /\ rows'[t].hash = r
      BY <1>5, <2>3, RowsStep
    <3>2. rows'[s].hash # rows[s].hash
      BY <1>1, <1>2, <1>3, <1>5, <3>1
    <3>3. s \in put[r]
      BY <1>1, <1>5, <3>1, <3>2, RowsStep
    <3> QED BY <3>1, <3>3 DEF LockInv
  <2> QED BY <2>1, <2>2, <2>3
<1>6. ASSUME NEW a \in Stored', NEW b \in Stored', a \in Stored, b \notin Stored,
             rows'[a].hash = rows'[b].hash
      PROVE  FALSE
  <2>1. Commit(b) /\ call[b].op = "create" /\ rows'[b].hash = b /\ b \in Requests
    BY <1>6, NewRow DEF Stored
  <2>2. rows'[a].hash # rows[a].hash
    BY <1>2, <1>3, <1>6, <2>1
  <2>3. PICK r \in Requests : Commit(r) /\ a \in put[r] /\ rows'[a].hash = r
    BY <1>6, <2>2, RowsStep
  <2>4. r = b
    BY <1>6, <2>1, <2>3
  <2> QED BY <2>1, <2>3, <2>4 DEF LockInv
<1>7. CASE s \notin Stored /\ t \notin Stored
  <2>1. rows'[s].hash = s
    BY <1>7, NewRow
  <2>2. rows'[t].hash = t
    BY <1>7, NewRow
  <2> QED BY <1>1, <2>1, <2>2
<1> QED BY <1>1, <1>5, <1>6, <1>7

(* Only these steps change which rows a request holds. *)
LEMMA LocksStep ==
  ASSUME IInv, [Next]_vars
  PROVE  \/ UNCHANGED <<kill, put>>
         \/ \E r \in Requests :
              \/ RevokeByToken(r) \/ RevokeRow(r) \/ UpdateHash(r)
              \/ \E s \in Requests : SweepRow(r, s)
              \/ Release(r) /\ pc'[r] \in Finished /\ (Commit(r) \/ Rollback(r))
<1> USE DEF IInv
<1>1. \A r \in Requests :
        Commit(r) \/ Rollback(r) => Release(r) /\ pc'[r] \in Finished
  BY DEF Commit, Rollback, Go, TypeOK, Finished
<1>2. \A r \in Requests, c \in Calls : Receive(r, c) => UNCHANGED <<kill, put>>
  BY DEF Receive, request
<1>3. \A r \in Requests :
        CountActive(r) \/ FindOldest(r) \/ Insert(r) \/ Validate(r) \/ LookupById(r)
          \/ MatchForRevokeAll(r) \/ SweepDone(r) \/ LookupForRotate(r)
        => UNCHANGED <<kill, put>>
  BY DEF CountActive, FindOldest, Insert, Validate, LookupById, MatchForRevokeAll,
         SweepDone, LookupForRotate, request
<1>4. \A s \in Requests : Expire(s) => UNCHANGED <<kill, put>>
  BY DEF Expire, request
<1> QED BY <1>1, <1>2, <1>3, <1>4 DEF Next, Proceed, CancelDeadlock, Abort, vars

(* ... one writer of a row at a time, ... *)
LEMMA ExclusiveStep ==
  ASSUME IInv, [Next]_vars
  PROVE  LockExclusive'
<1> USE DEF IInv, TypeOK
<1>1. CASE UNCHANGED <<kill, put>>
  BY <1>1 DEF LockExclusive, Held
<1>2. ASSUME NEW r \in Requests, RevokeByToken(r)
      PROVE  LockExclusive'
  BY <1>2 DEF RevokeByToken, LockExclusive, Held, Free
<1>3. ASSUME NEW r \in Requests, RevokeRow(r)
      PROVE  LockExclusive'
  BY <1>3 DEF RevokeRow, LockExclusive, Held, Free
<1>4. ASSUME NEW r \in Requests, UpdateHash(r)
      PROVE  LockExclusive'
  BY <1>4 DEF UpdateHash, LockExclusive, Held, Free
<1>5. ASSUME NEW r \in Requests, NEW s \in Requests, SweepRow(r, s)
      PROVE  LockExclusive'
  BY <1>5 DEF SweepRow, LockExclusive, Held, Free
<1>6. ASSUME NEW r \in Requests, Release(r)
      PROVE  LockExclusive'
  BY <1>6 DEF Release, LockExclusive, Held
<1> QED BY <1>1, <1>2, <1>3, <1>4, <1>5, <1>6, LocksStep

(* While a request holds a row, nobody else writes its hash. *)
LEMMA HeldHash ==
  ASSUME IInv, [Next]_vars, NEW q \in Requests, NEW s \in kill[q],
         ~Commit(q)
  PROVE  rows'[s].hash = rows[s].hash
<1> USE DEF IInv
<1>1. s \in Stored
  BY DEF LockInv
<1>2. ASSUME NEW r \in Requests, Commit(r), s \in put[r]
      PROVE  FALSE
  <2>1. r # q
    BY <1>2
  <2> QED BY <1>2, <2>1 DEF LockExclusive, Held
<1> QED BY <1>1, <1>2, RowsStep

(* ... locks with those who hold them, ... *)
LEMMA LockStep ==
  ASSUME IInv, [Next]_vars
  PROVE  LockInv'
<1> USE DEF IInv
<1> DEFINE LI(r) ==
    /\ put[r] \subseteq Stored /\ kill[r] \subseteq Stored
    /\ put[r] # {} => pc[r] = "answered" /\ call[r].op = "rotate"
    /\ pc[r] = "answered" /\ call[r].op = "rotate" => put[r] # {}
    /\ kill[r] # {} => /\ pc[r] \in {"insert", "sweep", "answered"}
                       /\ call[r].op \notin {"rotate", "validate"}
    /\ \A s, t \in put[r] : s = t
    /\ call[r] # None /\ call[r].op # "revoke_all" => \A s, t \in kill[r] : s = t
    /\ \A s \in kill[r] : \/ rows[s].user = call[r].user
                          \/ call[r].op = "revoke" /\ rows[s].hash = call[r].arg
<1>1. \A q \in Requests : LI(q)
  BY DEF LockInv
<1>2. SUFFICES ASSUME NEW q \in Requests
               PROVE  LI(q)'
  BY DEF LockInv
<1>3. \A s \in Stored : s \in Stored' /\ rows'[s].user = rows[s].user
  BY RowsStep
<1>4. \A s \in kill[q] : Commit(q) \/ rows'[s].hash = rows[s].hash
  BY HeldHash
<1>5. CASE UNCHANGED <<pc[q], call[q], kill[q], put[q]>>
  <2>1. ~Commit(q)
    BY <1>5 DEF Commit, Go, TypeOK
  <2> QED BY <1>1, <1>3, <1>4, <1>5, <2>1
<1>6. CASE kill'[q] = {} /\ put'[q] = {} /\ pc'[q] # "answered"
  BY <1>6
<1> HIDE DEF LI
<1>7. ASSUME NEW r \in Requests, NEW c \in Calls, Receive(r, c)
      PROVE  LI(q)'
  <2>1. CASE r = q
    <3>1. kill[q] = {} /\ put[q] = {} /\ pc'[q] = "begin"
      BY <1>1, <1>7, <2>1 DEF LI, Receive, Go, TypeOK
    <3> QED BY <1>6, <1>7, <3>1 DEF Receive, request
  <2>2. CASE r # q
    BY <1>5, <1>7, <2>2 DEF Receive, Go, request, TypeOK
  <2> QED BY <2>1, <2>2
<1>8. ASSUME NEW r \in Requests,
             \/ CountActive(r) \/ FindOldest(r) \/ Validate(r) \/ LookupById(r)
             \/ MatchForRevokeAll(r) \/ LookupForRotate(r)
      PROVE  LI(q)'
  <2>1. UNCHANGED <<kill, put, call>> /\ (r # q => pc'[q] = pc[q])
    BY <1>8 DEF CountActive, FindOldest, Validate, LookupById, MatchForRevokeAll,
                LookupForRotate, request, Go, TypeOK
  <2>2. pc[r] \in {"begin", "evict"} /\ pc'[r] # "answered"
    BY <1>8 DEF CountActive, FindOldest, Validate, LookupById, MatchForRevokeAll,
                LookupForRotate, Go, TypeOK
  <2>3. CASE r = q
    <3>1. kill[q] = {} /\ put[q] = {}
      BY <1>1, <2>2, <2>3 DEF LI
    <3> QED BY <1>6, <2>1, <2>2, <2>3, <3>1
  <2>4. CASE r # q
    BY <1>5, <2>1, <2>4
  <2> QED BY <2>3, <2>4
<1>9. ASSUME NEW r \in Requests, Insert(r) \/ SweepDone(r)
      PROVE  LI(q)'
  <2>1. UNCHANGED <<kill, put, call, rows>> /\ (r # q => pc'[q] = pc[q])
    BY <1>9 DEF Insert, SweepDone, Go, TypeOK
  <2>2. pc[r] \in {"insert", "sweep"} /\ pc'[r] = "answered"
    BY <1>9 DEF Insert, SweepDone, Go, TypeOK
  <2>3. Stored' = Stored
    BY <2>1 DEF Stored
  <2>4. call[r].op # "rotate"
    BY <1>9 DEF Insert, SweepDone, CallInv
  <2> QED BY <1>1, <2>1, <2>2, <2>3, <2>4 DEF LI
<1>10. ASSUME NEW r \in Requests, RevokeByToken(r)
       PROVE  LI(q)'
  <2>1. CASE r # q
    BY <1>5, <1>10, <2>1 DEF RevokeByToken, Go, TypeOK
  <2>2. CASE r = q
    <3>1. put[q] = {}
      BY <1>1, <1>10, <2>2 DEF LI, RevokeByToken
    <3>2. /\ UNCHANGED <<rows, call, put>> /\ Stored' = Stored
          /\ kill'[q] = ByHash(call[q].arg) /\ pc'[q] = "answered" /\ call[q].op = "revoke"
      BY <1>10, <2>2 DEF RevokeByToken, Go, TypeOK, Stored
    <3>3. \A s, t \in ByHash(call[q].arg) :
             s \in Stored /\ rows[s].hash = call[q].arg /\ s = t
      BY DEF ByHash, HashUnique
    <3> QED BY <3>1, <3>2, <3>3 DEF LI
  <2> QED BY <2>1, <2>2
<1>11. ASSUME NEW r \in Requests, RevokeRow(r)
       PROVE  LI(q)'
  <2>1. CASE r # q
    BY <1>5, <1>11, <2>1 DEF RevokeRow, Go, TypeOK
  <2>2. CASE r = q
    <3>1. put[q] = {} /\ Stored' = Stored
      BY <1>1, <1>11, <2>2 DEF LI, RevokeRow, Stored
    <3>2. /\ UNCHANGED <<rows, call, put>> /\ kill'[q] = {victim[q]}
          /\ pc'[q] \in {"insert", "answered"}
      BY <1>11, <2>2 DEF RevokeRow, Go, TypeOK
    <3>3. /\ victim[q] \in Stored /\ rows[victim[q]].user = call[q].user
          /\ call[q].op \in {"create", "revoke_by_id"}
      BY <1>11, <2>2 DEF CallInv, RevokeRow
    <3> QED BY <3>1, <3>2, <3>3 DEF LI
  <2> QED BY <2>1, <2>2
<1>12. ASSUME NEW r \in Requests, NEW s \in Requests, SweepRow(r, s)
       PROVE  LI(q)'
  <2>1. CASE r # q
    BY <1>5, <1>12, <2>1 DEF SweepRow, TypeOK
  <2>2. CASE r = q
    <3>1. put[q] = {} /\ Stored' = Stored
      BY <1>1, <1>12, <2>2 DEF LI, SweepRow, Stored
    <3>2. /\ UNCHANGED <<rows, call, put, pc>> /\ kill'[q] \subseteq kill[q] \cup {s}
          /\ pc[q] = "sweep" /\ call[q].op = "revoke_all"
      BY <1>12, <2>2 DEF SweepRow, TypeOK, CallInv
    <3>3. s \in Stored /\ rows[s].user = call[q].user
      BY <1>12, <2>2 DEF SweepInv, SweepRow
    <3> QED BY <1>1, <3>1, <3>2, <3>3 DEF LI
  <2> QED BY <2>1, <2>2
<1>13. ASSUME NEW r \in Requests, UpdateHash(r)
       PROVE  LI(q)'
  <2>1. CASE r # q
    BY <1>5, <1>13, <2>1 DEF UpdateHash, Go, TypeOK
  <2>2. CASE r = q
    <3>1. kill[q] = {} /\ Stored' = Stored
      BY <1>1, <1>13, <2>2 DEF LI, UpdateHash, Stored
    <3>2. /\ UNCHANGED <<rows, call, kill>> /\ put'[q] = {victim[q]} /\ pc'[q] = "answered"
          /\ victim[q] \in Stored /\ call[q].op = "rotate"
      BY <1>13, <2>2 DEF UpdateHash, Go, TypeOK, CallInv
    <3> QED BY <3>1, <3>2 DEF LI
  <2> QED BY <2>1, <2>2
<1>14. ASSUME NEW r \in Requests, Commit(r) \/ Rollback(r)
       PROVE  LI(q)'
  <2>1. CASE r # q
    BY <1>5, <1>14, <2>1 DEF Commit, Rollback, Release, Go, TypeOK
  <2>2. CASE r = q
    BY <1>6, <1>14, <2>2 DEF Commit, Rollback, Release, Go, TypeOK
  <2> QED BY <2>1, <2>2
<1>15. ASSUME NEW s \in Requests, Expire(s)
       PROVE  LI(q)'
  BY <1>5, <1>15 DEF Expire, request
<1>16. CASE UNCHANGED vars
  BY <1>5, <1>16 DEF vars
<1> QED BY <1>7, <1>8, <1>9, <1>10, <1>11, <1>12, <1>13, <1>14, <1>15, <1>16
        DEF Next, Proceed, CancelDeadlock, Abort

(* ... what a sweep has read, ... *)
LEMMA SweepStep ==
  ASSUME IInv, [Next]_vars
  PROVE  SweepInv' /\ SweepComplete'
<1> USE DEF IInv
<1> DEFINE SI(r) ==
    /\ targets[r] \subseteq Stored
    /\ \A s \in targets[r] : rows[s].user = call[r].user
    /\ targets[r] # {} => pc[r] \in {"sweep", "answered", "committed"}
    /\ swept[r] \subseteq Stored
    /\ swept[r] # {} => pc[r] = "sweep"
    /\ pc[r] = "sweep" => \A s \in swept[r] : s \in kill[r] \/ rows[s].revoked
    /\ pc[r] = "answered" => \A s \in targets[r] : s \in kill[r] \/ rows[s].revoked
    /\ pc[r] = "committed" => \A s \in targets[r] : rows[s].revoked
<1>1. \A q \in Requests : SI(q)
  BY DEF SweepInv, SweepComplete
<1>2. SUFFICES ASSUME NEW q \in Requests
               PROVE  SI(q)'
  BY DEF SweepInv, SweepComplete
<1>3. \A s \in Stored : /\ s \in Stored' /\ rows'[s].user = rows[s].user
                        /\ rows[s].revoked => rows'[s].revoked
  BY RowsStep
<1>5. CASE UNCHANGED <<pc[q], call[q], kill[q], targets[q], swept[q]>>
  <2>1. swept[q] \subseteq Stored
    BY <1>1 DEF SweepInv
  <2> QED BY <1>1, <1>3, <1>5, <2>1
<1>6. CASE targets'[q] = {} /\ swept'[q] = {}
  BY <1>6
<1> HIDE DEF SI
<1>7. ASSUME NEW r \in Requests, NEW c \in Calls, Receive(r, c)
      PROVE  SI(q)'
  <2>1. CASE r = q
    <3>1. targets[q] = {} /\ swept[q] = {}
      BY <1>1, <1>7, <2>1 DEF SI, Receive
    <3> QED BY <1>6, <1>7, <3>1 DEF Receive, request
  <2>2. CASE r # q
    BY <1>5, <1>7, <2>2 DEF Receive, Go, request, TypeOK
  <2> QED BY <2>1, <2>2
<1>8. ASSUME NEW r \in Requests,
             \/ CountActive(r) \/ FindOldest(r) \/ Validate(r) \/ LookupById(r)
             \/ LookupForRotate(r) \/ Insert(r) \/ RevokeByToken(r) \/ RevokeRow(r)
             \/ UpdateHash(r)
      PROVE  SI(q)'
  <2>1. /\ UNCHANGED <<targets, swept, call>>
        /\ r # q => pc'[q] = pc[q] /\ kill'[q] = kill[q]
    BY <1>8 DEF CountActive, FindOldest, Validate, LookupById, LookupForRotate, Insert,
                RevokeByToken, RevokeRow, UpdateHash, request, Go, TypeOK
  <2>2. pc[r] \in {"begin", "evict", "insert", "kill", "update"}
    BY <1>8 DEF CountActive, FindOldest, Validate, LookupById, LookupForRotate, Insert,
                RevokeByToken, RevokeRow, UpdateHash
  <2>3. CASE r = q
    <3>1. targets[q] = {} /\ swept[q] = {}
      BY <1>1, <2>2, <2>3 DEF SI
    <3> QED BY <1>6, <2>1, <3>1
  <2>4. CASE r # q
    BY <1>5, <2>1, <2>4
  <2> QED BY <2>3, <2>4
<1>9. ASSUME NEW r \in Requests, MatchForRevokeAll(r)
      PROVE  SI(q)'
  <2>1. CASE r # q
    BY <1>5, <1>9, <2>1 DEF MatchForRevokeAll, Go, TypeOK
  <2>2. CASE r = q
    <3>1. swept[q] = {}
      BY <1>1, <1>9, <2>2 DEF SI, MatchForRevokeAll
    <3>2. /\ UNCHANGED <<rows, call, swept>> /\ pc'[q] = "sweep" /\ Stored' = Stored
          /\ targets'[q] = {s \in Stored : rows[s].user = call[q].user /\ ~rows[s].revoked}
      BY <1>9, <2>2 DEF MatchForRevokeAll, Go, TypeOK, Stored
    <3> QED BY <3>1, <3>2 DEF SI
  <2> QED BY <2>1, <2>2
<1>10. ASSUME NEW r \in Requests, NEW s \in Requests, SweepRow(r, s)
       PROVE  SI(q)'
  <2>1. CASE r # q
    BY <1>5, <1>10, <2>1 DEF SweepRow, TypeOK
  <2>2. CASE r = q
    <3>1. /\ UNCHANGED <<rows, call, pc, targets>> /\ Stored' = Stored /\ pc[q] = "sweep"
          /\ swept'[q] = swept[q] \cup {s} /\ s \in targets[q]
          /\ kill'[q] = IF rows[s].revoked THEN kill[q] ELSE kill[q] \cup {s}
      BY <1>10, <2>2 DEF SweepRow, TypeOK, Stored
    <3> QED BY <1>1, <3>1 DEF SI
  <2> QED BY <2>1, <2>2
<1>11. ASSUME NEW r \in Requests, SweepDone(r)
       PROVE  SI(q)'
  <2>1. CASE r # q
    BY <1>5, <1>11, <2>1 DEF SweepDone, Go, TypeOK
  <2>2. CASE r = q
    <3>1. /\ UNCHANGED <<rows, call, targets, kill>> /\ Stored' = Stored /\ pc[q] = "sweep"
          /\ targets[q] \subseteq swept[q] /\ swept'[q] = {} /\ pc'[q] = "answered"
      BY <1>11, <2>2 DEF SweepDone, Go, TypeOK, Stored
    <3> QED BY <1>1, <3>1 DEF SI
  <2> QED BY <2>1, <2>2
<1>12. ASSUME NEW r \in Requests, Commit(r)
       PROVE  SI(q)'
  <2>1. CASE r # q
    BY <1>5, <1>12, <2>1 DEF Commit, Release, Go, TypeOK
  <2>2. CASE r = q
    <3>1. /\ UNCHANGED <<call, targets, swept>> /\ pc[q] = "answered"
          /\ pc'[q] = "committed"
      BY <1>12, <2>2 DEF Commit, Go, TypeOK
    <3>2. ASSUME NEW s \in targets[q]
          PROVE  rows'[s].revoked
      <4>1. s \in Stored /\ s # q /\ s \in Requests /\ rows[s] \in Row
        BY <1>1, <3>1 DEF SI, RowInv, Stored, TypeOK
      <4>2. CASE rows[s].revoked
        BY <1>3, <4>1, <4>2
      <4>3. CASE s \in kill[q]
        <5>1. rows'[s] = Merged(q, s)
          BY <1>12, <2>2, <4>1, <4>3, CommitRows DEF Held
        <5> QED BY <4>1, <4>3, <5>1, MergedRow
      <4> QED BY <1>1, <3>1, <4>2, <4>3 DEF SI
    <3> QED BY <1>1, <1>3, <3>1, <3>2 DEF SI
  <2> QED BY <2>1, <2>2
<1>13. ASSUME NEW r \in Requests, Rollback(r)
       PROVE  SI(q)'
  <2>1. CASE r # q
    BY <1>5, <1>13, <2>1 DEF Rollback, Release, Go, TypeOK
  <2>2. CASE r = q
    BY <1>6, <1>13, <2>2 DEF Rollback, TypeOK
  <2> QED BY <2>1, <2>2
<1>14. ASSUME NEW s \in Requests, Expire(s)
       PROVE  SI(q)'
  BY <1>5, <1>14 DEF Expire, request
<1>15. CASE UNCHANGED vars
  BY <1>5, <1>15 DEF vars
<1> QED BY <1>7, <1>8, <1>9, <1>10, <1>11, <1>12, <1>13, <1>14, <1>15
        DEF Next, Proceed, CancelDeadlock, Abort

(* Everything the sections above established is inductive. *)
LEMMA IInvStep == IInv /\ [Next]_vars => IInv'
BY TypeStep, CallStep, RowStep, LockStep, ExclusiveStep, SweepStep, HashStep DEF IInv

(* The inductive invariant holds in every reachable state. *)
THEOREM Inductive == Spec => []IInv
<1>1. Init => IInv
  BY InitIInv
<1>2. IInv /\ [Next]_vars => IInv'
  BY IInvStep
<1> QED BY <1>1, <1>2, PTL DEF Spec

(* The variables keep their types. *)
THEOREM TypeCorrect == Spec => []TypeOK
<1>1. IInv => TypeOK
  BY DEF IInv
<1> QED BY Inductive, <1>1, PTL

(* No two rows ever share a refresh token hash, so the unique index never   *)
(* rejects a creation or a rotation.                                        *)
THEOREM HashesUnique == Spec => []HashUnique
<1>1. IInv => HashUnique
  BY DEF IInv
<1> QED BY Inductive, <1>1, PTL

(* A committed revoke-all leaves none of the sessions it matched active. *)
THEOREM SweepsComplete == Spec => []SweepComplete
<1>1. IInv => SweepComplete
  BY DEF IInv
<1> QED BY Inductive, <1>1, PTL

------------------------------------------------------------------------------
(* Why a session ends *)

(* A row is revoked by the commit of a request that may revoke it. *)
LEMMA EndedStep ==
  ASSUME IInv, [Next]_vars, NEW s \in Stored, ~rows[s].revoked, rows'[s].revoked
  PROVE  \E r \in Requests :
           /\ Commit(r) /\ s \in kill[r]
           /\ pc[r] = "answered" /\ pc'[r] = "committed"
           /\ \/ call[r].user = rows[s].user
              \/ call[r].op = "revoke" /\ call[r].arg = rows[s].hash
<1> USE DEF IInv
<1>1. s \in Requests /\ rows[s] \in Row
  BY DEF Stored, TypeOK
<1>2. ASSUME NEW q \in Requests, Expire(q)
      PROVE  FALSE
  BY <1>1, <1>2 DEF Expire, TypeOK, Lapsed
<1>3. (\E r \in Requests : Commit(r)) \/ (\E q \in Requests : Expire(q)) \/ rows' = rows
  BY DEF Next, Proceed, CancelDeadlock, Abort, vars, Receive, CountActive, FindOldest,
         Insert, Validate, RevokeByToken, LookupById, RevokeRow, MatchForRevokeAll,
         SweepRow, SweepDone, LookupForRotate, UpdateHash, Rollback
<1>4. PICK r \in Requests : Commit(r)
  BY <1>2, <1>3
<1>5. s # r
  BY <1>4 DEF RowInv, Commit
<1>6. s \in kill[r]
  BY <1>1, <1>4, <1>5, CommitRows, MergedRow
<1>7. pc[r] = "answered" /\ pc'[r] = "committed"
  BY <1>4 DEF Commit, Go, TypeOK
<1> QED BY <1>4, <1>6, <1>7 DEF LockInv

(* A session is revoked only on behalf of its owner, or of somebody who     *)
(* presents its current refresh token: while revoke_session waits for the   *)
(* row lock no rotation can put another token in its place.                 *)
THEOREM EndedOnlyByOwner == Spec => EndedByOwner
<1>1. IInv /\ [Next]_vars =>
        [\A s \in Stored : ~rows[s].revoked /\ rows'[s].revoked =>
           \E r \in Requests :
             /\ pc[r] = "answered" /\ pc'[r] = "committed"
             /\ \/ call[r].user = rows[s].user
                \/ call[r].op = "revoke" /\ call[r].arg = rows[s].hash]_vars
  BY EndedStep
<1> QED BY <1>1, Inductive, PTL DEF Spec, EndedByOwner

------------------------------------------------------------------------------
(* Single use, once a rotation has committed *)

(* The token a rotation was given had been written by a committed request,  *)
(* so nothing can write it again.  From the check on only the session that  *)
(* was found can answer to it, and after the commit no session does.        *)
SpentInv ==
  \A q \in Requests :
    /\ pc[q] \in {"update", "answered", "committed"} /\ call[q].op = "rotate" =>
         pc[call[q].arg] = "committed"
    /\ pc[q] = "update" => ByHash(call[q].arg) \subseteq {victim[q]}
    /\ pc[q] = "answered" /\ call[q].op = "rotate" => ByHash(call[q].arg) \subseteq put[q]
    /\ pc[q] = "committed" /\ call[q].op = "rotate" => ByHash(call[q].arg) = {}

(* No row comes to answer to a token whose writer has committed. *)
LEMMA HashGone ==
  ASSUME IInv, [Next]_vars, NEW t \in Requests, pc[t] = "committed"
  PROVE  ByHash(t)' \subseteq ByHash(t)
<1> USE DEF IInv
<1>1. SUFFICES ASSUME NEW s \in Stored', rows'[s].hash = t
               PROVE  s \in Stored /\ rows[s].hash = t
  BY DEF ByHash
<1>2. \A r \in Requests : Commit(r) => r # t
  BY DEF Commit
<1>3. s \in Requests
  BY DEF Stored
<1>4. s \in Stored
  <2>1. ASSUME s \notin Stored
        PROVE  FALSE
    <3>1. Commit(s) /\ rows'[s] = Created(s) /\ Created(s).hash = s
      BY <2>1, NewRow
    <3> QED BY <1>1, <1>2, <1>3, <3>1
  <2> QED BY <2>1
<1> QED BY <1>1, <1>2, <1>4, RowsStep

(* What a step does to a request: nothing, or one of the three steps of a   *)
(* rotation, or a step of another endpoint, or its end.                     *)
LEMMA RotateStep ==
  ASSUME IInv, [Next]_vars, NEW q \in Requests
  PROVE  \/ pc'[q] = pc[q] /\ call'[q] = call[q] /\ victim'[q] = victim[q] /\ put'[q] = put[q]
         \/ LookupForRotate(q) \/ UpdateHash(q) \/ Commit(q)
         \/ pc'[q] \notin {"update", "answered", "committed"}
         \/ pc'[q] = "answered" /\ call'[q].op # "rotate"
<1> DEFINE Goal ==
         \/ pc'[q] = pc[q] /\ call'[q] = call[q] /\ victim'[q] = victim[q] /\ put'[q] = put[q]
         \/ LookupForRotate(q) \/ UpdateHash(q) \/ Commit(q)
         \/ pc'[q] \notin {"update", "answered", "committed"}
         \/ pc'[q] = "answered" /\ call'[q].op # "rotate"
<1> USE DEF IInv
<1>1. ASSUME UNCHANGED vars
      PROVE  Goal
  BY <1>1 DEF vars
<1>2. ASSUME NEW r \in Requests, NEW c \in Calls, Receive(r, c)
      PROVE  Goal
  BY <1>2 DEF Receive, Go, TypeOK, request
<1>3. ASSUME NEW r \in Requests,
             CountActive(r) \/ FindOldest(r) \/ Validate(r) \/ LookupById(r)
      PROVE  Goal
  BY <1>3 DEF CountActive, FindOldest, Validate, LookupById, Go, TypeOK, request
<1>4. ASSUME NEW r \in Requests, Insert(r) \/ RevokeByToken(r) \/ RevokeRow(r)
      PROVE  Goal
  BY <1>4 DEF Insert, RevokeByToken, RevokeRow, Go, TypeOK, CallInv
<1>5. ASSUME NEW r \in Requests,
             MatchForRevokeAll(r) \/ SweepDone(r) \/ \E s \in Requests : SweepRow(r, s)
      PROVE  Goal
  BY <1>5 DEF MatchForRevokeAll, SweepDone, SweepRow, Go, TypeOK, CallInv
<1>6. ASSUME NEW r \in Requests, LookupForRotate(r) \/ UpdateHash(r)
      PROVE  Goal
  BY <1>6 DEF LookupForRotate, UpdateHash, Go, TypeOK
<1>7. ASSUME NEW r \in Requests, Commit(r)
      PROVE  Goal
  BY <1>7 DEF Commit, Release, Go, TypeOK
<1>8. ASSUME NEW r \in Requests, Rollback(r)
      PROVE  Goal
  BY <1>8 DEF Rollback, Release, Go, TypeOK
<1>9. ASSUME NEW s \in Requests, Expire(s)
      PROVE  Goal
  BY <1>9 DEF Expire, request
<1> HIDE DEF Goal
<1>10. Goal
  BY <1>1, <1>2, <1>3, <1>4, <1>5, <1>6, <1>7, <1>8, <1>9
     DEF Next, Proceed, CancelDeadlock, Abort
<1> QED BY <1>10 DEF Goal

(* The rotation found the one row that answers to the token. *)
LEMMA FoundForRotate ==
  ASSUME IInv, NEW q \in Requests, LookupForRotate(q), pc'[q] = "update"
  PROVE  /\ call'[q] = call[q] /\ rows' = rows
         /\ call[q].arg \in Requests /\ pc[call[q].arg] = "committed"
         /\ ByHash(call[q].arg) = {victim'[q]}
<1> USE DEF IInv
<1>1. PICK s \in ByHash(call[q].arg) : victim'[q] = s
  BY DEF LookupForRotate, Go, TypeOK
<1>2. s \in Stored /\ rows[s].hash = call[q].arg
  BY DEF ByHash
<1>3. pc[call[q].arg] = "committed"
  BY <1>2 DEF RowInv
<1>4. call[q].arg \in Requests
  BY <1>2 DEF Stored, TypeOK, Row
<1>5. \A t \in ByHash(call[q].arg) : t = s
  BY <1>2 DEF ByHash, HashUnique
<1> QED BY <1>1, <1>3, <1>4, <1>5 DEF LookupForRotate

LEMMA SpentStep ==
  ASSUME IInv, IInv', SpentInv, [Next]_vars
  PROVE  SpentInv'
<1> USE DEF IInv
<1>1. ASSUME NEW q \in Requests, pc'[q] \in {"update", "answered", "committed"},
             call'[q].op = "rotate"
      PROVE  call'[q].arg \in Requests
  BY <1>1 DEF CallInv, TypeOK, Calls
<1>2. SUFFICES
        ASSUME NEW q \in Requests, pc'[q] \in {"update", "answered", "committed"},
               call'[q].op = "rotate", NEW t \in Requests, call'[q].arg = t
        PROVE  /\ pc'[t] = "committed"
               /\ pc'[q] = "update" => ByHash(t)' \subseteq {victim'[q]}
               /\ pc'[q] = "answered" => ByHash(t)' \subseteq put'[q]
               /\ pc'[q] = "committed" => ByHash(t)' = {}
  BY <1>1 DEF SpentInv, CallInv, ByHash
<1>3. pc[t] = "committed" => pc'[t] = "committed" /\ ByHash(t)' \subseteq ByHash(t)
  BY HashGone, CommittedStays
<1>4. CASE pc'[q] = pc[q] /\ call'[q] = call[q] /\ victim'[q] = victim[q] /\ put'[q] = put[q]
  BY <1>2, <1>3, <1>4 DEF SpentInv
<1>5. CASE LookupForRotate(q)
  <2>1. pc'[q] = "update" /\ call'[q] = call[q] /\ rows' = rows
    BY <1>2, <1>5 DEF LookupForRotate, Go, TypeOK
  <2>2. pc[t] = "committed" /\ ByHash(t) = {victim'[q]}
    BY <1>2, <1>5, <2>1, FoundForRotate
  <2> QED BY <1>3, <2>1, <2>2
<1>6. CASE UpdateHash(q)
  <2>1. /\ pc[q] = "update" /\ pc'[q] = "answered" /\ call'[q] = call[q]
        /\ put'[q] = {victim[q]}
    BY <1>6 DEF UpdateHash, Go, TypeOK
  <2>2. call[q].op = "rotate" /\ pc[t] = "committed" /\ ByHash(t) \subseteq put'[q]
    BY <1>2, <2>1 DEF SpentInv, CallInv
  <2> QED BY <1>3, <2>1, <2>2
<1>7. CASE Commit(q)
  <2>1. pc[q] = "answered" /\ pc'[q] = "committed" /\ call'[q] = call[q]
    BY <1>7 DEF Commit, Go, TypeOK
  <2>2. pc[t] = "committed" /\ ByHash(t) \subseteq put[q] /\ t # q
    BY <1>2, <2>1 DEF SpentInv
  <2>3. ASSUME NEW s \in ByHash(t)'
        PROVE  FALSE
    <3>1. s \in put[q] /\ s \in Stored /\ s \in Requests /\ rows[s] \in Row
      BY <1>3, <2>2, <2>3 DEF ByHash, Stored, TypeOK
    <3>2. rows'[s] = Merged(q, s)
      BY <1>2, <1>7, <2>1, <3>1, CommitRows DEF Held
    <3>3. rows'[s].hash = q
      BY <3>1, <3>2, MergedRow
    <3> QED BY <2>2, <2>3, <3>3 DEF ByHash
  <2> QED BY <1>3, <2>1, <2>2, <2>3
<1> QED BY <1>2, <1>4, <1>5, <1>6, <1>7, RotateStep

LEMMA SpentInductive == Spec => []SpentInv
<1>1. Init => SpentInv
  BY DEF Init, SpentInv
<1>2. IInv /\ IInv' /\ SpentInv /\ [Next]_vars => SpentInv'
  BY SpentStep
<1> QED BY <1>1, <1>2, Inductive, PTL DEF Spec

(* A request that has done nothing yet has told its caller nothing. *)
Unanswered == \A r \in Requests : pc[r] \in {"idle", "begin"} => reply[r] = "none"

LEMMA UnansweredStep ==
  ASSUME IInv, Unanswered, [Next]_vars
  PROVE  Unanswered'
<1> USE DEF IInv, TypeOK, Unanswered, Go, Tell
<1>1. CASE UNCHANGED vars
  BY <1>1 DEF vars
<1>2. ASSUME NEW r \in Requests, NEW c \in Calls, Receive(r, c)
      PROVE  Unanswered'
  BY <1>2 DEF Receive
<1>3. ASSUME NEW r \in Requests,
             \/ CountActive(r) \/ FindOldest(r) \/ Insert(r)
             \/ Validate(r) \/ RevokeByToken(r) \/ LookupById(r) \/ RevokeRow(r)
      PROVE  Unanswered'
  BY <1>3 DEF CountActive, FindOldest, Insert, Validate, RevokeByToken, LookupById, RevokeRow
<1>4. ASSUME NEW r \in Requests,
             \/ MatchForRevokeAll(r) \/ SweepDone(r)
             \/ \E s \in Requests : SweepRow(r, s)
             \/ LookupForRotate(r) \/ UpdateHash(r)
             \/ Commit(r) \/ Rollback(r)
      PROVE  Unanswered'
  BY <1>4 DEF MatchForRevokeAll, SweepDone, SweepRow, LookupForRotate, UpdateHash, Commit,
              Rollback
<1>5. ASSUME NEW s \in Requests, Expire(s)
      PROVE  Unanswered'
  BY <1>5 DEF Expire
<1> QED BY <1>1, <1>2, <1>3, <1>4, <1>5 DEF Next, Proceed, CancelDeadlock, Abort

(* What a request accepts is in the table. *)
LEMMA AcceptStep ==
  ASSUME IInv, Unanswered, [Next]_vars, NEW r \in Requests, pc[r] # "idle", Accepts(r)
  PROVE  ByHash(call[r].arg) # {}
<1> USE DEF IInv, TypeOK, Go, Tell
<1>1. pc[r] = "begin" /\ reply[r] = "none"
  BY DEF Accepts, Unanswered
<1>2. pc'[r] = "update" \/ (call[r].op = "validate" /\ reply'[r] = "ok")
  BY DEF Accepts
<1>3. ASSUME Validate(r) \/ LookupForRotate(r)
      PROVE  ByHash(call[r].arg) # {}
  BY <1>1, <1>2, <1>3 DEF Validate, LookupForRotate, Usable
<1>4. CASE UNCHANGED vars
  BY <1>1, <1>2, <1>4 DEF vars
<1>5. \A p \in Requests, c \in Calls : ~Receive(p, c)
  BY <1>1, <1>2 DEF Receive
<1>6. ASSUME NEW p \in Requests,
             \/ CountActive(p) \/ FindOldest(p) \/ Insert(p)
             \/ Validate(p) \/ RevokeByToken(p) \/ LookupById(p) \/ RevokeRow(p)
      PROVE  Validate(r)
  BY <1>1, <1>2, <1>6 DEF CountActive, FindOldest, Insert, Validate, RevokeByToken,
                          LookupById, RevokeRow
<1>7. ASSUME NEW p \in Requests,
             \/ MatchForRevokeAll(p) \/ SweepDone(p)
             \/ \E s \in Requests : SweepRow(p, s)
             \/ LookupForRotate(p) \/ UpdateHash(p)
             \/ Commit(p) \/ Rollback(p)
      PROVE  LookupForRotate(r)
  BY <1>1, <1>2, <1>7 DEF MatchForRevokeAll, SweepDone, SweepRow, LookupForRotate, UpdateHash,
                          Commit, Rollback
<1>8. \A s \in Requests : ~Expire(s)
  BY <1>1, <1>2 DEF Expire
<1> QED BY <1>3, <1>4, <1>5, <1>6, <1>7, <1>8 DEF Next, Proceed, CancelDeadlock, Abort

(* "Rotation invalidates the old token": whatever requests are under way,   *)
(* no validation and no rotation accepts a token that a committed rotation  *)
(* was given, and a row that was found by several rotations is no exception.*)
THEOREM RotationInvalidates == Spec => RotatedTokenRefused
<1> DEFINE Refused ==
      \A r \in Requests : pc[r] # "idle" /\ Accepts(r) =>
        ~\E q \in Requests : /\ pc[q] = "committed" /\ call[q].op = "rotate"
                             /\ call[q].arg = call[r].arg
<1>1. Spec => []Unanswered
  <2>1. Init => Unanswered
    BY DEF Init, Unanswered
  <2>2. IInv /\ Unanswered /\ [Next]_vars => Unanswered'
    BY UnansweredStep
  <2> QED BY <2>1, <2>2, Inductive, PTL DEF Spec
<1>2. IInv /\ Unanswered /\ SpentInv /\ [Next]_vars => [Refused]_vars
  BY AcceptStep DEF SpentInv
<1> HIDE DEF Refused
<1>3. Spec => [][Refused]_vars
  BY <1>1, <1>2, Inductive, SpentInductive, PTL DEF Spec
<1> QED BY <1>3 DEF Refused, RotatedTokenRefused

------------------------------------------------------------------------------
(* The device limit *)

CreatingFor(u) == {q \in Requests : Creating(q, u)}

(* A creation that will end an active session, as things stand. *)
Evicting(q, u) ==
  /\ Creating(q, u)
  /\ \/ pc[q] = "evict" /\ ActiveOf(u) # {}
     \/ pc[q] = "kill" /\ victim[q] \in ActiveOf(u)
     \/ kill[q] \cap ActiveOf(u) # {}

(* The sessions there are and those under way exceed the limit and its      *)
(* slack by one at most, and then one creation is about to end an active    *)
(* session: the one that found no other under way when it counted.          *)
Total(u) == Cardinality(ActiveOf(u)) + Cardinality(CreatingFor(u))
LimitAt(u) ==
  \/ Total(u) <= Limit + slack[u]
  \/ Total(u) = Limit + slack[u] + 1 /\ \E q \in Requests : Evicting(q, u)
LimitInv == \A u \in Users : LimitAt(u)

(* How counts change with their sets. *)
LEMMA CountSubset ==
  ASSUME NEW S \in SUBSET Requests, NEW T \in SUBSET S
  PROVE  /\ Cardinality(T) <= Cardinality(S)
         /\ T # S => Cardinality(T) + 1 <= Cardinality(S)
<1>1. IsFiniteSet(S)
  BY FiniteAssumption, FS_Subset
<1>2. T \in SUBSET Requests
  OBVIOUS
<1>3. Cardinality(S) \in Nat /\ Cardinality(T) \in Nat
  BY <1>2, CountType
<1> QED BY <1>1, <1>3, FS_Subset

LEMMA CountWith ==
  ASSUME NEW S \in SUBSET Requests, NEW x \in Requests
  PROVE  Cardinality(S \cup {x}) = IF x \in S THEN Cardinality(S) ELSE Cardinality(S) + 1
BY FiniteAssumption, FS_Subset, FS_AddElement

LEMMA CountWithout ==
  ASSUME NEW S \in SUBSET Requests, NEW x \in Requests
  PROVE  Cardinality(S \ {x}) = IF x \in S THEN Cardinality(S) - 1 ELSE Cardinality(S)
BY FiniteAssumption, FS_Subset, FS_RemoveElement

LEMMA CountBoth ==
  ASSUME NEW S \in SUBSET Requests, NEW T \in SUBSET Requests
  PROVE  Cardinality(S \cup T) <= Cardinality(S) + Cardinality(T)
<1>1. IsFiniteSet(S) /\ IsFiniteSet(T)
  BY FiniteAssumption, FS_Subset
<1>2. S \cap T \in SUBSET Requests
  OBVIOUS
<1>3. /\ Cardinality(S) \in Nat /\ Cardinality(T) \in Nat /\ Cardinality(S \cap T) \in Nat
  BY <1>2, CountType
<1>4. Cardinality(S \cup T) =
        Cardinality(S) + Cardinality(T) - Cardinality(S \cap T)
  BY <1>1, FS_Union
<1> QED BY <1>3, <1>4

LEMMA TotalType ==
  ASSUME NEW u \in Users
  PROVE  /\ ActiveOf(u) \in SUBSET Requests /\ CreatingFor(u) \in SUBSET Requests
         /\ Cardinality(ActiveOf(u)) \in Nat /\ Cardinality(CreatingFor(u)) \in Nat
<1>1. ActiveOf(u) \in SUBSET Requests /\ CreatingFor(u) \in SUBSET Requests
  BY DEF ActiveOf, Active, Stored, CreatingFor
<1> QED BY <1>1, CountType

(* The same facts of the state after a step. *)
LEMMA TotalTypeNext ==
  ASSUME NEW u \in Users
  PROVE  /\ ActiveOf(u)' \in SUBSET Requests /\ CreatingFor(u)' \in SUBSET Requests
         /\ Cardinality(ActiveOf(u)') \in Nat /\ Cardinality(CreatingFor(u)') \in Nat
<1>1. ActiveOf(u)' \in SUBSET Requests /\ CreatingFor(u)' \in SUBSET Requests
  BY DEF ActiveOf, Active, Stored, CreatingFor
<1> QED BY <1>1, CountType

(* A step that only ends sessions or creations keeps the limit. *)
LEMMA LimitFrame ==
  ASSUME TypeOK, NEW u \in Users, LimitAt(u),
         ActiveOf(u)' \subseteq ActiveOf(u), CreatingFor(u)' \subseteq CreatingFor(u),
         slack'[u] = slack[u],
         ActiveOf(u)' = ActiveOf(u) /\ CreatingFor(u)' = CreatingFor(u) =>
           \A q \in Requests : Evicting(q, u) => Evicting(q, u)'
  PROVE  LimitAt(u)'
<1>1. /\ ActiveOf(u) \in SUBSET Requests /\ CreatingFor(u) \in SUBSET Requests
      /\ Cardinality(ActiveOf(u)) \in Nat /\ Cardinality(CreatingFor(u)) \in Nat
  BY TotalType
<1>2. Cardinality(ActiveOf(u)') \in Nat /\ Cardinality(CreatingFor(u)') \in Nat
  BY TotalTypeNext
<1>3. /\ Cardinality(ActiveOf(u)') <= Cardinality(ActiveOf(u))
      /\ ActiveOf(u)' # ActiveOf(u) =>
           Cardinality(ActiveOf(u)') + 1 <= Cardinality(ActiveOf(u))
  BY <1>1, CountSubset
<1>4. /\ Cardinality(CreatingFor(u)') <= Cardinality(CreatingFor(u))
      /\ CreatingFor(u)' # CreatingFor(u) =>
           Cardinality(CreatingFor(u)') + 1 <= Cardinality(CreatingFor(u))
  BY <1>1, CountSubset
<1>5. slack[u] \in Nat /\ Limit \in Nat
  BY LimitAssumption DEF TypeOK
<1>6. Total(u)' = Cardinality(ActiveOf(u)') + Cardinality(CreatingFor(u)')
  BY DEF Total
<1>7. CASE ActiveOf(u)' = ActiveOf(u) /\ CreatingFor(u)' = CreatingFor(u)
  BY <1>6, <1>7 DEF LimitAt, Total
<1>8. CASE ~(ActiveOf(u)' = ActiveOf(u) /\ CreatingFor(u)' = CreatingFor(u))
  <2>1. Total(u)' + 1 <= Total(u)
    BY <1>1, <1>2, <1>3, <1>4, <1>6, <1>8 DEF Total
  <2>2. Total(u) <= Limit + slack[u] + 1 /\ Total(u) \in Nat /\ Total(u)' \in Nat
    BY <1>1, <1>2, <1>5, <1>6 DEF LimitAt, Total
  <2> QED BY <1>5, <2>1, <2>2 DEF LimitAt
<1> QED BY <1>7, <1>8

(* Such is a step of one request that changes no row, unless it begins a    *)
(* creation or gives up an eviction.                                        *)
LEMMA LimitQuiet ==
  ASSUME TypeOK, LimitInv, NEW r \in Requests, rows' = rows, slack' = slack,
         \A q \in Requests \ {r} : /\ pc'[q] = pc[q] /\ call'[q] = call[q]
                                   /\ victim'[q] = victim[q] /\ kill'[q] = kill[q],
         \A u \in Users :
           /\ Creating(r, u)' => Creating(r, u)
           /\ Evicting(r, u) /\ Creating(r, u)' => Evicting(r, u)'
  PROVE  LimitInv'
<1>1. SUFFICES ASSUME NEW u \in Users PROVE LimitAt(u)'
  BY DEF LimitInv
<1>2. ActiveOf(u)' = ActiveOf(u)
  BY DEF ActiveOf, Active, Stored
<1>3. \A q \in Requests \ {r} : /\ Creating(q, u)' <=> Creating(q, u)
                                /\ Evicting(q, u)' <=> Evicting(q, u)
  BY <1>2 DEF Creating, Evicting
<1>4. CreatingFor(u)' \subseteq CreatingFor(u)
  BY <1>3 DEF CreatingFor
<1>5. ASSUME CreatingFor(u)' = CreatingFor(u), NEW q \in Requests, Evicting(q, u)
      PROVE  Evicting(q, u)'
  <2>1. Creating(q, u)'
    BY <1>5 DEF CreatingFor, Evicting
  <2> QED BY <1>3, <1>5, <2>1
<1> QED BY <1>2, <1>4, <1>5, LimitFrame DEF LimitInv

(* The count, which may let one more creation begin. *)
LEMMA LimitCount ==
  ASSUME IInv, LimitInv, NEW r \in Requests, CountActive(r), NEW u \in Users
  PROVE  LimitAt(u)'
<1> USE DEF IInv
<1>1. /\ pc[r] = "begin" /\ call[r].op = "create" /\ rows' = rows /\ call' = call
      /\ victim' = victim /\ kill' = kill
      /\ \A q \in Requests \ {r} : pc'[q] = pc[q]
      /\ pc'[r] = IF LimitReached(call[r].user) THEN "evict" ELSE "insert"
  BY DEF CountActive, Go, TypeOK, request
<1>2. call[r].user \in Users
  BY <1>1 DEF TypeOK, CallInv, Calls
<1>3. slack'[u] = IF u = call[r].user /\ CreatingFor(u) \ {r} # {} THEN slack[u] + 1 ELSE slack[u]
  <2>1. (\E q \in Requests \ {r} : Creating(q, u)) <=> CreatingFor(u) \ {r} # {}
    BY DEF CreatingFor
  <2> QED BY <1>2, <2>1 DEF CountActive, TypeOK
<1>4. ActiveOf(u)' = ActiveOf(u)
  BY <1>1 DEF ActiveOf, Active, Stored
<1>5. \A q \in Requests \ {r} : /\ Creating(q, u)' <=> Creating(q, u)
                                /\ Evicting(q, u)' <=> Evicting(q, u)
  BY <1>1, <1>4 DEF Creating, Evicting
<1>6. ~Creating(r, u) /\ (Creating(r, u)' <=> u = call[r].user)
  BY <1>1 DEF Creating
<1>7. r \notin CreatingFor(u)
  BY <1>6 DEF CreatingFor
<1>8. CASE u # call[r].user
  <2>1. CreatingFor(u)' = CreatingFor(u) /\ slack'[u] = slack[u]
    BY <1>3, <1>5, <1>6, <1>8 DEF CreatingFor
  <2>2. \A q \in Requests : Evicting(q, u) => Evicting(q, u)'
    BY <1>5, <1>6 DEF Evicting
  <2> QED BY <1>4, <2>1, <2>2, LimitFrame DEF LimitInv
<1>9. CASE u = call[r].user
  <2>1. CreatingFor(u)' = CreatingFor(u) \cup {r}
    BY <1>5, <1>6, <1>9 DEF CreatingFor
  <2>2. /\ Cardinality(ActiveOf(u)) \in Nat /\ Cardinality(CreatingFor(u)) \in Nat
        /\ CreatingFor(u) \in SUBSET Requests /\ slack[u] \in Nat /\ Limit \in Nat \ {0}
    BY TotalType, LimitAssumption DEF TypeOK
  <2>3. Cardinality(CreatingFor(u)') = Cardinality(CreatingFor(u)) + 1
    BY <1>7, <2>1, <2>2, CountWith
  <2>4. Total(u)' = Total(u) + 1 /\ Total(u) \in Nat
    BY <1>4, <2>2, <2>3 DEF Total
  <2>5. LimitAt(u)
    BY DEF LimitInv
  <2>6. CASE CreatingFor(u) # {}
    <3>1. slack'[u] = slack[u] + 1
      BY <1>3, <1>7, <1>9, <2>6
    <3>2. ASSUME NEW q \in Requests, Evicting(q, u)
          PROVE  Evicting(q, u)'
      BY <1>5, <1>6, <3>2 DEF Evicting
    <3> QED BY <2>2, <2>4, <2>5, <3>1, <3>2 DEF LimitAt
  <2>7. CASE CreatingFor(u) = {}
    <3>1. slack'[u] = slack[u]
      BY <1>3, <2>7
    <3>2. \A q \in Requests : ~Evicting(q, u)
      BY <2>7 DEF CreatingFor, Evicting
    <3>3. Total(u) <= Limit + slack[u]
      BY <2>5, <3>2 DEF LimitAt
    <3>4. CASE LimitReached(u)
      <4>1. ActiveOf(u) # {}
        BY <2>2, <3>4, FS_EmptySet DEF LimitReached
      <4>2. Evicting(r, u)'
        BY <1>1, <1>4, <1>6, <1>9, <3>4, <4>1 DEF Evicting
      <4> QED BY <2>2, <2>4, <3>1, <3>3, <4>2 DEF LimitAt
    <3>5. CASE ~LimitReached(u)
      <4>1. Cardinality(CreatingFor(u)) = 0
        BY <2>7, FS_EmptySet
      <4>2. Total(u) + 1 <= Limit
        BY <2>2, <3>5, <4>1 DEF LimitReached, Total
      <4> QED BY <2>2, <2>4, <3>1, <4>2 DEF LimitAt
    <3> QED BY <3>4, <3>5
  <2> QED BY <2>6, <2>7
<1> QED BY <1>8, <1>9

(* The active sessions after a commit. *)
LEMMA ActiveAfter ==
  ASSUME IInv, NEW r \in Requests, Commit(r), NEW u \in Users, NEW s \in Requests
  PROVE  s \in ActiveOf(u)' <=>
           \/ s = r /\ call[r].op = "create" /\ call[r].user = u
           \/ /\ s \in Stored /\ rows[s].user = u /\ ~rows[s].revoked /\ s \notin kill[r]
              /\ ~rows[s].expired \/ s \in put[r]
<1> USE DEF IInv
<1>1. call[r] \in Calls /\ rows[r] = None
  BY DEF Commit, CallInv, RowInv, Stored, TypeOK
<1>2. rows'[s] = IF s = r /\ call[r].op = "create" THEN Created(r)
                 ELSE IF s \in Held(r) THEN Merged(r, s) ELSE rows[s]
  BY CommitRows
<1>3. CASE s = r /\ call[r].op = "create"
  <2>1. rows'[s] = Created(r) /\ Created(r) \in Row
    BY <1>1, <1>2, <1>3, CreatedRow
  <2>2. s \in Stored'
    BY <2>1, NoneAssumption DEF Stored
  <2>3. /\ rows'[s].user = call[r].user /\ rows'[s].revoked = FALSE
        /\ rows'[s].expired = FALSE
    BY <2>1 DEF Created
  <2> QED BY <1>1, <1>3, <2>2, <2>3 DEF ActiveOf, Active, Stored
<1>4. CASE ~(s = r /\ call[r].op = "create") /\ s \in Held(r)
  <2>1. rows'[s] = Merged(r, s) /\ s \in Stored /\ rows[s] \in Row
    BY <1>2, <1>4 DEF Held, LockInv, Stored, TypeOK
  <2>2. Merged(r, s) \in Row
    BY <2>1, MergedRow
  <2>3. s \in Stored'
    BY <2>1, <2>2, NoneAssumption DEF Stored
  <2>4. /\ rows'[s].user = rows[s].user
        /\ rows'[s].revoked = (rows[s].revoked \/ s \in kill[r])
        /\ rows'[s].expired = (rows[s].expired /\ s \notin put[r])
    BY <2>1 DEF Merged
  <2> QED BY <1>4, <2>1, <2>3, <2>4 DEF ActiveOf, Active
<1>5. CASE ~(s = r /\ call[r].op = "create") /\ s \notin Held(r)
  BY <1>2, <1>5 DEF ActiveOf, Active, Stored, Held
<1> QED BY <1>3, <1>4, <1>5

(* The commit, which may bring a session, end some, or revive one. *)
LEMMA LimitCommit ==
  ASSUME IInv, LimitInv, NEW r \in Requests, Commit(r), NEW u \in Users
  PROVE  LimitAt(u)'
<1> USE DEF IInv
<1> DEFINE Revived == {s \in Rescued(r) : rows[s].user = u}
<1>1. /\ pc[r] = "answered" /\ pc'[r] = "committed" /\ call' = call /\ victim' = victim
      /\ kill' = [kill EXCEPT ![r] = {}]
      /\ \A q \in Requests \ {r} : pc'[q] = pc[q]
      /\ slack'[u] = slack[u] + Cardinality(Revived)
      /\ call[r] \in Calls
  BY DEF Commit, Release, Go, TypeOK, CallInv
<1>2. Revived \in SUBSET Requests
  BY DEF Rescued, TypeOK
<1>3. \A q \in Requests \ {r} : /\ Creating(q, u)' <=> Creating(q, u)
                                /\ kill'[q] = kill[q] /\ victim'[q] = victim[q] /\ pc'[q] = pc[q]
  BY <1>1 DEF Creating, TypeOK
<1>4. ~Creating(r, u)'
  BY <1>1 DEF Creating
<1>5. CreatingFor(u)' = CreatingFor(u) \ {r}
  BY <1>3, <1>4 DEF CreatingFor
<1>6. ASSUME NEW q \in Requests \ {r}, Evicting(q, u), ActiveOf(u) \subseteq ActiveOf(u)'
      PROVE  Evicting(q, u)'
  BY <1>3, <1>6 DEF Evicting
<1>7. /\ ActiveOf(u) \in SUBSET Requests /\ CreatingFor(u) \in SUBSET Requests
      /\ Cardinality(ActiveOf(u)) \in Nat /\ Cardinality(CreatingFor(u)) \in Nat
      /\ slack[u] \in Nat /\ Limit \in Nat
  BY TotalType, LimitAssumption DEF TypeOK
<1>8. /\ ActiveOf(u)' \in SUBSET Requests
      /\ Cardinality(ActiveOf(u)') \in Nat /\ Cardinality(CreatingFor(u)') \in Nat
  BY TotalTypeNext
<1>9. LimitAt(u)
  BY DEF LimitInv
<1>10. Total(u)' = Cardinality(ActiveOf(u)') + Cardinality(CreatingFor(u)')
  BY DEF Total
<1>11. CASE call[r].op = "rotate"
  <2>1. kill[r] = {} /\ ~Creating(r, u)
    BY <1>11 DEF LockInv, Creating
  <2>2. ActiveOf(u) \subseteq ActiveOf(u)'
    <3>1. \A s \in ActiveOf(u) : /\ s \in Stored /\ rows[s].user = u /\ ~rows[s].revoked
                                 /\ ~rows[s].expired /\ s \in Requests
      BY DEF ActiveOf, Active, Stored
    <3> QED BY <2>1, <3>1, ActiveAfter
  <2>3. ActiveOf(u)' \subseteq ActiveOf(u) \cup Revived
    <3>1. \A s \in ActiveOf(u)' : /\ s \in Stored /\ rows[s].user = u /\ ~rows[s].revoked
                                  /\ ~rows[s].expired \/ s \in put[r]
      BY <1>8, <1>11, ActiveAfter
    <3> QED BY <3>1 DEF ActiveOf, Active, Rescued
  <2>4. /\ Cardinality(ActiveOf(u)') <= Cardinality(ActiveOf(u)) + Cardinality(Revived)
        /\ Cardinality(Revived) \in Nat
    <3>1. ActiveOf(u) \cup Revived \in SUBSET Requests
      BY <1>2, <1>7
    <3>2. /\ Cardinality(ActiveOf(u) \cup Revived) \in Nat
          /\ Cardinality(Revived) \in Nat
      BY <1>2, <3>1, CountType
    <3>3. Cardinality(ActiveOf(u)') <= Cardinality(ActiveOf(u) \cup Revived)
      BY <2>3, <3>1, CountSubset
    <3>4. Cardinality(ActiveOf(u) \cup Revived) <= Cardinality(ActiveOf(u)) + Cardinality(Revived)
      BY <1>2, <1>7, CountBoth
    <3> QED BY <1>7, <1>8, <3>2, <3>3, <3>4
  <2>5. CreatingFor(u)' = CreatingFor(u)
    BY <1>5, <2>1 DEF CreatingFor
  <2>6. \A q \in Requests : Evicting(q, u) => Evicting(q, u)'
    BY <1>6, <2>1, <2>2 DEF Evicting
  <2>7. Total(u)' <= Total(u) + Cardinality(Revived) /\ Total(u) \in Nat /\ Total(u)' \in Nat
    BY <1>7, <1>8, <1>10, <2>4, <2>5 DEF Total
  <2>8. slack'[u] = slack[u] + Cardinality(Revived)
    BY <1>1
  <2> HIDE DEF Revived
  <2>9. CASE Total(u) <= Limit + slack[u]
    BY <1>7, <2>4, <2>7, <2>8, <2>9 DEF LimitAt
  <2>10. CASE Total(u) = Limit + slack[u] + 1 /\ \E q \in Requests : Evicting(q, u)
    BY <1>7, <2>4, <2>6, <2>7, <2>8, <2>10 DEF LimitAt
  <2> QED BY <1>9, <2>9, <2>10 DEF LimitAt
<1>12. CASE call[r].op # "rotate"
  <2>1. put[r] = {}
    BY <1>12 DEF LockInv
  <2>2. Revived = {} /\ slack'[u] = slack[u]
    BY <1>1, <1>7, <2>1, FS_EmptySet DEF Rescued
  <2>3. CASE Creating(r, u)
    <3>1. call[r].op = "create" /\ call[r].user = u /\ r \in CreatingFor(u)
      BY <2>3 DEF Creating, CreatingFor
    <3>2. ActiveOf(u)' = (ActiveOf(u) \ kill[r]) \cup {r}
      <4>1. \A s \in Requests : s \in ActiveOf(u)' <=> s = r \/ (s \in ActiveOf(u) /\ s \notin kill[r])
        BY <2>1, <3>1, ActiveAfter DEF ActiveOf, Active
      <4> QED BY <1>7, <1>8, <4>1
    <3>3. Cardinality(CreatingFor(u)') = Cardinality(CreatingFor(u)) - 1
      BY <1>5, <1>7, <3>1, CountWithout
    <3>4. r \notin ActiveOf(u)
      BY <1>1 DEF RowInv, ActiveOf, Active
    <3>5. CASE kill[r] \cap ActiveOf(u) = {}
      <4>1. ActiveOf(u)' = ActiveOf(u) \cup {r}
        BY <3>2, <3>5
      <4>2. Cardinality(ActiveOf(u)') = Cardinality(ActiveOf(u)) + 1
        BY <1>7, <3>4, <4>1, CountWith
      <4>3. Total(u)' = Total(u)
        BY <1>7, <1>10, <3>3, <4>2 DEF Total
      <4>4. ~Evicting(r, u)
        BY <1>1, <3>5 DEF Evicting
      <4>5. \A q \in Requests : Evicting(q, u) => Evicting(q, u)'
        BY <1>6, <4>1, <4>4
      <4> QED BY <1>9, <2>2, <4>3, <4>5 DEF LimitAt
    <3>6. CASE kill[r] \cap ActiveOf(u) # {}
      <4>1. PICK s \in Requests : s \in kill[r] /\ s \in ActiveOf(u)
        BY <1>7, <3>6
      <4>2. ActiveOf(u)' \subseteq (ActiveOf(u) \ {s}) \cup {r}
        BY <3>2, <4>1
      <4>3. Cardinality(ActiveOf(u) \ {s}) = Cardinality(ActiveOf(u)) - 1
        BY <1>7, <4>1, CountWithout
      <4>4. Cardinality((ActiveOf(u) \ {s}) \cup {r}) = Cardinality(ActiveOf(u))
        <5>1. ActiveOf(u) \ {s} \in SUBSET Requests /\ r \notin ActiveOf(u) \ {s}
          BY <1>7, <3>4
        <5> QED BY <1>7, <4>3, <5>1, CountWith
      <4>5. Cardinality(ActiveOf(u)') <= Cardinality(ActiveOf(u))
        <5>1. (ActiveOf(u) \ {s}) \cup {r} \in SUBSET Requests
          BY <1>7
        <5> QED BY <4>2, <4>4, <5>1, CountSubset
      <4>6. Total(u)' + 1 <= Total(u) /\ Total(u)' \in Nat /\ Total(u) \in Nat
        BY <1>7, <1>8, <1>10, <3>3, <4>5 DEF Total
      <4>7. Total(u) <= Limit + slack[u] + 1
        BY <1>7, <1>9, <4>6 DEF LimitAt
      <4> QED BY <1>7, <2>2, <4>6, <4>7 DEF LimitAt
    <3> QED BY <3>5, <3>6
  <2>4. CASE ~Creating(r, u)
    <3>1. ~(call[r].op = "create" /\ call[r].user = u)
      BY <1>1, <2>4 DEF Creating
    <3>2. ActiveOf(u)' \subseteq ActiveOf(u)
      <4>1. \A s \in Requests : s \in ActiveOf(u)' => s \in ActiveOf(u)
        BY <2>1, <3>1, ActiveAfter DEF ActiveOf, Active
      <4> QED BY <1>8, <4>1
    <3>3. CreatingFor(u)' = CreatingFor(u)
      BY <1>5, <2>4 DEF CreatingFor
    <3>4. ASSUME ActiveOf(u)' = ActiveOf(u), NEW q \in Requests, Evicting(q, u)
          PROVE  Evicting(q, u)'
      BY <1>6, <2>4, <3>4 DEF Evicting
    <3> QED BY <1>9, <2>2, <3>2, <3>3, <3>4, LimitFrame
  <2> QED BY <2>3, <2>4
<1> QED BY <1>11, <1>12

LEMMA LimitStep ==
  ASSUME IInv, LimitInv, [Next]_vars
  PROVE  LimitInv'
<1> USE DEF IInv
<1>1. CASE UNCHANGED vars
  BY <1>1 DEF vars, LimitInv, LimitAt, Total, ActiveOf, Active, Stored, CreatingFor,
              Evicting, Creating
<1>2. ASSUME NEW r \in Requests, NEW c \in Calls, Receive(r, c)
      PROVE  LimitInv'
  BY <1>2, LimitQuiet DEF Receive, Go, TypeOK, request, Creating
<1>3. ASSUME NEW r \in Requests, CountActive(r)
      PROVE  LimitInv'
  BY <1>3, LimitCount DEF LimitInv
<1>4. ASSUME NEW r \in Requests, FindOldest(r)
      PROVE  LimitInv'
  <2>1. /\ pc[r] = "evict" /\ kill[r] = {} /\ UNCHANGED <<rows, slack, call, kill>>
        /\ \A q \in Requests \ {r} : pc'[q] = pc[q] /\ victim'[q] = victim[q]
        /\ \/ ActiveOf(call[r].user) = {} /\ pc'[r] = "insert"
           \/ victim'[r] \in ActiveOf(call[r].user) /\ pc'[r] = "kill"
    BY <1>4 DEF FindOldest, Go, TypeOK, LockInv
  <2>2. ASSUME NEW u \in Users
        PROVE  /\ Creating(r, u)' => Creating(r, u)
               /\ Evicting(r, u) /\ Creating(r, u)' => Evicting(r, u)'
    <3>1. ActiveOf(u)' = ActiveOf(u)
      BY <2>1 DEF ActiveOf, Active, Stored
    <3> QED BY <2>1, <3>1 DEF Creating, Evicting
  <2> QED BY <2>1, <2>2, LimitQuiet
<1>5. ASSUME NEW r \in Requests, Insert(r)
      PROVE  LimitInv'
  <2>1. /\ pc[r] = "insert" /\ pc'[r] = "answered"
        /\ UNCHANGED <<rows, slack, call, victim, kill>>
        /\ \A q \in Requests \ {r} : pc'[q] = pc[q]
    BY <1>5 DEF Insert, Go, TypeOK
  <2>2. ASSUME NEW u \in Users
        PROVE  /\ Creating(r, u)' => Creating(r, u)
               /\ Evicting(r, u) /\ Creating(r, u)' => Evicting(r, u)'
    <3>1. ActiveOf(u)' = ActiveOf(u)
      BY <2>1 DEF ActiveOf, Active, Stored
    <3> QED BY <2>1, <3>1 DEF Creating, Evicting
  <2> QED BY <2>1, <2>2, LimitQuiet
<1>6. ASSUME NEW r \in Requests, RevokeRow(r)
      PROVE  LimitInv'
  <2>1. /\ pc[r] = "kill" /\ kill[r] = {} /\ pc'[r] \in {"insert", "answered"}
        /\ kill'[r] = {victim[r]} /\ UNCHANGED <<rows, slack, call>>
        /\ \A q \in Requests \ {r} :
             pc'[q] = pc[q] /\ victim'[q] = victim[q] /\ kill'[q] = kill[q]
    BY <1>6 DEF RevokeRow, Go, TypeOK, LockInv
  <2>2. ASSUME NEW u \in Users
        PROVE  /\ Creating(r, u)' => Creating(r, u)
               /\ Evicting(r, u) /\ Creating(r, u)' => Evicting(r, u)'
    <3>1. ActiveOf(u)' = ActiveOf(u)
      BY <2>1 DEF ActiveOf, Active, Stored
    <3> QED BY <2>1, <3>1 DEF Creating, Evicting
  <2> QED BY <2>1, <2>2, LimitQuiet
<1>7. ASSUME NEW r \in Requests, Validate(r) \/ LookupById(r) \/ LookupForRotate(r)
      PROVE  LimitInv'
  <2>1. /\ pc[r] = "begin" /\ call[r].op # "create" /\ UNCHANGED <<rows, slack, call, kill>>
        /\ \A q \in Requests \ {r} : pc'[q] = pc[q] /\ victim'[q] = victim[q]
    BY <1>7 DEF Validate, LookupById, LookupForRotate, Go, TypeOK, request
  <2> QED BY <2>1, LimitQuiet DEF Creating
<1>8. ASSUME NEW r \in Requests,
             \/ RevokeByToken(r) \/ MatchForRevokeAll(r) \/ SweepDone(r) \/ UpdateHash(r)
             \/ \E s \in Requests : SweepRow(r, s)
      PROVE  LimitInv'
  <2>1. /\ call[r].op # "create" /\ UNCHANGED <<rows, slack, call>>
        /\ \A q \in Requests \ {r} :
             pc'[q] = pc[q] /\ victim'[q] = victim[q] /\ kill'[q] = kill[q]
    BY <1>8 DEF RevokeByToken, MatchForRevokeAll, SweepDone, UpdateHash, SweepRow, Go,
                TypeOK, CallInv
  <2> QED BY <2>1, LimitQuiet DEF Creating
<1>9. ASSUME NEW r \in Requests, Commit(r)
      PROVE  LimitInv'
  BY <1>9, LimitCommit DEF LimitInv
<1>10. ASSUME NEW r \in Requests, Rollback(r)
       PROVE  LimitInv'
  <2>1. /\ pc'[r] = "failed" /\ UNCHANGED <<rows, slack, call>>
        /\ \A q \in Requests \ {r} :
             pc'[q] = pc[q] /\ victim'[q] = victim[q] /\ kill'[q] = kill[q]
    BY <1>10 DEF Rollback, Release, Go, TypeOK
  <2> QED BY <2>1, LimitQuiet DEF Creating
<1>11. ASSUME NEW s \in Requests, Expire(s)
       PROVE  LimitInv'
  <2>1. SUFFICES ASSUME NEW u \in Users PROVE LimitAt(u)'
    BY DEF LimitInv
  <2>2. UNCHANGED <<pc, call, victim, kill, slack>>
    BY <1>11 DEF Expire, request
  <2>3. \A q \in Requests : Creating(q, u)' <=> Creating(q, u)
    BY <2>2 DEF Creating
  <2>4. CreatingFor(u)' = CreatingFor(u)
    BY <2>3 DEF CreatingFor
  <2>5. ActiveOf(u)' \subseteq ActiveOf(u)
    <3>1. rows[s] \in Row /\ rows[s] # None
      BY <1>11 DEF Expire, Stored, TypeOK
    <3>2. Lapsed(s).expired = TRUE
      BY DEF Lapsed
    <3>3. \A t \in Requests : rows'[t] = IF t = s THEN Lapsed(s) ELSE rows[t]
      BY <1>11 DEF Expire, TypeOK
    <3> QED BY <3>1, <3>2, <3>3 DEF ActiveOf, Active, Stored
  <2>6. ASSUME ActiveOf(u)' = ActiveOf(u), NEW q \in Requests, Evicting(q, u)
        PROVE  Evicting(q, u)'
    BY <2>2, <2>3, <2>6 DEF Evicting
  <2> QED BY <2>2, <2>4, <2>5, <2>6, LimitFrame DEF LimitInv
<1> QED BY <1>1, <1>2, <1>3, <1>4, <1>5, <1>6, <1>7, <1>8, <1>9, <1>10, <1>11
        DEF Next, Proceed, CancelDeadlock, Abort

(* A user never has more active sessions than the limit and its slack: the  *)
(* creations that counted while another was under way, and the sessions a   *)
(* rotation revived.                                                        *)
THEOREM LimitHeld == Spec => []DeviceLimit
<1>1. Init => LimitInv
  <2>1. ASSUME Init, NEW u \in Users
        PROVE  LimitAt(u)
    <3>1. ActiveOf(u) = {} /\ CreatingFor(u) = {} /\ slack[u] = 0
      BY <2>1 DEF Init, ActiveOf, Active, Stored, CreatingFor, Creating
    <3>2. Total(u) = 0
      BY <3>1, FS_EmptySet DEF Total
    <3> QED BY <3>1, <3>2, LimitAssumption DEF LimitAt
  <2> QED BY <2>1 DEF LimitInv
<1>2. IInv /\ LimitInv /\ [Next]_vars => LimitInv'
  BY LimitStep
<1>3. ASSUME IInv, LimitInv
      PROVE  DeviceLimit
  <2>1. SUFFICES ASSUME NEW u \in Users PROVE Cardinality(ActiveOf(u)) <= Limit + slack[u]
    BY DEF DeviceLimit
  <2>2. /\ Cardinality(ActiveOf(u)) \in Nat /\ Cardinality(CreatingFor(u)) \in Nat
        /\ CreatingFor(u) \in SUBSET Requests
        /\ slack[u] \in Nat /\ Limit \in Nat
    BY <1>3, TotalType, LimitAssumption DEF IInv, TypeOK
  <2>3. CASE \E q \in Requests : Evicting(q, u)
    <3>1. CreatingFor(u) # {}
      BY <2>3 DEF Evicting, CreatingFor
    <3>2. Cardinality(CreatingFor(u)) # 0
      BY <2>2, <3>1, FiniteAssumption, FS_Subset, FS_EmptySet
    <3> QED BY <1>3, <2>2, <3>2 DEF LimitInv, LimitAt, Total
  <2>4. CASE ~\E q \in Requests : Evicting(q, u)
    BY <1>3, <2>2, <2>4 DEF LimitInv, LimitAt, Total
  <2> QED BY <2>3, <2>4
<1> QED BY <1>1, <1>2, <1>3, Inductive, PTL DEF Spec

------------------------------------------------------------------------------
(* Refinement of SessionLedger *)

(* A step that commits nothing leaves the ledger as it is. *)
LEMMA QuietStep ==
  ASSUME IInv, [Next]_vars, \A r \in Requests : ~Commit(r)
  PROVE  UNCHANGED <<LedgerState, LedgerOwner, LedgerToken, LedgerSpent>>
<1> USE DEF IInv
<1>1. \A s \in Requests :
        /\ rows'[s] = None <=> rows[s] = None
        /\ rows[s] # None => /\ rows'[s].user = rows[s].user
                             /\ rows'[s].hash = rows[s].hash
                             /\ rows'[s].revoked = rows[s].revoked
  <2>1. ASSUME NEW q \in Requests, Expire(q), NEW s \in Requests
        PROVE  /\ rows'[s] = None <=> rows[s] = None
               /\ rows[s] # None => /\ rows'[s].user = rows[s].user
                                    /\ rows'[s].hash = rows[s].hash
                                    /\ rows'[s].revoked = rows[s].revoked
    <3>1. rows'[s] = IF s = q THEN Lapsed(s) ELSE rows[s]
      BY <2>1 DEF Expire, TypeOK
    <3>2. rows[q] \in Row /\ rows[q] # None
      BY <2>1 DEF Expire, Stored, TypeOK
    <3>3. Lapsed(q) \in Row
      BY <3>2 DEF Lapsed, Row
    <3>4. CASE s = q
      <4>1. rows'[s] # None /\ rows[s] # None
        BY <3>1, <3>2, <3>3, <3>4, NoneAssumption
      <4>2. rows'[s] = Lapsed(s)
        BY <3>1, <3>4
      <4> QED BY <4>1, <4>2 DEF Lapsed
    <3>5. CASE s # q
      BY <3>1, <3>5
    <3> QED BY <3>4, <3>5
  <2>2. (\E q \in Requests : Expire(q)) \/ rows' = rows
    BY DEF Next, Proceed, CancelDeadlock, Abort, vars, Receive, CountActive, FindOldest,
           Insert, Validate, RevokeByToken, LookupById, RevokeRow, MatchForRevokeAll,
           SweepRow, SweepDone, LookupForRotate, UpdateHash, Rollback
  <2> QED BY <2>1, <2>2
<1>2. ASSUME NEW q \in Requests, pc[q] # "committed"
      PROVE  pc'[q] # "committed"
  <2> USE DEF Go, TypeOK
  <2>1. \A r \in Requests, c \in Calls : Receive(r, c) => pc'[q] # "committed"
    BY <1>2 DEF Receive
  <2>2. \A r \in Requests :
          \/ CountActive(r) \/ FindOldest(r) \/ Insert(r) \/ Validate(r)
          \/ RevokeByToken(r) \/ LookupById(r) \/ RevokeRow(r)
          => pc'[q] # "committed"
    BY <1>2 DEF CountActive, FindOldest, Insert, Validate, RevokeByToken, LookupById,
                RevokeRow
  <2>3. \A r \in Requests :
          \/ MatchForRevokeAll(r) \/ SweepDone(r) \/ LookupForRotate(r)
          \/ UpdateHash(r) \/ Rollback(r) \/ \E s \in Requests : SweepRow(r, s)
          => pc'[q] # "committed"
    BY <1>2 DEF MatchForRevokeAll, SweepDone, LookupForRotate, UpdateHash, Rollback,
                SweepRow
  <2>4. \A s \in Requests : Expire(s) => pc'[q] # "committed"
    BY <1>2 DEF Expire
  <2> QED BY <1>2, <2>1, <2>2, <2>3, <2>4
          DEF Next, Proceed, CancelDeadlock, Abort, vars
<1>3. \A q \in Requests : pc[q] = "committed" => pc'[q] = "committed" /\ call'[q] = call[q]
  BY CommittedStays
<1> QED BY <1>1, <1>2, <1>3 DEF LedgerState, LedgerOwner, LedgerToken, LedgerSpent

(* What a commit does to the ledger: it ends the live sessions on which the *)
(* request set is_revoked, and writes its hash in those it rotates.         *)
LEMMA CommitMap ==
  ASSUME IInv, NEW r \in Requests, Commit(r), NEW s \in Requests,
         s # r \/ call[r].op # "create"
  PROVE  /\ LedgerState'[s] = IF rows[s] # None /\ s \in kill[r] THEN "ended"
                              ELSE LedgerState[s]
         /\ LedgerOwner'[s] = LedgerOwner[s]
         /\ LedgerToken'[s] = IF s \in put[r] THEN r ELSE LedgerToken[s]
<1> USE DEF IInv
<1>1. rows'[s] = IF s \in Held(r) THEN Merged(r, s) ELSE rows[s]
  BY CommitRows
<1>2. s \in Held(r) => rows[s] # None /\ rows[s] \in Row
  BY DEF LockInv, Held, Stored, TypeOK
<1>3. CASE s \notin Held(r)
  BY <1>1, <1>3 DEF Held, LedgerState, LedgerOwner, LedgerToken
<1>4. CASE s \in Held(r)
  <2>1. /\ rows'[s] = Merged(r, s) /\ Merged(r, s) # None /\ rows[s] # None
        /\ rows[s].revoked \in BOOLEAN
    BY <1>1, <1>2, <1>4, MergedRow, NoneAssumption DEF Row
  <2>2. /\ Merged(r, s).user = rows[s].user
        /\ Merged(r, s).hash = IF s \in put[r] THEN r ELSE rows[s].hash
        /\ Merged(r, s).revoked = (rows[s].revoked \/ s \in kill[r])
    BY <1>2, <1>4, MergedRow
  <2> QED BY <2>1, <2>2 DEF LedgerState, LedgerOwner, LedgerToken
<1> QED BY <1>3, <1>4

(* A commit is one operation of the ledger. *)
LEMMA CommitIsLedgerStep ==
  ASSUME IInv, [Next]_vars, NEW r \in Requests, Commit(r)
  PROVE  Ledger!Next
<1> USE DEF IInv
<1> DEFINE E == {s \in kill[r] : LedgerState[s] = "live"}
<1>1. /\ call[r] \in Calls /\ pc[r] = "answered" /\ pc'[r] = "committed"
      /\ call' = call /\ \A q \in Requests \ {r} : pc'[q] = pc[q]
  BY DEF Commit, CallInv, TypeOK, Go
<1>2. rows[r] = None /\ LedgerState[r] = "none"
  BY <1>1 DEF RowInv, Stored, LedgerState
<1>3. \A s \in kill[r] : s \in Requests /\ rows[s] # None /\ LedgerState[s] \in {"live", "ended"}
  BY DEF LockInv, Stored, LedgerState
<1>4. E \in SUBSET Ledger!Live
  BY <1>3 DEF Ledger!Live
<1>5. LedgerSpent' = IF call[r].op \in Writers THEN LedgerSpent \cup {r} ELSE LedgerSpent
  BY <1>1 DEF LedgerSpent
<1>6. r \in Requests \ LedgerSpent
  BY <1>1 DEF LedgerSpent
<1>7. CASE call[r].op = "create"
  <2>1. put[r] = {} /\ r \notin kill[r]
    BY <1>2, <1>3, <1>7 DEF LockInv
  <2>2. rows'[r] = Created(r)
    BY <1>7, CommitRows
  <2>3. /\ Created(r) # None /\ Created(r).user = call[r].user
        /\ Created(r).hash = r /\ Created(r).revoked = FALSE
    BY <1>1, <1>7, CreatedRow, NoneAssumption
  <2>4. LedgerState' = [Ledger!Ended(E) EXCEPT ![r] = "live"]
    <3>1. LedgerState'[r] = "live"
      BY <2>2, <2>3 DEF LedgerState
    <3>2. \A s \in Requests \ {r} :
            LedgerState'[s] = IF s \in E THEN "ended" ELSE LedgerState[s]
      BY <1>3, CommitMap
    <3>3. /\ DOMAIN LedgerState' = Requests
          /\ LedgerState' = [s \in Requests |-> LedgerState'[s]]
      BY DEF LedgerState
    <3> QED BY <3>1, <3>2, <3>3 DEF Ledger!Ended
  <2>5. LedgerOwner' = [LedgerOwner EXCEPT ![r] = call[r].user]
    <3>1. LedgerOwner'[r] = call[r].user
      BY <2>2, <2>3 DEF LedgerOwner
    <3>2. \A s \in Requests \ {r} : LedgerOwner'[s] = LedgerOwner[s]
      BY CommitMap
    <3>3. /\ LedgerOwner' = [s \in Requests |-> LedgerOwner'[s]]
          /\ LedgerOwner = [s \in Requests |-> LedgerOwner[s]]
      BY DEF LedgerOwner
    <3> QED BY <3>1, <3>2, <3>3
  <2>6. LedgerToken' = [LedgerToken EXCEPT ![r] = r]
    <3>1. LedgerToken'[r] = r
      BY <2>2, <2>3 DEF LedgerToken
    <3>2. \A s \in Requests \ {r} : LedgerToken'[s] = LedgerToken[s]
      BY <2>1, CommitMap
    <3>3. /\ LedgerToken' = [s \in Requests |-> LedgerToken'[s]]
          /\ LedgerToken = [s \in Requests |-> LedgerToken[s]]
      BY DEF LedgerToken
    <3> QED BY <3>1, <3>2, <3>3
  <2>7. \A e \in E : LedgerOwner[e] = call[r].user
    BY <1>3, <1>7 DEF LockInv, LedgerOwner
  <2>8. \A e, f \in E : e = f
    BY <1>1, <1>7, NoneAssumption DEF LockInv
  <2>9. LedgerSpent' = LedgerSpent \cup {r}
    BY <1>5, <1>7 DEF Writers
  <2>10. Ledger!Open(r, call[r].user, r, E)
    BY <1>2, <1>4, <1>6, <2>4, <2>5, <2>6, <2>7, <2>8, <2>9 DEF Ledger!Open
  <2>11. call[r].user \in Users
    BY <1>1, <1>7 DEF Calls
  <2> QED BY <1>4, <1>6, <2>10, <2>11 DEF Ledger!Next
<1>8. CASE call[r].op = "rotate"
  <2>1. kill[r] = {}
    BY <1>8 DEF LockInv
  <2>2. PICK s \in put[r] : put[r] = {s}
    BY <1>1, <1>8 DEF LockInv
  <2>3. s \in Requests /\ LedgerState[s] # "none"
    BY DEF LockInv, Stored, LedgerState
  <2>4. /\ \A q \in Requests : /\ LedgerState'[q] = LedgerState[q]
                               /\ LedgerOwner'[q] = LedgerOwner[q]
                               /\ LedgerToken'[q] = IF q = s THEN r ELSE LedgerToken[q]
    BY <1>8, <2>1, <2>2, CommitMap
  <2>5. UNCHANGED <<LedgerState, LedgerOwner>>
    BY <2>4 DEF LedgerState, LedgerOwner
  <2>6. LedgerToken' = [LedgerToken EXCEPT ![s] = r]
    <3>1. /\ LedgerToken' = [q \in Requests |-> LedgerToken'[q]]
          /\ LedgerToken = [q \in Requests |-> LedgerToken[q]]
      BY DEF LedgerToken
    <3> QED BY <2>3, <2>4, <3>1
  <2>7. LedgerSpent' = LedgerSpent \cup {r}
    BY <1>5, <1>8 DEF Writers
  <2>8. Ledger!Roll(s, r)
    BY <1>6, <2>3, <2>5, <2>6, <2>7 DEF Ledger!Roll
  <2> QED BY <1>6, <2>3, <2>8 DEF Ledger!Next
<1>9. CASE call[r].op \notin Writers
  <2>1. put[r] = {} /\ call[r].op # "create"
    BY <1>9 DEF LockInv, Writers
  <2>2. \A q \in Requests : /\ LedgerState'[q] = IF q \in E THEN "ended" ELSE LedgerState[q]
                            /\ LedgerOwner'[q] = LedgerOwner[q]
                            /\ LedgerToken'[q] = LedgerToken[q]
    BY <1>3, <2>1, CommitMap
  <2>3. LedgerState' = Ledger!Ended(E)
    <3>1. LedgerState' = [q \in Requests |-> LedgerState'[q]]
      BY DEF LedgerState
    <3> QED BY <2>2, <3>1 DEF Ledger!Ended
  <2>4. LedgerOwner' = LedgerOwner /\ LedgerToken' = LedgerToken
    <3>1. /\ LedgerToken' = [q \in Requests |-> LedgerToken'[q]]
          /\ LedgerToken = [q \in Requests |-> LedgerToken[q]]
          /\ LedgerOwner' = [q \in Requests |-> LedgerOwner'[q]]
          /\ LedgerOwner = [q \in Requests |-> LedgerOwner[q]]
      BY DEF LedgerToken, LedgerOwner
    <3> QED BY <2>2, <3>1
  <2>5. ASSUME NEW e \in E, NEW f \in E
        PROVE  LedgerOwner[e] = LedgerOwner[f]
    <3>1. call[r].op = "revoke_all" \/ e = f
      BY <1>1, NoneAssumption DEF LockInv
    <3>2. CASE call[r].op = "revoke_all"
      BY <1>3, <3>2 DEF LockInv, LedgerOwner
    <3> QED BY <3>1, <3>2
  <2>6. LedgerSpent' = LedgerSpent
    BY <1>5, <1>9
  <2>7. Ledger!End(E)
    BY <1>4, <2>3, <2>4, <2>5, <2>6 DEF Ledger!End
  <2> QED BY <1>4, <2>7 DEF Ledger!Next
<1> QED BY <1>7, <1>8, <1>9 DEF Writers

(* Every behaviour of the service, looked at when transactions commit, is a *)
(* behaviour of the session ledger.                                         *)
THEOREM Refinement == Spec => ImplementsLedger
<1>1. ASSUME Init PROVE Ledger!Init
  <2>1. \A s \in Requests : LedgerState[s] = "none" /\ LedgerOwner[s] = None /\ LedgerToken[s] = None
    BY <1>1 DEF Init, LedgerState, LedgerOwner, LedgerToken
  <2>2. /\ LedgerState \in [Requests -> {"none", "live"}]
        /\ LedgerOwner \in [Requests -> Users \cup {None}]
        /\ LedgerToken \in [Requests -> Requests \cup {None}]
    BY <1>1 DEF Init, LedgerState, LedgerOwner, LedgerToken
  <2>3. Ledger!Live = {} /\ LedgerSpent = {}
    BY <1>1, <2>1 DEF Init, Ledger!Live, LedgerSpent
  <2> QED
    BY <2>1, <2>2, <2>3 DEF Ledger!Init
<1>2. IInv /\ [Next]_vars => [Ledger!Next]_(Ledger!ledger)
  BY QuietStep, CommitIsLedgerStep DEF Ledger!ledger
<1> QED BY <1>1, <1>2, Inductive, PTL DEF Spec, ImplementsLedger, Ledger!Spec
==============================================================================
