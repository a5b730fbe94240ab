---------------------------- MODULE SessionStore -----------------------------
(***************************************************************************)
(* session-service: the requests of SessionService over the table          *)
(* "sessions", one transaction per request, at PostgreSQL's default        *)
(* isolation level (Read Committed).                                       *)
(*                                                                         *)
(*   - a SELECT reads the committed table;                                 *)
(*   - an UPDATE waits for the lock of each row it changes and evaluates   *)
(*     its WHERE clause again once it holds it; the change is a column     *)
(*     update that becomes visible at commit;                              *)
(*   - get_db commits after the endpoint has returned, so a caller may     *)
(*     hold the answer of a request whose transaction is still open.       *)
(*                                                                         *)
(* A request carries at most one new refresh token, and creates at most    *)
(* one session: both are named by the request.                             *)
(***************************************************************************)
EXTENDS Naturals, FiniteSets

CONSTANTS
  Requests,  \* requests received in the life of the service
  Users,     \* user ids
  Limit,     \* settings.max_sessions_per_user
  Asks,      \* bound: Asks[r] holds the pairs <<endpoint, user>> request r may be
  MaxFailed, \* bound: requests that fail
  MaxExpired,\* bound: sessions expired at a time
  None       \* the absent row, user, token, ...

Row == [user : Users, hash : Requests, revoked : BOOLEAN, expired : BOOLEAN]

Calls ==
       [op : {"create", "revoke_all"}, user : Users, arg : {None}]
  \cup [op : {"validate", "revoke", "rotate"}, user : {None}, arg : Requests]
  \cup [op : {"revoke_by_id"}, user : Users, arg : Requests]

ASSUME LimitAssumption == Limit \in Nat \ {0}
ASSUME NoneAssumption == None \notin Requests \cup Users \cup Row \cup Calls
ASSUME FiniteAssumption == IsFiniteSet(Requests)

VARIABLES
  rows,      \* rows[s]: the committed row of session s, or None
  pc,        \* pc[r]: what request r does next
  call,      \* call[r]: the endpoint called and its arguments
  victim,    \* victim[r]: the session the last SELECT of r returned
  targets,   \* targets[r]: rows matched by the snapshot of revoke_all_by_user
  swept,     \* swept[r]: rows of targets[r] already handled
  kill,      \* kill[r]: locked rows on which r set is_revoked, uncommitted
  put,       \* put[r]: locked rows in which r wrote its token hash, uncommitted
  born,      \* born[s]: rank of created_at of session s, 0 before the INSERT
  reply,     \* reply[r]: what the caller of r has been told
  slack      \* slack[u]: history, see DeviceLimit

vars == <<rows, pc, call, victim, targets, swept, kill, put, born, reply, slack>>
request == <<victim, targets, swept, kill, put, born>>

------------------------------------------------------------------------------
Writers == {"create", "rotate"}   \* the endpoints that bring a token hash

Open == {"begin", "evict", "kill", "insert", "update", "sweep", "answered"}
Finished == {"read", "committed", "failed"}

Stored == {s \in Requests : rows[s] # None}
Active == {s \in Stored : ~rows[s].revoked /\ ~rows[s].expired}
ActiveOf(u) == {s \in Active : rows[s].user = u}
ByHash(t) == {s \in Stored : rows[s].hash = t}
Usable(t) == ByHash(t) \cap Active # {}

Held(r) == kill[r] \cup put[r]
Free(s, r) == \A q \in Requests \ {r} : s \notin Held(q)

Go(r, next) == pc' = [pc EXCEPT ![r] = next]
Tell(r, answer) == reply' = [reply EXCEPT ![r] = answer]

Init ==
  /\ rows = [s \in Requests |-> None]
  /\ pc = [r \in Requests |-> "idle"]
  /\ call = [r \in Requests |-> None]
  /\ victim = [r \in Requests |-> None]
  /\ targets = [r \in Requests |-> {}]
  /\ swept = [r \in Requests |-> {}]
  /\ kill = [r \in Requests |-> {}]
  /\ put = [r \in Requests |-> {}]
  /\ born = [r \in Requests |-> 0]
  /\ reply = [r \in Requests |-> "none"]
  /\ slack = [u \in Users |-> 0]

(* What a caller can name.  auth-service hands out a refresh token once the *)
(* request that brought its hash was answered, whatever the answer was; a   *)
(* session id may be any string, so also that of a row that never appears.  *)
Named(c) ==
  c.arg # None =>
    /\ pc[c.arg] # "idle"
    /\ \/ c.op = "revoke_by_id" /\ call[c.arg].op = "create"
       \/ c.op # "revoke_by_id" /\ call[c.arg].op \in Writers /\ reply[c.arg] # "none"

Receive(r, c) ==
  /\ pc[r] = "idle"
  /\ Named(c)
  /\ call' = [call EXCEPT ![r] = c]
  /\ Go(r, "begin")
  /\ UNCHANGED <<rows, request, reply, slack>>

------------------------------------------------------------------------------
(* create_session *)

Creating(q, u) ==
  /\ pc[q] \in {"evict", "kill", "insert", "answered"}
  /\ call[q].op = "create" /\ call[q].user = u

(* Mutation: the limit is compared after the INSERT. *)
LimitReached_OffByOne(u) == Cardinality(ActiveOf(u)) > Limit

LimitReached(u) == Cardinality(ActiveOf(u)) >= Limit

CountActive(r) ==
  /\ pc[r] = "begin" /\ call[r].op = "create"
  /\ LET u == call[r].user IN
       /\ Go(r, IF LimitReached(u) THEN "evict" ELSE "insert")
       /\ slack' = [slack EXCEPT ![u] =
                      IF \E q \in Requests \ {r} : Creating(q, u) THEN @ + 1 ELSE @]
  /\ UNCHANGED <<rows, call, request, reply>>

Oldest(s, A) == s \in A /\ \A q \in A : born[s] <= born[q]

FindOldest(r) ==
  /\ pc[r] = "evict"
  /\ \/ ActiveOf(call[r].user) = {} /\ Go(r, "insert") /\ UNCHANGED victim
     \/ \E s \in ActiveOf(call[r].user) :
          /\ Oldest(s, ActiveOf(call[r].user))
          /\ victim' = [victim EXCEPT ![r] = s]
          /\ Go(r, "kill")
  /\ UNCHANGED <<rows, call, targets, swept, kill, put, born, reply, slack>>

Insert(r) ==
  /\ pc[r] = "insert"
  /\ born' = [born EXCEPT ![r] = 1 + Cardinality({s \in Requests : born[s] # 0})]
  /\ Go(r, "answered")
  /\ Tell(r, "ok")
  /\ UNCHANGED <<rows, call, victim, targets, swept, kill, put, slack>>

------------------------------------------------------------------------------
(* validate_session, and the three revocations *)

Validate(r) ==
  /\ pc[r] = "begin" /\ call[r].op = "validate"
  /\ Tell(r, IF Usable(call[r].arg) THEN "ok" ELSE "refused")
  /\ Go(r, "read")
  /\ UNCHANGED <<rows, call, request, slack>>

RevokeByToken(r) ==
  /\ pc[r] = "begin" /\ call[r].op = "revoke"
  /\ \A s \in ByHash(call[r].arg) : Free(s, r)
  /\ kill' = [kill EXCEPT ![r] = ByHash(call[r].arg)]
  /\ Go(r, "answered")
  /\ Tell(r, "ok")
  /\ UNCHANGED <<rows, call, victim, targets, swept, put, born, slack>>

(* Mutation: the 403 check is missing. *)
OwnedBy_AnyUser(s, u) == s \in Stored

OwnedBy(s, u) == s \in Stored /\ rows[s].user = u

LookupById(r) ==
  /\ pc[r] = "begin" /\ call[r].op = "revoke_by_id"
  /\ IF OwnedBy(call[r].arg, call[r].user)
       THEN /\ victim' = [victim EXCEPT ![r] = call[r].arg]
            /\ Go(r, "kill")
            /\ UNCHANGED reply
       ELSE Go(r, "read") /\ Tell(r, "refused") /\ UNCHANGED victim
  /\ UNCHANGED <<rows, call, targets, swept, kill, put, born, slack>>

RevokeRow(r) ==
  /\ pc[r] = "kill"
  /\ Free(victim[r], r)
  /\ kill' = [kill EXCEPT ![r] = {victim[r]}]
  /\ victim' = [victim EXCEPT ![r] = None]
  /\ \/ call[r].op = "create" /\ Go(r, "insert") /\ UNCHANGED reply
     \/ call[r].op = "revoke_by_id" /\ Go(r, "answered") /\ Tell(r, "ok")
  /\ UNCHANGED <<rows, call, targets, swept, put, born, slack>>

MatchForRevokeAll(r) ==
  /\ pc[r] = "begin" /\ call[r].op = "revoke_all"
  /\ targets' = [targets EXCEPT ![r] =
                   {s \in Stored : rows[s].user = call[r].user /\ ~rows[s].revoked}]
  /\ Go(r, "sweep")
  /\ UNCHANGED <<rows, call, victim, swept, kill, put, born, reply, slack>>

(* Mutation: a row that is locked is skipped. *)
SweepRow_SkipLocked(r, s) ==
  /\ pc[r] = "sweep" /\ s \in targets[r] \ swept[r]
  /\ swept' = [swept EXCEPT ![r] = @ \cup {s}]
  /\ kill' = [kill EXCEPT ![r] = IF Free(s, r) THEN @ \cup {s} ELSE @]
  /\ UNCHANGED <<rows, pc, call, victim, targets, put, born, reply, slack>>

SweepRow(r, s) ==
  /\ pc[r] = "sweep" /\ s \in targets[r] \ swept[r]
  /\ Free(s, r)
  /\ swept' = [swept EXCEPT ![r] = @ \cup {s}]
  /\ kill' = [kill EXCEPT ![r] = IF rows[s].revoked THEN @ ELSE @ \cup {s}]
  /\ UNCHANGED <<rows, pc, call, victim, targets, put, born, reply, slack>>

SweepDone(r) ==
  /\ pc[r] = "sweep" /\ targets[r] \subseteq swept[r]
  /\ swept' = [swept EXCEPT ![r] = {}]
  /\ Go(r, "answered")
  /\ Tell(r, "ok")
  /\ UNCHANGED <<rows, call, victim, targets, kill, put, born, slack>>

------------------------------------------------------------------------------
(* rotate_session *)

LookupForRotate(r) ==
  /\ pc[r] = "begin" /\ call[r].op = "rotate"
  /\ \/ /\ ~Usable(call[r].arg)
        /\ Go(r, "read") /\ Tell(r, "refused") /\ UNCHANGED victim
     \/ \E s \in ByHash(call[r].arg) \cap Active :
          /\ victim' = [victim EXCEPT ![r] = s]
          /\ Go(r, "update")
          /\ UNCHANGED reply
  /\ UNCHANGED <<rows, call, targets, swept, kill, put, born, slack>>

(* Mutation: a success is answered without the UPDATE. *)
UpdateHash_Forgotten(r) ==
  /\ pc[r] = "update"
  /\ victim' = [victim EXCEPT ![r] = None]
  /\ Go(r, "answered")
  /\ Tell(r, "ok")
  /\ UNCHANGED <<rows, call, targets, swept, kill, put, born, slack>>

UpdateHash(r) ==
  /\ pc[r] = "update"
  /\ Free(victim[r], r)
  /\ put' = [put EXCEPT ![r] = {victim[r]}]
  /\ victim' = [victim EXCEPT ![r] = None]
  /\ Go(r, "answered")
  /\ Tell(r, "ok")
  /\ UNCHANGED <<rows, call, targets, swept, kill, born, slack>>

------------------------------------------------------------------------------
(* The end of the transaction, in get_db, and the clock. *)

(* Mutation: the session is not closed and keeps its row locks. *)
Release_Leak(r) == UNCHANGED <<kill, put>>

Release(r) ==
  /\ kill' = [kill EXCEPT ![r] = {}]
  /\ put' = [put EXCEPT ![r] = {}]

(* Mutation: the fields of the new row are mixed up. *)
Created_NoOwner(r) ==
  [user |-> call[r].arg, hash |-> r, revoked |-> FALSE, expired |-> FALSE]

Created(r) ==
  [user |-> call[r].user, hash |-> r, revoked |-> FALSE, expired |-> FALSE]

(* Mutation: a rotation makes the session active again. *)
Merged_Unrevokes(r, s) ==
  [user |-> rows[s].user,
   hash |-> IF s \in put[r] THEN r ELSE rows[s].hash,
   revoked |-> s \in kill[r],
   expired |-> rows[s].expired /\ s \notin put[r]]

(* Row s once the column updates of r are applied to it. *)
Merged(r, s) ==
  [user |-> rows[s].user,
   hash |-> IF s \in put[r] THEN r ELSE rows[s].hash,
   revoked |-> rows[s].revoked \/ s \in kill[r],
   expired |-> rows[s].expired /\ s \notin put[r]]

Rescued(r) == {s \in put[r] : rows[s].expired}

Commit(r) ==
  /\ pc[r] = "answered"
  /\ rows' = [s \in Requests |->
                IF s = r /\ call[r].op = "create" THEN Created(r)
                ELSE IF s \in Held(r) THEN Merged(r, s)
                ELSE rows[s]]
  /\ slack' = [u \in Users |->
                 slack[u] + Cardinality({s \in Rescued(r) : rows[s].user = u})]
  /\ Release(r)
  /\ Go(r, "committed")
  /\ UNCHANGED <<call, victim, targets, swept, born, reply>>

(* The process dies, the connection drops, or a statement or the COMMIT     *)
(* fails: everything is rolled back.  A caller that was answered stays so.  *)
Rollback(r) ==
  /\ pc[r] \in Open
  /\ Release(r)
  /\ Go(r, "failed")
  /\ Tell(r, IF reply[r] = "none" THEN "error" ELSE reply[r])
  /\ victim' = [victim EXCEPT ![r] = None]
  /\ targets' = [targets EXCEPT ![r] = {}]
  /\ swept' = [swept EXCEPT ![r] = {}]
  /\ UNCHANGED <<rows, call, born, slack>>

(* Rows r cannot go on without. *)
Awaited(r) ==
  CASE pc[r] \in {"kill", "update"} -> {victim[r]}
    [] pc[r] = "sweep" -> targets[r] \ swept[r]
    [] OTHER -> {}

Blocked(r) == Awaited(r) # {} /\ \A s \in Awaited(r) : ~Free(s, r)

(* PostgreSQL's deadlock detector cancels a statement of a waiting cycle.   *)
Deadlocked(r) ==
  /\ Blocked(r)
  /\ \E S \in SUBSET {q \in Requests : Blocked(q)} :
       /\ r \in S
       /\ \A q \in S : \E p \in S \ {q} : Awaited(q) \cap Held(p) # {}

CancelDeadlock(r) == Deadlocked(r) /\ Rollback(r)

Abort(r) ==
  /\ Cardinality({q \in Requests : pc[q] = "failed"}) < MaxFailed
  /\ Rollback(r)

Lapsed(s) ==
  [user |-> rows[s].user, hash |-> rows[s].hash,
   revoked |-> rows[s].revoked, expired |-> TRUE]

Expire(s) ==
  /\ s \in Stored /\ ~rows[s].expired
  /\ Cardinality({q \in Stored : rows[q].expired}) < MaxExpired
  /\ rows' = [rows EXCEPT ![s] = Lapsed(s)]
  /\ UNCHANGED <<pc, call, request, reply, slack>>

Proceed(r) ==
  \/ CountActive(r) \/ FindOldest(r) \/ Insert(r)
  \/ Validate(r) \/ RevokeByToken(r) \/ LookupById(r) \/ RevokeRow(r)
  \/ MatchForRevokeAll(r) \/ SweepDone(r)
  \/ \E s \in Requests : SweepRow(r, s)
  \/ LookupForRotate(r) \/ UpdateHash(r)
  \/ Commit(r) \/ CancelDeadlock(r)

Next ==
  \/ \E r \in Requests : \E c \in {d \in Calls : <<d.op, d.user>> \in Asks[r]} :
       Receive(r, c)
  \/ \E r \in Requests : Proceed(r) \/ Abort(r)
  \/ \E s \in Requests : Expire(s)

Spec == Init /\ [][Next]_vars
FairSpec == Spec /\ \A r \in Requests : WF_vars(Proceed(r))

------------------------------------------------------------------------------
(* Properties *)

TypeOK ==
  /\ rows \in [Requests -> Row \cup {None}]
  /\ pc \in [Requests -> Open \cup Finished \cup {"idle"}]
  /\ call \in [Requests -> Calls \cup {None}]
  /\ victim \in [Requests -> Requests \cup {None}]
  /\ targets \in [Requests -> SUBSET Requests]
  /\ swept \in [Requests -> SUBSET Requests]
  /\ kill \in [Requests -> SUBSET Requests]
  /\ put \in [Requests -> SUBSET Requests]
  /\ born \in [Requests -> Nat]
  /\ reply \in [Requests -> {"none", "ok", "refused", "error"}]
  /\ slack \in [Users -> Nat]

(* The unique index on refresh_token_hash is never what stops a request: no *)
(* interleaving of creations and rotations gives one hash to two rows.      *)
HashUnique ==
  \A s, t \in Stored : rows[s].hash = rows[t].hash => s = t

(* "Disconnect all devices": when revoke_all_sessions has committed, every  *)
(* session its UPDATE matched is revoked, whatever rotations and            *)
(* revocations it had to wait for row by row.                               *)
SweepComplete ==
  \A r \in Requests : pc[r] = "committed" =>
    \A s \in targets[r] : rows[s].revoked

(* The device limit of create_session.  Nothing locks the user between the  *)
(* count and the INSERT: each creation that counts while another one of the *)
(* same user is in flight may leave one session too many, and so may a      *)
(* rotation that revives a session which expired after its check.  The      *)
(* limit is never exceeded by more than the number of these events.         *)
DeviceLimit ==
  \A u \in Users : Cardinality(ActiveOf(u)) <= Limit + slack[u]

(* Rule of SessionService: "Rotation invalidates the old token".  A         *)
(* rotation or validation never accepts a token for which an earlier        *)
(* rotation has committed.                                                  *)
Accepts(r) ==
  \/ pc[r] = "begin" /\ pc'[r] = "update"
  \/ call[r].op = "validate" /\ pc[r] = "begin" /\ reply'[r] = "ok"

RotatedTokenRefused ==
  [][\A r \in Requests : pc[r] # "idle" /\ Accepts(r) =>
       ~\E q \in Requests : /\ pc[q] = "committed" /\ call[q].op = "rotate"
                            /\ call[q].arg = call[r].arg]_vars

(* A session is revoked only by a request made for its owner, or by one     *)
(* that presents the refresh token the session answers to at that moment.   *)
EndedByOwner ==
  [][\A s \in Stored : ~rows[s].revoked /\ rows'[s].revoked =>
       \E r \in Requests :
         /\ pc[r] = "answered" /\ pc'[r] = "committed"
         /\ \/ call[r].user = rows[s].user
            \/ call[r].op = "revoke" /\ call[r].arg = rows[s].hash]_vars

(* Every request ends, even those that wait for each other's row locks.     *)
EveryRequestEnds ==
  \A r \in Requests : (pc[r] = "begin") ~> (pc[r] \in Finished)

(* The table, seen at its commits, is a session ledger: every transaction   *)
(* has the effect of one atomic operation, although its check and its write *)
(* are separate statements.                                                 *)
LedgerState == [s \in Requests |-> IF rows[s] = None THEN "none"
                                   ELSE IF rows[s].revoked THEN "ended" ELSE "live"]
LedgerOwner == [s \in Requests |-> IF rows[s] = None THEN None ELSE rows[s].user]
LedgerToken == [s \in Requests |-> IF rows[s] = None THEN None ELSE rows[s].hash]
LedgerSpent == {r \in Requests : pc[r] = "committed" /\ call[r].op \in Writers}

Ledger == INSTANCE SessionLedger WITH
  Sessions <- Requests, Tokens <- Requests,
  state <- LedgerState, owner <- LedgerOwner, token <- LedgerToken, spent <- LedgerSpent

ImplementsLedger == Ledger!Spec

(* README section 6: "Refresh tokens are single-use".  Checked as a         *)
(* documented promise, which concurrent rotations break.                    *)
SingleUse ==
  \A r, q \in Requests :
    /\ pc[r] # "idle" /\ call[r].op = "rotate" /\ reply[r] = "ok"
    /\ pc[q] # "idle" /\ call[q].op = "rotate" /\ reply[q] = "ok"
    /\ call[r].arg = call[q].arg
    => r = q
==============================================================================
