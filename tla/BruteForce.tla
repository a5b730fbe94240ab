------------------------------ MODULE BruteForce ------------------------------
(***************************************************************************)
(* auth-service: the lockout of login.  Two Redis counters per attempt,    *)
(* one for the address and one for the client IP, are read before the      *)
(* password is verified and incremented after it has failed, in separate   *)
(* round trips with nothing held in between.  Every error of Redis is      *)
(* swallowed and the login goes on.                                        *)
(***************************************************************************)
EXTENDS Naturals, FiniteSets

CONSTANTS
  Requests,   \* logins received
  Emails,     \* addresses
  Ips,        \* client addresses
  Max,        \* brute_force_max_attempts
  Tolerance,  \* the limit of an IP is Max * Tolerance (3 in the code)
  Asks,       \* bound: Asks[r] holds the attempts login r may be
  MaxLost,    \* bound: calls that fail
  None        \* no attempt

Keys == Emails \cup Ips
Attempts == [email : Emails, ip : Ips, result : {"right", "wrong", "no_credential", "no_profile"}]

ASSUME LimitAssumption == Max \in Nat \ {0} /\ Tolerance \in Nat \ {0}
ASSUME AsksAssumption == Asks \in [Requests -> SUBSET Attempts]
ASSUME KeysAssumption == Emails \cap Ips = {} /\ None \notin Attempts
ASSUME BoundsAssumption == IsFiniteSet(Requests) /\ MaxLost \in Nat

VARIABLES
  count,    \* count[k]: the counter of key k; 0 when Redis has no key
  volatile, \* keys that have a time to live
  pc,       \* pc[r]: next step of login r
  call,     \* call[r]: its address, its IP and what checking it will find
  failed,   \* failed[r]: failed_attempts, as read before the reset
  lost,     \* failures so far
  group,    \* history, group[k]: how many were past the check of k when one last passed it
  erased,   \* history, erased[r]: the count that the reset of r deleted
  missed    \* history, missed[r]: a failure was recorded between its read and its reset

vars == <<count, volatile, pc, call, failed, lost, group, erased, missed>>
history == <<group, erased, missed>>

------------------------------------------------------------------------------
Open == {"check_email", "check_ip", "verify", "record", "read", "reset", "session"}
Over == {"locked", "refused", "done", "alerted"}

Go(r, step) == pc' = [pc EXCEPT ![r] = step]
Lose == lost < MaxLost /\ lost' = lost + 1
KeysOf(r) == {call[r].email, call[r].ip}

(* Logins that have passed the check of key k and may yet record a failure. *)
Past(k) == IF k \in Emails THEN {"check_ip", "verify", "record"} ELSE {"verify", "record"}
Inside(k) == {r \in Requests : pc[r] \in Past(k) /\ k \in KeysOf(r)}

Init ==
  /\ count = [k \in Keys |-> 0]
  /\ volatile = {}
  /\ pc = [r \in Requests |-> "idle"]
  /\ call = [r \in Requests |-> None]
  /\ failed = [r \in Requests |-> 0]
  /\ lost = 0
  /\ group = [k \in Keys |-> 0]
  /\ erased = [r \in Requests |-> 0]
  /\ missed = [r \in Requests |-> FALSE]

Receive(r, c) ==
  /\ pc[r] = "idle"
  /\ call' = [call EXCEPT ![r] = c]
  /\ Go(r, "check_email")
  /\ UNCHANGED <<count, volatile, failed, lost, history>>

------------------------------------------------------------------------------
(* check_brute_force *)

Limit(k) == IF k \in Emails THEN Max ELSE Max * Tolerance

(* Mutation: the limit is compared before the failure it would count. *)
Locked_OffByOne(k) == count[k] > Limit(k)

Locked(k) == count[k] >= Limit(k)

Enter(r, k, next) ==
  /\ Go(r, next)
  /\ group' = [group EXCEPT ![k] = Cardinality(Inside(k) \cup {r})]

(* An unreadable counter lets the login pass, past both checks. *)
CheckEmail(r) ==
  LET k == call[r].email IN
  /\ pc[r] = "check_email"
  /\ \/ Locked(k) /\ Go(r, "locked") /\ UNCHANGED <<lost, group>>
     \/ ~Locked(k) /\ Enter(r, k, "check_ip") /\ UNCHANGED lost
     \/ Lose /\ Enter(r, k, "verify")
  /\ UNCHANGED <<count, volatile, call, failed, erased, missed>>

CheckIp(r) ==
  LET k == call[r].ip IN
  /\ pc[r] = "check_ip"
  /\ \/ Locked(k) /\ Go(r, "locked") /\ UNCHANGED <<lost, group>>
     \/ ~Locked(k) /\ Enter(r, k, "verify") /\ UNCHANGED lost
     \/ Lose /\ Enter(r, k, "verify")
  /\ UNCHANGED <<count, volatile, call, failed, erased, missed>>

------------------------------------------------------------------------------
(* The rest of login *)

(* An unknown address is refused by _get_user_by_email: nothing is recorded. *)
Verify(r) ==
  /\ pc[r] = "verify"
  /\ Go(r, CASE call[r].result = "right" -> "read"
             [] call[r].result = "no_profile" -> "refused"
             [] OTHER -> "record")
  /\ UNCHANGED <<count, volatile, call, failed, lost, history>>

(* Mutation: the keys are incremented and given no time to live. *)
Expiring_Never(r) == UNCHANGED volatile

Expiring(r) == volatile' = volatile \cup KeysOf(r)

(* record_failed_attempt: INCR and EXPIRE of both keys in one transaction.  *)
RecordFailure(r) ==
  /\ pc[r] = "record"
  /\ \/ /\ count' = [k \in Keys |-> IF k \in KeysOf(r) THEN count[k] + 1 ELSE count[k]]
        /\ Expiring(r)
        /\ missed' = [q \in Requests |->
                        missed[q] \/ (pc[q] = "reset" /\ call[q].email = call[r].email)]
        /\ UNCHANGED lost
     \/ Lose /\ UNCHANGED <<count, volatile, missed>>
  /\ Go(r, "refused")
  /\ UNCHANGED <<call, failed, group, erased>>

(* Mutation: the counter is read after the reset. *)
FailedAttempts_AfterReset(r) == 0

FailedAttempts(r) == count[call[r].email]

(* get_failed_attempts_count; 0 when Redis does not answer. *)
ReadCount(r) ==
  /\ pc[r] = "read"
  /\ \/ failed' = [failed EXCEPT ![r] = FailedAttempts(r)] /\ UNCHANGED lost
     \/ Lose /\ UNCHANGED failed
  /\ Go(r, "reset")
  /\ UNCHANGED <<count, volatile, call, history>>

(* Mutation: the failures read before are subtracted. *)
Cleared_Subtracted(r) == [k \in Keys |-> IF k \in KeysOf(r) THEN count[k] - Max ELSE count[k]]

Cleared(r) == [k \in Keys |-> IF k \in KeysOf(r) THEN 0 ELSE count[k]]

(* reset_brute_force: DEL of both keys. *)
Reset(r) ==
  /\ pc[r] = "reset"
  /\ \/ /\ count' = Cleared(r)
        /\ volatile' = volatile \ KeysOf(r)
        /\ erased' = [erased EXCEPT ![r] = count[call[r].email]]
        /\ UNCHANGED lost
     \/ Lose /\ UNCHANGED <<count, volatile, erased>>
  /\ Go(r, "session")
  /\ UNCHANGED <<call, failed, group, missed>>

NearLockout(n) == n >= Max - 1

(* Tokens, session, and auth.suspicious when the count that was read asks   *)
(* for it; an error of token-service ends the login after its reset.        *)
Finish(r) ==
  /\ pc[r] = "session"
  /\ \/ Go(r, IF NearLockout(failed[r]) THEN "alerted" ELSE "done") /\ UNCHANGED lost
     \/ Lose /\ Go(r, "refused")
  /\ UNCHANGED <<count, volatile, call, failed, history>>

ExpireKey(k) ==
  /\ k \in volatile
  /\ count' = [count EXCEPT ![k] = 0]
  /\ volatile' = volatile \ {k}
  /\ UNCHANGED <<pc, call, failed, lost, history>>

Proceed(r) ==
  \/ CheckEmail(r) \/ CheckIp(r) \/ Verify(r) \/ RecordFailure(r)
  \/ ReadCount(r) \/ Reset(r) \/ Finish(r)

Next ==
  \/ \E r \in Requests : \E c \in Asks[r] : Receive(r, c)
  \/ \E r \in Requests : Proceed(r)
  \/ \E k \in Keys : ExpireKey(k)

Spec == Init /\ [][Next]_vars
FairSpec == Spec /\ \A k \in Keys : WF_vars(ExpireKey(k))

------------------------------------------------------------------------------
(* Properties *)

TypeOK ==
  /\ count \in [Keys -> Nat]
  /\ volatile \subseteq Keys
  /\ pc \in [Requests -> Open \cup Over \cup {"idle"}]
  /\ call \in [Requests -> Attempts \cup {None}]
  /\ failed \in [Requests -> Nat]
  /\ lost \in 0..MaxLost
  /\ group \in [Keys -> Nat]
  /\ erased \in [Requests -> Nat]
  /\ missed \in [Requests -> BOOLEAN]

(* "After max_attempts failures on the account -> lockout".  The check and  *)
(* the increment are separate, so overlapping logins overshoot: while Redis *)
(* answers, a counter stays below its limit plus the number of logins that  *)
(* were past the check together.                                            *)
LockoutSlack ==
  lost = 0 => \A k \in Keys : count[k] < Limit(k) + group[k]

(* "Must be called BEFORE reset_brute_force() so the caller can decide      *)
(* whether a successful login follows prior failures": while Redis answers, *)
(* the login that erases a count near the lockout alerts, whatever other    *)
(* logins do to the counter, unless a failure was recorded after its read.  *)
NearLockoutSeen ==
  \A r \in Requests :
    lost = 0 /\ pc[r] = "done" /\ NearLockout(erased[r]) => missed[r]

(* A lockout ends by itself: no interleaving of failures, resets and        *)
(* expiries leaves a counter at its limit in a key without a time to live.  *)
LockoutEnds ==
  \A k \in Keys : Locked(k) ~> ~Locked(k)
==============================================================================
