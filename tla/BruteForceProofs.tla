---------------------------- MODULE BruteForceProofs ---------------------------
(* Proofs about BruteForce for any finite set of logins, any addresses and  *)
(* any limits.                                                              *)
EXTENDS BruteForce, FiniteSetTheorems, TLAPS

(* A login that was received has an attempt. *)
CallsKnown == \A r \in Requests : pc[r] # "idle" => call[r] \in Attempts
Typed == TypeOK /\ CallsKnown

(* LockoutSlack, with the failures that the logins inside may yet record.   *)
Slack(k) ==
  /\ Cardinality(Inside(k)) <= group[k]
  /\ count[k] + Cardinality(Inside(k)) < Limit(k) + group[k]
AllSlack == lost = 0 => \A k \in Keys : Slack(k)

(* NearLockoutSeen from the read on: what the reset erases is no more than  *)
(* what was read, or a failure in between was noted.                        *)
Seen(r) ==
  /\ pc[r] = "reset" => count[call[r].email] <= failed[r] \/ missed[r]
  /\ pc[r] = "session" => erased[r] <= failed[r] \/ missed[r]
  /\ pc[r] = "done" /\ NearLockout(erased[r]) => missed[r]
AllSeen == lost = 0 => \A r \in Requests : Seen(r)

------------------------------------------------------------------------------
(* Operators *)

(* Every key allows at least one failure. *)
LEMMA LimitPositive == \A k \in Keys : Limit(k) \in Nat \ {0}
<1>1. Max * Tolerance \in Nat \ {0}
  BY LimitAssumption
<1> QED
  BY <1>1, LimitAssumption DEF Limit

(* The failures inside a window are finitely many. *)
LEMMA InsideFinite ==
  ASSUME NEW k
  PROVE  IsFiniteSet(Inside(k)) /\ Cardinality(Inside(k)) \in Nat
<1>1. Inside(k) \subseteq Requests
  BY DEF Inside
<1> QED
  BY <1>1, BoundsAssumption, FS_Subset, FS_CardinalityType

(* The keys of a login, and which of its steps are inside which key. *)
LEMMA KeysOfCall ==
  ASSUME Typed, NEW r \in Requests, pc[r] # "idle"
  PROVE  /\ call[r].email \in Emails /\ call[r].ip \in Ips
         /\ call[r].ip \notin Emails
         /\ KeysOf(r) \subseteq Keys
<1>1. call[r] \in Attempts
  BY DEF Typed, CallsKnown
<1> QED
  BY <1>1, KeysAssumption DEF Attempts, KeysOf, Keys

------------------------------------------------------------------------------
(* Types *)

(* At the start the types hold, ... *)
LEMMA InitTyped == Init => Typed
<1> SUFFICES ASSUME Init PROVE Typed
  OBVIOUS
<1>1. lost \in 0..MaxLost
  BY BoundsAssumption DEF Init
<1> QED
  BY <1>1 DEF Init, Typed, TypeOK, CallsKnown

(* A login takes a step from a step it was sent to. *)
LEMMA TypedStep == Typed /\ [Next]_vars => Typed'
<1> SUFFICES ASSUME Typed, [Next]_vars PROVE Typed'
  OBVIOUS
<1> USE BoundsAssumption DEF Typed, TypeOK, CallsKnown, Open, Over, Go, Lose, history
<1>1. ASSUME NEW r \in Requests, NEW c \in Asks[r], Receive(r, c) PROVE Typed'
  <2>1. c \in Attempts
    BY AsksAssumption
  <2> QED
    BY <1>1, <2>1 DEF Receive
<1>2. ASSUME NEW r \in Requests, CheckEmail(r) PROVE Typed'
  <2>1. group' \in [Keys -> Nat]
    <3>1. Cardinality(Inside(call[r].email) \cup {r}) \in Nat
      BY InsideFinite, FS_AddElement, FS_CardinalityType
    <3> QED
      BY <1>2, <3>1 DEF CheckEmail, Enter
  <2>2. pc' \in [Requests -> Open \cup Over \cup {"idle"}] /\ lost' \in 0..MaxLost
    BY <1>2 DEF CheckEmail, Enter
  <2>3. CallsKnown'
    BY <1>2 DEF CheckEmail, Enter
  <2> QED
    BY <1>2, <2>1, <2>2, <2>3 DEF CheckEmail, Enter
<1>3. ASSUME NEW r \in Requests, CheckIp(r) PROVE Typed'
  <2>1. group' \in [Keys -> Nat]
    <3>1. Cardinality(Inside(call[r].ip) \cup {r}) \in Nat
      BY InsideFinite, FS_AddElement, FS_CardinalityType
    <3> QED
      BY <1>3, <3>1 DEF CheckIp, Enter
  <2>2. pc' \in [Requests -> Open \cup Over \cup {"idle"}] /\ lost' \in 0..MaxLost
    BY <1>3 DEF CheckIp, Enter
  <2>3. CallsKnown'
    BY <1>3 DEF CheckIp, Enter
  <2> QED
    BY <1>3, <2>1, <2>2, <2>3 DEF CheckIp, Enter
<1>4. ASSUME NEW r \in Requests, Verify(r) PROVE Typed'
  BY <1>4 DEF Verify
<1>5. ASSUME NEW r \in Requests, RecordFailure(r) PROVE Typed'
  <2>1. count' \in [Keys -> Nat]
    BY <1>5 DEF RecordFailure
  <2>5. missed' \in [Requests -> BOOLEAN]
    BY <1>5, Zenon DEF RecordFailure
  <2>2. volatile' \subseteq Keys
    <3>1. pc[r] = "record"
      BY <1>5 DEF RecordFailure
    <3>2. KeysOf(r) \subseteq Keys
      BY <3>1, KeysOfCall
    <3> QED
      BY <1>5, <3>2 DEF RecordFailure, Expiring
  <2>3. pc' \in [Requests -> Open \cup Over \cup {"idle"}]
    BY <1>5 DEF RecordFailure
  <2>4. lost' \in 0..MaxLost
    BY <1>5 DEF RecordFailure
  <2> QED
    BY <1>5, <2>1, <2>2, <2>3, <2>4, <2>5 DEF RecordFailure
<1>6. ASSUME NEW r \in Requests, ReadCount(r) PROVE Typed'
  <2>1. FailedAttempts(r) \in Nat
    <3>1. pc[r] = "read"
      BY <1>6 DEF ReadCount
    <3>2. call[r].email \in Keys
      BY <3>1, KeysOfCall DEF Keys
    <3> QED
      BY <3>2 DEF FailedAttempts
  <2> QED
    BY <1>6, <2>1 DEF ReadCount
<1>7. ASSUME NEW r \in Requests, Reset(r) PROVE Typed'
  <2>1. count[call[r].email] \in Nat
    <3>1. pc[r] = "reset"
      BY <1>7 DEF Reset
    <3>2. call[r].email \in Keys
      BY <3>1, KeysOfCall DEF Keys
    <3> QED
      BY <3>2
  <2>2. count' \in [Keys -> Nat] /\ erased' \in [Requests -> Nat]
    BY <1>7, <2>1 DEF Reset, Cleared
  <2>3. volatile' \subseteq Keys
    BY <1>7 DEF Reset
  <2>4. lost' \in 0..MaxLost
    BY <1>7 DEF Reset
  <2>5. pc' \in [Requests -> Open \cup Over \cup {"idle"}]
    BY <1>7 DEF Reset
  <2> QED
    BY <1>7, <2>2, <2>3, <2>4, <2>5 DEF Reset
<1>8. ASSUME NEW r \in Requests, Finish(r) PROVE Typed'
  BY <1>8 DEF Finish
<1>9. ASSUME NEW k \in Keys, ExpireKey(k) PROVE Typed'
  BY <1>9 DEF ExpireKey
<1>10. CASE UNCHANGED vars
  BY <1>10 DEF vars
<1> QED
  BY <1>1, <1>2, <1>3, <1>4, <1>5, <1>6, <1>7, <1>8, <1>9, <1>10 DEF Next, Proceed

------------------------------------------------------------------------------
(* Slack *)

(* A key keeps its slack when nobody enters and its counter does not grow.  *)
LEMMA SlackKept ==
  ASSUME Typed, Typed', NEW k \in Keys, Slack(k),
         Inside(k)' \subseteq Inside(k), count'[k] <= count[k], group'[k] = group[k]
  PROVE  Slack(k)'
<1>1. Cardinality(Inside(k)') <= Cardinality(Inside(k))
  BY InsideFinite, FS_Subset
<1>2. Cardinality(Inside(k)') \in Nat /\ Cardinality(Inside(k)) \in Nat
  BY InsideFinite, FS_Subset, FS_CardinalityType
<1>3. /\ count[k] \in Nat /\ count'[k] \in Nat
      /\ group[k] \in Nat /\ group'[k] \in Nat /\ Limit(k) \in Nat
  BY LimitPositive DEF Typed, TypeOK
<1>4. Limit(k)' = Limit(k)
  BY DEF Limit
<1> HIDE DEF Inside, Limit
<1> QED
  BY <1>1, <1>2, <1>3, <1>4 DEF Slack

(* A login leaves a key by recording its failure. *)
LEMMA SlackCounted ==
  ASSUME Typed, Typed', NEW k \in Keys, Slack(k), NEW r \in Inside(k),
         Inside(k)' = Inside(k) \ {r}, count'[k] = count[k] + 1, group'[k] = group[k]
  PROVE  Slack(k)'
<1>1. Cardinality(Inside(k)') = Cardinality(Inside(k)) - 1
  BY InsideFinite, FS_RemoveElement
<1>2. Cardinality(Inside(k)) \in Nat
  BY InsideFinite
<1>3. /\ count[k] \in Nat /\ group[k] \in Nat /\ Limit(k) \in Nat
  BY LimitPositive DEF Typed, TypeOK
<1>4. Limit(k)' = Limit(k)
  BY DEF Limit
<1> HIDE DEF Inside, Limit
<1> QED
  BY <1>1, <1>2, <1>3, <1>4 DEF Slack

(* A login enters a key that is not locked. *)
LEMMA SlackEntered ==
  ASSUME Typed, Typed', NEW k \in Keys, NEW r \in Requests, ~Locked(k),
         Inside(k)' = Inside(k) \cup {r}, count'[k] = count[k],
         group'[k] = Cardinality(Inside(k) \cup {r})
  PROVE  Slack(k)'
<1>1. Cardinality(Inside(k)') = group'[k]
  OBVIOUS
<1>2. count[k] \in Nat /\ group'[k] \in Nat /\ Limit(k) \in Nat
  BY LimitPositive DEF Typed, TypeOK
<1>3. count[k] < Limit(k)
  BY <1>2 DEF Locked
<1>4. Limit(k)' = Limit(k)
  BY DEF Limit
<1> HIDE DEF Inside, Limit
<1> QED
  BY <1>1, <1>2, <1>3, <1>4 DEF Slack

(* The slack of every key survives every step without a failure of Redis.   *)
LEMMA SlackStep == Typed /\ AllSlack /\ [Next]_vars => AllSlack'
<1> SUFFICES ASSUME Typed, AllSlack, [Next]_vars, lost' = 0, NEW k \in Keys
             PROVE  Slack(k)'
  BY DEF AllSlack
<1>t. Typed'
  BY TypedStep
<1>l. lost \in Nat
  BY BoundsAssumption DEF Typed, TypeOK
<1>s. ASSUME lost = 0 PROVE Slack(k)
  BY <1>s DEF AllSlack
<1>f. count \in [Keys -> Nat] /\ group \in [Keys -> Nat]
  BY DEF Typed, TypeOK
<1>p. pc \in [Requests -> Open \cup Over \cup {"idle"}]
  BY DEF Typed, TypeOK
<1>1. ASSUME NEW r \in Requests, NEW c \in Asks[r], Receive(r, c) PROVE Slack(k)'
  <2>1. lost = 0 /\ count' = count /\ group' = group
    BY <1>1 DEF Receive, history
  <2>2. Inside(k)' \subseteq Inside(k)
    BY <1>1, <1>p DEF Receive, Go, Inside, Past, KeysOf
  <2> QED
    BY <2>1, <2>2, <1>t, <1>s, <1>f, SlackKept
<1>2. ASSUME NEW r \in Requests, CheckEmail(r) PROVE Slack(k)'
  <2>1. lost = 0 /\ count' = count /\ call' = call /\ pc[r] = "check_email"
    BY <1>2, <1>l DEF CheckEmail, Lose
  <2>2. /\ call[r].email \in Emails /\ call[r].ip \in Ips /\ call[r].ip \notin Emails
    BY <2>1, KeysOfCall
  <2>3. CASE Go(r, "locked") /\ group' = group
    <3>1. Inside(k)' \subseteq Inside(k)
      BY <2>1, <2>3, <1>p DEF Go, Inside, Past, KeysOf
    <3> QED
      BY <2>1, <2>3, <3>1, <1>t, <1>s, <1>f, SlackKept
  <2>4. CASE ~Locked(call[r].email) /\ Enter(r, call[r].email, "check_ip")
    <3>1. CASE k = call[r].email
      <4>1. Inside(k)' = Inside(k) \cup {r}
        BY <2>1, <2>2, <2>4, <3>1, <1>p DEF Enter, Go, Inside, Past, KeysOf
      <4>2. group'[k] = Cardinality(Inside(k) \cup {r})
        BY <2>4, <3>1, <1>f DEF Enter
      <4> QED
        BY <2>1, <2>4, <3>1, <4>1, <4>2, <1>t, SlackEntered
    <3>2. CASE k # call[r].email
      <4>1. Inside(k)' \subseteq Inside(k)
        BY <2>1, <2>2, <2>4, <3>2, <1>p DEF Enter, Go, Inside, Past, KeysOf
      <4>2. group'[k] = group[k]
        BY <2>4, <3>2, <1>f DEF Enter
      <4> QED
        BY <2>1, <4>1, <4>2, <1>t, <1>s, <1>f, SlackKept
    <3> QED
      BY <3>1, <3>2
  <2> QED
    BY <1>2, <1>l, <2>3, <2>4 DEF CheckEmail, Lose
<1>3. ASSUME NEW r \in Requests, CheckIp(r) PROVE Slack(k)'
  <2>1. lost = 0 /\ count' = count /\ call' = call /\ pc[r] = "check_ip"
    BY <1>3, <1>l DEF CheckIp, Lose
  <2>2. /\ call[r].email \in Emails /\ call[r].ip \in Ips /\ call[r].ip \notin Emails
    BY <2>1, KeysOfCall
  <2>3. CASE Go(r, "locked") /\ group' = group
    <3>1. Inside(k)' \subseteq Inside(k)
      BY <2>1, <2>3, <1>p DEF Go, Inside, Past, KeysOf
    <3> QED
      BY <2>1, <2>3, <3>1, <1>t, <1>s, <1>f, SlackKept
  <2>4. CASE ~Locked(call[r].ip) /\ Enter(r, call[r].ip, "verify")
    <3>1. CASE k = call[r].ip
      <4>1. Inside(k)' = Inside(k) \cup {r}
        BY <2>1, <2>2, <2>4, <3>1, <1>p DEF Enter, Go, Inside, Past, KeysOf
      <4>2. group'[k] = Cardinality(Inside(k) \cup {r})
        BY <2>4, <3>1, <1>f DEF Enter
      <4> QED
        BY <2>1, <2>4, <3>1, <4>1, <4>2, <1>t, SlackEntered
    <3>2. CASE k # call[r].ip
      <4>1. Inside(k)' \subseteq Inside(k)
        BY <2>1, <2>2, <2>4, <3>2, <1>p DEF Enter, Go, Inside, Past, KeysOf
      <4>2. group'[k] = group[k]
        BY <2>4, <3>2, <1>f DEF Enter
      <4> QED
        BY <2>1, <4>1, <4>2, <1>t, <1>s, <1>f, SlackKept
    <3> QED
      BY <3>1, <3>2
  <2> QED
    BY <1>3, <1>l, <2>3, <2>4 DEF CheckIp, Lose
<1>4. ASSUME NEW r \in Requests, Verify(r) PROVE Slack(k)'
  <2>1. lost = 0 /\ count' = count /\ group' = group
    BY <1>4 DEF Verify, history
  <2>2. Inside(k)' \subseteq Inside(k)
    BY <1>4, <1>p DEF Verify, Go, Inside, Past, KeysOf
  <2> QED
    BY <2>1, <2>2, <1>t, <1>s, <1>f, SlackKept
<1>5. ASSUME NEW r \in Requests, RecordFailure(r) PROVE Slack(k)'
  <2>1. /\ lost = 0 /\ group' = group /\ call' = call /\ pc[r] = "record"
        /\ count' = [j \in Keys |-> IF j \in KeysOf(r) THEN count[j] + 1 ELSE count[j]]
    BY <1>5, <1>l DEF RecordFailure, Lose
  <2>2. Go(r, "refused")
    BY <1>5 DEF RecordFailure
  <2>3. CASE k \in KeysOf(r)
    <3>1. r \in Inside(k)
      BY <2>1, <2>3 DEF Inside, Past
    <3>2. Inside(k)' = Inside(k) \ {r}
      BY <2>1, <2>2, <1>p DEF Go, Inside, Past, KeysOf
    <3> QED
      BY <2>1, <2>3, <3>1, <3>2, <1>t, <1>s, SlackCounted
  <2>4. CASE k \notin KeysOf(r)
    <3>1. Inside(k)' \subseteq Inside(k)
      BY <2>1, <2>2, <1>p DEF Go, Inside, Past, KeysOf
    <3> QED
      BY <2>1, <2>4, <3>1, <1>t, <1>s, <1>f, SlackKept
  <2> QED
    BY <2>3, <2>4
<1>6. ASSUME NEW r \in Requests, ReadCount(r) PROVE Slack(k)'
  <2>1. lost = 0 /\ count' = count /\ group' = group
    BY <1>6, <1>l DEF ReadCount, Lose, history
  <2>2. Inside(k)' \subseteq Inside(k)
    BY <1>6, <1>p DEF ReadCount, Go, Inside, Past, KeysOf
  <2> QED
    BY <2>1, <2>2, <1>t, <1>s, <1>f, SlackKept
<1>7. ASSUME NEW r \in Requests, Reset(r) PROVE Slack(k)'
  <2>1. lost = 0 /\ group' = group /\ count' = Cleared(r)
    BY <1>7, <1>l DEF Reset, Lose
  <2>2. Inside(k)' \subseteq Inside(k)
    BY <1>7, <1>p DEF Reset, Go, Inside, Past, KeysOf
  <2>3. count'[k] <= count[k]
    BY <2>1, <1>f DEF Cleared
  <2> QED
    BY <2>1, <2>2, <2>3, <1>t, <1>s, SlackKept
<1>8. ASSUME NEW r \in Requests, Finish(r) PROVE Slack(k)'
  <2>1. lost = 0 /\ count' = count /\ group' = group
    BY <1>8, <1>l DEF Finish, Lose, history
  <2>2. Inside(k)' \subseteq Inside(k)
    BY <1>8, <1>p DEF Finish, Go, Inside, Past, KeysOf
  <2> QED
    BY <2>1, <2>2, <1>t, <1>s, <1>f, SlackKept
<1>9. ASSUME NEW j \in Keys, ExpireKey(j) PROVE Slack(k)'
  <2>1. lost = 0 /\ group' = group /\ count' = [count EXCEPT ![j] = 0]
    BY <1>9 DEF ExpireKey, history
  <2>2. Inside(k)' \subseteq Inside(k)
    BY <1>9 DEF ExpireKey, Inside, Past, KeysOf
  <2>3. count'[k] <= count[k]
    BY <2>1, <1>f
  <2> QED
    BY <2>1, <2>2, <2>3, <1>t, <1>s, SlackKept
<1>10. CASE UNCHANGED vars
  <2>1. lost = 0 /\ count' = count /\ group' = group
    BY <1>10 DEF vars, history
  <2>2. Inside(k)' \subseteq Inside(k)
    BY <1>10 DEF vars, Inside, Past, KeysOf
  <2> QED
    BY <2>1, <2>2, <1>t, <1>s, <1>f, SlackKept
<1> QED
  BY <1>1, <1>2, <1>3, <1>4, <1>5, <1>6, <1>7, <1>8, <1>9, <1>10 DEF Next, Proceed

------------------------------------------------------------------------------
(* Alerts *)

(* Counters grow by a failure recorded only, which the readers note.        *)
LEMMA SeenStep == Typed /\ AllSeen /\ [Next]_vars => AllSeen'
<1> SUFFICES ASSUME Typed, AllSeen, [Next]_vars, lost' = 0, NEW q \in Requests
             PROVE  Seen(q)'
  BY DEF AllSeen
<1>l. lost \in Nat
  BY BoundsAssumption DEF Typed, TypeOK
<1>s. ASSUME lost = 0 PROVE Seen(q)
  BY <1>s DEF AllSeen
<1>k. pc[q] # "idle" => call[q].email \in Keys
  BY KeysOfCall DEF Keys
<1>t. /\ pc \in [Requests -> Open \cup Over \cup {"idle"}]
      /\ call \in [Requests -> Attempts \cup {None}]
      /\ count \in [Keys -> Nat]
      /\ failed \in [Requests -> Nat] /\ erased \in [Requests -> Nat]
      /\ missed \in [Requests -> BOOLEAN]
  BY DEF Typed, TypeOK
<1> USE DEF Go, Lose, history
<1>1. ASSUME NEW r \in Requests, NEW c \in Asks[r], Receive(r, c) PROVE Seen(q)'
  BY <1>1, <1>s, <1>t DEF Receive, Seen, NearLockout
<1>2. ASSUME NEW r \in Requests, CheckEmail(r) PROVE Seen(q)'
  BY <1>2, <1>l, <1>s, <1>t DEF CheckEmail, Enter, Seen, NearLockout
<1>3. ASSUME NEW r \in Requests, CheckIp(r) PROVE Seen(q)'
  BY <1>3, <1>l, <1>s, <1>t DEF CheckIp, Enter, Seen, NearLockout
<1>4. ASSUME NEW r \in Requests, Verify(r) PROVE Seen(q)'
  BY <1>4, <1>s, <1>t DEF Verify, Seen, NearLockout
<1>5. ASSUME NEW r \in Requests, RecordFailure(r) PROVE Seen(q)'
  <2>1. /\ lost = 0 /\ UNCHANGED <<call, failed, erased>> /\ pc[r] = "record"
        /\ pc' = [pc EXCEPT ![r] = "refused"]
        /\ count' = [k \in Keys |-> IF k \in KeysOf(r) THEN count[k] + 1 ELSE count[k]]
    BY <1>5, <1>l DEF RecordFailure
  <2>2. missed' = [p \in Requests |->
                     missed[p] \/ (pc[p] = "reset" /\ call[p].email = call[r].email)]
    BY <1>5, <1>l DEF RecordFailure
  <2>3. missed[q] => missed'[q]
    BY <2>2, Zenon
  <2>4. CASE pc[q] = "reset" /\ call[q].email = call[r].email
    <3>1. missed'[q]
      BY <2>2, <2>4, Zenon
    <3> QED
      BY <2>1, <2>4, <3>1, <1>t DEF Seen
  <2>5. CASE pc[q] = "reset" /\ call[q].email # call[r].email
    <3>1. call[q].email \notin KeysOf(r)
      BY <2>1, <2>5, KeysOfCall DEF KeysOf
    <3>2. count'[call[q].email] = count[call[q].email]
      BY <2>1, <2>5, <3>1, <1>k
    <3> QED
      BY <2>1, <2>3, <2>5, <3>2, <1>s, <1>t DEF Seen
  <2>6. CASE pc[q] # "reset"
    BY <2>1, <2>3, <2>6, <1>s, <1>t DEF Seen, NearLockout
  <2> QED
    BY <2>4, <2>5, <2>6
<1>6. ASSUME NEW r \in Requests, ReadCount(r) PROVE Seen(q)'
  BY <1>6, <1>l, <1>s, <1>t, <1>k DEF ReadCount, FailedAttempts, Seen, NearLockout
<1>7. ASSUME NEW r \in Requests, Reset(r) PROVE Seen(q)'
  <2>1. /\ lost = 0 /\ UNCHANGED <<call, failed, missed>> /\ pc[r] = "reset"
        /\ pc' = [pc EXCEPT ![r] = "session"]
        /\ count' = Cleared(r) /\ erased' = [erased EXCEPT ![r] = count[call[r].email]]
    BY <1>7, <1>l DEF Reset
  <2>2. \A k \in Keys : count'[k] \in Nat /\ count'[k] <= count[k]
    BY <2>1, <1>t DEF Cleared
  <2>3. CASE q = r
    BY <2>1, <2>3, <1>s, <1>t DEF Seen
  <2>4. CASE q # r /\ pc[q] = "reset"
    <3>1. pc'[q] = "reset" /\ call[q].email \in Keys /\ failed[q] \in Nat
      BY <2>1, <2>4, <1>t, <1>k
    <3> QED
      BY <2>1, <2>2, <2>4, <3>1, <1>s, <1>t DEF Seen
  <2>5. CASE q # r /\ pc[q] # "reset"
    BY <2>1, <2>5, <1>s, <1>t DEF Seen, NearLockout
  <2> QED
    BY <2>3, <2>4, <2>5
<1>8. ASSUME NEW r \in Requests, Finish(r) PROVE Seen(q)'
  BY <1>8, <1>l, <1>s, <1>t, LimitAssumption DEF Finish, Seen, NearLockout
<1>9. ASSUME NEW k \in Keys, ExpireKey(k) PROVE Seen(q)'
  BY <1>9, <1>s, <1>t, <1>k DEF ExpireKey, Seen
<1>10. CASE UNCHANGED vars
  BY <1>10, <1>s DEF vars, Seen, NearLockout
<1> QED
  BY <1>1, <1>2, <1>3, <1>4, <1>5, <1>6, <1>7, <1>8, <1>9, <1>10 DEF Next, Proceed

------------------------------------------------------------------------------
(* Theorems *)

(* ... and no key has more failures than it noted. *)
LEMMA InitSlack == Init => AllSlack
<1> SUFFICES ASSUME Init, NEW k \in Keys PROVE Slack(k)
  BY DEF AllSlack
<1>1. Inside(k) = {}
  BY DEF Init, Inside, Past
<1>2. Cardinality(Inside(k)) = 0
  BY <1>1, FS_EmptySet
<1>3. count[k] = 0 /\ group[k] = 0
  BY DEF Init
<1> QED
  BY <1>2, <1>3, LimitPositive DEF Slack

(* The inductive invariant. *)
IInv == Typed /\ AllSlack /\ AllSeen

(* The invariant holds in every state. *)
LEMMA Invariance == Spec => []IInv
<1>1. Init => IInv
  <2>1. Init => AllSeen
    BY DEF Init, AllSeen, Seen
  <2> QED
    BY <2>1, InitTyped, InitSlack DEF IInv
<1>2. IInv /\ [Next]_vars => IInv'
  BY TypedStep, SlackStep, SeenStep DEF IInv
<1> QED
  BY <1>1, <1>2, PTL DEF Spec

(* Every reachable state is well formed. *)
THEOREM TypeCorrect == Spec => []TypeOK
<1>1. IInv => TypeOK
  BY DEF IInv, Typed
<1> QED
  BY Invariance, <1>1, PTL

(* For any number of logins, any limits and any schedule: while Redis       *)
(* answers, a counter stays below its limit plus the number of logins that  *)
(* were past its check together (check_brute_force, record_failed_attempt). *)
THEOREM Overshoot == Spec => []LockoutSlack
<1>1. IInv => LockoutSlack
  <2> SUFFICES ASSUME Typed, AllSlack, lost = 0, NEW k \in Keys
               PROVE  count[k] < Limit(k) + group[k]
    BY DEF IInv, LockoutSlack
  <2>1. Slack(k)
    BY DEF AllSlack
  <2>2. Cardinality(Inside(k)) \in Nat
    BY InsideFinite
  <2>3. count[k] \in Nat /\ group[k] \in Nat /\ Limit(k) \in Nat
    BY LimitPositive DEF Typed, TypeOK
  <2> HIDE DEF Inside, Limit
  <2> QED
    BY <2>1, <2>2, <2>3 DEF Slack
<1> QED
  BY Invariance, <1>1, PTL

(* login: while Redis answers, whoever erases a count near the lockout has  *)
(* alerted, unless a failure was recorded after its read.                   *)
THEOREM AlertsNearLockout == Spec => []NearLockoutSeen
<1>1. IInv => NearLockoutSeen
  BY DEF IInv, AllSeen, Seen, NearLockoutSeen
<1> QED
  BY Invariance, <1>1, PTL
==============================================================================
