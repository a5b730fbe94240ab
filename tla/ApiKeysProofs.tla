----------------------------- MODULE ApiKeysProofs -----------------------------
(* Proofs about ApiKeys for any workers, applications, keys and TTL.        *)
EXTENDS ApiKeys, TLAPS

(* The time of a key out of use has not begun while it is in use.           *)
GoneZero == \A k \in Keys : InUse(k) => gone[k] = 0

(* A key, and a verification that has read one, has its application.        *)
HasApp ==
  /\ \A k \in Keys : key[k] # "absent" => app[AppOf[k]] # "absent"
  /\ \A w \in Workers : pc[w] \in {"issue", "app"} => app[AppOf[on[w]]] # "absent"

(* A request about to insert a key is the only one, and the key is new.     *)
IssuesNew ==
  /\ \A w \in Workers : pc[w] = "issue" => key[on[w]] = "absent"
  /\ \A v, w \in Workers :
       pc[v] = "issue" /\ pc[w] = "issue" /\ on[v] = on[w] => v = w

IInv == TypeOK /\ HasApp /\ IssuesNew /\ GoneZero /\ StaleIsBounded

------------------------------------------------------------------------------
(* The invariant holds at the start. *)
LEMMA InitIInv == Init => IInv
<1> SUFFICES ASSUME Init PROVE IInv
  OBVIOUS
<1> USE TTLAssumption, AppOfAssumption, AbsentAssumption DEF Init
<1>1. TypeOK
  <2>1. said \in (Keys \cup {None}) \X BOOLEAN
    OBVIOUS
  <2>2. gone \in [Keys -> 0..TTL] /\ cache \in [Keys -> (1..TTL) \cup {None}]
    OBVIOUS
  <2> QED
    BY <2>1, <2>2 DEF TypeOK, Idle
<1>2. HasApp /\ IssuesNew
  BY DEF HasApp, IssuesNew
<1>3. GoneZero /\ StaleIsBounded
  BY DEF GoneZero, StaleIsBounded
<1> QED
  BY <1>1, <1>2, <1>3 DEF IInv

------------------------------------------------------------------------------
(* The two reads of verify_key go on to their next step or refuse. *)
LEMMA ReadKeyEffect ==
  ASSUME TypeOK, NEW w \in Workers, NEW match \in BOOLEAN, ReadKey(w, match)
  PROVE  /\ pc[w] = "key" /\ on[w] \in Keys
         /\ UNCHANGED <<app, key, cache, gone, missed>>
         /\ \/ key[on[w]] = "active" /\ Work(w, "app", on[w]) /\ UNCHANGED said
            \/ Refuse(w)
<1>1. pc[w] = "key" /\ UNCHANGED <<tables, cache, history>>
  BY DEF ReadKey
<1>2. on[w] \in Keys
  BY <1>1 DEF TypeOK, Idle
<1>3. CASE key[on[w]] = "active" /\ match
  BY <1>1, <1>2, <1>3, Zenon DEF ReadKey, tables, history
<1>4. CASE ~(key[on[w]] = "active" /\ match)
  BY <1>1, <1>2, <1>4, Zenon DEF ReadKey, tables, history
<1> QED
  BY <1>3, <1>4

(* What reading an application leaves and what it sets. *)
LEMMA ReadAppEffect ==
  ASSUME TypeOK, NEW w \in Workers, ReadApp(w)
  PROVE  /\ pc[w] = "app" /\ on[w] \in Keys
         /\ UNCHANGED <<app, key, cache, gone, missed>>
         /\ \/ app[AppOf[on[w]]] = "active" /\ Work(w, "fill", on[w]) /\ UNCHANGED said
            \/ Refuse(w)
<1>1. pc[w] = "app" /\ UNCHANGED <<tables, cache, history>>
  BY DEF ReadApp
<1>2. on[w] \in Keys
  BY <1>1 DEF TypeOK, Idle
<1>3. CASE app[AppOf[on[w]]] = "active"
  BY <1>1, <1>2, <1>3, Zenon DEF ReadApp, tables, history
<1>4. CASE app[AppOf[on[w]]] # "active"
  BY <1>1, <1>2, <1>4, Zenon DEF ReadApp, tables, history
<1> QED
  BY <1>3, <1>4

(* Each action keeps the types. *)
LEMMA TypeStep == TypeOK /\ [Next]_vars => TypeOK'
<1> SUFFICES ASSUME TypeOK, [Next]_vars PROVE TypeOK'
  OBVIOUS
<1> USE TTLAssumption, AppOfAssumption, AbsentAssumption
        DEF TypeOK, Idle, Work, Done
<1>1. ASSUME NEW w \in Workers, NEW k \in Keys, CreateApplication(w, k)
      PROVE TypeOK'
  BY <1>1 DEF CreateApplication, tables, history
<1>2. ASSUME NEW w \in Workers, NEW k \in Keys, CheckForNewKey(w, k)
      PROVE TypeOK'
  BY <1>2 DEF CheckForNewKey, tables, history
<1>3. ASSUME NEW w \in Workers, NEW k \in Keys, RevokeKey(w, k)
      PROVE TypeOK'
  BY <1>3 DEF RevokeKey, tables, history
<1>4. ASSUME NEW w \in Workers, NEW k \in Keys, Miss(w, k) PROVE TypeOK'
  BY <1>4 DEF Miss, tables, history
<1>5. ASSUME NEW w \in Workers, NEW k \in Keys, NEW match \in BOOLEAN,
             Hit(w, k, match) PROVE TypeOK'
  BY <1>5 DEF Hit, tables, history
<1>6. ASSUME NEW w \in Workers, NEW a \in Apps, NEW status \in {"active", "suspended"},
             UpdateStatus(w, a, status) PROVE TypeOK'
  <2>1. gone' \in [Keys -> 0..TTL]
    BY <1>6 DEF UpdateStatus
  <2> QED
    BY <1>6, <2>1 DEF UpdateStatus
<1>7. ASSUME NEW w \in Workers, IssueKey(w) PROVE TypeOK'
  BY <1>7 DEF IssueKey, tables, history
<1>8. ASSUME NEW w \in Workers, Invalidate(w) PROVE TypeOK'
  BY <1>8 DEF Invalidate, tables, history
<1>9. ASSUME NEW w \in Workers, NEW match \in BOOLEAN, ReadKey(w, match)
      PROVE TypeOK'
  <2>1. /\ pc[w] = "key" /\ on[w] \in Keys
        /\ UNCHANGED <<app, key, cache, gone, missed>>
        /\ \/ key[on[w]] = "active" /\ Work(w, "app", on[w]) /\ UNCHANGED said
           \/ Refuse(w)
    BY <1>9, ReadKeyEffect, ZenonT(40)
  <2>2. CASE Refuse(w)
    <3>1. said' \in (Keys \cup {None}) \X BOOLEAN
      BY <2>1, <2>2 DEF Refuse
    <3> QED
      BY <2>1, <2>2, <3>1 DEF Refuse
  <2>3. CASE Work(w, "app", on[w]) /\ UNCHANGED said
    BY <2>1, <2>3
  <2> QED
    BY <2>1, <2>2, <2>3
<1>10. ASSUME NEW w \in Workers, ReadApp(w) PROVE TypeOK'
  <2>1. /\ pc[w] = "app" /\ on[w] \in Keys
        /\ UNCHANGED <<app, key, cache, gone, missed>>
        /\ \/ app[AppOf[on[w]]] = "active" /\ Work(w, "fill", on[w]) /\ UNCHANGED said
           \/ Refuse(w)
    BY <1>10, ReadAppEffect, Zenon
  <2>2. CASE Refuse(w)
    <3>1. said' \in (Keys \cup {None}) \X BOOLEAN
      BY <2>1, <2>2 DEF Refuse
    <3> QED
      BY <2>1, <2>2, <3>1 DEF Refuse
  <2>3. CASE Work(w, "fill", on[w]) /\ UNCHANGED said
    BY <2>1, <2>3
  <2> QED
    BY <2>1, <2>2, <2>3
<1>11. ASSUME NEW w \in Workers, Fill(w) PROVE TypeOK'
  <2>1. on[w] \in Keys
    BY <1>11 DEF Fill
  <2>2. said' \in (Keys \cup {None}) \X BOOLEAN
    BY <1>11, <2>1 DEF Fill
  <2>3. cache' \in [Keys -> (1..TTL) \cup {None}] /\ missed' \subseteq Keys
    BY <1>11, <2>1 DEF Fill
  <2> QED
    BY <1>11, <2>2, <2>3 DEF Fill, tables
<1>12. ASSUME NEW w \in Workers, Crash(w) PROVE TypeOK'
  BY <1>12 DEF Crash, tables, history
<1>13. CASE Tick
  <2>1. cache' \in [Keys -> (1..TTL) \cup {None}]
    BY <1>13 DEF Tick
  <2>2. gone' \in [Keys -> 0..TTL]
    BY <1>13 DEF Tick
  <2> QED
    BY <1>13, <2>1, <2>2 DEF Tick, tables
<1>14. CASE UNCHANGED vars
  BY <1>14 DEF vars
<1> QED
  BY <1>1, <1>2, <1>3, <1>4, <1>5, <1>6, <1>7, <1>8, <1>9, <1>10, <1>11, <1>12, <1>13, <1>14
     DEF Next

------------------------------------------------------------------------------
(* Requests on keys and applications, unaffected by the cache. *)
LEMMA HasAppStep == TypeOK /\ HasApp /\ [Next]_vars => HasApp'
<1> SUFFICES ASSUME TypeOK, HasApp, [Next]_vars PROVE HasApp'
  OBVIOUS
<1> USE TTLAssumption, AppOfAssumption, AbsentAssumption
        DEF TypeOK, Idle, Work, Done, HasApp
<1>1. ASSUME NEW w \in Workers, NEW k \in Keys, CreateApplication(w, k)
      PROVE HasApp'
  BY <1>1 DEF CreateApplication, tables, history
<1>2. ASSUME NEW w \in Workers, NEW k \in Keys, CheckForNewKey(w, k)
      PROVE HasApp'
  BY <1>2 DEF CheckForNewKey, tables, history
<1>3. ASSUME NEW w \in Workers, NEW k \in Keys, RevokeKey(w, k)
      PROVE HasApp'
  BY <1>3 DEF RevokeKey, tables, history
<1>4. ASSUME NEW w \in Workers, NEW k \in Keys, Miss(w, k) PROVE HasApp'
  BY <1>4 DEF Miss, tables, history
<1>5. ASSUME NEW w \in Workers, NEW k \in Keys, NEW match \in BOOLEAN,
             Hit(w, k, match) PROVE HasApp'
  BY <1>5 DEF Hit, tables, history
<1>6. ASSUME NEW w \in Workers, NEW a \in Apps, NEW status \in {"active", "suspended"},
             UpdateStatus(w, a, status) PROVE HasApp'
  BY <1>6 DEF UpdateStatus, tables, history
<1>7. ASSUME NEW w \in Workers, IssueKey(w) PROVE HasApp'
  BY <1>7 DEF IssueKey, tables, history
<1>8. ASSUME NEW w \in Workers, Invalidate(w) PROVE HasApp'
  BY <1>8 DEF Invalidate, tables, history
<1>9. ASSUME NEW w \in Workers, NEW match \in BOOLEAN, ReadKey(w, match)
      PROVE HasApp'
  <2>1. /\ pc[w] = "key" /\ on[w] \in Keys
        /\ UNCHANGED <<app, key, cache, gone, missed>>
        /\ \/ key[on[w]] = "active" /\ Work(w, "app", on[w]) /\ UNCHANGED said
           \/ Refuse(w)
    BY <1>9, ReadKeyEffect, ZenonT(40)
  <2>2. CASE Refuse(w)
    BY <2>1, <2>2 DEF Refuse
  <2>3. CASE key[on[w]] = "active" /\ Work(w, "app", on[w]) /\ UNCHANGED said
    BY <2>1, <2>3
  <2> QED
    BY <2>1, <2>2, <2>3
<1>10. ASSUME NEW w \in Workers, ReadApp(w) PROVE HasApp'
  <2>1. /\ pc[w] = "app" /\ on[w] \in Keys
        /\ UNCHANGED <<app, key, cache, gone, missed>>
        /\ \/ app[AppOf[on[w]]] = "active" /\ Work(w, "fill", on[w]) /\ UNCHANGED said
           \/ Refuse(w)
    BY <1>10, ReadAppEffect, Zenon
  <2>2. CASE Refuse(w)
    BY <2>1, <2>2 DEF Refuse
  <2>3. CASE app[AppOf[on[w]]] = "active" /\ Work(w, "fill", on[w]) /\ UNCHANGED said
    BY <2>1, <2>3
  <2> QED
    BY <2>1, <2>2, <2>3
<1>11. ASSUME NEW w \in Workers, Fill(w) PROVE HasApp'
  BY <1>11 DEF Fill, tables, history
<1>12. ASSUME NEW w \in Workers, Crash(w) PROVE HasApp'
  BY <1>12 DEF Crash, tables, history
<1>13. CASE Tick
  BY <1>13 DEF Tick, tables, history
<1>14. CASE UNCHANGED vars
  BY <1>14 DEF vars
<1> QED
  BY <1>1, <1>2, <1>3, <1>4, <1>5, <1>6, <1>7, <1>8, <1>9, <1>10, <1>11, <1>12, <1>13, <1>14
     DEF Next

(* Every step keeps new keys new. *)
LEMMA IssuesNewStep == TypeOK /\ HasApp /\ IssuesNew /\ [Next]_vars => IssuesNew'
<1> SUFFICES ASSUME TypeOK, HasApp, IssuesNew, [Next]_vars PROVE IssuesNew'
  OBVIOUS
<1> USE TTLAssumption, AppOfAssumption, AbsentAssumption
        DEF TypeOK, Idle, Work, Done, HasApp, IssuesNew
<1>1. ASSUME NEW w \in Workers, NEW k \in Keys, CreateApplication(w, k)
      PROVE IssuesNew'
  BY <1>1 DEF CreateApplication, tables, history
<1>2. ASSUME NEW w \in Workers, NEW k \in Keys, CheckForNewKey(w, k)
      PROVE IssuesNew'
  BY <1>2 DEF CheckForNewKey, tables, history
<1>3. ASSUME NEW w \in Workers, NEW k \in Keys, RevokeKey(w, k)
      PROVE IssuesNew'
  BY <1>3 DEF RevokeKey, tables, history
<1>4. ASSUME NEW w \in Workers, NEW k \in Keys, Miss(w, k) PROVE IssuesNew'
  BY <1>4 DEF Miss, tables, history
<1>5. ASSUME NEW w \in Workers, NEW k \in Keys, NEW match \in BOOLEAN,
             Hit(w, k, match) PROVE IssuesNew'
  BY <1>5 DEF Hit, tables, history
<1>6. ASSUME NEW w \in Workers, NEW a \in Apps, NEW status \in {"active", "suspended"},
             UpdateStatus(w, a, status) PROVE IssuesNew'
  BY <1>6 DEF UpdateStatus, tables, history
<1>7. ASSUME NEW w \in Workers, IssueKey(w) PROVE IssuesNew'
  BY <1>7 DEF IssueKey, tables, history
<1>8. ASSUME NEW w \in Workers, Invalidate(w) PROVE IssuesNew'
  BY <1>8 DEF Invalidate, tables, history
<1>9. ASSUME NEW w \in Workers, NEW match \in BOOLEAN, ReadKey(w, match)
      PROVE IssuesNew'
  <2>1. /\ pc[w] = "key" /\ on[w] \in Keys
        /\ UNCHANGED <<app, key, cache, gone, missed>>
        /\ \/ key[on[w]] = "active" /\ Work(w, "app", on[w]) /\ UNCHANGED said
           \/ Refuse(w)
    BY <1>9, ReadKeyEffect, ZenonT(40)
  <2>2. CASE Refuse(w)
    BY <2>1, <2>2 DEF Refuse
  <2>3. CASE key[on[w]] = "active" /\ Work(w, "app", on[w]) /\ UNCHANGED said
    BY <2>1, <2>3
  <2> QED
    BY <2>1, <2>2, <2>3
<1>10. ASSUME NEW w \in Workers, ReadApp(w) PROVE IssuesNew'
  <2>1. /\ pc[w] = "app" /\ on[w] \in Keys
        /\ UNCHANGED <<app, key, cache, gone, missed>>
        /\ \/ app[AppOf[on[w]]] = "active" /\ Work(w, "fill", on[w]) /\ UNCHANGED said
           \/ Refuse(w)
    BY <1>10, ReadAppEffect, Zenon
  <2>2. CASE Refuse(w)
    BY <2>1, <2>2 DEF Refuse
  <2>3. CASE app[AppOf[on[w]]] = "active" /\ Work(w, "fill", on[w]) /\ UNCHANGED said
    BY <2>1, <2>3
  <2> QED
    BY <2>1, <2>2, <2>3
<1>11. ASSUME NEW w \in Workers, Fill(w) PROVE IssuesNew'
  BY <1>11 DEF Fill, tables, history
<1>12. ASSUME NEW w \in Workers, Crash(w) PROVE IssuesNew'
  BY <1>12 DEF Crash, tables, history
<1>13. CASE Tick
  BY <1>13 DEF Tick, tables, history
<1>14. CASE UNCHANGED vars
  BY <1>14 DEF vars
<1> QED
  BY <1>1, <1>2, <1>3, <1>4, <1>5, <1>6, <1>7, <1>8, <1>9, <1>10, <1>11, <1>12, <1>13, <1>14
     DEF Next

------------------------------------------------------------------------------
(* The history of a key in use stays at zero. *)
LEMMA GoneZeroStep == TypeOK /\ HasApp /\ IssuesNew /\ GoneZero /\ [Next]_vars => GoneZero'
<1> SUFFICES ASSUME TypeOK, HasApp, IssuesNew, GoneZero, [Next]_vars PROVE GoneZero'
  OBVIOUS
<1> USE TTLAssumption, AppOfAssumption, AbsentAssumption
        DEF TypeOK, Idle, Work, Done, HasApp, IssuesNew, GoneZero, InUse, Usable, Filling
<1>1. ASSUME NEW w \in Workers, NEW k \in Keys, CreateApplication(w, k)
      PROVE GoneZero'
  BY <1>1 DEF CreateApplication, tables, history
<1>2. ASSUME NEW w \in Workers, NEW k \in Keys, CheckForNewKey(w, k)
      PROVE GoneZero'
  BY <1>2 DEF CheckForNewKey, tables, history
<1>3. ASSUME NEW w \in Workers, NEW k \in Keys, RevokeKey(w, k)
      PROVE GoneZero'
  BY <1>3 DEF RevokeKey, tables, history
<1>4. ASSUME NEW w \in Workers, NEW k \in Keys, Miss(w, k) PROVE GoneZero'
  BY <1>4 DEF Miss, tables, history
<1>5. ASSUME NEW w \in Workers, NEW k \in Keys, NEW match \in BOOLEAN,
             Hit(w, k, match) PROVE GoneZero'
  BY <1>5 DEF Hit, tables, history
<1>6. ASSUME NEW w \in Workers, NEW a \in Apps, NEW status \in {"active", "suspended"},
             UpdateStatus(w, a, status) PROVE GoneZero'
  BY <1>6 DEF UpdateStatus, tables, history
<1>7. ASSUME NEW w \in Workers, IssueKey(w) PROVE GoneZero'
  BY <1>7 DEF IssueKey, tables, history
<1>8. ASSUME NEW w \in Workers, Invalidate(w) PROVE GoneZero'
  BY <1>8 DEF Invalidate, tables, history
<1>9. ASSUME NEW w \in Workers, NEW match \in BOOLEAN, ReadKey(w, match)
      PROVE GoneZero'
  <2>1. /\ pc[w] = "key" /\ on[w] \in Keys
        /\ UNCHANGED <<app, key, cache, gone, missed>>
        /\ \/ key[on[w]] = "active" /\ Work(w, "app", on[w]) /\ UNCHANGED said
           \/ Refuse(w)
    BY <1>9, ReadKeyEffect, ZenonT(40)
  <2>2. CASE Refuse(w)
    BY <2>1, <2>2 DEF Refuse
  <2>3. CASE key[on[w]] = "active" /\ Work(w, "app", on[w]) /\ UNCHANGED said
    BY <2>1, <2>3
  <2> QED
    BY <2>1, <2>2, <2>3
<1>10. ASSUME NEW w \in Workers, ReadApp(w) PROVE GoneZero'
  <2>1. /\ pc[w] = "app" /\ on[w] \in Keys
        /\ UNCHANGED <<app, key, cache, gone, missed>>
        /\ \/ app[AppOf[on[w]]] = "active" /\ Work(w, "fill", on[w]) /\ UNCHANGED said
           \/ Refuse(w)
    BY <1>10, ReadAppEffect, Zenon
  <2>2. CASE Refuse(w)
    BY <2>1, <2>2 DEF Refuse
  <2>3. CASE app[AppOf[on[w]]] = "active" /\ Work(w, "fill", on[w]) /\ UNCHANGED said
    BY <2>1, <2>3
  <2> QED
    BY <2>1, <2>2, <2>3
<1>11. ASSUME NEW w \in Workers, Fill(w) PROVE GoneZero'
  BY <1>11 DEF Fill, tables, history
<1>12. ASSUME NEW w \in Workers, Crash(w) PROVE GoneZero'
  BY <1>12 DEF Crash, tables, history
<1>13. CASE Tick
  BY <1>13 DEF Tick, tables, history
<1>14. CASE UNCHANGED vars
  BY <1>14 DEF vars
<1> QED
  BY <1>1, <1>2, <1>3, <1>4, <1>5, <1>6, <1>7, <1>8, <1>9, <1>10, <1>11, <1>12, <1>13, <1>14
     DEF Next

------------------------------------------------------------------------------
(* An entry is written while its key is in use, and both clocks run together. *)
LEMMA StaleStep == TypeOK /\ GoneZero /\ StaleIsBounded /\ [Next]_vars => StaleIsBounded'
<1> SUFFICES ASSUME TypeOK, GoneZero, StaleIsBounded, [Next]_vars PROVE StaleIsBounded'
  OBVIOUS
<1> USE TTLAssumption, AppOfAssumption, AbsentAssumption
        DEF TypeOK, Idle, Work, Done, StaleIsBounded
<1>1. ASSUME NEW w \in Workers, NEW k \in Keys, CreateApplication(w, k)
      PROVE StaleIsBounded'
  BY <1>1 DEF CreateApplication, tables, history
<1>2. ASSUME NEW w \in Workers, NEW k \in Keys, CheckForNewKey(w, k)
      PROVE StaleIsBounded'
  BY <1>2 DEF CheckForNewKey, tables, history
<1>3. ASSUME NEW w \in Workers, NEW k \in Keys, RevokeKey(w, k)
      PROVE StaleIsBounded'
  BY <1>3 DEF RevokeKey, tables, history
<1>4. ASSUME NEW w \in Workers, NEW k \in Keys, Miss(w, k) PROVE StaleIsBounded'
  BY <1>4 DEF Miss, tables, history
<1>5. ASSUME NEW w \in Workers, NEW k \in Keys, NEW match \in BOOLEAN,
             Hit(w, k, match) PROVE StaleIsBounded'
  BY <1>5 DEF Hit, tables, history
<1>6. ASSUME NEW w \in Workers, NEW a \in Apps, NEW status \in {"active", "suspended"},
             UpdateStatus(w, a, status) PROVE StaleIsBounded'
  BY <1>6 DEF UpdateStatus, tables, history
<1>7. ASSUME NEW w \in Workers, IssueKey(w) PROVE StaleIsBounded'
  BY <1>7 DEF IssueKey, tables, history
<1>8. ASSUME NEW w \in Workers, Invalidate(w) PROVE StaleIsBounded'
  BY <1>8 DEF Invalidate, tables, history
<1>9. ASSUME NEW w \in Workers, NEW match \in BOOLEAN, ReadKey(w, match)
      PROVE StaleIsBounded'
  <2>1. /\ pc[w] = "key" /\ on[w] \in Keys
        /\ UNCHANGED <<app, key, cache, gone, missed>>
        /\ \/ key[on[w]] = "active" /\ Work(w, "app", on[w]) /\ UNCHANGED said
           \/ Refuse(w)
    BY <1>9, ReadKeyEffect, ZenonT(40)
  <2>2. CASE Refuse(w)
    BY <2>1, <2>2 DEF Refuse
  <2>3. CASE key[on[w]] = "active" /\ Work(w, "app", on[w]) /\ UNCHANGED said
    BY <2>1, <2>3
  <2> QED
    BY <2>1, <2>2, <2>3
<1>10. ASSUME NEW w \in Workers, ReadApp(w) PROVE StaleIsBounded'
  <2>1. /\ pc[w] = "app" /\ on[w] \in Keys
        /\ UNCHANGED <<app, key, cache, gone, missed>>
        /\ \/ app[AppOf[on[w]]] = "active" /\ Work(w, "fill", on[w]) /\ UNCHANGED said
           \/ Refuse(w)
    BY <1>10, ReadAppEffect, Zenon
  <2>2. CASE Refuse(w)
    BY <2>1, <2>2 DEF Refuse
  <2>3. CASE app[AppOf[on[w]]] = "active" /\ Work(w, "fill", on[w]) /\ UNCHANGED said
    BY <2>1, <2>3
  <2> QED
    BY <2>1, <2>2, <2>3
<1>11. ASSUME NEW w \in Workers, Fill(w) PROVE StaleIsBounded'
  <2>1. on[w] \in Keys /\ pc[w] = "fill" /\ gone' = gone
    BY <1>11 DEF Fill
  <2>2. gone[on[w]] = 0
    BY <2>1 DEF GoneZero, InUse, Filling
  <2>3. CASE cache' = [cache EXCEPT ![on[w]] = TTL]
    BY <2>1, <2>2, <2>3
  <2>4. CASE cache' = cache
    BY <2>1, <2>4
  <2> QED
    BY <1>11, <2>3, <2>4 DEF Fill
<1>12. ASSUME NEW w \in Workers, Crash(w) PROVE StaleIsBounded'
  BY <1>12 DEF Crash, tables, history
<1>13. CASE Tick
  BY <1>13 DEF Tick, tables, history
<1>14. CASE UNCHANGED vars
  BY <1>14 DEF vars
<1> QED
  BY <1>1, <1>2, <1>3, <1>4, <1>5, <1>6, <1>7, <1>8, <1>9, <1>10, <1>11, <1>12, <1>13, <1>14
     DEF Next

------------------------------------------------------------------------------
(* A revocation leaves an entry only to its own DEL or to the history. *)
LEMMA KeyDiesStep == TypeOK /\ RevokedKeyDies /\ [Next]_vars => RevokedKeyDies'
<1> SUFFICES ASSUME TypeOK, RevokedKeyDies, [Next]_vars PROVE RevokedKeyDies'
  OBVIOUS
<1> USE TTLAssumption, AppOfAssumption, AbsentAssumption
        DEF TypeOK, Idle, Work, Done, RevokedKeyDies
<1>1. ASSUME NEW w \in Workers, NEW k \in Keys, CreateApplication(w, k)
      PROVE RevokedKeyDies'
  BY <1>1 DEF CreateApplication, tables, history
<1>2. ASSUME NEW w \in Workers, NEW k \in Keys, CheckForNewKey(w, k)
      PROVE RevokedKeyDies'
  BY <1>2 DEF CheckForNewKey, tables, history
<1>3. ASSUME NEW w \in Workers, NEW k \in Keys, RevokeKey(w, k)
      PROVE RevokedKeyDies'
  BY <1>3 DEF RevokeKey, tables, history
<1>4. ASSUME NEW w \in Workers, NEW k \in Keys, Miss(w, k) PROVE RevokedKeyDies'
  BY <1>4 DEF Miss, tables, history
<1>5. ASSUME NEW w \in Workers, NEW k \in Keys, NEW match \in BOOLEAN,
             Hit(w, k, match) PROVE RevokedKeyDies'
  BY <1>5 DEF Hit, tables, history
<1>6. ASSUME NEW w \in Workers, NEW a \in Apps, NEW status \in {"active", "suspended"},
             UpdateStatus(w, a, status) PROVE RevokedKeyDies'
  BY <1>6 DEF UpdateStatus, tables, history
<1>7. ASSUME NEW w \in Workers, IssueKey(w) PROVE RevokedKeyDies'
  BY <1>7 DEF IssueKey, tables, history
<1>8. ASSUME NEW w \in Workers, Invalidate(w) PROVE RevokedKeyDies'
  BY <1>8 DEF Invalidate, tables, history
<1>9. ASSUME NEW w \in Workers, NEW match \in BOOLEAN, ReadKey(w, match)
      PROVE RevokedKeyDies'
  <2>1. /\ pc[w] = "key" /\ on[w] \in Keys
        /\ UNCHANGED <<app, key, cache, gone, missed>>
        /\ \/ key[on[w]] = "active" /\ Work(w, "app", on[w]) /\ UNCHANGED said
           \/ Refuse(w)
    <3> HIDE DEF RevokedKeyDies
    <3> QED
      BY <1>9, ReadKeyEffect, ZenonT(40)
  <2>2. CASE Refuse(w)
    BY <2>1, <2>2 DEF Refuse
  <2>3. CASE key[on[w]] = "active" /\ Work(w, "app", on[w]) /\ UNCHANGED said
    BY <2>1, <2>3
  <2> QED
    BY <2>1, <2>2, <2>3
<1>10. ASSUME NEW w \in Workers, ReadApp(w) PROVE RevokedKeyDies'
  <2>1. /\ pc[w] = "app" /\ on[w] \in Keys
        /\ UNCHANGED <<app, key, cache, gone, missed>>
        /\ \/ app[AppOf[on[w]]] = "active" /\ Work(w, "fill", on[w]) /\ UNCHANGED said
           \/ Refuse(w)
    <3> HIDE DEF RevokedKeyDies
    <3> QED
      BY <1>10, ReadAppEffect, Zenon
  <2>2. CASE Refuse(w)
    BY <2>1, <2>2 DEF Refuse
  <2>3. CASE app[AppOf[on[w]]] = "active" /\ Work(w, "fill", on[w]) /\ UNCHANGED said
    BY <2>1, <2>3
  <2> QED
    BY <2>1, <2>2, <2>3
<1>11. ASSUME NEW w \in Workers, Fill(w) PROVE RevokedKeyDies'
  BY <1>11 DEF Fill, tables, history
<1>12. ASSUME NEW w \in Workers, Crash(w) PROVE RevokedKeyDies'
  BY <1>12 DEF Crash, tables, history
<1>13. CASE Tick
  BY <1>13 DEF Tick, tables, history
<1>14. CASE UNCHANGED vars
  BY <1>14 DEF vars
<1> QED
  BY <1>1, <1>2, <1>3, <1>4, <1>5, <1>6, <1>7, <1>8, <1>9, <1>10, <1>11, <1>12, <1>13, <1>14
     DEF Next

------------------------------------------------------------------------------
(* Theorems *)

(* Every step keeps the invariant, ... *)
LEMMA IInvStep == IInv /\ [Next]_vars => IInv'
  BY TypeStep, HasAppStep, IssuesNewStep, GoneZeroStep, StaleStep DEF IInv

(* ... so it holds in every state. *)
LEMMA Invariance == Spec => []IInv
  BY InitIInv, IInvStep, PTL DEF Spec

(* Every reachable state is well formed: in particular a worker is about a  *)
(* key exactly while it handles a request.                                  *)
THEOREM TypeCorrect == Spec => []TypeOK
<1>1. IInv => TypeOK
  BY DEF IInv
<1> QED
  BY Invariance, <1>1, PTL

(* For any number of workers, applications, keys and any TTL: a cached      *)
(* resolution outlives the last moment its key could still be seen as       *)
(* usable by at most TTL ticks, whatever is revoked, suspended, lost or     *)
(* filled late (ApiKeyResolver.verify_key, _cache_set).                     *)
THEOREM StaleBound == Spec => []StaleIsBounded
<1>1. IInv => StaleIsBounded
  BY DEF IInv
<1> QED
  BY Invariance, <1>1, PTL

(* A revoked key is still in the cache only while its own request has yet   *)
(* to delete it, or after a lost DEL or a late fill (revoke_key).           *)
THEOREM RevocationEvicts == Spec => []RevokedKeyDies
<1>1. Init => RevokedKeyDies
  BY DEF Init, RevokedKeyDies
<1> QED
  BY <1>1, TypeCorrect, KeyDiesStep, PTL DEF Spec
==============================================================================
