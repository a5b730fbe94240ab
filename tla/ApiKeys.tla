------------------------------- MODULE ApiKeys --------------------------------
(***************************************************************************)
(* application-service: API keys, and the Redis cache of key resolutions   *)
(* (key apikey:{key_id}) in front of the tables.                           *)
(*                                                                         *)
(* A publishable and secret pair is two keys that live separate lives; a   *)
(* request that issues a pair is modelled for one key of it.  Applications *)
(* and keys are never deleted.  A worker is one request handler at a time. *)
(***************************************************************************)
EXTENDS Naturals

CONSTANTS
  Workers,   \* concurrent requests
  Apps,      \* application ids
  Keys,      \* key ids
  AppOf,     \* AppOf[k]: the application key k is issued to
  TTL,       \* settings.api_key_cache_ttl_seconds, in ticks of the clock
  None       \* no entry, no key

ASSUME TTLAssumption == TTL \in Nat \ {0}
ASSUME AppOfAssumption == AppOf \in [Keys -> Apps]
ASSUME AbsentAssumption == None \notin Nat \cup Keys

VARIABLES
  app,       \* app[a]: status of application a, or "absent"
  key,       \* key[k]: status of key k, or "absent"
  cache,     \* cache[k]: ticks the entry of k has left, or None
  pc,        \* pc[w]: what the request on worker w does next
  on,        \* on[w]: the key it is about
  said,      \* the last answer of verify_key: <<key, accepted>>
  gone,      \* history, gone[k]: ticks since k is out of use, see StaleIsBounded
  missed     \* history: keys whose cache entry outlived their revocation

vars == <<app, key, cache, pc, on, said, gone, missed>>
tables == <<app, key>>
history == <<gone, missed>>

------------------------------------------------------------------------------
Init ==
  /\ app = [a \in Apps |-> "absent"]
  /\ key = [k \in Keys |-> "absent"]
  /\ cache = [k \in Keys |-> None]
  /\ pc = [w \in Workers |-> "idle"]
  /\ on = [w \in Workers |-> None]
  /\ said = <<None, FALSE>>
  /\ gone = [k \in Keys |-> 0]
  /\ missed = {}

Usable(k) == key[k] = "active" /\ app[AppOf[k]] = "active"

(* A verification that has read the tables and may still write the entry.   *)
Filling(k) ==
  \E w \in Workers : /\ on[w] = k
                     /\ \/ pc[w] = "fill"
                        \/ pc[w] = "app" /\ app[AppOf[k]] = "active"

(* Such a verification may have seen k usable; else k is out of use, and    *)
(* gone[k] counts the ticks.                                                *)
InUse(k) == Usable(k) \/ key[k] = "absent" \/ Filling(k)

Work(w, step, k) ==
  /\ pc' = [pc EXCEPT ![w] = step]
  /\ on' = [on EXCEPT ![w] = k]

Idle(w) == pc[w] = "idle"
Done(w) == Work(w, "idle", None)

------------------------------------------------------------------------------
(* Administration *)

CreateApplication(w, k) ==
  /\ Idle(w)
  /\ app[AppOf[k]] = "absent" /\ key[k] = "absent"
  /\ app' = [app EXCEPT ![AppOf[k]] = "active"]
  /\ key' = [key EXCEPT ![k] = "active"]
  /\ UNCHANGED <<cache, pc, on, said, history>>

(* create_key checks the application, then inserts and commits. *)
CheckForNewKey(w, k) ==
  /\ Idle(w)
  /\ app[AppOf[k]] = "active" /\ key[k] = "absent"
  /\ \A v \in Workers : pc[v] = "issue" => on[v] # k
  /\ Work(w, "issue", k)
  /\ UNCHANGED <<tables, cache, said, history>>

IssueKey(w) ==
  /\ pc[w] = "issue"
  /\ key' = [key EXCEPT ![on[w]] = "active"]
  /\ Done(w)
  /\ UNCHANGED <<app, cache, said, history>>

(* Mutation: the pattern of ApplicationUpdate.status is dropped. *)
UpdateStatus_Unchecked(w, a, status) ==
  /\ Idle(w)
  /\ app[a] # "absent"
  /\ app' = [app EXCEPT ![a] = "paused"]
  /\ UNCHANGED <<key, cache, pc, on, said, history>>

(* PATCH /applications/{id} with a status: no cache entry is touched. *)
UpdateStatus(w, a, status) ==
  /\ Idle(w)
  /\ app[a] # "absent"
  /\ app' = [app EXCEPT ![a] = status]
  /\ UNCHANGED <<key, cache, pc, on, said, missed>>
  /\ gone' = [k \in Keys |-> IF InUse(k)' THEN 0 ELSE gone[k]]

(* Mutation: the DEL is forgotten. *)
RevokeKey_NoInvalidation(w, k) ==
  /\ Idle(w)
  /\ key[k] # "absent"
  /\ key' = [key EXCEPT ![k] = "revoked"]
  /\ UNCHANGED <<app, cache, pc, on, said, history>>

(* revoke_key up to its COMMIT: a key that is revoked already is taken too. *)
RevokeKey(w, k) ==
  /\ Idle(w)
  /\ key[k] # "absent"
  /\ key' = [key EXCEPT ![k] = "revoked"]
  /\ Work(w, "del", k)
  /\ UNCHANGED <<app, cache, said, history>>

(* DEL apikey:{key_id}; an error is logged and the request succeeds.        *)
Invalidate(w) ==
  /\ pc[w] = "del"
  /\ \/ /\ cache' = [cache EXCEPT ![on[w]] = None]
        /\ missed' = missed \ {on[w]}
     \/ /\ missed' = missed \cup {on[w]}
        /\ UNCHANGED cache
  /\ Done(w)
  /\ UNCHANGED <<tables, said, gone>>

------------------------------------------------------------------------------
(* verify_key *)

(* Mutation: the entry is written again on every hit. *)
Hit_Sliding(w, k, match) ==
  /\ Idle(w) /\ cache[k] # None
  /\ said' = <<k, match>>
  /\ cache' = [cache EXCEPT ![k] = TTL]
  /\ UNCHANGED <<tables, pc, on, history>>

(* An entry was active when it was written; the secret is checked again.    *)
Hit(w, k, match) ==
  /\ Idle(w) /\ cache[k] # None
  /\ said' = <<k, match>>
  /\ UNCHANGED <<tables, cache, pc, on, history>>

(* No entry, or Redis cannot be read. *)
Miss(w, k) ==
  /\ Idle(w)
  /\ Work(w, "key", k)
  /\ UNCHANGED <<tables, cache, said, history>>

Refuse(w) ==
  /\ said' = <<on[w], FALSE>>
  /\ Done(w)

ReadKey(w, match) ==
  /\ pc[w] = "key"
  /\ IF key[on[w]] = "active" /\ match
       THEN Work(w, "app", on[w]) /\ UNCHANGED said
       ELSE Refuse(w)
  /\ UNCHANGED <<tables, cache, history>>

ReadApp(w) ==
  /\ pc[w] = "app"
  /\ IF app[AppOf[on[w]]] = "active"
       THEN Work(w, "fill", on[w]) /\ UNCHANGED said
       ELSE Refuse(w)
  /\ UNCHANGED <<tables, cache, history>>

(* SET apikey:{key_id} with its expiry; an error is logged.                 *)
Fill(w) ==
  /\ pc[w] = "fill"
  /\ \/ /\ cache' = [cache EXCEPT ![on[w]] = TTL]
        /\ missed' = IF key[on[w]] = "revoked" THEN missed \cup {on[w]} ELSE missed
     \/ UNCHANGED <<cache, missed>>
  /\ said' = <<on[w], TRUE>>
  /\ Done(w)
  /\ UNCHANGED <<tables, gone>>

------------------------------------------------------------------------------
(* The process of a request dies, and the clock. *)

Crash(w) ==
  /\ ~Idle(w)
  /\ Done(w)
  /\ missed' = IF pc[w] = "del" THEN missed \cup {on[w]} ELSE missed
  /\ UNCHANGED <<tables, cache, said, gone>>

Tick ==
  /\ cache' = [k \in Keys |->
                 IF cache[k] \in {None, 1} THEN None ELSE cache[k] - 1]
  /\ gone' = [k \in Keys |->
                IF InUse(k) THEN 0
                ELSE IF gone[k] < TTL THEN gone[k] + 1 ELSE TTL]
  /\ missed' = {k \in missed : cache'[k] # None}
  /\ UNCHANGED <<tables, pc, on, said>>

Next ==
  \/ \E w \in Workers, k \in Keys :
       \/ CreateApplication(w, k) \/ CheckForNewKey(w, k)
       \/ RevokeKey(w, k) \/ Miss(w, k)
       \/ \E match \in BOOLEAN : Hit(w, k, match)
  \/ \E w \in Workers, a \in Apps, status \in {"active", "suspended"} :
       UpdateStatus(w, a, status)
  \/ \E w \in Workers :
       \/ IssueKey(w) \/ Invalidate(w) \/ ReadApp(w) \/ Fill(w) \/ Crash(w)
       \/ \E match \in BOOLEAN : ReadKey(w, match)
  \/ Tick

Spec == Init /\ [][Next]_vars

------------------------------------------------------------------------------
(* Properties *)

TypeOK ==
  /\ app \in [Apps -> {"absent", "active", "suspended"}]
  /\ key \in [Keys -> {"absent", "active", "revoked"}]
  /\ cache \in [Keys -> (1..TTL) \cup {None}]
  /\ pc \in [Workers -> {"idle", "issue", "del", "key", "app", "fill"}]
  /\ on \in [Workers -> Keys \cup {None}]
  /\ said \in (Keys \cup {None}) \X BOOLEAN
  /\ gone \in [Keys -> 0..TTL]
  /\ missed \subseteq Keys
  /\ \A w \in Workers : Idle(w) <=> on[w] = None

(* revoke_key: "the revoked key dies immediately, no TTL wait".  Once its   *)
(* request is over, a revoked key has a cache entry only if the DEL was     *)
(* lost or a verification that read the tables before the revocation wrote  *)
(* the entry after it.                                                      *)
RevokedKeyDies ==
  \A k \in Keys : key[k] = "revoked" /\ cache[k] # None =>
    \/ k \in missed
    \/ \E w \in Workers : pc[w] = "del" /\ on[w] = k

(* "The TTL is only a safety net": with every DEL lost, with fills that     *)
(* overtake a revocation and for suspensions, which invalidate nothing, an  *)
(* entry is served for at most TTL ticks after the key became unusable and  *)
(* the last verification that saw it usable has ended.                      *)
StaleIsBounded ==
  \A k \in Keys : cache[k] # None => cache[k] + gone[k] <= TTL

(* verify_key: "Returns None when ... the application is suspended (even    *)
(* with an active key)".  Checked as a documented promise: a key is not     *)
(* accepted on a cache hit while its application is suspended.              *)
SuspendedRefused ==
  [][\A k \in Keys : said' = <<k, TRUE>> /\ said # said' /\ UNCHANGED pc =>
       app[AppOf[k]] # "suspended"]_vars
==============================================================================
