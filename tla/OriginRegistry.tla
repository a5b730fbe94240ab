---------------------------- MODULE OriginRegistry -----------------------------
(***************************************************************************)
(* application-service: the origins that applications claim, who resolves  *)
(* them, and the resolution of an API key the gateway asks for.            *)
(*                                                                         *)
(* An application has one key here and is named by it; ApiKeys has the     *)
(* life of keys and the timing of the cache, of which this module keeps    *)
(* that an entry answers until it is gone and nothing else removes it.     *)
(***************************************************************************)
EXTENDS Naturals

CONSTANTS
  Apps,    \* applications, and their keys
  Hosts,   \* origins up to a trailing slash
  Static,  \* settings.cors_origins, as hosts
  Absent   \* no application, no entry, no field

Origins == [host : Hosts, slash : BOOLEAN]
Application == [active : BOOLEAN, origins : SUBSET Origins]

ASSUME AbsentOriginAssumption ==
  /\ Absent \notin Apps \cup BOOLEAN \cup Application
  /\ \A os \in SUBSET Origins : Absent # os

VARIABLES
  app,     \* app[a]: the committed row of application a, or Absent
  cached,  \* cached[a]: the origins in the cached resolution of a, or Absent
  claim,   \* history, claim[a]: the request that wrote the origins of a
  asleep   \* history: applications that are or have been suspended

registryVars == <<app, cached, claim, asleep>>

------------------------------------------------------------------------------
Matching(os) == {a \in Apps : app[a] # Absent /\ app[a].active /\ app[a].origins \cap os # {}}

(* Mutation: the conflicts of an update are not looked up. *)
Available_Unchecked(a, os) == TRUE

(* _ensure_origins_available: origins are compared as they were written.    *)
Available(a, os) == Matching(os) \subseteq {a}

Normal(o) == [o EXCEPT !.slash = FALSE]

(* resolve_by_origin strips the slash of the question, not of the rows.     *)
Resolves(o) == Matching({Normal(o)}) # {}

IsStatic(o) == o.host \in Static

------------------------------------------------------------------------------
Created(c) == [active |-> TRUE, origins |-> c.origins]

(* ApplicationUpdate: fields that are None are left out. *)
Updated(c) ==
  [app[c.app] EXCEPT !.origins = IF c.origins = Absent THEN @ ELSE c.origins,
                     !.active = IF c.active = Absent THEN @ ELSE c.active]

Write(c, r) ==
  /\ app' = [app EXCEPT ![c.app] = IF c.route = "create" THEN Created(c) ELSE Updated(c)]
  /\ claim' = [claim EXCEPT ![c.app] = IF c.origins = Absent THEN @ ELSE r]
  /\ asleep' = asleep \cup {a \in {c.app} : c.active = FALSE}
  /\ UNCHANGED cached

(* verify_key answers from the cache, else from the tables. *)
Active(a) == app[a] # Absent /\ app[a].active
Accepted(a) == cached[a] # Absent \/ Active(a)
Resolution(a) == IF cached[a] # Absent THEN cached[a] ELSE app[a].origins

(* The entry is written after a resolution from the tables, Redis willing.  *)
Fill(a) == cached' \in {cached, [cached EXCEPT ![a] = Resolution(a)]}

Evict(a) ==
  /\ cached[a] # Absent
  /\ cached' = [cached EXCEPT ![a] = Absent]
  /\ UNCHANGED <<app, claim, asleep>>

------------------------------------------------------------------------------
RegistryOK ==
  /\ app \in [Apps -> Application \cup {Absent}]
  /\ cached \in [Apps -> (SUBSET Origins) \cup {Absent}]
  /\ asleep \subseteq Apps

Shared(a, b) == Active(a) /\ Active(b) /\ app[a].origins \cap app[b].origins # {}
==============================================================================
