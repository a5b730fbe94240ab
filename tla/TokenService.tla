----------------------------- MODULE TokenService ------------------------------
(***************************************************************************)
(* token-service: pairs of an access token and a refresh token, and the    *)
(* blacklist in Redis (key blacklist:{jti}).                               *)
(*                                                                         *)
(* The clock runs in ticks, PerSecond of them in a second, because exp is  *)
(* a whole second, a token is compared with the clock in whole seconds and *)
(* the entry of the blacklist lives a whole number of seconds from a       *)
(* moment that is not.  A pair stands for its two tokens; the refresh      *)
(* token is opaque here, session-service compares its hash.                *)
(***************************************************************************)
EXTENDS Naturals, FiniteSets

CONSTANTS
  Users,      \* user ids
  MaxPair,    \* bound: pairs are 0..MaxPair, in the order they are generated
  PerSecond,  \* ticks of a second
  Life,       \* settings.access_token_expire_minutes, in seconds
  None        \* no token, no entry

ASSUME ClockAssumption == PerSecond \in Nat \ {0} /\ Life \in Nat \ {0}
ASSUME PairsAssumption == MaxPair \in Nat
ASSUME AbsentAssumption == None \notin Nat \cup Users \cup [user : Users, exp : Nat]

VARIABLES
  now,    \* the clock, in ticks
  token,  \* token[p]: user and expiry of the access token of pair p, or None
  black   \* black[p]: the tick at which the entry of p disappears, or None

tokenVars == <<now, token, black>>

Pairs == 0..MaxPair
Token == [user : Users, exp : Nat]

Second == now \div PerSecond
Expiry(p) == token[p].exp * PerSecond

------------------------------------------------------------------------------
Issued == {p \in Pairs : token[p] # None}
NewPair == Cardinality(Issued)

GeneratePair(u) ==
  /\ NewPair \in Pairs
  /\ token' = [token EXCEPT ![NewPair] = [user |-> u, exp |-> Second + Life]]

(* python-jose refuses a token once the second after exp has begun.         *)
Decodes(p) == token[p] # None /\ Second <= token[p].exp

Blacklisted(p) == black[p] # None /\ now < black[p]

(* Mutation: the blacklist is not asked. *)
Verifies_Unlisted(p) == Decodes(p)

Verifies(p) == Decodes(p) /\ ~Blacklisted(p)

(* Mutation: the time to live is what is left in minutes, not in seconds.   *)
Ttl_Short(p) == IF now < Expiry(p) THEN (Expiry(p) - now) \div (3 * PerSecond) ELSE 0

Ttl(p) == IF now < Expiry(p) THEN (Expiry(p) - now) \div PerSecond ELSE 0

(* SET with EX, when a whole second is left. *)
RevokePair(p) ==
  black' = IF Decodes(p) /\ Ttl(p) > 0
           THEN [black EXCEPT ![p] = now + Ttl(p) * PerSecond]
           ELSE black

Tick(end) ==
  /\ now < end
  /\ now' = now + 1
  /\ UNCHANGED <<token, black>>

------------------------------------------------------------------------------
TokensOK ==
  /\ now \in Nat
  /\ token \in [Pairs -> Token \cup {None}]
  /\ black \in [Pairs -> Nat \cup {None}]

(* services/token_service.py: the entry has the "Remaining Life of the      *)
(* Token" and "automatically disappears after its natural expiration".      *)
(* Truncation and the comparison in whole seconds leave a revoked token up  *)
(* to two seconds, the last ones it is accepted in.                         *)
LastSeconds(p) == now + PerSecond > Expiry(p)
==============================================================================
