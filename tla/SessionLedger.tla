---------------------------- MODULE SessionLedger ----------------------------
(***************************************************************************)
(* What session-service promises the rest of Identyx, with no requests,    *)
(* transactions or row locks: a ledger of sessions.  A session is opened   *)
(* once for an owner, holds one refresh token at a time, and ends for      *)
(* good.  A refresh token is written in the ledger at most once, so a      *)
(* token that was replaced or whose session ended never comes back.        *)
(* SessionStore implements it, and so do the sessions of Gateway.          *)
(***************************************************************************)

CONSTANTS
  Sessions,  \* names of sessions
  Tokens,    \* refresh tokens
  Users,     \* owners
  None       \* no token, no owner

VARIABLES
  state,     \* state[s]: "none", "live" or "ended"
  owner,     \* owner[s]: the user the session was opened for
  token,     \* token[s]: the token the session answers to
  spent      \* every token written in the ledger so far, or thrown away

ledger == <<state, owner, token, spent>>

Live == {s \in Sessions : state[s] = "live"}

Ended(E) == [s \in Sessions |-> IF s \in E THEN "ended" ELSE state[s]]

(* Sessions may be live at the start, each with a token of its own. *)
Init ==
  /\ state \in [Sessions -> {"none", "live"}]
  /\ owner \in [Sessions -> Users \cup {None}]
  /\ token \in [Sessions -> Tokens \cup {None}]
  /\ \A s \in Sessions : s \in Live <=> owner[s] # None
  /\ \A s \in Sessions : s \in Live <=> token[s] # None
  /\ \A s, t \in Live : token[s] = token[t] => s = t
  /\ spent = {token[s] : s \in Live}

(* A login opens session s; it may end one older session of the same user. *)
Open(s, u, t, E) ==
  /\ state[s] = "none"
  /\ t \notin spent
  /\ E \subseteq Live
  /\ \A e, f \in E : e = f
  /\ \A e \in E : owner[e] = u
  /\ state' = [Ended(E) EXCEPT ![s] = "live"]
  /\ owner' = [owner EXCEPT ![s] = u]
  /\ token' = [token EXCEPT ![s] = t]
  /\ spent' = spent \cup {t}

(* A refresh replaces the token of session s.  The session keeps its state: *)
(* a refresh that meets a revocation on its way does not undo it.           *)
Roll(s, t) ==
  /\ state[s] # "none"
  /\ t \notin spent
  /\ token' = [token EXCEPT ![s] = t]
  /\ spent' = spent \cup {t}
  /\ UNCHANGED <<state, owner>>

(* A token that was generated for a refresh which came to nothing.         *)
Waste(t) ==
  /\ t \notin spent
  /\ spent' = spent \cup {t}
  /\ UNCHANGED <<state, owner, token>>

(* A logout, a device revocation or a revocation of every device.  All the *)
(* sessions it ends have one owner.                                        *)
End(E) ==
  /\ E \subseteq Live
  /\ \A e, f \in E : owner[e] = owner[f]
  /\ state' = Ended(E)
  /\ UNCHANGED <<owner, token, spent>>

Next ==
  \/ \E s \in Sessions, t \in Tokens \ spent :
       \/ \E u \in Users, E \in SUBSET Live : Open(s, u, t, E)
       \/ Roll(s, t)
  \/ \E t \in Tokens \ spent : Waste(t)
  \/ \E E \in SUBSET Live : End(E)

Spec == Init /\ [][Next]_ledger
==============================================================================
