----------------------------- MODULE MCBruteForce -----------------------------
(* A small instance of BruteForce for TLC. *)
EXTENDS BruteForce, TLC

CONSTANTS r1, r2, r3, r4, home, work, lan, wan

At(e, i, results) == {[email |-> e, ip |-> i, result |-> x] : x \in results}

(* Failures on one address from two places, and on two addresses from one.  *)
MCAsks ==
  r1 :> At(home, lan, {"wrong"})
  @@ r2 :> At(home, lan, {"wrong", "right"})
  @@ r3 :> At(home, wan, {"right"})
  @@ r4 :> At(work, lan, {"no_profile", "no_credential"})
==============================================================================
