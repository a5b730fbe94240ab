--------------------------- MODULE MCPasswordReset ----------------------------
(* Small instances of PasswordReset for TLC. *)
EXTENDS PasswordReset, TLC

CONSTANTS r1, r2, r3, p0, p1, p2

Use(op, P) == {<<op, p>> : p \in P}

(* A login that may mail a token, a reset, and a third request: a login or  *)
(* password check with the old or the new password, or another reset.       *)
MCAsks ==
  r1 :> Use("login", {p0})
  @@ r2 :> Use("reset", {p1})
  @@ r3 :> Use("reset", {p1, p2}) \cup Use("login", {p0, p1}) \cup Use("verify", {p0})
==============================================================================
