--------------------------- MODULE MCSessionStore ----------------------------
(* Small instances of SessionStore for TLC. *)
EXTENDS SessionStore, TLC

CONSTANTS r1, r2, r3, r4, alice, bob

By(u, ops) == {<<o, u>> : o \in ops}

(* Four requests: two logins of alice, and two requests that revoke, rotate *)
(* or create, one of them maybe by bob.                                     *)
MCAsks ==
  r1 :> By(alice, {"create"})
  @@ r2 :> By(alice, {"create"})
  @@ r3 :> By(alice, {"revoke_all"}) \cup By(None, {"revoke", "rotate"})
  @@ r4 :> By(alice, {"create", "revoke_all", "revoke_by_id"})
           \cup By(bob, {"create", "revoke_by_id"}) \cup By(None, {"validate", "rotate"})
==============================================================================
