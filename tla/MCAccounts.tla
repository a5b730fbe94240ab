------------------------------ MODULE MCAccounts ------------------------------
(* Small instances of Accounts for TLC. *)
EXTENDS Accounts, TLC

CONSTANTS r1, r2, r3, r4, home

(* A registration, and three requests that overlap with it or follow it.    *)
MCAsks ==
  r1 :> {"register"}
  @@ r2 :> {"register", "login", "remove"}
  @@ r3 :> {"delete", "remove"}
  @@ r4 :> {"register", "login", "delete"}
==============================================================================
