------------------------------ MODULE MCApiKeys -------------------------------
(* Small instances of ApiKeys for TLC. *)
EXTENDS ApiKeys, TLC

CONSTANTS k1, k2, w1, w2, shop

(* Both keys belong to one application. *)
MCAppOf == k1 :> shop @@ k2 :> shop
==============================================================================
