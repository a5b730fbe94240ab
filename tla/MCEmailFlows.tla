---------------------------- MODULE MCEmailFlows ------------------------------
(* Small instances of EmailFlows for TLC. *)
EXTENDS EmailFlows, TLC

CONSTANTS u1, u2, a, b, c, d, jpeg, png, r1, r2, r3, r4

MCHome == u1 :> a @@ u2 :> b

Patch(u, e, f) == [op |-> "patch", user |-> u, email |-> e, flag |-> f]
Upload(u, f) == [op |-> "upload", user |-> u, format |-> f]
On_(op, u) == [op |-> op, user |-> u]
Change(u, e) == [op |-> "change", user |-> u, email |-> e]
Resend(e) == [op |-> "resend", email |-> e]
Follow(op, u, e) ==
  {x \in [op : {op}, key : Keys, to : {e}] :
     x.key.user = u /\ x.key.kind = IF op = "verify" THEN "verify" ELSE "change"}

(* Avatars: uploads, a reset and a deletion of one account.                 *)
Avatars ==
  r1 :> {Upload(u1, jpeg)}
  @@ r2 :> {Upload(u1, png), On_("reset", u1), Patch(u1, c, None)}
  @@ r3 :> {On_("reset", u1), On_("delete", u1), On_("erase", u1)}
  @@ r4 :> {}

(* Verification: a link followed twice, a new link, and a PATCH or deletion. *)
Verification ==
  r1 :> {x \in Follow("verify", u1, a) : x.key.at = 0}
  @@ r2 :> {Resend(a)}
  @@ r3 :> Follow("verify", u1, a) \cup {Patch(u1, c, None)}
  @@ r4 :> {}

(* Two changes of address of one account and links that are followed.       *)
Changes ==
  r1 :> {Change(u1, c)}
  @@ r2 :> {Change(u1, d), On_("erase", u1)}
  @@ r3 :> Follow("confirm", u1, c) \cup Follow("confirm", u1, a)
  @@ r4 :> Follow("confirm", u1, c) \cup Follow("confirm", u1, d)

(* Two accounts want one address.                                           *)
Contest ==
  r1 :> {Change(u1, c)}
  @@ r2 :> {x \in Follow("confirm", u1, c) : x.key.at = 0}
  @@ r3 :> {Change(u2, c), Patch(u2, c, TRUE), Change(u2, a)}
  @@ r4 :> Follow("confirm", u2, c) \cup Follow("confirm", u2, a)

MCPlans == {Avatars, Verification, Changes, Contest}
==============================================================================
