------------------------------ MODULE MCGateway --------------------------------
(* Small instances of Gateway for TLC. *)
EXTENDS Gateway, TLC

CONSTANTS u1, u2, ip, a, b, h, k, old, new, r1, r2, r3, r4

MCLogin == 0 :> u1 @@ 1 :> u2
MCFirst == u1 :> old @@ u2 :> new
MCLimit == [x \in Resources |-> IF x = "user" THEN 1 ELSE 2]

Blank == [route |-> "health", address |-> ip, bearer |-> None, key |-> None, header |-> None,
          path |-> None, password |-> None, refresh |-> None, origin |-> None,
          preflight |-> FALSE]

O == [host |-> h, slash |-> FALSE]
OSlash == [host |-> h, slash |-> TRUE]
K == [host |-> k, slash |-> FALSE]

As(p, route, path) == [Blank EXCEPT !.bearer = p, !.route = route, !.path = path]
Sent(c, pw) == [c EXCEPT !.password = pw]
Claims(c, u) == [c EXCEPT !.header = u]
Keyed(c, x) == [c EXCEPT !.key = x]
Refresh(p) == [Blank EXCEPT !.route = "refresh", !.refresh = p]
Logout(p, q) == [Blank EXCEPT !.route = "logout", !.bearer = p, !.refresh = q]
Create(x, os) == [route |-> "create", app |-> x, origins |-> os, active |-> Absent]
Update(x, os, on) == [route |-> "update-app", app |-> x, origins |-> os, active |-> on]
Before(c, o) == [c EXCEPT !.preflight = TRUE, !.origin = o]
Asks(o) == Before(Blank, o)

Nobody == [x \in Apps |-> Absent]
Claimed == a :> [active |-> TRUE, origins |-> {O}] @@ b :> Absent

(* SignOut: a logout, refreshes of its session and a request with its token *)
SignOut ==
  [calls |-> r1 :> {Logout(0, 0), Logout(2, 2)}
             @@ r2 :> {Refresh(0)}
             @@ r3 :> {Refresh(2), As(0, "me", None)}
             @@ r4 :> {},
   apps |-> Nobody, passwords |-> {}, end |-> 4, limited |-> FALSE, failures |-> 1]

(* Overtaken: two logouts of one session, a refresh of it, and preflights.  *)
Overtaken ==
  [calls |-> r1 :> {Logout(0, 0)}
             @@ r2 :> {Refresh(0), Before(Refresh(0), O)}
             @@ r3 :> {Logout(1, 0), Before(Logout(0, 0), O)}
             @@ r4 :> {},
   apps |-> Nobody, passwords |-> {}, end |-> 0, limited |-> FALSE, failures |-> 0]

(* Owner: destructive and plain requests, a logout and a new password.      *)
Owner ==
  [calls |-> r1 :> {Sent(As(0, "delete", u1), old), Sent(As(0, "email-change", u1), old),
                    Sent(As(0, "delete", u2), new), As(0, "deletion-request", u2)}
             @@ r2 :> {Logout(0, 0)}
             @@ r3 :> {Claims(As(0, "sessions", None), u2),
                       Claims(Keyed(As(None, "update", u2), a), u2),
                       Claims(Keyed(As(None, "application", None), a), u2),
                       As(0, "application", None),
                       Keyed(As(None, "application", None), b), As(None, "ready", None),
                       Claims(As(None, "login", None), u2)}
             @@ r4 :> {},
   apps |-> Claimed, passwords |-> {old, new}, end |-> 0, limited |-> FALSE, failures |-> 1]

(* Budget: more requests than a window takes.                               *)
Budgets ==
  [calls |-> r1 :> {Keyed(Blank, a)} @@ r2 :> {Keyed(Blank, a)} @@ r3 :> {Blank} @@ r4 :> {},
   apps |-> Claimed, passwords |-> {}, end |-> 3, limited |-> TRUE, failures |-> 0]

(* Methods: several routes of one path, and answers of Redis that are lost. *)
Methods ==
  [calls |-> r1 :> {As(0, "profile", u1)}
             @@ r2 :> {As(0, "update", u1)}
             @@ r3 :> {As(0, "delete", u1)}
             @@ r4 :> {},
   apps |-> Nobody, passwords |-> {}, end |-> 2, limited |-> TRUE, failures |-> 1]

(* Claims: who may call an origin its own.                                  *)
Registry ==
  [calls |-> r1 :> {Create(b, {O}), Create(b, {OSlash}), Create(b, {K})}
             @@ r2 :> {Update(a, Absent, FALSE), Update(a, {K}, Absent), Update(b, {O}, Absent)}
             @@ r3 :> {Update(a, {O, K}, TRUE), Asks(O), Asks(OSlash)}
             @@ r4 :> {},
   apps |-> Claimed, passwords |-> {}, end |-> 0, limited |-> FALSE, failures |-> 1]

MCPlans == {SignOut, Overtaken, Owner, Budgets, Methods, Registry}
==============================================================================
