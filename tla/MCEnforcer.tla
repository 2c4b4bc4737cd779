----------------------------- MODULE MCEnforcer -----------------------------
(* Small instances of Enforcer. *)
EXTENDS Enforcer

CONSTANTS h1, h2, h3, u1, p1

ThreeHandlers == {h1, h2, h3}
OneUser == {u1}
OneProvider == {p1}

ZeroOrOne == {0, 1}
=============================================================================
