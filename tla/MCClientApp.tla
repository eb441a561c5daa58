----------------------------- MODULE MCClientApp -----------------------------
(* Instances of ClientApp: two users sign in, and two connects.            *)
EXTENDS ClientApp

CONSTANTS alice, bob, l1, l2, x1, x2

BothUsers == {alice, bob}
TwoLogins == {l1, l2}
TwoAttempts == {x1, x2}
=============================================================================
