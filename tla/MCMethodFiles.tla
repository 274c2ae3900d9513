---------------------------- MODULE MCMethodFiles ----------------------------
(* MethodFiles for TLC: two clients and two names, which are alike.          *)
EXTENDS MethodFiles, TLC

CONSTANTS c1, c2, a, b, empty, mixed, none

Alike == Permutations({c1, c2}) \cup Permutations({a, b})
=============================================================================
