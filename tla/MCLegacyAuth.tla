--------------------------- MODULE MCLegacyAuth ---------------------------
(***************************************************************************)
(* TLC instance of LegacyAuth: one account with a player and one without    *)
(* any, two requests at a time, every backend.                             *)
(***************************************************************************)
EXTENDS LegacyAuth, TLC

CONSTANTS u1, u2, p1, k1

MCUsers == {u1, u2}
MCProfiles == {p1}
MCOwner == p1 :> u1
Bound(ks, js, f, c) == [tokens |-> ks, joins |-> js, faults |-> f, crashes |-> c]
MCSettings ==
  {"memory", "file", "database"} \X {Bound(Tokens, {}, 1, 0), Bound(Tokens, {}, 0, 1), Bound({k1}, Joins, 1, 1)}
  \cup {"redis"} \X {Bound(Tokens, {}, 0, 0), Bound({k1}, {}, 1, 1), Bound({k1}, Joins, 1, 0)}
MCSymmetry == Permutations(Tokens \ {k1}) \cup Permutations(Threads) \cup Permutations(Joins)
=============================================================================
