-------------------------- MODULE MCUuidDirectory --------------------------
(***************************************************************************)
(* TLC instance of UuidDirectory: two nodes, of which one serves two       *)
(* requests at once, two spellings of one name and another name, caches of *)
(* one entry. The table starts empty, or with three rows: two of one UUID  *)
(* under two names, two of one name with different UUIDs.                  *)
(***************************************************************************)
EXTENDS UuidDirectory, TLC

CONSTANTS t1, t2, t3, x1, x2, a, A, b, va, vA, vb, r1, r2, r3

MCNodeOf == t1 :> x1 @@ t2 :> x2 @@ t3 :> x2
MCWeight == a :> 1 @@ A :> 1 @@ b :> 2
MCV3 == a :> va @@ A :> vA @@ b :> vb
Starting(v, w, ps, rs, bounds) ==
  [algorithm : {x1 :> v @@ x2 :> w}, players : {ps}, rows : {rs}, budget : bounds]
Bound(calls, edits, faults, restarts) ==
  [calls |-> calls, edits |-> edits, faults |-> faults, restarts |-> restarts]
Few == {Bound(3, 0, 1, 0), Bound(2, 0, 1, 1), Bound(2, 1, 1, 0)}
Shared == <<Map(A, vb), Map(b, vb), Map(A, va)>>
MCStarts ==
  Starting("v3", "v3", {a, b}, <<>>, Few)
    \cup Starting("v4", "v4", {a, b}, <<>>, Few)
    \cup Starting("v4", "v3", {a}, <<>>, Few \cup {Bound(2, 2, 0, 0), Bound(2, 1, 0, 1)})
    \cup Starting("v3", "v4", {a, b}, Shared, Few)
MCSymmetry == {p @@ q : p \in Permutations({r1, r2, r3}), q \in Permutations({t2, t3})}
=============================================================================
