---------------------------- MODULE MCFileStore ----------------------------
(***************************************************************************)
(* TLC instance of FileStore: two accounts, two players, one texture.      *)
(***************************************************************************)
EXTENDS FileStore, TLC

CONSTANTS e1, e2, x1, x2, n1, n2

MCDefaultUsers == e1 :> 1 @@ e2 :> None
MCDefaultPlayers == x1 :> [uid |-> 1, name |-> n1] @@ x2 :> None
Bound(changes, faults, crashes) == [changes |-> changes, faults |-> faults, crashes |-> crashes]
MCBounds == {Bound(3, 0, 1), Bound(2, 1, 2)}
=============================================================================
