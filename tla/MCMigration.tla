------------------------------ MODULE MCMigration ------------------------------
(* Player 1 has two rows of one legacy UUID, player 2 none; player 3 comes later. *)
EXTENDS Migration, TLC

CONSTANTS steve, Steve, alex, u1, vs, vS, va, drawn

Lower == [n \in Name |-> IF n = alex THEN 2 ELSE 1]
Version3 == [n \in Name |-> CASE n = steve -> vs [] n = Steve -> vS [] OTHER -> va]

Row1 == [name |-> steve, uuid |-> u1]
TwoRows == [players |-> [p \in Pid |-> CASE p = 1 -> steve [] p = 2 -> alex [] OTHER -> None],
            mappings |-> [m \in Mapping |-> Row1]]
BadRow == [TwoRows EXCEPT !.mappings = [m \in Mapping |->
              IF m = 1 THEN Row1 ELSE [name |-> alex, uuid |-> Malformed]]]
Sites == {TwoRows, BadRow}

SiteEdits ==
    [players |-> [p \in Pid |-> CASE p = 1 -> {alex} [] p = 2 -> {None} [] OTHER -> {Steve}],
     mappings |-> [m \in Mapping |-> IF m = 2 THEN {[name |-> alex, uuid |-> u1],
                                                    [name |-> steve, uuid |-> va]} ELSE {}]]

Interchangeable == Permutations(Operator) \cup Permutations(MigrationId)
=============================================================================
