-------------------------- MODULE MCIdentityDirectory --------------------------
(***************************************************************************)
(* Instances of IdentityDirectory for TLC.  Players 2 and 3 are newer than *)
(* the migration; player 1 is a migrated one, except among collisions.     *)
(***************************************************************************)
EXTENDS IdentityDirectory, TLC

CONSTANTS alice, bob, steve, alex, notch, x1, x3, x4, x5

NamesCall(names) == [NoCall EXCEPT !.names = names]
NameCall(n) == [NamesCall({n}) EXCEPT !.op = "name"]
EnsureCall(p) == [NoCall EXCEPT !.op = "ensure", !.pid = p]
LoginCall(u) == [NoCall EXCEPT !.op = "login", !.uid = u]
UuidCall(x) == [NoCall EXCEPT !.op = "uuid", !.uuid = x]

PlayerOf(u, n) == [owner |-> u, name |-> n]

(* Lookups while alex changes hands and name and a new alex appears. *)
Lookups == {NamesCall({steve, alex}), NameCall(alex), UuidCall(x1), LoginCall(alice)}
OldAlex == [p \in Pid |-> CASE p = 1 -> PlayerOf(alice, steve)
                            [] p = 2 -> PlayerOf(alice, alex)
                            [] p = 3 -> NoRow]
NewAlex == [p \in Pid |-> CASE p = 1 -> {}
                            [] p = 2 -> {NoRow, PlayerOf(alice, steve), PlayerOf(bob, alex)}
                            [] p = 3 -> {PlayerOf(alice, alex)}]
Unmapped == [p \in Pid |-> NoRow]

(* Allocation for two new players, in a batch, at login and one by one, with failures: the
   migrated player is retired and a reserved UUID may be drawn. *)
Allocations == {NamesCall({alex, notch}), LoginCall(alice), EnsureCall(2), EnsureCall(3)}
ThreePlayers == [p \in Pid |-> PlayerOf(alice, CASE p = 1 -> steve [] p = 2 -> alex [] p = 3 -> notch)]
NoEdits == [p \in Pid |-> {}]
OneRetired == [p \in Pid |-> IF p = 1 THEN [state |-> "retired", uuid |-> x1] ELSE NoRow]

(* Batches and logins over three new players that overlap: candidates may collide. *)
Batches == {NamesCall({steve, alex}), NamesCall({alex, notch}), LoginCall(alice)}

SameNodes == Permutations(Tx)
DrawnAlike == Permutations(Tx) \cup Permutations(Uuid \ {x1})
AllAlike == Permutations(Tx) \cup Permutations(Uuid)
================================================================================
