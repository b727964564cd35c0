---------------------------- MODULE MCSharedAuth ----------------------------
(***************************************************************************)
(* Instances of SharedAuth for TLC: the client calls, the initial rows and *)
(* the symmetry that the configurations choose from.                       *)
(***************************************************************************)
EXTENDS SharedAuthInv, TLC

CONSTANTS alice, bob, steve, alex, ma, mb, p1, p2, c1, c2, s1, i1, i2

(* Arguments. *)
LoginCall(login, client) ==
    [NoCall EXCEPT !.op = "authenticate", !.login = login, !.password = p1, !.client = client]
SignoutCall(login) == [NoCall EXCEPT !.op = "signout", !.login = login, !.password = p1]
TokenCall(o, h, client) == [NoCall EXCEPT !.op = o, !.token = h, !.client = client]
RefreshCall(h, client, p) == [TokenCall("refresh", h, client) EXCEPT !.selected = p]
JoinCall(h, p, s, i) ==
    [TokenCall("join", h, None) EXCEPT !.selected = p, !.server = s, !.ip = i]
HasJoinedCall(n, s, i) ==
    [NoCall EXCEPT !.op = "hasJoined", !.login = n, !.server = s, !.ip = i]

(* Logins, refreshes and revocations of the tokens of one account. *)
TokenCalls ==
    {LoginCall(ma, c1), SignoutCall(ma), NoCall}
        \cup {RefreshCall(h, c1, None) : h \in Hash}
        \cup {TokenCall("invalidate", h, c1) : h \in Hash}

(* Joins of one server with the tokens of a player, from two addresses. *)
SessionCalls ==
    {LoginCall(steve, c1), HasJoinedCall(steve, s1, i1), NoCall}
        \cup {JoinCall(h, 1, s1, i) : h \in Hash, i \in {i1, i2}}

(* Logins by e-mail and by name, and a choice of profile, across the gate. *)
GateCalls ==
    {LoginCall(ma, c1), LoginCall(alex, c1)}
        \cup {TokenCall("validate", h, c) : h \in Hash, c \in {None, c1}}
        \cup {RefreshCall(h, None, 1) : h \in Hash}

(* Logins by name, Signout, and the use of a token. *)
LoginCalls ==
    {LoginCall(alex, c1), SignoutCall(alex)}
        \cup {TokenCall("validate", h, c1) : h \in Hash}

(* Two accounts whose calls wait for each other: a server id is all they share. *)
WaitingCalls ==
    {LoginCall(steve, c1), LoginCall(alex, c1), HasJoinedCall(steve, s1, None)}
        \cup {RefreshCall(h, c1, None) : h \in Hash}
        \cup {JoinCall(h, p, s1, i1) : h \in Hash, p \in Pid}

(* Initial rows. *)
OpenOrBanned == {0, -1}
MailOf(u) == IF u = bob /\ mb \in Email THEN mb ELSE ma
Users == [u \in Uid |-> [password |-> p1, permission |-> 0, verified |-> TRUE, email |-> MailOf(u)]]

\* Player 1 is Alice's steve; player 2, where there is one, her alex.
Players == [p \in Pid |-> [owner |-> alice, name |-> IF p = 1 THEN steve ELSE alex]]
OneEach == [p \in Pid |-> IF p = 1 THEN [owner |-> alice, name |-> steve]
                                   ELSE [owner |-> bob, name |-> alex]]
OneActive == [p \in Pid |-> IF p = 1 THEN "active" ELSE NoRow]
OneBlocked == [p \in Pid |-> IF p = 1 THEN "blocked" ELSE NoRow]

Interchangeable == Permutations(Tx) \cup Permutations(Hash)
SameNodes == Permutations(Tx)
=============================================================================
