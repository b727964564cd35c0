---------------------------- MODULE TokenPromise ----------------------------
(***************************************************************************)
(* What a store of access tokens promises its handlers, whatever holds the *)
(* tokens: a token becomes valid once, when it is stored, and once it is   *)
(* no longer valid it never is again. How it ends (deletion, signing out,  *)
(* expiry, a restart) is left open; so is how many end in one step.        *)
(* Interface: src/cache/interfaces.go, TokenCache.                         *)
(***************************************************************************)
CONSTANT Tokens

VARIABLES
  live,     \* tokens that would be found now
  seen      \* tokens that have ever been found

promise == <<live, seen>>

Init == live = {} /\ seen = {}

\* A token is found for the first time.
Issue(k) ==
  /\ k \notin seen
  /\ live' = live \cup {k}
  /\ seen' = seen \cup {k}

\* Any number of tokens end.
Drop(ks) ==
  /\ live' = live \ ks
  /\ UNCHANGED seen

Next ==
  \/ \E k \in Tokens : Issue(k)
  \/ \E ks \in SUBSET live : Drop(ks)

Spec == Init /\ [][Next]_promise
=============================================================================
