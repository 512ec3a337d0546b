------------------------------- MODULE PostsMC -------------------------------
(* Posts with two users, one of them logged in twice.                        *)
EXTENDS Posts, TLC

CONSTANTS alice, bob, s1, s2, s3

MCSessions == {s1, s2, s3}
MCOwner == (s1 :> alice) @@ (s2 :> alice) @@ (s3 :> bob)

\* alice's sessions do the same things.
Symmetry == Permutations({s1, s2})
=============================================================================
