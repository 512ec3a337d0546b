------------------------------ MODULE SocialMC ------------------------------
(* Social with two users, one of them logged in twice.                      *)
EXTENDS Social, TLC

CONSTANTS alice, bob, s1, s2, s3

MCSessions == {s1, s2, s3}
MCOwner == (s1 :> alice) @@ (s2 :> alice) @@ (s3 :> bob)

\* alice's sessions do the same things.
Symmetry == Permutations({s1, s2})

\* The state without what is only remembered of rows that are gone: no action
\* and no property looks at it again.
Stored == {f.id : f \in follows}
Held == {f.remote : f \in follows} \cup {cmd[s].remote : s \in {t \in Sessions : Doing(t, "follow_remote")}}
Live ==
  <<follows, blocks, actors, cmd, event, made, minted, announced \cap Stored, lost \cap Stored,
    {x \in madeFor : x[1] \in Held}, answered \cap Stored,
    [p \in blocks \ cut |-> since[p]], cut \cap blocks, faults>>
=============================================================================
