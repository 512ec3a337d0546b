----------------------------- MODULE AccountsMC -----------------------------
(* Accounts with the usernames of three ids: the admin's, and two that are  *)
(* registered one after the other under the same name.                      *)
EXTENDS Accounts, TLC

CONSTANTS root, alice, alice2

MCIds == {root, alice, alice2}
MCName == [u \in MCIds |-> IF u = root THEN "root" ELSE "alice"]

\* Where all connections are used for the same commands.
Symmetry == Permutations(Sessions)

\* Where no property looks at decided, recorded and unaudited, which no step
\* reads.  No step reads late and unchecked either, and MaintenanceDrains looks
\* at their difference alone; of the accounts that are gone for good, only how
\* many passwords were generated matters.
RacesView ==
  <<users, audited, maintenance, sess, snap, cmd, faults, NewPassword,
    [u \in Ids |-> IF Present(u) THEN <<issued[u], sanctions[u]>> ELSE <<issued[u] # {}>>],
    [s \in Sessions |-> late[s] - unchecked[s]]>>
=============================================================================
