------------------------------- MODULE LoginMC -------------------------------
(* Login with an administrator, who may register keys for anyone, and a     *)
(* user; the keys are fetched in one list.                                  *)
EXTENDS Login, TLC

CONSTANTS admin, alice, s1, s2

MCUsers == {admin, alice}
MCSessions == {s1, s2}
MCAdmins == {s1}
MCOwner == (s1 :> admin) @@ (s2 :> alice)
=============================================================================
