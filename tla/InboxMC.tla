------------------------------- MODULE InboxMC -------------------------------
(* Inbox with the two workers of docker-compose.yml and a remote actor.  *)
EXTENDS Inbox

CONSTANTS user, post, note, remote, other

A(t, o, f) == [type |-> t, actor |-> remote, object |-> o, form |-> f]

MCSent ==
  <<{A("Delete", post, "id")},
    {A("Delete", post, "object")},
    {A("Follow", user, "id"), A("Like", note, "id"), A("Create", note, "note"),
     A("Undo", user, "object"), A("Accept", user, "other")}>>
MCObjects == {user, post, note}
MCKnown == {user, post}
MCRemotes == {remote, other}
=============================================================================
