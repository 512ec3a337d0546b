---------------------------- MODULE InboxContract ----------------------------
(***************************************************************************)
(* What the inbox promises a remote server for each activity it answered   *)
(* with 202 Accepted, whatever the number of workers behind it and however *)
(* often they stop: the activity is handled at least once before it is     *)
(* settled, settling is for good, and the verdict that is kept for it is   *)
(* what handling this very activity came to.                               *)
(*                                                                         *)
(* Inbox.tla implements this contract.                                     *)
(***************************************************************************)
CONSTANTS
  Events,          \* the activities that may be sent
  Results,         \* what handling one may come to
  Verdict(_),      \* what is kept of a result
  NoVerdict        \* nothing is kept yet

VARIABLES
  accepted,    \* the activities the server answered for
  outcomes,    \* what handling each has come to so far
  processed,   \* the settled activities
  verdict      \* what is kept for each

vars == <<accepted, outcomes, processed, verdict>>

Init ==
  /\ accepted = {}
  /\ outcomes = [e \in Events |-> {}]
  /\ processed = {}
  /\ verdict = [e \in Events |-> NoVerdict]

Accept(e) ==
  /\ accepted' = accepted \cup {e}
  /\ UNCHANGED <<outcomes, processed, verdict>>

Handle(e) ==
  /\ e \in accepted
  /\ \E r \in Results : outcomes' = [outcomes EXCEPT ![e] = @ \cup {r}]
  /\ UNCHANGED <<accepted, processed, verdict>>

\* Two workers may both settle an activity; the later verdict stands.
Settle(e) ==
  /\ processed' = processed \cup {e}
  /\ \E r \in outcomes[e] : verdict' = [verdict EXCEPT ![e] = Verdict(r)]
  /\ UNCHANGED <<accepted, outcomes>>

Next == \E e \in Events : Accept(e) \/ Handle(e) \/ Settle(e)

Spec == Init /\ [][Next]_vars
=============================================================================
