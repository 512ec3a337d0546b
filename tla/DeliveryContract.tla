-------------------------- MODULE DeliveryContract --------------------------
(***************************************************************************)
(* What the outbound federation queue promises for each activity handed to *)
(* it, whatever the number of workers behind it: the activity is posted at *)
(* least once, it is reported delivered only when the remote inbox really  *)
(* took it, it is given up only after MaxDeliveryAttempts posts (or when   *)
(* its address cannot be posted to at all), and that verdict is final.     *)
(*                                                                         *)
(* Delivery.tla implements this contract: a delivery counts as settled     *)
(* there once no worker holds a copy of its row.                           *)
(***************************************************************************)
EXTENDS Naturals

CONSTANTS
  Deliveries,            \* the activities that may be handed over
  MaxDeliveryAttempts,   \* posts before giving up
  BadURLs                \* deliveries whose address no request can be built for

VARIABLES
  stage,     \* where each activity stands
  posts,     \* posts made from the queue
  accepted   \* the activities their remote inbox has taken

vars == <<stage, posts, accepted>>

Settled == {"delivered", "abandoned"}

\* An activity that the process failed to hand over is "dropped": the
\* contract covers it no longer, and says that this is so for good.
Stages == {"none", "outstanding", "dropped"} \cup Settled

Init ==
  /\ stage = [d \in Deliveries |-> "none"]
  /\ posts = [d \in Deliveries |-> 0]
  /\ accepted = {}

Submit(d) ==
  /\ stage[d] = "none"
  /\ stage'[d] \in {"outstanding", "dropped"}
  /\ posts'[d] = posts[d]

\* A first post made before the activity is queued, and answered.
DeliverAtOnce(d) ==
  /\ stage[d] = "none"
  /\ stage'[d] = "delivered"
  /\ posts'[d] = posts[d]
  /\ d \in accepted'

Post(d) ==
  /\ stage[d] = "outstanding"
  /\ stage'[d] = "outstanding"
  /\ posts'[d] \in {posts[d], posts[d] + 1}

Confirm(d) ==
  /\ stage[d] = "outstanding"
  /\ stage'[d] = "delivered"
  /\ posts'[d] = posts[d]
  /\ d \in accepted

Abandon(d) ==
  /\ stage[d] = "outstanding"
  /\ stage'[d] = "abandoned"
  /\ posts'[d] = posts[d]
  /\ posts[d] >= MaxDeliveryAttempts \/ d \in BadURLs

Drop(d) ==
  /\ stage[d] = "outstanding"
  /\ stage'[d] = "dropped"
  /\ posts'[d] = posts[d]
  /\ posts[d] = 0

\* Nothing about d changes; in particular nothing is taken remotely for an
\* activity whose verdict is in.
Rest(d) ==
  /\ stage'[d] = stage[d]
  /\ posts'[d] = posts[d]
  /\ (d \in accepted') = (d \in accepted)

Step(d) ==
  \/ Submit(d) \/ DeliverAtOnce(d) \/ Post(d)
  \/ Confirm(d) \/ Abandon(d) \/ Drop(d) \/ Rest(d)

\* One step of the queue may settle several activities: a worker that dies
\* lets go of every row it held.
Next ==
  /\ stage' \in [Deliveries -> Stages]
  /\ posts' \in [Deliveries -> Nat]
  /\ accepted \subseteq accepted'
  /\ accepted' \subseteq Deliveries
  /\ \A d \in Deliveries : Step(d)

Spec == Init /\ [][Next]_vars
=============================================================================
