--------------------------- MODULE DeliveryProofs ---------------------------
(***************************************************************************)
(* Proofs about Delivery for every set of workers and deliveries, every    *)
(* MaxDeliveryAttempts and every number of faults.                         *)
(*                                                                         *)
(* The argument: attempts is a lower bound on the posts made.  A worker    *)
(* writes the Attempts of its copy plus one, the copy was read when the    *)
(* column already bounded the posts from below, and the worker has made    *)
(* one more post itself since (Copies).  So however the workers overwrite  *)
(* each other, a count of MaxDeliveryAttempts stands for that many posts.  *)
(***************************************************************************)
EXTENDS Delivery, InductionLemmas, TLAPS

\* What a worker's copy of a row is worth.
Copies ==
  \A w \in Workers, d \in Deliveries :
    held[w][d] # NotHeld =>
      /\ held[w][d] \in 0 .. (MaxDeliveryAttempts - 1)
      /\ held[w][d] <= posts[d]
      /\ status[d] \in RowStatus

\* What a worker knows when it is about to write.
OutcomeOf(w) ==
  /\ phase[w] \in {"ok", "err", "bad", "unsent"} => cur[w] \in Deliveries
  /\ phase[w] \in {"ok", "err", "bad"} => held[w][cur[w]] # NotHeld
  /\ phase[w] \in {"ok", "err"} => held[w][cur[w]] < posts[cur[w]]
  /\ phase[w] = "ok" => cur[w] \in accepted
  /\ phase[w] = "bad" => cur[w] \in BadURLs
  /\ phase[w] = "unsent" => status[cur[w]] = "unsent"
  /\ phase[w] \in {"idle", "unsent"} => \A d \in Deliveries : held[w][d] = NotHeld

Outcome == \A w \in Workers : OutcomeOf(w)

\* No two workers are inside Deliver with the same activity, and an activity
\* without a row has not been posted by a worker.
OwnActivity ==
  /\ \A v, w \in Workers :
       phase[v] = "unsent" /\ phase[w] = "unsent" /\ cur[v] = cur[w] => v = w
  /\ \A d \in Deliveries : status[d] \in NoRow => posts[d] = 0

IInv ==
  /\ TypeOK
  /\ Copies
  /\ Outcome
  /\ OwnActivity
  /\ NoRowStranded
  /\ GivenUpOnlyWhenExhausted
  /\ DeliveredWasTaken
  /\ DroppedOnlyByFault
-----------------------------------------------------------------------------
(* The invariant holds initially and every action preserves it.            *)

\* IInv holds at the start.
LEMMA InitInv == Init => IInv
<1> SUFFICES ASSUME Init PROVE IInv
  OBVIOUS
<1> USE DeliveryAssumption DEF Init, NotHeld, NoRow, RowStatus, Phases
<1>1. TypeOK
  BY DEF TypeOK
<1>2. Copies /\ Outcome /\ OwnActivity
  BY DEF Copies, Outcome, OutcomeOf, OwnActivity
<1>3. NoRowStranded /\ GivenUpOnlyWhenExhausted /\ DeliveredWasTaken /\ DroppedOnlyByFault
  BY DEF NoRowStranded, GivenUpOnlyWhenExhausted, DeliveredWasTaken, DroppedOnlyByFault
<1>4. QED
  BY <1>1, <1>2, <1>3 DEF IInv

\* Enqueue keeps IInv.
LEMMA EnqueueInv ==
  ASSUME IInv, NEW d \in Deliveries, Enqueue(d)
  PROVE  IInv'
<1> USE DeliveryAssumption DEF NotHeld, NoRow, RowStatus, Phases
<1>0. TypeOK /\ Copies /\ Outcome /\ OwnActivity
      /\ NoRowStranded /\ GivenUpOnlyWhenExhausted /\ DeliveredWasTaken /\ DroppedOnlyByFault
  BY DEF IInv
<1>1. TypeOK'
  BY <1>0 DEF TypeOK, Enqueue, Insert
<1>2. Copies'
  BY <1>0 DEF TypeOK, Copies, Enqueue, Insert
<1>3. Outcome'
  BY <1>0 DEF TypeOK, Outcome, OutcomeOf, Enqueue, Insert
<1>4. OwnActivity'
  BY <1>0 DEF TypeOK, OwnActivity, Enqueue, Insert
<1>5. NoRowStranded'
  BY <1>0 DEF TypeOK, NoRowStranded, Enqueue, Insert
<1>6. GivenUpOnlyWhenExhausted'
  BY <1>0 DEF TypeOK, GivenUpOnlyWhenExhausted, OwnActivity, Enqueue, Insert
<1>7. DeliveredWasTaken'
  BY <1>0 DEF TypeOK, DeliveredWasTaken, Enqueue, Insert
<1>8. DroppedOnlyByFault'
  BY <1>0 DEF TypeOK, DroppedOnlyByFault, Enqueue, Insert
<1>9. QED
  BY <1>1, <1>2, <1>3, <1>4, <1>5, <1>6, <1>7, <1>8 DEF IInv

\* DeliverUnbuildable keeps IInv.
LEMMA DeliverUnbuildableInv ==
  ASSUME IInv, NEW w \in Workers, NEW d \in Deliveries, DeliverUnbuildable(w, d)
  PROVE  IInv'
<1> USE DeliveryAssumption DEF NotHeld, NoRow, RowStatus, Phases
<1>0. TypeOK /\ Copies /\ Outcome /\ OwnActivity
      /\ NoRowStranded /\ GivenUpOnlyWhenExhausted /\ DeliveredWasTaken /\ DroppedOnlyByFault
  BY DEF IInv
<1>1. TypeOK'
  BY <1>0 DEF TypeOK, DeliverUnbuildable
<1>2. Copies'
  BY <1>0 DEF TypeOK, Copies, DeliverUnbuildable
<1>3. Outcome'
  BY <1>0 DEF TypeOK, Outcome, OutcomeOf, DeliverUnbuildable
<1>4. OwnActivity'
  BY <1>0 DEF TypeOK, OwnActivity, DeliverUnbuildable
<1>5. NoRowStranded'
  BY <1>0 DEF TypeOK, NoRowStranded, DeliverUnbuildable
<1>6. GivenUpOnlyWhenExhausted'
  BY <1>0 DEF TypeOK, GivenUpOnlyWhenExhausted, DeliverUnbuildable
<1>7. DeliveredWasTaken'
  BY <1>0 DEF TypeOK, DeliveredWasTaken, DeliverUnbuildable
<1>8. DroppedOnlyByFault'
  BY <1>0 DEF TypeOK, DroppedOnlyByFault, DeliverUnbuildable
<1>9. QED
  BY <1>1, <1>2, <1>3, <1>4, <1>5, <1>6, <1>7, <1>8 DEF IInv

\* Deliver keeps IInv.
LEMMA DeliverInv ==
  ASSUME IInv, NEW w \in Workers, NEW d \in Deliveries, Deliver(w, d)
  PROVE  IInv'
<1> USE DeliveryAssumption DEF NotHeld, NoRow, RowStatus, Phases
<1>0. TypeOK /\ Copies /\ Outcome /\ OwnActivity
      /\ NoRowStranded /\ GivenUpOnlyWhenExhausted /\ DeliveredWasTaken /\ DroppedOnlyByFault
  BY DEF IInv
<1>1. PICK x \in Exchanges :
        /\ accepted' = IF x.taken THEN accepted \cup {d} ELSE accepted
        /\ IF x.answer = "2xx"
           THEN status' = [status EXCEPT ![d] = "direct"] /\ UNCHANGED <<phase, cur>>
           ELSE /\ status' = [status EXCEPT ![d] = "unsent"]
                /\ phase' = [phase EXCEPT ![w] = "unsent"]
                /\ cur' = [cur EXCEPT ![w] = d]
  BY DEF Deliver, Exchange, IsSuccess
<1>2. /\ phase[w] = "idle" /\ status[d] = "absent"
      /\ UNCHANGED <<attempts, order, held, posts, refused, faults>>
  BY DEF Deliver
<1>3. CASE x.answer = "2xx"
  <2>0. x.taken
    BY <1>3 DEF Exchanges
  <2>1. TypeOK'
    BY <1>0, <1>1, <1>2, <1>3, <2>0 DEF TypeOK
  <2>2. Copies'
    BY <1>0, <1>1, <1>2, <1>3, <2>0 DEF TypeOK, Copies
  <2>3. Outcome'
    BY <1>0, <1>1, <1>2, <1>3, <2>0 DEF TypeOK, Outcome, OutcomeOf
  <2>4. OwnActivity'
    BY <1>0, <1>1, <1>2, <1>3, <2>0 DEF TypeOK, OwnActivity
  <2>5. NoRowStranded'
    BY <1>0, <1>1, <1>2, <1>3, <2>0 DEF TypeOK, NoRowStranded
  <2>6. GivenUpOnlyWhenExhausted'
    BY <1>0, <1>1, <1>2, <1>3, <2>0 DEF TypeOK, GivenUpOnlyWhenExhausted
  <2>7. DeliveredWasTaken'
    BY <1>0, <1>1, <1>2, <1>3, <2>0 DEF TypeOK, DeliveredWasTaken
  <2>8. DroppedOnlyByFault'
    BY <1>0, <1>1, <1>2, <1>3, <2>0 DEF TypeOK, DroppedOnlyByFault
  <2>9. QED
    BY <2>1, <2>2, <2>3, <2>4, <2>5, <2>6, <2>7, <2>8 DEF IInv
<1>4. CASE x.answer # "2xx"
  <2>0. /\ accepted' \in SUBSET Deliveries /\ accepted \subseteq accepted'
        /\ status' = [status EXCEPT ![d] = "unsent"]
        /\ phase' = [phase EXCEPT ![w] = "unsent"]
        /\ cur' = [cur EXCEPT ![w] = d]
    BY <1>0, <1>1, <1>4 DEF TypeOK
  <2>1. TypeOK'
    BY <1>0, <1>2, <2>0 DEF TypeOK
  <2>2. Copies'
    BY <1>0, <1>2, <2>0 DEF TypeOK, Copies
  <2>3. Outcome'
    BY <1>0, <1>2, <2>0 DEF TypeOK, Outcome, OutcomeOf
  <2>4. OwnActivity'
    BY <1>0, <1>2, <2>0 DEF TypeOK, OwnActivity, Outcome, OutcomeOf
  <2>5. NoRowStranded'
    BY <1>0, <1>2, <2>0 DEF TypeOK, NoRowStranded
  <2>6. GivenUpOnlyWhenExhausted'
    BY <1>0, <1>2, <2>0 DEF TypeOK, GivenUpOnlyWhenExhausted
  <2>7. DeliveredWasTaken'
    BY <1>0, <1>2, <2>0 DEF TypeOK, DeliveredWasTaken
  <2>8. DroppedOnlyByFault'
    BY <1>0, <1>2, <2>0 DEF TypeOK, DroppedOnlyByFault
  <2>9. QED
    BY <2>1, <2>2, <2>3, <2>4, <2>5, <2>6, <2>7, <2>8 DEF IInv
<1>5. QED
  BY <1>3, <1>4

\* QueueDelivery keeps IInv.
LEMMA QueueDeliveryInv ==
  ASSUME IInv, NEW w \in Workers, QueueDelivery(w)
  PROVE  IInv'
<1> USE DeliveryAssumption DEF NotHeld, NoRow, RowStatus, Phases
<1>0. TypeOK /\ Copies /\ Outcome /\ OwnActivity
      /\ NoRowStranded /\ GivenUpOnlyWhenExhausted /\ DeliveredWasTaken /\ DroppedOnlyByFault
  BY DEF IInv
<1>1. cur[w] \in Deliveries /\ status[cur[w]] = "unsent"
  BY <1>0 DEF QueueDelivery, Outcome, OutcomeOf
<1>2. /\ phase[w] = "unsent"
      /\ phase' = [phase EXCEPT ![w] = "idle"]
      /\ cur' = [cur EXCEPT ![w] = NoDelivery]
      /\ UNCHANGED <<held, posts, accepted, refused>>
  BY DEF QueueDelivery
<1>3. CASE Insert(cur[w]) /\ UNCHANGED faults
  <2>1. TypeOK'
    BY <1>0, <1>1, <1>2, <1>3 DEF TypeOK, Insert
  <2>2. Copies'
    BY <1>0, <1>1, <1>2, <1>3 DEF TypeOK, Copies, Insert
  <2>3. Outcome'
    BY <1>0, <1>1, <1>2, <1>3 DEF TypeOK, Outcome, OutcomeOf, OwnActivity, Insert
  <2>4. OwnActivity'
    BY <1>0, <1>1, <1>2, <1>3 DEF TypeOK, OwnActivity, Outcome, OutcomeOf, Insert
  <2>5. NoRowStranded'
    BY <1>0, <1>1, <1>2, <1>3 DEF TypeOK, NoRowStranded, Insert
  <2>6. GivenUpOnlyWhenExhausted'
    BY <1>0, <1>1, <1>2, <1>3 DEF TypeOK, GivenUpOnlyWhenExhausted, OwnActivity, Insert
  <2>7. DeliveredWasTaken'
    BY <1>0, <1>1, <1>2, <1>3 DEF TypeOK, DeliveredWasTaken, Insert
  <2>8. DroppedOnlyByFault'
    BY <1>0, <1>1, <1>2, <1>3 DEF TypeOK, DroppedOnlyByFault, Insert
  <2>9. QED
    BY <2>1, <2>2, <2>3, <2>4, <2>5, <2>6, <2>7, <2>8 DEF IInv
<1>4. CASE /\ faults < FaultBound
            /\ faults' = faults + 1
            /\ status' = [status EXCEPT ![cur[w]] = "dropped"]
            /\ UNCHANGED <<attempts, order>>
  <2>1. TypeOK'
    BY <1>0, <1>1, <1>2, <1>4 DEF TypeOK
  <2>2. Copies'
    BY <1>0, <1>1, <1>2, <1>4 DEF TypeOK, Copies
  <2>3. Outcome'
    BY <1>0, <1>1, <1>2, <1>4 DEF TypeOK, Outcome, OutcomeOf, OwnActivity
  <2>4. OwnActivity'
    BY <1>0, <1>1, <1>2, <1>4 DEF TypeOK, OwnActivity, Outcome, OutcomeOf
  <2>5. NoRowStranded'
    BY <1>0, <1>1, <1>2, <1>4 DEF TypeOK, NoRowStranded
  <2>6. GivenUpOnlyWhenExhausted'
    BY <1>0, <1>1, <1>2, <1>4 DEF TypeOK, GivenUpOnlyWhenExhausted
  <2>7. DeliveredWasTaken'
    BY <1>0, <1>1, <1>2, <1>4 DEF TypeOK, DeliveredWasTaken
  <2>8. DroppedOnlyByFault'
    BY <1>0, <1>1, <1>2, <1>4 DEF TypeOK, DroppedOnlyByFault
  <2>9. QED
    BY <2>1, <2>2, <2>3, <2>4, <2>5, <2>6, <2>7, <2>8 DEF IInv
<1>5. QED
  BY <1>3, <1>4 DEF QueueDelivery

\* Poll keeps IInv.
LEMMA PollInv ==
  ASSUME IInv, NEW w \in Workers, Poll(w)
  PROVE  IInv'
<1> USE DeliveryAssumption DEF NotHeld, NoRow, RowStatus, Phases
<1>0. TypeOK /\ Copies /\ Outcome /\ OwnActivity
      /\ NoRowStranded /\ GivenUpOnlyWhenExhausted /\ DeliveredWasTaken /\ DroppedOnlyByFault
  BY DEF IInv
<1> PICK S \in SUBSET Pending :
       held' = [held EXCEPT ![w] =
                  [d \in Deliveries |-> IF d \in S THEN attempts[d] ELSE -1]]
  BY DEF Poll
<1>a. /\ phase[w] = "idle"
      /\ phase' = [phase EXCEPT ![w] = "batch"]
      /\ UNCHANGED <<status, attempts, order, cur, posts, accepted, refused, faults>>
  BY DEF Poll, table, remote
<1>b. \A d \in S : d \in Deliveries /\ status[d] = "pending" /\ attempts[d] < MaxDeliveryAttempts
  BY DEF Pending
<1>1. TypeOK'
  BY <1>0, <1>a, <1>b DEF TypeOK
<1>2. Copies'
  BY <1>0, <1>a, <1>b DEF TypeOK, Copies, GivenUpOnlyWhenExhausted
<1>3. Outcome'
  BY <1>0, <1>a, <1>b DEF TypeOK, Outcome, OutcomeOf
<1>4. OwnActivity'
  BY <1>0, <1>a, <1>b DEF TypeOK, OwnActivity
<1>5. NoRowStranded'
  BY <1>0, <1>a, <1>b DEF TypeOK, NoRowStranded
<1>6. GivenUpOnlyWhenExhausted'
  BY <1>0, <1>a, <1>b DEF TypeOK, GivenUpOnlyWhenExhausted
<1>7. DeliveredWasTaken'
  BY <1>0, <1>a, <1>b DEF TypeOK, DeliveredWasTaken
<1>8. DroppedOnlyByFault'
  BY <1>0, <1>a, <1>b DEF TypeOK, DroppedOnlyByFault
<1>9. QED
  BY <1>1, <1>2, <1>3, <1>4, <1>5, <1>6, <1>7, <1>8 DEF IInv

\* Attempt keeps IInv.
LEMMA AttemptInv ==
  ASSUME IInv, NEW w \in Workers, Attempt(w)
  PROVE  IInv'
<1> USE DeliveryAssumption DEF NotHeld, NoRow, RowStatus, Phases
<1>0. TypeOK /\ Copies /\ Outcome /\ OwnActivity
      /\ NoRowStranded /\ GivenUpOnlyWhenExhausted /\ DeliveredWasTaken /\ DroppedOnlyByFault
  BY DEF IInv
<1> PICK d \in Batch(w) :
       /\ cur' = [cur EXCEPT ![w] = d]
       /\ \/ /\ d \in BadURLs
             /\ phase' = [phase EXCEPT ![w] = "bad"]
             /\ UNCHANGED <<posts, remote>>
          \/ /\ d \notin BadURLs
             /\ posts' = [posts EXCEPT ![d] = @ + 1]
             /\ refused' = IF d \in Verifying THEN refused \cup {d} ELSE refused
             /\ \E x \in WorkerExchanges(d) :
                  /\ Exchange(d, x)
                  /\ phase' = [phase EXCEPT ![w] = IF IsSuccess(x.answer) THEN "ok" ELSE "err"]
  BY DEF Attempt
<1>a. /\ phase[w] = "batch"
      /\ UNCHANGED <<status, attempts, order, held, faults>>
  BY DEF Attempt, table
<1>b. d \in Deliveries /\ held[w][d] # NotHeld /\ status[d] \in RowStatus
  BY <1>0 DEF Batch, Copies
<1>c. CASE d \in BadURLs
  <2>0. /\ phase' = [phase EXCEPT ![w] = "bad"]
        /\ UNCHANGED <<posts, accepted, refused>>
    BY <1>c DEF remote
  <2>1. TypeOK'
    BY <1>0, <1>a, <1>b, <1>c, <2>0 DEF TypeOK
  <2>2. Copies'
    BY <1>0, <1>a, <1>b, <1>c, <2>0 DEF TypeOK, Copies
  <2>3. Outcome'
    BY <1>0, <1>a, <1>b, <1>c, <2>0 DEF TypeOK, Outcome, OutcomeOf
  <2>4. OwnActivity'
    BY <1>0, <1>a, <1>b, <1>c, <2>0 DEF TypeOK, OwnActivity
  <2>5. NoRowStranded'
    BY <1>0, <1>a, <1>b, <1>c, <2>0 DEF TypeOK, NoRowStranded
  <2>6. GivenUpOnlyWhenExhausted'
    BY <1>0, <1>a, <1>b, <1>c, <2>0 DEF TypeOK, GivenUpOnlyWhenExhausted
  <2>7. DeliveredWasTaken'
    BY <1>0, <1>a, <1>b, <1>c, <2>0 DEF TypeOK, DeliveredWasTaken
  <2>8. DroppedOnlyByFault'
    BY <1>0, <1>a, <1>b, <1>c, <2>0 DEF TypeOK, DroppedOnlyByFault
  <2>9. QED
    BY <2>1, <2>2, <2>3, <2>4, <2>5, <2>6, <2>7, <2>8 DEF IInv
<1>d. CASE d \notin BadURLs
  <2>a. PICK x \in WorkerExchanges(d) :
          /\ accepted' = IF x.taken THEN accepted \cup {d} ELSE accepted
          /\ phase' = [phase EXCEPT ![w] = IF x.answer = "2xx" THEN "ok" ELSE "err"]
    BY <1>d DEF Exchange, IsSuccess
  <2>b. x.answer = "2xx" => x.taken
    BY DEF WorkerExchanges, Exchanges, Unsigned
  <2>c. /\ accepted' \in SUBSET Deliveries /\ accepted \subseteq accepted'
        /\ x.answer = "2xx" => d \in accepted'
    BY <1>0, <1>b, <2>a, <2>b DEF TypeOK
  <2>d. refused' \in SUBSET Deliveries /\ posts' = [posts EXCEPT ![d] = @ + 1]
    BY <1>0, <1>b, <1>d DEF TypeOK
  <2>0. PICK q \in {"ok", "err"} :
          /\ phase' = [phase EXCEPT ![w] = q]
          /\ q = "ok" => d \in accepted'
    BY <2>a, <2>c
  <2>1. TypeOK'
    BY <1>0, <1>a, <1>b, <2>0, <2>c, <2>d DEF TypeOK
  <2>2. Copies'
    BY <1>0, <1>a, <1>b, <2>0, <2>c, <2>d DEF TypeOK, Copies
  <2>3. Outcome'
    <3>1. OutcomeOf(w)'
      BY <1>0, <1>a, <1>b, <2>0, <2>c, <2>d DEF TypeOK, OutcomeOf, Copies
    <3>2. ASSUME NEW v \in Workers \ {w} PROVE OutcomeOf(v)'
      <4>1. phase'[v] = phase[v] /\ cur'[v] = cur[v]
        BY <1>0, <2>0 DEF TypeOK
      <4>2. \A e \in Deliveries : posts[e] <= posts'[e]
        BY <1>0, <1>b, <2>d DEF TypeOK
      <4>3. OutcomeOf(v) /\ held' = held /\ status' = status
        BY <1>0, <1>a DEF Outcome
      <4>4. ASSUME phase[v] \in {"ok", "err"} PROVE held[v][cur[v]] < posts'[cur[v]]
        <5>1. cur[v] \in Deliveries /\ held[v][cur[v]] < posts[cur[v]]
          BY <4>3, <4>4 DEF OutcomeOf
        <5>2. held[v][cur[v]] \in Int /\ posts[cur[v]] \in Nat /\ posts'[cur[v]] \in Nat
          BY <1>0, <2>1, <5>1 DEF TypeOK
        <5>3. QED
          BY <4>2, <5>1, <5>2
      <4>5. QED
        BY <2>c, <4>1, <4>3, <4>4 DEF OutcomeOf
    <3>3. QED
      BY <3>1, <3>2 DEF Outcome
  <2>4. OwnActivity'
    BY <1>0, <1>a, <1>b, <2>0, <2>c, <2>d DEF TypeOK, OwnActivity
  <2>5. NoRowStranded'
    BY <1>0, <1>a, <1>b, <2>0, <2>c, <2>d DEF TypeOK, NoRowStranded
  <2>6. GivenUpOnlyWhenExhausted'
    BY <1>0, <1>a, <1>b, <2>0, <2>c, <2>d DEF TypeOK, GivenUpOnlyWhenExhausted
  <2>7. DeliveredWasTaken'
    BY <1>0, <1>a, <1>b, <2>0, <2>c, <2>d DEF TypeOK, DeliveredWasTaken
  <2>8. DroppedOnlyByFault'
    BY <1>0, <1>a, <1>b, <2>0, <2>c, <2>d DEF TypeOK, DroppedOnlyByFault
  <2>9. QED
    BY <2>1, <2>2, <2>3, <2>4, <2>5, <2>6, <2>7, <2>8 DEF IInv
<1>e. QED
  BY <1>c, <1>d

\* Record keeps IInv.
LEMMA RecordInv ==
  ASSUME IInv, NEW w \in Workers, Record(w)
  PROVE  IInv'
<1> USE DeliveryAssumption DEF NotHeld, NoRow, RowStatus, Phases
<1>0. TypeOK /\ Copies /\ Outcome /\ OwnActivity
      /\ NoRowStranded /\ GivenUpOnlyWhenExhausted /\ DeliveredWasTaken /\ DroppedOnlyByFault
  BY DEF IInv
<1> DEFINE d == cur[w]
           n == held[w][d]
<1>a. /\ phase[w] \in {"ok", "err", "bad"}
      /\ held' = [held EXCEPT ![w][d] = NotHeld]
      /\ cur' = [cur EXCEPT ![w] = NoDelivery]
      /\ phase' = [phase EXCEPT ![w] = IF Batch(w) = {d} THEN "idle" ELSE "batch"]
      /\ UNCHANGED <<posts, accepted, refused>>
  BY DEF Record, LetGo, remote
<1>b. /\ d \in Deliveries /\ status[d] \in RowStatus
      /\ n \in 0 .. (MaxDeliveryAttempts - 1) /\ n <= posts[d]
  BY <1>0, <1>a DEF Outcome, OutcomeOf, Copies
<1>c. phase'[w] = "idle" => \A e \in Deliveries : held'[w][e] = NotHeld
  BY <1>0, <1>a, <1>b DEF TypeOK, Batch
<1>d. phase' \in [Workers -> Phases] /\ phase'[w] \in {"idle", "batch"}
      /\ \A v \in Workers \ {w} : phase'[v] = phase[v]
  BY <1>0, <1>a DEF TypeOK
<1>e. CASE UNCHANGED table /\ faults' = faults + 1
  <2>1. TypeOK'
    BY <1>0, <1>a, <1>b, <1>c, <1>d, <1>e DEF TypeOK, table
  <2>2. Copies'
    BY <1>0, <1>a, <1>b, <1>c, <1>d, <1>e DEF TypeOK, Copies, table
  <2>3. Outcome'
    BY <1>0, <1>a, <1>b, <1>c, <1>d, <1>e DEF TypeOK, Outcome, OutcomeOf, table
  <2>4. OwnActivity'
    BY <1>0, <1>a, <1>b, <1>c, <1>d, <1>e DEF TypeOK, OwnActivity, table
  <2>5. NoRowStranded'
    BY <1>0, <1>a, <1>b, <1>c, <1>d, <1>e DEF TypeOK, NoRowStranded, table
  <2>6. GivenUpOnlyWhenExhausted'
    BY <1>0, <1>a, <1>b, <1>c, <1>d, <1>e DEF TypeOK, GivenUpOnlyWhenExhausted, table
  <2>7. DeliveredWasTaken'
    BY <1>0, <1>a, <1>b, <1>c, <1>d, <1>e DEF TypeOK, DeliveredWasTaken, table
  <2>8. DroppedOnlyByFault'
    BY <1>0, <1>a, <1>b, <1>c, <1>d, <1>e DEF TypeOK, DroppedOnlyByFault, table
  <2>9. QED
    BY <2>1, <2>2, <2>3, <2>4, <2>5, <2>6, <2>7, <2>8 DEF IInv
<1>f. CASE UpdateDeliveryStatus(d, AfterOutcome(phase[w], n)[1], AfterOutcome(phase[w], n)[2])
            /\ UNCHANGED faults
  <2>0. PICK s \in RowStatus, m \in Nat :
          /\ status' = [status EXCEPT ![d] = s]
          /\ attempts' = [attempts EXCEPT ![d] = m]
          /\ UNCHANGED <<order, faults>>
          /\ m <= posts[d]
          /\ s = "delivered" => d \in accepted
          /\ s = "pending" => m < MaxDeliveryAttempts
          /\ s = "failed" => d \in BadURLs \/ posts[d] >= MaxDeliveryAttempts
    <3>1. CASE phase[w] = "ok"
      <4>1. status' = [status EXCEPT ![d] = "delivered"] /\ attempts' = [attempts EXCEPT ![d] = n + 1]
        BY <1>f, <3>1 DEF UpdateDeliveryStatus, AfterOutcome
      <4>2. d \in accepted /\ n + 1 <= posts[d] /\ n + 1 \in Nat
        BY <1>0, <1>b, <3>1 DEF Outcome, OutcomeOf, TypeOK
      <4>3. QED
        BY <1>f, <4>1, <4>2 DEF UpdateDeliveryStatus
    <3>2. CASE phase[w] = "bad"
      <4>1. status' = [status EXCEPT ![d] = "failed"] /\ attempts' = [attempts EXCEPT ![d] = n]
        BY <1>f, <3>2 DEF UpdateDeliveryStatus, AfterOutcome
      <4>2. d \in BadURLs /\ n \in Nat
        BY <1>0, <1>b, <3>2 DEF Outcome, OutcomeOf
      <4>3. QED
        BY <1>b, <1>f, <4>1, <4>2 DEF UpdateDeliveryStatus
    <3>3. CASE phase[w] = "err"
      <4> DEFINE s == IF n + 1 >= MaxDeliveryAttempts THEN "failed" ELSE "pending"
      <4>1. status' = [status EXCEPT ![d] = s] /\ attempts' = [attempts EXCEPT ![d] = n + 1]
        BY <1>f, <3>3 DEF UpdateDeliveryStatus, AfterOutcome, Exhausted, Counted
      <4>2. n + 1 <= posts[d] /\ n + 1 \in Nat
        BY <1>0, <1>b, <3>3 DEF Outcome, OutcomeOf, TypeOK
      <4>3. /\ s \in RowStatus /\ s # "delivered"
            /\ s = "pending" => n + 1 < MaxDeliveryAttempts
            /\ s = "failed" => posts[d] >= MaxDeliveryAttempts
        BY <1>0, <1>b, <4>2 DEF TypeOK
      <4> HIDE DEF s
      <4>4. QED
        BY <1>f, <4>1, <4>2, <4>3 DEF UpdateDeliveryStatus
    <3>4. QED
      BY <1>a, <3>1, <3>2, <3>3
  <2>1. TypeOK'
    BY <1>0, <1>a, <1>b, <1>c, <1>d, <2>0 DEF TypeOK
  <2>2. Copies'
    BY <1>0, <1>a, <1>b, <1>c, <1>d, <2>0 DEF TypeOK, Copies
  <2>3. Outcome'
    BY <1>0, <1>a, <1>b, <1>c, <1>d, <2>0 DEF TypeOK, Outcome, OutcomeOf
  <2>4. OwnActivity'
    BY <1>0, <1>a, <1>b, <1>c, <1>d, <2>0 DEF TypeOK, OwnActivity
  <2>5. NoRowStranded'
    BY <1>0, <1>a, <1>b, <1>c, <1>d, <2>0 DEF TypeOK, NoRowStranded
  <2>6. GivenUpOnlyWhenExhausted'
    BY <1>0, <1>a, <1>b, <1>c, <1>d, <2>0 DEF TypeOK, GivenUpOnlyWhenExhausted
  <2>7. DeliveredWasTaken'
    BY <1>0, <1>a, <1>b, <1>c, <1>d, <2>0 DEF TypeOK, DeliveredWasTaken
  <2>8. DroppedOnlyByFault'
    BY <1>0, <1>a, <1>b, <1>c, <1>d, <2>0 DEF TypeOK, DroppedOnlyByFault
  <2>9. QED
    BY <2>1, <2>2, <2>3, <2>4, <2>5, <2>6, <2>7, <2>8 DEF IInv
<1>g. QED
  BY <1>e, <1>f DEF Record

\* Crash keeps IInv.
LEMMA CrashInv ==
  ASSUME IInv, NEW w \in Workers, Crash(w)
  PROVE  IInv'
<1> USE DeliveryAssumption DEF NotHeld, NoRow, RowStatus, Phases
<1>0. TypeOK /\ Copies /\ Outcome /\ OwnActivity
      /\ NoRowStranded /\ GivenUpOnlyWhenExhausted /\ DeliveredWasTaken /\ DroppedOnlyByFault
  BY DEF IInv
<1>a. phase[w] = "unsent" => cur[w] \in Deliveries /\ status[cur[w]] = "unsent"
  BY <1>0 DEF Outcome, OutcomeOf
<1>1. TypeOK'
  BY <1>0, <1>a DEF TypeOK, Crash, remote
<1>2. Copies'
  BY <1>0, <1>a DEF TypeOK, Copies, Crash, remote
<1>3. Outcome'
  BY <1>0, <1>a DEF TypeOK, Outcome, OutcomeOf, OwnActivity, Crash, remote
<1>4. OwnActivity'
  BY <1>0, <1>a DEF TypeOK, OwnActivity, Crash, remote
<1>5. NoRowStranded'
  BY <1>0, <1>a DEF TypeOK, NoRowStranded, Crash, remote
<1>6. GivenUpOnlyWhenExhausted'
  BY <1>0, <1>a DEF TypeOK, GivenUpOnlyWhenExhausted, Crash, remote
<1>7. DeliveredWasTaken'
  BY <1>0, <1>a DEF TypeOK, DeliveredWasTaken, Crash, remote
<1>8. DroppedOnlyByFault'
  BY <1>0, <1>a DEF TypeOK, DroppedOnlyByFault, Crash, remote
<1>9. QED
  BY <1>1, <1>2, <1>3, <1>4, <1>5, <1>6, <1>7, <1>8 DEF IInv

\* IInv is inductive.
LEMMA NextInv == IInv /\ [Next]_vars => IInv'
<1> SUFFICES ASSUME IInv, [Next]_vars PROVE IInv'
  OBVIOUS
<1>1. CASE Next
  BY <1>1, EnqueueInv, DeliverUnbuildableInv, DeliverInv, QueueDeliveryInv,
     PollInv, AttemptInv, RecordInv, CrashInv DEF Next
<1>2. CASE UNCHANGED vars
  BY <1>2 DEF vars, IInv, TypeOK, Copies, Outcome, OutcomeOf, OwnActivity, NoRowStranded,
              GivenUpOnlyWhenExhausted, DeliveredWasTaken, DroppedOnlyByFault
<1>3. QED
  BY <1>1, <1>2

THEOREM Invariance == Spec => []IInv
BY InitInv, NextInv, PTL DEF Spec

\* The variables of Delivery keep their types.
THEOREM TypeCorrect == Spec => []TypeOK
<1>1. IInv => TypeOK
  BY DEF IInv
<1>2. QED
  BY <1>1, Invariance, PTL

\* No worker leaves a row pending that no poll will read again.
THEOREM NoRowIsStranded == Spec => []NoRowStranded
<1>1. IInv => NoRowStranded
  BY DEF IInv
<1>2. QED
  BY <1>1, Invariance, PTL

\* Nothing is given up before MaxDeliveryAttempts posts, however many workers
\* overwrite each other's counts.
THEOREM GivenUpWhenExhausted == Spec => []GivenUpOnlyWhenExhausted
<1>1. IInv => GivenUpOnlyWhenExhausted
  BY DEF IInv
<1>2. QED
  BY <1>1, Invariance, PTL

\* Success is reported only for what the remote inbox took.
THEOREM DeliveredIsTaken == Spec => []DeliveredWasTaken
<1>1. IInv => DeliveredWasTaken
  BY DEF IInv
<1>2. QED
  BY <1>1, Invariance, PTL

\* A delivery is lost on the way to its row only by a crash or a failed insert.
THEOREM DroppedOnlyByFaults == Spec => []DroppedOnlyByFault
<1>1. IInv => DroppedOnlyByFault
  BY DEF IInv
<1>2. QED
  BY <1>1, Invariance, PTL
-----------------------------------------------------------------------------
(* Delivery implements DeliveryContract.                                   *)

\* The stage of a delivery that a step does not concern.
LEMMA RestStep ==
  ASSUME IInv, NEW e \in Deliveries,
         status'[e] = status[e], IsHeld(e)' = IsHeld(e),
         posts'[e] = posts[e], (e \in accepted') = (e \in accepted)
  PROVE  Contract!Step(e)
<1>1. Stage(e)' = Stage(e)
  BY DEF Stage
<1>2. Contract!Rest(e)
  BY <1>1 DEF Contract!Rest
<1>3. QED
  BY <1>2 DEF Contract!Step

\* An outstanding row whose posts are as they were stays outstanding or
\* reaches the verdict its status names.
LEMMA VerdictStep ==
  ASSUME IInv', NEW e \in Deliveries,
         Stage(e) = "outstanding", status'[e] \in RowStatus,
         posts'[e] = posts[e], accepted' = accepted
  PROVE  Contract!Step(e)
<1>1. CASE status'[e] = "pending" \/ IsHeld(e)'
  <2>1. Stage(e)' = "outstanding"
    BY <1>1 DEF Stage, RowStatus
  <2>2. QED
    BY <2>1 DEF Contract!Step, Contract!Post
<1>2. CASE status'[e] = "delivered" /\ ~IsHeld(e)'
  <2>1. Stage(e)' = "delivered" /\ e \in accepted
    BY <1>2 DEF Stage, IInv, DeliveredWasTaken
  <2>2. QED
    BY <2>1 DEF Contract!Step, Contract!Confirm
<1>3. CASE status'[e] = "failed" /\ ~IsHeld(e)'
  <2>1. Stage(e)' = "abandoned" /\ (posts[e] >= MaxDeliveryAttempts \/ e \in BadURLs)
    BY <1>3 DEF Stage, IInv, GivenUpOnlyWhenExhausted
  <2>2. QED
    BY <2>1 DEF Contract!Step, Contract!Abandon
<1>4. QED
  BY <1>1, <1>2, <1>3 DEF RowStatus

\* A row that some worker holds, or that is pending, is outstanding.
LEMMA HeldIsOutstanding ==
  ASSUME IInv, NEW e \in Deliveries,
         status[e] = "pending" \/ \E w \in Workers : held[w][e] # NotHeld
  PROVE  Stage(e) = "outstanding" /\ status[e] \in RowStatus
BY DEF IInv, Copies, Stage, IsHeld, RowStatus

\* Insert is a step of the contract.
LEMMA InsertStep ==
  ASSUME IInv, IInv', NEW d \in Deliveries, Insert(d), status[d] \in {"absent", "unsent"},
         UNCHANGED <<held, posts, accepted>>, NEW e \in Deliveries
  PROVE  Contract!Step(e)
<1>1. CASE e = d
  <2>1. Stage(e) \in {"none", "outstanding"} /\ Stage(e)' = "outstanding"
    BY <1>1 DEF Stage, Insert, IInv, TypeOK
  <2>2. posts'[e] = posts[e]
    OBVIOUS
  <2>3. QED
    BY <2>1, <2>2 DEF Contract!Step, Contract!Submit, Contract!Post
<1>2. CASE e # d
  BY <1>2, RestStep DEF Insert, IInv, TypeOK, IsHeld
<1>3. QED
  BY <1>1, <1>2

\* Deliver is a step of the contract.
LEMMA DeliverStep ==
  ASSUME IInv, IInv', NEW w \in Workers, NEW d \in Deliveries, NEW e \in Deliveries,
         DeliverUnbuildable(w, d) \/ Deliver(w, d)
  PROVE  Contract!Step(e)
<1>1. /\ status[d] = "absent"
      /\ UNCHANGED <<held, posts>>
      /\ \/ status' = [status EXCEPT ![d] = "dropped"] /\ accepted' = accepted
         \/ status' = [status EXCEPT ![d] = "direct"]
         \/ status' = [status EXCEPT ![d] = "unsent"]
      /\ accepted' \in {accepted, accepted \cup {d}}
  BY DEF DeliverUnbuildable, Deliver, Exchange
<1>2. CASE e = d
  <2>1. Stage(e) = "none" /\ posts'[e] = posts[e]
    BY <1>1, <1>2 DEF Stage
  <2>2. CASE status'[d] \in {"dropped", "unsent"}
    <3>1. Stage(e)' \in {"outstanding", "dropped"}
      BY <1>2, <2>2 DEF Stage
    <3>2. QED
      BY <2>1, <3>1 DEF Contract!Step, Contract!Submit
  <2>3. CASE status'[d] = "direct"
    <3>1. Stage(e)' = "delivered" /\ e \in accepted'
      BY <1>2, <2>3 DEF Stage, IInv, DeliveredWasTaken
    <3>2. QED
      BY <2>1, <3>1 DEF Contract!Step, Contract!DeliverAtOnce
  <2>4. QED
    BY <1>1, <2>2, <2>3 DEF IInv, TypeOK
<1>3. CASE e # d
  <2>1. status'[e] = status[e] /\ (e \in accepted') = (e \in accepted)
    BY <1>1, <1>3 DEF IInv, TypeOK
  <2>2. IsHeld(e)' = IsHeld(e) /\ posts'[e] = posts[e]
    BY <1>1 DEF IsHeld
  <2>3. QED
    BY <2>1, <2>2, RestStep
<1>4. QED
  BY <1>2, <1>3

\* QueueDelivery is a step of the contract.
LEMMA QueueDeliveryStep ==
  ASSUME IInv, IInv', NEW w \in Workers, NEW e \in Deliveries, QueueDelivery(w)
  PROVE  Contract!Step(e)
<1>1. cur[w] \in Deliveries /\ status[cur[w]] = "unsent" /\ UNCHANGED <<held, posts, accepted>>
  BY DEF IInv, Outcome, OutcomeOf, QueueDelivery
<1>2. CASE Insert(cur[w])
  BY <1>1, <1>2, InsertStep
<1>3. CASE status' = [status EXCEPT ![cur[w]] = "dropped"]
  <2>1. CASE e = cur[w]
    <3>1. Stage(e) = "outstanding" /\ Stage(e)' = "dropped"
      BY <1>1, <1>3, <2>1 DEF Stage, IInv, TypeOK
    <3>2. posts[e] = 0 /\ posts'[e] = posts[e]
      BY <1>1, <2>1 DEF IInv, OwnActivity, NoRow
    <3>3. QED
      BY <3>1, <3>2 DEF Contract!Step, Contract!Drop
  <2>2. CASE e # cur[w]
    BY <1>1, <1>3, <2>2, RestStep DEF IInv, TypeOK, IsHeld
  <2>3. QED
    BY <2>1, <2>2
<1>4. QED
  BY <1>2, <1>3 DEF QueueDelivery

\* Poll is a step of the contract.
LEMMA PollStep ==
  ASSUME IInv, IInv', NEW w \in Workers, NEW e \in Deliveries, Poll(w)
  PROVE  Contract!Step(e)
<1>1. /\ UNCHANGED <<status, posts, accepted>>
      /\ \A v \in Workers \ {w} : held'[v] = held[v]
      /\ held[w][e] = NotHeld
  BY DEF Poll, table, remote, IInv, TypeOK, Outcome, OutcomeOf
<1>2. CASE held'[w][e] = NotHeld
  <2>1. IsHeld(e)' = IsHeld(e)
    BY <1>1, <1>2 DEF IsHeld
  <2>2. QED
    BY <1>1, <2>1, RestStep
<1>3. CASE held'[w][e] # NotHeld
  <2>1. status[e] = "pending"
    BY <1>3 DEF Poll, Pending, IInv, TypeOK
  <2>2. Stage(e) = "outstanding" /\ status[e] \in RowStatus
    BY <2>1, HeldIsOutstanding
  <2>3. QED
    BY <1>1, <2>2, VerdictStep
<1>4. QED
  BY <1>2, <1>3

\* Attempt is a step of the contract.
LEMMA AttemptStep ==
  ASSUME IInv, IInv', NEW w \in Workers, NEW e \in Deliveries, Attempt(w)
  PROVE  Contract!Step(e)
<1>1. PICK d \in Batch(w) :
        /\ \/ UNCHANGED <<posts, accepted>>
           \/ /\ posts' = [posts EXCEPT ![d] = @ + 1]
              /\ accepted' \in {accepted, accepted \cup {d}}
  BY DEF Attempt, remote, Exchange
<1>2. UNCHANGED <<status, held>>
  BY DEF Attempt, table
<1>3. CASE e = d
  <2>1. Stage(e) = "outstanding" /\ Stage(e)' = "outstanding"
    BY <1>2, <1>3, HeldIsOutstanding DEF Batch, Stage, IsHeld
  <2>2. posts'[e] \in {posts[e], posts[e] + 1}
    BY <1>1, <1>3 DEF IInv, TypeOK
  <2>3. QED
    BY <2>1, <2>2 DEF Contract!Step, Contract!Post
<1>4. CASE e # d
  <2>1. posts'[e] = posts[e] /\ (e \in accepted') = (e \in accepted)
    BY <1>1, <1>4 DEF IInv, TypeOK
  <2>2. QED
    BY <1>2, <2>1, RestStep DEF IsHeld
<1>5. QED
  BY <1>3, <1>4

\* A worker that lets go of copies, one at a time or all at once.
LEMMA RecordStep ==
  ASSUME IInv, IInv', NEW w \in Workers, NEW e \in Deliveries, Record(w)
  PROVE  Contract!Step(e)
<1>1. /\ cur[w] \in Deliveries /\ held[w][cur[w]] # NotHeld
      /\ held' = [held EXCEPT ![w][cur[w]] = NotHeld]
      /\ UNCHANGED <<posts, accepted>>
  BY DEF Record, LetGo, remote, IInv, Outcome, OutcomeOf
<1>2. CASE e = cur[w]
  <2>1. Stage(e) = "outstanding" /\ status[e] \in RowStatus
    BY <1>1, <1>2, HeldIsOutstanding
  <2>2. status'[e] \in RowStatus
    <3>1. CASE UNCHANGED table
      BY <2>1, <3>1 DEF table
    <3>2. ASSUME NEW out, out = AfterOutcome(phase[w], held[w][cur[w]]),
                 UpdateDeliveryStatus(cur[w], out[1], out[2])
          PROVE  status'[e] \in RowStatus
      BY <1>2, <3>2 DEF AfterOutcome, UpdateDeliveryStatus, Record, RowStatus, IInv, TypeOK
    <3>3. QED
      BY <3>1, <3>2 DEF Record
  <2>3. QED
    BY <1>1, <2>1, <2>2, VerdictStep
<1>3. CASE e # cur[w]
  <2>1. status'[e] = status[e]
    BY <1>3 DEF Record, UpdateDeliveryStatus, table, IInv, TypeOK
  <2>2. \A v \in Workers : held'[v][e] = held[v][e]
    BY <1>1, <1>3 DEF IInv, TypeOK
  <2>3. QED
    BY <1>1, <2>1, <2>2, RestStep DEF IsHeld
<1>4. QED
  BY <1>2, <1>3

\* Crash is a step of the contract.
LEMMA CrashStep ==
  ASSUME IInv, IInv', NEW w \in Workers, NEW e \in Deliveries, Crash(w)
  PROVE  Contract!Step(e)
<1>1. /\ UNCHANGED <<posts, accepted>>
      /\ \A v \in Workers \ {w} : held'[v] = held[v]
      /\ held'[w][e] = NotHeld
  BY DEF Crash, remote, IInv, TypeOK
<1>2. CASE held[w][e] # NotHeld
  <2>1. Stage(e) = "outstanding" /\ status[e] \in RowStatus
    BY <1>2, HeldIsOutstanding
  <2>2. status'[e] = status[e]
    BY <1>2, <2>1 DEF Crash, IInv, TypeOK, Outcome, OutcomeOf
  <2>3. QED
    BY <1>1, <2>1, <2>2, VerdictStep
<1>3. CASE held[w][e] = NotHeld
  <2>1. IsHeld(e)' = IsHeld(e)
    BY <1>1, <1>3 DEF IsHeld
  <2>2. CASE status'[e] = status[e]
    BY <1>1, <2>1, <2>2, RestStep
  <2>3. CASE status'[e] # status[e]
    <3>1. status[e] = "unsent" /\ status'[e] = "dropped"
      BY <2>3 DEF Crash, IInv, TypeOK, Outcome, OutcomeOf
    <3>2. Stage(e) = "outstanding" /\ Stage(e)' = "dropped"
      BY <3>1 DEF Stage
    <3>3. posts[e] = 0 /\ posts'[e] = posts[e]
      BY <1>1, <3>1 DEF IInv, OwnActivity, NoRow
    <3>4. QED
      BY <3>2, <3>3 DEF Contract!Step, Contract!Drop
  <2>4. QED
    BY <2>2, <2>3
<1>4. QED
  BY <1>2, <1>3

\* A step of Delivery is a step of the contract, or leaves it alone.
LEMMA ContractStep == IInv /\ IInv' /\ [Next]_vars => [Contract!Next]_(Contract!vars)
<1> SUFFICES ASSUME IInv, IInv', [Next]_vars PROVE [Contract!Next]_(Contract!vars)
  OBVIOUS
<1>1. CASE UNCHANGED vars
  BY <1>1 DEF vars, Contract!vars, Stage, IsHeld
<1>2. CASE Next
  <2>1. \A e \in Deliveries : Contract!Step(e)
    <3> TAKE e \in Deliveries
    <3>1. ASSUME NEW d \in Deliveries, Enqueue(d) PROVE Contract!Step(e)
      BY <3>1, InsertStep DEF Enqueue
    <3>2. QED
      BY <1>2, <3>1, DeliverStep, QueueDeliveryStep, PollStep, AttemptStep,
         RecordStep, CrashStep DEF Next
  <2>2. [d \in Deliveries |-> Stage(d)]' \in [Deliveries -> Contract!Stages]
    BY DEF Stage, Contract!Stages, Contract!Settled
  <2>3. posts' \in [Deliveries -> Nat] /\ accepted' \subseteq Deliveries
    BY DEF IInv, TypeOK
  <2>4. accepted \subseteq accepted'
    BY <1>2 DEF Next, Enqueue, DeliverUnbuildable, Deliver, QueueDelivery, Poll, Attempt,
                Record, Crash, remote, Exchange
  <2>5. QED
    BY <2>1, <2>2, <2>3, <2>4 DEF Contract!Next
<1>3. QED
  BY <1>1, <1>2

\* The federation queue implements the contract of DeliveryContract, for any
\* number of workers and faults.
THEOREM Implementation == Spec => ImplementsContract
<1>1. Init => Contract!Init
  BY DEF Init, Contract!Init, Stage
<1>2. IInv /\ IInv' /\ [Next]_vars => [Contract!Next]_(Contract!vars)
  BY ContractStep
<1>3. QED
  BY <1>1, <1>2, Invariance, PTL DEF Spec, ImplementsContract, Contract!Spec

\* What the contract is for: once an activity is delivered, given up or
\* dropped, that stays so, nothing more is posted of it and its inbox takes
\* it no more, whatever the workers still hold of other rows.
THEOREM SettledForGood ==
  Spec => [][\A d \in Deliveries :
               Stage(d) \in {"delivered", "abandoned", "dropped"} =>
                 /\ Stage(d)' = Stage(d)
                 /\ posts'[d] = posts[d]
                 /\ (d \in accepted') = (d \in accepted)]_vars
<1>1. ASSUME IInv, IInv', [Next]_vars, NEW d \in Deliveries,
             Stage(d) \in {"delivered", "abandoned", "dropped"}
      PROVE  /\ Stage(d)' = Stage(d)
             /\ posts'[d] = posts[d]
             /\ (d \in accepted') = (d \in accepted)
  <2>1. CASE Contract!Next
    <3>1. Contract!Step(d)
      BY <2>1, <1>1 DEF Contract!Next
    <3>2. Contract!Rest(d)
      BY <1>1, <3>1 DEF Contract!Step, Contract!Submit, Contract!DeliverAtOnce, Contract!Post,
                        Contract!Confirm, Contract!Abandon, Contract!Drop
    <3>3. QED
      BY <1>1, <3>2 DEF Contract!Rest
  <2>2. CASE UNCHANGED Contract!vars
    <3>1. [e \in Deliveries |-> Stage(e)]' = [e \in Deliveries |-> Stage(e)]
      BY <2>2 DEF Contract!vars
    <3>2. [e \in Deliveries |-> Stage(e)]'[d] = [e \in Deliveries |-> Stage(e)][d]
      BY <3>1
    <3>3. QED
      BY <1>1, <2>2, <3>2 DEF Contract!vars
  <2>3. QED
    BY <1>1, <2>1, <2>2, ContractStep
<1>2. IInv /\ IInv' /\ [Next]_vars =>
        [\A d \in Deliveries :
           Stage(d) \in {"delivered", "abandoned", "dropped"} =>
             /\ Stage(d)' = Stage(d)
             /\ posts'[d] = posts[d]
             /\ (d \in accepted') = (d \in accepted)]_vars
  BY <1>1
<1>3. QED
  BY <1>2, Invariance, PTL DEF Spec
-----------------------------------------------------------------------------
(* The half of EventuallySettled that is about states: whatever is          *)
(* outstanding is in somebody's hands or next to be read, and whoever has   *)
(* something to do can do it.                                               *)

\* The rows are in order, each once.
Ordered ==
  /\ \A d \in Deliveries : status[d] \in RowStatus => \E i \in DOMAIN order : order[i] = d
  /\ \A i \in DOMAIN order : status[order[i]] \in RowStatus
  /\ \A i, j \in DOMAIN order : order[i] = order[j] => i = j

\* A post that Deliver made and has not queued is a worker's to queue, and a
\* worker in the middle of a batch has a row left.
Owned ==
  /\ \A d \in Deliveries : status[d] = "unsent" => \E w \in Workers : phase[w] = "unsent" /\ cur[w] = d
  /\ \A w \in Workers : phase[w] = "batch" => Batch(w) # {}

\* Inserting a row puts it at the end.
LEMMA InsertOrders ==
  ASSUME TypeOK, Ordered, NEW d \in Deliveries, status[d] \in NoRow, Insert(d)
  PROVE  Ordered'
<1> USE DEF TypeOK, Insert
<1> DEFINE n == Len(order)
<1>1. n \in Nat /\ DOMAIN order = 1 .. n /\ DOMAIN order' = 1 .. (n + 1)
  OBVIOUS
<1>2. order'[n + 1] = d /\ \A i \in 1 .. n : order'[i] = order[i] /\ order[i] \in Deliveries
  OBVIOUS
<1>3. \A i \in 1 .. n : order[i] # d
  BY <1>1 DEF Ordered, NoRow, RowStatus
<1> HIDE DEF n
<1>4. \A e \in Deliveries : status'[e] \in RowStatus => \E i \in DOMAIN order' : order'[i] = e
  <2> SUFFICES ASSUME NEW e \in Deliveries, status'[e] \in RowStatus
               PROVE  \E i \in DOMAIN order' : order'[i] = e
    OBVIOUS
  <2>1. CASE e = d
    <3>1. n + 1 \in DOMAIN order' /\ order'[n + 1] = e
      BY <1>1, <1>2, <2>1
    <3>2. QED
      BY <3>1
  <2>2. CASE e # d
    <3>1. PICK i \in DOMAIN order : order[i] = e
      BY <2>2 DEF Ordered
    <3>2. QED
      BY <1>1, <1>2, <3>1
  <2>3. QED
    BY <2>1, <2>2
<1>5. \A i \in DOMAIN order' : status'[order'[i]] \in RowStatus
  BY <1>1, <1>2, <1>3 DEF Ordered, RowStatus
<1>6. \A i, j \in DOMAIN order' : order'[i] = order'[j] => i = j
  BY <1>1, <1>2, <1>3 DEF Ordered
<1>7. QED
  BY <1>4, <1>5, <1>6 DEF Ordered

LEMMA OrderedStep ==
  ASSUME IInv, Ordered, [Next]_vars
  PROVE  Ordered'
<1> USE DEF IInv, TypeOK
<1>1. ASSUME order' = order,
             \A e \in Deliveries : status'[e] = status[e] \/
                                   (status[e] \in RowStatus <=> status'[e] \in RowStatus)
      PROVE  Ordered'
  BY <1>1 DEF Ordered
<1>2. ASSUME NEW d \in Deliveries, Enqueue(d) PROVE Ordered'
  BY <1>2, InsertOrders DEF Enqueue, NoRow
<1>3. ASSUME NEW w \in Workers, NEW d \in Deliveries, DeliverUnbuildable(w, d) \/ Deliver(w, d)
      PROVE  Ordered'
  BY <1>1, <1>3 DEF DeliverUnbuildable, Deliver, RowStatus
<1>4. ASSUME NEW w \in Workers, QueueDelivery(w) PROVE Ordered'
  <2>1. cur[w] \in Deliveries /\ status[cur[w]] = "unsent"
    BY <1>4 DEF QueueDelivery, Outcome, OutcomeOf
  <2>2. QED
    BY <1>1, <1>4, <2>1, InsertOrders DEF QueueDelivery, NoRow, RowStatus
<1>5. ASSUME NEW w \in Workers, Record(w) PROVE Ordered'
  <2>1. cur[w] \in Deliveries /\ status[cur[w]] \in RowStatus
    BY <1>5 DEF Record, Outcome, OutcomeOf, Copies
  <2>2. AfterOutcome(phase[w], held[w][cur[w]])[1] \in RowStatus
    BY <1>5 DEF Record, AfterOutcome, RowStatus
  <2>3. QED
    BY <1>1, <1>5, <2>1, <2>2 DEF Record, UpdateDeliveryStatus, table
<1>6. ASSUME NEW w \in Workers, Crash(w) PROVE Ordered'
  <2>1. phase[w] = "unsent" => cur[w] \in Deliveries /\ status[cur[w]] = "unsent"
    BY DEF Outcome, OutcomeOf
  <2>2. QED
    BY <1>1, <1>6, <2>1 DEF Crash, RowStatus
<1>7. QED
  BY <1>1, <1>2, <1>3, <1>4, <1>5, <1>6 DEF Next, vars, Poll, Attempt, table

LEMMA OwnedStep ==
  ASSUME IInv, Owned, [Next]_vars
  PROVE  Owned'
<1> USE DEF IInv, TypeOK
<1>1. ASSUME phase' = phase, held' = held, \A w \in Workers : phase[w] = "unsent" => cur'[w] = cur[w],
             \A d \in Deliveries : status'[d] = "unsent" => status[d] = "unsent"
      PROVE  Owned'
  <2>1. \A w \in Workers : Batch(w)' = Batch(w)
    BY <1>1 DEF Batch
  <2>2. QED
    BY <1>1, <2>1 DEF Owned
<1>2. ASSUME NEW d \in Deliveries, Enqueue(d) PROVE Owned'
  BY <1>1, <1>2 DEF Enqueue, Insert
<1>3. ASSUME NEW w \in Workers, NEW d \in Deliveries, DeliverUnbuildable(w, d) PROVE Owned'
  BY <1>1, <1>3 DEF DeliverUnbuildable
<1>4. ASSUME NEW w \in Workers, NEW d \in Deliveries, Deliver(w, d) PROVE Owned'
  <2>1. CASE phase' = phase
    BY <1>1, <1>4, <2>1 DEF Deliver, Phases
  <2>2. CASE /\ status' = [status EXCEPT ![d] = "unsent"]
             /\ phase' = [phase EXCEPT ![w] = "unsent"]
             /\ cur' = [cur EXCEPT ![w] = d]
    <3>1. \A e \in Deliveries : status'[e] = "unsent" => \E v \in Workers : phase'[v] = "unsent" /\ cur'[v] = e
      BY <1>4, <2>2 DEF Deliver, Owned
    <3>2. \A v \in Workers : phase'[v] = "batch" => Batch(v)' # {}
      BY <1>4, <2>2 DEF Deliver, Owned, Batch
    <3>3. QED
      BY <3>1, <3>2 DEF Owned
  <2>3. QED
    BY <1>4, <2>1, <2>2 DEF Deliver
<1>5. ASSUME NEW w \in Workers, phase'[w] = "idle",
             \A v \in Workers \ {w} : phase'[v] = phase[v] /\ cur'[v] = cur[v] /\ held'[v] = held[v],
             \A d \in Deliveries : status'[d] = "unsent" =>
               status[d] = "unsent" /\ (phase[w] = "unsent" => cur[w] # d)
      PROVE  Owned'
  <2>1. ASSUME NEW d \in Deliveries, status'[d] = "unsent"
        PROVE  \E v \in Workers : phase'[v] = "unsent" /\ cur'[v] = d
    <3>1. PICK v \in Workers : phase[v] = "unsent" /\ cur[v] = d
      BY <1>5, <2>1 DEF Owned
    <3>2. v # w
      BY <1>5, <2>1, <3>1
    <3>3. QED
      BY <1>5, <3>1, <3>2
  <2>2. \A v \in Workers : phase'[v] = "batch" => Batch(v)' # {}
    <3>1. \A v \in Workers \ {w} : Batch(v)' = Batch(v)
      BY <1>5 DEF Batch
    <3>2. ASSUME NEW v \in Workers, phase'[v] = "batch" PROVE Batch(v)' # {}
      <4>1. v # w /\ phase[v] = "batch"
        BY <1>5, <3>2
      <4>2. Batch(v) # {}
        BY <4>1 DEF Owned
      <4>3. QED
        BY <3>1, <4>1, <4>2
    <3>3. QED
      BY <3>2
  <2>3. QED
    BY <2>1, <2>2 DEF Owned
<1>6. ASSUME NEW w \in Workers, QueueDelivery(w) \/ Crash(w) PROVE Owned'
  BY <1>5, <1>6 DEF QueueDelivery, Crash, Insert, Outcome, OutcomeOf
<1>7. ASSUME NEW w \in Workers, Poll(w) PROVE Owned'
  <2>1. Batch(w)' # {}
    <3>1. PICK S \in SUBSET Pending : IsBatch(S)
               /\ held' = [held EXCEPT ![w] = [d \in Deliveries |-> IF d \in S THEN attempts[d] ELSE NotHeld]]
      BY <1>7 DEF Poll
    <3>2. PICK d \in S : d \in Deliveries
      BY <3>1 DEF IsBatch, Pending
    <3>3. held'[w][d] # NotHeld
      BY <3>1, <3>2 DEF NotHeld
    <3>4. QED
      BY <3>2, <3>3 DEF Batch
  <2>2. \A v \in Workers : phase'[v] = "batch" => Batch(v)' # {}
    BY <1>7, <2>1 DEF Poll, Owned, Batch
  <2>3. \A d \in Deliveries : status'[d] = "unsent" => \E v \in Workers : phase'[v] = "unsent" /\ cur'[v] = d
    BY <1>7 DEF Poll, table, Owned
  <2>4. QED
    BY <2>2, <2>3 DEF Owned
<1>8. ASSUME NEW w \in Workers, Attempt(w) PROVE Owned'
  <2>1. phase[w] = "batch" /\ phase'[w] \in {"ok", "err", "bad"}
    BY <1>8 DEF Attempt
  <2>2. status' = status /\ held' = held
        /\ \A v \in Workers \ {w} : phase'[v] = phase[v] /\ cur'[v] = cur[v]
    BY <1>8 DEF Attempt, table
  <2>3. \A v \in Workers : Batch(v)' = Batch(v)
    BY <2>2 DEF Batch
  <2>4. \A d \in Deliveries : status'[d] = "unsent" => \E v \in Workers : phase'[v] = "unsent" /\ cur'[v] = d
    <3> SUFFICES ASSUME NEW d \in Deliveries, status[d] = "unsent"
                 PROVE  \E v \in Workers : phase'[v] = "unsent" /\ cur'[v] = d
      BY <2>2
    <3>1. PICK v \in Workers : phase[v] = "unsent" /\ cur[v] = d
      BY DEF Owned
    <3>2. QED
      BY <2>1, <2>2, <3>1
  <2>5. \A v \in Workers : phase'[v] = "batch" => Batch(v)' # {}
    BY <2>1, <2>2, <2>3 DEF Owned
  <2>6. QED
    BY <2>4, <2>5 DEF Owned
<1>9. ASSUME NEW w \in Workers, Record(w) PROVE Owned'
  <2>1. phase[w] \in {"ok", "err", "bad"} /\ cur[w] \in Deliveries /\ status[cur[w]] \in RowStatus
    BY <1>9 DEF Record, Outcome, OutcomeOf, Copies
  <2>2. \A d \in Deliveries : status'[d] = "unsent" => status[d] = "unsent"
    <3>1. AfterOutcome(phase[w], held[w][cur[w]])[1] \in RowStatus
      BY <2>1 DEF AfterOutcome, RowStatus
    <3>2. QED
      BY <1>9, <2>1, <3>1 DEF Record, UpdateDeliveryStatus, table, RowStatus
  <2>3. /\ phase'[w] = IF Batch(w) = {cur[w]} THEN "idle" ELSE "batch"
        /\ \A v \in Workers \ {w} : phase'[v] = phase[v] /\ cur'[v] = cur[v] /\ held'[v] = held[v]
        /\ \A d \in Deliveries \ {cur[w]} : held'[w][d] = held[w][d]
    BY <1>9 DEF Record, LetGo
  <2>4. phase'[w] = "batch" => Batch(w)' # {}
    <3>1. SUFFICES ASSUME Batch(w) # {cur[w]} PROVE Batch(w)' # {}
      BY <2>3
    <3>2. cur[w] \in Batch(w)
      BY <2>1 DEF Outcome, OutcomeOf, Batch
    <3>3. PICK d \in Batch(w) : d # cur[w]
      BY <3>1, <3>2
    <3>4. d \in Batch(w)'
      BY <2>3, <3>3 DEF Batch
    <3>5. QED
      BY <3>4
  <2>5. \A v \in Workers : phase'[v] = "batch" => Batch(v)' # {}
    <3>1. \A v \in Workers \ {w} : Batch(v)' = Batch(v)
      BY <2>3 DEF Batch
    <3>2. ASSUME NEW v \in Workers, v # w, phase'[v] = "batch" PROVE Batch(v)' # {}
      <4>1. Batch(v) # {}
        BY <2>3, <3>2 DEF Owned
      <4>2. QED
        BY <3>1, <3>2, <4>1
    <3>3. QED
      BY <2>4, <3>2
  <2>6. \A d \in Deliveries : status'[d] = "unsent" => \E v \in Workers : phase'[v] = "unsent" /\ cur'[v] = d
    <3> SUFFICES ASSUME NEW d \in Deliveries, status[d] = "unsent"
                 PROVE  \E v \in Workers : phase'[v] = "unsent" /\ cur'[v] = d
      BY <2>2
    <3>1. PICK v \in Workers : phase[v] = "unsent" /\ cur[v] = d
      BY DEF Owned
    <3>2. QED
      BY <2>1, <2>3, <3>1
  <2>7. QED
    BY <2>5, <2>6 DEF Owned
<1>10. CASE UNCHANGED vars
  BY <1>1, <1>10 DEF vars
<1>11. QED
  BY <1>2, <1>3, <1>4, <1>6, <1>7, <1>8, <1>9, <1>10 DEF Next

\* The place of a row in the order.
Place == [d \in {e \in Deliveries : status[e] \in RowStatus} |->
            CHOOSE i \in DOMAIN order : order[i] = d]

LEMMA PlaceOrders ==
  ASSUME TypeOK, Ordered
  PROVE  LET Rows == {e \in Deliveries : status[e] \in RowStatus}
         IN  /\ Place \in [Rows -> Nat]
             /\ \A d, e \in Rows : Place[d] = Place[e] => d = e
             /\ \A d, e \in Rows : Place[d] < Place[e] => Older(d, e)
<1> DEFINE Rows == {e \in Deliveries : status[e] \in RowStatus}
<1>1. \A d \in Rows : Place[d] \in DOMAIN order /\ order[Place[d]] = d
  BY DEF Place, Ordered
<1>2. DOMAIN order \subseteq Nat
  BY DEF TypeOK
<1>3. Place \in [Rows -> Nat]
  BY <1>1, <1>2 DEF Place
<1>4. QED
  BY <1>1, <1>3 DEF Older

\* Whatever is outstanding is in the hands of a worker, or a poll may read it;
\* a poll finds a batch whenever a row is pending; and a worker in the middle
\* of a batch always has an oldest row to go on with.  So none of the steps
\* that settle an activity ever waits for something that does not come.
NobodyStuck ==
  /\ \A d \in Deliveries : Stage(d) = "outstanding" =>
       \/ d \in Pending
       \/ IsHeld(d)
       \/ \E w \in Workers : phase[w] = "unsent" /\ cur[w] = d
  /\ Pending # {} => \E S \in SUBSET Pending : IsBatch(S)
  /\ \A w \in Workers : phase[w] = "batch" =>
       \E d \in Batch(w) : \A e \in Batch(w) \ {d} : Older(d, e)

LEMMA PollFindsABatch ==
  ASSUME TypeOK, Ordered, Pending # {}
  PROVE  \E S \in SUBSET Pending : IsBatch(S)
<1> DEFINE rank == [d \in Pending |-> Place[d]]
           Rows == {e \in Deliveries : status[e] \in RowStatus}
<1>1. Pending \subseteq Rows
  BY DEF Pending, RowStatus
<1>2. /\ rank \in [Pending -> Nat]
      /\ \A d, e \in Pending : rank[d] = rank[e] => d = e
      /\ \A d, e \in Pending : rank[d] < rank[e] => Older(d, e)
  BY <1>1, PlaceOrders
<1> HIDE DEF rank
<1>3. BatchLimit \in Nat /\ BatchLimit # 0
  BY DeliveryAssumption
<1>4. PICK S \in SUBSET Pending :
        /\ IsFiniteSet(S)
        /\ Cardinality(S) <= BatchLimit
        /\ S = Pending \/ Cardinality(S) = BatchLimit
        /\ \A d \in S, e \in Pending \ S : rank[d] < rank[e]
  BY <1>2, <1>3, FirstByRank
<1>5. S # {}
  <2>1. Cardinality({}) = 0
    BY FS_EmptySet
  <2>2. QED
    BY <1>3, <1>4, <2>1
<1>6. IsBatch(S)
  BY <1>2, <1>4, <1>5 DEF IsBatch
<1>7. QED
  BY <1>6

\* The half of EventuallySettled that is about states, for any number of
\* workers, rows and faults.
THEOREM NobodyGetsStuck == Spec => []NobodyStuck
<1>1. Init => Ordered /\ Owned
  BY DEF Init, Ordered, Owned, RowStatus
<1>2. IInv /\ Ordered /\ Owned /\ [Next]_vars => Ordered' /\ Owned'
  BY OrderedStep, OwnedStep
<1>3. IInv /\ Ordered /\ Owned => NobodyStuck
  <2> SUFFICES ASSUME IInv, Ordered, Owned PROVE NobodyStuck
    OBVIOUS
  <2>1. ASSUME NEW d \in Deliveries, Stage(d) = "outstanding", ~IsHeld(d), d \notin Pending
        PROVE  \E w \in Workers : phase[w] = "unsent" /\ cur[w] = d
    <3>1. status[d] = "unsent"
      BY <2>1 DEF Stage, Pending, IInv, TypeOK, NoRowStranded
    <3>2. QED
      BY <3>1 DEF Owned
  <2>2. ASSUME NEW w \in Workers, phase[w] = "batch"
        PROVE  \E d \in Batch(w) : \A e \in Batch(w) \ {d} : Older(d, e)
    <3> DEFINE rank == [d \in Batch(w) |-> Place[d]]
               Rows == {e \in Deliveries : status[e] \in RowStatus}
    <3>1. Batch(w) \subseteq Rows
      BY DEF Batch, IInv, Copies
    <3>2. /\ rank \in [Batch(w) -> Nat]
          /\ \A d, e \in Batch(w) : rank[d] = rank[e] => d = e
          /\ \A d, e \in Batch(w) : rank[d] < rank[e] => Older(d, e)
      BY <3>1, PlaceOrders DEF IInv
    <3>3. Batch(w) # {}
      BY <2>2 DEF Owned
    <3> HIDE DEF rank
    <3>4. PICK d \in Batch(w) : \A e \in Batch(w) : rank[d] <= rank[e]
      BY <3>2, <3>3, FirstOfSet
    <3>5. ASSUME NEW e \in Batch(w) \ {d} PROVE rank[d] < rank[e]
      <4>1. rank[d] <= rank[e] /\ rank[d] # rank[e] /\ rank[d] \in Nat /\ rank[e] \in Nat
        BY <3>2, <3>4
      <4>2. QED
        BY <4>1
    <3>6. QED
      BY <3>2, <3>5
  <2>3. QED
    BY <2>1, <2>2, PollFindsABatch DEF NobodyStuck, IInv
<1>4. QED
  BY <1>1, <1>2, <1>3, Invariance, PTL DEF Spec
-----------------------------------------------------------------------------
(* One worker.  With nobody else writing, a held copy is the row itself,   *)
(* so every post is either counted, about to be counted or lost to a fault *)
(* that was counted instead.                                               *)

InFlight(d) == \E w \in Workers : phase[w] \in {"ok", "err"} /\ cur[w] = d

Counts ==
  \A d \in Deliveries :
    /\ attempts[d] <= MaxDeliveryAttempts
    /\ posts[d] <= attempts[d] + faults + (IF InFlight(d) THEN 1 ELSE 0)
    /\ InFlight(d) => attempts[d] < MaxDeliveryAttempts

CopiesAreCurrent ==
  \A w \in Workers, d \in Deliveries :
    held[w][d] # NotHeld => held[w][d] = attempts[d] /\ status[d] = "pending"

SoloInv == IInv /\ Counts /\ CopiesAreCurrent

Alone == \A v, w \in Workers : v = w

\* Steps that insert a row or post directly: the workers hold nothing of d,
\* and nothing is in flight for it.
LEMMA SoloOffer ==
  ASSUME SoloInv, Alone, NEW d \in Deliveries, status[d] \in NoRow,
         \A e \in Deliveries \ {d} : attempts'[e] = attempts[e] /\ status'[e] = status[e],
         attempts'[d] \in {0, attempts[d]},
         UNCHANGED <<held, posts>>, faults' \in {faults, faults + 1},
         \A e \in Deliveries : InFlight(e)' = InFlight(e)
  PROVE  Counts' /\ CopiesAreCurrent'
<1>1. \A w \in Workers : held[w][d] = NotHeld
  BY DEF SoloInv, IInv, Copies, NoRow, RowStatus
<1>2. CopiesAreCurrent'
  BY <1>1 DEF SoloInv, CopiesAreCurrent
<1>3. posts[d] = 0 /\ ~InFlight(d)
  BY <1>1 DEF SoloInv, IInv, OwnActivity, Outcome, OutcomeOf, InFlight
<1>4. ASSUME NEW e \in Deliveries
      PROVE  /\ attempts'[e] <= MaxDeliveryAttempts
             /\ posts'[e] <= attempts'[e] + faults' + (IF InFlight(e)' THEN 1 ELSE 0)
             /\ InFlight(e)' => attempts'[e] < MaxDeliveryAttempts
  <2> USE DeliveryAssumption DEF SoloInv, IInv, TypeOK, Counts
  <2>1. CASE e = d
    BY <1>3, <2>1
  <2>2. CASE e # d /\ InFlight(e)'
    BY <2>2
  <2>3. CASE e # d /\ ~InFlight(e)'
    BY <2>3
  <2>4. QED
    BY <2>1, <2>2, <2>3
<1>5. QED
  BY <1>2, <1>4 DEF Counts

\* Deliver keeps SoloInv.
LEMMA SoloDeliver ==
  ASSUME SoloInv, Alone, NEW d \in Deliveries,
         Enqueue(d) \/ \E w \in Workers : DeliverUnbuildable(w, d) \/ Deliver(w, d)
  PROVE  Counts' /\ CopiesAreCurrent'
<1>1. /\ status[d] \in NoRow
      /\ \A e \in Deliveries \ {d} : attempts'[e] = attempts[e] /\ status'[e] = status[e]
      /\ attempts'[d] \in {0, attempts[d]}
      /\ UNCHANGED <<held, posts, faults>>
  BY DEF Enqueue, Insert, DeliverUnbuildable, Deliver, SoloInv, IInv, TypeOK, NoRow
<1>2. ASSUME NEW e \in Deliveries PROVE InFlight(e)' = InFlight(e)
  <2>1. CASE UNCHANGED <<phase, cur>>
    BY <2>1 DEF InFlight
  <2>2. CASE ~UNCHANGED <<phase, cur>>
    <3>1. PICK w \in Workers : Deliver(w, d)
      BY <2>2 DEF Enqueue, DeliverUnbuildable
    <3>2. phase[w] = "idle" /\ phase'[w] = "unsent"
      BY <2>2, <3>1 DEF Deliver, SoloInv, IInv, TypeOK
    <3>3. QED
      BY <3>2 DEF Alone, InFlight
  <2>3. QED
    BY <2>1, <2>2
<1>3. QED
  BY <1>1, <1>2, SoloOffer

\* QueueDelivery keeps SoloInv.
LEMMA SoloQueueDelivery ==
  ASSUME SoloInv, Alone, NEW w \in Workers, QueueDelivery(w)
  PROVE  Counts' /\ CopiesAreCurrent'
<1>1. cur[w] \in Deliveries /\ status[cur[w]] = "unsent" /\ phase[w] = "unsent"
  BY DEF QueueDelivery, SoloInv, IInv, Outcome, OutcomeOf
<1>2. /\ \A e \in Deliveries \ {cur[w]} : attempts'[e] = attempts[e] /\ status'[e] = status[e]
      /\ attempts'[cur[w]] \in {0, attempts[cur[w]]}
      /\ UNCHANGED <<held, posts>> /\ faults' \in {faults, faults + 1}
  BY <1>1 DEF QueueDelivery, Insert, SoloInv, IInv, TypeOK
<1>3. phase'[w] = "idle"
  BY DEF QueueDelivery, SoloInv, IInv, TypeOK
<1>4. \A e \in Deliveries : InFlight(e)' = InFlight(e)
  BY <1>1, <1>3 DEF Alone, InFlight
<1>5. QED
  BY <1>1, <1>2, <1>4, SoloOffer DEF NoRow

\* Poll keeps SoloInv.
LEMMA SoloPoll ==
  ASSUME SoloInv, Alone, NEW w \in Workers, Poll(w)
  PROVE  Counts' /\ CopiesAreCurrent'
<1> USE DEF SoloInv, IInv, TypeOK
<1>1. phase[w] = "idle" /\ phase'[w] = "batch" /\ UNCHANGED <<status, attempts, posts, faults>>
  BY DEF Poll, table
<1>2. \A e \in Deliveries : ~InFlight(e) /\ ~InFlight(e)'
  BY <1>1 DEF Alone, InFlight
<1>3. \A e \in Deliveries :
        held'[w][e] # NotHeld => held'[w][e] = attempts[e] /\ status[e] = "pending"
  BY DEF Poll, Pending
<1>4. CopiesAreCurrent'
  BY <1>1, <1>3 DEF Alone, CopiesAreCurrent
<1>5. Counts'
  BY <1>1, <1>2 DEF Counts
<1>6. QED
  BY <1>4, <1>5

\* Attempt keeps SoloInv.
LEMMA SoloAttempt ==
  ASSUME SoloInv, Alone, NEW w \in Workers, Attempt(w)
  PROVE  Counts' /\ CopiesAreCurrent'
<1> USE DeliveryAssumption DEF SoloInv, IInv, TypeOK
<1>1. phase[w] = "batch" /\ UNCHANGED <<status, attempts, held, faults>>
  BY DEF Attempt, table
<1>2. PICK d \in Batch(w) :
        /\ cur' = [cur EXCEPT ![w] = d]
        /\ \/ phase'[w] = "bad" /\ posts' = posts
           \/ phase'[w] \in {"ok", "err"} /\ posts' = [posts EXCEPT ![d] = @ + 1]
  BY DEF Attempt, remote
<1>3. d \in Deliveries /\ attempts[d] < MaxDeliveryAttempts
  BY DEF Batch, CopiesAreCurrent, NoRowStranded
<1>4. \A e \in Deliveries : ~InFlight(e)
  BY <1>1 DEF Alone, InFlight
<1>5. CopiesAreCurrent'
  BY <1>1 DEF CopiesAreCurrent
<1>6. CASE phase'[w] = "bad" /\ posts' = posts
  <2>1. \A e \in Deliveries : ~InFlight(e)'
    BY <1>6 DEF Alone, InFlight
  <2>2. Counts'
    BY <1>1, <1>4, <1>6, <2>1 DEF Counts
  <2>3. QED
    BY <1>5, <2>2
<1>7. CASE phase'[w] \in {"ok", "err"} /\ posts' = [posts EXCEPT ![d] = @ + 1]
  <2>1. \A e \in Deliveries : InFlight(e)' <=> e = d
    BY <1>2, <1>3, <1>7 DEF Alone, InFlight
  <2>2. ASSUME NEW e \in Deliveries
        PROVE  /\ attempts'[e] <= MaxDeliveryAttempts
               /\ posts'[e] <= attempts'[e] + faults' + (IF InFlight(e)' THEN 1 ELSE 0)
               /\ InFlight(e)' => attempts'[e] < MaxDeliveryAttempts
    <3>1. CASE e = d
      BY <1>1, <1>3, <1>4, <1>7, <2>1, <3>1 DEF Counts
    <3>2. CASE e # d
      BY <1>1, <1>4, <1>7, <2>1, <3>2 DEF Counts
    <3>3. QED
      BY <3>1, <3>2
  <2>3. QED
    BY <1>5, <2>2 DEF Counts
<1>8. QED
  BY <1>2, <1>5, <1>6, <1>7

\* Record keeps SoloInv.
LEMMA SoloRecord ==
  ASSUME SoloInv, IInv', Alone, NEW w \in Workers, Record(w)
  PROVE  Counts' /\ CopiesAreCurrent'
<1> USE DeliveryAssumption DEF SoloInv, IInv, TypeOK
<1> DEFINE d == cur[w]
           n == held[w][d]
<1>1. /\ phase[w] \in {"ok", "err", "bad"}
      /\ phase'[w] \in {"idle", "batch"}
      /\ held' = [held EXCEPT ![w][d] = NotHeld]
      /\ UNCHANGED posts
  BY DEF Record, LetGo
<1>2. d \in Deliveries /\ n = attempts[d] /\ status[d] = "pending" /\ n < MaxDeliveryAttempts
  BY <1>1 DEF Outcome, OutcomeOf, CopiesAreCurrent, NoRowStranded
<1>3. \A e \in Deliveries : ~InFlight(e)' /\ (InFlight(e) => e = d /\ phase[w] \in {"ok", "err"})
  BY <1>1 DEF Alone, InFlight
<1>4. /\ \A e \in Deliveries \ {d} : status'[e] = status[e] /\ attempts'[e] = attempts[e]
      /\ \/ attempts'[d] = n /\ faults' = faults + 1
         \/ attempts'[d] = n /\ faults' = faults /\ phase[w] = "bad"
         \/ attempts'[d] = n + 1 /\ faults' = faults
  <2>1. CASE UNCHANGED table /\ faults' = faults + 1
    BY <1>2, <2>1 DEF table
  <2>2. CASE UpdateDeliveryStatus(d, AfterOutcome(phase[w], n)[1], AfterOutcome(phase[w], n)[2])
             /\ UNCHANGED faults
    <3>1. CASE phase[w] = "bad"
      BY <1>2, <2>2, <3>1 DEF UpdateDeliveryStatus, AfterOutcome
    <3>2. CASE phase[w] = "ok"
      BY <1>2, <2>2, <3>2 DEF UpdateDeliveryStatus, AfterOutcome
    <3>3. CASE phase[w] = "err"
      BY <1>2, <2>2, <3>3 DEF UpdateDeliveryStatus, AfterOutcome, Counted
    <3>4. QED
      BY <1>1, <3>1, <3>2, <3>3
  <2>3. QED
    BY <2>1, <2>2 DEF Record
<1>5. CopiesAreCurrent'
  <2>1. ASSUME NEW e \in Deliveries, held'[w][e] # NotHeld
        PROVE  held'[w][e] = attempts'[e] /\ status'[e] = "pending"
    <3>1. e # d /\ held'[w][e] = held[w][e]
      BY <1>1, <1>2, <2>1
    <3>2. QED
      BY <1>4, <2>1, <3>1 DEF CopiesAreCurrent
  <2>2. QED
    BY <2>1 DEF Alone, CopiesAreCurrent
<1>6. ASSUME NEW e \in Deliveries
      PROVE  attempts'[e] <= MaxDeliveryAttempts /\ posts'[e] <= attempts'[e] + faults'
  <2>1. CASE e = d
    <3>1. /\ phase[w] = "bad" => ~InFlight(d)
          /\ attempts[d] \in Nat /\ posts[d] \in Nat /\ faults \in Nat
      BY <1>2, <1>3
    <3>2. posts[d] <= attempts[d] + faults + 1
          /\ (~InFlight(d) => posts[d] <= attempts[d] + faults)
      BY <1>2, <3>1 DEF Counts
    <3>3. QED
      BY <1>1, <1>2, <1>4, <2>1, <3>1, <3>2
  <2>2. CASE e # d
    BY <1>1, <1>3, <1>4, <2>2 DEF Counts, Record
  <2>3. QED
    BY <2>1, <2>2
<1>7. Counts'
  <2>1. ASSUME NEW e \in Deliveries
        PROVE  posts'[e] <= attempts'[e] + faults' + (IF InFlight(e)' THEN 1 ELSE 0)
    BY <1>3, <1>6
  <2>2. QED
    BY <1>3, <1>6, <2>1 DEF Counts
<1>8. QED
  BY <1>5, <1>7

\* Crash keeps SoloInv.
LEMMA SoloCrash ==
  ASSUME SoloInv, Alone, NEW w \in Workers, Crash(w)
  PROVE  Counts' /\ CopiesAreCurrent'
<1> USE DeliveryAssumption DEF SoloInv, IInv, TypeOK
<1>1. /\ phase'[w] = "idle" /\ faults' = faults + 1
      /\ UNCHANGED <<attempts, posts>>
      /\ \A e \in Deliveries : held'[w][e] = NotHeld
  BY DEF Crash
<1>2. \A e \in Deliveries : ~InFlight(e)'
  BY <1>1 DEF Alone, InFlight
<1>3. CopiesAreCurrent'
  BY <1>1 DEF Alone, CopiesAreCurrent
<1>4. Counts'
  BY <1>1, <1>2 DEF Counts
<1>5. QED
  BY <1>3, <1>4

\* With one worker, SoloInv is inductive.
LEMMA SoloStep == Alone /\ SoloInv /\ [Next]_vars => SoloInv'
<1> SUFFICES ASSUME Alone, SoloInv, [Next]_vars PROVE SoloInv'
  OBVIOUS
<1>1. IInv'
  BY NextInv DEF SoloInv
<1>2. CASE Next
  <2>1. Counts' /\ CopiesAreCurrent'
    BY <1>1, <1>2, SoloDeliver, SoloQueueDelivery, SoloPoll, SoloAttempt, SoloRecord, SoloCrash
       DEF Next
  <2>2. QED
    BY <1>1, <2>1 DEF SoloInv
<1>3. CASE UNCHANGED vars
  BY <1>1, <1>3 DEF vars, SoloInv, Counts, CopiesAreCurrent, InFlight
<1>4. QED
  BY <1>2, <1>3

\* SoloInv holds at the start.
LEMMA SoloInit == Init => SoloInv
<1> SUFFICES ASSUME Init PROVE SoloInv
  OBVIOUS
<1>1. Counts /\ CopiesAreCurrent
  BY DeliveryAssumption DEF Init, Counts, CopiesAreCurrent, InFlight
<1>2. QED
  BY <1>1, InitInv DEF SoloInv

\* With one worker, MaxDeliveryAttempts bounds the posts of a delivery, up to
\* one more for each fault.
THEOREM RetryBudgetHolds == ASSUME Alone PROVE Spec => []RetryBudget
<1>1. SoloInv => RetryBudget
  <2> SUFFICES ASSUME SoloInv, NEW d \in Deliveries
               PROVE  posts[d] <= MaxDeliveryAttempts + faults
    BY DEF RetryBudget
  <2> USE DeliveryAssumption DEF SoloInv, IInv, TypeOK, Counts
  <2>1. CASE InFlight(d)
    BY <2>1
  <2>2. CASE ~InFlight(d)
    BY <2>2
  <2>3. QED
    BY <2>1, <2>2
<1>2. SoloInv /\ [Next]_vars => SoloInv'
  BY SoloStep
<1>3. QED
  BY <1>1, <1>2, SoloInit, PTL DEF Spec

\* What db.go says of MaxDeliveryAttempts is exactly so for one worker whose
\* process never dies and whose writes never fail.
THEOREM RetryLimitAlone == ASSUME Alone, FaultBound = 0 PROVE Spec => []RetryLimit
<1>1. Init => faults = 0
  BY DEF Init
<1>2. TypeOK /\ faults = 0 /\ [Next]_vars => (faults = 0)'
  BY DeliveryAssumption DEF Next, vars, Enqueue, DeliverUnbuildable, Deliver, QueueDelivery,
     Poll, Attempt, Record, Crash
<1>3. TypeOK /\ faults = 0 /\ RetryBudget => RetryLimit
  BY DeliveryAssumption DEF TypeOK, RetryBudget, RetryLimit
<1>4. Spec => []RetryBudget
  BY RetryBudgetHolds
<1>5. QED
  BY <1>1, <1>2, <1>3, <1>4, TypeCorrect, PTL DEF Spec

\* With one worker, a verdict once written is never overwritten.
THEOREM VerdictIsFinalHolds == ASSUME Alone PROVE Spec => VerdictIsFinal
<1>1. SoloInv /\ [Next]_vars =>
        [\A d \in Deliveries :
           status[d] \in {"delivered", "failed"} => status'[d] = status[d]]_vars
  <2> SUFFICES ASSUME SoloInv, Next, NEW d \in Deliveries,
                      status[d] \in {"delivered", "failed"}
               PROVE  status'[d] = status[d]
    OBVIOUS
  <2> USE DEF SoloInv, IInv, TypeOK
  <2>1. ASSUME NEW w \in Workers, Record(w) PROVE status'[d] = status[d]
    <3>1. cur[w] # d
      BY <2>1 DEF Record, Outcome, OutcomeOf, CopiesAreCurrent
    <3>2. QED
      BY <2>1, <3>1 DEF Record, UpdateDeliveryStatus, table
  <2>2. ASSUME NEW w \in Workers, QueueDelivery(w) \/ Crash(w) PROVE status'[d] = status[d]
    BY <2>2 DEF QueueDelivery, Insert, Crash, Outcome, OutcomeOf
  <2>3. ASSUME NEW e \in Deliveries,
               Enqueue(e) \/ \E w \in Workers : DeliverUnbuildable(w, e) \/ Deliver(w, e)
        PROVE  status'[d] = status[d]
    BY <2>3 DEF Enqueue, Insert, DeliverUnbuildable, Deliver
  <2>4. QED
    BY <2>1, <2>2, <2>3 DEF Next, Poll, Attempt, table
<1>2. SoloInv /\ [Next]_vars => SoloInv'
  BY SoloStep
<1>3. QED
  BY <1>1, <1>2, SoloInit, PTL DEF Spec, VerdictIsFinal
-----------------------------------------------------------------------------
(* Two workers.  A row leaves room for MaxDeliveryAttempts - attempts more *)
(* posts while it is pending, and a copy for as many as the count it holds *)
(* leaves.  A stale copy with much room may reopen a row that has little,  *)
(* and the more room the two have the more often that can happen: Worth    *)
(* bounds (twice) the posts that can still come.  Every post pays for      *)
(* itself when it is recorded, and a fault gives back at most one copy.    *)

Worth(x, y) == IF x <= y THEN 2 * x + y * (y + 1) ELSE 2 * y + x * (x + 1)

Allowance(f) == MaxDeliveryAttempts * (MaxDeliveryAttempts + 3 + 2 * f)

\* The posts a row, and a worker's copy of it, leave room for.
Room(d) ==
  IF status[d] \in {"absent", "unsent"} THEN MaxDeliveryAttempts
  ELSE IF status[d] = "pending" THEN MaxDeliveryAttempts - attempts[d] ELSE 0

RoomOf(w, d) == IF held[w][d] # NotHeld THEN MaxDeliveryAttempts - held[w][d] ELSE Room(d)

\* Posts made and not yet recorded.
Flying(w, d) == IF phase[w] \in {"ok", "err"} /\ cur[w] = d THEN 1 ELSE 0

PaidFor(v, w, d) ==
  2 * posts[d] + Worth(RoomOf(v, d), RoomOf(w, d))
    <= Allowance(faults) + 2 * (Flying(v, d) + Flying(w, d))

Paid(v, w) == \A d \in Deliveries : PaidFor(v, w, d)

\* A pending row was last written by a worker that has let go of it since,
\* or read it again.
LastWriter ==
  \A d \in Deliveries :
    status[d] = "pending" => \E w \in Workers : held[w][d] \in {NotHeld, attempts[d]}

PairInv(v, w) == IInv /\ LastWriter /\ Paid(v, w)

Pair(v, w) == v # w /\ Workers = {v, w}

\* Less room is worth less.
LEMMA SquareGrows ==
  ASSUME NEW x \in Nat, NEW y \in Nat, x <= y PROVE x * (x + 1) <= y * (y + 1)
OBVIOUS

\* One unit of room is worth a post at least.
LEMMA SquareStep ==
  ASSUME NEW x \in Nat, x >= 1 PROVE (x - 1) * (x - 1 + 1) = x * (x + 1) - 2 * x
OBVIOUS

LEMMA WorthSymmetric ==
  ASSUME NEW x \in Nat, NEW y \in Nat PROVE Worth(x, y) = Worth(y, x)
BY DEF Worth

LEMMA WorthGrows ==
  ASSUME NEW x \in Nat, NEW y \in Nat, NEW r \in Nat, NEW s \in Nat, r <= x, s <= y
  PROVE  Worth(r, s) <= Worth(x, y)
<1>1. r * (r + 1) <= x * (x + 1) /\ s * (s + 1) <= y * (y + 1)
  BY SquareGrows
<1>2. (r <= y => r * (r + 1) <= y * (y + 1)) /\ (s <= x => s * (s + 1) <= x * (x + 1))
  BY SquareGrows
<1>3. x * (x + 1) \in Nat /\ y * (y + 1) \in Nat /\ r * (r + 1) \in Nat /\ s * (s + 1) \in Nat
  OBVIOUS
<1>4. (x <= y => x * (x + 1) <= y * (y + 1)) /\ (y <= x => y * (y + 1) <= x * (x + 1))
  BY SquareGrows
<1>5. QED
  BY <1>1, <1>2, <1>3, <1>4 DEF Worth

\* A copy that is written back gives up a unit of room; the other worker is
\* left with no more than it had, or with what the row leaves.
LEMMA WorthSpent ==
  ASSUME NEW x \in Nat, NEW y \in Nat, NEW r \in Nat, NEW s \in Nat,
         x >= 1, r <= x - 1, s <= y \/ s = r
  PROVE  Worth(r, s) + 2 <= Worth(x, y)
<1> DEFINE z == x - 1
<1>1. z \in Nat /\ z * (z + 1) = x * (x + 1) - 2 * x
  BY SquareStep
<1>2. x * (x + 1) \in Nat /\ y * (y + 1) \in Nat /\ z * (z + 1) \in Nat
  BY <1>1
<1>3. CASE s <= y
  <2>1. Worth(r, s) <= Worth(z, y)
    BY <1>1, <1>3, WorthGrows
  <2>2. Worth(z, y) + 2 <= Worth(x, y)
    <3>1. CASE y <= z
      BY <1>1, <1>2, <3>1 DEF Worth
    <3>2. CASE z < y
      BY <1>1, <1>2, <3>2 DEF Worth
    <3>3. QED
      BY <1>1, <3>1, <3>2
  <2>3. Worth(r, s) \in Int /\ Worth(z, y) \in Int /\ Worth(x, y) \in Int
    BY <1>1, <1>2 DEF Worth
  <2>4. QED
    BY <2>1, <2>2, <2>3
<1>4. CASE s = r
  <2>1. Worth(r, s) <= Worth(z, z)
    BY <1>1, <1>4, WorthGrows
  <2>2. Worth(z, z) = x * (x + 1) - 2
    BY <1>1, <1>2 DEF Worth
  <2>3. x * (x + 1) <= Worth(x, y)
    <3>1. x <= y => x * (x + 1) <= y * (y + 1)
      BY SquareGrows
    <3>2. QED
      BY <1>2, <3>1 DEF Worth
  <2>4. Worth(r, s) \in Int /\ Worth(x, y) \in Int
    BY <1>2 DEF Worth
  <2>5. QED
    BY <1>2, <2>1, <2>2, <2>3, <2>4
<1>5. QED
  BY <1>3, <1>4

\* A copy that is lost to a fault gives its worker what room the row leaves:
\* at most MaxDeliveryAttempts - 1 more.
LEMMA WorthLost ==
  ASSUME NEW x \in Nat, NEW r \in Nat, NEW m \in Nat, x >= 1, r <= m, m >= 1
  PROVE  Worth(r, r) + 2 <= Worth(x, r) + 2 * m
<1>1. x * (x + 1) \in Nat /\ r * (r + 1) \in Nat
  OBVIOUS
<1>2. r <= x => r * (r + 1) <= x * (x + 1)
  BY SquareGrows
<1>3. QED
  BY <1>1, <1>2 DEF Worth

\* Each fault adds MaxDeliveryAttempts to the allowance.
LEMMA AllowanceGrows ==
  ASSUME NEW f \in Nat
  PROVE  /\ Allowance(f) \in Nat
         /\ Allowance(f + 1) = Allowance(f) + 2 * MaxDeliveryAttempts
BY DeliveryAssumption DEF Allowance

\* Worth is a natural number.
LEMMA WorthTyped ==
  ASSUME NEW x \in Nat, NEW y \in Nat PROVE Worth(x, y) \in Nat
<1>1. x * (x + 1) \in Nat /\ y * (y + 1) \in Nat
  OBVIOUS
<1>2. QED
  BY <1>1 DEF Worth

\* A row and a copy of it leave room for MaxDeliveryAttempts posts at most,
\* and a copy that is held for one at least.
RoomsTyped ==
  \A w \in Workers, d \in Deliveries :
    /\ Room(d) \in 0 .. MaxDeliveryAttempts
    /\ RoomOf(w, d) \in 0 .. MaxDeliveryAttempts
    /\ held[w][d] # NotHeld => RoomOf(w, d) >= 1

LEMMA RoomTyped == IInv => RoomsTyped
<1> SUFFICES ASSUME IInv, NEW w \in Workers, NEW d \in Deliveries
             PROVE  /\ Room(d) \in 0 .. MaxDeliveryAttempts
                    /\ RoomOf(w, d) \in 0 .. MaxDeliveryAttempts
                    /\ held[w][d] # NotHeld => RoomOf(w, d) >= 1
  BY DEF RoomsTyped
<1> USE DeliveryAssumption DEF IInv, TypeOK
<1>1. Room(d) \in 0 .. MaxDeliveryAttempts
  BY DEF Room, NoRowStranded
<1>2. QED
  BY <1>1 DEF RoomOf, Copies

\* A step that posts nothing and leaves no more room than before is paid for.
LEMMA PaidKept ==
  ASSUME IInv, IInv', NEW v \in Workers, NEW w \in Workers, NEW d \in Deliveries,
         PaidFor(v, w, d), posts'[d] = posts[d], faults' \in {faults, faults + 1},
         RoomOf(v, d)' <= RoomOf(v, d), RoomOf(w, d)' <= RoomOf(w, d),
         Flying(v, d)' = Flying(v, d), Flying(w, d)' = Flying(w, d)
  PROVE  PaidFor(v, w, d)'
<1>1. /\ RoomOf(v, d) \in Nat /\ RoomOf(w, d) \in Nat
      /\ RoomOf(v, d)' \in Nat /\ RoomOf(w, d)' \in Nat
  <2>1. RoomsTyped /\ RoomsTyped'
    BY RoomTyped, PTL
  <2>2. QED
    BY <2>1, DeliveryAssumption DEF RoomsTyped
<1>2. Worth(RoomOf(v, d)', RoomOf(w, d)') <= Worth(RoomOf(v, d), RoomOf(w, d))
  BY <1>1, WorthGrows
<1>3. Worth(RoomOf(v, d)', RoomOf(w, d)') \in Nat /\ Worth(RoomOf(v, d), RoomOf(w, d)) \in Nat
  BY <1>1, WorthTyped
<1>4. Worth(RoomOf(v, d), RoomOf(w, d))' = Worth(RoomOf(v, d)', RoomOf(w, d)')
  BY DEF Worth
<1>5. Allowance(faults)' \in Nat /\ Allowance(faults) \in Nat /\ Allowance(faults) <= Allowance(faults)'
  <2>1. faults \in Nat /\ Allowance(faults)' = Allowance(faults')
    BY DEF IInv, TypeOK, Allowance
  <2>2. QED
    BY <2>1, AllowanceGrows, DeliveryAssumption
<1>6. Flying(v, d) \in Nat /\ Flying(w, d) \in Nat /\ posts[d] \in Nat
  BY DEF Flying, IInv, TypeOK
<1>7. QED
  BY <1>2, <1>3, <1>4, <1>5, <1>6 DEF PaidFor

\* Handing an activity over leaves it no more room than it had.
LEMMA PairOffer ==
  ASSUME IInv, IInv', NEW v, NEW w, Pair(v, w), Paid(v, w), NEW u \in Workers, NEW d \in Deliveries,
         Enqueue(d) \/ DeliverUnbuildable(u, d) \/ Deliver(u, d) \/ QueueDelivery(u)
  PROVE  Paid(v, w)'
<1> SUFFICES ASSUME NEW e \in Deliveries PROVE PaidFor(v, w, e)'
  BY DEF Paid
<1> USE DEF IInv, TypeOK
<1>1. v \in Workers /\ w \in Workers /\ PaidFor(v, w, e)
  BY DEF Pair, Paid
<1>2. posts'[e] = posts[e] /\ held' = held /\ faults' \in {faults, faults + 1}
  BY DEF Enqueue, DeliverUnbuildable, Deliver, QueueDelivery, Insert
<1>3. Flying(v, e)' = Flying(v, e) /\ Flying(w, e)' = Flying(w, e)
  BY <1>1 DEF Enqueue, DeliverUnbuildable, Deliver, QueueDelivery, Insert, Flying
<1>4. Room(e)' <= Room(e)
  <2>1. RoomsTyped /\ RoomsTyped'
    BY RoomTyped, PTL
  <2>2. Room(e) \in 0 .. MaxDeliveryAttempts /\ Room(e)' \in 0 .. MaxDeliveryAttempts
    BY <1>1, <2>1 DEF RoomsTyped
  <2>3. CASE status'[e] = status[e] /\ attempts'[e] = attempts[e]
    BY <2>2, <2>3, DeliveryAssumption DEF Room
  <2>4. CASE status[e] \in {"absent", "unsent"}
    BY <2>2, <2>4, DeliveryAssumption DEF Room
  <2>5. (status'[e] = status[e] /\ attempts'[e] = attempts[e]) \/ status[e] \in {"absent", "unsent"}
    <3>1. CASE Enqueue(d) \/ DeliverUnbuildable(u, d)
      BY <3>1 DEF Enqueue, DeliverUnbuildable, Insert
    <3>2. CASE Deliver(u, d)
      BY <3>2 DEF Deliver
    <3>3. CASE QueueDelivery(u)
      <4>1. cur[u] \in Deliveries /\ status[cur[u]] = "unsent"
        BY <3>3 DEF QueueDelivery, Outcome, OutcomeOf
      <4>2. CASE e # cur[u]
        BY <3>3, <4>1, <4>2 DEF QueueDelivery, Insert
      <4>3. QED
        BY <4>1, <4>2
    <3>4. QED
      BY <3>1, <3>2, <3>3
  <2>6. QED
    BY <2>3, <2>4, <2>5
<1>5. RoomOf(v, e)' <= RoomOf(v, e) /\ RoomOf(w, e)' <= RoomOf(w, e)
  BY <1>1, <1>2, <1>4, DeliveryAssumption DEF RoomOf
<1>6. QED
  BY <1>1, <1>2, <1>3, <1>5, PaidKept

\* A copy leaves the room that the row it was read from leaves.
LEMMA PairPoll ==
  ASSUME IInv, IInv', NEW v, NEW w, Pair(v, w), Paid(v, w), NEW u \in Workers, Poll(u)
  PROVE  Paid(v, w)'
<1> SUFFICES ASSUME NEW e \in Deliveries PROVE PaidFor(v, w, e)'
  BY DEF Paid
<1> USE DEF IInv, TypeOK
<1>1. v \in Workers /\ w \in Workers /\ PaidFor(v, w, e)
  BY DEF Pair, Paid
<1>2. posts' = posts /\ faults' = faults /\ Room(e)' = Room(e)
  BY DEF Poll, table, Room
<1>3. Flying(v, e)' = Flying(v, e) /\ Flying(w, e)' = Flying(w, e)
  BY <1>1 DEF Poll, Flying
<1>4. ASSUME NEW x \in Workers PROVE RoomOf(x, e)' = RoomOf(x, e)
  <2>1. CASE x # u
    BY <1>2, <2>1 DEF Poll, RoomOf
  <2>2. CASE x = u
    <3>1. held[x][e] = NotHeld
      BY <2>2 DEF Poll, Outcome, OutcomeOf
    <3>2. held'[x][e] = NotHeld \/ (held'[x][e] = attempts[e] /\ status[e] = "pending")
      BY <2>2 DEF Poll, IsBatch, Pending
    <3>3. QED
      BY <1>2, <3>1, <3>2 DEF RoomOf, Room
  <2>3. QED
    BY <2>1, <2>2
<1>5. RoomOf(v, e)' <= RoomOf(v, e) /\ RoomOf(w, e)' <= RoomOf(w, e)
  <2>1. RoomsTyped
    BY RoomTyped
  <2>2. QED
    BY <1>1, <1>4, <2>1, DeliveryAssumption DEF RoomsTyped
<1>6. QED
  BY <1>1, <1>2, <1>3, <1>5, PaidKept

\* A post is in flight until it is recorded.
LEMMA PairAttempt ==
  ASSUME IInv, IInv', NEW v, NEW w, Pair(v, w), Paid(v, w), Attempt(v)
  PROVE  Paid(v, w)'
<1> SUFFICES ASSUME NEW e \in Deliveries PROVE PaidFor(v, w, e)'
  BY DEF Paid
<1>1. v \in Workers /\ w \in Workers /\ v # w /\ PaidFor(v, w, e)
  BY DEF Pair, Paid
<1>2. held' = held /\ faults' = faults /\ Room(e)' = Room(e)
  BY DEF Attempt, table, Room
<1>3. RoomOf(v, e)' = RoomOf(v, e) /\ RoomOf(w, e)' = RoomOf(w, e)
  BY <1>2 DEF RoomOf
<1>4. Flying(w, e)' = Flying(w, e) /\ Flying(v, e) = 0
  BY <1>1 DEF Attempt, Flying, IInv, TypeOK
<1>5. \/ posts'[e] = posts[e] /\ Flying(v, e)' = 0
      \/ posts'[e] = posts[e] + 1 /\ Flying(v, e)' = 1
  BY <1>1 DEF Attempt, Flying, IInv, TypeOK
<1>6. /\ Worth(RoomOf(v, e), RoomOf(w, e))' = Worth(RoomOf(v, e), RoomOf(w, e))
      /\ Allowance(faults)' = Allowance(faults)
  BY <1>2, <1>3 DEF Worth, Allowance
<1>7. /\ Worth(RoomOf(v, e), RoomOf(w, e)) \in Nat /\ Allowance(faults) \in Nat
      /\ posts[e] \in Nat /\ Flying(w, e) \in Nat
  <2>1. RoomOf(v, e) \in Nat /\ RoomOf(w, e) \in Nat
    BY <1>1, RoomTyped, DeliveryAssumption DEF RoomsTyped
  <2>2. QED
    BY <2>1, WorthTyped, AllowanceGrows DEF Flying, IInv, TypeOK
<1>8. 2 * posts[e] + Worth(RoomOf(v, e), RoomOf(w, e)) <= Allowance(faults) + 2 * Flying(w, e)
  BY <1>1, <1>4, <1>7 DEF PaidFor
<1>9. 2 * posts'[e] + Worth(RoomOf(v, e), RoomOf(w, e))
        <= Allowance(faults) + 2 * (Flying(v, e)' + Flying(w, e))
  BY <1>5, <1>7, <1>8
<1>10. QED
  BY <1>4, <1>6, <1>9 DEF PaidFor

\* What a worker that lets go of a copy leaves behind: it spends a unit of
\* room for the post it recorded, or a fault pays for both.
LEMMA PairLetGo ==
  ASSUME IInv, IInv', NEW v, NEW w, Pair(v, w), LastWriter, NEW d \in Deliveries,
         PaidFor(v, w, d), posts'[d] = posts[d],
         held[v][d] # NotHeld, held'[v][d] = NotHeld, held'[w][d] = held[w][d],
         Flying(v, d)' = 0, Flying(w, d)' = Flying(w, d),
         \/ faults' = faults + 1 /\ Room(d)' = Room(d)
         \/ faults' = faults /\ Room(d)' <= RoomOf(v, d) - 1
  PROVE  PaidFor(v, w, d)'
<1>1. v \in Workers /\ w \in Workers /\ v # w
  BY DEF Pair
<1> DEFINE x == RoomOf(v, d)
           y == RoomOf(w, d)
           r == Room(d)'
           s == RoomOf(w, d)'
<1>2. /\ x \in 1 .. MaxDeliveryAttempts /\ y \in 0 .. MaxDeliveryAttempts
      /\ r \in 0 .. MaxDeliveryAttempts /\ s \in 0 .. MaxDeliveryAttempts
  <2>1. RoomsTyped /\ RoomsTyped'
    BY RoomTyped, PTL
  <2>2. QED
    BY <1>1, <2>1, DeliveryAssumption DEF RoomsTyped
<1>3. RoomOf(v, d)' = r
  BY <1>1 DEF RoomOf
<1>4. Worth(RoomOf(v, d), RoomOf(w, d))' = Worth(r, s)
  BY <1>3 DEF Worth
<1>5. (held[w][d] # NotHeld /\ s = y) \/ (held[w][d] = NotHeld /\ s = r /\ y = Room(d))
  BY DEF RoomOf
<1>6. /\ Flying(v, d) \in 0 .. 1 /\ Flying(w, d) \in 0 .. 1 /\ posts[d] \in Nat
      /\ Allowance(faults) \in Nat
      /\ Allowance(faults + 1) = Allowance(faults) + 2 * MaxDeliveryAttempts
      /\ Allowance(faults)' = Allowance(faults')
  <2>1. Allowance(faults)' = Allowance(faults')
    BY DEF Allowance
  <2>2. posts[d] \in Nat /\ faults \in Nat
    BY DEF IInv, TypeOK
  <2>3. QED
    BY <2>1, <2>2, AllowanceGrows DEF Flying
<1>7. Worth(x, y) \in Nat /\ Worth(r, s) \in Nat
  <2>1. x \in Nat /\ y \in Nat /\ r \in Nat /\ s \in Nat
    BY <1>2, DeliveryAssumption
  <2>2. QED
    BY <2>1, WorthTyped
<1>8. 2 * posts[d] + Worth(x, y) <= Allowance(faults) + 2 * (Flying(v, d) + Flying(w, d))
  BY DEF PaidFor
<1>9. CASE faults' = faults /\ r <= x - 1
  <2>1. Worth(r, s) + 2 <= Worth(x, y)
    BY <1>2, <1>5, <1>9, WorthSpent, DeliveryAssumption
  <2>2. QED
    BY <1>4, <1>6, <1>7, <1>8, <1>9, <2>1 DEF PaidFor
<1>10. CASE faults' = faults + 1 /\ r = Room(d)
  <2>1. Worth(r, s) + 2 <= Worth(x, y) + 2 * MaxDeliveryAttempts
    <3>1. CASE s = r /\ y = r
      BY <1>2, <3>1, WorthLost, DeliveryAssumption
    <3>2. CASE held[w][d] # NotHeld /\ s = y /\ r <= x
      <4>1. Worth(r, s) <= Worth(x, y)
        BY <1>2, <3>2, WorthGrows, DeliveryAssumption
      <4>2. QED
        BY <1>7, <4>1, DeliveryAssumption
    <3>3. held[w][d] # NotHeld => r = x \/ r = y \/ r = 0
      <4>1. status[d] \in RowStatus
        BY <1>1 DEF IInv, Copies
      <4>2. CASE status[d] # "pending"
        BY <1>10, <4>1, <4>2 DEF Room, RowStatus
      <4>3. CASE status[d] = "pending"
        <5>1. PICK u \in Workers : held[u][d] \in {NotHeld, attempts[d]}
          BY <4>3 DEF LastWriter
        <5>2. u = v \/ u = w
          BY DEF Pair
        <5>3. held[v][d] = attempts[d] \/ (held[w][d] # NotHeld => held[w][d] = attempts[d])
          BY <5>1, <5>2
        <5>4. QED
          BY <1>10, <4>3, <5>3 DEF Room, RoomOf
      <4>4. QED
        BY <4>2, <4>3
    <3>4. QED
      BY <1>2, <1>5, <1>10, <3>1, <3>2, <3>3, DeliveryAssumption
  <2>2. QED
    BY <1>4, <1>6, <1>7, <1>8, <1>10, <2>1, DeliveryAssumption DEF PaidFor
<1>11. QED
  BY <1>9, <1>10

\* Record gives up a unit of room for the post it records; a write that fails
\* is a fault.
LEMMA PairRecord ==
  ASSUME IInv, IInv', NEW v, NEW w, Pair(v, w), LastWriter, Paid(v, w), Record(v)
  PROVE  Paid(v, w)'
<1> SUFFICES ASSUME NEW d \in Deliveries PROVE PaidFor(v, w, d)'
  BY DEF Paid
<1>1. v \in Workers /\ w \in Workers /\ v # w /\ PaidFor(v, w, d)
  BY DEF Pair, Paid
<1>2. cur[v] \in Deliveries /\ held[v][cur[v]] # NotHeld
  BY <1>1 DEF Record, IInv, Outcome, OutcomeOf
<1>3. posts'[d] = posts[d] /\ held'[w] = held[w] /\ faults' \in {faults, faults + 1}
  BY <1>1 DEF Record, LetGo, IInv, TypeOK
<1>4. Flying(w, d)' = Flying(w, d)
  BY <1>1 DEF Record, LetGo, Flying, IInv, TypeOK
<1>5. CASE d # cur[v]
  <2>1. Room(d)' = Room(d) /\ held'[v][d] = held[v][d]
    BY <1>1, <1>2, <1>5 DEF Record, LetGo, UpdateDeliveryStatus, table, Room, IInv, TypeOK
  <2>2. Flying(v, d)' = 0 /\ Flying(v, d) = 0
    BY <1>1, <1>5 DEF Record, LetGo, Flying, IInv, TypeOK
  <2>3. RoomOf(v, d)' = RoomOf(v, d) /\ RoomOf(w, d)' = RoomOf(w, d)
    BY <1>3, <2>1 DEF RoomOf
  <2>4. RoomOf(v, d) \in Nat /\ RoomOf(w, d) \in Nat
    BY <1>1, RoomTyped, DeliveryAssumption DEF RoomsTyped
  <2>5. QED
    BY <1>1, <1>3, <1>4, <2>2, <2>3, <2>4, PaidKept
<1>6. CASE d = cur[v]
  <2>1. held'[v][d] = NotHeld /\ Flying(v, d)' = 0
    BY <1>1, <1>6 DEF Record, LetGo, Flying, IInv, TypeOK
  <2>2. \/ faults' = faults + 1 /\ Room(d)' = Room(d)
        \/ faults' = faults /\ Room(d)' <= RoomOf(v, d) - 1
    <3>1. CASE UNCHANGED table /\ faults' = faults + 1
      BY <3>1 DEF table, Room
    <3>2. ASSUME UpdateDeliveryStatus(cur[v], AfterOutcome(phase[v], held[v][cur[v]])[1],
                                      AfterOutcome(phase[v], held[v][cur[v]])[2])
          PROVE  Room(d)' <= RoomOf(v, d) - 1
      <4>1. held[v][d] \in 0 .. (MaxDeliveryAttempts - 1)
            /\ RoomOf(v, d) = MaxDeliveryAttempts - held[v][d]
        BY <1>1, <1>2, <1>6 DEF IInv, Copies, RoomOf
      <4>2. \/ status'[d] = "delivered" \/ status'[d] = "failed"
            \/ status'[d] = "pending" /\ attempts'[d] = held[v][d] + 1
        BY <1>1, <1>6, <3>2 DEF Record, UpdateDeliveryStatus, AfterOutcome, Counted, IInv, TypeOK
      <4>3. QED
        BY <4>1, <4>2, DeliveryAssumption DEF Room
    <3>3. QED
      BY <3>1, <3>2 DEF Record
  <2>3. QED
    BY <1>1, <1>2, <1>3, <1>4, <1>6, <2>1, <2>2, PairLetGo
<1>7. QED
  BY <1>5, <1>6

\* A process that dies lets go of every copy it held, and the fault pays.
LEMMA PairCrash ==
  ASSUME IInv, IInv', NEW v, NEW w, Pair(v, w), LastWriter, Paid(v, w), Crash(v)
  PROVE  Paid(v, w)'
<1> SUFFICES ASSUME NEW d \in Deliveries PROVE PaidFor(v, w, d)'
  BY DEF Paid
<1>1. v \in Workers /\ w \in Workers /\ v # w /\ PaidFor(v, w, d)
  BY DEF Pair, Paid
<1>2. posts'[d] = posts[d] /\ held'[w] = held[w] /\ held'[v][d] = NotHeld /\ faults' = faults + 1
  BY <1>1 DEF Crash, IInv, TypeOK
<1>3. Flying(w, d)' = Flying(w, d) /\ Flying(v, d)' = 0
  BY <1>1 DEF Crash, Flying, IInv, TypeOK
<1>4. CASE held[v][d] # NotHeld
  <2>1. Room(d)' = Room(d)
    <3>1. status[d] \in RowStatus
      BY <1>1, <1>4 DEF IInv, Copies
    <3>2. phase[v] = "unsent" => cur[v] \in Deliveries /\ status[cur[v]] = "unsent"
      BY <1>1 DEF IInv, Outcome, OutcomeOf
    <3>3. QED
      BY <3>1, <3>2 DEF Crash, Room, RowStatus, IInv, TypeOK
  <2>2. QED
    BY <1>1, <1>2, <1>3, <1>4, <2>1, PairLetGo
<1>5. CASE held[v][d] = NotHeld
  <2>1. Room(d)' <= Room(d)
    <3>1. RoomsTyped
      BY RoomTyped
    <3>2. Room(d) \in Nat
      BY <1>1, <3>1, DeliveryAssumption DEF RoomsTyped
    <3>3. QED
      BY <3>2, DeliveryAssumption DEF Crash, Room, IInv, TypeOK
  <2>2. Flying(v, d) = 0
    BY <1>1, <1>5 DEF Flying, IInv, Outcome, OutcomeOf
  <2>3. RoomOf(w, d) \in Nat /\ RoomOf(v, d) \in Nat
    BY <1>1, RoomTyped, DeliveryAssumption DEF RoomsTyped
  <2>4. RoomOf(v, d)' <= RoomOf(v, d) /\ RoomOf(w, d)' <= RoomOf(w, d)
    BY <1>2, <1>5, <2>1, <2>3 DEF RoomOf
  <2>5. QED
    BY <1>1, <1>2, <1>3, <2>2, <2>4, PaidKept
<1>6. QED
  BY <1>4, <1>5

\* Whoever writes a row lets go of it, and a row is read as it is.
LEMMA LastWriterStep ==
  ASSUME IInv, LastWriter, Workers # {}, [Next]_vars
  PROVE  LastWriter'
<1> SUFFICES ASSUME NEW d \in Deliveries, status'[d] = "pending"
             PROVE  \E w \in Workers : held'[w][d] \in {NotHeld, attempts'[d]}
  BY DEF LastWriter
<1> USE DEF IInv, TypeOK
<1>1. CASE /\ status'[d] = status[d] /\ attempts'[d] = attempts[d]
           /\ \A w \in Workers : held'[w][d] \in {held[w][d], NotHeld, attempts[d]}
  <2>1. PICK w \in Workers : held[w][d] \in {NotHeld, attempts[d]}
    BY <1>1 DEF LastWriter
  <2>2. QED
    BY <1>1, <2>1
<1>2. ASSUME status[d] \in NoRow, held' = held PROVE \E w \in Workers : held'[w][d] \in {NotHeld, attempts'[d]}
  BY <1>2 DEF Copies, NoRow, RowStatus
<1>3. ASSUME NEW e \in Deliveries, Enqueue(e) PROVE \E w \in Workers : held'[w][d] \in {NotHeld, attempts'[d]}
  BY <1>1, <1>2, <1>3 DEF Enqueue, Insert, NoRow
<1>4. ASSUME NEW u \in Workers, NEW e \in Deliveries, DeliverUnbuildable(u, e) \/ Deliver(u, e)
      PROVE  \E w \in Workers : held'[w][d] \in {NotHeld, attempts'[d]}
  BY <1>1, <1>4 DEF DeliverUnbuildable, Deliver
<1>5. ASSUME NEW u \in Workers, QueueDelivery(u) PROVE \E w \in Workers : held'[w][d] \in {NotHeld, attempts'[d]}
  <2>1. cur[u] \in Deliveries /\ status[cur[u]] = "unsent"
    BY <1>5 DEF QueueDelivery, Outcome, OutcomeOf
  <2>2. QED
    BY <1>1, <1>2, <1>5, <2>1 DEF QueueDelivery, Insert, NoRow
<1>6. ASSUME NEW u \in Workers, Poll(u) PROVE \E w \in Workers : held'[w][d] \in {NotHeld, attempts'[d]}
  BY <1>1, <1>6 DEF Poll, table
<1>7. ASSUME NEW u \in Workers, Attempt(u) PROVE \E w \in Workers : held'[w][d] \in {NotHeld, attempts'[d]}
  BY <1>1, <1>7 DEF Attempt, table
<1>8. ASSUME NEW u \in Workers, Record(u) PROVE \E w \in Workers : held'[w][d] \in {NotHeld, attempts'[d]}
  <2>1. cur[u] \in Deliveries
    BY <1>8 DEF Record, Outcome, OutcomeOf
  <2>2. CASE d = cur[u]
    BY <1>8, <2>1, <2>2 DEF Record, LetGo
  <2>3. CASE d # cur[u]
    BY <1>1, <1>8, <2>1, <2>3 DEF Record, LetGo, UpdateDeliveryStatus, table
  <2>4. QED
    BY <2>2, <2>3
<1>9. ASSUME NEW u \in Workers, Crash(u) PROVE \E w \in Workers : held'[w][d] \in {NotHeld, attempts'[d]}
  BY <1>9 DEF Crash
<1>10. CASE UNCHANGED vars
  BY <1>1, <1>10 DEF vars
<1>11. QED
  BY <1>3, <1>4, <1>5, <1>6, <1>7, <1>8, <1>9, <1>10 DEF Next

\* The two workers play the same part.
Interchangeable == \A v, w \in Workers : Paid(v, w) <=> Paid(w, v)

LEMMA PaidSymmetric == IInv => Interchangeable
<1> SUFFICES ASSUME IInv, NEW v \in Workers, NEW w \in Workers, NEW d \in Deliveries
             PROVE  PaidFor(v, w, d) <=> PaidFor(w, v, d)
  BY DEF Interchangeable, Paid
<1>1. RoomOf(v, d) \in Nat /\ RoomOf(w, d) \in Nat
  BY RoomTyped, DeliveryAssumption DEF RoomsTyped
<1>2. Worth(RoomOf(v, d), RoomOf(w, d)) = Worth(RoomOf(w, d), RoomOf(v, d))
  BY <1>1, WorthSymmetric
<1>3. Flying(v, d) + Flying(w, d) = Flying(w, d) + Flying(v, d)
  BY DEF Flying
<1>4. QED
  BY <1>2, <1>3 DEF PaidFor

\* With two workers, every step is paid for.
LEMMA PairStep ==
  ASSUME NEW v, NEW w, Pair(v, w), PairInv(v, w), [Next]_vars
  PROVE  PairInv(v, w)'
<1>1. IInv /\ IInv' /\ LastWriter /\ Paid(v, w)
  BY NextInv DEF PairInv
<1>2. v \in Workers /\ w \in Workers /\ Pair(w, v)
  BY DEF Pair
<1>3. LastWriter'
  BY <1>1, <1>2, LastWriterStep
<1>4. Paid(w, v) /\ (Paid(w, v)' => Paid(v, w)')
  <2>1. Interchangeable /\ Interchangeable'
    BY <1>1, PaidSymmetric, PTL
  <2>2. QED
    BY <1>1, <1>2, <2>1 DEF Interchangeable
<1>5. ASSUME NEW u \in Workers, Attempt(u) \/ Record(u) \/ Crash(u) PROVE Paid(v, w)'
  <2>1. u = v \/ u = w
    BY DEF Pair
  <2>2. CASE u = v
    BY <1>1, <1>5, <2>2, PairAttempt, PairRecord, PairCrash
  <2>3. CASE u = w
    <3>1. Paid(w, v)'
      BY <1>1, <1>2, <1>4, <1>5, <2>3, PairAttempt, PairRecord, PairCrash
    <3>2. QED
      BY <1>4, <3>1
  <2>4. QED
    BY <2>1, <2>2, <2>3
<1>6. ASSUME UNCHANGED vars PROVE Paid(v, w)'
  <2> SUFFICES ASSUME NEW d \in Deliveries PROVE PaidFor(v, w, d)'
    BY DEF Paid
  <2>1. /\ RoomOf(v, d)' = RoomOf(v, d) /\ RoomOf(w, d)' = RoomOf(w, d)
        /\ Flying(v, d)' = Flying(v, d) /\ Flying(w, d)' = Flying(w, d)
    BY <1>6 DEF vars, RoomOf, Room, Flying
  <2>2. RoomOf(v, d) \in Nat /\ RoomOf(w, d) \in Nat
    BY <1>1, <1>2, RoomTyped, DeliveryAssumption DEF RoomsTyped
  <2>3. PaidFor(v, w, d) /\ posts'[d] = posts[d] /\ faults' = faults
    BY <1>1, <1>6 DEF vars, Paid
  <2>4. QED
    BY <1>1, <1>2, <2>1, <2>2, <2>3, PaidKept
<1>7. ASSUME Next PROVE Paid(v, w)'
  <2>1. ASSUME NEW d \in Deliveries, Enqueue(d) PROVE Paid(v, w)'
    BY <1>1, <1>2, <2>1, PairOffer
  <2>2. ASSUME NEW u \in Workers, NEW d \in Deliveries, DeliverUnbuildable(u, d) \/ Deliver(u, d)
        PROVE  Paid(v, w)'
    BY <1>1, <1>2, <2>2, PairOffer
  <2>3. ASSUME NEW u \in Workers, QueueDelivery(u) PROVE Paid(v, w)'
    <3>1. ASSUME NEW d \in Deliveries PROVE Paid(v, w)'
      BY <1>1, <1>2, <2>3, PairOffer
    <3>2. CASE Deliveries = {}
      BY <3>2 DEF Paid
    <3>3. QED
      BY <3>1, <3>2
  <2>4. ASSUME NEW u \in Workers, Poll(u) PROVE Paid(v, w)'
    BY <1>1, <1>2, <2>4, PairPoll
  <2>5. QED
    BY <1>5, <1>7, <2>1, <2>2, <2>3, <2>4 DEF Next
<1>8. QED
  BY <1>1, <1>3, <1>6, <1>7 DEF PairInv

\* At the start each activity has all its room, and nothing was posted.
LEMMA PairInit == ASSUME NEW v, NEW w, Pair(v, w) PROVE Init => PairInv(v, w)
<1> SUFFICES ASSUME Init PROVE PairInv(v, w)
  OBVIOUS
<1>1. IInv
  BY InitInv
<1>2. LastWriter
  BY DEF Init, LastWriter
<1>3. ASSUME NEW d \in Deliveries PROVE PaidFor(v, w, d)
  <2>1. posts[d] = 0 /\ faults = 0 /\ Flying(v, d) = 0 /\ Flying(w, d) = 0
    BY DEF Init, Flying, Pair
  <2>2. RoomOf(v, d) = MaxDeliveryAttempts /\ RoomOf(w, d) = MaxDeliveryAttempts
    BY DEF Init, RoomOf, Room, Pair
  <2>3. Worth(MaxDeliveryAttempts, MaxDeliveryAttempts) = Allowance(0)
    BY DeliveryAssumption DEF Worth, Allowance
  <2>4. Allowance(0) \in Nat
    BY AllowanceGrows
  <2>5. QED
    BY <2>1, <2>2, <2>3, <2>4 DEF PaidFor
<1>4. QED
  BY <1>1, <1>2, <1>3 DEF PairInv, Paid

\* With two workers, the posts of a delivery stay within M(M+3)/2 for the M
\* attempts allowed, plus M for each fault.
THEOREM RepostsAreBounded ==
  ASSUME NEW v, NEW w, Pair(v, w) PROVE Spec => []RepostBound
<1>1. PairInv(v, w) => RepostBound
  <2> SUFFICES ASSUME PairInv(v, w), NEW d \in Deliveries
               PROVE  2 * posts[d] <= Allowance(faults)
    BY DEF RepostBound, Allowance
  <2>1. IInv /\ v \in Workers /\ w \in Workers /\ v # w /\ PaidFor(v, w, d)
    BY DEF PairInv, Paid, Pair
  <2> DEFINE x == RoomOf(v, d)
             y == RoomOf(w, d)
  <2>2. x \in Nat /\ y \in Nat /\ posts[d] \in Nat /\ Allowance(faults) \in Nat
    <3>1. x \in Nat /\ y \in Nat
      BY <2>1, RoomTyped, DeliveryAssumption DEF RoomsTyped
    <3>2. posts[d] \in Nat /\ faults \in Nat
      BY <2>1 DEF IInv, TypeOK
    <3>3. QED
      BY <3>1, <3>2, AllowanceGrows
  <2>3. (Flying(v, d) = 1 => x >= 1) /\ (Flying(w, d) = 1 => y >= 1)
    BY <2>1, RoomTyped DEF RoomsTyped, Flying, IInv, Outcome, OutcomeOf
  <2>4. Flying(v, d) \in {0, 1} /\ Flying(w, d) \in {0, 1}
    BY DEF Flying
  <2>5. 2 * (Flying(v, d) + Flying(w, d)) <= Worth(x, y)
    <3>1. (x >= 1 => x * (x + 1) >= 2) /\ (y >= 1 => y * (y + 1) >= 2)
      BY <2>2, SquareGrows
    <3>2. x * (x + 1) \in Nat /\ y * (y + 1) \in Nat
      BY <2>2
    <3>3. QED
      BY <2>2, <2>3, <2>4, <3>1, <3>2 DEF Worth
  <2>6. Worth(x, y) \in Nat
    BY <2>2, WorthTyped
  <2>7. QED
    BY <2>1, <2>2, <2>4, <2>5, <2>6 DEF PaidFor
<1>2. PairInv(v, w) /\ [Next]_vars => PairInv(v, w)'
  BY PairStep
<1>3. Init => PairInv(v, w)
  BY PairInit
<1>4. QED
  BY <1>1, <1>2, <1>3, PTL DEF Spec

=============================================================================
