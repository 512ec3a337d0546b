------------------------------ MODULE Delivery ------------------------------
(***************************************************************************)
(* Outbound federation: the federation_deliveries table, the Deliverer     *)
(* that posts an activity and queues it on failure, and the workers that   *)
(* retry what is queued (internal/federation/worker.go,                    *)
(* internal/activitypub/delivery.go, internal/db/db.go).                   *)
(*                                                                         *)
(* cmd/cliverse and cmd/worker each run a federation.Worker on the same    *)
(* database, so Workers has two members in the deployment that             *)
(* docker-compose.yml describes.  A worker is one goroutine: it reads a    *)
(* batch of rows into memory and then, row by row, posts and writes the    *)
(* outcome computed from ITS COPY of the row.  The table takes no row      *)
(* locks and UpdateDeliveryStatus matches on the id alone, so another      *)
(* worker may have posted and written the same row meanwhile.              *)
(***************************************************************************)
EXTENDS Integers, Sequences, FiniteSets

CONSTANTS
  Workers,               \* the federation workers, one goroutine each
  Deliveries,            \* activities that may be sent to a remote inbox
  NoDelivery,            \* what a worker that is between rows works on
  MaxDeliveryAttempts,   \* db.MaxDeliveryAttempts
  BatchLimit,            \* rows one poll reads (50 in processDeliveries)
  BadURLs,               \* deliveries whose recipient URL http.NewRequest rejects
  Unsignable,            \* activities Deliver cannot marshal or sign
  Verifying,             \* deliveries to an inbox that requires a signature
  FaultBound             \* bound on process crashes and failed writes

ASSUME DeliveryAssumption ==
  /\ MaxDeliveryAttempts \in Nat \ {0}
  /\ BatchLimit \in Nat \ {0}
  /\ FaultBound \in Nat
  /\ BadURLs \subseteq Deliveries
  /\ Unsignable \subseteq Deliveries
  /\ Verifying \subseteq Deliveries
  /\ NoDelivery \notin Deliveries

VARIABLES
  status,     \* the row's status, or the fate of an activity that has no row
  attempts,   \* the row's attempts column
  order,      \* the rows by created_at
  held,       \* held[w][d]: Attempts in w's copy of row d, or NotHeld
  phase,      \* what each worker does next
  cur,        \* the delivery each worker is on
  posts,      \* history: posts the workers made for each delivery
  accepted,   \* history: activities the remote inbox has taken
  refused,    \* history: activities refused because a post was unsigned
  faults      \* crashes and failed writes so far

vars == <<status, attempts, order, held, phase, cur, posts, accepted, refused, faults>>
table == <<status, attempts, order>>
remote == <<accepted, refused>>

NotHeld == -1

\* Activities without a row: not sent yet; Deliver's own post failed and the
\* row is not inserted yet; Deliver's own post was taken; and lost, because
\* Deliver failed before the insert or the insert failed.
NoRow == {"absent", "unsent", "direct", "dropped"}
RowStatus == {"pending", "delivered", "failed"}

\* A worker is between batches, about to post, about to write the outcome of
\* a post (ok, err) or of a request it could not build (bad), or inside
\* Deliver with a failed post to queue.
Phases == {"idle", "batch", "ok", "err", "bad", "unsent"}

TypeOK ==
  /\ status \in [Deliveries -> NoRow \cup RowStatus]
  /\ attempts \in [Deliveries -> Nat]
  /\ order \in Seq(Deliveries)
  /\ held \in [Workers -> [Deliveries -> Int]]
  /\ phase \in [Workers -> Phases]
  /\ cur \in [Workers -> Deliveries \cup {NoDelivery}]
  /\ posts \in [Deliveries -> Nat]
  /\ accepted \in SUBSET Deliveries
  /\ refused \in SUBSET Deliveries
  /\ faults \in Nat

Init ==
  /\ status = [d \in Deliveries |-> "absent"]
  /\ attempts = [d \in Deliveries |-> 0]
  /\ order = <<>>
  /\ held = [w \in Workers |-> [d \in Deliveries |-> NotHeld]]
  /\ phase = [w \in Workers |-> "idle"]
  /\ cur = [w \in Workers |-> NoDelivery]
  /\ posts = [d \in Deliveries |-> 0]
  /\ accepted = {}
  /\ refused = {}
  /\ faults = 0
-----------------------------------------------------------------------------
(* The table                                                               *)

Older(d, e) ==
  \E i, j \in DOMAIN order : i < j /\ order[i] = d /\ order[j] = e

\* CreateDelivery with the row QueueDelivery and followRemoteUser build.
Insert(d) ==
  /\ status' = [status EXCEPT ![d] = "pending"]
  /\ attempts' = [attempts EXCEPT ![d] = 0]
  /\ order' = Append(order, d)

\* Mutants: the status is not looked at; the last attempt is not granted.
PendingAnyStatus == {d \in Deliveries : status[d] \in RowStatus /\ attempts[d] < MaxDeliveryAttempts}
PendingOneShort == {d \in Deliveries : status[d] = "pending" /\ attempts[d] + 1 < MaxDeliveryAttempts}

\* The rows GetPendingDeliveries selects from.
Pending == {d \in Deliveries : status[d] = "pending" /\ attempts[d] < MaxDeliveryAttempts}

\* ... and the oldest BatchLimit of them.
IsBatch(S) ==
  /\ S \subseteq Pending
  /\ S # {}
  /\ \/ S = Pending /\ Cardinality(S) <= BatchLimit
     \/ Cardinality(S) = BatchLimit
  /\ \A d \in S, e \in Pending \ S : Older(d, e)

\* UpdateDeliveryStatus: the row takes these values, whatever it holds now.
UpdateDeliveryStatus(d, s, n) ==
  /\ status' = [status EXCEPT ![d] = s]
  /\ attempts' = [attempts EXCEPT ![d] = n]
  /\ UNCHANGED order
-----------------------------------------------------------------------------
(* Posting                                                                 *)

\* What a post may come to: whether the remote inbox takes the activity, and
\* how it answers.  A 2xx answer means that it took it; a refusal or an
\* answer that never arrives says nothing about what the inbox did.
Answers == {"2xx", "refusal", "none"}
Exchanges == {x \in [taken : BOOLEAN, answer : Answers] : x.answer = "2xx" => x.taken}

\* An inbox that requires a signature refuses a post without one.
Unsigned == [taken |-> FALSE, answer |-> "refusal"]

\* Only the worker's post is unsigned: it sets Content-Type and nothing else.
WorkerExchanges(d) == IF d \in Verifying THEN {Unsigned} ELSE Exchanges

\* Mutant: only a transport error counts as a failure.
IsSuccessAnyAnswer(answer) == answer # "none"

IsSuccess(answer) == answer = "2xx"

Exchange(d, x) ==
  accepted' = IF x.taken THEN accepted \cup {d} ELSE accepted
-----------------------------------------------------------------------------
(* The Deliverer.  Deliver runs inside ProcessEvent, on a worker that is    *)
(* between batches of deliveries.                                          *)

\* commands.followRemoteUser inserts its Follow without posting it first.
Enqueue(d) ==
  /\ status[d] = "absent"
  /\ Insert(d)
  /\ UNCHANGED <<held, phase, cur, posts, accepted, refused, faults>>

\* Deliver's own post is signed: it needs a body, a request and a key, where
\* the worker's retry needs the request alone.
Unbuildable == BadURLs \cup Unsignable

\* Deliver cannot marshal the activity, build the request or sign it, and
\* returns before it posts: nothing is queued.
DeliverUnbuildable(w, d) ==
  /\ phase[w] = "idle"
  /\ status[d] = "absent"
  /\ d \in Unbuildable
  /\ status' = [status EXCEPT ![d] = "dropped"]
  /\ UNCHANGED <<attempts, order, held, phase, cur, posts, accepted, refused, faults>>

\* Mutant: a refused post is not queued.
DeliverForgets(w, d) ==
  /\ phase[w] = "idle" /\ status[d] = "absent" /\ d \notin Unbuildable
  /\ \E x \in Exchanges :
       /\ Exchange(d, x)
       /\ status' = [status EXCEPT ![d] = IF IsSuccess(x.answer) THEN "direct" ELSE "dropped"]
  /\ UNCHANGED <<attempts, order, held, phase, cur, posts, refused, faults>>

\* Deliver's own, signed, post.
Deliver(w, d) ==
  /\ phase[w] = "idle"
  /\ status[d] = "absent"
  /\ d \notin Unbuildable
  /\ \E x \in Exchanges :
       /\ Exchange(d, x)
       /\ IF IsSuccess(x.answer)
          THEN /\ status' = [status EXCEPT ![d] = "direct"]
               /\ UNCHANGED <<phase, cur>>
          ELSE /\ status' = [status EXCEPT ![d] = "unsent"]
               /\ phase' = [phase EXCEPT ![w] = "unsent"]
               /\ cur' = [cur EXCEPT ![w] = d]
  /\ UNCHANGED <<attempts, order, held, posts, refused, faults>>

\* Deliver returns QueueDelivery's result: an insert that fails loses the
\* activity, for the event it answers is marked processed all the same.
QueueDelivery(w) ==
  /\ phase[w] = "unsent"
  /\ \/ Insert(cur[w]) /\ UNCHANGED faults
     \/ /\ faults < FaultBound
        /\ faults' = faults + 1
        /\ status' = [status EXCEPT ![cur[w]] = "dropped"]
        /\ UNCHANGED <<attempts, order>>
  /\ phase' = [phase EXCEPT ![w] = "idle"]
  /\ cur' = [cur EXCEPT ![w] = NoDelivery]
  /\ UNCHANGED <<held, posts, accepted, refused>>
-----------------------------------------------------------------------------
(* The worker                                                              *)

Batch(w) == {d \in Deliveries : held[w][d] # NotHeld}

\* processDeliveries reads its batch; the copies are all it looks at later.
Poll(w) ==
  /\ phase[w] = "idle"
  /\ \E S \in SUBSET Pending :
       /\ IsBatch(S)
       /\ held' = [held EXCEPT ![w] =
                     [d \in Deliveries |-> IF d \in S THEN attempts[d] ELSE NotHeld]]
  /\ phase' = [phase EXCEPT ![w] = "batch"]
  /\ UNCHANGED <<table, cur, posts, remote, faults>>

\* attemptDelivery on the oldest row of the batch, up to the answer.
Attempt(w) ==
  /\ phase[w] = "batch"
  /\ \E d \in Batch(w) :
       /\ \A e \in Batch(w) \ {d} : Older(d, e)
       /\ cur' = [cur EXCEPT ![w] = d]
       /\ \/ /\ d \in BadURLs
             /\ phase' = [phase EXCEPT ![w] = "bad"]
             /\ UNCHANGED <<posts, remote>>
          \/ /\ d \notin BadURLs
             /\ posts' = [posts EXCEPT ![d] = @ + 1]
             /\ refused' = IF d \in Verifying THEN refused \cup {d} ELSE refused
             /\ \E x \in WorkerExchanges(d) :
                  /\ Exchange(d, x)
                  /\ phase' = [phase EXCEPT ![w] = IF IsSuccess(x.answer) THEN "ok" ELSE "err"]
  /\ UNCHANGED <<table, held, faults>>

\* Mutants: giving up one attempt late, or early; a copy not incremented; a
\* column that counts down.
ExhaustedLate(n) == n > MaxDeliveryAttempts
ExhaustedEarly(n) == n + 1 >= MaxDeliveryAttempts
CountLost(n) == n
CountDown(n) == n - 1

Exhausted(n) == n >= MaxDeliveryAttempts
Counted(n) == n + 1

\* The status and attempts attemptDelivery writes after an outcome, n being
\* the Attempts of its copy.
AfterOutcome(p, n) ==
  CASE p = "ok"  -> <<"delivered", n + 1>>
    [] p = "bad" -> <<"failed", n>>
    [] p = "err" -> <<IF Exhausted(Counted(n)) THEN "failed" ELSE "pending", Counted(n)>>

\* The worker goes on to the next row of its batch, or back to its tickers.
LetGo(w) ==
  /\ held' = [held EXCEPT ![w][cur[w]] = NotHeld]
  /\ cur' = [cur EXCEPT ![w] = NoDelivery]
  /\ phase' = [phase EXCEPT ![w] = IF Batch(w) = {cur[w]} THEN "idle" ELSE "batch"]

\* attemptDelivery writes the outcome.  A write that fails is only logged.
Record(w) ==
  /\ phase[w] \in {"ok", "err", "bad"}
  /\ LET out == AfterOutcome(phase[w], held[w][cur[w]])
     IN \/ UpdateDeliveryStatus(cur[w], out[1], out[2]) /\ UNCHANGED faults
        \/ faults < FaultBound /\ faults' = faults + 1 /\ UNCHANGED table
  /\ LetGo(w)
  /\ UNCHANGED <<posts, remote>>

\* The process dies or is stopped, and starts again with nothing in memory.
\* (A cancelled context has the same effect: every call after it fails.)
Crash(w) ==
  /\ faults < FaultBound
  /\ faults' = faults + 1
  /\ status' = IF phase[w] = "unsent" THEN [status EXCEPT ![cur[w]] = "dropped"] ELSE status
  /\ held' = [held EXCEPT ![w] = [d \in Deliveries |-> NotHeld]]
  /\ phase' = [phase EXCEPT ![w] = "idle"]
  /\ cur' = [cur EXCEPT ![w] = NoDelivery]
  /\ UNCHANGED <<attempts, order, posts, remote>>

Next ==
  \/ \E d \in Deliveries : Enqueue(d)
  \/ \E w \in Workers, d \in Deliveries : DeliverUnbuildable(w, d) \/ Deliver(w, d)
  \/ \E w \in Workers :
       QueueDelivery(w) \/ Poll(w) \/ Attempt(w) \/ Record(w) \/ Crash(w)

\* A worker's loop keeps going: its tickers keep firing and every post ends
\* within the HTTP client's 30 second timeout.
Fairness == \A w \in Workers : WF_vars(QueueDelivery(w) \/ Poll(w) \/ Attempt(w) \/ Record(w))

Spec == Init /\ [][Next]_vars
FairSpec == Spec /\ Fairness
-----------------------------------------------------------------------------
(* What the queue promises                                                 *)

IsHeld(d) == \E w \in Workers : held[w][d] # NotHeld

\* A row is settled once no worker holds a copy of it that it may still act
\* on; until then a second worker may reopen it.
Stage(d) ==
  CASE status[d] = "absent"  -> "none"
    [] status[d] = "unsent"  -> "outstanding"
    [] status[d] = "direct"  -> "delivered"
    [] status[d] = "dropped" -> "dropped"
    [] OTHER -> IF status[d] = "pending" \/ IsHeld(d) THEN "outstanding"
                ELSE IF status[d] = "delivered" THEN "delivered" ELSE "abandoned"

Contract == INSTANCE DeliveryContract WITH stage <- [d \in Deliveries |-> Stage(d)]

\* Every activity handed to the queue keeps the contract of DeliveryContract,
\* with any number of workers racing over the same rows: what is reported
\* delivered was taken, what is given up was tried MaxDeliveryAttempts times,
\* and a verdict no worker can still overwrite never changes.
ImplementsContract == Contract!Spec

\* GetPendingDeliveries passes over a row with MaxDeliveryAttempts attempts,
\* so no worker may ever leave one pending: nothing would touch it again.
NoRowStranded ==
  \A d \in Deliveries : status[d] = "pending" => attempts[d] < MaxDeliveryAttempts

\* A delivery to an address that can be posted to is marked failed only after
\* MaxDeliveryAttempts posts of it, although two workers overwrite each
\* other's counts: the attempts column never runs ahead of the posts made.
GivenUpOnlyWhenExhausted ==
  \A d \in Deliveries :
    /\ attempts[d] <= posts[d]
    /\ status[d] = "failed" /\ d \notin BadURLs => posts[d] >= MaxDeliveryAttempts

\* A row (or Deliver itself) reports success only for an activity that the
\* remote inbox did take.
DeliveredWasTaken ==
  \A d \in Deliveries : status[d] \in {"delivered", "direct"} => d \in accepted

\* An activity that Deliver can build and sign a request for, and posts, is
\* neither taken nor queued only after a crash or a failed insert: no answer
\* of the remote inbox loses it.
DroppedOnlyByFault ==
  \A d \in Deliveries : status[d] = "dropped" => d \in Unbuildable \/ faults > 0

\* Every activity the queue takes on is settled in the end, whatever copies
\* the workers hold and however they overwrite each other.
EventuallySettled ==
  \A d \in Deliveries :
    Stage(d) = "outstanding" ~> Stage(d) \in {"delivered", "abandoned", "dropped"}

\* With one worker, a delivery is posted at most MaxDeliveryAttempts times,
\* plus once for each crash or failed write that lost an outcome.
RetryBudget == \A d \in Deliveries : posts[d] <= MaxDeliveryAttempts + faults

\* With two workers, a stale copy may set a row's count back, but only so
\* often: the posts of one delivery stay within M(M+3)/2 for the M attempts
\* allowed, plus M for each crash or failed write.
RepostBound ==
  \A d \in Deliveries :
    2 * posts[d] <= MaxDeliveryAttempts * (MaxDeliveryAttempts + 3 + 2 * faults)

\* With one worker, a row that is delivered or failed is never reopened.
VerdictIsFinal ==
  [][\A d \in Deliveries :
       status[d] \in {"delivered", "failed"} => status'[d] = status[d]]_vars

\* db.go:14: "MaxDeliveryAttempts is the maximum number of times a federation
\* delivery will be retried before being marked as failed."
RetryLimit == \A d \in Deliveries : posts[d] <= MaxDeliveryAttempts

\* README.md:132: "ActivityPub inbox/outbox with HTTP Signatures".  No inbox
\* refuses what this server sends it for want of a signature.
NothingSentUnsigned == refused = {}
=============================================================================
