-------------------------------- MODULE Inbox --------------------------------
(***************************************************************************)
(* Inbound federation: InboxHandler, which keeps every activity a remote   *)
(* server posts as a row of inbox_events, and the workers that turn those  *)
(* rows into effects (internal/activitypub/inbox.go,                       *)
(* internal/federation/worker.go, internal/db/db.go).                      *)
(*                                                                         *)
(* cmd/cliverse and cmd/worker each run a worker, on the same table.  A    *)
(* worker is one goroutine that serves two tickers; on an inbox tick it    *)
(* reads the oldest unprocessed rows into memory, handles them one by one  *)
(* and marks each processed whatever handling it came to.  Nothing locks a *)
(* row, so two workers may handle the same one, and a worker that stops    *)
(* between handling and marking leaves a row that is handled again.        *)
(*                                                                         *)
(* likes.user_id, boosts.user_id and follows.follower_id refer to users,   *)
(* posts.author_id too, and a remote post gets the nil author: the inserts *)
(* of handleFollow, handleLike, handleAnnounce and handleCreate are all    *)
(* refused, and the statements after them are never reached.  Undo finds   *)
(* no row to delete, and Accept and Reject no follow (module Social).  An  *)
(* object is a string or embedded, and most handlers read only one of the  *)
(* two; what they cannot read they refuse, or pass over without an error.  *)
(***************************************************************************)
EXTENDS Integers, FiniteSets

CONSTANTS
  Workers,      \* the federation workers
  Sent,         \* what may arrive as the n-th event, see Activities
  Objects,      \* the ap_ids activities name: posts and users
  Known,        \* those in posts (deleted or not) and in users
  Remotes,      \* actors of other servers
  NoActivity,   \* what has not arrived yet
  EventBound,   \* bound on the activities received
  BatchLimit,   \* rows one tick reads (50 in processInboxEvents)
  FaultBound    \* bound on crashes, failed queries and failed fetches

\* created_at; it also identifies the row.
Stamps == 1 .. EventBound

Types == {"Follow", "Like", "Announce", "Create", "Delete", "Accept", "Reject", "Undo", "Other"}

\* What the object of an activity is: a plain ap_id, a Note, another JSON
\* object (an activity, a Tombstone), or neither a string nor an object.
Forms == {"id", "note", "object", "other"}

\* object is the ap_id that the object is or holds.
Activities == [type : Types, actor : Remotes, object : Objects, form : Forms]

ASSUME InboxAssumption ==
  /\ NoActivity \notin Activities
  /\ Sent \in [Stamps -> SUBSET Activities]
  /\ Known \subseteq Objects
  /\ EventBound \in Nat
  /\ BatchLimit \in Nat \ {0}
  /\ FaultBound \in Nat

VARIABLES
  clock,       \* the created_at given last
  activity,    \* the activity each created_at was given to
  arriving,    \* events whose handler has not inserted them yet
  stored,      \* the rows of inbox_events, by created_at
  processed,   \* those with processed = TRUE
  verdict,     \* the error column
  deleted,     \* posts with deleted = TRUE
  known,       \* the ap_ids in remote_actors
  pc,          \* where each worker is
  batch,       \* the rows it holds that it is not done with
  errMsg,      \* the error of the row it is at
  run,         \* how often it has stopped or failed to mark a row
  seen,        \* history: the rows that were stored when it read that batch
  applied,     \* history: who has handled each event, in which run
  outcomes,    \* history: what that came to
  faults       \* crashes, failed queries and failed fetches so far

table == <<stored, processed, verdict>>
effects == <<deleted, known>>
server == <<clock, activity, arriving>>
history == <<applied, outcomes>>
vars == <<server, table, effects, pc, batch, errMsg, run, seen, history, faults>>

\* Handling came to nil, or to nil although a query had failed, or to the
\* error of a query, fetch or update, or to one that the schema or the lookup
\* makes inevitable.
Results == {"ok", "dropped", "failed", "refused"}
NoError == ""

\* The error that is kept: a dropped one leaves no trace.
Errors == {NoError, "failed", "refused"}
Verdict(r) == IF r \in {"ok", "dropped"} THEN NoError ELSE r

\* Waiting for a tick, in processDeliveries, at a row, fetching its actor, or
\* about to mark it.
Places == {"idle", "delivering", "row", "fetch", "mark"}

TypeOK ==
  /\ clock \in Nat
  /\ activity \in [Stamps -> Activities \cup {NoActivity}]
  /\ arriving \in SUBSET Stamps
  /\ stored \in SUBSET Stamps
  /\ processed \in SUBSET stored
  /\ verdict \in [Stamps -> Errors]
  /\ deleted \in SUBSET Known
  /\ known \in SUBSET Remotes
  /\ pc \in [Workers -> Places]
  /\ batch \in [Workers -> SUBSET stored]
  /\ errMsg \in [Workers -> Errors]
  /\ run \in [Workers -> Nat]
  /\ seen \in [Workers -> SUBSET stored]
  /\ applied \in [Stamps -> SUBSET (Workers \X Nat)]
  /\ outcomes \in [Stamps -> SUBSET Results]
  /\ faults \in Nat

Init ==
  /\ clock = 0
  /\ activity = [e \in Stamps |-> NoActivity]
  /\ arriving = {}
  /\ stored = {}
  /\ processed = {}
  /\ verdict = [e \in Stamps |-> NoError]
  /\ deleted = {}
  /\ known = {}
  /\ pc = [w \in Workers |-> "idle"]
  /\ batch = [w \in Workers |-> {}]
  /\ errMsg = [w \in Workers |-> NoError]
  /\ run = [w \in Workers |-> 0]
  /\ seen = [w \in Workers |-> {}]
  /\ applied = [e \in Stamps |-> {}]
  /\ outcomes = [e \in Stamps |-> {}]
  /\ faults = 0

Fault == faults < FaultBound /\ faults' = faults + 1
-----------------------------------------------------------------------------
(* The server                                                              *)

\* InboxHandler reads an activity and stamps its event.  (A bad signature is
\* only logged.)
Receive ==
  /\ clock < EventBound
  /\ clock' = clock + 1
  /\ \E a \in Sent[clock'] : activity' = [activity EXCEPT ![clock'] = a]
  /\ arriving' = arriving \cup {clock'}
  /\ UNCHANGED <<table, effects, pc, batch, errMsg, run, seen, history, faults>>

\* ... and inserts it, or fails to and does not answer 202.  Requests run
\* concurrently: an event may be inserted after one with a later stamp.
CreateInboxEvent(e) ==
  /\ e \in arriving
  /\ arriving' = arriving \ {e}
  /\ \/ stored' = stored \cup {e} /\ UNCHANGED faults
     \/ Fault /\ UNCHANGED stored
  /\ UNCHANGED <<clock, activity, processed, verdict, effects, pc, batch, errMsg, run, seen, history>>
-----------------------------------------------------------------------------
(* The worker's loop                                                       *)

Goes(w, p) == pc' = [pc EXCEPT ![w] = p]

\* The delivery ticker fires; processDeliveries is module Delivery ... (It
\* makes no difference here while there is nothing to process.)
DeliveryTick(w) ==
  /\ pc[w] = "idle"
  /\ stored # processed
  /\ Goes(w, "delivering")
  /\ UNCHANGED <<server, table, effects, batch, errMsg, run, seen, history, faults>>

\* ... and it returns: every post in it times out.
DeliveryDone(w) ==
  /\ pc[w] = "delivering"
  /\ Goes(w, "idle")
  /\ UNCHANGED <<server, table, effects, batch, errMsg, run, seen, history, faults>>

\* Mutants: the rows are not filtered; the newest come first; a batch that is
\* not full waits.
AnyRow == stored
IsFullBatch(S, rows) ==
  /\ S \subseteq rows
  /\ Cardinality(S) = BatchLimit
  /\ \A x \in S, y \in rows \ S : x < y
IsNewestBatch(S, rows) ==
  /\ S # {} /\ S \subseteq rows
  /\ S = rows \/ Cardinality(S) = BatchLimit
  /\ Cardinality(S) <= BatchLimit
  /\ \A x \in S, y \in rows \ S : y < x

\* WHERE processed = FALSE ...
Unprocessed == stored \ processed

\* ... ORDER BY created_at ASC LIMIT BatchLimit
IsBatch(S, rows) ==
  /\ S # {}
  /\ S \subseteq rows
  /\ S = rows \/ Cardinality(S) = BatchLimit
  /\ Cardinality(S) <= BatchLimit
  /\ \A x \in S, y \in rows \ S : x < y

\* The inbox ticker fires: processInboxEvents reads its batch.
InboxTick(w) ==
  /\ pc[w] = "idle"
  /\ \E S \in SUBSET Unprocessed :
       /\ IsBatch(S, Unprocessed)
       /\ batch' = [batch EXCEPT ![w] = S]
  /\ seen' = [seen EXCEPT ![w] = stored]
  /\ Goes(w, "row")
  /\ UNCHANGED <<server, table, effects, errMsg, run, history, faults>>

\* The row a worker is at, the oldest of its batch.
At(w, e) ==
  /\ e \in batch[w]
  /\ \A x \in batch[w] : e <= x

\* ProcessEvent is about to dispatch on the type of e.
Dispatches(w, e, types) ==
  /\ pc[w] = "row"
  /\ At(w, e)
  /\ activity[e].type \in types

\* ProcessEvent returns; "dropped" and "failed" are what a call that failed
\* leads to.
Returns(w, e, r) ==
  /\ IF r \in {"dropped", "failed"} THEN Fault ELSE UNCHANGED faults
  /\ errMsg' = [errMsg EXCEPT ![w] = IF Verdict(r) = NoError THEN @ ELSE r]
  /\ applied' = [applied EXCEPT ![e] = @ \cup {<<w, run[w]>>}]
  /\ outcomes' = [outcomes EXCEPT ![e] = @ \cup {r}]
  /\ Goes(w, "mark")

Found(e) == activity[e].object \in Known

\* rawToString reads the object of e.
IsString(e) == activity[e].form = "id"
-----------------------------------------------------------------------------
(* The handlers                                                            *)

\* ensureRemoteActor, after which the insert is refused: the actor is there,
\* or has to be fetched, or the query for it fails.
EnsureRemoteActor(w, e) ==
  \/ activity[e].actor \in known /\ Returns(w, e, "refused")
  \/ activity[e].actor \notin known /\ Goes(w, "fetch") /\ UNCHANGED <<errMsg, history, faults>>
  \/ Returns(w, e, "failed")

\* handleFollow: an object that is no string, or a user it does not know, is
\* an error.
HandleFollow(w, e) ==
  /\ Dispatches(w, e, {"Follow"})
  /\ \/ IsString(e) /\ Found(e) /\ EnsureRemoteActor(w, e)
     \/ ~(IsString(e) /\ Found(e)) /\ Returns(w, e, "refused")
     \/ IsString(e) /\ Returns(w, e, "failed")
  /\ UNCHANGED <<server, table, effects, batch, run, seen>>

\* handleLike, handleAnnounce: an object that is no string, or a post it does
\* not know or fails to look up, is none.
HandleReaction(w, e) ==
  /\ Dispatches(w, e, {"Like", "Announce"})
  /\ \/ IsString(e) /\ Found(e) /\ EnsureRemoteActor(w, e)
     \/ ~(IsString(e) /\ Found(e)) /\ Returns(w, e, "ok")
     \/ IsString(e) /\ Returns(w, e, "dropped")
  /\ UNCHANGED <<server, table, effects, batch, run, seen>>

\* Mutant: the object is stored for the actor.
FetchObject(w, e) ==
  /\ pc[w] = "fetch" /\ At(w, e)
  /\ known' = known \cup {activity[e].object}
  /\ Returns(w, e, "refused")
  /\ UNCHANGED <<server, table, deleted, batch, run, seen>>

\* The fetch that ensureRemoteActor needs ends.  What is stored is the actor
\* that the fetched document says it is, which nothing compares with the one
\* that was asked for.  Or nothing is: the fetch or the upsert fails, or the
\* upsert is refused, as UNIQUE (username, domain) does when another ap_id has
\* the name.
FetchActor(w, e) ==
  /\ pc[w] = "fetch"
  /\ At(w, e)
  /\ \/ (\E r \in Remotes : known' = known \cup {r}) /\ Returns(w, e, "refused")
     \/ UNCHANGED known /\ \E r \in {"failed", "refused"} : Returns(w, e, r)
  /\ UNCHANGED <<server, table, deleted, batch, run, seen>>

\* handleCreate: what is no Note, or a post that is there, is skipped; the
\* insert of another is refused.
HandleCreate(w, e) ==
  /\ Dispatches(w, e, {"Create"})
  /\ LET isNote == activity[e].form = "note" IN
     \/ (isNote => Found(e)) /\ Returns(w, e, "ok")
     \/ isNote /\ ~Found(e) /\ Returns(w, e, "refused")
     \/ isNote /\ Returns(w, e, "failed")
  /\ UNCHANGED <<server, table, effects, batch, run, seen>>

\* Mutant: an update that matches no row is taken for a success.
DeleteUnchecked(w, e) ==
  /\ Dispatches(w, e, {"Delete"})
  /\ deleted' \in {deleted} \cup {deleted \cup {x} : x \in {activity[e].object} \cap Known}
  /\ Returns(w, e, "ok")
  /\ UNCHANGED <<server, table, known, batch, run, seen>>

\* handleDelete: an object that is no string (a Tombstone), or a post it does
\* not know or fails to look up, is none; DeletePost sets deleted, or fails.
HandleDelete(w, e) ==
  /\ Dispatches(w, e, {"Delete"})
  /\ \/ /\ IsString(e) /\ Found(e)
        /\ deleted' = deleted \cup {activity[e].object}
        /\ Returns(w, e, "ok")
     \/ ~(IsString(e) /\ Found(e)) /\ UNCHANGED deleted /\ Returns(w, e, "ok")
     \/ IsString(e) /\ UNCHANGED deleted /\ \E r \in {"dropped", "failed"} : Returns(w, e, r)
  /\ UNCHANGED <<server, table, known, batch, run, seen>>

\* handleAccept and handleReject find no follow and drop the error of a lookup
\* that fails; so does handleUndo, which reads embedded activities only, but
\* not that of the DELETE it ends with.  Other types have no handler.
Answers(a) ==
  CASE a.type = "Undo" /\ a.form = "object" -> {"ok", "dropped", "failed"}
    [] a.type \in {"Accept", "Reject"} /\ a.form # "other" -> {"ok", "dropped"}
    [] a.type \in {"Accept", "Reject"} /\ a.form = "other" -> {"refused"}
    [] OTHER -> {"ok"}

\* handleAccept, handleReject, handleUndo: there is no row to change.
HandleAnswer(w, e) ==
  /\ Dispatches(w, e, {"Accept", "Reject", "Undo", "Other"})
  /\ \E r \in Answers(activity[e]) : Returns(w, e, r)
  /\ UNCHANGED <<server, table, effects, batch, run, seen>>
-----------------------------------------------------------------------------
(* The mark                                                                *)

\* processInboxEvents goes on to the next row of its batch, or back to its
\* tickers.
NextRow(w, e) ==
  /\ batch' = [batch EXCEPT ![w] = @ \ {e}]
  /\ seen' = [seen EXCEPT ![w] = IF batch[w] = {e} THEN {} ELSE @]
  /\ Goes(w, IF batch[w] = {e} THEN "idle" ELSE "row")

\* The worker may come to handle rows again.
Restart(w) ==
  /\ Fault
  /\ run' = [run EXCEPT ![w] = @ + 1]

\* Mutant: errMsg is declared outside the loop.
MarkWithStaleError(w, e) ==
  /\ pc[w] = "mark" /\ At(w, e)
  /\ processed' = processed \cup {e}
  /\ verdict' = [verdict EXCEPT ![e] = errMsg[w]]
  /\ NextRow(w, e)
  /\ UNCHANGED <<server, stored, effects, errMsg, run, history, faults>>

\* MarkInboxEventProcessed, with the error of this row, whatever the row
\* holds now.  An update that fails is only logged.
MarkInboxEventProcessed(w, e) ==
  /\ pc[w] = "mark"
  /\ At(w, e)
  /\ \/ /\ processed' = processed \cup {e}
        /\ verdict' = [verdict EXCEPT ![e] = errMsg[w]]
        /\ UNCHANGED <<run, faults>>
     \/ Restart(w) /\ UNCHANGED <<processed, verdict>>
  /\ NextRow(w, e)
  /\ errMsg' = [errMsg EXCEPT ![w] = NoError]
  /\ UNCHANGED <<server, stored, effects, history>>

\* The process dies, or its context is cancelled, which fails every call the
\* worker makes after that; it starts again with nothing in memory.
Crash(w) ==
  /\ batch[w] # {}
  /\ Restart(w)
  /\ batch' = [batch EXCEPT ![w] = {}]
  /\ seen' = [seen EXCEPT ![w] = {}]
  /\ errMsg' = [errMsg EXCEPT ![w] = NoError]
  /\ Goes(w, "idle")
  /\ UNCHANGED <<server, table, effects, history>>

ProcessEvent(w, e) ==
  \/ HandleFollow(w, e) \/ HandleReaction(w, e) \/ HandleCreate(w, e)
  \/ HandleDelete(w, e) \/ HandleAnswer(w, e) \/ FetchActor(w, e)

Next ==
  \/ Receive
  \/ \E e \in Stamps : CreateInboxEvent(e)
  \/ \E w \in Workers : DeliveryTick(w) \/ DeliveryDone(w) \/ InboxTick(w) \/ Crash(w)
  \/ \E w \in Workers, e \in Stamps : ProcessEvent(w, e) \/ MarkInboxEventProcessed(w, e)

\* A worker that is not waiting for a tick keeps going: the HTTP client gives
\* up after its timeout.  Where both tickers have fired, Go's select picks
\* one at random, so deliveries do not keep the inbox waiting for ever.
Fairness ==
  \A w \in Workers :
    /\ WF_vars(\/ DeliveryDone(w)
               \/ \E e \in Stamps : ProcessEvent(w, e) \/ MarkInboxEventProcessed(w, e))
    /\ SF_vars(InboxTick(w))

Spec == Init /\ [][Next]_vars
FairSpec == Spec /\ Fairness
-----------------------------------------------------------------------------
(* What the inbox promises                                                 *)

Contract == INSTANCE InboxContract WITH
  Events <- Stamps, NoVerdict <- NoError, accepted <- stored

\* Every stored activity keeps the contract of InboxContract, with two
\* workers racing over the same rows and failing writes: it is handled before
\* it is marked, it stays marked, and the error it is marked with is that of
\* handling it, never that of another row.
ImplementsContract == Contract!Spec

\* Every stored activity is processed in the end: however many newer ones
\* come, whatever handling comes to, and although the same goroutine also
\* posts deliveries and may stop at any row.
EventuallyProcessed == \A e \in Stamps : e \in stored ~> e \in processed

\* A worker handles an event again only after a crash or a failed write of
\* its own: two workers and f faults handle one at most 2 + f times, although
\* the batch a worker works through may be long out of date.
OncePerRun ==
  \A w \in Workers :
    pc[w] \in {"row", "fetch"} => \A e \in batch[w] : <<w, run[w]>> \notin applied[e]

\* By the time a worker is at a row, every older row that was stored when it
\* read its batch has been handled, by this worker or by another: LIMIT cuts
\* off the newest, and a crash loses nothing older than what comes after it.
OlderFirst ==
  \A w \in Workers, e \in Stamps :
    pc[w] \in {"row", "fetch", "mark"} /\ At(w, e) =>
      \A x \in seen[w] : x < e => applied[x] # {}

\* A Delete that names its post by a plain string, is marked without an error
\* and had no failure dropped on the way has deleted the post, if there is
\* one.  (One with an embedded Tombstone is marked the same and deletes
\* nothing: handleDelete does not read it.)
DeleteTakesEffect ==
  \A e \in processed :
    /\ activity[e].type = "Delete"
    /\ IsString(e)
    /\ Found(e)
    /\ verdict[e] = NoError
    /\ "dropped" \notin outcomes[e]
    => activity[e].object \in deleted
=============================================================================
