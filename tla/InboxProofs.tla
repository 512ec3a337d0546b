----------------------------- MODULE InboxProofs -----------------------------
(***************************************************************************)
(* Theorems about Inbox, for any workers, activities and bounds.           *)
(*                                                                         *)
(* The handlers differ in what they come to and agree in everything else;  *)
(* Handling says what they agree in, and the proofs use nothing more of    *)
(* them.  The inductive invariant IInv then relates the rows a worker      *)
(* holds to what has been handled in its present run.                      *)
(***************************************************************************)
EXTENDS Inbox, InductionLemmas, TLAPS

\* An activity whose handler deletes a post, if one has the name.
Deleting(e) == activity[e].type = "Delete" /\ IsString(e) /\ Found(e)

\* What every step of ProcessEvent is: it goes on to fetch an actor, or comes
\* to r; a Delete that handleDelete can read comes to "ok" only with its post
\* deleted.
Handling(w, e) ==
  /\ pc[w] \in {"row", "fetch"}
  /\ At(w, e)
  /\ UNCHANGED <<server, table, batch, run, seen>>
  /\ deleted \subseteq deleted'
  /\ deleted' \subseteq deleted \cup (IF Found(e) THEN {activity[e].object} ELSE {})
  /\ known' \subseteq known \cup Remotes
  /\ \/ \E r \in Results :
          /\ Returns(w, e, r)
          /\ Deleting(e) /\ r = "ok" => activity[e].object \in deleted'
     \/ pc' = [pc EXCEPT ![w] = "fetch"] /\ UNCHANGED <<errMsg, history, faults>>

\* The rows are those of activities that have arrived.
Arrived ==
  /\ clock <= EventBound
  /\ \A e \in arriving \cup stored : e <= clock /\ activity[e] \in Activities
  /\ \A e \in Stamps : applied[e] # {} \/ outcomes[e] # {} => e \in stored

\* No worker has handled anything in a run it has not begun.
RunsBegun == \A w \in Workers, e \in Stamps, n \in Nat : <<w, n>> \in applied[e] => n <= run[w]

\* What a worker has handled in its present run is processed, or is the row
\* it is about to mark ...
RunIsMarked ==
  \A w \in Workers, e \in Stamps :
    <<w, run[w]>> \in applied[e] => e \in processed \/ (pc[w] = "mark" /\ At(w, e))

\* ... and of the rows it holds, it has handled that one only.
HeldIsFresh ==
  \A w \in Workers : \A e \in batch[w] :
    <<w, run[w]>> \in applied[e] => pc[w] = "mark" /\ At(w, e)

\* The rows that were stored when a worker read its batch are handled, still
\* held, or newer than all that are held.
SeenIsCovered ==
  \A w \in Workers :
    pc[w] \in {"row", "fetch", "mark"} =>
      \A x \in seen[w] :
        x \in batch[w] \/ applied[x] # {} \/ \A y \in batch[w] : y < x

\* errMsg is empty until ProcessEvent returns; then it is what the row came to.
ErrMsgIsOwn ==
  \A w \in Workers :
    /\ pc[w] # "mark" => errMsg[w] = NoError
    /\ \A e \in Stamps :
         pc[w] = "mark" /\ At(w, e) =>
           applied[e] # {} /\ \E r \in outcomes[e] : errMsg[w] = Verdict(r)

\* A marked row was handled, and holds the error of one handling of it.
MarkedIsHandled ==
  \A e \in processed :
    applied[e] # {} /\ \E r \in outcomes[e] : verdict[e] = Verdict(r)

\* A Delete that came to nil has deleted its post.
Deletes ==
  \A e \in Stamps :
    activity[e] \in Activities /\ Deleting(e) /\ "ok" \in outcomes[e]
      => activity[e].object \in deleted

IInv ==
  /\ TypeOK
  /\ Arrived
  /\ RunsBegun
  /\ RunIsMarked
  /\ HeldIsFresh
  /\ SeenIsCovered
  /\ ErrMsgIsOwn
  /\ MarkedIsHandled
  /\ Deletes
-----------------------------------------------------------------------------
(* What the steps have in common                                           *)

LEMMA StampsAreNumbers == \A e \in Stamps : e \in Int
  BY InboxAssumption DEF Stamps

\* A worker is at one row at most.
LEMMA AtIsUnique ==
  ASSUME TypeOK, NEW w \in Workers, NEW e \in Stamps, NEW x \in Stamps, At(w, e), At(w, x)
  PROVE  e = x
  BY StampsAreNumbers DEF At, TypeOK

LEMMA EnsureIsHandling ==
  ASSUME NEW w, NEW e, EnsureRemoteActor(w, e), activity[e].type # "Delete"
  PROVE  \/ \E r \in Results :
              /\ Returns(w, e, r)
              /\ Deleting(e) /\ r = "ok" => activity[e].object \in deleted'
         \/ pc' = [pc EXCEPT ![w] = "fetch"] /\ UNCHANGED <<errMsg, history, faults>>
  BY DEF EnsureRemoteActor, Results, Goes, Deleting

\* Every step of ProcessEvent is a Handling.
LEMMA EventsAreHandled ==
  ASSUME NEW w \in Workers, NEW e \in Stamps, ProcessEvent(w, e)
  PROVE  Handling(w, e)
<1>1. CASE HandleFollow(w, e)
  <2>1. activity[e].type # "Delete"
    BY <1>1 DEF HandleFollow, Dispatches
  <2>2. CASE EnsureRemoteActor(w, e)
    BY <1>1, <2>1, <2>2, EnsureIsHandling DEF HandleFollow, Dispatches, Handling, effects
  <2>3. CASE Returns(w, e, "refused") \/ Returns(w, e, "failed")
    BY <1>1, <2>1, <2>3 DEF HandleFollow, Dispatches, Handling, effects, Results, Deleting
  <2> QED
    BY <1>1, <2>2, <2>3 DEF HandleFollow
<1>2. CASE HandleReaction(w, e)
  <2>1. activity[e].type # "Delete"
    BY <1>2 DEF HandleReaction, Dispatches
  <2>2. CASE EnsureRemoteActor(w, e)
    BY <1>2, <2>1, <2>2, EnsureIsHandling DEF HandleReaction, Dispatches, Handling, effects
  <2>3. CASE Returns(w, e, "ok") \/ Returns(w, e, "dropped")
    BY <1>2, <2>1, <2>3 DEF HandleReaction, Dispatches, Handling, effects, Results, Deleting
  <2> QED
    BY <1>2, <2>2, <2>3 DEF HandleReaction
<1>3. CASE HandleCreate(w, e)
  <2>1. activity[e].type # "Delete"
    BY <1>3 DEF HandleCreate, Dispatches
  <2>2. \E r \in Results : Returns(w, e, r)
    BY <1>3 DEF HandleCreate, Results
  <2> QED
    BY <1>3, <2>1, <2>2 DEF HandleCreate, Dispatches, Handling, effects, Deleting
<1>4. CASE HandleDelete(w, e)
  <2>1. CASE Found(e) /\ deleted' = deleted \cup {activity[e].object} /\ Returns(w, e, "ok")
    BY <1>4, <2>1 DEF HandleDelete, Dispatches, Handling, Results
  <2>2. CASE ~(IsString(e) /\ Found(e)) /\ UNCHANGED deleted /\ Returns(w, e, "ok")
    BY <1>4, <2>2 DEF HandleDelete, Dispatches, Handling, Results, Deleting
  <2>3. CASE UNCHANGED deleted /\ \E r \in {"dropped", "failed"} : Returns(w, e, r)
    BY <1>4, <2>3 DEF HandleDelete, Dispatches, Handling, Results
  <2> QED
    BY <1>4, <2>1, <2>2, <2>3 DEF HandleDelete
<1>5. CASE HandleAnswer(w, e)
  <2>1. activity[e].type # "Delete"
    BY <1>5 DEF HandleAnswer, Dispatches
  <2>2. \E r \in Results : Returns(w, e, r)
    BY <1>5 DEF HandleAnswer, Answers, Results
  <2> QED
    BY <1>5, <2>1, <2>2 DEF HandleAnswer, Dispatches, Handling, effects, Deleting
<1>6. CASE FetchActor(w, e)
  <2>1. \E r \in Results : Returns(w, e, r) /\ r # "ok"
    BY <1>6 DEF FetchActor, Results
  <2> QED
    BY <1>6, <2>1 DEF FetchActor, Handling
<1> QED
  BY <1>1, <1>2, <1>3, <1>4, <1>5, <1>6 DEF ProcessEvent
-----------------------------------------------------------------------------
(* Type correctness                                                        *)

LEMMA TypeInit == Init => TypeOK
  BY InboxAssumption DEF Init, TypeOK, Errors, Places

LEMMA ArrivedInit == Init => Arrived
  BY InboxAssumption DEF Init, Arrived

\* A Handling keeps the types.
LEMMA HandlingTyped ==
  ASSUME TypeOK, Arrived, NEW w \in Workers, NEW e \in Stamps, Handling(w, e)
  PROVE  TypeOK' /\ Arrived'
<1>1. e \in stored /\ activity[e] \in Activities
  BY DEF Handling, At, TypeOK, Arrived
<1>2. /\ UNCHANGED <<clock, activity, arriving, stored, processed, verdict, batch, run, seen>>
      /\ deleted' \in SUBSET Known
      /\ known' \in SUBSET Remotes
  BY <1>1 DEF Handling, server, table, TypeOK, Activities, Found
<1>3. CASE pc' = [pc EXCEPT ![w] = "fetch"] /\ UNCHANGED <<errMsg, history, faults>>
  <2>1. pc' \in [Workers -> Places]
    BY <1>3 DEF TypeOK, Places
  <2> QED
    BY <1>2, <1>3, <2>1 DEF TypeOK, Arrived, history
<1>4. ASSUME NEW r \in Results, Returns(w, e, r)
      PROVE  TypeOK' /\ Arrived'
  <2>1. pc' \in [Workers -> Places]
    BY <1>4 DEF TypeOK, Places, Returns, Goes
  <2>2. errMsg' \in [Workers -> Errors]
    BY <1>4 DEF TypeOK, Errors, Returns, Verdict, Results, NoError
  <2>3. <<w, run[w]>> \in Workers \X Nat
    BY DEF TypeOK
  <2>4. applied' \in [Stamps -> SUBSET (Workers \X Nat)]
    BY <1>4, <2>3 DEF TypeOK, Returns
  <2>5. outcomes' \in [Stamps -> SUBSET Results]
    BY <1>4 DEF TypeOK, Returns
  <2>6. faults' \in Nat
    BY <1>4 DEF TypeOK, Returns, Fault
  <2>7. \A x \in Stamps : x # e => applied'[x] = applied[x] /\ outcomes'[x] = outcomes[x]
    BY <1>4 DEF TypeOK, Returns
  <2>8. Arrived'
    BY <1>1, <1>2, <2>7 DEF Arrived
  <2> QED
    BY <1>2, <2>1, <2>2, <2>4, <2>5, <2>6, <2>8 DEF TypeOK
<1> QED
  BY <1>3, <1>4 DEF Handling

LEMMA ReceiveTyped ==
  ASSUME TypeOK, Arrived, Receive
  PROVE  TypeOK' /\ Arrived'
<1>1. clock' \in Stamps /\ clock' = clock + 1
  BY InboxAssumption DEF Receive, TypeOK, Stamps
<1>2. PICK a \in Activities : activity' = [activity EXCEPT ![clock'] = a]
  BY <1>1, InboxAssumption DEF Receive
<1>3. activity' \in [Stamps -> Activities \cup {NoActivity}]
  BY <1>2 DEF TypeOK
<1>4. UNCHANGED <<stored, processed, verdict, deleted, known, pc, batch, errMsg, run, seen, applied, outcomes, faults>>
  BY DEF Receive, table, effects, history
<1>5. arriving' = arriving \cup {clock'}
  BY DEF Receive
<1>6. TypeOK'
  BY <1>1, <1>3, <1>4, <1>5 DEF TypeOK
<1>7. clock' <= EventBound
  BY <1>1, InboxAssumption DEF Stamps
<1>8. ASSUME NEW e \in arriving' \cup stored'
      PROVE  e <= clock' /\ activity'[e] \in Activities
  <2>1. CASE e = clock'
    BY <1>1, <1>2, <2>1 DEF TypeOK
  <2>2. CASE e # clock'
    <3>1. e \in arriving \cup stored /\ e \in Stamps
      BY <1>4, <1>5, <1>8, <2>2 DEF TypeOK
    <3>2. e <= clock /\ activity[e] \in Activities
      BY <3>1 DEF Arrived
    <3> QED
      BY <1>1, <1>2, <2>2, <3>1, <3>2, StampsAreNumbers DEF TypeOK
  <2> QED
    BY <2>1, <2>2
<1> QED
  BY <1>4, <1>6, <1>7, <1>8 DEF Arrived

LEMMA CreateInboxEventTyped ==
  ASSUME TypeOK, Arrived, NEW e \in Stamps, CreateInboxEvent(e)
  PROVE  TypeOK' /\ Arrived'
<1>1. TypeOK'
  BY DEF CreateInboxEvent, Fault, TypeOK, effects, history
<1>2. /\ arriving' \cup stored' \subseteq arriving \cup stored
      /\ stored \subseteq stored'
      /\ UNCHANGED <<clock, activity, applied, outcomes>>
  BY DEF CreateInboxEvent, history
<1> QED
  BY <1>1, <1>2 DEF Arrived

LEMMA LoopTyped ==
  ASSUME TypeOK, Arrived, NEW w \in Workers,
         DeliveryTick(w) \/ DeliveryDone(w) \/ InboxTick(w) \/ Crash(w)
  PROVE  TypeOK' /\ Arrived'
<1>1. CASE DeliveryTick(w) \/ DeliveryDone(w)
  BY <1>1 DEF DeliveryTick, DeliveryDone, Goes, Places, TypeOK, Arrived, server, table, effects, history
<1>2. CASE InboxTick(w)
  <2>1. PICK S \in SUBSET Unprocessed : batch' = [batch EXCEPT ![w] = S]
    BY <1>2 DEF InboxTick
  <2> QED
    BY <1>2, <2>1 DEF InboxTick, Unprocessed, Goes, Places, TypeOK, Arrived, server, table, effects, history
<1>3. CASE Crash(w)
  BY <1>3 DEF Crash, Restart, Fault, Goes, Places, Errors, TypeOK, Arrived, server, table, effects, history
<1> QED
  BY <1>1, <1>2, <1>3

LEMMA MarkTyped ==
  ASSUME TypeOK, Arrived, NEW w \in Workers, NEW e \in Stamps, MarkInboxEventProcessed(w, e)
  PROVE  TypeOK' /\ Arrived'
<1>1. /\ UNCHANGED <<clock, activity, arriving, stored, deleted, known, applied, outcomes>>
      /\ e \in batch[w]
      /\ batch' = [batch EXCEPT ![w] = @ \ {e}]
  BY DEF MarkInboxEventProcessed, NextRow, At, server, effects, history
<1>2. pc' \in [Workers -> Places]
  BY DEF MarkInboxEventProcessed, NextRow, Goes, Places, TypeOK
<1>3. errMsg' \in [Workers -> Errors]
  BY DEF MarkInboxEventProcessed, Errors, TypeOK
<1>4. run' \in [Workers -> Nat] /\ faults' \in Nat
  BY DEF MarkInboxEventProcessed, Restart, Fault, TypeOK
<1>5. seen' \in [Workers -> SUBSET stored]
  BY DEF MarkInboxEventProcessed, NextRow, TypeOK
<1>6. processed' \in SUBSET stored /\ verdict' \in [Stamps -> Errors]
  BY <1>1 DEF MarkInboxEventProcessed, TypeOK
<1> QED
  BY <1>1, <1>2, <1>3, <1>4, <1>5, <1>6 DEF TypeOK, Arrived

LEMMA NextTyped ==
  ASSUME TypeOK, Arrived, [Next]_vars
  PROVE  TypeOK' /\ Arrived'
<1>1. CASE UNCHANGED vars
  BY <1>1 DEF vars, server, table, effects, history, TypeOK, Arrived
<1>2. CASE Next
  BY <1>2, ReceiveTyped, CreateInboxEventTyped, LoopTyped, MarkTyped,
     HandlingTyped, EventsAreHandled DEF Next
<1> QED
  BY <1>1, <1>2

\* Every variable stays in its type: a worker holds and marks only rows that
\* are stored, and deletes only posts that are there.
THEOREM TypeCorrect == Spec => []TypeOK
<1>1. Init => TypeOK /\ Arrived
  BY TypeInit, ArrivedInit
<1>2. TypeOK /\ Arrived /\ [Next]_vars => (TypeOK /\ Arrived)'
  BY NextTyped
<1> QED
  BY <1>1, <1>2, PTL DEF Spec
-----------------------------------------------------------------------------
(* The inductive invariant                                                 *)

LEMMA IInvInit == Init => IInv
<1> SUFFICES ASSUME Init
             PROVE  IInv
  OBVIOUS
<1>1. TypeOK /\ Arrived
  BY TypeInit, ArrivedInit
<1> QED
  BY <1>1 DEF Init, IInv, RunsBegun, RunIsMarked, HeldIsFresh, SeenIsCovered, ErrMsgIsOwn,
              MarkedIsHandled, Deletes, At

\* The server leaves the workers and what they have done alone.
LEMMA ServerKeeps ==
  ASSUME IInv, Receive \/ \E e \in Stamps : CreateInboxEvent(e)
  PROVE  /\ RunsBegun' /\ RunIsMarked' /\ HeldIsFresh' /\ SeenIsCovered'
         /\ ErrMsgIsOwn' /\ MarkedIsHandled' /\ Deletes'
<1>1. UNCHANGED <<processed, verdict, deleted, known, pc, batch, errMsg, run, seen, applied, outcomes>>
  BY DEF Receive, CreateInboxEvent, table, effects, history
<1>2. \A w \in Workers, e \in Stamps : At(w, e)' = At(w, e)
  BY <1>1 DEF At
<1>3. \A e \in Stamps : outcomes[e] # {} => activity'[e] = activity[e]
  <2>1. CASE Receive
    <3>1. \A e \in Stamps : outcomes[e] # {} => e <= clock
      BY DEF IInv, Arrived
    <3>2. \A e \in Stamps : outcomes[e] # {} => e # clock + 1
      BY <3>1, StampsAreNumbers DEF IInv, TypeOK
    <3>3. PICK a \in Sent[clock'] : activity' = [activity EXCEPT ![clock'] = a]
      BY <2>1 DEF Receive
    <3> QED
      BY <2>1, <3>2, <3>3 DEF Receive, IInv, TypeOK
  <2>2. CASE \E e \in Stamps : CreateInboxEvent(e)
    BY <2>2 DEF CreateInboxEvent
  <2> QED
    BY <2>1, <2>2
<1>4. RunsBegun' /\ RunIsMarked' /\ HeldIsFresh'
  BY <1>1, <1>2 DEF IInv, TypeOK, RunsBegun, RunIsMarked, HeldIsFresh
<1>5. SeenIsCovered' /\ MarkedIsHandled'
  BY <1>1 DEF IInv, SeenIsCovered, MarkedIsHandled
<1>6. ErrMsgIsOwn'
  BY <1>1, <1>2 DEF IInv, ErrMsgIsOwn
<1>7. Deletes'
  <2> SUFFICES ASSUME NEW e \in Stamps, activity'[e] \in Activities, activity'[e].type = "Delete",
                      IsString(e)', Found(e)', "ok" \in outcomes'[e]
               PROVE  activity'[e].object \in deleted'
    BY DEF Deletes, Deleting
  <2>1. activity'[e] = activity[e]
    BY <1>1, <1>3
  <2> QED
    BY <1>1, <2>1 DEF IInv, Deletes, Deleting, IsString, Found
<1> QED
  BY <1>4, <1>5, <1>6, <1>7

\* At is about the batches only, so a worker whose batch stays is where it was.
LEMMA AtStays ==
  ASSUME NEW w, batch'[w] = batch[w]
  PROVE  \A e : At(w, e)' = At(w, e)
  BY DEF At

LEMMA DeliveriesKeep ==
  ASSUME IInv, NEW w \in Workers, DeliveryTick(w) \/ DeliveryDone(w)
  PROVE  /\ RunsBegun' /\ RunIsMarked' /\ HeldIsFresh' /\ SeenIsCovered'
         /\ ErrMsgIsOwn' /\ MarkedIsHandled' /\ Deletes'
<1>1. /\ UNCHANGED <<activity, processed, verdict, deleted, batch, errMsg, run, seen, applied, outcomes>>
      /\ pc[w] \notin {"row", "fetch", "mark"}
      /\ pc'[w] \notin {"row", "fetch", "mark"}
      /\ \A v \in Workers : v # w => pc'[v] = pc[v]
  BY DEF DeliveryTick, DeliveryDone, Goes, server, table, effects, history, IInv, TypeOK
<1>2. \A v \in Workers : \A e : At(v, e)' = At(v, e)
  BY <1>1, AtStays
<1>3. \A v \in Workers : (pc'[v] = "mark") = (pc[v] = "mark")
  BY <1>1
<1>4. RunsBegun' /\ RunIsMarked' /\ HeldIsFresh'
  BY <1>1, <1>2, <1>3 DEF IInv, RunsBegun, RunIsMarked, HeldIsFresh
<1>5. SeenIsCovered' /\ MarkedIsHandled' /\ Deletes'
  BY <1>1 DEF IInv, SeenIsCovered, MarkedIsHandled, Deletes, Deleting, IsString, Found
<1>6. ErrMsgIsOwn'
  BY <1>1, <1>2, <1>3 DEF IInv, ErrMsgIsOwn
<1> QED
  BY <1>4, <1>5, <1>6

LEMMA InboxTickKeeps ==
  ASSUME IInv, NEW w \in Workers, InboxTick(w)
  PROVE  /\ RunsBegun' /\ RunIsMarked' /\ HeldIsFresh' /\ SeenIsCovered'
         /\ ErrMsgIsOwn' /\ MarkedIsHandled' /\ Deletes'
<1>1. PICK S \in SUBSET Unprocessed :
        IsBatch(S, Unprocessed) /\ batch' = [batch EXCEPT ![w] = S]
  BY DEF InboxTick
<1>2. /\ UNCHANGED <<activity, stored, processed, verdict, deleted, errMsg, run, applied, outcomes>>
      /\ pc[w] = "idle" /\ pc'[w] = "row"
      /\ batch'[w] = S /\ seen'[w] = stored
      /\ \A v \in Workers : v # w =>
           pc'[v] = pc[v] /\ batch'[v] = batch[v] /\ seen'[v] = seen[v]
  BY <1>1 DEF InboxTick, Goes, server, table, effects, history, IInv, TypeOK
<1>3. \A v \in Workers : v # w => \A e : At(v, e)' = At(v, e)
  BY <1>2, AtStays
<1>4. \A e \in S : <<w, run[w]>> \notin applied[e]
  <2>1. \A e \in S : e \in Stamps /\ e \notin processed
    BY DEF Unprocessed, IInv, TypeOK
  <2> QED
    BY <1>2, <2>1 DEF IInv, RunIsMarked
<1>5. RunsBegun' /\ MarkedIsHandled' /\ Deletes'
  BY <1>2 DEF IInv, RunsBegun, MarkedIsHandled, Deletes, Deleting, IsString, Found
<1>6. RunIsMarked'
  BY <1>2, <1>3 DEF IInv, RunIsMarked
<1>7. HeldIsFresh'
  BY <1>2, <1>3, <1>4 DEF IInv, HeldIsFresh
<1>8. SeenIsCovered'
  <2>1. \A x \in stored : x \in S \/ applied[x] # {} \/ \A y \in S : y < x
    BY <1>1 DEF IsBatch, Unprocessed, IInv, MarkedIsHandled
  <2> QED
    BY <1>2, <2>1 DEF IInv, SeenIsCovered
<1>9. ErrMsgIsOwn'
  BY <1>2, <1>3 DEF IInv, ErrMsgIsOwn
<1> QED
  BY <1>5, <1>6, <1>7, <1>8, <1>9

LEMMA HandlingKeeps ==
  ASSUME IInv, NEW w \in Workers, NEW e \in Stamps, Handling(w, e)
  PROVE  /\ RunsBegun' /\ RunIsMarked' /\ HeldIsFresh' /\ SeenIsCovered'
         /\ ErrMsgIsOwn' /\ MarkedIsHandled' /\ Deletes'
<1>1. /\ UNCHANGED <<activity, stored, processed, verdict, batch, run, seen>>
      /\ deleted \subseteq deleted'
      /\ pc[w] \in {"row", "fetch"} /\ At(w, e) /\ e \in batch[w]
  BY DEF Handling, server, table, At
<1>2. \A v \in Workers : \A x : At(v, x)' = At(v, x)
  BY <1>1, AtStays
<1>3. CASE pc' = [pc EXCEPT ![w] = "fetch"] /\ UNCHANGED <<errMsg, history, faults>>
  <2>1. UNCHANGED <<errMsg, applied, outcomes>>
    BY <1>3 DEF history
  <2>2. /\ pc'[w] = "fetch"
        /\ \A v \in Workers : v # w => pc'[v] = pc[v]
    BY <1>3 DEF IInv, TypeOK
  <2>3. \A v \in Workers : (pc'[v] = "mark") = (pc[v] = "mark")
    BY <1>1, <2>2
  <2>4. RunsBegun' /\ RunIsMarked' /\ HeldIsFresh'
    BY <1>1, <1>2, <2>1, <2>3 DEF IInv, RunsBegun, RunIsMarked, HeldIsFresh
  <2>5. SeenIsCovered'
    BY <1>1, <2>1, <2>2 DEF IInv, SeenIsCovered
  <2>6. MarkedIsHandled' /\ Deletes'
    BY <1>1, <2>1 DEF IInv, MarkedIsHandled, Deletes, Deleting, IsString, Found
  <2>7. ErrMsgIsOwn'
    BY <1>1, <1>2, <2>1, <2>3 DEF IInv, ErrMsgIsOwn
  <2> QED
    BY <2>4, <2>5, <2>6, <2>7
<1>4. ASSUME NEW r \in Results, Returns(w, e, r),
             Deleting(e) /\ r = "ok" => activity[e].object \in deleted'
      PROVE  /\ RunsBegun' /\ RunIsMarked' /\ HeldIsFresh' /\ SeenIsCovered'
             /\ ErrMsgIsOwn' /\ MarkedIsHandled' /\ Deletes'
  <2>1. /\ applied'[e] = applied[e] \cup {<<w, run[w]>>}
        /\ outcomes'[e] = outcomes[e] \cup {r}
        /\ \A x \in Stamps : x # e => applied'[x] = applied[x] /\ outcomes'[x] = outcomes[x]
        /\ pc'[w] = "mark"
        /\ \A v \in Workers : v # w => pc'[v] = pc[v] /\ errMsg'[v] = errMsg[v]
    BY <1>4 DEF Returns, Goes, IInv, TypeOK
  <2>2. errMsg'[w] = Verdict(r)
    BY <1>1, <1>4 DEF Returns, IInv, TypeOK, ErrMsgIsOwn, Verdict, NoError
  <2>3. \A x \in Stamps : applied[x] \subseteq applied'[x] /\ outcomes[x] \subseteq outcomes'[x]
    BY <2>1
  <2>4. RunsBegun'
    <3> SUFFICES ASSUME NEW v \in Workers, NEW x \in Stamps, NEW n \in Nat, <<v, n>> \in applied'[x]
                 PROVE  n <= run'[v]
      BY DEF RunsBegun
    <3>1. CASE <<v, n>> \in applied[x]
      BY <1>1, <3>1 DEF IInv, RunsBegun
    <3>2. CASE <<v, n>> \notin applied[x]
      BY <1>1, <2>1, <3>2 DEF IInv, TypeOK
    <3> QED
      BY <3>1, <3>2
  <2>5. \A v \in Workers, x \in Stamps :
          <<v, run[v]>> \in applied'[x] => <<v, run[v]>> \in applied[x] \/ (v = w /\ x = e)
    BY <2>1
  <2>6. RunIsMarked'
    BY <1>1, <1>2, <2>1, <2>5 DEF IInv, RunIsMarked
  <2>7. HeldIsFresh'
    <3>1. \A v \in Workers : batch[v] \subseteq Stamps
      BY DEF IInv, TypeOK
    <3> QED
      BY <1>1, <1>2, <2>1, <2>5, <3>1 DEF IInv, HeldIsFresh
  <2>8. SeenIsCovered'
    <3>1. \A v \in Workers : seen[v] \subseteq Stamps
      BY DEF IInv, TypeOK
    <3>2. \A v \in Workers :
            pc'[v] \in {"row", "fetch", "mark"} => pc[v] \in {"row", "fetch", "mark"}
      BY <1>1, <2>1
    <3>3. \A x \in Stamps : applied[x] # {} => applied'[x] # {}
      BY <2>3
    <3> QED
      BY <1>1, <3>1, <3>2, <3>3 DEF IInv, SeenIsCovered
  <2>9. MarkedIsHandled'
    <3>1. processed \subseteq Stamps
      BY DEF IInv, TypeOK
    <3> QED
      BY <1>1, <2>3, <3>1 DEF IInv, MarkedIsHandled
  <2>10. ErrMsgIsOwn'
    <3>1. \A x \in Stamps : At(w, x) => x = e
      BY <1>1, AtIsUnique DEF IInv
    <3>2. \A v \in Workers : pc'[v] # "mark" => errMsg'[v] = NoError
      BY <2>1 DEF IInv, ErrMsgIsOwn
    <3>3. ASSUME NEW v \in Workers, NEW x \in Stamps, pc'[v] = "mark", At(v, x)
          PROVE  applied'[x] # {} /\ \E q \in outcomes'[x] : errMsg'[v] = Verdict(q)
      <4>1. CASE v = w
        BY <2>1, <2>2, <3>1, <3>3, <4>1
      <4>2. CASE v # w
        BY <2>1, <2>3, <3>3, <4>2 DEF IInv, ErrMsgIsOwn
      <4> QED
        BY <4>1, <4>2
    <3> QED
      BY <1>2, <3>2, <3>3 DEF ErrMsgIsOwn
  <2>11. Deletes'
    BY <1>1, <1>4, <2>1 DEF IInv, Deletes, Deleting, IsString, Found
  <2> QED
    BY <2>4, <2>6, <2>7, <2>8, <2>9, <2>10, <2>11
<1> QED
  BY <1>3, <1>4 DEF Handling

LEMMA MarkKeeps ==
  ASSUME IInv, NEW w \in Workers, NEW e \in Stamps, MarkInboxEventProcessed(w, e)
  PROVE  /\ RunsBegun' /\ RunIsMarked' /\ HeldIsFresh' /\ SeenIsCovered'
         /\ ErrMsgIsOwn' /\ MarkedIsHandled' /\ Deletes'
<1>1. /\ UNCHANGED <<activity, stored, deleted, applied, outcomes>>
      /\ pc[w] = "mark" /\ At(w, e) /\ e \in batch[w]
      /\ batch'[w] = batch[w] \ {e} /\ pc'[w] \in {"idle", "row"}
      /\ errMsg'[w] = NoError
      /\ \A v \in Workers : v # w =>
           /\ pc'[v] = pc[v] /\ batch'[v] = batch[v]
           /\ errMsg'[v] = errMsg[v] /\ seen'[v] = seen[v]
  BY DEF MarkInboxEventProcessed, NextRow, Goes, At, server, effects, history, IInv, TypeOK
<1>2. pc'[w] = "row" => seen'[w] = seen[w]
  BY DEF MarkInboxEventProcessed, NextRow, Goes, IInv, TypeOK
<1>3. \A v \in Workers : v # w => \A x : At(v, x)' = At(v, x)
  BY <1>1, AtStays
<1>4. \A x \in Stamps : At(w, x) => x = e
  BY <1>1, AtIsUnique DEF IInv
<1>5. applied[e] # {} /\ \E r \in outcomes[e] : errMsg[w] = Verdict(r)
  BY <1>1 DEF IInv, ErrMsgIsOwn
<1>6. \/ processed' = processed \cup {e} /\ verdict' = [verdict EXCEPT ![e] = errMsg[w]] /\ run' = run
      \/ UNCHANGED <<processed, verdict>> /\ run' = [run EXCEPT ![w] = @ + 1]
  BY DEF MarkInboxEventProcessed, Restart
<1>7. \A v \in Workers : run[v] <= run'[v] /\ (v # w => run'[v] = run[v])
  BY <1>6 DEF IInv, TypeOK
<1>8. processed \subseteq processed'
  BY <1>6
<1>9. RunsBegun'
  <2> SUFFICES ASSUME NEW v \in Workers, NEW x \in Stamps, NEW n \in Nat, <<v, n>> \in applied[x]
               PROVE  n <= run'[v]
    BY <1>1 DEF RunsBegun
  <2>1. n <= run[v]
    BY DEF IInv, RunsBegun
  <2>2. run[v] \in Nat /\ run'[v] \in Nat
    BY <1>6 DEF IInv, TypeOK
  <2> QED
    BY <1>7, <2>1, <2>2
\* A run that has only just begun has handled nothing.
<1>10. \A x \in Stamps : <<w, run'[w]>> \in applied[x] => run'[w] = run[w] /\ e \in processed'
  <2> SUFFICES ASSUME NEW x \in Stamps, <<w, run'[w]>> \in applied[x]
               PROVE  run'[w] = run[w] /\ e \in processed'
    OBVIOUS
  <2>1. run[w] \in Nat /\ run'[w] \in Nat
    BY <1>6 DEF IInv, TypeOK
  <2>2. run'[w] <= run[w]
    BY <2>1 DEF IInv, RunsBegun
  <2>3. run'[w] # run[w] + 1
    BY <2>1, <2>2
  <2> QED
    BY <1>6, <2>3 DEF IInv, TypeOK
<1>11. RunIsMarked'
  <2> SUFFICES ASSUME NEW v \in Workers, NEW x \in Stamps, <<v, run'[v]>> \in applied[x]
               PROVE  x \in processed' \/ (pc'[v] = "mark" /\ At(v, x)')
    BY <1>1 DEF RunIsMarked
  <2>1. CASE v = w
    BY <1>4, <1>8, <1>10, <2>1 DEF IInv, RunIsMarked
  <2>2. CASE v # w
    BY <1>1, <1>3, <1>7, <1>8, <2>2 DEF IInv, RunIsMarked
  <2> QED
    BY <2>1, <2>2
<1>12. HeldIsFresh'
  <2> SUFFICES ASSUME NEW v \in Workers, NEW x \in batch'[v], <<v, run'[v]>> \in applied[x]
               PROVE  pc'[v] = "mark" /\ At(v, x)'
    BY <1>1 DEF HeldIsFresh
  <2>1. CASE v = w
    <3>1. x \in batch[w] /\ x # e /\ x \in Stamps
      BY <1>1, <2>1 DEF IInv, TypeOK
    <3>2. At(w, x)
      BY <1>10, <2>1, <3>1 DEF IInv, HeldIsFresh
    <3> QED
      BY <1>4, <3>1, <3>2
  <2>2. CASE v # w
    BY <1>1, <1>3, <1>7, <2>2 DEF IInv, HeldIsFresh
  <2> QED
    BY <2>1, <2>2
<1>13. SeenIsCovered'
  <2> SUFFICES ASSUME NEW v \in Workers, pc'[v] \in {"row", "fetch", "mark"}, NEW x \in seen'[v]
               PROVE  x \in batch'[v] \/ applied[x] # {} \/ \A y \in batch'[v] : y < x
    BY <1>1 DEF SeenIsCovered
  <2>1. CASE v = w
    <3>1. x \in seen[w]
      BY <1>1, <1>2, <2>1
    <3>2. x \in batch[w] \/ applied[x] # {} \/ \A y \in batch[w] : y < x
      BY <1>1, <3>1 DEF IInv, SeenIsCovered
    <3> QED
      BY <1>1, <1>5, <2>1, <3>2
  <2>2. CASE v # w
    BY <1>1, <2>2 DEF IInv, SeenIsCovered
  <2> QED
    BY <2>1, <2>2
<1>14. ErrMsgIsOwn'
  BY <1>1, <1>3 DEF IInv, ErrMsgIsOwn
<1>15. MarkedIsHandled'
  <2> SUFFICES ASSUME NEW x \in processed'
               PROVE  applied[x] # {} /\ \E r \in outcomes[x] : verdict'[x] = Verdict(r)
    BY <1>1 DEF MarkedIsHandled
  <2>1. CASE x = e /\ verdict' = [verdict EXCEPT ![e] = errMsg[w]]
    BY <1>5, <2>1 DEF IInv, TypeOK
  <2>2. CASE x \in processed /\ verdict'[x] = verdict[x]
    BY <2>2 DEF IInv, MarkedIsHandled
  <2> QED
    BY <1>6, <2>1, <2>2 DEF IInv, TypeOK
<1>16. Deletes'
  BY <1>1 DEF IInv, Deletes, Deleting, IsString, Found
<1> QED
  BY <1>9, <1>11, <1>12, <1>13, <1>14, <1>15, <1>16

LEMMA CrashKeeps ==
  ASSUME IInv, NEW w \in Workers, Crash(w)
  PROVE  /\ RunsBegun' /\ RunIsMarked' /\ HeldIsFresh' /\ SeenIsCovered'
         /\ ErrMsgIsOwn' /\ MarkedIsHandled' /\ Deletes'
<1>1. /\ UNCHANGED <<activity, stored, processed, verdict, deleted, applied, outcomes>>
      /\ pc'[w] = "idle" /\ batch'[w] = {} /\ errMsg'[w] = NoError /\ run'[w] = run[w] + 1
      /\ \A v \in Workers : v # w =>
           /\ pc'[v] = pc[v] /\ batch'[v] = batch[v] /\ run'[v] = run[v]
           /\ errMsg'[v] = errMsg[v] /\ seen'[v] = seen[v]
  BY DEF Crash, Restart, Goes, server, table, effects, history, IInv, TypeOK
<1>2. \A v \in Workers : v # w => \A x : At(v, x)' = At(v, x)
  BY <1>1, AtStays
<1>3. RunsBegun' /\ \A x \in Stamps : <<w, run'[w]>> \notin applied[x]
  <2>1. run[w] \in Nat
    BY DEF IInv, TypeOK
  <2>2. \A x \in Stamps, n \in Nat : <<w, n>> \in applied[x] => n <= run[w]
    BY DEF IInv, RunsBegun
  <2>3. \A x \in Stamps : <<w, run[w] + 1>> \notin applied[x]
    BY <2>1, <2>2
  <2>4. \A x \in Stamps, n \in Nat : <<w, n>> \in applied[x] => n <= run'[w]
    BY <1>1, <2>1, <2>2
  <2> QED
    BY <1>1, <2>3, <2>4 DEF IInv, RunsBegun
<1>4. RunIsMarked' /\ HeldIsFresh'
  BY <1>1, <1>2, <1>3 DEF IInv, RunIsMarked, HeldIsFresh
<1>5. SeenIsCovered' /\ MarkedIsHandled' /\ Deletes'
  BY <1>1 DEF IInv, SeenIsCovered, MarkedIsHandled, Deletes, Deleting, IsString, Found
<1>6. ErrMsgIsOwn'
  BY <1>1, <1>2 DEF IInv, ErrMsgIsOwn
<1> QED
  BY <1>3, <1>4, <1>5, <1>6

LEMMA IInvNext == IInv /\ [Next]_vars => IInv'
<1> SUFFICES ASSUME IInv, [Next]_vars
             PROVE  IInv'
  OBVIOUS
<1>1. TypeOK' /\ Arrived'
  BY NextTyped DEF IInv
<1>2. /\ RunsBegun' /\ RunIsMarked' /\ HeldIsFresh' /\ SeenIsCovered'
      /\ ErrMsgIsOwn' /\ MarkedIsHandled' /\ Deletes'
  <2>1. CASE UNCHANGED vars
    BY <2>1 DEF vars, server, table, effects, history, IInv, RunsBegun, RunIsMarked, HeldIsFresh,
                SeenIsCovered, ErrMsgIsOwn, MarkedIsHandled, Deletes, Deleting,
                IsString, At, Found
  <2>2. CASE Receive \/ \E e \in Stamps : CreateInboxEvent(e)
    BY <2>2, ServerKeeps
  <2>3. CASE \E w \in Workers : DeliveryTick(w) \/ DeliveryDone(w) \/ InboxTick(w) \/ Crash(w)
    BY <2>3, DeliveriesKeep, InboxTickKeeps, CrashKeeps
  <2>4. CASE \E w \in Workers, e \in Stamps : ProcessEvent(w, e) \/ MarkInboxEventProcessed(w, e)
    BY <2>4, EventsAreHandled, HandlingKeeps, MarkKeeps
  <2> QED
    BY <2>1, <2>2, <2>3, <2>4 DEF Next
<1> QED
  BY <1>1, <1>2 DEF IInv

LEMMA Invariance == Spec => []IInv
  BY IInvInit, IInvNext, PTL DEF Spec
-----------------------------------------------------------------------------
(* What follows from it                                                    *)

\* A worker handles an event again only after a crash or a failed write of
\* its own, however many workers there are and however old its batch is.
THEOREM EventsAreHandledOncePerRun == Spec => []OncePerRun
<1>1. IInv => OncePerRun
  BY DEF IInv, HeldIsFresh, OncePerRun
<1> QED
  BY <1>1, Invariance, PTL

\* When a worker is at a row, all older rows that were stored when it read
\* its batch have been handled, for any limit and any number of workers.
THEOREM OldestAreHandledFirst == Spec => []OlderFirst
<1>1. IInv => OlderFirst
  <2> SUFFICES ASSUME IInv, NEW w \in Workers, NEW e \in Stamps,
                      pc[w] \in {"row", "fetch", "mark"}, At(w, e), NEW x \in seen[w], x < e
               PROVE  applied[x] # {}
    BY DEF OlderFirst
  <2>1. x \in Stamps /\ x \in Int /\ e \in Int
    BY StampsAreNumbers DEF IInv, TypeOK
  <2>2. x \notin batch[w]
    BY <2>1 DEF At
  <2>3. ~ \A y \in batch[w] : y < x
    BY <2>1 DEF At
  <2> QED
    BY <2>2, <2>3 DEF IInv, SeenIsCovered
<1> QED
  BY <1>1, Invariance, PTL

\* A Delete that names its post by a plain string, is marked without an error
\* and had no failure dropped has deleted the post.
THEOREM DeletesTakeEffect == Spec => []DeleteTakesEffect
<1>1. IInv => DeleteTakesEffect
  <2> SUFFICES ASSUME IInv, NEW e \in processed, activity[e].type = "Delete", Found(e),
                      IsString(e), verdict[e] = NoError, "dropped" \notin outcomes[e]
               PROVE  activity[e].object \in deleted
    BY DEF DeleteTakesEffect
  <2>1. e \in Stamps /\ activity[e] \in Activities /\ outcomes[e] \subseteq Results
    BY DEF IInv, TypeOK, Arrived
  <2>2. PICK r \in outcomes[e] : verdict[e] = Verdict(r)
    BY DEF IInv, MarkedIsHandled
  <2>3. r = "ok"
    BY <2>1, <2>2 DEF Verdict, NoError, Results
  <2> QED
    BY <2>1, <2>2, <2>3 DEF IInv, Deletes, Deleting
<1> QED
  BY <1>1, Invariance, PTL

\* The workers implement the contract: every step of theirs and of the server
\* accepts, handles or settles one activity, or does none of it.
THEOREM InboxImplementsContract == Spec => ImplementsContract
<1>1. Init => Contract!Init
  BY DEF Init, Contract!Init
<1>2. IInv /\ [Next]_vars => [Contract!Next]_(Contract!vars)
  <2> SUFFICES ASSUME IInv, [Next]_vars
               PROVE  Contract!Next \/ UNCHANGED Contract!vars
    OBVIOUS
  <2>1. CASE UNCHANGED vars
    BY <2>1 DEF vars, table, history, Contract!vars
  <2>2. CASE Receive
    BY <2>2 DEF Receive, table, history, Contract!vars
  <2>3. ASSUME NEW e \in Stamps, CreateInboxEvent(e)
        PROVE  Contract!Next \/ UNCHANGED Contract!vars
    BY <2>3 DEF CreateInboxEvent, history, Contract!vars, Contract!Next, Contract!Accept
  <2>4. ASSUME NEW w \in Workers, DeliveryTick(w) \/ DeliveryDone(w) \/ InboxTick(w) \/ Crash(w)
        PROVE  UNCHANGED Contract!vars
    BY <2>4 DEF DeliveryTick, DeliveryDone, InboxTick, Crash, table, history, Contract!vars
  <2>5. ASSUME NEW w \in Workers, NEW e \in Stamps, ProcessEvent(w, e)
        PROVE  Contract!Next \/ UNCHANGED Contract!vars
    <3>1. Handling(w, e)
      BY <2>5, EventsAreHandled
    <3>2. UNCHANGED <<stored, processed, verdict>> /\ e \in stored
      BY <3>1 DEF Handling, table, At, IInv, TypeOK
    <3>3. ASSUME NEW r \in Results, Returns(w, e, r)
          PROVE  Contract!Handle(e)
      BY <3>2, <3>3 DEF Returns, Contract!Handle
    <3>4. CASE UNCHANGED <<errMsg, history, faults>>
      BY <3>2, <3>4 DEF history, Contract!vars
    <3> QED
      BY <3>1, <3>3, <3>4 DEF Handling, Contract!Next
  <2>6. ASSUME NEW w \in Workers, NEW e \in Stamps, MarkInboxEventProcessed(w, e)
        PROVE  Contract!Next \/ UNCHANGED Contract!vars
    <3>1. UNCHANGED <<stored, outcomes>>
      BY <2>6 DEF MarkInboxEventProcessed, history
    <3>2. PICK r \in outcomes[e] : errMsg[w] = Verdict(r)
      BY <2>6 DEF MarkInboxEventProcessed, IInv, ErrMsgIsOwn
    <3>3. CASE processed' = processed \cup {e} /\ verdict' = [verdict EXCEPT ![e] = errMsg[w]]
      BY <3>1, <3>2, <3>3 DEF Contract!Next, Contract!Settle
    <3>4. CASE UNCHANGED <<processed, verdict>>
      BY <3>1, <3>4 DEF Contract!vars
    <3> QED
      BY <2>6, <3>3, <3>4 DEF MarkInboxEventProcessed
  <2> QED
    BY <2>1, <2>2, <2>3, <2>4, <2>5, <2>6 DEF Next
<1> QED
  BY <1>1, <1>2, Invariance, PTL DEF Spec, ImplementsContract, Contract!Spec
-----------------------------------------------------------------------------
(* How often an event may be handled                                       *)

\* The runs the workers have begun.
Begun == {x \in Workers \X Nat : x[2] <= run[x[1]]}

\* Every run but the first of each worker began with a fault.
RunsAreFaults == IsFiniteSet(Begun) /\ Cardinality(Begun) <= Cardinality(Workers) + faults

LEMMA RunsInit == IsFiniteSet(Workers) /\ Init => RunsAreFaults
<1> SUFFICES ASSUME IsFiniteSet(Workers), Init PROVE RunsAreFaults
  OBVIOUS
<1>1. Begun = Workers \X {0}
  BY DEF Init, Begun
<1>2. IsFiniteSet({0}) /\ Cardinality({0}) = 1
  BY FS_Singleton
<1>3. IsFiniteSet(Begun) /\ Cardinality(Begun) = Cardinality(Workers) * 1
  BY <1>1, <1>2, FS_Product
<1>4. Cardinality(Workers) \in Nat /\ faults = 0
  BY FS_CardinalityType DEF Init
<1>5. QED
  BY <1>3, <1>4 DEF RunsAreFaults

\* A restart begins one run and costs one fault; nothing else begins any.
LEMMA RunsStep ==
  ASSUME IsFiniteSet(Workers), TypeOK, RunsAreFaults, [Next]_vars
  PROVE  RunsAreFaults'
<1> USE DEF TypeOK
<1>1. Cardinality(Workers) \in Nat /\ Cardinality(Begun) \in Nat /\ faults \in Nat
  BY FS_CardinalityType DEF RunsAreFaults
<1>2. ASSUME run' = run, faults' \in {faults, faults + 1} PROVE RunsAreFaults'
  <2>1. Begun' = Begun
    BY <1>2 DEF Begun
  <2>2. QED
    BY <1>1, <1>2, <2>1 DEF RunsAreFaults
<1>3. ASSUME NEW w \in Workers, Restart(w) PROVE RunsAreFaults'
  <2>1. faults' = faults + 1
    BY <1>3 DEF Restart, Fault
  <2>2. run[w] \in Nat /\ run' = [run EXCEPT ![w] = @ + 1]
    BY <1>3 DEF Restart
  <2>3. Begun' = Begun \cup {<<w, run[w] + 1>>}
    <3>1. ASSUME NEW v \in Workers, NEW n \in Nat
          PROVE  n <= run'[v] <=> n <= run[v] \/ (v = w /\ n = run[w] + 1)
      <4>1. run[v] \in Nat
        OBVIOUS
      <4>2. CASE v = w
        BY <2>2, <4>1, <4>2
      <4>3. CASE v # w
        BY <2>2, <4>3
      <4>4. QED
        BY <4>2, <4>3
    <3>2. run[w] + 1 \in Nat
      BY <2>2
    <3>3. QED
      BY <3>1, <3>2 DEF Begun
  <2>4. IsFiniteSet(Begun') /\ Cardinality(Begun') <= Cardinality(Begun) + 1
    <3>1. IsFiniteSet(Begun)
      BY DEF RunsAreFaults
    <3>2. /\ IsFiniteSet(Begun \cup {<<w, run[w] + 1>>})
          /\ Cardinality(Begun \cup {<<w, run[w] + 1>>})
               = IF <<w, run[w] + 1>> \in Begun THEN Cardinality(Begun) ELSE Cardinality(Begun) + 1
      BY <3>1, FS_AddElement
    <3>3. QED
      BY <1>1, <2>3, <3>2
  <2>5. Cardinality(Begun') \in Nat
    BY <2>4, FS_CardinalityType
  <2>6. QED
    BY <1>1, <2>1, <2>4, <2>5 DEF RunsAreFaults
<1>4. ASSUME NEW w \in Workers, NEW e \in Stamps, ProcessEvent(w, e) PROVE RunsAreFaults'
  <2>1. Handling(w, e)
    BY <1>4, EventsAreHandled
  <2>2. QED
    BY <1>2, <2>1 DEF Handling, Returns, Fault
<1>5. ASSUME NEW w \in Workers, NEW e \in Stamps, MarkInboxEventProcessed(w, e) PROVE RunsAreFaults'
  BY <1>2, <1>3, <1>5 DEF MarkInboxEventProcessed
<1>6. QED
  BY <1>2, <1>3, <1>4, <1>5 DEF Next, vars, Receive, CreateInboxEvent, Fault, DeliveryTick,
     DeliveryDone, InboxTick, Crash

\* An event is handled by each worker once and once more for each fault, at
\* most, whatever the number of workers and however old the batches they work
\* on.  (applied counts the handlings, for OncePerRun holds.)
THEOREM HandlingsAreBounded ==
  ASSUME IsFiniteSet(Workers)
  PROVE  Spec => [](\A e \in Stamps : Cardinality(applied[e]) <= Cardinality(Workers) + faults)
<1>1. IInv /\ RunsAreFaults =>
        \A e \in Stamps : Cardinality(applied[e]) <= Cardinality(Workers) + faults
  <2> SUFFICES ASSUME IInv, RunsAreFaults, NEW e \in Stamps
               PROVE  Cardinality(applied[e]) <= Cardinality(Workers) + faults
    OBVIOUS
  <2>1. applied[e] \subseteq Begun
    BY DEF IInv, TypeOK, RunsBegun, Begun
  <2>2. Cardinality(applied[e]) <= Cardinality(Begun) /\ IsFiniteSet(applied[e])
    BY <2>1, FS_Subset DEF RunsAreFaults
  <2>3. /\ Cardinality(applied[e]) \in Nat /\ Cardinality(Begun) \in Nat
        /\ Cardinality(Workers) \in Nat /\ faults \in Nat
    BY <2>2, FS_CardinalityType DEF RunsAreFaults, IInv, TypeOK
  <2>4. QED
    BY <2>2, <2>3 DEF RunsAreFaults
<1>2. TypeOK /\ RunsAreFaults /\ [Next]_vars => RunsAreFaults'
  BY RunsStep
<1>3. Init => RunsAreFaults
  BY RunsInit
<1>4. QED
  BY <1>1, <1>2, <1>3, Invariance, TypeCorrect, PTL DEF Spec

-----------------------------------------------------------------------------
(* Cause and effect                                                        *)

\* An activity on account of which ensureRemoteActor is called.
Fetching(e) ==
  activity[e].type \in {"Follow", "Like", "Announce"} /\ IsString(e) /\ Found(e)

\* A worker that waits for a document is at such an activity.
FetchesForRow ==
  \A w \in Workers : pc[w] = "fetch" => \A e \in Stamps : At(w, e) => Fetching(e)

\* The effects have their cause in an event that was handled.  (The actor that
\* is stored need not be the one the event names.)
Caused ==
  /\ \A o \in deleted :
       \E e \in stored : Deleting(e) /\ activity[e].object = o /\ applied[e] # {}
  /\ known # {} => \E e \in stored : Fetching(e) /\ applied[e] # {}

\* A stored event keeps its activity and what has handled it.
LEMMA CausesStay ==
  ASSUME IInv, [Next]_vars, NEW e \in stored
  PROVE  /\ e \in stored' /\ activity'[e] = activity[e]
         /\ applied[e] # {} => applied'[e] # {}
<1>1. e \in Stamps /\ e <= clock /\ clock \in Nat /\ e \in Int
  BY StampsAreNumbers DEF IInv, TypeOK, Arrived
<1>2. CASE Receive
  BY <1>1, <1>2 DEF Receive, table, history, IInv, TypeOK
<1>3. ASSUME NEW w \in Workers, NEW x \in Stamps, ProcessEvent(w, x)
      PROVE  e \in stored' /\ activity'[e] = activity[e] /\ (applied[e] # {} => applied'[e] # {})
  <2>1. Handling(w, x)
    BY <1>3, EventsAreHandled
  <2>2. QED
    BY <1>1, <2>1 DEF Handling, Returns, server, table, history, IInv, TypeOK
<1>4. QED
  BY <1>2, <1>3 DEF Next, vars, server, table, history, CreateInboxEvent, DeliveryTick,
     DeliveryDone, InboxTick, Crash, MarkInboxEventProcessed

\* What an event is stays what it is.
LEMMA KindsStay ==
  ASSUME NEW e, activity'[e] = activity[e]
  PROVE  Deleting(e)' = Deleting(e) /\ Fetching(e)' = Fetching(e)
  BY DEF Deleting, Fetching, IsString, Found

\* A worker begins to wait for a document only at an activity that needs it.
LEMMA FetchesStep ==
  ASSUME IInv, FetchesForRow, [Next]_vars
  PROVE  FetchesForRow'
<1> SUFFICES ASSUME NEW v \in Workers, (pc[v] = "fetch")', NEW x \in Stamps, At(v, x)'
             PROVE  Fetching(x)'
  BY DEF FetchesForRow
<1>1. ASSUME NEW w \in Workers, NEW e \in Stamps, ProcessEvent(w, e)
      PROVE  Fetching(x)'
  <2>1. Handling(w, e)
    BY <1>1, EventsAreHandled
  <2>2. batch' = batch /\ activity' = activity
    BY <2>1 DEF Handling, server
  <2>3. At(v, x) /\ Fetching(x)' = Fetching(x)
    BY <2>2, KindsStay DEF At
  <2>4. CASE v # w
    <3>1. pc[v] = "fetch"
      BY <2>1, <2>4 DEF Handling, Returns, Goes, IInv, TypeOK
    <3> QED
      BY <2>3, <3>1 DEF FetchesForRow
  <2>5. CASE v = w
    <3>1. x = e
      BY <2>1, <2>3, <2>5, AtIsUnique DEF Handling, IInv
    <3>2. ~ \E r \in Results : Returns(w, e, r)
      BY <2>5 DEF Returns, Goes, IInv, TypeOK
    <3>3. \/ HandleFollow(w, e) /\ IsString(e) /\ Found(e) /\ EnsureRemoteActor(w, e)
          \/ HandleReaction(w, e) /\ IsString(e) /\ Found(e) /\ EnsureRemoteActor(w, e)
      BY <1>1, <3>2 DEF ProcessEvent, HandleFollow, HandleReaction, HandleCreate, HandleDelete,
         HandleAnswer, Answers, FetchActor, Results
    <3>4. Fetching(e)
      BY <3>3 DEF HandleFollow, HandleReaction, Dispatches, Fetching
    <3> QED
      BY <2>3, <3>1, <3>4
  <2> QED
    BY <2>4, <2>5
<1>2. ASSUME NEW w \in Workers, NEW e \in Stamps, MarkInboxEventProcessed(w, e)
      PROVE  Fetching(x)'
  <2>1. /\ activity' = activity /\ v # w /\ pc[v] = "fetch" /\ batch'[v] = batch[v]
    BY <1>2 DEF MarkInboxEventProcessed, NextRow, Goes, server, IInv, TypeOK
  <2> QED
    BY <2>1, KindsStay DEF FetchesForRow, At
<1>3. ASSUME NEW w \in Workers, DeliveryTick(w) \/ DeliveryDone(w) \/ InboxTick(w) \/ Crash(w)
      PROVE  Fetching(x)'
  <2>1. activity' = activity /\ v # w /\ pc[v] = "fetch" /\ batch'[v] = batch[v]
    BY <1>3 DEF DeliveryTick, DeliveryDone, InboxTick, Crash, Goes, server, IInv, TypeOK
  <2> QED
    BY <2>1, KindsStay DEF FetchesForRow, At
<1>4. CASE Receive \/ (\E e \in Stamps : CreateInboxEvent(e)) \/ UNCHANGED vars
  <2>1. pc' = pc /\ batch' = batch
    BY <1>4 DEF Receive, CreateInboxEvent, vars
  <2>2. At(v, x) /\ Fetching(x)
    BY <2>1 DEF At, FetchesForRow
  <2>3. x \in stored
    BY <2>2 DEF At, IInv, TypeOK
  <2>4. activity'[x] = activity[x]
    BY <2>3, CausesStay
  <2> QED
    BY <2>2, <2>4, KindsStay
<1>5. QED
  BY <1>1, <1>2, <1>3, <1>4 DEF Next

\* Handling an event deletes what the event names, if it is a Delete, and
\* stores an actor, if it is one that needs it, or has no effect.
LEMMA EffectsAreOwn ==
  ASSUME IInv, FetchesForRow, NEW w \in Workers, NEW e \in Stamps, ProcessEvent(w, e)
  PROVE  /\ \A o \in deleted' \ deleted : Deleting(e) /\ activity[e].object = o
         /\ known' # known => Fetching(e)
         /\ (deleted' # deleted \/ known' # known) => \E r \in Results : Returns(w, e, r)
<1>1. CASE HandleDelete(w, e)
  BY <1>1 DEF HandleDelete, Dispatches, Results, Deleting
<1>2. CASE FetchActor(w, e)
  <2>1. Fetching(e)
    BY <1>2 DEF FetchActor, FetchesForRow
  <2> QED
    BY <1>2, <2>1 DEF FetchActor, Results
<1>3. QED
  BY <1>1, <1>2 DEF ProcessEvent, HandleFollow, HandleReaction, HandleCreate, HandleAnswer, effects

\* A post is deleted only by a Delete that names it by a plain string and was
\* handled, and remote actors are stored only once a Follow, Like or Announce
\* of something that is there was handled, whatever the workers handle twice
\* or lose.
THEOREM EffectsHaveCauses == Spec => []Caused
<1>1. Init => Caused /\ FetchesForRow
  BY DEF Init, Caused, FetchesForRow
<1>2. IInv /\ FetchesForRow /\ Caused /\ [Next]_vars => Caused'
  <2> SUFFICES ASSUME IInv, FetchesForRow, Caused, [Next]_vars PROVE Caused'
    OBVIOUS
  <2>1. ASSUME NEW o \in deleted
        PROVE  \E x \in stored' : Deleting(x)' /\ activity'[x].object = o /\ applied'[x] # {}
    <3>1. PICK x \in stored : Deleting(x) /\ activity[x].object = o /\ applied[x] # {}
      BY DEF Caused
    <3>2. x \in stored' /\ activity'[x] = activity[x] /\ applied'[x] # {}
      BY <3>1, CausesStay
    <3> QED
      BY <3>1, <3>2, KindsStay
  <2>2. ASSUME known # {}
        PROVE  \E x \in stored' : Fetching(x)' /\ applied'[x] # {}
    <3>1. PICK x \in stored : Fetching(x) /\ applied[x] # {}
      BY <2>2 DEF Caused
    <3>2. x \in stored' /\ activity'[x] = activity[x] /\ applied'[x] # {}
      BY <3>1, CausesStay
    <3> QED
      BY <3>1, <3>2, KindsStay
  <2>3. CASE UNCHANGED effects
    BY <2>1, <2>2, <2>3 DEF Caused, effects
  <2>4. ASSUME NEW w \in Workers, NEW e \in Stamps, ProcessEvent(w, e), ~UNCHANGED effects
        PROVE  Caused'
    <3>1. PICK r \in Results : Returns(w, e, r)
      BY <2>4, EffectsAreOwn DEF effects
    <3>2. e \in stored
      <4>1. Handling(w, e)
        BY <2>4, EventsAreHandled
      <4>2. QED
        BY <4>1 DEF Handling, At, IInv, TypeOK
    <3>3. applied'[e] # {} /\ e \in stored' /\ activity'[e] = activity[e]
      <4>1. applied'[e] = applied[e] \cup {<<w, run[w]>>}
        BY <3>1 DEF Returns, IInv, TypeOK
      <4>2. QED
        BY <3>2, <4>1, CausesStay
    <3>4. ASSUME NEW o \in deleted'
          PROVE  \E x \in stored' : Deleting(x)' /\ activity'[x].object = o /\ applied'[x] # {}
      <4>1. CASE o \notin deleted
        <5>1. Deleting(e) /\ activity[e].object = o
          BY <2>4, <4>1, EffectsAreOwn
        <5> QED
          BY <3>3, <5>1, KindsStay
      <4>2. QED
        BY <2>1, <4>1
    <3>5. ASSUME known' # {}
          PROVE  \E x \in stored' : Fetching(x)' /\ applied'[x] # {}
      <4>1. CASE known = {}
        <5>1. Fetching(e)
          BY <2>4, <3>5, <4>1, EffectsAreOwn
        <5> QED
          BY <3>3, <5>1, KindsStay
      <4>2. QED
        BY <2>2, <4>1
    <3>6. QED
      BY <3>4, <3>5 DEF Caused
  <2>5. QED
    BY <2>3, <2>4 DEF Next, vars, Receive, CreateInboxEvent, DeliveryTick, DeliveryDone,
       InboxTick, Crash, MarkInboxEventProcessed
<1>3. IInv /\ FetchesForRow /\ [Next]_vars => FetchesForRow'
  BY FetchesStep
<1>4. QED
  BY <1>1, <1>2, <1>3, Invariance, PTL DEF Spec

\* What the contract is for: a settled event was handled and stays settled,
\* and the error that is kept for it is always that of one of its handlings.
THEOREM SettledForGood ==
  Spec => []MarkedIsHandled /\ [][processed \subseteq processed']_vars
<1>1. IInv => MarkedIsHandled
  BY DEF IInv
<1>2. [Next]_vars => [processed \subseteq processed']_vars
  <2> SUFFICES ASSUME Next PROVE processed \subseteq processed'
    OBVIOUS
  <2>1. ASSUME NEW w \in Workers, NEW e \in Stamps, ProcessEvent(w, e)
        PROVE  processed \subseteq processed'
    BY <2>1, EventsAreHandled DEF Handling, table
  <2>2. QED
    BY <2>1 DEF Next, Receive, CreateInboxEvent, DeliveryTick, DeliveryDone, InboxTick, Crash,
       MarkInboxEventProcessed, table
<1>3. QED
  BY <1>1, <1>2, Invariance, PTL DEF Spec
-----------------------------------------------------------------------------
(* The half of EventuallyProcessed that is about states                    *)

\* A worker that is not waiting for a tick has a row.
Busy == \A w \in Workers : pc[w] \in {"row", "fetch", "mark"} => batch[w] # {}

LEMMA BusyStep ==
  ASSUME IInv, Busy, [Next]_vars
  PROVE  Busy'
<1> USE DEF IInv, TypeOK
<1>1. ASSUME NEW w \in Workers, NEW e \in Stamps, ProcessEvent(w, e) PROVE Busy'
  <2>1. Handling(w, e)
    BY <1>1, EventsAreHandled
  <2>2. batch' = batch /\ pc[w] \in {"row", "fetch"} /\ \A v \in Workers \ {w} : pc'[v] = pc[v]
    BY <2>1 DEF Handling, Returns, Goes
  <2>3. QED
    BY <2>2 DEF Busy
<1>2. ASSUME NEW w \in Workers, NEW e \in Stamps, MarkInboxEventProcessed(w, e) PROVE Busy'
  <2>1. e \in batch[w] /\ batch' = [batch EXCEPT ![w] = @ \ {e}]
        /\ pc' = [pc EXCEPT ![w] = IF batch[w] = {e} THEN "idle" ELSE "row"]
    BY <1>2 DEF MarkInboxEventProcessed, NextRow, Goes, At
  <2>2. pc'[w] = "row" => batch'[w] # {}
    BY <2>1
  <2>3. QED
    BY <2>1, <2>2 DEF Busy
<1>3. ASSUME NEW w \in Workers, DeliveryTick(w) \/ DeliveryDone(w) \/ InboxTick(w) \/ Crash(w)
      PROVE  Busy'
  BY <1>3 DEF DeliveryTick, DeliveryDone, InboxTick, IsBatch, Crash, Goes, Busy
<1>4. CASE Receive \/ (\E e \in Stamps : CreateInboxEvent(e)) \/ UNCHANGED vars
  BY <1>4 DEF Receive, CreateInboxEvent, vars, Busy
<1>5. QED
  BY <1>1, <1>2, <1>3, <1>4 DEF Next

\* A tick finds a batch whenever a row is unprocessed, and a worker in the
\* middle of a batch is at a row whose type it has a handler for: nothing
\* that would process an event ever waits for something that does not come.
NobodyStuck ==
  /\ Unprocessed # {} => \E S \in SUBSET Unprocessed : IsBatch(S, Unprocessed)
  /\ \A w \in Workers : pc[w] \in {"row", "fetch", "mark"} =>
       \E e \in Stamps : At(w, e) /\ activity[e].type \in Types

\* For any number of workers, events and faults, and any batch limit.
THEOREM NobodyGetsStuck == Spec => []NobodyStuck
<1>1. Init => Busy
  BY DEF Init, Busy
<1>2. IInv /\ Busy /\ [Next]_vars => Busy'
  BY BusyStep
<1>3. IInv /\ Busy => NobodyStuck
  <2> SUFFICES ASSUME IInv, Busy PROVE NobodyStuck
    OBVIOUS
  <2>1. \A S : S \subseteq stored => \A e \in S : e \in Stamps /\ e \in Nat
    BY InboxAssumption DEF IInv, TypeOK, Stamps
  <2>2. ASSUME Unprocessed # {} PROVE \E S \in SUBSET Unprocessed : IsBatch(S, Unprocessed)
    <3> DEFINE rank == [e \in Unprocessed |-> e]
    <3>1. /\ rank \in [Unprocessed -> Nat]
          /\ \A x, y \in Unprocessed : rank[x] = rank[y] => x = y
      BY <2>1 DEF Unprocessed
    <3>2. \A x, y \in Unprocessed : rank[x] < rank[y] => x < y
      OBVIOUS
    <3> HIDE DEF rank
    <3>3. BatchLimit \in Nat /\ BatchLimit # 0
      BY InboxAssumption
    <3>4. PICK S \in SUBSET Unprocessed :
            /\ IsFiniteSet(S)
            /\ Cardinality(S) <= BatchLimit
            /\ S = Unprocessed \/ Cardinality(S) = BatchLimit
            /\ \A x \in S, y \in Unprocessed \ S : rank[x] < rank[y]
      BY <3>1, <3>3, FirstByRank
    <3>5. S # {}
      BY <2>2, <3>3, <3>4, FS_EmptySet
    <3>6. IsBatch(S, Unprocessed)
      BY <3>2, <3>4, <3>5 DEF IsBatch
    <3> QED
      BY <3>6
  <2>3. ASSUME NEW w \in Workers, pc[w] \in {"row", "fetch", "mark"}
        PROVE  \E e \in Stamps : At(w, e) /\ activity[e].type \in Types
    <3>1. batch[w] # {} /\ batch[w] \subseteq stored
      BY <2>3 DEF Busy, IInv, TypeOK
    <3>2. batch[w] \in SUBSET Nat
      BY <2>1, <3>1
    <3>3. PICK e \in batch[w] : \A x \in batch[w] : e <= x
      BY <3>1, <3>2, SmallestOfSet
    <3>4. At(w, e) /\ e \in Stamps /\ activity[e] \in Activities
      BY <2>1, <3>1, <3>3 DEF At, IInv, Arrived
    <3> QED
      BY <3>4 DEF Activities
  <2> QED
    BY <2>2, <2>3 DEF NobodyStuck
<1> QED
  BY <1>1, <1>2, <1>3, Invariance, PTL DEF Spec
=============================================================================
