------------------------------- MODULE Social -------------------------------
(***************************************************************************)
(* The social graph: the follows, blocks and remote_actors tables, the     *)
(* shell commands that write them (internal/commands/follow.go, block.go,  *)
(* user.go) and what the inbox worker makes of a Follow or an Accept that  *)
(* a remote server sends (internal/activitypub/inbox.go).                  *)
(*                                                                         *)
(* A user may be logged in several times, so the sessions of one user run  *)
(* their commands at the same time.  Every command first looks whether the *)
(* row it is about is there and writes later, one statement at a time,     *)
(* with no transaction; follows has no UNIQUE constraint, blocks has one.  *)
(*                                                                         *)
(* follows.follower_id refers to users.  The rows handleFollow would       *)
(* insert, with a remote actor as follower, are all refused, so nothing it *)
(* does after that insert is ever reached, and no local user ever has a    *)
(* follow request to accept or reject.  Undo finds no such row either.     *)
(***************************************************************************)
EXTENDS Integers, FiniteSets

CONSTANTS
  Users,         \* local users
  Remotes,       \* actors of other servers, by their ActivityPub id
  Sessions,      \* shell sessions
  Owner,         \* the user each session is logged in as
  Workers,       \* federation workers, which process inbox events
  Nil,           \* NULL in a column; no command, no event
  FollowBound,   \* bound on the follow commands that get past their check
  ActorBound,    \* bound on the ids made up for remote actors
  FaultBound     \* bound on crashes and failed writes whose error is dropped

ASSUME SocialAssumption ==
  /\ Owner \in [Sessions -> Users]
  /\ FollowBound \in Nat
  /\ ActorBound \in Nat
  /\ FaultBound \in Nat
  /\ IsFiniteSet(Sessions)

VARIABLES
  follows,    \* the follows table, a set of rows; ids in the order of insertion
  blocks,     \* the blocks table, pairs <<blocker, blocked>>
  actors,     \* remote_actors: the id of each actor's row, or NoId
  cmd,        \* what each session is in the middle of
  event,      \* the actor each worker is fetching, or Nil
  made,       \* follow ids used so far
  minted,     \* ids made up for remote actors so far
  announced,  \* follows that were notified, or queued for the remote server
  lost,       \* history: follows whose announcement failed or was cut short
  madeFor,    \* history: pairs of an id and the actor it was made up for
  answered,   \* history: follows whose Accept the worker has processed
  since,      \* history: the follow ids used when each block was inserted
  cut,        \* history: blocks whose unfollowing was cut short
  faults      \* crashes and dropped errors so far

vars == <<follows, blocks, actors, cmd, event, made, minted,
          announced, lost, madeFor, answered, since, cut, faults>>

NoId == 0
Ids == Nat \ {NoId}
Pairs == Users \X Users

\* following_id or following_remote_id is set, the other is NULL.
FollowRow == [id : Ids, follower : Users, following : Users \cup {Nil},
              remote : Ids \cup {NoId}, state : {"pending", "accepted"}]

Command ==
       [op : {"follow", "block", "unfollow", "sever", "unblock"}, target : Users]
  \cup [op : {"follow_remote"}, remote : Ids]
  \cup [op : {"notify", "deliver"}, id : Ids]

ASSUME NilAssumption == Nil \notin Users \cup Remotes \cup Command

TypeOK ==
  /\ follows \in SUBSET FollowRow
  /\ blocks \in SUBSET Pairs
  /\ actors \in [Remotes -> Ids \cup {NoId}]
  /\ cmd \in [Sessions -> Command \cup {Nil}]
  /\ event \in [Workers -> Remotes \cup {Nil}]
  /\ made \in Nat
  /\ minted \in Nat
  /\ announced \in SUBSET Ids
  /\ lost \in SUBSET Ids
  /\ madeFor \in SUBSET (Ids \X Remotes)
  /\ answered \in SUBSET Ids
  /\ since \in [Pairs -> Nat]
  /\ cut \in SUBSET Pairs
  /\ faults \in Nat

Init ==
  /\ follows = {}
  /\ blocks = {}
  /\ actors = [r \in Remotes |-> NoId]
  /\ cmd = [s \in Sessions |-> Nil]
  /\ event = [w \in Workers |-> Nil]
  /\ made = 0
  /\ minted = 0
  /\ announced = {}
  /\ lost = {}
  /\ madeFor = {}
  /\ answered = {}
  /\ since = [p \in Pairs |-> 0]
  /\ cut = {}
  /\ faults = 0
-----------------------------------------------------------------------------
(* The tables                                                              *)

\* WHERE follower_id = u AND following_id = v
FollowsOf(u, v) == {f \in follows : f.follower = u /\ f.following = v}

\* Mutant: the id is the one of the row before.
CreateFollowStaleId(u, v, r, st) ==
  /\ made' = made + 1
  /\ follows' = follows \cup
       {[id |-> made, follower |-> u, following |-> v, remote |-> r, state |-> st]}

\* CreateFollow, with the next id.
CreateFollow(u, v, r, st) ==
  /\ made' = made + 1
  /\ follows' = follows \cup
       {[id |-> made', follower |-> u, following |-> v, remote |-> r, state |-> st]}

DeleteFollow(u, v) == follows' = follows \ FollowsOf(u, v)

\* Mutant: the conflict clause writes the id as well.
UpsertId(r, n) == actors' = [actors EXCEPT ![r] = n]

\* CreateRemoteActor is an upsert by ap_id: a row that is there keeps its id.
\* (UNIQUE (username, domain) may refuse the row of another actor of that name.
\* The commands then end with nothing written, which is no step.)
CreateRemoteActor(r, n) == actors' = [actors EXCEPT ![r] = IF @ = NoId THEN n ELSE @]

\* The row that is built for the actor r of a document that was fetched has
\* an id of its own.
StoreActor(r) ==
  /\ minted < ActorBound
  /\ minted' = minted + 1
  /\ CreateRemoteActor(r, minted')
  /\ madeFor' = madeFor \cup {<<minted', r>>}
-----------------------------------------------------------------------------
(* The commands                                                            *)

Idle(s) == cmd[s] = Nil
Doing(s, op) == cmd[s] # Nil /\ cmd[s].op = op
Telling(s) == Doing(s, "notify") \/ Doing(s, "deliver")
Goes(s, c) == cmd' = [cmd EXCEPT ![s] = c]
Done(s) == Goes(s, Nil)

\* Follows that are past their check and not inserted yet.
Inserting == {s \in Sessions : Doing(s, "follow") \/ Doing(s, "follow_remote")}
MayStart == made + Cardinality(Inserting) < FollowBound

\* A write whose error the command drops, or only warns about.
Fault == faults < FaultBound /\ faults' = faults + 1

\* Mutant: nobody looks for a follow that is there already.
FollowLocalUnchecked(s, v) ==
  /\ Idle(s) /\ MayStart /\ v # Owner[s]
  /\ Goes(s, [op |-> "follow", target |-> v])
  /\ UNCHANGED <<follows, blocks, actors, event, made, minted, announced, lost, madeFor, answered, since, cut, faults>>

\* followLocal finds no follow ...
FollowLocal(s, v) ==
  /\ Idle(s)
  /\ MayStart
  /\ v # Owner[s]
  /\ FollowsOf(Owner[s], v) = {}
  /\ Goes(s, [op |-> "follow", target |-> v])
  /\ UNCHANGED <<follows, blocks, actors, event, made, minted, announced, lost, madeFor, answered, since, cut, faults>>

\* ... inserts one, accepted at once ...
FollowLocalInsert(s) ==
  /\ Doing(s, "follow")
  /\ CreateFollow(Owner[s], cmd[s].target, NoId, "accepted")
  /\ Goes(s, [op |-> "notify", id |-> made'])
  /\ UNCHANGED <<blocks, actors, event, minted, announced, lost, madeFor, answered, since, cut, faults>>

\* Mutant: the activity is not queued.
AnnounceLocal(s) ==
  /\ Telling(s)
  /\ announced' = IF Doing(s, "notify") THEN announced \cup {cmd[s].id} ELSE announced
  /\ Done(s)
  /\ UNCHANGED <<follows, blocks, actors, event, made, minted, lost, madeFor, answered, since, cut, faults>>

\* ... and tells the other user; followRemoteUser queues its activity.
Announce(s) ==
  /\ Telling(s)
  /\ \/ announced' = announced \cup {cmd[s].id} /\ UNCHANGED <<lost, faults>>
     \/ Fault /\ lost' = lost \cup {cmd[s].id} /\ UNCHANGED announced
  /\ Done(s)
  /\ UNCHANGED <<follows, blocks, actors, event, made, minted, madeFor, answered, since, cut>>

\* followRemoteUser stores the actor it looked up ...
FollowRemote(s, r) ==
  /\ Idle(s)
  /\ MayStart
  /\ StoreActor(r)
  /\ Goes(s, [op |-> "follow_remote", remote |-> minted'])
  /\ UNCHANGED <<follows, blocks, event, made, announced, lost, answered, since, cut, faults>>

\* ... and inserts a follow of the id it built, whether or not the row has it.
FollowRemoteInsert(s) ==
  /\ Doing(s, "follow_remote")
  /\ CreateFollow(Owner[s], Nil, cmd[s].remote, "pending")
  /\ Goes(s, [op |-> "deliver", id |-> made'])
  /\ UNCHANGED <<blocks, actors, event, minted, announced, lost, madeFor, answered, since, cut, faults>>

\* userLookup stores the actor it looked up and shows it.
UserLookup(s, r) ==
  /\ Idle(s)
  /\ StoreActor(r)
  /\ UNCHANGED <<follows, blocks, cmd, event, made, announced, lost, answered, since, cut, faults>>

\* followRemove of a local user.  That of a remote user writes nothing.
FollowRemove(s, v) ==
  /\ Idle(s)
  /\ DeleteFollow(Owner[s], v)
  /\ UNCHANGED <<blocks, actors, cmd, event, made, minted, announced, lost, madeFor, answered, since, cut, faults>>

\* blockAdd finds no block ...
BlockAdd(s, v) ==
  /\ Idle(s)
  /\ v # Owner[s]
  /\ <<Owner[s], v>> \notin blocks
  /\ Goes(s, [op |-> "block", target |-> v])
  /\ UNCHANGED <<follows, blocks, actors, event, made, minted, announced, lost, madeFor, answered, since, cut, faults>>

\* ... inserts one, unless another session has (UNIQUE) ...
BlockInsert(s) ==
  /\ Doing(s, "block")
  /\ LET p == <<Owner[s], cmd[s].target>>
     IN IF p \in blocks
        THEN Done(s) /\ UNCHANGED <<blocks, since, cut>>
        ELSE /\ blocks' = blocks \cup {p}
             /\ since' = [since EXCEPT ![p] = made]
             /\ cut' = cut \ {p}
             /\ Goes(s, [op |-> "unfollow", target |-> cmd[s].target])
  /\ UNCHANGED <<follows, actors, event, made, minted, announced, lost, madeFor, answered, faults>>

\* A DELETE that blockAdd drops the error of.
DropsFollow(s, u, v) ==
  \/ DeleteFollow(u, v) /\ UNCHANGED <<cut, faults>>
  \/ Fault /\ cut' = cut \cup {<<Owner[s], cmd[s].target>>} /\ UNCHANGED follows

\* ... makes the blocker unfollow ...
BlockUnfollow(s) ==
  /\ Doing(s, "unfollow")
  /\ DropsFollow(s, Owner[s], cmd[s].target)
  /\ Goes(s, [op |-> "sever", target |-> cmd[s].target])
  /\ UNCHANGED <<blocks, actors, event, made, minted, announced, lost, madeFor, answered, since>>

\* Mutant: the blocker's own follow is deleted twice.
SeverAgain(s) ==
  /\ Doing(s, "sever") /\ DropsFollow(s, Owner[s], cmd[s].target) /\ Done(s)
  /\ UNCHANGED <<blocks, actors, event, made, minted, announced, lost, madeFor, answered, since>>

\* ... and the blocked.
BlockSever(s) ==
  /\ Doing(s, "sever")
  /\ DropsFollow(s, cmd[s].target, Owner[s])
  /\ Done(s)
  /\ UNCHANGED <<blocks, actors, event, made, minted, announced, lost, madeFor, answered, since>>

\* blockRemove finds the block ...
BlockRemove(s, v) ==
  /\ Idle(s)
  /\ <<Owner[s], v>> \in blocks
  /\ Goes(s, [op |-> "unblock", target |-> v])
  /\ UNCHANGED <<follows, blocks, actors, event, made, minted, announced, lost, madeFor, answered, since, cut, faults>>

\* ... and deletes it.
Unblock(s) ==
  /\ Doing(s, "unblock")
  /\ blocks' = blocks \ {<<Owner[s], cmd[s].target>>}
  /\ Done(s)
  /\ UNCHANGED <<follows, actors, event, made, minted, announced, lost, madeFor, answered, since, cut, faults>>
-----------------------------------------------------------------------------
(* What the inbox brings                                                   *)

\* handleFollow for an actor it does not know: ensureRemoteActor finds no row
\* and fetches the actor ...
InboxFollow(w, r) ==
  /\ event[w] = Nil
  /\ actors[r] = NoId
  /\ event' = [event EXCEPT ![w] = r]
  /\ UNCHANGED <<follows, blocks, actors, cmd, made, minted, announced, lost, madeFor, answered, since, cut, faults>>

\* ... and stores the actor the document says it is.  The insert of the follow
\* fails, and so does the event.  The fetch may fail, or the row be refused.
InboxFollowStore(w) ==
  /\ event[w] # Nil
  /\ (\E r \in Remotes : StoreActor(r)) \/ UNCHANGED <<actors, minted, madeFor>>
  /\ event' = [event EXCEPT ![w] = Nil]
  /\ UNCHANGED <<follows, blocks, cmd, made, announced, lost, answered, since, cut, faults>>

\* What buildFollowActivity puts in the id of the Follow it sends, and what
\* uuidFromString makes of it: the id is a URL, which is no UUID.
ActivityId(f) == [form |-> "url", follow |-> f]
UuidFromString(object) == IF object.form = "uuid" THEN object.follow ELSE NoId

\* handleAccept, for the answer to a Follow that was sent.
InboxAccept(w, f) ==
  /\ event[w] = Nil
  /\ f \in announced \ answered
  /\ \E row \in follows : row.id = f /\ row.state = "pending"
  /\ LET id == UuidFromString(ActivityId(f))
     IN follows' = {IF row.id = id THEN [row EXCEPT !.state = "accepted"] ELSE row :
                    row \in follows}
  /\ answered' = answered \cup {f}
  /\ UNCHANGED <<blocks, actors, cmd, event, made, minted, announced, lost, madeFor, since, cut, faults>>

\* The process dies with everything its sessions and its worker were at.
Crash ==
  /\ Fault
  /\ lost' = lost \cup {cmd[s].id : s \in {t \in Sessions : Telling(t)}}
  /\ cut' = cut \cup {p \in Pairs : \E s \in Sessions :
                        /\ Doing(s, "unfollow") \/ Doing(s, "sever")
                        /\ p = <<Owner[s], cmd[s].target>>}
  /\ cmd' = [s \in Sessions |-> Nil]
  /\ event' = [w \in Workers |-> Nil]
  /\ UNCHANGED <<follows, blocks, actors, made, minted, announced, madeFor, answered, since>>

Next ==
  \/ \E s \in Sessions, v \in Users :
       FollowLocal(s, v) \/ FollowRemove(s, v) \/ BlockAdd(s, v) \/ BlockRemove(s, v)
  \/ \E s \in Sessions, r \in Remotes : FollowRemote(s, r) \/ UserLookup(s, r)
  \/ \E s \in Sessions :
       \/ FollowLocalInsert(s) \/ FollowRemoteInsert(s) \/ Announce(s)
       \/ BlockInsert(s) \/ BlockUnfollow(s) \/ BlockSever(s) \/ Unblock(s)
  \/ \E w \in Workers, r \in Remotes : InboxFollow(w, r)
  \/ \E w \in Workers : InboxFollowStore(w)
  \/ \E w \in Workers, f \in announced : InboxAccept(w, f)
  \/ Crash

Spec == Init /\ [][Next]_vars
-----------------------------------------------------------------------------
(* What holds of the graph                                                 *)

Blocking(p) ==
  \E s \in Sessions :
    /\ Doing(s, "unfollow") \/ Doing(s, "sever")
    /\ p = <<Owner[s], cmd[s].target>>

\* blockAdd leaves no follow in either direction that was there when it
\* inserted the block, whatever other sessions of both users follow, unfollow
\* or block meanwhile, unless it was cut short.  (A follow that is inserted
\* later stays: followLocal does not look at blocks.)
BlockSevers ==
  \A p \in blocks \ cut :
    ~Blocking(p) =>
      \A f \in FollowsOf(p[1], p[2]) \cup FollowsOf(p[2], p[1]) : f.id > since[p]

\* follows has no UNIQUE constraint and followLocal checks before it inserts:
\* a user has at most as many rows for one other user as sessions.
DuplicatesBounded ==
  \A u, v \in Users :
    Cardinality(FollowsOf(u, v)) <= Cardinality({s \in Sessions : Owner[s] = u})

\* A follow was told to the user it is about or queued for his server, or its
\* session is about to: the only follows that stay untold are those whose own
\* announcement failed or was cut short.
FollowIsAnnounced ==
  \A f \in follows :
    \/ f.id \in announced \cup lost
    \/ \E s \in Sessions : Telling(s) /\ cmd[s].id = f.id

\* A follow of a remote actor is never of one of whom nothing is stored: the
\* actor it was sent to has a row, and the follow has that row's id or, where
\* it names nobody, a younger one.  No race of two lookups, no crash between
\* storing the actor and inserting the follow, and no later upsert leaves a
\* follow without its actor or takes one away that it had.
FollowNamesItsActor ==
  \A f \in follows :
    f.remote # NoId =>
      \E r \in Remotes :
        <<f.remote, r>> \in madeFor /\ actors[r] # NoId /\ actors[r] <= f.remote

\* README.md:135: "Activities: `Follow`, `Accept`, ...".  A follow that the
\* remote server accepted is accepted here, once its Accept is processed.
AcceptTakesEffect == \A f \in follows : f.id \in answered => f.state = "accepted"
=============================================================================
