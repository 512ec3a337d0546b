# TLA+ models of CLIverse

CLIverse is a small Fediverse server that its users work in over SSH. This
directory holds TLA+ modules that model its logic, the TLC configurations that
check them on small instances, and proofs, checked by TLAPS, of what holds on
every instance. Paths below are relative to the repository's `src/`.

| file | what it is |
|---|---|
| `DeliveryContract.tla` | what outbound federation promises for each activity |
| `Delivery.tla`, `Delivery*.cfg` | the delivery queue, the Deliverer and the workers |
| `DeliveryProofs.tla` | theorems about `Delivery`, with the refinement of the contract |
| `Accounts.tla`, `AccountsMC.tla`, `Accounts*.cfg` | accounts, logins, moderation, maintenance mode |
| `AccountsProofs.tla` | theorems about `Accounts` |
| `Social.tla`, `SocialMC.tla`, `Social*.cfg` | follows, blocks, known remote actors |
| `SocialProofs.tla` | theorems about `Social` |
| `Posts.tla`, `PostsMC.tla`, `PostsRaces.cfg` | posts, replies, drafts, favourites, boosts, bookmarks, their notifications, threads |
| `PostsProofs.tla` | theorems about `Posts` |
| `InboxContract.tla` | what inbound federation promises for each activity |
| `Inbox.tla`, `InboxMC.tla`, `InboxWorkers.cfg` | the inbox handler, the event table and the workers that process it |
| `InboxProofs.tla` | theorems about `Inbox`, with the refinement of the contract |
| `Login.tla`, `LoginMC.tla`, `LoginLimit.cfg` | the login rate limiter and the SSH keys |
| `LoginProofs.tla` | theorems about `Login` |
| `InductionLemmas.tla` | induction over the natural numbers, first elements of ranked sets, and what a recursive function computes; used by the proofs |
| `PROJECT.json` | components, runs, mutants, source lines of every definition, hazards, findings, theorems |

## Running

    tlc -workers 2 -config DeliveryTwoWorkers.cfg Delivery.tla
    tlc -workers 2 -config AccountsRaces.cfg AccountsMC.tla
    tlc -workers 2 -config SocialRaces.cfg SocialMC.tla
    tlc -workers 2 -config PostsRaces.cfg PostsMC.tla
    tlc -workers 2 -config InboxWorkers.cfg InboxMC.tla
    tlc -workers 2 -config LoginLimit.cfg LoginMC.tla
    tlapm DeliveryProofs.tla

Each configuration is run with the module named beside it in `PROJECT.json`.
A definition whose comment begins with "Mutant" is not part of any specification:
it is a plausible bug. Put in the place of the definition that follows it, it
makes TLC find the property listed with it violated.

## The system

One PostgreSQL database is shared by two programs (`docker-compose.yml`):

* `cmd/cliverse` serves HTTP and SSH and also starts a federation worker
  (`cmd/cliverse/main.go:93`);
* `cmd/worker` is a second federation worker on the same tables.

No code path uses a transaction, a row lock or a `SELECT ... FOR UPDATE`. Every
statement commits alone, so the unit of atomicity in the models is one SQL
statement; what lies between a read and the write that relies on it can be
interleaved with anything.

| component | state | operations | interacts with |
|---|---|---|---|
| delivery queue, Deliverer, delivery worker (`federation/worker.go`, `activitypub/delivery.go`) | `federation_deliveries`; each worker's batch in memory | Deliver, QueueDelivery, poll, attempt, record | inbox worker and `follow add` enqueue; remote inboxes by HTTP |
| accounts, logins, sessions (`ssh/server.go`, `ssh/shell.go`, `commands/{profile,mod,admin}.go`) | `users`, `sessions`, `audit_logs`, `system_config`; each session's copy of its user | login, logout, `profile set`, `mod ...`, `admin ...` | all commands run on the session's copy |
| social graph (`commands/{follow,block,user}.go`) | `follows`, `blocks`, `remote_actors` | follow, unfollow, block, unblock, lookup | inbox worker; delivery queue; notifications |
| inbound federation (`activitypub/inbox.go`) | `inbox_events` | store an event; Follow, Accept, Reject, Create, Delete, Like, Announce, Undo | writes nearly every table; `sendAccept` uses the Deliverer |
| posts, replies, drafts (`commands/{post,draft}.go`) | `posts`, `drafts` | create, reply, delete, draft new/post/delete | timelines; silenced flag of the session's user |
| favourites, boosts, bookmarks, mutes | `likes`, `boosts`, `bookmarks`, `mutes` | add, remove | notifications; timelines |
| notifications, reports | `notifications`, `reports` | create, read, resolve | filled by follow, favourite, boost, mentions |
| login rate limiter (`auth/auth.go`) | counters with a time to live in Redis | check, record | login handlers |
| SSH keys (`commands/{settings,admin}.go`) | `ssh_keys` | add, import from a URL, remove | login by public key |
| domain policies (`commands/fed.go`) | `domain_policies` | block, silence, remove | nobody reads them |
| HTTP reads (actor, outbox, collections, WebFinger, NodeInfo), signatures, fetches, configuration | none | | |

What is hard here, and what each component must keep:

* **Two workers on one queue.** Each computes a row's new status and count from
  a copy that may be minutes old and writes it whatever the row holds. The queue
  must not lose an activity, give it up early, report what was not taken, or
  retry for ever.
* **Long-lived copies of a row.** A session works on the user row its login
  read and `UpdateUser` writes every column. Moderation, password resets and
  the existence of an admin must survive that.
* **Check, then write.** `follow add`, `block add`, `create_user`, `draft post`
  and the likes look first and write later; only some tables have a UNIQUE
  constraint that decides between two.
* **Several statements per command.** A crash or an error (often dropped)
  between them leaves the first without the second.
* **At-least-once input.** An inbox event is applied before it is marked
  processed, by two workers, in no guaranteed order with other events.
* **A counter outside the database.** The limiter reads it before a password is
  verified and counts after, over calls to Redis that may fail one by one.
* **Constraints nobody tested against.** Foreign keys and widths of the schema
  refuse some of the rows the inbox handlers build.

`PROJECT.json` lists every such place with its line under `hazards`, with the
properties that cover it, or a note saying why none does yet.

## Delivery

**State.** `status` and `attempts` are the columns of a row (an activity that has
no row yet, or never gets one, has a status of its own: `absent`, `unsent`,
`direct`, `dropped`); `order` is the order of `created_at`. `held[w][d]` is the
`Attempts` in worker `w`'s copy of row `d`, `phase` and `cur` are where its
goroutine stands. `posts`, `accepted`, `refused` are history of the exchange
with the remote server.

**Actions.** `Enqueue` (`followRemoteUser`), `DeliverUnbuildable`, `Deliver`,
`QueueDelivery` (the Deliverer inside inbox processing; what it cannot marshal, build a
request for or sign is `Unbuildable` and dropped), `Poll`
(`processDeliveries` reads a batch), `Attempt` (`attemptDelivery` up to the
answer), `Record` (its `UpdateDeliveryStatus`, or `markFailed`; the write may
fail and is then only logged), `Crash`. What a remote inbox does is external: it
may take an activity and never answer.

`Deliver` is reached only from `sendAccept`, which the schema keeps from running
today (see Social); it is modelled as the code stands, since the queue must be
right whoever feeds it. `DeliverToFollowers` has no caller and is not modelled.

**Abstract specification.** `DeliveryContract` has one stage per activity: none,
outstanding, delivered, abandoned, dropped. Delivered only if the remote inbox
took it; abandoned only after `MaxDeliveryAttempts` posts or for an address that
no request can be built for; a verdict is final. `Delivery` implements it
(`ImplementsContract`) with the mapping `Stage`: a row is settled once no worker
holds a copy of it. The mapping is the point: a row that says `delivered` may
still be reopened by the other worker, and only the copies tell.

| run | instance | shows |
|---|---|---|
| `DeliveryTwoWorkers` | 2 workers, 2 activities in one batch, 2 attempts, 1 fault; 93,228 states | `NoRowStranded`, `GivenUpOnlyWhenExhausted`, `DeliveredWasTaken`, `RepostBound`, `ImplementsContract`, and `EventuallySettled` under fairness |
| `DeliveryOneWorker` | 1 worker, 3 activities (one unpostable, one that cannot be signed, one to an inbox that wants signatures), batches of 1, 3 attempts, 2 faults; 13,970 states | nothing that can be posted is dropped without a fault (`DroppedOnlyByFault`); a single worker keeps the retry limit up to lost outcomes (`RetryBudget`) and never reopens a verdict (`VerdictIsFinal`) |
| `DeliveryRetryLimit` | 2 workers, `MaxDeliveryAttempts` = 5, no fault | violation: the limit of `db.go:14` is exceeded with the two workers of the deployment |
| `DeliverySigned` | 1 worker, an inbox that verifies signatures | violation: what the worker posts carries no signature |

Two workers are the deployment. Two rows in a batch are enough for a worker to
be late with the second because of the first; two attempts are enough for the
first and the last retry to differ; one fault hits every statement of every
interleaving. The proofs remove these bounds.

**Fairness** (`FairSpec`): each worker, when it can, eventually polls, posts and
records. The code justifies it: `Start` loops over two tickers for ever (Go's
`select` picks among ready ones at random, so neither starves), and every post ends
within the HTTP client's 30 second timeout. Nothing is assumed of the remote
server: it may refuse or stay silent for ever. Nothing is assumed of `Enqueue`
and `Crash`; faults are finitely many (`FaultBound`).

**Proved** (any workers, activities, limits): `TypeCorrect`,
`NoRowIsStranded`, `GivenUpWhenExhausted`, `DeliveredIsTaken`, `DroppedOnlyByFaults`,
`Implementation` (the refinement, safety part), and for one worker `RetryBudgetHolds` and
`VerdictIsFinalHolds`. The invariant `IInv` adds to the properties what a worker's
copies may be: `Copies` (a copy is of an existing row, below the limit, and has no
more attempts than posts were made), `Outcome` (a worker about to write a success
was on a row that was taken, one about to write a failure has posted once more
than its copy says) and `OwnActivity` (the activity in Deliver's hands is nobody
else's, and what has no row was not posted by a worker). Without them `GivenUpOnlyWhenExhausted` is not inductive: a stale count of a copy could
be anything. With one worker, `SoloInv` adds that its copies equal the rows and
counts posts against attempts and faults; `RetryLimitAlone` is the limit of `db.go:14` as it
is written, for one worker and no fault.

*How far the limit is exceeded.* `RepostsAreBounded` is about two workers, the deployment,
and says that a delivery is posted at most M(M+3)/2 times for a limit of M attempts, and
M more for each fault: 20 posts for the 5 attempts of `db.go`. With one delivery and no
fault, TLC reaches 9 posts for M = 3 and 20 for M = 5, so the bound cannot be lowered. The argument is
a potential: a worker's room for a delivery is M minus the attempts of its copy, or of the
row where it holds none, and `PaidFor` says that twice the posts made, plus what the two
rooms are worth (`Worth`), less the posts not yet recorded, never exceed the allowance. A
record brings one worker's room down and, being the row that the other reads next, may bring
the other's room up again: `Worth` is chosen so that it still does not grow. `LastWriter`
is what makes this inductive: a pending row was last written by a worker that has let go of
it or read it again since. For more than two workers there is no such theorem.

*What a verdict is worth.* `SettledForGood` draws from the contract what a reader wants of
it: no post, no acceptance and no other verdict after an activity is settled.

*The half of liveness that is about states.* `EventuallySettled` itself is out of reach, but
what would falsify it under fairness is a state in which nothing leads on, and
`NobodyGetsStuck` excludes that for every instance: an outstanding activity is in a row that
a poll selects, in a worker's batch or in a Deliverer's hands; where rows are pending, some set of
them is a batch (`PollFindsABatch`, by the order of `created_at`); and a worker in a
batch has a next row.

## Accounts

**State.** `users` by id, `audited` (ids that some audit row refers to, which is
what the foreign key makes of `audit_logs`), `maintenance`; for each connection
`sess`, `snap` (the row its login read), `cmd` (the command it is between two
statements of, with the row it will write), `recorded`. `faults` counts the calls
that failed and after which the code went on. `issued`, `decided`, `sanctions`,
`late`, `unchecked` and `unaudited` are history.

**Actions.** `LoginRead`, `LogAttempt` (the audit row) and `LoginFinish` (the row in
`sessions`, the shell); `LoginFails`, `Logout`; `ProfileSet` and `ProfileWrite`; `ModRead` and `ModWrite` (suspend, unsuspend, silence,
reset_password); `CreateUserCheck` and `CreateUser`; `DeleteUserRead` and
`DeleteUser`; `Maintenance`; `CommandFails`; `Crash`. `Dispatch` is the guard a
user's command passes; for an admin's it looks nothing up (`AdminDispatch`).

A failing statement ends the command and changes nothing (`CommandFails`), but for
the three places where the code goes on, each a `Fault` (`FaultBound` bounds them): the
error of an audit insert is dropped (`Audits`, `server.go:266` and the admin commands),
a failed `CreateSession` is only logged (`server.go:243`), and a failed lookup of the
maintenance mode counts as off (`dispatcher.go:72`). They shape two properties. A
login's audit row is what keeps `delete_user` from an account in use, so
`NoSessionOutlivesAccount` is about the sessions whose login left the account with
one (`unaudited` remembers the others: their account can be deleted under them). And
`MaintenanceDrains` allows a session, besides the edit that was under way, one for
each failed lookup (`unchecked`).

`Moderating` and `Editing` say in which connections which commands are run, so
that one module answers what holds with and without races. Usernames are reused:
`Name` maps two ids to the same name in the runs.

| run | instance | shows |
|---|---|---|
| `AccountsRaces` | 2 connections used for everything, 3 ids of which 2 share a name, 3 passwords, 1 fault; about 3.1 million states | `AdminSurvives`, `NothingInvented`, `MaintenanceDrains` |
| `AccountsModeration` | one moderating connection, no edits, 1 fault; about 1.1 million states | `ModerationSticks`: then no decision is lost; `NoSessionOutlivesAccount` |
| `AccountsSuspension` | one moderates, one edits | violation: `profile set` from a session older than a suspension lifts it |

Two connections are enough for every race between two read-then-write commands,
and one of them can be a user's; three ids for a name that is freed and taken
again; one fault, anywhere, is enough for a lookup that fails once, and for an audit
row that is lost before the account is deleted. In `AccountsRaces` the variables that
no property of that run and no step reads (`decided`, `recorded`, `unaudited`) are left
out of the view, `late` and `unchecked` count by their difference, and the
connections are symmetric.

**Proved** (any ids, names, connections): `TypeCorrect`,
`AdminIsSafe`, `NothingIsInvented`, `RecordedSessionsKeepTheirAccount`,
`MaintenanceIsDrained`, and, assuming one moderating connection and no edits,
`ModerationSticksWhenQuiet`. `IInv` is `TypeOK /\ Rows /\ SessionsOK /\ Recorded
/\ Drained`: every row, every session's copy and every row a command is about to
write has only sanctions and a password that were once given to that id (`Given`);
an audited account is there, a session on record has an account, and a login that is
not in `unaudited` has left its account with an audit row; the edits counted in `late`
are at most the one that was in progress and those let in unchecked. Copies must be in the invariant because any
of them may become the row. `SuspensionsHoldWhenQuiet` is the property that
`AccountsSuspension` refutes, proved where one connection moderates and nobody edits: it is the
second writer of the row that lifts a suspension.

## Social

**State.** `follows` as a set of rows whose ids follow the order of insertion,
`blocks`, `actors` (the id of each remote actor's row); `cmd` for each session and
`event` for each worker between two statements. `announced`, `answered`, `since`
(how many follows existed when a block was inserted), `cut` (blocks whose command
was cut short), `lost` (follows whose announcement failed or was cut short) and
`madeFor` (which actor each id was made up for) are history.

**Actions.** `FollowLocal`, `FollowLocalInsert`, `Announce`; `FollowRemote`,
`FollowRemoteInsert`; `UserLookup`; `FollowRemove`; `BlockAdd`, `BlockInsert`,
`BlockUnfollow`, `BlockSever`; `BlockRemove`, `Unblock`; `InboxFollow`,
`InboxFollowStore`, `InboxAccept`; `Crash`. A statement whose error the command
drops may fail (`Fault`). `StoreActor` is the upsert that three of them share: it keeps the
id of a row that is there. A worker stores the actor that the document it fetched says it is,
which nothing compares with the one that was asked for. `UNIQUE(username, domain)` may refuse
the row of another actor of the same name; the command then ends with nothing written, which is
no step, and the worker drops the event (`InboxFollowStore` without a row).

Three things the code cannot do are guards of the model, not omissions:
`follows.follower_id` refers to `users`, so the row `handleFollow` builds for a
remote follower is refused and nothing after it runs; so no local user ever has a
pending request to accept or reject, and Undo finds no row; `follow remove` of a
remote user writes nothing.

| run | instance | shows |
|---|---|---|
| `SocialRaces` | alice twice, bob once, a remote actor, a worker, 3 follows, 2 actor ids, 1 fault; about 3.7 million states | `BlockSevers`, `DuplicatesBounded`, `FollowIsAnnounced`, `FollowNamesItsActor` |
| `SocialAccept` | no fault | violation: an accepted remote follow stays pending (`README.md:135`) |

Two sessions of one user are what it takes to insert a follow twice or to block
and unblock against oneself; the third is the other side of the block. Three
follows allow one before a block, one during it and one after. The view forgets
the history of rows that no longer exist, which no action or property reads. TLC has
one remote actor, for which two lookups race; several are left to the proofs.

`BlockSevers` says what `block add` really gives: once it is done and was not cut
short, every follow between the two is younger than the block. It does not say
there is none, because `follow add` does not look at blocks, and a follow that is
past its check when the block falls is inserted after it.

`FollowIsAnnounced` exempts a follow only for the failure of its own announcement (`lost`),
and `FollowNamesItsActor` says how far `follow.go:120` can go wrong: the id that a follow is
inserted with may name no row, because the upsert kept the id of an older one, but then the
older row is there.

**Proved** (any users, sessions, actors, workers): `TypeCorrect`,
`BlocksSever` with `SeverInv` (a block that is in force is either still being
carried out by some session, at a step that `SeverInv` names, or has only younger
follows in the directions already cut), `DuplicatesAreBounded` with `DupInv` (rows
plus sessions past the check never exceed the user's sessions: the property
alone is not inductive, since a session past its check will add a row),
`FollowsAreAnnounced`, and `FollowsNameTheirActor` with `NamesInv` (an actor that an id was
made up for has a row, with that id or an older one). Sessions are assumed finite.

About ids, with `MintedIds` (every id in an actor's row, a follow or a command was minted, and
no two actors share one): `ActorIdsAreTheirOwn`; `DanglingFollowsStay`, that a follow stored
under an id that no actor has never comes to name one, since later actors get later ids
(`follow.go:120`); and `RemoteFollowsStayPending`, the finding of `SocialAccept` for every
instance.

## Posts

**State.** `posts` and `deleted` (rows are flagged, never removed), `drafts`,
`reactions` (the tables `likes`, `boosts` and `bookmarks` in one set of rows with a
kind), `notifs` and `read`; `cmd[s]` is the command session `s` is in the middle of,
with the rows it has looked up. Ids follow the order of insertion, and a
notification has the id of the reaction it tells of. `inserted`, `published`,
`withdrawn`, `late`, `untold` (reactions whose notification failed or was cut off) and
`undiscarded` (drafts whose removal was, after the post) are history.

**Actions.** `PostCreate`; `PostReply`, `ReplyInsert`; `PostDelete`, `DeletePost`;
`DraftNew`; `DraftPost`, `DraftPublish`, `DraftDiscard`; `DraftDelete`,
`DraftWithdraw`; `React`, `ReactCheck`, `ReactInsert`, `ReactNotify`; `Unreact`,
`ReactionRemove`; `NotifRead`; `Crash`. Each is one statement of a command of
`post.go`, `draft.go`, `bookmark.go` or `notif.go`. A statement that fails with an
error the command drops, or that leaves another one done, has a branch with
`Fault`; one that ends a command which has written nothing is like not running the
command. The schema's UNIQUE constraints are guards: `Taken` (one row per user, post and
kind) and `ApIdTaken` (the empty `ap_id` of a local-only post is a value like any
other). `GetThread` is the recursive query of `thread view`, as a recursive
function; `Above` is the reference it is compared with, which climbs from a reply to
its ancestors instead of descending from the root. `thread view` prints what it is given, but for
posts whose author it fails to look up (`thread.go:42`), which is not modelled.

| run | instance | shows |
|---|---|---|
| `PostsRaces` | alice twice, bob once, an administrator and silenced; 3 posts, drafts and reactions together; 1 fault; about 2.5 million states | `DeadPostsDrain`, `DraftPublishedOnce`, `NoDraftLost`, `OneReactionEach`, `ToldWasMade`, `ReactionIsTold`, `ThreadIsComplete` |

Two sessions of one user are what it takes to react twice to a post or to publish a
draft twice; bob is the author who is told, and deletes what alice is answering.
Three rows are enough for a post with a reply to its reply (the deleted one in the
middle of a thread) and for a post with a reaction from each of two sessions. alice's
sessions are symmetric.

What the properties say is as much as the code gives. A draft that two *sessions*
publish is posted twice (`DraftPublishedOnce` counts per session), and a post that was
deleted still receives what was on its way (`DeadPostsDrain`). A failure excuses only what it
hit: a second post of a draft by one session needs that session's own deletion of the draft to
have failed after the first (`undiscarded`), an untold reaction its own notification (`untold`).

**Proved** (any users, sessions, bounds): `TypeCorrect`, `DeadPostsDrainOut`,
`ReactionsAreUnique`, `DraftsArePublishedOnce` and `DraftsAreKept` with `DraftInv`
(a session about to discard a draft has published it, and a draft it has published is gone,
about to go, or among the `undiscarded`), `OnlyMadeIsTold` with `ToldInv` (no two
sessions are about to tell of one reaction), `ReactionsAreTold` with `RowInv` and
`StandInv` (the post a command holds is the row in the table, so the author it will
tell is the post's).

*Threads.* `ThreadsAreComplete` is proved by induction, which the library's theorems cannot
give here; `InductionLemmas` has it as facts about sets of numbers (`SetInduction`),
of which `PrimitiveRecursion` and `Orbit` show that a recursive function computes what its
definition says. `Above` recurses up the parents and `GetThread` adds the replies to what it
has, round by round (`RoundsDef`, `AboveDef`). One direction is an induction on the rounds
(`RoundsAreBelow`), the other on the id of a reply (`RoundsReach`): every answer is younger
than what it answers (`AnswersOlder`, the inductive invariant), so as many rounds as there are
ids reach it. That no deleted post is shown is part of the equation.

## Inbox

**State.** An activity is a type, an actor, and an object with the form it comes in: a plain
string, a Note, another JSON object, or neither (`Forms`). `activity`, `arriving` (handlers between the stamp and the insert),
`stored`, `processed`, `verdict` (the rows of `inbox_events`, by `created_at`);
`deleted` and `known` are the effects that can take place; `pc`, `batch`, `errMsg` are
a worker's goroutine. `run`, `seen`, `applied`, `outcomes` are history: a worker's run
ends with a crash or with a mark that fails.

**Actions.** `Receive`, `CreateInboxEvent` (`InboxHandler`, requests overlap, so rows
may be inserted out of the order of their stamps); `DeliveryTick`, `DeliveryDone` and
`InboxTick` (the worker's `select`); `HandleFollow`, `HandleReaction`, `HandleCreate`,
`HandleDelete`, `HandleAnswer`, `FetchActor` (`ProcessEvent` and its handlers, with
the HTTP fetch of `ensureRemoteActor` a step of its own);
`MarkInboxEventProcessed`; `Crash`. Every handler may meet a failed query, whose
error it returns (`failed`) or drops (`dropped`). An object in a form that a handler does not
read is an error for some (Follow, Accept) and nothing at all for others: a Delete with an embedded
Tombstone is marked without an error and deletes nothing (`inbox.go:318`), which is why
`DeleteTakesEffect` is about Deletes that name their post by a string. `FetchActor` stores the
actor that the fetched document says it is (`inbox.go:572`), or nothing: the fetch or the upsert
fails, or `UNIQUE(username, domain)` refuses the row.

What the schema refuses is `refused`: the id of a remote actor is no `users.id`, and a
remote post has neither an author nor a `local_id` that fits, so the inserts of
Follow, Like, Announce and Create fail every time. What the code does after them is
not reached and not modelled.

**Abstract specification.** `InboxContract`: an activity the server answered for is
handled at least once before it is settled, settled for good, and keeps the verdict of
one handling of itself. `Inbox` implements it (`ImplementsContract`); the mapping is
`accepted <- stored`.

| run | instance | shows |
|---|---|---|
| `InboxWorkers` | 2 workers, 3 events (a Delete, a Delete with a Tombstone, and a Follow, Like, Create, Undo or unreadable Accept), batches of 2, 1 fault; 375,282 states | `OncePerRun`, `OlderFirst`, `DeleteTakesEffect`, `ImplementsContract`, and `EventuallyProcessed` under fairness |

Two workers are the deployment. Three events with batches of two make `LIMIT` cut one
off, and a row inserted late fall behind a batch already read. The third event takes
each handler through each outcome (`ok`, `dropped`, `failed`, `refused`, with and without a
fetch); the handlers grouped in one action treat their types alike. A fetch may bring the actor
that was asked for or another one.

**Fairness** (`FairSpec`): a worker that is not waiting goes on (`WF`): queries return,
the HTTP client times out. `InboxTick` is strongly fair: it is ready again and again
but disabled while the same goroutine posts deliveries, and Go's `select` picks among
ready tickers at random, so it is not passed over for ever. A weak fairness would not
do: a worker always busy with deliveries is a behaviour it allows.

**Proved** (any workers, events, bounds): `TypeCorrect`, `EventsAreHandledOncePerRun`,
`OldestAreHandledFirst`, `DeletesTakeEffect`, `InboxImplementsContract` (safety part;
the contract has no fairness). `IInv` adds that a row handled in a run is processed or
about to be marked (`RunIsMarked`), so a later batch of that run does not hold it
(`HeldIsFresh`); that what was stored when a batch was read is handled, held, or newer
than all that is held (`SeenIsCovered`); and that `errMsg` is empty until the handler
returns (`ErrMsgIsOwn`): with an `errMsg` of an earlier row the refinement fails.

Four more results follow from it. `HandlingsAreBounded`: an event is handled at most once for each
worker and once more for each fault, so three workers would at worst apply it three times, not
once per batch they read. `EffectsHaveCauses`: a post is deleted only on account of a handled
Delete whose object is a string naming it, and actors are stored only after a handled Follow, Like or
Announce of something that is there (which actor, the fetched document decides). `SettledForGood`: what is marked
was handled and stays marked. `NobodyGetsStuck` is the half of `EventuallyProcessed` that is about
states: where rows are unprocessed there is a batch for a poll to read, and a worker in a batch
is at a row whose type has a handler.

## Login

**State.** `count` and `ttl` (the Redis key of one address), `conn` (each connection's
handler: verifying, about to INCR, about to EXPIRE), `keys` (the owner of each row of
`ssh_keys`), `cmd` (a session between the lookup of a key and its insert or delete, or
in a list of fetched keys). `failures` counts the attempts that failed since the
counter was new, whether they have been counted yet or not.

**Actions.** `Allow`, `Refuse` (`CheckLoginAttempts`; an error lets the attempt through),
`PasswordAuth`, `PublicKeyAuth`, `RecordLoginAttempt` and `Expire` (INCR and EXPIRE, one
pipeline that is no transaction), `Tick`; `SettingsAddKey`, `AdminAddKey`,
`SettingsAddKeyURL`, `AdminAddKeyURL`, `ImportNext`, `CreateSSHKey`, `RemoveKey`,
`DeleteSSHKeyByFingerprint`. The two halves share one module because a key decides
whether a login by public key counts as a failure.

| run | instance | shows |
|---|---|---|
| `LoginLimit` | 2 connections, limit 2, window of 2 ticks, 2 failed calls; an administrator's and a user's session, 2 keys; 654,240 states | `AttemptsBounded`, `BlockedExpires`, `KeyKeepsOwner`, and `EventuallyAllowed` under fairness |

Two connections are enough to pass the check together. As many failed calls as the limit
are what it takes to leave a counter without a time to live at the limit, which is the
exception both `BlockedExpires` and `EventuallyAllowed` name. The limit of the code is
larger; the proofs are for any.

**Fairness** (`FairSpec`): time passes (`Tick`), and a handler that is about to count
does (calls to Redis have a timeout). Clients need not try again nor stop trying: an
address that hammers a closed door is let in again all the same, because refused
attempts are not counted.

**Proved** (any connections, limit, window, keys, sessions): `TypeCorrect`;
`AttemptsAreBounded` and `BlocksExpire` with `LimiterInv`; `KeysKeepTheirOwner`.
`AttemptsBounded` alone is not inductive, since a connection that is verifying will fail:
`Pending` counts those too, `Counted` says that a failure is counted, about to be, or lost
to a failed call, and `Dropped` that a counter without a time to live has an EXPIRE coming
for each of its counts, or that one failed.

## What is only model-checked

* `EventuallySettled`, `EventuallyProcessed` and `EventuallyAllowed` are liveness under
  fairness, and need ENABLED, which this prover does not reach. `NobodyGetsStuck` of
  `DeliveryProofs` and of `InboxProofs` prove the part of the first two that is about states.
* That the bound of `RepostsAreBounded` is reached is a run of TLC, not a theorem.
* The violation runs are counterexamples, there is nothing to prove.

Everything else that a run checks is also a theorem, for every value of the constants
under the assumptions named in each module (`PostsAssumption`, `InboxAssumption`, ...),
which TLC evaluates in the runs.

## Findings

* `RetryLimit`: two workers exceed `MaxDeliveryAttempts` (`db.go:14`).
* `NothingSentUnsigned`: the worker posts without the HTTP signature that
  `README.md:132` promises (`worker.go:72`).
* `SuspensionHolds`: a stale profile edit lifts a suspension (`profile.go:143`).
* `AcceptTakesEffect`: an Accept never finds the follow it answers
  (`inbox.go:231`, `follow.go:391`).

The other findings of `PROJECT.json` were met while modelling and are read off the
source; no run states them, because the model has them as guards:

* `settings update_password` always fails, having read nothing (`settings.go:41`);
* the schema refuses what a remote Follow, Like, Announce or Create inserts (`inbox.go:290`);
* the server has room for one local-only post (`post.go:58`);
* replies and published drafts of a silenced user are federated (`post.go:110`);
* a Delete with an embedded Tombstone deletes nothing (`inbox.go:319`);
* no notification of a reply or of a mention in a local post exists (`notif.go:28`);
* the outbox lists local-only posts (`actor.go:86`);
* no timeline reads the mutes (`mute.go:67`);
* the time to live of the login counter is renewed by every failure (`auth.go:137`).

## Not modelled, and why

* HTTP endpoints, signatures, cryptography, fetching, parsing of configuration:
  stateless, or I/O.
* Timelines, search, lists, help: one SELECT each, output only.
* Mutes, reports, domain policies: rows that nothing else reads for a decision.
* The shell's line editor and quoting parser: byte loops of one connection; nothing they
  hold is stored or shared. The parser has tests (`shell_test.go`), the editor none.
* Rows of a deleted account: `delete_user` is in `Accounts`; it is refused for an account
  with posts or follows, and the cascade over the rest is left out.
* The follow-request commands and Reject: no local user can have a request (see Social).
* Payload text, formatting, logging: no property is about them.

## Plan

Built, in this order: `Delivery`, `Accounts`, `Social`, `Posts`, `Inbox`, `Login`, each
with its proofs. What is left, in the order of importance:

1. Composition: `follow add` of `Social` feeding `Delivery`, the remote server's answer
   coming back through `Inbox`. What crosses the boundary today is little: an Accept
   finds no follow, and no insert behind a remote activity succeeds.
2. Moderation in `Accounts` joined with `Posts`: a silenced flag that changes while
   sessions hold copies of it.
3. A bound on the posts of a delivery for any number of workers.
4. The shell's line editor and parser as operators, checked against a reference definition over bounded
   inputs.
