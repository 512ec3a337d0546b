-------------------------------- MODULE Posts --------------------------------
(***************************************************************************)
(* Posts, replies and drafts, and what users do with a post: favourites,   *)
(* boosts, bookmarks and the notifications they cause                      *)
(* (internal/commands/post.go, draft.go, bookmark.go, notif.go, thread.go  *)
(* and their queries in internal/db/db.go).                                *)
(*                                                                         *)
(* Every command first reads the rows it is about and writes later, one    *)
(* statement at a time, with no transaction, while other sessions do the   *)
(* same.  A post is never removed: its row is flagged deleted, and the     *)
(* lookup by local_id, which every command starts with, skips such rows.   *)
(***************************************************************************)
EXTENDS Integers, FiniteSets

CONSTANTS
  Users,         \* local users
  Sessions,      \* shell sessions
  Owner,         \* the user each session is logged in as
  Admins,        \* sessions of an administrator
  Silenced,      \* sessions whose copy of the account, made at login, says is_silenced
  Kinds,         \* of "like", "boost" and "bookmark", the ones used
  Nil,           \* no command
  RowBound,      \* bound on posts, drafts and attempts at a reaction together
  FaultBound     \* bound on crashes and failed writes

ASSUME PostsAssumption ==
  /\ Owner \in [Sessions -> Users]
  /\ Admins \subseteq Sessions
  /\ Silenced \subseteq Sessions
  /\ Kinds \subseteq {"like", "boost", "bookmark"}
  /\ RowBound \in Nat
  /\ FaultBound \in Nat

VARIABLES
  posts,      \* the posts table, a set of rows; ids in the order of insertion
  deleted,    \* the ids of the posts flagged deleted
  drafts,     \* the drafts table
  reactions,  \* likes, boosts and bookmarks, the three tables in one set
  notifs,     \* the notifications of likes and boosts
  read,       \* the notifications marked read
  cmd,        \* what each session is in the middle of
  made,       \* post ids used so far
  saved,      \* draft ids used so far
  tried,      \* reaction ids used so far
  inserted,   \* history: the reactions whose insert was not refused
  published,  \* history: <<post, draft, session>> for each post made of a draft
  withdrawn,  \* history: drafts removed by "draft delete"
  late,       \* history: <<session, post>> where a session added to a deleted post
  untold,     \* history: reactions whose notification failed or was cut off by a crash
  undiscarded,\* history: <<session, draft>> where that happened to the removal of a published draft
  faults      \* crashes and failed writes so far

vars == <<posts, deleted, drafts, reactions, notifs, read, cmd, made, saved, tried,
          inserted, published, withdrawn, late, untold, undiscarded, faults>>

NoId == 0
Ids == Nat \ {NoId}

\* A local-only post has the empty ap_id, any other one a URL of its own.
PostRow == [id : Ids, author : Users, local : BOOLEAN, parent : Ids \cup {NoId}]
DraftRow == [id : Ids, user : Users]
ReactionRow == [id : Ids, kind : Kinds, user : Users, post : Ids]

\* A notification has the id of the reaction it tells of.
NotifRow == [id : Ids, user : Users, kind : Kinds, actor : Users, post : Ids]

\* A command holds the rows it has read.
Command ==
       [op : {"reply", "delete"}, post : PostRow]
  \cup [op : {"check", "insert", "undo"}, kind : Kinds, post : PostRow]
  \cup [op : {"notify"}, id : Ids, kind : Kinds, post : PostRow]
  \cup [op : {"publish", "discard", "withdraw"}, draft : Ids]

ASSUME NilAssumption == Nil \notin Command

TypeOK ==
  /\ posts \in SUBSET PostRow
  /\ deleted \in SUBSET Ids
  /\ drafts \in SUBSET DraftRow
  /\ reactions \in SUBSET ReactionRow
  /\ notifs \in SUBSET NotifRow
  /\ read \in SUBSET Ids
  /\ cmd \in [Sessions -> Command \cup {Nil}]
  /\ made \in Nat
  /\ saved \in Nat
  /\ tried \in Nat
  /\ inserted \in SUBSET Ids
  /\ published \in SUBSET (Ids \X Ids \X Sessions)
  /\ withdrawn \in SUBSET Ids
  /\ late \in SUBSET (Sessions \X Ids)
  /\ untold \in SUBSET Ids
  /\ undiscarded \in SUBSET (Sessions \X Ids)
  /\ faults \in Nat

Init ==
  /\ posts = {}
  /\ deleted = {}
  /\ drafts = {}
  /\ reactions = {}
  /\ notifs = {}
  /\ read = {}
  /\ cmd = [s \in Sessions |-> Nil]
  /\ made = 0
  /\ saved = 0
  /\ tried = 0
  /\ inserted = {}
  /\ published = {}
  /\ withdrawn = {}
  /\ late = {}
  /\ untold = {}
  /\ undiscarded = {}
  /\ faults = 0
-----------------------------------------------------------------------------
(* The tables                                                              *)

\* Mutant: WHERE deleted=FALSE is missing.
AllPosts == posts

\* GetPostByLocalID finds a post only while it is not deleted.
Visible == {p \in posts : p.id \notin deleted}

\* Mutant: the id is the one of the row before.
CreatePostStaleId(u, l, q) ==
  /\ made' = made + 1
  /\ posts' = posts \cup {[id |-> made, author |-> u, local |-> l, parent |-> q]}

\* CreatePost, with the next id.
CreatePost(u, l, q) ==
  /\ made' = made + 1
  /\ posts' = posts \cup {[id |-> made', author |-> u, local |-> l, parent |-> q]}

\* ap_id is UNIQUE, and the empty string is a value like any other.
ApIdTaken(l) == l /\ \E p \in posts : p.local

\* WHERE user_id = u AND post_id = p, in the table of kind k
ReactionsOf(k, u, p) == {r \in reactions : r.kind = k /\ r.user = u /\ r.post = p}

\* Mutant: the table has no UNIQUE(user_id, post_id).
NeverTaken(k, u, p) == k # k

\* UNIQUE(user_id, post_id), in each of the three tables
Taken(k, u, p) == ReactionsOf(k, u, p) # {}
-----------------------------------------------------------------------------
(* Sessions                                                                *)

Idle(s) == cmd[s] = Nil
Doing(s, op) == cmd[s] # Nil /\ cmd[s].op = op
Goes(s, c) == cmd' = [cmd EXCEPT ![s] = c]
Done(s) == Goes(s, Nil)

\* A statement that fails, or the end of the process.
Fault == faults < FaultBound /\ faults' = faults + 1

\* Commands that are under way to an insert count as if they had done it.
Inserting == {s \in Sessions : cmd[s] # Nil /\ cmd[s].op \in {"reply", "publish", "check", "insert"}}
MayInsert == made + saved + tried + Cardinality(Inserting) < RowBound

\* Session s adds to post p, which may have been deleted since s looked it up.
AddsTo(s, p) == late' = IF p \in deleted THEN late \cup {<<s, p>>} ELSE late
-----------------------------------------------------------------------------
(* Posts and replies                                                       *)

\* postCreate, for "post global" and "post local".
PostCreate(s, localOnly) ==
  /\ Idle(s)
  /\ MayInsert
  /\ LET l == localOnly \/ s \in Silenced
     IN ~ApIdTaken(l) /\ CreatePost(Owner[s], l, NoId)
  /\ UNCHANGED <<deleted, drafts, reactions, notifs, read, cmd, saved, tried, inserted, published, withdrawn, late, faults, untold, undiscarded>>

\* postReply finds the parent ...
PostReply(s, p) ==
  /\ Idle(s)
  /\ MayInsert
  /\ p \in Visible
  /\ Goes(s, [op |-> "reply", post |-> p])
  /\ UNCHANGED <<posts, deleted, drafts, reactions, notifs, read, made, saved, tried, inserted, published, withdrawn, late, faults, untold, undiscarded>>

\* ... and inserts a post that is federated, whoever writes it.
ReplyInsert(s) ==
  /\ Doing(s, "reply")
  /\ CreatePost(Owner[s], FALSE, cmd[s].post.id)
  /\ AddsTo(s, cmd[s].post.id)
  /\ Done(s)
  /\ UNCHANGED <<deleted, drafts, reactions, notifs, read, saved, tried, inserted, published, withdrawn, faults, untold, undiscarded>>

\* postDelete finds a post of its own, or any as an administrator ...
PostDelete(s, p) ==
  /\ Idle(s)
  /\ p \in Visible
  /\ p.author = Owner[s] \/ s \in Admins
  /\ Goes(s, [op |-> "delete", post |-> p])
  /\ UNCHANGED <<posts, deleted, drafts, reactions, notifs, read, made, saved, tried, inserted, published, withdrawn, late, faults, untold, undiscarded>>

\* ... and flags it.
DeletePost(s) ==
  /\ Doing(s, "delete")
  /\ deleted' = deleted \cup {cmd[s].post.id}
  /\ Done(s)
  /\ UNCHANGED <<posts, drafts, reactions, notifs, read, made, saved, tried, inserted, published, withdrawn, late, faults, untold, undiscarded>>
-----------------------------------------------------------------------------
(* Drafts                                                                  *)

\* draftNew
DraftNew(s) ==
  /\ Idle(s)
  /\ MayInsert
  /\ saved' = saved + 1
  /\ drafts' = drafts \cup {[id |-> saved', user |-> Owner[s]]}
  /\ UNCHANGED <<posts, deleted, reactions, notifs, read, cmd, made, tried, inserted, published, withdrawn, late, faults, untold, undiscarded>>

\* findDraft searches the drafts of the session's user.
Finds(s, d) == [id |-> d, user |-> Owner[s]] \in drafts

\* draftPost finds the draft ...
DraftPost(s, d) ==
  /\ Idle(s)
  /\ MayInsert
  /\ Finds(s, d)
  /\ Goes(s, [op |-> "publish", draft |-> d])
  /\ UNCHANGED <<posts, deleted, drafts, reactions, notifs, read, made, saved, tried, inserted, published, withdrawn, late, faults, untold, undiscarded>>

\* Mutant: a failed insert goes unnoticed.
PublishBlindly(s) ==
  /\ Doing(s, "publish")
  /\ \/ /\ CreatePost(Owner[s], FALSE, NoId)
        /\ published' = published \cup {<<made', cmd[s].draft, s>>}
        /\ UNCHANGED faults
     \/ Fault /\ UNCHANGED <<posts, made, published>>
  /\ Goes(s, [op |-> "discard", draft |-> cmd[s].draft])
  /\ UNCHANGED <<deleted, drafts, reactions, notifs, read, saved, tried, inserted, withdrawn, late, untold, undiscarded>>

\* ... inserts the post, or gives up with the draft in place ...
DraftPublish(s) ==
  /\ Doing(s, "publish")
  /\ \/ /\ CreatePost(Owner[s], FALSE, NoId)
        /\ published' = published \cup {<<made', cmd[s].draft, s>>}
        /\ Goes(s, [op |-> "discard", draft |-> cmd[s].draft])
        /\ UNCHANGED faults
     \/ Fault /\ Done(s) /\ UNCHANGED <<posts, made, published>>
  /\ UNCHANGED <<deleted, drafts, reactions, notifs, read, saved, tried, inserted, withdrawn, late, untold, undiscarded>>

\* Mutant: the row of the draft stays.
KeepDraft(s) ==
  /\ Doing(s, "discard")
  /\ Done(s)
  /\ UNCHANGED <<posts, deleted, drafts, reactions, notifs, read, made, saved, tried, inserted, published, withdrawn, late, faults, untold, undiscarded>>

\* ... and deletes the draft, unless that fails.
DraftDiscard(s) ==
  /\ Doing(s, "discard")
  /\ \/ drafts' = {d \in drafts : d.id # cmd[s].draft} /\ UNCHANGED <<undiscarded, faults>>
     \/ Fault /\ undiscarded' = undiscarded \cup {<<s, cmd[s].draft>>} /\ UNCHANGED drafts
  /\ Done(s)
  /\ UNCHANGED <<posts, deleted, reactions, notifs, read, made, saved, tried, inserted, published, withdrawn, late, untold>>

\* draftDelete finds the draft ...
DraftDelete(s, d) ==
  /\ Idle(s)
  /\ Finds(s, d)
  /\ Goes(s, [op |-> "withdraw", draft |-> d])
  /\ UNCHANGED <<posts, deleted, drafts, reactions, notifs, read, made, saved, tried, inserted, published, withdrawn, late, faults, untold, undiscarded>>

\* ... and deletes it.
DraftWithdraw(s) ==
  /\ Doing(s, "withdraw")
  /\ drafts' = {d \in drafts : d.id # cmd[s].draft}
  /\ withdrawn' = withdrawn \cup {cmd[s].draft}
  /\ Done(s)
  /\ UNCHANGED <<posts, deleted, reactions, notifs, read, made, saved, tried, inserted, published, late, faults, untold, undiscarded>>
-----------------------------------------------------------------------------
(* Favourites, boosts and bookmarks                                        *)

\* bookmarkAdd leaves the check to UNIQUE and notifies nobody.
Notified == {"like", "boost"}

\* favAdd, boostAdd and bookmarkAdd find the post ...
React(s, k, p) ==
  /\ Idle(s)
  /\ MayInsert
  /\ p \in Visible
  /\ Goes(s, [op |-> IF k \in Notified THEN "check" ELSE "insert", kind |-> k, post |-> p])
  /\ UNCHANGED <<posts, deleted, drafts, reactions, notifs, read, made, saved, tried, inserted, published, withdrawn, late, faults, untold, undiscarded>>

\* ... the first two look for a row of theirs (GetLike, GetBoost) ...
ReactCheck(s) ==
  /\ Doing(s, "check")
  /\ IF ReactionsOf(cmd[s].kind, Owner[s], cmd[s].post.id) = {}
     THEN Goes(s, [cmd[s] EXCEPT !.op = "insert"])
     ELSE Done(s)
  /\ UNCHANGED <<posts, deleted, drafts, reactions, notifs, read, made, saved, tried, inserted, published, withdrawn, late, faults, untold, undiscarded>>

\* What a reaction that was inserted leads to.
NotifyNext(s) ==
  IF cmd[s].kind \in Notified /\ cmd[s].post.author # Owner[s]
  THEN Goes(s, [op |-> "notify", id |-> tried', kind |-> cmd[s].kind, post |-> cmd[s].post])
  ELSE Done(s)

\* Mutant: the refusal of the insert is ignored (ON CONFLICT DO NOTHING).
InsertQuietly(s) ==
  /\ Doing(s, "insert")
  /\ tried' = tried + 1
  /\ NotifyNext(s)
  /\ LET p == cmd[s].post.id
     IN IF Taken(cmd[s].kind, Owner[s], p)
        THEN UNCHANGED <<reactions, inserted, late>>
        ELSE /\ reactions' = reactions \cup
                  {[id |-> tried', kind |-> cmd[s].kind, user |-> Owner[s], post |-> p]}
             /\ inserted' = inserted \cup {tried'}
             /\ AddsTo(s, p)
  /\ UNCHANGED <<posts, deleted, drafts, notifs, read, made, saved, published, withdrawn, faults, untold, undiscarded>>

\* ... and all insert one, which UNIQUE refuses if another session has ...
ReactInsert(s) ==
  /\ Doing(s, "insert")
  /\ tried' = tried + 1
  /\ LET p == cmd[s].post.id
     IN IF Taken(cmd[s].kind, Owner[s], p)
        THEN Done(s) /\ UNCHANGED <<reactions, inserted, late>>
        ELSE /\ reactions' = reactions \cup
                  {[id |-> tried', kind |-> cmd[s].kind, user |-> Owner[s], post |-> p]}
             /\ inserted' = inserted \cup {tried'}
             /\ AddsTo(s, p)
             /\ NotifyNext(s)
  /\ UNCHANGED <<posts, deleted, drafts, notifs, read, made, saved, published, withdrawn, faults, untold, undiscarded>>

\* The notification a session is about to insert
NotifOf(s) == [id |-> cmd[s].id, user |-> cmd[s].post.author, kind |-> cmd[s].kind,
               actor |-> Owner[s], post |-> cmd[s].post.id]

\* Mutant: boosts are not told.
NotifyLikes(s) ==
  /\ Doing(s, "notify")
  /\ notifs' = IF cmd[s].kind = "like" THEN notifs \cup {NotifOf(s)} ELSE notifs
  /\ Done(s)
  /\ UNCHANGED <<posts, deleted, drafts, reactions, read, made, saved, tried, inserted, published, withdrawn, late, faults, untold, undiscarded>>

\* ... and the first two tell the author; an error is dropped.
ReactNotify(s) ==
  /\ Doing(s, "notify")
  /\ \/ notifs' = notifs \cup {NotifOf(s)} /\ UNCHANGED <<untold, faults>>
     \/ Fault /\ untold' = untold \cup {cmd[s].id} /\ UNCHANGED notifs
  /\ Done(s)
  /\ UNCHANGED <<posts, deleted, drafts, reactions, read, made, saved, tried, inserted, published, withdrawn, late, undiscarded>>

\* favRemove, boostRemove and bookmarkRemove find the post ...
Unreact(s, k, p) ==
  /\ Idle(s)
  /\ p \in Visible
  /\ Goes(s, [op |-> "undo", kind |-> k, post |-> p])
  /\ UNCHANGED <<posts, deleted, drafts, reactions, notifs, read, made, saved, tried, inserted, published, withdrawn, late, faults, untold, undiscarded>>

\* ... and delete the row, if there is one.
ReactionRemove(s) ==
  /\ Doing(s, "undo")
  /\ reactions' = reactions \ ReactionsOf(cmd[s].kind, Owner[s], cmd[s].post.id)
  /\ Done(s)
  /\ UNCHANGED <<posts, deleted, drafts, notifs, read, made, saved, tried, inserted, published, withdrawn, late, faults, untold, undiscarded>>

NotifsOf(s) == {n \in notifs : n.user = Owner[s]}

\* notifRead: one of the session's own; notifClear: all of them.
NotifRead(s) ==
  /\ Idle(s)
  /\ \E N \in {{n} : n \in NotifsOf(s)} \cup {NotifsOf(s)} : read' = read \cup {n.id : n \in N}
  /\ UNCHANGED <<posts, deleted, drafts, reactions, notifs, cmd, made, saved, tried, inserted, published, withdrawn, late, faults, untold, undiscarded>>

\* The process dies with everything its sessions were at.
Crash ==
  /\ Fault
  /\ cmd' = [s \in Sessions |-> Nil]
  /\ untold' = untold \cup {cmd[s].id : s \in {t \in Sessions : Doing(t, "notify")}}
  /\ undiscarded' = undiscarded \cup {<<s, cmd[s].draft>> : s \in {t \in Sessions : Doing(t, "discard")}}
  /\ UNCHANGED <<posts, deleted, drafts, reactions, notifs, read, made, saved, tried, inserted, published, withdrawn, late>>

Next ==
  \/ \E s \in Sessions, l \in BOOLEAN : PostCreate(s, l)
  \/ \E s \in Sessions, p \in posts : PostReply(s, p) \/ PostDelete(s, p)
  \/ \E s \in Sessions, d \in 1..saved : DraftPost(s, d) \/ DraftDelete(s, d)
  \/ \E s \in Sessions, k \in Kinds, p \in posts : React(s, k, p) \/ Unreact(s, k, p)
  \/ \E s \in Sessions :
       \/ ReplyInsert(s) \/ DeletePost(s)
       \/ DraftNew(s) \/ DraftPublish(s) \/ DraftDiscard(s) \/ DraftWithdraw(s)
       \/ ReactCheck(s) \/ ReactInsert(s) \/ ReactNotify(s) \/ ReactionRemove(s)
       \/ NotifRead(s)
  \/ Crash

Spec == Init /\ [][Next]_vars
-----------------------------------------------------------------------------
(* Threads                                                                 *)

\* The rows the recursive part of GetThread's query has found after n rounds,
\* from the row r down.
Rounds(r) ==
  LET f[n \in Nat] == IF n = 0 THEN {r}
                      ELSE f[n - 1] \cup {p \in posts : \E q \in f[n - 1] : p.parent = q.id}
  IN f

\* Mutant: the recursive part skips deleted rows as well.
ThreadOfVisible(r) ==
  LET f[n \in Nat] == IF n = 0 THEN {r}
                      ELSE f[n - 1] \cup {p \in Visible : \E q \in f[n - 1] : p.parent = q.id}
  IN f[made]

\* What thread view is given: deleted rows are left out once all are found.
GetThread(r) == Rounds(r)[made] \cap Visible

\* The posts p answers: its parent, the parent's parent, and so on.
Above(p) ==
  LET up[n \in Nat] == IF n = 0 THEN {}
                       ELSE {n} \cup UNION {up[q.parent] : q \in {x \in posts : x.id = n}}
  IN up[p.parent]
-----------------------------------------------------------------------------
(* What holds                                                              *)

\* Session s is past its lookup of p and has not added to it yet.
AddingTo(s, p) ==
  /\ Doing(s, "reply") \/ Doing(s, "check") \/ Doing(s, "insert")
  /\ cmd[s].post.id = p

\* Deletion does not stop what is under way: a session may still add its reply
\* or reaction to a post that was deleted after the lookup.  It does so at
\* most once: a session that has added to a deleted post is at no other
\* addition to it, in this or any later state.
DeadPostsDrain == \A x \in late : x[2] \in deleted /\ ~AddingTo(x[1], x[2])

\* draft post inserts the post and then deletes the draft.  A session makes a
\* second post of a draft only if this very deletion failed or was cut off by a
\* crash after its first: no other fault, and nothing another session of the
\* same user does with the draft, lets it.
DraftPublishedOnce ==
  \A x, y \in published :
    x[2] = y[2] /\ x[3] = y[3] /\ <<x[3], x[2]>> \notin undiscarded => x = y

\* A draft that is gone is a post, or was withdrawn: no crash, failed write or
\* other session loses one.
NoDraftLost ==
  \A d \in 1..saved :
    \/ \E row \in drafts : row.id = d
    \/ \E x \in published : x[2] = d /\ \E p \in posts : p.id = x[1]
    \/ d \in withdrawn

\* The rows CountLikes and CountBoosts count, and ListBookmarks joins with, are
\* of different users, although two sessions of a user may both find none.
OneReactionEach ==
  \A q, r \in reactions : q.kind = r.kind /\ q.user = r.user /\ q.post = r.post => q = r

\* An author is told only of likes and boosts that were inserted, once for
\* each: the session that lost the race to UNIQUE tells nobody.
ToldWasMade ==
  /\ \A n \in notifs : n.id \in inserted
  /\ \A m, n \in notifs : m.id = n.id => m = n

\* A like or boost of another user's post that stands was told to the author,
\* or is about to be, unless the insert of this very notification failed, which
\* nobody is told of, or a crash came before it.
ReactionIsTold ==
  \A r \in reactions, p \in posts :
    \/ r.post # p.id \/ r.kind \notin Notified \/ r.user = p.author
    \/ \E n \in notifs : n.id = r.id /\ n.user = p.author
    \/ \E s \in Sessions : Doing(s, "notify") /\ cmd[s].id = r.id
    \/ r.id \in untold

\* thread view is given exactly the posts that answer its root, directly or
\* not, and are not deleted: a reply stays in the thread when the post it
\* answers is deleted.  (It leaves out one whose author it fails to look up.)
ThreadIsComplete ==
  \A r \in Visible :
    GetThread(r) = {p \in Visible : p = r \/ r.id \in Above(p)}
=============================================================================
