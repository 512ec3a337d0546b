------------------------------ MODULE PostsProofs ------------------------------
(***************************************************************************)
(* Proofs about Posts for any users, sessions and bounds.                  *)
(***************************************************************************)
EXTENDS Posts, InductionLemmas, TLAPS

\* What a command in progress carries.
LEMMA CommandFields ==
  ASSUME TypeOK, NEW s \in Sessions, cmd[s] # Nil
  PROVE  /\ cmd[s] \in Command
         /\ cmd[s].op \in {"reply", "delete", "check", "insert", "undo", "notify"} => cmd[s].post \in PostRow
         /\ cmd[s].op \in {"check", "insert", "undo", "notify"} => cmd[s].kind \in Kinds
         /\ cmd[s].op = "notify" => cmd[s].id \in Ids
         /\ cmd[s].op \in {"publish", "discard", "withdraw"} => cmd[s].draft \in Ids
  BY DEF TypeOK, Command

\* The variables stay in their types.
THEOREM TypeCorrect == Spec => []TypeOK
<1>1. Init => TypeOK
  BY DEF Init, TypeOK
<1>2. TypeOK /\ [Next]_vars => TypeOK'
  <2> SUFFICES ASSUME TypeOK, [Next]_vars PROVE TypeOK'
    OBVIOUS
  <2> USE PostsAssumption, NilAssumption
  <2>1. CASE UNCHANGED vars
    BY <2>1 DEF vars, TypeOK
  <2>2. ASSUME NEW s \in Sessions, NEW l \in BOOLEAN, PostCreate(s, l) PROVE TypeOK'
    <3>1. PICK b \in BOOLEAN : CreatePost(Owner[s], b, NoId)
      BY <2>2, (l \/ s \in Silenced) \in BOOLEAN DEF PostCreate
    <3>2. [id |-> made', author |-> Owner[s], local |-> b, parent |-> NoId] \in PostRow /\ made' \in Nat
      BY <3>1 DEF TypeOK, CreatePost, PostRow, Ids, NoId
    <3> QED
      BY <2>2, <3>1, <3>2 DEF TypeOK, PostCreate, CreatePost
  <2>3. ASSUME NEW s \in Sessions, NEW p \in posts, PostReply(s, p) \/ PostDelete(s, p) PROVE TypeOK'
    <3>1. \A op \in {"reply", "delete"} : [op |-> op, post |-> p] \in Command
      BY DEF TypeOK, Command
    <3> QED
      BY <2>3, <3>1 DEF TypeOK, PostReply, PostDelete, Goes
  <2>4. ASSUME NEW s \in Sessions, NEW d \in 1..saved, DraftPost(s, d) \/ DraftDelete(s, d) PROVE TypeOK'
    <3>1. \A op \in {"publish", "withdraw"} : [op |-> op, draft |-> d] \in Command
      BY DEF TypeOK, Command, Ids, NoId
    <3> QED
      BY <2>4, <3>1 DEF TypeOK, DraftPost, DraftDelete, Goes
  <2>5. ASSUME NEW s \in Sessions, NEW k \in Kinds, NEW p \in posts, React(s, k, p) \/ Unreact(s, k, p)
        PROVE  TypeOK'
    <3>1. \A op \in {"check", "insert", "undo"} : [op |-> op, kind |-> k, post |-> p] \in Command
      BY DEF TypeOK, Command
    <3>2. \E c \in Command : cmd' = [cmd EXCEPT ![s] = c]
      BY <2>5, <3>1 DEF React, Unreact, Goes
    <3> QED
      BY <2>5, <3>2 DEF TypeOK, React, Unreact
  <2>6. ASSUME NEW s \in Sessions, ReplyInsert(s) PROVE TypeOK'
    <3>1. cmd[s].post.id \in Ids
      BY <2>6, CommandFields DEF ReplyInsert, Doing, PostRow
    <3>2. made' \in Nat /\ [id |-> made', author |-> Owner[s], local |-> FALSE, parent |-> cmd[s].post.id] \in PostRow
      BY <2>6, <3>1 DEF TypeOK, ReplyInsert, CreatePost, PostRow, Ids, NoId
    <3>3. posts' \in SUBSET PostRow
      BY <2>6, <3>2 DEF TypeOK, ReplyInsert, CreatePost
    <3>4. late' \in SUBSET (Sessions \X Ids)
      BY <2>6, <3>1 DEF TypeOK, ReplyInsert, AddsTo
    <3> QED
      BY <2>6, <3>2, <3>3, <3>4 DEF TypeOK, ReplyInsert, Done, Goes
  <2>7. ASSUME NEW s \in Sessions, DeletePost(s) PROVE TypeOK'
    BY <2>7, CommandFields DEF TypeOK, DeletePost, Doing, PostRow, Done, Goes
  <2>8. ASSUME NEW s \in Sessions, DraftNew(s) PROVE TypeOK'
    BY <2>8 DEF TypeOK, DraftNew, DraftRow, Ids, NoId
  <2>9. ASSUME NEW s \in Sessions, DraftPublish(s) PROVE TypeOK'
    <3>1. cmd[s].draft \in Ids
      BY <2>9, CommandFields DEF DraftPublish, Doing
    <3>2. [op |-> "discard", draft |-> cmd[s].draft] \in Command
      BY <3>1 DEF Command
    <3>3. made + 1 \in Ids /\ [id |-> made + 1, author |-> Owner[s], local |-> FALSE, parent |-> NoId] \in PostRow
      BY DEF TypeOK, PostRow, Ids, NoId
    <3>4. made' \in Nat /\ posts' \in SUBSET PostRow
      BY <2>9, <3>3 DEF TypeOK, DraftPublish, CreatePost, Ids
    <3>5. published' \in SUBSET (Ids \X Ids \X Sessions)
      BY <2>9, <3>1, <3>3 DEF TypeOK, DraftPublish, CreatePost
    <3>6. cmd' \in [Sessions -> Command \cup {Nil}]
      BY <2>9, <3>2 DEF TypeOK, DraftPublish, Done, Goes
    <3>7. faults' \in Nat
      BY <2>9 DEF TypeOK, DraftPublish, Fault, CreatePost
    <3>8. UNCHANGED <<deleted, drafts, reactions, notifs, read, saved, tried, inserted, withdrawn, late, untold, undiscarded>>
      BY <2>9 DEF DraftPublish
    <3> QED
      BY <3>4, <3>5, <3>6, <3>7, <3>8 DEF TypeOK
  <2>10. ASSUME NEW s \in Sessions, DraftDiscard(s) PROVE TypeOK'
    <3>1. cmd[s].draft \in Ids
      BY <2>10, CommandFields DEF DraftDiscard, Doing
    <3> QED
      BY <2>10, <3>1 DEF TypeOK, DraftDiscard, Fault, Done, Goes
  <2>11. ASSUME NEW s \in Sessions, DraftWithdraw(s) PROVE TypeOK'
    BY <2>11, CommandFields DEF TypeOK, DraftWithdraw, Doing, Done, Goes
  <2>12. ASSUME NEW s \in Sessions, ReactCheck(s) PROVE TypeOK'
    <3>1. cmd[s].post \in PostRow /\ cmd[s].kind \in Kinds /\ cmd[s] \in Command /\ cmd[s].op = "check"
      BY <2>12, CommandFields DEF ReactCheck, Doing
    <3>2. [cmd[s] EXCEPT !.op = "insert"] \in Command
      BY <3>1 DEF Command
    <3> QED
      BY <2>12, <3>2 DEF TypeOK, ReactCheck, Done, Goes
  <2>13. ASSUME NEW s \in Sessions, ReactInsert(s) PROVE TypeOK'
    <3>1. cmd[s].post \in PostRow /\ cmd[s].kind \in Kinds /\ cmd[s].post.id \in Ids
      BY <2>13, CommandFields DEF ReactInsert, Doing, PostRow
    <3>2. tried' \in Ids
      BY <2>13 DEF TypeOK, ReactInsert, Ids, NoId
    <3>3. [op |-> "notify", id |-> tried', kind |-> cmd[s].kind, post |-> cmd[s].post] \in Command
      BY <3>1, <3>2 DEF Command
    <3>4. \E c \in Command \cup {Nil} : cmd' = [cmd EXCEPT ![s] = c]
      BY <2>13, <3>3 DEF ReactInsert, NotifyNext, Done, Goes
    <3>5. [id |-> tried', kind |-> cmd[s].kind, user |-> Owner[s], post |-> cmd[s].post.id] \in ReactionRow
      BY <3>1, <3>2 DEF ReactionRow
    <3>6. cmd' \in [Sessions -> Command \cup {Nil}]
      BY <3>4 DEF TypeOK
    <3>7. reactions' \in SUBSET ReactionRow /\ inserted' \in SUBSET Ids
      BY <2>13, <3>2, <3>5 DEF TypeOK, ReactInsert
    <3>8. late' \in SUBSET (Sessions \X Ids)
      BY <2>13, <3>1 DEF TypeOK, ReactInsert, AddsTo
    <3>9. tried' \in Nat
      BY <3>2 DEF Ids
    <3>10. UNCHANGED <<posts, deleted, drafts, notifs, read, made, saved, published, withdrawn, untold, undiscarded, faults>>
      BY <2>13 DEF ReactInsert
    <3> QED
      BY <3>6, <3>7, <3>8, <3>9, <3>10 DEF TypeOK
  <2>14. ASSUME NEW s \in Sessions, ReactNotify(s) PROVE TypeOK'
    <3>1. NotifOf(s) \in NotifRow
      BY <2>14, CommandFields DEF ReactNotify, Doing, NotifOf, NotifRow, PostRow
    <3>2. cmd[s].id \in Ids
      BY <2>14, CommandFields DEF ReactNotify, Doing
    <3> QED
      BY <2>14, <3>1, <3>2 DEF TypeOK, ReactNotify, Fault, Done, Goes
  <2>15. ASSUME NEW s \in Sessions, ReactionRemove(s) PROVE TypeOK'
    BY <2>15 DEF TypeOK, ReactionRemove, Done, Goes
  <2>16. ASSUME NEW s \in Sessions, NotifRead(s) PROVE TypeOK'
    <3>1. \A N \in {{n} : n \in NotifsOf(s)} \cup {NotifsOf(s)} : {n.id : n \in N} \subseteq Ids
      BY DEF TypeOK, NotifsOf, NotifRow
    <3> QED
      BY <2>16, <3>1 DEF TypeOK, NotifRead
  <2>17. CASE Crash
    <3>1. \A t \in Sessions : /\ Doing(t, "notify") => cmd[t].id \in Ids
                              /\ Doing(t, "discard") => cmd[t].draft \in Ids
      BY CommandFields DEF Doing
    <3>2. untold' \in SUBSET Ids /\ undiscarded' \in SUBSET (Sessions \X Ids)
      BY <2>17, <3>1 DEF TypeOK, Crash
    <3>3. faults' \in Nat /\ cmd' \in [Sessions -> Command \cup {Nil}]
      BY <2>17 DEF TypeOK, Crash, Fault
    <3>4. UNCHANGED <<posts, deleted, drafts, reactions, notifs, read, made, saved, tried, inserted, published, withdrawn, late>>
      BY <2>17 DEF Crash
    <3> QED
      BY <3>2, <3>3, <3>4 DEF TypeOK
  <2> QED
    BY <2>1, <2>2, <2>3, <2>4, <2>5, <2>6, <2>7, <2>8, <2>9, <2>10, <2>11, <2>12, <2>13, <2>14, <2>15, <2>16, <2>17 DEF Next
<1> QED
  BY <1>1, <1>2, PTL DEF Spec
-----------------------------------------------------------------------------
(* Posts that are deleted: additions to them only run out.                 *)

\* A session moves on to a command that adds nothing, that adds to a post
\* which is not deleted, or that adds to the post it was adding to.
LEMMA DrainMoves ==
  ASSUME TypeOK, DeadPostsDrain, NEW s \in Sessions, NEW c, cmd' = [cmd EXCEPT ![s] = c],
         late' = late, deleted \subseteq deleted',
         \/ c = Nil
         \/ c.op \notin {"reply", "check", "insert"}
         \/ c.post.id \notin deleted
         \/ AddingTo(s, c.post.id)
  PROVE  DeadPostsDrain'
<1> SUFFICES ASSUME NEW x \in late PROVE x[2] \in deleted' /\ ~AddingTo(x[1], x[2])'
  BY DEF DeadPostsDrain
<1>1. x[1] \in Sessions /\ x[2] \in deleted /\ ~AddingTo(x[1], x[2])
  BY DEF TypeOK, DeadPostsDrain
<1>2. CASE x[1] = s
  BY <1>1, <1>2 DEF TypeOK, AddingTo, Doing
<1>3. CASE x[1] # s
  BY <1>1, <1>3 DEF TypeOK, AddingTo, Doing
<1> QED
  BY <1>2, <1>3

\* A session that adds to a post is at no other addition afterwards.
LEMMA DrainAdds ==
  ASSUME TypeOK, DeadPostsDrain, NEW s \in Sessions, NEW p, NEW c, cmd' = [cmd EXCEPT ![s] = c],
         AddsTo(s, p), UNCHANGED deleted, c = Nil \/ c.op = "notify"
  PROVE  DeadPostsDrain'
<1> SUFFICES ASSUME NEW x \in late' PROVE x[2] \in deleted' /\ ~AddingTo(x[1], x[2])'
  BY DEF DeadPostsDrain
<1>1. x \in late \/ (x = <<s, p>> /\ p \in deleted)
  BY DEF AddsTo
<1>2. ~AddingTo(s, x[2])'
  BY DEF TypeOK, AddingTo, Doing
<1>3. CASE x \in late
  <2>1. x[1] \in Sessions /\ x[2] \in deleted /\ ~AddingTo(x[1], x[2])
    BY <1>3 DEF TypeOK, DeadPostsDrain
  <2>2. CASE x[1] = s
    BY <1>2, <2>1, <2>2
  <2>3. CASE x[1] # s
    BY <2>1, <2>3 DEF TypeOK, AddingTo, Doing
  <2> QED
    BY <2>2, <2>3
<1>4. CASE x = <<s, p>> /\ p \in deleted
  BY <1>2, <1>4
<1> QED
  BY <1>1, <1>3, <1>4

\* DeadPostsDrain is inductive.
LEMMA DrainStep ==
  ASSUME TypeOK, DeadPostsDrain, [Next]_vars
  PROVE  DeadPostsDrain'
<1>1. CASE UNCHANGED vars
  BY <1>1 DEF vars, DeadPostsDrain, AddingTo, Doing
<1>2. ASSUME NEW s \in Sessions, NEW l \in BOOLEAN, PostCreate(s, l) PROVE DeadPostsDrain'
  BY <1>2 DEF PostCreate, DeadPostsDrain, AddingTo, Doing
<1>3. ASSUME NEW s \in Sessions, NEW p \in posts, PostReply(s, p) \/ PostDelete(s, p) PROVE DeadPostsDrain'
  <2>1. p.id \notin deleted
    BY <1>3 DEF PostReply, PostDelete, Visible
  <2>2. \E op : cmd' = [cmd EXCEPT ![s] = [op |-> op, post |-> p]]
    BY <1>3 DEF PostReply, PostDelete, Goes
  <2> QED
    BY <1>3, <2>1, <2>2, DrainMoves DEF PostReply, PostDelete
<1>4. ASSUME NEW s \in Sessions, NEW d \in 1..saved, DraftPost(s, d) \/ DraftDelete(s, d) PROVE DeadPostsDrain'
  <2>1. \E op \in {"publish", "withdraw"} : cmd' = [cmd EXCEPT ![s] = [op |-> op, draft |-> d]]
    BY <1>4 DEF DraftPost, DraftDelete, Goes
  <2> QED
    BY <1>4, <2>1, DrainMoves DEF DraftPost, DraftDelete
<1>5. ASSUME NEW s \in Sessions, NEW k \in Kinds, NEW p \in posts, React(s, k, p) \/ Unreact(s, k, p)
      PROVE  DeadPostsDrain'
  <2>1. p.id \notin deleted
    BY <1>5 DEF React, Unreact, Visible
  <2>2. \E op : cmd' = [cmd EXCEPT ![s] = [op |-> op, kind |-> k, post |-> p]]
    BY <1>5 DEF React, Unreact, Goes
  <2> QED
    BY <1>5, <2>1, <2>2, DrainMoves DEF React, Unreact
<1>6. ASSUME NEW s \in Sessions, ReplyInsert(s) PROVE DeadPostsDrain'
  BY <1>6, DrainAdds DEF ReplyInsert, Done, Goes
<1>7. ASSUME NEW s \in Sessions,
             DeletePost(s) \/ DraftDiscard(s) \/ DraftWithdraw(s) \/ ReactNotify(s) \/ ReactionRemove(s)
      PROVE  DeadPostsDrain'
  <2>1. cmd' = [cmd EXCEPT ![s] = Nil] /\ late' = late /\ deleted \subseteq deleted'
    BY <1>7 DEF DeletePost, DraftDiscard, DraftWithdraw, ReactNotify, ReactionRemove, Done, Goes
  <2> QED
    BY <2>1, DrainMoves
<1>8. ASSUME NEW s \in Sessions, DraftNew(s) \/ NotifRead(s) PROVE DeadPostsDrain'
  BY <1>8 DEF DraftNew, NotifRead, DeadPostsDrain, AddingTo, Doing
<1>9. ASSUME NEW s \in Sessions, DraftPublish(s) PROVE DeadPostsDrain'
  <2>1. UNCHANGED <<late, deleted>>
    BY <1>9 DEF DraftPublish
  <2>2. \/ cmd' = [cmd EXCEPT ![s] = [op |-> "discard", draft |-> cmd[s].draft]]
        \/ cmd' = [cmd EXCEPT ![s] = Nil]
    BY <1>9 DEF DraftPublish, Done, Goes, CreatePost
  <2> QED
    BY <2>1, <2>2, DrainMoves
<1>10. ASSUME NEW s \in Sessions, ReactCheck(s) PROVE DeadPostsDrain'
  <2>1. cmd[s] \in Command /\ cmd[s].op = "check" /\ AddingTo(s, cmd[s].post.id)
    BY <1>10, CommandFields DEF ReactCheck, Doing, AddingTo
  <2>2. [cmd[s] EXCEPT !.op = "insert"].post = cmd[s].post
    BY <2>1 DEF Command
  <2> QED
    BY <1>10, <2>1, <2>2, DrainMoves DEF ReactCheck, Done, Goes
<1>11. ASSUME NEW s \in Sessions, ReactInsert(s) PROVE DeadPostsDrain'
  <2>1. UNCHANGED deleted
    BY <1>11 DEF ReactInsert
  <2>2. \/ cmd' = [cmd EXCEPT ![s] = Nil] /\ late' = late
        \/ \E c : /\ cmd' = [cmd EXCEPT ![s] = c]
                  /\ c = Nil \/ c.op = "notify"
                  /\ AddsTo(s, cmd[s].post.id)
    BY <1>11 DEF ReactInsert, NotifyNext, Done, Goes
  <2> QED
    BY <2>1, <2>2, DrainMoves, DrainAdds
<1>12. CASE Crash
  BY <1>12 DEF Crash, DeadPostsDrain, AddingTo, Doing, TypeOK
<1> QED
  BY <1>1, <1>2, <1>3, <1>4, <1>5, <1>6, <1>7, <1>8, <1>9, <1>10, <1>11, <1>12 DEF Next

\* A session adds to a deleted post at most once, and to no other meanwhile.
THEOREM DeadPostsDrainOut == Spec => []DeadPostsDrain
<1>1. Init => DeadPostsDrain
  BY DEF Init, DeadPostsDrain
<1>2. TypeOK /\ DeadPostsDrain /\ [Next]_vars => DeadPostsDrain'
  BY DrainStep
<1> QED
  BY <1>1, <1>2, TypeCorrect, PTL DEF Spec
-----------------------------------------------------------------------------
(* Reactions                                                               *)

\* UNIQUE keeps one reaction of a kind for each user and post.
THEOREM ReactionsAreUnique == Spec => []OneReactionEach
<1>1. Init => OneReactionEach
  BY DEF Init, OneReactionEach
<1>2. OneReactionEach /\ [Next]_vars => OneReactionEach'
  <2> SUFFICES ASSUME OneReactionEach, [Next]_vars PROVE OneReactionEach'
    OBVIOUS
  <2>1. ASSUME NEW s \in Sessions, ReactInsert(s) PROVE OneReactionEach'
    <3>1. CASE UNCHANGED reactions
      BY <3>1 DEF OneReactionEach
    <3>2. CASE ~UNCHANGED reactions
      <4> DEFINE new == [id |-> tried', kind |-> cmd[s].kind, user |-> Owner[s], post |-> cmd[s].post.id]
      <4>1. /\ reactions' = reactions \cup {new}
            /\ ReactionsOf(new.kind, new.user, new.post) = {}
        BY <2>1, <3>2 DEF ReactInsert, Taken
      <4> HIDE DEF new
      <4> QED
        BY <4>1 DEF OneReactionEach, ReactionsOf
    <3> QED
      BY <3>1, <3>2
  <2>2. ASSUME NEW s \in Sessions, ReactionRemove(s) PROVE OneReactionEach'
    BY <2>2 DEF ReactionRemove, OneReactionEach
  <2>3. CASE UNCHANGED reactions
    BY <2>3 DEF OneReactionEach
  <2> QED
    BY <2>1, <2>2, <2>3 DEF Next, vars, PostCreate, PostReply, PostDelete, DraftPost, DraftDelete, React, Unreact,
         ReplyInsert, DeletePost, DraftNew, DraftPublish, DraftDiscard, DraftWithdraw, ReactCheck, ReactNotify,
         NotifRead, Crash
<1> QED
  BY <1>1, <1>2, PTL DEF Spec
-----------------------------------------------------------------------------
(* Drafts                                                                  *)

\* The draft session s has found, and is about to publish, discard or withdraw.
Holds(s) == cmd[s] # Nil /\ cmd[s].op \in {"publish", "discard", "withdraw"}

\* Draft d has become a post that is in the table.
IsPost(d) == \E x \in published : x[2] = d /\ \E p \in posts : p.id = x[1]

\* The session that made the post x of a draft could not delete the draft.
Undiscarded(x) == <<x[3], x[2]>> \in undiscarded

\* But for a deletion that failed: a session that is about to publish a draft has
\* not done so before, and a draft it has published is gone or about to go.
OnceInv ==
  /\ \A x, y \in published : x[2] = y[2] /\ x[3] = y[3] /\ ~Undiscarded(x) => x = y
  /\ \A x \in published : Doing(x[3], "publish") /\ cmd[x[3]].draft = x[2] => Undiscarded(x)
  /\ \A x \in published :
       \/ \A row \in drafts : row.id # x[2]
       \/ Doing(x[3], "discard") /\ cmd[x[3]].draft = x[2]
       \/ Undiscarded(x)

DraftInv ==
  /\ \A x \in published : x[2] <= saved
  /\ \A row \in drafts : row.id <= saved
  /\ \A s \in Sessions : Holds(s) => cmd[s].draft <= saved
  /\ \A s \in Sessions : Doing(s, "discard") => IsPost(cmd[s].draft)
  /\ NoDraftLost
  /\ OnceInv

\* Steps that leave drafts alone, and no session takes one up or lets one go.
LEMMA DraftFrame ==
  ASSUME TypeOK, DraftInv, UNCHANGED <<drafts, published, saved, withdrawn, undiscarded>>,
         posts \subseteq posts',
         \A s \in Sessions : cmd'[s] = cmd[s] \/ (~Holds(s) /\ ~Holds(s)')
  PROVE  DraftInv'
<1>1. \A s \in Sessions : Holds(s)' => cmd'[s] = cmd[s] /\ Holds(s)
  BY DEF Holds
<1>2. \A s \in Sessions : Doing(s, "publish") \/ Doing(s, "discard") => cmd'[s] = cmd[s]
  BY DEF Doing, Holds
<1>3. \A s \in Sessions : (Doing(s, "publish") <=> Doing(s, "publish")') /\ (Doing(s, "discard") <=> Doing(s, "discard")')
  BY DEF Doing, Holds
<1>4. \A d : IsPost(d) => IsPost(d)'
  BY DEF IsPost
<1>5. NoDraftLost'
  <2>1. \A d \in 1..saved : (\E row \in drafts : row.id = d) \/ IsPost(d) \/ d \in withdrawn
    BY DEF DraftInv, NoDraftLost, IsPost
  <2> QED
    BY <1>4, <2>1 DEF NoDraftLost, IsPost
<1>6. OnceInv'
  <2>1. OnceInv /\ \A x \in published : x[3] \in Sessions
    BY DEF DraftInv, TypeOK
  <2> QED
    BY <1>2, <1>3, <2>1 DEF OnceInv, Undiscarded
<1> QED
  BY <1>1, <1>2, <1>3, <1>4, <1>5, <1>6 DEF DraftInv

\* A command that has to do with no draft, before and after.
LEMMA OtherCommand ==
  ASSUME TypeOK, NEW s \in Sessions, NEW c, cmd' = [cmd EXCEPT ![s] = c], ~Holds(s),
         c = Nil \/ c.op \notin {"publish", "discard", "withdraw"}
  PROVE  \A t \in Sessions : cmd'[t] = cmd[t] \/ (~Holds(t) /\ ~Holds(t)')
  BY DEF TypeOK, Holds

\* DraftInv is inductive.
LEMMA DraftStep ==
  ASSUME TypeOK, TypeOK', DraftInv, [Next]_vars
  PROVE  DraftInv'
<1> USE PostsAssumption
<1>1. CASE UNCHANGED vars
  BY <1>1, DraftFrame DEF vars
<1>2. ASSUME NEW s \in Sessions, NEW l \in BOOLEAN, PostCreate(s, l) PROVE DraftInv'
  <2>1. posts \subseteq posts'
    BY <1>2 DEF PostCreate, CreatePost
  <2> QED
    BY <1>2, <2>1, DraftFrame DEF PostCreate
<1>3. ASSUME NEW s \in Sessions, NEW p \in posts, PostReply(s, p) \/ PostDelete(s, p) PROVE DraftInv'
  <2>1. \E op \in {"reply", "delete"} : cmd' = [cmd EXCEPT ![s] = [op |-> op, post |-> p]]
    BY <1>3 DEF PostReply, PostDelete, Goes
  <2>2. ~Holds(s)
    BY <1>3 DEF PostReply, PostDelete, Idle, Holds
  <2> QED
    BY <1>3, <2>1, <2>2, OtherCommand, DraftFrame DEF PostReply, PostDelete
<1>4. ASSUME NEW s \in Sessions, NEW k \in Kinds, NEW p \in posts, React(s, k, p) \/ Unreact(s, k, p)
      PROVE  DraftInv'
  <2>1. \E op \in {"check", "insert", "undo"} : cmd' = [cmd EXCEPT ![s] = [op |-> op, kind |-> k, post |-> p]]
    BY <1>4 DEF React, Unreact, Goes
  <2>2. ~Holds(s)
    BY <1>4 DEF React, Unreact, Idle, Holds
  <2> QED
    BY <1>4, <2>1, <2>2, OtherCommand, DraftFrame DEF React, Unreact
<1>5. ASSUME NEW s \in Sessions, ReplyInsert(s) \/ DeletePost(s) \/ ReactionRemove(s) PROVE DraftInv'
  <2>1. cmd' = [cmd EXCEPT ![s] = Nil] /\ ~Holds(s)
    BY <1>5 DEF ReplyInsert, DeletePost, ReactionRemove, Done, Goes, Doing, Holds
  <2>2. posts \subseteq posts'
    BY <1>5 DEF ReplyInsert, DeletePost, ReactionRemove, CreatePost
  <2> QED
    BY <1>5, <2>1, <2>2, OtherCommand, DraftFrame DEF ReplyInsert, DeletePost, ReactionRemove
<1>6. ASSUME NEW s \in Sessions, ReactCheck(s) PROVE DraftInv'
  <2>1. cmd[s] \in Command /\ cmd[s].op = "check" /\ ~Holds(s)
    BY <1>6, CommandFields DEF ReactCheck, Doing, Holds
  <2>2. [cmd[s] EXCEPT !.op = "insert"].op = "insert"
    BY <2>1 DEF Command
  <2> QED
    BY <1>6, <2>1, <2>2, OtherCommand, DraftFrame DEF ReactCheck, Done, Goes
<1>7. ASSUME NEW s \in Sessions, ReactInsert(s) PROVE DraftInv'
  <2>1. \E c : cmd' = [cmd EXCEPT ![s] = c] /\ (c = Nil \/ c.op = "notify")
    BY <1>7 DEF ReactInsert, NotifyNext, Done, Goes
  <2>2. ~Holds(s)
    BY <1>7 DEF ReactInsert, Doing, Holds
  <2>3. UNCHANGED <<posts, drafts, published, saved, withdrawn, undiscarded>>
    BY <1>7 DEF ReactInsert
  <2> QED
    BY <2>1, <2>2, <2>3, OtherCommand, DraftFrame
<1>8. ASSUME NEW s \in Sessions, NotifRead(s) PROVE DraftInv'
  BY <1>8, DraftFrame DEF NotifRead
<1>9. ASSUME NEW s \in Sessions, ReactNotify(s) PROVE DraftInv'
  <2>1. cmd' = [cmd EXCEPT ![s] = Nil] /\ ~Holds(s)
    BY <1>9 DEF ReactNotify, Done, Goes, Doing, Holds
  <2>2. UNCHANGED <<posts, drafts, published, saved, withdrawn, undiscarded>>
    BY <1>9 DEF ReactNotify
  <2> QED
    BY <2>1, <2>2, OtherCommand, DraftFrame
<1>10. CASE Crash
  <2>1. /\ UNCHANGED <<posts, drafts, published, saved, withdrawn>>
        /\ undiscarded \subseteq undiscarded'
        /\ \A t \in Sessions : cmd'[t] = Nil
        /\ \A t \in Sessions : Doing(t, "discard") => <<t, cmd[t].draft>> \in undiscarded'
    BY <1>10 DEF Crash
  <2>2. \A x \in published : x[3] \in Sessions
    BY DEF TypeOK
  <2>3. OnceInv'
    BY <2>1, <2>2 DEF DraftInv, OnceInv, Undiscarded, Doing
  <2> QED
    BY <2>1, <2>3 DEF DraftInv, NoDraftLost, Holds, Doing
<1>11. ASSUME NEW s \in Sessions, DraftNew(s) PROVE DraftInv'
  <2>1. /\ saved \in Nat /\ saved' = saved + 1
        /\ drafts' = drafts \cup {[id |-> saved', user |-> Owner[s]]}
        /\ UNCHANGED <<posts, cmd, published, withdrawn, undiscarded>>
    BY <1>11 DEF DraftNew, TypeOK
  <2>2. \A x \in published : x[2] \in Nat /\ x[2] <= saved
    BY DEF DraftInv, TypeOK, Ids
  <2>3. \A row \in drafts : row.id \in Nat /\ row.id <= saved
    BY DEF DraftInv, TypeOK, DraftRow, Ids
  <2>4. \A t \in Sessions : Holds(t) => cmd[t].draft \in Nat /\ cmd[t].draft <= saved
    BY CommandFields DEF DraftInv, Holds, Ids
  <2>5. NoDraftLost'
    <3> SUFFICES ASSUME NEW d \in 1..saved'
                 PROVE  \/ \E row \in drafts' : row.id = d
                        \/ \E x \in published : x[2] = d /\ \E p \in posts : p.id = x[1]
                        \/ d \in withdrawn
      BY <2>1 DEF NoDraftLost
    <3>1. CASE d = saved'
      <4> DEFINE row == [id |-> saved', user |-> Owner[s]]
      <4>1. row \in drafts' /\ row.id = d
        BY <2>1, <3>1
      <4> QED
        BY <4>1
    <3>2. CASE d \in 1..saved
      BY <2>1, <3>2 DEF DraftInv, NoDraftLost
    <3> QED
      BY <2>1, <3>1, <3>2
  <2>6. OnceInv'
    BY <2>1, <2>2 DEF DraftInv, OnceInv, Undiscarded, Doing
  <2> QED
    BY <2>1, <2>2, <2>3, <2>4, <2>5, <2>6 DEF DraftInv, Holds, Doing, IsPost
<1>12. ASSUME NEW s \in Sessions, NEW d \in 1..saved, DraftPost(s, d) \/ DraftDelete(s, d) PROVE DraftInv'
  <2>1. PICK op \in {"publish", "withdraw"} : cmd' = [cmd EXCEPT ![s] = [op |-> op, draft |-> d]]
    BY <1>12 DEF DraftPost, DraftDelete, Goes
  <2>2. UNCHANGED <<posts, drafts, published, saved, withdrawn, undiscarded>> /\ cmd[s] = Nil
    BY <1>12 DEF DraftPost, DraftDelete, Idle
  <2>3. \E row \in drafts : row.id = d
    BY <1>12 DEF DraftPost, DraftDelete, Finds
  <2>4. \A t \in Sessions : Holds(t)' => cmd'[t].draft <= saved
    BY <2>1, <2>2 DEF DraftInv, Holds, TypeOK
  <2>5. \A t \in Sessions : Doing(t, "discard")' => IsPost(cmd[t].draft) /\ cmd'[t] = cmd[t]
    BY <2>1, <2>2 DEF DraftInv, Doing, TypeOK
  <2>6. OnceInv'
    <3>1. OnceInv /\ \A x \in published : x[3] \in Sessions
      BY DEF DraftInv, TypeOK
    <3>2. \A x \in published : Doing(x[3], "discard") => x[3] # s
      BY <2>2 DEF Doing
    <3>3. \A x \in published : x[3] # s => cmd'[x[3]] = cmd[x[3]]
      BY <2>1, <3>1 DEF TypeOK
    <3>4. \A x \in published : x[3] = s /\ x[2] = d => Undiscarded(x)
      BY <2>3, <3>1, <3>2 DEF OnceInv
    <3>5. \A x \in published : (Doing(x[3], "publish") /\ cmd[x[3]].draft = x[2])' => Undiscarded(x)
      <4> SUFFICES ASSUME NEW x \in published, (Doing(x[3], "publish") /\ cmd[x[3]].draft = x[2])'
                   PROVE  Undiscarded(x)
        BY <2>2
      <4>1. CASE x[3] = s
        BY <2>1, <3>4, <4>1 DEF TypeOK
      <4>2. CASE x[3] # s
        BY <3>1, <3>3, <4>2 DEF OnceInv, Doing
      <4> QED
        BY <4>1, <4>2
    <3>6. \A x \in published : Doing(x[3], "discard") => Doing(x[3], "discard")' /\ cmd'[x[3]] = cmd[x[3]]
      BY <3>2, <3>3 DEF Doing
    <3> QED
      BY <2>2, <3>1, <3>5, <3>6 DEF OnceInv, Undiscarded
  <2> QED
    BY <2>2, <2>4, <2>5, <2>6 DEF DraftInv, NoDraftLost, IsPost
<1>13. ASSUME NEW s \in Sessions, DraftPublish(s) PROVE DraftInv'
  <2>1. /\ cmd[s] # Nil /\ cmd[s].op = "publish" /\ Doing(s, "publish") /\ Holds(s)
        /\ cmd[s].draft \in Ids /\ cmd[s].draft <= saved
        /\ UNCHANGED <<drafts, saved, withdrawn, undiscarded>>
    BY <1>13, CommandFields DEF DraftPublish, Doing, Holds, DraftInv
  <2>2. CASE faults' = faults + 1 /\ UNCHANGED <<posts, published>> /\ cmd' = [cmd EXCEPT ![s] = Nil]
    <3>1. \A t \in Sessions : cmd'[t] # Nil => cmd'[t] = cmd[t]
      BY <2>2 DEF TypeOK
    <3>2. \A t \in Sessions : Doing(t, "discard") => cmd'[t] = cmd[t]
      BY <2>1, <2>2 DEF Doing, TypeOK
    <3>3. OnceInv /\ \A x \in published : x[3] \in Sessions
      BY DEF DraftInv, TypeOK
    <3>4. OnceInv'
      BY <2>1, <2>2, <3>1, <3>2, <3>3 DEF OnceInv, Undiscarded, Doing
    <3> QED
      BY <2>1, <2>2, <3>1, <3>4 DEF DraftInv, NoDraftLost, IsPost, Holds, Doing
  <2>3. CASE /\ made' = made + 1 /\ \E b : posts' = posts \cup {[id |-> made', author |-> Owner[s], local |-> b, parent |-> NoId]}
             /\ published' = published \cup {<<made', cmd[s].draft, s>>}
             /\ cmd' = [cmd EXCEPT ![s] = [op |-> "discard", draft |-> cmd[s].draft]]
             /\ UNCHANGED faults
    <3> DEFINE d == cmd[s].draft
               new == <<made', d, s>>
    <3>1. \A x \in published : x[3] \in Sessions
      BY DEF TypeOK
    <3>2. \A t \in Sessions : t # s => cmd'[t] = cmd[t]
      BY <2>3 DEF TypeOK
    <3>3. cmd'[s] = [op |-> "discard", draft |-> d] /\ cmd'[s] # Nil
      BY <2>1, <2>3, NilAssumption DEF TypeOK, Command
    <3>4. IsPost(d)'
      <4>1. PICK b : posts' = posts \cup {[id |-> made', author |-> Owner[s], local |-> b, parent |-> NoId]}
        BY <2>3
      <4> DEFINE p == [id |-> made', author |-> Owner[s], local |-> b, parent |-> NoId]
      <4>2. p \in posts' /\ p.id = new[1]
        BY <4>1
      <4>3. new \in published' /\ new[2] = cmd'[s].draft
        BY <2>3, <3>3
      <4> QED
        BY <4>2, <4>3 DEF IsPost
    <3>5. \A e : IsPost(e) => IsPost(e)'
      BY <2>3 DEF IsPost
    <3>6. NoDraftLost'
      <4>1. \A e \in 1..saved : (\E row \in drafts : row.id = e) \/ IsPost(e) \/ e \in withdrawn
        BY DEF DraftInv, NoDraftLost, IsPost
      <4> QED
        BY <2>1, <3>5, <4>1 DEF NoDraftLost, IsPost
    <3>7. OnceInv'
      <4>1. OnceInv
        BY DEF DraftInv
      <4>2. \A x \in published : x[3] = s /\ x[2] = d => Undiscarded(x)
        BY <2>1, <4>1 DEF OnceInv
      <4>3. \A x, y \in published' : x[2] = y[2] /\ x[3] = y[3] /\ ~Undiscarded(x) => x = y
        BY <2>3, <4>1, <4>2 DEF OnceInv, Undiscarded
      <4>4. \A x \in published' : (Doing(x[3], "publish") /\ cmd[x[3]].draft = x[2])' => Undiscarded(x)
        BY <2>3, <3>1, <3>2, <3>3, <4>1 DEF OnceInv, Doing
      <4>5. ASSUME NEW x \in published'
            PROVE  \/ \A row \in drafts' : row.id # x[2]
                   \/ Doing(x[3], "discard")' /\ cmd'[x[3]].draft = x[2]
                   \/ Undiscarded(x)
        <5>1. CASE x = new
          BY <3>3, <5>1 DEF Doing
        <5>2. CASE x \in published /\ x[3] = s
          BY <2>1, <4>1, <5>2 DEF OnceInv, Doing
        <5>3. CASE x \in published /\ x[3] # s
          BY <2>1, <3>1, <3>2, <4>1, <5>3 DEF OnceInv, Doing
        <5> QED
          BY <2>3, <5>1, <5>2, <5>3
      <4> QED
        BY <2>1, <4>3, <4>4, <4>5 DEF OnceInv, Undiscarded
    <3>8. \A t \in Sessions : Doing(t, "discard")' => IsPost(cmd[t].draft)'
      BY <3>2, <3>3, <3>4, <3>5 DEF DraftInv, Doing
    <3>9. \A t \in Sessions : Holds(t)' => cmd'[t].draft <= saved'
      BY <2>1, <3>2, <3>3 DEF DraftInv, Holds
    <3>10. \A x \in published' : x[2] <= saved'
      BY <2>1, <2>3 DEF DraftInv
    <3>11. \A row \in drafts' : row.id <= saved'
      BY <2>1 DEF DraftInv
    <3> QED
      BY <3>6, <3>7, <3>8, <3>9, <3>10, <3>11 DEF DraftInv
  <2> QED
    BY <1>13, <2>2, <2>3 DEF DraftPublish, CreatePost, Fault, Done, Goes
<1>14. ASSUME NEW s \in Sessions, DraftDiscard(s) \/ DraftWithdraw(s) PROVE DraftInv'
  <2> DEFINE d == cmd[s].draft
  <2>1. /\ cmd[s] # Nil /\ Holds(s) /\ cmd' = [cmd EXCEPT ![s] = Nil]
        /\ UNCHANGED <<posts, published, saved>>
        /\ drafts' \subseteq drafts
    BY <1>14 DEF DraftDiscard, DraftWithdraw, Doing, Holds, Done, Goes
  <2>2. \A t \in Sessions : cmd'[t] # Nil => cmd'[t] = cmd[t]
    BY <2>1 DEF TypeOK
  <2>3. NoDraftLost'
    <3>1. \A row \in drafts \ drafts' : row.id = d
      BY <1>14 DEF DraftDiscard, DraftWithdraw
    <3>2. IsPost(d) \/ d \in withdrawn' \/ drafts' = drafts
      BY <1>14 DEF DraftDiscard, DraftWithdraw, DraftInv
    <3>3. withdrawn \subseteq withdrawn'
      BY <1>14 DEF DraftDiscard, DraftWithdraw
    <3>4. \A e \in 1..saved : (\E row \in drafts : row.id = e) \/ IsPost(e) \/ e \in withdrawn
      BY DEF DraftInv, NoDraftLost, IsPost
    <3>5. \A e \in 1..saved : (\E row \in drafts' : row.id = e) \/ IsPost(e) \/ e \in withdrawn'
      BY <3>1, <3>2, <3>3, <3>4
    <3> QED
      BY <2>1, <3>5 DEF NoDraftLost, IsPost
  <2>4. OnceInv'
    <3>1. /\ drafts' = {row \in drafts : row.id # d} \/ <<s, d>> \in undiscarded'
          /\ undiscarded \subseteq undiscarded'
      BY <1>14 DEF DraftDiscard, DraftWithdraw
    <3>2. OnceInv /\ \A x \in published : x[3] \in Sessions
      BY DEF DraftInv, TypeOK
    <3>3. \A t \in Sessions : t # s => cmd'[t] = cmd[t]
      BY <2>1 DEF TypeOK
    <3>4. ASSUME NEW x \in published
          PROVE  \/ \A row \in drafts' : row.id # x[2]
                 \/ Doing(x[3], "discard")' /\ cmd'[x[3]].draft = x[2]
                 \/ Undiscarded(x)'
      <4>1. CASE x[3] = s
        BY <2>1, <3>1, <3>2, <4>1 DEF OnceInv, Undiscarded
      <4>2. CASE x[3] # s
        BY <2>1, <3>1, <3>2, <3>3, <4>2 DEF OnceInv, Undiscarded, Doing
      <4> QED
        BY <4>1, <4>2
    <3> QED
      BY <2>1, <2>2, <3>1, <3>2, <3>4 DEF OnceInv, Undiscarded, Doing
  <2> QED
    BY <2>1, <2>2, <2>3, <2>4 DEF DraftInv, Holds, Doing, IsPost
<1> QED
  BY <1>1, <1>2, <1>3, <1>4, <1>5, <1>6, <1>7, <1>8, <1>9, <1>10, <1>11, <1>12, <1>13, <1>14 DEF Next

\* DraftInv holds of every reachable state.
LEMMA DraftInvariance == Spec => []DraftInv
<1>1. Init => DraftInv
  BY DEF Init, DraftInv, OnceInv, NoDraftLost, Holds, Doing
<1>2. TypeOK /\ TypeOK' /\ DraftInv /\ [Next]_vars => DraftInv'
  BY DraftStep
<1> QED
  BY <1>1, <1>2, TypeCorrect, PTL DEF Spec

\* A session makes a second post of a draft only when deleting it failed.
THEOREM DraftsArePublishedOnce == Spec => []DraftPublishedOnce
<1>1. DraftInv => DraftPublishedOnce
  BY DEF DraftInv, OnceInv, Undiscarded, DraftPublishedOnce
<1> QED
  BY <1>1, DraftInvariance, PTL

\* No draft is lost, whatever fails.
THEOREM DraftsAreKept == Spec => []NoDraftLost
<1>1. DraftInv => NoDraftLost
  BY DEF DraftInv
<1> QED
  BY <1>1, DraftInvariance, PTL
-----------------------------------------------------------------------------
(* Notifications                                                           *)

\* No two sessions are about to tell of the same reaction, none of one that
\* was told, and all of reactions that were inserted.
ToldInv ==
  /\ \A i \in inserted : i <= tried
  /\ \A s \in Sessions : Doing(s, "notify") =>
       cmd[s].id \in inserted /\ \A n \in notifs : n.id # cmd[s].id
  /\ \A s, t \in Sessions : Doing(s, "notify") /\ Doing(t, "notify") /\ cmd[s].id = cmd[t].id => s = t
  /\ ToldWasMade

\* Steps that tell and insert nothing, and start no telling.
LEMMA ToldFrame ==
  ASSUME ToldInv, UNCHANGED <<notifs, inserted, tried>>,
         \A s \in Sessions : Doing(s, "notify")' => cmd'[s] = cmd[s] /\ Doing(s, "notify")
  PROVE  ToldInv'
  BY DEF ToldInv, ToldWasMade

\* A session that goes on to something else than telling.
LEMMA ToldOther ==
  ASSUME TypeOK, NEW s \in Sessions, NEW c, cmd' = [cmd EXCEPT ![s] = c], c = Nil \/ c.op # "notify"
  PROVE  \A t \in Sessions : Doing(t, "notify")' => cmd'[t] = cmd[t] /\ Doing(t, "notify")
  BY DEF TypeOK, Doing

\* ToldInv is inductive.
LEMMA ToldStep ==
  ASSUME TypeOK, ToldInv, [Next]_vars
  PROVE  ToldInv'
<1>1. CASE UNCHANGED vars
  BY <1>1, ToldFrame DEF vars, Doing
<1>2. ASSUME NEW s \in Sessions, (\E l \in BOOLEAN : PostCreate(s, l)) \/ DraftNew(s) \/ NotifRead(s)
      PROVE  ToldInv'
  BY <1>2, ToldFrame DEF PostCreate, DraftNew, NotifRead, Doing
<1>3. ASSUME NEW s \in Sessions, NEW p \in posts, PostReply(s, p) \/ PostDelete(s, p) PROVE ToldInv'
  <2>1. \E op \in {"reply", "delete"} : cmd' = [cmd EXCEPT ![s] = [op |-> op, post |-> p]]
    BY <1>3 DEF PostReply, PostDelete, Goes
  <2> QED
    BY <1>3, <2>1, ToldOther, ToldFrame DEF PostReply, PostDelete
<1>4. ASSUME NEW s \in Sessions, NEW d \in 1..saved, DraftPost(s, d) \/ DraftDelete(s, d) PROVE ToldInv'
  <2>1. \E op \in {"publish", "withdraw"} : cmd' = [cmd EXCEPT ![s] = [op |-> op, draft |-> d]]
    BY <1>4 DEF DraftPost, DraftDelete, Goes
  <2> QED
    BY <1>4, <2>1, ToldOther, ToldFrame DEF DraftPost, DraftDelete
<1>5. ASSUME NEW s \in Sessions, NEW k \in Kinds, NEW p \in posts, React(s, k, p) \/ Unreact(s, k, p)
      PROVE  ToldInv'
  <2>1. \E op \in {"check", "insert", "undo"} : cmd' = [cmd EXCEPT ![s] = [op |-> op, kind |-> k, post |-> p]]
    BY <1>5 DEF React, Unreact, Goes
  <2> QED
    BY <1>5, <2>1, ToldOther, ToldFrame DEF React, Unreact
<1>6. ASSUME NEW s \in Sessions,
             ReplyInsert(s) \/ DeletePost(s) \/ DraftDiscard(s) \/ DraftWithdraw(s) \/ ReactionRemove(s)
      PROVE  ToldInv'
  <2>1. cmd' = [cmd EXCEPT ![s] = Nil] /\ UNCHANGED <<notifs, inserted, tried>>
    BY <1>6 DEF ReplyInsert, DeletePost, DraftDiscard, DraftWithdraw, ReactionRemove, Done, Goes
  <2> QED
    BY <2>1, ToldOther, ToldFrame
<1>7. ASSUME NEW s \in Sessions, DraftPublish(s) PROVE ToldInv'
  <2>1. UNCHANGED <<notifs, inserted, tried>>
    BY <1>7 DEF DraftPublish
  <2>2. \/ cmd' = [cmd EXCEPT ![s] = [op |-> "discard", draft |-> cmd[s].draft]]
        \/ cmd' = [cmd EXCEPT ![s] = Nil]
    BY <1>7 DEF DraftPublish, Done, Goes, CreatePost
  <2> QED
    BY <2>1, <2>2, ToldOther, ToldFrame
<1>8. ASSUME NEW s \in Sessions, ReactCheck(s) PROVE ToldInv'
  <2>1. cmd[s] \in Command /\ cmd[s].op = "check"
    BY <1>8, CommandFields DEF ReactCheck, Doing
  <2>2. [cmd[s] EXCEPT !.op = "insert"].op = "insert"
    BY <2>1 DEF Command
  <2> QED
    BY <1>8, <2>2, ToldOther, ToldFrame DEF ReactCheck, Done, Goes
<1>9. ASSUME NEW s \in Sessions, ReactInsert(s) PROVE ToldInv'
  <2>1. tried' = tried + 1 /\ tried \in Nat /\ UNCHANGED notifs
    BY <1>9 DEF ReactInsert, TypeOK
  <2>2. \A i \in inserted : i \in Nat /\ i <= tried
    BY DEF ToldInv, TypeOK, Ids
  <2>3. CASE cmd' = [cmd EXCEPT ![s] = Nil] /\ inserted \subseteq inserted' /\ inserted' \subseteq inserted \cup {tried'}
    <3>1. \A t \in Sessions : Doing(t, "notify")' => cmd'[t] = cmd[t] /\ Doing(t, "notify")
      BY <2>3, ToldOther
    <3>2. \A i \in inserted' : i <= tried'
      BY <2>1, <2>2, <2>3
    <3> QED
      BY <2>1, <2>3, <3>1, <3>2 DEF ToldInv, ToldWasMade
  <2>4. CASE /\ cmd' = [cmd EXCEPT ![s] = [op |-> "notify", id |-> tried', kind |-> cmd[s].kind, post |-> cmd[s].post]]
             /\ inserted' = inserted \cup {tried'}
    <3>1. \A t \in Sessions : t # s => cmd'[t] = cmd[t]
      BY <2>4 DEF TypeOK
    <3>2. cmd'[s].id = tried'
      BY <2>4 DEF TypeOK
    <3>3. \A i \in inserted : i # tried'
      BY <2>1, <2>2
    <3>4. \A i \in inserted' : i <= tried'
      BY <2>1, <2>2, <2>4
    <3>5. ASSUME NEW t \in Sessions, Doing(t, "notify")'
          PROVE  cmd'[t].id \in inserted' /\ \A n \in notifs' : n.id # cmd'[t].id
      <4>1. CASE t = s
        BY <2>1, <2>4, <3>2, <3>3, <4>1 DEF ToldInv, ToldWasMade
      <4>2. CASE t # s
        BY <2>1, <2>4, <3>1, <3>5, <4>2 DEF ToldInv, Doing
      <4> QED
        BY <4>1, <4>2
    <3>6. ASSUME NEW t \in Sessions, NEW u \in Sessions, Doing(t, "notify")', Doing(u, "notify")', cmd'[t].id = cmd'[u].id
          PROVE  t = u
      <4>1. \A v \in Sessions : v # s /\ Doing(v, "notify")' => cmd'[v].id \in inserted
        BY <3>1 DEF ToldInv, Doing
      <4> QED
        BY <3>1, <3>2, <3>3, <3>6, <4>1 DEF ToldInv, Doing
    <3>7. ToldWasMade'
      BY <2>1, <2>4 DEF ToldInv, ToldWasMade
    <3> QED
      BY <3>4, <3>5, <3>6, <3>7 DEF ToldInv
  <2> QED
    BY <1>9, <2>3, <2>4 DEF ReactInsert, NotifyNext, Done, Goes
<1>10. ASSUME NEW s \in Sessions, ReactNotify(s) PROVE ToldInv'
  <2>1. cmd' = [cmd EXCEPT ![s] = Nil] /\ UNCHANGED <<inserted, tried>> /\ Doing(s, "notify")
    BY <1>10 DEF ReactNotify, Done, Goes
  <2>2. \A t \in Sessions : Doing(t, "notify")' => cmd'[t] = cmd[t] /\ Doing(t, "notify") /\ t # s
    BY <2>1 DEF TypeOK, Doing
  <2>3. CASE UNCHANGED notifs
    BY <2>1, <2>2, <2>3, ToldFrame
  <2>4. CASE notifs' = notifs \cup {NotifOf(s)}
    <3>1. NotifOf(s).id = cmd[s].id
      BY DEF NotifOf
    <3>2. cmd[s].id \in inserted /\ \A n \in notifs : n.id # cmd[s].id
      BY <2>1 DEF ToldInv
    <3>3. ToldWasMade'
      BY <2>1, <2>4, <3>1, <3>2 DEF ToldInv, ToldWasMade
    <3>4. \A t \in Sessions : Doing(t, "notify")' => \A n \in notifs' : n.id # cmd'[t].id
      BY <2>1, <2>2, <2>4, <3>1 DEF ToldInv
    <3> QED
      BY <2>1, <2>2, <3>3, <3>4 DEF ToldInv
  <2> QED
    BY <1>10, <2>3, <2>4 DEF ReactNotify
<1>11. CASE Crash
  BY <1>11, ToldFrame DEF Crash, Doing
<1> QED
  BY <1>1, <1>2, <1>3, <1>4, <1>5, <1>6, <1>7, <1>8, <1>9, <1>10, <1>11 DEF Next

\* ToldInv holds of every reachable state.
LEMMA ToldInvariance == Spec => []ToldInv
<1>1. Init => ToldInv
  BY DEF Init, ToldInv, ToldWasMade, Doing
<1>2. TypeOK /\ ToldInv /\ [Next]_vars => ToldInv'
  BY ToldStep
<1> QED
  BY <1>1, <1>2, TypeCorrect, PTL DEF Spec

\* A notification tells of a reaction that was inserted, and of no other one's.
THEOREM OnlyMadeIsTold == Spec => []ToldWasMade
<1>1. ToldInv => ToldWasMade
  BY DEF ToldInv
<1> QED
  BY <1>1, ToldInvariance, PTL
-----------------------------------------------------------------------------
(* Reactions that stand are told                                           *)

\* The rows a command holds are in the table, and ids are used once.
RowInv ==
  /\ \A p, q \in posts : p.id = q.id => p = q
  /\ \A p \in posts : p.id <= made
  /\ \A s \in Sessions : cmd[s] # Nil /\ cmd[s].op \notin {"publish", "discard", "withdraw"} => cmd[s].post \in posts
  /\ \A r \in reactions : r.post <= made

\* The author of p has been told of r, or a session is about to tell.
Told(r, p) == \E n \in notifs : n.id = r.id /\ n.user = p.author
Telling(r, p) == \E s \in Sessions : Doing(s, "notify") /\ cmd[s].id = r.id /\ cmd[s].post.author = p.author

StandInv ==
  \A r \in reactions, p \in posts :
    r.post = p.id /\ r.kind \in Notified /\ r.user # p.author =>
      Told(r, p) \/ Telling(r, p) \/ r.id \in untold

\* Steps that insert no post and no reaction.
LEMMA StandFrame ==
  ASSUME TypeOK, RowInv, StandInv, UNCHANGED <<posts, made, notifs>>, reactions' \subseteq reactions,
         UNCHANGED untold,
         \A s \in Sessions : cmd'[s] # Nil /\ cmd'[s].op \notin {"publish", "discard", "withdraw"} => cmd'[s].post \in posts,
         \A s \in Sessions : Doing(s, "notify") => cmd'[s] = cmd[s]
  PROVE  RowInv' /\ StandInv'
<1>1. RowInv'
  BY DEF RowInv
<1>2. \A r, p : Telling(r, p) => Telling(r, p)'
  BY DEF Telling, Doing
<1>3. \A r, p : Told(r, p) => Told(r, p)'
  BY DEF Told
<1> QED
  BY <1>1, <1>2, <1>3 DEF StandInv

\* A command of a session that is not telling moves on, with a row of the table.
LEMMA StandMoves ==
  ASSUME TypeOK, RowInv, NEW s \in Sessions, ~Doing(s, "notify"), NEW c, cmd' = [cmd EXCEPT ![s] = c],
         c = Nil \/ c.op \in {"publish", "discard", "withdraw"} \/ c.post \in posts
  PROVE  /\ \A t \in Sessions : cmd'[t] # Nil /\ cmd'[t].op \notin {"publish", "discard", "withdraw"} => cmd'[t].post \in posts
         /\ \A t \in Sessions : Doing(t, "notify") => cmd'[t] = cmd[t]
  BY DEF TypeOK, RowInv, Doing

\* A post is inserted, with the next id.
LEMMA StandPosts ==
  ASSUME TypeOK, RowInv, StandInv, UNCHANGED <<notifs, reactions, untold>>, made' = made + 1,
         NEW row, row.id = made', posts' = posts \cup {row},
         \A s \in Sessions : cmd'[s] # Nil /\ cmd'[s].op \notin {"publish", "discard", "withdraw"} => cmd'[s].post \in posts,
         \A s \in Sessions : Doing(s, "notify") => cmd'[s] = cmd[s]
  PROVE  RowInv' /\ StandInv'
<1>1. /\ made \in Nat
      /\ \A p \in posts : p.id \in Nat /\ p.id <= made
      /\ \A r \in reactions : r.post \in Nat /\ r.post <= made
  BY DEF TypeOK, RowInv, PostRow, ReactionRow, Ids
<1>2. RowInv'
  BY <1>1 DEF RowInv
<1>3. \A r, p : Telling(r, p) => Telling(r, p)'
  BY DEF Telling, Doing
<1>4. \A r, p : Told(r, p) => Told(r, p)'
  BY DEF Told
<1>5. \A r \in reactions : r.post # row.id
  BY <1>1
<1> QED
  BY <1>2, <1>3, <1>4, <1>5 DEF StandInv

\* RowInv and StandInv are inductive.
LEMMA StandStep ==
  ASSUME TypeOK, RowInv, StandInv, [Next]_vars
  PROVE  RowInv' /\ StandInv'
<1>1. CASE UNCHANGED vars
  BY <1>1 DEF vars, RowInv, StandInv, Told, Telling, Doing
<1>2. ASSUME NEW s \in Sessions, DraftNew(s) \/ NotifRead(s) PROVE RowInv' /\ StandInv'
  BY <1>2 DEF DraftNew, NotifRead, RowInv, StandInv, Told, Telling, Doing
<1>3. ASSUME NEW s \in Sessions, NEW l \in BOOLEAN, PostCreate(s, l) PROVE RowInv' /\ StandInv'
  <2>1. PICK b : CreatePost(Owner[s], b, NoId)
    BY <1>3 DEF PostCreate
  <2> DEFINE row == [id |-> made', author |-> Owner[s], local |-> b, parent |-> NoId]
  <2>2. row.id = made' /\ posts' = posts \cup {row} /\ made' = made + 1
    BY <2>1 DEF CreatePost
  <2>3. UNCHANGED <<cmd, notifs, reactions, untold>>
    BY <1>3 DEF PostCreate
  <2> HIDE DEF row
  <2> QED
    BY <2>2, <2>3, StandPosts DEF RowInv
<1>4. ASSUME NEW s \in Sessions, ReplyInsert(s) PROVE RowInv' /\ StandInv'
  <2> DEFINE row == [id |-> made', author |-> Owner[s], local |-> FALSE, parent |-> cmd[s].post.id]
  <2>1. row.id = made' /\ posts' = posts \cup {row} /\ made' = made + 1
    BY <1>4 DEF ReplyInsert, CreatePost
  <2>2. UNCHANGED <<notifs, reactions, untold>> /\ cmd' = [cmd EXCEPT ![s] = Nil] /\ ~Doing(s, "notify")
    BY <1>4 DEF ReplyInsert, Done, Goes, Doing
  <2> HIDE DEF row
  <2> QED
    BY <2>1, <2>2, StandMoves, StandPosts
<1>5. ASSUME NEW s \in Sessions, DraftPublish(s) PROVE RowInv' /\ StandInv'
  <2>1. UNCHANGED <<notifs, reactions, untold>> /\ ~Doing(s, "notify")
    BY <1>5 DEF DraftPublish, Doing
  <2>2. CASE Fault /\ Done(s) /\ UNCHANGED <<posts, made, published>>
    <3>1. cmd' = [cmd EXCEPT ![s] = Nil] /\ UNCHANGED <<posts, made>>
      BY <2>2 DEF Done, Goes
    <3> QED
      BY <2>1, <3>1, StandMoves, StandFrame
  <2>3. CASE /\ CreatePost(Owner[s], FALSE, NoId)
             /\ Goes(s, [op |-> "discard", draft |-> cmd[s].draft])
             /\ UNCHANGED faults
    <3> DEFINE row == [id |-> made', author |-> Owner[s], local |-> FALSE, parent |-> NoId]
    <3>1. row.id = made' /\ posts' = posts \cup {row} /\ made' = made + 1
      BY <2>3 DEF CreatePost
    <3>2. cmd' = [cmd EXCEPT ![s] = [op |-> "discard", draft |-> cmd[s].draft]]
      BY <2>3 DEF CreatePost, Goes
    <3> HIDE DEF row
    <3> QED
      BY <2>1, <3>1, <3>2, StandMoves, StandPosts
  <2> QED
    BY <1>5, <2>2, <2>3 DEF DraftPublish
<1>6. ASSUME NEW s \in Sessions, NEW p \in posts, PostReply(s, p) \/ PostDelete(s, p) PROVE RowInv' /\ StandInv'
  <2>1. \E op : cmd' = [cmd EXCEPT ![s] = [op |-> op, post |-> p]]
    BY <1>6 DEF PostReply, PostDelete, Goes
  <2>2. UNCHANGED <<posts, made, notifs, reactions, untold>> /\ ~Doing(s, "notify")
    BY <1>6 DEF PostReply, PostDelete, Idle, Doing
  <2> QED
    BY <2>1, <2>2, StandMoves, StandFrame
<1>7. ASSUME NEW s \in Sessions, NEW d \in 1..saved, DraftPost(s, d) \/ DraftDelete(s, d) PROVE RowInv' /\ StandInv'
  <2>1. \E op \in {"publish", "withdraw"} : cmd' = [cmd EXCEPT ![s] = [op |-> op, draft |-> d]]
    BY <1>7 DEF DraftPost, DraftDelete, Goes
  <2>2. UNCHANGED <<posts, made, notifs, reactions, untold>> /\ ~Doing(s, "notify")
    BY <1>7 DEF DraftPost, DraftDelete, Idle, Doing
  <2> QED
    BY <2>1, <2>2, StandMoves, StandFrame
<1>8. ASSUME NEW s \in Sessions, NEW k \in Kinds, NEW p \in posts, React(s, k, p) \/ Unreact(s, k, p)
      PROVE  RowInv' /\ StandInv'
  <2>1. \E op : cmd' = [cmd EXCEPT ![s] = [op |-> op, kind |-> k, post |-> p]]
    BY <1>8 DEF React, Unreact, Goes
  <2>2. UNCHANGED <<posts, made, notifs, reactions, untold>> /\ ~Doing(s, "notify")
    BY <1>8 DEF React, Unreact, Idle, Doing
  <2> QED
    BY <2>1, <2>2, StandMoves, StandFrame
<1>9. ASSUME NEW s \in Sessions, DeletePost(s) \/ DraftDiscard(s) \/ DraftWithdraw(s) \/ ReactionRemove(s)
      PROVE  RowInv' /\ StandInv'
  <2>1. cmd' = [cmd EXCEPT ![s] = Nil] /\ ~Doing(s, "notify")
    BY <1>9 DEF DeletePost, DraftDiscard, DraftWithdraw, ReactionRemove, Done, Goes, Doing
  <2>2. UNCHANGED <<posts, made, notifs>> /\ reactions' \subseteq reactions
    BY <1>9 DEF DeletePost, DraftDiscard, DraftWithdraw, ReactionRemove
  <2>3. UNCHANGED untold
    BY <1>9 DEF DeletePost, DraftDiscard, DraftWithdraw, ReactionRemove
  <2> QED
    BY <2>1, <2>2, <2>3, StandMoves, StandFrame
<1>10. ASSUME NEW s \in Sessions, ReactCheck(s) PROVE RowInv' /\ StandInv'
  <2>1. cmd[s] \in Command /\ cmd[s].op = "check" /\ ~Doing(s, "notify") /\ cmd[s].post \in posts
    BY <1>10, CommandFields DEF ReactCheck, Doing, RowInv
  <2>2. [cmd[s] EXCEPT !.op = "insert"].post = cmd[s].post
    BY <2>1 DEF Command
  <2>3. UNCHANGED <<posts, made, notifs, reactions, untold>>
    BY <1>10 DEF ReactCheck
  <2> QED
    BY <1>10, <2>1, <2>2, <2>3, StandMoves, StandFrame DEF ReactCheck, Done, Goes
<1>11. ASSUME NEW s \in Sessions, ReactInsert(s) PROVE RowInv' /\ StandInv'
  <2>1. cmd[s].post \in posts /\ ~Doing(s, "notify")
    BY <1>11 DEF ReactInsert, Doing, RowInv
  <2>2. UNCHANGED <<posts, made, notifs, untold>>
    BY <1>11 DEF ReactInsert
  <2>3. CASE Done(s) /\ UNCHANGED reactions
    BY <2>1, <2>2, <2>3, StandMoves, StandFrame DEF Done, Goes
  <2>4. CASE ~(Done(s) /\ UNCHANGED reactions)
    <3>10. PICK new : new = [id |-> tried', kind |-> cmd[s].kind, user |-> Owner[s], post |-> cmd[s].post.id]
      OBVIOUS
    <3>11. PICK next : next = [op |-> "notify", id |-> tried', kind |-> cmd[s].kind, post |-> cmd[s].post]
      OBVIOUS
    <3>1. reactions' = reactions \cup {new} /\ NotifyNext(s)
      BY <1>11, <2>4, <3>10 DEF ReactInsert
    <3>2. \E c : cmd' = [cmd EXCEPT ![s] = c] /\ (c = Nil \/ c.post \in posts)
      BY <2>1, <3>1 DEF NotifyNext, Done, Goes
    <3>3. \A t \in Sessions : cmd'[t] # Nil /\ cmd'[t].op \notin {"publish", "discard", "withdraw"} => cmd'[t].post \in posts
      BY <2>1, <3>2, StandMoves
    <3>4. \A t \in Sessions : Doing(t, "notify") => cmd'[t] = cmd[t]
      BY <2>1, <3>2, StandMoves
    <3>5. RowInv'
      <4>1. new.post <= made
        BY <2>1, <3>10 DEF RowInv
      <4> QED
        BY <2>2, <3>1, <3>3, <4>1 DEF RowInv
    <3>6. ASSUME NEW p \in posts, new.post = p.id, new.kind \in Notified, new.user # p.author
          PROVE  Telling(new, p)'
      <4>1. p = cmd[s].post
        BY <2>1, <3>6, <3>10 DEF RowInv
      <4>2. cmd' = [cmd EXCEPT ![s] = next]
        BY <3>1, <3>6, <3>10, <3>11, <4>1 DEF NotifyNext, Goes
      <4>3. cmd'[s] = next /\ next \in Command
        <5>1. cmd[s].post \in PostRow /\ cmd[s].kind \in Kinds /\ tried' \in Ids
          BY <1>11, CommandFields DEF ReactInsert, Doing, TypeOK, Ids, NoId
        <5> QED
          BY <3>11, <4>2, <5>1 DEF TypeOK, Command
      <4> QED
        BY <3>10, <3>11, <4>1, <4>3, NilAssumption DEF Telling, Doing
    <3>7. \A r, p : Telling(r, p) => Telling(r, p)'
      BY <3>4 DEF Telling, Doing
    <3>8. \A r, p : Told(r, p) => Told(r, p)'
      BY <2>2 DEF Told
    <3>9. StandInv'
      BY <2>2, <3>1, <3>6, <3>7, <3>8 DEF StandInv
    <3> QED
      BY <3>5, <3>9
  <2> QED
    BY <2>3, <2>4
<1>12. ASSUME NEW s \in Sessions, ReactNotify(s) PROVE RowInv' /\ StandInv'
  <2>1. cmd' = [cmd EXCEPT ![s] = Nil] /\ UNCHANGED <<posts, made, reactions>>
    BY <1>12 DEF ReactNotify, Done, Goes
  <2>2. RowInv'
    BY <2>1 DEF RowInv, TypeOK
  <2>3. /\ notifs \subseteq notifs' /\ untold \subseteq untold'
        /\ NotifOf(s) \in notifs' \/ cmd[s].id \in untold'
    BY <1>12 DEF ReactNotify
  <2>4. StandInv'
    <3>1. \A r, p : Told(r, p) => Told(r, p)'
      BY <2>3 DEF Told
    <3>2. ASSUME NEW r, NEW p, Telling(r, p) PROVE Told(r, p)' \/ Telling(r, p)' \/ r.id \in untold'
      <4>1. PICK t \in Sessions : Doing(t, "notify") /\ cmd[t].id = r.id /\ cmd[t].post.author = p.author
        BY <3>2 DEF Telling
      <4>2. CASE t = s
        <5>1. NotifOf(s).id = r.id /\ NotifOf(s).user = p.author
          BY <4>1, <4>2 DEF NotifOf
        <5> QED
          BY <2>3, <4>1, <4>2, <5>1 DEF Told
      <4>3. CASE t # s
        BY <2>1, <4>1, <4>3 DEF Telling, Doing, TypeOK
      <4> QED
        BY <4>2, <4>3
    <3> QED
      BY <2>1, <2>3, <3>1, <3>2 DEF StandInv
  <2> QED
    BY <2>2, <2>4
<1>13. CASE Crash
  <2>1. RowInv'
    BY <1>13 DEF Crash, RowInv
  <2>2. /\ UNCHANGED <<posts, reactions, notifs>> /\ untold \subseteq untold'
        /\ \A t \in Sessions : Doing(t, "notify") => cmd[t].id \in untold'
    BY <1>13 DEF Crash
  <2>3. \A r, p : Telling(r, p) => r.id \in untold'
    BY <2>2 DEF Telling
  <2>4. \A r, p : Told(r, p) => Told(r, p)'
    BY <2>2 DEF Told
  <2> QED
    BY <2>1, <2>2, <2>3, <2>4 DEF StandInv
<1> QED
  BY <1>1, <1>2, <1>3, <1>4, <1>5, <1>6, <1>7, <1>8, <1>9, <1>10, <1>11, <1>12, <1>13 DEF Next

LEMMA RowInvariance == Spec => []RowInv /\ []StandInv
<1>1. Init => RowInv /\ StandInv
  BY DEF Init, RowInv, StandInv
<1>2. TypeOK /\ RowInv /\ StandInv /\ [Next]_vars => RowInv' /\ StandInv'
  BY StandStep
<1> QED
  BY <1>1, <1>2, TypeCorrect, PTL DEF Spec

\* The author knows of every like and boost that stands, but for those whose
\* own notification failed.
THEOREM ReactionsAreTold == Spec => []ReactionIsTold
<1>1. TypeOK /\ StandInv => ReactionIsTold
  <2> SUFFICES ASSUME TypeOK, StandInv, NEW r \in reactions, NEW p \in posts,
                      r.post = p.id, r.kind \in Notified, r.user # p.author, r.id \notin untold
               PROVE  \/ \E n \in notifs : n.id = r.id /\ n.user = p.author
                      \/ \E s \in Sessions : Doing(s, "notify") /\ cmd[s].id = r.id
    BY DEF ReactionIsTold, TypeOK
  <2> QED
    BY DEF StandInv, Told, Telling
<1> QED
  BY <1>1, TypeCorrect, RowInvariance, PTL
-----------------------------------------------------------------------------
(* Threads                                                                 *)

\* A post answers an older one.
AnswersOlder == \A p \in posts : p.parent < p.id

\* The posts that answer one of Q
Replies(Q) == {p \in posts : \E q \in Q : p.parent = q.id}

\* Each round finds the replies to what the rounds before it have found.
LEMMA RoundsDef ==
  ASSUME NEW r \in posts
  PROVE  /\ Rounds(r)[0] = {r}
         /\ \A n \in Nat : Rounds(r)[n + 1] = Rounds(r)[n] \cup Replies(Rounds(r)[n])
<1> DEFINE X == SUBSET posts
           F == [Q \in X |-> Q \cup Replies(Q)]
           IsRounds(f) == f = [n \in Nat |-> IF n = 0 THEN {r}
                             ELSE f[n - 1] \cup {p \in posts : \E q \in f[n - 1] : p.parent = q.id}]
<1>1. F \in [X -> X] /\ {r} \in X
  BY DEF Replies
<1> HIDE DEF F, X
<1>2. PICK g \in [Nat -> X] : Iterates(g, {r}, F)
  BY <1>1, PrimitiveRecursion
<1>3. \A n \in Nat \ {0} : g[n] = g[n - 1] \cup {p \in posts : \E q \in g[n - 1] : p.parent = q.id}
  <2>1. \A n \in Nat \ {0} : g[n - 1] \in X
    OBVIOUS
  <2> QED
    BY <1>2, <2>1 DEF F, X, Replies, Iterates
<1>4. IsRounds(g)
  BY <1>2, <1>3 DEF Iterates
<1>5. Rounds(r) = CHOOSE f : IsRounds(f)
  BY DEF Rounds
<1> HIDE DEF IsRounds
<1>6. IsRounds(Rounds(r))
  BY <1>4, <1>5, Zenon
<1> USE DEF IsRounds
<1> QED
  BY <1>6 DEF Replies

\* A set of ids that has, with the id of a post, the id of the one it answers.
UpClosed(S) == \A q \in posts : q.id \in S => q.parent \in S

\* What every such set with n in it has: n, and the posts above it.
Upward(n) == {a \in Nat : \A S \in SUBSET Nat : n \in S /\ UpClosed(S) => a \in S}

\* The recursion in Above has a solution.
LEMMA UpwardSolves ==
  ASSUME posts \subseteq PostRow, NEW n \in Ids
  PROVE  Upward(n) = {n} \cup UNION {Upward(q.parent) : q \in {x \in posts : x.id = n}}
<1> DEFINE U == {n} \cup UNION {Upward(q.parent) : q \in {x \in posts : x.id = n}}
<1>1. \A q \in posts : q.parent \in Nat
  BY DEF PostRow, Ids, NoId
<1>2. \A m \in Nat : m \in Upward(m) /\ Upward(m) \in SUBSET Nat
  BY DEF Upward
<1>3. \A m \in Nat : UpClosed(Upward(m))
  BY <1>1 DEF Upward, UpClosed
<1>4. U \subseteq Upward(n)
  <2>1. \A q \in posts : q.id = n => q.parent \in Upward(n)
    BY <1>2, <1>3 DEF UpClosed, Ids
  <2>2. \A m \in Upward(n) : Upward(m) \subseteq Upward(n)
    BY <1>2, <1>3 DEF Upward
  <2> QED
    BY <1>2, <2>1, <2>2 DEF Ids
<1>5. U \in SUBSET Nat /\ n \in U
  BY <1>1, <1>2 DEF Ids
<1>6. UpClosed(U)
  <2> SUFFICES ASSUME NEW y \in posts, y.id \in U PROVE y.parent \in U
    BY DEF UpClosed
  <2>1. CASE y.id = n
    BY <1>1, <1>2, <2>1
  <2>2. CASE \E q \in posts : q.id = n /\ y.id \in Upward(q.parent)
    BY <1>1, <1>3, <2>2 DEF UpClosed
  <2> QED
    BY <2>1, <2>2
<1>7. Upward(n) \subseteq U
  BY <1>5, <1>6 DEF Upward
<1> QED
  BY <1>4, <1>7

\* A post is above p if p answers it, or what p answers does.
LEMMA AboveDef ==
  ASSUME posts \subseteq PostRow, NEW p \in posts, NEW a
  PROVE  a \in Above(p) <=>
           /\ p.parent # NoId
           /\ a = p.parent \/ \E q \in posts : q.id = p.parent /\ a \in Above(q)
<1> DEFINE IsUp(up) == up = [n \in Nat |-> IF n = 0 THEN {}
                           ELSE {n} \cup UNION {up[q.parent] : q \in {x \in posts : x.id = n}}]
           g == [n \in Nat |-> Upward(n) \ {0}]
           up == CHOOSE up : IsUp(up)
<1>1. \A q \in posts : q.id \in Ids /\ q.parent \in Nat
  BY DEF PostRow, Ids, NoId
<1>2. g[0] = {}
  <2>1. UpClosed({0})
    BY <1>1 DEF UpClosed, Ids, NoId
  <2> QED
    BY <2>1 DEF Upward
<1>3. \A n \in Nat \ {0} : g[n] = {n} \cup UNION {g[q.parent] : q \in {x \in posts : x.id = n}}
  <2> SUFFICES ASSUME NEW n \in Nat \ {0}
               PROVE  g[n] = {n} \cup UNION {g[q.parent] : q \in {x \in posts : x.id = n}}
    OBVIOUS
  <2>1. Upward(n) = {n} \cup UNION {Upward(q.parent) : q \in {x \in posts : x.id = n}}
    BY UpwardSolves DEF Ids, NoId
  <2>2. \A q \in posts : g[q.parent] = Upward(q.parent) \ {0}
    BY <1>1
  <2>3. g[n] = Upward(n) \ {0}
    OBVIOUS
  <2> HIDE DEF g
  <2> QED
    BY <2>1, <2>2, <2>3
<1>4. IsUp(g)
  BY <1>2, <1>3
<1>5. \A q : Above(q) = up[q.parent]
  BY DEF Above
<1> HIDE DEF IsUp, g
<1>6. IsUp(up)
  BY <1>4
<1> HIDE DEF up
<1>7. \A n \in Nat : up[n] = IF n = 0 THEN {} ELSE {n} \cup UNION {up[q.parent] : q \in {x \in posts : x.id = n}}
  BY <1>6 DEF IsUp
<1>8. up[p.parent] = IF p.parent = 0 THEN {}
                     ELSE {p.parent} \cup UNION {up[q.parent] : q \in {x \in posts : x.id = p.parent}}
  BY <1>1, <1>7
<1>9. a \in up[p.parent] <=>
        p.parent # 0 /\ (a = p.parent \/ \E q \in posts : q.id = p.parent /\ a \in up[q.parent])
  BY <1>8
<1> QED
  BY <1>5, <1>9 DEF NoId
-----------------------------------------------------------------------------
(* What a thread shows                                                     *)

\* Later rounds have what earlier ones have found.
LEMMA RoundsGrow ==
  ASSUME NEW r \in posts, NEW n \in Nat
  PROVE  /\ Rounds(r)[n] \subseteq posts
         /\ r \in Rounds(r)[n]
<1> DEFINE f == Rounds(r)
           S == {m \in Nat : f[m] \subseteq posts /\ r \in f[m]}
<1>1. 0 \in S
  BY RoundsDef
<1>2. ASSUME NEW m \in Nat, m \in S PROVE m + 1 \in S
  BY <1>2, RoundsDef DEF Replies
<1> HIDE DEF S
<1>3. n \in S
  BY <1>1, <1>2, SetInduction
<1> QED
  BY <1>3 DEF S

\* What the rounds find answers the root, directly or not ...
LEMMA RoundsAreBelow ==
  ASSUME posts \subseteq PostRow, NEW r \in posts, NEW n \in Nat
  PROVE  \A p \in Rounds(r)[n] : p = r \/ r.id \in Above(p)
<1> DEFINE f == Rounds(r)
           S == {m \in Nat : \A p \in f[m] : p = r \/ r.id \in Above(p)}
<1>1. 0 \in S
  BY RoundsDef
<1>2. ASSUME NEW m \in Nat, m \in S PROVE m + 1 \in S
  <2> SUFFICES ASSUME NEW p \in Replies(f[m]) PROVE r.id \in Above(p)
    BY <1>2, RoundsDef
  <2>1. PICK q \in f[m] : p.parent = q.id
    BY DEF Replies
  <2>2. p \in posts /\ q \in posts /\ q.id # NoId
    BY RoundsGrow DEF Replies, PostRow, Ids
  <2>3. q = r \/ r.id \in Above(q)
    BY <1>2
  <2> QED
    BY <2>1, <2>2, <2>3, AboveDef
<1> HIDE DEF S
<1>3. n \in S
  BY <1>1, <1>2, SetInduction
<1> QED
  BY <1>3 DEF S

\* ... and as many rounds as a post's id have found it, if it does.
LEMMA RoundsReach ==
  ASSUME posts \subseteq PostRow, AnswersOlder, NEW r \in posts, NEW n \in Nat
  PROVE  \A p \in posts : p.id <= n /\ (p = r \/ r.id \in Above(p)) => p \in Rounds(r)[n]
<1> DEFINE f == Rounds(r)
           S == {m \in Nat : \A p \in posts :
                   p.id <= m /\ (p = r \/ r.id \in Above(p)) => p \in f[m]}
<1>1. \A p \in posts : p.id \in Nat /\ p.id # 0 /\ p.parent \in Nat
  BY DEF PostRow, Ids, NoId
<1>2. 0 \in S
  BY <1>1
<1>3. ASSUME NEW m \in Nat, m \in S PROVE m + 1 \in S
  <2> SUFFICES ASSUME NEW p \in posts, p.id <= m + 1, p = r \/ r.id \in Above(p)
               PROVE  p \in f[m + 1]
    OBVIOUS
  <2>1. f[m + 1] = f[m] \cup Replies(f[m]) /\ r \in f[m]
    BY RoundsDef, RoundsGrow
  <2>2. CASE p = r
    BY <2>1, <2>2
  <2>3. CASE r.id \in Above(p)
    <3>1. r.id = p.parent \/ \E q \in posts : q.id = p.parent /\ r.id \in Above(q)
      BY <2>3, AboveDef
    <3>2. \A q \in posts : q.id = p.parent => q.id <= m
      BY <1>1 DEF AnswersOlder
    <3>3. \E q \in f[m] : p.parent = q.id
      BY <1>3, <2>1, <3>1, <3>2
    <3> QED
      BY <2>1, <3>3 DEF Replies
  <2> QED
    BY <2>2, <2>3
<1> HIDE DEF S
<1>4. n \in S
  BY <1>2, <1>3, SetInduction
<1> QED
  BY <1>4 DEF S

LEMMA AnswersOlderStep ==
  ASSUME TypeOK, RowInv, AnswersOlder, [Next]_vars
  PROVE  AnswersOlder'
<1>1. CASE UNCHANGED posts
  BY <1>1 DEF AnswersOlder
<1>2. ASSUME NEW u, NEW l, NEW q \in Nat, q <= made, CreatePost(u, l, q) PROVE AnswersOlder'
  BY <1>2 DEF CreatePost, AnswersOlder, TypeOK
<1>3. ASSUME NEW s \in Sessions, NEW l \in BOOLEAN, PostCreate(s, l) PROVE AnswersOlder'
  BY <1>2, <1>3 DEF PostCreate, NoId, TypeOK
<1>4. ASSUME NEW s \in Sessions, ReplyInsert(s) PROVE AnswersOlder'
  <2>1. cmd[s].post \in posts
    BY <1>4 DEF ReplyInsert, Doing, RowInv
  <2>2. cmd[s].post.id \in Nat /\ cmd[s].post.id <= made
    BY <2>1 DEF RowInv, TypeOK, PostRow, Ids
  <2> QED
    BY <1>2, <1>4, <2>2 DEF ReplyInsert
<1>5. ASSUME NEW s \in Sessions, DraftPublish(s) PROVE AnswersOlder'
  <2>1. CASE CreatePost(Owner[s], FALSE, NoId)
    <3>1. NoId \in Nat /\ NoId <= made
      BY DEF NoId, TypeOK
    <3> QED
      BY <1>2, <2>1, <3>1
  <2> QED
    BY <1>1, <1>5, <2>1 DEF DraftPublish
<1>6. UNCHANGED posts \/ \E s \in Sessions : ReplyInsert(s) \/ DraftPublish(s) \/ \E l \in BOOLEAN : PostCreate(s, l)
  BY DEF Next, vars, PostReply, PostDelete, DraftPost, DraftDelete, React, Unreact, DeletePost, DraftNew,
         DraftDiscard, DraftWithdraw, ReactCheck, ReactInsert, ReactNotify, ReactionRemove, NotifRead, Crash
<1> QED
  BY <1>1, <1>3, <1>4, <1>5, <1>6

\* For any number of posts, however deep the thread: thread view shows the
\* posts that answer its root and are not deleted, and no others.
THEOREM ThreadsAreComplete == Spec => []ThreadIsComplete
<1>1. Init => AnswersOlder
  BY DEF Init, AnswersOlder
<1>2. TypeOK /\ RowInv /\ AnswersOlder /\ [Next]_vars => AnswersOlder'
  BY AnswersOlderStep
<1>3. TypeOK /\ RowInv /\ AnswersOlder => ThreadIsComplete
  <2> SUFFICES ASSUME TypeOK, RowInv, AnswersOlder, NEW r \in Visible
               PROVE  GetThread(r) = {p \in Visible : p = r \/ r.id \in Above(p)}
    BY DEF ThreadIsComplete
  <2>1. posts \subseteq PostRow /\ made \in Nat /\ r \in posts /\ Visible \subseteq posts
    BY DEF TypeOK, Visible
  <2>2. \A p \in Rounds(r)[made] : p = r \/ r.id \in Above(p)
    BY <2>1, RoundsAreBelow
  <2>3. \A p \in posts : p = r \/ r.id \in Above(p) => p \in Rounds(r)[made]
    BY <2>1, RoundsReach DEF RowInv
  <2> QED
    BY <2>1, <2>2, <2>3 DEF GetThread
<1> QED
  BY <1>1, <1>2, <1>3, TypeCorrect, RowInvariance, PTL DEF Spec
=============================================================================
