---------------------------- MODULE SocialProofs ----------------------------
(***************************************************************************)
(* Proofs about Social for any users, remote actors, sessions and bounds.  *)
(***************************************************************************)
EXTENDS Social, FiniteSetTheorems, TLAPS

\* What a command in progress carries.
LEMMA CommandFields ==
  ASSUME TypeOK, NEW s \in Sessions, cmd[s] # Nil
  PROVE  /\ cmd[s] \in Command
         /\ cmd[s].op \in {"follow", "block", "unfollow", "sever", "unblock"} => cmd[s].target \in Users
         /\ cmd[s].op = "follow_remote" => cmd[s].remote \in Ids
         /\ cmd[s].op \in {"notify", "deliver"} => cmd[s].id \in Ids
  BY DEF TypeOK, Command

\* Commands are in Command.
LEMMA CommandTypes ==
  ASSUME NEW v \in Users, NEW n \in Ids
  PROVE  /\ \A op \in {"follow", "block", "unfollow", "sever", "unblock"} :
              [op |-> op, target |-> v] \in Command
         /\ [op |-> "follow_remote", remote |-> n] \in Command
         /\ \A op \in {"notify", "deliver"} : [op |-> op, id |-> n] \in Command
  BY DEF Command

\* The variables stay in their types.
THEOREM TypeCorrect == Spec => []TypeOK
<1>1. Init => TypeOK
  BY SocialAssumption DEF Init, TypeOK, Ids, NoId
<1>2. TypeOK /\ [Next]_vars => TypeOK'
  <2> SUFFICES ASSUME TypeOK, [Next]_vars PROVE TypeOK'
    OBVIOUS
  <2> USE SocialAssumption, NilAssumption
  <2>1. CASE UNCHANGED vars
    BY <2>1 DEF vars, TypeOK
  <2>2. ASSUME NEW s \in Sessions, NEW v \in Users,
               FollowLocal(s, v) \/ BlockAdd(s, v) \/ BlockRemove(s, v)
        PROVE  TypeOK'
    <3>1. \E c \in Command : cmd' = [cmd EXCEPT ![s] = c]
      BY <2>2, CommandTypes, 1 \in Ids DEF FollowLocal, BlockAdd, BlockRemove, Goes, Ids, NoId
    <3> QED
      BY <2>2, <3>1 DEF TypeOK, FollowLocal, BlockAdd, BlockRemove
  <2>3. ASSUME NEW s \in Sessions, NEW v \in Users, FollowRemove(s, v) PROVE TypeOK'
    BY <2>3 DEF TypeOK, FollowRemove, DeleteFollow
  <2>4. ASSUME NEW s \in Sessions, NEW r \in Remotes, FollowRemote(s, r) PROVE TypeOK'
    <3>1. minted' \in Ids
      BY <2>4 DEF TypeOK, FollowRemote, StoreActor, Ids, NoId
    <3>2. [op |-> "follow_remote", remote |-> minted'] \in Command
      BY <3>1 DEF Command
    <3> QED
      BY <2>4, <3>1, <3>2 DEF TypeOK, FollowRemote, StoreActor, CreateRemoteActor, Goes, Ids
  <2>14. ASSUME NEW s \in Sessions, NEW r \in Remotes, UserLookup(s, r) PROVE TypeOK'
    BY <2>14 DEF TypeOK, UserLookup, StoreActor, CreateRemoteActor, Ids, NoId
  <2>5. ASSUME NEW s \in Sessions, FollowLocalInsert(s) \/ FollowRemoteInsert(s) PROVE TypeOK'
    <3>1. made' \in Ids
      BY <2>5 DEF TypeOK, FollowLocalInsert, FollowRemoteInsert, CreateFollow, Ids, NoId
    <3>2. \E c \in Command : cmd' = [cmd EXCEPT ![s] = c]
      <4>1. \A op \in {"notify", "deliver"} : [op |-> op, id |-> made'] \in Command
        BY <3>1 DEF Command
      <4> QED
        BY <2>5, <4>1 DEF FollowLocalInsert, FollowRemoteInsert, Goes
    <3>3. follows' \in SUBSET FollowRow
      <4>1. CASE FollowLocalInsert(s)
        <5>1. cmd[s].target \in Users
          BY <4>1, CommandFields DEF FollowLocalInsert, Doing
        <5> QED
          BY <3>1, <4>1, <5>1 DEF TypeOK, FollowLocalInsert, CreateFollow, FollowRow
      <4>2. CASE FollowRemoteInsert(s)
        <5>1. cmd[s].remote \in Ids
          BY <4>2, CommandFields DEF FollowRemoteInsert, Doing
        <5> QED
          BY <3>1, <4>2, <5>1 DEF TypeOK, FollowRemoteInsert, CreateFollow, FollowRow
      <4> QED
        BY <2>5, <4>1, <4>2
    <3>4. UNCHANGED <<blocks, actors, event, minted, announced, lost, madeFor, answered, since, cut, faults>>
      BY <2>5 DEF FollowLocalInsert, FollowRemoteInsert
    <3> QED
      BY <3>1, <3>2, <3>3, <3>4 DEF TypeOK, Ids
  <2>6. ASSUME NEW s \in Sessions, Announce(s) PROVE TypeOK'
    <3>1. cmd[s].id \in Ids
      BY <2>6, CommandFields DEF Announce, Telling, Doing
    <3> QED
      BY <2>6, <3>1 DEF TypeOK, Announce, Done, Goes, Fault
  <2>7. ASSUME NEW s \in Sessions, BlockInsert(s) PROVE TypeOK'
    <3>1. cmd[s].target \in Users
      BY <2>7, CommandFields DEF BlockInsert, Doing
    <3>2. [op |-> "unfollow", target |-> cmd[s].target] \in Command
      BY <3>1 DEF Command
    <3>3. <<Owner[s], cmd[s].target>> \in Pairs
      BY <3>1 DEF Pairs
    <3> QED
      BY <2>7, <3>2, <3>3 DEF TypeOK, BlockInsert, Done, Goes
  <2>8. ASSUME NEW s \in Sessions, BlockUnfollow(s) \/ BlockSever(s) PROVE TypeOK'
    <3>1. cmd[s].target \in Users
      BY <2>8, CommandFields DEF BlockUnfollow, BlockSever, Doing
    <3>2. [op |-> "sever", target |-> cmd[s].target] \in Command
      BY <3>1 DEF Command
    <3>3. <<Owner[s], cmd[s].target>> \in Pairs
      BY <3>1 DEF Pairs
    <3> QED
      BY <2>8, <3>2, <3>3 DEF TypeOK, BlockUnfollow, BlockSever, DropsFollow, DeleteFollow, Done, Goes, Fault
  <2>9. ASSUME NEW s \in Sessions, Unblock(s) PROVE TypeOK'
    BY <2>9 DEF TypeOK, Unblock, Done, Goes
  <2>10. ASSUME NEW w \in Workers, NEW r \in Remotes, InboxFollow(w, r) PROVE TypeOK'
    BY <2>10 DEF TypeOK, InboxFollow
  <2>11. ASSUME NEW w \in Workers, InboxFollowStore(w) PROVE TypeOK'
    BY <2>11 DEF TypeOK, InboxFollowStore, StoreActor, CreateRemoteActor, Ids, NoId
  <2>12. ASSUME NEW w \in Workers, NEW f \in announced, InboxAccept(w, f) PROVE TypeOK'
    <3>1. \A row \in follows : [row EXCEPT !.state = "accepted"] \in FollowRow
      BY DEF TypeOK, FollowRow
    <3> QED
      BY <2>12, <3>1 DEF TypeOK, InboxAccept
  <2>13. CASE Crash
    <3>1. \A s \in Sessions : Telling(s) => cmd[s].id \in Ids
      BY CommandFields DEF Telling, Doing
    <3> QED
      BY <2>13, <3>1 DEF TypeOK, Crash, Fault
  <2> QED
    BY <2>1, <2>2, <2>3, <2>4, <2>5, <2>6, <2>7, <2>8, <2>9, <2>10, <2>11, <2>12, <2>13, <2>14 DEF Next
<1> QED
  BY <1>1, <1>2, PTL DEF Spec
-----------------------------------------------------------------------------
(* Blocks: until its session has run the two deletes, a block that stands   *)
(* is unfinished; what a follow command adds meanwhile has a younger id.    *)

\* Session s is at op of the block p.
At(s, op, p) == Doing(s, op) /\ p = <<Owner[s], cmd[s].target>>

\* No follow from u to v is as old as the block p.
AllYounger(u, v, p) == \A f \in FollowsOf(u, v) : f.id > since[p]

SeverInv ==
  /\ \A f \in follows : f.id <= made
  /\ \A p \in Pairs : since[p] <= made
  /\ \A p \in blocks \ cut :
       \/ \E s \in Sessions : At(s, "unfollow", p)
       \/ /\ AllYounger(p[1], p[2], p)
          /\ \/ \E s \in Sessions : At(s, "sever", p)
             \/ AllYounger(p[2], p[1], p)

\* Steps that only add younger follows, take blocks away, and leave alone the
\* sessions that are unfollowing.
LEMMA OnlyYounger ==
  ASSUME TypeOK, SeverInv,
         blocks' \subseteq blocks, cut \subseteq cut', UNCHANGED since,
         made' \in Nat, made <= made',
         \A f \in follows' :
           /\ f.id \in Nat /\ f.id <= made'
           /\ \/ f.id > made
              \/ \E g \in follows : g.id = f.id /\ g.follower = f.follower /\ g.following = f.following,
         \A s \in Sessions : Doing(s, "unfollow") \/ Doing(s, "sever") => cmd'[s] = cmd[s]
  PROVE  SeverInv'
<1>1. \A s \in Sessions, p \in Pairs, op \in {"unfollow", "sever"} : At(s, op, p) => At(s, op, p)'
  BY DEF At, Doing
<1>2. \A p \in blocks \ cut : p \in Pairs
  BY DEF TypeOK
<1>3. \A p \in Pairs : since[p] \in Nat /\ since[p] <= made
  BY DEF TypeOK, SeverInv
<1>4. made \in Nat
  BY DEF TypeOK
<1>5. ASSUME NEW u, NEW v, NEW p \in Pairs, AllYounger(u, v, p)
      PROVE  AllYounger(u, v, p)'
  <2> SUFFICES ASSUME NEW f \in FollowsOf(u, v)' PROVE f.id > since[p]
    BY DEF AllYounger
  <2>1. f \in follows' /\ f.follower = u /\ f.following = v
    BY DEF FollowsOf
  <2>2. CASE f.id > made
    BY <1>3, <1>4, <2>1, <2>2
  <2>3. CASE \E g \in follows : g.id = f.id /\ g.follower = f.follower /\ g.following = f.following
    BY <1>5, <2>1, <2>3 DEF AllYounger, FollowsOf
  <2> QED
    BY <2>1, <2>2, <2>3
<1>6. ASSUME NEW p \in blocks' \ cut'
      PROVE  \/ \E s \in Sessions : At(s, "unfollow", p)'
             \/ /\ AllYounger(p[1], p[2], p)'
                /\ \/ \E s \in Sessions : At(s, "sever", p)'
                   \/ AllYounger(p[2], p[1], p)'
  <2>1. p \in blocks \ cut /\ p \in Pairs
    BY <1>2
  <2>2. \/ \E s \in Sessions : At(s, "unfollow", p)
        \/ /\ AllYounger(p[1], p[2], p)
           /\ \/ \E s \in Sessions : At(s, "sever", p)
              \/ AllYounger(p[2], p[1], p)
    BY <2>1 DEF SeverInv
  <2> QED
    BY <1>1, <1>5, <2>1, <2>2
<1>7. \A p \in Pairs : since'[p] <= made'
  BY <1>3, <1>4
<1> QED
  BY <1>6, <1>7 DEF SeverInv

\* Where follows stay and no session that is unfollowing moves.
LEMMA NoFollowChanged ==
  ASSUME TypeOK, SeverInv, UNCHANGED <<follows, made, since, cut>>, blocks' \subseteq blocks,
         \A s \in Sessions : Doing(s, "unfollow") \/ Doing(s, "sever") => cmd'[s] = cmd[s]
  PROVE  SeverInv'
<1>1. \A f \in follows : f.id \in Nat /\ f.id <= made
  BY DEF TypeOK, SeverInv, FollowRow, Ids
<1>2. made \in Nat
  BY DEF TypeOK
<1> QED
  BY <1>1, <1>2, OnlyYounger

\* A command that is no block moves on, and inserts a row or none.
LEMMA CommandMoves ==
  ASSUME TypeOK, NEW s \in Sessions, NEW c, cmd' = [cmd EXCEPT ![s] = c],
         ~Doing(s, "unfollow"), ~Doing(s, "sever")
  PROVE  \A t \in Sessions : Doing(t, "unfollow") \/ Doing(t, "sever") => cmd'[t] = cmd[t]
  BY DEF TypeOK

\* SeverInv is inductive.
LEMMA SeverStep ==
  ASSUME TypeOK, SeverInv, [Next]_vars
  PROVE  SeverInv'
<1>1. CASE UNCHANGED vars
  BY <1>1, NoFollowChanged DEF vars
<1>2. ASSUME NEW s \in Sessions, NEW v \in Users,
             FollowLocal(s, v) \/ BlockAdd(s, v) \/ BlockRemove(s, v)
      PROVE  SeverInv'
  <2>1. \E c : cmd' = [cmd EXCEPT ![s] = c]
    BY <1>2 DEF FollowLocal, BlockAdd, BlockRemove, Goes
  <2>2. cmd[s] = Nil
    BY <1>2 DEF FollowLocal, BlockAdd, BlockRemove, Idle
  <2> QED
    BY <1>2, <2>1, <2>2, CommandMoves, NoFollowChanged DEF FollowLocal, BlockAdd, BlockRemove, Doing
<1>3. ASSUME NEW s \in Sessions, NEW r \in Remotes, FollowRemote(s, r) PROVE SeverInv'
  BY <1>3, CommandMoves, NoFollowChanged DEF FollowRemote, Goes, Idle, Doing
<1>13. ASSUME NEW s \in Sessions, NEW r \in Remotes, UserLookup(s, r) PROVE SeverInv'
  BY <1>13, NoFollowChanged DEF UserLookup
<1>4. ASSUME NEW s \in Sessions, Announce(s) \/ Unblock(s) PROVE SeverInv'
  <2>1. cmd' = [cmd EXCEPT ![s] = Nil] /\ ~Doing(s, "unfollow") /\ ~Doing(s, "sever")
    BY <1>4 DEF Announce, Telling, Unblock, Done, Goes, Doing
  <2>2. UNCHANGED <<follows, made, since, cut>> /\ blocks' \subseteq blocks
    BY <1>4 DEF Announce, Unblock
  <2> QED
    BY <2>1, <2>2, CommandMoves, NoFollowChanged
<1>5. ASSUME NEW w \in Workers, NEW r \in Remotes, InboxFollow(w, r) PROVE SeverInv'
  BY <1>5, NoFollowChanged DEF InboxFollow
<1>6. ASSUME NEW w \in Workers, InboxFollowStore(w) PROVE SeverInv'
  BY <1>6, NoFollowChanged DEF InboxFollowStore
<1>7. ASSUME NEW s \in Sessions, NEW v \in Users, FollowRemove(s, v) PROVE SeverInv'
  <2>1. \A f \in follows' : f \in follows /\ f.id \in Nat /\ f.id <= made
    BY <1>7 DEF FollowRemove, DeleteFollow, TypeOK, SeverInv, FollowRow, Ids
  <2>2. made \in Nat
    BY DEF TypeOK
  <2> QED
    BY <1>7, <2>1, <2>2, OnlyYounger DEF FollowRemove
<1>8. ASSUME NEW w \in Workers, NEW a \in announced, InboxAccept(w, a) PROVE SeverInv'
  <2>1. \A f \in follows' : \E g \in follows :
          g.id = f.id /\ g.follower = f.follower /\ g.following = f.following
    BY <1>8 DEF InboxAccept, TypeOK, FollowRow
  <2>2. \A g \in follows : g.id \in Nat /\ g.id <= made
    BY DEF TypeOK, SeverInv, FollowRow, Ids
  <2>3. made \in Nat
    BY DEF TypeOK
  <2> QED
    BY <1>8, <2>1, <2>2, <2>3, OnlyYounger DEF InboxAccept
<1>9. ASSUME NEW s \in Sessions, FollowLocalInsert(s) \/ FollowRemoteInsert(s) PROVE SeverInv'
  <2>1. \E c : cmd' = [cmd EXCEPT ![s] = c]
    BY <1>9 DEF FollowLocalInsert, FollowRemoteInsert, Goes
  <2>2. ~Doing(s, "unfollow") /\ ~Doing(s, "sever")
    BY <1>9 DEF FollowLocalInsert, FollowRemoteInsert, Doing
  <2>3. made \in Nat /\ made' = made + 1
    BY <1>9 DEF FollowLocalInsert, FollowRemoteInsert, CreateFollow, TypeOK
  <2>4. \A f \in follows' : f.id = made' \/ (f \in follows /\ f.id \in Nat /\ f.id <= made)
    BY <1>9 DEF FollowLocalInsert, FollowRemoteInsert, CreateFollow, TypeOK, SeverInv, FollowRow, Ids
  <2>5. UNCHANGED <<blocks, since, cut>>
    BY <1>9 DEF FollowLocalInsert, FollowRemoteInsert
  <2>6. \A f \in follows' :
           /\ f.id \in Nat /\ f.id <= made'
           /\ \/ f.id > made
              \/ \E g \in follows : g.id = f.id /\ g.follower = f.follower /\ g.following = f.following
    BY <2>3, <2>4
  <2> QED
    BY <2>1, <2>2, <2>3, <2>5, <2>6, CommandMoves, OnlyYounger
<1>10. ASSUME NEW s \in Sessions, BlockInsert(s) PROVE SeverInv'
  <2>1. ~Doing(s, "unfollow") /\ ~Doing(s, "sever") /\ <<Owner[s], cmd[s].target>> \in Pairs
    BY <1>10, CommandFields, SocialAssumption DEF BlockInsert, Doing, Pairs
  <2> PICK p \in Pairs : p = <<Owner[s], cmd[s].target>>
    BY <2>1
  <2>2. CASE p \in blocks
    BY <1>10, <2>1, <2>2, CommandMoves, NoFollowChanged DEF BlockInsert, Done, Goes
  <2>3. CASE p \notin blocks
    <3>1. /\ blocks' = blocks \cup {p} /\ since' = [since EXCEPT ![p] = made] /\ cut' = cut \ {p}
          /\ cmd' = [cmd EXCEPT ![s] = [op |-> "unfollow", target |-> cmd[s].target]]
          /\ UNCHANGED <<follows, made>>
      BY <1>10, <2>3 DEF BlockInsert, Goes
    <3>2. At(s, "unfollow", p)'
      BY <3>1, NilAssumption, CommandFields, <1>10 DEF At, Doing, TypeOK, Command, BlockInsert
    <3>3. \A t \in Sessions, q \in Pairs, op \in {"unfollow", "sever"} : At(t, op, q) => At(t, op, q)'
      BY <2>1, <3>1 DEF At, Doing, TypeOK
    <3>4. ASSUME NEW q \in blocks' \ cut'
          PROVE  \/ \E t \in Sessions : At(t, "unfollow", q)'
                 \/ /\ AllYounger(q[1], q[2], q)'
                    /\ \/ \E t \in Sessions : At(t, "sever", q)'
                       \/ AllYounger(q[2], q[1], q)'
      <4> SUFFICES ASSUME q # p
                   PROVE  \/ \E t \in Sessions : At(t, "unfollow", q)'
                          \/ /\ AllYounger(q[1], q[2], q)'
                             /\ \/ \E t \in Sessions : At(t, "sever", q)'
                                \/ AllYounger(q[2], q[1], q)'
        BY <3>2
      <4>1. q \in blocks \ cut /\ q \in Pairs /\ since'[q] = since[q]
        BY <3>1 DEF TypeOK
      <4>2. \A u, v : AllYounger(u, v, q) => AllYounger(u, v, q)'
        BY <3>1, <4>1 DEF AllYounger, FollowsOf
      <4>3. \/ \E t \in Sessions : At(t, "unfollow", q)
            \/ /\ AllYounger(q[1], q[2], q)
               /\ \/ \E t \in Sessions : At(t, "sever", q)
                  \/ AllYounger(q[2], q[1], q)
        BY <4>1 DEF SeverInv
      <4> QED
        BY <3>3, <4>1, <4>2, <4>3
    <3>5. \A q \in Pairs : since'[q] <= made'
      BY <3>1 DEF TypeOK, SeverInv
    <3>6. \A f \in follows' : f.id <= made'
      BY <3>1 DEF SeverInv
    <3> QED
      BY <3>4, <3>5, <3>6 DEF SeverInv
  <2> QED
    BY <2>2, <2>3
<1>11. ASSUME NEW s \in Sessions, BlockUnfollow(s) \/ BlockSever(s) PROVE SeverInv'
  <2> DEFINE p == <<Owner[s], cmd[s].target>>
  <2>1. p \in Pairs
    BY <1>11, CommandFields, SocialAssumption DEF BlockUnfollow, BlockSever, Doing, Pairs
  <2>2. UNCHANGED <<blocks, made, since>> /\ cut \subseteq cut' /\ follows' \subseteq follows
    BY <1>11 DEF BlockUnfollow, BlockSever, DropsFollow, DeleteFollow
  <2>3. \A t \in Sessions \ {s} : cmd'[t] = cmd[t]
    BY <1>11 DEF BlockUnfollow, BlockSever, Done, Goes, TypeOK
  <2>4. \A t \in Sessions, q \in Pairs, op \in {"unfollow", "sever"} :
          q # p /\ At(t, op, q) => At(t, op, q)'
    BY <2>3 DEF At, Doing
  <2>5. \A u, v, q : AllYounger(u, v, q) => AllYounger(u, v, q)'
    BY <2>2 DEF AllYounger, FollowsOf
  <2>6. ASSUME NEW q \in blocks' \ cut'
        PROVE  \/ \E t \in Sessions : At(t, "unfollow", q)'
               \/ /\ AllYounger(q[1], q[2], q)'
                  /\ \/ \E t \in Sessions : At(t, "sever", q)'
                     \/ AllYounger(q[2], q[1], q)'
    <3>1. q \in blocks \ cut /\ q \in Pairs
      BY <2>2 DEF TypeOK
    <3>2. \/ \E t \in Sessions : At(t, "unfollow", q)
          \/ /\ AllYounger(q[1], q[2], q)
             /\ \/ \E t \in Sessions : At(t, "sever", q)
                \/ AllYounger(q[2], q[1], q)
      BY <3>1 DEF SeverInv
    <3>3. CASE q # p
      BY <2>4, <2>5, <3>1, <3>2, <3>3
    <3>4. CASE q = p
      <4>1. CASE BlockUnfollow(s)
        <5>1. follows' = follows \ FollowsOf(q[1], q[2])
          BY <2>6, <3>4, <4>1 DEF BlockUnfollow, DropsFollow, DeleteFollow
        <5>2. AllYounger(q[1], q[2], q)'
          BY <5>1 DEF AllYounger, FollowsOf
        <5>3. At(s, "sever", q)'
          BY <3>4, <4>1, CommandFields, NilAssumption DEF At, Doing, BlockUnfollow, Goes, TypeOK, Command
        <5> QED
          BY <5>2, <5>3
      <4>2. CASE BlockSever(s)
        <5>1. follows' = follows \ FollowsOf(q[2], q[1])
          BY <2>6, <3>4, <4>2 DEF BlockSever, DropsFollow, DeleteFollow
        <5>2. AllYounger(q[2], q[1], q)'
          BY <5>1 DEF AllYounger, FollowsOf
        <5>3. \A t \in Sessions : At(t, "unfollow", q) => At(t, "unfollow", q)'
          BY <2>3, <4>2 DEF At, Doing, BlockSever
        <5> QED
          BY <2>5, <3>2, <5>2, <5>3
      <4> QED
        BY <1>11, <4>1, <4>2
    <3> QED
      BY <3>3, <3>4
  <2> QED
    BY <2>2, <2>6 DEF SeverInv
<1>12. CASE Crash
  <2>1. UNCHANGED <<follows, blocks, made, since>> /\ cut \subseteq cut'
    BY <1>12 DEF Crash
  <2>2. ASSUME NEW p \in blocks' \ cut' PROVE AllYounger(p[1], p[2], p)' /\ AllYounger(p[2], p[1], p)'
    <3>1. p \in blocks \ cut /\ p \in Pairs
      BY <2>1 DEF TypeOK
    <3>2. \A s \in Sessions : ~At(s, "unfollow", p) /\ ~At(s, "sever", p)
      BY <1>12, <3>1 DEF Crash, At
    <3> QED
      BY <2>1, <3>1, <3>2 DEF SeverInv, AllYounger, FollowsOf
  <2> QED
    BY <2>1, <2>2 DEF SeverInv
<1> QED
  BY <1>1, <1>2, <1>3, <1>4, <1>5, <1>6, <1>7, <1>8, <1>9, <1>10, <1>11, <1>12, <1>13 DEF Next

\* Whatever the sessions of two users do at the same time, a block that was
\* not cut short leaves no follow between them that is older than it.
THEOREM BlocksSever == Spec => []BlockSevers
<1>1. Init => SeverInv
  BY DEF Init, SeverInv
<1>2. TypeOK /\ SeverInv /\ [Next]_vars => SeverInv'
  BY SeverStep
<1>3. SeverInv => BlockSevers
  BY DEF SeverInv, BlockSevers, Blocking, At, AllYounger
<1> QED
  BY <1>1, <1>2, <1>3, TypeCorrect, PTL DEF Spec
-----------------------------------------------------------------------------
(* Duplicates: while a user has a row for another, none of his sessions gets *)
(* past the check, so those rows and the sessions that are past it already   *)
(* are never more than his sessions.                                         *)

SessionsOf(u) == {s \in Sessions : Owner[s] = u}

\* The sessions of u that are going to insert a follow of v.
Past(u, v) == {s \in SessionsOf(u) : Doing(s, "follow") /\ cmd[s].target = v}

DupInv ==
  \A u, v \in Users :
    /\ IsFiniteSet(FollowsOf(u, v))
    /\ FollowsOf(u, v) # {} =>
         Cardinality(FollowsOf(u, v)) + Cardinality(Past(u, v)) <= Cardinality(SessionsOf(u))

\* Sessions are finite in number, and so are those of them that are anywhere.
LEMMA PastIsFinite ==
  ASSUME NEW u, NEW v
  PROVE  /\ IsFiniteSet(Past(u, v)) /\ Cardinality(Past(u, v)) \in Nat
         /\ IsFiniteSet(SessionsOf(u)) /\ Cardinality(SessionsOf(u)) \in Nat
         /\ Cardinality(Past(u, v)) <= Cardinality(SessionsOf(u))
<1>1. IsFiniteSet(SessionsOf(u))
  BY SocialAssumption, FS_Subset DEF SessionsOf
<1>2. Past(u, v) \subseteq SessionsOf(u)
  BY DEF Past
<1> QED
  BY <1>1, <1>2, FS_Subset, FS_CardinalityType

\* Where rows are only taken away and no session gets past the check.
LEMMA NoMoreRows ==
  ASSUME DupInv, NEW u \in Users, NEW v \in Users,
         FollowsOf(u, v)' \subseteq FollowsOf(u, v),
         FollowsOf(u, v) # {} => Past(u, v)' \subseteq Past(u, v)
  PROVE  /\ IsFiniteSet(FollowsOf(u, v)')
         /\ FollowsOf(u, v)' # {} =>
              Cardinality(FollowsOf(u, v)') + Cardinality(Past(u, v)') <= Cardinality(SessionsOf(u))
<1>1. IsFiniteSet(FollowsOf(u, v)) /\ IsFiniteSet(Past(u, v))
  BY PastIsFinite DEF DupInv
<1>2. IsFiniteSet(FollowsOf(u, v)')
  BY <1>1, FS_Subset
<1>3. ASSUME FollowsOf(u, v)' # {}
      PROVE  Cardinality(FollowsOf(u, v)') + Cardinality(Past(u, v)') <= Cardinality(SessionsOf(u))
  <2>1. FollowsOf(u, v) # {}
    BY <1>3
  <2>2. Cardinality(FollowsOf(u, v)) + Cardinality(Past(u, v)) <= Cardinality(SessionsOf(u))
    BY <2>1 DEF DupInv
  <2>3. IsFiniteSet(Past(u, v)') /\ Cardinality(Past(u, v)') <= Cardinality(Past(u, v))
    BY <1>1, <2>1, FS_Subset
  <2>4. Cardinality(FollowsOf(u, v)') <= Cardinality(FollowsOf(u, v))
    BY <1>1, FS_Subset
  <2>5. /\ Cardinality(FollowsOf(u, v)) \in Nat /\ Cardinality(FollowsOf(u, v)') \in Nat
        /\ Cardinality(Past(u, v)) \in Nat /\ Cardinality(Past(u, v)') \in Nat
        /\ Cardinality(SessionsOf(u)) \in Nat
    BY <1>1, <1>2, <2>3, PastIsFinite, FS_CardinalityType
  <2> QED
    BY <2>2, <2>3, <2>4, <2>5
<1> QED
  BY <1>2, <1>3

\* A session of u inserts the follow of v it is past the check for.
LEMMA OneMoreRow ==
  ASSUME DupInv, NEW u \in Users, NEW v \in Users, NEW s \in Past(u, v), NEW f,
         FollowsOf(u, v)' = FollowsOf(u, v) \cup {f},
         Past(u, v)' = Past(u, v) \ {s}
  PROVE  /\ IsFiniteSet(FollowsOf(u, v)')
         /\ Cardinality(FollowsOf(u, v)') + Cardinality(Past(u, v)') <= Cardinality(SessionsOf(u))
<1> DEFINE R == FollowsOf(u, v)
<1>1. IsFiniteSet(R) /\ Cardinality(R) \in Nat
  BY FS_CardinalityType DEF DupInv
<1>2. /\ IsFiniteSet(Past(u, v)) /\ Cardinality(Past(u, v)) \in Nat
      /\ Cardinality(SessionsOf(u)) \in Nat
      /\ Cardinality(Past(u, v)) <= Cardinality(SessionsOf(u))
  BY PastIsFinite
<1>3. Cardinality(Past(u, v)') = Cardinality(Past(u, v)) - 1
  BY <1>2, FS_RemoveElement
<1>4. /\ IsFiniteSet(R \cup {f}) /\ Cardinality(R \cup {f}) \in Nat
      /\ Cardinality(R \cup {f}) <= Cardinality(R) + 1
  <2>1. /\ IsFiniteSet(R \cup {f})
        /\ \/ Cardinality(R \cup {f}) = Cardinality(R)
           \/ Cardinality(R \cup {f}) = Cardinality(R) + 1
    BY <1>1, FS_AddElement
  <2> QED
    BY <1>1, <2>1
<1>5. CASE R = {}
  <2>1. Cardinality(R) = 0
    BY <1>5, FS_EmptySet
  <2> QED
    BY <1>1, <1>2, <1>3, <1>4, <2>1
<1>6. CASE R # {}
  <2>1. Cardinality(R) + Cardinality(Past(u, v)) <= Cardinality(SessionsOf(u))
    BY <1>6 DEF DupInv
  <2> QED
    BY <1>1, <1>2, <1>3, <1>4, <2>1
<1> QED
  BY <1>5, <1>6

\* DupInv is inductive.
LEMMA DupStep ==
  ASSUME TypeOK, DupInv, [Next]_vars
  PROVE  DupInv'
<1> SUFFICES ASSUME NEW u \in Users, NEW v \in Users
             PROVE  /\ IsFiniteSet(FollowsOf(u, v)')
                    /\ FollowsOf(u, v)' # {} =>
                         Cardinality(FollowsOf(u, v)') + Cardinality(Past(u, v)')
                           <= Cardinality(SessionsOf(u))
  BY DEF DupInv, SessionsOf
<1>1. CASE UNCHANGED <<follows, cmd>>
  BY <1>1, NoMoreRows DEF FollowsOf, Past, Doing
<1>2. ASSUME NEW s \in Sessions, NEW x \in Users, FollowLocal(s, x)
      PROVE  FollowsOf(u, v)' \subseteq FollowsOf(u, v) /\
             (FollowsOf(u, v) # {} => Past(u, v)' \subseteq Past(u, v))
  <2>1. follows' = follows /\ cmd' = [cmd EXCEPT ![s] = [op |-> "follow", target |-> x]]
        /\ FollowsOf(Owner[s], x) = {}
    BY <1>2 DEF FollowLocal, Goes
  <2>2. \A t \in Sessions \ {s} : cmd'[t] = cmd[t]
    BY <2>1 DEF TypeOK
  <2>3. cmd'[s].target = x
    BY <2>1 DEF TypeOK
  <2>4. FollowsOf(u, v)' = FollowsOf(u, v)
    BY <2>1 DEF FollowsOf
  <2>5. ASSUME FollowsOf(u, v) # {}, NEW t \in Past(u, v)' PROVE t \in Past(u, v)
    <3>1. t \in Sessions /\ Owner[t] = u /\ cmd'[t].target = v /\ Doing(t, "follow")'
      BY <2>5 DEF Past, SessionsOf
    <3>2. t # s
      BY <2>1, <2>3, <2>5, <3>1
    <3> QED
      BY <2>2, <3>1, <3>2 DEF Past, SessionsOf, Doing
  <2> QED
    BY <2>4, <2>5
<1>3. ASSUME NEW s \in Sessions, \A t \in Sessions \ {s} : cmd'[t] = cmd[t],
             ~Doing(s, "follow")', follows' \subseteq follows
      PROVE  FollowsOf(u, v)' \subseteq FollowsOf(u, v) /\ Past(u, v)' \subseteq Past(u, v)
  BY <1>3 DEF FollowsOf, Past, SessionsOf, Doing
<1>4. ASSUME NEW s \in Sessions, NEW x \in Users, BlockAdd(s, x) \/ BlockRemove(s, x)
      PROVE  FollowsOf(u, v)' \subseteq FollowsOf(u, v) /\ Past(u, v)' \subseteq Past(u, v)
  BY <1>3, <1>4 DEF BlockAdd, BlockRemove, Goes, Doing, TypeOK
<1>5. ASSUME NEW s \in Sessions, NEW x \in Users, FollowRemove(s, x)
      PROVE  FollowsOf(u, v)' \subseteq FollowsOf(u, v) /\ Past(u, v)' \subseteq Past(u, v)
  BY <1>5 DEF FollowRemove, DeleteFollow, FollowsOf, Past, Doing
<1>6. ASSUME NEW s \in Sessions, NEW r \in Remotes, FollowRemote(s, r)
      PROVE  FollowsOf(u, v)' \subseteq FollowsOf(u, v) /\ Past(u, v)' \subseteq Past(u, v)
  BY <1>3, <1>6 DEF FollowRemote, Goes, Doing, TypeOK
<1>7. ASSUME NEW s \in Sessions,
             Announce(s) \/ BlockInsert(s) \/ BlockUnfollow(s) \/ BlockSever(s) \/ Unblock(s)
      PROVE  FollowsOf(u, v)' \subseteq FollowsOf(u, v) /\ Past(u, v)' \subseteq Past(u, v)
  <2>1. (\A t \in Sessions \ {s} : cmd'[t] = cmd[t]) /\ ~Doing(s, "follow")'
    BY <1>7 DEF Announce, BlockInsert, BlockUnfollow, BlockSever, Unblock, Done, Goes, Doing, TypeOK
  <2>2. follows' \subseteq follows
    BY <1>7 DEF Announce, BlockInsert, BlockUnfollow, BlockSever, Unblock, DropsFollow, DeleteFollow
  <2> QED
    BY <1>3, <2>1, <2>2
<1>8. ASSUME NEW w \in Workers, NEW a \in announced, InboxAccept(w, a) PROVE UNCHANGED <<follows, cmd>>
  <2>1. \A row \in follows : row.id # UuidFromString(ActivityId(a))
    BY DEF TypeOK, FollowRow, UuidFromString, ActivityId, Ids
  <2> QED
    BY <1>8, <2>1 DEF InboxAccept
<1>9. CASE Crash
  <2>1. FollowsOf(u, v)' \subseteq FollowsOf(u, v) /\ Past(u, v)' = {}
    BY <1>9 DEF Crash, FollowsOf, Past, SessionsOf, Doing
  <2> QED
    BY <2>1, NoMoreRows
<1>10. ASSUME NEW s \in Sessions, FollowRemoteInsert(s)
       PROVE  FollowsOf(u, v)' \subseteq FollowsOf(u, v) /\ Past(u, v)' \subseteq Past(u, v)
  <2>1. (\A t \in Sessions \ {s} : cmd'[t] = cmd[t]) /\ ~Doing(s, "follow")'
    BY <1>10 DEF FollowRemoteInsert, Goes, Doing, TypeOK
  <2>2. FollowsOf(u, v)' \subseteq FollowsOf(u, v)
    BY <1>10, NilAssumption DEF FollowRemoteInsert, CreateFollow, FollowsOf
  <2> QED
    BY <2>1, <2>2 DEF Past, SessionsOf, Doing
<1>11. ASSUME NEW s \in Sessions, FollowLocalInsert(s)
       PROVE  /\ IsFiniteSet(FollowsOf(u, v)')
              /\ FollowsOf(u, v)' # {} =>
                   Cardinality(FollowsOf(u, v)') + Cardinality(Past(u, v)') <= Cardinality(SessionsOf(u))
  <2> DEFINE f == [id |-> made', follower |-> Owner[s], following |-> cmd[s].target,
                   remote |-> NoId, state |-> "accepted"]
  <2>1. /\ follows' = follows \cup {f}
        /\ cmd' = [cmd EXCEPT ![s] = [op |-> "notify", id |-> made']]
        /\ Doing(s, "follow")
    BY <1>11 DEF FollowLocalInsert, CreateFollow, Goes
  <2>2. f.follower = Owner[s] /\ f.following = cmd[s].target
    OBVIOUS
  <2>3. ~Doing(s, "follow")' /\ \A t \in Sessions \ {s} : cmd'[t] = cmd[t]
    BY <2>1 DEF Doing, TypeOK
  <2>4. Past(u, v)' = Past(u, v) \ {s}
    BY <2>3 DEF Past, SessionsOf, Doing
  <2> HIDE DEF f
  <2>5. CASE Owner[s] = u /\ cmd[s].target = v
    <3>1. s \in Past(u, v)
      BY <2>1, <2>5 DEF Past, SessionsOf
    <3>2. FollowsOf(u, v)' = FollowsOf(u, v) \cup {f}
      BY <2>1, <2>2, <2>5 DEF FollowsOf
    <3> QED
      BY <2>4, <3>1, <3>2, OneMoreRow
  <2>6. CASE ~(Owner[s] = u /\ cmd[s].target = v)
    <3>1. FollowsOf(u, v)' = FollowsOf(u, v)
      BY <2>1, <2>2, <2>6 DEF FollowsOf
    <3> QED
      BY <2>4, <3>1, NoMoreRows
  <2> QED
    BY <2>5, <2>6
<1>12. ASSUME NEW w \in Workers, NEW r \in Remotes, InboxFollow(w, r)
       PROVE  UNCHANGED <<follows, cmd>>
  BY <1>12 DEF InboxFollow
<1>17. ASSUME NEW s \in Sessions, NEW r \in Remotes, UserLookup(s, r)
       PROVE  UNCHANGED <<follows, cmd>>
  BY <1>17 DEF UserLookup
<1>13. ASSUME NEW w \in Workers, InboxFollowStore(w) PROVE UNCHANGED <<follows, cmd>>
  BY <1>13 DEF InboxFollowStore
<1>14. CASE UNCHANGED vars
  BY <1>1, <1>14 DEF vars
<1>15. CASE \E s \in Sessions, x \in Users :
              FollowLocal(s, x) \/ FollowRemove(s, x) \/ BlockAdd(s, x) \/ BlockRemove(s, x)
  BY <1>2, <1>4, <1>5, <1>15, NoMoreRows
<1>16. CASE \E s \in Sessions :
              \/ FollowLocalInsert(s) \/ FollowRemoteInsert(s) \/ Announce(s)
              \/ BlockInsert(s) \/ BlockUnfollow(s) \/ BlockSever(s) \/ Unblock(s)
  BY <1>7, <1>10, <1>11, <1>16, NoMoreRows
<1> QED
  BY <1>1, <1>6, <1>8, <1>9, <1>12, <1>13, <1>14, <1>15, <1>16, <1>17, NoMoreRows DEF Next

\* Although nothing but a check keeps follows unique, a user has at most as
\* many rows for one other user as he has sessions (follow.go:72).
THEOREM DuplicatesAreBounded == Spec => []DuplicatesBounded
<1>1. Init => DupInv
  <2> SUFFICES ASSUME Init, NEW u \in Users, NEW v \in Users PROVE FollowsOf(u, v) = {}
    BY FS_EmptySet DEF DupInv
  <2> QED
    BY DEF Init, FollowsOf
<1>2. TypeOK /\ DupInv /\ [Next]_vars => DupInv'
  BY DupStep
<1>3. DupInv => DuplicatesBounded
  <2> SUFFICES ASSUME DupInv, NEW u \in Users, NEW v \in Users
               PROVE  Cardinality(FollowsOf(u, v)) <= Cardinality(SessionsOf(u))
    BY DEF DuplicatesBounded, SessionsOf
  <2>1. Cardinality(Past(u, v)) \in Nat /\ Cardinality(SessionsOf(u)) \in Nat
    BY PastIsFinite
  <2>2. Cardinality(FollowsOf(u, v)) \in Nat
    BY FS_CardinalityType DEF DupInv
  <2>3. CASE FollowsOf(u, v) = {}
    BY <2>1, <2>3, FS_EmptySet
  <2>4. CASE FollowsOf(u, v) # {}
    BY <2>1, <2>2, <2>4 DEF DupInv
  <2> QED
    BY <2>3, <2>4
<1> QED
  BY <1>1, <1>2, <1>3, TypeCorrect, PTL DEF Spec
-----------------------------------------------------------------------------
(* Announcements                                                           *)

Told(x) ==
  \/ x \in announced \cup lost
  \/ \E s \in Sessions : Telling(s) /\ cmd[s].id = x

\* What was told stays told in a step that leaves alone the sessions that have
\* something to tell.
LEMMA StillTold ==
  ASSUME NEW x, Told(x), announced \subseteq announced', lost \subseteq lost',
         \A s \in Sessions : Telling(s) => cmd'[s] = cmd[s]
  PROVE  Told(x)'
  BY DEF Told, Telling, Doing

\* A session that moves to its next statement leaves the others alone.
LEMMA OthersTell ==
  ASSUME TypeOK, NEW s \in Sessions, NEW c, Goes(s, c), ~Telling(s)
  PROVE  \A t \in Sessions : Telling(t) => cmd'[t] = cmd[t]
  BY DEF TypeOK, Goes

\* With TypeOK, FollowIsAnnounced is inductive: the session that inserts a row
\* carries the row's id until it has told of it.
LEMMA ToldStep ==
  ASSUME TypeOK, \A f \in follows : Told(f.id), [Next]_vars
  PROVE  \A f \in follows' : Told(f.id)'
<1> USE NilAssumption
<1>2. ASSUME follows' \subseteq follows, announced' = announced, lost' = lost,
             \A s \in Sessions : Telling(s) => cmd'[s] = cmd[s]
      PROVE  \A f \in follows' : Told(f.id)'
  BY <1>2, StillTold
<1>3. ASSUME NEW s \in Sessions, NEW v \in Users,
             FollowLocal(s, v) \/ FollowRemove(s, v) \/ BlockAdd(s, v) \/ BlockRemove(s, v)
      PROVE  \A f \in follows' : Told(f.id)'
  <2>1. cmd' = cmd \/ (~Telling(s) /\ \E c : Goes(s, c))
    BY <1>3 DEF FollowLocal, FollowRemove, BlockAdd, BlockRemove, Idle, Telling, Doing
  <2>2. \A t \in Sessions : Telling(t) => cmd'[t] = cmd[t]
    BY <2>1, OthersTell
  <2> QED
    BY <1>2, <1>3, <2>2 DEF FollowLocal, FollowRemove, DeleteFollow, BlockAdd, BlockRemove
<1>4. ASSUME NEW s \in Sessions, NEW r \in Remotes, FollowRemote(s, r) \/ UserLookup(s, r)
      PROVE  \A f \in follows' : Told(f.id)'
  <2>1. cmd' = cmd \/ (~Telling(s) /\ \E c : Goes(s, c))
    BY <1>4 DEF FollowRemote, UserLookup, Idle, Telling, Doing
  <2>2. \A t \in Sessions : Telling(t) => cmd'[t] = cmd[t]
    BY <2>1, OthersTell
  <2> QED
    BY <1>2, <1>4, <2>2 DEF FollowRemote, UserLookup
<1>5. ASSUME NEW s \in Sessions, FollowLocalInsert(s) \/ FollowRemoteInsert(s)
      PROVE  \A f \in follows' : Told(f.id)'
  <2>1. ~Telling(s)
    BY <1>5 DEF FollowLocalInsert, FollowRemoteInsert, Telling, Doing
  <2>2. PICK op \in {"notify", "deliver"} : Goes(s, [op |-> op, id |-> made'])
    BY <1>5 DEF FollowLocalInsert, FollowRemoteInsert
  <2>3. \A t \in Sessions : Telling(t) => cmd'[t] = cmd[t]
    BY <2>1, <2>2, OthersTell
  <2>4. \A f \in follows : Told(f.id)'
    BY <1>5, <2>3, StillTold DEF FollowLocalInsert, FollowRemoteInsert
  <2>5. \A f \in follows' : f \in follows \/ f.id = made'
    BY <1>5 DEF FollowLocalInsert, FollowRemoteInsert, CreateFollow
  <2>6. cmd'[s] = [op |-> op, id |-> made'] /\ cmd'[s] # Nil
    <3>1. cmd'[s] = [op |-> op, id |-> made']
      BY <2>2 DEF Goes, TypeOK
    <3>2. made' \in Ids
      BY <1>5 DEF TypeOK, FollowLocalInsert, FollowRemoteInsert, CreateFollow, Ids, NoId
    <3>3. cmd'[s] \in Command
      BY <3>1, <3>2 DEF Command
    <3> QED
      BY <3>1, <3>3
  <2>7. \A x : x = made' => (\E t \in Sessions : Telling(t) /\ cmd[t].id = x)'
    BY <2>6 DEF Telling, Doing
  <2> QED
    BY <2>4, <2>5, <2>7 DEF Told
<1>6. ASSUME NEW s \in Sessions, Announce(s)
      PROVE  \A f \in follows' : Told(f.id)'
  <2>1. \A t \in Sessions \ {s} : cmd'[t] = cmd[t]
    BY <1>6 DEF Announce, Done, Goes, TypeOK
  <2>2. announced' \cup lost' = (announced \cup lost) \cup {cmd[s].id}
    BY <1>6 DEF Announce
  <2> SUFFICES ASSUME NEW f \in follows PROVE Told(f.id)'
    BY <1>6 DEF Announce
  <2>3. CASE f.id \in announced' \cup lost'
    BY <2>3 DEF Told
  <2>4. CASE \E t \in Sessions \ {s} : Telling(t) /\ cmd[t].id = f.id
    BY <2>1, <2>4 DEF Told, Telling, Doing
  <2> QED
    BY <2>2, <2>3, <2>4 DEF Told
<1>7. ASSUME NEW s \in Sessions,
             BlockInsert(s) \/ BlockUnfollow(s) \/ BlockSever(s) \/ Unblock(s)
      PROVE  \A f \in follows' : Told(f.id)'
  <2>1. ~Telling(s) /\ \E c : Goes(s, c)
    BY <1>7 DEF BlockInsert, BlockUnfollow, BlockSever, Unblock, Done, Telling, Doing
  <2>2. \A t \in Sessions : Telling(t) => cmd'[t] = cmd[t]
    BY <2>1, OthersTell
  <2>3. follows' \subseteq follows /\ announced' = announced /\ lost' = lost
    BY <1>7 DEF BlockInsert, BlockUnfollow, BlockSever, Unblock, DropsFollow, DeleteFollow
  <2> QED
    BY <1>2, <2>2, <2>3
<1>8. ASSUME NEW w \in Workers, NEW a \in announced, InboxAccept(w, a)
      PROVE  \A f \in follows' : Told(f.id)'
  <2>1. \A f \in follows : Told(f.id)'
    BY <1>8, StillTold DEF InboxAccept
  <2>2. \A f \in follows' : \E g \in follows : f.id = g.id
    BY <1>8 DEF InboxAccept, TypeOK, FollowRow
  <2> QED
    BY <2>1, <2>2
<1>9. CASE Crash
  BY <1>9 DEF Crash, Told
<1>10. ASSUME NEW w \in Workers, NEW r \in Remotes, InboxFollow(w, r)
       PROVE  \A f \in follows' : Told(f.id)'
  BY <1>2, <1>10 DEF InboxFollow
<1>11. ASSUME NEW w \in Workers, InboxFollowStore(w)
       PROVE  \A f \in follows' : Told(f.id)'
  BY <1>2, <1>11 DEF InboxFollowStore
<1>12. CASE UNCHANGED vars
  BY <1>2, <1>12 DEF vars
<1> QED
  BY <1>3, <1>4, <1>5, <1>6, <1>7, <1>8, <1>9, <1>10, <1>11, <1>12 DEF Next

\* Every follow whose command is over was announced, but for those whose own
\* announcement failed or was cut short (follow.go:99, follow.go:138).
THEOREM FollowsAreAnnounced == Spec => []FollowIsAnnounced
<1>1. FollowIsAnnounced <=> \A f \in follows : Told(f.id)
  BY DEF FollowIsAnnounced, Told
<1>2. Init => FollowIsAnnounced
  BY DEF Init, FollowIsAnnounced
<1>3. TypeOK /\ FollowIsAnnounced /\ [Next]_vars => FollowIsAnnounced'
  <2>1. FollowIsAnnounced' <=> \A f \in follows' : Told(f.id)'
    BY DEF FollowIsAnnounced, Told
  <2> QED
    BY <1>1, <2>1, ToldStep
<1> QED
  BY <1>2, <1>3, TypeCorrect, PTL DEF Spec
-----------------------------------------------------------------------------
(* What the ids and the answers come to                                    *)

\* A follow of a remote actor is pending for good, whatever the server it was
\* sent to answers and however often: uuidFromString never finds the row that
\* an Accept is about (inbox.go, handleAccept).
THEOREM RemoteFollowsStayPending ==
  Spec => [](\A f \in follows : f.remote # NoId => f.state = "pending")
<1> DEFINE Pend == \A f \in follows : f.remote # NoId => f.state = "pending"
<1>1. Init => Pend
  BY DEF Init
<1>2. TypeOK /\ Pend /\ [Next]_vars => Pend'
  <2> SUFFICES ASSUME TypeOK, Pend, [Next]_vars PROVE Pend'
    OBVIOUS
  <2>1. CASE follows' \subseteq follows
    BY <2>1
  <2>2. ASSUME NEW s \in Sessions, FollowLocalInsert(s) \/ FollowRemoteInsert(s) PROVE Pend'
    BY <2>2 DEF FollowLocalInsert, FollowRemoteInsert, CreateFollow
  <2>3. ASSUME NEW w \in Workers, NEW x \in announced, InboxAccept(w, x) PROVE Pend'
    <3>1. UuidFromString(ActivityId(x)) = NoId
      BY DEF UuidFromString, ActivityId
    <3>2. \A f \in follows : f.id # NoId
      BY DEF TypeOK, FollowRow, Ids
    <3>3. follows' = {IF f.id = NoId THEN [f EXCEPT !.state = "accepted"] ELSE f : f \in follows}
      BY <2>3, <3>1 DEF InboxAccept
    <3>4. QED
      BY <2>1, <3>2, <3>3
  <2>4. QED
    BY <2>1, <2>2, <2>3 DEF Next, vars, FollowLocal, FollowRemove, DeleteFollow, BlockAdd,
       BlockRemove, FollowRemote, UserLookup, Announce, BlockInsert, BlockUnfollow, BlockSever,
       DropsFollow, Unblock, InboxFollow, InboxFollowStore, Crash
<1>3. QED
  BY <1>1, <1>2, TypeCorrect, PTL DEF Spec

\* The ids in remote_actors, in follows and in the commands under way were
\* made up before, and no two actors have the same.
MintedIds ==
  /\ \A r \in Remotes : actors[r] <= minted
  /\ \A q, r \in Remotes : actors[q] # NoId /\ actors[q] = actors[r] => q = r
  /\ \A f \in follows : f.remote <= minted
  /\ \A s \in Sessions : Doing(s, "follow_remote") => cmd[s].remote <= minted

\* Storing an actor under a fresh id keeps the ids apart.
LEMMA UpsertKeepsApart ==
  ASSUME TypeOK, MintedIds, NEW r \in Remotes,
         minted' = minted + 1, CreateRemoteActor(r, minted')
  PROVE  /\ \A q \in Remotes : actors'[q] = actors[q] \/ actors'[q] = minted'
         /\ (\A q \in Remotes : actors[q] <= minted)'
         /\ (\A p, q \in Remotes : actors[p] # NoId /\ actors[p] = actors[q] => p = q)'
<1> USE DEF TypeOK, Ids, NoId
<1>1. \A q \in Remotes : actors'[q] = IF q = r /\ actors[r] = NoId THEN minted' ELSE actors[q]
  BY DEF CreateRemoteActor
<1>2. \A q \in Remotes : actors[q] \in Nat /\ actors[q] <= minted /\ minted \in Nat
  BY DEF MintedIds
<1>3. \A q \in Remotes : actors'[q] <= minted'
  BY <1>1, <1>2
<1>4. \A p, q \in Remotes : actors'[p] # NoId /\ actors'[p] = actors'[q] => p = q
  BY <1>1, <1>2 DEF MintedIds
<1>5. QED
  BY <1>1, <1>3, <1>4

LEMMA MintedStep ==
  ASSUME TypeOK, TypeOK', MintedIds, [Next]_vars
  PROVE  MintedIds' /\ \A q \in Remotes : actors'[q] = actors[q] \/ actors'[q] > minted
<1> USE NilAssumption
<1>1. /\ minted \in Nat
      /\ \A f \in follows : f.remote \in Nat
      /\ \A q \in Remotes : actors[q] \in Nat
      /\ \A s \in Sessions : Doing(s, "follow_remote") => cmd[s].remote \in Nat
  BY CommandFields DEF TypeOK, FollowRow, Ids, NoId, Doing
<1>2. ASSUME actors' = actors, minted' = minted,
             \A f \in follows' : f.remote <= minted,
             \A s \in Sessions : Doing(s, "follow_remote")' => cmd'[s].remote <= minted
      PROVE  MintedIds' /\ \A q \in Remotes : actors'[q] = actors[q] \/ actors'[q] > minted
  BY <1>2 DEF MintedIds
<1>3. ASSUME NEW r \in Remotes, minted' = minted + 1, CreateRemoteActor(r, minted'),
             follows' = follows,
             \A s \in Sessions : Doing(s, "follow_remote")' => cmd'[s].remote <= minted'
      PROVE  MintedIds' /\ \A q \in Remotes : actors'[q] = actors[q] \/ actors'[q] > minted
  BY <1>1, <1>3, UpsertKeepsApart DEF MintedIds
<1>4. ASSUME follows' \subseteq follows, cmd' = cmd
      PROVE  /\ \A f \in follows' : f.remote <= minted
             /\ \A s \in Sessions : Doing(s, "follow_remote")' => cmd'[s].remote <= minted
  BY <1>4 DEF MintedIds, Doing
<1>5. ASSUME NEW s \in Sessions, NEW c, Goes(s, c), c = Nil \/ c.op # "follow_remote"
      PROVE  \A t \in Sessions : Doing(t, "follow_remote")' => cmd'[t].remote <= minted
  BY <1>5 DEF MintedIds, Doing, Goes, TypeOK
<1>6. ASSUME NEW s \in Sessions, NEW v \in Users,
             FollowLocal(s, v) \/ FollowRemove(s, v) \/ BlockAdd(s, v) \/ BlockRemove(s, v)
      PROVE  MintedIds' /\ \A q \in Remotes : actors'[q] = actors[q] \/ actors'[q] > minted
  <2>1. follows' \subseteq follows /\ actors' = actors /\ minted' = minted
    BY <1>6 DEF FollowLocal, FollowRemove, DeleteFollow, BlockAdd, BlockRemove
  <2>2. cmd' = cmd \/ \E c : Goes(s, c) /\ c.op # "follow_remote"
    <3>1. \/ cmd' = cmd
          \/ \E op \in {"follow", "block", "unblock"} : Goes(s, [op |-> op, target |-> v])
      BY <1>6 DEF FollowLocal, FollowRemove, BlockAdd, BlockRemove
    <3>2. \A op \in {"follow", "block", "unblock"} :
             [op |-> op, target |-> v].op # "follow_remote"
      OBVIOUS
    <3>3. QED
      BY <3>1, <3>2
  <2>3. QED
    BY <1>2, <1>4, <1>5, <2>1, <2>2 DEF MintedIds
<1>7. ASSUME NEW s \in Sessions,
             \/ Announce(s) \/ BlockInsert(s) \/ BlockUnfollow(s) \/ BlockSever(s) \/ Unblock(s)
      PROVE  MintedIds' /\ \A q \in Remotes : actors'[q] = actors[q] \/ actors'[q] > minted
  <2>1. follows' \subseteq follows /\ actors' = actors /\ minted' = minted
    BY <1>7 DEF Announce, BlockInsert, BlockUnfollow, BlockSever, Unblock, DropsFollow, DeleteFollow
  <2>2. \E c : Goes(s, c) /\ (c = Nil \/ c.op # "follow_remote")
    BY <1>7 DEF Announce, BlockInsert, BlockUnfollow, BlockSever, Unblock, Done, Goes
  <2>3. QED
    BY <1>2, <1>5, <2>1, <2>2 DEF MintedIds
<1>8. ASSUME NEW s \in Sessions, FollowLocalInsert(s) \/ FollowRemoteInsert(s)
      PROVE  MintedIds' /\ \A q \in Remotes : actors'[q] = actors[q] \/ actors'[q] > minted
  <2>1. actors' = actors /\ minted' = minted
    BY <1>8 DEF FollowLocalInsert, FollowRemoteInsert
  <2>2. \A f \in follows' : f.remote <= minted
    BY <1>1, <1>8 DEF FollowLocalInsert, FollowRemoteInsert, CreateFollow, MintedIds, NoId
  <2>3. \E c : Goes(s, c) /\ c.op # "follow_remote"
    <3>1. \E op \in {"notify", "deliver"} : Goes(s, [op |-> op, id |-> made'])
      BY <1>8 DEF FollowLocalInsert, FollowRemoteInsert
    <3>2. \A op \in {"notify", "deliver"} : [op |-> op, id |-> made'].op # "follow_remote"
      OBVIOUS
    <3>3. QED
      BY <3>1, <3>2
  <2>4. QED
    BY <1>2, <1>5, <2>1, <2>2, <2>3
<1>9. ASSUME NEW s \in Sessions, NEW r \in Remotes, FollowRemote(s, r)
      PROVE  MintedIds' /\ \A q \in Remotes : actors'[q] = actors[q] \/ actors'[q] > minted
  <2>1. \A t \in Sessions : Doing(t, "follow_remote")' => cmd'[t].remote <= minted'
    BY <1>1, <1>9 DEF FollowRemote, StoreActor, Goes, Doing, MintedIds, TypeOK
  <2>2. QED
    BY <1>3, <1>9, <2>1 DEF FollowRemote, StoreActor
<1>10. ASSUME cmd' = cmd, minted' = minted + 1
       PROVE  \A t \in Sessions : Doing(t, "follow_remote")' => cmd'[t].remote <= minted'
  BY <1>1, <1>10 DEF Doing, MintedIds
<1>11. ASSUME NEW s \in Sessions, NEW r \in Remotes, UserLookup(s, r)
       PROVE  MintedIds' /\ \A q \in Remotes : actors'[q] = actors[q] \/ actors'[q] > minted
  BY <1>3, <1>10, <1>11 DEF UserLookup, StoreActor
<1>12. ASSUME NEW w \in Workers, InboxFollowStore(w)
       PROVE  MintedIds' /\ \A q \in Remotes : actors'[q] = actors[q] \/ actors'[q] > minted
  <2>1. CASE \E r \in Remotes : StoreActor(r)
    BY <1>3, <1>10, <1>12, <2>1 DEF InboxFollowStore, StoreActor
  <2>2. CASE UNCHANGED <<actors, minted, madeFor>>
    BY <1>2, <1>4, <1>12, <2>2 DEF InboxFollowStore
  <2>3. QED
    BY <1>12, <2>1, <2>2 DEF InboxFollowStore
<1>13. ASSUME NEW w \in Workers, NEW x \in announced, InboxAccept(w, x)
       PROVE  MintedIds' /\ \A q \in Remotes : actors'[q] = actors[q] \/ actors'[q] > minted
  <2>1. \A f \in follows' : f.remote <= minted
    <3>1. \A f \in follows' : \E g \in follows : f = g \/ f = [g EXCEPT !.state = "accepted"]
      BY <1>13 DEF InboxAccept
    <3>2. \A g \in follows : [g EXCEPT !.state = "accepted"].remote = g.remote
      BY DEF TypeOK, FollowRow
    <3>3. QED
      BY <3>1, <3>2 DEF MintedIds
  <2>2. QED
    BY <1>2, <1>4, <1>13, <2>1 DEF InboxAccept, MintedIds, Doing
<1>14. ASSUME NEW w \in Workers, NEW r \in Remotes, InboxFollow(w, r)
       PROVE  MintedIds' /\ \A q \in Remotes : actors'[q] = actors[q] \/ actors'[q] > minted
  BY <1>2, <1>4, <1>14 DEF InboxFollow
<1>15. ASSUME Crash
       PROVE  MintedIds' /\ \A q \in Remotes : actors'[q] = actors[q] \/ actors'[q] > minted
  BY <1>2, <1>15 DEF Crash, Doing, MintedIds
<1>16. ASSUME UNCHANGED vars
       PROVE  MintedIds' /\ \A q \in Remotes : actors'[q] = actors[q] \/ actors'[q] > minted
  BY <1>2, <1>4, <1>16 DEF vars
<1>17. QED
  BY <1>6, <1>7, <1>8, <1>9, <1>11, <1>12, <1>13, <1>14, <1>15, <1>16 DEF Next

LEMMA MintedInit == Init => MintedIds
BY DEF Init, MintedIds, NoId, Doing

\* Two remote actors never have the same id, so a follow is of one actor at
\* most, whatever sessions and workers store at the same time.
THEOREM ActorIdsAreTheirOwn ==
  Spec => [](\A q, r \in Remotes : actors[q] # NoId /\ actors[q] = actors[r] => q = r)
<1>1. TypeOK /\ TypeOK' /\ MintedIds /\ [Next]_vars => MintedIds'
  BY MintedStep
<1>2. MintedIds => \A q, r \in Remotes : actors[q] # NoId /\ actors[q] = actors[r] => q = r
  BY DEF MintedIds
<1>3. QED
  BY <1>1, <1>2, MintedInit, TypeCorrect, PTL DEF Spec

\* What was made up for an actor is not older than the actor's row, and
\* follows and follow commands carry such ids.
NamesInv ==
  /\ \A x \in madeFor : actors[x[2]] # NoId /\ actors[x[2]] <= x[1]
  /\ \A f \in follows : f.remote # NoId => \E r \in Remotes : <<f.remote, r>> \in madeFor
  /\ \A s \in Sessions :
       Doing(s, "follow_remote") => \E r \in Remotes : <<cmd[s].remote, r>> \in madeFor

\* Storing an actor leaves the rows that are there alone.
LEMMA StoreNames ==
  ASSUME TypeOK, MintedIds, NamesInv, NEW r \in Remotes, StoreActor(r)
  PROVE  /\ madeFor \subseteq madeFor' /\ <<minted', r>> \in madeFor'
         /\ (\A x \in madeFor : actors[x[2]] # NoId /\ actors[x[2]] <= x[1])'
<1> USE DEF TypeOK, Ids, NoId
<1>1. madeFor' = madeFor \cup {<<minted', r>>} /\ minted' = minted + 1 /\ minted \in Nat
  BY DEF StoreActor
<1>2. \A q \in Remotes : actors'[q] = IF q = r /\ actors[r] = NoId THEN minted' ELSE actors[q]
  BY DEF StoreActor, CreateRemoteActor
<1>3. actors[r] \in Nat /\ actors[r] <= minted
  BY DEF MintedIds
<1>4. ASSUME NEW x \in madeFor
      PROVE  actors'[x[2]] # NoId /\ actors'[x[2]] <= x[1]
  <2>1. x[2] \in Remotes /\ actors[x[2]] # NoId /\ actors[x[2]] <= x[1]
    BY DEF NamesInv
  <2> QED
    BY <1>2, <2>1
<1>5. actors'[r] # NoId /\ actors'[r] <= minted'
  BY <1>1, <1>2, <1>3
<1> QED
  BY <1>1, <1>4, <1>5

LEMMA NamesStep ==
  ASSUME TypeOK, MintedIds, NamesInv, [Next]_vars
  PROVE  NamesInv'
<1> USE NilAssumption
<1>1. ASSUME UNCHANGED <<actors, madeFor>>,
             \A f \in follows' : f.remote = NoId \/ (\E g \in follows : f.remote = g.remote)
                                \/ \E s \in Sessions : Doing(s, "follow_remote") /\ f.remote = cmd[s].remote,
             \A s \in Sessions : Doing(s, "follow_remote")' => cmd'[s] = cmd[s]
      PROVE  NamesInv'
  <2>1. \A s \in Sessions : Doing(s, "follow_remote")' => Doing(s, "follow_remote")
    BY <1>1 DEF Doing
  <2> QED
    BY <1>1, <2>1 DEF NamesInv
<1>2. ASSUME NEW r \in Remotes, StoreActor(r), follows' = follows,
             \A s \in Sessions : Doing(s, "follow_remote")' => cmd'[s] = cmd[s] \/ cmd'[s].remote = minted'
      PROVE  NamesInv'
  <2>1. /\ madeFor \subseteq madeFor' /\ <<minted', r>> \in madeFor'
        /\ (\A x \in madeFor : actors[x[2]] # NoId /\ actors[x[2]] <= x[1])'
    BY <1>2, StoreNames
  <2>2. ASSUME NEW s \in Sessions, Doing(s, "follow_remote")'
        PROVE  \E q \in Remotes : <<cmd'[s].remote, q>> \in madeFor'
    <3>1. CASE cmd'[s] = cmd[s]
      <4>1. Doing(s, "follow_remote")
        BY <2>2, <3>1 DEF Doing
      <4> QED
        BY <2>1, <3>1, <4>1 DEF NamesInv
    <3>2. CASE cmd'[s].remote = minted'
      BY <2>1, <3>2
    <3> QED
      BY <1>2, <2>2, <3>1, <3>2
  <2> QED
    BY <1>2, <2>1, <2>2 DEF NamesInv
<1>3. ASSUME NEW s \in Sessions, NEW c, Goes(s, c), c = Nil \/ c.op # "follow_remote"
      PROVE  \A t \in Sessions : Doing(t, "follow_remote")' => cmd'[t] = cmd[t]
  BY <1>3 DEF Goes, Doing, TypeOK
<1>4. ASSUME NEW s \in Sessions, NEW v \in Users,
             FollowLocal(s, v) \/ FollowRemove(s, v) \/ BlockAdd(s, v) \/ BlockRemove(s, v)
      PROVE  NamesInv'
  <2>1. follows' \subseteq follows /\ UNCHANGED <<actors, madeFor>>
    BY <1>4 DEF FollowLocal, FollowRemove, DeleteFollow, BlockAdd, BlockRemove
  <2>2. cmd' = cmd \/ \E op \in {"follow", "block", "unblock"} : Goes(s, [op |-> op, target |-> v])
    BY <1>4 DEF FollowLocal, FollowRemove, BlockAdd, BlockRemove
  <2>3. \A op \in {"follow", "block", "unblock"} : [op |-> op, target |-> v].op # "follow_remote"
    OBVIOUS
  <2>4. \A t \in Sessions : Doing(t, "follow_remote")' => cmd'[t] = cmd[t]
    BY <1>3, <2>2, <2>3
  <2> QED
    BY <1>1, <2>1, <2>4
<1>5. ASSUME NEW s \in Sessions,
             \/ Announce(s) \/ BlockInsert(s) \/ BlockUnfollow(s) \/ BlockSever(s) \/ Unblock(s)
      PROVE  NamesInv'
  <2>1. follows' \subseteq follows /\ UNCHANGED <<actors, madeFor>>
    BY <1>5 DEF Announce, BlockInsert, BlockUnfollow, BlockSever, Unblock, DropsFollow, DeleteFollow
  <2>2. \E c : Goes(s, c) /\ (c = Nil \/ c.op # "follow_remote")
    BY <1>5 DEF Announce, BlockInsert, BlockUnfollow, BlockSever, Unblock, Done, Goes
  <2>3. \A t \in Sessions : Doing(t, "follow_remote")' => cmd'[t] = cmd[t]
    BY <1>3, <2>2
  <2> QED
    BY <1>1, <2>1, <2>3
<1>6. ASSUME NEW s \in Sessions, FollowLocalInsert(s) \/ FollowRemoteInsert(s)
      PROVE  NamesInv'
  <2>1. \A f \in follows' : f.remote = NoId \/ (\E g \in follows : f.remote = g.remote)
                           \/ \E t \in Sessions : Doing(t, "follow_remote") /\ f.remote = cmd[t].remote
    BY <1>6 DEF FollowLocalInsert, FollowRemoteInsert, CreateFollow
  <2>2. \E op \in {"notify", "deliver"} : Goes(s, [op |-> op, id |-> made'])
    BY <1>6 DEF FollowLocalInsert, FollowRemoteInsert
  <2>3. \A op \in {"notify", "deliver"} : [op |-> op, id |-> made'].op # "follow_remote"
    OBVIOUS
  <2>4. \A t \in Sessions : Doing(t, "follow_remote")' => cmd'[t] = cmd[t]
    BY <1>3, <2>2, <2>3
  <2> QED
    BY <1>1, <1>6, <2>1, <2>4 DEF FollowLocalInsert, FollowRemoteInsert
<1>7. ASSUME NEW s \in Sessions, NEW r \in Remotes, FollowRemote(s, r)
      PROVE  NamesInv'
  <2>1. \A t \in Sessions : cmd'[t] = cmd[t] \/ cmd'[t].remote = minted'
    BY <1>7 DEF FollowRemote, Goes, TypeOK
  <2> QED
    BY <1>2, <1>7, <2>1 DEF FollowRemote
<1>8. ASSUME NEW s \in Sessions, NEW r \in Remotes, UserLookup(s, r)
      PROVE  NamesInv'
  BY <1>2, <1>8 DEF UserLookup
<1>9. ASSUME NEW w \in Workers, InboxFollowStore(w)
      PROVE  NamesInv'
  <2>1. CASE \E r \in Remotes : StoreActor(r)
    BY <1>2, <1>9, <2>1 DEF InboxFollowStore
  <2>2. CASE UNCHANGED <<actors, minted, madeFor>>
    BY <1>1, <1>9, <2>2 DEF InboxFollowStore
  <2> QED
    BY <1>9, <2>1, <2>2 DEF InboxFollowStore
<1>10. ASSUME NEW w \in Workers, NEW x \in announced, InboxAccept(w, x)
       PROVE  NamesInv'
  <2>1. \A f \in follows' : \E g \in follows : f.remote = g.remote
    <3>1. \A g \in follows : [g EXCEPT !.state = "accepted"].remote = g.remote
      BY DEF TypeOK, FollowRow
    <3>2. \A f \in follows' : \E g \in follows : f = g \/ f = [g EXCEPT !.state = "accepted"]
      BY <1>10 DEF InboxAccept
    <3> QED
      BY <3>1, <3>2
  <2> QED
    BY <1>1, <1>10, <2>1 DEF InboxAccept
<1>11. CASE Crash \/ (\E w \in Workers, r \in Remotes : InboxFollow(w, r)) \/ UNCHANGED vars
  BY <1>1, <1>11 DEF Crash, InboxFollow, vars, Doing
<1> QED
  BY <1>4, <1>5, <1>6, <1>7, <1>8, <1>9, <1>10, <1>11 DEF Next

\* However sessions and workers race to store an actor, a follow of it is never
\* left without a row of the actor, and none younger than the follow's lookup
\* takes the place of an older (CreateRemoteActor is an upsert).
THEOREM FollowsNameTheirActor == Spec => []FollowNamesItsActor
<1>1. TypeOK /\ TypeOK' /\ MintedIds /\ [Next]_vars => MintedIds'
  BY MintedStep
<1>2. TypeOK /\ MintedIds /\ NamesInv /\ [Next]_vars => NamesInv'
  BY NamesStep
<1>3. Init => NamesInv
  BY DEF Init, NamesInv, Doing
<1>4. NamesInv => FollowNamesItsActor
  <2> SUFFICES ASSUME NamesInv, NEW f \in follows, f.remote # NoId
               PROVE  \E r \in Remotes :
                        <<f.remote, r>> \in madeFor /\ actors[r] # NoId /\ actors[r] <= f.remote
    BY DEF FollowNamesItsActor
  <2>1. PICK r \in Remotes : <<f.remote, r>> \in madeFor
    BY DEF NamesInv
  <2>2. actors[<<f.remote, r>>[2]] # NoId /\ actors[<<f.remote, r>>[2]] <= <<f.remote, r>>[1]
    BY <2>1 DEF NamesInv
  <2> QED
    BY <2>1, <2>2
<1>5. QED
  BY <1>1, <1>2, <1>3, <1>4, MintedInit, TypeCorrect, PTL DEF Spec

\* A follow that was inserted under an id no actor has, because the actor was
\* there already or another session stored it first, names nobody for good
\* (follow.go:120).
THEOREM DanglingFollowsStay ==
  Spec => [][\A f \in follows :
               f.remote # NoId /\ (\A r \in Remotes : actors[r] # f.remote)
                 => \A r \in Remotes : actors'[r] # f.remote]_vars
<1>1. TypeOK /\ TypeOK' /\ MintedIds /\ [Next]_vars => MintedIds'
  BY MintedStep
<1>2. TypeOK /\ TypeOK' /\ MintedIds /\ [Next]_vars =>
        [\A f \in follows :
           f.remote # NoId /\ (\A r \in Remotes : actors[r] # f.remote)
             => \A r \in Remotes : actors'[r] # f.remote]_vars
  <2> SUFFICES ASSUME TypeOK, TypeOK', MintedIds, [Next]_vars, NEW f \in follows,
                      \A r \in Remotes : actors[r] # f.remote, NEW r \in Remotes
               PROVE  actors'[r] # f.remote
    OBVIOUS
  <2>1. actors'[r] = actors[r] \/ actors'[r] > minted
    BY MintedStep
  <2>2. f.remote \in Nat /\ minted \in Nat /\ f.remote <= minted
    BY DEF TypeOK, FollowRow, Ids, NoId, MintedIds
  <2>3. QED
    BY <2>1, <2>2
<1>3. QED
  BY <1>1, <1>2, MintedInit, TypeCorrect, PTL DEF Spec

=============================================================================
