--------------------------- MODULE AccountsProofs ---------------------------
(***************************************************************************)
(* Proofs about Accounts for any number of ids, names and connections and  *)
(* any number of generated passwords.                                      *)
(*                                                                         *)
(* Rows travel: a login copies one into its session, a command copies one  *)
(* and writes it back later.  The argument is that every copy, however     *)
(* old, satisfies what is asked of the table (Given), that the facts a     *)
(* copy rests on (a password was issued, a sanction was decided) never     *)
(* become false, and that a login only ever copies a row that is not       *)
(* suspended.                                                              *)
(***************************************************************************)
EXTENDS Accounts, FiniteSetTheorems, TLAPS

\* What is asked of every row of the table and of every copy of one.
Given(r) ==
  /\ r \in UserRow
  /\ r.is_admin <=> r.id = Root
  /\ r.id = Root => ~r.is_locked
  /\ r.password \in issued[r.id]
  /\ r.is_locked => "suspend" \in sanctions[r.id]
  /\ r.is_silenced => "silence" \in sanctions[r.id]

\* The row a moderation command is going to write: what it adds is decided
\* only when it writes.
GivenBut(op, r) ==
  /\ r \in UserRow
  /\ r.is_admin <=> r.id = Root
  /\ r.id = Root => ~r.is_locked
  /\ r.password \in issued[r.id]
  /\ r.is_locked => op = "suspend" \/ "suspend" \in sanctions[r.id]
  /\ r.is_silenced => op = "silence" \/ "silence" \in sanctions[r.id]

Rows ==
  /\ Present(Root)
  /\ \A u \in Ids : Present(u) => users[u].id = u /\ Given(users[u])

SessionOK(s) ==
  /\ sess[s] # "off" => snap[s] # NoUser
  /\ snap[s] # NoUser => Given(snap[s]) /\ ~snap[s].is_locked

CommandOK(s) ==
  cmd[s] # NoCommand =>
    /\ sess[s] = "shell"
    /\ cmd[s].op = "profile" => cmd[s].row = snap[s]
    /\ cmd[s].op # "profile" => snap[s].is_admin
    /\ cmd[s].op \in ModOps => GivenBut(cmd[s].op, cmd[s].row)
    /\ cmd[s].op = "create_user" => Given(cmd[s].row)
    /\ cmd[s].op = "delete_user" => cmd[s].row.id # Root

SessionsOK == \A s \in Sessions : SessionOK(s) /\ CommandOK(s)

\* An account that an audit row refers to is there, a session on record is in
\* the shell and its account is there, and a login that has tried to leave an
\* audit row has left its account with one, or is known for not having done so.
Recorded ==
  /\ \A u \in audited : Present(u)
  /\ \A s \in recorded : sess[s] = "shell" /\ Present(snap[s].id)
  /\ \A s \in Sessions : sess[s] \in {"logged", "shell"} =>
       snap[s].id \in audited \/ s \in unaudited

\* A user's session that has used up what it may edit has no edit under way.
Drained ==
  \A s \in Sessions :
    /\ late[s] <= 1 + unchecked[s]
    /\ ~maintenance => late[s] = 0
    /\ late[s] = 1 + unchecked[s] /\ cmd[s] # NoCommand => snap[s].is_admin

IInv == TypeOK /\ Rows /\ SessionsOK /\ Recorded /\ Drained

-----------------------------------------------------------------------------
(* The invariant holds initially and every action preserves it.            *)

\* A command leaves its row in the range of rows, and changes nothing but
\* what it decides.
LEMMA ModifyRow ==
  ASSUME NEW op \in ModOps, NEW r \in UserRow, NEW pw \in Passwords
  PROVE  /\ Modify(op, r, pw) \in UserRow
         /\ Modify(op, r, pw).id = r.id
         /\ Modify(op, r, pw).is_admin = r.is_admin
         /\ Modify(op, r, pw).is_locked => op = "suspend" \/ r.is_locked
         /\ Modify(op, r, pw).is_silenced => op = "silence" \/ r.is_silenced
         /\ Modify(op, r, pw).password = IF op = "reset_password" THEN pw ELSE r.password
<1>1. CASE op = "suspend"
  BY <1>1 DEF Modify, UserRow
<1>2. CASE op = "unsuspend"
  BY <1>2 DEF Modify, UserRow
<1>3. CASE op = "silence"
  BY <1>3 DEF Modify, UserRow
<1>4. CASE op = "reset_password"
  BY <1>4 DEF Modify, UserRow
<1> QED
  BY <1>1, <1>2, <1>3, <1>4 DEF ModOps, Sanctions

\* What a command makes of a decision is a decision.
LEMMA ModifyDecision ==
  ASSUME NEW op \in ModOps, NEW d \in Decision, NEW pw \in Passwords
  PROVE  Modify(op, d, pw) \in Decision
<1>1. CASE op = "suspend"
  BY <1>1 DEF Modify, Decision
<1>2. CASE op = "unsuspend"
  BY <1>2 DEF Modify, Decision
<1>3. CASE op = "silence"
  BY <1>3 DEF Modify, Decision
<1>4. CASE op = "reset_password"
  BY <1>4 DEF Modify, Decision
<1> QED
  BY <1>1, <1>2, <1>3, <1>4 DEF ModOps, Sanctions

\* Only finitely many passwords were given out, so a new one has a number.
LEMMA NewPasswordIsNat == IInv => NewPassword \in Nat
<1> SUFFICES ASSUME IInv PROVE NewPassword \in Nat
  OBVIOUS
<1>1. AllIssued \subseteq 0 .. PasswordBound
  BY DEF IInv, TypeOK, AllIssued, Passwords
<1>2. IsFiniteSet(0 .. PasswordBound)
  BY FS_Interval, AccountsAssumption
<1>3. IsFiniteSet(AllIssued)
  BY <1>1, <1>2, FS_Subset
<1> QED
  BY <1>3, FS_CardinalityType DEF NewPassword

\* A fresh row has no sanction and the password that was generated for it.
LEMMA FreshRowGiven ==
  ASSUME NEW u \in Ids, NEW pw \in Passwords, pw \in issued[u]
  PROVE  Given(FreshRow(u, pw))
  BY DEF FreshRow, Given, UserRow

\* IInv holds at the start.
LEMMA InitInv == Init => IInv
<1> SUFFICES ASSUME Init PROVE IInv
  OBVIOUS
<1> USE AccountsAssumption, NothingAssumption DEF Init
<1>1. 0 \in Passwords
  BY DEF Passwords
<1>2. \A u \in Ids : FreshRow(u, 0) \in UserRow
  BY <1>1 DEF FreshRow, UserRow
<1>3. TypeOK
  BY <1>1, <1>2 DEF TypeOK, Decision, DecisionOf, UserRow
<1>4. Rows
  BY <1>1, <1>2, FreshRowGiven DEF Rows, Present, FreshRow
<1>5. SessionsOK /\ Recorded /\ Drained
  BY DEF SessionsOK, SessionOK, CommandOK, Recorded, Drained
<1> QED
  BY <1>3, <1>4, <1>5 DEF IInv

\* An audit row refers to an account that is there, and none is ever removed.
LEMMA AuditsAdds ==
  ASSUME IInv, NEW u \in Ids, Audits(u)
  PROVE  /\ faults' \in Nat
         /\ audited \subseteq audited'
         /\ audited' \in SUBSET Ids
         /\ \A v \in audited' : Present(v)
  BY DEF Audits, Fault, IInv, TypeOK, Recorded

\* A session's copy of a row is one of an account's rows.
LEMMA SnapId ==
  ASSUME IInv, NEW s \in Sessions, sess[s] # "off"
  PROVE  snap[s] \in UserRow /\ snap[s].id \in Ids
  BY DEF IInv, SessionsOK, SessionOK, Given, UserRow

\* LoginRead keeps IInv.
LEMMA LoginReadStep ==
  ASSUME IInv, NEW s \in Sessions, NEW u \in Ids, LoginRead(s, u)
  PROVE  IInv'
<1> USE NothingAssumption DEF IInv, LoginRead, history
<1>1. TypeOK'
  BY DEF TypeOK, Present
<1>2. Rows'
  BY DEF Rows, Present, Given
<1>3. ASSUME NEW t \in Sessions PROVE SessionOK(t)' /\ CommandOK(t)'
  <2>1. CASE t = s
    BY <2>1 DEF TypeOK, SessionsOK, SessionOK, CommandOK, Rows, Given, Present
  <2>2. CASE t # s
    BY <2>2 DEF TypeOK, SessionsOK, SessionOK, CommandOK, Given, GivenBut
  <2> QED
    BY <2>1, <2>2
<1>4. Recorded'
  BY DEF TypeOK, Recorded, Present
<1>5. Drained'
  BY DEF TypeOK, Drained, SessionsOK, CommandOK
<1> QED
  BY <1>1, <1>2, <1>3, <1>4, <1>5 DEF SessionsOK

\* LoginFails keeps IInv.
LEMMA LoginFailsStep ==
  ASSUME IInv, NEW u \in Ids, LoginFails(u)
  PROVE  IInv'
<1> USE DEF LoginFails, history
<1>0. /\ faults' \in Nat
      /\ audited \subseteq audited' /\ audited' \in SUBSET Ids
      /\ \A v \in audited' : Present(v)
  BY AuditsAdds
<1> USE DEF IInv
<1>1. TypeOK'
  BY <1>0 DEF TypeOK
<1>2. Rows'
  BY DEF Rows, Present, Given
<1>3. SessionsOK'
  BY DEF SessionsOK, SessionOK, CommandOK, Given, GivenBut
<1>4. Recorded' /\ Drained'
  BY <1>0 DEF TypeOK, Recorded, Present, Drained
<1> QED
  BY <1>1, <1>2, <1>3, <1>4

\* LogAttempt keeps IInv.
LEMMA LogAttemptStep ==
  ASSUME IInv, NEW s \in Sessions, LogAttempt(s)
  PROVE  IInv'
<1> USE NothingAssumption DEF LogAttempt
<1>0. snap[s].id \in Ids
  BY SnapId
<1>1. /\ faults' \in Nat
      /\ audited \subseteq audited' /\ audited' \in SUBSET Ids
      /\ \A v \in audited' : Present(v)
  BY <1>0, AuditsAdds
<1> USE DEF IInv
<1>2. TypeOK'
  BY <1>1 DEF TypeOK
<1>3. Rows'
  BY DEF Rows, Present, Given
<1>4. SessionsOK'
  BY DEF TypeOK, SessionsOK, SessionOK, CommandOK, Given, GivenBut
<1>5. Recorded'
  <2>1. s \notin recorded
    BY DEF TypeOK, Recorded
  <2>2. snap[s].id \in audited' \/ s \in unaudited'
    OBVIOUS
  <2>3. \A t \in Sessions \ {s} : sess'[t] = sess[t]
    BY DEF TypeOK
  <2> QED
    BY <1>1, <2>1, <2>2, <2>3 DEF TypeOK, Recorded, Present
<1>6. Drained'
  BY DEF Drained
<1> QED
  BY <1>2, <1>3, <1>4, <1>5, <1>6

\* LoginFinish keeps IInv.
LEMMA LoginFinishStep ==
  ASSUME IInv, NEW s \in Sessions, LoginFinish(s)
  PROVE  IInv'
<1> USE NothingAssumption DEF IInv, LoginFinish, Fault, history
<1>1. TypeOK'
  BY DEF TypeOK
<1>2. Rows'
  BY DEF Rows, Present, Given
<1>3. SessionsOK'
  BY DEF TypeOK, SessionsOK, SessionOK, CommandOK, Given, GivenBut
<1>4. Recorded'
  BY DEF TypeOK, Recorded, Present
<1>5. Drained'
  BY DEF Drained
<1> QED
  BY <1>1, <1>2, <1>3, <1>4, <1>5

\* Logout keeps IInv.
LEMMA LogoutStep ==
  ASSUME IInv, NEW s \in Sessions, Logout(s)
  PROVE  IInv'
<1> USE DEF IInv, Logout, history
<1>1. TypeOK'
  BY DEF TypeOK
<1>2. Rows'
  BY DEF Rows, Present, Given
<1>3. SessionsOK'
  BY DEF TypeOK, SessionsOK, SessionOK, CommandOK, Given, GivenBut
<1>4. Recorded' /\ Drained'
  BY DEF TypeOK, Recorded, Present, Drained
<1> QED
  BY <1>1, <1>2, <1>3, <1>4

\* Crash keeps IInv.
LEMMA CrashStep ==
  ASSUME IInv, Crash
  PROVE  IInv'
<1> USE DEF IInv, Crash, history
<1>1. TypeOK'
  BY DEF TypeOK
<1>2. Rows'
  BY DEF Rows, Present, Given
<1>3. SessionsOK'
  BY DEF SessionsOK, SessionOK, CommandOK
<1>4. Recorded'
  BY DEF TypeOK, Recorded, Present
<1>5. Drained'
  BY DEF Drained
<1> QED
  BY <1>1, <1>2, <1>3, <1>4, <1>5

\* CommandFails keeps IInv.
LEMMA CommandFailsStep ==
  ASSUME IInv, NEW s \in Sessions, CommandFails(s)
  PROVE  IInv'
<1> USE DEF IInv, CommandFails, Done, history
<1>1. TypeOK'
  BY DEF TypeOK
<1>2. Rows'
  BY DEF Rows, Present, Given
<1>3. SessionsOK'
  BY DEF TypeOK, SessionsOK, SessionOK, CommandOK, Given, GivenBut
<1>4. Recorded' /\ Drained'
  BY DEF TypeOK, Recorded, Present, Drained
<1> QED
  BY <1>1, <1>2, <1>3, <1>4

\* A command starts: cmd[s] is set, and besides it only issued may grow.
LEMMA StartStep ==
  ASSUME IInv, NEW s \in Sessions, AdminDispatch(s),
         NEW c \in Command, cmd' = [cmd EXCEPT ![s] = c],
         UNCHANGED <<users, audited, maintenance, sess, snap, recorded, faults,
                    decided, sanctions, late, unchecked, unaudited>>,
         issued' \in [Ids -> SUBSET Passwords],
         \A u \in Ids : issued[u] \subseteq issued'[u],
         c.op # "profile",
         c.op \in ModOps => GivenBut(c.op, c.row)',
         c.op = "create_user" => Given(c.row)',
         c.op = "delete_user" => c.row.id # Root
  PROVE  IInv'
<1> USE NothingAssumption DEF IInv, AdminDispatch, AtPrompt
<1>1. TypeOK'
  BY DEF TypeOK
<1>2. \A r \in UserRow : r.id \in Ids
  BY DEF UserRow
<1>3. Rows'
  BY <1>2 DEF Rows, Present, Given
<1>4. ASSUME NEW t \in Sessions PROVE SessionOK(t)'
  BY <1>2 DEF SessionsOK, SessionOK, Given
<1>5. ASSUME NEW t \in Sessions PROVE CommandOK(t)'
  <2>1. CASE t = s
    BY <2>1 DEF TypeOK, CommandOK, Given, GivenBut
  <2>2. CASE t # s
    BY <1>2, <2>2 DEF TypeOK, SessionsOK, CommandOK, Given, GivenBut
  <2> QED
    BY <2>1, <2>2
<1>6. Recorded'
  BY DEF Recorded, Present
<1>7. Drained'
  BY DEF TypeOK, Drained
<1> QED
  BY <1>1, <1>3, <1>4, <1>5, <1>6, <1>7 DEF SessionsOK

\* ProfileSet keeps IInv.
LEMMA ProfileSetStep ==
  ASSUME IInv, NEW s \in Sessions, ProfileSet(s)
  PROVE  IInv'
<1> USE NothingAssumption DEF IInv, ProfileSet, Dispatch, AtPrompt, Fault, Runs
<1>1. snap[s] \in UserRow
  BY DEF SessionsOK, SessionOK, Given
<1>2. TypeOK'
  BY <1>1 DEF TypeOK, Command
<1>3. Rows'
  BY DEF Rows, Present, Given
<1>4. SessionsOK'
  BY DEF TypeOK, SessionsOK, SessionOK, CommandOK, Given, GivenBut, ModOps, Sanctions
<1>5. Recorded'
  BY DEF Recorded, Present
<1>6. Drained'
  BY DEF TypeOK, Drained
<1> QED
  BY <1>2, <1>3, <1>4, <1>5, <1>6

\* ModRead keeps IInv.
LEMMA ModReadStep ==
  ASSUME IInv, NEW s \in Sessions, NEW u \in Ids, NEW op \in ModOps, ModRead(s, op, u)
  PROVE  IInv'
<1> PICK pw : pw = IF op = "reset_password" THEN NewPassword ELSE 0
  OBVIOUS
<1> PICK r : r = Modify(op, users[u], pw)
  OBVIOUS
<1> DEFINE c == [op |-> op, row |-> r]
<1> USE DEF ModRead
<1>1. users[u] \in UserRow /\ users[u].id = u /\ Given(users[u])
  BY DEF IInv, Rows, Given
<1>2. pw \in Passwords
  <2>1. CASE op = "reset_password"
    <3>1. NewPassword \in Nat
      BY <2>1, NewPasswordIsNat
    <3> QED
      BY <3>1, <2>1, AccountsAssumption DEF Passwords
  <2>2. CASE op # "reset_password"
    BY <2>2, AccountsAssumption DEF Passwords
  <2> QED
    BY <2>1, <2>2
<1>3. r \in UserRow /\ r.id = u /\ r.is_admin = users[u].is_admin
  BY <1>1, <1>2, ModifyRow
<1>4. cmd' = [cmd EXCEPT ![s] = c] /\ c \in Command /\ c.op = op /\ c.row = r
  BY <1>3 DEF Runs, Command
<1>5. issued' \in [Ids -> SUBSET Passwords] /\ \A v \in Ids : issued[v] \subseteq issued'[v]
  BY <1>2 DEF IInv, TypeOK
<1>6. op = "reset_password" => pw \in issued'[u]
  BY DEF IInv, TypeOK
<1>7. snap[s].id = Root
  BY NothingAssumption DEF AdminDispatch, AtPrompt, IInv, SessionsOK, SessionOK, Given
<1>8. u = Root => op \notin {"suspend", "unsuspend"}
  BY <1>7 DEF MayTarget
<1>9. GivenBut(op, r)'
  <2>1. r.is_locked => op = "suspend" \/ users[u].is_locked
    BY <1>1, <1>2, ModifyRow
  <2>2. r.is_silenced => op = "silence" \/ users[u].is_silenced
    BY <1>1, <1>2, ModifyRow
  <2>3. r.password = IF op = "reset_password" THEN pw ELSE users[u].password
    BY <1>1, <1>2, ModifyRow
  <2>4. r.password \in issued'[u]
    BY <1>1, <1>5, <1>6, <2>3 DEF Given
  <2>5. sanctions' = sanctions
    OBVIOUS
  <2>6. /\ r \in UserRow /\ r.id = u
        /\ r.is_admin <=> r.id = Root
        /\ r.id = Root => ~r.is_locked
        /\ r.password \in issued'[r.id]
        /\ r.is_locked => op = "suspend" \/ "suspend" \in sanctions'[r.id]
        /\ r.is_silenced => op = "silence" \/ "silence" \in sanctions'[r.id]
    BY <1>1, <1>3, <1>8, <2>1, <2>2, <2>4, <2>5 DEF Given
  <2> QED
    BY <2>6 DEF GivenBut
<1> QED
  <2> HIDE DEF c
  <2>1. /\ AdminDispatch(s)
        /\ UNCHANGED <<users, audited, maintenance, sess, snap, recorded, faults,
                    decided, sanctions, late, unchecked, unaudited>>
    OBVIOUS
  <2>2. op # "profile" /\ op # "create_user" /\ op # "delete_user"
    BY DEF ModOps, Sanctions
  <2> QED
    BY <1>4, <1>5, <1>9, <2>1, <2>2, StartStep

\* CreateUserCheck keeps IInv.
LEMMA CreateUserCheckStep ==
  ASSUME IInv, NEW s \in Sessions, NEW u \in Ids, CreateUserCheck(s, u)
  PROVE  IInv'
<1> PICK pw : pw = NewPassword
  OBVIOUS
<1> PICK r : r = FreshRow(u, pw)
  OBVIOUS
<1> DEFINE c == [op |-> "create_user", row |-> r]
<1> USE DEF CreateUserCheck
<1>1. pw \in Passwords
  BY NewPasswordIsNat, AccountsAssumption DEF Passwords
<1>2. r \in UserRow /\ r.id = u
  BY <1>1 DEF FreshRow, UserRow
<1>3. cmd' = [cmd EXCEPT ![s] = c] /\ c \in Command /\ c.op = "create_user" /\ c.row = r
  BY <1>2 DEF Runs, Command
<1>4. /\ issued' \in [Ids -> SUBSET Passwords]
      /\ \A v \in Ids : issued[v] \subseteq issued'[v]
      /\ pw \in issued'[u]
  BY <1>1 DEF IInv, TypeOK
<1>5. Given(r)'
  BY <1>2, <1>4 DEF FreshRow, Given
<1> QED
  <2> HIDE DEF c
  <2>1. /\ AdminDispatch(s)
        /\ UNCHANGED <<users, audited, maintenance, sess, snap, recorded, faults,
                    decided, sanctions, late, unchecked, unaudited>>
    OBVIOUS
  <2>2. c.op \notin ModOps
    BY <1>3 DEF ModOps, Sanctions
  <2> QED
    BY <1>3, <1>4, <1>5, <2>1, <2>2, StartStep

\* DeleteUserRead keeps IInv.
LEMMA DeleteUserReadStep ==
  ASSUME IInv, NEW s \in Sessions, NEW u \in Ids, DeleteUserRead(s, u)
  PROVE  IInv'
<1> PICK r : r = users[u]
  OBVIOUS
<1> DEFINE c == [op |-> "delete_user", row |-> r]
<1> USE DEF DeleteUserRead, history
<1>1. r \in UserRow /\ r.id = u
  BY DEF IInv, Rows, Given
<1>2. cmd' = [cmd EXCEPT ![s] = c] /\ c \in Command /\ c.op = "delete_user" /\ c.row = r
  BY <1>1 DEF Runs, Command
<1>3. snap[s].id = Root
  BY NothingAssumption DEF AdminDispatch, AtPrompt, IInv, SessionsOK, SessionOK, Given
<1>4. issued' \in [Ids -> SUBSET Passwords]
  BY DEF IInv, TypeOK
<1> QED
  <2> HIDE DEF c
  <2>1. /\ AdminDispatch(s)
        /\ UNCHANGED <<users, audited, maintenance, sess, snap, recorded, faults,
                    decided, sanctions, late, unchecked, unaudited>>
        /\ issued' = issued
    OBVIOUS
  <2>2. c.op \notin ModOps
    BY <1>2 DEF ModOps, Sanctions
  <2> QED
    BY <1>1, <1>2, <1>3, <1>4, <2>1, <2>2, StartStep

\* Maintenance keeps IInv.
LEMMA MaintenanceStep ==
  ASSUME IInv, NEW s \in Sessions, NEW on \in BOOLEAN, Maintenance(s, on)
  PROVE  IInv'
<1> USE DEF IInv, Maintenance
<1>1. TypeOK'
  BY DEF TypeOK
<1>2. Rows'
  BY DEF Rows, Present, Given
<1>3. SessionsOK'
  BY DEF SessionsOK, SessionOK, CommandOK, Given, GivenBut
<1>4. Recorded' /\ Drained'
  BY DEF Recorded, Present, Drained
<1> QED
  BY <1>1, <1>2, <1>3, <1>4

\* A command ends: what it wrote are rows the invariant allows, and its
\* session has nothing under way any more.
LEMMA EndStep ==
  ASSUME IInv, NEW s \in Sessions, cmd[s] # NoCommand, Done(s),
         UNCHANGED <<maintenance, sess, snap, issued, unchecked>>,
         TypeOK', Rows', Recorded',
         \A u \in Ids : sanctions[u] \subseteq sanctions'[u],
         \/ UNCHANGED late
         \/ /\ maintenance /\ ~snap[s].is_admin
            /\ late' = [late EXCEPT ![s] = @ + 1]
  PROVE  IInv'
<1> USE DEF IInv, Done
<1>1. \A r \in UserRow : r.id \in Ids
  BY DEF UserRow
<1>2. ASSUME NEW t \in Sessions PROVE SessionOK(t)' /\ CommandOK(t)'
  <2>1. SessionOK(t)'
    BY <1>1 DEF SessionsOK, SessionOK, Given
  <2>2. CASE t = s
    BY <2>1, <2>2 DEF TypeOK, CommandOK
  <2>3. CASE t # s
    BY <1>1, <2>1, <2>3 DEF TypeOK, SessionsOK, CommandOK, Given, GivenBut
  <2> QED
    BY <2>2, <2>3
<1>3. Drained'
  <2>1. CASE UNCHANGED late
    BY <2>1 DEF TypeOK, Drained
  <2>2. CASE /\ maintenance /\ ~snap[s].is_admin
             /\ late' = [late EXCEPT ![s] = @ + 1]
    BY <2>2 DEF TypeOK, Drained
  <2> QED
    BY <2>1, <2>2
<1> QED
  BY <1>2, <1>3 DEF SessionsOK

\* ProfileWrite keeps IInv.
LEMMA ProfileWriteStep ==
  ASSUME IInv, NEW s \in Sessions, ProfileWrite(s)
  PROVE  IInv'
<1> USE DEF ProfileWrite
<1>1. cmd[s].row \in UserRow /\ Given(cmd[s].row)
  BY NothingAssumption DEF IInv, SessionsOK, SessionOK, CommandOK, Given
<1>2. \A u \in Ids : users'[u] \in {users[u], cmd[s].row}
  BY DEF IInv, TypeOK, UpdateUser
<1>3. \A u \in Ids : Present(u)' <=> Present(u)
  BY <1>1, NothingAssumption DEF IInv, TypeOK, UpdateUser, Present
<1>4. TypeOK'
  <2>1. users' \in [Ids -> UserRow \cup {NoUser}]
    BY <1>1 DEF IInv, TypeOK, UpdateUser
  <2>2. cmd' \in [Sessions -> Command \cup {NoCommand}]
    BY DEF IInv, TypeOK, Done
  <2>3. late' \in [Sessions -> Nat]
    BY DEF IInv, TypeOK
  <2> QED
    BY <2>1, <2>2, <2>3 DEF IInv, TypeOK
<1>5. Rows'
  <2>1. \A u \in Ids : Present(u)' => users'[u].id = u
    BY <1>1, <1>3 DEF IInv, TypeOK, Rows, UpdateUser
  <2>2. \A u \in Ids : Present(u)' => Given(users[u]) /\ Given(cmd[s].row)
    BY <1>1, <1>3 DEF IInv, Rows
  <2>3. \A u \in Ids : Present(u)' => Given(users[u])'
    BY <1>2, <2>2 DEF Given
  <2>4. Present(Root)'
    BY <1>3, AccountsAssumption DEF IInv, Rows
  <2> QED
    BY <2>1, <2>3, <2>4 DEF Rows
<1>6. Recorded'
  BY <1>3 DEF IInv, TypeOK, Recorded, SessionsOK, SessionOK, Given, UserRow
<1> QED
  BY <1>4, <1>5, <1>6, EndStep

\* ModWrite keeps IInv.
LEMMA ModWriteStep ==
  ASSUME IInv, NEW s \in Sessions, ModWrite(s)
  PROVE  IInv'
<1> PICK op : op = cmd[s].op
  OBVIOUS
<1> PICK r : r = cmd[s].row
  OBVIOUS
<1> USE DEF ModWrite
<1>0. /\ faults' \in Nat
      /\ audited \subseteq audited' /\ audited' \in SUBSET Ids
      /\ \A v \in audited' : Present(v)
  <2>1. snap[s].id \in Ids
    BY SnapId DEF IInv, SessionsOK, CommandOK
  <2> QED
    BY <2>1, AuditsAdds
<1>1. op \in ModOps /\ GivenBut(op, r) /\ r \in UserRow
  BY NothingAssumption DEF IInv, SessionsOK, CommandOK, GivenBut
<1>2. r.id \in Ids /\ r.password \in Passwords
  BY <1>1 DEF UserRow
<1>3. users' = [users EXCEPT ![r.id] = IF @ = NoUser THEN NoUser ELSE r]
  BY DEF UpdateUser
<1>4. \A u \in Ids : Present(u)' <=> Present(u)
  BY <1>1, <1>3, NothingAssumption DEF IInv, TypeOK, Present
<1>5. sanctions' = [sanctions EXCEPT ![r.id] = @ \cup (Sanctions \cap {op})]
  OBVIOUS
<1>6. \A u \in Ids : sanctions[u] \subseteq sanctions'[u]
  BY <1>5 DEF IInv, TypeOK
<1>7. Given(r)'
  <2>1. op \in Sanctions => op \in sanctions'[r.id]
    <3>1. sanctions'[r.id] = sanctions[r.id] \cup (Sanctions \cap {op})
      BY <1>2, <1>5 DEF IInv, TypeOK
    <3> QED
      BY <3>1
  <2>2. sanctions[r.id] \subseteq sanctions'[r.id] /\ issued' = issued
    BY <1>2, <1>6
  <2> QED
    BY <1>1, <2>1, <2>2 DEF GivenBut, Given, Sanctions
<1>8. TypeOK'
  <2>1. users' \in [Ids -> UserRow \cup {NoUser}]
    BY <1>1, <1>3 DEF IInv, TypeOK
  <2>2. cmd' \in [Sessions -> Command \cup {NoCommand}]
    BY DEF IInv, TypeOK, Done
  <2>3. decided' \in [Ids -> Decision]
    <3>1. decided[r.id] \in Decision
      BY <1>2 DEF IInv, TypeOK
    <3>2. Modify(op, decided[r.id], r.password) \in Decision
      BY <1>1, <1>2, <3>1, ModifyDecision
    <3>3. decided' = [decided EXCEPT ![r.id] = Modify(op, @, r.password)]
      OBVIOUS
    <3> QED
      BY <3>2, <3>3 DEF IInv, TypeOK
  <2>4. sanctions' \in [Ids -> SUBSET Sanctions]
    BY <1>5 DEF IInv, TypeOK
  <2> QED
    BY <1>0, <2>1, <2>2, <2>3, <2>4 DEF IInv, TypeOK
<1>9. Rows'
  <2>1. ASSUME NEW u \in Ids, Present(u)' PROVE users'[u].id = u /\ Given(users[u])'
    <3>1. Present(u) /\ Given(users[u]) /\ users[u].id = u
      BY <1>4, <2>1 DEF IInv, Rows
    <3>2. CASE u = r.id
      BY <1>2, <1>3, <1>7, <3>1, <3>2 DEF IInv, TypeOK, Present, Given
    <3>3. CASE u # r.id
      <4>1. users'[u] = users[u]
        BY <1>3, <3>3 DEF IInv, TypeOK
      <4> QED
        BY <1>6, <3>1, <4>1 DEF Given
    <3> QED
      BY <3>2, <3>3
  <2>2. Present(Root)'
    BY <1>4, AccountsAssumption DEF IInv, Rows
  <2> QED
    BY <2>1, <2>2 DEF Rows
<1>10. Recorded'
  <2>1. \A t \in recorded : snap[t].id \in Ids
    BY SnapId DEF IInv, TypeOK, Recorded
  <2> QED
    BY <1>0, <1>4, <2>1 DEF IInv, Recorded
<1> QED
  BY <1>6, <1>8, <1>9, <1>10, EndStep

\* CreateUser keeps IInv.
LEMMA CreateUserStep ==
  ASSUME IInv, NEW s \in Sessions, CreateUser(s)
  PROVE  IInv'
<1> PICK r : r = cmd[s].row
  OBVIOUS
<1> USE DEF CreateUser
<1>1. Given(r) /\ r \in UserRow /\ r.id \in Ids
  BY NothingAssumption DEF IInv, SessionsOK, CommandOK, Given, UserRow
<1>2. snap[s] \in UserRow /\ snap[s].id \in Ids
  BY NothingAssumption DEF IInv, SessionsOK, SessionOK, CommandOK, Given, UserRow
<1>3. CASE NameTaken(Name[r.id])
  <2>1. UNCHANGED <<users, audited, faults, decided, sanctions, recorded>>
    BY <1>3
  <2>2. TypeOK'
    BY <2>1 DEF IInv, TypeOK, Done
  <2>3. Rows' /\ Recorded'
    BY <2>1 DEF IInv, Rows, Recorded, Present, Given
  <2> QED
    BY <2>1, <2>2, <2>3, EndStep
<1>4. CASE ~NameTaken(Name[r.id])
  <2>0. /\ faults' \in Nat
        /\ audited \subseteq audited' /\ audited' \in SUBSET Ids
        /\ \A v \in audited' : Present(v)
    BY <1>2, <1>4, AuditsAdds
  <2>1. /\ users' = [users EXCEPT ![r.id] = r]
        /\ decided' = [decided EXCEPT ![r.id] = DecisionOf(r)]
    BY <1>4
  <2>2. \A u \in Ids : Present(u) => Present(u)'
    BY <1>1, <2>1, NothingAssumption DEF IInv, TypeOK, Present
  <2>3. DecisionOf(r) \in Decision
    BY <1>1 DEF DecisionOf, Decision, UserRow
  <2>4. TypeOK'
    BY <1>1, <1>2, <2>0, <2>1, <2>3 DEF IInv, TypeOK, Done
  <2>5. Rows'
    <3>1. ASSUME NEW u \in Ids, Present(u)' PROVE users'[u].id = u /\ Given(users[u])'
      <4>1. CASE u = r.id
        BY <1>1, <2>1, <4>1 DEF IInv, TypeOK, Given
      <4>2. CASE u # r.id
        <5>1. users'[u] = users[u]
          BY <2>1, <4>2 DEF IInv, TypeOK
        <5> QED
          BY <3>1, <5>1 DEF IInv, Rows, Present, Given
      <4> QED
        BY <4>1, <4>2
    <3>2. Present(Root)'
      BY <2>2, AccountsAssumption DEF IInv, Rows
    <3> QED
      BY <3>1, <3>2 DEF Rows
  <2>6. Recorded'
    <3>1. \A t \in recorded : snap[t].id \in Ids
      BY SnapId DEF IInv, TypeOK, Recorded
    <3> QED
      BY <2>0, <2>2, <3>1 DEF IInv, Recorded
  <2> QED
    BY <2>4, <2>5, <2>6, EndStep
<1> QED
  BY <1>3, <1>4

\* DeleteUser keeps IInv.
LEMMA DeleteUserStep ==
  ASSUME IInv, NEW s \in Sessions, DeleteUser(s)
  PROVE  IInv'
<1> PICK u : u = cmd[s].row.id
  OBVIOUS
<1> USE DEF DeleteUser, history
<1>1. cmd[s] \in Command
  BY NothingAssumption DEF IInv, TypeOK
<1>2. u \in Ids /\ u # Root
  BY <1>1 DEF Command, UserRow, IInv, SessionsOK, CommandOK
<1>3. snap[s] \in UserRow /\ snap[s].id \in Ids
  BY NothingAssumption DEF IInv, SessionsOK, SessionOK, CommandOK, Given, UserRow
<1>4. CASE u \in audited
  <2>1. UNCHANGED <<users, audited, faults, decided, sanctions, recorded>>
    BY <1>4
  <2>2. TypeOK'
    BY <2>1 DEF IInv, TypeOK, Done
  <2>3. Rows' /\ Recorded'
    BY <2>1 DEF IInv, Rows, Recorded, Present, Given
  <2> QED
    BY <2>1, <2>2, <2>3, EndStep
<1>5. CASE u \notin audited
  <2>1. /\ users' = [users EXCEPT ![u] = NoUser]
        /\ recorded' = {t \in recorded : snap[t].id # u}
        /\ Audits(snap[s].id)
    BY <1>5
  <2>a. /\ faults' \in Nat
        /\ audited \subseteq audited' /\ audited' \in SUBSET Ids
        /\ \A v \in audited' : Present(v)
    BY <1>3, <2>1, AuditsAdds
  <2>b. u \notin audited'
    <3>1. snap[s].id = Root
      BY NothingAssumption DEF IInv, SessionsOK, SessionOK, CommandOK, Given
    <3> QED
      BY <1>2, <1>5, <2>1, <3>1 DEF Audits
  <2>2. TypeOK'
    BY <1>3, <2>1, <2>a DEF IInv, TypeOK, Done
  <2>3. \A v \in Ids : v # u => users'[v] = users[v]
    BY <2>1 DEF IInv, TypeOK
  <2>4. ~Present(u)'
    BY <1>2, <2>1 DEF IInv, TypeOK, Present
  <2>5. Rows'
    BY <1>2, <2>3, <2>4, AccountsAssumption DEF IInv, Rows, Present, Given
  <2>6. Recorded'
    <3>1. ASSUME NEW t \in recorded, snap[t].id # u PROVE Present(snap[t].id)'
      BY <2>3, <3>1, SnapId DEF IInv, TypeOK, Recorded, Present
    <3>2. \A v \in audited' : Present(v)'
      BY <2>3, <2>a, <2>b DEF Present
    <3> QED
      BY <2>1, <2>a, <3>1, <3>2 DEF IInv, Recorded
  <2> QED
    BY <2>2, <2>5, <2>6, EndStep
<1> QED
  BY <1>4, <1>5

\* IInv is inductive.
LEMMA NextStep == IInv /\ [Next]_vars => IInv'
<1> SUFFICES ASSUME IInv, [Next]_vars PROVE IInv'
  OBVIOUS
<1>1. CASE UNCHANGED vars
  BY <1>1 DEF vars, IInv, TypeOK, Rows, SessionsOK, SessionOK, CommandOK, Recorded, Drained,
              Present, Given, GivenBut
<1>2. ASSUME NEW u \in Ids, LoginFails(u) PROVE IInv'
  BY <1>2, LoginFailsStep
<1>3. ASSUME NEW s \in Sessions, NEW u \in Ids,
             LoginRead(s, u) \/ CreateUserCheck(s, u) \/ DeleteUserRead(s, u)
      PROVE  IInv'
  BY <1>3, LoginReadStep, CreateUserCheckStep, DeleteUserReadStep
<1>4. ASSUME NEW s \in Sessions, NEW u \in Ids, NEW op \in ModOps, ModRead(s, op, u)
      PROVE  IInv'
  BY <1>4, ModReadStep
<1>5. ASSUME NEW s \in Sessions, NEW on \in BOOLEAN, Maintenance(s, on) PROVE IInv'
  BY <1>5, MaintenanceStep
<1>6. ASSUME NEW s \in Sessions,
             \/ LogAttempt(s) \/ LoginFinish(s) \/ Logout(s)
             \/ CommandFails(s) \/ ProfileSet(s) \/ ProfileWrite(s)
      PROVE  IInv'
  BY <1>6, LogAttemptStep, LoginFinishStep, LogoutStep, CommandFailsStep, ProfileSetStep,
     ProfileWriteStep
<1>7. ASSUME NEW s \in Sessions, ModWrite(s) \/ CreateUser(s) \/ DeleteUser(s)
      PROVE  IInv'
  BY <1>7, ModWriteStep, CreateUserStep, DeleteUserStep
<1>8. CASE Crash
  BY <1>8, CrashStep
<1> QED
  BY <1>1, <1>2, <1>3, <1>4, <1>5, <1>6, <1>7, <1>8 DEF Next
-----------------------------------------------------------------------------
(* What follows.                                                           *)

\* Every copy of a row, in the table, in a session or in a command, satisfies
\* what is asked of the table, in every reachable state.
THEOREM Invariance == Spec => []IInv
<1>1. Init => IInv
  BY InitInv
<1>2. IInv /\ [Next]_vars => IInv'
  BY NextStep
<1> QED
  BY <1>1, <1>2, PTL DEF Spec

\* The variables stay in their types.
THEOREM TypeCorrect == Spec => []TypeOK
<1>1. IInv => TypeOK
  BY DEF IInv
<1> QED
  BY <1>1, Invariance, PTL

\* The bootstrapped admin is never deleted or suspended and stays the only
\* admin, with any number of admin sessions at work (mod.go, admin.go).
THEOREM AdminIsSafe == Spec => []AdminSurvives
<1>1. IInv => AdminSurvives
  BY AccountsAssumption DEF IInv, AdminSurvives, Rows, Given, SessionsOK, SessionOK
<1> QED
  BY <1>1, Invariance, PTL

\* No stale copy gives an account a sanction or a password it never had.
THEOREM NothingIsInvented == Spec => []NothingInvented
<1>1. IInv => NothingInvented
  BY DEF IInv, NothingInvented, Rows, Given
<1> QED
  BY <1>1, Invariance, PTL

\* delete_user never removes the account of a running session on record whose
\* login left the account with an audit row.
THEOREM RecordedSessionsKeepTheirAccount == Spec => NoSessionOutlivesAccount
<1> DEFINE Kept == \A s \in recorded \ unaudited :
                     sess'[s] = "shell" => s \in recorded' /\ Present(snap[s].id)'
<1>1. IInv /\ [Next]_vars /\ IInv' => [Kept]_vars
  <2> SUFFICES ASSUME IInv, [Next]_vars, IInv', NEW s \in recorded \ unaudited,
                      sess'[s] = "shell"
               PROVE  s \in recorded' /\ Present(snap[s].id)'
    OBVIOUS
  <2>1. s \in Sessions /\ snap[s].id \in audited /\ sess[s] = "shell"
    BY DEF IInv, TypeOK, Recorded
  <2> USE DEF Next, vars, history, LoginFails, LoginRead, LogAttempt, LoginFinish, Logout,
              CommandFails, CreateUserCheck, DeleteUserRead, ModRead, Maintenance, ProfileSet,
              ProfileWrite, ModWrite, CreateUser, DeleteUser, Crash
  <2>2. s \in recorded'
    BY <2>1 DEF IInv, TypeOK
  <2>3. snap'[s] = snap[s]
    BY <2>1 DEF IInv, TypeOK
  <2> QED
    BY <2>2, <2>3 DEF IInv, Recorded, Present
<1> QED
  BY <1>1, Invariance, NextStep, InitInv, PTL DEF Spec, NoSessionOutlivesAccount

\* Maintenance mode lets at most one edit of a user's session through, and one
\* for each lookup of it that failed.
THEOREM MaintenanceIsDrained == Spec => []MaintenanceDrains
<1>1. IInv => MaintenanceDrains
  BY DEF IInv, MaintenanceDrains, Drained
<1> QED
  BY <1>1, Invariance, PTL
-----------------------------------------------------------------------------
(* One moderating session and no profile edits: nobody else writes rows,   *)
(* so the copy the one command holds is still what the table holds.        *)

Quiet == Editing = {} /\ \A s, t \in Moderating : s = t

\* What the command under way is going to write is what it decides.
CopiesAreCurrent ==
  \A s \in Sessions : cmd[s] # NoCommand =>
    /\ s \in Moderating
    /\ cmd[s].op # "profile"
    /\ cmd[s].op \in ModOps /\ Present(cmd[s].row.id) =>
         DecisionOf(cmd[s].row) = Modify(cmd[s].op, decided[cmd[s].row.id], cmd[s].row.password)

QuietInv == IInv /\ CopiesAreCurrent /\ ModerationSticks

\* A command changes a row and the decision on it in the same way.
LEMMA ModifyDecides ==
  ASSUME NEW op \in ModOps, NEW r \in UserRow, NEW pw \in Passwords,
         NEW m, m = Modify(op, r, pw)
  PROVE  DecisionOf(m) = Modify(op, DecisionOf(r), m.password)
<1>1. CASE op = "suspend"
  BY <1>1 DEF Modify, DecisionOf, UserRow
<1>2. CASE op = "unsuspend"
  BY <1>2 DEF Modify, DecisionOf, UserRow
<1>3. CASE op = "silence"
  BY <1>3 DEF Modify, DecisionOf, UserRow
<1>4. CASE op = "reset_password"
  BY <1>4 DEF Modify, DecisionOf, UserRow
<1> QED
  BY <1>1, <1>2, <1>3, <1>4 DEF ModOps, Sanctions

\* Steps that write neither the table nor a decision and start no command.
LEMMA OtherStep ==
  ASSUME QuietInv, UNCHANGED <<users, decided>>,
         \A s \in Sessions : cmd'[s] \in {cmd[s], NoCommand}
  PROVE  (CopiesAreCurrent /\ ModerationSticks)'
  BY DEF QuietInv, CopiesAreCurrent, ModerationSticks, Present

\* With one moderating session and no edits, no step loses a decision.
LEMMA QuietStep ==
  ASSUME Quiet, QuietInv, [Next]_vars
  PROVE  (CopiesAreCurrent /\ ModerationSticks)'
<1> USE NothingAssumption
<1>1. TypeOK
  BY DEF QuietInv, IInv
<1>2. CASE UNCHANGED vars
  BY <1>2, OtherStep DEF vars
<1>3. ASSUME NEW u \in Ids, LoginFails(u) PROVE (CopiesAreCurrent /\ ModerationSticks)'
  BY <1>3, OtherStep DEF LoginFails, history
<1>4. CASE Crash
  BY <1>4, OtherStep DEF Crash, history
<1>5. ASSUME NEW s \in Sessions, NEW u \in Ids, LoginRead(s, u)
      PROVE  (CopiesAreCurrent /\ ModerationSticks)'
  BY <1>5, OtherStep DEF LoginRead, history
<1>6. ASSUME NEW s \in Sessions,
             LogAttempt(s) \/ LoginFinish(s) \/ Logout(s) \/ CommandFails(s)
      PROVE  (CopiesAreCurrent /\ ModerationSticks)'
  <2>1. UNCHANGED <<users, decided>>
    BY <1>6 DEF LogAttempt, LoginFinish, Logout, CommandFails, history
  <2>2. \A t \in Sessions : cmd'[t] \in {cmd[t], NoCommand}
    BY <1>1, <1>6 DEF TypeOK, LogAttempt, LoginFinish, Logout, CommandFails, Done
  <2> QED
    BY <2>1, <2>2, OtherStep
<1>7. ASSUME NEW s \in Sessions, NEW on \in BOOLEAN, Maintenance(s, on)
      PROVE  (CopiesAreCurrent /\ ModerationSticks)'
  BY <1>7, OtherStep DEF Maintenance
<1>8. ASSUME NEW s \in Sessions, ProfileSet(s) \/ ProfileWrite(s)
      PROVE  (CopiesAreCurrent /\ ModerationSticks)'
  BY <1>8 DEF Quiet, ProfileSet, ProfileWrite, QuietInv, CopiesAreCurrent
<1>9. ASSUME NEW s \in Sessions, NEW u \in Ids, CreateUserCheck(s, u) \/ DeleteUserRead(s, u)
      PROVE  (CopiesAreCurrent /\ ModerationSticks)'
  <2>1. s \in Moderating /\ UNCHANGED <<users, decided>>
    BY <1>9 DEF CreateUserCheck, DeleteUserRead, AdminDispatch, history
  <2>2. \E c : /\ cmd' = [cmd EXCEPT ![s] = c]
              /\ c.op \in {"create_user", "delete_user"}
    <3> DEFINE create == [op |-> "create_user", row |-> FreshRow(u, NewPassword)]
               delete == [op |-> "delete_user", row |-> users[u]]
    <3>1. cmd' = [cmd EXCEPT ![s] = create] \/ cmd' = [cmd EXCEPT ![s] = delete]
      BY <1>9 DEF CreateUserCheck, DeleteUserRead, Runs
    <3>2. create.op = "create_user" /\ delete.op = "delete_user"
      OBVIOUS
    <3> HIDE DEF create, delete
    <3> QED
      BY <3>1, <3>2
  <2>3. CopiesAreCurrent'
    BY <1>1, <2>1, <2>2 DEF TypeOK, QuietInv, CopiesAreCurrent, Present, ModOps, Sanctions
  <2>4. ModerationSticks'
    BY <2>1 DEF QuietInv, ModerationSticks, Present
  <2> QED
    BY <2>3, <2>4
<1>10. ASSUME NEW s \in Sessions, NEW u \in Ids, NEW op \in ModOps, ModRead(s, op, u)
       PROVE  (CopiesAreCurrent /\ ModerationSticks)'
  <2> PICK pw : pw = IF op = "reset_password" THEN NewPassword ELSE 0
    OBVIOUS
  <2> PICK r : r = Modify(op, users[u], pw)
    OBVIOUS
  <2>1. users[u] \in UserRow /\ users[u].id = u /\ DecisionOf(users[u]) = decided[u]
    BY <1>10 DEF ModRead, QuietInv, IInv, Rows, Given, ModerationSticks
  <2>2. pw \in Passwords
    BY <1>10, NewPasswordIsNat, AccountsAssumption DEF ModRead, QuietInv, Passwords
  <2>3. r.id = u /\ DecisionOf(r) = Modify(op, decided[u], r.password)
    BY <2>1, <2>2, ModifyRow, ModifyDecides
  <2>4. /\ s \in Moderating /\ UNCHANGED <<users, decided>>
        /\ cmd' = [cmd EXCEPT ![s] = [op |-> op, row |-> r]]
    BY <1>10 DEF ModRead, AdminDispatch, Runs
  <2>5. op # "profile"
    BY DEF ModOps, Sanctions
  <2>6. CopiesAreCurrent'
    BY <1>1, <2>3, <2>4, <2>5 DEF TypeOK, QuietInv, CopiesAreCurrent, Present
  <2>7. ModerationSticks'
    BY <2>4 DEF QuietInv, ModerationSticks, Present
  <2> QED
    BY <2>6, <2>7
<1>11. ASSUME NEW s \in Sessions, ModWrite(s) \/ CreateUser(s) \/ DeleteUser(s)
       PROVE  (CopiesAreCurrent /\ ModerationSticks)'
  <2>1. \A t \in Sessions : cmd'[t] = NoCommand
    BY <1>1, <1>11 DEF Quiet, QuietInv, CopiesAreCurrent, TypeOK,
                       ModWrite, CreateUser, DeleteUser, Done
  <2>2. CopiesAreCurrent'
    BY <2>1 DEF CopiesAreCurrent
  <2>3. cmd[s] \in Command /\ cmd[s].row \in UserRow /\ cmd[s].row.id \in Ids
    BY <1>1, <1>11 DEF TypeOK, ModWrite, CreateUser, DeleteUser, Command, UserRow
  <2>4. ASSUME ModWrite(s) PROVE ModerationSticks'
    <3> PICK r : r = cmd[s].row
      OBVIOUS
    <3>1. /\ users' = [users EXCEPT ![r.id] = IF @ = NoUser THEN NoUser ELSE r]
          /\ decided' = [decided EXCEPT ![r.id] = Modify(cmd[s].op, @, r.password)]
      BY <2>4 DEF ModWrite, UpdateUser
    <3>2. Present(r.id) => DecisionOf(r) = decided'[r.id]
      BY <1>1, <2>3, <2>4, <3>1 DEF ModWrite, QuietInv, CopiesAreCurrent, TypeOK
    <3>3. ASSUME NEW u \in Ids, Present(u)' PROVE DecisionOf(users'[u]) = decided'[u]
      <4>1. CASE u = r.id
        BY <1>1, <2>3, <3>1, <3>2, <3>3, <4>1 DEF TypeOK, Present
      <4>2. CASE u # r.id
        <5>1. users'[u] = users[u] /\ decided'[u] = decided[u]
          BY <1>1, <3>1, <4>2 DEF TypeOK
        <5> QED
          BY <3>3, <5>1 DEF QuietInv, ModerationSticks, Present
      <4> QED
        BY <4>1, <4>2
    <3> QED
      BY <3>3 DEF ModerationSticks, DecisionOf
  <2>5. ASSUME CreateUser(s) PROVE ModerationSticks'
    <3> PICK r : r = cmd[s].row
      OBVIOUS
    <3>1. CASE NameTaken(Name[r.id])
      BY <2>5, <3>1 DEF CreateUser, QuietInv, ModerationSticks, Present
    <3>2. CASE ~NameTaken(Name[r.id])
      <4>1. /\ users' = [users EXCEPT ![r.id] = r]
            /\ decided' = [decided EXCEPT ![r.id] = DecisionOf(r)]
        BY <2>5, <3>2 DEF CreateUser
      <4>2. ASSUME NEW u \in Ids, Present(u)' PROVE DecisionOf(users'[u]) = decided'[u]
        <5>1. CASE u = r.id
          BY <1>1, <4>1, <5>1 DEF TypeOK
        <5>2. CASE u # r.id
          <6>1. users'[u] = users[u] /\ decided'[u] = decided[u]
            BY <1>1, <4>1, <5>2 DEF TypeOK
          <6> QED
            BY <4>2, <6>1 DEF QuietInv, ModerationSticks, Present
        <5> QED
          BY <5>1, <5>2
      <4> QED
        BY <4>2 DEF ModerationSticks, DecisionOf
    <3> QED
      BY <3>1, <3>2
  <2>6. ASSUME DeleteUser(s) PROVE ModerationSticks'
    <3>1. \A u \in Ids : users'[u] \in {users[u], NoUser}
      BY <1>1, <2>6 DEF TypeOK, DeleteUser
    <3>2. decided' = decided
      BY <2>6 DEF DeleteUser, history
    <3> QED
      BY <3>1, <3>2 DEF QuietInv, ModerationSticks, Present
  <2> QED
    BY <1>11, <2>2, <2>4, <2>5, <2>6
<1> QED
  BY <1>2, <1>3, <1>4, <1>5, <1>6, <1>7, <1>8, <1>9, <1>10, <1>11 DEF Next

\* As long as the admin works in one session and nobody edits a profile, no
\* moderation decision and no password reset is lost or undone.
THEOREM ModerationSticksWhenQuiet == ASSUME Quiet PROVE Spec => []ModerationSticks
<1>1. Init => QuietInv
  <2> SUFFICES ASSUME Init PROVE QuietInv
    OBVIOUS
  <2>1. IInv
    BY InitInv
  <2>2. CopiesAreCurrent
    BY DEF Init, CopiesAreCurrent
  <2>3. ModerationSticks
    BY AccountsAssumption DEF Init, ModerationSticks, Present
  <2> QED
    BY <2>1, <2>2, <2>3 DEF QuietInv
<1>2. QuietInv /\ [Next]_vars => QuietInv'
  BY QuietStep, NextStep DEF QuietInv
<1>3. QuietInv => ModerationSticks
  BY DEF QuietInv
<1> QED
  BY <1>1, <1>2, <1>3, PTL DEF Spec

\* What help.go says of `mod suspend' is so under the same conditions: it is
\* the second writer of the row that loses a suspension.
THEOREM SuspensionsHoldWhenQuiet == ASSUME Quiet PROVE Spec => []SuspensionHolds
<1>1. ModerationSticks => SuspensionHolds
  <2> SUFFICES ASSUME ModerationSticks, NEW u \in Ids, Present(u), decided[u].is_locked
               PROVE  users[u].is_locked
    BY DEF SuspensionHolds
  <2>1. DecisionOf(users[u]) = decided[u]
    BY DEF ModerationSticks
  <2>2. DecisionOf(users[u]).is_locked = users[u].is_locked
    BY DEF DecisionOf
  <2>3. QED
    BY <2>1, <2>2, Zenon
<1>2. Spec => []ModerationSticks
  BY ModerationSticksWhenQuiet
<1>3. QED
  BY <1>1, <1>2, PTL
=============================================================================
