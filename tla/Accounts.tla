------------------------------ MODULE Accounts ------------------------------
(***************************************************************************)
(* Accounts and the SSH sessions logged in to them: authentication         *)
(* (internal/ssh/server.go), the shell that runs one command at a time     *)
(* (internal/ssh/shell.go, internal/commands/dispatcher.go), the commands  *)
(* that write the users table (profile.go, mod.go, admin.go) and           *)
(* maintenance mode.                                                       *)
(*                                                                         *)
(* A session works on the *models.User that its login read: the shell      *)
(* hands the same object to every command and never reads it again, and    *)
(* UpdateUser writes the whole row.  The moderation commands read the      *)
(* target's row, change one field of their copy and write all of it back,  *)
(* with no transaction around the two statements.                          *)
(*                                                                         *)
(* Every statement is a step of its own.  One that fails ends the command  *)
(* (CommandFails), except where the code goes on: an audit row or the row  *)
(* in sessions that could not be inserted is done without, and a lookup of *)
(* the maintenance mode that fails counts as "off".  Display name, bio and *)
(* picture URLs are left out: what matters of `profile set' is that it     *)
(* writes the other columns.                                               *)
(***************************************************************************)
EXTENDS Integers, FiniteSets

CONSTANTS
  Ids,             \* user ids; uuid.New() never returns one twice
  Root,            \* the account bootstrapAdmin created
  Name,            \* the username an id is registered under
  Sessions,        \* SSH connections
  Moderating,      \* the connections in which admin and mod commands are run
  Editing,         \* the connections in which `profile set' is run
  PasswordBound,   \* bound on the passwords that are generated
  FaultBound,      \* bound on the failed calls that the code goes on after
  NoUser,          \* no row; what GetUserByID returns for it
  NoCommand        \* what a session runs between commands

ASSUME AccountsAssumption ==
  /\ Root \in Ids
  /\ Moderating \subseteq Sessions
  /\ Editing \subseteq Sessions
  /\ PasswordBound \in Nat
  /\ FaultBound \in Nat

VARIABLES
  users,         \* the users table by id
  audited,       \* ids that actor_id of some audit_logs row refers to
  maintenance,   \* system_config.maintenance_mode
  sess,          \* each connection: off, authenticated, logged, or in the shell
  snap,          \* the row each session's login read
  cmd,           \* the command each session is in the middle of
  recorded,      \* connections that have an open row in the sessions table
  faults,        \* calls that failed, and after which the code went on
  issued,        \* history: passwords generated for each account
  decided,       \* history: each account's state as last decided by a command
  sanctions,     \* history: every sanction ever decided against an account
  late,          \* history: edits a user's session made since maintenance came on
  unchecked,     \* history: commands of it let in since by a lookup that failed
  unaudited      \* history: connections whose account the login left without an audit row

vars == <<users, audited, maintenance, sess, snap, cmd, recorded, faults,
          issued, decided, sanctions, late, unchecked, unaudited>>
history == <<issued, decided, sanctions, late, unchecked, unaudited>>

\* Passwords are numbered in the order they are generated; 0 is the one of
\* ADMIN_PASSWORD_HASH.
Passwords == 0 .. PasswordBound

UserRow == [id : Ids, is_admin : BOOLEAN, is_locked : BOOLEAN, is_silenced : BOOLEAN,
            password : Passwords, force_pass_change : BOOLEAN]

Decision == [is_locked : BOOLEAN, is_silenced : BOOLEAN,
             password : Passwords, force_pass_change : BOOLEAN]

Sanctions == {"suspend", "silence"}
ModOps == Sanctions \cup {"unsuspend", "reset_password"}

\* A command between its statements, with the row it is going to write.
Command == [op : ModOps \cup {"create_user", "delete_user", "profile"}, row : UserRow]

ASSUME NothingAssumption == NoUser \notin UserRow /\ NoCommand \notin Command

TypeOK ==
  /\ users \in [Ids -> UserRow \cup {NoUser}]
  /\ audited \in SUBSET Ids
  /\ maintenance \in BOOLEAN
  /\ sess \in [Sessions -> {"off", "auth", "logged", "shell"}]
  /\ snap \in [Sessions -> UserRow \cup {NoUser}]
  /\ cmd \in [Sessions -> Command \cup {NoCommand}]
  /\ recorded \in SUBSET Sessions
  /\ faults \in Nat
  /\ issued \in [Ids -> SUBSET Passwords]
  /\ decided \in [Ids -> Decision]
  /\ sanctions \in [Ids -> SUBSET Sanctions]
  /\ late \in [Sessions -> Nat]
  /\ unchecked \in [Sessions -> Nat]
  /\ unaudited \in SUBSET Sessions

\* The row create_user and bootstrapAdmin insert.
FreshRow(u, pw) ==
  [id |-> u, is_admin |-> u = Root, is_locked |-> FALSE, is_silenced |-> FALSE,
   password |-> pw, force_pass_change |-> u # Root]

DecisionOf(r) ==
  [is_locked |-> r.is_locked, is_silenced |-> r.is_silenced,
   password |-> r.password, force_pass_change |-> r.force_pass_change]

\* An instance on which bootstrapAdmin has run.
Init ==
  /\ users = [u \in Ids |-> IF u = Root THEN FreshRow(Root, 0) ELSE NoUser]
  /\ audited = {}
  /\ maintenance = FALSE
  /\ sess = [s \in Sessions |-> "off"]
  /\ snap = [s \in Sessions |-> NoUser]
  /\ cmd = [s \in Sessions |-> NoCommand]
  /\ recorded = {}
  /\ faults = 0
  /\ issued = [u \in Ids |-> IF u = Root THEN {0} ELSE {}]
  /\ decided = [u \in Ids |-> DecisionOf(FreshRow(u, 0))]
  /\ sanctions = [u \in Ids |-> {}]
  /\ late = [s \in Sessions |-> 0]
  /\ unchecked = [s \in Sessions |-> 0]
  /\ unaudited = {}
-----------------------------------------------------------------------------
(* The users table                                                         *)

Present(u) == users[u] # NoUser

\* username is UNIQUE: at most one row answers GetUserByUsername.
NameTaken(n) == \E u \in Ids : Present(u) /\ Name[u] = n

\* Mutant: the UPDATE goes by username.
UpdateByName(r) ==
  users' = [u \in Ids |-> IF Present(u) /\ Name[u] = Name[r.id] THEN [r EXCEPT !.id = u]
                          ELSE users[u]]

\* UPDATE users SET <every column that may change> WHERE id: a row that is
\* gone stays gone, and the caller is not told.
UpdateUser(r) == users' = [users EXCEPT ![r.id] = IF @ = NoUser THEN NoUser ELSE r]
-----------------------------------------------------------------------------
(* The audit log                                                           *)

\* A call fails, and the code goes on.
Fault == faults < FaultBound /\ faults' = faults + 1

\* What comes of an audit row for something an account did: CreateAuditLog's
\* error is dropped, be it the foreign key (the account is gone) or a call
\* that failed.
Audits(u) ==
  IF Present(u)
  THEN \/ audited' = audited \cup {u} /\ UNCHANGED faults
       \/ Fault /\ UNCHANGED audited
  ELSE UNCHANGED <<audited, faults>>
-----------------------------------------------------------------------------
(* Logging in and out                                                      *)

\* The handlers look the account up and turn a suspended one away.
LoginRead(s, u) ==
  /\ sess[s] = "off"
  /\ Present(u)
  /\ ~users[u].is_locked
  /\ sess' = [sess EXCEPT ![s] = "auth"]
  /\ snap' = [snap EXCEPT ![s] = users[u]]
  /\ UNCHANGED <<users, audited, maintenance, cmd, recorded, faults, history>>

\* A login that fails: suspended account or wrong password.
LoginFails(u) ==
  /\ Present(u)
  /\ Audits(u)
  /\ UNCHANGED <<users, maintenance, sess, snap, cmd, recorded, history>>

\* Mutant: the audit row of a login carries no actor.
LogAttemptNoActor(s) ==
  /\ sess[s] = "auth"
  /\ sess' = [sess EXCEPT ![s] = "logged"]
  /\ UNCHANGED <<users, audited, maintenance, snap, cmd, recorded, faults, history>>

\* logAttempt leaves an audit row of the login, if it can.
LogAttempt(s) ==
  /\ sess[s] = "auth"
  /\ sess' = [sess EXCEPT ![s] = "logged"]
  /\ Audits(snap[s].id)
  /\ unaudited' = IF snap[s].id \in audited' THEN unaudited ELSE unaudited \cup {s}
  /\ UNCHANGED <<users, maintenance, snap, cmd, recorded, issued, decided, sanctions, late, unchecked>>

\* handleSession puts the session on record and starts the shell.  The insert
\* fails if the account was deleted meanwhile, and it may fail otherwise; the
\* shell starts anyway.
LoginFinish(s) ==
  /\ sess[s] = "logged"
  /\ sess' = [sess EXCEPT ![s] = "shell"]
  /\ IF Present(snap[s].id)
     THEN \/ recorded' = recorded \cup {s} /\ UNCHANGED faults
          \/ Fault /\ UNCHANGED recorded
     ELSE UNCHANGED <<recorded, faults>>
  /\ UNCHANGED <<users, audited, maintenance, snap, cmd, history>>

\* The user leaves between two commands.  (A row that EndSession cannot close
\* stands for nobody now, like those of a crash.)
Logout(s) ==
  /\ sess[s] = "shell"
  /\ cmd[s] = NoCommand
  /\ sess' = [sess EXCEPT ![s] = "off"]
  /\ snap' = [snap EXCEPT ![s] = NoUser]
  /\ recorded' = recorded \ {s}
  /\ unaudited' = unaudited \ {s}
  /\ late' = [late EXCEPT ![s] = 0]
  /\ unchecked' = [unchecked EXCEPT ![s] = 0]
  /\ UNCHANGED <<users, audited, maintenance, cmd, faults, issued, decided, sanctions>>
-----------------------------------------------------------------------------
(* Commands                                                                *)

AtPrompt(s) == sess[s] = "shell" /\ cmd[s] = NoCommand

\* Mutant: maintenance mode is not looked at.
DispatchAlways(s) == AtPrompt(s) /\ UNCHANGED <<faults, unchecked>>

\* Dispatch looks the maintenance mode up for who was no admin when he logged
\* in, and refuses his command only if the lookup succeeds and says so.
Dispatch(s) ==
  /\ AtPrompt(s)
  /\ IF maintenance /\ ~snap[s].is_admin
     THEN Fault /\ unchecked' = [unchecked EXCEPT ![s] = @ + 1]
     ELSE UNCHANGED <<faults, unchecked>>

Runs(s, op, row) == cmd' = [cmd EXCEPT ![s] = [op |-> op, row |-> row]]
Done(s) == cmd' = [cmd EXCEPT ![s] = NoCommand]

\* admin and mod commands look at the session's copy of is_admin; for an
\* admin Dispatch looks nothing up.
AdminDispatch(s) == AtPrompt(s) /\ s \in Moderating /\ snap[s].is_admin

\* A statement fails or the connection is lost: what the command has not
\* written is never written.
CommandFails(s) ==
  /\ cmd[s] # NoCommand
  /\ Done(s)
  /\ UNCHANGED <<users, audited, maintenance, sess, snap, recorded, faults, history>>

\* profileSet changes the session's copy; UpdateUser is its only statement.
ProfileSet(s) ==
  /\ Dispatch(s)
  /\ s \in Editing
  /\ Runs(s, "profile", snap[s])
  /\ UNCHANGED <<users, audited, maintenance, sess, snap, recorded,
                 issued, decided, sanctions, late, unaudited>>

ProfileWrite(s) ==
  /\ cmd[s] # NoCommand
  /\ cmd[s].op = "profile"
  /\ UpdateUser(cmd[s].row)
  /\ Done(s)
  /\ late' = IF maintenance /\ ~snap[s].is_admin THEN [late EXCEPT ![s] = @ + 1] ELSE late
  /\ UNCHANGED <<audited, maintenance, sess, snap, recorded, faults,
                 issued, decided, sanctions, unchecked, unaudited>>

\* Mutant: what is stored is not the password that was generated.
ModifyNext(op, r, pw) ==
  CASE op = "suspend"        -> [r EXCEPT !.is_locked = TRUE]
    [] op = "unsuspend"      -> [r EXCEPT !.is_locked = FALSE]
    [] op = "silence"        -> [r EXCEPT !.is_silenced = TRUE]
    [] op = "reset_password" -> [r EXCEPT !.password = pw + 1, !.force_pass_change = TRUE]

\* What a command makes of a row; pw is the password it generated.
Modify(op, r, pw) ==
  CASE op = "suspend"        -> [r EXCEPT !.is_locked = TRUE]
    [] op = "unsuspend"      -> [r EXCEPT !.is_locked = FALSE]
    [] op = "silence"        -> [r EXCEPT !.is_silenced = TRUE]
    [] op = "reset_password" -> [r EXCEPT !.password = pw, !.force_pass_change = TRUE]

AllIssued == UNION {issued[u] : u \in Ids}
NewPassword == Cardinality(AllIssued)

\* modSetLocked refuses the admin's own account, modSilence and
\* adminResetPassword do not.
MayTarget(s, op, u) == op \in {"suspend", "unsuspend"} => u # snap[s].id

\* Mutant: nothing keeps an admin from suspending his own account.
ModReadSelf(s, op, u) ==
  /\ AdminDispatch(s) /\ Present(u) /\ op # "reset_password"
  /\ Runs(s, op, Modify(op, users[u], 0))
  /\ UNCHANGED <<users, audited, maintenance, sess, snap, recorded, faults, history>>

\* modSetLocked, modSilence, adminResetPassword read the target's row.
ModRead(s, op, u) ==
  /\ AdminDispatch(s)
  /\ Present(u)
  /\ MayTarget(s, op, u)
  /\ IF op = "reset_password"
     THEN /\ NewPassword <= PasswordBound
          /\ Runs(s, op, Modify(op, users[u], NewPassword))
          /\ issued' = [issued EXCEPT ![u] = @ \cup {NewPassword}]
     ELSE Runs(s, op, Modify(op, users[u], 0)) /\ UNCHANGED issued
  /\ UNCHANGED <<users, audited, maintenance, sess, snap, recorded, faults,
                 decided, sanctions, late, unchecked, unaudited>>

\* Mutant: the command writes the row of its own session.
ModWriteOwn(s) ==
  /\ cmd[s] # NoCommand /\ cmd[s].op \in ModOps
  /\ UpdateUser([snap[s] EXCEPT !.is_locked = cmd[s].row.is_locked]) /\ Done(s)
  /\ UNCHANGED <<audited, maintenance, sess, snap, recorded, faults, history>>

\* ... and write all of it back, then leave an audit row of their own, if
\* they can.
ModWrite(s) ==
  /\ cmd[s] # NoCommand
  /\ cmd[s].op \in ModOps
  /\ LET op == cmd[s].op
         r == cmd[s].row
     IN /\ UpdateUser(r)
        /\ decided' = [decided EXCEPT ![r.id] = Modify(op, @, r.password)]
        /\ sanctions' = [sanctions EXCEPT ![r.id] = @ \cup (Sanctions \cap {op})]
  /\ Audits(snap[s].id)
  /\ Done(s)
  /\ UNCHANGED <<maintenance, sess, snap, recorded, issued, late, unchecked, unaudited>>

\* adminCreateUser finds the name free and generates id and password.
CreateUserCheck(s, u) ==
  /\ AdminDispatch(s)
  /\ issued[u] = {}
  /\ ~NameTaken(Name[u])
  /\ NewPassword <= PasswordBound
  /\ Runs(s, "create_user", FreshRow(u, NewPassword))
  /\ issued' = [issued EXCEPT ![u] = {NewPassword}]
  /\ UNCHANGED <<users, audited, maintenance, sess, snap, recorded, faults,
                 decided, sanctions, late, unchecked, unaudited>>

\* CreateUser inserts the row, unless the name was taken meanwhile.
CreateUser(s) ==
  /\ cmd[s] # NoCommand
  /\ cmd[s].op = "create_user"
  /\ LET r == cmd[s].row
     IN IF NameTaken(Name[r.id])
        THEN UNCHANGED <<users, audited, faults, decided>>
        ELSE /\ users' = [users EXCEPT ![r.id] = r]
             /\ decided' = [decided EXCEPT ![r.id] = DecisionOf(r)]
             /\ Audits(snap[s].id)
  /\ Done(s)
  /\ UNCHANGED <<maintenance, sess, snap, recorded, issued, sanctions, late, unchecked, unaudited>>

\* adminDeleteUser looks the account up ...
DeleteUserRead(s, u) ==
  /\ AdminDispatch(s)
  /\ Present(u)
  /\ u # snap[s].id
  /\ Runs(s, "delete_user", users[u])
  /\ UNCHANGED <<users, audited, maintenance, sess, snap, recorded, faults, history>>

\* ... and deletes it, unless an audit row refers to it.  The delete takes
\* the account's rows in sessions with it.
DeleteUser(s) ==
  /\ cmd[s] # NoCommand
  /\ cmd[s].op = "delete_user"
  /\ LET u == cmd[s].row.id
     IN IF u \in audited
        THEN UNCHANGED <<users, recorded, audited, faults>>
        ELSE /\ users' = [users EXCEPT ![u] = NoUser]
             /\ recorded' = {t \in recorded : snap[t].id # u}
             /\ Audits(snap[s].id)
  /\ Done(s)
  /\ UNCHANGED <<maintenance, sess, snap, history>>

\* adminMaintenance is one statement.
Maintenance(s, on) ==
  /\ AdminDispatch(s)
  /\ maintenance' = on
  /\ late' = [t \in Sessions |-> 0]
  /\ unchecked' = [t \in Sessions |-> 0]
  /\ UNCHANGED <<users, audited, sess, snap, cmd, recorded, faults, issued, decided, sanctions, unaudited>>

\* The process dies: every connection is gone, and what its command had not
\* written is never written.  Their rows in sessions stand for nobody now.
Crash ==
  /\ sess' = [s \in Sessions |-> "off"]
  /\ snap' = [s \in Sessions |-> NoUser]
  /\ cmd' = [s \in Sessions |-> NoCommand]
  /\ recorded' = {}
  /\ unaudited' = {}
  /\ late' = [s \in Sessions |-> 0]
  /\ unchecked' = [s \in Sessions |-> 0]
  /\ UNCHANGED <<users, audited, maintenance, faults, issued, decided, sanctions>>

Next ==
  \/ \E u \in Ids : LoginFails(u)
  \/ \E s \in Sessions, u \in Ids : LoginRead(s, u) \/ CreateUserCheck(s, u) \/ DeleteUserRead(s, u)
  \/ \E s \in Sessions, u \in Ids, op \in ModOps : ModRead(s, op, u)
  \/ \E s \in Sessions, on \in BOOLEAN : Maintenance(s, on)
  \/ \E s \in Sessions :
       \/ LogAttempt(s) \/ LoginFinish(s) \/ Logout(s) \/ CommandFails(s) \/ ProfileSet(s) \/ ProfileWrite(s)
       \/ ModWrite(s) \/ CreateUser(s) \/ DeleteUser(s)
  \/ Crash

Spec == Init /\ [][Next]_vars
-----------------------------------------------------------------------------
(* What holds of accounts                                                  *)

\* The instance can always be administered: the account bootstrapAdmin made
\* is there, is the only admin and is never suspended, although admins work
\* from copies of rows and in several sessions; and a session that passes
\* for an admin's is one of that account.
AdminSurvives ==
  /\ Present(Root) /\ ~users[Root].is_locked
  /\ \A u \in Ids : Present(u) => (users[u].is_admin <=> u = Root)
  /\ \A s \in Sessions : snap[s] # NoUser /\ snap[s].is_admin => snap[s].id = Root

\* Whatever copies are written back, an account never has a sanction that no
\* admin decided against it, nor a password that was not generated for it,
\* even if it was created anew under the name of a deleted account that still
\* has a session.
NothingInvented ==
  \A u \in Ids : Present(u) =>
    /\ users[u].id = u
    /\ users[u].password \in issued[u]
    /\ users[u].is_locked => "suspend" \in sanctions[u]
    /\ users[u].is_silenced => "silence" \in sanctions[u]

\* delete_user takes the account's rows in sessions with it, but never while
\* one of those sessions is running and its login left the account with an
\* audit row, which refers to it.  (Where that row was lost nothing does: the
\* account can be deleted under the running session.)
NoSessionOutlivesAccount ==
  [][\A s \in recorded \ unaudited :
       sess'[s] = "shell" => s \in recorded' /\ Present(snap[s].id)']_vars

\* Once maintenance mode is on, a user's session gets at most the one edit
\* through that Dispatch had let pass already, and one for each lookup of the
\* mode that failed.
MaintenanceDrains == \A s \in Sessions : late[s] <= 1 + unchecked[s]

\* With one moderating session and no `profile set', an account's row is what
\* the admin last decided: no decision is lost or undone.
ModerationSticks == \A u \in Ids : Present(u) => DecisionOf(users[u]) = decided[u]

\* help.go:192-193: "mod suspend USERNAME    Suspend a user account",
\* "mod unsuspend USERNAME  Re-enable a suspended account".  A suspension
\* stands until an admin lifts it.
SuspensionHolds == \A u \in Ids : Present(u) /\ decided[u].is_locked => users[u].is_locked
=============================================================================
