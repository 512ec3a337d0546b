-------------------------------- MODULE Login --------------------------------
(***************************************************************************)
(* Logging in over SSH: the rate limiter, which counts the failed attempts *)
(* of an address in Redis (internal/auth/auth.go), the two authentication  *)
(* handlers that consult it (internal/ssh/server.go), and the ssh_keys     *)
(* table they look keys up in, with the commands that write it             *)
(* (internal/commands/settings.go, admin.go).                              *)
(*                                                                         *)
(* The connections of one address are handled at the same time.  Each one  *)
(* reads the counter, verifies, and counts afterwards: INCR and EXPIRE go  *)
(* to Redis in a pipeline, which is not a transaction.  A key is looked up *)
(* and inserted in two statements; ssh_keys.fingerprint is UNIQUE.         *)
(***************************************************************************)
EXTENDS Integers, FiniteSets

CONSTANTS
  Conns,             \* connections that one address may have at a time
  Users,             \* accounts
  Keys,              \* public keys, by fingerprint
  Sessions,          \* shell sessions
  Owner,             \* the account each session is logged in as
  Admins,            \* sessions of an administrator
  Nobody,            \* the owner of a key that is not registered; no command
  rateLimitMax,      \* failures before an address is refused
  rateLimitWindow,   \* the counter's time to live, in ticks
  FaultBound         \* bound on the failed calls to Redis

ASSUME LoginAssumption ==
  /\ IsFiniteSet(Conns)
  /\ Nobody \notin Users
  /\ Owner \in [Sessions -> Users]
  /\ Admins \subseteq Sessions
  /\ rateLimitMax \in Nat \ {0}
  /\ rateLimitWindow \in Nat \ {0}
  /\ FaultBound \in Nat

VARIABLES
  count,      \* the counter; 0 when its Redis key is not there
  ttl,        \* its time to live, or Forever
  conn,       \* where each connection is
  failures,   \* history: failures to be counted since the counter was new
  faults,     \* failed calls to Redis so far
  keys,       \* the owner of each key in ssh_keys, or Nobody
  cmd         \* what each session is in the middle of

limiter == <<count, ttl, conn, failures, faults>>
registry == <<keys, cmd>>
vars == <<limiter, registry>>

Forever == 0

\* A session is about to insert or delete a key, having looked it up, or goes
\* through the list of keys it has fetched.
Command ==
       [op : {"add", "remove"}, user : Users, key : Keys, rest : SUBSET Keys]
  \cup [op : {"import"}, user : Users, rest : (SUBSET Keys) \ {{}}]

ASSUME NobodyAssumption == Nobody \notin Command

TypeOK ==
  /\ count \in Nat
  /\ ttl \in 0 .. rateLimitWindow
  /\ conn \in [Conns -> {"open", "verify", "record", "expire"}]
  /\ failures \in Nat
  /\ faults \in 0 .. FaultBound
  /\ keys \in [Keys -> Users \cup {Nobody}]
  /\ cmd \in [Sessions -> Command \cup {Nobody}]

Init ==
  /\ count = 0
  /\ ttl = Forever
  /\ conn = [c \in Conns |-> "open"]
  /\ failures = 0
  /\ faults = 0
  /\ keys \in [Keys -> Users \cup {Nobody}]
  /\ cmd = [s \in Sessions |-> Nobody]
-----------------------------------------------------------------------------
(* The limiter                                                             *)

Goes(c, p) == conn' = [conn EXCEPT ![c] = p]
In(p) == {c \in Conns : conn[c] = p}
Fault == faults < FaultBound /\ faults' = faults + 1

\* Mutants: one attempt more is granted; a refused attempt renews the counter.
UnderLimitByOne == count <= rateLimitMax
RefuseAndRenew(c) ==
  /\ conn[c] = "open" /\ ~(count < rateLimitMax)
  /\ ttl' = rateLimitWindow
  /\ UNCHANGED <<count, conn, failures, faults, registry>>

\* CheckLoginAttempts
UnderLimit == count < rateLimitMax

\* An attempt begins: it is under the limit, or Redis does not answer, which
\* both handlers only log.
Allow(c) ==
  /\ conn[c] = "open"
  /\ \/ UnderLimit /\ UNCHANGED faults
     \/ Fault
  /\ Goes(c, "verify")
  /\ UNCHANGED <<count, ttl, failures, registry>>

\* An attempt is refused, and not counted.
Refuse(c) ==
  /\ conn[c] = "open"
  /\ ~UnderLimit
  /\ UNCHANGED vars

\* The attempt fails and will be counted ...
Fails(c) ==
  /\ Goes(c, "record")
  /\ failures' = failures + 1

\* ... or does not, or in a way that is not counted.
Passes(c) == Goes(c, "open") /\ UNCHANGED failures

\* handlePasswordAuth: no such user, a wrong password or a failed query is
\* counted, a suspended account is not.
PasswordAuth(c) ==
  /\ conn[c] = "verify"
  /\ Fails(c) \/ Passes(c)
  /\ UNCHANGED <<count, ttl, faults, registry>>

\* GetSSHKeyByFingerprint finds nothing.
Unregistered(k) == keys[k] = Nobody

\* handlePublicKeyAuth: a key that is not registered is counted; a failed
\* query, a user that is gone and a suspended account are not.
PublicKeyAuth(c, k) ==
  /\ conn[c] = "verify"
  /\ \/ Unregistered(k) /\ Fails(c)
     \/ Passes(c)
  /\ UNCHANGED <<count, ttl, faults, registry>>

\* RecordLoginAttempt: INCR, whose error its callers drop ...
RecordLoginAttempt(c) ==
  /\ conn[c] = "record"
  /\ \/ count' = count + 1 /\ Goes(c, "expire") /\ UNCHANGED faults
     \/ Fault /\ Goes(c, "open") /\ UNCHANGED count
  /\ UNCHANGED <<ttl, failures, registry>>

\* Mutant: as its comment says, "setting a TTL on first use".
ExpireFirst(c) ==
  /\ conn[c] = "expire"
  /\ Goes(c, "open")
  /\ \/ ttl' = (IF count = 1 THEN rateLimitWindow ELSE ttl) /\ UNCHANGED faults
     \/ Fault /\ UNCHANGED ttl
  /\ UNCHANGED <<count, failures, registry>>

\* ... and EXPIRE, after every INCR.  It does nothing if the counter has gone
\* meanwhile, and may fail when INCR did not.
Expire(c) ==
  /\ conn[c] = "expire"
  /\ Goes(c, "open")
  /\ \/ ttl' = (IF count = 0 THEN Forever ELSE rateLimitWindow) /\ UNCHANGED faults
     \/ Fault /\ UNCHANGED ttl
  /\ UNCHANGED <<count, failures, registry>>

\* Time passes; Redis drops the counter when its time is up.  Failures that
\* are not counted yet will be in the next one.
Tick ==
  /\ ttl # Forever
  /\ ttl' = ttl - 1
  /\ IF ttl' = 0
     THEN count' = 0 /\ failures' = Cardinality(In("record"))
     ELSE UNCHANGED <<count, failures>>
  /\ UNCHANGED <<conn, faults, registry>>
-----------------------------------------------------------------------------
(* The keys                                                                *)

Idle(s) == cmd[s] = Nobody
Doing(s, op) == cmd[s] # Nobody /\ cmd[s].op = op
Becomes(s, c) == cmd' = [cmd EXCEPT ![s] = c]

\* Mutant: the loop does not stop at the end of the list.
NextKeyAlways(s) ==
  Becomes(s, [op |-> "import", user |-> cmd[s].user, rest |-> cmd[s].rest])

\* What is left to do after a key: the rest of the list, if there is one.
NextKey(s) ==
  Becomes(s, IF cmd[s].rest = {} THEN Nobody
             ELSE [op |-> "import", user |-> cmd[s].user, rest |-> cmd[s].rest])

\* A key that is not registered is about to be, for u ...
AddKey(s, u, k) ==
  /\ Idle(s)
  /\ Unregistered(k)
  /\ Becomes(s, [op |-> "add", user |-> u, key |-> k, rest |-> {}])
  /\ UNCHANGED <<limiter, keys>>

\* ... by the user, or by an administrator.
SettingsAddKey(s, k) == AddKey(s, Owner[s], k)
AdminAddKey(s, u, k) == s \in Admins /\ AddKey(s, u, k)

\* A list of keys is fetched for u ...
ImportKeys(s, u, K) ==
  /\ Idle(s)
  /\ K # {}
  /\ Becomes(s, [op |-> "import", user |-> u, rest |-> K])
  /\ UNCHANGED <<limiter, keys>>

\* ... by the user, or by an administrator, and not only when he asks for it:
\* admin create_user may be given a URL ...
SettingsAddKeyURL(s, K) == ImportKeys(s, Owner[s], K)
AdminAddKeyURL(s, u, K) == s \in Admins /\ ImportKeys(s, u, K)

\* ... and gone through; a key that is registered, malformed or cannot be
\* looked up is skipped ...
ImportNext(s, k) ==
  /\ Doing(s, "import")
  /\ k \in cmd[s].rest
  /\ LET rest == cmd[s].rest \ {k}
     IN \/ Unregistered(k)
           /\ Becomes(s, [op |-> "add", user |-> cmd[s].user, key |-> k, rest |-> rest])
        \/ Becomes(s, IF rest = {} THEN Nobody ELSE [cmd[s] EXCEPT !.rest = rest])
  /\ UNCHANGED <<limiter, keys>>

\* Mutant: an insert that meets another replaces it.
CreateOrReplaceSSHKey(s) ==
  /\ Doing(s, "add")
  /\ keys' = [keys EXCEPT ![cmd[s].key] = cmd[s].user]
  /\ NextKey(s)
  /\ UNCHANGED limiter

\* ... CreateSSHKey inserts it, unless another session has: fingerprint is
\* UNIQUE, and the insert fails.
CreateSSHKey(s) ==
  /\ Doing(s, "add")
  /\ keys' = [keys EXCEPT ![cmd[s].key] = IF @ = Nobody THEN cmd[s].user ELSE @]
  /\ NextKey(s)
  /\ UNCHANGED limiter

\* settingsRemoveKey: the key is the user's own ...
RemoveKey(s, k) ==
  /\ Idle(s)
  /\ keys[k] = Owner[s]
  /\ Becomes(s, [op |-> "remove", user |-> Owner[s], key |-> k, rest |-> {}])
  /\ UNCHANGED <<limiter, keys>>

\* ... and is deleted if it still is.
DeleteSSHKeyByFingerprint(s) ==
  /\ Doing(s, "remove")
  /\ keys' = [keys EXCEPT ![cmd[s].key] = IF @ = cmd[s].user THEN Nobody ELSE @]
  /\ Becomes(s, Nobody)
  /\ UNCHANGED limiter

Next ==
  \/ \E c \in Conns :
       \/ Allow(c) \/ Refuse(c) \/ PasswordAuth(c)
       \/ RecordLoginAttempt(c) \/ Expire(c)
  \/ \E c \in Conns, k \in Keys : PublicKeyAuth(c, k)
  \/ Tick
  \/ \E s \in Sessions, u \in Users, k \in Keys : AdminAddKey(s, u, k)
  \/ \E s \in Sessions, u \in Users, K \in SUBSET Keys : AdminAddKeyURL(s, u, K)
  \/ \E s \in Sessions, K \in SUBSET Keys : SettingsAddKeyURL(s, K)
  \/ \E s \in Sessions, k \in Keys : SettingsAddKey(s, k) \/ ImportNext(s, k) \/ RemoveKey(s, k)
  \/ \E s \in Sessions : CreateSSHKey(s) \/ DeleteSSHKeyByFingerprint(s)

\* Time passes, and a handler that has begun ends: its calls to Redis return
\* or time out.  Nothing makes a client try again, or stop trying.
Fairness ==
  /\ WF_vars(Tick)
  /\ \A c \in Conns : WF_vars(RecordLoginAttempt(c) \/ Expire(c))

Spec == Init /\ [][Next]_vars
FairSpec == Spec /\ Fairness
-----------------------------------------------------------------------------
(* What the limiter and the registry promise                               *)

\* The limiter reads first and counts later, so connections that read
\* together all pass.  Even so an address gets to fail no more than the limit,
\* once more for every other connection it may have at a time, and once more
\* for every call to Redis that failed, before the counter is dropped.
AttemptsBounded ==
  failures <= rateLimitMax - 1 + Cardinality(Conns) + faults

\* An address at the limit has a counter that will be dropped: INCR makes it
\* without a time to live, but only if as many calls failed as the limit has
\* attempts can it have stayed without one.
BlockedExpires ==
  ~UnderLimit /\ In("expire") = {} => ttl # Forever \/ faults >= rateLimitMax

\* An address at the limit is let in again, even one that never stops trying:
\* refused attempts are not counted and do not renew the counter.  As above,
\* only as many failed calls as the limit has attempts can lock it out for good.
EventuallyAllowed == ~UnderLimit ~> UnderLimit \/ faults >= rateLimitMax

\* A registered key is never taken over: whatever sessions add, import and
\* remove it at the same time, it stays with its account until a session of
\* that account removes it.
KeyKeepsOwner ==
  [][\A k \in Keys : keys[k] # Nobody /\ keys'[k] # keys[k] =>
       /\ keys'[k] = Nobody
       /\ \E s \in Sessions : Doing(s, "remove") /\ Owner[s] = keys[k]]_vars
=============================================================================
