------------------------------ MODULE LoginProofs ------------------------------
(***************************************************************************)
(* Proofs about Login for any connections of an address, any limit and any *)
(* number of failed calls to Redis, and for any accounts, sessions and     *)
(* keys.  EventuallyAllowed needs fairness and is left to TLC.             *)
(***************************************************************************)
EXTENDS Login, FiniteSetTheorems, TLAPS

\* How many connections are at a point of their handler.
Num(p) == Cardinality(In(p))

\* The connections at a point can be counted, and one connection cannot be at
\* two points.
LEMMA Counts ==
  ASSUME NEW p, NEW q, p # q
  PROVE  Num(p) \in Nat /\ Num(p) + Num(q) <= Cardinality(Conns) /\ Cardinality(Conns) \in Nat
<1>1. \A r : In(r) \in SUBSET Conns
  BY DEF In
<1>2. IsFiniteSet(Conns) /\ \A r : IsFiniteSet(In(r)) /\ Num(r) \in Nat
  BY <1>1, LoginAssumption, FS_Subset, FS_CardinalityType DEF Num
<1>3. In(p) \cap In(q) = {} /\ In(p) \cup In(q) \in SUBSET Conns
  BY DEF In
<1>4. Cardinality({}) = 0
  BY FS_EmptySet
<1>5. Cardinality(In(p) \cup In(q)) = Num(p) + Num(q) - 0
  BY <1>2, <1>3, <1>4, FS_Union DEF Num
<1>6. Cardinality(In(p) \cup In(q)) <= Cardinality(Conns)
  BY <1>2, <1>3, FS_Subset
<1> QED
  BY <1>2, <1>5, <1>6, FS_CardinalityType

\* A connection that goes on is counted where it goes, not where it was.
LEMMA GoesOn ==
  ASSUME TypeOK, NEW c \in Conns, NEW p, NEW q, p # q, conn[c] = p, Goes(c, q)
  PROVE  /\ Num(p)' = Num(p) - 1
         /\ Num(q)' = Num(q) + 1
         /\ \A r : r \notin {p, q} => Num(r)' = Num(r)
<1>1. conn' = [conn EXCEPT ![c] = q] /\ c \in In(p) /\ c \notin In(q)
  BY DEF Goes, In
<1>2. In(p)' = In(p) \ {c}
  BY <1>1 DEF In, TypeOK
<1>3. In(q)' = In(q) \cup {c}
  BY <1>1 DEF In, TypeOK
<1>4. ASSUME NEW r, r \notin {p, q} PROVE In(r)' = In(r)
  BY <1>1, <1>4 DEF In, TypeOK
<1>5. IsFiniteSet(In(p)) /\ IsFiniteSet(In(q))
  BY LoginAssumption, FS_Subset DEF In
<1>6. Cardinality(In(p) \ {c}) = Cardinality(In(p)) - 1
  BY <1>1, <1>5, FS_RemoveElement
<1>7. Cardinality(In(q) \cup {c}) = Cardinality(In(q)) + 1
  BY <1>1, <1>5, FS_AddElement
<1> QED
  BY <1>2, <1>3, <1>4, <1>6, <1>7 DEF Num

\* Nobody goes on: every connection is counted where it was.
LEMMA NobodyGoes ==
  ASSUME UNCHANGED conn
  PROVE  \A r : Num(r)' = Num(r)
  BY DEF Num, In

\* What a command in progress carries.
LEMMA CommandFields ==
  ASSUME TypeOK, NEW s \in Sessions, cmd[s] # Nobody
  PROVE  /\ cmd[s].user \in Users
         /\ cmd[s].rest \in SUBSET Keys
         /\ cmd[s].op \in {"add", "remove"} => cmd[s].key \in Keys
  BY DEF TypeOK, Command

\* The steps of the registry leave the limiter alone, and those of the
\* limiter the registry.
Registering ==
  \/ \E s \in Sessions, u \in Users, k \in Keys : AddKey(s, u, k)
  \/ \E s \in Sessions, u \in Users, K \in SUBSET Keys : ImportKeys(s, u, K)
  \/ \E s \in Sessions, k \in Keys : ImportNext(s, k) \/ RemoveKey(s, k)
  \/ \E s \in Sessions : CreateSSHKey(s) \/ DeleteSSHKeyByFingerprint(s)

\* The steps of the limiter and those of the registry are all there are.
LEMMA NextCases ==
  ASSUME Next
  PROVE  \/ Registering
         \/ \E c \in Conns : Allow(c) \/ Refuse(c) \/ PasswordAuth(c) \/ RecordLoginAttempt(c) \/ Expire(c)
         \/ \E c \in Conns, k \in Keys : PublicKeyAuth(c, k)
         \/ Tick
<1>1. \A s \in Sessions : Owner[s] \in Users
  BY LoginAssumption
<1>2. ASSUME \E s \in Sessions, k \in Keys : SettingsAddKey(s, k) PROVE Registering
  BY <1>1, <1>2 DEF SettingsAddKey, Registering
<1>3. ASSUME \E s \in Sessions, K \in SUBSET Keys : SettingsAddKeyURL(s, K) PROVE Registering
  BY <1>1, <1>3 DEF SettingsAddKeyURL, Registering
<1>4. ASSUME \E s \in Sessions, u \in Users, k \in Keys : AdminAddKey(s, u, k) PROVE Registering
  BY <1>4 DEF AdminAddKey, Registering
<1>5. ASSUME \E s \in Sessions, u \in Users, K \in SUBSET Keys : AdminAddKeyURL(s, u, K) PROVE Registering
  BY <1>5 DEF AdminAddKeyURL, Registering
<1>6. ASSUME \/ \E s \in Sessions, k \in Keys : ImportNext(s, k) \/ RemoveKey(s, k)
             \/ \E s \in Sessions : CreateSSHKey(s) \/ DeleteSSHKeyByFingerprint(s)
      PROVE  Registering
  BY <1>6, Zenon DEF Registering
<1> QED
  BY <1>2, <1>3, <1>4, <1>5, <1>6, Zenon DEF Next

LEMMA RegisteringFrame == ASSUME Registering PROVE UNCHANGED limiter
  BY DEF Registering, AddKey, ImportKeys, ImportNext, RemoveKey, CreateSSHKey, DeleteSSHKeyByFingerprint

\* A command in progress is of its type: what a step leaves to do is.
LEMMA RegistryType ==
  ASSUME TypeOK, Registering
  PROVE  keys' \in [Keys -> Users \cup {Nobody}] /\ cmd' \in [Sessions -> Command \cup {Nobody}]
<1>0. \A u \in Users, k \in Keys, K \in SUBSET Keys, op \in {"add", "remove"} :
        [op |-> op, user |-> u, key |-> k, rest |-> K] \in Command
  BY DEF Command
<1>i. \A u \in Users, K \in SUBSET Keys :
        K # {} => [op |-> "import", user |-> u, rest |-> K] \in Command
  BY DEF Command
<1>n. ASSUME NEW s \in Sessions, cmd[s] # Nobody, NextKey(s)
      PROVE  cmd' \in [Sessions -> Command \cup {Nobody}]
  BY <1>n, <1>i, CommandFields DEF NextKey, Becomes, TypeOK
<1>1. ASSUME NEW s \in Sessions, NEW u \in Users, NEW k \in Keys, AddKey(s, u, k)
      PROVE  keys' \in [Keys -> Users \cup {Nobody}] /\ cmd' \in [Sessions -> Command \cup {Nobody}]
  BY <1>1, <1>0 DEF AddKey, Becomes, TypeOK
<1>2. ASSUME NEW s \in Sessions, NEW u \in Users, NEW K \in SUBSET Keys, ImportKeys(s, u, K)
      PROVE  keys' \in [Keys -> Users \cup {Nobody}] /\ cmd' \in [Sessions -> Command \cup {Nobody}]
  BY <1>2, <1>i DEF ImportKeys, Becomes, TypeOK
<1>3. ASSUME NEW s \in Sessions, NEW k \in Keys, ImportNext(s, k)
      PROVE  keys' \in [Keys -> Users \cup {Nobody}] /\ cmd' \in [Sessions -> Command \cup {Nobody}]
  <2>1. /\ cmd[s] # Nobody /\ cmd[s].user \in Users /\ cmd[s].rest \in SUBSET Keys
        /\ cmd[s] = [op |-> "import", user |-> cmd[s].user, rest |-> cmd[s].rest]
    BY <1>3 DEF ImportNext, Doing, TypeOK, Command
  <2>2. PICK rest \in SUBSET Keys :
          \/ Becomes(s, [op |-> "add", user |-> cmd[s].user, key |-> k, rest |-> rest])
          \/ Becomes(s, IF rest = {} THEN Nobody ELSE [cmd[s] EXCEPT !.rest = rest])
    BY <1>3, <2>1 DEF ImportNext
  <2>3. [cmd[s] EXCEPT !.rest = rest] = [op |-> "import", user |-> cmd[s].user, rest |-> rest]
    BY <2>1
  <2>4. keys' = keys
    BY <1>3 DEF ImportNext
  <2>5. PICK c \in Command \cup {Nobody} : Becomes(s, c)
    <3>1. CASE Becomes(s, [op |-> "add", user |-> cmd[s].user, key |-> k, rest |-> rest])
      BY <1>0, <2>1, <3>1
    <3>2. CASE rest = {} /\ Becomes(s, Nobody)
      BY <3>2
    <3>3. CASE rest # {} /\ Becomes(s, [cmd[s] EXCEPT !.rest = rest])
      <4>1. Becomes(s, [op |-> "import", user |-> cmd[s].user, rest |-> rest])
        BY <2>3, <3>3
      <4> QED
        BY <1>i, <2>1, <3>3, <4>1
    <3> QED
      BY <2>2, <3>1, <3>2, <3>3, Zenon
  <2> QED
    BY <2>4, <2>5 DEF Becomes, TypeOK
<1>4. ASSUME NEW s \in Sessions, NEW k \in Keys, RemoveKey(s, k)
      PROVE  keys' \in [Keys -> Users \cup {Nobody}] /\ cmd' \in [Sessions -> Command \cup {Nobody}]
  <2>1. Owner[s] \in Users
    BY LoginAssumption
  <2> QED
    BY <1>4, <1>0, <2>1 DEF RemoveKey, Becomes, TypeOK
<1>5. ASSUME NEW s \in Sessions, CreateSSHKey(s)
      PROVE  keys' \in [Keys -> Users \cup {Nobody}] /\ cmd' \in [Sessions -> Command \cup {Nobody}]
  <2>1. cmd[s] # Nobody /\ NextKey(s)
    BY <1>5 DEF CreateSSHKey, Doing
  <2> QED
    BY <1>5, <1>n, <2>1, CommandFields DEF CreateSSHKey, TypeOK
<1>6. ASSUME NEW s \in Sessions, DeleteSSHKeyByFingerprint(s)
      PROVE  keys' \in [Keys -> Users \cup {Nobody}] /\ cmd' \in [Sessions -> Command \cup {Nobody}]
  BY <1>6 DEF DeleteSSHKeyByFingerprint, Becomes, TypeOK
<1> QED
  BY <1>1, <1>2, <1>3, <1>4, <1>5, <1>6 DEF Registering

\* The variables stay in their types.
THEOREM TypeCorrect == Spec => []TypeOK
<1>1. Init => TypeOK
  BY LoginAssumption DEF Init, TypeOK, Forever
<1>2. TypeOK /\ [Next]_vars => TypeOK'
  <2> SUFFICES ASSUME TypeOK, [Next]_vars PROVE TypeOK'
    OBVIOUS
  <2> USE LoginAssumption
  <2>1. CASE UNCHANGED vars
    BY <2>1 DEF vars, limiter, registry, TypeOK
  <2>2. CASE Registering
    BY <2>2, RegisteringFrame, RegistryType DEF limiter, TypeOK
  <2>3. ASSUME NEW c \in Conns, Allow(c) PROVE TypeOK'
    BY <2>3 DEF Allow, Goes, Fault, TypeOK, registry
  <2>4. ASSUME NEW c \in Conns, Refuse(c) PROVE TypeOK'
    BY <2>1, <2>4 DEF Refuse
  <2>5. ASSUME NEW c \in Conns, PasswordAuth(c) \/ \E k \in Keys : PublicKeyAuth(c, k) PROVE TypeOK'
    BY <2>5 DEF PasswordAuth, PublicKeyAuth, Fails, Passes, Goes, TypeOK, registry
  <2>6. ASSUME NEW c \in Conns, RecordLoginAttempt(c) PROVE TypeOK'
    BY <2>6 DEF RecordLoginAttempt, Goes, Fault, TypeOK, registry
  <2>7. ASSUME NEW c \in Conns, Expire(c) PROVE TypeOK'
    BY <2>7 DEF Expire, Goes, Fault, Forever, TypeOK, registry
  <2>8. CASE Tick
    <3>1. Cardinality(In("record")) \in Nat
      BY Counts, "record" # "open" DEF Num
    <3> QED
      BY <2>8, <3>1 DEF Tick, Forever, TypeOK, registry
  <2> QED
    BY <2>1, <2>2, <2>3, <2>4, <2>5, <2>6, <2>7, <2>8, NextCases
<1> QED
  BY <1>1, <1>2, PTL DEF Spec
-----------------------------------------------------------------------------
(* The limiter                                                             *)

\* A failure is counted, is about to be, or was lost with a failed call.
Counted == failures <= count + Num("record") + faults

\* What has failed and what may still fail: a connection is let in below the
\* limit, when what has failed is counted, about to be, or lost.
Pending == failures + Num("verify") <= rateLimitMax - 1 + Cardinality(Conns) + faults

\* A counter without a time to live has one coming for each failure it
\* counts, or the call that would have set it failed.
Dropped == ttl = Forever => count <= faults + Num("expire")

LimiterInv == Counted /\ Pending /\ Dropped

\* The points of a handler differ.
LEMMA Points ==
  /\ Num("record") \in Nat /\ Num("verify") \in Nat /\ Num("expire") \in Nat
  /\ Cardinality(Conns) \in Nat
  /\ Num("record") + Num("verify") <= Cardinality(Conns)
  BY Counts, "record" # "verify", "verify" # "record", "expire" # "verify"

\* A point of the limiter's proof on its own: each step keeps LimiterInv.
LEMMA LimiterStep ==
  ASSUME TypeOK, LimiterInv, [Next]_vars
  PROVE  LimiterInv'
<1> USE LoginAssumption
<1>p. /\ Num("record") \in Nat /\ Num("verify") \in Nat /\ Num("expire") \in Nat
      /\ Cardinality(Conns) \in Nat
      /\ Num("record") + Num("verify") <= Cardinality(Conns)
      /\ count \in Nat /\ failures \in Nat /\ faults \in Nat /\ rateLimitMax \in Nat
  BY Points DEF TypeOK
<1>q. failures <= count + Num("record") + faults
  BY DEF LimiterInv, Counted
<1>r. failures + Num("verify") <= rateLimitMax - 1 + Cardinality(Conns) + faults
  BY DEF LimiterInv, Pending
<1>s. ttl = Forever => count <= faults + Num("expire")
  BY DEF LimiterInv, Dropped
<1>1. CASE UNCHANGED limiter
  <2>1. \A r : Num(r)' = Num(r)
    BY <1>1, NobodyGoes DEF limiter
  <2> QED
    BY <1>1, <1>p, <1>q, <1>r, <1>s, <2>1 DEF limiter, LimiterInv, Counted, Pending, Dropped, Forever
<1>2. ASSUME NEW c \in Conns, Allow(c) PROVE LimiterInv'
  <2>1. Num("verify")' = Num("verify") + 1 /\ Num("record")' = Num("record") /\ Num("expire")' = Num("expire")
    BY <1>2, GoesOn, "open" # "verify" DEF Allow
  <2>2. Num("record") + Num("verify") + 1 <= Cardinality(Conns)
    <3>1. (Num("record") + Num("verify") <= Cardinality(Conns))'
      <4>1. In("record")' \cap In("verify")' = {} /\ In("record")' \cup In("verify")' \in SUBSET Conns
        BY DEF In
      <4>2. IsFiniteSet(In("record")') /\ IsFiniteSet(In("verify")')
        BY <4>1, FS_Subset
      <4>3. Cardinality(In("record")' \cup In("verify")')
              = Cardinality(In("record")') + Cardinality(In("verify")') - 0
        BY <4>1, <4>2, FS_Union, FS_EmptySet
      <4>4. Cardinality(In("record")' \cup In("verify")') <= Cardinality(Conns)
        BY <4>1, FS_Subset
      <4>5. Cardinality(In("record")') \in Nat /\ Cardinality(In("verify")') \in Nat
        BY <4>2, FS_CardinalityType
      <4> QED
        BY <4>3, <4>4, <4>5 DEF Num
    <3> QED
      BY <1>p, <2>1, <3>1
  <2>3. UNCHANGED <<count, ttl, failures>>
    BY <1>2 DEF Allow
  <2>4. CASE UnderLimit /\ UNCHANGED faults
    BY <1>p, <1>q, <1>r, <1>s, <2>1, <2>2, <2>3, <2>4 DEF UnderLimit, LimiterInv, Counted, Pending, Dropped, Forever
  <2>5. CASE faults' = faults + 1
    BY <1>p, <1>q, <1>r, <1>s, <2>1, <2>3, <2>5 DEF LimiterInv, Counted, Pending, Dropped, Forever
  <2> QED
    BY <1>2, <2>4, <2>5 DEF Allow, Fault
<1>3. ASSUME NEW c \in Conns, conn[c] = "verify", Fails(c) \/ Passes(c), UNCHANGED <<count, ttl, faults>>
      PROVE  LimiterInv'
  <2>1. CASE Fails(c)
    <3>1. /\ Num("verify")' = Num("verify") - 1 /\ Num("record")' = Num("record") + 1
          /\ Num("expire")' = Num("expire")
      BY <1>3, <2>1, GoesOn, "verify" # "record" DEF Fails
    <3> QED
      BY <1>3, <1>p, <1>q, <1>r, <1>s, <2>1, <3>1 DEF Fails, LimiterInv, Counted, Pending, Dropped, Forever
  <2>2. CASE Passes(c)
    <3>1. /\ Num("verify")' = Num("verify") - 1 /\ Num("record")' = Num("record")
          /\ Num("expire")' = Num("expire")
      BY <1>3, <2>2, GoesOn, "verify" # "open" DEF Passes
    <3> QED
      BY <1>3, <1>p, <1>q, <1>r, <1>s, <2>2, <3>1 DEF Passes, LimiterInv, Counted, Pending, Dropped, Forever
  <2> QED
    BY <1>3, <2>1, <2>2
<1>4. ASSUME NEW c \in Conns, RecordLoginAttempt(c) PROVE LimiterInv'
  <2>1. UNCHANGED <<ttl, failures>> /\ conn[c] = "record"
    BY <1>4 DEF RecordLoginAttempt
  <2>2. CASE count' = count + 1 /\ Goes(c, "expire") /\ UNCHANGED faults
    <3>1. /\ Num("record")' = Num("record") - 1 /\ Num("expire")' = Num("expire") + 1
          /\ Num("verify")' = Num("verify")
      BY <2>1, <2>2, GoesOn, "record" # "expire"
    <3> QED
      BY <1>p, <1>q, <1>r, <1>s, <2>1, <2>2, <3>1 DEF LimiterInv, Counted, Pending, Dropped, Forever
  <2>3. CASE faults' = faults + 1 /\ Goes(c, "open") /\ UNCHANGED count
    <3>1. /\ Num("record")' = Num("record") - 1 /\ Num("expire")' = Num("expire")
          /\ Num("verify")' = Num("verify")
      BY <2>1, <2>3, GoesOn, "record" # "open"
    <3> QED
      BY <1>p, <1>q, <1>r, <1>s, <2>1, <2>3, <3>1 DEF LimiterInv, Counted, Pending, Dropped, Forever
  <2> QED
    BY <1>4, <2>2, <2>3 DEF RecordLoginAttempt, Fault
<1>5. ASSUME NEW c \in Conns, Expire(c) PROVE LimiterInv'
  <2>1. UNCHANGED <<count, failures>> /\ conn[c] = "expire" /\ Goes(c, "open")
    BY <1>5 DEF Expire
  <2>2. /\ Num("expire")' = Num("expire") - 1 /\ Num("record")' = Num("record")
        /\ Num("verify")' = Num("verify")
    BY <2>1, GoesOn, "expire" # "open"
  <2>3. CASE ttl' = (IF count = 0 THEN Forever ELSE rateLimitWindow) /\ UNCHANGED faults
    <3>1. Num("expire")' \in Nat
      <4>1. IsFiniteSet(In("expire")')
        BY FS_Subset DEF In
      <4> QED
        BY <4>1, FS_CardinalityType DEF Num
    <3> QED
      BY <1>p, <1>q, <1>r, <2>1, <2>2, <2>3, <3>1 DEF LimiterInv, Counted, Pending, Dropped, Forever
  <2>4. CASE faults' = faults + 1 /\ UNCHANGED ttl
    BY <1>p, <1>q, <1>r, <1>s, <2>1, <2>2, <2>4 DEF LimiterInv, Counted, Pending, Dropped, Forever
  <2> QED
    BY <1>5, <2>3, <2>4 DEF Expire, Fault
<1>6. CASE Tick
  <2>1. (\A r : Num(r)' = Num(r)) /\ UNCHANGED faults
    BY <1>6, NobodyGoes DEF Tick
  <2>2. CASE ttl' = 0
    <3>1. count' = 0 /\ failures' = Num("record")
      BY <1>6, <2>2 DEF Tick, Num
    <3> QED
      BY <1>p, <2>1, <2>2, <3>1 DEF LimiterInv, Counted, Pending, Dropped, Forever
  <2>3. CASE ttl' # 0
    BY <1>6, <1>p, <1>q, <1>r, <2>1, <2>3 DEF Tick, LimiterInv, Counted, Pending, Dropped, Forever
  <2> QED
    BY <2>2, <2>3
<1>7. CASE Registering
  BY <1>1, <1>7, RegisteringFrame
<1>8. CASE UNCHANGED vars
  BY <1>1, <1>8 DEF vars
<1>9. ASSUME NEW c \in Conns, PasswordAuth(c) \/ \E k \in Keys : PublicKeyAuth(c, k) PROVE LimiterInv'
  BY <1>3, <1>9 DEF PasswordAuth, PublicKeyAuth
<1>10. ASSUME NEW c \in Conns, Refuse(c) PROVE LimiterInv'
  BY <1>8, <1>10 DEF Refuse
<1> QED
  BY <1>2, <1>4, <1>5, <1>6, <1>7, <1>8, <1>9, <1>10, NextCases

\* The inductive invariant of the limiter holds throughout.
LEMMA LimiterInvariant == Spec => []LimiterInv
<1>1. Init => LimiterInv
  <2> SUFFICES ASSUME Init PROVE LimiterInv
    OBVIOUS
  <2>1. Num("verify") <= Cardinality(Conns) /\ Num("verify") \in Nat
    BY Points
  <2> QED
    BY <2>1, Points, LoginAssumption DEF Init, LimiterInv, Counted, Pending, Dropped
<1>2. TypeOK /\ LimiterInv /\ [Next]_vars => LimiterInv'
  BY LimiterStep
<1> QED
  BY <1>1, <1>2, TypeCorrect, PTL DEF Spec

\* However many connections race, an address fails at most the limit, once
\* more for each other connection and once more for each failed call.
THEOREM AttemptsAreBounded == Spec => []AttemptsBounded
<1>1. TypeOK /\ LimiterInv => AttemptsBounded
  BY Points, LoginAssumption DEF TypeOK, LimiterInv, Pending, AttemptsBounded
<1> QED
  BY <1>1, TypeCorrect, LimiterInvariant, PTL

\* An address at the limit has a counter that will be dropped, unless as many
\* calls to Redis failed as the limit has attempts.
THEOREM BlocksExpire == Spec => []BlockedExpires
<1>1. TypeOK /\ LimiterInv => BlockedExpires
  <2> SUFFICES ASSUME TypeOK, LimiterInv, ~UnderLimit, In("expire") = {}, ttl = Forever
               PROVE  faults >= rateLimitMax
    BY DEF BlockedExpires
  <2>1. Num("expire") = 0
    BY FS_EmptySet DEF Num
  <2> QED
    BY <2>1, LoginAssumption DEF TypeOK, LimiterInv, Dropped, UnderLimit
<1> QED
  BY <1>1, TypeCorrect, LimiterInvariant, PTL
-----------------------------------------------------------------------------
(* The keys                                                                *)

\* A session removes keys of its own account only.
RemovesOwn == \A s \in Sessions : Doing(s, "remove") => cmd[s].user = Owner[s]

LEMMA RemovesOwnStep ==
  ASSUME TypeOK, RemovesOwn, [Next]_vars
  PROVE  RemovesOwn'
<1>1. CASE UNCHANGED cmd
  BY <1>1 DEF RemovesOwn, Doing
<1>2. ASSUME NEW s \in Sessions, NEW c, Becomes(s, c), c # Nobody /\ c.op = "remove" => c.user = Owner[s]
      PROVE  RemovesOwn'
  BY <1>2 DEF Becomes, RemovesOwn, Doing, TypeOK
<1>3. ASSUME NEW s \in Sessions, NEW u \in Users, NEW k \in Keys, AddKey(s, u, k) PROVE RemovesOwn'
  BY <1>2, <1>3 DEF AddKey
<1>4. ASSUME NEW s \in Sessions, NEW u \in Users, NEW K \in SUBSET Keys, ImportKeys(s, u, K) PROVE RemovesOwn'
  BY <1>2, <1>4 DEF ImportKeys
<1>5. ASSUME NEW s \in Sessions, NEW k \in Keys, ImportNext(s, k) PROVE RemovesOwn'
  <2>1. cmd[s] = [op |-> "import", user |-> cmd[s].user, rest |-> cmd[s].rest]
    BY <1>5 DEF ImportNext, Doing, TypeOK, Command
  <2>2. PICK c : Becomes(s, c) /\ (c # Nobody => c.op \in {"add", "import"})
    <3>1. PICK rest :
            \/ Becomes(s, [op |-> "add", user |-> cmd[s].user, key |-> k, rest |-> rest])
            \/ Becomes(s, IF rest = {} THEN Nobody ELSE [cmd[s] EXCEPT !.rest = rest])
      BY <1>5 DEF ImportNext
    <3>2. [cmd[s] EXCEPT !.rest = rest].op = "import"
      BY <2>1
    <3>3. CASE Becomes(s, [op |-> "add", user |-> cmd[s].user, key |-> k, rest |-> rest])
      BY <3>3
    <3>4. CASE rest = {} /\ Becomes(s, Nobody)
      BY <3>4
    <3>5. CASE rest # {} /\ Becomes(s, [cmd[s] EXCEPT !.rest = rest])
      BY <3>2, <3>5, Zenon
    <3> QED
      BY <3>1, <3>3, <3>4, <3>5, Zenon
  <2> QED
    BY <1>2, <2>2
<1>6. ASSUME NEW s \in Sessions, NEW k \in Keys, RemoveKey(s, k) PROVE RemovesOwn'
  BY <1>2, <1>6 DEF RemoveKey
<1>7. ASSUME NEW s \in Sessions, CreateSSHKey(s) PROVE RemovesOwn'
  BY <1>2, <1>7 DEF CreateSSHKey, NextKey
<1>8. ASSUME NEW s \in Sessions, DeleteSSHKeyByFingerprint(s) PROVE RemovesOwn'
  BY <1>2, <1>8 DEF DeleteSSHKeyByFingerprint
<1>9. CASE ~Registering
  BY <1>1, <1>9, NextCases DEF vars, limiter, registry, Allow, Refuse, PasswordAuth, PublicKeyAuth,
     RecordLoginAttempt, Expire, Tick
<1> QED
  BY <1>3, <1>4, <1>5, <1>6, <1>7, <1>8, <1>9 DEF Registering

\* A registered key leaves its account only when a session of that account
\* removes it, whatever the others do.
THEOREM KeysKeepTheirOwner == Spec => KeyKeepsOwner
<1>1. Init => RemovesOwn
  BY DEF Init, RemovesOwn, Doing
<1>2. TypeOK /\ RemovesOwn /\ [Next]_vars => RemovesOwn'
  BY RemovesOwnStep
<1>3. TypeOK /\ RemovesOwn /\ [Next]_vars =>
        [\A k \in Keys : keys[k] # Nobody /\ keys'[k] # keys[k] =>
           /\ keys'[k] = Nobody
           /\ \E s \in Sessions : Doing(s, "remove") /\ Owner[s] = keys[k]]_vars
  <2> SUFFICES ASSUME TypeOK, RemovesOwn, [Next]_vars, NEW k \in Keys,
                      keys[k] # Nobody, keys'[k] # keys[k]
               PROVE  /\ keys'[k] = Nobody
                      /\ \E s \in Sessions : Doing(s, "remove") /\ Owner[s] = keys[k]
    OBVIOUS
  <2>1. CASE UNCHANGED keys
    BY <2>1
  <2>2. ASSUME NEW s \in Sessions, CreateSSHKey(s) PROVE FALSE
    <3>1. keys'[k] = keys[k]
      BY <2>2 DEF CreateSSHKey, TypeOK
    <3> QED
      BY <3>1
  <2>3. ASSUME NEW s \in Sessions, DeleteSSHKeyByFingerprint(s)
        PROVE  keys'[k] = Nobody /\ Doing(s, "remove") /\ Owner[s] = keys[k]
    <3>1. Doing(s, "remove") /\ cmd[s].user = Owner[s]
      BY <2>3 DEF DeleteSSHKeyByFingerprint, RemovesOwn
    <3>2. keys' = [keys EXCEPT ![cmd[s].key] = IF @ = cmd[s].user THEN Nobody ELSE @]
      BY <2>3 DEF DeleteSSHKeyByFingerprint
    <3> QED
      BY <3>1, <3>2 DEF TypeOK
  <2>4. CASE \/ \E s \in Sessions, u \in Users, j \in Keys : AddKey(s, u, j)
             \/ \E s \in Sessions, u \in Users, K \in SUBSET Keys : ImportKeys(s, u, K)
             \/ \E s \in Sessions, j \in Keys : ImportNext(s, j) \/ RemoveKey(s, j)
    BY <2>1, <2>4 DEF AddKey, ImportKeys, ImportNext, RemoveKey
  <2>5. CASE ~Registering
    BY <2>1, <2>5, NextCases DEF vars, limiter, registry, Allow, Refuse, PasswordAuth, PublicKeyAuth,
       RecordLoginAttempt, Expire, Tick
  <2> QED
    BY <2>2, <2>3, <2>4, <2>5 DEF Registering
<1> QED
  BY <1>1, <1>2, <1>3, TypeCorrect, PTL DEF Spec, KeyKeepsOwner
=============================================================================
