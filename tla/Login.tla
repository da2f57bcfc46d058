------------------------------- MODULE Login --------------------------------
(***************************************************************************)
(* WebAuthn ceremonies and the lockout (usermgmt/webauthn_service.go,      *)
(* webauthn_session.go, lockout.go), over the sessions they end in.        *)
(*                                                                         *)
(* A ceremony is a challenge that Begin minted; ceremony 0 stands for an   *)
(* answer no challenge accepts.  The browser may post an answer more than  *)
(* once.  The authenticator and the WebAuthn library are external: the     *)
(* device signs with the next count (always 0 if it does not count), and   *)
(* the library checks the challenge and advances a count that grew.        *)
(* A user has one credential and one address here, so the lockout, which   *)
(* the code keys by address, is keyed by user.                             *)
(***************************************************************************)
EXTENDS Sessions

CONSTANTS
  Counting,      \* the users whose device counts signatures
  MaxAttempts,   \* LockoutConfig.MaxAttempts
  LockFor,       \* LockoutConfig.Duration, in ticks
  MaxCeremonies, \* bound
  MaxTime        \* bound

ASSUME LoginAssumption ==
  Counting \subseteq Users /\ MaxAttempts \in Nat \ {0} /\ {LockFor, MaxCeremonies, MaxTime} \subseteq Nat

VARIABLES
  now,
  count,                  \* signature counter of the stored credential, None: no credential
  attempts, attemptAt, lockedAt,  \* AccountLockout
  store,                  \* webauthnSessionStore: the ceremony whose challenge it holds, or 0
  ceremonies              \* the ceremonies begun, with the count of their answer

lockout == <<attempts, attemptAt, lockedAt>>
login   == <<now, count, lockout, store, ceremonies>>
base    == <<model, sessions, audit, history, calls>>
vars    == <<login, base, req>>

Kinds == {"reg:", "login:"}
Ceremony == [kind : Kinds, user : Users, count : Nat \cup {None}]

\* Where a request may be, and what it carries.
Phases == {"idle", "unlock", "begin", "verify", "drop", "reset", "attest", "add",
           "create", "started", "delete", "deleting", "dropping", "ended",
           "user", "serve", "wait", "revoke", "revoked"}
Request == [at : Phases, user : Users \cup {None}, by : Admins \cup {None}, token : Tokens \cup {None},
            late : BOOLEAN, replayed : BOOLEAN, gone : SUBSET Tokens, ch : Nat, held : Nat, seen : Nat \cup {None}]

Ids == 1 .. Len(ceremonies)
Signed == {c \in Ids : ceremonies[c].count # None}
\* Mutant: one key for both ceremonies of a user.
KeyOfUser(kind, u) == <<"login:", u>>

Key(kind, u) == <<kind, u>>

(***************************************************************************)
(* AccountLockout.                                                         *)
(***************************************************************************)
Over(u) == lockedAt[u] # None /\ now - lockedAt[u] > LockFor
Stale(u) == attemptAt[u] # None /\ now - attemptAt[u] > LockFor

Forget(U) ==
  /\ attempts'  = [u \in Users |-> IF u \in U THEN 0 ELSE attempts[u]]
  /\ attemptAt' = [u \in Users |-> IF u \in U THEN None ELSE attemptAt[u]]
  /\ lockedAt'  = [u \in Users |-> IF u \in U THEN None ELSE lockedAt[u]]

\* Mutants: a failure renews the lock; a failure counts while the lock holds.
RecordFailureRenews(u) ==
  LET n == IF Over(u) THEN 1 ELSE attempts[u] + 1 IN
  /\ attempts' = [attempts EXCEPT ![u] = IF n > MaxAttempts THEN MaxAttempts ELSE n]
  /\ attemptAt' = [attemptAt EXCEPT ![u] = now]
  /\ lockedAt' = [lockedAt EXCEPT ![u] = IF n >= MaxAttempts THEN now ELSE None]

RecordFailureCounts(u) ==
  LET n == IF Over(u) THEN 1 ELSE attempts[u] + 1 IN
  /\ attempts' = [attempts EXCEPT ![u] = n]
  /\ attemptAt' = [attemptAt EXCEPT ![u] = now]
  /\ lockedAt' = [lockedAt EXCEPT ![u] = IF lockedAt[u] # None /\ ~Over(u) THEN @
                                         ELSE IF n >= MaxAttempts THEN now ELSE None]

\* A lock holds from the failure that set it; after it the count restarts.
RecordFailure(u) ==
  LET n == IF Over(u) THEN 1 ELSE attempts[u] + 1 IN
  IF lockedAt[u] # None /\ ~Over(u)
  THEN UNCHANGED lockout
  ELSE /\ attempts' = [attempts EXCEPT ![u] = n]
       /\ attemptAt' = [attemptAt EXCEPT ![u] = now]
       /\ lockedAt' = [lockedAt EXCEPT ![u] = IF n >= MaxAttempts THEN now ELSE None]

\* Mutant: an expired lock leaves its failures behind.
EvictLocks ==
  /\ \E u \in Users : Over(u)
  /\ lockedAt' = [u \in Users |-> IF Over(u) THEN None ELSE lockedAt[u]]
  /\ UNCHANGED <<now, count, attempts, attemptAt, store, ceremonies, base, req>>

EvictStale ==
  LET U == {u \in Users : Over(u) \/ (lockedAt[u] = None /\ Stale(u))} IN
  /\ U # {} /\ Forget(U)
  /\ UNCHANGED <<now, count, store, ceremonies, base, req>>

Called == calls < MaxCalls /\ calls' = calls + 1

Tick ==
  /\ Called /\ now < MaxTime /\ now' = now + 1
  /\ UNCHANGED <<count, lockout, store, ceremonies, model, sessions, audit, history, req>>

(***************************************************************************)
(* Beginning a ceremony.                                                   *)
(***************************************************************************)
\* The counts the read model may show for the credential of a user it knows: a
\* replay applies the registration, the credential and its uses again.
Shown(u) ==
  IF host = "live" THEN {count[u]} ELSE {None} \cup UNION {0 .. n : n \in {count[u]} \ {None}}

Begin(kind, u) ==
  /\ Called /\ Len(ceremonies) < MaxCeremonies
  /\ ceremonies' = Append(ceremonies, [kind |-> kind, user |-> u, count |-> None])
  /\ store' = [store EXCEPT ![Key(kind, u)] = Len(ceremonies')]

BeginRegistration(u) ==
  /\ u \in found /\ Begin("reg:", u)
  /\ UNCHANGED <<now, count, lockout, model, sessions, audit, history, req>>

\* IsLocked reads under the read lock, and clears an expired lock under the
\* write lock if it has still expired then.
IsLocked(s, u) ==
  /\ lockedAt[u] = None \/ Over(u)
  /\ Open(s, [NoReq EXCEPT !.at = IF Over(u) THEN "unlock" ELSE "begin", !.user = u])
  /\ UNCHANGED <<login, base>>

\* Mutant: no second look at the lock.
UnlockUnseen(s) ==
  /\ At(s, "unlock")
  /\ Forget({req[s].user})
  /\ Step(s, "begin")
  /\ UNCHANGED <<now, count, store, ceremonies, base>>

Unlock(s) ==
  LET u == req[s].user IN
  /\ At(s, "unlock")
  /\ IF Over(u) THEN Forget({u}) ELSE UNCHANGED lockout
  /\ Step(s, "begin")
  /\ UNCHANGED <<now, count, store, ceremonies, base>>

BeginLogin(s) ==
  LET u == req[s].user IN
  /\ At(s, "begin")
  /\ \/ u \in found /\ Shown(u) # {None} /\ Begin("login:", u)
     \/ (u \notin found \/ None \in Shown(u)) /\ UNCHANGED <<store, ceremonies, calls>>
  /\ Done(s)
  /\ UNCHANGED <<now, count, lockout, model, sessions, audit, history>>

(***************************************************************************)
(* The device and the challenge store.                                     *)
(***************************************************************************)
\* The user's device answers the challenge.
Sign(c) ==
  LET u == ceremonies[c].user
      n == IF u \in Counting THEN 1 + Cardinality({d \in Signed : ceremonies[d].user = u}) ELSE 0
  IN  /\ ceremonies[c].count = None
      /\ ceremonies' = [ceremonies EXCEPT ![c].count = n]
      /\ UNCHANGED <<now, count, lockout, store, base, req>>

\* The lifetime of a challenge passes: Get and EvictExpired remove the entry,
\* and neither returns it.
ExpireChallenge(k) ==
  /\ store[k] # 0
  /\ store' = [store EXCEPT ![k] = 0]
  /\ UNCHANGED <<now, count, lockout, ceremonies, base, req>>

(***************************************************************************)
(* Finishing a ceremony: the user and the challenge are read, the answer   *)
(* is checked against them, and what follows runs step by step.            *)
(***************************************************************************)
Finish(s, kind, u, c, p) ==
  LET k == Key(kind, u) IN
  /\ u \in found
  /\ c = 0 \/ (c \in Signed /\ ceremonies[c].user = u /\ ceremonies[c].kind = kind)
  /\ store[k] # 0
  /\ \E n \in Shown(u) :
       Open(s, [NoReq EXCEPT !.at = p, !.user = u, !.ch = c, !.held = store[k], !.seen = n])
  /\ UNCHANGED <<login, base>>

Accepted(s) == req[s].ch # 0 /\ req[s].held = req[s].ch

\* The library keeps the count it was given when the answer's did not grow.
Reported(s) ==
  LET n == ceremonies[req[s].ch].count IN IF n > req[s].seen THEN n ELSE req[s].seen

\* Mutant: an equal count is no regression.
CounterSmaller(u, n) == n < count[u]

CounterRegressed(u, n) == n <= count[u] /\ (n # 0 \/ count[u] # 0)

Refuse(s) ==
  /\ At(s, "verify") /\ (~Accepted(s) \/ req[s].seen = None)
  /\ RecordFailure(req[s].user) /\ Done(s)
  /\ UNCHANGED <<now, count, store, ceremonies, base>>

\* recordCredentialUse: the decider refuses a count that did not advance.
RecordUse(s) ==
  LET u == req[s].user IN
  /\ At(s, "verify") /\ Accepted(s) /\ req[s].seen # None
  /\ IF u \notin active \/ CounterRegressed(u, Reported(s))
     THEN count' = count /\ Done(s)
     ELSE count' = [count EXCEPT ![u] = Reported(s)] /\ Step(s, "drop")
  /\ UNCHANGED <<now, lockout, store, ceremonies, base>>

DropChallenge(s) ==
  /\ At(s, "drop")
  /\ store' = [store EXCEPT ![Key("login:", req[s].user)] = 0]
  /\ Step(s, "reset")
  /\ UNCHANGED <<now, count, lockout, ceremonies, base>>

Reset(s) ==
  /\ At(s, "reset") /\ Forget({req[s].user}) /\ Step(s, "create")
  /\ UNCHANGED <<now, count, store, ceremonies, base>>

\* FinishRegistration: the challenge is dropped, then the credential added.
Register(s) ==
  /\ At(s, "attest")
  /\ IF Accepted(s)
     THEN store' = [store EXCEPT ![Key("reg:", req[s].user)] = 0] /\ Step(s, "add")
     ELSE store' = store /\ Done(s)
  /\ UNCHANGED <<now, count, lockout, ceremonies, base>>

AddCredential(s) ==
  LET u == req[s].user IN
  /\ At(s, "add") /\ Done(s)
  /\ count' = IF u \in active /\ count[u] = None
              THEN [count EXCEPT ![u] = ceremonies[req[s].ch].count] ELSE count
  /\ UNCHANGED <<now, lockout, store, ceremonies, base>>

(***************************************************************************)
(* The process ends: the lockout and the challenges were in its memory.    *)
(***************************************************************************)
Restart ==
  /\ SessionRestart /\ Forget(Users)
  /\ store' = [k \in Kinds \X Users |-> 0]
  /\ UNCHANGED <<now, count, ceremonies>>

Init ==
  /\ SessionInit
  /\ now = 0 /\ ceremonies = <<>>
  /\ count = [u \in Users |-> None]
  /\ attempts = [u \in Users |-> 0]
  /\ attemptAt = [u \in Users |-> None] /\ lockedAt = [u \in Users |-> None]
  /\ store = [k \in Kinds \X Users |-> 0]

LoginStep(s) ==
  \/ Unlock(s) \/ BeginLogin(s)
  \/ Refuse(s) \/ RecordUse(s) \/ DropChallenge(s) \/ Reset(s)
  \/ Register(s) \/ AddCredential(s)
  \/ \E u \in Users :
       \/ IsLocked(s, u)
       \/ \E c \in 0 .. Len(ceremonies) :
            Finish(s, "login:", u, c, "verify") \/ Finish(s, "reg:", u, c, "attest")

Next ==
  \/ Tick \/ EvictStale
  \/ \E k \in Kinds \X Users : ExpireChallenge(k)
  \/ \E u \in Users : BeginRegistration(u)
  \/ \E c \in Ids : Sign(c)
  \/ \E s \in Slots : LoginStep(s)
  \/ Called /\ Restart
  \/ /\ Called /\ (Rebuild \/ \E s \in Slots : SessionCall(s))
     /\ UNCHANGED login
  \/ /\ \/ Drained \/ Sweep
        \/ \E s \in Slots : SessionStep(s)
        \/ \E t \in Tokens : Expire(t)
        \/ \E e \in Events : Apply(e)
     /\ UNCHANGED <<login, calls>>

Spec == Init /\ [][Next]_vars

(***************************************************************************)
(* Properties.                                                             *)
(***************************************************************************)
TypeOK ==
  /\ {active, found, revoked, left} \subseteq SUBSET Users
  /\ ahead \subseteq Events /\ host \in {"live", "replaying"}
  /\ sessions \in [Tokens -> Session \cup {None}] /\ {ended, given, silent} \subseteq SUBSET Tokens
  /\ now \in Nat /\ count \in [Users -> Nat \cup {None}]
  /\ attempts \in [Users -> 0 .. MaxAttempts]
  /\ {attemptAt, lockedAt} \subseteq [Users -> (0 .. now) \cup {None}]
  /\ store \in [Kinds \X Users -> 0 .. Len(ceremonies)]
  /\ ceremonies \in Seq(Ceremony)
  /\ req \in [Slots -> Request] /\ calls \in 0 .. MaxCalls

\* recordCredentialUse: an answer of a device that counts logs in once, however
\* often it is posted and whatever else is in flight.
AnswerLogsInOnce ==
  \A t1, t2 \in Made :
    t1 # t2 /\ sessions[t1].via # 0 /\ sessions[t1].user \in Counting
      => sessions[t1].via # sessions[t2].via

\* registrationSessionPrefix, loginSessionPrefix: what a ceremony finishes
\* against was begun for its user and its kind.
OwnChallenge ==
  \A kind \in Kinds, u \in Users :
    LET e == store[Key(kind, u)] IN
    e # 0 => ceremonies[e].kind = kind /\ ceremonies[e].user = u

\* The maps of AccountLockout agree: locked is spent, and what was forgotten was
\* forgotten whole, so that no lock comes of fewer failures than configured.
LockedIffSpent ==
  \A u \in Users : /\ (lockedAt[u] # None) = (attempts[u] = MaxAttempts)
                    /\ (attemptAt[u] # None) = (attempts[u] # 0)

\* "A lock expires Duration after the ORIGINAL lock" (lockout.go:99): only a login of the user
\* or a restart ends it earlier, and nothing renews it.
LockEndsOnTime ==
  [][\A u \in Users :
       lockedAt[u] # None /\ ~Over(u) =>
         \/ lockedAt'[u] = lockedAt[u]
         \/ Restart
         \/ lockedAt'[u] = None /\ \E s \in Slots : /\ At(s, "reset") /\ req[s].user = u
                                                    /\ req'[s].at = "create"]_vars
=============================================================================
