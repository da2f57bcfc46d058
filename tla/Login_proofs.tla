---------------------------- MODULE Login_proofs ----------------------------
(***************************************************************************)
(* Proofs about Login, for every set of users, tokens and requests, every  *)
(* lockout configuration and every bound.                                  *)
(***************************************************************************)
EXTENDS Login, TLAPS, FiniteSetTheorems

(***************************************************************************)
(* The lockout.                                                            *)
(***************************************************************************)
LockTyped ==
  /\ now \in Nat
  /\ attempts \in [Users -> 0 .. MaxAttempts]
  /\ attemptAt \in [Users -> (0 .. now) \cup {None}]
  /\ lockedAt \in [Users -> (0 .. now) \cup {None}]

LockSound == LockTyped /\ LockedIffSpent

\* The steps of the projection host.
ModelStep == (Rebuild \/ Drained \/ \E e \in Events : Apply(e)) /\ UNCHANGED login

\* Every step keeps the three maps of the lockout in agreement.
LEMMA LockSoundStep == LockSound /\ [Next]_vars => LockSound'
<1> SUFFICES ASSUME LockSound, [Next]_vars PROVE LockSound'
  OBVIOUS
<1> USE LoginAssumption, NoneAssumption DEF vars, login, lockout, model, base, audit, history, LockSound, LockTyped, LockedIffSpent
<1>1. CASE UNCHANGED vars
  BY <1>1 DEF vars, base, login, lockout, model, audit, history
<1>2. CASE Tick
  BY <1>2 DEF Tick
<1>3. CASE EvictStale
  BY <1>3 DEF EvictStale, Forget
<1>4. ASSUME NEW k \in Kinds \X Users, ExpireChallenge(k) PROVE LockSound'
  BY <1>4 DEF ExpireChallenge
<1>5. ASSUME NEW u \in Users, BeginRegistration(u) PROVE LockSound'
  BY <1>5 DEF BeginRegistration
<1>6. ASSUME NEW c \in Ids, Sign(c) PROVE LockSound'
  BY <1>6 DEF Sign
<1>9. ASSUME NEW s \in Slots, LoginStep(s) PROVE LockSound'
  <2>1. CASE Unlock(s)
    BY <2>1 DEF Unlock, Forget
  <2>2. CASE BeginLogin(s)
    BY <2>2 DEF BeginLogin
  <2>3. CASE Refuse(s)
    BY <2>3 DEF Refuse, RecordFailure, Over
  <2>4. CASE RecordUse(s)
    BY <2>4 DEF RecordUse
  <2>5. CASE DropChallenge(s)
    BY <2>5 DEF DropChallenge
  <2>6. CASE Reset(s)
    BY <2>6 DEF Reset, Forget
  <2>7. CASE Register(s)
    BY <2>7 DEF Register
  <2>8. CASE AddCredential(s)
    BY <2>8 DEF AddCredential
  <2>9. ASSUME NEW u \in Users, IsLocked(s, u) PROVE LockSound'
    BY <2>9 DEF IsLocked
  <2>10. ASSUME NEW u \in Users, NEW c \in 0 .. Len(ceremonies), Finish(s, "login:", u, c, "verify") PROVE LockSound'
    BY <2>10 DEF Finish
  <2>11. ASSUME NEW u \in Users, NEW c \in 0 .. Len(ceremonies), Finish(s, "reg:", u, c, "attest") PROVE LockSound'
    BY <2>11 DEF Finish
  <2> QED BY <1>9, <2>1, <2>2, <2>3, <2>4, <2>5, <2>6, <2>7, <2>8, <2>9,
    <2>10, <2>11 DEF LoginStep
<1>10. CASE UNCHANGED login
  BY <1>10
<1>11. CASE Restart
  BY <1>11 DEF Restart, Forget
<1> QED BY <1>1, <1>2, <1>3, <1>4, <1>5, <1>6, <1>9, <1>10, <1>11
  DEF Next, ModelStep

(***************************************************************************)
(* Types, and what a request carries at each of its steps.                 *)
(***************************************************************************)
Ending == {"delete", "deleting", "dropping", "ended"}

RowsTyped ==
  /\ active \subseteq Users /\ found \subseteq Users /\ ahead \subseteq Events
  /\ host \in {"live", "replaying"} /\ revoked \subseteq Users /\ left \subseteq Users
  /\ sessions \in [Tokens -> Session \cup {None}]
  /\ given \subseteq Made /\ ended \subseteq Made /\ silent \subseteq Tokens

CeremoniesTyped ==
  /\ count \in [Users -> Nat \cup {None}]
  /\ store \in [Kinds \X Users -> Nat]
  /\ \A k \in Kinds \X Users : store[k] <= Len(ceremonies)
  /\ ceremonies \in Seq(Ceremony)

\* r: a request; G: the tokens given; M: the sessions made; n: the ceremonies.
Carried(r, G, M, n) ==
  /\ r.at \notin Ending \cup {"idle"} => r.user \in Users
  /\ r.at \in Ending => r.token \in G
  /\ r.at = "started" => r.token \in M
  /\ r.ch <= n
  /\ r.at = "add" => r.ch # 0
  /\ r.at \notin {"ended", "revoked"} => r.gone = {}

RequestsTyped ==
  /\ req \in [Slots -> Request]
  /\ \A s \in Slots : Carried(req[s], given, Made, Len(ceremonies))

Typed == RowsTyped /\ CeremoniesTyped /\ RequestsTyped

\* Request s goes on to p and keeps what it carries.
Kept(s, p) ==
  /\ req'[s].at = p
  /\ req'[s].user = req[s].user /\ req'[s].by = req[s].by /\ req'[s].token = req[s].token
  /\ req'[s].late = req[s].late /\ req'[s].replayed = req[s].replayed /\ req'[s].gone = req[s].gone
  /\ req'[s].ch = req[s].ch /\ req'[s].held = req[s].held /\ req'[s].seen = req[s].seen

\* A call starts in a free slot and leaves the other requests alone.
LEMMA OpenMoves ==
  ASSUME req \in [Slots -> Request], NEW s \in Slots, NEW r \in Request, Open(s, r)
  PROVE  /\ req' \in [Slots -> Request] /\ req'[s] = r
         /\ req[s].at = "idle" /\ \A q \in Slots \ {s} : req'[q] = req[q]
BY DEF Open, At

\* A request that goes on changes only where it is.
LEMMA StepMoves ==
  ASSUME req \in [Slots -> Request], NEW s \in Slots, NEW p \in Phases, Step(s, p)
  PROVE  /\ req' \in [Slots -> Request] /\ Kept(s, p)
         /\ \A q \in Slots \ {s} : req'[q] = req[q]
<1>1. req[s] \in Request /\ req' = [req EXCEPT ![s] = [req[s] EXCEPT !.at = p]]
  BY DEF Step
<1>2. [req[s] EXCEPT !.at = p] \in Request
  BY <1>1 DEF Request
<1> QED BY <1>1, <1>2 DEF Kept, Request

\* One that asks for its user, or removes rows, changes one thing more.
LEMMA FoundMoves ==
  ASSUME req \in [Slots -> Request], NEW s \in Slots, NEW b \in BOOLEAN,
         req' = [req EXCEPT ![s].at = "serve", ![s].replayed = b]
  PROVE  /\ req' \in [Slots -> Request] /\ \A q \in Slots \ {s} : req'[q] = req[q]
         /\ req'[s] = [req[s] EXCEPT !.at = "serve", !.replayed = b]
<1>1. req[s] \in Request /\ req' = [req EXCEPT ![s] = [req[s] EXCEPT !.at = "serve", !.replayed = b]]
  OBVIOUS
<1>2. [req[s] EXCEPT !.at = "serve", !.replayed = b] \in Request
  BY <1>1 DEF Request, Phases
<1> QED BY <1>1, <1>2

LEMMA GoneMoves ==
  ASSUME req \in [Slots -> Request], NEW s \in Slots, NEW p \in Phases, NEW T \in SUBSET Tokens,
         req' = [req EXCEPT ![s].at = p, ![s].gone = T]
  PROVE  /\ req' \in [Slots -> Request] /\ \A q \in Slots \ {s} : req'[q] = req[q]
         /\ req'[s] = [req[s] EXCEPT !.at = p, !.gone = T]
<1>1. req[s] \in Request /\ req' = [req EXCEPT ![s] = [req[s] EXCEPT !.at = p, !.gone = T]]
  OBVIOUS
<1>2. [req[s] EXCEPT !.at = p, !.gone = T] \in Request
  BY <1>1 DEF Request
<1> QED BY <1>1, <1>2

\* A request that ends leaves its slot free.
LEMMA DoneMoves ==
  ASSUME req \in [Slots -> Request], NEW s \in Slots, Done(s)
  PROVE  /\ req' \in [Slots -> Request] /\ req'[s] = NoReq
         /\ \A q \in Slots \ {s} : req'[q] = req[q]
<1>1. NoReq \in Request
  BY DEF NoReq, Request, Phases
<1> QED BY <1>1 DEF Done

\* No session made is forgotten and no token given is taken back; a row keeps
\* what it says and does not come back, and a new one says whether it is late.
Grows ==
  /\ given \subseteq given' /\ Made \subseteq Made'
  /\ \A t \in Made : /\ sessions'[t].user = sessions[t].user /\ sessions'[t].via = sessions[t].via
                     /\ sessions'[t].late = sessions[t].late
                     /\ sessions[t].expired => sessions'[t].expired
                     /\ sessions'[t].stored => sessions[t].stored
  /\ \A t \in Made' \ Made : /\ ~sessions'[t].late => sessions'[t].user \in active
                             /\ sessions'[t].stored

\* Removing rows forgets no session and changes only which are stored.
LEMMA RemovedTyped ==
  ASSUME sessions \in [Tokens -> Session \cup {None}], NEW T \in SUBSET Made, sessions' = Removed(T)
  PROVE  /\ sessions' \in [Tokens -> Session \cup {None}] /\ Made' = Made
         /\ \A t \in Made : /\ sessions'[t].user = sessions[t].user
                            /\ sessions'[t].via = sessions[t].via
                            /\ sessions'[t].late = sessions[t].late
                            /\ sessions'[t].expired = sessions[t].expired
                            /\ sessions'[t].stored <=> (sessions[t].stored /\ t \notin T)
<1> USE NoneAssumption DEF Made
<1>1. ASSUME NEW t \in Made
      PROVE  LET v == [sessions[t] EXCEPT !.stored = FALSE]
             IN  /\ v \in Session /\ v # None /\ ~v.stored
                 /\ v.user = sessions[t].user /\ v.via = sessions[t].via
                 /\ v.late = sessions[t].late /\ v.expired = sessions[t].expired
  BY DEF Session
<1>2. \A t \in Tokens : sessions'[t] = IF t \in T THEN [sessions[t] EXCEPT !.stored = FALSE] ELSE sessions[t]
  BY DEF Removed
<1>3. sessions' \in [Tokens -> Session \cup {None}]
  BY <1>1, <1>2 DEF Removed
<1>4. Made' = Made
  BY <1>1, <1>2
<1>5. \A t \in Made : sessions[t].stored \in BOOLEAN
  BY DEF Session
<1> QED BY <1>1, <1>2, <1>3, <1>4, <1>5

\* Sessions, journal and users keep their types; nothing made or given is undone.
LEMMA RowsStep == Typed /\ [Next]_vars => RowsTyped' /\ Grows
<1> SUFFICES ASSUME Typed, [Next]_vars PROVE RowsTyped' /\ Grows
  OBVIOUS
<1> USE SessionsAssumption, NoneAssumption DEF login, lockout, model, base, audit, history, Typed, RowsTyped, Grows, Made
<1>1. CASE UNCHANGED vars
  BY <1>1 DEF vars, base, login, lockout, model, audit, history
<1>2. CASE Tick
  BY <1>2 DEF Tick
<1>3. CASE EvictStale
  BY <1>3 DEF EvictStale
<1>4. ASSUME NEW k \in Kinds \X Users, ExpireChallenge(k) PROVE RowsTyped' /\ Grows
  BY <1>4 DEF ExpireChallenge
<1>5. ASSUME NEW u \in Users, BeginRegistration(u) PROVE RowsTyped' /\ Grows
  BY <1>5 DEF BeginRegistration
<1>6. ASSUME NEW c \in Ids, Sign(c) PROVE RowsTyped' /\ Grows
  BY <1>6 DEF Sign
<1>7. CASE Sweep /\ UNCHANGED <<login, calls>>
  BY <1>7, RemovedTyped DEF Sweep, Stored
<1>8. ASSUME NEW t \in Tokens, Expire(t) /\ UNCHANGED <<login, calls>> PROVE RowsTyped' /\ Grows
  <2>2. sessions[t] \in Session
    BY <1>8 DEF Expire, Stored
  <2> DEFINE v == [sessions[t] EXCEPT !.expired = TRUE]
  <2>6. v \in Session
    BY <2>2 DEF Session
  <2>7. /\ v.user = sessions[t].user /\ v.via = sessions[t].via
        /\ v.late = sessions[t].late /\ v.expired = TRUE
    BY <2>2 DEF Session
  <2>1. /\ v \in Session /\ v # None /\ v.user = sessions[t].user /\ v.via = sessions[t].via
        /\ v.late = sessions[t].late /\ v.expired = TRUE
    BY <2>6, <2>7
  <2>3. /\ sessions' = [sessions EXCEPT ![t] = v] /\ UNCHANGED <<model, audit, history>>
        /\ t \in Made /\ sessions[t].stored
    BY <1>8 DEF Expire, Stored
  <2> HIDE DEF v
  <2>4. sessions' \in [Tokens -> Session \cup {None}] /\ Made' = Made
    BY <2>1, <2>3 DEF Made
  <2>5. ASSUME NEW x \in Made
        PROVE  /\ sessions'[x].user = sessions[x].user /\ sessions'[x].via = sessions[x].via
               /\ sessions'[x].late = sessions[x].late
               /\ sessions[x].expired => sessions'[x].expired
               /\ sessions'[x].stored => sessions[x].stored
    <3>1. CASE x = t
      BY <2>1, <2>3, <3>1
    <3>2. CASE x # t
      BY <2>3, <3>2
    <3> QED BY <3>1, <3>2
  <2> QED BY <2>3, <2>4, <2>5
<1>9. ASSUME NEW s \in Slots, LoginStep(s) PROVE RowsTyped' /\ Grows
  <2>1. CASE Unlock(s)
    BY <2>1 DEF Unlock
  <2>2. CASE BeginLogin(s)
    BY <2>2 DEF BeginLogin
  <2>3. CASE Refuse(s)
    BY <2>3 DEF Refuse
  <2>4. CASE RecordUse(s)
    BY <2>4 DEF RecordUse
  <2>5. CASE DropChallenge(s)
    BY <2>5 DEF DropChallenge
  <2>6. CASE Reset(s)
    BY <2>6 DEF Reset
  <2>7. CASE Register(s)
    BY <2>7 DEF Register
  <2>8. CASE AddCredential(s)
    BY <2>8 DEF AddCredential
  <2>9. ASSUME NEW u \in Users, IsLocked(s, u) PROVE RowsTyped' /\ Grows
    BY <2>9 DEF IsLocked
  <2>10. ASSUME NEW u \in Users, NEW c \in 0 .. Len(ceremonies), Finish(s, "login:", u, c, "verify") PROVE RowsTyped' /\ Grows
    BY <2>10 DEF Finish
  <2>11. ASSUME NEW u \in Users, NEW c \in 0 .. Len(ceremonies), Finish(s, "reg:", u, c, "attest") PROVE RowsTyped' /\ Grows
    BY <2>11 DEF Finish
  <2> QED BY <1>9, <2>1, <2>2, <2>3, <2>4, <2>5, <2>6, <2>7, <2>8, <2>9,
    <2>10, <2>11 DEF LoginStep
<1>10. ASSUME NEW s \in Slots, SessionCall(s) /\ UNCHANGED login PROVE RowsTyped' /\ Grows
  <2> USE <1>10
  <2>1. ASSUME NEW t \in Tokens, Authenticate(s, t) PROVE RowsTyped' /\ Grows
    BY <2>1 DEF Authenticate
  <2>2. ASSUME NEW t \in Tokens, Logout(s, t) PROVE RowsTyped' /\ Grows
    BY <2>2 DEF Logout
  <2>3. ASSUME NEW t \in Tokens, EndImpersonation(s, t) PROVE RowsTyped' /\ Grows
    BY <2>3 DEF EndImpersonation
  <2>4. ASSUME NEW u \in Users, DeleteUser(s, u) PROVE RowsTyped' /\ Grows
    BY <2>4 DEF DeleteUser, Events
  <2>5. ASSUME NEW u \in Users, NEW a \in Admins, BeginImpersonation(s, a, u) PROVE RowsTyped' /\ Grows
    BY <2>5 DEF BeginImpersonation
  <2>6. ASSUME NEW u \in Users, SignIn(s, u) PROVE RowsTyped' /\ Grows
    BY <2>6 DEF SignIn
  <2> QED BY <1>10, <2>1, <2>2, <2>3, <2>4, <2>5, <2>6 DEF SessionCall
<1>11. ASSUME NEW s \in Slots, SessionStep(s) /\ UNCHANGED <<login, calls>> PROVE RowsTyped' /\ Grows
  <2> USE <1>11
  <2>1. CASE Create(s)
    <3>1. req[s] \in Request /\ req[s].user \in Users
      BY <2>1 DEF Create, RequestsTyped, Carried, At, Ending
    <3>2. ASSUME NEW t \in Tokens \ Made,
                 sessions' = [sessions EXCEPT ![t] =
                   [user |-> req[s].user, by |-> req[s].by, via |-> req[s].ch,
                    late |-> req[s].user \notin active, stored |-> TRUE, expired |-> FALSE]]
          PROVE  RowsTyped' /\ Grows
      <4> DEFINE l == req[s].user \notin active
                 v == [user |-> req[s].user, by |-> req[s].by, via |-> req[s].ch,
                       late |-> l, stored |-> TRUE, expired |-> FALSE]
      <4>2. sessions' = [sessions EXCEPT ![t] = v] /\ UNCHANGED <<model, audit, history>>
        BY <2>1, <3>2 DEF Create
      <4>3. l \in BOOLEAN /\ (~l => req[s].user \in active)
        OBVIOUS
      <4> HIDE DEF l
      <4>4. v \in Session /\ v.late = l /\ v.user = req[s].user /\ v.stored = TRUE
        BY <3>1, <4>3 DEF Session, Request
      <4>5. v # None
        BY <4>4
      <4>1. v \in Session /\ v # None /\ (~v.late => v.user \in active) /\ v.stored
        BY <4>3, <4>4, <4>5, Zenon
      <4> HIDE DEF v
      <4> QED BY <4>1, <4>2 DEF Made
    <3> QED BY <2>1, <3>2 DEF Create
  <2>2. CASE Started(s)
    BY <2>2 DEF Started, RequestsTyped, Carried, At, Made
  <2>3. CASE Snapshot(s)
    BY <2>3 DEF Snapshot
  <2>4. CASE Drop(s)
    BY <2>4, RemovedTyped DEF Drop, RequestsTyped, Carried, At, Ending
  <2>5. CASE Delete(s)
    BY <2>5, RemovedTyped DEF Delete, RequestsTyped, Carried, At, Ending
  <2>6. CASE Ended(s)
    BY <2>6 DEF Ended, RequestsTyped, Carried, At, Ending, Request
  <2>7. CASE FindUser(s)
    BY <2>7 DEF FindUser
  <2>8. CASE Serve(s)
    BY <2>8 DEF Serve
  <2>9. CASE Revoke(s)
    BY <2>9, RemovedTyped DEF Revoke, Of, Stored, RequestsTyped, Carried, At,
      Ending
  <2>10. CASE Revoked(s)
    BY <2>10 DEF Revoked, RequestsTyped, Carried, At, Ending, Request
  <2>11. CASE Dispatched(s)
    BY <2>11 DEF Dispatched
  <2> QED BY <1>11, <2>1, <2>2, <2>3, <2>4, <2>5, <2>6, <2>7, <2>8, <2>9,
    <2>10, <2>11 DEF SessionStep
<1>12. CASE Restart
  BY <1>12 DEF Restart, SessionRestart, Replay, Events, RequestsTyped, Request
<1>13. CASE ModelStep
  BY <1>13 DEF ModelStep, Rebuild, Replay, Drained, Apply, Events
<1> QED BY <1>1, <1>2, <1>3, <1>4, <1>5, <1>6, <1>7, <1>8, <1>9, <1>10, <1>11, <1>12, <1>13
  DEF Next, ModelStep

\* Ceremonies are only added, and an answer once signed stays what it is.
Lasts ==
  /\ Len(ceremonies) <= Len(ceremonies')
  /\ \A c \in Ids : /\ ceremonies'[c].kind = ceremonies[c].kind
                    /\ ceremonies'[c].user = ceremonies[c].user
                    /\ ceremonies[c].count # None => ceremonies'[c].count = ceremonies[c].count

\* A ceremony begun is added at the end, and the store holds it.
LEMMA BeginTyped ==
  ASSUME CeremoniesTyped, NEW kind \in Kinds, NEW u \in Users, Begin(kind, u)
  PROVE  /\ ceremonies' \in Seq(Ceremony) /\ Lasts
         /\ store' \in [Kinds \X Users -> Nat] /\ \A k \in Kinds \X Users : store'[k] <= Len(ceremonies')
         /\ Len(ceremonies') = Len(ceremonies) + 1
         /\ ceremonies'[Len(ceremonies')] = [kind |-> kind, user |-> u, count |-> None]
         /\ store' = [store EXCEPT ![<<kind, u>>] = Len(ceremonies')]
<1> DEFINE e == [kind |-> kind, user |-> u, count |-> None]
<1>1. e \in Ceremony
  BY DEF Ceremony
<1>2. ceremonies' = Append(ceremonies, e) /\ ceremonies \in Seq(Ceremony)
  BY DEF Begin, CeremoniesTyped
<1> HIDE DEF e
<1>3. /\ ceremonies' \in Seq(Ceremony) /\ Len(ceremonies') = Len(ceremonies) + 1
      /\ ceremonies'[Len(ceremonies')] = e
      /\ \A c \in 1 .. Len(ceremonies) : ceremonies'[c] = ceremonies[c]
  BY <1>1, <1>2
<1>4. store' = [store EXCEPT ![<<kind, u>>] = Len(ceremonies')]
  BY DEF Begin, Key
<1>5. /\ store' \in [Kinds \X Users -> Nat]
      /\ \A k \in Kinds \X Users : store'[k] <= Len(ceremonies')
  BY <1>2, <1>3, <1>4 DEF CeremoniesTyped
<1> QED BY <1>2, <1>3, <1>4, <1>5 DEF Lasts, Ids, e

\* An entry of the challenge store that is dropped leaves the rest.
LEMMA DroppedTyped ==
  ASSUME CeremoniesTyped, NEW k \in Kinds \X Users, store' = [store EXCEPT ![k] = 0]
  PROVE  store' \in [Kinds \X Users -> Nat] /\ \A j \in Kinds \X Users : store'[j] <= Len(ceremonies)
BY DEF CeremoniesTyped

\* A device that counts answers with a count above zero.
LEMMA SignTyped ==
  ASSUME CeremoniesTyped, NEW c \in Ids, Sign(c)
  PROVE  /\ ceremonies' \in Seq(Ceremony) /\ Lasts /\ Len(ceremonies') = Len(ceremonies)
         /\ \A d \in Ids \ {c} : ceremonies'[d] = ceremonies[d]
         /\ ceremonies[c].count = None /\ ceremonies'[c].count \in Nat
         /\ ceremonies[c].user \in Counting => ceremonies'[c].count > 0
<1> DEFINE u == ceremonies[c].user
           D == {d \in Signed : ceremonies[d].user = u}
           n == IF u \in Counting THEN 1 + Cardinality(D) ELSE 0
<1>1. Cardinality(D) \in Nat
  <2>1. IsFiniteSet(1 .. Len(ceremonies))
    BY FS_Interval DEF CeremoniesTyped
  <2> QED BY <2>1, FS_Subset, FS_CardinalityType DEF Signed, Ids
<1>2. n \in Nat /\ (u \in Counting => n > 0)
  BY <1>1
<1>3. ceremonies[c].count = None /\ ceremonies' = [ceremonies EXCEPT ![c].count = n]
  BY DEF Sign
<1> HIDE DEF D, n
<1>0. ceremonies[c] \in Ceremony
  BY DEF CeremoniesTyped, Ids
<1>4. /\ [ceremonies[c] EXCEPT !.count = n] \in Ceremony
      /\ [ceremonies[c] EXCEPT !.count = n].count = n
      /\ [ceremonies[c] EXCEPT !.count = n].kind = ceremonies[c].kind
      /\ [ceremonies[c] EXCEPT !.count = n].user = ceremonies[c].user
  BY <1>0, <1>2 DEF Ceremony
<1>5. ceremonies' = [ceremonies EXCEPT ![c] = [ceremonies[c] EXCEPT !.count = n]]
  BY <1>3 DEF CeremoniesTyped, Ids
<1>6. /\ ceremonies' \in Seq(Ceremony) /\ Len(ceremonies') = Len(ceremonies)
      /\ ceremonies'[c] = [ceremonies[c] EXCEPT !.count = n]
      /\ \A d \in Ids \ {c} : ceremonies'[d] = ceremonies[d]
  BY <1>4, <1>5 DEF CeremoniesTyped, Ids
<1> QED BY <1>2, <1>3, <1>4, <1>6 DEF Lasts, Ids

\* Ceremonies, challenge store and counters keep their types.
LEMMA CeremoniesStep == Typed /\ [Next]_vars => CeremoniesTyped' /\ Lasts
<1> SUFFICES ASSUME Typed, [Next]_vars PROVE CeremoniesTyped' /\ Lasts
  OBVIOUS
<1> USE SessionsAssumption, NoneAssumption DEF login, lockout, model, base, audit, history, Typed, CeremoniesTyped, Lasts, Ids
<1>1. CASE UNCHANGED vars
  BY <1>1 DEF vars, base, login, lockout, model, audit, history
<1>2. CASE Tick
  BY <1>2 DEF Tick
<1>3. CASE EvictStale
  BY <1>3 DEF EvictStale
<1>4. ASSUME NEW k \in Kinds \X Users, ExpireChallenge(k) PROVE (CeremoniesTyped' /\ Lasts)
  BY <1>4 DEF ExpireChallenge
<1>5. ASSUME NEW u \in Users, BeginRegistration(u) PROVE (CeremoniesTyped' /\ Lasts)
  BY <1>5, BeginTyped DEF BeginRegistration, Kinds
<1>6. ASSUME NEW c \in Ids, Sign(c) PROVE (CeremoniesTyped' /\ Lasts)
  BY <1>6, SignTyped DEF Sign
<1>9. ASSUME NEW s \in Slots, LoginStep(s) PROVE (CeremoniesTyped' /\ Lasts)
  <2>1. CASE Unlock(s)
    BY <2>1 DEF Unlock
  <2>2. CASE BeginLogin(s)
    <3>1. CASE Begin("login:", req[s].user)
      BY <2>2, <3>1, BeginTyped DEF BeginLogin, Kinds, RequestsTyped, Carried, At, Ending
    <3> QED BY <2>2, <3>1 DEF BeginLogin
  <2>3. CASE Refuse(s)
    BY <2>3 DEF Refuse
  <2>4. CASE RecordUse(s)
    <3>1. req[s] \in Request /\ (req[s].ch # 0 => req[s].ch \in Ids)
      BY DEF RequestsTyped, Carried, Request, Ids
    <3>2. req[s].ch # 0 => ceremonies[req[s].ch] \in Ceremony
      BY <3>1
    <3>3. req[s].ch # 0 => Reported(s) \in Nat \cup {None}
      BY <3>1, <3>2 DEF Reported, Request, Ceremony
    <3>4. count' \in [Users -> Nat \cup {None}]
      BY <2>4, <3>3 DEF RecordUse, Accepted
    <3> QED BY <2>4, <3>4 DEF RecordUse
  <2>5. CASE DropChallenge(s)
    <3>1. req[s].user \in Users
      BY <2>5 DEF DropChallenge, At, RequestsTyped, Carried, Ending
    <3>2. Key("login:", req[s].user) \in Kinds \X Users
      BY <3>1 DEF Key, Kinds
    <3> QED BY <2>5, <3>2, DroppedTyped DEF DropChallenge
  <2>6. CASE Reset(s)
    BY <2>6 DEF Reset
  <2>7. CASE Register(s)
    <3>1. req[s].user \in Users
      BY <2>7 DEF Register, At, RequestsTyped, Carried, Ending
    <3>2. Key("reg:", req[s].user) \in Kinds \X Users
      BY <3>1 DEF Key, Kinds
    <3>3. store' = [store EXCEPT ![Key("reg:", req[s].user)] = 0] \/ store' = store
      BY <2>7 DEF Register
    <3> QED BY <2>7, <3>2, <3>3, DroppedTyped DEF Register
  <2>8. CASE AddCredential(s)
    <3>1. req[s] \in Request /\ req[s].ch \in Ids
      BY <2>8 DEF AddCredential, At, RequestsTyped, Carried, Request, Ids
    <3>2. ceremonies[req[s].ch] \in Ceremony
      BY <3>1
    <3>3. count' \in [Users -> Nat \cup {None}]
      BY <2>8, <3>2 DEF AddCredential, Ceremony
    <3> QED BY <2>8, <3>3 DEF AddCredential
  <2>9. ASSUME NEW u \in Users, IsLocked(s, u) PROVE (CeremoniesTyped' /\ Lasts)
    BY <2>9 DEF IsLocked
  <2>10. ASSUME NEW u \in Users, NEW c \in 0 .. Len(ceremonies), Finish(s, "login:", u, c, "verify") PROVE (CeremoniesTyped' /\ Lasts)
    BY <2>10 DEF Finish
  <2>11. ASSUME NEW u \in Users, NEW c \in 0 .. Len(ceremonies), Finish(s, "reg:", u, c, "attest") PROVE (CeremoniesTyped' /\ Lasts)
    BY <2>11 DEF Finish
  <2> QED BY <1>9, <2>1, <2>2, <2>3, <2>4, <2>5, <2>6, <2>7, <2>8, <2>9,
    <2>10, <2>11 DEF LoginStep
<1>10. CASE UNCHANGED login
  BY <1>10
<1>11. CASE Restart
  BY <1>11 DEF Restart, Forget
<1> QED BY <1>1, <1>2, <1>3, <1>4, <1>5, <1>6, <1>9, <1>10, <1>11
  DEF Next, ModelStep

\* What a request carries stays right when sessions and ceremonies are added.
LEMMA CarriedLasts ==
  ASSUME NEW r \in Request, NEW G, NEW H, NEW M, NEW N, NEW m \in Nat, NEW n \in Nat,
         Carried(r, G, M, m), G \subseteq H, M \subseteq N, m <= n
  PROVE  Carried(r, H, N, n)
BY DEF Carried, Request

\* Only the request of slot s moves, and it carries what it must.
Moves(s) ==
  /\ req' \in [Slots -> Request]
  /\ \A q \in Slots \ {s} : req'[q] = req[q]
  /\ Carried(req'[s], given', Made', Len(ceremonies'))

\* The count a request reads is at most the one stored.
LEMMA ShownTyped ==
  ASSUME CeremoniesTyped, NEW u \in Users, NEW n \in Shown(u)
  PROVE  /\ n \in Nat \cup {None}
         /\ n # None => count[u] \in Nat /\ n \in Nat /\ n <= count[u]
         /\ count[u] = None => n = None
<1> USE NoneAssumption DEF CeremoniesTyped
<1>1. CASE host = "live"
  BY <1>1 DEF Shown
<1>2. CASE host # "live" /\ n # None
  BY <1>2 DEF Shown
<1> QED BY <1>1, <1>2

\* Without a credential there is none to show.
LEMMA ShownEmpty ==
  ASSUME CeremoniesTyped, NEW u \in Users, count[u] = None
  PROVE  Shown(u) = {None}
<1>1. \A n \in Shown(u) : n = None
  BY ShownTyped
<1>2. None \in Shown(u)
  BY DEF Shown
<1> QED BY <1>1, <1>2

\* Every request keeps carrying what its next step needs.
LEMMA RequestsStep == Typed /\ [Next]_vars => RequestsTyped'
<1> SUFFICES ASSUME Typed, [Next]_vars PROVE RequestsTyped'
  OBVIOUS
<1>a. /\ Grows /\ Lasts /\ Len(ceremonies) \in Nat /\ Len(ceremonies') \in Nat
      /\ req \in [Slots -> Request]
  BY RowsStep, CeremoniesStep DEF Typed, CeremoniesTyped, RequestsTyped
<1>b. \A q \in Slots : Carried(req[q], given', Made', Len(ceremonies')) /\ Carried(req[q], given, Made, Len(ceremonies))
  BY <1>a, CarriedLasts DEF Typed, RequestsTyped, Grows, Lasts
<1>c. ASSUME NEW s \in Slots, Moves(s) PROVE RequestsTyped'
  BY <1>b, <1>c DEF Moves, RequestsTyped
<1>d. ASSUME UNCHANGED req PROVE RequestsTyped'
  BY <1>a, <1>b, <1>d DEF RequestsTyped
<1>e. ASSUME NEW s \in Slots, Done(s) PROVE Moves(s)
  BY <1>a, <1>e, DoneMoves DEF Moves, Carried, NoReq, Ending
<1>f. ASSUME NEW s \in Slots, NEW p \in {"begin", "drop", "reset", "create", "revoke"},
             Step(s, p), req[s].user \in Users, req[s].gone = {}
      PROVE  Moves(s)
  BY <1>a, <1>b, <1>f, StepMoves DEF Moves, Carried, Kept, Ending, Phases
<1>g. ASSUME NEW s \in Slots, NEW p \in Ending, Step(s, p), req[s].token \in given, req[s].gone = {}
      PROVE  Moves(s)
  BY <1>a, <1>b, <1>g, StepMoves DEF Moves, Carried, Kept, Ending, Phases, Grows
<1>h. \A q \in Slots : req[q].at \notin {"idle", "delete", "deleting", "dropping", "ended"} => req[q].user \in Users
  BY <1>b DEF Carried, Ending
<1>j. \A q \in Slots : req[q].at \in {"delete", "deleting", "dropping", "ended"} => req[q].token \in given
  BY <1>b DEF Carried, Ending
<1>k. \A q \in Slots : req[q].at \notin {"ended", "revoked"} => req[q].gone = {}
  BY <1>b DEF Carried
<1>i. ASSUME NEW s \in Slots, NEW r \in Request, Open(s, r), Carried(r, given, Made, Len(ceremonies))
      PROVE  Moves(s)
  BY <1>a, <1>i, OpenMoves, CarriedLasts DEF Moves, Grows, Lasts
<1> USE DEF login, lockout, model, base, audit, history
<1>1. CASE UNCHANGED vars
  BY <1>1, <1>d DEF vars, base, login, lockout, model, audit, history
<1>2. CASE Tick
  BY <1>2, <1>d DEF Tick
<1>3. CASE EvictStale
  BY <1>3, <1>d DEF EvictStale
<1>4. ASSUME NEW k \in Kinds \X Users, ExpireChallenge(k) PROVE RequestsTyped'
  BY <1>4, <1>d DEF ExpireChallenge
<1>5. ASSUME NEW u \in Users, BeginRegistration(u) PROVE RequestsTyped'
  BY <1>5, <1>d DEF BeginRegistration
<1>6. ASSUME NEW c \in Ids, Sign(c) PROVE RequestsTyped'
  BY <1>6, <1>d DEF Sign
<1>7. CASE Sweep /\ UNCHANGED <<login, calls>>
  BY <1>7, <1>d DEF Sweep
<1>8. ASSUME NEW t \in Tokens, Expire(t) /\ UNCHANGED <<login, calls>> PROVE RequestsTyped'
  BY <1>8, <1>d DEF Expire
<1>9. ASSUME NEW s \in Slots, LoginStep(s) PROVE RequestsTyped'
  <2>1. CASE Unlock(s)
    <3>1. At(s, "unlock") /\ (Step(s, "begin") \/ Done(s))
      BY <2>1 DEF Unlock
    <3>2. req[s].user \in Users /\ req[s].gone = {}
      BY <3>1, <1>h, <1>k DEF At
    <3>3. Moves(s)
      BY <3>1, <3>2, <1>e, <1>f
    <3> QED BY <3>3, <1>c
  <2>2. CASE BeginLogin(s)
    BY <2>2, <1>c, <1>e DEF BeginLogin
  <2>3. CASE Refuse(s)
    BY <2>3, <1>c, <1>e DEF Refuse
  <2>4. CASE RecordUse(s)
    <3>1. At(s, "verify") /\ (Step(s, "drop") \/ Done(s))
      BY <2>4 DEF RecordUse
    <3>2. req[s].user \in Users /\ req[s].gone = {}
      BY <3>1, <1>h, <1>k DEF At
    <3>3. Moves(s)
      BY <3>1, <3>2, <1>e, <1>f
    <3> QED BY <3>3, <1>c
  <2>5. CASE DropChallenge(s)
    <3>1. At(s, "drop") /\ (Step(s, "reset") \/ Done(s))
      BY <2>5 DEF DropChallenge
    <3>2. req[s].user \in Users /\ req[s].gone = {}
      BY <3>1, <1>h, <1>k DEF At
    <3>3. Moves(s)
      BY <3>1, <3>2, <1>e, <1>f
    <3> QED BY <3>3, <1>c
  <2>6. CASE Reset(s)
    <3>1. At(s, "reset") /\ (Step(s, "create") \/ Done(s))
      BY <2>6 DEF Reset
    <3>2. req[s].user \in Users /\ req[s].gone = {}
      BY <3>1, <1>h, <1>k DEF At
    <3>3. Moves(s)
      BY <3>1, <3>2, <1>e, <1>f
    <3> QED BY <3>3, <1>c
  <2>7. CASE Register(s)
    <3>1. CASE Accepted(s)
      BY <2>7, <3>1, <1>a, <1>b, <1>c, StepMoves DEF Register, Accepted, At, Moves, Kept, Carried, Phases, Ending
    <3>2. CASE ~Accepted(s)
      BY <2>7, <3>2, <1>c, <1>e DEF Register
    <3> QED BY <3>1, <3>2
  <2>8. CASE AddCredential(s)
    BY <2>8, <1>c, <1>e DEF AddCredential
  <2>9. ASSUME NEW u \in Users, IsLocked(s, u) PROVE RequestsTyped'
    <3> DEFINE r == [NoReq EXCEPT !.at = IF Over(u) THEN "unlock" ELSE "begin", !.user = u]
    <3>1. Open(s, r) /\ u \in Users
      BY <2>9 DEF IsLocked
    <3>2. r \in Request
      BY <3>1 DEF NoReq, Request, Phases
    <3>3. Carried(r, given, Made, Len(ceremonies))
      BY <3>1, <1>a DEF NoReq, Carried, Ending
    <3> QED BY <3>1, <3>2, <3>3, <1>c, <1>i
  <2>10. ASSUME NEW u \in Users, NEW c \in 0 .. Len(ceremonies), Finish(s, "login:", u, c, "verify") PROVE RequestsTyped'
    <3> PICK n \in Shown(u) :
          Open(s, [NoReq EXCEPT !.at = "verify", !.user = u, !.ch = c, !.held = store[Key("login:", u)], !.seen = n])
      BY <2>10 DEF Finish
    <3> DEFINE r == [NoReq EXCEPT !.at = "verify", !.user = u, !.ch = c,
                       !.held = store[Key("login:", u)], !.seen = n]
    <3>1. Open(s, r) /\ u \in Users /\ c \in Nat /\ c <= Len(ceremonies)
          /\ store[Key("login:", u)] \in Nat /\ n \in Nat \cup {None}
      BY ShownTyped, <2>10, <1>a DEF Finish, Typed, CeremoniesTyped, Key, Kinds
    <3>2. r \in Request
      BY <3>1 DEF NoReq, Request, Phases
    <3>3. Carried(r, given, Made, Len(ceremonies))
      BY <3>1, <1>a DEF NoReq, Carried, Ending
    <3> QED BY <3>1, <3>2, <3>3, <1>c, <1>i
  <2>11. ASSUME NEW u \in Users, NEW c \in 0 .. Len(ceremonies), Finish(s, "reg:", u, c, "attest") PROVE RequestsTyped'
    <3> PICK n \in Shown(u) :
          Open(s, [NoReq EXCEPT !.at = "attest", !.user = u, !.ch = c, !.held = store[Key("reg:", u)], !.seen = n])
      BY <2>11 DEF Finish
    <3> DEFINE r == [NoReq EXCEPT !.at = "attest", !.user = u, !.ch = c,
                       !.held = store[Key("reg:", u)], !.seen = n]
    <3>1. Open(s, r) /\ u \in Users /\ c \in Nat /\ c <= Len(ceremonies)
          /\ store[Key("reg:", u)] \in Nat /\ n \in Nat \cup {None}
      BY ShownTyped, <2>11, <1>a DEF Finish, Typed, CeremoniesTyped, Key, Kinds
    <3>2. r \in Request
      BY <3>1 DEF NoReq, Request, Phases
    <3>3. Carried(r, given, Made, Len(ceremonies))
      BY <3>1, <1>a DEF NoReq, Carried, Ending
    <3> QED BY <3>1, <3>2, <3>3, <1>c, <1>i
  <2> QED BY <1>9, <2>1, <2>2, <2>3, <2>4, <2>5, <2>6, <2>7, <2>8, <2>9,
    <2>10, <2>11 DEF LoginStep
<1>10. ASSUME NEW s \in Slots, SessionCall(s) /\ UNCHANGED login PROVE RequestsTyped'
  <2> USE <1>10
  <2>1. ASSUME NEW t \in Tokens, Authenticate(s, t) PROVE RequestsTyped'
    <3> DEFINE p == IF sessions[t].expired THEN "delete" ELSE "user"
               l == sessions[t].user \in left
               r == [NoReq EXCEPT !.at = p, !.token = t, !.user = sessions[t].user, !.late = l]
    <3>1. Open(s, r) /\ sessions[t].user \in Users /\ t \in given
      BY <2>1 DEF Authenticate, Typed, RowsTyped, Made, Stored, Session
    <3>2. p \in {"delete", "user"} /\ l \in BOOLEAN
      OBVIOUS
    <3> HIDE DEF p, l
    <3>3. r \in Request
      BY <3>1, <3>2 DEF NoReq, Request, Phases
    <3>4. Carried(r, given, Made, Len(ceremonies))
      BY <3>1, <3>2, <1>a DEF NoReq, Carried, Ending
    <3> QED BY <3>1, <3>3, <3>4, <1>c, <1>i
  <2>2. ASSUME NEW t \in Tokens, Logout(s, t) PROVE RequestsTyped'
    <3> DEFINE r == [NoReq EXCEPT !.at = "delete", !.token = t]
    <3>1. Open(s, r) /\ t \in given
      BY <2>2 DEF Logout
    <3>2. r \in Request
      BY <3>1 DEF NoReq, Request, Phases
    <3>3. Carried(r, given, Made, Len(ceremonies))
      BY <3>1, <1>a DEF NoReq, Carried, Ending
    <3> QED BY <3>1, <3>2, <3>3, <1>c, <1>i
  <2>3. ASSUME NEW t \in Tokens, EndImpersonation(s, t) PROVE RequestsTyped'
    <3> DEFINE r == [NoReq EXCEPT !.at = "delete", !.token = t]
    <3>1. Open(s, r) /\ t \in given
      BY <2>3 DEF EndImpersonation
    <3>2. r \in Request
      BY <3>1 DEF NoReq, Request, Phases
    <3>3. Carried(r, given, Made, Len(ceremonies))
      BY <3>1, <1>a DEF NoReq, Carried, Ending
    <3> QED BY <3>1, <3>2, <3>3, <1>c, <1>i
  <2>4. ASSUME NEW u \in Users, DeleteUser(s, u) PROVE RequestsTyped'
    <3> DEFINE r == [NoReq EXCEPT !.at = "wait", !.user = u]
    <3>1. Open(s, r) /\ u \in Users
      BY <2>4 DEF DeleteUser
    <3>2. r \in Request
      BY <3>1 DEF NoReq, Request, Phases
    <3>3. Carried(r, given, Made, Len(ceremonies))
      BY <3>1, <1>a DEF NoReq, Carried, Ending
    <3> QED BY <3>1, <3>2, <3>3, <1>c, <1>i
  <2>5. ASSUME NEW u \in Users, NEW a \in Admins, BeginImpersonation(s, a, u) PROVE RequestsTyped'
    <3> DEFINE r == [NoReq EXCEPT !.at = "create", !.user = u, !.by = a]
    <3>1. Open(s, r) /\ u \in Users
      BY <2>5 DEF BeginImpersonation
    <3>2. r \in Request
      BY <3>1 DEF NoReq, Request, Phases
    <3>3. Carried(r, given, Made, Len(ceremonies))
      BY <3>1, <1>a DEF NoReq, Carried, Ending
    <3> QED BY <3>1, <3>2, <3>3, <1>c, <1>i
  <2>6. ASSUME NEW u \in Users, SignIn(s, u) PROVE RequestsTyped'
    <3> DEFINE r == [NoReq EXCEPT !.at = "create", !.user = u]
    <3>1. Open(s, r) /\ u \in Users
      BY <2>6 DEF SignIn
    <3>2. r \in Request
      BY <3>1 DEF NoReq, Request, Phases
    <3>3. Carried(r, given, Made, Len(ceremonies))
      BY <3>1, <1>a DEF NoReq, Carried, Ending
    <3> QED BY <3>1, <3>2, <3>3, <1>c, <1>i
  <2> QED BY <1>10, <2>1, <2>2, <2>3, <2>4, <2>5, <2>6 DEF SessionCall
<1>11. ASSUME NEW s \in Slots, SessionStep(s) /\ UNCHANGED <<login, calls>> PROVE RequestsTyped'
  <2> USE <1>11
  <2>1. CASE Create(s)
    <3>1. ASSUME NEW t \in Tokens \ Made, sessions'[t] # None,
                 req' = [req EXCEPT ![s].at = "started", ![s].token = t]
          PROVE  Moves(s)
      <4>1. req[s] \in Request /\ req[s].user \in Users /\ req[s].ch <= Len(ceremonies') /\ req[s].gone = {}
        BY <2>1, <1>a, <1>b, <1>h, <1>k DEF Create, At, Carried, Ending
      <4>2. [req[s] EXCEPT !.at = "started", !.token = t] \in Request
        BY <4>1 DEF Request, Phases
      <4>3. req'[s] = [req[s] EXCEPT !.at = "started", !.token = t]
        BY <3>1, <1>a
      <4>4. req' \in [Slots -> Request] /\ \A q \in Slots \ {s} : req'[q] = req[q]
        BY <3>1, <1>a, <4>2
      <4>5. Carried(req'[s], given', Made', Len(ceremonies'))
        <5>1. /\ req'[s].at = "started" /\ req'[s].token = t
              /\ req'[s].user = req[s].user /\ req'[s].ch = req[s].ch /\ req'[s].gone = req[s].gone
          BY <4>1, <4>3 DEF Request
        <5>2. t \in Made'
          BY <3>1 DEF Made
        <5> QED BY <5>1, <5>2, <4>1 DEF Carried, Ending
      <4> QED BY <4>4, <4>5 DEF Moves
    <3>2. ASSUME NEW t \in Tokens \ Made,
                 sessions' = [sessions EXCEPT ![t] =
                   [user |-> req[s].user, by |-> req[s].by, via |-> req[s].ch,
                    late |-> req[s].user \notin active, stored |-> TRUE, expired |-> FALSE]]
          PROVE  sessions'[t] # None
      <4>1. req[s] \in Request /\ req[s].user \in Users
        BY <2>1, <1>a, <1>b DEF Create, At, Carried, Ending
      <4>2. [user |-> req[s].user, by |-> req[s].by, via |-> req[s].ch,
             late |-> req[s].user \notin active, stored |-> TRUE, expired |-> FALSE] \in Session
        BY <4>1 DEF Request, Session
      <4> QED BY <3>2, <4>2, NoneAssumption DEF Typed, RowsTyped
    <3> QED BY <2>1, <3>1, <3>2, <1>c, <1>e DEF Create
  <2>2. CASE Started(s)
    BY <2>2, <1>c, <1>e DEF Started
  <2>3. CASE Snapshot(s)
    <3>1. At(s, "delete") /\ (Step(s, "deleting") \/ Step(s, "dropping") \/ Done(s))
      BY <2>3 DEF Snapshot
    <3>2. req[s].token \in given /\ req[s].gone = {}
      BY <3>1, <1>j, <1>k DEF At
    <3>3. Moves(s)
      BY <3>1, <3>2, <1>e, <1>g DEF Ending
    <3> QED BY <3>3, <1>c
  <2>4. CASE Drop(s)
    BY <2>4, <1>c, <1>e DEF Drop
  <2>5. CASE Delete(s)
    <3>1. req[s].token \in given /\ req[s].token \in Tokens
      BY <2>5, <1>j DEF Delete, At, Typed, RowsTyped, Made
    <3>2. CASE Done(s)
      BY <3>2, <1>c, <1>e
    <3>3. CASE req' = [req EXCEPT ![s].at = "ended", ![s].gone = {req[s].token} \cap Stored]
      <4> DEFINE T == {req[s].token} \cap Stored
      <4>1. T \in SUBSET Tokens
        BY <3>1
      <4> HIDE DEF T
      <4>2. /\ req' \in [Slots -> Request] /\ \A q \in Slots \ {s} : req'[q] = req[q]
            /\ req'[s] = [req[s] EXCEPT !.at = "ended", !.gone = T]
        BY <3>3, <4>1, <1>a, GoneMoves DEF T, Phases
      <4>3. Moves(s)
        BY <4>2, <3>1, <1>a, <1>b DEF Moves, Carried, Ending, Grows, Request
      <4> QED BY <4>3, <1>c
    <3> QED BY <2>5, <3>2, <3>3 DEF Delete
  <2>6. CASE Ended(s)
    BY <2>6, <1>c, <1>e DEF Ended
  <2>7. CASE FindUser(s)
    <3>1. At(s, "user") /\ req[s].user \in Users /\ req[s].gone = {}
      BY <2>7, <1>h, <1>k DEF FindUser, At
    <3>2. CASE Done(s)
      BY <3>2, <1>c, <1>e
    <3>3. CASE req' = [req EXCEPT ![s].at = "serve", ![s].replayed = (host # "live")]
      <4>1. /\ req' \in [Slots -> Request] /\ \A q \in Slots \ {s} : req'[q] = req[q]
            /\ req'[s] = [req[s] EXCEPT !.at = "serve", !.replayed = (host # "live")]
        BY <3>3, <1>a, FoundMoves
      <4>2. Moves(s)
        BY <4>1, <3>1, <1>a, <1>b DEF Moves, Carried, Ending, Request
      <4> QED BY <4>2, <1>c
    <3> QED BY <2>7, <3>2, <3>3 DEF FindUser
  <2>8. CASE Serve(s)
    BY <2>8, <1>c, <1>e DEF Serve
  <2>9. CASE Revoke(s)
    <3>1. At(s, "revoke") /\ req[s].user \in Users
      BY <2>9, <1>h DEF Revoke, At
    <3>2. CASE Done(s)
      BY <3>2, <1>c, <1>e
    <3>3. CASE req' = [req EXCEPT ![s].at = "revoked", ![s].gone = Of(req[s].user)]
      <4>1. Of(req[s].user) \in SUBSET Tokens
        BY DEF Of, Stored, Made
      <4>2. /\ req' \in [Slots -> Request] /\ \A q \in Slots \ {s} : req'[q] = req[q]
            /\ req'[s] = [req[s] EXCEPT !.at = "revoked", !.gone = Of(req[s].user)]
        BY <3>3, <4>1, <1>a, GoneMoves DEF Phases
      <4>3. Moves(s)
        BY <4>2, <3>1, <1>a, <1>b DEF Moves, Carried, Ending, Request
      <4> QED BY <4>3, <1>c
    <3> QED BY <2>9, <3>2, <3>3 DEF Revoke
  <2>10. CASE Revoked(s)
    BY <2>10, <1>c, <1>e DEF Revoked
  <2>11. CASE Dispatched(s)
    <3>1. At(s, "wait") /\ Step(s, "revoke")
      BY <2>11 DEF Dispatched
    <3>2. req[s].user \in Users /\ req[s].gone = {}
      BY <3>1, <1>h, <1>k DEF At
    <3>3. Moves(s)
      BY <3>1, <3>2, <1>f
    <3> QED BY <3>3, <1>c
  <2> QED BY <1>11, <2>1, <2>2, <2>3, <2>4, <2>5, <2>6, <2>7, <2>8, <2>9,
    <2>10, <2>11 DEF SessionStep
<1>12. CASE Restart
  <2>1. \A s \in Slots : req'[s] = NoReq
    BY <1>12 DEF Restart, SessionRestart
  <2>2. req' \in [Slots -> Request]
    BY <1>12 DEF Restart, SessionRestart, NoReq, Request, Phases
  <2>3. Carried(NoReq, given', Made', Len(ceremonies'))
    BY <1>a DEF Carried, NoReq, Ending
  <2> QED BY <2>1, <2>2, <2>3 DEF RequestsTyped
<1>13. CASE ModelStep
  BY <1>13, <1>d DEF ModelStep, Rebuild, Replay, Drained, Apply
<1> QED BY <1>1, <1>2, <1>3, <1>4, <1>5, <1>6, <1>7, <1>8, <1>9, <1>10, <1>11, <1>12, <1>13
  DEF Next, ModelStep

\* The types together.
LEMMA TypedStep == Typed /\ [Next]_vars => Typed' /\ Grows /\ Lasts
BY RowsStep, CeremoniesStep, RequestsStep DEF Typed

(***************************************************************************)
(* Deletion and the journal.                                               *)
(***************************************************************************)
\* Only slot s moves.
Others(s) == \A q \in Slots \ {s} : req'[q] = req[q]

\* A step of a ceremony touches no session, and no request that ends sessions.
LEMMA LoginStepFrame ==
  ASSUME Typed, NEW s \in Slots, LoginStep(s)
  PROVE  /\ UNCHANGED <<model, sessions, audit, history>> /\ Others(s)
         /\ req[s].at \notin {"ended", "revoked"}
         /\ req'[s].at # "ended" /\ req'[s].at \notin {"user", "serve", "wait", "revoke", "revoked"}
<1>a. req \in [Slots -> Request]
  BY DEF Typed, RequestsTyped
<1> USE DEF base
<1> DEFINE Frame == /\ UNCHANGED <<model, sessions, audit, history>> /\ Others(s)
                    /\ req[s].at \notin {"ended", "revoked"}
                    /\ req'[s].at # "ended" /\ req'[s].at \notin {"user", "serve", "wait", "revoke", "revoked"}
<1>1. CASE Unlock(s)
  <2>1. At(s, "unlock") /\ UNCHANGED <<model, sessions, audit, history>> /\ (Step(s, "begin"))
    BY <1>1 DEF Unlock
  <2> QED BY <2>1, <1>a, StepMoves, DoneMoves DEF Frame, Others, At, Kept, NoReq, Phases
<1>2. CASE BeginLogin(s)
  <2>1. At(s, "begin") /\ UNCHANGED <<model, sessions, audit, history>> /\ (Done(s))
    BY <1>2 DEF BeginLogin
  <2> QED BY <2>1, <1>a, StepMoves, DoneMoves DEF Frame, Others, At, Kept, NoReq, Phases
<1>3. CASE Refuse(s)
  <2>1. At(s, "verify") /\ UNCHANGED <<model, sessions, audit, history>> /\ (Done(s))
    BY <1>3 DEF Refuse
  <2> QED BY <2>1, <1>a, StepMoves, DoneMoves DEF Frame, Others, At, Kept, NoReq, Phases
<1>4. CASE RecordUse(s)
  <2>1. At(s, "verify") /\ UNCHANGED <<model, sessions, audit, history>> /\ (Step(s, "drop") \/ Done(s))
    BY <1>4 DEF RecordUse
  <2> QED BY <2>1, <1>a, StepMoves, DoneMoves DEF Frame, Others, At, Kept, NoReq, Phases
<1>5. CASE DropChallenge(s)
  <2>1. At(s, "drop") /\ UNCHANGED <<model, sessions, audit, history>> /\ (Step(s, "reset"))
    BY <1>5 DEF DropChallenge
  <2> QED BY <2>1, <1>a, StepMoves, DoneMoves DEF Frame, Others, At, Kept, NoReq, Phases
<1>6. CASE Reset(s)
  <2>1. At(s, "reset") /\ UNCHANGED <<model, sessions, audit, history>> /\ (Step(s, "create"))
    BY <1>6 DEF Reset
  <2> QED BY <2>1, <1>a, StepMoves, DoneMoves DEF Frame, Others, At, Kept, NoReq, Phases
<1>7. CASE Register(s)
  <2>1. At(s, "attest") /\ UNCHANGED <<model, sessions, audit, history>> /\ (Step(s, "add") \/ Done(s))
    BY <1>7 DEF Register
  <2> QED BY <2>1, <1>a, StepMoves, DoneMoves DEF Frame, Others, At, Kept, NoReq, Phases
<1>8. CASE AddCredential(s)
  <2>1. At(s, "add") /\ UNCHANGED <<model, sessions, audit, history>> /\ (Done(s))
    BY <1>8 DEF AddCredential
  <2> QED BY <2>1, <1>a, StepMoves, DoneMoves DEF Frame, Others, At, Kept, NoReq, Phases
<1>9. ASSUME NEW u \in Users, IsLocked(s, u) PROVE Frame
  <2> DEFINE r == [NoReq EXCEPT !.at = IF Over(u) THEN "unlock" ELSE "begin", !.user = u]
  <2>1. Open(s, r) /\ UNCHANGED <<model, sessions, audit, history>>
    BY <1>9 DEF IsLocked
  <2>2. r.at \in {"unlock", "begin", "verify", "attest"}
    BY DEF NoReq
  <2>3. req[s].at = "idle" /\ req'[s] = r /\ Others(s)
    BY <2>1, <1>a DEF Open, At, Others
  <2> QED BY <2>1, <2>2, <2>3 DEF Frame
<1>10. ASSUME NEW u \in Users, NEW c \in 0 .. Len(ceremonies), Finish(s, "login:", u, c, "verify") PROVE Frame
  <2> PICK n \in Shown(u) :
        Open(s, [NoReq EXCEPT !.at = "verify", !.user = u, !.ch = c, !.held = store[Key("login:", u)], !.seen = n])
    BY <1>10 DEF Finish
  <2> DEFINE r == [NoReq EXCEPT !.at = "verify", !.user = u, !.ch = c, !.held = store[Key("login:", u)], !.seen = n]
  <2>1. Open(s, r) /\ UNCHANGED <<model, sessions, audit, history>>
    BY <1>10 DEF Finish
  <2>2. r.at \in {"unlock", "begin", "verify", "attest"}
    BY DEF NoReq
  <2>3. req[s].at = "idle" /\ req'[s] = r /\ Others(s)
    BY <2>1, <1>a DEF Open, At, Others
  <2> QED BY <2>1, <2>2, <2>3 DEF Frame
<1>11. ASSUME NEW u \in Users, NEW c \in 0 .. Len(ceremonies), Finish(s, "reg:", u, c, "attest") PROVE Frame
  <2> PICK n \in Shown(u) :
        Open(s, [NoReq EXCEPT !.at = "attest", !.user = u, !.ch = c, !.held = store[Key("reg:", u)], !.seen = n])
    BY <1>11 DEF Finish
  <2> DEFINE r == [NoReq EXCEPT !.at = "attest", !.user = u, !.ch = c, !.held = store[Key("reg:", u)], !.seen = n]
  <2>1. Open(s, r) /\ UNCHANGED <<model, sessions, audit, history>>
    BY <1>11 DEF Finish
  <2>2. r.at \in {"unlock", "begin", "verify", "attest"}
    BY DEF NoReq
  <2>3. req[s].at = "idle" /\ req'[s] = r /\ Others(s)
    BY <2>1, <1>a DEF Open, At, Others
  <2> QED BY <2>1, <2>2, <2>3 DEF Frame
<1> QED BY LoginStep(s), <1>1, <1>2, <1>3, <1>4, <1>5, <1>6, <1>7, <1>8, <1>9, <1>10, <1>11 DEF LoginStep

\* The deleted users a live read model has still to hear of.
Unheard == IF host = "live" THEN {u \in Users : <<"deleted", u>> \in ahead} ELSE {}

\* r: a request; L: the users whose deletion has returned; A: the active users;
\* H: the users unheard of.
Barred(r, L, A, H) ==
  /\ r.at = "user" /\ r.late => r.user \in L
  /\ r.at = "serve" /\ r.late => r.replayed
  /\ r.at \in {"wait", "revoke", "revoked"} => r.user \notin A
  /\ r.at \in {"revoke", "revoked"} => r.user \notin H

\* The read model shows a deleted user only while the deletion is ahead of it.
Heard ==
  \A u \in Users \ active :
    <<"deleted", u>> \in ahead \/ (u \notin found /\ <<"registered", u>> \notin ahead)

Left ==
  /\ left \cap active = {} /\ left \cap Unheard = {} /\ revoked \cap active = {}
  /\ Heard
  /\ \A s \in Slots : Barred(req[s], left, active, Unheard)

\* A user whose deletion returned stays out, and so do the requests that came later.
LEMMA LeftStep == Typed /\ Left /\ [Next]_vars => Left'
<1> SUFFICES ASSUME Typed, Left, [Next]_vars PROVE Left'
  OBVIOUS
<1>a. req \in [Slots -> Request]
  BY DEF Typed, RequestsTyped
<1>m. model' = model => Unheard' = Unheard /\ (Heard <=> Heard')
  BY DEF model, Unheard, Heard
<1>b. ASSUME UNCHANGED <<model, left, revoked, req>> PROVE Left'
  BY <1>b, <1>m DEF Left, model
<1>c. ASSUME NEW s \in Slots, Others(s), UNCHANGED <<model, left, revoked>>,
             req'[s].at \notin {"user", "serve", "wait", "revoke", "revoked"}
      PROVE  Left'
  BY <1>c, <1>m DEF Left, Barred, Others, model
<1>d. ASSUME NEW s \in Slots, Others(s), UNCHANGED model,
             left \subseteq left', left' \cap active = {}, left' \cap Unheard = {}, revoked' \cap active = {},
             Barred(req'[s], left', active, Unheard)
      PROVE  Left'
  <2>1. UNCHANGED <<active, Unheard>> /\ Heard'
    BY <1>d, <1>m DEF Left, model
  <2>2. ASSUME NEW t \in Slots PROVE Barred(req'[t], left', active, Unheard)
    BY <1>d DEF Left, Barred, Others
  <2> QED BY <1>d, <2>1, <2>2 DEF Left
<1>e. ASSUME NEW s \in Slots, Done(s) PROVE Others(s) /\ req'[s] = NoReq /\ req'[s].at = "idle"
  <2>1. NoReq.at = "idle"
    BY DEF NoReq
  <2> QED BY <1>a, <1>e, <2>1, DoneMoves DEF Others
<1>f. ASSUME NEW s \in Slots, NEW p \in Phases, Step(s, p) PROVE Others(s) /\ Kept(s, p)
  BY <1>a, <1>f, StepMoves DEF Others
<1>g. ASSUME NEW s \in Slots, NEW r, Open(s, r) PROVE Others(s) /\ req'[s] = r
  BY <1>a, <1>g DEF Open, Others
<1> USE DEF login, lockout, model, base, audit, history
<1>1. CASE UNCHANGED vars
  BY <1>1, <1>b DEF vars, base, login, lockout, model, audit, history
<1>2. CASE Tick
  BY <1>2, <1>b DEF Tick
<1>3. CASE EvictStale
  BY <1>3, <1>b DEF EvictStale
<1>4. ASSUME NEW k \in Kinds \X Users, ExpireChallenge(k) PROVE Left'
  BY <1>4, <1>b DEF ExpireChallenge
<1>5. ASSUME NEW u \in Users, BeginRegistration(u) PROVE Left'
  BY <1>5, <1>b DEF BeginRegistration
<1>6. ASSUME NEW c \in Ids, Sign(c) PROVE Left'
  BY <1>6, <1>b DEF Sign
<1>7. CASE Sweep /\ UNCHANGED <<login, calls>>
  BY <1>7, <1>b DEF Sweep
<1>8. ASSUME NEW t \in Tokens, Expire(t) /\ UNCHANGED <<login, calls>> PROVE Left'
  BY <1>8, <1>b DEF Expire
<1>9. ASSUME NEW s \in Slots, LoginStep(s) PROVE Left'
  BY <1>9, <1>c, LoginStepFrame
<1>10. ASSUME NEW s \in Slots, SessionCall(s) /\ UNCHANGED login PROVE Left'
  <2> USE <1>10
  <2>1. ASSUME NEW t \in Tokens, Authenticate(s, t) PROVE Left'
    <3> DEFINE p == IF sessions[t].expired THEN "delete" ELSE "user"
               l == sessions[t].user \in left
               r == [NoReq EXCEPT !.at = p, !.token = t, !.user = sessions[t].user, !.late = l]
    <3>1. Open(s, r) /\ UNCHANGED <<model, left, revoked>>
      BY <2>1 DEF Authenticate
    <3>2. r.at \in {"delete", "user"} /\ r.user = sessions[t].user /\ (r.late <=> l)
      BY DEF NoReq
    <3>3. Barred(r, left, active, Unheard)
      BY <3>2 DEF Barred
    <3> QED BY <3>1, <3>3, <1>d, <1>g DEF Left
  <2>2. ASSUME NEW t \in Tokens, Logout(s, t) PROVE Left'
    <3> DEFINE r == [NoReq EXCEPT !.at = "delete", !.token = t]
    <3>1. Open(s, r) /\ UNCHANGED <<model, left, revoked>> /\ r.at \in {"delete", "create"}
      BY <2>2 DEF Logout, NoReq
    <3> QED BY <3>1, <1>c, <1>g
  <2>3. ASSUME NEW t \in Tokens, EndImpersonation(s, t) PROVE Left'
    <3> DEFINE r == [NoReq EXCEPT !.at = "delete", !.token = t]
    <3>1. Open(s, r) /\ UNCHANGED <<model, left, revoked>> /\ r.at \in {"delete", "create"}
      BY <2>3 DEF EndImpersonation, NoReq
    <3> QED BY <3>1, <1>c, <1>g
  <2>4. ASSUME NEW u \in Users, DeleteUser(s, u) PROVE Left'
    <3> DEFINE r == [NoReq EXCEPT !.at = "wait", !.user = u]
    <3>1. /\ Open(s, r) /\ UNCHANGED <<left, revoked, found, host>> /\ r.at = "wait" /\ r.user = u
          /\ u \in active /\ active' = active \ {u} /\ ahead' = ahead \cup {<<"deleted", u>>}
      BY <2>4 DEF DeleteUser, NoReq
    <3>2. Unheard' \subseteq Unheard \cup {u}
      BY <3>1 DEF Unheard
    <3>3. Heard'
      BY <3>1 DEF Heard, Left
    <3>4. ASSUME NEW t \in Slots PROVE Barred(req'[t], left', active', Unheard')
      <4>1. CASE t = s
        BY <3>1, <4>1, <1>g DEF Barred
      <4>2. CASE t # s
        <5>1. req'[t] = req[t] /\ Barred(req[t], left, active, Unheard)
          BY <3>1, <4>2, <1>g DEF Others, Left
        <5> QED BY <5>1, <3>1, <3>2 DEF Barred
      <4> QED BY <4>1, <4>2
    <3>5. left' \cap active' = {} /\ left' \cap Unheard' = {} /\ revoked' \cap active' = {}
      BY <3>1, <3>2 DEF Left
    <3> QED BY <3>3, <3>4, <3>5 DEF Left
  <2>5. ASSUME NEW u \in Users, NEW a \in Admins, BeginImpersonation(s, a, u) PROVE Left'
    <3> DEFINE r == [NoReq EXCEPT !.at = "create", !.user = u, !.by = a]
    <3>1. Open(s, r) /\ UNCHANGED <<model, left, revoked>> /\ r.at \in {"delete", "create"}
      BY <2>5 DEF BeginImpersonation, NoReq
    <3> QED BY <3>1, <1>c, <1>g
  <2>6. ASSUME NEW u \in Users, SignIn(s, u) PROVE Left'
    <3> DEFINE r == [NoReq EXCEPT !.at = "create", !.user = u]
    <3>1. Open(s, r) /\ UNCHANGED <<model, left, revoked>> /\ r.at \in {"delete", "create"}
      BY <2>6 DEF SignIn, NoReq
    <3> QED BY <3>1, <1>c, <1>g
  <2> QED BY <1>10, <2>1, <2>2, <2>3, <2>4, <2>5, <2>6 DEF SessionCall
<1>11. ASSUME NEW s \in Slots, SessionStep(s) /\ UNCHANGED <<login, calls>> PROVE Left'
  <2> USE <1>11
  <2>1. CASE Create(s)
    <3>1. UNCHANGED <<model, left, revoked>> /\ Others(s) /\ req'[s].at \in {"started", "idle"}
      BY <2>1, <1>a, <1>e DEF Create, Others, Request
    <3> QED BY <3>1, <1>c
  <2>2. CASE Started(s)
    BY <2>2, <1>c, <1>e DEF Started
  <2>3. CASE Snapshot(s)
    <3>1. UNCHANGED <<model, left, revoked>> /\ (Step(s, "deleting") \/ Step(s, "dropping") \/ Done(s))
      BY <2>3 DEF Snapshot
    <3>2. Others(s) /\ req'[s].at \in {"deleting", "dropping", "idle"}
      BY <3>1, <1>e, <1>f DEF Kept, Phases
    <3> QED BY <3>1, <3>2, <1>c
  <2>4. CASE Drop(s)
    BY <2>4, <1>c, <1>e DEF Drop
  <2>5. CASE Delete(s)
    <3>1. UNCHANGED <<model, left, revoked>> /\ Others(s) /\ req'[s].at \in {"ended", "idle"}
      BY <2>5, <1>a, <1>e DEF Delete, Others, Request
    <3> QED BY <3>1, <1>c
  <2>6. CASE Ended(s)
    BY <2>6, <1>c, <1>e DEF Ended
  <2>7. CASE FindUser(s)
    <3>1. UNCHANGED <<model, left, revoked>> /\ req[s].at = "user" /\ req[s].user \in Users
      BY <2>7 DEF FindUser, At, Typed, RequestsTyped, Carried, Ending
    <3>2. CASE Done(s)
      BY <3>1, <3>2, <1>c, <1>e
    <3>3. CASE req' = [req EXCEPT ![s].at = "serve", ![s].replayed = (host # "live")] /\ req[s].user \in found
      <4> DEFINE b == host # "live"
      <4>5. b \in BOOLEAN /\ req' = [req EXCEPT ![s].at = "serve", ![s].replayed = b]
        BY <3>3
      <4>6. host = "live" \/ b = TRUE
        OBVIOUS
      <4> HIDE DEF b
      <4>1. /\ Others(s) /\ req'[s].at = "serve" /\ (b = TRUE => req'[s].replayed = TRUE)
            /\ req'[s].late = req[s].late
        <5>1. Others(s) /\ req'[s] = [req[s] EXCEPT !.at = "serve", !.replayed = b]
          BY <4>5, <1>a, FoundMoves DEF Others
        <5>2. req[s] \in Request
          BY <1>a
        <5> QED BY <5>1, <5>2 DEF Request
      <4>2. host = "live" => ~req[s].late
        BY <3>1, <3>3 DEF Left, Barred, Unheard, Heard
      <4>3. Barred(req'[s], left, active, Unheard)
        BY <4>1, <4>2, <4>6 DEF Barred
      <4> QED BY <3>1, <4>1, <4>3, <1>d DEF Left
    <3> QED BY <2>7, <3>2, <3>3 DEF FindUser
  <2>8. CASE Serve(s)
    BY <2>8, <1>c, <1>e DEF Serve
  <2>9. CASE Revoke(s)
    <3>1. UNCHANGED <<model, revoked>> /\ req[s].user \notin active \cup Unheard
      BY <2>9 DEF Revoke, At, Left, Barred
    <3>2. CASE req' = [req EXCEPT ![s].at = "revoked", ![s].gone = Of(req[s].user)] /\ left' = left
      <4>1. Others(s) /\ req'[s].at = "revoked" /\ req'[s].user = req[s].user
        BY <3>2, <1>a DEF Others, Request
      <4>2. Barred(req'[s], left, active, Unheard)
        BY <3>1, <4>1 DEF Barred
      <4> QED BY <3>1, <3>2, <4>1, <4>2, <1>d DEF Left
    <3>3. CASE left' = left \cup {req[s].user} /\ Done(s)
      <4>1. Barred(req'[s], left', active, Unheard)
        BY <3>3, <1>e DEF Barred
      <4> QED BY <3>1, <3>3, <4>1, <1>d, <1>e DEF Left
    <3> QED BY <2>9, <3>2, <3>3 DEF Revoke
  <2>10. CASE Revoked(s)
    <3>1. /\ UNCHANGED model /\ req[s].user \notin active \cup Unheard
          /\ revoked' \subseteq revoked \cup {req[s].user}
          /\ left' = left \cup {req[s].user} /\ Done(s)
      BY <2>10 DEF Revoked, At, Left, Barred
    <3>2. Barred(req'[s], left', active, Unheard)
      BY <3>1, <1>e DEF Barred
    <3> QED BY <3>1, <3>2, <1>d, <1>e DEF Left
  <2>11. CASE Dispatched(s)
    <3>1. UNCHANGED <<model, left, revoked>> /\ Step(s, "revoke") /\ req[s].user \notin active \cup Unheard
      BY <2>11 DEF Dispatched, At, Left, Barred, Unheard
    <3>2. Others(s) /\ req'[s].at = "revoke" /\ req'[s].user = req[s].user
      BY <3>1, <1>f DEF Kept, Phases
    <3>3. Barred(req'[s], left, active, Unheard)
      BY <3>1, <3>2 DEF Barred
    <3> QED BY <3>1, <3>2, <3>3, <1>d DEF Left
  <2> QED BY <1>11, <2>1, <2>2, <2>3, <2>4, <2>5, <2>6, <2>7, <2>8, <2>9,
    <2>10, <2>11 DEF SessionStep
<1>r. ASSUME UNCHANGED <<active, left, revoked>>, Unheard' \subseteq Unheard, Heard',
             \A s \in Slots : req'[s] = req[s] \/ req'[s] = NoReq
      PROVE  Left'
  <2>1. ASSUME NEW s \in Slots PROVE Barred(req'[s], left, active, Unheard')
    BY <1>r DEF Left, Barred, NoReq
  <2> QED BY <1>r, <2>1 DEF Left
<1>12. CASE Restart
  <2>1. /\ UNCHANGED <<active, left, revoked>> /\ \A s \in Slots : req'[s] = NoReq
        /\ Unheard' = {} /\ Heard'
    BY <1>12 DEF Restart, SessionRestart, Replay, Unheard, Heard
  <2> QED BY <2>1, <1>r
<1>13. CASE ModelStep
  <2>1. UNCHANGED <<active, left, revoked, req>>
    BY <1>13 DEF ModelStep, Rebuild, Drained, Apply
  <2>2. Unheard' \subseteq Unheard
    BY <1>13 DEF ModelStep, Rebuild, Replay, Drained, Apply, Unheard
  <2>3. ASSUME Rebuild PROVE Heard'
    <3>1. \A v \in Users \ active : <<"deleted", v>> \in ahead'
      BY <2>3 DEF Rebuild, Replay
    <3> QED BY <2>1, <3>1 DEF Heard
  <2>4. ASSUME Drained PROVE Heard'
    <3>1. UNCHANGED <<active, found, ahead>>
      BY <2>4 DEF Drained
    <3> QED BY <3>1 DEF Heard, Left
  <2>5. ASSUME \E e \in Events : Apply(e) PROVE Heard'
    <3> PICK e \in Events : Apply(e)
      BY <2>5
    <3>1. PICK k \in {"registered", "deleted"}, u \in Users : e = <<k, u>>
      BY DEF Events
    <3>2. ASSUME NEW v \in Users \ active
          PROVE <<"deleted", v>> \in ahead' \/ (v \notin found' /\ <<"registered", v>> \notin ahead')
      BY <3>1 DEF Apply, Heard, Left
    <3> QED BY <2>1, <3>2 DEF Heard
  <2>6. Heard'
    BY <1>13, <2>3, <2>4, <2>5 DEF ModelStep
  <2> QED BY <2>1, <2>2, <2>6, <1>r
<1> QED BY <1>1, <1>2, <1>3, <1>4, <1>5, <1>6, <1>7, <1>8, <1>9, <1>10, <1>11, <1>12, <1>13
  DEF Next, ModelStep

\* What the requests that will write to the journal carry: the session of one
\* that ended it is gone, and no session of one that revoked them is left that
\* was opened before the deletion.
Attested(s) ==
  /\ req[s].at = "ended" => req[s].token \notin Stored /\ req[s].gone \subseteq {req[s].token}
  /\ req[s].at = "revoked" =>
       /\ \A t \in Stored : sessions[t].user = req[s].user => sessions[t].late
       /\ \A t \in req[s].gone : t \in Made /\ sessions[t].user = req[s].user

Attest == JournalIsTrue /\ \A s \in Slots : Attested(s)

\* A step that leaves sessions and journal alone, and who will write to it.
Apart ==
  /\ UNCHANGED <<sessions, audit, silent>>
  /\ \A q \in Slots : \/ req'[q] = req[q]
                      \/ {req[q].at, req'[q].at} \cap {"ended", "revoked"} = {}

\* The steps that do not.
LEMMA JournalSteps ==
  ASSUME Typed, [Next]_vars
  PROVE  \/ Apart \/ Sweep \/ Restart \/ \E t \in Tokens : Expire(t)
         \/ \E s \in Slots : Others(s) /\ (Create(s) \/ Drop(s) \/ Delete(s) \/ Ended(s) \/ Revoke(s) \/ Revoked(s))
<1> DEFINE Goal == \/ Apart \/ Sweep \/ Restart \/ \E t \in Tokens : Expire(t)
                   \/ \E s \in Slots : Others(s) /\ (Create(s) \/ Drop(s) \/ Delete(s) \/ Ended(s) \/ Revoke(s) \/ Revoked(s))
<1> SUFFICES Goal
  OBVIOUS
<1>a. req \in [Slots -> Request]
  BY DEF Typed, RequestsTyped
<1>b. ASSUME UNCHANGED <<sessions, audit, silent, req>> PROVE Goal
  BY <1>b DEF Apart
<1>c. ASSUME NEW s \in Slots, Others(s), UNCHANGED <<sessions, audit, silent>>,
             {req[s].at, req'[s].at} \cap {"ended", "revoked"} = {}
      PROVE  Goal
  BY <1>c DEF Apart, Others
<1>e. ASSUME NEW s \in Slots, Done(s) PROVE Others(s) /\ req'[s].at = "idle"
  <2>1. NoReq.at = "idle"
    BY DEF NoReq
  <2> QED BY <1>a, <1>e, <2>1, DoneMoves DEF Others
<1>f. ASSUME NEW s \in Slots, NEW p \in Phases, Step(s, p) PROVE Others(s) /\ req'[s].at = p
  BY <1>a, <1>f, StepMoves DEF Others, Kept
<1>i. ASSUME NEW s \in Slots, NEW r, Open(s, r) PROVE Others(s) /\ req'[s] = r /\ req[s].at = "idle"
  BY <1>a, <1>i DEF Open, Others, At
<1> HIDE DEF Goal
<1> USE DEF login, lockout, model, base, audit, history
<1>1. CASE UNCHANGED vars
  BY <1>1, <1>b DEF vars
<1>2. CASE Tick
  BY <1>2, <1>b DEF Tick
<1>3. CASE EvictStale
  BY <1>3, <1>b DEF EvictStale
<1>4. ASSUME NEW k \in Kinds \X Users, ExpireChallenge(k) PROVE Goal
  BY <1>4, <1>b DEF ExpireChallenge
<1>5. ASSUME NEW u \in Users, BeginRegistration(u) PROVE Goal
  BY <1>5, <1>b DEF BeginRegistration
<1>6. ASSUME NEW c \in Ids, Sign(c) PROVE Goal
  BY <1>6, <1>b DEF Sign
<1>9. ASSUME NEW s \in Slots, LoginStep(s) PROVE Goal
  BY <1>9, <1>c, LoginStepFrame
<1>10. ASSUME NEW s \in Slots, SessionCall(s) PROVE Goal
  <2>1. ASSUME NEW r, Open(s, r), UNCHANGED <<sessions, audit, silent>>, r.at \notin {"ended", "revoked"}
        PROVE  Goal
    BY <2>1, <1>c, <1>i
  <2>2. ASSUME NEW t \in Tokens, Authenticate(s, t) PROVE Goal
    <3> DEFINE r == [NoReq EXCEPT !.at = IF sessions[t].expired THEN "delete" ELSE "user",
                            !.token = t, !.user = sessions[t].user, !.late = sessions[t].user \in left]
    <3>1. Open(s, r) /\ UNCHANGED <<sessions, audit, silent>> /\ r.at \notin {"ended", "revoked"}
      BY <2>2 DEF Authenticate, NoReq
    <3> QED BY <3>1, <2>1
  <2>3. ASSUME NEW t \in Tokens, Logout(s, t) \/ EndImpersonation(s, t) PROVE Goal
    <3> DEFINE r == [NoReq EXCEPT !.at = "delete", !.token = t]
    <3>1. Open(s, r) /\ UNCHANGED <<sessions, audit, silent>> /\ r.at \notin {"ended", "revoked"}
      BY <2>3 DEF Logout, EndImpersonation, NoReq
    <3> QED BY <3>1, <2>1
  <2>4. ASSUME NEW u \in Users, DeleteUser(s, u) PROVE Goal
    <3> DEFINE r == [NoReq EXCEPT !.at = "wait", !.user = u]
    <3>1. Open(s, r) /\ UNCHANGED <<sessions, audit, silent>> /\ r.at \notin {"ended", "revoked"}
      BY <2>4 DEF DeleteUser, NoReq
    <3> QED BY <3>1, <2>1
  <2>5. ASSUME NEW u \in Users, NEW a \in Admins, BeginImpersonation(s, a, u) PROVE Goal
    <3> DEFINE r == [NoReq EXCEPT !.at = "create", !.user = u, !.by = a]
    <3>1. Open(s, r) /\ UNCHANGED <<sessions, audit, silent>> /\ r.at \notin {"ended", "revoked"}
      BY <2>5 DEF BeginImpersonation, NoReq
    <3> QED BY <3>1, <2>1
  <2>6. ASSUME NEW u \in Users, SignIn(s, u) PROVE Goal
    <3> DEFINE r == [NoReq EXCEPT !.at = "create", !.user = u]
    <3>1. Open(s, r) /\ UNCHANGED <<sessions, audit, silent>> /\ r.at \notin {"ended", "revoked"}
      BY <2>6 DEF SignIn, NoReq
    <3> QED BY <3>1, <2>1
  <2> QED BY <1>10, <2>2, <2>3, <2>4, <2>5, <2>6 DEF SessionCall
<1>11. ASSUME NEW s \in Slots, SessionStep(s) PROVE Goal
  <2>1. CASE Create(s)
    <3>1. Others(s)
      BY <2>1, <1>a, <1>e DEF Create, Others
    <3> QED BY <2>1, <3>1 DEF Goal
  <2>2. CASE Started(s) \/ Serve(s)
    BY <2>2, <1>c, <1>e DEF Started, Serve, At
  <2>3. CASE Snapshot(s)
    <3>1. UNCHANGED <<sessions, audit, silent>> /\ req[s].at = "delete" /\ (Step(s, "deleting") \/ Step(s, "dropping") \/ Done(s))
      BY <2>3 DEF Snapshot, At
    <3>2. Others(s) /\ req'[s].at \in {"deleting", "dropping", "idle"}
      BY <3>1, <1>e, <1>f DEF Phases
    <3> QED BY <3>1, <3>2, <1>c
  <2>4. CASE Drop(s)
    BY <2>4, <1>e DEF Drop, Goal
  <2>5. CASE Delete(s)
    <3>1. Others(s)
      BY <2>5, <1>a, <1>e DEF Delete, Others
    <3> QED BY <2>5, <3>1 DEF Goal
  <2>6. CASE Ended(s)
    BY <2>6, <1>e DEF Ended, Goal
  <2>7. CASE FindUser(s)
    <3>1. UNCHANGED <<sessions, audit, silent>> /\ req[s].at = "user" /\ Others(s)
      BY <2>7, <1>a, <1>e DEF FindUser, At, Others
    <3>2. req'[s].at \in {"serve", "idle"}
      BY <2>7, <1>a, <1>e DEF FindUser, Request
    <3> QED BY <3>1, <3>2, <1>c
  <2>9. CASE Revoke(s)
    <3>1. Others(s)
      BY <2>9, <1>a, <1>e DEF Revoke, Others
    <3> QED BY <2>9, <3>1 DEF Goal
  <2>10. CASE Revoked(s)
    BY <2>10, <1>e DEF Revoked, Goal
  <2>11. CASE Dispatched(s)
    <3>1. UNCHANGED <<sessions, audit, silent>> /\ req[s].at = "wait" /\ Step(s, "revoke")
      BY <2>11 DEF Dispatched, At
    <3>2. Others(s) /\ req'[s].at = "revoke"
      BY <3>1, <1>f DEF Phases
    <3> QED BY <3>1, <3>2, <1>c
  <2> QED BY <1>11, <2>1, <2>2, <2>3, <2>4, <2>5, <2>6, <2>7, <2>9, <2>10, <2>11 DEF SessionStep
<1>12. CASE Restart \/ Sweep \/ \E t \in Tokens : Expire(t)
  BY <1>12 DEF Goal
<1>13. CASE ModelStep
  BY <1>13, <1>b DEF ModelStep, Rebuild, Drained, Apply
<1> QED BY <1>1, <1>2, <1>3, <1>4, <1>5, <1>6, <1>9, <1>10, <1>11, <1>12, <1>13 DEF Next, ModelStep

\* What the journal tells stays true.
LEMMA AttestStep == Typed /\ Left /\ Attest /\ [Next]_vars => Attest'
<1> SUFFICES ASSUME Typed, Left, Attest, [Next]_vars PROVE Attest'
  OBVIOUS
<1>a. /\ req \in [Slots -> Request] /\ sessions \in [Tokens -> Session \cup {None}]
      /\ Grows /\ ended \subseteq Made
  BY TypedStep DEF Typed, RequestsTyped, RowsTyped
<1>b. Stored' \cap Made \subseteq Stored /\ Made \subseteq Made'
  BY <1>a DEF Grows, Stored
<1>k. ASSUME NEW q \in Slots, req'[q] = req[q] PROVE Attested(q)'
  <2>1. Attested(q) /\ Carried(req[q], given, Made, Len(ceremonies)) /\ Barred(req[q], left, active, Unheard)
    BY DEF Attest, Typed, RequestsTyped, Left
  <2>2. CASE req[q].at = "ended"
    <3>1. req[q].token \in Made
      BY <2>1, <2>2 DEF Carried, Ending, Typed, RowsTyped
    <3> QED BY <2>1, <2>2, <3>1, <1>k, <1>b DEF Attested
  <2>3. CASE req[q].at = "revoked"
    <3>1. req[q].user \notin active
      BY <2>1, <2>3 DEF Barred
    <3>2. ASSUME NEW t \in Stored', sessions'[t].user = req[q].user PROVE sessions'[t].late
      <4>1. CASE t \in Made
        BY <4>1, <3>2, <2>1, <2>3, <1>a, <1>b DEF Grows, Attested
      <4>2. CASE t \in Made' \ Made
        BY <4>2, <3>1, <3>2, <1>a DEF Grows
      <4> QED BY <4>1, <4>2 DEF Stored
    <3>3. \A t \in req[q].gone : t \in Made' /\ sessions'[t].user = req[q].user
      BY <2>1, <2>3, <1>a DEF Attested, Grows
    <3> QED BY <2>3, <3>2, <3>3, <1>k DEF Attested
  <2>4. CASE req[q].at \notin {"ended", "revoked"}
    BY <2>4, <1>k DEF Attested
  <2> QED BY <2>2, <2>3, <2>4
<1>n. ASSUME NEW q \in Slots, req'[q].at \notin {"ended", "revoked"} PROVE Attested(q)'
  BY <1>n DEF Attested
<1>j. ASSUME NEW T \in SUBSET Made, ended' \subseteq ended \cup T, T \cap Stored' = {},
             NEW U, revoked' \subseteq revoked \cup U,
             \A t \in Stored' : sessions'[t].user \in U => sessions'[t].late
      PROVE  JournalIsTrue'
  <2>1. ended' \subseteq Made' \ Stored'
    BY <1>j, <1>a, <1>b DEF Attest, JournalIsTrue
  <2>2. ASSUME NEW t \in Stored', sessions'[t].user \in revoked PROVE sessions'[t].late
    <3>1. CASE t \in Made
      BY <3>1, <2>2, <1>a, <1>b DEF Grows, Attest, JournalIsTrue
    <3>2. CASE t \in Made' \ Made
      BY <3>2, <2>2, <1>a DEF Grows, Left
    <3> QED BY <3>1, <3>2 DEF Stored
  <2> QED BY <1>j, <2>1, <2>2 DEF JournalIsTrue
<1>u. ASSUME ended' = ended, revoked' = revoked PROVE JournalIsTrue'
  <2>1. {} \in SUBSET Made /\ {} \cap Stored' = {} /\ \A t \in Stored' : sessions'[t].user \in {} => sessions'[t].late
    OBVIOUS
  <2>2. ended' \subseteq ended \cup {} /\ revoked' \subseteq revoked \cup {}
    BY <1>u
  <2> QED BY <2>1, <2>2, <1>j
<1>d. ASSUME NEW s \in Slots, Others(s), Attested(s)', JournalIsTrue' PROVE Attest'
  <2> SUFFICES ASSUME NEW q \in Slots PROVE Attested(q)'
    BY <1>d DEF Attest
  <2>1. CASE q = s
    BY <2>1, <1>d
  <2>2. CASE q # s
    BY <2>2, <1>d, <1>k DEF Others
  <2> QED BY <2>1, <2>2
<1>e. ASSUME NEW s \in Slots, Done(s) PROVE Attested(s)'
  <2>1. req'[s].at = "idle"
    BY <1>e, <1>a, DoneMoves DEF NoReq
  <2> QED BY <2>1, <1>n
<1> USE DEF audit
<1>1. CASE Apart
  <2> SUFFICES ASSUME NEW q \in Slots PROVE Attested(q)'
    BY <1>1, <1>u DEF Attest, Apart
  <2> QED BY <1>1, <1>k, <1>n DEF Apart
<1>2. CASE Sweep \/ \E t \in Tokens : Expire(t)
  <2>1. UNCHANGED <<ended, revoked, req>>
    BY <1>2 DEF Sweep, Expire
  <2> SUFFICES ASSUME NEW q \in Slots PROVE Attested(q)'
    BY <2>1, <1>u DEF Attest
  <2> QED BY <2>1, <1>k
<1>3. CASE Restart
  <2>1. UNCHANGED <<ended, revoked>> /\ \A q \in Slots : req'[q] = NoReq
    BY <1>3 DEF Restart, SessionRestart
  <2> SUFFICES ASSUME NEW q \in Slots PROVE Attested(q)'
    BY <2>1, <1>u DEF Attest
  <2> QED BY <2>1, <1>n DEF NoReq
<1>4. ASSUME NEW s \in Slots, Others(s), Create(s) PROVE Attest'
  <2>1. UNCHANGED <<ended, revoked>>
    BY <1>4 DEF Create
  <2>2. req'[s].at \in {"started", "idle"}
    BY <1>4, <1>a, DoneMoves DEF Create, NoReq, Request
  <2> QED BY <1>4, <2>1, <2>2, <1>d, <1>n, <1>u
<1>5. ASSUME NEW s \in Slots, Others(s), Drop(s) PROVE Attest'
  BY <1>5, <1>d, <1>e, <1>u DEF Drop
<1>6. ASSUME NEW s \in Slots, Others(s), Delete(s) PROVE Attest'
  <2>1. UNCHANGED <<ended, revoked>>
    BY <1>6 DEF Delete
  <2>2. CASE Done(s)
    BY <1>6, <2>1, <2>2, <1>d, <1>e, <1>u
  <2>3. CASE /\ sessions' = Removed({req[s].token})
             /\ req' = [req EXCEPT ![s].at = "ended", ![s].gone = {req[s].token} \cap Stored]
    <3>1. req[s].token \in Made
      BY <1>6 DEF Delete, At, Carried, Ending, Typed, RowsTyped, RequestsTyped
    <3>4. {req[s].token} \in SUBSET Made
      BY <3>1
    <3> DEFINE T == {req[s].token}
    <3>6. sessions' = Removed(T) /\ req[s].token \in T
      BY <2>3
    <3> HIDE DEF T
    <3>5. ~sessions'[req[s].token].stored
      <4>1. T \in SUBSET Made
        BY <3>4 DEF T
      <4> QED BY <3>1, <3>6, <4>1, <1>a, RemovedTyped
    <3>2. req[s].token \notin Stored'
      BY <3>5 DEF Stored
    <3>3. req'[s].at = "ended" /\ req'[s].token = req[s].token /\ req'[s].gone \subseteq {req[s].token}
      BY <2>3, <1>a DEF Request
    <3> QED BY <1>6, <2>1, <3>2, <3>3, <1>d, <1>u DEF Attested
  <2> QED BY <1>6, <2>2, <2>3 DEF Delete
<1>7. ASSUME NEW s \in Slots, Others(s), Ended(s) PROVE Attest'
  <2>1. /\ req[s].token \in Made /\ req[s].token \notin Stored
        /\ ended' \subseteq ended \cup {req[s].token} /\ Stored' = Stored /\ revoked' = revoked
    BY <1>7 DEF Ended, At, Carried, Ending, Typed, RowsTyped, RequestsTyped, Attest, Attested, Stored, Made
  <2>2. JournalIsTrue'
    <3>1. {req[s].token} \in SUBSET Made /\ {req[s].token} \cap Stored' = {}
      BY <2>1
    <3>2. revoked' \subseteq revoked \cup {} /\ \A t \in Stored' : sessions'[t].user \in {} => sessions'[t].late
      BY <2>1
    <3> QED BY <2>1, <3>1, <3>2, <1>j
  <2> QED BY <1>7, <2>2, <1>d, <1>e DEF Ended
<1>8. ASSUME NEW s \in Slots, Others(s), Revoke(s) PROVE Attest'
  <2>1. UNCHANGED <<ended, revoked>>
    BY <1>8 DEF Revoke
  <2>2. CASE Done(s)
    BY <1>8, <2>1, <2>2, <1>d, <1>e, <1>u
  <2>3. CASE /\ sessions' = Removed(Of(req[s].user))
             /\ req' = [req EXCEPT ![s].at = "revoked", ![s].gone = Of(req[s].user)]
    <3>1. Of(req[s].user) \subseteq Made /\ \A t \in Of(req[s].user) : sessions[t].user = req[s].user
      BY DEF Of, Stored
    <3>2. \A t \in Stored' : sessions'[t].user # req[s].user
      BY <2>3, <3>1, <1>a, RemovedTyped DEF Stored, Of
    <3>3. \A t \in Of(req[s].user) : t \in Made' /\ sessions'[t].user = req[s].user
      BY <3>1, <1>a DEF Grows
    <3>4. req'[s].at = "revoked" /\ req'[s].user = req[s].user /\ req'[s].gone = Of(req[s].user)
      BY <2>3, <1>a DEF Request
    <3> QED BY <1>8, <2>1, <3>2, <3>3, <3>4, <1>d, <1>u DEF Attested
  <2> QED BY <1>8, <2>2, <2>3 DEF Revoke
<1>9. ASSUME NEW s \in Slots, Others(s), Revoked(s) PROVE Attest'
  <2>1. /\ \A t \in Stored : sessions[t].user = req[s].user => sessions[t].late
        /\ revoked' \subseteq revoked \cup {req[s].user} /\ sessions' = sessions /\ Stored' = Stored /\ ended' = ended
    BY <1>9 DEF Revoked, At, Attest, Attested, Stored, Made
  <2>2. JournalIsTrue'
    <3>1. ended' \subseteq ended \cup {} /\ {} \cap Stored' = {}
      BY <2>1
    <3>2. \A t \in Stored' : sessions'[t].user \in {req[s].user} => sessions'[t].late
      BY <2>1
    <3> QED BY <2>1, <3>1, <3>2, <1>j
  <2> QED BY <1>9, <2>2, <1>d, <1>e DEF Revoked
<1> QED BY JournalSteps, <1>1, <1>2, <1>3, <1>4, <1>5, <1>6, <1>7, <1>8, <1>9

\* Session t has an explanation, or a request on its way to write it.
Explained(t) ==
  \/ t \in silent \/ sessions[t].expired
  \/ t \in ended \/ sessions[t].user \in revoked
  \/ \E s \in Slots : t \in req[s].gone

\* A row that goes is explained; what was explained stays explained.
LEMMA GoneStep == Typed /\ Attest /\ GoneIsExplained /\ [Next]_vars => GoneIsExplained'
<1> SUFFICES ASSUME Typed, Attest, GoneIsExplained, [Next]_vars PROVE GoneIsExplained'
  OBVIOUS
<1>a. /\ req \in [Slots -> Request] /\ sessions \in [Tokens -> Session \cup {None}]
      /\ Grows
  BY TypedStep DEF Typed, RequestsTyped, RowsTyped
<1>b. \A t \in Made \ Stored : Explained(t)
  BY DEF GoneIsExplained, Explained
<1>c. ASSUME \A t \in Made' \ Stored' : Explained(t)' PROVE GoneIsExplained'
  BY <1>c DEF GoneIsExplained, Explained
<1>z. \A q \in Slots : req[q].at \notin {"ended", "revoked"} => req[q].gone = {}
  BY DEF Typed, RequestsTyped, Carried
\* Lost: the rows that go.  What a request was to write is written, or it is silent.
<1>d. ASSUME NEW Lost, Stored \subseteq Stored' \cup Lost, ended \subseteq ended', revoked \subseteq revoked', silent \subseteq silent',
             \A t \in Lost \ Stored' : t \in Made => Explained(t)',
             \A q \in Slots : \A t \in req[q].gone : t \in Made => Explained(t)'
      PROVE  GoneIsExplained'
  <2> SUFFICES ASSUME NEW t \in Made' \ Stored' PROVE Explained(t)'
    BY <1>c
  <2>1. t \in Made
    BY <1>a DEF Grows, Stored
  <2>2. CASE t \in Stored
    BY <2>1, <2>2, <1>d
  <2>3. CASE t \notin Stored
    <3>1. Explained(t)
      BY <2>1, <2>3, <1>b
    <3>2. sessions'[t].user = sessions[t].user /\ (sessions[t].expired => sessions'[t].expired)
      BY <2>1, <1>a DEF Grows
    <3>3. CASE \E s \in Slots : t \in req[s].gone
      BY <2>1, <3>3, <1>d
    <3> QED BY <3>1, <3>2, <3>3, <1>d DEF Explained
  <2> QED BY <2>2, <2>3
<1>e. ASSUME NEW s \in Slots, Others(s), NEW q \in Slots \ {s}, NEW t \in req[q].gone PROVE Explained(t)'
  <2>1. t \in req'[q].gone
    BY <1>e DEF Others
  <2> QED BY <2>1 DEF Explained
\* Only the request of slot s moves, and it has no entry to write.
<1>f. ASSUME NEW s \in Slots, Others(s), req[s].gone = {}, NEW Lost, Stored \subseteq Stored' \cup Lost,
             ended' = ended, revoked' = revoked, silent \subseteq silent',
             \A t \in Lost \ Stored' : t \in Made => Explained(t)'
      PROVE  GoneIsExplained'
  <2>1. \A q \in Slots : \A t \in req[q].gone : t \in Made => Explained(t)'
    <3> SUFFICES ASSUME NEW q \in Slots, NEW t \in req[q].gone PROVE Explained(t)'
      OBVIOUS
    <3> QED BY <1>f, <1>e
  <2> QED BY <2>1, <1>f, <1>d
<1> USE DEF audit, history
<1>1. CASE Apart
  <2>1. \A q \in Slots : req[q].gone \subseteq req'[q].gone
    BY <1>1, <1>z DEF Apart
  <2>2. UNCHANGED <<ended, revoked, silent>> /\ Stored' = Stored
    BY <1>1 DEF Apart, Stored, Made
  <2>3. \A q \in Slots : \A t \in req[q].gone : t \in Made => Explained(t)'
    <3> SUFFICES ASSUME NEW q \in Slots, NEW t \in req[q].gone PROVE Explained(t)'
      OBVIOUS
    <3> QED BY <2>1 DEF Explained
  <2> QED BY <2>2, <2>3, <1>d
<1>2. CASE Sweep \/ \E t \in Tokens : Expire(t)
  <2>1. UNCHANGED <<ended, revoked, silent, req>>
    BY <1>2 DEF Sweep, Expire
  <2>2. \A q \in Slots : \A t \in req[q].gone : t \in Made => Explained(t)'
    <3> SUFFICES ASSUME NEW q \in Slots, NEW t \in req[q].gone PROVE Explained(t)'
      OBVIOUS
    <3> QED BY <2>1 DEF Explained
  <2>3. Stored \subseteq Stored' \cup {t \in Stored : sessions[t].expired}
    <3>1. CASE Sweep
      BY <3>1, <1>a, RemovedTyped DEF Sweep, Stored
    <3>2. ASSUME NEW t \in Tokens, Expire(t) PROVE Stored \subseteq Stored'
      <4>1. t \in Made /\ sessions[t] \in Session /\ sessions[t].stored /\ \A k \in Tokens \ {t} : sessions'[k] = sessions[k]
        BY <3>2, <1>a DEF Expire, Stored, Made
      <4>2. sessions'[t].stored
        BY <3>2, <4>1, <1>a DEF Expire, Session
      <4> QED BY <4>1, <4>2, <1>a DEF Grows, Stored, Made
    <3> QED BY <1>2, <3>1, <3>2
  <2>4. ASSUME NEW t \in {x \in Stored : sessions[x].expired} PROVE Explained(t)'
    BY <1>a DEF Explained, Stored, Grows
  <2> QED BY <2>1, <2>2, <2>3, <2>4, <1>d
<1>3. CASE Restart
  <2>1. /\ UNCHANGED <<ended, revoked, sessions>>
        /\ silent' = silent \cup UNION {req[s].gone : s \in Slots}
    BY <1>3 DEF Restart, SessionRestart
  <2>2. Stored' = Stored
    BY <2>1 DEF Stored, Made
  <2>3. \A q \in Slots : \A t \in req[q].gone : t \in Made => Explained(t)'
    <3> SUFFICES ASSUME NEW q \in Slots, NEW t \in req[q].gone PROVE Explained(t)'
      OBVIOUS
    <3> QED BY <2>1 DEF Explained
  <2> QED BY <2>1, <2>2, <2>3, <1>d
<1>4. ASSUME NEW s \in Slots, Others(s), Create(s) PROVE GoneIsExplained'
  <2>1. UNCHANGED <<ended, revoked, silent>> /\ req[s].gone = {}
    BY <1>4, <1>z DEF Create, At
  <2>2. \A k \in Made : sessions'[k] = sessions[k]
    BY <1>4, <1>a DEF Create, Made
  <2>3. Stored \subseteq Stored'
    BY <2>2, <1>a DEF Stored, Grows
  <2> QED BY <1>4, <2>1, <2>3, <1>f
<1>5. ASSUME NEW s \in Slots, Others(s), Drop(s) PROVE GoneIsExplained'
  <2>1. UNCHANGED <<ended, revoked>> /\ req[s].gone = {} /\ req[s].token \in Made
    BY <1>5, <1>z DEF Drop, At, Carried, Ending, Typed, RowsTyped, RequestsTyped
  <2>2. Stored \subseteq Stored' \cup ({req[s].token} \cap Stored)
    BY <1>5, <2>1, <1>a, RemovedTyped DEF Drop, Stored, Made
  <2>3. /\ silent \subseteq silent'
        /\ \A t \in ({req[s].token} \cap Stored) \ Stored' : t \in silent'
    BY <1>5 DEF Drop, Stored, Made
  <2>4. \A t \in ({req[s].token} \cap Stored) \ Stored' : t \in Made => Explained(t)'
    BY <2>3 DEF Explained
  <2> QED BY <1>5, <2>1, <2>2, <2>3, <2>4, <1>f
<1>6. ASSUME NEW s \in Slots, Others(s), Delete(s) PROVE GoneIsExplained'
  <2> DEFINE L == {req[s].token} \cap Stored
  <2>1. UNCHANGED <<ended, revoked>> /\ req[s].gone = {} /\ req[s].token \in Made /\ silent \subseteq silent'
    BY <1>6, <1>z DEF Delete, At, Carried, Ending, Typed, RowsTyped, RequestsTyped
  <2>2. Stored \subseteq Stored' \cup L
    BY <1>6, <2>1, <1>a, RemovedTyped DEF Delete, Stored, Made
  <2>3. \A t \in L \ Stored' : t \in silent' \/ t \in req'[s].gone
    BY <1>6, <1>a DEF Delete, Stored, Made, Request
  <2>4. \A t \in L \ Stored' : t \in Made => Explained(t)'
    BY <2>3 DEF Explained
  <2> QED BY <1>6, <2>1, <2>2, <2>4, <1>f
<1>7. ASSUME NEW s \in Slots, Others(s), Ended(s) PROVE GoneIsExplained'
  <2>1. /\ ended \subseteq ended' /\ revoked' = revoked /\ silent \subseteq silent' /\ Stored' = Stored
        /\ req[s].gone \subseteq ended' \cup silent'
    BY <1>7 DEF Ended, At, Attest, Attested, Stored, Made
  <2>3. \A q \in Slots : \A t \in req[q].gone : t \in Made => Explained(t)'
    <3> SUFFICES ASSUME NEW q \in Slots, NEW t \in req[q].gone PROVE Explained(t)'
      OBVIOUS
    <3>1. CASE q = s
      BY <3>1, <2>1 DEF Explained
    <3>2. CASE q # s
      BY <3>2, <1>7, <1>e
    <3> QED BY <3>1, <3>2
  <2> QED BY <2>1, <2>3, <1>d
<1>8. ASSUME NEW s \in Slots, Others(s), Revoke(s) PROVE GoneIsExplained'
  <2> DEFINE L == Of(req[s].user)
  <2>1. UNCHANGED <<ended, revoked>> /\ req[s].gone = {} /\ silent \subseteq silent' /\ L \subseteq Made
    BY <1>8, <1>z DEF Revoke, At, Of, Stored
  <2>2. Stored \subseteq Stored' \cup L
    BY <1>8, <2>1, <1>a, RemovedTyped DEF Revoke, Stored, Made
  <2>3. \A t \in L \ Stored' : t \in silent' \/ t \in req'[s].gone
    BY <1>8, <1>a DEF Revoke, Stored, Made, Request, Of
  <2>4. \A t \in L \ Stored' : t \in Made => Explained(t)'
    BY <2>3 DEF Explained
  <2> QED BY <1>8, <2>1, <2>2, <2>4, <1>f
<1>9. ASSUME NEW s \in Slots, Others(s), Revoked(s) PROVE GoneIsExplained'
  <2>1. /\ ended' = ended /\ revoked \subseteq revoked' /\ silent \subseteq silent' /\ Stored' = Stored /\ sessions' = sessions
        /\ \A t \in req[s].gone : sessions[t].user \in revoked' \/ t \in silent'
    BY <1>9 DEF Revoked, At, Attest, Attested, Stored, Made
  <2>3. \A q \in Slots : \A t \in req[q].gone : t \in Made => Explained(t)'
    <3> SUFFICES ASSUME NEW q \in Slots, NEW t \in req[q].gone PROVE Explained(t)'
      OBVIOUS
    <3>1. CASE q = s
      BY <3>1, <2>1 DEF Explained
    <3>2. CASE q # s
      BY <3>2, <1>9, <1>e
    <3> QED BY <3>1, <3>2
  <2> QED BY <2>1, <2>3, <1>d
<1> QED BY JournalSteps, <1>1, <1>2, <1>3, <1>4, <1>5, <1>6, <1>7, <1>8, <1>9

(***************************************************************************)
(* Ceremonies.                                                             *)
(***************************************************************************)
\* E: the ceremonies; C: the stored counts.  Answer c of user u has logged in.
Spent(c, u, E, C) ==
  /\ c \in 1 .. Len(E) /\ E[c].count # None /\ E[c].user = u
  /\ u \in Counting => C[u] \in Nat /\ E[c].count <= C[u]

\* A request about to check an answer read a count that has only grown since.
Checked(r, E, C) ==
  r.at = "verify" =>
    /\ C[r.user] \in Nat
    /\ r.seen # None => r.seen \in Nat /\ r.seen <= C[r.user]
    /\ r.ch # 0 => r.ch \in 1 .. Len(E) /\ E[r.ch].count # None /\ E[r.ch].user = r.user

\* A request whose answer was accepted and has no session yet.
Using(r) == r.at \in {"drop", "reset", "create"} /\ r.ch # 0

\* The store under its keys; the counts of what a counting device signed.
Challenges ==
  /\ \A kind \in Kinds, u \in Users :
       store[<<kind, u>>] # 0 =>
         ceremonies[store[<<kind, u>>]].kind = kind /\ ceremonies[store[<<kind, u>>]].user = u
  /\ \A u \in Users : store[<<"login:", u>>] # 0 => count[u] # None
  /\ \A c \in Ids : ceremonies[c].count # None /\ ceremonies[c].user \in Counting => ceremonies[c].count > 0

\* The requests about to check, the answers used, and that no two used the same.
Tried == \A s \in Slots : Checked(req[s], ceremonies, count)

Use ==
  /\ \A s \in Slots : Using(req[s]) => Spent(req[s].ch, req[s].user, ceremonies, count)
  /\ \A t \in Made : sessions[t].via # 0 => Spent(sessions[t].via, sessions[t].user, ceremonies, count)

Unique ==
  /\ AnswerLogsInOnce
  /\ \A t \in Made, s \in Slots :
       Using(req[s]) /\ sessions[t].via = req[s].ch => req[s].user \notin Counting
  /\ \A q, s \in Slots :
       q # s /\ Using(req[q]) /\ Using(req[s]) /\ req[q].ch = req[s].ch => req[s].user \notin Counting

Once == Challenges /\ Tried /\ Use /\ Unique

CountGrows == \A u \in Users : count[u] \in Nat => count'[u] \in Nat /\ count[u] <= count'[u]

\* An answer that has logged in stays behind the stored count.
LEMMA SpentLasts ==
  ASSUME Lasts, CountGrows, NEW c, NEW u \in Users, Len(ceremonies) \in Nat, Len(ceremonies') \in Nat,
         ceremonies \in Seq(Ceremony), Spent(c, u, ceremonies, count)
  PROVE  Spent(c, u, ceremonies', count')
<1>1. /\ c \in 1 .. Len(ceremonies) /\ ceremonies[c].count # None /\ ceremonies[c].user = u
      /\ u \in Counting => count[u] \in Nat /\ ceremonies[c].count <= count[u]
  BY DEF Spent
<1>2. /\ c \in 1 .. Len(ceremonies') /\ ceremonies'[c].user = u
      /\ ceremonies'[c].count = ceremonies[c].count
  BY <1>1 DEF Lasts, Ids
<1>3. ceremonies[c] \in Ceremony
  BY <1>1
<1>4. ceremonies[c].count \in Nat
  BY <1>1, <1>3 DEF Ceremony
<1>5. u \in Counting => count'[u] \in Nat /\ ceremonies[c].count <= count'[u]
  BY <1>1, <1>4 DEF CountGrows
<1> QED BY <1>1, <1>2, <1>5 DEF Spent

\* The count a request read stays at most the stored one.
LEMMA CheckedLasts ==
  ASSUME Lasts, CountGrows, NEW r, r.at = "verify" => r.user \in Users, Len(ceremonies) \in Nat,
         Len(ceremonies') \in Nat, r.seen \in Nat \cup {None}, Checked(r, ceremonies, count)
  PROVE  Checked(r, ceremonies', count')
<1> SUFFICES ASSUME r.at = "verify" PROVE Checked(r, ceremonies', count')
  BY DEF Checked
<1>1. /\ count[r.user] \in Nat
      /\ r.seen # None => r.seen \in Nat /\ r.seen <= count[r.user]
      /\ r.ch # 0 => r.ch \in 1 .. Len(ceremonies) /\ ceremonies[r.ch].count # None /\ ceremonies[r.ch].user = r.user
  BY DEF Checked
<1>2. count'[r.user] \in Nat /\ count[r.user] <= count'[r.user]
  BY <1>1 DEF CountGrows
<1>3. r.ch # 0 => /\ r.ch \in 1 .. Len(ceremonies') /\ ceremonies'[r.ch].user = r.user
                  /\ ceremonies'[r.ch].count # None
  BY <1>1 DEF Lasts, Ids
<1> QED BY <1>1, <1>2, <1>3 DEF Checked

(***************************************************************************)
(* The use of an answer.                                                   *)
(***************************************************************************)
\* The decider lets an answer of a counting device through only once.
LEMMA RecordUseOnce ==
  ASSUME Typed, Once, NEW s \in Slots, RecordUse(s)
  PROVE  /\ CountGrows /\ UNCHANGED <<store, ceremonies, sessions>> /\ Others(s)
         /\ \/ req'[s].at = "idle"
            \/ LET c == req[s].ch
                   u == req[s].user
               IN  /\ Kept(s, "drop") /\ c # 0 /\ Spent(c, u, ceremonies, count')
                   /\ u \in Counting => ~Spent(c, u, ceremonies, count)
<1> DEFINE c == req[s].ch
           u == req[s].user
<1>1. req \in [Slots -> Request] /\ count \in [Users -> Nat \cup {None}] /\ ceremonies \in Seq(Ceremony)
  BY DEF Typed, RequestsTyped, CeremoniesTyped
<1>2. /\ req[s].at = "verify" /\ c # 0 /\ req[s].seen # None /\ UNCHANGED <<store, ceremonies, sessions>>
      /\ \/ count' = count /\ Done(s)
         \/ /\ ~CounterRegressed(u, Reported(s))
            /\ count' = [count EXCEPT ![u] = Reported(s)] /\ Step(s, "drop")
  BY DEF RecordUse, At, Accepted, base
<1>3. u \in Users
  BY <1>2 DEF Typed, RequestsTyped, Carried, Ending
<1>4. /\ req[s].seen \in Nat /\ count[u] \in Nat /\ req[s].seen <= count[u]
      /\ c \in 1 .. Len(ceremonies) /\ ceremonies[c].count # None /\ ceremonies[c].user = u
  BY <1>2 DEF Once, Tried, Checked
<1>5. ceremonies[c] \in Ceremony
  BY <1>1, <1>4
<1>6. ceremonies[c].count \in Nat
  BY <1>4, <1>5 DEF Ceremony
<1>7. u \in Counting => ceremonies[c].count > 0
  BY <1>4 DEF Once, Challenges, Ids
<1>8. CASE count' = count /\ Done(s)
  <2>1. Others(s) /\ req'[s].at = "idle"
    <3>1. NoReq.at = "idle"
      BY DEF NoReq
    <3> QED BY <1>1, <1>8, <3>1, DoneMoves DEF Others
  <2> QED BY <1>2, <1>8, <2>1 DEF CountGrows
<1>9. CASE /\ ~CounterRegressed(u, Reported(s))
           /\ count' = [count EXCEPT ![u] = Reported(s)] /\ Step(s, "drop")
  <2>1. Others(s) /\ Kept(s, "drop")
    BY <1>1, <1>9, StepMoves DEF Others, Phases
  <2>2. /\ Reported(s) \in Nat /\ ceremonies[c].count <= Reported(s)
        /\ Reported(s) = ceremonies[c].count \/ Reported(s) = req[s].seen
    BY <1>4, <1>6 DEF Reported
  <2>3. Reported(s) > count[u] \/ (Reported(s) = 0 /\ count[u] = 0)
    BY <1>4, <1>9, <2>2 DEF CounterRegressed
  <2>4. CountGrows /\ count'[u] = Reported(s)
    BY <1>1, <1>3, <1>4, <1>9, <2>2, <2>3 DEF CountGrows
  <2>5. Spent(c, u, ceremonies, count')
    BY <1>4, <2>2, <2>4 DEF Spent
  <2>6. u \in Counting => ~Spent(c, u, ceremonies, count)
    BY <1>4, <1>6, <1>7, <2>2, <2>3 DEF Spent
  <2> QED BY <1>2, <2>1, <2>4, <2>5, <2>6
<1> QED BY <1>2, <1>8, <1>9

\* The challenge store keeps to its keys, and stored counts only grow.
LEMMA ChallengesStep == Typed /\ Once /\ [Next]_vars => Challenges' /\ CountGrows
<1> SUFFICES ASSUME Typed, Once, [Next]_vars PROVE Challenges' /\ CountGrows
  OBVIOUS
<1>a. /\ store \in [Kinds \X Users -> Nat] /\ count \in [Users -> Nat \cup {None}]
      /\ ceremonies \in Seq(Ceremony) /\ \A k \in Kinds \X Users : store[k] <= Len(ceremonies)
  BY DEF Typed, CeremoniesTyped
<1>b. ASSUME UNCHANGED <<store, count, ceremonies>> PROVE Challenges' /\ CountGrows
  BY <1>b DEF Once, Challenges, Ids, CountGrows
<1>c. ASSUME NEW k \in Kinds \X Users, store' = [store EXCEPT ![k] = 0], UNCHANGED <<count, ceremonies>>
      PROVE  Challenges' /\ CountGrows
  <2>1. \A kind \in Kinds, u \in Users : store'[<<kind, u>>] \in {0, store[<<kind, u>>]}
    BY <1>a, <1>c
  <2> QED BY <1>c, <2>1 DEF Once, Challenges, Ids, CountGrows
<1>d. ASSUME NEW kind \in Kinds, NEW u \in Users, Begin(kind, u), count' = count,
             kind = "login:" => count[u] # None
      PROVE  Challenges' /\ CountGrows
  <2>1. /\ ceremonies' \in Seq(Ceremony) /\ Lasts /\ Len(ceremonies') = Len(ceremonies) + 1
        /\ ceremonies'[Len(ceremonies')] = [kind |-> kind, user |-> u, count |-> None]
        /\ store' = [store EXCEPT ![<<kind, u>>] = Len(ceremonies')]
    BY <1>d, BeginTyped DEF Typed
  <2>2. ASSUME NEW x \in Kinds, NEW v \in Users, store'[<<x, v>>] # 0
        PROVE  /\ ceremonies'[store'[<<x, v>>]].kind = x /\ ceremonies'[store'[<<x, v>>]].user = v
               /\ x = "login:" => count'[v] # None
    <3>1. CASE x = kind /\ v = u
      BY <1>a, <1>d, <2>1, <2>2, <3>1
    <3>2. CASE ~(x = kind /\ v = u)
      <4>1. store'[<<x, v>>] = store[<<x, v>>]
        BY <1>a, <2>1, <3>2
      <4>2. store[<<x, v>>] \in Ids
        BY <1>a, <2>2, <4>1 DEF Ids
      <4>3. /\ ceremonies[store[<<x, v>>]].kind = x /\ ceremonies[store[<<x, v>>]].user = v
            /\ x = "login:" => count[v] # None
        BY <2>2, <4>1 DEF Once, Challenges
      <4> QED BY <1>d, <2>1, <4>1, <4>2, <4>3 DEF Lasts
    <3> QED BY <3>1, <3>2
  <2>3. ASSUME NEW c \in Ids', ceremonies'[c].count # None, ceremonies'[c].user \in Counting
        PROVE  ceremonies'[c].count > 0
    <3>1. CASE c \in Ids
      <4>1. ceremonies' = Append(ceremonies, [kind |-> kind, user |-> u, count |-> None])
        BY <1>d DEF Begin
      <4>2. ceremonies'[c] = ceremonies[c]
        BY <1>a, <3>1, <4>1 DEF Ids
      <4> QED BY <2>3, <3>1, <4>2 DEF Once, Challenges
    <3>2. CASE c \notin Ids
      <4>1. c = Len(ceremonies')
        BY <1>a, <2>1, <3>2 DEF Ids
      <4> QED BY <2>1, <2>3, <4>1
    <3> QED BY <3>1, <3>2
  <2>4. "login:" \in Kinds
    BY DEF Kinds
  <2> QED BY <1>d, <2>2, <2>3, <2>4 DEF Challenges, CountGrows
<1>e. ASSUME CountGrows, UNCHANGED <<store, ceremonies>>, count' \in [Users -> Nat \cup {None}]
      PROVE  Challenges' /\ CountGrows
  <2>1. \A u \in Users : count[u] # None => count'[u] # None
    BY <1>a, <1>e, NoneAssumption DEF CountGrows
  <2> QED BY <1>e, <2>1 DEF Once, Challenges, Ids
<1> USE DEF login, lockout, model, base, audit, history
<1>1. CASE UNCHANGED vars
  BY <1>1, <1>b DEF vars, base, login, lockout, model, audit, history
<1>2. CASE Tick
  BY <1>2, <1>b DEF Tick
<1>3. CASE EvictStale
  BY <1>3, <1>b DEF EvictStale
<1>4. ASSUME NEW k \in Kinds \X Users, ExpireChallenge(k) PROVE (Challenges' /\ CountGrows)
  BY <1>4, <1>c DEF ExpireChallenge
<1>5. ASSUME NEW u \in Users, BeginRegistration(u) PROVE (Challenges' /\ CountGrows)
  <2>1. "reg:" \in Kinds /\ "reg:" # "login:"
    BY DEF Kinds
  <2> QED BY <1>5, <2>1, <1>d DEF BeginRegistration
<1>6. ASSUME NEW c \in Ids, Sign(c) PROVE (Challenges' /\ CountGrows)
  <2>1. /\ Lasts /\ Len(ceremonies') = Len(ceremonies)
        /\ \A d \in Ids \ {c} : ceremonies'[d] = ceremonies[d]
        /\ ceremonies[c].user \in Counting => ceremonies'[c].count > 0
    BY <1>6, SignTyped DEF Typed
  <2>2. UNCHANGED <<store, count>>
    BY <1>6 DEF Sign
  <2>3. \A d \in Ids : ceremonies'[d].count # None /\ ceremonies'[d].user \in Counting => ceremonies'[d].count > 0
    BY <2>1 DEF Once, Challenges, Lasts
  <2>4. ASSUME NEW kind \in Kinds, NEW u \in Users, store'[<<kind, u>>] # 0
        PROVE  /\ ceremonies'[store'[<<kind, u>>]].kind = kind /\ ceremonies'[store'[<<kind, u>>]].user = u
               /\ kind = "login:" => count'[u] # None
    <3>1. store[<<kind, u>>] \in Ids
      BY <1>a, <2>2, <2>4 DEF Ids
    <3> QED BY <2>1, <2>2, <2>4, <3>1 DEF Once, Challenges, Lasts
  <2>5. "login:" \in Kinds
    BY DEF Kinds
  <2> QED BY <2>1, <2>2, <2>3, <2>4, <2>5 DEF Challenges, CountGrows, Ids
<1>9. ASSUME NEW s \in Slots, LoginStep(s) PROVE (Challenges' /\ CountGrows)
  <2>1. CASE Unlock(s)
    BY <2>1, <1>b DEF Unlock
  <2>2. CASE BeginLogin(s)
    <3>1. "login:" \in Kinds /\ req[s].user \in Users
      BY <2>2 DEF BeginLogin, Kinds, At, Typed, RequestsTyped, Carried, Ending
    <3>2. Shown(req[s].user) # {None} => count[req[s].user] # None
      BY <3>1, ShownEmpty DEF Typed
    <3>3. CASE Shown(req[s].user) # {None} /\ Begin("login:", req[s].user)
      BY <2>2, <3>1, <3>2, <3>3, <1>d DEF BeginLogin
    <3> QED BY <2>2, <3>3, <1>b DEF BeginLogin
  <2>3. CASE Refuse(s)
    BY <2>3, <1>b DEF Refuse
  <2>4. CASE RecordUse(s)
    <3>1. CountGrows /\ UNCHANGED <<store, ceremonies>>
      BY <2>4, RecordUseOnce
    <3>2. count' \in [Users -> Nat \cup {None}]
      BY CeremoniesStep DEF CeremoniesTyped
    <3> QED BY <3>1, <3>2, <1>e
  <2>5. CASE DropChallenge(s)
    <3>1. req[s].user \in Users
      BY <2>5 DEF DropChallenge, At, Typed, RequestsTyped, Carried, Ending
    <3>2. Key("login:", req[s].user) \in Kinds \X Users
      BY <3>1 DEF Key, Kinds
    <3> QED BY <2>5, <3>2, <1>b, <1>c DEF DropChallenge
  <2>6. CASE Reset(s)
    BY <2>6, <1>b DEF Reset
  <2>7. CASE Register(s)
    <3>1. req[s].user \in Users
      BY <2>7 DEF Register, At, Typed, RequestsTyped, Carried, Ending
    <3>2. Key("reg:", req[s].user) \in Kinds \X Users
      BY <3>1 DEF Key, Kinds
    <3> QED BY <2>7, <3>2, <1>b, <1>c DEF Register
  <2>8. CASE AddCredential(s)
    <3>1. CountGrows
      BY <2>8, <1>a, NoneAssumption DEF AddCredential, CountGrows
    <3>2. count' \in [Users -> Nat \cup {None}]
      BY CeremoniesStep DEF CeremoniesTyped
    <3> QED BY <2>8, <3>1, <3>2, <1>e DEF AddCredential
  <2>9. ASSUME NEW u \in Users, IsLocked(s, u) PROVE (Challenges' /\ CountGrows)
    BY <2>9, <1>b DEF IsLocked
  <2>10. ASSUME NEW u \in Users, NEW c \in 0 .. Len(ceremonies), Finish(s, "login:", u, c, "verify") PROVE (Challenges' /\ CountGrows)
    BY <2>10, <1>b DEF Finish
  <2>11. ASSUME NEW u \in Users, NEW c \in 0 .. Len(ceremonies), Finish(s, "reg:", u, c, "attest") PROVE (Challenges' /\ CountGrows)
    BY <2>11, <1>b DEF Finish
  <2> QED BY <1>9, <2>1, <2>2, <2>3, <2>4, <2>5, <2>6, <2>7, <2>8, <2>9,
    <2>10, <2>11 DEF LoginStep
<1>10. CASE UNCHANGED login
  BY <1>10, <1>b
<1>11. CASE Restart
  <2>1. UNCHANGED <<count, ceremonies>> /\ \A kind \in Kinds, u \in Users : store'[<<kind, u>>] = 0
    BY <1>11 DEF Restart
  <2>2. "login:" \in Kinds
    BY DEF Kinds
  <2> QED BY <2>1, <2>2 DEF Once, Challenges, Ids, CountGrows
<1> QED BY <1>1, <1>2, <1>3, <1>4, <1>5, <1>6, <1>9, <1>10, <1>11
  DEF Next

\* Request s moves and takes up no answer that it did not use already.
Calm(s) ==
  /\ Others(s) /\ req'[s].at # "verify"
  /\ Using(req'[s]) => Using(req[s]) /\ req'[s].ch = req[s].ch /\ req'[s].user = req[s].user

Used == Tried /\ Use /\ Unique

\* Requests that take up no answer, and rows that keep theirs, leave answers used once.
LEMMA CalmKeeps ==
  ASSUME Typed, Typed', Lasts, CountGrows, Used,
         \A q \in Slots : \/ req'[q] = req[q]
                          \/ /\ req'[q].at # "verify"
                             /\ Using(req'[q]) => /\ Using(req[q]) /\ req'[q].ch = req[q].ch
                                                  /\ req'[q].user = req[q].user,
         Made' = Made,
         \A t \in Made : sessions'[t].via = sessions[t].via /\ sessions'[t].user = sessions[t].user
  PROVE  Used'
<1>a. /\ Len(ceremonies) \in Nat /\ Len(ceremonies') \in Nat /\ ceremonies \in Seq(Ceremony)
      /\ req \in [Slots -> Request] /\ sessions \in [Tokens -> Session \cup {None}]
  BY DEF Typed, CeremoniesTyped, RequestsTyped, RowsTyped
<1>b. \A q \in Slots : /\ req[q].seen \in Nat \cup {None}
                       /\ req[q].at = "verify" \/ Using(req[q]) => req[q].user \in Users
  BY <1>a DEF Typed, RequestsTyped, Carried, Ending, Using, Request
<1>c. \A t \in Made : sessions[t].user \in Users
  BY <1>a DEF Made, Session
<1>1. Tried'
  <2> SUFFICES ASSUME NEW q \in Slots PROVE Checked(req'[q], ceremonies', count')
    BY DEF Tried
  <2>1. CASE req'[q] = req[q]
    BY <1>a, <1>b, <2>1, CheckedLasts DEF Used, Tried
  <2>2. CASE req'[q].at # "verify"
    BY <2>2 DEF Checked
  <2> QED BY <2>1, <2>2
<1>2. ASSUME NEW q \in Slots, Using(req'[q])
      PROVE  Using(req[q]) /\ req'[q].ch = req[q].ch /\ req'[q].user = req[q].user
  BY <1>2
<1>3. Use'
  <2>1. ASSUME NEW q \in Slots, Using(req'[q]) PROVE Spent(req'[q].ch, req'[q].user, ceremonies', count')
    <3>1. Spent(req[q].ch, req[q].user, ceremonies, count) /\ req[q].user \in Users
      BY <1>2, <1>b, <2>1 DEF Used, Use
    <3> QED BY <1>a, <1>2, <2>1, <3>1, SpentLasts
  <2>2. ASSUME NEW t \in Made, sessions'[t].via # 0
        PROVE  Spent(sessions'[t].via, sessions'[t].user, ceremonies', count')
    <3>1. Spent(sessions[t].via, sessions[t].user, ceremonies, count)
      BY <2>2 DEF Used, Use
    <3> QED BY <1>a, <1>c, <2>2, <3>1, SpentLasts
  <2> QED BY <2>1, <2>2 DEF Use
<1>4. Unique'
  <2>1. AnswerLogsInOnce'
    BY DEF Used, Unique, AnswerLogsInOnce
  <2>2. ASSUME NEW t \in Made, NEW s \in Slots, Using(req'[s]), sessions'[t].via = req'[s].ch
        PROVE  req'[s].user \notin Counting
    BY <1>2, <2>2 DEF Used, Unique
  <2>3. ASSUME NEW q \in Slots, NEW s \in Slots, q # s, Using(req'[q]), Using(req'[s]), req'[q].ch = req'[s].ch
        PROVE  req'[s].user \notin Counting
    BY <1>2, <2>3 DEF Used, Unique
  <2> QED BY <2>1, <2>2, <2>3 DEF Unique
<1> QED BY <1>1, <1>3, <1>4 DEF Used

\* A request takes up an answer: its challenge and its count are read together.
LEMMA FinishKeeps ==
  ASSUME Typed, Typed', Once, NEW s \in Slots, NEW u \in Users, NEW c \in 0 .. Len(ceremonies),
         Finish(s, "login:", u, c, "verify")
  PROVE  Used'
<1> PICK n \in Shown(u) :
      Open(s, [NoReq EXCEPT !.at = "verify", !.user = u, !.ch = c, !.held = store[Key("login:", u)], !.seen = n])
  BY DEF Finish
<1> DEFINE r == [NoReq EXCEPT !.at = "verify", !.user = u, !.ch = c, !.held = store[Key("login:", u)], !.seen = n]
<1>1. /\ Open(s, r) /\ UNCHANGED <<login, base>> /\ store[<<"login:", u>>] # 0
      /\ c = 0 \/ (c \in Signed /\ ceremonies[c].user = u)
  BY DEF Finish, Key
<1>2. req \in [Slots -> Request] /\ count \in [Users -> Nat \cup {None}]
  BY DEF Typed, RequestsTyped, CeremoniesTyped
<1>3. Others(s) /\ req'[s] = r
  BY <1>1, <1>2 DEF Open, Others
<1>4. r.at = "verify" /\ r.user = u /\ r.ch = c /\ r.seen = n
  BY DEF NoReq
<1>5. UNCHANGED <<ceremonies, count, sessions>> /\ Made' = Made
  BY <1>1 DEF login, base, Made
<1>6. count[u] \in Nat /\ (n # None => n \in Nat /\ n <= count[u])
  BY <1>1, <1>2, ShownTyped DEF Once, Challenges, Typed
<1>7. Checked(req'[s], ceremonies, count) /\ ~Using(req'[s])
  BY <1>1, <1>3, <1>4, <1>6 DEF Checked, Using, Signed, Ids
<1>8. Tried'
  BY <1>3, <1>5, <1>7 DEF Once, Tried, Others
<1>9. \A q \in Slots : Using(req'[q]) => q # s /\ req'[q] = req[q]
  BY <1>3, <1>7 DEF Others
<1>10. Use'
  BY <1>5, <1>9 DEF Once, Use
<1>11. Unique'
  <2>1. AnswerLogsInOnce'
    BY <1>5 DEF Once, Unique, AnswerLogsInOnce
  <2> QED BY <1>5, <1>9, <2>1 DEF Once, Unique
<1> QED BY <1>8, <1>10, <1>11 DEF Used

\* The answer is used: nothing that used it before can be there.
LEMMA RecordUseKeeps ==
  ASSUME Typed, Typed', Once, NEW s \in Slots, RecordUse(s)
  PROVE  Used'
<1>1. CountGrows /\ UNCHANGED <<store, ceremonies, sessions>> /\ Others(s)
  BY RecordUseOnce
<1>2. Made' = Made /\ Lasts
  BY <1>1, TypedStep DEF Made, Lasts, Ids, Typed, CeremoniesTyped
<1>3. CASE req'[s].at = "idle"
  <2>1. req'[s].at # "verify" /\ ~Using(req'[s])
    BY <1>3 DEF Using
  <2> QED BY <1>1, <1>2, <2>1, CalmKeeps DEF Others, Once, Used
<1>4. CASE LET c == req[s].ch
               u == req[s].user
           IN  /\ Kept(s, "drop") /\ c # 0 /\ Spent(c, u, ceremonies, count')
               /\ u \in Counting => ~Spent(c, u, ceremonies, count)
  <2> DEFINE c == req[s].ch
             u == req[s].user
  <2>1. /\ req'[s].at = "drop" /\ req'[s].ch = c /\ req'[s].user = u
        /\ Spent(c, u, ceremonies, count') /\ c # 0
        /\ u \in Counting => ~Spent(c, u, ceremonies, count)
    BY <1>4 DEF Kept
  <2>a. /\ Len(ceremonies) \in Nat /\ Len(ceremonies') \in Nat /\ ceremonies \in Seq(Ceremony)
        /\ req \in [Slots -> Request] /\ sessions \in [Tokens -> Session \cup {None}]
    BY DEF Typed, CeremoniesTyped, RequestsTyped, RowsTyped
  <2>b. \A q \in Slots : /\ req[q].seen \in Nat \cup {None}
                         /\ req[q].at = "verify" \/ Using(req[q]) => req[q].user \in Users
    BY <2>a DEF Typed, RequestsTyped, Carried, Ending, Using, Request
  <2>c. \A t \in Made : sessions[t].user \in Users
    BY <2>a DEF Made, Session
  <2>2. \A q \in Slots \ {s} : req'[q] = req[q]
    BY <1>1 DEF Others
  <2>3. Tried'
    <3> SUFFICES ASSUME NEW q \in Slots PROVE Checked(req'[q], ceremonies', count')
      BY DEF Tried
    <3>1. CASE q = s
      BY <2>1, <3>1 DEF Checked
    <3>2. CASE q # s
      BY <1>1, <1>2, <2>2, <2>a, <2>b, <3>2, CheckedLasts DEF Once, Tried
    <3> QED BY <3>1, <3>2
  <2>4. Use'
    <3>1. ASSUME NEW q \in Slots, Using(req'[q]) PROVE Spent(req'[q].ch, req'[q].user, ceremonies', count')
      <4>1. CASE q = s
        BY <1>1, <2>1, <4>1
      <4>2. CASE q # s
        BY <1>1, <1>2, <2>2, <2>a, <2>b, <3>1, <4>2, SpentLasts DEF Once, Use
      <4> QED BY <4>1, <4>2
    <3>2. ASSUME NEW t \in Made, sessions[t].via # 0
          PROVE  Spent(sessions[t].via, sessions[t].user, ceremonies', count')
      BY <1>1, <1>2, <2>a, <2>c, <3>2, SpentLasts DEF Once, Use
    <3> QED BY <1>1, <1>2, <3>1, <3>2 DEF Use
  <2>5. ASSUME u \in Counting
        PROVE  /\ \A t \in Made : sessions[t].via # c
               /\ \A q \in Slots \ {s} : Using(req[q]) => req[q].ch # c
    <3>1. \A v \in Users : Spent(c, v, ceremonies, count) => v = u
      BY <2>1 DEF Spent
    <3>2. ASSUME NEW t \in Made PROVE sessions[t].via # c
      BY <2>1, <2>5, <2>c, <3>1 DEF Once, Use
    <3>3. ASSUME NEW q \in Slots, Using(req[q]) PROVE req[q].ch # c
      BY <2>1, <2>5, <2>b, <3>1, <3>3 DEF Once, Use
    <3> QED BY <3>2, <3>3
  <2>6. Unique'
    <3>1. AnswerLogsInOnce'
      BY <1>1, <1>2 DEF Once, Unique, AnswerLogsInOnce
    <3>2. ASSUME NEW t \in Made, NEW q \in Slots, Using(req'[q]), sessions[t].via = req'[q].ch
          PROVE  req'[q].user \notin Counting
      <4>1. CASE q = s
        BY <2>1, <2>5, <3>2, <4>1
      <4>2. CASE q # s
        BY <2>2, <3>2, <4>2 DEF Once, Unique
      <4> QED BY <4>1, <4>2
    <3>3. ASSUME NEW p \in Slots, NEW q \in Slots, p # q, Using(req'[p]), Using(req'[q]), req'[p].ch = req'[q].ch
          PROVE  req'[q].user \notin Counting
      <4>1. CASE q = s
        BY <2>1, <2>2, <2>5, <3>3, <4>1
      <4>2. CASE p = s
        <5>1. Spent(req'[q].ch, req'[q].user, ceremonies, count)
          BY <2>2, <3>3, <4>2 DEF Once, Use
        <5>2. req'[q].user = u
          BY <2>1, <3>3, <4>2, <5>1 DEF Spent
        <5> QED BY <2>1, <2>2, <2>5, <3>3, <4>2, <5>2
      <4>3. CASE p # s /\ q # s
        BY <2>2, <3>3, <4>3 DEF Once, Unique
      <4> QED BY <4>1, <4>2, <4>3
    <3> QED BY <1>1, <1>2, <3>1, <3>2, <3>3 DEF Unique
  <2> QED BY <2>3, <2>4, <2>6 DEF Used
<1> QED BY <1>3, <1>4, RecordUseOnce

\* The session inherits the answer of its request.
LEMMA CreateKeeps ==
  ASSUME Typed, Typed', Once, NEW s \in Slots, Create(s), UNCHANGED login
  PROVE  Used'
<1>a. /\ req \in [Slots -> Request] /\ sessions \in [Tokens -> Session \cup {None}]
      /\ ceremonies \in Seq(Ceremony)
  BY DEF Typed, CeremoniesTyped, RequestsTyped, RowsTyped
<1>b. UNCHANGED <<ceremonies, count>> /\ req[s].at = "create" /\ req[s] \in Request /\ req[s].user \in Users
  BY <1>a DEF login, Create, At, Typed, RequestsTyped, Carried, Ending
<1>1. CASE sessions' = sessions /\ Done(s)
  <2>1. NoReq.at = "idle"
    BY DEF NoReq
  <2>2. Others(s) /\ req'[s].at = "idle"
    BY <1>1, <1>a, <2>1, DoneMoves DEF Others
  <2>3. req'[s].at # "verify" /\ ~Using(req'[s])
    BY <2>2 DEF Using
  <2>4. Lasts /\ CountGrows /\ Made' = Made
    BY <1>1, <1>a, <1>b DEF Lasts, CountGrows, Ids, Made, Typed, CeremoniesTyped
  <2> QED BY <1>1, <2>2, <2>3, <2>4, CalmKeeps DEF Others, Once, Used
<1>2. ASSUME NEW t \in Tokens \ Made,
             sessions' = [sessions EXCEPT ![t] =
               [user |-> req[s].user, by |-> req[s].by, via |-> req[s].ch,
                late |-> req[s].user \notin active, stored |-> TRUE, expired |-> FALSE]],
             req' = [req EXCEPT ![s].at = "started", ![s].token = t] \/ Done(s)
      PROVE  Used'
  <2>1. /\ [user |-> req[s].user, by |-> req[s].by, via |-> req[s].ch,
            late |-> req[s].user \notin active, stored |-> TRUE, expired |-> FALSE] \in Session
    BY <1>b DEF Request, Session
  <2>2. /\ sessions'[t].via = req[s].ch /\ sessions'[t].user = req[s].user
        /\ \A k \in Made : sessions'[k] = sessions[k] /\ k # t
    BY <1>2, <1>a DEF Made
  <2>3. Made' = Made \cup {t}
    BY <1>2, <1>a, <2>1, NoneAssumption DEF Made
  <2>4. Others(s) /\ req'[s].at \in {"started", "idle"}
    <3>1. NoReq.at = "idle"
      BY DEF NoReq
    <3> QED BY <1>2, <1>a, <1>b, <3>1, DoneMoves DEF Others, Request
  <2>5. ~Using(req'[s]) /\ req'[s].at # "verify"
    BY <2>4 DEF Using
  <2>6. \A q \in Slots : Using(req'[q]) => q # s /\ req'[q] = req[q]
    BY <2>4, <2>5 DEF Others
  <2>7. Tried'
    <3>1. Checked(req'[s], ceremonies, count)
      BY <2>5 DEF Checked
    <3> QED BY <1>b, <2>4, <3>1 DEF Once, Tried, Others
  <2>8. req[s].ch # 0 => Using(req[s])
    BY <1>b DEF Using
  <2>9. Use'
    <3>1. ASSUME NEW k \in Made', sessions'[k].via # 0
          PROVE  Spent(sessions'[k].via, sessions'[k].user, ceremonies, count)
      <4>1. CASE k = t
        BY <2>2, <2>8, <3>1, <4>1 DEF Once, Use
      <4>2. CASE k \in Made
        BY <2>2, <3>1, <4>2 DEF Once, Use
      <4> QED BY <2>3, <4>1, <4>2
    <3> QED BY <1>b, <2>6, <3>1 DEF Once, Use
  <2>10. Unique'
    <3>1. AnswerLogsInOnce'
      <4>1. ASSUME NEW k1 \in Made', NEW k2 \in Made', k1 # k2,
                   sessions'[k1].via # 0, sessions'[k1].user \in Counting
            PROVE  sessions'[k1].via # sessions'[k2].via
        <5>1. CASE k1 = t
          BY <2>2, <2>3, <2>8, <4>1, <5>1 DEF Once, Unique
        <5>2. CASE k2 = t
          <6>1. k1 \in Made /\ sessions'[k1] = sessions[k1]
            BY <2>2, <2>3, <4>1, <5>2
          <6>2. SUFFICES ASSUME sessions[k1].via = req[s].ch PROVE FALSE
            BY <2>2, <5>2, <6>1
          <6>3. Spent(sessions[k1].via, sessions[k1].user, ceremonies, count)
            BY <4>1, <6>1 DEF Once, Use
          <6>4. Using(req[s]) /\ Spent(req[s].ch, req[s].user, ceremonies, count)
            BY <2>8, <4>1, <6>1, <6>2 DEF Once, Use
          <6>5. sessions[k1].user = req[s].user
            BY <6>2, <6>3, <6>4 DEF Spent
          <6> QED BY <4>1, <6>1, <6>2, <6>4, <6>5 DEF Once, Unique
        <5>3. CASE k1 \in Made /\ k2 \in Made
          BY <2>2, <4>1, <5>3 DEF Once, Unique, AnswerLogsInOnce
        <5> QED BY <2>3, <5>1, <5>2, <5>3
      <4> QED BY <4>1 DEF AnswerLogsInOnce
    <3>2. ASSUME NEW k \in Made', NEW q \in Slots, Using(req'[q]), sessions'[k].via = req'[q].ch
          PROVE  req'[q].user \notin Counting
      <4>1. q # s /\ req'[q] = req[q]
        BY <2>6, <3>2
      <4>2. CASE k = t
        <5>1. Using(req[s])
          BY <2>2, <2>8, <3>2, <4>1, <4>2 DEF Using
        <5> QED BY <2>2, <3>2, <4>1, <4>2, <5>1 DEF Once, Unique
      <4>3. CASE k \in Made
        BY <2>2, <3>2, <4>1, <4>3 DEF Once, Unique
      <4> QED BY <2>3, <4>2, <4>3
    <3>3. ASSUME NEW p \in Slots, NEW q \in Slots, p # q, Using(req'[p]), Using(req'[q]), req'[p].ch = req'[q].ch
          PROVE  req'[q].user \notin Counting
      BY <2>6, <3>3 DEF Once, Unique
    <3> QED BY <3>1, <3>2, <3>3 DEF Unique
  <2> QED BY <2>7, <2>9, <2>10 DEF Used
<1> QED BY <1>1, <1>2 DEF Create

\* The sessions keep their users and their ceremonies.
SameRows ==
  /\ Made' = Made
  /\ \A t \in Made : sessions'[t].via = sessions[t].via /\ sessions'[t].user = sessions[t].user

\* Every step leaves answers used once.
LEMMA OnceStep == Typed /\ Once /\ [Next]_vars => Once'
<1> SUFFICES ASSUME Typed, Once, [Next]_vars PROVE Once'
  OBVIOUS
<1>a. /\ Typed' /\ Lasts /\ Challenges' /\ CountGrows
      /\ req \in [Slots -> Request] /\ sessions \in [Tokens -> Session \cup {None}]
  BY TypedStep, ChallengesStep DEF Typed, RequestsTyped, RowsTyped
<1>b. Used' => Once'
  BY <1>a DEF Once, Used
<1>c. ASSUME SameRows, NEW s \in Slots, Calm(s) PROVE Once'
  <2>1. \A q \in Slots : \/ req'[q] = req[q]
                         \/ /\ req'[q].at # "verify"
                            /\ Using(req'[q]) => /\ Using(req[q]) /\ req'[q].ch = req[q].ch
                                                 /\ req'[q].user = req[q].user
    BY <1>c DEF Calm, Others
  <2> QED BY <1>a, <1>b, <1>c, <2>1, CalmKeeps DEF Once, Used, SameRows
<1>d. ASSUME SameRows, UNCHANGED req PROVE Once'
  BY <1>a, <1>b, <1>d, CalmKeeps DEF Once, Used, SameRows
<1>e. UNCHANGED sessions => SameRows
  BY DEF SameRows, Made
<1>f. ASSUME NEW T \in SUBSET Made, sessions' = Removed(T) PROVE SameRows
  BY <1>a, <1>f, RemovedTyped DEF SameRows
<1>g. ASSUME NEW s \in Slots, Done(s) PROVE Calm(s)
  <2>1. NoReq.at = "idle"
    BY DEF NoReq
  <2>2. Others(s) /\ req'[s].at = "idle"
    BY <1>a, <1>g, <2>1, DoneMoves DEF Others
  <2> QED BY <2>2 DEF Calm, Using
<1>h. ASSUME NEW s \in Slots, NEW p \in Phases, Step(s, p),
             p # "verify", p \in {"drop", "reset", "create"} => req[s].at \in {"drop", "reset", "create"}
      PROVE  Calm(s)
  <2>1. Others(s) /\ Kept(s, p)
    BY <1>a, <1>h, StepMoves DEF Others
  <2> QED BY <1>h, <2>1 DEF Calm, Using, Kept
<1>i. ASSUME NEW s \in Slots, NEW r, Open(s, r), r.at # "verify", ~Using(r) PROVE Calm(s)
  <2>1. Others(s) /\ req'[s] = r
    BY <1>a, <1>i DEF Open, Others
  <2> QED BY <1>i, <2>1 DEF Calm
<1> USE DEF login, lockout, model, base, audit, history
<1>m. ASSUME NEW s \in Slots, Others(s), req'[s].at \notin {"verify", "drop", "reset", "create"} PROVE Calm(s)
  BY <1>m DEF Calm, Using
<1>1. CASE UNCHANGED vars
  BY <1>1, <1>d, <1>e DEF vars, base, login, lockout, model, audit, history
<1>2. CASE Tick
  BY <1>2, <1>d, <1>e DEF Tick
<1>3. CASE EvictStale
  BY <1>3, <1>d, <1>e DEF EvictStale
<1>4. ASSUME NEW k \in Kinds \X Users, ExpireChallenge(k) PROVE Once'
  BY <1>4, <1>d, <1>e DEF ExpireChallenge
<1>5. ASSUME NEW u \in Users, BeginRegistration(u) PROVE Once'
  BY <1>5, <1>d, <1>e DEF BeginRegistration
<1>6. ASSUME NEW c \in Ids, Sign(c) PROVE Once'
  BY <1>6, <1>d, <1>e DEF Sign
<1>7. CASE Sweep /\ UNCHANGED <<login, calls>>
  BY <1>7, <1>d, <1>f DEF Sweep, Stored
<1>8. ASSUME NEW t \in Tokens, Expire(t) /\ UNCHANGED <<login, calls>> PROVE Once'
  <2>1. /\ UNCHANGED req /\ t \in Made
        /\ sessions' = [sessions EXCEPT ![t].expired = TRUE]
    BY <1>8 DEF Expire, Stored
  <2>2. sessions[t] \in Session
    BY <1>a, <2>1 DEF Made
  <2>3. /\ [sessions[t] EXCEPT !.expired = TRUE] \in Session
        /\ [sessions[t] EXCEPT !.expired = TRUE].via = sessions[t].via
        /\ [sessions[t] EXCEPT !.expired = TRUE].user = sessions[t].user
    BY <2>2 DEF Session
  <2>4. sessions'[t] = [sessions[t] EXCEPT !.expired = TRUE] /\ \A k \in Tokens \ {t} : sessions'[k] = sessions[k]
    BY <1>a, <2>1
  <2>5. SameRows
    BY <2>1, <2>3, <2>4, NoneAssumption DEF SameRows, Made
  <2> QED BY <1>d, <2>1, <2>5
<1>9. ASSUME NEW s \in Slots, LoginStep(s) PROVE Once'
  <2>1. CASE Unlock(s)
    <3>1. UNCHANGED sessions /\ (Step(s, "begin"))
      BY <2>1 DEF Unlock, At
    <3>2. Calm(s)
      BY <3>1, <1>g, <1>h DEF Phases
    <3> QED BY <3>1, <3>2, <1>c, <1>e
  <2>2. CASE BeginLogin(s)
    BY <2>2, <1>c, <1>e, <1>g DEF BeginLogin
  <2>3. CASE Refuse(s)
    BY <2>3, <1>c, <1>e, <1>g DEF Refuse
  <2>4. CASE RecordUse(s)
    BY <2>4, <1>a, <1>b, RecordUseKeeps
  <2>5. CASE DropChallenge(s)
    <3>1. UNCHANGED sessions /\ (Step(s, "reset")) /\ req[s].at = "drop"
      BY <2>5 DEF DropChallenge, At
    <3>2. Calm(s)
      BY <3>1, <1>g, <1>h DEF Phases
    <3> QED BY <3>1, <3>2, <1>c, <1>e
  <2>6. CASE Reset(s)
    <3>1. UNCHANGED sessions /\ (Step(s, "create")) /\ req[s].at = "reset"
      BY <2>6 DEF Reset, At
    <3>2. Calm(s)
      BY <3>1, <1>g, <1>h DEF Phases
    <3> QED BY <3>1, <3>2, <1>c, <1>e
  <2>7. CASE Register(s)
    <3>1. UNCHANGED sessions /\ (Step(s, "add") \/ Done(s))
      BY <2>7 DEF Register, At
    <3>2. Calm(s)
      BY <3>1, <1>g, <1>h DEF Phases
    <3> QED BY <3>1, <3>2, <1>c, <1>e
  <2>8. CASE AddCredential(s)
    BY <2>8, <1>c, <1>e, <1>g DEF AddCredential
  <2>9. ASSUME NEW u \in Users, IsLocked(s, u) PROVE Once'
    <3> DEFINE r == [NoReq EXCEPT !.at = IF Over(u) THEN "unlock" ELSE "begin", !.user = u]
    <3>1. Open(s, r) /\ UNCHANGED sessions
      BY <2>9 DEF IsLocked
    <3>2. r.at \in {"unlock", "begin"}
      BY DEF NoReq
    <3>3. r.at # "verify" /\ ~Using(r)
      BY <3>2 DEF Using
    <3>4. Calm(s)
      BY <3>1, <3>3, <1>i
    <3> QED BY <3>1, <3>4, <1>c, <1>e
  <2>10. ASSUME NEW u \in Users, NEW c \in 0 .. Len(ceremonies), Finish(s, "login:", u, c, "verify") PROVE Once'
    BY <2>10, <1>a, <1>b, FinishKeeps
  <2>11. ASSUME NEW u \in Users, NEW c \in 0 .. Len(ceremonies), Finish(s, "reg:", u, c, "attest") PROVE Once'
    <3> PICK n \in Shown(u) :
          Open(s, [NoReq EXCEPT !.at = "attest", !.user = u, !.ch = c, !.held = store[Key("reg:", u)], !.seen = n])
      BY <2>11 DEF Finish
    <3> DEFINE r == [NoReq EXCEPT !.at = "attest", !.user = u, !.ch = c, !.held = store[Key("reg:", u)], !.seen = n]
    <3>1. Open(s, r) /\ UNCHANGED sessions
      BY <2>11 DEF Finish
    <3>2. r.at \in {"attest"}
      BY DEF NoReq
    <3>3. r.at # "verify" /\ ~Using(r)
      BY <3>2 DEF Using
    <3>4. Calm(s)
      BY <3>1, <3>3, <1>i
    <3> QED BY <3>1, <3>4, <1>c, <1>e
  <2> QED BY <1>9, <2>1, <2>2, <2>3, <2>4, <2>5, <2>6, <2>7, <2>8, <2>9,
    <2>10, <2>11 DEF LoginStep
<1>10. ASSUME NEW s \in Slots, SessionCall(s) /\ UNCHANGED login PROVE Once'
  <2> USE <1>10
  <2>1. ASSUME NEW t \in Tokens, Authenticate(s, t) PROVE Once'
    <3> DEFINE r == [NoReq EXCEPT !.at = IF sessions[t].expired THEN "delete" ELSE "user",
                            !.token = t, !.user = sessions[t].user, !.late = sessions[t].user \in left]
    <3>1. Open(s, r) /\ UNCHANGED sessions
      BY <2>1 DEF Authenticate
    <3>2. r.at \in {"delete", "user"}
      BY DEF NoReq
    <3>3. r.at # "verify" /\ ~Using(r)
      BY <3>2 DEF Using
    <3>4. Calm(s)
      BY <3>1, <3>3, <1>i
    <3> QED BY <3>1, <3>4, <1>c, <1>e
  <2>2. ASSUME NEW t \in Tokens, Logout(s, t) PROVE Once'
    <3> DEFINE r == [NoReq EXCEPT !.at = "delete", !.token = t]
    <3>1. Open(s, r) /\ UNCHANGED sessions
      BY <2>2 DEF Logout
    <3>2. r.at \in {"delete"}
      BY DEF NoReq
    <3>3. r.at # "verify" /\ ~Using(r)
      BY <3>2 DEF Using
    <3>4. Calm(s)
      BY <3>1, <3>3, <1>i
    <3> QED BY <3>1, <3>4, <1>c, <1>e
  <2>3. ASSUME NEW t \in Tokens, EndImpersonation(s, t) PROVE Once'
    <3> DEFINE r == [NoReq EXCEPT !.at = "delete", !.token = t]
    <3>1. Open(s, r) /\ UNCHANGED sessions
      BY <2>3 DEF EndImpersonation
    <3>2. r.at \in {"delete"}
      BY DEF NoReq
    <3>3. r.at # "verify" /\ ~Using(r)
      BY <3>2 DEF Using
    <3>4. Calm(s)
      BY <3>1, <3>3, <1>i
    <3> QED BY <3>1, <3>4, <1>c, <1>e
  <2>4. ASSUME NEW u \in Users, DeleteUser(s, u) PROVE Once'
    <3> DEFINE r == [NoReq EXCEPT !.at = "wait", !.user = u]
    <3>1. Open(s, r) /\ UNCHANGED sessions
      BY <2>4 DEF DeleteUser
    <3>2. r.at \in {"wait"}
      BY DEF NoReq
    <3>3. r.at # "verify" /\ ~Using(r)
      BY <3>2 DEF Using
    <3>4. Calm(s)
      BY <3>1, <3>3, <1>i
    <3> QED BY <3>1, <3>4, <1>c, <1>e
  <2>5. ASSUME NEW u \in Users, NEW a \in Admins, BeginImpersonation(s, a, u) PROVE Once'
    <3> DEFINE r == [NoReq EXCEPT !.at = "create", !.user = u, !.by = a]
    <3>1. Open(s, r) /\ UNCHANGED sessions
      BY <2>5 DEF BeginImpersonation
    <3>2. r.at \in {"create"} /\ r.ch = 0
      BY DEF NoReq
    <3>3. r.at # "verify" /\ ~Using(r)
      BY <3>2 DEF Using
    <3>4. Calm(s)
      BY <3>1, <3>3, <1>i
    <3> QED BY <3>1, <3>4, <1>c, <1>e
  <2>6. ASSUME NEW u \in Users, SignIn(s, u) PROVE Once'
    <3> DEFINE r == [NoReq EXCEPT !.at = "create", !.user = u]
    <3>1. Open(s, r) /\ UNCHANGED sessions
      BY <2>6 DEF SignIn
    <3>2. r.at \in {"create"} /\ r.ch = 0
      BY DEF NoReq
    <3>3. r.at # "verify" /\ ~Using(r)
      BY <3>2 DEF Using
    <3>4. Calm(s)
      BY <3>1, <3>3, <1>i
    <3> QED BY <3>1, <3>4, <1>c, <1>e
  <2> QED BY <1>10, <2>1, <2>2, <2>3, <2>4, <2>5, <2>6 DEF SessionCall
<1>11. ASSUME NEW s \in Slots, SessionStep(s) /\ UNCHANGED <<login, calls>> PROVE Once'
  <2> USE <1>11
  <2>1. CASE Create(s)
    BY <2>1, <1>a, <1>b, CreateKeeps
  <2>2. CASE Started(s)
    BY <2>2, <1>c, <1>e, <1>g DEF Started
  <2>3. CASE Snapshot(s)
    <3>1. UNCHANGED sessions /\ (Step(s, "deleting") \/ Step(s, "dropping") \/ Done(s))
      BY <2>3 DEF Snapshot, At
    <3>2. Calm(s)
      BY <3>1, <1>g, <1>h DEF Phases
    <3> QED BY <3>1, <3>2, <1>c, <1>e
  <2>4. CASE Drop(s)
    <3>1. /\ req[s].at = "dropping"
          /\ Done(s)
          /\ sessions' = sessions \/ sessions' = Removed({req[s].token})
      BY <2>4 DEF Drop, At
    <3>2. {req[s].token} \subseteq Made
      BY <3>1 DEF Typed, RowsTyped, RequestsTyped, Carried, Ending
    <3>3. SameRows /\ Calm(s)
      BY <3>1, <3>2, <1>e, <1>f, <1>g, <1>h DEF Phases
    <3> QED BY <3>3, <1>c
  <2>5. CASE Delete(s)
    <3>1. /\ req[s].at = "deleting"
          /\ sessions' = sessions \/ sessions' = Removed({req[s].token})
      BY <2>5 DEF Delete, At
    <3>2. {req[s].token} \subseteq Made
      BY <3>1 DEF Typed, RowsTyped, RequestsTyped, Carried, Ending
    <3>4. Others(s) /\ req'[s].at \in {"ended", "idle"}
      BY <2>5, <1>a, DoneMoves DEF Delete, Others, NoReq, Request
    <3>3. SameRows /\ Calm(s)
      BY <3>1, <3>2, <3>4, <1>e, <1>f, <1>m
    <3> QED BY <3>3, <1>c
  <2>6. CASE Ended(s)
    BY <2>6, <1>c, <1>e, <1>g DEF Ended
  <2>7. CASE FindUser(s)
    <3>1. UNCHANGED sessions /\ Others(s) /\ req'[s].at \in {"serve", "idle"}
      BY <2>7, <1>a, DoneMoves DEF FindUser, Others, NoReq, Request
    <3>2. Calm(s)
      BY <3>1, <1>m
    <3> QED BY <3>1, <3>2, <1>c, <1>e
  <2>8. CASE Serve(s)
    BY <2>8, <1>c, <1>e, <1>g DEF Serve
  <2>9. CASE Revoke(s)
    <3>1. sessions' = sessions \/ sessions' = Removed(Of(req[s].user))
      BY <2>9 DEF Revoke
    <3>2. Of(req[s].user) \subseteq Made
      BY DEF Of, Stored
    <3>4. Others(s) /\ req'[s].at \in {"revoked", "idle"}
      BY <2>9, <1>a, DoneMoves DEF Revoke, Others, NoReq, Request
    <3>3. SameRows /\ Calm(s)
      BY <3>1, <3>2, <3>4, <1>e, <1>f, <1>m
    <3> QED BY <3>3, <1>c
  <2>10. CASE Revoked(s)
    BY <2>10, <1>c, <1>e, <1>g DEF Revoked
  <2>11. CASE Dispatched(s)
    <3>1. UNCHANGED sessions /\ Step(s, "revoke")
      BY <2>11 DEF Dispatched
    <3>2. Calm(s)
      BY <3>1, <1>h DEF Phases
    <3> QED BY <3>1, <3>2, <1>c, <1>e
  <2> QED BY <1>11, <2>1, <2>2, <2>3, <2>4, <2>5, <2>6, <2>7, <2>8, <2>9,
    <2>10, <2>11 DEF SessionStep
<1>12. CASE Restart
  <2>1. \A q \in Slots : req'[q].at # "verify" /\ ~Using(req'[q])
    BY <1>12 DEF Restart, SessionRestart, NoReq, Using
  <2>2. SameRows
    BY <1>12, <1>e DEF Restart, SessionRestart
  <2> QED BY <1>a, <1>b, <2>1, <2>2, CalmKeeps DEF Once, Used, SameRows
<1>13. CASE ModelStep
  BY <1>13, <1>d, <1>e DEF ModelStep, Rebuild, Drained, Apply
<1> QED BY <1>1, <1>2, <1>3, <1>4, <1>5, <1>6, <1>7, <1>8, <1>9, <1>10, <1>11, <1>12, <1>13
  DEF Next, ModelStep

(***************************************************************************)
(* Initially.                                                              *)
(***************************************************************************)
\* The inductive invariant holds at the start.
LEMMA Initially ==
  Init => LockSound /\ Typed /\ Left /\ Attest /\ GoneIsExplained /\ Once /\ calls \in 0 .. MaxCalls
<1> SUFFICES ASSUME Init
             PROVE  LockSound /\ Typed /\ Left /\ Attest /\ GoneIsExplained /\ Once /\ calls \in 0 .. MaxCalls
  OBVIOUS
<1> USE SessionsAssumption, NoneAssumption, LoginAssumption DEF Init, SessionInit
<1>1. LockSound
  BY DEF LockSound, LockTyped, LockedIffSpent
<1>2. /\ NoReq \in Request /\ NoReq.at = "idle" /\ NoReq.ch = 0 /\ NoReq.gone = {}
      /\ \A s \in Slots : req[s] = NoReq
  BY DEF NoReq, Request, Phases
<1>3. Made = {} /\ Stored = {} /\ Ids = {}
  BY DEF Made, Stored, Ids
<1>4. RowsTyped
  BY <1>3 DEF RowsTyped
<1>5. CeremoniesTyped
  BY DEF CeremoniesTyped
<1>6. RequestsTyped
  <2>1. req \in [Slots -> Request]
    BY <1>2
  <2>2. Carried(NoReq, given, Made, Len(ceremonies))
    BY <1>2 DEF Carried, Ending
  <2> QED BY <1>2, <2>1, <2>2 DEF RequestsTyped
<1>7. Left
  <2>1. Barred(NoReq, left, active, Unheard)
    BY <1>2 DEF Barred
  <2>2. Heard /\ Unheard = {}
    BY DEF Heard, Unheard
  <2> QED BY <1>2, <2>1, <2>2 DEF Left
<1>8. GoneIsExplained /\ Attest
  BY <1>2, <1>3 DEF GoneIsExplained, Attest, JournalIsTrue, Attested
<1>9. Once
  <2>1. \A kind \in Kinds, u \in Users : store[<<kind, u>>] = 0
    OBVIOUS
  <2>2. "login:" \in Kinds
    BY DEF Kinds
  <2>3. Challenges
    BY <1>3, <2>1, <2>2 DEF Challenges
  <2>4. Checked(NoReq, ceremonies, count) /\ ~Using(NoReq)
    BY <1>2 DEF Checked, Using
  <2>5. Tried
    BY <1>2, <2>4 DEF Tried
  <2>6. Use /\ Unique
    BY <1>2, <1>3, <2>4 DEF Use, Unique, AnswerLogsInOnce
  <2> QED BY <2>3, <2>5, <2>6 DEF Once
<1> QED BY <1>1, <1>4, <1>5, <1>6, <1>7, <1>8, <1>9 DEF Typed

\* The calls stay within their bound.
LEMMA CallsStep == calls \in 0 .. MaxCalls /\ [Next]_vars => (calls \in 0 .. MaxCalls)'
<1> SUFFICES ASSUME calls \in 0 .. MaxCalls, [Next]_vars PROVE calls' \in 0 .. MaxCalls
  OBVIOUS
<1> USE SessionsAssumption DEF login, lockout, model, base, audit, history
<1>1. CASE Called
  BY <1>1 DEF Called
<1>2. CASE UNCHANGED calls
  BY <1>2
<1>3. CASE UNCHANGED vars
  BY <1>3 DEF vars
<1>4. CASE Tick \/ \E u \in Users : BeginRegistration(u)
  BY <1>1, <1>4 DEF Tick, BeginRegistration, Begin
<1>5. CASE EvictStale
  BY <1>5, <1>2 DEF EvictStale
<1>6. ASSUME NEW k \in Kinds \X Users, ExpireChallenge(k) PROVE calls' \in 0 .. MaxCalls
  BY <1>6 DEF ExpireChallenge
<1>7. ASSUME NEW c \in Ids, Sign(c) PROVE calls' \in 0 .. MaxCalls
  BY <1>7 DEF Sign
<1>9. ASSUME NEW s \in Slots, LoginStep(s) PROVE calls' \in 0 .. MaxCalls
  <2>1. CASE Unlock(s) \/ Refuse(s) \/ RecordUse(s) \/ DropChallenge(s) \/ Reset(s) \/ Register(s) \/ AddCredential(s)
    BY <2>1 DEF Unlock, Refuse, RecordUse, DropChallenge, Reset, Register, AddCredential
  <2>2. CASE BeginLogin(s)
    BY <2>2, <1>1, <1>2 DEF BeginLogin, Begin
  <2>3. ASSUME NEW u \in Users, IsLocked(s, u) PROVE calls' \in 0 .. MaxCalls
    BY <2>3 DEF IsLocked
  <2>4. ASSUME NEW u \in Users, NEW c \in 0 .. Len(ceremonies),
               Finish(s, "login:", u, c, "verify") \/ Finish(s, "reg:", u, c, "attest")
        PROVE  calls' \in 0 .. MaxCalls
    BY <2>4 DEF Finish
  <2> QED BY <1>9, <2>1, <2>2, <2>3, <2>4 DEF LoginStep
<1> QED BY <1>1, <1>2, <1>3, <1>4, <1>5, <1>6, <1>7, <1>9 DEF Next

(***************************************************************************)
(* The theorems.                                                           *)
(***************************************************************************)
\* What holds at every step of the ceremonies, the lockout and the sessions.
Sound == LockSound /\ Typed /\ Left /\ Attest /\ GoneIsExplained /\ Once /\ calls \in 0 .. MaxCalls

\* The inductive invariant holds throughout.
LEMMA Soundness == Spec => []Sound
<1>1. Init => Sound
  BY Initially DEF Sound
<1>2. Sound /\ [Next]_vars => Sound'
  BY LockSoundStep, TypedStep, LeftStep, AttestStep, GoneStep, OnceStep, CallsStep DEF Sound
<1> QED BY <1>1, <1>2, PTL DEF Spec

\* Every variable keeps to its type: a challenge store entry is a ceremony that was begun, and
\* no failure counter of AccountLockout passes MaxAttempts.  And what a handler reads of its
\* request is there when it reads it: the user of every step that names one, the session a
\* client has of every step that ends one, the answer of the step that adds a credential.
THEOREM TypeCorrect == Spec => [](TypeOK /\ \A s \in Slots : Carried(req[s], given, Made, Len(ceremonies)))
<1>1. Sound => TypeOK /\ \A s \in Slots : Carried(req[s], given, Made, Len(ceremonies))
  <2> SUFFICES ASSUME Sound PROVE TypeOK
    BY DEF Sound, Typed, RequestsTyped
  <2> USE DEF Sound, LockSound, LockTyped, Typed, RowsTyped, CeremoniesTyped, RequestsTyped
  <2>1. store \in [Kinds \X Users -> 0 .. Len(ceremonies)]
    <3>1. \A k \in Kinds \X Users : store[k] \in 0 .. Len(ceremonies)
      OBVIOUS
    <3> QED BY <3>1
  <2>2. {ended, given, silent} \subseteq SUBSET Tokens /\ {active, found, revoked, left} \subseteq SUBSET Users
    BY DEF Made
  <2> QED BY <2>1, <2>2 DEF TypeOK
<1> QED BY <1>1, Soundness, PTL

\* RecordFailure, IsLocked, RecordSuccess and EvictExpired keep the three maps of
\* AccountLockout in step whatever their interleaving: an account is locked exactly when
\* MaxAttempts failures stand against it.
THEOREM LocksAreEarned == Spec => []LockedIffSpent
<1>1. Sound => LockedIffSpent
  BY DEF Sound, LockSound
<1> QED BY <1>1, Soundness, PTL

\* auditingSessionStore: what the audit journal tells has happened, and a session row that is
\* gone before its lifetime has passed is accounted for there, or about to be, whatever the
\* store and the appends did, except where the store or an append failed or the process ended.
THEOREM JournalIsEnough == Spec => []JournalExplains
<1>1. Sound => JournalExplains
  BY DEF Sound, Attest, JournalExplains
<1> QED BY <1>1, Soundness, PTL

\* DeleteUser and Authenticate: no request that came after a deletion returned is served for
\* the deleted user by a live read model, a session that was stored behind the revocation, and
\* a read model that has been rebuilt, included.
THEOREM DeletedUsersStayOut == Spec => []DeletedStaysOut
<1>1. Sound => DeletedStaysOut
  BY DEF Sound, Left, Barred, DeletedStaysOut, At
<1> QED BY <1>1, Soundness, PTL

\* BeginRegistration and BeginLogin: what the challenge store holds under a user's key and a
\* prefix is a challenge of that user and that kind of ceremony.
THEOREM ChallengesAreOwn == Spec => []OwnChallenge
<1>1. Sound => OwnChallenge
  BY DEF Sound, Once, Challenges, OwnChallenge, Key
<1> QED BY <1>1, Soundness, PTL

\* FinishLogin: two sessions never come of one answer of a device that counts, although the
\* challenge stays in the store until the counter has been recorded.
THEOREM OneLoginPerAnswer == Spec => []AnswerLogsInOnce
<1>1. Sound => AnswerLogsInOnce
  BY DEF Sound, Once, Unique
<1> QED BY <1>1, Soundness, PTL

\* u: a user whose lock holds.  It stays as it is, or a restart or a login of u has just ended it.
Held(u) ==
  \/ lockedAt'[u] = lockedAt[u]
  \/ Restart
  \/ lockedAt'[u] = None /\ \E s \in Slots : /\ At(s, "reset") /\ req[s].user = u
                                             /\ req'[s].at = "create"

\* Action by action: what may happen to a lock that holds.
LEMMA LockHolds ==
  ASSUME Sound, [Next]_vars, NEW v \in Users, lockedAt[v] # None, ~Over(v)
  PROVE  Held(v)
<1>a. req \in [Slots -> Request] /\ lockedAt \in [Users -> (0 .. now) \cup {None}]
  BY DEF Sound, Typed, RequestsTyped, LockSound, LockTyped
<1>b. UNCHANGED lockedAt => Held(v)
  BY DEF Held
<1> USE DEF login, lockout, model, base, audit, history
<1>1. CASE UNCHANGED vars
  BY <1>1, <1>b DEF vars, base, login, lockout, model, audit, history
<1>2. CASE Tick
  BY <1>2, <1>b DEF Tick
<1>3. CASE EvictStale
  <2> DEFINE U == {u \in Users : Over(u) \/ (lockedAt[u] = None /\ Stale(u))}
  <2>1. v \notin U /\ lockedAt' = [u \in Users |-> IF u \in U THEN None ELSE lockedAt[u]]
    BY <1>3 DEF EvictStale, Forget
  <2> QED BY <2>1 DEF Held
<1>4. ASSUME NEW k \in Kinds \X Users, ExpireChallenge(k) PROVE Held(v)
  BY <1>4, <1>b DEF ExpireChallenge
<1>5. ASSUME NEW u \in Users, BeginRegistration(u) PROVE Held(v)
  BY <1>5, <1>b DEF BeginRegistration
<1>6. ASSUME NEW c \in Ids, Sign(c) PROVE Held(v)
  BY <1>6, <1>b DEF Sign
<1>9. ASSUME NEW s \in Slots, LoginStep(s) PROVE Held(v)
  <2>1. CASE Unlock(s)
    <3>1. CASE Over(req[s].user)
      <4>1. v # req[s].user /\ lockedAt' = [u \in Users |-> IF u \in {req[s].user} THEN None ELSE lockedAt[u]]
        BY <2>1, <3>1 DEF Unlock, Forget
      <4> QED BY <4>1 DEF Held
    <3> QED BY <2>1, <3>1, <1>b DEF Unlock
  <2>2. CASE BeginLogin(s)
    BY <2>2, <1>b DEF BeginLogin
  <2>3. CASE Refuse(s)
    <3> DEFINE u == req[s].user
               n == IF Over(u) THEN 1 ELSE attempts[u] + 1
    <3>1. \/ UNCHANGED lockedAt
          \/ /\ lockedAt[u] = None \/ Over(u)
             /\ lockedAt' = [lockedAt EXCEPT ![u] = IF n >= MaxAttempts THEN now ELSE None]
      BY <2>3 DEF Refuse, RecordFailure
    <3>2. lockedAt'[v] = lockedAt[v]
      BY <1>a, <3>1
    <3> QED BY <3>2 DEF Held
  <2>4. CASE RecordUse(s)
    BY <2>4, <1>b DEF RecordUse
  <2>5. CASE DropChallenge(s)
    BY <2>5, <1>b DEF DropChallenge
  <2>6. CASE Reset(s)
    <3>1. /\ req[s].at = "reset" /\ Step(s, "create")
          /\ lockedAt' = [u \in Users |-> IF u \in {req[s].user} THEN None ELSE lockedAt[u]]
      BY <2>6 DEF Reset, Forget, At
    <3>2. req'[s].at = "create"
      BY <1>a, <3>1, StepMoves DEF Kept, Phases
    <3>3. CASE v = req[s].user
      BY <3>1, <3>2, <3>3 DEF Held, At
    <3>4. CASE v # req[s].user
      BY <3>1, <3>4 DEF Held
    <3> QED BY <3>3, <3>4
  <2>7. CASE Register(s)
    BY <2>7, <1>b DEF Register
  <2>8. CASE AddCredential(s)
    BY <2>8, <1>b DEF AddCredential
  <2>9. ASSUME NEW u \in Users, IsLocked(s, u) PROVE Held(v)
    BY <2>9, <1>b DEF IsLocked
  <2>10. ASSUME NEW u \in Users, NEW c \in 0 .. Len(ceremonies), Finish(s, "login:", u, c, "verify") PROVE Held(v)
    BY <2>10, <1>b DEF Finish
  <2>11. ASSUME NEW u \in Users, NEW c \in 0 .. Len(ceremonies), Finish(s, "reg:", u, c, "attest") PROVE Held(v)
    BY <2>11, <1>b DEF Finish
  <2> QED BY <1>9, <2>1, <2>2, <2>3, <2>4, <2>5, <2>6, <2>7, <2>8, <2>9,
    <2>10, <2>11 DEF LoginStep
<1>10. CASE UNCHANGED login
  BY <1>10, <1>b
<1>11. CASE Restart
  BY <1>11 DEF Held
<1> QED BY <1>1, <1>2, <1>3, <1>4, <1>5, <1>6, <1>9, <1>10, <1>11
  DEF Next

\* RecordFailure and IsLocked: while a lock holds nothing renews it and nothing ends it but a
\* login of its user or a restart of the process.
THEOREM LocksEndOnTime == Spec => LockEndsOnTime
<1>1. Sound /\ [Next]_vars =>
        [\A u \in Users :
           lockedAt[u] # None /\ ~Over(u) =>
             \/ lockedAt'[u] = lockedAt[u]
             \/ Restart
             \/ lockedAt'[u] = None /\ \E s \in Slots : /\ At(s, "reset") /\ req[s].user = u
                                                        /\ req'[s].at = "create"]_vars
  BY LockHolds DEF Held
<1> QED BY <1>1, Soundness, PTL DEF Spec, LockEndsOnTime

=============================================================================
