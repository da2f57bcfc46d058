------------------------------ MODULE Accounts ------------------------------
(***************************************************************************)
(* User accounts (usermgmt/): commands are decided against the fold of a   *)
(* user's stream and append one event (es_decide*.go, FoldUser), the       *)
(* projection host hands the journal to the user read model in order       *)
(* (es_readmodel.go, sql_readmodel.go), and the services read that model   *)
(* before they decide (service_register.go, service_oauth2_extracted.go).  *)
(*                                                                         *)
(* The journal, the bus and projectionhost.Host are external.  As the      *)
(* source uses them: a command appends atomically against its own stream,  *)
(* the live projection has applied an event when Dispatch returns, a       *)
(* failed Handle is delivered again, a checkpoint is saved after Handle.   *)
(* One OAuth2 provider is modelled, a subject is the provider's user.      *)
(***************************************************************************)
EXTENDS Naturals, Sequences, FiniteSets

CONSTANTS
  Ids,        \* user ids (ULIDs), made by the requests that register
  Emails, Subjects, Creds,
  None,       \* no user, no address
  MaxUsers,   \* ServiceConfig.MaxUsers, 0: no limit
  Async,      \* AsyncStartup
  Durable,    \* ReadModelDB and CheckpointStore are configured
  Slots,      \* requests that may be in flight
  MaxEvents,  \* bound: the journal stops growing here
  Calls,      \* the calls users make: a subset of AllCalls
  Faults      \* a subset of {"crash", "sql", "rebuild"}

AllCalls == {"register", "oauth", "changeEmail", "delete", "addCred", "removeCred",
             "enableTOTP", "disableTOTP", "verify", "unlink"}

ASSUME BoundsAssumption == MaxUsers \in Nat /\ MaxEvents \in Nat /\ {Durable, Async} \subseteq BOOLEAN
ASSUME IdsAssumption == IsFiniteSet(Ids)
ASSUME NoneAssumption == None \notin Ids \cup Emails \cup Slots

VARIABLES
  journal, stream,    \* the events, and the fold of each stream
  users, byEmail, bySubject,  \* UserReadModel
  rows, saved,        \* the users_view table and the saved checkpoint
  pos, host,          \* events applied; "draining", "live" or "rebuilding"
  req, lock,          \* requests in flight; who holds registrationMu
  shared              \* history: addresses and subjects two users have had at once

log    == <<journal, stream, shared>>
memory == <<users, byEmail, bySubject>>
disk   == <<rows, saved>>
vars   == <<log, memory, disk, pos, host, req, lock>>

View   == [email : Emails, verified : BOOLEAN, totp : BOOLEAN,
           creds : SUBSET Creds, accounts : SUBSET Subjects]
ASSUME ViewAssumption == None \notin View
Fresh(e) == [email |-> e, verified |-> FALSE, totp |-> FALSE, creds |-> {}, accounts |-> {}]
Kinds  == {"registered", "emailChanged", "deleted", "credAdded", "credRemoved",
           "totpEnabled", "totpDisabled", "verified", "linked", "unlinked"}
Phases == {"idle", "provision", "register", "registered", "link", "linking", "linked", "verify"}
Event  == [kind : Kinds, user : Ids, arg : Emails \cup Subjects \cup Creds \cup {None}]

(***************************************************************************)
(* The aggregate: FoldUser over the events of a stream, and the deciders.  *)
(***************************************************************************)
Blank == [exists |-> FALSE, deleted |-> FALSE, view |-> None]
Active(u) == stream[u].exists /\ ~stream[u].deleted

FoldUser(s, ev) ==
  CASE ev.kind = "registered"   -> [s EXCEPT !.exists = TRUE, !.view = Fresh(ev.arg)]
    [] ev.kind = "emailChanged" -> [s EXCEPT !.view.email = ev.arg, !.view.verified = FALSE,
                                             !.view.totp = FALSE]
    [] ev.kind = "deleted"      -> [s EXCEPT !.deleted = TRUE]
    [] ev.kind = "credAdded"    -> [s EXCEPT !.view.creds = @ \cup {ev.arg}]
    [] ev.kind = "credRemoved"  -> [s EXCEPT !.view.creds = @ \ {ev.arg}]
    [] ev.kind = "totpEnabled"  -> [s EXCEPT !.view.totp = TRUE]
    [] ev.kind = "totpDisabled" -> [s EXCEPT !.view.totp = FALSE]
    [] ev.kind = "verified"     -> [s EXCEPT !.view.verified = TRUE]
    [] ev.kind = "linked"       -> [s EXCEPT !.view.accounts = @ \cup {ev.arg}]
    [] ev.kind = "unlinked"     -> [s EXCEPT !.view.accounts = @ \ {ev.arg}]

\* The deciders: what must hold of the stream for the event to be emitted.
DecidesProfile(v, ev) ==
  \/ ev.kind = "emailChanged" /\ v.email # ev.arg
  \/ ev.kind = "verified" /\ ~v.verified

DecidesCredential(v, ev) ==
  \/ ev.kind = "credAdded" /\ ev.arg \notin v.creds
  \/ ev.kind = "credRemoved" /\ ev.arg \in v.creds

DecidesTOTP(v, ev) ==
  \/ ev.kind = "totpEnabled" /\ ~v.totp
  \/ ev.kind = "totpDisabled" /\ v.totp

\* The last way to log in is not unlinked.
DecidesLink(v, ev) ==
  \/ ev.kind = "linked" /\ ev.arg \notin v.accounts
  \/ /\ ev.kind = "unlinked" /\ ev.arg \in v.accounts
     /\ v.creds # {} \/ Cardinality(v.accounts) > 1

Decides(ev) ==
  LET s == stream[ev.user]
  IN  IF ev.kind = "registered" THEN ~s.exists
      ELSE /\ Active(ev.user)
           /\ \/ ev.kind = "deleted"
              \/ DecidesProfile(s.view, ev) \/ DecidesCredential(s.view, ev)
              \/ DecidesTOTP(s.view, ev) \/ DecidesLink(s.view, ev)

Request(at, u, e, s, p) ==
  [at |-> at, who |-> u, email |-> e, subject |-> s, proven |-> p, seq |-> 0]
Idle == Request("idle", None, None, None, FALSE)

Ev(k, u, a) == [kind |-> k, user |-> u, arg |-> a]

\* Addresses and subjects of two active users at once.
SharedIn(st) ==
  LET act == {u \in Ids : st[u].exists /\ ~st[u].deleted}
  IN  {e \in Emails : \E u, w \in act : u # w /\ st[u].view.email = e /\ st[w].view.email = e}
      \cup {s \in Subjects : \E u, w \in act :
              u # w /\ s \in st[u].view.accounts /\ s \in st[w].view.accounts}

\* dispatcher.Dispatch: load the stream, decide, append.
Emit(ev) ==
  /\ Len(journal) < MaxEvents
  /\ Decides(ev)
  /\ journal' = Append(journal, ev)
  /\ stream' = [stream EXCEPT ![ev.user] = FoldUser(@, ev)]
  /\ shared' = shared \cup SharedIn(stream')

(***************************************************************************)
(* The user read model.                                                    *)
(***************************************************************************)
\* Mutants: the newest claim wins; an entry is never dropped; an email change
\* leaves TOTP as it is.
ClaimNewest(index, k, u) == [index EXCEPT ![k] = u]
EvictNever(index, k, u) == index
ShownKeepTOTP(v, ev) ==
  CASE ev.kind = "emailChanged" -> [v EXCEPT !.email = ev.arg, !.verified = FALSE]
    [] ev.kind = "credAdded"    -> [v EXCEPT !.creds = @ \cup {ev.arg}]
    [] ev.kind = "credRemoved"  -> [v EXCEPT !.creds = @ \ {ev.arg}]
    [] ev.kind \in {"totpEnabled", "totpDisabled"} -> [v EXCEPT !.totp = ev.kind = "totpEnabled"]
    [] ev.kind = "verified"     -> [v EXCEPT !.verified = TRUE]
    [] ev.kind = "linked"       -> [v EXCEPT !.accounts = @ \cup {ev.arg}]
    [] ev.kind = "unlinked"     -> [v EXCEPT !.accounts = @ \ {ev.arg}]

\* Keep-first: an entry another user has is left alone, only one's own is dropped.
Claim(index, k, u) == IF index[k] = None THEN [index EXCEPT ![k] = u] ELSE index

Evict(index, k, u) == IF index[k] = u THEN [index EXCEPT ![k] = None] ELSE index

\* What the handlers write to a user the read model has.
Shown(v, ev) ==
  CASE ev.kind = "emailChanged" -> [v EXCEPT !.email = ev.arg, !.verified = FALSE, !.totp = FALSE]
    [] ev.kind = "credAdded"    -> [v EXCEPT !.creds = @ \cup {ev.arg}]
    [] ev.kind = "credRemoved"  -> [v EXCEPT !.creds = @ \ {ev.arg}]
    [] ev.kind \in {"totpEnabled", "totpDisabled"} -> [v EXCEPT !.totp = ev.kind = "totpEnabled"]
    [] ev.kind = "verified"     -> [v EXCEPT !.verified = TRUE]
    [] ev.kind = "linked"       -> [v EXCEPT !.accounts = @ \cup {ev.arg}]
    [] ev.kind = "unlinked"     -> [v EXCEPT !.accounts = @ \ {ev.arg}]

\* The read model's handler of an event, under its lock.
Handle(ev) ==
  LET u   == ev.user
      v   == users[u]
      has == v # None
  IN  /\ users' = [users EXCEPT ![u] = CASE ev.kind = "registered" -> Fresh(ev.arg)
                                        [] ev.kind = "deleted"    -> None
                                        [] OTHER -> IF has THEN Shown(v, ev) ELSE None]
      /\ byEmail' = CASE ev.kind = "registered" -> Claim(byEmail, ev.arg, u)
                      [] ev.kind = "emailChanged" /\ has ->
                           Claim(Evict(byEmail, v.email, u), ev.arg, u)
                      [] ev.kind = "deleted" /\ has -> Evict(byEmail, v.email, u)
                      [] OTHER -> byEmail
      /\ bySubject' = CASE ev.kind = "linked" /\ has -> Claim(bySubject, ev.arg, u)
                        [] ev.kind = "unlinked" /\ has -> Evict(bySubject, ev.arg, u)
                        [] ev.kind = "deleted" /\ has ->
                             [s \in Subjects |-> IF s \in v.accounts /\ bySubject[s] = u
                                                   THEN None ELSE bySubject[s]]
                        [] OTHER -> bySubject

\* Mutant: a row is only written, never deleted.
RowKept(ev) == IF users'[ev.user] = None THEN rows[ev.user] ELSE users'[ev.user]

\* syncToSQL: the row of the event's user as the read model has it now.
Row(ev) == IF ev.kind # "deleted" /\ users'[ev.user] = None THEN rows[ev.user]
           ELSE users'[ev.user]

\* One event is delivered.  The view write may fail; the event comes again.
Project ==
  /\ pos < Len(journal)
  /\ LET ev == journal[pos + 1]
     IN  /\ Handle(ev)
         /\ \/ /\ rows' = IF Durable THEN [rows EXCEPT ![ev.user] = Row(ev)] ELSE rows
               /\ pos' = pos + 1
            \/ /\ Durable /\ "sql" \in Faults
               /\ UNCHANGED <<rows, pos>>
  /\ UNCHANGED <<log, saved, host, req, lock>>

\* Mutant: the checkpoint is that of the next event.
SaveNext ==
  /\ Durable /\ saved # pos
  /\ saved' = pos + 1
  /\ UNCHANGED <<log, memory, rows, pos, host, req, lock>>

SaveCheckpoint ==
  /\ Durable /\ saved # pos
  /\ saved' = pos
  /\ UNCHANGED <<log, memory, rows, pos, host, req, lock>>

\* waitForDrain returns, the subscription is live.
Drained ==
  /\ host # "live" /\ pos = Len(journal)
  /\ host' = "live"
  /\ UNCHANGED <<log, memory, disk, pos, req, lock>>

\* RebuildProjection: stop, drop the checkpoint, replay over the same maps.
Rebuild ==
  /\ "rebuild" \in Faults /\ host = "live"
  /\ host' = "rebuilding"
  /\ pos' = 0 /\ saved' = 0
  /\ UNCHANGED <<log, memory, rows, req, lock>>

\* The users a table of views shows with an address, or with an identity.
WithEmail(table, e) == {u \in Ids : table[u] # None /\ table[u].email = e}
WithSubject(table, k) == {u \in Ids : table[u] # None /\ k \in table[u].accounts}

\* An index that Hydrate can build: keep-first over the rows in scan order.
Hydrated(index, owners) ==
  \A k \in DOMAIN owners : IF owners[k] = {} THEN index[k] = None ELSE index[k] \in owners[k]

\* The process dies and starts again: hydrate from the rows and resume at the
\* checkpoint, or replay everything into empty maps.
Restart ==
  /\ "crash" \in Faults
  /\ IF Durable
       THEN /\ users' = rows
            /\ byEmail' \in [Emails -> Ids \cup {None}]
            /\ Hydrated(byEmail', [e \in Emails |-> WithEmail(rows, e)])
            /\ bySubject' \in [Subjects -> Ids \cup {None}]
            /\ Hydrated(bySubject', [k \in Subjects |-> WithSubject(rows, k)])
            /\ pos' = saved
       ELSE /\ users' = [u \in Ids |-> None]
            /\ byEmail' = [e \in Emails |-> None]
            /\ bySubject' = [s \in Subjects |-> None]
            /\ pos' = 0
  /\ host' = "draining"
  /\ req' = [r \in Slots |-> Idle]
  /\ lock' = None
  /\ UNCHANGED <<log, disk>>

(***************************************************************************)
(* Requests.  The host accepts them once the start-up drain is over, at    *)
(* once with AsyncStartup, and also while a projection is rebuilt.         *)
(***************************************************************************)
Serving == Async \/ host # "draining"
Count   == Cardinality({u \in Ids : users[u] # None})
NewId(u) == ~stream[u].exists /\ \A r \in Slots : req[r].who # u

Go(r, at)   == req' = [req EXCEPT ![r].at = at]
Release(r)  == lock' = IF lock = r THEN None ELSE lock
Finish(r)   == req' = [req EXCEPT ![r] = Idle] /\ Release(r)

\* Mutant: the lock protects the count alone, not the dispatch.
GateCountOnly(r) == (MaxUsers = 0 \/ Count < MaxUsers) /\ lock' = lock

\* registrationMu is only taken under a limit; Count is read under it.
Gate(r) == IF MaxUsers = 0 THEN lock' = lock
           ELSE lock = None /\ Count < MaxUsers /\ lock' = r

\* Register: the limit and the address are looked up.  A refusal changes nothing.
Register(r, e) ==
  /\ "register" \in Calls /\ Serving /\ req[r].at = "idle"
  /\ Gate(r)
  /\ byEmail[e] = None
  /\ \E u \in Ids : NewId(u) /\ req' = [req EXCEPT ![r] = Request("register", u, e, None, FALSE)]
  /\ UNCHANGED <<log, memory, disk, pos, host>>

\* FinishLogin of an identity nobody is known to have (otherwise it logs in):
\* link it to the user with the proven address, or provision a user.
OAuth(r, e, s, p) ==
  /\ "oauth" \in Calls /\ Serving /\ req[r].at = "idle"
  /\ bySubject[s] = None
  /\ LET known == p /\ byEmail[e] # None
     IN  req' = [req EXCEPT ![r] = IF known THEN Request("link", byEmail[e], e, s, p)
                                   ELSE Request("provision", None, e, s, p)]
  /\ UNCHANGED <<log, memory, disk, pos, host, lock>>

\* provisionLinkedUser: the limit again, a new id.
Provision(r) ==
  /\ req[r].at = "provision"
  /\ \/ /\ Gate(r)
        /\ \E u \in Ids : NewId(u) /\ req' = [req EXCEPT ![r].at = "register", ![r].who = u]
     \/ /\ MaxUsers > 0 /\ lock = None /\ Count >= MaxUsers
        /\ Finish(r)
  /\ UNCHANGED <<log, memory, disk, pos, host>>

\* Dispatch the event of the request, or meet the decider's refusal.
Dispatch(r, from, ev, to) ==
  /\ req[r].at = from
  /\ \/ /\ Emit(ev)
        /\ req' = [req EXCEPT ![r].at = to, ![r].seq = Len(journal'),
                              ![r].proven = @ /\ from # "verify"]
        /\ UNCHANGED lock
     \/ /\ ~Decides(ev)
        /\ Finish(r)
        /\ UNCHANGED log
  /\ UNCHANGED <<memory, disk, pos, host>>

DispatchRegister(r) ==
  Dispatch(r, "register", Ev("registered", req[r].who, req[r].email), "registered")
DispatchLink(r) ==
  Dispatch(r, "linking", Ev("linked", req[r].who, req[r].subject), "linked")
DispatchVerify(r) ==
  Dispatch(r, "verify", Ev("verified", req[r].who, None), "linked")

\* Dispatch has returned: the live projection is past the request's event.
Returned(r) == host = "live" => pos >= req[r].seq

\* The new user is looked up: registered, or on to the link, or not found.
AfterRegister(r) ==
  /\ req[r].at = "registered" /\ Returned(r)
  /\ IF req[r].subject # None /\ users[req[r].who] # None
       THEN Go(r, "link") /\ UNCHANGED lock
       ELSE Finish(r)
  /\ UNCHANGED <<log, memory, disk, pos, host>>

\* linkExternalAccount: linked already, linked to another user, or to be linked.
Link(r) ==
  /\ req[r].at = "link"
  /\ LET u == req[r].who
         s == req[r].subject
     IN  IF \/ users[u] # None /\ s \in users[u].accounts
            \/ bySubject[s] \notin {None, u}
           THEN Finish(r) ELSE Go(r, "linking") /\ UNCHANGED lock
  /\ UNCHANGED <<log, memory, disk, pos, host>>

\* markEmailVerifiedIfMatch, and the end of the request.
AfterLink(r) ==
  /\ req[r].at = "linked" /\ Returned(r)
  /\ LET v == users[req[r].who]
     IN  IF req[r].proven /\ v # None /\ ~v.verified /\ v.email = req[r].email
           THEN Go(r, "verify") /\ UNCHANGED lock ELSE Finish(r)
  /\ UNCHANGED <<log, memory, disk, pos, host>>

\* The other commands.  Unlink and DisableTOTP look at the read model some time
\* before: what they saw may be stale by now, and only the decider is certain.
Call(call, ev) ==
  /\ call \in Calls /\ Serving
  /\ Emit(ev)
  /\ UNCHANGED <<memory, disk, pos, host, req, lock>>

TOTPCall(u) ==
  \/ Call("enableTOTP", Ev("totpEnabled", u, None))
  \/ Call("disableTOTP", Ev("totpDisabled", u, None))

UserCall(u) ==
  \/ TOTPCall(u)
  \/ \E e \in Emails : Call("changeEmail", Ev("emailChanged", u, e))
  \/ \E c \in Creds : \/ Call("addCred", Ev("credAdded", u, c))
                      \/ Call("removeCred", Ev("credRemoved", u, c))
  \/ \E s \in Subjects : Call("unlink", Ev("unlinked", u, s))
  \/ Call("delete", Ev("deleted", u, None))
  \/ Call("verify", Ev("verified", u, None))

Init ==
  /\ journal = <<>> /\ stream = [u \in Ids |-> Blank] /\ shared = {}
  /\ users = [u \in Ids |-> None]
  /\ byEmail = [e \in Emails |-> None] /\ bySubject = [s \in Subjects |-> None]
  /\ rows = [u \in Ids |-> None] /\ saved = 0 /\ pos = 0 /\ host = "live"
  /\ req = [r \in Slots |-> Idle] /\ lock = None

Steps(r) ==
  \/ Provision(r) \/ DispatchRegister(r) \/ AfterRegister(r)
  \/ Link(r) \/ DispatchLink(r) \/ AfterLink(r) \/ DispatchVerify(r)

Next ==
  \/ Project \/ SaveCheckpoint \/ Drained \/ Rebuild \/ Restart
  \/ \E u \in Ids : UserCall(u)
  \/ \E r \in Slots : \/ Steps(r)
                      \/ \E e \in Emails : Register(r, e)
                      \/ \E e \in Emails, s \in Subjects, p \in BOOLEAN : OAuth(r, e, s, p)

Spec == Init /\ [][Next]_vars

-----------------------------------------------------------------------------
Found(index, k) == index[k] # None => users[index[k]] # None

\* The shape of every variable.
TypeOK ==
  /\ journal \in Seq(Event) /\ Len(journal) <= MaxEvents
  /\ stream \in [Ids -> [exists : BOOLEAN, deleted : BOOLEAN, view : View \cup {None}]]
  /\ shared \subseteq Emails \cup Subjects
  /\ users \in [Ids -> View \cup {None}] /\ rows \in [Ids -> View \cup {None}]
  /\ byEmail \in [Emails -> Ids \cup {None}]
  /\ bySubject \in [Subjects -> Ids \cup {None}]
  /\ pos \in 0 .. Len(journal) /\ saved \in 0 .. Len(journal)
  /\ host \in {"draining", "live", "rebuilding"}
  /\ req \in [Slots -> [at : Phases, who : Ids \cup {None}, email : Emails \cup {None},
                        subject : Subjects \cup {None}, proven : BOOLEAN,
                        seq : 0 .. MaxEvents]]
  /\ lock \in Slots \cup {None}

\* A lookup never ends at a user the maps no longer have, whatever has been
\* replayed over them (FindByEmail and FindByExternalAccount return
\* m.users[id].Clone() unchecked).
NoDanglingIndex ==
  (\A e \in Emails : Found(byEmail, e)) /\ (\A s \in Subjects : Found(bySubject, s))

Views == [u \in Ids |-> IF Active(u) THEN stream[u].view ELSE None]

\* Replay, redelivery and hydration converge: when every event has been applied
\* the read model shows each user as its fold does, TOTP included, and the rows
\* show the same ("projections are idempotent", es_projection_health.go:96).
CaughtUpAgrees ==
  pos = Len(journal) =>
    /\ users = Views
    /\ Durable => rows = users

\* An address or a subject that never had two users finds its user and no one
\* else, after any history of renames, deletions, restarts and rebuilds.
UnsharedIsFound ==
  pos = Len(journal) =>
    /\ \A e \in Emails \ shared :
         {byEmail[e]} \ {None} = WithEmail(Views, e)
    /\ \A s \in Subjects \ shared :
         {bySubject[s]} \ {None} = WithSubject(Views, s)

\* Both: FindByEmail and FindByExternalAccount never panic, and find the right user.
LookupsAreSound == NoDanglingIndex /\ UnsharedIsFound

\* No event takes an address away from a user that still has it: duplicates
\* "must never steal the email mapping from the original user"
\* (es_readmodel.go:94-96).
KeepFirst ==
  [][Project => \A e \in Emails :
       LET u == byEmail[e]
       IN  u # None /\ users'[u] # None /\ users[u].email = e /\ users'[u].email = e
             => byEmail'[e] = u]_vars

\* MaxUsers bounds the registered users, through Register and first OAuth2
\* logins alike, with crashes between append and projection (registrationMu).
CapHolds == MaxUsers > 0 => Cardinality({u \in Ids : Active(u)}) <= MaxUsers

=============================================================================
