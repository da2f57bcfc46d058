---------------------------- MODULE Memberships ----------------------------
(***************************************************************************)
(* The membership and bot read models (es_membership_readmodel.go,         *)
(* es_bot_readmodel.go, sql_hydrate.go) and the calls that read them: the  *)
(* deletion of a user or a tenant writes its tombstone and then sweeps up  *)
(* what the read models list, command by command (service_misc.go,         *)
(* service_tenant.go); GrantRoles adds, and updates on a conflict.         *)
(*                                                                         *)
(* The journal, the bus and projectionhost.Host are external, as in        *)
(* Accounts.  Each model reads events of its own only, so one position     *)
(* stands for both.                                                        *)
(***************************************************************************)
EXTENDS Grants, SequencesExt

CONSTANTS
  Durable,   \* ReadModelDB and CheckpointStore are configured
  Slots,     \* requests that may be in flight
  Faults     \* a subset of {"crash", "sql", "store", "rebuild"}

ASSUME TenantsAssumption == IsFiniteSet(Tenants)

VARIABLES
  members, byActor, bots, pos,  \* MembershipReadModel, BotReadModel, events applied
  rows, saved,                  \* their views and their checkpoint
  req,
  missed                        \* history: entities whose sweep was cut short

model == <<members, byActor, bots, pos>>
disk  == <<rows, saved>>
vars  == <<log, host, model, disk, req, missed>>

Idle == [at |-> "idle", who |-> None, todo |-> {}, seq |-> 0]
At(r, at, e, evs, seq) == req' = [req EXCEPT ![r] = [at |-> at, who |-> e, todo |-> evs, seq |-> seq]]

(***************************************************************************)
(* The read models.                                                        *)
(***************************************************************************)
\* Mutant: the index is appended to blindly.
AppendAlways(a, t) == Append(byActor[a], t)

\* The index by actor, guarded against a second delivery.
Entry(a, t) == IF Contains(byActor[a], t) THEN byActor[a] ELSE Append(byActor[a], t)

\* removeAggID: the first entry with the id is cut out.
removeAggID(slice, target) ==
  IF Contains(slice, target)
    THEN RemoveAt(slice, CHOOSE i \in 1 .. Len(slice) :
                           /\ slice[i] = target
                           /\ \A j \in 1 .. i - 1 : slice[j] # target)
    ELSE slice

Handle(ev) ==
  LET a == ev.who
      t == ev.where
      known == OfMembership(ev) /\ members[<<a, t>>] # None
  IN  /\ members' = CASE ev.kind = "added" \/ (ev.kind = "changed" /\ known) ->
                           [members EXCEPT ![<<a, t>>] = ev.roles]
                      [] ev.kind = "removed" -> [members EXCEPT ![<<a, t>>] = None]
                      [] OTHER -> members
      /\ byActor' = CASE ev.kind = "added" -> [byActor EXCEPT ![a] = Entry(a, t)]
                      [] ev.kind = "removed" /\ known -> [byActor EXCEPT ![a] = removeAggID(@, t)]
                      [] OTHER -> byActor
      /\ bots' = CASE ev.kind = "botRegistered" -> [bots EXCEPT ![a] = t]
                   [] ev.kind = "botDeleted"    -> [bots EXCEPT ![a] = None]
                   [] OTHER -> bots

\* Mutant: the row of a removed membership stays.
RowKept(ev) ==
  IF OfMembership(ev) /\ members'[<<ev.who, ev.where>>] # None
    THEN [rows EXCEPT !.member[<<ev.who, ev.where>>] = members'[<<ev.who, ev.where>>]]
    ELSE rows

\* The view row of the event's stream: a tombstone deletes it, any other event
\* writes what the model has.
Row(ev) ==
  CASE OfMembership(ev) /\ (ev.kind = "removed" \/ members'[<<ev.who, ev.where>>] # None) ->
         [rows EXCEPT !.member[<<ev.who, ev.where>>] = members'[<<ev.who, ev.where>>]]
    [] ev.kind \in {"botDeleted", "botRegistered"} -> [rows EXCEPT !.bot[ev.who] = bots'[ev.who]]
    [] OTHER -> rows

\* One event is delivered.  The view write may fail; the event comes again.
Project ==
  /\ pos < Len(journal)
  /\ Handle(journal[pos + 1])
  /\ \/ /\ rows' = IF Durable THEN Row(journal[pos + 1]) ELSE rows
        /\ pos' = pos + 1
     \/ /\ Durable /\ "sql" \in Faults
        /\ UNCHANGED <<rows, pos>>
  /\ UNCHANGED <<log, saved, host, req, missed>>

SaveCheckpoint ==
  /\ Durable /\ saved # pos
  /\ saved' = pos
  /\ UNCHANGED <<log, model, rows, host, req, missed>>

\* waitForDrain returns, the subscription is live.
Drained ==
  /\ host # "live" /\ pos = Len(journal)
  /\ host' = "live"
  /\ UNCHANGED <<log, model, disk, req, missed>>

\* RebuildProjection replays over the same maps: from the start for the projection
\* that is rebuilt, from its checkpoint for another.
Rebuild ==
  /\ "rebuild" \in Faults /\ host = "live"
  /\ host' = "rebuilding"
  /\ \/ pos' = 0 /\ saved' = 0
     \/ pos' = saved /\ UNCHANGED saved
  /\ UNCHANGED <<log, members, byActor, bots, rows, req, missed>>

Sweeping == {req[r].who : r \in {s \in Slots : req[s].at \notin {"idle", "update"}}}

\* The process dies and starts again: the models are hydrated from their views,
\* or are empty and replay everything.
Restart ==
  /\ "crash" \in Faults
  /\ IF Durable
       THEN /\ members' = rows.member /\ bots' = rows.bot /\ pos' = saved
            /\ byActor' = [a \in Actors |-> SetToSeq({t \in Tenants : rows.member[<<a, t>>] # None})]
       ELSE /\ members' = NoMembers /\ bots' = NoBots /\ pos' = 0
            /\ byActor' = [a \in Actors |-> <<>>]
  /\ host' = "draining"
  /\ req' = [r \in Slots |-> Idle]
  /\ missed' = missed \cup Sweeping
  /\ UNCHANGED <<log, disk>>

(***************************************************************************)
(* Calls.  A plain command is one dispatch; a refusal changes nothing.     *)
(***************************************************************************)
Command ==
  /\ Serving
  /\ \E ev \in Asked : Emit(ev)
  /\ UNCHANGED <<model, disk, host, req, missed>>

\* GrantRoles where AddMember conflicts: UpdateMemberRoles is a second dispatch.
\* (Where AddMember goes through the call is the plain command.)
Grant(r, a, t, R) ==
  /\ Serving /\ req[r].at = "idle" /\ member[<<a, t>>] # None
  /\ At(r, "update", a, {Ev("changed", a, t, R)}, 0)
  /\ UNCHANGED <<log, model, disk, host, missed>>

GrantUpdate(r) ==
  /\ req[r].at = "update"
  /\ req' = [req EXCEPT ![r] = Idle]
  /\ \E ev \in req[r].todo : Emit(ev) \/ (~Decides(ev) /\ UNCHANGED log)
  /\ UNCHANGED <<model, disk, host, missed>>

\* DeleteUser, DeleteTenant: the tombstone comes first.
Delete(r, e) ==
  /\ Serving /\ req[r].at = "idle"
  /\ Emit(Tombstone(e))
  /\ At(r, "deleted", e, {}, Len(journal'))
  /\ UNCHANGED <<model, disk, host, missed>>

\* Dispatch has returned: the live projection is past the request's event.
Returned(r) == host = "live" => pos >= req[r].seq

\* A snapshot of a read model; one that is replaying may not list everything.
Collect(r, at, evs) ==
  /\ Returned(r)
  /\ At(r, at, req[r].who, evs, req[r].seq)
  /\ missed' = IF host = "live" THEN missed ELSE missed \cup {req[r].who}
  /\ UNCHANGED <<log, model, disk, host>>

\* FindByActor or FindByTenant.
FindMembers(r) ==
  /\ req[r].at = "deleted"
  /\ LET e  == req[r].who
         ps == {p \in Pairs : members[p] # None /\ IF e \in Tenants THEN p[2] = e
                                                   ELSE p[1] = e /\ Contains(byActor[e], p[2])}
     IN  Collect(r, "members", {Ev("removed", p[1], p[2], {}) : p \in ps})

\* FindByOwner, once the memberships are through.
FindBots(r) ==
  /\ req[r].at = "members" /\ req[r].todo = {} /\ req[r].who \in Users
  /\ Collect(r, "bots", {Ev("botDeleted", b, None, {}) : b \in {c \in Bots : bots[c] = req[r].who}})

\* Mutant: the first command that is refused ends the sweep.
SweepStops(r) ==
  /\ req[r].at \in {"members", "bots"} /\ Returned(r)
  /\ \E ev \in req[r].todo :
       \/ /\ Emit(ev)
          /\ req' = [req EXCEPT ![r].todo = @ \ {ev}, ![r].seq = Len(journal')]
          /\ UNCHANGED missed
       \/ /\ ~Decides(ev) \/ "store" \in Faults
          /\ req' = [req EXCEPT ![r].todo = {}]
          /\ missed' = IF Decides(ev) THEN missed \cup {req[r].who} ELSE missed
          /\ UNCHANGED log
  /\ UNCHANGED <<model, disk, host>>

\* One dispatch of a sweep.  A refusal or a failing store is only logged.
Sweep(r) ==
  /\ req[r].at \in {"members", "bots"} /\ Returned(r)
  /\ \E ev \in req[r].todo :
       \/ /\ Emit(ev)
          /\ At(r, req[r].at, req[r].who, req[r].todo \ {ev}, Len(journal'))
          /\ UNCHANGED missed
       \/ /\ ~Decides(ev) \/ "store" \in Faults
          /\ At(r, req[r].at, req[r].who, req[r].todo \ {ev}, req[r].seq)
          /\ missed' = IF Decides(ev) THEN missed \cup {req[r].who} ELSE missed
          /\ UNCHANGED log
  /\ UNCHANGED <<model, disk, host>>

Swept(r) ==
  /\ req[r].todo = {} /\ Returned(r)
  /\ req[r].at = (IF req[r].who \in Users THEN "bots" ELSE "members")
  /\ req' = [req EXCEPT ![r] = Idle]
  /\ UNCHANGED <<log, model, disk, host, missed>>

Init ==
  /\ InitLog
  /\ members = NoMembers /\ byActor = [a \in Actors |-> <<>>] /\ bots = NoBots /\ pos = 0
  /\ rows = [member |-> NoMembers, bot |-> NoBots] /\ saved = 0
  /\ req = [r \in Slots |-> Idle] /\ missed = {}

Next ==
  \/ Project \/ SaveCheckpoint \/ Drained \/ Rebuild \/ Restart \/ Command
  \/ \E r \in Slots :
       \/ GrantUpdate(r) \/ FindMembers(r) \/ FindBots(r) \/ Sweep(r) \/ Swept(r)
       \/ \E e \in Users \cup Tenants : Delete(r, e)
       \/ \E a \in Actors, t \in Tenants, R \in RoleSets : Grant(r, a, t, R)

Spec == Init /\ [][Next]_vars

\* The read models and their views converge with the streams over replays,
\* redelivery and hydration, and the index by actor lists every membership once
\* ("a blind append is not" idempotent, es_membership_readmodel.go:100-103).
ModelAgrees ==
  pos = Len(journal) =>
    /\ members = member
    /\ bots = [b \in Bots |-> IF entity[b] = "active" THEN owner[b] ELSE None]
    /\ Durable => rows = [member |-> members, bot |-> bots]
    /\ \A a \in Actors : /\ ToSet(byActor[a]) = {t \in Tenants : member[<<a, t>>] # None}
                         /\ IsInjective(byActor[a])

AddedSince(i, p) ==
  \E j \in i .. Len(journal) : /\ journal[j].kind = "added"
                               /\ <<journal[j].who, journal[j].where>> = p

RegisteredSince(i, b) ==
  \E j \in i .. Len(journal) : journal[j].kind = "botRegistered" /\ journal[j].who = b

\* When the sweep of a deleted user or tenant has run to its end, what is left was
\* granted or registered after the deletion, unless a dispatch failed, the process
\* died or a rebuild was replaying ("cleans up all memberships associated with
\* it", service_tenant.go:74).
SweptClean ==
  \A i \in 1 .. Len(journal), e \in (Users \cup Tenants) \ (missed \cup Sweeping) :
    Deletes(journal[i], e) =>
      /\ \A p \in Pairs : (e \in {p[1], p[2]} /\ member[p] # None) => AddedSince(i, p)
      /\ \A b \in Bots : (owner[b] = e /\ entity[b] = "active") => RegisteredSince(i, b)
=============================================================================
