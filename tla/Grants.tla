------------------------------- MODULE Grants -------------------------------
(***************************************************************************)
(* Roles, memberships, tenants and bots (usermgmt/): the streams, their    *)
(* folds and deciders.  A role granted in a tenant is an event of the      *)
(* stream of the membership, so that a replay restores it; nothing relates *)
(* a membership to the streams of its user or tenant.  Policy adds the     *)
(* Casbin projection, Memberships the read models and the deletions.       *)
(***************************************************************************)
EXTENDS Naturals, Sequences

CONSTANTS
  Users, Bots, Tenants,
  RoleSets,       \* the role sets that callers grant
  DefaultRoles,   \* what registration grants a user in the user's own domain
  None,
  MaxEvents       \* bound: the journal stops growing here

Actors   == Users \cup Bots
Entities == Actors \cup Tenants
Roles    == (UNION RoleSets) \cup DefaultRoles
Pairs    == Actors \X Tenants

ASSUME GrantsAssumption ==
  /\ MaxEvents \in Nat
  /\ None \notin Entities /\ \A R \in SUBSET Roles : R # None
  /\ Users \cap Bots = {} /\ Actors \cap Tenants = {}

VARIABLES
  journal,
  entity, owner, member,  \* the folds: users, bots and tenants; memberships
  host                    \* projectionhost.Host: "draining", "live" or "rebuilding"

log == <<journal, entity, owner, member>>

Kinds == {"registered", "userDeleted", "botRegistered", "botDeleted", "tenantCreated",
          "suspended", "reactivated", "tenantDeleted", "added", "changed", "removed"}
States == {"none", "active", "suspended", "deleted"}
Event == [kind : Kinds, who : Actors \cup {None}, where : Entities \cup {None},
          roles : SUBSET Roles]
Ev(k, a, d, R) == [kind |-> k, who |-> a, where |-> d, roles |-> R]

(***************************************************************************)
(* The deciders and the folds.                                             *)
(***************************************************************************)
OfTenant(ev) == ev.kind \in {"tenantCreated", "suspended", "reactivated", "tenantDeleted"}
OfMembership(ev) == ev.kind \in {"added", "changed", "removed"}

\* The stream an event belongs to, when it is not a membership's.
Stream(ev) == IF OfTenant(ev) THEN ev.where ELSE ev.who

\* What must hold of a stream for the event to be emitted: a membership in effect
\* is not added again, a tombstone is final.
DecidesMembership(ev) == (ev.kind = "added") = (member[<<ev.who, ev.where>>] = None)

DecidesTenant(kind, s) ==
  CASE kind = "tenantCreated" -> s = "none"
    [] kind = "suspended"     -> s = "active"
    [] kind = "reactivated"   -> s = "suspended"
    [] OTHER                  -> s \in {"active", "suspended"}

DecidesUser(kind, s) == IF kind = "registered" THEN s = "none" ELSE s = "active"

DecidesBot(kind, s) == IF kind = "botRegistered" THEN s = "none" ELSE s = "active"

Decides(ev) ==
  IF OfMembership(ev)
    THEN DecidesMembership(ev)
    ELSE LET s == entity[Stream(ev)]
         IN  CASE OfTenant(ev) -> DecidesTenant(ev.kind, s)
               [] ev.kind \in {"registered", "userDeleted"} -> DecidesUser(ev.kind, s)
               [] OTHER        -> DecidesBot(ev.kind, s)

FoldMembership(ev) == IF ev.kind = "removed" THEN None ELSE ev.roles

\* FoldUser, FoldTenant and FoldBot: whether the stream's entity is in being.
FoldState(kind) ==
  CASE kind = "suspended" -> "suspended"
    [] kind \in {"userDeleted", "botDeleted", "tenantDeleted"} -> "deleted"
    [] OTHER -> "active"

Fold(ev) ==
  IF OfMembership(ev)
    THEN /\ member' = [member EXCEPT ![<<ev.who, ev.where>>] = FoldMembership(ev)]
         /\ UNCHANGED <<entity, owner>>
    ELSE /\ entity' = [entity EXCEPT ![Stream(ev)] = FoldState(ev.kind)]
         /\ owner' = IF ev.kind = "botRegistered" THEN [owner EXCEPT ![ev.who] = ev.where]
                     ELSE owner
         /\ UNCHANGED member

\* dispatcher.Dispatch: load the stream, decide, append.
Emit(ev) ==
  /\ Len(journal) < MaxEvents
  /\ Decides(ev)
  /\ journal' = Append(journal, ev)
  /\ Fold(ev)

\* What callers ask for, deletions apart (service_membership.go,
\* service_tenant.go, service_bot.go, service_register.go).
Asked ==
  {Ev("registered", u, None, DefaultRoles) : u \in Users}
  \cup {Ev("botRegistered", b, u, {}) : b \in Bots, u \in Users}
  \cup {Ev("botDeleted", b, None, {}) : b \in Bots}
  \cup {Ev(k, None, t, {}) : k \in {"tenantCreated", "suspended", "reactivated"}, t \in Tenants}
  \cup {Ev(k, a, t, R) : k \in {"added", "changed"}, a \in Actors, t \in Tenants, R \in RoleSets}
  \cup {Ev("removed", a, t, {}) : a \in Actors, t \in Tenants}

\* The tombstone of DeleteUser or DeleteTenant.
Tombstone(e) == IF e \in Tenants THEN Ev("tenantDeleted", None, e, {})
                ELSE Ev("userDeleted", e, None, {})

NoMembers == [p \in Pairs |-> None]
NoBots    == [b \in Bots |-> None]

\* The service is constructed once the start-up drain is over.
Serving == host # "draining"

InitLog ==
  /\ journal = <<>> /\ host = "live"
  /\ entity = [e \in Entities |-> "none"] /\ owner = NoBots /\ member = NoMembers

LogTypeOK ==
  /\ journal \in Seq(Event) /\ Len(journal) <= MaxEvents
  /\ entity \in [Entities -> States] /\ owner \in [Bots -> Users \cup {None}]
  /\ member \in [Pairs -> (SUBSET Roles) \cup {None}]
  /\ host \in {"draining", "live", "rebuilding"}

Deletes(ev, e) == /\ ev.kind \in {"userDeleted", "botDeleted", "tenantDeleted"}
                  /\ Stream(ev) = e
=============================================================================
