------------------------------- MODULE Policy -------------------------------
(***************************************************************************)
(* The Casbin projection (es_casbin_projection.go): it turns the events of *)
(* Grants into policy rows <<subject, role, domain>>.                      *)
(*                                                                         *)
(* The enforcer is in memory and the projection has no checkpoint: every   *)
(* start and every rebuild replays the whole journal, a rebuild over the   *)
(* rows the enforcer has.  The journal, the bus and projectionhost.Host    *)
(* are external; the projection is handed the journal in order, each event *)
(* at least once.                                                          *)
(***************************************************************************)
EXTENDS Grants

VARIABLES
  policy,   \* role rows
  edges,    \* domains the role hierarchy is mirrored into
  cpos      \* events applied

casbin == <<policy, edges, cpos>>
vars   == <<log, host, casbin>>

\* Mutant: a tenant's deletion clears the rows the tenant is the subject of, none.
TakesOfSubject(ev, row) ==
  CASE ev.kind \in {"changed", "removed"} -> row[1] = ev.who /\ row[3] = ev.where
    [] ev.kind \in {"userDeleted", "botDeleted", "tenantDeleted"} -> row[1] = Stream(ev)
    [] OTHER -> FALSE

\* The rows an event takes away (RemoveAllRolesInDomain, RemoveAllRolesForUser,
\* removeAllRolesForDomain).
Takes(ev, row) ==
  CASE ev.kind \in {"changed", "removed"}          -> row[1] = ev.who /\ row[3] = ev.where
    [] ev.kind \in {"userDeleted", "botDeleted"}   -> row[1] = ev.who
    [] ev.kind = "tenantDeleted"                   -> row[3] = ev.where
    [] OTHER -> FALSE

\* Mutant: registration leaves the domain empty.
GivesNoDomain(ev) ==
  CASE ev.kind \in {"registered", "added", "changed"} -> {<<ev.who, r, ev.where>> : r \in ev.roles}
    [] OTHER -> {}

\* The rows an event writes (addRolesFor): a user's own domain is the user.
Gives(ev) ==
  CASE ev.kind = "registered"           -> {<<ev.who, r, ev.who>> : r \in DefaultRoles}
    [] ev.kind \in {"added", "changed"} -> {<<ev.who, r, ev.where>> : r \in ev.roles}
    [] OTHER -> {}

\* Mutants: a role change adds to the old roles; or does not seed the hierarchy.
HandleAdds(ev) ==
  /\ policy' = {row \in policy : ev.kind = "changed" \/ ~Takes(ev, row)} \cup Gives(ev)
  /\ edges'  = (IF ev.kind = "tenantDeleted" THEN edges \ {ev.where} ELSE edges)
               \cup {row[3] : row \in Gives(ev)}
HandleUnseeded(ev) ==
  /\ policy' = {row \in policy : ~Takes(ev, row)} \cup Gives(ev)
  /\ edges'  = (IF ev.kind = "tenantDeleted" THEN edges \ {ev.where} ELSE edges)
               \cup (IF ev.kind = "changed" THEN {} ELSE {row[3] : row \in Gives(ev)})

\* CasbinProjection.Handle; a tenant's deletion clears the hierarchy's rows too.
Handle(ev) ==
  /\ policy' = {row \in policy : ~Takes(ev, row)} \cup Gives(ev)
  /\ edges'  = (IF ev.kind = "tenantDeleted" THEN edges \ {ev.where} ELSE edges)
               \cup {row[3] : row \in Gives(ev)}

Project ==
  /\ cpos < Len(journal)
  /\ Handle(journal[cpos + 1])
  /\ cpos' = cpos + 1
  /\ UNCHANGED <<log, host>>

\* waitForDrain returns, the subscription is live.
Drained ==
  /\ host # "live" /\ cpos = Len(journal)
  /\ host' = "live"
  /\ UNCHANGED <<log, casbin>>

\* RebuildProjection, of any projection: the new host replays over the old rows.
Rebuild ==
  /\ host = "live"
  /\ host' = "rebuilding" /\ cpos' = 0
  /\ UNCHANGED <<log, policy, edges>>

\* The process dies and starts again with an empty enforcer.
Restart ==
  /\ host' = "draining" /\ cpos' = 0
  /\ policy' = {} /\ edges' = {}
  /\ UNCHANGED log

Dispatch ==
  /\ Serving
  /\ \E ev \in Asked \cup {Tombstone(e) : e \in Users \cup Tenants} : Emit(ev)
  /\ UNCHANGED <<host, casbin>>

Init == InitLog /\ policy = {} /\ edges = {} /\ cpos = 0

Next == Dispatch \/ Project \/ Drained \/ Rebuild \/ Restart

Spec == Init /\ [][Next]_vars

-----------------------------------------------------------------------------
\* The shape of every variable.
TypeOK ==
  /\ LogTypeOK
  /\ policy \subseteq Actors \X Roles \X Entities /\ edges \subseteq Entities
  /\ cpos \in 0 .. Len(journal)

\* The row is owed after the first p events: one grants it, no later one takes it.
Justified(row, p) ==
  \E i \in 1 .. p : /\ row \in Gives(journal[i])
                   /\ \A j \in i + 1 .. p : ~Takes(journal[j], row)

\* Replay converges: once the projection is through, the rows are the ones the
\* journal owes, however often it was replayed and over whatever rows ("a journal
\* replay restores it", es_casbin_projection.go:146-147).
PolicyConverges ==
  cpos = Len(journal) =>
    policy = {row \in Actors \X Roles \X Entities : Justified(row, cpos)}

\* The actor or the tenant was deleted and the pair has been granted nothing since.
Cut(a, t) ==
  \E i \in 1 .. Len(journal) :
    /\ Deletes(journal[i], a) \/ Deletes(journal[i], t)
    /\ \A j \in i .. Len(journal) :
         journal[j].kind \in {"added", "changed"} => <<journal[j].who, journal[j].where>> # <<a, t>>

\* What Casbin enforces is what the aggregates say: in a tenant exactly the roles
\* of the membership, in a user's own domain the default ones, and nothing that a
\* removal or the deletion of the user, the bot or the tenant took away.
PolicyAgrees ==
  cpos = Len(journal) =>
    policy = {<<u, r, u>> : u \in {w \in Users : entity[w] = "active"}, r \in DefaultRoles}
             \cup {row \in Actors \X Roles \X Tenants :
                     /\ member[<<row[1], row[3]>>] # None /\ ~Cut(row[1], row[3])
                     /\ row[2] \in member[<<row[1], row[3]>>]}

\* A role is never in force in a domain without the hierarchy it inherits by
\* ("so an inheritance edge exists before the grant", authz_policies.go:58-59).
HierarchySeeded == \A row \in policy : row[3] \in edges
=============================================================================
