------------------------------ MODULE Sessions ------------------------------
(***************************************************************************)
(* Sessions and their audit journal (usermgmt/): the session store         *)
(* (sql_session_store.go) behind auditingSessionStore (session_audit.go),  *)
(* the calls that make, use and end a session (service_login.go,           *)
(* service_oauth2_extracted.go, service_impersonation.go, DeleteUser), and *)
(* the read model that says who exists (es_readmodel.go), which a rebuild  *)
(* or a start fills by applying the event journal from its beginning.      *)
(*                                                                         *)
(* A token is random, so it is new; what a session was is kept after its   *)
(* row is gone (stored = FALSE).  The session store, and each append to    *)
(* the audit journal, may fail.  SessionStarted entries are not kept: the  *)
(* append is best-effort, the token is handed out with or without it, and  *)
(* nothing reads it back.                                                  *)
(***************************************************************************)
EXTENDS Naturals, Sequences, FiniteSets

CONSTANTS
  Users,    \* the accounts that have been registered
  Admins,   \* super_admins who impersonate them; their own accounts are not modelled
  Tokens,   \* session tokens
  Slots,    \* requests that may be in flight
  MaxCalls, \* bound: calls of clients and of operators, and ticks of the clock
  None

ASSUME SessionsAssumption == Admins \cap Users = {} /\ MaxCalls \in Nat /\ None \notin Admins \cup Users \cup Tokens

VARIABLES
  active,         \* the users without a UserDeleted in the event journal
  found,          \* the users of the read model
  ahead,          \* the events the read model has still to apply
  host,           \* the projection host: "live" or "replaying"
  sessions,       \* the rows of the session store
  ended, revoked, \* the audit journal: SessionEnded, and users with a SessionsRevoked
  given,          \* history: tokens a client has
  left,           \* history: users whose DeleteUser has returned
  silent,         \* history: sessions whose end could not be journaled
  calls,          \* calls made, up to the bound
  req             \* the requests in flight

model   == <<active, found, ahead, host>>
audit   == <<ended, revoked>>
history == <<given, left, silent>>

Session == [user : Users, by : Admins \cup {None}, via : Nat, late : BOOLEAN, stored : BOOLEAN, expired : BOOLEAN]
Events == {"registered", "deleted"} \X Users

ASSUME NoneAssumption == None \notin Nat \cup Session

\* late: DeleteUser had returned when the request came; replayed: it looked for
\* its user during a replay; gone: the rows its deletion has removed.
NoReq == [at |-> "idle", user |-> None, by |-> None, token |-> None, late |-> FALSE,
          replayed |-> FALSE, gone |-> {}, ch |-> 0, held |-> 0, seen |-> 0]

At(s, p) == req[s].at = p
Open(s, r) == At(s, "idle") /\ req' = [req EXCEPT ![s] = r]
Step(s, p) == req' = [req EXCEPT ![s].at = p]
Done(s) == req' = [req EXCEPT ![s] = NoReq]

Made == {t \in Tokens : sessions[t] # None}
Stored == {t \in Made : sessions[t].stored}
Of(u) == {t \in Stored : sessions[t].user = u}
Removed(T) == [t \in Tokens |-> IF t \in T THEN [sessions[t] EXCEPT !.stored = FALSE] ELSE sessions[t]]

(***************************************************************************)
(* auditingSessionStore over the store.  A failing store returns its error *)
(* and the request ends; it may fail after the database has committed.     *)
(***************************************************************************)
Create(s) ==
  /\ At(s, "create")
  /\ \/ \E t \in Tokens \ Made :
          /\ sessions' = [sessions EXCEPT ![t] =
               [user |-> req[s].user, by |-> req[s].by, via |-> req[s].ch,
                late |-> req[s].user \notin active, stored |-> TRUE, expired |-> FALSE]]
          /\ req' = [req EXCEPT ![s].at = "started", ![s].token = t] \/ Done(s)
     \/ sessions' = sessions /\ Done(s)
  /\ UNCHANGED <<model, audit, history>>

\* SessionStarted is journaled, or not, and the caller gets the token.
Started(s) ==
  /\ At(s, "started")
  /\ given' = given \cup {req[s].token}
  /\ Done(s)
  /\ UNCHANGED <<model, sessions, audit, left, silent>>

\* Delete: without a row there is nothing to attribute an end to.  A read that
\* fails is taken for that, and the deletion goes on.
Snapshot(s) ==
  /\ At(s, "delete")
  /\ IF req[s].token \in Stored THEN Step(s, "deleting") \/ Step(s, "dropping") ELSE Done(s)
  /\ UNCHANGED <<model, sessions, audit, history>>

Drop(s) ==
  /\ At(s, "dropping") /\ Done(s)
  /\ \/ /\ sessions' = Removed({req[s].token})
        /\ silent' = silent \cup ({req[s].token} \cap Stored)
     \/ UNCHANGED <<sessions, silent>>
  /\ UNCHANGED <<model, audit, given, left>>

\* Mutant: an end is journaled whatever the store answered.
DeleteUnchecked(s) ==
  /\ At(s, "deleting")
  /\ sessions' \in {sessions, Removed({req[s].token})}
  /\ req' = [req EXCEPT ![s].at = "ended", ![s].gone = {req[s].token} \cap Stored]
  /\ UNCHANGED <<model, audit, history>>

Delete(s) ==
  LET gone == {req[s].token} \cap Stored IN
  /\ At(s, "deleting")
  /\ \/ /\ sessions' = Removed({req[s].token})
        /\ \/ req' = [req EXCEPT ![s].at = "ended", ![s].gone = gone] /\ silent' = silent
           \/ Done(s) /\ silent' = silent \cup gone
     \/ UNCHANGED <<sessions, silent>> /\ Done(s)
  /\ UNCHANGED <<model, audit, given, left>>

\* authAuditor.append: a failure is logged and the caller does not hear of it.
Ended(s) ==
  /\ At(s, "ended") /\ Done(s)
  /\ \/ ended' = ended \cup {req[s].token} /\ silent' = silent
     \/ ended' = ended /\ silent' = silent \cup req[s].gone
  /\ UNCHANGED <<model, sessions, revoked, given, left>>

\* EvictExpired, by the sweeper of the store: it is not audited.
Sweep ==
  /\ \E t \in Stored : sessions[t].expired
  /\ sessions' = Removed({t \in Stored : sessions[t].expired})
  /\ UNCHANGED <<model, audit, history, req>>

\* The lifetime of a session passes.
Expire(t) ==
  /\ t \in Stored /\ ~sessions[t].expired
  /\ sessions' = [sessions EXCEPT ![t].expired = TRUE]
  /\ UNCHANGED <<model, audit, history, req>>

(***************************************************************************)
(* The read model.  A live host applies an event when it is published; one *)
(* that replays reads the events of a user in the order of the journal.    *)
(***************************************************************************)
Apply(e) ==
  /\ e \in ahead
  /\ e[1] = "deleted" => <<"registered", e[2]>> \notin ahead
  /\ found' = IF e[1] = "registered" THEN found \cup {e[2]} ELSE found \ {e[2]}
  /\ ahead' = ahead \ {e}
  /\ UNCHANGED <<active, host, sessions, audit, history, req>>

Drained ==
  /\ host = "replaying" /\ ahead = {}
  /\ host' = "live"
  /\ UNCHANGED <<active, found, ahead, sessions, audit, history, req>>

Replay ==
  /\ host' = "replaying"
  /\ ahead' = {"registered"} \X Users \cup {"deleted"} \X (Users \ active)

\* RebuildProjection: a new host over the same maps, requests going on.
Rebuild ==
  /\ Replay
  /\ UNCHANGED <<active, found, sessions, audit, history, req>>

\* The process ends, and starts with an empty read model.  Without AsyncStartup
\* no request comes before Drained.
SessionRestart ==
  /\ Replay /\ found' = {}
  /\ req' = [s \in Slots |-> NoReq]
  /\ silent' = silent \cup UNION {req[s].gone : s \in Slots}
  /\ UNCHANGED <<active, sessions, audit, given, left>>

(***************************************************************************)
(* The calls.                                                              *)
(***************************************************************************)
\* Service.Authenticate: the session, its lifetime, then the user.
Authenticate(s, t) ==
  /\ t \in given \cap Stored
  /\ Open(s, [NoReq EXCEPT !.at = IF sessions[t].expired THEN "delete" ELSE "user",
                           !.token = t, !.user = sessions[t].user,
                           !.late = sessions[t].user \in left])
  /\ UNCHANGED <<model, sessions, audit, history>>

\* Mutant: a session is enough.
FindNobody(s) ==
  /\ At(s, "user")
  /\ req' = [req EXCEPT ![s].at = "serve", ![s].replayed = (host # "live")]
  /\ UNCHANGED <<model, sessions, audit, history>>

FindUser(s) ==
  /\ At(s, "user")
  /\ IF req[s].user \in found
     THEN req' = [req EXCEPT ![s].at = "serve", ![s].replayed = (host # "live")]
     ELSE Done(s)
  /\ UNCHANGED <<model, sessions, audit, history>>

Serve(s) ==
  /\ At(s, "serve") /\ Done(s)
  /\ UNCHANGED <<model, sessions, audit, history>>

\* A sign-in through an OAuth2 provider of a user the read model knows.
SignIn(s, u) ==
  /\ u \in found
  /\ Open(s, [NoReq EXCEPT !.at = "create", !.user = u])
  /\ UNCHANGED <<model, sessions, audit, history>>

Logout(s, t) ==
  /\ t \in given
  /\ Open(s, [NoReq EXCEPT !.at = "delete", !.token = t])
  /\ UNCHANGED <<model, sessions, audit, history>>

BeginImpersonation(s, a, u) ==
  /\ u \in found
  /\ Open(s, [NoReq EXCEPT !.at = "create", !.user = u, !.by = a])
  /\ UNCHANGED <<model, sessions, audit, history>>

EndImpersonation(s, t) ==
  /\ t \in given \cap Stored /\ sessions[t].by # None
  /\ Open(s, [NoReq EXCEPT !.at = "delete", !.token = t])
  /\ UNCHANGED <<model, sessions, audit, history>>

\* DeleteUser: the tombstone, then the sessions, at best effort.
DeleteUser(s, u) ==
  /\ u \in active
  /\ active' = active \ {u} /\ ahead' = ahead \cup {<<"deleted", u>>}
  /\ Open(s, [NoReq EXCEPT !.at = "wait", !.user = u])
  /\ UNCHANGED <<found, host, sessions, audit, history>>

\* The dispatch returns when a live host has applied the event; one that
\* replays does not hold it up.
Dispatched(s) ==
  /\ At(s, "wait") /\ Step(s, "revoke")
  /\ host = "live" => <<"deleted", req[s].user>> \notin ahead
  /\ UNCHANGED <<model, sessions, audit, history>>

Revoke(s) ==
  LET u == req[s].user IN
  /\ At(s, "revoke")
  /\ \/ /\ sessions' = Removed(Of(u))
        /\ \/ /\ req' = [req EXCEPT ![s].at = "revoked", ![s].gone = Of(u)]
              /\ UNCHANGED <<left, silent>>
           \/ Done(s) /\ left' = left \cup {u} /\ silent' = silent \cup Of(u)
     \/ UNCHANGED <<sessions, silent>> /\ left' = left \cup {u} /\ Done(s)
  /\ UNCHANGED <<model, audit, given>>

Revoked(s) ==
  /\ At(s, "revoked") /\ Done(s)
  /\ left' = left \cup {req[s].user}
  /\ \/ revoked' = revoked \cup {req[s].user} /\ silent' = silent
     \/ revoked' = revoked /\ silent' = silent \cup req[s].gone
  /\ UNCHANGED <<model, sessions, ended, given>>

SessionCall(s) ==
  \/ \E t \in Tokens : Authenticate(s, t) \/ Logout(s, t) \/ EndImpersonation(s, t)
  \/ \E u \in Users : \/ SignIn(s, u) \/ DeleteUser(s, u)
                      \/ \E a \in Admins : BeginImpersonation(s, a, u)

SessionStep(s) ==
  \/ Create(s) \/ Started(s) \/ Snapshot(s) \/ Drop(s) \/ Delete(s) \/ Ended(s)
  \/ FindUser(s) \/ Serve(s) \/ Dispatched(s) \/ Revoke(s) \/ Revoked(s)

SessionInit ==
  /\ active = Users /\ found = Users /\ ahead = {} /\ host = "live"
  /\ sessions = [t \in Tokens |-> None]
  /\ ended = {} /\ revoked = {}
  /\ given = {} /\ left = {} /\ silent = {} /\ calls = 0
  /\ req = [s \in Slots |-> NoReq]

(***************************************************************************)
(* Properties.                                                             *)
(***************************************************************************)
\* What the journal tells has happened: a session it calls ended is gone, and
\* after a revocation nothing is left that was opened before the deletion.
JournalIsTrue ==
  /\ ended \subseteq Made \ Stored
  /\ \A t \in Stored : sessions[t].user \in revoked => sessions[t].late

\* "After the session rows are gone, the journal alone answers" for them
\* (session_audit.go:12-13), at best effort: a session whose row is gone was
\* swept after its lifetime, or its end, or the revocation of its user's
\* sessions, is in the journal or about to be.  It is silent only if the store
\* failed to show the row first or failed after the commit, if the append
\* failed, or if the process ended before it.
GoneIsExplained ==
  \A t \in (Made \ Stored) \ silent :
    \/ sessions[t].expired
    \/ t \in ended \/ sessions[t].user \in revoked
    \/ \E s \in Slots : t \in req[s].gone

JournalExplains == JournalIsTrue /\ GoneIsExplained

\* A request that arrives after DeleteUser has returned is not served as that
\* user, although a login in flight may store a session after the revocation,
\* unless it looks for the user while the read model replays the journal.
DeletedStaysOut == \A s \in Slots : At(s, "serve") /\ req[s].late => req[s].replayed

-----------------------------------------------------------------------------
(* What a comment promises, checked by a run that expects a violation.      *)

\* DeleteUser "revokes all sessions" (service_misc.go:96): no request that
\* comes after it is served as the user, whatever the read model is doing.
DeletedIsNeverServed == \A s \in Slots : At(s, "serve") => ~req[s].late
=============================================================================
