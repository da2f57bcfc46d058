-------------------------- MODULE Accounts_proofs --------------------------
(***************************************************************************)
(* Proofs about the user accounts of Accounts.tla, for any users, addresses,*)
(* identities and requests, in memory or over SQL, through crashes,        *)
(* redeliveries and rebuilds.                                              *)
(*                                                                         *)
(* What a user looks like is cut into facets: that it exists, has an       *)
(* address, is verified, uses TOTP, has a credential, is linked to an      *)
(* identity.  Every event gives a facet, takes it away or leaves it alone, *)
(* so the journal alone says which facets a user holds at a position, and  *)
(* the folds, the maps, the rows and the indexes are all compared with     *)
(* that.                                                                   *)
(***************************************************************************)
EXTENDS Accounts, FiniteSetTheorems, TLAPS

-----------------------------------------------------------------------------
(* Facets of a user.                                                       *)

Facets == {"known", "email", "verified", "totp", "creds", "accounts"}
Indexed == {"email", "accounts"}
Keys == Emails \cup Subjects \cup Creds \cup {None}

Has(v, x, k) ==
  \/ x = "known"
  \/ x = "email" /\ v.email = k
  \/ x = "verified" /\ v.verified
  \/ x = "totp" /\ v.totp
  \/ x = "creds" /\ k \in v.creds
  \/ x = "accounts" /\ k \in v.accounts

Shows(v, x, k) == v # None /\ Has(v, x, k)

\* The events that give a facet, and those that take it away.
Gains(x, ev, k) ==
  \/ x = "known" /\ ev.kind = "registered"
  \/ x = "email" /\ ev.kind \in {"registered", "emailChanged"} /\ ev.arg = k
  \/ x = "verified" /\ ev.kind = "verified"
  \/ x = "totp" /\ ev.kind = "totpEnabled"
  \/ x = "creds" /\ ev.kind = "credAdded" /\ ev.arg = k
  \/ x = "accounts" /\ ev.kind = "linked" /\ ev.arg = k

Loses(x, ev, k) ==
  \/ ev.kind = "deleted"
  \/ ev.kind = "registered" /\ ~Gains(x, ev, k)
  \/ x = "email" /\ ev.kind = "emailChanged" /\ ev.arg # k
  \/ x \in {"verified", "totp"} /\ ev.kind = "emailChanged"
  \/ x = "totp" /\ ev.kind = "totpDisabled"
  \/ x = "creds" /\ ev.kind = "credRemoved" /\ ev.arg = k
  \/ x = "accounts" /\ ev.kind = "unlinked" /\ ev.arg = k

\* The journal between two positions takes nothing away from the user.
Spared(j, x, u, k, from, to) ==
  \A i \in from + 1 .. to : j[i].user = u => ~Loses(x, j[i], k)

\* The user has the facet after the first p events; it gains it after them;
\* it has it and no later event takes it away.
Holds(j, x, u, k, p) ==
  \E i \in 1 .. p : j[i].user = u /\ Gains(x, j[i], k) /\ Spared(j, x, u, k, i, p)

Ahead(j, x, u, k, p) ==
  \E i \in p + 1 .. Len(j) : j[i].user = u /\ Gains(x, j[i], k)

Stays(j, x, u, k, p) == Holds(j, x, u, k, p) /\ Spared(j, x, u, k, p, Len(j))

-----------------------------------------------------------------------------
(* The inductive invariant.                                                *)

\* An event carries what its kind needs.
Proper(ev) ==
  /\ ev.kind \in {"registered", "emailChanged"} => ev.arg \in Emails
  /\ ev.kind \in {"credAdded", "credRemoved"} => ev.arg \in Creds
  /\ ev.kind \in {"linked", "unlinked"} => ev.arg \in Subjects

\* A request carries what its phase needs.
Carries(q) ==
  /\ q.at # "idle" => q.email \in Emails
  /\ q.at \notin {"idle", "provision"} => q.who \in Ids
  /\ q.at \notin {"idle", "register", "registered"} => q.subject \in Subjects

\* TypeOK, and what the shapes of the parts have to do with each other.
Typed ==
  /\ TypeOK
  /\ \A i \in 1 .. Len(journal) : Proper(journal[i])
  /\ \A u \in Ids : stream[u].exists => stream[u].view \in View
  /\ \A r \in Slots : Carries(req[r])
  /\ saved <= pos
  /\ Durable \/ saved = 0

\* A user's events begin with the only registration and end with the deletion.
Ordered(j) ==
  /\ \A i \in 1 .. Len(j) : \/ j[i].kind = "registered"
                            \/ \E h \in 1 .. i - 1 : j[h].kind = "registered" /\ j[h].user = j[i].user
  /\ \A h, i \in 1 .. Len(j) :
       h < i /\ j[h].user = j[i].user => j[h].kind # "deleted" /\ j[i].kind # "registered"

ViewOf(s) == IF s.exists /\ ~s.deleted THEN s.view ELSE None

\* The fold of a stream says what the journal says.
Folded(j, s, u) ==
  /\ s.exists <=> \E i \in 1 .. Len(j) : j[i].user = u
  /\ s.deleted <=> \E i \in 1 .. Len(j) : j[i].user = u /\ j[i].kind = "deleted"
  /\ \A x \in Facets, k \in Keys : Shows(ViewOf(s), x, k) <=> Holds(j, x, u, k, Len(j))

\* A view that was made from the first p events, or from more of them.
Tracks(j, v, u, p) ==
  \A x \in Facets, k \in Keys :
    /\ Shows(v, x, k) => Holds(j, x, u, k, p) \/ Ahead(j, x, u, k, p)
    /\ Stays(j, x, u, k, p) => Shows(v, x, k)

\* A row whose user the maps miss is about to be written or to be deleted.
Follows(j, v, row, u, p) ==
  v = None /\ row # None =>
    \/ Ahead(j, "known", u, None, p)
    \/ p < Len(j) /\ j[p + 1].user = u /\ j[p + 1].kind = "deleted"

\* What two users had at once is in shared.
Noticed(j, sh) ==
  \A x \in Indexed, k \in Keys, p \in 0 .. Len(j), u, w \in Ids :
    u # w /\ Holds(j, x, u, k, p) /\ Holds(j, x, w, k, p) => k \in sh

\* An entry of an index is of a user that has the key or will get it; a key
\* that is not shared is found if its user keeps it.
Points(j, table, x, index, k, p) ==
  index[k] # None =>
    LET u == index[k]
    IN  table[u] # None /\ (Shows(table[u], x, k) \/ Ahead(j, x, u, k, p))

Finds(j, x, index, k, p) == \A u \in Ids : Stays(j, x, u, k, p) => index[k] = u

History ==
  /\ Ordered(journal)
  /\ \A u \in Ids : Folded(journal, stream[u], u)
  /\ Noticed(journal, shared)

Tables ==
  /\ \A u \in Ids : Tracks(journal, users[u], u, pos)
  /\ Durable => \A u \in Ids : /\ Tracks(journal, rows[u], u, pos)
                               /\ Follows(journal, users[u], rows[u], u, pos)

Indexes ==
  /\ \A e \in Emails : Points(journal, users, "email", byEmail, e, pos)
  /\ \A s \in Subjects : Points(journal, users, "accounts", bySubject, s, pos)
  /\ \A e \in Emails \ shared : Finds(journal, "email", byEmail, e, pos)
  /\ \A s \in Subjects \ shared : Finds(journal, "accounts", bySubject, s, pos)

ActiveIds == {u \in Ids : Active(u)}

\* While the limit is enforced, a registration that is not applied yet is the
\* one of the request that has the lock, and a request that is let through
\* still finds room.
Gated ==
  /\ host # "rebuilding"
  /\ host # "live" => lock = None /\ \A r \in Slots : req[r].at = "idle"
  /\ \A r \in Slots : req[r].at \in {"register", "registered"} => lock = r
  /\ \A i \in pos + 1 .. Len(journal) :
       host = "live" /\ journal[i].kind = "registered" =>
         lock \in Slots /\ req[lock].at = "registered" /\ req[lock].seq = i
  /\ \A r \in Slots : req[r].at = "register" => Cardinality(ActiveIds) < MaxUsers
  /\ Cardinality(ActiveIds) <= MaxUsers

\* The cap is kept when requests wait for the start-up drain and no projection
\* is rebuilt under them.
Steady == ~Async /\ "rebuild" \notin Faults

-----------------------------------------------------------------------------
(* Types.                                                                  *)

Streams  == [exists : BOOLEAN, deleted : BOOLEAN, view : View \cup {None}]
Requests == [at : Phases, who : Ids \cup {None}, email : Emails \cup {None},
             subject : Subjects \cup {None}, proven : BOOLEAN, seq : 0 .. MaxEvents]

\* A stream that an event can be appended to.
Open(s, ev) ==
  IF ev.kind = "registered" THEN ~s.exists ELSE s.exists /\ ~s.deleted

LEMMA FreshIsAView == ASSUME NEW e \in Emails PROVE Fresh(e) \in View
  BY DEF Fresh, View

LEMMA ShownIsAView ==
  ASSUME NEW v \in View, NEW ev \in Event, Proper(ev), ev.kind \notin {"registered", "deleted"}
  PROVE  Shown(v, ev) \in View
<1>1. CASE ev.kind = "emailChanged"
  BY <1>1 DEF Shown, View, Proper
<1>2. CASE ev.kind = "credAdded"
  BY <1>2 DEF Shown, View, Proper
<1>3. CASE ev.kind = "credRemoved"
  BY <1>3 DEF Shown, View, Proper
<1>4. CASE ev.kind \in {"totpEnabled", "totpDisabled"}
  BY <1>4 DEF Shown, View, Proper
<1>5. CASE ev.kind = "verified"
  BY <1>5 DEF Shown, View, Proper
<1>6. CASE ev.kind = "linked"
  BY <1>6 DEF Shown, View, Proper
<1>7. CASE ev.kind = "unlinked"
  BY <1>7 DEF Shown, View, Proper
<1>q. QED  BY <1>1, <1>2, <1>3, <1>4, <1>5, <1>6, <1>7 DEF Event, Kinds

\* The fold writes what the handlers of the read model write.
LEMMA FoldIsShown ==
  ASSUME NEW s \in Streams, NEW ev \in Event, Proper(ev), Open(s, ev),
         s.exists => s.view \in View
  PROVE  /\ FoldUser(s, ev) \in Streams
         /\ FoldUser(s, ev).exists
         /\ FoldUser(s, ev).deleted <=> s.deleted \/ ev.kind = "deleted"
         /\ FoldUser(s, ev).view \in View
         /\ FoldUser(s, ev).view =
              CASE ev.kind = "registered" -> Fresh(ev.arg)
                [] ev.kind = "deleted" -> s.view
                [] OTHER -> Shown(s.view, ev)
<1>1. CASE ev.kind = "registered"
  <2>1. Fresh(ev.arg) \in View
    BY <1>1, FreshIsAView DEF Proper
  <2>q. QED  BY <1>1, <2>1 DEF FoldUser, Streams
<1>2. CASE ev.kind = "deleted"
  BY <1>2 DEF FoldUser, Streams, Open
<1>3. CASE ev.kind \notin {"registered", "deleted"}
  <2>1. s.view \in View
    BY <1>3 DEF Open
  <2>2. Shown(s.view, ev) \in View
    BY <1>3, <2>1, ShownIsAView
  <2>3. FoldUser(s, ev) = [s EXCEPT !.view = Shown(s.view, ev)]
    <3>1. CASE ev.kind = "emailChanged"
      BY <2>1, <3>1 DEF FoldUser, Shown, Streams, View
    <3>2. CASE ev.kind = "credAdded"
      BY <2>1, <3>2 DEF FoldUser, Shown, Streams, View
    <3>3. CASE ev.kind = "credRemoved"
      BY <2>1, <3>3 DEF FoldUser, Shown, Streams, View
    <3>4. CASE ev.kind = "totpEnabled"
      BY <2>1, <3>4 DEF FoldUser, Shown, Streams, View
    <3>5. CASE ev.kind = "totpDisabled"
      BY <2>1, <3>5 DEF FoldUser, Shown, Streams, View
    <3>6. CASE ev.kind = "verified"
      BY <2>1, <3>6 DEF FoldUser, Shown, Streams, View
    <3>7. CASE ev.kind = "linked"
      BY <2>1, <3>7 DEF FoldUser, Shown, Streams, View
    <3>8. CASE ev.kind = "unlinked"
      BY <2>1, <3>8 DEF FoldUser, Shown, Streams, View
    <3>q. QED
      BY <1>3, <3>1, <3>2, <3>3, <3>4, <3>5, <3>6, <3>7, <3>8 DEF Event, Kinds
  <2>q. QED  BY <1>3, <2>2, <2>3 DEF Streams, Open
<1>q. QED  BY <1>1, <1>2, <1>3

\* What an event does to a user of a table: the handlers, seen from the user.
After(v, ev) ==
  CASE ev.kind = "registered" -> Fresh(ev.arg)
    [] ev.kind = "deleted"    -> None
    [] OTHER -> IF v # None THEN Shown(v, ev) ELSE None

LEMMA AfterIsTyped ==
  ASSUME NEW v \in View \cup {None}, NEW ev \in Event, Proper(ev)
  PROVE  After(v, ev) \in View \cup {None}
<1>1. CASE ev.kind = "registered"
  BY <1>1, FreshIsAView DEF After, Proper
<1>2. CASE ev.kind = "deleted"
  BY <1>2 DEF After
<1>3. CASE ev.kind \notin {"registered", "deleted"}
  <2>1. CASE v = None
    BY <1>3, <2>1 DEF After
  <2>2. CASE v # None
    <3>1. v \in View
      BY <2>2
    <3>2. Shown(v, ev) \in View
      BY <1>3, <3>1, ShownIsAView
    <3>q. QED  BY <1>3, <2>2, <3>2 DEF After
  <2>q. QED  BY <2>1, <2>2
<1>q. QED  BY <1>1, <1>2, <1>3

\* An event gives its facets to a user the table has, takes the ones it loses
\* and leaves the others alone.
LEMMA ShownFacet ==
  ASSUME NEW v \in View, NEW ev \in Event, Proper(ev), NEW x \in Facets, NEW k,
         ev.kind \notin {"registered", "deleted"}
  PROVE  Has(Shown(v, ev), x, k) <=> Gains(x, ev, k) \/ (~Loses(x, ev, k) /\ Has(v, x, k))
<1>1. CASE ev.kind = "emailChanged"
  BY <1>1 DEF Shown, View, Has, Gains, Loses, Facets
<1>2. CASE ev.kind = "credAdded"
  BY <1>2 DEF Shown, View, Has, Gains, Loses, Facets
<1>3. CASE ev.kind = "credRemoved"
  BY <1>3 DEF Shown, View, Has, Gains, Loses, Facets
<1>4. CASE ev.kind \in {"totpEnabled", "totpDisabled"}
  BY <1>4 DEF Shown, View, Has, Gains, Loses, Facets
<1>5. CASE ev.kind = "verified"
  BY <1>5 DEF Shown, View, Has, Gains, Loses, Facets
<1>6. CASE ev.kind = "linked"
  BY <1>6 DEF Shown, View, Has, Gains, Loses, Facets
<1>7. CASE ev.kind = "unlinked"
  BY <1>7 DEF Shown, View, Has, Gains, Loses, Facets
<1>q. QED  BY <1>1, <1>2, <1>3, <1>4, <1>5, <1>6, <1>7 DEF Event, Kinds

LEMMA AfterFacet ==
  ASSUME NEW v \in View \cup {None}, NEW ev \in Event, Proper(ev), NEW x \in Facets, NEW k
  PROVE  Shows(After(v, ev), x, k) <=>
           \/ Gains(x, ev, k) /\ (v # None \/ ev.kind = "registered")
           \/ ~Loses(x, ev, k) /\ Shows(v, x, k)
<1>1. CASE ev.kind = "registered"
  <2>1. Fresh(ev.arg) \in View
    BY <1>1, FreshIsAView DEF Proper
  <2>2. After(v, ev) = Fresh(ev.arg) /\ Fresh(ev.arg) # None
    BY <1>1, <2>1, ViewAssumption DEF After
  <2>3. Has(Fresh(ev.arg), x, k) <=> Gains(x, ev, k)
    BY <1>1 DEF Fresh, Has, Gains, Facets
  <2>4. Loses(x, ev, k) <=> ~Gains(x, ev, k)
    BY <1>1 DEF Loses
  <2>q. QED  BY <1>1, <2>2, <2>3, <2>4 DEF Shows
<1>2. CASE ev.kind = "deleted"
  BY <1>2 DEF After, Shows, Gains, Loses
<1>3. CASE ev.kind \notin {"registered", "deleted"}
  <2>1. CASE v = None
    BY <1>3, <2>1 DEF After, Shows
  <2>2. CASE v # None
    <3>1. v \in View
      BY <2>2
    <3>2. Shown(v, ev) \in View
      BY <1>3, <3>1, ShownIsAView
    <3>3. After(v, ev) = Shown(v, ev) /\ Shown(v, ev) # None
      BY <1>3, <2>2, <3>2, ViewAssumption DEF After
    <3>q. QED  BY <1>3, <2>2, <3>1, <3>3, ShownFacet DEF Shows
  <2>q. QED  BY <2>1, <2>2
<1>q. QED  BY <1>1, <1>2, <1>3

\* The fold of a stream that is appended to.
LEMMA FoldIsAfter ==
  ASSUME NEW s \in Streams, NEW ev \in Event, Proper(ev), Open(s, ev),
         s.exists => s.view \in View, s.deleted => s.exists
  PROVE  ViewOf(FoldUser(s, ev)) = After(ViewOf(s), ev)
<1>1. /\ FoldUser(s, ev).exists
      /\ FoldUser(s, ev).deleted <=> s.deleted \/ ev.kind = "deleted"
      /\ FoldUser(s, ev).view =
           CASE ev.kind = "registered" -> Fresh(ev.arg)
             [] ev.kind = "deleted" -> s.view
             [] OTHER -> Shown(s.view, ev)
  BY FoldIsShown
<1>2. CASE ev.kind = "registered"
  BY <1>1, <1>2 DEF ViewOf, After, Open
<1>3. CASE ev.kind = "deleted"
  BY <1>1, <1>3 DEF ViewOf, After, Open
<1>4. CASE ev.kind \notin {"registered", "deleted"}
  <2>1. ViewOf(s) = s.view /\ s.view # None
    BY <1>4, ViewAssumption DEF ViewOf, Open
  <2>q. QED  BY <1>1, <1>4, <2>1 DEF ViewOf, After, Open
<1>q. QED  BY <1>2, <1>3, <1>4

-----------------------------------------------------------------------------
(* What the journal says at a position, after a step and after an append.  *)

LEMMA HoldsNext ==
  ASSUME NEW j, NEW x, NEW u, NEW k, NEW p \in Nat
  PROVE  Holds(j, x, u, k, p + 1) <=>
           IF j[p + 1].user = u
             THEN Gains(x, j[p + 1], k) \/ (Holds(j, x, u, k, p) /\ ~Loses(x, j[p + 1], k))
             ELSE Holds(j, x, u, k, p)
<1>1. ASSUME Holds(j, x, u, k, p), j[p + 1].user = u => ~Loses(x, j[p + 1], k)
      PROVE  Holds(j, x, u, k, p + 1)
  BY <1>1 DEF Holds, Spared
<1>2. ASSUME j[p + 1].user = u, Gains(x, j[p + 1], k)
      PROVE  Holds(j, x, u, k, p + 1)
  BY <1>2 DEF Holds, Spared
<1>3. ASSUME Holds(j, x, u, k, p + 1), ~(j[p + 1].user = u /\ Gains(x, j[p + 1], k))
      PROVE  Holds(j, x, u, k, p) /\ (j[p + 1].user = u => ~Loses(x, j[p + 1], k))
  <2>1. PICK i \in 1 .. p + 1 : /\ j[i].user = u /\ Gains(x, j[i], k)
                                /\ Spared(j, x, u, k, i, p + 1)
    BY <1>3 DEF Holds
  <2>2. i \in 1 .. p /\ i + 1 \in Nat
    BY <1>3, <2>1
  <2>3. p + 1 \in i + 1 .. p + 1
    BY <2>2
  <2>q. QED  BY <2>1, <2>2, <2>3 DEF Holds, Spared
<1>q. QED  BY <1>1, <1>2, <1>3

LEMMA SparedNext ==
  ASSUME NEW j, NEW x, NEW u, NEW k, NEW p \in Nat, NEW to \in Nat, p < to
  PROVE  Spared(j, x, u, k, p, to) <=>
           /\ j[p + 1].user = u => ~Loses(x, j[p + 1], k)
           /\ Spared(j, x, u, k, p + 1, to)
<1>1. p + 1 .. to = {p + 1} \cup (p + 2 .. to)
  OBVIOUS
<1>q. QED  BY <1>1 DEF Spared

LEMMA AheadNext ==
  ASSUME NEW j, Len(j) \in Nat, NEW x, NEW u, NEW k, NEW p \in Nat, p < Len(j)
  PROVE  Ahead(j, x, u, k, p) <=>
           (j[p + 1].user = u /\ Gains(x, j[p + 1], k)) \/ Ahead(j, x, u, k, p + 1)
<1>1. p + 1 .. Len(j) = {p + 1} \cup (p + 2 .. Len(j))
  OBVIOUS
<1>q. QED  BY <1>1 DEF Ahead

\* The end of the journal.
LEMMA NothingAhead ==
  ASSUME NEW j, Len(j) \in Nat, NEW x, NEW u, NEW k
  PROVE  ~Ahead(j, x, u, k, Len(j)) /\ Spared(j, x, u, k, Len(j), Len(j))
  BY DEF Ahead, Spared

\* Going back over events.
LEMMA SparedSplit ==
  ASSUME NEW j, NEW x, NEW u, NEW k, NEW a \in Nat, NEW b \in Nat, NEW c \in Nat, a <= b, b <= c
  PROVE  Spared(j, x, u, k, a, c) <=> Spared(j, x, u, k, a, b) /\ Spared(j, x, u, k, b, c)
  BY DEF Spared

LEMMA Earlier ==
  ASSUME NEW j, Len(j) \in Nat, NEW x, NEW u, NEW k,
         NEW q \in Nat, NEW p \in Nat, q <= p, p <= Len(j)
  PROVE  /\ Holds(j, x, u, k, p) => Holds(j, x, u, k, q) \/ Ahead(j, x, u, k, q)
         /\ Ahead(j, x, u, k, p) => Ahead(j, x, u, k, q)
         /\ Stays(j, x, u, k, q) => Stays(j, x, u, k, p)
<1>1. ASSUME Holds(j, x, u, k, p) PROVE Holds(j, x, u, k, q) \/ Ahead(j, x, u, k, q)
  <2>1. PICK i \in 1 .. p : j[i].user = u /\ Gains(x, j[i], k) /\ Spared(j, x, u, k, i, p)
    BY <1>1 DEF Holds
  <2>2. CASE i <= q
    BY <2>1, <2>2 DEF Holds, Spared
  <2>3. CASE i > q
    BY <2>1, <2>3 DEF Ahead
  <2>q. QED  BY <2>1, <2>2, <2>3
<1>2. Ahead(j, x, u, k, p) => Ahead(j, x, u, k, q)
  BY DEF Ahead
<1>3. ASSUME Stays(j, x, u, k, q) PROVE Stays(j, x, u, k, p)
  <2>1. PICK i \in 1 .. q : j[i].user = u /\ Gains(x, j[i], k) /\ Spared(j, x, u, k, i, q)
    BY <1>3 DEF Stays, Holds
  <2>2. Spared(j, x, u, k, q, p) /\ Spared(j, x, u, k, p, Len(j))
    BY <1>3, SparedSplit DEF Stays
  <2>3. Spared(j, x, u, k, i, p)
    BY <2>1, <2>2, SparedSplit
  <2>q. QED  BY <2>1, <2>2, <2>3 DEF Stays, Holds
<1>q. QED  BY <1>1, <1>2, <1>3

\* Appending changes nothing behind the end.
Appended(j, j2, ev) ==
  /\ Len(j) \in Nat /\ Len(j2) = Len(j) + 1
  /\ \A i \in 1 .. Len(j) : j2[i] = j[i]
  /\ j2[Len(j) + 1] = ev

LEMMA HoldsAppended ==
  ASSUME NEW j, NEW j2, NEW ev, Appended(j, j2, ev),
         NEW x, NEW u, NEW k, NEW p \in 0 .. Len(j)
  PROVE  Holds(j2, x, u, k, p) <=> Holds(j, x, u, k, p)
<1>1. \A i \in 1 .. p : j2[i] = j[i]
  BY DEF Appended
<1>2. \A i \in 1 .. p : Spared(j2, x, u, k, i, p) <=> Spared(j, x, u, k, i, p)
  BY <1>1 DEF Spared
<1>q. QED  BY <1>1, <1>2 DEF Holds

LEMMA AheadAppended ==
  ASSUME NEW j, NEW j2, NEW ev, Appended(j, j2, ev),
         NEW x, NEW u, NEW k, NEW p \in 0 .. Len(j)
  PROVE  /\ Ahead(j2, x, u, k, p) <=> Ahead(j, x, u, k, p) \/ (ev.user = u /\ Gains(x, ev, k))
         /\ Stays(j2, x, u, k, p) <=>
              Stays(j, x, u, k, p) /\ (ev.user = u => ~Loses(x, ev, k))
<1>1. p + 1 .. Len(j2) = (p + 1 .. Len(j)) \cup {Len(j) + 1}
  BY DEF Appended
<1>2. \A i \in p + 1 .. Len(j) : j2[i] = j[i]
  BY DEF Appended
<1>3. j2[Len(j) + 1] = ev
  BY DEF Appended
<1>4. Spared(j2, x, u, k, p, Len(j2)) <=>
        Spared(j, x, u, k, p, Len(j)) /\ (ev.user = u => ~Loses(x, ev, k))
  BY <1>1, <1>2, <1>3 DEF Spared
<1>5. Holds(j2, x, u, k, p) <=> Holds(j, x, u, k, p)
  BY HoldsAppended
<1>q. QED  BY <1>1, <1>2, <1>3, <1>4, <1>5 DEF Ahead, Stays

-----------------------------------------------------------------------------
(* The aggregate: appending a decided event keeps the history.             *)

LEMMA OrderedAppended ==
  ASSUME NEW j, NEW j2, NEW ev, Appended(j, j2, ev), Ordered(j),
         NEW s, Folded(j, s, ev.user), Open(s, ev)
  PROVE  Ordered(j2)
<1> DEFINE n == Len(j)
<1>1. /\ n \in Nat /\ Len(j2) = n + 1 /\ j2[n + 1] = ev
      /\ \A i \in 1 .. n : j2[i] = j[i]
  BY DEF Appended
<1>2. ev.kind = "registered" => \A i \in 1 .. n : j[i].user # ev.user
  BY DEF Folded, Open
<1>3. ev.kind # "registered" =>
        /\ \E h \in 1 .. n : j[h].kind = "registered" /\ j[h].user = ev.user
  <2>1. SUFFICES ASSUME ev.kind # "registered"
                 PROVE  \E h \in 1 .. n : j[h].kind = "registered" /\ j[h].user = ev.user
    OBVIOUS
  <2>2. PICK i \in 1 .. n : j[i].user = ev.user
    BY <2>1 DEF Folded, Open
  <2>3. CASE j[i].kind = "registered"
    BY <2>2, <2>3
  <2>4. CASE j[i].kind # "registered"
    BY <2>2, <2>4, <1>1 DEF Ordered
  <2>q. QED  BY <2>3, <2>4
<1>4. \A i \in 1 .. n : j[i].user = ev.user => j[i].kind # "deleted"
  BY <1>2 DEF Folded, Open
<1>5. ASSUME NEW i \in 1 .. n + 1
      PROVE  \/ j2[i].kind = "registered"
             \/ \E h \in 1 .. i - 1 : j2[h].kind = "registered" /\ j2[h].user = j2[i].user
  <2>1. CASE i \in 1 .. n
    <3>1. \A h \in 1 .. i - 1 : j2[h] = j[h]
      BY <1>1, <2>1
    <3>q. QED  BY <1>1, <2>1, <3>1 DEF Ordered
  <2>2. CASE i = n + 1
    BY <1>1, <1>3, <2>2
  <2>q. QED  BY <1>1, <2>1, <2>2
<1>6. ASSUME NEW h \in 1 .. n + 1, NEW i \in 1 .. n + 1, h < i, j2[h].user = j2[i].user
      PROVE  j2[h].kind # "deleted" /\ j2[i].kind # "registered"
  <2>1. h \in 1 .. n
    BY <1>1, <1>6
  <2>2. CASE i \in 1 .. n
    BY <1>1, <1>6, <2>1, <2>2 DEF Ordered
  <2>3. CASE i = n + 1
    BY <1>1, <1>2, <1>4, <1>6, <2>1, <2>3
  <2>q. QED  BY <1>1, <2>2, <2>3
<1>q. QED  BY <1>1, <1>5, <1>6 DEF Ordered

LEMMA FoldedOther ==
  ASSUME NEW j, NEW j2, NEW ev, Appended(j, j2, ev), NEW s, NEW u, ev.user # u,
         Folded(j, s, u)
  PROVE  Folded(j2, s, u)
<1> DEFINE n == Len(j)
<1>1. /\ n \in Nat /\ Len(j2) = n + 1 /\ j2[n + 1] = ev
      /\ \A i \in 1 .. n : j2[i] = j[i]
  BY DEF Appended
<1>2. (\E i \in 1 .. n + 1 : j2[i].user = u) <=> (\E i \in 1 .. n : j[i].user = u)
  BY <1>1
<1>3. (\E i \in 1 .. n + 1 : j2[i].user = u /\ j2[i].kind = "deleted") <=>
        (\E i \in 1 .. n : j[i].user = u /\ j[i].kind = "deleted")
  BY <1>1
<1>4. ASSUME NEW x \in Facets, NEW k \in Keys
      PROVE  Holds(j2, x, u, k, n + 1) <=> Holds(j, x, u, k, n)
  <2>1. Holds(j2, x, u, k, n + 1) <=> Holds(j2, x, u, k, n)
    BY <1>1, HoldsNext
  <2>2. Holds(j2, x, u, k, n) <=> Holds(j, x, u, k, n)
    BY <1>1, HoldsAppended
  <2>q. QED  BY <2>1, <2>2
<1>q. QED  BY <1>1, <1>2, <1>3, <1>4 DEF Folded

LEMMA FoldedOwn ==
  ASSUME NEW j, NEW j2, NEW ev \in Event, Appended(j, j2, ev), Proper(ev),
         NEW s \in Streams, s.exists => s.view \in View,
         Folded(j, s, ev.user), Open(s, ev)
  PROVE  Folded(j2, FoldUser(s, ev), ev.user)
<1> DEFINE n == Len(j)
           u == ev.user
           t == FoldUser(s, ev)
<1>1. /\ n \in Nat /\ Len(j2) = n + 1 /\ j2[n + 1] = ev
      /\ \A i \in 1 .. n : j2[i] = j[i]
  BY DEF Appended
<1>2. s.deleted => s.exists
  BY DEF Folded
<1>3. /\ t.exists
      /\ t.deleted <=> s.deleted \/ ev.kind = "deleted"
      /\ ViewOf(t) = After(ViewOf(s), ev)
  BY <1>2, FoldIsShown, FoldIsAfter
<1>4. \E i \in 1 .. n + 1 : j2[i].user = u
  BY <1>1
<1>5. (\E i \in 1 .. n + 1 : j2[i].user = u /\ j2[i].kind = "deleted") <=>
        \/ \E i \in 1 .. n : j[i].user = u /\ j[i].kind = "deleted"
        \/ ev.kind = "deleted"
  BY <1>1
<1>6. ASSUME NEW x \in Facets, NEW k \in Keys
      PROVE  Shows(ViewOf(t), x, k) <=> Holds(j2, x, u, k, n + 1)
  <2>1. ViewOf(s) \in View \cup {None} /\ (ViewOf(s) # None \/ ev.kind = "registered")
    BY ViewAssumption DEF ViewOf, Streams, Open
  <2>2. Shows(ViewOf(t), x, k) <=> Gains(x, ev, k) \/ (~Loses(x, ev, k) /\ Shows(ViewOf(s), x, k))
    BY <1>3, <2>1, AfterFacet
  <2>3. Shows(ViewOf(s), x, k) <=> Holds(j, x, u, k, n)
    BY DEF Folded
  <2>4. Holds(j2, x, u, k, n + 1) <=>
          Gains(x, ev, k) \/ (Holds(j2, x, u, k, n) /\ ~Loses(x, ev, k))
    BY <1>1, HoldsNext
  <2>5. Holds(j2, x, u, k, n) <=> Holds(j, x, u, k, n)
    BY <1>1, HoldsAppended
  <2>q. QED  BY <2>2, <2>3, <2>4, <2>5
<1>7. s.deleted <=> \E i \in 1 .. n : j[i].user = u /\ j[i].kind = "deleted"
  BY DEF Folded
<1>q. QED  BY <1>1, <1>3, <1>4, <1>5, <1>6, <1>7 DEF Folded

LEMMA NoticedAppended ==
  ASSUME NEW j, NEW j2, NEW ev, Appended(j, j2, ev), NEW sh, Noticed(j, sh),
         NEW st \in [Ids -> Streams], \A u \in Ids : Folded(j2, st[u], u)
  PROVE  Noticed(j2, sh \cup SharedIn(st))
<1> DEFINE n == Len(j)
<1>1. n \in Nat /\ Len(j2) = n + 1
  BY DEF Appended
<1>2. SUFFICES ASSUME NEW x \in Indexed, NEW k \in Keys, NEW p \in 0 .. n + 1,
                      NEW u \in Ids, NEW w \in Ids, u # w,
                      Holds(j2, x, u, k, p), Holds(j2, x, w, k, p)
               PROVE  k \in sh \cup SharedIn(st)
  BY <1>1 DEF Noticed
<1>3. CASE p \in 0 .. n
  <2>1. Holds(j, x, u, k, p) /\ Holds(j, x, w, k, p)
    BY <1>2, <1>3, HoldsAppended
  <2>q. QED  BY <1>2, <1>3, <2>1 DEF Noticed
<1>4. CASE p = n + 1
  <2>1. Shows(ViewOf(st[u]), x, k) /\ Shows(ViewOf(st[w]), x, k)
    BY <1>1, <1>2, <1>4 DEF Folded, Indexed, Facets
  <2>2. /\ st[u].exists /\ ~st[u].deleted /\ st[u].view \in View /\ Has(st[u].view, x, k)
        /\ st[w].exists /\ ~st[w].deleted /\ st[w].view \in View /\ Has(st[w].view, x, k)
    BY <2>1 DEF Shows, ViewOf, Streams
  <2>3. CASE x = "email"
    <3>1. st[u].view.email = k /\ st[w].view.email = k /\ k \in Emails
      BY <2>2, <2>3 DEF Has, View
    <3>q. QED  BY <1>2, <2>2, <3>1 DEF SharedIn
  <2>4. CASE x = "accounts"
    <3>1. k \in st[u].view.accounts /\ k \in st[w].view.accounts /\ k \in Subjects
      BY <2>2, <2>4 DEF Has, View
    <3>q. QED  BY <1>2, <2>2, <3>1 DEF SharedIn
  <2>q. QED  BY <2>3, <2>4 DEF Indexed
<1>q. QED  BY <1>1, <1>3, <1>4

-----------------------------------------------------------------------------
(* Tables: the maps and the rows, at a position of the journal.            *)

LEMMA TracksAppended ==
  ASSUME NEW j, NEW j2, NEW ev, Appended(j, j2, ev), NEW v, NEW u, NEW p \in 0 .. Len(j),
         Tracks(j, v, u, p)
  PROVE  Tracks(j2, v, u, p)
<1>1. SUFFICES ASSUME NEW x \in Facets, NEW k \in Keys
               PROVE  /\ Shows(v, x, k) => Holds(j2, x, u, k, p) \/ Ahead(j2, x, u, k, p)
                      /\ Stays(j2, x, u, k, p) => Shows(v, x, k)
  BY DEF Tracks
<1>2. /\ Shows(v, x, k) => Holds(j, x, u, k, p) \/ Ahead(j, x, u, k, p)
      /\ Stays(j, x, u, k, p) => Shows(v, x, k)
  BY DEF Tracks
<1>q. QED  BY <1>2, HoldsAppended, AheadAppended

\* A view is good enough for every position before the one it was made at.
LEMMA TracksEarlier ==
  ASSUME NEW j, Len(j) \in Nat, NEW v, NEW u, NEW q \in Nat, NEW p \in Nat,
         q <= p, p <= Len(j), Tracks(j, v, u, p)
  PROVE  Tracks(j, v, u, q)
<1>1. SUFFICES ASSUME NEW x \in Facets, NEW k \in Keys
               PROVE  /\ Shows(v, x, k) => Holds(j, x, u, k, q) \/ Ahead(j, x, u, k, q)
                      /\ Stays(j, x, u, k, q) => Shows(v, x, k)
  BY DEF Tracks
<1>2. /\ Shows(v, x, k) => Holds(j, x, u, k, p) \/ Ahead(j, x, u, k, p)
      /\ Stays(j, x, u, k, p) => Shows(v, x, k)
  BY DEF Tracks
<1>q. QED  BY <1>2, Earlier

\* A user with an event that is no registration was registered before it.
LEMMA KnownBefore ==
  ASSUME NEW j, Len(j) \in Nat, Ordered(j), NEW p \in Nat, p < Len(j),
         j[p + 1].kind # "registered"
  PROVE  Holds(j, "known", j[p + 1].user, None, p)
<1> DEFINE u == j[p + 1].user
<1>1. p + 1 \in 1 .. Len(j)
  OBVIOUS
<1>2. PICK h \in 1 .. (p + 1) - 1 : j[h].kind = "registered" /\ j[h].user = u
  BY <1>1 DEF Ordered
<1>3. h \in 1 .. p /\ h \in 1 .. Len(j)
  OBVIOUS
<1>4. ASSUME NEW i \in h + 1 .. p, j[i].user = u
      PROVE  j[i].kind # "deleted" /\ j[i].kind # "registered"
  <2>1. i \in 1 .. Len(j) /\ h < i /\ i < p + 1
    BY <1>3
  <2>q. QED  BY <1>1, <1>2, <1>3, <1>4, <2>1 DEF Ordered
<1>5. Spared(j, "known", u, None, h, p)
  BY <1>4 DEF Spared, Loses
<1>q. QED  BY <1>2, <1>3, <1>5 DEF Holds, Gains

LEMMA TracksNextOther ==
  ASSUME NEW j, Len(j) \in Nat, NEW p \in Nat, p < Len(j), NEW v, NEW u,
         j[p + 1].user # u, Tracks(j, v, u, p)
  PROVE  Tracks(j, v, u, p + 1)
<1>1. SUFFICES ASSUME NEW x \in Facets, NEW k \in Keys
               PROVE  /\ Shows(v, x, k) => Holds(j, x, u, k, p + 1) \/ Ahead(j, x, u, k, p + 1)
                      /\ Stays(j, x, u, k, p + 1) => Shows(v, x, k)
  BY DEF Tracks
<1>2. /\ Shows(v, x, k) => Holds(j, x, u, k, p) \/ Ahead(j, x, u, k, p)
      /\ Stays(j, x, u, k, p) => Shows(v, x, k)
  BY DEF Tracks
<1>3. Holds(j, x, u, k, p + 1) <=> Holds(j, x, u, k, p)
  BY HoldsNext
<1>4. Ahead(j, x, u, k, p) <=> Ahead(j, x, u, k, p + 1)
  BY AheadNext
<1>5. Spared(j, x, u, k, p, Len(j)) <=> Spared(j, x, u, k, p + 1, Len(j))
  BY SparedNext
<1>q. QED  BY <1>2, <1>3, <1>4, <1>5 DEF Stays

\* A view that keeps a later facet of a user is there when its event comes.
LEMMA ThereForGain ==
  ASSUME NEW j, Len(j) \in Nat, Ordered(j), NEW p \in Nat, p < Len(j), NEW v,
         Tracks(j, v, j[p + 1].user, p), j[p + 1].kind \notin {"registered", "deleted"},
         NEW x, NEW k, Spared(j, x, j[p + 1].user, k, p + 1, Len(j))
  PROVE  v # None
<1> DEFINE u == j[p + 1].user
<1>1. Holds(j, "known", u, None, p)
  BY KnownBefore
<1>2. ASSUME NEW i \in p + 1 .. Len(j), j[i].user = u
      PROVE  ~Loses("known", j[i], None)
  <2>1. j[i].kind # "deleted"
    <3>1. CASE i = p + 1
      BY <3>1
    <3>2. CASE i \in p + 2 .. Len(j)
      BY <1>2, <3>2 DEF Spared, Loses
    <3>q. QED  BY <3>1, <3>2
  <2>q. QED  BY <2>1 DEF Loses, Gains
<1>3. Spared(j, "known", u, None, p, Len(j))
  BY <1>2 DEF Spared
<1>4. Shows(v, "known", None)
  BY <1>1, <1>3 DEF Tracks, Stays, Facets, Keys
<1>q. QED  BY <1>4 DEF Shows

LEMMA TracksNextOwn ==
  ASSUME NEW j \in Seq(Event), Ordered(j), NEW p \in Nat, p < Len(j),
         NEW v \in View \cup {None}, Proper(j[p + 1]), Tracks(j, v, j[p + 1].user, p)
  PROVE  Tracks(j, After(v, j[p + 1]), j[p + 1].user, p + 1)
<1> DEFINE ev == j[p + 1]
           u  == j[p + 1].user
<1>0. Len(j) \in Nat /\ ev \in Event
  OBVIOUS
<1>1. SUFFICES ASSUME NEW x \in Facets, NEW k \in Keys
               PROVE  /\ Shows(After(v, ev), x, k) =>
                           Holds(j, x, u, k, p + 1) \/ Ahead(j, x, u, k, p + 1)
                      /\ Stays(j, x, u, k, p + 1) => Shows(After(v, ev), x, k)
  BY DEF Tracks
<1>2. /\ Shows(v, x, k) => Holds(j, x, u, k, p) \/ Ahead(j, x, u, k, p)
      /\ Stays(j, x, u, k, p) => Shows(v, x, k)
  BY DEF Tracks
<1>3. Shows(After(v, ev), x, k) <=>
        \/ Gains(x, ev, k) /\ (v # None \/ ev.kind = "registered")
        \/ ~Loses(x, ev, k) /\ Shows(v, x, k)
  BY <1>0, AfterFacet
<1>4. Holds(j, x, u, k, p + 1) <=>
        Gains(x, ev, k) \/ (Holds(j, x, u, k, p) /\ ~Loses(x, ev, k))
  BY HoldsNext
<1>5. Ahead(j, x, u, k, p) <=> Gains(x, ev, k) \/ Ahead(j, x, u, k, p + 1)
  BY <1>0, AheadNext
<1>6. Spared(j, x, u, k, p, Len(j)) <=> ~Loses(x, ev, k) /\ Spared(j, x, u, k, p + 1, Len(j))
  BY <1>0, SparedNext
<1>7. ASSUME Stays(j, x, u, k, p + 1), Gains(x, ev, k), ev.kind # "registered"
      PROVE  v # None
  <2>1. ev.kind # "deleted"
    BY <1>7 DEF Gains
  <2>q. QED  BY <1>0, <1>7, <2>1, ThereForGain DEF Stays
<1>q. QED
  <2>1. ASSUME Shows(After(v, ev), x, k)
        PROVE  Holds(j, x, u, k, p + 1) \/ Ahead(j, x, u, k, p + 1)
    BY <2>1, <1>2, <1>3, <1>4, <1>5
  <2>2. ASSUME Stays(j, x, u, k, p + 1) PROVE Shows(After(v, ev), x, k)
    <3>1. CASE Gains(x, ev, k)
      BY <2>2, <3>1, <1>3, <1>7
    <3>2. CASE ~Gains(x, ev, k)
      BY <2>2, <3>2, <1>2, <1>3, <1>4, <1>6 DEF Stays
    <3>q. QED  BY <3>1, <3>2
  <2>q. QED  BY <2>1, <2>2

\* Nothing is known of anyone before the first event.
LEMMA NothingTracks ==
  ASSUME NEW j, NEW u PROVE Tracks(j, None, u, 0)
  BY DEF Tracks, Shows, Stays, Holds

\* At the end of the journal a view and the fold of its stream are the same.
LEMMA TrackedToTheEnd ==
  ASSUME NEW j, Len(j) \in Nat, NEW s \in Streams, NEW u, NEW v \in View \cup {None},
         Folded(j, s, u), Tracks(j, v, u, Len(j))
  PROVE  v = ViewOf(s)
<1> DEFINE t == ViewOf(s)
<1>1. t \in View \cup {None}
  BY DEF ViewOf, Streams
<1> HIDE DEF t
<1>2. \A x \in Facets, k \in Keys : Shows(v, x, k) <=> Shows(t, x, k)
  BY NothingAhead DEF Tracks, Folded, Stays, t
<1>3. v # None <=> t # None
  BY <1>2 DEF Shows, Has, Facets, Keys
<1>4. CASE v # None
  <2>1. v \in View /\ t \in View
    BY <1>1, <1>3, <1>4
  <2>2. \A x \in Facets, k \in Keys : Has(v, x, k) <=> Has(t, x, k)
    BY <1>2, <1>3, <1>4 DEF Shows
  <2>3. v.email = t.email
    BY <2>1, <2>2 DEF Has, Facets, Keys, View
  <2>4. v.verified = t.verified /\ v.totp = t.totp
    <3>1. (v.verified <=> t.verified) /\ (v.totp <=> t.totp)
      BY <2>2 DEF Has, Facets, Keys
    <3>q. QED  BY <2>1, <3>1 DEF View
  <2>5. v.creds = t.creds
    <3>1. \A k \in Keys : k \in v.creds <=> k \in t.creds
      BY <2>2 DEF Has, Facets
    <3>q. QED  BY <2>1, <3>1 DEF View, Keys
  <2>6. v.accounts = t.accounts
    <3>1. \A k \in Keys : k \in v.accounts <=> k \in t.accounts
      BY <2>2 DEF Has, Facets
    <3>q. QED  BY <2>1, <3>1 DEF View, Keys
  <2>q. QED  BY <2>1, <2>3, <2>4, <2>5, <2>6 DEF View, t
<1>q. QED  BY <1>3, <1>4 DEF t

-----------------------------------------------------------------------------
(* Indexes: one key at a time.                                             *)

\* What the handlers make of an index: v is the view of the event's user.
EmailsAfter(index, v, ev) ==
  CASE ev.kind = "registered" -> Claim(index, ev.arg, ev.user)
    [] ev.kind = "emailChanged" /\ v # None ->
         Claim(Evict(index, v.email, ev.user), ev.arg, ev.user)
    [] ev.kind = "deleted" /\ v # None -> Evict(index, v.email, ev.user)
    [] OTHER -> index

SubjectsAfter(index, v, ev) ==
  CASE ev.kind = "linked" /\ v # None -> Claim(index, ev.arg, ev.user)
    [] ev.kind = "unlinked" /\ v # None -> Evict(index, ev.arg, ev.user)
    [] ev.kind = "deleted" /\ v # None ->
         [s \in Subjects |-> IF s \in v.accounts /\ index[s] = ev.user THEN None ELSE index[s]]
    [] OTHER -> index

\* What that does to one entry: nobody else's is touched, a gained key is
\* taken if it is free, a kept one is kept, a lost one is dropped.
Moves(x, old, new, v, ev, k) ==
  /\ old \notin {None, ev.user} => new = old
  /\ new \notin {None, ev.user} => new = old
  /\ new = ev.user /\ old # ev.user =>
       Gains(x, ev, k) /\ (v # None \/ ev.kind = "registered")
  /\ Gains(x, ev, k) /\ (v # None \/ ev.kind = "registered") /\ old \in {None, ev.user} =>
       new = ev.user
  /\ old = ev.user /\ ~Loses(x, ev, k) => new = ev.user
  /\ old = ev.user /\ Loses(x, ev, k) /\ Shows(v, x, k) /\ ev.kind # "registered" =>
       new # ev.user

LEMMA ClaimedEntry ==
  ASSUME NEW S, NEW index \in [S -> Ids \cup {None}], NEW a \in S, NEW u \in Ids
  PROVE  /\ Claim(index, a, u) \in [S -> Ids \cup {None}]
         /\ \A k \in S : Claim(index, a, u)[k] =
                           IF k = a /\ index[k] = None THEN u ELSE index[k]
  BY DEF Claim

LEMMA EvictedEntry ==
  ASSUME NEW S, NEW index \in [S -> Ids \cup {None}], NEW a \in S, NEW u \in Ids
  PROVE  /\ Evict(index, a, u) \in [S -> Ids \cup {None}]
         /\ \A k \in S : Evict(index, a, u)[k] =
                           IF k = a /\ index[k] = u THEN None ELSE index[k]
  BY DEF Evict

LEMMA EmailsMove ==
  ASSUME NEW index \in [Emails -> Ids \cup {None}], NEW v \in View \cup {None},
         NEW ev \in Event, Proper(ev)
  PROVE  /\ EmailsAfter(index, v, ev) \in [Emails -> Ids \cup {None}]
         /\ \A k \in Emails : Moves("email", index[k], EmailsAfter(index, v, ev)[k], v, ev, k)
<1> DEFINE new == EmailsAfter(index, v, ev)
<1>1. ev.user \in Ids /\ ev.user # None
  BY NoneAssumption DEF Event
<1>2. CASE ev.kind = "registered"
  <2>1. ev.arg \in Emails
    BY <1>2 DEF Proper
  <2>2. new = Claim(index, ev.arg, ev.user)
    BY <1>2 DEF EmailsAfter
  <2>3. /\ new \in [Emails -> Ids \cup {None}]
        /\ \A k \in Emails : new[k] = IF k = ev.arg /\ index[k] = None THEN ev.user ELSE index[k]
    BY <1>1, <2>1, <2>2, ClaimedEntry
  <2> HIDE DEF new
  <2>4. ASSUME NEW k \in Emails PROVE Moves("email", index[k], new[k], v, ev, k)
    BY <1>1, <1>2, <2>3 DEF Moves, Gains, Loses
  <2>q. QED  BY <2>3, <2>4 DEF new
<1>3. CASE ev.kind = "emailChanged" /\ v # None
  <2>1. ev.arg \in Emails /\ v \in View /\ v.email \in Emails
    BY <1>3 DEF Proper, View
  <2> DEFINE mid == Evict(index, v.email, ev.user)
  <2>2. new = Claim(mid, ev.arg, ev.user)
    BY <1>3 DEF EmailsAfter
  <2>3. /\ mid \in [Emails -> Ids \cup {None}]
        /\ \A k \in Emails : mid[k] = IF k = v.email /\ index[k] = ev.user THEN None ELSE index[k]
    BY <1>1, <2>1, EvictedEntry
  <2> HIDE DEF mid
  <2>4. /\ new \in [Emails -> Ids \cup {None}]
        /\ \A k \in Emails : new[k] = IF k = ev.arg /\ mid[k] = None THEN ev.user ELSE mid[k]
    BY <1>1, <2>1, <2>2, <2>3, ClaimedEntry
  <2> HIDE DEF new
  <2>5. ASSUME NEW k \in Emails PROVE Moves("email", index[k], new[k], v, ev, k)
    BY <1>1, <1>3, <2>3, <2>4 DEF Moves, Gains, Loses, Shows, Has
  <2>q. QED  BY <2>4, <2>5 DEF new
<1>4. CASE ev.kind = "deleted" /\ v # None
  <2>1. v \in View /\ v.email \in Emails
    BY <1>4 DEF View
  <2>2. new = Evict(index, v.email, ev.user)
    BY <1>4 DEF EmailsAfter
  <2>3. /\ new \in [Emails -> Ids \cup {None}]
        /\ \A k \in Emails : new[k] = IF k = v.email /\ index[k] = ev.user THEN None ELSE index[k]
    BY <1>1, <2>1, <2>2, EvictedEntry
  <2> HIDE DEF new
  <2>4. ASSUME NEW k \in Emails PROVE Moves("email", index[k], new[k], v, ev, k)
    BY <1>1, <1>4, <2>3 DEF Moves, Gains, Loses, Shows, Has
  <2>q. QED  BY <2>3, <2>4 DEF new
<1>5. CASE ev.kind # "registered" /\ (v = None \/ ev.kind \notin {"emailChanged", "deleted"})
  <2>1. new = index
    BY <1>5 DEF EmailsAfter
  <2> HIDE DEF new
  <2>2. ASSUME NEW k \in Emails PROVE Moves("email", index[k], new[k], v, ev, k)
    BY <1>1, <1>5, <2>1 DEF Moves, Gains, Loses, Shows
  <2>q. QED  BY <2>1, <2>2 DEF new
<1>q. QED  BY <1>2, <1>3, <1>4, <1>5

LEMMA SubjectsMove ==
  ASSUME NEW index \in [Subjects -> Ids \cup {None}], NEW v \in View \cup {None},
         NEW ev \in Event, Proper(ev)
  PROVE  /\ SubjectsAfter(index, v, ev) \in [Subjects -> Ids \cup {None}]
         /\ \A k \in Subjects :
              Moves("accounts", index[k], SubjectsAfter(index, v, ev)[k], v, ev, k)
<1> DEFINE new == SubjectsAfter(index, v, ev)
<1>1. ev.user \in Ids /\ ev.user # None
  BY NoneAssumption DEF Event
<1>2. CASE ev.kind = "linked" /\ v # None
  <2>1. ev.arg \in Subjects
    BY <1>2 DEF Proper
  <2>2. new = Claim(index, ev.arg, ev.user)
    BY <1>2 DEF SubjectsAfter
  <2>3. /\ new \in [Subjects -> Ids \cup {None}]
        /\ \A k \in Subjects : new[k] = IF k = ev.arg /\ index[k] = None THEN ev.user ELSE index[k]
    BY <1>1, <2>1, <2>2, ClaimedEntry
  <2> HIDE DEF new
  <2>4. ASSUME NEW k \in Subjects PROVE Moves("accounts", index[k], new[k], v, ev, k)
    BY <1>1, <1>2, <2>3 DEF Moves, Gains, Loses, Shows, Has
  <2>q. QED  BY <2>3, <2>4 DEF new
<1>3. CASE ev.kind = "unlinked" /\ v # None
  <2>1. ev.arg \in Subjects
    BY <1>3 DEF Proper
  <2>2. new = Evict(index, ev.arg, ev.user)
    BY <1>3 DEF SubjectsAfter
  <2>3. /\ new \in [Subjects -> Ids \cup {None}]
        /\ \A k \in Subjects : new[k] = IF k = ev.arg /\ index[k] = ev.user THEN None ELSE index[k]
    BY <1>1, <2>1, <2>2, EvictedEntry
  <2> HIDE DEF new
  <2>4. ASSUME NEW k \in Subjects PROVE Moves("accounts", index[k], new[k], v, ev, k)
    BY <1>1, <1>3, <2>3 DEF Moves, Gains, Loses, Shows, Has
  <2>q. QED  BY <2>3, <2>4 DEF new
<1>4. CASE ev.kind = "deleted" /\ v # None
  <2>1. new = [s \in Subjects |-> IF s \in v.accounts /\ index[s] = ev.user
                                    THEN None ELSE index[s]]
    BY <1>4 DEF SubjectsAfter
  <2> HIDE DEF new
  <2>2. ASSUME NEW k \in Subjects PROVE Moves("accounts", index[k], new[k], v, ev, k)
    BY <1>1, <1>4, <2>1 DEF Moves, Gains, Loses, Shows, Has
  <2>3. new \in [Subjects -> Ids \cup {None}]
    BY <2>1
  <2>q. QED  BY <2>2, <2>3 DEF new
<1>5. CASE v = None \/ ev.kind \notin {"linked", "unlinked", "deleted"}
  <2>1. new = index
    BY <1>5 DEF SubjectsAfter
  <2> HIDE DEF new
  <2>2. ASSUME NEW k \in Subjects PROVE Moves("accounts", index[k], new[k], v, ev, k)
    BY <1>1, <1>5, <2>1 DEF Moves, Gains, Loses, Shows
  <2>q. QED  BY <2>1, <2>2 DEF new
<1>q. QED  BY <1>2, <1>3, <1>4, <1>5

\* An entry of an index at a position: of a user that has the key or will get it.
Leads(j, table, x, k, p, entry) ==
  entry # None =>
    /\ table[entry] # None
    /\ Shows(table[entry], x, k) \/ Ahead(j, x, entry, k, p)

\* The event after position p is applied to a table and to an entry.
Applied(j, p, table, table2, x, k, old, new) ==
  /\ j \in Seq(Event) /\ Ordered(j) /\ p \in Nat /\ p < Len(j) /\ Proper(j[p + 1])
  /\ table \in [Ids -> View \cup {None}] /\ \A u \in Ids : Tracks(j, table[u], u, p)
  /\ table2 = [table EXCEPT ![j[p + 1].user] = After(@, j[p + 1])]
  /\ x \in Indexed /\ k \in Keys /\ old \in Ids \cup {None} /\ new \in Ids \cup {None}
  /\ Moves(x, old, new, table[j[p + 1].user], j[p + 1], k)
  /\ Leads(j, table, x, k, p, old)

\* An entry of an index and the table behind it, after one event.
LEMMA LeadsNext ==
  ASSUME NEW j, NEW p, NEW table, NEW table2, NEW x, NEW k, NEW old, NEW new,
         Applied(j, p, table, table2, x, k, old, new)
  PROVE  Leads(j, table2, x, k, p + 1, new)
<1> USE DEF Applied, Leads
<1> DEFINE ev == j[p + 1]
           u  == j[p + 1].user
           v  == table[u]
<1>a. Len(j) \in Nat /\ p + 1 \in 1 .. Len(j) /\ ev \in Event
  OBVIOUS
<1>b. u \in Ids /\ u # None
  BY <1>a, NoneAssumption DEF Event
<1>0. /\ Len(j) \in Nat /\ ev \in Event /\ u \in Ids /\ u # None /\ v \in View \cup {None}
      /\ x \in Facets /\ p + 1 \in 1 .. Len(j)
  BY <1>a, <1>b DEF Indexed, Facets
<1>1. SUFFICES ASSUME new # None
               PROVE  /\ table2[new] # None
                      /\ Shows(table2[new], x, k) \/ Ahead(j, x, new, k, p + 1)
  OBVIOUS
<1>2. CASE new # u
  <2>1. new = old /\ table2[new] = table[new]
    BY <1>0, <1>1, <1>2 DEF Moves
  <2>2. Ahead(j, x, new, k, p) <=> Ahead(j, x, new, k, p + 1)
    BY <1>0, <1>2, AheadNext
  <2>q. QED  BY <1>1, <2>1, <2>2
<1>3. CASE new = u
  <2>1. table2[u] = After(v, ev)
    BY <1>0
  <2>2. Shows(After(v, ev), x, k) <=>
          \/ Gains(x, ev, k) /\ (v # None \/ ev.kind = "registered")
          \/ ~Loses(x, ev, k) /\ Shows(v, x, k)
    BY <1>0, AfterFacet
  <2>3. Shows(After(v, ev), x, k) => After(v, ev) # None
    BY DEF Shows
  <2>4. Ahead(j, x, u, k, p) <=> Gains(x, ev, k) \/ Ahead(j, x, u, k, p + 1)
    BY <1>0, AheadNext
  <2>5. CASE old # u
    BY <1>3, <2>1, <2>2, <2>3, <2>5 DEF Moves
  <2>6. CASE old = u
    <3>1. v # None /\ (Shows(v, x, k) \/ Ahead(j, x, u, k, p))
      BY <1>0, <2>6
    <3>2. CASE Gains(x, ev, k)
      BY <1>3, <2>1, <2>2, <2>3, <3>1, <3>2
    <3>3. CASE Ahead(j, x, u, k, p + 1)
      <4>1. ev.kind # "deleted"
        <5>1. PICK i \in p + 2 .. Len(j) : j[i].user = u
          BY <3>3 DEF Ahead
        <5>q. QED  BY <1>0, <5>1 DEF Ordered
      <4>2. After(v, ev) # None
        <5>1. CASE ev.kind = "registered"
          BY <1>0, <5>1, FreshIsAView, ViewAssumption DEF After, Proper
        <5>2. CASE ev.kind # "registered"
          <6>1. v \in View
            BY <1>0, <3>1
          <6>2. Shown(v, ev) \in View
            BY <1>0, <4>1, <5>2, <6>1, ShownIsAView
          <6>q. QED  BY <3>1, <4>1, <5>2, <6>2, ViewAssumption DEF After
        <5>q. QED  BY <5>1, <5>2
      <4>q. QED  BY <1>3, <2>1, <3>3, <4>2
    <3>4. CASE ~Gains(x, ev, k) /\ ~Ahead(j, x, u, k, p + 1)
      <4>1. Shows(v, x, k) /\ ~Ahead(j, x, u, k, p)
        BY <2>4, <3>1, <3>4
      <4>2. Holds(j, x, u, k, p)
        BY <1>0, <4>1 DEF Tracks
      <4>3. ev.kind # "registered"
        <5>1. PICK i \in 1 .. p : j[i].user = u
          BY <4>2 DEF Holds
        <5>2. i \in 1 .. Len(j) /\ i < p + 1
          BY <1>0
        <5>q. QED  BY <1>0, <5>1, <5>2 DEF Ordered
      <4>4. ~Loses(x, ev, k)
        BY <1>3, <2>6, <4>1, <4>3 DEF Moves
      <4>q. QED  BY <1>3, <2>1, <2>2, <2>3, <4>1, <4>4
    <3>q. QED  BY <3>2, <3>3, <3>4
  <2>q. QED  BY <2>5, <2>6
<1>q. QED  BY <1>2, <1>3

\* A key that is not shared and stays with a user is nobody else's, now or later.
LEMMA OneOwner ==
  ASSUME NEW j, Len(j) \in Nat, NEW sh, Noticed(j, sh), NEW x \in Indexed,
         NEW k \in Keys, k \notin sh, NEW p \in 0 .. Len(j),
         NEW u \in Ids, NEW w \in Ids, u # w, Stays(j, x, u, k, p)
  PROVE  ~Holds(j, x, w, k, p) /\ ~Ahead(j, x, w, k, p)
<1>1. ~Holds(j, x, w, k, p)
  BY DEF Noticed, Stays
<1>2. ASSUME Ahead(j, x, w, k, p) PROVE FALSE
  <2>1. PICK i \in p + 1 .. Len(j) : j[i].user = w /\ Gains(x, j[i], k)
    BY <1>2 DEF Ahead
  <2>2. i \in 0 .. Len(j) /\ i \in 1 .. i
    OBVIOUS
  <2>3. Holds(j, x, w, k, i)
    BY <2>1, <2>2 DEF Holds, Spared
  <2>4. Stays(j, x, u, k, i)
    BY <2>2, Earlier
  <2>q. QED  BY <2>2, <2>3, <2>4 DEF Noticed, Stays
<1>q. QED  BY <1>1, <1>2

\* What is not shared stays found.
LEMMA FindsNext ==
  ASSUME NEW j, NEW p, NEW table, NEW table2, NEW x, NEW k, NEW old, NEW new,
         Applied(j, p, table, table2, x, k, old, new),
         NEW sh, Noticed(j, sh), k \notin sh,
         \A u \in Ids : Stays(j, x, u, k, p) => old = u,
         NEW w \in Ids, Stays(j, x, w, k, p + 1)
  PROVE  new = w
<1> USE DEF Applied, Leads
<1> DEFINE ev == j[p + 1]
           u  == j[p + 1].user
<1>a. Len(j) \in Nat /\ p + 1 \in 1 .. Len(j) /\ p + 1 \in 0 .. Len(j) /\ ev \in Event
  OBVIOUS
<1>b. u \in Ids /\ u # None /\ w # None
  BY <1>a, NoneAssumption DEF Event
<1>0. /\ Len(j) \in Nat /\ ev \in Event /\ u \in Ids /\ u # None /\ w # None
      /\ x \in Facets /\ p + 1 \in 1 .. Len(j) /\ p + 1 \in 0 .. Len(j)
  BY <1>a, <1>b DEF Indexed, Facets
<1>1. Holds(j, x, w, k, p + 1) <=>
        IF u = w THEN Gains(x, ev, k) \/ (Holds(j, x, w, k, p) /\ ~Loses(x, ev, k))
                 ELSE Holds(j, x, w, k, p)
  BY HoldsNext
<1>2. Spared(j, x, w, k, p, Len(j)) <=>
        (u = w => ~Loses(x, ev, k)) /\ Spared(j, x, w, k, p + 1, Len(j))
  BY <1>0, SparedNext
<1>3. CASE u # w
  <2>1. Stays(j, x, w, k, p)
    BY <1>1, <1>2, <1>3 DEF Stays
  <2>q. QED  BY <1>0, <1>3, <2>1 DEF Moves
<1>4. CASE u = w /\ ~Gains(x, ev, k)
  <2>1. Stays(j, x, w, k, p) /\ ~Loses(x, ev, k)
    BY <1>1, <1>2, <1>4 DEF Stays
  <2>q. QED  BY <1>4, <2>1 DEF Moves
<1>5. CASE u = w /\ Gains(x, ev, k)
  <2>1. table[u] # None \/ ev.kind = "registered"
    <3>1. SUFFICES ASSUME ev.kind # "registered" PROVE table[u] # None
      OBVIOUS
    <3>2. ev.kind # "deleted"
      BY <1>5 DEF Gains
    <3>q. QED  BY <1>0, <1>5, <3>1, <3>2, ThereForGain DEF Stays
  <2>2. old \in {None, u}
    <3>1. SUFFICES ASSUME old \notin {None, u} PROVE FALSE
      OBVIOUS
    <3>2. ~Holds(j, x, old, k, p + 1) /\ ~Ahead(j, x, old, k, p + 1)
      BY <1>0, <1>5, <3>1, OneOwner
    <3>3. Holds(j, x, old, k, p) \/ Ahead(j, x, old, k, p)
      BY <1>0, <3>1 DEF Tracks
    <3>4. Holds(j, x, old, k, p + 1) <=> Holds(j, x, old, k, p)
      BY <3>1, HoldsNext
    <3>5. Ahead(j, x, old, k, p) <=> Ahead(j, x, old, k, p + 1)
      BY <1>0, <3>1, AheadNext
    <3>q. QED  BY <3>2, <3>3, <3>4, <3>5
  <2>q. QED  BY <1>5, <2>1, <2>2 DEF Moves
<1>q. QED  BY <1>3, <1>4, <1>5

-----------------------------------------------------------------------------
(* The actions of the specification, seen by the journal and the maps.     *)

Requested == req \in [Slots -> Requests] /\ \A r \in Slots : Carries(req[r])

Emits(ev) == ev \in Event /\ Proper(ev) /\ Emit(ev) /\ UNCHANGED <<memory, disk, pos, host>>
Quiet == UNCHANGED <<log, memory, rows, pos>>

LEMMA RequestSet ==
  ASSUME Requested, NEW r \in Slots, NEW q \in Requests, Carries(q),
         req' = [req EXCEPT ![r] = q]
  PROVE  Requested'
  BY DEF Requested

LEMMA IdleIsARequest == Idle \in Requests /\ Carries(Idle)
  BY BoundsAssumption DEF Idle, Request, Requests, Phases, Carries

\* A request goes on to its next phase.
LEMMA Goes ==
  ASSUME Requested, NEW r \in Slots, NEW to \in Phases, req' = [req EXCEPT ![r].at = to],
         to # "idle", req[r].at # "idle",
         to # "provision" => req[r].who \in Ids,
         to \notin {"register", "registered"} => req[r].subject \in Subjects
  PROVE  Requested'
<1> DEFINE q == [req[r] EXCEPT !.at = to]
<1>1. req[r] \in Requests /\ Carries(req[r])
  BY DEF Requested
<1>2. q \in Requests /\ q.at = to /\ q.who = req[r].who /\ q.email = req[r].email
      /\ q.subject = req[r].subject
  BY <1>1 DEF Requests
<1> HIDE DEF q
<1>3. Carries(q)
  BY <1>1, <1>2 DEF Carries
<1>4. req' = [req EXCEPT ![r] = q]
  BY DEF q
<1>q. QED  BY <1>2, <1>3, <1>4, RequestSet

LEMMA Finishes ==
  ASSUME Requested, NEW r \in Slots, Finish(r) PROVE Requested'
  BY IdleIsARequest, RequestSet DEF Finish

\* A dispatch appends a proper event or ends the request.
LEMMA Dispatches ==
  ASSUME Requested, journal \in Seq(Event), NEW r \in Slots, NEW from, NEW to \in Phases, NEW ev \in Event,
         Proper(ev), Dispatch(r, from, ev, to), from # "idle", from # "provision",
         to \in {"registered", "linked"},
         to = "linked" => from \notin {"register", "registered"}
  PROVE  Requested' /\ (Emits(ev) \/ Quiet)
<1>1. CASE ~Decides(ev) /\ Finish(r) /\ UNCHANGED log
  BY <1>1, Finishes DEF Dispatch, Quiet, disk
<1>2. CASE /\ Emit(ev)
           /\ req' = [req EXCEPT ![r].at = to, ![r].seq = Len(journal'),
                                 ![r].proven = @ /\ from # "verify"]
  <2> DEFINE q == [req[r] EXCEPT !.at = to, !.seq = Len(journal'),
                                 !.proven = @ /\ from # "verify"]
  <2>1. req[r] \in Requests /\ Carries(req[r]) /\ req[r].at = from
    BY DEF Requested, Dispatch
  <2>2. Len(journal') \in 0 .. MaxEvents
    BY <1>2, BoundsAssumption DEF Emit
  <2>3. /\ q \in Requests /\ q.at = to /\ q.who = req[r].who /\ q.email = req[r].email
        /\ q.subject = req[r].subject
    BY <2>1, <2>2 DEF Requests
  <2> HIDE DEF q
  <2>4. Carries(q)
    BY <2>1, <2>3 DEF Carries
  <2>5. req' = [req EXCEPT ![r] = q]
    BY <1>2 DEF q
  <2>6. Requested'
    BY <2>3, <2>4, <2>5, RequestSet
  <2>q. QED  BY <1>2, <2>6 DEF Emits, Dispatch
<1>q. QED  BY <1>1, <1>2 DEF Dispatch

\* The events of requests.
LEMMA RequestsDispatch ==
  ASSUME Requested, journal \in Seq(Event), NEW r \in Slots,
         DispatchRegister(r) \/ DispatchLink(r) \/ DispatchVerify(r)
  PROVE  Requested' /\ (Quiet \/ \E ev \in Event : Emits(ev))
<1>0. req[r] \in Requests /\ Carries(req[r])
  BY DEF Requested
<1>1. CASE DispatchRegister(r)
  <2> DEFINE ev == Ev("registered", req[r].who, req[r].email)
  <2>1. req[r].at = "register"
    BY <1>1 DEF DispatchRegister, Dispatch
  <2>2. req[r].who \in Ids /\ req[r].email \in Emails
    BY <1>0, <2>1 DEF Carries
  <2>3. ev \in Event /\ Proper(ev)
    BY <2>2 DEF Ev, Event, Kinds, Proper
  <2>4. Dispatch(r, "register", ev, "registered")
    BY <1>1 DEF DispatchRegister
  <2> HIDE DEF ev
  <2>5. Requested' /\ (Emits(ev) \/ Quiet)
    BY <2>3, <2>4, Dispatches DEF Phases
  <2>q. QED  BY <2>3, <2>5
<1>2. CASE DispatchLink(r)
  <2> DEFINE ev == Ev("linked", req[r].who, req[r].subject)
  <2>1. req[r].at = "linking"
    BY <1>2 DEF DispatchLink, Dispatch
  <2>2. req[r].who \in Ids /\ req[r].subject \in Subjects
    BY <1>0, <2>1 DEF Carries
  <2>3. ev \in Event /\ Proper(ev)
    BY <2>2 DEF Ev, Event, Kinds, Proper
  <2>4. Dispatch(r, "linking", ev, "linked")
    BY <1>2 DEF DispatchLink
  <2> HIDE DEF ev
  <2>5. Requested' /\ (Emits(ev) \/ Quiet)
    BY <2>3, <2>4, Dispatches DEF Phases
  <2>q. QED  BY <2>3, <2>5
<1>3. CASE DispatchVerify(r)
  <2> DEFINE ev == Ev("verified", req[r].who, None)
  <2>1. req[r].at = "verify"
    BY <1>3 DEF DispatchVerify, Dispatch
  <2>2. req[r].who \in Ids
    BY <1>0, <2>1 DEF Carries
  <2>3. ev \in Event /\ Proper(ev)
    BY <2>2 DEF Ev, Event, Kinds, Proper
  <2>4. Dispatch(r, "verify", ev, "linked")
    BY <1>3 DEF DispatchVerify
  <2> HIDE DEF ev
  <2>5. Requested' /\ (Emits(ev) \/ Quiet)
    BY <2>3, <2>4, Dispatches DEF Phases
  <2>q. QED  BY <2>3, <2>5
<1>q. QED  BY <1>1, <1>2, <1>3

\* The steps of requests that append nothing.
LEMMA RequestsMove ==
  ASSUME Requested, byEmail \in [Emails -> Ids \cup {None}], NEW r \in Slots,
         \/ Provision(r) \/ AfterRegister(r) \/ Link(r) \/ AfterLink(r)
         \/ \E e \in Emails : Register(r, e)
         \/ \E e \in Emails, s \in Subjects, p \in BOOLEAN : OAuth(r, e, s, p)
  PROVE  Requested' /\ Quiet
<1>0. req[r] \in Requests /\ Carries(req[r])
  BY DEF Requested
<1>1. CASE Provision(r)
  <2>1. req[r].at = "provision" /\ req[r].email \in Emails /\ req[r].subject \in Subjects
    BY <1>0, <1>1 DEF Provision, Carries
  <2>2. CASE \E u \in Ids : req' = [req EXCEPT ![r].at = "register", ![r].who = u]
    <3>1. PICK u \in Ids : req' = [req EXCEPT ![r].at = "register", ![r].who = u]
      BY <2>2
    <3> DEFINE q == [req[r] EXCEPT !.at = "register", !.who = u]
    <3>2. q \in Requests /\ q.at = "register" /\ q.who = u /\ q.email = req[r].email
      BY <1>0 DEF Requests, Phases
    <3> HIDE DEF q
    <3>3. Carries(q)
      BY <2>1, <3>2 DEF Carries
    <3>4. req' = [req EXCEPT ![r] = q]
      BY <3>1 DEF q
    <3>5. Requested'
      BY <3>2, <3>3, <3>4, RequestSet
    <3>q. QED  BY <1>1, <3>5 DEF Provision, Quiet, disk
  <2>3. CASE Finish(r)
    BY <1>1, <2>3, Finishes DEF Provision, Quiet, disk
  <2>q. QED  BY <1>1, <2>2, <2>3 DEF Provision
<1>2. CASE AfterRegister(r)
  <2>1. CASE req[r].subject # None /\ Go(r, "link")
    <3>1. req[r].subject \in Subjects /\ req[r].who \in Ids
      BY <1>0, <1>2, <2>1 DEF Requests, Carries, AfterRegister
    <3>2. Requested'
      BY <1>2, <2>1, <3>1, Goes DEF Go, AfterRegister, Phases
    <3>q. QED  BY <1>2, <3>2 DEF AfterRegister, Quiet, disk
  <2>2. CASE Finish(r)
    BY <1>2, <2>2, Finishes DEF AfterRegister, Quiet, disk
  <2>q. QED  BY <1>2, <2>1, <2>2 DEF AfterRegister
<1>3. CASE Link(r)
  <2>1. CASE Go(r, "linking")
    <3>1. req[r].subject \in Subjects /\ req[r].who \in Ids /\ req[r].at = "link"
      BY <1>0, <1>3 DEF Requests, Carries, Link
    <3>2. Requested'
      BY <2>1, <3>1, Goes DEF Go, Phases
    <3>q. QED  BY <1>3, <3>2 DEF Link, Quiet, disk
  <2>2. CASE Finish(r)
    BY <1>3, <2>2, Finishes DEF Link, Quiet, disk
  <2>q. QED  BY <1>3, <2>1, <2>2 DEF Link
<1>4. CASE AfterLink(r)
  <2>1. CASE Go(r, "verify")
    <3>1. req[r].subject \in Subjects /\ req[r].who \in Ids /\ req[r].at = "linked"
      BY <1>0, <1>4 DEF Requests, Carries, AfterLink
    <3>2. Requested'
      BY <2>1, <3>1, Goes DEF Go, Phases
    <3>q. QED  BY <1>4, <3>2 DEF AfterLink, Quiet, disk
  <2>2. CASE Finish(r)
    BY <1>4, <2>2, Finishes DEF AfterLink, Quiet, disk
  <2>q. QED  BY <1>4, <2>1, <2>2 DEF AfterLink
<1>5. ASSUME NEW e \in Emails, Register(r, e) PROVE Requested' /\ Quiet
  <2>1. PICK u \in Ids : req' = [req EXCEPT ![r] = Request("register", u, e, None, FALSE)]
    BY <1>5 DEF Register
  <2>2. /\ Request("register", u, e, None, FALSE) \in Requests
        /\ Carries(Request("register", u, e, None, FALSE))
    BY BoundsAssumption DEF Request, Requests, Phases, Carries
  <2>3. Requested'
    BY <2>1, <2>2, RequestSet
  <2>q. QED  BY <1>5, <2>3 DEF Register, Quiet, disk
<1>6. ASSUME NEW e \in Emails, NEW s \in Subjects, NEW p \in BOOLEAN, OAuth(r, e, s, p)
      PROVE  Requested' /\ Quiet
  <2> DEFINE known == p /\ byEmail[e] # None
             q == IF known THEN Request("link", byEmail[e], e, s, p)
                  ELSE Request("provision", None, e, s, p)
  <2>1. req' = [req EXCEPT ![r] = q]
    BY <1>6 DEF OAuth
  <2>2. q \in Requests /\ Carries(q)
    <3>1. CASE known
      <4>1. byEmail[e] \in Ids
        BY <3>1
      <4>q. QED  BY <3>1, <4>1, BoundsAssumption DEF Request, Requests, Phases, Carries
    <3>2. CASE ~known
      BY <3>2, BoundsAssumption DEF Request, Requests, Phases, Carries
    <3>q. QED  BY <3>1, <3>2
  <2> HIDE DEF q
  <2>3. Requested'
    BY <2>1, <2>2, RequestSet
  <2>q. QED  BY <1>6, <2>3 DEF OAuth, Quiet, disk
<1>q. QED  BY <1>1, <1>2, <1>3, <1>4, <1>5, <1>6

\* The other commands append a proper event that is no registration.
LEMMA UserCallEmits ==
  ASSUME NEW u \in Ids, UserCall(u)
  PROVE  UNCHANGED <<req, lock>> /\ \E ev \in Event : Emits(ev) /\ ev.kind # "registered"
<1> DEFINE Fits(ev) == ev \in Event /\ Proper(ev) /\ ev.kind # "registered"
<1>1. \A call, ev : Call(call, ev) /\ ev \in Event /\ Proper(ev) =>
        UNCHANGED <<req, lock>> /\ Emits(ev)
  BY DEF Call, Emits, disk
<1>2. \A e \in Emails : Fits(Ev("emailChanged", u, e))
  BY DEF Ev, Event, Kinds, Proper
<1>3. \A c \in Creds : Fits(Ev("credAdded", u, c)) /\ Fits(Ev("credRemoved", u, c))
  BY DEF Ev, Event, Kinds, Proper
<1>4. \A s \in Subjects : Fits(Ev("unlinked", u, s))
  BY DEF Ev, Event, Kinds, Proper
<1>5. /\ Fits(Ev("deleted", u, None)) /\ Fits(Ev("verified", u, None))
      /\ Fits(Ev("totpEnabled", u, None)) /\ Fits(Ev("totpDisabled", u, None))
  BY DEF Ev, Event, Kinds, Proper
<1> HIDE DEF Fits
<1>6. \E call, ev : Fits(ev) /\ Call(call, ev)
  <2>1. CASE \E e \in Emails : Call("changeEmail", Ev("emailChanged", u, e))
    BY <1>2, <2>1
  <2>2. CASE \E c \in Creds : \/ Call("addCred", Ev("credAdded", u, c))
                              \/ Call("removeCred", Ev("credRemoved", u, c))
    BY <1>3, <2>2
  <2>3. CASE \E s \in Subjects : Call("unlink", Ev("unlinked", u, s))
    BY <1>4, <2>3
  <2>4. CASE \/ Call("delete", Ev("deleted", u, None))
             \/ Call("enableTOTP", Ev("totpEnabled", u, None))
             \/ Call("disableTOTP", Ev("totpDisabled", u, None))
             \/ Call("verify", Ev("verified", u, None))
    BY <1>5, <2>4
  <2>q. QED  BY <2>1, <2>2, <2>3, <2>4 DEF UserCall, TOTPCall
<1>q. QED  BY <1>1, <1>6 DEF Fits

\* Every step is one of five kinds.
LEMMA StepKinds ==
  ASSUME Typed, Next
  PROVE  \/ (\E ev \in Event : Emits(ev)) \/ Quiet \/ Project \/ Rebuild \/ Restart
<1>0. Requested /\ journal \in Seq(Event) /\ byEmail \in [Emails -> Ids \cup {None}]
  BY DEF Typed, TypeOK, Requested, Requests
<1>1. CASE SaveCheckpoint \/ Drained
  BY <1>1 DEF SaveCheckpoint, Drained, Quiet, disk
<1>2. ASSUME NEW u \in Ids, UserCall(u) PROVE \E ev \in Event : Emits(ev)
  BY <1>2, UserCallEmits
<1>3. ASSUME NEW r \in Slots,
             \/ Steps(r)
             \/ \E e \in Emails : Register(r, e)
             \/ \E e \in Emails, s \in Subjects, p \in BOOLEAN : OAuth(r, e, s, p)
      PROVE  Quiet \/ \E ev \in Event : Emits(ev)
  BY <1>0, <1>3, RequestsDispatch, RequestsMove DEF Steps
<1>q. QED  BY <1>1, <1>2, <1>3 DEF Next

\* Requests stay well formed.
LEMMA RequestedKept ==
  ASSUME Typed, [Next]_vars PROVE Requested'
<1>0. Requested /\ journal \in Seq(Event) /\ byEmail \in [Emails -> Ids \cup {None}]
  BY DEF Typed, TypeOK, Requested, Requests
<1>1. CASE UNCHANGED req
  BY <1>0, <1>1 DEF Requested
<1>2. CASE Restart
  BY <1>0, <1>2, IdleIsARequest DEF Restart, Requested
<1>3. ASSUME NEW u \in Ids, UserCall(u) PROVE UNCHANGED req
  BY <1>3, UserCallEmits
<1>4. ASSUME NEW r \in Slots,
             \/ Steps(r)
             \/ \E e \in Emails : Register(r, e)
             \/ \E e \in Emails, s \in Subjects, p \in BOOLEAN : OAuth(r, e, s, p)
      PROVE  Requested'
  BY <1>0, <1>4, RequestsDispatch, RequestsMove DEF Steps
<1>5. CASE Project \/ SaveCheckpoint \/ Drained \/ Rebuild
  BY <1>1, <1>5 DEF Project, SaveCheckpoint, Drained, Rebuild
<1>6. CASE UNCHANGED vars
  BY <1>1, <1>6 DEF vars
<1>q. QED  BY <1>1, <1>2, <1>3, <1>4, <1>5, <1>6 DEF Next

\* An appended event.
LEMMA EmitShape ==
  ASSUME Typed, NEW ev \in Event, Proper(ev), Emit(ev)
  PROVE  /\ Appended(journal, journal', ev) /\ journal' \in Seq(Event)
         /\ Len(journal') \in Nat /\ Len(journal') = Len(journal) + 1 /\ Len(journal') <= MaxEvents
         /\ Open(stream[ev.user], ev) /\ stream[ev.user] \in Streams /\ ev.user \in Ids
         /\ stream' = [stream EXCEPT ![ev.user] = FoldUser(stream[ev.user], ev)]
         /\ stream' \in [Ids -> Streams]
         /\ \A i \in 1 .. Len(journal') : Proper(journal'[i])
         /\ \A u \in Ids : stream'[u].exists => stream'[u].view \in View
<1>1. /\ journal \in Seq(Event) /\ Len(journal) \in Nat /\ Len(journal) < MaxEvents
      /\ stream \in [Ids -> Streams] /\ journal' = Append(journal, ev)
      /\ stream' = [stream EXCEPT ![ev.user] = FoldUser(stream[ev.user], ev)]
  BY DEF Typed, TypeOK, Emit, Streams
<1>2. ev.user \in Ids /\ stream[ev.user] \in Streams
  BY <1>1 DEF Event
<1>3. /\ journal' \in Seq(Event) /\ Len(journal') = Len(journal) + 1
      /\ \A i \in 1 .. Len(journal) : journal'[i] = journal[i]
      /\ journal'[Len(journal) + 1] = ev
  BY <1>1
<1>4. Open(stream[ev.user], ev)
  BY DEF Emit, Decides, Active, Open
<1>5. FoldUser(stream[ev.user], ev) \in Streams /\ FoldUser(stream[ev.user], ev).view \in View
  BY <1>2, <1>4, FoldIsShown DEF Typed
<1>6. stream' \in [Ids -> Streams] /\ \A u \in Ids : stream'[u].exists => stream'[u].view \in View
  BY <1>1, <1>2, <1>5 DEF Typed
<1>7. \A i \in 1 .. Len(journal') : Proper(journal'[i])
  BY <1>1, <1>3 DEF Typed
<1>8. Len(journal') <= MaxEvents
  BY <1>1, <1>3, BoundsAssumption
<1>q. QED  BY <1>1, <1>2, <1>3, <1>4, <1>6, <1>7, <1>8 DEF Appended

\* A delivered event.
LEMMA HandleShape ==
  ASSUME Typed, pos < Len(journal), Handle(journal[pos + 1])
  PROVE  LET ev == journal[pos + 1]
             v  == users[ev.user]
         IN  /\ ev \in Event /\ Proper(ev) /\ ev.user \in Ids /\ v \in View \cup {None}
             /\ users' = [users EXCEPT ![ev.user] = After(@, ev)]
             /\ users' \in [Ids -> View \cup {None}]
             /\ byEmail' = EmailsAfter(byEmail, v, ev)
             /\ bySubject' = SubjectsAfter(bySubject, v, ev)
             /\ byEmail' \in [Emails -> Ids \cup {None}]
             /\ bySubject' \in [Subjects -> Ids \cup {None}]
<1> DEFINE ev == journal[pos + 1]
           v  == users[ev.user]
<1>1. /\ journal \in Seq(Event) /\ pos + 1 \in 1 .. Len(journal)
      /\ users \in [Ids -> View \cup {None}]
      /\ byEmail \in [Emails -> Ids \cup {None}] /\ bySubject \in [Subjects -> Ids \cup {None}]
  BY DEF Typed, TypeOK
<1>2. ev \in Event /\ Proper(ev)
  BY <1>1 DEF Typed
<1>3. ev.user \in Ids /\ v \in View \cup {None}
  BY <1>1, <1>2 DEF Event
<1> HIDE DEF ev
<1>4. users' = [users EXCEPT ![ev.user] = After(@, ev)]
  BY DEF Handle, After, ev
<1>5. After(v, ev) \in View \cup {None}
  BY <1>2, <1>3, AfterIsTyped
<1>6. users' \in [Ids -> View \cup {None}]
  BY <1>1, <1>3, <1>4, <1>5
<1>7. byEmail' = EmailsAfter(byEmail, v, ev)
  BY DEF Handle, EmailsAfter, ev
<1>8. bySubject' = SubjectsAfter(bySubject, v, ev)
  BY DEF Handle, SubjectsAfter, ev
<1>9. /\ byEmail' \in [Emails -> Ids \cup {None}]
      /\ bySubject' \in [Subjects -> Ids \cup {None}]
  BY <1>1, <1>2, <1>3, <1>7, <1>8, EmailsMove, SubjectsMove
<1>q. QED  BY <1>2, <1>3, <1>4, <1>6, <1>7, <1>8, <1>9 DEF ev

\* A delivered event is applied, or applied and delivered again.
LEMMA ProjectShape ==
  ASSUME Typed, Project
  PROVE  LET ev == journal[pos + 1]
         IN  /\ pos < Len(journal) /\ Handle(ev) /\ UNCHANGED <<log, saved, host, req, lock>>
             /\ \/ /\ pos' = pos + 1
                   /\ rows' = IF Durable THEN [rows EXCEPT ![ev.user] = Row(ev)] ELSE rows
                \/ Durable /\ UNCHANGED <<rows, pos>>
  BY DEF Project

LEMMA InitTyped == Init => Typed
<1> SUFFICES ASSUME Init PROVE Typed
  OBVIOUS
<1>1. Blank \in Streams /\ ~Blank.exists
  BY DEF Blank, Streams
<1>2. stream \in [Ids -> Streams] /\ \A u \in Ids : ~stream[u].exists
  BY <1>1 DEF Init
<1>3. /\ journal \in Seq(Event) /\ Len(journal) = 0 /\ pos = 0 /\ saved = 0
      /\ users \in [Ids -> View \cup {None}] /\ rows \in [Ids -> View \cup {None}]
      /\ byEmail \in [Emails -> Ids \cup {None}] /\ bySubject \in [Subjects -> Ids \cup {None}]
      /\ shared \subseteq Emails \cup Subjects
      /\ host \in {"draining", "live", "rebuilding"} /\ lock \in Slots \cup {None}
  BY DEF Init
<1>4. req \in [Slots -> Requests] /\ \A r \in Slots : Carries(req[r])
  BY IdleIsARequest DEF Init
<1>5. TypeOK
  BY <1>2, <1>3, <1>4, BoundsAssumption DEF TypeOK, Streams, Requests
<1>q. QED  BY <1>2, <1>3, <1>4, <1>5 DEF Typed

\* The shape of Typed, part by part.
Logged ==
  /\ journal \in Seq(Event) /\ Len(journal) <= MaxEvents
  /\ stream \in [Ids -> Streams] /\ shared \subseteq Emails \cup Subjects
  /\ \A i \in 1 .. Len(journal) : Proper(journal[i])
  /\ \A u \in Ids : stream[u].exists => stream[u].view \in View

Mapped ==
  /\ users \in [Ids -> View \cup {None}] /\ rows \in [Ids -> View \cup {None}]
  /\ byEmail \in [Emails -> Ids \cup {None}] /\ bySubject \in [Subjects -> Ids \cup {None}]

Placed ==
  /\ pos \in 0 .. Len(journal) /\ saved \in 0 .. Len(journal)
  /\ saved <= pos /\ (Durable \/ saved = 0)

LEMMA TypedParts ==
  Typed <=> /\ Logged /\ Mapped /\ Placed /\ Requested
            /\ host \in {"draining", "live", "rebuilding"} /\ lock \in Slots \cup {None}
  BY DEF Typed, TypeOK, Logged, Mapped, Placed, Requested, Streams, Requests

LEMMA LoggedKept ==
  ASSUME Typed, [Next]_vars
  PROVE  Logged' /\ Len(journal') \in Nat /\ Len(journal') >= Len(journal)
<1>0. Logged /\ Len(journal) \in Nat
  BY TypedParts DEF Logged
<1>1. CASE UNCHANGED log
  BY <1>0, <1>1 DEF Logged, log
<1>2. ASSUME NEW ev \in Event, Emits(ev)
      PROVE  Logged' /\ Len(journal') \in Nat /\ Len(journal') >= Len(journal)
  <2>1. /\ journal' \in Seq(Event) /\ Len(journal') \in Nat /\ Len(journal') <= MaxEvents
        /\ Len(journal') = Len(journal) + 1 /\ stream' \in [Ids -> Streams]
        /\ \A i \in 1 .. Len(journal') : Proper(journal'[i])
        /\ \A u \in Ids : stream'[u].exists => stream'[u].view \in View
    BY <1>2, EmitShape DEF Emits
  <2>2. shared' \subseteq Emails \cup Subjects
    BY <1>0, <1>2 DEF Emits, Emit, SharedIn, Logged
  <2>q. QED  BY <1>0, <2>1, <2>2 DEF Logged
<1>3. CASE Project \/ Quiet \/ Rebuild \/ Restart
  BY <1>1, <1>3 DEF Project, Quiet, Rebuild, Restart
<1>4. CASE UNCHANGED vars
  BY <1>1, <1>4 DEF vars
<1>q. QED  BY <1>2, <1>3, <1>4, StepKinds

LEMMA MappedKept == ASSUME Typed, [Next]_vars PROVE Mapped'
<1>0. Mapped
  BY TypedParts
<1>1. CASE UNCHANGED <<memory, rows>>
  BY <1>0, <1>1 DEF Mapped, memory
<1>2. CASE Project
  <2> DEFINE ev == journal[pos + 1]
  <2>1. /\ users' \in [Ids -> View \cup {None}] /\ ev.user \in Ids
        /\ byEmail' \in [Emails -> Ids \cup {None}]
        /\ bySubject' \in [Subjects -> Ids \cup {None}]
    BY <1>2, ProjectShape, HandleShape
  <2>2. Row(ev) \in View \cup {None}
    BY <1>0, <2>1 DEF Row, Mapped
  <2>3. rows' \in [Ids -> View \cup {None}]
    BY <1>0, <1>2, <2>1, <2>2, ProjectShape DEF Mapped
  <2>q. QED  BY <2>1, <2>3 DEF Mapped
<1>3. CASE Restart
  BY <1>0, <1>3 DEF Restart, Mapped, disk
<1>4. CASE Quiet \/ Rebuild \/ \E ev \in Event : Emits(ev)
  BY <1>1, <1>4 DEF Quiet, Rebuild, Emits, disk
<1>5. CASE UNCHANGED vars
  BY <1>1, <1>5 DEF vars, disk
<1>q. QED  BY <1>2, <1>3, <1>4, <1>5, StepKinds

LEMMA PlacedKept == ASSUME Typed, [Next]_vars PROVE Placed'
<1>0. /\ pos \in Nat /\ saved \in Nat /\ Len(journal) \in Nat /\ pos <= Len(journal)
      /\ saved <= pos /\ (Durable \/ saved = 0)
  BY TypedParts DEF Placed, Logged
<1>1. Len(journal') \in Nat /\ Len(journal') >= Len(journal)
  BY LoggedKept
<1>2. CASE UNCHANGED <<pos, saved>>
  BY <1>0, <1>1, <1>2 DEF Placed
<1>3. CASE Project
  BY <1>0, <1>1, <1>3 DEF Project, Placed, log
<1>4. CASE SaveCheckpoint
  BY <1>0, <1>1, <1>4 DEF SaveCheckpoint, Placed, log
<1>5. CASE Rebuild
  BY <1>0, <1>1, <1>5 DEF Rebuild, Placed, log
<1>6. CASE Restart
  BY <1>0, <1>1, <1>6 DEF Restart, Placed, disk
<1>7. CASE Drained
  BY <1>2, <1>7 DEF Drained, disk
<1>8. ASSUME NEW u \in Ids, UserCall(u) PROVE UNCHANGED <<pos, saved>>
  BY <1>8, UserCallEmits DEF Emits, disk
<1>9. ASSUME NEW r \in Slots,
             \/ Steps(r)
             \/ \E e \in Emails : Register(r, e)
             \/ \E e \in Emails, s \in Subjects, p \in BOOLEAN : OAuth(r, e, s, p)
      PROVE  UNCHANGED <<pos, saved>>
  BY <1>9 DEF Steps, Provision, DispatchRegister, AfterRegister, Link, DispatchLink, AfterLink,
              DispatchVerify, Dispatch, Register, OAuth, disk
<1>10. CASE UNCHANGED vars
  BY <1>2, <1>10 DEF vars, disk
<1>q. QED  BY <1>2, <1>3, <1>4, <1>5, <1>6, <1>7, <1>8, <1>9, <1>10 DEF Next

LEMMA LockTyped ==
  ASSUME Typed, [Next]_vars
  PROVE  host' \in {"draining", "live", "rebuilding"} /\ lock' \in Slots \cup {None}
<1>0. host \in {"draining", "live", "rebuilding"} /\ lock \in Slots \cup {None}
  BY TypedParts
<1>1. \A r \in Slots : Finish(r) \/ Gate(r) => lock' \in Slots \cup {None}
  BY <1>0 DEF Finish, Release, Gate
<1>2. CASE Project \/ SaveCheckpoint \/ Drained \/ Rebuild \/ Restart
  BY <1>0, <1>2 DEF Project, SaveCheckpoint, Drained, Rebuild, Restart
<1>3. ASSUME NEW u \in Ids, UserCall(u)
      PROVE  UNCHANGED <<host, lock>>
  <2>1. \A call, ev : Call(call, ev) => UNCHANGED <<host, lock>>
    BY DEF Call
  <2>q. QED  BY <1>3, <2>1 DEF UserCall, TOTPCall
<1>4. ASSUME NEW r \in Slots, Steps(r)
      PROVE  host' = host /\ lock' \in Slots \cup {None}
  BY <1>0, <1>1, <1>4 DEF Steps, Provision, DispatchRegister, AfterRegister, Link, DispatchLink,
                          AfterLink, DispatchVerify, Dispatch
<1>5. ASSUME NEW r \in Slots, NEW e \in Emails,
             Register(r, e) \/ \E s \in Subjects, p \in BOOLEAN : OAuth(r, e, s, p)
      PROVE  host' = host /\ lock' \in Slots \cup {None}
  BY <1>0, <1>1, <1>5 DEF Register, OAuth
<1>6. CASE UNCHANGED vars
  BY <1>0, <1>6 DEF vars
<1>q. QED  BY <1>0, <1>2, <1>3, <1>4, <1>5, <1>6 DEF Next

LEMMA TypedKept == Typed /\ [Next]_vars => Typed'
<1> SUFFICES ASSUME Typed, [Next]_vars PROVE Typed'
  OBVIOUS
<1>1. Logged' /\ Mapped' /\ Placed' /\ Requested'
  BY LoggedKept, MappedKept, PlacedKept, RequestedKept
<1>2. host' \in {"draining", "live", "rebuilding"} /\ lock' \in Slots \cup {None}
  BY LockTyped
<1>q. QED
  BY <1>1, <1>2
  DEF Typed, TypeOK, Logged, Mapped, Placed, Requested, Streams, Requests

\* Every variable keeps its shape, a request only reaches a dispatch with the
\* id, the address and the identity its event needs (registerUser,
\* matchOrCreateUser), and the checkpoint never passes the applied events.
THEOREM TypesKept ==
  Spec => [](TypeOK /\ saved <= pos /\ \A r \in Slots : Carries(req[r]))
<1>1. Typed => TypeOK /\ saved <= pos /\ \A r \in Slots : Carries(req[r])
  BY DEF Typed
<1>q. QED  BY <1>1, InitTyped, TypedKept, PTL DEF Spec

-----------------------------------------------------------------------------
(* The history, the tables and the indexes, step by step.                  *)

LEMMA InitHistory == Init => History /\ Tables /\ Indexes
<1> SUFFICES ASSUME Init PROVE History /\ Tables /\ Indexes
  OBVIOUS
<1>1. /\ journal = <<>> /\ Len(journal) = 0 /\ pos = 0
      /\ \A u \in Ids : stream[u] = Blank /\ users[u] = None /\ rows[u] = None
      /\ \A e \in Emails : byEmail[e] = None
      /\ \A s \in Subjects : bySubject[s] = None
  BY DEF Init
<1>2. ASSUME NEW u \in Ids PROVE Folded(journal, stream[u], u)
  <2>1. \A x, k : ~Holds(journal, x, u, k, 0)
    BY DEF Holds
  <2>2. ~stream[u].exists /\ ~stream[u].deleted /\ ViewOf(stream[u]) = None
    BY <1>1 DEF Blank, ViewOf
  <2>q. QED  BY <1>1, <2>1, <2>2 DEF Folded, Shows
<1>3. Ordered(journal)
  BY <1>1 DEF Ordered
<1>4. Noticed(journal, shared)
  BY <1>1 DEF Noticed, Holds
<1>5. \A u \in Ids : Tracks(journal, users[u], u, pos) /\ Tracks(journal, rows[u], u, pos)
  BY <1>1, NothingTracks
<1>6. \A u \in Ids : Follows(journal, users[u], rows[u], u, pos)
  BY <1>1 DEF Follows
<1>7. \A x, index, k : Finds(journal, x, index, k, pos)
  BY <1>1 DEF Finds, Stays, Holds
<1>q. QED
  BY <1>1, <1>2, <1>3, <1>4, <1>5, <1>6, <1>7 DEF History, Tables, Indexes, Points

LEMMA HistoryKept == ASSUME Typed, History, [Next]_vars PROVE History'
<1>1. CASE UNCHANGED log
  BY <1>1 DEF History, log
<1>2. ASSUME NEW ev \in Event, Emits(ev) PROVE History'
  <2>1. /\ Appended(journal, journal', ev) /\ Open(stream[ev.user], ev)
        /\ stream[ev.user] \in Streams /\ ev.user \in Ids
        /\ stream' = [stream EXCEPT ![ev.user] = FoldUser(stream[ev.user], ev)]
        /\ stream' \in [Ids -> Streams]
    BY <1>2, EmitShape DEF Emits
  <2>2. stream \in [Ids -> Streams] /\ (stream[ev.user].exists => stream[ev.user].view \in View)
    BY <2>1 DEF Typed, TypeOK, Streams
  <2>3. Ordered(journal')
    BY <2>1, OrderedAppended DEF History
  <2>4. ASSUME NEW u \in Ids PROVE Folded(journal', stream'[u], u)
    <3>1. CASE u = ev.user
      <4>1. Folded(journal', FoldUser(stream[ev.user], ev), ev.user)
        BY <1>2, <2>1, <2>2, FoldedOwn DEF History, Emits
      <4>q. QED  BY <2>1, <2>2, <3>1, <4>1
    <3>2. CASE u # ev.user
      <4>1. stream'[u] = stream[u]
        BY <2>1, <2>2, <3>2
      <4>2. Folded(journal', stream[u], u)
        BY <2>1, <3>2, FoldedOther DEF History
      <4>q. QED  BY <4>1, <4>2
    <3>q. QED  BY <3>1, <3>2
  <2>5. Noticed(journal', shared \cup SharedIn(stream'))
    BY <2>1, <2>4, NoticedAppended DEF History
  <2>6. shared' = shared \cup SharedIn(stream')
    BY <1>2 DEF Emits, Emit
  <2>q. QED  BY <2>3, <2>4, <2>5, <2>6 DEF History
<1>3. CASE Project \/ Quiet \/ Rebuild \/ Restart
  BY <1>1, <1>3 DEF Project, Quiet, Rebuild, Restart
<1>4. CASE UNCHANGED vars
  BY <1>1, <1>4 DEF vars
<1>q. QED  BY <1>2, <1>3, <1>4, StepKinds

\* The maps after an event, at the position after it.
LEMMA UsersTrackNext ==
  ASSUME Typed, History, Tables, Project
  PROVE  \A w \in Ids : Tracks(journal, users'[w], w, pos + 1)
<1> DEFINE ev == journal[pos + 1]
<1>1. /\ pos < Len(journal) /\ ev \in Event /\ Proper(ev) /\ ev.user \in Ids
      /\ users[ev.user] \in View \cup {None}
      /\ users' = [users EXCEPT ![ev.user] = After(@, ev)]
  BY ProjectShape, HandleShape
<1>2. /\ journal \in Seq(Event) /\ Len(journal) \in Nat /\ pos \in Nat
      /\ users \in [Ids -> View \cup {None}]
  BY DEF Typed, TypeOK
<1>3. ASSUME NEW w \in Ids PROVE Tracks(journal, users'[w], w, pos + 1)
  <2>1. Tracks(journal, users[w], w, pos)
    BY DEF Tables
  <2>2. CASE w = ev.user
    <3>1. Tracks(journal, After(users[ev.user], ev), ev.user, pos + 1)
      BY <1>1, <1>2, <2>1, <2>2, TracksNextOwn DEF History
    <3>q. QED  BY <1>1, <1>2, <2>2, <3>1
  <2>3. CASE w # ev.user
    <3>1. Tracks(journal, users[w], w, pos + 1)
      BY <1>1, <1>2, <2>1, <2>3, TracksNextOther
    <3>q. QED  BY <1>1, <1>2, <2>3, <3>1
  <2>q. QED  BY <2>2, <2>3
<1>q. QED  BY <1>3

\* A row written for an event is the user as the maps have it: a user the maps
\* miss and the event does not delete has no row.
LEMMA RowIsUser ==
  ASSUME Typed, History, Tables, Project, Durable
  PROVE  Row(journal[pos + 1]) = users'[journal[pos + 1].user]
<1> DEFINE ev == journal[pos + 1]
           u  == ev.user
           v  == users[u]
<1>1. /\ pos < Len(journal) /\ ev \in Event /\ Proper(ev) /\ u \in Ids
      /\ v \in View \cup {None}
      /\ users' = [users EXCEPT ![u] = After(@, ev)]
  BY ProjectShape, HandleShape
<1>2. /\ Len(journal) \in Nat /\ pos \in Nat /\ pos + 1 \in 1 .. Len(journal)
      /\ users \in [Ids -> View \cup {None}]
  BY <1>1 DEF Typed, TypeOK
<1>3. SUFFICES ASSUME ev.kind # "deleted", users'[u] = None PROVE rows[u] = None
  BY DEF Row
<1>4. After(v, ev) = None
  BY <1>1, <1>2, <1>3
<1>5. ev.kind # "registered"
  BY <1>1, <1>4, FreshIsAView, ViewAssumption DEF After, Proper
<1>6. v = None
  <2>1. SUFFICES ASSUME v # None PROVE FALSE
    OBVIOUS
  <2>2. Shown(v, ev) \in View
    BY <1>1, <1>3, <1>5, <2>1, ShownIsAView
  <2>q. QED  BY <1>3, <1>4, <1>5, <2>1, <2>2, ViewAssumption DEF After
<1>7. Follows(journal, v, rows[u], u, pos)
  BY <1>1 DEF Tables
<1>8. ~Ahead(journal, "known", u, None, pos)
  <2>1. SUFFICES ASSUME NEW i \in pos + 1 .. Len(journal), journal[i].user = u,
                        journal[i].kind = "registered"
                 PROVE  FALSE
    BY DEF Ahead, Gains
  <2>2. i \in 1 .. Len(journal) /\ pos + 1 < i
    BY <1>2, <1>5, <2>1
  <2>q. QED  BY <1>2, <2>1, <2>2 DEF History, Ordered
<1>q. QED  BY <1>3, <1>6, <1>7, <1>8 DEF Follows

LEMMA TablesProjected ==
  ASSUME Typed, History, Tables, Project PROVE Tables'
<1> DEFINE ev == journal[pos + 1]
           u  == ev.user
<1>1. /\ pos < Len(journal) /\ ev \in Event /\ Proper(ev) /\ u \in Ids /\ journal' = journal
      /\ users' = [users EXCEPT ![u] = After(@, ev)]
      /\ \/ /\ pos' = pos + 1
            /\ rows' = IF Durable THEN [rows EXCEPT ![u] = Row(ev)] ELSE rows
         \/ Durable /\ UNCHANGED <<rows, pos>>
  BY ProjectShape, HandleShape DEF log
<1>2. /\ Len(journal) \in Nat /\ pos \in Nat /\ pos + 1 \in Nat /\ pos + 1 <= Len(journal)
      /\ users \in [Ids -> View \cup {None}] /\ rows \in [Ids -> View \cup {None}]
  BY <1>1 DEF Typed, TypeOK
<1>3. \A w \in Ids : Tracks(journal, users'[w], w, pos + 1)
  BY UsersTrackNext
<1> HIDE DEF ev
<1>4. ASSUME NEW w \in Ids, Durable PROVE Tracks(journal, rows[w], w, pos)
  BY <1>4 DEF Tables
<1>5. ASSUME NEW w \in Ids, Durable PROVE Follows(journal, users[w], rows[w], w, pos)
  BY <1>5 DEF Tables
<1>6. CASE pos' = pos + 1 /\ rows' = IF Durable THEN [rows EXCEPT ![u] = Row(ev)] ELSE rows
  <2>1. ASSUME NEW w \in Ids, Durable
        PROVE  /\ Tracks(journal, rows'[w], w, pos + 1)
               /\ Follows(journal, users'[w], rows'[w], w, pos + 1)
    <3>1. CASE w = u
      <4>1. rows'[w] = users'[w]
        BY <1>1, <1>2, <1>6, <2>1, <3>1, RowIsUser DEF ev
      <4>q. QED  BY <1>3, <4>1 DEF Follows
    <3>2. CASE w # u
      <4>1. rows'[w] = rows[w] /\ users'[w] = users[w]
        BY <1>1, <1>2, <1>6, <3>2
      <4>2. Tracks(journal, rows[w], w, pos + 1)
        BY <1>1, <1>2, <1>4, <2>1, <3>2, TracksNextOther DEF ev
      <4>3. Ahead(journal, "known", w, None, pos) <=> Ahead(journal, "known", w, None, pos + 1)
        BY <1>1, <1>2, <3>2, AheadNext DEF ev
      <4>q. QED  BY <1>5, <2>1, <3>2, <4>1, <4>2, <4>3 DEF Follows, ev
    <3>q. QED  BY <3>1, <3>2
  <2>q. QED  BY <1>1, <1>3, <1>6, <2>1 DEF Tables
<1>7. CASE Durable /\ UNCHANGED <<rows, pos>>
  <2>1. ASSUME NEW w \in Ids PROVE Tracks(journal, users'[w], w, pos)
    BY <1>2, <1>3, TracksEarlier
  <2>2. ASSUME NEW w \in Ids PROVE Follows(journal, users'[w], rows[w], w, pos)
    <3>1. CASE w # u
      BY <1>1, <1>2, <1>5, <1>7, <3>1
    <3>2. CASE w = u /\ ev.kind = "deleted"
      BY <1>1, <3>2 DEF Follows, ev
    <3>3. CASE w = u /\ ev.kind # "deleted"
      <4>1. Row(ev) = users'[w]
        BY <1>7, <3>3, RowIsUser DEF ev
      <4>2. users'[w] = None => rows[w] = None
        BY <3>3, <4>1 DEF Row
      <4>q. QED  BY <4>2 DEF Follows
    <3>q. QED  BY <3>1, <3>2, <3>3
  <2>q. QED  BY <1>1, <1>4, <1>7, <2>1, <2>2 DEF Tables
<1>q. QED  BY <1>1, <1>6, <1>7

LEMMA TablesEmitted ==
  ASSUME Typed, Tables, NEW ev \in Event, Emits(ev) PROVE Tables'
<1>1. /\ Appended(journal, journal', ev) /\ pos \in 0 .. Len(journal) /\ Len(journal) \in Nat
      /\ UNCHANGED <<users, rows, pos>>
  BY EmitShape DEF Emits, memory, disk, Typed, TypeOK
<1>2. \A u \in Ids : Tracks(journal, users[u], u, pos) => Tracks(journal', users[u], u, pos)
  BY <1>1, TracksAppended
<1>3. \A u \in Ids : Tracks(journal, rows[u], u, pos) => Tracks(journal', rows[u], u, pos)
  BY <1>1, TracksAppended
<1>4. ASSUME NEW u \in Ids, Follows(journal, users[u], rows[u], u, pos)
      PROVE  Follows(journal', users[u], rows[u], u, pos)
  <2>1. Ahead(journal, "known", u, None, pos) => Ahead(journal', "known", u, None, pos)
    BY <1>1, AheadAppended
  <2>2. pos < Len(journal) => pos < Len(journal') /\ journal'[pos + 1] = journal[pos + 1]
    BY <1>1 DEF Appended
  <2>q. QED  BY <1>4, <2>1, <2>2 DEF Follows
<1>q. QED  BY <1>1, <1>2, <1>3, <1>4 DEF Tables

LEMMA TablesRebuilt ==
  ASSUME Typed, Tables, Rebuild PROVE Tables'
<1>1. /\ pos \in Nat /\ pos <= Len(journal) /\ Len(journal) \in Nat
      /\ UNCHANGED <<users, rows, journal>> /\ pos' = 0
  BY DEF Rebuild, log, memory, Typed, TypeOK
<1>2. \A u \in Ids : Tracks(journal, users[u], u, pos) => Tracks(journal, users[u], u, 0)
  BY <1>1, TracksEarlier
<1>3. \A u \in Ids : Tracks(journal, rows[u], u, pos) => Tracks(journal, rows[u], u, 0)
  BY <1>1, TracksEarlier
<1>4. ASSUME NEW u \in Ids, Durable PROVE Follows(journal, users[u], rows[u], u, 0)
  <2>1. SUFFICES ASSUME rows[u] # None PROVE Ahead(journal, "known", u, None, 0)
    BY DEF Follows
  <2>2. Tracks(journal, rows[u], u, 0)
    BY <1>3, <1>4 DEF Tables
  <2>3. Shows(rows[u], "known", None)
    BY <2>1 DEF Shows, Has
  <2>4. ~Holds(journal, "known", u, None, 0)
    BY DEF Holds
  <2>q. QED  BY <2>2, <2>3, <2>4 DEF Tracks, Facets, Keys
<1>q. QED  BY <1>1, <1>2, <1>3, <1>4 DEF Tables

LEMMA TablesRestarted ==
  ASSUME Typed, Tables, Restart PROVE Tables'
<1>1. /\ pos \in Nat /\ pos <= Len(journal) /\ Len(journal) \in Nat
      /\ saved \in Nat /\ saved <= pos /\ UNCHANGED <<rows, journal>>
  BY DEF Restart, log, disk, Typed, TypeOK
<1>2. CASE Durable
  <2>1. users' = rows /\ pos' = saved
    BY <1>2 DEF Restart
  <2>2. \A u \in Ids : Tracks(journal, rows[u], u, saved)
    BY <1>1, <1>2, TracksEarlier DEF Tables
  <2>q. QED  BY <1>1, <2>1, <2>2 DEF Tables, Follows
<1>3. CASE ~Durable
  <2>1. pos' = 0 /\ \A u \in Ids : users'[u] = None
    BY <1>3 DEF Restart
  <2>q. QED  BY <1>1, <1>3, <2>1, NothingTracks DEF Tables
<1>q. QED  BY <1>2, <1>3

LEMMA TablesKept == ASSUME Typed, History, Tables, [Next]_vars PROVE Tables'
<1>1. CASE UNCHANGED <<log, memory, rows, pos>>
  BY <1>1 DEF Tables, log, memory
<1>2. CASE UNCHANGED vars
  BY <1>1, <1>2 DEF vars, disk
<1>q. QED
  BY <1>1, <1>2, StepKinds, TablesProjected, TablesEmitted, TablesRebuilt, TablesRestarted DEF Quiet

\* Keys of an index stay good when the position goes back.
LEMMA PointsEarlier ==
  ASSUME NEW j, Len(j) \in Nat, NEW table, NEW x, NEW index, NEW k,
         NEW q \in Nat, NEW p \in Nat, q <= p, p <= Len(j), Points(j, table, x, index, k, p)
  PROVE  Points(j, table, x, index, k, q)
  BY Earlier DEF Points

LEMMA FindsEarlier ==
  ASSUME NEW j, Len(j) \in Nat, NEW x, NEW index, NEW k,
         NEW q \in Nat, NEW p \in Nat, q <= p, p <= Len(j), Finds(j, x, index, k, p)
  PROVE  Finds(j, x, index, k, q)
  BY Earlier DEF Finds

\* The parts of Indexes, at a position q of a journal j.
IndexesAt(j, table, emails, subjects, sh, q) ==
  /\ \A e \in Emails : Points(j, table, "email", emails, e, q)
  /\ \A s \in Subjects : Points(j, table, "accounts", subjects, s, q)
  /\ \A e \in Emails \ sh : Finds(j, "email", emails, e, q)
  /\ \A s \in Subjects \ sh : Finds(j, "accounts", subjects, s, q)

LEMMA IndexesAtEarlier ==
  ASSUME NEW j, Len(j) \in Nat, NEW table, NEW emails, NEW subjects, NEW sh,
         NEW q \in Nat, NEW p \in Nat, q <= p, p <= Len(j),
         IndexesAt(j, table, emails, subjects, sh, p)
  PROVE  IndexesAt(j, table, emails, subjects, sh, q)
  BY PointsEarlier, FindsEarlier DEF IndexesAt

LEMMA IndexesNext ==
  ASSUME Typed, History, Tables, Indexes, Project
  PROVE  IndexesAt(journal, users', byEmail', bySubject', shared, pos + 1)
<1> DEFINE ev == journal[pos + 1]
           u  == ev.user
           v  == users[u]
<1>1. /\ pos < Len(journal) /\ ev \in Event /\ Proper(ev) /\ u \in Ids
      /\ v \in View \cup {None}
      /\ users' = [users EXCEPT ![u] = After(@, ev)]
      /\ byEmail' = EmailsAfter(byEmail, v, ev) /\ bySubject' = SubjectsAfter(bySubject, v, ev)
      /\ byEmail' \in [Emails -> Ids \cup {None}]
      /\ bySubject' \in [Subjects -> Ids \cup {None}]
  BY ProjectShape, HandleShape
<1>2. /\ journal \in Seq(Event) /\ pos \in Nat /\ users \in [Ids -> View \cup {None}]
      /\ byEmail \in [Emails -> Ids \cup {None}] /\ bySubject \in [Subjects -> Ids \cup {None}]
  BY DEF Typed, TypeOK
<1>3. \A w \in Ids : Tracks(journal, users[w], w, pos)
  BY DEF Tables
<1>4. Ordered(journal) /\ Noticed(journal, shared)
  BY DEF History
<1>5. /\ \A e \in Emails : Moves("email", byEmail[e], byEmail'[e], v, ev, e)
      /\ \A s \in Subjects : Moves("accounts", bySubject[s], bySubject'[s], v, ev, s)
  BY <1>1, <1>2, EmailsMove, SubjectsMove
<1>6. ASSUME NEW e \in Emails
      PROVE  /\ Points(journal, users', "email", byEmail', e, pos + 1)
             /\ e \notin shared => Finds(journal, "email", byEmail', e, pos + 1)
  <2>1. /\ e \in Keys /\ "email" \in Indexed
        /\ byEmail[e] \in Ids \cup {None} /\ byEmail'[e] \in Ids \cup {None}
    BY <1>1, <1>2 DEF Keys, Indexed
  <2>2. Leads(journal, users, "email", e, pos, byEmail[e])
    BY DEF Indexes, Points, Leads
  <2>3. Applied(journal, pos, users, users', "email", e, byEmail[e], byEmail'[e])
    BY <1>1, <1>2, <1>3, <1>4, <1>5, <2>1, <2>2 DEF Applied
  <2>a. Leads(journal, users', "email", e, pos + 1, byEmail'[e])
    BY <2>3, LeadsNext
  <2>4. ASSUME e \notin shared, NEW w \in Ids, Stays(journal, "email", w, e, pos + 1)
        PROVE  byEmail'[e] = w
    <3>1. \A y \in Ids : Stays(journal, "email", y, e, pos) => byEmail[e] = y
      BY <2>4 DEF Indexes, Finds
    <3>q. QED  BY <1>4, <2>3, <2>4, <3>1, FindsNext
  <2>q. QED  BY <2>4, <2>a DEF Points, Finds, Leads
<1>7. ASSUME NEW s \in Subjects
      PROVE  /\ Points(journal, users', "accounts", bySubject', s, pos + 1)
             /\ s \notin shared => Finds(journal, "accounts", bySubject', s, pos + 1)
  <2>1. /\ s \in Keys /\ "accounts" \in Indexed
        /\ bySubject[s] \in Ids \cup {None} /\ bySubject'[s] \in Ids \cup {None}
    BY <1>1, <1>2 DEF Keys, Indexed
  <2>2. Leads(journal, users, "accounts", s, pos, bySubject[s])
    BY DEF Indexes, Points, Leads
  <2>3. Applied(journal, pos, users, users', "accounts", s, bySubject[s], bySubject'[s])
    BY <1>1, <1>2, <1>3, <1>4, <1>5, <2>1, <2>2 DEF Applied
  <2>a. Leads(journal, users', "accounts", s, pos + 1, bySubject'[s])
    BY <2>3, LeadsNext
  <2>4. ASSUME s \notin shared, NEW w \in Ids, Stays(journal, "accounts", w, s, pos + 1)
        PROVE  bySubject'[s] = w
    <3>1. \A y \in Ids : Stays(journal, "accounts", y, s, pos) => bySubject[s] = y
      BY <2>4 DEF Indexes, Finds
    <3>q. QED  BY <1>4, <2>3, <2>4, <3>1, FindsNext
  <2>q. QED  BY <2>4, <2>a DEF Points, Finds, Leads
<1>q. QED  BY <1>6, <1>7 DEF IndexesAt

LEMMA IndexesProjected ==
  ASSUME Typed, History, Tables, Indexes, Project PROVE Indexes'
<1>1. /\ pos \in Nat /\ pos + 1 <= Len(journal) /\ Len(journal) \in Nat
      /\ journal' = journal /\ shared' = shared /\ (pos' = pos \/ pos' = pos + 1)
  BY DEF Project, log, Typed, TypeOK
<1>2. IndexesAt(journal, users', byEmail', bySubject', shared, pos + 1)
  BY IndexesNext
<1>3. IndexesAt(journal, users', byEmail', bySubject', shared, pos)
  BY <1>1, <1>2, IndexesAtEarlier
<1>q. QED  BY <1>1, <1>2, <1>3 DEF Indexes, IndexesAt

LEMMA IndexesEmitted ==
  ASSUME Typed, Indexes, NEW ev \in Event, Emits(ev) PROVE Indexes'
<1>1. /\ Appended(journal, journal', ev) /\ pos \in 0 .. Len(journal)
      /\ UNCHANGED <<users, byEmail, bySubject, pos>> /\ shared \subseteq shared'
  BY EmitShape DEF Emits, Emit, memory, Typed, TypeOK
<1>2. \A x, w, k : /\ Ahead(journal, x, w, k, pos) => Ahead(journal', x, w, k, pos)
                   /\ Stays(journal', x, w, k, pos) => Stays(journal, x, w, k, pos)
  BY <1>1, AheadAppended
<1>q. QED  BY <1>1, <1>2 DEF Indexes, Points, Finds

LEMMA IndexesRebuilt ==
  ASSUME Typed, Indexes, Rebuild PROVE Indexes'
<1>1. /\ pos \in Nat /\ pos <= Len(journal) /\ Len(journal) \in Nat
      /\ UNCHANGED <<users, byEmail, bySubject, journal, shared>> /\ pos' = 0
  BY DEF Rebuild, log, memory, Typed, TypeOK
<1>2. IndexesAt(journal, users, byEmail, bySubject, shared, pos)
  BY DEF Indexes, IndexesAt
<1>3. IndexesAt(journal, users, byEmail, bySubject, shared, 0)
  BY <1>1, <1>2, IndexesAtEarlier
<1>q. QED  BY <1>1, <1>3 DEF Indexes, IndexesAt

\* What Hydrate builds from the rows: an entry is of a row that shows the key,
\* and a key that is not shared and stays is of the user it stays with.
LEMMA HydratedFinds ==
  ASSUME NEW j, Len(j) \in Nat, NEW sh, Noticed(j, sh), NEW x \in Indexed,
         NEW k \in Keys, k \notin sh, NEW q \in Nat, NEW p \in Nat, q <= p, p <= Len(j),
         \A u \in Ids : Tracks(j, rows[u], u, p),
         NEW owner,
         (\E u \in Ids : Shows(rows[u], x, k)) => owner \in Ids /\ Shows(rows[owner], x, k),
         NEW w \in Ids, Stays(j, x, w, k, q)
  PROVE  owner = w
<1>1. x \in Facets /\ p \in 0 .. Len(j)
  BY DEF Indexed, Facets
<1>2. Stays(j, x, w, k, p)
  BY Earlier
<1>3. Shows(rows[w], x, k)
  BY <1>1, <1>2 DEF Tracks
<1>4. owner \in Ids /\ Shows(rows[owner], x, k)
  BY <1>3
<1>5. Holds(j, x, owner, k, p) \/ Ahead(j, x, owner, k, p)
  BY <1>1, <1>4 DEF Tracks
<1>q. QED  BY <1>1, <1>2, <1>4, <1>5, OneOwner

LEMMA IndexesRestarted ==
  ASSUME Typed, History, Tables, Indexes, Restart PROVE Indexes'
<1>1. /\ pos \in Nat /\ pos <= Len(journal) /\ Len(journal) \in Nat
      /\ saved \in Nat /\ saved <= pos /\ UNCHANGED <<journal, shared>>
      /\ rows \in [Ids -> View \cup {None}]
  BY DEF Restart, log, Typed, TypeOK
<1>2. CASE ~Durable
  <2>1. /\ pos' = 0
        /\ \A e \in Emails : byEmail'[e] = None
        /\ \A s \in Subjects : bySubject'[s] = None
    BY <1>2 DEF Restart
  <2>2. \A x, w, k : ~Stays(journal, x, w, k, 0)
    BY DEF Stays, Holds
  <2>q. QED  BY <1>1, <2>1, <2>2 DEF Indexes, Points, Finds
<1>3. CASE Durable
  <2>1. /\ users' = rows /\ pos' = saved
        /\ Hydrated(byEmail', [e \in Emails |-> WithEmail(rows, e)])
        /\ Hydrated(bySubject', [k \in Subjects |-> WithSubject(rows, k)])
    BY <1>3 DEF Restart
  <2>2. ASSUME NEW e \in Emails
        PROVE  IF WithEmail(rows, e) = {} THEN byEmail'[e] = None
               ELSE byEmail'[e] \in WithEmail(rows, e)
    BY <2>1 DEF Hydrated
  <2>3. ASSUME NEW s \in Subjects
        PROVE  IF WithSubject(rows, s) = {} THEN bySubject'[s] = None
               ELSE bySubject'[s] \in WithSubject(rows, s)
    BY <2>1 DEF Hydrated
  <2>4. /\ \A e : WithEmail(rows, e) = {u \in Ids : Shows(rows[u], "email", e)}
        /\ \A s : WithSubject(rows, s) = {u \in Ids : Shows(rows[u], "accounts", s)}
    BY DEF WithEmail, WithSubject, Shows, Has
  <2>5. /\ \A e \in Emails : Points(journal, rows, "email", byEmail', e, saved)
        /\ \A s \in Subjects : Points(journal, rows, "accounts", bySubject', s, saved)
    BY <2>2, <2>3, <2>4 DEF Points, Shows
  <2>6. \A u \in Ids : Tracks(journal, rows[u], u, pos)
    BY <1>3 DEF Tables
  <2>7. ASSUME NEW e \in Emails \ shared PROVE Finds(journal, "email", byEmail', e, saved)
    <3>1. (\E u \in Ids : Shows(rows[u], "email", e)) =>
            byEmail'[e] \in Ids /\ Shows(rows[byEmail'[e]], "email", e)
      BY <2>2, <2>4
    <3>2. e \in Keys /\ e \notin shared /\ "email" \in Indexed
      BY DEF Keys, Indexed
    <3>q. QED  BY <1>1, <2>6, <3>1, <3>2, HydratedFinds DEF Finds, History
  <2>8. ASSUME NEW s \in Subjects \ shared PROVE Finds(journal, "accounts", bySubject', s, saved)
    <3>1. (\E u \in Ids : Shows(rows[u], "accounts", s)) =>
            bySubject'[s] \in Ids /\ Shows(rows[bySubject'[s]], "accounts", s)
      BY <2>3, <2>4
    <3>2. s \in Keys /\ s \notin shared /\ "accounts" \in Indexed
      BY DEF Keys, Indexed
    <3>q. QED  BY <1>1, <2>6, <3>1, <3>2, HydratedFinds DEF Finds, History
  <2>q. QED  BY <1>1, <2>1, <2>5, <2>7, <2>8 DEF Indexes
<1>q. QED  BY <1>2, <1>3

LEMMA IndexesKept == ASSUME Typed, History, Tables, Indexes, [Next]_vars PROVE Indexes'
<1>1. CASE UNCHANGED <<log, memory, rows, pos>>
  BY <1>1 DEF Indexes, log, memory
<1>2. CASE UNCHANGED vars
  BY <1>1, <1>2 DEF vars, disk
<1>q. QED
  BY <1>1, <1>2, StepKinds, IndexesProjected, IndexesEmitted, IndexesRebuilt, IndexesRestarted
  DEF Quiet

-----------------------------------------------------------------------------
(* What follows.                                                           *)

Sound == Typed /\ History /\ Tables /\ Indexes

LEMMA SoundKept == (Init => Sound) /\ (Sound /\ [Next]_vars => Sound')
<1>1. Init => Sound
  BY InitTyped, InitHistory DEF Sound
<1>2. Sound /\ [Next]_vars => Sound'
  BY TypedKept, HistoryKept, TablesKept, IndexesKept DEF Sound
<1>q. QED  BY <1>1, <1>2

\* At the end of the journal every table shows the folds.
LEMMA CaughtUp ==
  ASSUME Typed, History, Tables, pos = Len(journal)
  PROVE  CaughtUpAgrees
<1>1. /\ Len(journal) \in Nat /\ stream \in [Ids -> Streams]
      /\ users \in [Ids -> View \cup {None}] /\ rows \in [Ids -> View \cup {None}]
  BY DEF Typed, TypeOK, Streams
<1>2. Views = [u \in Ids |-> ViewOf(stream[u])]
  BY DEF Views, ViewOf, Active
<1>3. \A u \in Ids : users[u] = ViewOf(stream[u])
  BY <1>1, TrackedToTheEnd DEF History, Tables
<1>4. Durable => \A u \in Ids : rows[u] = ViewOf(stream[u])
  BY <1>1, TrackedToTheEnd DEF History, Tables
<1>5. users = Views
  BY <1>1, <1>2, <1>3
<1>6. Durable => rows = users
  BY <1>1, <1>3, <1>4
<1>q. QED  BY <1>5, <1>6 DEF CaughtUpAgrees

\* Replay, redelivery and hydration converge: whatever was replayed over the
\* maps or hydrated from the rows (es_readmodel.go, sql_readmodel.go), once
\* every event has been applied each user looks like the fold of its stream
\* (FoldUser), and the rows of a durable read model do as well.
THEOREM ReadModelsConverge == Spec => []CaughtUpAgrees
<1>1. Sound => CaughtUpAgrees
  BY CaughtUp DEF Sound, CaughtUpAgrees
<1>q. QED  BY <1>1, SoundKept, PTL DEF Spec

\* At the end of the journal the user that has an unshared key is found.
LEMMA FoundAtTheEnd ==
  ASSUME Sound, pos = Len(journal)
  PROVE  UnsharedIsFound
<1>1. /\ Len(journal) \in Nat /\ stream \in [Ids -> Streams]
      /\ byEmail \in [Emails -> Ids \cup {None}] /\ bySubject \in [Subjects -> Ids \cup {None}]
  BY DEF Sound, Typed, TypeOK, Streams
<1>2. \A u \in Ids : users[u] = ViewOf(stream[u]) /\ Views[u] = users[u]
  <2>1. CaughtUpAgrees
    BY CaughtUp DEF Sound
  <2>q. QED  BY <2>1 DEF CaughtUpAgrees, Views, ViewOf, Active
<1>3. \A x \in Facets, k \in Keys, u \in Ids :
        Shows(users[u], x, k) <=> Stays(journal, x, u, k, Len(journal))
  BY <1>1, <1>2, NothingAhead DEF Sound, History, Folded, Stays
<1>4. \A x, u, k : ~Ahead(journal, x, u, k, Len(journal))
  BY <1>1, NothingAhead
<1>5. ASSUME NEW e \in Emails \ shared PROVE {byEmail[e]} \ {None} = WithEmail(Views, e)
  <2>1. \A u \in Ids : u \in WithEmail(Views, e) <=> Shows(users[u], "email", e)
    BY <1>2 DEF WithEmail, Shows, Has
  <2>2. \A u \in Ids : Shows(users[u], "email", e) => byEmail[e] = u
    BY <1>3 DEF Sound, Indexes, Finds, Facets, Keys
  <2>3. byEmail[e] # None => byEmail[e] \in Ids /\ Shows(users[byEmail[e]], "email", e)
    BY <1>1, <1>4 DEF Sound, Indexes, Points
  <2>4. WithEmail(Views, e) \subseteq Ids /\ None \notin Ids
    BY NoneAssumption DEF WithEmail
  <2>q. QED  BY <2>1, <2>2, <2>3, <2>4
<1>6. ASSUME NEW s \in Subjects \ shared PROVE {bySubject[s]} \ {None} = WithSubject(Views, s)
  <2>1. \A u \in Ids : u \in WithSubject(Views, s) <=> Shows(users[u], "accounts", s)
    BY <1>2 DEF WithSubject, Shows, Has
  <2>2. \A u \in Ids : Shows(users[u], "accounts", s) => bySubject[s] = u
    BY <1>3 DEF Sound, Indexes, Finds, Facets, Keys
  <2>3. bySubject[s] # None => bySubject[s] \in Ids /\ Shows(users[bySubject[s]], "accounts", s)
    BY <1>1, <1>4 DEF Sound, Indexes, Points
  <2>4. WithSubject(Views, s) \subseteq Ids /\ None \notin Ids
    BY NoneAssumption DEF WithSubject
  <2>q. QED  BY <2>1, <2>2, <2>3, <2>4
<1>q. QED  BY <1>5, <1>6 DEF UnsharedIsFound

\* FindByEmail and FindByExternalAccount clone m.users[id] unchecked: the id is
\* always of a user the maps have, in any replay; and once every event has been
\* applied, an address or identity that never had two users leads to its user.
THEOREM LookupsFindTheirUser == Spec => []LookupsAreSound
<1>1. Sound => NoDanglingIndex
  BY DEF Sound, Indexes, Points, NoDanglingIndex, Found
<1>2. Sound => UnsharedIsFound
  BY FoundAtTheEnd DEF UnsharedIsFound
<1>3. Sound => LookupsAreSound
  BY <1>1, <1>2 DEF LookupsAreSound
<1>q. QED  BY <1>3, SoundKept, PTL DEF Spec

\* Keep-first: while a user has an address its entry stays the user's, though
\* the read model handles the events of any other (putEmailIndexLocked and its
\* eviction, es_readmodel.go).
THEOREM EntriesAreKept == Spec => KeepFirst
<1>1. ASSUME Typed, Project, NEW e \in Emails, byEmail[e] # None, users'[byEmail[e]] # None,
             users'[byEmail[e]].email = e
      PROVE  byEmail'[e] = byEmail[e]
  <2> DEFINE ev == journal[pos + 1]
             v  == users[ev.user]
  <2>1. /\ ev \in Event /\ Proper(ev) /\ ev.user \in Ids /\ v \in View \cup {None}
        /\ users' = [users EXCEPT ![ev.user] = After(@, ev)]
        /\ byEmail' = EmailsAfter(byEmail, v, ev)
    BY <1>1, ProjectShape, HandleShape
  <2>2. byEmail \in [Emails -> Ids \cup {None}] /\ users \in [Ids -> View \cup {None}]
    BY <1>1 DEF Typed, TypeOK
  <2> HIDE DEF ev
  <2>3. Moves("email", byEmail[e], byEmail'[e], v, ev, e)
    BY <2>1, <2>2, EmailsMove
  <2>4. CASE byEmail[e] # ev.user
    BY <1>1, <2>3, <2>4 DEF Moves
  <2>5. CASE byEmail[e] = ev.user
    <3>1. After(v, ev) # None /\ After(v, ev).email = e
      BY <1>1, <2>1, <2>2, <2>5
    <3>2. Shows(After(v, ev), "email", e)
      BY <3>1 DEF Shows, Has
    <3>3. ~Loses("email", ev, e)
      <4>1. Gains("email", ev, e) \/ ~Loses("email", ev, e)
        BY <2>1, <3>2, AfterFacet DEF Facets
      <4>q. QED  BY <4>1 DEF Gains, Loses
    <3>q. QED  BY <2>3, <2>5, <3>3 DEF Moves
  <2>q. QED  BY <2>4, <2>5
<1>2. Typed /\ [Next]_vars =>
        [Project => \A e \in Emails :
           LET u == byEmail[e]
           IN  u # None /\ users'[u] # None /\ users[u].email = e /\ users'[u].email = e
                 => byEmail'[e] = u]_vars
  BY <1>1
<1>q. QED  BY <1>2, InitTyped, TypedKept, PTL DEF Spec, KeepFirst

-----------------------------------------------------------------------------
(* The limit on users.                                                     *)

\* Nothing is appended or withdrawn that counts against the limit.
Calm ==
  /\ ActiveIds' \subseteq ActiveIds
  /\ \A i \in pos' + 1 .. Len(journal') : journal'[i].kind = "registered" =>
       i \in pos + 1 .. Len(journal) /\ journal[i].kind = "registered"

LEMMA ActiveIsFinite ==
  /\ IsFiniteSet(ActiveIds) /\ Cardinality(ActiveIds) \in Nat
  /\ IsFiniteSet(ActiveIds') /\ Cardinality(ActiveIds') \in Nat
  /\ Calm => Cardinality(ActiveIds') <= Cardinality(ActiveIds)
<1>1. ActiveIds \in SUBSET Ids /\ ActiveIds' \in SUBSET Ids
  BY DEF ActiveIds
<1>2. IsFiniteSet(ActiveIds) /\ IsFiniteSet(ActiveIds')
  BY <1>1, IdsAssumption, FS_Subset
<1>3. Calm => Cardinality(ActiveIds') <= Cardinality(ActiveIds)
  BY <1>2, FS_Subset DEF Calm
<1>q. QED  BY <1>2, <1>3, FS_CardinalityType

\* A journal whose registrations have all been applied: the maps have every
\* active user, so Count does not undercount them.
LEMMA CountsAll ==
  ASSUME Sound, \A i \in pos + 1 .. Len(journal) : journal[i].kind # "registered"
  PROVE  Cardinality(ActiveIds) <= Count
<1>1. ASSUME NEW u \in ActiveIds PROVE users[u] # None
  <2>1. u \in Ids /\ stream[u].exists /\ ~stream[u].deleted /\ stream[u].view \in View
    BY DEF ActiveIds, Active, Sound, Typed
  <2>2. ViewOf(stream[u]) # None
    BY <2>1, ViewAssumption DEF ViewOf
  <2>3. Shows(ViewOf(stream[u]), "known", None)
    BY <2>2 DEF Shows, Has
  <2>4. Holds(journal, "known", u, None, Len(journal))
    BY <2>1, <2>3 DEF Sound, History, Folded, Facets, Keys
  <2>5. PICK i \in 1 .. Len(journal) : /\ journal[i].user = u /\ Gains("known", journal[i], None)
                                       /\ Spared(journal, "known", u, None, i, Len(journal))
    BY <2>4 DEF Holds
  <2>6. pos \in Nat /\ Len(journal) \in Nat /\ pos <= Len(journal)
    BY DEF Sound, Typed, TypeOK
  <2>7. i \in 1 .. pos
    BY <2>5, <2>6 DEF Gains
  <2>a. i \in Nat /\ i <= pos
    BY <2>6, <2>7
  <2>8. /\ Spared(journal, "known", u, None, i, pos)
        /\ Spared(journal, "known", u, None, pos, Len(journal))
    BY <2>5, <2>6, <2>a, SparedSplit
  <2>9. Stays(journal, "known", u, None, pos)
    BY <2>5, <2>7, <2>8 DEF Stays, Holds
  <2>q. QED  BY <2>1, <2>9 DEF Sound, Tables, Tracks, Shows, Facets, Keys
<1> DEFINE K == {u \in Ids : users[u] # None}
<1>2. K \in SUBSET Ids /\ ActiveIds \in SUBSET K
  BY <1>1 DEF ActiveIds
<1>3. IsFiniteSet(K)
  BY <1>2, IdsAssumption, FS_Subset
<1>q. QED  BY <1>2, <1>3, FS_Subset DEF Count

\* A dispatch of an event: only a registration adds a user.
LEMMA EmitCounts ==
  ASSUME Typed, NEW ev \in Event, Proper(ev), Emit(ev), pos' = pos
  PROVE  /\ ev.kind # "registered" => Calm
         /\ Cardinality(ActiveIds') <= Cardinality(ActiveIds) + 1
<1>1. /\ Appended(journal, journal', ev) /\ ev.user \in Ids /\ stream[ev.user] \in Streams
      /\ stream' = [stream EXCEPT ![ev.user] = FoldUser(stream[ev.user], ev)]
      /\ Open(stream[ev.user], ev)
  BY EmitShape
<1>2. stream \in [Ids -> Streams] /\ pos \in 0 .. Len(journal)
  BY DEF Typed, TypeOK, Streams
<1>3. ActiveIds' \subseteq ActiveIds \cup {ev.user}
  BY <1>1, <1>2 DEF ActiveIds, Active
<1>4. ASSUME ev.kind # "registered" PROVE Calm
  <2>1. ev.user \in ActiveIds
    BY <1>1, <1>4 DEF ActiveIds, Active, Open
  <2>2. ASSUME NEW i \in pos' + 1 .. Len(journal'), journal'[i].kind = "registered"
        PROVE  i \in pos + 1 .. Len(journal) /\ journal[i].kind = "registered"
    BY <1>1, <1>2, <1>4, <2>2 DEF Appended
  <2>q. QED  BY <1>3, <2>1, <2>2 DEF Calm
<1>5. Cardinality(ActiveIds') <= Cardinality(ActiveIds) + 1
  <2> DEFINE A == ActiveIds
  <2>0. IsFiniteSet(A) /\ Cardinality(A) \in Nat
    BY ActiveIsFinite
  <2>1. /\ IsFiniteSet(ActiveIds \cup {ev.user})
        /\ Cardinality(ActiveIds \cup {ev.user}) <= Cardinality(ActiveIds) + 1
    <3> HIDE DEF A
    <3>1. /\ IsFiniteSet(A \cup {ev.user})
          /\ Cardinality(A \cup {ev.user}) =
               IF ev.user \in A THEN Cardinality(A) ELSE Cardinality(A) + 1
      BY <2>0, FS_AddElement
    <3>2. Cardinality(A \cup {ev.user}) <= Cardinality(A) + 1
      BY <2>0, <3>1
    <3>q. QED  BY <3>1, <3>2 DEF A
  <2>2. Cardinality(ActiveIds') <= Cardinality(ActiveIds \cup {ev.user})
    BY <1>3, <2>1, FS_Subset
  <2>3. Cardinality(ActiveIds \cup {ev.user}) \in Nat
    BY <2>1, FS_CardinalityType
  <2>q. QED  BY <2>1, <2>2, <2>3, ActiveIsFinite
<1>q. QED  BY <1>4, <1>5

\* A step of a request that is not about to register leaves the gate as it is.
LEMMA GateUndisturbed ==
  ASSUME Gated, Typed, Calm, NEW r \in Slots, host = "live", host' = "live",
         req[r].at \notin {"register", "registered"},
         req'[r].at \notin {"register", "registered"},
         \A l \in Slots \ {r} : req'[l] = req[l],
         lock' = lock \/ (lock = r /\ lock' = None)
  PROVE  Gated'
<1>1. \A l \in Slots : req'[l].at \in {"register", "registered"} =>
        l # r /\ req[l] = req'[l] /\ lock = l /\ lock' = l
  BY DEF Gated
<1>2. \A i \in pos' + 1 .. Len(journal') : journal'[i].kind = "registered" =>
        lock' \in Slots /\ req'[lock'].at = "registered" /\ req'[lock'].seq = i
  BY DEF Gated, Calm
<1>3. Cardinality(ActiveIds') <= MaxUsers
  BY ActiveIsFinite, BoundsAssumption DEF Gated
<1>4. \A l \in Slots : req'[l].at = "register" => Cardinality(ActiveIds') < MaxUsers
  BY <1>1, ActiveIsFinite, BoundsAssumption DEF Gated
<1>q. QED  BY <1>1, <1>2, <1>3, <1>4 DEF Gated

\* A request is let through: nothing is pending, and Count leaves room.
LEMMA GateOpens ==
  ASSUME Gated, Sound, MaxUsers > 0, NEW r \in Slots, host = "live",
         Gate(r), UNCHANGED <<journal, stream, pos, host>>,
         req'[r].at = "register", \A l \in Slots \ {r} : req'[l] = req[l]
  PROVE  Gated'
<1>1. lock = None /\ lock' = r /\ Count < MaxUsers /\ None \notin Slots
  BY NoneAssumption DEF Gate
<1>2. \A i \in pos + 1 .. Len(journal) : journal[i].kind # "registered"
  BY <1>1 DEF Gated
<1>3. Cardinality(ActiveIds) < MaxUsers
  <2>1. {u \in Ids : users[u] # None} \in SUBSET Ids
    OBVIOUS
  <2>2. Count \in Nat
    BY <2>1, IdsAssumption, FS_Subset, FS_CardinalityType DEF Count
  <2>q. QED  BY <1>1, <1>2, <2>2, CountsAll, ActiveIsFinite, BoundsAssumption
<1>4. ActiveIds' = ActiveIds
  BY DEF ActiveIds, Active
<1>5. \A l \in Slots : req'[l].at \in {"register", "registered"} => lock' = l
  BY <1>1 DEF Gated
<1>6. Cardinality(ActiveIds') < MaxUsers /\ Cardinality(ActiveIds') <= MaxUsers
  BY <1>3, <1>4, ActiveIsFinite, BoundsAssumption
<1>7. host' = "live" /\ \A i \in pos' + 1 .. Len(journal') : journal'[i].kind # "registered"
  BY <1>2
<1>q. QED  BY <1>5, <1>6, <1>7 DEF Gated

\* The registration is dispatched under the lock, or refused.
LEMMA GateRegisters ==
  ASSUME Gated, Typed, NEW r \in Slots, DispatchRegister(r), host = "live"
  PROVE  Gated'
<1> DEFINE ev == Ev("registered", req[r].who, req[r].email)
<1>1. /\ req[r].at = "register" /\ lock = r /\ Cardinality(ActiveIds) < MaxUsers
      /\ UNCHANGED <<pos, host>>
  BY DEF DispatchRegister, Dispatch, Gated
<1>2. \A i \in pos + 1 .. Len(journal) : journal[i].kind # "registered"
  BY <1>1 DEF Gated
<1>3. \A l \in Slots \ {r} : req[l].at \notin {"register", "registered"}
  BY <1>1 DEF Gated
<1>4. req \in [Slots -> Requests] /\ Carries(req[r])
  BY DEF Typed, TypeOK, Requests
<1>5. ev \in Event /\ Proper(ev) /\ ev.kind = "registered"
  BY <1>1, <1>4 DEF Ev, Event, Kinds, Proper, Carries
<1>6. CASE /\ Emit(ev) /\ UNCHANGED lock
           /\ req' = [req EXCEPT ![r].at = "registered", ![r].seq = Len(journal'),
                                 ![r].proven = @ /\ TRUE]
  <2>1. /\ Appended(journal, journal', ev) /\ Len(journal') = Len(journal) + 1
        /\ pos \in 0 .. Len(journal)
    BY <1>5, <1>6, EmitShape DEF Typed, TypeOK
  <2>2. /\ req'[r].at = "registered" /\ req'[r].seq = Len(journal')
        /\ \A l \in Slots \ {r} : req'[l] = req[l]
    BY <1>4, <1>6 DEF Requests
  <2>3. Cardinality(ActiveIds') <= MaxUsers
    BY <1>1, <1>5, <1>6, EmitCounts, ActiveIsFinite, BoundsAssumption
  <2>4. \A i \in pos' + 1 .. Len(journal') : journal'[i].kind = "registered" => i = Len(journal')
    BY <1>1, <1>2, <2>1 DEF Appended
  <2>5. \A l \in Slots : /\ req'[l].at \in {"register", "registered"} => lock' = l
                         /\ req'[l].at # "register"
    BY <1>1, <1>3, <1>6, <2>2
  <2>q. QED  BY <1>1, <1>6, <2>2, <2>3, <2>4, <2>5 DEF Gated
<1>7. CASE Finish(r) /\ UNCHANGED log
  <2>1. /\ req'[r].at = "idle" /\ \A l \in Slots \ {r} : req'[l] = req[l]
    BY <1>4, <1>7 DEF Finish, Idle, Request
  <2>2. ActiveIds' = ActiveIds /\ journal' = journal
    BY <1>7 DEF ActiveIds, Active, log
  <2>3. \A l \in Slots : req'[l].at \notin {"register", "registered"}
    BY <1>3, <2>1
  <2>q. QED  BY <1>1, <1>2, <2>2, <2>3 DEF Gated
<1>8. \/ Finish(r) /\ UNCHANGED log
      \/ /\ Emit(ev) /\ UNCHANGED lock
         /\ req' = [req EXCEPT ![r].at = "registered", ![r].seq = Len(journal'),
                               ![r].proven = @ /\ TRUE]
  BY DEF DispatchRegister, Dispatch
<1>q. QED  BY <1>6, <1>7, <1>8

\* The user the request registered has been applied when it goes on.
LEMMA GatePasses ==
  ASSUME Gated, Typed, NEW r \in Slots, AfterRegister(r), host = "live"
  PROVE  Gated'
<1>1. /\ req[r].at = "registered" /\ lock = r /\ pos >= req[r].seq
      /\ UNCHANGED <<journal, stream, pos, host>>
  BY DEF AfterRegister, Returned, Gated, log
<1>2. pos \in Nat /\ Len(journal) \in Nat /\ req \in [Slots -> Requests]
  BY DEF Typed, TypeOK, Requests
<1>3. \A i \in pos + 1 .. Len(journal) : journal[i].kind # "registered"
  BY <1>1, <1>2 DEF Gated
<1>4. /\ req'[r].at \in {"idle", "link"} /\ \A l \in Slots \ {r} : req'[l] = req[l]
  BY <1>2 DEF AfterRegister, Go, Finish, Idle, Request, Requests
<1>5. \A l \in Slots : req'[l].at \notin {"register", "registered"}
  BY <1>1, <1>4 DEF Gated
<1>6. ActiveIds' = ActiveIds
  BY <1>1 DEF ActiveIds, Active
<1>q. QED  BY <1>1, <1>3, <1>5, <1>6 DEF Gated

\* Everything else a request does.
LEMMA GateOthers ==
  ASSUME Gated, Sound, MaxUsers > 0, NEW r \in Slots, host = "live",
         \/ Link(r) \/ AfterLink(r) \/ DispatchLink(r) \/ DispatchVerify(r)
         \/ \E e \in Emails, s \in Subjects, p \in BOOLEAN : OAuth(r, e, s, p)
         \/ Provision(r) /\ Finish(r)
  PROVE  Gated'
<1>0. /\ Typed /\ req \in [Slots -> Requests] /\ journal \in Seq(Event)
      /\ Requested /\ Carries(req[r]) /\ pos \in 0 .. Len(journal)
  BY DEF Sound, Typed, TypeOK, Requests, Requested
<1>1. /\ host' = "live" /\ pos' = pos
      /\ req[r].at \notin {"register", "registered"}
      /\ req'[r].at \notin {"register", "registered"}
      /\ \A l \in Slots \ {r} : req'[l] = req[l]
      /\ lock' = lock \/ (lock = r /\ lock' = None)
  <2>1. CASE Link(r) \/ AfterLink(r) \/ (Provision(r) /\ Finish(r))
    BY <1>0, <2>1 DEF Link, AfterLink, Provision, Go, Finish, Release, Idle, Request, Requests
  <2>2. CASE DispatchLink(r) \/ DispatchVerify(r)
    <3>1. \A from, ev : Dispatch(r, from, ev, "linked") =>
            /\ host' = host /\ pos' = pos /\ req[r].at = from
            /\ req'[r].at \in {"idle", "linked"}
            /\ \A l \in Slots \ {r} : req'[l] = req[l]
            /\ lock' = lock \/ (lock = r /\ lock' = None)
      BY <1>0 DEF Dispatch, Finish, Release, Idle, Request, Requests
    <3>q. QED  BY <2>2, <3>1 DEF DispatchLink, DispatchVerify
  <2>3. CASE \E e \in Emails, s \in Subjects, p \in BOOLEAN : OAuth(r, e, s, p)
    <3>1. PICK e \in Emails, s \in Subjects, p \in BOOLEAN : OAuth(r, e, s, p)
      BY <2>3
    <3>q. QED  BY <1>0, <3>1 DEF OAuth, Request
  <2>q. QED  BY <2>1, <2>2, <2>3
<1>2. Calm
  <2>1. CASE UNCHANGED <<journal, stream>>
    BY <1>0, <1>1, <2>1 DEF Calm, ActiveIds, Active
  <2>2. ASSUME NEW ev \in Event, Proper(ev), Emit(ev), ev.kind # "registered" PROVE Calm
    BY <1>0, <1>1, <2>2, EmitCounts
  <2>3. CASE DispatchLink(r)
    <3> DEFINE ev == Ev("linked", req[r].who, req[r].subject)
    <3>1. req[r].at = "linking" /\ (Emit(ev) \/ UNCHANGED log)
      BY <2>3 DEF DispatchLink, Dispatch
    <3>2. ev \in Event /\ Proper(ev) /\ ev.kind # "registered"
      BY <1>0, <3>1 DEF Ev, Event, Kinds, Proper, Carries
    <3>q. QED  BY <2>1, <2>2, <3>1, <3>2 DEF log
  <2>4. CASE DispatchVerify(r)
    <3> DEFINE ev == Ev("verified", req[r].who, None)
    <3>1. req[r].at = "verify" /\ (Emit(ev) \/ UNCHANGED log)
      BY <2>4 DEF DispatchVerify, Dispatch
    <3>2. ev \in Event /\ Proper(ev) /\ ev.kind # "registered"
      BY <1>0, <3>1 DEF Ev, Event, Kinds, Proper, Carries
    <3>q. QED  BY <2>1, <2>2, <3>1, <3>2 DEF log
  <2>5. CASE Link(r) \/ AfterLink(r) \/ Provision(r)
    BY <2>1, <2>5 DEF Link, AfterLink, Provision, log
  <2>6. CASE \E e \in Emails, s \in Subjects, p \in BOOLEAN : OAuth(r, e, s, p)
    BY <2>1, <2>6 DEF OAuth, log
  <2>q. QED  BY <2>3, <2>4, <2>5, <2>6
<1>q. QED  BY <1>0, <1>1, <1>2, GateUndisturbed

\* Steps of the host and of the projection.
LEMMA GateHost ==
  ASSUME Gated, Typed, Steady, Project \/ SaveCheckpoint \/ Drained \/ Rebuild \/ Restart
  PROVE  Gated'
<1>0. pos \in Nat /\ Len(journal) \in Nat /\ pos <= Len(journal)
  BY DEF Typed, TypeOK
<1>1. UNCHANGED log
  BY DEF Project, SaveCheckpoint, Drained, Rebuild, Restart
<1>2. journal' = journal /\ ActiveIds' = ActiveIds
  BY <1>1 DEF log, ActiveIds, Active
<1>3. CASE Project \/ SaveCheckpoint
  <2>1. UNCHANGED <<host, req, lock>> /\ (pos' = pos \/ pos' = pos + 1)
    BY <1>3 DEF Project, SaveCheckpoint
  <2>q. QED  BY <1>0, <1>2, <2>1 DEF Gated
<1>4. CASE Drained
  <2>1. UNCHANGED <<req, lock, pos>> /\ host' = "live" /\ pos = Len(journal) /\ host # "live"
    BY <1>4 DEF Drained
  <2>2. \A r \in Slots : req'[r].at \notin {"register", "registered"}
    BY <2>1 DEF Gated
  <2>q. QED  BY <1>0, <1>2, <2>1, <2>2 DEF Gated
<1>5. CASE Rebuild
  BY <1>5 DEF Rebuild, Steady
<1>6. CASE Restart
  <2>1. /\ host' = "draining" /\ lock' = None
        /\ \A r \in Slots : req'[r].at = "idle"
    BY <1>6 DEF Restart, Idle, Request
  <2>q. QED  BY <1>2, <2>1 DEF Gated
<1>q. QED  BY <1>3, <1>4, <1>5, <1>6

\* The other commands append no registration.
LEMMA GateCalls ==
  ASSUME Gated, Typed, NEW u \in Ids, UserCall(u) PROVE Gated'
<1>1. /\ UNCHANGED <<host, req, lock, pos>>
      /\ \E ev \in Event : Proper(ev) /\ Emit(ev) /\ ev.kind # "registered"
  BY UserCallEmits DEF Emits
<1>2. Calm
  BY <1>1, EmitCounts
<1>3. Cardinality(ActiveIds') <= Cardinality(ActiveIds)
  BY <1>2, ActiveIsFinite
<1>4. \A i \in pos' + 1 .. Len(journal') : host' = "live" /\ journal'[i].kind = "registered" =>
        lock' \in Slots /\ req'[lock'].at = "registered" /\ req'[lock'].seq = i
  BY <1>1, <1>2 DEF Gated, Calm
<1>5. /\ Cardinality(ActiveIds') <= MaxUsers
      /\ \A r \in Slots : req'[r].at = "register" => Cardinality(ActiveIds') < MaxUsers
  BY <1>1, <1>3, ActiveIsFinite, BoundsAssumption DEF Gated
<1>q. QED  BY <1>1, <1>4, <1>5 DEF Gated

LEMMA GatedKept ==
  ASSUME Steady, MaxUsers > 0, Sound, Gated, [Next]_vars PROVE Gated'
<1>0. Typed /\ host \in {"draining", "live", "rebuilding"} /\ req \in [Slots -> Requests]
  BY DEF Sound, Typed, TypeOK, Requests
<1>1. ASSUME NEW r \in Slots, Steps(r) PROVE Gated'
  <2>1. host = "live"
    <3>1. req[r].at # "idle"
      BY <1>1 DEF Steps, Provision, DispatchRegister, AfterRegister, Link, DispatchLink,
                  AfterLink, DispatchVerify, Dispatch
    <3>q. QED  BY <3>1 DEF Gated
  <2>2. CASE Provision(r)
    <3>1. CASE Provision(r) /\ Finish(r)
      BY <2>1, <3>1, GateOthers
    <3>2. CASE Gate(r) /\ \E u \in Ids : req' = [req EXCEPT ![r].at = "register", ![r].who = u]
      <4>1. /\ req'[r].at = "register" /\ \A l \in Slots \ {r} : req'[l] = req[l]
        BY <1>0, <3>2 DEF Requests
      <4>2. UNCHANGED <<journal, stream, pos, host>>
        BY <2>2 DEF Provision, log
      <4>q. QED  BY <2>1, <3>2, <4>1, <4>2, GateOpens
    <3>q. QED  BY <2>2, <3>1, <3>2 DEF Provision
  <2>3. CASE DispatchRegister(r)
    BY <1>0, <2>1, <2>3, GateRegisters
  <2>4. CASE AfterRegister(r)
    BY <1>0, <2>1, <2>4, GatePasses
  <2>5. CASE Link(r) \/ DispatchLink(r) \/ AfterLink(r) \/ DispatchVerify(r)
    BY <2>1, <2>5, GateOthers
  <2>q. QED  BY <1>1, <2>2, <2>3, <2>4, <2>5 DEF Steps
<1>2. ASSUME NEW r \in Slots, NEW e \in Emails, Register(r, e) PROVE Gated'
  <2>1. host = "live"
    BY <1>0, <1>2 DEF Register, Serving, Steady, Gated
  <2>2. /\ req'[r].at = "register" /\ \A l \in Slots \ {r} : req'[l] = req[l]
    BY <1>0, <1>2 DEF Register, Request
  <2>3. UNCHANGED <<journal, stream, pos, host>> /\ Gate(r)
    BY <1>2 DEF Register, log
  <2>q. QED  BY <2>1, <2>2, <2>3, GateOpens
<1>3. ASSUME NEW r \in Slots,
             \E e \in Emails, s \in Subjects, p \in BOOLEAN : OAuth(r, e, s, p)
      PROVE  Gated'
  <2>1. host = "live"
    BY <1>0, <1>3 DEF OAuth, Serving, Steady, Gated
  <2>q. QED  BY <1>3, <2>1, GateOthers
<1>4. CASE UNCHANGED vars
  <2>1. UNCHANGED <<journal, stream, pos, host, req, lock>>
    BY <1>4 DEF vars, log
  <2>q. QED  BY <2>1 DEF Gated, ActiveIds, Active
<1>5. CASE Project \/ SaveCheckpoint \/ Drained \/ Rebuild \/ Restart
  BY <1>0, <1>5, GateHost
<1>6. ASSUME NEW u \in Ids, UserCall(u) PROVE Gated'
  BY <1>0, <1>6, GateCalls
<1>q. QED  BY <1>1, <1>2, <1>3, <1>4, <1>5, <1>6 DEF Next

LEMMA InitGated == Init => Gated
<1> SUFFICES ASSUME Init PROVE Gated
  OBVIOUS
<1>1. /\ host = "live" /\ lock = None /\ Len(journal) = 0 /\ pos = 0
      /\ \A r \in Slots : req[r].at = "idle"
  BY DEF Init, Idle, Request
<1>2. ActiveIds = {}
  BY DEF Init, ActiveIds, Active, Blank
<1>3. Cardinality(ActiveIds) = 0
  BY <1>2, FS_EmptySet
<1>q. QED  BY <1>1, <1>3, BoundsAssumption DEF Gated

\* MaxUsers bounds the registered users, whoever registers at once, by Register
\* or by a first OAuth2 login, and wherever the process dies between an append
\* and its projection: registrationMu is held from Count to the end of the
\* request (service_register.go, service_oauth2_extracted.go).  The start-up
\* drain must be waited for, and no projection rebuilt, as Count reads the maps.
THEOREM CapIsKept == ASSUME ~Async, "rebuild" \notin Faults PROVE Spec => []CapHolds
<1>0. Steady
  BY DEF Steady
<1>1. CASE MaxUsers > 0
  <2>1. Init => Sound /\ Gated
    BY SoundKept, InitGated
  <2>2. Sound /\ Gated /\ [Next]_vars => Sound' /\ Gated'
    BY <1>0, <1>1, SoundKept, GatedKept
  <2>3. Sound /\ Gated => CapHolds
    BY DEF Gated, CapHolds, ActiveIds
  <2>q. QED  BY <2>1, <2>2, <2>3, PTL DEF Spec
<1>2. CASE ~(MaxUsers > 0)
  <2>1. CapHolds
    BY <1>2 DEF CapHolds
  <2>q. QED  BY <2>1, PTL
<1>q. QED  BY <1>1, <1>2
=============================================================================
