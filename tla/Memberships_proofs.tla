------------------------- MODULE Memberships_proofs -------------------------
(***************************************************************************)
(* Proofs about Memberships, for any users, bots, tenants, role sets and   *)
(* requests, with and without views, through crashes, writes that fail and *)
(* rebuilds.                                                               *)
(*                                                                         *)
(* The models are behind the journal, and a replay takes them back, so     *)
(* they are compared with the folds entry by entry: an entry is that of    *)
(* the fold, or an event that will overwrite it is still to come.  A sweep *)
(* that lists a model which is past the deletion lists whatever is older   *)
(* than the deletion, and removes or misses it.                            *)
(***************************************************************************)
EXTENDS Memberships, FiniteSetTheorems, WellFoundedInduction, TLAPS

-----------------------------------------------------------------------------
(* The invariant.                                                           *)

Emitted == Asked \cup {Tombstone(e) : e \in Users \cup Tenants}

\* Every event of the journal is one that a call emits.
Recorded == \A i \in 1 .. Len(journal) : journal[i] \in Emitted

Memories == [Pairs -> (SUBSET Roles) \cup {None}]
Owners   == [Bots -> Users \cup {None}]
Indexes  == [Actors -> Seq(Tenants)]
Views    == [member : Memories, bot : Owners]
Deleting == {"deleted", "members", "bots"}
Request  == [at : {"idle", "update"} \cup Deleting, who : Entities \cup {None},
             todo : SUBSET Asked, seq : Nat]

Typed ==
  /\ LogTypeOK /\ Recorded
  /\ members \in Memories /\ byActor \in Indexes /\ bots \in Owners
  /\ rows \in Views
  /\ pos \in 0 .. Len(journal) /\ saved \in 0 .. pos /\ (~Durable => saved = 0)
  /\ req \in [Slots -> Request]
  /\ \A r \in Slots : req[r].at \in Deleting => req[r].who \in Users \cup Tenants

\* The events of one membership, and those that settle whether it is in effect.
Touches(ev, p) == OfMembership(ev) /\ <<ev.who, ev.where>> = p
Settles(ev, p) == Touches(ev, p) /\ ev.kind # "changed"
OfBot(ev, b)   == ev.kind \in {"botRegistered", "botDeleted"} /\ ev.who = b

NoneTouches(i, p) == \A j \in i + 1 .. Len(journal) : ~Touches(journal[j], p)
NoneSettles(i, p) == \A j \in i + 1 .. Len(journal) : ~Settles(journal[j], p)
NoneOfBot(i, b)   == \A j \in i + 1 .. Len(journal) : ~OfBot(journal[j], b)

\* The bot a fold shows to the read model.
BotNow(b) == IF entity[b] = "active" THEN owner[b] ELSE None

\* What the last event of a membership or of a bot says of its fold.
LastWords ==
  /\ \A p \in Pairs, i \in 1 .. Len(journal) :
       /\ Touches(journal[i], p) /\ NoneTouches(i, p) => member[p] = FoldMembership(journal[i])
       /\ Settles(journal[i], p) /\ NoneSettles(i, p) =>
            ((journal[i].kind = "added") <=> (member[p] # None))
  /\ \A b \in Bots, i \in 1 .. Len(journal) :
       OfBot(journal[i], b) /\ NoneOfBot(i, b) =>
         BotNow(b) = IF journal[i].kind = "botRegistered" THEN journal[i].where ELSE None

\* What is in effect was added, or registered, and not ended since.
Grounded ==
  /\ \A p \in Pairs : member[p] # None =>
       \E i \in 1 .. Len(journal) : /\ Settles(journal[i], p) /\ journal[i].kind = "added"
                                    /\ NoneSettles(i, p)
  /\ \A b \in Bots : entity[b] = "active" =>
       \E i \in 1 .. Len(journal) : /\ OfBot(journal[i], b) /\ journal[i].kind = "botRegistered"
                                    /\ NoneOfBot(i, b)

\* A map of memberships at a position: an entry is that of the fold unless an
\* event of its membership is to come, and is there or not as in the fold
\* unless one that settles this is to come.
MembersFollow(m) ==
  \A p \in Pairs : /\ NoneSettles(pos, p) => (m[p] = None <=> member[p] = None)
                   /\ NoneTouches(pos, p) => m[p] = member[p]

BotsFollow(m) == \A b \in Bots : NoneOfBot(pos, b) => m[b] = BotNow(b)

\* The index lists the memberships of the map, each once.
Indexed ==
  \A a \in Actors : /\ \A t \in Tenants : Contains(byActor[a], t) <=> members[<<a, t>>] # None
                    /\ IsInjective(byActor[a])

Following == /\ MembersFollow(members) /\ BotsFollow(bots) /\ Indexed
             /\ Durable => MembersFollow(rows.member) /\ BotsFollow(rows.bot)

\* A deleted user or tenant is deleted for good, and its sweep came later.
Final ==
  \A e \in Users \cup Tenants :
    /\ \A i \in 1 .. Len(journal) : Deletes(journal[i], e) => entity[e] = "deleted"
    /\ \A r \in Slots : req[r].at \in Deleting /\ req[r].who = e =>
         /\ entity[e] = "deleted"
         /\ \A i \in 1 .. Len(journal) : Deletes(journal[i], e) => i <= req[r].seq

\* A sweep will still list the membership, or the bot, or has it on its list.
WillRemove(r, e, p) ==
  /\ req[r].who = e
  /\ \/ req[r].at = "deleted"
     \/ req[r].at = "members" /\ Ev("removed", p[1], p[2], {}) \in req[r].todo

WillDelete(r, e, b) ==
  /\ req[r].who = e
  /\ \/ req[r].at \in {"deleted", "members"}
     \/ req[r].at = "bots" /\ Ev("botDeleted", b, None, {}) \in req[r].todo

\* What is left of a membership, or of a bot, that is older than the deletion of e.
LeftMember(i, e, p) == /\ Deletes(journal[i], e) /\ e \in {p[1], p[2]}
                       /\ member[p] # None /\ ~AddedSince(i, p)
LeftBot(i, e, b)    == /\ Deletes(journal[i], e) /\ owner[b] = e
                       /\ entity[b] = "active" /\ ~RegisteredSince(i, b)

Caught ==
  \A i \in 1 .. Len(journal), e \in (Users \cup Tenants) \ missed :
    /\ \A p \in Pairs : LeftMember(i, e, p) => \E r \in Slots : WillRemove(r, e, p)
    /\ \A b \in Bots : LeftBot(i, e, b) => \E r \in Slots : WillDelete(r, e, b)

-----------------------------------------------------------------------------
(* What an event that is emitted looks like.                                *)

LEMMA EmittedIsEvent ==
  ASSUME NEW ev \in Emitted PROVE ev \in Event
<1> USE DEF Event, Ev, Kinds, Roles, Actors, Entities
<1>1. CASE ev \in Asked
  BY <1>1 DEF Asked
<1>2. CASE ev \in {Tombstone(e) : e \in Users \cup Tenants}
  BY <1>2 DEF Tombstone
<1> QED BY <1>1, <1>2 DEF Emitted

LEMMA EmittedFields ==
  ASSUME NEW ev \in Emitted
  PROVE  /\ OfMembership(ev) => /\ ev.who \in Actors /\ ev.where \in Tenants
                                /\ <<ev.who, ev.where>> \in Pairs
                                /\ ev.roles \in SUBSET Roles /\ ev.roles # None
         /\ ~OfMembership(ev) => Stream(ev) \in Entities
         /\ ev.kind = "botRegistered" => ev.who \in Bots /\ ev.where \in Users
         /\ ev.kind = "botDeleted" => ev.who \in Bots
<1> USE DEF OfMembership, Stream, OfTenant, Ev, Roles, Actors, Entities, Pairs
<1>1. CASE ev \in Asked
  BY <1>1, GrantsAssumption DEF Asked
<1>2. CASE ev \in {Tombstone(e) : e \in Users \cup Tenants}
  BY <1>2 DEF Tombstone
<1> QED BY <1>1, <1>2 DEF Emitted

\* Only the tombstones end a user or a tenant.
LEMMA AskedDeletesNothing ==
  ASSUME NEW ev \in Asked, NEW e \in Users \cup Tenants PROVE ~Deletes(ev, e)
BY GrantsAssumption DEF Asked, Deletes, Stream, OfTenant, Ev, Entities, Actors

LEMMA TombstoneShape ==
  ASSUME NEW e \in Users \cup Tenants
  PROVE  /\ Tombstone(e) \in Emitted /\ ~OfMembership(Tombstone(e))
         /\ Tombstone(e).kind \in {"userDeleted", "tenantDeleted"}
         /\ Stream(Tombstone(e)) = e
BY DEF Emitted, Tombstone, OfMembership, Stream, OfTenant, Ev

-----------------------------------------------------------------------------
(* Types.                                                                   *)

LEMMA EmitTyped ==
  ASSUME LogTypeOK, Recorded, NEW ev \in Emitted, Emit(ev)
  PROVE  /\ journal' \in Seq(Event) /\ Len(journal') = Len(journal) + 1
         /\ Len(journal') <= MaxEvents
         /\ entity' \in [Entities -> States] /\ owner' \in [Bots -> Users \cup {None}]
         /\ member' \in [Pairs -> (SUBSET Roles) \cup {None}]
         /\ Recorded'
         /\ \A i \in 1 .. Len(journal) : journal'[i] = journal[i]
         /\ journal'[Len(journal) + 1] = ev
<1> USE DEF LogTypeOK
<1>1. journal' = Append(journal, ev) /\ ev \in Event /\ Len(journal) < MaxEvents
  BY EmittedIsEvent DEF Emit
<1>2. /\ journal' \in Seq(Event) /\ Len(journal') = Len(journal) + 1
      /\ \A i \in 1 .. Len(journal) : journal'[i] = journal[i]
      /\ journal'[Len(journal) + 1] = ev
  BY <1>1
<1>3. Len(journal') <= MaxEvents
  BY <1>1, <1>2, GrantsAssumption
<1>4. Recorded'
  BY <1>2 DEF Recorded
<1>5. CASE OfMembership(ev)
  <2>1. <<ev.who, ev.where>> \in Pairs /\ ev.roles \in SUBSET Roles
    BY <1>5, EmittedFields
  <2>2. member' \in [Pairs -> (SUBSET Roles) \cup {None}] /\ UNCHANGED <<entity, owner>>
    BY <1>5, <2>1 DEF Emit, Fold, FoldMembership
  <2> QED BY <1>2, <1>3, <1>4, <2>2
<1>6. CASE ~OfMembership(ev)
  <2>1. Stream(ev) \in Entities /\ (ev.kind = "botRegistered" => ev.who \in Bots /\ ev.where \in Users)
    BY <1>6, EmittedFields
  <2>2. entity' \in [Entities -> States]
    BY <1>6, <2>1 DEF Emit, Fold, FoldState, States
  <2>3. owner' \in [Bots -> Users \cup {None}] /\ UNCHANGED member
    BY <1>6, <2>1 DEF Emit, Fold
  <2> QED BY <1>2, <1>3, <1>4, <2>2, <2>3
<1> QED BY <1>5, <1>6

-----------------------------------------------------------------------------
(* An index of memberships.                                                 *)

Before == {p \in Nat \X Nat : p[1] < p[2]}

LEMMA BeforeWellFounded == IsWellFoundedOn(Before, Nat)
<1>1. Before = OpToRel(<, Nat)
  BY DEF Before, OpToRel
<1> QED BY <1>1, NatLessThanWellFounded

LEMMA FirstEntry ==
  ASSUME NEW s \in Seq(Tenants), NEW t, Contains(s, t)
  PROVE  \E i \in 1 .. Len(s) : s[i] = t /\ \A j \in 1 .. i - 1 : s[j] # t
<1> DEFINE S == {i \in 1 .. Len(s) : s[i] = t}
<1>1. S \subseteq Nat /\ S # {}
  BY DEF Contains
<1>2. PICK i \in S : \A e \in S : ~(<<e, i>> \in Before)
  BY <1>1, BeforeWellFounded, WFMin
<1>3. i \in 1 .. Len(s) /\ s[i] = t
  BY <1>2
<1>4. ASSUME NEW j \in 1 .. i - 1 PROVE s[j] # t
  <2>1. j \in 1 .. Len(s) /\ j < i /\ j \in Nat /\ i \in Nat
    BY <1>3
  <2>2. <<j, i>> \in Before
    BY <2>1 DEF Before
  <2> QED BY <2>1, <2>2, <1>2
<1> QED BY <1>3, <1>4

\* What is left when the first entry is cut out (removeAggID).
LEMMA CutEntry ==
  ASSUME NEW s \in Seq(Tenants), NEW t, Contains(s, t)
  PROVE  \E i \in 1 .. Len(s) :
           /\ s[i] = t
           /\ removeAggID(s, t) \in Seq(Tenants)
           /\ Len(removeAggID(s, t)) = Len(s) - 1
           /\ \A k \in 1 .. Len(s) - 1 :
                removeAggID(s, t)[k] = IF k < i THEN s[k] ELSE s[k + 1]
<1> DEFINE i == CHOOSE i \in 1 .. Len(s) : s[i] = t /\ \A j \in 1 .. i - 1 : s[j] # t
           u == SubSeq(s, 1, i - 1)
           v == SubSeq(s, i + 1, Len(s))
<1>1. i \in 1 .. Len(s) /\ s[i] = t
  BY FirstEntry
<1>2. removeAggID(s, t) = u \o v
  BY DEF removeAggID, RemoveAt
<1> HIDE DEF i
<1>3. /\ u \in Seq(Tenants) /\ Len(u) = i - 1
      /\ \A k \in 1 .. i - 1 : u[k] = s[k]
  BY <1>1
<1>4. /\ v \in Seq(Tenants) /\ Len(v) = Len(s) - i
      /\ \A k \in 1 .. Len(s) - i : v[k] = s[k + i]
  BY <1>1
<1> HIDE DEF u, v
<1>5. u \o v \in Seq(Tenants) /\ Len(u \o v) = Len(s) - 1
  BY <1>1, <1>3, <1>4
<1>6. ASSUME NEW k \in 1 .. Len(s) - 1
      PROVE  (u \o v)[k] = IF k < i THEN s[k] ELSE s[k + 1]
  <2>1. CASE k < i
    BY <2>1, <1>1, <1>3, <1>4
  <2>2. CASE ~(k < i)
    <3>1. k - (i - 1) \in 1 .. Len(s) - i /\ k - (i - 1) + i = k + 1
      BY <2>2, <1>1
    <3>2. (u \o v)[k] = v[k - Len(u)]
      BY <2>2, <1>1, <1>3, <1>4
    <3> QED BY <3>1, <3>2, <2>2, <1>3, <1>4
  <2> QED BY <2>1, <2>2
<1> QED BY <1>1, <1>2, <1>5, <1>6

\* A cut takes the membership off an index that lists each once, and no other.
LEMMA CutIndex ==
  ASSUME NEW s \in Seq(Tenants), NEW t
  PROVE  /\ removeAggID(s, t) \in Seq(Tenants)
         /\ IsInjective(s) =>
              /\ IsInjective(removeAggID(s, t))
              /\ \A x : Contains(removeAggID(s, t), x) <=> Contains(s, x) /\ x # t
<1>1. CASE ~Contains(s, t)
  <2>1. removeAggID(s, t) = s
    BY <1>1 DEF removeAggID
  <2> QED BY <2>1, <1>1
<1>2. CASE Contains(s, t)
  <2> DEFINE c == removeAggID(s, t)
  <2>1. PICK i \in 1 .. Len(s) :
          /\ s[i] = t /\ c \in Seq(Tenants) /\ Len(c) = Len(s) - 1
          /\ \A k \in 1 .. Len(s) - 1 : c[k] = IF k < i THEN s[k] ELSE s[k + 1]
    BY <1>2, CutEntry
  <2> HIDE DEF c
  <2>2. SUFFICES ASSUME IsInjective(s)
                 PROVE  /\ IsInjective(c)
                        /\ \A x : Contains(c, x) <=> Contains(s, x) /\ x # t
    BY <2>1 DEF c
  <2>3. \A j, k \in 1 .. Len(s) : s[j] = s[k] => j = k
    BY <2>2 DEF IsInjective
  <2>4. ASSUME NEW j \in 1 .. Len(c), NEW k \in 1 .. Len(c), c[j] = c[k] PROVE j = k
    <3> DEFINE J == IF j < i THEN j ELSE j + 1
               K == IF k < i THEN k ELSE k + 1
    <3>1. J \in 1 .. Len(s) /\ K \in 1 .. Len(s) /\ c[j] = s[J] /\ c[k] = s[K]
      BY <2>1
    <3>2. J = K
      BY <3>1, <2>3, <2>4
    <3> QED BY <3>2
  <2>5. IsInjective(c)
    BY <2>1, <2>4 DEF IsInjective
  <2>6. ASSUME NEW x, Contains(c, x) PROVE Contains(s, x) /\ x # t
    <3>1. PICK k \in 1 .. Len(c) : c[k] = x
      BY <2>6 DEF Contains
    <3> DEFINE K == IF k < i THEN k ELSE k + 1
    <3>2. K \in 1 .. Len(s) /\ c[k] = s[K] /\ K # i
      BY <2>1
    <3> QED BY <3>1, <3>2, <2>1, <2>3 DEF Contains
  <2>7. ASSUME NEW x, Contains(s, x), x # t PROVE Contains(c, x)
    <3>1. PICK k \in 1 .. Len(s) : s[k] = x /\ k # i
      BY <2>7, <2>1 DEF Contains
    <3>2. CASE k < i
      <4>1. k \in 1 .. Len(c) /\ c[k] = x
        BY <3>1, <3>2, <2>1
      <4> QED BY <4>1 DEF Contains
    <3>3. CASE ~(k < i)
      <4>1. k - 1 \in 1 .. Len(c) /\ ~(k - 1 < i) /\ k - 1 + 1 = k
        BY <3>1, <3>3, <2>1
      <4>2. c[k - 1] = x
        BY <4>1, <3>1, <2>1
      <4> QED BY <4>1, <4>2 DEF Contains
    <3> QED BY <3>2, <3>3
  <2> QED BY <2>5, <2>6, <2>7
<1> QED BY <1>1, <1>2

\* An entry that is not there yet is put at the end.
LEMMA AppendIndex ==
  ASSUME NEW s \in Seq(Tenants), NEW t \in Tenants, ~Contains(s, t)
  PROVE  /\ Append(s, t) \in Seq(Tenants)
         /\ IsInjective(s) => IsInjective(Append(s, t))
         /\ \A x : Contains(Append(s, t), x) <=> Contains(s, x) \/ x = t
<1> DEFINE c == Append(s, t)
<1>1. /\ c \in Seq(Tenants) /\ Len(c) = Len(s) + 1 /\ c[Len(s) + 1] = t
      /\ \A k \in 1 .. Len(s) : c[k] = s[k]
  OBVIOUS
<1> HIDE DEF c
<1>2. \A k \in 1 .. Len(s) : s[k] # t
  BY DEF Contains
<1>3. ASSUME IsInjective(s) PROVE IsInjective(c)
  <2>1. ASSUME NEW j \in 1 .. Len(c), NEW k \in 1 .. Len(c), c[j] = c[k] PROVE j = k
    <3>1. CASE j \in 1 .. Len(s) /\ k \in 1 .. Len(s)
      BY <3>1, <2>1, <1>1, <1>3 DEF IsInjective
    <3>2. CASE ~(j \in 1 .. Len(s) /\ k \in 1 .. Len(s))
      BY <3>2, <2>1, <1>1, <1>2
    <3> QED BY <3>1, <3>2
  <2> QED BY <2>1, <1>1 DEF IsInjective
<1>4. ASSUME NEW x PROVE Contains(c, x) <=> Contains(s, x) \/ x = t
  <2>1. Contains(c, x) <=> \E k \in 1 .. Len(s) + 1 : c[k] = x
    BY <1>1 DEF Contains
  <2>2. ASSUME NEW k \in 1 .. Len(s) + 1, c[k] = x PROVE Contains(s, x) \/ x = t
    BY <2>2, <1>1 DEF Contains
  <2>3. ASSUME Contains(s, x) PROVE \E k \in 1 .. Len(s) + 1 : c[k] = x
    BY <2>3, <1>1 DEF Contains
  <2>4. ASSUME x = t PROVE \E k \in 1 .. Len(s) + 1 : c[k] = x
    BY <2>4, <1>1
  <2> QED BY <2>1, <2>2, <2>3, <2>4
<1> QED BY <1>1, <1>3, <1>4 DEF c

\* Hydration lists the memberships of an actor in some order, each once.
LEMMA ScannedIndex ==
  ASSUME NEW S, S \subseteq Tenants
  PROVE  /\ SetToSeq(S) \in Seq(Tenants) /\ IsInjective(SetToSeq(S))
         /\ \A x : Contains(SetToSeq(S), x) <=> x \in S
<1> DEFINE n == Cardinality(S)
           f == SetToSeq(S)
<1>1. IsFiniteSet(S) /\ n \in Nat
  BY TenantsAssumption, FS_Subset, FS_CardinalityType
<1>2. \E g \in [1 .. n -> S] : IsInjective(g)
  <2>1. IsFiniteSet(1 .. n) /\ Cardinality(1 .. n) = n
    BY <1>1, FS_Interval
  <2>2. ExistsBijection(1 .. n, S)
    BY <1>1, <2>1, FS_SameCardinalityBij
  <2> QED BY <2>2 DEF ExistsBijection, Bijection, Injection, IsInjective
<1>3. f \in [1 .. n -> S] /\ IsInjective(f)
  BY <1>2 DEF SetToSeq
<1> HIDE DEF f
<1>4. f \in Seq(Tenants) /\ Len(f) = n
  BY <1>1, <1>3
<1>5. f \in Surjection(1 .. n, S)
  <2>1. f \in Injection(1 .. n, S)
    BY <1>3 DEF Injection, IsInjective
  <2>2. IsFiniteSet(1 .. n) /\ Cardinality(1 .. n) = n
    BY <1>1, FS_Interval
  <2> QED BY <1>1, <2>1, <2>2, FS_Injection
<1>6. \A x : Contains(f, x) <=> x \in S
  BY <1>3, <1>4, <1>5 DEF Contains, Surjection
<1> QED BY <1>3, <1>4, <1>6 DEF f

-----------------------------------------------------------------------------
(* What an event does to the read models and to their rows.                 *)

\* What the membership model has after the event where it had R.
Next1(ev, R) == CASE ev.kind = "added"   -> ev.roles
                  [] ev.kind = "removed" -> None
                  [] OTHER -> IF R # None THEN ev.roles ELSE None

LEMMA HandleMembers ==
  ASSUME NEW ev \in Emitted, Handle(ev), members \in Memories
  PROVE  /\ members' \in Memories
         /\ \A p \in Pairs : members'[p] = IF Touches(ev, p) THEN Next1(ev, members[p])
                                           ELSE members[p]
<1> DEFINE q == <<ev.who, ev.where>>
<1> USE DEF Memories
<1>1. CASE ~OfMembership(ev)
  <2>1. members' = members
    BY <1>1 DEF Handle, OfMembership
  <2> QED BY <2>1, <1>1 DEF Touches
<1>2. CASE OfMembership(ev)
  <2>1. q \in Pairs /\ ev.roles \in SUBSET Roles
    BY <1>2, EmittedFields
  <2>2. members' = [members EXCEPT ![q] = Next1(ev, members[q])]
    <3>1. CASE ev.kind = "added"
      BY <3>1 DEF Handle, Next1
    <3>2. CASE ev.kind = "removed"
      BY <3>2 DEF Handle, Next1
    <3>3. CASE ev.kind = "changed" /\ members[q] # None
      BY <3>3, <1>2 DEF Handle, Next1
    <3>4. CASE ev.kind = "changed" /\ members[q] = None
      <4>1. members' = members
        BY <3>4, <1>2 DEF Handle
      <4> QED BY <4>1, <3>4, <2>1 DEF Next1
    <3> QED BY <3>1, <3>2, <3>3, <3>4, <1>2 DEF OfMembership
  <2>3. Next1(ev, members[q]) \in (SUBSET Roles) \cup {None}
    BY <2>1 DEF Next1
  <2> HIDE DEF q
  <2>4. members' \in Memories
    BY <2>1, <2>2, <2>3
  <2>5. \A p \in Pairs : members'[p] = IF p = q THEN Next1(ev, members[q]) ELSE members[p]
    BY <2>1, <2>2
  <2> QED BY <2>4, <2>5, <1>2 DEF Touches, q
<1> QED BY <1>1, <1>2

LEMMA HandleBots ==
  ASSUME NEW ev \in Emitted, Handle(ev), bots \in Owners
  PROVE  /\ bots' \in Owners
         /\ \A b \in Bots : bots'[b] = IF OfBot(ev, b)
                                       THEN IF ev.kind = "botRegistered" THEN ev.where ELSE None
                                       ELSE bots[b]
<1> USE DEF Owners, OfBot
<1>1. CASE ev.kind = "botRegistered"
  <2>1. ev.who \in Bots /\ ev.where \in Users
    BY <1>1, EmittedFields
  <2> QED BY <1>1, <2>1 DEF Handle
<1>2. CASE ev.kind = "botDeleted"
  <2>1. ev.who \in Bots
    BY <1>2, EmittedFields
  <2> QED BY <1>2, <2>1 DEF Handle
<1>3. CASE ev.kind \notin {"botRegistered", "botDeleted"}
  <2>1. bots' = bots
    BY <1>3 DEF Handle
  <2> QED BY <1>3, <2>1
<1> QED BY <1>1, <1>2, <1>3

LEMMA HandleIndex ==
  ASSUME NEW ev \in Emitted, Handle(ev), members \in Memories, byActor \in Indexes
  PROVE  byActor' \in Indexes /\ (Indexed => Indexed')
<1> DEFINE a == ev.who
           t == ev.where
           q == <<a, t>>
<1>m. \A p \in Pairs : members'[p] = IF Touches(ev, p) THEN Next1(ev, members[p]) ELSE members[p]
  BY HandleMembers
<1>1. CASE ~OfMembership(ev)
  <2>1. byActor' = byActor /\ members' = members
    BY <1>1 DEF Handle, OfMembership
  <2> QED BY <2>1 DEF Indexed
<1>2. CASE OfMembership(ev)
  <2>1. a \in Actors /\ t \in Tenants /\ q \in Pairs /\ ev.roles # None
    BY <1>2, EmittedFields
  <2>2. PICK s \in Seq(Tenants) :
          /\ byActor' = [byActor EXCEPT ![a] = s]
          /\ IsInjective(byActor[a]) /\ (Contains(byActor[a], t) <=> members[q] # None) =>
               /\ IsInjective(s) /\ (Contains(s, t) <=> members'[q] # None)
               /\ \A x : x # t => (Contains(s, x) <=> Contains(byActor[a], x))
    <3>0. byActor[a] \in Seq(Tenants) /\ byActor = [byActor EXCEPT ![a] = byActor[a]]
      BY <2>1 DEF Indexes
    <3>1. CASE ev.kind = "added"
      <4>1. members'[q] # None
        BY <3>1, <2>1, <1>m, <1>2 DEF Touches, Next1
      <4>2. byActor' = [byActor EXCEPT ![a] = Entry(a, t)]
        BY <3>1 DEF Handle
      <4>3. CASE Contains(byActor[a], t)
        <5>1. byActor' = byActor
          BY <4>2, <4>3, <3>0 DEF Entry
        <5> QED BY <5>1, <4>1, <4>3, <3>0
      <4>4. CASE ~Contains(byActor[a], t)
        <5>1. byActor' = [byActor EXCEPT ![a] = Append(byActor[a], t)]
          BY <4>2, <4>4 DEF Entry
        <5>2. /\ Append(byActor[a], t) \in Seq(Tenants)
              /\ IsInjective(byActor[a]) => IsInjective(Append(byActor[a], t))
              /\ \A x : Contains(Append(byActor[a], t), x) <=> Contains(byActor[a], x) \/ x = t
          BY <3>0, <2>1, <4>4, AppendIndex
        <5> DEFINE s == Append(byActor[a], t)
        <5> HIDE DEF s, a, t, q
        <5> QED BY <5>1, <5>2, <4>1 DEF s
      <4> QED BY <4>3, <4>4
    <3>2. CASE ev.kind = "removed" /\ members[q] # None
      <4>1. members'[q] = None
        BY <3>2, <2>1, <1>m, <1>2 DEF Touches, Next1
      <4> DEFINE s == removeAggID(byActor[a], t)
      <4>2. byActor' = [byActor EXCEPT ![a] = s]
        BY <3>2, <1>2 DEF Handle
      <4>3. /\ s \in Seq(Tenants)
            /\ IsInjective(byActor[a]) =>
                 IsInjective(s) /\ \A x : Contains(s, x) <=> Contains(byActor[a], x) /\ x # t
        BY <3>0, CutIndex
      <4> HIDE DEF s, a, t, q
      <4> QED BY <4>1, <4>2, <4>3
    <3>3. CASE ev.kind = "changed" \/ (ev.kind = "removed" /\ members[q] = None)
      <4>1. byActor' = byActor
        BY <3>3, <1>2 DEF Handle
      <4>2. members'[q] = None <=> members[q] = None
        BY <3>3, <2>1, <1>m, <1>2 DEF Touches, Next1
      <4> HIDE DEF a, t, q
      <4> QED BY <4>1, <4>2, <3>0
    <3> QED BY <3>1, <3>2, <3>3, <1>2 DEF OfMembership
  <2>3. byActor' \in Indexes /\ byActor'[a] = s /\ \A c \in Actors : c # a => byActor'[c] = byActor[c]
    BY <2>1, <2>2 DEF Indexes
  <2>4. SUFFICES ASSUME Indexed PROVE Indexed'
    BY <2>3
  <2>5. ASSUME NEW c \in Actors
        PROVE  /\ \A u \in Tenants : Contains(byActor'[c], u) <=> members'[<<c, u>>] # None
               /\ IsInjective(byActor'[c])
    <3>1. \A u \in Tenants : <<c, u>> \in Pairs /\ (<<c, u>> # q => members'[<<c, u>>] = members[<<c, u>>])
      <4>1. \A u \in Tenants : <<c, u>> \in Pairs
        BY <2>5 DEF Pairs
      <4> QED BY <4>1, <1>m DEF Touches
    <3>2. CASE c # a
      <4>1. \A u \in Tenants : <<c, u>> # q
        BY <3>2
      <4> QED BY <4>1, <3>1, <3>2, <2>3, <2>4 DEF Indexed
    <3>3. CASE c = a
      <4>1. IsInjective(byActor[a]) /\ \A u \in Tenants : Contains(byActor[a], u) <=> members[<<a, u>>] # None
        BY <2>1, <2>4 DEF Indexed
      <4>2. /\ IsInjective(s) /\ (Contains(s, t) <=> members'[q] # None)
            /\ \A x : x # t => (Contains(s, x) <=> Contains(byActor[a], x))
        BY <4>1, <2>1, <2>2
      <4>3. \A u \in Tenants : u # t => <<a, u>> # q
        OBVIOUS
      <4> QED BY <4>1, <4>2, <4>3, <3>1, <3>3, <2>3
    <3> QED BY <3>2, <3>3
  <2> QED BY <2>5 DEF Indexed
<1> QED BY <1>1, <1>2

LEMMA RowShape ==
  ASSUME NEW ev \in Emitted, rows \in Views, members' \in Memories, bots' \in Owners
  PROVE  /\ Row(ev) \in Views
         /\ \A p \in Pairs :
              Row(ev).member[p] = IF Touches(ev, p) /\ (ev.kind = "removed" \/ members'[p] # None)
                                  THEN members'[p] ELSE rows.member[p]
         /\ \A b \in Bots : Row(ev).bot[b] = IF OfBot(ev, b) THEN bots'[b] ELSE rows.bot[b]
<1> DEFINE q == <<ev.who, ev.where>>
<1>1. CASE OfMembership(ev)
  <2>1. q \in Pairs /\ \A b \in Bots : ~OfBot(ev, b)
    BY <1>1, EmittedFields DEF OfMembership, OfBot
  <2>2. CASE ev.kind = "removed" \/ members'[q] # None
    <3>0. /\ OfMembership(ev) /\ (ev.kind = "removed" \/ members'[<<ev.who, ev.where>>] # None)
          /\ ev.kind \notin {"botDeleted", "botRegistered"}
      BY <1>1, <2>2 DEF OfMembership
    <3>1. Row(ev) = [rows EXCEPT !.member[q] = members'[q]]
      BY <3>0 DEF Row
    <3> HIDE DEF q
    <3>2. members'[q] \in (SUBSET Roles) \cup {None}
      BY <2>1 DEF Memories
    <3>3. /\ Row(ev).member = [rows.member EXCEPT ![q] = members'[q]]
          /\ Row(ev).bot = rows.bot /\ Row(ev) \in Views
      BY <3>1, <3>2, <2>1 DEF Views, Memories
    <3>4. \A p \in Pairs : Row(ev).member[p] = IF p = q THEN members'[q] ELSE rows.member[p]
      BY <3>3, <2>1 DEF Views, Memories
    <3> QED BY <1>1, <2>1, <2>2, <3>3, <3>4 DEF Touches, q
  <2>3. CASE ~(ev.kind = "removed" \/ members'[q] # None)
    <3>1. Row(ev) = rows
      BY <1>1, <2>3 DEF Row, OfMembership
    <3> QED BY <2>1, <2>3, <3>1 DEF Touches
  <2> QED BY <2>2, <2>3
<1>2. CASE ~OfMembership(ev)
  <2>1. \A p \in Pairs : ~Touches(ev, p)
    BY <1>2 DEF Touches
  <2>2. CASE ev.kind \in {"botDeleted", "botRegistered"}
    <3>1. ev.who \in Bots /\ Row(ev) = [rows EXCEPT !.bot[ev.who] = bots'[ev.who]]
      BY <1>2, <2>2, EmittedFields DEF Row, OfMembership
    <3>2. bots'[ev.who] \in Users \cup {None}
      BY <3>1 DEF Owners
    <3>3. /\ Row(ev).bot = [rows.bot EXCEPT ![ev.who] = bots'[ev.who]]
          /\ Row(ev).member = rows.member /\ Row(ev) \in Views
      BY <3>1, <3>2 DEF Views, Owners
    <3>4. \A b \in Bots : Row(ev).bot[b] = IF b = ev.who THEN bots'[b] ELSE rows.bot[b]
      BY <3>1, <3>3 DEF Views, Owners
    <3> QED BY <2>1, <2>2, <3>3, <3>4 DEF OfBot
  <2>3. CASE ev.kind \notin {"botDeleted", "botRegistered"}
    <3>1. Row(ev) = rows
      BY <1>2, <2>3 DEF Row, OfMembership
    <3> QED BY <2>1, <2>3, <3>1 DEF OfBot
  <2> QED BY <2>2, <2>3
<1> QED BY <1>1, <1>2

-----------------------------------------------------------------------------
(* The kinds of steps, and types.                                           *)

\* A request at each of its steps.
Asking ==
  /\ req \in [Slots -> Request]
  /\ \A r \in Slots : req[r].at \in Deleting => req[r].who \in Users \cup Tenants

LEMMA StepShape ==
  ASSUME Typed, [Next]_vars
  PROVE  \/ \E ev \in Emitted : Emit(ev) /\ UNCHANGED <<model, disk, host>>
         \/ Project \/ SaveCheckpoint \/ Drained \/ Rebuild \/ Restart
         \/ UNCHANGED <<log, model, disk, host>>
<1>1. CASE Command
  BY <1>1 DEF Command, Emitted
<1>2. CASE \E r \in Slots : GrantUpdate(r) \/ Sweep(r)
  <2>1. PICK r \in Slots : GrantUpdate(r) \/ Sweep(r)
    BY <1>2
  <2>2. req[r].todo \subseteq Emitted
    BY <2>1 DEF Typed, Request, Emitted
  <2>3. CASE GrantUpdate(r)
    BY <2>2, <2>3 DEF GrantUpdate
  <2>4. CASE Sweep(r)
    BY <2>2, <2>4 DEF Sweep
  <2> QED BY <2>1, <2>3, <2>4
<1>3. CASE \E r \in Slots, e \in Users \cup Tenants : Delete(r, e)
  BY <1>3, TombstoneShape DEF Delete
<1>4. CASE \E r \in Slots : FindMembers(r) \/ FindBots(r) \/ Swept(r)
  BY <1>4 DEF FindMembers, FindBots, Collect, Swept
<1>5. CASE \E r \in Slots, a \in Actors, t \in Tenants, R \in RoleSets : Grant(r, a, t, R)
  BY <1>5 DEF Grant
<1>6. CASE UNCHANGED vars
  BY <1>6 DEF vars
<1> QED BY <1>1, <1>2, <1>3, <1>4, <1>5, <1>6 DEF Next

LEMMA InitTyped == Init => Typed
<1> SUFFICES ASSUME Init PROVE Typed
  OBVIOUS
<1>1. journal = <<>> /\ Len(journal) = 0
  BY DEF Init, InitLog
<1>2. LogTypeOK
  BY <1>1, GrantsAssumption DEF Init, InitLog, LogTypeOK, States, NoBots, NoMembers
<1>3. NoMembers \in Memories /\ NoBots \in Owners
  BY DEF NoMembers, NoBots, Memories, Owners
<1>4. Idle \in Request /\ Idle.at \notin Deleting
  BY DEF Idle, Request, Deleting
<1> QED BY <1>1, <1>2, <1>3, <1>4 DEF Init, Typed, Recorded, Indexes, Views

\* A request that begins, goes on to its next step or ends.
LEMMA AskOn ==
  ASSUME Asking, NEW r \in Slots, NEW q \in Request, req' = [req EXCEPT ![r] = q],
         q.at \in Deleting => q.who \in Users \cup Tenants
  PROVE  Asking'
BY DEF Asking

LEMMA AskedEvents ==
  /\ \A p \in Pairs : Ev("removed", p[1], p[2], {}) \in Asked
  /\ \A b \in Bots : Ev("botDeleted", b, None, {}) \in Asked
  /\ \A a \in Actors, t \in Tenants, R \in RoleSets : Ev("changed", a, t, R) \in Asked
BY DEF Asked, Pairs

LEMMA AskingStep ==
  ASSUME Typed, [Next]_vars PROVE Asking'
<1>0. Asking /\ \A r \in Slots : /\ req[r] \in Request
                                 /\ req[r].at \in {"idle", "update"} \cup Deleting
                                 /\ req[r].who \in Entities \cup {None}
                                 /\ req[r].todo \subseteq Asked /\ req[r].seq \in Nat
  BY DEF Typed, Asking, Request
<1>i. Idle \in Request /\ Idle.at \notin Deleting
  BY DEF Idle, Request, Deleting
<1>1. CASE UNCHANGED req
  BY <1>0, <1>1 DEF Asking
<1>2. ASSUME NEW r \in Slots, GrantUpdate(r) \/ Swept(r) PROVE Asking'
  BY <1>0, <1>i, <1>2, AskOn DEF GrantUpdate, Swept
<1>3. ASSUME NEW r \in Slots, FindMembers(r) PROVE Asking'
  <2>1. PICK evs : evs \subseteq Asked /\ Collect(r, "members", evs)
    BY <1>3, AskedEvents DEF FindMembers
  <2>2. req[r].who \in Users \cup Tenants
    BY <1>0, <1>3 DEF FindMembers, Asking, Deleting
  <2> DEFINE q == [at |-> "members", who |-> req[r].who, todo |-> evs, seq |-> req[r].seq]
  <2>3. q \in Request /\ req' = [req EXCEPT ![r] = q]
    BY <2>1, <1>0 DEF Request, Collect, At, Deleting
  <2> QED BY <2>2, <2>3, <1>0, AskOn
<1>4. ASSUME NEW r \in Slots, FindBots(r) PROVE Asking'
  <2>1. PICK evs : evs \subseteq Asked /\ Collect(r, "bots", evs)
    BY <1>4, AskedEvents DEF FindBots
  <2> DEFINE q == [at |-> "bots", who |-> req[r].who, todo |-> evs, seq |-> req[r].seq]
  <2>2. q \in Request /\ req' = [req EXCEPT ![r] = q] /\ q.who \in Users
    BY <2>1, <1>0, <1>4 DEF Request, Collect, At, Deleting, FindBots
  <2> QED BY <2>2, <1>0, AskOn
<1>5. ASSUME NEW r \in Slots, Sweep(r) PROVE Asking'
  <2>1. PICK ev \in req[r].todo, n \in Nat :
          At(r, req[r].at, req[r].who, req[r].todo \ {ev}, n)
    <3>1. PICK ev \in req[r].todo :
            \/ Emit(ev) /\ At(r, req[r].at, req[r].who, req[r].todo \ {ev}, Len(journal'))
            \/ At(r, req[r].at, req[r].who, req[r].todo \ {ev}, req[r].seq)
      BY <1>5 DEF Sweep
    <3>2. CASE Emit(ev) /\ At(r, req[r].at, req[r].who, req[r].todo \ {ev}, Len(journal'))
      <4>1. ev \in Emitted
        BY <1>0 DEF Emitted
      <4>2. Len(journal') \in Nat
        BY <4>1, <3>2, EmitTyped DEF Typed
      <4> QED BY <4>2, <3>2
    <3> QED BY <3>1, <3>2, <1>0
  <2> DEFINE q == [at |-> req[r].at, who |-> req[r].who, todo |-> req[r].todo \ {ev}, seq |-> n]
  <2>2. q \in Request /\ req' = [req EXCEPT ![r] = q]
    BY <1>0, <2>1 DEF Request, At
  <2>3. q.at \in Deleting => q.who \in Users \cup Tenants
    BY <1>0 DEF Asking
  <2> HIDE DEF q
  <2> QED BY <2>2, <2>3, <1>0, AskOn
<1>6. ASSUME NEW r \in Slots, NEW e \in Users \cup Tenants, Delete(r, e) PROVE Asking'
  <2> DEFINE q == [at |-> "deleted", who |-> e, todo |-> {}, seq |-> Len(journal')]
  <2>1. Len(journal') \in Nat
    BY <1>6, TombstoneShape, EmitTyped DEF Typed, Delete
  <2>2. q \in Request /\ req' = [req EXCEPT ![r] = q] /\ q.who = e
    BY <2>1, <1>6 DEF Delete, At, Request, Deleting, Entities, Actors
  <2> QED BY <2>2, <1>0, AskOn
<1>7. ASSUME NEW r \in Slots, NEW a \in Actors, NEW t \in Tenants, NEW R \in RoleSets,
             Grant(r, a, t, R)
      PROVE  Asking'
  <2> DEFINE q == [at |-> "update", who |-> a, todo |-> {Ev("changed", a, t, R)}, seq |-> 0]
  <2>1. Ev("changed", a, t, R) \in Asked
    BY AskedEvents
  <2>2. q \in Request /\ req' = [req EXCEPT ![r] = q] /\ q.at \notin Deleting
    BY <2>1, <1>7 DEF Grant, At, Request, Deleting, Entities
  <2> QED BY <2>2, <1>0, AskOn
<1>8. CASE Restart
  BY <1>8, <1>i DEF Restart, Asking
<1>9. CASE Project \/ SaveCheckpoint \/ Drained \/ Rebuild \/ Command \/ UNCHANGED vars
  BY <1>9, <1>1 DEF Project, SaveCheckpoint, Drained, Rebuild, Command, vars
<1> QED BY <1>2, <1>3, <1>4, <1>5, <1>6, <1>7, <1>8, <1>9 DEF Next

LEMMA ScannedModels ==
  ASSUME Typed, NEW m \in Memories
  PROVE  [a \in Actors |-> SetToSeq({t \in Tenants : m[<<a, t>>] # None})] \in Indexes
<1>1. ASSUME NEW a \in Actors
      PROVE  SetToSeq({t \in Tenants : m[<<a, t>>] # None}) \in Seq(Tenants)
  <2> DEFINE S == {t \in Tenants : m[<<a, t>>] # None}
  <2>1. S \subseteq Tenants
    OBVIOUS
  <2> HIDE DEF S
  <2>2. SetToSeq(S) \in Seq(Tenants)
    BY <2>1, ScannedIndex
  <2> QED BY <2>2 DEF S
<1> QED BY <1>1 DEF Indexes

LEMMA StepTyped == Typed /\ [Next]_vars => Typed'
<1> SUFFICES ASSUME Typed, [Next]_vars PROVE Typed'
  OBVIOUS
<1>a. Asking'
  BY AskingStep
<1>0. SUFFICES /\ LogTypeOK' /\ Recorded'
               /\ members' \in Memories /\ byActor' \in Indexes /\ bots' \in Owners
               /\ rows' \in Views
               /\ pos' \in 0 .. Len(journal') /\ saved' \in 0 .. pos'
               /\ ~Durable => saved' = 0
  BY <1>a DEF Typed, Asking
<1> USE DEF Typed
<1>1. ASSUME NEW ev \in Emitted, Emit(ev), UNCHANGED <<model, disk, host>>
      PROVE  /\ LogTypeOK' /\ Recorded'
             /\ members' \in Memories /\ byActor' \in Indexes /\ bots' \in Owners
             /\ rows' \in Views
             /\ pos' \in 0 .. Len(journal') /\ saved' \in 0 .. pos'
             /\ ~Durable => saved' = 0
  <2>1. LogTypeOK' /\ Recorded' /\ Len(journal') = Len(journal) + 1
    BY <1>1, EmitTyped DEF LogTypeOK
  <2> QED BY <2>1, <1>1 DEF model, disk
<1>2. CASE Project
  <2>1. journal[pos + 1] \in Emitted /\ pos + 1 \in 1 .. Len(journal)
    BY <1>2 DEF Project, Recorded
  <2>2. Handle(journal[pos + 1]) /\ UNCHANGED <<journal, entity, owner, member, host, saved>>
    BY <1>2 DEF Project, log
  <2>3. members' \in Memories /\ byActor' \in Indexes /\ bots' \in Owners
    BY <2>1, <2>2, HandleMembers, HandleBots, HandleIndex
  <2>4. Row(journal[pos + 1]) \in Views
    BY <2>1, <2>3, RowShape
  <2>5. rows' \in Views /\ pos' \in {pos, pos + 1}
    BY <2>4, <1>2 DEF Project
  <2>6. LogTypeOK' /\ Recorded'
    BY <2>2 DEF LogTypeOK, Recorded
  <2> QED BY <2>1, <2>2, <2>3, <2>5, <2>6
<1>3. CASE SaveCheckpoint \/ Drained
  BY <1>3 DEF SaveCheckpoint, Drained, LogTypeOK, log, model, disk, Recorded
<1>4. CASE Rebuild
  BY <1>4 DEF Rebuild, LogTypeOK, log, Recorded
<1>5. CASE Restart
  <2>1. LogTypeOK' /\ Recorded' /\ UNCHANGED <<journal, rows, saved>>
    BY <1>5 DEF Restart, LogTypeOK, log, disk, Recorded
  <2>2. CASE Durable
    <3>1. rows.member \in Memories /\ rows.bot \in Owners
      BY DEF Views
    <3>2. /\ members' = rows.member /\ bots' = rows.bot /\ pos' = saved
          /\ byActor' = [a \in Actors |-> SetToSeq({t \in Tenants : rows.member[<<a, t>>] # None})]
      BY <1>5, <2>2 DEF Restart
    <3>3. byActor' \in Indexes
      BY <3>1, <3>2, ScannedModels
    <3> QED BY <2>1, <3>1, <3>2, <3>3
  <2>3. CASE ~Durable
    <3>1. NoMembers \in Memories /\ NoBots \in Owners /\ [a \in Actors |-> <<>>] \in Indexes
      BY DEF NoMembers, NoBots, Memories, Owners, Indexes
    <3>2. /\ members' = NoMembers /\ bots' = NoBots /\ pos' = 0
          /\ byActor' = [a \in Actors |-> <<>>]
      BY <1>5, <2>3 DEF Restart
    <3> QED BY <2>1, <2>3, <3>1, <3>2
  <2> QED BY <2>2, <2>3
<1>6. CASE UNCHANGED <<log, model, disk, host>>
  BY <1>6 DEF log, model, disk, LogTypeOK, Recorded
<1> QED BY <1>1, <1>2, <1>3, <1>4, <1>5, <1>6, StepShape

-----------------------------------------------------------------------------
(* What a dispatch does to the folds, and to what the journal says of them. *)

LEMMA EmitMember ==
  ASSUME LogTypeOK, NEW ev \in Emitted, Emit(ev), NEW p \in Pairs
  PROVE  /\ member'[p] = IF Touches(ev, p) THEN FoldMembership(ev) ELSE member[p]
         /\ Touches(ev, p) => /\ FoldMembership(ev) = None <=> ev.kind = "removed"
                              /\ ev.kind = "added" <=> member[p] = None
<1>1. CASE OfMembership(ev)
  <2> DEFINE q == <<ev.who, ev.where>>
  <2>1. q \in Pairs /\ ev.roles # None
    BY <1>1, EmittedFields
  <2>2. member' = [member EXCEPT ![q] = FoldMembership(ev)]
    BY <1>1 DEF Emit, Fold
  <2>3. ev.kind = "added" <=> member[q] = None
    BY <1>1 DEF Emit, Decides, DecidesMembership
  <2>4. member'[p] = IF p = q THEN FoldMembership(ev) ELSE member[p]
    <3> HIDE DEF q
    <3> QED BY <2>1, <2>2 DEF LogTypeOK
  <2>5. FoldMembership(ev) = None <=> ev.kind = "removed"
    BY <2>1 DEF FoldMembership
  <2> QED BY <2>3, <2>4, <2>5, <1>1 DEF Touches
<1>2. CASE ~OfMembership(ev)
  <2>1. member' = member
    BY <1>2 DEF Emit, Fold
  <2> QED BY <2>1, <1>2 DEF Touches
<1> QED BY <1>1, <1>2

\* Entities of one kind do not meet those of another.
LEMMA StreamOfBot ==
  ASSUME NEW ev \in Emitted, NEW b \in Bots
  PROVE  ~OfMembership(ev) /\ Stream(ev) = b <=> OfBot(ev, b)
<1> USE DEF OfMembership, Stream, OfTenant, OfBot, Ev, Entities, Actors
<1>1. CASE ev \in Asked
  BY <1>1, GrantsAssumption DEF Asked
<1>2. CASE ev \in {Tombstone(e) : e \in Users \cup Tenants}
  BY <1>2, GrantsAssumption DEF Tombstone
<1> QED BY <1>1, <1>2 DEF Emitted

LEMMA EmitBot ==
  ASSUME LogTypeOK, NEW ev \in Emitted, Emit(ev), NEW b \in Bots
  PROVE  /\ OfBot(ev, b) => /\ (entity'[b] = "active") <=> (ev.kind = "botRegistered")
                            /\ ev.kind = "botRegistered" => owner'[b] = ev.where
         /\ ~OfBot(ev, b) => entity'[b] = entity[b] /\ owner'[b] = owner[b]
         /\ OfBot(ev, b) => ((entity[b] = "active") <=> (ev.kind = "botDeleted"))
<1>b. b \in Entities
  BY DEF Entities, Actors
<1>1. CASE OfMembership(ev)
  <2>1. entity' = entity /\ owner' = owner
    BY <1>1 DEF Emit, Fold
  <2> QED BY <1>1, <2>1 DEF OfMembership, OfBot
<1>2. CASE ~OfMembership(ev)
  <2>1. /\ entity' = [entity EXCEPT ![Stream(ev)] = FoldState(ev.kind)]
        /\ owner' = IF ev.kind = "botRegistered" THEN [owner EXCEPT ![ev.who] = ev.where] ELSE owner
    BY <1>2 DEF Emit, Fold
  <2>2. Stream(ev) = b <=> OfBot(ev, b)
    BY <1>2, StreamOfBot
  <2>3. entity'[b] = IF OfBot(ev, b) THEN FoldState(ev.kind) ELSE entity[b]
    BY <2>1, <2>2, <1>b DEF LogTypeOK
  <2>4. ev.kind = "botRegistered" => ev.who \in Bots /\ (ev.who = b <=> OfBot(ev, b))
    BY EmittedFields DEF OfBot
  <2>5. owner'[b] = IF ev.kind = "botRegistered" /\ OfBot(ev, b) THEN ev.where ELSE owner[b]
    BY <2>1, <2>4 DEF LogTypeOK
  <2>6. OfBot(ev, b) => (FoldState(ev.kind) = "active" <=> ev.kind = "botRegistered")
    BY DEF OfBot, FoldState
  <2>7. OfBot(ev, b) => ((entity[b] = "active") <=> (ev.kind = "botDeleted"))
    BY <1>2, <2>2 DEF OfBot, Emit, Decides, DecidesBot, OfTenant
  <2> QED BY <2>3, <2>5, <2>6, <2>7
<1> QED BY <1>1, <1>2

\* With one more event, what is still to come is what was, or that event.
LEMMA OneMoreToCome ==
  ASSUME LogTypeOK, Recorded, NEW ev \in Emitted, Emit(ev), NEW i \in 0 .. Len(journal)
  PROVE  /\ \A p : NoneTouches(i, p)' <=> NoneTouches(i, p) /\ ~Touches(ev, p)
         /\ \A p : NoneSettles(i, p)' <=> NoneSettles(i, p) /\ ~Settles(ev, p)
         /\ \A b : NoneOfBot(i, b)' <=> NoneOfBot(i, b) /\ ~OfBot(ev, b)
<1>1. /\ Len(journal') = Len(journal) + 1 /\ journal'[Len(journal) + 1] = ev
      /\ \A j \in 1 .. Len(journal) : journal'[j] = journal[j]
  BY EmitTyped
<1>2. Len(journal) \in Nat
  BY DEF LogTypeOK
<1>3. i + 1 .. Len(journal') = (i + 1 .. Len(journal)) \cup {Len(journal) + 1}
  BY <1>1, <1>2
<1>4. \A j \in i + 1 .. Len(journal) : journal'[j] = journal[j]
  BY <1>1, <1>2
<1>5. ASSUME NEW p PROVE NoneTouches(i, p)' <=> NoneTouches(i, p) /\ ~Touches(ev, p)
  BY <1>1, <1>3, <1>4 DEF NoneTouches
<1>6. ASSUME NEW p PROVE NoneSettles(i, p)' <=> NoneSettles(i, p) /\ ~Settles(ev, p)
  BY <1>1, <1>3, <1>4 DEF NoneSettles
<1>7. ASSUME NEW b PROVE NoneOfBot(i, b)' <=> NoneOfBot(i, b) /\ ~OfBot(ev, b)
  BY <1>1, <1>3, <1>4 DEF NoneOfBot
<1> QED BY <1>5, <1>6, <1>7

\* The journal and the folds.
Logged == LastWords /\ Grounded

LEMMA LastWordsStep ==
  ASSUME Typed, Logged, NEW ev \in Emitted, Emit(ev)
  PROVE  LastWords'
<1> DEFINE n == Len(journal) + 1
<1>t. LogTypeOK /\ Recorded /\ Len(journal) \in Nat
  BY DEF Typed, LogTypeOK
<1>j. /\ Len(journal') = n /\ journal'[n] = ev
      /\ \A j \in 1 .. Len(journal) : journal'[j] = journal[j] /\ j \in 0 .. Len(journal)
  BY <1>t, EmitTyped
<1>1. ASSUME NEW p \in Pairs, NEW i \in 1 .. n
      PROVE  /\ (Touches(journal'[i], p) /\ NoneTouches(i, p)')
                  => member'[p] = FoldMembership(journal'[i])
             /\ (Settles(journal'[i], p) /\ NoneSettles(i, p)')
                  => ((journal'[i].kind = "added") <=> (member'[p] # None))
  <2>m. /\ member'[p] = IF Touches(ev, p) THEN FoldMembership(ev) ELSE member[p]
        /\ Touches(ev, p) => /\ FoldMembership(ev) = None <=> ev.kind = "removed"
                             /\ ev.kind = "added" <=> member[p] = None
    BY <1>t, EmitMember
  <2>1. CASE i = n
    <3>1. journal'[i] = ev
      BY <2>1, <1>j
    <3>2. Settles(ev, p) => ev.kind \in {"added", "removed"} /\ Touches(ev, p)
      BY DEF Settles, Touches, OfMembership
    <3> QED BY <3>1, <3>2, <2>m
  <2>2. CASE i # n
    <3>1. i \in 1 .. Len(journal) /\ i \in 0 .. Len(journal) /\ journal'[i] = journal[i]
      BY <2>2, <1>j, <1>t
    <3>2. ASSUME Touches(journal'[i], p), NoneTouches(i, p)'
          PROVE  member'[p] = FoldMembership(journal'[i])
      <4>1. NoneTouches(i, p) /\ ~Touches(ev, p)
        BY <3>1, <3>2, <1>t, OneMoreToCome
      <4> QED BY <4>1, <3>1, <3>2, <2>m DEF Logged, LastWords
    <3>3. ASSUME Settles(journal'[i], p), NoneSettles(i, p)'
          PROVE  (journal'[i].kind = "added") <=> (member'[p] # None)
      <4>1. NoneSettles(i, p) /\ ~Settles(ev, p)
        BY <3>1, <3>3, <1>t, OneMoreToCome
      <4>2. (journal[i].kind = "added") <=> (member[p] # None)
        BY <4>1, <3>1, <3>3 DEF Logged, LastWords
      <4>3. CASE Touches(ev, p)
        <5>1. ev.kind = "changed"
          BY <4>1, <4>3 DEF Settles
        <5> QED BY <5>1, <4>2, <4>3, <3>1, <2>m
      <4>4. CASE ~Touches(ev, p)
        BY <4>2, <4>4, <3>1, <2>m
      <4> QED BY <4>3, <4>4
    <3> QED BY <3>2, <3>3
  <2> QED BY <2>1, <2>2
<1>2. ASSUME NEW b \in Bots, NEW i \in 1 .. n, OfBot(journal'[i], b), NoneOfBot(i, b)'
      PROVE  BotNow(b)' = IF journal'[i].kind = "botRegistered" THEN journal'[i].where ELSE None
  <2>b. /\ OfBot(ev, b) => /\ (entity'[b] = "active") <=> (ev.kind = "botRegistered")
                           /\ ev.kind = "botRegistered" => owner'[b] = ev.where
        /\ ~OfBot(ev, b) => entity'[b] = entity[b] /\ owner'[b] = owner[b]
    BY <1>t, EmitBot
  <2>1. CASE i = n
    BY <2>1, <2>b, <1>2, <1>j DEF BotNow
  <2>2. CASE i # n
    <3>1. i \in 1 .. Len(journal) /\ i \in 0 .. Len(journal) /\ journal'[i] = journal[i]
      BY <2>2, <1>j, <1>t
    <3>2. NoneOfBot(i, b) /\ ~OfBot(ev, b)
      BY <3>1, <1>2, <1>t, OneMoreToCome
    <3>3. BotNow(b) = IF journal[i].kind = "botRegistered" THEN journal[i].where ELSE None
      BY <3>1, <3>2, <1>2 DEF Logged, LastWords
    <3> QED BY <3>1, <3>2, <3>3, <2>b DEF BotNow
  <2> QED BY <2>1, <2>2
<1> QED BY <1>1, <1>2, <1>j DEF LastWords

LEMMA GroundedStep ==
  ASSUME Typed, Logged, NEW ev \in Emitted, Emit(ev)
  PROVE  Grounded'
<1> DEFINE n == Len(journal) + 1
<1>t. LogTypeOK /\ Recorded /\ Len(journal) \in Nat
  BY DEF Typed, LogTypeOK
<1>j. /\ Len(journal') = n /\ journal'[n] = ev /\ n \in 1 .. n
      /\ \A j \in 1 .. Len(journal) : /\ journal'[j] = journal[j]
                                      /\ j \in 0 .. Len(journal) /\ j \in 1 .. n
  BY <1>t, EmitTyped
<1>k. PICK k \in 1 .. n : k = n
  BY <1>j
<1>e. \A x : NoneSettles(k, x)' /\ NoneOfBot(k, x)'
  BY <1>j, <1>k, <1>t DEF NoneSettles, NoneOfBot
<1>1. ASSUME NEW p \in Pairs, member'[p] # None
      PROVE  \E i \in 1 .. n : /\ Settles(journal'[i], p) /\ journal'[i].kind = "added"
                               /\ NoneSettles(i, p)'
  <2>m. /\ member'[p] = IF Touches(ev, p) THEN FoldMembership(ev) ELSE member[p]
        /\ Touches(ev, p) => /\ FoldMembership(ev) = None <=> ev.kind = "removed"
                             /\ ev.kind = "added" <=> member[p] = None
    BY <1>t, EmitMember
  <2>1. CASE Settles(ev, p)
    <3>1. ev.kind = "added"
      BY <2>1, <2>m, <1>1 DEF Settles, Touches, OfMembership
    <3> QED BY <3>1, <2>1, <1>j, <1>k, <1>e
  <2>2. CASE ~Settles(ev, p)
    <3>1. member[p] # None
      BY <2>2, <2>m, <1>1 DEF Settles
    <3>2. PICK i \in 1 .. Len(journal) : /\ Settles(journal[i], p) /\ journal[i].kind = "added"
                                         /\ NoneSettles(i, p)
      BY <3>1 DEF Logged, Grounded
    <3>3. i \in 0 .. Len(journal) /\ i \in 1 .. n /\ journal'[i] = journal[i]
      BY <1>j
    <3>4. NoneSettles(i, p)'
      BY <3>2, <3>3, <2>2, <1>t, OneMoreToCome
    <3> QED BY <3>2, <3>3, <3>4
  <2> QED BY <2>1, <2>2
<1>2. ASSUME NEW b \in Bots, entity'[b] = "active"
      PROVE  \E i \in 1 .. n : /\ OfBot(journal'[i], b) /\ journal'[i].kind = "botRegistered"
                               /\ NoneOfBot(i, b)'
  <2>b. /\ OfBot(ev, b) => (entity'[b] = "active" <=> ev.kind = "botRegistered")
        /\ ~OfBot(ev, b) => entity'[b] = entity[b]
    BY <1>t, EmitBot
  <2>1. CASE OfBot(ev, b)
    BY <2>1, <2>b, <1>2, <1>j, <1>k, <1>e
  <2>2. CASE ~OfBot(ev, b)
    <3>1. PICK i \in 1 .. Len(journal) : /\ OfBot(journal[i], b)
                                         /\ journal[i].kind = "botRegistered"
                                         /\ NoneOfBot(i, b)
      BY <2>2, <2>b, <1>2 DEF Logged, Grounded
    <3>2. i \in 0 .. Len(journal) /\ i \in 1 .. n /\ journal'[i] = journal[i]
      BY <1>j
    <3>3. NoneOfBot(i, b)'
      BY <3>1, <3>2, <2>2, <1>t, OneMoreToCome
    <3> QED BY <3>1, <3>2, <3>3
  <2> QED BY <2>1, <2>2
<1> QED BY <1>1, <1>2, <1>j DEF Grounded

LEMMA LoggedSame ==
  ASSUME Logged, UNCHANGED log PROVE Logged'
BY DEF Logged, LastWords, Grounded, BotNow, NoneTouches, NoneSettles, NoneOfBot, log

LEMMA InitLogged == Init => Logged
<1> SUFFICES ASSUME Init PROVE Logged
  OBVIOUS
<1>1. journal = <<>> /\ 1 .. Len(journal) = {}
  BY DEF Init, InitLog
<1>2. (\A p \in Pairs : member[p] = None) /\ \A b \in Bots : entity[b] # "active"
  BY DEF Init, InitLog, NoMembers, Entities, Actors
<1> QED BY <1>1, <1>2 DEF Logged, LastWords, Grounded

LEMMA StepLogged == Typed /\ Logged /\ [Next]_vars => Logged'
<1> SUFFICES ASSUME Typed, Logged, [Next]_vars PROVE Logged'
  OBVIOUS
<1>1. ASSUME NEW ev \in Emitted, Emit(ev) PROVE Logged'
  BY <1>1, LastWordsStep, GroundedStep DEF Logged
<1>2. CASE UNCHANGED log
  BY <1>2, LoggedSame
<1>3. (\E ev \in Emitted : Emit(ev)) \/ UNCHANGED log
  BY StepShape DEF Project, SaveCheckpoint, Drained, Rebuild, Restart
<1> QED BY <1>1, <1>2, <1>3

-----------------------------------------------------------------------------
(* The read models follow the folds.                                        *)

\* What is still to come at a position and at the next.
LEMMA OneApplied ==
  ASSUME Typed, pos < Len(journal)
  PROVE  /\ \A p : NoneTouches(pos, p) <=> ~Touches(journal[pos + 1], p) /\ NoneTouches(pos + 1, p)
         /\ \A p : NoneSettles(pos, p) <=> ~Settles(journal[pos + 1], p) /\ NoneSettles(pos + 1, p)
         /\ \A b : NoneOfBot(pos, b) <=> ~OfBot(journal[pos + 1], b) /\ NoneOfBot(pos + 1, b)
<1>1. pos + 1 .. Len(journal) = {pos + 1} \cup (pos + 1 + 1 .. Len(journal))
  BY DEF Typed
<1> QED BY <1>1 DEF NoneTouches, NoneSettles, NoneOfBot

LEMMA FromEarlier ==
  ASSUME Typed, NEW q \in 0 .. pos
  PROVE  /\ \A p : NoneTouches(q, p) => NoneTouches(pos, p)
         /\ \A p : NoneSettles(q, p) => NoneSettles(pos, p)
         /\ \A b : NoneOfBot(q, b) => NoneOfBot(pos, b)
<1>1. (pos + 1 .. Len(journal)) \subseteq (q + 1 .. Len(journal))
  BY DEF Typed
<1> QED BY <1>1 DEF NoneTouches, NoneSettles, NoneOfBot

\* An entry x of a membership p follows its fold, from position q.
EntryFollows(q, p, x) ==
  /\ NoneSettles(q, p) => (x = None <=> member[p] = None)
  /\ NoneTouches(q, p) => x = member[p]

BotFollows(q, b, x) == NoneOfBot(q, b) => x = BotNow(b)

\* The model applies the next event: its entry m becomes x, and the row y
\* becomes z, or is not written.
LEMMA ApplyMember ==
  ASSUME Typed, Logged, pos < Len(journal), NEW p \in Pairs, NEW m, NEW x, NEW y, NEW z,
         EntryFollows(pos, p, m), Durable => EntryFollows(pos, p, y),
         x = IF Touches(journal[pos + 1], p) THEN Next1(journal[pos + 1], m) ELSE m,
         z = IF Touches(journal[pos + 1], p) /\ (journal[pos + 1].kind = "removed" \/ x # None)
             THEN x ELSE y
  PROVE  /\ EntryFollows(pos + 1, p, x) /\ EntryFollows(pos, p, x)
         /\ Durable => EntryFollows(pos + 1, p, z)
<1> DEFINE ev == journal[pos + 1]
<1>0. pos + 1 \in 1 .. Len(journal) /\ ev \in Emitted
  BY DEF Typed, Recorded
<1>1. /\ NoneTouches(pos, p) <=> ~Touches(ev, p) /\ NoneTouches(pos + 1, p)
      /\ NoneSettles(pos, p) <=> ~Settles(ev, p) /\ NoneSettles(pos + 1, p)
  BY OneApplied
<1>2. /\ Touches(ev, p) /\ NoneTouches(pos + 1, p) => member[p] = FoldMembership(ev)
      /\ Settles(ev, p) /\ NoneSettles(pos + 1, p) =>
           ((ev.kind = "added") <=> (member[p] # None))
  BY <1>0 DEF Logged, LastWords
<1>3. NoneTouches(pos + 1, p) => NoneSettles(pos + 1, p)
  BY DEF NoneTouches, NoneSettles, Settles
<1>4. CASE ~Touches(ev, p)
  BY <1>1, <1>4 DEF EntryFollows, Settles
<1>5. CASE Touches(ev, p)
  <2>1. ev.roles # None /\ ev.kind \in {"added", "changed", "removed"}
    BY <1>0, <1>5, EmittedFields DEF Touches, OfMembership
  <2>2. Settles(ev, p) <=> ev.kind # "changed"
    BY <1>5 DEF Settles
  <2> HIDE DEF ev
  <2>3. x = Next1(ev, m) /\ (z = IF ev.kind = "removed" \/ x # None THEN x ELSE y)
    BY <1>5 DEF ev
  <2>4. CASE ev.kind = "added"
    BY <2>4, <2>1, <2>2, <2>3, <1>1, <1>2, <1>3, <1>5 DEF EntryFollows, Next1, FoldMembership
  <2>5. CASE ev.kind = "removed"
    BY <2>5, <2>1, <2>2, <2>3, <1>1, <1>2, <1>3, <1>5 DEF EntryFollows, Next1, FoldMembership
  <2>6. CASE ev.kind = "changed"
    BY <2>6, <2>1, <2>2, <2>3, <1>1, <1>2, <1>3, <1>5 DEF EntryFollows, Next1, FoldMembership
  <2> QED BY <2>1, <2>4, <2>5, <2>6
<1> QED BY <1>4, <1>5

LEMMA ApplyBot ==
  ASSUME Typed, Logged, pos < Len(journal), NEW b \in Bots, NEW m, NEW x,
         BotFollows(pos, b, m),
         x = IF OfBot(journal[pos + 1], b)
             THEN IF journal[pos + 1].kind = "botRegistered" THEN journal[pos + 1].where ELSE None
             ELSE m
  PROVE  BotFollows(pos + 1, b, x) /\ BotFollows(pos, b, x)
<1>0. pos + 1 \in 1 .. Len(journal)
  BY DEF Typed
<1>1. NoneOfBot(pos, b) <=> ~OfBot(journal[pos + 1], b) /\ NoneOfBot(pos + 1, b)
  BY OneApplied
<1> QED BY <1>0, <1>1 DEF Logged, LastWords, BotFollows

LEMMA FollowingProject ==
  ASSUME Typed, Logged, Following, Project PROVE Following'
<1> DEFINE ev == journal[pos + 1]
<1>0. /\ pos < Len(journal) /\ ev \in Emitted /\ Handle(ev)
      /\ UNCHANGED <<journal, member, entity, owner>>
  BY DEF Project, Typed, Recorded, log
<1>m. /\ members' \in Memories /\ bots' \in Owners
      /\ \A p \in Pairs : members'[p] = IF Touches(ev, p) THEN Next1(ev, members[p]) ELSE members[p]
      /\ \A b \in Bots : bots'[b] = IF OfBot(ev, b)
                                    THEN IF ev.kind = "botRegistered" THEN ev.where ELSE None
                                    ELSE bots[b]
  BY <1>0, HandleMembers, HandleBots DEF Typed
<1>r. /\ \A p \in Pairs :
           Row(ev).member[p] = IF Touches(ev, p) /\ (ev.kind = "removed" \/ members'[p] # None)
                               THEN members'[p] ELSE rows.member[p]
      /\ \A b \in Bots : Row(ev).bot[b] = IF OfBot(ev, b) THEN bots'[b] ELSE rows.bot[b]
  BY <1>0, <1>m, RowShape DEF Typed
<1>1. Indexed'
  BY <1>0, HandleIndex DEF Typed, Following
<1>2. ASSUME NEW p \in Pairs
      PROVE  /\ EntryFollows(pos + 1, p, members'[p]) /\ EntryFollows(pos, p, members'[p])
             /\ Durable => EntryFollows(pos + 1, p, Row(ev).member[p])
  <2>1. EntryFollows(pos, p, members[p]) /\ (Durable => EntryFollows(pos, p, rows.member[p]))
    BY DEF Following, MembersFollow, EntryFollows
  <2>2. members'[p] = IF Touches(ev, p) THEN Next1(ev, members[p]) ELSE members[p]
    BY <1>m
  <2>3. Row(ev).member[p] = IF Touches(ev, p) /\ (ev.kind = "removed" \/ members'[p] # None)
                            THEN members'[p] ELSE rows.member[p]
    BY <1>r
  <2> QED BY <1>0, <2>1, <2>2, <2>3, ApplyMember
<1>3. ASSUME NEW b \in Bots
      PROVE  /\ BotFollows(pos + 1, b, bots'[b]) /\ BotFollows(pos, b, bots'[b])
             /\ Durable => BotFollows(pos + 1, b, Row(ev).bot[b])
  <2>1. BotFollows(pos, b, bots[b]) /\ (Durable => BotFollows(pos, b, rows.bot[b]))
    BY DEF Following, BotsFollow, BotFollows
  <2>2. bots'[b] = IF OfBot(ev, b) THEN IF ev.kind = "botRegistered" THEN ev.where ELSE None
                   ELSE bots[b]
    BY <1>m
  <2>3. BotFollows(pos + 1, b, bots'[b]) /\ BotFollows(pos, b, bots'[b])
    BY <1>0, <2>1, <2>2, ApplyBot
  <2>4. Row(ev).bot[b] = IF OfBot(ev, b) THEN bots'[b] ELSE rows.bot[b]
    BY <1>r
  <2>5. NoneOfBot(pos, b) <=> ~OfBot(ev, b) /\ NoneOfBot(pos + 1, b)
    BY <1>0, OneApplied
  <2> HIDE DEF ev
  <2> QED BY <2>1, <2>3, <2>4, <2>5 DEF BotFollows
<1>4. CASE pos' = pos + 1 /\ rows' = IF Durable THEN Row(ev) ELSE rows
  <2>1. MembersFollow(members)' /\ BotsFollow(bots)'
    BY <1>0, <1>2, <1>3, <1>4
    DEF MembersFollow, BotsFollow, EntryFollows, BotFollows, NoneSettles, NoneTouches, NoneOfBot, BotNow
  <2>2. ASSUME Durable PROVE MembersFollow(rows.member)' /\ BotsFollow(rows.bot)'
    <3>1. rows' = Row(ev)
      BY <1>4, <2>2
    <3> HIDE DEF ev
    <3> QED BY <3>1, <1>0, <1>2, <1>3, <1>4, <2>2
        DEF MembersFollow, BotsFollow, EntryFollows, BotFollows, NoneSettles, NoneTouches, NoneOfBot, BotNow
  <2> QED BY <1>1, <2>1, <2>2 DEF Following
<1>5. CASE UNCHANGED <<rows, pos>>
  <2>1. MembersFollow(members)' /\ BotsFollow(bots)'
    BY <1>0, <1>2, <1>3, <1>5
    DEF MembersFollow, BotsFollow, EntryFollows, BotFollows, NoneSettles, NoneTouches, NoneOfBot, BotNow
  <2>2. (MembersFollow(rows.member) => MembersFollow(rows.member)') /\
        (BotsFollow(rows.bot) => BotsFollow(rows.bot)')
    BY <1>0, <1>5 DEF MembersFollow, BotsFollow, NoneSettles, NoneTouches, NoneOfBot, BotNow
  <2> QED BY <1>1, <2>1, <2>2 DEF Following
<1> QED BY <1>4, <1>5 DEF Project

\* A dispatch leaves the models where they are, further behind.
LEMMA EntryBehind ==
  ASSUME Typed, NEW ev \in Emitted, Emit(ev), NEW i \in 0 .. Len(journal),
         NEW p \in Pairs, NEW x, EntryFollows(i, p, x)
  PROVE  EntryFollows(i, p, x)'
<1>t. LogTypeOK /\ Recorded
  BY DEF Typed
<1>1. /\ NoneTouches(i, p)' <=> NoneTouches(i, p) /\ ~Touches(ev, p)
      /\ NoneSettles(i, p)' <=> NoneSettles(i, p) /\ ~Settles(ev, p)
  BY <1>t, OneMoreToCome
<1>2. /\ member'[p] = IF Touches(ev, p) THEN FoldMembership(ev) ELSE member[p]
      /\ Touches(ev, p) => /\ FoldMembership(ev) = None <=> ev.kind = "removed"
                           /\ ev.kind = "added" <=> member[p] = None
  BY <1>t, EmitMember
<1>3. Touches(ev, p) /\ ~Settles(ev, p) => ev.kind = "changed"
  BY DEF Settles
<1>4. ~Touches(ev, p) => ~Settles(ev, p)
  BY DEF Settles
<1> QED BY <1>1, <1>2, <1>3, <1>4 DEF EntryFollows

LEMMA BotBehind ==
  ASSUME Typed, NEW ev \in Emitted, Emit(ev), NEW i \in 0 .. Len(journal),
         NEW b \in Bots, NEW x, BotFollows(i, b, x)
  PROVE  BotFollows(i, b, x)'
<1>t. LogTypeOK /\ Recorded
  BY DEF Typed
<1>1. NoneOfBot(i, b)' <=> NoneOfBot(i, b) /\ ~OfBot(ev, b)
  BY <1>t, OneMoreToCome
<1>2. ~OfBot(ev, b) => entity'[b] = entity[b] /\ owner'[b] = owner[b]
  BY <1>t, EmitBot
<1> QED BY <1>1, <1>2 DEF BotFollows, BotNow

LEMMA FollowingEmit ==
  ASSUME Typed, Following, NEW ev \in Emitted, Emit(ev), UNCHANGED <<model, disk>>
  PROVE  Following'
<1>i. PICK i \in 0 .. Len(journal) : i = pos
  BY DEF Typed
<1>m. PICK m, r, b, rb : m = members /\ r = rows.member /\ b = bots /\ rb = rows.bot
  OBVIOUS
<1>1. i = pos /\ m = members /\ r = rows.member /\ b = bots /\ rb = rows.bot
  BY <1>i, <1>m
<1>2. pos' = i /\ members' = m /\ rows'.member = r /\ bots' = b /\ rows'.bot = rb /\ byActor' = byActor
  BY <1>1 DEF model, disk
<1>3. ASSUME NEW p \in Pairs
      PROVE  /\ EntryFollows(i, p, m[p])'
             /\ Durable => EntryFollows(i, p, r[p])'
  <2>1. EntryFollows(i, p, m[p]) /\ (Durable => EntryFollows(i, p, r[p]))
    BY <1>1 DEF Following, MembersFollow, EntryFollows
  <2> QED BY <2>1, EntryBehind
<1>4. ASSUME NEW c \in Bots
      PROVE  /\ BotFollows(i, c, b[c])'
             /\ Durable => BotFollows(i, c, rb[c])'
  <2>1. BotFollows(i, c, b[c]) /\ (Durable => BotFollows(i, c, rb[c]))
    BY <1>1 DEF Following, BotsFollow, BotFollows
  <2> QED BY <2>1, BotBehind
<1>5. Indexed'
  BY <1>1, <1>2 DEF Following, Indexed
<1>6. MembersFollow(members)' /\ BotsFollow(bots)'
  BY <1>2, <1>3, <1>4
  DEF MembersFollow, BotsFollow, EntryFollows, BotFollows, NoneSettles, NoneTouches, NoneOfBot
<1>7. Durable => MembersFollow(rows.member)' /\ BotsFollow(rows.bot)'
  BY <1>2, <1>3, <1>4
  DEF MembersFollow, BotsFollow, EntryFollows, BotFollows, NoneSettles, NoneTouches, NoneOfBot
<1> QED BY <1>5, <1>6, <1>7 DEF Following

\* Going back over the journal asks less of a model (RebuildProjection, Hydrate).
LEMMA FollowingBack ==
  ASSUME Typed, NEW q \in 0 .. pos
  PROVE  /\ \A m : MembersFollow(m) =>
              \A p \in Pairs : /\ NoneSettles(q, p) => (m[p] = None <=> member[p] = None)
                               /\ NoneTouches(q, p) => m[p] = member[p]
         /\ \A m : BotsFollow(m) => \A b \in Bots : NoneOfBot(q, b) => m[b] = BotNow(b)
BY FromEarlier DEF MembersFollow, BotsFollow

\* A model that is empty follows from the start of the journal.
LEMMA EmptyFollows ==
  ASSUME Typed, Logged
  PROVE  /\ \A p \in Pairs : NoneSettles(0, p) \/ NoneTouches(0, p) => member[p] = None
         /\ \A b \in Bots : NoneOfBot(0, b) => BotNow(b) = None
<1>1. \A i \in 1 .. Len(journal) : i \in 0 + 1 .. Len(journal)
  OBVIOUS
<1>2. \A p : NoneTouches(0, p) => NoneSettles(0, p)
  BY DEF NoneTouches, NoneSettles, Settles
<1> QED BY <1>1, <1>2 DEF Logged, Grounded, NoneSettles, NoneOfBot, BotNow

LEMMA FollowingRebuild ==
  ASSUME Typed, Following, Rebuild PROVE Following'
<1>1. /\ UNCHANGED <<journal, member, entity, owner, members, byActor, bots, rows>>
      /\ pos' \in 0 .. pos
  BY DEF Rebuild, log, Typed
<1>2. PICK q \in 0 .. pos : pos' = q
  BY <1>1
<1>3. /\ \A m : MembersFollow(m) =>
           \A p \in Pairs : /\ NoneSettles(q, p) => (m[p] = None <=> member[p] = None)
                            /\ NoneTouches(q, p) => m[p] = member[p]
      /\ \A m : BotsFollow(m) => \A b \in Bots : NoneOfBot(q, b) => m[b] = BotNow(b)
  BY FollowingBack
<1>4. MembersFollow(members)' /\ BotsFollow(bots)'
  BY <1>1, <1>2, <1>3
  DEF Following, MembersFollow, BotsFollow, NoneSettles, NoneTouches, NoneOfBot, BotNow
<1>5. Durable => MembersFollow(rows.member)' /\ BotsFollow(rows.bot)'
  BY <1>1, <1>2, <1>3
  DEF Following, MembersFollow, BotsFollow, NoneSettles, NoneTouches, NoneOfBot, BotNow
<1>6. Indexed'
  BY <1>1 DEF Following, Indexed
<1> QED BY <1>4, <1>5, <1>6 DEF Following

\* The index of a hydrated model.
LEMMA HydratedIndex ==
  ASSUME NEW m, NEW a \in Actors
  PROVE  LET s == SetToSeq({t \in Tenants : m[<<a, t>>] # None})
         IN  /\ IsInjective(s)
             /\ \A t \in Tenants : Contains(s, t) <=> m[<<a, t>>] # None
<1> DEFINE S == {t \in Tenants : m[<<a, t>>] # None}
<1>1. S \subseteq Tenants /\ \A t \in Tenants : t \in S <=> m[<<a, t>>] # None
  OBVIOUS
<1> HIDE DEF S
<1>2. IsInjective(SetToSeq(S)) /\ \A x : Contains(SetToSeq(S), x) <=> x \in S
  BY <1>1, ScannedIndex
<1> QED BY <1>1, <1>2 DEF S

LEMMA FollowingRestart ==
  ASSUME Typed, Logged, Following, Restart PROVE Following'
<1>0. UNCHANGED <<journal, member, entity, owner, rows>>
  BY DEF Restart, log, disk
<1>1. CASE Durable
  <2>1. PICK q \in 0 .. pos : q = saved
    BY DEF Typed
  <2>2. /\ members' = rows.member /\ bots' = rows.bot /\ pos' = q
        /\ byActor' = [a \in Actors |-> SetToSeq({t \in Tenants : rows.member[<<a, t>>] # None})]
    BY <1>1, <2>1 DEF Restart
  <2>3. /\ \A p \in Pairs : /\ NoneSettles(q, p) => (rows.member[p] = None <=> member[p] = None)
                            /\ NoneTouches(q, p) => rows.member[p] = member[p]
        /\ \A b \in Bots : NoneOfBot(q, b) => rows.bot[b] = BotNow(b)
    BY <1>1, FollowingBack DEF Following
  <2>4. MembersFollow(members)' /\ BotsFollow(bots)'
    BY <1>0, <2>2, <2>3
    DEF MembersFollow, BotsFollow, NoneSettles, NoneTouches, NoneOfBot, BotNow
  <2>5. MembersFollow(rows.member)' /\ BotsFollow(rows.bot)'
    BY <1>0, <2>2, <2>3
    DEF MembersFollow, BotsFollow, NoneSettles, NoneTouches, NoneOfBot, BotNow
  <2>6. Indexed'
    <3>1. ASSUME NEW a \in Actors
          PROVE  /\ IsInjective(byActor'[a])
                 /\ \A t \in Tenants : Contains(byActor'[a], t) <=> rows.member[<<a, t>>] # None
      <4>1. byActor'[a] = SetToSeq({t \in Tenants : rows.member[<<a, t>>] # None})
        BY <2>2
      <4> QED BY <4>1, HydratedIndex
    <3> QED BY <3>1, <2>2 DEF Indexed
  <2> QED BY <2>4, <2>5, <2>6 DEF Following
<1>2. CASE ~Durable
  <2>1. /\ members' = NoMembers /\ bots' = NoBots /\ pos' = 0
        /\ byActor' = [a \in Actors |-> <<>>]
    BY <1>2 DEF Restart
  <2>2. MembersFollow(members)'
    BY <1>0, <2>1, EmptyFollows DEF MembersFollow, NoMembers, NoneSettles, NoneTouches
  <2>3. BotsFollow(bots)'
    BY <1>0, <2>1, EmptyFollows DEF BotsFollow, NoBots, NoneOfBot, BotNow
  <2>4. Indexed'
    BY <2>1 DEF Indexed, NoMembers, Contains, IsInjective, Pairs
  <2> QED BY <1>2, <2>2, <2>3, <2>4 DEF Following
<1> QED BY <1>1, <1>2

LEMMA InitFollowing == Init => Following
<1> SUFFICES ASSUME Init PROVE Following
  OBVIOUS
<1>1. /\ members = NoMembers /\ member = NoMembers /\ bots = NoBots /\ byActor = [a \in Actors |-> <<>>]
      /\ rows.member = NoMembers /\ rows.bot = NoBots
  BY DEF Init, InitLog
<1>2. \A b \in Bots : BotNow(b) = None
  BY DEF Init, InitLog, BotNow, Entities, Actors
<1>3. Indexed
  BY <1>1 DEF Indexed, NoMembers, Contains, IsInjective, Pairs
<1> QED BY <1>1, <1>2, <1>3 DEF Following, MembersFollow, BotsFollow, NoBots

LEMMA StepFollowing == Typed /\ Logged /\ Following /\ [Next]_vars => Following'
<1> SUFFICES ASSUME Typed, Logged, Following, [Next]_vars PROVE Following'
  OBVIOUS
<1>1. ASSUME NEW ev \in Emitted, Emit(ev), UNCHANGED <<model, disk, host>> PROVE Following'
  BY <1>1, FollowingEmit
<1>2. CASE UNCHANGED <<log, model, rows>>
  BY <1>2 DEF Following, MembersFollow, BotsFollow, Indexed, NoneSettles, NoneTouches, NoneOfBot,
              BotNow, log, model
<1>3. CASE SaveCheckpoint \/ Drained \/ UNCHANGED <<log, model, disk, host>>
  BY <1>2, <1>3 DEF SaveCheckpoint, Drained, disk
<1> QED BY <1>1, <1>3, FollowingProject, FollowingRebuild, FollowingRestart, StepShape

-----------------------------------------------------------------------------
(* The theorem about the read models.                                       *)

LEMMA CaughtUp ==
  ASSUME Typed, Following PROVE ModelAgrees
<1> SUFFICES ASSUME pos = Len(journal)
             PROVE  /\ members = member
                    /\ bots = [b \in Bots |-> IF entity[b] = "active" THEN owner[b] ELSE None]
                    /\ Durable => rows = [member |-> members, bot |-> bots]
                    /\ \A a \in Actors :
                         /\ ToSet(byActor[a]) = {t \in Tenants : member[<<a, t>>] # None}
                         /\ IsInjective(byActor[a])
  BY DEF ModelAgrees
<1>1. (\A p : NoneTouches(pos, p)) /\ \A b : NoneOfBot(pos, b)
  BY DEF NoneTouches, NoneOfBot, Typed
<1>2. members = member
  BY <1>1 DEF Following, MembersFollow, Typed, LogTypeOK, Memories
<1>3. bots = [b \in Bots |-> BotNow(b)]
  BY <1>1 DEF Following, BotsFollow, Typed, Owners
<1>4. ASSUME Durable PROVE rows = [member |-> members, bot |-> bots]
  <2>1. rows.member = member /\ rows.bot = [b \in Bots |-> BotNow(b)]
    BY <1>1, <1>4 DEF Following, MembersFollow, BotsFollow, Typed, LogTypeOK, Memories, Owners, Views
  <2> QED BY <2>1, <1>2, <1>3 DEF Typed, Views
<1>5. ASSUME NEW a \in Actors
      PROVE  /\ ToSet(byActor[a]) = {t \in Tenants : member[<<a, t>>] # None}
             /\ IsInjective(byActor[a])
  <2>1. /\ byActor[a] \in Seq(Tenants) /\ IsInjective(byActor[a])
        /\ \A t \in Tenants : Contains(byActor[a], t) <=> member[<<a, t>>] # None
    BY <1>2, <1>5 DEF Typed, Indexes, Following, Indexed
  <2>2. \A t : t \in ToSet(byActor[a]) <=> t \in Tenants /\ Contains(byActor[a], t)
    BY <2>1 DEF ToSet, Contains
  <2> QED BY <2>1, <2>2
<1> QED BY <1>2, <1>3, <1>4, <1>5 DEF BotNow

\* The membership and bot read models, their index by actor and their views
\* converge with the streams: once every event has been applied they say what
\* the folds say and the index lists every membership once, through
\* redeliveries, failed view writes, rebuilds and hydrations
\* (es_membership_readmodel.go, es_bot_readmodel.go, sql_hydrate.go).
THEOREM ReadModelsConverge == Spec => []ModelAgrees
<1> DEFINE Held == Typed /\ Logged /\ Following
<1>1. Init => Held
  BY InitTyped, InitLogged, InitFollowing
<1>2. Held /\ [Next]_vars => Held'
  BY StepTyped, StepLogged, StepFollowing
<1>3. Held => ModelAgrees
  BY CaughtUp
<1> HIDE DEF Held
<1> QED BY <1>1, <1>2, <1>3, PTL DEF Spec

-----------------------------------------------------------------------------
(* Deletions are final, and their sweeps are later.                         *)

LEMMA EmitFinal ==
  ASSUME LogTypeOK, NEW ev \in Emitted, Emit(ev), NEW e \in Users \cup Tenants
  PROVE  /\ entity[e] = "deleted" => entity'[e] = "deleted"
         /\ Deletes(ev, e) => entity[e] # "deleted" /\ entity'[e] = "deleted"
<1>e. e \in Entities
  BY DEF Entities, Actors
<1>1. CASE OfMembership(ev)
  <2>1. entity' = entity
    BY <1>1 DEF Emit, Fold
  <2> QED BY <2>1, <1>1 DEF OfMembership, Deletes
<1>2. CASE ~OfMembership(ev)
  <2>1. entity' = [entity EXCEPT ![Stream(ev)] = FoldState(ev.kind)]
    BY <1>2 DEF Emit, Fold
  <2>2. CASE Stream(ev) # e
    BY <2>1, <2>2, <1>e DEF LogTypeOK, Deletes
  <2>3. CASE Stream(ev) = e
    <3>1. entity[e] # "deleted"
      BY <1>2, <2>3 DEF Emit, Decides, DecidesTenant, DecidesUser, DecidesBot
    <3>2. entity'[e] = FoldState(ev.kind)
      BY <2>1, <2>3, <1>e DEF LogTypeOK
    <3>3. Deletes(ev, e) => FoldState(ev.kind) = "deleted"
      BY DEF Deletes, FoldState
    <3> QED BY <3>1, <3>2, <3>3
  <2> QED BY <2>2, <2>3
<1> QED BY <1>1, <1>2

\* What a step that deletes no user and no tenant does to the journal and to the
\* sweeps: a sweep only goes on, and what it waits for is later.
Onward ==
  /\ (\E ev \in Asked : Emit(ev)) \/ UNCHANGED log
  /\ \A r \in Slots : req'[r].at \in Deleting =>
       /\ req[r].at \in Deleting /\ req'[r].who = req[r].who
       /\ req'[r].seq \in {req[r].seq, Len(journal')}

LEMMA StepOnward ==
  ASSUME Typed, [Next]_vars
  PROVE  Onward \/ \E r \in Slots, e \in Users \cup Tenants : Delete(r, e)
<1>0. /\ req \in [Slots -> Request]
      /\ \A r \in Slots : req[r].todo \subseteq Asked
  BY DEF Typed, Request
<1>i. Idle.at \notin Deleting
  BY DEF Idle, Deleting
<1>1. CASE Command
  BY <1>1 DEF Command, Onward
<1>2. ASSUME NEW r \in Slots, GrantUpdate(r) PROVE Onward
  <2>1. (\E ev \in Asked : Emit(ev)) \/ UNCHANGED log
    BY <1>0, <1>2 DEF GrantUpdate
  <2>2. req' = [req EXCEPT ![r] = Idle]
    BY <1>2 DEF GrantUpdate
  <2> QED BY <2>1, <2>2, <1>0, <1>i DEF Onward
<1>3. ASSUME NEW r \in Slots, FindMembers(r) \/ FindBots(r) PROVE Onward
  <2>1. \E at \in {"members", "bots"} : \E evs : Collect(r, at, evs)
    BY <1>3 DEF FindMembers, FindBots
  <2>a. PICK at \in {"members", "bots"} : \E evs : Collect(r, at, evs)
    BY <2>1
  <2>b. PICK evs : Collect(r, at, evs)
    BY <2>a
  <2>2. req[r].at \in Deleting /\ UNCHANGED log
    BY <1>3, <2>b DEF FindMembers, FindBots, Collect, Deleting
  <2>3. \A s \in Slots : req'[s] = IF s = r THEN [at |-> at, who |-> req[r].who, todo |-> evs, seq |-> req[r].seq]
                                   ELSE req[s]
    BY <2>b, <1>0 DEF Collect, At
  <2> QED BY <2>a, <2>2, <2>3 DEF Onward, Deleting
<1>4. ASSUME NEW r \in Slots, Sweep(r) PROVE Onward
  <2>1. PICK ev \in req[r].todo :
          \/ Emit(ev) /\ At(r, req[r].at, req[r].who, req[r].todo \ {ev}, Len(journal'))
          \/ UNCHANGED log /\ At(r, req[r].at, req[r].who, req[r].todo \ {ev}, req[r].seq)
    BY <1>4 DEF Sweep
  <2>2. PICK n \in {req[r].seq, Len(journal')} :
          req' = [req EXCEPT ![r] = [at |-> req[r].at, who |-> req[r].who, todo |-> req[r].todo \ {ev}, seq |-> n]]
    BY <2>1 DEF At
  <2>3. (\E x \in Asked : Emit(x)) \/ UNCHANGED log
    BY <2>1, <1>0
  <2>4. \A s \in Slots : /\ req'[s].at = req[s].at /\ req'[s].who = req[s].who
                         /\ req'[s].seq = IF s = r THEN n ELSE req[s].seq
    BY <2>2, <1>0
  <2> QED BY <2>3, <2>4 DEF Onward
<1>5. ASSUME NEW r \in Slots, Swept(r) PROVE Onward
  BY <1>5, <1>0, <1>i DEF Swept, Onward
<1>6. ASSUME NEW r \in Slots, NEW a \in Actors, NEW t \in Tenants, NEW R \in RoleSets,
             Grant(r, a, t, R)
      PROVE  Onward
  <2>1. \A s \in Slots : s # r => req'[s] = req[s]
    BY <1>6, <1>0 DEF Grant, At
  <2>2. req'[r].at = "update"
    BY <1>6, <1>0 DEF Grant, At
  <2> QED BY <1>6, <2>1, <2>2 DEF Grant, Onward, Deleting
<1>7. CASE Restart
  BY <1>7, <1>i DEF Restart, Onward
<1>8. CASE Project \/ SaveCheckpoint \/ Drained \/ Rebuild \/ UNCHANGED vars
  BY <1>8 DEF Project, SaveCheckpoint, Drained, Rebuild, vars, Onward
<1> QED BY <1>1, <1>2, <1>3, <1>4, <1>5, <1>6, <1>7, <1>8 DEF Next

LEMMA StepFinal == Typed /\ Final /\ [Next]_vars => Final'
<1> SUFFICES ASSUME Typed, Final, [Next]_vars PROVE Final'
  OBVIOUS
<1>t. LogTypeOK /\ Recorded /\ Len(journal) \in Nat /\ req \in [Slots -> Request]
  BY DEF Typed, LogTypeOK
<1> DEFINE n == Len(journal) + 1
<1>n. ASSUME NEW ev \in Emitted, Emit(ev)
      PROVE  /\ Len(journal') = n /\ journal'[n] = ev
             /\ \A i \in 1 .. n : i # n => i \in 1 .. Len(journal) /\ journal'[i] = journal[i]
  BY <1>n, <1>t, EmitTyped
<1>1. ASSUME NEW r \in Slots, NEW d \in Users \cup Tenants, Delete(r, d) PROVE Final'
  <2> DEFINE ev == Tombstone(d)
  <2>1. ev \in Emitted /\ Emit(ev) /\ Stream(ev) = d
    BY <1>1, TombstoneShape DEF Delete
  <2>2. \A s \in Slots : req'[s] = IF s = r THEN [at |-> "deleted", who |-> d, todo |-> {}, seq |-> n]
                                   ELSE req[s]
    BY <1>1, <1>t, <1>n, <2>1 DEF Delete, At
  <2> HIDE DEF ev
  <2>3. ASSUME NEW e \in Users \cup Tenants
        PROVE  /\ \A i \in 1 .. n : Deletes(journal'[i], e) => entity'[e] = "deleted"
               /\ \A s \in Slots : req'[s].at \in Deleting /\ req'[s].who = e =>
                    /\ entity'[e] = "deleted"
                    /\ \A i \in 1 .. n : Deletes(journal'[i], e) => i <= req'[s].seq
    <3>1. /\ entity[e] = "deleted" => entity'[e] = "deleted"
          /\ Deletes(ev, e) => entity[e] # "deleted" /\ entity'[e] = "deleted"
      BY <2>1, <1>t, EmitFinal
    <3>2. \A i \in 1 .. n : Deletes(journal'[i], e) => entity'[e] = "deleted"
      BY <3>1, <2>1, <1>n DEF Final
    <3>d. Deletes(ev, d)
      BY TombstoneShape DEF Deletes, ev, Tombstone, Ev
    <3>3. ASSUME NEW s \in Slots, req'[s].at \in Deleting, req'[s].who = e
          PROVE  /\ entity'[e] = "deleted"
                 /\ \A i \in 1 .. n : Deletes(journal'[i], e) => i <= req'[s].seq
      <4>1. CASE s = r
        <5>1. e = d /\ req'[s].seq = n
          BY <4>1, <2>2, <3>3
        <5> QED BY <5>1, <3>1, <3>d, <1>t
      <4>2. CASE s # r
        <5>1. req[s].at \in Deleting /\ req[s].who = e /\ req'[s].seq = req[s].seq
          BY <4>2, <2>2, <3>3
        <5>2. /\ entity[e] = "deleted"
              /\ \A i \in 1 .. Len(journal) : Deletes(journal[i], e) => i <= req[s].seq
          BY <5>1 DEF Final
        <5>3. ~Deletes(ev, e)
          BY <5>2, <3>1
        <5> QED BY <5>1, <5>2, <5>3, <3>1, <2>1, <1>n
      <4> QED BY <4>1, <4>2
    <3> QED BY <3>2, <3>3
  <2>4. Len(journal') = n
    BY <2>1, <1>n
  <2> HIDE DEF n
  <2> QED BY <2>3, <2>4 DEF Final
<1>2. CASE Onward
  <2>1. ASSUME NEW ev \in Asked, Emit(ev), NEW e \in Users \cup Tenants
        PROVE  /\ \A i \in 1 .. Len(journal') : Deletes(journal'[i], e) =>
                    i \in 1 .. Len(journal) /\ Deletes(journal[i], e) /\ i <= Len(journal')
               /\ entity[e] = "deleted" => entity'[e] = "deleted"
    <3>1. ev \in Emitted /\ ~Deletes(ev, e)
      BY <2>1, AskedDeletesNothing DEF Emitted
    <3>2. \A i \in 1 .. Len(journal') : Deletes(journal'[i], e) =>
                    i \in 1 .. Len(journal) /\ Deletes(journal[i], e) /\ i <= Len(journal')
      BY <3>1, <2>1, <1>n, <1>t
    <3> QED BY <3>1, <3>2, <2>1, <1>t, EmitFinal
  <2>2. ASSUME UNCHANGED log, NEW e \in Users \cup Tenants
        PROVE  /\ \A i \in 1 .. Len(journal') : Deletes(journal'[i], e) =>
                    i \in 1 .. Len(journal) /\ Deletes(journal[i], e) /\ i <= Len(journal')
               /\ entity[e] = "deleted" => entity'[e] = "deleted"
    BY <2>2, <1>t DEF log
  <2>3. ASSUME NEW e \in Users \cup Tenants
        PROVE  /\ \A i \in 1 .. Len(journal') : Deletes(journal'[i], e) =>
                    i \in 1 .. Len(journal) /\ Deletes(journal[i], e) /\ i <= Len(journal')
               /\ entity[e] = "deleted" => entity'[e] = "deleted"
    BY <1>2, <2>1, <2>2 DEF Onward
  <2>4. ASSUME NEW e \in Users \cup Tenants
        PROVE  /\ \A i \in 1 .. Len(journal') : Deletes(journal'[i], e) => entity'[e] = "deleted"
               /\ \A s \in Slots : req'[s].at \in Deleting /\ req'[s].who = e =>
                    /\ entity'[e] = "deleted"
                    /\ \A i \in 1 .. Len(journal') : Deletes(journal'[i], e) => i <= req'[s].seq
    BY <1>2, <2>3 DEF Onward, Final
  <2> QED BY <2>4 DEF Final
<1> QED BY <1>1, <1>2, StepOnward

LEMMA InitFinal == Init => Final
<1> SUFFICES ASSUME Init PROVE Final
  OBVIOUS
<1>1. 1 .. Len(journal) = {} /\ \A r \in Slots : req[r].at \notin Deleting
  BY DEF Init, InitLog, Idle, Deleting
<1> QED BY <1>1 DEF Final

-----------------------------------------------------------------------------
(* What is older than a deletion is caught by its sweep.                    *)

\* A dispatch leaves nothing old behind that was not there, and takes what it
\* removes.
LEMMA LeftByEmit ==
  ASSUME Typed, NEW ev \in Emitted, Emit(ev), NEW i \in 1 .. Len(journal),
         NEW e \in Users \cup Tenants
  PROVE  /\ \A p \in Pairs : LeftMember(i, e, p)' =>
              LeftMember(i, e, p) /\ ~(Touches(ev, p) /\ ev.kind = "removed")
         /\ \A b \in Bots : LeftBot(i, e, b)' =>
              LeftBot(i, e, b) /\ ~(OfBot(ev, b) /\ ev.kind = "botDeleted")
<1>t. LogTypeOK /\ Recorded /\ Len(journal) \in Nat
  BY DEF Typed, LogTypeOK
<1>j. /\ Len(journal') = Len(journal) + 1 /\ journal'[Len(journal) + 1] = ev
      /\ \A j \in 1 .. Len(journal) : journal'[j] = journal[j]
      /\ \A j \in i .. Len(journal) : j \in i .. Len(journal') /\ journal'[j] = journal[j]
      /\ Len(journal) + 1 \in i .. Len(journal')
  BY <1>t, EmitTyped
<1>1. ASSUME NEW p \in Pairs, LeftMember(i, e, p)'
      PROVE  LeftMember(i, e, p) /\ ~(Touches(ev, p) /\ ev.kind = "removed")
  <2>1. /\ Deletes(journal[i], e) /\ e \in {p[1], p[2]} /\ member'[p] # None
        /\ ~(AddedSince(i, p)')
    BY <1>1, <1>j DEF LeftMember
  <2>2. /\ member'[p] = IF Touches(ev, p) THEN FoldMembership(ev) ELSE member[p]
        /\ Touches(ev, p) => /\ FoldMembership(ev) = None <=> ev.kind = "removed"
                             /\ ev.kind = "added" <=> member[p] = None
    BY <1>t, EmitMember
  <2>3. ~AddedSince(i, p)
    BY <2>1, <1>j DEF AddedSince
  <2>4. ~(Touches(ev, p) /\ ev.kind = "added")
    BY <2>1, <1>j DEF AddedSince, Touches
  <2> QED BY <2>1, <2>2, <2>3, <2>4 DEF LeftMember
<1>2. ASSUME NEW b \in Bots, LeftBot(i, e, b)'
      PROVE  LeftBot(i, e, b) /\ ~(OfBot(ev, b) /\ ev.kind = "botDeleted")
  <2>1. /\ Deletes(journal[i], e) /\ owner'[b] = e /\ entity'[b] = "active"
        /\ ~(RegisteredSince(i, b)')
    BY <1>2, <1>j DEF LeftBot
  <2>2. /\ OfBot(ev, b) => (entity'[b] = "active" <=> ev.kind = "botRegistered")
        /\ ~OfBot(ev, b) => entity'[b] = entity[b] /\ owner'[b] = owner[b]
    BY <1>t, EmitBot
  <2>3. ~RegisteredSince(i, b)
    BY <2>1, <1>j DEF RegisteredSince
  <2>4. ~(OfBot(ev, b) /\ ev.kind = "botRegistered")
    BY <2>1, <1>j DEF RegisteredSince, OfBot
  <2> QED BY <2>1, <2>2, <2>3, <2>4 DEF LeftBot, OfBot
<1> QED BY <1>1, <1>2

\* The same of a step that dispatches nothing.
LEMMA LeftSame ==
  ASSUME UNCHANGED log, NEW i, NEW e
  PROVE  /\ \A p : LeftMember(i, e, p)' <=> LeftMember(i, e, p)
         /\ \A b : LeftBot(i, e, b)' <=> LeftBot(i, e, b)
BY DEF log, LeftMember, LeftBot, AddedSince, RegisteredSince

\* A sweep loses nothing that is left.
Transfer ==
  \A i \in 1 .. Len(journal), e \in (Users \cup Tenants) \ missed' :
    /\ \A p \in Pairs, r \in Slots :
         LeftMember(i, e, p) /\ LeftMember(i, e, p)' /\ WillRemove(r, e, p)
           => \E s \in Slots : WillRemove(s, e, p)'
    /\ \A b \in Bots, r \in Slots :
         LeftBot(i, e, b) /\ LeftBot(i, e, b)' /\ WillDelete(r, e, b)
           => \E s \in Slots : WillDelete(s, e, b)'

LEMMA CaughtByTransfer ==
  ASSUME Typed, Caught, (\E ev \in Asked : Emit(ev)) \/ UNCHANGED log,
         missed \subseteq missed', Transfer
  PROVE  Caught'
<1>t. LogTypeOK /\ Recorded /\ Len(journal) \in Nat
  BY DEF Typed, LogTypeOK
<1>1. ASSUME NEW i \in 1 .. Len(journal'), NEW e \in (Users \cup Tenants) \ missed'
      PROVE  /\ \A p \in Pairs : LeftMember(i, e, p)' => \E r \in Slots : WillRemove(r, e, p)'
             /\ \A b \in Bots : LeftBot(i, e, b)' => \E r \in Slots : WillDelete(r, e, b)'
  <2>1. SUFFICES ASSUME Deletes(journal'[i], e)
                 PROVE  /\ \A p \in Pairs : LeftMember(i, e, p)' => \E r \in Slots : WillRemove(r, e, p)'
                        /\ \A b \in Bots : LeftBot(i, e, b)' => \E r \in Slots : WillDelete(r, e, b)'
    BY DEF LeftMember, LeftBot
  <2>2. /\ i \in 1 .. Len(journal)
        /\ \A p \in Pairs : LeftMember(i, e, p)' => LeftMember(i, e, p)
        /\ \A b \in Bots : LeftBot(i, e, b)' => LeftBot(i, e, b)
    <3>1. CASE UNCHANGED log
      BY <3>1, LeftSame DEF log
    <3>2. ASSUME NEW ev \in Asked, Emit(ev)
          PROVE  /\ i \in 1 .. Len(journal)
                 /\ \A p \in Pairs : LeftMember(i, e, p)' => LeftMember(i, e, p)
                 /\ \A b \in Bots : LeftBot(i, e, b)' => LeftBot(i, e, b)
      <4>1. ev \in Emitted /\ ~Deletes(ev, e)
        BY AskedDeletesNothing DEF Emitted
      <4>2. Len(journal') = Len(journal) + 1 /\ journal'[Len(journal) + 1] = ev
        BY <4>1, <3>2, <1>t, EmitTyped
      <4>3. i \in 1 .. Len(journal)
        BY <4>1, <4>2, <2>1, <1>t
      <4> QED BY <4>1, <4>3, <3>2, LeftByEmit
    <3> QED BY <3>1, <3>2
  <2>3. e \in (Users \cup Tenants) \ missed
    OBVIOUS
  <2>4. ASSUME NEW p \in Pairs, LeftMember(i, e, p)' PROVE \E r \in Slots : WillRemove(r, e, p)'
    <3>1. LeftMember(i, e, p)
      BY <2>2, <2>4
    <3>2. PICK r \in Slots : WillRemove(r, e, p)
      BY <3>1, <2>2, <2>3 DEF Caught
    <3> QED BY <3>1, <3>2, <2>2, <2>4 DEF Transfer
  <2>5. ASSUME NEW b \in Bots, LeftBot(i, e, b)' PROVE \E r \in Slots : WillDelete(r, e, b)'
    <3>1. LeftBot(i, e, b)
      BY <2>2, <2>5
    <3>2. PICK r \in Slots : WillDelete(r, e, b)
      BY <3>1, <2>2, <2>3 DEF Caught
    <3> QED BY <3>1, <3>2, <2>2, <2>5 DEF Transfer
  <2> QED BY <2>4, <2>5
<1> QED BY <1>1 DEF Caught

\* A model that is past the deletion has what is left from before.
LEMMA OldIsListed ==
  ASSUME Typed, Logged, Following, NEW i \in 1 .. Len(journal), NEW e, i <= pos
  PROVE  /\ \A p \in Pairs : LeftMember(i, e, p) => members[p] # None
         /\ \A b \in Bots : LeftBot(i, e, b) => bots[b] = e
<1>t. Len(journal) \in Nat /\ pos \in Nat
  BY DEF Typed, LogTypeOK
<1>1. ASSUME NEW p \in Pairs, LeftMember(i, e, p) PROVE members[p] # None
  <2>1. PICK k \in 1 .. Len(journal) : /\ Settles(journal[k], p) /\ journal[k].kind = "added"
                                       /\ NoneSettles(k, p)
    BY <1>1 DEF LeftMember, Logged, Grounded
  <2>2. ~(k \in i .. Len(journal))
    BY <1>1, <2>1 DEF LeftMember, AddedSince, Settles, Touches
  <2>3. \A j \in pos + 1 .. Len(journal) : j \in k + 1 .. Len(journal)
    BY <2>2, <1>t
  <2>4. NoneSettles(pos, p)
    BY <2>1, <2>3 DEF NoneSettles
  <2> QED BY <1>1, <2>4 DEF LeftMember, Following, MembersFollow
<1>2. ASSUME NEW b \in Bots, LeftBot(i, e, b) PROVE bots[b] = e
  <2>1. PICK k \in 1 .. Len(journal) : /\ OfBot(journal[k], b) /\ journal[k].kind = "botRegistered"
                                       /\ NoneOfBot(k, b)
    BY <1>2 DEF LeftBot, Logged, Grounded
  <2>2. ~(k \in i .. Len(journal))
    BY <1>2, <2>1 DEF LeftBot, RegisteredSince, OfBot
  <2>3. \A j \in pos + 1 .. Len(journal) : j \in k + 1 .. Len(journal)
    BY <2>2, <1>t
  <2>4. NoneOfBot(pos, b)
    BY <2>1, <2>3 DEF NoneOfBot
  <2> QED BY <1>2, <2>4 DEF LeftBot, Following, BotsFollow, BotNow
<1> QED BY <1>1, <1>2

\* Requests that are no sweeps, and steps that leave the requests alone.
LEMMA TransferSame ==
  ASSUME \A r \in Slots : req[r].at \in Deleting => req'[r] = req[r]
  PROVE  Transfer
<1>1. ASSUME NEW r \in Slots, NEW e, NEW p, WillRemove(r, e, p) PROVE WillRemove(r, e, p)'
  BY <1>1 DEF WillRemove, Deleting
<1>2. ASSUME NEW r \in Slots, NEW e, NEW b, WillDelete(r, e, b) PROVE WillDelete(r, e, b)'
  BY <1>2 DEF WillDelete, Deleting
<1> QED BY <1>1, <1>2 DEF Transfer

\* One request goes on; the others are as they were.
LEMMA TransferOne ==
  ASSUME NEW r \in Slots, \A s \in Slots : s # r => req'[s] = req[s],
         \A i \in 1 .. Len(journal), e \in (Users \cup Tenants) \ missed' :
           /\ \A p \in Pairs : LeftMember(i, e, p) /\ LeftMember(i, e, p)' /\ WillRemove(r, e, p)
                => WillRemove(r, e, p)'
           /\ \A b \in Bots : LeftBot(i, e, b) /\ LeftBot(i, e, b)' /\ WillDelete(r, e, b)
                => WillDelete(r, e, b)'
  PROVE  Transfer
<1>1. ASSUME NEW s \in Slots, s # r, NEW e, NEW p, WillRemove(s, e, p) PROVE WillRemove(s, e, p)'
  BY <1>1 DEF WillRemove
<1>2. ASSUME NEW s \in Slots, s # r, NEW e, NEW b, WillDelete(s, e, b) PROVE WillDelete(s, e, b)'
  BY <1>2 DEF WillDelete
<1> QED BY <1>1, <1>2 DEF Transfer

LEMMA SweptCaught ==
  ASSUME Typed, NEW r \in Slots, Swept(r) PROVE Transfer
<1>0. req' = [req EXCEPT ![r] = Idle] /\ req \in [Slots -> Request] /\ req[r].todo = {}
  BY DEF Swept, Typed
<1>1. ASSUME NEW e, NEW p PROVE ~WillRemove(r, e, p)
  BY <1>0 DEF WillRemove, Swept
<1>2. ASSUME NEW i \in 1 .. Len(journal), NEW e \in Users \cup Tenants, NEW b \in Bots,
             LeftBot(i, e, b), WillDelete(r, e, b)
      PROVE  FALSE
  <2>1. owner[b] = e /\ owner[b] \in Users \cup {None}
    BY <1>2 DEF LeftBot, Typed, LogTypeOK
  <2>2. e \in Users
    BY <2>1, GrantsAssumption DEF Entities, Actors
  <2>3. req[r].at = "bots"
    BY <1>2, <2>2 DEF WillDelete, Swept
  <2> QED BY <2>3, <1>0, <1>2 DEF WillDelete
<1> QED BY <1>0, <1>1, <1>2, TransferOne

LEMMA MembersListed ==
  ASSUME Typed, Logged, Following, Final, NEW r \in Slots, FindMembers(r) PROVE Transfer
<1> DEFINE d  == req[r].who
           ps == {p \in Pairs : members[p] # None /\ IF d \in Tenants THEN p[2] = d
                                                     ELSE p[1] = d /\ Contains(byActor[d], p[2])}
           evs == {Ev("removed", p[1], p[2], {}) : p \in ps}
<1>1. req[r].at = "deleted" /\ Collect(r, "members", evs)
  BY DEF FindMembers
<1>2. d \in Users \cup Tenants
  BY <1>1 DEF Typed, Deleting
<1>3. ASSUME NEW i \in 1 .. Len(journal), NEW e \in (Users \cup Tenants) \ missed',
             NEW p \in Pairs, LeftMember(i, e, p), d = e
      PROVE  p \in ps
  <2>1. host = "live"
    BY <1>1, <1>3 DEF Collect
  <2>2. pos >= req[r].seq
    BY <1>1, <2>1 DEF Collect, Returned
  <2>3. i <= req[r].seq
    BY <1>1, <1>2, <1>3 DEF Final, LeftMember, Deleting
  <2>4. i <= pos
    BY <2>2, <2>3 DEF Typed, Request, LogTypeOK
  <2>5. members[p] # None
    BY <2>4, <1>3, OldIsListed
  <2>6. e \in {p[1], p[2]} /\ p[1] \in Actors /\ p[2] \in Tenants /\ p = <<p[1], p[2]>>
    BY <1>3 DEF LeftMember, Pairs
  <2>7. CASE d \in Tenants
    <3>1. p[2] = d
      BY <2>6, <2>7, <1>3, GrantsAssumption
    <3> QED BY <3>1, <2>5, <2>7
  <2>8. CASE d \notin Tenants
    <3>1. p[1] = d
      BY <2>6, <2>8, <1>3
    <3>2. Contains(byActor[d], p[2])
      BY <3>1, <2>5, <2>6 DEF Following, Indexed
    <3> QED BY <3>1, <3>2, <2>5, <2>8
  <2> QED BY <2>7, <2>8
<1> HIDE DEF ps
<1>4. req' = [req EXCEPT ![r] = [at |-> "members", who |-> d, todo |-> evs, seq |-> req[r].seq]]
  BY <1>1 DEF Collect, At
<1>5. /\ req'[r].at = "members" /\ req'[r].who = d /\ req'[r].todo = evs
      /\ \A s \in Slots : s # r => req'[s] = req[s]
  BY <1>4 DEF Typed
<1>6. \A i \in 1 .. Len(journal), e \in (Users \cup Tenants) \ missed', p \in Pairs :
        LeftMember(i, e, p) /\ WillRemove(r, e, p) => WillRemove(r, e, p)'
  BY <1>3, <1>5 DEF WillRemove
<1>7. \A e, b : WillDelete(r, e, b) => WillDelete(r, e, b)'
  BY <1>1, <1>5 DEF WillDelete
<1> QED BY <1>5, <1>6, <1>7, TransferOne

LEMMA BotsListed ==
  ASSUME Typed, Logged, Following, Final, NEW r \in Slots, FindBots(r) PROVE Transfer
<1> DEFINE d  == req[r].who
           bs == {c \in Bots : bots[c] = d}
           evs == {Ev("botDeleted", b, None, {}) : b \in bs}
<1>1. req[r].at = "members" /\ req[r].todo = {} /\ d \in Users /\ Collect(r, "bots", evs)
  BY DEF FindBots
<1>3. ASSUME NEW i \in 1 .. Len(journal), NEW e \in (Users \cup Tenants) \ missed',
             NEW b \in Bots, LeftBot(i, e, b), d = e
      PROVE  b \in bs
  <2>1. host = "live"
    BY <1>1, <1>3 DEF Collect
  <2>2. pos >= req[r].seq
    BY <1>1, <2>1 DEF Collect, Returned
  <2>3. i <= req[r].seq
    BY <1>1, <1>3 DEF Final, LeftBot, Deleting
  <2>4. i <= pos
    BY <2>2, <2>3 DEF Typed, Request, LogTypeOK
  <2>5. bots[b] = e
    BY <2>4, <1>3, OldIsListed
  <2> QED BY <2>5, <1>3
<1> HIDE DEF bs
<1>4. req' = [req EXCEPT ![r] = [at |-> "bots", who |-> d, todo |-> evs, seq |-> req[r].seq]]
  BY <1>1 DEF Collect, At
<1>5. /\ req'[r].at = "bots" /\ req'[r].who = d /\ req'[r].todo = evs
      /\ \A s \in Slots : s # r => req'[s] = req[s]
  BY <1>4 DEF Typed
<1>6. \A i \in 1 .. Len(journal), e \in (Users \cup Tenants) \ missed', b \in Bots :
        LeftBot(i, e, b) /\ WillDelete(r, e, b) => WillDelete(r, e, b)'
  BY <1>3, <1>5 DEF WillDelete
<1>7. \A e, p : ~WillRemove(r, e, p)
  BY <1>1 DEF WillRemove
<1> QED BY <1>5, <1>6, <1>7, TransferOne

\* A refused command of a sweep had nothing to remove.
LEMMA RefusedIsGone ==
  /\ \A p \in Pairs : ~Decides(Ev("removed", p[1], p[2], {})) => member[p] = None
  /\ \A b \in Bots : ~Decides(Ev("botDeleted", b, None, {})) => entity[b] # "active"
<1>1. ASSUME NEW p \in Pairs, ~Decides(Ev("removed", p[1], p[2], {})) PROVE member[p] = None
  <2>1. p = <<p[1], p[2]>>
    BY DEF Pairs
  <2> QED BY <1>1, <2>1 DEF Decides, OfMembership, DecidesMembership, Ev
<1>2. ASSUME NEW b \in Bots, ~Decides(Ev("botDeleted", b, None, {})) PROVE entity[b] # "active"
  BY <1>2 DEF Decides, OfMembership, OfTenant, Stream, DecidesBot, Ev
<1> QED BY <1>1, <1>2

LEMMA SweepCaught ==
  ASSUME Typed, NEW r \in Slots, Sweep(r) PROVE Transfer
<1>1. PICK ev \in req[r].todo :
        \/ Emit(ev) /\ At(r, req[r].at, req[r].who, req[r].todo \ {ev}, Len(journal'))
        \/ /\ At(r, req[r].at, req[r].who, req[r].todo \ {ev}, req[r].seq)
           /\ missed' = IF Decides(ev) THEN missed \cup {req[r].who} ELSE missed
  BY DEF Sweep
<1>0. req \in [Slots -> Request] /\ ev \in Emitted
  BY DEF Typed, Request, Emitted
<1>2. /\ req'[r].at = req[r].at /\ req'[r].who = req[r].who /\ req'[r].todo = req[r].todo \ {ev}
      /\ \A s \in Slots : s # r => req'[s] = req[s]
  BY <1>0, <1>1 DEF At
<1>3. ASSUME NEW i \in 1 .. Len(journal), NEW e \in (Users \cup Tenants) \ missed',
             req[r].who = e, NEW p \in Pairs, LeftMember(i, e, p), LeftMember(i, e, p)'
      PROVE  ev # Ev("removed", p[1], p[2], {})
  <2> SUFFICES ASSUME ev = Ev("removed", p[1], p[2], {}) PROVE FALSE
    OBVIOUS
  <2>1. CASE Emit(ev)
    <3>1. Touches(ev, p) /\ ev.kind = "removed"
      BY DEF Touches, OfMembership, Ev, Pairs
    <3> QED BY <3>1, <2>1, <1>0, <1>3, LeftByEmit
  <2>2. CASE missed' = IF Decides(ev) THEN missed \cup {req[r].who} ELSE missed
    <3>1. ~Decides(ev)
      BY <1>3, <2>2
    <3> QED BY <3>1, <1>3, RefusedIsGone DEF LeftMember
  <2> QED BY <1>1, <2>1, <2>2
<1>4. ASSUME NEW i \in 1 .. Len(journal), NEW e \in (Users \cup Tenants) \ missed',
             req[r].who = e, NEW b \in Bots, LeftBot(i, e, b), LeftBot(i, e, b)'
      PROVE  ev # Ev("botDeleted", b, None, {})
  <2> SUFFICES ASSUME ev = Ev("botDeleted", b, None, {}) PROVE FALSE
    OBVIOUS
  <2>1. CASE Emit(ev)
    <3>1. OfBot(ev, b) /\ ev.kind = "botDeleted"
      BY DEF OfBot, Ev
    <3> QED BY <3>1, <2>1, <1>0, <1>4, LeftByEmit
  <2>2. CASE missed' = IF Decides(ev) THEN missed \cup {req[r].who} ELSE missed
    <3>1. ~Decides(ev)
      BY <1>4, <2>2
    <3> QED BY <3>1, <1>4, RefusedIsGone DEF LeftBot
  <2> QED BY <1>1, <2>1, <2>2
<1>5. \A i \in 1 .. Len(journal), e \in (Users \cup Tenants) \ missed', p \in Pairs :
        LeftMember(i, e, p) /\ LeftMember(i, e, p)' /\ WillRemove(r, e, p) => WillRemove(r, e, p)'
  BY <1>2, <1>3 DEF WillRemove
<1>6. \A i \in 1 .. Len(journal), e \in (Users \cup Tenants) \ missed', b \in Bots :
        LeftBot(i, e, b) /\ LeftBot(i, e, b)' /\ WillDelete(r, e, b) => WillDelete(r, e, b)'
  BY <1>2, <1>4 DEF WillDelete
<1> QED BY <1>2, <1>5, <1>6, TransferOne

\* A tombstone starts the sweep that will catch everything older.
LEMMA DeleteCaught ==
  ASSUME Typed, Caught, NEW r \in Slots, NEW d \in Users \cup Tenants, Delete(r, d)
  PROVE  Caught'
<1> DEFINE ev == Tombstone(d)
<1>0. /\ LogTypeOK /\ Recorded /\ Len(journal) \in Nat /\ req \in [Slots -> Request]
      /\ ev \in Emitted /\ Emit(ev) /\ Stream(ev) = d /\ missed' = missed
      /\ req[r].at = "idle"
  BY TombstoneShape DEF Typed, LogTypeOK, Delete
<1>1. /\ req'[r].at = "deleted" /\ req'[r].who = d
      /\ \A s \in Slots : s # r => req'[s] = req[s]
  BY <1>0 DEF Delete, At
<1>2. Len(journal') = Len(journal) + 1 /\ journal'[Len(journal) + 1] = ev
  BY <1>0, EmitTyped
<1> HIDE DEF ev
<1>3. ASSUME NEW i \in 1 .. Len(journal'), NEW e \in (Users \cup Tenants) \ missed'
      PROVE  /\ \A p \in Pairs : LeftMember(i, e, p)' => \E s \in Slots : WillRemove(s, e, p)'
             /\ \A b \in Bots : LeftBot(i, e, b)' => \E s \in Slots : WillDelete(s, e, b)'
  <2>1. CASE e = d
    <3>1. \A p : WillRemove(r, e, p)'
      BY <2>1, <1>1 DEF WillRemove
    <3>2. \A b : WillDelete(r, e, b)'
      BY <2>1, <1>1 DEF WillDelete
    <3> QED BY <3>1, <3>2
  <2>2. CASE i = Len(journal) + 1 /\ e # d
    BY <2>2, <1>0, <1>2 DEF LeftMember, LeftBot, Deletes
  <2>3. CASE i # Len(journal) + 1
    <3>1. i \in 1 .. Len(journal)
      BY <2>3, <1>0, <1>2
    <3>2. /\ \A p \in Pairs : LeftMember(i, e, p)' => LeftMember(i, e, p)
          /\ \A b \in Bots : LeftBot(i, e, b)' => LeftBot(i, e, b)
      BY <3>1, <1>0, LeftByEmit
    <3>3. /\ \A p \in Pairs : LeftMember(i, e, p) => \E s \in Slots : WillRemove(s, e, p)
          /\ \A b \in Bots : LeftBot(i, e, b) => \E s \in Slots : WillDelete(s, e, b)
      BY <3>1, <1>0 DEF Caught
    <3>4. ASSUME NEW s \in Slots, NEW p, WillRemove(s, e, p) PROVE WillRemove(s, e, p)'
      BY <3>4, <1>0, <1>1 DEF WillRemove
    <3>5. ASSUME NEW s \in Slots, NEW b, WillDelete(s, e, b) PROVE WillDelete(s, e, b)'
      BY <3>5, <1>0, <1>1 DEF WillDelete
    <3> QED BY <3>2, <3>3, <3>4, <3>5
  <2> QED BY <2>1, <2>2, <2>3
<1> QED BY <1>3 DEF Caught

LEMMA StepCaught == Typed /\ Logged /\ Following /\ Final /\ Caught /\ [Next]_vars => Caught'
<1> SUFFICES ASSUME Typed, Logged, Following, Final, Caught, [Next]_vars PROVE Caught'
  OBVIOUS
<1>0. req \in [Slots -> Request] /\ \A r \in Slots : req[r].todo \subseteq Asked
  BY DEF Typed, Request
<1>1. CASE Command
  BY <1>1, TransferSame, CaughtByTransfer DEF Command
<1>2. ASSUME NEW r \in Slots, GrantUpdate(r) PROVE Caught'
  <2>1. (\E ev \in Asked : Emit(ev)) \/ UNCHANGED log
    BY <1>0, <1>2 DEF GrantUpdate
  <2>2. \A s \in Slots : req[s].at \in Deleting => req'[s] = req[s]
    BY <1>0, <1>2 DEF GrantUpdate, Deleting
  <2>3. missed' = missed
    BY <1>2 DEF GrantUpdate
  <2> QED BY <2>1, <2>2, <2>3, TransferSame, CaughtByTransfer
<1>3. ASSUME NEW r \in Slots, FindMembers(r) PROVE Caught'
  <2>1. UNCHANGED log /\ missed \subseteq missed'
    BY <1>3 DEF FindMembers, Collect
  <2> QED BY <2>1, <1>3, MembersListed, CaughtByTransfer
<1>4. ASSUME NEW r \in Slots, FindBots(r) PROVE Caught'
  <2>1. UNCHANGED log /\ missed \subseteq missed'
    BY <1>4 DEF FindBots, Collect
  <2> QED BY <2>1, <1>4, BotsListed, CaughtByTransfer
<1>5. ASSUME NEW r \in Slots, Sweep(r) PROVE Caught'
  <2>1. ((\E ev \in Asked : Emit(ev)) \/ UNCHANGED log) /\ missed \subseteq missed'
    BY <1>0, <1>5 DEF Sweep
  <2> QED BY <2>1, <1>5, SweepCaught, CaughtByTransfer
<1>6. ASSUME NEW r \in Slots, Swept(r) PROVE Caught'
  <2>1. UNCHANGED log /\ missed \subseteq missed'
    BY <1>6 DEF Swept
  <2> QED BY <2>1, <1>6, SweptCaught, CaughtByTransfer
<1>7. ASSUME NEW r \in Slots, NEW a \in Actors, NEW t \in Tenants, NEW R \in RoleSets,
             Grant(r, a, t, R)
      PROVE  Caught'
  <2>1. \A s \in Slots : req[s].at \in Deleting => req'[s] = req[s]
    BY <1>0, <1>7 DEF Grant, At, Deleting
  <2>2. UNCHANGED log /\ missed' = missed
    BY <1>7 DEF Grant
  <2> QED BY <2>1, <2>2, TransferSame, CaughtByTransfer
<1>8. CASE Restart
  <2>1. UNCHANGED log /\ missed' = missed \cup Sweeping
    BY <1>8 DEF Restart
  <2>2. \A r \in Slots : req[r].at \in Deleting => req[r].who \in Sweeping
    BY DEF Sweeping, Deleting
  <2>3. Transfer
    BY <2>1, <2>2 DEF Transfer, WillRemove, WillDelete, Deleting
  <2> QED BY <2>1, <2>3, CaughtByTransfer
<1>9. CASE Project \/ SaveCheckpoint \/ Drained \/ Rebuild \/ UNCHANGED vars
  <2>1. UNCHANGED log /\ req' = req /\ missed' = missed
    BY <1>9 DEF Project, SaveCheckpoint, Drained, Rebuild, vars
  <2> QED BY <2>1, TransferSame, CaughtByTransfer
<1> QED BY <1>1, <1>2, <1>3, <1>4, <1>5, <1>6, <1>7, <1>8, <1>9, DeleteCaught DEF Next

LEMMA InitCaught == Init => Caught
<1> SUFFICES ASSUME Init PROVE Caught
  OBVIOUS
<1>1. 1 .. Len(journal) = {}
  BY DEF Init, InitLog
<1> QED BY <1>1 DEF Caught

LEMMA CaughtIsClean ==
  ASSUME Typed, Caught PROVE SweptClean
<1>1. \A r \in Slots : req[r].at \in Deleting => req[r].who \in Sweeping
  BY DEF Sweeping, Deleting
<1>2. ASSUME NEW i \in 1 .. Len(journal), NEW e \in (Users \cup Tenants) \ (missed \cup Sweeping)
      PROVE  /\ \A p \in Pairs : ~LeftMember(i, e, p)
             /\ \A b \in Bots : ~LeftBot(i, e, b)
  <2>1. \A r \in Slots : /\ \A p : ~WillRemove(r, e, p)
                         /\ \A b : ~WillDelete(r, e, b)
    BY <1>1 DEF WillRemove, WillDelete, Deleting
  <2> QED BY <2>1 DEF Caught
<1> QED BY <1>2 DEF SweptClean, LeftMember, LeftBot

\* A sweep that ran to its end left nothing older than the deletion: whatever is
\* in effect of a deleted user or tenant was granted or registered afterwards,
\* unless a dispatch failed, the process died or a rebuild was replaying
\* (removeMembershipsForUserBestEffort, deleteBotsForUserBestEffort,
\* revokeMembershipsForTenant), whoever grants and removes meanwhile.
THEOREM DeletionsSweepClean == Spec => []SweptClean
<1> DEFINE Held == Typed /\ Logged /\ Following /\ Final /\ Caught
<1>1. Init => Held
  BY InitTyped, InitLogged, InitFollowing, InitFinal, InitCaught
<1>2. Held /\ [Next]_vars => Held'
  BY StepTyped, StepLogged, StepFollowing, StepFinal, StepCaught
<1>3. Held => SweptClean
  BY CaughtIsClean
<1> HIDE DEF Held
<1> QED BY <1>1, <1>2, <1>3, PTL DEF Spec
=============================================================================
