---------------------------- MODULE Policy_proofs ----------------------------
(***************************************************************************)
(* Proofs about Policy, for every set of users, bots, tenants and roles    *)
(* and every length of the journal.                                        *)
(*                                                                         *)
(* The replay argument needs one strengthening (Owed): a row the enforcer  *)
(* holds is owed by the events applied so far, or an event still to come   *)
(* grants it, which is what a rebuild leaves behind; a row that is owed is *)
(* held.  At the end of the journal nothing is still to come.              *)
(***************************************************************************)
EXTENDS Policy, TLAPS

Rows    == Actors \X Roles \X Entities
Emitted == Asked \cup {Tombstone(e) : e \in Users \cup Tenants}

\* Every event of the journal is one that a call emits.
Recorded == \A i \in 1 .. Len(journal) : journal[i] \in Emitted

Typed == TypeOK /\ Recorded

\* A row that is held is owed, or granted by an event still to come.
Owed == /\ \A row \in policy : \/ Justified(row, cpos)
                               \/ \E i \in cpos + 1 .. Len(journal) : row \in Gives(journal[i])
        /\ \A row \in Rows : Justified(row, cpos) => row \in policy

-----------------------------------------------------------------------------
(* What an event that is emitted looks like.                                *)

LEMMA EmittedIsEvent ==
  ASSUME NEW ev \in Emitted PROVE ev \in Event
<1> USE DEF Event, Ev, Kinds, Roles, Actors, Entities
<1>1. CASE ev \in Asked
  BY <1>1 DEF Asked
<1>2. CASE ev \in {Tombstone(e) : e \in Users \cup Tenants}
  BY <1>2 DEF Tombstone
<1> QED BY <1>1, <1>2 DEF Emitted

LEMMA EmittedGives ==
  ASSUME NEW ev \in Emitted PROVE Gives(ev) \subseteq Rows
<1>1. ev.kind = "registered" => ev.who \in Users
  BY DEF Emitted, Asked, Tombstone, Ev
<1>2. ev.kind \in {"added", "changed"} => ev.who \in Actors /\ ev.where \in Tenants /\ ev.roles \in RoleSets
  BY DEF Emitted, Asked, Tombstone, Ev
<1> QED BY <1>1, <1>2 DEF Gives, Rows, Roles, Actors, Entities

LEMMA EmittedFolds ==
  ASSUME NEW ev \in Emitted
  PROVE  /\ OfMembership(ev) => /\ ev.who \in Actors /\ ev.where \in Tenants
                                /\ ev.roles \in SUBSET Roles
         /\ ~OfMembership(ev) => Stream(ev) \in Entities
         /\ ev.kind = "botRegistered" => ev.who \in Bots /\ ev.where \in Users
<1> USE DEF OfMembership, Stream, OfTenant, Ev, Roles, Actors, Entities
<1>1. CASE ev \in Asked
  BY <1>1 DEF Asked
<1>2. CASE ev \in {Tombstone(e) : e \in Users \cup Tenants}
  BY <1>2 DEF Tombstone
<1> QED BY <1>1, <1>2 DEF Emitted

-----------------------------------------------------------------------------
(* Types.                                                                   *)

LEMMA EmitTyped ==
  ASSUME Typed, NEW ev \in Emitted, Emit(ev)
  PROVE  /\ journal' \in Seq(Event) /\ Len(journal') = Len(journal) + 1
         /\ Len(journal') <= MaxEvents
         /\ entity' \in [Entities -> States] /\ owner' \in [Bots -> Users \cup {None}]
         /\ member' \in [Pairs -> (SUBSET Roles) \cup {None}]
         /\ Recorded'
         /\ \A i \in 1 .. Len(journal) : journal'[i] = journal[i]
<1> USE DEF Typed, TypeOK, LogTypeOK
<1>1. journal' = Append(journal, ev) /\ ev \in Event /\ Len(journal) < MaxEvents
  BY EmittedIsEvent DEF Emit
<1>2. /\ journal' \in Seq(Event) /\ Len(journal') = Len(journal) + 1
      /\ \A i \in 1 .. Len(journal) : journal'[i] = journal[i]
      /\ journal'[Len(journal) + 1] = ev
  BY <1>1
<1>3. Len(journal') <= MaxEvents
  BY <1>1, <1>2, GrantsAssumption
<1>4. Recorded'
  BY <1>2 DEF Recorded
<1>5. CASE OfMembership(ev)
  <2>1. <<ev.who, ev.where>> \in Pairs /\ ev.roles \in SUBSET Roles
    BY <1>5, EmittedFolds DEF Pairs
  <2>2. member' \in [Pairs -> (SUBSET Roles) \cup {None}] /\ UNCHANGED <<entity, owner>>
    BY <1>5, <2>1 DEF Emit, Fold, FoldMembership, FoldState
  <2> QED BY <1>2, <1>3, <1>4, <2>2
<1>6. CASE ~OfMembership(ev)
  <2>1. Stream(ev) \in Entities /\ (ev.kind = "botRegistered" => ev.who \in Bots /\ ev.where \in Users)
    BY <1>6, EmittedFolds
  <2>2. entity' \in [Entities -> States]
    BY <1>6, <2>1 DEF Emit, Fold, FoldMembership, FoldState, States
  <2>3. owner' \in [Bots -> Users \cup {None}] /\ UNCHANGED member
    BY <1>6, <2>1 DEF Emit, Fold, FoldMembership, FoldState
  <2> QED BY <1>2, <1>3, <1>4, <2>2, <2>3
<1> QED BY <1>5, <1>6

LEMMA InitTyped == Init => Typed
<1> SUFFICES ASSUME Init PROVE Typed
  OBVIOUS
<1>1. journal = <<>> /\ Len(journal) = 0
  BY DEF Init, InitLog
<1>2. LogTypeOK
  BY <1>1, GrantsAssumption DEF Init, InitLog, LogTypeOK, States, NoBots, NoMembers
<1> QED BY <1>1, <1>2 DEF Init, Typed, TypeOK, Recorded

LEMMA StepTyped == Typed /\ [Next]_vars => Typed'
<1> SUFFICES ASSUME Typed, [Next]_vars PROVE Typed'
  OBVIOUS
<1> USE DEF Typed, TypeOK, LogTypeOK
<1>1. CASE Dispatch
  <2>1. PICK ev \in Emitted : Emit(ev)
    BY <1>1 DEF Dispatch, Emitted
  <2>2. UNCHANGED <<host, casbin>>
    BY <1>1 DEF Dispatch
  <2>3. cpos' \in 0 .. Len(journal')
    BY <2>1, <2>2, EmitTyped DEF casbin
  <2> QED BY <2>1, <2>2, <2>3, EmitTyped DEF casbin
<1>2. CASE Project
  <2>1. journal[cpos + 1] \in Emitted /\ cpos + 1 \in 1 .. Len(journal)
    BY <1>2 DEF Project, Recorded
  <2>2. Gives(journal[cpos + 1]) \subseteq Rows
    BY <2>1, EmittedGives
  <2>3. policy' \subseteq Rows /\ edges' \subseteq Entities
    BY <1>2, <2>2 DEF Project, Handle, Rows
  <2> QED BY <1>2, <2>1, <2>3 DEF Project, log, Recorded, Rows
<1>3. CASE Drained
  BY <1>3 DEF Drained, log, casbin, Recorded
<1>4. CASE Rebuild
  BY <1>4 DEF Rebuild, log, Recorded
<1>5. CASE Restart
  BY <1>5 DEF Restart, log, Recorded
<1>6. CASE UNCHANGED vars
  BY <1>6 DEF vars, log, casbin, Recorded
<1> QED BY <1>1, <1>2, <1>3, <1>4, <1>5, <1>6 DEF Next

\* The variables of the aggregates and of the Casbin projection keep their types.
THEOREM TypeCorrect == Spec => []TypeOK
<1>1. Typed => TypeOK
  BY DEF Typed
<1> QED BY <1>1, InitTyped, StepTyped, PTL DEF Spec

LEMMA AlwaysTyped == Spec => []Typed
BY InitTyped, StepTyped, PTL DEF Spec

-----------------------------------------------------------------------------
(* Replay.                                                                  *)

\* One more event: what it grants is owed, and what was owed unless it takes it.
LEMMA OneMore ==
  ASSUME NEW p \in Nat, NEW row
  PROVE  Justified(row, p + 1) <=> \/ row \in Gives(journal[p + 1])
                                   \/ Justified(row, p) /\ ~Takes(journal[p + 1], row)
<1>1. ASSUME Justified(row, p + 1)
      PROVE  \/ row \in Gives(journal[p + 1])
             \/ Justified(row, p) /\ ~Takes(journal[p + 1], row)
  <2>1. PICK i \in 1 .. p + 1 : /\ row \in Gives(journal[i])
                               /\ \A j \in i + 1 .. p + 1 : ~Takes(journal[j], row)
    BY <1>1 DEF Justified
  <2>2. CASE i = p + 1
    BY <2>1, <2>2
  <2>3. CASE i # p + 1
    <3>1. i \in 1 .. p /\ p + 1 \in i + 1 .. p + 1 /\ \A j \in i + 1 .. p : j \in i + 1 .. p + 1
      BY <2>3
    <3> QED BY <2>1, <3>1 DEF Justified
  <2> QED BY <2>2, <2>3
<1>2. ASSUME row \in Gives(journal[p + 1])
      PROVE  Justified(row, p + 1)
  <2>1. p + 1 \in 1 .. p + 1 /\ \A j \in (p + 1) + 1 .. p + 1 : FALSE
    OBVIOUS
  <2> QED BY <1>2, <2>1 DEF Justified
<1>3. ASSUME Justified(row, p), ~Takes(journal[p + 1], row)
      PROVE  Justified(row, p + 1)
  <2>1. PICK i \in 1 .. p : /\ row \in Gives(journal[i])
                           /\ \A j \in i + 1 .. p : ~Takes(journal[j], row)
    BY <1>3 DEF Justified
  <2>2. i \in 1 .. p + 1 /\ \A j \in i + 1 .. p + 1 : j \in i + 1 .. p \/ j = p + 1
    OBVIOUS
  <2> QED BY <1>3, <2>1, <2>2 DEF Justified
<1> QED BY <1>1, <1>2, <1>3

LEMMA NothingOwedAtFirst ==
  ASSUME NEW row PROVE ~Justified(row, 0)
BY DEF Justified

\* What is owed depends on the events applied and no others.
LEMMA OwedSame ==
  ASSUME NEW row, NEW p \in Nat, \A i \in 1 .. p : journal'[i] = journal[i]
  PROVE  (\E i \in 1 .. p : /\ row \in Gives(journal'[i])
                            /\ \A j \in i + 1 .. p : ~Takes(journal'[j], row))
         <=> Justified(row, p)
<1>1. \A i \in 1 .. p : \A j \in i + 1 .. p : j \in 1 .. p
  OBVIOUS
<1> QED BY <1>1 DEF Justified

LEMMA InitOwed == Init => Owed
BY NothingOwedAtFirst DEF Init, Owed

LEMMA StepOwed == Typed /\ Owed /\ [Next]_vars => Owed'
<1> SUFFICES ASSUME Typed, Owed, [Next]_vars PROVE Owed'
  OBVIOUS
<1>0. cpos \in Nat /\ cpos <= Len(journal) /\ Len(journal) \in Nat
  BY DEF Typed, TypeOK, LogTypeOK
<1>1. CASE Dispatch
  <2>1. PICK ev \in Emitted : Emit(ev)
    BY <1>1 DEF Dispatch, Emitted
  <2>2. /\ Len(journal') = Len(journal) + 1
        /\ \A i \in 1 .. Len(journal) : journal'[i] = journal[i]
    BY <2>1, EmitTyped
  <2>3. policy' = policy /\ cpos' = cpos
    BY <1>1 DEF Dispatch, casbin
  <2>4. \A row : Justified(row, cpos)' <=> Justified(row, cpos)
    <3> SUFFICES ASSUME NEW row PROVE Justified(row, cpos)' <=> Justified(row, cpos)
      OBVIOUS
    <3>1. \A i \in 1 .. cpos : journal'[i] = journal[i]
      BY <1>0, <2>2
    <3>2. Justified(row, cpos)' <=>
            \E i \in 1 .. cpos : /\ row \in Gives(journal'[i])
                                 /\ \A j \in i + 1 .. cpos : ~Takes(journal'[j], row)
      BY <2>3 DEF Justified, Gives, Takes
    <3> QED BY <1>0, <3>1, <3>2, OwedSame
  <2>5. \A i \in cpos + 1 .. Len(journal) : i \in cpos' + 1 .. Len(journal') /\ journal'[i] = journal[i]
    BY <1>0, <2>2, <2>3
  <2>6. \A i \in cpos + 1 .. Len(journal) : Gives(journal[i])' = Gives(journal[i])
    BY <2>5 DEF Gives
  <2> QED BY <2>3, <2>4, <2>5, <2>6 DEF Owed
<1>2. CASE Project
  <2> DEFINE e == journal[cpos + 1]
  <2>1. policy' = {row \in policy : ~Takes(e, row)} \cup Gives(e)
    BY <1>2 DEF Project, Handle
  <2>2. cpos' = cpos + 1 /\ journal' = journal
    BY <1>2 DEF Project, log
  <2>3. \A row : Justified(row, cpos)' <=> \/ row \in Gives(e)
                                           \/ Justified(row, cpos) /\ ~Takes(e, row)
    <3> SUFFICES ASSUME NEW row
                 PROVE  Justified(row, cpos)' <=> \/ row \in Gives(e)
                                                  \/ Justified(row, cpos) /\ ~Takes(e, row)
      OBVIOUS
    <3>1. Justified(row, cpos)' <=> Justified(row, cpos + 1)
      BY <2>2 DEF Justified, Gives, Takes
    <3> QED BY <1>0, <3>1, OneMore
  <2>4. ASSUME NEW row \in policy'
        PROVE  \/ Justified(row, cpos)'
               \/ \E i \in cpos' + 1 .. Len(journal') : row \in Gives(journal'[i])
    <3>1. CASE row \in Gives(e)
      BY <2>3, <3>1
    <3>2. CASE row \in policy /\ ~Takes(e, row) /\ row \notin Gives(e)
      <4>1. CASE Justified(row, cpos)
        BY <2>3, <3>2, <4>1
      <4>2. ASSUME NEW i \in cpos + 1 .. Len(journal), row \in Gives(journal[i])
            PROVE  i \in cpos' + 1 .. Len(journal') /\ row \in Gives(journal'[i])
        <5>1. i # cpos + 1
          BY <3>2, <4>2
        <5> QED BY <1>0, <2>2, <4>2, <5>1
      <4> QED BY <3>2, <4>1, <4>2 DEF Owed
    <3> QED BY <2>1, <3>1, <3>2
  <2>5. ASSUME NEW row \in Rows, Justified(row, cpos)' PROVE row \in policy'
    BY <2>1, <2>3, <2>5 DEF Owed
  <2>6. \A i : Gives(journal[i])' = Gives(journal'[i])
    BY DEF Gives
  <2>7. Rows' = Rows
    BY DEF Rows
  <2> QED BY <2>4, <2>5, <2>6, <2>7 DEF Owed
<1>3. CASE Drained
  BY <1>3 DEF Drained, log, casbin, Owed, Justified, Gives, Takes
<1>4. CASE Rebuild
  <2>1. policy' = policy /\ journal' = journal /\ cpos' = 0
    BY <1>4 DEF Rebuild, log
  <2>2. \A row : ~Justified(row, cpos)'
    BY <2>1 DEF Justified
  <2>3. ASSUME NEW row \in policy
        PROVE  \E i \in 0 + 1 .. Len(journal) : row \in Gives(journal[i])
    <3>1. CASE Justified(row, cpos)
      <4>1. PICK i \in 1 .. cpos : row \in Gives(journal[i])
        BY <3>1 DEF Justified
      <4> QED BY <1>0, <4>1
    <3>2. ASSUME NEW i \in cpos + 1 .. Len(journal), row \in Gives(journal[i])
          PROVE  i \in 0 + 1 .. Len(journal)
      BY <1>0
    <3> QED BY <3>1, <3>2 DEF Owed
  <2>4. \A i : Gives(journal[i])' = Gives(journal[i])
    BY <2>1 DEF Gives
  <2> QED BY <2>1, <2>2, <2>3, <2>4 DEF Owed
<1>5. CASE Restart
  <2>1. policy' = {} /\ cpos' = 0
    BY <1>5 DEF Restart
  <2>2. \A row : ~Justified(row, cpos)'
    BY <2>1 DEF Justified
  <2> QED BY <2>1, <2>2 DEF Owed
<1>6. CASE UNCHANGED vars
  BY <1>6 DEF vars, log, casbin, Owed, Justified, Gives, Takes
<1> QED BY <1>1, <1>2, <1>3, <1>4, <1>5, <1>6 DEF Next

\* Once the projection is through the journal, the enforcer holds exactly the rows
\* the journal owes, however often it was replayed and over whatever rows.
THEOREM ReplayConverges == Spec => []PolicyConverges
<1>1. Typed /\ Owed => PolicyConverges
  <2> SUFFICES ASSUME Typed, Owed, cpos = Len(journal)
               PROVE  policy = {row \in Rows : Justified(row, cpos)}
    BY DEF PolicyConverges, Rows
  <2>1. Len(journal) \in Nat /\ policy \subseteq Rows
    BY DEF Typed, TypeOK, LogTypeOK, Rows
  <2>2. ~\E i \in cpos + 1 .. Len(journal) : TRUE
    BY <2>1
  <2> QED BY <2>1, <2>2 DEF Owed
<1> QED BY <1>1, InitTyped, StepTyped, InitOwed, StepOwed, PTL DEF Spec

-----------------------------------------------------------------------------
\* A role is in force only in a domain the hierarchy is mirrored into, in every
\* state: a tenant's deletion takes the roles and the hierarchy together.
THEOREM HierarchyHolds == Spec => []HierarchySeeded
<1>1. Init => HierarchySeeded
  BY DEF Init, HierarchySeeded
<1>2. Typed /\ HierarchySeeded /\ [Next]_vars => HierarchySeeded'
  <2> SUFFICES ASSUME Typed, HierarchySeeded, [Next]_vars PROVE HierarchySeeded'
    OBVIOUS
  <2> USE DEF HierarchySeeded
  <2>1. CASE Project
    <3> DEFINE e == journal[cpos + 1]
    <3>1. /\ policy' = {row \in policy : ~Takes(e, row)} \cup Gives(e)
          /\ edges' = (IF e.kind = "tenantDeleted" THEN edges \ {e.where} ELSE edges)
                      \cup {row[3] : row \in Gives(e)}
      BY <2>1 DEF Project, Handle
    <3>2. ASSUME NEW row \in policy, ~Takes(e, row) PROVE row[3] \in edges'
      <4>1. e.kind = "tenantDeleted" => row[3] # e.where
        BY <3>2 DEF Takes
      <4> QED BY <3>1, <4>1
    <3>3. ASSUME NEW row \in Gives(e) PROVE row[3] \in edges'
      BY <3>1
    <3> QED BY <3>1, <3>2, <3>3
  <2>2. CASE Dispatch
    BY <2>2 DEF Dispatch, casbin
  <2>3. CASE Drained
    BY <2>3 DEF Drained, casbin
  <2>4. CASE Rebuild \/ Restart
    BY <2>4 DEF Rebuild, Restart
  <2>5. CASE UNCHANGED vars
    BY <2>5 DEF vars, casbin
  <2> QED BY <2>1, <2>2, <2>3, <2>4, <2>5 DEF Next
<1> QED BY <1>1, <1>2, InitTyped, StepTyped, PTL DEF Spec

-----------------------------------------------------------------------------
(* What the journal owes is what the aggregates say.                        *)

\* A user's own domain, and a tenant.
Own(row) == /\ row[1] \in Users /\ row[3] = row[1]
            /\ entity[row[1]] = "active" /\ row[2] \in DefaultRoles
Member(row) == /\ row[3] \in Tenants
               /\ member[<<row[1], row[3]>>] # None /\ ~Cut(row[1], row[3])
               /\ row[2] \in member[<<row[1], row[3]>>]

Agreed == \A row \in Rows : Justified(row, Len(journal)) <=> Own(row) \/ Member(row)

LEMMA EmittedShape ==
  ASSUME NEW ev \in Emitted
  PROVE  \/ ev.kind = "registered" /\ ev.who \in Users /\ ev.roles = DefaultRoles
         \/ ev.kind = "botRegistered" /\ ev.who \in Bots
         \/ ev.kind = "botDeleted" /\ ev.who \in Bots
         \/ ev.kind \in {"tenantCreated", "suspended", "reactivated"} /\ ev.where \in Tenants
         \/ ev.kind \in {"added", "changed", "removed"} /\ ev.who \in Actors /\ ev.where \in Tenants
         \/ ev.kind = "userDeleted" /\ ev.who \in Users
         \/ ev.kind = "tenantDeleted" /\ ev.where \in Tenants
<1>1. CASE ev \in Asked
  BY <1>1 DEF Asked, Ev
<1>2. CASE ev \in {Tombstone(e) : e \in Users \cup Tenants}
  BY <1>2 DEF Tombstone, Ev
<1> QED BY <1>1, <1>2 DEF Emitted

\* A deletion cuts the pairs of the deleted, a grant ends the cut of its pair.
LEMMA CutStep ==
  ASSUME Typed, NEW ev \in Emitted, Emit(ev), NEW a, NEW t
  PROVE  Cut(a, t)' <=>
           \/ Deletes(ev, a) \/ Deletes(ev, t)
           \/ Cut(a, t) /\ ~(ev.kind \in {"added", "changed"} /\ <<ev.who, ev.where>> = <<a, t>>)
<1> DEFINE n == Len(journal)
           G(e) == e.kind \in {"added", "changed"} => <<e.who, e.where>> # <<a, t>>
           D(e) == Deletes(e, a) \/ Deletes(e, t)
<1>1. /\ n \in Nat /\ Len(journal') = n + 1 /\ journal'[n + 1] = ev
      /\ \A i \in 1 .. n : journal'[i] = journal[i]
  BY EmitTyped, EmittedIsEvent DEF Typed, TypeOK, LogTypeOK, Emit
<1>2. Cut(a, t) <=> \E i \in 1 .. n : D(journal[i]) /\ \A j \in i .. n : G(journal[j])
  BY DEF Cut
<1>3. Cut(a, t)' <=> \E i \in 1 .. n + 1 : D(journal'[i]) /\ \A j \in i .. n + 1 : G(journal'[j])
  BY <1>1 DEF Cut, Deletes, Stream, OfTenant
<1>4. D(ev) => G(ev)
  BY DEF Deletes
<1> HIDE DEF G, D
<1>5. ASSUME Cut(a, t)' PROVE D(ev) \/ (Cut(a, t) /\ G(ev))
  <2>1. PICK i \in 1 .. n + 1 : D(journal'[i]) /\ \A j \in i .. n + 1 : G(journal'[j])
    BY <1>3, <1>5
  <2>2. CASE i = n + 1
    BY <1>1, <2>1, <2>2
  <2>3. CASE i # n + 1
    <3>1. i \in 1 .. n /\ n + 1 \in i .. n + 1 /\ \A j \in i .. n : j \in i .. n + 1 /\ j \in 1 .. n
      BY <1>1, <2>3
    <3> QED BY <1>1, <1>2, <2>1, <3>1
  <2> QED BY <2>2, <2>3
<1>6. ASSUME D(ev) PROVE Cut(a, t)'
  <2>1. n + 1 \in 1 .. n + 1 /\ \A j \in n + 1 .. n + 1 : j = n + 1
    BY <1>1
  <2> QED BY <1>1, <1>3, <1>4, <1>6, <2>1
<1>7. ASSUME Cut(a, t), G(ev) PROVE Cut(a, t)'
  <2>1. PICK i \in 1 .. n : D(journal[i]) /\ \A j \in i .. n : G(journal[j])
    BY <1>2, <1>7
  <2>2. /\ i \in 1 .. n + 1
        /\ \A j \in i .. n + 1 : j = n + 1 \/ (j \in i .. n /\ j \in 1 .. n)
    BY <1>1
  <2> QED BY <1>1, <1>3, <1>7, <2>1, <2>2
<1> QED BY <1>5, <1>6, <1>7 DEF G, D

LEMMA OwnStep ==
  ASSUME Typed, NEW ev \in Emitted, Emit(ev), NEW row \in Rows, row[3] \notin Tenants
  PROVE  Own(row)' <=> row \in Gives(ev) \/ (Own(row) /\ ~Takes(ev, row))
<1> USE GrantsAssumption DEF Typed, TypeOK, LogTypeOK, Own, Gives, Takes, Stream, OfTenant, OfMembership,
      Actors, Entities, Rows
<1>1. CASE OfMembership(ev)
  <2>1. entity' = entity /\ ev.where \in Tenants
    BY <1>1, EmittedShape DEF Emit, Fold, FoldMembership, FoldState
  <2> QED BY <1>1, <2>1
<1>2. CASE ~OfMembership(ev)
  <2>1. /\ entity' = [entity EXCEPT ![Stream(ev)] =
                        CASE ev.kind = "suspended" -> "suspended"
                          [] ev.kind \in {"userDeleted", "botDeleted", "tenantDeleted"} -> "deleted"
                          [] OTHER -> "active"]
        /\ Stream(ev) \in Entities
    BY <1>2, EmittedFolds DEF Emit, Fold, FoldMembership, FoldState
  <2>2. CASE ev.kind = "registered" /\ ev.who \in Users
    <3>1. Gives(ev) = {<<ev.who, r, ev.who>> : r \in DefaultRoles} /\ ~Takes(ev, row)
      BY <2>2
    <3>2. row \in Gives(ev) <=> row[1] = ev.who /\ row[3] = ev.who /\ row[2] \in DefaultRoles
      BY <3>1
    <3>3. \A u \in Users : entity'[u] = IF u = ev.who THEN "active" ELSE entity[u]
      BY <2>1, <2>2
    <3> QED BY <2>2, <3>1, <3>2, <3>3
  <2>3. CASE ev.kind = "userDeleted" /\ ev.who \in Users
    <3>1. \A u \in Users : entity'[u] = IF u = ev.who THEN "deleted" ELSE entity[u]
      BY <2>1, <2>3
    <3> QED BY <2>3, <3>1
  <2>4. CASE ev.kind \in {"botRegistered", "botDeleted"} /\ ev.who \in Bots
    <3>1. \A u \in Users : entity'[u] = entity[u]
      BY <2>1, <2>4
    <3> QED BY <2>4, <3>1
  <2>5. CASE ev.kind \in {"tenantCreated", "suspended", "reactivated", "tenantDeleted"} /\ ev.where \in Tenants
    <3>1. \A u \in Users : entity'[u] = entity[u]
      BY <2>1, <2>5
    <3> QED BY <2>5, <3>1
  <2> QED BY <1>2, <2>2, <2>3, <2>4, <2>5, EmittedShape
<1> QED BY <1>1, <1>2

LEMMA MemberStep ==
  ASSUME Typed, NEW ev \in Emitted, Emit(ev), NEW row \in Rows, row[3] \in Tenants
  PROVE  Member(row)' <=> row \in Gives(ev) \/ (Member(row) /\ ~Takes(ev, row))
<1> DEFINE a == row[1]
           t == row[3]
<1>0. /\ a \in Actors /\ t \in Tenants /\ <<a, t>> \in Pairs /\ a \notin Tenants
      /\ row = <<a, row[2], t>>
  BY GrantsAssumption DEF Rows, Pairs
<1>1. CASE OfMembership(ev)
  <2>1. /\ ev.who \in Actors /\ ev.where \in Tenants /\ <<ev.who, ev.where>> \in Pairs
        /\ ev.roles \in SUBSET Roles
    BY <1>1, EmittedFolds DEF Pairs
  <2>2. member' = [member EXCEPT ![<<ev.who, ev.where>>] = IF ev.kind = "removed" THEN None ELSE ev.roles]
    BY <1>1 DEF Emit, Fold, FoldMembership, FoldState
  <2>3. ~Deletes(ev, a) /\ ~Deletes(ev, t)
    BY <1>1 DEF Deletes, OfMembership
  <2>4. CASE <<ev.who, ev.where>> = <<a, t>>
    <3>1. member'[<<a, t>>] = IF ev.kind = "removed" THEN None ELSE ev.roles
      BY <2>2, <2>4, <1>0 DEF Typed, TypeOK, LogTypeOK
    <3>2. CASE ev.kind = "removed"
      BY <2>4, <3>1, <3>2 DEF Member, Gives, Takes
    <3>3. CASE ev.kind \in {"added", "changed"}
      <4>1. ~Cut(a, t)'
        BY <2>3, <2>4, <3>3, CutStep
      <4>2. ev.roles # None
        BY <2>1, GrantsAssumption
      <4>3. row \in Gives(ev) <=> row[2] \in ev.roles
        BY <1>0, <2>4, <3>3 DEF Gives
      <4>4. ~Member(row) \/ Takes(ev, row)
        <5>1. CASE ev.kind = "added"
          BY <1>1, <2>4, <5>1 DEF Emit, Decides, DecidesMembership, Member
        <5>2. CASE ev.kind = "changed"
          BY <2>4, <5>2 DEF Takes
        <5> QED BY <3>3, <5>1, <5>2
      <4> QED BY <1>0, <3>1, <3>3, <4>1, <4>2, <4>3, <4>4 DEF Member
    <3> QED BY <1>1, <3>2, <3>3 DEF OfMembership
  <2>5. CASE <<ev.who, ev.where>> # <<a, t>>
    <3>1. member'[<<a, t>>] = member[<<a, t>>]
      BY <1>0, <2>2, <2>5 DEF Typed, TypeOK, LogTypeOK
    <3>2. Cut(a, t)' <=> Cut(a, t)
      BY <2>3, <2>5, CutStep
    <3>3. row \notin Gives(ev) /\ ~Takes(ev, row)
      BY <1>0, <1>1, <2>5 DEF Gives, Takes, OfMembership
    <3> QED BY <3>1, <3>2, <3>3 DEF Member
  <2> QED BY <2>4, <2>5
<1>2. CASE ~OfMembership(ev)
  <2>1. member' = member
    BY <1>2 DEF Emit, Fold, FoldMembership, FoldState
  <2>2. ev.kind \notin {"added", "changed", "removed"}
    BY <1>2 DEF OfMembership
  <2>3. row \notin Gives(ev)
    <3>1. ev.kind = "registered" => ev.who \in Users
      BY EmittedShape
    <3> QED BY <1>0, <2>2, <3>1 DEF Gives, Actors
  <2>4. Cut(a, t)' <=> Deletes(ev, a) \/ Deletes(ev, t) \/ Cut(a, t)
    BY <2>2, CutStep
  <2>5. Takes(ev, row) <=> Deletes(ev, a) \/ Deletes(ev, t)
    BY <1>0, <2>2, EmittedShape, GrantsAssumption DEF Takes, Deletes, Stream, OfTenant, Actors
  <2> QED BY <2>1, <2>3, <2>4, <2>5 DEF Member
<1> QED BY <1>1, <1>2

LEMMA InitAgreed == Init => Agreed
<1> SUFFICES ASSUME Init, NEW row \in Rows
             PROVE  Justified(row, Len(journal)) <=> Own(row) \/ Member(row)
  BY DEF Agreed
<1>1. Len(journal) = 0 /\ ~Justified(row, 0)
  BY NothingOwedAtFirst DEF Init, InitLog
<1>2. ~Own(row)
  BY DEF Init, InitLog, Own, Entities, Actors
<1>3. ~Member(row)
  BY DEF Init, InitLog, Member, NoMembers, Pairs, Rows
<1> QED BY <1>1, <1>2, <1>3

LEMMA StepAgreed == Typed /\ Agreed /\ [Next]_vars => Agreed'
<1> SUFFICES ASSUME Typed, Agreed, [Next]_vars PROVE Agreed'
  OBVIOUS
<1>1. CASE Dispatch
  <2>1. PICK ev \in Emitted : Emit(ev)
    BY <1>1 DEF Dispatch, Emitted
  <2> DEFINE n == Len(journal)
  <2>2. /\ n \in Nat /\ Len(journal') = n + 1 /\ journal'[n + 1] = ev
        /\ \A i \in 1 .. n : journal'[i] = journal[i]
    BY <2>1, EmitTyped, EmittedIsEvent DEF Typed, TypeOK, LogTypeOK, Emit
  <2> SUFFICES ASSUME NEW row \in Rows
               PROVE  Justified(row, Len(journal))' <=> Own(row)' \/ Member(row)'
    BY DEF Agreed, Rows
  <2>3. Justified(row, Len(journal))' <=> row \in Gives(ev) \/ (Justified(row, n) /\ ~Takes(ev, row))
    <3>1. ASSUME Justified(row, Len(journal))'
          PROVE  row \in Gives(ev) \/ (Justified(row, n) /\ ~Takes(ev, row))
      <4>1. PICK i \in 1 .. n + 1 : /\ row \in Gives(journal'[i])
                                   /\ \A j \in i + 1 .. n + 1 : ~Takes(journal'[j], row)
        BY <2>2, <3>1 DEF Justified, Gives, Takes
      <4>2. CASE i = n + 1
        BY <2>2, <4>1, <4>2
      <4>3. CASE i # n + 1
        <5>1. /\ i \in 1 .. n /\ n + 1 \in i + 1 .. n + 1
              /\ \A j \in i + 1 .. n : j \in i + 1 .. n + 1 /\ j \in 1 .. n
          BY <2>2, <4>3
        <5> QED BY <2>2, <4>1, <5>1 DEF Justified
      <4> QED BY <4>2, <4>3
    <3>2. ASSUME row \in Gives(ev) PROVE Justified(row, Len(journal))'
      <4>1. n + 1 \in 1 .. n + 1 /\ ~\E j \in (n + 1) + 1 .. n + 1 : TRUE
        BY <2>2
      <4>2. \E i \in 1 .. n + 1 : /\ row \in Gives(journal'[i])
                                  /\ \A j \in i + 1 .. n + 1 : ~Takes(journal'[j], row)
        BY <2>2, <3>2, <4>1
      <4> QED BY <2>2, <4>2 DEF Justified, Gives, Takes
    <3>3. ASSUME Justified(row, n), ~Takes(ev, row) PROVE Justified(row, Len(journal))'
      <4>1. PICK i \in 1 .. n : /\ row \in Gives(journal[i])
                               /\ \A j \in i + 1 .. n : ~Takes(journal[j], row)
        BY <3>3 DEF Justified
      <4>2. /\ i \in 1 .. n + 1
            /\ \A j \in i + 1 .. n + 1 : j = n + 1 \/ (j \in i + 1 .. n /\ j \in 1 .. n)
        BY <2>2
      <4>3. /\ row \in Gives(journal'[i])
            /\ \A j \in i + 1 .. n + 1 : ~Takes(journal'[j], row)
        BY <2>2, <3>3, <4>1, <4>2
      <4> QED BY <2>2, <4>2, <4>3 DEF Justified, Gives, Takes
    <3> QED BY <3>1, <3>2, <3>3
  <2>4. Justified(row, n) <=> Own(row) \/ Member(row)
    BY DEF Agreed
  <2>5. CASE row[3] \in Tenants
    <3>1. ~Own(row) /\ ~Own(row)'
      BY <2>5, GrantsAssumption DEF Own, Actors
    <3> QED BY <2>1, <2>3, <2>4, <2>5, <3>1, MemberStep
  <2>6. CASE row[3] \notin Tenants
    <3>1. ~Member(row) /\ ~Member(row)'
      BY <2>6 DEF Member
    <3> QED BY <2>1, <2>3, <2>4, <2>6, <3>1, OwnStep
  <2> QED BY <2>5, <2>6
<1>2. CASE UNCHANGED log
  <2>1. UNCHANGED <<journal, entity, member>>
    BY <1>2 DEF log
  <2> SUFFICES ASSUME NEW row \in Rows
               PROVE  Justified(row, Len(journal))' <=> Own(row)' \/ Member(row)'
    BY DEF Agreed, Rows
  <2>2. Justified(row, Len(journal))' <=> Justified(row, Len(journal))
    BY <2>1 DEF Justified, Gives, Takes
  <2>3. (Own(row)' <=> Own(row)) /\ (Member(row)' <=> Member(row))
    BY <2>1 DEF Own, Member, Cut, Deletes, Stream, OfTenant
  <2>4. Justified(row, Len(journal)) <=> Own(row) \/ Member(row)
    BY DEF Agreed
  <2> QED BY <2>2, <2>3, <2>4
<1>3. Next => Dispatch \/ UNCHANGED log
  BY DEF Next, Project, Drained, Rebuild, Restart
<1>4. UNCHANGED vars => UNCHANGED log
  BY DEF vars, log
<1> QED BY <1>1, <1>2, <1>3, <1>4

\* What Casbin enforces when the projection is through is what the memberships and
\* the users are by the folds of their streams, deletions cutting both.
THEOREM EnforcedAsGranted == Spec => []PolicyAgrees
<1>1. Typed /\ Owed /\ Agreed => PolicyAgrees
  <2> SUFFICES ASSUME Typed, Owed, Agreed, cpos = Len(journal) PROVE
        policy = {<<u, r, u>> : u \in {w \in Users : entity[w] = "active"}, r \in DefaultRoles}
                 \cup {row \in Actors \X Roles \X Tenants :
                         /\ member[<<row[1], row[3]>>] # None /\ ~Cut(row[1], row[3])
                         /\ row[2] \in member[<<row[1], row[3]>>]}
    BY DEF PolicyAgrees
  <2>1. policy = {row \in Rows : Own(row) \/ Member(row)}
    <3>1. Len(journal) \in Nat /\ policy \subseteq Rows
      BY DEF Typed, TypeOK, LogTypeOK, Rows
    <3>2. ~\E i \in cpos + 1 .. Len(journal) : TRUE
      BY <3>1
    <3>3. policy = {row \in Rows : Justified(row, Len(journal))}
      BY <3>1, <3>2 DEF Owed
    <3> QED BY <3>3 DEF Agreed
  <2>2. {row \in Rows : Own(row)} =
          {<<u, r, u>> : u \in {w \in Users : entity[w] = "active"}, r \in DefaultRoles}
    BY DEF Rows, Own, Actors, Entities, Roles
  <2>3. {row \in Rows : Member(row)} =
          {row \in Actors \X Roles \X Tenants :
             /\ member[<<row[1], row[3]>>] # None /\ ~Cut(row[1], row[3])
             /\ row[2] \in member[<<row[1], row[3]>>]}
    BY DEF Rows, Member, Entities
  <2> QED BY <2>1, <2>2, <2>3
<1> QED BY <1>1, InitTyped, StepTyped, InitOwed, StepOwed, InitAgreed, StepAgreed, PTL DEF Spec
=============================================================================
