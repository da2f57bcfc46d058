------------------------- MODULE SyncWorker_proofs -------------------------
(***************************************************************************)
(* Proofs about SyncWorker, for any finite sets of tabs and commands, any  *)
(* retry budget, with and without IndexedDB.                               *)
(***************************************************************************)
EXTENDS SyncWorker, FiniteSetTheorems, TLAPS

(* A load in progress belongs to the running flush and is the only one.    *)
LoadOK == loads = <<>> \/ (flushing /\ \E st : IsStore(st) /\ loads = <<st>>)

TypeInv == TypeOK /\ LoadOK

-----------------------------------------------------------------------------
(* The operators on stores preserve their shape.                           *)

\* Adding a command keeps a store a store (persistCommand).
LEMMA AddType ==
  ASSUME NEW st, IsStore(st), NEW c \in Cmds
  PROVE  IsStore(Add(st, c)) /\ DOMAIN Add(st, c) = DOMAIN st \cup {c}
<1>1. Cardinality(DOMAIN st) \in Nat
  BY CmdsAssumption, FS_Subset, FS_CardinalityType DEF IsStore
<1> QED BY <1>1 DEF Add, IsStore, Record

\* Deleting commands keeps a store a store (deleteCommand).
LEMMA WithoutType ==
  ASSUME NEW st, IsStore(st), NEW D
  PROVE  IsStore(Without(st, D)) /\ DOMAIN Without(st, D) = DOMAIN st \ D
<1> DEFINE older(p) == {d \in DOMAIN st \cap D : st[d].pos < p}
<1>1. \A p : Cardinality(older(p)) \in Nat
  <2> TAKE p
  <2>1. older(p) \subseteq Cmds
    BY DEF IsStore
  <2> HIDE DEF older
  <2> QED BY <2>1, CmdsAssumption, FS_Subset, FS_CardinalityType
<1>2. ASSUME NEW x \in DOMAIN st
      PROVE  [st[x] EXCEPT !.pos = @ - Cardinality(older(@))] \in Record
  <2>1. st[x] \in Record /\ st[x].pos \in Int
    BY <1>2 DEF IsStore, Record
  <2>2. Cardinality(older(st[x].pos)) \in Nat
    BY <1>1
  <2>3. st[x].pos - Cardinality(older(st[x].pos)) \in Int
    BY <2>1, <2>2
  <2> HIDE DEF older
  <2> QED BY <2>1, <2>3 DEF Record
<1>3. Without(st, D) = [x \in DOMAIN st \ D |->
                          [st[x] EXCEPT !.pos = @ - Cardinality(older(@))]]
  BY DEF Without
<1> HIDE DEF older
<1> QED BY <1>2, <1>3 DEF IsStore

\* Counting a retry keeps a store a store (incrementRetryCount).
LEMMA IncrementType ==
  ASSUME NEW st, IsStore(st), NEW S
  PROVE  IsStore(Increment(st, S)) /\ DOMAIN Increment(st, S) = DOMAIN st
BY DEF Increment, IsStore, Record

\* Aging keeps a store a store.
LEMMA AgedType ==
  ASSUME NEW st, IsStore(st), NEW c
  PROVE  /\ IsStore(Aged(st, c)) /\ DOMAIN Aged(st, c) = DOMAIN st
         /\ \A x \in DOMAIN st : Aged(st, c)[x].retries = st[x].retries
BY DEF Aged, IsStore, Record

\* Forgetting ports keeps the map of ports a map of ports (bye, broadcast).
LEMMA UnregisterType ==
  ASSUME DOMAIN ports \subseteq Tabs, ports \in [DOMAIN ports -> Int], NEW D
  PROVE  /\ DOMAIN Unregister(D) = DOMAIN ports \ D
         /\ Unregister(D) \in [DOMAIN ports \ D -> Int]
<1> DEFINE before(t) == {d \in DOMAIN ports \cap D : ports[d] < ports[t]}
<1>1. \A t : Cardinality(before(t)) \in Nat
  BY TabsAssumption, FS_Subset, FS_CardinalityType
<1>2. Unregister(D) = [t \in DOMAIN ports \ D |-> ports[t] - Cardinality(before(t))]
  BY DEF Unregister
<1> HIDE DEF before
<1> QED BY <1>1, <1>2

\* The same, for a step that assigns the result to ports.
LEMMA UnregisterStep ==
  ASSUME DOMAIN ports \subseteq Tabs, ports \in [DOMAIN ports -> Int], NEW D,
         ports' = Unregister(D)
  PROVE  DOMAIN ports' \subseteq Tabs /\ ports' \in [DOMAIN ports' -> Int]
<1>1. /\ DOMAIN Unregister(D) \subseteq Tabs
      /\ Unregister(D) \in [DOMAIN Unregister(D) -> Int]
  BY UnregisterType
<1> QED BY <1>1

\* What pickPort hands out: registered tabs, for commands still alive.
LEMMA AssignmentsType ==
  ASSUME NEW s, NEW alive \in SUBSET Cmds, NEW table, DOMAIN table \subseteq Tabs,
         rrIndex \in Nat, NEW pick \in Assignments(s, alive, table)
  PROVE  /\ DOMAIN pick.to \subseteq alive
         /\ \A c \in DOMAIN pick.to : pick.to[c] \in Tabs
         /\ pick.rr \in Nat
<1> DEFINE singles == alive \ Batched
           first   == IF alive \cap Batched = {} THEN 0 ELSE 1
           picks   == Cardinality(singles) + first
           n       == Cardinality(DOMAIN table)
<1>1. Cardinality(singles) \in Nat
  BY CmdsAssumption, FS_Subset, FS_CardinalityType
<1>2. n \in Nat
  BY TabsAssumption, FS_Subset, FS_CardinalityType
<1>3. CASE alive = {} \/ n = 0
  BY <1>3 DEF Assignments
<1>4. CASE ~(alive = {} \/ n = 0)
  <2>1. PICK a \in [alive -> DOMAIN table] :
            pick = [to |-> a, rr |-> ((rrIndex + picks - 1) % n) + 1]
    BY <1>4 DEF Assignments
  <2>2. (rrIndex + picks - 1) % n \in Nat
    <3>1. n \in Nat \ {0} /\ rrIndex + picks - 1 \in Int
      BY <1>1, <1>2, <1>4
    <3> HIDE DEF picks, n
    <3> QED BY <3>1
  <2> HIDE DEF picks, n
  <2> QED BY <2>1, <2>2
<1> QED BY <1>3, <1>4

-----------------------------------------------------------------------------
(* Type correctness.                                                       *)

\* An empty store is a store.
LEMMA EmptyStoreType == IsStore(EmptyStore) /\ DOMAIN EmptyStore = {}
BY DEF IsStore, EmptyStore

\* The initial state has the declared shape.
LEMMA InitTypeInv == Init => TypeInv
<1> SUFFICES ASSUME Init PROVE TypeInv
  OBVIOUS
<1>1. IsStore(idb) /\ IsStore(disk) /\ IsStore(mem)
  BY EmptyStoreType DEF Init
<1>2. DOMAIN ports \subseteq Tabs /\ ports \in [DOMAIN ports -> Int]
  BY DEF Init, EmptyPorts
<1>3. loads = <<>> /\ \A i \in DOMAIN loads : IsStore(loads[i])
  BY DEF Init
<1>4. HistoryTypeOK
  BY DEF Init, HistoryTypeOK, Fates
<1> QED BY <1>1, <1>2, <1>3, <1>4 DEF Init, TypeInv, TypeOK, LoadOK, Phases

\* The two stores are stores after a write of a store.
LEMMA SetStoreType ==
  ASSUME IsStore(idb), IsStore(mem), NEW st, IsStore(st), SetStore(st)
  PROVE  IsStore(idb') /\ IsStore(mem')
BY DEF SetStore

\* A call of flush leaves its flags and the load in progress well-formed.
LEMMA FlushType ==
  ASSUME TypeInv, NEW st, IsStore(st), Flush(st)
  PROVE  /\ flushing' \in BOOLEAN /\ flushPending' \in BOOLEAN
         /\ LoadOK' /\ \A i \in DOMAIN loads' : IsStore(loads'[i])
         /\ IsStore(disk') /\ renewed' \subseteq Cmds
<1>1. CASE flushing
  BY <1>1 DEF Flush, TypeInv, TypeOK, LoadOK, HistoryTypeOK
<1>2. CASE ~flushing
  <2>1. loads = <<>>
    BY <1>2 DEF TypeInv, LoadOK
  <2>2. /\ loads' = <<st>> /\ flushing' = TRUE /\ flushPending' = flushPending
        /\ disk' = idb /\ renewed' = {}
    BY <1>2, <2>1 DEF Flush, Load
  <2> QED BY <2>2 DEF LoadOK, TypeInv, TypeOK
<1> QED BY <1>1, <1>2 DEF TypeInv, TypeOK

\* The store the worker reads is a store, and so is the durable one.
LEMMA StoreType == TypeInv => IsStore(Store) /\ IsStore(Durable)
BY DEF TypeInv, TypeOK, Store, Durable

\* The messages of a round name commands and tabs.
LEMMA MessagesType ==
  ASSUME NEW to, DOMAIN to \subseteq Cmds, \A c \in DOMAIN to : to[c] \in Tabs,
         NEW m \in Messages(to)
  PROVE  m.cmds \subseteq Cmds /\ m.tab \in Tabs /\ m.single \in BOOLEAN
<1>1. CASE \E c \in DOMAIN to \ Batched :
             m = [cmds |-> {c}, tab |-> to[c], single |-> TRUE]
  BY <1>1
<1>2. CASE \E c \in DOMAIN to \cap Batched :
             m = [cmds |-> DOMAIN to \cap Batched, tab |-> to[c], single |-> FALSE]
  BY <1>2
<1> QED BY <1>1, <1>2 DEF Messages

\* Dropping the ports that throw keeps the map of ports well-formed.
LEMMA ReachableType ==
  ASSUME TypeInv
  PROVE  /\ DOMAIN Reachable \subseteq Tabs
         /\ Reachable \in [DOMAIN Reachable -> Int]
<1>1. DOMAIN ports \subseteq Tabs /\ ports \in [DOMAIN ports -> Int]
  BY DEF TypeInv, TypeOK
<1>2. CASE DeadPortThrows
  BY <1>1, <1>2, UnregisterType DEF Reachable
<1>3. CASE ~DeadPortThrows
  BY <1>1, <1>3 DEF Reachable
<1> QED BY <1>2, <1>3

-----------------------------------------------------------------------------
(* Each action keeps the shape of every variable.                          *)

\* doFlush keeps the shape of every variable.
LEMMA DoFlushType == TypeInv /\ DoFlush => TypeInv'
<1> SUFFICES ASSUME TypeInv, DoFlush PROVE TypeInv'
  OBVIOUS
<1>1. PICK s : IsStore(s) /\ loads = <<s>>
  BY DEF DoFlush, TypeInv, LoadOK
<1>2. Head(loads) = s /\ Tail(loads) = <<>>
  BY <1>1
<1> DEFINE dead  == GivenUp(s)
           table == IF dead = {} THEN ports ELSE Reachable
<1>3. PICK pick \in Assignments(s, DOMAIN s \ dead, table) :
        SendRound(dead, table, pick)
  BY <1>2 DEF DoFlush
<1>4. PICK gone, counted :
        SetStore(Increment(Without(Store, gone), counted))
  BY <1>3 DEF SendRound
<1>5. ports' = Reachable
  BY DEF DoFlush
<1>6. DOMAIN table \subseteq Tabs
  BY ReachableType DEF TypeInv, TypeOK
<1>7. /\ DOMAIN pick.to \subseteq DOMAIN s \ dead
      /\ \A c \in DOMAIN pick.to : pick.to[c] \in Tabs
      /\ pick.rr \in Nat
  <2>1. (DOMAIN s \ dead) \in SUBSET Cmds
    BY <1>1 DEF IsStore
  <2>2. rrIndex \in Nat
    BY DEF TypeInv, TypeOK
  <2> HIDE DEF dead, table
  <2> QED BY <1>6, <2>1, <2>2, AssignmentsType
<1>8. DOMAIN pick.to \subseteq Cmds
  BY <1>1, <1>7 DEF IsStore
<1> HIDE DEF dead, table
<1>9. IsStore(idb') /\ IsStore(mem')
  BY <1>4, StoreType, WithoutType, IncrementType, SetStoreType DEF TypeInv, TypeOK
<1>10. \A m \in outbox' : m.cmds \subseteq Cmds /\ m.tab \in Tabs /\ m.single \in BOOLEAN
  <2>1. outbox' = outbox \cup Messages(pick.to)
    BY <1>3 DEF SendRound
  <2> QED BY <2>1, <1>7, <1>8, MessagesType DEF TypeInv, TypeOK
<1>11. HistoryTypeOK'
  <2>1. dead \subseteq Cmds
    BY <1>1 DEF dead, GivenUp, IsStore
  <2>2. astray' \subseteq Cmds /\ uncounted' \subseteq Cmds
    BY <1>3, <1>8, <2>1 DEF SendRound, TypeInv, TypeOK, HistoryTypeOK
  <2>3. renewed' = {}
    BY DEF DoFlush
  <2> QED BY <1>3, <1>8, <2>1, <2>2, <2>3
          DEF SendRound, HistoryTypeOK, Fates, TypeInv, TypeOK
<1>12. rrIndex' \in Nat /\ counting' \in BOOLEAN
  BY <1>3, <1>7 DEF SendRound
<1>13. loads' = <<>>
  BY <1>2 DEF DoFlush
<1> QED BY <1>5, ReachableType, <1>9, <1>10, <1>11, <1>12, <1>13
        DEF DoFlush, TypeInv, TypeOK, LoadOK

\* The rest of a flush cycle: its end and the follow-up timer.
LEMMA FlushCycleType == TypeInv /\ (FlushEnd \/ FollowUp) => TypeInv'
<1> SUFFICES ASSUME TypeInv, FlushEnd \/ FollowUp PROVE TypeInv'
  OBVIOUS
<1>1. CASE FlushEnd
  <2>2. LoadOK' /\ \A i \in DOMAIN loads' : IsStore(loads'[i])
    <3>1. CASE flushPending
      <4>1. loads' = <<Store>> /\ flushing'
        BY <1>1, <3>1 DEF FlushEnd, Load
      <4> QED BY <4>1, StoreType DEF LoadOK
    <3>2. CASE ~flushPending
      <4>1. loads' = <<>>
        BY <1>1, <3>2 DEF FlushEnd
      <4> QED BY <4>1 DEF LoadOK
    <3> QED BY <3>1, <3>2
  <2>3. timers' \in Nat
    <3>1. timers' = timers \/ timers' = timers + 1
      BY <1>1 DEF FlushEnd
    <3> QED BY <3>1 DEF TypeInv, TypeOK
  <2>4. /\ flushing' \in BOOLEAN /\ flushPending' \in BOOLEAN
        /\ IsStore(disk') /\ renewed' \subseteq Cmds
    <3>1. CASE flushPending
      BY <1>1, <3>1 DEF FlushEnd, Load, TypeInv, TypeOK
    <3>2. CASE ~flushPending
      BY <1>1, <3>2 DEF FlushEnd, TypeInv, TypeOK, HistoryTypeOK
    <3> QED BY <3>1, <3>2
  <2> QED BY <1>1, <2>2, <2>3, <2>4
          DEF FlushEnd, TypeInv, TypeOK, queue, lapses, HistoryTypeOK
<1>2. CASE FollowUp
  <2>1. timers' \in Nat
    BY <1>2 DEF FollowUp, TypeInv, TypeOK
  <2> QED BY <1>2, <2>1, StoreType, FlushType
          DEF FollowUp, TypeInv, TypeOK, queue, lapses, HistoryTypeOK
<1> QED BY <1>1, <1>2

\* The start and the end of a worker's life.
LEMMA LifeType == TypeInv /\ (Boot \/ Kill) => TypeInv'
<1> SUFFICES ASSUME TypeInv, Boot \/ Kill PROVE TypeInv'
  OBVIOUS
<1>1. CASE Boot
  <2>1. /\ flushing' \in BOOLEAN /\ flushPending' \in BOOLEAN
        /\ LoadOK' /\ \A i \in DOMAIN loads' : IsStore(loads'[i])
        /\ IsStore(disk') /\ renewed' \subseteq Cmds
    <3>1. CASE online
      BY <1>1, <3>1, StoreType, FlushType DEF Boot
    <3>2. CASE ~online
      BY <1>1, <3>2 DEF Boot, TypeInv, TypeOK, LoadOK, HistoryTypeOK
    <3> QED BY <3>1, <3>2
  <2>2. db' \in Phases
    BY <1>1 DEF Boot, Phases
  <2>3. DOMAIN ports' \subseteq Tabs /\ ports' \in [DOMAIN ports' -> Int]
    BY <1>1, ReachableType DEF Boot, TypeInv, TypeOK
  <2> QED BY <1>1, <2>1, <2>2, <2>3 DEF Boot, TypeInv, TypeOK, queue, lapses, HistoryTypeOK
<1>2. CASE Kill
  <2>1. IsStore(mem') /\ IsStore(idb') /\ IsStore(disk')
    BY <1>2, EmptyStoreType DEF Kill, TypeInv, TypeOK
  <2>2. loads' = <<>> /\ \A i \in DOMAIN loads' : IsStore(loads'[i])
    BY <1>2 DEF Kill
  <2>3. DOMAIN ports' \subseteq Tabs /\ ports' \in [DOMAIN ports' -> Int]
    BY <1>2 DEF Kill, EmptyPorts
  <2>4. HistoryTypeOK'
    <3>1. DOMAIN disk \subseteq Cmds
      BY DEF TypeInv, TypeOK, IsStore
    <3>2. astray' \subseteq Cmds /\ uncounted' \subseteq Cmds
      BY <1>2, <3>1 DEF Kill, TypeInv, TypeOK, HistoryTypeOK
    <3> QED BY <1>2, <3>2 DEF Kill, TypeInv, TypeOK, HistoryTypeOK, Fates
  <2>5. db' \in Phases
    BY <1>2 DEF Kill, Phases
  <2> QED BY <1>2, <2>1, <2>2, <2>3, <2>4, <2>5 DEF Kill, TypeInv, TypeOK, LoadOK
<1> QED BY <1>1, <1>2

\* Messages from tabs that change the queue.
LEMMA CommandType ==
  ASSUME TypeInv, NEW t \in Tabs, NEW c \in Cmds, Enqueue(t, c) \/ Ack(t, c)
  PROVE  TypeInv'
<1>1. IsStore(idb') /\ IsStore(mem')
  <2>1. CASE Enqueue(t, c) /\ c \in Valid
    <3>1. PICK stored : SetStore(IF stored = {} THEN Store ELSE Add(Store, c))
      BY <2>1 DEF Enqueue
    <3>2. IsStore(IF stored = {} THEN Store ELSE Add(Store, c))
      BY StoreType, AddType
    <3> QED BY <3>1, <3>2, SetStoreType DEF TypeInv, TypeOK
  <2>2. CASE Enqueue(t, c) /\ c \notin Valid
    BY <2>2 DEF Enqueue, queue, TypeInv, TypeOK
  <2>3. CASE Ack(t, c)
    <3>1. PICK gone : SetStore(Without(Store, gone))
      BY <2>3 DEF Ack
    <3> QED BY <3>1, StoreType, WithoutType, SetStoreType DEF TypeInv, TypeOK
  <2> QED BY <2>1, <2>2, <2>3
<1>2. HistoryTypeOK'
  <2>1. CASE Enqueue(t, c)
    BY <2>1 DEF Enqueue, lapses, TypeInv, TypeOK, HistoryTypeOK, Fates
  <2>2. CASE Ack(t, c)
    BY <2>2 DEF Ack, TypeInv, TypeOK, HistoryTypeOK, Fates
  <2> QED BY <2>1, <2>2
<1>3. DOMAIN ports' \subseteq Tabs /\ ports' \in [DOMAIN ports' -> Int]
  <2>1. ports' = ports \/ ports' = Reachable
    BY DEF Enqueue, Ack
  <2> QED BY <2>1, ReachableType DEF TypeInv, TypeOK
<1>4. UNCHANGED <<db, disk, live, rrIndex, online, flags, outbox>>
  BY DEF Enqueue, Ack
<1> QED BY <1>1, <1>2, <1>3, <1>4 DEF flags, TypeInv, TypeOK, LoadOK

\* The retry timer.
LEMMA PostRetryType ==
  ASSUME TypeInv, NEW m \in outbox, PostRetry(m)
  PROVE  TypeInv'
<1>1. DOMAIN ports' \subseteq Tabs /\ ports' \in [DOMAIN ports' -> Int]
  <2>1. ports' = ports \/ ports' = Unregister({m.tab})
    BY DEF PostRetry
  <2>2. CASE ports' = ports
    BY <2>2 DEF TypeInv, TypeOK
  <2>3. CASE ports' = Unregister({m.tab})
    BY <2>3, UnregisterStep DEF TypeInv, TypeOK
  <2> QED BY <2>1, <2>2, <2>3
<1>2. rrIndex' \in Nat
  <2> DEFINE n == Cardinality(DOMAIN ports \ {m.tab})
  <2>1. n \in Nat
    BY TabsAssumption, FS_Subset, FS_CardinalityType DEF TypeInv, TypeOK
  <2>2. rrIndex' = rrIndex \/ (n # 0 /\ rrIndex' = (rrIndex % n) + 1)
    BY DEF PostRetry
  <2>3. rrIndex \in Nat
    BY DEF TypeInv, TypeOK
  <2> HIDE DEF n
  <2> QED BY <2>1, <2>2, <2>3
<1> QED BY <1>1, <1>2
        DEF PostRetry, TypeInv, TypeOK, LoadOK, queue, flags, lapses, history, HistoryTypeOK

\* Tabs coming and going.
LEMMA TabType ==
  ASSUME TypeInv, NEW t \in Tabs, Open(t) \/ Crash(t) \/ Hello(t) \/ Bye(t)
  PROVE  TypeInv'
<1> USE DEF queue, flags, lapses, history, TypeInv, TypeOK, HistoryTypeOK
<1>1. CASE Open(t)
  BY <1>1 DEF Open, LoadOK, Phases
<1>2. CASE Crash(t)
  BY <1>2 DEF Crash, LoadOK
<1>3. CASE Hello(t)
  <2>1. Cardinality(DOMAIN ports) \in Nat
    BY TabsAssumption, FS_Subset, FS_CardinalityType
  <2>2. DOMAIN ports' \subseteq Tabs /\ ports' \in [DOMAIN ports' -> Int]
    BY <1>3, <2>1 DEF Hello
  <2> QED BY <1>3, <2>2, StoreType, FlushType DEF Hello
<1>4. CASE Bye(t)
  <2>1. ports' = Unregister({t})
    BY <1>4 DEF Bye
  <2>2. DOMAIN ports' \subseteq Tabs /\ ports' \in [DOMAIN ports' -> Int]
    BY <2>1, UnregisterStep
  <2> QED BY <1>4, <2>2 DEF Bye, LoadOK
<1> QED BY <1>1, <1>2, <1>3, <1>4

\* The network.
LEMMA NetworkType == TypeInv /\ (GoOnline \/ GoOffline) => TypeInv'
<1> SUFFICES ASSUME TypeInv, GoOnline \/ GoOffline PROVE TypeInv'
  OBVIOUS
<1> USE DEF queue, flags, lapses, history, TypeInv, TypeOK, HistoryTypeOK
<1>1. CASE GoOnline
  <2>1. ports' = ports \/ ports' = Reachable
    BY <1>1 DEF GoOnline
  <2>2. DOMAIN ports' \subseteq Tabs /\ ports' \in [DOMAIN ports' -> Int]
    BY <2>1, ReachableType
  <2> QED BY <1>1, <2>2, StoreType, FlushType DEF GoOnline
<1>2. CASE GoOffline
  BY <1>2, ReachableType DEF GoOffline, LoadOK
<1> QED BY <1>1, <1>2

\* Time.
LEMMA ExpireType ==
  ASSUME TypeInv, NEW c \in Cmds, Expire(c)
  PROVE  TypeInv'
<1>1. IsStore(idb') /\ IsStore(disk') /\ IsStore(mem')
  BY AgedType DEF Expire, TypeInv, TypeOK
<1>2. LoadOK' /\ \A i \in DOMAIN loads' : IsStore(loads'[i])
  <2>1. loads' = [i \in DOMAIN loads |-> Aged(loads[i], c)] /\ flushing' = flushing
    BY DEF Expire
  <2>2. CASE loads = <<>>
    BY <2>1, <2>2 DEF LoadOK
  <2>3. CASE flushing /\ \E st : IsStore(st) /\ loads = <<st>>
    <3>1. PICK st : IsStore(st) /\ loads = <<st>>
      BY <2>3
    <3>2. loads' = <<Aged(st, c)>>
      BY <2>1, <3>1
    <3> QED BY <2>1, <2>3, <3>1, <3>2, AgedType DEF LoadOK
  <2> QED BY <2>2, <2>3 DEF TypeInv, LoadOK
<1> QED BY <1>1, <1>2 DEF Expire, history, lapses, TypeInv, TypeOK, HistoryTypeOK

\* Every step keeps the shape of every variable.
LEMMA NextTypeInv == TypeInv /\ [Next]_vars => TypeInv'
<1> SUFFICES ASSUME TypeInv, [Next]_vars PROVE TypeInv'
  OBVIOUS
<1>1. CASE UNCHANGED vars \/ Commit
  BY <1>1 DEF Commit, vars, queue, flags, lapses, history, TypeInv, TypeOK, HistoryTypeOK, LoadOK
<1>2. CASE DoFlush \/ FlushEnd \/ FollowUp \/ Boot \/ Kill
  BY <1>2, DoFlushType, FlushCycleType, LifeType
<1>3. CASE \E m \in outbox : PostRetry(m)
  BY <1>3, PostRetryType
<1>4. CASE \E t \in Tabs, c \in Cmds : Enqueue(t, c) \/ Ack(t, c)
  BY <1>4, CommandType
<1>5. CASE \E t \in Tabs : Open(t) \/ Crash(t) \/ Hello(t) \/ Bye(t)
  BY <1>5, TabType
<1>6. CASE GoOnline \/ GoOffline
  BY <1>6, NetworkType
<1>7. CASE \E c \in Cmds : Expire(c)
  BY <1>7, ExpireType
<1> QED BY <1>1, <1>2, <1>3, <1>4, <1>5, <1>6, <1>7 DEF Next

\* Every variable of the worker keeps its shape, for every instance.
THEOREM TypeCorrect == Spec => []TypeOK
<1>1. TypeInv => TypeOK
  BY DEF TypeInv
<1> QED BY InitTypeInv, NextTypeInv, <1>1, PTL DEF Spec

\* One load at a time, and only inside a flush.
THEOREM FlushesDoNotOverlap == Spec => []OneLoad
<1>1. TypeInv => OneLoad
  <2>1. CASE loads = <<>>
    BY <2>1 DEF OneLoad
  <2>2. CASE flushing /\ \E st : IsStore(st) /\ loads = <<st>>
    <3>1. PICK st : loads = <<st>>
      BY <2>2
    <3> QED BY <2>2, <3>1 DEF OneLoad
  <2> QED BY <2>1, <2>2 DEF TypeInv, LoadOK
<1> QED BY InitTypeInv, NextTypeInv, <1>1, PTL DEF Spec

-----------------------------------------------------------------------------
(***************************************************************************)
(* What the queue promises whatever tabs, network, IndexedDB and restarts  *)
(* do.  Nothing is assumed of Faults: a command the worker has lost hold   *)
(* of is astray, a count it has lost hold of is uncounted, and all else is *)
(* where it should be.                                                     *)
(***************************************************************************)

\* The handle follows the browser.  Where the database can be opened, all that
\* a worker has got hold of before is astray.
PhaseOK ==
  /\ db = "open" => HasIDB
  /\ db = "null" => ~HasIDB
  /\ ~HasIDB => DOMAIN idb = {} /\ DOMAIN disk = {}
  /\ HasIDB /\ db # "open" =>
       /\ DOMAIN mem \subseteq astray /\ tried \subseteq astray
       /\ \A i \in DOMAIN loads : DOMAIN loads[i] \subseteq astray

\* The durable store holds the commands that are owed an outcome, and no other.
OwedOK ==
  /\ \A c \in Cmds \ astray : fate[c] = "queued" <=> c \in DOMAIN Durable
  /\ DOMAIN idb \subseteq Valid /\ DOMAIN disk \subseteq Valid /\ DOMAIN mem \subseteq Valid

\* A record counts at least the sends of its command, and so does every
\* snapshot of it.
CountOK ==
  /\ RetryBudget
  /\ \A c \in DOMAIN Store \ uncounted : sends[c] <= Store[c].retries
  /\ \A c \in DOMAIN Durable \ uncounted : sends[c] <= Durable[c].retries
  /\ \A i \in DOMAIN loads : \A c \in DOMAIN loads[i] \ uncounted :
       sends[c] <= loads[i][c].retries

\* What a flush has loaded of a record still holds, unless the command went
\* and came again since.
SnapshotOK ==
  \A i \in DOMAIN loads :
    \A c \in (DOMAIN loads[i] \cap DOMAIN Durable) \ (renewed \cup astray) :
      /\ loads[i][c].retries = Durable[c].retries
      /\ loads[i][c].expired = Durable[c].expired

QueueInv == PhaseOK /\ OwedOK /\ CountOK /\ SnapshotOK

Inv == TypeInv /\ QueueInv /\ FollowUpScheduled

\* What the type invariant says of the variables that the proofs below compare.
LEMMA InvTypes ==
  ASSUME Inv
  PROVE  /\ IsStore(idb) /\ IsStore(disk) /\ IsStore(mem)
         /\ IsStore(Store) /\ IsStore(Durable)
         /\ fate \in [Cmds -> Fates] /\ sends \in [Cmds -> Nat] /\ timers \in Nat
         /\ \A i \in DOMAIN loads : IsStore(loads[i])
BY StoreType DEF Inv, TypeInv, TypeOK, HistoryTypeOK

\* A write that reaches the durable store is a write of the store in use.
LEMMA StoreInUse ==
  ASSUME PhaseOK
  PROVE  /\ Reaches => Store = Durable
         /\ ~Reaches => HasIDB /\ db # "open" /\ Store = mem /\ Durable = idb
         /\ db \in {"open", "null"} => Reaches
BY DEF PhaseOK, Reaches, Store, Durable

LEMMA WriteStep ==
  ASSUME PhaseOK, NEW st, SetStore(st), UNCHANGED db
  PROVE  /\ Store' = st
         /\ Reaches => Store = Durable /\ Durable' = st
         /\ ~Reaches => /\ HasIDB /\ db # "open" /\ Store = mem /\ mem' = st
                        /\ Durable' = Durable
         /\ idb' = idb \/ idb' = st
         /\ mem' = mem \/ mem' = st
         /\ ~HasIDB => idb' = idb
BY DEF PhaseOK, SetStore, Reaches, Store, Durable

\* A call of flush runs: it joins the cycle in progress, or begins one.
LEMMA FlushCases ==
  ASSUME TypeInv, NEW st, Flush(st)
  PROVE  /\ flushing'
         /\ \/ UNCHANGED <<loads, disk, renewed>>
            \/ loads' = <<st>> /\ disk' = idb /\ renewed' = {}
<1>1. CASE flushing
  BY <1>1 DEF Flush
<1>2. CASE ~flushing
  <2>1. loads = <<>>
    BY <1>2 DEF TypeInv, LoadOK
  <2> QED BY <1>2, <2>1 DEF Flush, Load
<1> QED BY <1>1, <1>2

\* What deleting and counting do to a record.
LEMMA AfterRound ==
  ASSUME NEW st, IsStore(st), NEW D, NEW S, NEW x \in DOMAIN st \ D
  PROVE  /\ Increment(Without(st, D), S)[x].retries
              = IF x \in S /\ st[x].retries < MaxRetries
                THEN st[x].retries + 1 ELSE st[x].retries
         /\ Increment(Without(st, D), S)[x].expired = st[x].expired
<1> DEFINE w == Without(st, D)
<1>1. IsStore(w) /\ DOMAIN w = DOMAIN st \ D
  BY WithoutType
<1>2. w[x].retries = st[x].retries /\ w[x].expired = st[x].expired
  BY <1>1 DEF Without, IsStore, Record
<1> HIDE DEF w
<1>3. /\ Increment(w, S)[x].retries = IF x \in S /\ w[x].retries < MaxRetries
                                      THEN w[x].retries + 1 ELSE w[x].retries
      /\ Increment(w, S)[x].expired = w[x].expired
  BY <1>1 DEF Increment, IsStore, Record
<1> QED BY <1>1, <1>2, <1>3 DEF w

\* What they do to a store.
LEMMA RoundType ==
  ASSUME NEW st, IsStore(st), NEW D, NEW S
  PROVE  /\ IsStore(Increment(Without(st, D), S))
         /\ DOMAIN Increment(Without(st, D), S) = DOMAIN st \ D
<1> DEFINE w == Without(st, D)
<1>1. IsStore(w) /\ DOMAIN w = DOMAIN st \ D
  BY WithoutType
<1> HIDE DEF w
<1>2. IsStore(Increment(w, S)) /\ DOMAIN Increment(w, S) = DOMAIN w
  BY <1>1, IncrementType
<1> QED BY <1>1, <1>2 DEF w

\* The initial state satisfies the invariant.
LEMMA InitInv == Init => Inv
<1> SUFFICES ASSUME Init PROVE QueueInv /\ FollowUpScheduled
  BY InitTypeInv DEF Inv
<1>1. /\ idb = EmptyStore /\ disk = EmptyStore /\ mem = EmptyStore /\ db = "down"
      /\ tried = {} /\ sends = [c \in Cmds |-> 0] /\ fate = [c \in Cmds |-> "none"]
  BY DEF Init
<1>2. DOMAIN Durable = {} /\ DOMAIN Store = {}
  BY <1>1, EmptyStoreType DEF Durable, Store
<1>3. \A i \in DOMAIN loads : FALSE
  BY DEF Init
<1>4. RetryBudget
  BY <1>1, MaxRetriesAssumption DEF RetryBudget
<1> QED BY <1>1, <1>2, <1>3, <1>4, EmptyStoreType
        DEF QueueInv, PhaseOK, CountOK, OwedOK, SnapshotOK, FollowUpScheduled

\* A step that leaves commands alone, and loads at most what the worker reads.
LEMMA LoadStep ==
  ASSUME Inv, UNCHANGED <<db, idb, mem, fate, sends, tried, astray, uncounted>>,
         disk' = disk \/ disk' = idb,
         UNCHANGED <<loads, renewed>> \/ loads' = <<Store>>
  PROVE  QueueInv' /\ Store' = Store
<1>1. Durable' = Durable /\ Store' = Store
  BY DEF Durable, Store
<1>2. \A i \in DOMAIN loads' : UNCHANGED <<loads, renewed>> \/ loads'[i] = Store
  OBVIOUS
<1>3. PhaseOK'
  <2>1. HasIDB /\ db # "open" => DOMAIN Store \subseteq astray
    BY DEF Inv, QueueInv, PhaseOK, Store
  <2> QED BY <1>2, <2>1 DEF Inv, QueueInv, PhaseOK
<1>4. OwedOK'
  BY <1>1 DEF Inv, QueueInv, OwedOK
<1>5. CountOK'
  BY <1>1, <1>2 DEF Inv, QueueInv, CountOK, RetryBudget
<1>6. SnapshotOK'
  <2>1. CASE UNCHANGED <<loads, renewed>>
    BY <2>1, <1>1 DEF Inv, QueueInv, SnapshotOK
  <2>2. CASE loads' = <<Store>>
    <3>1. \A i \in DOMAIN loads' : loads'[i] = Store
      BY <2>2
    <3>2. CASE Reaches
      BY <3>1, <3>2, <1>1, StoreInUse DEF SnapshotOK, Inv, QueueInv
    <3>3. CASE ~Reaches
      <4>1. DOMAIN Store \subseteq astray
        BY <3>3, StoreInUse DEF Inv, QueueInv, PhaseOK
      <4> QED BY <3>1, <4>1 DEF SnapshotOK
    <3> QED BY <3>2, <3>3
  <2> QED BY <2>1, <2>2
<1> QED BY <1>1, <1>3, <1>4, <1>5, <1>6 DEF QueueInv

\* The turns of the flush cycle that only load, and the steps of tabs and
\* network that leave commands alone.
LEMMA CycleInv ==
  ASSUME Inv, \/ FlushEnd \/ FollowUp \/ GoOnline \/ GoOffline \/ Commit \/ UNCHANGED vars
              \/ \E m \in outbox : PostRetry(m)
              \/ \E t \in Tabs : Hello(t) \/ Crash(t) \/ Bye(t)
  PROVE  QueueInv' /\ FollowUpScheduled'
<1>0. TypeInv /\ timers \in Nat
  BY DEF Inv, TypeInv, TypeOK
<1>1. UNCHANGED <<db, idb, mem, fate, sends, tried, astray, uncounted>>
  BY DEF FlushEnd, FollowUp, GoOnline, GoOffline, Commit, PostRetry, Hello, Crash, Bye,
         vars, queue, flags, history, lapses
<1>2. CASE FlushEnd
  <2>1. CASE flushPending
    <3>1. loads' = <<Store>> /\ disk' = idb /\ flushing'
      BY <1>2, <2>1 DEF FlushEnd, Load
    <3> QED BY <3>1, <1>1, LoadStep DEF FollowUpScheduled
  <2>2. CASE ~flushPending
    <3>1. /\ UNCHANGED <<loads, disk, renewed>>
          /\ timers' = IF DOMAIN Store # {} THEN timers + 1 ELSE timers
      BY <1>2, <2>2 DEF FlushEnd
    <3>2. QueueInv' /\ Store' = Store
      BY <3>1, <1>1, LoadStep
    <3>3. FollowUpScheduled'
      <4>1. CASE DOMAIN Store = {}
        BY <4>1, <3>2 DEF FollowUpScheduled
      <4>2. CASE DOMAIN Store # {}
        <5>1. timers' > 0
          BY <4>2, <3>1, <1>0
        <5> QED BY <5>1 DEF FollowUpScheduled
      <4> QED BY <4>1, <4>2
    <3> QED BY <3>2, <3>3
  <2> QED BY <2>1, <2>2
<1>3. CASE FollowUp \/ GoOnline \/ \E t \in Tabs : Hello(t)
  <2>1. Flush(Store)
    BY <1>3 DEF FollowUp, GoOnline, Hello
  <2>2. /\ flushing'
        /\ \/ UNCHANGED <<loads, disk, renewed>>
           \/ loads' = <<Store>> /\ disk' = idb /\ renewed' = {}
    BY <2>1, <1>0, FlushCases
  <2> QED BY <2>2, <1>1, LoadStep DEF FollowUpScheduled
<1>4. CASE \/ GoOffline \/ Commit \/ UNCHANGED vars
           \/ \E m \in outbox : PostRetry(m)
           \/ \E t \in Tabs : Crash(t) \/ Bye(t)
  <2>1. UNCHANGED <<loads, renewed, flushing, timers>> /\ (disk' = disk \/ disk' = idb)
    BY <1>4 DEF GoOffline, Commit, PostRetry, Crash, Bye, vars, flags, history
  <2>2. QueueInv' /\ Store' = Store
    BY <2>1, <1>1, LoadStep
  <2> QED BY <2>1, <2>2, <1>1 DEF Inv, FollowUpScheduled
<1> QED BY <1>2, <1>3, <1>4

\* A tab opens: at most it starts the worker, which has no handle yet.
LEMMA OpenInv ==
  ASSUME Inv, NEW t \in Tabs, Open(t) PROVE QueueInv' /\ FollowUpScheduled'
<1>1. UNCHANGED <<idb, disk, mem, fate, sends, tried, lapses, renewed, loads, flushing, timers>>
  BY DEF Open, queue, flags, history
<1>2. db' = db \/ (db = "down" /\ db' = "opening")
  BY DEF Open
<1>3. Durable' = Durable /\ Store' = Store
  BY <1>1, <1>2 DEF Durable, Store
<1>4. UNCHANGED <<astray, uncounted>>
  BY <1>1 DEF lapses
<1>5. PhaseOK'
  BY <1>1, <1>2, <1>4 DEF Inv, QueueInv, PhaseOK
<1>6. OwedOK' /\ CountOK' /\ SnapshotOK' /\ FollowUpScheduled'
  BY <1>1, <1>3, <1>4
     DEF Inv, QueueInv, OwedOK, CountOK, SnapshotOK, RetryBudget, FollowUpScheduled
<1> QED BY <1>5, <1>6 DEF QueueInv

\* The database opens: what was astray is left behind, and the first load is of
\* the durable store, unless an early call of flush is still in progress.
LEMMA BootInv == ASSUME Inv, Boot PROVE QueueInv' /\ FollowUpScheduled'
<1>1. /\ UNCHANGED <<idb, mem, fate, sends, tried, astray, uncounted, timers>>
      /\ db = "opening" /\ db' = (IF HasIDB THEN "open" ELSE "null") /\ TypeInv
  BY DEF Boot, queue, lapses, Inv
<1>2. /\ \/ UNCHANGED <<loads, disk, renewed>>
         \/ loads' = <<Durable>> /\ disk' = idb /\ renewed' = {}
      /\ flushing' \/ flushing' = flushing
  <2>1. CASE online
    BY <2>1, <1>1, FlushCases DEF Boot
  <2>2. CASE ~online
    BY <2>2 DEF Boot
  <2> QED BY <2>1, <2>2
<1>3. Durable' = Durable /\ Store' = Durable
  BY <1>1 DEF Durable, Store
<1>4. \A i \in DOMAIN loads' : UNCHANGED <<loads, renewed>> \/ loads'[i] = Durable
  BY <1>2
<1>5. PhaseOK'
  <2>1. CASE HasIDB
    BY <2>1, <1>1 DEF PhaseOK
  <2>2. CASE ~HasIDB
    BY <2>2, <1>1, <1>2 DEF Inv, QueueInv, PhaseOK
  <2> QED BY <2>1, <2>2
<1>6. OwedOK'
  BY <1>1, <1>2, <1>3 DEF Inv, QueueInv, OwedOK
<1>7. CountOK'
  BY <1>1, <1>3, <1>4 DEF Inv, QueueInv, CountOK, RetryBudget
<1>8. SnapshotOK'
  BY <1>1, <1>3, <1>4 DEF Inv, QueueInv, SnapshotOK
<1>9. FollowUpScheduled'
  <2>1. CASE HasIDB
    <3>1. tried' \subseteq astray'
      BY <2>1, <1>1 DEF Inv, QueueInv, PhaseOK
    <3> QED BY <3>1 DEF FollowUpScheduled
  <2>2. CASE ~HasIDB
    <3>1. Store' = Store
      BY <2>2, <1>1, <1>3 DEF Store, Durable
    <3> QED BY <3>1, <1>1, <1>2 DEF Inv, FollowUpScheduled
  <2> QED BY <2>1, <2>2
<1> QED BY <1>5, <1>6, <1>7, <1>8, <1>9 DEF QueueInv

\* The worker dies: what IndexedDB had not committed is astray or uncounted,
\* and without IndexedDB its queue dies with it.
LEMMA KillInv == ASSUME Inv, Kill PROVE QueueInv' /\ FollowUpScheduled'
<1>1. /\ db' = "down" /\ mem' = EmptyStore /\ idb' = disk /\ loads' = <<>> /\ tried' = {}
      /\ UNCHANGED <<disk, sends>>
      /\ astray' = astray \cup {c \in Cmds : (c \in DOMAIN idb) # (c \in DOMAIN disk)}
      /\ uncounted' = uncounted \cup
                        {c \in DOMAIN disk : \/ c \notin DOMAIN idb
                                             \/ disk[c].retries # idb[c].retries}
  BY DEF Kill
<1>2. DOMAIN mem' = {} /\ DOMAIN Store' = {}
  BY <1>1, EmptyStoreType DEF Store
<1>3. \A i \in DOMAIN loads' : FALSE
  BY <1>1
<1>4. PhaseOK' /\ SnapshotOK' /\ FollowUpScheduled'
  BY <1>1, <1>2, <1>3 DEF Inv, QueueInv, PhaseOK, SnapshotOK, FollowUpScheduled
<1>5. RetryBudget'
  BY <1>1 DEF Inv, QueueInv, CountOK, RetryBudget
<1>6. CASE HasIDB
  <2>1. fate' = fate /\ Durable' = disk /\ Durable = idb
    BY <1>1, <1>6 DEF Kill, Durable
  <2>2. OwedOK'
    BY <1>1, <1>2, <2>1 DEF Inv, QueueInv, OwedOK
  <2>3. \A c \in DOMAIN Durable' \ uncounted' : sends'[c] <= Durable'[c].retries
    <3> SUFFICES ASSUME NEW c \in DOMAIN disk, c \notin uncounted'
                 PROVE  sends[c] <= disk[c].retries
      BY <1>1, <2>1
    <3>1. c \in DOMAIN idb /\ disk[c].retries = idb[c].retries /\ c \notin uncounted
      BY <1>1
    <3> QED BY <3>1, <2>1 DEF Inv, QueueInv, CountOK
  <2>4. CountOK'
    BY <1>2, <1>3, <1>5, <2>3 DEF CountOK
  <2> QED BY <1>4, <2>2, <2>4 DEF QueueInv
<1>7. CASE ~HasIDB
  <2>1. DOMAIN Durable' = {} /\ fate' = [c \in Cmds |-> "none"]
    BY <1>2, <1>7 DEF Kill, Durable
  <2>2. \A c \in Cmds : fate'[c] # "queued"
    BY <2>1
  <2>3. OwedOK'
    BY <1>1, <1>2, <2>1, <2>2 DEF Inv, QueueInv, OwedOK
  <2>4. CountOK'
    BY <1>2, <1>3, <1>5, <2>1 DEF CountOK
  <2> QED BY <1>4, <2>3, <2>4 DEF QueueInv
<1> QED BY <1>6, <1>7

\* A round of doFlush, s being the snapshot it acts on: it evicts gone of the
\* dead and counts counted of the sent.
Rounds(s, sent, gone, counted) ==
  LET dead == GivenUp(s)
  IN  /\ IsStore(s) /\ loads = <<s>> /\ loads' = <<>> /\ renewed' = {}
      /\ sent \subseteq DOMAIN s \ dead
      /\ gone \in Committed(dead) /\ counted \in Committed(sent)
      /\ SetStore(Increment(Without(Store, gone), counted))
      /\ astray' = IF Reaches THEN (astray \cup dead) \ gone ELSE astray \cup dead
      /\ uncounted' = uncounted \cup IF Reaches THEN sent \ counted ELSE sent
      /\ fate' = [c \in Cmds |-> IF c \in dead THEN "dead" ELSE fate[c]]
      /\ sends' = [c \in Cmds |-> IF c \in sent /\ sends[c] <= MaxRetries
                                  THEN sends[c] + 1 ELSE sends[c]]
      /\ tried' = tried \cup sent
      /\ flushing' /\ UNCHANGED <<db, disk>>

LEMMA RoundFacts ==
  ASSUME TypeInv, DoFlush PROVE \E s, sent, gone, counted : Rounds(s, sent, gone, counted)
<1>1. PICK s : IsStore(s) /\ loads = <<s>>
  BY DEF DoFlush, TypeInv, LoadOK
<1>2. Head(loads) = s /\ Tail(loads) = <<>>
  BY <1>1
<1> DEFINE dead  == GivenUp(s)
           table == IF dead = {} THEN ports ELSE Reachable
<1>3. PICK pick \in Assignments(s, DOMAIN s \ dead, table) :
        SendRound(dead, table, pick)
  BY <1>2 DEF DoFlush
<1> DEFINE sent == DOMAIN pick.to
<1>4. sent \subseteq DOMAIN s \ dead
  <2>1. DOMAIN table \subseteq Tabs
    BY ReachableType DEF TypeInv, TypeOK
  <2>2. (DOMAIN s \ dead) \in SUBSET Cmds
    BY <1>1 DEF IsStore
  <2>3. rrIndex \in Nat
    BY DEF TypeInv, TypeOK
  <2> HIDE DEF dead, table
  <2> QED BY <2>1, <2>2, <2>3, AssignmentsType
<1>5. PICK gone \in Committed(dead), counted \in Committed(sent) :
        /\ SetStore(Increment(Without(Store, gone), counted))
        /\ astray' = IF Reaches THEN (astray \cup dead) \ gone ELSE astray \cup dead
        /\ uncounted' = uncounted \cup IF Reaches THEN sent \ counted ELSE sent
  BY <1>3 DEF SendRound
<1>6. /\ fate' = [c \in Cmds |-> IF c \in dead THEN "dead" ELSE fate[c]]
      /\ sends' = [c \in Cmds |-> IF c \in sent /\ sends[c] <= MaxRetries
                                  THEN sends[c] + 1 ELSE sends[c]]
      /\ tried' = tried \cup sent
  BY <1>3 DEF SendRound
<1>7. loads' = <<>> /\ renewed' = {} /\ flushing' /\ UNCHANGED <<db, disk>>
  BY <1>2 DEF DoFlush
<1> HIDE DEF sent, table
<1>8. Rounds(s, sent, gone, counted)
  BY <1>1, <1>4, <1>5, <1>6, <1>7 DEF Rounds
<1> QED BY <1>8

\* doFlush keeps the queue: what it sends had not spent its budget, each send is
\* counted or uncounted, and what it gives up is gone or astray.
LEMMA DoFlushInv == ASSUME Inv, DoFlush PROVE QueueInv' /\ FollowUpScheduled'
<1>0. TypeInv /\ PhaseOK
  BY DEF Inv, QueueInv
<1>1. PICK s, sent, gone, counted : Rounds(s, sent, gone, counted)
  BY <1>0, RoundFacts
<1> DEFINE dead == GivenUp(s)
           new  == Increment(Without(Store, gone), counted)
<1>2. /\ IsStore(s) /\ loads[1] = s /\ 1 \in DOMAIN loads /\ loads' = <<>>
      /\ sent \subseteq DOMAIN s \ dead /\ gone \subseteq dead /\ counted \subseteq sent
      /\ dead \subseteq DOMAIN s /\ SetStore(new) /\ UNCHANGED <<db, disk>> /\ flushing'
      /\ tried' = tried \cup sent
  BY <1>1 DEF Rounds, Committed, GivenUp
<1>3. /\ astray' = (IF Reaches THEN (astray \cup dead) \ gone ELSE astray \cup dead)
      /\ uncounted' = (uncounted \cup IF Reaches THEN sent \ counted ELSE sent)
      /\ fate' = [c \in Cmds |-> IF c \in dead THEN "dead" ELSE fate[c]]
      /\ sends' = [c \in Cmds |-> IF c \in sent /\ sends[c] <= MaxRetries
                                  THEN sends[c] + 1 ELSE sends[c]]
  BY <1>1 DEF Rounds
<1>4. /\ IsStore(Store) /\ IsStore(Durable) /\ DOMAIN s \subseteq Cmds
      /\ fate \in [Cmds -> Fates] /\ sends \in [Cmds -> Nat] /\ MaxRetries \in Nat \ {0}
  BY <1>2, InvTypes, MaxRetriesAssumption DEF IsStore
<1>5. /\ IsStore(new) /\ DOMAIN new = DOMAIN Store \ gone
      /\ \A x \in DOMAIN new :
           new[x].retries = IF x \in counted /\ Store[x].retries < MaxRetries
                            THEN Store[x].retries + 1 ELSE Store[x].retries
  <2>1. IsStore(new) /\ DOMAIN new = DOMAIN Store \ gone
    BY <1>4, RoundType
  <2>2. ASSUME NEW x \in DOMAIN Store \ gone
        PROVE  new[x].retries = IF x \in counted /\ Store[x].retries < MaxRetries
                                THEN Store[x].retries + 1 ELSE Store[x].retries
    BY <1>4, AfterRound
  <2> HIDE DEF new
  <2> QED BY <2>1, <2>2
<1>6. \A c \in sent : s[c].retries \in Nat /\ s[c].retries < MaxRetries
  BY <1>2, <1>4 DEF IsStore, Record, GivenUp
<1>7. \A i \in DOMAIN loads' : FALSE
  BY <1>2
<1> HIDE DEF dead, new
<1>8. /\ Store' = new
      /\ Reaches => Store = Durable /\ Durable' = new
      /\ ~Reaches => /\ HasIDB /\ db # "open" /\ Store = mem /\ mem' = new
                     /\ Durable' = Durable
      /\ idb' = idb \/ idb' = new
      /\ mem' = mem \/ mem' = new
      /\ ~HasIDB => idb' = idb
  BY <1>0, <1>2, WriteStep
<1>9. ~Reaches => DOMAIN s \subseteq astray /\ DOMAIN mem \subseteq astray /\ tried \subseteq astray
  BY <1>0, <1>2, StoreInUse DEF PhaseOK
<1>10. PhaseOK'
  <2>1. HasIDB /\ db # "open" => ~Reaches
    BY DEF Reaches
  <2>2. HasIDB /\ db # "open" => DOMAIN mem' \subseteq astray' /\ tried' \subseteq astray'
    BY <2>1, <1>2, <1>3, <1>5, <1>8, <1>9
  <2> QED BY <2>2, <1>0, <1>2, <1>7, <1>8 DEF PhaseOK
<1>11. OwedOK'
  <2>1. ASSUME NEW c \in Cmds, c \notin astray'
        PROVE  fate'[c] = "queued" <=> c \in DOMAIN Durable'
    <3>1. CASE Reaches
      <4>1. CASE c \in gone
        BY <4>1, <3>1, <1>2, <1>3, <1>5, <1>8
      <4>2. CASE c \notin gone
        <5>1. c \notin dead /\ c \notin astray
          BY <2>1, <4>2, <3>1, <1>3
        <5>2. fate'[c] = fate[c]
          BY <5>1, <1>3
        <5> QED BY <5>1, <5>2, <4>2, <3>1, <1>5, <1>8 DEF Inv, QueueInv, OwedOK
      <4> QED BY <4>1, <4>2
    <3>2. CASE ~Reaches
      <4>1. c \notin dead /\ c \notin astray
        BY <2>1, <3>2, <1>3
      <4>2. fate'[c] = fate[c]
        BY <4>1, <1>3
      <4> QED BY <4>1, <4>2, <3>2, <1>8 DEF Inv, QueueInv, OwedOK
    <3> QED BY <3>1, <3>2
  <2>2. DOMAIN new \subseteq Valid
    BY <1>5 DEF Store, Inv, QueueInv, OwedOK
  <2> QED BY <2>1, <2>2, <1>2, <1>8 DEF OwedOK, Inv, QueueInv
<1>12. CountOK'
  <2>1. ASSUME NEW c \in Cmds, c \notin uncounted'
        PROVE  /\ sends'[c] <= MaxRetries
               /\ c \in DOMAIN new => sends'[c] <= new[c].retries
               /\ c \in DOMAIN Durable' => sends'[c] <= Durable'[c].retries
    <3>1. c \notin uncounted /\ sends[c] \in Nat /\ sends[c] <= MaxRetries
      BY <2>1, <1>3, <1>4 DEF Inv, QueueInv, CountOK, RetryBudget
    <3>2. c \in DOMAIN Store => Store[c].retries \in Nat /\ sends[c] <= Store[c].retries
      BY <3>1, <1>4 DEF Inv, QueueInv, CountOK, IsStore, Record
    <3>3. CASE c \in sent
      <4>1. Reaches /\ c \in counted
        BY <3>3, <2>1, <1>3
      <4>2. sends[c] <= s[c].retries /\ s[c].retries \in Nat /\ s[c].retries < MaxRetries
        BY <3>1, <3>3, <1>2, <1>6 DEF Inv, QueueInv, CountOK
      <4>3. sends'[c] = sends[c] + 1 /\ sends[c] + 1 <= MaxRetries
        BY <4>2, <3>1, <3>3, <1>3, <1>4
      <4>4. c \in DOMAIN new => sends'[c] <= new[c].retries
        <5> SUFFICES ASSUME c \in DOMAIN new PROVE sends'[c] <= new[c].retries
          OBVIOUS
        <5>1. c \in DOMAIN Store
          BY <1>5
        <5>2. new[c].retries = IF Store[c].retries < MaxRetries
                               THEN Store[c].retries + 1 ELSE Store[c].retries
          BY <4>1, <1>5
        <5> QED BY <5>1, <5>2, <4>3, <3>1, <3>2, <1>4
      <4> QED BY <4>1, <4>3, <4>4, <1>8
    <3>4. CASE c \notin sent
      <4>1. sends'[c] = sends[c] /\ c \notin counted
        BY <3>4, <1>2, <1>3
      <4>2. c \in DOMAIN new => sends'[c] <= new[c].retries
        BY <4>1, <3>2, <1>5
      <4>3. CASE Reaches
        BY <4>1, <4>2, <4>3, <3>1, <1>8
      <4>4. CASE ~Reaches
        BY <4>1, <4>2, <4>4, <3>1, <1>8 DEF Inv, QueueInv, CountOK
      <4> QED BY <4>3, <4>4
    <3> QED BY <3>3, <3>4
  <2>2. DOMAIN Store' \subseteq Cmds /\ DOMAIN Durable' \subseteq Cmds
    BY <1>4, <1>5, <1>8 DEF IsStore
  <2>3. \A c \in Cmds \ uncounted' :
          /\ sends'[c] <= MaxRetries
          /\ c \in DOMAIN Store' => sends'[c] <= Store'[c].retries
          /\ c \in DOMAIN Durable' => sends'[c] <= Durable'[c].retries
    BY <2>1, <1>8
  <2> QED BY <2>2, <2>3, <1>7 DEF CountOK, RetryBudget
<1>13. SnapshotOK' /\ FollowUpScheduled'
  BY <1>2, <1>7 DEF SnapshotOK, FollowUpScheduled
<1> QED BY <1>10, <1>11, <1>12, <1>13 DEF QueueInv

\* A command comes to the queue unsent, or finds its record in it.
LEMMA EnqueueInv ==
  ASSUME Inv, NEW t \in Tabs, NEW c \in Cmds, Enqueue(t, c)
  PROVE  QueueInv' /\ FollowUpScheduled'
<1>0. /\ UNCHANGED <<db, disk, loads, flushing, timers>> /\ PhaseOK
      /\ IsStore(Store) /\ IsStore(Durable)
      /\ fate \in [Cmds -> Fates] /\ sends \in [Cmds -> Nat]
      /\ \A i \in DOMAIN loads : IsStore(loads[i])
  BY InvTypes DEF Enqueue, flags, Inv, QueueInv
<1>1. CASE c \notin Valid
  <2>1. /\ UNCHANGED <<idb, mem, sends, tried, astray, uncounted, renewed>>
        /\ fate' = [fate EXCEPT ![c] = "dead"]
    BY <1>1 DEF Enqueue, queue, lapses
  <2>2. Durable' = Durable /\ Store' = Store
    BY <2>1, <1>0 DEF Durable, Store
  <2>3. c \notin DOMAIN Durable
    BY <1>1 DEF Durable, Inv, QueueInv, OwedOK
  <2>4. PhaseOK' /\ CountOK' /\ SnapshotOK' /\ FollowUpScheduled'
    BY <2>1, <2>2, <1>0
       DEF Inv, QueueInv, PhaseOK, CountOK, RetryBudget, SnapshotOK, FollowUpScheduled
  <2>5. \A x \in Cmds \ astray' : fate'[x] = "queued" <=> x \in DOMAIN Durable'
    BY <2>1, <2>2, <2>3, <1>0 DEF Inv, QueueInv, OwedOK
  <2>6. OwedOK'
    BY <2>1, <2>5, <1>0 DEF Inv, QueueInv, OwedOK
  <2> QED BY <2>4, <2>6 DEF QueueInv
<1>2. CASE c \in Valid /\ c \in DOMAIN Store
  <2>1. /\ UNCHANGED <<sends, tried, astray, uncounted, renewed>>
        /\ fate' = [fate EXCEPT ![c] = "queued"]
    BY <1>2 DEF Enqueue, lapses
  <2>2. UNCHANGED <<idb, mem>>
    <3>1. PICK stored : SetStore(IF stored = {} THEN Store ELSE Add(Store, c))
      BY <1>2 DEF Enqueue
    <3>2. Add(Store, c) = Store
      <4>1. DOMAIN Store \cup {c} = DOMAIN Store
        BY <1>2
      <4>2. Store = [x \in DOMAIN Store |-> Store[x]]
        BY <1>0 DEF IsStore
      <4> QED BY <4>1, <4>2 DEF Add
    <3> QED BY <3>1, <3>2 DEF SetStore, Store
  <2>3. Durable' = Durable /\ Store' = Store
    BY <2>2, <1>0 DEF Durable, Store
  <2>4. c \in DOMAIN Durable \/ c \in astray
    BY <1>0, <1>2, StoreInUse DEF PhaseOK
  <2>5. PhaseOK' /\ CountOK' /\ SnapshotOK' /\ FollowUpScheduled'
    BY <2>1, <2>2, <2>3, <1>0
       DEF Inv, QueueInv, PhaseOK, CountOK, RetryBudget, SnapshotOK, FollowUpScheduled
  <2>6. \A x \in Cmds \ astray' : fate'[x] = "queued" <=> x \in DOMAIN Durable'
    BY <2>1, <2>3, <2>4, <1>0 DEF Inv, QueueInv, OwedOK
  <2>7. OwedOK'
    BY <2>2, <2>6, <1>0 DEF Inv, QueueInv, OwedOK
  <2> QED BY <2>5, <2>7 DEF QueueInv
<1>3. CASE c \in Valid /\ c \notin DOMAIN Store
  <2>1. PICK stored \in Committed({c}) :
          /\ SetStore(IF stored = {} THEN Store ELSE Add(Store, c))
          /\ astray' = IF Reaches /\ stored = {c} THEN astray \ {c} ELSE astray \cup {c}
    BY <1>3 DEF Enqueue
  <2>2. /\ fate' = [fate EXCEPT ![c] = "queued"] /\ sends' = [sends EXCEPT ![c] = 0]
        /\ tried' = tried \ {c} /\ uncounted' = uncounted \ {c}
        /\ renewed' = IF loads = <<>> THEN renewed ELSE renewed \cup {c}
    BY <1>3 DEF Enqueue
  <2> DEFINE new == IF stored = {} THEN Store ELSE Add(Store, c)
  <2>3. /\ IsStore(new)
        /\ DOMAIN new = IF stored = {} THEN DOMAIN Store ELSE DOMAIN Store \cup {c}
        /\ \A x \in DOMAIN Store : new[x] = Store[x]
        /\ c \in DOMAIN new => new[c].retries = 0
    BY <1>0, <1>3, AddType DEF Add
  <2>4. stored = {} \/ stored = {c}
    BY <2>1 DEF Committed
  <2>5. SetStore(new)
    BY <2>1
  <2> HIDE DEF new
  <2>6. /\ Store' = new
        /\ Reaches => Store = Durable /\ Durable' = new
        /\ ~Reaches => /\ HasIDB /\ db # "open" /\ Store = mem /\ mem' = new
                       /\ Durable' = Durable
        /\ idb' = idb \/ idb' = new
        /\ mem' = mem \/ mem' = new
        /\ ~HasIDB => idb' = idb
    BY <1>0, <2>5, WriteStep
  <2>7. PhaseOK'
    <3>1. HasIDB /\ db # "open" => ~Reaches
      BY DEF Reaches
    <3>2. HasIDB /\ db # "open" =>
            /\ DOMAIN mem' \subseteq astray' /\ tried' \subseteq astray'
            /\ \A i \in DOMAIN loads' : DOMAIN loads'[i] \subseteq astray'
      BY <3>1, <1>0, <2>1, <2>2, <2>3, <2>6 DEF PhaseOK
    <3> QED BY <3>2, <1>0, <2>6 DEF PhaseOK
  <2>8. OwedOK'
    <3>1. \A x \in Cmds \ astray' : fate'[x] = "queued" <=> x \in DOMAIN Durable'
      BY <1>0, <2>1, <2>2, <2>3, <2>4, <2>6 DEF Inv, QueueInv, OwedOK
    <3>2. DOMAIN new \subseteq Valid
      BY <1>3, <2>3 DEF Store, Inv, QueueInv, OwedOK
    <3> QED BY <3>1, <3>2, <1>0, <2>6 DEF Inv, QueueInv, OwedOK
  <2>9. CountOK'
    <3>1. \A x \in Cmds \ {c} : sends'[x] = sends[x] /\ (x \in uncounted' <=> x \in uncounted)
      BY <1>0, <2>2
    <3>2. sends'[c] = 0 /\ MaxRetries \in Nat
      BY <1>0, <2>2, MaxRetriesAssumption
    <3>3. RetryBudget'
      BY <3>1, <3>2 DEF RetryBudget, Inv, QueueInv, CountOK
    <3>4. ASSUME NEW x \in DOMAIN new \ uncounted' PROVE sends'[x] <= new[x].retries
      <4>1. CASE x = c
        BY <4>1, <3>2, <2>3
      <4>2. CASE x # c
        <5>1. x \in DOMAIN Store \ uncounted /\ x \in Cmds /\ new[x] = Store[x]
          BY <4>2, <3>4, <2>2, <2>3, <1>0 DEF IsStore
        <5> QED BY <5>1, <4>2, <3>1 DEF Inv, QueueInv, CountOK
      <4> QED BY <4>1, <4>2
    <3>5. ASSUME NEW x \in DOMAIN Durable \ uncounted' PROVE sends'[x] <= Durable[x].retries
      <4>1. x \in Cmds /\ Durable[x].retries \in Nat
        BY <1>0 DEF IsStore, Record
      <4> QED BY <4>1, <3>1, <3>2, <2>2 DEF Inv, QueueInv, CountOK
    <3>6. ASSUME NEW i \in DOMAIN loads, NEW x \in DOMAIN loads[i] \ uncounted'
          PROVE  sends'[x] <= loads[i][x].retries
      <4>1. x \in Cmds /\ loads[i][x].retries \in Nat
        BY <1>0 DEF IsStore, Record
      <4> QED BY <4>1, <3>1, <3>2, <2>2 DEF Inv, QueueInv, CountOK
    <3>7. \A x \in DOMAIN Durable' \ uncounted' : sends'[x] <= Durable'[x].retries
      BY <3>4, <3>5, <2>6
    <3> QED BY <3>3, <3>4, <3>6, <3>7, <2>6, <1>0 DEF CountOK
  <2>10. SnapshotOK'
    <3>1. ASSUME NEW i \in DOMAIN loads, NEW x \in DOMAIN loads[i] \cap DOMAIN Durable',
                 x \notin renewed', x \notin astray'
          PROVE  /\ loads[i][x].retries = Durable'[x].retries
                 /\ loads[i][x].expired = Durable'[x].expired
      <4>1. x # c
        <5>1. loads # <<>>
          BY <3>1
        <5> QED BY <5>1, <3>1, <2>2
      <4>2. x \notin renewed /\ x \notin astray
        BY <4>1, <3>1, <2>1, <2>2
      <4>3. x \in DOMAIN Durable /\ Durable'[x] = Durable[x]
        BY <4>1, <3>1, <2>3, <2>4, <2>6
      <4> QED BY <4>2, <4>3, <3>1 DEF Inv, QueueInv, SnapshotOK
    <3> QED BY <3>1, <1>0 DEF SnapshotOK
  <2>11. FollowUpScheduled'
    <3>1. (tried' \cap DOMAIN Store') \ astray' \subseteq (tried \cap DOMAIN Store) \ astray
      BY <2>1, <2>2, <2>3, <2>6
    <3> QED BY <3>1, <1>0 DEF Inv, FollowUpScheduled
  <2> QED BY <2>7, <2>8, <2>9, <2>10, <2>11 DEF QueueInv
<1> QED BY <1>1, <1>2, <1>3

\* An acknowledged command leaves the queue for good, or goes astray.
LEMMA AckInv ==
  ASSUME Inv, NEW t \in Tabs, NEW c \in Cmds, Ack(t, c)
  PROVE  QueueInv' /\ FollowUpScheduled'
<1>0. /\ UNCHANGED <<db, disk, loads, flushing, timers, sends, tried, uncounted, renewed>>
      /\ fate' = [fate EXCEPT ![c] = "acked"] /\ PhaseOK
      /\ IsStore(Store) /\ IsStore(Durable) /\ fate \in [Cmds -> Fates]
  BY InvTypes DEF Ack, flags, Inv, QueueInv
<1>1. PICK gone \in Committed({c}) :
        /\ SetStore(Without(Store, gone))
        /\ astray' = IF Reaches /\ gone = {c} THEN astray \ {c} ELSE astray \cup {c}
  BY DEF Ack
<1> DEFINE new == Without(Store, gone)
<1>2. /\ IsStore(new) /\ DOMAIN new = DOMAIN Store \ gone
      /\ \A x \in DOMAIN new : /\ new[x].retries = Store[x].retries
                               /\ new[x].expired = Store[x].expired
  BY <1>0, WithoutType DEF Without, IsStore, Record
<1>3. gone = {} \/ gone = {c}
  BY <1>1 DEF Committed
<1>4. SetStore(new)
  BY <1>1
<1> HIDE DEF new
<1>5. /\ Store' = new
      /\ Reaches => Store = Durable /\ Durable' = new
      /\ ~Reaches => /\ HasIDB /\ db # "open" /\ Store = mem /\ mem' = new
                     /\ Durable' = Durable
      /\ idb' = idb \/ idb' = new
      /\ mem' = mem \/ mem' = new
      /\ ~HasIDB => idb' = idb
  BY <1>0, <1>4, WriteStep
<1>6. PhaseOK'
  <2>1. HasIDB /\ db # "open" => ~Reaches
    BY DEF Reaches
  <2>2. HasIDB /\ db # "open" =>
          /\ DOMAIN mem' \subseteq astray' /\ tried' \subseteq astray'
          /\ \A i \in DOMAIN loads' : DOMAIN loads'[i] \subseteq astray'
    BY <2>1, <1>0, <1>1, <1>2, <1>5 DEF PhaseOK
  <2> QED BY <2>2, <1>0, <1>5 DEF PhaseOK
<1>7. OwedOK'
  <2>1. \A x \in Cmds \ astray' : fate'[x] = "queued" <=> x \in DOMAIN Durable'
    BY <1>0, <1>1, <1>2, <1>3, <1>5 DEF Inv, QueueInv, OwedOK
  <2>2. DOMAIN new \subseteq Valid
    BY <1>2 DEF Store, Inv, QueueInv, OwedOK
  <2> QED BY <2>1, <2>2, <1>0, <1>5 DEF Inv, QueueInv, OwedOK
<1>8. CountOK'
  <2>1. \A x \in DOMAIN new \ uncounted : sends[x] <= new[x].retries
    BY <1>2 DEF Inv, QueueInv, CountOK
  <2>2. \A x \in DOMAIN Durable' \ uncounted : sends[x] <= Durable'[x].retries
    BY <2>1, <1>5 DEF Inv, QueueInv, CountOK
  <2> QED BY <2>1, <2>2, <1>0, <1>5 DEF Inv, QueueInv, CountOK, RetryBudget
<1>9. SnapshotOK'
  <2>1. ASSUME NEW i \in DOMAIN loads, NEW x \in DOMAIN loads[i] \cap DOMAIN Durable',
               x \notin renewed, x \notin astray'
        PROVE  /\ loads[i][x].retries = Durable'[x].retries
               /\ loads[i][x].expired = Durable'[x].expired
    <3>1. x \notin astray
      BY <2>1, <1>1, <1>2, <1>3, <1>5
    <3>2. x \in DOMAIN Durable /\ Durable'[x].retries = Durable[x].retries
                               /\ Durable'[x].expired = Durable[x].expired
      BY <2>1, <1>2, <1>5
    <3> QED BY <3>1, <3>2, <2>1 DEF Inv, QueueInv, SnapshotOK
  <2> QED BY <2>1, <1>0 DEF SnapshotOK
<1>10. FollowUpScheduled'
  <2>1. (tried' \cap DOMAIN Store') \ astray' \subseteq (tried \cap DOMAIN Store) \ astray
    BY <1>0, <1>1, <1>2, <1>3, <1>5
  <2> QED BY <2>1, <1>0 DEF Inv, FollowUpScheduled
<1> QED BY <1>6, <1>7, <1>8, <1>9, <1>10 DEF QueueInv

\* Time passes for a command: in the stores and in the snapshot alike, and
\* nothing is counted or moved.
LEMMA ExpireInv ==
  ASSUME Inv, NEW c \in Cmds, Expire(c) PROVE QueueInv' /\ FollowUpScheduled'
<1>0. IsStore(idb) /\ IsStore(disk) /\ IsStore(mem) /\ \A i \in DOMAIN loads : IsStore(loads[i])
  BY InvTypes
<1>1. /\ idb' = Aged(idb, c) /\ disk' = Aged(disk, c) /\ mem' = Aged(mem, c)
      /\ loads' = [i \in DOMAIN loads |-> Aged(loads[i], c)]
      /\ UNCHANGED <<db, fate, sends, tried, astray, uncounted, renewed, flushing, timers>>
  BY DEF Expire, history, lapses
<1>2. ASSUME NEW st, IsStore(st)
      PROVE  /\ DOMAIN Aged(st, c) = DOMAIN st
             /\ \A x \in DOMAIN st :
                  /\ Aged(st, c)[x].retries = st[x].retries
                  /\ Aged(st, c)[x].expired = (x = c \/ st[x].expired)
  BY <1>2 DEF Aged, IsStore, Record
<1>3. /\ DOMAIN idb' = DOMAIN idb /\ DOMAIN disk' = DOMAIN disk /\ DOMAIN mem' = DOMAIN mem
  BY <1>0, <1>1, <1>2
<1>4. /\ DOMAIN Durable' = DOMAIN Durable
      /\ \A x \in DOMAIN Durable :
           /\ Durable'[x].retries = Durable[x].retries
           /\ Durable'[x].expired = (x = c \/ Durable[x].expired)
  <2>1. Durable' = Aged(Durable, c) /\ IsStore(Durable)
    BY <1>0, <1>1 DEF Durable
  <2> QED BY <2>1, <1>2
<1>5. /\ DOMAIN Store' = DOMAIN Store
      /\ \A x \in DOMAIN Store : Store'[x].retries = Store[x].retries
  <2>1. Store' = Aged(Store, c) /\ IsStore(Store)
    BY <1>0, <1>1 DEF Store
  <2> QED BY <2>1, <1>2
<1>6. /\ DOMAIN loads' = DOMAIN loads
      /\ \A i \in DOMAIN loads :
           /\ DOMAIN loads'[i] = DOMAIN loads[i]
           /\ \A x \in DOMAIN loads[i] :
                /\ loads'[i][x].retries = loads[i][x].retries
                /\ loads'[i][x].expired = (x = c \/ loads[i][x].expired)
  BY <1>0, <1>1, <1>2
<1>7. PhaseOK' /\ OwedOK' /\ CountOK'
  BY <1>1, <1>3, <1>4, <1>5, <1>6 DEF Inv, QueueInv, PhaseOK, OwedOK, CountOK, RetryBudget
<1>8. SnapshotOK'
  BY <1>1, <1>4, <1>6 DEF Inv, QueueInv, SnapshotOK
<1>9. FollowUpScheduled'
  BY <1>1, <1>5 DEF Inv, FollowUpScheduled
<1> QED BY <1>7, <1>8, <1>9 DEF QueueInv

\* Every step keeps the invariant.
LEMMA NextInv == Inv /\ [Next]_vars => Inv'
<1> SUFFICES ASSUME Inv, [Next]_vars PROVE QueueInv' /\ FollowUpScheduled'
  BY NextTypeInv DEF Inv
<1>1. CASE \/ FlushEnd \/ FollowUp \/ GoOnline \/ GoOffline \/ Commit \/ UNCHANGED vars
           \/ \E m \in outbox : PostRetry(m)
           \/ \E t \in Tabs : Hello(t) \/ Crash(t) \/ Bye(t)
  BY <1>1, CycleInv
<1>2. CASE DoFlush
  BY <1>2, DoFlushInv
<1>3. CASE Boot \/ Kill
  BY <1>3, BootInv, KillInv
<1>4. CASE \E t \in Tabs : Open(t)
  BY <1>4, OpenInv
<1>5. CASE \E t \in Tabs, c \in Cmds : Enqueue(t, c) \/ Ack(t, c)
  BY <1>5, EnqueueInv, AckInv
<1>6. CASE \E c \in Cmds : Expire(c)
  BY <1>6, ExpireInv
<1> QED BY <1>1, <1>2, <1>3, <1>4, <1>5, <1>6 DEF Next

\* No command the worker took is lost, whatever tabs, crashes, restarts, flushes,
\* re-enqueues and aborts do, but by the three ways in which an add or a delete
\* goes astray (persistCommand, doFlush, deleteCommand).
THEOREM NothingIsLost == Spec => []NoSilentLoss
<1>1. Inv => NoSilentLoss
  BY StoreInUse DEF Inv, QueueInv, OwedOK, NoSilentLoss
<1> QED BY InitInv, NextInv, <1>1, PTL DEF Spec

\* No acknowledged or dead command comes back, unless its deletion went astray
\* (incrementRetryCount never adds).
THEOREM NothingComesBack == Spec => []NoResurrection
<1>1. Inv => NoResurrection
  <2>1. Inv => DOMAIN Store \subseteq Cmds
    BY InvTypes DEF IsStore
  <2> QED BY <2>1, StoreInUse DEF Inv, QueueInv, OwedOK, NoResurrection
<1> QED BY InitInv, NextInv, <1>1, PTL DEF Spec

\* No command is sent more than MAX_RETRIES times while it is stored, unless one
\* of its counts was lost (doFlush, incrementRetryCount).
THEOREM RetriesAreBounded == Spec => []RetryBudget
<1>1. Inv => RetryBudget
  BY DEF Inv, QueueInv, CountOK
<1> QED BY InitInv, NextInv, <1>1, PTL DEF Spec

\* A command this worker has sent and still stores is not forgotten: a flush
\* runs or a follow-up is scheduled (flush).
THEOREM SentIsFollowedUp == Spec => []FollowUpScheduled
<1>1. Inv => FollowUpScheduled
  BY DEF Inv
<1> QED BY InitInv, NextInv, <1>1, PTL DEF Spec

\* doFlush marks a command dead on what it has loaded, and the record of that
\* command, if it is still owed an outcome, says the same, unless the command
\* was stored anew since.
THEOREM DeadOnItsOwnRecord == Spec => DeadHasSpentItsBudget
<1> DEFINE Own == \A c \in Cmds \ (renewed \cup astray) :
                    fate[c] = "queued" /\ fate'[c] = "dead" =>
                      /\ c \in DOMAIN Store
                      /\ Store[c].expired \/ Store[c].retries >= MaxRetries
<1>1. Inv /\ [Next]_vars => [Own]_vars
  <2> SUFFICES ASSUME Inv, Next, NEW c \in Cmds, c \notin renewed, c \notin astray,
                      fate[c] = "queued", fate'[c] = "dead"
               PROVE  /\ c \in DOMAIN Store
                      /\ Store[c].expired \/ Store[c].retries >= MaxRetries
    OBVIOUS
  <2>0. /\ c \in DOMAIN Durable /\ c \in Valid /\ fate \in [Cmds -> Fates]
        /\ TypeInv /\ PhaseOK
    BY InvTypes DEF Inv, QueueInv, OwedOK, Durable
  <2>1. CASE DoFlush
    <3>1. PICK s, sent, gone, counted : Rounds(s, sent, gone, counted)
      BY <2>0, <2>1, RoundFacts
    <3>2. c \in GivenUp(s) /\ loads[1] = s /\ 1 \in DOMAIN loads
      BY <3>1 DEF Rounds
    <3>3. c \in DOMAIN s /\ (s[c].expired \/ s[c].retries >= MaxRetries)
      BY <3>2 DEF GivenUp
    <3>4. s[c].retries = Durable[c].retries /\ s[c].expired = Durable[c].expired
      BY <3>2, <3>3, <2>0 DEF Inv, QueueInv, SnapshotOK
    <3>5. Reaches
      BY <3>2, <3>3, <2>0, StoreInUse DEF PhaseOK
    <3> QED BY <3>3, <3>4, <3>5, <2>0, StoreInUse
  <2>2. CASE \E t \in Tabs, x \in Cmds : Enqueue(t, x) \/ Ack(t, x)
    <3>1. PICK t \in Tabs, x \in Cmds : Enqueue(t, x) \/ Ack(t, x)
      BY <2>2
    <3>2. x = c /\ Enqueue(t, x) /\ x \notin Valid
      BY <3>1, <2>0 DEF Enqueue, Ack
    <3> QED BY <3>2, <2>0
  <2>3. CASE Kill
    BY <2>0, <2>3 DEF Kill
  <2>4. CASE ~(DoFlush \/ Kill \/ \E t \in Tabs, x \in Cmds : Enqueue(t, x) \/ Ack(t, x))
    <3>1. fate' = fate
      BY <2>4 DEF Next, Commit, FlushEnd, FollowUp, GoOnline, GoOffline, Boot, PostRetry, Open,
                  Crash, Bye, Hello, Expire, history
    <3> QED BY <3>1
  <2> QED BY <2>1, <2>2, <2>3, <2>4
<1>2. [][Own]_vars => DeadHasSpentItsBudget
  BY PTL DEF DeadHasSpentItsBudget
<1> HIDE DEF Own
<1> QED BY InitInv, NextInv, <1>1, <1>2, PTL DEF Spec

-----------------------------------------------------------------------------
(***************************************************************************)
(* The abstract queue.  A snapshot of the store may be older than the      *)
(* store, but as long as tabs wait for the database and a command whose    *)
(* fate is known is not stored again, what the snapshot says of a command  *)
(* that is still there is still true.  Aborts and restarts do no harm.     *)
(***************************************************************************)
StoredOnce == "early" \notin Faults /\ "requeue" \notin Faults

\* A worker that waits for its database has stored and loaded nothing.
Untouched ==
  HasIDB /\ db # "open" =>
    DOMAIN mem = {} /\ \A i \in DOMAIN loads : DOMAIN loads[i] = {}

\* Only time makes a record too old, and what is stored was taken.
Kept(st) ==
  \A c \in DOMAIN st : fate[c] # "none" /\ (st[c].expired => "expiry" \in Faults)

\* What a flush has loaded is still stored, with the same count, or its
\* command is settled.
Current ==
  \A i \in DOMAIN loads : \A c \in DOMAIN loads[i] :
    /\ loads[i][c].expired => "expiry" \in Faults
    /\ c \in DOMAIN Durable => loads[i][c].retries = Durable[c].retries
    /\ c \notin DOMAIN Durable => fate[c] \in {"acked", "dead"}

Faithful == Inv /\ Untouched /\ Kept(idb) /\ Kept(disk) /\ Kept(mem) /\ Current

\* A step that leaves the commands alone, and loads only the durable store.
LEMMA LoadFaithful ==
  ASSUME Faithful, UNCHANGED <<idb, mem, fate>>, disk' = disk \/ disk' = idb,
         \A i \in DOMAIN loads' :
           \/ loads'[i] = Durable \/ DOMAIN loads'[i] = {}
           \/ i \in DOMAIN loads /\ loads'[i] = loads[i]
  PROVE  Kept(idb)' /\ Kept(disk)' /\ Kept(mem)' /\ Current'
<1>1. Durable' = Durable
  BY DEF Durable
<1>2. Kept(idb)' /\ Kept(disk)' /\ Kept(mem)'
  BY DEF Faithful, Kept
<1>3. \A c \in DOMAIN Durable : Durable[c].expired => "expiry" \in Faults
  BY DEF Faithful, Kept, Durable
<1>4. ASSUME NEW i \in DOMAIN loads', NEW c \in DOMAIN loads'[i]
      PROVE  /\ loads'[i][c].expired => "expiry" \in Faults
             /\ c \in DOMAIN Durable => loads'[i][c].retries = Durable[c].retries
             /\ c \notin DOMAIN Durable => fate[c] \in {"acked", "dead"}
  BY <1>3, <1>4 DEF Faithful, Current
<1>5. Current'
  BY <1>1, <1>4 DEF Current
<1> QED BY <1>2, <1>5

\* A turn that reads the store the worker reads, if it reads at all.
LEMMA CycleFaithful ==
  ASSUME Faithful, UNCHANGED <<idb, mem, fate>>, disk' = disk \/ disk' = idb,
         db' = db \/ (db = "down" /\ db' = "opening"),
         loads' = loads \/ loads' = <<Store>>
  PROVE  Untouched' /\ Kept(idb)' /\ Kept(disk)' /\ Kept(mem)' /\ Current'
<1>1. Store = Durable \/ DOMAIN Store = {}
  BY DEF Faithful, Inv, QueueInv, PhaseOK, Untouched, Store, Durable
<1>2. HasIDB /\ db # "open" => DOMAIN Store = {}
  BY DEF Faithful, Untouched, Store
<1>3. \A i \in DOMAIN loads' : loads' = loads \/ loads'[i] = Store
  OBVIOUS
<1>4. Untouched'
  BY <1>2, <1>3 DEF Faithful, Untouched
<1>5. \A i \in DOMAIN loads' :
        \/ loads'[i] = Durable \/ DOMAIN loads'[i] = {}
        \/ i \in DOMAIN loads /\ loads'[i] = loads[i]
  BY <1>1, <1>3
<1> QED BY <1>4, <1>5, LoadFaithful

\* The steps of this kind.
LEMMA CycleLoads ==
  ASSUME Inv, \/ FlushEnd \/ FollowUp \/ GoOnline \/ GoOffline \/ Commit \/ UNCHANGED vars
              \/ \E m \in outbox : PostRetry(m)
              \/ \E t \in Tabs : Open(t) \/ Hello(t) \/ Crash(t) \/ Bye(t)
  PROVE  /\ UNCHANGED <<idb, mem, fate>> /\ (disk' = disk \/ disk' = idb)
         /\ db' = db \/ (db = "down" /\ db' = "opening")
         /\ loads' = loads \/ loads' = <<Store>>
<1>1. CASE FlushEnd
  <2>1. CASE flushPending
    BY <1>1, <2>1 DEF FlushEnd, Load, queue
  <2>2. CASE ~flushPending
    BY <1>1, <2>2 DEF FlushEnd, queue
  <2> QED BY <2>1, <2>2
<1>2. CASE FollowUp \/ GoOnline \/ \E t \in Tabs : Hello(t)
  <2>1. Flush(Store) /\ UNCHANGED <<db, idb, mem, fate>>
    BY <1>2 DEF FollowUp, GoOnline, Hello, queue
  <2>2. UNCHANGED <<loads, disk>> \/ (loads' = <<Store>> /\ disk' = idb)
    BY <2>1, FlushCases DEF Inv
  <2> QED BY <2>1, <2>2
<1>3. CASE \/ GoOffline \/ Commit \/ UNCHANGED vars
           \/ \E m \in outbox : PostRetry(m)
           \/ \E t \in Tabs : Open(t) \/ Crash(t) \/ Bye(t)
  BY <1>3 DEF GoOffline, Commit, PostRetry, Open, Crash, Bye, vars, queue, flags, history
<1> QED BY <1>1, <1>2, <1>3

LEMMA BootFaithful ==
  ASSUME Faithful, Boot
  PROVE  Untouched' /\ Kept(idb)' /\ Kept(disk)' /\ Kept(mem)' /\ Current'
<1>1. UNCHANGED <<idb, mem, fate>> /\ TypeInv /\ db' = (IF HasIDB THEN "open" ELSE "null")
  BY DEF Boot, queue, Faithful, Inv
<1>2. UNCHANGED <<loads, disk>> \/ (loads' = <<Durable>> /\ disk' = idb)
  <2>1. CASE online
    BY <2>1, <1>1, FlushCases DEF Boot
  <2>2. CASE ~online
    BY <2>2 DEF Boot
  <2> QED BY <2>1, <2>2
<1>3. \A i \in DOMAIN loads' :
        loads'[i] = Durable \/ (i \in DOMAIN loads /\ loads'[i] = loads[i])
  BY <1>2
<1>4. Untouched'
  BY <1>1 DEF Untouched
<1> QED BY <1>1, <1>2, <1>3, <1>4, LoadFaithful

LEMMA DoFlushFaithful ==
  ASSUME Faithful, DoFlush
  PROVE  Untouched' /\ Kept(idb)' /\ Kept(disk)' /\ Kept(mem)' /\ Current'
<1>0. TypeInv /\ PhaseOK /\ IsStore(Store) /\ fate \in [Cmds -> Fates]
      /\ DOMAIN idb \subseteq Cmds /\ DOMAIN disk \subseteq Cmds /\ DOMAIN mem \subseteq Cmds
  BY InvTypes DEF Faithful, Inv, QueueInv, IsStore
<1>1. PICK s, sent, gone, counted : Rounds(s, sent, gone, counted)
  BY <1>0, RoundFacts
<1> DEFINE new == Increment(Without(Store, gone), counted)
<1>2. /\ loads' = <<>> /\ SetStore(new) /\ UNCHANGED <<db, disk>>
      /\ fate' = [c \in Cmds |-> IF c \in GivenUp(s) THEN "dead" ELSE fate[c]]
  BY <1>1 DEF Rounds
<1>3. DOMAIN new = DOMAIN Store \ gone
  BY <1>0, RoundType
<1>4. \A x \in DOMAIN new : new[x].expired = Store[x].expired
  BY <1>0, <1>3, AfterRound
<1> HIDE DEF new
<1>5. /\ idb' = idb \/ idb' = new
      /\ mem' = mem \/ mem' = new
      /\ ~Reaches => Store = mem /\ mem' = new
  BY <1>0, <1>2, WriteStep
<1>6. \A i \in DOMAIN loads' : FALSE
  BY <1>2
<1>7. \A c \in Cmds : fate[c] # "none" => fate'[c] # "none"
  BY <1>0, <1>2
<1>8. \A c \in DOMAIN new : c \in Cmds /\ fate'[c] # "none"
                              /\ (new[c].expired => "expiry" \in Faults)
  BY <1>0, <1>3, <1>4, <1>7 DEF Faithful, Kept, Store
<1>9. Kept(idb)' /\ Kept(disk)' /\ Kept(mem)'
  BY <1>0, <1>2, <1>5, <1>7, <1>8 DEF Faithful, Kept
<1>10. Untouched'
  <2>1. HasIDB /\ db # "open" => DOMAIN mem' = {}
    BY <1>3, <1>5 DEF Faithful, Untouched, Reaches
  <2> QED BY <2>1, <1>2, <1>6 DEF Untouched
<1> QED BY <1>6, <1>9, <1>10 DEF Current

\* What a message from a tab does to the stores.
LEMMA CommandDurable ==
  ASSUME StoredOnce, Faithful, NEW t \in Tabs, NEW c \in Cmds, Enqueue(t, c) \/ Ack(t, c)
  PROVE  /\ db \in {"open", "null"} /\ UNCHANGED <<db, disk, loads>>
         /\ \/ Durable' = Durable /\ UNCHANGED <<idb, mem>>
            \/ /\ c \notin DOMAIN Durable /\ Durable' = Add(Durable, c)
               /\ fate[c] \in {"none", "queued"} /\ fate' = [fate EXCEPT ![c] = "queued"]
            \/ /\ Durable' = Without(Durable, {c}) /\ fate[c] = "queued"
               /\ fate' = [fate EXCEPT ![c] = "acked"]
         /\ idb' = idb \/ idb' = Durable'
         /\ mem' = mem \/ mem' = Durable'
         /\ fate' = [fate EXCEPT ![c] = fate'[c]] /\ fate'[c] # "none"
         /\ fate'[c] = "queued" \/ fate'[c] \in {"acked", "dead"}
         /\ fate'[c] = "queued" => fate[c] \in {"none", "queued"}
<1>1. db \in {"open", "null"} /\ UNCHANGED <<db, disk, loads>>
  BY DEF Enqueue, Ack, Ready, StoredOnce, flags
<1>2. PhaseOK /\ Reaches /\ Store = Durable /\ IsStore(Durable) /\ fate \in [Cmds -> Fates]
  BY <1>1, InvTypes, StoreInUse DEF Faithful, Inv, QueueInv
<1>3. CASE Enqueue(t, c) /\ c \in Valid
  <2>1. PICK stored \in Committed({c}) :
          SetStore(IF stored = {} THEN Store ELSE Add(Store, c))
    BY <1>3 DEF Enqueue
  <2>2. fate' = [fate EXCEPT ![c] = "queued"] /\ fate[c] \in {"none", "queued"}
    BY <1>3 DEF Enqueue, StoredOnce
  <2>3. CASE stored = {} \/ c \in DOMAIN Durable
    <3>1. (IF stored = {} THEN Store ELSE Add(Store, c)) = Store
      <4>1. CASE stored = {}
        BY <4>1
      <4>2. CASE c \in DOMAIN Durable
        <5>1. DOMAIN Durable \cup {c} = DOMAIN Durable
          BY <4>2
        <5>2. Durable = [x \in DOMAIN Durable |-> Durable[x]]
          BY <1>2 DEF IsStore
        <5>3. Add(Durable, c) = Durable
          BY <5>1, <5>2 DEF Add
        <5> QED BY <5>3, <1>2
      <4> QED BY <4>1, <4>2, <2>3
    <3>2. SetStore(Store)
      BY <2>1, <3>1
    <3>3. UNCHANGED <<idb, mem>>
      BY <3>2 DEF SetStore, Store
    <3>4. Durable' = Durable
      BY <3>3 DEF Durable
    <3> QED BY <3>3, <3>4, <2>2, <1>1, <1>2
  <2>4. CASE stored # {} /\ c \notin DOMAIN Durable
    <3>1. SetStore(Add(Store, c))
      BY <2>1, <2>4
    <3>2. /\ Durable' = Add(Durable, c)
          /\ idb' = idb \/ idb' = Durable'
          /\ mem' = mem \/ mem' = Durable'
      BY <3>1, <1>1, <1>2, WriteStep
    <3> QED BY <3>2, <2>2, <2>4, <1>1, <1>2
  <2> QED BY <2>3, <2>4
<1>4. CASE Enqueue(t, c) /\ c \notin Valid
  <2>1. fate' = [fate EXCEPT ![c] = "dead"] /\ UNCHANGED <<idb, mem>>
    BY <1>4 DEF Enqueue, queue
  <2> QED BY <2>1, <1>1, <1>2 DEF Durable
<1>5. CASE Ack(t, c)
  <2>1. PICK gone \in Committed({c}) : SetStore(Without(Store, gone))
    BY <1>5 DEF Ack
  <2>2. fate' = [fate EXCEPT ![c] = "acked"] /\ fate[c] = "queued"
    BY <1>5 DEF Ack
  <2>3. CASE gone = {}
    <3>1. Without(Store, {}) = Store
      <4>1. \A x \in DOMAIN Store : [Store[x] EXCEPT !.pos = @ - 0] = Store[x]
        BY <1>2 DEF IsStore, Record
      <4>2. \A p : {d \in DOMAIN Store \cap {} : Store[d].pos < p} = {}
        OBVIOUS
      <4>3. Cardinality({}) = 0
        BY FS_EmptySet
      <4>4. Store = [x \in DOMAIN Store |-> Store[x]]
        BY <1>2 DEF IsStore
      <4> QED BY <4>1, <4>2, <4>3, <4>4 DEF Without
    <3>2. SetStore(Store)
      BY <2>1, <2>3, <3>1
    <3>3. UNCHANGED <<idb, mem>>
      BY <3>2 DEF SetStore, Store
    <3>4. Durable' = Durable
      BY <3>3 DEF Durable
    <3> QED BY <3>3, <3>4, <2>2, <1>1, <1>2
  <2>4. CASE gone = {c}
    <3>1. SetStore(Without(Store, {c}))
      BY <2>1, <2>4
    <3>2. /\ Durable' = Without(Durable, {c})
          /\ idb' = idb \/ idb' = Durable'
          /\ mem' = mem \/ mem' = Durable'
      BY <3>1, <1>1, <1>2, WriteStep
    <3> QED BY <3>2, <2>2, <1>1, <1>2
  <2> QED BY <2>1, <2>3, <2>4 DEF Committed
<1> QED BY <1>3, <1>4, <1>5

LEMMA CommandFaithful ==
  ASSUME StoredOnce, Faithful, NEW t \in Tabs, NEW c \in Cmds, Enqueue(t, c) \/ Ack(t, c)
  PROVE  Untouched' /\ Kept(idb)' /\ Kept(disk)' /\ Kept(mem)' /\ Current'
<1>0. /\ PhaseOK /\ IsStore(Durable) /\ fate \in [Cmds -> Fates]
      /\ DOMAIN idb \subseteq Cmds /\ DOMAIN disk \subseteq Cmds /\ DOMAIN mem \subseteq Cmds
      /\ \A i \in DOMAIN loads : DOMAIN loads[i] \subseteq Cmds
  BY InvTypes DEF Faithful, Inv, QueueInv, IsStore
<1>1. /\ db \in {"open", "null"} /\ UNCHANGED <<db, disk, loads>>
      /\ idb' = idb \/ idb' = Durable'
      /\ mem' = mem \/ mem' = Durable'
      /\ fate' = [fate EXCEPT ![c] = fate'[c]] /\ fate'[c] # "none"
      /\ fate'[c] = "queued" \/ fate'[c] \in {"acked", "dead"}
      /\ fate'[c] = "queued" => fate[c] \in {"none", "queued"}
  BY CommandDurable
<1>2. \/ Durable' = Durable /\ UNCHANGED <<idb, mem>>
      \/ /\ c \notin DOMAIN Durable /\ Durable' = Add(Durable, c)
         /\ fate[c] \in {"none", "queued"} /\ fate' = [fate EXCEPT ![c] = "queued"]
      \/ /\ Durable' = Without(Durable, {c}) /\ fate[c] = "queued"
         /\ fate' = [fate EXCEPT ![c] = "acked"]
  BY CommandDurable
<1>3. \A x \in Cmds : x # c => fate'[x] = fate[x]
  BY <1>0, <1>1
<1>4. Untouched'
  BY <1>0, <1>1 DEF Untouched, PhaseOK
<1>5. Kept(disk)'
  BY <1>0, <1>1, <1>3 DEF Faithful, Kept
<1>6. ASSUME NEW x \in DOMAIN Durable'
      PROVE  /\ x \in Cmds /\ (Durable'[x].expired => "expiry" \in Faults)
             /\ x # c => x \in DOMAIN Durable /\ Durable'[x].retries = Durable[x].retries
  <2>1. \A y \in DOMAIN Durable : y \in Cmds /\ (Durable[y].expired => "expiry" \in Faults)
    BY <1>0 DEF Faithful, Kept, Durable
  <2>2. CASE Durable' = Durable
    BY <2>1, <2>2, <1>6
  <2>3. CASE Durable' = Add(Durable, c) /\ c \notin DOMAIN Durable
    BY <2>1, <2>3, <1>6 DEF Add
  <2>4. CASE Durable' = Without(Durable, {c})
    <3>1. DOMAIN Durable' = DOMAIN Durable \ {c}
      BY <2>4, <1>0, WithoutType
    <3>2. Durable'[x].expired = Durable[x].expired /\ Durable'[x].retries = Durable[x].retries
      BY <2>4, <3>1, <1>0, <1>6 DEF Without, IsStore, Record
    <3> QED BY <3>1, <3>2, <2>1, <1>6
  <2> QED BY <1>2, <2>2, <2>3, <2>4
<1>7. Kept(idb)' /\ Kept(mem)'
  <2>1. \A x \in DOMAIN idb : fate'[x] # "none" /\ (idb[x].expired => "expiry" \in Faults)
    BY <1>0, <1>1, <1>3 DEF Faithful, Kept
  <2>2. \A x \in DOMAIN mem : fate'[x] # "none" /\ (mem[x].expired => "expiry" \in Faults)
    BY <1>0, <1>1, <1>3 DEF Faithful, Kept
  <2>3. \A x \in DOMAIN Durable' : fate'[x] # "none" /\ (Durable'[x].expired => "expiry" \in Faults)
    <3>1. \A x \in DOMAIN Durable : fate[x] # "none"
      BY DEF Faithful, Kept, Durable
    <3> QED BY <3>1, <1>1, <1>3, <1>6
  <2> QED BY <2>1, <2>2, <2>3, <1>1 DEF Kept
<1>8. ASSUME NEW i \in DOMAIN loads, NEW x \in DOMAIN loads[i]
      PROVE  /\ loads[i][x].expired => "expiry" \in Faults
             /\ x \in DOMAIN Durable' => loads[i][x].retries = Durable'[x].retries
             /\ x \notin DOMAIN Durable' => fate'[x] \in {"acked", "dead"}
  <2>1. /\ loads[i][x].expired => "expiry" \in Faults
        /\ x \in DOMAIN Durable => loads[i][x].retries = Durable[x].retries
        /\ x \notin DOMAIN Durable => fate[x] \in {"acked", "dead"}
    BY <1>8 DEF Faithful, Current
  <2>2. CASE x # c
    <3>1. x \in DOMAIN Durable <=> x \in DOMAIN Durable'
      <4>1. CASE Durable' = Durable
        BY <4>1
      <4>2. CASE Durable' = Add(Durable, c)
        BY <4>2, <2>2 DEF Add
      <4>3. CASE Durable' = Without(Durable, {c})
        <5>1. DOMAIN Durable' = DOMAIN Durable \ {c}
          BY <4>3, <1>0, WithoutType
        <5> QED BY <5>1, <2>2
      <4> QED BY <1>2, <4>1, <4>2, <4>3
    <3> QED BY <2>1, <2>2, <3>1, <1>0, <1>3, <1>6
  <2>3. CASE x = c
    <3>1. CASE Durable' = Durable
      BY <2>1, <2>3, <3>1, <1>1
    <3>2. CASE c \notin DOMAIN Durable /\ fate[c] \in {"none", "queued"}
      BY <2>1, <2>3, <3>2
    <3>3. CASE Durable' = Without(Durable, {c}) /\ fate' = [fate EXCEPT ![c] = "acked"]
      <4>1. DOMAIN Durable' = DOMAIN Durable \ {c}
        BY <3>3, <1>0, WithoutType
      <4> QED BY <2>1, <2>3, <3>3, <4>1, <1>0
    <3> QED BY <1>2, <3>1, <3>2, <3>3
  <2> QED BY <2>2, <2>3
<1>9. Current'
  BY <1>1, <1>8 DEF Current
<1> QED BY <1>4, <1>5, <1>7, <1>9

LEMMA KillFaithful ==
  ASSUME Faithful, Kill
  PROVE  Untouched' /\ Kept(idb)' /\ Kept(disk)' /\ Kept(mem)' /\ Current'
<1>1. idb' = disk /\ disk' = disk /\ mem' = EmptyStore /\ loads' = <<>>
  BY DEF Kill
<1>2. DOMAIN mem' = {} /\ \A i \in DOMAIN loads' : FALSE
  BY <1>1, EmptyStoreType
<1>3. \A c \in DOMAIN disk : fate'[c] # "none"
  <2>1. CASE HasIDB
    BY <2>1 DEF Kill, Faithful, Kept
  <2>2. CASE ~HasIDB
    BY <2>2 DEF Faithful, Inv, QueueInv, PhaseOK
  <2> QED BY <2>1, <2>2
<1> QED BY <1>1, <1>2, <1>3 DEF Untouched, Kept, Current, Faithful

LEMMA ExpireFaithful ==
  ASSUME Faithful, NEW c \in Cmds, Expire(c)
  PROVE  Untouched' /\ Kept(idb)' /\ Kept(disk)' /\ Kept(mem)' /\ Current'
<1>0. IsStore(idb) /\ IsStore(disk) /\ IsStore(mem) /\ \A i \in DOMAIN loads : IsStore(loads[i])
  BY InvTypes DEF Faithful
<1>1. /\ idb' = Aged(idb, c) /\ disk' = Aged(disk, c) /\ mem' = Aged(mem, c)
      /\ loads' = [i \in DOMAIN loads |-> Aged(loads[i], c)]
      /\ db' = db /\ fate' = fate /\ "expiry" \in Faults
  BY DEF Expire, history
<1>2. /\ DOMAIN idb' = DOMAIN idb /\ DOMAIN disk' = DOMAIN disk /\ DOMAIN mem' = DOMAIN mem
      /\ DOMAIN loads' = DOMAIN loads
  BY <1>0, <1>1, AgedType
<1>3. /\ DOMAIN Durable' = DOMAIN Durable
      /\ \A x \in DOMAIN Durable : Durable'[x].retries = Durable[x].retries
  <2>1. Durable' = Aged(Durable, c) /\ IsStore(Durable)
    BY <1>0, <1>1 DEF Durable
  <2> QED BY <2>1, AgedType
<1>4. \A i \in DOMAIN loads :
        /\ DOMAIN loads'[i] = DOMAIN loads[i]
        /\ \A x \in DOMAIN loads[i] : loads'[i][x].retries = loads[i][x].retries
  BY <1>0, <1>1, AgedType
<1>5. Untouched'
  BY <1>1, <1>2, <1>4 DEF Faithful, Untouched
<1>6. Kept(idb)' /\ Kept(disk)' /\ Kept(mem)'
  BY <1>1, <1>2 DEF Faithful, Kept
<1>7. Current'
  BY <1>1, <1>2, <1>3, <1>4 DEF Faithful, Current
<1> QED BY <1>5, <1>6, <1>7

LEMMA FaithfulStep == StoredOnce /\ Faithful /\ [Next]_vars => Faithful'
<1> SUFFICES ASSUME StoredOnce, Faithful, [Next]_vars
             PROVE  Untouched' /\ Kept(idb)' /\ Kept(disk)' /\ Kept(mem)' /\ Current'
  BY NextInv DEF Faithful
<1>1. CASE \/ FlushEnd \/ FollowUp \/ GoOnline \/ GoOffline \/ Commit \/ UNCHANGED vars
           \/ \E m \in outbox : PostRetry(m)
           \/ \E t \in Tabs : Open(t) \/ Hello(t) \/ Crash(t) \/ Bye(t)
  BY <1>1, CycleLoads, CycleFaithful DEF Faithful
<1>2. CASE DoFlush
  BY <1>2, DoFlushFaithful
<1>3. CASE Boot \/ Kill
  BY <1>3, BootFaithful, KillFaithful
<1>4. CASE \E t \in Tabs, c \in Cmds : Enqueue(t, c) \/ Ack(t, c)
  BY <1>4, CommandFaithful
<1>5. CASE \E c \in Cmds : Expire(c)
  BY <1>5, ExpireFaithful
<1> QED BY <1>1, <1>2, <1>3, <1>4, <1>5 DEF Next

LEMMA FaithfulAtFirst == Init => Faithful
<1> SUFFICES ASSUME Init
             PROVE  Untouched /\ Kept(idb) /\ Kept(disk) /\ Kept(mem) /\ Current
  BY InitInv DEF Faithful
<1>1. \A i \in DOMAIN loads : FALSE
  BY DEF Init
<1>2. DOMAIN idb = {} /\ DOMAIN disk = {} /\ DOMAIN mem = {}
  BY EmptyStoreType DEF Init
<1> QED BY <1>1, <1>2 DEF Untouched, Kept, Current

\* What the abstract queue sees.
Saved    == [queued |-> DOMAIN disk, tries |-> Tries(disk)]
Mapping  == <<DOMAIN Durable, Tries(Durable), Saved>>

\* The same store has the same counts.
LEMMA SameTries ==
  ASSUME NEW a, NEW b, DOMAIN a = DOMAIN b, \A c \in DOMAIN b : a[c].retries = b[c].retries
  PROVE  Tries(a) = Tries(b)
BY DEF Tries

LEMMA AbstractStutter ==
  ASSUME DOMAIN Durable' = DOMAIN Durable, Tries(Durable)' = Tries(Durable),
         disk' = disk \/ Saved' = Saved
  PROVE  [Abstract!Next]_Mapping
BY DEF Mapping, Saved, Tries

LEMMA AbstractAccept ==
  ASSUME NEW c \in Cmds, c \notin DOMAIN Durable,
         DOMAIN Durable' = DOMAIN Durable \cup {c}, Tries(Durable)' = Tries(Durable),
         disk' = disk
  PROVE  Abstract!Next
<1>1. Abstract!Accept(c)
  BY DEF Abstract!Accept, Tries
<1> QED BY <1>1 DEF Abstract!Next

LEMMA AbstractAcknowledge ==
  ASSUME NEW c \in DOMAIN Durable, c \in Cmds,
         DOMAIN Durable' = DOMAIN Durable \ {c},
         \A x \in DOMAIN Durable \ {c} : Durable'[x].retries = Durable[x].retries,
         disk' = disk
  PROVE  Abstract!Next
<1>1. Tries(Durable)' = [Tries(Durable) EXCEPT ![c] = 0]
  BY DEF Tries
<1>2. Abstract!Acknowledge(c)
  BY <1>1 DEF Abstract!Acknowledge, Tries
<1> QED BY <1>2 DEF Abstract!Next

LEMMA AbstractRound ==
  ASSUME NEW D \in SUBSET DOMAIN Durable, NEW S \in SUBSET DOMAIN Durable, D \cap S = {},
         IsStore(Durable),
         \A c \in D : Durable[c].retries >= MaxRetries \/ "expiry" \in Faults,
         \A c \in S : Durable[c].retries < MaxRetries,
         DOMAIN Durable' = DOMAIN Durable \ D,
         \A c \in DOMAIN Durable \ D :
           Durable'[c].retries = IF c \in S THEN Durable[c].retries + 1 ELSE Durable[c].retries,
         disk' = disk
  PROVE  Abstract!Next
<1>0. DOMAIN Durable \subseteq Cmds
  BY DEF IsStore
<1>1. Tries(Durable)' = [c \in Cmds |-> IF c \in D THEN 0
                                        ELSE IF c \in S THEN Tries(Durable)[c] + 1
                                        ELSE Tries(Durable)[c]]
  BY <1>0 DEF Tries
<1>2. Abstract!Round(D, S)
  BY <1>0, <1>1 DEF Abstract!Round, Tries
<1> QED BY <1>2 DEF Abstract!Next

LEMMA AbstractSave ==
  ASSUME HasIDB, UNCHANGED idb, disk' = idb PROVE Abstract!Next
<1>1. Durable = idb /\ Durable' = idb
  BY DEF Durable
<1>2. Saved' = [queued |-> DOMAIN Durable, tries |-> Tries(Durable)]
  BY <1>1 DEF Saved, Tries
<1>3. Tries(Durable)' = Tries(Durable)
  BY <1>1 DEF Tries
<1>4. Abstract!Save
  BY <1>1, <1>2, <1>3 DEF Abstract!Save, Saved, Tries
<1> QED BY <1>4 DEF Abstract!Next

LEMMA AbstractRestart ==
  ASSUME DOMAIN Durable' = DOMAIN disk,
         \A c \in DOMAIN disk : Durable'[c].retries = disk[c].retries,
         disk' = disk
  PROVE  Abstract!Next
<1>1. Tries(Durable)' = Tries(disk)
  BY DEF Tries
<1>2. Abstract!Restart
  BY <1>1 DEF Abstract!Restart, Tries
<1> QED BY <1>2 DEF Abstract!Next

\* A step that leaves the commands alone is a commit, or none.
LEMMA QuietImplements ==
  ASSUME Inv, UNCHANGED <<idb, mem>>, disk' = disk \/ disk' = idb
  PROVE  [Abstract!Next]_Mapping
<1>1. Durable' = Durable
  BY DEF Durable
<1>2. Tries(Durable)' = Tries(Durable)
  BY <1>1 DEF Tries
<1>3. CASE disk' = disk
  BY <1>1, <1>2, <1>3, AbstractStutter
<1>4. CASE HasIDB /\ disk' = idb
  BY <1>4, AbstractSave
<1>5. CASE ~HasIDB /\ disk' = idb
  <2>1. DOMAIN idb = {} /\ DOMAIN disk = {}
    BY <1>5 DEF Inv, QueueInv, PhaseOK
  <2>2. Saved' = Saved
    BY <1>5, <2>1 DEF Saved, Tries
  <2> QED BY <1>1, <1>2, <2>2, AbstractStutter
<1> QED BY <1>3, <1>4, <1>5

\* A round of the worker is a round of the abstract queue.
LEMMA RoundImplements ==
  ASSUME Faithful, DoFlush PROVE [Abstract!Next]_Mapping
<1>0. TypeInv /\ PhaseOK /\ IsStore(Store) /\ IsStore(Durable)
  BY InvTypes DEF Faithful, Inv, QueueInv
<1>1. PICK s, sent, gone, counted : Rounds(s, sent, gone, counted)
  BY <1>0, RoundFacts
<1> DEFINE new == Increment(Without(Store, gone), counted)
           D   == gone \cap DOMAIN Durable
           S   == counted \cap DOMAIN Durable
<1>2. /\ IsStore(s) /\ loads[1] = s /\ 1 \in DOMAIN loads
      /\ sent \subseteq DOMAIN s \ GivenUp(s) /\ gone \subseteq GivenUp(s) /\ counted \subseteq sent
      /\ SetStore(new) /\ UNCHANGED <<db, disk>>
  BY <1>1 DEF Rounds, Committed, GivenUp
<1>3. DOMAIN new = DOMAIN Store \ gone
  BY <1>0, RoundType
<1>4. ASSUME NEW x \in DOMAIN Store \ gone
      PROVE  new[x].retries = IF x \in counted /\ Store[x].retries < MaxRetries
                              THEN Store[x].retries + 1 ELSE Store[x].retries
  BY <1>0, AfterRound
<1> HIDE DEF new
<1>5. CASE ~Reaches
  <2>1. Durable' = Durable
    BY <1>0, <1>2, <1>5, WriteStep
  <2>2. Tries(Durable)' = Tries(Durable)
    BY <2>1 DEF Tries
  <2> QED BY <2>1, <2>2, <1>2, AbstractStutter
<1>6. CASE Reaches
  <2>1. Store = Durable /\ Durable' = new
    BY <1>0, <1>2, <1>6, WriteStep
  <2>2. \A c \in DOMAIN Durable : c \in DOMAIN s =>
          Durable[c].retries = s[c].retries /\ (s[c].expired => "expiry" \in Faults)
    BY <1>2 DEF Faithful, Current
  <2>3. \A c \in D : Durable[c].retries >= MaxRetries \/ "expiry" \in Faults
    BY <1>2, <2>2 DEF GivenUp
  <2>4. ASSUME NEW c \in S PROVE Durable[c].retries < MaxRetries
    <3>1. c \in DOMAIN s /\ c \notin GivenUp(s) /\ Durable[c].retries = s[c].retries
      BY <1>2, <2>2
    <3>2. s[c].retries \in Nat /\ ~(s[c].retries >= MaxRetries)
      BY <3>1, <1>2 DEF GivenUp, IsStore, Record
    <3> QED BY <3>1, <3>2, MaxRetriesAssumption
  <2>5. D \cap S = {} /\ D \in SUBSET DOMAIN Durable /\ S \in SUBSET DOMAIN Durable
    BY <1>2
  <2>6. DOMAIN Durable' = DOMAIN Durable \ D
    BY <1>3, <2>1
  <2>7. ASSUME NEW c \in DOMAIN Durable \ D
        PROVE  Durable'[c].retries = IF c \in S THEN Durable[c].retries + 1
                                     ELSE Durable[c].retries
    <3>1. c \in S => Durable[c].retries < MaxRetries
      BY <2>4
    <3> QED BY <3>1, <1>4, <2>1, <2>7
  <2> HIDE DEF D, S
  <2>8. Abstract!Next
    BY <2>3, <2>4, <2>5, <2>6, <2>7, <1>0, <1>2, AbstractRound
  <2> QED BY <2>8
<1> QED BY <1>5, <1>6

\* Every step of the worker is a step of the abstract queue, or none.
LEMMA StepImplements ==
  ASSUME StoredOnce, Faithful, [Next]_vars PROVE [Abstract!Next]_Mapping
<1>0. /\ Inv /\ PhaseOK /\ IsStore(Durable) /\ DOMAIN Durable \subseteq Cmds
      /\ IsStore(idb) /\ IsStore(disk) /\ IsStore(mem) /\ fate \in [Cmds -> Fates]
  BY InvTypes DEF Faithful, Inv, QueueInv, IsStore
<1>1. CASE DoFlush
  BY <1>1, RoundImplements
<1>2. CASE \E t \in Tabs, c \in Cmds : Enqueue(t, c) \/ Ack(t, c)
  <2>1. PICK t \in Tabs, c \in Cmds : Enqueue(t, c) \/ Ack(t, c)
    BY <1>2
  <2>2. /\ disk' = disk
        /\ \/ Durable' = Durable
           \/ c \notin DOMAIN Durable /\ Durable' = Add(Durable, c)
           \/ Durable' = Without(Durable, {c})
    BY <2>1, CommandDurable
  <2>3. CASE Durable' = Durable
    <3>1. Tries(Durable)' = Tries(Durable)
      BY <2>3 DEF Tries
    <3> QED BY <2>2, <2>3, <3>1, AbstractStutter
  <2>4. CASE c \notin DOMAIN Durable /\ Durable' = Add(Durable, c)
    <3>1. /\ DOMAIN Durable' = DOMAIN Durable \cup {c}
          /\ \A x \in DOMAIN Durable : Durable'[x] = Durable[x]
          /\ Durable'[c].retries = 0
      BY <1>0, <2>4, AddType DEF Add
    <3>2. Tries(Durable)' = Tries(Durable)
      BY <2>4, <3>1 DEF Tries
    <3> QED BY <2>2, <2>4, <3>1, <3>2, AbstractAccept
  <2>5. CASE Durable' = Without(Durable, {c})
    <3>1. DOMAIN Durable' = DOMAIN Durable \ {c}
      BY <1>0, <2>5, WithoutType
    <3>2. \A x \in DOMAIN Durable \ {c} : Durable'[x].retries = Durable[x].retries
      BY <1>0, <2>5, <3>1 DEF Without, IsStore, Record
    <3>3. CASE c \in DOMAIN Durable
      BY <2>2, <3>1, <3>2, <3>3, AbstractAcknowledge
    <3>4. CASE c \notin DOMAIN Durable
      <4>1. Tries(Durable)' = Tries(Durable)
        BY <3>1, <3>2, <3>4 DEF Tries
      <4> QED BY <2>2, <3>1, <3>4, <4>1, AbstractStutter
    <3> QED BY <3>3, <3>4
  <2> QED BY <2>2, <2>3, <2>4, <2>5
<1>3. CASE Kill
  <2>1. idb' = disk /\ disk' = disk /\ mem' = EmptyStore
    BY <1>3 DEF Kill
  <2>2. DOMAIN Durable' = DOMAIN disk /\ \A c \in DOMAIN disk : Durable'[c].retries = disk[c].retries
    <3>1. CASE HasIDB
      BY <2>1, <3>1 DEF Durable
    <3>2. CASE ~HasIDB
      <4>1. DOMAIN disk = {} /\ DOMAIN mem' = {}
        BY <2>1, <3>2, <1>0, EmptyStoreType DEF PhaseOK
      <4> QED BY <4>1, <3>2 DEF Durable
    <3> QED BY <3>1, <3>2
  <2> QED BY <2>1, <2>2, AbstractRestart
<1>4. CASE \E c \in Cmds : Expire(c)
  <2>1. PICK c \in Cmds : Expire(c)
    BY <1>4
  <2>2. Durable' = Aged(Durable, c) /\ disk' = Aged(disk, c)
    BY <2>1 DEF Expire, Durable
  <2>3. /\ DOMAIN Durable' = DOMAIN Durable /\ DOMAIN disk' = DOMAIN disk
        /\ \A x \in DOMAIN Durable : Durable'[x].retries = Durable[x].retries
        /\ \A x \in DOMAIN disk : disk'[x].retries = disk[x].retries
    BY <1>0, <2>2, AgedType
  <2>4. Tries(Durable)' = Tries(Durable) /\ Tries(disk)' = Tries(disk)
    BY <2>3 DEF Tries
  <2> QED BY <2>3, <2>4, AbstractStutter DEF Saved
<1>5. CASE \/ FlushEnd \/ FollowUp \/ GoOnline \/ GoOffline \/ Commit \/ UNCHANGED vars
           \/ \E m \in outbox : PostRetry(m)
           \/ \E t \in Tabs : Open(t) \/ Hello(t) \/ Crash(t) \/ Bye(t)
  BY <1>0, <1>5, CycleLoads, QuietImplements
<1>6. CASE Boot
  <2>1. UNCHANGED <<idb, mem>>
    BY <1>6 DEF Boot, queue
  <2>2. disk' = disk \/ disk' = idb
    BY <1>6, <1>0, FlushCases DEF Boot, Inv
  <2> QED BY <1>0, <2>1, <2>2, QuietImplements
<1> QED BY <1>1, <1>2, <1>3, <1>4, <1>5, <1>6 DEF Next

\* The worker is the queue the header of sync-worker.js promises, on the store
\* that outlives it: what is accepted stays until it is acknowledged or given up,
\* it is given up only with its budget spent or past its age, no round sends a
\* command beyond its budget, and a restart finds what was committed.  Aborts are
\* allowed for; talking to an opening worker and storing a settled command again
\* are not.
THEOREM WorkerImplementsQueue == ASSUME StoredOnce PROVE Spec => ImplementsQueue
<1>1. Init => Faithful
  BY FaithfulAtFirst
<1>2. Faithful /\ [Next]_vars => Faithful'
  BY FaithfulStep
<1>3. Init => Abstract!Init
  <2> SUFFICES ASSUME Init PROVE Abstract!Init
    OBVIOUS
  <2>1. DOMAIN Durable = {} /\ DOMAIN disk = {}
    BY EmptyStoreType DEF Init, Durable
  <2> QED BY <2>1 DEF Abstract!Init, Abstract!NoTries, Tries
<1>4. Faithful /\ [Next]_vars => [Abstract!Next]_Mapping
  BY StepImplements
<1> QED BY <1>1, <1>2, <1>3, <1>4, PTL
        DEF Spec, ImplementsQueue, Abstract!Spec, Mapping, Saved
=============================================================================
