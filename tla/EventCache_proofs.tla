-------------------------- MODULE EventCache_proofs --------------------------
(***************************************************************************)
(* Proofs about EventCache, for every set of tabs, every filter, every     *)
(* page limit, every length of the journal and every choice of faults.     *)
(*                                                                         *)
(* The invariant behind CacheCoversCursor speaks of every cursor that can  *)
(* still reach IndexedDB: the one in the store, the one a pull started     *)
(* from, the one it has reached, those in the batches that wait for        *)
(* getSyncState and those in the answers that come too late.  A cursor is  *)
(* honest if the visible events up to it are in the cache, or travel with  *)
(* it in the batch.                                                        *)
(***************************************************************************)
EXTENDS EventCache, FiniteSetTheorems, TLAPS

Batch     == [at : SyncState, events : SUBSET (Ids \ Hidden), state : SyncState]
InFlight  == [phase : {"idle", "asking", "paging", "posting"},
              from : SyncState, at : SyncState,
              events : SUBSET (Ids \ Hidden), pages : 0 .. MaxPages]

\* A cursor is the id of an event made before, or the empty string; so is the
\* id a tab waits for.
Made ==
  /\ journal \subseteq 1 .. next - 1
  /\ meta.cursor < next
  /\ \A t \in Tabs : /\ pull[t].from.cursor < next /\ pull[t].at.cursor < next
                     /\ owed[t] < next
                     /\ \A s \in late[t] : s.cursor < next
  /\ \A i \in DOMAIN reads : reads[i].at.cursor < next /\ reads[i].state.cursor < next

\* What a cursor c claims of a journal j, when these events were received.
Claimed(j, c, events) == \A e \in j \ Hidden : e <= c => e \in events

\* A state of the worker that a pull may start from, for a cache of these events.
Honest(j, events, s) == s.backend \in {0, 1} /\ Claimed(j, s.cursor, events)

\* What a pull has collected between the cursor it started from and its own.
Collected(j, p) ==
  /\ p.at.backend \in {0, 1}
  /\ \A e \in j \ Hidden : (p.from.cursor < e /\ e <= p.at.cursor) => e \in p.events

\* A batch brings what its cursor claims beyond the cache.
Delivers(j, events, r) ==
  /\ Honest(j, events, r.state)
  /\ r.at.backend \in {0, 1}
  /\ Claimed(j, r.at.cursor, events \cup r.events)

\* Every cursor that may still be written is honest, on the first backend.
AllHonest ==
  /\ Honest(journal, cache, meta)
  /\ \A t \in Tabs : /\ Honest(journal, cache, pull[t].from)
                     /\ Collected(journal, pull[t])
                     /\ \A s \in late[t] : Honest(journal, cache, s)
  /\ \A i \in DOMAIN reads : Delivers(journal, cache, reads[i])

\* A pull that is about to post has passed what its tab asked for, or another
\* pull is to follow.
PostingHasPassed ==
  \A t \in Tabs : (pull[t].phase = "posting" /\ ~queued[t]) => Passed(t)

Typed  == TypeOK /\ reads \in Seq(Batch) /\ Made
Sound  == Typed /\ (serving = 1 => AllHonest)
Waited == Typed /\ RequestedPullSeesIt /\ PostingHasPassed

-----------------------------------------------------------------------------
(* The least element of a set of naturals, the greatest of a finite one.    *)

Below == {p \in Nat \X Nat : p[1] < p[2]}

LEMMA BelowWellFounded == IsWellFoundedOn(Below, Nat)
<1>1. Below = OpToRel(<, Nat)
  BY DEF Below, OpToRel
<1> QED BY <1>1, NatLessThanWellFounded

LEMMA LeastElement ==
  ASSUME NEW S, S \subseteq Nat, S # {}
  PROVE  \E m \in S : \A e \in S : m <= e
<1>1. PICK m \in S : \A e \in S : ~ <<e, m>> \in Below
  BY BelowWellFounded, WFMin
<1>2. ASSUME NEW e \in S PROVE m <= e
  <2>1. e \in Nat /\ m \in Nat
    OBVIOUS
  <2>2. ~(e < m)
    BY <1>1, <2>1 DEF Below
  <2> QED BY <2>1, <2>2
<1> QED BY <1>2

LEMMA GreatestElement ==
  ASSUME NEW n \in Nat, NEW S, S \subseteq 0 .. n, NEW x \in S
  PROVE  \E m \in S : \A e \in S : e <= m
<1> DEFINE T == {k \in Nat : \A e \in S : e <= k}
<1>1. T \subseteq Nat /\ n \in T
  OBVIOUS
<1> HIDE DEF T
<1>2. PICK k \in T : \A d \in T : k <= d
  BY <1>1, LeastElement
<1>3. k \in Nat /\ \A e \in S : e <= k
  BY DEF T
<1>4. CASE k \in S
  BY <1>3, <1>4
<1>5. CASE k \notin S
  <2>1. \A e \in S : e \in Nat /\ e <= k /\ e # k
    BY <1>3, <1>5
  <2>2. \A e \in S : e <= k - 1
    BY <2>1, <1>3
  <2>3. x \in Nat /\ x <= k - 1
    BY <2>1, <2>2
  <2>4. k - 1 \in Nat
    BY <2>3, <1>3
  <2>5. k - 1 \in T
    BY <2>2, <2>4 DEF T
  <2> QED BY <2>5, <1>2, <1>3
<1> QED BY <1>4, <1>5

-----------------------------------------------------------------------------
(* A page of the journal.                                                   *)

LEMMA WindowInJournal ==
  ASSUME NEW c, NEW n PROVE Window(c, n) \subseteq journal
BY DEF Window

LEMMA LastOfWindow ==
  ASSUME journal \subseteq Ids, NEW c \in 0 .. MaxId, NEW n
  PROVE  /\ Last(Window(c, n), c) \in Window(c, n) \cup {c}
         /\ \A e \in Window(c, n) \cup {c} : e <= Last(Window(c, n), c)
<1> DEFINE S == Window(c, n) \cup {c}
<1>2. MaxId \in Nat
  BY BoundsAssumption
<1>1. S \subseteq 0 .. MaxId
  <2>1. Window(c, n) \subseteq 1 .. MaxId
    BY WindowInJournal DEF Ids
  <2> QED BY <2>1, <1>2
<1>3. \E m \in S : \A e \in S : e <= m
  BY <1>1, <1>2, GreatestElement
<1> QED BY <1>3 DEF Last

\* A window leaves out no event up to its last one.
LEMMA WindowHasNoGap ==
  ASSUME journal \subseteq Ids, NEW c \in 0 .. MaxId, NEW n \in Nat,
         NEW e \in journal, c < e, e <= Last(Window(c, n), c)
  PROVE  e \in Window(c, n)
<1> DEFINE l == Last(Window(c, n), c)
           Before(m) == {d \in journal : c < d /\ d < m}
<1>1. l \in Window(c, n) \cup {c} /\ e <= l
  BY LastOfWindow
<1> HIDE DEF l
<1>2. MaxId \in Nat
  BY BoundsAssumption
<1>a. \A d \in journal : d \in Nat
  BY <1>2 DEF Ids
<1>3. e \in Nat /\ c \in Nat /\ l \in Nat
  BY <1>1, <1>2, <1>a, WindowInJournal
<1>4. l \in Window(c, n)
  BY <1>1, <1>3
<1>5. Cardinality(Before(l)) < n
  BY <1>4 DEF Window
<1>6. IsFiniteSet(Before(l))
  <2>1. IsFiniteSet(1 .. MaxId)
    BY <1>2, FS_Interval
  <2> QED BY <2>1, FS_Subset DEF Ids
<1>7. Before(e) \subseteq Before(l)
  <2>1. ASSUME NEW d \in journal, d < e PROVE d < l
    BY <1>1, <1>3, <1>a, <2>1
  <2> QED BY <2>1
<1>8. Cardinality(Before(e)) <= Cardinality(Before(l))
  BY <1>6, <1>7, FS_Subset
<1>9. Cardinality(Before(e)) \in Nat /\ Cardinality(Before(l)) \in Nat
  BY <1>6, <1>7, FS_Subset, FS_CardinalityType
<1>10. Cardinality(Before(e)) < n
  BY <1>5, <1>8, <1>9
<1> QED BY <1>10 DEF Window

\* A window that one more event would not enlarge ends with the journal.
LEMMA FullWindowEndsTheJournal ==
  ASSUME journal \subseteq Ids, NEW c \in 0 .. MaxId, NEW n \in Nat \ {0},
         Window(c, n) = Window(c, n + 1), NEW e \in journal
  PROVE  e <= Last(Window(c, n), c)
<1> DEFINE l == Last(Window(c, n), c)
           Rest == {d \in journal : l < d}
           Before(m) == {d \in journal : c < d /\ d < m}
<1>0. MaxId \in Nat
  BY BoundsAssumption
<1>1. \A d \in journal : d \in Nat
  BY <1>0 DEF Ids
<1>2. /\ c \in Nat /\ l \in Nat /\ c <= l
      /\ l \in Window(c, n) \cup {c}
      /\ \A d \in Window(c, n) : d <= l
  BY <1>0, <1>1, LastOfWindow, WindowInJournal
<1>a. IsFiniteSet(journal)
  <2>1. IsFiniteSet(1 .. MaxId)
    BY <1>0, FS_Interval
  <2> QED BY <2>1, FS_Subset DEF Ids
<1> HIDE DEF l
<1> SUFFICES ASSUME ~(e <= l) PROVE FALSE
  BY DEF l
<1>3. Rest \subseteq Nat /\ Rest # {}
  BY <1>1, <1>2
<1>4. PICK m \in Rest : \A d \in Rest : m <= d
  BY <1>3, LeastElement
<1>5. m \in journal /\ m \in Nat /\ l < m
  BY <1>4, <1>1
<1>6. \A d \in Before(m) : d <= l
  BY <1>1, <1>2, <1>4, <1>5
<1>7. Cardinality(Before(m)) < n + 1
  <2>1. CASE l = c
    <3>1. Before(m) = {}
      BY <1>1, <1>2, <1>6, <2>1
    <3> QED BY <3>1, FS_EmptySet
  <2>2. CASE l \in Window(c, n)
    <3>1. Cardinality(Before(l)) < n
      BY <2>2 DEF Window
    <3>2. Before(m) \subseteq Before(l) \cup {l}
      BY <1>1, <1>2, <1>6
    <3>3. IsFiniteSet(Before(l)) /\ Cardinality(Before(l)) \in Nat
      BY <1>a, FS_Subset, FS_CardinalityType
    <3>4. /\ IsFiniteSet(Before(l) \cup {l})
          /\ Cardinality(Before(l) \cup {l}) = Cardinality(Before(l)) + 1
      <4>1. l \notin Before(l)
        BY <1>2
      <4> HIDE DEF Before
      <4> QED BY <3>3, <4>1, FS_AddElement
    <3>5. /\ Cardinality(Before(m)) <= Cardinality(Before(l) \cup {l})
          /\ IsFiniteSet(Before(m))
      BY <3>2, <3>4, FS_Subset
    <3>6. Cardinality(Before(m)) \in Nat
      BY <3>5, FS_CardinalityType
    <3> HIDE DEF Before
    <3> QED BY <3>1, <3>3, <3>4, <3>5, <3>6
  <2> QED BY <1>2, <2>1, <2>2
<1>8. c < m
  BY <1>2, <1>5
<1>9. m \in Window(c, n + 1)
  BY <1>5, <1>7, <1>8 DEF Window
<1> QED BY <1>9, <1>2, <1>5

-----------------------------------------------------------------------------
(* Types.                                                                   *)

LEMMA IdleInFlight ==
  /\ Empty \in SyncState /\ Idle \in InFlight
  /\ [Idle EXCEPT !.phase = "asking"] \in InFlight
  /\ \A s \in SyncState : [Idle EXCEPT !.phase = "paging", !.from = s, !.at = s] \in InFlight
<1>1. MaxId \in Nat /\ MaxPages \in Nat
  BY BoundsAssumption
<1>2. Empty \in SyncState
  BY <1>1 DEF Empty, SyncState
<1>3. Idle \in InFlight
  BY <1>1, <1>2 DEF Idle, InFlight
<1> QED BY <1>2, <1>3 DEF InFlight

LEMMA NewMetaInSyncState ==
  ASSUME NEW r \in Batch, meta \in SyncState
  PROVE  /\ NewMeta(r) \in SyncState
         /\ NewMeta(r).cursor \in {meta.cursor, r.at.cursor}
BY DEF NewMeta, Batch, SyncState

\* The end of a pull disturbs one tab.
LEMMA FinishTyped ==
  ASSUME TypeOK, NEW t \in Tabs, NEW done \in BOOLEAN, Finish(t, done)
  PROVE  /\ pull' \in [Tabs -> InFlight] /\ queued' \in [Tabs -> BOOLEAN]
         /\ owed' \in [Tabs -> 0 .. MaxId]
         /\ pull'[t] = IF queued[t] THEN [Idle EXCEPT !.phase = "asking"] ELSE Idle
         /\ \A u \in Tabs \ {t} : pull'[u] = pull[u] /\ queued'[u] = queued[u] /\ owed'[u] = owed[u]
         /\ queued'[t] = FALSE
         /\ owed'[t] = IF ~done \/ Passed(t) THEN 0 ELSE owed[t]
<1>1. MaxId \in Nat
  BY BoundsAssumption
<1>2. /\ pull \in [Tabs -> InFlight] /\ queued \in [Tabs -> BOOLEAN]
      /\ owed \in [Tabs -> 0 .. MaxId]
  BY DEF TypeOK, InFlight
<1>3. pull' \in [Tabs -> InFlight]
  BY <1>2, IdleInFlight DEF Finish
<1> QED BY <1>1, <1>2, <1>3 DEF Finish

\* The row that a page leaves, and the tab it leaves it for.
LEMMA PageTyped ==
  ASSUME Typed, NEW t \in Tabs, Page(t)
  PROVE  /\ pull' \in [Tabs -> InFlight]
         /\ \A u \in Tabs \ {t} : pull'[u] = pull[u] /\ owed'[u] = owed[u]
         /\ owed' \in [Tabs -> 0 .. MaxId] /\ owed'[t] \in {0, owed[t]}
         /\ pull'[t].from = pull[t].from
         /\ pull'[t].at = [cursor  |-> Last(Window(pull[t].at.cursor, PageLimit), pull[t].at.cursor),
                           backend |-> serving]
         /\ pull'[t].events = pull[t].events \cup Visible(Window(pull[t].at.cursor, PageLimit))
         /\ \/ pull'[t].phase = "paging"
            \/ /\ pull'[t].phase = "posting"
               /\ \/ Window(pull[t].at.cursor, PageLimit) = Window(pull[t].at.cursor, PageLimit + 1)
                  \/ owed'[t] = 0
         /\ pull'[t].at.cursor \in {pull[t].at.cursor} \cup journal
<1> DEFINE at     == pull[t].at.cursor
           window == Window(at, PageLimit)
           more   == window # Window(at, PageLimit + 1)
           again  == more /\ pull[t].pages < MaxPages
           l      == Last(window, at)
           new    == [pull[t] EXCEPT !.at     = [cursor |-> l, backend |-> serving],
                                     !.events = @ \cup Visible(window),
                                     !.pages  = IF again THEN @ + 1 ELSE @,
                                     !.phase  = IF again THEN @ ELSE "posting"]
<1>1. MaxId \in Nat /\ MaxPages \in Nat
  BY BoundsAssumption
<1>2. /\ pull \in [Tabs -> InFlight] /\ owed \in [Tabs -> 0 .. MaxId]
      /\ journal \subseteq Ids /\ serving \in Backends
  BY DEF Typed, TypeOK, InFlight
<1>3. pull[t] \in InFlight /\ pull[t].phase = "paging"
  BY <1>2 DEF Page
<1>4. at \in 0 .. MaxId
  BY <1>3 DEF InFlight, SyncState
<1>5. l \in window \cup {at} /\ window \subseteq journal
  BY <1>2, <1>4, LastOfWindow, WindowInJournal
<1>7. Visible(window) \in SUBSET (Ids \ Hidden)
  BY <1>2, <1>5 DEF Visible
<1> HIDE DEF l, window
<1>6. l \in 0 .. MaxId
  <2>1. journal \subseteq 0 .. MaxId
    BY <1>1, <1>2 DEF Ids
  <2> QED BY <2>1, <1>4, <1>5
<1>8. /\ pull' = [pull EXCEPT ![t] = new]
      /\ owed' = IF more /\ ~again THEN [owed EXCEPT ![t] = 0] ELSE owed
  BY DEF Page, l, window
<1>9. new \in InFlight
  <2>1. [cursor |-> l, backend |-> serving] \in SyncState
    BY <1>2, <1>6 DEF SyncState
  <2>2. (IF again THEN pull[t].pages + 1 ELSE pull[t].pages) \in 0 .. MaxPages
    BY <1>1, <1>3 DEF InFlight
  <2>3. (pull[t].events \cup Visible(window)) \in SUBSET (Ids \ Hidden)
    BY <1>3, <1>7 DEF InFlight
  <2> HIDE DEF more
  <2> QED BY <1>3, <2>1, <2>2, <2>3 DEF InFlight
<1>10. /\ new.from = pull[t].from /\ new.at = [cursor |-> l, backend |-> serving]
       /\ new.events = pull[t].events \cup Visible(window)
       /\ new.phase = IF again THEN "paging" ELSE "posting"
  <2> HIDE DEF more
  <2> QED BY <1>3 DEF InFlight
<1> HIDE DEF new
<1>11. pull' \in [Tabs -> InFlight] /\ pull'[t] = new /\ \A u \in Tabs \ {t} : pull'[u] = pull[u]
  BY <1>2, <1>8, <1>9
<1>12. /\ owed' \in [Tabs -> 0 .. MaxId]
       /\ owed'[t] = IF more /\ ~again THEN 0 ELSE owed[t]
       /\ \A u \in Tabs \ {t} : owed'[u] = owed[u]
  <2> HIDE DEF more
  <2> QED BY <1>1, <1>2, <1>8
<1>13. pull'[t].at.cursor \in {at} \cup journal
  BY <1>5, <1>10, <1>11
<1> QED BY <1>10, <1>11, <1>12, <1>13 DEF l, window

LEMMA AppendedEntries ==
  ASSUME NEW S, NEW q \in Seq(S), NEW x \in S
  PROVE  /\ Append(q, x) \in Seq(S)
         /\ \A i \in DOMAIN Append(q, x) : (i \in DOMAIN q /\ Append(q, x)[i] = q[i])
                                          \/ Append(q, x)[i] = x
<1>1. Append(q, x) \in Seq(S) /\ Len(Append(q, x)) = Len(q) + 1 /\ Len(q) \in Nat
  OBVIOUS
<1>2. ASSUME NEW i \in 1 .. Len(q) + 1
      PROVE  (i \in DOMAIN q /\ Append(q, x)[i] = q[i]) \/ Append(q, x)[i] = x
  <2>1. CASE i = Len(q) + 1
    BY <2>1
  <2>2. CASE i \in 1 .. Len(q)
    BY <2>2
  <2> QED BY <1>1, <2>1, <2>2
<1> QED BY <1>1, <1>2

LEMMA TypedInit == Init => Typed
<1> SUFFICES ASSUME Init PROVE Typed
  OBVIOUS
<1>1. /\ MaxId \in Nat /\ MaxPages \in Nat /\ Rebuilds \in Nat
      /\ Empty \in SyncState /\ Idle \in InFlight
  BY BoundsAssumption, IdleInFlight
<1>2. pull \in [Tabs -> InFlight] /\ reads \in Seq(Batch)
  BY <1>1 DEF Init
<1>a. /\ journal \subseteq Ids /\ next \in 1 .. MaxId + 1 /\ serving \in Backends
      /\ cache \subseteq Ids \ Hidden
  BY <1>1 DEF Init, Backends
<1>c. /\ queued \in [Tabs -> BOOLEAN] /\ late \in [Tabs -> SUBSET SyncState]
      /\ owed \in [Tabs -> 0 .. MaxId]
  BY <1>1 DEF Init
<1>d. aborted \in BOOLEAN /\ ready \in BOOLEAN
  BY DEF Init
<1>b. \A i \in DOMAIN reads : reads[i] \in Batch
  BY <1>2
<1>3. TypeOK
  BY <1>1, <1>2, <1>a, <1>b, <1>c, <1>d DEF Init, TypeOK, InFlight, Batch
<1>4. Made
  BY <1>1 DEF Init, Made, Empty, Idle
<1> QED BY <1>2, <1>3, <1>4 DEF Typed

LEMMA TypedStep == Typed /\ [Next]_vars => Typed'
<1> SUFFICES ASSUME Typed, [Next]_vars PROVE Typed'
  OBVIOUS
<1>1. MaxId \in Nat /\ MaxPages \in Nat /\ Rebuilds \in Nat
  BY BoundsAssumption
<1>2. /\ journal \subseteq Ids /\ next \in 1 .. MaxId + 1 /\ serving \in Backends
      /\ ready \in BOOLEAN /\ meta \in SyncState /\ cache \subseteq Ids \ Hidden
      /\ reads \in Seq(Batch) /\ pull \in [Tabs -> InFlight]
      /\ queued \in [Tabs -> BOOLEAN] /\ late \in [Tabs -> SUBSET SyncState]
      /\ owed \in [Tabs -> 0 .. MaxId] /\ aborted \in BOOLEAN
  BY DEF Typed, TypeOK, InFlight
<1>3. Made /\ next \in Nat /\ 0 < next
  BY <1>1, <1>2 DEF Typed
\* The shape of the state after the step, from its parts.
<1>q. ASSUME journal' \subseteq Ids, next' \in 1 .. MaxId + 1, serving' \in Backends,
             ready' \in BOOLEAN, meta' \in SyncState, cache' \subseteq Ids \ Hidden,
             reads' \in Seq(Batch), pull' \in [Tabs -> InFlight],
             queued' \in [Tabs -> BOOLEAN], late' \in [Tabs -> SUBSET SyncState],
             owed' \in [Tabs -> 0 .. MaxId], aborted' \in BOOLEAN,
             Made'
      PROVE  Typed'
  <2>1. \A i \in DOMAIN reads' : reads'[i] \in Batch
    BY <1>q
  <2> QED BY <1>q, <2>1 DEF Typed, TypeOK, InFlight, Batch
<1>4. CASE AppendEvent
  <2>1. Made'
    <3>1. next' = next + 1 /\ journal' = journal \cup {next} /\ next \in Nat
      BY <1>1, <1>2, <1>4 DEF AppendEvent
    <3>2. \A k \in Nat : k < next => k < next'
      BY <3>1
    <3>3. \A z \in SyncState : z.cursor \in Nat
      BY <1>1 DEF SyncState
    <3>4. journal' \subseteq 1 .. next' - 1
      BY <1>1, <1>3, <3>1 DEF Made
    <3>5. UNCHANGED <<meta, pull, late, owed, reads>>
      BY <1>4 DEF AppendEvent, worker, history
    <3>6. meta.cursor < next'
      BY <1>2, <1>3, <3>2, <3>3 DEF Made
    <3>7. ASSUME NEW u \in Tabs
          PROVE  /\ pull[u].from.cursor < next' /\ pull[u].at.cursor < next'
                 /\ owed[u] < next' /\ \A z \in late[u] : z.cursor < next'
      <4>1. /\ pull[u].from \in SyncState /\ pull[u].at \in SyncState
            /\ owed[u] \in Nat /\ \A z \in late[u] : z \in SyncState
        BY <1>1, <1>2 DEF InFlight
      <4> QED BY <1>3, <3>2, <3>3, <4>1 DEF Made
    <3>8. ASSUME NEW i \in DOMAIN reads
          PROVE  reads[i].at.cursor < next' /\ reads[i].state.cursor < next'
      <4>1. reads[i].at \in SyncState /\ reads[i].state \in SyncState
        <5>1. reads[i] \in Batch
          BY <1>2
        <5> QED BY <5>1 DEF Batch
      <4> QED BY <1>3, <3>2, <3>3, <4>1 DEF Made
    <3> QED BY <3>4, <3>5, <3>6, <3>7, <3>8 DEF Made
  <2> QED BY <1>1, <1>2, <1>4, <1>q, <2>1 DEF AppendEvent, worker, history, Ids
<1>5. CASE Write
  <2>1. PICK r : r = Head(reads)
    OBVIOUS
  <2>2. r \in Batch /\ reads' \in Seq(Batch) /\ reads # <<>>
    BY <1>2, <1>5, <2>1 DEF Write
  <2>3. reads' = Tail(reads) /\ \A i \in DOMAIN reads' : i + 1 \in DOMAIN reads /\ reads'[i] = reads[i + 1]
    BY <1>2, <1>5, <2>2 DEF Write
  <2>4. \/ /\ cache' = (IF Reset(r) THEN {} ELSE cache) \cup r.events
           /\ meta' = NewMeta(r) /\ aborted' = FALSE
        \/ aborted' = TRUE /\ UNCHANGED <<cache, meta>>
    BY <1>5, <2>1 DEF Write
  <2>5. meta' \in SyncState /\ meta'.cursor < next
    <3>1. 1 \in DOMAIN reads /\ r = reads[1]
      BY <1>2, <2>1, <2>2
    <3>2. r.at.cursor < next /\ meta.cursor < next
      BY <1>3, <3>1 DEF Made
    <3> QED BY <1>2, <2>2, <2>4, <3>2, NewMetaInSyncState
  <2>6. cache' \subseteq Ids \ Hidden /\ aborted' \in BOOLEAN
    BY <1>2, <2>2, <2>4 DEF Batch
  <2>7. UNCHANGED <<journal, next, serving, ready, pull, queued, late, owed>>
    BY <1>5 DEF Write, server
  <2>8. Made'
    BY <1>3, <2>3, <2>5, <2>7 DEF Made
  <2> QED BY <1>2, <1>q, <2>2, <2>5, <2>6, <2>7, <2>8
<1>6. CASE DbOpens
  <2>1. Made'
    BY <1>3, <1>6 DEF Made, DbOpens, server, history
  <2> QED BY <1>2, <1>6, <1>q, <2>1 DEF DbOpens, server, history
<1>7. CASE Restart
  <2>1. Idle \in InFlight /\ Idle.from.cursor = 0 /\ Idle.at.cursor = 0
    BY IdleInFlight DEF Idle, Empty
  <2>2. Made'
    BY <1>2, <1>3, <1>7, <2>1 DEF Made, Restart, server
  <2>3. /\ pull' \in [Tabs -> InFlight] /\ queued' \in [Tabs -> BOOLEAN]
        /\ late' \in [Tabs -> SUBSET SyncState] /\ owed' \in [Tabs -> 0 .. MaxId]
    BY <1>1, <1>7, <2>1 DEF Restart
  <2>4. /\ reads' = <<>> /\ ready' = FALSE
        /\ UNCHANGED <<journal, next, serving, meta, cache, aborted>>
    BY <1>7 DEF Restart, server
  <2>5. reads' \in Seq(Batch) /\ ready' \in BOOLEAN
    <3>1. <<>> \in Seq(Batch) /\ FALSE \in BOOLEAN
      OBVIOUS
    <3> QED BY <2>4, <3>1
  <2> QED BY <1>2, <1>q, <2>2, <2>3, <2>4, <2>5
<1>8. ASSUME NEW k \in 0 .. MaxId, Rebuild(k) PROVE Typed'
  <2>1. Made'
    BY <1>2, <1>3, <1>8 DEF Made, Rebuild, worker, history
  <2>2. serving' \in Backends
    BY <1>1, <1>2, <1>8 DEF Rebuild, Backends
  <2> QED BY <1>2, <1>8, <1>q, <2>1, <2>2 DEF Rebuild, worker, history
<1>9. ASSUME NEW t \in Tabs, Pull(t) PROVE Typed'
  <2>1. pull' \in [Tabs -> InFlight] /\ queued' \in [Tabs -> BOOLEAN]
    <3>1. [pull[t] EXCEPT !.phase = "asking"] \in InFlight
      BY <1>2 DEF InFlight
    <3> QED BY <1>2, <1>9, <3>1 DEF Pull
  <2>2. owed' \in [Tabs -> 0 .. MaxId] /\ \A u \in Tabs : owed'[u] < next
    <3>1. next - 1 \in 0 .. MaxId /\ next - 1 < next
      BY <1>1, <1>2, <1>3
    <3>2. owed' = [owed EXCEPT ![t] = next - 1]
      BY <1>9 DEF Pull
    <3> QED BY <1>2, <1>3, <3>1, <3>2 DEF Made
  <2>3. \A u \in Tabs : pull'[u].from = pull[u].from /\ pull'[u].at = pull[u].at
    <3>1. /\ [pull[t] EXCEPT !.phase = "asking"].from = pull[t].from
          /\ [pull[t] EXCEPT !.phase = "asking"].at = pull[t].at
      BY <1>2 DEF InFlight
    <3> QED BY <1>2, <1>9, <3>1 DEF Pull
  <2>4. Made'
    BY <1>3, <1>9, <2>2, <2>3 DEF Made, Pull, server, worker
  <2> QED BY <1>2, <1>9, <1>q, <2>1, <2>2, <2>4 DEF Pull, server, worker
<1>10. ASSUME NEW t \in Tabs, GetState(t) PROVE Typed'
  <2> DEFINE answer == IF ready THEN meta ELSE Empty
             Goes(s) == [Idle EXCEPT !.phase = "paging", !.from = s, !.at = s]
  <2>1. answer \in SyncState /\ answer.cursor < next
    BY <1>2, <1>3, IdleInFlight DEF Made, Empty
  <2>2. Empty \in SyncState /\ Empty.cursor < next /\ \A s \in late[t] : s \in SyncState /\ s.cursor < next
    BY <1>2, <1>3, IdleInFlight DEF Made, Empty
  <2> HIDE DEF answer
  <2>3. PICK s \in SyncState : s.cursor < next /\ pull' = [pull EXCEPT ![t] = Goes(s)]
    BY <1>10, <2>1, <2>2 DEF GetState, answer
  <2>4. /\ late' \in [Tabs -> SUBSET SyncState]
        /\ \A u \in Tabs : \A z \in late'[u] : z.cursor < next
    <3>1. \A u \in Tabs : \A z \in late[u] : z.cursor < next
      BY <1>3 DEF Made
    <3>2. CASE late' = [late EXCEPT ![t] = {}]
      BY <1>2, <3>1, <3>2
    <3>3. ASSUME NEW z \in late[t] \cup {answer}, late' = [late EXCEPT ![t] = {z}]
          PROVE  /\ late' \in [Tabs -> SUBSET SyncState]
                 /\ \A u \in Tabs : \A y \in late'[u] : y.cursor < next
      BY <1>2, <2>1, <2>2, <3>1, <3>3
    <3>4. \/ late' = [late EXCEPT ![t] = {}]
          \/ \E z \in late[t] \cup {answer} : late' = [late EXCEPT ![t] = {z}]
      BY <1>10 DEF GetState, answer
    <3> QED BY <3>2, <3>3, <3>4
  <2>5. Goes(s) \in InFlight /\ Goes(s).from = s /\ Goes(s).at = s
    BY IdleInFlight DEF Idle
  <2>6. UNCHANGED <<server, worker, queued, history>>
    BY <1>10 DEF GetState
  <2> HIDE DEF Goes
  <2>7. Made'
    BY <1>2, <1>3, <2>3, <2>4, <2>5, <2>6 DEF Made, server, worker, history
  <2> QED BY <1>2, <1>q, <2>3, <2>4, <2>5, <2>6, <2>7 DEF server, worker, history
<1>11. ASSUME NEW t \in Tabs, Page(t) PROVE Typed'
  <2>1. UNCHANGED <<server, worker, queued, late, aborted>>
    BY <1>11 DEF Page
  <2>2. /\ pull' \in [Tabs -> InFlight] /\ owed' \in [Tabs -> 0 .. MaxId]
        /\ owed'[t] \in {0, owed[t]}
        /\ \A u \in Tabs \ {t} : pull'[u] = pull[u] /\ owed'[u] = owed[u]
        /\ pull'[t].from = pull[t].from
        /\ pull'[t].at.cursor \in {pull[t].at.cursor} \cup journal
    BY <1>11, PageTyped
  <2>3. \A e \in journal : e < next
    BY <1>1, <1>2, <1>3 DEF Made
  <2>4. \A u \in Tabs : /\ pull'[u].from.cursor < next /\ pull'[u].at.cursor < next
                        /\ owed'[u] < next
    <3>1. \A u \in Tabs : /\ pull[u].from.cursor < next /\ pull[u].at.cursor < next
                          /\ owed[u] < next
      BY <1>3 DEF Made
    <3>2. pull'[t].from.cursor < next /\ pull'[t].at.cursor < next /\ owed'[t] < next
      BY <1>3, <2>2, <2>3, <3>1
    <3> QED BY <2>2, <3>1, <3>2
  <2>5. Made'
    BY <1>3, <2>1, <2>4 DEF Made, server, worker
  <2> QED BY <1>2, <1>q, <2>1, <2>2, <2>5 DEF server, worker
<1>12. ASSUME NEW t \in Tabs, NEW done \in BOOLEAN, Finish(t, done),
              UNCHANGED <<server, ready, meta, cache, late, aborted>>,
              reads' \in Seq(Batch),
              \A i \in DOMAIN reads' : reads'[i].at.cursor < next /\ reads'[i].state.cursor < next
       PROVE  Typed'
  <2>1. /\ pull' \in [Tabs -> InFlight] /\ queued' \in [Tabs -> BOOLEAN]
        /\ owed' \in [Tabs -> 0 .. MaxId]
        /\ pull'[t] = IF queued[t] THEN [Idle EXCEPT !.phase = "asking"] ELSE Idle
        /\ \A u \in Tabs \ {t} : pull'[u] = pull[u] /\ owed'[u] = owed[u]
        /\ owed'[t] = IF ~done \/ Passed(t) THEN 0 ELSE owed[t]
    BY <1>12, FinishTyped DEF Typed
  <2>2. pull'[t].from.cursor = 0 /\ pull'[t].at.cursor = 0
    BY <2>1 DEF Idle, Empty
  <2>3. \A u \in Tabs : /\ pull'[u].from.cursor < next /\ pull'[u].at.cursor < next
                        /\ owed'[u] < next
    <3>1. \A u \in Tabs : /\ pull[u].from.cursor < next /\ pull[u].at.cursor < next
                          /\ owed[u] < next
      BY <1>3 DEF Made
    <3>2. pull'[t].from.cursor < next /\ pull'[t].at.cursor < next /\ owed'[t] < next
      BY <1>3, <2>1, <2>2, <3>1
    <3> QED BY <2>1, <3>1, <3>2
  <2>4. Made'
    BY <1>3, <1>12, <2>3 DEF Made, server
  <2> QED BY <1>2, <1>12, <1>q, <2>1, <2>4 DEF server
<1>13. ASSUME NEW t \in Tabs, Post(t) PROVE Typed'
  <2> DEFINE row == [at |-> pull[t].at, events |-> pull[t].events, state |-> meta]
  <2>1. row \in Batch
    BY <1>2 DEF Batch, InFlight
  <2>2. row.at.cursor < next /\ row.state.cursor < next
    BY <1>3 DEF Made
  <2> HIDE DEF row
  <2>3. reads' = Append(reads, row) \/ reads' = reads
    BY <1>13 DEF Post, row
  <2>4. /\ reads' \in Seq(Batch)
        /\ \A i \in DOMAIN reads' : reads'[i].at.cursor < next /\ reads'[i].state.cursor < next
    <3>1. \A i \in DOMAIN reads : reads[i].at.cursor < next /\ reads[i].state.cursor < next
      BY <1>3 DEF Made
    <3>2. CASE reads' = Append(reads, row)
      <4>1. /\ reads' \in Seq(Batch)
            /\ \A i \in DOMAIN reads' : (i \in DOMAIN reads /\ reads'[i] = reads[i]) \/ reads'[i] = row
        BY <1>2, <2>1, <3>2, AppendedEntries
      <4> QED BY <2>2, <3>1, <4>1
    <3> QED BY <1>2, <2>3, <3>1, <3>2
  <2>5. Finish(t, TRUE) /\ UNCHANGED <<server, ready, meta, cache, late, aborted>>
    BY <1>13 DEF Post
  <2> QED BY <1>12, <2>4, <2>5
<1>14. ASSUME NEW t \in Tabs, PageFails(t) PROVE Typed'
  <2>1. /\ Finish(t, FALSE) /\ UNCHANGED <<server, worker, late, aborted>>
    BY <1>14 DEF PageFails
  <2>2. \A i \in DOMAIN reads' : reads'[i].at.cursor < next /\ reads'[i].state.cursor < next
    BY <1>3, <2>1 DEF Made, worker
  <2> QED BY <1>2, <1>12, <2>1, <2>2 DEF worker
<1>15. CASE UNCHANGED vars
  <2>1. Made'
    BY <1>3, <1>15 DEF Made, vars, server, worker, history
  <2> QED BY <1>2, <1>15, <1>q, <2>1 DEF vars, server, worker, history
<1> QED BY <1>4, <1>5, <1>6, <1>7, <1>8, <1>9, <1>10, <1>11, <1>13, <1>14, <1>15 DEF Next

-----------------------------------------------------------------------------
(* Honest cursors stay honest.                                              *)

\* The journal grows by an event later than every cursor, the cache grows.
LEMMA ClaimKept ==
  ASSUME NEW n \in Nat, NEW j, NEW j2, j2 \subseteq j \cup {n},
         NEW E, NEW E2, E \subseteq E2, NEW c \in Nat, c < n, Claimed(j, c, E)
  PROVE  Claimed(j2, c, E2)
BY DEF Claimed

LEMMA HonestKept ==
  ASSUME NEW n \in Nat, NEW j, NEW j2, j2 \subseteq j \cup {n},
         NEW E, NEW E2, E \subseteq E2, NEW s \in SyncState, s.cursor < n, Honest(j, E, s)
  PROVE  Honest(j2, E2, s)
<1>1. s.cursor \in Nat
  BY BoundsAssumption DEF SyncState
<1> QED BY <1>1, ClaimKept DEF Honest

LEMMA CollectedKept ==
  ASSUME NEW n \in Nat, NEW j, NEW j2, j2 \subseteq j \cup {n},
         NEW p \in InFlight, p.at.cursor < n, Collected(j, p)
  PROVE  Collected(j2, p)
<1>1. p.at.cursor \in Nat
  BY BoundsAssumption DEF InFlight, SyncState
<1>2. ~ (n <= p.at.cursor)
  BY <1>1
<1> QED BY <1>2 DEF Collected

LEMMA DeliversKept ==
  ASSUME NEW n \in Nat, NEW j, NEW j2, j2 \subseteq j \cup {n},
         NEW E, NEW E2, E \subseteq E2, NEW r \in Batch,
         r.at.cursor < n, r.state.cursor < n, Delivers(j, E, r)
  PROVE  Delivers(j2, E2, r)
<1>1. r.at.cursor \in Nat /\ r.state \in SyncState
  BY BoundsAssumption DEF Batch, SyncState
<1>2. Honest(j2, E2, r.state)
  BY <1>1, HonestKept DEF Delivers
<1>3. Claimed(j2, r.at.cursor, E2 \cup r.events)
  <2>1. E \cup r.events \subseteq E2 \cup r.events
    OBVIOUS
  <2> QED BY <1>1, <2>1, ClaimKept DEF Delivers
<1> QED BY <1>2, <1>3 DEF Delivers

\* A pull that has not started collects nothing from nothing.
LEMMA EmptyIsHonest ==
  ASSUME NEW j, j \subseteq Ids, NEW E
  PROVE  /\ Honest(j, E, Empty) /\ Honest(j, E, Idle.from) /\ Collected(j, Idle)
         /\ Collected(j, [Idle EXCEPT !.phase = "asking"])
         /\ \A s \in SyncState : Honest(j, E, s) => Collected(j, [Idle EXCEPT !.phase = "paging", !.from = s, !.at = s])
<1>1. \A e \in j : e \in Nat /\ ~ (e <= 0)
  BY BoundsAssumption DEF Ids
<1>2. Honest(j, E, Empty)
  BY <1>1 DEF Honest, Claimed, Empty
<1>3. Collected(j, Idle) /\ Collected(j, [Idle EXCEPT !.phase = "asking"])
  BY <1>1 DEF Collected, Idle, Empty
<1>4. ASSUME NEW s \in SyncState, Honest(j, E, s)
      PROVE  Collected(j, [Idle EXCEPT !.phase = "paging", !.from = s, !.at = s])
  <2> DEFINE p == [Idle EXCEPT !.phase = "paging", !.from = s, !.at = s]
  <2>1. p.from = s /\ p.at = s
    BY DEF Idle
  <2>2. s.backend \in {0, 1}
    BY <1>4 DEF Honest
  <2>3. \A e \in j : ~ (s.cursor < e /\ e <= s.cursor)
    <3>1. s.cursor \in Nat
      BY BoundsAssumption DEF SyncState
    <3> QED BY <1>1, <3>1 DEF Ids
  <2> HIDE DEF p
  <2> QED BY <2>1, <2>2, <2>3 DEF Collected
<1> QED BY <1>2, <1>3, <1>4 DEF Idle

\* What a transaction writes for a batch.
LEMMA WrittenIsHonest ==
  ASSUME NEW r \in Batch, meta \in SyncState, Honest(journal, cache, meta),
         Delivers(journal, cache, r)
  PROVE  /\ ~Reset(r)
         /\ Honest(journal, cache \cup r.events, NewMeta(r))
<1>1. ~Reset(r)
  BY DEF Reset, Delivers, Honest
<1>2. ASSUME r.at.cursor = 0 \/ Regress(r)
      PROVE  Honest(journal, cache \cup r.events, NewMeta(r))
  <2>1. NewMeta(r) = meta
    BY <1>2 DEF NewMeta
  <2> QED BY <2>1 DEF Honest, Claimed
<1>3. ASSUME ~(r.at.cursor = 0 \/ Regress(r))
      PROVE  Honest(journal, cache \cup r.events, NewMeta(r))
  <2>1. r.at \in SyncState
    BY DEF Batch
  <2>2. /\ NewMeta(r).cursor = r.at.cursor
        /\ NewMeta(r).backend \in {r.at.backend, r.state.backend}
    BY <1>3, <2>1 DEF NewMeta, SyncState
  <2>3. NewMeta(r).backend \in {0, 1}
    BY <2>2 DEF Delivers, Honest
  <2> QED BY <2>2, <2>3 DEF Delivers, Honest
<1> QED BY <1>1, <1>2, <1>3

\* A page brings what its window shows, and the window has no gap.
LEMMA PageCollects ==
  ASSUME Typed, NEW t \in Tabs, Page(t), serving = 1, Collected(journal, pull[t])
  PROVE  Collected(journal, pull'[t])
<1> DEFINE at == pull[t].at.cursor
           l  == Last(Window(at, PageLimit), at)
<1>1. /\ pull[t] \in InFlight /\ journal \subseteq Ids
  BY DEF Typed, TypeOK, InFlight
<1>2. at \in 0 .. MaxId /\ MaxId \in Nat /\ PageLimit \in Nat
  BY <1>1, BoundsAssumption DEF InFlight, SyncState
<1>3. /\ pull'[t].from = pull[t].from
      /\ pull'[t].at = [cursor |-> l, backend |-> 1]
      /\ pull'[t].events = pull[t].events \cup Visible(Window(at, PageLimit))
  BY PageTyped
<1>4. ASSUME NEW e \in journal \ Hidden, pull[t].from.cursor < e, e <= l
      PROVE  e \in pull'[t].events
  <2>1. CASE e <= at
    BY <1>3, <1>4, <2>1 DEF Collected
  <2>2. CASE at < e
    <3>1. e \in Window(at, PageLimit)
      BY <1>1, <1>2, <1>4, <2>2, WindowHasNoGap
    <3> QED BY <1>3, <3>1 DEF Visible
  <2>3. e \in Nat
    BY <1>1, <1>2 DEF Ids
  <2> QED BY <1>2, <2>1, <2>2, <2>3
<1> HIDE DEF l
<1> QED BY <1>3, <1>4 DEF Collected

-----------------------------------------------------------------------------
(* The events of the cache reach its cursor.                                *)

LEMMA SoundInit == Init => Sound
<1> SUFFICES ASSUME Init PROVE AllHonest
  BY TypedInit DEF Sound
<1>1. /\ journal \subseteq Ids /\ meta = Empty /\ reads = <<>>
      /\ \A t \in Tabs : pull[t] = Idle /\ late[t] = {}
  BY DEF Init
<1>2. Honest(journal, cache, Empty) /\ Honest(journal, cache, Idle.from) /\ Collected(journal, Idle)
  BY <1>1, EmptyIsHonest
<1>3. \A i \in DOMAIN reads : Delivers(journal, cache, reads[i])
  BY <1>1
<1> QED BY <1>1, <1>2, <1>3 DEF AllHonest

LEMMA SoundStep == Sound /\ [Next]_vars => Sound'
<1> SUFFICES ASSUME Sound, [Next]_vars, Typed', serving' = 1 PROVE AllHonest'
  BY TypedStep DEF Sound
<1>1. /\ journal \subseteq Ids /\ next \in Nat /\ meta \in SyncState
      /\ reads \in Seq(Batch) /\ pull \in [Tabs -> InFlight]
      /\ late \in [Tabs -> SUBSET SyncState]
  BY BoundsAssumption DEF Sound, Typed, TypeOK, InFlight
<1>2. serving = 1
  <2>1. serving \in Nat /\ 1 <= serving
    BY BoundsAssumption DEF Sound, Typed, TypeOK, Backends
  <2>2. ~ \E k \in 0 .. MaxId : Rebuild(k)
    BY <2>1 DEF Rebuild
  <2> QED BY <2>2 DEF Next, vars, server, history, AppendEvent, Write, DbOpens, Restart, Pull,
             GetState, Page, Post, PageFails
<1>3. AllHonest /\ Made /\ Typed
  BY <1>2 DEF Sound, Typed
<1>4. meta.cursor < next /\ Honest(journal, cache, meta)
  BY <1>3 DEF Made, AllHonest
<1>5. \A t \in Tabs : /\ pull[t] \in InFlight /\ pull[t].from \in SyncState
                      /\ pull[t].from.cursor < next /\ pull[t].at.cursor < next
                      /\ Honest(journal, cache, pull[t].from) /\ Collected(journal, pull[t])
  BY <1>1, <1>3 DEF Made, AllHonest, InFlight
<1>6. \A t \in Tabs : \A s \in late[t] : /\ s \in SyncState /\ s.cursor < next
                                         /\ Honest(journal, cache, s)
  BY <1>1, <1>3 DEF Made, AllHonest
<1>7. \A i \in DOMAIN reads : /\ reads[i] \in Batch
                              /\ reads[i].at.cursor < next /\ reads[i].state.cursor < next
                              /\ Delivers(journal, cache, reads[i])
  BY <1>1, <1>3 DEF Made, AllHonest
\* What was honest before an event is appended or a batch is stored is so after it.
<1>k. ASSUME journal' \subseteq journal \cup {next}, cache \subseteq cache'
      PROVE  /\ Honest(journal', cache', meta)
             /\ \A t \in Tabs : /\ Honest(journal', cache', pull[t].from)
                                /\ Collected(journal', pull[t])
                                /\ \A s \in late[t] : Honest(journal', cache', s)
             /\ \A i \in DOMAIN reads : Delivers(journal', cache', reads[i])
  <2>1. Honest(journal', cache', meta)
    BY <1>1, <1>4, <1>k, HonestKept
  <2>2. \A t \in Tabs : Honest(journal', cache', pull[t].from)
    BY <1>1, <1>5, <1>k, HonestKept
  <2>3. \A t \in Tabs : Collected(journal', pull[t])
    BY <1>1, <1>5, <1>k, CollectedKept
  <2>4. \A t \in Tabs : \A s \in late[t] : Honest(journal', cache', s)
    BY <1>1, <1>6, <1>k, HonestKept
  <2>5. \A i \in DOMAIN reads : Delivers(journal', cache', reads[i])
    BY <1>1, <1>7, <1>k, DeliversKept
  <2> QED BY <2>1, <2>2, <2>3, <2>4, <2>5
<1>8. CASE AppendEvent
  <2>1. /\ journal' = journal \cup {next}
        /\ UNCHANGED <<meta, cache, reads, pull, late>>
    BY <1>8 DEF AppendEvent, worker
  <2> QED BY <1>k, <2>1 DEF AllHonest
<1>9. CASE Write
  <2> DEFINE r == Head(reads)
  <2>1. reads # <<>> /\ UNCHANGED <<journal, pull, late>> /\ reads' = Tail(reads)
    BY <1>9 DEF Write, server
  <2>2. r = reads[1] /\ 1 \in DOMAIN reads
    BY <1>1, <2>1
  <2>3. r \in Batch /\ Delivers(journal, cache, r)
    BY <1>7, <2>2
  <2>4. \A i \in DOMAIN reads' : i + 1 \in DOMAIN reads /\ reads'[i] = reads[i + 1]
    BY <1>1, <2>1
  <2>5. \/ cache' = (IF Reset(r) THEN {} ELSE cache) \cup r.events /\ meta' = NewMeta(r)
        \/ UNCHANGED <<cache, meta>>
    BY <1>9 DEF Write
  <2> HIDE DEF r
  <2>6. ~Reset(r) /\ Honest(journal, cache \cup r.events, NewMeta(r))
    BY <1>1, <1>4, <2>3, WrittenIsHonest
  <2>7. cache \subseteq cache' /\ Honest(journal', cache', meta')
    BY <1>4, <2>1, <2>5, <2>6
  <2> QED BY <1>k, <2>1, <2>4, <2>7 DEF AllHonest
<1>10. CASE DbOpens
  <2>1. UNCHANGED <<journal, meta, cache, reads, pull, late>>
    BY <1>10 DEF DbOpens, server
  <2> QED BY <1>3, <2>1 DEF AllHonest
<1>11. CASE Restart
  <2>1. /\ UNCHANGED <<journal, meta, cache>> /\ reads' = <<>>
        /\ \A t \in Tabs : pull'[t] = Idle /\ late'[t] = {}
    BY <1>11 DEF Restart, server
  <2>2. Honest(journal, cache, Idle.from) /\ Collected(journal, Idle)
    BY <1>1, EmptyIsHonest
  <2>3. \A i \in DOMAIN reads' : Delivers(journal, cache, reads'[i])
    BY <2>1
  <2> QED BY <1>4, <2>1, <2>2, <2>3 DEF AllHonest
<1>12. ASSUME NEW t \in Tabs, Pull(t) PROVE AllHonest'
  <2>1. UNCHANGED <<journal, meta, cache, reads, late>>
    BY <1>12 DEF Pull, server, worker
  <2>2. /\ [pull[t] EXCEPT !.phase = "asking"].from = pull[t].from
        /\ [pull[t] EXCEPT !.phase = "asking"].at = pull[t].at
        /\ [pull[t] EXCEPT !.phase = "asking"].events = pull[t].events
    BY <1>5 DEF InFlight
  <2>3. \A u \in Tabs : /\ pull'[u].from = pull[u].from /\ pull'[u].at = pull[u].at
                        /\ pull'[u].events = pull[u].events
    BY <1>1, <1>12, <2>2 DEF Pull
  <2> QED BY <1>3, <2>1, <2>3 DEF AllHonest, Collected
<1>13. ASSUME NEW t \in Tabs, GetState(t) PROVE AllHonest'
  <2> DEFINE answer == IF ready THEN meta ELSE Empty
             Goes(s) == [Idle EXCEPT !.phase = "paging", !.from = s, !.at = s]
  <2>1. answer \in SyncState /\ Honest(journal, cache, answer)
    BY <1>1, <1>4, EmptyIsHonest, IdleInFlight
  <2>2. Empty \in SyncState /\ Honest(journal, cache, Empty)
    BY <1>1, EmptyIsHonest, IdleInFlight
  <2> HIDE DEF answer
  <2>3. PICK s \in SyncState : Honest(journal, cache, s) /\ pull' = [pull EXCEPT ![t] = Goes(s)]
    BY <1>6, <1>13, <2>1, <2>2 DEF GetState, answer
  <2>4. \A u \in Tabs : \A z \in late'[u] : Honest(journal, cache, z)
    <3>1. CASE late' = [late EXCEPT ![t] = {}]
      BY <1>1, <1>6, <3>1
    <3>2. ASSUME NEW z \in late[t] \cup {answer}, late' = [late EXCEPT ![t] = {z}]
          PROVE  \A u \in Tabs : \A y \in late'[u] : Honest(journal, cache, y)
      BY <1>1, <1>6, <2>1, <3>2
    <3>3. \/ late' = [late EXCEPT ![t] = {}]
          \/ \E z \in late[t] \cup {answer} : late' = [late EXCEPT ![t] = {z}]
      BY <1>13 DEF GetState, answer
    <3> QED BY <3>1, <3>2, <3>3
  <2>5. Goes(s).from = s /\ Collected(journal, Goes(s))
    BY <1>1, <2>3, EmptyIsHonest DEF Idle
  <2> HIDE DEF Goes
  <2>6. UNCHANGED <<journal, meta, cache, reads>>
    BY <1>13 DEF GetState, server, worker
  <2>7. \A u \in Tabs : Honest(journal, cache, pull'[u].from) /\ Collected(journal, pull'[u])
    BY <1>1, <1>5, <2>3, <2>5
  <2> QED BY <1>3, <2>4, <2>6, <2>7 DEF AllHonest
<1>14. ASSUME NEW t \in Tabs, Page(t) PROVE AllHonest'
  <2>1. UNCHANGED <<journal, meta, cache, reads, late>>
    BY <1>14 DEF Page, server, worker
  <2>2. pull'[t].from = pull[t].from /\ \A u \in Tabs \ {t} : pull'[u] = pull[u]
    BY <1>3, <1>14, PageTyped
  <2>3. Collected(journal, pull'[t])
    BY <1>2, <1>3, <1>5, <1>14, PageCollects
  <2>4. \A u \in Tabs : Honest(journal, cache, pull'[u].from) /\ Collected(journal, pull'[u])
    BY <1>5, <2>2, <2>3
  <2> QED BY <1>3, <2>1, <2>4 DEF AllHonest
<1>15. ASSUME NEW t \in Tabs, NEW done \in BOOLEAN, Finish(t, done),
              UNCHANGED <<journal, meta, cache, late>>,
              \A i \in DOMAIN reads' : Delivers(journal, cache, reads'[i])
       PROVE  AllHonest'
  <2>1. /\ pull'[t] = IF queued[t] THEN [Idle EXCEPT !.phase = "asking"] ELSE Idle
        /\ \A u \in Tabs \ {t} : pull'[u] = pull[u]
    BY <1>3, <1>15, FinishTyped DEF Typed
  <2>2. pull'[t].from = Idle.from /\ Collected(journal, pull'[t])
    BY <1>1, <2>1, EmptyIsHonest DEF Idle
  <2>3. \A u \in Tabs : Honest(journal, cache, pull'[u].from) /\ Collected(journal, pull'[u])
    BY <1>1, <1>5, <2>1, <2>2, EmptyIsHonest
  <2> QED BY <1>3, <1>15, <2>3 DEF AllHonest
<1>16. ASSUME NEW t \in Tabs, Post(t) PROVE AllHonest'
  <2> DEFINE row == [at |-> pull[t].at, events |-> pull[t].events, state |-> meta]
  <2>1. row \in Batch
    BY <1>1 DEF Batch, InFlight
  <2>2. Delivers(journal, cache, row)
    <3>1. /\ pull[t].at.backend \in {0, 1}
          /\ pull[t].at.cursor \in Nat /\ pull[t].from.cursor \in Nat
          /\ \A e \in journal : e \in Nat
      BY <1>1, <1>5, BoundsAssumption DEF InFlight, SyncState, Collected, Ids
    <3>2. Claimed(journal, pull[t].at.cursor, cache \cup pull[t].events)
      BY <1>5, <3>1 DEF Claimed, Collected, Honest
    <3> QED BY <1>4, <3>1, <3>2 DEF Delivers
  <2> HIDE DEF row
  <2>3. reads' = Append(reads, row) \/ reads' = reads
    BY <1>16 DEF Post, row
  <2>4. \A i \in DOMAIN reads' : Delivers(journal, cache, reads'[i])
    <3>1. CASE reads' = Append(reads, row)
      <4>1. \A i \in DOMAIN reads' : (i \in DOMAIN reads /\ reads'[i] = reads[i]) \/ reads'[i] = row
        BY <1>1, <2>1, <3>1, AppendedEntries
      <4> QED BY <1>7, <2>2, <4>1
    <3> QED BY <1>7, <2>3, <3>1
  <2>5. Finish(t, TRUE) /\ UNCHANGED <<journal, meta, cache, late>>
    BY <1>16 DEF Post, server
  <2> QED BY <1>15, <2>4, <2>5
<1>17. ASSUME NEW t \in Tabs, PageFails(t) PROVE AllHonest'
  <2>1. Finish(t, FALSE) /\ UNCHANGED <<journal, meta, cache, late, reads>>
    BY <1>17 DEF PageFails, server, worker
  <2> QED BY <1>7, <1>15, <2>1
<1>18. CASE UNCHANGED vars
  <2>1. UNCHANGED <<journal, meta, cache, reads, pull, late>>
    BY <1>18 DEF vars, server, worker
  <2> QED BY <1>3, <2>1 DEF AllHonest
<1>19. \A k \in 0 .. MaxId : ~Rebuild(k)
  BY <1>2 DEF Rebuild
<1> QED BY <1>8, <1>9, <1>10, <1>11, <1>12, <1>13, <1>14, <1>16, <1>17, <1>18, <1>19 DEF Next

-----------------------------------------------------------------------------
(* A call of pullEvents is seen through.                                    *)

LEMMA WaitedInit == Init => Waited
<1> SUFFICES ASSUME Init PROVE RequestedPullSeesIt /\ PostingHasPassed
  BY TypedInit DEF Waited
<1>1. journal = {} /\ \A t \in Tabs : pull[t] = Idle
  BY DEF Init
<1> QED BY <1>1 DEF RequestedPullSeesIt, PostingHasPassed, Idle

LEMMA WaitedStep == Waited /\ [Next]_vars => Waited'
<1> SUFFICES ASSUME Waited, [Next]_vars, Typed'
             PROVE  RequestedPullSeesIt' /\ PostingHasPassed'
  BY TypedStep DEF Waited
<1>1. /\ journal \subseteq Ids /\ next \in Nat /\ PageLimit \in Nat \ {0} /\ MaxId \in Nat
      /\ pull \in [Tabs -> InFlight] /\ queued \in [Tabs -> BOOLEAN]
      /\ owed \in [Tabs -> 0 .. MaxId]
  BY BoundsAssumption DEF Waited, Typed, TypeOK, InFlight
<1>2. Typed /\ Made
  BY DEF Waited, Typed
<1>3. /\ \A t \in Tabs : pull[t].phase = "idle" => \A e \in journal : e > owed[t]
      /\ \A t \in Tabs : (pull[t].phase = "posting" /\ ~queued[t])
                            => \A e \in journal : e <= owed[t] => e <= pull[t].at.cursor
  BY DEF Waited, RequestedPullSeesIt, PostingHasPassed, Passed
<1>4. \A e \in journal : e \in Nat /\ e > 0
  BY <1>1 DEF Ids
\* A step that leaves the tabs alone, and may cut or extend the journal.
<1>k. ASSUME journal' \subseteq journal \cup {next}, UNCHANGED <<pull, queued, owed>>
      PROVE  RequestedPullSeesIt' /\ PostingHasPassed'
  <2>1. \A t \in Tabs : owed[t] \in Nat /\ owed[t] < next
    BY <1>1, <1>2 DEF Made
  <2>2. \A t \in Tabs : pull[t].phase = "idle" => \A e \in journal' : e > owed[t]
    BY <1>1, <1>3, <1>k, <2>1
  <2>3. \A t \in Tabs : (pull[t].phase = "posting" /\ ~queued[t])
                            => \A e \in journal' : e <= owed[t] => e <= pull[t].at.cursor
    BY <1>1, <1>3, <1>k, <2>1
  <2> QED BY <1>k, <2>2, <2>3 DEF RequestedPullSeesIt, PostingHasPassed, Passed
\* A step of one tab.
<1>o. ASSUME NEW t \in Tabs, journal' = journal,
             \A u \in Tabs \ {t} : /\ pull'[u] = pull[u] /\ queued'[u] = queued[u]
                                   /\ owed'[u] = owed[u],
             pull'[t].phase = "idle" => \A e \in journal : e > owed'[t],
             (pull'[t].phase = "posting" /\ ~queued'[t])
                => \A e \in journal : e <= owed'[t] => e <= pull'[t].at.cursor
      PROVE  RequestedPullSeesIt' /\ PostingHasPassed'
  <2>1. RequestedPullSeesIt'
    BY <1>3, <1>o DEF RequestedPullSeesIt
  <2>2. PostingHasPassed'
    BY <1>3, <1>o DEF PostingHasPassed, Passed
  <2> QED BY <2>1, <2>2
<1>5. CASE AppendEvent
  BY <1>5, <1>k DEF AppendEvent, history
<1>6. CASE Write
  BY <1>6, <1>k DEF Write, server
<1>7. CASE DbOpens
  BY <1>7, <1>k DEF DbOpens, server, history
<1>8. CASE Restart
  <2>1. journal' = journal /\ \A t \in Tabs : pull'[t] = Idle /\ owed'[t] = 0
    BY <1>8 DEF Restart, server
  <2> QED BY <1>4, <2>1 DEF RequestedPullSeesIt, PostingHasPassed, Idle
<1>9. ASSUME NEW k \in 0 .. MaxId, Rebuild(k)
      PROVE  RequestedPullSeesIt' /\ PostingHasPassed'
  BY <1>9, <1>k DEF Rebuild, history
<1>10. ASSUME NEW t \in Tabs, Pull(t) PROVE RequestedPullSeesIt' /\ PostingHasPassed'
  <2>1. journal' = journal
    BY <1>10 DEF Pull, server
  <2>2. CASE pull[t].phase = "idle"
    <3>1. /\ pull' = [pull EXCEPT ![t].phase = "asking"] /\ queued' = queued
          /\ owed' = [owed EXCEPT ![t] = next - 1]
      BY <1>10, <2>2 DEF Pull
    <3>2. pull'[t].phase = "asking"
      BY <1>1, <3>1 DEF InFlight
    <3> QED BY <1>1, <1>o, <2>1, <3>1, <3>2
  <2>3. CASE pull[t].phase # "idle"
    <3>1. /\ queued' = [queued EXCEPT ![t] = TRUE] /\ pull' = pull
          /\ owed' = [owed EXCEPT ![t] = next - 1]
      BY <1>10, <2>3 DEF Pull
    <3> QED BY <1>1, <1>o, <2>1, <2>3, <3>1
  <2> QED BY <2>2, <2>3
<1>11. ASSUME NEW t \in Tabs, GetState(t) PROVE RequestedPullSeesIt' /\ PostingHasPassed'
  <2>1. /\ journal' = journal /\ owed' = owed /\ queued' = queued
    BY <1>11 DEF GetState, server, history
  <2>2. \E s : pull' = [pull EXCEPT ![t] = [Idle EXCEPT !.phase = "paging", !.from = s, !.at = s]]
    BY <1>11 DEF GetState
  <2>3. pull'[t].phase = "paging" /\ \A u \in Tabs \ {t} : pull'[u] = pull[u]
    BY <1>1, <2>2 DEF Idle
  <2> QED BY <1>o, <2>1, <2>3
<1>12. ASSUME NEW t \in Tabs, Page(t) PROVE RequestedPullSeesIt' /\ PostingHasPassed'
  <2> DEFINE at == pull[t].at.cursor
  <2>1. journal' = journal /\ queued' = queued
    BY <1>12 DEF Page, server
  <2>2. /\ \A u \in Tabs \ {t} : pull'[u] = pull[u] /\ owed'[u] = owed[u]
        /\ \/ pull'[t].phase = "paging"
           \/ /\ pull'[t].phase = "posting"
              /\ \/ Window(at, PageLimit) = Window(at, PageLimit + 1)
                 \/ owed'[t] = 0
    BY <1>2, <1>12, PageTyped
  <2>a. pull'[t].at.cursor = Last(Window(at, PageLimit), at)
    <3>1. pull'[t].at = [cursor |-> Last(Window(at, PageLimit), at), backend |-> serving]
      BY <1>2, <1>12, PageTyped
    <3> QED BY <3>1
  <2>3. at \in 0 .. MaxId
    BY <1>1 DEF InFlight, SyncState
  <2>4. Window(at, PageLimit) = Window(at, PageLimit + 1)
          => \A e \in journal : e <= pull'[t].at.cursor
    BY <1>1, <2>a, <2>3, FullWindowEndsTheJournal
  <2>5. owed'[t] = 0 => \A e \in journal : ~(e <= owed'[t])
    BY <1>4
  <2>6. pull'[t].phase = "posting" => \A e \in journal : e <= owed'[t] => e <= pull'[t].at.cursor
    BY <2>2, <2>4, <2>5
  <2>7. pull'[t].phase # "idle"
    BY <2>2
  <2> QED BY <1>o, <2>1, <2>2, <2>6, <2>7
<1>13. ASSUME NEW t \in Tabs, NEW done \in BOOLEAN, Finish(t, done), journal' = journal,
              ~done \/ pull[t].phase = "posting"
       PROVE  RequestedPullSeesIt' /\ PostingHasPassed'
  <2>1. /\ pull'[t] = IF queued[t] THEN [Idle EXCEPT !.phase = "asking"] ELSE Idle
        /\ \A u \in Tabs \ {t} : /\ pull'[u] = pull[u] /\ queued'[u] = queued[u]
                                 /\ owed'[u] = owed[u]
        /\ owed'[t] = IF ~done \/ Passed(t) THEN 0 ELSE owed[t]
    BY <1>2, <1>13, FinishTyped DEF Typed
  <2>2. CASE queued[t]
    <3>1. pull'[t].phase = "asking"
      BY <2>1, <2>2 DEF Idle
    <3> QED BY <1>o, <1>13, <2>1, <3>1
  <2>3. CASE ~queued[t]
    <3>1. pull'[t].phase = "idle"
      BY <2>1, <2>3 DEF Idle
    <3>2. owed'[t] = 0
      BY <1>13, <2>1, <2>3 DEF Waited, PostingHasPassed
    <3>3. \A e \in journal : e > owed'[t]
      BY <1>4, <3>2
    <3> QED BY <1>o, <1>13, <2>1, <3>1, <3>3
  <2> QED BY <2>2, <2>3
<1>14. ASSUME NEW t \in Tabs, Post(t) PROVE RequestedPullSeesIt' /\ PostingHasPassed'
  <2>1. Finish(t, TRUE) /\ journal' = journal /\ pull[t].phase = "posting"
    BY <1>14 DEF Post, server
  <2> QED BY <1>13, <2>1
<1>15. ASSUME NEW t \in Tabs, PageFails(t) PROVE RequestedPullSeesIt' /\ PostingHasPassed'
  <2>1. Finish(t, FALSE) /\ journal' = journal
    BY <1>15 DEF PageFails, server
  <2> QED BY <1>13, <2>1
<1>16. CASE UNCHANGED vars
  BY <1>16, <1>k DEF vars, server, history
<1> QED BY <1>5, <1>6, <1>7, <1>8, <1>9, <1>10, <1>11, <1>12, <1>14, <1>15, <1>16 DEF Next

-----------------------------------------------------------------------------
\* Every variable keeps its shape: in particular a hidden event reaches neither
\* a batch nor the cache, whoever posts it (sync_pull.go, the filter of readPage).
THEOREM TypesKept == Spec => []TypeOK
<1>1. Typed => TypeOK
  BY DEF Typed
<1> QED BY <1>1, TypedInit, TypedStep, PTL DEF Spec

\* As long as the backend has not been rebuilt, every visible event up to the
\* cursor in IndexedDB is in the cache, whatever pulls of whatever tabs race,
\* fail, time out or are cut by a restart, and whatever transactions abort
\* (cacheEvents writes the events and the cursor they lead to together).
THEOREM CursorIsCovered == Spec => []CacheCoversCursor
<1>1. Sound => CacheCoversCursor
  BY DEF Sound, AllHonest, Honest, Claimed, CacheCoversCursor, Covered
<1> QED BY <1>1, SoundInit, SoundStep, PTL DEF Spec

\* A tab that is idle has passed every event made before its last call of
\* pullEvents, unless a pull has failed or met the page cap since: a call made
\* during a pull starts another one (pullQueued), and a page that leaves nothing
\* over has reached the end of the journal (sync_pull.go, hasMore).
THEOREM CallIsSeenThrough == Spec => []RequestedPullSeesIt
<1>1. Waited => RequestedPullSeesIt
  BY DEF Waited
<1> QED BY <1>1, WaitedInit, WaitedStep, PTL DEF Spec

=============================================================================
