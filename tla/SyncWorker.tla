---------------------------- MODULE SyncWorker ----------------------------
(***************************************************************************)
(* The offline command queue of sync/sync-worker.js: one SharedWorker per  *)
(* origin that stores the commands its tabs could not send and asks the    *)
(* tabs to send them again.  The worker is single threaded; its actions    *)
(* are the turns of its event loop, and an IndexedDB request splits a      *)
(* function into the turn that issues it and the turn that continues.      *)
(* IndexedDB runs overlapping transactions in the order they were created, *)
(* so idb is what the next transaction will find: a write changes it, and  *)
(* a read takes its snapshot of it, in the turn that issues the request.   *)
(* disk is what has been committed: it lags behind idb, and it is all that *)
(* a worker leaves behind.                                                 *)
(*                                                                         *)
(* Messages from a tab are applied when the tab sends them: a delay on the *)
(* way is the tab sending later.  Messages to a tab stay in outbox.        *)
(***************************************************************************)
EXTENDS Integers, Sequences, FiniteSets

CONSTANTS
  Tabs,            \* tab identities (crypto.randomUUID per page load)
  NoTab,           \* no originating tab
  Cmds,            \* command identities
  Valid,           \* commands whose envelope has a verb and a url
  Batched,         \* commands stamped with a commandType
  MaxRetries,      \* MAX_RETRIES
  HasIDB,          \* IndexedDB can be opened in this browser context
  DeadPortThrows,  \* postMessage to the port of a crashed tab throws
  Faults,          \* what may happen besides the ordinary, see below
  MaxChains        \* bound: environment triggers stop at this many flush chains

\* "early"   tabs talk to a worker whose database is still opening
\* "txFail"  an IndexedDB transaction aborts (quota)
\* "expiry"  a command reaches RETRY_TTL_MS
\* "crash"   a tab dies without "bye"
\* "requeue" a command is enqueued again after it was acknowledged or dead
\*           (a sendError that arrives after the acknowledgement)
ASSUME CmdsAssumption == /\ IsFiniteSet(Cmds)
                         /\ Valid \subseteq Cmds
                         /\ Batched \subseteq Cmds
ASSUME TabsAssumption == IsFiniteSet(Tabs) /\ NoTab \notin Tabs
ASSUME MaxRetriesAssumption == MaxRetries \in Nat \ {0}
ASSUME FlagsAssumption == HasIDB \in BOOLEAN /\ DeadPortThrows \in BOOLEAN

VARIABLES
  db,            \* the worker and its handle `db`: see Phases
  idb,           \* object store "commands" with the writes already issued
  disk,          \* the same with the writes already committed
  mem,           \* memQueue
  live,          \* tabs that are really open
  ports,         \* Map tabId -> port, as tab -> position in insertion order
  rrIndex, online, flushing, flushPending,
  loads,         \* results of getAll() whose continuation has not run yet
  counting,      \* doFlush waits for the counts of its retries
  timers,        \* pending two-second follow-up flushes, from their count() on
  outbox,        \* retry messages a timer or a port still holds
  fate, sends, tried, starved,  \* history, see HistoryTypeOK
  astray, uncounted, renewed

queue   == <<idb, mem>>
flags   == <<flushing, flushPending, loads, counting, timers>>
lapses  == <<astray, uncounted>>
history == <<fate, sends, tried, starved, lapses, renewed>>
vars    == <<db, queue, disk, live, ports, rrIndex, online, flags, outbox, history>>

Phases == {"down", "opening", "open", "null"}
Record == [retries : Nat, expired : BOOLEAN, pos : Int]
IsStore(st) == DOMAIN st \subseteq Cmds /\ st \in [DOMAIN st -> Record]
Fates  == {"none", "queued", "acked", "dead"}
EmptyStore == [c \in {} |-> [retries |-> 0, expired |-> FALSE, pos |-> 0]]
EmptyPorts == [t \in {} |-> 0]

(***************************************************************************)
(* The stores.  pos is a record's place in the order of queuedAt.          *)
(***************************************************************************)
Store == IF db = "open" THEN idb ELSE mem

\* The store a command belongs in, and whether a write of now goes there: a
\* null handle sends it to memQueue, even while the database is opening.
Durable == IF HasIDB THEN idb ELSE mem
Reaches == db = "open" \/ ~HasIDB

SetStore(st) == IF db = "open" THEN idb' = st /\ UNCHANGED mem
                               ELSE mem' = st /\ UNCHANGED idb

\* A transaction per command: with "txFail" any of them may abort, and the
\* helpers resolve all the same.
Committed(S) == IF "txFail" \in Faults /\ db = "open" THEN SUBSET S ELSE {S}

\* Mutant: put in place of add, so a second enqueue starts the count again.
AddPuts(st, c) ==
  [x \in DOMAIN st \cup {c} |->
     IF x # c THEN st[x]
     ELSE [retries |-> 0, expired |-> FALSE, pos |-> Cardinality(DOMAIN st)]]

\* store.add keeps an existing record, so its retry count survives.
Add(st, c) ==
  [x \in DOMAIN st \cup {c} |->
     IF x \in DOMAIN st THEN st[x]
     ELSE [retries |-> 0, expired |-> FALSE, pos |-> Cardinality(DOMAIN st)]]

Without(st, D) ==
  [x \in DOMAIN st \ D |->
     [st[x] EXCEPT !.pos =
        @ - Cardinality({d \in DOMAIN st \cap D : st[d].pos < @})]]

\* Mutants: put without get, of the snapshot's record or of the count alone.
IncrementPuts(st, S) ==
  [x \in DOMAIN st \cup S |->
     IF x \notin DOMAIN st THEN [retries |-> 1, expired |-> FALSE, pos |-> 0]
     ELSE IF x \in S /\ st[x].retries < MaxRetries
       THEN [st[x] EXCEPT !.retries = @ + 1] ELSE st[x]]
IncrementPutsCount(st, S) ==
  [x \in DOMAIN st \cup S |->
     IF x \in S THEN [retries |-> 1] ELSE st[x]]

\* Mutant: the last retry takes the record with it.
IncrementEvicts(st, S) ==
  [x \in DOMAIN st \ {c \in S \cap DOMAIN st : st[c].retries = MaxRetries - 1} |->
     IF x \in S THEN [st[x] EXCEPT !.retries = @ + 1] ELSE st[x]]

\* get then put in one transaction: a record that is gone stays gone.  A
\* count stops at MaxRetries, which is all it is compared with.
Increment(st, S) ==
  [x \in DOMAIN st |->
     IF x \in S /\ st[x].retries < MaxRetries
       THEN [st[x] EXCEPT !.retries = @ + 1] ELSE st[x]]

Unregister(D) ==
  [t \in DOMAIN ports \ D |->
     ports[t] - Cardinality({d \in DOMAIN ports \cap D : ports[d] < ports[t]})]

\* broadcast drops the ports whose postMessage throws.
Reachable == IF DeadPortThrows THEN Unregister(Tabs \ live) ELSE ports

(***************************************************************************)
(* The commits.  A transaction touches one record, and what follows speaks *)
(* of one command at a time, so all that is outstanding may be committed   *)
(* together: for each command, what is on disk is idb as it was after some *)
(* turn.  getAll waits for the writes created before it and holds up those *)
(* created after it; a Kill before its result is a Kill before its call.   *)
(***************************************************************************)
Commit ==
  /\ db # "down" /\ loads = <<>>
  /\ disk # idb \/ counting
  /\ disk' = idb
  /\ counting' = FALSE
  /\ UNCHANGED <<db, queue, live, ports, rrIndex, online, flushing,
                 flushPending, loads, timers, outbox, history>>

\* loadAllCommands, where st is what it reads.
Load(st) ==
  /\ loads' = Append(loads, st)
  /\ disk' = idb
  /\ renewed' = {}

\* Mutant: no flushing flag.
FlushUnguarded(st) ==
  /\ flushing' = TRUE
  /\ Load(st)
  /\ UNCHANGED flushPending

(***************************************************************************)
(* flush(): one cycle at a time, a call during a cycle is remembered.      *)
(***************************************************************************)
Flush(st) ==
  /\ IF flushing
       THEN flushPending' = TRUE /\ UNCHANGED <<flushing, loads, disk, renewed>>
       ELSE /\ flushing' = TRUE
            /\ Load(st)
            /\ UNCHANGED flushPending

\* Mutant: the budget is one flush short.
GivenUpEarly(s) == {c \in DOMAIN s : s[c].expired \/ s[c].retries >= MaxRetries - 1}

\* A dead record is one past its age or its retry budget.
GivenUp(s) == {c \in DOMAIN s : s[c].expired \/ s[c].retries >= MaxRetries}

\* The batch takes one port first, then each single command one, oldest first.
Older(s, singles, c) == Cardinality({d \in singles : s[d].pos < s[c].pos})

\* Who is sent what: pickPort counts rrIndex up modulo the ports in table.
Assignments(s, alive, table) ==
  LET singles == alive \ Batched
      first   == IF alive \cap Batched = {} THEN 0 ELSE 1
      picks   == Cardinality(singles) + first
      n       == Cardinality(DOMAIN table)
      slot(c) == IF c \in Batched THEN 0 ELSE first + Older(s, singles, c)
  IN  IF alive = {} \/ n = 0
        THEN {[to |-> [c \in {} |-> NoTab], rr |-> rrIndex]}
        ELSE {[to |-> a, rr |-> ((rrIndex + picks - 1) % n) + 1] :
                a \in {b \in [alive -> DOMAIN table] :
                         \A c \in alive :
                            table[b[c]] = (rrIndex + slot(c)) % n}}

\* One retry-batch for the stamped commands, one retry for each other one.
Messages(to) ==
  LET batch == DOMAIN to \cap Batched
  IN  {[cmds |-> {c}, tab |-> to[c], single |-> TRUE] : c \in DOMAIN to \ Batched}
      \cup {[cmds |-> batch, tab |-> to[c], single |-> FALSE] : c \in batch}

\* Evict the dead, send the picked ones, and count every one sent.  sends is
\* history: it stops one past the budget.
SendRound(dead, table, pick) ==
  LET sent      == DOMAIN pick.to
      wasted(c) == /\ pick.to[c] \notin live
                   /\ \E t \in DOMAIN table : t \in live
  IN  /\ \E gone \in Committed(dead), counted \in Committed(sent) :
           /\ SetStore(Increment(Without(Store, gone), counted))
           /\ astray' = IF Reaches THEN (astray \cup dead) \ gone
                                   ELSE astray \cup dead
           /\ uncounted' = uncounted \cup IF Reaches THEN sent \ counted ELSE sent
      /\ counting' = (sent # {} /\ db = "open")
      /\ rrIndex' = pick.rr
      /\ outbox' = outbox \cup Messages(pick.to)
      /\ fate' = [c \in Cmds |-> IF c \in dead THEN "dead" ELSE fate[c]]
      /\ sends' = [c \in Cmds |-> IF c \in sent /\ sends[c] <= MaxRetries
                                  THEN sends[c] + 1 ELSE sends[c]]
      /\ tried' = tried \cup sent
      /\ starved' = {c \in (starved \ dead) \cup {d \in sent : sends[d] = 0} :
                       c \in sent => wasted(c)}

\* The continuation of loadAllCommands in doFlush.
DoFlush ==
  /\ flushing /\ loads # <<>>
  /\ LET s     == Head(loads)
         dead  == GivenUp(s)
         table == IF dead = {} THEN ports ELSE Reachable
     IN  \E pick \in Assignments(s, DOMAIN s \ dead, table) :
           SendRound(dead, table, pick)
  /\ loads' = Tail(loads)
  /\ renewed' = {}
  /\ ports' = Reachable
  /\ UNCHANGED <<db, disk, live, online, flushing, flushPending, timers>>

\* Mutant: no follow-up flush when commands remain.
FlushEndOnce ==
  /\ flushing /\ loads = <<>> /\ ~counting
  /\ IF flushPending
       THEN /\ Load(Store)
            /\ flushPending' = FALSE
            /\ UNCHANGED flushing
       ELSE flushing' = FALSE /\ UNCHANGED <<flushPending, loads, disk, renewed>>
  /\ UNCHANGED <<db, queue, live, ports, rrIndex, online, counting, timers,
                 outbox, fate, sends, tried, starved, lapses>>

\* The continuation of doFlush in flush: run the remembered call, or look
\* again in two seconds while anything remains.
FlushEnd ==
  /\ flushing /\ loads = <<>> /\ ~counting
  /\ IF flushPending
       THEN /\ Load(Store)
            /\ flushPending' = FALSE
            /\ UNCHANGED <<flushing, timers>>
       ELSE /\ flushing' = FALSE
            /\ timers' = IF DOMAIN Store # {} THEN timers + 1 ELSE timers
            /\ UNCHANGED <<flushPending, loads, disk, renewed>>
  /\ UNCHANGED <<db, queue, live, ports, rrIndex, online, counting, outbox,
                 fate, sends, tried, starved, lapses>>

FollowUp ==
  /\ db # "down" /\ timers > 0
  /\ Flush(Store)
  /\ timers' = timers - 1
  /\ UNCHANGED <<db, queue, live, ports, rrIndex, online, counting, outbox,
                 fate, sends, tried, starved, lapses>>

\* The timer of sendRetry, and the port it holds.  The port of a crashed tab
\* drops the message, or throws: then it is forgotten and another one is tried.
PostRetry(m) ==
  /\ m \in outbox
  /\ outbox' = outbox \ {m}
  /\ IF m.single /\ DeadPortThrows /\ m.tab \notin live
       THEN LET n == Cardinality(DOMAIN ports \ {m.tab})
            IN  /\ ports' = Unregister({m.tab})
                /\ rrIndex' = IF n = 0 THEN rrIndex ELSE (rrIndex % n) + 1
       ELSE UNCHANGED <<ports, rrIndex>>
  /\ UNCHANGED <<db, queue, disk, live, online, flags, history>>

(***************************************************************************)
(* Life of the worker: spawned by the first tab, killed with the last.     *)
(***************************************************************************)
Open(t) ==
  /\ t \notin live /\ t \notin DOMAIN ports
  /\ \A m \in outbox : m.tab # t
  /\ live' = live \cup {t}
  /\ IF db = "down" THEN db' = "opening" /\ online' \in BOOLEAN
                    ELSE UNCHANGED <<db, online>>
  /\ UNCHANGED <<queue, disk, ports, rrIndex, flags, outbox, history>>

\* openDB().then: the handle is set, and the queue is flushed if online, or
\* its length is broadcast.
Boot ==
  /\ db = "opening"
  /\ db' = IF HasIDB THEN "open" ELSE "null"
  /\ IF online THEN Flush(Durable) /\ UNCHANGED ports
               ELSE /\ ports' = Reachable
                    /\ UNCHANGED <<flushing, flushPending, loads, disk, renewed>>
  /\ UNCHANGED <<queue, live, rrIndex, online, counting, timers, outbox,
                 fate, sends, tried, starved, lapses>>

\* All tabs are gone: everything goes with the worker but what IndexedDB has
\* committed; the transactions still running are aborted.
Kill ==
  /\ db # "down" /\ live = {}
  /\ db' = "down"
  /\ idb' = disk /\ mem' = EmptyStore
  /\ astray' = astray \cup {c \in Cmds : (c \in DOMAIN idb) # (c \in DOMAIN disk)}
  /\ uncounted' = uncounted \cup
                    {c \in DOMAIN disk : \/ c \notin DOMAIN idb
                                         \/ disk[c].retries # idb[c].retries}
  /\ ports' = EmptyPorts
  /\ rrIndex' = 0
  /\ flushing' = FALSE /\ flushPending' = FALSE
  /\ loads' = <<>> /\ counting' = FALSE /\ timers' = 0
  /\ outbox' = {}
  /\ tried' = {} /\ starved' = {} /\ renewed' = {}
  /\ fate' = IF HasIDB THEN fate ELSE [c \in Cmds |-> "none"]
  /\ UNCHANGED <<disk, live, online, sends>>

\* A tab dies without "bye": its port stays registered.
Crash(t) ==
  /\ "crash" \in Faults
  /\ t \in live
  /\ live' = live \ {t}
  /\ UNCHANGED <<db, queue, disk, ports, rrIndex, online, flags, outbox,
                 history>>

\* RETRY_TTL_MS passes for a stored command, the worker running or not: a
\* record carries queuedAt, and the age is taken when it is looked at.
Aged(st, c) ==
  [x \in DOMAIN st |-> IF x = c THEN [st[x] EXCEPT !.expired = TRUE] ELSE st[x]]

Expire(c) ==
  /\ "expiry" \in Faults
  /\ \/ c \in DOMAIN idb /\ ~idb[c].expired
     \/ c \in DOMAIN mem /\ ~mem[c].expired
  /\ idb' = Aged(idb, c) /\ disk' = Aged(disk, c) /\ mem' = Aged(mem, c)
  /\ loads' = [i \in DOMAIN loads |-> Aged(loads[i], c)]
  /\ UNCHANGED <<db, live, ports, rrIndex, online, flushing, flushPending,
                 counting, timers, outbox, history>>

(***************************************************************************)
(* Messages from tabs and connectivity events.                             *)
(***************************************************************************)
Chains  == timers + IF flushing THEN 1 ELSE 0
Trigger == db # "down" /\ Chains < MaxChains

Hello(t) ==
  /\ Trigger
  /\ t \in live /\ t \notin DOMAIN ports
  /\ ports' = [x \in DOMAIN ports \cup {t} |->
                 IF x = t THEN Cardinality(DOMAIN ports) ELSE ports[x]]
  /\ Flush(Store)
  /\ UNCHANGED <<db, queue, live, rrIndex, online, counting, timers, outbox,
                 fate, sends, tried, starved, lapses>>

Bye(t) ==
  /\ t \in live /\ t \in DOMAIN ports
  /\ live' = live \ {t}
  /\ ports' = Unregister({t})
  /\ UNCHANGED <<db, queue, disk, rrIndex, online, flags, outbox, history>>

Talks(t) == t \in live \cap DOMAIN ports
Ready    == db \in {"open", "null"} \/ "early" \in Faults

\* persistCommand, then broadcastPendingCount.
Enqueue(t, c) ==
  /\ Talks(t) /\ db # "down" /\ Ready
  /\ fate[c] \in {"none", "queued"} \/ "requeue" \in Faults
  /\ IF c \in Valid
       THEN \E stored \in Committed({c}) :
            /\ SetStore(IF stored = {} THEN Store ELSE Add(Store, c))
            /\ fate' = [fate EXCEPT ![c] = "queued"]
            /\ IF c \in DOMAIN Store
                 THEN UNCHANGED <<sends, tried, starved, lapses, renewed>>
                 ELSE /\ sends' = [sends EXCEPT ![c] = 0]
                      /\ tried' = tried \ {c}
                      /\ starved' = starved \ {c}
                      /\ uncounted' = uncounted \ {c}
                      /\ astray' = IF Reaches /\ stored = {c}
                                     THEN astray \ {c} ELSE astray \cup {c}
                      /\ renewed' = IF loads = <<>> THEN renewed
                                                   ELSE renewed \cup {c}
            /\ ports' = Reachable
       ELSE /\ fate' = [fate EXCEPT ![c] = "dead"]
            /\ UNCHANGED <<queue, ports, sends, tried, starved,
                           lapses, renewed>>
  /\ UNCHANGED <<db, disk, live, rrIndex, online, flags, outbox>>

\* deleteCommand, then broadcastPendingCount.
Ack(t, c) ==
  /\ Talks(t) /\ db # "down" /\ Ready
  /\ fate[c] = "queued"
  /\ \E gone \in Committed({c}) :
       /\ SetStore(Without(Store, gone))
       /\ astray' = IF Reaches /\ gone = {c} THEN astray \ {c} ELSE astray \cup {c}
  /\ fate' = [fate EXCEPT ![c] = "acked"]
  /\ starved' = starved \ {c}
  /\ ports' = Reachable
  /\ UNCHANGED <<db, disk, live, rrIndex, online, flags, outbox, sends,
                 tried, uncounted, renewed>>

\* The worker's own online event, which is broadcast, or a tab's "flush".
GoOnline ==
  /\ Trigger
  /\ online' = TRUE
  /\ ports' \in {ports, Reachable}
  /\ Flush(Store)
  /\ UNCHANGED <<db, queue, live, rrIndex, counting, timers, outbox,
                 fate, sends, tried, starved, lapses>>

GoOffline ==
  /\ db # "down" /\ online
  /\ online' = FALSE
  /\ ports' = Reachable
  /\ UNCHANGED <<db, queue, disk, live, rrIndex, flags, outbox, history>>

Init ==
  /\ db = "down"
  /\ idb = EmptyStore /\ disk = EmptyStore /\ mem = EmptyStore
  /\ live = {} /\ ports = EmptyPorts
  /\ rrIndex = 0
  /\ online = FALSE
  /\ flushing = FALSE /\ flushPending = FALSE
  /\ loads = <<>> /\ counting = FALSE /\ timers = 0
  /\ outbox = {}
  /\ fate = [c \in Cmds |-> "none"]
  /\ sends = [c \in Cmds |-> 0]
  /\ tried = {} /\ starved = {}
  /\ astray = {} /\ uncounted = {} /\ renewed = {}

Next ==
  \/ Commit \/ DoFlush \/ FlushEnd \/ FollowUp \/ Boot \/ Kill \/ GoOnline \/ GoOffline
  \/ \E m \in outbox : PostRetry(m)
  \/ \E t \in Tabs : Open(t) \/ Crash(t) \/ Hello(t) \/ Bye(t)
  \/ \E t \in Tabs, c \in Cmds : Enqueue(t, c) \/ Ack(t, c)
  \/ \E c \in Cmds : Expire(c)

\* Promises and timers of a running worker are eventually run, and IndexedDB
\* eventually commits.
Fairness ==
  /\ WF_vars(Commit)
  /\ WF_vars(DoFlush) /\ WF_vars(FlushEnd) /\ WF_vars(FollowUp) /\ WF_vars(Boot)
  /\ WF_vars(\E m \in outbox : PostRetry(m))

Spec == Init /\ [][Next]_vars /\ Fairness

-----------------------------------------------------------------------------
HistoryTypeOK ==
  /\ fate \in [Cmds -> Fates]          \* what became of the command
  /\ sends \in [Cmds -> Nat]           \* retries issued since it was stored
  /\ tried \subseteq Cmds              \* those this worker has retried
  /\ starved \subseteq Cmds            \* retried by this worker, but only through
                                       \* crashed tabs while a live tab waited
  /\ astray \subseteq Cmds             \* their last add or delete went to the
                                       \* memory of an opening worker, was
                                       \* aborted, or died with the worker
  /\ uncounted \subseteq Cmds          \* the same of a count of this stay
  /\ renewed \subseteq Cmds            \* stored anew while a getAll is pending

\* The shape of every variable of the worker and of IndexedDB.
TypeOK ==
  /\ db \in Phases
  /\ IsStore(idb) /\ IsStore(disk) /\ IsStore(mem)
  /\ live \subseteq Tabs
  /\ DOMAIN ports \subseteq Tabs /\ ports \in [DOMAIN ports -> Int]
  /\ rrIndex \in Nat
  /\ online \in BOOLEAN /\ flushing \in BOOLEAN /\ flushPending \in BOOLEAN
  /\ \A i \in DOMAIN loads : IsStore(loads[i])
  /\ counting \in BOOLEAN /\ timers \in Nat
  /\ \A m \in outbox : m.cmds \subseteq Cmds /\ m.tab \in Tabs /\ m.single \in BOOLEAN
  /\ HistoryTypeOK

\* Queued, not lost: once the database is open every command the worker took
\* and has not reported as acknowledged or dead is in the store it reads
\* (persistCommand, deleteCommand, doFlush; header comment, lines 36-40).
\* There are three ways to lose one and no other: an add before openDB has
\* resolved, an add that aborts, an add not yet committed when the worker dies.
NoSilentLoss ==
  db \in {"open", "null"} =>
    \A c \in Cmds \ astray : fate[c] = "queued" => c \in DOMAIN Store

\* An acknowledged or dead command does not come back: not through an
\* increment that races the deletion, nor from the other store, unless its
\* deletion went astray in one of these ways.
NoResurrection ==
  db \in {"open", "null"} =>
    \A c \in DOMAIN Store \ astray : fate[c] = "queued"

\* No command is sent more than MAX_RETRIES times per stay in the queue,
\* however flushes, acks, re-enqueues and restarts interleave, unless one of
\* its counts was lost (incrementRetryCount).
RetryBudget == \A c \in Cmds \ uncounted : sends[c] <= MaxRetries

\* As long as a command this worker has retried is still stored, a flush is
\* running or scheduled (the follow-up of flush, lines 507-523).
FollowUpScheduled ==
  (tried \cap DOMAIN Store) \ astray # {} => flushing \/ timers > 0

\* At most one load is in progress, and only inside a flush.
OneLoad == Len(loads) <= 1 /\ (loads # <<>> => flushing)

\* A stored command that a flush cycle looks after is eventually acknowledged
\* or given up, unless the tabs leave.
EventuallySettled ==
  \A c \in Cmds :
    (db = "open" /\ c \in DOMAIN idb /\ (flushing \/ timers > 0))
      ~> (db # "open" \/ DOMAIN ports = {} \/ c \notin DOMAIN idb)

\* A command is marked dead on its own record: it is past its age, or was sent
\* MAX_RETRIES times (lines 42-44 and doFlush).  The exceptions are those of
\* which the snapshot no longer tells: stored anew since it was taken.
DeadHasSpentItsBudget ==
  [][\A c \in Cmds \ (renewed \cup astray) :
       fate[c] = "queued" /\ fate'[c] = "dead" =>
         /\ c \in DOMAIN Store
         /\ Store[c].expired \/ Store[c].retries >= MaxRetries]_vars

\* The worker implements the abstract queue: its queue is the durable store,
\* and what it has saved is what IndexedDB has committed.
Tries(st) == [c \in Cmds |-> IF c \in DOMAIN st THEN st[c].retries ELSE 0]
Abstract ==
  INSTANCE CommandQueue WITH
    queued    <- DOMAIN Durable,
    tries     <- Tries(Durable),
    saved     <- [queued |-> DOMAIN disk, tries |-> Tries(disk)],
    MayExpire <- IF "expiry" \in Faults THEN Cmds ELSE {},
    Durable   <- HasIDB
ImplementsQueue == Abstract!Spec

-----------------------------------------------------------------------------
(* What comments promise, checked by runs that expect a violation.          *)

\* "Round-robin ensures the retry eventually reaches an alive port on
\* subsequent flush cycles" (lines 138-139): a command does not spend its whole
\* budget on the port of a crashed tab while a live tab is registered.
RoundRobinReachesALiveTab == \A c \in starved : sends[c] < MaxRetries

\* "IndexedDB is the single source of truth" (lines 38-39): where it can be
\* opened, an opened worker finds every queued command in it.
SingleSourceOfTruth ==
  db = "open" => \A c \in Cmds : fate[c] = "queued" => c \in DOMAIN idb

\* "commands exceeding MAX_RETRIES ... are marked dead ..., preventing poison
\* commands from retrying forever" (lines 42-44), over restarts too.
NeverSentTooOften == \A c \in Cmds : sends[c] <= MaxRetries
=============================================================================
