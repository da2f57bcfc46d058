----------------------------- MODULE EventCache -----------------------------
(***************************************************************************)
(* The read half of the sync protocol: SyncPullHandler (sync_pull.go)      *)
(* serves pages of the journal after a cursor, pullEvents of each tab      *)
(* (sync/sync-client.js) pages until it has caught up and posts the batch, *)
(* and cacheEvents of the shared worker (sync/sync-worker.js) stores the   *)
(* batch and the cursor in IndexedDB.                                      *)
(*                                                                         *)
(* Event ids are ULIDs, here the numbers 1, 2, ... in the order they were  *)
(* made; the cursor 0 and the backend 0 are the empty string.  As in       *)
(* SyncWorker a message to the worker is applied when it is sent, a read   *)
(* takes its snapshot when it is issued and a write commits when issued.   *)
(***************************************************************************)
EXTENDS Naturals, Sequences, FiniteSets

CONSTANTS
  Tabs,
  Hidden,     \* events WithSyncPullFilter hides from this browser's user
  PageLimit,  \* PULL_PAGE_LIMIT
  MaxPages,   \* PULL_MAX_PAGES
  MaxId,      \* bound: the journal stops growing here
  Rebuilds,   \* bound: how often the backend is rebuilt
  MaxReads,   \* bound: batches the worker has read the state for
  Faults      \* a subset of {"timeout", "fetch", "txFail", "restart"}

ASSUME BoundsAssumption ==
  /\ MaxId \in Nat /\ Rebuilds \in Nat /\ MaxReads \in Nat
  /\ MaxPages \in Nat /\ PageLimit \in Nat \ {0}

VARIABLES
  journal, next, serving,  \* events of the backend, next id, its backendId
  ready,                   \* the worker's db handle is set
  meta, cache,             \* object stores "meta" and "events"
  reads,                   \* cacheEvents calls that wait for getSyncState
  pull,                    \* per tab: the pull in flight
  queued,                  \* per tab: pullQueued
  late,                    \* per tab: the answer to get-state that is too late
  owed, aborted            \* history, see TypeOK

server  == <<journal, next, serving>>
worker  == <<ready, meta, cache, reads>>
history == <<owed, aborted>>
vars    == <<server, worker, pull, queued, late, history>>

Ids       == 1 .. MaxId
Backends  == 1 .. Rebuilds + 1
SyncState == [cursor : 0 .. MaxId, backend : {0} \cup Backends]
Empty     == [cursor |-> 0, backend |-> 0]
Idle      == [phase |-> "idle", from |-> Empty, at |-> Empty, events |-> {}, pages |-> 0]

(***************************************************************************)
(* The server.                                                             *)
(***************************************************************************)
AppendEvent ==
  /\ next <= MaxId
  /\ journal' = journal \cup {next}
  /\ next' = next + 1
  /\ UNCHANGED <<serving, worker, pull, queued, late, history>>

\* The journal is restored from a backup that ends at k, under a new identity.
Rebuild(k) ==
  /\ serving <= Rebuilds
  /\ serving' = serving + 1
  /\ journal' = {e \in journal : e <= k}
  /\ UNCHANGED <<next, worker, pull, queued, late, history>>

\* Mutant: the handler skips the filter.
Unfiltered(window) == window

Visible(window) == window \ Hidden

\* Mutant: nextCursor is the head of the journal, not of the window.
LastHead(window, cursor) == IF window = {} THEN cursor ELSE next - 1

\* At most limit events after the cursor, oldest first.
Window(cursor, limit) ==
  {e \in journal : e > cursor /\ Cardinality({d \in journal : cursor < d /\ d < e}) < limit}

Last(window, cursor) ==
  CHOOSE m \in window \cup {cursor} : \A e \in window \cup {cursor} : e <= m

(***************************************************************************)
(* A tab.                                                                  *)
(***************************************************************************)
\* Online, SSE reconnect, the end of a batch push, cqrsSync.pull().
Pull(t) ==
  /\ IF pull[t].phase = "idle"
       THEN pull' = [pull EXCEPT ![t].phase = "asking"] /\ UNCHANGED queued
       ELSE queued' = [queued EXCEPT ![t] = TRUE] /\ UNCHANGED pull
  /\ owed' = [owed EXCEPT ![t] = next - 1]
  /\ UNCHANGED <<server, worker, late, aborted>>

\* getSyncState: the worker's answer, nothing after two seconds, or the late
\* answer to an earlier question.
GetState(t) ==
  LET answer == IF ready THEN meta ELSE Empty
      Go(s)  == pull' = [pull EXCEPT ![t] = [Idle EXCEPT !.phase = "paging",
                                             !.from = s, !.at = s]]
  IN  /\ pull[t].phase = "asking"
      /\ \/ Go(answer) /\ late' = [late EXCEPT ![t] = {}]
         \/ /\ "timeout" \in Faults
            /\ Go(Empty)
            /\ \E s \in late[t] \cup {answer} : late' = [late EXCEPT ![t] = {s}]
         \/ \E s \in late[t] : Go(s) /\ late' = [late EXCEPT ![t] = {answer}]
      /\ UNCHANGED <<server, worker, queued, history>>

\* One request: the cursor moves past hidden events too.
Page(t) ==
  LET at     == pull[t].at.cursor
      window == Window(at, PageLimit)
      more   == window # Window(at, PageLimit + 1)
      again  == more /\ pull[t].pages < MaxPages
  IN  /\ pull[t].phase = "paging"
      /\ pull' = [pull EXCEPT
           ![t].at     = [cursor |-> Last(window, at), backend |-> serving],
           ![t].events = @ \cup Visible(window),
           ![t].pages  = IF again THEN @ + 1 ELSE @,
           ![t].phase  = IF again THEN @ ELSE "posting"]
      /\ owed' = IF more /\ ~again THEN [owed EXCEPT ![t] = 0] ELSE owed
      /\ UNCHANGED <<server, worker, queued, late, aborted>>

Passed(t) == \A e \in journal : e <= owed[t] => e <= pull[t].at.cursor

\* Mutant: a call during a pull is forgotten.
FinishOnce(t, done) ==
  /\ pull' = [pull EXCEPT ![t] = Idle]
  /\ queued' = [queued EXCEPT ![t] = FALSE]
  /\ owed' = IF ~done \/ Passed(t)
               THEN [owed EXCEPT ![t] = 0] ELSE owed

\* The end of a pull: a call made meanwhile starts the next one.
Finish(t, done) ==
  /\ pull' = [pull EXCEPT ![t] = IF queued[t] THEN [Idle EXCEPT !.phase = "asking"]
                                 ELSE Idle]
  /\ queued' = [queued EXCEPT ![t] = FALSE]
  /\ owed' = IF ~done \/ Passed(t)
               THEN [owed EXCEPT ![t] = 0] ELSE owed

\* Mutant: an empty batch is not posted.
NewsEvents(p) == p.events # {}

News(p) == p.events # {} \/ p.at # p.from

\* Hand the batch to cacheEvents, which first reads the state.
Post(t) ==
  /\ pull[t].phase = "posting" /\ Len(reads) < MaxReads
  /\ reads' = IF News(pull[t]) /\ ready
                THEN Append(reads, [at     |-> pull[t].at,
                                    events |-> pull[t].events,
                                    state  |-> meta])
                ELSE reads
  /\ Finish(t, TRUE)
  /\ UNCHANGED <<server, ready, meta, cache, late, aborted>>

\* A page cannot be fetched: what was collected is dropped.
PageFails(t) ==
  /\ "fetch" \in Faults
  /\ pull[t].phase = "paging"
  /\ Finish(t, FALSE)
  /\ UNCHANGED <<server, worker, late, aborted>>

(***************************************************************************)
(* The worker.                                                             *)
(***************************************************************************)
Reset(r)   == r.at.backend # 0 /\ r.state.backend # 0 /\ r.at.backend # r.state.backend
Regress(r) == ~Reset(r) /\ r.at.cursor # 0 /\ r.at.cursor < r.state.cursor

NewMeta(r) ==
  IF r.at.cursor = 0 \/ Regress(r) THEN meta
  ELSE [r.at EXCEPT !.backend = IF @ = 0 THEN r.state.backend ELSE @]

\* Mutant: the events and the cursor are written in two transactions.
WriteTwice ==
  /\ reads # <<>>
  /\ LET r == Head(reads)
     IN  \E done \in IF "txFail" \in Faults THEN BOOLEAN ELSE {TRUE} :
           cache' = IF done THEN (IF Reset(r) THEN {} ELSE cache) \cup r.events ELSE cache
  /\ meta' = NewMeta(Head(reads))
  /\ reads' = Tail(reads)
  /\ UNCHANGED <<server, ready, pull, queued, late, history>>

\* The continuation of getSyncState in cacheEvents: one transaction for the
\* events and the cursor.  An abort is not reported to the tab.
Write ==
  /\ reads # <<>>
  /\ LET r == Head(reads)
     IN  \/ /\ cache' = (IF Reset(r) THEN {} ELSE cache) \cup r.events
            /\ meta' = NewMeta(r)
            /\ aborted' = FALSE
         \/ /\ "txFail" \in Faults
            /\ aborted' = TRUE
            /\ UNCHANGED <<cache, meta>>
  /\ reads' = Tail(reads)
  /\ UNCHANGED <<server, ready, pull, queued, late, owed>>

DbOpens ==
  /\ ~ready
  /\ ready' = TRUE
  /\ UNCHANGED <<server, meta, cache, reads, pull, queued, late, history>>

\* The browser closes: IndexedDB stays.
Restart ==
  /\ "restart" \in Faults /\ ready
  /\ ready' = FALSE
  /\ reads' = <<>>
  /\ pull' = [t \in Tabs |-> Idle]
  /\ queued' = [t \in Tabs |-> FALSE]
  /\ late' = [t \in Tabs |-> {}]
  /\ owed' = [t \in Tabs |-> 0]
  /\ UNCHANGED <<server, meta, cache, aborted>>

Init ==
  /\ journal = {} /\ next = 1 /\ serving = 1
  /\ ready = FALSE /\ meta = Empty /\ cache = {} /\ reads = <<>>
  /\ pull = [t \in Tabs |-> Idle]
  /\ queued = [t \in Tabs |-> FALSE]
  /\ late = [t \in Tabs |-> {}]
  /\ owed = [t \in Tabs |-> 0] /\ aborted = FALSE

Next ==
  \/ AppendEvent \/ Write \/ DbOpens \/ Restart
  \/ \E k \in 0 .. MaxId : Rebuild(k)
  \/ \E t \in Tabs : Pull(t) \/ GetState(t) \/ Page(t) \/ Post(t) \/ PageFails(t)

\* A pull in flight goes on, and promises of the worker are resolved.
Fairness ==
  /\ WF_vars(Write) /\ WF_vars(DbOpens)
  /\ \A t \in Tabs : WF_vars(GetState(t)) /\ WF_vars(Page(t)) /\ WF_vars(Post(t))

Spec == Init /\ [][Next]_vars /\ Fairness

-----------------------------------------------------------------------------
\* The shape of every variable; owed is the last id made when the tab last
\* asked for a pull, or 0 when a pull has passed it, has failed or has met the
\* page cap since; aborted says that the last transaction did not commit.
TypeOK ==
  /\ journal \subseteq Ids /\ next \in 1 .. MaxId + 1 /\ serving \in Backends
  /\ ready \in BOOLEAN /\ meta \in SyncState /\ cache \subseteq Ids \ Hidden
  /\ \A i \in DOMAIN reads :
       reads[i] \in [at : SyncState, events : SUBSET (Ids \ Hidden), state : SyncState]
  /\ pull \in [Tabs -> [phase : {"idle", "asking", "paging", "posting"},
                        from : SyncState, at : SyncState,
                        events : SUBSET (Ids \ Hidden), pages : 0 .. MaxPages]]
  /\ queued \in [Tabs -> BOOLEAN]
  /\ late \in [Tabs -> SUBSET SyncState]
  /\ owed \in [Tabs -> 0 .. MaxId] /\ aborted \in BOOLEAN

Covered == {e \in journal \ Hidden : e <= meta.cursor} \subseteq cache

\* On one backend, every visible event up to the persisted cursor is in the
\* cache, however the pulls of the tabs race, fail or find the worker opening
\* (cacheEvents stores the cursor with the events it was reached by).
CacheCoversCursor == serving = 1 => Covered

\* An event made before the last call of pullEvents has been passed once the
\* tab is idle again: a call during a pull is not lost (pullQueued).
RequestedPullSeesIt ==
  \A t \in Tabs : pull[t].phase = "idle" => \A e \in journal : e > owed[t]

Stale == \/ \E i \in DOMAIN reads : reads[i].at.backend # serving
         \/ \E t \in Tabs : pull[t].phase = "posting" /\ pull[t].at.backend # serving

\* A pull answered by a rebuilt backend reaches the worker even if it brings no
\* event, so the cache does not stay stale (pullEvents, lines 471-477), unless
\* the transaction aborts or an answer of the old backend is on its way.
RebuildIsNoticed ==
  \A t \in Tabs :
    (/\ pull[t].phase = "posting" /\ pull[t].from.cursor # 0
     /\ pull[t].at.backend = Rebuilds + 1
     /\ ready /\ ~Stale)
      ~> (meta.backend = Rebuilds + 1 \/ ~ready \/ aborted)

-----------------------------------------------------------------------------
(* What the documents promise, checked by the runs that expect a violation. *)

\* "the worker refuses to persist a cursor that would move backwards on the
\* same backend" (docs/guides/frontend-sync.md).
CursorNeverRewinds ==
  [][meta'.backend = meta.backend => meta'.cursor >= meta.cursor]_vars

\* "Backend reset: persist backendId; when it changes, wipe the local event
\* cache and re-bootstrap (the shipped client does this automatically)" (the
\* guide, line 86): the cache of the new backend holds its history.
RebuildBootstraps == meta.backend = serving => Covered
=============================================================================
