------------------------------ MODULE SSEFeed ------------------------------
(***************************************************************************)
(* One browser on the journal-backed SSE endpoint: ServeDomainEvents       *)
(* (transport/serve.go) subscribes to the hub, replays the journal after   *)
(* the browser's Last-Event-ID (transport/journalsse.go) and then pumps    *)
(* the events the hub buffered for it.                                     *)
(*                                                                         *)
(* An event is its position in the journal, 1, 2, ...; the cursor 0 is the *)
(* empty Last-Event-ID.  A publisher appends to the journal and, in a step *)
(* of its own, broadcasts to the hub, so up to Publishers events are       *)
(* committed but not yet broadcast and those may overtake each other.      *)
(***************************************************************************)
EXTENDS Naturals, SequencesExt

CONSTANTS
  Hidden,      \* events the predicate of WithSSEFilter rejects
  StoreCap,    \* WithMaxReplay of the store, also the size of a page
  HandlerCap,  \* WithSSEMaxReplay of the handler
  Ring,        \* dedup.DefaultCapacity
  Buffer,      \* the hub's buffer per subscriber
  Publishers,  \* how many requests publish at once
  MaxId,       \* bound: the journal stops growing here
  MaxDials,    \* bound: connections the browser opens
  Faults       \* a subset of {"drop", "read"}: lost connections, failing reads

ASSUME LimitsAssumption ==
  /\ {StoreCap, HandlerCap, Ring, Buffer} \subseteq Nat \ {0}
  /\ {Publishers, MaxId, MaxDials} \subseteq Nat

VARIABLES
  head,      \* the journal is 1 .. head
  outbox,    \* appended, not yet broadcast
  phase,     \* "down", "reading" the journal, "replaying" it, "live"
  channel,   \* the subscription: what the hub buffered for this connection
  at, tail,  \* the reading loop's cursor and its rolling tail
  script,    \* what the replay still has to write
  replayed,  \* the ring of ids the replay returned, oldest first
  lastId,    \* the browser's Last-Event-ID
  dials,
  base, written, forgone  \* history, see TypeOK

server  == <<head, outbox>>
reading == <<at, tail>>
vars    == <<server, phase, channel, reading, script, replayed, lastId, dials,
             base, written, forgone>>

Matches(e)    == e \notin Hidden
Newest(s, n)  == SubSeq(s, IF Len(s) > n THEN Len(s) - n + 1 ELSE 1, Len(s))
Between(a, b) == [i \in 1 .. b - a |-> a + i]

(***************************************************************************)
(* The journal and the hub.                                                *)
(***************************************************************************)
Commit ==
  /\ head < MaxId
  /\ Cardinality(outbox) < Publishers
  /\ head' = head + 1
  /\ outbox' = outbox \cup {head + 1}
  /\ UNCHANGED <<phase, channel, reading, script, replayed, lastId, dials,
                 base, written, forgone>>

\* Mutant: the handler subscribes after the replay.
ListeningLive == phase = "live"

Listening == phase # "down"

\* Mutant: the hub never drops.
RoomAlways == TRUE

Room == Len(channel) < Buffer

\* A full subscriber loses the event, the publisher never waits.
Broadcast(e) ==
  /\ e \in outbox
  /\ outbox' = outbox \ {e}
  /\ channel' = IF Listening /\ Matches(e) /\ Room THEN Append(channel, e) ELSE channel
  /\ forgone' = IF Listening /\ Matches(e) /\ ~Room THEN forgone \cup {e} ELSE forgone
  /\ UNCHANGED <<head, phase, reading, script, replayed, lastId, dials, base, written>>

(***************************************************************************)
(* The handler.                                                            *)
(***************************************************************************)
Connect ==
  /\ phase = "down" /\ dials < MaxDials
  /\ phase' = "reading"
  /\ channel' = << >> /\ replayed' = << >> /\ tail' = << >> /\ script' = << >>
  /\ at' = lastId
  /\ dials' = dials + 1
  /\ base' = lastId /\ written' = << >> /\ forgone' = {}
  /\ UNCHANGED <<server, lastId>>

Roll(window, page) == Newest(window \o page, StoreCap)

\* The loop over the events with the predicate of the handler.
Matching(events) ==
  LET Upto[i \in 0 .. Len(events)] ==
        IF i = 0 THEN << >>
        ELSE IF Matches(events[i]) THEN Append(Upto[i - 1], events[i])
        ELSE Upto[i - 1]
  IN Upto[Len(events)]

\* Mutant: the cap of the handler counts events the filter rejects.
AdjustFirst(events) == Matching(Newest(events, HandlerCap))

Adjust(events) == Newest(Matching(events), HandlerCap)

Replay(events) ==
  /\ phase' = "replaying"
  /\ script' = events
  /\ replayed' = Newest(events, Ring)

\* One ReadFrom of eventsAfterSeekable; a short page is the last one.
ReadPage ==
  /\ phase = "reading"
  /\ LET upTo   == IF at + StoreCap < head THEN at + StoreCap ELSE head
         rolled == Roll(tail, Between(at, upTo))
         short  == upTo - at < StoreCap
         kept   == IF short THEN Adjust(rolled) ELSE rolled
     IN /\ at' = upTo
        /\ tail' = rolled
        /\ IF short THEN Replay(kept) ELSE UNCHANGED <<phase, script, replayed>>
        /\ forgone' = forgone \cup ((base + 1 .. upTo) \ ToSet(kept))
  /\ UNCHANGED <<server, channel, lastId, dials, base, written>>

\* The error of the store is logged and the handler goes on to the live events.
ReadFails ==
  /\ "read" \in Faults
  /\ phase = "reading"
  /\ Replay(<< >>)
  /\ tail' = << >>
  /\ forgone' = forgone \cup (base + 1 .. head)
  /\ UNCHANGED <<server, channel, at, lastId, dials, base, written>>

Write(e) ==
  /\ lastId' = e
  /\ written' = Append(written, e)

ReplayOne ==
  /\ phase = "replaying" /\ script # << >>
  /\ script' = Tail(script)
  /\ Write(Head(script))
  /\ UNCHANGED <<server, phase, channel, reading, replayed, dials, base, forgone>>

GoLive ==
  /\ phase = "replaying" /\ script = << >>
  /\ phase' = "live"
  /\ UNCHANGED <<server, channel, reading, script, replayed, lastId, dials,
                 base, written, forgone>>

\* Mutant: nothing is skipped.
IsReplayDuplicateNever(e) == FALSE

IsReplayDuplicate(e) == Contains(replayed, e)

Pump ==
  /\ phase = "live" /\ channel # << >>
  /\ channel' = Tail(channel)
  /\ IF IsReplayDuplicate(Head(channel))
     THEN UNCHANGED <<lastId, written>>
     ELSE Write(Head(channel))
  /\ UNCHANGED <<server, phase, reading, script, replayed, dials, base, forgone>>

\* The connection breaks; what the hub had buffered for it is gone.
Disconnect ==
  /\ "drop" \in Faults
  /\ phase # "down"
  /\ phase' = "down"
  /\ channel' = << >> /\ script' = << >> /\ replayed' = << >> /\ tail' = << >>
  /\ UNCHANGED <<server, at, lastId, dials, base, written, forgone>>

Init ==
  /\ head \in 0 .. MaxId /\ outbox = {}
  /\ phase = "down" /\ channel = << >>
  /\ at = 0 /\ tail = << >> /\ script = << >> /\ replayed = << >>
  /\ lastId = 0 /\ dials = 0
  /\ base = 0 /\ written = << >> /\ forgone = {}

Next ==
  \/ Commit
  \/ \E e \in outbox : Broadcast(e)
  \/ Connect \/ ReadPage \/ ReadFails \/ ReplayOne \/ GoLive \/ Pump \/ Disconnect

Spec == Init /\ [][Next]_vars

(***************************************************************************)
(* Properties.                                                             *)
(***************************************************************************)
Ids == 1 .. MaxId

\* The types, and the limits: a subscription never buffers more than the hub
\* allows, the loop never keeps more than the cap of the store, and the ring
\* stays within its capacity.  base is the cursor this connection came with,
\* written what it was sent, and forgone the events it lost to a full buffer, a
\* cap, the filter or a failed read.
TypeOK ==
  /\ head \in 0 .. MaxId /\ outbox \subseteq 1 .. head
  /\ phase \in {"down", "reading", "replaying", "live"}
  /\ channel \in Seq(Ids) /\ Len(channel) <= Buffer
  /\ at \in 0 .. MaxId /\ tail \in Seq(Ids) /\ Len(tail) <= StoreCap
  /\ script \in Seq(Ids) /\ Len(script) <= HandlerCap
  /\ replayed \in Seq(Ids) /\ Len(replayed) <= Ring
  /\ lastId \in 0 .. MaxId /\ dials \in 0 .. MaxDials
  /\ base \in 0 .. MaxId /\ written \in Seq(Ids)
  /\ forgone \subseteq Ids

\* ServeDomainEvents subscribes before it replays (serve.go:401-404) and drops
\* from the live events the ids the replay returned: an event that sits in both
\* is written once, as long as the ring holds a whole replay.
WrittenOnce ==
  (StoreCap <= Ring \/ HandlerCap <= Ring) => IsInjective(written)

\* "no event is lost during the replay window" (serve.go:402): whatever follows
\* the cursor a connection came with has been written, will be (it is still in
\* the journal to be read, in the replay, in the subscription or about to be
\* broadcast), or is one this connection gave up.
NothingLostOnConnection ==
  phase # "down" =>
    \A e \in base + 1 .. head :
      \/ ~Matches(e)
      \/ e \in ToSet(written) \cup ToSet(script) \cup ToSet(channel)
      \/ e \in outbox \cup forgone
      \/ phase = "reading" /\ (e > at \/ Contains(tail, e))

\* What a replay returns, defined on the whole journal at once.
NewestMatches ==
  Newest(Matching(Newest(Between(base, at), StoreCap)), HandlerCap)

\* The paged loop with its rolling tail returns the newest events after the
\* cursor, however the journal grows between its pages, and the cap of the
\* handler counts matches only (serve.go:150-153).
ReplayIsNewest ==
  [][phase = "reading" /\ phase' = "replaying" /\ script' # << >>
       => script' = NewestMatches' /\ at' = head]_vars
=============================================================================
