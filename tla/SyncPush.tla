------------------------------ MODULE SyncPush ------------------------------
(***************************************************************************)
(* The write half of the sync protocol: a command with a command type, from*)
(* the row a tab issues it on (sync/sync-client.js), over its own endpoint *)
(* or, when the network failed, the worker's queue and SyncPushHandler     *)
(* (sync_push.go), back through push results and the acknowledgements that *)
(* BroadcastOnAck sends over SSE (ack.go).                                 *)
(*                                                                         *)
(* The worker is the queue of module CommandQueue with the envelopes;      *)
(* SyncWorker has its details.  The domain behind the dispatcher is        *)
(* external: a dispatch succeeds, is refused for good or fails for now.    *)
(***************************************************************************)
EXTENDS Naturals, Sequences, FiniteSets

CONSTANTS
  Tabs, Cmds,
  NoCmd,       \* no data-command-id
  Rows,        \* rows of a page
  RowOf,       \* the row a command is issued on
  Hooks,       \* whether the app wires BroadcastOnAck: a subset of BOOLEAN
  MaxRetries,  \* MAX_RETRIES
  Slots,       \* bound: batches in flight
  MaxAcks      \* buffer of an SSE subscriber

ASSUME RowAssumption == RowOf \in [Cmds -> Rows] /\ NoCmd \notin Cmds
ASSUME HooksAssumption == Hooks \subseteq BOOLEAN
ASSUME BoundsAssumption == MaxRetries \in Nat /\ MaxAcks \in Nat

VARIABLES
  hook,
  direct,    \* the request to the command's own endpoint
  home,      \* the tab that issued it
  row,       \* data-command-id and data-sync-state of the rows of each tab
  queue,     \* the worker's queue: command id -> envelope and retries
  push,      \* requests to /sync/push
  acks,      \* sync:ack events on the way to each tab
  executed, settled   \* history, see TypeOK

vars == <<hook, direct, home, row, queue, push, acks, executed, settled>>

Outcomes == {"ok", "refused", "transient"}
NoBatch  == [tab |-> NoCmd, todo |-> {}, items |-> {}, results |-> {}]
Blank    == [id |-> NoCmd, state |-> "none"]

(***************************************************************************)
(* The server.                                                             *)
(***************************************************************************)
Status(outcome) == IF outcome = "ok" THEN "confirmed" ELSE "rejected"

\* Mutant: a full subscriber is sent to all the same.
BroadcastAll(id, outcome) ==
  IF hook THEN acks' = [t \in Tabs |-> Append(acks[t], [id |-> id, status |-> Status(outcome)])]
          ELSE UNCHANGED acks

\* The afterDispatch hook: a tab that is not connected or too slow misses it.
Broadcast(id, outcome) ==
  IF hook
    THEN \E S \in SUBSET {t \in Tabs : Len(acks[t]) < MaxAcks} :
           acks' = [t \in Tabs |-> IF t \in S
                      THEN Append(acks[t], [id |-> id, status |-> Status(outcome)])
                      ELSE acks[t]]
    ELSE UNCHANGED acks

\* Mutant: the hook is called before the dispatch, with no error.
DispatchAckFirst(id, c, outcome) ==
  /\ Broadcast(id, "ok")
  /\ executed' = IF outcome = "ok" THEN executed \cup {c} ELSE executed
  /\ settled' = IF outcome = "transient" THEN settled ELSE settled \cup {c}

\* Authorization, decoding, guard, dispatch and hook for one command.
Dispatch(id, c, outcome) ==
  /\ Broadcast(id, outcome)
  /\ executed' = IF outcome = "ok" THEN executed \cup {c} ELSE executed
  /\ settled' = IF outcome = "transient" THEN settled ELSE settled \cup {c}

\* One envelope of a batch.  What fails before the dispatch calls no hook.
PushStep(i, m, outcome) ==
  /\ m \in push[i].todo
  /\ push' = [push EXCEPT ![i].todo = @ \ {m},
                          ![i].results = @ \cup {[id |-> m.id, outcome |-> outcome]}]
  /\ \/ Dispatch(m.id, m.what, outcome)
     \/ /\ outcome # "ok"
        /\ settled' = IF outcome = "refused" THEN settled \cup {m.what} ELSE settled
        /\ UNCHANGED <<acks, executed>>
  /\ UNCHANGED <<hook, direct, home, row, queue>>

(***************************************************************************)
(* The command's own endpoint.                                             *)
(***************************************************************************)
\* htmx:beforeRequest marks the row with the id of the command.
Submit(t, c) ==
  /\ direct[c] = "new"
  /\ direct' = [direct EXCEPT ![c] = "sent"]
  /\ home' = [home EXCEPT ![c] = t]
  /\ row' = [row EXCEPT ![t][RowOf[c]] = [id |-> c, state |-> "pending"]]
  /\ UNCHANGED <<hook, queue, push, acks, executed, settled>>

\* A request whose tab no longer waits is served all the same.
Serve(c, outcome) ==
  /\ direct[c] \in {"sent", "adrift"}
  /\ direct' = [direct EXCEPT ![c] = IF @ = "adrift" THEN "done"
                                     ELSE IF outcome = "ok" THEN "ok" ELSE "error"]
  /\ Dispatch(c, c, outcome)
  /\ UNCHANGED <<hook, home, row, queue, push>>

\* htmx:responseError rejects the row and says so to the user.
Respond(c) ==
  /\ direct[c] \in {"ok", "error"}
  /\ direct' = [direct EXCEPT ![c] = "done"]
  /\ row' = IF direct[c] = "error" /\ row[home[c]][RowOf[c]].id # NoCmd
              THEN [row EXCEPT ![home[c]][RowOf[c]].state = "rejected"] ELSE row
  /\ settled' = settled \cup {c}
  /\ UNCHANGED <<hook, home, queue, push, acks, executed>>

\* The tab stops waiting: the request may still be on its way to the server.
Abandoned(c) == IF direct[c] = "sent" THEN "adrift" ELSE "done"

Add(id, c) ==
  [x \in DOMAIN queue \cup {id} |->
     IF x \in DOMAIN queue THEN queue[x] ELSE [what |-> c, retries |-> 0]]

Without(D) == [x \in DOMAIN queue \ D |-> queue[x]]

\* htmx:sendError: the envelope of this request goes to the queue, under the
\* id the row carries by now.
SendError(c) ==
  LET id == row[home[c]][RowOf[c]].id
  IN  /\ direct[c] \in {"sent", "ok", "error"}
      /\ direct' = [direct EXCEPT ![c] = Abandoned(c)]
      /\ queue' = IF id = NoCmd THEN queue ELSE Add(id, c)
      /\ UNCHANGED <<hook, home, row, push, acks, executed, settled>>

(***************************************************************************)
(* The queue and the batch push.                                           *)
(***************************************************************************)
\* doFlush: spent commands are reported dead, the others go to one tab.
Flush(t, i) ==
  LET dead  == {id \in DOMAIN queue : queue[id].retries >= MaxRetries}
      alive == DOMAIN queue \ dead
      items == {[id |-> id, what |-> queue[id].what] : id \in alive}
  IN  /\ DOMAIN queue # {} /\ push[i] = NoBatch
      /\ queue' = [id \in alive |-> [queue[id] EXCEPT !.retries = @ + 1]]
      /\ push' = IF alive = {} THEN push
                 ELSE [push EXCEPT ![i] = [tab |-> t, todo |-> items,
                                           items |-> items, results |-> {}]]
      /\ row' = [u \in Tabs |-> [r \in Rows |->
                   IF row[u][r].id \in dead THEN [row[u][r] EXCEPT !.state = "rejected"]
                   ELSE row[u][r]]]
      /\ settled' = settled \cup {queue[id].what : id \in dead}
      /\ UNCHANGED <<hook, direct, home, acks, executed>>

\* handleSyncAck on the row of the command, if tab t has one.
Mark(rows, t, id, status) ==
  [rows EXCEPT ![t] = [r \in Rows |->
     IF rows[t][r].id = id THEN [rows[t][r] EXCEPT !.state = status] ELSE rows[t][r]]]

\* Mutant: every answered command is acknowledged.
FinalAll(results) == results

\* Confirmed and permanently rejected results.
Final(results) == {x \in results : x.outcome # "transient"}

\* The response arrives: final commands leave the queue, all others stay.
PushReply(i) ==
  LET b     == push[i]
      final == Final(b.results)
  IN  /\ b # NoBatch /\ b.todo = {} /\ b.tab \in Tabs
      /\ push' = [push EXCEPT ![i] = NoBatch]
      /\ queue' = Without({x.id : x \in final})
      /\ row' = [row EXCEPT ![b.tab] = [r \in Rows |->
                   IF \E x \in final : x.id = row[b.tab][r].id
                     THEN [row[b.tab][r] EXCEPT !.state =
                             Status((CHOOSE x \in final : x.id = row[b.tab][r].id).outcome)]
                     ELSE row[b.tab][r]]]
      /\ UNCHANGED <<hook, direct, home, acks, executed, settled>>

\* The request or the response is lost; the server may go on with the batch.
PushFails(i) ==
  /\ push[i] # NoBatch
  /\ push' \in {[push EXCEPT ![i] = NoBatch]}
       \cup (IF push[i].todo # {} THEN {[push EXCEPT ![i].tab = NoCmd]} ELSE {})
  /\ UNCHANGED <<hook, direct, home, row, queue, acks, executed, settled>>

\* handleSyncAck: a tab that does not show the command ignores it.
AckArrives(t) ==
  LET a     == Head(acks[t])
      shown == \E r \in Rows : row[t][r].id = a.id
  IN  /\ acks[t] # <<>>
      /\ acks' = [acks EXCEPT ![t] = Tail(@)]
      /\ row' = Mark(row, t, a.id, a.status)
      /\ queue' = IF shown THEN Without({a.id}) ELSE queue
      /\ UNCHANGED <<hook, direct, home, push, executed, settled>>

\* The page is loaded anew, or goes away: requests it waits for are abandoned.
Reload(t) ==
  LET waiting == {c \in Cmds : home[c] = t /\ direct[c] \in {"sent", "ok", "error"}}
  IN  /\ row[t] # [r \in Rows |-> Blank]
      /\ row' = [row EXCEPT ![t] = [r \in Rows |-> Blank]]
      /\ acks' = [acks EXCEPT ![t] = <<>>]
      /\ direct' = [c \in Cmds |-> IF c \in waiting THEN Abandoned(c) ELSE direct[c]]
      /\ settled' = settled \cup waiting
      /\ push' = [i \in Slots |-> IF push[i].tab # t THEN push[i]
                                  ELSE IF push[i].todo = {} THEN NoBatch
                                  ELSE [push[i] EXCEPT !.tab = NoCmd]]
      /\ UNCHANGED <<hook, home, queue, executed>>

Init ==
  /\ hook \in Hooks
  /\ direct = [c \in Cmds |-> "new"]
  /\ home = [c \in Cmds |-> NoCmd]
  /\ row = [t \in Tabs |-> [r \in Rows |-> Blank]]
  /\ queue = [id \in {} |-> [what |-> NoCmd, retries |-> 0]]
  /\ push = [i \in Slots |-> NoBatch]
  /\ acks = [t \in Tabs |-> <<>>]
  /\ executed = {} /\ settled = {}

Next ==
  \/ \E t \in Tabs, c \in Cmds : Submit(t, c)
  \/ \E c \in Cmds : Respond(c) \/ SendError(c) \/ \E o \in Outcomes : Serve(c, o)
  \/ \E t \in Tabs, i \in Slots : Flush(t, i)
  \/ \E i \in Slots : PushReply(i) \/ PushFails(i)
  \/ \E i \in Slots, o \in Outcomes : \E m \in push[i].todo : PushStep(i, m, o)
  \/ \E t \in Tabs : AckArrives(t) \/ Reload(t)

Spec == Init /\ [][Next]_vars

-----------------------------------------------------------------------------
\* The shape of every variable.  executed holds the commands a dispatch
\* succeeded for, settled those whose fate is known: decided by the server,
\* shown as failed to the user, dead, or abandoned by leaving the page.
TypeOK ==
  /\ hook \in BOOLEAN
  /\ direct \in [Cmds -> {"new", "sent", "adrift", "ok", "error", "done"}]
  /\ home \in [Cmds -> Tabs \cup {NoCmd}]
  /\ row \in [Tabs -> [Rows -> [id : Cmds \cup {NoCmd},
                                state : {"none", "pending", "confirmed", "rejected"}]]]
  /\ DOMAIN queue \subseteq Cmds
  /\ queue \in [DOMAIN queue -> [what : Cmds, retries : 0 .. MaxRetries]]
  /\ \A i \in Slots : push[i].todo \subseteq push[i].items
  /\ \A t \in Tabs : Len(acks[t]) <= MaxAcks
  /\ executed \subseteq settled /\ settled \subseteq Cmds

Owed(c) == direct[c] \in {"adrift", "done"} /\ c \notin settled
Kept(c) == \E id \in DOMAIN queue : queue[id].what = c

\* "Offline # rejected: the command is queued, not lost" (sync-client.js,
\* lines 723-725), and a transient failure leaves it there: a command stays in
\* the queue until its fate is known, whatever responses are lost and whichever
\* tab replays it.  With BroadcastOnAck see QueuedNotLost.
NothingLost == ~hook => \A c \in Cmds : Owed(c) => Kept(c)

\* A row shows "confirmed" only for a command the server has executed, by
\* whichever way and however late the confirmation came.
ConfirmedWasExecuted ==
  \A t \in Tabs, r \in Rows :
    row[t][r].state = "confirmed" => row[t][r].id \in executed

-----------------------------------------------------------------------------
(* What the documents promise, checked by the runs that expect a violation. *)

=============================================================================
