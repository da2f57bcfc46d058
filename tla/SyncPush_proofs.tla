--------------------------- MODULE SyncPush_proofs ---------------------------
(***************************************************************************)
(* Proofs about SyncPush, for every set of tabs and commands, every number *)
(* of batches in flight, every retry limit and every SSE buffer.           *)
(*                                                                         *)
(* Types need nothing.  What the client promises about a command needs     *)
(* that no two commands are issued on one row (OwnRows): a row carries one *)
(* id, and sendError queues the envelope of a request under the id its row *)
(* carries by then.  SyncPush_sameRow.cfg shows what happens else.         *)
(***************************************************************************)
EXTENDS SyncPush, TLAPS

RowRec   == [id : Cmds \cup {NoCmd}, state : {"none", "pending", "confirmed", "rejected"}]
Queued   == [what : Cmds, retries : 0 .. MaxRetries]
Envelope == [id : Cmds, what : Cmds]
Result   == [id : Cmds, outcome : Outcomes]
Ack      == [id : Cmds, status : {"confirmed", "rejected"}]
Batch    == [tab : Tabs \cup {NoCmd}, todo : SUBSET Envelope,
             items : SUBSET Envelope, results : SUBSET Result]

Waiting(c) == direct[c] \in {"sent", "ok", "error"}

\* A tab has stopped waiting, with or without an answer.
Left == {"adrift", "done"}

\* The shape of what is in flight, and where a request waits for its answer.
Typed ==
  /\ TypeOK
  /\ push \in [Slots -> Batch] /\ acks \in [Tabs -> Seq(Ack)]
  /\ \A c \in Cmds : Waiting(c) => home[c] \in Tabs

\* The condition of use: no two commands are issued on one row.
OwnRows == \A c, d \in Cmds : RowOf[c] = RowOf[d] => c = d

\* An id stands for one command, on the rows, in the queue and in a batch.
SameId ==
  /\ \A t \in Tabs, r \in Rows : row[t][r].id \in Cmds => RowOf[row[t][r].id] = r
  /\ \A id \in DOMAIN queue : queue[id].what = id
  /\ \A i \in Slots : \A m \in push[i].items : m.what = m.id

\* A confirmation that is on its way, or shown, is one of an executed command.
Honest ==
  /\ \A t \in Tabs, r \in Rows : row[t][r].state = "confirmed" => row[t][r].id \in executed
  /\ \A i \in Slots : \A x \in push[i].results : x.outcome = "ok" => x.id \in executed
  /\ \A t \in Tabs : \A k \in DOMAIN acks[t] :
       acks[t][k].status = "confirmed" => acks[t][k].id \in executed

\* The row of a request that waits carries its id; a final result and, without
\* the hook, what has left the queue are settled.
Held ==
  /\ \A c \in Cmds : Waiting(c) => row[home[c]][RowOf[c]].id = c
  /\ \A i \in Slots : \A x \in Final(push[i].results) : x.id \in settled
  /\ ~hook => \A t \in Tabs : acks[t] = <<>>
  /\ ~hook => \A c \in Cmds : Owed(c) => c \in DOMAIN queue

Sound == Typed /\ SameId /\ Honest /\ Held

-----------------------------------------------------------------------------
(* What a step does to the rows.                                            *)

LEMMA SubmitRows ==
  ASSUME Typed, NEW t \in Tabs, NEW c \in Cmds, Submit(t, c)
  PROVE  /\ row' \in [Tabs -> [Rows -> RowRec]]
         /\ \A u \in Tabs, r \in Rows :
              row'[u][r] = IF u = t /\ r = RowOf[c] THEN [id |-> c, state |-> "pending"]
                           ELSE row[u][r]
<1>1. row \in [Tabs -> [Rows -> RowRec]] /\ RowOf[c] \in Rows
  BY RowAssumption DEF Typed, TypeOK, RowRec
<1>2. [id |-> c, state |-> "pending"] \in RowRec
  BY DEF RowRec
<1>3. row' = [row EXCEPT ![t] = [row[t] EXCEPT ![RowOf[c]] = [id |-> c, state |-> "pending"]]]
  BY DEF Submit
<1> HIDE DEF RowRec
<1>4. [row[t] EXCEPT ![RowOf[c]] = [id |-> c, state |-> "pending"]] \in [Rows -> RowRec]
  BY <1>1, <1>2
<1> QED BY <1>1, <1>2, <1>3, <1>4

LEMMA RespondRows ==
  ASSUME Typed, NEW c \in Cmds, Respond(c)
  PROVE  /\ row' \in [Tabs -> [Rows -> RowRec]]
         /\ \A u \in Tabs, r \in Rows :
              row'[u][r].id = row[u][r].id /\ row'[u][r].state \in {row[u][r].state, "rejected"}
<1>1. row \in [Tabs -> [Rows -> RowRec]] /\ RowOf[c] \in Rows /\ home[c] \in Tabs
  BY RowAssumption DEF Typed, TypeOK, RowRec, Respond, Waiting
<1> DEFINE old == row[home[c]][RowOf[c]]
           new == [old EXCEPT !.state = "rejected"]
<1>2. old \in RowRec
  BY <1>1
<1>3. new \in RowRec /\ new.id = old.id /\ new.state = "rejected"
  BY <1>2 DEF RowRec
<1>4. \/ row' = row
      \/ row' = [row EXCEPT ![home[c]] = [row[home[c]] EXCEPT ![RowOf[c]] = new]]
  BY DEF Respond
<1> HIDE DEF new
<1>5. CASE row' = row
  BY <1>1, <1>5
<1>6. CASE row' = [row EXCEPT ![home[c]] = [row[home[c]] EXCEPT ![RowOf[c]] = new]]
  <2>1. [row[home[c]] EXCEPT ![RowOf[c]] = new] \in [Rows -> RowRec]
    BY <1>1, <1>3
  <2>2. row' \in [Tabs -> [Rows -> RowRec]]
    BY <1>1, <1>6, <2>1
  <2>3. \A u \in Tabs, r \in Rows :
           row'[u][r] = IF u = home[c] /\ r = RowOf[c] THEN new ELSE row[u][r]
    BY <1>1, <1>6, <2>1
  <2> QED BY <1>3, <2>2, <2>3
<1> QED BY <1>4, <1>5, <1>6

LEMMA FlushRows ==
  ASSUME Typed, NEW t \in Tabs, NEW i \in Slots, Flush(t, i)
  PROVE  /\ row' \in [Tabs -> [Rows -> RowRec]]
         /\ \A u \in Tabs, r \in Rows :
              row'[u][r].id = row[u][r].id /\ row'[u][r].state \in {row[u][r].state, "rejected"}
<1>1. row \in [Tabs -> [Rows -> RowRec]]
  BY DEF Typed, TypeOK, RowRec
<1> DEFINE dead == {id \in DOMAIN queue : queue[id].retries >= MaxRetries}
           New(u, r) == IF row[u][r].id \in dead THEN [row[u][r] EXCEPT !.state = "rejected"]
                        ELSE row[u][r]
<1>2. row' = [u \in Tabs |-> [r \in Rows |-> New(u, r)]]
  BY DEF Flush
<1>3. ASSUME NEW u \in Tabs, NEW r \in Rows
      PROVE  /\ New(u, r) \in RowRec /\ New(u, r).id = row[u][r].id
             /\ New(u, r).state \in {row[u][r].state, "rejected"}
  <2> HIDE DEF dead
  <2>1. row[u][r] \in RowRec
    BY <1>1
  <2> QED BY <2>1 DEF RowRec
<1> HIDE DEF New
<1> QED BY <1>2, <1>3

LEMMA PushReplyRows ==
  ASSUME Typed, NEW i \in Slots, PushReply(i)
  PROVE  /\ row' \in [Tabs -> [Rows -> RowRec]]
         /\ \A u \in Tabs, r \in Rows :
              /\ row'[u][r].id = row[u][r].id
              /\ \/ row'[u][r].state = row[u][r].state
                 \/ \E x \in Final(push[i].results) :
                      x.id = row[u][r].id /\ row'[u][r].state = Status(x.outcome)
<1> DEFINE b     == push[i]
           final == Final(b.results)
           Of(r) == CHOOSE x \in final : x.id = row[b.tab][r].id
           New(r) == IF \E x \in final : x.id = row[b.tab][r].id
                       THEN [row[b.tab][r] EXCEPT !.state = Status(Of(r).outcome)]
                       ELSE row[b.tab][r]
<1>1. row \in [Tabs -> [Rows -> RowRec]] /\ b.tab \in Tabs
  BY DEF Typed, TypeOK, RowRec, PushReply
<1>2. row' = [row EXCEPT ![b.tab] = [r \in Rows |-> New(r)]]
  BY DEF PushReply
<1>3. ASSUME NEW r \in Rows
      PROVE  /\ New(r) \in RowRec /\ New(r).id = row[b.tab][r].id
             /\ \/ New(r).state = row[b.tab][r].state
                \/ \E x \in final : x.id = row[b.tab][r].id /\ New(r).state = Status(x.outcome)
  <2>1. row[b.tab][r] \in RowRec
    BY <1>1
  <2>2. CASE \E x \in final : x.id = row[b.tab][r].id
    <3>1. Of(r) \in final /\ Of(r).id = row[b.tab][r].id
      BY <2>2
    <3> HIDE DEF final, Of, b
    <3>2. New(r) = [row[b.tab][r] EXCEPT !.state = Status(Of(r).outcome)]
      BY <2>2
    <3>3. Status(Of(r).outcome) \in {"confirmed", "rejected"}
      BY DEF Status
    <3> HIDE DEF New
    <3>4. /\ New(r) \in RowRec /\ New(r).id = row[b.tab][r].id
          /\ New(r).state = Status(Of(r).outcome)
      BY <2>1, <3>2, <3>3 DEF RowRec
    <3> QED BY <3>1, <3>4
  <2>3. CASE ~ \E x \in final : x.id = row[b.tab][r].id
    BY <2>1, <2>3
  <2> QED BY <2>2, <2>3
<1> HIDE DEF New, final, b
<1>4. row' \in [Tabs -> [Rows -> RowRec]]
  BY <1>1, <1>2, <1>3
<1>5. \A u \in Tabs, r \in Rows : row'[u][r] = IF u = b.tab THEN New(r) ELSE row[u][r]
  BY <1>1, <1>2
<1> QED BY <1>3, <1>4, <1>5 DEF final, b

LEMMA AckArrivesRows ==
  ASSUME Typed, NEW t \in Tabs, AckArrives(t)
  PROVE  /\ acks[t] # <<>> /\ Head(acks[t]) \in Ack /\ Head(acks[t]) = acks[t][1]
         /\ row' \in [Tabs -> [Rows -> RowRec]]
         /\ \A u \in Tabs, r \in Rows :
              /\ row'[u][r].id = row[u][r].id
              /\ \/ row'[u][r].state = row[u][r].state
                 \/ u = t /\ row[u][r].id = Head(acks[t]).id
                    /\ row'[u][r].state = Head(acks[t]).status
<1> DEFINE a == Head(acks[t])
           New(r) == IF row[t][r].id = a.id THEN [row[t][r] EXCEPT !.state = a.status]
                     ELSE row[t][r]
<1>1. row \in [Tabs -> [Rows -> RowRec]] /\ acks[t] \in Seq(Ack) /\ acks[t] # <<>>
  BY DEF Typed, TypeOK, RowRec, AckArrives
<1>2. a \in Ack /\ a = acks[t][1]
  BY <1>1
<1>3. row' = [row EXCEPT ![t] = [r \in Rows |-> New(r)]]
  BY DEF AckArrives, Mark
<1> HIDE DEF a
<1>4. ASSUME NEW r \in Rows
      PROVE  /\ New(r) \in RowRec /\ New(r).id = row[t][r].id
             /\ \/ New(r).state = row[t][r].state
                \/ row[t][r].id = a.id /\ New(r).state = a.status
  <2>1. row[t][r] \in RowRec
    BY <1>1
  <2> QED BY <1>2, <2>1 DEF RowRec, Ack
<1> HIDE DEF New
<1>5. row' \in [Tabs -> [Rows -> RowRec]]
  BY <1>1, <1>3, <1>4
<1>6. \A u \in Tabs, r \in Rows : row'[u][r] = IF u = t THEN New(r) ELSE row[u][r]
  BY <1>1, <1>3
<1> QED BY <1>1, <1>2, <1>4, <1>5, <1>6 DEF a

LEMMA ReloadRows ==
  ASSUME Typed, NEW t \in Tabs, Reload(t)
  PROVE  /\ row' \in [Tabs -> [Rows -> RowRec]]
         /\ \A u \in Tabs, r \in Rows : row'[u][r] = IF u = t THEN Blank ELSE row[u][r]
<1>1. row \in [Tabs -> [Rows -> RowRec]]
  BY DEF Typed, TypeOK, RowRec
<1>2. Blank \in RowRec
  BY DEF Blank, RowRec
<1>3. row' = [row EXCEPT ![t] = [r \in Rows |-> Blank]]
  BY DEF Reload
<1> HIDE DEF RowRec, Blank
<1> QED BY <1>1, <1>2, <1>3

-----------------------------------------------------------------------------
(* What a step does to the acknowledgements, the batches and the queue.     *)

LEMMA AppendedEntries ==
  ASSUME NEW S, NEW q \in Seq(S), NEW x \in S
  PROVE  /\ Append(q, x) \in Seq(S) /\ Len(Append(q, x)) = Len(q) + 1
         /\ \A i \in DOMAIN Append(q, x) : (i \in DOMAIN q /\ Append(q, x)[i] = q[i])
                                          \/ Append(q, x)[i] = x
<1>1. Append(q, x) \in Seq(S) /\ Len(Append(q, x)) = Len(q) + 1 /\ Len(q) \in Nat
  OBVIOUS
<1>2. ASSUME NEW i \in 1 .. Len(q) + 1
      PROVE  (i \in DOMAIN q /\ Append(q, x)[i] = q[i]) \/ Append(q, x)[i] = x
  <2>1. CASE i = Len(q) + 1
    BY <2>1
  <2>2. CASE i \in 1 .. Len(q)
    BY <2>2
  <2> QED BY <1>1, <2>1, <2>2
<1> QED BY <1>1, <1>2

LEMMA BroadcastAcks ==
  ASSUME Typed, NEW id \in Cmds, NEW o \in Outcomes, Broadcast(id, o)
  PROVE  /\ acks' \in [Tabs -> Seq(Ack)] /\ \A u \in Tabs : Len(acks'[u]) <= MaxAcks
         /\ ~hook => acks' = acks
         /\ \A u \in Tabs : \A k \in DOMAIN acks'[u] :
              (k \in DOMAIN acks[u] /\ acks'[u][k] = acks[u][k])
              \/ acks'[u][k] = [id |-> id, status |-> Status(o)]
<1> DEFINE new == [id |-> id, status |-> Status(o)]
<1>1. new \in Ack
  BY DEF Ack, Status
<1>2. /\ acks \in [Tabs -> Seq(Ack)] /\ \A u \in Tabs : Len(acks[u]) <= MaxAcks
      /\ MaxAcks \in Nat
  BY BoundsAssumption DEF Typed, TypeOK
<1>3. CASE ~hook
  BY <1>2, <1>3 DEF Broadcast
<1>4. CASE hook
  <2>1. PICK S \in SUBSET {t \in Tabs : Len(acks[t]) < MaxAcks} :
          acks' = [t \in Tabs |-> IF t \in S THEN Append(acks[t], new) ELSE acks[t]]
    BY <1>4 DEF Broadcast
  <2> HIDE DEF new
  <2>2. ASSUME NEW u \in Tabs
        PROVE  /\ acks'[u] \in Seq(Ack) /\ Len(acks'[u]) <= MaxAcks
               /\ \A k \in DOMAIN acks'[u] :
                    (k \in DOMAIN acks[u] /\ acks'[u][k] = acks[u][k]) \/ acks'[u][k] = new
    <3>1. acks[u] \in Seq(Ack) /\ Len(acks[u]) \in Nat
      BY <1>2
    <3>2. CASE u \in S
      <4>1. acks'[u] = Append(acks[u], new) /\ Len(acks[u]) < MaxAcks
        BY <2>1, <3>2
      <4> QED BY <1>1, <1>2, <3>1, <4>1, AppendedEntries
    <3>3. CASE u \notin S
      <4>1. acks'[u] = acks[u]
        BY <2>1, <3>3
      <4> QED BY <1>2, <3>1, <4>1
    <3> QED BY <3>2, <3>3
  <2>3. acks' = [t \in Tabs |-> acks'[t]]
    BY <2>1
  <2>4. acks' \in [Tabs -> Seq(Ack)]
    BY <2>2, <2>3
  <2> QED BY <1>4, <2>2, <2>4 DEF new
<1> QED BY <1>3, <1>4

LEMMA PushStepBatch ==
  ASSUME Typed, NEW i \in Slots, NEW o \in Outcomes, NEW m \in push[i].todo, PushStep(i, m, o)
  PROVE  /\ m \in Envelope /\ m \in push[i].items
         /\ push' \in [Slots -> Batch]
         /\ \A j \in Slots \ {i} : push'[j] = push[j]
         /\ push'[i].items = push[i].items /\ push'[i].todo = push[i].todo \ {m}
         /\ push'[i].results = push[i].results \cup {[id |-> m.id, outcome |-> o]}
<1> DEFINE b   == push[i]
           new == [b EXCEPT !.todo = @ \ {m}, !.results = @ \cup {[id |-> m.id, outcome |-> o]}]
<1>1. push \in [Slots -> Batch] /\ b \in Batch /\ b.todo \subseteq b.items
  BY DEF Typed, TypeOK
<1>2. m \in Envelope /\ m \in b.items
  BY <1>1 DEF Batch
<1>3. [id |-> m.id, outcome |-> o] \in Result
  BY <1>2 DEF Result, Envelope
<1>4. new \in Batch /\ new.items = b.items /\ new.todo = b.todo \ {m}
      /\ new.results = b.results \cup {[id |-> m.id, outcome |-> o]}
  BY <1>1, <1>3 DEF Batch
<1>5. push' = [push EXCEPT ![i] = new]
  BY DEF PushStep
<1> HIDE DEF new
<1> QED BY <1>1, <1>2, <1>4, <1>5

QueueOK(q) == DOMAIN q \subseteq Cmds /\ q \in [DOMAIN q -> Queued]

\* The commands that are not spent, one attempt further.
LEMMA FlushQueue ==
  ASSUME Typed, NEW t \in Tabs, NEW i \in Slots, Flush(t, i)
  PROVE  /\ QueueOK(queue') /\ DOMAIN queue' \subseteq DOMAIN queue
         /\ \A id \in DOMAIN queue' : queue'[id].what = queue[id].what
         /\ push' \in [Slots -> Batch]
         /\ \A j \in Slots \ {i} : push'[j] = push[j]
         /\ \/ push' = push
            \/ /\ push'[i].results = {} /\ push'[i].todo = push'[i].items
               /\ \A m \in push'[i].items : m.id \in DOMAIN queue /\ m.what = queue[m.id].what
         /\ \A id \in DOMAIN queue : id \in DOMAIN queue' \/ queue[id].what \in settled'
         /\ settled \subseteq settled' /\ settled' \subseteq Cmds
<1> DEFINE dead  == {id \in DOMAIN queue : queue[id].retries >= MaxRetries}
           alive == DOMAIN queue \ dead
           items == {[id |-> id, what |-> queue[id].what] : id \in alive}
           New(id) == [queue[id] EXCEPT !.retries = @ + 1]
           batch == [tab |-> t, todo |-> items, items |-> items, results |-> {}]
<1>1. /\ queue \in [DOMAIN queue -> Queued] /\ DOMAIN queue \subseteq Cmds
      /\ push \in [Slots -> Batch] /\ settled \subseteq Cmds /\ MaxRetries \in Nat
  BY BoundsAssumption DEF Typed, TypeOK, Queued
<1>2. /\ queue' = [id \in alive |-> New(id)]
      /\ push' = IF alive = {} THEN push ELSE [push EXCEPT ![i] = batch]
      /\ settled' = settled \cup {queue[id].what : id \in dead}
  BY DEF Flush
<1>3. ASSUME NEW id \in alive
      PROVE  New(id) \in Queued /\ New(id).what = queue[id].what
  <2>1. queue[id] \in Queued /\ ~(queue[id].retries >= MaxRetries)
    BY <1>1
  <2> QED BY <1>1, <2>1 DEF Queued
<1>4. items \subseteq Envelope /\ \A m \in items : m.id \in DOMAIN queue /\ m.what = queue[m.id].what
  <2>1. \A id \in DOMAIN queue : queue[id].what \in Cmds /\ id \in Cmds
    BY <1>1 DEF Queued
  <2> QED BY <2>1 DEF Envelope
<1>5. batch \in Batch
  <2> HIDE DEF items
  <2> QED BY <1>4 DEF Batch
<1>6. \A id \in DOMAIN queue : queue[id].what \in Cmds
  BY <1>1 DEF Queued
<1> HIDE DEF items
<1>7. /\ push' \in [Slots -> Batch]
      /\ \A j \in Slots \ {i} : push'[j] = push[j]
      /\ push' = push \/ push'[i] = batch
  BY <1>1, <1>2, <1>5
<1>8. /\ queue' \in [alive -> Queued] /\ DOMAIN queue' = alive
      /\ \A id \in DOMAIN queue' : queue'[id].what = queue[id].what
  <2> HIDE DEF New, dead
  <2> QED BY <1>2, <1>3
<1>9. /\ settled \subseteq settled' /\ settled' \subseteq Cmds
      /\ \A id \in dead : queue[id].what \in settled'
  BY <1>1, <1>2, <1>6
<1>10. QueueOK(queue')
  <2> HIDE DEF dead
  <2> QED BY <1>1, <1>8 DEF QueueOK
<1> QED BY <1>4, <1>7, <1>8, <1>9, <1>10

LEMMA WithoutTyped ==
  ASSUME Typed, NEW D
  PROVE  /\ QueueOK(Without(D))
         /\ DOMAIN Without(D) = DOMAIN queue \ D
         /\ \A x \in DOMAIN queue \ D : Without(D)[x] = queue[x]
<1>1. queue \in [DOMAIN queue -> Queued] /\ DOMAIN queue \subseteq Cmds
  BY DEF Typed, TypeOK, Queued
<1>2. Without(D) = [x \in DOMAIN queue \ D |-> queue[x]]
  BY DEF Without
<1>3. Without(D) \in [DOMAIN queue \ D -> Queued] /\ DOMAIN Without(D) = DOMAIN queue \ D
  BY <1>1, <1>2
<1>4. \A x \in DOMAIN queue \ D : Without(D)[x] = queue[x]
  BY <1>2
<1> HIDE DEF Without
<1> QED BY <1>1, <1>3, <1>4 DEF QueueOK

LEMMA AddTyped ==
  ASSUME Typed, NEW id \in Cmds, NEW c \in Cmds
  PROVE  /\ QueueOK(Add(id, c))
         /\ DOMAIN Add(id, c) = DOMAIN queue \cup {id}
         /\ \A x \in DOMAIN queue : Add(id, c)[x] = queue[x]
         /\ id \notin DOMAIN queue => Add(id, c)[id].what = c
<1>1. queue \in [DOMAIN queue -> Queued] /\ DOMAIN queue \subseteq Cmds
  BY DEF Typed, TypeOK, Queued
<1>2. [what |-> c, retries |-> 0] \in Queued
  BY BoundsAssumption DEF Queued
<1>3. Add(id, c) = [x \in DOMAIN queue \cup {id} |->
                      IF x \in DOMAIN queue THEN queue[x] ELSE [what |-> c, retries |-> 0]]
  BY DEF Add
<1>4. Add(id, c) \in [DOMAIN queue \cup {id} -> Queued] /\ DOMAIN Add(id, c) = DOMAIN queue \cup {id}
  <2> HIDE DEF Queued
  <2> QED BY <1>1, <1>2, <1>3
<1>5. \A x \in DOMAIN queue : Add(id, c)[x] = queue[x]
  BY <1>3
<1>6. id \notin DOMAIN queue => Add(id, c)[id].what = c
  BY <1>3
<1> HIDE DEF Add
<1> QED BY <1>1, <1>4, <1>5, <1>6 DEF QueueOK

\* A batch is left alone, forgotten, or goes on without its tab.
LeftOver(i) == /\ push'[i] \in Batch
               /\ push'[i].todo \subseteq push'[i].items
               /\ push'[i].items \in {push[i].items, {}}
               /\ push'[i].results \in {push[i].results, {}}

LEMMA LeftOverFrom ==
  ASSUME Typed, push' = [j \in Slots |-> push'[j]],
         \A j \in Slots : push'[j] \in {push[j], NoBatch, [push[j] EXCEPT !.tab = NoCmd]}
  PROVE  push' \in [Slots -> Batch] /\ \A j \in Slots : LeftOver(j)
<1>1. push \in [Slots -> Batch] /\ \A j \in Slots : push[j].todo \subseteq push[j].items
  BY DEF Typed, TypeOK
<1>2. ASSUME NEW j \in Slots
      PROVE  /\ [push[j] EXCEPT !.tab = NoCmd] \in Batch
             /\ [push[j] EXCEPT !.tab = NoCmd].todo = push[j].todo
             /\ [push[j] EXCEPT !.tab = NoCmd].items = push[j].items
             /\ [push[j] EXCEPT !.tab = NoCmd].results = push[j].results
  BY <1>1 DEF Batch
<1>3. NoBatch \in Batch /\ NoBatch.todo = {} /\ NoBatch.items = {} /\ NoBatch.results = {}
  BY DEF NoBatch, Batch
<1>4. \A j \in Slots : LeftOver(j)
  BY <1>1, <1>2, <1>3 DEF LeftOver
<1> QED BY <1>4 DEF LeftOver

LEMMA RepliedBatches ==
  ASSUME Typed, NEW i \in Slots, PushReply(i)
  PROVE  push' \in [Slots -> Batch] /\ \A j \in Slots : LeftOver(j)
<1>1. push \in [Slots -> Batch] /\ push' = [push EXCEPT ![i] = NoBatch]
  BY DEF Typed, PushReply
<1> QED BY <1>1, LeftOverFrom

LEMMA FailedBatches ==
  ASSUME Typed, NEW i \in Slots, PushFails(i)
  PROVE  push' \in [Slots -> Batch] /\ \A j \in Slots : LeftOver(j)
<1>1. /\ push \in [Slots -> Batch]
      /\ \/ push' = [push EXCEPT ![i] = NoBatch]
         \/ push' = [push EXCEPT ![i] = [push[i] EXCEPT !.tab = NoCmd]]
  BY DEF Typed, PushFails
<1> QED BY <1>1, LeftOverFrom

LEMMA ReloadedBatches ==
  ASSUME Typed, NEW t \in Tabs, Reload(t)
  PROVE  push' \in [Slots -> Batch] /\ \A j \in Slots : LeftOver(j)
<1>1. push' = [j \in Slots |-> IF push[j].tab # t THEN push[j]
                               ELSE IF push[j].todo = {} THEN NoBatch
                               ELSE [push[j] EXCEPT !.tab = NoCmd]]
  BY DEF Reload
<1> QED BY <1>1, LeftOverFrom

LEMMA DispatchSettles ==
  ASSUME Typed, NEW id, NEW c \in Cmds, NEW o \in Outcomes, Dispatch(id, c, o)
  PROVE  /\ executed \subseteq executed' /\ settled \subseteq settled'
         /\ executed' \subseteq settled' /\ settled' \subseteq Cmds
         /\ o = "ok" => c \in executed'
         /\ o # "transient" => c \in settled'
BY DEF Dispatch, Typed, TypeOK

-----------------------------------------------------------------------------
(* Types.                                                                   *)

LEMMA TypedInit == Init => Typed
<1> SUFFICES ASSUME Init PROVE Typed
  OBVIOUS
<1>1. Blank \in RowRec /\ NoBatch \in Batch /\ NoBatch.todo = {} /\ NoBatch.items = {}
  BY DEF Blank, RowRec, NoBatch, Batch
<1>2. /\ row \in [Tabs -> [Rows -> RowRec]] /\ push \in [Slots -> Batch]
      /\ \A i \in Slots : push[i].todo \subseteq push[i].items
  <2> HIDE DEF RowRec, Batch, Blank, NoBatch
  <2> QED BY <1>1 DEF Init
<1>3. acks \in [Tabs -> Seq(Ack)] /\ \A t \in Tabs : Len(acks[t]) <= MaxAcks
  BY BoundsAssumption DEF Init
<1>4. DOMAIN queue = {}
  BY DEF Init
<1>5. queue \in [DOMAIN queue -> Queued]
  BY <1>4 DEF Init
<1>6. /\ direct \in [Cmds -> {"new", "sent", "adrift", "ok", "error", "done"}]
      /\ home \in [Cmds -> Tabs \cup {NoCmd}]
      /\ \A c \in Cmds : ~Waiting(c)
  BY DEF Init, Waiting
<1>7. hook \in BOOLEAN /\ executed \subseteq settled /\ settled \subseteq Cmds
  BY HooksAssumption DEF Init
<1> QED BY <1>2, <1>3, <1>4, <1>5, <1>6, <1>7 DEF Typed, TypeOK, RowRec, Queued

LEMMA TypedStep == Typed /\ [Next]_vars => Typed'
<1> SUFFICES ASSUME Typed, [Next]_vars PROVE Typed'
  OBVIOUS
<1>1. /\ hook \in BOOLEAN
      /\ direct \in [Cmds -> {"new", "sent", "adrift", "ok", "error", "done"}]
      /\ home \in [Cmds -> Tabs \cup {NoCmd}]
      /\ row \in [Tabs -> [Rows -> RowRec]]
      /\ QueueOK(queue)
      /\ push \in [Slots -> Batch] /\ \A i \in Slots : push[i].todo \subseteq push[i].items
      /\ acks \in [Tabs -> Seq(Ack)] /\ \A t \in Tabs : Len(acks[t]) <= MaxAcks
      /\ executed \subseteq settled /\ settled \subseteq Cmds
      /\ \A c \in Cmds : Waiting(c) => home[c] \in Tabs
  BY DEF Typed, TypeOK, RowRec, Queued, QueueOK
\* The shape of the state after the step, from its parts.
<1>q. ASSUME hook' = hook,
             direct' \in [Cmds -> {"new", "sent", "adrift", "ok", "error", "done"}],
             home' \in [Cmds -> Tabs \cup {NoCmd}],
             \A c \in Cmds : Waiting(c)' => home'[c] \in Tabs,
             row' \in [Tabs -> [Rows -> RowRec]],
             QueueOK(queue'),
             push' \in [Slots -> Batch], \A i \in Slots : push'[i].todo \subseteq push'[i].items,
             acks' \in [Tabs -> Seq(Ack)], \A t \in Tabs : Len(acks'[t]) <= MaxAcks,
             executed' \subseteq settled', settled' \subseteq Cmds
      PROVE  Typed'
  BY <1>1, <1>q DEF Typed, TypeOK, RowRec, Queued, QueueOK
<1>2. ASSUME NEW t \in Tabs, NEW c \in Cmds, Submit(t, c) PROVE Typed'
  <2>1. /\ direct' = [direct EXCEPT ![c] = "sent"] /\ home' = [home EXCEPT ![c] = t]
        /\ UNCHANGED <<hook, queue, push, acks, executed, settled>>
    BY <1>2 DEF Submit
  <2>2. row' \in [Tabs -> [Rows -> RowRec]]
    BY <1>2, SubmitRows
  <2>3. /\ direct' \in [Cmds -> {"new", "sent", "adrift", "ok", "error", "done"}]
        /\ home' \in [Cmds -> Tabs \cup {NoCmd}]
        /\ \A d \in Cmds : Waiting(d)' => home'[d] \in Tabs
    BY <1>1, <2>1 DEF Waiting, Abandoned
  <2> QED BY <1>1, <1>q, <2>1, <2>2, <2>3
\* A step that ends some requests and starts none.
<1>d. ASSUME direct' \in [Cmds -> {"new", "sent", "adrift", "ok", "error", "done"}], home' = home,
             \A d \in Cmds : direct'[d] \in {direct[d], "adrift", "done"} \/ Waiting(d)
      PROVE  \A d \in Cmds : Waiting(d)' => home'[d] \in Tabs
  BY <1>1, <1>d DEF Waiting
<1>3. ASSUME NEW c \in Cmds, NEW o \in Outcomes, Serve(c, o) PROVE Typed'
  <2>1. /\ direct[c] \in {"sent", "adrift"}
        /\ direct' = [direct EXCEPT ![c] = IF @ = "adrift" THEN "done"
                                           ELSE IF o = "ok" THEN "ok" ELSE "error"]
        /\ Dispatch(c, c, o) /\ UNCHANGED <<hook, home, row, queue, push>>
    BY <1>3 DEF Serve
  <2>2. /\ acks' \in [Tabs -> Seq(Ack)] /\ \A u \in Tabs : Len(acks'[u]) <= MaxAcks
    BY <2>1, BroadcastAcks DEF Dispatch
  <2>3. executed' \subseteq settled' /\ settled' \subseteq Cmds
    BY <2>1, DispatchSettles
  <2>4. /\ direct' \in [Cmds -> {"new", "sent", "adrift", "ok", "error", "done"}]
        /\ \A d \in Cmds : direct'[d] \in {direct[d], "adrift", "done"} \/ Waiting(d)
    BY <1>1, <2>1 DEF Waiting, Abandoned
  <2> QED BY <1>1, <1>d, <1>q, <2>1, <2>2, <2>3, <2>4
<1>4. ASSUME NEW c \in Cmds, Respond(c) PROVE Typed'
  <2>1. /\ direct' = [direct EXCEPT ![c] = "done"] /\ settled' = settled \cup {c}
        /\ UNCHANGED <<hook, home, queue, push, acks, executed>>
    BY <1>4 DEF Respond
  <2>2. row' \in [Tabs -> [Rows -> RowRec]]
    BY <1>4, RespondRows
  <2>3. /\ direct' \in [Cmds -> {"new", "sent", "adrift", "ok", "error", "done"}]
        /\ \A d \in Cmds : direct'[d] \in {direct[d], "adrift", "done"} \/ Waiting(d)
    BY <1>1, <2>1 DEF Waiting, Abandoned
  <2>4. executed' \subseteq settled' /\ settled' \subseteq Cmds
    BY <1>1, <2>1
  <2> QED BY <1>1, <1>d, <1>q, <2>1, <2>2, <2>3, <2>4
<1>5. ASSUME NEW c \in Cmds, SendError(c) PROVE Typed'
  <2> DEFINE id == row[home[c]][RowOf[c]].id
  <2>1. /\ direct' = [direct EXCEPT ![c] = Abandoned(c)] /\ Waiting(c)
        /\ queue' = IF id = NoCmd THEN queue ELSE Add(id, c)
        /\ UNCHANGED <<hook, home, row, push, acks, executed, settled>>
    BY <1>5 DEF SendError, Waiting
  <2>2. id \in Cmds \cup {NoCmd}
    <3>1. home[c] \in Tabs /\ RowOf[c] \in Rows
      BY <1>1, <2>1, RowAssumption
    <3>2. row[home[c]][RowOf[c]] \in RowRec
      BY <1>1, <3>1
    <3> QED BY <3>2 DEF RowRec
  <2> HIDE DEF id
  <2>3. QueueOK(queue')
    <3>1. CASE id = NoCmd
      <4>1. queue' = queue
        BY <2>1, <3>1
      <4> QED BY <1>1, <4>1
    <3>2. CASE id \in Cmds
      <4>1. queue' = Add(id, c)
        BY <2>1, <3>2, RowAssumption
      <4>2. QueueOK(Add(id, c))
        BY <3>2, AddTyped
      <4> QED BY <4>1, <4>2
    <3> QED BY <2>2, <3>1, <3>2
  <2>4. /\ direct' \in [Cmds -> {"new", "sent", "adrift", "ok", "error", "done"}]
        /\ \A d \in Cmds : direct'[d] \in {direct[d], "adrift", "done"} \/ Waiting(d)
    BY <1>1, <2>1 DEF Waiting, Abandoned
  <2> QED BY <1>1, <1>d, <1>q, <2>1, <2>3, <2>4
<1>6. ASSUME NEW t \in Tabs, NEW i \in Slots, Flush(t, i) PROVE Typed'
  <2>1. UNCHANGED <<hook, direct, home, acks, executed>>
    BY <1>6 DEF Flush
  <2>2. row' \in [Tabs -> [Rows -> RowRec]]
    BY <1>6, FlushRows
  <2>3. /\ QueueOK(queue')
        /\ push' \in [Slots -> Batch] /\ \A j \in Slots \ {i} : push'[j] = push[j]
        /\ push' = push \/ push'[i].todo = push'[i].items
        /\ settled \subseteq settled' /\ settled' \subseteq Cmds
    BY <1>6, FlushQueue
  <2>4. \A j \in Slots : push'[j].todo \subseteq push'[j].items
    BY <1>1, <2>3
  <2> QED BY <1>1, <1>q, <2>1, <2>2, <2>3, <2>4 DEF Waiting
\* A step that at most takes commands out of the queue.
<1>w. ASSUME queue' = queue \/ \E D : queue' = Without(D)
      PROVE  QueueOK(queue')
  <2>1. CASE queue' = queue
    BY <1>1, <2>1
  <2>2. ASSUME NEW D, queue' = Without(D)
        PROVE  QueueOK(queue')
    <3>1. QueueOK(Without(D))
      BY WithoutTyped
    <3> QED BY <2>2, <3>1
  <2> QED BY <1>w, <2>1, <2>2
<1>7. ASSUME NEW i \in Slots, PushReply(i) PROVE Typed'
  <2>1. /\ UNCHANGED <<hook, direct, home, acks, executed, settled>>
        /\ queue' = queue \/ \E D : queue' = Without(D)
    BY <1>7 DEF PushReply
  <2>2. row' \in [Tabs -> [Rows -> RowRec]]
    BY <1>7, PushReplyRows
  <2>3. push' \in [Slots -> Batch] /\ \A j \in Slots : push'[j].todo \subseteq push'[j].items
    BY <1>7, RepliedBatches DEF LeftOver
  <2>4. QueueOK(queue')
    BY <1>w, <2>1
  <2> QED BY <1>1, <1>q, <2>1, <2>2, <2>3, <2>4 DEF Waiting
<1>8. ASSUME NEW i \in Slots, PushFails(i) PROVE Typed'
  <2>1. UNCHANGED <<hook, direct, home, row, queue, acks, executed, settled>>
    BY <1>8 DEF PushFails
  <2>2. push' \in [Slots -> Batch] /\ \A j \in Slots : push'[j].todo \subseteq push'[j].items
    BY <1>8, FailedBatches DEF LeftOver
  <2> QED BY <1>1, <1>q, <2>1, <2>2 DEF Waiting
<1>9. ASSUME NEW i \in Slots, NEW o \in Outcomes, NEW m \in push[i].todo, PushStep(i, m, o)
      PROVE  Typed'
  <2>1. /\ m \in Envelope /\ push' \in [Slots -> Batch]
        /\ \A j \in Slots \ {i} : push'[j] = push[j]
        /\ push'[i].items = push[i].items /\ push'[i].todo = push[i].todo \ {m}
    BY <1>9, PushStepBatch
  <2>2. \A j \in Slots : push'[j].todo \subseteq push'[j].items
    BY <1>1, <2>1
  <2>3. m.id \in Cmds /\ m.what \in Cmds
    BY <2>1 DEF Envelope
  <2>4. UNCHANGED <<hook, direct, home, row, queue>>
    BY <1>9 DEF PushStep
  <2>5. CASE Dispatch(m.id, m.what, o)
    <3>1. /\ acks' \in [Tabs -> Seq(Ack)] /\ \A u \in Tabs : Len(acks'[u]) <= MaxAcks
      BY <2>3, <2>5, BroadcastAcks DEF Dispatch
    <3>2. executed' \subseteq settled' /\ settled' \subseteq Cmds
      BY <2>3, <2>5, DispatchSettles
    <3> QED BY <1>1, <1>q, <2>1, <2>2, <2>4, <3>1, <3>2 DEF Waiting
  <2>6. CASE /\ settled' = IF o = "refused" THEN settled \cup {m.what} ELSE settled
             /\ UNCHANGED <<acks, executed>>
    <3>1. executed' \subseteq settled' /\ settled' \subseteq Cmds
      BY <1>1, <2>3, <2>6
    <3> QED BY <1>1, <1>q, <2>1, <2>2, <2>4, <2>6, <3>1 DEF Waiting
  <2> QED BY <1>9, <2>5, <2>6 DEF PushStep
<1>10. ASSUME NEW t \in Tabs, AckArrives(t) PROVE Typed'
  <2>1. /\ UNCHANGED <<hook, direct, home, push, executed, settled>>
        /\ acks' = [acks EXCEPT ![t] = Tail(acks[t])]
        /\ queue' = queue \/ \E D : queue' = Without(D)
    BY <1>10 DEF AckArrives
  <2>2. row' \in [Tabs -> [Rows -> RowRec]] /\ acks[t] # <<>>
    BY <1>10, AckArrivesRows
  <2>3. acks' \in [Tabs -> Seq(Ack)] /\ \A u \in Tabs : Len(acks'[u]) <= MaxAcks
    <3>1. acks[t] \in Seq(Ack) /\ Len(acks[t]) <= MaxAcks /\ MaxAcks \in Nat
      BY <1>1, BoundsAssumption
    <3>2. Tail(acks[t]) \in Seq(Ack) /\ Len(Tail(acks[t])) <= MaxAcks
      BY <2>2, <3>1
    <3> QED BY <1>1, <2>1, <3>2
  <2>4. QueueOK(queue')
    BY <1>w, <2>1
  <2> QED BY <1>1, <1>q, <2>1, <2>2, <2>3, <2>4 DEF Waiting
<1>11. ASSUME NEW t \in Tabs, Reload(t) PROVE Typed'
  <2> DEFINE waiting == {c \in Cmds : home[c] = t /\ direct[c] \in {"sent", "ok", "error"}}
  <2>1. /\ UNCHANGED <<hook, home, queue, executed>>
        /\ acks' = [acks EXCEPT ![t] = <<>>]
        /\ direct' = [c \in Cmds |-> IF c \in waiting THEN Abandoned(c) ELSE direct[c]]
        /\ settled' = settled \cup waiting
    BY <1>11 DEF Reload
  <2>2. row' \in [Tabs -> [Rows -> RowRec]]
    BY <1>11, ReloadRows
  <2>3. push' \in [Slots -> Batch] /\ \A j \in Slots : push'[j].todo \subseteq push'[j].items
    BY <1>11, ReloadedBatches DEF LeftOver
  <2>4. acks' \in [Tabs -> Seq(Ack)] /\ \A u \in Tabs : Len(acks'[u]) <= MaxAcks
    <3>1. <<>> \in Seq(Ack) /\ Len(<<>>) <= MaxAcks
      BY BoundsAssumption
    <3> QED BY <1>1, <2>1, <3>1
  <2>5. executed' \subseteq settled' /\ settled' \subseteq Cmds
    BY <1>1, <2>1
  <2>6. /\ direct' \in [Cmds -> {"new", "sent", "adrift", "ok", "error", "done"}]
        /\ \A d \in Cmds : direct'[d] \in {direct[d], "adrift", "done"} \/ Waiting(d)
    <3> HIDE DEF waiting
    <3> QED BY <1>1, <2>1 DEF Abandoned
  <2> QED BY <1>1, <1>d, <1>q, <2>1, <2>2, <2>3, <2>4, <2>5, <2>6
<1>12. CASE UNCHANGED vars
  BY <1>1, <1>12, <1>q DEF vars, Waiting
<1> QED BY <1>2, <1>3, <1>4, <1>5, <1>6, <1>7, <1>8, <1>9, <1>10, <1>11, <1>12 DEF Next

-----------------------------------------------------------------------------
(* An id stands for one command, on rows of their own.                      *)

LEMMA SameIdStep ==
  ASSUME OwnRows, Typed, Typed', SameId, [Next]_vars
  PROVE  SameId'
<1>1. /\ row \in [Tabs -> [Rows -> RowRec]] /\ DOMAIN queue \subseteq Cmds
      /\ \A t \in Tabs, r \in Rows : row[t][r].id \in Cmds => RowOf[row[t][r].id] = r
      /\ \A id \in DOMAIN queue : queue[id].what = id
      /\ \A i \in Slots : \A m \in push[i].items : m.what = m.id
  BY DEF Typed, TypeOK, RowRec, SameId
<1>q. ASSUME \A u \in Tabs, r \in Rows :
               row'[u][r].id \in Cmds => RowOf[row'[u][r].id] = r,
             \A id \in DOMAIN queue' : queue'[id].what = id,
             \A j \in Slots : \A m \in push'[j].items : m.what = m.id
      PROVE  SameId'
  BY <1>q DEF SameId
\* Rows that keep their ids.
<1>r. ASSUME \A u \in Tabs, r \in Rows : row'[u][r].id = row[u][r].id
      PROVE  \A u \in Tabs, r \in Rows : row'[u][r].id \in Cmds => RowOf[row'[u][r].id] = r
  BY <1>1, <1>r
\* A step that at most takes commands out of the queue.
<1>w. ASSUME queue' = queue \/ \E D : queue' = Without(D)
      PROVE  \A id \in DOMAIN queue' : queue'[id].what = id
  <2>1. ASSUME NEW D, queue' = Without(D)
        PROVE  \A id \in DOMAIN queue' : queue'[id].what = id
    <3>1. /\ DOMAIN Without(D) = DOMAIN queue \ D
          /\ \A x \in DOMAIN queue \ D : Without(D)[x] = queue[x]
      BY WithoutTyped
    <3> QED BY <1>1, <2>1, <3>1
  <2> QED BY <1>1, <1>w, <2>1
<1>2. ASSUME NEW t \in Tabs, NEW c \in Cmds, Submit(t, c) PROVE SameId'
  <2>1. UNCHANGED <<queue, push>>
    BY <1>2 DEF Submit
  <2>2. \A u \in Tabs, r \in Rows : row'[u][r].id \in Cmds => RowOf[row'[u][r].id] = r
    <3>1. \A u \in Tabs, r \in Rows :
              row'[u][r] = IF u = t /\ r = RowOf[c] THEN [id |-> c, state |-> "pending"]
                           ELSE row[u][r]
      BY <1>2, SubmitRows
    <3>2. [id |-> c, state |-> "pending"].id = c
      OBVIOUS
    <3> QED BY <1>1, <3>1, <3>2
  <2> QED BY <1>1, <1>q, <2>1, <2>2
<1>3. ASSUME NEW c \in Cmds, NEW o \in Outcomes, Serve(c, o) PROVE SameId'
  BY <1>1, <1>3, <1>q DEF Serve
<1>4. ASSUME NEW c \in Cmds, Respond(c) PROVE SameId'
  <2>1. UNCHANGED <<queue, push>>
    BY <1>4 DEF Respond
  <2> QED BY <1>1, <1>4, <1>q, <1>r, <2>1, RespondRows
<1>5. ASSUME NEW c \in Cmds, SendError(c) PROVE SameId'
  <2> DEFINE id == row[home[c]][RowOf[c]].id
  <2>1. UNCHANGED <<row, push>> /\ queue' = IF id = NoCmd THEN queue ELSE Add(id, c)
    BY <1>5 DEF SendError
  <2>2. home[c] \in Tabs /\ RowOf[c] \in Rows
    BY <1>5, RowAssumption DEF SendError, Typed, Waiting
  <2>3. id \in Cmds \cup {NoCmd} /\ (id \in Cmds => RowOf[id] = RowOf[c])
    <3>1. row[home[c]][RowOf[c]] \in RowRec
      BY <1>1, <2>2
    <3> QED BY <1>1, <2>2, <3>1 DEF RowRec
  <2> HIDE DEF id
  <2>4. \A x \in DOMAIN queue' : queue'[x].what = x
    <3>1. CASE id = NoCmd
      BY <1>1, <2>1, <3>1
    <3>2. CASE id \in Cmds
      <4>1. queue' = Add(id, c) /\ id = c
        BY <2>1, <2>3, <3>2, RowAssumption DEF OwnRows
      <4>2. \A x \in DOMAIN queue \cup {id} : Add(id, c)[x].what = x
        <5>1. /\ \A x \in DOMAIN queue : Add(id, c)[x] = queue[x]
              /\ id \notin DOMAIN queue => Add(id, c)[id].what = c
          BY <3>2, AddTyped
        <5> QED BY <1>1, <4>1, <5>1
      <4>3. DOMAIN Add(id, c) = DOMAIN queue \cup {id}
        BY <3>2, AddTyped
      <4> QED BY <4>1, <4>2, <4>3
    <3> QED BY <2>3, <3>1, <3>2
  <2> QED BY <1>1, <1>q, <2>1, <2>4
<1>6. ASSUME NEW t \in Tabs, NEW i \in Slots, Flush(t, i) PROVE SameId'
  <2>1. \A u \in Tabs, r \in Rows : row'[u][r].id = row[u][r].id
    BY <1>6, FlushRows
  <2>2. /\ DOMAIN queue' \subseteq DOMAIN queue
        /\ \A id \in DOMAIN queue' : queue'[id].what = queue[id].what
        /\ \A j \in Slots \ {i} : push'[j] = push[j]
        /\ \/ push' = push
           \/ \A m \in push'[i].items : m.id \in DOMAIN queue /\ m.what = queue[m.id].what
    BY <1>6, FlushQueue
  <2>3. \A id \in DOMAIN queue' : queue'[id].what = id
    BY <1>1, <2>2
  <2>4. \A j \in Slots : \A m \in push'[j].items : m.what = m.id
    BY <1>1, <2>2
  <2> QED BY <1>q, <1>r, <2>1, <2>3, <2>4
\* Batches that are only left or dropped.
<1>b. ASSUME \A j \in Slots : LeftOver(j)
      PROVE  \A j \in Slots : \A m \in push'[j].items : m.what = m.id
  BY <1>1, <1>b DEF LeftOver
<1>7. ASSUME NEW i \in Slots, PushReply(i) PROVE SameId'
  <2>1. \A u \in Tabs, r \in Rows : row'[u][r].id = row[u][r].id
    BY <1>7, PushReplyRows
  <2>2. queue' = queue \/ \E D : queue' = Without(D)
    BY <1>7 DEF PushReply
  <2>3. \A j \in Slots : LeftOver(j)
    BY <1>7, RepliedBatches
  <2> QED BY <1>b, <1>q, <1>r, <1>w, <2>1, <2>2, <2>3
<1>8. ASSUME NEW i \in Slots, PushFails(i) PROVE SameId'
  <2>1. UNCHANGED <<row, queue>>
    BY <1>8 DEF PushFails
  <2>2. \A j \in Slots : LeftOver(j)
    BY <1>8, FailedBatches
  <2> QED BY <1>1, <1>b, <1>q, <2>1, <2>2
<1>9. ASSUME NEW i \in Slots, NEW o \in Outcomes, NEW m \in push[i].todo, PushStep(i, m, o)
      PROVE  SameId'
  <2>1. UNCHANGED <<row, queue>>
    BY <1>9 DEF PushStep
  <2>2. /\ \A j \in Slots \ {i} : push'[j] = push[j] 
        /\ push'[i].items = push[i].items
    BY <1>9, PushStepBatch
  <2> QED BY <1>1, <1>q, <2>1, <2>2
<1>10. ASSUME NEW t \in Tabs, AckArrives(t) PROVE SameId'
  <2>1. push' = push /\ (queue' = queue \/ \E D : queue' = Without(D))
    BY <1>10 DEF AckArrives
  <2>2. \A u \in Tabs, r \in Rows : row'[u][r].id = row[u][r].id
    BY <1>10, AckArrivesRows
  <2> QED BY <1>1, <1>q, <1>r, <1>w, <2>1, <2>2
<1>11. ASSUME NEW t \in Tabs, Reload(t) PROVE SameId'
  <2>1. queue' = queue
    BY <1>11 DEF Reload
  <2>2. \A j \in Slots : LeftOver(j)
    BY <1>11, ReloadedBatches
  <2>3. \A u \in Tabs, r \in Rows : row'[u][r] = IF u = t THEN Blank ELSE row[u][r]
    BY <1>11, ReloadRows
  <2>4. Blank.id \notin Cmds
    BY RowAssumption DEF Blank
  <2>5. \A u \in Tabs, r \in Rows : row'[u][r].id \in Cmds => RowOf[row'[u][r].id] = r
    BY <1>1, <2>3, <2>4
  <2> QED BY <1>1, <1>b, <1>q, <2>1, <2>2, <2>5
<1>12. CASE UNCHANGED vars
  BY <1>1, <1>12, <1>q DEF vars
<1> QED BY <1>2, <1>3, <1>4, <1>5, <1>6, <1>7, <1>8, <1>9, <1>10, <1>11, <1>12 DEF Next

-----------------------------------------------------------------------------
(* A confirmation is one of an executed command.                            *)

LEMMA HonestStep ==
  ASSUME Typed, Typed', SameId, Honest, [Next]_vars
  PROVE  Honest'
<1>1. /\ \A t \in Tabs, r \in Rows : row[t][r].state = "confirmed" => row[t][r].id \in executed
      /\ \A i \in Slots : \A x \in push[i].results : x.outcome = "ok" => x.id \in executed
      /\ \A t \in Tabs : \A k \in DOMAIN acks[t] :
           acks[t][k].status = "confirmed" => acks[t][k].id \in executed
  BY DEF Honest
<1>q. ASSUME executed \subseteq executed',
             \A u \in Tabs, r \in Rows : row'[u][r].state = "confirmed" => row'[u][r].id \in executed',
             \A j \in Slots : \A x \in push'[j].results : x.outcome = "ok" => x.id \in executed',
             \A u \in Tabs : \A k \in DOMAIN acks'[u] :
               acks'[u][k].status = "confirmed" => acks'[u][k].id \in executed'
      PROVE  Honest'
  BY <1>q DEF Honest
\* The dispatch of command c under its own id.
<1>e. ASSUME NEW c \in Cmds, NEW o \in Outcomes, Dispatch(c, c, o)
      PROVE  /\ executed \subseteq executed'
             /\ o = "ok" => c \in executed'
             /\ \A u \in Tabs : \A k \in DOMAIN acks'[u] :
                  acks'[u][k].status = "confirmed" => acks'[u][k].id \in executed'
  <2>1. executed \subseteq executed' /\ (o = "ok" => c \in executed')
    BY <1>e, DispatchSettles
  <2>2. \A u \in Tabs : \A k \in DOMAIN acks'[u] :
          (k \in DOMAIN acks[u] /\ acks'[u][k] = acks[u][k])
          \/ acks'[u][k] = [id |-> c, status |-> Status(o)]
    BY <1>e, BroadcastAcks DEF Dispatch
  <2>3. Status(o) = "confirmed" => o = "ok"
    BY DEF Status
  <2> QED BY <1>1, <2>1, <2>2, <2>3
<1>2. ASSUME NEW t \in Tabs, NEW c \in Cmds, Submit(t, c) PROVE Honest'
  <2>1. UNCHANGED <<push, acks, executed>>
    BY <1>2 DEF Submit
  <2>2. \A u \in Tabs, r \in Rows : row'[u][r].state = "confirmed" => row'[u][r].id \in executed
    <3>1. \A u \in Tabs, r \in Rows :
              row'[u][r] = IF u = t /\ r = RowOf[c] THEN [id |-> c, state |-> "pending"]
                           ELSE row[u][r]
      BY <1>2, SubmitRows
    <3>2. [id |-> c, state |-> "pending"].state # "confirmed"
      OBVIOUS
    <3> QED BY <1>1, <3>1, <3>2
  <2> QED BY <1>1, <1>q, <2>1, <2>2
<1>3. ASSUME NEW c \in Cmds, NEW o \in Outcomes, Serve(c, o) PROVE Honest'
  <2>1. UNCHANGED <<row, push>> /\ Dispatch(c, c, o)
    BY <1>3 DEF Serve
  <2>2. executed \subseteq executed'
    BY <1>e, <2>1
  <2>3. \A u \in Tabs : \A k \in DOMAIN acks'[u] :
               acks'[u][k].status = "confirmed" => acks'[u][k].id \in executed'
    BY <1>e, <2>1
  <2> QED BY <1>1, <1>q, <2>1, <2>2, <2>3
\* Rows that keep their ids and are at most rejected.
<1>r. ASSUME executed' = executed,
             \A u \in Tabs, r \in Rows :
               row'[u][r].id = row[u][r].id /\ row'[u][r].state \in {row[u][r].state, "rejected"}
      PROVE  \A u \in Tabs, r \in Rows : row'[u][r].state = "confirmed" => row'[u][r].id \in executed'
  BY <1>1, <1>r
<1>4. ASSUME NEW c \in Cmds, Respond(c) PROVE Honest'
  <2>1. UNCHANGED <<push, acks, executed>>
    BY <1>4 DEF Respond
  <2> QED BY <1>1, <1>4, <1>q, <1>r, <2>1, RespondRows
<1>5. ASSUME NEW c \in Cmds, SendError(c) PROVE Honest'
  BY <1>1, <1>5, <1>q DEF SendError
<1>6. ASSUME NEW t \in Tabs, NEW i \in Slots, Flush(t, i) PROVE Honest'
  <2>1. UNCHANGED <<acks, executed>>
    BY <1>6 DEF Flush
  <2>2. \A j \in Slots : push'[j].results \in {push[j].results, {}}
    BY <1>6, FlushQueue
  <2>3. \A u \in Tabs, r \in Rows :
          row'[u][r].id = row[u][r].id /\ row'[u][r].state \in {row[u][r].state, "rejected"}
    BY <1>6, FlushRows
  <2>4. \A j \in Slots : \A x \in push'[j].results : x.outcome = "ok" => x.id \in executed
    BY <1>1, <2>2
  <2> QED BY <1>1, <1>q, <1>r, <2>1, <2>3, <2>4
<1>b. ASSUME \A j \in Slots : LeftOver(j)
      PROVE  \A j \in Slots : \A x \in push'[j].results : x.outcome = "ok" => x.id \in executed
  BY <1>1, <1>b DEF LeftOver
<1>7. ASSUME NEW i \in Slots, PushReply(i) PROVE Honest'
  <2>1. UNCHANGED <<acks, executed>>
    BY <1>7 DEF PushReply
  <2>2. \A j \in Slots : LeftOver(j)
    BY <1>7, RepliedBatches
  <2>3. ASSUME NEW u \in Tabs, NEW r \in Rows, row'[u][r].state = "confirmed"
        PROVE  row'[u][r].id \in executed
    <3>1. row'[u][r].id = row[u][r].id
      BY <1>7, PushReplyRows
    <3>2. CASE row'[u][r].state = row[u][r].state
      BY <1>1, <2>3, <3>1, <3>2
    <3>3. ASSUME NEW x \in Final(push[i].results),
                 x.id = row[u][r].id, row'[u][r].state = Status(x.outcome)
          PROVE  row'[u][r].id \in executed
      <4>1. x \in push[i].results /\ x.outcome = "ok"
        BY <2>3, <3>3 DEF Final, Status
      <4> QED BY <1>1, <3>1, <3>3, <4>1
    <3> QED BY <1>7, <3>2, <3>3, PushReplyRows
  <2> QED BY <1>1, <1>b, <1>q, <2>1, <2>2, <2>3
<1>8. ASSUME NEW i \in Slots, PushFails(i) PROVE Honest'
  <2>1. UNCHANGED <<row, acks, executed>>
    BY <1>8 DEF PushFails
  <2>2. \A j \in Slots : LeftOver(j)
    BY <1>8, FailedBatches
  <2> QED BY <1>1, <1>b, <1>q, <2>1, <2>2
<1>9. ASSUME NEW i \in Slots, NEW o \in Outcomes, NEW m \in push[i].todo, PushStep(i, m, o)
      PROVE  Honest'
  <2>1. row' = row
    BY <1>9 DEF PushStep
  <2>2. /\ m \in Envelope /\ m \in push[i].items
        /\ \A j \in Slots \ {i} : push'[j] = push[j]
        /\ push'[i].results = push[i].results \cup {[id |-> m.id, outcome |-> o]}
    BY <1>9, PushStepBatch
  <2>3. m.id \in Cmds /\ m.what = m.id
    BY <2>2 DEF Envelope, SameId
  <2>4. ASSUME executed \subseteq executed', o = "ok" => m.id \in executed'
        PROVE  \A j \in Slots : \A x \in push'[j].results : x.outcome = "ok" => x.id \in executed'
    BY <1>1, <2>2, <2>4
  <2>5. CASE Dispatch(m.id, m.id, o)
    <3>1. /\ executed \subseteq executed' /\ (o = "ok" => m.id \in executed')
          /\ \A u \in Tabs : \A k \in DOMAIN acks'[u] :
                  acks'[u][k].status = "confirmed" => acks'[u][k].id \in executed'
      BY <1>e, <2>3, <2>5
    <3> QED BY <1>1, <1>q, <2>1, <2>4, <3>1
  <2>6. CASE o # "ok" /\ UNCHANGED <<acks, executed>>
    BY <1>1, <1>q, <2>1, <2>4, <2>6
  <2> QED BY <1>9, <2>3, <2>5, <2>6 DEF PushStep
<1>10. ASSUME NEW t \in Tabs, AckArrives(t) PROVE Honest'
  <2> DEFINE a == Head(acks[t])
  <2>1. UNCHANGED <<push, executed>> /\ acks' = [acks EXCEPT ![t] = Tail(acks[t])]
    BY <1>10 DEF AckArrives
  <2>2. acks \in [Tabs -> Seq(Ack)] /\ acks[t] # <<>> /\ a = acks[t][1]
    BY <1>10, AckArrivesRows DEF Typed
  <2>3. a.status = "confirmed" => a.id \in executed
    <3>1. 1 \in DOMAIN acks[t]
      BY <2>2
    <3> QED BY <1>1, <2>2, <3>1
  <2>4. \A u \in Tabs, r \in Rows : row'[u][r].state = "confirmed" => row'[u][r].id \in executed
    <3>1. \A u \in Tabs, r \in Rows :
              /\ row'[u][r].id = row[u][r].id
              /\ \/ row'[u][r].state = row[u][r].state
                 \/ row[u][r].id = a.id /\ row'[u][r].state = a.status
      BY <1>10, AckArrivesRows
    <3> QED BY <1>1, <2>3, <3>1
  <2>5. \A u \in Tabs : \A k \in DOMAIN acks'[u] :
          \E l \in DOMAIN acks[u] : acks'[u][k] = acks[u][l]
    <3>1. \A k \in DOMAIN Tail(acks[t]) : k + 1 \in DOMAIN acks[t] /\ Tail(acks[t])[k] = acks[t][k + 1]
      BY <2>2
    <3> QED BY <2>1, <2>2, <3>1
  <2>6. \A u \in Tabs : \A k \in DOMAIN acks'[u] :
               acks'[u][k].status = "confirmed" => acks'[u][k].id \in executed
    BY <1>1, <2>5
  <2> QED BY <1>1, <1>q, <2>1, <2>4, <2>6
<1>11. ASSUME NEW t \in Tabs, Reload(t) PROVE Honest'
  <2>1. executed' = executed /\ acks' = [acks EXCEPT ![t] = <<>>]
    BY <1>11 DEF Reload
  <2>2. \A j \in Slots : LeftOver(j)
    BY <1>11, ReloadedBatches
  <2>3. \A u \in Tabs, r \in Rows : row'[u][r] = IF u = t THEN Blank ELSE row[u][r]
    BY <1>11, ReloadRows
  <2>4. \A u \in Tabs, r \in Rows : row'[u][r].state = "confirmed" => row'[u][r].id \in executed
    <3>1. Blank.state # "confirmed"
      BY DEF Blank
    <3> QED BY <1>1, <2>3, <3>1
  <2>5. \A u \in Tabs : \A k \in DOMAIN acks'[u] :
               acks'[u][k].status = "confirmed" => acks'[u][k].id \in executed
    BY <1>1, <2>1 DEF Typed
  <2> QED BY <1>b, <1>q, <2>1, <2>2, <2>4, <2>5
<1>12. CASE UNCHANGED vars
  BY <1>1, <1>12, <1>q DEF vars
<1> QED BY <1>2, <1>3, <1>4, <1>5, <1>6, <1>7, <1>8, <1>9, <1>10, <1>11, <1>12 DEF Next

-----------------------------------------------------------------------------
(* A command is in the queue until its fate is known.                       *)

LEMMA HeldStep ==
  ASSUME OwnRows, Typed, Typed', SameId, Held, [Next]_vars
  PROVE  Held'
<1>1. /\ \A c \in Cmds : Waiting(c) => row[home[c]][RowOf[c]].id = c
      /\ \A i \in Slots : \A x \in push[i].results : x.outcome # "transient" => x.id \in settled
      /\ ~hook => \A t \in Tabs : acks[t] = <<>>
      /\ ~hook => \A c \in Cmds : Owed(c) => c \in DOMAIN queue
  BY DEF Held, Final
<1>2. /\ direct \in [Cmds -> {"new", "sent", "adrift", "ok", "error", "done"}]
      /\ home \in [Cmds -> Tabs \cup {NoCmd}]
      /\ \A c \in Cmds : Waiting(c) => home[c] \in Tabs
      /\ \A c \in Cmds : RowOf[c] \in Rows
      /\ acks \in [Tabs -> Seq(Ack)]
  BY RowAssumption DEF Typed, TypeOK
<1>q. ASSUME hook' = hook,
             \A c \in Cmds : Waiting(c)' => row'[home'[c]][RowOf[c]].id = c,
             \A j \in Slots : \A x \in push'[j].results : x.outcome # "transient" => x.id \in settled',
             ~hook => \A t \in Tabs : acks'[t] = <<>>,
             ~hook => \A c \in Cmds : Owed(c)' => c \in DOMAIN queue'
      PROVE  Held'
  BY <1>q DEF Held, Final
\* Requests that only end, on rows that keep their ids.
<1>r. ASSUME home' = home, \A d \in Cmds : Waiting(d)' => Waiting(d),
             \A u \in Tabs, r \in Rows : row'[u][r].id = row[u][r].id
      PROVE  \A c \in Cmds : Waiting(c)' => row'[home'[c]][RowOf[c]].id = c
  BY <1>1, <1>2, <1>r
\* What is owed was owed before, unless it is queued now.
<1>o. ASSUME settled \subseteq settled',
             ~hook => \A c \in DOMAIN queue : c \in DOMAIN queue' \/ c \in settled',
             \A d \in Cmds : direct'[d] \in Left => \/ direct[d] \in Left
                                                    \/ d \in settled' \cup DOMAIN queue'
      PROVE  ~hook => \A c \in Cmds : Owed(c)' => c \in DOMAIN queue'
  BY <1>1, <1>o DEF Owed, Left
<1>3. ASSUME NEW t \in Tabs, NEW c \in Cmds, Submit(t, c) PROVE Held'
  <2>1. /\ direct[c] = "new"
        /\ direct' = [direct EXCEPT ![c] = "sent"] /\ home' = [home EXCEPT ![c] = t]
        /\ UNCHANGED <<hook, queue, push, acks, executed, settled>>
    BY <1>3 DEF Submit
  <2>2. ASSUME NEW d \in Cmds, Waiting(d)' PROVE row'[home'[d]][RowOf[d]].id = d
    <3>1. \A u \in Tabs, r \in Rows :
              row'[u][r] = IF u = t /\ r = RowOf[c] THEN [id |-> c, state |-> "pending"]
                           ELSE row[u][r]
      BY <1>3, SubmitRows
    <3>2. CASE d = c
      <4>1. home'[d] = t /\ RowOf[d] = RowOf[c] /\ RowOf[c] \in Rows
        BY <1>2, <2>1, <3>2
      <4>2. row'[home'[d]][RowOf[d]] = [id |-> c, state |-> "pending"]
        BY <3>1, <4>1
      <4> QED BY <3>2, <4>2
    <3>3. CASE d # c
      <4>1. Waiting(d) /\ home'[d] = home[d] /\ home[d] \in Tabs
        BY <1>2, <2>1, <2>2, <3>3 DEF Waiting
      <4>2. RowOf[d] # RowOf[c]
        BY <3>3 DEF OwnRows
      <4>3. row'[home'[d]][RowOf[d]] = row[home[d]][RowOf[d]]
        BY <1>2, <3>1, <4>1, <4>2
      <4> QED BY <1>1, <4>1, <4>3
    <3> QED BY <3>2, <3>3
  <2>3. \A d \in Cmds : direct'[d] \in Left => direct[d] \in Left
    BY <1>2, <2>1 DEF Left
  <2>4. ~hook => \A d \in Cmds : Owed(d)' => d \in DOMAIN queue'
    BY <1>o, <2>1, <2>3
  <2> QED BY <1>1, <1>q, <2>1, <2>2, <2>4
<1>4. ASSUME NEW c \in Cmds, NEW o \in Outcomes, Serve(c, o) PROVE Held'
  <2>1. /\ direct[c] \in {"sent", "adrift"}
        /\ direct' = [direct EXCEPT ![c] = IF @ = "adrift" THEN "done"
                                           ELSE IF o = "ok" THEN "ok" ELSE "error"]
        /\ Dispatch(c, c, o) /\ UNCHANGED <<hook, home, row, queue, push>>
    BY <1>4 DEF Serve
  <2>2. settled \subseteq settled'
    BY <2>1, DispatchSettles
  <2>3. \A d \in Cmds : (Waiting(d)' => Waiting(d)) /\ (direct'[d] \in Left => direct[d] \in Left)
    BY <1>2, <2>1 DEF Waiting, Abandoned, Left
  <2>4. ~hook => \A u \in Tabs : acks'[u] = <<>>
    BY <1>1, <2>1, BroadcastAcks DEF Dispatch
  <2>5. \A d \in Cmds : Waiting(d)' => row'[home'[d]][RowOf[d]].id = d
    BY <1>r, <2>1, <2>3
  <2>6. ~hook => \A d \in Cmds : Owed(d)' => d \in DOMAIN queue'
    BY <1>o, <2>1, <2>2, <2>3
  <2> QED BY <1>1, <1>q, <2>1, <2>2, <2>4, <2>5, <2>6
<1>5. ASSUME NEW c \in Cmds, Respond(c) PROVE Held'
  <2>1. /\ direct' = [direct EXCEPT ![c] = "done"] /\ settled' = settled \cup {c}
        /\ UNCHANGED <<hook, home, queue, push, acks, executed>>
    BY <1>5 DEF Respond
  <2>2. \A u \in Tabs, r \in Rows : row'[u][r].id = row[u][r].id
    BY <1>5, RespondRows
  <2>3. \A d \in Cmds : /\ Waiting(d)' => Waiting(d)
                        /\ direct'[d] \in Left => direct[d] \in Left \/ d \in settled'
    BY <1>2, <2>1 DEF Waiting, Abandoned, Left
  <2>4. \A d \in Cmds : Waiting(d)' => row'[home'[d]][RowOf[d]].id = d
    BY <1>r, <2>1, <2>2, <2>3
  <2>5. ~hook => \A d \in Cmds : Owed(d)' => d \in DOMAIN queue'
    BY <1>o, <2>1, <2>3
  <2> QED BY <1>1, <1>q, <2>1, <2>4, <2>5
<1>6. ASSUME NEW c \in Cmds, SendError(c) PROVE Held'
  <2>1. /\ direct' = [direct EXCEPT ![c] = Abandoned(c)] /\ Waiting(c)
        /\ UNCHANGED <<hook, home, row, push, acks, executed, settled>>
    BY <1>6 DEF SendError, Waiting
  <2>2. row[home[c]][RowOf[c]].id = c
    BY <1>1, <2>1
  <2>3. queue' = Add(c, c)
    BY <1>6, <2>2, RowAssumption DEF SendError
  <2>4. DOMAIN queue' = DOMAIN queue \cup {c}
    BY <2>3, AddTyped
  <2>5. \A d \in Cmds : /\ Waiting(d)' => Waiting(d)
                        /\ direct'[d] \in Left => direct[d] \in Left \/ d \in DOMAIN queue'
    BY <1>2, <2>1, <2>4 DEF Waiting, Abandoned, Left
  <2>6. \A d \in Cmds : Waiting(d)' => row'[home'[d]][RowOf[d]].id = d
    BY <1>r, <2>1, <2>5
  <2>7. ~hook => \A d \in Cmds : Owed(d)' => d \in DOMAIN queue'
    BY <1>o, <2>1, <2>4, <2>5
  <2> QED BY <1>1, <1>q, <2>1, <2>6, <2>7
<1>7. ASSUME NEW t \in Tabs, NEW i \in Slots, Flush(t, i) PROVE Held'
  <2>1. UNCHANGED <<hook, direct, home, acks, executed>>
    BY <1>7 DEF Flush
  <2>2. \A u \in Tabs, r \in Rows : row'[u][r].id = row[u][r].id
    BY <1>7, FlushRows
  <2>3. /\ settled \subseteq settled'
        /\ \A id \in DOMAIN queue : id \in DOMAIN queue' \/ queue[id].what \in settled'
        /\ \A j \in Slots \ {i} : push'[j] = push[j]
        /\ push' = push \/ push'[i].results = {}
    BY <1>7, FlushQueue
  <2>4. \A j \in Slots : \A x \in push'[j].results : x.outcome # "transient" => x.id \in settled'
    BY <1>1, <2>3
  <2>5. \A id \in DOMAIN queue : id \in DOMAIN queue' \/ id \in settled'
    BY <2>3 DEF SameId
  <2>6. \A d \in Cmds : Waiting(d)' => row'[home'[d]][RowOf[d]].id = d
    BY <1>r, <2>1, <2>2 DEF Waiting
  <2>7. ~hook => \A d \in Cmds : Owed(d)' => d \in DOMAIN queue'
    BY <1>o, <2>1, <2>3, <2>5
  <2> QED BY <1>1, <1>q, <2>1, <2>4, <2>6, <2>7
<1>b. ASSUME settled \subseteq settled', \A j \in Slots : LeftOver(j)
      PROVE  \A j \in Slots : \A x \in push'[j].results : x.outcome # "transient" => x.id \in settled'
  BY <1>1, <1>b DEF LeftOver
<1>8. ASSUME NEW i \in Slots, PushReply(i) PROVE Held'
  <2> DEFINE gone == {x.id : x \in Final(push[i].results)}
  <2>1. UNCHANGED <<hook, direct, home, acks, executed, settled>> /\ queue' = Without(gone)
    BY <1>8 DEF PushReply
  <2>2. \A u \in Tabs, r \in Rows : row'[u][r].id = row[u][r].id
    BY <1>8, PushReplyRows
  <2>3. \A j \in Slots : LeftOver(j)
    BY <1>8, RepliedBatches
  <2>4. gone \subseteq settled
    BY DEF Held
  <2> HIDE DEF gone
  <2>5. \A id \in DOMAIN queue : id \in DOMAIN queue' \/ id \in settled'
    BY <2>1, <2>4, WithoutTyped
  <2>6. \A d \in Cmds : Waiting(d)' => row'[home'[d]][RowOf[d]].id = d
    BY <1>r, <2>1, <2>2 DEF Waiting
  <2>7. ~hook => \A d \in Cmds : Owed(d)' => d \in DOMAIN queue'
    BY <1>o, <2>1, <2>5
  <2>8. \A j \in Slots : \A x \in push'[j].results : x.outcome # "transient" => x.id \in settled'
    BY <1>b, <2>1, <2>3
  <2> QED BY <1>1, <1>q, <2>1, <2>6, <2>7, <2>8
<1>9. ASSUME NEW i \in Slots, PushFails(i) PROVE Held'
  <2>1. UNCHANGED <<hook, direct, home, row, queue, acks, executed, settled>>
    BY <1>9 DEF PushFails
  <2>2. \A j \in Slots : LeftOver(j)
    BY <1>9, FailedBatches
  <2>3. \A j \in Slots : \A x \in push'[j].results : x.outcome # "transient" => x.id \in settled'
    BY <1>b, <2>1, <2>2
  <2> QED BY <1>1, <1>q, <2>1, <2>3 DEF Waiting, Owed
<1>10. ASSUME NEW i \in Slots, NEW o \in Outcomes, NEW m \in push[i].todo, PushStep(i, m, o)
       PROVE  Held'
  <2>1. UNCHANGED <<hook, direct, home, row, queue>>
    BY <1>10 DEF PushStep
  <2>2. /\ m \in Envelope /\ m \in push[i].items
        /\ \A j \in Slots \ {i} : push'[j] = push[j]
        /\ push'[i].results = push[i].results \cup {[id |-> m.id, outcome |-> o]}
    BY <1>10, PushStepBatch
  <2>3. m.id \in Cmds /\ m.what = m.id
    BY <2>2 DEF Envelope, SameId
  <2>4. /\ settled \subseteq settled' /\ (o # "transient" => m.id \in settled')
        /\ ~hook => acks' = acks
    <3>1. CASE Dispatch(m.id, m.id, o)
      <4>1. settled \subseteq settled' /\ (o # "transient" => m.id \in settled')
        BY <2>3, <3>1, DispatchSettles
      <4>2. ~hook => acks' = acks
        BY <2>3, <3>1, BroadcastAcks DEF Dispatch
      <4> QED BY <4>1, <4>2
    <3>2. CASE /\ o # "ok" /\ UNCHANGED <<acks, executed>>
               /\ settled' = IF o = "refused" THEN settled \cup {m.id} ELSE settled
      BY <3>2 DEF Outcomes
    <3> QED BY <1>10, <2>3, <3>1, <3>2 DEF PushStep
  <2>5. \A j \in Slots : \A x \in push'[j].results : x.outcome # "transient" => x.id \in settled'
    BY <1>1, <2>2, <2>4
  <2>6. ~hook => \A d \in Cmds : Owed(d)' => d \in DOMAIN queue'
    BY <1>o, <2>1, <2>4
  <2> QED BY <1>1, <1>q, <2>1, <2>4, <2>5, <2>6 DEF Waiting
<1>11. ASSUME NEW t \in Tabs, AckArrives(t) PROVE Held'
  <2>1. /\ UNCHANGED <<hook, direct, home, push, executed, settled>>
        /\ acks[t] # <<>>
    BY <1>11 DEF AckArrives
  <2>2. \A u \in Tabs, r \in Rows : row'[u][r].id = row[u][r].id
    BY <1>11, AckArrivesRows
  <2>3. hook
    BY <1>1, <2>1
  <2>4. \A d \in Cmds : Waiting(d)' => row'[home'[d]][RowOf[d]].id = d
    BY <1>r, <2>1, <2>2 DEF Waiting
  <2> QED BY <1>1, <1>q, <2>1, <2>3, <2>4
<1>12. ASSUME NEW t \in Tabs, Reload(t) PROVE Held'
  <2> DEFINE waiting == {c \in Cmds : home[c] = t /\ direct[c] \in {"sent", "ok", "error"}}
  <2>1. /\ UNCHANGED <<hook, home, queue, executed>>
        /\ acks' = [acks EXCEPT ![t] = <<>>]
        /\ direct' = [c \in Cmds |-> IF c \in waiting THEN Abandoned(c) ELSE direct[c]]
        /\ settled' = settled \cup waiting
    BY <1>12 DEF Reload
  <2>2. \A j \in Slots : LeftOver(j)
    BY <1>12, ReloadedBatches
  <2>3. \A u \in Tabs, r \in Rows : row'[u][r] = IF u = t THEN Blank ELSE row[u][r]
    BY <1>12, ReloadRows
  <2>4. ASSUME NEW d \in Cmds, Waiting(d)' PROVE row'[home'[d]][RowOf[d]].id = d
    <3>1. Waiting(d) /\ home[d] # t /\ home'[d] = home[d]
      BY <2>1, <2>4 DEF Waiting, Abandoned
    <3>2. home[d] \in Tabs /\ RowOf[d] \in Rows
      BY <1>2, <3>1
    <3>3. row'[home'[d]][RowOf[d]] = row[home[d]][RowOf[d]]
      BY <2>3, <3>1, <3>2
    <3> QED BY <1>1, <3>1, <3>3
  <2>5. ~hook => \A u \in Tabs : acks'[u] = <<>>
    BY <1>1, <1>2, <2>1
  <2>6. \A d \in Cmds : direct'[d] \in Left => direct[d] \in Left \/ d \in settled'
    <3> HIDE DEF waiting
    <3> QED BY <2>1
  <2>7. ~hook => \A d \in Cmds : Owed(d)' => d \in DOMAIN queue'
    BY <1>o, <2>1, <2>6
  <2>8. \A j \in Slots : \A x \in push'[j].results : x.outcome # "transient" => x.id \in settled'
    BY <1>b, <2>1, <2>2
  <2> QED BY <1>q, <2>1, <2>4, <2>5, <2>7, <2>8
<1>13. CASE UNCHANGED vars
  BY <1>1, <1>13, <1>q DEF vars, Waiting, Owed
<1> QED BY <1>3, <1>4, <1>5, <1>6, <1>7, <1>8, <1>9, <1>10, <1>11, <1>12, <1>13 DEF Next

-----------------------------------------------------------------------------

LEMMA SoundInit == Init => Sound
<1> SUFFICES ASSUME Init PROVE SameId /\ Honest /\ Held
  BY TypedInit DEF Sound
<1>1. /\ \A t \in Tabs, r \in Rows : row[t][r] = Blank
      /\ DOMAIN queue = {} /\ \A i \in Slots : push[i] = NoBatch
      /\ \A t \in Tabs : acks[t] = <<>>
      /\ \A c \in Cmds : direct[c] = "new"
  BY DEF Init
<1>2. /\ Blank.id \notin Cmds /\ Blank.state = "none"
      /\ NoBatch.items = {} /\ NoBatch.results = {}
  BY RowAssumption DEF Blank, NoBatch
<1>3. SameId
  BY <1>1, <1>2 DEF SameId
<1>4. Honest
  BY <1>1, <1>2 DEF Honest
<1>5. Held
  BY <1>1, <1>2 DEF Held, Final, Waiting, Owed
<1> QED BY <1>3, <1>4, <1>5

\* Every variable keeps its shape: a subscriber's buffer is never overrun, no
\* command is retried past MAX_RETRIES, and what has been executed is settled.
THEOREM TypesKept == Spec => []TypeOK
<1>1. Typed => TypeOK
  BY DEF Typed
<1> QED BY <1>1, TypedInit, TypedStep, PTL DEF Spec

\* On rows of their own, a row shows "confirmed" only for a command the server
\* has executed: whether a batch result, on any tab, or an SSE
\* acknowledgement says so, and however late (sync-client.js, handleSyncAck).
THEOREM ConfirmedRowsWereExecuted ==
  ASSUME OwnRows PROVE Spec => []ConfirmedWasExecuted
<1>1. Sound /\ [Next]_vars => Sound'
  BY TypedStep, SameIdStep, HonestStep, HeldStep DEF Sound
<1>2. Sound => ConfirmedWasExecuted
  BY DEF Sound, Honest, ConfirmedWasExecuted
<1> QED BY <1>1, <1>2, SoundInit, PTL DEF Spec

\* On rows of their own and without BroadcastOnAck, a command whose request is
\* over is in the queue until its fate is known, whatever is lost, duplicated or
\* replayed by another tab (sync-client.js, sendError; sync-worker.js, doFlush).
THEOREM QueuedUntilSettled ==
  ASSUME OwnRows PROVE Spec => []NothingLost
<1>1. Sound /\ [Next]_vars => Sound'
  BY TypedStep, SameIdStep, HonestStep, HeldStep DEF Sound
<1>2. Sound => NothingLost
  BY DEF Sound, SameId, Held, NothingLost, Kept
<1> QED BY <1>1, <1>2, SoundInit, PTL DEF Spec

=============================================================================
