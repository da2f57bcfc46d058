--------------------------- MODULE CommandQueue ---------------------------
(***************************************************************************)
(* What the offline queue promises, without the worker: a command that was *)
(* accepted stays until it is acknowledged or given up, it is given up     *)
(* only when its retry budget is spent or its age limit passed, and it is  *)
(* never sent on a count that has reached the budget.  The queue is saved  *)
(* behind its writes; whoever restarts it finds what was saved.            *)
(***************************************************************************)
EXTENDS Naturals

CONSTANTS
  Cmds,
  MaxRetries,
  MayExpire,   \* commands whose age limit can pass
  Durable      \* the queue outlives the worker

VARIABLES queued, tries,
          saved          \* what a restart finds of the two

NoTries == [c \in Cmds |-> 0]

Init ==
  /\ queued = {} /\ tries = NoTries
  /\ saved = [queued |-> {}, tries |-> NoTries]

Accept(c) ==
  /\ c \notin queued
  /\ queued' = queued \cup {c}
  /\ UNCHANGED <<tries, saved>>

Acknowledge(c) ==
  /\ c \in queued
  /\ queued' = queued \ {c}
  /\ tries' = [tries EXCEPT ![c] = 0]
  /\ UNCHANGED saved

\* One look at the queue: the spent commands D go, those in S are sent.
Round(D, S) ==
  /\ D \cap S = {}
  /\ \A c \in D : tries[c] >= MaxRetries \/ c \in MayExpire
  /\ \A c \in S : tries[c] < MaxRetries
  /\ queued' = queued \ D
  /\ tries' = [c \in Cmds |-> IF c \in D THEN 0
                              ELSE IF c \in S THEN tries[c] + 1 ELSE tries[c]]
  /\ UNCHANGED saved

\* A queue in memory is never saved.
Save ==
  /\ Durable
  /\ saved' = [queued |-> queued, tries |-> tries]
  /\ UNCHANGED <<queued, tries>>

Restart ==
  /\ queued' = saved.queued /\ tries' = saved.tries
  /\ UNCHANGED saved

Next ==
  \/ Save \/ Restart
  \/ \E c \in Cmds : Accept(c) \/ Acknowledge(c)
  \/ \E D, S \in SUBSET queued : Round(D, S)

Spec == Init /\ [][Next]_<<queued, tries, saved>>
=============================================================================
