---------------------------- MODULE SSEFeed_proofs ----------------------------
(***************************************************************************)
(* Proofs about SSEFeed, for every filter, every cap, every capacity of    *)
(* the ring and of the buffers, every number of publishers and every       *)
(* length of the journal.                                                  *)
(*                                                                         *)
(* While the handler reads, its rolling tail is the newest part of the one *)
(* stretch of the journal it has passed, whatever the pages were.  When it *)
(* replays, what it remembers as replayed is written or about to be; when  *)
(* it is live, an event that was written is remembered or has left both    *)
(* the publishers and the subscription for good.                           *)
(***************************************************************************)
EXTENDS SSEFeed, WellFoundedInduction, TLAPS

\* What is written, replayed or buffered comes from the journal, and a cursor
\* never passes the end of it.
FromJournal ==
  /\ channel \in Seq(1 .. head) /\ tail \in Seq(1 .. head)
  /\ script \in Seq(1 .. head) /\ replayed \in Seq(1 .. head)
  /\ written \in Seq(1 .. head)
  /\ base <= at /\ at <= head /\ lastId <= head

Typed == TypeOK /\ FromJournal

\* While it reads, the handler has written nothing and holds the newest of what
\* it has passed.
Rolling ==
  phase = "reading" =>
    /\ script = << >> /\ written = << >>
    /\ tail = Newest(Between(base, at), StoreCap)

\* An event is skipped only when it is written, or about to be.
SkippedAreWritten ==
  /\ phase \in {"replaying", "live"} => ToSet(replayed) \subseteq ToSet(written) \cup ToSet(script)
  /\ phase = "live" => script = << >>

Sound == Typed /\ Rolling /\ SkippedAreWritten
Seam  == Sound /\ NothingLostOnConnection

\* The ring holds a whole replay.
RingHoldsReplay == StoreCap <= Ring \/ HandlerCap <= Ring

\* The hub hands an event over once.
HandedOverOnce ==
  IsInjective(channel) /\ ToSet(channel) \cap outbox = {}

\* The replay and what it has written: no event twice, all of them remembered.
ReplayedOnce ==
  phase = "replaying" =>
    /\ IsInjective(script) /\ ToSet(script) \cap ToSet(written) = {}
    /\ ToSet(script) \cup ToSet(written) \subseteq ToSet(replayed)

\* What a live connection has written is remembered or cannot come again.
WrittenIsOver ==
  phase = "live" =>
    ToSet(written) \cap (ToSet(channel) \cup outbox) \subseteq ToSet(replayed)

Once == Sound /\ IsInjective(written) /\ HandedOverOnce /\ ReplayedOnce /\ WrittenIsOver

-----------------------------------------------------------------------------
(* The least element of a set of naturals.                                  *)

Below == {p \in Nat \X Nat : p[1] < p[2]}

LEMMA BelowWellFounded == IsWellFoundedOn(Below, Nat)
<1>1. Below = OpToRel(<, Nat)
  BY DEF Below, OpToRel
<1> QED BY <1>1, NatLessThanWellFounded

LEMMA LeastElement ==
  ASSUME NEW S, S \subseteq Nat, S # {}
  PROVE  \E m \in S : \A e \in S : m <= e
<1>1. PICK m \in S : \A e \in S : ~ <<e, m>> \in Below
  BY BelowWellFounded, WFMin
<1>2. ASSUME NEW e \in S PROVE m <= e
  <2>1. e \in Nat /\ m \in Nat
    OBVIOUS
  <2>2. ~(e < m)
    BY <1>1, <2>1 DEF Below
  <2> QED BY <2>1, <2>2
<1> QED BY <1>2

-----------------------------------------------------------------------------
(* The loop of Matching, up to k of the events s.                           *)

Loop(s, k, f) ==
  f = [i \in 0 .. k |->
         IF i = 0 THEN << >>
         ELSE IF Matches(s[i]) THEN Append(f[i - 1], s[i])
         ELSE f[i - 1]]

LEMMA LoopRuns ==
  ASSUME NEW s, NEW n \in Nat PROVE \E f : Loop(s, n, f)
<1> DEFINE S == {k \in 0 .. n : ~\E f : Loop(s, k, f)}
<1>1. SUFFICES ASSUME S # {} PROVE FALSE
  OBVIOUS
<1>2. S \subseteq Nat
  OBVIOUS
<1>3. PICK m \in S : \A e \in S : m <= e
  <2> HIDE DEF S
  <2> QED BY <1>1, <1>2, LeastElement
<1>4. m \in 0 .. n /\ m \in Nat /\ ~\E f : Loop(s, m, f)
  OBVIOUS
<1>5. CASE m = 0
  <2>1. Loop(s, m, [i \in 0 .. m |-> << >>])
    BY <1>4, <1>5 DEF Loop
  <2> QED BY <2>1, <1>4
<1>6. CASE m # 0
  <2>1. m - 1 \in 0 .. n /\ ~(m <= m - 1)
    BY <1>4, <1>6
  <2>2. m - 1 \notin S
    BY <2>1, <1>3
  <2>3. PICK f : Loop(s, m - 1, f)
    BY <2>1, <2>2
  <2> DEFINE last == IF Matches(s[m]) THEN Append(f[m - 1], s[m]) ELSE f[m - 1]
             g    == [i \in 0 .. m |-> IF i = m THEN last ELSE f[i]]
  <2>4. \A i \in 0 .. m - 1 :
           f[i] = IF i = 0 THEN << >>
                  ELSE IF Matches(s[i]) THEN Append(f[i - 1], s[i]) ELSE f[i - 1]
    BY <2>3 DEF Loop
  <2> HIDE DEF last
  <2>5. ASSUME NEW i \in 0 .. m
        PROVE  g[i] = IF i = 0 THEN << >>
                      ELSE IF Matches(s[i]) THEN Append(g[i - 1], s[i]) ELSE g[i - 1]
    <3>1. CASE i = m
      <4>1. g[i] = last /\ g[i - 1] = f[m - 1]
        BY <1>4, <1>6, <3>1
      <4> QED BY <4>1, <3>1, <1>6 DEF last
    <3>2. CASE i # m
      <4>1. i \in 0 .. m - 1
        BY <1>4, <3>2
      <4>2. g[i] = f[i]
        BY <3>2
      <4>3. CASE i = 0
        BY <4>1, <4>2, <4>3, <2>4
      <4>4. CASE i # 0
        <5>1. g[i - 1] = f[i - 1]
          BY <4>1, <4>4, <1>4
        <5> QED BY <5>1, <4>1, <4>2, <4>4, <2>4
      <4> QED BY <4>3, <4>4
    <3> QED BY <3>1, <3>2
  <2>6. Loop(s, m, g)
    <3>1. g = [i \in 0 .. m |-> g[i]]
      OBVIOUS
    <3> HIDE DEF g
    <3> QED BY <3>1, <2>5 DEF Loop
  <2> QED BY <2>6, <1>4
<1> QED BY <1>5, <1>6

LEMMA MatchingIsLoop ==
  ASSUME NEW s, Len(s) \in Nat
  PROVE  \E f : Loop(s, Len(s), f) /\ Matching(s) = f[Len(s)]
<1>1. Matching(s) = (CHOOSE f : Loop(s, Len(s), f))[Len(s)]
  BY DEF Matching, Loop
<1>2. Loop(s, Len(s), CHOOSE f : Loop(s, Len(s), f))
  BY LoopRuns
<1> QED BY <1>1, <1>2

-----------------------------------------------------------------------------
(* Sequences and the sets of their elements.                                *)

LEMMA LongerSeq ==
  ASSUME NEW S, NEW T, S \subseteq T, NEW s \in Seq(S) PROVE s \in Seq(T)
OBVIOUS

LEMMA ElementsOf ==
  ASSUME NEW S, NEW s \in Seq(S)
  PROVE  /\ ToSet(s) \subseteq S
         /\ \A x : x \in ToSet(s) <=> \E i \in 1 .. Len(s) : s[i] = x
BY DEF ToSet

LEMMA ElementsOfEmpty == ToSet(<< >>) = {} /\ IsInjective(<< >>)
BY DEF ToSet, IsInjective

LEMMA ElementsOfAppend ==
  ASSUME NEW S, NEW s \in Seq(S), NEW e \in S
  PROVE  /\ Append(s, e) \in Seq(S) /\ ToSet(Append(s, e)) = ToSet(s) \cup {e}
         /\ IsInjective(s) /\ e \notin ToSet(s) => IsInjective(Append(s, e))
<1>1. /\ Append(s, e) \in Seq(S) /\ Len(Append(s, e)) = Len(s) + 1 /\ Len(s) \in Nat
      /\ \A i \in 1 .. Len(s) : Append(s, e)[i] = s[i]
      /\ Append(s, e)[Len(s) + 1] = e
  OBVIOUS
<1> DEFINE t == Append(s, e)
<1>2. \A x : x \in ToSet(t) <=> \E i \in 1 .. Len(t) : t[i] = x
  <2>1. t \in Seq(S)
    BY <1>1
  <2> HIDE DEF t
  <2> QED BY <2>1, ElementsOf
<1>3. ASSUME NEW x PROVE x \in ToSet(t) <=> x \in ToSet(s) \cup {e}
  <2>1. x \in ToSet(s) <=> \E i \in 1 .. Len(s) : s[i] = x
    BY ElementsOf
  <2>2. ASSUME x \in ToSet(s) PROVE x \in ToSet(t)
    <3>1. PICK i \in 1 .. Len(s) : s[i] = x
      BY <2>1, <2>2
    <3>2. i \in 1 .. Len(t) /\ t[i] = x
      BY <3>1, <1>1
    <3> HIDE DEF t
    <3> QED BY <3>2, <1>2
  <2>3. e \in ToSet(t)
    <3>1. Len(t) \in 1 .. Len(t) /\ t[Len(t)] = e
      BY <1>1
    <3> HIDE DEF t
    <3> QED BY <3>1, <1>2
  <2>4. ASSUME x \in ToSet(t), x # e PROVE x \in ToSet(s)
    <3>1. PICK i \in 1 .. Len(t) : t[i] = x
      <4> HIDE DEF t
      <4> QED BY <1>2, <2>4
    <3>2. i \in 1 .. Len(s) /\ s[i] = x
      BY <3>1, <1>1, <2>4
    <3> QED BY <3>2, <2>1
  <2> QED BY <2>2, <2>3, <2>4
<1>4. ToSet(t) = ToSet(s) \cup {e}
  <2> HIDE DEF t
  <2> QED BY <1>3
<1>5. ASSUME IsInjective(s), e \notin ToSet(s) PROVE IsInjective(t)
  <2>1. DOMAIN t = 1 .. Len(s) + 1 /\ DOMAIN s = 1 .. Len(s)
    BY <1>1
  <2>2. \A i \in 1 .. Len(s) : s[i] # e
    BY <1>5, ElementsOf
  <2>3. ASSUME NEW a \in 1 .. Len(s) + 1, NEW b \in 1 .. Len(s) + 1, t[a] = t[b]
        PROVE  a = b
    <3>1. a \in 1 .. Len(s) \/ a = Len(s) + 1
      BY <1>1
    <3>2. b \in 1 .. Len(s) \/ b = Len(s) + 1
      BY <1>1
    <3>3. CASE a \in 1 .. Len(s) /\ b \in 1 .. Len(s)
      <4>1. s[a] = s[b]
        BY <3>3, <2>3, <1>1
      <4> QED BY <4>1, <3>3, <1>5, <2>1 DEF IsInjective
    <3>4. CASE a \in 1 .. Len(s) /\ b = Len(s) + 1
      BY <3>4, <2>3, <2>2, <1>1
    <3>5. CASE a = Len(s) + 1 /\ b \in 1 .. Len(s)
      BY <3>5, <2>3, <2>2, <1>1
    <3> QED BY <3>1, <3>2, <3>3, <3>4, <3>5
  <2> HIDE DEF t
  <2> QED BY <2>1, <2>3 DEF IsInjective
<1> QED BY <1>1, <1>4, <1>5

LEMMA ElementsOfTail ==
  ASSUME NEW S, NEW s \in Seq(S), s # << >>
  PROVE  /\ Head(s) \in S /\ Tail(s) \in Seq(S) /\ Len(Tail(s)) = Len(s) - 1
         /\ ToSet(s) = {Head(s)} \cup ToSet(Tail(s))
         /\ IsInjective(s) => IsInjective(Tail(s)) /\ Head(s) \notin ToSet(Tail(s))
<1>1. /\ Head(s) \in S /\ Tail(s) \in Seq(S) /\ Len(Tail(s)) = Len(s) - 1
      /\ Len(s) \in Nat \ {0} /\ Head(s) = s[1]
      /\ \A i \in 1 .. Len(s) - 1 : Tail(s)[i] = s[i + 1]
  OBVIOUS
<1> DEFINE t == Tail(s)
<1>2. \A x : x \in ToSet(t) <=> \E i \in 1 .. Len(s) - 1 : t[i] = x
  <2>1. t \in Seq(S) /\ Len(t) = Len(s) - 1
    BY <1>1
  <2> HIDE DEF t
  <2> QED BY <2>1, ElementsOf
<1>3. \A x : x \in ToSet(s) <=> \E i \in 1 .. Len(s) : s[i] = x
  BY ElementsOf
<1>4. ASSUME NEW x \in ToSet(t) PROVE x \in ToSet(s)
  <2>1. PICK i \in 1 .. Len(s) - 1 : t[i] = x
    BY <1>2, <1>4
  <2>2. i + 1 \in 1 .. Len(s) /\ s[i + 1] = x
    BY <2>1, <1>1
  <2> QED BY <2>2, <1>3
<1>5. Head(s) \in ToSet(s)
  <2>1. 1 \in 1 .. Len(s) /\ s[1] = Head(s)
    BY <1>1
  <2> QED BY <2>1, <1>3
<1>6. ASSUME NEW x \in ToSet(s), x # Head(s) PROVE x \in ToSet(t)
  <2>1. PICK i \in 1 .. Len(s) : s[i] = x
    BY <1>3, <1>6
  <2>2. i - 1 \in 1 .. Len(s) - 1 /\ t[i - 1] = x
    BY <2>1, <1>1, <1>6
  <2> QED BY <2>2, <1>2
<1>7. ToSet(s) = {Head(s)} \cup ToSet(t)
  <2> HIDE DEF t
  <2> QED BY <1>4, <1>5, <1>6
<1>8. ASSUME IsInjective(s) PROVE IsInjective(t) /\ Head(s) \notin ToSet(t)
  <2>1. DOMAIN t = 1 .. Len(s) - 1 /\ DOMAIN s = 1 .. Len(s)
    BY <1>1
  <2>2. ASSUME NEW a \in 1 .. Len(s) - 1, NEW b \in 1 .. Len(s) - 1, t[a] = t[b]
        PROVE  a = b
    <3>1. s[a + 1] = s[b + 1] /\ a + 1 \in DOMAIN s /\ b + 1 \in DOMAIN s
      BY <2>2, <2>1, <1>1
    <3>2. a + 1 = b + 1
      BY <3>1, <1>8 DEF IsInjective
    <3> QED BY <3>2
  <2>3. IsInjective(t)
    <3> HIDE DEF t
    <3> QED BY <2>1, <2>2 DEF IsInjective
  <2>4. ASSUME Head(s) \in ToSet(t) PROVE FALSE
    <3>1. PICK i \in 1 .. Len(s) - 1 : t[i] = Head(s)
      BY <1>2, <2>4
    <3>2. s[i + 1] = s[1] /\ i + 1 \in DOMAIN s /\ 1 \in DOMAIN s
      BY <3>1, <1>1, <2>1
    <3>3. i + 1 = 1
      BY <3>2, <1>8 DEF IsInjective
    <3> QED BY <3>3, <3>1
  <2> QED BY <2>3, <2>4
<1> QED BY <1>1, <1>7, <1>8

LEMMA ConcatFacts ==
  ASSUME NEW S, NEW s \in Seq(S), NEW t \in Seq(S)
  PROVE  /\ s \o t \in Seq(S) /\ Len(s \o t) = Len(s) + Len(t)
         /\ \A i \in 1 .. Len(s) + Len(t) :
              (s \o t)[i] = IF i <= Len(s) THEN s[i] ELSE t[i - Len(s)]
<1>1. s \o t \in Seq(S) /\ Len(s \o t) = Len(s) + Len(t)
  OBVIOUS
<1>2. ASSUME NEW i \in 1 .. Len(s) + Len(t)
      PROVE  (s \o t)[i] = IF i <= Len(s) THEN s[i] ELSE t[i - Len(s)]
  OBVIOUS
<1> QED BY <1>1, <1>2

\* The events of a page are in the order of the journal, each of them once.
Rising(s) == \A i \in 1 .. Len(s) : \A j \in 1 .. Len(s) : i < j => s[i] < s[j]

LEMMA RisingIsInjective ==
  ASSUME NEW s \in Seq(Nat), Rising(s) PROVE IsInjective(s)
<1>1. ASSUME NEW a \in 1 .. Len(s), NEW b \in 1 .. Len(s), s[a] = s[b] PROVE a = b
  <2>1. s[a] \in Nat /\ s[b] \in Nat /\ a \in Nat /\ b \in Nat
    OBVIOUS
  <2>2. ~(a < b) /\ ~(b < a)
    BY <2>1, <1>1 DEF Rising
  <2> QED BY <2>1, <2>2
<1> QED BY <1>1 DEF IsInjective

-----------------------------------------------------------------------------
(* The newest n events of a sequence.                                       *)

LEMMA NewestFacts ==
  ASSUME NEW S, NEW s \in Seq(S), NEW n \in Nat \ {0}
  PROVE  /\ Newest(s, n) \in Seq(S)
         /\ Len(Newest(s, n)) = (IF Len(s) > n THEN n ELSE Len(s))
         /\ \A i \in 1 .. Len(Newest(s, n)) :
              Newest(s, n)[i] = s[i + (Len(s) - Len(Newest(s, n)))]
         /\ ToSet(Newest(s, n)) \subseteq ToSet(s)
         /\ Rising(s) => Rising(Newest(s, n))
<1> DEFINE t == Newest(s, n)
<1>1. /\ t \in Seq(S) /\ Len(t) = (IF Len(s) > n THEN n ELSE Len(s)) /\ Len(s) \in Nat
      /\ \A i \in 1 .. Len(t) : t[i] = s[i + (Len(s) - Len(t))]
  <2>1. CASE Len(s) > n
    <3>1. t = SubSeq(s, Len(s) - n + 1, Len(s))
      BY <2>1 DEF Newest
    <3>2. Len(s) \in Nat /\ Len(s) - n + 1 \in 1 .. Len(s)
      BY <2>1
    <3> QED BY <3>1, <3>2, <2>1
  <2>2. CASE ~(Len(s) > n)
    <3>1. t = SubSeq(s, 1, Len(s)) /\ Len(s) \in Nat
      BY <2>2 DEF Newest
    <3>2. t = s
      BY <3>1
    <3> HIDE DEF t
    <3>3. \A i \in 1 .. Len(s) : i + (Len(s) - Len(s)) = i
      BY <3>1
    <3> QED BY <3>1, <3>2, <3>3, <2>2
  <2> QED BY <2>1, <2>2
<1> HIDE DEF t
<1>2. \A i \in 1 .. Len(t) : i + (Len(s) - Len(t)) \in 1 .. Len(s)
  BY <1>1
<1>3. ToSet(t) \subseteq ToSet(s)
  <2>1. ASSUME NEW x \in ToSet(t) PROVE x \in ToSet(s)
    <3>1. PICK i \in 1 .. Len(t) : t[i] = x
      BY <1>1, ElementsOf
    <3>2. i + (Len(s) - Len(t)) \in 1 .. Len(s) /\ s[i + (Len(s) - Len(t))] = x
      BY <3>1, <1>1, <1>2
    <3> QED BY <3>2, ElementsOf
  <2> QED BY <2>1
<1>4. ASSUME Rising(s) PROVE Rising(t)
  <2>1. ASSUME NEW i \in 1 .. Len(t), NEW j \in 1 .. Len(t), i < j PROVE t[i] < t[j]
    <3> DEFINE d == Len(s) - Len(t)
    <3>0. d \in Nat /\ i \in Nat /\ j \in Nat
      BY <1>1
    <3>1. i + d \in 1 .. Len(s) /\ j + d \in 1 .. Len(s) /\ i + d < j + d
      BY <1>2, <2>1, <3>0
    <3>2. t[i] = s[i + d] /\ t[j] = s[j + d]
      BY <1>1
    <3> QED BY <3>1, <3>2, <1>4 DEF Rising
  <2> QED BY <2>1 DEF Rising
<1> QED BY <1>1, <1>3, <1>4 DEF t

LEMMA NewestOfFew ==
  ASSUME NEW S, NEW s \in Seq(S), NEW n \in Nat \ {0}, Len(s) <= n
  PROVE  Newest(s, n) = s
<1>1. Len(s) \in Nat /\ ~(Len(s) > n)
  OBVIOUS
<1>2. Newest(s, n) = SubSeq(s, 1, Len(s))
  BY <1>1 DEF Newest
<1> QED BY <1>2

-----------------------------------------------------------------------------
(* A stretch of the journal, and the rolling tail over its pages.           *)

LEMMA BetweenFacts ==
  ASSUME NEW a \in Nat, NEW b \in Nat, a <= b
  PROVE  /\ Between(a, b) \in Seq(a + 1 .. b) /\ Len(Between(a, b)) = b - a
         /\ \A i \in 1 .. b - a : Between(a, b)[i] = a + i
         /\ Rising(Between(a, b))
<1>1. /\ Between(a, b) \in Seq(a + 1 .. b) /\ Len(Between(a, b)) = b - a
      /\ \A i \in 1 .. b - a : Between(a, b)[i] = a + i
  BY DEF Between
<1>2. Rising(Between(a, b))
  BY <1>1 DEF Rising
<1> QED BY <1>1, <1>2

\* The cursor before the newest n events after a up to b.
Cut(a, b, n) == IF b - a > n THEN b - n ELSE a

LEMMA NewestBetween ==
  ASSUME NEW a \in Nat, NEW b \in Nat, a <= b, NEW n \in Nat \ {0}
  PROVE  /\ Newest(Between(a, b), n) = Between(Cut(a, b, n), b)
         /\ Cut(a, b, n) \in Nat /\ a <= Cut(a, b, n) /\ Cut(a, b, n) <= b
<1> DEFINE s == Between(a, b)
           c == Cut(a, b, n)
           t == Newest(s, n)
<1>1. c \in Nat /\ a <= c /\ c <= b
  BY DEF Cut
<1>2. s \in Seq(Nat) /\ Len(s) = b - a /\ \A i \in 1 .. b - a : s[i] = a + i
  <2>1. s \in Seq(a + 1 .. b)
    BY BetweenFacts
  <2>2. a + 1 .. b \subseteq Nat
    OBVIOUS
  <2>3. s \in Seq(Nat)
    <3> HIDE DEF s
    <3> QED BY <2>1, <2>2, LongerSeq
  <2> QED BY <2>3, BetweenFacts
<1>3. /\ t \in Seq(Nat) /\ Len(t) = (IF Len(s) > n THEN n ELSE Len(s))
      /\ \A i \in 1 .. Len(t) : t[i] = s[i + (Len(s) - Len(t))]
  <2> HIDE DEF s
  <2> QED BY <1>2, NewestFacts
<1>4. Len(t) = b - c
  BY <1>2, <1>3 DEF Cut
<1>5. \A i \in 1 .. b - c : t[i] = c + i
  <2>1. ASSUME NEW i \in 1 .. b - c PROVE t[i] = c + i
    <3> HIDE DEF t, s, c
    <3>1. Len(s) - Len(t) = c - a /\ i + (c - a) \in 1 .. b - a
      BY <1>1, <1>2, <1>4
    <3>2. t[i] = s[i + (c - a)]
      BY <1>3, <1>4, <3>1
    <3> QED BY <3>1, <3>2, <1>2, <1>1
  <2> QED BY <2>1
<1>6. t = [i \in 1 .. b - c |-> c + i]
  <2> HIDE DEF t, s, c
  <2>1. DOMAIN t = 1 .. b - c /\ t = [i \in DOMAIN t |-> t[i]]
    BY <1>3, <1>4
  <2> QED BY <2>1, <1>5
<1> QED BY <1>6, <1>1 DEF Between

\* A page more on the rolling tail is the newest part of a longer stretch.
LEMMA RollOn ==
  ASSUME NEW a \in Nat, NEW b \in Nat, NEW c \in Nat, a <= b, b <= c,
         NEW n \in Nat \ {0}
  PROVE  Newest(Newest(Between(a, b), n) \o Between(b, c), n) = Newest(Between(a, c), n)
<1> DEFINE m == Cut(a, b, n)
           w == Between(m, b) \o Between(b, c)
<1>1. Newest(Between(a, b), n) = Between(m, b) /\ m \in Nat /\ a <= m /\ m <= b
  BY NewestBetween
<1>2. w = Between(m, c)
  <2> HIDE DEF m
  <2>1. /\ Between(m, b) \in Seq(m + 1 .. b) /\ Len(Between(m, b)) = b - m
        /\ \A i \in 1 .. b - m : Between(m, b)[i] = m + i
    BY <1>1, BetweenFacts
  <2>2. /\ Between(b, c) \in Seq(b + 1 .. c) /\ Len(Between(b, c)) = c - b
        /\ \A i \in 1 .. c - b : Between(b, c)[i] = b + i
    BY BetweenFacts
  <2>3. Between(m, b) \in Seq(Nat) /\ Between(b, c) \in Seq(Nat)
    <3>1. m + 1 .. b \subseteq Nat /\ b + 1 .. c \subseteq Nat
      BY <1>1
    <3> QED BY <3>1, <2>1, <2>2, LongerSeq
  <2> DEFINE u == Between(m, b)
             v == Between(b, c)
  <2>4. /\ w \in Seq(Nat) /\ Len(w) = c - m /\ DOMAIN w = 1 .. c - m
        /\ \A i \in 1 .. c - m : w[i] = IF i <= b - m THEN u[i] ELSE v[i - (b - m)]
    <3>1. u \in Seq(Nat) /\ v \in Seq(Nat) /\ Len(u) = b - m /\ Len(v) = c - b
      BY <2>1, <2>2, <2>3
    <3> HIDE DEF u, v
    <3>2. /\ u \o v \in Seq(Nat) /\ Len(u \o v) = Len(u) + Len(v)
          /\ \A i \in 1 .. Len(u) + Len(v) :
               (u \o v)[i] = IF i <= Len(u) THEN u[i] ELSE v[i - Len(u)]
      BY <3>1, ConcatFacts
    <3>3. Len(u) + Len(v) = c - m
      BY <3>1, <1>1
    <3>4. w = u \o v
      BY DEF u, v
    <3> HIDE DEF w
    <3> QED BY <3>1, <3>2, <3>3, <3>4
  <2>5. ASSUME NEW i \in 1 .. c - m PROVE w[i] = m + i
    <3>1. CASE i <= b - m
      <4>1. w[i] = u[i] /\ i \in 1 .. b - m
        BY <2>4, <3>1, <1>1
      <4> QED BY <4>1, <2>1
    <3>2. CASE ~(i <= b - m)
      <4>1. i - (b - m) \in 1 .. c - b
        BY <3>2, <1>1
      <4>2. w[i] = Between(b, c)[i - (b - m)]
        BY <3>2, <2>4
      <4> QED BY <4>1, <4>2, <2>2, <1>1
    <3> QED BY <3>1, <3>2
  <2>6. w = [i \in 1 .. c - m |-> m + i]
    <3> HIDE DEF w
    <3>1. w = [i \in DOMAIN w |-> w[i]]
      BY <2>4
    <3> QED BY <3>1, <2>4, <2>5
  <2> QED BY <2>6 DEF Between
<1>3. Newest(Between(m, c), n) = Between(Cut(m, c, n), c)
  <2> HIDE DEF m
  <2>1. m <= c
    BY <1>1
  <2> QED BY <2>1, <1>1, NewestBetween
<1>4. Newest(Between(a, c), n) = Between(Cut(a, c, n), c)
  <2>1. a <= c
    OBVIOUS
  <2> QED BY <2>1, NewestBetween
<1>5. Cut(m, c, n) = Cut(a, c, n)
  BY DEF Cut
<1> QED BY <1>1, <1>2, <1>3, <1>4, <1>5

-----------------------------------------------------------------------------
(* What the filter lets pass.                                               *)

\* The loop of Matching after k events of s.
Passed(s, k, t) ==
  /\ t \in Seq(Nat) /\ Len(t) <= k
  /\ \A j \in 1 .. Len(t) : \E i \in 1 .. k : t[j] = s[i]
  /\ Rising(s) => Rising(t)

LEMMA LoopPasses ==
  ASSUME NEW s \in Seq(Nat), NEW f, Loop(s, Len(s), f)
  PROVE  \A k \in 0 .. Len(s) : Passed(s, k, f[k])
<1> DEFINE S == {k \in 0 .. Len(s) : ~Passed(s, k, f[k])}
<1>1. SUFFICES ASSUME S # {} PROVE FALSE
  OBVIOUS
<1>2. S \subseteq Nat /\ Len(s) \in Nat
  OBVIOUS
<1>3. PICK m \in S : \A e \in S : m <= e
  <2> HIDE DEF S
  <2> QED BY <1>1, <1>2, LeastElement
<1>4. m \in 0 .. Len(s) /\ m \in Nat /\ ~Passed(s, m, f[m])
  BY <1>2
<1>5. f[m] = IF m = 0 THEN << >>
             ELSE IF Matches(s[m]) THEN Append(f[m - 1], s[m]) ELSE f[m - 1]
  BY <1>4 DEF Loop
<1>6. CASE m = 0
  <2>1. f[m] = << >>
    BY <1>5, <1>6
  <2> QED BY <2>1, <1>6, <1>4 DEF Passed, Rising
<1>7. CASE m # 0
  <2>1. m - 1 \in 0 .. Len(s) /\ ~(m <= m - 1) /\ m \in 1 .. Len(s)
    BY <1>4, <1>7, <1>2
  <2>2. m - 1 \notin S
    <3> HIDE DEF S
    <3> QED BY <2>1, <1>3
  <2> DEFINE t == f[m - 1]
  <2>3. Passed(s, m - 1, t)
    BY <2>1, <2>2
  <2> HIDE DEF S, t
  <2>4. /\ t \in Seq(Nat) /\ Len(t) <= m - 1 /\ Len(t) \in Nat
        /\ \A j \in 1 .. Len(t) : \E i \in 1 .. m - 1 : t[j] = s[i]
        /\ Rising(s) => Rising(t)
    BY <2>3 DEF Passed
  <2>5. \A j \in 1 .. Len(t) : \E i \in 1 .. m : t[j] = s[i]
    <3>1. ASSUME NEW j \in 1 .. Len(t) PROVE \E i \in 1 .. m : t[j] = s[i]
      <4>1. PICK i \in 1 .. m - 1 : t[j] = s[i]
        BY <2>4
      <4>2. i \in 1 .. m
        BY <1>4
      <4> QED BY <4>1, <4>2
    <3> QED BY <3>1
  <2>6. CASE ~Matches(s[m])
    <3>1. f[m] = t
      BY <1>5, <1>7, <2>6 DEF t
    <3>2. Len(t) <= m
      BY <2>4, <1>4
    <3> QED BY <3>1, <3>2, <2>4, <2>5, <1>4 DEF Passed
  <2>7. CASE Matches(s[m])
    <3> DEFINE u == Append(t, s[m])
    <3>1. f[m] = u
      BY <1>5, <1>7, <2>7 DEF t
    <3>2. s[m] \in Nat
      BY <2>1
    <3>3. /\ u \in Seq(Nat) /\ Len(u) = Len(t) + 1
          /\ \A j \in 1 .. Len(t) : u[j] = t[j]
          /\ u[Len(t) + 1] = s[m]
      BY <2>4, <3>2
    <3> HIDE DEF u
    <3>4. Len(u) <= m
      BY <3>3, <2>4, <1>4
    <3>5. ASSUME NEW j \in 1 .. Len(u) PROVE \E i \in 1 .. m : u[j] = s[i]
      <4>1. CASE j = Len(t) + 1
        <5>1. m \in 1 .. m
          BY <2>1
        <5> QED BY <4>1, <3>3, <5>1
      <4>2. CASE j # Len(t) + 1
        <5>1. j \in 1 .. Len(t)
          BY <4>2, <3>3, <2>4
        <5> QED BY <5>1, <3>3, <2>5
      <4> QED BY <4>1, <4>2
    <3>6. ASSUME Rising(s) PROVE Rising(u)
      <4>1. Rising(t)
        BY <3>6, <2>4
      <4>2. ASSUME NEW i \in 1 .. Len(u), NEW j \in 1 .. Len(u), i < j PROVE u[i] < u[j]
        <5>1. i \in 1 .. Len(t)
          BY <4>2, <3>3, <2>4
        <5>2. CASE j \in 1 .. Len(t)
          BY <5>1, <5>2, <4>2, <4>1, <3>3 DEF Rising
        <5>3. CASE j = Len(t) + 1
          <6>1. PICK k \in 1 .. m - 1 : t[i] = s[k]
            BY <5>1, <2>4
          <6>2. k \in 1 .. Len(s) /\ k < m
            BY <6>1, <2>1, <1>2
          <6>3. s[k] < s[m]
            BY <6>2, <2>1, <3>6 DEF Rising
          <6> QED BY <6>1, <6>3, <5>1, <5>3, <3>3
        <5> QED BY <5>2, <5>3, <3>3, <2>4
      <4> QED BY <4>2 DEF Rising
    <3>7. Passed(s, m, u)
      BY <3>3, <3>4, <3>5, <3>6 DEF Passed
    <3> QED BY <3>7, <3>1, <1>4
  <2> QED BY <2>6, <2>7
<1> QED BY <1>6, <1>7

LEMMA MatchingFacts ==
  ASSUME NEW s \in Seq(Nat)
  PROVE  /\ Matching(s) \in Seq(Nat) /\ Len(Matching(s)) <= Len(s)
         /\ ToSet(Matching(s)) \subseteq ToSet(s)
         /\ Rising(s) => Rising(Matching(s))
<1>1. Len(s) \in Nat
  OBVIOUS
<1>2. PICK f : Loop(s, Len(s), f) /\ Matching(s) = f[Len(s)]
  BY <1>1, MatchingIsLoop
<1>3. Passed(s, Len(s), Matching(s))
  BY <1>1, <1>2, LoopPasses
<1> DEFINE t == Matching(s)
<1> HIDE DEF t
<1>4. /\ t \in Seq(Nat) /\ Len(t) <= Len(s) /\ (Rising(s) => Rising(t))
      /\ \A j \in 1 .. Len(t) : \E i \in 1 .. Len(s) : t[j] = s[i]
  BY <1>3 DEF Passed, t
<1>5. ASSUME NEW x \in ToSet(t) PROVE x \in ToSet(s)
  <2>1. PICK j \in 1 .. Len(t) : t[j] = x
    BY <1>4, ElementsOf
  <2>2. PICK i \in 1 .. Len(s) : s[i] = x
    BY <1>4, <2>1
  <2> QED BY <2>2, ElementsOf
<1> QED BY <1>4, <1>5 DEF t

-----------------------------------------------------------------------------
(* A page of the journal and the replay it may end in.                      *)

LEMMA Limits ==
  /\ StoreCap \in Nat \ {0} /\ HandlerCap \in Nat \ {0}
  /\ Ring \in Nat \ {0} /\ Buffer \in Nat \ {0}
  /\ Publishers \in Nat /\ MaxId \in Nat /\ MaxDials \in Nat
BY LimitsAssumption

LEMMA SeqOfElements ==
  ASSUME NEW S, NEW s \in Seq(S), NEW T, ToSet(s) \subseteq T
  PROVE  s \in Seq(T)
<1>1. \A i \in 1 .. Len(s) : s[i] \in T
  BY ElementsOf
<1> QED BY <1>1

LEMMA TailFacts ==
  ASSUME NEW a \in Nat, NEW b \in Nat, a <= b
  PROVE  LET t == Newest(Between(a, b), StoreCap)
         IN  t \in Seq(1 .. b) /\ Len(t) <= StoreCap /\ Rising(t)
<1> DEFINE s == Between(a, b)
           t == Newest(s, StoreCap)
<1>1. s \in Seq(1 .. b) /\ Rising(s)
  <2>1. s \in Seq(a + 1 .. b) /\ Rising(s)
    BY BetweenFacts
  <2>2. a + 1 .. b \subseteq 1 .. b
    OBVIOUS
  <2> HIDE DEF s
  <2> QED BY <2>1, <2>2, LongerSeq
<1>2. t \in Seq(1 .. b) /\ Rising(t) /\ Len(t) = (IF Len(s) > StoreCap THEN StoreCap ELSE Len(s))
  <2> HIDE DEF s
  <2> QED BY <1>1, NewestFacts, Limits
<1>3. Len(t) <= StoreCap
  <2> HIDE DEF t, s
  <2>1. Len(s) \in Nat
    BY <1>1
  <2> QED BY <2>1, <1>2, Limits
<1> QED BY <1>2, <1>3

LEMMA AdjustFacts ==
  ASSUME NEW b \in Nat, NEW s \in Seq(1 .. b), Rising(s)
  PROVE  /\ Adjust(s) \in Seq(1 .. b) /\ Rising(Adjust(s))
         /\ Len(Adjust(s)) <= HandlerCap /\ Len(Adjust(s)) <= Len(s)
<1> DEFINE t == Matching(s)
           u == Newest(t, HandlerCap)
<1>1. s \in Seq(Nat)
  <2>1. 1 .. b \subseteq Nat
    OBVIOUS
  <2> QED BY <2>1, LongerSeq
<1>2. t \in Seq(Nat) /\ Len(t) <= Len(s) /\ ToSet(t) \subseteq ToSet(s) /\ Rising(t)
  BY <1>1, MatchingFacts
<1>3. ToSet(s) \subseteq 1 .. b
  BY ElementsOf
<1>4. t \in Seq(1 .. b)
  <2> HIDE DEF t
  <2> QED BY <1>2, <1>3, SeqOfElements
<1>5. u \in Seq(1 .. b) /\ Rising(u) /\ Len(u) = (IF Len(t) > HandlerCap THEN HandlerCap ELSE Len(t))
  <2> HIDE DEF t
  <2> QED BY <1>2, <1>4, NewestFacts, Limits
<1>6. Len(u) <= HandlerCap /\ Len(u) <= Len(s)
  <2>1. Len(s) \in Nat /\ Len(t) \in Nat
    BY <1>2
  <2> HIDE DEF t, u
  <2> QED BY <2>1, <1>2, <1>5, Limits
<1> QED BY <1>5, <1>6 DEF Adjust

\* Where the next page ends.
PageEnd == IF at + StoreCap < head THEN at + StoreCap ELSE head

\* What the handler replays, the tail after a short page.
Tailed == Newest(Between(base, PageEnd), StoreCap)

LEMMA PageRead ==
  ASSUME Sound, ReadPage
  PROVE  /\ PageEnd \in Nat /\ base <= PageEnd /\ at <= PageEnd /\ PageEnd <= head
         /\ at' = PageEnd /\ tail' = Tailed
         /\ Tailed \in Seq(1 .. PageEnd) /\ Len(Tailed) <= StoreCap /\ Rising(Tailed)
         /\ \/ /\ PageEnd = head /\ Replay(Adjust(Tailed))
               /\ forgone' = forgone \cup ((base + 1 .. PageEnd) \ ToSet(Adjust(Tailed)))
            \/ /\ UNCHANGED <<phase, script, replayed>>
               /\ forgone' = forgone \cup ((base + 1 .. PageEnd) \ ToSet(Tailed))
<1>1. /\ at \in Nat /\ head \in Nat /\ base \in Nat /\ base <= at /\ at <= head
      /\ phase = "reading" /\ tail = Newest(Between(base, at), StoreCap)
  BY DEF Sound, Typed, TypeOK, FromJournal, Rolling, ReadPage
<1>2. PageEnd \in Nat /\ base <= PageEnd /\ at <= PageEnd /\ PageEnd <= head
  BY <1>1, Limits DEF PageEnd
<1>3. Roll(tail, Between(at, PageEnd)) = Tailed
  <2> DEFINE up == PageEnd
  <2>1. up \in Nat /\ at <= up
    BY <1>2
  <2> HIDE DEF up
  <2>2. Roll(tail, Between(at, up)) = Newest(Between(base, up), StoreCap)
    BY <2>1, <1>1, RollOn, Limits DEF Roll
  <2> QED BY <2>2 DEF Tailed, up
<1>4. Tailed \in Seq(1 .. PageEnd) /\ Len(Tailed) <= StoreCap /\ Rising(Tailed)
  BY <1>1, <1>2, TailFacts DEF Tailed
<1> DEFINE short == PageEnd - at < StoreCap
           kept  == IF short THEN Adjust(Tailed) ELSE Tailed
<1>5. /\ at' = PageEnd /\ tail' = Tailed
      /\ IF short THEN Replay(kept) ELSE UNCHANGED <<phase, script, replayed>>
      /\ forgone' = forgone \cup ((base + 1 .. PageEnd) \ ToSet(kept))
  BY <1>3 DEF ReadPage, PageEnd
<1>6. CASE short
  <2>1. PageEnd = head
    BY <1>1, <1>6, Limits DEF PageEnd
  <2>2. kept = Adjust(Tailed) /\ Replay(kept)
    BY <1>5, <1>6
  <2> HIDE DEF kept, short
  <2> QED BY <1>2, <1>4, <1>5, <2>1, <2>2
<1>7. CASE ~short
  <2>1. kept = Tailed /\ UNCHANGED <<phase, script, replayed>>
    BY <1>5, <1>7
  <2> HIDE DEF kept, short
  <2> QED BY <1>2, <1>4, <1>5, <2>1
<1> QED BY <1>6, <1>7

\* Entering a replay of these events: the ring keeps the newest of them.
LEMMA ReplayFacts ==
  ASSUME NEW b \in Nat, NEW events \in Seq(1 .. b), Rising(events), Replay(events)
  PROVE  /\ phase' = "replaying" /\ script' = events /\ IsInjective(events)
         /\ replayed' \in Seq(1 .. b) /\ Len(replayed') <= Ring
         /\ ToSet(replayed') \subseteq ToSet(events)
         /\ Len(events) <= Ring => replayed' = events
<1> DEFINE r == Newest(events, Ring)
<1>1. phase' = "replaying" /\ script' = events /\ replayed' = r
  BY DEF Replay
<1>2. r \in Seq(1 .. b) /\ ToSet(r) \subseteq ToSet(events)
  BY NewestFacts, Limits
<1>3. Len(r) = (IF Len(events) > Ring THEN Ring ELSE Len(events)) /\ Len(events) \in Nat
  BY NewestFacts, Limits
<1>4. Len(events) <= Ring => r = events
  BY NewestOfFew, Limits
<1>5. IsInjective(events)
  <2>1. 1 .. b \subseteq Nat
    OBVIOUS
  <2> QED BY <2>1, LongerSeq, RisingIsInjective
<1> HIDE DEF r
<1>6. Len(r) <= Ring
  BY <1>3, Limits
<1> QED BY <1>1, <1>2, <1>4, <1>5, <1>6

LEMMA ReplayNothing ==
  ASSUME Replay(<< >>)
  PROVE  phase' = "replaying" /\ script' = << >> /\ replayed' = << >>
<1>1. << >> \in Seq(Nat) /\ Len(<< >>) <= Ring
  BY Limits
<1>2. Newest(<< >>, Ring) = << >>
  BY <1>1, NewestOfFew, Limits
<1> QED BY <1>2 DEF Replay

-----------------------------------------------------------------------------
(* Types, the rolling tail, and what is skipped.                            *)

LEMMA SoundAtFirst == Init => Sound
<1>1. SUFFICES ASSUME Init PROVE Sound
  OBVIOUS
<1>2. \A S : << >> \in Seq(S)
  OBVIOUS
<1>3. TypeOK
  BY <1>1, <1>2, Limits DEF Init, TypeOK
<1>4. FromJournal
  BY <1>1, <1>2, Limits DEF Init, FromJournal
<1>5. Rolling /\ SkippedAreWritten
  BY <1>1 DEF Init, Rolling, SkippedAreWritten
<1> QED BY <1>3, <1>4, <1>5 DEF Sound, Typed

LEMMA JournalIds ==
  ASSUME NEW h \in 0 .. MaxId, NEW s \in Seq(1 .. h) PROVE s \in Seq(Ids)
<1>1. 1 .. h \subseteq Ids
  BY Limits DEF Ids
<1> QED BY <1>1, LongerSeq

LEMMA SoundFacts ==
  ASSUME Sound
  PROVE  /\ head \in 0 .. MaxId /\ head \in Nat /\ outbox \subseteq 1 .. head
         /\ phase \in {"down", "reading", "replaying", "live"}
         /\ channel \in Seq(1 .. head) /\ Len(channel) <= Buffer
         /\ tail \in Seq(1 .. head) /\ Len(tail) <= StoreCap
         /\ script \in Seq(1 .. head) /\ Len(script) <= HandlerCap
         /\ replayed \in Seq(1 .. head) /\ Len(replayed) <= Ring
         /\ written \in Seq(1 .. head)
         /\ at \in Nat /\ base \in Nat /\ lastId \in Nat
         /\ base <= at /\ at <= head /\ lastId <= head
         /\ dials \in 0 .. MaxDials /\ forgone \subseteq Ids
BY Limits DEF Sound, Typed, TypeOK, FromJournal

\* The positions alone.
LEMMA Positions ==
  ASSUME Sound
  PROVE  /\ {head, at, base, lastId, MaxId} \subseteq Nat
         /\ base <= at /\ at <= head /\ head <= MaxId /\ lastId <= head
         /\ outbox \subseteq 1 .. head /\ forgone \subseteq Ids
<1>1. head \in 0 .. MaxId /\ MaxId \in Nat
  BY SoundFacts, Limits
<1> QED BY <1>1, SoundFacts

LEMMA SoundCommit == ASSUME Sound, Commit PROVE Sound'
<1>0. /\ head' = head + 1 /\ outbox' = outbox \cup {head + 1} /\ head < MaxId
      /\ UNCHANGED <<phase, channel, reading, script, replayed, lastId, dials,
                     base, written, forgone>>
  BY DEF Commit
<1>1. head' \in 0 .. MaxId /\ head' \in Nat /\ outbox' \subseteq 1 .. head'
  <2>1. head \in Nat /\ outbox \subseteq 1 .. head
    BY SoundFacts
  <2>2. head' \in 0 .. MaxId /\ head' \in Nat
    BY <2>1, <1>0, Limits
  <2> QED BY <2>1, <2>2, <1>0
<1>2. 1 .. head \subseteq 1 .. head'
  BY <1>0, SoundFacts
<1>3. /\ channel' \in Seq(1 .. head') /\ tail' \in Seq(1 .. head')
      /\ script' \in Seq(1 .. head') /\ replayed' \in Seq(1 .. head')
      /\ written' \in Seq(1 .. head')
  BY <1>0, <1>2, SoundFacts, LongerSeq DEF reading
<1>4. base' <= at' /\ at' <= head' /\ lastId' <= head'
  BY <1>0, SoundFacts DEF reading
<1>5. TypeOK'
  BY <1>0, <1>1 DEF Sound, Typed, TypeOK, Ids, reading
<1>6. FromJournal'
  BY <1>3, <1>4 DEF FromJournal
<1>7. Rolling' /\ SkippedAreWritten'
  BY <1>0 DEF Sound, Rolling, SkippedAreWritten, reading
<1> QED BY <1>5, <1>6, <1>7 DEF Sound, Typed

LEMMA SoundBroadcast == ASSUME Sound, NEW e \in outbox, Broadcast(e) PROVE Sound'
<1>0. /\ outbox' = outbox \ {e} /\ e \in 1 .. head
      /\ channel' = (IF Listening /\ Matches(e) /\ Room THEN Append(channel, e) ELSE channel)
      /\ forgone' = (IF Listening /\ Matches(e) /\ ~Room THEN forgone \cup {e} ELSE forgone)
      /\ UNCHANGED <<head, phase, reading, script, replayed, lastId, dials, base, written>>
  BY SoundFacts DEF Broadcast
<1>1. channel' \in Seq(1 .. head) /\ Len(channel') <= Buffer
  <2>1. channel \in Seq(1 .. head) /\ Len(channel) <= Buffer /\ Len(channel) \in Nat
    BY SoundFacts
  <2>2. CASE Listening /\ Matches(e) /\ Room
    <3>1. channel' = Append(channel, e) /\ Len(channel) < Buffer
      BY <1>0, <2>2 DEF Room
    <3>2. Append(channel, e) \in Seq(1 .. head) /\ Len(Append(channel, e)) = Len(channel) + 1
      BY <2>1, <1>0
    <3> QED BY <3>1, <3>2, <2>1, Limits
  <2>3. CASE ~(Listening /\ Matches(e) /\ Room)
    BY <2>1, <2>3, <1>0
  <2> QED BY <2>2, <2>3
<1>2. forgone' \subseteq Ids
  BY <1>0, Positions DEF Ids
<1>3. channel' \in Seq(Ids)
  BY <1>1, SoundFacts, JournalIds
<1>4. TypeOK'
  BY <1>0, <1>1, <1>2, <1>3 DEF Sound, Typed, TypeOK, Ids, reading
<1>5. FromJournal'
  BY <1>0, <1>1 DEF Sound, Typed, FromJournal, reading
<1>6. Rolling' /\ SkippedAreWritten'
  BY <1>0 DEF Sound, Rolling, SkippedAreWritten, reading
<1> QED BY <1>4, <1>5, <1>6 DEF Sound, Typed

LEMMA SoundConnect == ASSUME Sound, Connect PROVE Sound'
<1>0. /\ phase' = "reading" /\ dials < MaxDials
      /\ channel' = << >> /\ replayed' = << >> /\ tail' = << >> /\ script' = << >>
      /\ at' = lastId /\ dials' = dials + 1 /\ base' = lastId
      /\ written' = << >> /\ forgone' = {} /\ lastId' = lastId
      /\ head' = head /\ outbox' = outbox
  BY DEF Connect, server
<1>1. \A S : << >> \in Seq(S) /\ Len(<< >>) = 0
  OBVIOUS
<1>2. TypeOK'
  BY <1>0, <1>1, Limits DEF Sound, Typed, TypeOK
<1>3. FromJournal'
  BY <1>0, <1>1, SoundFacts DEF FromJournal
<1>4. << >> = Newest(Between(lastId, lastId), StoreCap)
  <2>1. Between(lastId, lastId) \in Seq(lastId + 1 .. lastId) /\ Len(Between(lastId, lastId)) = 0
    <3>1. lastId \in Nat /\ lastId <= lastId /\ lastId - lastId = 0
      BY SoundFacts
    <3> QED BY <3>1, BetweenFacts
  <2>2. Newest(Between(lastId, lastId), StoreCap) = Between(lastId, lastId)
    <3>1. Len(Between(lastId, lastId)) <= StoreCap
      BY <2>1, Limits
    <3> QED BY <3>1, <2>1, NewestOfFew, Limits
  <2>3. Between(lastId, lastId) = << >>
    BY <2>1
  <2> QED BY <2>2, <2>3
<1>5. Rolling'
  <2>1. (Newest(Between(base, at), StoreCap))' = Newest(Between(lastId, lastId), StoreCap)
    BY <1>0 DEF Newest, Between
  <2> QED BY <2>1, <1>0, <1>4 DEF Rolling
<1>6. SkippedAreWritten'
  BY <1>0 DEF SkippedAreWritten
<1> QED BY <1>2, <1>3, <1>5, <1>6 DEF Sound, Typed

LEMMA SoundReadPage == ASSUME Sound, ReadPage PROVE Sound'
<1>0. /\ PageEnd \in Nat /\ base <= PageEnd /\ at <= PageEnd /\ PageEnd <= head
      /\ at' = PageEnd /\ tail' = Tailed
      /\ Tailed \in Seq(1 .. PageEnd) /\ Len(Tailed) <= StoreCap /\ Rising(Tailed)
      /\ phase = "reading"
      /\ head' = head /\ outbox' = outbox
      /\ UNCHANGED <<channel, lastId, dials, base, written>>
  BY PageRead DEF ReadPage, server
<1>1. 1 .. PageEnd \subseteq 1 .. head
  BY <1>0, SoundFacts
<1>2. tail' \in Seq(1 .. head) /\ Len(tail') <= StoreCap
  BY <1>0, <1>1, LongerSeq
<1>3. base + 1 .. PageEnd \subseteq Ids
  <2>1. base \in Nat /\ PageEnd \in Nat /\ PageEnd <= MaxId
    BY <1>0, Positions
  <2> QED BY <2>1, Limits DEF Ids
<1>4. CASE /\ PageEnd = head /\ Replay(Adjust(Tailed))
           /\ forgone' = forgone \cup ((base + 1 .. PageEnd) \ ToSet(Adjust(Tailed)))
  <2> DEFINE kept == Adjust(Tailed)
  <2>1. kept \in Seq(1 .. head) /\ Rising(kept) /\ Len(kept) <= HandlerCap
    BY <1>0, <1>4, AdjustFacts
  <2>2. Replay(kept)
    BY <1>4
  <2> HIDE DEF kept
  <2>3. /\ phase' = "replaying" /\ script' = kept
        /\ replayed' \in Seq(1 .. head) /\ Len(replayed') <= Ring
        /\ ToSet(replayed') \subseteq ToSet(kept)
    BY <2>1, <2>2, ReplayFacts, SoundFacts
  <2>4. forgone' \subseteq Ids
    BY <1>3, <1>4, SoundFacts
  <2>5. head \in 0 .. MaxId
    BY SoundFacts
  <2>6. tail' \in Seq(Ids) /\ script' \in Seq(Ids) /\ replayed' \in Seq(Ids)
    BY <1>2, <2>1, <2>3, <2>5, JournalIds
  <2>7. at' \in 0 .. MaxId
    BY <1>0, Positions
  <2>8. TypeOK'
    BY <1>0, <1>2, <2>1, <2>3, <2>4, <2>6, <2>7 DEF Sound, Typed, TypeOK
  <2>9. FromJournal'
    BY <1>0, <1>2, <2>1, <2>3, SoundFacts DEF FromJournal
  <2>10. Rolling' /\ SkippedAreWritten'
    BY <2>3 DEF Rolling, SkippedAreWritten
  <2> QED BY <2>8, <2>9, <2>10 DEF Sound, Typed
<1>5. CASE /\ UNCHANGED <<phase, script, replayed>>
           /\ forgone' = forgone \cup ((base + 1 .. PageEnd) \ ToSet(Tailed))
  <2>1. forgone' \subseteq Ids
    BY <1>3, <1>5, SoundFacts
  <2>2. head \in 0 .. MaxId
    BY SoundFacts
  <2>3. tail' \in Seq(Ids)
    BY <1>2, <2>2, JournalIds
  <2>4. at' \in 0 .. MaxId
    BY <1>0, Positions
  <2>5. TypeOK'
    BY <1>0, <1>2, <1>5, <2>1, <2>3, <2>4 DEF Sound, Typed, TypeOK
  <2>6. FromJournal'
    BY <1>0, <1>2, <1>5, SoundFacts DEF FromJournal
  <2>7. Rolling'
    <3>1. (Newest(Between(base, at), StoreCap))' = Newest(Between(base, PageEnd), StoreCap)
      BY <1>0 DEF Newest, Between
    <3>2. script' = << >> /\ written' = << >>
      BY <1>0, <1>5 DEF Sound, Rolling
    <3> QED BY <3>1, <3>2, <1>0 DEF Rolling, Tailed
  <2>8. SkippedAreWritten'
    BY <1>0, <1>5 DEF SkippedAreWritten
  <2> QED BY <2>5, <2>6, <2>7, <2>8 DEF Sound, Typed
<1> QED BY PageRead, <1>4, <1>5

LEMMA SoundReadFails == ASSUME Sound, ReadFails PROVE Sound'
<1>0. /\ phase' = "replaying" /\ script' = << >> /\ replayed' = << >> /\ tail' = << >>
      /\ forgone' = forgone \cup (base + 1 .. head)
      /\ head' = head /\ outbox' = outbox
      /\ UNCHANGED <<channel, at, lastId, dials, base, written>>
  BY ReplayNothing DEF ReadFails, server
<1>1. \A S : << >> \in Seq(S) /\ Len(<< >>) = 0
  OBVIOUS
<1>2. forgone' \subseteq Ids
  <2>1. base + 1 .. head \subseteq 1 .. MaxId
    BY Positions
  <2>2. forgone \subseteq Ids
    BY SoundFacts
  <2> QED BY <1>0, <2>1, <2>2 DEF Ids
<1>3. TypeOK'
  BY <1>0, <1>1, <1>2, Limits DEF Sound, Typed, TypeOK
<1>4. FromJournal'
  BY <1>0, <1>1, SoundFacts DEF FromJournal
<1>5. Rolling' /\ SkippedAreWritten'
  BY <1>0, ElementsOfEmpty DEF Rolling, SkippedAreWritten
<1> QED BY <1>3, <1>4, <1>5 DEF Sound, Typed

LEMMA SoundReplayOne == ASSUME Sound, ReplayOne PROVE Sound'
<1>0. /\ phase = "replaying" /\ phase' = phase /\ script # << >>
      /\ script' = Tail(script) /\ lastId' = Head(script)
      /\ written' = Append(written, Head(script))
      /\ head' = head /\ outbox' = outbox
      /\ UNCHANGED <<channel, reading, replayed, dials, base, forgone>>
  BY DEF ReplayOne, Write, server
<1>1. /\ Head(script) \in 1 .. head /\ script' \in Seq(1 .. head)
      /\ Len(script') = Len(script) - 1 /\ Len(script) \in Nat
      /\ ToSet(script) = {Head(script)} \cup ToSet(script')
  <2>1. script \in Seq(1 .. head) /\ Len(script) \in Nat
    BY SoundFacts
  <2> QED BY <2>1, <1>0, ElementsOfTail
<1>2. written' \in Seq(1 .. head) /\ ToSet(written') = ToSet(written) \cup {Head(script)}
  BY <1>0, <1>1, SoundFacts, ElementsOfAppend
<1>3. Len(script') <= HandlerCap
  BY <1>1, SoundFacts, Limits
<1>4. head \in 0 .. MaxId
  BY SoundFacts
<1>5. script' \in Seq(Ids) /\ written' \in Seq(Ids)
  BY <1>1, <1>2, <1>4, JournalIds
<1>6. lastId' \in 0 .. MaxId /\ lastId' <= head
  BY <1>0, <1>1, <1>4, Limits
<1>7. TypeOK'
  BY <1>0, <1>3, <1>5, <1>6 DEF Sound, Typed, TypeOK, reading
<1>8. FromJournal'
  BY <1>0, <1>1, <1>2, <1>6 DEF Sound, Typed, FromJournal, reading
<1>9. Rolling'
  BY <1>0 DEF Rolling
<1>10. SkippedAreWritten'
  <2>1. ToSet(replayed) \subseteq ToSet(written) \cup ToSet(script)
    BY <1>0 DEF Sound, SkippedAreWritten
  <2>2. ToSet(replayed)' \subseteq ToSet(written)' \cup ToSet(script)'
    BY <2>1, <1>0, <1>1, <1>2
  <2> QED BY <2>2, <1>0 DEF SkippedAreWritten
<1> QED BY <1>7, <1>8, <1>9, <1>10 DEF Sound, Typed

LEMMA SoundGoLive == ASSUME Sound, GoLive PROVE Sound'
<1>0. /\ phase = "replaying" /\ script = << >> /\ phase' = "live"
      /\ head' = head /\ outbox' = outbox
      /\ UNCHANGED <<channel, reading, script, replayed, lastId, dials,
                     base, written, forgone>>
  BY DEF GoLive, server
<1>1. TypeOK'
  BY <1>0 DEF Sound, Typed, TypeOK, reading
<1>2. FromJournal'
  BY <1>0 DEF Sound, Typed, FromJournal, reading
<1>3. Rolling' /\ SkippedAreWritten'
  BY <1>0 DEF Sound, Rolling, SkippedAreWritten
<1> QED BY <1>1, <1>2, <1>3 DEF Sound, Typed

LEMMA SoundPump == ASSUME Sound, Pump PROVE Sound'
<1>0. /\ phase = "live" /\ phase' = phase /\ channel # << >>
      /\ channel' = Tail(channel)
      /\ head' = head /\ outbox' = outbox
      /\ UNCHANGED <<reading, script, replayed, dials, base, forgone>>
      /\ \/ UNCHANGED <<lastId, written>>
         \/ lastId' = Head(channel) /\ written' = Append(written, Head(channel))
  BY DEF Pump, Write, server
<1>1. /\ Head(channel) \in 1 .. head /\ channel' \in Seq(1 .. head)
      /\ Len(channel') = Len(channel) - 1 /\ Len(channel) \in Nat
  BY <1>0, SoundFacts, ElementsOfTail
<1>2. written' \in Seq(1 .. head) /\ ToSet(written) \subseteq ToSet(written')
  <2>1. written \in Seq(1 .. head)
    BY SoundFacts
  <2>2. CASE UNCHANGED <<lastId, written>>
    BY <2>1, <2>2
  <2>3. CASE written' = Append(written, Head(channel))
    <3>1. /\ Append(written, Head(channel)) \in Seq(1 .. head)
          /\ ToSet(Append(written, Head(channel))) = ToSet(written) \cup {Head(channel)}
      <4> DEFINE S == 1 .. head
                 h == Head(channel)
      <4>1. written \in Seq(S) /\ h \in S
        BY <2>1, <1>1
      <4> HIDE DEF S, h
      <4>2. Append(written, h) \in Seq(S) /\ ToSet(Append(written, h)) = ToSet(written) \cup {h}
        BY <4>1, ElementsOfAppend
      <4> QED BY <4>2 DEF S, h
    <3> QED BY <3>1, <2>3
  <2> QED BY <2>2, <2>3, <1>0
<1>3. Len(channel') <= Buffer
  BY <1>1, SoundFacts, Limits
<1>4. head \in 0 .. MaxId
  BY SoundFacts
<1>5. channel' \in Seq(Ids) /\ written' \in Seq(Ids)
  BY <1>1, <1>2, <1>4, JournalIds
<1>6. lastId' \in 0 .. MaxId /\ lastId' <= head
  <2>1. lastId \in Nat /\ lastId <= head /\ head \in Nat
    BY SoundFacts
  <2>2. lastId' \in Nat /\ lastId' <= head
    BY <2>1, <1>0, <1>1
  <2> QED BY <2>1, <2>2, <1>4, Limits
<1>7. TypeOK'
  BY <1>0, <1>3, <1>5, <1>6 DEF Sound, Typed, TypeOK, reading
<1>8. FromJournal'
  BY <1>0, <1>1, <1>2, <1>6 DEF Sound, Typed, FromJournal, reading
<1>9. Rolling'
  BY <1>0 DEF Rolling
<1>10. SkippedAreWritten'
  <2>1. ToSet(replayed) \subseteq ToSet(written) \cup ToSet(script) /\ script = << >>
    BY <1>0 DEF Sound, SkippedAreWritten
  <2>2. ToSet(replayed)' \subseteq ToSet(written)' \cup ToSet(script)'
    BY <2>1, <1>0, <1>2
  <2> QED BY <2>1, <2>2, <1>0 DEF SkippedAreWritten
<1> QED BY <1>7, <1>8, <1>9, <1>10 DEF Sound, Typed

LEMMA SoundDisconnect == ASSUME Sound, Disconnect PROVE Sound'
<1>0. /\ phase' = "down"
      /\ channel' = << >> /\ script' = << >> /\ replayed' = << >> /\ tail' = << >>
      /\ head' = head /\ outbox' = outbox
      /\ UNCHANGED <<at, lastId, dials, base, written, forgone>>
  BY DEF Disconnect, server
<1>1. \A S : << >> \in Seq(S) /\ Len(<< >>) = 0
  OBVIOUS
<1>2. TypeOK'
  BY <1>0, <1>1, Limits DEF Sound, Typed, TypeOK
<1>3. FromJournal'
  BY <1>0, <1>1 DEF Sound, Typed, FromJournal
<1>4. Rolling' /\ SkippedAreWritten'
  BY <1>0 DEF Rolling, SkippedAreWritten
<1> QED BY <1>2, <1>3, <1>4 DEF Sound, Typed

LEMMA SoundStutter == ASSUME Sound, UNCHANGED vars PROVE Sound'
<1>1. /\ head' = head /\ outbox' = outbox
      /\ UNCHANGED <<phase, channel, at, tail, script, replayed, lastId, dials,
                     base, written, forgone>>
  BY DEF vars, server, reading
<1>2. TypeOK'
  BY <1>1 DEF Sound, Typed, TypeOK
<1>3. FromJournal' /\ Rolling' /\ SkippedAreWritten'
  BY <1>1 DEF Sound, Typed, FromJournal, Rolling, SkippedAreWritten
<1> QED BY <1>2, <1>3 DEF Sound, Typed

LEMMA SoundStep == Sound /\ [Next]_vars => Sound'
<1> SUFFICES ASSUME Sound, [Next]_vars PROVE Sound'
  OBVIOUS
<1>1. CASE Commit
  BY <1>1, SoundCommit
<1>2. ASSUME NEW e \in outbox, Broadcast(e) PROVE Sound'
  BY <1>2, SoundBroadcast
<1>3. CASE Connect
  BY <1>3, SoundConnect
<1>4. CASE ReadPage
  BY <1>4, SoundReadPage
<1>5. CASE ReadFails
  BY <1>5, SoundReadFails
<1>6. CASE ReplayOne
  BY <1>6, SoundReplayOne
<1>7. CASE GoLive
  BY <1>7, SoundGoLive
<1>8. CASE Pump
  BY <1>8, SoundPump
<1>9. CASE Disconnect
  BY <1>9, SoundDisconnect
<1>10. CASE UNCHANGED vars
  BY <1>10, SoundStutter
<1> QED BY <1>1, <1>2, <1>3, <1>4, <1>5, <1>6, <1>7, <1>8, <1>9, <1>10 DEF Next

-----------------------------------------------------------------------------
(* Nothing is lost at the seam.                                             *)

\* Where an event after the cursor of the connection may be.
Accounted(e) ==
  \/ ~Matches(e)
  \/ e \in ToSet(written) \cup ToSet(script) \cup ToSet(channel)
  \/ e \in outbox \cup forgone
  \/ phase = "reading" /\ (e > at \/ Contains(tail, e))

LEMMA AccountedFor ==
  NothingLostOnConnection <=> (phase # "down" => \A e \in base + 1 .. head : Accounted(e))
BY DEF NothingLostOnConnection, Accounted

LEMMA ContainsElement == \A s, e : Contains(s, e) <=> e \in ToSet(s)
BY DEF Contains, ToSet

LEMMA SeamCommit == ASSUME Seam, Commit PROVE NothingLostOnConnection'
<1>0. /\ head' = head + 1 /\ outbox' = outbox \cup {head + 1}
      /\ UNCHANGED <<phase, channel, at, tail, script, base, written, forgone>>
  BY DEF Commit, reading
<1>1. head \in Nat /\ base \in Nat
  BY SoundFacts DEF Seam
<1>2. SUFFICES ASSUME phase' # "down", NEW e \in base' + 1 .. head' PROVE Accounted(e)'
  BY AccountedFor DEF NothingLostOnConnection, Accounted
<1>3. CASE e = head + 1
  BY <1>3, <1>0 DEF Accounted
<1>4. CASE e # head + 1
  <2>1. e \in base + 1 .. head
    BY <1>0, <1>1, <1>4
  <2>2. Accounted(e)
    BY <2>1, <1>0, <1>2, AccountedFor DEF Seam
  <2> QED BY <2>2, <1>0 DEF Accounted
<1> QED BY <1>3, <1>4

LEMMA SeamBroadcast ==
  ASSUME Seam, NEW x \in outbox, Broadcast(x) PROVE NothingLostOnConnection'
<1>0. /\ outbox' = outbox \ {x}
      /\ channel' = (IF Listening /\ Matches(x) /\ Room THEN Append(channel, x) ELSE channel)
      /\ forgone' = (IF Listening /\ Matches(x) /\ ~Room THEN forgone \cup {x} ELSE forgone)
      /\ UNCHANGED <<head, phase, at, tail, script, base, written>>
  BY DEF Broadcast, reading
<1>1. channel \in Seq(1 .. head) /\ x \in 1 .. head
  BY SoundFacts DEF Seam
<1>2. ToSet(Append(channel, x)) = ToSet(channel) \cup {x}
  <2> DEFINE S == 1 .. head
  <2>1. channel \in Seq(S) /\ x \in S
    BY <1>1
  <2> HIDE DEF S
  <2> QED BY <2>1, ElementsOfAppend
<1>3. ToSet(channel) \subseteq ToSet(channel')
  BY <1>0, <1>2
<1>4. SUFFICES ASSUME phase' # "down", NEW e \in base' + 1 .. head' PROVE Accounted(e)'
  BY AccountedFor DEF NothingLostOnConnection, Accounted
<1>5. Accounted(e)
  BY <1>0, <1>4, AccountedFor DEF Seam
<1>6. CASE e = x /\ Matches(x)
  <2>1. Listening
    BY <1>0, <1>4 DEF Listening
  <2>2. x \in ToSet(channel') \/ x \in forgone'
    BY <2>1, <1>0, <1>2, <1>6
  <2> QED BY <2>2, <1>6 DEF Accounted
<1>7. CASE ~(e = x /\ Matches(x))
  <2>1. forgone \subseteq forgone'
    BY <1>0
  <2> QED BY <2>1, <1>7, <1>5, <1>3, <1>0 DEF Accounted, Matches
<1> QED BY <1>6, <1>7

LEMMA SeamConnect == ASSUME Seam, Connect PROVE NothingLostOnConnection'
<1>1. phase' = "reading" /\ at' = lastId /\ base' = lastId /\ head' = head
  BY DEF Connect, server
<1>2. head \in Nat /\ lastId \in Nat
  BY SoundFacts DEF Seam
<1>3. \A e \in base' + 1 .. head' : e > at'
  BY <1>1, <1>2
<1> QED BY <1>1, <1>3 DEF NothingLostOnConnection

LEMMA SeamReadPage == ASSUME Seam, ReadPage PROVE NothingLostOnConnection'
<1>0. /\ PageEnd \in Nat /\ PageEnd <= head /\ head \in Nat /\ base \in Nat
      /\ at' = PageEnd /\ tail' = Tailed
      /\ phase = "reading" /\ head' = head /\ base' = base
  BY SoundFacts, PageRead DEF Seam, ReadPage, server
<1>1. CASE /\ PageEnd = head /\ Replay(Adjust(Tailed))
           /\ forgone' = forgone \cup ((base + 1 .. PageEnd) \ ToSet(Adjust(Tailed)))
  <2>1. script' = Adjust(Tailed)
    BY <1>1 DEF Replay
  <2>2. \A e \in base + 1 .. head : e \in ToSet(script') \/ e \in forgone'
    BY <2>1, <1>1
  <2> QED BY <2>2, <1>0 DEF NothingLostOnConnection
<1>2. CASE /\ UNCHANGED <<phase, script, replayed>>
           /\ forgone' = forgone \cup ((base + 1 .. PageEnd) \ ToSet(Tailed))
  <2>1. ASSUME NEW e \in base + 1 .. head
        PROVE  e > at' \/ Contains(tail', e) \/ e \in forgone'
    <3>1. CASE e \in base + 1 .. PageEnd
      BY <3>1, <1>0, <1>2, ContainsElement
    <3>2. CASE e \notin base + 1 .. PageEnd
      BY <3>2, <1>0
    <3> QED BY <3>1, <3>2
  <2> QED BY <2>1, <1>0, <1>2 DEF NothingLostOnConnection
<1> QED BY PageRead, <1>1, <1>2 DEF Seam

LEMMA SeamReadFails == ASSUME Seam, ReadFails PROVE NothingLostOnConnection'
<1>1. forgone' = forgone \cup (base + 1 .. head) /\ head' = head /\ base' = base
  BY DEF ReadFails, server
<1> QED BY <1>1 DEF NothingLostOnConnection

LEMMA SeamReplayOne == ASSUME Seam, ReplayOne PROVE NothingLostOnConnection'
<1>0. /\ phase = "replaying" /\ phase' = phase /\ script # << >>
      /\ script' = Tail(script) /\ written' = Append(written, Head(script))
      /\ UNCHANGED <<head, outbox, channel, at, tail, base, forgone>>
  BY DEF ReplayOne, Write, server, reading
<1>1. /\ Head(script) \in 1 .. head
      /\ ToSet(script) = {Head(script)} \cup ToSet(Tail(script))
  BY <1>0, SoundFacts, ElementsOfTail DEF Seam
<1>2. ToSet(Append(written, Head(script))) = ToSet(written) \cup {Head(script)}
  BY <1>1, SoundFacts, ElementsOfAppend DEF Seam
<1>3. ToSet(written') \cup ToSet(script') = ToSet(written) \cup ToSet(script)
  BY <1>0, <1>1, <1>2
<1>4. SUFFICES ASSUME phase' # "down", NEW e \in base' + 1 .. head' PROVE Accounted(e)'
  BY AccountedFor DEF NothingLostOnConnection, Accounted
<1>5. Accounted(e)
  BY <1>0, <1>4, AccountedFor DEF Seam
<1> QED BY <1>0, <1>3, <1>5 DEF Accounted

LEMMA SeamPump == ASSUME Seam, Pump PROVE NothingLostOnConnection'
<1>0. /\ phase = "live" /\ phase' = phase /\ channel # << >>
      /\ channel' = Tail(channel)
      /\ written' = (IF Contains(replayed, Head(channel)) THEN written
                     ELSE Append(written, Head(channel)))
      /\ UNCHANGED <<head, outbox, at, tail, script, base, forgone>>
  BY DEF Pump, Write, IsReplayDuplicate, server, reading
<1>1. /\ Head(channel) \in 1 .. head
      /\ ToSet(channel) = {Head(channel)} \cup ToSet(Tail(channel))
  BY <1>0, SoundFacts, ElementsOfTail DEF Seam
<1>2. ToSet(Append(written, Head(channel))) = ToSet(written) \cup {Head(channel)}
  BY <1>1, SoundFacts, ElementsOfAppend DEF Seam
<1>3. ToSet(replayed) \subseteq ToSet(written)
  BY <1>0, ElementsOfEmpty DEF Seam, Sound, SkippedAreWritten
<1>4. ToSet(written') = ToSet(written) \cup {Head(channel)}
  <2>1. CASE Contains(replayed, Head(channel))
    <3>1. Head(channel) \in ToSet(written)
      BY <2>1, <1>3, ContainsElement
    <3> QED BY <3>1, <2>1, <1>0
  <2>2. CASE ~Contains(replayed, Head(channel))
    BY <2>2, <1>0, <1>2
  <2> QED BY <2>1, <2>2
<1>5. SUFFICES ASSUME phase' # "down", NEW e \in base' + 1 .. head' PROVE Accounted(e)'
  BY AccountedFor DEF NothingLostOnConnection, Accounted
<1>6. Accounted(e)
  BY <1>0, <1>5, AccountedFor DEF Seam
<1> QED BY <1>0, <1>1, <1>4, <1>6 DEF Accounted

LEMMA SeamStep == Seam /\ [Next]_vars => Seam'
<1> SUFFICES ASSUME Seam, [Next]_vars PROVE NothingLostOnConnection'
  BY SoundStep DEF Seam
<1>1. CASE Commit
  BY <1>1, SeamCommit
<1>2. ASSUME NEW e \in outbox, Broadcast(e) PROVE NothingLostOnConnection'
  BY <1>2, SeamBroadcast
<1>3. CASE Connect
  BY <1>3, SeamConnect
<1>4. CASE ReadPage
  BY <1>4, SeamReadPage
<1>5. CASE ReadFails
  BY <1>5, SeamReadFails
<1>6. CASE ReplayOne
  BY <1>6, SeamReplayOne
<1>7. CASE GoLive
  <2>1. /\ phase = "replaying" /\ phase' = "live"
        /\ UNCHANGED <<head, outbox, channel, at, tail, script, base, written, forgone>>
    BY <1>7 DEF GoLive, server, reading
  <2> QED BY <2>1 DEF Seam, NothingLostOnConnection
<1>8. CASE Pump
  BY <1>8, SeamPump
<1>9. CASE Disconnect
  BY <1>9 DEF Disconnect, NothingLostOnConnection
<1>10. CASE UNCHANGED vars
  <2>1. UNCHANGED <<head, outbox, phase, channel, at, tail, script, base, written, forgone>>
    BY <1>10 DEF vars, server, reading
  <2> QED BY <2>1 DEF Seam, NothingLostOnConnection
<1> QED BY <1>1, <1>2, <1>3, <1>4, <1>5, <1>6, <1>7, <1>8, <1>9, <1>10 DEF Next

-----------------------------------------------------------------------------
(* No event is written twice on one connection.                             *)

LEMMA InJournal ==
  ASSUME Sound
  PROVE  /\ ToSet(written) \subseteq 1 .. head /\ ToSet(channel) \subseteq 1 .. head
         /\ outbox \subseteq 1 .. head /\ head \in Nat
BY SoundFacts, ElementsOf

LEMMA OnceCommit ==
  ASSUME Once, Commit
  PROVE  IsInjective(written)' /\ HandedOverOnce' /\ ReplayedOnce' /\ WrittenIsOver'
<1>0. /\ outbox' = outbox \cup {head + 1}
      /\ UNCHANGED <<phase, channel, script, replayed, written>>
  BY DEF Commit
<1>1. head + 1 \notin ToSet(written) /\ head + 1 \notin ToSet(channel)
  BY InJournal DEF Once
<1>2. HandedOverOnce'
  BY <1>0, <1>1 DEF Once, HandedOverOnce
<1>3. IsInjective(written)' /\ ReplayedOnce'
  BY <1>0 DEF Once, ReplayedOnce
<1>4. WrittenIsOver'
  BY <1>0, <1>1 DEF Once, WrittenIsOver
<1> QED BY <1>2, <1>3, <1>4

LEMMA OnceBroadcast ==
  ASSUME Once, NEW x \in outbox, Broadcast(x)
  PROVE  IsInjective(written)' /\ HandedOverOnce' /\ ReplayedOnce' /\ WrittenIsOver'
<1>0. /\ outbox' = outbox \ {x}
      /\ channel' = Append(channel, x) \/ channel' = channel
      /\ UNCHANGED <<phase, script, replayed, written>>
  BY DEF Broadcast
<1>1. /\ channel \in Seq(1 .. head) /\ x \in 1 .. head
      /\ IsInjective(channel) /\ x \notin ToSet(channel)
  BY SoundFacts DEF Once, HandedOverOnce
<1>2. /\ ToSet(Append(channel, x)) = ToSet(channel) \cup {x}
      /\ IsInjective(Append(channel, x))
  <2> DEFINE S == 1 .. head
  <2>1. channel \in Seq(S) /\ x \in S
    BY <1>1
  <2> HIDE DEF S
  <2> QED BY <2>1, <1>1, ElementsOfAppend
<1>3. IsInjective(channel') /\ ToSet(channel') \subseteq ToSet(channel) \cup {x}
  BY <1>0, <1>1, <1>2
<1>4. HandedOverOnce'
  BY <1>0, <1>3 DEF Once, HandedOverOnce
<1>5. IsInjective(written)' /\ ReplayedOnce'
  BY <1>0 DEF Once, ReplayedOnce
<1>6. WrittenIsOver'
  BY <1>0, <1>3 DEF Once, WrittenIsOver
<1> QED BY <1>4, <1>5, <1>6

LEMMA OnceReadPage ==
  ASSUME RingHoldsReplay, Once, ReadPage
  PROVE  IsInjective(written)' /\ HandedOverOnce' /\ ReplayedOnce' /\ WrittenIsOver'
<1>0. /\ UNCHANGED <<outbox, channel, written>>
      /\ phase = "reading" /\ written = << >>
      /\ head \in Nat /\ PageEnd \in Nat /\ Tailed \in Seq(1 .. PageEnd)
      /\ Len(Tailed) <= StoreCap /\ Rising(Tailed) /\ Len(Tailed) \in Nat
  BY PageRead, SoundFacts DEF Once, ReadPage, server, Sound, Rolling
<1>1. HandedOverOnce' /\ IsInjective(written)'
  BY <1>0 DEF Once, HandedOverOnce
<1>2. CASE /\ PageEnd = head /\ Replay(Adjust(Tailed))
  <2> DEFINE kept == Adjust(Tailed)
  <2>1. /\ kept \in Seq(1 .. PageEnd) /\ Rising(kept)
        /\ Len(kept) <= HandlerCap /\ Len(kept) <= Len(Tailed)
    BY <1>0, AdjustFacts
  <2>2. Replay(kept)
    BY <1>2
  <2> HIDE DEF kept
  <2>3. Len(kept) <= Ring
    <3>1. Len(kept) \in Nat
      BY <2>1
    <3> QED BY <3>1, <2>1, <1>0, Limits DEF RingHoldsReplay
  <2>4. phase' = "replaying" /\ script' = kept /\ IsInjective(kept) /\ replayed' = kept
    BY <2>1, <2>2, <2>3, <1>0, ReplayFacts
  <2>5. ToSet(written') = {}
    BY <1>0, ElementsOfEmpty
  <2>6. ReplayedOnce' /\ WrittenIsOver'
    BY <2>4, <2>5 DEF ReplayedOnce, WrittenIsOver
  <2> QED BY <1>1, <2>6
<1>3. CASE UNCHANGED <<phase, script, replayed>>
  BY <1>0, <1>1, <1>3 DEF ReplayedOnce, WrittenIsOver
<1> QED BY PageRead, <1>2, <1>3 DEF Once

LEMMA OnceReadFails ==
  ASSUME Once, ReadFails
  PROVE  IsInjective(written)' /\ HandedOverOnce' /\ ReplayedOnce' /\ WrittenIsOver'
<1>0. /\ phase' = "replaying" /\ script' = << >> /\ written' = << >> /\ written = << >>
      /\ UNCHANGED <<outbox, channel>>
  BY ReplayNothing DEF ReadFails, server, Once, Sound, Rolling
<1>1. HandedOverOnce' /\ IsInjective(written)'
  BY <1>0, ElementsOfEmpty DEF Once, HandedOverOnce
<1>2. ReplayedOnce' /\ WrittenIsOver'
  BY <1>0, ElementsOfEmpty DEF ReplayedOnce, WrittenIsOver
<1> QED BY <1>1, <1>2

LEMMA OnceReplayOne ==
  ASSUME Once, ReplayOne
  PROVE  IsInjective(written)' /\ HandedOverOnce' /\ ReplayedOnce' /\ WrittenIsOver'
<1> DEFINE x == Head(script)
<1>0. /\ phase = "replaying" /\ phase' = phase /\ script # << >>
      /\ script' = Tail(script) /\ written' = Append(written, x)
      /\ UNCHANGED <<outbox, channel, replayed>>
  BY DEF ReplayOne, Write, server
<1>1. /\ IsInjective(script) /\ ToSet(script) \cap ToSet(written) = {}
      /\ ToSet(script) \cup ToSet(written) \subseteq ToSet(replayed)
  BY <1>0 DEF Once, ReplayedOnce
<1>2. /\ x \in 1 .. head /\ ToSet(script) = {x} \cup ToSet(Tail(script))
      /\ IsInjective(Tail(script)) /\ x \notin ToSet(Tail(script))
  BY <1>0, <1>1, SoundFacts, ElementsOfTail DEF Once
<1>3. /\ ToSet(Append(written, x)) = ToSet(written) \cup {x}
      /\ IsInjective(Append(written, x))
  <2> DEFINE S == 1 .. head
  <2>1. written \in Seq(S) /\ x \in S /\ IsInjective(written) /\ x \notin ToSet(written)
    BY <1>1, <1>2, SoundFacts DEF Once
  <2> HIDE DEF S, x
  <2> QED BY <2>1, ElementsOfAppend
<1> HIDE DEF x
<1>4. HandedOverOnce' /\ IsInjective(written)'
  BY <1>0, <1>3 DEF Once, HandedOverOnce
<1>5. ReplayedOnce'
  BY <1>0, <1>1, <1>2, <1>3 DEF ReplayedOnce
<1>6. WrittenIsOver'
  BY <1>0 DEF WrittenIsOver
<1> QED BY <1>4, <1>5, <1>6

LEMMA OnceGoLive ==
  ASSUME Once, GoLive
  PROVE  IsInjective(written)' /\ HandedOverOnce' /\ ReplayedOnce' /\ WrittenIsOver'
<1>0. /\ phase = "replaying" /\ phase' = "live"
      /\ UNCHANGED <<outbox, channel, replayed, written>>
  BY DEF GoLive, server
<1>1. HandedOverOnce' /\ IsInjective(written)' /\ ReplayedOnce'
  BY <1>0 DEF Once, HandedOverOnce, ReplayedOnce
<1>2. WrittenIsOver'
  BY <1>0 DEF Once, ReplayedOnce, WrittenIsOver
<1> QED BY <1>1, <1>2

LEMMA OncePump ==
  ASSUME Once, Pump
  PROVE  IsInjective(written)' /\ HandedOverOnce' /\ ReplayedOnce' /\ WrittenIsOver'
<1> DEFINE x == Head(channel)
<1>0. /\ phase = "live" /\ phase' = phase /\ channel # << >>
      /\ channel' = Tail(channel)
      /\ written' = (IF Contains(replayed, x) THEN written ELSE Append(written, x))
      /\ UNCHANGED <<outbox, replayed>>
  BY DEF Pump, Write, IsReplayDuplicate, server
<1>1. /\ x \in 1 .. head /\ ToSet(channel) = {x} \cup ToSet(Tail(channel))
      /\ IsInjective(Tail(channel)) /\ x \notin ToSet(Tail(channel)) /\ x \notin outbox
  <2>1. channel \in Seq(1 .. head) /\ IsInjective(channel) /\ ToSet(channel) \cap outbox = {}
    BY SoundFacts DEF Once, HandedOverOnce
  <2>2. /\ x \in 1 .. head /\ ToSet(channel) = {x} \cup ToSet(Tail(channel))
        /\ IsInjective(Tail(channel)) /\ x \notin ToSet(Tail(channel))
    BY <2>1, <1>0, ElementsOfTail
  <2> QED BY <2>1, <2>2
<1>2. HandedOverOnce'
  BY <1>0, <1>1 DEF Once, HandedOverOnce
<1>3. ReplayedOnce'
  BY <1>0 DEF ReplayedOnce
<1>4. CASE Contains(replayed, x)
  <2>1. WrittenIsOver'
    BY <1>0, <1>1, <1>4 DEF Once, WrittenIsOver
  <2>2. IsInjective(written)'
    BY <1>0, <1>4 DEF Once
  <2> QED BY <2>1, <2>2, <1>2, <1>3
<1>5. CASE ~Contains(replayed, x)
  <2>1. x \notin ToSet(written)
    BY <1>0, <1>1, <1>5, ContainsElement DEF Once, WrittenIsOver
  <2>2. /\ ToSet(Append(written, x)) = ToSet(written) \cup {x}
        /\ IsInjective(Append(written, x))
    <3> DEFINE S == 1 .. head
    <3>1. written \in Seq(S) /\ x \in S /\ IsInjective(written) /\ x \notin ToSet(written)
      BY <2>1, <1>1, SoundFacts DEF Once
    <3> HIDE DEF S, x
    <3> QED BY <3>1, ElementsOfAppend
  <2>3. written' = Append(written, x)
    BY <1>0, <1>5
  <2> HIDE DEF x
  <2>4. ToSet(written') = ToSet(written) \cup {x} /\ IsInjective(written')
    BY <2>2, <2>3
  <2>5. WrittenIsOver'
    BY <1>0, <1>1, <2>4 DEF Once, WrittenIsOver
  <2> QED BY <2>4, <2>5, <1>2, <1>3
<1> QED BY <1>4, <1>5

LEMMA OnceStep == RingHoldsReplay /\ Once /\ [Next]_vars => Once'
<1> DEFINE Goal == IsInjective(written)' /\ HandedOverOnce' /\ ReplayedOnce' /\ WrittenIsOver'
<1> SUFFICES ASSUME RingHoldsReplay, Once, [Next]_vars PROVE Goal
  BY SoundStep DEF Once
<1>1. CASE Commit
  BY <1>1, OnceCommit
<1>2. ASSUME NEW e \in outbox, Broadcast(e) PROVE Goal
  BY <1>2, OnceBroadcast
<1>3. CASE Connect
  <2>1. phase' = "reading" /\ channel' = << >> /\ written' = << >>
    BY <1>3 DEF Connect
  <2>2. HandedOverOnce'
    BY <2>1, ElementsOfEmpty DEF HandedOverOnce
  <2>3. IsInjective(written)' /\ ReplayedOnce' /\ WrittenIsOver'
    BY <2>1, ElementsOfEmpty DEF ReplayedOnce, WrittenIsOver
  <2> QED BY <2>2, <2>3
<1>4. CASE ReadPage
  BY <1>4, OnceReadPage
<1>5. CASE ReadFails
  BY <1>5, OnceReadFails
<1>6. CASE ReplayOne
  BY <1>6, OnceReplayOne
<1>7. CASE GoLive
  BY <1>7, OnceGoLive
<1>8. CASE Pump
  BY <1>8, OncePump
<1>9. CASE Disconnect
  <2>1. phase' = "down" /\ channel' = << >> /\ written' = written
    BY <1>9 DEF Disconnect
  <2>2. HandedOverOnce'
    BY <2>1, ElementsOfEmpty DEF HandedOverOnce
  <2>3. IsInjective(written)' /\ ReplayedOnce' /\ WrittenIsOver'
    BY <2>1 DEF Once, ReplayedOnce, WrittenIsOver
  <2> QED BY <2>2, <2>3
<1>10. CASE UNCHANGED vars
  <2>1. UNCHANGED <<outbox, phase, channel, script, replayed, written>>
    BY <1>10 DEF vars, server
  <2> QED BY <2>1 DEF Once, HandedOverOnce, ReplayedOnce, WrittenIsOver
<1> HIDE DEF Goal
<1> QED BY <1>1, <1>2, <1>3, <1>4, <1>5, <1>6, <1>7, <1>8, <1>9, <1>10 DEF Next

-----------------------------------------------------------------------------
(* The theorems.                                                            *)

\* Whatever is buffered, replayed and written is an event of the journal, no
\* cursor passes its end, an event is skipped only if it is written or about to
\* be (ServeDomainEvents), and every limit holds: the hub's buffer (attachSSE),
\* the cap of the store in eventsAfterSeekable, the cap of the handler and the
\* capacity of the ring.
THEOREM TypesKept == Spec => [](TypeOK /\ FromJournal /\ SkippedAreWritten)
<1>1. Init => Sound
  BY SoundAtFirst
<1>2. Sound /\ [Next]_vars => Sound'
  BY SoundStep
<1>3. Sound => TypeOK /\ FromJournal /\ SkippedAreWritten
  BY DEF Sound, Typed
<1> QED BY <1>1, <1>2, <1>3, PTL DEF Spec

\* ServeDomainEvents subscribes before it replays: an event after the cursor of
\* the connection is written, or still in the journal, the replay, the
\* subscription or the hands of its publisher, or this connection gave it up.  It
\* does not depend on the size of the ring: what Pump skips has been written.
THEOREM NothingIsLostAtTheSeam == Spec => []NothingLostOnConnection
<1>1. Init => Seam
  BY SoundAtFirst DEF Seam, Init, NothingLostOnConnection
<1>2. Seam /\ [Next]_vars => Seam'
  BY SeamStep
<1>3. Seam => NothingLostOnConnection
  BY DEF Seam
<1> QED BY <1>1, <1>2, <1>3, PTL DEF Spec

\* pumpLiveEvents skips what the replay returned: with a ring that holds a whole
\* replay, no connection is sent one event twice, however commits, broadcasts,
\* pages and reconnects interleave.
THEOREM NoEventIsWrittenTwice == Spec => []WrittenOnce
<1> DEFINE Held == RingHoldsReplay => Once
<1>1. Init => Held
  BY SoundAtFirst, ElementsOfEmpty
     DEF Once, Init, HandedOverOnce, ReplayedOnce, WrittenIsOver
<1>2. Held /\ [Next]_vars => Held'
  <2>1. RingHoldsReplay' <=> RingHoldsReplay
    BY DEF RingHoldsReplay
  <2> QED BY <2>1, OnceStep
<1>3. Held => WrittenOnce
  BY DEF Once, WrittenOnce, RingHoldsReplay
<1> HIDE DEF Held
<1> QED BY <1>1, <1>2, <1>3, PTL DEF Spec

\* eventsAfterSeekable keeps a rolling tail over its pages and the handler caps
\* what the filter let pass: a replay is what one read of the whole journal after
\* the cursor would return, whatever was appended between two pages.
THEOREM AReplayIsTheNewest == Spec => ReplayIsNewest
<1>1. Init => Sound
  BY SoundAtFirst
<1>2. Sound /\ [Next]_vars => Sound'
  BY SoundStep
<1> DEFINE Newly == phase = "reading" /\ phase' = "replaying" /\ script' # << >>
                      => script' = NewestMatches' /\ at' = head
<1>3. Sound /\ [Next]_vars => [Newly]_vars
  <2> SUFFICES ASSUME Sound, Next, phase = "reading", phase' = "replaying", script' # << >>
               PROVE  script' = NewestMatches' /\ at' = head
    OBVIOUS
  <2>1. CASE ReadPage
    <3>1. /\ at' = PageEnd /\ base' = base
          /\ \/ PageEnd = head /\ Replay(Adjust(Tailed))
             \/ UNCHANGED phase
      BY <2>1, PageRead DEF ReadPage
    <3>2. PageEnd = head /\ script' = Adjust(Tailed)
      BY <3>1 DEF Replay
    <3>3. NewestMatches' = Newest(Matching(Newest(Between(base', at'), StoreCap)), HandlerCap)
      BY DEF NewestMatches, Newest, Matching, Matches, Between
    <3>4. NewestMatches' = Adjust(Tailed)
      BY <3>1, <3>3 DEF Adjust, Tailed
    <3> QED BY <3>1, <3>2, <3>4
  <2>2. CASE ReadFails
    BY <2>2, ReplayNothing DEF ReadFails
  <2>3. CASE ~ReadPage /\ ~ReadFails
    <3>1. ASSUME NEW e \in outbox, Broadcast(e) PROVE FALSE
      BY <3>1 DEF Broadcast
    <3>2. ~Commit /\ ~Connect /\ ~ReplayOne /\ ~GoLive /\ ~Pump /\ ~Disconnect
      BY DEF Commit, Connect, ReplayOne, GoLive, Pump, Disconnect
    <3> QED BY <3>1, <3>2, <2>3 DEF Next
  <2> QED BY <2>1, <2>2, <2>3
<1>4. [][Newly]_vars => ReplayIsNewest
  BY PTL DEF ReplayIsNewest
<1> HIDE DEF Newly
<1> QED BY <1>1, <1>2, <1>3, <1>4, PTL DEF Spec
=============================================================================
