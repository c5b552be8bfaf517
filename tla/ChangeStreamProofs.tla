------------------------- MODULE ChangeStreamProofs -------------------------
(***************************************************************************)
(* Proofs about ChangeStream, for any streams, pollers, sizes and bounds.  *)
(***************************************************************************)
EXTENDS ChangeStream, SequenceTheorems, WellFoundedInduction, TLAPS

Increasing(s) == \A i, j \in DOMAIN s : i < j => s[i].rev < s[j].rev

(* The revision before the first event of the history.                     *)
Base == LastRev - Len(history)

-----------------------------------------------------------------------------
(* What Since returns                                                      *)

LEMMA Least ==
  ASSUME NEW T, T \subseteq Nat, T # {}
  PROVE  \E x \in T : \A y \in T : x <= y
<1> DEFINE R == OpToRel(<, Nat)
<1>1. \A x, y \in Nat : <<y, x>> \in R <=> y < x
  BY DEF OpToRel
<1>2. IsWellFoundedOn(R, Nat)
  BY NatLessThanWellFounded
<1> HIDE DEF R
<1>3. PICK x \in T : \A y \in T : ~ (<<y, x>> \in R)
  BY <1>2, WFMin, Zenon
<1>4. \A y \in T : ~ (y < x)
  BY <1>1, <1>3, Zenon
<1> QED
  BY <1>4

(* The loop of Since: g[i] is what it has collected after i events.        *)
Taken(g, i, rev) ==
  IF Wanted(history[i], rev) THEN Append(g[i - 1], history[i]) ELSE g[i - 1]

Collects(g, n, rev) == g = [i \in 0..n |-> IF i = 0 THEN <<>> ELSE Taken(g, i, rev)]

Collectable(n, rev) == \E g : Collects(g, n, rev)

LEMMA CollectsExists ==
  ASSUME history \in Seq(Event), NEW rev
  PROVE  Collectable(Len(history), rev)
<1> DEFINE Bad == {n \in 0..Len(history) : ~ Collectable(n, rev)}
<1>0. Bad \subseteq Nat /\ Len(history) \in 0..Len(history)
  OBVIOUS
<1>1. CASE Bad = {}
  BY <1>0, <1>1
<1>2. CASE Bad # {}
  <2>1. PICK n \in Bad : \A m \in Bad : n <= m
    <3> HIDE DEF Bad
    <3> QED
      BY <1>0, <1>2, Least
  <2>2. CASE n = 0
    <3> DEFINE f == [i \in 0..0 |-> <<>>]
    <3>1. f = [i \in 0..0 |-> IF i = 0 THEN <<>> ELSE Taken(f, i, rev)]
      OBVIOUS
    <3> HIDE DEF f
    <3>2. Collects(f, n, rev)
      BY <2>2, <3>1 DEF Collects
    <3> QED
      BY <3>2, <2>1 DEF Collectable
  <2>3. CASE n # 0
    <3>1. n - 1 \in 0..Len(history) /\ n - 1 \notin Bad /\ n \in 1..Len(history)
      BY <2>1, <2>3
    <3>2. Collectable(n - 1, rev)
      BY <3>1
    <3>3. PICK g : Collects(g, n - 1, rev)
      BY <3>2 DEF Collectable
    <3> DEFINE h == [i \in 0..n |-> IF i = n THEN Taken(g, n, rev) ELSE g[i]]
    <3>4. ASSUME NEW i \in 0..n
          PROVE  h[i] = IF i = 0 THEN <<>> ELSE Taken(h, i, rev)
      <4>1. CASE i = 0
        <5>1. h[0] = g[0] /\ g[0] = <<>>
          BY <3>1, <3>3 DEF Collects
        <5> QED
          BY <4>1, <5>1
      <4>2. CASE i # 0
        <5>1. h[i - 1] = g[i - 1]
          BY <3>1, <4>2
        <5>2. Taken(h, i, rev) = Taken(g, i, rev)
          BY <5>1 DEF Taken
        <5>3. i # n => h[i] = g[i] /\ g[i] = Taken(g, i, rev)
          BY <3>1, <3>3, <4>2 DEF Collects
        <5> QED
          BY <4>2, <5>2, <5>3, <3>1
      <4> QED
        BY <4>1, <4>2
    <3>5. h = [i \in 0..n |-> h[i]]
      OBVIOUS
    <3> HIDE DEF h
    <3>6. Collects(h, n, rev)
      BY <3>4, <3>5 DEF Collects
    <3> QED
      BY <3>6, <2>1 DEF Collectable
  <2> QED
    BY <2>2, <2>3
<1> QED
  BY <1>1, <1>2

LEMMA SinceCollects ==
  ASSUME history \in Seq(Event), NEW rev
  PROVE  \E g : Collects(g, Len(history), rev) /\ Since(rev) = g[Len(history)]
<1> DEFINE n == Len(history)
           G == CHOOSE g : Collects(g, n, rev)
<1>1. PICK g : Collects(g, n, rev)
  BY CollectsExists DEF Collectable
<1>2. Collects(G, n, rev)
  BY <1>1, Zenon
<1>3. Since(rev) = G[n]
  BY Zenon DEF Since, Collects, Taken
<1> QED
  BY <1>2, <1>3, Zenon

(* s is what the first i events of the history contribute to Since.        *)
From(s, i, rev) ==
  /\ s \in Seq(Event) /\ Increasing(s)
  /\ \A k \in DOMAIN s : \E j \in 1..i : s[k] = history[j]
  /\ \A j \in 1..i : Wanted(history[j], rev) => \E k \in DOMAIN s : s[k] = history[j]

Numbered == history \in Seq(Event) /\ Base \in Int /\ \A i \in DOMAIN history : history[i].rev = Base + i

LEMMA FromNext ==
  ASSUME Numbered, NEW rev, NEW s, NEW i \in 1..Len(history), From(s, i - 1, rev)
  PROVE  From(IF Wanted(history[i], rev) THEN Append(s, history[i]) ELSE s, i, rev)
<1>1. history \in Seq(Event) /\ DOMAIN history = 1..Len(history) /\ history[i] \in Event
  BY DEF Numbered
<1>2. CASE ~Wanted(history[i], rev)
  BY <1>2 DEF From
<1>3. CASE Wanted(history[i], rev)
  <2> DEFINE t == Append(s, history[i])
  <2>1. s \in Seq(Event) /\ t \in Seq(Event) /\ DOMAIN s = 1..Len(s) /\ DOMAIN t = 1..(Len(s) + 1)
        /\ Len(s) \in Nat
    BY <1>1 DEF From
  <2>2. /\ \A k \in 1..Len(s) : t[k] = s[k]
        /\ t[Len(s) + 1] = history[i]
    BY <1>1, <2>1
  <2>3. \A k \in 1..Len(s) : s[k].rev < history[i].rev
    <3> SUFFICES ASSUME NEW k \in 1..Len(s)
                 PROVE  s[k].rev < history[i].rev
      OBVIOUS
    <3>1. PICK j \in 1..(i - 1) : s[k] = history[j]
      BY <2>1 DEF From
    <3>2. history[j].rev = Base + j /\ history[i].rev = Base + i /\ Base \in Int
      BY <1>1, SMTT(30) DEF Numbered
    <3> QED
      BY <3>1, <3>2, <1>1, SMTT(30)
  <2>4. \A k, l \in 1..Len(s) : k < l => s[k].rev < s[l].rev
    BY <2>1 DEF From, Increasing
  <2> HIDE DEF t
  <2>5. Increasing(t)
    BY <2>1, <2>2, <2>3, <2>4 DEF Increasing
  <2>6. \A k \in DOMAIN t : \E j \in 1..i : t[k] = history[j]
    <3> SUFFICES ASSUME NEW k \in 1..(Len(s) + 1)
                 PROVE  \E j \in 1..i : t[k] = history[j]
      BY <2>1
    <3>1. CASE k = Len(s) + 1
      BY <3>1, <2>2
    <3>2. CASE k \in 1..Len(s)
      <4>1. PICK j \in 1..(i - 1) : s[k] = history[j]
        BY <2>1, <3>2 DEF From
      <4> QED
        BY <4>1, <3>2, <2>2
    <3> QED
      BY <3>1, <3>2, <2>1
  <2>7. ASSUME NEW j \in 1..i, Wanted(history[j], rev)
        PROVE  \E k \in DOMAIN t : t[k] = history[j]
    <3>1. CASE j = i
      BY <3>1, <2>1, <2>2
    <3>2. CASE j \in 1..(i - 1)
      <4>1. PICK k \in DOMAIN s : s[k] = history[j]
        BY <3>2, <2>7 DEF From
      <4> QED
        BY <4>1, <2>1, <2>2
    <3> QED
      BY <3>1, <3>2
  <2>8. From(t, i, rev)
    BY <2>1, <2>5, <2>6, <2>7 DEF From
  <2> QED
    BY <2>8, <1>3 DEF t
<1> QED
  BY <1>2, <1>3

(* Since returns the wanted events of the history, in order.               *)
LEMMA SinceIs ==
  ASSUME Numbered
  PROVE  \A rev : From(Since(rev), Len(history), rev)
<1> SUFFICES ASSUME NEW rev
             PROVE  From(Since(rev), Len(history), rev)
  OBVIOUS
<1>1. history \in Seq(Event) /\ Len(history) \in Nat
  BY DEF Numbered
<1>2. PICK g : Collects(g, Len(history), rev) /\ Since(rev) = g[Len(history)]
  BY <1>1, SinceCollects
<1> DEFINE Bad == {i \in 0..Len(history) : ~From(g[i], i, rev)}
<1>3. Bad \subseteq Nat /\ Len(history) \in 0..Len(history)
  BY <1>1
<1>4. CASE Bad = {}
  BY <1>2, <1>3, <1>4
<1>5. CASE Bad # {}
  <2>1. PICK i \in Bad : \A j \in Bad : i <= j
    <3> HIDE DEF Bad
    <3> QED
      BY <1>3, <1>5, Least
  <2>2. CASE i = 0
    <3>1. g[0] = <<>>
      BY <1>1, <1>2 DEF Collects
    <3>2. From(<<>>, 0, rev)
      BY DEF From, Increasing
    <3> QED
      BY <3>1, <3>2, <2>1, <2>2
  <2>3. CASE i # 0
    <3>1. i \in 1..Len(history) /\ i - 1 \in 0..Len(history) /\ i - 1 \notin Bad
      BY <2>1, <2>3, <1>1
    <3>2. From(g[i - 1], i - 1, rev)
      BY <3>1
    <3>3. g[i] = Taken(g, i, rev)
      <4>1. i \in 0..Len(history) /\ i # 0
        BY <3>1, <1>1
      <4>2. g = [k \in 0..Len(history) |-> IF k = 0 THEN <<>> ELSE Taken(g, k, rev)]
        BY <1>2 DEF Collects
      <4> QED
        BY <4>1, <4>2
    <3>4. From(g[i], i, rev)
      BY <3>1, <3>2, <3>3, FromNext DEF Taken
    <3> QED
      BY <3>4, <2>1
  <2> QED
    BY <2>2, <2>3
<1> QED
  BY <1>4, <1>5

-----------------------------------------------------------------------------
(* The inductive invariant                                                 *)

(* The history ends with the event published last, and misses its older    *)
(* ones only when it is full.                                              *)
BrokerInv ==
  /\ revision \in Nat /\ spent \in Nat /\ revision + spent <= MaxEvents
  /\ history \in Seq(Event) /\ Len(history) <= MaxHist
  /\ Base \in Nat /\ (Base > 0 => Len(history) = MaxHist)
  /\ HistoryContiguous

(* What is left to send is the last event of the history, to channels that *)
(* are subscribed or have been closed since.                               *)
PubInv ==
  /\ pub \in [pc : {"idle", "append", "send", "dead"}, ev : Event \cup {<<>>}, to : SUBSET Streams]
  /\ pub.pc \in {"append", "send"} => pub.ev \in Event /\ pub.ev.rev = revision
  /\ pub.pc # "send" => pub.to = {}
  /\ pub.pc = "send" => history # <<>> /\ history[Len(history)] = pub.ev
  /\ pub.to \subseteq subs \cup closed

Members ==
  /\ stream \in [Streams -> {"new", "gap", "open", "done"}]
  /\ \A c \in Streams : c \in subs <=> stream[c] = "open"
  /\ \A c \in closed : stream[c] = "done"
  /\ subs \subseteq Streams /\ closed \subseteq Leavers

(* What was written, s, and what is buffered, q, are in order and go up to *)
(* top at most.                                                            *)
Ordered(s, q, top) ==
  /\ s \in Seq(Event) /\ q \in Seq(Event)
  /\ Increasing(s) /\ Increasing(q)
  /\ \A i \in DOMAIN s, j \in DOMAIN q : s[i].rev < q[j].rev
  /\ \A i \in DOMAIN s : s[i].rev <= top
  /\ \A j \in DOMAIN q : q[j].rev <= top

Pending(c) == pub.pc = "send" /\ c \in pub.to
Top(c)     == IF Pending(c) THEN revision - 1 ELSE LastRev

Accounted(c, ev) ==
  \/ ev.rev \in Revs(sent[c]) \cup Revs(chan[c]) \cup missed[c]
  \/ Pending(c) /\ pub.ev = ev

StreamInv(c) ==
  /\ Ordered(sent[c], chan[c], Top(c))
  /\ Len(chan[c]) <= Buffer
  /\ stream[c] \in {"new", "gap"} => chan[c] = <<>>
  /\ \A i \in DOMAIN chan[c], j \in DOMAIN history :
       history[j].rev = chan[c][i].rev => history[j] = chan[c][i]
  /\ stream[c] \in {"gap", "open"} =>
       \A i \in DOMAIN history :
         history[i].path \in Begins => Accounted(c, history[i])

Channels ==
  /\ chan \in [Streams -> Seq(Event)] /\ sent \in [Streams -> Seq(Event)]
  /\ missed \in [Streams -> SUBSET (1..MaxEvents)]

PollState == [pc : {"idle", "rev"}, since : 0..MaxEvents, got : SUBSET (1..MaxEvents)]

(* In the middle of a request the poller has what it needs to take the     *)
(* revision for its cursor.                                                *)
PollInv ==
  /\ poll \in [Pollers -> PollState] /\ excused \in [Pollers -> SUBSET (1..MaxEvents)]
  /\ \A p \in Pollers : 1..(IF Requesting(p) THEN revision ELSE poll[p].since) \subseteq poll[p].got \cup excused[p]

IInv ==
  /\ BrokerInv /\ PubInv /\ Members /\ Channels
  /\ \A c \in Streams : StreamInv(c)
  /\ PollInv

-----------------------------------------------------------------------------
(* The history                                                             *)

LEMMA BrokerFacts ==
  ASSUME BrokerInv
  PROVE  /\ Numbered /\ LastRev \in Nat /\ revision \in Nat /\ Base \in Nat
         /\ Len(history) \in Nat /\ DOMAIN history = 1..Len(history)
         /\ LastRev = Base + Len(history) /\ LastRev <= revision
         /\ \A i \in DOMAIN history : history[i] \in Event /\ history[i].rev = Base + i
         /\ pub.pc = "append" => LastRev = revision - 1
         /\ pub.pc # "append" => LastRev = revision
<1>1. LastRev = IF pub.pc = "append" THEN revision - 1 ELSE revision
  BY DEF BrokerInv, HistoryContiguous
<1>2. history \in Seq(Event) /\ Len(history) \in Nat /\ DOMAIN history = 1..Len(history)
      /\ revision \in Nat /\ Base \in Nat
  BY DEF BrokerInv
<1>3. LastRev \in Int /\ LastRev = Base + Len(history)
  BY <1>1, <1>2 DEF Base
<1>4. \A i \in DOMAIN history : history[i].rev = LastRev - Len(history) + i
  BY DEF BrokerInv, HistoryContiguous
<1>5. \A i \in DOMAIN history : history[i] \in Event /\ history[i].rev = Base + i
  BY <1>2, <1>3, <1>4
<1> QED
  BY <1>1, <1>2, <1>3, <1>5 DEF Numbered

LEMMA TrimIs ==
  ASSUME NEW s \in Seq(Event), NEW e \in Event, Len(s) <= MaxHist, NEW h, h = Trim(Append(s, e))
  PROVE  /\ h \in Seq(Event) /\ h[Len(h)] = e
         /\ Len(h) = IF Len(s) < MaxHist THEN Len(s) + 1 ELSE MaxHist
         /\ \A i \in 1..(Len(h) - 1) : h[i] = s[i + (Len(s) + 1 - Len(h))]
<1> DEFINE g == Append(s, e)
<1>1. g \in Seq(Event) /\ Len(g) = Len(s) + 1 /\ g[Len(s) + 1] = e /\ \A i \in 1..Len(s) : g[i] = s[i]
  BY AppendProperties
<1>2. Len(s) \in Nat /\ MaxHist \in Nat /\ MaxHist > 0
  BY SizesAssumption
<1>3. h = IF Len(g) > MaxHist THEN SubSeq(g, Len(g) - MaxHist + 1, Len(g)) ELSE g
  BY DEF Trim
<1> HIDE DEF g
<1>4. CASE Len(s) < MaxHist
  <2>1. h = g
    BY <1>1, <1>2, <1>3, <1>4
  <2> QED
    BY <1>1, <1>2, <1>4, <2>1
<1>5. CASE Len(s) = MaxHist
  <2>1. h = SubSeq(g, 2, MaxHist + 1)
    BY <1>1, <1>2, <1>3, <1>5
  <2>2. h \in Seq(Event) /\ Len(h) = MaxHist /\ \A i \in 1..MaxHist : h[i] = g[i + 1]
    BY <1>1, <1>2, <1>5, <2>1
  <2> QED
    BY <1>1, <1>2, <1>5, <2>2
<1> QED
  BY <1>2, <1>4, <1>5

LEMMA HistoryGrows ==
  ASSUME BrokerInv, PubInv, pub.pc = "append", NEW h, h = Trim(Append(history, pub.ev))
  PROVE  /\ h \in Seq(Event) /\ Len(h) \in 1..MaxHist /\ h[Len(h)] = pub.ev
         /\ revision - Len(h) \in Nat /\ (revision - Len(h) > 0 => Len(h) = MaxHist)
         /\ \A i \in 1..Len(h) : h[i].rev = revision - Len(h) + i
         /\ \A i \in 1..(Len(h) - 1) : \E j \in DOMAIN history : h[i] = history[j]
<1>1. history \in Seq(Event) /\ Len(history) <= MaxHist /\ pub.ev \in Event /\ pub.ev.rev = revision
  BY DEF BrokerInv, PubInv
<1>2. /\ Len(history) \in Nat /\ MaxHist \in Nat /\ MaxHist > 0 /\ revision \in Nat /\ Base \in Nat
      /\ DOMAIN history = 1..Len(history) /\ Base + Len(history) = revision - 1
  BY BrokerFacts, SizesAssumption
<1>3. \A i \in DOMAIN history : history[i].rev = Base + i
  BY BrokerFacts
<1>4. Base > 0 => Len(history) = MaxHist
  BY DEF BrokerInv
<1> DEFINE d == Len(history) + 1 - Len(h)
<1>5. /\ h \in Seq(Event) /\ h[Len(h)] = pub.ev
      /\ Len(h) = IF Len(history) < MaxHist THEN Len(history) + 1 ELSE MaxHist
      /\ \A i \in 1..(Len(h) - 1) : h[i] = history[i + d]
  BY <1>1, TrimIs
<1>6. /\ Len(h) \in 1..MaxHist /\ d \in {0, 1} /\ revision - Len(h) = Base + d
      /\ revision - Len(h) > 0 => Len(h) = MaxHist
  <2>1. Len(h) = IF Len(history) < MaxHist THEN Len(history) + 1 ELSE MaxHist
    BY <1>5
  <2>2. Len(history) \in Nat /\ MaxHist \in Nat /\ MaxHist > 0 /\ Len(history) <= MaxHist
    BY <1>1, <1>2
  <2>3. revision \in Nat /\ Base \in Nat /\ Base + Len(history) = revision - 1
    BY <1>2
  <2>4. CASE Len(history) < MaxHist
    <3>1. Len(h) = Len(history) + 1
      BY <2>1, <2>4
    <3>2. Base = 0
      BY <1>4, <2>2, <2>3, <2>4
    <3> QED
      BY <2>2, <2>3, <2>4, <3>1, <3>2
  <2>5. CASE Len(history) = MaxHist
    <3>1. Len(h) = MaxHist
      BY <2>1, <2>2, <2>5
    <3> QED
      BY <2>2, <2>3, <2>5, <3>1
  <2>6. Len(history) < MaxHist \/ Len(history) = MaxHist
    BY <2>2
  <2> QED
    BY <2>4, <2>5, <2>6
<1>7. \A i \in 1..(Len(h) - 1) : i + d \in DOMAIN history
  BY <1>2, <1>6
<1> HIDE DEF d
<1>8. \A i \in 1..(Len(h) - 1) : h[i].rev = Base + (i + d)
  BY <1>3, <1>5, <1>7
<1>9. \A i \in 1..Len(h) : h[i].rev = revision - Len(h) + i
  <2> SUFFICES ASSUME NEW i \in 1..Len(h)
               PROVE  h[i].rev = revision - Len(h) + i
    OBVIOUS
  <2>1. CASE i = Len(h)
    <3>1. h[i].rev = revision
      BY <2>1, <1>1, <1>5
    <3> QED
      BY <2>1, <3>1, <1>2, <1>6
  <2>2. CASE i \in 1..(Len(h) - 1)
    <3>1. h[i].rev = Base + (i + d)
      BY <2>2, <1>8
    <3>2. revision - Len(h) = Base + d /\ d \in Int /\ Base \in Int /\ i \in Int
      BY <1>2, <1>6, <2>2
    <3>3. Base + (i + d) = (Base + d) + i
      BY <3>2
    <3> QED
      BY <3>1, <3>2, <3>3
  <2> QED
    BY <1>6, <2>1, <2>2
<1>10. revision - Len(h) \in Nat
  BY <1>2, <1>6
<1>11. \A i \in 1..(Len(h) - 1) : \E j \in DOMAIN history : h[i] = history[j]
  BY <1>5, <1>7
<1> QED
  BY <1>5, <1>6, <1>9, <1>10, <1>11

-----------------------------------------------------------------------------
(* What a stream has written and what its channel buffers                  *)

LEMMA RevIsNat ==
  \A e \in Event : e.rev \in 1..MaxEvents /\ e.rev \in Int
BY SizesAssumption DEF Event

LEMMA OrderedUp ==
  ASSUME NEW s, NEW q, NEW t \in Int, NEW u \in Int, t <= u, Ordered(s, q, t)
  PROVE  Ordered(s, q, u)
<1>1. \A i \in DOMAIN s : s[i].rev \in Int /\ s[i].rev <= t
  BY RevIsNat DEF Ordered
<1>2. \A i \in DOMAIN q : q[i].rev \in Int /\ q[i].rev <= t
  BY RevIsNat DEF Ordered
<1>3. (\A i \in DOMAIN s : s[i].rev <= u) /\ (\A i \in DOMAIN q : q[i].rev <= u)
  BY <1>1, <1>2
<1> QED
  BY <1>3 DEF Ordered

LEMMA AppendOrdered ==
  ASSUME NEW s \in Seq(Event), NEW e \in Event, Increasing(s), \A i \in DOMAIN s : s[i].rev < e.rev
  PROVE  /\ Append(s, e) \in Seq(Event) /\ Increasing(Append(s, e))
         /\ \A i \in DOMAIN Append(s, e) : Append(s, e)[i] = e \/ \E j \in DOMAIN s : Append(s, e)[i] = s[j]
         /\ Revs(Append(s, e)) = Revs(s) \cup {e.rev}
<1> DEFINE t == Append(s, e)
<1>1. t \in Seq(Event) /\ Len(t) = Len(s) + 1 /\ t[Len(s) + 1] = e /\ (\A i \in 1..Len(s) : t[i] = s[i])
      /\ DOMAIN t = 1..(Len(s) + 1) /\ DOMAIN s = 1..Len(s) /\ Len(s) \in Nat
  BY AppendProperties
<1> HIDE DEF t
<1>2. \A i, j \in 1..Len(s) : i < j => t[i].rev < t[j].rev
  BY <1>1 DEF Increasing
<1>3. \A i \in 1..Len(s) : t[i].rev < t[Len(s) + 1].rev
  BY <1>1
<1>4. Increasing(t)
  BY <1>1, <1>2, <1>3 DEF Increasing
<1>5. \A i \in DOMAIN t : i = Len(s) + 1 \/ i \in DOMAIN s
  BY <1>1
<1>6. \A i \in DOMAIN t : t[i] = e \/ \E j \in DOMAIN s : t[i] = s[j]
  BY <1>1, <1>5
<1>7. Revs(t) = Revs(s) \cup {e.rev}
  BY <1>1, <1>5 DEF Revs
<1> QED
  BY <1>1, <1>4, <1>6, <1>7 DEF t

LEMMA TailIs ==
  ASSUME NEW q \in Seq(Event), q # <<>>
  PROVE  /\ Tail(q) \in Seq(Event) /\ Head(q) \in Event /\ Head(q) = q[1] /\ 1 \in DOMAIN q
         /\ Len(Tail(q)) = Len(q) - 1
         /\ \A i \in DOMAIN Tail(q) : i + 1 \in DOMAIN q /\ Tail(q)[i] = q[i + 1]
         /\ \A i \in DOMAIN q : i = 1 \/ (i - 1 \in DOMAIN Tail(q) /\ Tail(q)[i - 1] = q[i])
         /\ Revs(q) = {Head(q).rev} \cup Revs(Tail(q))
<1>1. Tail(q) \in Seq(Event) /\ Head(q) \in Event /\ Head(q) = q[1] /\ Len(Tail(q)) = Len(q) - 1
      /\ Len(q) \in Nat /\ Len(q) > 0 /\ DOMAIN q = 1..Len(q) /\ DOMAIN Tail(q) = 1..(Len(q) - 1)
  BY HeadTailProperties, EmptySeq
<1>2. \A i \in DOMAIN Tail(q) : i + 1 \in DOMAIN q /\ Tail(q)[i] = q[i + 1]
  BY <1>1, HeadTailProperties
<1>3. \A i \in DOMAIN q : i = 1 \/ (i - 1 \in DOMAIN Tail(q) /\ Tail(q)[i - 1] = q[i])
  BY <1>1, <1>2
<1>4. Revs(q) = {Head(q).rev} \cup Revs(Tail(q))
  BY <1>1, <1>2, <1>3 DEF Revs
<1> QED
  BY <1>1, <1>2, <1>3, <1>4

LEMMA OrderedSend ==
  ASSUME NEW s, NEW q, NEW e \in Event, Ordered(s, q, e.rev - 1)
  PROVE  Ordered(s, Append(q, e), e.rev) /\ Revs(Append(q, e)) = Revs(q) \cup {e.rev}
<1>1. e.rev \in Int /\ s \in Seq(Event) /\ q \in Seq(Event)
  BY RevIsNat DEF Ordered
<1>2. \A i \in DOMAIN s : s[i].rev \in Int /\ s[i].rev < e.rev
  BY <1>1, RevIsNat DEF Ordered
<1>3. \A i \in DOMAIN q : q[i].rev \in Int /\ q[i].rev < e.rev
  BY <1>1, RevIsNat DEF Ordered
<1> DEFINE r == Append(q, e)
<1>4. /\ r \in Seq(Event) /\ Increasing(r) /\ Revs(r) = Revs(q) \cup {e.rev}
      /\ \A i \in DOMAIN r : r[i] = e \/ \E j \in DOMAIN q : r[i] = q[j]
  BY <1>1, <1>3, AppendOrdered DEF Ordered
<1> HIDE DEF r
<1>5. \A i \in DOMAIN s, j \in DOMAIN r : s[i].rev < r[j].rev
  BY <1>2, <1>4 DEF Ordered
<1>6. \A j \in DOMAIN r : r[j].rev <= e.rev
  BY <1>1, <1>3, <1>4
<1>7. \A j \in DOMAIN s : s[j].rev <= e.rev
  BY <1>1, <1>2
<1>8. Ordered(s, r, e.rev)
  BY <1>1, <1>4, <1>5, <1>6, <1>7 DEF Ordered
<1> QED
  BY <1>4, <1>8 DEF r

LEMMA OrderedReceive ==
  ASSUME NEW s, NEW q, NEW t, Ordered(s, q, t), q # <<>>,
         NEW keep \in BOOLEAN
  PROVE  Ordered(IF keep THEN Append(s, Head(q)) ELSE s, Tail(q), t)
<1>1. s \in Seq(Event) /\ q \in Seq(Event) /\ Increasing(s) /\ Increasing(q)
  BY DEF Ordered
<1>2. /\ Tail(q) \in Seq(Event) /\ Head(q) \in Event /\ Head(q) = q[1] /\ 1 \in DOMAIN q
      /\ \A i \in DOMAIN Tail(q) : i + 1 \in DOMAIN q /\ Tail(q)[i] = q[i + 1]
      /\ DOMAIN Tail(q) \subseteq Nat \ {0}
  BY <1>1, TailIs
<1>3. Increasing(Tail(q)) /\ \A i \in DOMAIN Tail(q) : Head(q).rev < Tail(q)[i].rev
  <2>1. ASSUME NEW i \in DOMAIN Tail(q)
        PROVE  Head(q).rev < Tail(q)[i].rev
    <3>1. i + 1 \in DOMAIN q /\ 1 < i + 1 /\ Tail(q)[i] = q[i + 1]
      BY <1>2
    <3> QED
      BY <1>1, <1>2, <3>1 DEF Increasing
  <2>2. ASSUME NEW i \in DOMAIN Tail(q), NEW j \in DOMAIN Tail(q), i < j
        PROVE  Tail(q)[i].rev < Tail(q)[j].rev
    <3>1. i + 1 \in DOMAIN q /\ j + 1 \in DOMAIN q /\ i + 1 < j + 1
      BY <1>2, <2>2
    <3>2. Tail(q)[i] = q[i + 1] /\ Tail(q)[j] = q[j + 1]
      BY <1>2
    <3> QED
      BY <1>1, <3>1, <3>2 DEF Increasing
  <2> QED
    BY <2>1, <2>2 DEF Increasing
<1>4. \A i \in DOMAIN s, j \in DOMAIN Tail(q) : s[i].rev < Tail(q)[j].rev
  BY <1>2 DEF Ordered
<1>5. \A j \in DOMAIN Tail(q) : Tail(q)[j].rev <= t
  BY <1>2 DEF Ordered
<1>6. CASE ~keep
  BY <1>1, <1>2, <1>3, <1>4, <1>5, <1>6 DEF Ordered
<1>7. CASE keep
  <2> DEFINE r == Append(s, Head(q))
  <2>1. \A i \in DOMAIN s : s[i].rev < Head(q).rev
    BY <1>2 DEF Ordered
  <2>2. /\ r \in Seq(Event) /\ Increasing(r)
        /\ \A i \in DOMAIN r : r[i] = Head(q) \/ \E j \in DOMAIN s : r[i] = s[j]
    BY <1>1, <1>2, <2>1, AppendOrdered
  <2> HIDE DEF r
  <2>3. \A i \in DOMAIN r, j \in DOMAIN Tail(q) : r[i].rev < Tail(q)[j].rev
    BY <1>3, <1>4, <2>2
  <2>4. \A i \in DOMAIN r : r[i].rev <= t
    BY <1>2, <2>2 DEF Ordered
  <2>5. Ordered(r, Tail(q), t)
    BY <1>2, <1>3, <1>5, <2>2, <2>3, <2>4 DEF Ordered
  <2> QED
    BY <1>7, <2>5 DEF r
<1> QED
  BY <1>6, <1>7

LEMMA OrderedConcat ==
  ASSUME NEW s, NEW q, NEW t, Ordered(s, q, t)
  PROVE  Increasing(s \o q) /\ Revs(s \o q) = Revs(s) \cup Revs(q)
<1>1. s \in Seq(Event) /\ q \in Seq(Event)
  BY DEF Ordered
<1> DEFINE r == s \o q
<1>2. /\ r \in Seq(Event) /\ Len(r) = Len(s) + Len(q)
      /\ \A i \in 1..(Len(s) + Len(q)) : r[i] = IF i <= Len(s) THEN s[i] ELSE q[i - Len(s)]
  BY <1>1, ConcatProperties, Zenon
<1> HIDE DEF r
<1>3. DOMAIN r = 1..(Len(s) + Len(q)) /\ DOMAIN s = 1..Len(s) /\ DOMAIN q = 1..Len(q)
      /\ Len(s) \in Nat /\ Len(q) \in Nat
  BY <1>1, <1>2
<1>4. \A i \in DOMAIN r : \/ i \in DOMAIN s /\ r[i] = s[i]
                          \/ i > Len(s) /\ i - Len(s) \in DOMAIN q /\ r[i] = q[i - Len(s)]
  BY <1>2, <1>3
<1>5. (\A i \in DOMAIN s : i \in DOMAIN r /\ r[i] = s[i])
      /\ (\A i \in DOMAIN q : i + Len(s) \in DOMAIN r /\ r[i + Len(s)] = q[i])
  BY <1>2, <1>3
<1>6. Revs(r) = Revs(s) \cup Revs(q)
  BY <1>4, <1>5 DEF Revs
<1>7. Increasing(r)
  <2> SUFFICES ASSUME NEW i \in DOMAIN r, NEW j \in DOMAIN r, i < j
               PROVE  r[i].rev < r[j].rev
    BY DEF Increasing
  <2>1. CASE i \in DOMAIN s /\ j \in DOMAIN s
    BY <2>1, <1>5 DEF Ordered, Increasing
  <2>2. CASE i \in DOMAIN s /\ j \notin DOMAIN s
    BY <2>2, <1>4, <1>5 DEF Ordered
  <2>3. CASE i \notin DOMAIN s
    <3>1. i > Len(s) /\ j > Len(s) /\ i - Len(s) < j - Len(s)
      BY <2>3, <1>3
    <3>2. j \notin DOMAIN s
      BY <3>1, <1>3
    <3> QED
      BY <2>3, <3>1, <3>2, <1>4 DEF Ordered, Increasing
  <2> QED
    BY <2>1, <2>2, <2>3
<1> QED
  BY <1>6, <1>7 DEF r

-----------------------------------------------------------------------------
(* The broker                                                              *)

LEMMA BrokerSame ==
  ASSUME BrokerInv, revision' = revision, spent' = spent, history' = history,
         pub'.pc = "append" <=> pub.pc = "append"
  PROVE  BrokerInv'
BY DEF BrokerInv, HistoryContiguous, Base, LastRev

LEMMA PublishRevisionBroker ==
  ASSUME BrokerInv, PubInv, Members, PublishRevision
  PROVE  BrokerInv' /\ PubInv' /\ Members'
<1>1. PICK p \in Paths : pub' = [pc |-> "append", ev |-> [rev |-> revision + 1, path |-> p], to |-> {}]
  BY DEF PublishRevision
<1>2. revision \in Nat /\ spent \in Nat /\ MaxEvents \in Nat /\ revision' = revision + 1 /\ revision + spent < MaxEvents
      /\ spent' = spent /\ history' = history /\ pub.pc = "idle"
  BY SizesAssumption DEF PublishRevision, BrokerInv
<1>3. [rev |-> revision + 1, path |-> p] \in Event
  BY <1>2 DEF Event
<1>4. PubInv'
  BY <1>1, <1>2, <1>3 DEF PubInv
<1>5. revision' \in Nat /\ spent' \in Nat /\ revision' + spent' <= MaxEvents
  BY <1>2
<1>6. LastRev = revision /\ LastRev' = LastRev /\ Base' = Base
  BY <1>2, BrokerFacts DEF LastRev, Base
<1>7. \A i \in DOMAIN history : history[i].rev = LastRev - Len(history) + i
  BY DEF BrokerInv, HistoryContiguous
<1>8. HistoryContiguous'
  BY <1>1, <1>2, <1>6, <1>7 DEF HistoryContiguous
<1>9. BrokerInv'
  BY <1>2, <1>5, <1>6, <1>8 DEF BrokerInv
<1>10. Members'
  BY DEF PublishRevision, Members, streamVars
<1> QED
  BY <1>4, <1>9, <1>10

LEMMA PublishAppendBroker ==
  ASSUME BrokerInv, PubInv, Members, PublishAppend
  PROVE  BrokerInv' /\ PubInv' /\ Members'
<1>1. /\ pub.pc = "append" /\ history' = Trim(Append(history, pub.ev))
      /\ pub' = [pub EXCEPT !.pc = "send", !.to = subs]
      /\ UNCHANGED <<revision, spent, subs, closed, stream>>
  BY DEF PublishAppend, streamVars, pollVars
<1>2. /\ history' \in Seq(Event) /\ Len(history') \in 1..MaxHist /\ history'[Len(history')] = pub.ev
      /\ revision - Len(history') \in Nat /\ (revision - Len(history') > 0 => Len(history') = MaxHist)
      /\ \A i \in 1..Len(history') : history'[i].rev = revision - Len(history') + i
  BY <1>1, HistoryGrows
<1>3. pub.ev \in Event /\ pub.ev.rev = revision /\ revision \in Nat /\ MaxHist \in Nat
  BY <1>1, SizesAssumption DEF PubInv, BrokerInv
<1>4. history' # <<>>
  BY <1>2
<1>5. LastRev' = revision
  BY <1>2, <1>3, <1>4 DEF LastRev, Last
<1>6. Base' = revision - Len(history')
  BY <1>5 DEF Base
<1>7. /\ pub'.pc = "send" /\ pub'.ev = pub.ev /\ pub'.to = subs
      /\ pub' \in [pc : {"idle", "append", "send", "dead"}, ev : Event \cup {<<>>}, to : SUBSET Streams]
  BY <1>1 DEF PubInv, Members
<1>8. DOMAIN history' = 1..Len(history')
  BY <1>2
<1>9. HistoryContiguous'
  BY <1>1, <1>2, <1>5, <1>7, <1>8 DEF HistoryContiguous
<1>10. Len(history') <= MaxHist
  BY <1>2, <1>3
<1>11. BrokerInv'
  BY <1>1, <1>2, <1>6, <1>9, <1>10 DEF BrokerInv
<1>12. PubInv'
  BY <1>1, <1>2, <1>3, <1>4, <1>7 DEF PubInv
<1>13. Members'
  BY <1>1 DEF Members
<1> QED
  BY <1>11, <1>12, <1>13

LEMMA SendBroker ==
  ASSUME BrokerInv, PubInv, Members, NEW c \in Streams, Send(c)
  PROVE  BrokerInv' /\ PubInv' /\ Members'
<1>1. /\ pub.pc = "send" /\ pub' = [pub EXCEPT !.to = @ \ {c}]
      /\ UNCHANGED <<revision, spent, history, subs, closed, stream>>
  BY DEF Send, pollVars
<1>2. /\ pub'.pc = "send" /\ pub'.ev = pub.ev /\ pub'.to = pub.to \ {c}
      /\ pub' \in [pc : {"idle", "append", "send", "dead"}, ev : Event \cup {<<>>}, to : SUBSET Streams]
  BY <1>1 DEF PubInv
<1>3. BrokerInv'
  BY <1>1, <1>2, BrokerSame
<1>4. PubInv'
  BY <1>1, <1>2 DEF PubInv
<1>5. Members'
  BY <1>1 DEF Members
<1> QED
  BY <1>3, <1>4, <1>5

LEMMA PublishEndsBroker ==
  ASSUME BrokerInv, PubInv, Members, PublishDone \/ \E c \in Streams : SendPanics(c)
  PROVE  BrokerInv' /\ PubInv' /\ Members'
<1>1. /\ pub.pc = "send" /\ pub' \in {NoPub, [NoPub EXCEPT !.pc = "dead"]}
      /\ UNCHANGED <<revision, spent, history, subs, closed, stream>>
  BY DEF PublishDone, SendPanics, streamVars, pollVars
<1>2. /\ pub'.pc \in {"idle", "dead"} /\ pub'.to = {}
      /\ pub' \in [pc : {"idle", "append", "send", "dead"}, ev : Event \cup {<<>>}, to : SUBSET Streams]
  BY <1>1 DEF NoPub
<1>3. BrokerInv'
  BY <1>1, <1>2, BrokerSame
<1>4. PubInv'
  BY <1>2 DEF PubInv
<1>5. Members'
  BY <1>1 DEF Members
<1> QED
  BY <1>3, <1>4, <1>5

LEMMA MembersBroker ==
  ASSUME BrokerInv, PubInv, Members, NEW c \in Streams, Replay(c) \/ Subscribe(c) \/ Receive(c) \/ Unsubscribe(c)
  PROVE  BrokerInv' /\ PubInv' /\ Members'
<1>1. UNCHANGED <<revision, spent, history, pub>>
  BY DEF Replay, Subscribe, Receive, Unsubscribe, brokerVars, pollVars
<1>2. BrokerInv'
  BY <1>1, BrokerSame
<1>3. Members' /\ subs \cup closed \subseteq subs' \cup closed'
  <2>1. CASE Replay(c)
    BY <2>1 DEF Replay, Members, brokerVars
  <2>2. CASE Subscribe(c)
    BY <2>2 DEF Subscribe, Members
  <2>3. CASE Receive(c)
    BY <2>3 DEF Receive, Members, brokerVars
  <2>4. CASE Unsubscribe(c)
    BY <2>4 DEF Unsubscribe, Members
  <2> QED
    BY <2>1, <2>2, <2>3, <2>4
<1>4. PubInv'
  BY <1>1, <1>3 DEF PubInv
<1> QED
  BY <1>2, <1>3, <1>4

LEMMA RestartBroker ==
  ASSUME BrokerInv, Restart
  PROVE  BrokerInv' /\ PubInv' /\ Members'
<1>1. /\ revision' = 0 /\ history' = <<>> /\ subs' = {} /\ closed' = {} /\ pub' = NoPub
      /\ stream' = [c \in Streams |-> "new"] /\ spent' = spent + revision
  BY DEF Restart
<1>2. revision \in Nat /\ spent \in Nat /\ revision + spent <= MaxEvents /\ MaxHist \in Nat
  BY SizesAssumption DEF BrokerInv
<1>3. LastRev' = 0 /\ Base' = 0 /\ Len(history') = 0 /\ history' \in Seq(Event)
  <2>1. Len(history') = 0 /\ history' \in Seq(Event)
    BY <1>1, EmptySeq
  <2>2. LastRev' = 0
    BY <1>1 DEF LastRev
  <2> QED
    BY <2>1, <2>2 DEF Base
<1>4. HistoryContiguous'
  BY <1>1, <1>3 DEF HistoryContiguous, NoPub
<1>5. BrokerInv'
  BY <1>1, <1>2, <1>3, <1>4 DEF BrokerInv
<1>6. PubInv'
  BY <1>1 DEF PubInv, NoPub
<1>7. Members'
  BY <1>1 DEF Members
<1> QED
  BY <1>5, <1>6, <1>7

LEMMA BrokerStep ==
  ASSUME BrokerInv, PubInv, Members, [Next]_vars
  PROVE  BrokerInv' /\ PubInv' /\ Members'
<1>1. CASE \E p \in Pollers : PollSince(p) \/ PollRevision(p)
  <2>1. UNCHANGED <<revision, spent, history, pub, subs, closed, stream>>
    BY <1>1 DEF PollSince, PollRevision, brokerVars, streamVars
  <2>2. BrokerInv'
    BY <2>1, BrokerSame
  <2>3. PubInv' /\ Members'
    BY <2>1 DEF PubInv, Members
  <2> QED
    BY <2>2, <2>3
<1>2. CASE UNCHANGED vars
  <2>1. UNCHANGED <<revision, spent, history, pub, subs, closed, stream>>
    BY <1>2 DEF vars
  <2>2. BrokerInv'
    BY <2>1, BrokerSame
  <2>3. PubInv' /\ Members'
    BY <2>1 DEF PubInv, Members
  <2> QED
    BY <2>2, <2>3
<1>3. CASE PublishRevision
  BY <1>3, PublishRevisionBroker
<1>4. CASE PublishAppend
  BY <1>4, PublishAppendBroker
<1>5. CASE \E c \in Streams : Send(c)
  BY <1>5, SendBroker
<1>6. CASE PublishDone \/ \E c \in Streams : SendPanics(c)
  BY <1>6, PublishEndsBroker
<1>7. CASE \E c \in Streams : Replay(c) \/ Subscribe(c) \/ Receive(c) \/ Unsubscribe(c)
  BY <1>7, MembersBroker
<1>8. CASE Restart
  BY <1>8, RestartBroker
<1> QED
  BY <1>1, <1>2, <1>3, <1>4, <1>5, <1>6, <1>7, <1>8, Zenon DEF Next, Publishing

-----------------------------------------------------------------------------
(* The streams                                                             *)

LEMMA TopIsInt ==
  ASSUME BrokerInv, NEW c
  PROVE  Top(c) \in Int /\ Top(c) <= LastRev
BY BrokerFacts DEF Top, Pending

LEMMA StreamSame ==
  ASSUME NEW c \in Streams, StreamInv(c), history' = history,
         sent'[c] = sent[c], chan'[c] = chan[c], stream'[c] = stream[c],
         missed'[c] = missed[c],
         Pending(c)' <=> Pending(c), Pending(c) => revision' = revision /\ pub'.ev = pub.ev
  PROVE  StreamInv(c)'
<1>1. Top(c)' = Top(c)
  BY DEF Top, LastRev
<1>2. \A ev : Accounted(c, ev) => Accounted(c, ev)'
  BY DEF Accounted
<1>3. Ordered(sent[c], chan[c], Top(c))'
  BY <1>1 DEF StreamInv
<1> QED
  BY <1>2, <1>3 DEF StreamInv

LEMMA PublishAppendStream ==
  ASSUME IInv, PublishAppend, NEW c \in Streams
  PROVE  StreamInv(c)'
<1>1. /\ pub.pc = "append" /\ history' = Trim(Append(history, pub.ev))
      /\ pub'.pc = "send" /\ pub'.ev = pub.ev /\ pub'.to = subs
      /\ UNCHANGED <<revision, chan, sent, stream>>
      /\ missed'[c] = IF stream[c] = "gap" THEN missed[c] \cup {pub.ev.rev} ELSE missed[c]
  BY DEF PublishAppend, Missed, IInv, PubInv
<1>2. /\ history' \in Seq(Event) /\ Len(history') \in 1..MaxHist /\ history'[Len(history')] = pub.ev
      /\ \A i \in 1..(Len(history') - 1) : \E j \in DOMAIN history : history'[i] = history[j]
  BY <1>1, HistoryGrows, SMTT(60) DEF IInv
<1>3. \A i \in DOMAIN history' : history'[i] = pub.ev \/ \E j \in DOMAIN history : history'[i] = history[j]
  <2>1. \A i \in DOMAIN history' : i = Len(history') \/ i \in 1..(Len(history') - 1)
    BY <1>2
  <2> QED
    BY <1>2, <2>1
<1>4. ~Pending(c) /\ (stream[c] = "open" => Pending(c)')
  BY <1>1 DEF Pending, IInv, Members
<1>5. LastRev = revision - 1 /\ revision \in Nat /\ LastRev' = revision /\ pub.ev.rev = revision
  <2>1. LastRev = revision - 1 /\ revision \in Nat /\ pub.ev.rev = revision
    BY <1>1, BrokerFacts DEF IInv, PubInv
  <2>2. BrokerInv'
    BY BrokerStep DEF IInv, Next, Publishing
  <2>3. LastRev' = revision'
    BY <1>1, <2>2 DEF BrokerInv, HistoryContiguous
  <2> QED
    BY <1>1, <2>1, <2>3
<1>6. StreamInv(c)
  BY DEF IInv
<1>7. Top(c) = LastRev /\ Top(c)' \in {revision - 1, revision}
  BY <1>1, <1>4, <1>5 DEF Top
<1>8. Ordered(sent[c], chan[c], Top(c))'
  <2>1. Ordered(sent[c], chan[c], Top(c))
    BY <1>6 DEF StreamInv
  <2>2. Top(c) \in Int /\ Top(c)' \in Int /\ Top(c) <= Top(c)'
    BY <1>5, <1>7
  <2>3. Ordered(sent[c], chan[c], Top(c)')
    BY <2>1, <2>2, OrderedUp
  <2> QED
    BY <1>1, <2>3
<1>9. ASSUME NEW i \in DOMAIN chan'[c], NEW j \in DOMAIN history', history'[j].rev = chan'[c][i].rev
      PROVE  history'[j] = chan'[c][i]
  <2>1. chan'[c] = chan[c] /\ chan[c] \in Seq(Event) /\ chan[c][i].rev <= LastRev
    BY <1>1, <1>6, <1>7, <1>9 DEF StreamInv, Ordered
  <2>2. CASE history'[j] = pub.ev
    <3>1. chan[c][i] \in Event
      BY <1>9, <2>1
    <3>2. chan[c][i].rev \in Int
      BY <3>1, RevIsNat
    <3> QED
      BY <1>5, <1>9, <2>1, <2>2, <3>2
  <2>3. CASE \E k \in DOMAIN history : history'[j] = history[k]
    BY <1>6, <1>9, <2>1, <2>3 DEF StreamInv
  <2> QED
    BY <1>3, <2>2, <2>3
<1>10. ASSUME stream'[c] \in {"gap", "open"}, NEW i \in DOMAIN history', NEW ev, ev = history'[i],
              ev.path \in Begins
       PROVE  Accounted(c, ev)'
  <2>1. CASE ev = pub.ev
    BY <1>1, <1>4, <1>10, <2>1 DEF Accounted
  <2>2. CASE \E k \in DOMAIN history : ev = history[k]
    <3>1. Accounted(c, ev)
      BY <1>1, <1>6, <1>10, <2>2 DEF StreamInv
    <3> QED
      BY <1>1, <1>4, <3>1 DEF Accounted
  <2> QED
    BY <1>3, <1>10, <2>1, <2>2
<1>11. Len(chan'[c]) <= Buffer /\ (stream'[c] \in {"new", "gap"} => chan'[c] = <<>>)
  BY <1>1, <1>6 DEF StreamInv
<1> QED
  BY <1>8, <1>9, <1>10, <1>11 DEF StreamInv, Accounted

LEMMA SendStream ==
  ASSUME IInv, NEW c \in Streams, Send(c)
  PROVE  StreamInv(c)'
<1>1. /\ pub.pc = "send" /\ c \in pub.to /\ pub'.pc = "send" /\ pub'.to = pub.to \ {c} /\ pub'.ev = pub.ev
      /\ UNCHANGED <<revision, history, sent, stream>>
      /\ sent[c] \in Seq(Event) /\ chan[c] \in Seq(Event)
  BY DEF Send, IInv, PubInv, Channels
<1>2. /\ chan'[c] = Offered(c)
      /\ missed'[c] = IF Len(chan[c]) < Buffer THEN missed[c] ELSE missed[c] \cup {pub.ev.rev}
  BY DEF Send, Missed, IInv, Channels
<1>3. StreamInv(c) /\ BrokerInv
  BY DEF IInv
<1>4. pub.ev \in Event /\ pub.ev.rev = revision /\ LastRev = revision /\ revision \in Nat
      /\ history # <<>> /\ history[Len(history)] = pub.ev /\ LastRev' = LastRev
  BY <1>1, <1>3, BrokerFacts DEF IInv, PubInv, LastRev
<1>5. Top(c) = pub.ev.rev - 1 /\ Top(c)' = pub.ev.rev /\ ~Pending(c)'
  BY <1>1, <1>4 DEF Top, Pending
<1>6. stream[c] = "open" \/ stream[c] = "done"
  BY <1>1 DEF IInv, PubInv, Members
<1>7. \A j \in DOMAIN history : history[j].rev = pub.ev.rev => history[j] = pub.ev
  <2>1. /\ Len(history) \in Nat /\ DOMAIN history = 1..Len(history) /\ Base \in Nat
        /\ \A i \in DOMAIN history : history[i].rev = Base + i
    BY <1>3, BrokerFacts
  <2>2. history \in Seq(Event)
    BY <1>3 DEF BrokerInv
  <2>3. Len(history) \in DOMAIN history
    BY <1>4, <2>1, <2>2, EmptySeq
  <2>4. \A j \in DOMAIN history : history[j].rev = pub.ev.rev => j = Len(history)
    BY <1>4, <2>1, <2>3
  <2> QED
    BY <1>4, <2>4
<1>8. CASE Len(chan[c]) < Buffer
  <2>1. chan'[c] = Append(chan[c], pub.ev) /\ missed'[c] = missed[c]
    BY <1>2, <1>8 DEF Offered
  <2>2. Ordered(sent[c], chan[c], pub.ev.rev - 1)
    BY <1>3, <1>5 DEF StreamInv
  <2>3. /\ Ordered(sent[c], chan'[c], pub.ev.rev)
        /\ Revs(chan'[c]) = Revs(chan[c]) \cup {pub.ev.rev}
    <3>1. pub.ev \in Event
      BY <1>4
    <3>2. /\ Ordered(sent[c], Append(chan[c], pub.ev), pub.ev.rev)
          /\ Revs(Append(chan[c], pub.ev)) = Revs(chan[c]) \cup {pub.ev.rev}
      BY <2>2, <3>1, OrderedSend
    <3> QED
      BY <2>1, <3>2
  <2>4. Len(chan'[c]) <= Buffer
    <3>1. Len(chan'[c]) = Len(chan[c]) + 1
      BY <1>1, <1>4, <2>1, AppendProperties
    <3>2. Len(chan[c]) \in Nat /\ Buffer \in Nat
      BY <1>1, SizesAssumption
    <3> QED
      BY <1>8, <3>1, <3>2
  <2>5. \A i \in DOMAIN chan'[c] : chan'[c][i] = pub.ev \/ \E j \in DOMAIN chan[c] : chan'[c][i] = chan[c][j]
    <3>1. /\ Len(chan'[c]) = Len(chan[c]) + 1 /\ chan'[c][Len(chan[c]) + 1] = pub.ev
          /\ \A i \in 1..Len(chan[c]) : chan'[c][i] = chan[c][i]
          /\ DOMAIN chan'[c] = 1..(Len(chan[c]) + 1) /\ DOMAIN chan[c] = 1..Len(chan[c]) /\ Len(chan[c]) \in Nat
      BY <1>1, <1>4, <2>1, AppendProperties
    <3>2. \A i \in DOMAIN chan'[c] : i = Len(chan[c]) + 1 \/ i \in DOMAIN chan[c]
      BY <3>1
    <3> QED
      BY <3>1, <3>2
  <2>6. \A i \in DOMAIN chan'[c], j \in DOMAIN history :
          history[j].rev = chan'[c][i].rev => history[j] = chan'[c][i]
    BY <1>3, <1>7, <2>5 DEF StreamInv
  <2>7. \A ev : Accounted(c, ev) => Accounted(c, ev)'
    BY <1>1, <2>1, <2>3 DEF Accounted, Pending
  <2> QED
    BY <1>1, <1>3, <1>5, <1>6, <2>3, <2>4, <2>6, <2>7 DEF StreamInv
<1>9. CASE ~(Len(chan[c]) < Buffer)
  <2>1. chan'[c] = chan[c] /\ missed'[c] = missed[c] \cup {pub.ev.rev}
    BY <1>2, <1>9 DEF Offered
  <2>2. Ordered(sent[c], chan[c], pub.ev.rev)
    <3>1. Ordered(sent[c], chan[c], pub.ev.rev - 1)
      BY <1>3, <1>5 DEF StreamInv
    <3>2. pub.ev.rev - 1 \in Int /\ pub.ev.rev \in Int /\ pub.ev.rev - 1 <= pub.ev.rev
      BY <1>4
    <3> QED
      BY <3>1, <3>2, OrderedUp
  <2>3. \A ev : Accounted(c, ev) => Accounted(c, ev)'
    BY <1>1, <2>1 DEF Accounted, Pending
  <2> QED
    BY <1>1, <1>3, <1>5, <1>6, <2>1, <2>2, <2>3 DEF StreamInv
<1> QED
  BY <1>8, <1>9

LEMMA SendPanicsStream ==
  ASSUME IInv, NEW c \in Streams, \E d \in Streams : SendPanics(d)
  PROVE  StreamInv(c)'
<1>1. /\ pub.pc = "send" /\ pub'.pc # "send" /\ Missed(pub.to)
      /\ UNCHANGED <<revision, history, chan, sent, stream>>
  BY DEF SendPanics, NoPub
<1>2. missed'[c] = IF c \in pub.to THEN missed[c] \cup {pub.ev.rev} ELSE missed[c]
  BY <1>1 DEF Missed
<1>3. StreamInv(c) /\ BrokerInv /\ ~Pending(c)'
  BY <1>1 DEF IInv, Pending
<1>4. CASE c \notin pub.to
  BY <1>1, <1>2, <1>3, <1>4, StreamSame DEF Pending
<1>5. CASE c \in pub.to
  <2>1. Top(c) \in Int /\ LastRev \in Int /\ Top(c) <= LastRev /\ Top(c)' = LastRev
    BY <1>1, <1>3, TopIsInt, BrokerFacts DEF Top, LastRev
  <2>2. Ordered(sent[c], chan[c], Top(c))
    BY <1>3 DEF StreamInv
  <2>3. Ordered(sent[c], chan[c], LastRev)
    BY <2>1, <2>2, OrderedUp
  <2>4. \A ev : Accounted(c, ev) => Accounted(c, ev)'
    BY <1>1, <1>2, <1>5 DEF Accounted
  <2> QED
    BY <1>1, <1>3, <2>1, <2>3, <2>4 DEF StreamInv
<1> QED
  BY <1>4, <1>5

LEMMA ReplayStream ==
  ASSUME IInv, NEW c \in Streams, Replay(c)
  PROVE  StreamInv(c)'
<1>1. /\ stream[c] = "new" /\ stream'[c] = "gap"
      /\ UNCHANGED <<revision, history, subs, closed, pub, chan>>
  BY DEF Replay, brokerVars, IInv, Members
<1>2. PICK rev \in Cursors :
        sent'[c] = Since(rev) /\ missed'[c] = Elsewhere \cup {r \in Revs(history) : r <= rev}
  BY DEF Replay, IInv, Channels
<1>3. chan[c] = <<>> /\ BrokerInv
  BY <1>1 DEF IInv, StreamInv
<1>4. ~Pending(c)
  BY <1>1 DEF IInv, PubInv, Members, Pending
<1>5. Top(c)' = LastRev
  BY <1>1, <1>4 DEF Top, Pending, LastRev
<1>6. From(Since(rev), Len(history), rev)
  BY <1>3, SinceIs, BrokerFacts
<1>7. \A i \in DOMAIN Since(rev) : Since(rev)[i].rev <= LastRev
  <2> SUFFICES ASSUME NEW i \in DOMAIN Since(rev)
               PROVE  Since(rev)[i].rev <= LastRev
    OBVIOUS
  <2>1. PICK j \in 1..Len(history) : Since(rev)[i] = history[j]
    BY <1>6 DEF From
  <2>2. history[j].rev = Base + j /\ LastRev = Base + Len(history) /\ Base \in Nat /\ Len(history) \in Nat
    BY <1>3, BrokerFacts
  <2> QED
    BY <2>1, <2>2
<1>8. Ordered(Since(rev), <<>>, LastRev)
  BY <1>6, <1>7, EmptySeq DEF Ordered, From, Increasing
<1>9. Ordered(sent[c], chan[c], Top(c))'
  BY <1>1, <1>2, <1>3, <1>5, <1>8
<1>10. Len(chan'[c]) <= Buffer /\ chan'[c] = <<>>
  BY <1>1, <1>3, SizesAssumption
<1>11. ASSUME NEW i \in DOMAIN history
       PROVE  Accounted(c, history[i])'
  <2>1. CASE history[i].path \notin Under
    <3>1. history[i].rev \in Elsewhere
      BY <2>1 DEF Elsewhere
    <3> QED
      BY <1>1, <1>2, <3>1 DEF Accounted
  <2>2. CASE history[i].path \in Under /\ history[i].rev > rev
    <3>1. Wanted(history[i], rev)
      BY <2>2 DEF Wanted
    <3>2. PICK k \in DOMAIN Since(rev) : Since(rev)[k] = history[i]
      BY <1>3, <1>6, <3>1, BrokerFacts DEF From
    <3>3. history[i].rev \in Revs(sent'[c])
      BY <1>2, <3>2 DEF Revs
    <3> QED
      BY <1>1, <3>3 DEF Accounted
  <2>3. CASE history[i].rev <= rev
    <3>1. history[i].rev \in Revs(history)
      BY DEF Revs
    <3> QED
      BY <1>1, <1>2, <2>3, <3>1 DEF Accounted
  <2>4. history[i].rev > rev \/ history[i].rev <= rev
    BY <1>3, BrokerFacts, CursorsAssumption
  <2> QED
    BY <2>1, <2>2, <2>3, <2>4
<1> QED
  BY <1>1, <1>9, <1>10, <1>11 DEF StreamInv

LEMMA SubscribeStream ==
  ASSUME IInv, NEW c \in Streams, Subscribe(c)
  PROVE  StreamInv(c)'
<1>1. /\ stream[c] = "gap" /\ stream'[c] = "open"
      /\ UNCHANGED <<revision, history, pub, chan, sent, missed>>
  BY DEF Subscribe, IInv, Members, Channels
<1>2. StreamInv(c) /\ BrokerInv
  BY DEF IInv
<1>3. Top(c)' = Top(c)
  BY <1>1 DEF Top, Pending, LastRev
<1>4. \A ev : Accounted(c, ev) => Accounted(c, ev)'
  BY <1>1 DEF Accounted, Pending
<1> QED
  BY <1>1, <1>2, <1>3, <1>4 DEF StreamInv

LEMMA ReceiveStream ==
  ASSUME IInv, NEW c \in Streams, Receive(c)
  PROVE  StreamInv(c)'
<1> DEFINE keep == Head(chan[c]).path \in Begins
           e    == Head(chan[c])
<1>1. /\ stream[c] = "open" /\ chan[c] # <<>> /\ chan'[c] = Tail(chan[c])
      /\ sent'[c] = IF keep THEN Append(sent[c], e) ELSE sent[c]
      /\ UNCHANGED <<revision, history, pub, stream, missed>>
      /\ sent[c] \in Seq(Event) /\ chan[c] \in Seq(Event)
  BY DEF Receive, brokerVars, IInv, Channels
<1>2. StreamInv(c)
  BY DEF IInv
<1>3. Top(c)' = Top(c)
  BY <1>1 DEF Top, Pending, LastRev
<1>4. Ordered(sent[c], chan[c], Top(c)) /\ keep \in BOOLEAN
  BY <1>2 DEF StreamInv
<1>5. Ordered(IF keep THEN Append(sent[c], e) ELSE sent[c], Tail(chan[c]), Top(c))
  BY <1>1, <1>4, OrderedReceive
<1>6. Ordered(sent[c], chan[c], Top(c))'
  BY <1>1, <1>3, <1>5
<1>7. /\ Tail(chan[c]) \in Seq(Event) /\ Len(Tail(chan[c])) = Len(chan[c]) - 1 /\ 1 \in DOMAIN chan[c]
      /\ \A i \in DOMAIN Tail(chan[c]) : i + 1 \in DOMAIN chan[c] /\ Tail(chan[c])[i] = chan[c][i + 1]
      /\ Revs(chan[c]) = {e.rev} \cup Revs(Tail(chan[c]))
      /\ e = chan[c][1] /\ e \in Event
  BY <1>1, TailIs
<1>8. Len(chan'[c]) <= Buffer
  BY <1>1, <1>2, <1>7, SizesAssumption, LenProperties DEF StreamInv
<1>9. \A i \in DOMAIN chan'[c], j \in DOMAIN history :
        history[j].rev = chan'[c][i].rev => history[j] = chan'[c][i]
  BY <1>1, <1>2, <1>7 DEF StreamInv
<1>10. keep => Revs(sent'[c]) = Revs(sent[c]) \cup {e.rev}
  <2>1. \A i \in DOMAIN sent[c] : sent[c][i].rev < e.rev
    BY <1>4, <1>7 DEF Ordered
  <2> QED
    BY <1>1, <1>4, <1>7, <2>1, AppendOrdered DEF Ordered
<1>11. ASSUME NEW i \in DOMAIN history, history[i].path \in Begins, Accounted(c, history[i])
       PROVE  Accounted(c, history[i])'
  <2>1. CASE history[i].rev = e.rev
    <3>1. history[i] = e
      BY <1>2, <1>7, <2>1 DEF StreamInv
    <3> QED
      BY <1>1, <1>10, <1>11, <3>1 DEF Accounted
  <2>2. CASE history[i].rev # e.rev
    <3>1. Revs(sent[c]) \subseteq Revs(sent'[c])
      BY <1>1, <1>10
    <3> QED
      BY <1>1, <1>7, <1>11, <2>2, <3>1 DEF Accounted, Pending
  <2> QED
    BY <2>1, <2>2
<1> HIDE DEF keep, e
<1> QED
  BY <1>1, <1>2, <1>6, <1>8, <1>9, <1>11 DEF StreamInv

LEMMA EmptyStream ==
  ASSUME NEW c \in Streams, sent'[c] = <<>>, chan'[c] = <<>>, stream'[c] \notin {"gap", "open"}
  PROVE  StreamInv(c)'
<1>1. \A t : Ordered(<<>>, <<>>, t)
  BY EmptySeq DEF Ordered, Increasing
<1>2. Ordered(sent[c], chan[c], Top(c))'
  BY <1>1
<1>3. Len(chan'[c]) <= Buffer
  BY SizesAssumption
<1> QED
  BY <1>2, <1>3 DEF StreamInv

LEMMA StreamStep ==
  ASSUME IInv, [Next]_vars, NEW c \in Streams
  PROVE  StreamInv(c)'
<1> DEFINE Quiet == /\ UNCHANGED <<revision, history>>
                    /\ sent'[c] = sent[c] /\ chan'[c] = chan[c] /\ stream'[c] = stream[c]
                    /\ missed'[c] = missed[c]
<1>1. StreamInv(c)
  BY DEF IInv
<1>2. ASSUME Quiet, UNCHANGED pub
      PROVE  StreamInv(c)'
  BY <1>1, <1>2, StreamSame DEF Pending
<1>3. CASE PublishRevision
  <2>1. /\ pub.pc = "idle" /\ pub'.pc = "append"
        /\ UNCHANGED <<history, sent, chan, stream, missed>>
    BY <1>3 DEF PublishRevision, streamVars
  <2> QED
    BY <1>1, <2>1, StreamSame DEF Pending
<1>4. CASE PublishAppend
  BY <1>4, PublishAppendStream
<1>5. CASE PublishDone
  <2>1. pub.to = {} /\ pub'.pc # "send" /\ Quiet
    BY <1>5 DEF PublishDone, NoPub, streamVars
  <2> QED
    BY <1>1, <2>1, StreamSame DEF Pending
<1>6. ASSUME NEW d \in Streams, Send(d)
      PROVE  StreamInv(c)'
  <2>1. CASE c = d
    BY <1>6, <2>1, SendStream
  <2>2. CASE c # d
    <3>1. Quiet /\ pub'.pc = pub.pc /\ pub'.ev = pub.ev /\ (c \in pub'.to <=> c \in pub.to)
      BY <1>6, <2>2 DEF Send, Missed, IInv, PubInv, Channels
    <3> QED
      BY <1>1, <3>1, StreamSame DEF Pending
  <2> QED
    BY <2>1, <2>2
<1>7. CASE \E d \in Streams : SendPanics(d)
  BY <1>7, SendPanicsStream
<1>8. ASSUME NEW d \in Streams, Replay(d) \/ Subscribe(d) \/ Receive(d) \/ Unsubscribe(d)
      PROVE  StreamInv(c)'
  <2>1. CASE c # d
    <3>1. Quiet /\ UNCHANGED pub
      <4>1. CASE Replay(d)
        BY <2>1, <4>1 DEF Replay, brokerVars, IInv, Members, Channels
      <4>2. CASE Subscribe(d)
        BY <2>1, <4>2 DEF Subscribe, IInv, Members, Channels
      <4>3. CASE Receive(d)
        BY <2>1, <4>3 DEF Receive, brokerVars, IInv, Members, Channels
      <4>4. CASE Unsubscribe(d)
        BY <2>1, <4>4 DEF Unsubscribe, IInv, Members, Channels
      <4> QED
        BY <1>8, <4>1, <4>2, <4>3, <4>4
    <3> HIDE DEF Quiet
    <3> QED
      BY <1>2, <3>1
  <2>2. CASE c = d /\ ~Unsubscribe(d)
    BY <1>8, <2>2, ReplayStream, SubscribeStream, ReceiveStream
  <2>3. CASE c = d /\ Unsubscribe(d)
    <3>1. sent'[c] = <<>> /\ chan'[c] = <<>> /\ stream'[c] = "done"
      BY <2>3 DEF Unsubscribe, IInv, Members, Channels
    <3> QED
      BY <3>1, EmptyStream
  <2> QED
    BY <2>1, <2>2, <2>3
<1>9. CASE \E p \in Pollers : PollSince(p) \/ PollRevision(p)
  <2>1. UNCHANGED <<revision, history, pub, sent, chan, stream, missed>>
    BY <1>9 DEF PollSince, PollRevision, brokerVars, streamVars
  <2> QED
    BY <1>2, <2>1
<1>10. CASE Restart
  <2>1. sent'[c] = <<>> /\ chan'[c] = <<>> /\ stream'[c] = "new"
    BY <1>10 DEF Restart
  <2> QED
    BY <2>1, EmptyStream
<1>11. CASE UNCHANGED vars
  <2>1. UNCHANGED <<revision, history, pub, sent, chan, stream, missed>>
    BY <1>11 DEF vars
  <2> QED
    BY <1>2, <2>1
<1> HIDE DEF Quiet
<1> QED
  BY <1>3, <1>4, <1>5, <1>6, <1>7, <1>8, <1>9, <1>10, <1>11, Zenon DEF Next, Publishing

-----------------------------------------------------------------------------
(* Types of the channels                                                   *)

LEMMA RevOfPub ==
  ASSUME IInv, pub.pc \in {"append", "send"}
  PROVE  pub.ev \in Event /\ pub.ev.rev \in 1..MaxEvents
BY RevIsNat DEF IInv, PubInv

LEMMA LastRevBound ==
  ASSUME BrokerInv
  PROVE  LastRev \in 0..MaxEvents /\ revision \in 0..MaxEvents
<1>1. revision \in Nat /\ spent \in Nat /\ revision + spent <= MaxEvents /\ MaxEvents \in Nat
  BY SizesAssumption DEF BrokerInv
<1>2. LastRev \in Nat /\ LastRev <= revision
  BY BrokerFacts
<1> QED
  BY <1>1, <1>2

LEMMA SinceBound ==
  ASSUME BrokerInv, NEW since
  PROVE  /\ Revs(Since(since)) \subseteq 1..MaxEvents /\ Elsewhere \subseteq 1..MaxEvents
         /\ Revs(history) \subseteq 1..MaxEvents
<1>1. From(Since(since), Len(history), since) /\ history \in Seq(Event)
  BY SinceIs, BrokerFacts DEF BrokerInv
<1>2. \A i \in DOMAIN Since(since) : Since(since)[i] \in Event
  BY <1>1 DEF From
<1>3. \A i \in DOMAIN history : history[i] \in Event
  BY <1>1
<1> QED
  BY <1>2, <1>3, RevIsNat DEF Revs, Elsewhere

LEMMA ChannelsStep ==
  ASSUME IInv, [Next]_vars
  PROVE  Channels'
<1>1. Channels /\ BrokerInv
  BY DEF IInv
<1>2. \A c \in Streams : StreamInv(c)'
  BY StreamStep
<1>3. \A c \in Streams : sent'[c] \in Seq(Event) /\ chan'[c] \in Seq(Event)
  BY <1>2 DEF StreamInv, Ordered
<1> DEFINE Maps == /\ sent' = [c \in Streams |-> sent'[c]] /\ chan' = [c \in Streams |-> chan'[c]]
                   /\ missed' \in [Streams -> SUBSET (1..MaxEvents)]
<1>4. CASE \/ PublishRevision \/ PublishDone
           \/ (\E p \in Pollers : PollSince(p) \/ PollRevision(p)) \/ UNCHANGED vars
  <2>1. UNCHANGED <<chan, sent, missed>>
    BY <1>4 DEF PublishRevision, PublishDone, PollSince, PollRevision, vars, streamVars
  <2> QED
    BY <1>1, <2>1 DEF Channels
<1>5. CASE PublishAppend \/ \E d \in Streams : Send(d) \/ SendPanics(d)
  <2>1. pub.ev.rev \in 1..MaxEvents
    BY <1>5, RevOfPub DEF PublishAppend, Send, SendPanics
  <2>2. missed' \in [Streams -> SUBSET (1..MaxEvents)]
    <3>1. PICK D : Missed(D)
      BY <1>5 DEF PublishAppend, Send, SendPanics
    <3> QED
      BY <1>1, <2>1, <3>1 DEF Missed, Channels
  <2>3. UNCHANGED sent
    BY <1>5 DEF PublishAppend, Send, SendPanics
  <2>4. chan' = [c \in Streams |-> chan'[c]]
    <3>1. chan' = chan \/ \E d \in Streams : chan' = [chan EXCEPT ![d] = Offered(d)]
      BY <1>5 DEF PublishAppend, Send, SendPanics
    <3> QED
      BY <1>1, <3>1 DEF Channels
  <2>5. Maps
    BY <1>1, <2>2, <2>3, <2>4 DEF Channels
  <2> QED
    BY <1>3, <2>5 DEF Channels
<1>6. CASE \E d \in Streams : Replay(d) \/ Receive(d)
  <2>1. \A rev : Elsewhere \cup {r \in Revs(history) : r <= rev} \subseteq 1..MaxEvents
    BY <1>1, SinceBound
  <2>2. missed' \in [Streams -> SUBSET (1..MaxEvents)]
    <3>1. CASE UNCHANGED missed
      BY <1>1, <3>1 DEF Channels
    <3>2. CASE \E d \in Streams, rev \in Cursors :
                 missed' = [missed EXCEPT ![d] = Elsewhere \cup {r \in Revs(history) : r <= rev}]
      BY <1>1, <2>1, <3>2 DEF Channels
    <3> QED
      BY <1>6, <3>1, <3>2 DEF Replay, Receive
  <2>3. Maps
    BY <1>1, <1>6, <2>2 DEF Replay, Receive, Channels
  <2> QED
    BY <1>3, <2>3 DEF Channels
<1>7. CASE \E d \in Streams : Subscribe(d)
  <2>1. Maps
    BY <1>1, <1>7 DEF Subscribe, Channels
  <2> QED
    BY <1>3, <2>1 DEF Channels
<1>8. CASE Restart \/ \E d \in Streams : Unsubscribe(d)
  <2>1. Maps
    BY <1>1, <1>8, ZenonT(60) DEF Restart, Unsubscribe, Channels
  <2> QED
    BY <1>3, <2>1 DEF Channels
<1> QED
  BY <1>4, <1>5, <1>6, <1>7, <1>8, Zenon DEF Next, Publishing

-----------------------------------------------------------------------------
(* The pollers                                                             *)

(* What a request reads, with what it need not be given, is everything up  *)
(* to the revision.                                                        *)
LEMMA SinceCovers ==
  ASSUME BrokerInv, PubInv, NEW since \in Int, NEW r \in 1..revision, r > since
  PROVE  r \in Revs(Since(since)) \cup Elsewhere \cup (1..(LastRev - MaxHist))
               \cup IF pub.pc = "append" THEN {pub.ev.rev} ELSE {}
<1>1. /\ Numbered /\ LastRev \in Nat /\ revision \in Nat /\ Base \in Nat
      /\ Len(history) \in Nat /\ DOMAIN history = 1..Len(history)
      /\ LastRev = Base + Len(history) /\ MaxHist \in Nat
      /\ pub.pc = "append" => LastRev = revision - 1
      /\ pub.pc # "append" => LastRev = revision
  BY BrokerFacts, SizesAssumption
<1>2. Base > 0 => Len(history) = MaxHist
  BY DEF BrokerInv
<1>3. CASE r > LastRev
  <2>1. pub.pc = "append" /\ r = revision
    BY <1>1, <1>3
  <2> QED
    BY <2>1 DEF PubInv
<1>4. CASE r <= Base
  <2>1. r \in 1..(LastRev - MaxHist)
    <3>1. Base \in Nat /\ LastRev \in Nat /\ LastRev = Base + Len(history) /\ r \in Nat /\ r > 0
      BY <1>1
    <3>2. Base > 0 /\ MaxHist \in Nat
      BY <1>1, <1>4, <3>1
    <3>3. Len(history) = MaxHist
      BY <1>2, <3>2
    <3>4. LastRev - MaxHist = Base
      BY <3>1, <3>2, <3>3
    <3> QED
      BY <1>4, <3>1, <3>4
  <2> QED
    BY <2>1
<1>5. CASE r > Base /\ r <= LastRev
  <2> DEFINE j == r - Base
  <2>1. j \in 1..Len(history) /\ Base + j = r
    BY <1>1, <1>5
  <2> HIDE DEF j
  <2>2. history[j].rev = r /\ j \in DOMAIN history
    BY <1>1, <2>1 DEF Numbered
  <2>3. CASE history[j].path \notin Under
    BY <2>2, <2>3 DEF Elsewhere
  <2>4. CASE history[j].path \in Under
    <3>1. Wanted(history[j], since)
      BY <2>2, <2>4 DEF Wanted
    <3>2. From(Since(since), Len(history), since)
      BY <1>1, SinceIs
    <3>3. PICK k \in DOMAIN Since(since) : Since(since)[k] = history[j]
      BY <2>1, <3>1, <3>2 DEF From
    <3>4. r \in Revs(Since(since))
      BY <2>2, <3>3 DEF Revs
    <3> QED
      BY <3>4
  <2> QED
    BY <2>3, <2>4
<1> QED
  BY <1>1, <1>3, <1>4, <1>5

LEMMA PollSinceStep ==
  ASSUME IInv, NEW p \in Pollers, PollSince(p)
  PROVE  PollInv'
<1> DEFINE got == Revs(Since(poll[p].since))
           exc == Elsewhere \cup (1..(LastRev - MaxHist)) \cup IF pub.pc = "append" THEN {pub.ev.rev} ELSE {}
<1>1. /\ poll[p].pc = "idle" /\ revision' = revision
      /\ poll' = [poll EXCEPT ![p].pc = "rev", ![p].got = @ \cup got]
      /\ excused' = [excused EXCEPT ![p] = @ \cup exc]
  BY DEF PollSince, brokerVars
<1>2. /\ BrokerInv /\ PubInv /\ poll[p] \in PollState /\ poll[p].since \in Int /\ excused[p] \subseteq 1..MaxEvents
      /\ poll \in [Pollers -> PollState] /\ excused \in [Pollers -> SUBSET (1..MaxEvents)]
      /\ \A q \in Pollers : 1..(IF Requesting(q) THEN revision ELSE poll[q].since) \subseteq poll[q].got \cup excused[q]
  BY SizesAssumption DEF IInv, PollInv, PollState
<1>3. got \subseteq 1..MaxEvents
  BY <1>2, SinceBound
<1>4. exc \subseteq 1..MaxEvents
  <2>1. Elsewhere \subseteq 1..MaxEvents /\ LastRev \in 0..MaxEvents /\ MaxHist \in Nat /\ MaxEvents \in Nat
    BY <1>2, SinceBound, LastRevBound, SizesAssumption
  <2>2. pub.pc = "append" => pub.ev.rev \in 1..MaxEvents
    BY <1>2, RevIsNat DEF PubInv
  <2>3. 1..(LastRev - MaxHist) \subseteq 1..MaxEvents
    BY <2>1
  <2> QED
    BY <2>1, <2>2, <2>3
<1>5. \A r \in 1..revision : r > poll[p].since => r \in got \cup exc
  BY <1>2, SinceCovers
<1>6. 1..poll[p].since \subseteq poll[p].got \cup excused[p]
  BY <1>1, <1>2 DEF Requesting
<1>7. revision \in Nat
  BY <1>2 DEF BrokerInv
<1> HIDE DEF got, exc
<1>8. 1..revision \subseteq (poll[p].got \cup got) \cup (excused[p] \cup exc)
  BY <1>2, <1>5, <1>6, <1>7
<1>9. /\ poll'[p] = [poll[p] EXCEPT !.pc = "rev", !.got = @ \cup got] /\ excused'[p] = excused[p] \cup exc
      /\ \A q \in Pollers \ {p} : poll'[q] = poll[q] /\ excused'[q] = excused[q]
  <2>1. p \in DOMAIN poll /\ p \in DOMAIN excused /\ DOMAIN poll = Pollers /\ DOMAIN excused = Pollers
    BY <1>2
  <2>2. poll'[p] = [poll[p] EXCEPT !.pc = "rev", !.got = @ \cup got]
    BY <1>1, <2>1
  <2>3. excused'[p] = excused[p] \cup exc
    BY <1>1, <2>1
  <2>4. \A q \in Pollers \ {p} : poll'[q] = poll[q] /\ excused'[q] = excused[q]
    BY <1>1, <2>1
  <2> QED
    BY <2>2, <2>3, <2>4
<1>10. poll'[p] \in PollState /\ poll'[p].pc = "rev" /\ poll'[p].got = poll[p].got \cup got
  BY <1>2, <1>3, <1>9 DEF PollState
<1>11. poll' \in [Pollers -> PollState] /\ excused' \in [Pollers -> SUBSET (1..MaxEvents)]
  BY <1>1, <1>2, <1>4, <1>9, <1>10
<1>12. \A q \in Pollers : 1..(IF poll'[q].pc = "rev" THEN revision' ELSE poll'[q].since) \subseteq poll'[q].got \cup excused'[q]
  <2> SUFFICES ASSUME NEW q \in Pollers
               PROVE  1..(IF poll'[q].pc = "rev" THEN revision' ELSE poll'[q].since) \subseteq poll'[q].got \cup excused'[q]
    OBVIOUS
  <2>1. CASE q = p
    BY <1>1, <1>8, <1>9, <1>10, <2>1
  <2>2. CASE q # p
    BY <1>1, <1>2, <1>9, <2>2 DEF Requesting
  <2> QED
    BY <2>1, <2>2
<1> QED
  BY <1>11, <1>12 DEF PollInv, Requesting

LEMMA PollRevisionStep ==
  ASSUME IInv, NEW p \in Pollers, PollRevision(p)
  PROVE  PollInv'
<1>1. /\ Requesting(p) /\ revision' = revision /\ excused' = excused
      /\ poll' = [poll EXCEPT ![p].pc = "idle", ![p].since = revision]
  BY DEF PollRevision, brokerVars
<1>2. /\ poll \in [Pollers -> PollState] /\ excused \in [Pollers -> SUBSET (1..MaxEvents)]
      /\ \A q \in Pollers : 1..(IF Requesting(q) THEN revision ELSE poll[q].since) \subseteq poll[q].got \cup excused[q]
      /\ revision \in 0..MaxEvents
  BY LastRevBound DEF IInv, PollInv
<1>3. poll'[p] = [poll[p] EXCEPT !.pc = "idle", !.since = revision]
      /\ \A q \in Pollers \ {p} : poll'[q] = poll[q]
  <2>1. p \in DOMAIN poll /\ DOMAIN poll = Pollers
    BY <1>2
  <2> QED
    BY <1>1, <2>1
<1>4. poll'[p] \in PollState /\ poll'[p].pc = "idle" /\ poll'[p].since = revision /\ poll'[p].got = poll[p].got
  <2>1. poll[p] \in PollState /\ revision \in 0..MaxEvents
    BY <1>2
  <2> QED
    BY <1>3, <2>1 DEF PollState
<1>5. poll' \in [Pollers -> PollState]
  BY <1>1, <1>2, <1>3, <1>4
<1>6. \A q \in Pollers : 1..(IF poll'[q].pc = "rev" THEN revision' ELSE poll'[q].since) \subseteq poll'[q].got \cup excused'[q]
  <2> SUFFICES ASSUME NEW q \in Pollers
               PROVE  1..(IF poll'[q].pc = "rev" THEN revision' ELSE poll'[q].since) \subseteq poll'[q].got \cup excused'[q]
    OBVIOUS
  <2>1. CASE q = p
    BY <1>1, <1>2, <1>4, <2>1
  <2>2. CASE q # p
    BY <1>1, <1>2, <1>3, <2>2 DEF Requesting
  <2> QED
    BY <2>1, <2>2
<1> QED
  BY <1>1, <1>2, <1>5, <1>6 DEF PollInv, Requesting

LEMMA PublishRevisionPoll ==
  ASSUME IInv, PublishRevision
  PROVE  PollInv'
<1>1. /\ revision' = revision + 1 /\ poll' = poll /\ revision \in Nat /\ revision + spent < MaxEvents
      /\ spent \in Nat /\ MaxEvents \in Nat
      /\ excused' = [p \in Pollers |-> IF Requesting(p) THEN excused[p] \cup {revision + 1} ELSE excused[p]]
  BY SizesAssumption DEF PublishRevision, IInv, BrokerInv
<1>2. /\ poll \in [Pollers -> PollState] /\ excused \in [Pollers -> SUBSET (1..MaxEvents)]
      /\ \A q \in Pollers : 1..(IF Requesting(q) THEN revision ELSE poll[q].since) \subseteq poll[q].got \cup excused[q]
  BY DEF IInv, PollInv
<1>3. revision + 1 \in 1..MaxEvents
  BY <1>1
<1>4. excused' \in [Pollers -> SUBSET (1..MaxEvents)]
  BY <1>1, <1>2, <1>3
<1>5. \A q \in Pollers : 1..(IF poll[q].pc = "rev" THEN revision + 1 ELSE poll[q].since) \subseteq poll[q].got \cup excused'[q]
  <2> SUFFICES ASSUME NEW q \in Pollers
               PROVE  1..(IF poll[q].pc = "rev" THEN revision + 1 ELSE poll[q].since) \subseteq poll[q].got \cup excused'[q]
    OBVIOUS
  <2>1. CASE Requesting(q)
    <3>1. excused'[q] = excused[q] \cup {revision + 1} /\ 1..revision \subseteq poll[q].got \cup excused[q]
      BY <1>1, <1>2, <2>1
    <3>2. \A r \in 1..(revision + 1) : r \in 1..revision \/ r = revision + 1
      BY <1>1
    <3> QED
      BY <2>1, <3>1, <3>2 DEF Requesting
  <2>2. CASE ~Requesting(q)
    BY <1>1, <1>2, <2>2 DEF Requesting
  <2> QED
    BY <2>1, <2>2
<1> QED
  BY <1>1, <1>2, <1>4, <1>5 DEF PollInv, Requesting

LEMMA RestartPoll ==
  ASSUME IInv, Restart
  PROVE  PollInv'
<1>1. /\ poll' = [p \in Pollers |-> [pc |-> "idle", since |-> poll[p].since, got |-> {}]]
      /\ excused' = [p \in Pollers |-> 1..poll[p].since]
  BY DEF Restart
<1>2. poll \in [Pollers -> PollState] /\ MaxEvents \in Nat
  BY SizesAssumption DEF IInv, PollInv
<1>3. \A p \in Pollers : poll[p].since \in 0..MaxEvents
  BY <1>2 DEF PollState
<1>4. \A p \in Pollers : poll'[p].pc = "idle" /\ poll'[p].since = poll[p].since /\ excused'[p] = 1..poll[p].since
  BY <1>1
<1>5. \A p \in Pollers : 1..poll[p].since \subseteq 1..MaxEvents
  BY <1>2, <1>3
<1>6. poll' \in [Pollers -> PollState] /\ excused' \in [Pollers -> SUBSET (1..MaxEvents)]
  BY <1>1, <1>3, <1>5 DEF PollState
<1> QED
  BY <1>4, <1>6 DEF PollInv, Requesting

LEMMA PollStep ==
  ASSUME IInv, [Next]_vars
  PROVE  PollInv'
<1>1. ASSUME UNCHANGED <<revision, poll, excused>>
      PROVE  PollInv'
  BY <1>1 DEF IInv, PollInv, Requesting
<1>2. CASE PublishAppend \/ PublishDone \/ \E c \in Streams : Send(c) \/ SendPanics(c)
  BY <1>1, <1>2 DEF PublishAppend, PublishDone, Send, SendPanics, pollVars
<1>3. CASE \E c \in Streams : Replay(c) \/ Subscribe(c) \/ Receive(c) \/ Unsubscribe(c)
  BY <1>1, <1>3 DEF Replay, Subscribe, Receive, Unsubscribe, brokerVars, pollVars
<1>4. CASE UNCHANGED vars
  BY <1>1, <1>4 DEF vars
<1>5. CASE PublishRevision
  BY <1>5, PublishRevisionPoll
<1>6. CASE \E p \in Pollers : PollSince(p) \/ PollRevision(p)
  BY <1>6, PollSinceStep, PollRevisionStep
<1>7. CASE Restart
  BY <1>7, RestartPoll
<1> QED
  BY <1>2, <1>3, <1>4, <1>5, <1>6, <1>7, Zenon DEF Next, Publishing

-----------------------------------------------------------------------------
(* The theorems                                                            *)

LEMMA InitInv == Init => IInv
<1> SUFFICES ASSUME Init
             PROVE  IInv
  OBVIOUS
<1>1. MaxHist \in Nat /\ Buffer \in Nat /\ MaxEvents \in Nat
  BY SizesAssumption
<1>2. /\ revision = 0 /\ spent = 0 /\ history = <<>> /\ pub = NoPub /\ subs = {} /\ closed = {}
      /\ stream = [c \in Streams |-> "new"] /\ chan = [c \in Streams |-> <<>>] /\ sent = [c \in Streams |-> <<>>]
      /\ missed = [c \in Streams |-> {}]
      /\ poll = [p \in Pollers |-> [pc |-> "idle", since |-> 0, got |-> {}]] /\ excused = [p \in Pollers |-> {}]
  BY DEF Init
<1>3. LastRev = 0 /\ Len(history) = 0 /\ history \in Seq(Event)
  BY <1>2, EmptySeq DEF LastRev
<1>4. BrokerInv
  <2>1. Base = 0
    BY <1>3 DEF Base
  <2>2. HistoryContiguous
    BY <1>2, <1>3 DEF HistoryContiguous, NoPub
  <2> QED
    BY <1>1, <1>2, <1>3, <2>1, <2>2 DEF BrokerInv
<1>5. PubInv
  BY <1>2 DEF PubInv, NoPub
<1>6. Members
  BY <1>2 DEF Members
<1>7. Channels
  BY <1>1, <1>2, EmptySeq DEF Channels
<1>8. ASSUME NEW c \in Streams
      PROVE  StreamInv(c)
  <2>1. sent[c] = <<>> /\ chan[c] = <<>> /\ stream[c] = "new"
    BY <1>2
  <2>2. Ordered(sent[c], chan[c], Top(c))
    BY <2>1, EmptySeq DEF Ordered, Increasing
  <2> QED
    BY <1>1, <2>1, <2>2 DEF StreamInv
<1>9. PollInv
  BY <1>1, <1>2 DEF PollInv, PollState, Requesting
<1> QED
  BY <1>4, <1>5, <1>6, <1>7, <1>8, <1>9 DEF IInv

LEMMA NextInv == IInv /\ [Next]_vars => IInv'
<1> SUFFICES ASSUME IInv, [Next]_vars
             PROVE  IInv'
  OBVIOUS
<1>1. BrokerInv' /\ PubInv' /\ Members'
  BY BrokerStep DEF IInv
<1>2. \A c \in Streams : StreamInv(c)'
  BY StreamStep
<1>3. Channels' /\ PollInv'
  BY ChannelsStep, PollStep
<1> QED
  BY <1>1, <1>2, <1>3 DEF IInv

LEMMA Invariance == Spec => []IInv
BY InitInv, NextInv, PTL DEF Spec

(* The variables have their types: no channel holds more than its buffer,  *)
(* no channel that is closed is subscribed.                                *)
THEOREM TypeCorrect == Spec => []TypeOK
<1>1. IInv => TypeOK
  <2> SUFFICES ASSUME IInv
               PROVE  TypeOK
    OBVIOUS
  <2>1. /\ revision \in 0..MaxEvents /\ spent + revision \in 0..MaxEvents
        /\ history \in Seq(Event) /\ Len(history) <= MaxHist
    BY SizesAssumption DEF IInv, BrokerInv
  <2>2. subs \subseteq Streams /\ closed \subseteq Leavers /\ subs \cap closed = {}
    BY DEF IInv, Members
  <2>3. \A c \in Streams : chan[c] \in Seq(Event) /\ Len(chan[c]) <= Buffer /\ sent[c] \in Seq(Event)
    BY DEF IInv, StreamInv, Ordered
  <2>4. pub.pc \in {"idle", "append", "send", "dead"} /\ pub.to \subseteq Streams
    BY DEF IInv, PubInv
  <2>5. /\ stream \in [Streams -> {"new", "gap", "open", "done"}]
        /\ missed \in [Streams -> SUBSET (1..MaxEvents)]
        /\ excused \in [Pollers -> SUBSET (1..MaxEvents)]
        /\ poll \in [Pollers -> [pc : {"idle", "rev"}, since : 0..MaxEvents, got : SUBSET (1..MaxEvents)]]
    BY DEF IInv, Members, Channels, PollInv, PollState
  <2> QED
    BY <2>1, <2>2, <2>3, <2>4, <2>5 DEF TypeOK
<1> QED
  BY <1>1, Invariance, PTL

(* The history is the last events without a hole.                          *)
THEOREM HistoryCorrect == Spec => []HistoryContiguous
<1>1. IInv => HistoryContiguous
  BY DEF IInv, BrokerInv
<1> QED
  BY <1>1, Invariance, PTL

(* A stream gets events in order and none twice, whatever is published     *)
(* between its replay and its subscription.                                *)
THEOREM OrderCorrect == Spec => []StreamOrdered
<1>1. IInv => StreamOrdered
  <2> SUFFICES ASSUME IInv, NEW c \in Streams
               PROVE  Increasing(sent[c] \o chan[c])
    BY DEF StreamOrdered, Increasing
  <2>1. Ordered(sent[c], chan[c], Top(c))
    BY DEF IInv, StreamInv
  <2> QED
    BY <2>1, OrderedConcat
<1> QED
  BY <1>1, Invariance, PTL

(* Of the history, a stream misses only what its cursor or its prefix      *)
(* excludes, what came between its replay and its subscription, and what a *)
(* full buffer or a panic of the publisher kept from it.                   *)
THEOREM StreamCorrect == Spec => []StreamMissesOnly
<1>1. IInv => StreamMissesOnly
  <2> SUFFICES ASSUME IInv, NEW c \in Streams, stream[c] \in {"gap", "open"}, NEW i \in DOMAIN history,
                      history[i].path \in Begins
               PROVE  \/ history[i].rev \in Revs(sent[c] \o chan[c]) \cup missed[c]
                      \/ pub.ev = history[i] /\ c \in pub.to
    BY DEF StreamMissesOnly
  <2>1. Accounted(c, history[i]) /\ Ordered(sent[c], chan[c], Top(c))
    BY DEF IInv, StreamInv
  <2>2. Revs(sent[c] \o chan[c]) = Revs(sent[c]) \cup Revs(chan[c])
    BY <2>1, OrderedConcat
  <2> QED
    BY <2>1, <2>2 DEF Accounted, Pending
<1> QED
  BY <1>1, Invariance, PTL

(* A poller that goes on from the revision it was given misses only what   *)
(* was trimmed, what was published during a request of its own and, after  *)
(* a restart, what its old cursor hides.                                   *)
THEOREM PollCorrect == Spec => []PollMissesOnly
<1>1. IInv => PollMissesOnly
  BY DEF IInv, PollInv, PollMissesOnly, Requesting
<1> QED
  BY <1>1, Invariance, PTL
=============================================================================
