----------------------- MODULE EventIngestion_proofs -----------------------
(***************************************************************************)
(* Proofs about EventIngestion, for every set of keys and facts and any    *)
(* number of events and faults: with one emitter at a time, and no failing *)
(* write that nobody awaits, the log is the one EventLog promises.         *)
(***************************************************************************)
EXTENDS EventIngestion, TLAPS, SequenceTheorems

\* What the runs ingestion_two_emitters and ingestion_timer_loss show to be needed.
OneEmitter == \A e, f \in Emitters : e = f
Careful == OneEmitter /\ ~TimerWritesMayFail

Items == [seq : 1..MaxEvents, by : Emitters \cup {"consumer"}, live : BOOLEAN]
Batches == [key : Keys, seqs : SUBSET (1..MaxEvents), armed : BOOLEAN]
Writes == [key : Kinds, seqs : SUBSET (1..MaxEvents), flush : BOOLEAN,
           by : {"timer", "handler", "consumer"}, waiters : SUBSET {"handler", "consumer"}]

-----------------------------------------------------------------------------
(* Operators.                                                              *)

\* MaxOf finds a greatest element.
LEMMA MaxOfGreatest ==
  ASSUME NEW S, NEW m \in S, m \in Nat, \A x \in S : x \in Nat /\ x <= m
  PROVE  MaxOf(S) = m
<1>1. m \in S \cup {0} /\ \A x \in S : x <= m
  OBVIOUS
<1>2. \A n \in S \cup {0} : (\A x \in S : x <= n) => n = m
  OBVIOUS
<1> QED BY <1>1, <1>2, Zenon DEF MaxOf

\* An initial part of the numbers reaches to its length.
LEMMA MaxOfInitial == ASSUME NEW n \in Nat PROVE MaxOf(1..n) = n
<1>1. CASE n = 0
  <2>1. 1..n = {}
    BY <1>1
  <2>2. MaxOf({}) = 0
    BY DEF MaxOf
  <2> QED BY <1>1, <2>1, <2>2
<1>2. CASE n # 0
  <2>1. n \in 1..n /\ \A x \in 1..n : x \in Nat /\ x <= n
    BY <1>2
  <2> QED BY <2>1, MaxOfGreatest
<1> QED BY <1>1, <1>2

\* What a log or a queue of batches holds when one is appended.
LEMMA SeqsAppend ==
  ASSUME NEW B, NEW s \in Seq(B), NEW b \in B
  PROVE  Seqs(Append(s, b)) = Seqs(s) \cup b.seqs
<1>1. DOMAIN Append(s, b) = DOMAIN s \cup {Len(s) + 1}
  OBVIOUS
<1>2. Append(s, b)[Len(s) + 1] = b /\ \A i \in DOMAIN s : Append(s, b)[i] = s[i]
  OBVIOUS
<1> QED BY <1>1, <1>2 DEF Seqs

LEMMA SeqsEmpty == Seqs(<<>>) = {}
BY DEF Seqs

\* A sequence of one element without it is empty.
LEMMA OneLess ==
  ASSUME NEW B, NEW s \in Seq(B), Len(s) = 1
  PROVE  /\ Tail(s) = <<>> /\ RemoveAt(s, 1) = <<>> /\ Head(s) = s[1] /\ s = <<s[1]>>
         /\ \A i \in DOMAIN s : i = 1
         /\ Seqs(s) = s[1].seqs
<1>0. s # <<>>
  OBVIOUS
<1>1. Tail(s) \in Seq(B) /\ Len(Tail(s)) = 0
  BY <1>0, HeadTailProperties
<1>2. Tail(s) = <<>>
  BY <1>1, EmptySeq
<1>3. SubSeq(s, 1, 0) = <<>> /\ SubSeq(s, 2, 1) = <<>>
  OBVIOUS
<1>4. RemoveAt(s, 1) = <<>>
  BY <1>3 DEF RemoveAt
<1>5. DOMAIN s = {1}
  OBVIOUS
<1> QED BY <1>2, <1>4, <1>5 DEF Seqs

\* Sequences that get one element more, and those of one element.
LEMMA OneMore ==
  ASSUME NEW B, NEW s \in Seq(B), NEW b \in B
  PROVE  /\ Append(s, b) \in Seq(B) /\ Len(Append(s, b)) = Len(s) + 1
         /\ DOMAIN Append(s, b) = 1..(Len(s) + 1) /\ DOMAIN s = 1..Len(s) /\ Len(s) \in Nat
         /\ \A i \in 1..Len(s) : Append(s, b)[i] = s[i]
         /\ Append(s, b)[Len(s) + 1] = b
BY AppendProperties, LenProperties

LEMMA Single ==
  ASSUME NEW B, NEW b \in B
  PROVE  /\ <<b>> \in Seq(B) /\ Len(<<b>>) = 1 /\ Head(<<b>>) = b /\ <<b>> # <<>>
         /\ Append(<<>>, b) = <<b>> /\ <<b>>[1] = b
OBVIOUS

\* Facts on numbers, for lengths.
LEMMA Later ==
  ASSUME NEW m \in Nat
  PROVE  /\ m + 1 \in Nat \ {0} /\ m = (m + 1) - 1 /\ m + 1 \in 1..(m + 1)
         /\ \A n \in Nat : m < n => m + 1 <= n
         /\ \A n \in Nat : n <= m => n <= m + 1 /\ n # m + 1 /\ (n + 1 <= m \/ n = m)
         /\ 1..(m + 1) = 1..m \cup {m + 1} /\ (m = 0 \/ m \in 1..m)
OBVIOUS

LEMMA AtMostOne == ASSUME NEW n \in Nat, n # 0, n <= 1 PROVE n = 1
OBVIOUS

LEMMA Widen ==
  ASSUME NEW m \in Nat, NEW n \in Nat, m <= n
  PROVE  1..m \subseteq 1..n
OBVIOUS

LEMMA Transitive ==
  ASSUME NEW a \in Nat, NEW b \in Nat, NEW c \in Nat, a <= b, b <= c
  PROVE  a <= c /\ 1..a \subseteq 1..c
OBVIOUS

LEMMA Upto ==
  ASSUME NEW a \in Nat, NEW b \in Nat, a < b
  PROVE  /\ b \in (a + 1)..b /\ \A x \in (a + 1)..b : x \in Nat /\ x <= b /\ a < x
         /\ 1..a \cup (a + 1)..b = 1..b
OBVIOUS

LEMMA Extend ==
  ASSUME NEW a \in Nat, NEW b \in Nat, a <= b
  PROVE  /\ (a + 1)..b \cup {b + 1} = (a + 1)..(b + 1) /\ a < b + 1 /\ b <= b + 1
         /\ 1..b \cup {b + 1} = 1..(b + 1) /\ b + 1 \in Nat
         /\ \A c \in Nat : c <= b => c <= b + 1
OBVIOUS

LEMMA Singleton == ASSUME NEW a \in Nat PROVE {a + 1} = (a + 1)..(a + 1) /\ a < a + 1
OBVIOUS

LEMMA Indices ==
  ASSUME NEW n \in Nat
  PROVE  /\ 0 \in Nat /\ n + 1 \in Nat /\ n + 2 \in Nat /\ (n + 1) + 1 = n + 2 /\ (n + 1) - 1 = n
         /\ 0 # n + 1 /\ n # n + 1 /\ 0 # n + 2 /\ n # n + 2 /\ n + 1 # n + 2
         /\ \A i \in 0..n : i \in Nat /\ i # n + 1 /\ i # n + 2 /\ i \in 0..(n + 1)
         /\ \A i \in 0..(n + 1) : i \in Nat /\ i # n + 2 /\ (i = n + 1 \/ i \in 0..n)
         /\ \A i \in 0..(n + 2) : i = n + 2 \/ i \in 0..(n + 1)
         /\ \A i \in 1..n : i \in 0..n /\ i - 1 \in 0..n
         /\ \A i \in 1..(n + 1) : i = n + 1 \/ i \in 1..n
         /\ \A j \in 0..n : \A i \in Nat : i <= j => i \in 0..n
OBVIOUS

LEMMA Update ==
  ASSUME NEW h \in [Nat -> Nat], NEW n \in Nat, NEW s \in Nat
  PROVE  LET g == [h EXCEPT ![n] = s]
         IN g \in [Nat -> Nat] /\ g[n] = s /\ \A i \in Nat : i # n => g[i] = h[i]
OBVIOUS

-----------------------------------------------------------------------------
(* The inductive invariant.                                                *)

\* One party at a time works on the turn: the handler of the only queued event,
\* which is its consumer's next one, or the consumer itself.
Control ==
  /\ Len(queue) <= 1
  /\ queue # <<>> =>
       /\ Item.live /\ consumer \in {"replaying", "listening"}
       /\ Item.by = "consumer" <=> consumer = "replaying"
       /\ Item.seq = IF consumer = "replaying" THEN pos + 1 ELSE Len(stream)
       /\ Item.seq <= Len(stream)
  /\ pc # "idle" => queue # <<>>
  /\ pc \in {"append", "flush"} => Kind \in Facts

\* Who waits for a write is at a step that waits; a write that is waited for is
\* the last one, and nothing is pending behind it.
Waits ==
  /\ Len(pending) <= 1
  /\ pc \in {"append", "appended"} => pending = <<>>
  /\ \A i \in DOMAIN writes :
       /\ "handler" \in writes[i].waiters => pc \in {"boundary", "flush", "appended"}
       /\ "consumer" \in writes[i].waiters => consumer = "starting"
       /\ writes[i].by # "timer" =>
            i = Len(writes) /\ pending = <<>> /\ writes[i].by \in writes[i].waiters
       /\ writes[i].flush => writes[i].key \in Keys
       /\ ~writes[i].flush => writes[i].by = "handler" /\ pc = "appended"

\* Only events of one kind, and only texts, are merged; the terminal event is the
\* last.
Pure ==
  /\ \A i \in DOMAIN log : \A s \in log[i].seqs : stream[s] = log[i].key
  /\ \A i \in DOMAIN log : log[i].seqs # {}
  /\ \A i \in DOMAIN writes : \A s \in writes[i].seqs : stream[s] = writes[i].key
  /\ \A i \in DOMAIN writes : writes[i].key \in Keys \/ \E s : writes[i].seqs = {s}
  /\ \A i \in DOMAIN pending : \A s \in pending[i].seqs : stream[s] = pending[i].key
  /\ \A i \in DOMAIN stream : stream[i] = "end" => i = Len(stream)

\* Log, writes and pending batch are adjacent parts of the stream: the log
\* reaches to h[0], write i from there to h[i], the pending batch to Top(h).
Chain(h, l, w, p) ==
  LET n == Len(w) IN
  /\ \A i, j \in 0..(n + 1) : i <= j => h[i] <= h[j]
  /\ Seqs(l) = 1..h[0]
  /\ \A i \in 1..n : h[i - 1] < h[i] /\ w[i].seqs = (h[i - 1] + 1)..h[i]
  /\ p = <<>> => h[n + 1] = h[n]
  /\ p # <<>> => h[n] < h[n + 1] /\ p[1].seqs = (h[n] + 1)..h[n + 1]
  /\ Seqs(l) \cup Seqs(w) \cup Seqs(p) = 1..h[n + 1]

\* How far they reach together.
End(h, w) == h[Len(w) + 1]
Top(h) == End(h, writes)

\* The next event of the consumer is the next one to accept.
Position(h) ==
  /\ Top(h) <= Len(stream) /\ pos <= Len(stream) /\ Len(stream) <= MaxEvents
  /\ queue = <<>> /\ consumer = "replaying" => Top(h) = pos
  /\ queue = <<>> /\ consumer = "listening" => Top(h) = Len(stream)
  /\ queue # <<>> => Top(h) = IF pc = "appended" THEN Item.seq ELSE Item.seq - 1

\* What the handler read of the turn was so, and is at most outdated.
Seen(h) == seen.cursor <= h[0] /\ (seen.ended => Ended)

Placed(h) == Chain(h, log, writes, pending) /\ Position(h) /\ Seen(h)
IngestionInv ==
  TypeOK /\ Control /\ Waits /\ Pure /\ \E h \in [Nat -> Nat] : Placed(h)

-----------------------------------------------------------------------------
(* What the steps do to log, writes and pending batch, as parts of the     *)
(* stream.                                                                 *)

\* The parts of a chain that lie between two places.
LEMMA ChainParts ==
  ASSUME NEW h \in [Nat -> Nat], NEW l, NEW w, NEW p, NEW n \in Nat, Len(w) = n,
         Chain(h, l, w, p)
  PROVE  /\ \A i \in 0..(n + 1) : h[i] \in Nat /\ h[i] <= h[n + 1] /\ h[0] <= h[i]
         /\ h[n] \in Nat /\ h[n + 1] \in Nat /\ h[0] <= h[n] /\ h[n] <= h[n + 1]
<1>1. 0 \in 0..(n + 1) /\ n \in 0..(n + 1) /\ n + 1 \in 0..(n + 1)
  OBVIOUS
<1>2. \A i \in 0..(n + 1) : i \in Nat /\ 0 <= i /\ i <= n + 1
  OBVIOUS
<1>3. \A i, j \in 0..(n + 1) : i <= j => h[i] <= h[j]
  BY DEF Chain
<1>4. n <= n + 1 /\ 0 <= n
  OBVIOUS
<1> QED BY <1>1, <1>2, <1>3, <1>4

\* An event joins the pending batch or opens one.
LEMMA ChainCoalesce ==
  ASSUME NEW h \in [Nat -> Nat], NEW l, NEW w \in Seq(Writes), NEW p, NEW q,
         Chain(h, l, w, p), q # <<>>, p = <<>> => q[1].seqs = {End(h, w) + 1},
         p # <<>> => q[1].seqs = p[1].seqs \cup {End(h, w) + 1},
         Seqs(q) = Seqs(p) \cup {End(h, w) + 1}
  PROVE  \E g \in [Nat -> Nat] :
           g[0] = h[0] /\ End(g, w) = End(h, w) + 1 /\ Chain(g, l, w, q)
<1> DEFINE s == End(h, w) + 1
<1> PICK n \in Nat : Len(w) = n
  BY LenProperties
<1> s = h[n + 1] + 1
  BY DEF End
<1> HIDE DEF s
<1> DEFINE g == [h EXCEPT ![n + 1] = s]
<1>1. /\ h[n] \in Nat /\ h[n + 1] \in Nat /\ h[n] <= h[n + 1] /\ s \in Nat
      /\ \A i \in 0..(n + 1) : h[i] \in Nat /\ h[i] <= h[n + 1] /\ h[i] <= s
  <2>1. /\ h[n] \in Nat /\ h[n + 1] \in Nat /\ h[n] <= h[n + 1]
        /\ \A i \in 0..(n + 1) : h[i] \in Nat /\ h[i] <= h[n + 1]
    BY ChainParts
  <2>2. s \in Nat /\ \A c \in Nat : c <= h[n + 1] => c <= s
    BY <2>1, Extend
  <2> QED BY <2>1, <2>2
<1>2. g \in [Nat -> Nat] /\ g[n + 1] = s /\ g[n] = h[n] /\ g[0] = h[0]
      /\ \A i \in 0..n : g[i] = h[i]
  <2>1. n + 1 \in Nat /\ \A i \in Nat : i # n + 1 => g[i] = h[i]
    BY <1>1, Indices, Update
  <2>2. g \in [Nat -> Nat] /\ g[n + 1] = s
    BY <1>1, Indices, Update
  <2> HIDE DEF g
  <2>3. \A i \in 0..n : g[i] = h[i]
    BY <2>1, Indices
  <2>4. n \in Nat /\ n # n + 1 /\ 0 \in Nat /\ 0 # n + 1
    BY Indices
  <2>5. g[n] = h[n] /\ g[0] = h[0]
    BY <2>1, <2>4
  <2> QED BY <2>2, <2>3, <2>5
<1> HIDE DEF g
<1>3. \A i, j \in 0..(n + 1) : i <= j => g[i] <= g[j]
  <2> TAKE i, j \in 0..(n + 1)
  <2>1. CASE j = n + 1
    <3>1. g[i] = s \/ g[i] = h[i]
      BY <1>2, Indices
    <3>2. g[j] = s /\ s <= s /\ h[i] <= s
      <4>1. s \in Nat
        BY <1>1
      <4>2. s <= s
        BY ONLY <4>1
      <4> QED BY <1>1, <1>2, <2>1, <4>2
    <3> QED BY <3>1, <3>2
  <2>2. CASE j # n + 1
    <3>1. j \in 0..n /\ (i <= j => i \in 0..n)
      BY <2>2, Indices
    <3> QED BY <1>2, <3>1 DEF Chain
  <2> QED BY <2>1, <2>2
<1>4. Seqs(l) = 1..g[0]
  BY <1>2 DEF Chain
<1>5. \A i \in 1..n : g[i - 1] < g[i] /\ w[i].seqs = (g[i - 1] + 1)..g[i]
  <2>1. \A i \in 1..n : i \in 0..n /\ i - 1 \in 0..n
    OBVIOUS
  <2> QED BY <1>2, <2>1 DEF Chain
<1>6. g[n] < g[n + 1] /\ q[1].seqs = (g[n] + 1)..g[n + 1]
  <2>1. CASE p = <<>>
    <3>1. h[n + 1] = h[n] /\ q[1].seqs = {h[n] + 1} /\ s = h[n] + 1
      BY <2>1 DEF Chain, End
    <3>2. {h[n] + 1} = (h[n] + 1)..(h[n] + 1) /\ h[n] < h[n] + 1
      BY <1>1, Singleton
    <3> QED BY <1>2, <3>1, <3>2
  <2>2. CASE p # <<>>
    <3>1. q[1].seqs = (h[n] + 1)..h[n + 1] \cup {s}
      BY <2>2 DEF Chain, s
    <3>2. (h[n] + 1)..h[n + 1] \cup {s} = (h[n] + 1)..s /\ h[n] < s
      BY <1>1, Extend
    <3> QED BY <1>2, <3>1, <3>2
  <2> QED BY <2>1, <2>2
<1>7. Seqs(l) \cup Seqs(w) \cup Seqs(q) = 1..g[n + 1]
  <2>1. 1..h[n + 1] \cup {s} = 1..s
    BY <1>1, Extend
  <2>2. Seqs(l) \cup Seqs(w) \cup Seqs(p) = 1..h[n + 1]
    BY DEF Chain
  <2> QED BY <1>2, <2>1, <2>2 DEF s
<1>8. Chain(g, l, w, q)
  BY <1>3, <1>4, <1>5, <1>6, <1>7 DEF Chain
<1>9. End(g, w) = End(h, w) + 1
  BY <1>2 DEF End, s
<1> QED BY <1>2, <1>8, <1>9

\* The pending batch becomes the last write.
LEMMA ChainFlush ==
  ASSUME NEW h \in [Nat -> Nat], NEW l, NEW w \in Seq(Writes), NEW p,
         Chain(h, l, w, p), p # <<>>, Seqs(p) = p[1].seqs,
         NEW x \in Writes, x.seqs = p[1].seqs
  PROVE  \E g \in [Nat -> Nat] :
           /\ g[0] = h[0] /\ End(g, Append(w, x)) = End(h, w)
           /\ Chain(g, l, Append(w, x), <<>>)
<1> PICK n \in Nat : Len(w) = n
  BY LenProperties
<1> DEFINE g == [h EXCEPT ![n + 2] = h[n + 1]]
           v == Append(w, x)
<1>1. /\ h[n] \in Nat /\ h[n + 1] \in Nat /\ h[n] <= h[n + 1]
      /\ \A i \in 0..(n + 1) : h[i] \in Nat /\ h[i] <= h[n + 1]
  BY ChainParts
<1>2. g \in [Nat -> Nat] /\ g[n + 2] = h[n + 1] /\ g[n + 1] = h[n + 1] /\ g[n] = h[n]
      /\ g[0] = h[0] /\ \A i \in 0..(n + 1) : g[i] = h[i]
  <2>1. n + 2 \in Nat /\ \A i \in Nat : i # n + 2 => g[i] = h[i]
    BY <1>1, Indices, Update
  <2>2. g \in [Nat -> Nat] /\ g[n + 2] = h[n + 1]
    BY <1>1, Indices, Update
  <2> HIDE DEF g
  <2> QED BY <2>1, <2>2, Indices, ZenonT(60)
<1>3. Len(v) = n + 1 /\ v[n + 1] = x /\ (\A i \in 1..n : v[i] = w[i])
      /\ Seqs(v) = Seqs(w) \cup p[1].seqs
  <2> HIDE DEF g
  <2>1. Seqs(v) = Seqs(w) \cup x.seqs
    BY SeqsAppend
  <2>2. Len(v) = Len(w) + 1
    BY OneMore
  <2>3. v[Len(w) + 1] = x
    BY AppendProperties, SMTT(30)
  <2>4. \A i \in 1..Len(w) : v[i] = w[i]
    BY OneMore
  <2> QED BY <2>1, <2>2, <2>3, <2>4
<1> HIDE DEF g, v
<1>4. \A i, j \in 0..(n + 2) : i <= j => g[i] <= g[j]
  <2> TAKE i, j \in 0..(n + 2)
  <2>1. CASE j = n + 2
    <3>1. g[i] = h[n + 1] \/ (g[i] = h[i] /\ h[i] <= h[n + 1])
      BY <1>1, <1>2, Indices
    <3>2. g[j] = h[n + 1] /\ h[n + 1] <= h[n + 1]
      BY <1>1, <1>2, <2>1
    <3> QED BY <3>1, <3>2
  <2>2. CASE j # n + 2
    <3>1. j \in 0..(n + 1) /\ (i <= j => i \in 0..(n + 1))
      BY <2>2, Indices
    <3> QED BY <1>2, <3>1 DEF Chain
  <2> QED BY <2>1, <2>2
<1>5. Seqs(l) = 1..g[0]
  BY <1>2 DEF Chain
<1>6. \A i \in 1..(n + 1) : g[i - 1] < g[i] /\ v[i].seqs = (g[i - 1] + 1)..g[i]
  <2> TAKE i \in 1..(n + 1)
  <2>1. CASE i = n + 1
    <3>1. h[n] < h[n + 1] /\ p[1].seqs = (h[n] + 1)..h[n + 1]
      BY DEF Chain
    <3>2. g[i - 1] = h[n] /\ g[i] = h[n + 1] /\ v[i] = x
      BY <1>2, <1>3, <2>1, Indices
    <3> QED BY <3>1, <3>2
  <2>2. CASE i # n + 1
    <3>1. i \in 1..n /\ i \in 0..(n + 1) /\ i - 1 \in 0..(n + 1)
      BY <2>2
    <3> QED BY <1>2, <1>3, <3>1 DEF Chain
  <2> QED BY <2>1, <2>2
<1>7. Seqs(l) \cup Seqs(v) \cup Seqs(<<>>) = 1..g[n + 2]
  BY <1>2, <1>3, SeqsEmpty, ZenonT(60) DEF Chain
<1>8. (n + 1) + 1 = n + 2
  OBVIOUS
<1>9. Chain(g, l, v, <<>>)
  BY <1>2, <1>3, <1>4, <1>5, <1>6, <1>7, <1>8 DEF Chain
<1>10. End(g, v) = End(h, w)
  BY <1>2, <1>3, <1>8 DEF End
<1> QED BY <1>2, <1>9, <1>10 DEF v

\* The write of one event, with nothing pending.
LEMMA ChainAppend ==
  ASSUME NEW h \in [Nat -> Nat], NEW l, NEW w \in Seq(Writes), Chain(h, l, w, <<>>),
         NEW x \in Writes, x.seqs = {End(h, w) + 1}
  PROVE  \E g \in [Nat -> Nat] :
           /\ g[0] = h[0] /\ End(g, Append(w, x)) = End(h, w) + 1
           /\ Chain(g, l, Append(w, x), <<>>)
<1> DEFINE q == <<x>>
           s == End(h, w) + 1
<1>1. q # <<>> /\ q[1] = x /\ Seqs(q) = {s} /\ q[1].seqs = {s}
  <2>1. DOMAIN q = {1} /\ q[1] = x /\ q # <<>>
    OBVIOUS
  <2> HIDE DEF q
  <2> QED BY <2>1 DEF Seqs
<1> HIDE DEF q
<1>2. /\ q # <<>> /\ Seqs(q) = Seqs(<<>>) \cup {End(h, w) + 1} /\ q[1].seqs = {End(h, w) + 1}
  BY <1>1, SeqsEmpty
<1> HIDE DEF s
<1>3. PICK f \in [Nat -> Nat] : f[0] = h[0] /\ End(f, w) = End(h, w) + 1 /\ Chain(f, l, w, q)
  BY <1>2, ChainCoalesce
<1>4. PICK g \in [Nat -> Nat] :
        /\ g[0] = f[0] /\ End(g, Append(w, x)) = End(f, w)
        /\ Chain(g, l, Append(w, x), <<>>)
  <2>1. Seqs(q) = q[1].seqs /\ x.seqs = q[1].seqs /\ q # <<>>
    BY <1>1
  <2> QED BY <1>3, <2>1, ChainFlush
<1> QED BY <1>3, <1>4

\* The first write gets into the log.
\* The first write gets into the log.
LEMMA ChainRecord ==
  ASSUME NEW h \in [Nat -> Nat], NEW l \in Seq(Batch), NEW w \in Seq(Writes), NEW p,
         w # <<>>, Chain(h, l, w, p), NEW b \in Batch, b.seqs = w[1].seqs
  PROVE  \E g \in [Nat -> Nat] :
           /\ h[0] < g[0] /\ g[0] = h[1] /\ End(g, Tail(w)) = End(h, w)
           /\ Chain(g, Append(l, b), Tail(w), p)
<1> PICK n \in Nat : Len(w) = n
  BY LenProperties
<1> n # 0
  BY EmptySeq
<1> DEFINE g == [i \in Nat |-> h[i + 1]]
           m == n - 1
<1>1. g \in [Nat -> Nat] /\ m \in Nat /\ m + 1 = n /\ \A i \in 0..n : g[i] = h[i + 1]
  OBVIOUS
<1>2. Len(Tail(w)) = m /\ (\A i \in 1..m : Tail(w)[i] = w[i + 1]) /\ Tail(w) \in Seq(Writes)
  BY HeadTailProperties
<1>3. h[0] \in Nat /\ h[1] \in Nat /\ h[0] < h[1] /\ w[1].seqs = (h[0] + 1)..h[1]
  <2>1. 1 \in 1..n /\ 1 - 1 = 0
    OBVIOUS
  <2> QED BY <2>1 DEF Chain
<1>4. g[0] = h[1] /\ g[n] = h[n + 1] /\ g[m] = h[n] /\ g[m + 1] = h[n + 1]
  BY <1>1
<1> HIDE DEF g, m
<1>5. \A i, j \in 0..(m + 1) : i <= j => g[i] <= g[j]
  <2> TAKE i, j \in 0..(m + 1)
  <2>1. i \in 0..n /\ j \in 0..n
    BY <1>1
  <2>2. i + 1 \in 0..(n + 1) /\ j + 1 \in 0..(n + 1) /\ (i <= j => i + 1 <= j + 1)
    BY <2>1
  <2> QED BY <1>1, <2>1, <2>2 DEF Chain
<1>6. Seqs(Append(l, b)) = 1..g[0]
  <2>1. Seqs(Append(l, b)) = Seqs(l) \cup b.seqs
    BY SeqsAppend
  <2>2. Seqs(l) = 1..h[0]
    BY DEF Chain
  <2>3. 1..h[0] \cup (h[0] + 1)..h[1] = 1..h[1]
    BY <1>3, Upto
  <2> QED BY <1>3, <1>4, <2>1, <2>2, <2>3
<1>7. \A i \in 1..m : g[i - 1] < g[i] /\ Tail(w)[i].seqs = (g[i - 1] + 1)..g[i]
  <2> TAKE i \in 1..m
  <2>1. i + 1 \in 1..n /\ (i + 1) - 1 = i /\ i - 1 \in 0..n /\ i \in 0..n /\ (i - 1) + 1 = i
    BY <1>1
  <2>2. h[i] < h[i + 1] /\ w[i + 1].seqs = (h[i] + 1)..h[i + 1]
    BY <2>1 DEF Chain
  <2>3. g[i - 1] = h[i] /\ g[i] = h[i + 1]
    BY <1>1, <2>1
  <2> QED BY <1>2, <2>2, <2>3
<1>8. (p = <<>> => g[m + 1] = g[m])
      /\ (p # <<>> => g[m] < g[m + 1] /\ p[1].seqs = (g[m] + 1)..g[m + 1])
  BY <1>4 DEF Chain
<1>9. Seqs(Append(l, b)) \cup Seqs(Tail(w)) \cup Seqs(p) = 1..g[m + 1]
  <2>1. Seqs(w) = w[1].seqs \cup Seqs(Tail(w))
    <3>1. DOMAIN w = 1..n /\ DOMAIN Tail(w) = 1..m
      BY <1>2, LenProperties
    <3>2. \A i \in 1..n : i = 1 \/ (i - 1 \in 1..m /\ w[i] = Tail(w)[i - 1])
      <4> TAKE i \in 1..n
      <4>1. i = 1 \/ (i - 1 \in 1..m /\ (i - 1) + 1 = i)
        BY <1>1
      <4> QED BY <1>2, <4>1
    <3>3. \A i \in 1..m : i + 1 \in 1..n /\ Tail(w)[i] = w[i + 1]
      <4> TAKE i \in 1..m
      <4>1. i + 1 \in 1..n
        BY <1>1
      <4> QED BY <1>2, <4>1
    <3>4. 1 \in 1..n
      OBVIOUS
    <3>5. ASSUME NEW z PROVE z \in Seqs(w) <=> z \in w[1].seqs \cup Seqs(Tail(w))
      <4>1. z \in Seqs(w) <=> \E i \in 1..n : z \in w[i].seqs
        BY <3>1 DEF Seqs
      <4>2. z \in Seqs(Tail(w)) <=> \E i \in 1..m : z \in Tail(w)[i].seqs
        BY <3>1 DEF Seqs
      <4> QED BY <3>2, <3>3, <3>4, <4>1, <4>2
    <3> QED BY <3>5
  <2>2. Seqs(Append(l, b)) = Seqs(l) \cup w[1].seqs
    BY SeqsAppend
  <2>3. Seqs(l) \cup Seqs(w) \cup Seqs(p) = 1..h[n + 1]
    BY DEF Chain
  <2> QED BY <1>4, <2>1, <2>2, <2>3
<1>10. Chain(g, Append(l, b), Tail(w), p)
  BY <1>2, <1>5, <1>6, <1>7, <1>8, <1>9 DEF Chain
<1>11. End(g, Tail(w)) = End(h, w)
  BY <1>1, <1>2, <1>4 DEF End
<1> QED BY <1>1, <1>3, <1>4, <1>10, <1>11

\* The only write fails and its batch is pending again.
LEMMA ChainRetry ==
  ASSUME NEW h \in [Nat -> Nat], NEW l, NEW w \in Seq(Writes), Len(w) = 1,
         Chain(h, l, w, <<>>), NEW x, x.seqs = w[1].seqs
  PROVE  Chain(h, l, <<>>, <<x>>)
<1>1. h[0] < h[1] /\ w[1].seqs = (h[0] + 1)..h[1] /\ h[2] = h[1]
  BY DEF Chain
<1>2. Seqs(w) = w[1].seqs /\ Seqs(<<x>>) = w[1].seqs
  <2>1. Seqs(w) = w[1].seqs
    BY OneLess
  <2>2. DOMAIN <<x>> = {1} /\ <<x>>[1] = x
    OBVIOUS
  <2> QED BY <2>1, <2>2 DEF Seqs
<1>3. \A i, j \in 0..(0 + 1) : i <= j => h[i] <= h[j]
  <2>1. \A i \in 0..(0 + 1) : i \in 0..(1 + 1)
    OBVIOUS
  <2> QED BY <2>1 DEF Chain
<1>4. Seqs(l) = 1..h[0] /\ Seqs(l) \cup Seqs(<<>>) \cup Seqs(<<x>>) = 1..h[1]
  BY <1>1, <1>2, SeqsEmpty DEF Chain
<1>5. Len(<<>>) = 0 /\ 0 + 1 = 1 /\ 1..0 = {} /\ <<x>> # <<>> /\ <<x>>[1] = x
  OBVIOUS
<1> QED BY <1>1, <1>3, <1>4, <1>5 DEF Chain

\* What is not in the log is lost.
LEMMA ChainRestart ==
  ASSUME NEW h \in [Nat -> Nat], NEW l, Seqs(l) = 1..h[0]
  PROVE  \E g \in [Nat -> Nat] : g[0] = h[0] /\ g[1] = h[0] /\ Chain(g, l, <<>>, <<>>)
<1> DEFINE g == [i \in Nat |-> h[0]]
<1>1. g \in [Nat -> Nat] /\ g[0] = h[0] /\ g[1] = h[0] /\ h[0] \in Nat
  OBVIOUS
<1>2. \A i, j \in 0..(0 + 1) : g[i] <= g[j]
  OBVIOUS
<1> HIDE DEF g
<1>3. Chain(g, l, <<>>, <<>>)
  <2>1. Len(<<>>) = 0 /\ 0 + 1 = 1 /\ 1..0 = {}
    OBVIOUS
  <2>2. Seqs(l) \cup Seqs(<<>>) \cup Seqs(<<>>) = 1..g[0]
    BY <1>1, SeqsEmpty
  <2> QED BY <1>1, <1>2, <2>1, <2>2 DEF Chain
<1> QED BY <1>1, <1>3

\* Who waits for a write changes nothing.
LEMMA ChainSame ==
  ASSUME NEW h \in [Nat -> Nat], NEW l, NEW w \in Seq(Writes), NEW v \in Seq(Writes), NEW p,
         Chain(h, l, w, p), Len(v) = Len(w), \A i \in 1..Len(w) : v[i].seqs = w[i].seqs
  PROVE  Chain(h, l, v, p)
<1>1. Seqs(v) = Seqs(w)
  <2>1. DOMAIN v = 1..Len(w) /\ DOMAIN w = 1..Len(w)
    BY LenProperties
  <2> QED BY <2>1 DEF Seqs
<1> QED BY <1>1 DEF Chain

-----------------------------------------------------------------------------
(* The state and its steps.                                                *)

\* The sequences of the state.
LEMMA Sequences ==
  ASSUME TypeOK
  PROVE  /\ stream \in Seq(Kinds) /\ log \in Seq(Batch) /\ queue \in Seq(Items)
         /\ pending \in Seq(Batches) /\ writes \in Seq(Writes)
         /\ pos \in Nat /\ seen.cursor \in Nat /\ MaxEvents \in Nat
BY IngestionAssumption DEF TypeOK, Items, Batches, Writes

\* Their lengths.
LEMMA Lengths ==
  ASSUME TypeOK
  PROVE  /\ Len(stream) \in Nat /\ DOMAIN stream = 1..Len(stream)
         /\ Len(log) \in Nat /\ DOMAIN log = 1..Len(log)
         /\ Len(queue) \in Nat /\ DOMAIN queue = 1..Len(queue) /\ (Len(queue) = 0 <=> queue = <<>>)
         /\ Len(pending) \in Nat /\ DOMAIN pending = 1..Len(pending)
         /\ (Len(pending) = 0 <=> pending = <<>>)
         /\ Len(writes) \in Nat /\ DOMAIN writes = 1..Len(writes)
         /\ (Len(writes) = 0 <=> writes = <<>>)
BY Sequences, LenProperties, EmptySeq

LEMMA InitInv == Init => IngestionInv
<1> SUFFICES ASSUME Init PROVE IngestionInv
  OBVIOUS
<1> USE IngestionAssumption DEF Init
<1>1. TypeOK
  BY DEF TypeOK
<1>2. Control /\ Waits /\ Pure
  BY DEF Control, Waits, Pure
<1>3. Placed([n \in Nat |-> 0])
  <2> DEFINE h == [n \in Nat |-> 0]
  <2>1. h[0] = 0 /\ h[1] = 0 /\ Len(writes) = 0 /\ Len(stream) = 0 /\ DOMAIN writes = {}
    OBVIOUS
  <2>2. \A i, j \in 0..1 : h[i] <= h[j]
    OBVIOUS
  <2>3. Seqs(log) = {} /\ Seqs(writes) = {} /\ Seqs(pending) = {}
    BY SeqsEmpty
  <2>4. 1..0 = {}
    OBVIOUS
  <2> HIDE DEF h
  <2>5. Chain(h, log, writes, pending)
    BY <2>1, <2>2, <2>3, <2>4 DEF Chain, Top, End
  <2>6. Position(h) /\ Seen(h)
    BY <2>1 DEF Position, Top, End, Seen
  <2> QED BY <2>5, <2>6 DEF Placed, h
<1> QED BY <1>1, <1>2, <1>3 DEF IngestionInv

\* A busy queue holds one event, of the stream.
LEMMA OneItem ==
  ASSUME IngestionInv, queue # <<>>
  PROVE  /\ Item \in Items /\ Len(queue) = 1 /\ Tail(queue) = <<>>
         /\ Item.seq \in 1..Len(stream) /\ Kind \in Kinds
         /\ consumer \in {"replaying", "listening"}
<1>1. queue \in Seq(Items) /\ stream \in Seq(Kinds)
  BY Sequences DEF IngestionInv
<1>2. Len(queue) = 1
  <2>1. Len(queue) \in Nat /\ Len(queue) # 0 /\ Len(queue) <= 1
    BY Lengths DEF IngestionInv, Control
  <2>2. PICK n \in Nat : n = Len(queue)
    BY <2>1
  <2> QED BY <2>1, <2>2
<1>3. Item \in Items /\ Tail(queue) = <<>>
  BY <1>1, <1>2, OneLess DEF Item
<1>4. Item.seq \in 1..Len(stream)
  BY <1>1, <1>3 DEF Items, IngestionInv, Control
<1>5. Kind \in Kinds
  BY <1>1, <1>4 DEF Kind
<1>6. consumer \in {"replaying", "listening"}
  BY DEF IngestionInv, Control
<1> QED BY <1>1, <1>2, <1>3, <1>4, <1>5, <1>6

\* With one emitter a listening consumer has handled everything that was emitted.
LEMMA ListenerFree ==
  ASSUME IngestionInv, OneEmitter, NEW e \in Emitters, consumer = "listening",
         \A i \in DOMAIN queue : queue[i].by # e
  PROVE  queue = <<>>
<1> SUFFICES ASSUME queue # <<>> PROVE FALSE
  OBVIOUS
<1>1. Item \in Items /\ 1 \in DOMAIN queue /\ Item = queue[1]
  BY OneItem, Sequences DEF Item, IngestionInv
<1>2. Item.by # "consumer"
  BY DEF IngestionInv, Control
<1> QED BY <1>1, <1>2 DEF Items, OneEmitter

\* Emitting an event.
LEMMA EmitInv ==
  ASSUME IngestionInv, OneEmitter, NEW e \in Emitters, NEW k \in Kinds, Emit(e, k)
  PROVE  IngestionInv'
<1> DEFINE n == Len(stream) + 1
           x == [seq |-> n, by |-> e, live |-> TRUE]
<1>1. PICK h \in [Nat -> Nat] : Placed(h)
  BY DEF IngestionInv
<1>2. /\ stream \in Seq(Kinds) /\ queue \in Seq(Items) /\ log \in Seq(Batch)
      /\ writes \in Seq(Writes) /\ pending \in Seq(Batches) /\ MaxEvents \in Nat
  BY Sequences DEF IngestionInv
<1>3. /\ stream' \in Seq(Kinds) /\ Len(stream') = n /\ n <= MaxEvents /\ n \in Nat \ {0}
      /\ stream'[n] = k /\ \A i \in 1..Len(stream) : stream'[i] = stream[i]
      /\ DOMAIN stream' = 1..n /\ Len(stream) \in Nat /\ DOMAIN stream = 1..Len(stream)
  <2>1. stream' = Append(stream, k) /\ Len(stream) < MaxEvents
    BY DEF Emit
  <2>2. n <= MaxEvents /\ n \in Nat \ {0}
    <3>1. Len(stream) \in Nat /\ MaxEvents \in Nat
      BY <1>2, Lengths DEF IngestionInv
    <3> QED BY <2>1, <3>1, Later
  <2> HIDE DEF n
  <2> QED BY <1>2, <2>1, <2>2, OneMore DEF n
<1>4. UNCHANGED <<remote, consumer, pos, pc, seen, pending, writes, log, faults>>
  BY DEF Emit
<1>5. x \in Items /\ x.seq = n /\ x.by = e /\ x.live
  BY <1>2, <1>3 DEF Items
<1>6. consumer = "listening" => queue = <<>> /\ queue' = <<x>>
  <2>1. consumer = "listening" => queue = <<>>
    BY ListenerFree DEF Emit
  <2>2. consumer = "listening" => queue' = Append(queue, x)
    BY DEF Emit
  <2> HIDE DEF x, n
  <2> QED BY <1>5, <2>1, <2>2, Single
<1>7. consumer # "listening" => queue' = queue
  BY DEF Emit
<1> HIDE DEF x, n
<1>8. queue' \in Seq(Items)
  BY <1>2, <1>5, <1>6, <1>7, Single
<1>9. TypeOK'
  BY <1>3, <1>4, <1>8 DEF IngestionInv, TypeOK, Items
<1>10. consumer = "listening" => Head(queue') = x /\ Len(queue') = 1 /\ queue' # <<>>
  BY <1>5, <1>6, Single
<1>11. Control'
  <2>1. CASE consumer = "listening"
    <3>1. pc = "idle"
      BY <1>6, <2>1 DEF IngestionInv, Control
    <3>2. x.by # "consumer"
      BY <1>5, IngestionAssumption
    <3>3. Item' = x /\ pc' = "idle" /\ consumer' = "listening"
      BY <1>4, <1>10, <2>1, <3>1 DEF Item
    <3>4. Item'.live /\ Item'.seq = n /\ Item'.by # "consumer" /\ n <= n
      <4>1. \A m \in Nat : m <= m
        OBVIOUS
      <4>2. n <= n
        BY <1>3, <4>1
      <4> QED BY <1>5, <3>2, <3>3, <4>2
    <3>5. Len(queue') <= 1
      <4>1. 1 <= 1
        OBVIOUS
      <4> QED BY <1>10, <2>1, <4>1
    <3> QED BY <1>3, <3>3, <3>4, <3>5 DEF Control
  <2>2. CASE consumer # "listening"
    <3>1. CASE queue = <<>>
      <4>1. queue' = <<>> /\ pc' = "idle" /\ Len(queue') <= 1
        BY <1>4, <1>7, <2>2, <3>1 DEF IngestionInv, Control
      <4> QED BY <4>1, Zenon DEF Control
    <3>2. CASE queue # <<>>
      <4>1. Item' = Item /\ Item.seq \in 1..Len(stream) /\ Kind' = Kind
        BY <1>3, <1>7, <2>2, <3>2, OneItem DEF Item, Kind
      <4>2. Item.seq = pos + 1 /\ Item.live /\ consumer = "replaying" /\ Item.by = "consumer"
            /\ Len(queue) <= 1 /\ (pc \in {"append", "flush"} => Kind \in Facts)
        BY <2>2, <3>2, OneItem DEF IngestionInv, Control
      <4>3. Item.seq <= Len(stream')
        <5>1. Len(stream) \in Nat /\ Len(stream') = Len(stream) + 1
          BY <1>3 DEF n
        <5>2. \A l \in Nat : \A i \in 1..l : i <= l + 1
          OBVIOUS
        <5> QED BY <4>1, <5>1, <5>2
      <4> QED BY <1>4, <1>7, <2>2, <3>2, <4>1, <4>2, <4>3 DEF Control
    <3> QED BY <3>1, <3>2
  <2> QED BY <2>1, <2>2
<1>12. Waits'
  BY <1>4 DEF IngestionInv, Waits
<1>13. Seqs(log) \subseteq 1..Len(stream) /\ Seqs(writes) \subseteq 1..Len(stream)
       /\ Seqs(pending) \subseteq 1..Len(stream)
  <2>1. Top(h) \in Nat /\ Top(h) <= Len(stream) /\ Len(stream) \in Nat
    BY <1>1, Lengths DEF IngestionInv, Placed, Position, Top, End
  <2>2. 1..Top(h) \subseteq 1..Len(stream)
    BY <2>1, Widen
  <2>3. Seqs(log) \cup Seqs(writes) \cup Seqs(pending) = 1..Top(h)
    BY <1>1 DEF Placed, Chain, Top, End
  <2> QED BY <2>2, <2>3
<1>14. Pure'
  <2>1. \A i \in DOMAIN stream : stream[i] # "end"
    BY DEF Emit, Emitted
  <2>2. \A i \in DOMAIN stream' : stream'[i] = "end" => i = Len(stream')
    <3>1. \A i \in DOMAIN stream' : i = n \/ i \in DOMAIN stream
      BY <1>3 DEF n
    <3> QED BY <1>3, <2>1, <3>1
  <2>3. /\ \A i \in DOMAIN log : log[i].seqs \subseteq 1..Len(stream)
        /\ \A i \in DOMAIN writes : writes[i].seqs \subseteq 1..Len(stream)
        /\ \A i \in DOMAIN pending : pending[i].seqs \subseteq 1..Len(stream)
    BY <1>13 DEF Seqs
  <2> QED BY <1>3, <1>4, <2>2, <2>3 DEF IngestionInv, Pure
<1>15. Placed(h)'
  <2>1. Chain(h, log, writes, pending)' /\ Top(h)' = Top(h)
    BY <1>1, <1>4 DEF Placed, Top, End
  <2>2. Seen(h)'
    BY <1>1, <1>4 DEF Placed, Seen, Ended
  <2>3. Position(h)'
    <3>1. Top(h) <= n /\ pos <= n
      <4>1. Top(h) \in Nat /\ Top(h) <= Len(stream) /\ pos <= Len(stream) /\ pos \in Nat
        BY <1>1, Lengths, Sequences DEF IngestionInv, Placed, Position, Top, End
      <4> QED BY <1>3, <4>1, Later DEF n
    <3>2. CASE consumer = "listening"
      <4>1. pc' = "idle" /\ Top(h) = Len(stream)
        BY <1>1, <1>4, <1>6, <3>2 DEF IngestionInv, Control, Placed, Position
      <4>2. Item'.seq = n /\ Top(h) = n - 1 /\ queue' # <<>>
        BY <1>3, <1>5, <1>10, <3>2, <4>1 DEF Item, n
      <4> QED BY <1>3, <1>4, <2>1, <3>1, <4>1, <4>2 DEF Position
    <3>3. CASE consumer # "listening"
      BY <1>1, <1>3, <1>4, <1>7, <2>1, <3>1, <3>3 DEF Placed, Position, Item
    <3> QED BY <3>2, <3>3
  <2> QED BY <2>1, <2>2, <2>3 DEF Placed
<1> QED BY <1>9, <1>11, <1>12, <1>14, <1>15 DEF IngestionInv

-----------------------------------------------------------------------------
(* The handler.                                                            *)

\* How far log, writes and pending batch reach.
LEMMA Reach ==
  ASSUME IngestionInv, NEW h \in [Nat -> Nat], Placed(h)
  PROVE  /\ Top(h) \in Nat /\ h[0] \in Nat /\ h[0] <= Top(h)
         /\ Len(stream) \in Nat /\ Top(h) <= Len(stream)
         /\ MaxEvents \in Nat /\ Len(stream) <= MaxEvents
         /\ Seqs(log) = 1..h[0] /\ Cursor = h[0]
         /\ Seqs(log) \cup Seqs(writes) \cup Seqs(pending) = 1..Top(h)
<1>1. Len(writes) \in Nat /\ Len(stream) \in Nat
  BY Lengths DEF IngestionInv
<1>2. Top(h) \in Nat /\ h[0] \in Nat
  BY <1>1 DEF Top, End
<1>3. 0 \in 0..(Len(writes) + 1) /\ Len(writes) + 1 \in 0..(Len(writes) + 1) /\ 0 <= Len(writes) + 1
  BY <1>1
<1>4. h[0] <= Top(h) /\ Seqs(log) = 1..h[0]
      /\ Seqs(log) \cup Seqs(writes) \cup Seqs(pending) = 1..Top(h)
  BY <1>3 DEF Placed, Chain, Top, End
<1>5. Cursor = h[0]
  BY <1>2, <1>4, MaxOfInitial DEF Cursor
<1> QED BY <1>1, <1>2, <1>4, <1>5, Sequences DEF IngestionInv, Placed, Position

\* An event that is being handled is not accepted yet, so the turn has not ended.
LEMMA NotEnded ==
  ASSUME IngestionInv, queue # <<>>, pc # "appended"
  PROVE  ~Ended /\ ~seen.ended
<1>1. PICK h \in [Nat -> Nat] : Placed(h)
  BY DEF IngestionInv
<1>2. Item.seq \in 1..Len(stream) /\ Top(h) = Item.seq - 1
  BY <1>1, OneItem DEF Placed, Position
<1>3. PICK l \in Nat : l = Len(stream) /\ DOMAIN stream = 1..l
  BY Lengths DEF IngestionInv
<1>4. ASSUME Ended PROVE FALSE
  <2>1. PICK i \in DOMAIN log : log[i].key = "end"
    BY <1>4 DEF Ended
  <2>2. log[i].seqs # {} /\ \A s \in log[i].seqs : stream[s] = "end"
    BY <2>1 DEF IngestionInv, Pure
  <2>3. PICK s \in log[i].seqs : stream[s] = "end"
    BY <2>2
  <2>4. s \in 1..Top(h) /\ Top(h) \in Nat
    <3>1. s \in 1..h[0] /\ h[0] \in Nat /\ Top(h) \in Nat /\ h[0] <= Top(h)
      BY <1>1, <2>3, Reach DEF Seqs
    <3> QED BY <3>1, Widen
  <2>5. s \in 1..l /\ s < l
    <3>1. PICK t \in Nat : t = Top(h)
      BY <2>4
    <3>2. PICK q \in 1..l : t = q - 1
      BY <1>2, <1>3, <3>1
    <3>3. s \in 1..t
      BY <2>4, <3>1
    <3> QED BY <3>2, <3>3
  <2>6. s = l
    BY <1>3, <2>3, <2>5 DEF IngestionInv, Pure
  <2> QED BY <2>5, <2>6
<1>5. seen.ended => Ended
  BY <1>1 DEF Placed, Seen
<1> QED BY <1>4, <1>5

\* Nor has the handler seen it, in the log or in a pending batch.
LEMMA NotSeen ==
  ASSUME IngestionInv, queue # <<>>, pc # "appended"
  PROVE  ~(Item.seq <= MaxOf({seen.cursor} \cup Seqs(pending)))
<1> DEFINE S == {seen.cursor} \cup Seqs(pending)
<1>1. PICK h \in [Nat -> Nat] : Placed(h)
  BY DEF IngestionInv
<1>2. Item.seq \in Nat /\ Top(h) = Item.seq - 1 /\ Top(h) \in Nat
  <2>1. Item \in Items /\ Top(h) \in Nat
    BY <1>1, OneItem, Reach
  <2>2. Item.seq \in 1..MaxEvents
    BY <2>1 DEF Items
  <2>3. Top(h) = Item.seq - 1
    BY <1>1 DEF Placed, Position
  <2> QED BY <2>1, <2>2, <2>3
<1>3. seen.cursor \in Nat /\ seen.cursor <= h[0] /\ h[0] <= Top(h) /\ h[0] \in Nat
  BY <1>1, Sequences, Reach DEF IngestionInv, Placed, Seen
<1>4. MaxOf(S) \in Nat /\ MaxOf(S) <= Top(h)
  <2>1. CASE pending = <<>>
    <3>1. S = {seen.cursor}
      BY <2>1, SeqsEmpty
    <3>2. seen.cursor \in S /\ \A x \in S : x \in Nat /\ x <= seen.cursor
      BY <1>3, <3>1
    <3> HIDE DEF S
    <3>3. MaxOf(S) = seen.cursor
      BY <1>3, <3>2, MaxOfGreatest
    <3> QED BY <1>2, <1>3, <3>3
  <2>2. CASE pending # <<>>
    <3>1. Len(pending) = 1 /\ pending \in Seq(Batches)
      <4>1. Len(pending) \in Nat /\ Len(pending) # 0 /\ Len(pending) <= 1
        BY <2>2, Lengths DEF IngestionInv, Waits
      <4> QED BY <4>1, AtMostOne, Sequences DEF IngestionInv
    <3>2. Seqs(pending) = pending[1].seqs
      BY <3>1, OneLess
    <3>3. PICK n \in Nat : n = Len(writes)
      BY Lengths DEF IngestionInv
    <3>4. h[n] < Top(h) /\ pending[1].seqs = (h[n] + 1)..Top(h) /\ h[n] \in Nat
      BY <1>1, <2>2, <3>3 DEF Placed, Chain, Top, End
    <3>5. h[0] <= h[n]
      <4>1. 0 \in 0..(n + 1) /\ n \in 0..(n + 1) /\ 0 <= n
        OBVIOUS
      <4> QED BY <1>1, <3>3, <4>1 DEF Placed, Chain
    <3>6. Top(h) \in S /\ \A x \in S : x \in Nat /\ x <= Top(h)
      <4>1. S = {seen.cursor} \cup (h[n] + 1)..Top(h)
        BY <3>2, <3>4
      <4>2. seen.cursor <= Top(h)
        BY <1>2, <1>3, Transitive
      <4>3. Top(h) \in (h[n] + 1)..Top(h) /\ \A x \in (h[n] + 1)..Top(h) : x \in Nat /\ x <= Top(h)
        BY <1>2, <3>4, Upto
      <4> HIDE DEF S
      <4> QED BY <1>3, <4>1, <4>2, <4>3, Zenon
    <3> HIDE DEF S
    <3>7. MaxOf(S) = Top(h)
      BY <1>2, <3>6, MaxOfGreatest
    <3> QED BY <1>2, <3>7
  <2> QED BY <2>1, <2>2
<1> QED BY <1>2, <1>4

\* A handler that succeeds or fails leaves an empty queue.
LEMMA Finished ==
  ASSUME IngestionInv, queue # <<>>, Succeed \/ Fail
  PROVE  /\ queue' = <<>> /\ pc' = "idle"
         /\ Fail \/ pos' = IF consumer = "replaying" THEN Item.seq ELSE pos
         /\ Fail \/ consumer' = consumer \/ consumer' = "idle"
<1>1. Tail(queue) = <<>>
  BY OneItem
<1>2. \A f : f = [i \in DOMAIN <<>> |-> [<<>>[i] EXCEPT !.live = FALSE]] => f = <<>>
  OBVIOUS
<1>3. queue' = <<>>
  BY <1>1, <1>2 DEF Succeed, Fail
<1>4. Succeed => pos' = IF consumer = "replaying" THEN Item.seq ELSE pos
  BY DEF Succeed, IngestionInv, Control
<1>5. Succeed => consumer' = consumer \/ consumer' = "idle"
  BY DEF Succeed
<1>6. pc' = "idle"
  BY DEF Succeed, Fail
<1> QED BY <1>3, <1>4, <1>5, <1>6

\* A function on the first numbers is a sequence.
LEMMA MapSeq ==
  ASSUME NEW B, NEW n \in Nat, NEW f \in [1..n -> B]
  PROVE  f \in Seq(B) /\ Len(f) = n
<1>1. f \in Seq(B)
  BY SeqDef
<1>2. DOMAIN f = 1..n
  OBVIOUS
<1>3. DOMAIN f = 1..Len(f) /\ Len(f) \in Nat
  BY <1>1, LenProperties
<1>4. \A a, b \in Nat : 1..a = 1..b => a = b
  OBVIOUS
<1> QED BY <1>1, <1>2, <1>3, <1>4

\* The pending batch.
LEMMA OnePending ==
  ASSUME IngestionInv, pending # <<>>
  PROVE  /\ Len(pending) = 1 /\ pending[1] \in Batches /\ pending = <<pending[1]>>
         /\ Tail(pending) = <<>> /\ RemoveAt(pending, 1) = <<>> /\ Head(pending) = pending[1]
         /\ DOMAIN pending = {1} /\ Seqs(pending) = pending[1].seqs
<1>1. Len(pending) \in Nat /\ Len(pending) # 0 /\ Len(pending) <= 1
  BY Lengths DEF IngestionInv, Waits
<1>2. Len(pending) = 1 /\ pending \in Seq(Batches)
  BY <1>1, AtMostOne, Sequences DEF IngestionInv
<1>3. DOMAIN pending = {1} /\ pending[1] \in Batches
  BY <1>2
<1> QED BY <1>2, <1>3, OneLess

\* Reading the turn.
LEMMA ReadTurnInv == ASSUME IngestionInv, ReadTurn PROVE IngestionInv'
<1>1. PICK h \in [Nat -> Nat] : Placed(h)
  BY DEF IngestionInv
<1>2. UNCHANGED <<remote, stream, consumer, pos, queue, pending, writes, log, faults>>
      /\ pc = "idle" /\ pc' = "decide" /\ queue # <<>>
  BY DEF ReadTurn
<1>3. seen' = [cursor |-> h[0], ended |-> Ended] /\ h[0] \in Nat
  BY <1>1, Reach DEF ReadTurn
<1>4. h[0] \in 0..MaxEvents
  <2>1. h[0] <= Top(h) /\ Top(h) <= Len(stream) /\ Len(stream) <= MaxEvents
        /\ Top(h) \in Nat /\ Len(stream) \in Nat /\ MaxEvents \in Nat
    BY <1>1, Reach
  <2>2. h[0] <= MaxEvents
    BY <1>3, <2>1, Transitive
  <2> QED BY <1>3, <2>1, <2>2
<1>5. TypeOK'
  BY <1>2, <1>3, <1>4 DEF IngestionInv, TypeOK, Ended
<1>6. Control'
  BY <1>2 DEF IngestionInv, Control, Item, Kind
<1>7. Waits'
  BY <1>2 DEF IngestionInv, Waits
<1>8. Pure'
  BY <1>2 DEF IngestionInv, Pure
<1>9. Placed(h)'
  <2>1. Chain(h, log, writes, pending)'
    BY <1>1, <1>2 DEF Placed
  <2>2. Position(h)'
    BY <1>1, <1>2 DEF Placed, Position, Top, End, Item
  <2>3. Seen(h)'
    BY <1>2, <1>3 DEF Seen, Ended
  <2> QED BY <2>1, <2>2, <2>3 DEF Placed
<1> QED BY <1>5, <1>6, <1>7, <1>8, <1>9 DEF IngestionInv

\* A turn that could not be read.
LEMMA ReadFailsInv == ASSUME IngestionInv, ReadFails PROVE IngestionInv'
<1>1. PICK h \in [Nat -> Nat] : Placed(h)
  BY DEF IngestionInv
<1>2. UNCHANGED <<remote, stream, seen, pending, writes, log>>
      /\ pc = "idle" /\ queue # <<>> /\ faults' = faults + 1 /\ faults < MaxFaults /\ Fail
  BY DEF ReadFails
<1>3. queue' = <<>> /\ pc' = "idle" /\ pos' = pos /\ consumer' = "idle"
  BY <1>2, Finished DEF ReadFails, Fail, IngestionInv, Control
<1>4. faults' \in 0..MaxFaults /\ pos \in 0..MaxEvents
  BY <1>2, IngestionAssumption DEF IngestionInv, TypeOK
<1>5. TypeOK'
  BY <1>2, <1>3, <1>4 DEF IngestionInv, TypeOK
<1>6. Control'
  BY <1>3 DEF Control
<1>7. Waits'
  BY <1>2, <1>3 DEF IngestionInv, Control, Waits
<1>8. Pure'
  BY <1>2 DEF IngestionInv, Pure
<1>9. Placed(h)'
  <2>1. Chain(h, log, writes, pending)'
    BY <1>1, <1>2 DEF Placed
  <2>2. Position(h)'
    BY <1>1, <1>2, <1>3 DEF Placed, Position, Top, End
  <2>3. Seen(h)'
    BY <1>1, <1>2 DEF Placed, Seen, Ended
  <2> QED BY <2>1, <2>2, <2>3 DEF Placed
<1> QED BY <1>5, <1>6, <1>7, <1>8, <1>9 DEF IngestionInv

\* What coalescing leaves pending.
LEMMA Coalesced ==
  ASSUME IngestionInv, NEW k \in Keys, NEW s \in 1..MaxEvents,
         \A i \in DOMAIN pending : pending[i].key = k, Coalesce(k, s)
  PROVE  \E x \in Batches : /\ pending' = <<x>> /\ x.key = k
                            /\ pending = <<>> => x.seqs = {s}
                            /\ pending # <<>> => x.seqs = pending[1].seqs \cup {s}
<1>1. CASE pending = <<>>
  <2> DEFINE x == [key |-> k, seqs |-> {s}, armed |-> TRUE]
  <2>1. x \in Batches /\ x.key = k /\ x.seqs = {s}
    BY DEF Batches
  <2>2. pending' = Append(<<>>, x)
    BY <1>1 DEF Coalesce, HasPending
  <2> HIDE DEF x
  <2>3. pending' = <<x>>
    BY <2>1, <2>2, Single
  <2> QED BY <1>1, <2>1, <2>3
<1>2. CASE pending # <<>>
  <2> DEFINE x == [pending[1] EXCEPT !.seqs = @ \cup {s}]
             q == [i \in DOMAIN pending |->
                     IF pending[i].key = k THEN [pending[i] EXCEPT !.seqs = @ \cup {s}]
                     ELSE pending[i]]
  <2>1. pending[1] \in Batches /\ DOMAIN pending = {1} /\ pending[1].key = k
    BY <1>2, OnePending
  <2>2. x \in Batches /\ x.key = k /\ x.seqs = pending[1].seqs \cup {s}
    BY <2>1 DEF Batches
  <2>3. pending' = q
    BY <2>1 DEF Coalesce, HasPending
  <2>4. DOMAIN q = 1..1 /\ q[1] = x
    BY <2>1
  <2>5. q \in [1..1 -> Batches]
    BY <2>1, <2>2
  <2> HIDE DEF q, x
  <2>6. q \in Seq(Batches) /\ Len(q) = 1
    BY <2>5, MapSeq
  <2>7. q = <<x>>
    BY <2>4, <2>6, OneLess
  <2> QED BY <1>2, <2>2, <2>3, <2>7
<1> QED BY <1>1, <1>2

\* A text event joins the pending batch, and is handled.
LEMMA CoalesceInv ==
  ASSUME IngestionInv, queue # <<>>, pc \in {"decide", "boundary"}, ~Waiting("handler"),
         \A i \in DOMAIN pending : pending[i].key = Kind,
         Kind \in Keys, Succeed, Coalesce(Kind, Item.seq),
         UNCHANGED <<remote, stream, seen, writes, log, faults>>
  PROVE  IngestionInv'
<1>1. PICK h \in [Nat -> Nat] : Placed(h)
  BY DEF IngestionInv
<1>2. /\ Item \in Items /\ Item.seq \in 1..MaxEvents /\ Item.seq \in Nat
      /\ consumer \in {"replaying", "listening"} /\ Item.live
      /\ Item.seq \in 1..Len(stream)
  <2>1. Item \in Items /\ consumer \in {"replaying", "listening"} /\ Item.seq \in 1..Len(stream)
    BY OneItem
  <2>2. Item.live
    BY DEF IngestionInv, Control
  <2> QED BY <2>1, <2>2 DEF Items
<1>3. Item.seq = Top(h) + 1 /\ Top(h) \in Nat /\ Item.seq <= Len(stream)
  <2>1. Top(h) = Item.seq - 1 /\ Item.seq <= Len(stream)
    BY <1>1 DEF Placed, Position, IngestionInv, Control
  <2>2. Top(h) \in Nat
    BY <1>1, Reach
  <2>3. \A a, b \in Nat : a = b - 1 => b = a + 1
    OBVIOUS
  <2> QED BY <1>2, <2>1, <2>2, <2>3
<1>4. queue' = <<>> /\ pc' = "idle" /\ pos' = (IF consumer = "replaying" THEN Item.seq ELSE pos)
      /\ (consumer' = consumer \/ consumer' = "idle")
  <2>1. Succeed => pos' = IF consumer = "replaying" THEN Item.seq ELSE pos
    BY DEF Succeed, IngestionInv, Control
  <2>2. Succeed => consumer' = consumer \/ consumer' = "idle"
    BY DEF Succeed
  <2> QED BY <2>1, <2>2, Finished
<1>5. PICK x \in Batches : /\ pending' = <<x>> /\ x.key = Kind
                           /\ pending = <<>> => x.seqs = {Item.seq}
                           /\ pending # <<>> => x.seqs = pending[1].seqs \cup {Item.seq}
  BY <1>2, Coalesced
<1>6. /\ pending' \in Seq(Batches) /\ Len(pending') = 1 /\ pending' # <<>> /\ pending'[1] = x
      /\ DOMAIN pending' = {1} /\ Seqs(pending') = x.seqs
  <2>1. pending' \in Seq(Batches) /\ Len(pending') = 1 /\ pending' # <<>> /\ pending'[1] = x
    BY <1>5, Single
  <2> QED BY <2>1, OneLess
<1>7. TypeOK'
  <2>1. pos \in 0..MaxEvents /\ \A i \in 1..MaxEvents : i \in 0..MaxEvents
    BY DEF IngestionInv, TypeOK
  <2>2. pos' \in 0..MaxEvents
    BY <1>2, <1>4, <2>1
  <2>3. consumer' \in {"idle", "starting", "replaying", "listening"} /\ pending' \in Seq(Batches)
    BY <1>2, <1>4, <1>6
  <2> QED BY <1>4, <2>2, <2>3 DEF IngestionInv, TypeOK, Batches
<1>8. Control'
  BY <1>4 DEF Control
<1>9. \A i \in DOMAIN writes : /\ "handler" \notin writes[i].waiters
                               /\ "consumer" \notin writes[i].waiters
                               /\ writes[i].by = "timer" /\ writes[i].flush /\ writes[i].key \in Keys
  <2> TAKE i \in DOMAIN writes
  <2>1. "handler" \notin writes[i].waiters
    BY DEF Waiting
  <2>2. "consumer" \notin writes[i].waiters
    BY <1>2 DEF IngestionInv, Waits
  <2>3. writes[i].by = "timer"
    <3>1. writes[i].by \in {"timer", "handler", "consumer"}
      <4>1. writes[i] \in Writes
        BY Sequences, Lengths, ElementOfSeq DEF IngestionInv
      <4> QED BY <4>1 DEF Writes
    <3> QED BY <2>1, <2>2, <3>1 DEF IngestionInv, Waits
  <2> QED BY <2>1, <2>2, <2>3 DEF IngestionInv, Waits
<1>10. Waits'
  BY <1>4, <1>6, <1>9 DEF Waits
<1>11. Pure'
  <2>1. \A s \in x.seqs : stream[s] = Kind
    <3>1. stream[Item.seq] = Kind
      BY DEF Kind
    <3>2. pending # <<>> => \A s \in pending[1].seqs : stream[s] = Kind
      <4>1. pending # <<>> => 1 \in DOMAIN pending
        BY OnePending
      <4> QED BY <4>1, ZenonT(60) DEF IngestionInv, Pure
    <3> QED BY <1>5, <3>1, <3>2
  <2> QED BY <1>5, <1>6, <2>1 DEF IngestionInv, Pure
<1>12. PICK g \in [Nat -> Nat] : /\ g[0] = h[0] /\ End(g, writes) = End(h, writes) + 1
                                 /\ Chain(g, log, writes, pending')
  <2>1. Item.seq = End(h, writes) + 1 /\ Chain(h, log, writes, pending) /\ writes \in Seq(Writes)
    BY <1>1, <1>3, Sequences DEF Top, Placed, IngestionInv
  <2>2. Seqs(pending') = Seqs(pending) \cup {Item.seq}
    BY <1>5, <1>6, OnePending, SeqsEmpty
  <2> QED BY <1>5, <1>6, <2>1, <2>2, ChainCoalesce
<1>13. Placed(g)'
  <2>1. Chain(g, log, writes, pending)' /\ Top(g)' = Item.seq
    BY <1>3, <1>12 DEF Top, End
  <2>2. Position(g)'
    <3>1. pos' <= Len(stream)'
      BY <1>1, <1>3, <1>4 DEF Placed, Position
    <3>2. consumer = "listening" => Item.seq = Len(stream)
      BY DEF IngestionInv, Control
    <3> QED BY <1>1, <1>3, <1>4, <2>1, <3>1, <3>2 DEF Position, Placed
  <2>3. Seen(g)'
    BY <1>1, <1>12 DEF Placed, Seen, Ended
  <2> QED BY <2>1, <2>2, <2>3 DEF Placed
<1> QED BY <1>7, <1>8, <1>10, <1>11, <1>13 DEF IngestionInv

\* A step of the handler to another place.
LEMMA MoveInv ==
  ASSUME IngestionInv, queue # <<>>, pc \in {"decide", "boundary"},
         pc' \in {"boundary", "flush", "append"}, ~Waiting("handler"),
         pc' \in {"flush", "append"} => Kind \in Facts, pc' = "append" => pending = <<>>,
         UNCHANGED <<remote, stream, consumer, pos, queue, seen, pending, writes, log, faults>>
  PROVE  IngestionInv'
<1>1. PICK h \in [Nat -> Nat] : Placed(h)
  BY DEF IngestionInv
<1>2. TypeOK'
  BY DEF IngestionInv, TypeOK
<1>3. Control'
  BY DEF IngestionInv, Control, Item, Kind
<1>4. Waits'
  BY DEF IngestionInv, Waits, Waiting
<1>5. Pure'
  BY DEF IngestionInv, Pure
<1>6. Placed(h)'
  <2>1. Chain(h, log, writes, pending)'
    BY <1>1 DEF Placed
  <2>2. Position(h)'
    BY <1>1 DEF Placed, Position, Top, End, Item
  <2>3. Seen(h)'
    BY <1>1 DEF Placed, Seen, Ended
  <2> QED BY <2>1, <2>2, <2>3 DEF Placed
<1> QED BY <1>2, <1>3, <1>4, <1>5, <1>6 DEF IngestionInv

\* What is left once no event of another key is pending.
LEMMA RouteInv ==
  ASSUME IngestionInv, queue # <<>>, pc \in {"decide", "boundary"}, ~Waiting("handler"),
         \A i \in DOMAIN pending : pending[i].key = Kind, Route,
         UNCHANGED <<remote, stream, seen, writes, log, faults>>
  PROVE  IngestionInv'
<1>1. ~seen.ended
  BY NotEnded
<1>2. CASE Kind \in Keys
  <2>1. Succeed /\ Coalesce(Kind, Item.seq)
    BY <1>1, <1>2 DEF Route
  <2> QED BY <1>2, <2>1, CoalesceInv
<1>3. CASE Kind \notin Keys
  <2>1. pc' \in {"append", "flush"} /\ UNCHANGED <<consumer, queue, pos, pending>>
    BY <1>1, <1>3 DEF Route
  <2>2. Kind \in Facts
    BY <1>3, OneItem DEF Kinds
  <2>3. pending = <<>>
    <3>1. pending # <<>> => pending[1].key \in Keys /\ 1 \in DOMAIN pending
      BY OnePending DEF Batches
    <3> QED BY <1>3, <3>1
  <2> QED BY <2>1, <2>2, <2>3, MoveInv
<1> QED BY <1>2, <1>3

\* Deciding what to do with an event: it is never one that was handled before.
LEMMA DecideInv == ASSUME IngestionInv, Decide PROVE IngestionInv'
<1>1. pc = "decide" /\ queue # <<>> /\ UNCHANGED <<remote, stream, seen, writes, log, faults>>
  BY DEF Decide, IngestionInv, Control
<1>2. ~Waiting("handler")
  BY <1>1 DEF IngestionInv, Waits, Waiting
<1>3. ~(Item.seq <= MaxOf({seen.cursor} \cup Seqs(pending)))
  BY <1>1, NotSeen
<1>4. CASE \E i \in DOMAIN pending : pending[i].key # Kind
  <2>1. pc' = "boundary" /\ UNCHANGED <<consumer, queue, pos, pending>>
    BY <1>3, <1>4 DEF Decide
  <2> QED BY <1>1, <1>2, <2>1, MoveInv
<1>5. CASE ~\E i \in DOMAIN pending : pending[i].key # Kind
  <2>1. Route
    BY <1>3, <1>5 DEF Decide
  <2> QED BY <1>1, <1>2, <1>5, <2>1, RouteInv
<1> QED BY <1>4, <1>5

LEMMA BoundaryFlushedInv == ASSUME IngestionInv, BoundaryFlushed PROVE IngestionInv'
<1>1. /\ pc = "boundary" /\ queue # <<>> /\ ~Waiting("handler") /\ pending = <<>> /\ Route
      /\ UNCHANGED <<remote, stream, seen, writes, log, faults>>
  BY DEF BoundaryFlushed, Flushed, IngestionInv, Control
<1>2. \A i \in DOMAIN pending : pending[i].key = Kind
  BY <1>1
<1> QED BY <1>1, <1>2, RouteInv

\* The writes of a state.
LEMMA WriteIs ==
  ASSUME IngestionInv, NEW i \in DOMAIN writes
  PROVE  /\ writes[i] \in Writes /\ writes[i].by \in {"timer", "handler", "consumer"}
         /\ i \in Nat /\ i <= Len(writes) /\ 1 <= i
<1>1. writes[i] \in Writes /\ i \in 1..Len(writes) /\ Len(writes) \in Nat
  BY Sequences, Lengths, ElementOfSeq DEF IngestionInv
<1> QED BY <1>1 DEF Writes

\* A write behind the others.
LEMMA Queued ==
  ASSUME IngestionInv, NEW x \in Writes, writes' = Append(writes, x)
  PROVE  \E n \in Nat :
           /\ n = Len(writes) /\ DOMAIN writes = 1..n
           /\ writes' \in Seq(Writes) /\ Len(writes') = n + 1 /\ DOMAIN writes' = 1..(n + 1)
           /\ writes'[n + 1] = x
           /\ \A i \in DOMAIN writes' :
                i = n + 1 \/ (i # n + 1 /\ i \in DOMAIN writes /\ writes'[i] = writes[i])
<1>1. PICK n \in Nat : n = Len(writes)
  BY Lengths DEF IngestionInv
<1>2. writes \in Seq(Writes) /\ DOMAIN writes = 1..n
  BY <1>1, Sequences, Lengths DEF IngestionInv
<1>3. writes' \in Seq(Writes) /\ Len(writes') = n + 1
  <2>1. Append(writes, x) \in Seq(Writes)
    BY <1>2, AppendProperties
  <2>2. Len(Append(writes, x)) = Len(writes) + 1
    BY <1>2, AppendProperties
  <2> QED BY <1>1, <2>1, <2>2
<1>4. DOMAIN writes' = 1..(n + 1)
  BY <1>3, LenProperties
<1>5. writes'[n + 1] = x
  <2>1. Append(writes, x)[Len(writes) + 1] = x
    BY <1>2, AppendProperties
  <2> QED BY <1>1, <2>1
<1>6. \A i \in 1..n : writes'[i] = writes[i]
  BY <1>1, <1>2, OneMore
<1>7. \A i \in DOMAIN writes' : i = n + 1 \/ (i # n + 1 /\ i \in DOMAIN writes)
  BY <1>2, <1>4, Indices
<1> QED BY <1>1, <1>2, <1>3, <1>4, <1>5, <1>6, <1>7

LEMMA PureQueued ==
  ASSUME IngestionInv, NEW x \in Writes, writes' = Append(writes, x), pending' = <<>>,
         \A s \in x.seqs : stream[s] = x.key, x.key \in Keys \/ \E s : x.seqs = {s},
         UNCHANGED <<stream, log>>
  PROVE  Pure'
<1>1. PICK n \in Nat : /\ writes'[n + 1] = x
                       /\ \A i \in DOMAIN writes' :
                            i = n + 1 \/ (i # n + 1 /\ i \in DOMAIN writes /\ writes'[i] = writes[i])
  BY Queued
<1>2. ASSUME NEW i \in DOMAIN writes
      PROVE  /\ \A s \in writes[i].seqs : stream[s] = writes[i].key
             /\ writes[i].key \in Keys \/ \E s : writes[i].seqs = {s}
  BY <1>2 DEF IngestionInv, Pure
<1>3. ASSUME NEW i \in DOMAIN writes'
      PROVE  /\ \A s \in writes'[i].seqs : stream[s] = writes'[i].key
             /\ writes'[i].key \in Keys \/ \E s : writes'[i].seqs = {s}
  <2>1. CASE i = n + 1
    BY <1>1, <2>1
  <2>2. CASE i # n + 1
    <3>1. i \in DOMAIN writes /\ writes'[i] = writes[i]
      BY <1>1, <1>3, <2>2
    <3> QED BY <1>2, <3>1
  <2> QED BY <2>1, <2>2
<1>4. /\ \A i \in DOMAIN log : \A s \in log[i].seqs : stream[s] = log[i].key
      /\ \A i \in DOMAIN log : log[i].seqs # {}
      /\ \A i \in DOMAIN stream : stream[i] = "end" => i = Len(stream)
  BY DEF IngestionInv, Pure
<1>5. DOMAIN pending' = {}
  OBVIOUS
<1> QED BY <1>3, <1>4, <1>5 DEF Pure

\* The pending batch goes to the write queue, for the timer or for a waiting party.
LEMMA FlushInv ==
  ASSUME IngestionInv, pending # <<>>, NEW f \in {"timer", "handler", "consumer"},
         NEW ws, ws = IF f = "timer" THEN {} ELSE {f},
         f = "handler" => pc \in {"boundary", "flush"}, f = "consumer" => consumer = "starting",
         pending' = <<>>, writes' = Append(writes, Write(pending[1], TRUE, f, ws)),
         UNCHANGED <<remote, stream, consumer, pos, queue, pc, seen, log, faults>>
  PROVE  IngestionInv'
<1> DEFINE x == Write(pending[1], TRUE, f, ws)
<1>1. PICK h \in [Nat -> Nat] : Placed(h)
  BY DEF IngestionInv
<1>2. pending[1] \in Batches /\ 1 \in DOMAIN pending /\ Seqs(pending) = pending[1].seqs
  BY OnePending
<1>3. /\ x \in Writes /\ x.seqs = pending[1].seqs /\ x.key = pending[1].key /\ x.key \in Keys
      /\ x.flush /\ x.by = f /\ x.waiters = ws
  BY <1>2 DEF Write, Writes, Batches, Kinds
<1>4. writes' = Append(writes, x)
  OBVIOUS
<1> HIDE DEF x
<1>5. PICK n \in Nat :
        /\ writes' \in Seq(Writes) /\ Len(writes') = n + 1 /\ writes'[n + 1] = x
        /\ \A i \in DOMAIN writes' :
             i = n + 1 \/ (i # n + 1 /\ i \in DOMAIN writes /\ writes'[i] = writes[i])
  BY <1>3, <1>4, Queued
<1>6. TypeOK'
  <2>1. pending' \in Seq(Batches)
    OBVIOUS
  <2> QED BY <1>5, <2>1 DEF IngestionInv, TypeOK, Writes, Batches
<1>7. Control'
  BY DEF IngestionInv, Control, Item, Kind
<1>8. Waits'
  <2>1. ASSUME NEW i \in DOMAIN writes
        PROVE  /\ "handler" \in writes[i].waiters => pc \in {"boundary", "flush", "appended"}
               /\ "consumer" \in writes[i].waiters => consumer = "starting"
               /\ writes[i].by = "timer"
               /\ writes[i].flush => writes[i].key \in Keys
               /\ ~writes[i].flush => writes[i].by = "handler" /\ pc = "appended"
    BY <2>1 DEF IngestionInv, Waits
  <2>2. ASSUME NEW i \in DOMAIN writes', i # n + 1
        PROVE  /\ "handler" \in writes'[i].waiters => pc' \in {"boundary", "flush", "appended"}
               /\ "consumer" \in writes'[i].waiters => consumer' = "starting"
               /\ writes'[i].by # "timer" =>
                    i = Len(writes') /\ pending' = <<>> /\ writes'[i].by \in writes'[i].waiters
               /\ writes'[i].flush => writes'[i].key \in Keys
               /\ ~writes'[i].flush => writes'[i].by = "handler" /\ pc' = "appended"
    <3>1. i \in DOMAIN writes /\ writes'[i] = writes[i]
      BY <1>5, <2>2
    <3> QED BY <2>1, <3>1
  <2>3. /\ "handler" \in x.waiters => pc' \in {"boundary", "flush", "appended"}
        /\ "consumer" \in x.waiters => consumer' = "starting"
        /\ x.by # "timer" => pending' = <<>> /\ x.by \in x.waiters
        /\ x.flush => x.key \in Keys
        /\ ~x.flush => x.by = "handler" /\ pc' = "appended"
    BY <1>3
  <2>4. Len(pending') <= 1
    OBVIOUS
  <2> QED BY <1>5, <2>2, <2>3, <2>4 DEF Waits
<1>9. Pure'
  <2>1. (\A s \in x.seqs : stream[s] = x.key) /\ x.key \in Keys
    BY <1>2, <1>3 DEF IngestionInv, Pure
  <2> QED BY <1>3, <1>4, <2>1, PureQueued
<1>10. PICK g \in [Nat -> Nat] : /\ g[0] = h[0] /\ End(g, Append(writes, x)) = End(h, writes)
                                 /\ Chain(g, log, Append(writes, x), <<>>)
  <2>1. Chain(h, log, writes, pending)
    BY <1>1 DEF Placed
  <2> QED BY <1>2, <1>3, <2>1, Sequences, ChainFlush DEF IngestionInv
<1>11. Placed(g)'
  <2>1. Chain(g, log, writes, pending)' /\ Top(g)' = Top(h)
    BY <1>4, <1>10 DEF Top, End
  <2>2. Position(g)'
    BY <1>1, <2>1 DEF Placed, Position, Item
  <2>3. Seen(g)'
    BY <1>1, <1>10 DEF Placed, Seen, Ended
  <2> QED BY <2>1, <2>2, <2>3 DEF Placed
<1> QED BY <1>6, <1>7, <1>8, <1>9, <1>11 DEF IngestionInv

\* Waiting for the flushes in flight.
LEMMA JoinInv ==
  ASSUME IngestionInv, NEW f \in {"handler", "consumer"}, JoinFlushes(f),
         f = "handler" => pc \in {"boundary", "flush"}, f = "consumer" => consumer = "starting",
         UNCHANGED <<remote, stream, consumer, pos, queue, pc, seen, log, faults>>
  PROVE  IngestionInv'
<1>1. PICK h \in [Nat -> Nat] : Placed(h)
  BY DEF IngestionInv
<1>2. PICK n \in Nat : n = Len(writes)
  BY Lengths DEF IngestionInv
<1>3. writes \in Seq(Writes) /\ DOMAIN writes = 1..n
  BY <1>2, Sequences, Lengths DEF IngestionInv
<1>4. writes' = [i \in 1..n |->
                   IF i \in Flushing THEN [writes[i] EXCEPT !.waiters = @ \cup {f}] ELSE writes[i]]
      /\ pending = <<>> /\ pending' = pending
  BY <1>3 DEF JoinFlushes
<1>5. \A i \in 1..n : /\ writes'[i] \in Writes /\ writes'[i].key = writes[i].key
                      /\ writes'[i].seqs = writes[i].seqs /\ writes'[i].flush = writes[i].flush
                      /\ writes'[i].by = writes[i].by
                      /\ \/ writes'[i].waiters = writes[i].waiters
                         \/ writes'[i].waiters = writes[i].waiters \cup {f}
  <2> TAKE i \in 1..n
  <2>1. writes[i] \in Writes
    BY <1>3, WriteIs
  <2>2. writes'[i] = writes[i] \/ writes'[i] = [writes[i] EXCEPT !.waiters = @ \cup {f}]
    BY <1>4
  <2> QED BY <2>1, <2>2 DEF Writes
<1>6. writes' \in Seq(Writes) /\ Len(writes') = n /\ DOMAIN writes' = 1..n
  <2>1. writes' \in [1..n -> Writes]
    BY <1>4, <1>5
  <2> QED BY <2>1, MapSeq
<1>7. TypeOK'
  BY <1>4, <1>6 DEF IngestionInv, TypeOK, Writes
<1>8. Control'
  BY DEF IngestionInv, Control, Item, Kind
<1>9. Waits'
  <2>1. ASSUME NEW i \in 1..n
        PROVE  /\ "handler" \in writes'[i].waiters => pc' \in {"boundary", "flush", "appended"}
               /\ "consumer" \in writes'[i].waiters => consumer' = "starting"
               /\ writes'[i].by # "timer" =>
                    i = Len(writes') /\ pending' = <<>> /\ writes'[i].by \in writes'[i].waiters
               /\ writes'[i].flush => writes'[i].key \in Keys
               /\ ~writes'[i].flush => writes'[i].by = "handler" /\ pc' = "appended"
    <3>1. /\ "handler" \in writes[i].waiters => pc \in {"boundary", "flush", "appended"}
          /\ "consumer" \in writes[i].waiters => consumer = "starting"
          /\ writes[i].by # "timer" =>
               i = n /\ pending = <<>> /\ writes[i].by \in writes[i].waiters
          /\ writes[i].flush => writes[i].key \in Keys
          /\ ~writes[i].flush => writes[i].by = "handler" /\ pc = "appended"
      BY <1>2, <1>3, <2>1 DEF IngestionInv, Waits
    <3> QED BY <1>4, <1>5, <1>6, <2>1, <3>1
  <2> QED BY <1>4, <1>6, <2>1 DEF IngestionInv, Waits
<1>10. Pure'
  <2>1. \A i \in 1..n : /\ \A s \in writes'[i].seqs : stream[s] = writes'[i].key
                        /\ writes'[i].key \in Keys \/ \E s : writes'[i].seqs = {s}
    <3>1. ASSUME NEW i \in 1..n
          PROVE  /\ \A s \in writes[i].seqs : stream[s] = writes[i].key
                 /\ writes[i].key \in Keys \/ \E s : writes[i].seqs = {s}
      BY <1>3, <3>1 DEF IngestionInv, Pure
    <3> QED BY <1>5, <3>1
  <2>2. /\ \A i \in DOMAIN log : \A s \in log[i].seqs : stream[s] = log[i].key
        /\ \A i \in DOMAIN log : log[i].seqs # {}
        /\ \A i \in DOMAIN pending : \A s \in pending[i].seqs : stream[s] = pending[i].key
        /\ \A i \in DOMAIN stream : stream[i] = "end" => i = Len(stream)
    BY DEF IngestionInv, Pure
  <2> QED BY <1>4, <1>6, <2>1, <2>2 DEF Pure
<1>11. Placed(h)'
  <2>1. Chain(h, log, writes, pending)'
    <3>1. Chain(h, log, writes, pending)
      BY <1>1 DEF Placed
    <3>2. Chain(h, log, writes', pending)
      BY <1>2, <1>3, <1>5, <1>6, <3>1, ChainSame
    <3> QED BY <1>4, <3>2
  <2>2. Position(h)'
    BY <1>1, <1>2, <1>6 DEF Placed, Position, Top, End, Item
  <2>3. Seen(h)'
    BY <1>1 DEF Placed, Seen, Ended
  <2> QED BY <2>1, <2>2, <2>3 DEF Placed
<1> QED BY <1>7, <1>8, <1>9, <1>10, <1>11 DEF IngestionInv

LEMMA HandlerFlushesInv == ASSUME IngestionInv, HandlerFlushes PROVE IngestionInv'
<1>1. /\ pc \in {"boundary", "flush"} /\ (FlushOne("handler") \/ JoinFlushes("handler"))
      /\ UNCHANGED <<remote, stream, consumer, pos, queue, pc, seen, log, faults>>
  BY DEF HandlerFlushes
<1>2. FlushOne("handler") =>
        /\ pending # <<>> /\ pending' = <<>>
        /\ writes' = Append(writes, Write(pending[1], TRUE, "handler", {"handler"}))
  BY OnePending DEF FlushOne
<1>3. {"handler"} = IF "handler" = "timer" THEN {} ELSE {"handler"}
  OBVIOUS
<1>4. FlushOne("handler") => IngestionInv'
  BY <1>1, <1>2, <1>3, FlushInv
<1> QED BY <1>1, <1>4, JoinInv

LEMMA ConsumerFlushesInv == ASSUME IngestionInv, ConsumerFlushes PROVE IngestionInv'
<1>1. /\ consumer = "starting" /\ (FlushOne("consumer") \/ JoinFlushes("consumer"))
      /\ UNCHANGED <<remote, stream, consumer, pos, queue, pc, seen, log, faults>>
  BY DEF ConsumerFlushes
<1>2. FlushOne("consumer") =>
        /\ pending # <<>> /\ pending' = <<>>
        /\ writes' = Append(writes, Write(pending[1], TRUE, "consumer", {"consumer"}))
  BY OnePending DEF FlushOne
<1>3. {"consumer"} = IF "consumer" = "timer" THEN {} ELSE {"consumer"}
  OBVIOUS
<1>4. FlushOne("consumer") => IngestionInv'
  BY <1>1, <1>2, <1>3, FlushInv
<1> QED BY <1>1, <1>4, JoinInv

LEMMA FlushTimerFiresInv == ASSUME IngestionInv, FlushTimerFires PROVE IngestionInv'
<1>1. PICK i \in DOMAIN pending :
        /\ pending' = RemoveAt(pending, i)
        /\ writes' = Append(writes, Write(pending[i], TRUE, "timer", {}))
  BY DEF FlushTimerFires
<1>2. pending # <<>>
  BY <1>1
<1>3. i = 1 /\ pending' = <<>>
  BY <1>1, <1>2, OnePending
<1>4. UNCHANGED <<remote, stream, consumer, pos, queue, pc, seen, log, faults>>
  BY DEF FlushTimerFires
<1>5. {} = IF "timer" = "timer" THEN {} ELSE {"timer"}
  OBVIOUS
<1> QED BY <1>1, <1>2, <1>3, <1>4, <1>5, FlushInv

\* The event's own write.
LEMMA AppendEventInv == ASSUME IngestionInv, AppendEvent PROVE IngestionInv'
<1> DEFINE x == Write([key |-> Kind, seqs |-> {Item.seq}], FALSE, "handler", {"handler"})
<1>1. PICK h \in [Nat -> Nat] : Placed(h)
  BY DEF IngestionInv
<1>2. /\ pc \in {"append", "flush"} /\ pc' = "appended" /\ queue # <<>> /\ pending = <<>>
      /\ (pc = "flush" => ~Waiting("handler")) /\ writes' = Append(writes, x)
      /\ UNCHANGED <<remote, stream, consumer, pos, queue, seen, pending, log, faults>>
  BY DEF AppendEvent, Flushed, IngestionInv, Control, Waits
<1>3. /\ Item \in Items /\ Item.seq \in 1..MaxEvents /\ Kind \in Kinds
      /\ consumer \in {"replaying", "listening"}
  BY <1>2, OneItem DEF Items
<1>4. /\ x \in Writes /\ x.seqs = {Item.seq} /\ x.key = Kind /\ ~x.flush /\ x.by = "handler"
      /\ x.waiters = {"handler"}
  BY <1>3 DEF Write, Writes
<1> HIDE DEF x
<1>5. PICK n \in Nat :
        /\ writes' \in Seq(Writes) /\ Len(writes') = n + 1 /\ writes'[n + 1] = x
        /\ \A i \in DOMAIN writes' :
             i = n + 1 \/ (i # n + 1 /\ i \in DOMAIN writes /\ writes'[i] = writes[i])
  BY <1>2, <1>4, Queued, ZenonT(60)
<1>6. TypeOK'
  BY <1>2, <1>5 DEF IngestionInv, TypeOK, Writes
<1>7. Control'
  BY <1>2 DEF IngestionInv, Control, Item, Kind
<1>8. Waits'
  <2>1. ASSUME NEW i \in DOMAIN writes
        PROVE  /\ "handler" \notin writes[i].waiters /\ "consumer" \notin writes[i].waiters
               /\ writes[i].by = "timer" /\ writes[i].flush /\ writes[i].key \in Keys
    <3>1. "handler" \notin writes[i].waiters
      BY <1>2, <2>1 DEF IngestionInv, Waits, Waiting
    <3>2. "consumer" \notin writes[i].waiters
      BY <1>3, <2>1 DEF IngestionInv, Waits
    <3>3. writes[i].by = "timer"
      BY <2>1, <3>1, <3>2, WriteIs DEF IngestionInv, Waits
    <3> QED BY <2>1, <3>1, <3>2, <3>3 DEF IngestionInv, Waits
  <2>2. ASSUME NEW i \in DOMAIN writes', i # n + 1
        PROVE  /\ "handler" \notin writes'[i].waiters /\ "consumer" \notin writes'[i].waiters
               /\ writes'[i].by = "timer" /\ writes'[i].flush /\ writes'[i].key \in Keys
    <3>1. i \in DOMAIN writes /\ writes'[i] = writes[i]
      BY <1>5, <2>2
    <3> QED BY <2>1, <3>1
  <2>3. Len(pending') <= 1
    BY <1>2
  <2>4. n + 1 = Len(writes') /\ writes'[n + 1] = x
    BY <1>5
  <2>5. ASSUME NEW i \in DOMAIN writes'
        PROVE  /\ "handler" \in writes'[i].waiters => pc' \in {"boundary", "flush", "appended"}
               /\ "consumer" \in writes'[i].waiters => consumer' = "starting"
               /\ writes'[i].by # "timer" =>
                    i = Len(writes') /\ pending' = <<>> /\ writes'[i].by \in writes'[i].waiters
               /\ writes'[i].flush => writes'[i].key \in Keys
               /\ ~writes'[i].flush => writes'[i].by = "handler" /\ pc' = "appended"
    <3>1. CASE i = n + 1
      BY <1>2, <1>4, <2>4, <3>1, SMTT(30)
    <3>2. CASE i # n + 1
      BY <2>2, <2>5, <3>2
    <3> QED BY <3>1, <3>2
  <2> QED BY <1>2, <2>3, <2>5 DEF Waits
<1>9. Pure'
  <2>1. (\A s \in x.seqs : stream[s] = x.key) /\ \E s : x.seqs = {s}
    BY <1>4 DEF Kind
  <2> QED BY <1>2, <1>4, <2>1, PureQueued
<1>10. Item.seq = Top(h) + 1
  <2>1. Top(h) = Item.seq - 1 /\ Item.seq \in Nat /\ Top(h) \in Nat
    <3>1. Top(h) = Item.seq - 1
      BY <1>1, <1>2 DEF Placed, Position
    <3>2. Item.seq \in Nat
      BY <1>3
    <3> QED BY <1>1, <3>1, <3>2, Reach
  <2>2. \A a, b \in Nat : a = b - 1 => b = a + 1
    OBVIOUS
  <2> QED BY <2>1, <2>2
<1>11. PICK g \in [Nat -> Nat] : /\ g[0] = h[0] /\ End(g, Append(writes, x)) = End(h, writes) + 1
                                 /\ Chain(g, log, Append(writes, x), <<>>)
  <2>1. Chain(h, log, writes, <<>>) /\ x.seqs = {End(h, writes) + 1} /\ writes \in Seq(Writes)
    BY <1>1, <1>2, <1>4, <1>10, Sequences DEF Placed, Top, IngestionInv
  <2> QED BY <1>4, <2>1, ChainAppend
<1>12. Placed(g)'
  <2>1. Chain(g, log, writes, pending)' /\ Top(g)' = Item.seq
    BY <1>2, <1>10, <1>11 DEF Top, End
  <2>2. Position(g)'
    <3>1. Item.seq <= Len(stream) /\ pos <= Len(stream) /\ Len(stream) <= MaxEvents
      BY <1>1, <1>2 DEF IngestionInv, Control, Placed, Position
    <3> QED BY <1>2, <2>1, <3>1 DEF Position, Item
  <2>3. Seen(g)'
    BY <1>1, <1>2, <1>11 DEF Placed, Seen, Ended
  <2> QED BY <2>1, <2>2, <2>3 DEF Placed
<1> QED BY <1>6, <1>7, <1>8, <1>9, <1>12 DEF IngestionInv

\* The handler's write is done.
LEMMA AppendedInv == ASSUME IngestionInv, Appended PROVE IngestionInv'
<1>1. PICK h \in [Nat -> Nat] : Placed(h)
  BY DEF IngestionInv
<1>2. /\ pc = "appended" /\ ~Waiting("handler") /\ Succeed /\ queue # <<>>
      /\ UNCHANGED <<remote, stream, seen, pending, writes, log, faults>>
  BY DEF Appended, IngestionInv, Control
<1>3. /\ Item.seq \in 1..MaxEvents /\ consumer \in {"replaying", "listening"}
      /\ Item.seq <= Len(stream)
  BY <1>2, OneItem DEF Items, IngestionInv, Control
<1>4. queue' = <<>> /\ pc' = "idle" /\ pos' = (IF consumer = "replaying" THEN Item.seq ELSE pos)
      /\ (consumer' = consumer \/ consumer' = "idle")
  <2>1. pos' = IF consumer = "replaying" THEN Item.seq ELSE pos
    BY <1>2 DEF Succeed, IngestionInv, Control
  <2>2. consumer' = consumer \/ consumer' = "idle"
    BY <1>2 DEF Succeed
  <2> QED BY <1>2, <2>1, <2>2, Finished
<1>5. TypeOK'
  <2>1. pos \in 0..MaxEvents /\ \A i \in 1..MaxEvents : i \in 0..MaxEvents
    BY DEF IngestionInv, TypeOK
  <2>2. pos' \in 0..MaxEvents
    BY <1>3, <1>4, <2>1
  <2>3. consumer' \in {"idle", "starting", "replaying", "listening"}
    BY <1>3, <1>4
  <2> QED BY <1>2, <1>4, <2>2, <2>3 DEF IngestionInv, TypeOK
<1>6. Control'
  BY <1>4 DEF Control
<1>7. Waits'
  <2>1. ASSUME NEW i \in DOMAIN writes
        PROVE  /\ "handler" \notin writes[i].waiters /\ "consumer" \notin writes[i].waiters
               /\ writes[i].by = "timer" /\ writes[i].flush /\ writes[i].key \in Keys
    <3>1. "handler" \notin writes[i].waiters
      BY <1>2, <2>1 DEF Waiting
    <3>2. "consumer" \notin writes[i].waiters
      BY <1>3, <2>1 DEF IngestionInv, Waits
    <3>3. writes[i].by = "timer"
      BY <2>1, <3>1, <3>2, WriteIs DEF IngestionInv, Waits
    <3> QED BY <2>1, <3>1, <3>2, <3>3 DEF IngestionInv, Waits
  <2> QED BY <1>2, <1>4, <2>1 DEF IngestionInv, Waits
<1>8. Pure'
  BY <1>2 DEF IngestionInv, Pure
<1>9. Placed(h)'
  <2>1. Chain(h, log, writes, pending)' /\ Top(h)' = Top(h)
    BY <1>1, <1>2 DEF Placed, Top, End
  <2>2. Position(h)'
    <3>1. Top(h) = Item.seq /\ pos <= Len(stream)
      BY <1>1, <1>2 DEF Placed, Position
    <3>2. consumer = "listening" => Item.seq = Len(stream)
      BY <1>2 DEF IngestionInv, Control
    <3> QED BY <1>1, <1>2, <1>3, <1>4, <2>1, <3>1, <3>2 DEF Position, Placed
  <2>3. Seen(h)'
    BY <1>1, <1>2 DEF Placed, Seen, Ended
  <2> QED BY <2>1, <2>2, <2>3 DEF Placed
<1> QED BY <1>5, <1>6, <1>7, <1>8, <1>9 DEF IngestionInv

\* A write gets into the log.
LEMMA AppendEventNowInv == ASSUME IngestionInv, AppendEventNow PROVE IngestionInv'
<1> DEFINE b == [key |-> Head(writes).key, seqs |-> Head(writes).seqs]
<1>1. PICK h \in [Nat -> Nat] : Placed(h)
  BY DEF IngestionInv
<1>2. /\ writes # <<>> /\ writes' = Tail(writes) /\ log' = Append(log, b)
      /\ UNCHANGED <<remote, stream, consumer, pos, queue, pc, seen, pending, faults>>
  BY DEF AppendEventNow
<1>3. PICK n \in Nat : n = Len(writes)
  BY Lengths DEF IngestionInv
<1>4. writes \in Seq(Writes) /\ DOMAIN writes = 1..n /\ n # 0
  BY <1>2, <1>3, Sequences, Lengths DEF IngestionInv
<1>5. 1 \in 1..n
  BY <1>4
<1>6. Head(writes) = writes[1] /\ writes[1] \in Writes /\ Tail(writes) \in Seq(Writes)
      /\ Len(Tail(writes)) = n - 1
  BY <1>2, <1>3, <1>4, <1>5, HeadTailProperties, WriteIs
<1>7. \A i \in DOMAIN writes' : writes'[i] = writes[i + 1] /\ i + 1 \in DOMAIN writes
                               /\ (i + 1 = n => i = Len(writes'))
  <2>1. DOMAIN writes' = 1..(n - 1)
    BY <1>2, <1>6, LenProperties
  <2>2. \A i \in 1..(n - 1) : i + 1 \in 1..n /\ (i + 1 = n => i = n - 1)
    BY <1>4
  <2> QED BY <1>2, <1>3, <1>4, <1>6, <2>1, <2>2, HeadTailProperties
<1>8. b \in Batch /\ b.key = writes[1].key /\ b.seqs = writes[1].seqs
  BY <1>6 DEF Writes, Batch
<1> HIDE DEF b
<1>9. PICK m \in Nat : m = Len(log)
  BY Lengths DEF IngestionInv
<1>10. /\ log \in Seq(Batch) /\ log' \in Seq(Batch) /\ DOMAIN log' = 1..(m + 1)
       /\ DOMAIN log = 1..m /\ log'[m + 1] = b /\ \A i \in 1..m : log'[i] = log[i]
  <2>1. log \in Seq(Batch) /\ DOMAIN log = 1..m
    BY <1>9, Sequences, Lengths DEF IngestionInv
  <2>2. log' \in Seq(Batch) /\ Len(log') = m + 1
    <3>1. Append(log, b) \in Seq(Batch)
      BY <1>8, <2>1, AppendProperties
    <3>2. Len(Append(log, b)) = Len(log) + 1
      BY <1>8, <2>1, AppendProperties
    <3> QED BY <1>2, <1>9, <3>1, <3>2
  <2>3. DOMAIN log' = 1..(m + 1)
    BY <2>2, LenProperties
  <2>4. log'[m + 1] = b
    <3>1. Append(log, b)[Len(log) + 1] = b
      BY <1>8, <2>1, AppendProperties
    <3> QED BY <1>2, <1>9, <3>1
  <2>5. \A i \in 1..m : log'[i] = log[i]
    BY <1>2, <1>8, <1>9, <2>1, OneMore
  <2> QED BY <2>1, <2>2, <2>3, <2>4, <2>5
<1>11. \A i \in DOMAIN log' : i = m + 1 \/ (i # m + 1 /\ i \in DOMAIN log /\ log'[i] = log[i])
  BY <1>10, Indices
<1>12. TypeOK'
  BY <1>2, <1>6, <1>10 DEF IngestionInv, TypeOK, Writes
<1>13. Control'
  BY <1>2 DEF IngestionInv, Control, Item, Kind
<1>14. Waits'
  <2>1. ASSUME NEW i \in DOMAIN writes
        PROVE  /\ "handler" \in writes[i].waiters => pc \in {"boundary", "flush", "appended"}
               /\ "consumer" \in writes[i].waiters => consumer = "starting"
               /\ writes[i].by # "timer" =>
                    i = n /\ pending = <<>> /\ writes[i].by \in writes[i].waiters
               /\ writes[i].flush => writes[i].key \in Keys
               /\ ~writes[i].flush => writes[i].by = "handler" /\ pc = "appended"
    BY <1>3, <2>1 DEF IngestionInv, Waits
  <2>2. ASSUME NEW i \in DOMAIN writes'
        PROVE  /\ "handler" \in writes'[i].waiters => pc' \in {"boundary", "flush", "appended"}
               /\ "consumer" \in writes'[i].waiters => consumer' = "starting"
               /\ writes'[i].by # "timer" =>
                    i = Len(writes') /\ pending' = <<>> /\ writes'[i].by \in writes'[i].waiters
               /\ writes'[i].flush => writes'[i].key \in Keys
               /\ ~writes'[i].flush => writes'[i].by = "handler" /\ pc' = "appended"
    <3>1. writes'[i] = writes[i + 1] /\ i + 1 \in DOMAIN writes /\ (i + 1 = n => i = Len(writes'))
      BY <1>7, <2>2
    <3> QED BY <1>2, <2>1, <3>1
  <2>3. Len(pending) <= 1 /\ (pc \in {"append", "appended"} => pending = <<>>)
    BY DEF IngestionInv, Waits
  <2> QED BY <1>2, <2>2, <2>3 DEF Waits
<1>15. h[0] \in Nat /\ h[1] \in Nat /\ h[0] < h[1] /\ writes[1].seqs = (h[0] + 1)..h[1]
  <2>1. 1 - 1 = 0
    OBVIOUS
  <2> QED BY <1>1, <1>3, <1>5, <2>1 DEF Placed, Chain
<1>16. Pure'
  <2>1. ASSUME NEW i \in DOMAIN writes
        PROVE  /\ \A s \in writes[i].seqs : stream[s] = writes[i].key
               /\ writes[i].key \in Keys \/ \E s : writes[i].seqs = {s}
    BY <2>1 DEF IngestionInv, Pure
  <2>2. ASSUME NEW i \in DOMAIN writes'
        PROVE  /\ \A s \in writes'[i].seqs : stream[s] = writes'[i].key
               /\ writes'[i].key \in Keys \/ \E s : writes'[i].seqs = {s}
    <3>1. writes'[i] = writes[i + 1] /\ i + 1 \in DOMAIN writes
      BY <1>7, <2>2
    <3> QED BY <2>1, <3>1
  <2>3. (\A s \in b.seqs : stream[s] = b.key) /\ b.seqs # {}
    BY <1>4, <1>5, <1>8, <1>15, <2>1, Upto
  <2>4. \A i \in DOMAIN log' : (\A s \in log'[i].seqs : stream[s] = log'[i].key)
                              /\ log'[i].seqs # {}
    <3> TAKE i \in DOMAIN log'
    <3>1. CASE i = m + 1
      BY <1>10, <2>3, <3>1
    <3>2. CASE i # m + 1
      <4>1. i \in DOMAIN log /\ log'[i] = log[i]
        BY <1>11, <3>2
      <4> QED BY <4>1 DEF IngestionInv, Pure
    <3> QED BY <3>1, <3>2
  <2>5. /\ \A i \in DOMAIN pending : \A s \in pending[i].seqs : stream[s] = pending[i].key
        /\ \A i \in DOMAIN stream : stream[i] = "end" => i = Len(stream)
    BY DEF IngestionInv, Pure
  <2> QED BY <1>2, <2>2, <2>4, <2>5 DEF Pure
<1>17. PICK g \in [Nat -> Nat] :
         /\ h[0] < g[0] /\ End(g, Tail(writes)) = End(h, writes)
         /\ Chain(g, Append(log, b), Tail(writes), pending)
  <2>1. Chain(h, log, writes, pending)
    BY <1>1 DEF Placed
  <2> QED BY <1>2, <1>4, <1>8, <1>10, <2>1, ChainRecord
<1>18. Placed(g)'
  <2>1. Chain(g, log, writes, pending)' /\ Top(g)' = Top(h)
    BY <1>2, <1>17 DEF Top, End
  <2>2. Position(g)'
    BY <1>1, <1>2, <2>1 DEF Placed, Position, Item
  <2>3. Seen(g)'
    <3>1. seen.cursor <= h[0] /\ (seen.ended => Ended) /\ seen.cursor \in Nat /\ g[0] \in Nat
      BY <1>1, Sequences DEF Placed, Seen, IngestionInv
    <3>2. seen.cursor <= g[0]
      <4>1. \A a, c, d \in Nat : a <= c /\ c < d => a <= d
        OBVIOUS
      <4> QED BY <1>15, <1>17, <3>1, <4>1
    <3>3. Ended => Ended'
      <4>1. \A i \in DOMAIN log : i \in DOMAIN log' /\ log'[i] = log[i]
        BY <1>10, Indices, Later
      <4> QED BY <4>1 DEF Ended
    <3> QED BY <1>2, <3>1, <3>2, <3>3 DEF Seen
  <2> QED BY <2>1, <2>2, <2>3 DEF Placed
<1> QED BY <1>12, <1>13, <1>14, <1>16, <1>18 DEF IngestionInv

\* A write that fails, and is awaited, stops everything; its batch is pending again.
LEMMA WriteFailsInv ==
  ASSUME IngestionInv, ~TimerWritesMayFail, WriteFails
  PROVE  IngestionInv'
<1> DEFINE x == [key |-> writes[1].key, seqs |-> writes[1].seqs, armed |-> FALSE]
<1>1. PICK h \in [Nat -> Nat] : Placed(h)
  BY DEF IngestionInv
<1>2. /\ writes # <<>> /\ faults < MaxFaults /\ faults' = faults + 1
      /\ Head(writes).by # "timer" /\ UNCHANGED <<remote, stream, seen, log>>
  BY DEF WriteFails
<1>3. PICK n \in Nat : n = Len(writes)
  BY Lengths DEF IngestionInv
<1>4. writes \in Seq(Writes) /\ DOMAIN writes = 1..n /\ n # 0
  BY <1>2, <1>3, Sequences, Lengths DEF IngestionInv
<1>5. 1 \in DOMAIN writes /\ Head(writes) = writes[1] /\ writes[1] \in Writes
  <2>1. 1 \in 1..n
    BY <1>4
  <2> QED BY <1>2, <1>4, <2>1, WriteIs, HeadTailProperties
<1>6. /\ n = 1 /\ pending = <<>> /\ writes[1].by \in writes[1].waiters
      /\ writes[1].by \in {"handler", "consumer"}
  <2>1. 1 = Len(writes) /\ pending = <<>> /\ writes[1].by \in writes[1].waiters
    BY <1>2, <1>5 DEF IngestionInv, Waits
  <2>2. writes[1].by \in {"timer", "handler", "consumer"}
    BY <1>5, WriteIs
  <2>3. n = 1
    BY <1>3, <2>1
  <2>4. writes[1].by # "timer"
    BY <1>2, <1>5
  <2> QED BY <2>1, <2>2, <2>3, <2>4
<1>7. writes' = <<>>
  <2>1. Tail(writes) = <<>>
    BY <1>3, <1>4, <1>6, OneLess
  <2>2. writes' = [i \in DOMAIN Tail(writes) |->
                     [Tail(writes)[i] EXCEPT !.waiters = @ \ Head(writes).waiters]]
    BY DEF WriteFails
  <2>3. \A f, S : f = [i \in DOMAIN <<>> |-> [<<>>[i] EXCEPT !.waiters = @ \ S]] => f = <<>>
    OBVIOUS
  <2> QED BY <2>1, <2>2, <2>3
<1>8. queue' = <<>> /\ pc' = "idle" /\ pos' = pos /\ consumer' = "idle"
  <2>1. CASE "handler" \in writes[1].waiters
    <3>1. queue # <<>> /\ Fail /\ consumer' = "idle"
      BY <1>5, <2>1 DEF WriteFails, IngestionInv, Control, Waits
    <3> QED BY <3>1, Finished DEF Fail
  <2>2. CASE "handler" \notin writes[1].waiters
    <3>1. "consumer" \in writes[1].waiters
      BY <1>6, <2>2
    <3>2. consumer' = "idle" /\ UNCHANGED <<pc, pos, queue>>
      BY <1>5, <2>2, <3>1 DEF WriteFails
    <3>3. consumer = "starting"
      BY <1>5, <3>1 DEF IngestionInv, Waits
    <3> QED BY <3>2, <3>3 DEF IngestionInv, Control
  <2> QED BY <2>1, <2>2
<1>9. pending' = IF writes[1].flush THEN <<x>> ELSE <<>>
  <2>1. ~HasPending(writes[1].key)
    BY <1>6 DEF HasPending
  <2>2. pending' = IF writes[1].flush THEN Append(pending, x) ELSE pending
    BY <1>5, <2>1 DEF WriteFails
  <2> QED BY <1>6, <2>2
<1>10. writes[1].flush => x \in Batches /\ writes[1].key \in Keys
  BY <1>5 DEF IngestionInv, Waits, Writes, Batches
<1>11. x.seqs = writes[1].seqs /\ x.key = writes[1].key
  OBVIOUS
<1> HIDE DEF x
<1>12. pending' \in Seq(Batches) /\ Len(pending') <= 1
       /\ \A i \in DOMAIN pending' : pending'[i] = x /\ writes[1].flush
  <2>1. CASE writes[1].flush
    <3>1. <<x>> \in Seq(Batches) /\ Len(<<x>>) = 1 /\ DOMAIN <<x>> = {1} /\ <<x>>[1] = x
      BY <1>10, <2>1, Single
    <3> QED BY <1>9, <2>1, <3>1
  <2>2. CASE ~writes[1].flush
    BY <1>9, <2>2
  <2> QED BY <2>1, <2>2
<1>13. TypeOK'
  <2>1. faults' \in 0..MaxFaults
    BY <1>2, IngestionAssumption DEF IngestionInv, TypeOK
  <2>2. pos' \in 0..MaxEvents
    BY <1>8 DEF IngestionInv, TypeOK
  <2>3. writes' \in Seq(Writes)
    BY <1>7
  <2> QED BY <1>2, <1>8, <1>12, <2>1, <2>2, <2>3 DEF IngestionInv, TypeOK, Batches, Writes
<1>14. Control'
  BY <1>8 DEF Control
<1>15. Waits'
  BY <1>7, <1>8, <1>12 DEF Waits
<1>16. Pure'
  <2>1. \A s \in x.seqs : stream[s] = x.key
    BY <1>5, <1>11 DEF IngestionInv, Pure
  <2>2. DOMAIN writes' = {}
    BY <1>7
  <2> QED BY <1>2, <1>12, <2>1, <2>2 DEF IngestionInv, Pure
<1>17. Chain(h, log, writes, pending) /\ Top(h) \in Nat /\ Top(h) <= Len(stream)
       /\ h[0] \in Nat /\ h[0] <= Top(h) /\ Seqs(log) = 1..h[0] /\ Len(stream) \in Nat
       /\ Seen(h) /\ pos <= Len(stream) /\ Len(stream) <= MaxEvents
  BY <1>1, Reach DEF Placed, Position
<1>18. \E g \in [Nat -> Nat] : g[0] = h[0] /\ g[1] <= Len(stream) /\ Chain(g, log, <<>>, pending')
  <2>1. CASE writes[1].flush
    <3>1. Chain(h, log, <<>>, <<x>>)
      BY <1>3, <1>4, <1>6, <1>11, <1>17, ChainRetry
    <3>2. h[1] <= Len(stream)
      <4>1. Top(h) = h[2] /\ h[2] = h[1]
        BY <1>3, <1>6, <1>17 DEF Top, End, Chain
      <4> QED BY <1>17, <4>1
    <3> QED BY <1>9, <2>1, <3>1, <3>2
  <2>2. CASE ~writes[1].flush
    <3>1. PICK g \in [Nat -> Nat] : g[0] = h[0] /\ g[1] = h[0] /\ Chain(g, log, <<>>, <<>>)
      BY <1>17, ChainRestart
    <3>2. h[0] <= Len(stream)
      BY <1>17, Transitive
    <3> QED BY <1>9, <2>2, <3>1, <3>2
  <2> QED BY <2>1, <2>2
<1>19. PICK g \in [Nat -> Nat] :
         g[0] = h[0] /\ g[1] <= Len(stream) /\ Chain(g, log, <<>>, pending')
  BY <1>18
<1>20. Placed(g)'
  <2>1. Chain(g, log, writes, pending)' /\ Top(g)' = g[1]
    BY <1>2, <1>7, <1>19 DEF Top, End
  <2>2. Position(g)'
    BY <1>2, <1>8, <1>17, <1>19, <2>1 DEF Position
  <2>3. Seen(g)'
    BY <1>2, <1>17, <1>19 DEF Seen, Ended
  <2> QED BY <2>1, <2>2, <2>3 DEF Placed
<1> QED BY <1>13, <1>14, <1>15, <1>16, <1>20 DEF IngestionInv

\* A restart of the API beside a remote runner.
LEMMA RestartApiInv == ASSUME IngestionInv, RestartApi PROVE IngestionInv'
<1>1. PICK h \in [Nat -> Nat] : Placed(h)
  BY DEF IngestionInv
<1>2. /\ faults < MaxFaults /\ faults' = faults + 1
      /\ consumer' = "idle" /\ pos' = 0 /\ queue' = <<>> /\ pc' = "idle"
      /\ pending' = <<>> /\ writes' = <<>> /\ UNCHANGED <<remote, stream, seen, log>>
  BY DEF RestartApi
<1>3. TypeOK'
  <2>1. faults' \in 0..MaxFaults /\ pos' \in 0..MaxEvents
    BY <1>2, IngestionAssumption DEF IngestionInv, TypeOK
  <2> QED BY <1>2, <2>1 DEF IngestionInv, TypeOK
<1>4. Control'
  BY <1>2 DEF Control
<1>5. Waits'
  BY <1>2 DEF Waits
<1>6. Pure'
  <2>1. DOMAIN writes' = {} /\ DOMAIN pending' = {}
    BY <1>2
  <2> QED BY <1>2, <2>1 DEF IngestionInv, Pure
<1>7. /\ h[0] \in Nat /\ Top(h) \in Nat /\ h[0] <= Top(h) /\ Top(h) <= Len(stream)
      /\ Len(stream) \in Nat /\ Seqs(log) = 1..h[0] /\ Seen(h) /\ Len(stream) <= MaxEvents
  BY <1>1, Reach DEF Placed
<1>8. PICK g \in [Nat -> Nat] : g[0] = h[0] /\ g[1] = h[0] /\ Chain(g, log, <<>>, <<>>)
  BY <1>7, ChainRestart
<1>9. Placed(g)'
  <2>1. Chain(g, log, writes, pending)' /\ Top(g)' = h[0]
    BY <1>2, <1>8 DEF Top, End
  <2>2. h[0] <= Len(stream) /\ 0 <= Len(stream)
    BY <1>7, Transitive
  <2>3. Position(g)'
    BY <1>2, <1>7, <2>1, <2>2 DEF Position
  <2>4. Seen(g)'
    BY <1>2, <1>7, <1>8 DEF Seen, Ended
  <2> QED BY <2>1, <2>3, <2>4 DEF Placed
<1> QED BY <1>3, <1>4, <1>5, <1>6, <1>9 DEF IngestionInv

-----------------------------------------------------------------------------
(* The consumer.                                                           *)

\* A step of the consumer alone, with nothing in the queue.
LEMMA ConsumerInv ==
  ASSUME IngestionInv, queue = <<>>, queue' = <<>>, pos' \in 0..MaxEvents, pos' <= Len(stream),
         consumer' \in {"idle", "starting", "replaying", "listening"},
         UNCHANGED <<remote, stream, pc, seen, pending, writes, log, faults>>,
         NEW h \in [Nat -> Nat], Placed(h), consumer' = "replaying" => Top(h) = pos',
         consumer' = "listening" => Top(h) = Len(stream),
         \A i \in DOMAIN writes : "consumer" \notin writes[i].waiters
  PROVE  IngestionInv'
<1>1. TypeOK'
  BY DEF IngestionInv, TypeOK
<1>2. Control'
  BY DEF IngestionInv, Control
<1>3. Waits'
  BY DEF IngestionInv, Waits
<1>4. Pure'
  BY DEF IngestionInv, Pure
<1>5. Placed(h)'
  <2>1. Chain(h, log, writes, pending)' /\ Top(h)' = Top(h)
    BY DEF Placed, Top, End
  <2>2. Position(h)'
    BY <2>1 DEF Placed, Position
  <2>3. Seen(h)'
    BY DEF Placed, Seen, Ended
  <2> QED BY <2>1, <2>2, <2>3 DEF Placed
<1> QED BY <1>1, <1>2, <1>3, <1>4, <1>5 DEF IngestionInv

LEMMA EnsureInv == ASSUME IngestionInv, EnsureRunnerEventConsumer PROVE IngestionInv'
<1>1. PICK h \in [Nat -> Nat] : Placed(h)
  BY DEF IngestionInv
<1>2. /\ consumer = "idle" /\ consumer' = "starting" /\ queue = <<>>
      /\ UNCHANGED <<remote, stream, pos, queue, pc, seen, pending, writes, log, faults>>
  BY DEF EnsureRunnerEventConsumer, IngestionInv, Control
<1>3. pos \in 0..MaxEvents /\ pos <= Len(stream)
  BY <1>1 DEF IngestionInv, TypeOK, Placed, Position
<1>4. \A i \in DOMAIN writes : "consumer" \notin writes[i].waiters
  BY <1>2 DEF IngestionInv, Waits
<1> QED BY <1>1, <1>2, <1>3, <1>4, ConsumerInv

\* Nothing is in flight when the cursor is read, so the replay starts where the
\* log ends.
LEMMA ReadCursorInv == ASSUME IngestionInv, ReadCursor PROVE IngestionInv'
<1>1. PICK h \in [Nat -> Nat] : Placed(h)
  BY DEF IngestionInv
<1>2. /\ consumer = "starting" /\ consumer' \in {"idle", "replaying"} /\ queue = <<>>
      /\ ~Waiting("consumer") /\ pending = <<>> /\ Flushing = {} /\ pos' = Cursor
      /\ UNCHANGED <<remote, stream, queue, pc, seen, pending, writes, log, faults>>
  BY DEF ReadCursor, Flushed, IngestionInv, Control
<1>3. writes = <<>>
  <2>1. \A i \in DOMAIN writes : pc = "appended"
    BY <1>2 DEF Flushing, IngestionInv, Waits
  <2>2. DOMAIN writes = {}
    BY <1>2, <2>1 DEF IngestionInv, Control
  <2>3. Len(writes) = 0
    <3>1. PICK n \in Nat : n = Len(writes) /\ DOMAIN writes = 1..n
      BY Lengths DEF IngestionInv
    <3>2. n # 0 => 1 \in 1..n
      OBVIOUS
    <3> QED BY <2>2, <3>1, <3>2
  <2> QED BY <2>3, Lengths DEF IngestionInv
<1>4. Top(h) = h[0] /\ pos' = h[0]
  <2>1. Len(<<>>) = 0 /\ 0 + 1 = 1
    OBVIOUS
  <2>2. h[1] = h[0]
    BY <1>1, <1>2, <1>3, <2>1 DEF Placed, Chain
  <2> QED BY <1>1, <1>2, <1>3, <2>1, <2>2, Reach DEF Top, End
<1>5. pos' <= Len(stream) /\ pos' \in 0..MaxEvents
  <2>1. Top(h) \in Nat /\ Top(h) <= Len(stream) /\ Len(stream) \in Nat /\ MaxEvents \in Nat
        /\ Len(stream) <= MaxEvents
    BY <1>1, Reach
  <2>2. Top(h) <= MaxEvents
    BY <2>1, Transitive
  <2> QED BY <1>4, <2>1, <2>2
<1>6. \A i \in DOMAIN writes : "consumer" \notin writes[i].waiters
  BY <1>3
<1> QED BY <1>1, <1>2, <1>4, <1>5, <1>6, ConsumerInv

\* The replay has come to the end of the buffer.
LEMMA ReplayEndsInv == ASSUME IngestionInv, ReplayEnds PROVE IngestionInv'
<1>1. PICK h \in [Nat -> Nat] : Placed(h)
  BY DEF IngestionInv
<1>2. /\ consumer = "replaying" /\ pos = Len(stream) /\ consumer' \in {"idle", "listening"}
      /\ UNCHANGED <<remote, stream, pos, queue, pc, seen, pending, writes, log, faults>>
  BY DEF ReplayEnds
<1>3. queue = <<>>
  <2>1. queue # <<>> => pos + 1 <= Len(stream)
    BY <1>2 DEF IngestionInv, Control
  <2>2. \A a, b \in Nat : ~(a + 1 <= b /\ a = b)
    OBVIOUS
  <2> QED BY <1>2, <2>1, <2>2, Lengths, Sequences DEF IngestionInv
<1>4. pos \in 0..MaxEvents /\ pos <= Len(stream) /\ Top(h) = pos
  BY <1>1, <1>2, <1>3 DEF IngestionInv, TypeOK, Placed, Position
<1>5. \A i \in DOMAIN writes : "consumer" \notin writes[i].waiters
  BY <1>2 DEF IngestionInv, Waits
<1> QED BY <1>1, <1>2, <1>3, <1>4, <1>5, ConsumerInv

\* The replay hands its next event to the queue.
LEMMA HandOverInv == ASSUME IngestionInv, HandOver PROVE IngestionInv'
<1> DEFINE x == [seq |-> pos + 1, by |-> "consumer", live |-> TRUE]
<1>1. PICK h \in [Nat -> Nat] : Placed(h)
  BY DEF IngestionInv
<1>2. /\ consumer = "replaying" /\ pos < Len(stream) /\ queue' = Append(queue, x)
      /\ \A i \in DOMAIN queue : ~(queue[i].by = "consumer" /\ queue[i].live)
      /\ UNCHANGED <<remote, stream, consumer, pos, pc, seen, pending, writes, log, faults>>
  BY DEF HandOver
<1>3. queue = <<>> /\ pc = "idle"
  <2> SUFFICES ASSUME queue # <<>> PROVE FALSE
    BY DEF IngestionInv, Control
  <2>1. Item.live /\ Item.by = "consumer"
    BY <1>2 DEF IngestionInv, Control
  <2>2. 1 \in DOMAIN queue /\ Item = queue[1]
    BY OneItem, Sequences DEF Item, IngestionInv
  <2> QED BY <1>2, <2>1, <2>2
<1>4. pos + 1 \in 1..MaxEvents /\ pos + 1 <= Len(stream) /\ pos = (pos + 1) - 1
  <2>1. PICK l \in Nat : l = Len(stream)
    BY Lengths DEF IngestionInv
  <2>2. pos \in Nat /\ MaxEvents \in Nat /\ l <= MaxEvents /\ pos < l
    BY <1>1, <1>2, <2>1, Sequences DEF IngestionInv, Placed, Position
  <2>3. pos + 1 <= l /\ pos + 1 \in 1..MaxEvents /\ pos = (pos + 1) - 1
    BY <2>2
  <2> QED BY <2>1, <2>3
<1>5. x \in Items /\ x.live /\ x.by = "consumer" /\ x.seq = pos + 1
  BY <1>4 DEF Items
<1> HIDE DEF x
<1>6. queue' = <<x>> /\ queue' \in Seq(Items) /\ Len(queue') = 1 /\ Head(queue') = x
      /\ queue' # <<>>
  BY <1>2, <1>3, <1>5, Single
<1>7. TypeOK'
  BY <1>2, <1>6 DEF IngestionInv, TypeOK, Items
<1>8. Control'
  <2>1. Item' = x
    BY <1>6 DEF Item
  <2>2. Len(queue') <= 1
    <3>1. 1 <= 1
      OBVIOUS
    <3> QED BY <1>6, <3>1
  <2> QED BY <1>2, <1>3, <1>4, <1>5, <2>1, <2>2 DEF Control
<1>9. Waits'
  BY <1>2 DEF IngestionInv, Waits
<1>10. Pure'
  BY <1>2 DEF IngestionInv, Pure
<1>11. Placed(h)'
  <2>1. Chain(h, log, writes, pending)' /\ Top(h)' = Top(h) /\ Top(h) = pos
    BY <1>1, <1>2, <1>3 DEF Placed, Position, Top, End
  <2>2. Position(h)'
    <3>1. Item'.seq = pos + 1
      BY <1>5, <1>6 DEF Item
    <3> QED BY <1>1, <1>2, <1>3, <1>4, <1>6, <2>1, <3>1 DEF Placed, Position
  <2>3. Seen(h)'
    BY <1>1, <1>2 DEF Placed, Seen, Ended
  <2> QED BY <2>1, <2>2, <2>3 DEF Placed
<1> QED BY <1>7, <1>8, <1>9, <1>10, <1>11 DEF IngestionInv

-----------------------------------------------------------------------------
(* All steps, and the theorems.                                            *)

LEMMA NextInv == ASSUME Careful, IngestionInv, [Next]_vars PROVE IngestionInv'
<1>1. CASE Next
  <2>1. ASSUME NEW e \in Emitters, NEW k \in Kinds, Emit(e, k) PROVE IngestionInv'
    BY <2>1, EmitInv DEF Careful
  <2>2. Handler => IngestionInv'
    BY ReadTurnInv, DecideInv, HandlerFlushesInv, BoundaryFlushedInv, AppendEventInv, AppendedInv
       DEF Handler
  <2>3. Consumer => IngestionInv'
    BY EnsureInv, ConsumerFlushesInv, ReadCursorInv, HandOverInv, ReplayEndsInv
       DEF Consumer, ReplayEvent, RemoteEvent
  <2>4. ReadFails \/ FlushTimerFires \/ AppendEventNow \/ WriteFails \/ RestartApi => IngestionInv'
    BY ReadFailsInv, FlushTimerFiresInv, AppendEventNowInv, WriteFailsInv, RestartApiInv
       DEF Careful
  <2> QED BY <1>1, <2>1, <2>2, <2>3, <2>4 DEF Next
<1>2. CASE UNCHANGED vars
  <2>1. TypeOK' /\ Control' /\ Waits' /\ Pure'
    BY <1>2, ZenonT(60) DEF vars, IngestionInv, TypeOK, Control, Waits, Pure, Item, Kind
  <2>2. \A h : Placed(h) => Placed(h)'
    BY <1>2 DEF vars, Placed, Position, Top, End, Seen, Ended, Item
  <2> QED BY <2>1, <2>2 DEF IngestionInv
<1> QED BY <1>1, <1>2

\* The invariant holds in every state of every execution.
LEMMA Ingestion == Careful /\ Spec => []IngestionInv
<1>1. Careful /\ IngestionInv /\ [Next]_vars => IngestionInv'
  BY NextInv
<1>2. Careful => []Careful
  <2>1. Careful => Careful'
    BY DEF Careful, OneEmitter
  <2> QED BY <2>1, PTL
<1> QED BY <1>1, <1>2, InitInv, PTL DEF Spec

\* With careful emitters every event is accepted in its turn: log, queued writes
\* and pending batch are adjacent initial parts of the stream.
THEOREM InOrder == Careful /\ Spec => []AcceptedInOrder
<1>1. IngestionInv => AcceptedInOrder
  <2> SUFFICES ASSUME IngestionInv PROVE AcceptedInOrder
    OBVIOUS
  <2> DEFINE accepted == Seqs(log) \cup Seqs(writes) \cup Seqs(pending)
  <2>1. PICK h \in [Nat -> Nat] : Placed(h)
    BY DEF IngestionInv
  <2>2. PICK n \in Nat : n = Len(writes) /\ DOMAIN writes = 1..n
    BY Lengths DEF IngestionInv
  <2>3. Chain(h, log, writes, pending)
    BY <2>1 DEF Placed
  <2>4. /\ \A i \in 0..(n + 1) : h[i] \in Nat /\ h[i] <= h[n + 1] /\ h[0] <= h[i]
        /\ h[n] \in Nat /\ h[n + 1] \in Nat
    BY <2>2, <2>3, ChainParts
  <2>5. accepted = 1..MaxOf(accepted)
    <3>1. accepted = 1..h[n + 1]
      BY <2>2, <2>3 DEF Chain
    <3> QED BY <2>4, <3>1, MaxOfInitial
  <2>6. \A s \in Seqs(log) : s \in Nat /\ s <= h[0]
    <3>1. Seqs(log) = 1..h[0] /\ h[0] \in Nat
      BY <2>3 DEF Chain
    <3> QED BY <3>1
  <2>7. \A t \in Seqs(writes) : t \in Nat /\ h[0] < t /\ t <= h[n]
    <3> TAKE t \in Seqs(writes)
    <3>1. PICK i \in 1..n : t \in writes[i].seqs
      BY <2>2 DEF Seqs
    <3>2. i - 1 \in 0..(n + 1) /\ i \in 0..(n + 1) /\ n \in 0..(n + 1) /\ i <= n
      BY <3>1
    <3>3. t \in (h[i - 1] + 1)..h[i]
      BY <2>2, <2>3, <3>1 DEF Chain
    <3>4. h[i] <= h[n]
      BY <2>2, <2>3, <3>2 DEF Chain
    <3>5. h[i - 1] \in Nat /\ h[i] \in Nat /\ h[0] <= h[i - 1] /\ h[0] \in Nat
      BY <2>4, <3>2
    <3>6. \A a, b, c, d \in Nat : \A u \in (b + 1)..c :
            a <= b /\ c <= d => u \in Nat /\ a < u /\ u <= d
      OBVIOUS
    <3> QED BY <2>4, <3>3, <3>4, <3>5, <3>6
  <2>8. \A t \in Seqs(pending) : t \in Nat /\ h[0] < t /\ h[n] < t
    <3> TAKE t \in Seqs(pending)
    <3>1. pending # <<>>
      BY SeqsEmpty
    <3>2. t \in (h[n] + 1)..h[n + 1]
      BY <2>2, <2>3, <3>1, OnePending DEF Chain
    <3>3. n \in 0..(n + 1)
      OBVIOUS
    <3>4. h[0] <= h[n] /\ h[0] \in Nat
      BY <2>4, <3>3
    <3>5. \A a, b, c \in Nat : \A u \in (b + 1)..c : a <= b => u \in Nat /\ a < u /\ b < u
      OBVIOUS
    <3> QED BY <2>4, <3>2, <3>4, <3>5
  <2>9. \A s, t \in Nat : \A a \in Nat : s <= a /\ a < t => s < t
    OBVIOUS
  <2>10. \A s \in Seqs(log), t \in Seqs(writes) \cup Seqs(pending) : s < t
    <3>1. h[0] \in Nat
      OBVIOUS
    <3> QED BY <2>6, <2>7, <2>8, <2>9, <3>1
  <2>11. \A s \in Seqs(writes), t \in Seqs(pending) : s < t
    BY <2>4, <2>7, <2>8, <2>9
  <2> QED BY <2>5, <2>10, <2>11 DEF AcceptedInOrder
<1> QED BY <1>1, Ingestion, PTL

\* A replay from the cursor misses nothing: the log has no gap below it, so what
\* the cursor has passed is in the log.
THEOREM CursorVouches == Careful /\ Spec => [](Gapless /\ Kept)
<1>1. IngestionInv => Gapless /\ Kept
  <2> SUFFICES ASSUME IngestionInv PROVE Gapless /\ Kept
    OBVIOUS
  <2>1. PICK h \in [Nat -> Nat] : Placed(h)
    BY DEF IngestionInv
  <2>2. Seqs(log) = 1..h[0] /\ Cursor = h[0]
    BY <2>1, Reach
  <2> QED BY <2>2 DEF Gapless, Kept
<1> QED BY <1>1, Ingestion, PTL

\* The log covers the stream as far as the cursor.
LEMMA CoveredIs ==
  ASSUME IngestionInv, NEW h \in [Nat -> Nat], Placed(h)
  PROVE  Log!Covered = h[0]
<1>1. PICK l \in Nat : l = Len(stream)
  BY Lengths DEF IngestionInv
<1>2. h[0] \in Nat /\ h[0] <= l
  <2>1. h[0] \in Nat /\ h[0] <= Top(h) /\ Top(h) <= l /\ Top(h) \in Nat
    BY <1>1, Reach
  <2> QED BY <2>1, Transitive
<1>3. Seqs(log) = 1..h[0]
  BY Reach
<1>4. \A m \in 0..l : 1..h[0] = 1..m <=> m = h[0]
  <2>1. \A a, b \in Nat : 1..a = 1..b => a = b
    OBVIOUS
  <2>2. \A m \in 0..l : m \in Nat
    OBVIOUS
  <2> QED BY <1>2, <2>1, <2>2
<1>5. h[0] \in 0..l
  BY <1>2
<1>6. Log!Covered = CHOOSE m \in 0..l : 1..h[0] = 1..m
  BY <1>1, <1>3 DEF Log!Covered, Seqs
<1> QED BY <1>4, <1>5, <1>6

\* A write that gets into the log records the next events of the stream.
LEMMA Records == ASSUME IngestionInv, AppendEventNow PROVE Log!Record
<1>1. PICK h \in [Nat -> Nat] : Placed(h)
  BY DEF IngestionInv
<1>2. PICK l \in Nat : l = Len(stream) /\ DOMAIN stream = 1..l
  BY Lengths DEF IngestionInv
<1>3. PICK m \in Nat : m = Len(writes) /\ DOMAIN writes = 1..m
  BY Lengths DEF IngestionInv
<1>4. writes # <<>> /\ m # 0 /\ UNCHANGED stream
  BY <1>3, Lengths DEF AppendEventNow, IngestionInv
<1>5. 1 \in DOMAIN writes /\ Head(writes) = writes[1] /\ writes[1] \in Writes
  <2>1. 1 \in 1..m
    BY <1>4
  <2> QED BY <1>3, <1>4, <2>1, Sequences, WriteIs, HeadTailProperties DEF IngestionInv
<1>6. /\ h[0] \in Nat /\ h[1] \in Nat /\ h[0] < h[1] /\ h[1] <= l
      /\ writes[1].seqs = (h[0] + 1)..h[1]
  <2>1. Chain(h, log, writes, pending)
    BY <1>1 DEF Placed
  <2>2. h[0] < h[1] /\ writes[1].seqs = (h[0] + 1)..h[1]
    <3>1. 1 - 1 = 0 /\ 1 \in 1..m
      BY <1>4
    <3> QED BY <1>3, <2>1, <3>1 DEF Chain
  <2>3. h[1] <= h[m + 1] /\ h[m + 1] \in Nat /\ h[1] \in Nat
    <3>1. 1 \in 0..(m + 1)
      OBVIOUS
    <3> QED BY <1>3, <2>1, <3>1, ChainParts
  <2>4. h[m + 1] = Top(h) /\ Top(h) <= l
    BY <1>1, <1>2, <1>3 DEF Top, End, Placed, Position
  <2>5. h[1] <= l
    BY <2>3, <2>4, Transitive
  <2> QED BY <2>2, <2>3, <2>5
<1>7. \A s \in (h[0] + 1)..h[1] : stream[s] = writes[1].key
  BY <1>5, <1>6 DEF IngestionInv, Pure
<1>8. h[0] + 1 \in (h[0] + 1)..h[1] /\ h[1] \in (h[0] + 1)..l
  BY <1>6, SMTT(30)
<1>9. h[1] > h[0] + 1 => writes[1].key \in Keys
  <2>1. \A a, b \in Nat : \A s : (a + 1)..b = {s} => ~(b > a + 1)
    <3> SUFFICES ASSUME NEW a \in Nat, NEW b \in Nat, NEW s, (a + 1)..b = {s}, b > a + 1
                 PROVE  FALSE
      OBVIOUS
    <3>1. a + 1 \in (a + 1)..b /\ b \in (a + 1)..b
      OBVIOUS
    <3> QED BY <3>1
  <2>2. writes[1].key \in Keys \/ \E s : writes[1].seqs = {s}
    BY <1>5 DEF IngestionInv, Pure
  <2> QED BY <1>6, <2>1, <2>2
<1>10. log' = Append(log, [key |-> stream[h[0] + 1], seqs |-> (h[0] + 1)..h[1]])
  BY <1>5, <1>6, <1>7, <1>8 DEF AppendEventNow
<1>11. Log!Covered = h[0]
  BY <1>1, CoveredIs
<1>12. /\ h[1] > h[0] + 1 => stream[h[0] + 1] \in Keys
       /\ \A i \in (h[0] + 1)..h[1] : stream[i] = stream[h[0] + 1]
  BY <1>7, <1>8, <1>9
<1> QED BY <1>2, <1>4, <1>8, <1>10, <1>11, <1>12 DEF Log!Record

\* The ingestion implements the log that is promised.
THEOREM Implements == Careful /\ Spec => LogSpec
<1>1. Init => Log!Init
  BY DEF Init, Log!Init
<1>2. IngestionInv /\ [Next]_vars => [Log!Next]_(Log!logVars)
  <2> SUFFICES ASSUME IngestionInv, [Next]_vars PROVE Log!Next \/ UNCHANGED <<stream, log>>
    BY DEF Log!logVars
  <2>1. ASSUME NEW e \in Emitters, NEW k \in Kinds, Emit(e, k) PROVE Log!Next
    BY <2>1 DEF Emit, Emitted, Kinds, Log!Next, Log!Emit
  <2>2. AppendEventNow => Log!Next
    BY Records DEF Log!Next
  <2>3. Handler => UNCHANGED <<stream, log>>
    BY DEF Handler, ReadTurn, Decide, HandlerFlushes, BoundaryFlushed, AppendEvent, Appended
  <2>4. Consumer => UNCHANGED <<stream, log>>
    BY DEF Consumer, EnsureRunnerEventConsumer, ConsumerFlushes, ReadCursor, ReplayEvent, RemoteEvent,
           HandOver, ReplayEnds
  <2>5. ReadFails \/ FlushTimerFires \/ WriteFails \/ RestartApi => UNCHANGED <<stream, log>>
    BY DEF ReadFails, FlushTimerFires, WriteFails, RestartApi
  <2>6. UNCHANGED vars => UNCHANGED <<stream, log>>
    BY DEF vars
  <2> QED BY <2>1, <2>2, <2>3, <2>4, <2>5, <2>6 DEF Next
<1> QED BY <1>1, <1>2, Ingestion, PTL DEF Spec, LogSpec, Log!Spec
=============================================================================
