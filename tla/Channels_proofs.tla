--------------------------- MODULE Channels_proofs ---------------------------
(***************************************************************************)
(* The safety of the channels, for any number of rows, bindings, messages, *)
(* handlers, connections and faults.  The outbox keeps what Delivery       *)
(* promises, and what OutboxSafe says of duplicates, of order and of       *)
(* wake-ups.  The Discord plugin has three memories, the inbound messages, *)
(* the health of the connection and the bindings, which share no state, so *)
(* each has an inductive invariant of its own.                             *)
(***************************************************************************)
EXTENDS Outbox, DiscordBindings, DiscordInbound, DiscordRuntime, FiniteSetTheorems, SequenceTheorems, TLAPS

-----------------------------------------------------------------------------
\* The outbox (Outbox, Delivery).

Claimed == {"hydrate", "send", "reportSent"}
Listed == {"pulled", "resolve", "claim", "reportFailed"} \cup Claimed

Busy(l) == loops[l].pc # "off"
Holds(l, m) == loops[l].pc \in Claimed \cup {"reportFailed"} /\ Head(loops[l].batch) = m
Behind(n) == n \in excused \/ row[n] \in {"sent", "failed"}

\* Of an inbox: whether it got a row, got it at most once, and got the events in order.
Got(box, m) == \E i \in DOMAIN box : box[i] = m
Once(box, m) == \A i, j \in DOMAIN box : box[i] = m /\ box[j] = m => i = j
Ordered(box, kind, except) ==
  \A i, j \in DOMAIN box :
    i < j /\ kind[box[i]] = "event" /\ kind[box[j]] = "event" /\ box[j] < box[i] => box[j] \in except

\* One loop at a time, and only while the flag says so.
Single ==
  /\ dispatching => apiUp
  /\ \A l \in Loops : Busy(l) => dispatching
  /\ \A k, l \in Loops : Busy(k) /\ Busy(l) => k = l

\* What a loop holds: rows that are claimable until their turn comes, each of them once.
Ready(l, m) == Claimable(m) \/ (row[m] = "sending" /\ Holds(l, m))
Distinct(b) == \A i, j \in DOMAIN b : b[i] = b[j] => i = j
ListOf(l, b) ==
  /\ loops[l].pc # "pulled" => b # <<>>
  /\ Distinct(b)
  /\ \A i \in DOMAIN b : Ready(l, b[i])
  /\ loops[l].pc \in Claimed => row[Head(b)] = "sending"
Lists == \A l \in Loops : loops[l].pc \in Listed => ListOf(l, loops[l].batch)

\* A row on its way has the web plugin among its targets, and reaches it before it is reported as sent.
ToWeb ==
  \A l \in Loops :
    /\ loops[l].pc \in {"claim", "hydrate", "send"} => Web \in loops[l].to
    /\ loops[l].pc \in {"send", "reportSent"} => Got(inbox[Web], Head(loops[l].batch))

\* A row that is being sent has a loop that sends it, or a fault disturbed it; so has every late send.
Attended ==
  /\ \A m \in Messages : row[m] = "sending" => m \in excused \/ \E l \in Loops : Holds(l, m)
  /\ \A s \in late : s.msg \in excused /\ row[s.msg] \in {"sending", "sent", "failed"}
  /\ \A m \in excused : row[m] # "none"

\* Rows come in order, and what has not been claimed has not been sent.
Filed ==
  /\ \A m, n \in Messages : n < m /\ row[m] # "none" => row[n] # "none"
  /\ \A m \in Messages, t \in Targets : row[m] \in {"none", "queued"} => ~Got(inbox[t], m)

\* An undisturbed row is sent to each target once.
Singly ==
  \A m \in Messages, t \in Targets : m \notin excused =>
    /\ Once(inbox[t], m)
    /\ \A l \in Loops : Holds(l, m) =>
         /\ loops[l].pc = "hydrate" => ~Got(inbox[t], m)
         /\ loops[l].pc = "send" /\ t \in loops[l].to \ loops[l].done => ~Got(inbox[t], m)

AgedList(b) ==
  \A i \in DOMAIN b, n \in Messages :
    n < b[i] /\ rowKind[b[i]] = "event" /\ rowKind[n] = "event" =>
      Behind(n) \/ \E j \in DOMAIN b : j < i /\ b[j] = n

\* Events older than one whose sending has begun are behind, those of a batch before it.
Aged ==
  /\ \A m, n \in Messages :
       n < m /\ rowKind[m] = "event" /\ rowKind[n] = "event" /\ row[m] \in {"sending", "sent", "failed"}
       => Behind(n)
  /\ \A l \in Loops : loops[l].pc \in Listed => AgedList(loops[l].batch)
  /\ \A t \in Targets : Ordered(inbox[t], rowKind, excused)

\* A loop that has found nothing to send will be asked again for what came since.
Woken ==
  /\ NoIdleBacklog
  /\ \A l \in Loops : loops[l].pc = "pulled" /\ loops[l].batch = <<>> =>
       \A m \in Messages : row[m] = "queued" => m \in wakes \/ requested

OutboxInv == OutboxTypeOK /\ Single /\ Lists /\ ToWeb /\ Attended /\ Filed /\ Singly /\ Aged /\ Woken

-----------------------------------------------------------------------------
\* Sequences.

LEMMA Rows == Messages \subseteq Nat
  BY OutboxAssumption

LEMMA Grown ==
  ASSUME NEW s \in Seq(Messages), NEW m \in Messages
  PROVE  \E k \in Nat :
           /\ k \notin DOMAIN s
           /\ DOMAIN Append(s, m) = DOMAIN s \cup {k}
           /\ Append(s, m)[k] = m
           /\ \A i \in DOMAIN s : Append(s, m)[i] = s[i] /\ i < k /\ i \in Nat
<1>1. PICK n \in Nat : n = Len(s)
  BY LenProperties
<1>2. DOMAIN s = 1..n
  BY <1>1, LenProperties
<1>3. /\ Append(s, m) \in Seq(Messages)
      /\ Len(Append(s, m)) = n + 1
      /\ \A i \in 1..n : Append(s, m)[i] = s[i]
  BY <1>1, AppendProperties
<1>4. DOMAIN Append(s, m) = 1..(n + 1)
  BY <1>3, LenProperties
<1>5. Append(s, m)[n + 1] = m
  BY <1>1, AppendProperties
<1>6. 1..(n + 1) = 1..n \cup {n + 1} /\ n + 1 \notin 1..n /\ \A i \in 1..n : i < n + 1 /\ i \in Nat
  OBVIOUS
<1> QED
  BY <1>2, <1>3, <1>4, <1>5, <1>6

\* An arrival adds the row that arrives, and keeps an inbox in order if nothing younger came before.
LEMMA Arrival ==
  ASSUME NEW s \in Seq(Messages), NEW m \in Messages
  PROVE  /\ Append(s, m) \in Seq(Messages)
         /\ \A n : Got(Append(s, m), n) <=> Got(s, n) \/ n = m
         /\ \A n : Once(s, n) /\ (n = m => ~Got(s, m)) => Once(Append(s, m), n)
         /\ \A kind, except :
              /\ Ordered(s, kind, except)
              /\ \A p : Got(s, p) /\ kind[p] = "event" /\ kind[m] = "event" /\ m < p => m \in except
              => Ordered(Append(s, m), kind, except)
<1>1. PICK k \in Nat :
           /\ k \notin DOMAIN s
           /\ DOMAIN Append(s, m) = DOMAIN s \cup {k}
           /\ Append(s, m)[k] = m
           /\ \A i \in DOMAIN s : Append(s, m)[i] = s[i] /\ i < k /\ i \in Nat
  BY Grown
<1>2. Append(s, m) \in Seq(Messages)
  BY AppendProperties
<1>3. \A n : Got(Append(s, m), n) <=> Got(s, n) \/ n = m
  BY <1>1 DEF Got
<1>4. \A n : Once(s, n) /\ (n = m => ~Got(s, m)) => Once(Append(s, m), n)
  BY <1>1 DEF Once, Got
<1>5. ASSUME NEW kind, NEW except, Ordered(s, kind, except),
             \A p : Got(s, p) /\ kind[p] = "event" /\ kind[m] = "event" /\ m < p => m \in except
      PROVE  Ordered(Append(s, m), kind, except)
  <2> SUFFICES ASSUME NEW i \in DOMAIN s \cup {k}, NEW j \in DOMAIN s \cup {k}, i < j,
                      kind[Append(s, m)[i]] = "event", kind[Append(s, m)[j]] = "event",
                      Append(s, m)[j] < Append(s, m)[i]
               PROVE  Append(s, m)[j] \in except
    BY <1>1 DEF Ordered
  <2>1. i # k
    BY <1>1
  <2>2. i \in DOMAIN s /\ Append(s, m)[i] = s[i] /\ Got(s, s[i])
    BY <2>1, <1>1 DEF Got
  <2>3. CASE j = k
    BY <2>2, <2>3, <1>1, <1>5
  <2>4. CASE j # k
    BY <2>2, <2>4, <1>1, <1>5 DEF Ordered
  <2> QED
    BY <2>3, <2>4
<1> QED
  BY <1>2, <1>3, <1>4, <1>5

\* What remains of a batch once its first row is dealt with.
LEMMA Rest ==
  ASSUME NEW b \in Seq(Messages), b # <<>>
  PROVE  /\ Head(b) \in Messages /\ Tail(b) \in Seq(Messages)
         /\ 1 \in DOMAIN b /\ b[1] = Head(b)
         /\ \A i \in DOMAIN Tail(b) : i + 1 \in DOMAIN b /\ Tail(b)[i] = b[i + 1] /\ i \in Nat \ {0}
         /\ \A i \in DOMAIN b : i \in Nat /\ (i = 1 \/ (i - 1 \in DOMAIN Tail(b) /\ Tail(b)[i - 1] = b[i]))
         /\ Len(b) # 1 => Tail(b) # <<>>
<1>1. PICK n \in Nat : n = Len(b)
  BY LenProperties
<1>2. n # 0
  BY <1>1, EmptySeq
<1>3. DOMAIN b = 1..n
  BY <1>1, LenProperties
<1>4. Head(b) \in Messages /\ Tail(b) \in Seq(Messages)
  BY HeadTailProperties
<1>5. b[1] = Head(b)
  OBVIOUS
<1>6. Len(Tail(b)) = n - 1 /\ \A i \in 1..Len(Tail(b)) : Tail(b)[i] = b[i + 1]
  BY <1>1, HeadTailProperties
<1>7. DOMAIN Tail(b) = 1..(n - 1)
  BY <1>4, <1>6, LenProperties
<1>8. \A i \in 1..(n - 1) : i + 1 \in 1..n /\ i \in Nat \ {0}
  BY <1>2
<1>9. \A i \in 1..n : i \in Nat /\ (i = 1 \/ (i - 1 \in 1..(n - 1) /\ (i - 1) + 1 = i))
  BY <1>2
<1>10. n # 1 => Tail(b) # <<>>
  <2>1. Tail(b) = <<>> => Len(Tail(b)) = 0
    BY <1>4, EmptySeq
  <2> QED
    BY <2>1, <1>6
<1>11. 1 \in DOMAIN b
  BY <1>2, <1>3
<1>12. \A i \in DOMAIN Tail(b) : i + 1 \in DOMAIN b /\ Tail(b)[i] = b[i + 1] /\ i \in Nat \ {0}
  BY <1>3, <1>6, <1>7, <1>8
<1>13. \A i \in DOMAIN b : i \in Nat /\ (i = 1 \/ (i - 1 \in DOMAIN Tail(b) /\ Tail(b)[i - 1] = b[i]))
  BY <1>3, <1>6, <1>7, <1>9
<1> QED
  BY <1>1, <1>4, <1>5, <1>10, <1>11, <1>12, <1>13

-----------------------------------------------------------------------------
\* Types.

Loop == [pc : Pcs, batch : Seq(Messages), to : SUBSET Targets, done : SUBSET Targets]

LEMMA HeadOfList ==
  ASSUME OutboxTypeOK, Lists, NEW l \in Loops, loops[l].pc \in Listed \ {"pulled"}
  PROVE  /\ loops[l].batch \in Seq(Messages) /\ loops[l].batch # <<>>
         /\ Head(loops[l].batch) \in Messages /\ Tail(loops[l].batch) \in Seq(Messages)
<1>1. loops[l].batch \in Seq(Messages) /\ loops[l].batch # <<>>
  BY DEF OutboxTypeOK, Lists, ListOf
<1> QED
  BY <1>1, Rest

\* Where a loop stands, as a record built at once.
At(pc, batch, to, done) == [pc |-> pc, batch |-> batch, to |-> to, done |-> done]

LEMMA Standing ==
  /\ Off = At("off", <<>>, {}, {})
  /\ \A r \in Loop : r = At(r.pc, r.batch, r.to, r.done)
  /\ \A p, b, t, d : /\ At(p, b, t, d).pc = p /\ At(p, b, t, d).batch = b
                     /\ At(p, b, t, d).to = t /\ At(p, b, t, d).done = d
  /\ \A p \in Pcs, b \in Seq(Messages), t, d \in SUBSET Targets : At(p, b, t, d) \in Loop
  /\ \A p, b, t, d, x : [At(p, b, t, d) EXCEPT !.pc = x] = At(x, b, t, d)
  /\ \A p, b, t, d, x : [At(p, b, t, d) EXCEPT !.batch = x] = At(p, x, t, d)
  /\ \A p, b, t, d, x : [At(p, b, t, d) EXCEPT !.to = x] = At(p, b, x, d)
  /\ \A p, b, t, d, x : [At(p, b, t, d) EXCEPT !.done = x] = At(p, b, t, x)
<1>1. Off = At("off", <<>>, {}, {})
  BY DEF At, Off
<1>2. \A r \in Loop : r = At(r.pc, r.batch, r.to, r.done)
  BY DEF At, Loop
<1>3. \A p, b, t, d : /\ At(p, b, t, d).pc = p /\ At(p, b, t, d).batch = b
                      /\ At(p, b, t, d).to = t /\ At(p, b, t, d).done = d
  BY DEF At
<1>4. \A p \in Pcs, b \in Seq(Messages), t, d \in SUBSET Targets : At(p, b, t, d) \in Loop
  BY DEF At, Loop
<1>5. \A p, b, t, d, x : [At(p, b, t, d) EXCEPT !.pc = x] = At(x, b, t, d)
  BY DEF At
<1>6. \A p, b, t, d, x : [At(p, b, t, d) EXCEPT !.batch = x] = At(p, x, t, d)
  BY DEF At
<1>7. \A p, b, t, d, x : [At(p, b, t, d) EXCEPT !.to = x] = At(p, b, x, d)
  BY DEF At
<1>8. \A p, b, t, d, x : [At(p, b, t, d) EXCEPT !.done = x] = At(p, b, t, x)
  BY DEF At
<1> QED
  BY <1>1, <1>2, <1>3, <1>4, <1>5, <1>6, <1>7, <1>8

\* The moves of a loop: it alone moves, to where At says.
Moves(l, pc, batch, to, done) == loops' = [loops EXCEPT ![l] = At(pc, batch, to, done)]

LEMMA MovesOne ==
  ASSUME loops \in [Loops -> Loop], NEW l \in Loops,
         NEW p \in Pcs, NEW b \in Seq(Messages), NEW t \in SUBSET Targets, NEW d \in SUBSET Targets,
         Moves(l, p, b, t, d)
  PROVE  /\ loops' \in [Loops -> Loop]
         /\ loops'[l].pc = p /\ loops'[l].batch = b /\ loops'[l].to = t /\ loops'[l].done = d
         /\ \A k \in Loops : k # l => loops'[k] = loops[k]
<1>1. At(p, b, t, d) \in Loop
  BY Standing
<1>2. loops' \in [Loops -> Loop] /\ loops'[l] = At(p, b, t, d) /\ \A k \in Loops : k # l => loops'[k] = loops[k]
  BY <1>1 DEF Moves
<1> QED
  BY <1>2, Standing

LEMMA LoopMoves ==
  ASSUME loops \in [Loops -> Loop], NEW l \in Loops
  PROVE  /\ \A pc : Goto(l, pc) => Moves(l, pc, loops[l].batch, loops[l].to, loops[l].done)
         /\ EndLoop(l) => Moves(l, IF requested THEN "pull" ELSE "off", <<>>, {}, {})
         /\ NextMessage(l) =>
              Moves(l, IF Len(loops[l].batch) = 1 THEN "pull" ELSE "resolve", Tail(loops[l].batch), {}, {})
<1> DEFINE here == loops[l]
<1>1. here = At(here.pc, here.batch, here.to, here.done)
  BY Standing
<1>2. ASSUME NEW pc, Goto(l, pc)
      PROVE  Moves(l, pc, here.batch, here.to, here.done)
  <2>1. loops' = [loops EXCEPT ![l] = [here EXCEPT !.pc = pc]]
    BY <1>2 DEF Goto
  <2>2. [here EXCEPT !.pc = pc] = At(pc, here.batch, here.to, here.done)
    BY <1>1, Standing
  <2> QED
    BY <2>1, <2>2 DEF Moves
<1>3. ASSUME EndLoop(l)
      PROVE  Moves(l, IF requested THEN "pull" ELSE "off", <<>>, {}, {})
  <2>1. [Off EXCEPT !.pc = "pull"] = At("pull", <<>>, {}, {})
    BY Standing
  <2> QED
    BY <2>1, <1>3, Standing DEF EndLoop, Moves
<1>4. ASSUME NextMessage(l)
      PROVE  Moves(l, IF Len(here.batch) = 1 THEN "pull" ELSE "resolve", Tail(here.batch), {}, {})
  <2> DEFINE p == IF Len(here.batch) = 1 THEN "pull" ELSE "resolve"
  <2>1. loops' = [loops EXCEPT ![l] = [[Off EXCEPT !.batch = Tail(here.batch)] EXCEPT !.pc = p]]
    BY <1>4 DEF NextMessage
  <2>2. [Off EXCEPT !.batch = Tail(here.batch)] = At("off", Tail(here.batch), {}, {})
    <3>1. Off = At("off", <<>>, {}, {})
      BY Standing
    <3>2. \A x : [At("off", <<>>, {}, {}) EXCEPT !.batch = x] = At("off", x, {}, {})
      BY Standing
    <3> QED
      BY <3>1, <3>2
  <2>3. [At("off", Tail(here.batch), {}, {}) EXCEPT !.pc = p] = At(p, Tail(here.batch), {}, {})
    BY Standing
  <2> QED
    BY <2>1, <2>2, <2>3 DEF Moves
<1> QED
  BY <1>2, <1>3, <1>4

LEMMA Dispatched ==
  ASSUME loops \in [Loops -> Loop], RequestDispatch
  PROVE  \/ dispatching /\ requested' /\ UNCHANGED <<dispatching, loops, aborted>>
         \/ \E l \in Loops : /\ ~dispatching /\ dispatching' = TRUE /\ aborted' = FALSE /\ requested' = requested
                             /\ loops[l] = Off /\ Moves(l, "pull", <<>>, {}, {})
<1>1. CASE dispatching
  BY <1>1 DEF RequestDispatch
<1>2. CASE ~dispatching
  <2>1. PICK l \in Loops : /\ loops[l] = Off /\ loops' = [loops EXCEPT ![l].pc = "pull"]
                           /\ dispatching' = TRUE /\ aborted' = FALSE /\ requested' = requested
    BY <1>2 DEF RequestDispatch
  <2>2. loops' = [loops EXCEPT ![l] = [loops[l] EXCEPT !.pc = "pull"]]
    BY <2>1
  <2>3. [loops[l] EXCEPT !.pc = "pull"] = At("pull", <<>>, {}, {})
    BY <2>1, Standing
  <2> QED
    BY <1>2, <2>1, <2>2, <2>3 DEF Moves
<1> QED
  BY <1>1, <1>2

\* The moves of the actions that set more than the place of a loop.
LEMMA OtherMoves ==
  ASSUME loops \in [Loops -> Loop], NEW l \in Loops
  PROVE  /\ Pull(l) => \E n \in 0..Limit : \E batch \in [1..n -> Messages] :
              Pulled(batch) /\ Moves(l, "pulled", batch, loops[l].to, loops[l].done)
         /\ ResolveDeliveries(l) => \E bound \in SUBSET Bindings :
              Moves(l, "claim", loops[l].batch, bound \cup {Web}, loops[l].done)
         /\ Hydrate(l) => Moves(l, IF loops[l].to \subseteq {Web} THEN "reportSent" ELSE "send",
                                loops[l].batch, loops[l].to, {Web} \cap loops[l].to)
         /\ \A t : SendSucceeds(l, t) =>
              Moves(l, IF loops[l].done \cup {t} = loops[l].to THEN "reportSent" ELSE "send",
                    loops[l].batch, loops[l].to, loops[l].done \cup {t})
<1> DEFINE here == loops[l]
<1>1. here = At(here.pc, here.batch, here.to, here.done)
  BY Standing
<1>2. ASSUME NEW x, NEW y PROVE [[here EXCEPT !.pc = x] EXCEPT !.batch = y] = At(x, y, here.to, here.done)
  <2>1. [here EXCEPT !.pc = x] = At(x, here.batch, here.to, here.done)
    BY <1>1, Standing
  <2>2. [At(x, here.batch, here.to, here.done) EXCEPT !.batch = y] = At(x, y, here.to, here.done)
    BY Standing
  <2> QED
    BY <2>1, <2>2
<1>3. ASSUME NEW x, NEW y PROVE [[here EXCEPT !.pc = x] EXCEPT !.to = y] = At(x, here.batch, y, here.done)
  <2>1. [here EXCEPT !.pc = x] = At(x, here.batch, here.to, here.done)
    BY <1>1, Standing
  <2>2. [At(x, here.batch, here.to, here.done) EXCEPT !.to = y] = At(x, here.batch, y, here.done)
    BY Standing
  <2> QED
    BY <2>1, <2>2
<1>4. ASSUME NEW x, NEW y PROVE [[here EXCEPT !.done = y] EXCEPT !.pc = x] = At(x, here.batch, here.to, y)
  <2>1. [here EXCEPT !.done = y] = At(here.pc, here.batch, here.to, y)
    BY <1>1, Standing
  <2>2. [At(here.pc, here.batch, here.to, y) EXCEPT !.pc = x] = At(x, here.batch, here.to, y)
    BY Standing
  <2> QED
    BY <2>1, <2>2
<1>5. ASSUME Pull(l)
      PROVE  \E n \in 0..Limit : \E batch \in [1..n -> Messages] :
               Pulled(batch) /\ Moves(l, "pulled", batch, here.to, here.done)
  <2>1. PICK n \in 0..Limit : \E batch \in [1..n -> Messages] :
          Pulled(batch) /\ loops' = [loops EXCEPT ![l].pc = "pulled", ![l].batch = batch]
    BY <1>5 DEF Pull
  <2>2. PICK batch \in [1..n -> Messages] :
          Pulled(batch) /\ loops' = [loops EXCEPT ![l].pc = "pulled", ![l].batch = batch]
    BY <2>1
  <2>3. loops' = [loops EXCEPT ![l] = [[here EXCEPT !.pc = "pulled"] EXCEPT !.batch = batch]]
    BY <2>2
  <2>4. Moves(l, "pulled", batch, here.to, here.done)
    BY <2>3, <1>2 DEF Moves
  <2> QED
    BY <2>2, <2>4
<1>6. ASSUME ResolveDeliveries(l)
      PROVE  \E bound \in SUBSET Bindings : Moves(l, "claim", here.batch, bound \cup {Web}, here.done)
  <2>1. PICK bound \in SUBSET Bindings : loops' = [loops EXCEPT ![l].pc = "claim", ![l].to = bound \cup {Web}]
    BY <1>6 DEF ResolveDeliveries
  <2>2. loops' = [loops EXCEPT ![l] = [[here EXCEPT !.pc = "claim"] EXCEPT !.to = bound \cup {Web}]]
    BY <2>1
  <2> QED
    BY <2>2, <1>3 DEF Moves
<1>7. ASSUME Hydrate(l)
      PROVE  Moves(l, IF here.to \subseteq {Web} THEN "reportSent" ELSE "send", here.batch, here.to, {Web} \cap here.to)
  <2> DEFINE p == IF here.to \subseteq {Web} THEN "reportSent" ELSE "send"
             d == {Web} \cap here.to
  <2>1. loops' = [loops EXCEPT ![l] = [[here EXCEPT !.done = d] EXCEPT !.pc = p]]
    BY <1>7 DEF Hydrate
  <2> HIDE DEF p, d
  <2>2. Moves(l, p, here.batch, here.to, d)
    BY <2>1, <1>4 DEF Moves
  <2> QED
    BY <2>2 DEF p, d
<1>8. ASSUME NEW t, SendSucceeds(l, t)
      PROVE  Moves(l, IF here.done \cup {t} = here.to THEN "reportSent" ELSE "send",
                   here.batch, here.to, here.done \cup {t})
  <2> DEFINE d == here.done \cup {t}
             p == IF d = here.to THEN "reportSent" ELSE "send"
  <2>1. loops' = [loops EXCEPT ![l] = [[here EXCEPT !.done = d] EXCEPT !.pc = p]]
    BY <1>8 DEF SendSucceeds
  <2> HIDE DEF p, d
  <2>2. Moves(l, p, here.batch, here.to, d)
    BY <2>1, <1>4 DEF Moves
  <2> QED
    BY <2>2 DEF p, d
<1> QED
  BY <1>5, <1>6, <1>7, <1>8

LEMMA LoopTypes == OutboxTypeOK <=>
  /\ loops \in [Loops -> Loop]
  /\ row \in [Messages -> {"none", "queued", "sending", "sent", "failed"}]
  /\ rowKind \in [Messages -> {"event", "other"}]
  /\ lease \in [Messages -> {"none", "held", "expired"}]
  /\ apiUp \in BOOLEAN /\ dispatching \in BOOLEAN /\ requested \in BOOLEAN
  /\ wakes \subseteq Messages /\ excused \subseteq Messages
  /\ late \subseteq [msg : Messages, to : Targets]
  /\ inbox \in [Targets -> Seq(Messages)]
  /\ outboxFaults \in 0..MaxOutboxFaults /\ aborted \in BOOLEAN
  BY DEF OutboxTypeOK, Loop

LEMMA Strings ==
  /\ Pcs = {"off", "pull", "pulled", "resolve", "claim", "hydrate", "send", "reportSent", "reportFailed"}
  /\ Web \in Targets /\ Bindings \subseteq Targets
  BY DEF Pcs, Targets

\* A pull finds a list of rows.
LEMMA PulledRows ==
  ASSUME NEW n \in 0..Limit, NEW batch \in [1..n -> Messages]
  PROVE  batch \in Seq(Messages) /\ DOMAIN batch = 1..n /\ n \in Nat /\ Len(batch) = n /\ (batch = <<>> <=> n = 0)
<1>1. n \in Nat
  BY OutboxAssumption
<1>2. batch \in Seq(Messages)
  BY <1>1, IsASeq
<1>3. Len(batch) = n
  BY <1>1, <1>2, LenProperties
<1> QED
  BY <1>1, <1>2, <1>3, EmptySeq

\* Every step of a loop moves it to a loop.
LEMMA EachMoves ==
  ASSUME OutboxTypeOK, Lists, NEW l \in Loops, LoopStep(l)
  PROVE  \E p \in Pcs, b \in Seq(Messages), t, d \in SUBSET Targets : Moves(l, p, b, t, d)
<1> DEFINE here == loops[l]
           Good == \E p \in Pcs, b \in Seq(Messages), t, d \in SUBSET Targets : Moves(l, p, b, t, d)
<1>1. loops \in [Loops -> Loop]
  BY LoopTypes
<1>2. here.batch \in Seq(Messages) /\ here.to \in SUBSET Targets /\ here.done \in SUBSET Targets /\ here.pc \in Pcs
  BY <1>1 DEF Loop
<1>3. {} \in SUBSET Targets /\ <<>> \in Seq(Messages)
  BY EmptySeq
<1>4. ASSUME EndLoop(l) PROVE Good
  <2>1. (IF requested THEN "pull" ELSE "off") \in Pcs
    BY Strings
  <2>2. Moves(l, IF requested THEN "pull" ELSE "off", <<>>, {}, {})
    BY <1>1, <1>4, LoopMoves
  <2> QED
    BY <1>3, <2>1, <2>2
<1>5. ASSUME NextMessage(l), here.pc \in Listed \ {"pulled"} PROVE Good
  <2>1. Tail(here.batch) \in Seq(Messages)
    BY <1>5, HeadOfList
  <2>2. (IF Len(here.batch) = 1 THEN "pull" ELSE "resolve") \in Pcs
    BY Strings
  <2>3. Moves(l, IF Len(here.batch) = 1 THEN "pull" ELSE "resolve", Tail(here.batch), {}, {})
    BY <1>1, <1>5, LoopMoves
  <2> QED
    BY <1>3, <2>1, <2>2, <2>3
<1>6. ASSUME NEW p \in Pcs, Goto(l, p) PROVE Good
  BY <1>1, <1>2, <1>6, LoopMoves
<1> HIDE DEF Good
<1>7. Pull(l) => Good
  <2> SUFFICES ASSUME Pull(l) PROVE Good
    OBVIOUS
  <2>1. PICK n \in 0..Limit : \E batch \in [1..n -> Messages] :
              Pulled(batch) /\ Moves(l, "pulled", batch, loops[l].to, loops[l].done)
    BY <1>1, OtherMoves
  <2>2. PICK batch \in [1..n -> Messages] : Moves(l, "pulled", batch, loops[l].to, loops[l].done)
    BY <2>1
  <2>3. batch \in Seq(Messages) /\ "pulled" \in Pcs
    BY PulledRows, Strings
  <2> QED
    BY <1>2, <2>2, <2>3 DEF Good
<1>8. Batch(l) => Good
  BY <1>4, <1>6, Strings DEF Batch
<1>9. LoopFails(l) => Good
  BY <1>4 DEF LoopFails
<1>10. ResolveDeliveries(l) => Good
  <2> SUFFICES ASSUME ResolveDeliveries(l) PROVE Good
    OBVIOUS
  <2>1. PICK bound \in SUBSET Bindings : Moves(l, "claim", loops[l].batch, bound \cup {Web}, loops[l].done)
    BY <1>1, OtherMoves
  <2>2. bound \cup {Web} \in SUBSET Targets /\ "claim" \in Pcs
    BY Strings
  <2> QED
    BY <1>2, <2>1, <2>2 DEF Good
<1>11. Claim(l) => Good
  BY <1>5, <1>6, Strings DEF Claim, Listed
<1>12. Hydrate(l) => Good
  <2> SUFFICES ASSUME Hydrate(l) PROVE Good
    OBVIOUS
  <2>1. Moves(l, IF loops[l].to \subseteq {Web} THEN "reportSent" ELSE "send",
                                loops[l].batch, loops[l].to, {Web} \cap loops[l].to)
    BY <1>1, OtherMoves
  <2>2. (IF loops[l].to \subseteq {Web} THEN "reportSent" ELSE "send") \in Pcs /\ {Web} \cap loops[l].to \in SUBSET Targets
    BY <1>2, Strings
  <2> QED
    BY <1>2, <2>1, <2>2 DEF Good
<1>13. DispatchFails(l) => Good
  BY <1>6, Strings DEF DispatchFails
<1>14. ASSUME NEW t \in Targets, SendSucceeds(l, t) PROVE Good
  <2>1. Moves(l, IF loops[l].done \cup {t} = loops[l].to THEN "reportSent" ELSE "send",
                    loops[l].batch, loops[l].to, loops[l].done \cup {t})
    BY <1>1, <1>14, OtherMoves
  <2>2. (IF loops[l].done \cup {t} = loops[l].to THEN "reportSent" ELSE "send") \in Pcs
    BY Strings
  <2>3. loops[l].done \cup {t} \in SUBSET Targets
    BY <1>2
  <2> QED
    BY <1>2, <2>1, <2>2, <2>3 DEF Good
<1>15. ASSUME NEW t \in Targets, SendFails(l, t) PROVE Good
  BY <1>6, <1>15, Strings DEF SendFails
<1>16. ReportSent(l) => Good
  BY <1>5 DEF ReportSent, Listed, Claimed
<1>17. ReportFailed(l) => Good
  BY <1>5 DEF ReportFailed, Listed
<1>18. ReportFailedFails(l) => Good
  BY <1>5 DEF ReportFailedFails, Listed
<1>19. Good
  BY <1>7, <1>8, <1>9, <1>10, <1>11, <1>12, <1>13, <1>14, <1>15, <1>16, <1>17, <1>18 DEF LoopStep, Send
<1> QED
  BY <1>19 DEF Good

LEMMA StepsOfBusy ==
  ASSUME NEW l \in Loops, LoopStep(l)
  PROVE  Busy(l)
  BY DEF LoopStep, Busy, Pull, Batch, LoopFails, ResolveDeliveries, Claim, Hydrate, DispatchFails, Send,
         SendSucceeds, SendFails, ReportSent, ReportFailed, ReportFailedFails

LEMMA TypesKept ==
  ASSUME OutboxTypeOK, Lists, [OutboxNext]_outboxVars
  PROVE  OutboxTypeOK'
<1>1. loops \in [Loops -> Loop]
  BY LoopTypes
<1> DEFINE LoopsOK == loops' \in [Loops -> Loop]
<1>2. ASSUME NEW l \in Loops, LoopStep(l) PROVE LoopsOK
  BY <1>1, <1>2, EachMoves, MovesOne
<1>3. ASSUME RequestDispatch PROVE LoopsOK /\ dispatching' \in BOOLEAN /\ requested' \in BOOLEAN /\ aborted' \in BOOLEAN
  <2>1. CASE UNCHANGED loops
    BY <1>1, <1>3, <2>1, Dispatched DEF OutboxTypeOK
  <2>2. ASSUME NEW l \in Loops, Moves(l, "pull", <<>>, {}, {}) PROVE LoopsOK
    <3>1. "pull" \in Pcs /\ <<>> \in Seq(Messages) /\ {} \in SUBSET Targets
      BY Strings, EmptySeq
    <3> QED
      BY <1>1, <2>2, <3>1, MovesOne
  <2> QED
    BY <1>1, <1>3, <2>1, <2>2, Dispatched DEF OutboxTypeOK
<1> HIDE DEF LoopsOK
<1>4. ASSUME OutboxFault PROVE outboxFaults' \in 0..MaxOutboxFaults
  BY <1>4, OutboxAssumption DEF OutboxFault, OutboxTypeOK
<1>5. ASSUME NEW t \in Targets, NEW m \in Messages, inbox' = [inbox EXCEPT ![t] = Append(@, m)]
      PROVE  inbox' \in [Targets -> Seq(Messages)]
  BY <1>5, Arrival DEF OutboxTypeOK
<1>6. ASSUME NEW m \in Messages, Enqueue(m) PROVE OutboxTypeOK'
  BY <1>6 DEF Enqueue, OutboxTypeOK
<1>7. ASSUME NEW m \in Messages, PublishWake(m) PROVE OutboxTypeOK'
  BY <1>3, <1>7, LoopTypes DEF PublishWake, OutboxTypeOK, rows, Loop, LoopsOK
<1>8. ASSUME NEW m \in Messages, LeaseExpires(m) PROVE OutboxTypeOK'
  BY <1>8 DEF LeaseExpires, OutboxTypeOK
<1>9. ASSUME NEW s \in late, LateSend(s) PROVE OutboxTypeOK'
  <2>1. s.msg \in Messages /\ s.to \in Targets
    BY DEF OutboxTypeOK
  <2>2. inbox' = inbox \/ inbox' = [inbox EXCEPT ![s.to] = Append(@, s.msg)]
    BY <1>9 DEF LateSend
  <2>3. inbox' \in [Targets -> Seq(Messages)]
    BY <1>5, <2>1, <2>2 DEF OutboxTypeOK
  <2> QED
    BY <1>9, <2>3 DEF LateSend, OutboxTypeOK, rows
<1>10. ASSUME Poll PROVE OutboxTypeOK'
  BY <1>3, <1>10 DEF Poll, OutboxTypeOK, rows, Loop, LoopsOK
<1>11. ASSUME Boot PROVE OutboxTypeOK'
  BY <1>3, <1>11 DEF Boot, OutboxTypeOK, rows, Loop, LoopsOK
<1>12. ASSUME Crash PROVE OutboxTypeOK'
  <2> DEFINE claimed == {l \in Loops : loops[l].pc \in {"hydrate", "send", "reportSent", "reportFailed"}}
             sending == {l \in Loops : loops[l].pc = "send"}
  <2>1. \A l \in claimed : Head(loops[l].batch) \in Messages
    BY HeadOfList DEF Listed, Claimed
  <2>2. excused' \subseteq Messages
    BY <1>12, <2>1 DEF Crash, OutboxTypeOK
  <2>3. \A l \in sending : [msg : {Head(loops[l].batch)}, to : loops[l].to \ loops[l].done] \subseteq [msg : Messages, to : Targets]
    BY <1>1, <2>1 DEF Loop
  <2>4. late' \subseteq [msg : Messages, to : Targets]
    BY <1>12, <2>3 DEF Crash, OutboxTypeOK
  <2>5. LoopsOK
    <3>1. Off \in Loop
      BY Standing, Strings, EmptySeq
    <3> QED
      BY <1>12, <3>1 DEF Crash, LoopsOK
  <2> QED
    BY <1>4, <1>12, <2>2, <2>4, <2>5 DEF Crash, OutboxTypeOK, rows, Loop, LoopsOK
<1>13. ASSUME NEW l \in Loops, LoopStep(l) PROVE OutboxTypeOK'
  <2> DEFINE m == Head(loops[l].batch)
  <2>1. LoopsOK
    BY <1>2, <1>13
  <2>2. loops[l].pc \in Listed \ {"pulled"} => m \in Messages
    BY HeadOfList
  <2> HIDE DEF m
  <2>3. CASE Pull(l)
    BY <2>1, <2>3 DEF Pull, OutboxTypeOK, rows, Loop, LoopsOK
  <2>4. CASE Batch(l)
    BY <2>1, <2>4 DEF Batch, EndLoop, OutboxTypeOK, rows, Loop, LoopsOK
  <2>5. CASE LoopFails(l)
    BY <2>1, <2>5, <1>4 DEF LoopFails, EndLoop, OutboxTypeOK, rows, Loop, LoopsOK
  <2>6. CASE ResolveDeliveries(l)
    BY <2>1, <2>6 DEF ResolveDeliveries, OutboxTypeOK, rows, Loop, LoopsOK
  <2>7. CASE Claim(l)
    <3>1. m \in Messages
      BY <2>2, <2>7 DEF Claim, Listed
    <3>2. row' = row \/ row' = [row EXCEPT ![m] = "sending"]
      BY <2>7 DEF Claim, m
    <3>3. lease' = lease \/ lease' = [lease EXCEPT ![m] = "held"]
      BY <2>7 DEF Claim, m
    <3>4. UNCHANGED <<rowKind, apiUp, dispatching, requested, wakes, late, inbox, outboxFaults, aborted, excused>>
      BY <2>7 DEF Claim
    <3> QED
      BY <2>1, <3>1, <3>2, <3>3, <3>4 DEF OutboxTypeOK, Loop, LoopsOK
  <2>8. CASE Hydrate(l)
    <3>1. m \in Messages
      BY <2>2, <2>8 DEF Hydrate, Listed, Claimed
    <3>2. inbox' = [t \in Targets |-> IF t = Web /\ t \in loops[l].to THEN Append(inbox[t], m) ELSE inbox[t]]
      BY <2>8 DEF Hydrate, m
    <3>3. inbox' \in [Targets -> Seq(Messages)]
      BY <3>1, <3>2, Arrival DEF OutboxTypeOK
    <3> QED
      BY <2>1, <2>8, <3>3 DEF Hydrate, OutboxTypeOK, rows, Loop, LoopsOK
  <2>9. CASE DispatchFails(l)
    BY <2>1, <2>9, <1>4 DEF DispatchFails, OutboxTypeOK, rows, Loop, LoopsOK
  <2>10. ASSUME NEW t \in Targets, SendSucceeds(l, t) PROVE OutboxTypeOK'
    <3>1. m \in Messages
      BY <2>2, <2>10 DEF SendSucceeds, Listed, Claimed
    <3>2. inbox' \in [Targets -> Seq(Messages)]
      BY <1>5, <2>10, <3>1 DEF SendSucceeds, m
    <3> QED
      BY <2>1, <2>10, <3>2 DEF SendSucceeds, OutboxTypeOK, rows, Loop, LoopsOK
  <2>11. ASSUME NEW t \in Targets, SendFails(l, t) PROVE OutboxTypeOK'
    <3>1. m \in Messages
      BY <2>2, <2>11 DEF SendFails, Listed, Claimed
    <3>2. inbox' = inbox \/ inbox' = [inbox EXCEPT ![t] = Append(@, m)]
      BY <2>11 DEF SendFails, m
    <3>3. inbox' \in [Targets -> Seq(Messages)]
      BY <1>5, <3>1, <3>2 DEF OutboxTypeOK
    <3>4. [msg : {m}, to : (loops[l].to \ loops[l].done) \ {t}] \subseteq [msg : Messages, to : Targets]
      BY <1>1, <3>1 DEF Loop
    <3>5. late' \subseteq [msg : Messages, to : Targets] /\ excused' \subseteq Messages
      BY <2>11, <3>1, <3>4 DEF SendFails, OutboxTypeOK, m
    <3> QED
      BY <1>4, <2>1, <2>11, <3>3, <3>5 DEF SendFails, OutboxTypeOK, rows, Loop, LoopsOK
  <2>12. CASE ReportSent(l)
    <3>1. m \in Messages
      BY <2>2, <2>12 DEF ReportSent, Listed, Claimed
    <3>2. row' = [row EXCEPT ![m] = "sent"] /\ lease' = [lease EXCEPT ![m] = "none"]
      BY <2>12 DEF ReportSent, m
    <3> QED
      BY <2>1, <2>12, <3>1, <3>2 DEF ReportSent, OutboxTypeOK, Loop, LoopsOK
  <2>13. CASE ReportFailed(l)
    <3>1. m \in Messages
      BY <2>2, <2>13 DEF ReportFailed, Listed, Claimed
    <3>2. row' = [row EXCEPT ![m] = "failed"] /\ lease' = [lease EXCEPT ![m] = "none"]
      BY <2>13 DEF ReportFailed, m
    <3> QED
      BY <2>1, <2>13, <3>1, <3>2 DEF ReportFailed, OutboxTypeOK, Loop, LoopsOK
  <2>14. CASE ReportFailedFails(l)
    <3>1. m \in Messages
      BY <2>2, <2>14 DEF ReportFailedFails, Listed, Claimed
    <3> QED
      BY <2>1, <2>14, <3>1 DEF ReportFailedFails, OutboxTypeOK, rows, Loop, LoopsOK, m
  <2> QED
    BY <1>13, <2>3, <2>4, <2>5, <2>6, <2>7, <2>8, <2>9, <2>10, <2>11, <2>12, <2>13, <2>14 DEF LoopStep, Send
<1>14. CASE UNCHANGED outboxVars
  BY <1>14 DEF outboxVars, rows, OutboxTypeOK
<1> QED
  BY <1>6, <1>7, <1>8, <1>9, <1>10, <1>11, <1>12, <1>13, <1>14 DEF OutboxNext

-----------------------------------------------------------------------------
\* Where each step leaves its loop.

AfterRow(l) == IF Len(loops[l].batch) = 1 THEN "pull" ELSE "resolve"

LEMMA Lands ==
  ASSUME OutboxTypeOK, Lists, NEW l \in Loops
  PROVE  /\ Pull(l) => /\ loops'[l].pc = "pulled" /\ Pulled(loops'[l].batch)
                       /\ \E n \in 0..Limit : loops'[l].batch \in [1..n -> Messages]
         /\ EndLoop(l) => loops'[l].pc = IF requested THEN "pull" ELSE "off"
         /\ \A pc \in Pcs : Goto(l, pc) =>
              /\ loops'[l].pc = pc /\ loops'[l].batch = loops[l].batch
              /\ loops'[l].to = loops[l].to /\ loops'[l].done = loops[l].done
         /\ NextMessage(l) /\ loops[l].pc \in Listed \ {"pulled"} =>
              loops'[l].pc = AfterRow(l) /\ loops'[l].batch = Tail(loops[l].batch)
         /\ ResolveDeliveries(l) =>
              loops'[l].pc = "claim" /\ loops'[l].batch = loops[l].batch /\ Web \in loops'[l].to
         /\ Hydrate(l) =>
              /\ loops'[l].pc = IF loops[l].to \subseteq {Web} THEN "reportSent" ELSE "send"
              /\ loops'[l].batch = loops[l].batch /\ loops'[l].to = loops[l].to
              /\ loops'[l].done = {Web} \cap loops[l].to
         /\ \A t \in Targets : SendSucceeds(l, t) =>
              /\ loops'[l].pc = IF loops[l].done \cup {t} = loops[l].to THEN "reportSent" ELSE "send"
              /\ loops'[l].batch = loops[l].batch /\ loops'[l].to = loops[l].to
              /\ loops'[l].done = loops[l].done \cup {t}
<1> DEFINE here == loops[l]
<1>1. loops \in [Loops -> Loop]
  BY LoopTypes
<1>2. here.batch \in Seq(Messages) /\ here.to \in SUBSET Targets /\ here.done \in SUBSET Targets /\ here.pc \in Pcs
  BY <1>1 DEF Loop
<1>3. {} \in SUBSET Targets /\ <<>> \in Seq(Messages)
  BY EmptySeq
<1>4. ASSUME EndLoop(l) PROVE loops'[l].pc = IF requested THEN "pull" ELSE "off"
  <2>1. (IF requested THEN "pull" ELSE "off") \in Pcs
    BY Strings
  <2>2. Moves(l, IF requested THEN "pull" ELSE "off", <<>>, {}, {})
    BY <1>1, <1>4, LoopMoves
  <2> QED
    BY <1>1, <1>3, <2>1, <2>2, MovesOne
<1>5. ASSUME NextMessage(l), here.pc \in Listed \ {"pulled"}
      PROVE  loops'[l].pc = AfterRow(l) /\ loops'[l].batch = Tail(here.batch)
  <2>1. Tail(here.batch) \in Seq(Messages)
    BY <1>5, HeadOfList
  <2>2. AfterRow(l) \in Pcs
    BY Strings DEF AfterRow
  <2>3. Moves(l, AfterRow(l), Tail(here.batch), {}, {})
    BY <1>1, <1>5, LoopMoves DEF AfterRow
  <2> DEFINE p == AfterRow(l)
             b == Tail(here.batch)
  <2>4. p \in Pcs /\ b \in Seq(Messages) /\ Moves(l, p, b, {}, {})
    BY <2>1, <2>2, <2>3
  <2> HIDE DEF p, b
  <2>5. loops'[l].pc = p /\ loops'[l].batch = b
    BY <1>1, <1>3, <2>4, MovesOne
  <2> QED
    BY <2>5 DEF p, b
<1>6. ASSUME NEW p \in Pcs, Goto(l, p)
      PROVE  loops'[l].pc = p /\ loops'[l].batch = here.batch /\ loops'[l].to = here.to /\ loops'[l].done = here.done
  BY <1>1, <1>2, <1>6, LoopMoves, MovesOne
<1>7. ASSUME Pull(l)
      PROVE  /\ loops'[l].pc = "pulled" /\ Pulled(loops'[l].batch)
             /\ \E n \in 0..Limit : loops'[l].batch \in [1..n -> Messages]
  <2>1. PICK n \in 0..Limit : \E batch \in [1..n -> Messages] :
              Pulled(batch) /\ Moves(l, "pulled", batch, here.to, here.done)
    BY <1>1, <1>7, OtherMoves
  <2>2. PICK batch \in [1..n -> Messages] : Pulled(batch) /\ Moves(l, "pulled", batch, here.to, here.done)
    BY <2>1
  <2>3. batch \in Seq(Messages) /\ "pulled" \in Pcs
    BY PulledRows, Strings
  <2>4. loops'[l].pc = "pulled" /\ loops'[l].batch = batch
    BY <1>1, <1>2, <2>2, <2>3, MovesOne
  <2> QED
    BY <2>2, <2>4
<1>8. ASSUME ResolveDeliveries(l)
      PROVE  loops'[l].pc = "claim" /\ loops'[l].batch = here.batch /\ Web \in loops'[l].to
  <2>1. PICK bound \in SUBSET Bindings : Moves(l, "claim", here.batch, bound \cup {Web}, here.done)
    BY <1>1, <1>8, OtherMoves
  <2>2. bound \cup {Web} \in SUBSET Targets /\ "claim" \in Pcs
    BY Strings
  <2>3. loops'[l].pc = "claim" /\ loops'[l].batch = here.batch /\ loops'[l].to = bound \cup {Web}
    BY <1>1, <1>2, <2>1, <2>2, MovesOne
  <2> QED
    BY <2>3
<1>9. ASSUME Hydrate(l)
      PROVE  /\ loops'[l].pc = IF here.to \subseteq {Web} THEN "reportSent" ELSE "send"
             /\ loops'[l].batch = here.batch /\ loops'[l].to = here.to /\ loops'[l].done = {Web} \cap here.to
  <2> DEFINE p == IF here.to \subseteq {Web} THEN "reportSent" ELSE "send"
  <2>1. Moves(l, p, here.batch, here.to, {Web} \cap here.to)
    BY <1>1, <1>9, OtherMoves
  <2>2. p \in Pcs /\ {Web} \cap here.to \in SUBSET Targets
    BY <1>2, Strings
  <2> QED
    BY <1>1, <1>2, <2>1, <2>2, MovesOne
<1>10. ASSUME NEW t \in Targets, SendSucceeds(l, t)
      PROVE  /\ loops'[l].pc = IF here.done \cup {t} = here.to THEN "reportSent" ELSE "send"
             /\ loops'[l].batch = here.batch /\ loops'[l].to = here.to /\ loops'[l].done = here.done \cup {t}
  <2> DEFINE p == IF here.done \cup {t} = here.to THEN "reportSent" ELSE "send"
  <2>1. Moves(l, p, here.batch, here.to, here.done \cup {t})
    BY <1>1, <1>10, OtherMoves
  <2>2. p \in Pcs /\ here.done \cup {t} \in SUBSET Targets
    BY <1>2, Strings
  <2> QED
    BY <1>1, <1>2, <2>1, <2>2, MovesOne
<1> QED
  BY <1>4, <1>5, <1>6, <1>7, <1>8, <1>9, <1>10

\* While a loop moves the others are off.
LEMMA Others ==
  ASSUME OutboxTypeOK, Lists, Single, NEW l \in Loops, LoopStep(l)
  PROVE  \A k \in Loops : k # l => loops[k].pc = "off" /\ loops'[k].pc = "off"
<1>1. \A k \in Loops : k # l => loops[k].pc = "off"
  BY StepsOfBusy DEF Single, Busy
<1>2. PICK p \in Pcs, b \in Seq(Messages), t \in SUBSET Targets, d \in SUBSET Targets : Moves(l, p, b, t, d)
  BY EachMoves
<1>3. loops \in [Loops -> Loop]
  BY LoopTypes
<1>4. \A k \in Loops : k # l => loops'[k] = loops[k]
  BY <1>2, <1>3, MovesOne
<1> QED
  BY <1>1, <1>4

\* A dispatch that is asked for starts one loop, at the pull, or is noted.
LEMMA Asked ==
  ASSUME OutboxTypeOK, Lists, Single, RequestDispatch
  PROVE  \/ dispatching /\ requested' /\ UNCHANGED <<dispatching, loops, aborted>>
         \/ /\ ~dispatching /\ dispatching'
            /\ \A k \in Loops : loops[k].pc = "off"
            /\ \E l \in Loops : /\ loops'[l].pc = "pull"
                                /\ \A k \in Loops : k # l => loops'[k].pc = "off"
<1>1. loops \in [Loops -> Loop]
  BY LoopTypes
<1>2. CASE dispatching
  BY <1>1, <1>2, Dispatched
<1>3. CASE ~dispatching
  <2>1. PICK l \in Loops : dispatching' = TRUE /\ Moves(l, "pull", <<>>, {}, {})
    BY <1>1, <1>3, Dispatched
  <2>2. \A k \in Loops : loops[k].pc = "off"
    BY <1>3 DEF Single, Busy
  <2>3. "pull" \in Pcs /\ <<>> \in Seq(Messages) /\ {} \in SUBSET Targets
    BY Strings, EmptySeq
  <2>4. loops'[l].pc = "pull" /\ \A k \in Loops : k # l => loops'[k] = loops[k]
    BY <1>1, <2>1, <2>3, MovesOne
  <2> QED
    BY <1>3, <2>1, <2>2, <2>4
<1> QED
  BY <1>2, <1>3

LEMMA LoopStepFlags ==
  ASSUME NEW l \in Loops, LoopStep(l)
  PROVE  apiUp' = apiUp /\ (EndLoop(l) \/ UNCHANGED <<dispatching, requested>>)
  BY DEF LoopStep, Pull, Batch, LoopFails, ResolveDeliveries, Claim, Hydrate, DispatchFails, Send, SendSucceeds, SendFails,
         ReportSent, ReportFailed, ReportFailedFails, rows

LEMMA SingleKept ==
  ASSUME OutboxTypeOK, Lists, Single, [OutboxNext]_outboxVars
  PROVE  Single'
<1>1. ASSUME UNCHANGED <<apiUp, dispatching, loops>> PROVE Single'
  BY <1>1 DEF Single, Busy
<1>2. ASSUME NEW l \in Loops, LoopStep(l) PROVE Single'
  <2>1. \A k \in Loops : k # l => loops'[k].pc = "off"
    BY <1>2, Others
  <2>2. Busy(l) /\ dispatching /\ apiUp'
    BY <1>2, StepsOfBusy, LoopStepFlags DEF Single
  <2>3. dispatching' \/ loops'[l].pc = "off"
    <3>1. CASE EndLoop(l)
      BY <3>1, Lands DEF EndLoop
    <3> QED
      BY <1>2, <2>2, <3>1, LoopStepFlags
  <2> QED
    BY <2>1, <2>2, <2>3 DEF Single, Busy
<1>3. ASSUME RequestDispatch, apiUp' PROVE Single'
  <2>1. CASE UNCHANGED loops /\ dispatching /\ UNCHANGED dispatching
    BY <1>3, <2>1 DEF Single, Busy
  <2>2. ASSUME NEW l \in Loops, dispatching', \A k \in Loops : k # l => loops'[k].pc = "off" PROVE Single'
    BY <1>3, <2>2 DEF Single, Busy
  <2> QED
    BY <1>3, <2>1, <2>2, Asked
<1>4. ASSUME NEW m \in Messages, Enqueue(m) PROVE Single'
  BY <1>1, <1>4 DEF Enqueue
<1>5. ASSUME NEW m \in Messages, PublishWake(m) PROVE Single'
  BY <1>3, <1>5 DEF PublishWake
<1>6. ASSUME NEW m \in Messages, LeaseExpires(m) PROVE Single'
  BY <1>1, <1>6 DEF LeaseExpires
<1>7. ASSUME NEW s \in late, LateSend(s) PROVE Single'
  BY <1>1, <1>7 DEF LateSend
<1>8. ASSUME Poll PROVE Single'
  BY <1>3, <1>8 DEF Poll
<1>9. ASSUME Boot PROVE Single'
  BY <1>3, <1>9 DEF Boot
<1>10. ASSUME Crash PROVE Single'
  BY <1>10, Standing DEF Crash, Single, Busy
<1>11. CASE UNCHANGED outboxVars
  BY <1>1, <1>11 DEF outboxVars
<1> QED
  BY <1>2, <1>4, <1>5, <1>6, <1>7, <1>8, <1>9, <1>10, <1>11 DEF OutboxNext

-----------------------------------------------------------------------------
\* The lists of the loops.

\* While the rows stay claimable and no loop gets a list, the lists are kept.
LEMMA ListsStay ==
  ASSUME OutboxTypeOK, Lists, \A l \in Loops : loops'[l].pc \in Listed => loops'[l] = loops[l],
         \A m \in Messages : Claimable(m) => Claimable(m)',
         \A m \in Messages : row[m] = "sending" => row'[m] = "sending"
  PROVE  Lists'
<1> SUFFICES ASSUME NEW l \in Loops, loops'[l].pc \in Listed
             PROVE  ListOf(l, loops[l].batch)' /\ loops'[l] = loops[l]
  BY DEF Lists
<1> DEFINE b == loops[l].batch
<1>1. loops'[l] = loops[l] /\ loops[l].pc \in Listed
  OBVIOUS
<1>2. b \in Seq(Messages) /\ ListOf(l, b)
  BY <1>1 DEF OutboxTypeOK, Lists
<1>3. \A i \in DOMAIN b : b[i] \in Messages
  BY <1>2, ElementOfSeq, LenProperties
<1>4. ASSUME NEW i \in DOMAIN b PROVE Ready(l, b[i])'
  <2>1. b[i] \in Messages /\ Ready(l, b[i])
    BY <1>2, <1>3 DEF ListOf
  <2>2. Holds(l, b[i]) => Holds(l, b[i])'
    BY <1>1 DEF Holds
  <2>3. Claimable(b[i]) => Claimable(b[i])'
    BY <2>1, <1>1 DEF Claimable
  <2>4. row[b[i]] = "sending" => row'[loops'[l].batch[i]] = "sending"
    BY <1>1, <2>1
  <2> QED
    BY <1>1, <2>1, <2>2, <2>3, <2>4 DEF Ready, Holds
<1>5. loops[l].pc \in Claimed => row'[Head(b)] = "sending"
  <2> SUFFICES ASSUME loops[l].pc \in Claimed PROVE row'[Head(b)] = "sending"
    OBVIOUS
  <2>1. row[Head(b)] = "sending" /\ Head(b) \in Messages
    BY <1>2, HeadOfList DEF ListOf, Listed, Claimed
  <2> QED
    BY <2>1
<1> QED
  BY <1>1, <1>2, <1>4, <1>5 DEF ListOf

\* What is left of a list is a list, when only its first row was written.
LEMMA ListsRest ==
  ASSUME OutboxTypeOK, Lists, Single, NEW l \in Loops, LoopStep(l), NextMessage(l),
         loops[l].pc \in Listed \ {"pulled"},
         \A m \in Messages : m # Head(loops[l].batch) /\ Claimable(m) => Claimable(m)'
  PROVE  Lists'
<1>0. PICK b \in Seq(Messages), c \in Seq(Messages) : b = loops[l].batch /\ c = Tail(loops[l].batch)
  BY HeadOfList
<1>1. /\ b \in Seq(Messages) /\ b # <<>>
      /\ Head(b) \in Messages /\ c \in Seq(Messages)
  BY <1>0, HeadOfList
<1>2. loops'[l].pc = AfterRow(l) /\ loops'[l].batch = c
  BY <1>0, Lands
<1>3. ListOf(l, b)
  BY <1>0 DEF Lists
<1>4. /\ 1 \in DOMAIN b /\ b[1] = Head(b)
      /\ \A i \in DOMAIN c : i + 1 \in DOMAIN b /\ c[i] = b[i + 1] /\ i \in Nat \ {0}
      /\ Len(b) # 1 => c # <<>>
  BY <1>0, <1>1, Rest
<1>5. \A i \in DOMAIN c : c[i] \in Messages
  BY <1>1, ElementOfSeq, LenProperties
<1>6. Distinct(c)
  <2> SUFFICES ASSUME NEW i \in DOMAIN c, NEW j \in DOMAIN c, c[i] = c[j] PROVE i = j
    BY DEF Distinct
  <2>1. i + 1 = j + 1
    BY <1>3, <1>4 DEF ListOf, Distinct
  <2> QED
    BY <1>4, <2>1
<1>7. ASSUME NEW i \in DOMAIN c PROVE Claimable(c[i])'
  <2>1. c[i] # Head(b)
    <3>1. i + 1 # 1
      BY <1>4
    <3> QED
      BY <1>3, <1>4, <3>1 DEF ListOf, Distinct
  <2>2. Claimable(c[i])
    <3>1. Ready(l, c[i])
      BY <1>3, <1>4 DEF ListOf
    <3>2. ~Holds(l, c[i])
      BY <1>0, <2>1 DEF Holds
    <3> QED
      BY <3>1, <3>2 DEF Ready
  <2> QED
    BY <1>0, <1>5, <2>1, <2>2
<1>8. loops'[l].pc \in {"pull", "resolve"} /\ (loops'[l].pc = "resolve" => c # <<>>)
  BY <1>0, <1>2, <1>4 DEF AfterRow
<1>9. \A k \in Loops : k # l => loops'[k].pc = "off"
  BY Others
<1>10. ListOf(l, c)' \/ loops'[l].pc = "pull"
  <2> SUFFICES ASSUME loops'[l].pc = "resolve" PROVE ListOf(l, c)'
    BY <1>8
  <2>1. \A i \in DOMAIN c : Ready(l, c[i])'
    BY <1>7 DEF Ready, Claimable
  <2> QED
    BY <1>6, <1>8, <2>1 DEF ListOf, Claimed
<1> QED
  BY <1>2, <1>8, <1>9, <1>10 DEF Lists, Listed, Claimed

\* A loop that goes on with the same row keeps its list.
LEMMA ListsHold ==
  ASSUME OutboxTypeOK, Lists, Single, NEW l \in Loops, LoopStep(l), UNCHANGED rows,
         loops[l].pc \in Listed, loops[l].batch # <<>>, loops'[l].batch = loops[l].batch,
         loops'[l].pc \in Listed, loops'[l].pc \in Claimed => loops[l].pc \in Claimed,
         loops[l].pc \in Claimed \cup {"reportFailed"} => loops'[l].pc \in Claimed \cup {"reportFailed"}
  PROVE  Lists'
<1>1. PICK b \in Seq(Messages) : b = loops[l].batch
  BY DEF OutboxTypeOK
<1>2. ListOf(l, b)
  BY <1>1 DEF Lists
<1>3. row' = row /\ lease' = lease
  BY DEF rows
<1>4. \A m : Ready(l, m) => Ready(l, m)'
  BY <1>3 DEF Ready, Claimable, Holds
<1>5. ListOf(l, b)'
  BY <1>1, <1>2, <1>3, <1>4 DEF ListOf
<1>6. \A k \in Loops : k # l => loops'[k].pc = "off"
  BY Others
<1> QED
  BY <1>1, <1>5, <1>6 DEF Lists, Listed, Claimed

LEMMA ListsKept ==
  ASSUME OutboxTypeOK, Lists, Single, [OutboxNext]_outboxVars
  PROVE  Lists'
<1>1. ASSUME UNCHANGED <<row, lease, loops>> PROVE Lists'
  BY <1>1, ListsStay DEF Claimable
<1>2. ASSUME RequestDispatch, UNCHANGED rows PROVE Lists'
  <2>1. \A k \in Loops : loops'[k].pc \in Listed => loops'[k] = loops[k]
    BY <1>2, Asked DEF Listed, Claimed
  <2> QED
    BY <1>2, <2>1, ListsStay DEF rows, Claimable
<1>3. ASSUME NEW m \in Messages, Enqueue(m) PROVE Lists'
  <2>1. \A n \in Messages : Claimable(n) => Claimable(n)'
    BY <1>3 DEF Enqueue, Claimable, OutboxTypeOK
  <2>2. \A n \in Messages : row[n] = "sending" => row'[n] = "sending"
    BY <1>3 DEF Enqueue, OutboxTypeOK
  <2>3. loops' = loops
    BY <1>3 DEF Enqueue
  <2> QED
    BY <2>1, <2>2, <2>3, ListsStay
<1>4. ASSUME NEW m \in Messages, LeaseExpires(m) PROVE Lists'
  <2>1. \A n \in Messages : Claimable(n) => Claimable(n)'
    BY <1>4 DEF LeaseExpires, Claimable, OutboxTypeOK
  <2>2. UNCHANGED <<row, loops>>
    BY <1>4 DEF LeaseExpires
  <2> QED
    BY <2>1, <2>2, ListsStay
<1>5. ASSUME Crash PROVE Lists'
  BY <1>5, Standing DEF Crash, Lists, Listed, Claimed
<1>6. ASSUME NEW l \in Loops, LoopStep(l) PROVE Lists'
  <2> DEFINE m == Head(loops[l].batch)
  <2>1. \A k \in Loops : k # l => loops'[k].pc = "off"
    BY <1>6, Others
  <2>2. ASSUME EndLoop(l) PROVE Lists'
    BY <2>1, <2>2, Lands DEF Lists, Listed, Claimed
  <2>3. ASSUME NEW p \in Pcs, Goto(l, p) PROVE loops'[l].pc = p /\ loops'[l].batch = loops[l].batch
    BY <2>3, Lands
  <2>4. loops[l].pc \in Listed \ {"pulled"} => m \in Messages /\ loops[l].batch # <<>> /\ ListOf(l, loops[l].batch)
    BY HeadOfList DEF Lists
  <2>5. CASE Pull(l)
    <3>1. PICK n \in 0..Limit : loops'[l].batch \in [1..n -> Messages]
      BY <2>5, Lands
    <3>2. PICK b \in [1..n -> Messages] : b = loops'[l].batch /\ Pulled(b) /\ loops'[l].pc = "pulled"
      BY <2>5, <3>1, Lands
    <3>3. row' = row /\ lease' = lease
      BY <2>5 DEF Pull, rows
    <3>4. Distinct(b)
      <4> SUFFICES ASSUME NEW i \in 1..n, NEW j \in 1..n, b[i] = b[j], i < j PROVE FALSE
        BY <3>1 DEF Distinct
      <4>1. Precedes(b[i], b[j]) /\ b[i] \in Nat
        BY <3>2, Rows DEF Pulled
      <4> QED
        BY <4>1 DEF Precedes
    <3>5. \A i \in DOMAIN b : Ready(l, b[i])'
      BY <3>2, <3>3 DEF Pulled, Ready, Claimable
    <3>6. ListOf(l, b)'
      BY <3>2, <3>4, <3>5 DEF ListOf, Claimed
    <3> QED
      BY <2>1, <3>2, <3>6 DEF Lists, Listed, Claimed
  <2>6. CASE Batch(l)
    <3>1. CASE EndLoop(l)
      BY <2>2, <3>1
    <3>2. CASE Goto(l, "resolve") /\ loops[l].batch # <<>>
      <4>1. loops'[l].pc = "resolve" /\ loops'[l].batch = loops[l].batch /\ loops[l].pc = "pulled" /\ UNCHANGED rows
        BY <2>3, <2>6, <3>2, Strings DEF Batch
      <4> QED
        BY <1>6, <3>2, <4>1, ListsHold DEF Listed, Claimed
    <3> QED
      BY <2>6, <3>1, <3>2 DEF Batch
  <2>7. CASE LoopFails(l)
    BY <2>2, <2>7 DEF LoopFails
  <2>8. CASE ResolveDeliveries(l)
    <3>1. loops'[l].pc = "claim" /\ loops'[l].batch = loops[l].batch /\ loops[l].pc = "resolve" /\ UNCHANGED rows
      BY <2>8, Lands DEF ResolveDeliveries
    <3> QED
      BY <1>6, <2>4, <3>1, ListsHold DEF Listed, Claimed
  <2>9. CASE Claim(l)
    <3>0. loops[l].pc = "claim"
      BY <2>9 DEF Claim
    <3>1. PICK b \in Seq(Messages) : b = loops[l].batch
      BY DEF OutboxTypeOK
    <3>2. m = Head(b) /\ m \in Messages /\ b # <<>> /\ ListOf(l, b)
      BY <2>4, <3>0, <3>1 DEF Listed
    <3>3. \A i \in DOMAIN b : Claimable(b[i])
      BY <3>0, <3>2 DEF ListOf, Ready, Holds, Claimed
    <3>4. Claimable(m)
      BY <3>2, <3>3, Rest
    <3>5. loops'[l].pc = "hydrate" /\ loops'[l].batch = b
      BY <2>3, <2>9, <3>1, <3>4, Strings DEF Claim
    <3>6. row' = [row EXCEPT ![m] = "sending"] /\ lease' = [lease EXCEPT ![m] = "held"]
      BY <2>9, <3>4 DEF Claim
    <3>7. \A i \in DOMAIN b : b[i] \in Messages
      BY ElementOfSeq, LenProperties
    <3>8. Holds(l, m)'
      BY <3>1, <3>5 DEF Holds, Claimed
    <3>9. \A n \in Messages : Claimable(n) => Ready(l, n)'
      <4> SUFFICES ASSUME NEW n \in Messages, Claimable(n) PROVE Ready(l, n)'
        OBVIOUS
      <4>1. CASE n = m
        <5>1. row'[n] = "sending" /\ Holds(l, n)'
          BY <3>2, <3>6, <3>5, <3>1, <4>1 DEF OutboxTypeOK, Holds, Claimed
        <5> QED
          BY <5>1 DEF Ready
      <4>2. CASE n # m
        <5>1. row'[n] = row[n] /\ lease'[n] = lease[n]
          BY <3>2, <3>6, <4>2 DEF OutboxTypeOK
        <5> QED
          BY <5>1 DEF Ready, Claimable
      <4> QED
        BY <4>1, <4>2
    <3>10. \A i \in DOMAIN b : Ready(l, b[i])'
      BY <3>3, <3>7, <3>9
    <3>11. row'[Head(b)] = "sending"
      BY <3>2, <3>6 DEF OutboxTypeOK
    <3>12. ListOf(l, b)'
      BY <3>2, <3>5, <3>10, <3>11 DEF ListOf
    <3> QED
      BY <2>1, <3>5, <3>12 DEF Lists, Listed, Claimed
  <2>10. CASE Hydrate(l)
    <3>1. loops'[l].pc \in {"reportSent", "send"} /\ loops'[l].batch = loops[l].batch /\ loops[l].pc = "hydrate" /\ UNCHANGED rows
      BY <2>10, Lands DEF Hydrate
    <3> QED
      BY <1>6, <2>4, <3>1, ListsHold DEF Listed, Claimed
  <2>11. CASE DispatchFails(l)
    <3>1. loops'[l].pc = "reportFailed" /\ loops'[l].batch = loops[l].batch /\ UNCHANGED rows
      BY <2>3, <2>11, Strings DEF DispatchFails
    <3>2. loops[l].pc \in {"claim", "hydrate", "reportSent"}
      BY <2>11 DEF DispatchFails
    <3> QED
      BY <1>6, <2>4, <3>1, <3>2, ListsHold DEF Listed, Claimed
  <2>12. ASSUME NEW t \in Targets, SendSucceeds(l, t) PROVE Lists'
    <3>1. loops'[l].pc \in {"reportSent", "send"} /\ loops'[l].batch = loops[l].batch /\ loops[l].pc = "send" /\ UNCHANGED rows
      BY <2>12, Lands, ZenonT(60) DEF SendSucceeds
    <3> QED
      BY <1>6, <2>4, <3>1, ListsHold DEF Listed, Claimed
  <2>13. ASSUME NEW t \in Targets, SendFails(l, t) PROVE Lists'
    <3>1. loops'[l].pc = "reportFailed" /\ loops'[l].batch = loops[l].batch /\ loops[l].pc = "send" /\ UNCHANGED rows
      BY <2>3, <2>13, Strings DEF SendFails
    <3> QED
      BY <1>6, <2>4, <3>1, ListsHold DEF Listed, Claimed
  <2>14. ASSUME NextMessage(l), loops[l].pc \in Listed \ {"pulled"},
                \A n \in Messages : n # m => row'[n] = row[n] /\ lease'[n] = lease[n]
         PROVE  Lists'
    BY <1>6, <2>14, ListsRest DEF Claimable
  <2>15. CASE ReportSent(l)
    <3>1. NextMessage(l) /\ row' = [row EXCEPT ![m] = "sent"] /\ lease' = [lease EXCEPT ![m] = "none"] /\ loops[l].pc = "reportSent"
      BY <2>15 DEF ReportSent
    <3> QED
      BY <2>14, <3>1 DEF Listed, Claimed, OutboxTypeOK
  <2>16. CASE ReportFailed(l)
    <3>1. NextMessage(l) /\ row' = [row EXCEPT ![m] = "failed"] /\ lease' = [lease EXCEPT ![m] = "none"] /\ loops[l].pc = "reportFailed"
      BY <2>16 DEF ReportFailed
    <3> QED
      BY <2>14, <3>1 DEF Listed, Claimed, OutboxTypeOK
  <2>17. CASE ReportFailedFails(l)
    <3>1. NextMessage(l) /\ row' = row /\ lease' = lease /\ loops[l].pc = "reportFailed"
      BY <2>17 DEF ReportFailedFails, rows
    <3> QED
      BY <2>14, <3>1 DEF Listed, Claimed, OutboxTypeOK
  <2> QED
    BY <1>6, <2>5, <2>6, <2>7, <2>8, <2>9, <2>10, <2>11, <2>12, <2>13, <2>15, <2>16, <2>17 DEF LoopStep, Send
<1>7. ASSUME NEW m \in Messages, PublishWake(m) PROVE Lists'
  BY <1>2, <1>7 DEF PublishWake
<1>8. ASSUME NEW s \in late, LateSend(s) PROVE Lists'
  BY <1>1, <1>8 DEF LateSend, rows
<1>9. Poll \/ Boot => Lists'
  BY <1>2 DEF Poll, Boot
<1>10. CASE UNCHANGED outboxVars
  BY <1>1, <1>10 DEF outboxVars, rows
<1> QED
  BY <1>3, <1>4, <1>5, <1>6, <1>7, <1>8, <1>9, <1>10 DEF OutboxNext

-----------------------------------------------------------------------------
\* What a step hands to a target: the row that a loop sends, or one that nobody waits for.

FromLoop(l, t, m) ==
  /\ m = Head(loops[l].batch)
  /\ \/ loops[l].pc = "hydrate" /\ t = Web /\ Hydrate(l)
     \/ loops[l].pc = "send" /\ t \in loops[l].to \ loops[l].done /\ (SendSucceeds(l, t) \/ SendFails(l, t))
FromLate(t, m) == \E s \in late : s.msg = m /\ s.to = t /\ LateSend(s)

LEMMA Deliveries ==
  ASSUME OutboxTypeOK, Lists, [OutboxNext]_outboxVars, NEW t \in Targets
  PROVE  \/ inbox'[t] = inbox[t]
         \/ \E m \in Messages : /\ inbox'[t] = Append(inbox[t], m)
                                /\ FromLate(t, m) \/ \E l \in Loops : FromLoop(l, t, m)
<1> DEFINE Good == \/ inbox'[t] = inbox[t]
                   \/ \E m \in Messages : /\ inbox'[t] = Append(inbox[t], m)
                                          /\ FromLate(t, m) \/ \E l \in Loops : FromLoop(l, t, m)
<1>1. inbox' = inbox => Good
  OBVIOUS
<1>2. ASSUME NEW s \in late, LateSend(s) PROVE Good
  <2>1. s.msg \in Messages /\ s.to \in Targets
    BY DEF OutboxTypeOK
  <2>2. inbox' = inbox \/ inbox' = [inbox EXCEPT ![s.to] = Append(@, s.msg)]
    BY <1>2 DEF LateSend
  <2>3. CASE inbox' = [inbox EXCEPT ![s.to] = Append(@, s.msg)]
    <3>1. CASE t = s.to
      <4>1. inbox'[t] = Append(inbox[t], s.msg)
        BY <2>1, <2>3, <3>1 DEF OutboxTypeOK
      <4> QED
        BY <1>2, <2>1, <3>1, <4>1 DEF FromLate
    <3>2. CASE t # s.to
      BY <2>1, <2>3, <3>2 DEF OutboxTypeOK
    <3> QED
      BY <3>1, <3>2
  <2> QED
    BY <2>2, <2>3
<1>3. ASSUME NEW l \in Loops, LoopStep(l) PROVE Good
  <2> DEFINE m == Head(loops[l].batch)
  <2>1. CASE Hydrate(l)
    <3>1. loops[l].pc = "hydrate" /\ m \in Messages
      BY <2>1, HeadOfList DEF Hydrate, Listed, Claimed
    <3>2. inbox'[t] = inbox[t] \/ (t = Web /\ inbox'[t] = Append(inbox[t], m))
      BY <2>1 DEF Hydrate
    <3> QED
      BY <2>1, <3>1, <3>2 DEF FromLoop
  <2>2. ASSUME NEW u \in Targets, SendSucceeds(l, u) \/ SendFails(l, u) PROVE Good
    <3>1. loops[l].pc = "send" /\ u \in loops[l].to \ loops[l].done
      BY <2>2 DEF SendSucceeds, SendFails
    <3>2. m \in Messages
      BY <3>1, HeadOfList DEF Listed, Claimed
    <3>3. inbox' = inbox \/ inbox' = [inbox EXCEPT ![u] = Append(@, m)]
      BY <2>2 DEF SendSucceeds, SendFails
    <3>4. inbox'[t] = inbox[t] \/ (t = u /\ inbox'[t] = Append(inbox[t], m))
      BY <3>3 DEF OutboxTypeOK
    <3> QED
      BY <2>2, <3>1, <3>2, <3>4 DEF FromLoop
  <2>3. Hydrate(l) \/ Send(l) \/ inbox' = inbox
    BY <1>3 DEF LoopStep, Pull, Batch, LoopFails, ResolveDeliveries, Claim, DispatchFails,
         ReportSent, ReportFailed, ReportFailedFails, rows
  <2> QED
    BY <2>1, <2>2, <2>3 DEF Send
<1> HIDE DEF Good
<1>4. Good
  BY <1>1, <1>2, <1>3 DEF OutboxNext, outboxVars, Enqueue, PublishWake, LeaseExpires, Poll, Crash, Boot
<1> QED
  BY <1>4 DEF Good

\* An inbox only grows.
LEMMA GotStays ==
  ASSUME OutboxTypeOK, Lists, [OutboxNext]_outboxVars, NEW t \in Targets, NEW m, Got(inbox[t], m)
  PROVE  Got(inbox'[t], m)
<1>1. CASE inbox'[t] = inbox[t]
  BY <1>1
<1>2. ASSUME NEW n \in Messages, inbox'[t] = Append(inbox[t], n) PROVE Got(inbox'[t], m)
  BY <1>2, Arrival DEF OutboxTypeOK
<1> QED
  BY <1>1, <1>2, Deliveries

\* What arrives is being sent, or was disturbed.
LEMMA Arriving ==
  ASSUME OutboxTypeOK, Lists, Attended, NEW t \in Targets, NEW m \in Messages,
         FromLate(t, m) \/ \E l \in Loops : FromLoop(l, t, m)
  PROVE  /\ row[m] \in {"sending", "sent", "failed"}
         /\ row[m] \in {"sent", "failed"} => m \in excused
         /\ FromLate(t, m) => m \in excused
<1>1. FromLate(t, m) => row[m] \in {"sending", "sent", "failed"} /\ m \in excused
  BY DEF FromLate, Attended
<1>2. ASSUME NEW l \in Loops, FromLoop(l, t, m) PROVE row[m] = "sending"
  BY <1>2 DEF FromLoop, Lists, ListOf, Listed, Claimed
<1> QED
  BY <1>1, <1>2

LEMMA ToWebKept ==
  ASSUME OutboxTypeOK, Lists, Single, ToWeb, [OutboxNext]_outboxVars
  PROVE  ToWeb'
<1> DEFINE OK(l) == /\ loops'[l].pc \in {"claim", "hydrate", "send"} => Web \in loops'[l].to
                    /\ loops'[l].pc \in {"send", "reportSent"} => Got(inbox'[Web], Head(loops'[l].batch))
<1>1. ASSUME NEW l \in Loops, loops'[l] = loops[l] PROVE OK(l)
  BY <1>1, GotStays, Strings DEF ToWeb
<1>2. ASSUME NEW l \in Loops, loops'[l].pc \in {"off", "pull", "pulled", "resolve", "reportFailed"} PROVE OK(l)
  BY <1>2
<1>3. ASSUME NEW l \in Loops, LoopStep(l) PROVE OK(l)
  <2> DEFINE m == Head(loops[l].batch)
  <2>1. ASSUME NEW p \in Pcs, Goto(l, p)
        PROVE  loops'[l].pc = p /\ loops'[l].batch = loops[l].batch /\ loops'[l].to = loops[l].to
    BY <2>1, Lands
  <2>2. EndLoop(l) => OK(l)
    BY <1>2, Lands
  <2>3. NextMessage(l) /\ loops[l].pc \in Listed \ {"pulled"} => OK(l)
    BY <1>2, Lands DEF AfterRow
  <2>4. Pull(l) => OK(l)
    BY <1>2, Lands
  <2>5. Batch(l) => OK(l)
    BY <1>2, <2>1, <2>2, Strings DEF Batch
  <2>6. LoopFails(l) => OK(l)
    BY <2>2 DEF LoopFails
  <2>7. ResolveDeliveries(l) => OK(l)
    BY Lands
  <2>8. Claim(l) => OK(l)
    <3>1. Claim(l) /\ Goto(l, "hydrate") => OK(l)
      BY <2>1, Strings DEF Claim, ToWeb
    <3> QED
      BY <2>3, <3>1 DEF Claim, Listed
  <2>9. CASE Hydrate(l)
    <3>1. loops[l].pc = "hydrate" /\ Web \in loops[l].to
      BY <2>9 DEF Hydrate, ToWeb
    <3>2. m \in Messages
      BY <3>1, HeadOfList DEF Listed, Claimed
    <3>3. inbox'[Web] = Append(inbox[Web], m)
      BY <2>9, <3>1, Strings DEF Hydrate
    <3>4. Got(inbox'[Web], m)
      BY <3>2, <3>3, Arrival, Strings DEF OutboxTypeOK
    <3> QED
      BY <2>9, <3>1, <3>4, Lands
  <2>10. DispatchFails(l) => OK(l)
    BY <1>2, <2>1, Strings DEF DispatchFails
  <2>11. ASSUME NEW t \in Targets, SendSucceeds(l, t) PROVE OK(l)
    <3>1. loops'[l].batch = loops[l].batch /\ loops'[l].to = loops[l].to /\ loops[l].pc = "send"
      BY <2>11, Lands DEF SendSucceeds
    <3>2. Got(inbox[Web], m) /\ Web \in loops[l].to
      BY <3>1 DEF ToWeb
    <3>3. Got(inbox'[Web], m)
      BY <3>2, GotStays, Strings
    <3> QED
      BY <3>1, <3>2, <3>3
  <2>12. ASSUME NEW t \in Targets, SendFails(l, t) PROVE OK(l)
    BY <1>2, <2>1, <2>12, Strings DEF SendFails
  <2>13. ReportSent(l) \/ ReportFailed(l) \/ ReportFailedFails(l) => OK(l)
    BY <2>3 DEF ReportSent, ReportFailed, ReportFailedFails, Listed, Claimed
  <2> QED
    BY <1>3, <2>4, <2>5, <2>6, <2>7, <2>8, <2>9, <2>10, <2>11, <2>12, <2>13 DEF LoopStep, Send
<1>4. ASSUME NEW l \in Loops, NEW k \in Loops, LoopStep(k) PROVE OK(l)
  BY <1>2, <1>3, <1>4, Others
<1>5. ASSUME NEW l \in Loops, RequestDispatch PROVE OK(l)
  BY <1>1, <1>2, <1>5, Asked
<1>6. ASSUME NEW l \in Loops, Crash PROVE OK(l)
  BY <1>2, <1>6, Standing DEF Crash
<1> HIDE DEF OK
<1>7. \A l \in Loops : OK(l)
  BY <1>1, <1>4, <1>5, <1>6 DEF OutboxNext, Enqueue, PublishWake, LeaseExpires, LateSend, Poll, Boot, outboxVars
<1> QED
  BY <1>7 DEF ToWeb, OK

-----------------------------------------------------------------------------
\* How the rows go on.

Begun == {"sending", "sent", "failed"}

\* The first row of a list is not settled.
LEMMA HeadRow ==
  ASSUME OutboxTypeOK, Lists, NEW l \in Loops, loops[l].pc \in Listed \ {"pulled"}
  PROVE  row[Head(loops[l].batch)] \in {"queued", "sending"}
<1>1. PICK b \in Seq(Messages) : b = loops[l].batch /\ b # <<>>
  BY HeadOfList
<1>2. Head(b) = b[1] /\ 1 \in DOMAIN b
  BY <1>1, Rest
<1>3. Ready(l, b[1])
  BY <1>1, <1>2 DEF Lists, ListOf
<1> QED
  BY <1>1, <1>2, <1>3 DEF Ready, Claimable

\* Only the first row of the loop that moves is written, and it is not settled then.
LEMMA RowSteps ==
  ASSUME OutboxTypeOK, Lists, [OutboxNext]_outboxVars
  PROVE  \/ UNCHANGED row /\ UNCHANGED rowKind
         \/ \E m \in Messages : /\ Enqueue(m) /\ row[m] = "none" /\ row' = [row EXCEPT ![m] = "queued"]
                                /\ \E k \in {"event", "other"} : rowKind' = [rowKind EXCEPT ![m] = k]
         \/ \E l \in Loops : LET m == Head(loops[l].batch) IN
              /\ UNCHANGED rowKind /\ m \in Messages /\ row[m] \in {"queued", "sending"}
              /\ \/ loops[l].pc = "claim" /\ Claim(l) /\ row' = [row EXCEPT ![m] = "sending"]
                 \/ loops[l].pc = "reportSent" /\ ReportSent(l) /\ row' = [row EXCEPT ![m] = "sent"]
                 \/ loops[l].pc = "reportFailed" /\ ReportFailed(l) /\ row' = [row EXCEPT ![m] = "failed"]
<1> DEFINE Written(l) == LET m == Head(loops[l].batch) IN
              /\ UNCHANGED rowKind /\ m \in Messages /\ row[m] \in {"queued", "sending"}
              /\ \/ loops[l].pc = "claim" /\ Claim(l) /\ row' = [row EXCEPT ![m] = "sending"]
                 \/ loops[l].pc = "reportSent" /\ ReportSent(l) /\ row' = [row EXCEPT ![m] = "sent"]
                 \/ loops[l].pc = "reportFailed" /\ ReportFailed(l) /\ row' = [row EXCEPT ![m] = "failed"]
           Same == UNCHANGED row /\ UNCHANGED rowKind
<1>1. ASSUME NEW l \in Loops, LoopStep(l) PROVE Same \/ Written(l)
  <2>1. loops[l].pc \in Listed \ {"pulled"} => Head(loops[l].batch) \in Messages /\ row[Head(loops[l].batch)] \in {"queued", "sending"}
    BY HeadOfList, HeadRow
  <2>2. Claim(l) => Same \/ Written(l)
    BY <2>1 DEF Claim, Listed
  <2>3. ReportSent(l) => Written(l)
    BY <2>1 DEF ReportSent, Listed, Claimed
  <2>4. ReportFailed(l) => Written(l)
    BY <2>1 DEF ReportFailed, Listed
  <2>5. Claim(l) \/ ReportSent(l) \/ ReportFailed(l) \/ Same
    BY <1>1 DEF LoopStep, Send, Pull, Batch, LoopFails, ResolveDeliveries, Hydrate, DispatchFails,
         SendSucceeds, SendFails, ReportFailedFails, rows
  <2> QED
    BY <2>2, <2>3, <2>4, <2>5
<1>2. ASSUME NEW m \in Messages, Enqueue(m)
      PROVE  /\ row[m] = "none" /\ row' = [row EXCEPT ![m] = "queued"]
             /\ \E k \in {"event", "other"} : rowKind' = [rowKind EXCEPT ![m] = k]
  BY <1>2 DEF Enqueue
<1>3. Same \/ (\E m \in Messages : Enqueue(m)) \/ \E l \in Loops : LoopStep(l)
  BY DEF OutboxNext, PublishWake, LeaseExpires, LateSend, Poll, Boot, Crash, outboxVars, rows
<1> QED
  BY <1>1, <1>2, <1>3

LEMMA RowsGo ==
  ASSUME OutboxTypeOK, Lists, [OutboxNext]_outboxVars, NEW m \in Messages
  PROVE  /\ row[m] # "none" => row'[m] # "none" /\ rowKind'[m] = rowKind[m]
         /\ row[m] \in Begun => row'[m] \in Begun
         /\ row[m] \in {"sent", "failed"} => row'[m] = row[m]
         /\ row'[m] \in {"none", "queued"} => row[m] \in {"none", "queued"}
  BY RowSteps DEF OutboxTypeOK, Begun

LEMMA ExcusesStay ==
  ASSUME [OutboxNext]_outboxVars
  PROVE  excused \subseteq excused'
  BY ZenonT(60) DEF OutboxNext, Enqueue, PublishWake, LeaseExpires, LateSend, Poll, Boot, Crash, outboxVars, LoopStep, Send, Pull, Batch,
      LoopFails, ResolveDeliveries, Claim, Hydrate, DispatchFails, SendSucceeds, SendFails, ReportSent, ReportFailed,
      ReportFailedFails

\* Only the moving loop holds a row, its first.
LEMMA HoldsOne ==
  ASSUME OutboxTypeOK, Lists, Single, NEW l \in Loops, LoopStep(l), NEW k \in Loops, NEW m, Holds(k, m)
  PROVE  k = l /\ m = Head(loops[l].batch) /\ loops[l].pc \in Claimed \cup {"reportFailed"}
<1>1. k = l
  BY Others DEF Holds, Claimed
<1> QED
  BY <1>1 DEF Holds

LEMMA AttendedKept ==
  ASSUME OutboxTypeOK, Lists, Single, Attended, [OutboxNext]_outboxVars
  PROVE  Attended'
<1>1. ASSUME NEW s \in late PROVE s.msg \in excused' /\ row'[s.msg] \in Begun
  <2>1. s.msg \in Messages
    BY DEF OutboxTypeOK
  <2> QED
    BY <2>1, ExcusesStay, RowsGo DEF Attended, Begun
<1>2. ASSUME NEW m \in excused PROVE m \in Messages /\ row'[m] # "none"
  BY RowsGo DEF Attended, OutboxTypeOK
<1>3. ASSUME NEW l \in Loops, LoopStep(l) PROVE Attended'
  <2>0. PICK m : m = Head(loops[l].batch)
    OBVIOUS
  <2>1. loops[l].pc \in Listed \ {"pulled"} => m \in Messages /\ row[m] \in {"queued", "sending"} /\ row'[m] # "none"
    BY <2>0, HeadOfList, HeadRow, RowsGo
  <2>2. ASSUME NEW n \in Messages, row'[n] = "sending"
        PROVE  n \in excused' \/ \E k \in Loops : Holds(k, n)'
    <3>1. ASSUME row[n] = "sending", Holds(l, m), n = m, ~Holds(l, m)' PROVE m \in excused'
      <4>1. loops[l].pc \in Claimed \cup {"reportFailed"}
        BY <3>1 DEF Holds
      <4>2. ASSUME NEW p \in {"reportFailed"} \cup Claimed, loops'[l].pc = p, loops'[l].batch = loops[l].batch PROVE FALSE
        BY <2>0, <3>1, <4>2 DEF Holds
      <4>3. Goto(l, "reportFailed") => FALSE
        BY <4>2, Lands, Strings
      <4>4. ~Hydrate(l) /\ \A t \in Targets : ~SendSucceeds(l, t)
        BY <4>2, Lands DEF Claimed
      <4>5. ~DispatchFails(l) /\ \A t \in Targets : ~SendFails(l, t)
        BY <4>3 DEF DispatchFails, SendFails
      <4>6. ~ReportSent(l) /\ ~ReportFailed(l)
        BY <2>0, <2>2, <3>1 DEF ReportSent, ReportFailed, OutboxTypeOK
      <4>7. ReportFailedFails(l)
        BY <1>3, <4>1, <4>4, <4>5, <4>6 DEF LoopStep, Send, Pull, Batch, LoopFails, ResolveDeliveries, Claim, Claimed
      <4> QED
        BY <2>0, <4>7 DEF ReportFailedFails
    <3>2. CASE row[n] = "sending"
      <4>1. n \in excused \/ \E k \in Loops : Holds(k, n)
        BY <3>2 DEF Attended
      <4>2. n \in excused \/ (Holds(l, m) /\ n = m)
        BY <2>0, <1>3, <4>1, HoldsOne
      <4> QED
        BY <3>1, <3>2, <4>2, ExcusesStay
    <3>3. CASE row[n] # "sending"
      <4>1. Claim(l) /\ n = m
        <5>1. \E k \in Loops : Claim(k) /\ n = Head(loops[k].batch) /\ loops[k].pc = "claim"
          BY <2>2, <3>3, RowSteps DEF OutboxTypeOK
        <5> QED
          BY <1>3, <2>0, <5>1, Others
      <4>2. Goto(l, "hydrate")
        BY <2>2, <3>3, <4>1 DEF Claim
      <4>3. Holds(l, n)'
        BY <2>0, <4>1, <4>2, Lands, Strings DEF Holds, Claimed
      <4> QED
        BY <4>3
    <3> QED
      BY <3>2, <3>3
  <2>3. \A s \in late' : s.msg \in excused' /\ row'[s.msg] \in Begun
    <3>1. ASSUME NEW t \in Targets, SendFails(l, t), NEW s \in late' \ late PROVE s.msg \in excused' /\ row'[s.msg] \in Begun
      <4>1. s.msg = m /\ (loops[l].to \ loops[l].done) \ {t} # {} /\ loops[l].pc = "send" /\ row' = row
        BY <2>0, <3>1 DEF SendFails, rows
      <4>2. row[m] = "sending"
        BY <2>0, <4>1 DEF Lists, ListOf, Listed, Claimed
      <4> QED
        BY <2>0, <3>1, <4>1, <4>2 DEF SendFails, Begun
    <3>2. late' \subseteq late \/ \E t \in Targets : SendFails(l, t)
      BY <1>3 DEF LoopStep, Send, Pull, Batch, LoopFails, ResolveDeliveries, Claim, Hydrate, DispatchFails,
         SendSucceeds, ReportSent, ReportFailed, ReportFailedFails
    <3> QED
      BY <1>1, <3>1, <3>2
  <2>4. \A n \in excused' : row'[n] # "none"
    <3>1. excused' \subseteq excused \/ (excused' \subseteq excused \cup {m} /\ loops[l].pc \in Listed \ {"pulled"})
      BY <1>3, <2>0 DEF LoopStep, Send, Pull, Batch, LoopFails, ResolveDeliveries, Claim, Hydrate, DispatchFails,
         SendSucceeds, SendFails, ReportSent, ReportFailed, ReportFailedFails, Listed, Claimed
    <3> QED
      BY <1>2, <2>1, <3>1
  <2> QED
    BY <2>2, <2>3, <2>4 DEF Attended, Begun
<1>4. ASSUME late' \subseteq late, excused' = excused,
             \A m \in Messages : row'[m] = "sending" => row[m] = "sending",
             \A k \in Loops, m \in Messages : Holds(k, m) => Holds(k, m)'
      PROVE  Attended'
  BY <1>1, <1>2, <1>4 DEF Attended, Begun
<1>5. ASSUME RequestDispatch PROVE \A k \in Loops, m \in Messages : Holds(k, m) => Holds(k, m)'
  <2>1. loops' = loops \/ \A k \in Loops : loops[k].pc = "off"
    BY <1>5, Asked
  <2> QED
    BY <2>1 DEF Holds, Claimed
<1>6. ASSUME NEW m \in Messages, Enqueue(m) PROVE Attended'
  BY <1>4, <1>6 DEF Enqueue, Holds, OutboxTypeOK
<1>7. ASSUME NEW m \in Messages, PublishWake(m) PROVE Attended'
  BY <1>4, <1>5, <1>7 DEF PublishWake, rows
<1>8. ASSUME NEW m \in Messages, LeaseExpires(m) PROVE Attended'
  BY <1>4, <1>8 DEF LeaseExpires, Holds
<1>9. ASSUME NEW s \in late, LateSend(s) PROVE Attended'
  BY <1>4, <1>9 DEF LateSend, Holds, rows
<1>10. ASSUME Poll \/ Boot PROVE Attended'
  BY <1>4, <1>5, <1>10 DEF Poll, Boot, rows
<1>11. ASSUME Crash PROVE Attended'
  <2> DEFINE claimed == {l \in Loops : loops[l].pc \in {"hydrate", "send", "reportSent", "reportFailed"}}
             sending == {l \in Loops : loops[l].pc = "send"}
  <2>1. row' = row /\ excused' = excused \cup {Head(loops[l].batch) : l \in claimed}
    BY <1>11 DEF Crash, rows
  <2>2. late' = late \cup UNION {[msg : {Head(loops[l].batch)}, to : loops[l].to \ loops[l].done] : l \in sending}
    BY <1>11 DEF Crash
  <2>3. \A m \in Messages : row'[m] = "sending" => m \in excused'
    BY <2>1 DEF Attended, Holds, Claimed
  <2>4. ASSUME NEW s \in late' PROVE s.msg \in excused' /\ row'[s.msg] \in Begun
    <3>1. ASSUME NEW l \in sending, s.msg = Head(loops[l].batch) PROVE s.msg \in excused' /\ row'[s.msg] \in Begun
      <4>1. row[s.msg] = "sending"
        BY <3>1 DEF Lists, ListOf, Listed, Claimed
      <4> QED
        BY <2>1, <3>1, <4>1 DEF Begun
    <3>2. s \in late \/ \E l \in sending : s.msg = Head(loops[l].batch)
      BY <2>2
    <3> QED
      BY <1>1, <3>1, <3>2
  <2>5. \A l \in claimed : row[Head(loops[l].batch)] # "none"
    BY HeadRow DEF Listed, Claimed
  <2> QED
    BY <1>2, <2>1, <2>3, <2>4, <2>5 DEF Attended, Begun
<1>12. CASE UNCHANGED outboxVars
  BY <1>4, <1>12 DEF outboxVars, rows, Holds
<1> QED
  BY <1>3, <1>6, <1>7, <1>8, <1>9, <1>10, <1>11, <1>12 DEF OutboxNext

LEMMA FiledKept ==
  ASSUME OutboxTypeOK, Lists, Attended, Filed, [OutboxNext]_outboxVars
  PROVE  Filed'
<1>1. ASSUME NEW m \in Messages, NEW n \in Messages, n < m, row'[m] # "none"
      PROVE  row'[n] # "none"
  <2>1. row[m] # "none" \/ Enqueue(m)
    BY <1>1, RowSteps DEF OutboxTypeOK
  <2>2. row[n] # "none"
    BY <1>1, <2>1 DEF Filed, Enqueue
  <2> QED
    BY <2>2, RowsGo
<1>2. ASSUME NEW m \in Messages, NEW t \in Targets, row'[m] \in {"none", "queued"}
      PROVE  ~Got(inbox'[t], m)
  <2>1. row[m] \in {"none", "queued"} /\ ~Got(inbox[t], m)
    BY <1>2, RowsGo DEF Filed
  <2>2. ASSUME NEW n \in Messages, inbox'[t] = Append(inbox[t], n), FromLate(t, n) \/ \E l \in Loops : FromLoop(l, t, n)
        PROVE  ~Got(inbox'[t], m)
    <3>1. n # m
      BY <2>1, <2>2, Arriving
    <3> QED
      BY <2>1, <2>2, <3>1, Arrival DEF OutboxTypeOK
  <2> QED
    BY <2>1, <2>2, Deliveries
<1> QED
  BY <1>1, <1>2 DEF Filed

LEMMA SinglyKept ==
  ASSUME OutboxTypeOK, Lists, Single, ToWeb, Attended, Filed, Singly, [OutboxNext]_outboxVars
  PROVE  Singly'
<1> DEFINE Clear(k, m, t) == Holds(k, m)' =>
             /\ loops'[k].pc = "hydrate" => ~Got(inbox'[t], m)
             /\ loops'[k].pc = "send" /\ t \in loops'[k].to \ loops'[k].done => ~Got(inbox'[t], m)
<1> SUFFICES ASSUME NEW m \in Messages, NEW t \in Targets, m \notin excused'
             PROVE  Once(inbox'[t], m) /\ \A k \in Loops : Clear(k, m, t)
  BY DEF Singly
<1>1. m \notin excused
  BY ExcusesStay
<1>2. ~FromLate(t, m)
  BY <1>1, Arriving
<1>3. ASSUME NEW l \in Loops, FromLoop(l, t, m) PROVE ~Got(inbox[t], m)
  <2>1. Holds(l, m)
    BY <1>3 DEF FromLoop, Holds, Claimed
  <2> QED
    BY <1>1, <1>3, <2>1 DEF FromLoop, Singly
<1>4. Once(inbox'[t], m)
  <2>1. Once(inbox[t], m)
    BY <1>1 DEF Singly
  <2>2. ASSUME NEW n \in Messages, inbox'[t] = Append(inbox[t], n), FromLate(t, n) \/ \E l \in Loops : FromLoop(l, t, n)
        PROVE  Once(inbox'[t], m)
    <3>1. n = m => ~Got(inbox[t], m)
      BY <1>2, <1>3, <2>2
    <3> QED
      BY <2>1, <2>2, <3>1, Arrival DEF OutboxTypeOK
  <2> QED
    BY <2>1, <2>2, Deliveries
\* Without a step of its own a loop stays clear: what arrives late is not this row.
<1>5. ASSUME NEW k \in Loops, loops'[k] = loops[k], \A l \in Loops : ~FromLoop(l, t, m) PROVE Clear(k, m, t)
  <2>1. Got(inbox'[t], m) => Got(inbox[t], m)
    <3>1. ASSUME NEW n \in Messages, inbox'[t] = Append(inbox[t], n), FromLate(t, n) \/ \E l \in Loops : FromLoop(l, t, n)
          PROVE  Got(inbox'[t], m) => Got(inbox[t], m)
      <4>1. n # m
        BY <1>2, <1>5, <3>1
      <4> QED
        BY <3>1, <4>1, Arrival DEF OutboxTypeOK
    <3> QED
      BY <3>1, Deliveries
  <2>2. Holds(k, m)' => Holds(k, m)
    BY <1>5 DEF Holds
  <2> QED
    BY <1>1, <1>5, <2>1, <2>2 DEF Singly
<1>6. ASSUME NEW k \in Loops, loops'[k].pc \notin {"hydrate", "send"} PROVE Clear(k, m, t)
  BY <1>6
<1>7. ASSUME NEW l \in Loops, LoopStep(l) PROVE Clear(l, m, t)
  <2>1. ASSUME NEW p \in Pcs \ {"hydrate", "send"}, Goto(l, p) PROVE Clear(l, m, t)
    BY <1>6, <2>1, Lands
  <2>2. EndLoop(l) => Clear(l, m, t)
    BY <1>6, Lands
  <2>3. NextMessage(l) /\ loops[l].pc \in Listed \ {"pulled"} => Clear(l, m, t)
    BY <1>6, Lands DEF AfterRow
  <2>4. Pull(l) \/ Batch(l) \/ LoopFails(l) \/ ResolveDeliveries(l) \/ DispatchFails(l) => Clear(l, m, t)
    BY <1>6, <2>1, <2>2, Lands, Strings DEF Batch, LoopFails, DispatchFails
  <2>5. \A u \in Targets : SendFails(l, u) => Clear(l, m, t)
    BY <2>1, Strings DEF SendFails
  <2>6. ReportSent(l) \/ ReportFailed(l) \/ ReportFailedFails(l) => Clear(l, m, t)
    BY <2>3 DEF ReportSent, ReportFailed, ReportFailedFails, Listed, Claimed
  <2>7. CASE Claim(l)
    <3>1. CASE NextMessage(l)
      BY <2>3, <2>7, <3>1 DEF Claim, Listed
    <3>2. CASE Claimable(Head(loops[l].batch)) /\ Goto(l, "hydrate")
      <4>1. loops'[l].pc = "hydrate" /\ loops'[l].batch = loops[l].batch /\ inbox' = inbox /\ loops[l].pc = "claim"
        BY <2>7, <3>2, Lands, Strings DEF Claim
      <4>2. ASSUME m = Head(loops[l].batch) PROVE ~Got(inbox[t], m)
        <5>1. row[m] # "sending"
          <6>1. \A k \in Loops : ~Holds(k, m)
            BY <1>7, <4>1, HoldsOne DEF Claimed
          <6> QED
            BY <1>1, <6>1 DEF Attended
        <5> QED
          BY <3>2, <4>2, <5>1 DEF Claimable, Filed
      <4> QED
        BY <4>1, <4>2 DEF Holds
    <3> QED
      BY <2>7, <3>1, <3>2 DEF Claim
  <2>8. CASE Hydrate(l)
    <3>1. /\ loops[l].pc = "hydrate" /\ Web \in loops[l].to /\ loops'[l].pc \in {"send", "reportSent"}
          /\ loops'[l].batch = loops[l].batch /\ loops'[l].to = loops[l].to
          /\ loops'[l].done = {Web} \cap loops[l].to
      BY <2>8, Lands DEF Hydrate, ToWeb
    <3>2. SUFFICES ASSUME m = Head(loops[l].batch), t \in loops'[l].to \ loops'[l].done PROVE ~Got(inbox'[t], m)
      BY <3>1 DEF Holds
    <3>3. t # Web
      BY <3>1, <3>2
    <3>4. inbox'[t] = inbox[t]
      BY <2>8, <3>3 DEF Hydrate
    <3>5. Holds(l, m)
      BY <3>1, <3>2 DEF Holds, Claimed
    <3> QED
      BY <1>1, <3>1, <3>4, <3>5 DEF Singly
  <2>9. ASSUME NEW u \in Targets, SendSucceeds(l, u) PROVE Clear(l, m, t)
    <3>1. /\ loops[l].pc = "send" /\ loops'[l].pc \in {"send", "reportSent"}
          /\ loops'[l].batch = loops[l].batch /\ loops'[l].to = loops[l].to
          /\ loops'[l].done = loops[l].done \cup {u}
      BY <2>9, Lands, ZenonT(60) DEF SendSucceeds
    <3>2. SUFFICES ASSUME m = Head(loops[l].batch), t \in loops'[l].to \ loops'[l].done PROVE ~Got(inbox'[t], m)
      BY <3>1 DEF Holds
    <3>3. t # u /\ t \in loops[l].to \ loops[l].done
      BY <3>1, <3>2
    <3>4. inbox'[t] = inbox[t]
      BY <2>9, <3>3 DEF SendSucceeds, OutboxTypeOK
    <3>5. Holds(l, m)
      BY <3>1, <3>2 DEF Holds, Claimed
    <3> QED
      BY <1>1, <3>1, <3>3, <3>4, <3>5 DEF Singly
  <2> HIDE DEF Clear
  <2> QED
    BY <1>7, <2>4, <2>5, <2>6, <2>7, <2>8, <2>9 DEF LoopStep, Send
<1>8. ASSUME NEW l \in Loops, LoopStep(l) PROVE \A k \in Loops : Clear(k, m, t)
  BY <1>6, <1>7, <1>8, Others
<1>9. ASSUME \A l \in Loops : ~FromLoop(l, t, m), \A k \in Loops : loops'[k] = loops[k] \/ loops'[k].pc \in {"off", "pull"}
      PROVE  \A k \in Loops : Clear(k, m, t)
  BY <1>5, <1>6, <1>9
<1>10. RequestDispatch => \A k \in Loops : loops'[k] = loops[k] \/ loops'[k].pc \in {"off", "pull"}
  BY Asked
<1>11. ASSUME ~\E l \in Loops : LoopStep(l) PROVE \A k \in Loops : Clear(k, m, t)
  <2>1. \A l \in Loops : ~FromLoop(l, t, m)
    BY <1>11 DEF FromLoop, LoopStep, Send
  <2>2. \A k \in Loops : loops'[k] = loops[k] \/ loops'[k].pc \in {"off", "pull"}
    BY <1>10, <1>11, Standing DEF OutboxNext, Enqueue, PublishWake, LeaseExpires, LateSend, Poll, Boot, Crash, outboxVars
  <2> QED
    BY <1>9, <2>1, <2>2
<1> HIDE DEF Clear
<1>12. \A k \in Loops : Clear(k, m, t)
  BY <1>8, <1>11
<1> QED
  BY <1>4, <1>12

-----------------------------------------------------------------------------
\* The order of the events.

LEMMA BehindStays ==
  ASSUME OutboxTypeOK, Lists, [OutboxNext]_outboxVars, NEW n \in Messages, Behind(n)
  PROVE  Behind(n)'
<1>1. row[n] \in {"sent", "failed"} => row'[n] \in {"sent", "failed"}
  BY RowsGo
<1> QED
  BY <1>1, ExcusesStay DEF Behind

LEMMA ListRows ==
  ASSUME OutboxTypeOK, Lists, NEW l \in Loops, loops[l].pc \in Listed, NEW i \in DOMAIN loops[l].batch
  PROVE  loops[l].batch[i] \in Messages /\ row[loops[l].batch[i]] \in {"queued", "sending"}
<1>1. PICK b \in Seq(Messages) : b = loops[l].batch
  BY DEF OutboxTypeOK
<1>2. b[i] \in Messages
  BY <1>1, ElementOfSeq, LenProperties
<1>3. Ready(l, b[i])
  BY <1>1 DEF Lists, ListOf
<1> QED
  BY <1>1, <1>2, <1>3 DEF Ready, Claimable

\* What came before the rows of a list was numbered before; what is behind stays behind.
LEMMA AgedListStays ==
  ASSUME OutboxTypeOK, Lists, Filed, Aged, [OutboxNext]_outboxVars,
         NEW l \in Loops, loops[l].pc \in Listed
  PROVE  \A i \in DOMAIN loops[l].batch, n \in Messages :
           n < loops[l].batch[i] /\ rowKind'[loops[l].batch[i]] = "event" /\ rowKind'[n] = "event" =>
             /\ Behind(n) \/ \E j \in DOMAIN loops[l].batch : j < i /\ loops[l].batch[j] = n
             /\ Behind(n) => Behind(n)'
<1> SUFFICES ASSUME NEW i \in DOMAIN loops[l].batch, NEW n \in Messages, n < loops[l].batch[i],
                    rowKind'[loops[l].batch[i]] = "event", rowKind'[n] = "event"
             PROVE  /\ Behind(n) \/ \E j \in DOMAIN loops[l].batch : j < i /\ loops[l].batch[j] = n
                    /\ Behind(n) => Behind(n)'
  OBVIOUS
<1>1. PICK m \in Messages : m = loops[l].batch[i] /\ row[m] # "none"
  BY ListRows
<1>2. row[n] # "none"
  BY <1>1 DEF Filed
<1>3. rowKind[m] = "event" /\ rowKind[n] = "event"
  BY <1>1, <1>2, RowsGo
<1>4. AgedList(loops[l].batch)
  BY DEF Aged
<1> QED
  BY <1>1, <1>3, <1>4, BehindStays DEF AgedList

LEMMA AgedKept ==
  ASSUME OutboxTypeOK, Lists, Single, Attended, Filed, Aged, [OutboxNext]_outboxVars
  PROVE  Aged'
<1>1. ASSUME NEW m \in Messages, NEW n \in Messages, n < m, rowKind'[m] = "event", rowKind'[n] = "event",
             row'[m] \in {"sending", "sent", "failed"}
      PROVE  Behind(n)'
  <2>1. CASE row[m] \in Begun
    <3>1. row[n] # "none" /\ row[m] # "none"
      BY <1>1, <2>1 DEF Filed, Begun
    <3>2. rowKind[m] = "event" /\ rowKind[n] = "event"
      BY <1>1, <3>1, RowsGo
    <3>3. Behind(n)
      BY <1>1, <2>1, <3>2 DEF Aged, Begun
    <3> QED
      BY <3>3, BehindStays
  <2>2. CASE row[m] \notin Begun
    <3>1. PICK l \in Loops : m = Head(loops[l].batch) /\ loops[l].pc \in Listed \ {"pulled"}
      BY <1>1, <2>2, RowSteps DEF OutboxTypeOK, Begun, Listed, Claimed
    <3>2. PICK b \in Seq(Messages) : b = loops[l].batch /\ b # <<>>
      BY <3>1, HeadOfList
    <3>3. 1 \in DOMAIN b /\ b[1] = m /\ \A j \in DOMAIN b : j \in Nat /\ ~(j < 1)
      <4>1. \A j \in DOMAIN b : j \in 1..Len(b) /\ Len(b) \in Nat
        BY LenProperties
      <4> QED
        BY <3>1, <3>2, <4>1, Rest
    <3> QED
      BY <1>1, <3>1, <3>2, <3>3, AgedListStays
  <2> QED
    BY <2>1, <2>2
<1>2. ASSUME NEW t \in Targets PROVE Ordered(inbox'[t], rowKind', excused')
  <2>1. \A p : Got(inbox[t], p) => p \in Messages /\ row[p] \in Begun /\ rowKind'[p] = rowKind[p]
    <3> SUFFICES ASSUME NEW p, Got(inbox[t], p) PROVE p \in Messages /\ row[p] \in Begun /\ rowKind'[p] = rowKind[p]
      OBVIOUS
    <3>1. inbox[t] \in Seq(Messages)
      BY DEF OutboxTypeOK
    <3>2. p \in Messages
      BY <3>1, ElementOfSeq, LenProperties DEF Got
    <3>3. row[p] \in Begun
      BY <3>2 DEF Filed, OutboxTypeOK, Begun
    <3> QED
      BY <3>2, <3>3, RowsGo DEF Begun
  <2>2. Ordered(inbox[t], rowKind', excused')
    <3>1. Ordered(inbox[t], rowKind, excused)
      BY DEF Aged
    <3>2. \A i \in DOMAIN inbox[t] : Got(inbox[t], inbox[t][i])
      BY DEF Got
    <3> QED
      BY <2>1, <3>1, <3>2, ExcusesStay DEF Ordered
  <2>3. ASSUME NEW m \in Messages, inbox'[t] = Append(inbox[t], m), FromLate(t, m) \/ \E l \in Loops : FromLoop(l, t, m)
        PROVE  Ordered(inbox'[t], rowKind', excused')
    <3>1. row[m] \in Begun /\ (row[m] \in {"sent", "failed"} => m \in excused)
      BY <2>3, Arriving DEF Begun
    <3>2. rowKind'[m] = rowKind[m]
      BY <3>1, RowsGo DEF Begun
    <3>3. ASSUME NEW p, Got(inbox[t], p), rowKind'[p] = "event", rowKind'[m] = "event", m < p PROVE m \in excused'
      <4>1. Behind(m)
        BY <2>1, <3>2, <3>3 DEF Aged, Begun
      <4> QED
        BY <3>1, <4>1, ExcusesStay DEF Behind
    <3>4. inbox[t] \in Seq(Messages)
      BY DEF OutboxTypeOK
    <3> QED
      BY <2>2, <2>3, <3>3, <3>4, Arrival
  <2> QED
    BY <2>2, <2>3, Deliveries
<1>3. ASSUME NEW l \in Loops, loops[l].pc \in Listed, loops'[l].batch = loops[l].batch
      PROVE  AgedList(loops[l].batch)'
  BY <1>3, AgedListStays DEF AgedList
<1>4. ASSUME NEW l \in Loops, LoopStep(l), loops'[l].pc \in Listed PROVE AgedList(loops[l].batch)'
  <2>1. ASSUME NEW p \in Pcs, Goto(l, p), loops[l].pc \in Listed PROVE AgedList(loops[l].batch)'
    BY <1>3, <2>1, Lands
  <2>2. ASSUME EndLoop(l) PROVE FALSE
    BY <1>4, <2>2, Lands DEF Listed, Claimed
  <2>3. ASSUME NextMessage(l), loops[l].pc \in Listed \ {"pulled"},
               NEW m \in Messages, m = Head(loops[l].batch), Behind(m)'
        PROVE  AgedList(loops[l].batch)'
    <3>1. PICK b \in Seq(Messages), c \in Seq(Messages) :
            b = loops[l].batch /\ b # <<>> /\ c = Tail(b) /\ loops'[l].batch = c
      BY <2>3, HeadOfList, Lands
    <3>2. /\ 1 \in DOMAIN b /\ b[1] = Head(b)
          /\ \A i \in DOMAIN c : i + 1 \in DOMAIN b /\ c[i] = b[i + 1] /\ i \in Nat \ {0}
          /\ \A i \in DOMAIN b : i \in Nat /\ (i = 1 \/ (i - 1 \in DOMAIN c /\ c[i - 1] = b[i]))
      <4>1. b # <<>> /\ c = Tail(b)
        BY <3>1
      <4> QED BY <4>1, Rest
    <3>3. ASSUME NEW i \in DOMAIN c, NEW n \in Messages, n < c[i], rowKind'[c[i]] = "event", rowKind'[n] = "event"
          PROVE  Behind(n)' \/ \E j \in DOMAIN c : j < i /\ c[j] = n
      <4>1. i + 1 \in DOMAIN b /\ c[i] = b[i + 1]
        BY <3>2
      <4>2. Behind(n)' \/ \E j \in DOMAIN b : j < i + 1 /\ b[j] = n
        BY <2>3, <3>1, <3>3, <4>1, AgedListStays
      <4>3. ASSUME NEW j \in DOMAIN b, j < i + 1, b[j] = n PROVE Behind(n)' \/ \E k \in DOMAIN c : k < i /\ c[k] = n
        <5>1. CASE j = 1
          <6>1. n = m
            BY <2>3, <3>1, <3>2, <4>3, <5>1
          <6> QED
            BY <2>3, <6>1
        <5>2. CASE j # 1
          <6>1. j - 1 \in DOMAIN c /\ c[j - 1] = n /\ j \in Nat /\ i \in Nat
            BY <3>2, <4>3, <5>2
          <6>2. j - 1 < i
            BY <4>3, <6>1
          <6> QED
            BY <6>1, <6>2
        <5> QED
          BY <5>1, <5>2
      <4> QED
        BY <4>2, <4>3
    <3> QED
      BY <3>1, <3>3 DEF AgedList
  <2>4. CASE Pull(l)
    <3>1. PICK n \in 0..Limit : loops'[l].batch \in [1..n -> Messages]
      BY <2>4, Lands
    <3>2. PICK b \in [1..n -> Messages] : b = loops'[l].batch /\ Pulled(b)
      BY <2>4, <3>1, Lands
    <3>3. row' = row /\ rowKind' = rowKind /\ excused' = excused /\ loops[l].pc = "pull"
      BY <2>4 DEF Pull, rows
    <3>4. ASSUME NEW i \in 1..n, NEW x \in Messages, x < b[i], rowKind[b[i]] = "event", rowKind[x] = "event"
          PROVE  Behind(x) \/ \E j \in 1..n : j < i /\ b[j] = x
      <4>0. b[i] \in Messages /\ x \in Nat /\ b[i] \in Nat
        BY Rows
      <4>1. row[b[i]] # "none" /\ ~Precedes(b[i], x)
        BY <3>2, <3>4, <4>0 DEF Pulled, Claimable, Precedes
      <4>2. row[x] # "none"
        BY <3>4, <4>0, <4>1 DEF Filed
      <4>3. CASE row[x] \in {"sent", "failed"}
        BY <4>3 DEF Behind
      <4>4. CASE row[x] = "sending"
        <5>1. \A k \in Loops : ~Holds(k, x)
          BY <1>4, <3>3, HoldsOne DEF Claimed
        <5> QED
          BY <4>4, <5>1 DEF Attended, Behind
      <4>5. CASE row[x] = "queued"
        <5>1. Claimable(x)
          BY <4>5 DEF Claimable
        <5>2. PICK j \in 1..n : b[j] = x
          BY <3>2, <4>1, <5>1 DEF Pulled
        <5>3. ~(i < j) /\ i # j
          BY <3>2, <3>4, <4>0, <4>1, <5>2 DEF Pulled
        <5> QED
          BY <5>2, <5>3
      <4> QED
        BY <4>2, <4>3, <4>4, <4>5 DEF OutboxTypeOK
    <3>5. \A x : Behind(x)' <=> Behind(x)
      BY <3>3 DEF Behind
    <3> QED
      BY <3>2, <3>3, <3>4, <3>5 DEF AgedList
  <2>5. CASE Batch(l)
    BY <2>1, <2>2, <2>5, Strings DEF Batch, Listed
  <2>6. CASE LoopFails(l)
    BY <2>2, <2>6 DEF LoopFails
  <2>7. CASE ResolveDeliveries(l)
    BY <1>3, <2>7, Lands DEF ResolveDeliveries, Listed
  <2>8. CASE Claim(l)
    <3>1. loops[l].pc = "claim"
      BY <2>8 DEF Claim
    <3>2. PICK b \in Seq(Messages) : b = loops[l].batch /\ b # <<>> /\ ListOf(l, b)
      BY <3>1, HeadOfList DEF Lists, Listed
    <3>3. Claimable(Head(b))
      BY <3>1, <3>2, Rest DEF ListOf, Ready, Holds, Claimed
    <3> QED
      BY <2>1, <2>8, <3>1, <3>2, <3>3, Strings DEF Claim, Listed
  <2>9. CASE Hydrate(l)
    BY <1>3, <2>9, Lands DEF Hydrate, Listed, Claimed
  <2>10. CASE DispatchFails(l)
    BY <2>1, <2>10, Strings DEF DispatchFails, Listed, Claimed
  <2>11. ASSUME NEW t \in Targets, SendSucceeds(l, t) PROVE AgedList(loops[l].batch)'
    BY <1>3, <2>11, Lands DEF SendSucceeds, Listed, Claimed
  <2>12. ASSUME NEW t \in Targets, SendFails(l, t) PROVE AgedList(loops[l].batch)'
    BY <2>1, <2>12, Strings DEF SendFails, Listed, Claimed
  <2>13. CASE ReportSent(l)
    <3>1. loops[l].pc \in Listed \ {"pulled"} /\ NextMessage(l)
      BY <2>13 DEF ReportSent, Listed, Claimed
    <3>2. PICK m \in Messages : m = Head(loops[l].batch)
      BY <3>1, HeadOfList
    <3>3. row'[m] = "sent"
      BY <2>13, <3>2 DEF ReportSent, OutboxTypeOK
    <3> QED
      BY <2>3, <3>1, <3>2, <3>3 DEF Behind
  <2>14. CASE ReportFailed(l)
    <3>1. loops[l].pc \in Listed \ {"pulled"} /\ NextMessage(l)
      BY <2>14 DEF ReportFailed, Listed, Claimed
    <3>2. PICK m \in Messages : m = Head(loops[l].batch)
      BY <3>1, HeadOfList
    <3>3. row'[m] = "failed"
      BY <2>14, <3>2 DEF ReportFailed, OutboxTypeOK
    <3> QED
      BY <2>3, <3>1, <3>2, <3>3 DEF Behind
  <2>15. CASE ReportFailedFails(l)
    <3>1. loops[l].pc \in Listed \ {"pulled"} /\ NextMessage(l)
      BY <2>15 DEF ReportFailedFails, Listed, Claimed
    <3>2. PICK m \in Messages : m = Head(loops[l].batch)
      BY <3>1, HeadOfList
    <3>3. m \in excused'
      BY <2>15, <3>2 DEF ReportFailedFails
    <3> QED
      BY <2>3, <3>1, <3>2, <3>3 DEF Behind
  <2> QED
    BY <1>4, <2>4, <2>5, <2>6, <2>7, <2>8, <2>9, <2>10, <2>11, <2>12, <2>13, <2>14, <2>15 DEF LoopStep, Send
<1>5. ASSUME NEW l \in Loops, loops'[l].pc \in Listed PROVE AgedList(loops[l].batch)'
  <2>1. CASE loops'[l] = loops[l]
    BY <1>3, <1>5, <2>1
  <2>2. ASSUME NEW k \in Loops, LoopStep(k) PROVE AgedList(loops[l].batch)'
    <3>1. k = l
      BY <1>5, <2>2, Others DEF Listed, Claimed
    <3> QED
      BY <1>4, <1>5, <2>2, <3>1
  <2>3. RequestDispatch => loops'[l] = loops[l]
    BY <1>5, Asked DEF Listed, Claimed
  <2>4. ~Crash
    BY <1>5, Standing DEF Crash, Listed, Claimed
  <2> QED
    BY <2>1, <2>2, <2>3, <2>4 DEF OutboxNext, Enqueue, PublishWake, LeaseExpires, LateSend, Poll, Boot, outboxVars
<1> QED
  BY <1>1, <1>2, <1>5 DEF Aged

-----------------------------------------------------------------------------
\* The wake-ups.

LEMMA WokenKept ==
  ASSUME OutboxTypeOK, Lists, Single, Woken, [OutboxNext]_outboxVars
  PROVE  Woken'
<1> DEFINE Heard(l) == loops'[l].pc = "pulled" /\ loops'[l].batch = <<>> =>
                         \A m \in Messages : row'[m] = "queued" => m \in wakes' \/ requested'
<1>1. ASSUME NEW l \in Loops, loops'[l].pc # "pulled" PROVE Heard(l)
  BY <1>1
<1>2. ASSUME UNCHANGED <<loops, apiUp, dispatching, requested, aborted>>,
             \A m \in Messages : row'[m] = "queued" => (row[m] = "queued" /\ (m \in wakes => m \in wakes')) \/ m \in wakes'
      PROVE  Woken'
  BY <1>2 DEF Woken, NoIdleBacklog
<1>3. ASSUME RequestDispatch, UNCHANGED row, UNCHANGED apiUp \/ Boot PROVE Woken'
  <2>1. dispatching'
    BY <1>3, Asked
  <2>2. ASSUME NEW l \in Loops, requested' \/ loops'[l].pc # "pulled" PROVE Heard(l)
    BY <2>2
  <2> QED
    BY <1>3, <2>1, <2>2, Asked DEF Woken, NoIdleBacklog
<1>4. ASSUME NEW m \in Messages, Enqueue(m) PROVE Woken'
  BY <1>2, <1>4 DEF Enqueue, OutboxTypeOK
<1>5. ASSUME NEW m \in Messages, PublishWake(m) PROVE Woken'
  BY <1>3, <1>5 DEF PublishWake, rows
<1>6. ASSUME NEW m \in Messages, LeaseExpires(m) PROVE Woken'
  BY <1>2, <1>6 DEF LeaseExpires
<1>7. ASSUME NEW s \in late, LateSend(s) PROVE Woken'
  BY <1>2, <1>7 DEF LateSend, rows
<1>8. ASSUME Poll \/ Boot PROVE Woken'
  BY <1>3, <1>8 DEF Poll, Boot, rows
<1>9. ASSUME Crash PROVE Woken'
  BY <1>9, Standing DEF Crash, Woken, NoIdleBacklog
<1>10. CASE UNCHANGED outboxVars
  BY <1>2, <1>10 DEF outboxVars, rows
<1>11. ASSUME NEW l \in Loops, LoopStep(l) PROVE Woken'
  <2>1. dispatching /\ apiUp
    BY <1>11, StepsOfBusy DEF Single
  <2>2. \A k \in Loops : k # l => loops'[k].pc = "off"
    BY <1>11, Others
  <2>3. ASSUME EndLoop(l), UNCHANGED <<row, wakes, apiUp>>,                requested \/ aborted' \/ (loops[l].pc = "pulled" /\ loops[l].batch = <<>>)
        PROVE  Woken'
    <3>1. loops'[l].pc # "pulled"
      BY <2>3, Lands
    <3>2. NoIdleBacklog'
      BY <2>3 DEF EndLoop, Woken, NoIdleBacklog
    <3> QED
      BY <2>2, <3>1, <3>2 DEF Woken
  <2>4. ASSUME UNCHANGED dispatching, Heard(l) PROVE Woken'
    BY <2>1, <2>2, <2>4 DEF Woken, NoIdleBacklog
  <2>5. CASE Pull(l)
    <3>1. PICK n \in 0..Limit : loops'[l].batch \in [1..n -> Messages]
      BY <2>5, Lands
    <3>2. PICK b \in [1..n -> Messages] : b = loops'[l].batch /\ Pulled(b)
      BY <2>5, <3>1, Lands
    <3>3. b = <<>> => \A m \in Messages : row[m] # "queued"
      <4>1. b = <<>> => Len(b) # Limit /\ DOMAIN b = {}
        BY PulledRows, OutboxAssumption
      <4> QED
        BY <3>2, <4>1 DEF Pulled, Claimable
    <3> QED
      BY <2>4, <2>5, <3>2, <3>3 DEF Pull, rows
  <2>6. CASE Batch(l)
    <3>1. CASE loops[l].batch = <<>>
      BY <2>3, <2>6, <3>1 DEF Batch, rows
    <3>2. CASE loops[l].batch # <<>>
      BY <1>1, <2>4, <2>6, <3>2, Lands, Strings DEF Batch
    <3> QED
      BY <3>1, <3>2
  <2>7. CASE LoopFails(l)
    <3>1. EndLoop(l) /\ UNCHANGED <<row, wakes, apiUp>> /\ aborted' = ~requested
      BY <2>7 DEF LoopFails, rows
    <3>2. requested \/ aborted'
      BY <3>1
    <3> QED
      BY <2>3, <3>1, <3>2
  <2>8. ASSUME NEW p \in Pcs \ {"pulled"}, Goto(l, p) PROVE Heard(l)
    BY <1>1, <2>8, Lands
  <2>9. NextMessage(l) /\ loops[l].pc \in Listed \ {"pulled"} => Heard(l)
    BY <1>1, Lands DEF AfterRow
  <2>10. CASE ResolveDeliveries(l)
    BY <1>1, <2>4, <2>10, Lands DEF ResolveDeliveries
  <2>11. CASE Claim(l)
    BY <2>4, <2>8, <2>9, <2>11, Strings DEF Claim, Listed
  <2>12. CASE Hydrate(l)
    <3>1. loops'[l].pc \in {"send", "reportSent"}
      BY <2>12, Lands
    <3> QED
      BY <1>1, <2>4, <2>12, <3>1 DEF Hydrate
  <2>13. CASE DispatchFails(l)
    BY <2>4, <2>8, <2>13, Strings DEF DispatchFails
  <2>14. ASSUME NEW t \in Targets, SendSucceeds(l, t) PROVE Woken'
    <3>1. loops'[l].pc \in {"send", "reportSent"}
      BY <2>14, Lands
    <3> QED
      BY <1>1, <2>4, <2>14, <3>1 DEF SendSucceeds
  <2>15. ASSUME NEW t \in Targets, SendFails(l, t) PROVE Woken'
    BY <2>4, <2>8, <2>15, Strings DEF SendFails
  <2>16. CASE ReportSent(l)
    BY <2>4, <2>9, <2>16 DEF ReportSent, Listed, Claimed
  <2>17. CASE ReportFailed(l)
    BY <2>4, <2>9, <2>17 DEF ReportFailed, Listed, Claimed
  <2>18. CASE ReportFailedFails(l)
    BY <2>4, <2>9, <2>18 DEF ReportFailedFails, Listed, Claimed
  <2> QED
    BY <1>11, <2>5, <2>6, <2>7, <2>10, <2>11, <2>12, <2>13, <2>14, <2>15, <2>16, <2>17, <2>18 DEF LoopStep, Send
<1> QED
  BY <1>4, <1>5, <1>6, <1>7, <1>8, <1>9, <1>10, <1>11 DEF OutboxNext

-----------------------------------------------------------------------------
\* The theorems.

LEMMA Inductive ==
  /\ OutboxInit => OutboxInv
  /\ OutboxInv /\ [OutboxNext]_outboxVars => OutboxInv'
<1>1. ASSUME OutboxInit PROVE OutboxInv
  <2>1. OutboxTypeOK
    <3>1. loops \in [Loops -> Loop] /\ inbox \in [Targets -> Seq(Messages)]
      BY <1>1, Standing, Strings, EmptySeq DEF OutboxInit
    <3>2. outboxFaults \in 0..MaxOutboxFaults
      BY <1>1, OutboxAssumption DEF OutboxInit
    <3>3. /\ row \in [Messages -> {"none", "queued", "sending", "sent", "failed"}]
          /\ rowKind \in [Messages -> {"event", "other"}]
          /\ lease \in [Messages -> {"none", "held", "expired"}]
      BY <1>1 DEF OutboxInit
    <3>4. /\ apiUp \in BOOLEAN /\ dispatching \in BOOLEAN /\ requested \in BOOLEAN /\ aborted \in BOOLEAN
          /\ wakes \subseteq Messages /\ excused \subseteq Messages /\ late \subseteq [msg : Messages, to : Targets]
      BY <1>1 DEF OutboxInit
    <3> QED
      BY <3>1, <3>2, <3>3, <3>4, LoopTypes
  <2>2. \A l \in Loops : loops[l].pc = "off"
    BY <1>1, Standing DEF OutboxInit
  <2>3. \A t \in Targets : inbox[t] = <<>> /\ DOMAIN inbox[t] = {}
    BY <1>1 DEF OutboxInit
  <2>4. Single /\ Lists /\ ToWeb /\ Attended /\ Woken
    BY <1>1, <2>2 DEF OutboxInit, Single, Busy, Lists, ToWeb, Attended, Woken, NoIdleBacklog, Listed, Claimed
  <2>5. Filed /\ Singly
    BY <1>1, <2>2, <2>3 DEF OutboxInit, Filed, Singly, Got, Once, Holds, Claimed
  <2>6. Aged
    BY <1>1, <2>2, <2>3 DEF OutboxInit, Aged, Ordered, Listed, Claimed
  <2> QED
    BY <2>1, <2>4, <2>5, <2>6 DEF OutboxInv
<1>2. ASSUME OutboxInv, [OutboxNext]_outboxVars PROVE OutboxInv'
  BY <1>2, TypesKept, SingleKept, ListsKept, ToWebKept, AttendedKept, FiledKept, SinglyKept, AgedKept, WokenKept
  DEF OutboxInv
<1> QED
  BY <1>1, <1>2

THEOREM OutboxInvariant == OutboxSpec => []OutboxInv
  BY Inductive, PTL DEF OutboxSpec

\* The state of the outbox is what the code can hold: rows, leases, loops and inboxes of their kinds.
THEOREM OutboxTypes == OutboxSpec => []OutboxTypeOK
<1>1. OutboxInv => OutboxTypeOK
  BY DEF OutboxInv
<1> QED
  BY <1>1, OutboxInvariant, PTL

\* Whatever crashes and fails, a row is sent twice or an event late only after a fault disturbed its
\* sending, and no queued row is left without its wake-up (dispatchLoop, claimOutboundForGateway).
THEOREM OutboxIsSafe == OutboxSpec => []OutboxSafe
<1>1. ASSUME OutboxInv PROVE DuplicateIsExcused
  <2> SUFFICES ASSUME NEW m \in Messages, NEW t \in Targets, m \notin excused PROVE ~(Times(m, t) > 1)
    BY DEF DuplicateIsExcused
  <2> DEFINE S == {i \in DOMAIN inbox[t] : inbox[t][i] = m}
  <2>1. \A i, j \in S : i = j
    BY <1>1 DEF OutboxInv, Singly, Once
  <2>2. S = {} \/ \E i : S = {i}
    BY <2>1
  <2>3. Cardinality(S) = 0 \/ Cardinality(S) = 1
    BY <2>2, FS_EmptySet, FS_Singleton
  <2> QED
    BY <2>3 DEF Times
<1>2. ASSUME OutboxInv PROVE EventsInOrder
  <2> SUFFICES ASSUME NEW t \in Targets, NEW i \in DOMAIN inbox[t], NEW j \in DOMAIN inbox[t],
                      i < j, rowKind[inbox[t][i]] = "event", rowKind[inbox[t][j]] = "event", inbox[t][j] < inbox[t][i]
               PROVE  inbox[t][j] \in excused
    BY DEF EventsInOrder
  <2> QED
    BY <1>2 DEF OutboxInv, Aged, Ordered
<1>3. OutboxInv => OutboxSafe
  BY <1>1, <1>2 DEF OutboxSafe, OutboxInv, Woken
<1> QED
  BY <1>3, OutboxInvariant, PTL

-----------------------------------------------------------------------------
\* The outbox implements Delivery.

\* Delivery sees a step through the rows, the inboxes and the excuses.
LEMMA Unseen ==
  ASSUME UNCHANGED <<row, inbox, excused>>
  PROVE  UNCHANGED <<Outcome, Reached, excused>>
  BY DEF Outcome, Reached

LEMMA SeesRow ==
  ASSUME OutboxTypeOK, NEW m \in Messages, NEW s \in {"queued", "sending", "sent", "failed"},
         row' = [row EXCEPT ![m] = s]
  PROVE  Outcome' = [Outcome EXCEPT ![m] = IF s \in {"queued", "sending"} THEN "open" ELSE s]
  BY DEF OutboxTypeOK, Outcome

LEMMA SeesArrival ==
  ASSUME OutboxTypeOK, NEW m \in Messages, NEW t \in Targets,
         \A u \in Targets : inbox'[u] = IF u = t THEN Append(inbox[u], m) ELSE inbox[u]
  PROVE  Reached' = [Reached EXCEPT ![m] = @ \cup {t}]
<1>1. \A u \in Targets : \A n : n \in ToSet(inbox'[u]) <=> n \in ToSet(inbox[u]) \/ (n = m /\ u = t)
  <2> SUFFICES ASSUME NEW u \in Targets, NEW n
               PROVE  n \in ToSet(inbox'[u]) <=> n \in ToSet(inbox[u]) \/ (n = m /\ u = t)
    OBVIOUS
  <2>1. \A box : n \in ToSet(box) <=> Got(box, n)
    BY DEF ToSet, Got
  <2>2. u = t => (Got(inbox'[u], n) <=> Got(inbox[u], n) \/ n = m)
    BY Arrival DEF OutboxTypeOK
  <2>3. u # t => inbox'[u] = inbox[u]
    OBVIOUS
  <2> QED
    BY <2>1, <2>2, <2>3
<1>2. ASSUME NEW n \in Messages
      PROVE  {u \in Targets : n \in ToSet(inbox'[u])} = IF n = m THEN {u \in Targets : n \in ToSet(inbox[u])} \cup {t}
                                                       ELSE {u \in Targets : n \in ToSet(inbox[u])}
  BY <1>1
<1> QED
  BY <1>2, ZenonT(60) DEF Reached

LEMMA StepsKeepPromise ==
  ASSUME OutboxInv, [OutboxNext]_outboxVars
  PROVE  [Promise!Next]_(Promise!deliveryVars)
<1> DEFINE Step == \E m \in Messages : Promise!Submit(m) \/ Promise!Settle(m) \/ Promise!Disturb(m)
                                         \/ \E t \in Targets : Promise!Reach(m, t)
           Stutter == UNCHANGED <<Outcome, Reached, excused>>
           OK == Step \/ Stutter
<1>1. OutboxTypeOK /\ Lists /\ Single /\ Attended /\ ToWeb
  BY DEF OutboxInv
<1>2. ASSUME UNCHANGED <<row, inbox, excused>> PROVE OK
  BY <1>2, Unseen
<1>3. \A m \in Messages : Outcome[m] = IF row[m] \in {"queued", "sending"} THEN "open" ELSE row[m]
  BY DEF Outcome
<1>4. ASSUME UNCHANGED row PROVE UNCHANGED Outcome
  BY <1>4 DEF Outcome
<1>5. ASSUME UNCHANGED inbox PROVE UNCHANGED Reached
  BY <1>5 DEF Reached
<1>6. ASSUME NEW m \in Messages, NEW t \in Targets, UNCHANGED <<row, excused>>,
             row[m] \in {"queued", "sending"} \/ (row[m] # "none" /\ m \in excused),
             inbox' = [inbox EXCEPT ![t] = Append(@, m)]
      PROVE  OK
  <2>1. Reached' = [Reached EXCEPT ![m] = @ \cup {t}]
    BY <1>1, <1>6, SeesArrival DEF OutboxTypeOK
  <2>2. Outcome[m] = "open" \/ (Outcome[m] # "none" /\ m \in excused)
    BY <1>3, <1>6
  <2>3. Promise!Reach(m, t)
    BY <1>4, <1>6, <2>1, <2>2 DEF Promise!Reach
  <2> QED
    BY <2>3
<1>7. ASSUME NEW m \in Messages, row[m] \in {"queued", "sending"}, UNCHANGED row, excused' = excused \cup {m},
             UNCHANGED inbox \/ \E t \in Targets : inbox' = [inbox EXCEPT ![t] = Append(@, m)]
      PROVE  OK
  <2>1. Outcome[m] = "open"
    BY <1>3, <1>7
  <2>2. Reached \in [Messages -> SUBSET Targets]
    BY DEF Reached
  <2>3. \E got \in SUBSET Targets : Reached' = [Reached EXCEPT ![m] = @ \cup got]
    <3>1. CASE UNCHANGED inbox
      <4>1. Reached' = [Reached EXCEPT ![m] = @ \cup {}]
        BY <1>5, <2>2, <3>1
      <4> QED
        BY <4>1
    <3>2. ASSUME NEW t \in Targets, inbox' = [inbox EXCEPT ![t] = Append(@, m)]
          PROVE  \E got \in SUBSET Targets : Reached' = [Reached EXCEPT ![m] = @ \cup got]
      <4>1. Reached' = [Reached EXCEPT ![m] = @ \cup {t}]
        BY <1>1, <3>2, SeesArrival DEF OutboxTypeOK
      <4>2. {t} \in SUBSET Targets
        OBVIOUS
      <4> QED
        BY <4>1, <4>2
    <3> QED
      BY <1>7, <3>1, <3>2
  <2>4. Promise!Disturb(m)
    BY <1>4, <1>7, <2>1, <2>3 DEF Promise!Disturb
  <2> QED
    BY <2>4
<1>8. ASSUME NEW m \in Messages, Enqueue(m) PROVE OK
  <2>1. Outcome[m] = "none"
    BY <1>3, <1>8 DEF Enqueue
  <2>2. Outcome' = [Outcome EXCEPT ![m] = "open"]
    BY <1>1, <1>8, SeesRow DEF Enqueue
  <2>3. Promise!Submit(m)
    BY <1>5, <1>8, <2>1, <2>2 DEF Promise!Submit, Enqueue
  <2> QED
    BY <2>3
<1>9. ASSUME NEW s \in late, LateSend(s) PROVE OK
  <2>1. s.msg \in Messages /\ s.to \in Targets
    BY <1>1 DEF OutboxTypeOK
  <2>2. row[s.msg] # "none" /\ s.msg \in excused
    BY <1>1 DEF Attended
  <2>3. inbox' = inbox \/ inbox' = [inbox EXCEPT ![s.to] = Append(@, s.msg)]
    BY <1>9 DEF LateSend
  <2>4. UNCHANGED <<row, excused>>
    BY <1>9 DEF LateSend, rows
  <2> QED
    BY <1>2, <1>6, <2>1, <2>2, <2>3, <2>4
<1>10. ASSUME Crash PROVE OK
  <2> DEFINE claimed == {l \in Loops : loops[l].pc \in {"hydrate", "send", "reportSent", "reportFailed"}}
  <2>1. UNCHANGED <<row, inbox>> /\ excused' = excused \cup {Head(loops[l].batch) : l \in claimed}
    BY <1>10 DEF Crash, rows
  <2>2. CASE claimed = {}
    BY <1>2, <2>1, <2>2
  <2>3. ASSUME NEW l \in claimed PROVE OK
    <3>1. claimed = {l}
      BY <1>1 DEF Single, Busy
    <3>2. excused' = excused \cup {Head(loops[l].batch)}
      BY <2>1, <3>1
    <3>3. Head(loops[l].batch) \in Messages /\ row[Head(loops[l].batch)] \in {"queued", "sending"}
      BY <1>1, HeadOfList, HeadRow DEF Listed, Claimed
    <3> QED
      BY <1>7, <2>1, <3>2, <3>3
  <2> QED
    BY <2>2, <2>3
<1>11. ASSUME NEW l \in Loops, LoopStep(l) PROVE OK
  <2>1. PICK m : m = Head(loops[l].batch)
    OBVIOUS
  <2>2. loops[l].pc \in Listed \ {"pulled"} => m \in Messages /\ row[m] \in {"queued", "sending"}
    BY <1>1, <2>1, HeadOfList, HeadRow
  <2>3. CASE Claim(l)
    <3>1. m \in Messages /\ row[m] \in {"queued", "sending"}
      BY <2>2, <2>3 DEF Claim, Listed
    <3>2. UNCHANGED row \/ row' = [row EXCEPT ![m] = "sending"]
      BY <2>1, <2>3 DEF Claim
    <3>3. UNCHANGED Outcome
      <4>1. CASE row' = [row EXCEPT ![m] = "sending"]
        BY <1>1, <3>1, <4>1 DEF Outcome, OutboxTypeOK
      <4> QED
        BY <1>4, <3>2, <4>1
    <3> QED
      BY <1>5, <2>3, <3>3 DEF Claim
  <2>4. CASE Hydrate(l)
    <3>1. m \in Messages /\ row[m] \in {"queued", "sending"} /\ Web \in loops[l].to
      BY <1>1, <2>2, <2>4 DEF Hydrate, Listed, Claimed, ToWeb
    <3>2. inbox' = [inbox EXCEPT ![Web] = Append(@, m)]
      BY <1>1, <2>1, <2>4, <3>1, Strings DEF Hydrate, OutboxTypeOK
    <3> QED
      BY <1>6, <2>4, <3>1, <3>2, Strings DEF Hydrate, rows
  <2>5. ASSUME NEW t \in Targets, SendSucceeds(l, t) PROVE OK
    <3>1. m \in Messages /\ row[m] \in {"queued", "sending"}
      BY <2>2, <2>5 DEF SendSucceeds, Listed, Claimed
    <3>2. inbox' = [inbox EXCEPT ![t] = Append(@, m)] /\ UNCHANGED <<row, excused>>
      BY <2>1, <2>5 DEF SendSucceeds, rows
    <3> QED
      BY <1>6, <3>1, <3>2
  <2>6. ASSUME NEW t \in Targets, SendFails(l, t) PROVE OK
    <3>1. m \in Messages /\ row[m] \in {"queued", "sending"}
      BY <2>2, <2>6 DEF SendFails, Listed, Claimed
    <3>2. inbox' = inbox \/ inbox' = [inbox EXCEPT ![t] = Append(@, m)]
      BY <2>1, <2>6 DEF SendFails
    <3>3. UNCHANGED row /\ (excused' = excused \/ excused' = excused \cup {m})
      BY <2>1, <2>6 DEF SendFails, rows
    <3> QED
      BY <1>2, <1>6, <1>7, <3>1, <3>2, <3>3
  <2>7. CASE ReportSent(l)
    <3>1. m \in Messages /\ row[m] \in {"queued", "sending"}
      BY <2>2, <2>7 DEF ReportSent, Listed, Claimed
    <3>2. row' = [row EXCEPT ![m] = "sent"]
      BY <2>1, <2>7 DEF ReportSent
    <3>3. Outcome[m] = "open" /\ Outcome' = [Outcome EXCEPT ![m] = "sent"]
      BY <1>1, <1>3, <3>1, <3>2, SeesRow
    <3>4. {Web} \subseteq Reached[m]
      <4>1. Got(inbox[Web], m)
        BY <1>1, <2>1, <2>7 DEF ReportSent, ToWeb
      <4>2. m \in ToSet(inbox[Web])
        BY <4>1 DEF ToSet, Got
      <4> QED
        BY <3>1, <4>2, Strings DEF Reached
    <3>5. UNCHANGED <<Reached, excused>>
      BY <1>5, <2>7 DEF ReportSent
    <3>6. Promise!Settle(m)
      BY <3>3, <3>4, <3>5 DEF Promise!Settle
    <3> QED
      BY <3>1, <3>6
  <2>8. CASE ReportFailed(l)
    <3>1. m \in Messages /\ row[m] \in {"queued", "sending"}
      BY <2>2, <2>8 DEF ReportFailed, Listed, Claimed
    <3>2. row' = [row EXCEPT ![m] = "failed"]
      BY <2>1, <2>8 DEF ReportFailed
    <3>3. Outcome[m] = "open" /\ Outcome' = [Outcome EXCEPT ![m] = "failed"]
      BY <1>1, <1>3, <3>1, <3>2, SeesRow
    <3>4. UNCHANGED <<Reached, excused>>
      BY <1>5, <2>8 DEF ReportFailed
    <3>5. Promise!Settle(m)
      BY <3>3, <3>4 DEF Promise!Settle
    <3> QED
      BY <3>1, <3>5
  <2>9. CASE ReportFailedFails(l)
    <3>1. m \in Messages /\ row[m] \in {"queued", "sending"}
      BY <2>2, <2>9 DEF ReportFailedFails, Listed, Claimed
    <3>2. UNCHANGED <<row, inbox>> /\ excused' = excused \cup {m}
      BY <2>1, <2>9 DEF ReportFailedFails, rows
    <3> QED
      BY <1>7, <3>1, <3>2
  <2>10. Pull(l) \/ Batch(l) \/ LoopFails(l) \/ ResolveDeliveries(l) \/ DispatchFails(l) => OK
    BY <1>2 DEF Pull, Batch, LoopFails, ResolveDeliveries, DispatchFails, rows
  <2> QED
    BY <1>11, <2>3, <2>4, <2>5, <2>6, <2>7, <2>8, <2>9, <2>10 DEF LoopStep, Send
<1>12. Poll \/ Boot \/ UNCHANGED outboxVars \/ (\E m \in Messages : PublishWake(m) \/ LeaseExpires(m)) => OK
  BY <1>2 DEF Poll, Boot, PublishWake, LeaseExpires, outboxVars, rows
<1> HIDE DEF OK
<1>13. OK
  BY <1>8, <1>9, <1>10, <1>11, <1>12 DEF OutboxNext
<1> QED
  BY <1>13 DEF OK, Promise!Next, Promise!deliveryVars

\* The outbox implements Delivery: a row is handed out only after it was queued, it is settled once, it has
\* reached the web plugin if it is settled as sent, and what comes after that was disturbed by a fault
\* before (dispatchOne, reportOutboundResultForGateway).
THEOREM OutboxKeepsPromise == OutboxSpec => KeepsPromise
<1>1. OutboxInit => Promise!Init
  <2> SUFFICES ASSUME OutboxInit PROVE Promise!Init
    OBVIOUS
  <2>1. Outcome = [m \in Messages |-> "none"]
    BY DEF OutboxInit, Outcome
  <2>2. Reached = [m \in Messages |-> {}]
    BY DEF OutboxInit, Reached, ToSet
  <2>3. excused = {}
    BY DEF OutboxInit
  <2> QED
    BY <2>1, <2>2, <2>3 DEF Promise!Init
<1> QED
  BY <1>1, OutboxInvariant, StepsKeepPromise, PTL DEF OutboxSpec, KeepsPromise, Promise!Spec

-----------------------------------------------------------------------------
\* Inbound messages (DiscordInbound).

\* A message is in work exactly while its handler runs, and is not worked on again once processed;
\* it was acted on when it was processed, or when only the publication is left, unless a call failed.
WorkedOnce(m) ==
  /\ m \in processing <=> handler[m] # "rest"
  /\ m \notin disturbed =>
       /\ m \in processed => handler[m] = "rest"
       /\ acted[m] = IF m \in processed \/ handler[m] = "publish" THEN 1 ELSE 0

InboundInv == InboundTypeOK /\ \A m \in Inbound : WorkedOnce(m)

\* Only the message of a step changes, and it keeps to WorkedOnce.
LEMMA InboundInductive == InboundInv /\ [InboundNext]_inboundVars => InboundInv'
<1> SUFFICES ASSUME InboundInv, [InboundNext]_inboundVars
             PROVE  InboundInv'
  OBVIOUS
<1> USE InboundAssumption DEF InboundInv, InboundTypeOK, WorkedOnce, inboundSources, seenSets, inboundHistory
<1>1. CASE UNCHANGED inboundVars
  BY <1>1 DEF inboundVars
<1>2. CASE SessionTurnMoves
  BY <1>2 DEF SessionTurnMoves
<1>3. ASSUME NEW m \in Inbound, RawPacket(m) PROVE InboundInv'
  BY <1>3 DEF RawPacket
<1>4. ASSUME NEW m \in Inbound, MessageCreate(m) PROVE InboundInv'
  BY <1>4 DEF MessageCreate, TryBeginMessageProcessing, IsMessageHandledOrInFlight
<1>5. ASSUME NEW m \in Inbound, FallbackTimer(m) PROVE InboundInv'
  BY <1>5 DEF FallbackTimer, TryBeginMessageProcessing, IsMessageHandledOrInFlight
<1>6. ASSUME NEW m \in Inbound, HandlerFails(m) PROVE InboundInv'
  BY <1>6 DEF HandlerFails, InboundFault, Throw, Finish
<1>7. ASSUME NEW m \in Inbound, ReadSteerableTurn(m) PROVE InboundInv'
  BY <1>7 DEF ReadSteerableTurn
<1>8. ASSUME NEW m \in Inbound, SteerAccepted(m) PROVE InboundInv'
  BY <1>8 DEF SteerAccepted, Succeed, Finish
<1>9. ASSUME NEW m \in Inbound, SteerRefused(m) PROVE InboundInv'
  BY <1>9 DEF SteerRefused, InboundFault
<1>10. ASSUME NEW m \in Inbound, CreateTurn(m) PROVE InboundInv'
  BY <1>10 DEF CreateTurn
<1>11. ASSUME NEW m \in Inbound, CreateTurnConflict(m) PROVE InboundInv'
  BY <1>11 DEF CreateTurnConflict, InboundFault, Throw, Finish
<1>12. ASSUME NEW m \in Inbound, Publish(m) PROVE InboundInv'
  BY <1>12 DEF Publish, InboundFault, Succeed, Throw, Finish
<1> QED
  BY <1>1, <1>2, <1>3, <1>4, <1>5, <1>6, <1>7, <1>8, <1>9, <1>10, <1>11, <1>12 DEF InboundNext, HandlerStep

THEOREM InboundInvariant == InboundSpec => []InboundInv
<1>1. InboundInit => InboundInv
  BY InboundAssumption DEF InboundInit, InboundInv, InboundTypeOK, WorkedOnce
<1> QED
  BY <1>1, InboundInductive, PTL DEF InboundSpec

\* A message reported by two sources, steered or turned into a turn, is acted on at most once, unless a
\* call made for it failed (tryBeginMessageProcessing, enqueueInboundTurn).
THEOREM ActsOnce == InboundSpec => []ActedOnce
<1>1. InboundInv => ActedOnce
  BY DEF InboundInv, WorkedOnce, ActedOnce
<1> QED
  BY <1>1, InboundInvariant, PTL

-----------------------------------------------------------------------------
\* The health of the connection (DiscordRuntime).

\* What the row will say once every write has run, "unsure" if the last of them is late or failed.
Says(h, b) == IF b THEN "unsure" ELSE h
Final(h, b, writes) ==
  IF writes = <<>> THEN Says(h, b) ELSE Says(writes[Len(writes)].shows, writes[Len(writes)].late)
Shown == Final(health, amiss, writing)

\* The last write says what is true when nothing is under way; a connection given up stays shown as such.
ShownTruly ==
  /\ runtime # 0 /\ dead => Shown \in {"error", "unsure"}
  /\ runtime # 0 /\ ~dead /\ ~loggingIn /\ ~timer /\ recovering = "no" => Shown \in {"ok", "unsure"}

RuntimeInv == RuntimeTypeOK /\ (dead \/ attempt <= MaxAttempts) /\ ShownTruly

Versions == 0..MaxVersions + 1
Reconciliations == [pc : {"idle", "compare", "create", "login"}, seen : Versions]
Plain ==
  /\ wanted \in Versions /\ versions \in 0..MaxVersions /\ runtime \in Versions
  /\ dead \in BOOLEAN /\ loggingIn \in BOOLEAN /\ timer \in BOOLEAN /\ online \in BOOLEAN
  /\ recovering \in {"no", "destroy", "login"} /\ attempt \in 0..MaxAttempts + 1
  /\ strays \in Nat /\ health \in {"ok", "error"} /\ writing \in Seq(HealthWrites) /\ amiss \in BOOLEAN

\* A new write is the last one.
LEMMA Enqueued ==
  ASSUME NEW h, NEW a, NEW x \in {"ok", "error"}, NEW b \in BOOLEAN, NEW writes \in Seq(HealthWrites)
  PROVE  /\ Append(writes, [shows |-> x, late |-> b]) \in Seq(HealthWrites)
         /\ Final(h, a, Append(writes, [shows |-> x, late |-> b])) = Says(x, b)
<1>1. PICK write : write = [shows |-> x, late |-> b]
  OBVIOUS
<1>2. write \in HealthWrites /\ write.shows = x /\ write.late = b
  BY <1>1 DEF HealthWrites
<1>3. Append(writes, write) \in Seq(HealthWrites) /\ Len(Append(writes, write)) = Len(writes) + 1
  BY <1>2, AppendProperties
<1>4. Append(writes, write)[Len(writes) + 1] = write
  BY <1>2, AppendProperties
<1>5. Append(writes, write) # <<>>
  BY <1>2, AppendProperties
<1>6. Final(h, a, Append(writes, write)) = Says(x, b)
  BY <1>2, <1>3, <1>4, <1>5 DEF Final
<1> QED BY <1>1, <1>3, <1>6

\* The first one that runs does not change which is the last, unless it is the last itself and fails.
LEMMA Written ==
  ASSUME NEW h, NEW a, NEW writes \in Seq(HealthWrites), writes # <<>>
  PROVE  /\ Head(writes).shows \in {"ok", "error"} /\ Head(writes).late \in BOOLEAN
         /\ Tail(writes) \in Seq(HealthWrites)
         /\ Final(Head(writes).shows, Head(writes).late, Tail(writes)) = Final(h, a, writes)
         /\ Final(h, TRUE, Tail(writes)) \in {Final(h, a, writes), "unsure"}
<1>1. Head(writes) \in HealthWrites /\ Tail(writes) \in Seq(HealthWrites) /\ Head(writes) = writes[1]
  BY HeadTailProperties
<1>8. Head(writes).shows \in {"ok", "error"} /\ Head(writes).late \in BOOLEAN
  BY <1>1 DEF HealthWrites
<1>2. PICK n \in Nat : n = Len(writes)
  BY LenProperties
<1>3. n # 0
  BY <1>2, EmptySeq
<1>4. Len(Tail(writes)) = n - 1
  BY <1>2, HeadTailProperties
<1>5. CASE n = 1
  <2>1. Len(Tail(writes)) = 0
    BY <1>4, <1>5
  <2>2. Tail(writes) = <<>>
    BY <1>1, <2>1, EmptySeq
  <2>3. Final(h, TRUE, Tail(writes)) = "unsure"
    BY <2>2 DEF Final, Says
  <2>4. Final(Head(writes).shows, Head(writes).late, Tail(writes)) = Final(h, a, writes)
    BY <1>1, <1>2, <1>5, <2>2 DEF Final
  <2> QED BY <1>1, <1>8, <2>3, <2>4
<1>6. CASE n # 1
  <2>1. n - 1 \in 1..(n - 1) /\ n - 1 # 0
    BY <1>3, <1>6
  <2>2. Tail(writes)[n - 1] = writes[(n - 1) + 1]
    BY <1>4, <2>1, HeadTailProperties
  <2>3. (n - 1) + 1 = n
    OBVIOUS
  <2>4. Tail(writes) # <<>>
    BY <1>4, <2>1, EmptySeq
  <2>5. \A k, c : Final(k, c, Tail(writes)) = Final(h, a, writes)
    BY <1>2, <1>4, <2>2, <2>3, <2>4 DEF Final
  <2> QED BY <1>1, <1>8, <2>5
<1> QED BY <1>5, <1>6

\* The type of the connection: its reconciliation, and the rest.
LEMMA Reconciles ==
  /\ Resting \in Reconciliations
  /\ \A v \in Versions : [pc |-> "compare", seen |-> v] \in Reconciliations
  /\ \A r \in Reconciliations, c \in {"create", "login"} : [r EXCEPT !.pc = c] \in Reconciliations
  /\ \A r \in Reconciliations : r.seen \in Versions
<1>1. 0 \in Versions
  BY RuntimeAssumption DEF Versions
<1> QED BY <1>1 DEF Resting, Reconciliations

LEMMA Typed == RuntimeTypeOK <=> reconcile \in Reconciliations /\ Plain
  BY DEF RuntimeTypeOK, Reconciliations, Plain, Versions

\* A failure arms the timer for another attempt, or gives the connection up; either shows an error.
LEMMA Recovery ==
  ASSUME RuntimeInv, ScheduleRuntimeRecovery, health' = health, amiss' = amiss
  PROVE  /\ writing' \in Seq(HealthWrites) /\ dead' \in BOOLEAN /\ timer' \in BOOLEAN
         /\ attempt' \in 0..MaxAttempts + 1 /\ (dead' \/ attempt' <= MaxAttempts)
         /\ (dead \/ timer) => dead' = dead /\ timer' = timer /\ Shown' = Shown
         /\ ~(dead \/ timer) => Shown' = "error" /\ (dead' \/ timer')
<1>1. writing \in Seq(HealthWrites) /\ attempt \in 0..MaxAttempts + 1 /\ dead \in BOOLEAN /\ timer \in BOOLEAN
  BY DEF RuntimeInv, RuntimeTypeOK
<1>2. CASE dead \/ timer
  BY <1>1, <1>2 DEF ScheduleRuntimeRecovery, Shown, RuntimeInv
<1>3. CASE ~(dead \/ timer)
  <2>1. /\ writing' = Append(writing, [shows |-> "error", late |-> FALSE]) /\ attempt' = attempt + 1
        /\ timer' = (attempt < MaxAttempts) /\ dead' = (attempt >= MaxAttempts)
    BY <1>3 DEF ScheduleRuntimeRecovery, EnqueueHealthWrite
  <2>2. attempt \in Nat /\ attempt <= MaxAttempts
    BY <1>1, <1>3, RuntimeAssumption DEF RuntimeInv
  <2>3. writing' \in Seq(HealthWrites) /\ Final(health, amiss, writing') = "error"
    <3>1. PICK never \in BOOLEAN : never = FALSE
      OBVIOUS
    <3>2. /\ Append(writing, [shows |-> "error", late |-> never]) \in Seq(HealthWrites)
          /\ Final(health, amiss, Append(writing, [shows |-> "error", late |-> never])) = Says("error", never)
      BY <1>1, Enqueued
    <3>3. Says("error", FALSE) = "error"
      BY DEF Says
    <3> QED BY <2>1, <3>1, <3>2, <3>3
  <2>4. attempt' \in 0..MaxAttempts + 1 /\ dead' \in BOOLEAN /\ timer' \in BOOLEAN
    BY <2>1, <2>2, RuntimeAssumption
  <2>5. attempt < MaxAttempts => timer' /\ attempt' <= MaxAttempts
    <3>1. attempt < MaxAttempts => timer'
      BY <2>1
    <3>2. attempt < MaxAttempts => attempt + 1 <= MaxAttempts
      BY <2>2, RuntimeAssumption
    <3> QED BY <2>1, <3>1, <3>2
  <2>6. ~(attempt < MaxAttempts) => dead'
    <3>1. ~(attempt < MaxAttempts) => attempt >= MaxAttempts
      BY <2>2, RuntimeAssumption
    <3> QED BY <2>1, <3>1
  <2> QED BY <1>3, <2>1, <2>3, <2>4, <2>5, <2>6 DEF Shown
<1> QED BY <1>2, <1>3

\* One step for each action; what the reconciliation's record becomes comes apart.
LEMMA RuntimeInductive == RuntimeInv /\ [RuntimeNext]_runtimeVars => RuntimeInv'
<1> SUFFICES ASSUME RuntimeInv, [RuntimeNext]_runtimeVars
             PROVE  RuntimeInv'
  OBVIOUS
<1> DEFINE Bound == Plain /\ (dead \/ attempt <= MaxAttempts) /\ ShownTruly
<1>1. reconcile \in Reconciliations /\ Bound
  BY Typed DEF RuntimeInv
<1>2. reconcile.seen \in Versions /\ wanted \in Versions
  BY <1>1, Reconciles DEF Plain
<1>3. reconcile' \in Reconciliations
  BY <1>1, <1>2, Reconciles DEF RuntimeNext, runtimeVars, WriteHealth, ClientError, ReconnectTimer, Reconnect,
     LoginSucceeds, LoginFails, StrayLoginReturns, AfterLogin, ReconcileStart, ReconcileCompare, ReconcileCreate,
     OwnerChanges, client
<1>4. ASSUME NEW b \in BOOLEAN, EnqueueHealthWrite("ok", b), health' = health, amiss' = amiss
      PROVE  writing' \in Seq(HealthWrites) /\ Shown' = Says("ok", b)
  <2>1. writing \in Seq(HealthWrites) /\ writing' = Append(writing, [shows |-> "ok", late |-> b])
    BY <1>1, <1>4 DEF EnqueueHealthWrite, Plain
  <2> QED BY <1>4, <2>1, Enqueued DEF Shown
<1>5. 0 \in Versions /\ 0 \in 0..MaxAttempts + 1 /\ MaxAttempts \in Nat /\ 0 <= MaxAttempts
  BY RuntimeAssumption DEF Versions
<1>6. health' = health /\ amiss' = amiss /\ writing' = writing => Shown' = Shown
  BY DEF Shown
<1>7. Plain' /\ reconcile' \in Reconciliations => RuntimeTypeOK'
  BY DEF RuntimeTypeOK, Reconciliations, Plain, Versions
<1>8. CASE UNCHANGED runtimeVars
  <2>1. Bound'
    BY <1>1, <1>6, <1>8 DEF runtimeVars, Plain, ShownTruly
  <2> QED BY <1>3, <2>1, <1>7 DEF RuntimeInv
<1>9. CASE WriteHealth
  <2>1. writing \in Seq(HealthWrites) /\ writing # <<>> /\ writing' = Tail(writing)
    BY <1>1, <1>9 DEF WriteHealth, Plain
  <2>2. /\ Head(writing).shows \in {"ok", "error"} /\ Head(writing).late \in BOOLEAN
        /\ Tail(writing) \in Seq(HealthWrites)
        /\ Final(Head(writing).shows, Head(writing).late, Tail(writing)) = Shown
        /\ Final(health, TRUE, Tail(writing)) \in {Shown, "unsure"}
    BY <2>1, Written DEF Shown
  <2>3. \/ health' = Head(writing).shows /\ amiss' = Head(writing).late
        \/ health' = health /\ amiss' = TRUE
    BY <1>9 DEF WriteHealth
  <2>4. health' \in {"ok", "error"} /\ amiss' \in BOOLEAN /\ Shown' \in {Shown, "unsure"}
    BY <1>1, <2>1, <2>2, <2>3 DEF Shown, Plain
  <2>5. Bound'
    BY <1>1, <1>9, <2>1, <2>2, <2>4 DEF WriteHealth, client, Plain, ShownTruly
  <2> QED BY <1>3, <2>5, <1>7 DEF RuntimeInv
<1>10. CASE ClientError
  <2>1. Bound'
    BY <1>1, <1>10, Recovery DEF ClientError, healthRow, Plain, ShownTruly
  <2> QED BY <1>3, <2>1, <1>7 DEF RuntimeInv
<1>11. CASE ReconnectTimer
  <2>1. Bound'
    BY <1>1, <1>6, <1>11 DEF ReconnectTimer, healthRow, Plain, ShownTruly
  <2> QED BY <1>3, <2>1, <1>7 DEF RuntimeInv
<1>12. CASE Reconnect
  <2>1. Bound'
    BY <1>1, <1>6, <1>12 DEF Reconnect, healthRow, Plain, ShownTruly
  <2> QED BY <1>3, <2>1, <1>7 DEF RuntimeInv
<1>13. CASE LoginSucceeds
  <2>1. dead \in BOOLEAN /\ EnqueueHealthWrite("ok", dead) /\ health' = health /\ amiss' = amiss
    BY <1>1, <1>13 DEF LoginSucceeds, healthRow, Plain
  <2>2. writing' \in Seq(HealthWrites) /\ Shown' = Says("ok", dead)
    BY <1>4, <2>1
  <2>3. online' \in BOOLEAN /\ attempt' = 0 /\ timer' = FALSE /\ loggingIn' = FALSE /\ recovering' \in {"no", recovering}
    BY <1>13 DEF LoginSucceeds, AfterLogin
  <2>4. UNCHANGED <<wanted, versions, runtime, dead, strays>>
    BY <1>13 DEF LoginSucceeds
  <2>5. ShownTruly'
    BY <2>2, <2>4 DEF Says, ShownTruly
  <2>6. Bound'
    BY <1>1, <1>5, <2>1, <2>2, <2>3, <2>4, <2>5 DEF Plain
  <2> QED BY <1>3, <2>6, <1>7 DEF RuntimeInv
<1>19. CASE StrayLoginReturns
  <2>1. strays' \in Nat /\ UNCHANGED <<wanted, versions, client, health, amiss>>
    BY <1>1, <1>19 DEF StrayLoginReturns, healthRow, Plain
  <2>2. writing' \in Seq(HealthWrites) /\ Shown' \in {Shown, "unsure"}
    <3>1. CASE EnqueueHealthWrite("ok", TRUE)
      BY <1>4, <2>1, <3>1 DEF Says
    <3>2. CASE UNCHANGED writing
      BY <1>1, <1>6, <2>1, <3>2 DEF Plain
    <3> QED BY <1>19, <3>1, <3>2 DEF StrayLoginReturns
  <2>3. Bound'
    BY <1>1, <2>1, <2>2 DEF client, Plain, ShownTruly
  <2> QED BY <1>3, <2>3, <1>7 DEF RuntimeInv
<1>14. CASE LoginFails
  <2>1. Bound'
    BY <1>1, <1>14, Recovery DEF LoginFails, AfterLogin, healthRow, Plain, ShownTruly
  <2> QED BY <1>3, <2>1, <1>7 DEF RuntimeInv
<1>15. CASE ReconcileStart
  <2>1. Bound'
    BY <1>1, <1>6, <1>15 DEF ReconcileStart, client, healthRow, Plain, ShownTruly
  <2> QED BY <1>3, <2>1, <1>7 DEF RuntimeInv
<1>16. CASE ReconcileCompare
  <2>1. Bound'
    BY <1>1, <1>5, <1>6, <1>16 DEF ReconcileCompare, client, healthRow, Plain, ShownTruly
  <2> QED BY <1>3, <2>1, <1>7 DEF RuntimeInv
<1>17. CASE ReconcileCreate
  <2>1. Bound'
    <3>1. UNCHANGED <<wanted, versions, health, amiss, writing>> /\ Shown' = Shown
      BY <1>6, <1>17 DEF ReconcileCreate, healthRow
    <3>2. CASE UNCHANGED <<client, strays>>
      BY <1>1, <3>1, <3>2 DEF client, Plain, ShownTruly
    <3>3. CASE ~UNCHANGED <<client, strays>>
      <4>1. /\ runtime' = reconcile.seen /\ dead' = FALSE /\ loggingIn' = TRUE /\ recovering' = "no"
            /\ timer' = FALSE /\ attempt' = 0 /\ online' = FALSE
            /\ strays' = IF loggingIn THEN strays + 1 ELSE strays
        BY <1>17, <3>3 DEF ReconcileCreate
      <4>2. strays' \in Nat
        BY <1>1, <4>1 DEF Plain
      <4>3. Plain'
        BY <1>1, <1>2, <1>5, <3>1, <4>1, <4>2 DEF Plain
      <4> QED BY <1>5, <4>1, <4>3 DEF ShownTruly
    <3> QED BY <3>2, <3>3
  <2> QED BY <1>3, <2>1, <1>7 DEF RuntimeInv
<1>18. CASE OwnerChanges
  <2>1. versions' \in 0..MaxVersions /\ wanted' \in Versions
    BY <1>1, <1>5, <1>18, RuntimeAssumption DEF OwnerChanges, Plain, Versions
  <2>2. Bound'
    BY <1>1, <1>6, <1>18, <2>1 DEF OwnerChanges, client, healthRow, Plain, ShownTruly
  <2> QED BY <1>3, <2>2, <1>7 DEF RuntimeInv
<1> QED
  BY <1>8, <1>9, <1>10, <1>11, <1>12, <1>13, <1>14, <1>15, <1>16, <1>17, <1>18, <1>19 DEF RuntimeNext

THEOREM RuntimeInvariant == RuntimeSpec => []RuntimeInv
<1>1. RuntimeInit => RuntimeInv
  <2> SUFFICES ASSUME RuntimeInit PROVE RuntimeInv
    OBVIOUS
  <2>1. Plain /\ 0 <= MaxAttempts
    <3>1. 0 \in Versions /\ 1 \in Versions /\ 0 \in 0..MaxVersions /\ 0 \in 0..MaxAttempts + 1 /\ 0 <= MaxAttempts
      BY RuntimeAssumption DEF Versions
    <3>2. <<>> \in Seq(HealthWrites)
      BY EmptySeq
    <3> QED BY <3>1, <3>2 DEF RuntimeInit, Plain
  <2> QED BY <2>1, Reconciles, Typed DEF RuntimeInit, RuntimeInv, ShownTruly, Shown, Final, Says
<1> QED
  BY <1>1, RuntimeInductive, PTL DEF RuntimeSpec

\* The row of an integration shows an error exactly when its connection was given up, once nothing is
\* under way, however the writes were issued and whichever of the earlier ones failed or came late
\* (markRuntimeHealthy, markRuntimeError, enqueueHealthWrite).
THEOREM ShowsItsHealth == RuntimeSpec => []HealthIsTrue
<1>1. RuntimeInv => HealthIsTrue
  BY DEF RuntimeInv, RuntimeTypeOK, ShownTruly, Shown, Final, Says, HealthIsTrue
<1> QED
  BY <1>1, RuntimeInvariant, PTL

-----------------------------------------------------------------------------
\* The bindings (DiscordBindings).

\* A configuration in which no two sessions have a target in common.
Exclusive(targets) ==
  \A t \in BindTargets, r, s \in Sessions : t \in targets[r] /\ t \in targets[s] => r = s
Maybe == Projects \cup {Nothing}
GoodConfigs == {c \in Configs : Exclusive(c.targets)}

\* What a handler holds before it has a configuration to write, and after.
Looks == [pc : {"readSession", "readProject", "newProject", "newSession", "projectCommand", "sessionCommand"},
          at : Runtimes, target : BindTargets, session : Sessions \cup {Nothing}, project : Maybe]
Writes == [pc : {"store", "remember"}, at : Runtimes, next : GoodConfigs]

BindingsInv ==
  /\ stored \in GoodConfigs /\ memory \in [Runtimes -> GoodConfigs] /\ live \in Runtimes
  /\ task \in [Tasks -> {NoTask} \cup Looks \cup Writes]
  /\ listed = Nothing \/ listed \in GoodConfigs
  /\ projects \subseteq Projects /\ owner \in [Sessions -> Maybe]
  /\ bindingOps \in 0..MaxBindingOps /\ unreadable \in 0..MaxUnreadable /\ used \subseteq Sessions

LEMMA GoodFields ==
  ASSUME NEW c \in GoodConfigs
  PROVE  /\ c.project \in [Channels -> Maybe] /\ c.targets \in [Sessions -> SUBSET BindTargets]
         /\ c.ids \subseteq Sessions /\ Exclusive(c.targets)
  BY DEF GoodConfigs, Configs, Maybe

LEMMA GoodMade ==
  ASSUME NEW p \in [Channels -> Maybe], NEW targets \in [Sessions -> SUBSET BindTargets], Exclusive(targets),
         NEW ids \in SUBSET Sessions
  PROVE  [project |-> p, targets |-> targets, ids |-> ids] \in GoodConfigs
  BY DEF GoodConfigs, Configs, Maybe

\* A target that joins a session leaves the others.
LEMMA Rebinds ==
  ASSUME NEW targets \in [Sessions -> SUBSET BindTargets], Exclusive(targets), NEW s, NEW t \in BindTargets
  PROVE  /\ RebindTarget(targets, s, t) \in [Sessions -> SUBSET BindTargets]
         /\ Exclusive(RebindTarget(targets, s, t))
  BY DEF RebindTarget, Exclusive

\* Whatever a handler computes from a configuration keeps targets apart.
LEMMA Computed ==
  ASSUME NEW c \in GoodConfigs, NEW t \in BindTargets, NEW p \in Maybe
  PROVE  /\ \A s \in Sessions : UpsertDiscordBindings(c, t, p, s) \in GoodConfigs
         /\ \A s : BindSessionToTarget(c, t, p, s) \in GoodConfigs
         /\ ApplyChannelProjectBinding(c, t, p) \in GoodConfigs
<1>1. /\ c.project \in [Channels -> Maybe] /\ c.targets \in [Sessions -> SUBSET BindTargets]
      /\ c.ids \subseteq Sessions /\ Exclusive(c.targets)
  BY GoodFields
<1>2. [c.project EXCEPT ![t[1]] = p] \in [Channels -> Maybe]
  BY <1>1
<1>3. ASSUME NEW s \in Sessions PROVE UpsertDiscordBindings(c, t, p, s) \in GoodConfigs
  <2>1. c.ids \cup {s} \in SUBSET Sessions
    BY <1>1
  <2> QED BY <1>1, <1>2, <2>1, Rebinds, GoodMade DEF UpsertDiscordBindings
<1>4. \A targets : BoundSessions(targets) \in SUBSET Sessions
  BY DEF BoundSessions
<1>5. ASSUME NEW s PROVE BindSessionToTarget(c, t, p, s) \in GoodConfigs
  <2>1. (IF t[2] = Nothing THEN [c.project EXCEPT ![t[1]] = p] ELSE c.project) \in [Channels -> Maybe]
    BY <1>1, <1>2
  <2> QED BY <1>1, <1>4, <2>1, Rebinds, GoodMade DEF BindSessionToTarget
<1>6. ApplyChannelProjectBinding(c, t, p) \in GoodConfigs
  <2> DEFINE targets == [s \in Sessions |-> c.targets[s] \ {<<t[1], Nothing>>}]
  <2>1. targets \in [Sessions -> SUBSET BindTargets] /\ Exclusive(targets)
    BY <1>1 DEF Exclusive
  <2> QED BY <1>2, <1>4, <2>1, GoodMade DEF ApplyChannelProjectBinding
<1> QED BY <1>3, <1>5, <1>6

\* The stage of a handler tells what it holds, and the records of the steps are of their kinds.
LEMMA Stages ==
  ASSUME NEW r \in {NoTask} \cup Looks \cup Writes
  PROVE  /\ r.pc \in {"readSession", "readProject", "newProject", "newSession", "projectCommand", "sessionCommand"} =>
              r \in Looks
         /\ r.pc \in {"store", "remember"} => r \in Writes
         /\ "next" \in DOMAIN r => r \in Writes
<1>1. NoTask.pc = "idle" /\ DOMAIN NoTask = {"pc"}
  BY DEF NoTask
<1>2. r \in Looks => r.pc \notin {"store", "remember"} /\ DOMAIN r = {"pc", "at", "target", "session", "project"}
  BY DEF Looks
<1>3. r \in Writes => r.pc \in {"store", "remember"}
  BY DEF Writes
<1> QED BY <1>1, <1>2, <1>3

LEMMA Looking ==
  ASSUME NEW r \in Looks
  PROVE  /\ r.at \in Runtimes /\ r.target \in BindTargets /\ r.session \in Sessions \cup {Nothing} /\ r.project \in Maybe
         /\ \A pc \in {"readProject", "newProject", "newSession"} :
              /\ [r EXCEPT !.pc = pc] \in Looks
              /\ \A p \in Maybe : [r EXCEPT !.pc = pc, !.project = p] \in Looks
         /\ \A c \in GoodConfigs : [pc |-> "store", at |-> r.at, next |-> c] \in Writes
  BY DEF Looks, Writes

LEMMA Writing ==
  ASSUME NEW r \in Writes
  PROVE  r.at \in Runtimes /\ r.next \in GoodConfigs /\ [r EXCEPT !.pc = "remember"] \in Writes
  BY DEF Writes

\* A handler that begins looks, whatever it was asked for.
LEMMA Begins ==
  ASSUME NEW pc \in {"readSession", "readProject", "projectCommand", "sessionCommand"}, NEW r \in Runtimes,
         NEW t \in BindTargets, NEW s \in Sessions \cup {Nothing}, NEW p \in Maybe
  PROVE  [pc |-> pc, at |-> r, target |-> t, session |-> s, project |-> p] \in Looks
  BY DEF Looks

LEMMA BindingsInductive == BindingsInv /\ [BindingsNext]_bindingVars => BindingsInv'
<1> SUFFICES ASSUME BindingsInv, [BindingsNext]_bindingVars
             PROVE  BindingsInv'
  OBVIOUS
<1> DEFINE Records == {NoTask} \cup Looks \cup Writes
<1> USE BindingsAssumption DEF BindingsInv
<1>1. Looks \subseteq Records /\ Writes \subseteq Records /\ NoTask \in Records
  OBVIOUS
<1>2. \A k \in Tasks : task[k] \in Records
  OBVIOUS
<1>3. \A k \in Tasks, r \in Records : [task EXCEPT ![k] = r] \in [Tasks -> Records]
  OBVIOUS
<1>4. \A r \in Runtimes : memory[r] \in GoodConfigs
  OBVIOUS
<1>5. \A r \in Runtimes, c \in Channels : memory[r].project[c] \in Maybe
  BY <1>4, GoodFields
<1>6. \A t \in BindTargets : t[1] \in Channels
  BY DEF BindTargets
<1>7. \A c \in Channels : <<c, Nothing>> \in BindTargets
  BY DEF BindTargets
<1>8. ASSUME NEW k \in Tasks, task[k].pc \in {"readSession", "readProject", "newProject", "newSession", "projectCommand", "sessionCommand"}
      PROVE  task[k] \in Looks
  BY <1>2, <1>8, Stages
<1>9. ASSUME NEW k \in Tasks, task[k].pc \in {"store", "remember"}
      PROVE  task[k] \in Writes
  BY <1>2, <1>9, Stages
<1>10. ASSUME NEW k \in Tasks, NEW r \in Looks, BeginTask(k, r)
       PROVE  task' \in [Tasks -> Records] /\ bindingOps' \in 0..MaxBindingOps
  <2>1. task' \in [Tasks -> Records]
    BY <1>1, <1>3, <1>10 DEF BeginTask
  <2>2. bindingOps' \in 0..MaxBindingOps
    BY <1>10 DEF BeginTask
  <2> QED BY <2>1, <2>2
<1>11. \A p \in Projects : p \in Maybe
  BY DEF Maybe
<1>12. CASE UNCHANGED bindingVars
  BY <1>12 DEF bindingVars
<1>13. ASSUME NEW k \in Tasks, SessionFound(k) PROVE BindingsInv'
  <2>1. task' \in [Tasks -> Records]
    BY <1>1, <1>3, <1>13 DEF SessionFound
  <2> QED BY <1>13, <2>1 DEF SessionFound
<1>14. ASSUME NEW k \in Tasks, SessionMissing(k) PROVE BindingsInv'
  <2>1. task[k] \in Looks
    BY <1>8, <1>14 DEF SessionMissing
  <2>2. PICK p : p = memory[task[k].at].project[task[k].target[1]]
    OBVIOUS
  <2>3. p \in Maybe
    BY <1>5, <1>6, <2>1, <2>2, Looking
  <2>4. task' = [task EXCEPT ![k] = [task[k] EXCEPT !.pc = "readProject", !.project = p]]
    BY <1>14, <2>2 DEF SessionMissing
  <2>5. task' \in [Tasks -> Records]
    BY <1>1, <1>3, <2>1, <2>3, <2>4, Looking
  <2>6. unreadable' \in 0..MaxUnreadable
    BY <1>14 DEF SessionMissing
  <2> QED BY <1>14, <2>5, <2>6 DEF SessionMissing
<1>15. ASSUME NEW k \in Tasks, ReadProject(k) PROVE BindingsInv'
  <2>1. task[k] \in Looks
    BY <1>8, <1>15 DEF ReadProject
  <2>2. \E pc \in {"newSession", "newProject"} : task' = [task EXCEPT ![k] = [task[k] EXCEPT !.pc = pc]]
    BY <1>15 DEF ReadProject, TaskStep
  <2>3. task' \in [Tasks -> Records]
    BY <1>1, <1>3, <2>1, <2>2, Looking
  <2>4. unreadable' \in 0..MaxUnreadable
    BY <1>15 DEF ReadProject
  <2> QED BY <1>15, <2>3, <2>4 DEF ReadProject
<1>16. ASSUME NEW k \in Tasks, CreateProject(k) PROVE BindingsInv'
  <2>1. task[k] \in Looks
    BY <1>8, <1>16 DEF CreateProject
  <2>2. PICK p \in Projects : /\ projects' = projects \cup {p}
                              /\ task' = [task EXCEPT ![k] = [task[k] EXCEPT !.pc = "newSession", !.project = p]]
    BY <1>16 DEF CreateProject
  <2>3. task' \in [Tasks -> Records]
    BY <1>1, <1>3, <1>11, <2>1, <2>2, Looking
  <2> QED BY <1>16, <2>2, <2>3 DEF CreateProject
<1>17. ASSUME NEW k \in Tasks, NEW c \in GoodConfigs, task[k] \in Looks, Persist(k, c)
       PROVE  task' \in [Tasks -> Records]
  BY <1>1, <1>3, <1>17, Looking DEF Persist
<1>18. ASSUME NEW k \in Tasks, CreateSession(k) PROVE BindingsInv'
  <2>1. task[k] \in Looks
    BY <1>8, <1>18 DEF CreateSession
  <2>2. PICK s \in Sessions :
          /\ used' = used \cup {s}
          /\ owner' = [owner EXCEPT ![s] = task[k].project]
          /\ Persist(k, UpsertDiscordBindings(memory[task[k].at], task[k].target, task[k].project, s))
    BY <1>18 DEF CreateSession
  <2>3. UpsertDiscordBindings(memory[task[k].at], task[k].target, task[k].project, s) \in GoodConfigs
    BY <1>4, <2>1, Looking, Computed
  <2>4. task' \in [Tasks -> Records]
    BY <1>17, <2>1, <2>2, <2>3
  <2>5. owner' \in [Sessions -> Maybe]
    BY <2>1, <2>2, Looking
  <2> QED BY <1>18, <2>2, <2>4, <2>5 DEF CreateSession
<1>19. ASSUME NEW k \in Tasks, BindProject(k) PROVE BindingsInv'
  <2>1. task[k] \in Looks
    BY <1>8, <1>19 DEF BindProject
  <2>2. ApplyChannelProjectBinding(memory[task[k].at], task[k].target, task[k].project) \in GoodConfigs
    BY <1>4, <2>1, Looking, Computed
  <2>3. task' \in [Tasks -> Records]
    BY <1>17, <1>19, <2>1, <2>2 DEF BindProject
  <2> QED BY <1>19, <2>3 DEF BindProject
<1>20. ASSUME NEW k \in Tasks, BindSession(k) PROVE BindingsInv'
  <2>1. task[k] \in Looks
    BY <1>8, <1>20 DEF BindSession
  <2>2. BindSessionToTarget(memory[task[k].at], task[k].target, task[k].project, task[k].session) \in GoodConfigs
    BY <1>4, <2>1, Looking, Computed
  <2>3. task' \in [Tasks -> Records]
    BY <1>17, <1>20, <2>1, <2>2 DEF BindSession
  <2> QED BY <1>20, <2>3 DEF BindSession
<1>21. ASSUME NEW k \in Tasks, Store(k) PROVE BindingsInv'
  <2>1. task[k] \in Writes
    BY <1>9, <1>21 DEF Store
  <2>2. task' = [task EXCEPT ![k] = [task[k] EXCEPT !.pc = "remember"]] /\ stored' = task[k].next
    BY <1>21 DEF Store, TaskStep
  <2>3. task' \in [Tasks -> Records] /\ stored' \in GoodConfigs
    BY <1>1, <1>3, <2>1, <2>2, Writing
  <2> QED BY <1>21, <2>3 DEF Store
<1>22. ASSUME NEW k \in Tasks, Remember(k) PROVE BindingsInv'
  <2>1. task[k] \in Writes
    BY <1>9, <1>22 DEF Remember
  <2>2. memory' \in [Runtimes -> GoodConfigs]
    BY <1>22, <2>1, Writing DEF Remember
  <2>3. task' \in [Tasks -> Records]
    BY <1>1, <1>3, <1>22 DEF Remember
  <2> QED BY <1>22, <2>2, <2>3 DEF Remember
<1>23. ASSUME NEW k \in Tasks, NEW t \in BindTargets, ReceiveMessage(k, t) PROVE BindingsInv'
  <2>1. PICK s : s = FindSessionIdByTarget(memory[live], t)
    OBVIOUS
  <2>2. s \in Sessions \cup {Nothing}
    BY <2>1 DEF FindSessionIdByTarget, SessionsAt
  <2>3. PICK p : p = IF s = Nothing THEN memory[live].project[t[1]] ELSE Nothing
    OBVIOUS
  <2>4. p \in Maybe
    BY <1>5, <1>6, <2>3 DEF Maybe
  <2>5. PICK pc \in {"readSession", "readProject"} : pc = IF s = Nothing THEN "readProject" ELSE "readSession"
    OBVIOUS
  <2>6. BeginTask(k, [pc |-> pc, at |-> live, target |-> t, session |-> s, project |-> p])
    BY <1>23, <2>1, <2>3, <2>5 DEF ReceiveMessage
  <2>7. task' \in [Tasks -> Records] /\ bindingOps' \in 0..MaxBindingOps
    BY <1>10, <2>2, <2>4, <2>6, Begins
  <2> QED BY <1>23, <2>7 DEF ReceiveMessage
<1>24. ASSUME NEW k \in Tasks, NEW t \in BindTargets, SessionCreateCommand(k, t) PROVE BindingsInv'
  <2>1. PICK p \in projects, s \in Sessions :
          /\ BeginTask(k, [pc |-> "sessionCommand", at |-> live, target |-> t, session |-> s, project |-> p])
          /\ used' = used \cup {s} /\ owner' = [owner EXCEPT ![s] = p]
    BY <1>24 DEF SessionCreateCommand
  <2>2. task' \in [Tasks -> Records] /\ bindingOps' \in 0..MaxBindingOps
    BY <1>10, <1>11, <2>1, Begins
  <2>3. owner' \in [Sessions -> Maybe] /\ used' \subseteq Sessions
    BY <1>11, <2>1
  <2> QED BY <1>24, <2>2, <2>3 DEF SessionCreateCommand
<1>25. ASSUME NEW k \in Tasks, NEW t \in BindTargets, SessionBindCommand(k, t) PROVE BindingsInv'
  <2>1. PICK s \in Sessions :
          BeginTask(k, [pc |-> "sessionCommand", at |-> live, target |-> t, session |-> s, project |-> owner[s]])
    BY <1>25 DEF SessionBindCommand
  <2>2. task' \in [Tasks -> Records] /\ bindingOps' \in 0..MaxBindingOps
    BY <1>10, <2>1, Begins
  <2> QED BY <1>25, <2>2 DEF SessionBindCommand
<1>26. ASSUME NEW k \in Tasks, NEW c \in Channels, NEW p \in Maybe,
              BeginTask(k, [pc |-> "projectCommand", at |-> live, target |-> <<c, Nothing>>, session |-> Nothing, project |-> p])
       PROVE  task' \in [Tasks -> Records] /\ bindingOps' \in 0..MaxBindingOps
  BY <1>7, <1>10, <1>26, Begins
<1>27. ASSUME NEW k \in Tasks, NEW c \in Channels, ProjectCreateCommand(k, c) PROVE BindingsInv'
  <2>1. PICK p \in Projects :
          /\ BeginTask(k, [pc |-> "projectCommand", at |-> live, target |-> <<c, Nothing>>, session |-> Nothing, project |-> p])
          /\ projects' = projects \cup {p}
    BY <1>27 DEF ProjectCreateCommand
  <2>2. task' \in [Tasks -> Records] /\ bindingOps' \in 0..MaxBindingOps
    BY <1>11, <1>26, <2>1
  <2> QED BY <1>27, <2>1, <2>2 DEF ProjectCreateCommand
<1>28. ASSUME NEW k \in Tasks, NEW c \in Channels, ProjectBindCommand(k, c) PROVE BindingsInv'
  <2>1. PICK p \in projects :
          BeginTask(k, [pc |-> "projectCommand", at |-> live, target |-> <<c, Nothing>>, session |-> Nothing, project |-> p])
    BY <1>28 DEF ProjectBindCommand
  <2>2. task' \in [Tasks -> Records] /\ bindingOps' \in 0..MaxBindingOps
    BY <1>11, <1>26, <2>1
  <2> QED BY <1>28, <2>2 DEF ProjectBindCommand
<1>29. ASSUME NEW k \in Tasks, NEW c \in Channels, ProjectChangeCommand(k, c) PROVE BindingsInv'
  <2>1. PICK p \in Maybe : p = memory[live].project[c]
    BY <1>5
  <2>2. BeginTask(k, [pc |-> "projectCommand", at |-> live, target |-> <<c, Nothing>>, session |-> Nothing, project |-> p])
    BY <1>29, <2>1 DEF ProjectChangeCommand
  <2>3. task' \in [Tasks -> Records] /\ bindingOps' \in 0..MaxBindingOps
    BY <1>26, <2>2
  <2> QED BY <1>29, <2>3 DEF ProjectChangeCommand
<1>30. CASE ReconcileList
  BY <1>30 DEF ReconcileList
<1>31. CASE ReconcileApply
  <2>1. live' \in Runtimes /\ memory' \in [Runtimes -> GoodConfigs]
    BY <1>31 DEF ReconcileApply
  <2> QED BY <1>31, <2>1 DEF ReconcileApply
<1>32. ASSUME NEW s \in Sessions, DeleteSession(s) PROVE BindingsInv'
  <2>1. owner' \in [Sessions -> Maybe]
    BY <1>32 DEF DeleteSession, Maybe
  <2>2. bindingOps' \in 0..MaxBindingOps
    BY <1>32 DEF DeleteSession
  <2> QED BY <1>32, <2>1, <2>2 DEF DeleteSession
<1> QED
  BY <1>12, <1>13, <1>14, <1>15, <1>16, <1>18, <1>19, <1>20, <1>21, <1>22, <1>23, <1>24, <1>25, <1>27, <1>28, <1>29,
     <1>30, <1>31, <1>32 DEF BindingsNext, TaskMoves

THEOREM BindingsInvariant == BindingsSpec => []BindingsInv
<1>1. BindingsInit => BindingsInv
  <2>1. NoBinding \in GoodConfigs
    BY DEF NoBinding, GoodConfigs, Configs, Exclusive
  <2>2. 1 \in Runtimes
    BY BindingsAssumption
  <2> QED BY <2>1, <2>2, BindingsAssumption DEF BindingsInit, BindingsInv, Maybe
<1> QED
  BY <1>1, BindingsInductive, PTL DEF BindingsSpec

\* Handlers that overlap compute a configuration from what they read and overwrite one another's, yet in
\* each configuration, in the database, in memory or still to be written, a channel or thread has one
\* session at most (rebindTarget, bindSessionToTarget, applyChannelProjectBinding, persistRuntimeConfig).
THEOREM OneSession == BindingsSpec => []OneSessionPerTarget
<1>1. BindingsInv => OneSessionPerTarget
  <2> SUFFICES ASSUME BindingsInv, NEW c \in AllConfigs, NEW t \in BindTargets
               PROVE  Cardinality(SessionsAt(c, t)) <= 1
    BY DEF OneSessionPerTarget
  <2>1. c \in GoodConfigs
    BY Stages, Writing DEF AllConfigs, BindingsInv
  <2>2. \A r, s \in SessionsAt(c, t) : r = s
    BY <2>1, GoodFields DEF SessionsAt, Exclusive
  <2>3. CASE SessionsAt(c, t) = {}
    BY <2>3, FS_EmptySet
  <2>4. CASE SessionsAt(c, t) # {}
    <3>1. PICK s : SessionsAt(c, t) = {s}
      BY <2>2, <2>4
    <3> QED BY <3>1, FS_Singleton
  <2> QED BY <2>3, <2>4
<1> QED
  BY <1>1, BindingsInvariant, PTL
=============================================================================
