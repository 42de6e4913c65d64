------------------------- MODULE TurnEnding_proofs -------------------------
(***************************************************************************)
(* The safety of the end of a turn (EndingSafe), for any number of events  *)
(* and of failed writes: an answer with all the text, no usage left        *)
(* behind, and the end in the log.                                         *)
(***************************************************************************)
EXTENDS TurnEnding, SequenceTheorems, WellFoundedInduction, TLAPS

Pcs == {"idle", "boundary", "fact", "usage", "text", "collect", "commit", "append", "appended"}
EventKinds == {"text", "usage", "fact", "end"}
IntakeStates == [on : BOOLEAN, queued : Nat, pos : Nat]
BatchStates == [seqs : SUBSET Nat, armed : BOOLEAN]
Entries == [kind : {"text", "fact", "end"}, seqs : SUBSET Nat, waiters : SUBSET Closers]
Flights == [seq : 1..MaxFeed, waiters : SUBSET Closers, tracked : BOOLEAN]
UsageStates == [pending : 0..MaxFeed, flights : SUBSET Flights, stored : 0..MaxFeed]
CloserStates == [pc : Pcs, text : SUBSET Nat, given : SUBSET Nat]
AnswerStates == [text : SUBSET Nat, given : SUBSET Nat]
RowStates == [cursor : Nat, text : SUBSET Nat, status : {"running", "ended"}, answers : Seq(AnswerStates),
  ends : Nat]

EndingTypes ==
  /\ version \in {1, 2}
  /\ feed \in Seq(EventKinds) /\ Len(feed) <= MaxFeed
  /\ intake \in IntakeStates /\ batch \in BatchStates /\ textOut \in Seq(Entries) /\ usage \in UsageStates
  /\ closer \in [Closers -> CloserStates] /\ row \in RowStates
  /\ endFaults \in 0..MaxEndFaults /\ taken \subseteq DOMAIN feed /\ mixed \in BOOLEAN /\ usageBlurred \in BOOLEAN

\* Text on its way, the end of the turn next in the queue, and a closer that is ending it.
Texts == {i \in DOMAIN textOut : textOut[i].kind = "text"}
AtEnd == intake.pos < Len(feed) /\ feed[intake.pos + 1] = "end"
EndsWith(c) == c = "fail" \/ AtEnd

\* Events are taken in order, text goes on its way only when it was taken, and the row knows no later one.
Places ==
  /\ intake.pos <= intake.queued /\ intake.queued <= Len(feed)
  /\ \A i \in DOMAIN feed : feed[i] = "end" => i = Len(feed)
  /\ row.cursor <= intake.pos \/ (row.cursor = intake.pos + 1 /\ closer["ingest"].pc = "appended")
  /\ batch.seqs \subseteq OfKind("text") /\ \A s \in batch.seqs : s <= intake.pos
  /\ batch.armed => batch.seqs # {}
  /\ \A i \in Texts : textOut[i].seqs \subseteq OfKind("text") /\ \A s \in textOut[i].seqs : s <= intake.pos
  /\ \A s \in row.text : s <= row.cursor

\* Where a closer can be: at a boundary with an event of its own, past it only at the end of the turn.
Stages ==
  /\ ~Idle("ingest") => /\ intake.pos < intake.queued /\ feed[intake.pos + 1] \in {"fact", "end"}
                        /\ closer["ingest"].pc = "fact" => feed[intake.pos + 1] = "fact"
                        /\ closer["ingest"].pc \in {"usage", "text", "collect", "commit"} => AtEnd
  /\ closer["fail"].pc \notin {"boundary", "fact"}
  /\ version = 2 => \A c \in Closers : closer[c].pc \notin {"collect", "commit"}

\* Who waits for a write of the queue is at the step that waits for it.
Waiters ==
  \A i \in DOMAIN textOut : \A c \in textOut[i].waiters :
    closer[c].pc \in (IF textOut[i].kind = "text" THEN {"boundary", "fact", "text"} ELSE {"appended"})

\* An entry that is not text is the closer's own, with the event it handles.
OwnEntry(i, c) ==
  /\ textOut[i].waiters = {c}
  /\ c = "fail" => textOut[i].kind = "end" /\ textOut[i].seqs = {}
  /\ c = "ingest" => textOut[i].kind = feed[intake.pos + 1] /\ textOut[i].seqs = {intake.pos + 1}

\* Each such entry has its closer, and no closer has two.
Owned ==
  /\ \A i \in DOMAIN textOut : textOut[i].kind # "text" => \E c \in Closers : OwnEntry(i, c)
  /\ \A i, j \in DOMAIN textOut : textOut[i].kind # "text" /\ textOut[j].kind # "text" /\ i # j =>
       textOut[i].waiters \cap textOut[j].waiters = {}

\* Who waits for a write of usage is flushing it; a write that is not tracked is waited for by its sender only.
UsageWaiters ==
  /\ \A f \in usage.flights : \A c \in f.waiters : closer[c].pc = "usage"
  /\ \A f \in usage.flights : ~f.tracked =>
       \E c \in Closers : f.waiters = {c} /\ \A g \in usage.flights : c \in g.waiters => g = f

\* Text that was taken is in one place: in the answer, in the batch or on its way.
TextKept ==
  /\ \A s \in taken \cap OfKind("text") :
         s \in row.text \/ s \in batch.seqs \/ \E i \in Texts : s \in textOut[i].seqs
  /\ row.text \subseteq taken \cap OfKind("text") /\ batch.seqs \subseteq taken \cap OfKind("text")
  /\ \A i \in Texts : textOut[i].seqs \subseteq taken \cap OfKind("text")
  /\ row.text \cap batch.seqs = {}
  /\ \A i \in Texts : textOut[i].seqs \cap (row.text \cup batch.seqs) = {}
  /\ \A i, j \in Texts : i # j => textOut[i].seqs \cap textOut[j].seqs = {}

\* Unless failTurn ran beside the queue, it runs when the queue is at rest and takes no more.
Alone == ~mixed /\ ~Idle("fail") => Idle("ingest") /\ intake.pos = intake.queued /\ ~intake.on

\* A closer that has not closed the turn yet.
Before(c) == \/ closer[c].pc \in {"boundary", "fact", "usage", "text", "collect", "commit"}
             \/ closer[c].pc = "append" /\ (version = 2 \/ ~EndsWith(c))

\* Until it is closed, the turn is running: no closer finds it ended.
Running == ~mixed => \A c \in Closers : Before(c) => row.status = "running"

\* Who has collected the answer has left no text on its way, and gives all of it.
Collected ==
  ~mixed => \A c \in Closers :
    /\ closer[c].pc = "collect" => batch.seqs = {} /\ Texts = {}
    /\ closer[c].pc = "commit" => closer[c].text = closer[c].given

\* A closer that has flushed the usage, after which none is pending or on its way.
PastUsage(c) ==
  /\ EndsWith(c)
  /\ closer[c].pc \in (IF version = 1 \/ c = "fail" THEN {"text", "collect", "commit", "append", "appended"}
                       ELSE {"append", "appended"})
Settled == ~mixed /\ (row.status = "ended" \/ \E c \in Closers : PastUsage(c))
  => usage.pending = 0 /\ usage.flights = {}

\* The newest usage is the one pending, the one on its way, or the one stored, in this order.
Newest ==
  ~mixed /\ ~usageBlurred =>
    /\ \A f, g \in usage.flights : f = g
    /\ \A u \in taken \cap OfKind("usage") : u <= intake.pos =>
         IF usage.pending # 0 THEN u <= usage.pending
         ELSE IF usage.flights # {} THEN \A f \in usage.flights : u <= f.seq ELSE u <= usage.stored

\* The turn ends when the queue is done: there is nothing more to take, or only the end to append.
Quiet ==
  ~mixed /\ row.status = "ended" =>
    \/ closer["ingest"].pc \in {"append", "appended"} /\ AtEnd
    \/ Idle("ingest") /\ intake.pos = intake.queued
         /\ (~intake.on \/ (intake.queued = Len(feed) /\ Contains(feed, "end")))

\* A running turn has no answer, an ended one has at most one, and it is all of the text.
Answers ==
  ~mixed => /\ row.status = "running" => row.answers = <<>>
            /\ Len(row.answers) <= 1 /\ \A i \in DOMAIN row.answers : row.answers[i].text = row.answers[i].given

\* The end of an ended turn is in the log, on its way there, about to be sent, or failed to be written.
Logged ==
  row.status = "ended" =>
    \/ row.ends >= 1
    \/ /\ version = 1
       /\ \/ endFaults > 0
          \/ \E i \in DOMAIN textOut : textOut[i].kind = "end"
          \/ \E c \in Closers : closer[c].pc = "append" /\ EndsWith(c)

\* The inductive invariant.  Parts guarded by ~mixed say nothing once failTurn has run beside the queue.
EndingInv ==
  /\ EndingTypes /\ Places /\ Stages /\ Waiters /\ Owned /\ UsageWaiters /\ TextKept /\ Alone /\ Running
       /\ Collected /\ Settled /\ Newest
  /\ Quiet /\ Answers /\ Logged

-----------------------------------------------------------------------------
(* Lemmas: the order of the numbers, and what the helpers of the model do.  *)

\* The order of the numbers as the library's relation.
LEMMA Smaller == \A x, y \in Nat : <<y, x>> \in OpToRel(<, Nat) <=> y < x
BY DEF OpToRel

\* A set of numbers that is not empty has a least one: the numbers are well founded.
LEMMA Least == ASSUME NEW S \in SUBSET Nat, S # {} PROVE \E n \in S : \A m \in S : n <= m
<1>1. IsWellFoundedOn(OpToRel(<, Nat), Nat)
  BY NatLessThanWellFounded
<1>2. \E x \in S : \A y \in S : ~(<<y, x>> \in OpToRel(<, Nat))
  <2> DEFINE R == OpToRel(<, Nat)
  <2>1. IsWellFoundedOn(R, Nat)
    BY <1>1
  <2> HIDE DEF R
  <2>2. \E x \in S : \A y \in S : ~(<<y, x>> \in R)
    BY <2>1, WFMin
  <2> QED BY <2>2 DEF R
<1>3. PICK x \in S : \A y \in S : ~(<<y, x>> \in OpToRel(<, Nat))
  BY <1>2
<1>4. \A y \in S : ~(y < x)
  BY <1>3, Smaller
<1> QED BY <1>4

\* And a greatest one, when it is bounded: the least of its bounds.
LEMMA Greatest ==
  ASSUME NEW k \in Nat, NEW S \in SUBSET (0..k), S # {}
  PROVE  \E n \in S : \A m \in S : m <= n
<1> DEFINE T == {b \in Nat : \A m \in S : m <= b}
<1>1. T # {} /\ T \in SUBSET Nat
  <2>1. k \in T
    OBVIOUS
  <2> QED BY <2>1
<1>2. PICK b \in T : \A c \in T : b <= c
  BY <1>1, Least
<1>3. CASE b \in S
  BY <1>3
<1>4. CASE b \notin S
  <2>1. \A m \in S : m < b
    BY <1>4
  <2>2. b # 0
    <3>1. PICK m \in S : TRUE
      OBVIOUS
    <3> QED BY <2>1, <3>1
  <2>3. b - 1 \in T
    BY <2>1, <2>2
  <2> QED BY <2>3, <1>2
<1> QED BY <1>3, <1>4

\* Max is it.
LEMMA HighestIs ==
  ASSUME NEW k \in Nat, NEW S \in SUBSET (0..k), S # {}
  PROVE  Max(S) \in S /\ \A m \in S : m <= Max(S)
<1>1. \E n \in S : \A m \in S : n >= m
  BY Greatest
<1> QED BY <1>1 DEF Max

\* A closer moves on.
LEMMA Moves ==
  ASSUME EndingTypes, NEW c \in Closers, NEW p \in Pcs, To(c, p)
  PROVE  /\ closer' \in [Closers -> CloserStates]
         /\ closer'[c].pc = p /\ closer'[c].text = closer[c].text /\ closer'[c].given = closer[c].given
         /\ \A d \in Closers \ {c} : closer'[d] = closer[d]
<1>1. closer \in [Closers -> CloserStates] /\ closer' = [closer EXCEPT ![c].pc = p]
  BY DEF EndingTypes, To
<1> QED BY <1>1 DEF CloserStates

\* The batch goes into the queue.
LEMMA Sends ==
  ASSUME EndingTypes, NEW w \in SUBSET Closers, SendText(w)
  PROVE  /\ batch' \in BatchStates /\ textOut' \in Seq(Entries)
         /\ batch'.seqs = {} /\ batch'.armed = FALSE
         /\ Len(textOut') = Len(textOut) + 1 /\ DOMAIN textOut' = 1..(Len(textOut) + 1)
         /\ \A i \in 1..Len(textOut) : textOut'[i] = textOut[i]
         /\ textOut'[Len(textOut) + 1].kind = "text" /\ textOut'[Len(textOut) + 1].seqs = batch.seqs
         /\ textOut'[Len(textOut) + 1].waiters = w
<1>1. batch.seqs \in SUBSET Nat /\ textOut \in Seq(Entries)
  BY DEF EndingTypes, BatchStates
<1>2. [kind |-> "text", seqs |-> batch.seqs, waiters |-> w] \in Entries
  BY <1>1 DEF Entries
<1>3. batch' \in BatchStates /\ batch'.seqs = {} /\ batch'.armed = FALSE
  BY DEF SendText, NoBatch, BatchStates
<1>4. textOut' = Append(textOut, [kind |-> "text", seqs |-> batch.seqs, waiters |-> w])
  BY DEF SendText
<1> HIDE DEF SendText
<1> QED BY <1>1, <1>2, <1>3, <1>4

\* Unless failTurn ran beside the queue, one of the two is at rest.
LEMMA OneAtATime ==
  ASSUME Alone, ~mixed, NEW c \in Closers, NEW d \in Closers, closer[c].pc # "idle", closer[d].pc # "idle"
  PROVE  c = d
  BY DEF Alone, Idle, Closers

\* Whoever waits for a write that failed gives up.
LEMMA Yields ==
  ASSUME EndingTypes, NEW w \in SUBSET Closers, GivesUp(w)
  PROVE  /\ closer' \in [Closers -> CloserStates] /\ intake' \in IntakeStates
         /\ \A c \in w : closer'[c].pc = "idle"
         /\ \A c \in Closers : c \notin w => closer'[c] = closer[c]
         /\ intake'.queued = intake.queued
         /\ "ingest" \notin w => intake' = intake
         /\ "ingest" \in w => ~intake'.on /\ intake'.pos = intake.pos + 1
<1>1. closer \in [Closers -> CloserStates] /\ intake \in IntakeStates
  BY DEF EndingTypes
<1>2. AtRest \in CloserStates /\ AtRest.pc = "idle"
  BY DEF AtRest, CloserStates, Pcs
<1>3. closer' = [c \in Closers |-> IF c \in w THEN AtRest ELSE closer[c]]
  BY DEF GivesUp
<1>4. /\ closer' \in [Closers -> CloserStates]
      /\ \A c \in w : closer'[c].pc = "idle"
      /\ \A c \in Closers : c \notin w => closer'[c] = closer[c]
  BY <1>1, <1>2, <1>3
<1>5. intake' = IF "ingest" \in w THEN [intake EXCEPT !.on = FALSE, !.pos = @ + 1] ELSE intake
  BY DEF GivesUp
<1>6. ASSUME "ingest" \in w
      PROVE  intake' \in IntakeStates /\ intake'.queued = intake.queued /\ ~intake'.on
               /\ intake'.pos = intake.pos + 1
  <2>1. intake' = [on |-> FALSE, queued |-> intake.queued, pos |-> intake.pos + 1]
    BY <1>1, <1>5, <1>6 DEF IntakeStates
  <2>2. intake.queued \in Nat /\ intake.pos + 1 \in Nat
    BY <1>1 DEF IntakeStates
  <2>3. intake' \in IntakeStates
    BY <2>1, <2>2 DEF IntakeStates
  <2> QED BY <2>1, <2>3
<1>7. "ingest" \notin w => intake' = intake
  BY <1>5
<1> QED BY <1>1, <1>4, <1>6, <1>7

\* The queue loses its head.
LEMMA Shifts ==
  ASSUME EndingTypes, textOut # <<>>
  PROVE  /\ Len(textOut) \in Nat \ {0} /\ 1 \in DOMAIN textOut /\ Head(textOut) = textOut[1]
              /\ textOut[1] \in Entries
         /\ Tail(textOut) \in Seq(Entries) /\ DOMAIN Tail(textOut) = 1..(Len(textOut) - 1)
         /\ \A i \in 1..(Len(textOut) - 1) : Tail(textOut)[i] = textOut[i + 1] /\ i + 1 \in DOMAIN textOut
<1>1. textOut \in Seq(Entries)
  BY DEF EndingTypes
<1> QED BY <1>1

\* What the types say of the parts that the steps look at.
Typed ==
  /\ Len(feed) \in Nat /\ DOMAIN feed = 1..Len(feed) /\ Len(textOut) \in Nat /\ DOMAIN textOut = 1..Len(textOut)
  /\ intake.pos \in Nat /\ intake.queued \in Nat /\ intake.on \in BOOLEAN /\ row.cursor \in Nat
  /\ \A i \in DOMAIN feed : feed[i] \in EventKinds
  /\ \A i \in DOMAIN textOut : /\ textOut[i].kind \in {"text", "fact", "end"}
                               /\ textOut[i].seqs \subseteq Nat /\ textOut[i].waiters \subseteq Closers
  /\ batch.seqs \subseteq Nat /\ row.text \subseteq Nat /\ taken \subseteq 1..Len(feed)
  /\ \A f \in usage.flights : f.seq \in Nat /\ f.waiters \subseteq Closers /\ f.tracked \in BOOLEAN
  /\ usage.pending \in Nat /\ usage.stored \in Nat
  /\ \A c \in Closers : closer[c].pc \in Pcs
  /\ version \in {1, 2} /\ row.status \in {"running", "ended"} /\ mixed \in BOOLEAN

\* They do say it.
LEMMA TypedFacts == ASSUME EndingTypes PROVE Typed
<1> USE DEF EndingTypes
<1>1. /\ Len(feed) \in Nat /\ DOMAIN feed = 1..Len(feed) /\ Len(textOut) \in Nat
           /\ DOMAIN textOut = 1..Len(textOut)
      /\ \A i \in DOMAIN feed : feed[i] \in EventKinds
  OBVIOUS
<1>2. /\ intake.pos \in Nat /\ intake.queued \in Nat /\ intake.on \in BOOLEAN
  BY DEF IntakeStates
<1>3. row.cursor \in Nat /\ row.text \subseteq Nat /\ row.status \in {"running", "ended"}
  BY DEF RowStates
<1>4. \A i \in DOMAIN textOut : textOut[i] \in Entries
  OBVIOUS
<1>5. \A i \in DOMAIN textOut : /\ textOut[i].kind \in {"text", "fact", "end"}
                                /\ textOut[i].seqs \subseteq Nat /\ textOut[i].waiters \subseteq Closers
  BY <1>4 DEF Entries
<1>6. batch.seqs \subseteq Nat
  BY DEF BatchStates
<1>7. /\ \A f \in usage.flights : f.seq \in Nat /\ f.waiters \subseteq Closers /\ f.tracked \in BOOLEAN
      /\ usage.pending \in Nat /\ usage.stored \in Nat
  BY EndingAssumption DEF UsageStates, Flights
<1>8. \A c \in Closers : closer[c].pc \in Pcs
  BY DEF CloserStates
<1> QED BY <1>1, <1>2, <1>3, <1>5, <1>6, <1>7, <1>8 DEF Typed

-----------------------------------------------------------------------------
(* One lemma per step: what it leaves of each part of the invariant.        *)

\* The runner emits an event.
LEMMA EmitEventEnding ==
  ASSUME EndingInv, NEW k \in EventKinds, EmitEvent(k)
  PROVE  EndingInv'
<1> USE DEF EndingInv
<1>0. Typed
  BY TypedFacts
<1>u. UNCHANGED <<version, intake, batch, textOut, usage, closer, row, endFaults, taken, mixed, usageBlurred>>
  BY DEF EmitEvent
<1>f1. /\ feed' = Append(feed, k) /\ Len(feed') = Len(feed) + 1 /\ DOMAIN feed' = 1..(Len(feed) + 1)
       /\ \A i \in 1..Len(feed) : feed'[i] = feed[i]
  BY <1>0 DEF EmitEvent, EndingTypes, Typed
<1>f2. Len(feed) < MaxFeed /\ \A i \in 1..Len(feed) : feed[i] # "end"
  BY DEF EmitEvent, Contains
<1>f3. ~Idle("ingest") => intake.pos + 1 \in 1..Len(feed) /\ feed'[intake.pos + 1] = feed[intake.pos + 1]
  BY <1>0, <1>f1 DEF Typed, Stages, Places
<1>f4. \A i \in DOMAIN textOut : \A c \in textOut[i].waiters : c = "ingest" /\ textOut[i].kind # "text"
         => ~Idle("ingest")
  BY DEF Waiters, Idle
<1>t_feed. feed' \in Seq(EventKinds) /\ Len(feed') <= MaxFeed
  <2>1. feed' \in Seq(EventKinds)
    BY <1>0, <1>f1 DEF EndingTypes
  <2> QED BY <2>1, <1>0, <1>f1, <1>f2, EndingAssumption DEF Typed
<1>1. EndingTypes'
  BY <1>u, <1>t_feed, <1>0, <1>f1 DEF EndingTypes
<1>2. Waiters' /\ UsageWaiters' /\ Alone' /\ Collected' /\ Answers'
  BY <1>u DEF Waiters, UsageWaiters, Alone, Idle, Collected, Texts, Answers
<1>3. Places'
  BY <1>0, <1>u, <1>f1, <1>f2 DEF Typed, Places, OfKind, Texts
<1>4. Stages'
  BY <1>u, <1>f2, <1>f3 DEF Stages, Idle, AtEnd
<1>5. Owned'
  <2>1. ASSUME NEW i \in DOMAIN textOut, textOut[i].kind # "text" PROVE \E c \in Closers : OwnEntry(i, c)'
    <3>1. PICK c \in Closers : OwnEntry(i, c)
      BY <2>1 DEF Owned
    <3>2. c = "ingest" => feed'[intake.pos + 1] = feed[intake.pos + 1]
      BY <2>1, <3>1, <1>f3, <1>f4 DEF OwnEntry
    <3>3. OwnEntry(i, c)'
      BY <3>1, <3>2, <1>u DEF OwnEntry
    <3> QED BY <3>3
  <2> QED BY <2>1, <1>u DEF Owned
<1>6. TextKept'
  BY <1>0, <1>u, <1>f1 DEF Typed, TextKept, OfKind, Texts
<1>7. Running'
  BY <1>0, <1>u, <1>f1 DEF Typed, Running, Before, EndsWith, AtEnd
<1>8. Settled'
  <2>1. closer["ingest"].pc # "idle" /\ AtEnd' => AtEnd
    BY <1>0, <1>u, <1>f1, <1>f3 DEF AtEnd, Idle, Typed
  <2>2. ASSUME NEW c \in Closers, PastUsage(c)' PROVE PastUsage(c)
    BY <2>1, <2>2, <1>u DEF PastUsage, EndsWith, Closers
  <2> QED BY <2>2, <1>u DEF Settled
<1>9. Newest'
  BY <1>0, <1>u, <1>f1 DEF Typed, Newest, OfKind
<1>10. Quiet'
  BY <1>u, <1>f2, <1>f3 DEF Quiet, AtEnd, Idle, Contains
<1>11. Logged'
  BY <1>0, <1>u, <1>f1 DEF Typed, Logged, EndsWith, AtEnd
<1> QED BY <1>1, <1>2, <1>3, <1>4, <1>5, <1>6, <1>7, <1>8, <1>9, <1>10, <1>11

\* The subscription puts an event into the turn's queue.
LEMMA EnqueueEnding ==
  ASSUME EndingInv, Enqueue
  PROVE  EndingInv'
<1> USE DEF EndingInv
<1>0. Typed
  BY TypedFacts
<1>u. UNCHANGED <<version, feed, batch, textOut, usage, closer, row, endFaults, taken, mixed, usageBlurred>>
  BY DEF Enqueue
<1>f1. /\ intake'.on = intake.on /\ intake'.pos = intake.pos /\ intake'.queued = intake.queued + 1
       /\ intake.on /\ intake.queued < Len(feed)
  BY DEF Enqueue, EndingTypes, IntakeStates
<1>t_intake. intake' \in IntakeStates
  BY DEF EndingTypes, IntakeStates, Enqueue
<1>1. EndingTypes'
  BY <1>u, <1>t_intake DEF EndingTypes
<1>2. Waiters' /\ UsageWaiters' /\ TextKept' /\ Collected' /\ Answers'
  BY <1>u DEF Waiters, UsageWaiters, TextKept, OfKind, Texts, Collected, Answers
<1>3. Places'
  BY <1>0, <1>u, <1>f1 DEF Typed, Places, OfKind, Texts
<1>4. Stages'
  BY <1>0, <1>u, <1>f1 DEF Typed, Stages, Idle, AtEnd
<1>5. Owned'
  BY <1>u, <1>f1 DEF Owned, OwnEntry
<1>6. Alone'
  BY <1>u, <1>f1 DEF Alone, Idle
<1>7. Running'
  BY <1>u, <1>f1 DEF Running, Before, EndsWith, AtEnd
<1>8. Settled'
  BY <1>u, <1>f1 DEF Settled, PastUsage, EndsWith, AtEnd
<1>9. Newest'
  BY <1>u, <1>f1 DEF Newest, OfKind
<1>10. Quiet'
  BY <1>u, <1>f1 DEF Quiet, AtEnd, Idle, Contains
<1>11. Logged'
  BY <1>u, <1>f1 DEF Logged, EndsWith, AtEnd
<1> QED BY <1>1, <1>2, <1>3, <1>4, <1>5, <1>6, <1>7, <1>8, <1>9, <1>10, <1>11

\* A flush sends the batch, whoever asks for it and waits: the timer, a boundary or a retry.
LEMMA SendTextEnding ==
  ASSUME EndingInv, NEW w \in SUBSET Closers, SendText(w), batch.seqs # {},
         \A c \in w : closer[c].pc \in {"boundary", "fact", "text"},
         UNCHANGED <<version, feed, intake, usage, closer, row, endFaults, taken, mixed, usageBlurred>>
  PROVE  EndingInv'
<1> USE DEF EndingInv
<1>0. Typed
  BY TypedFacts
<1>u. UNCHANGED <<version, feed, intake, usage, closer, row, endFaults, taken, mixed, usageBlurred>>
  OBVIOUS
<1>f1. /\ batch'.seqs = {} /\ batch'.armed = FALSE /\ Len(textOut') = Len(textOut) + 1
            /\ DOMAIN textOut' = 1..(Len(textOut) + 1)
       /\ \A i \in 1..Len(textOut) : textOut'[i] = textOut[i]
       /\ textOut'[Len(textOut) + 1].kind = "text" /\ textOut'[Len(textOut) + 1].seqs = batch.seqs
       /\ textOut'[Len(textOut) + 1].waiters = w
  BY Sends
<1>f2. /\ \A i \in 1..Len(textOut) : i \in Texts' <=> i \in Texts
       /\ Len(textOut) + 1 \in Texts' /\ Texts' \subseteq 1..(Len(textOut) + 1) /\ Texts \subseteq 1..Len(textOut)
  BY <1>0, <1>f1 DEF Texts, Typed
<1>f3. OfKind("text")' = OfKind("text")
  BY DEF OfKind
<1>t_batch. batch' \in BatchStates
  BY Sends
<1>t_textOut. textOut' \in Seq(Entries)
  BY Sends
<1>1. EndingTypes'
  BY <1>u, <1>t_batch, <1>t_textOut DEF EndingTypes
<1>2. Stages' /\ UsageWaiters' /\ Alone' /\ Running' /\ Settled' /\ Newest' /\ Quiet' /\ Answers'
  BY <1>u DEF Stages, Idle, AtEnd, UsageWaiters, Alone, Running, Before, EndsWith, Settled, PastUsage, Newest,
     OfKind, Quiet, Contains, Answers
<1>3. Places'
  <2>1. \A i \in Texts' : textOut'[i].seqs \subseteq OfKind("text")'
          /\ \A s \in textOut'[i].seqs : s <= intake'.pos
    BY <1>0, <1>u, <1>f1, <1>f2, <1>f3 DEF Places, Typed
  <2> QED BY <2>1, <1>u, <1>f1, <1>f3 DEF Places
<1>4. Waiters'
  <2>1. ASSUME NEW i \in DOMAIN textOut', NEW c \in textOut'[i].waiters
         PROVE  closer[c].pc \in (IF textOut'[i].kind = "text" THEN {"boundary", "fact", "text"} ELSE {"appended"})
    <3>1. CASE i = Len(textOut) + 1
      BY <2>1, <3>1, <1>f1
    <3>2. CASE i \in 1..Len(textOut)
      BY <2>1, <3>2, <1>f1, <1>0 DEF Waiters, Typed
    <3> QED BY <3>1, <3>2, <1>f1, <1>0 DEF Typed
  <2> QED BY <2>1, <1>u DEF Waiters
<1>5. Owned'
  <2>1. ASSUME NEW i \in DOMAIN textOut', textOut'[i].kind # "text"
         PROVE  i \in DOMAIN textOut /\ textOut'[i] = textOut[i]
    BY <2>1, <1>f1, <1>0 DEF Typed
  <2>2. ASSUME NEW i \in DOMAIN textOut', textOut'[i].kind # "text" PROVE \E c \in Closers : OwnEntry(i, c)'
    <3>1. PICK c \in Closers : OwnEntry(i, c)
      BY <2>1, <2>2 DEF Owned
    <3>2. OwnEntry(i, c)'
      BY <3>1, <2>1, <2>2, <1>u DEF OwnEntry
    <3> QED BY <3>2
  <2> QED BY <2>1, <2>2 DEF Owned
<1>6. TextKept'
  <2>1. \A i \in Texts' : (i \in Texts /\ textOut'[i] = textOut[i]) \/ (i = Len(textOut) + 1
          /\ textOut'[i].seqs = batch.seqs)
    BY <1>f1, <1>f2, <1>0 DEF Typed
  <2>2. \A i \in Texts : i \in Texts' /\ textOut'[i] = textOut[i] /\ i # Len(textOut) + 1
    BY <1>f1, <1>f2, <1>0 DEF Typed
  <2>3. Len(textOut) + 1 \in Texts' /\ textOut'[Len(textOut) + 1].seqs = batch.seqs
    BY <1>f1, <1>f2
  <2> QED BY <2>1, <2>2, <2>3, <1>u, <1>f1, <1>f3 DEF TextKept
<1>7. Collected'
  BY DEF Collected, Texts
<1>8. Logged'
  BY <1>f1 DEF Logged, EndsWith, AtEnd
<1> QED BY <1>1, <1>2, <1>3, <1>4, <1>5, <1>6, <1>7, <1>8

\* The consumer subscribes again, and replays what the row does not have.
LEMMA ConsumeAgainEnding ==
  ASSUME EndingInv, ConsumeAgain
  PROVE  EndingInv'
<1> USE DEF EndingInv
<1>0. Typed
  BY TypedFacts
<1>u. UNCHANGED <<version, feed, batch, textOut, usage, closer, row, endFaults, taken, mixed, usageBlurred>>
  BY DEF ConsumeAgain
<1>f1. /\ intake'.on = TRUE /\ intake'.queued = row.cursor /\ intake'.pos = row.cursor /\ Idle("fail")
            /\ Idle("ingest")
       /\ row.status = "running" /\ batch.seqs = {} /\ textOut = <<>> /\ DOMAIN textOut = {}
  BY DEF ConsumeAgain
<1>f2. row.cursor <= intake.pos /\ closer["fail"].pc = "idle" /\ closer["ingest"].pc = "idle"
  BY <1>f1 DEF Places, Idle
<1>t_intake. intake' \in IntakeStates
  BY <1>0 DEF ConsumeAgain, IntakeStates, Typed
<1>1. EndingTypes'
  BY <1>u, <1>t_intake DEF EndingTypes
<1>2. Waiters' /\ UsageWaiters' /\ TextKept' /\ Collected' /\ Answers'
  BY <1>u DEF Waiters, UsageWaiters, TextKept, OfKind, Texts, Collected, Answers
<1>3. Places'
  BY <1>0, <1>u, <1>f1, <1>f2 DEF Typed, Places, OfKind, Texts
<1>4. Stages'
  BY <1>u, <1>f1 DEF Stages, Idle, AtEnd
<1>5. Owned'
  BY <1>u, <1>f1 DEF Owned, OwnEntry
<1>6. Alone'
  BY <1>u, <1>f1 DEF Alone, Idle
<1>7. Running'
  BY <1>u, <1>f1 DEF Running, Before, EndsWith, AtEnd
<1>8. Settled'
  BY <1>u, <1>f2 DEF Closers, Settled, PastUsage, EndsWith, AtEnd
<1>9. Newest'
  BY <1>0, <1>u, <1>f1, <1>f2 DEF Typed, Newest, OfKind
<1>10. Quiet'
  BY <1>u, <1>f1 DEF Quiet, AtEnd, Idle, Contains
<1>11. Logged'
  BY <1>u, <1>f1 DEF Logged, EndsWith, AtEnd
<1> QED BY <1>1, <1>2, <1>3, <1>4, <1>5, <1>6, <1>7, <1>8, <1>9, <1>10, <1>11

\* failTurn begins.
LEMMA FailTurnBeginsEnding ==
  ASSUME EndingInv, FailTurnBegins
  PROVE  EndingInv'
<1> USE DEF EndingInv
<1>0. Typed
  BY TypedFacts
<1>u. UNCHANGED <<version, feed, intake, batch, textOut, usage, row, endFaults, taken, usageBlurred>>
  BY DEF FailTurnBegins
<1>f1. /\ closer'["fail"].pc = "usage" /\ closer'["ingest"] = closer["ingest"]
            /\ closer' \in [Closers -> CloserStates]
  BY Moves DEF FailTurnBegins, Closers, Pcs
<1>f2. /\ ~intake.on /\ row.status = "running" /\ closer["fail"].pc = "idle"
       /\ mixed' = (mixed \/ intake.pos < intake.queued \/ ~Idle("ingest"))
  BY DEF FailTurnBegins, Idle
<1>t_closer. closer' \in [Closers -> CloserStates]
  BY <1>f1
<1>t_mixed. mixed' \in BOOLEAN
  BY <1>0, <1>f2 DEF Typed, Idle
<1>1. EndingTypes'
  BY <1>u, <1>t_closer, <1>t_mixed DEF EndingTypes
<1>2. Owned' /\ TextKept'
  BY <1>u DEF Owned, OwnEntry, TextKept, OfKind, Texts
<1>3. Places'
  BY <1>u, <1>f1 DEF Places, OfKind, Texts
<1>4. Stages'
  BY <1>u, <1>f1 DEF Closers, Stages, Idle, AtEnd
<1>5. Waiters'
  <2>1. ASSUME NEW i \in DOMAIN textOut, NEW c \in textOut[i].waiters PROVE closer'[c] = closer[c]
    <3>1. closer[c].pc # "idle" /\ c \in Closers
      BY <1>0 DEF Waiters, Typed
    <3> QED BY <3>1, <1>f1, <1>f2 DEF Closers
  <2> QED BY <2>1, <1>u DEF Waiters
<1>6. UsageWaiters'
  BY <1>0, <1>u, <1>f1 DEF Typed, Closers, UsageWaiters
<1>7. Alone'
  <2>1. ~mixed' => ~(intake.pos < intake.queued) /\ Idle("ingest")
    BY <1>f2
  <2>2. ~(intake.pos < intake.queued) => intake.pos = intake.queued
    BY <1>0 DEF Places, Typed
  <2> QED BY <2>1, <2>2, <1>u, <1>f1, <1>f2 DEF Alone, Idle
<1>8. Running'
  BY <1>u, <1>f2 DEF Running, Before, EndsWith, AtEnd
<1>9. Collected'
  BY <1>u, <1>f1, <1>f2 DEF Closers, Collected, Texts
<1>10. Settled'
  BY <1>u, <1>f1, <1>f2 DEF Closers, Settled, PastUsage, EndsWith, AtEnd
<1>11. Newest'
  BY <1>u, <1>f2 DEF Newest, OfKind
<1>12. Quiet'
  BY <1>u, <1>f2 DEF Quiet, AtEnd, Idle, Contains
<1>13. Answers'
  BY <1>u, <1>f2 DEF Answers
<1>14. Logged'
  BY <1>u, <1>f2 DEF Logged, EndsWith, AtEnd
<1> QED BY <1>1, <1>2, <1>3, <1>4, <1>5, <1>6, <1>7, <1>8, <1>9, <1>10, <1>11, <1>12, <1>13, <1>14

\* The stream breaks, and the consumer stops.
LEMMA StreamBreaksEnding ==
  ASSUME EndingInv, StreamBreaks
  PROVE  EndingInv'
<1> USE DEF EndingInv
<1>0. Typed
  BY TypedFacts
<1>u. UNCHANGED <<version, feed, batch, textOut, usage, closer, row, taken, mixed, usageBlurred>>
  BY DEF StreamBreaks
<1>f1. /\ ~intake'.on /\ intake'.queued = intake.queued /\ intake'.pos = intake.pos /\ intake.on
            /\ row.status = "running"
  BY DEF StreamBreaks, EndingTypes, IntakeStates
<1>f2. endFaults < MaxEndFaults /\ endFaults' = endFaults + 1
  BY DEF StreamBreaks, EndFault
<1>t_intake. intake' \in IntakeStates
  BY DEF StreamBreaks, EndingTypes, IntakeStates
<1>t_endFaults. endFaults' \in 0..MaxEndFaults
  BY <1>f2, EndingAssumption DEF EndingTypes
<1>1. EndingTypes'
  BY <1>u, <1>t_intake, <1>t_endFaults DEF EndingTypes
<1>2. Waiters' /\ UsageWaiters' /\ TextKept' /\ Collected' /\ Answers'
  BY <1>u DEF Waiters, UsageWaiters, TextKept, OfKind, Texts, Collected, Answers
<1>3. Places'
  BY <1>u, <1>f1 DEF Places, OfKind, Texts
<1>4. Stages'
  BY <1>u, <1>f1 DEF Stages, Idle, AtEnd
<1>5. Owned'
  BY <1>u, <1>f1 DEF Owned, OwnEntry
<1>6. Alone'
  BY <1>u, <1>f1 DEF Alone, Idle
<1>7. Running'
  BY <1>u, <1>f1 DEF Running, Before, EndsWith, AtEnd
<1>8. Settled'
  BY <1>u, <1>f1 DEF Settled, PastUsage, EndsWith, AtEnd
<1>9. Newest'
  BY <1>u, <1>f1 DEF Newest, OfKind
<1>10. Quiet'
  BY <1>u, <1>f1 DEF Quiet, AtEnd, Idle, Contains
<1>11. Logged'
  BY <1>u, <1>f1 DEF Logged, EndsWith, AtEnd
<1> QED BY <1>1, <1>2, <1>3, <1>4, <1>5, <1>6, <1>7, <1>8, <1>9, <1>10, <1>11

\* A text event joins the batch.
LEMMA HandleTextEnding ==
  ASSUME EndingInv, NEW seq \in Nat, seq = intake.pos + 1, intake.pos < intake.queued,
           row.status = "running" \/ mixed', mixed' \in BOOLEAN,
         mixed \/ closer["fail"].pc # "idle" => mixed', closer["ingest"].pc \in {"idle", "boundary"},
         \A i \in DOMAIN textOut : "ingest" \notin textOut[i].waiters, taken' = taken \cup {seq},
         closer["ingest"].pc = "idle", feed[seq] = "text", HandleText(seq),
           UNCHANGED <<version, feed, textOut, row, endFaults, usageBlurred>>
  PROVE  EndingInv'
<1> USE DEF EndingInv
<1>0. Typed
  BY TypedFacts
<1>u. UNCHANGED <<version, feed, textOut, usage, closer, row, endFaults, usageBlurred>>
  BY DEF HandleText
<1>f1. /\ batch'.seqs = batch.seqs \cup {seq}
  BY DEF HandleText
<1>f2. intake'.pos = seq /\ intake'.queued = intake.queued /\ intake'.on = intake.on
  BY DEF HandleText, EndingTypes, IntakeStates
<1>f3. seq \in 1..Len(feed) /\ seq \in OfKind("text") /\ seq > intake.pos
  BY <1>0 DEF Typed, Places, OfKind
<1>f4. UNCHANGED <<usage, closer>>
  BY DEF HandleText
<1>f5. OfKind("text")' = OfKind("text") /\ Texts' = Texts
  BY DEF OfKind, Texts
<1>t_batch. batch' \in BatchStates
  BY DEF HandleText, EndingTypes, BatchStates
<1>t_intake. intake' \in IntakeStates
  BY DEF HandleText, EndingTypes, IntakeStates
<1>t_taken. taken' \subseteq DOMAIN feed'
  BY <1>0, <1>f3 DEF Typed
<1>t_mixed. mixed' \in BOOLEAN
  OBVIOUS
<1>1. EndingTypes'
  BY <1>u, <1>t_batch, <1>t_intake, <1>t_taken, <1>t_mixed DEF EndingTypes
<1>2. Waiters' /\ UsageWaiters'
  BY <1>u DEF Waiters, UsageWaiters
<1>3. Places'
  BY <1>0, <1>f1, <1>f2, SMTT(30) DEF Typed, Places, OfKind, Texts
<1>4. Stages'
  BY <1>u DEF Stages, Idle, AtEnd
<1>5. Owned'
  BY DEF Owned, OwnEntry
<1>6. TextKept'
  <2>1. seq \notin batch.seqs /\ seq \notin row.text /\ \A i \in Texts : seq \notin textOut[i].seqs
    BY <1>0, <1>f3 DEF Places, Typed
  <2> QED BY <2>1, <1>u, <1>f1, <1>f3, <1>f5 DEF TextKept
<1>7. Alone'
  BY <1>u DEF Alone, Idle
<1>8. Running'
  BY DEF Running, Before, EndsWith, AtEnd
<1>9. Collected'
  BY <1>u DEF Closers, Collected, Texts
<1>10. Settled'
  BY <1>u DEF Closers, Settled, PastUsage, EndsWith, AtEnd
<1>11. Newest'
  BY <1>0, <1>u, <1>f2 DEF Typed, Newest, OfKind
<1>12. Quiet'
  BY DEF Quiet, AtEnd, Idle, Contains
<1>13. Answers'
  BY DEF Answers
<1>14. Logged'
  BY <1>u DEF Logged, EndsWith, AtEnd
<1> QED BY <1>1, <1>2, <1>3, <1>4, <1>5, <1>6, <1>7, <1>8, <1>9, <1>10, <1>11, <1>12, <1>13, <1>14

\* A usage event is held back, in place of the one before.
LEMMA HandleUsageEnding ==
  ASSUME EndingInv, NEW seq \in Nat, seq = intake.pos + 1, intake.pos < intake.queued,
           row.status = "running" \/ mixed', mixed' \in BOOLEAN,
         mixed \/ closer["fail"].pc # "idle" => mixed', closer["ingest"].pc \in {"idle", "boundary"},
         \A i \in DOMAIN textOut : "ingest" \notin textOut[i].waiters, taken' = taken \cup {seq},
         closer["ingest"].pc = "idle", feed[seq] = "usage", HandleUsage(seq),
           UNCHANGED <<version, feed, textOut, row, endFaults, usageBlurred>>
  PROVE  EndingInv'
<1> USE DEF EndingInv
<1>0. Typed
  BY TypedFacts
<1>u. UNCHANGED <<version, feed, batch, textOut, closer, row, endFaults, usageBlurred>>
  BY DEF HandleUsage
<1>f1. usage'.pending = seq /\ usage'.flights = usage.flights /\ usage'.stored = usage.stored
  BY DEF HandleUsage, EndingTypes, UsageStates
<1>f2. intake'.pos = seq /\ intake'.queued = intake.queued /\ intake'.on = intake.on
  BY DEF HandleUsage, EndingTypes, IntakeStates
<1>f3. seq \in 1..Len(feed) /\ seq \notin OfKind("text") /\ seq > intake.pos /\ seq <= MaxFeed
  BY <1>0, EndingAssumption DEF Typed, Places, OfKind, EndingTypes
<1>f4. UNCHANGED <<batch, closer>>
  BY DEF HandleUsage
<1>t_usage. usage' \in UsageStates
  <2>1. seq \in 0..MaxFeed /\ usage \in UsageStates
    BY <1>f3, EndingAssumption DEF EndingTypes
  <2> QED BY <2>1 DEF HandleUsage, UsageStates
<1>t_intake. intake' \in IntakeStates
  BY DEF HandleUsage, EndingTypes, IntakeStates
<1>t_taken. taken' \subseteq DOMAIN feed'
  BY <1>0, <1>f3 DEF Typed
<1>t_mixed. mixed' \in BOOLEAN
  OBVIOUS
<1>1. EndingTypes'
  BY <1>u, <1>t_usage, <1>t_intake, <1>t_taken, <1>t_mixed DEF EndingTypes
<1>2. Waiters'
  BY <1>u DEF Waiters
<1>3. Places'
  BY <1>0, <1>u, <1>f2, SMTT(30) DEF Typed, Places, OfKind, Texts
<1>4. Stages'
  BY <1>u DEF Stages, Idle, AtEnd
<1>5. Owned'
  BY DEF Owned, OwnEntry
<1>6. UsageWaiters'
  BY <1>u, <1>f1 DEF UsageWaiters
<1>7. TextKept'
  BY <1>u DEF TextKept, OfKind, Texts
<1>8. Alone'
  BY <1>u DEF Alone, Idle
<1>9. Running'
  BY DEF Running, Before, EndsWith, AtEnd
<1>10. Collected'
  BY <1>u DEF Collected, Texts
<1>11. Settled'
  BY <1>u DEF Closers, Settled, PastUsage, EndsWith, AtEnd
<1>12. Newest'
  BY <1>f1, <1>f2, <1>f3 DEF Newest, OfKind
<1>13. Quiet'
  BY DEF Quiet, AtEnd, Idle, Contains
<1>14. Answers'
  BY DEF Answers
<1>15. Logged'
  BY <1>u DEF Logged, EndsWith, AtEnd
<1> QED BY <1>1, <1>2, <1>3, <1>4, <1>5, <1>6, <1>7, <1>8, <1>9, <1>10, <1>11, <1>12, <1>13, <1>14, <1>15

\* A fact goes on to its flush.
LEMMA HandleFactEnding ==
  ASSUME EndingInv, NEW seq \in Nat, seq = intake.pos + 1, intake.pos < intake.queued,
           row.status = "running" \/ mixed', mixed' \in BOOLEAN,
         mixed \/ closer["fail"].pc # "idle" => mixed', closer["ingest"].pc \in {"idle", "boundary"},
         \A i \in DOMAIN textOut : "ingest" \notin textOut[i].waiters, taken' = taken \cup {seq},
         feed[seq] = "fact", HandleFact, UNCHANGED <<version, feed, textOut, row, endFaults, usageBlurred>>
  PROVE  EndingInv'
<1> USE DEF EndingInv
<1>0. Typed
  BY TypedFacts
<1>u. UNCHANGED <<version, feed, intake, batch, textOut, usage, row, endFaults, usageBlurred>>
  BY DEF HandleFact
<1>f1. /\ closer'["ingest"].pc = "fact" /\ closer'["fail"] = closer["fail"]
            /\ closer' \in [Closers -> CloserStates]
  BY Moves DEF HandleFact, Closers, Pcs
<1>f2. seq \in 1..Len(feed) /\ seq \notin OfKind("text") /\ seq \notin OfKind("usage")
         /\ feed[intake.pos + 1] = "fact"
  BY <1>0 DEF Typed, Places, OfKind
<1>t_closer. closer' \in [Closers -> CloserStates]
  BY <1>f1
<1>t_taken. taken' \subseteq DOMAIN feed'
  BY <1>0, <1>f2 DEF Typed
<1>t_mixed. mixed' \in BOOLEAN
  OBVIOUS
<1>1. EndingTypes'
  BY <1>u, <1>t_closer, <1>t_taken, <1>t_mixed DEF EndingTypes
<1>2. Owned'
  BY <1>u DEF Owned, OwnEntry
<1>3. Places'
  BY <1>u DEF Places, OfKind, Texts
<1>4. Stages'
  BY <1>u, <1>f1 DEF Closers, Stages, Idle, AtEnd
<1>5. Waiters'
  BY <1>0, <1>f1 DEF Typed, Closers, Waiters
<1>6. UsageWaiters'
  BY <1>0, <1>u, <1>f1, SMTT(30) DEF Typed, Closers, UsageWaiters
<1>7. TextKept'
  BY <1>u DEF TextKept, OfKind, Texts
<1>8. Alone'
  BY <1>f1 DEF Alone, Idle
<1>9. Running'
  BY DEF Running, Before, EndsWith, AtEnd
<1>10. Collected'
  BY <1>f1 DEF Closers, Collected, Texts
<1>11. Settled'
  BY <1>u, <1>f1 DEF Settled, PastUsage, EndsWith, AtEnd
<1>12. Newest'
  BY <1>u DEF Newest, OfKind
<1>13. Quiet'
  BY DEF Quiet, AtEnd, Idle, Contains
<1>14. Answers'
  BY DEF Answers
<1>15. Logged'
  BY <1>f1 DEF Logged, EndsWith, AtEnd
<1> QED BY <1>1, <1>2, <1>3, <1>4, <1>5, <1>6, <1>7, <1>8, <1>9, <1>10, <1>11, <1>12, <1>13, <1>14, <1>15

\* The end of the turn goes on to its flushes.
LEMMA HandleEndEnding ==
  ASSUME EndingInv, NEW seq \in Nat, seq = intake.pos + 1, intake.pos < intake.queued,
           row.status = "running" \/ mixed', mixed' \in BOOLEAN,
         mixed \/ closer["fail"].pc # "idle" => mixed', closer["ingest"].pc \in {"idle", "boundary"},
         \A i \in DOMAIN textOut : "ingest" \notin textOut[i].waiters, taken' = taken \cup {seq},
         feed[seq] = "end", HandleEnd, UNCHANGED <<version, feed, textOut, row, endFaults, usageBlurred>>
  PROVE  EndingInv'
<1> USE DEF EndingInv
<1>0. Typed
  BY TypedFacts
<1>u. UNCHANGED <<version, feed, intake, batch, textOut, usage, row, endFaults, usageBlurred>>
  BY DEF HandleEnd
<1>f1. /\ closer'["ingest"].pc = (IF version = 2 THEN "text" ELSE "usage") /\ closer'["fail"] = closer["fail"]
            /\ closer' \in [Closers -> CloserStates]
  BY Moves DEF HandleEnd, Closers, Pcs
<1>f2. seq \in 1..Len(feed) /\ seq \notin OfKind("text") /\ seq \notin OfKind("usage") /\ AtEnd
  BY <1>0 DEF Typed, Places, OfKind, AtEnd
<1>t_closer. closer' \in [Closers -> CloserStates]
  BY <1>f1
<1>t_taken. taken' \subseteq DOMAIN feed'
  BY <1>0, <1>f2 DEF Typed
<1>t_mixed. mixed' \in BOOLEAN
  OBVIOUS
<1>1. EndingTypes'
  BY <1>u, <1>t_closer, <1>t_taken, <1>t_mixed DEF EndingTypes
<1>2. Owned'
  BY <1>u DEF Owned, OwnEntry
<1>3. Places'
  BY <1>u DEF Places, OfKind, Texts
<1>4. Stages'
  BY <1>u, <1>f1, <1>f2 DEF Closers, Stages, Idle, AtEnd
<1>5. Waiters'
  BY <1>0, <1>f1 DEF Typed, Closers, Waiters
<1>6. UsageWaiters'
  BY <1>0, <1>u, <1>f1 DEF Typed, Closers, UsageWaiters
<1>7. TextKept'
  BY <1>u DEF TextKept, OfKind, Texts
<1>8. Alone'
  BY <1>f1 DEF Alone, Idle
<1>9. Running'
  BY DEF Running, Before, EndsWith, AtEnd
<1>10. Collected'
  BY <1>f1 DEF Closers, Collected, Texts
<1>11. Settled'
  <2>1. ~mixed' => row'.status = "running" /\ closer'["fail"].pc = "idle"
    BY <1>u, <1>f1, <1>0 DEF Typed
  <2>2. ~PastUsage("ingest")'
    <3>1. CASE version = 2
      BY <3>1, <1>f1, <1>u DEF PastUsage
    <3>2. CASE version = 1
      BY <3>2, <1>f1, <1>u DEF PastUsage
    <3> QED BY <3>1, <3>2, <1>0 DEF Typed
  <2>3. closer'["fail"].pc = "idle" => ~PastUsage("fail")'
    BY DEF PastUsage
  <2> QED BY <2>1, <2>2, <2>3 DEF Settled, Closers
<1>12. Newest'
  BY <1>u DEF Newest, OfKind
<1>13. Quiet'
  BY DEF Quiet, AtEnd, Idle, Contains
<1>14. Answers'
  BY DEF Answers
<1>15. Logged'
  BY <1>f1 DEF Closers, Logged, EndsWith, AtEnd
<1> QED BY <1>1, <1>2, <1>3, <1>4, <1>5, <1>6, <1>7, <1>8, <1>9, <1>10, <1>11, <1>12, <1>13, <1>14, <1>15

\* A fact or the end finds text in the batch, which goes first.
LEMMA BoundaryEnding ==
  ASSUME EndingInv, closer["ingest"].pc = "idle", intake.pos < intake.queued,
           feed[intake.pos + 1] \in {"fact", "end"}, row.status = "running",
         To("ingest", "boundary"), mixed' \in BOOLEAN, mixed \/ closer["fail"].pc # "idle" => mixed',
         UNCHANGED <<version, feed, intake, batch, textOut, usage, row, endFaults, taken, usageBlurred>>
  PROVE  EndingInv'
<1> USE DEF EndingInv
<1>0. Typed
  BY TypedFacts
<1>u. UNCHANGED <<version, feed, intake, batch, textOut, usage, row, endFaults, taken, usageBlurred>>
  OBVIOUS
<1>f1. /\ closer'["ingest"].pc = "boundary" /\ closer'["fail"] = closer["fail"]
            /\ closer' \in [Closers -> CloserStates]
  BY Moves DEF Closers, Pcs
<1>t_closer. closer' \in [Closers -> CloserStates]
  BY <1>f1
<1>t_mixed. mixed' \in BOOLEAN
  OBVIOUS
<1>1. EndingTypes'
  BY <1>u, <1>t_closer, <1>t_mixed DEF EndingTypes
<1>2. Owned' /\ TextKept'
  BY <1>u DEF Owned, OwnEntry, TextKept, OfKind, Texts
<1>3. Places'
  BY DEF Places, OfKind, Texts
<1>4. Stages'
  BY <1>f1 DEF Closers, Stages, Idle, AtEnd
<1>5. Waiters'
  BY <1>0, <1>f1 DEF Typed, Closers, Waiters
<1>6. UsageWaiters'
  BY <1>0, <1>f1 DEF Typed, Closers, UsageWaiters
<1>7. Alone'
  BY <1>f1 DEF Alone, Idle
<1>8. Running'
  BY DEF Running, Before, EndsWith, AtEnd
<1>9. Collected'
  BY <1>f1 DEF Closers, Collected, Texts
<1>10. Settled'
  BY <1>f1 DEF Closers, Settled, PastUsage, EndsWith, AtEnd
<1>11. Newest'
  BY DEF Newest, OfKind
<1>12. Quiet'
  BY DEF Quiet, AtEnd, Idle, Contains
<1>13. Answers'
  BY DEF Answers
<1>14. Logged'
  BY DEF Logged, EndsWith, AtEnd
<1> QED BY <1>1, <1>2, <1>3, <1>4, <1>5, <1>6, <1>7, <1>8, <1>9, <1>10, <1>11, <1>12, <1>13, <1>14

\* An event that is known already, or comes after the end, is dropped.
LEMMA DroppedEnding ==
  ASSUME EndingInv, closer["ingest"].pc = "idle", intake.pos < intake.queued,
           intake' = [intake EXCEPT !.pos = intake.pos + 1], mixed' = TRUE,
         UNCHANGED <<version, feed, batch, textOut, usage, closer, row, endFaults, taken, usageBlurred>>
  PROVE  EndingInv'
<1> USE DEF EndingInv
<1>0. Typed
  BY TypedFacts
<1>u. UNCHANGED <<version, feed, batch, textOut, usage, closer, row, endFaults, taken, usageBlurred>>
  OBVIOUS
<1>f1. intake'.pos = intake.pos + 1 /\ intake'.queued = intake.queued /\ intake'.on = intake.on
  BY DEF EndingTypes, IntakeStates
<1>t_intake. intake' \in IntakeStates
  BY <1>0 DEF EndingTypes, IntakeStates, Typed
<1>t_mixed. mixed' \in BOOLEAN
  OBVIOUS
<1>1. EndingTypes'
  BY <1>u, <1>t_intake, <1>t_mixed DEF EndingTypes
<1>2. Waiters' /\ UsageWaiters' /\ TextKept'
  BY <1>u DEF Waiters, UsageWaiters, TextKept, OfKind, Texts
<1>3. Places'
  BY <1>0 DEF Typed, Places, OfKind, Texts
<1>4. Stages'
  BY DEF Stages, Idle, AtEnd
<1>5. Owned'
  <2>1. ASSUME NEW i \in DOMAIN textOut, textOut[i].kind # "text" PROVE \E c \in Closers : OwnEntry(i, c)'
    <3>1. PICK c \in Closers : OwnEntry(i, c)
      BY <2>1 DEF Owned
    <3>2. c # "ingest"
      BY <2>1, <3>1 DEF OwnEntry, Waiters
    <3>3. OwnEntry(i, c)'
      BY <3>1, <3>2, <1>u DEF OwnEntry
    <3> QED BY <3>3
  <2> QED BY <2>1, <1>u DEF Owned
<1>6. Alone'
  BY DEF Alone, Idle
<1>7. Running'
  BY DEF Running, Before, EndsWith, AtEnd
<1>8. Collected'
  BY DEF Collected, Texts
<1>9. Settled'
  BY DEF Settled, PastUsage, EndsWith, AtEnd
<1>10. Newest'
  BY DEF Newest, OfKind
<1>11. Quiet'
  BY DEF Quiet, AtEnd, Idle, Contains
<1>12. Answers'
  BY DEF Answers
<1>13. Logged'
  BY DEF Closers, Logged, EndsWith, AtEnd
<1> QED BY <1>1, <1>2, <1>3, <1>4, <1>5, <1>6, <1>7, <1>8, <1>9, <1>10, <1>11, <1>12, <1>13

\* A flush with nothing to send waits for the text on its way.
LEMMA JoinTextEnding ==
  ASSUME EndingInv, NEW c \in Closers, closer[c].pc \in {"boundary", "fact", "text"},
         textOut' = [i \in DOMAIN textOut |-> IF textOut[i].kind = "text"
                         THEN [textOut[i] EXCEPT !.waiters = @ \cup {c}] ELSE textOut[i]],
         UNCHANGED <<version, feed, intake, batch, usage, closer, row, endFaults, taken, mixed, usageBlurred>>
  PROVE  EndingInv'
<1> USE DEF EndingInv
<1>0. Typed
  BY TypedFacts
<1>u. UNCHANGED <<version, feed, intake, batch, usage, closer, row, endFaults, taken, mixed, usageBlurred>>
  OBVIOUS
<1>f1. textOut' \in Seq(Entries)
  <2>1. \A i \in DOMAIN textOut : textOut[i] \in Entries
    BY DEF EndingTypes
  <2>2. \A i \in DOMAIN textOut : textOut'[i] \in Entries
    BY <2>1 DEF Entries
  <2>3. Len(textOut) \in Nat /\ DOMAIN textOut = 1..Len(textOut)
    BY <1>0 DEF Typed
  <2>4. DOMAIN textOut' = 1..Len(textOut)
    BY <2>3
  <2>5. textOut' \in [1..Len(textOut) -> Entries]
    BY <2>2, <2>3
  <2> QED BY <2>5, <2>3, SeqDef
<1>f2. DOMAIN textOut' = DOMAIN textOut
  OBVIOUS
<1>f3. \A i \in DOMAIN textOut : textOut[i] \in Entries
  BY DEF EndingTypes
<1>f4. \A i \in DOMAIN textOut : /\ textOut'[i].kind = textOut[i].kind /\ textOut'[i].seqs = textOut[i].seqs
                                 /\ textOut[i].kind # "text" => textOut'[i] = textOut[i]
                                 /\ textOut[i].kind = "text" => textOut'[i].waiters = textOut[i].waiters \cup {c}
  BY <1>f3 DEF Entries
<1>f5. Texts' = Texts
  BY <1>f2, <1>f4 DEF Texts
<1>t_textOut. textOut' \in Seq(Entries)
  BY <1>f1
<1>1. EndingTypes'
  BY <1>u, <1>t_textOut DEF EndingTypes
<1>2. Stages' /\ UsageWaiters' /\ Alone' /\ Running' /\ Settled' /\ Newest' /\ Quiet' /\ Answers'
  BY <1>u DEF Stages, Idle, AtEnd, UsageWaiters, Alone, Running, Before, EndsWith, Settled, PastUsage, Newest,
     OfKind, Quiet, Contains, Answers
<1>3. Places'
  BY <1>u, <1>f2, <1>f4, <1>f5 DEF Places, Texts, OfKind
<1>4. Waiters'
  BY <1>u, <1>f2, <1>f4 DEF Waiters
<1>5. Owned'
  BY <1>u, <1>f2, <1>f4 DEF Owned, OwnEntry
<1>6. TextKept'
  BY <1>u, <1>f2, <1>f4, <1>f5 DEF TextKept, Texts, OfKind
<1>7. Collected'
  BY <1>u, <1>f5 DEF Collected
<1>8. Logged'
  BY <1>u, <1>f2, <1>f4 DEF Logged, EndsWith, AtEnd
<1> QED BY <1>1, <1>2, <1>3, <1>4, <1>5, <1>6, <1>7, <1>8

\* A closer whose flush is done goes on to its next step.
LEMMA MoveOnEnding ==
  ASSUME EndingInv, NEW c \in Closers, closer[c].pc \in {"fact", "text"}, batch.seqs = {}, Texts = {},
         \A i \in DOMAIN textOut : c \notin textOut[i].waiters,
         To(c, IF closer[c].pc = "fact" THEN "append"
               ELSE IF c = "ingest" /\ version = 2 THEN "usage"
               ELSE IF version = 2 THEN "append" ELSE "collect"),
         UNCHANGED <<version, feed, intake, batch, textOut, usage, row, endFaults, taken, mixed, usageBlurred>>
  PROVE  EndingInv'
<1> USE DEF EndingInv
<1>0. Typed
  BY TypedFacts
<1>u. UNCHANGED <<version, feed, intake, batch, textOut, usage, row, endFaults, taken, mixed, usageBlurred>>
  OBVIOUS
<1>f1. (IF closer[c].pc = "fact" THEN "append" ELSE IF c = "ingest"
         /\ version = 2 THEN "usage" ELSE IF version = 2 THEN "append" ELSE "collect") \in Pcs
  BY DEF Pcs
<1>f2. /\ closer' \in [Closers -> CloserStates]
       /\ closer'[c].pc = (IF closer[c].pc = "fact" THEN "append" ELSE IF c = "ingest" /\ version = 2 THEN "usage"
                           ELSE IF version = 2 THEN "append" ELSE "collect")
       /\ \A d \in Closers \ {c} : closer'[d] = closer[d]
  BY <1>f1, Moves
<1>f3. /\ closer'[c].pc \in {"append", "usage", "collect"}
       /\ \A d \in Closers : d # c
            => closer'[d].pc = closer[d].pc /\ closer'[d].text = closer[d].text
              /\ closer'[d].given = closer[d].given
       /\ closer'[c].pc = "collect" => version = 1 /\ closer[c].pc = "text"
       /\ closer'[c].pc = "usage" => c = "ingest" /\ version = 2 /\ closer[c].pc = "text"
       /\ closer'[c].pc = "append" => closer[c].pc = "fact" \/ (c = "fail" /\ version = 2)
  BY <1>f2, <1>0 DEF Typed, Closers
<1>f4. ~mixed => row.status = "running"
  BY DEF Running, Before
<1>f5. closer[c].pc = "fact" => c = "ingest" /\ ~AtEnd
  BY DEF Stages, AtEnd, Closers, Idle
<1>f6. ~mixed => \A d \in Closers : d # c => closer[d].pc = "idle"
  BY OneAtATime
<1>t_closer. closer' \in [Closers -> CloserStates]
  BY <1>f2
<1>1. EndingTypes'
  BY <1>u, <1>t_closer DEF EndingTypes
<1>2. Owned' /\ TextKept' /\ Newest' /\ Answers'
  BY <1>u DEF Owned, OwnEntry, TextKept, OfKind, Texts, Newest, Answers
<1>3. Places'
  BY <1>f2 DEF Closers, Places, OfKind, Texts
<1>4. Stages'
  BY <1>f2 DEF Closers, Stages, Idle, AtEnd
<1>5. Waiters'
  BY <1>0, <1>f2 DEF Typed, Waiters
<1>6. UsageWaiters'
  BY <1>0, <1>f3 DEF Typed, UsageWaiters
<1>7. Alone'
  BY <1>f2 DEF Closers, Alone, Idle
<1>8. Running'
  BY DEF Running, Before, EndsWith, AtEnd
<1>9. Collected'
  BY <1>f2 DEF Collected, Texts
<1>10. Settled'
  BY <1>f3, <1>f5 DEF Settled, PastUsage, EndsWith, AtEnd
<1>11. Quiet'
  BY <1>f4 DEF Quiet, AtEnd, Idle, Contains
<1>12. Logged'
  BY <1>f2 DEF Logged, EndsWith, AtEnd
<1> QED BY <1>1, <1>2, <1>3, <1>4, <1>5, <1>6, <1>7, <1>8, <1>9, <1>10, <1>11, <1>12

\* The pending usage is sent, whoever asks for it and waits.
LEMMA SendUsageEnding ==
  ASSUME EndingInv, NEW w \in SUBSET Closers, SendUsage(w), usage.pending # 0, usageBlurred \in BOOLEAN,
         w = {} \/ \E c \in Closers : w = {c} /\ closer[c].pc = "usage"
           /\ \A f \in usage.flights : c \notin f.waiters,
         UNCHANGED <<version, feed, intake, batch, textOut, closer, row, endFaults, taken, mixed>>
  PROVE  EndingInv'
<1> USE DEF EndingInv
<1>0. Typed
  BY TypedFacts
<1>u. UNCHANGED <<version, feed, intake, batch, textOut, closer, row, endFaults, taken, mixed>>
  BY DEF SendUsage
<1>f1. usage \in UsageStates /\ usage.pending \in 1..MaxFeed
  BY <1>0, EndingAssumption DEF EndingTypes, UsageStates
<1>f2. [seq |-> usage.pending, waiters |-> w, tracked |-> w = {}] \in Flights
  BY <1>f1 DEF Flights
<1>f3. PICK n \in Flights : /\ n.seq = usage.pending /\ n.waiters = w /\ n.tracked = (w = {})
                         /\ usage'.pending = 0 /\ usage'.stored = usage.stored /\ usage'.flights = usage.flights
                              \cup {n}
  BY <1>f1, <1>f2 DEF SendUsage, UsageStates
<1>f4. usageBlurred' = (usageBlurred \/ usage.flights # {})
  BY DEF SendUsage
<1>f5. \A c \in Closers : closer[c].pc = "usage" => Before(c) /\ ~PastUsage(c) /\ closer[c].pc # "idle"
  BY DEF Before, PastUsage
<1>t_usage. usage' \in UsageStates
  <2>1. PICK m \in Flights : usage' = [usage EXCEPT !.pending = 0, !.flights = usage.flights \cup {m}]
    BY <1>f2 DEF SendUsage
  <2>2. usage.flights \cup {m} \in SUBSET Flights /\ usage.stored \in 0..MaxFeed /\ 0 \in 0..MaxFeed
    BY <1>f1, EndingAssumption DEF UsageStates
  <2>3. usage' = [pending |-> 0, flights |-> usage.flights \cup {m}, stored |-> usage.stored]
    BY <2>1, <1>f1 DEF UsageStates
  <2> QED BY <2>2, <2>3 DEF UsageStates
<1>t_usageBlurred. usageBlurred' \in BOOLEAN
  BY <1>f4
<1>1. EndingTypes'
  BY <1>u, <1>t_usage, <1>t_usageBlurred DEF EndingTypes
<1>2. Places' /\ Stages' /\ Waiters' /\ Owned' /\ TextKept' /\ Alone' /\ Running' /\ Collected' /\ Quiet'
        /\ Answers' /\ Logged'
  BY <1>u DEF Places, OfKind, Texts, Stages, Idle, AtEnd, Waiters, Owned, OwnEntry, TextKept, Alone, Running,
     Before, EndsWith, Collected, Quiet, Contains, Answers, Logged
<1>3. UsageWaiters'
  <2>1. ASSUME NEW f \in usage'.flights, NEW c \in f.waiters PROVE closer'[c].pc = "usage"
    BY <2>1, <1>u, <1>f3 DEF UsageWaiters
  <2>2. ASSUME NEW f \in usage'.flights, ~f.tracked
         PROVE  \E c \in Closers : f.waiters = {c} /\ \A g \in usage'.flights : c \in g.waiters => g = f
    <3>1. CASE f = n
      <4>1. w # {}
        BY <3>1, <2>2, <1>f3
      <4>2. PICK c \in Closers : w = {c} /\ \A g \in usage.flights : c \notin g.waiters
        BY <4>1
      <4> QED BY <4>2, <3>1, <1>f3
    <3>2. CASE f \in usage.flights
      <4>1. PICK c \in Closers : f.waiters = {c} /\ \A g \in usage.flights : c \in g.waiters => g = f
        BY <3>2, <2>2 DEF UsageWaiters
      <4>2. c \notin w
        BY <4>1, <3>2
      <4> QED BY <4>1, <4>2, <1>f3
    <3> QED BY <3>1, <3>2, <1>f3
  <2> QED BY <2>1, <2>2 DEF UsageWaiters
<1>4. Settled'
  <2>1. ~(~mixed /\ (row.status = "ended" \/ \E c \in Closers : PastUsage(c)))
    BY <1>0 DEF Settled, Typed
  <2>2. \A c \in Closers : PastUsage(c)' => PastUsage(c)
    BY <1>u DEF PastUsage, EndsWith, AtEnd
  <2> QED BY <2>1, <2>2, <1>u DEF Settled
<1>5. Newest'
  <2> SUFFICES ASSUME ~mixed', ~usageBlurred'
               PROVE  /\ \A f, g \in usage'.flights : f = g
                      /\ \A u \in (taken \cap OfKind("usage"))' : u <= intake'.pos =>
                           IF usage'.pending # 0 THEN u <= usage'.pending
                           ELSE IF usage'.flights # {} THEN \A f \in usage'.flights : u <= f.seq
                           ELSE u <= usage'.stored
    BY DEF Newest
  <2>0. ~usageBlurred /\ ~(usage.flights # {})
    BY <1>f4
  <2>1. ~mixed /\ ~usageBlurred /\ usage'.flights = {n} /\ usage'.pending = 0 /\ n.seq = usage.pending
    BY <2>0, <1>u, <1>f3
  <2>2. \A u \in taken \cap OfKind("usage") : u <= intake.pos => u <= usage.pending
    BY <2>1 DEF Newest
  <2>3. (taken \cap OfKind("usage"))' = taken \cap OfKind("usage")
    BY <1>u DEF OfKind
  <2> QED BY <2>1, <2>2, <2>3, <1>u
<1> QED BY <1>1, <1>2, <1>3, <1>4, <1>5

\* A flush waits for the usage on its way.
LEMMA JoinUsageEnding ==
  ASSUME EndingInv, NEW c \in Closers, closer[c].pc = "usage", \A f \in usage.flights : c \notin f.waiters,
         usage' = [usage EXCEPT !.flights = {IF f \in Tracked THEN [f EXCEPT !.waiters = @
           \cup {c}] ELSE f : f \in usage.flights}],
         UNCHANGED <<version, feed, intake, batch, textOut, closer, row, endFaults, taken, mixed, usageBlurred>>
  PROVE  EndingInv'
<1> USE DEF EndingInv
<1>0. Typed
  BY TypedFacts
<1>u. UNCHANGED <<version, feed, intake, batch, textOut, closer, row, endFaults, taken, mixed, usageBlurred>>
  OBVIOUS
<1>f1. usage \in UsageStates /\ usage.flights \subseteq Flights
  BY DEF EndingTypes, UsageStates
<1>f2. \A f \in usage.flights : [f EXCEPT !.waiters = @ \cup {c}] \in Flights
  BY <1>f1 DEF Flights
<1>f3. /\ usage'.pending = usage.pending /\ usage'.stored = usage.stored
       /\ usage'.flights = {IF f \in Tracked THEN [f EXCEPT !.waiters = @ \cup {c}] ELSE f : f \in usage.flights}
  BY <1>f1 DEF UsageStates
<1>f4. \A h \in usage'.flights : \E f \in usage.flights : h.seq = f.seq /\ h.tracked = f.tracked
       /\ ((f.tracked /\ h.waiters = f.waiters \cup {c}) \/ (~f.tracked /\ h = f))
  <2>1. \A f \in usage.flights : f \in Tracked <=> f.tracked
    BY DEF Tracked
  <2>2. \A f \in usage.flights : LET h == [f EXCEPT !.waiters = @ \cup {c}] IN h.seq = f.seq
          /\ h.tracked = f.tracked /\ h.waiters = f.waiters \cup {c}
    BY <1>f1 DEF Flights
  <2>3. \A h \in usage'.flights : \E f \in usage.flights : h = IF f \in Tracked THEN [f EXCEPT !.waiters = @
          \cup {c}] ELSE f
    BY <1>f3
  <2>4. ASSUME NEW h \in usage'.flights
         PROVE  \E f \in usage.flights : h.seq = f.seq /\ h.tracked = f.tracked
                  /\ ((f.tracked /\ h.waiters = f.waiters \cup {c}) \/ (~f.tracked /\ h = f))
    <3>1. PICK f \in usage.flights : h = IF f \in Tracked THEN [f EXCEPT !.waiters = @ \cup {c}] ELSE f
      BY <2>3
    <3>2. CASE f.tracked
      BY <3>1, <3>2, <2>1, <2>2
    <3>3. CASE ~f.tracked
      BY <3>1, <3>3, <2>1
    <3> QED BY <3>2, <3>3
  <2> QED BY <2>4
<1>f5. \A f \in usage.flights : ~f.tracked => f \in usage'.flights
  BY <1>f3 DEF Tracked
<1>f6. usage.flights # {} <=> usage'.flights # {}
  BY <1>f3, ZenonT(60)
<1>t_usage. usage' \in UsageStates
  <2>1. usage'.flights \in SUBSET Flights
    BY <1>f1, <1>f2, <1>f3
  <2> QED BY <2>1, <1>f1, <1>f3 DEF UsageStates
<1>1. EndingTypes'
  BY <1>u, <1>t_usage DEF EndingTypes
<1>2. Places' /\ Stages' /\ Waiters' /\ Owned' /\ TextKept' /\ Alone' /\ Running' /\ Collected' /\ Quiet'
        /\ Answers' /\ Logged'
  BY <1>u DEF Places, OfKind, Texts, Stages, Idle, AtEnd, Waiters, Owned, OwnEntry, TextKept, Alone, Running,
     Before, EndsWith, Collected, Quiet, Contains, Answers, Logged
<1>3. UsageWaiters'
  <2>1. ASSUME NEW h \in usage'.flights, NEW d \in h.waiters PROVE closer'[d].pc = "usage"
    BY <2>1, <1>u, <1>f4 DEF UsageWaiters
  <2>2. ASSUME NEW h \in usage'.flights, ~h.tracked
         PROVE  \E d \in Closers : h.waiters = {d} /\ \A g \in usage'.flights : d \in g.waiters => g = h
    <3>1. h \in usage.flights
      BY <2>2, <1>f4
    <3>2. PICK d \in Closers : h.waiters = {d} /\ \A g \in usage.flights : d \in g.waiters => g = h
      BY <3>1, <2>2 DEF UsageWaiters
    <3>3. d # c
      BY <3>1, <3>2
    <3>4. ASSUME NEW g \in usage'.flights, d \in g.waiters PROVE g = h
      <4>1. PICK e \in usage.flights : g.tracked = e.tracked
                   /\ ((e.tracked /\ g.waiters = e.waiters \cup {c}) \/ (~e.tracked /\ g = e))
        BY <1>f4
      <4>2. d \in e.waiters
        BY <4>1, <3>3, <3>4
      <4> QED BY <4>1, <4>2, <3>2, <2>2
    <3> QED BY <3>2, <3>4
  <2> QED BY <2>1, <2>2 DEF UsageWaiters
<1>4. Settled'
  BY DEF Settled, PastUsage, EndsWith, AtEnd
<1>5. Newest'
  <2> SUFFICES ASSUME ~mixed', ~usageBlurred'
               PROVE  /\ \A f, g \in usage'.flights : f = g
                      /\ \A u \in (taken \cap OfKind("usage"))' : u <= intake'.pos =>
                           IF usage'.pending # 0 THEN u <= usage'.pending
                           ELSE IF usage'.flights # {} THEN \A f \in usage'.flights : u <= f.seq
                           ELSE u <= usage'.stored
    BY DEF Newest
  <2>1. ~mixed /\ ~usageBlurred /\ \A f, g \in usage.flights : f = g
    BY <1>u DEF Newest
  <2>2. (taken \cap OfKind("usage"))' = taken \cap OfKind("usage")
    BY <1>u DEF OfKind
  <2>3. \A f, g \in usage'.flights : f = g
    <3>1. CASE usage.flights = {}
      BY <3>1, <1>f6
    <3>2. CASE usage.flights # {}
      <4>1. PICK e \in usage.flights : \A f \in usage.flights : f = e
        BY <3>2, <2>1
      <4>2. usage'.flights = {IF e \in Tracked THEN [e EXCEPT !.waiters = @ \cup {c}] ELSE e}
        BY <4>1, <1>f3
      <4> QED BY <4>2
    <3> QED BY <3>1, <3>2
  <2>4. \A u \in taken \cap OfKind("usage") : u <= intake.pos =>
          IF usage.pending # 0 THEN u <= usage.pending
          ELSE IF usage.flights # {} THEN \A f \in usage.flights : u <= f.seq ELSE u <= usage.stored
    BY <2>1 DEF Newest
  <2>5. usage'.pending = usage.pending /\ usage'.stored = usage.stored
          /\ (usage'.flights = {} <=> usage.flights = {})
    BY <1>f3, <1>f6
  <2>6. \A h \in usage'.flights : \E f \in usage.flights : h.seq = f.seq
    BY <1>f4
  <2> QED BY <2>2, <2>3, <2>4, <2>5, <2>6, <1>u
<1> QED BY <1>1, <1>2, <1>3, <1>4, <1>5

\* A closer whose usage is flushed goes on.
LEMMA UsageFlushedEnding ==
  ASSUME EndingInv, NEW c \in Closers, UsageFlushed(c)
  PROVE  EndingInv'
<1> USE DEF EndingInv
<1>0. Typed
  BY TypedFacts
<1>u. UNCHANGED <<version, feed, intake, batch, textOut, usage, row, endFaults, taken, mixed, usageBlurred>>
  BY DEF UsageFlushed
<1>f1. (IF version = 1 \/ c = "fail" THEN "text" ELSE "append") \in Pcs
  BY DEF Pcs
<1>f2. /\ closer' \in [Closers -> CloserStates]
       /\ closer'[c].pc = (IF version = 1 \/ c = "fail" THEN "text" ELSE "append")
       /\ \A d \in Closers \ {c} : closer'[d] = closer[d]
  BY <1>f1, Moves DEF UsageFlushed
<1>f3. /\ closer[c].pc = "usage" /\ usage.pending = 0
       /\ \A f \in usage.flights : c \notin f.waiters /\ ~f.tracked
       /\ \A i \in DOMAIN textOut : c \notin textOut[i].waiters
  BY DEF UsageFlushed, Waits, Tracked
<1>f4. ~mixed => \A d \in Closers : d # c => closer[d].pc = "idle"
  BY <1>f3, OneAtATime
<1>f5. ~mixed => usage.flights = {}
  BY <1>f3, <1>f4 DEF UsageWaiters
<1>f6. ~mixed => row.status = "running"
  BY <1>f3 DEF Running, Before
<1>t_closer. closer' \in [Closers -> CloserStates]
  BY <1>f2
<1>1. EndingTypes'
  BY <1>u, <1>t_closer DEF EndingTypes
<1>2. Owned' /\ TextKept' /\ Newest' /\ Answers'
  BY <1>u DEF Owned, OwnEntry, TextKept, OfKind, Texts, Newest, Answers
<1>3. Places'
  BY <1>u, <1>f2, <1>f3 DEF Closers, Places, OfKind, Texts
<1>4. Stages'
  BY <1>u, <1>f2, <1>f3 DEF Closers, Stages, Idle, AtEnd
<1>5. Waiters'
  BY <1>0, <1>u, <1>f2, <1>f3 DEF Typed, Waiters
<1>6. UsageWaiters'
  BY <1>u, <1>f2, <1>f3 DEF UsageWaiters
<1>7. Alone'
  BY <1>u, <1>f2, <1>f3 DEF Closers, Alone, Idle
<1>8. Running'
  BY <1>u, <1>f3 DEF Running, Before, EndsWith, AtEnd
<1>9. Collected'
  BY <1>u, <1>f2 DEF Collected, Texts
<1>10. Settled'
  BY <1>u, <1>f3, <1>f5 DEF Settled, PastUsage, EndsWith, AtEnd
<1>11. Quiet'
  BY <1>u, <1>f6 DEF Quiet, AtEnd, Idle, Contains
<1>12. Logged'
  BY <1>u, <1>f2, <1>f3 DEF Logged, EndsWith, AtEnd
<1> QED BY <1>1, <1>2, <1>3, <1>4, <1>5, <1>6, <1>7, <1>8, <1>9, <1>10, <1>11, <1>12

\* Texts are sets of the numbers of events.
LEMMA TextTyped ==
  ASSUME Typed
  PROVE  row.text \in SUBSET Nat /\ taken \in SUBSET Nat
<1>1. row.text \subseteq Nat
  BY DEF Typed
<1>2. Len(feed) \in Nat
  BY DEF Typed
<1>3. taken \subseteq 1..Len(feed)
  BY DEF Typed
<1> QED BY <1>1, <1>2, <1>3

\* A closer collects the text of the answer.
LEMMA CollectEnding ==
  ASSUME EndingInv, NEW c \in Closers, Collect(c)
  PROVE  EndingInv'
<1> USE DEF EndingInv
<1>0. Typed
  BY TypedFacts
<1>u. UNCHANGED <<version, feed, intake, batch, textOut, usage, row, endFaults, taken, mixed, usageBlurred>>
  BY DEF Collect
<1>f1. row.text \in SUBSET Nat /\ taken \cap OfKind("text") \in SUBSET Nat
  <2>1. row.text \in SUBSET Nat /\ taken \in SUBSET Nat
    BY <1>0, TextTyped
  <2> QED BY <2>1
<1>f2. /\ closer' \in [Closers -> CloserStates] /\ closer[c].pc = "collect"
       /\ closer'[c].pc = "commit" /\ closer'[c].text = row.text /\ closer'[c].given = taken \cap OfKind("text")
       /\ \A d \in Closers : d # c => closer'[d] = closer[d]
  BY <1>f1 DEF Collect, EndingTypes, CloserStates, Pcs
<1>f3. ~mixed => row.text = taken \cap OfKind("text")
  <2>1. ~mixed => batch.seqs = {} /\ Texts = {}
    BY <1>f2 DEF Collected
  <2> QED BY <2>1 DEF TextKept
<1>f4. \A i \in DOMAIN textOut : c \notin textOut[i].waiters
  BY <1>0, <1>f2 DEF Waiters, Typed
<1>t_closer. closer' \in [Closers -> CloserStates]
  BY <1>f2
<1>1. EndingTypes'
  BY <1>u, <1>t_closer DEF EndingTypes
<1>2. Owned' /\ TextKept' /\ Newest' /\ Answers'
  BY <1>u DEF Owned, OwnEntry, TextKept, OfKind, Texts, Newest, Answers
<1>3. Places'
  BY <1>u, <1>f2 DEF Closers, Places, OfKind, Texts
<1>4. Stages'
  BY <1>u, <1>f2 DEF Closers, Stages, Idle, AtEnd
<1>5. Waiters'
  <2>1. \A i \in DOMAIN textOut, d \in Closers : d \in textOut[i].waiters => closer'[d] = closer[d]
    BY <1>f2, <1>f4
  <2>2. \A i \in DOMAIN textOut : textOut[i].waiters \subseteq Closers
    BY <1>0 DEF Typed
  <2> QED BY <1>u, <2>1, <2>2 DEF Waiters
<1>6. UsageWaiters'
  BY <1>0, <1>u, <1>f2, <1>f3, SMTT(30) DEF Typed, UsageWaiters
<1>7. Alone'
  BY <1>u, <1>f2 DEF Closers, Alone, Idle
<1>8. Running'
  BY <1>u, <1>f2 DEF Running, Before, EndsWith, AtEnd
<1>9. Collected'
  BY <1>u, <1>f2, <1>f3 DEF Collected, Texts
<1>10. Settled'
  BY <1>u, <1>f2 DEF Settled, PastUsage, EndsWith, AtEnd
<1>11. Quiet'
  BY <1>u, <1>f2 DEF Closers, Quiet, AtEnd, Idle, Contains
<1>12. Logged'
  BY <1>u, <1>f2 DEF Logged, EndsWith, AtEnd
<1> QED BY <1>1, <1>2, <1>3, <1>4, <1>5, <1>6, <1>7, <1>8, <1>9, <1>10, <1>11, <1>12

\* A closer ends the turn and gives its answer, if it has one to give.
LEMMA CloseEnding ==
  ASSUME EndingInv, NEW c \in Closers, NEW answered \in BOOLEAN, closer[c].pc = "commit", Close(c, answered)
  PROVE  EndingInv'
<1> USE DEF EndingInv
<1>0. Typed
  BY TypedFacts
<1>u. UNCHANGED <<version, feed, intake, batch, textOut, usage, endFaults, taken, mixed, usageBlurred>>
  BY DEF Close
<1>f1. /\ closer' \in [Closers -> CloserStates] /\ closer'[c].pc = "append"
       /\ \A d \in Closers \ {c} : closer'[d] = closer[d]
  BY Moves DEF Close, Pcs
<1>f2. closer[c] \in CloserStates /\ row \in RowStates
  BY DEF EndingTypes
<1>f3. [text |-> closer[c].text, given |-> closer[c].given] \in AnswerStates
  BY <1>f2 DEF CloserStates, AnswerStates
<1>f4. /\ row'.status = "ended" /\ row'.cursor = row.cursor /\ row'.text = row.text /\ row'.ends = row.ends
       /\ row'.answers = IF answered THEN Append(row.answers,
            [text |-> closer[c].text, given |-> closer[c].given]) ELSE row.answers
  BY <1>f2 DEF Close, RowStates
<1>f5. ~mixed => row.status = "running" /\ row.answers = <<>> /\ closer[c].text = closer[c].given
  BY DEF Running, Before, Answers, Collected
<1>f6. ~mixed => \A d \in Closers : d # c => closer[d].pc = "idle" 
  BY OneAtATime
<1>f7. version = 1 /\ EndsWith(c) /\ (c = "ingest" => AtEnd)
  BY <1>0 DEF Stages, Idle, EndsWith, Closers, Typed
<1>f8. \A i \in DOMAIN textOut : c \notin textOut[i].waiters
  BY <1>0 DEF Waiters, Typed
<1>t_closer. closer' \in [Closers -> CloserStates]
  BY <1>f1
<1>t_row. row' \in RowStates
  <2>1. PICK a : a = (IF answered THEN Append(row.answers,
               [text |-> closer[c].text, given |-> closer[c].given]) ELSE row.answers)
    OBVIOUS
  <2>2. a \in Seq(AnswerStates)
    BY <2>1, <1>f2, <1>f3 DEF RowStates
  <2>3. row' = [row EXCEPT !.status = "ended", !.answers = a]
    BY <2>1 DEF Close
  <2> QED BY <2>2, <2>3, <1>f2 DEF RowStates
<1>1. EndingTypes'
  BY <1>u, <1>t_closer, <1>t_row DEF EndingTypes
<1>2. Owned' /\ Newest'
  BY <1>u DEF Owned, OwnEntry, Newest, OfKind
<1>3. Places'
  BY <1>u, <1>f1, <1>f4 DEF Closers, Places, OfKind, Texts
<1>4. Stages'
  BY <1>u, <1>f1 DEF Closers, Stages, Idle, AtEnd
<1>5. Waiters'
  <2>1. \A i \in DOMAIN textOut, d \in Closers : d \in textOut[i].waiters => closer'[d] = closer[d]
    BY <1>f1, <1>f8
  <2>2. \A i \in DOMAIN textOut : textOut[i].waiters \subseteq Closers
    BY <1>0 DEF Typed
  <2> QED BY <1>u, <2>1, <2>2 DEF Waiters
<1>6. UsageWaiters'
  BY <1>0, <1>u, <1>f1, <1>f5, SMTT(30) DEF Typed, UsageWaiters
<1>7. TextKept'
  BY <1>u, <1>f4 DEF TextKept, OfKind, Texts
<1>8. Alone'
  BY <1>u, <1>f1 DEF Closers, Alone, Idle
<1>9. Running'
  BY <1>u, <1>f1, <1>f6, <1>f7 DEF Running, Before, EndsWith, AtEnd
<1>10. Collected'
  BY <1>u, <1>f1 DEF Collected, Texts
<1>11. Settled'
  BY <1>u, <1>f7 DEF Settled, PastUsage, EndsWith, AtEnd
<1>12. Quiet'
  <2>1. CASE c = "ingest"
    BY <2>1, <1>f1, <1>f7, <1>u DEF Quiet, AtEnd
  <2>2. CASE c = "fail"
    <3>1. ~mixed => Idle("ingest") /\ intake.pos = intake.queued /\ ~intake.on
      BY <2>2 DEF Alone, Idle
    <3>2. Idle("ingest") => Idle("ingest")'
      BY <2>2, <1>f1 DEF Idle, Closers
    <3> QED BY <3>1, <3>2, <1>u DEF Quiet
  <2> QED BY <2>1, <2>2 DEF Closers
<1>13. Answers'
  BY <1>u, <1>f4, <1>f5 DEF Answers
<1>14. Logged'
  BY <1>u, <1>f1, <1>f7 DEF Logged, EndsWith, AtEnd
<1> QED BY <1>1, <1>2, <1>3, <1>4, <1>5, <1>6, <1>7, <1>8, <1>9, <1>10, <1>11, <1>12, <1>13, <1>14

\* A closer sends its event to the log.
LEMMA AppendEndEnding ==
  ASSUME EndingInv, NEW c \in Closers, AppendEnd(c)
  PROVE  EndingInv'
<1> USE DEF EndingInv
<1>0. Typed
  BY TypedFacts
<1>u. UNCHANGED <<version, feed, intake, batch, usage, row, endFaults, taken, mixed, usageBlurred>>
  BY DEF AppendEnd
<1>f1. /\ closer' \in [Closers -> CloserStates] /\ closer'[c].pc = "appended" /\ closer[c].pc = "append"
       /\ \A d \in Closers \ {c} : closer'[d] = closer[d]
  BY Moves DEF AppendEnd, Pcs
<1>f2. c = "ingest" => feed[intake.pos + 1] \in {"fact", "end"} /\ intake.pos < Len(feed)
  BY <1>0, <1>f1 DEF Stages, Idle, Places, Typed
<1>f3. PICK e \in Entries : /\ e.kind = (IF c = "fail" THEN "end" ELSE feed[intake.pos + 1]) /\ e.waiters = {c}
                         /\ e.seqs = (IF c = "fail" THEN {} ELSE {intake.pos + 1}) /\ textOut' = Append(textOut, e)
  <2>1. [kind |-> IF c = "fail" THEN "end" ELSE feed[intake.pos + 1],
          seqs |-> IF c = "fail" THEN {} ELSE {intake.pos + 1},
         waiters |-> {c}] \in Entries
    BY <1>0, <1>f2 DEF Entries, Typed, Closers
  <2> QED BY <2>1 DEF AppendEnd
<1>f4. /\ Len(textOut') = Len(textOut) + 1 /\ DOMAIN textOut' = 1..(Len(textOut) + 1)
       /\ \A i \in 1..Len(textOut) : textOut'[i] = textOut[i]
       /\ textOut'[Len(textOut) + 1] = e
  BY <1>f3 DEF EndingTypes
<1>f5. PICK n \in Nat : n = Len(textOut) + 1
  BY <1>0 DEF Typed
<1>f6. e.kind # "text" /\ OwnEntry(n, c)'
  <2>1. e.kind # "text"
    BY <1>f2, <1>f3, <1>0 DEF Closers
  <2> QED BY <2>1, <1>f2, <1>f3, <1>f4, <1>f5, <1>0 DEF OwnEntry, AppendEnd, Typed, Closers
<1>f7. Texts' = Texts
  <2>1. \A i \in 1..(Len(textOut) + 1) : i \in Texts' <=> i \in Texts
    BY <1>0, <1>f4, <1>f6 DEF Texts, Typed
  <2>2. Texts \subseteq 1..(Len(textOut) + 1) /\ Texts' \subseteq 1..(Len(textOut) + 1)
    BY <1>0, <1>f4 DEF Texts, Typed
  <2> QED BY <2>1, <2>2
<1>f8. \A i \in Texts : textOut'[i] = textOut[i]
  BY <1>0, <1>f4 DEF Texts, Typed
<1>f9. \A i \in DOMAIN textOut : c \notin textOut[i].waiters
  BY <1>0, <1>f1 DEF Waiters, Typed
<1>t_closer. closer' \in [Closers -> CloserStates]
  BY <1>f1
<1>t_textOut. textOut' \in Seq(Entries)
  BY <1>f3 DEF EndingTypes
<1>1. EndingTypes'
  BY <1>u, <1>t_closer, <1>t_textOut DEF EndingTypes
<1>2. Newest' /\ Answers'
  BY <1>u DEF Newest, OfKind, Answers
<1>3. Places'
  BY <1>u, <1>f1, <1>f7, <1>f8, <1>0 DEF Places, Typed, OfKind, Closers
<1>4. Stages'
  BY <1>u, <1>f1 DEF Closers, Stages, Idle, AtEnd
<1>5. Waiters'
  <2>1. ASSUME NEW i \in DOMAIN textOut', NEW d \in textOut'[i].waiters
         PROVE  closer'[d].pc \in (IF textOut'[i].kind = "text" THEN {"boundary", "fact",
                  "text"} ELSE {"appended"})
    <3>1. CASE i = Len(textOut) + 1
      BY <2>1, <3>1, <1>f1, <1>f3, <1>f4, <1>f6
    <3>2. CASE i \in 1..Len(textOut)
      BY <2>1, <3>2, <1>f1, <1>f4, <1>f9, <1>0 DEF Waiters, Typed
    <3> QED BY <3>1, <3>2, <1>f4, <1>0 DEF Typed
  <2> QED BY <2>1 DEF Waiters
<1>6. Owned'
  <2>1. ASSUME NEW i \in DOMAIN textOut', textOut'[i].kind # "text" PROVE \E d \in Closers : OwnEntry(i, d)'
    <3>1. CASE i = Len(textOut) + 1
      BY <3>1, <1>f5, <1>f6
    <3>2. CASE i \in 1..Len(textOut)
      <4>1. PICK d \in Closers : OwnEntry(i, d)
        BY <2>1, <3>2, <1>f4, <1>0 DEF Owned, Typed
      <4>2. OwnEntry(i, d)'
        BY <4>1, <3>2, <1>f4, <1>u DEF OwnEntry
      <4> QED BY <4>2
    <3> QED BY <3>1, <3>2, <1>f4, <1>0 DEF Typed
  <2>2. ASSUME NEW i \in DOMAIN textOut', NEW j \in DOMAIN textOut', textOut'[i].kind # "text",
                 textOut'[j].kind # "text", i # j
         PROVE  textOut'[i].waiters \cap textOut'[j].waiters = {}
    <3>1. CASE i = Len(textOut) + 1
      BY <2>2, <3>1, <1>f3, <1>f4, <1>f9, <1>0 DEF Typed
    <3>2. CASE j = Len(textOut) + 1
      BY <2>2, <3>2, <1>f3, <1>f4, <1>f9, <1>0 DEF Typed
    <3>3. CASE i \in 1..Len(textOut) /\ j \in 1..Len(textOut)
      BY <2>2, <3>3, <1>f4, <1>0 DEF Owned, Typed
    <3> QED BY <3>1, <3>2, <3>3, <1>f4, <1>0 DEF Typed
  <2> QED BY <2>1, <2>2 DEF Owned
<1>7. UsageWaiters'
  <2>1. ASSUME NEW g \in usage.flights, NEW d \in g.waiters PROVE closer'[d].pc = "usage"
    <3>1. closer[d].pc = "usage" /\ d \in Closers
      BY <2>1, <1>0 DEF UsageWaiters, Typed
    <3> QED BY <3>1, <1>f1
  <2> QED BY <2>1, <1>u DEF UsageWaiters
<1>8. TextKept'
  BY <1>u, <1>f7, <1>f8 DEF TextKept, OfKind
<1>9. Alone'
  BY <1>u, <1>f1 DEF Closers, Alone, Idle
<1>10. Running'
  BY <1>u, <1>f1 DEF Running, Before, EndsWith, AtEnd
<1>11. Collected'
  BY <1>u, <1>f1, <1>f7 DEF Collected, Closers
<1>12. Settled'
  BY <1>u, <1>f1 DEF Settled, PastUsage, EndsWith, AtEnd
<1>13. Quiet'
  BY <1>u, <1>f1 DEF Closers, Quiet, AtEnd, Idle, Contains
<1>14. Logged'
  <2>1. ASSUME row.status = "ended", row.ends < 1, version = 1, NEW i \in DOMAIN textOut, textOut[i].kind = "end"
         PROVE  \E j \in DOMAIN textOut' : textOut'[j].kind = "end"
    BY <2>1, <1>f4, <1>0 DEF Typed
  <2>2. EndsWith(c) => e.kind = "end"
    BY <1>f3 DEF EndsWith, AtEnd
  <2>3. EndsWith(c) => \E j \in DOMAIN textOut' : textOut'[j].kind = "end"
    BY <2>2, <1>f4, <1>0 DEF Typed
  <2>4. \A d \in Closers : EndsWith(d)' <=> EndsWith(d)
    BY <1>u DEF EndsWith, AtEnd
  <2>5. ASSUME NEW d \in Closers, d # c, closer[d].pc = "append", EndsWith(d)
         PROVE  closer'[d].pc = "append" /\ EndsWith(d)'
    BY <2>4, <2>5, <1>f1
  <2>6. ASSUME row.status = "ended", ~(row.ends >= 1)
         PROVE  \/ endFaults > 0
                \/ \E i \in DOMAIN textOut' : textOut'[i].kind = "end"
                \/ \E d \in Closers : closer'[d].pc = "append" /\ EndsWith(d)'
    <3>1. row.ends < 1 /\ version = 1
      BY <2>6, <1>0 DEF Logged, EndingTypes, RowStates
    <3>2. CASE endFaults > 0
      BY <3>2
    <3>3. CASE \E i \in DOMAIN textOut : textOut[i].kind = "end"
      BY <3>3, <3>1, <2>6, <2>1
    <3>4. CASE \E d \in Closers : closer[d].pc = "append" /\ EndsWith(d)
      BY <3>4, <2>3, <2>5
    <3> QED BY <3>2, <3>3, <3>4, <2>6 DEF Logged
  <2>7. row.status = "ended" /\ ~(row.ends >= 1) => version = 1
    BY DEF Logged
  <2> QED BY <2>6, <2>7, <1>u DEF Logged
<1> QED BY <1>1, <1>2, <1>3, <1>4, <1>5, <1>6, <1>7, <1>8, <1>9, <1>10, <1>11, <1>12, <1>13, <1>14

\* An event that was written is done, and the queue goes on.
LEMMA FinishedEnding ==
  ASSUME EndingInv, NEW c \in Closers, Finished(c)
  PROVE  EndingInv'
<1> USE DEF EndingInv
<1>0. Typed
  BY TypedFacts
<1>u. UNCHANGED <<version, feed, batch, textOut, usage, row, endFaults, taken, mixed, usageBlurred>>
  BY DEF Finished
<1>f1. /\ closer' \in [Closers -> CloserStates] /\ closer'[c].pc = "idle" /\ closer[c].pc = "appended"
       /\ \A d \in Closers : d # c => closer'[d] = closer[d]
  BY DEF Finished, AtRest, EndingTypes, CloserStates, Pcs
<1>f2. /\ intake'.on = intake.on /\ intake'.queued = intake.queued
       /\ intake'.pos = IF c = "ingest" THEN intake.pos + 1 ELSE intake.pos
  BY DEF Finished, EndingTypes, IntakeStates
<1>f3. /\ \A i \in DOMAIN textOut : c \notin textOut[i].waiters
       /\ \A f \in usage.flights : c \notin f.waiters
  BY DEF Finished, Waits
<1>f4. c = "ingest"
         => feed[intake.pos + 1] \in {"fact", "end"} /\ intake.pos < intake.queued /\ intake.queued <= Len(feed)
  BY <1>0, <1>f1 DEF Stages, Idle, Places, Typed
<1>f5. ~mixed => \A d \in Closers : d # c => closer[d].pc = "idle" 
  BY <1>f1, OneAtATime
<1>t_closer. closer' \in [Closers -> CloserStates]
  BY <1>f1
<1>t_intake. intake' \in IntakeStates
  BY <1>0 DEF Finished, EndingTypes, IntakeStates, Typed
<1>1. EndingTypes'
  BY <1>u, <1>t_closer, <1>t_intake DEF EndingTypes
<1>2. TextKept' /\ Answers'
  BY <1>u DEF TextKept, OfKind, Texts, Answers
<1>3. Places'
  BY <1>0, <1>u, <1>f1, <1>f2, <1>f4, <1>f5 DEF Typed, Closers, Places, OfKind, Texts
<1>4. Stages'
  BY <1>u, <1>f1, <1>f2 DEF Closers, Stages, Idle, AtEnd
<1>5. Waiters'
  BY <1>0, <1>u, <1>f1, <1>f3 DEF Typed, Waiters
<1>6. Owned'
  <2>1. ASSUME NEW i \in DOMAIN textOut, textOut[i].kind # "text" PROVE \E d \in Closers : OwnEntry(i, d)'
    <3>1. PICK d \in Closers : OwnEntry(i, d)
      BY <2>1 DEF Owned
    <3>2. d # c
      BY <3>1, <1>f3 DEF OwnEntry
    <3>3. d = "ingest" => intake'.pos = intake.pos
      BY <3>2, <1>f2
    <3>4. OwnEntry(i, d)'
      BY <3>1, <3>3, <1>u DEF OwnEntry
    <3> QED BY <3>4
  <2> QED BY <2>1, <1>u DEF Owned
<1>7. UsageWaiters'
  BY <1>0, <1>u, <1>f1, <1>f2 DEF Typed, UsageWaiters
<1>8. Alone'
  BY <1>u, <1>f1 DEF Closers, Alone, Idle
<1>9. Running'
  BY <1>u, <1>f1, <1>f5 DEF Running, Before, EndsWith, AtEnd
<1>10. Collected'
  BY <1>u, <1>f1 DEF Collected, Texts
<1>11. Settled'
  BY <1>u, <1>f1, <1>f5 DEF Settled, PastUsage, EndsWith, AtEnd
<1>12. Newest'
  BY <1>0, <1>u, <1>f2, <1>f4 DEF Typed, Newest, OfKind
<1>13. Quiet'
  <2> SUFFICES ASSUME ~mixed', row'.status = "ended"
                PROVE  \/ closer'["ingest"].pc \in {"append", "appended"} /\ AtEnd'
                       \/ Idle("ingest")' /\ intake'.pos = intake'.queued
                            /\ (~intake'.on \/ (intake'.queued = Len(feed') /\ Contains(feed', "end")))
    BY DEF Quiet
  <2>1. CASE c = "ingest"
    <3>1. AtEnd
      BY <2>1, <1>f1, <1>u DEF Quiet, Idle
    <3>2. intake.pos + 1 \in DOMAIN feed /\ feed[intake.pos + 1] = "end"
      BY <3>1, <1>0 DEF AtEnd, Typed
    <3>3. intake.pos + 1 = Len(feed)
      BY <3>2 DEF Places
    <3>4. Contains(feed, "end")
      BY <3>2 DEF Contains
    <3>5. intake'.pos = intake'.queued /\ intake'.queued = Len(feed')
      BY <3>3, <2>1, <1>f2, <1>f4, <1>u, <1>0 DEF Typed
    <3> QED BY <3>4, <3>5, <2>1, <1>f1, <1>u DEF Idle
  <2>2. CASE c # "ingest"
    <3>1. intake' = intake /\ closer'["ingest"] = closer["ingest"]
      BY <2>2, <1>f1 DEF Finished, Closers
    <3> QED BY <3>1, <1>u DEF Quiet, Idle, AtEnd, Contains
  <2> QED BY <2>1, <2>2
<1>14. Logged'
  BY <1>u, <1>f1, <1>f2 DEF Closers, Logged, EndsWith, AtEnd
<1> QED BY <1>1, <1>2, <1>3, <1>4, <1>5, <1>6, <1>7, <1>8, <1>9, <1>10, <1>11, <1>12, <1>13, <1>14

\* The database takes the head of the queue.
LEMMA WriteEventEnding ==
  ASSUME EndingInv, WriteEvent
  PROVE  EndingInv'
<1> USE DEF EndingInv
<1>0. Typed
  BY TypedFacts
<1>u. UNCHANGED <<version, feed, intake, batch, usage, closer, endFaults, taken, mixed, usageBlurred>>
  BY DEF WriteEvent
<1>f1. /\ Len(textOut) \in Nat \ {0} /\ 1 \in DOMAIN textOut /\ Head(textOut) = textOut[1]
            /\ textOut[1] \in Entries
       /\ Tail(textOut) \in Seq(Entries) /\ DOMAIN Tail(textOut) = 1..(Len(textOut) - 1)
       /\ \A i \in 1..(Len(textOut) - 1) : Tail(textOut)[i] = textOut[i + 1] /\ i + 1 \in DOMAIN textOut
  BY Shifts DEF WriteEvent
<1>f2. PICK w \in Entries : w = textOut[1] /\ w = Head(textOut)
  BY <1>f1
<1>f3. w.seqs \subseteq Nat /\ w.waiters \subseteq Closers /\ w.kind \in {"text", "fact", "end"}
  BY DEF Entries
<1>f4. w.kind # "text" => \E d \in Closers : w.waiters = {d} /\ closer[d].pc = "appended"
         /\ (d = "fail" => w.kind = "end" /\ w.seqs = {})
         /\ (d = "ingest" => w.kind = feed[intake.pos + 1] /\ w.seqs = {intake.pos + 1})
  <2>1. SUFFICES ASSUME w.kind # "text"
                PROVE  \E d \in Closers : w.waiters = {d} /\ closer[d].pc = "appended"
                         /\ (d = "fail" => w.kind = "end" /\ w.seqs = {})
                         /\ (d = "ingest" => w.kind = feed[intake.pos + 1] /\ w.seqs = {intake.pos + 1})
    OBVIOUS
  <2>2. PICK d \in Closers : OwnEntry(1, d)
    BY <2>1, <1>f1, <1>f2 DEF Owned
  <2>3. closer[d].pc = "appended"
    BY <2>1, <2>2, <1>f1, <1>f2 DEF Waiters, OwnEntry
  <2> QED BY <2>2, <2>3, <1>f2 DEF OwnEntry
<1>f5. 1 \in Texts <=> w.kind = "text" 
  BY <1>f1, <1>f2 DEF Texts
<1>f6. w.kind = "text" => w.seqs \subseteq OfKind("text") /\ \A s \in w.seqs : s <= intake.pos
  BY <1>f2, <1>f5 DEF Places
<1>f7. /\ textOut' = Tail(textOut)
       /\ row' = [row EXCEPT !.cursor = Highest({@} \cup w.seqs),
                             !.text = IF w.kind = "text" THEN @ \cup w.seqs ELSE @,
                             !.ends = IF w.kind = "end" THEN @ + 1 ELSE @,
                             !.status = IF w.kind = "end" THEN "ended" ELSE @]
  BY <1>f2 DEF WriteEvent
<1>f8. /\ row'.cursor = Highest({row.cursor} \cup w.seqs)
       /\ row'.text = IF w.kind = "text" THEN row.text \cup w.seqs ELSE row.text
       /\ row'.ends = IF w.kind = "end" THEN row.ends + 1 ELSE row.ends
       /\ row'.status = IF w.kind = "end" THEN "ended" ELSE row.status
       /\ row'.answers = row.answers /\ row.ends \in Nat
  <2>1. row \in RowStates
    BY DEF EndingTypes
  <2> QED BY <2>1, <1>f7 DEF RowStates
<1>f9. row'.cursor \in {row.cursor} \cup w.seqs /\ \A m \in {row.cursor} \cup w.seqs : m <= row'.cursor
  <2>1. {row.cursor} \cup w.seqs \in SUBSET (0..(intake.pos + 1))
    <3>1. row.cursor \in 0..(intake.pos + 1)
      BY <1>0 DEF Places, Typed
    <3>2. CASE w.kind = "text"
      BY <3>1, <3>2, <1>f3, <1>f6, <1>0 DEF Typed
    <3>3. CASE w.kind # "text"
      BY <3>1, <3>3, <1>f4, <1>0 DEF Typed, Closers
    <3> QED BY <3>2, <3>3
  <2>2. intake.pos + 1 \in Nat
    BY <1>0 DEF Typed
  <2>3. {row.cursor} \cup w.seqs # {}
    OBVIOUS
  <2> HIDE DEF EndingInv
  <2>4. Max({row.cursor} \cup w.seqs) \in {row.cursor} \cup w.seqs /\ \A m \in {row.cursor}
          \cup w.seqs : m <= Max({row.cursor} \cup w.seqs)
    BY <2>1, <2>2, <2>3, HighestIs
  <2> QED BY <2>3, <2>4, <1>f8 DEF Highest
<1>f10. \A i \in DOMAIN textOut' : textOut'[i] = textOut[i + 1] /\ i + 1 \in DOMAIN textOut /\ i + 1 # 1
  BY <1>f1, <1>f7
<1>f11. \A i \in DOMAIN textOut : i # 1 => i - 1 \in DOMAIN textOut' /\ textOut'[i - 1] = textOut[i]
  BY <1>f1, <1>f7, <1>0 DEF Typed
<1>f12. \A i \in Texts' : i + 1 \in Texts /\ textOut'[i] = textOut[i + 1] /\ i + 1 # 1
  BY <1>f10 DEF Texts
<1>f13. \A i \in Texts : i # 1 => i - 1 \in Texts' /\ textOut'[i - 1] = textOut[i]
  BY <1>f11 DEF Texts
<1>f14. \A i, j \in DOMAIN textOut' : i # j => i + 1 # j + 1
  BY <1>f1, <1>f7
<1>t_textOut. textOut' \in Seq(Entries)
  BY <1>f1, <1>f7
<1>t_row. row' \in RowStates
  <2>1. row \in RowStates
    BY DEF EndingTypes
  <2>2. Highest({row.cursor} \cup w.seqs) \in Nat
    BY <1>f8, <1>f9, <1>f3, <1>0 DEF Typed
  <2>3. row' = [cursor |-> row'.cursor, text |-> row'.text, status |-> row'.status, answers |-> row'.answers,
          ends |-> row'.ends]
    BY <2>1, <1>f7 DEF RowStates
  <2>4. row'.cursor \in Nat /\ row'.text \in SUBSET Nat /\ row'.status \in {"running", "ended"}
          /\ row'.answers \in Seq(AnswerStates) /\ row'.ends \in Nat
    BY <2>1, <2>2, <1>f8, <1>f3 DEF RowStates
  <2> QED BY <2>3, <2>4 DEF RowStates
<1>1. EndingTypes'
  BY <1>u, <1>t_textOut, <1>t_row DEF EndingTypes
<1>2. Stages' /\ UsageWaiters' /\ Alone' /\ Newest'
  BY <1>u DEF Stages, Idle, AtEnd, UsageWaiters, Alone, Newest, OfKind
<1>3. Places'
  <2>1. row'.cursor <= intake.pos \/ (row'.cursor = intake.pos + 1 /\ closer["ingest"].pc = "appended")
    <3>1. row.cursor <= intake.pos \/ (row.cursor = intake.pos + 1 /\ closer["ingest"].pc = "appended")
      BY DEF Places
    <3>2. CASE row'.cursor = row.cursor
      BY <3>1, <3>2
    <3>3. CASE row'.cursor \in w.seqs /\ w.kind = "text"
      BY <3>3, <1>f6
    <3>4. CASE row'.cursor \in w.seqs /\ w.kind # "text"
      BY <3>4, <1>f4 DEF Closers
    <3> QED BY <3>2, <3>3, <3>4, <1>f9
  <2>2. \A s \in row'.text : s <= row'.cursor
    <3>1. row.cursor \in Nat /\ row'.cursor \in Nat /\ row.cursor <= row'.cursor
      BY <1>f9, <1>f3, <1>0 DEF Typed
    <3>2. \A s \in row.text : s \in Nat /\ s <= row.cursor
      BY <1>0 DEF Places, Typed
    <3>3. \A s \in row.text : s <= row'.cursor
      BY <3>1, <3>2
    <3>4. \A s \in row'.text : s \in row.text \/ s \in w.seqs
      BY <1>f8
    <3> QED BY <3>3, <3>4, <1>f9
  <2>3. \A i \in Texts' : textOut'[i].seqs \subseteq OfKind("text")'
          /\ \A s \in textOut'[i].seqs : s <= intake'.pos
    BY <1>f12, <1>u DEF Places, OfKind
  <2> QED BY <2>1, <2>2, <2>3, <1>u DEF Places, OfKind
<1>4. Waiters'
  BY <1>f10, <1>u DEF Waiters
<1>5. Owned'
  <2>1. ASSUME NEW i \in DOMAIN textOut', textOut'[i].kind # "text" PROVE \E d \in Closers : OwnEntry(i, d)'
    <3>1. PICK d \in Closers : OwnEntry(i + 1, d)
      BY <2>1, <1>f10 DEF Owned
    <3>2. OwnEntry(i, d)'
      BY <3>1, <1>f10, <1>u DEF OwnEntry
    <3> QED BY <3>2
  <2>2. \A i, j \in DOMAIN textOut' : textOut'[i].kind # "text" /\ textOut'[j].kind # "text" /\ i # j =>
          textOut'[i].waiters \cap textOut'[j].waiters = {}
    BY <1>f10, <1>f14 DEF Owned
  <2> QED BY <2>1, <2>2 DEF Owned
<1>6. TextKept'
  <2>1. \A s \in taken \cap OfKind("text") :
          s \in row'.text \/ s \in batch.seqs \/ \E i \in Texts' : s \in textOut'[i].seqs
    <3>1. SUFFICES ASSUME NEW s \in taken \cap OfKind("text"), NEW i \in Texts, s \in textOut[i].seqs
                  PROVE  s \in row'.text \/ \E j \in Texts' : s \in textOut'[j].seqs
      BY <1>f8 DEF TextKept
    <3>2. CASE i = 1
      BY <3>1, <3>2, <1>f2, <1>f5, <1>f8
    <3>3. CASE i # 1
      BY <3>1, <3>3, <1>f13
    <3> QED BY <3>2, <3>3
  <2>2. row'.text \subseteq taken \cap OfKind("text") /\ batch.seqs \subseteq taken \cap OfKind("text")
    BY <1>f2, <1>f5, <1>f8 DEF TextKept
  <2>3. \A i \in Texts' : textOut'[i].seqs \subseteq taken \cap OfKind("text")
    BY <1>f12 DEF TextKept
  <2>4. row'.text \cap batch.seqs = {}
    BY <1>f2, <1>f5, <1>f8 DEF TextKept
  <2>5. \A i \in Texts' : textOut'[i].seqs \cap (row'.text \cup batch.seqs) = {}
    <3>1. ASSUME NEW i \in Texts' PROVE textOut[i + 1].seqs \cap (row.text \cup batch.seqs) = {}
      BY <3>1, <1>f12 DEF TextKept
    <3>2. ASSUME NEW i \in Texts', w.kind = "text" PROVE textOut[i + 1].seqs \cap w.seqs = {}
      BY <3>2, <1>f2, <1>f5, <1>f12 DEF TextKept
    <3> QED BY <3>1, <3>2, <1>f8, <1>f12
  <2>6. \A i, j \in Texts' : i # j => textOut'[i].seqs \cap textOut'[j].seqs = {}
    BY <1>f12, <1>f14 DEF TextKept, Texts
  <2>7. (taken \cap OfKind("text"))' = taken \cap OfKind("text") /\ batch' = batch
    BY <1>u DEF OfKind
  <2> QED BY <2>1, <2>2, <2>3, <2>4, <2>5, <2>6, <2>7 DEF TextKept, OfKind
<1>7. Running'
  <2>1. ASSUME ~mixed, NEW c \in Closers, Before(c) PROVE w.kind # "end"
    <3>1. ASSUME w.kind = "end" PROVE FALSE
      <4>1. PICK d \in Closers : closer[d].pc = "appended"
        BY <3>1, <1>f4
      <4>2. closer[c].pc # "idle" /\ closer[c].pc # "appended"
        BY <2>1 DEF Before
      <4> QED BY <4>1, <4>2, <2>1, OneAtATime
    <3> QED BY <3>1
  <2>2. \A c \in Closers : Before(c)' => Before(c)
    BY <1>u DEF Before, EndsWith, AtEnd
  <2> QED BY <2>1, <2>2, <1>u, <1>f8 DEF Running
<1>8. Collected'
  <2>1. Texts = {} => Texts' = {}
    BY <1>f12
  <2> QED BY <2>1, <1>u DEF Collected
<1>9. Settled'
  <2>1. ASSUME w.kind = "end" PROVE \E d \in Closers : PastUsage(d)
    <3>1. PICK d \in Closers : closer[d].pc = "appended" /\ (d = "ingest" => feed[intake.pos + 1] = "end")
      BY <2>1, <1>f4
    <3>2. EndsWith(d)
      BY <3>1, <1>0 DEF EndsWith, AtEnd, Stages, Places, Idle, Closers, Typed
    <3> QED BY <3>1, <3>2 DEF PastUsage
  <2>2. \A c \in Closers : PastUsage(c)' => PastUsage(c)
    BY <1>u DEF PastUsage, EndsWith, AtEnd
  <2> QED BY <2>1, <2>2, <1>u, <1>f8 DEF Settled
<1>10. Quiet'
  <2>1. ASSUME w.kind = "end", ~mixed
         PROVE  \/ closer["ingest"].pc \in {"append", "appended"} /\ AtEnd
                \/ Idle("ingest") /\ intake.pos = intake.queued /\ ~intake.on
    <3>1. PICK d \in Closers : closer[d].pc = "appended" /\ (d = "ingest" => feed[intake.pos + 1] = "end")
      BY <2>1, <1>f4
    <3>2. CASE d = "ingest"
      BY <3>1, <3>2, <1>0 DEF AtEnd, Stages, Places, Idle, Typed
    <3>3. CASE d = "fail"
      BY <3>1, <3>3, <2>1 DEF Alone, Idle
    <3> QED BY <3>2, <3>3 DEF Closers
  <2> QED BY <2>1, <1>u, <1>f8 DEF Quiet, AtEnd, Idle, Contains
<1>11. Answers'
  BY <1>f8, <1>u DEF Answers
<1>12. Logged'
  <2>1. ASSUME NEW i \in DOMAIN textOut, textOut[i].kind = "end", w.kind # "end"
         PROVE  \E j \in DOMAIN textOut' : textOut'[j].kind = "end"
    BY <2>1, <1>f2, <1>f11
  <2> QED BY <2>1, <1>u, <1>f8 DEF Logged, EndsWith, AtEnd
<1> QED BY <1>1, <1>2, <1>3, <1>4, <1>5, <1>6, <1>7, <1>8, <1>9, <1>10, <1>11, <1>12

\* The database refuses it, and those who wait for it give up.
LEMMA WriteEventFailsEnding ==
  ASSUME EndingInv, WriteEventFails
  PROVE  EndingInv'
<1> USE DEF EndingInv
<1>0. Typed
  BY TypedFacts
<1>u. UNCHANGED <<version, feed, usage, row, mixed, usageBlurred>>
  BY DEF WriteEventFails
<1>f1. /\ Len(textOut) \in Nat \ {0} /\ 1 \in DOMAIN textOut /\ Head(textOut) = textOut[1]
            /\ textOut[1] \in Entries
       /\ Tail(textOut) \in Seq(Entries) /\ DOMAIN Tail(textOut) = 1..(Len(textOut) - 1)
       /\ \A i \in 1..(Len(textOut) - 1) : Tail(textOut)[i] = textOut[i + 1] /\ i + 1 \in DOMAIN textOut
  BY Shifts DEF WriteEventFails
<1>f2. PICK w \in Entries : w = textOut[1] /\ w = Head(textOut)
  BY <1>f1
<1>f3. w.seqs \subseteq Nat /\ w.waiters \subseteq Closers /\ w.kind \in {"text", "fact", "end"}
  BY DEF Entries
<1>f4. w.kind # "text" => \E d \in Closers : w.waiters = {d} /\ closer[d].pc = "appended"
         /\ (d = "fail" => w.kind = "end" /\ w.seqs = {})
         /\ (d = "ingest" => w.kind = feed[intake.pos + 1] /\ w.seqs = {intake.pos + 1})
  <2>1. SUFFICES ASSUME w.kind # "text"
                PROVE  \E d \in Closers : w.waiters = {d} /\ closer[d].pc = "appended"
                         /\ (d = "fail" => w.kind = "end" /\ w.seqs = {})
                         /\ (d = "ingest" => w.kind = feed[intake.pos + 1] /\ w.seqs = {intake.pos + 1})
    OBVIOUS
  <2>2. PICK d \in Closers : OwnEntry(1, d)
    BY <2>1, <1>f1, <1>f2 DEF Owned
  <2>3. closer[d].pc = "appended"
    BY <2>1, <2>2, <1>f1, <1>f2 DEF Waiters, OwnEntry
  <2> QED BY <2>2, <2>3, <1>f2 DEF OwnEntry
<1>f5. 1 \in Texts <=> w.kind = "text" 
  BY <1>f1, <1>f2 DEF Texts
<1>f6. w.kind = "text" => w.seqs \subseteq OfKind("text") /\ \A s \in w.seqs : s <= intake.pos
  BY <1>f2, <1>f5 DEF Places
<1>f7. /\ textOut' = [i \in DOMAIN Tail(textOut) |-> [Tail(textOut)[i] EXCEPT !.waiters = @ \ w.waiters]]
       /\ batch' = (IF w.kind = "text" /\ batch.seqs = {} THEN [seqs |-> w.seqs, armed |-> FALSE] ELSE batch)
       /\ taken' = (IF w.kind = "text" /\ batch.seqs # {} THEN taken \ w.seqs ELSE taken)
       /\ GivesUp(w.waiters) /\ endFaults < MaxEndFaults /\ endFaults' = endFaults + 1
  BY <1>f2 DEF WriteEventFails, EndFault
<1>f8. /\ textOut' \in Seq(Entries) /\ DOMAIN textOut' = 1..(Len(textOut) - 1)
       /\ \A i \in DOMAIN textOut' : /\ i + 1 \in DOMAIN textOut /\ i + 1 # 1
                                     /\ textOut'[i].kind = textOut[i + 1].kind
                                          /\ textOut'[i].seqs = textOut[i + 1].seqs
                                     /\ textOut'[i].waiters = textOut[i + 1].waiters \ w.waiters
  <2>1. Len(textOut) - 1 \in Nat /\ DOMAIN textOut' = 1..(Len(textOut) - 1)
    BY <1>f1, <1>f7
  <2>2. ASSUME NEW i \in 1..(Len(textOut) - 1)
         PROVE  /\ textOut'[i] = [textOut[i + 1] EXCEPT !.waiters = @ \ w.waiters] /\ textOut[i + 1] \in Entries
                /\ i + 1 \in DOMAIN textOut /\ i + 1 # 1
    BY <2>2, <1>f1, <1>f7 DEF EndingTypes
  <2>3. ASSUME NEW i \in 1..(Len(textOut) - 1)
         PROVE  /\ textOut'[i] \in Entries /\ textOut'[i].kind = textOut[i + 1].kind
                     /\ textOut'[i].seqs = textOut[i + 1].seqs
                /\ textOut'[i].waiters = textOut[i + 1].waiters \ w.waiters
    <3>1. PICK x \in Entries, v \in SUBSET Closers : x = textOut[i + 1] /\ v = w.waiters
      BY <2>2, <1>f3
    <3>2. textOut'[i] = [x EXCEPT !.waiters = x.waiters \ v]
      BY <2>2, <3>1
    <3>3. textOut'[i] = [kind |-> x.kind, seqs |-> x.seqs, waiters |-> x.waiters \ v]
      BY <3>2 DEF Entries
    <3>4. x.kind \in {"text", "fact", "end"} /\ x.seqs \in SUBSET Nat /\ x.waiters \ v \in SUBSET Closers
      BY DEF Entries
    <3>5. [kind |-> x.kind, seqs |-> x.seqs, waiters |-> x.waiters \ v] \in Entries
      BY <3>4 DEF Entries
    <3> QED BY <3>1, <3>3, <3>5
  <2>4. textOut' \in [1..(Len(textOut) - 1) -> Entries]
    BY <1>f1, <1>f7, <2>1, <2>3
  <2>5. textOut' \in Seq(Entries)
    BY <2>1, <2>4, SeqDef
  <2> QED BY <2>1, <2>2, <2>3, <2>5
<1>f9. \A i \in DOMAIN textOut : i # 1
         => i - 1 \in DOMAIN textOut' /\ textOut'[i - 1].kind = textOut[i].kind
           /\ textOut'[i - 1].seqs = textOut[i].seqs
  BY <1>f1, <1>f8, <1>0 DEF Typed
<1>f10. \A i \in Texts' : i + 1 \in Texts /\ textOut'[i].seqs = textOut[i + 1].seqs /\ i + 1 # 1
  BY <1>f8 DEF Texts
<1>f11. \A i \in Texts : i # 1 => i - 1 \in Texts' /\ textOut'[i - 1].seqs = textOut[i].seqs
  BY <1>f9 DEF Texts
<1>f12. \A i, j \in DOMAIN textOut' : i # j => i + 1 # j + 1
  BY <1>f8, <1>f1
<1>f13. /\ \A c \in w.waiters : closer'[c].pc = "idle"
        /\ \A c \in Closers : c \notin w.waiters => closer'[c] = closer[c]
        /\ intake'.queued = intake.queued
        /\ "ingest" \notin w.waiters => intake' = intake
        /\ "ingest" \in w.waiters => ~intake'.on /\ intake'.pos = intake.pos + 1
  BY <1>f3, <1>f7, Yields
<1>f14. \A c \in w.waiters : closer[c].pc # "idle" 
  BY <1>f1, <1>f2 DEF Waiters
<1>f15. "ingest" \in w.waiters => intake.pos < intake.queued /\ feed[intake.pos + 1] \in {"fact", "end"}
  BY <1>f14 DEF Stages, Idle
<1>f16. \A c \in Closers : closer'[c].pc = "idle" \/ (closer'[c] = closer[c] /\ c \notin w.waiters)
  BY <1>f13
<1>f17. closer'["ingest"].pc # "idle" => intake' = intake /\ closer'["ingest"] = closer["ingest"]
  BY <1>f13 DEF Closers
<1>f18. \A c \in Closers : (Before(c)' => Before(c)) /\ (PastUsage(c)' => PastUsage(c))
          /\ (closer'[c].pc = "append" /\ EndsWith(c)' => closer[c].pc = "append" /\ EndsWith(c))
  <2>1. ASSUME NEW c \in Closers, closer'[c].pc # "idle"
        PROVE  closer'[c] = closer[c] /\ (EndsWith(c)' <=> EndsWith(c))
    BY <2>1, <1>f16, <1>f17, <1>u DEF EndsWith, AtEnd, Closers
  <2>2. ASSUME NEW c \in Closers PROVE Before(c)' => Before(c)
    BY <2>1, <2>2, <1>u DEF Before
  <2>3. ASSUME NEW c \in Closers PROVE PastUsage(c)' => PastUsage(c)
    BY <2>1, <2>3, <1>u DEF PastUsage
  <2> QED BY <2>1, <2>2, <2>3
<1>t_intake. intake' \in IntakeStates
  BY <1>f3, <1>f7, Yields
<1>t_batch. batch' \in BatchStates
  <2>1. CASE w.kind = "text" /\ batch.seqs = {}
    BY <2>1, <1>f3, <1>f7 DEF BatchStates
  <2>2. CASE ~(w.kind = "text" /\ batch.seqs = {})
    BY <2>2, <1>f7 DEF EndingTypes
  <2> QED BY <2>1, <2>2
<1>t_textOut. textOut' \in Seq(Entries)
  BY <1>f8
<1>t_closer. closer' \in [Closers -> CloserStates]
  BY <1>f3, <1>f7, Yields
<1>t_endFaults. endFaults' \in 0..MaxEndFaults
  BY <1>f7, EndingAssumption DEF EndingTypes
<1>t_taken. taken' \subseteq DOMAIN feed'
  BY <1>f7, <1>u DEF EndingTypes
<1>1. EndingTypes'
  BY <1>u, <1>t_intake, <1>t_batch, <1>t_textOut, <1>t_closer, <1>t_endFaults, <1>t_taken DEF EndingTypes
<1>2. Answers'
  BY <1>u DEF Answers
<1>3. Places'
  <2>1. row.cursor <= intake'.pos \/ (row.cursor = intake'.pos + 1 /\ closer'["ingest"].pc = "appended")
    <3>1. row.cursor <= intake.pos \/ (row.cursor = intake.pos + 1 /\ closer["ingest"].pc = "appended")
      BY DEF Places
    <3>2. CASE "ingest" \in w.waiters
      BY <3>1, <3>2, <1>f13, <1>0 DEF Typed
    <3>3. CASE "ingest" \notin w.waiters
      BY <3>1, <3>3, <1>f13, <1>0 DEF Typed, Closers
    <3> QED BY <3>2, <3>3
  <2>2. intake'.pos >= intake.pos /\ intake'.pos <= intake'.queued /\ intake'.queued <= Len(feed)
          /\ intake'.pos \in Nat
    BY <1>f13, <1>f15, <1>0 DEF Places, Typed
  <2>3. \A i \in Texts' : textOut'[i].seqs \subseteq OfKind("text")'
          /\ \A s \in textOut'[i].seqs : s <= intake.pos /\ s \in Nat
    BY <1>f10, <1>u, <1>0 DEF Places, OfKind, Typed
  <2>4. batch'.seqs \subseteq OfKind("text")' /\ (\A s \in batch'.seqs : s <= intake.pos /\ s \in Nat)
          /\ (batch'.armed => batch'.seqs # {})
    <3>1. CASE w.kind = "text" /\ batch.seqs = {}
      BY <3>1, <1>f3, <1>f6, <1>f7, <1>u DEF OfKind
    <3>2. CASE ~(w.kind = "text" /\ batch.seqs = {})
      BY <3>2, <1>f7, <1>u, <1>0 DEF Places, OfKind, Typed
    <3> QED BY <3>1, <3>2
  <2>5. \A s \in Nat : s <= intake.pos => s <= intake'.pos
    BY <2>2, <1>0 DEF Typed
  <2> QED BY <2>1, <2>2, <2>3, <2>4, <2>5, <1>u DEF Places
<1>4. Stages'
  <2>1. \A c \in Closers : closer'[c].pc = "idle" \/ closer'[c] = closer[c]
    BY <1>f16
  <2>2. closer'["ingest"].pc # "idle" => intake' = intake /\ closer'["ingest"] = closer["ingest"]
    BY <1>f17
  <2> QED BY <2>1, <2>2, <1>u DEF Stages, Idle, AtEnd, Closers
<1>5. Waiters'
  <2>1. ASSUME NEW i \in DOMAIN textOut', NEW c \in textOut'[i].waiters
         PROVE  closer'[c].pc \in (IF textOut'[i].kind = "text" THEN {"boundary", "fact",
                  "text"} ELSE {"appended"})
    <3>1. i + 1 \in DOMAIN textOut /\ c \in textOut[i + 1].waiters /\ c \notin w.waiters
            /\ textOut'[i].kind = textOut[i + 1].kind
      BY <2>1, <1>f8
    <3>2. closer'[c] = closer[c]
      BY <3>1, <1>f13, <1>0 DEF Typed
    <3> QED BY <3>1, <3>2 DEF Waiters
  <2> QED BY <2>1 DEF Waiters
<1>6. Owned'
  <2>1. ASSUME NEW i \in DOMAIN textOut', textOut'[i].kind # "text" PROVE \E d \in Closers : OwnEntry(i, d)'
    <3>0. i + 1 \in DOMAIN textOut /\ textOut[i + 1].kind # "text" /\ i + 1 # 1
      BY <2>1, <1>f8
    <3>1. PICK d \in Closers : OwnEntry(i + 1, d)
      BY <3>0 DEF Owned
    <3>2. d \notin w.waiters
      <4>1. CASE w.kind = "text"
        BY <4>1, <3>0, <3>1, <1>f1, <1>f2 DEF Waiters, OwnEntry
      <4>2. CASE w.kind # "text"
        BY <4>2, <3>0, <3>1, <1>f1, <1>f2 DEF Owned, OwnEntry
      <4> QED BY <4>1, <4>2
    <3>3. textOut'[i].waiters = {d}
      BY <3>1, <3>2, <1>f8 DEF OwnEntry
    <3>4. d = "ingest" => intake' = intake
      BY <3>2, <1>f13
    <3>5. OwnEntry(i, d)'
      BY <3>1, <3>3, <3>4, <1>f8, <1>u DEF OwnEntry
    <3> QED BY <3>5
  <2>2. \A i, j \in DOMAIN textOut' : textOut'[i].kind # "text" /\ textOut'[j].kind # "text" /\ i # j =>
          textOut'[i].waiters \cap textOut'[j].waiters = {}
    <3>1. ASSUME NEW i \in DOMAIN textOut', NEW j \in DOMAIN textOut', textOut'[i].kind # "text",
                   textOut'[j].kind # "text", i # j
           PROVE  textOut'[i].waiters \cap textOut'[j].waiters = {}
      <4>1. textOut[i + 1].waiters \cap textOut[j + 1].waiters = {}
        BY <3>1, <1>f8, <1>f12 DEF Owned
      <4> QED BY <4>1, <1>f8
    <3> QED BY <3>1
  <2> QED BY <2>1, <2>2 DEF Owned
<1>7. UsageWaiters'
  <2>1. ASSUME NEW f \in usage.flights, NEW c \in f.waiters PROVE closer'[c].pc = "usage"
    <3>1. closer[c].pc = "usage" /\ c \in Closers
      BY <2>1, <1>0 DEF UsageWaiters, Typed
    <3>2. c \notin w.waiters
      BY <3>1, <1>f1, <1>f2 DEF Waiters
    <3> QED BY <3>1, <3>2, <1>f13
  <2> QED BY <2>1, <1>u DEF UsageWaiters
<1>8. TextKept'
  <2>0. OfKind("text")' = OfKind("text") /\ row' = row
    BY <1>u DEF OfKind
  <2>1. CASE w.kind # "text"
    <3>1. taken' = taken /\ batch' = batch /\ 1 \notin Texts
      BY <2>1, <1>f5, <1>f7
    <3>2. \A i, j \in Texts' : i # j => i + 1 # j + 1
      BY <1>f12 DEF Texts
    <3> QED BY <3>1, <3>2, <2>0, <1>f10, <1>f11 DEF TextKept
  <2>2. CASE w.kind = "text" /\ batch.seqs = {}
    <3>1. taken' = taken /\ batch'.seqs = w.seqs /\ 1 \in Texts /\ w.seqs = textOut[1].seqs
      BY <2>2, <1>f2, <1>f5, <1>f7
    <3>2. \A i, j \in Texts' : i # j => i + 1 # j + 1
      BY <1>f12 DEF Texts
    <3>3. \A s \in taken \cap OfKind("text") :
            s \in row.text \/ s \in batch'.seqs \/ \E i \in Texts' : s \in textOut'[i].seqs
      <4>1. SUFFICES ASSUME NEW s \in taken \cap OfKind("text"), NEW i \in Texts, s \in textOut[i].seqs
                    PROVE  s \in batch'.seqs \/ \E j \in Texts' : s \in textOut'[j].seqs
        BY <2>2 DEF TextKept
      <4> QED BY <4>1, <3>1, <1>f11
    <3>4. row.text \cap batch'.seqs = {} /\ batch'.seqs \subseteq taken \cap OfKind("text")
      BY <3>1 DEF TextKept
    <3>5. \A i \in Texts' : textOut'[i].seqs \cap (row.text \cup batch'.seqs) = {}
      <4>1. ASSUME NEW i \in Texts'
            PROVE  textOut[i + 1].seqs \cap row.text = {} /\ textOut[i + 1].seqs \cap textOut[1].seqs = {}
        BY <4>1, <3>1, <1>f10 DEF TextKept
      <4> QED BY <4>1, <3>1, <1>f10
    <3> QED BY <3>1, <3>2, <3>3, <3>4, <3>5, <2>0, <1>f10 DEF TextKept
  <2>3. CASE w.kind = "text" /\ batch.seqs # {}
    <3>1. taken' = taken \ w.seqs /\ batch' = batch /\ 1 \in Texts /\ w.seqs = textOut[1].seqs
      BY <2>3, <1>f2, <1>f5, <1>f7
    <3>2. \A i, j \in Texts' : i # j => i + 1 # j + 1
      BY <1>f12 DEF Texts
    <3>3. \A s \in taken' \cap OfKind("text") :
            s \in row.text \/ s \in batch.seqs \/ \E i \in Texts' : s \in textOut'[i].seqs
      <4>1. SUFFICES ASSUME NEW s \in taken \cap OfKind("text"), s \notin w.seqs, NEW i \in Texts,
                              s \in textOut[i].seqs
                    PROVE  \E j \in Texts' : s \in textOut'[j].seqs
        BY <3>1 DEF TextKept
      <4> QED BY <4>1, <3>1, <1>f11
    <3>4. row.text \subseteq taken' /\ batch.seqs \subseteq taken' /\ w.seqs \cap (row.text \cup batch.seqs) = {}
      BY <3>1 DEF TextKept
    <3>5. \A i \in Texts' : textOut'[i].seqs \subseteq taken'
      <4>1. ASSUME NEW i \in Texts'
            PROVE  textOut[i + 1].seqs \subseteq taken /\ textOut[i + 1].seqs \cap textOut[1].seqs = {}
        BY <4>1, <3>1, <1>f10 DEF TextKept
      <4> QED BY <4>1, <3>1, <1>f10
    <3> QED BY <3>1, <3>2, <3>3, <3>4, <3>5, <2>0, <1>f10 DEF TextKept
  <2> QED BY <2>1, <2>2, <2>3
<1>9. Alone'
  <2>1. ~mixed /\ closer["fail"].pc # "idle" => "ingest" \notin w.waiters
    BY <1>f14 DEF Alone, Idle, Closers
  <2> QED BY <2>1, <1>f13, <1>f16, <1>f17, <1>u DEF Alone, Idle, Closers
<1>10. Running'
  BY <1>f18, <1>u DEF Running
<1>11. Collected'
  <2>1. ASSUME NEW c \in Closers, ~mixed, closer'[c].pc = "collect" PROVE batch'.seqs = {} /\ Texts' = {}
    <3>1. closer[c].pc = "collect"
      BY <2>1, <1>f16
    <3>2. batch.seqs = {} /\ Texts = {}
      BY <3>1, <2>1 DEF Collected
    <3> QED BY <3>2, <1>f5, <1>f7, <1>f10
  <2>2. ASSUME NEW c \in Closers, ~mixed, closer'[c].pc = "commit" PROVE closer'[c].text = closer'[c].given
    BY <2>2, <1>f16 DEF Collected
  <2> QED BY <2>1, <2>2, <1>u DEF Collected
<1>12. Settled'
  BY <1>f18, <1>u DEF Settled
<1>13. Newest'
  <2>1. taken' \cap OfKind("usage") \subseteq taken \cap OfKind("usage")
    BY <1>f7
  <2>2. \A u \in OfKind("usage") : u \in Nat /\ (u <= intake'.pos => u <= intake.pos)
    <3>1. CASE "ingest" \in w.waiters
      BY <3>1, <1>f13, <1>f15, <1>0 DEF OfKind, Typed
    <3>2. CASE "ingest" \notin w.waiters
      BY <3>2, <1>f13, <1>0 DEF OfKind, Typed
    <3> QED BY <3>1, <3>2
  <2>3. OfKind("usage")' = OfKind("usage")
    BY <1>u DEF OfKind
  <2> QED BY <2>1, <2>2, <2>3, <1>u DEF Newest
<1>14. Quiet'
  <2> SUFFICES ASSUME ~mixed, row.status = "ended"
                PROVE  \/ closer'["ingest"].pc \in {"append", "appended"} /\ AtEnd'
                       \/ Idle("ingest")' /\ intake'.pos = intake'.queued
                            /\ (~intake'.on \/ (intake'.queued = Len(feed') /\ Contains(feed', "end")))
    BY <1>u DEF Quiet
  <2>1. CASE "ingest" \in w.waiters
    <3>1. AtEnd /\ intake.pos < intake.queued
      BY <2>1, <1>f14, <1>f15 DEF Quiet, Idle
    <3>2. intake.pos + 1 \in DOMAIN feed /\ feed[intake.pos + 1] = "end"
      BY <3>1, <1>0 DEF AtEnd, Typed
    <3>3. intake.pos + 1 = Len(feed)
      BY <3>2 DEF Places
    <3>4. intake'.pos = intake'.queued
      BY <3>1, <3>3, <2>1, <1>f13, <1>0 DEF Places, Typed
    <3> QED BY <3>4, <2>1, <1>f13 DEF Idle
  <2>2. CASE "ingest" \notin w.waiters
    <3>1. intake' = intake /\ closer'["ingest"] = closer["ingest"]
      BY <2>2, <1>f13 DEF Closers
    <3> QED BY <3>1, <1>u DEF Quiet, Idle, AtEnd, Contains
  <2> QED BY <2>1, <2>2
<1>15. Logged'
  <2>1. endFaults' > 0
    BY <1>f7, <1>0 DEF EndingTypes
  <2> QED BY <2>1, <1>u DEF Logged
<1> QED BY <1>1, <1>2, <1>3, <1>4, <1>5, <1>6, <1>7, <1>8, <1>9, <1>10, <1>11, <1>12, <1>13, <1>14, <1>15

\* The database takes a write of usage.
LEMMA WriteUsageEnding ==
  ASSUME EndingInv, NEW f \in usage.flights, usage' = [usage EXCEPT !.flights = @ \ {f}, !.stored = f.seq],
         UNCHANGED <<version, feed, intake, batch, textOut, closer, row, endFaults, taken, mixed, usageBlurred>>
  PROVE  EndingInv'
<1> USE DEF EndingInv
<1>0. Typed
  BY TypedFacts
<1>u. UNCHANGED <<version, feed, intake, batch, textOut, closer, row, endFaults, taken, mixed, usageBlurred>>
  OBVIOUS
<1>f1. f \in Flights /\ usage \in UsageStates
  BY DEF EndingTypes, UsageStates
<1>f2. f.seq \in 1..MaxFeed
  BY <1>f1 DEF Flights
<1>f3. usage'.flights = usage.flights \ {f} /\ usage'.stored = f.seq /\ usage'.pending = usage.pending
  BY <1>f1 DEF UsageStates
<1>t_usage. usage' \in UsageStates
  <2>1. usage' = [pending |-> usage.pending, flights |-> usage.flights \ {f}, stored |-> f.seq]
    BY <1>f1 DEF UsageStates
  <2>2. usage.flights \ {f} \in SUBSET Flights /\ f.seq \in 0..MaxFeed /\ usage.pending \in 0..MaxFeed
    BY <1>f1, <1>f2, EndingAssumption DEF UsageStates
  <2> QED BY <2>1, <2>2 DEF UsageStates
<1>1. EndingTypes'
  BY <1>u, <1>t_usage DEF EndingTypes
<1>2. Places' /\ Stages' /\ Waiters' /\ Owned' /\ TextKept' /\ Alone' /\ Running' /\ Collected' /\ Quiet'
        /\ Answers' /\ Logged'
  BY <1>u DEF Places, OfKind, Texts, Stages, Idle, AtEnd, Waiters, Owned, OwnEntry, TextKept, Alone, Running,
     Before, EndsWith, Collected, Quiet, Contains, Answers, Logged
<1>3. UsageWaiters'
  <2>1. \A g \in usage'.flights : g \in usage.flights
    BY <1>f3
  <2> QED BY <2>1, <1>u DEF UsageWaiters
<1>4. Settled'
  <2>1. \A c \in Closers : PastUsage(c)' => PastUsage(c)
    BY <1>u DEF PastUsage, EndsWith, AtEnd
  <2> QED BY <2>1, <1>u, <1>f3 DEF Settled
<1>5. Newest'
  <2> SUFFICES ASSUME ~mixed, ~usageBlurred
               PROVE  /\ \A g, h \in usage'.flights : g = h
                      /\ \A u \in (taken \cap OfKind("usage"))' : u <= intake'.pos =>
                           IF usage'.pending # 0 THEN u <= usage'.pending
                           ELSE IF usage'.flights # {} THEN \A g \in usage'.flights : u <= g.seq
                           ELSE u <= usage'.stored
    BY <1>u DEF Newest
  <2>1. usage'.flights = {}
    BY <1>f3 DEF Newest
  <2>2. \A u \in taken \cap OfKind("usage") : u <= intake.pos
          => IF usage.pending # 0 THEN u <= usage.pending ELSE u <= f.seq
    BY DEF Newest
  <2>3. (taken \cap OfKind("usage"))' = taken \cap OfKind("usage")
    BY <1>u DEF OfKind
  <2> QED BY <2>1, <2>2, <2>3, <1>f3, <1>u
<1> QED BY <1>1, <1>2, <1>3, <1>4, <1>5

\* The database refuses it.
LEMMA WriteUsageFailsEnding ==
  ASSUME EndingInv, NEW f \in usage.flights, EndFault, usageBlurred' = TRUE, GivesUp(f.waiters),
         usage' = [usage EXCEPT !.flights = {[g EXCEPT !.waiters = @ \ f.waiters] : g \in usage.flights \ {f}}],
         UNCHANGED <<version, feed, batch, textOut, row, taken, mixed>>
  PROVE  EndingInv'
<1> USE DEF EndingInv
<1>0. Typed
  BY TypedFacts
<1>u. UNCHANGED <<version, feed, batch, textOut, row, taken, mixed>>
  OBVIOUS
<1>f1. f \in Flights /\ usage \in UsageStates /\ usage.flights \subseteq Flights
  BY DEF EndingTypes, UsageStates
<1>f2. f.waiters \in SUBSET Closers
  BY <1>f1 DEF Flights
<1>f3. /\ endFaults < MaxEndFaults /\ endFaults' = endFaults + 1 /\ usageBlurred' = TRUE
  BY DEF EndFault
<1>f4. /\ usage'.pending = usage.pending /\ usage'.stored = usage.stored
       /\ usage'.flights = {[g EXCEPT !.waiters = @ \ f.waiters] : g \in usage.flights \ {f}}
  BY <1>f1 DEF UsageStates
<1>f5. \A h \in usage'.flights : \E g \in usage.flights \ {f} : h \in Flights /\ h.seq = g.seq
         /\ h.tracked = g.tracked
       /\ h.waiters = g.waiters \ f.waiters
  <2>1. ASSUME NEW h \in usage'.flights
         PROVE  \E g \in usage.flights \ {f} : h \in Flights /\ h.seq = g.seq /\ h.tracked = g.tracked
                  /\ h.waiters = g.waiters \ f.waiters
    <3>1. PICK g \in usage.flights \ {f} : h = [g EXCEPT !.waiters = @ \ f.waiters]
      BY <1>f4
    <3>2. g \in Flights
      BY <1>f1
    <3>3. h = [seq |-> g.seq, waiters |-> g.waiters \ f.waiters, tracked |-> g.tracked]
      BY <3>1, <3>2 DEF Flights
    <3>4. h \in Flights
      BY <3>2, <3>3 DEF Flights
    <3> QED BY <3>3, <3>4
  <2> QED BY <2>1
<1>f6. ~mixed => ~(row.status = "ended" \/ \E c \in Closers : PastUsage(c))
  BY DEF Settled
<1>f7. /\ \A c \in f.waiters : closer'[c].pc = "idle"
       /\ \A c \in Closers : c \notin f.waiters => closer'[c] = closer[c]
       /\ intake'.queued = intake.queued
       /\ "ingest" \notin f.waiters => intake' = intake
       /\ "ingest" \in f.waiters => ~intake'.on /\ intake'.pos = intake.pos + 1
  BY <1>f2, Yields
<1>f8. \A c \in f.waiters : closer[c].pc # "idle" 
  BY DEF UsageWaiters
<1>f9. "ingest" \in f.waiters => intake.pos < intake.queued /\ feed[intake.pos + 1] \in {"fact", "end"}
  BY <1>f8 DEF Stages, Idle
<1>f10. \A c \in Closers : closer'[c].pc = "idle" \/ (closer'[c] = closer[c] /\ c \notin f.waiters)
  BY <1>f7
<1>f11. closer'["ingest"].pc # "idle" => intake' = intake /\ closer'["ingest"] = closer["ingest"]
  BY <1>f7 DEF Closers
<1>f12. \A c \in Closers : (Before(c)' => Before(c)) /\ (PastUsage(c)' => PastUsage(c))
          /\ (closer'[c].pc = "append" /\ EndsWith(c)' => closer[c].pc = "append" /\ EndsWith(c))
  <2>1. ASSUME NEW c \in Closers, closer'[c].pc # "idle"
        PROVE  closer'[c] = closer[c] /\ (EndsWith(c)' <=> EndsWith(c))
    BY <2>1, <1>f10, <1>f11, <1>u DEF EndsWith, AtEnd, Closers
  <2>2. ASSUME NEW c \in Closers PROVE Before(c)' => Before(c)
    BY <2>1, <2>2, <1>u DEF Before
  <2>3. ASSUME NEW c \in Closers PROVE PastUsage(c)' => PastUsage(c)
    BY <2>1, <2>3, <1>u DEF PastUsage
  <2> QED BY <2>1, <2>2, <2>3
<1>t_intake. intake' \in IntakeStates
  BY <1>f2, Yields
<1>t_usage. usage' \in UsageStates
  <2>1. usage'.flights \in SUBSET Flights
    BY <1>f5
  <2> QED BY <2>1, <1>f1, <1>f4 DEF UsageStates
<1>t_closer. closer' \in [Closers -> CloserStates]
  BY <1>f2, Yields
<1>t_endFaults. endFaults' \in 0..MaxEndFaults
  BY <1>f3, EndingAssumption DEF EndingTypes
<1>t_usageBlurred. usageBlurred' \in BOOLEAN
  BY <1>f3
<1>1. EndingTypes'
  BY <1>u, <1>t_intake, <1>t_usage, <1>t_closer, <1>t_endFaults, <1>t_usageBlurred DEF EndingTypes
<1>2. Answers'
  BY <1>u DEF Answers
<1>3. Places'
  <2>1. row.cursor <= intake'.pos \/ (row.cursor = intake'.pos + 1 /\ closer'["ingest"].pc = "appended")
    <3>1. row.cursor <= intake.pos \/ (row.cursor = intake.pos + 1 /\ closer["ingest"].pc = "appended")
      BY DEF Places
    <3>2. CASE "ingest" \in f.waiters
      BY <3>1, <3>2, <1>f7, <1>0 DEF Typed
    <3>3. CASE "ingest" \notin f.waiters
      BY <3>1, <3>3, <1>f7, <1>0 DEF Typed, Closers
    <3> QED BY <3>2, <3>3
  <2>2. intake'.pos >= intake.pos /\ intake'.pos <= intake'.queued /\ intake'.queued <= Len(feed)
          /\ intake'.pos \in Nat
    BY <1>f7, <1>f9, <1>0 DEF Places, Typed
  <2>3. \A i \in Texts : textOut[i].seqs \subseteq OfKind("text") /\ \A s \in textOut[i].seqs : s <= intake.pos
          /\ s \in Nat
    BY <1>0 DEF Places, Texts, Typed
  <2>4. \A s \in batch.seqs : s <= intake.pos /\ s \in Nat
    BY <1>0 DEF Places, Typed
  <2>5. \A s \in Nat : s <= intake.pos => s <= intake'.pos
    BY <2>2, <1>0 DEF Typed
  <2>6. Texts' = Texts /\ OfKind("text")' = OfKind("text")
    BY <1>u DEF Texts, OfKind
  <2> QED BY <2>1, <2>2, <2>3, <2>4, <2>5, <2>6, <1>u DEF Places
<1>4. Stages'
  <2>1. \A c \in Closers : closer'[c].pc = "idle" \/ closer'[c] = closer[c]
    BY <1>f10
  <2>2. closer'["ingest"].pc # "idle" => intake' = intake /\ closer'["ingest"] = closer["ingest"]
    BY <1>f11
  <2> QED BY <2>1, <2>2, <1>u DEF Stages, Idle, AtEnd, Closers
<1>5. Waiters'
  <2>1. ASSUME NEW i \in DOMAIN textOut, NEW c \in textOut[i].waiters
         PROVE  closer'[c].pc \in (IF textOut[i].kind = "text" THEN {"boundary", "fact", "text"} ELSE {"appended"})
    <3>1. c \in Closers /\ closer[c].pc # "usage"
      BY <2>1, <1>0 DEF Waiters, Typed
    <3>2. c \notin f.waiters
      BY <3>1 DEF UsageWaiters
    <3>3. closer'[c] = closer[c]
      BY <3>1, <3>2, <1>f7
    <3> QED BY <3>3 DEF Waiters
  <2> QED BY <2>1, <1>u DEF Waiters
<1>6. Owned'
  <2>1. ASSUME NEW i \in DOMAIN textOut, textOut[i].kind # "text" PROVE \E d \in Closers : OwnEntry(i, d)'
    <3>1. PICK d \in Closers : OwnEntry(i, d)
      BY <2>1 DEF Owned
    <3>2. closer[d].pc = "appended"
      BY <2>1, <3>1 DEF Waiters, OwnEntry
    <3>3. d \notin f.waiters
      BY <3>2 DEF UsageWaiters
    <3>4. d = "ingest" => intake' = intake
      BY <3>3, <1>f7
    <3>5. OwnEntry(i, d)'
      BY <3>1, <3>4, <1>u DEF OwnEntry
    <3> QED BY <3>5
  <2> QED BY <2>1, <1>u DEF Owned
<1>7. UsageWaiters'
  <2>1. ASSUME NEW h \in usage'.flights, NEW c \in h.waiters PROVE closer'[c].pc = "usage"
    <3>1. PICK g \in usage.flights : c \in g.waiters /\ c \notin f.waiters
      BY <2>1, <1>f5
    <3>2. closer[c].pc = "usage" /\ c \in Closers
      BY <3>1, <1>0 DEF UsageWaiters, Typed
    <3> QED BY <3>1, <3>2, <1>f7
  <2>2. ASSUME NEW h \in usage'.flights, ~h.tracked
         PROVE  \E c \in Closers : h.waiters = {c} /\ \A k \in usage'.flights : c \in k.waiters => k = h
    <3>1. PICK g \in usage.flights \ {f} : h = [g EXCEPT !.waiters = @ \ f.waiters]
      BY <1>f4
    <3>2. g \in Flights
      BY <1>f1
    <3>3. h.tracked = g.tracked /\ h.waiters = g.waiters \ f.waiters /\ h.seq = g.seq
      BY <3>1, <3>2 DEF Flights
    <3>4. PICK c \in Closers : g.waiters = {c} /\ \A k \in usage.flights : c \in k.waiters => k = g
      BY <3>3, <2>2 DEF UsageWaiters
    <3>5. c \notin f.waiters
      BY <3>4
    <3>6. ASSUME NEW k \in usage'.flights, c \in k.waiters PROVE k = h
      <4>1. PICK m \in usage.flights \ {f} : k = [m EXCEPT !.waiters = @ \ f.waiters]
        BY <1>f4
      <4>2. m \in Flights
        BY <1>f1
      <4>3. k.waiters = m.waiters \ f.waiters
        BY <4>1, <4>2 DEF Flights
      <4>4. m = g
        BY <4>3, <3>4, <3>6
      <4> QED BY <4>4, <4>1, <3>1
    <3> QED BY <3>3, <3>4, <3>5, <3>6
  <2> QED BY <2>1, <2>2 DEF UsageWaiters
<1>8. TextKept'
  BY <1>u DEF TextKept, Texts, OfKind
<1>9. Alone'
  <2>1. ~mixed /\ closer["fail"].pc # "idle" => "ingest" \notin f.waiters
    BY <1>f8 DEF Alone, Idle, Closers
  <2> QED BY <2>1, <1>f7, <1>f10, <1>f11, <1>u DEF Alone, Idle, Closers
<1>10. Running'
  BY <1>f12, <1>u DEF Running
<1>11. Collected'
  <2>1. Texts' = Texts
    BY <1>u DEF Texts
  <2> QED BY <2>1, <1>f10, <1>u DEF Collected
<1>12. Settled'
  BY <1>f6, <1>f12, <1>u DEF Settled
<1>13. Newest'
  BY <1>f3 DEF Newest
<1>14. Quiet'
  BY <1>f6, <1>u DEF Quiet
<1>15. Logged'
  <2>1. endFaults' > 0
    BY <1>f3, <1>0 DEF EndingTypes
  <2> QED BY <2>1, <1>u DEF Logged
<1> QED BY <1>1, <1>2, <1>3, <1>4, <1>5, <1>6, <1>7, <1>8, <1>9, <1>10, <1>11, <1>12, <1>13, <1>14, <1>15

\* The invariant holds of a new turn.
LEMMA EndingStarts == ASSUME EndingInit PROVE EndingInv
<1> USE DEF EndingInit
<1>1. version \in {1, 2} /\ feed = <<>> /\ Len(feed) = 0 /\ DOMAIN feed = {} /\ textOut = <<>>
        /\ DOMAIN textOut = {}
  OBVIOUS
<1>2. /\ intake.on /\ intake.queued = 0 /\ intake.pos = 0 /\ batch.seqs = {} /\ batch.armed = FALSE
      /\ usage.pending = 0 /\ usage.flights = {} /\ usage.stored = 0
      /\ row.cursor = 0 /\ row.text = {} /\ row.status = "running" /\ row.answers = <<>> /\ row.ends = 0
      /\ \A c \in Closers : closer[c].pc = "idle"
  BY DEF NoBatch, AtRest
<1>3. EndingTypes
  <2>1. feed \in Seq(EventKinds) /\ textOut \in Seq(Entries) /\ Len(feed) <= MaxFeed
    BY EndingAssumption
  <2>2. intake \in IntakeStates /\ batch \in BatchStates
    BY DEF IntakeStates, BatchStates, NoBatch
  <2>3. usage \in UsageStates
    BY EndingAssumption DEF UsageStates
  <2>4. closer \in [Closers -> CloserStates]
    BY DEF AtRest, CloserStates, Pcs
  <2>5. row \in RowStates
    BY DEF RowStates
  <2>6. endFaults \in 0..MaxEndFaults /\ taken \subseteq DOMAIN feed
    BY EndingAssumption
  <2>7. mixed \in BOOLEAN /\ usageBlurred \in BOOLEAN
    OBVIOUS
  <2> QED BY <1>1, <2>1, <2>2, <2>3, <2>4, <2>5, <2>6, <2>7 DEF EndingTypes
<1>4. Places
  BY <1>1, <1>2 DEF Places, Texts, OfKind
<1>5. Stages
  BY <1>2 DEF Stages, Idle, Closers
<1>6. Waiters /\ Owned
  BY <1>1 DEF Waiters, Owned
<1>7. UsageWaiters
  BY <1>2 DEF UsageWaiters
<1>8. TextKept
  BY <1>1, <1>2 DEF TextKept, Texts, OfKind
<1>9. Alone /\ Running /\ Collected
  BY <1>2 DEF Alone, Running, Collected, Idle, Closers, Before
<1>10. Settled /\ Newest
  BY <1>2 DEF Settled, Newest
<1>11. Quiet /\ Answers /\ Logged
  BY <1>2 DEF Quiet, Answers, Logged
<1> QED BY <1>3, <1>4, <1>5, <1>6, <1>7, <1>8, <1>9, <1>10, <1>11 DEF EndingInv

\* The handler of an event, whichever its kind.
LEMMA HandleEnding ==
  ASSUME EndingInv, NEW seq \in Nat, seq = intake.pos + 1, intake.pos < intake.queued,
           row.status = "running" \/ mixed',
         mixed' \in BOOLEAN, mixed \/ closer["fail"].pc # "idle"
           => mixed', closer["ingest"].pc \in {"idle", "boundary"},
         \A i \in DOMAIN textOut : "ingest" \notin textOut[i].waiters,
         closer["ingest"].pc = "boundary" => feed[seq] \in {"fact", "end"},
         Handle(seq), UNCHANGED <<version, feed, textOut, row, endFaults, usageBlurred>>
  PROVE  EndingInv'
<1>1. taken' = taken \cup {seq}
  BY DEF Handle
<1>2. CASE feed[seq] = "text" /\ HandleText(seq)
  BY <1>1, <1>2, HandleTextEnding
<1>3. CASE feed[seq] = "usage" /\ HandleUsage(seq)
  BY <1>1, <1>3, HandleUsageEnding
<1>4. CASE feed[seq] = "fact" /\ HandleFact
  BY <1>1, <1>4, HandleFactEnding
<1>5. CASE feed[seq] = "end" /\ HandleEnd
  BY <1>1, <1>5, HandleEndEnding
<1> QED BY <1>2, <1>3, <1>4, <1>5 DEF Handle

\* The queue takes its next event.
LEMMA TakeEventEnding == ASSUME EndingInv, TakeEvent PROVE EndingInv'
<1>0. Typed
  BY TypedFacts DEF EndingInv
<1>1. PICK seq \in Nat : seq = intake.pos + 1
  BY <1>0 DEF Typed
<1>2. closer["ingest"].pc = "idle" /\ intake.pos < intake.queued /\ mixed' = (mixed \/ ~Idle("fail"))
  BY DEF TakeEvent, Idle
<1>3. mixed' \in BOOLEAN /\ (mixed \/ closer["fail"].pc # "idle" => mixed')
  BY <1>0, <1>2 DEF Idle, Typed
<1>4. UNCHANGED <<version, feed, textOut, row, endFaults, usageBlurred>>
  BY DEF TakeEvent
<1>5. \A i \in DOMAIN textOut : "ingest" \notin textOut[i].waiters
  BY <1>0, <1>2 DEF EndingInv, Waiters, Typed
<1>6. Highest({row.cursor} \cup batch.seqs) <= intake.pos /\ Highest({row.cursor} \cup batch.seqs) \in Nat
  <2>1. {row.cursor} \cup batch.seqs \in SUBSET (0..intake.pos)
    BY <1>0, <1>2 DEF EndingInv, Places, Typed
  <2>2. {row.cursor} \cup batch.seqs # {}
    OBVIOUS
  <2>3. intake.pos \in Nat
    BY <1>0 DEF Typed
  <2>4. Max({row.cursor} \cup batch.seqs) \in {row.cursor} \cup batch.seqs
    BY <2>1, <2>2, <2>3, HighestIs
  <2> QED BY <2>1, <2>2, <2>4 DEF Highest
<1>7. CASE row.status = "ended" \/ seq <= Highest({row.cursor} \cup batch.seqs)
  <2>1. row.status = "ended"
    BY <1>7, <1>6, <1>1, <1>0 DEF Typed
  <2>2. mixed
    BY <2>1, <1>2, <1>0 DEF EndingInv, Quiet, Typed
  <2>3. intake' = [intake EXCEPT !.pos = intake.pos + 1] /\ UNCHANGED <<batch, usage, closer, taken>>
    BY <1>7, <1>1 DEF TakeEvent
  <2>4. mixed' = TRUE
    BY <2>2, <1>3
  <2> QED BY <2>3, <2>4, <1>2, <1>4, DroppedEnding
<1>8. CASE ~(row.status = "ended" \/ seq <= Highest({row.cursor} \cup batch.seqs))
  <2>1. row.status = "running"
    BY <1>8, <1>0 DEF Typed
  <2>2. CASE feed[seq] \in {"fact", "end"} /\ batch.seqs # {}
    <3>1. To("ingest", "boundary") /\ UNCHANGED <<intake, batch, usage, taken>>
      BY <2>2, <1>8, <1>1 DEF TakeEvent
    <3>2. feed[intake.pos + 1] \in {"fact", "end"}
      BY <2>2, <1>1
    <3> QED BY <3>1, <3>2, <2>1, <1>2, <1>3, <1>4, BoundaryEnding
  <2>3. CASE ~(feed[seq] \in {"fact", "end"} /\ batch.seqs # {})
    <3>1. Handle(seq)
      BY <2>3, <1>8, <1>1 DEF TakeEvent
    <3> QED BY <3>1, <2>1, <1>1, <1>2, <1>3, <1>4, <1>5, HandleEnding
  <2> QED BY <2>2, <2>3
<1> QED BY <1>7, <1>8

\* A closer flushes the text.
LEMMA FlushTextEnding == ASSUME EndingInv, NEW c \in Closers, FlushText(c) PROVE EndingInv'
<1>1. closer[c].pc \in {"boundary", "fact", "text"} /\ \A i \in DOMAIN textOut : c \notin textOut[i].waiters
  BY DEF FlushText, Waits
<1>2. UNCHANGED <<version, feed, intake, usage, closer, row, endFaults, taken, mixed, usageBlurred>>
  BY DEF FlushText
<1>3. CASE batch.seqs # {} /\ SendText({c})
  <2>1. {c} \in SUBSET Closers /\ \A d \in {c} : closer[d].pc \in {"boundary", "fact", "text"}
    BY <1>1
  <2> QED BY <2>1, <1>2, <1>3, SendTextEnding
<1>4. CASE ~(batch.seqs # {} /\ SendText({c}))
  <2>1. /\ batch' = batch
        /\ textOut' = [i \in DOMAIN textOut |-> IF textOut[i].kind = "text"
                         THEN [textOut[i] EXCEPT !.waiters = @ \cup {c}] ELSE textOut[i]]
    BY <1>4 DEF FlushText
  <2> QED BY <2>1, <1>1, <1>2, JoinTextEnding
<1> QED BY <1>3, <1>4

\* The text is flushed, and its closer goes on.
LEMMA TextFlushedEnding == ASSUME EndingInv, NEW c \in Closers, TextFlushed(c) PROVE EndingInv'
<1>0. Typed
  BY TypedFacts DEF EndingInv
<1>1. /\ closer[c].pc \in {"boundary", "fact", "text"} /\ \A i \in DOMAIN textOut : c \notin textOut[i].waiters
      /\ batch.seqs = {} /\ Texts = {}
  BY DEF TextFlushed, Waits, TextOnItsWay, Texts
<1>2. UNCHANGED <<version, feed, textOut, row, endFaults, mixed, usageBlurred>>
  BY DEF TextFlushed
<1>3. CASE closer[c].pc = "boundary"
  <2>1. c = "ingest"
    BY <1>3 DEF EndingInv, Stages, Closers
  <2>2. PICK seq \in Nat : seq = intake.pos + 1
    BY <1>0 DEF Typed
  <2>3. Handle(seq)
    BY <1>3, <2>2 DEF TextFlushed
  <2>4. intake.pos < intake.queued /\ feed[seq] \in {"fact", "end"}
    BY <1>3, <2>1, <2>2 DEF EndingInv, Stages, Idle
  <2>5. row.status = "running" \/ mixed
    BY <1>3, <1>0 DEF EndingInv, Running, Before, Typed
  <2>6. closer["fail"].pc # "idle" => mixed
    BY <1>3, <2>1 DEF EndingInv, Alone, Idle
  <2>7. mixed' \in BOOLEAN /\ (mixed \/ closer["fail"].pc # "idle" => mixed') /\ (row.status = "running" \/ mixed')
    BY <2>5, <2>6, <1>2, <1>0 DEF Typed
  <2>8. closer["ingest"].pc = "boundary" /\ \A i \in DOMAIN textOut : "ingest" \notin textOut[i].waiters
    BY <1>1, <1>3, <2>1
  <2> QED BY <2>2, <2>3, <2>4, <2>7, <2>8, <1>2, HandleEnding
<1>4. CASE closer[c].pc # "boundary"
  <2>1. /\ To(c, IF closer[c].pc = "fact" THEN "append"
                 ELSE IF c = "ingest" /\ version = 2 THEN "usage"
                 ELSE IF version = 2 THEN "append" ELSE "collect")
        /\ UNCHANGED <<intake, batch, usage, taken>>
    BY <1>4 DEF TextFlushed
  <2> QED BY <2>1, <1>1, <1>2, <1>4, MoveOnEnding
<1> QED BY <1>3, <1>4

\* A closer flushes the usage.
LEMMA FlushUsageEnding == ASSUME EndingInv, NEW c \in Closers, FlushUsage(c) PROVE EndingInv'
<1>1. closer[c].pc = "usage" /\ \A f \in usage.flights : c \notin f.waiters
  BY DEF FlushUsage, Waits
<1>2. UNCHANGED <<version, feed, intake, batch, textOut, closer, row, endFaults, taken, mixed>>
  BY DEF FlushUsage
<1>3. CASE usage.pending # 0 /\ SendUsage({c})
  <2>1. {c} \in SUBSET Closers /\ usageBlurred \in BOOLEAN
    BY DEF EndingInv, EndingTypes
  <2> QED BY <2>1, <1>1, <1>2, <1>3, SendUsageEnding
<1>4. CASE ~(usage.pending # 0 /\ SendUsage({c}))
  <2>1. /\ usageBlurred' = usageBlurred
        /\ usage' = [usage EXCEPT !.flights = {IF f \in Tracked THEN [f EXCEPT !.waiters = @ \cup {c}] ELSE f :
                                               f \in usage.flights}]
    BY <1>4 DEF FlushUsage
  <2> QED BY <2>1, <1>1, <1>2, JoinUsageEnding
<1> QED BY <1>3, <1>4

\* Every step keeps the invariant.
LEMMA EndingSteps == ASSUME EndingInv, EndingNext PROVE EndingInv'
<1>1. ASSUME NEW k \in {"text", "usage", "fact", "end"}, EmitEvent(k) PROVE EndingInv'
  BY <1>1, EmitEventEnding DEF EventKinds
<1>2. CASE Enqueue
  BY <1>2, EnqueueEnding
<1>3. CASE FlushBeforeRetry
  <2>1. SendText({}) /\ batch.seqs # {} /\ {} \in SUBSET Closers
    BY <1>3 DEF FlushBeforeRetry
  <2>2. UNCHANGED <<version, feed, intake, usage, closer, row, endFaults, taken, mixed, usageBlurred>>
    BY <1>3 DEF FlushBeforeRetry
  <2> QED BY <2>1, <2>2, SendTextEnding
<1>4. CASE ConsumeAgain
  BY <1>4, ConsumeAgainEnding
<1>5. CASE FailTurnBegins
  BY <1>5, FailTurnBeginsEnding
<1>6. CASE StreamBreaks
  BY <1>6, StreamBreaksEnding
<1>7. CASE TakeEvent
  BY <1>7, TakeEventEnding
<1>8. ASSUME NEW c \in Closers,
             FlushText(c) \/ TextFlushed(c) \/ FlushUsage(c) \/ UsageFlushed(c)
             \/ Collect(c) \/ AppendEnd(c) \/ Finished(c)
      PROVE  EndingInv'
  BY <1>8, FlushTextEnding, TextFlushedEnding, FlushUsageEnding, UsageFlushedEnding, CollectEnding,
     AppendEndEnding, FinishedEnding
<1>9. CASE CommitCompleted \/ CommitCancelled \/ CommitFailed
  <2>1. \E c \in Closers, answered \in BOOLEAN : closer[c].pc = "commit" /\ Close(c, answered)
    BY <1>9 DEF CommitCompleted, CommitCancelled, CommitFailed, Closers
  <2> QED BY <2>1, CloseEnding
<1>10. CASE TextTimer
  <2>1. SendText({}) /\ batch.armed /\ {} \in SUBSET Closers
    BY <1>10 DEF TextTimer
  <2>2. batch.seqs # {}
    BY <2>1 DEF EndingInv, Places
  <2>3. UNCHANGED <<version, feed, intake, usage, closer, row, endFaults, taken, mixed, usageBlurred>>
    BY <1>10 DEF TextTimer
  <2> QED BY <2>1, <2>2, <2>3, SendTextEnding
<1>11. CASE UsageTimer
  <2>1. SendUsage({}) /\ usage.pending # 0 /\ {} \in SUBSET Closers /\ usageBlurred \in BOOLEAN
    BY <1>11 DEF UsageTimer, EndingInv, EndingTypes
  <2>2. UNCHANGED <<version, feed, intake, batch, textOut, closer, row, endFaults, taken, mixed>>
    BY <1>11 DEF UsageTimer
  <2> QED BY <2>1, <2>2, SendUsageEnding
<1>12. CASE WriteEvent
  BY <1>12, WriteEventEnding
<1>13. CASE WriteEventFails
  BY <1>13, WriteEventFailsEnding
<1>14. CASE WriteUsage
  BY <1>14, WriteUsageEnding DEF WriteUsage
<1>15. CASE WriteUsageFails
  BY <1>15, WriteUsageFailsEnding DEF WriteUsageFails
<1> QED BY <1>1, <1>2, <1>3, <1>4, <1>5, <1>6, <1>7, <1>8, <1>9, <1>10, <1>11, <1>12, <1>13, <1>14, <1>15
        DEF EndingNext

\* So does a step that changes nothing.
LEMMA EndingStutters == ASSUME EndingInv, UNCHANGED endingVars PROVE EndingInv'
<1> USE DEF EndingInv
<1>1. UNCHANGED <<version, feed, intake, batch, textOut, usage, closer, row, endFaults, taken, mixed,
        usageBlurred>>
  BY DEF endingVars
<1>2. EndingTypes' /\ Waiters' /\ UsageWaiters' /\ Answers'
  BY <1>1 DEF EndingTypes, Waiters, UsageWaiters, Answers
<1>3. Places' /\ Stages' /\ Owned' /\ TextKept'
  BY <1>1 DEF Places, Stages, Owned, OwnEntry, TextKept, Texts, OfKind, Idle, AtEnd
<1>4. Alone' /\ Running' /\ Collected' /\ Settled'
  BY <1>1 DEF Alone, Running, Collected, Settled, Idle, Before, PastUsage, EndsWith, AtEnd, Texts
<1>5. Newest' /\ Quiet' /\ Logged'
  BY <1>1 DEF Newest, Quiet, Logged, OfKind, Idle, EndsWith, AtEnd
<1> QED BY <1>2, <1>3, <1>4, <1>5

-----------------------------------------------------------------------------

\* Every conjunct of the invariant holds in every reachable state.
THEOREM EndingInvariant == EndingSpec => []EndingInv
<1>1. EndingInit => EndingInv
  BY EndingStarts
<1>2. EndingInv /\ [EndingNext]_endingVars => EndingInv'
  BY EndingSteps, EndingStutters
<1> QED BY <1>1, <1>2, PTL DEF EndingSpec

\* Type correctness: the invariant's types are those of the module.
THEOREM EndingTyped == EndingSpec => []EndingTypeOK
<1>1. EndingInv => EndingTypeOK
  <2> SUFFICES ASSUME EndingInv PROVE EndingTypeOK
    OBVIOUS
  <2> USE DEF EndingInv
  <2>0. Typed
    BY TypedFacts
  <2>1. /\ version \in {1, 2} /\ feed \in Seq({"text", "usage", "fact", "end"}) /\ Len(feed) <= MaxFeed
        /\ taken \subseteq DOMAIN feed /\ endFaults \in 0..MaxEndFaults
    BY DEF EndingTypes, EventKinds
  <2>2. intake \in [on : BOOLEAN, queued : 0..MaxFeed, pos : 0..MaxFeed]
    <3>1. intake.pos \in 0..MaxFeed /\ intake.queued \in 0..MaxFeed
      BY <2>0, <2>1, EndingAssumption DEF Places, Typed
    <3> QED BY <3>1 DEF EndingTypes, IntakeStates
  <2>3. batch.seqs \subseteq DOMAIN feed
    BY DEF Places, OfKind
  <2>4. \A i \in DOMAIN textOut : textOut[i].seqs \subseteq DOMAIN feed /\ textOut[i].waiters \subseteq Closers
    <3>1. ASSUME NEW i \in DOMAIN textOut PROVE textOut[i].seqs \subseteq DOMAIN feed
      <4>1. CASE textOut[i].kind = "text"
        BY <4>1 DEF Places, Texts, OfKind
      <4>2. CASE textOut[i].kind # "text"
        <5>1. PICK c \in Closers : OwnEntry(i, c)
          BY <4>2 DEF Owned
        <5>2. closer[c].pc = "appended"
          BY <4>2, <5>1 DEF Waiters, OwnEntry
        <5>3. c = "ingest" => intake.pos + 1 \in DOMAIN feed
          BY <5>2, <2>0 DEF Stages, Places, Idle, Typed
        <5> QED BY <5>1, <5>3 DEF OwnEntry, Closers
      <4> QED BY <4>1, <4>2
    <3> QED BY <3>1, <2>0 DEF Typed
  <2>5. /\ usage.pending \in 0..MaxFeed /\ usage.stored \in 0..MaxFeed
        /\ \A f \in usage.flights : f.seq \in 1..MaxFeed /\ f.waiters \subseteq Closers
    BY DEF EndingTypes, UsageStates, Flights
  <2>6. \A c \in Closers : closer[c].pc \in Pcs
    BY <2>0 DEF Typed
  <2>7. row.cursor \in 0..MaxFeed /\ row.status \in {"running", "ended"}
    BY <2>0, <2>1, EndingAssumption DEF Places, Stages, Idle, Typed
  <2> QED BY <2>1, <2>2, <2>3, <2>4, <2>5, <2>6, <2>7 DEF EndingTypeOK, Pcs
<1> QED BY <1>1, EndingInvariant, PTL

\* A turn has one answer with all the text that was handled, no usage of it is left to be written,
\* and the end is in the log.
THEOREM EndingIsSafe == EndingSpec => []EndingSafe
<1>1. EndingInv => EndingSafe
  <2> SUFFICES ASSUME EndingInv PROVE EndingSafe
    OBVIOUS
  <2> USE DEF EndingInv
  <2>0. Typed
    BY TypedFacts
  <2>1. AnswerComplete
    BY DEF Answers, AnswerComplete
  <2>2. UsageSettled
    BY <2>0 DEF Settled, Newest, UsageSettled, Typed
  <2>3. EndIsLogged
    <3>1. ASSUME NEW i \in DOMAIN textOut, textOut[i].kind = "end" PROVE \E c \in Closers : ~Idle(c)
      BY <3>1 DEF Owned, OwnEntry, Waiters, Idle
    <3> QED BY <3>1, <2>0 DEF Logged, EndIsLogged, Idle, Typed
  <2> QED BY <2>1, <2>2, <2>3 DEF EndingSafe
<1> QED BY <1>1, EndingInvariant, PTL

=============================================================================
