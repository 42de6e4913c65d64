----------------------- MODULE TurnLifecycle_proofs -----------------------
(***************************************************************************)
(* The life of turns (TurnLifecycle), for any number of turns, faults and  *)
(* cancellations, and the safety of the sessions they belong to            *)
(* (ProjectSessions: SessionsSafe), for any number of sessions, threads    *)
(* and requests.                                                           *)
(***************************************************************************)
EXTENDS TurnLifecycle, ProjectSessions, SequenceTheorems, WellFoundedInduction, TLAPS

Statuses == {"none", "queued", "running"} \cup Terminal
Items == [seq : Nat, live : BOOLEAN]

-----------------------------------------------------------------------------
(* Type correctness.  It needs that a busy handler has an event to handle. *)

Working == \A t \in Turns : pc[t] # "idle" => queue[t] # <<>>
TypeInv == TypeOK /\ Working

\* What the runner emits are events, and their listener queues items.
LEMMA EmitOK ==
  ASSUME TypeOK, NEW S, NEW e \in EventTypes, Emit(S, e)
  PROVE  stream' \in [Turns -> Seq(EventTypes)] /\ queue' \in [Turns -> Seq(Items)]
<1>1. \A u \in Turns : stream[u] \in Seq(EventTypes) /\ queue[u] \in Seq(Items)
  BY DEF TypeOK, Items
<1>2. \A u \in Turns : Append(stream[u], e) \in Seq(EventTypes)
  BY <1>1
<1>3. \A u \in Turns : Append(queue[u], [seq |-> Len(stream[u]) + 1, live |-> TRUE]) \in Seq(Items)
  BY <1>1 DEF Items
<1> QED BY <1>1, <1>2, <1>3 DEF Emit

\* So does a turn that is finalized.
LEMMA FinalizeOK ==
  ASSUME TypeOK, NEW S, NEW e \in Terminal, Finalize(S, e)
  PROVE  /\ registered' \subseteq Turns
         /\ stream' \in [Turns -> Seq(EventTypes)] /\ queue' \in [Turns -> Seq(Items)]
<1>1. e \in EventTypes
  BY DEF EventTypes
<1> QED BY <1>1, EmitOK DEF Finalize, TypeOK

\* Dropping the head of a queue leaves a queue.
LEMMA TailOK ==
  ASSUME TypeOK, NEW t \in Turns, queue[t] # <<>>
  PROVE  /\ Item(t) \in Items /\ Tail(queue[t]) \in Seq(Items)
         /\ [queue EXCEPT ![t] = Tail(@)] \in [Turns -> Seq(Items)]
<1>1. queue \in [Turns -> Seq(Items)]
  BY DEF TypeOK, Items
<1>2. Head(queue[t]) \in Items /\ Tail(queue[t]) \in Seq(Items)
  BY <1>1, HeadTailProperties
<1> QED BY <1>1, <1>2 DEF Item

\* The handler's last step keeps the types of what it touches.
LEMMA HandledOK ==
  ASSUME TypeOK, NEW t \in Turns, queue[t] # <<>>, Handled(t)
  PROVE  /\ pc' \in [Turns -> {"idle", "mark", "append"}] /\ seen' \in [Turns -> Statuses]
         /\ queue' \in [Turns -> Seq(Items)] /\ pos' \in [Turns -> Nat]
         /\ cancel' \in [Turns -> {"idle", "asking", "interrupting", "ingesting", "refused"}]
         /\ consumer' \in [Turns -> {"idle", "replaying", "listening", "missing", "broken",
                                     "asking", "interrupting", "closing"}]
<1>1. Item(t).seq \in Nat
  BY TailOK DEF Items
<1> QED BY <1>1, TailOK DEF Handled, TypeOK, following, Statuses

\* The type invariant holds initially.
LEMMA InitTypeOK == Init => TypeInv
BY DEF Init, TypeOK, TypeInv, Working

\* Creation, dispatch and launch keep the types.
LEMMA LaunchTypeOK ==
  ASSUME TypeOK, NEW t \in Turns,
         CreateTurn(t) \/ DispatchFails(t) \/ Launch(t) \/ IdentifyTurn(t) \/ StartFails(t)
         \/ AgentFinishes(t)
  PROVE  TypeOK'
<1> USE DEF row, handler, following, bounds
<1>1. CASE CreateTurn(t) \/ DispatchFails(t) \/ FailDispatch(t) \/ RegisterTurn(t)
           \/ AgentStarts(t) \/ IdentifyTurn(t)
  BY <1>1, ZenonT(60) DEF CreateTurn, DispatchFails, FailDispatch, RegisterTurn, AgentStarts, IdentifyTurn,
              TypeOK, Terminal
<1>2. CASE StartReturns(t)
  <2>1. stream' \in [Turns -> Seq(EventTypes)] /\ queue' \in [Turns -> Seq(Items)]
    BY <1>2, EmitOK DEF StartReturns, EventTypes
  <2> QED BY <1>2, <2>1 DEF StartReturns, TypeOK, Items
<1>3. CASE StartFails(t)
  <2>1. /\ registered' \subseteq Turns
        /\ stream' \in [Turns -> Seq(EventTypes)] /\ queue' \in [Turns -> Seq(Items)]
    BY <1>3, FinalizeOK DEF StartFails, Terminal
  <2> QED BY <1>3, <2>1 DEF StartFails, TypeOK, Items
<1>4. CASE AgentFinishes(t)
  <2>1. /\ registered' \subseteq Turns
        /\ stream' \in [Turns -> Seq(EventTypes)] /\ queue' \in [Turns -> Seq(Items)]
    <3>1. PICK e \in {"completed", "failed"} :
            \/ Finalize({t}, e) \/ \E u \in registered : Finalize({u}, e)
            \/ UNCHANGED <<registered, stream, queue>>
      BY <1>4 DEF AgentFinishes
    <3>2. e \in Terminal
      BY DEF Terminal
    <3>3. CASE \E S : Finalize(S, e)
      BY <3>2, <3>3, FinalizeOK
    <3>4. CASE UNCHANGED <<registered, stream, queue>>
      BY <3>4 DEF TypeOK, Items
    <3> QED BY <3>1, <3>3, <3>4
  <2> QED BY <1>4, <2>1 DEF AgentFinishes, TypeOK, Items
<1> QED BY <1>1, <1>2, <1>3, <1>4 DEF Launch

\* The consumer keeps the types.
LEMMA ConsumerTypeOK == ASSUME TypeOK, NEW t \in Turns, Consumer(t) PROVE TypeOK'
<1> USE DEF row, runner, handler, following, bounds
<1>1. CASE EnsureRunnerEventConsumer(t)
  BY <1>1 DEF EnsureRunnerEventConsumer, TypeOK
<1>2. CASE StreamError(t)
  BY <1>2 DEF StreamError, TypeOK
<1>3. CASE FailTurn(t)
  BY <1>3 DEF FailTurn, TypeOK, Terminal
<1>4. CASE Replay(t)
  <2>1. queue' \in [Turns -> Seq(Items)]
    <3>1. [seq |-> pos[t] + 1, live |-> TRUE] \in Items
      BY DEF Items, TypeOK
    <3>2. Append(queue[t], [seq |-> pos[t] + 1, live |-> TRUE]) \in Seq(Items)
      BY <3>1 DEF Items, TypeOK
    <3> QED BY <1>4, <3>2 DEF Replay, Items, TypeOK
  <2>2. \/ UNCHANGED <<consumer, pos>>
        \/ /\ \E c \in {"idle", "listening"} : consumer' = [consumer EXCEPT ![t] = c]
           /\ pos' = [pos EXCEPT ![t] = 0]
    BY <1>4 DEF Replay
  <2>3. UNCHANGED <<row, runner, pc, seen, cancel, bounds>>
    BY <1>4 DEF Replay
  <2> QED BY <2>1, <2>2, <2>3 DEF TypeOK, Items
<1>5. CASE ConsumerCancels(t) \/ ConsumerInterrupted(t)
  <2>1. /\ registered' \subseteq Turns
        /\ stream' \in [Turns -> Seq(EventTypes)] /\ queue' \in [Turns -> Seq(Items)]
    <3>1. Finalize({t}, "cancelled") \/ UNCHANGED <<registered, stream, queue>>
      BY <1>5 DEF ConsumerCancels, ConsumerInterrupted
    <3> QED BY <3>1, FinalizeOK DEF Terminal, TypeOK, Items
  <2>2. agent' \subseteq Turns /\ faults' \in Nat /\ UNCHANGED cancels
    BY <1>5, TurnAssumption DEF ConsumerCancels, ConsumerInterrupted, Interrupt, TypeOK, bounds
  <2> QED BY <1>5, <2>1, <2>2 DEF ConsumerCancels, ConsumerInterrupted, TypeOK, Items
<1> QED BY <1>1, <1>2, <1>3, <1>4, <1>5 DEF Consumer

\* The handler of events keeps the types.
LEMMA HandlerTypeOK ==
  ASSUME TypeInv, NEW t \in Turns, Handler(t) \/ IngestFails(t)
  PROVE  TypeOK'
<1> USE DEF row, runner, handler, following, bounds, TypeInv
<1>1. CASE ReadTurn(t)
  <2>1. CASE Handled(t)
    BY <1>1, <2>1, HandledOK DEF ReadTurn, TypeOK, Items, Statuses
  <2>2. CASE ~Handled(t)
    <3>1. /\ \E p \in {"mark", "append"} : pc' = [pc EXCEPT ![t] = p]
          /\ seen' = [seen EXCEPT ![t] = status[t]]
          /\ UNCHANGED <<row, runner, bounds, queue, following, cancel>>
      BY <1>1, <2>2 DEF ReadTurn
    <3> QED BY <3>1 DEF TypeOK
  <2> QED BY <2>1, <2>2
<1>2. CASE MarkRunning(t)
  BY <1>2 DEF MarkRunning, TypeOK
<1>3. CASE AppendEvent(t)
  <2>1. queue[t] # <<>>
    BY <1>3 DEF AppendEvent, Working
  <2>2. Handled(t) /\ UNCHANGED <<runner, bounds>>
    BY <1>3 DEF AppendEvent
  <2>3. status' \in [Turns -> Statuses]
    BY <1>3 DEF AppendEvent, TypeOK, Statuses
  <2>4. cursor' \in [Turns -> Nat]
    <3>1. Item(t).seq \in Nat
      BY <2>1, TailOK DEF Items
    <3> QED BY <1>3, <3>1 DEF AppendEvent, TypeOK
  <2> QED BY <2>1, <2>2, <2>3, <2>4, HandledOK DEF TypeOK, Items, Statuses
<1>4. CASE IngestFails(t)
  <2>0. queue[t] # <<>>
    BY <1>4 DEF IngestFails
  <2>1. queue' \in [Turns -> Seq(Items)]
    <3> DEFINE rest == Tail(queue[t])
               left == [i \in DOMAIN rest |-> [rest[i] EXCEPT !.live = FALSE]]
    <3>1. rest \in Seq(Items) /\ queue \in [Turns -> Seq(Items)]
      BY <2>0, TailOK DEF TypeOK, Items
    <3>2. left \in Seq(Items)
      <4>1. DOMAIN rest = 1..Len(rest) /\ Len(rest) \in Nat
        BY <3>1
      <4>2. \A r \in Items : [r EXCEPT !.live = FALSE] \in Items
        BY DEF Items
      <4>3. \A i \in 1..Len(rest) : [rest[i] EXCEPT !.live = FALSE] \in Items
        BY <3>1, <4>2
      <4> QED BY <4>1, <4>3
    <3>3. queue' = [queue EXCEPT ![t] = rest] \/ queue' = [queue EXCEPT ![t] = left]
      BY <1>4 DEF IngestFails
    <3> QED BY <3>1, <3>2, <3>3
  <2>2. /\ pc' = [pc EXCEPT ![t] = "idle"] /\ seen' = [seen EXCEPT ![t] = "none"]
        /\ faults' = faults + 1 /\ UNCHANGED <<row, runner, cancels>>
    BY <1>4 DEF IngestFails
  <2>3. cancel' = cancel \/ cancel' = [cancel EXCEPT ![t] = "refused"]
    BY <1>4 DEF IngestFails
  <2>4. pos' \in [Turns -> Nat]
    <3>1. pos' = pos \/ pos' = [pos EXCEPT ![t] = 0]
      BY <1>4 DEF IngestFails
    <3>2. pos \in [Turns -> Nat]
      BY DEF TypeOK
    <3> QED BY <3>1, <3>2
  <2>5. consumer' \in [Turns -> {"idle", "replaying", "listening", "missing", "broken",
                                 "asking", "interrupting", "closing"}]
    <3>1. consumer' = consumer \/ \E c \in {"idle", "broken"} : consumer' = [consumer EXCEPT ![t] = c]
      BY <1>4 DEF IngestFails
    <3> QED BY <3>1 DEF TypeOK
  <2>6. cancel' \in [Turns -> {"idle", "asking", "interrupting", "ingesting", "refused"}]
    BY <2>3 DEF TypeOK
  <2>7. pc' \in [Turns -> {"idle", "mark", "append"}] /\ seen' \in [Turns -> Statuses]
    BY <2>2 DEF TypeOK, Statuses
  <2> QED BY <2>1, <2>2, <2>4, <2>5, <2>6, <2>7 DEF TypeOK, Items, Statuses
<1> QED BY <1>1, <1>2, <1>3, <1>4 DEF Handler

\* Cancellations, worker exits and restarts keep the types.
LEMMA OthersTypeOK ==
  ASSUME TypeOK,
         \/ \E t \in Turns : CancelTurnForUser(t) \/ Cancellation(t)
         \/ WorkerExits \/ RestartApi
  PROVE  TypeOK'
<1> USE DEF row, runner, handler, following, bounds
<1>1. ASSUME NEW t \in Turns, CancelTurnForUser(t) PROVE TypeOK'
  BY <1>1 DEF CancelTurnForUser, TypeOK
<1>2. ASSUME NEW t \in Turns, UserCancels(t) \/ UserInterrupted(t) PROVE TypeOK'
  <2>1. /\ registered' \subseteq Turns
        /\ stream' \in [Turns -> Seq(EventTypes)] /\ queue' \in [Turns -> Seq(Items)]
    <3>1. CASE Finalize({t}, "cancelled")
      BY <3>1, FinalizeOK DEF Terminal
    <3>2. CASE /\ UNCHANGED <<registered, stream>>
               /\ \/ UNCHANGED queue
                  \/ queue' = [queue EXCEPT ![t] = Append(@, [seq |-> 0, live |-> TRUE])]
      <4>1. Append(queue[t], [seq |-> 0, live |-> TRUE]) \in Seq(Items)
        <5>1. [seq |-> 0, live |-> TRUE] \in Items
          BY DEF Items
        <5> QED BY <5>1 DEF TypeOK, Items
      <4> QED BY <3>2, <4>1 DEF TypeOK, Items
    <3> QED BY <1>2, <3>1, <3>2 DEF UserCancels, UserInterrupted
  <2>2. agent' \subseteq Turns /\ faults' \in Nat /\ UNCHANGED cancels
    BY <1>2, TurnAssumption DEF UserCancels, UserInterrupted, Interrupt, TypeOK, bounds
  <2> QED BY <1>2, <2>1, <2>2 DEF UserCancels, UserInterrupted, TypeOK, Items
<1>3. CASE WorkerExits
  <2>1. /\ registered' \subseteq Turns
        /\ stream' \in [Turns -> Seq(EventTypes)] /\ queue' \in [Turns -> Seq(Items)]
    BY <1>3, FinalizeOK DEF WorkerExits, Terminal
  <2> QED BY <1>3, <2>1 DEF WorkerExits, TypeOK, Items
<1>4. CASE RestartApi
  BY <1>4 DEF RestartApi, TypeOK
<1> QED BY <1>1, <1>2, <1>3, <1>4 DEF Cancellation

\* A queue that is not the handler's own only grows.
LEMMA WorkingKept == ASSUME TypeInv, [Next]_vars PROVE Working'
<1> USE DEF TypeInv
<1>0. \A t \in Turns : queue[t] \in Seq(Items)
  BY DEF TypeOK, Items
<1>1. ASSUME NEW S, NEW e, Emit(S, e), UNCHANGED pc PROVE Working'
  <2>1. \A u \in Turns, x \in Items : Append(queue[u], x) # <<>>
    BY <1>0
  <2>2. \A u \in Turns : [seq |-> Len(stream[u]) + 1, live |-> TRUE] \in Items
    BY DEF Items, TypeOK
  <2> QED BY <1>1, <2>1, <2>2 DEF Emit, Working
<1>2. ASSUME NEW t \in Turns, Handled(t) PROVE Working'
  BY <1>2 DEF Handled, Working, TypeOK
<1>3. CASE UNCHANGED <<queue, pc>>
  BY <1>3 DEF Working
<1>4. ASSUME NEW t \in Turns, NEW x \in Items, pc' = pc,
             queue' = [queue EXCEPT ![t] = Append(@, x)]
      PROVE  Working'
  <2>1. Append(queue[t], x) # <<>>
    BY <1>0
  <2> QED BY <1>0, <1>4, <2>1 DEF Working
<1>5. ASSUME NEW t \in Turns, Handler(t) \/ IngestFails(t) PROVE Working'
  <2>1. CASE ReadTurn(t)
    BY <1>2, <2>1 DEF ReadTurn, Working, TypeOK
  <2>2. CASE MarkRunning(t)
    BY <2>2 DEF MarkRunning, Working, TypeOK
  <2>3. CASE AppendEvent(t)
    BY <1>2, <2>3 DEF AppendEvent
  <2>4. CASE IngestFails(t)
    BY <2>4 DEF IngestFails, Working, TypeOK
  <2> QED BY <1>5, <2>1, <2>2, <2>3, <2>4 DEF Handler
<1>6. ASSUME NEW t \in Turns,
             CreateTurn(t) \/ DispatchFails(t) \/ Launch(t) \/ IdentifyTurn(t) \/ StartFails(t)
             \/ AgentFinishes(t)
      PROVE  Working'
  <2>1. (\E S, e : Emit(S, e) /\ UNCHANGED pc) \/ UNCHANGED <<queue, pc>>
    BY <1>6 DEF CreateTurn, DispatchFails, Launch, FailDispatch, RegisterTurn, AgentStarts,
                StartReturns, IdentifyTurn, StartFails, AgentFinishes, Finalize, handler
  <2> QED BY <1>1, <1>3, <2>1
<1>7. ASSUME NEW t \in Turns, Consumer(t) \/ CancelTurnForUser(t) \/ Cancellation(t)
      PROVE  Working'
  <2>1. \/ (\E S, e : Emit(S, e) /\ UNCHANGED pc) \/ UNCHANGED <<queue, pc>>
        \/ \E x \in Items : pc' = pc /\ queue' = [queue EXCEPT ![t] = Append(@, x)]
    <3>1. [seq |-> 0, live |-> TRUE] \in Items /\ [seq |-> pos[t] + 1, live |-> TRUE] \in Items
      BY DEF Items, TypeOK
    <3>2. CASE EnsureRunnerEventConsumer(t) \/ StreamError(t) \/ FailTurn(t) \/ CancelTurnForUser(t)
      BY <3>2 DEF EnsureRunnerEventConsumer, StreamError, FailTurn, CancelTurnForUser, handler
    <3>3. CASE Replay(t)
      BY <3>1, <3>3 DEF Replay
    <3>4. CASE ConsumerCancels(t) \/ ConsumerInterrupted(t) \/ UserInterrupted(t)
      BY <3>4 DEF ConsumerCancels, ConsumerInterrupted, UserInterrupted, Finalize
    <3>5. CASE UserCancels(t)
      BY <3>1, <3>5 DEF UserCancels, Finalize
    <3> QED BY <1>7, <3>2, <3>3, <3>4, <3>5 DEF Consumer, Cancellation
  <2> QED BY <1>1, <1>3, <1>4, <2>1
<1>8. CASE WorkerExits
  BY <1>1, <1>8 DEF WorkerExits, Finalize
<1>9. CASE RestartApi
  BY <1>9 DEF RestartApi, Working
<1>10. CASE UNCHANGED vars
  BY <1>3, <1>10 DEF vars, handler
<1> QED BY <1>5, <1>6, <1>7, <1>8, <1>9, <1>10 DEF Next

LEMMA TypeInvKept == TypeInv /\ [Next]_vars => TypeInv'
<1> SUFFICES ASSUME TypeInv, [Next]_vars PROVE TypeInv'
  OBVIOUS
<1>1. CASE UNCHANGED vars
  BY <1>1 DEF vars, row, runner, handler, following, bounds, TypeInv, TypeOK, Working
<1>2. CASE Next
  BY <1>2, LaunchTypeOK, ConsumerTypeOK, HandlerTypeOK, OthersTypeOK, WorkingKept
     DEF Next, TypeInv
<1> QED BY <1>1, <1>2

\* Every reachable state is well typed, with any number of turns and faults.
THEOREM TypeCorrect == Spec => []TypeOK
<1>1. TypeInv => TypeOK
  BY DEF TypeInv
<1> QED BY <1>1, InitTypeOK, TypeInvKept, PTL DEF Spec

-----------------------------------------------------------------------------
(* No late event revives a turn.  A turn is closed behind its consumer's   *)
(* back by the consumer itself (FailTurn) or by a rejected dispatch        *)
(* (FailDispatch).  The handler has read "queued" and is about to write    *)
(* "running" only for an event of the stream, and of those none is left    *)
(* in the queue when a turn is closed that way.                            *)

\* The consumer gives the turn up.
Detached(t) == consumer[t] \in {"missing", "broken", "asking", "interrupting", "closing"}

\* Nothing of the stream is queued then, or before there is a stream.
Quiet == \A t \in Turns : Detached(t) \/ ~HasStream(t) =>
           \A i \in DOMAIN queue[t] : queue[t][i].seq = 0

\* Only a stream is followed.
Follows == \A t \in Turns : consumer[t] \in {"replaying", "listening"} => HasStream(t)

\* Nothing is launched for a turn that does not exist.
NotLaunched == \A t \in Turns : status[t] = "none" => launch[t] = "none"

\* What the handler read of a turn it marks is still so.
Marking == \A t \in Turns : pc[t] = "mark" => Item(t).seq # 0 /\ (seen[t] = "queued" => Active(t))

LifecycleInv == TypeInv /\ Quiet /\ Follows /\ NotLaunched /\ Marking

LEMMA InitLifecycle == Init => LifecycleInv
<1> SUFFICES ASSUME Init PROVE LifecycleInv
  OBVIOUS
<1>1. Quiet
  BY DEF Init, Quiet
<1>2. Follows /\ NotLaunched /\ Marking
  BY DEF Init, Follows, NotLaunched, Marking
<1> QED BY <1>1, <1>2, InitTypeOK DEF LifecycleInv

\* An emission queues something for a listening consumer only, and behind what
\* is queued.
LEMMA EmitQueues ==
  ASSUME TypeOK, Follows, NEW S, NEW e, Emit(S, e), NEW u \in Turns
  PROVE  /\ Detached(u) \/ ~HasStream(u) => queue'[u] = queue[u]
         /\ queue[u] # <<>> => Head(queue'[u]) = Head(queue[u])
<1>1. queue[u] \in Seq(Items)
  BY DEF TypeOK, Items
<1>2. [seq |-> Len(stream[u]) + 1, live |-> TRUE] \in Items
  BY DEF TypeOK, Items
<1>3. \/ queue'[u] = queue[u]
      \/ /\ consumer[u] = "listening"
         /\ queue'[u] = Append(queue[u], [seq |-> Len(stream[u]) + 1, live |-> TRUE])
  BY DEF Emit
<1>4. consumer[u] = "listening" => HasStream(u) /\ ~Detached(u)
  BY DEF Follows, Detached
<1> QED BY <1>1, <1>2, <1>3, <1>4

\* Steps that emit at most, and close no turn behind the handler's back, keep
\* what is said of the queues.
LEMMA EmissionKeeps ==
  ASSUME LifecycleInv, UNCHANGED <<pc, seen>>,
         UNCHANGED queue \/ \E S, e : Emit(S, e),
         \A u \in Turns : /\ (Detached(u) \/ ~HasStream(u))' => Detached(u) \/ ~HasStream(u)
                          /\ Active(u) /\ ~Active(u)' => Detached(u) \/ ~HasStream(u)
  PROVE  Quiet' /\ Marking'
<1> USE DEF LifecycleInv, TypeInv
<1>1. ASSUME NEW u \in Turns
      PROVE  /\ Detached(u) \/ ~HasStream(u) => queue'[u] = queue[u]
             /\ queue[u] # <<>> => Head(queue'[u]) = Head(queue[u])
  BY EmitQueues
<1>2. Quiet'
  <2>1. ASSUME NEW u \in Turns, (Detached(u) \/ ~HasStream(u))'
        PROVE  \A i \in DOMAIN queue'[u] : queue'[u][i].seq = 0
    BY <1>1, <2>1 DEF Quiet, Detached, HasStream
  <2> QED BY <2>1 DEF Quiet
<1>3. ASSUME NEW u \in Turns, pc'[u] = "mark"
      PROVE  Item(u)'.seq # 0 /\ (seen'[u] = "queued" => Active(u)')
  <2>1. pc[u] = "mark" /\ queue[u] # <<>> /\ Head(queue'[u]) = Head(queue[u])
    BY <1>1, <1>3 DEF Working
  <2>2. Item(u).seq # 0 /\ Item(u)' = Item(u) /\ (seen[u] = "queued" => Active(u))
    BY <2>1 DEF Marking, Item
  <2>3. ~(Detached(u) \/ ~HasStream(u))
    <3>1. 1 \in DOMAIN queue[u] /\ Item(u) = queue[u][1]
      BY <2>1 DEF Item, TypeOK
    <3> QED BY <2>2, <3>1 DEF Quiet
  <2>4. Active(u) => Active(u)'
    BY <2>3 DEF Active, Detached, HasStream
  <2>5. seen'[u] = seen[u]
    OBVIOUS
  <2> QED BY <2>2, <2>4, <2>5
<1>4. Marking'
  BY <1>3 DEF Marking
<1> QED BY <1>2, <1>4

\* The turns of the launch: launched turns have rows, streams stay.
LEMMA LaunchKeeps ==
  ASSUME LifecycleInv, NEW t \in Turns,
         CreateTurn(t) \/ DispatchFails(t) \/ Launch(t) \/ IdentifyTurn(t) \/ StartFails(t)
         \/ AgentFinishes(t)
  PROVE  Follows' /\ NotLaunched' /\ UNCHANGED <<consumer, pc, seen>>
<1> USE DEF LifecycleInv, TypeInv
<1>1. UNCHANGED <<consumer, pc, seen>>
  BY DEF CreateTurn, DispatchFails, Launch, FailDispatch, RegisterTurn, AgentStarts,
         StartReturns, IdentifyTurn, StartFails, AgentFinishes, handler, following
<1>2. launch \in [Turns -> {"none", "resolving", "rejected", "starting", "accepted",
                            "identified", "done", "lost"}]
      /\ status \in [Turns -> Statuses]
  BY DEF TypeOK, Statuses
<1>3. Follows'
  BY <1>1, <1>2 DEF Follows, HasStream, CreateTurn, DispatchFails, Launch, FailDispatch, RegisterTurn,
     AgentStarts, StartReturns, IdentifyTurn, StartFails, AgentFinishes, row, NotLaunched, IsNew
<1>4. NotLaunched'
  BY <1>1, <1>2 DEF NotLaunched, CreateTurn, DispatchFails, Launch, FailDispatch, RegisterTurn,
     AgentStarts, StartReturns, IdentifyTurn, StartFails, AgentFinishes, row
<1> QED BY <1>1, <1>3, <1>4

LEMMA LaunchQueues ==
  ASSUME LifecycleInv, NEW t \in Turns,
         CreateTurn(t) \/ DispatchFails(t) \/ Launch(t) \/ IdentifyTurn(t) \/ StartFails(t)
         \/ AgentFinishes(t)
  PROVE  Quiet' /\ Marking'
<1> USE DEF LifecycleInv, TypeInv
<1>1. UNCHANGED <<consumer, pc, seen>>
  BY LaunchKeeps
<1>2. UNCHANGED queue \/ \E S, e : Emit(S, e)
  BY DEF CreateTurn, DispatchFails, Launch, FailDispatch, RegisterTurn, AgentStarts,
         StartReturns, IdentifyTurn, StartFails, AgentFinishes, Finalize, handler
<1>3. \A u \in Turns : HasStream(u) => HasStream(u)'
  BY DEF HasStream, TypeOK, CreateTurn, DispatchFails, Launch, FailDispatch, RegisterTurn,
     AgentStarts, StartReturns, IdentifyTurn, StartFails, AgentFinishes, row, NotLaunched, IsNew
<1>4. ASSUME NEW u \in Turns, Active(u), ~Active(u)' PROVE ~HasStream(u)
  BY <1>4 DEF HasStream, Active, TypeOK, CreateTurn, DispatchFails, Launch, FailDispatch, RegisterTurn,
     AgentStarts, StartReturns, IdentifyTurn, StartFails, AgentFinishes, row
<1>5. \A u \in Turns : Detached(u)' = Detached(u)
  BY <1>1 DEF Detached
<1> QED BY <1>1, <1>2, <1>3, <1>4, <1>5, EmissionKeeps

\* The consumer follows streams only, and queues nothing once it gives up.
LEMMA ConsumerKeeps ==
  ASSUME LifecycleInv, NEW t \in Turns, Consumer(t)
  PROVE  Follows' /\ NotLaunched' /\ Quiet' /\ Marking'
<1> USE DEF LifecycleInv, TypeInv
<1>1. UNCHANGED <<launch, pc, seen>>
  BY DEF Consumer, EnsureRunnerEventConsumer, Replay, StreamError, ConsumerCancels,
         ConsumerInterrupted, FailTurn, runner, handler
<1>2. consumer \in [Turns -> {"idle", "replaying", "listening", "missing", "broken", "asking",
                              "interrupting", "closing"}]
      /\ status \in [Turns -> Statuses] /\ queue \in [Turns -> Seq(Items)]
  BY DEF TypeOK, Statuses, Items
<1>3. Follows'
  BY <1>1, <1>2 DEF Follows, HasStream, Consumer, EnsureRunnerEventConsumer, Replay, StreamError,
     ConsumerCancels, ConsumerInterrupted, FailTurn, following
<1>4. NotLaunched'
  BY <1>1, <1>2 DEF NotLaunched, Consumer, EnsureRunnerEventConsumer, Replay, StreamError,
     ConsumerCancels, ConsumerInterrupted, FailTurn, row
<1>5. CASE ~Replay(t)
  <2>1. UNCHANGED queue \/ \E S, e : Emit(S, e)
    BY <1>5 DEF Consumer, EnsureRunnerEventConsumer, StreamError, ConsumerCancels,
         ConsumerInterrupted, FailTurn, Finalize, handler
  <2>2. ASSUME NEW u \in Turns, (Detached(u) \/ ~HasStream(u))' PROVE Detached(u) \/ ~HasStream(u)
    BY <1>1, <1>2, <1>5, <2>2 DEF Detached, HasStream, Consumer, EnsureRunnerEventConsumer,
       StreamError, ConsumerCancels, ConsumerInterrupted, FailTurn
  <2>3. ASSUME NEW u \in Turns, Active(u), ~Active(u)' PROVE Detached(u)
    BY <1>2, <1>5, <2>3 DEF Detached, Active, Consumer, EnsureRunnerEventConsumer,
       StreamError, ConsumerCancels, ConsumerInterrupted, FailTurn, row
  <2> QED BY <1>1, <1>3, <1>4, <2>1, <2>2, <2>3, EmissionKeeps
<1>6. CASE Replay(t)
  <2> DEFINE x == [seq |-> pos[t] + 1, live |-> TRUE]
  <2>1. \A u \in Turns : queue'[u] = queue[u] \/ (u = t /\ queue'[u] = Append(queue[u], x))
    BY <1>2, <1>6 DEF Replay
  <2>2. x \in Items
    BY DEF Items, TypeOK
  <2>3. consumer[t] = "replaying" /\ HasStream(t) /\ consumer'[t] \in {"replaying", "idle", "listening"}
        /\ \A u \in Turns \ {t} : consumer'[u] = consumer[u]
    BY <1>2, <1>6 DEF Replay, Follows, following
  <2>4. HasStream(t)' /\ ~Detached(t)'
    BY <1>1, <2>3 DEF HasStream, Detached
  <2>5. \A u \in Turns \ {t} : Detached(u)' = Detached(u) /\ HasStream(u)' = HasStream(u)
    BY <1>1, <2>3 DEF HasStream, Detached
  <2>6. Quiet'
    BY <2>1, <2>4, <2>5 DEF Quiet
  <2>7. ASSUME NEW u \in Turns, pc[u] = "mark" PROVE Head(queue'[u]) = Head(queue[u])
    <3> HIDE DEF x
    <3> QED BY <1>2, <2>1, <2>2, <2>7, HeadTailAppend, ZenonT(60) DEF Working
  <2>8. UNCHANGED status
    BY <1>6 DEF Replay, row
  <2> QED BY <1>1, <1>3, <1>4, <2>6, <2>7, <2>8 DEF Marking, Item, Active
<1> QED BY <1>3, <1>4, <1>5, <1>6

\* Handling the head leaves the others.
LEMMA HandledKeeps ==
  ASSUME LifecycleInv, NEW t \in Turns, queue[t] # <<>>, Handled(t), UNCHANGED launch,
         \A u \in Turns \ {t} : status'[u] = status[u]
  PROVE  Follows' /\ Quiet' /\ Marking'
<1> USE DEF LifecycleInv, TypeInv
<1>2. consumer \in [Turns -> {"idle", "replaying", "listening", "missing", "broken", "asking",
                              "interrupting", "closing"}]
      /\ queue \in [Turns -> Seq(Items)]
  BY DEF TypeOK, Items
<1>3. \A u \in Turns : consumer'[u] \in {consumer[u], "idle"}
  BY <1>2 DEF Handled, following
<1>4. Follows'
  BY <1>3 DEF Follows, HasStream
<1>5. queue' = [queue EXCEPT ![t] = Tail(@)]
  BY DEF Handled
<1>6. \A i \in DOMAIN queue'[t] : i + 1 \in DOMAIN queue[t] /\ queue'[t][i] = queue[t][i + 1]
  BY <1>2, <1>5
<1>7. Quiet'
  BY <1>2, <1>3, <1>5, <1>6 DEF Quiet, Detached, HasStream
<1>8. Marking'
  BY <1>2, <1>5 DEF Handled, Marking, Item, Active, TypeOK
<1> QED BY <1>4, <1>7, <1>8

\* The handler keeps the invariant; a failure ends the queue, because nothing
\* overtakes.
LEMMA HandlerKeeps ==
  ASSUME LifecycleInv, ~Overtaking, NEW t \in Turns, Handler(t) \/ IngestFails(t)
  PROVE  Follows' /\ NotLaunched' /\ Quiet' /\ Marking'
<1> USE DEF LifecycleInv, TypeInv
<1>1. launch' = launch
  BY DEF Handler, ReadTurn, MarkRunning, AppendEvent, IngestFails, runner
<1>2. consumer \in [Turns -> {"idle", "replaying", "listening", "missing", "broken", "asking",
                              "interrupting", "closing"}]
      /\ queue \in [Turns -> Seq(Items)] /\ status \in [Turns -> Statuses]
      /\ pc \in [Turns -> {"idle", "mark", "append"}] /\ seen \in [Turns -> Statuses]
  BY DEF TypeOK, Items, Statuses
<1>3. CASE ReadTurn(t)
  <2>1. UNCHANGED status /\ queue[t] # <<>>
    BY <1>3 DEF ReadTurn, row
  <2>2. NotLaunched'
    BY <1>1, <2>1 DEF NotLaunched
  <2>3. CASE Handled(t)
    BY <1>1, <2>1, <2>2, <2>3, HandledKeeps
  <2>4. CASE ~Handled(t)
    <3>1. /\ pc' = [pc EXCEPT ![t] = IF Event(t) = "started" THEN "mark" ELSE "append"]
          /\ seen' = [seen EXCEPT ![t] = status[t]]
          /\ UNCHANGED <<queue, consumer, pos, cancel>>
      BY <1>3, <2>4 DEF ReadTurn, following
    <3>2. pc'[t] = "mark" => Item(t).seq # 0
      BY <1>2, <3>1 DEF Event
    <3>3. Follows' /\ Quiet'
      BY <1>1, <3>1 DEF Follows, Quiet, Detached, HasStream
    <3>4. Marking'
      BY <1>2, <2>1, <3>1, <3>2 DEF Marking, Item, Active
    <3> QED BY <2>2, <3>3, <3>4
  <2> QED BY <2>3, <2>4
<1>4. CASE MarkRunning(t)
  <2>1. UNCHANGED <<queue, consumer, seen>> /\ pc' = [pc EXCEPT ![t] = "append"]
    BY <1>4 DEF MarkRunning, following
  <2>2. \A u \in Turns \ {t} : status'[u] = status[u]
    BY <1>2, <1>4 DEF MarkRunning
  <2>3. Follows' /\ Quiet'
    BY <1>1, <2>1 DEF Follows, Quiet, Detached, HasStream
  <2>4. NotLaunched'
    BY <1>1, <1>2, <1>4 DEF NotLaunched, MarkRunning
  <2>5. Marking'
    BY <1>2, <2>1, <2>2 DEF Marking, Item, Active
  <2> QED BY <2>3, <2>4, <2>5
<1>5. CASE AppendEvent(t)
  <2>1. queue[t] # <<>> /\ Handled(t)
    BY <1>5 DEF AppendEvent, Working
  <2>2. \A u \in Turns \ {t} : status'[u] = status[u]
    BY <1>2, <1>5 DEF AppendEvent
  <2>3. NotLaunched'
    BY <1>1, <1>2, <1>5 DEF NotLaunched, AppendEvent, Terminal
  <2> QED BY <1>1, <2>1, <2>2, <2>3, HandledKeeps
<1>6. CASE IngestFails(t)
  <2>1. UNCHANGED status /\ queue[t] # <<>> /\ Len(queue[t]) = 1
    BY <1>6 DEF IngestFails, row
  <2>2. DOMAIN queue'[t] = {} /\ \A u \in Turns \ {t} : queue'[u] = queue[u]
    <3>1. DOMAIN Tail(queue[t]) = {}
      <4>1. Tail(queue[t]) \in Seq(Items) /\ Len(Tail(queue[t])) = 0
        BY <1>2, <2>1, HeadTailProperties
      <4>2. DOMAIN Tail(queue[t]) = 1..0
        BY <4>1, LenProperties
      <4> QED BY <4>2
    <3>2. \/ queue' = [queue EXCEPT ![t] = Tail(@)]
          \/ queue' = [queue EXCEPT ![t] =
                         [i \in DOMAIN Tail(@) |-> [Tail(@)[i] EXCEPT !.live = FALSE]]]
      BY <1>6 DEF IngestFails
    <3> QED BY <1>2, <3>1, <3>2
  <2>3. \A u \in Turns \ {t} : consumer'[u] = consumer[u] /\ pc'[u] = pc[u] /\ seen'[u] = seen[u]
    BY <1>2, <1>6 DEF IngestFails, following
  <2>4. consumer'[t] \in {consumer[t], "idle", "broken"} /\ pc'[t] = "idle"
    BY <1>2, <1>6 DEF IngestFails, following
  <2>5. Follows' /\ NotLaunched'
    BY <1>1, <2>1, <2>3, <2>4 DEF Follows, NotLaunched, HasStream
  <2>6. Quiet'
    BY <1>1, <2>2, <2>3 DEF Quiet, Detached, HasStream
  <2>7. Marking'
    BY <2>1, <2>2, <2>3, <2>4 DEF Marking, Item, Active
  <2> QED BY <2>5, <2>6, <2>7
<1> QED BY <1>3, <1>4, <1>5, <1>6 DEF Handler

\* Cancellations queue cancellations, restarts empty the queues.
LEMMA OthersKeep ==
  ASSUME LifecycleInv,
         \/ \E t \in Turns : CancelTurnForUser(t) \/ Cancellation(t)
         \/ WorkerExits \/ RestartApi \/ UNCHANGED vars
  PROVE  Follows' /\ NotLaunched' /\ Quiet' /\ Marking'
<1> USE DEF LifecycleInv, TypeInv
<1>1. status' = status
  BY DEF CancelTurnForUser, Cancellation, UserCancels, UserInterrupted, WorkerExits, RestartApi,
         vars, row
<1>2. CASE RestartApi
  BY <1>2 DEF RestartApi, Follows, NotLaunched, Quiet, Marking, row, HasStream
<1>3. ASSUME ~RestartApi
      PROVE  /\ UNCHANGED <<consumer, pc, seen>>
             /\ \A u \in Turns : /\ HasStream(u)' = HasStream(u)
                                 /\ launch'[u] = "none" <=> launch[u] = "none"
  <2>1. UNCHANGED <<consumer, pc, seen>>
    BY <1>3 DEF CancelTurnForUser, Cancellation, UserCancels, UserInterrupted, WorkerExits,
       vars, following, handler
  <2>2. CASE UNCHANGED launch
    BY <2>1, <2>2 DEF HasStream
  <2>3. CASE WorkerExits
    BY <2>1, <2>3 DEF WorkerExits, HasStream
  <2>4. UNCHANGED launch \/ WorkerExits
    BY <1>3 DEF CancelTurnForUser, Cancellation, UserCancels, UserInterrupted, vars, runner
  <2> QED BY <2>2, <2>3, <2>4
<1>4. ASSUME ~RestartApi PROVE Follows' /\ NotLaunched'
  BY <1>1, <1>3, <1>4 DEF Follows, NotLaunched, HasStream
<1>5. CASE ~RestartApi /\ (UNCHANGED queue \/ \E S, e : Emit(S, e))
  <2>1. ASSUME NEW u \in Turns, (Detached(u) \/ ~HasStream(u))' PROVE Detached(u) \/ ~HasStream(u)
    BY <1>3, <1>5, <2>1 DEF Detached, HasStream
  <2>2. \A u \in Turns : Active(u)' = Active(u)
    BY <1>1 DEF Active
  <2> QED BY <1>3, <1>4, <1>5, <2>1, <2>2, EmissionKeeps
<1>6. CASE \E t \in Turns : queue' = [queue EXCEPT ![t] = Append(@, [seq |-> 0, live |-> TRUE])]
                         /\ ~RestartApi
  <2> DEFINE x == [seq |-> 0, live |-> TRUE]
  <2>1. \A u \in Turns : queue'[u] = queue[u] \/ queue'[u] = Append(queue[u], x)
    BY <1>6 DEF TypeOK
  <2>2. x \in Items /\ queue \in [Turns -> Seq(Items)] /\ x.seq = 0
    BY DEF Items, TypeOK
  <2> HIDE DEF x
  <2>3. Quiet'
    BY <1>3, <1>6, <2>1, <2>2 DEF Quiet, Detached, HasStream
  <2>4. ASSUME NEW u \in Turns, pc[u] = "mark" PROVE Head(queue'[u]) = Head(queue[u])
    BY <2>1, <2>2, <2>4, HeadTailAppend DEF Working
  <2> QED BY <1>1, <1>3, <1>4, <1>6, <2>3, <2>4 DEF Marking, Item, Active
<1> QED BY <1>2, <1>5, <1>6 DEF CancelTurnForUser, Cancellation, UserCancels, UserInterrupted,
        WorkerExits, Finalize, vars, handler

\* The invariant of the lifecycle is inductive where no event overtakes a failed one.
LEMMA LifecycleInductive ==
  ASSUME LifecycleInv, ~Overtaking, [Next]_vars
  PROVE  LifecycleInv'
<1>1. TypeInv'
  BY TypeInvKept DEF LifecycleInv
<1>2. Follows' /\ NotLaunched' /\ Quiet' /\ Marking'
  BY LaunchKeeps, LaunchQueues, ConsumerKeeps, HandlerKeeps, OthersKeep DEF Next
<1> QED BY <1>1, <1>2 DEF LifecycleInv

\* Only a new turn becomes active, and an ended turn stays ended.
LEMMA RowsKept ==
  ASSUME LifecycleInv, [Next]_vars, NEW u \in Turns
  PROVE  /\ Active(u)' => Active(u) \/ CreateTurn(u)
         /\ Ended(u) => Ended(u)'
<1> USE DEF LifecycleInv, TypeInv
<1>1. status \in [Turns -> Statuses]
  BY DEF TypeOK, Statuses
<1>2. ASSUME NEW t \in Turns,
             CreateTurn(t) \/ DispatchFails(t) \/ Launch(t) \/ IdentifyTurn(t) \/ StartFails(t)
             \/ AgentFinishes(t) \/ Consumer(t) \/ CancelTurnForUser(t) \/ Cancellation(t)
             \/ IngestFails(t)
      PROVE  \/ status' = status
             \/ status' = [status EXCEPT ![t] = "failed"]
             \/ CreateTurn(t) /\ status' = [status EXCEPT ![t] = "queued"]
  BY <1>2 DEF CreateTurn, DispatchFails, Launch, FailDispatch, RegisterTurn, AgentStarts,
     StartReturns, IdentifyTurn, StartFails, AgentFinishes, Consumer, EnsureRunnerEventConsumer,
     Replay, StreamError, ConsumerCancels, ConsumerInterrupted, FailTurn, CancelTurnForUser,
     Cancellation, UserCancels, UserInterrupted, IngestFails, row
<1>3. ASSUME NEW t \in Turns, Handler(t)
      PROVE  \/ status' = status
             \/ \E e \in Terminal : status' = [status EXCEPT ![t] = e]
             \/ Active(t) /\ status' = [status EXCEPT ![t] = "running"]
  BY <1>3 DEF Handler, ReadTurn, MarkRunning, AppendEvent, Marking, row
<1>4. WorkerExits \/ RestartApi \/ UNCHANGED vars => status' = status
  BY DEF WorkerExits, RestartApi, vars, row
<1>5. CASE status' = status
  BY <1>5 DEF Active, Ended
<1>6. ASSUME NEW t \in Turns, NEW e \in Terminal, status' = [status EXCEPT ![t] = e]
      PROVE  (Active(u)' => Active(u)) /\ (Ended(u) => Ended(u)')
  BY <1>1, <1>6 DEF Active, Ended, Terminal
<1>7. ASSUME NEW t \in Turns, Active(t), status' = [status EXCEPT ![t] = "running"]
      PROVE  (Active(u)' => Active(u)) /\ (Ended(u) => Ended(u)')
  BY <1>1, <1>7 DEF Active, Ended, Terminal
<1>8. ASSUME NEW t \in Turns, CreateTurn(t), status' = [status EXCEPT ![t] = "queued"]
      PROVE  (Active(u)' => Active(u) \/ CreateTurn(u)) /\ (Ended(u) => Ended(u)')
  BY <1>1, <1>8 DEF Active, Ended, Terminal, CreateTurn, IsNew
<1>9. "failed" \in Terminal
  BY DEF Terminal
<1> QED BY <1>2, <1>3, <1>4, <1>5, <1>6, <1>7, <1>8, <1>9 DEF Next

\* A session has one active turn at most, for any number of turns, faults and
\* cancellations, unless an event overtakes one whose ingestion fails.
THEOREM OneActiveTurn == ~Overtaking /\ Spec => []OneActive
<1>1. OneActive /\ LifecycleInv /\ [Next]_vars => OneActive'
  <2> SUFFICES ASSUME OneActive, LifecycleInv, [Next]_vars,
                      NEW t \in Turns, NEW u \in Turns, Active(t)', Active(u)'
               PROVE  t = u
    BY DEF OneActive
  <2>1. (Active(t) \/ CreateTurn(t)) /\ (Active(u) \/ CreateTurn(u))
    BY RowsKept
  <2>2. CASE CreateTurn(t)
    BY <2>1, <2>2 DEF CreateTurn, Active, IsNew, LifecycleInv, TypeInv, TypeOK
  <2>3. CASE CreateTurn(u)
    BY <2>1, <2>3 DEF CreateTurn, Active, IsNew, LifecycleInv, TypeInv, TypeOK
  <2> QED BY <2>1, <2>2, <2>3 DEF OneActive
<1>2. Init => OneActive
  BY DEF Init, OneActive, Active
<1>3. ~Overtaking /\ LifecycleInv /\ [Next]_vars => LifecycleInv'
  BY LifecycleInductive
<1>4. (~Overtaking)' <=> ~Overtaking
  OBVIOUS
<1> QED BY <1>1, <1>2, <1>3, <1>4, InitLifecycle, PTL DEF Spec

\* No late event makes an ended turn active again, under the same condition.
THEOREM EndedForGood == ~Overtaking /\ Spec => EndedStaysEnded
<1>1. LifecycleInv /\ [Next]_vars => [\A t \in Turns : Ended(t) => Ended(t)']_vars
  BY RowsKept
<1>2. ~Overtaking /\ LifecycleInv /\ [Next]_vars => LifecycleInv'
  BY LifecycleInductive
<1>3. (~Overtaking)' <=> ~Overtaking
  OBVIOUS
<1> QED BY <1>1, <1>2, <1>3, InitLifecycle, PTL DEF Spec, EndedStaysEnded

-----------------------------------------------------------------------------
(* Lemmas: a set of numbers has a least one.                               *)

\* The order of the numbers as the library's relation.
LEMMA Smaller == \A x, y \in Nat : <<y, x>> \in OpToRel(<, Nat) <=> y < x
BY DEF OpToRel

\* A set of numbers that is not empty has a least one: the numbers are well founded.
LEMMA Least == ASSUME NEW S \in SUBSET Nat, S # {} PROVE \E n \in S : \A m \in S : n <= m
<1>1. IsWellFoundedOn(OpToRel(<, Nat), Nat)
  BY NatLessThanWellFounded
<1>2. \E x \in S : \A y \in S : ~(<<y, x>> \in OpToRel(<, Nat))
  <2> DEFINE R == OpToRel(<, Nat)
  <2>1. IsWellFoundedOn(R, Nat)
    BY <1>1
  <2> HIDE DEF R
  <2>2. \E x \in S : \A y \in S : ~(<<y, x>> \in R)
    BY <2>1, WFMin
  <2> QED BY <2>2 DEF R
<1>3. PICK x \in S : \A y \in S : ~(<<y, x>> \in OpToRel(<, Nat))
  BY <1>2
<1>4. \A y \in S : ~(y < x)
  BY <1>3, Smaller
<1> QED BY <1>4

-----------------------------------------------------------------------------
(* ProjectSessions: the types, and the parts of the invariant.              *)

Ops == {"none", "create", "backend", "settings", "turn", "fork", "compact", "delete", "deleteProject"}
Points ==
  {"idle", "insert", "count", "write", "model", "auto", "check", "call", "compacting", "queued", "close", "drop"}
Rows ==
  [row : {"none", "kept", "gone"}, backend : {"codex", "claude"}, own : BOOLEAN, thread : 0..MaxThreads,
   model : 0..1, auto : 0..1, messages : Nat]
Agents == [st : {"none", "starting", "running"}, thread : 0..MaxThreads]
ThreadStates == [st : {"unused", "live", "closed"}, holds : Nat]
Jobs == [op : Ops, pc : Points, slot : Slots \cup {First}, threads : SUBSET Threads, row : Rows]
Projects == [exists : BOOLEAN, backend : {"codex", "claude"}]

SessionTypes ==
  /\ project \in Projects
  /\ sessions \in [Slots -> Rows] /\ turnRow \in [Slots -> {"none", "active"}]
  /\ served \in [Slots -> Agents] /\ thread \in [Threads -> ThreadStates] /\ job \in [Callers -> Jobs]
  /\ wanted \in [Slots -> (0..1) \X (0..1)] /\ crossed \subseteq Slots

\* A request that has read the row of its session.
Looks(c) == job[c].op \in {"settings", "turn", "compact", "delete"} \/ (job[c].op = "fork" /\ job[c].pc # "insert")

\* A request is where its operation can be, and is about a session that was there.
Requests ==
  \A c \in Callers :
    /\ job[c].op \in {"create", "settings", "turn", "fork", "compact", "delete"} => job[c].slot \in Slots
    /\ Looks(c) => sessions[job[c].slot].row # "none"
    /\ job[c].op = "create" => job[c].pc = "insert" /\ job[c].row.row = "none" /\ job[c].row.thread = NoThread
                               /\ job[c].row.messages = 0
    /\ job[c].op = "turn" => job[c].pc = "insert"
    /\ job[c].op = "settings" => job[c].pc \in {"model", "auto"}
    /\ job[c].op = "backend" => job[c].pc \in {"count", "write"}
    /\ job[c].op = "fork" => job[c].pc \in {"check", "call", "insert"}
    /\ job[c].op = "compact" => job[c].pc \in {"check", "call", "compacting"}
    /\ job[c].op = "delete" => job[c].pc \in {"queued", "check", "call", "drop"}
    /\ job[c].op = "deleteProject" => job[c].pc \in {"queued", "check", "call", "close", "drop"}
    /\ job[c].op = "none" => job[c].pc = "idle"

\* A slot never used has no thread and no agent.
Unused == \A s \in Slots : sessions[s].row = "none" => sessions[s].thread = NoThread /\ served[s] = NoAgent

\* The threads a session may still go on with, and the copy a request is about to give away.
Refers(s, t) ==
  \/ sessions[s].thread = t \/ served[s].thread = t
  \/ \E c \in Callers : /\ job[c].op = "turn" \/ (job[c].op = "fork" /\ job[c].pc # "insert")
                        /\ job[c].slot = s /\ job[c].row.thread = t
Copied(c, t) == job[c].op = "fork" /\ job[c].pc = "insert" /\ job[c].row.thread = t

\* A thread that some session goes on with has been started, and no other session goes on with it.
Started == \A s \in Slots, t \in Threads : Refers(s, t) => thread[t].st # "unused"
OneOwner == \A s, r \in Slots, t \in Threads : Refers(s, t) /\ Refers(r, t) => r = s
\* A copy belongs to nobody yet: not to a session, not to another request.
CopyApart == \A c \in Callers, t \in Threads : Copied(c, t)
  => thread[t].st = "live" /\ \A s \in Slots : ~Refers(s, t)
CopyAlone == \A c, d \in Callers, t \in Threads : Copied(c, t)
  => (Copied(d, t) => d = c) /\ t \notin job[d].threads
\* What a deletion is going to close has been started, and is its session's.
ToClose ==
  \A c \in Callers, t \in Threads : t \in job[c].threads =>
    /\ thread[t].st # "unused"
    /\ job[c].op = "delete" => \A r \in Slots : Refers(r, t) => r = job[c].slot
Blank == \A t \in Threads : thread[t].st = "unused" => thread[t].holds = 0

\* An agent that runs has a thread; one that serves a session that is there, serves its turn.
Agency ==
  \A s \in Slots :
    /\ served[s].st = "none" => served[s] = NoAgent
    /\ served[s].st = "running" => served[s].thread \in Threads
    /\ served[s] # NoAgent /\ Exists(s) => turnRow[s] = "active"

\* The thread of a session remembers its history, up to the message an agent is starting with.
Memory ==
  \A s \in Existing \ crossed :
    /\ served[s] = NoAgent =>
         IF sessions[s].thread = NoThread THEN sessions[s].messages = 0
         ELSE thread[sessions[s].thread].holds = sessions[s].messages
    /\ served[s].st = "starting" =>
         /\ served[s].thread = sessions[s].thread
         /\ IF sessions[s].thread = NoThread THEN sessions[s].messages = 1
            ELSE thread[sessions[s].thread].holds + 1 = sessions[s].messages
    /\ served[s].st = "running" =>
         served[s].thread = sessions[s].thread /\ thread[sessions[s].thread].holds = sessions[s].messages

\* An agent serves a session that is there, on a live thread; none where a request is past its check.
Holds(c, s) == \/ /\ job[c].op \in {"fork", "compact", "delete"}
                  /\ job[c].pc \in {"call", "compacting", "drop"} /\ job[c].slot = s
               \/ job[c].op = "deleteProject" /\ job[c].pc \in {"call", "close", "drop"}
Alive ==
  \A s \in Slots \ crossed : served[s] # NoAgent =>
    Exists(s) /\ (served[s].thread # NoThread => thread[served[s].thread].st = "live")
Untouched == \A c \in Callers, s \in Slots \ crossed : Holds(c, s) => served[s] = NoAgent

\* The thread of a session is closed only when the session is about to be deleted.
Open ==
  \A s \in Existing \ crossed : sessions[s].thread # NoThread =>
    thread[sessions[s].thread].st = "live" \/ \E c \in Callers : job[c].pc = "drop" /\ s \in About(c)

\* What a fork has read is what the thread it copies remembers, and then the copy.
Copies ==
  \A c \in Callers : job[c].op = "fork" =>
    /\ job[c].pc \in {"call", "insert"} => job[c].row.thread # NoThread
    /\ job[c].slot \notin crossed /\ (job[c].pc = "check" => served[job[c].slot] = NoAgent)
         /\ job[c].row.thread # NoThread =>
         thread[job[c].row.thread].holds = job[c].row.messages

\* A deletion has the thread of what it deletes, and has closed it before the row goes.
Closing ==
  \A c \in Callers, s \in Slots \ crossed :
    /\ job[c].op = "delete" /\ job[c].slot = s =>
         /\ job[c].pc = "check" /\ served[s] = NoAgent => sessions[s].thread \in job[c].threads \cup {NoThread}
         /\ job[c].pc = "call" => sessions[s].thread \in job[c].threads \cup {NoThread}
         /\ job[c].pc = "drop" => sessions[s].thread = NoThread \/ thread[sessions[s].thread].st = "closed"
    /\ job[c].op = "deleteProject" /\ Exists(s) =>
         /\ job[c].pc = "close" => sessions[s].thread \in job[c].threads \cup {NoThread}
         /\ job[c].pc = "drop" => sessions[s].thread = NoThread \/ thread[sessions[s].thread].st = "closed"

\* No session has come since they were counted, but those that crossed the change.
Counted == \A c \in Callers : Stands(c, "backend", "write") => Existing \subseteq crossed

\* A change of settings has read the last ones.
Accepted ==
  \A c \in Callers : job[c].op = "settings" /\ job[c].slot \in Existing \ crossed =>
    job[c].row.model = sessions[job[c].slot].model /\ job[c].row.auto = sessions[job[c].slot].auto

SessionsInv ==
  /\ SessionTypes /\ Requests /\ Unused /\ Started /\ OneOwner /\ CopyApart /\ CopyAlone /\ ToClose /\ Blank
  /\ Agency /\ Memory /\ Alive /\ Untouched /\ Open /\ Copies /\ Closing /\ NoThreadLeft
  /\ Counted /\ BackendOfProject /\ Accepted /\ SettingsKept

\* A caller with no request.
LEMMA NoJobOK == NoJob \in Jobs
BY SessionsAssumption DEF NoJob, NoSession, NoThread, Jobs, Ops, Points, Rows

\* A request moves on, and knows what it knew.
LEMMA Goes ==
  ASSUME SessionTypes, NEW c \in Callers, NEW p \in Points, Goto(c, p)
  PROVE  /\ job' \in [Callers -> Jobs]
         /\ job'[c].pc = p /\ job'[c].op = job[c].op /\ job'[c].slot = job[c].slot
         /\ job'[c].threads = job[c].threads /\ job'[c].row = job[c].row
         /\ \A d \in Callers : d # c => job'[d] = job[d]
<1>1. job \in [Callers -> Jobs] /\ job' = [job EXCEPT ![c].pc = p]
  BY DEF SessionTypes, Goto
<1> QED BY <1>1 DEF Jobs

\* A deletion moves on with the threads it has read.
LEMMA Learns ==
  ASSUME SessionTypes, NEW c \in Callers, NEW p \in Points, NEW x \in SUBSET Threads,
         job' = [job EXCEPT ![c] = [job[c] EXCEPT !.pc = p, !.threads = x]]
  PROVE  /\ job' \in [Callers -> Jobs]
         /\ job'[c].pc = p /\ job'[c].op = job[c].op /\ job'[c].slot = job[c].slot
         /\ job'[c].threads = x /\ job'[c].row = job[c].row
         /\ \A d \in Callers : d # c => job'[d] = job[d]
<1>1. job \in [Callers -> Jobs] /\ job[c] \in Jobs
  BY DEF SessionTypes
<1>2. PICK j : j = [job[c] EXCEPT !.pc = p, !.threads = x]
  OBVIOUS
<1>3. /\ j \in Jobs /\ j.pc = p /\ j.op = job[c].op /\ j.slot = job[c].slot
      /\ j.threads = x /\ j.row = job[c].row
  BY <1>1, <1>2 DEF Jobs
<1>4. job' = [job EXCEPT ![c] = j]
  BY <1>2
<1> QED BY <1>1, <1>3, <1>4

\* The row of a session to be created.
LEMMA NoRow == NoSession \in Rows /\ NoSession.row = "none" /\ NoSession.thread = NoThread
  /\ NoSession.messages = 0
BY SessionsAssumption DEF NoSession, NoThread, Rows

\* A row that is created, of its own or as a fork.
LEMMA NewRows ==
  ASSUME NEW own \in BOOLEAN, NEW b \in {"codex", "claude"}
  PROVE  LET r == [NoSession EXCEPT !.own = own, !.backend = b] IN
         /\ r \in Rows /\ r.row = "none" /\ r.thread = NoThread /\ r.messages = 0
<1>1. PICK q : q = NoSession
  OBVIOUS
<1>2. q \in Rows /\ q.row = "none" /\ q.thread = NoThread /\ q.messages = 0
  BY <1>1, NoRow
<1>3. [q EXCEPT !.own = own, !.backend = b] \in Rows
  BY <1>2 DEF Rows
<1>4. LET r == [q EXCEPT !.own = own, !.backend = b] IN r.row = "none" /\ r.thread = NoThread /\ r.messages = 0
  BY <1>2 DEF Rows
<1> QED BY <1>1, <1>3, <1>4

\* So is one with another backend.
LEMMA ChangedRow == ASSUME NEW b \in {"codex", "claude"} PROVE [NoSession EXCEPT !.backend = b] \in Rows
<1>1. PICK q : q = NoSession
  OBVIOUS
<1>2. [q EXCEPT !.backend = b] \in Rows
  BY <1>1, NoRow DEF Rows
<1> QED BY <1>1, <1>2

\* There are two backends, and a project has one of them.
LEMMA EitherBackend == SessionTypes
  => project.backend \in {"codex", "claude"} /\ Other(project.backend) \in {"codex", "claude"}
BY DEF SessionTypes, Projects, Other

\* A thread that has not been started: the first of those.
LEMMA FreshIs == HasFresh => Fresh \in Threads /\ thread[Fresh].st = "unused"
<1> SUFFICES ASSUME HasFresh PROVE Fresh \in Threads /\ thread[Fresh].st = "unused"
  OBVIOUS
<1>1. PICK S : S = {t \in Threads : thread[t].st = "unused"}
  OBVIOUS
<1>2. S \in SUBSET Nat /\ S # {}
  BY <1>1, SessionsAssumption DEF HasFresh, Threads
<1>3. PICK n \in S : \A m \in S : n <= m
  BY <1>2, Least
<1>4. \A u \in 1..(n - 1) : u \notin S
  BY <1>2, <1>3
<1>5. n \in Threads /\ thread[n].st = "unused" /\ \A u \in 1..(n - 1) : thread[u].st # "unused"
  BY <1>1, <1>3, SessionsAssumption DEF Threads
<1> QED BY <1>5 DEF Fresh

\* An agent that begins without a thread starts one that nobody knows.
LEMMA FreshNew ==
  ASSUME SessionsInv, HasFresh
  PROVE  /\ Fresh \in Threads /\ Fresh # NoThread /\ thread[Fresh].st = "unused" /\ thread[Fresh].holds = 0
         /\ \A s \in Slots : served[s].thread # Fresh
<1>1. Fresh \in Threads /\ thread[Fresh].st = "unused"
  BY FreshIs
<1>2. Blank /\ Started
  BY DEF SessionsInv
<1>3. Fresh # NoThread /\ thread[Fresh].holds = 0
  BY <1>1, <1>2, SessionsAssumption DEF Blank, Threads, NoThread
<1>4. \A s \in Slots : served[s].thread # Fresh
  BY <1>1, <1>2 DEF Started, Refers
<1> QED BY <1>1, <1>3, <1>4

\* The thread an agent begins with: the one it was given, live, or a new one.
Chosen(g, y) ==
  LET x == served[g].thread IN
  /\ y # NoThread
  /\ \/ y = x /\ thread[y].st = "live"
     \/ /\ y # x /\ thread[y].st = "unused" /\ thread[y].holds = 0
        /\ x # NoThread /\ thread[x].st = "live" => crossed' = crossed \cup {g}
  /\ crossed' = crossed \cup {g} \/ crossed' = crossed
  /\ served' = [served EXCEPT ![g] = [st |-> "running", thread |-> y]]
  /\ thread' = [thread EXCEPT ![y] = [st |-> "live", holds |-> @.holds + 1]]
  /\ sessions' = IF Exists(g) THEN [sessions EXCEPT ![g].thread = y] ELSE sessions

\* Every agent that begins chooses so.
LEMMA BeginsWith ==
  ASSUME SessionsInv, NEW g \in Slots, AgentBegins(g)
  PROVE  \E y \in Threads : Chosen(g, y)
<1>0. SessionTypes /\ Started /\ Blank
  BY DEF SessionsInv
<1>1. PICK x : x = served[g].thread
  OBVIOUS
<1>2. x \in 0..MaxThreads
  BY <1>0, <1>1 DEF SessionTypes, Agents
<1>3. CASE ~(x # NoThread /\ thread[x].st = "live")
  <2>1. /\ HasFresh /\ UNCHANGED crossed
        /\ served' = [served EXCEPT ![g] = [st |-> "running", thread |-> Fresh]]
        /\ thread' = [thread EXCEPT ![Fresh] = [st |-> "live", holds |-> @.holds + 1]]
        /\ sessions' = IF Exists(g) THEN [sessions EXCEPT ![g].thread = Fresh] ELSE sessions
    BY <1>1, <1>3 DEF AgentBegins
  <2> QED BY <2>1, <1>1, <1>3, FreshNew DEF Chosen
<1>4. CASE x # NoThread /\ thread[x].st = "live"
  <2>1. \/ /\ UNCHANGED crossed
           /\ served' = [served EXCEPT ![g] = [st |-> "running", thread |-> x]]
           /\ thread' = [thread EXCEPT ![x] = [st |-> "live", holds |-> @.holds + 1]]
           /\ sessions' = IF Exists(g) THEN [sessions EXCEPT ![g].thread = x] ELSE sessions
        \/ /\ HasFresh /\ crossed' = crossed \cup {g}
           /\ served' = [served EXCEPT ![g] = [st |-> "running", thread |-> Fresh]]
           /\ thread' = [thread EXCEPT ![Fresh] = [st |-> "live", holds |-> @.holds + 1]]
           /\ sessions' = IF Exists(g) THEN [sessions EXCEPT ![g].thread = Fresh] ELSE sessions
    BY <1>1, <1>4 DEF AgentBegins
  <2>2. x \in Threads
    BY <1>2, <1>4, SessionsAssumption DEF Threads, NoThread
  <2> QED BY <2>1, <2>2, <1>1, <1>4, FreshNew DEF Chosen
<1> QED BY <1>3, <1>4

\* A request that is not about to delete ends, and changes nothing.
LEMMA Leaves ==
  ASSUME SessionsInv, NEW c \in Callers, Leave(c), job[c].pc # "drop",
         UNCHANGED <<project, sessions, turnRow, served, thread, wanted, crossed>>
  PROVE  SessionsInv'
<1>0. /\ SessionTypes /\ Requests /\ Unused /\ Started /\ OneOwner /\ CopyApart /\ CopyAlone /\ ToClose /\ Blank
      /\ Agency /\ Memory /\ Alive /\ Untouched /\ Open /\ Copies /\ Closing /\ NoThreadLeft
      /\ Counted /\ BackendOfProject /\ Accepted /\ SettingsKept
  BY DEF SessionsInv
<1>u. UNCHANGED <<project, sessions, turnRow, served, thread, wanted, crossed>>
  OBVIOUS
<1>t. job' \in [Callers -> Jobs]
  BY <1>0, NoJobOK DEF SessionTypes, Leave
<1>f1. job'[c] = NoJob /\ \A d \in Callers : d # c => job'[d] = job[d]
  BY <1>0 DEF SessionTypes, Leave
<1>f2. job'[c].op = "none" /\ job'[c].pc = "idle" /\ job'[c].threads = {}
  BY <1>f1 DEF NoJob
<1>1. SessionTypes'
  BY <1>0, <1>t, <1>u DEF SessionTypes
<1>2. Unused' /\ Blank' /\ Agency' /\ Memory' /\ Alive' /\ NoThreadLeft' /\ BackendOfProject' /\ SettingsKept'
  BY <1>0, <1>u
     DEF Agency, Alive, BackendOfProject, Blank, Existing, Exists, Memory, NoThreadLeft, SettingsKept, Unused
<1>3. Requests'
  BY <1>0, <1>u, <1>f1, <1>f2 DEF Requests, Looks
<1>4. Started'
  BY <1>0, <1>u, <1>f1, <1>f2 DEF Started, Refers
<1>5. OneOwner'
  BY <1>0, <1>u, <1>f1, <1>f2 DEF OneOwner, Refers
<1>6. CopyApart'
  BY <1>0, <1>u, <1>f1, <1>f2 DEF CopyApart, Copied, Refers
<1>7. CopyAlone'
  BY <1>0, <1>u, <1>f1, <1>f2 DEF CopyAlone, Copied
<1>8. ToClose'
  BY <1>0, <1>u, <1>f1, <1>f2 DEF ToClose, Refers
<1>9. Untouched'
  BY <1>0, <1>u, <1>f1, <1>f2 DEF Untouched, Holds
<1>10. Open'
  BY <1>0, <1>u, <1>f1 DEF Open, Existing, Exists, About
<1>11. Copies'
  BY <1>0, <1>u, <1>f1, <1>f2 DEF Copies
<1>12. Closing'
  BY <1>0, <1>u, <1>f1, <1>f2 DEF Closing, Exists
<1>13. Counted'
  BY <1>0, <1>u, <1>f1, <1>f2 DEF Counted, Stands, Existing, Exists
<1>14. Accepted'
  BY <1>0, <1>u, <1>f1, <1>f2 DEF Accepted, Existing, Exists
<1> QED BY <1>1, <1>2, <1>3, <1>4, <1>5, <1>6, <1>7, <1>8, <1>9, <1>10, <1>11, <1>12, <1>13, <1>14 DEF SessionsInv

\* A request comes in that is about a session, and has read its row.
LEMMA Asks ==
  ASSUME SessionsInv, NEW c \in Callers, NEW op, NEW at, AskOf(c, op, at),
         <<op, at>> \in {<<"settings", "model">>, <<"settings", "auto">>, <<"turn", "insert">>,
           <<"fork", "check">>, <<"compact", "check">>}
  PROVE  SessionsInv'
<1>0. /\ SessionTypes /\ Requests /\ Unused /\ Started /\ OneOwner /\ CopyApart /\ CopyAlone /\ ToClose /\ Blank
      /\ Agency /\ Memory /\ Alive /\ Untouched /\ Open /\ Copies /\ Closing /\ NoThreadLeft
      /\ Counted /\ BackendOfProject /\ Accepted /\ SettingsKept
  BY DEF SessionsInv
<1>u. UNCHANGED <<project, sessions, turnRow, served, thread, wanted, crossed>>
  BY DEF AskOf
<1>s. PICK s \in Existing : Begin(c, op, at, s, sessions[s])
  BY DEF AskOf
<1>f0. s \in Existing /\ s \in Slots /\ sessions[s].row = "kept" /\ sessions[s] \in Rows
  BY <1>0 DEF SessionTypes, Existing, Exists
<1>f1. /\ job' = [job EXCEPT ![c] = [op |-> op, pc |-> at, slot |-> s, threads |-> {}, row |-> sessions[s]]]
       /\ job[c] = NoJob
  BY <1>s DEF Begin
<1>t. job' \in [Callers -> Jobs]
  <2>1. op \in Ops /\ at \in Points
    BY DEF Ops, Points
  <2>2. [op |-> op, pc |-> at, slot |-> s, threads |-> {}, row |-> sessions[s]] \in Jobs
    BY <2>1, <1>f0 DEF Jobs
  <2> QED BY <1>0, <1>f1, <2>2 DEF SessionTypes
<1>f2. /\ job'[c].op = op /\ job'[c].pc = at /\ job'[c].slot = s
       /\ job'[c].threads = {} /\ job'[c].row = sessions[s]
  BY <1>0, <1>f1 DEF SessionTypes
<1>f3. \A d \in Callers : d # c => job'[d] = job[d]
  BY <1>0, <1>f1 DEF SessionTypes
<1>f4. /\ job[c].pc # "drop"
       /\ \/ op = "settings" /\ at \in {"model", "auto"}
          \/ op = "turn" /\ at = "insert"
          \/ op \in {"fork", "compact"} /\ at = "check"
  BY <1>f1 DEF NoJob
<1>1. SessionTypes'
  BY <1>0, <1>t, <1>u DEF SessionTypes
<1>2. Unused' /\ Blank' /\ Agency' /\ Memory' /\ Alive' /\ NoThreadLeft' /\ BackendOfProject' /\ SettingsKept'
  BY <1>0, <1>u
     DEF Agency, Alive, BackendOfProject, Blank, Existing, Exists, Memory, NoThreadLeft, SettingsKept, Unused
<1>3. Requests'
  BY <1>0, <1>u, <1>s, <1>f0, <1>f1, <1>f2 DEF Requests, Looks
<1>4. Started'
  BY <1>0, <1>u, <1>s, <1>f0, <1>f1, <1>f2 DEF Started, Refers
<1>5. OneOwner'
  BY <1>0, <1>u, <1>s, <1>f0, <1>f1, <1>f2 DEF OneOwner, Refers
<1>6. CopyApart'
  BY <1>0, <1>u, <1>s, <1>f0, <1>f1, <1>f2 DEF CopyApart, Copied, Refers
<1>7. CopyAlone'
  BY <1>0, <1>u, <1>s, <1>f0, <1>f1, <1>f2 DEF CopyAlone, Copied
<1>8. ToClose'
  BY <1>0, <1>u, <1>s, <1>f0, <1>f1, <1>f2 DEF ToClose, Refers
<1>9. Untouched'
  BY <1>0, <1>u, <1>s, <1>f0, <1>f1, <1>f2 DEF Untouched, Holds
<1>10. Open'
  BY <1>0, <1>u, <1>s, <1>f0, <1>f1, <1>f2, <1>f4 DEF Open, Existing, Exists, About
<1>11. Copies'
  BY <1>0, <1>u, <1>s, <1>f0, <1>f1, <1>f2 DEF Copies, Memory
<1>12. Closing'
  BY <1>0, <1>u, <1>s, <1>f0, <1>f1, <1>f2 DEF Closing, Exists
<1>13. Counted'
  BY <1>0, <1>u, <1>s, <1>f0, <1>f1, <1>f2 DEF Counted, Stands, Existing, Exists
<1>14. Accepted'
  BY <1>0, <1>u, <1>s, <1>f0, <1>f1, <1>f2 DEF Accepted, Existing, Exists
<1> QED BY <1>1, <1>2, <1>3, <1>4, <1>5, <1>6, <1>7, <1>8, <1>9, <1>10, <1>11, <1>12, <1>13, <1>14 DEF SessionsInv

\* A request comes in to create a session.
LEMMA AsksToCreate ==
  ASSUME SessionsInv, NEW c \in Callers, AskCreate(c)
  PROVE  SessionsInv'
<1>0. /\ SessionTypes /\ Requests /\ Unused /\ Started /\ OneOwner /\ CopyApart /\ CopyAlone /\ ToClose /\ Blank
      /\ Agency /\ Memory /\ Alive /\ Untouched /\ Open /\ Copies /\ Closing /\ NoThreadLeft
      /\ Counted /\ BackendOfProject /\ Accepted /\ SettingsKept
  BY DEF SessionsInv
<1>u. UNCHANGED <<project, sessions, turnRow, served, thread, wanted, crossed>>
  BY DEF AskCreate
<1>s. PICK own \in BOOLEAN, s \in Slots : Begin(c, "create", "insert", s, NewRow(own))
  BY DEF AskCreate
<1>f0. /\ NewRow(own) \in Rows /\ NewRow(own).row = "none"
       /\ NewRow(own).thread = NoThread /\ NewRow(own).messages = 0
  <2>1. PICK b \in {"codex", "claude"} : b = IF own THEN Other(project.backend) ELSE project.backend
    BY <1>0, EitherBackend
  <2>2. NewRow(own) = [NoSession EXCEPT !.own = own, !.backend = b]
    BY <2>1 DEF NewRow
  <2> QED BY <2>2, NewRows
<1>f1. /\ job' = [job EXCEPT ![c] = [op |-> "create", pc |-> "insert", slot |-> s, threads |-> {},
            row |-> NewRow(own)]]
       /\ job[c] = NoJob
  BY <1>s DEF Begin
<1>t. job' \in [Callers -> Jobs]
  <2>1. [op |-> "create", pc |-> "insert", slot |-> s, threads |-> {}, row |-> NewRow(own)] \in Jobs
    BY <1>f0 DEF Jobs, Ops, Points
  <2> QED BY <1>0, <1>f1, <2>1 DEF SessionTypes
<1>f2. /\ job'[c].op = "create" /\ job'[c].pc = "insert" /\ job'[c].slot = s
       /\ job'[c].threads = {} /\ job'[c].row = NewRow(own)
  BY <1>0, <1>f1 DEF SessionTypes
<1>f3. \A d \in Callers : d # c => job'[d] = job[d]
  BY <1>0, <1>f1 DEF SessionTypes
<1>f4. job[c].pc # "drop"
  BY <1>f1 DEF NoJob
<1>1. SessionTypes'
  BY <1>0, <1>t, <1>u DEF SessionTypes
<1>2. Unused' /\ Blank' /\ Agency' /\ Memory' /\ Alive' /\ NoThreadLeft' /\ BackendOfProject' /\ SettingsKept'
  BY <1>0, <1>u
     DEF Agency, Alive, BackendOfProject, Blank, Existing, Exists, Memory, NoThreadLeft, SettingsKept, Unused
<1>3. Requests'
  BY <1>0, <1>u, <1>s, <1>f0, <1>f1, <1>f2 DEF Requests, Looks
<1>4. Started'
  BY <1>0, <1>u, <1>s, <1>f0, <1>f1, <1>f2 DEF Started, Refers
<1>5. OneOwner'
  BY <1>0, <1>u, <1>s, <1>f0, <1>f1, <1>f2 DEF OneOwner, Refers
<1>6. CopyApart'
  BY <1>0, <1>u, <1>s, <1>f0, <1>f1, <1>f2 DEF CopyApart, Copied, Refers
<1>7. CopyAlone'
  BY <1>0, <1>u, <1>s, <1>f0, <1>f1, <1>f2 DEF CopyAlone, Copied
<1>8. ToClose'
  BY <1>0, <1>u, <1>s, <1>f0, <1>f1, <1>f2 DEF ToClose, Refers
<1>9. Untouched'
  BY <1>0, <1>u, <1>s, <1>f0, <1>f1, <1>f2 DEF Untouched, Holds
<1>10. Open'
  BY <1>0, <1>u, <1>s, <1>f0, <1>f1, <1>f2, <1>f4 DEF Open, Existing, Exists, About
<1>11. Copies'
  BY <1>0, <1>u, <1>s, <1>f0, <1>f1, <1>f2 DEF Copies
<1>12. Closing'
  BY <1>0, <1>u, <1>s, <1>f0, <1>f1, <1>f2 DEF Closing, Exists
<1>13. Counted'
  BY <1>0, <1>u, <1>s, <1>f0, <1>f1, <1>f2 DEF Counted, Stands, Existing, Exists
<1>14. Accepted'
  BY <1>0, <1>u, <1>s, <1>f0, <1>f1, <1>f2 DEF Accepted, Existing, Exists
<1> QED BY <1>1, <1>2, <1>3, <1>4, <1>5, <1>6, <1>7, <1>8, <1>9, <1>10, <1>11, <1>12, <1>13, <1>14 DEF SessionsInv

\* A request comes in to change the backend of the project.
LEMMA AsksForBackend ==
  ASSUME SessionsInv, NEW c \in Callers, AskBackend(c)
  PROVE  SessionsInv'
<1>0. /\ SessionTypes /\ Requests /\ Unused /\ Started /\ OneOwner /\ CopyApart /\ CopyAlone /\ ToClose /\ Blank
      /\ Agency /\ Memory /\ Alive /\ Untouched /\ Open /\ Copies /\ Closing /\ NoThreadLeft
      /\ Counted /\ BackendOfProject /\ Accepted /\ SettingsKept
  BY DEF SessionsInv
<1>u. UNCHANGED <<project, sessions, turnRow, served, thread, wanted, crossed>>
  BY DEF AskBackend
<1>r. PICK r \in Rows : Begin(c, "backend", "count", NoJob.slot, r)
  <2>1. [NoSession EXCEPT !.backend = Other(project.backend)] \in Rows
    BY <1>0, ChangedRow, EitherBackend
  <2> QED BY <2>1 DEF AskBackend
<1>f1. /\ job' = [job EXCEPT ![c] = [op |-> "backend", pc |-> "count", slot |-> First, threads |-> {},
            row |-> r]]
       /\ job[c] = NoJob
  BY <1>r DEF Begin, NoJob
<1>t. job' \in [Callers -> Jobs]
  <2>1. [op |-> "backend", pc |-> "count", slot |-> First, threads |-> {}, row |-> r] \in Jobs
    BY <1>r DEF Jobs, Ops, Points
  <2> QED BY <1>0, <1>f1, <2>1 DEF SessionTypes
<1>f2. /\ job'[c].op = "backend" /\ job'[c].pc = "count"
       /\ job'[c].threads = {}
  BY <1>0, <1>f1 DEF SessionTypes
<1>f3. \A d \in Callers : d # c => job'[d] = job[d]
  BY <1>0, <1>f1 DEF SessionTypes
<1>f4. job[c].pc # "drop"
  BY <1>f1 DEF NoJob
<1>1. SessionTypes'
  BY <1>0, <1>t, <1>u DEF SessionTypes
<1>2. Unused' /\ Blank' /\ Agency' /\ Memory' /\ Alive' /\ NoThreadLeft' /\ BackendOfProject' /\ SettingsKept'
  BY <1>0, <1>u
     DEF Agency, Alive, BackendOfProject, Blank, Existing, Exists, Memory, NoThreadLeft, SettingsKept, Unused
<1>3. Requests'
  BY <1>0, <1>u, <1>f1, <1>f2 DEF Requests, Looks
<1>4. Started'
  BY <1>0, <1>u, <1>f1, <1>f2 DEF Started, Refers
<1>5. OneOwner'
  BY <1>0, <1>u, <1>f1, <1>f2 DEF OneOwner, Refers
<1>6. CopyApart'
  BY <1>0, <1>u, <1>f1, <1>f2 DEF CopyApart, Copied, Refers
<1>7. CopyAlone'
  BY <1>0, <1>u, <1>f1, <1>f2 DEF CopyAlone, Copied
<1>8. ToClose'
  BY <1>0, <1>u, <1>f1, <1>f2 DEF ToClose, Refers
<1>9. Untouched'
  BY <1>0, <1>u, <1>f1, <1>f2 DEF Untouched, Holds
<1>10. Open'
  BY <1>0, <1>u, <1>f1, <1>f2, <1>f4 DEF Open, Existing, Exists, About
<1>11. Copies'
  BY <1>0, <1>u, <1>f1, <1>f2 DEF Copies
<1>12. Closing'
  BY <1>0, <1>u, <1>f1, <1>f2 DEF Closing, Exists
<1>13. Counted'
  BY <1>0, <1>u, <1>f1, <1>f2 DEF Counted, Stands, Existing, Exists
<1>14. Accepted'
  BY <1>0, <1>u, <1>f1, <1>f2 DEF Accepted, Existing, Exists
<1> QED BY <1>1, <1>2, <1>3, <1>4, <1>5, <1>6, <1>7, <1>8, <1>9, <1>10, <1>11, <1>12, <1>13, <1>14 DEF SessionsInv

\* A request comes in to delete a session or the project.
LEMMA AsksToDelete ==
  ASSUME SessionsInv, NEW c \in Callers, NEW op \in {"delete", "deleteProject"}, AskDeletion(c, op)
  PROVE  SessionsInv'
<1>0. /\ SessionTypes /\ Requests /\ Unused /\ Started /\ OneOwner /\ CopyApart /\ CopyAlone /\ ToClose /\ Blank
      /\ Agency /\ Memory /\ Alive /\ Untouched /\ Open /\ Copies /\ Closing /\ NoThreadLeft
      /\ Counted /\ BackendOfProject /\ Accepted /\ SettingsKept
  BY DEF SessionsInv
<1>u. UNCHANGED <<project, sessions, turnRow, served, thread, wanted, crossed>>
  BY DEF AskDeletion
<1>s. PICK s : /\ s \in (IF op = "delete" THEN Existing ELSE {NoJob.slot})
               /\ Begin(c, op, "queued", s, NoSession)
  BY DEF AskDeletion
<1>f0. s \in Slots \cup {First} /\ (op = "delete" => s \in Slots /\ sessions[s].row = "kept")
  BY <1>s DEF NoJob, Existing, Exists
<1>f1. /\ job' = [job EXCEPT ![c] = [op |-> op, pc |-> "queued", slot |-> s, threads |-> {}, row |-> NoSession]]
       /\ job[c] = NoJob
  BY <1>s DEF Begin
<1>t. job' \in [Callers -> Jobs]
  <2>1. NoSession \in Rows
    BY SessionsAssumption DEF NoSession, NoThread, Rows
  <2>2. [op |-> op, pc |-> "queued", slot |-> s, threads |-> {}, row |-> NoSession] \in Jobs
    BY <2>1, <1>f0 DEF Jobs, Ops, Points
  <2> QED BY <1>0, <1>f1, <2>2 DEF SessionTypes
<1>f2. /\ job'[c].op = op /\ job'[c].pc = "queued" /\ job'[c].slot = s
       /\ job'[c].threads = {}
  BY <1>0, <1>f1 DEF SessionTypes
<1>f3. \A d \in Callers : d # c => job'[d] = job[d]
  BY <1>0, <1>f1 DEF SessionTypes
<1>f4. job[c].pc # "drop"
  BY <1>f1 DEF NoJob
<1>1. SessionTypes'
  BY <1>0, <1>t, <1>u DEF SessionTypes
<1>2. Unused' /\ Blank' /\ Agency' /\ Memory' /\ Alive' /\ NoThreadLeft' /\ BackendOfProject' /\ SettingsKept'
  BY <1>0, <1>u
     DEF Agency, Alive, BackendOfProject, Blank, Existing, Exists, Memory, NoThreadLeft, SettingsKept, Unused
<1>3. Requests'
  BY <1>0, <1>u, <1>s, <1>f0, <1>f1, <1>f2 DEF Requests, Looks
<1>4. Started'
  BY <1>0, <1>u, <1>s, <1>f0, <1>f1, <1>f2 DEF Started, Refers
<1>5. OneOwner'
  BY <1>0, <1>u, <1>s, <1>f0, <1>f1, <1>f2 DEF OneOwner, Refers
<1>6. CopyApart'
  BY <1>0, <1>u, <1>s, <1>f0, <1>f1, <1>f2 DEF CopyApart, Copied, Refers
<1>7. CopyAlone'
  BY <1>0, <1>u, <1>s, <1>f0, <1>f1, <1>f2 DEF CopyAlone, Copied
<1>8. ToClose'
  BY <1>0, <1>u, <1>s, <1>f0, <1>f1, <1>f2 DEF ToClose, Refers
<1>9. Untouched'
  BY <1>0, <1>u, <1>s, <1>f0, <1>f1, <1>f2 DEF Untouched, Holds
<1>10. Open'
  BY <1>0, <1>u, <1>s, <1>f0, <1>f1, <1>f2, <1>f4 DEF Open, Existing, Exists, About
<1>11. Copies'
  BY <1>0, <1>u, <1>s, <1>f0, <1>f1, <1>f2 DEF Copies
<1>12. Closing'
  BY <1>0, <1>u, <1>s, <1>f0, <1>f1, <1>f2 DEF Closing, Exists
<1>13. Counted'
  BY <1>0, <1>u, <1>s, <1>f0, <1>f1, <1>f2 DEF Counted, Stands, Existing, Exists
<1>14. Accepted'
  BY <1>0, <1>u, <1>s, <1>f0, <1>f1, <1>f2 DEF Accepted, Existing, Exists
<1> QED BY <1>1, <1>2, <1>3, <1>4, <1>5, <1>6, <1>7, <1>8, <1>9, <1>10, <1>11, <1>12, <1>13, <1>14 DEF SessionsInv

\* A request has counted no session of the project.
LEMMA Counts ==
  ASSUME SessionsInv, NEW c \in Callers, Stands(c, "backend", "count"), Existing = {}, Goto(c, "write"),
         UNCHANGED <<project, sessions, turnRow, served, thread, wanted, crossed>>
  PROVE  SessionsInv'
<1>0. /\ SessionTypes /\ Requests /\ Unused /\ Started /\ OneOwner /\ CopyApart /\ CopyAlone /\ ToClose /\ Blank
      /\ Agency /\ Memory /\ Alive /\ Untouched /\ Open /\ Copies /\ Closing /\ NoThreadLeft
      /\ Counted /\ BackendOfProject /\ Accepted /\ SettingsKept
  BY DEF SessionsInv
<1>u. UNCHANGED <<project, sessions, turnRow, served, thread, wanted, crossed>>
  OBVIOUS
<1>t. job' \in [Callers -> Jobs]
  BY <1>0, Goes DEF Points
<1>f1. /\ job'[c].pc = "write" /\ job'[c].op = job[c].op /\ job'[c].slot = job[c].slot
       /\ job'[c].threads = job[c].threads /\ job'[c].row = job[c].row
  BY <1>0, Goes DEF Points
<1>f2. \A d \in Callers : d # c => job'[d] = job[d]
  BY <1>0, Goes DEF Points
<1>f3. job[c].op = "backend" /\ job[c].pc = "count"
  BY DEF Stands
<1>f4. Existing = {}
  OBVIOUS
<1>1. SessionTypes'
  BY <1>0, <1>t, <1>u DEF SessionTypes
<1>2. Unused' /\ Blank' /\ Agency' /\ Memory' /\ Alive' /\ NoThreadLeft' /\ BackendOfProject' /\ SettingsKept'
  BY <1>0, <1>u
     DEF Agency, Alive, BackendOfProject, Blank, Existing, Exists, Memory, NoThreadLeft, SettingsKept, Unused
<1>3. Requests'
  BY <1>0, <1>u, <1>f1, <1>f2, <1>f3 DEF Requests, Looks
<1>4. Started'
  BY <1>0, <1>u, <1>f1, <1>f2, <1>f3 DEF Started, Refers
<1>5. OneOwner'
  BY <1>0, <1>u, <1>f1, <1>f2, <1>f3 DEF OneOwner, Refers
<1>6. CopyApart'
  BY <1>0, <1>u, <1>f1, <1>f2, <1>f3 DEF CopyApart, Copied, Refers
<1>7. CopyAlone'
  BY <1>0, <1>u, <1>f1, <1>f2 DEF CopyAlone, Copied
<1>8. ToClose'
  BY <1>0, <1>u, <1>f1, <1>f2, <1>f3 DEF ToClose, Refers
<1>9. Untouched'
  BY <1>0, <1>u, <1>f1, <1>f2 DEF Untouched, Holds
<1>10. Open'
  BY <1>0, <1>u, <1>f1, <1>f2 DEF Open, Existing, Exists, About
<1>11. Copies'
  BY <1>0, <1>u, <1>f1, <1>f2, <1>f3 DEF Copies
<1>12. Closing'
  BY <1>0, <1>u, <1>f1, <1>f2 DEF Closing, Exists
<1>13. Counted'
  BY <1>0, <1>u, <1>f1, <1>f2 DEF Counted, Stands, Existing, Exists
<1>14. Accepted'
  BY <1>0, <1>u, <1>f1, <1>f2 DEF Accepted, Existing, Exists
<1> QED BY <1>1, <1>2, <1>3, <1>4, <1>5, <1>6, <1>7, <1>8, <1>9, <1>10, <1>11, <1>12, <1>13, <1>14 DEF SessionsInv

\* A request has found no active turn.
LEMMA Passes ==
  ASSUME SessionsInv, NEW c \in Callers, job[c].pc = "check", Goto(c, "call"), About(c) \cap ActiveTurns = {},
         job[c].op \in {"fork", "compact"} => job[c].row.thread # NoThread,
         UNCHANGED <<project, sessions, turnRow, served, thread, wanted, crossed>>
  PROVE  SessionsInv'
<1>0. /\ SessionTypes /\ Requests /\ Unused /\ Started /\ OneOwner /\ CopyApart /\ CopyAlone /\ ToClose /\ Blank
      /\ Agency /\ Memory /\ Alive /\ Untouched /\ Open /\ Copies /\ Closing /\ NoThreadLeft
      /\ Counted /\ BackendOfProject /\ Accepted /\ SettingsKept
  BY DEF SessionsInv
<1>u. UNCHANGED <<project, sessions, turnRow, served, thread, wanted, crossed>>
  OBVIOUS
<1>t. job' \in [Callers -> Jobs]
  BY <1>0, Goes DEF Points
<1>f1. /\ job'[c].pc = "call" /\ job'[c].op = job[c].op /\ job'[c].slot = job[c].slot
       /\ job'[c].threads = job[c].threads /\ job'[c].row = job[c].row
  BY <1>0, Goes DEF Points
<1>f2. \A d \in Callers : d # c => job'[d] = job[d]
  BY <1>0, Goes DEF Points
<1>f3. job[c].pc = "check" /\ (job[c].op = "fork" => job[c].row.thread # NoThread)
  OBVIOUS
<1>f4. \A s \in Slots \ crossed :
         /\ job[c].op \in {"fork", "compact", "delete"} /\ job[c].slot = s => served[s] = NoAgent
         /\ job[c].op = "deleteProject" => served[s] = NoAgent
  BY <1>0 DEF About, ActiveTurns, Agency, Alive, Existing, Exists
<1>1. SessionTypes'
  BY <1>0, <1>t, <1>u DEF SessionTypes
<1>2. Unused' /\ Blank' /\ Agency' /\ Memory' /\ Alive' /\ NoThreadLeft' /\ BackendOfProject' /\ SettingsKept'
  BY <1>0, <1>u
     DEF Agency, Alive, BackendOfProject, Blank, Existing, Exists, Memory, NoThreadLeft, SettingsKept, Unused
<1>3. Requests'
  BY <1>0, <1>u, <1>f1, <1>f2 DEF Requests, Looks
<1>4. Started'
  BY <1>0, <1>u, <1>f1, <1>f2 DEF Started, Refers
<1>5. OneOwner'
  BY <1>0, <1>u, <1>f1, <1>f2 DEF OneOwner, Refers
<1>6. CopyApart'
  BY <1>0, <1>u, <1>f1, <1>f2 DEF CopyApart, Copied, Refers
<1>7. CopyAlone'
  BY <1>0, <1>u, <1>f1, <1>f2 DEF CopyAlone, Copied
<1>8. ToClose'
  BY <1>0, <1>u, <1>f1, <1>f2 DEF ToClose, Refers
<1>9. Untouched'
  BY <1>0, <1>u, <1>f1, <1>f2, <1>f4 DEF Untouched, Holds
<1>10. Open'
  BY <1>0, <1>u, <1>f1, <1>f2 DEF Open, Existing, Exists, About
<1>11. Copies'
  BY <1>0, <1>u, <1>f1, <1>f2, <1>f4 DEF Copies, Requests
<1>12. Closing'
  BY <1>0, <1>u, <1>f1, <1>f2, <1>f4 DEF Closing, Exists
<1>13. Counted'
  BY <1>0, <1>u, <1>f1, <1>f2 DEF Counted, Stands, Existing, Exists
<1>14. Accepted'
  BY <1>0, <1>u, <1>f1, <1>f2 DEF Accepted, Existing, Exists
<1> QED BY <1>1, <1>2, <1>3, <1>4, <1>5, <1>6, <1>7, <1>8, <1>9, <1>10, <1>11, <1>12, <1>13, <1>14 DEF SessionsInv

\* A thread is being compacted.
LEMMA Compacts ==
  ASSUME SessionsInv, NEW c \in Callers, Stands(c, "compact", "call"), Goto(c, "compacting"),
         UNCHANGED <<project, sessions, turnRow, served, thread, wanted, crossed>>
  PROVE  SessionsInv'
<1>0. /\ SessionTypes /\ Requests /\ Unused /\ Started /\ OneOwner /\ CopyApart /\ CopyAlone /\ ToClose /\ Blank
      /\ Agency /\ Memory /\ Alive /\ Untouched /\ Open /\ Copies /\ Closing /\ NoThreadLeft
      /\ Counted /\ BackendOfProject /\ Accepted /\ SettingsKept
  BY DEF SessionsInv
<1>u. UNCHANGED <<project, sessions, turnRow, served, thread, wanted, crossed>>
  OBVIOUS
<1>t. job' \in [Callers -> Jobs]
  BY <1>0, Goes DEF Points
<1>f1. /\ job'[c].pc = "compacting" /\ job'[c].op = job[c].op /\ job'[c].slot = job[c].slot
       /\ job'[c].threads = job[c].threads /\ job'[c].row = job[c].row
  BY <1>0, Goes DEF Points
<1>f2. \A d \in Callers : d # c => job'[d] = job[d]
  BY <1>0, Goes DEF Points
<1>f3. job[c].op = "compact" /\ job[c].pc = "call"
  BY DEF Stands
<1>1. SessionTypes'
  BY <1>0, <1>t, <1>u DEF SessionTypes
<1>2. Unused' /\ Blank' /\ Agency' /\ Memory' /\ Alive' /\ NoThreadLeft' /\ BackendOfProject' /\ SettingsKept'
  BY <1>0, <1>u
     DEF Agency, Alive, BackendOfProject, Blank, Existing, Exists, Memory, NoThreadLeft, SettingsKept, Unused
<1>3. Requests'
  BY <1>0, <1>u, <1>f1, <1>f2, <1>f3 DEF Requests, Looks
<1>4. Started'
  BY <1>0, <1>u, <1>f1, <1>f2, <1>f3 DEF Started, Refers
<1>5. OneOwner'
  BY <1>0, <1>u, <1>f1, <1>f2, <1>f3 DEF OneOwner, Refers
<1>6. CopyApart'
  BY <1>0, <1>u, <1>f1, <1>f2, <1>f3 DEF CopyApart, Copied, Refers
<1>7. CopyAlone'
  BY <1>0, <1>u, <1>f1, <1>f2 DEF CopyAlone, Copied
<1>8. ToClose'
  BY <1>0, <1>u, <1>f1, <1>f2, <1>f3 DEF ToClose, Refers
<1>9. Untouched'
  BY <1>0, <1>u, <1>f1, <1>f2, <1>f3 DEF Untouched, Holds
<1>10. Open'
  BY <1>0, <1>u, <1>f1, <1>f2, <1>f3 DEF Open, Existing, Exists, About
<1>11. Copies'
  BY <1>0, <1>u, <1>f1, <1>f2, <1>f3 DEF Copies
<1>12. Closing'
  BY <1>0, <1>u, <1>f1, <1>f2 DEF Closing, Exists
<1>13. Counted'
  BY <1>0, <1>u, <1>f1, <1>f2 DEF Counted, Stands, Existing, Exists
<1>14. Accepted'
  BY <1>0, <1>u, <1>f1, <1>f2 DEF Accepted, Existing, Exists
<1> QED BY <1>1, <1>2, <1>3, <1>4, <1>5, <1>6, <1>7, <1>8, <1>9, <1>10, <1>11, <1>12, <1>13, <1>14 DEF SessionsInv

\* A deletion has read the thread of the session.
LEMMA ReadsToDelete ==
  ASSUME SessionsInv, NEW c \in Callers, job[c].pc = "queued",
         job' = [job EXCEPT ![c] = [@ EXCEPT !.pc = "check",
                  !.threads = IF job[c].op = "delete" THEN {sessions[job[c].slot].thread} \ {NoThread} ELSE {}]],
         UNCHANGED <<project, sessions, turnRow, served, thread, wanted, crossed>>
  PROVE  SessionsInv'
<1>0. /\ SessionTypes /\ Requests /\ Unused /\ Started /\ OneOwner /\ CopyApart /\ CopyAlone /\ ToClose /\ Blank
      /\ Agency /\ Memory /\ Alive /\ Untouched /\ Open /\ Copies /\ Closing /\ NoThreadLeft
      /\ Counted /\ BackendOfProject /\ Accepted /\ SettingsKept
  BY DEF SessionsInv
<1>u. UNCHANGED <<project, sessions, turnRow, served, thread, wanted, crossed>>
  OBVIOUS
<1>x. PICK x : x = IF job[c].op = "delete" THEN {sessions[job[c].slot].thread} \ {NoThread} ELSE {}
  OBVIOUS
<1>f1. x \in SUBSET Threads
  <2>1. CASE job[c].op = "delete"
    <3>1. sessions[job[c].slot] \in Rows
      BY <1>0, <2>1 DEF Requests, SessionTypes
    <3>2. sessions[job[c].slot].thread \in 0..MaxThreads
      BY <3>1 DEF Rows
    <3> QED BY <1>x, <2>1, <3>2, SessionsAssumption DEF Threads, NoThread
  <2> QED BY <1>x, <2>1
<1>f2. job' = [job EXCEPT ![c] = [job[c] EXCEPT !.pc = "check", !.threads = x]]
  BY <1>x
<1>t. job' \in [Callers -> Jobs]
  BY <1>0, <1>f1, <1>f2, Learns DEF Points
<1>f3. /\ job'[c].pc = "check" /\ job'[c].op = job[c].op /\ job'[c].slot = job[c].slot
       /\ job'[c].threads = x /\ job'[c].row = job[c].row
  BY <1>0, <1>f1, <1>f2, Learns DEF Points
<1>f4. \A d \in Callers : d # c => job'[d] = job[d]
  BY <1>0, <1>f1 DEF Points
<1>f5. job[c].pc = "queued"
  OBVIOUS
<1>r. \A s \in Slots, u \in Threads : Refers(s, u)' <=> Refers(s, u)
  BY <1>u, <1>f3 DEF Refers
<1>f6. \A u \in x : \E s \in Slots : Refers(s, u) /\ (job[c].op = "delete" => s = job[c].slot)
  BY <1>0, <1>x DEF Requests, Refers
<1>1. SessionTypes'
  BY <1>0, <1>t, <1>u DEF SessionTypes
<1>2. Unused' /\ Blank' /\ Agency' /\ Memory' /\ Alive' /\ NoThreadLeft' /\ BackendOfProject' /\ SettingsKept'
  BY <1>0, <1>u
     DEF Agency, Alive, BackendOfProject, Blank, Existing, Exists, Memory, NoThreadLeft, SettingsKept, Unused
<1>3. Requests'
  BY <1>0, <1>u, <1>x, <1>f1, <1>f2, <1>f3, <1>f4 DEF Requests, Looks
<1>4. Started'
  BY <1>0, <1>u, <1>x, <1>f1, <1>f2, <1>f3, <1>f4 DEF Started, Refers
<1>5. OneOwner'
  BY <1>0, <1>u, <1>x, <1>f1, <1>f2, <1>f3, <1>f4 DEF OneOwner, Refers
<1>6. CopyApart'
  BY <1>0, <1>u, <1>x, <1>f1, <1>f2, <1>f3, <1>f4 DEF CopyApart, Copied, Refers
<1>7. CopyAlone'
  BY <1>0, <1>f1, <1>f3, <1>f6 DEF CopyAlone, CopyApart, Copied
<1>8. ToClose'
  BY <1>0, <1>u, <1>r, <1>f1, <1>f3, <1>f4, <1>f6 DEF ToClose, Started, OneOwner
<1>9. Untouched'
  BY <1>0, <1>u, <1>x, <1>f1, <1>f2, <1>f3, <1>f4 DEF Untouched, Holds
<1>10. Open'
  BY <1>0, <1>u, <1>x, <1>f1, <1>f2, <1>f3, <1>f4 DEF Open, Existing, Exists, About
<1>11. Copies'
  BY <1>0, <1>u, <1>x, <1>f1, <1>f2, <1>f3, <1>f4 DEF Copies
<1>12. Closing'
  BY <1>0, <1>u, <1>x, <1>f1, <1>f2, <1>f3, <1>f4 DEF Closing, Exists
<1>13. Counted'
  BY <1>0, <1>u, <1>x, <1>f1, <1>f2, <1>f3, <1>f4 DEF Counted, Stands, Existing, Exists
<1>14. Accepted'
  BY <1>0, <1>u, <1>x, <1>f1, <1>f2, <1>f3, <1>f4 DEF Accepted, Existing, Exists
<1> QED BY <1>1, <1>2, <1>3, <1>4, <1>5, <1>6, <1>7, <1>8, <1>9, <1>10, <1>11, <1>12, <1>13, <1>14 DEF SessionsInv

\* The deletion of a project has read the threads of its sessions.
LEMMA Lists ==
  ASSUME SessionsInv, NEW c \in Callers, ListForDelete(c)
  PROVE  SessionsInv'
<1>0. /\ SessionTypes /\ Requests /\ Unused /\ Started /\ OneOwner /\ CopyApart /\ CopyAlone /\ ToClose /\ Blank
      /\ Agency /\ Memory /\ Alive /\ Untouched /\ Open /\ Copies /\ Closing /\ NoThreadLeft
      /\ Counted /\ BackendOfProject /\ Accepted /\ SettingsKept
  BY DEF SessionsInv
<1>u. UNCHANGED <<project, sessions, turnRow, served, thread, wanted, crossed>>
  BY DEF ListForDelete
<1>x. PICK x : x = {sessions[s].thread : s \in Existing} \ {NoThread}
  OBVIOUS
<1>f1. x \in SUBSET Threads
  <2>1. \A s \in Existing : sessions[s].thread \in 0..MaxThreads
    BY <1>0 DEF SessionTypes, Existing, Rows
  <2> QED BY <1>x, <2>1, SessionsAssumption DEF Threads, NoThread
<1>f2. job' = [job EXCEPT ![c] = [job[c] EXCEPT !.pc = "close", !.threads = x]]
  BY <1>x DEF ListForDelete
<1>t. job' \in [Callers -> Jobs]
  BY <1>0, <1>f1, <1>f2, Learns DEF Points
<1>f3. /\ job'[c].pc = "close" /\ job'[c].op = job[c].op /\ job'[c].slot = job[c].slot
       /\ job'[c].threads = x /\ job'[c].row = job[c].row
  BY <1>0, <1>f1, <1>f2, Learns DEF Points
<1>f4. \A d \in Callers : d # c => job'[d] = job[d]
  BY <1>0, <1>f1, <1>f2 DEF Points
<1>f5. job[c].op = "deleteProject" /\ job[c].pc = "call"
  BY DEF ListForDelete, Stands
<1>r. \A s \in Slots, u \in Threads : Refers(s, u)' <=> Refers(s, u)
  BY <1>u, <1>f3, <1>f4, <1>f5 DEF Refers
<1>f6. \A u \in x : \E s \in Slots : Refers(s, u)
  BY <1>0, <1>x DEF Refers, Existing
<1>1. SessionTypes'
  BY <1>0, <1>t, <1>u DEF SessionTypes
<1>2. Unused' /\ Blank' /\ Agency' /\ Memory' /\ Alive' /\ NoThreadLeft' /\ BackendOfProject' /\ SettingsKept'
  BY <1>0, <1>u
     DEF Agency, Alive, BackendOfProject, Blank, Existing, Exists, Memory, NoThreadLeft, SettingsKept, Unused
<1>3. Requests'
  BY <1>0, <1>u, <1>x, <1>f1, <1>f2, <1>f3, <1>f4, <1>f5 DEF Requests, Looks
<1>4. Started'
  BY <1>0, <1>u, <1>x, <1>f1, <1>f2, <1>f3, <1>f4, <1>f5 DEF Started, Refers
<1>5. OneOwner'
  BY <1>0, <1>u, <1>x, <1>f1, <1>f2, <1>f3, <1>f4, <1>f5 DEF OneOwner, Refers
<1>6. CopyApart'
  BY <1>0, <1>u, <1>x, <1>f1, <1>f2, <1>f3, <1>f4, <1>f5 DEF CopyApart, Copied, Refers
<1>7. CopyAlone'
  BY <1>0, <1>f1, <1>f3, <1>f4, <1>f6 DEF CopyAlone, CopyApart, Copied
<1>8. ToClose'
  BY <1>0, <1>u, <1>r, <1>f1, <1>f3, <1>f4, <1>f5, <1>f6 DEF ToClose, Started, OneOwner
<1>9. Untouched'
  BY <1>0, <1>u, <1>x, <1>f1, <1>f2, <1>f3, <1>f4, <1>f5 DEF Untouched, Holds
<1>10. Open'
  BY <1>0, <1>u, <1>x, <1>f1, <1>f2, <1>f3, <1>f4, <1>f5 DEF Open, Existing, Exists, About
<1>11. Copies'
  BY <1>0, <1>u, <1>x, <1>f1, <1>f2, <1>f3, <1>f4, <1>f5 DEF Copies
<1>12. Closing'
  BY <1>0, <1>u, <1>x, <1>f1, <1>f2, <1>f3, <1>f4 DEF Closing, Exists, Existing
<1>13. Counted'
  BY <1>0, <1>u, <1>x, <1>f1, <1>f2, <1>f3, <1>f4 DEF Counted, Stands, Existing, Exists
<1>14. Accepted'
  BY <1>0, <1>u, <1>x, <1>f1, <1>f2, <1>f3, <1>f4 DEF Accepted, Existing, Exists
<1> QED BY <1>1, <1>2, <1>3, <1>4, <1>5, <1>6, <1>7, <1>8, <1>9, <1>10, <1>11, <1>12, <1>13, <1>14 DEF SessionsInv

\* A session is created, by a request of its own or as a fork.
LEMMA Inserts ==
  ASSUME SessionsInv, NEW c \in Callers, job[c].op \in {"create", "fork"}, job[c].pc = "insert",
           Insert(c, job[c].row)
  PROVE  SessionsInv'
<1>0. /\ SessionTypes /\ Requests /\ Unused /\ Started /\ OneOwner /\ CopyApart /\ CopyAlone /\ ToClose /\ Blank
      /\ Agency /\ Memory /\ Alive /\ Untouched /\ Open /\ Copies /\ Closing /\ NoThreadLeft
      /\ Counted /\ BackendOfProject /\ Accepted /\ SettingsKept
  BY DEF SessionsInv
<1>u. UNCHANGED <<project, turnRow, served, thread>>
  BY DEF Insert
<1>g. PICK g \in Slots : g = job[c].slot
  BY <1>0 DEF Requests
<1>x. PICK x \in Rows : x = job[c].row
  BY <1>0 DEF SessionTypes, Jobs
<1>f1. /\ [x EXCEPT !.row = "kept"] \in Rows
       /\ [x EXCEPT !.row = "kept"].row = "kept" /\ [x EXCEPT !.row = "kept"].thread = x.thread
       /\ [x EXCEPT !.row = "kept"].messages = x.messages /\ [x EXCEPT !.row = "kept"].model = x.model
       /\ [x EXCEPT !.row = "kept"].auto = x.auto /\ [x EXCEPT !.row = "kept"].own = x.own
       /\ [x EXCEPT !.row = "kept"].backend = x.backend
  BY DEF Rows
<1>y. PICK y \in Rows : y = [x EXCEPT !.row = "kept"]
  BY <1>f1
<1>f2. /\ y.row = "kept" /\ y.thread = x.thread /\ y.messages = x.messages /\ y.model = x.model /\ y.auto = x.auto
       /\ y.own = x.own /\ y.backend = x.backend
  BY <1>f1, <1>y
<1>f3. sessions' = [sessions EXCEPT ![g] = y] /\ wanted' = [wanted EXCEPT ![g] = <<x.model, x.auto>>]
  BY <1>g, <1>x, <1>y DEF Insert
<1>f4. sessions'[g] = y /\ \A s \in Slots : s # g => sessions'[s] = sessions[s]
  BY <1>0, <1>f3 DEF SessionTypes
<1>f5. wanted'[g] = <<x.model, x.auto>> /\ \A s \in Slots : s # g => wanted'[s] = wanted[s]
  BY <1>0, <1>f3 DEF SessionTypes
<1>f6. /\ crossed \subseteq crossed' /\ crossed' \subseteq crossed \cup {g}
       /\ g \notin crossed' => \A d \in Callers : /\ ~(job[d].op = "backend" /\ job[d].pc = "write")
                                                     /\ ~(job[d].op = "deleteProject"
                                                          /\ job[d].pc \in {"close", "drop"})
  BY <1>g, <1>x DEF Insert, Stands
<1>r7. g \notin crossed' => x.own \/ x.backend = project.backend
  BY <1>g, <1>x DEF Insert
<1>f7. job' = [job EXCEPT ![c] = NoJob]
  BY DEF Insert, Leave
<1>t. job' \in [Callers -> Jobs]
  BY <1>0, <1>f7, NoJobOK DEF SessionTypes
<1>f8. job'[c].op = "none" /\ job'[c].pc = "idle" /\ job'[c].threads = {}
  BY <1>0, <1>f7 DEF SessionTypes, NoJob
<1>f9. \A d \in Callers : d # c => job'[d] = job[d]
  BY <1>0, <1>f7 DEF SessionTypes
<1>f10. sessions[g].row = "none" /\ sessions[g].thread = NoThread /\ served[g] = NoAgent
  BY <1>0, <1>g DEF Insert, Unused
<1>f11. /\ job[c].pc = "insert" /\ (job[c].op = "create" \/ job[c].op = "fork")
        /\ job[c].op = "create" => x.thread = NoThread /\ x.messages = 0
  BY <1>0, <1>x DEF Requests
<1>r1. \A s \in Slots, u \in Threads : Refers(s, u)' => Refers(s, u) \/ (s = g /\ u = x.thread)
  BY <1>u, <1>f2, <1>f4, <1>f8, <1>f9 DEF Refers
<1>r2. x.thread \in Threads => Copied(c, x.thread)
  <2>1. x.thread # NoThread => job[c].op = "fork"
    BY <1>f11
  <2> QED BY <2>1, <1>x, <1>f11 DEF Copied, Threads, NoThread
<1>r3. g \notin crossed => IF x.thread = NoThread THEN x.messages = 0 ELSE thread[x.thread].holds = x.messages
  BY <1>0, <1>g, <1>x, <1>f11 DEF Copies
<1>r4. x.thread # NoThread => thread[x.thread].st = "live"
  <2>1. x.thread # NoThread => x.thread \in Threads
    BY SessionsAssumption DEF Rows, Threads, NoThread
  <2> QED BY <1>0, <1>r2, <2>1 DEF CopyApart
<1>r5. \A d \in Callers : Looks(d) => job[d].slot # g
  BY <1>0, <1>f10 DEF Requests
<1>r6. Existing' \subseteq Existing \cup {g}
  BY <1>f4 DEF Existing, Exists
<1>1. SessionTypes'
  BY <1>0, <1>u, <1>t, <1>f3, <1>f6, <1>g DEF SessionTypes, Rows
<1>2. Blank'
  BY <1>0, <1>u DEF Blank
<1>3. Requests'
  BY <1>0, <1>u, <1>g, <1>x, <1>f1, <1>y, <1>f2, <1>f3, <1>f4, <1>f5, <1>f6, <1>f7, <1>f8, <1>f9
     DEF Requests, Looks
<1>4. Unused'
  BY <1>0, <1>u, <1>g, <1>x, <1>f1, <1>y, <1>f2, <1>f3, <1>f4, <1>f5, <1>f6, <1>f7, <1>f8, <1>f9 DEF Unused
<1>5. Started'
  BY <1>0, <1>u, <1>r1, <1>r2 DEF Started, CopyApart
<1>6. OneOwner'
  BY <1>0, <1>u, <1>r1, <1>r2 DEF OneOwner, CopyApart
<1>7. CopyApart'
  BY <1>0, <1>u, <1>r1, <1>r2, <1>f8, <1>f9 DEF CopyApart, CopyAlone, Copied
<1>8. CopyAlone'
  BY <1>0, <1>u, <1>g, <1>x, <1>f1, <1>y, <1>f2, <1>f3, <1>f4, <1>f5, <1>f6, <1>f7, <1>f8, <1>f9
     DEF CopyAlone, Copied
<1>9. ToClose'
  BY <1>0, <1>u, <1>r1, <1>r2, <1>f8, <1>f9 DEF ToClose, CopyAlone
<1>10. Agency'
  BY <1>0, <1>u, <1>g, <1>x, <1>f1, <1>y, <1>f2, <1>f3, <1>f4, <1>f5, <1>f6, <1>f7, <1>f8, <1>f9, <1>f10
     DEF Agency, Exists
<1>11. Memory'
  BY <1>0, <1>u, <1>f2, <1>f4, <1>f6, <1>f10, <1>r3 DEF Memory, Existing, Exists, NoAgent
<1>12. Alive'
  BY <1>0, <1>u, <1>g, <1>x, <1>f1, <1>y, <1>f2, <1>f3, <1>f4, <1>f5, <1>f6, <1>f7, <1>f8, <1>f9 DEF Alive, Exists
<1>13. Untouched'
  BY <1>0, <1>u, <1>g, <1>x, <1>f1, <1>y, <1>f2, <1>f3, <1>f4, <1>f5, <1>f6, <1>f7, <1>f8, <1>f9
     DEF Untouched, Holds
<1>14. Open'
  BY <1>0, <1>u, <1>f2, <1>f4, <1>f6, <1>f8, <1>f9, <1>r4 DEF Open, Existing, Exists, About
<1>15. Copies'
  BY <1>0, <1>u, <1>g, <1>x, <1>f1, <1>y, <1>f2, <1>f3, <1>f4, <1>f5, <1>f6, <1>f7, <1>f8, <1>f9 DEF Copies
<1>16. Closing'
  BY <1>0, <1>u, <1>f4, <1>f6, <1>f8, <1>f9, <1>r5 DEF Closing, Exists, Looks
<1>17. NoThreadLeft'
  BY <1>0, <1>u, <1>g, <1>x, <1>f1, <1>y, <1>f2, <1>f3, <1>f4, <1>f5, <1>f6, <1>f7, <1>f8, <1>f9 DEF NoThreadLeft
<1>18. Counted'
  BY <1>0, <1>f6, <1>f8, <1>f9, <1>r6 DEF Counted, Stands
<1>19. BackendOfProject'
  BY <1>0, <1>u, <1>f2, <1>f4, <1>f6, <1>r7 DEF BackendOfProject, Existing, Exists
<1>20. Accepted'
  BY <1>0, <1>f4, <1>f6, <1>f8, <1>f9, <1>r5 DEF Accepted, Existing, Exists, Looks
<1>21. SettingsKept'
  BY <1>0, <1>u, <1>g, <1>x, <1>f1, <1>y, <1>f2, <1>f3, <1>f4, <1>f5, <1>f6, <1>f7, <1>f8, <1>f9, <1>f10
     DEF SettingsKept, Existing, Exists
<1> QED BY <1>1, <1>2, <1>3, <1>4, <1>5, <1>6, <1>7, <1>8, <1>9, <1>10, <1>11, <1>12, <1>13, <1>14, <1>15, <1>16,
        <1>17, <1>18, <1>19, <1>20, <1>21 DEF SessionsInv

\* The backend of the project is changed.
LEMMA WritesBackend ==
  ASSUME SessionsInv, NEW c \in Callers, WriteBackend(c)
  PROVE  SessionsInv'
<1>0. /\ SessionTypes /\ Requests /\ Unused /\ Started /\ OneOwner /\ CopyApart /\ CopyAlone /\ ToClose /\ Blank
      /\ Agency /\ Memory /\ Alive /\ Untouched /\ Open /\ Copies /\ Closing /\ NoThreadLeft
      /\ Counted /\ BackendOfProject /\ Accepted /\ SettingsKept
  BY DEF SessionsInv
<1>u. UNCHANGED <<sessions, turnRow, served, thread, wanted, crossed>>
  BY DEF WriteBackend
<1>t. job' \in [Callers -> Jobs]
  BY <1>0, NoJobOK DEF SessionTypes, WriteBackend, Leave
<1>f1. job'[c] = NoJob /\ \A d \in Callers : d # c => job'[d] = job[d]
  BY <1>0 DEF SessionTypes, WriteBackend, Leave
<1>f2. job'[c].op = "none" /\ job'[c].pc = "idle" /\ job'[c].threads = {}
  BY <1>f1 DEF NoJob
<1>f3. job[c].op = "backend" /\ job[c].pc = "write"
  BY DEF WriteBackend, Stands
<1>r1. Existing \subseteq crossed
  BY <1>0, <1>f3 DEF Counted, Stands
<1>t1. project' \in Projects
  <2>1. job[c].row.backend \in {"codex", "claude"}
    BY <1>0 DEF SessionTypes, Jobs, Rows
  <2> QED BY <2>1, <1>0 DEF WriteBackend, SessionTypes, Projects
<1>1. SessionTypes'
  BY <1>0, <1>t, <1>t1, <1>u DEF SessionTypes
<1>2. Unused' /\ Blank' /\ Agency' /\ Memory' /\ Alive' /\ NoThreadLeft' /\ SettingsKept'
  BY <1>0, <1>u DEF Agency, Alive, Blank, Existing, Exists, Memory, NoThreadLeft, SettingsKept, Unused
<1>3. Requests'
  BY <1>0, <1>u, <1>f1, <1>f2 DEF Requests, Looks
<1>4. Started'
  BY <1>0, <1>u, <1>f1, <1>f2 DEF Started, Refers
<1>5. OneOwner'
  BY <1>0, <1>u, <1>f1, <1>f2 DEF OneOwner, Refers
<1>6. CopyApart'
  BY <1>0, <1>u, <1>f1, <1>f2 DEF CopyApart, Copied, Refers
<1>7. CopyAlone'
  BY <1>0, <1>u, <1>f1, <1>f2 DEF CopyAlone, Copied
<1>8. ToClose'
  BY <1>0, <1>u, <1>f1, <1>f2 DEF ToClose, Refers
<1>9. Untouched'
  BY <1>0, <1>u, <1>f1, <1>f2 DEF Untouched, Holds
<1>10. Open'
  BY <1>0, <1>u, <1>f1, <1>f3 DEF Open, Existing, Exists, About
<1>11. Copies'
  BY <1>0, <1>u, <1>f1, <1>f2 DEF Copies
<1>12. Closing'
  BY <1>0, <1>u, <1>f1, <1>f2 DEF Closing, Exists
<1>13. Counted'
  BY <1>0, <1>u, <1>f1, <1>f2 DEF Counted, Stands, Existing, Exists
<1>14. BackendOfProject'
  BY <1>u, <1>r1 DEF BackendOfProject, Existing, Exists
<1>15. Accepted'
  BY <1>0, <1>u, <1>f1, <1>f2 DEF Accepted, Existing, Exists
<1> QED BY <1>1, <1>2, <1>3, <1>4, <1>5, <1>6, <1>7, <1>8, <1>9, <1>10, <1>11, <1>12, <1>13, <1>14, <1>15
        DEF SessionsInv

\* The settings of a session are written.
LEMMA WritesSettings ==
  ASSUME SessionsInv, NEW c \in Callers, WriteSettings(c)
  PROVE  SessionsInv'
<1>0. /\ SessionTypes /\ Requests /\ Unused /\ Started /\ OneOwner /\ CopyApart /\ CopyAlone /\ ToClose /\ Blank
      /\ Agency /\ Memory /\ Alive /\ Untouched /\ Open /\ Copies /\ Closing /\ NoThreadLeft
      /\ Counted /\ BackendOfProject /\ Accepted /\ SettingsKept
  BY DEF SessionsInv
<1>u. UNCHANGED <<project, turnRow, served, thread>>
  BY DEF WriteSettings
<1>g. PICK g \in Slots : g = job[c].slot
  BY <1>0 DEF Requests, WriteSettings
<1>x. PICK x \in Rows : x = job[c].row
  BY <1>0 DEF SessionTypes, Jobs
<1>f1. PICK model \in 0..1, auto \in 0..1 :
         /\ model = IF job[c].pc = "model" THEN 1 - x.model ELSE x.model
         /\ auto = IF job[c].pc = "auto" THEN 1 - x.auto ELSE x.auto
  <2>1. x.model \in 0..1 /\ x.auto \in 0..1
    BY DEF Rows
  <2> QED BY <2>1
<1>f2. job[c].op = "settings" /\ (job[c].pc = "model" \/ job[c].pc = "auto")
  BY <1>0 DEF Requests, WriteSettings
<1>r1. sessions' = IF Exists(g) THEN [sessions EXCEPT ![g].model = model, ![g].auto = auto] ELSE sessions
  BY <1>g, <1>x, <1>f1 DEF WriteSettings
<1>t1. sessions' \in [Slots -> Rows]
  BY <1>0, <1>r1 DEF SessionTypes, Rows
<1>f3. /\ sessions'[g].row = sessions[g].row /\ sessions'[g].thread = sessions[g].thread
       /\ sessions'[g].messages = sessions[g].messages /\ sessions'[g].own = sessions[g].own
       /\ sessions'[g].backend = sessions[g].backend
       /\ Exists(g) => sessions'[g].model = model /\ sessions'[g].auto = auto
       /\ \A s \in Slots : s # g => sessions'[s] = sessions[s]
  BY <1>0, <1>r1 DEF SessionTypes, Rows
<1>r2. wanted' = IF Exists(g) THEN [wanted EXCEPT ![g] = IF job[c].pc = "model" THEN <<model, @[2]>> ELSE <<@[1],
         auto>>] ELSE wanted
  BY <1>g, <1>x, <1>f1 DEF WriteSettings
<1>t2. wanted' \in [Slots -> (0..1) \X (0..1)]
  BY <1>0, <1>r2 DEF SessionTypes
<1>f4. /\ Exists(g) => wanted'[g] = IF job[c].pc = "model" THEN <<model, wanted[g][2]>> ELSE <<wanted[g][1], auto>>
       /\ \A s \in Slots : s # g => wanted'[s] = wanted[s]
  BY <1>0, <1>r2 DEF SessionTypes
<1>f5. /\ crossed \subseteq crossed' /\ crossed' \subseteq crossed \cup {g}
       /\ g \notin crossed' => \A d \in Callers : d # c /\ job[d].op = "settings" => job[d].slot # g
  BY <1>g DEF WriteSettings
<1>t. job' \in [Callers -> Jobs]
  BY <1>0, NoJobOK DEF SessionTypes, WriteSettings, Leave
<1>f6. \A d \in Callers : d # c => job'[d] = job[d]
  BY <1>0 DEF SessionTypes, WriteSettings, Leave
<1>f7. job'[c].op = "none" /\ job'[c].pc = "idle" /\ job'[c].threads = {}
  BY <1>0 DEF SessionTypes, WriteSettings, Leave, NoJob
<1>r3. g \in Existing \ crossed => x.model = sessions[g].model /\ x.auto = sessions[g].auto
  BY <1>0, <1>g, <1>x, <1>f2 DEF Accepted
<1>1. SessionTypes'
  BY <1>0, <1>t, <1>t1, <1>t2, <1>f5, <1>u DEF SessionTypes
<1>2. Blank'
  BY <1>0, <1>u DEF Blank
<1>3. Requests'
  BY <1>0, <1>u, <1>g, <1>x, <1>f1, <1>f2, <1>f3, <1>f4, <1>f5, <1>f6, <1>f7 DEF Requests, Looks
<1>4. Unused'
  BY <1>0, <1>u, <1>g, <1>x, <1>f1, <1>f2, <1>f3, <1>f4, <1>f5 DEF Unused
<1>5. Started'
  BY <1>0, <1>u, <1>g, <1>x, <1>f1, <1>f2, <1>f3, <1>f4, <1>f5, <1>f6, <1>f7 DEF Started, Refers
<1>6. OneOwner'
  BY <1>0, <1>u, <1>g, <1>x, <1>f1, <1>f2, <1>f3, <1>f4, <1>f5, <1>f6, <1>f7 DEF OneOwner, Refers
<1>7. CopyApart'
  BY <1>0, <1>u, <1>g, <1>x, <1>f1, <1>f2, <1>f3, <1>f4, <1>f5, <1>f6, <1>f7 DEF CopyApart, Copied, Refers
<1>8. CopyAlone'
  BY <1>0, <1>u, <1>g, <1>x, <1>f1, <1>f2, <1>f3, <1>f4, <1>f5, <1>f6, <1>f7 DEF CopyAlone, Copied
<1>9. ToClose'
  BY <1>0, <1>u, <1>g, <1>x, <1>f1, <1>f2, <1>f3, <1>f4, <1>f5, <1>f6, <1>f7 DEF ToClose, Refers
<1>10. Agency'
  BY <1>0, <1>u, <1>g, <1>x, <1>f1, <1>f2, <1>f3, <1>f4, <1>f5 DEF Agency, Exists
<1>11. Memory'
  BY <1>0, <1>u, <1>g, <1>x, <1>f1, <1>f2, <1>f3, <1>f4, <1>f5 DEF Memory, Existing, Exists
<1>12. Alive'
  BY <1>0, <1>u, <1>g, <1>x, <1>f1, <1>f2, <1>f3, <1>f4, <1>f5 DEF Alive, Exists
<1>13. Untouched'
  BY <1>0, <1>u, <1>g, <1>x, <1>f1, <1>f2, <1>f3, <1>f4, <1>f5, <1>f6, <1>f7 DEF Untouched, Holds
<1>14. Open'
  BY <1>0, <1>u, <1>g, <1>x, <1>f1, <1>f2, <1>f3, <1>f4, <1>f5, <1>f6 DEF Open, Existing, Exists, About
<1>15. Copies'
  BY <1>0, <1>u, <1>g, <1>x, <1>f1, <1>f2, <1>f3, <1>f4, <1>f5, <1>f6, <1>f7 DEF Copies
<1>16. Closing'
  BY <1>0, <1>u, <1>g, <1>x, <1>f1, <1>f2, <1>f3, <1>f4, <1>f5, <1>f6, <1>f7 DEF Closing, Exists
<1>17. NoThreadLeft'
  BY <1>0, <1>u, <1>g, <1>x, <1>f1, <1>f2, <1>f3, <1>f4, <1>f5 DEF NoThreadLeft
<1>18. Counted'
  BY <1>0, <1>u, <1>g, <1>x, <1>f1, <1>f2, <1>f3, <1>f4, <1>f5, <1>f6, <1>f7 DEF Counted, Stands, Existing, Exists
<1>19. BackendOfProject'
  BY <1>0, <1>u, <1>g, <1>x, <1>f1, <1>f2, <1>f3, <1>f4, <1>f5 DEF BackendOfProject, Existing, Exists
<1>20. Accepted'
  BY <1>0, <1>u, <1>g, <1>x, <1>f1, <1>f2, <1>f3, <1>f4, <1>f5, <1>f6, <1>f7 DEF Accepted, Existing, Exists
<1>21. SettingsKept'
  BY <1>0, <1>f1, <1>f2, <1>f3, <1>f4, <1>f5, <1>r3 DEF SettingsKept, Existing, Exists
<1> QED BY <1>1, <1>2, <1>3, <1>4, <1>5, <1>6, <1>7, <1>8, <1>9, <1>10, <1>11, <1>12, <1>13, <1>14, <1>15, <1>16,
        <1>17, <1>18, <1>19, <1>20, <1>21 DEF SessionsInv

\* A turn is created, unless one is active or the session is gone.
LEMMA InsertsTurn ==
  ASSUME SessionsInv, NEW c \in Callers, InsertTurn(c), Exists(job[c].slot), turnRow[job[c].slot] = "none"
  PROVE  SessionsInv'
<1>0. /\ SessionTypes /\ Requests /\ Unused /\ Started /\ OneOwner /\ CopyApart /\ CopyAlone /\ ToClose /\ Blank
      /\ Agency /\ Memory /\ Alive /\ Untouched /\ Open /\ Copies /\ Closing /\ NoThreadLeft
      /\ Counted /\ BackendOfProject /\ Accepted /\ SettingsKept
  BY DEF SessionsInv
<1>u. UNCHANGED <<project, thread, wanted>>
  BY DEF InsertTurn
<1>g. PICK g \in Slots : g = job[c].slot
  BY <1>0 DEF Requests, InsertTurn, Stands
<1>x. PICK x \in 0..MaxThreads : x = job[c].row.thread
  BY <1>0 DEF SessionTypes, Jobs, Rows
<1>f1. /\ turnRow' = [turnRow EXCEPT ![g] = "active"]
       /\ served' = [served EXCEPT ![g] = [st |-> "starting", thread |-> x]]
       /\ sessions' = [sessions EXCEPT ![g].messages = @ + 1]
  BY <1>g, <1>x DEF InsertTurn
<1>t1. /\ turnRow' \in [Slots -> {"none", "active"}]
       /\ sessions' \in [Slots -> Rows]
  <2>1. sessions[g] \in Rows /\ sessions[g].messages \in Nat
    BY <1>0 DEF SessionTypes, Rows
  <2>2. [sessions[g] EXCEPT !.messages = @ + 1] \in Rows
    BY <2>1 DEF Rows
  <2> QED BY <2>2, <1>0, <1>f1 DEF SessionTypes
<1>t2. served' \in [Slots -> Agents]
  <2>1. [st |-> "starting", thread |-> x] \in Agents
    BY DEF Agents
  <2> QED BY <2>1, <1>0, <1>f1 DEF SessionTypes
<1>f2. /\ sessions[g].messages \in Nat /\ sessions'[g].messages = sessions[g].messages + 1
            /\ sessions'[g].row = sessions[g].row
       /\ sessions'[g].thread = sessions[g].thread /\ sessions'[g].own = sessions[g].own
       /\ sessions'[g].backend = sessions[g].backend /\ sessions'[g].model = sessions[g].model
       /\ sessions'[g].auto = sessions[g].auto
       /\ \A s \in Slots : s # g => sessions'[s] = sessions[s]
  BY <1>0, <1>f1 DEF SessionTypes, Rows
<1>f3. /\ served'[g] # NoAgent /\ served'[g].st = "starting" /\ served'[g].thread = x
       /\ \A s \in Slots : s # g => served'[s] = served[s]
  BY <1>0, <1>f1 DEF SessionTypes, NoAgent
<1>f4. turnRow'[g] = "active" /\ \A s \in Slots : s # g => turnRow'[s] = turnRow[s]
  BY <1>0, <1>f1 DEF SessionTypes
<1>f5. /\ crossed \subseteq crossed' /\ crossed' \subseteq crossed \cup {g}
       /\ g \notin crossed' => ~Busy(g, c) /\ x = sessions[g].thread
  BY <1>g, <1>x DEF InsertTurn
<1>t. job' \in [Callers -> Jobs]
  BY <1>0, NoJobOK DEF SessionTypes, InsertTurn, Leave
<1>f6. \A d \in Callers : d # c => job'[d] = job[d]
  BY <1>0 DEF SessionTypes, InsertTurn, Leave
<1>f7. job'[c].op = "none" /\ job'[c].pc = "idle" /\ job'[c].threads = {}
  BY <1>0 DEF SessionTypes, InsertTurn, Leave, NoJob
<1>f8. job[c].op = "turn" /\ job[c].pc = "insert" /\ sessions[g].row = "kept" /\ g \in Existing
  BY <1>g DEF InsertTurn, Stands, Exists, Existing
<1>f9. served[g] = NoAgent
  BY <1>0, <1>g DEF Agency
<1>r1. \A s \in Slots, u \in Threads : Refers(s, u)' => Refers(s, u)
  BY <1>u, <1>g, <1>x, <1>f2, <1>f3, <1>f6, <1>f7, <1>f8 DEF Refers
<1>r2. g \notin crossed' => \A d \in Callers : ~Holds(d, g) /\ (job[d].pc = "drop" => g \notin About(d))
  BY <1>f5, <1>f8 DEF Busy, Holds, About
<1>1. SessionTypes'
  BY <1>0, <1>t, <1>t1, <1>t2, <1>f5, <1>u DEF SessionTypes
<1>2. Blank'
  BY <1>0, <1>u DEF Blank
<1>3. Requests'
  BY <1>0, <1>u, <1>g, <1>x, <1>f1, <1>f2, <1>f3, <1>f4, <1>f5, <1>f6, <1>f7 DEF Requests, Looks
<1>4. Unused'
  BY <1>0, <1>u, <1>g, <1>x, <1>f1, <1>f2, <1>f3, <1>f4, <1>f5, <1>f6, <1>f7, <1>f8 DEF Unused
<1>5. Started'
  BY <1>0, <1>u, <1>r1 DEF Started
<1>6. OneOwner'
  BY <1>0, <1>r1 DEF OneOwner
<1>7. CopyApart'
  BY <1>0, <1>u, <1>r1, <1>f6, <1>f7 DEF CopyApart, Copied
<1>8. CopyAlone'
  BY <1>0, <1>u, <1>g, <1>x, <1>f1, <1>f2, <1>f3, <1>f4, <1>f5, <1>f6, <1>f7 DEF CopyAlone, Copied
<1>9. ToClose'
  BY <1>0, <1>u, <1>r1, <1>f6, <1>f7 DEF ToClose
<1>10. Agency'
  BY <1>0, <1>u, <1>g, <1>x, <1>f1, <1>f2, <1>f3, <1>f4, <1>f5, <1>f6, <1>f7 DEF Agency, Exists
<1>11. Memory'
  <2>1. \A s \in Slots : s # g => (s \in Existing' <=> s \in Existing)
    BY <1>f2 DEF Existing, Exists
  <2>2. ASSUME NEW s \in Existing' \ crossed', s # g
        PROVE  /\ s \in Existing \ crossed /\ served'[s] = served[s]
               /\ sessions'[s] = sessions[s] /\ thread' = thread
    BY <2>1, <2>2, <1>u, <1>f2, <1>f3, <1>f5 DEF Existing
  <2>3. ASSUME NEW s \in Existing' \ crossed', s = g
        PROVE  /\ s \in Existing \ crossed /\ x = sessions[s].thread
               /\ thread' = thread
    BY <2>3, <1>u, <1>f5, <1>f8 DEF Existing
  <2> QED BY <1>0, <2>2, <2>3, <1>f2, <1>f3, <1>f9 DEF Memory
<1>12. Alive'
  BY <1>0, <1>u, <1>r2, <1>f2, <1>f3, <1>f5, <1>f8 DEF Alive, Open, Exists
<1>13. Untouched'
  BY <1>0, <1>r2, <1>f3, <1>f5, <1>f6, <1>f7 DEF Untouched, Holds
<1>14. Open'
  BY <1>0, <1>u, <1>g, <1>x, <1>f1, <1>f2, <1>f3, <1>f4, <1>f5, <1>f6, <1>f7, <1>f8
     DEF Open, Existing, Exists, About
<1>15. Copies'
  BY <1>0, <1>u, <1>g, <1>x, <1>f1, <1>f2, <1>f3, <1>f4, <1>f5, <1>f6, <1>f7 DEF Copies
<1>16. Closing'
  BY <1>0, <1>u, <1>g, <1>x, <1>f1, <1>f2, <1>f3, <1>f4, <1>f5, <1>f6, <1>f7 DEF Closing, Exists
<1>17. NoThreadLeft'
  BY <1>0, <1>u, <1>g, <1>x, <1>f1, <1>f2, <1>f3, <1>f4, <1>f5, <1>f6, <1>f7 DEF NoThreadLeft
<1>18. Counted'
  BY <1>0, <1>u, <1>g, <1>x, <1>f1, <1>f2, <1>f3, <1>f4, <1>f5, <1>f6, <1>f7 DEF Counted, Stands, Existing, Exists
<1>19. BackendOfProject'
  BY <1>0, <1>u, <1>g, <1>x, <1>f1, <1>f2, <1>f3, <1>f4, <1>f5, <1>f6, <1>f7 DEF BackendOfProject, Existing, Exists
<1>20. Accepted'
  BY <1>0, <1>u, <1>g, <1>x, <1>f1, <1>f2, <1>f3, <1>f4, <1>f5, <1>f6, <1>f7 DEF Accepted, Existing, Exists
<1>21. SettingsKept'
  BY <1>0, <1>u, <1>g, <1>x, <1>f1, <1>f2, <1>f3, <1>f4, <1>f5, <1>f6, <1>f7 DEF SettingsKept, Existing, Exists
<1> QED BY <1>1, <1>2, <1>3, <1>4, <1>5, <1>6, <1>7, <1>8, <1>9, <1>10, <1>11, <1>12, <1>13, <1>14, <1>15, <1>16,
        <1>17, <1>18, <1>19, <1>20, <1>21 DEF SessionsInv

\* An agent begins, on the thread it was given or on a new one.
LEMMA BeginsThread ==
  ASSUME SessionsInv, NEW g \in Slots, AgentBegins(g)
  PROVE  SessionsInv'
<1>0. /\ SessionTypes /\ Requests /\ Unused /\ Started /\ OneOwner /\ CopyApart /\ CopyAlone /\ ToClose /\ Blank
      /\ Agency /\ Memory /\ Alive /\ Untouched /\ Open /\ Copies /\ Closing /\ NoThreadLeft
      /\ Counted /\ BackendOfProject /\ Accepted /\ SettingsKept
  BY DEF SessionsInv
<1>u. UNCHANGED <<project, turnRow, job, wanted>>
  BY DEF AgentBegins
<1>y. PICK y \in Threads : Chosen(g, y)
  BY BeginsWith
<1>x. PICK x : x = served[g].thread
  OBVIOUS
<1>s. served[g].st = "starting" /\ served[g] # NoAgent
  BY <1>0 DEF AgentBegins, NoAgent
<1>r0. /\ served' = [served EXCEPT ![g] = [st |-> "running", thread |-> y]]
       /\ thread' = [thread EXCEPT ![y] = [st |-> "live", holds |-> @.holds + 1]]
       /\ sessions' = IF Exists(g) THEN [sessions EXCEPT ![g].thread = y] ELSE sessions
  BY <1>y DEF Chosen
<1>f1. /\ y \in Threads /\ y # NoThread
       /\ (y = x /\ thread[y].st = "live") \/ (y # x /\ thread[y].st = "unused" /\ thread[y].holds = 0)
  BY <1>y, <1>x DEF Chosen
<1>t1. served' \in [Slots -> Agents]
  <2>1. [st |-> "running", thread |-> y] \in Agents
    BY <1>f1, SessionsAssumption DEF Agents, Threads
  <2> QED BY <2>1, <1>0, <1>r0 DEF SessionTypes
<1>r1. thread[y] \in ThreadStates /\ thread[y].holds \in Nat
  BY <1>0, <1>f1 DEF SessionTypes, ThreadStates
<1>t2. thread' \in [Threads -> ThreadStates]
  <2>1. [st |-> "live", holds |-> thread[y].holds + 1] \in ThreadStates
    BY <1>r1 DEF ThreadStates
  <2> QED BY <2>1, <1>0, <1>r0 DEF SessionTypes
<1>t3. sessions' \in [Slots -> Rows]
  <2>1. sessions[g] \in Rows /\ y \in 0..MaxThreads
    BY <1>0, <1>f1, SessionsAssumption DEF SessionTypes, Threads
  <2>2. [sessions[g] EXCEPT !.thread = y] \in Rows
    BY <2>1 DEF Rows
  <2> QED BY <2>2, <1>0, <1>r0 DEF SessionTypes
<1>f2. /\ sessions'[g].messages = sessions[g].messages /\ sessions'[g].row = sessions[g].row
       /\ Exists(g) => sessions'[g].thread = y
       /\ ~Exists(g) => sessions'[g].thread = sessions[g].thread
       /\ sessions'[g].own = sessions[g].own
       /\ sessions'[g].backend = sessions[g].backend /\ sessions'[g].model = sessions[g].model
       /\ sessions'[g].auto = sessions[g].auto
       /\ \A s \in Slots : s # g => sessions'[s] = sessions[s]
  BY <1>0, <1>r0 DEF SessionTypes, Rows
<1>f3. /\ served'[g] # NoAgent /\ served'[g].st = "running" /\ served'[g].thread = y
       /\ \A s \in Slots : s # g => served'[s] = served[s]
  BY <1>0, <1>r0 DEF SessionTypes, NoAgent
<1>f4. /\ thread'[y].st = "live" /\ thread'[y].holds = thread[y].holds + 1
       /\ \A u \in Threads : u # y => thread'[u] = thread[u]
  BY <1>0, <1>f1, <1>r0 DEF SessionTypes
<1>f5. crossed \subseteq crossed' /\ crossed' \subseteq crossed \cup {g}
  BY <1>y DEF Chosen
<1>f6. \A s \in Slots : sessions[s].thread \in Threads \cup {NoThread} /\ served[s].thread \in Threads
         \cup {NoThread}
  BY <1>0, SessionsAssumption DEF SessionTypes, Rows, Agents, Threads, NoThread
<1>f7. \A d \in Callers : job[d].row.thread \in Threads \cup {NoThread}
  BY <1>0, SessionsAssumption DEF SessionTypes, Jobs, Rows, Threads, NoThread
<1>f8. g \notin crossed' => /\ Exists(g) /\ g \notin crossed
                            /\ x # NoThread => y = x
                            /\ \A d \in Callers : ~Holds(d, g)
  <2>1. SUFFICES ASSUME g \notin crossed'
        PROVE  Exists(g) /\ (x # NoThread => y = x) /\ \A d \in Callers : ~Holds(d, g)
    BY <1>f5
  <2>2. Exists(g) /\ (x # NoThread => thread[x].st = "live") /\ \A d \in Callers : ~Holds(d, g)
    BY <2>1, <1>0, <1>s, <1>x, <1>f5 DEF Alive, Untouched
  <2> QED BY <2>1, <2>2, <1>x, <1>y DEF Chosen
<1>r2. \A s \in Slots, u \in Threads : Refers(s, u)' => Refers(s, u) \/ (s = g /\ u = y)
  BY <1>u, <1>f2, <1>f3 DEF Refers
<1>r3. y = x => Refers(g, y)
  BY <1>x DEF Refers
<1>r4. \A s \in Slots : s # g => ~Refers(s, y)
  BY <1>0, <1>f1, <1>r3 DEF OneOwner, Started
<1>r6. \A d \in Callers : job[d].op = "fork" /\ job[d].row.thread = y => job[d].slot = g /\ job[d].pc # "insert"
  <2>1. SUFFICES ASSUME NEW d \in Callers, job[d].op = "fork", job[d].row.thread = y
                 PROVE  job[d].slot = g /\ job[d].pc # "insert"
    OBVIOUS
  <2>2. job[d].slot \in Slots
    BY <1>0, <2>1 DEF Requests
  <2>3. job[d].pc # "insert"
    BY <1>0, <1>f1, <1>r3, <2>1 DEF CopyApart, Copied
  <2>4. Refers(job[d].slot, y)
    BY <2>1, <2>3 DEF Refers
  <2> QED BY <2>2, <2>3, <2>4, <1>r4
<1>r5. \A s \in Slots : s # g => sessions[s].thread # y
  BY <1>r4 DEF Refers
<1>r9. \A s \in Slots : s # g /\ sessions[s].thread # NoThread
         => thread'[sessions[s].thread] = thread[sessions[s].thread]
  <2>1. SUFFICES ASSUME NEW s \in Slots, s # g, sessions[s].thread # NoThread
                 PROVE  thread'[sessions[s].thread] = thread[sessions[s].thread]
    OBVIOUS
  <2>2. sessions[s].thread \in Threads /\ sessions[s].thread # y
    BY <2>1, <1>f6, <1>r5
  <2> QED BY <2>2, <1>f4
<1>rn. NoThread \notin Threads
  BY SessionsAssumption DEF Threads, NoThread
<1>1. SessionTypes'
  BY <1>0, <1>t1, <1>t2, <1>t3, <1>f5, <1>u DEF SessionTypes
<1>2. CopyAlone'
  BY <1>0, <1>u DEF Copied, CopyAlone
<1>3. Requests'
  BY <1>0, <1>u, <1>y, <1>x, <1>s, <1>f1, <1>f2, <1>f3, <1>f4, <1>f5, <1>f6 DEF Requests, Looks
<1>4. Unused'
  BY <1>0, <1>u, <1>y, <1>x, <1>s, <1>f1, <1>f2, <1>f3, <1>f4, <1>f5, <1>f6 DEF Unused
<1>5. Started'
  BY <1>0, <1>f1, <1>f4, <1>r2 DEF Started
<1>6. OneOwner'
  BY <1>0, <1>r2, <1>r4 DEF OneOwner
<1>7. CopyApart'
  BY <1>0, <1>u, <1>f1, <1>f4, <1>r2, <1>r3 DEF CopyApart, Copied
<1>8. ToClose'
  BY <1>0, <1>u, <1>f1, <1>f4, <1>r2, <1>r3 DEF ToClose
<1>9. Blank'
  BY <1>0, <1>u, <1>y, <1>x, <1>s, <1>f1, <1>f2, <1>f3, <1>f4, <1>f5, <1>f6 DEF Blank
<1>10. Agency'
  BY <1>0, <1>u, <1>y, <1>x, <1>s, <1>f1, <1>f2, <1>f3, <1>f4, <1>f5, <1>f6 DEF Agency, Exists
<1>11. Memory'
  <2>1. SUFFICES ASSUME NEW s \in Slots, Exists(s)', s \notin crossed' PROVE Memory!(s)'
    BY DEF Memory, Existing
  <2>2. CASE s = g
    BY <2>1, <2>2, <1>0, <1>x, <1>s, <1>f1, <1>f2, <1>f3, <1>f4, <1>f5, <1>f8 DEF Memory, Existing, Exists
  <2>3. CASE s # g
    BY <2>1, <2>3, <1>0, <1>f2, <1>f3, <1>f5, <1>r9, <1>rn DEF Memory, Existing, Exists, Agency
  <2> QED BY <2>2, <2>3
<1>12. Alive'
  BY <1>0, <1>u, <1>y, <1>x, <1>s, <1>f1, <1>f2, <1>f3, <1>f4, <1>f5, <1>f6 DEF Alive, Exists
<1>13. Untouched'
  BY <1>0, <1>u, <1>y, <1>x, <1>s, <1>f1, <1>f2, <1>f3, <1>f4, <1>f5, <1>f6 DEF Untouched, Holds
<1>14. Open'
  BY <1>0, <1>u, <1>y, <1>x, <1>s, <1>f1, <1>f2, <1>f3, <1>f4, <1>f5, <1>f6 DEF Open, Existing, Exists, About
<1>15. Copies'
  BY <1>0, <1>u, <1>f3, <1>f4, <1>f5, <1>f7, <1>f8, <1>r6 DEF Copies, Holds, Requests, NoThread
<1>16. Closing'
  BY <1>0, <1>u, <1>f2, <1>f3, <1>f4, <1>f5, <1>f6, <1>f8, <1>r9 DEF Closing, Exists, Holds
<1>17. NoThreadLeft'
  BY <1>0, <1>u, <1>f2, <1>f5, <1>f8, <1>r9 DEF NoThreadLeft, Exists
<1>18. Counted'
  BY <1>0, <1>u, <1>y, <1>x, <1>s, <1>f1, <1>f2, <1>f3, <1>f4, <1>f5, <1>f6 DEF Counted, Stands, Existing, Exists
<1>19. BackendOfProject'
  BY <1>0, <1>u, <1>y, <1>x, <1>s, <1>f1, <1>f2, <1>f3, <1>f4, <1>f5, <1>f6 DEF BackendOfProject, Existing, Exists
<1>20. Accepted'
  BY <1>0, <1>u, <1>y, <1>x, <1>s, <1>f1, <1>f2, <1>f3, <1>f4, <1>f5, <1>f6 DEF Accepted, Existing, Exists
<1>21. SettingsKept'
  BY <1>0, <1>u, <1>y, <1>x, <1>s, <1>f1, <1>f2, <1>f3, <1>f4, <1>f5, <1>f6 DEF SettingsKept, Existing, Exists
<1> QED BY <1>1, <1>2, <1>3, <1>4, <1>5, <1>6, <1>7, <1>8, <1>9, <1>10, <1>11, <1>12, <1>13, <1>14, <1>15, <1>16,
        <1>17, <1>18, <1>19, <1>20, <1>21 DEF SessionsInv

\* An agent returns, and its answer is in the history and in the thread.
LEMMA Returns ==
  ASSUME SessionsInv, NEW g \in Slots, AgentReturns(g)
  PROVE  SessionsInv'
<1>0. /\ SessionTypes /\ Requests /\ Unused /\ Started /\ OneOwner /\ CopyApart /\ CopyAlone /\ ToClose /\ Blank
      /\ Agency /\ Memory /\ Alive /\ Untouched /\ Open /\ Copies /\ Closing /\ NoThreadLeft
      /\ Counted /\ BackendOfProject /\ Accepted /\ SettingsKept
  BY DEF SessionsInv
<1>u. UNCHANGED <<project, job, wanted>>
  BY DEF AgentReturns
<1>x. PICK x : x = served[g].thread
  OBVIOUS
<1>f1. served[g].st = "running" /\ served[g] # NoAgent /\ x \in Threads /\ x # NoThread
  BY <1>0, <1>x, SessionsAssumption DEF AgentReturns, Agency, NoAgent, Threads, NoThread
<1>r0. /\ served' = [served EXCEPT ![g] = NoAgent]
       /\ turnRow' = [turnRow EXCEPT ![g] = "none"]
       /\ thread' = [thread EXCEPT ![x].holds = @ + 1]
       /\ sessions' = IF Exists(g) THEN [sessions EXCEPT ![g].messages = @ + 1] ELSE sessions
  BY <1>x DEF AgentReturns
<1>t1. served' \in [Slots -> Agents] /\ turnRow' \in [Slots -> {"none", "active"}]
  <2>1. NoAgent \in Agents
    BY SessionsAssumption DEF NoAgent, NoThread, Agents
  <2> QED BY <2>1, <1>0, <1>r0 DEF SessionTypes
<1>r1. thread[x] \in ThreadStates /\ thread[x].holds \in Nat
  BY <1>0, <1>f1 DEF SessionTypes, ThreadStates
<1>t2. thread' \in [Threads -> ThreadStates]
  <2>1. [thread[x] EXCEPT !.holds = @ + 1] \in ThreadStates
    BY <1>r1 DEF ThreadStates
  <2> QED BY <2>1, <1>0, <1>r0 DEF SessionTypes
<1>r7. sessions[g] \in Rows /\ sessions[g].messages \in Nat
  BY <1>0 DEF SessionTypes, Rows
<1>t3. sessions' \in [Slots -> Rows]
  <2>1. [sessions[g] EXCEPT !.messages = @ + 1] \in Rows
    BY <1>r7 DEF Rows
  <2> QED BY <2>1, <1>0, <1>r0 DEF SessionTypes
<1>f2. /\ sessions'[g].messages = (IF Exists(g) THEN sessions[g].messages + 1 ELSE sessions[g].messages)
       /\ sessions'[g].row = sessions[g].row
       /\ sessions'[g].thread = sessions[g].thread /\ sessions'[g].own = sessions[g].own
       /\ sessions'[g].backend = sessions[g].backend /\ sessions'[g].model = sessions[g].model
       /\ sessions'[g].auto = sessions[g].auto
       /\ \A s \in Slots : s # g => sessions'[s] = sessions[s]
  BY <1>0, <1>r0, <1>r7 DEF SessionTypes, Rows
<1>f3. /\ served'[g] = NoAgent /\ served'[g].st = "none" /\ served'[g].thread = NoThread
       /\ \A s \in Slots : s # g => served'[s] = served[s]
  BY <1>0, <1>r0 DEF SessionTypes, NoAgent
<1>f4. /\ thread'[x].st = thread[x].st /\ thread'[x].holds = thread[x].holds + 1
       /\ \A u \in Threads : u # x => thread'[u] = thread[u]
  BY <1>0, <1>f1, <1>r0 DEF SessionTypes, ThreadStates
<1>f5. /\ crossed \subseteq crossed' /\ crossed' \subseteq crossed \cup {g}
       /\ g \notin crossed' => \A d \in Callers : job[d].op \in {"fork", "delete"} /\ job[d].pc = "check"
            => job[d].slot # g
  BY DEF AgentReturns
<1>f6. \A s \in Slots : sessions[s].thread \in Threads \cup {NoThread} /\ served[s].thread \in Threads
         \cup {NoThread}
  BY <1>0, SessionsAssumption DEF SessionTypes, Rows, Agents, Threads, NoThread
<1>f7. \A d \in Callers : job[d].row.thread \in Threads \cup {NoThread}
  BY <1>0, SessionsAssumption DEF SessionTypes, Jobs, Rows, Threads, NoThread
<1>f8. g \notin crossed' => /\ Exists(g) /\ g \notin crossed
                            /\ \A d \in Callers : ~Holds(d, g)
  BY <1>0, <1>f1, <1>f5 DEF Alive, Untouched
<1>f9. turnRow'[g] = "none" /\ \A s \in Slots : s # g => turnRow'[s] = turnRow[s]
  BY <1>0, <1>r0 DEF SessionTypes
<1>r2. \A s \in Slots, u \in Threads : Refers(s, u)' => Refers(s, u)
  BY <1>u, <1>f2, <1>f3 DEF Refers, Threads, NoThread
<1>r3. Refers(g, x)
  BY <1>x DEF Refers
<1>r4. thread[x].st # "unused" /\ \A s \in Slots : s # g => ~Refers(s, x)
  BY <1>0, <1>f1, <1>r3 DEF OneOwner, Started
<1>r6. \A d \in Callers : job[d].op = "fork" /\ job[d].row.thread = x => job[d].slot = g /\ job[d].pc # "insert"
  <2>1. SUFFICES ASSUME NEW d \in Callers, job[d].op = "fork", job[d].row.thread = x
                 PROVE  job[d].slot = g /\ job[d].pc # "insert"
    OBVIOUS
  <2>2. job[d].slot \in Slots
    BY <1>0, <2>1 DEF Requests
  <2>3. job[d].pc # "insert"
    BY <1>0, <1>f1, <1>r3, <2>1 DEF CopyApart, Copied
  <2>4. Refers(job[d].slot, x)
    BY <2>1, <2>3 DEF Refers
  <2> QED BY <2>2, <2>3, <2>4, <1>r4
<1>r5. \A s \in Slots : s # g => sessions[s].thread # x
  BY <1>r4 DEF Refers
<1>r8. \A u \in Threads : thread'[u].st = thread[u].st
  BY <1>f4
<1>r9. \A s \in Slots : s # g /\ sessions[s].thread # NoThread
         => thread'[sessions[s].thread] = thread[sessions[s].thread]
  <2>1. SUFFICES ASSUME NEW s \in Slots, s # g, sessions[s].thread # NoThread
                 PROVE  thread'[sessions[s].thread] = thread[sessions[s].thread]
    OBVIOUS
  <2>2. sessions[s].thread \in Threads /\ sessions[s].thread # x
    BY <2>1, <1>f6, <1>r5
  <2> QED BY <2>2, <1>f4
<1>rn. NoThread \notin Threads
  BY SessionsAssumption DEF Threads, NoThread
<1>1. SessionTypes'
  BY <1>0, <1>t1, <1>t2, <1>t3, <1>f5, <1>u DEF SessionTypes
<1>2. CopyAlone'
  BY <1>0, <1>u DEF Copied, CopyAlone
<1>3. Requests'
  BY <1>0, <1>u, <1>x, <1>f1, <1>f2, <1>f3, <1>f4, <1>f5, <1>f6, <1>f7 DEF Requests, Looks
<1>4. Unused'
  BY <1>0, <1>u, <1>x, <1>f1, <1>f2, <1>f3, <1>f4, <1>f5, <1>f6, <1>f7 DEF Unused
<1>5. Started'
  BY <1>0, <1>r8, <1>r2 DEF Started
<1>6. OneOwner'
  BY <1>0, <1>r2 DEF OneOwner
<1>7. CopyApart'
  BY <1>0, <1>u, <1>r8, <1>r2 DEF CopyApart, Copied
<1>8. ToClose'
  BY <1>0, <1>u, <1>r8, <1>r2 DEF ToClose
<1>9. Blank'
  BY <1>0, <1>f4, <1>r4 DEF Blank
<1>10. Agency'
  BY <1>0, <1>u, <1>x, <1>f1, <1>f2, <1>f3, <1>f4, <1>f5, <1>f6, <1>f7, <1>f9 DEF Agency, Exists
<1>11. Memory'
  <2>1. SUFFICES ASSUME NEW s \in Slots, Exists(s)', s \notin crossed' PROVE Memory!(s)'
    BY DEF Memory, Existing
  <2>2. CASE s = g
    BY <2>1, <2>2, <1>0, <1>x, <1>f1, <1>f2, <1>f3, <1>f4, <1>f5, <1>f8 DEF Memory, Existing, Exists
  <2>3. CASE s # g
    BY <2>1, <2>3, <1>0, <1>f2, <1>f3, <1>f5, <1>r9, <1>rn DEF Memory, Existing, Exists, Agency
  <2> QED BY <2>2, <2>3
<1>12. Alive'
  BY <1>0, <1>u, <1>x, <1>f1, <1>f2, <1>f3, <1>f4, <1>f5, <1>f6, <1>f7 DEF Alive, Exists
<1>13. Untouched'
  BY <1>0, <1>u, <1>x, <1>f1, <1>f2, <1>f3, <1>f4, <1>f5, <1>f6, <1>f7 DEF Untouched, Holds
<1>14. Open'
  BY <1>0, <1>u, <1>f2, <1>f5, <1>f6, <1>r8 DEF Open, Existing, Exists, About, NoThread
<1>15. Copies'
  BY <1>0, <1>u, <1>f3, <1>f4, <1>f5, <1>f7, <1>f8, <1>r6 DEF Copies, Holds, Requests, NoThread
<1>16. Closing'
  BY <1>0, <1>u, <1>f2, <1>f3, <1>f5, <1>f6, <1>r8 DEF Closing, Exists, Holds, NoThread
<1>17. NoThreadLeft'
  BY <1>0, <1>u, <1>f2, <1>f5, <1>f6, <1>r8 DEF NoThreadLeft, Exists, NoThread
<1>18. Counted'
  BY <1>0, <1>u, <1>x, <1>f1, <1>f2, <1>f3, <1>f4, <1>f5, <1>f6, <1>f7 DEF Counted, Stands, Existing, Exists
<1>19. BackendOfProject'
  BY <1>0, <1>u, <1>x, <1>f1, <1>f2, <1>f3, <1>f4, <1>f5, <1>f6, <1>f7 DEF BackendOfProject, Existing, Exists
<1>20. Accepted'
  BY <1>0, <1>u, <1>x, <1>f1, <1>f2, <1>f3, <1>f4, <1>f5, <1>f6, <1>f7 DEF Accepted, Existing, Exists
<1>21. SettingsKept'
  BY <1>0, <1>u, <1>x, <1>f1, <1>f2, <1>f3, <1>f4, <1>f5, <1>f6, <1>f7 DEF SettingsKept, Existing, Exists
<1> QED BY <1>1, <1>2, <1>3, <1>4, <1>5, <1>6, <1>7, <1>8, <1>9, <1>10, <1>11, <1>12, <1>13, <1>14, <1>15, <1>16,
        <1>17, <1>18, <1>19, <1>20, <1>21 DEF SessionsInv

\* An agent cannot resume the thread of its session.
LEMMA Fails ==
  ASSUME SessionsInv, NEW g \in Slots, AgentFails(g)
  PROVE  SessionsInv'
<1>0. /\ SessionTypes /\ Requests /\ Unused /\ Started /\ OneOwner /\ CopyApart /\ CopyAlone /\ ToClose /\ Blank
      /\ Agency /\ Memory /\ Alive /\ Untouched /\ Open /\ Copies /\ Closing /\ NoThreadLeft
      /\ Counted /\ BackendOfProject /\ Accepted /\ SettingsKept
  BY DEF SessionsInv
<1>u. UNCHANGED <<project, sessions, thread, job, wanted>>
  BY DEF AgentFails
<1>r0. /\ served' = [served EXCEPT ![g] = NoAgent]
       /\ turnRow' = [turnRow EXCEPT ![g] = "none"]
  BY DEF AgentFails
<1>t1. served' \in [Slots -> Agents] /\ turnRow' \in [Slots -> {"none", "active"}]
  <2>1. NoAgent \in Agents
    BY SessionsAssumption DEF NoAgent, NoThread, Agents
  <2> QED BY <2>1, <1>0, <1>r0 DEF SessionTypes
<1>f3. /\ served'[g] = NoAgent /\ served'[g].st = "none" /\ served'[g].thread = NoThread
       /\ \A s \in Slots : s # g => served'[s] = served[s]
  BY <1>0, <1>r0 DEF SessionTypes, NoAgent
<1>f4. turnRow'[g] = "none" /\ \A s \in Slots : s # g => turnRow'[s] = turnRow[s]
  BY <1>0, <1>r0 DEF SessionTypes
<1>f5. crossed' = crossed \cup {g}
  BY DEF AgentFails
<1>r2. \A s \in Slots, u \in Threads : Refers(s, u)' => Refers(s, u)
  BY <1>u, <1>f3, SessionsAssumption DEF Refers, Threads, NoThread
<1>1. SessionTypes'
  BY <1>0, <1>t1, <1>f5, <1>u DEF SessionTypes
<1>2. Requests' /\ CopyAlone' /\ Blank'
  BY <1>0, <1>u DEF Blank, Copied, CopyAlone, Looks, Requests
<1>3. Unused'
  BY <1>0, <1>u, <1>f3 DEF Unused
<1>4. Started'
  BY <1>0, <1>u, <1>r2 DEF Started
<1>5. OneOwner'
  BY <1>0, <1>r2 DEF OneOwner
<1>6. CopyApart'
  BY <1>0, <1>u, <1>r2 DEF CopyApart, Copied
<1>7. ToClose'
  BY <1>0, <1>u, <1>r2 DEF ToClose
<1>8. Agency'
  BY <1>0, <1>u, <1>f3, <1>f4 DEF Agency, Exists
<1>9. Memory'
  BY <1>0, <1>u, <1>f3, <1>f5 DEF Memory, Existing, Exists
<1>10. Alive'
  BY <1>0, <1>u, <1>f3, <1>f5 DEF Alive, Exists
<1>11. Untouched'
  BY <1>0, <1>u, <1>f3, <1>f5 DEF Untouched, Holds
<1>12. Open'
  BY <1>0, <1>u, <1>f3, <1>f5 DEF Open, Existing, Exists, About
<1>13. Copies'
  BY <1>0, <1>u, <1>f3, <1>f5 DEF Copies, Requests
<1>14. Closing'
  BY <1>0, <1>u, <1>f3, <1>f5 DEF Closing, Exists
<1>15. NoThreadLeft'
  BY <1>0, <1>u, <1>f3, <1>f5 DEF NoThreadLeft
<1>16. Counted'
  BY <1>0, <1>u, <1>f3, <1>f5 DEF Counted, Stands, Existing, Exists
<1>17. BackendOfProject'
  BY <1>0, <1>u, <1>f3, <1>f5 DEF BackendOfProject, Existing, Exists
<1>18. Accepted'
  BY <1>0, <1>u, <1>f3, <1>f5 DEF Accepted, Existing, Exists
<1>19. SettingsKept'
  BY <1>0, <1>u, <1>f3, <1>f5 DEF SettingsKept, Existing, Exists
<1> QED BY <1>1, <1>2, <1>3, <1>4, <1>5, <1>6, <1>7, <1>8, <1>9, <1>10, <1>11, <1>12, <1>13, <1>14, <1>15, <1>16,
        <1>17, <1>18, <1>19 DEF SessionsInv

\* The backend copies a thread under a new name.
LEMMA Forks ==
  ASSUME SessionsInv, NEW c \in Callers, ForkThread(c), thread[job[c].row.thread].st # "closed"
  PROVE  SessionsInv'
<1>0. /\ SessionTypes /\ Requests /\ Unused /\ Started /\ OneOwner /\ CopyApart /\ CopyAlone /\ ToClose /\ Blank
      /\ Agency /\ Memory /\ Alive /\ Untouched /\ Open /\ Copies /\ Closing /\ NoThreadLeft
      /\ Counted /\ BackendOfProject /\ Accepted /\ SettingsKept
  BY DEF SessionsInv
<1>u. UNCHANGED <<project, sessions, turnRow, served, wanted>>
  BY DEF ForkThread
<1>x. PICK x : x = job[c].row.thread
  OBVIOUS
<1>y. PICK y : y = Fresh
  OBVIOUS
<1>s. PICK s \in Slots :
        /\ thread' = [thread EXCEPT ![y] = thread[x]]
        /\ job' = [job EXCEPT ![c] = [@ EXCEPT !.pc = "insert", !.slot = s, !.row.thread = y]]
        /\ crossed' = IF job[c].slot \in crossed THEN crossed \cup {s} ELSE crossed
  BY <1>x, <1>y DEF ForkThread
<1>f1. job[c].op = "fork" /\ job[c].pc = "call" /\ job[c].slot \in Slots /\ HasFresh
  BY <1>0 DEF ForkThread, Stands, Requests
<1>f2. y \in Threads /\ y # NoThread /\ thread[y].st = "unused"
  BY <1>f1, <1>y, <1>s, FreshIs DEF Threads, NoThread
<1>f3. x \in Threads /\ x # NoThread /\ Refers(job[c].slot, x)
  <2>1. x \in 0..MaxThreads /\ x # NoThread
    BY <1>0, <1>x, <1>f1 DEF SessionTypes, Jobs, Rows, Copies
  <2> QED BY <2>1, <1>x, <1>f1, SessionsAssumption DEF Refers, Threads, NoThread
<1>f4. x # y /\ thread[x].st = "live" /\ thread[x] \in ThreadStates
  <2>1. thread[x].st # "unused" /\ thread[x] \in ThreadStates
    BY <1>0, <1>f1, <1>f3 DEF Started, SessionTypes
  <2> QED BY <2>1, <1>x, <1>f2 DEF ThreadStates
<1>f5. thread'[y] = thread[x] /\ \A u \in Threads : u # y => thread'[u] = thread[u]
  BY <1>0, <1>f2, <1>y, <1>s DEF SessionTypes
<1>r1. job[c] \in Jobs /\ job[c].row \in Rows /\ y \in 0..MaxThreads
  BY <1>0, <1>f2, SessionsAssumption DEF SessionTypes, Jobs, Threads
<1>r2. PICK j \in Jobs :
         /\ j = [job[c] EXCEPT !.pc = "insert", !.slot = s, !.row.thread = y]
         /\ j.op = job[c].op /\ j.pc = "insert" /\ j.slot = s /\ j.threads = job[c].threads
         /\ j.row.thread = y /\ j.row.messages = job[c].row.messages
  <2>1. PICK i : i = job[c]
    OBVIOUS
  <2>2. PICK w : w = i.row
    OBVIOUS
  <2>3. i \in Jobs /\ w \in Rows
    BY <1>r1, <2>1, <2>2
  <2>4. [w EXCEPT !.thread = y] \in Rows /\ [w EXCEPT !.thread = y].thread = y
          /\ [w EXCEPT !.thread = y].messages = w.messages
    BY <2>3, <1>r1 DEF Rows
  <2>5. PICK z \in Rows : z = [w EXCEPT !.thread = y]
    BY <2>4
  <2>6. [i EXCEPT !.pc = "insert", !.slot = s, !.row = z] =
          [op |-> i.op, pc |-> "insert", slot |-> s, threads |-> i.threads, row |-> z]
    <3>1. PICK k : k = [i EXCEPT !.pc = "insert", !.slot = s, !.row = z]
      OBVIOUS
    <3>2. k \in Jobs /\ k.op = i.op /\ k.pc = "insert" /\ k.slot = s /\ k.threads = i.threads /\ k.row = z
      BY <3>1, <2>3, <2>5 DEF Jobs, Points
    <3>3. k = [op |-> k.op, pc |-> k.pc, slot |-> k.slot, threads |-> k.threads, row |-> k.row]
      BY <3>2 DEF Jobs
    <3> QED BY <3>1, <3>2, <3>3
  <2>7. [op |-> i.op, pc |-> "insert", slot |-> s, threads |-> i.threads, row |-> z] \in Jobs
    BY <2>3, <2>5 DEF Jobs, Points
  <2>8. [i EXCEPT !.pc = "insert", !.slot = s, !.row.thread = y] = [i EXCEPT !.pc = "insert", !.slot = s,
          !.row = z]
    BY <2>2, <2>3, <2>5 DEF Jobs
  <2> QED BY <2>1, <2>2, <2>4, <2>5, <2>6, <2>7, <2>8
<1>r3. job' = [job EXCEPT ![c] = j]
  BY <1>y, <1>s, <1>r2
<1>t. job' \in [Callers -> Jobs]
  BY <1>0, <1>r3 DEF SessionTypes
<1>t1. thread' \in [Threads -> ThreadStates]
  BY <1>0, <1>y, <1>s, <1>f4 DEF SessionTypes
<1>f6. /\ job'[c].op = "fork" /\ job'[c].pc = "insert" /\ job'[c].slot = s /\ job'[c].threads = job[c].threads
       /\ job'[c].row.thread = y /\ job'[c].row.messages = job[c].row.messages
  BY <1>0, <1>f1, <1>r2, <1>r3 DEF SessionTypes
<1>f7. \A d \in Callers : d # c => job'[d] = job[d]
  BY <1>0, <1>r3 DEF SessionTypes
<1>f8. crossed \subseteq crossed' /\ (s \notin crossed' => job[c].slot \notin crossed)
         /\ crossed' \subseteq crossed \cup {s} /\ crossed' \subseteq Slots
  BY <1>0, <1>y, <1>s DEF SessionTypes
<1>f9. \A u \in Threads : thread[u].st # "unused" => u # y /\ thread'[u] = thread[u]
  BY <1>f2, <1>f5
<1>r4. \A r \in Slots, u \in Threads : Refers(r, u)' => Refers(r, u)
  BY <1>u, <1>f6, <1>f7 DEF Refers
<1>r5. \A r \in Slots : ~Refers(r, y)
  BY <1>0, <1>f2 DEF Started
<1>r6. \A r \in Slots : sessions[r].thread # NoThread => thread'[sessions[r].thread] = thread[sessions[r].thread]
  <2>1. SUFFICES ASSUME NEW r \in Slots, sessions[r].thread # NoThread
                 PROVE  thread'[sessions[r].thread] = thread[sessions[r].thread]
    OBVIOUS
  <2>2. sessions[r].thread \in Threads /\ Refers(r, sessions[r].thread)
    BY <2>1, <1>0, SessionsAssumption DEF SessionTypes, Rows, Threads, NoThread, Refers
  <2> QED BY <2>2, <1>0, <1>f9 DEF Started
<1>r7. \A r \in Slots : served[r].thread # NoThread => thread'[served[r].thread] = thread[served[r].thread]
  <2>1. SUFFICES ASSUME NEW r \in Slots, served[r].thread # NoThread
                 PROVE  thread'[served[r].thread] = thread[served[r].thread]
    OBVIOUS
  <2>2. served[r].thread \in Threads /\ Refers(r, served[r].thread)
    BY <2>1, <1>0, SessionsAssumption DEF SessionTypes, Agents, Threads, NoThread, Refers
  <2> QED BY <2>2, <1>0, <1>f9 DEF Started
<1>r8. \A d \in Callers : d # c /\ job[d].op = "fork" /\ job[d].row.thread # NoThread =>
         job[d].row.thread # y /\ thread'[job[d].row.thread] = thread[job[d].row.thread]
  <2>1. SUFFICES ASSUME NEW d \in Callers, d # c, job[d].op = "fork", job[d].row.thread # NoThread
                 PROVE  job[d].row.thread # y /\ thread'[job[d].row.thread] = thread[job[d].row.thread]
    OBVIOUS
  <2>2. job[d].row.thread \in Threads /\ job[d].slot \in Slots
    BY <2>1, <1>0, SessionsAssumption DEF SessionTypes, Jobs, Rows, Threads, NoThread, Requests
  <2>3. CASE job[d].pc = "insert"
    BY <2>1, <2>2, <2>3, <1>0, <1>f9 DEF CopyApart, Copied
  <2>4. CASE job[d].pc # "insert"
    <3>1. Refers(job[d].slot, job[d].row.thread)
      BY <2>1, <2>4 DEF Refers
    <3> QED BY <3>1, <2>2, <1>0, <1>f9 DEF Started
  <2> QED BY <2>3, <2>4
<1>rn. NoThread \notin Threads
  BY SessionsAssumption DEF Threads, NoThread
<1>1. SessionTypes'
  BY <1>0, <1>t, <1>t1, <1>f8, <1>u DEF SessionTypes
<1>2. Unused' /\ Agency'
  BY <1>0, <1>u DEF Agency, Exists, Unused
<1>3. Requests'
  BY <1>0, <1>u, <1>x, <1>y, <1>s, <1>f1, <1>f2, <1>f3, <1>f4, <1>f5, <1>f6, <1>f7 DEF Requests, Looks
<1>4. Started'
  BY <1>0, <1>r4, <1>f9 DEF Started
<1>5. OneOwner'
  BY <1>0, <1>r4 DEF OneOwner
<1>6. CopyApart'
  BY <1>0, <1>r4, <1>r5, <1>f4, <1>f5, <1>f6, <1>f7 DEF CopyApart, Copied
<1>7. CopyAlone'
  BY <1>0, <1>f2, <1>f6, <1>f7 DEF CopyAlone, CopyApart, ToClose, Copied
<1>8. ToClose'
  BY <1>0, <1>r4, <1>f1, <1>f6, <1>f7, <1>f9 DEF ToClose
<1>9. Blank'
  BY <1>0, <1>f4, <1>f5 DEF Blank
<1>10. Memory'
  BY <1>0, <1>u, <1>f8, <1>r6, <1>rn DEF Memory, Existing, Exists, Agency
<1>11. Alive'
  BY <1>0, <1>u, <1>f8, <1>r7 DEF Alive, Exists
<1>12. Untouched'
  BY <1>0, <1>u, <1>x, <1>y, <1>s, <1>f1, <1>f2, <1>f3, <1>f4, <1>f5, <1>f6, <1>f7 DEF Untouched, Holds
<1>13. Open'
  BY <1>0, <1>u, <1>f1, <1>f6, <1>f7, <1>f8, <1>r6 DEF Open, Existing, Exists, About
<1>14. Copies'
  <2>1. SUFFICES ASSUME NEW d \in Callers, job'[d].op = "fork" PROVE Copies!(d)'
    BY DEF Copies
  <2>2. CASE d = c
    <3>1. job[c].slot \notin crossed => thread[x].holds = job[c].row.messages
      BY <1>0, <1>x, <1>f1 DEF Copies
    <3> QED BY <2>2, <3>1, <1>f2, <1>f5, <1>f6, <1>f8
  <2>3. CASE d # c
    BY <2>1, <2>3, <1>0, <1>u, <1>f7, <1>f8, <1>r8 DEF Copies
  <2> QED BY <2>2, <2>3
<1>15. Closing'
  BY <1>0, <1>u, <1>f1, <1>f6, <1>f7, <1>f8, <1>r6 DEF Closing, Exists
<1>16. NoThreadLeft'
  BY <1>0, <1>u, <1>f8, <1>r6 DEF NoThreadLeft
<1>17. Counted'
  BY <1>0, <1>u, <1>x, <1>y, <1>s, <1>f1, <1>f2, <1>f3, <1>f4, <1>f5, <1>f6, <1>f7 DEF Counted, Stands, Existing, Exists
<1>18. BackendOfProject'
  BY <1>0, <1>u, <1>x, <1>y, <1>s, <1>f1, <1>f2, <1>f3, <1>f4, <1>f5, <1>f6, <1>f7 DEF BackendOfProject, Existing, Exists
<1>19. Accepted'
  BY <1>0, <1>u, <1>x, <1>y, <1>s, <1>f1, <1>f2, <1>f3, <1>f4, <1>f5, <1>f6, <1>f7 DEF Accepted, Existing, Exists
<1>20. SettingsKept'
  BY <1>0, <1>u, <1>x, <1>y, <1>s, <1>f1, <1>f2, <1>f3, <1>f4, <1>f5, <1>f6, <1>f7 DEF SettingsKept, Existing, Exists
<1> QED BY <1>1, <1>2, <1>3, <1>4, <1>5, <1>6, <1>7, <1>8, <1>9, <1>10, <1>11, <1>12, <1>13, <1>14, <1>15, <1>16,
        <1>17, <1>18, <1>19, <1>20 DEF SessionsInv

\* The threads of a deletion are closed, but for one that would not close.
LEMMA Closes ==
  ASSUME SessionsInv, NEW c \in Callers, CloseThreads(c)
  PROVE  SessionsInv'
<1>0. /\ SessionTypes /\ Requests /\ Unused /\ Started /\ OneOwner /\ CopyApart /\ CopyAlone /\ ToClose /\ Blank
      /\ Agency /\ Memory /\ Alive /\ Untouched /\ Open /\ Copies /\ Closing /\ NoThreadLeft
      /\ Counted /\ BackendOfProject /\ Accepted /\ SettingsKept
  BY DEF SessionsInv
<1>u. UNCHANGED <<project, sessions, turnRow, served, wanted>>
  BY DEF CloseThreads
<1>x. PICK x : x = job[c].threads
  OBVIOUS
<1>y. PICK y \in {{}} \cup {{t} : t \in x} :
        /\ thread' = [t \in Threads |-> IF t \in x \ y THEN [thread[t] EXCEPT !.st = "closed"] ELSE thread[t]]
        /\ IF y = {} THEN UNCHANGED <<threadFaults, crossed>>
           ELSE ThreadFault /\ crossed' = crossed \cup {s \in Slots : sessions[s].thread \in y}
  BY <1>x DEF CloseThreads
<1>r. crossed \subseteq crossed' /\ crossed' \subseteq Slots /\ \A s \in Slots : sessions[s].thread \in y
        => s \in crossed'
  <2>1. crossed \subseteq Slots
    BY <1>0 DEF SessionTypes
  <2> QED BY <2>1, <1>y
<1>f1. (job[c].op = "delete" /\ job[c].pc = "call") \/ (job[c].op = "deleteProject" /\ job[c].pc = "close")
  BY DEF CloseThreads, Stands
<1>r0. job' \in [Callers -> Jobs]
  BY <1>0, Goes DEF CloseThreads, Points
<1>f2. /\ job'[c].pc = "drop" /\ job'[c].op = job[c].op /\ job'[c].slot = job[c].slot
       /\ job'[c].threads = x /\ job'[c].row = job[c].row
  BY <1>0, <1>x, Goes DEF CloseThreads, Points
<1>f3. \A d \in Callers : d # c => job'[d] = job[d]
  BY <1>0, Goes DEF CloseThreads, Points
<1>f4. x \subseteq Threads /\ \A t \in Threads : thread[t] \in ThreadStates
  BY <1>0, <1>x DEF SessionTypes, Jobs
<1>t1. thread' \in [Threads -> ThreadStates]
  <2>1. \A t \in Threads : [thread[t] EXCEPT !.st = "closed"] \in ThreadStates
    BY <1>f4 DEF ThreadStates
  <2> QED BY <2>1, <1>f4, <1>y
<1>r1. \A t \in Threads : thread'[t].st = (IF t \in x \ y THEN "closed" ELSE thread[t].st)
         /\ thread'[t].holds = thread[t].holds
  BY <1>f4, <1>y DEF ThreadStates
<1>f5. \A t \in Threads : /\ thread'[t].holds = thread[t].holds
                          /\ t \in x \ y => thread'[t].st = "closed"
                          /\ t \notin x \ y => thread'[t].st = thread[t].st
  BY <1>r1
<1>f6. \A s \in Slots : sessions[s].thread \in Threads \cup {NoThread} /\ served[s].thread \in Threads
         \cup {NoThread}
  BY <1>0, SessionsAssumption DEF SessionTypes, Rows, Agents, Threads, NoThread
<1>f7. \A d \in Callers : job[d].row.thread \in Threads \cup {NoThread}
  BY <1>0, SessionsAssumption DEF SessionTypes, Jobs, Rows, Threads, NoThread
<1>f8. crossed \subseteq crossed' /\ \A s \in Slots \ crossed' : sessions[s].thread \notin y
  BY <1>r
<1>r2. \A s \in Slots, u \in Threads : Refers(s, u)' => Refers(s, u)
  BY <1>u, <1>f1, <1>f2, <1>f3 DEF Refers
<1>r3. \A t \in Threads : (thread'[t].st = "unused" <=> thread[t].st = "unused")
         /\ (thread[t].st = "closed" => thread'[t].st = "closed")
  BY <1>0, <1>x, <1>f5 DEF ToClose
<1>r4. NoThread \notin Threads
  BY SessionsAssumption DEF Threads, NoThread
<1>r5. \A s \in Slots, t \in Threads : t \in x /\ Refers(s, t) => Holds(c, s)
  BY <1>0, <1>x, <1>f1 DEF ToClose, Holds
<1>r6. \A d \in Callers, t \in Threads : Copied(d, t) => t \notin x
  BY <1>0, <1>x DEF CopyAlone
<1>r7. \A s \in Slots, t \in Threads : sessions[s].thread = t \/ served[s].thread = t => Refers(s, t)
  BY DEF Refers
<1>r8. \A s \in Slots : Exists(s) /\ sessions[s].thread \in x => s \in About(c)
  <2>1. SUFFICES ASSUME NEW s \in Slots, Exists(s), sessions[s].thread \in x PROVE s \in About(c)
    OBVIOUS
  <2>2. Holds(c, s)
    BY <2>1, <1>f4, <1>r5, <1>r7
  <2> QED BY <2>1, <2>2, <1>f1 DEF Holds, About, Existing
<1>r9. \A d \in Callers, s \in Slots : s \in About(d) => s \in About(d)'
  BY <1>u, <1>f2, <1>f3 DEF About, Existing, Exists
<1>1. SessionTypes'
  BY <1>0, <1>r0, <1>t1, <1>r, <1>u DEF SessionTypes
<1>2. Unused' /\ Agency'
  BY <1>0, <1>u DEF Agency, Exists, Unused
<1>3. Requests'
  BY <1>0, <1>u, <1>x, <1>y, <1>f1, <1>f2, <1>f3, <1>f4, <1>f5, <1>f6 DEF Requests, Looks
<1>4. Started'
  BY <1>0, <1>r2, <1>r3 DEF Started
<1>5. OneOwner'
  BY <1>0, <1>r2 DEF OneOwner
<1>6. CopyApart'
  BY <1>0, <1>r2, <1>r6, <1>f1, <1>f2, <1>f3, <1>f5 DEF CopyApart, Copied
<1>7. CopyAlone'
  BY <1>0, <1>u, <1>x, <1>y, <1>f1, <1>f2, <1>f3, <1>f4, <1>f5, <1>f6 DEF CopyAlone, Copied
<1>8. ToClose'
  BY <1>0, <1>x, <1>r2, <1>r3, <1>f2, <1>f3 DEF ToClose
<1>9. Blank'
  BY <1>0, <1>f5, <1>r3 DEF Blank
<1>10. Memory'
  BY <1>0, <1>u, <1>f5, <1>f6, <1>f8 DEF Memory, Existing, Exists, Agency
<1>11. Alive'
  BY <1>0, <1>u, <1>f5, <1>f6, <1>f8, <1>r5, <1>r7 DEF Alive, Exists, Untouched
<1>12. Untouched'
  BY <1>0, <1>u, <1>x, <1>y, <1>f1, <1>f2, <1>f3, <1>f4, <1>f5, <1>f6 DEF Untouched, Holds
<1>13. Open'
  <2>1. SUFFICES ASSUME NEW s \in Slots, Exists(s), s \notin crossed', sessions[s].thread \in Threads
                 PROVE  thread'[sessions[s].thread].st = "live" \/ \E d \in Callers : job'[d].pc = "drop"
                          /\ s \in About(d)'
    BY <1>u, <1>f6 DEF Open, Existing, Exists
  <2>2. CASE sessions[s].thread \in x
    BY <2>1, <2>2, <1>f2, <1>r8, <1>r9
  <2>3. CASE sessions[s].thread \notin x
    <3>1. thread[sessions[s].thread].st = "live" \/ \E d \in Callers : job[d].pc = "drop" /\ s \in About(d)
      BY <2>1, <1>0, <1>f8, <1>r4 DEF Open, Existing
    <3>2. \A d \in Callers : job[d].pc = "drop" => job'[d].pc = "drop"
      BY <1>f2, <1>f3
    <3> QED BY <3>1, <3>2, <2>1, <2>3, <1>f5, <1>r9
  <2> QED BY <2>2, <2>3
<1>14. Copies'
  BY <1>0, <1>u, <1>f1, <1>f2, <1>f3, <1>f5, <1>f7, <1>f8 DEF Copies
<1>15. Closing'
  BY <1>0, <1>u, <1>x, <1>f1, <1>f2, <1>f3, <1>f5, <1>f6, <1>f8 DEF Closing, Exists
<1>16. NoThreadLeft'
  BY <1>0, <1>u, <1>f6, <1>f8, <1>r3 DEF NoThreadLeft
<1>17. Counted'
  BY <1>0, <1>u, <1>x, <1>y, <1>f1, <1>f2, <1>f3, <1>f4, <1>f5, <1>f6 DEF Counted, Stands, Existing, Exists
<1>18. BackendOfProject'
  BY <1>0, <1>u, <1>x, <1>y, <1>f1, <1>f2, <1>f3, <1>f4, <1>f5, <1>f6 DEF BackendOfProject, Existing, Exists
<1>19. Accepted'
  BY <1>0, <1>u, <1>x, <1>y, <1>f1, <1>f2, <1>f3, <1>f4, <1>f5, <1>f6 DEF Accepted, Existing, Exists
<1>20. SettingsKept'
  BY <1>0, <1>u, <1>x, <1>y, <1>f1, <1>f2, <1>f3, <1>f4, <1>f5, <1>f6 DEF SettingsKept, Existing, Exists
<1> QED BY <1>1, <1>2, <1>3, <1>4, <1>5, <1>6, <1>7, <1>8, <1>9, <1>10, <1>11, <1>12, <1>13, <1>14, <1>15, <1>16,
        <1>17, <1>18, <1>19, <1>20 DEF SessionsInv

\* The rows of a deletion go.
LEMMA Drops ==
  ASSUME SessionsInv, NEW c \in Callers, Drop(c)
  PROVE  SessionsInv'
<1>0. /\ SessionTypes /\ Requests /\ Unused /\ Started /\ OneOwner /\ CopyApart /\ CopyAlone /\ ToClose /\ Blank
      /\ Agency /\ Memory /\ Alive /\ Untouched /\ Open /\ Copies /\ Closing /\ NoThreadLeft
      /\ Counted /\ BackendOfProject /\ Accepted /\ SettingsKept
  BY DEF SessionsInv
<1>u. UNCHANGED <<served, thread, wanted, crossed>>
  BY DEF Drop
<1>x. PICK x : x = About(c)
  OBVIOUS
<1>r0. /\ sessions' = [s \in Slots |-> IF s \in x THEN [sessions[s] EXCEPT !.row = "gone"] ELSE sessions[s]]
       /\ turnRow' = [s \in Slots |-> IF s \in x THEN "none" ELSE turnRow[s]]
       /\ project' = IF job[c].op = "deleteProject" THEN [project EXCEPT !.exists = FALSE] ELSE project
  BY <1>x DEF Drop
<1>t. job' \in [Callers -> Jobs]
  BY <1>0, NoJobOK DEF SessionTypes, Drop, Leave
<1>f1. job'[c].op = "none" /\ job'[c].pc = "idle" /\ job'[c].threads = {}
  BY <1>0 DEF SessionTypes, Drop, Leave, NoJob
<1>f2. \A d \in Callers : d # c => job'[d] = job[d]
  BY <1>0 DEF SessionTypes, Drop, Leave
<1>f3. job[c].pc = "drop" /\ (job[c].op = "delete" \/ job[c].op = "deleteProject")
  BY <1>0 DEF Drop, Requests, SessionTypes, Jobs, Ops
<1>f4. \A s \in Slots : s \in x => Holds(c, s)
  BY <1>x, <1>f3 DEF Holds, About
<1>r1. \A s \in Slots : sessions[s] \in Rows
  BY <1>0 DEF SessionTypes
<1>t1. sessions' \in [Slots -> Rows] /\ turnRow' \in [Slots -> {"none", "active"}]
  <2>1. \A s \in Slots : [sessions[s] EXCEPT !.row = "gone"] \in Rows
    BY <1>r1 DEF Rows
  <2> QED BY <2>1, <1>0, <1>r0 DEF SessionTypes
<1>t2. project' \in Projects
  BY <1>0, <1>r0 DEF SessionTypes, Projects
<1>f5. /\ project'.backend = project.backend
       /\ \A s \in Slots : turnRow'[s] = IF s \in x THEN "none" ELSE turnRow[s]
  BY <1>0, <1>r0 DEF SessionTypes, Projects
<1>f6. \A s \in Slots : /\ sessions'[s].thread = sessions[s].thread /\ sessions'[s].messages = sessions[s].messages
                        /\ sessions'[s].own = sessions[s].own /\ sessions'[s].backend = sessions[s].backend
                        /\ sessions'[s].model = sessions[s].model /\ sessions'[s].auto = sessions[s].auto
                        /\ s \in x => sessions'[s].row = "gone"
                        /\ s \notin x => sessions'[s].row = sessions[s].row
  <2>1. SUFFICES ASSUME NEW s \in Slots
                 PROVE  /\ sessions'[s].thread = sessions[s].thread /\ sessions'[s].messages = sessions[s].messages
                        /\ sessions'[s].own = sessions[s].own /\ sessions'[s].backend = sessions[s].backend
                        /\ sessions'[s].model = sessions[s].model /\ sessions'[s].auto = sessions[s].auto
                        /\ s \in x => sessions'[s].row = "gone"
                        /\ s \notin x => sessions'[s].row = sessions[s].row
    OBVIOUS
  <2>2. CASE s \in x
    BY <2>1, <2>2, <1>r0, <1>r1 DEF Rows
  <2>3. CASE s \notin x
    BY <2>1, <2>3, <1>r0
  <2> QED BY <2>2, <2>3
<1>f7. Existing' = Existing \ x /\ \A s \in Slots : Exists(s)' <=> Exists(s) /\ s \notin x
  BY <1>f6 DEF Existing, Exists
<1>r2. \A s \in Slots, u \in Threads : Refers(s, u)' => Refers(s, u)
  BY <1>u, <1>f1, <1>f2, <1>f6 DEF Refers
<1>r3. \A s \in Slots \ crossed : s \in x => served[s] = NoAgent
  BY <1>0, <1>f4 DEF Untouched
<1>r4. \A s \in Slots \ crossed : s \in x
         => sessions[s].thread = NoThread \/ thread[sessions[s].thread].st = "closed"
  BY <1>0, <1>x, <1>f3 DEF Closing, About, Existing
<1>r5. \A d \in Callers, s \in Slots : d # c /\ s \in About(d) /\ s \notin x => s \in About(d)'
  BY <1>f2, <1>f7 DEF About
<1>1. SessionTypes'
  BY <1>0, <1>t, <1>t1, <1>t2, <1>u DEF SessionTypes
<1>2. Blank'
  BY <1>0, <1>u DEF Blank
<1>3. Requests'
  BY <1>0, <1>u, <1>x, <1>f1, <1>f2, <1>f3, <1>f4, <1>f5, <1>f6 DEF Requests, Looks
<1>4. Unused'
  BY <1>0, <1>u, <1>x, <1>f1, <1>f2, <1>f3, <1>f4, <1>f5, <1>f6 DEF Unused
<1>5. Started'
  BY <1>0, <1>u, <1>r2 DEF Started
<1>6. OneOwner'
  BY <1>0, <1>r2 DEF OneOwner
<1>7. CopyApart'
  BY <1>0, <1>u, <1>r2, <1>f1, <1>f2 DEF CopyApart, Copied
<1>8. CopyAlone'
  BY <1>0, <1>u, <1>x, <1>f1, <1>f2, <1>f3, <1>f4, <1>f5 DEF CopyAlone, Copied
<1>9. ToClose'
  BY <1>0, <1>u, <1>r2, <1>f1, <1>f2 DEF ToClose
<1>10. Agency'
  BY <1>0, <1>u, <1>f5, <1>f7 DEF Agency
<1>11. Memory'
  BY <1>0, <1>u, <1>f6, <1>f7 DEF Memory, Existing
<1>12. Alive'
  BY <1>0, <1>u, <1>f7, <1>r3 DEF Alive
<1>13. Untouched'
  BY <1>0, <1>u, <1>x, <1>f1, <1>f2, <1>f3, <1>f4, <1>f5 DEF Untouched, Holds
<1>14. Open'
  <2>1. SUFFICES ASSUME NEW s \in Slots, s \in Existing \ crossed, s \notin x, sessions[s].thread # NoThread
                 PROVE  thread[sessions[s].thread].st = "live" \/ \E d \in Callers : job'[d].pc = "drop"
                          /\ s \in About(d)'
    BY <1>u, <1>f6, <1>f7 DEF Open, Existing
  <2>2. thread[sessions[s].thread].st = "live" \/ \E d \in Callers : job[d].pc = "drop" /\ s \in About(d)
    BY <2>1, <1>0 DEF Open
  <2> QED BY <2>1, <2>2, <1>x, <1>f2, <1>r5
<1>15. Copies'
  BY <1>0, <1>u, <1>x, <1>f1, <1>f2, <1>f3, <1>f4, <1>f5 DEF Copies
<1>16. Closing'
  BY <1>0, <1>u, <1>f1, <1>f2, <1>f6, <1>f7 DEF Closing
<1>17. NoThreadLeft'
  BY <1>0, <1>u, <1>f6, <1>r4 DEF NoThreadLeft
<1>18. Counted'
  BY <1>0, <1>u, <1>f1, <1>f2, <1>f7 DEF Counted, Stands
<1>19. BackendOfProject'
  BY <1>0, <1>u, <1>f5, <1>f6, <1>f7 DEF BackendOfProject, Existing
<1>20. Accepted'
  BY <1>0, <1>u, <1>f1, <1>f2, <1>f6, <1>f7 DEF Accepted, Existing
<1>21. SettingsKept'
  BY <1>0, <1>u, <1>f6, <1>f7 DEF SettingsKept, Existing
<1> QED BY <1>1, <1>2, <1>3, <1>4, <1>5, <1>6, <1>7, <1>8, <1>9, <1>10, <1>11, <1>12, <1>13, <1>14, <1>15, <1>16,
        <1>17, <1>18, <1>19, <1>20, <1>21 DEF SessionsInv

\* The invariant holds of a project without sessions.
LEMMA SessionsBegin == SessionsInit => SessionsInv
<1> SUFFICES ASSUME SessionsInit PROVE SessionsInv
  OBVIOUS
<1>1. /\ turnRow = [s \in Slots |-> "none"] /\ served = [s \in Slots |-> NoAgent]
      /\ job = [c \in Callers |-> NoJob] /\ crossed = {} /\ wanted = [s \in Slots |-> <<0, 0>>]
      /\ project \in Projects
  BY DEF SessionsInit, Projects
<1>2. NoAgent \in Agents /\ NoAgent.thread = NoThread /\ NoAgent.st = "none"
  BY SessionsAssumption DEF NoAgent, NoThread, Agents
<1>3. NoJob \in Jobs /\ NoJob.op = "none" /\ NoJob.pc = "idle" /\ NoJob.threads = {}
  BY NoJobOK DEF NoJob
<1>4. /\ \A s \in Slots : turnRow[s] = "none" /\ served[s] = NoAgent /\ wanted[s] = <<0, 0>>
      /\ \A c \in Callers : job[c].op = "none" /\ job[c].pc = "idle" /\ job[c].threads = {}
  BY <1>1, <1>3
<1>5. NoSession \in Rows /\ NoSession.row = "none" /\ NoSession.thread = NoThread /\ NoSession.messages = 0
  BY NoRow
<1>6. PICK b \in {"codex", "claude"} : project = [exists |-> TRUE, backend |-> b]
  BY DEF SessionsInit
<1>7. PICK used : used = [NoSession EXCEPT !.row = "kept", !.backend = project.backend, !.thread = 1,
             !.messages = 2]
  OBVIOUS
<1>8. /\ used \in Rows /\ used.row = "kept" /\ used.thread = 1 /\ used.messages = 2
           /\ used.backend = project.backend
      /\ used.model = 0 /\ used.auto = 0
  <2>1. PICK q : q = NoSession
    OBVIOUS
  <2>2. project.backend \in {"codex", "claude"} /\ 1 \in 0..MaxThreads /\ 2 \in Nat
    BY <1>6, SessionsAssumption
  <2>3. q \in Rows /\ q.model = 0 /\ q.auto = 0
    BY <1>5, <2>1 DEF NoSession
  <2>4. [q EXCEPT !.row = "kept", !.backend = project.backend, !.thread = 1, !.messages = 2] \in Rows
    BY <2>2, <2>3 DEF Rows
  <2> QED BY <1>7, <2>1, <2>3, <2>4 DEF Rows
<1>9. 1 \in Threads /\ 1 # NoThread /\ NoThread \notin Threads
  BY SessionsAssumption DEF Threads, NoThread
<1>10. PICK one, two \in ThreadStates : /\ one = [st |-> "unused", holds |-> 0]
                                        /\ two = [st |-> "live", holds |-> 2]
  BY DEF ThreadStates
<1>11. \/ sessions = [s \in Slots |-> NoSession] /\ thread = [t \in Threads |-> one]
       \/ /\ sessions = [s \in Slots |-> IF s # First THEN NoSession ELSE used]
          /\ thread = [t \in Threads |-> IF t = 1 THEN two ELSE one]
  BY <1>7, <1>10 DEF SessionsInit
<1>12. /\ \A s \in Slots : sessions[s] = NoSession \/ (s = First /\ sessions[s] = used /\ thread[1] = two)
       /\ \A t \in Threads : thread[t] = one \/ (t = 1 /\ thread[t] = two)
       /\ sessions \in [Slots -> Rows] /\ thread \in [Threads -> ThreadStates]
  BY <1>5, <1>8, <1>9, <1>11
<1>13. one.st = "unused" /\ one.holds = 0 /\ two.st = "live" /\ two.holds = 2
  BY <1>10
<1>14. \A s \in Slots, t \in Threads : Refers(s, t) => s = First /\ t = 1 /\ thread[t] = two
  BY <1>2, <1>4, <1>5, <1>8, <1>9, <1>12 DEF Refers
<1>15. SessionTypes
  <2>1. wanted \in [Slots -> (0..1) \X (0..1)]
    BY <1>1
  <2> QED BY <1>1, <1>2, <1>3, <1>12, <2>1 DEF SessionTypes
<1>16. Requests /\ Counted /\ Copies
  BY <1>4 DEF Requests, Looks, Counted, Copies, Stands
<1>17. Unused
  BY <1>4, <1>5, <1>8, <1>12 DEF Unused
<1>18. Started /\ OneOwner
  BY <1>12, <1>13, <1>14 DEF Started, OneOwner
<1>19. CopyApart /\ CopyAlone /\ ToClose
  BY <1>4 DEF CopyApart, CopyAlone, ToClose, Copied
<1>20. Blank
  BY <1>12, <1>13 DEF Blank
<1>21. Agency /\ Alive /\ Untouched
  BY <1>2, <1>4 DEF Agency, Alive, Untouched
<1>22. Memory
  BY <1>2, <1>4, <1>5, <1>8, <1>9, <1>12, <1>13 DEF Memory, Existing, Exists
<1>23. Open /\ NoThreadLeft
  BY <1>4, <1>5, <1>8, <1>12, <1>13 DEF Open, NoThreadLeft, Existing, Exists
<1>24. Closing
  BY <1>4 DEF Closing
<1>25. BackendOfProject
  BY <1>5, <1>8, <1>12 DEF BackendOfProject, Existing, Exists
<1>26. Accepted
  BY <1>4 DEF Accepted
<1>27. SettingsKept
  BY <1>4, <1>5, <1>8, <1>12 DEF SettingsKept, Existing, Exists
<1> QED BY <1>15, <1>16, <1>17, <1>18, <1>19, <1>20, <1>21, <1>22, <1>23, <1>24, <1>25, <1>26, <1>27
        DEF SessionsInv

\* A request that reads, checks or asks the runner, and changes no row.
LEMMA CallersMove ==
  ASSUME SessionsInv, NEW c \in Callers,
         \/ AskCreate(c) \/ AskBackend(c) \/ AskSettings(c) \/ AskTurn(c) \/ AskFork(c) \/ AskCompact(c)
         \/ AskDeletion(c, "delete") \/ AskDeletion(c, "deleteProject")
         \/ InsertFails(c) \/ CountSessions(c) \/ CheckIdle(c) \/ CompactBegins(c) \/ CompactEnds(c)
         \/ ReadForDelete(c) \/ ListForDelete(c)
  PROVE  SessionsInv'
<1>1. CASE AskCreate(c)
  BY <1>1, AsksToCreate
<1>2. CASE AskBackend(c)
  BY <1>2, AsksForBackend
<1>3. CASE AskSettings(c)
  <2>1. PICK field \in {"model", "auto"} : AskOf(c, "settings", field)
    BY <1>3 DEF AskSettings
  <2> QED BY <2>1, Asks
<1>4. CASE AskTurn(c)
  BY <1>4, Asks DEF AskTurn
<1>5. CASE AskFork(c)
  BY <1>5, Asks DEF AskFork
<1>6. CASE AskCompact(c)
  BY <1>6, Asks DEF AskCompact
<1>7. CASE AskDeletion(c, "delete") \/ AskDeletion(c, "deleteProject")
  BY <1>7, AsksToDelete
<1>8. CASE InsertFails(c)
  <2>1. Leave(c) /\ job[c].pc # "drop" /\ UNCHANGED <<project, sessions, turnRow, served, thread, wanted, crossed>>
    BY <1>8 DEF InsertFails
  <2> QED BY <2>1, Leaves
<1>9. CASE CountSessions(c)
  <2>1. /\ Stands(c, "backend", "count") /\ job[c].pc # "drop"
        /\ (Existing # {} /\ Leave(c)) \/ (Existing = {} /\ Goto(c, "write"))
        /\ UNCHANGED <<project, sessions, turnRow, served, thread, wanted, crossed>>
    BY <1>9 DEF CountSessions, Stands
  <2> QED BY <2>1, Leaves, Counts
<1>10. CASE CheckIdle(c)
  <2>1. /\ job[c].pc = "check" /\ UNCHANGED <<project, sessions, turnRow, served, thread, wanted, crossed>>
        /\ \/ Leave(c)
           \/ /\ Goto(c, "call") /\ About(c) \cap ActiveTurns = {}
              /\ job[c].op \in {"fork", "compact"} => job[c].row.thread # NoThread
    BY <1>10 DEF CheckIdle
  <2> QED BY <2>1, Leaves, Passes
<1>11. CASE CompactBegins(c)
  <2>1. /\ Stands(c, "compact", "call") /\ job[c].pc # "drop" /\ (Goto(c, "compacting") \/ Leave(c))
        /\ UNCHANGED <<project, sessions, turnRow, served, thread, wanted, crossed>>
    BY <1>11 DEF CompactBegins, Stands
  <2> QED BY <2>1, Leaves, Compacts
<1>12. CASE CompactEnds(c)
  <2>1. Leave(c) /\ job[c].pc # "drop" /\ UNCHANGED <<project, sessions, turnRow, served, thread, wanted, crossed>>
    BY <1>12 DEF CompactEnds, Stands
  <2> QED BY <2>1, Leaves
<1>13. CASE ReadForDelete(c)
  <2>1. /\ job[c].pc = "queued" /\ UNCHANGED <<project, sessions, turnRow, served, thread, wanted, crossed>>
        /\ \/ Leave(c)
           \/ job' = [job EXCEPT ![c] = [@ EXCEPT !.pc = "check",
                        !.threads = IF job[c].op = "delete"
                                      THEN {sessions[job[c].slot].thread} \ {NoThread} ELSE {}]]
    BY <1>13 DEF ReadForDelete
  <2> QED BY <2>1, Leaves, ReadsToDelete
<1>14. CASE ListForDelete(c)
  BY <1>14, Lists
<1> QED BY <1>1, <1>2, <1>3, <1>4, <1>5, <1>6, <1>7, <1>8, <1>9, <1>10, <1>11, <1>12, <1>13, <1>14

\* A request that writes: a row, a thread, or a turn.
LEMMA CallersWrite ==
  ASSUME SessionsInv, NEW c \in Callers,
         \/ InsertSession(c) \/ WriteBackend(c) \/ WriteSettings(c) \/ InsertTurn(c)
         \/ ForkThread(c) \/ InsertFork(c)
         \/ CloseThreads(c) \/ Drop(c)
  PROVE  SessionsInv'
<1>1. CASE InsertSession(c)
  <2>1. job[c].op = "create" /\ job[c].pc = "insert" /\ Insert(c, job[c].row)
    BY <1>1 DEF InsertSession, Stands
  <2> QED BY <2>1, Inserts
<1>2. CASE InsertFork(c)
  <2>1. job[c].op = "fork" /\ job[c].pc = "insert" /\ Insert(c, job[c].row)
    BY <1>2 DEF InsertFork, Stands
  <2> QED BY <2>1, Inserts
<1>3. CASE WriteBackend(c)
  BY <1>3, WritesBackend
<1>4. CASE WriteSettings(c)
  BY <1>4, WritesSettings
<1>5. CASE InsertTurn(c)
  <2>1. CASE Exists(job[c].slot) /\ turnRow[job[c].slot] = "none"
    BY <1>5, <2>1, InsertsTurn
  <2>2. CASE ~(Exists(job[c].slot) /\ turnRow[job[c].slot] = "none")
    <3>1. Leave(c) /\ job[c].pc # "drop"
            /\ UNCHANGED <<project, sessions, turnRow, served, thread, wanted, crossed>>
      BY <1>5, <2>2 DEF InsertTurn, Stands
    <3> QED BY <3>1, Leaves
  <2> QED BY <2>1, <2>2
<1>6. CASE ForkThread(c)
  <2>1. CASE thread[job[c].row.thread].st # "closed"
    BY <1>6, <2>1, Forks
  <2>2. CASE thread[job[c].row.thread].st = "closed"
    <3>1. Leave(c) /\ job[c].pc # "drop"
            /\ UNCHANGED <<project, sessions, turnRow, served, thread, wanted, crossed>>
      BY <1>6, <2>2 DEF ForkThread, Stands
    <3> QED BY <3>1, Leaves
  <2> QED BY <2>1, <2>2
<1>7. CASE CloseThreads(c)
  BY <1>7, Closes
<1>8. CASE Drop(c)
  BY <1>8, Drops
<1> QED BY <1>1, <1>2, <1>3, <1>4, <1>5, <1>6, <1>7, <1>8

\* Every step keeps the invariant.
LEMMA SessionsSteps == SessionsInv /\ [SessionsNext]_sessionVars => SessionsInv'
<1> SUFFICES ASSUME SessionsInv, [SessionsNext]_sessionVars PROVE SessionsInv'
  OBVIOUS
<1>1. CASE UNCHANGED sessionVars
  <2>0. UNCHANGED <<project, sessions, turnRow, served, thread, job, lock, calls, threadFaults, wanted, crossed>>
    BY <1>1 DEF sessionVars
  <2>1. SessionTypes' /\ Blank' /\ Counted' /\ BackendOfProject' /\ Accepted' /\ SettingsKept'
    BY <2>0 DEF SessionsInv, SessionTypes, Blank, Counted, BackendOfProject, Accepted, SettingsKept, Existing,
                Exists, Stands
  <2>2. Requests' /\ Unused' /\ Started' /\ OneOwner'
    BY <2>0 DEF SessionsInv, Requests, Looks, Unused, Started, OneOwner, Refers
  <2>3. CopyApart' /\ CopyAlone' /\ ToClose' /\ Copies' /\ Closing' /\ NoThreadLeft'
    BY <2>0 DEF SessionsInv, CopyApart, CopyAlone, Copied, Refers, ToClose, Copies, Closing, NoThreadLeft,
                Existing, Exists
  <2>4. Agency' /\ Memory' /\ Alive' /\ Untouched' /\ Open'
    BY <2>0 DEF SessionsInv, Agency, Memory, Alive, Untouched, Holds, Open, About, Existing, Exists
  <2> QED BY <2>1, <2>2, <2>3, <2>4 DEF SessionsInv
<1>2. ASSUME NEW s \in Slots, AgentBegins(s) \/ AgentReturns(s) \/ AgentFails(s) PROVE SessionsInv'
  BY <1>2, BeginsThread, Returns, Fails
<1>3. CASE SessionsNext
  BY <1>2, <1>3, CallersMove, CallersWrite DEF SessionsNext
<1> QED BY <1>1, <1>3

\* Every part of the invariant holds in every state: requests that read, wait for the runner and
\* write, whatever their number and their order.
THEOREM SessionsInvariant == SessionsSpec => []SessionsInv
BY SessionsBegin, SessionsSteps, PTL DEF SessionsSpec

\* Sessions go on with threads of their own that remember their history; no agent runs on what is
\* gone, closed or being compacted; what is deleted leaves no thread open; backends and settings are
\* the ones last accepted: unless the history variable names a crossing (projects.service.ts,
\* sessions.service.ts, createTurn).
THEOREM SessionsAreSafe == SessionsSpec => []SessionsSafe
<1>1. SessionsInv => SessionsSafe
  <2> SUFFICES ASSUME SessionsInv PROVE SessionsSafe
    OBVIOUS
  <2>1. SessionTypes /\ OneOwner /\ Memory /\ Alive /\ Untouched /\ NoThreadLeft /\ BackendOfProject
          /\ SettingsKept
    BY DEF SessionsInv
  <2>2. ThreadsRemember
    BY <2>1 DEF ThreadsRemember, Memory
  <2>3. ThreadsApart
    <3> SUFFICES ASSUME NEW s \in Existing, NEW r \in Existing, s # r, sessions[s].thread # NoThread,
                        sessions[s].thread = sessions[r].thread
                 PROVE  FALSE
      BY DEF ThreadsApart
    <3>1. s \in Slots /\ r \in Slots
      BY DEF Existing
    <3>2. PICK t : t = sessions[s].thread
      OBVIOUS
    <3>3. t \in Threads
      BY <2>1, <3>1, <3>2 DEF SessionTypes, Rows, Threads, NoThread
    <3>4. Refers(s, t) /\ Refers(r, t)
      BY <3>2 DEF Refers
    <3> QED BY <2>1, <3>1, <3>3, <3>4 DEF OneOwner
  <2>4. IdleWhenTouched
    <3>1. \A c \in Callers, s \in Slots : Stands(c, "compact", "compacting") /\ job[c].slot = s => Holds(c, s)
      BY DEF Stands, Holds
    <3> QED BY <2>1, <3>1 DEF IdleWhenTouched, Alive, Untouched
  <2> QED BY <2>1, <2>2, <2>3, <2>4 DEF SessionsSafe
<1> QED BY <1>1, SessionsInvariant, PTL
=============================================================================
