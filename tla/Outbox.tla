------------------------------- MODULE Outbox -------------------------------
(***************************************************************************)
(* The channel outbox: rows of BotMessage, the wake-up signal, the         *)
(* dispatch loop of the gateway with its 30 s lease on each row, and the   *)
(* sends to the bound plugins.  (channels.service.ts,                      *)
(* channels-gateway.service.ts, queue-signal.service.ts)                   *)
(***************************************************************************)
EXTENDS Naturals, Sequences, FiniteSets, SequencesExt

CONSTANTS
  Messages,   \* the rows in order of createdAt: 1..n
  Bindings,   \* targets bound by an integration's configuration (Discord)
  Web,        \* the plugin that is bound to every session
  Limit,      \* rows one pull returns (20)
  Loops,      \* invocations of dispatchLoop that may exist
  MaxOutboxFaults   \* bound on crashes and failed database calls and sends

ASSUME OutboxAssumption ==
  /\ Cardinality(Messages) \in Nat /\ Messages = 1..Cardinality(Messages)
  /\ Web \notin Bindings
  /\ Limit \in Nat \ {0} /\ MaxOutboxFaults \in Nat

Targets == Bindings \cup {Web}

VARIABLES
  row,           \* the row: "none", "queued", "sending", "sent", "failed"
  rowKind,       \* the row: "event" or "other"
  lease,         \* "none", or whether leaseExpireAt has passed: "held", "expired"
  apiUp,         \* the API process runs
  dispatching,   \* the gateway's flag
  requested,     \* the gateway's dispatchRequested
  loops,         \* for each invocation of dispatchLoop, where it stands
  wakes,         \* rows whose wake-up is not published yet
  late,          \* sends nobody waits for any more: [msg, to]
  inbox,         \* what each target got, in order
  outboxFaults,  \* faults so far
  aborted,       \* history: the last loop ended with an error
  excused        \* history: rows whose sending a fault disturbed

rows == <<row, rowKind, lease>>
outboxVars == <<row, rowKind, lease, apiUp, dispatching, requested, loops, wakes, late, inbox,
                outboxFaults, aborted, excused>>

Off == [pc |-> "off", batch |-> <<>>, to |-> {}, done |-> {}]
Pcs == {"off", "pull", "pulled", "resolve", "claim", "hydrate", "send", "reportSent", "reportFailed"}

OutboxTypeOK ==
  /\ row \in [Messages -> {"none", "queued", "sending", "sent", "failed"}]
  /\ rowKind \in [Messages -> {"event", "other"}]
  /\ lease \in [Messages -> {"none", "held", "expired"}]
  /\ apiUp \in BOOLEAN /\ dispatching \in BOOLEAN /\ requested \in BOOLEAN
  /\ loops \in [Loops -> [pc : Pcs, batch : Seq(Messages), to : SUBSET Targets, done : SUBSET Targets]]
  /\ wakes \subseteq Messages /\ excused \subseteq Messages
  /\ late \subseteq [msg : Messages, to : Targets]
  /\ inbox \in [Targets -> Seq(Messages)]
  /\ outboxFaults \in 0..MaxOutboxFaults /\ aborted \in BOOLEAN

OutboxInit ==
  /\ row = [m \in Messages |-> "none"]
  /\ rowKind = [m \in Messages |-> "event"]
  /\ lease = [m \in Messages |-> "none"]
  /\ apiUp = TRUE /\ dispatching = FALSE /\ requested = FALSE
  /\ loops = [l \in Loops |-> Off]
  /\ wakes = {} /\ late = {} /\ excused = {}
  /\ inbox = [t \in Targets |-> <<>>]
  /\ outboxFaults = 0 /\ aborted = FALSE

OutboxFault == outboxFaults < MaxOutboxFaults /\ outboxFaults' = outboxFaults + 1

Claimable_OnlyQueued(m) == row[m] = "queued"
Claimable(m) == row[m] = "queued" \/ (row[m] = "sending" /\ lease[m] = "expired")

\* The order of a pull: everything but events first, each kind by age.
Precedes(m, n) ==
  \/ rowKind[m] = "other" /\ rowKind[n] = "event"
  \/ rowKind[m] = rowKind[n] /\ m < n

\* What a pull finds: the first claimable rows in that order, Limit of them at most.
Pulled(batch) ==
  /\ \A i \in DOMAIN batch : Claimable(batch[i])
  /\ \A i, j \in DOMAIN batch : i < j => Precedes(batch[i], batch[j])
  /\ \A m \in Messages : Claimable(m) =>
       \/ \E i \in DOMAIN batch : batch[i] = m
       \/ Len(batch) = Limit /\ \A i \in DOMAIN batch : Precedes(batch[i], m)

\* The part of requestDispatch that finds no loop running starts one.
RequestDispatch ==
  IF dispatching
  THEN requested' = TRUE /\ UNCHANGED <<dispatching, loops, aborted>>
  ELSE \E l \in Loops :
         /\ loops[l] = Off
         /\ loops' = [loops EXCEPT ![l].pc = "pull"]
         /\ dispatching' = TRUE /\ aborted' = FALSE
         /\ UNCHANGED requested

-----------------------------------------------------------------------------
\* The producers and the signals.

\* appendEventNow, enqueueInboundUserMessageFanout, sendMessage: the row is committed, then
\* the wake-up is published.
Enqueue(m) ==
  /\ apiUp /\ row[m] = "none"
  /\ \A n \in Messages : n < m => row[n] # "none"
  /\ row' = [row EXCEPT ![m] = "queued"]
  /\ \E k \in {"event", "other"} : rowKind' = [rowKind EXCEPT ![m] = k]
  /\ wakes' = wakes \cup {m}
  /\ UNCHANGED <<lease, apiUp, dispatching, requested, loops, late, inbox, outboxFaults, aborted, excused>>

PublishWake(m) ==
  /\ apiUp /\ m \in wakes
  /\ wakes' = wakes \ {m}
  /\ RequestDispatch
  /\ UNCHANGED <<rows, apiUp, late, inbox, outboxFaults, excused>>

\* The 5 s fallback timer.
Poll ==
  /\ apiUp
  /\ RequestDispatch
  /\ UNCHANGED <<rows, apiUp, wakes, late, inbox, outboxFaults, excused>>

-----------------------------------------------------------------------------
\* dispatchLoop.

\* The end of the loop, by the empty pull or by an error: the finally block.
EndLoop(l) ==
  /\ requested' = FALSE
  /\ dispatching' = requested
  /\ loops' = [loops EXCEPT ![l] = IF requested THEN [Off EXCEPT !.pc = "pull"] ELSE Off]

\* The loop goes on with the next row of the batch, or pulls again.
NextMessage(l) ==
  loops' = [loops EXCEPT ![l] =
              [Off EXCEPT !.batch = Tail(loops[l].batch),
                          !.pc = IF Len(loops[l].batch) = 1 THEN "pull" ELSE "resolve"]]

Goto(l, pc) == loops' = [loops EXCEPT ![l].pc = pc]

\* The queries run; what they found is looked at one await later.
Pull(l) ==
  /\ loops[l].pc = "pull"
  /\ \E n \in 0..Limit : \E batch \in [1..n -> Messages] :
       /\ Pulled(batch)
       /\ loops' = [loops EXCEPT ![l].pc = "pulled", ![l].batch = batch]
  /\ UNCHANGED <<rows, apiUp, dispatching, requested, wakes, late, inbox, outboxFaults, aborted, excused>>

Batch(l) ==
  /\ loops[l].pc = "pulled"
  /\ IF loops[l].batch = <<>>
     THEN EndLoop(l)
     ELSE Goto(l, "resolve") /\ UNCHANGED <<dispatching, requested>>
  /\ UNCHANGED <<rows, apiUp, wakes, late, inbox, outboxFaults, aborted, excused>>

\* A pull or a look-up of bindings that throws ends the loop.
LoopFails(l) ==
  /\ loops[l].pc \in {"pull", "resolve"}
  /\ OutboxFault
  /\ EndLoop(l)
  /\ aborted' = ~requested
  /\ UNCHANGED <<rows, apiUp, wakes, late, inbox, excused>>

ResolveDeliveries_BoundOnly(l) ==
  /\ loops[l].pc = "resolve"
  /\ \E bound \in SUBSET Bindings :
       loops' = [loops EXCEPT ![l].pc = "claim", ![l].to = bound]
  /\ UNCHANGED <<rows, apiUp, dispatching, requested, wakes, late, inbox, outboxFaults, aborted, excused>>

\* findDeliveriesForMessage: the bindings of active integrations, and the web plugin always.
ResolveDeliveries(l) ==
  /\ loops[l].pc = "resolve"
  /\ \E bound \in SUBSET Bindings :
       loops' = [loops EXCEPT ![l].pc = "claim", ![l].to = bound \cup {Web}]
  /\ UNCHANGED <<rows, apiUp, dispatching, requested, wakes, late, inbox, outboxFaults, aborted, excused>>

\* A row that is not claimable any more is left alone.
Claim(l) ==
  LET m == Head(loops[l].batch)
  IN /\ loops[l].pc = "claim"
     /\ IF Claimable(m)
        THEN /\ row' = [row EXCEPT ![m] = "sending"]
             /\ lease' = [lease EXCEPT ![m] = "held"]
             /\ Goto(l, "hydrate")
        ELSE NextMessage(l) /\ UNCHANGED <<row, lease>>
     /\ UNCHANGED <<rowKind, apiUp, dispatching, requested, wakes, late, inbox, outboxFaults, aborted, excused>>

\* The sends start together; the web plugin's is over before the first await.
Hydrate(l) ==
  /\ loops[l].pc = "hydrate"
  /\ inbox' = [t \in Targets |-> IF t = Web /\ t \in loops[l].to
                                 THEN Append(inbox[t], Head(loops[l].batch)) ELSE inbox[t]]
  /\ loops' = [loops EXCEPT ![l].done = {Web} \cap loops[l].to,
                            ![l].pc = IF loops[l].to \subseteq {Web} THEN "reportSent" ELSE "send"]
  /\ UNCHANGED <<rows, apiUp, dispatching, requested, wakes, late, outboxFaults, aborted, excused>>

\* The claim, the look-up of the event or the report of success throws.
DispatchFails(l) ==
  /\ loops[l].pc \in {"claim", "hydrate", "reportSent"}
  /\ OutboxFault
  /\ Goto(l, "reportFailed")
  /\ UNCHANGED <<rows, apiUp, dispatching, requested, wakes, late, inbox, aborted, excused>>

\* One plugin's sendMessage succeeds; Promise.all waits for all of them.
SendSucceeds(l, t) ==
  LET m == Head(loops[l].batch)
      done == loops[l].done \cup {t}
  IN /\ loops[l].pc = "send" /\ t \in loops[l].to \ loops[l].done
     /\ inbox' = [inbox EXCEPT ![t] = Append(@, m)]
     /\ loops' = [loops EXCEPT ![l].done = done,
                               ![l].pc = IF done = loops[l].to THEN "reportSent" ELSE "send"]
     /\ UNCHANGED <<rows, apiUp, dispatching, requested, wakes, late, outboxFaults, aborted, excused>>

\* One plugin's sendMessage throws, perhaps after a part of the message was sent; the sends
\* still in progress go on without anybody waiting for them. The web plugin cannot fail.
SendFails(l, t) ==
  LET m == Head(loops[l].batch)
      left == (loops[l].to \ loops[l].done) \ {t}
  IN /\ loops[l].pc = "send" /\ t \in loops[l].to \ loops[l].done
     /\ OutboxFault
     /\ \E partly \in BOOLEAN : inbox' = IF partly THEN [inbox EXCEPT ![t] = Append(@, m)] ELSE inbox
     /\ late' = late \cup [msg : {m}, to : left]
     /\ excused' = IF left = {} THEN excused ELSE excused \cup {m}
     /\ Goto(l, "reportFailed")
     /\ UNCHANGED <<rows, apiUp, dispatching, requested, wakes, aborted>>

\* reportOutboundResultForGateway writes the row whoever claimed it.
ReportSent(l) ==
  LET m == Head(loops[l].batch)
  IN /\ loops[l].pc = "reportSent"
     /\ row' = [row EXCEPT ![m] = "sent"]
     /\ lease' = [lease EXCEPT ![m] = "none"]
     /\ NextMessage(l)
     /\ UNCHANGED <<rowKind, apiUp, dispatching, requested, wakes, late, inbox, outboxFaults, aborted, excused>>

ReportFailed_Retries(l) ==
  LET m == Head(loops[l].batch)
  IN /\ loops[l].pc = "reportFailed"
     /\ row' = [row EXCEPT ![m] = "queued"]
     /\ lease' = [lease EXCEPT ![m] = "none"]
     /\ NextMessage(l)
     /\ UNCHANGED <<rowKind, apiUp, dispatching, requested, wakes, late, inbox, outboxFaults, aborted, excused>>

ReportFailed(l) ==
  LET m == Head(loops[l].batch)
  IN /\ loops[l].pc = "reportFailed"
     /\ row' = [row EXCEPT ![m] = "failed"]
     /\ lease' = [lease EXCEPT ![m] = "none"]
     /\ NextMessage(l)
     /\ UNCHANGED <<rowKind, apiUp, dispatching, requested, wakes, late, inbox, outboxFaults, aborted, excused>>

\* A report of failure that throws too is swallowed: the row stays as it is.
ReportFailedFails(l) ==
  /\ loops[l].pc = "reportFailed"
  /\ NextMessage(l)
  /\ excused' = excused \cup {Head(loops[l].batch)}
  /\ UNCHANGED <<rows, apiUp, dispatching, requested, wakes, late, inbox, outboxFaults, aborted>>

-----------------------------------------------------------------------------
\* Time, the providers and the process.

LateSend(s) ==
  /\ s \in late
  /\ late' = late \ {s}
  /\ \E arrives \in BOOLEAN :
       inbox' = IF arrives THEN [inbox EXCEPT ![s.to] = Append(@, s.msg)] ELSE inbox
  /\ UNCHANGED <<rows, apiUp, dispatching, requested, loops, wakes, outboxFaults, aborted, excused>>

\* 30 s pass. A request given up on arrives sooner than that or never.
LeaseExpires(m) ==
  /\ lease[m] = "held"
  /\ \A s \in late : s.msg # m
  /\ lease' = [lease EXCEPT ![m] = "expired"]
  /\ UNCHANGED <<row, rowKind, apiUp, dispatching, requested, loops, wakes, late, inbox, outboxFaults, aborted, excused>>

Crash ==
  LET claimed == {l \in Loops : loops[l].pc \in {"hydrate", "send", "reportSent", "reportFailed"}}
      sending == {l \in Loops : loops[l].pc = "send"}
  IN /\ apiUp /\ OutboxFault
     /\ apiUp' = FALSE /\ dispatching' = FALSE /\ requested' = FALSE
     /\ loops' = [l \in Loops |-> Off]
     /\ wakes' = {} /\ aborted' = FALSE
     /\ late' = late \cup UNION {[msg : {Head(loops[l].batch)}, to : loops[l].to \ loops[l].done] : l \in sending}
     /\ excused' = excused \cup {Head(loops[l].batch) : l \in claimed}
     /\ UNCHANGED <<rows, inbox>>

\* onModuleInit asks for a dispatch at once. The requests of the dead process arrived before or never.
Boot ==
  /\ ~apiUp /\ late = {} /\ apiUp' = TRUE
  /\ RequestDispatch
  /\ UNCHANGED <<rows, wakes, late, inbox, outboxFaults, excused>>

-----------------------------------------------------------------------------
Send(l) == \E t \in Targets : SendSucceeds(l, t) \/ SendFails(l, t)

LoopStep(l) ==
  \/ Pull(l) \/ Batch(l) \/ LoopFails(l) \/ ResolveDeliveries(l)
  \/ Claim(l) \/ Hydrate(l) \/ DispatchFails(l) \/ Send(l)
  \/ ReportSent(l) \/ ReportFailed(l) \/ ReportFailedFails(l)

OutboxNext ==
  \/ \E m \in Messages : Enqueue(m) \/ PublishWake(m) \/ LeaseExpires(m)
  \/ \E l \in Loops : LoopStep(l)
  \/ \E s \in late : LateSend(s)
  \/ Poll \/ Crash \/ Boot

OutboxSpec == OutboxInit /\ [][OutboxNext]_outboxVars

-----------------------------------------------------------------------------
Outcome == [m \in Messages |-> IF row[m] \in {"queued", "sending"} THEN "open" ELSE row[m]]
Reached == [m \in Messages |-> {t \in Targets : m \in ToSet(inbox[t])}]

Promise == INSTANCE Delivery
  WITH AlwaysBound <- {Web}, outcome <- Outcome, reached <- Reached, disturbed <- excused

\* The outbox keeps what Delivery promises, whatever crashes and fails: nothing is sent before it
\* was queued, a row is settled once, every row settled as sent has reached the web plugin
\* (channels-gateway.service.ts:391), and nothing is sent after it was settled unless a fault left
\* a send of it behind while its lease was held.
KeepsPromise == Promise!Spec

Times(m, t) == Cardinality({i \in DOMAIN inbox[t] : inbox[t][i] = m})

\* A target gets a row twice only if the process died while the row was being sent, or neither of its reports
\* could be written: retries come from an expired lease and from nothing else.
DuplicateIsExcused == \A m \in Messages, t \in Targets : Times(m, t) > 1 => m \in excused

\* Each target gets the events in the order in which they were appended, except for one whose
\* sending a fault disturbed: the loop is single, it pulls by age and it awaits each row.
EventsInOrder ==
  \A t \in Targets : \A i, j \in DOMAIN inbox[t] :
    LET m == inbox[t][i]
        n == inbox[t][j]
    IN i < j /\ rowKind[m] = "event" /\ rowKind[n] = "event" /\ n < m => n \in excused

\* A wake-up is never lost: while no loop runs, a queued row still has its wake-up to come, or the last
\* loop died of an error (then the 5 s poll finds the row).
NoIdleBacklog ==
  apiUp /\ ~dispatching /\ ~aborted =>
    \A m \in Messages : row[m] = "queued" => m \in wakes

OutboxSafe == DuplicateIsExcused /\ EventsInOrder /\ NoIdleBacklog

\* In the end every row is settled, over crashes, failed calls and lost reports
\* (channels.service.ts:269, channels-gateway.service.ts:327).
EveryRowSettles == <>[](\A m \in Messages : row[m] \notin {"queued", "sending"})
=============================================================================
