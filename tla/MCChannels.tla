----------------------------- MODULE MCChannels -----------------------------
(***************************************************************************)
(* What carries messages to and from a turn: the outbox, the messages sent *)
(* to a turn that runs and, of the Discord plugin, its bindings, its       *)
(* inbound messages, its reactions and its connection. They share no state *)
(* that their models keep, so that a behaviour is one of a single part,    *)
(* chosen at the start; the others stay as they are.                       *)
(***************************************************************************)
EXTENDS Outbox, DiscordBindings, DiscordInbound, DiscordReactions, DiscordRuntime,
        SteeringInputs

VARIABLE part

TwoRows == 1..2
FiveRuntimes == 1..5

ChannelsInit ==
  /\ part \in {"outbox", "bindings", "inbound", "reactions", "runtime", "steering"}
  /\ OutboxInit /\ BindingsInit /\ InboundInit /\ ReactionsInit /\ RuntimeInit /\ SteeringInit

ChannelsNext ==
  /\ UNCHANGED part
  /\ \/ part = "outbox" /\ OutboxNext
        /\ UNCHANGED <<bindingVars, inboundVars, reactionVars, runtimeVars, steeringVars>>
     \/ part = "bindings" /\ BindingsNext
        /\ UNCHANGED <<outboxVars, inboundVars, reactionVars, runtimeVars, steeringVars>>
     \/ part = "inbound" /\ InboundNext
        /\ UNCHANGED <<outboxVars, bindingVars, reactionVars, runtimeVars, steeringVars>>
     \/ part = "reactions" /\ ReactionsNext
        /\ UNCHANGED <<outboxVars, bindingVars, inboundVars, runtimeVars, steeringVars>>
     \/ part = "runtime" /\ RuntimeNext
        /\ UNCHANGED <<outboxVars, bindingVars, inboundVars, reactionVars, steeringVars>>
     \/ part = "steering" /\ SteeringNext
        /\ UNCHANGED <<outboxVars, bindingVars, inboundVars, reactionVars, runtimeVars>>

\* Awaited calls return, the timers fire, time passes and the process is started again; users and
\* the agent owe nothing.
OutboxFairness ==
  /\ \A l \in Loops : WF_outboxVars(part = "outbox" /\ LoopStep(l))
  /\ WF_outboxVars(part = "outbox" /\ \E m \in Messages : LeaseExpires(m) \/ PublishWake(m))
  /\ WF_outboxVars(part = "outbox" /\ \E s \in late : LateSend(s))
  /\ WF_outboxVars(part = "outbox" /\ (Poll \/ Boot))

BindingsFairness ==
  /\ \A k \in Tasks : WF_bindingVars(part = "bindings" /\ TaskMoves(k))
  /\ WF_bindingVars(part = "bindings" /\ (ReconcileList \/ ReconcileApply))

InboundFairness ==
  \A m \in Inbound : WF_inboundVars(part = "inbound" /\ (HandlerStep(m) \/ FallbackTimer(m)))

\* Network calls return, in 20 s at the latest, and the heartbeat ticks.
ReactionsFairness ==
  /\ \A m \in Noted :
       WF_reactionVars(/\ part = "reactions"
                       /\ \E k \in marks : k.msg = m /\ (React(k) \/ EnsureTypingHeartbeat(k)))
  /\ WF_reactionVars(part = "reactions" /\ SendTypingPulse)

RuntimeFairness ==
  /\ WF_runtimeVars(part = "runtime" /\ WriteHealth)
  /\ WF_runtimeVars(part = "runtime" /\ (ReconnectTimer \/ Reconnect))
  /\ WF_runtimeVars(part = "runtime" /\ (LoginSucceeds \/ LoginFails))
  /\ WF_runtimeVars(part = "runtime" /\ StrayLoginReturns)
  /\ WF_runtimeVars(part = "runtime" /\ (ReconcileStart \/ ReconcileCompare \/ ReconcileCreate))

\* Requests are answered, the chain, the page and the runner go on.
SteeringFairness ==
  /\ WF_steeringVars(part = "steering" /\ PostMoves)
  /\ WF_steeringVars(part = "steering" /\ JobMoves)
  /\ WF_steeringVars(part = "steering" /\ PageMoves)
  /\ WF_steeringVars(part = "steering" /\ RunnerMoves)

ChannelsSpec ==
  /\ ChannelsInit
  /\ [][ChannelsNext]_<<part, outboxVars, bindingVars, inboundVars, reactionVars, runtimeVars, steeringVars>>
  /\ OutboxFairness /\ BindingsFairness /\ InboundFairness /\ ReactionsFairness /\ RuntimeFairness
  /\ SteeringFairness

ChannelsTypeOK ==
  OutboxTypeOK /\ BindingsTypeOK /\ InboundTypeOK /\ ReactionsTypeOK /\ RuntimeTypeOK /\ SteeringTypeOK

\* The Discord plugin comes to rest: its memory agrees with the bindings stored, it stops typing and
\* its connection recovers or is given up (reconcileBindings, sendTypingPulse, scheduleRuntimeRecovery).
PluginSettles == MemoryCatchesUp /\ TypingGoesQuiet /\ RuntimeSettles

\* No message is left behind: every row of the outbox and every steered input settles, and an
\* inbound message is acted on (claimPendingDeliveries, dispatchSteeringInput, handleRawPacket).
MessagesSettle == EveryRowSettles /\ InboundAnswered /\ InputsSettle
=============================================================================
