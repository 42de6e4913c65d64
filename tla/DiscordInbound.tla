--------------------------- MODULE DiscordInbound ---------------------------
(***************************************************************************)
(* What a Discord runtime does with the messages of one bound channel: two *)
(* sources report each message; one handler steers the active turn of the  *)
(* session or creates a new one. What it shows of that on the message is   *)
(* in DiscordReactions. (discord.plugin.ts)                                *)
(***************************************************************************)
EXTENDS Naturals, FiniteSets

CONSTANTS
  Inbound,          \* the messages users write
  MaxInboundFaults  \* bound on calls that fail

ASSUME InboundAssumption == MaxInboundFaults \in Nat

VARIABLES
  handler,        \* where the handler of a message stands; "rest" when none runs
  created,        \* messages whose messageCreate event was emitted, or never will be
  fallback,       \* the timer of the raw packet: "none", "armed", "fired"
  processing, processed,
  turn,           \* the session's turn: "none", "steerable" (queued, running), "waiting" for an approval
  inboundFaults,  \* failed calls so far
  acted,          \* history: how often a message was turned into a turn or an input
  disturbed       \* history: messages with a failed call

inboundVars == <<handler, created, fallback, processing, processed, turn, inboundFaults, acted, disturbed>>

InboundTypeOK ==
  /\ handler \in [Inbound -> {"rest", "read", "steer", "create", "publish"}]
  /\ fallback \in [Inbound -> {"none", "armed", "fired"}]
  /\ created \subseteq Inbound /\ processing \subseteq Inbound /\ processed \subseteq Inbound
  /\ turn \in {"none", "steerable", "waiting"}
  /\ inboundFaults \in 0..MaxInboundFaults
  /\ acted \in [Inbound -> Nat] /\ disturbed \subseteq Inbound

InboundInit ==
  /\ handler = [m \in Inbound |-> "rest"] /\ fallback = [m \in Inbound |-> "none"]
  /\ created = {} /\ processing = {} /\ processed = {}
  /\ turn = "none"
  /\ inboundFaults = 0 /\ acted = [m \in Inbound |-> 0] /\ disturbed = {}

inboundSources == <<created, fallback>>
seenSets == <<processing, processed>>
inboundHistory == <<inboundFaults, acted, disturbed>>

InboundFault == inboundFaults < MaxInboundFaults /\ inboundFaults' = inboundFaults + 1

-----------------------------------------------------------------------------
\* The sources of a message and its deduplication.

IsMessageHandledOrInFlight(m) == m \in processing \cup processed

TryBeginMessageProcessing_ProcessedOnly(m) ==
  IF m \in processed
  THEN UNCHANGED <<handler, processing>>
  ELSE handler' = [handler EXCEPT ![m] = "read"] /\ processing' = processing \cup {m}

TryBeginMessageProcessing(m) ==
  IF IsMessageHandledOrInFlight(m)
  THEN UNCHANGED <<handler, processing>>
  ELSE handler' = [handler EXCEPT ![m] = "read"] /\ processing' = processing \cup {m}

\* The raw packet comes first; a message known already arms no timer.
RawPacket(m) ==
  /\ fallback[m] = "none" /\ m \notin created
  /\ fallback' = [fallback EXCEPT ![m] = IF IsMessageHandledOrInFlight(m) THEN "fired" ELSE "armed"]
  /\ UNCHANGED <<handler, created, seenSets, turn, inboundHistory>>

\* discord.js may drop the packet and emit nothing.
MessageCreate(m) ==
  /\ fallback[m] # "none" /\ m \notin created
  /\ created' = created \cup {m}
  /\ TryBeginMessageProcessing(m) \/ UNCHANGED <<handler, processing>>
  /\ UNCHANGED <<fallback, processed, turn, inboundHistory>>

FallbackTimer(m) ==
  /\ fallback[m] = "armed"
  /\ fallback' = [fallback EXCEPT ![m] = "fired"]
  /\ TryBeginMessageProcessing(m)
  /\ UNCHANGED <<created, processed, turn, inboundHistory>>

Finish(m) ==
  /\ handler' = [handler EXCEPT ![m] = "rest"]
  /\ processing' = processing \ {m}

Succeed(m) == Finish(m) /\ processed' = processed \cup {m}

\* The handler throws: the message is not processed, and a timer still armed retries it.
Throw(m) == Finish(m) /\ disturbed' = disturbed \cup {m} /\ UNCHANGED processed

-----------------------------------------------------------------------------
\* The handler: enqueueInboundTurn.

\* Bindings, uploads or look-ups fail before anything was done.
HandlerFails(m) ==
  /\ handler[m] = "read" /\ InboundFault
  /\ Throw(m)
  /\ UNCHANGED <<inboundSources, turn, acted>>

ReadSteerableTurn(m) ==
  /\ handler[m] = "read"
  /\ handler' = [handler EXCEPT ![m] = IF turn = "steerable" THEN "steer" ELSE "create"]
  /\ UNCHANGED <<inboundSources, seenSets, turn, inboundHistory>>

SteerAccepted(m) ==
  /\ handler[m] = "steer" /\ turn = "steerable"
  /\ acted' = [acted EXCEPT ![m] = @ + 1]
  /\ Succeed(m)
  /\ UNCHANGED <<inboundSources, turn, inboundFaults, disturbed>>

\* The turn cannot be steered any more, or the call failed, perhaps after the input was queued:
\* on to a turn of its own.
SteerRefused(m) ==
  /\ handler[m] = "steer"
  /\ \/ turn # "steerable" /\ UNCHANGED inboundHistory
     \/ /\ turn = "steerable" /\ InboundFault
        /\ disturbed' = disturbed \cup {m}
        /\ acted' \in {acted, [acted EXCEPT ![m] = @ + 1]}
  /\ handler' = [handler EXCEPT ![m] = "create"]
  /\ UNCHANGED <<inboundSources, seenSets, turn>>

\* ingestInbound creates the turn, unless another one is active by now.
CreateTurn(m) ==
  /\ handler[m] = "create" /\ turn = "none"
  /\ turn' = "steerable"
  /\ acted' = [acted EXCEPT ![m] = @ + 1]
  /\ handler' = [handler EXCEPT ![m] = "publish"]
  /\ UNCHANGED <<inboundSources, seenSets, inboundFaults, disturbed>>

CreateTurnConflict(m) ==
  /\ handler[m] = "create"
  /\ \/ turn # "none" /\ UNCHANGED inboundFaults
     \/ InboundFault
  /\ Throw(m)
  /\ UNCHANGED <<inboundSources, turn, acted>>

\* The user's message is put in the outbox; if that fails, the turn exists all the same.
Publish(m) ==
  /\ handler[m] = "publish"
  /\ \/ Succeed(m) /\ UNCHANGED <<inboundFaults, disturbed>>
     \/ Throw(m) /\ InboundFault
  /\ UNCHANGED <<inboundSources, turn, acted>>

\* The session's turn, and turns other clients start in it.
SessionTurnMoves ==
  /\ turn' \in {"none", "steerable", "waiting"} \ {turn}
  /\ turn = "none" => turn' = "steerable"
  /\ UNCHANGED <<handler, inboundSources, seenSets, inboundHistory>>

-----------------------------------------------------------------------------
HandlerStep(m) ==
  \/ ReadSteerableTurn(m) \/ SteerAccepted(m) \/ SteerRefused(m)
  \/ CreateTurn(m) \/ CreateTurnConflict(m) \/ Publish(m)

InboundNext ==
  \/ \E m \in Inbound :
       RawPacket(m) \/ MessageCreate(m) \/ FallbackTimer(m) \/ HandlerFails(m) \/ HandlerStep(m)
  \/ SessionTurnMoves

InboundSpec == InboundInit /\ [][InboundNext]_inboundVars

-----------------------------------------------------------------------------
\* A message is acted on at most once, although two sources report it, unless a call made for it
\* failed: the fallback or the creation of a turn then repeats what may have been done.
ActedOnce == \A m \in Inbound : acted[m] > 1 => m \in disturbed

\* In the end every message was acted on, even if discord.js dropped its packet, unless a call
\* made for it failed (discord.plugin.ts:2115).
InboundAnswered ==
  <>[](\A m \in Inbound : fallback[m] # "none" => acted[m] > 0 \/ m \in disturbed)
=============================================================================
