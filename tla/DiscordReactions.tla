-------------------------- MODULE DiscordReactions --------------------------
(***************************************************************************)
(* What a Discord runtime shows of a turn on the message that caused it:   *)
(* a reaction, set by calls that wait for the network and overlap, and the *)
(* typing indicator of the channel, kept up by a heartbeat.                *)
(* (discord.plugin.ts: sendMessage, applyTriggerMessageAction,             *)
(* syncTypingIndicatorForAction and what they call)                        *)
(***************************************************************************)
EXTENDS Naturals, FiniteSets

CONSTANTS
  Noted,  \* messages of the channel
  Nobody  \* no message

ASSUME ReactionAssumption == Nobody \notin Noted

VARIABLES
  effect,       \* triggerMessageEffects; "none" is a message that is not tracked
  marks,        \* applyTriggerMessageAction calls in progress
  typing,       \* messages in typingByMessageKey
  heartbeat,    \* the typing heartbeat of the channel is armed
  delivering,   \* the event being delivered: its effect, its message and the one that steered its turn
  steeredBy,    \* the message the turn being run remembers as the one that steered it, or Nobody
  muted         \* the runtime was stopped

reactionVars == <<effect, marks, typing, heartbeat, delivering, steeredBy, muted>>

Finals == {"final_success", "final_cancel", "final_error"}
Effects == {"watching", "active", "approval_pending"} \cup Finals
Quiet == [stage |-> "idle", effect |-> "active", msg |-> Nobody]

ReactionsTypeOK ==
  /\ effect \in [Noted -> Effects \cup {"none"}]
  /\ marks \subseteq [msg : Noted, effect : Effects, stage : {"react", "pulse"},
                      by : {"handler", "trigger", "steer"}]
  /\ typing \subseteq Noted /\ heartbeat \in BOOLEAN /\ muted \in BOOLEAN
  /\ delivering \in [stage : {"idle", "trigger", "steer"}, effect : Effects, msg : Noted \cup {Nobody}]
  /\ steeredBy \in Noted \cup {Nobody}

ReactionsInit ==
  /\ effect = [m \in Noted |-> "none"]
  /\ marks = {} /\ typing = {} /\ heartbeat = FALSE /\ muted = FALSE
  /\ delivering = Quiet /\ steeredBy = Nobody

-----------------------------------------------------------------------------
\* applyTriggerMessageAction.

Refused(m, e, tracked) ==
  \/ tracked /\ effect[m] = "none"
  \/ effect[m] = e
  \/ effect[m] \in Finals /\ e \notin Finals

\* A refused call is over at once.
StartMark(m, e, tracked, caller) ==
  marks' = IF Refused(m, e, tracked) THEN marks
           ELSE marks \cup {[msg |-> m, effect |-> e, stage |-> "react", by |-> caller]}

Underway(caller) == \E k \in marks : k.by = caller

\* The reactions are set, or could not be; tracking and the typing indicator follow the effect. The
\* heartbeat stops when the channel has no message left to type for.
React(k) ==
  /\ k \in marks /\ k.stage = "react"
  /\ effect' = [effect EXCEPT ![k.msg] = k.effect]
  /\ IF k.effect \in Finals
     THEN /\ typing' = typing \ {k.msg}
          /\ heartbeat' = (heartbeat /\ (k.msg \notin typing \/ typing' # {}))
          /\ marks' = marks \ {k}
     ELSE /\ typing' = typing \cup {k.msg}
          /\ marks' = (marks \ {k}) \cup (IF muted THEN {} ELSE {[k EXCEPT !.stage = "pulse"]})
          /\ UNCHANGED heartbeat
  /\ UNCHANGED <<delivering, steeredBy, muted>>

\* The first pulse was sent: the heartbeat is armed, whatever was marked or stopped meanwhile.
EnsureTypingHeartbeat(k) ==
  /\ k \in marks /\ k.stage = "pulse"
  /\ heartbeat' = TRUE
  /\ marks' = marks \ {k}
  /\ UNCHANGED <<effect, typing, delivering, steeredBy, muted>>

SendTypingPulse_Unchecked ==
  /\ heartbeat
  /\ UNCHANGED reactionVars

\* The heartbeat, every 8 s, looks whether any message still needs it.
SendTypingPulse ==
  /\ heartbeat
  /\ heartbeat' = (typing # {})
  /\ UNCHANGED <<effect, marks, typing, delivering, steeredBy, muted>>

-----------------------------------------------------------------------------
\* The callers.

\* A handler watches its message, before it steers a turn or creates one; a refused steer is an error.
HandlerMarks(m) ==
  /\ ~muted /\ ~\E k \in marks : k.by = "handler" /\ k.msg = m
  /\ \/ StartMark(m, "watching", FALSE, "handler")
     \/ StartMark(m, "final_error", TRUE, "handler")
  /\ UNCHANGED <<effect, typing, heartbeat, delivering, steeredBy, muted>>

\* The running turn takes the message as an input, and forgets the one that steered it before.
Steered(m) ==
  /\ ~muted /\ effect[m] # "none"
  /\ steeredBy' = m
  /\ UNCHANGED <<effect, marks, typing, heartbeat, delivering, muted>>

\* sendMessage for an event of a turn this channel triggered. An approval request marks a message
\* that is not tracked yet as well.
DeliverToTrigger(m) ==
  /\ ~muted /\ delivering = Quiet
  /\ \E e \in Effects \ {"watching"} :
       /\ delivering' = [stage |-> "trigger", effect |-> e, msg |-> m]
       /\ StartMark(m, e, e # "approval_pending", "trigger")
  /\ UNCHANGED <<effect, typing, heartbeat, steeredBy, muted>>

\* The steering message follows all but approval requests.
DeliverToSteered ==
  /\ delivering.stage = "trigger" /\ ~Underway("trigger")
  /\ delivering' = [delivering EXCEPT !.stage = "steer"]
  /\ IF steeredBy = Nobody \/ delivering.effect = "approval_pending"
     THEN UNCHANGED marks
     ELSE StartMark(steeredBy, delivering.effect, TRUE, "steer")
  /\ UNCHANGED <<effect, typing, heartbeat, steeredBy, muted>>

\* The final event is the last that looks for a steering message.
Delivered ==
  /\ delivering.stage = "steer" /\ ~Underway("steer")
  /\ delivering' = Quiet
  /\ steeredBy' = IF delivering.effect \in Finals THEN Nobody ELSE steeredBy
  /\ UNCHANGED <<effect, marks, typing, heartbeat, muted>>

\* stopRuntime forgets everything; calls in progress go on.
StopTracking ==
  /\ ~muted /\ muted' = TRUE
  /\ effect' = [m \in Noted |-> "none"]
  /\ typing' = {} /\ heartbeat' = FALSE /\ steeredBy' = Nobody
  /\ UNCHANGED <<marks, delivering>>

-----------------------------------------------------------------------------
ReactionsNext ==
  \/ \E m \in Noted : HandlerMarks(m) \/ Steered(m) \/ DeliverToTrigger(m)
  \/ \E k \in marks : React(k) \/ EnsureTypingHeartbeat(k)
  \/ SendTypingPulse \/ DeliverToSteered \/ Delivered \/ StopTracking

ReactionsSpec == ReactionsInit /\ [][ReactionsNext]_reactionVars

-----------------------------------------------------------------------------
\* Once no message needs the typing indicator, the heartbeat ends, although a slow call may arm it
\* after the message it was for was finished or the runtime was stopped (discord.plugin.ts:2302).
TypingGoesQuiet == <>[](typing = {}) => <>[](~heartbeat)
=============================================================================
