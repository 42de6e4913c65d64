--------------------------- MODULE SteeringInputs ---------------------------
(***************************************************************************)
(* Messages sent to a turn that is running: the rows that record them, the *)
(* chain that hands them to the runner one by one, the agent that takes    *)
(* them, and the page's list of pending inputs.                            *)
(* (turns.service.ts steerTurnForUser, queueConfirmedInput;                *)
(* message-history.ts; page.tsx submitQueuedInput; history-messages.ts)    *)
(***************************************************************************)
EXTENDS Naturals, Sequences, SequencesExt, FiniteSets

CONSTANTS
  Inputs,        \* client request ids
  MaxPosts,      \* bound on the requests the page sends, retries included
  MaxInputFaults \* bound on restarts of the API, calls and answers lost, and reloads

ASSUME SteeringAssumption == MaxPosts \in Nat \ {0} /\ MaxInputFaults \in Nat

VARIABLES
  turnStatus, \* status of the turn in the database
  inputRows,  \* TurnInput.status, "none" for no row
  history,    \* the turn's events that concern inputs
  posts,      \* the requests sent: [input, pc, waiting, result]
  jobs,       \* steerQueues of the turn: [input, pc, status]
  calls,      \* inputs in a call on their way to the runner
  held,       \* inputs the runner has
  sent,       \* how often each input was given to the runner
  stopping,   \* shuttingDown
  list,       \* the page's queuedInputs
  view,       \* the page's stream and history load: [on, cursor, active, load, list, upto]
  inputFaults,
  misread,    \* history: inputs whose unanswered call was recorded as refused
  lagging     \* history: inputs the page was told about out of date, or not at all

steeringVars == <<turnStatus, inputRows, history, posts, jobs, calls, held, sent, stopping, list, view,
                  inputFaults, misread, lagging>>
pageVars == <<list, view>>
runnerVars == <<calls, held, sent>>

Status == {"queued", "unconfirmed", "failed", "accepted"}
Updated(i, s) == [of |-> "input", input |-> i, status |-> s]
Terminal == [of |-> "terminal"]
Cursor == Len(history)

SteeringTypeOK ==
  /\ turnStatus \in {"queued", "running", "ended"} /\ inputRows \in [Inputs -> Status \cup {"none"}]
  /\ history \in Seq([of : {"input"}, input : Inputs, status : Status] \cup {Terminal})
  /\ posts \in Seq([input : Inputs, pc : {"sent", "checked", "created", "answering", "answered", "over"},
                    waiting : BOOLEAN, result : Status \cup {"none", "conflict"}])
  /\ Len(posts) <= MaxPosts
  /\ jobs \in Seq([input : Inputs, pc : {"waiting", "calling", "settled", "read"},
                   status : Status \cup {"none"}])
  /\ calls \subseteq Inputs /\ held \subseteq Inputs /\ sent \in [Inputs -> Nat]
  /\ stopping \in BOOLEAN /\ list \in [Inputs -> Status \cup {"absent"}]
  /\ view \in [on : BOOLEAN, cursor : Nat, active : BOOLEAN, load : {"none", "asked", "answered"},
               list : [Inputs -> Status \cup {"absent"}], upto : Nat, live : BOOLEAN]
  /\ inputFaults \in 0..MaxInputFaults
  /\ misread \subseteq Inputs /\ lagging \subseteq Inputs

InputFault == inputFaults < MaxInputFaults /\ inputFaults' = inputFaults + 1

NoInputs == [i \in Inputs |-> "absent"]

\* The page shows a turn that was queued or runs already.
SteeringInit ==
  /\ turnStatus = "queued" /\ inputRows = [i \in Inputs |-> "none"] /\ history = <<>>
  /\ posts = <<>> /\ jobs = <<>> /\ calls = {} /\ held = {} /\ sent = [i \in Inputs |-> 0]
  /\ stopping = FALSE /\ list = NoInputs
  /\ view = [on |-> TRUE, cursor |-> 0, active |-> TRUE, load |-> "none", list |-> NoInputs,
              upto |-> 0, live |-> FALSE]
  /\ inputFaults = 0 /\ misread = {} /\ lagging = {}

-----------------------------------------------------------------------------
\* The page.

\* mergeQueuedInput: an acknowledgement or a queued event may arrive after the acceptance.
MergeQueuedInput(current, i, status) ==
  IF current[i] = "accepted" \/ (current[i] \notin {"absent", "queued"} /\ status = "queued")
  THEN current ELSE [current EXCEPT ![i] = status]

\* applyInputEvent
ApplyInputEvent(current, event) ==
  IF event.of = "terminal"
  THEN [i \in Inputs |-> IF current[i] = "queued" THEN "unconfirmed" ELSE current[i]]
  ELSE MergeQueuedInput(current, event.input, event.status)

\* A message for an input that was accepted and is no longer in the list puts it back.
Revives(i, status) == list[i] = "absent" /\ inputRows[i] = "accepted" /\ status # "accepted"

\* submitQueuedInput, from the composer or from "Check delivery".
SubmitQueuedInput(i) ==
  /\ view.active /\ Len(posts) < MaxPosts
  /\ \/ (\A k \in DOMAIN posts : posts[k].input # i) /\ list' = MergeQueuedInput(list, i, "queued")
     \/ list[i] = "unconfirmed" /\ UNCHANGED list
  /\ posts' = Append(posts, [input |-> i, pc |-> "sent", waiting |-> TRUE, result |-> "none"])
  /\ UNCHANGED <<turnStatus, inputRows, history, jobs, runnerVars, stopping, view, inputFaults, misread, lagging>>

\* The answer arrives; a conflict is shown like a lost answer.
ReceiveAnswer(k) ==
  /\ posts[k].pc = "answered"
  /\ posts' = [posts EXCEPT ![k] = [@ EXCEPT !.pc = "over", !.waiting = FALSE, !.result = "none"]]
  /\ IF ~posts[k].waiting THEN UNCHANGED <<list, lagging>>
     ELSE LET i == posts[k].input
              shown == IF posts[k].result = "conflict" THEN "unconfirmed" ELSE posts[k].result
          IN /\ list' = MergeQueuedInput(list, i, shown)
             /\ lagging' = lagging \cup {j \in {i} : Revives(j, shown)}
  /\ UNCHANGED <<turnStatus, inputRows, history, jobs, runnerVars, stopping, view, inputFaults, misread>>

\* The connection of a request breaks, before or after the API has it.
LoseAnswer(k) ==
  /\ posts[k].waiting /\ InputFault
  /\ \E reaches \in BOOLEAN :
       /\ ~reaches => posts[k].pc = "sent"
       /\ posts' = [posts EXCEPT ![k].waiting = FALSE, ![k].pc = IF reaches THEN @ ELSE "over"]
  /\ list' = MergeQueuedInput(list, posts[k].input, "unconfirmed")
  /\ lagging' = lagging \cup {i \in {posts[k].input} : Revives(i, "unconfirmed")}
  /\ UNCHANGED <<turnStatus, inputRows, history, jobs, runnerVars, stopping, view, misread>>

\* The stream delivers the next event; the terminal one closes it and reloads the history.
ReadEvent ==
  /\ view.on /\ view.cursor < Len(history)
  /\ LET event == history[view.cursor + 1] IN
       /\ list' = ApplyInputEvent(list, event)
       /\ view' = IF event = Terminal
                  THEN [view EXCEPT !.on = FALSE, !.active = FALSE, !.load = "asked"]
                  ELSE [view EXCEPT !.cursor = @ + 1]
       /\ lagging' = lagging \cup {i \in Inputs : event.of = "input" /\ event.input = i /\ Revives(i, event.status)}
  /\ UNCHANGED <<turnStatus, inputRows, history, posts, jobs, runnerVars, stopping, inputFaults, misread>>

\* getHistoryForSession: the rows that were not accepted, and the cursor.
AnswerHistory ==
  /\ view.load = "asked"
  /\ view' = [view EXCEPT !.load = "answered", !.upto = Cursor, !.live = turnStatus # "ended",
                !.list = [i \in Inputs |-> IF inputRows[i] \in {"none", "accepted"} THEN "absent" ELSE inputRows[i]]]
  /\ UNCHANGED <<turnStatus, inputRows, history, posts, jobs, runnerVars, stopping, list, inputFaults, misread, lagging>>

\* loadSessionHistory replaces the list and opens the stream of the active turn.
ApplyHistory ==
  /\ view.load = "answered"
  /\ list' = view.list
  /\ view' = [view EXCEPT !.load = "none", !.on = view.live, !.active = view.live, !.cursor = view.upto,
                         !.list = NoInputs, !.upto = 0, !.live = FALSE]
  /\ UNCHANGED <<turnStatus, inputRows, history, posts, jobs, runnerVars, stopping, inputFaults, misread, lagging>>

\* The page is loaded again: its requests and its list are gone.
Reload ==
  /\ InputFault
  /\ list' = NoInputs
  /\ posts' = [k \in DOMAIN posts |-> [posts[k] EXCEPT !.waiting = FALSE]]
  /\ view' = [view EXCEPT !.on = FALSE, !.active = FALSE, !.load = "asked"]
  /\ UNCHANGED <<turnStatus, inputRows, history, jobs, runnerVars, stopping, misread, lagging>>

\* The user leaves the session and comes back: its requests still answer to the page.
Reselect ==
  /\ InputFault
  /\ view' = [view EXCEPT !.on = FALSE, !.active = FALSE, !.load = "asked"]
  /\ UNCHANGED <<turnStatus, inputRows, history, posts, jobs, runnerVars, stopping, list, misread, lagging>>

-----------------------------------------------------------------------------
\* A request in the API.

\* steerTurnForUser: an input with a row is answered from it, an ended turn refused.
SteerTurnForUser(k) ==
  /\ posts[k].pc = "sent"
  /\ posts' = CASE inputRows[posts[k].input] # "none" -> [posts EXCEPT ![k].pc = "answering"]
                [] inputRows[posts[k].input] = "none" /\ turnStatus = "ended" ->
                     [posts EXCEPT ![k].pc = "answered", ![k].result = "conflict"]
                [] OTHER -> [posts EXCEPT ![k].pc = "checked"]
  /\ UNCHANGED <<turnStatus, inputRows, history, jobs, runnerVars, stopping, pageVars, inputFaults, misread, lagging>>

UpsertInput_AnyDispatches(k) ==
  /\ posts[k].pc = "checked"
  /\ inputRows' = [inputRows EXCEPT ![posts[k].input] = IF @ = "none" THEN "queued" ELSE @]
  /\ posts' = [posts EXCEPT ![k].pc = "created"]
  /\ UNCHANGED <<turnStatus, history, jobs, runnerVars, stopping, pageVars, inputFaults, misread, lagging>>

\* queueConfirmedInput: of concurrent requests only the one that creates the row dispatches.
UpsertInput(k) ==
  /\ posts[k].pc = "checked"
  /\ IF inputRows[posts[k].input] = "none"
     THEN /\ inputRows' = [inputRows EXCEPT ![posts[k].input] = "queued"]
          /\ posts' = [posts EXCEPT ![k].pc = "created"]
          /\ lagging' = IF turnStatus = "ended" THEN lagging \cup {posts[k].input} ELSE lagging
     ELSE posts' = [posts EXCEPT ![k].pc = "answering"] /\ UNCHANGED <<inputRows, lagging>>
  /\ UNCHANGED <<turnStatus, history, jobs, runnerVars, stopping, pageVars, inputFaults, misread>>

\* The row as it was created is published, then the input joins the chain of the turn.
ChainDispatch(k) ==
  /\ posts[k].pc = "created"
  /\ history' = Append(history, Updated(posts[k].input, "queued"))
  /\ jobs' = Append(jobs, [input |-> posts[k].input, pc |-> "waiting", status |-> "none"])
  /\ posts' = [posts EXCEPT ![k].pc = "answering"]
  /\ UNCHANGED <<turnStatus, inputRows, runnerVars, stopping, pageVars, inputFaults, misread, lagging>>

AnswerWithRow(k) ==
  /\ posts[k].pc = "answering"
  /\ posts' = [posts EXCEPT ![k].pc = "answered", ![k].result = inputRows[posts[k].input]]
  /\ UNCHANGED <<turnStatus, inputRows, history, jobs, runnerVars, stopping, pageVars, inputFaults, misread, lagging>>

-----------------------------------------------------------------------------
\* The chain; only its first job moves.

Settle(i, status) == inputRows' = [inputRows EXCEPT ![i] = IF @ = "queued" THEN status ELSE @]

\* The turn is over or the API is; a queued turn is waited for, 30 seconds at most.
GiveUp ==
  /\ jobs # <<>> /\ Head(jobs).pc = "waiting"
  /\ stopping \/ turnStatus # "running"
  /\ Settle(Head(jobs).input, "failed")
  /\ jobs' = [jobs EXCEPT ![1].pc = "settled"]
  /\ UNCHANGED <<turnStatus, history, posts, runnerVars, stopping, pageVars, inputFaults, misread, lagging>>

\* The claim leaves alone a row that is no longer queued.
ClaimAndSteer ==
  /\ jobs # <<>> /\ Head(jobs).pc = "waiting" /\ turnStatus = "running" /\ ~stopping
  /\ LET i == Head(jobs).input IN
       IF inputRows[i] = "queued"
       THEN /\ jobs' = [jobs EXCEPT ![1].pc = "calling"]
            /\ calls' = calls \cup {i} /\ sent' = [sent EXCEPT ![i] = @ + 1]
       ELSE jobs' = Tail(jobs) /\ UNCHANGED <<calls, sent>>
  /\ UNCHANGED <<turnStatus, inputRows, history, posts, held, stopping, pageVars, inputFaults, misread, lagging>>

\* The runner took the input and says so.
SteerSucceeds ==
  /\ jobs # <<>> /\ Head(jobs).pc = "calling" /\ Head(jobs).input \in held
  /\ jobs' = [jobs EXCEPT ![1].pc = "settled"]
  /\ UNCHANGED <<turnStatus, inputRows, history, posts, runnerVars, stopping, pageVars, inputFaults, misread, lagging>>

\* The runner refused the input, or has no such turn.
InputRefused ==
  /\ jobs # <<>> /\ Head(jobs).pc = "calling" /\ Head(jobs).input \notin calls \cup held
  /\ Settle(Head(jobs).input, "failed")
  /\ jobs' = [jobs EXCEPT ![1].pc = "settled"]
  /\ UNCHANGED <<turnStatus, history, posts, runnerVars, stopping, pageVars, inputFaults, misread, lagging>>

\* The call ends without an answer. The message of a timeout or of a closed connection
\* is recognised; "fetch failed" and the message of an aborted fetch are not.
SteerUnanswered ==
  /\ jobs # <<>> /\ Head(jobs).pc = "calling"
  /\ LET i == Head(jobs).input IN
       \E recognised \in BOOLEAN :
         /\ Settle(i, IF recognised THEN "unconfirmed" ELSE "failed")
         /\ misread' = IF recognised THEN misread ELSE misread \cup {i}
  /\ InputFault
  /\ jobs' = [jobs EXCEPT ![1].pc = "settled"]
  /\ UNCHANGED <<turnStatus, history, posts, runnerVars, stopping, pageVars, lagging>>

\* The row is read, then published: it may change in between.
ReadLatest ==
  /\ jobs # <<>> /\ Head(jobs).pc = "settled"
  /\ jobs' = [jobs EXCEPT ![1].pc = "read", ![1].status = inputRows[Head(jobs).input]]
  /\ UNCHANGED <<turnStatus, inputRows, history, posts, runnerVars, stopping, pageVars, inputFaults, misread, lagging>>

PublishLatest ==
  /\ jobs # <<>> /\ Head(jobs).pc = "read"
  /\ history' = Append(history, Updated(Head(jobs).input, Head(jobs).status))
  /\ jobs' = Tail(jobs)
  /\ UNCHANGED <<turnStatus, inputRows, posts, runnerVars, stopping, pageVars, inputFaults, misread, lagging>>

-----------------------------------------------------------------------------
\* The turn and the runner.

StartTurn ==
  /\ turnStatus = "queued" /\ turnStatus' = "running"
  /\ UNCHANGED <<inputRows, history, posts, jobs, runnerVars, stopping, pageVars, inputFaults, misread, lagging>>

\* A call reaches the runner, which takes the input or refuses it.
CallArrives(i) ==
  /\ i \in calls /\ calls' = calls \ {i}
  /\ held' \in {held, held \cup {i}} /\ (turnStatus = "ended" => held' = held)
  /\ UNCHANGED <<turnStatus, inputRows, history, posts, jobs, sent, stopping, pageVars, inputFaults, misread, lagging>>

\* The agent begins with an input it was given: the event records it with the row.
UserMessageAccepted(i) ==
  /\ i \in held /\ turnStatus = "running" /\ inputRows[i] # "accepted"
  /\ inputRows' = [inputRows EXCEPT ![i] = "accepted"]
  /\ history' = Append(history, Updated(i, "accepted"))
  /\ UNCHANGED <<turnStatus, posts, jobs, runnerVars, stopping, pageVars, inputFaults, misread, lagging>>

\* The terminal event closes the rows that were still queued.
EndTurn ==
  /\ turnStatus # "ended" /\ turnStatus' = "ended"
  /\ inputRows' = [i \in Inputs |-> IF inputRows[i] = "queued" THEN "unconfirmed" ELSE inputRows[i]]
  /\ history' = Append(history, Terminal)
  /\ UNCHANGED <<posts, jobs, runnerVars, stopping, pageVars, inputFaults, misread, lagging>>

-----------------------------------------------------------------------------
\* The API process.

\* onModuleDestroy; the process ends once the chain is empty, or is killed before.
BeginShutdown ==
  /\ ~stopping /\ stopping' = TRUE /\ InputFault
  /\ UNCHANGED <<turnStatus, inputRows, history, posts, jobs, runnerVars, pageVars, misread, lagging>>

\* The chain and the requests are lost, the rows they left become unconfirmed. No event says so.
Restart ==
  /\ stopping' = FALSE /\ IF stopping THEN UNCHANGED inputFaults ELSE InputFault
  /\ inputRows' = [i \in Inputs |-> IF inputRows[i] = "queued" THEN "unconfirmed" ELSE inputRows[i]]
  /\ jobs' = <<>>
  /\ LET cut(k) == posts[k].pc \notin {"answered", "over"} IN
       /\ posts' = [k \in DOMAIN posts |->
                      IF cut(k) THEN [posts[k] EXCEPT !.pc = "over", !.waiting = FALSE] ELSE posts[k]]
       /\ LET broken == {posts[k].input : k \in {n \in DOMAIN posts : cut(n) /\ posts[n].waiting}} IN
            /\ list' = [i \in Inputs |-> IF i \in broken THEN MergeQueuedInput(list, i, "unconfirmed")[i] ELSE list[i]]
            /\ lagging' = lagging \cup {i \in broken : Revives(i, "unconfirmed")}
  /\ UNCHANGED <<turnStatus, history, runnerVars, view, misread>>

-----------------------------------------------------------------------------
PostMoves == \E k \in DOMAIN posts :
  SteerTurnForUser(k) \/ UpsertInput(k) \/ ChainDispatch(k) \/ AnswerWithRow(k) \/ ReceiveAnswer(k)
JobMoves == GiveUp \/ ClaimAndSteer \/ SteerSucceeds \/ InputRefused \/ ReadLatest \/ PublishLatest
PageMoves == ReadEvent \/ AnswerHistory \/ ApplyHistory
RunnerMoves == \E i \in Inputs : CallArrives(i)

SteeringNext ==
  \/ \E i \in Inputs : SubmitQueuedInput(i) \/ UserMessageAccepted(i)
  \/ \E k \in DOMAIN posts : LoseAnswer(k)
  \/ PostMoves \/ JobMoves \/ PageMoves \/ RunnerMoves
  \/ SteerUnanswered \/ StartTurn \/ EndTurn \/ Reload \/ Reselect \/ BeginShutdown \/ Restart

SteeringSpec == SteeringInit /\ [][SteeringNext]_steeringVars

-----------------------------------------------------------------------------
\* An input reaches the runner once, whatever is retried or restarted; and one that the
\* page offers to copy back into the composer, because it failed, is never taken by the
\* agent as well, unless the API mistook a call without an answer for a refusal.
GivenOnce == \A i \in Inputs :
  /\ sent[i] <= 1
  /\ "failed" \in {list[i], inputRows[i]} /\ i \notin misread => i \notin calls \cup held

\* What the page shows of an input: its status, nothing once it was accepted or if the API
\* never had it, or that the page does not know.
Agrees(i) ==
  CASE inputRows[i] = "none" -> list[i] \in {"absent", "unconfirmed"}
    [] inputRows[i] = "accepted" -> list[i] \in {"absent", "accepted"}
    [] OTHER -> list[i] \in {inputRows[i], "unconfirmed"}

\* Once the turn has ended no input stays queued, and the page comes to show what became
\* of each, except where a late message revived one it had dropped.
InputsSettle ==
  <>[](turnStatus = "ended" => \A i \in Inputs : inputRows[i] # "queued" /\ (i \in lagging \/ Agrees(i)))
=============================================================================
