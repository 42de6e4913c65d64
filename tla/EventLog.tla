------------------------------ MODULE EventLog ------------------------------
(***************************************************************************)
(* What the ingestion of a turn's runner events promises: the durable log  *)
(* holds every event once, in the order of emission, text of one key       *)
(* possibly merged into one entry but never across an event in between.    *)
(***************************************************************************)
EXTENDS Naturals, Sequences

CONSTANTS Keys, Facts   \* kinds of events: mergeable text by key, and the rest

VARIABLES
  stream,  \* the kinds of the events the runner emitted; the index is runnerSeq
  log      \* the entries of the durable log: [key, seqs]

logVars == <<stream, log>>

\* How far the log reaches into the stream.
Covered == LET all == UNION {log[i].seqs : i \in DOMAIN log}
           IN CHOOSE n \in 0..Len(stream) : all = 1..n

Init == stream = <<>> /\ log = <<>>

\* Nothing follows the terminal event.
Emit(k) ==
  /\ \A i \in DOMAIN stream : stream[i] # "end"
  /\ stream' = Append(stream, k)
  /\ UNCHANGED log

\* One more entry: the next event, or a run of events of one key.
Record ==
  /\ \E n \in (Covered + 1)..Len(stream) :
       LET k == stream[Covered + 1]
       IN /\ n > Covered + 1 => k \in Keys
          /\ \A i \in (Covered + 1)..n : stream[i] = k
          /\ log' = Append(log, [key |-> k, seqs |-> (Covered + 1)..n])
  /\ UNCHANGED stream

Next == (\E k \in Keys \cup Facts : Emit(k)) \/ Record

Spec == Init /\ [][Next]_logVars
=============================================================================
