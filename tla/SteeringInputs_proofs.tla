------------------------ MODULE SteeringInputs_proofs ------------------------
(***************************************************************************)
(* An input reaches the runner once and is reported as failed only if the  *)
(* runner never gets it: GivenOnce, for any number of inputs, requests,    *)
(* restarts and lost answers.                                              *)
(***************************************************************************)
EXTENDS SteeringInputs, SequenceTheorems, TLAPS

Events == [of : {"input"}, input : Inputs, status : Status] \cup {Terminal}
Posts == [input : Inputs, pc : {"sent", "checked", "created", "answering", "answered", "over"},
          waiting : BOOLEAN, result : Status \cup {"none", "conflict"}]
Jobs == [input : Inputs, pc : {"waiting", "calling", "settled", "read"}, status : Status \cup {"none"}]

\* What is answered or dispatched has a row.
Filed ==
  /\ \A k \in DOMAIN posts :
       /\ posts[k].pc \in {"created", "answering"} => inputRows[posts[k].input] # "none"
       /\ posts[k].pc = "answered" => posts[k].result # "none"
  /\ \A a \in DOMAIN jobs :
       /\ inputRows[jobs[a].input] # "none"
       /\ jobs[a].pc = "read" => jobs[a].status # "none"

\* An input is dispatched once: by the request that created its row, then by its job.
Dispatched ==
  /\ \A k, l \in DOMAIN posts :
       posts[k].pc = "created" /\ posts[l].pc = "created" /\ posts[k].input = posts[l].input => k = l
  /\ \A a, b \in DOMAIN jobs : jobs[a].input = jobs[b].input => a = b
  /\ \A k \in DOMAIN posts, a \in DOMAIN jobs : posts[k].pc = "created" => jobs[a].input # posts[k].input

\* Before its job is claimed an input was not given to the runner; it is given once.
Given ==
  /\ \A k \in DOMAIN posts : posts[k].pc = "created" => sent[posts[k].input] = 0
  /\ \A a \in DOMAIN jobs : jobs[a].pc = "waiting" => sent[jobs[a].input] = 0
  /\ \A i \in Inputs : /\ inputRows[i] = "none" => sent[i] = 0
                       /\ sent[i] <= 1
                       /\ sent[i] = 0 => i \notin calls \cup held

\* Nothing more will be done with an input; the runner never gets it, unless a call was misread.
Lost(i) == inputRows[i] \notin {"none", "queued"} /\ (i \in misread \/ i \notin calls \cup held)

\* Whoever says that an input failed says it of one that is lost.
Truthful ==
  /\ \A i \in Inputs : "failed" \in {inputRows[i], list[i], view.list[i]} => Lost(i)
  /\ \A k \in DOMAIN posts : posts[k].result = "failed" => Lost(posts[k].input)
  /\ \A a \in DOMAIN jobs : jobs[a].status = "failed" => Lost(jobs[a].input)
  /\ \A n \in DOMAIN history :
       history[n].of = "input" => (history[n].status = "failed" => Lost(history[n].input))

SteeringInv == SteeringTypeOK /\ Filed /\ Dispatched /\ Given /\ Truthful

-----------------------------------------------------------------------------
\* Sequences: what is appended, taken off and replaced.

LEMMA Added ==
  ASSUME NEW S, NEW s \in Seq(S), NEW x \in S
  PROVE  /\ Append(s, x) \in Seq(S) /\ Len(Append(s, x)) = Len(s) + 1
         /\ DOMAIN Append(s, x) = DOMAIN s \cup {Len(s) + 1} /\ Len(s) + 1 \notin DOMAIN s
         /\ \A i \in DOMAIN s : Append(s, x)[i] = s[i]
         /\ Append(s, x)[Len(s) + 1] = x
<1>1. PICK n \in Nat : n = Len(s) /\ DOMAIN s = 1..n
  BY LenProperties
<1>2. /\ Append(s, x) \in Seq(S) /\ Len(Append(s, x)) = n + 1
      /\ \A i \in 1..n : Append(s, x)[i] = s[i]
      /\ Append(s, x)[n + 1] = x
  BY <1>1, AppendProperties
<1>3. DOMAIN Append(s, x) = 1..(n + 1)
  BY <1>2, LenProperties
<1>4. 1..(n + 1) = (1..n) \cup {n + 1} /\ n + 1 \notin 1..n
  OBVIOUS
<1> QED BY <1>1, <1>2, <1>3, <1>4

LEMMA Dropped ==
  ASSUME NEW S, NEW s \in Seq(S), s # <<>>
  PROVE  /\ 1 \in DOMAIN s /\ Head(s) = s[1] /\ Tail(s) \in Seq(S)
         /\ \A i \in DOMAIN Tail(s) : i + 1 \in DOMAIN s /\ i + 1 # 1 /\ Tail(s)[i] = s[i + 1]
         /\ \A i, j \in DOMAIN Tail(s) : i + 1 = j + 1 => i = j
<1>1. PICK n \in Nat : n = Len(s) /\ DOMAIN s = 1..n
  BY LenProperties
<1>2. n # 0
  BY <1>1, EmptySeq
<1>3. /\ Head(s) = s[1] /\ Tail(s) \in Seq(S) /\ Len(Tail(s)) = n - 1
      /\ \A i \in 1..(n - 1) : Tail(s)[i] = s[i + 1]
  BY <1>1, HeadTailProperties
<1>4. DOMAIN Tail(s) = 1..(n - 1)
  BY <1>3, LenProperties
<1>5. \A i \in 1..(n - 1) : i \in Nat /\ i + 1 \in 1..n /\ i + 1 # 1
  BY <1>2
<1>6. 1 \in 1..n
  BY <1>2
<1>7. \A i, j \in 1..(n - 1) : i + 1 = j + 1 => i = j
  OBVIOUS
<1> QED BY <1>1, <1>3, <1>4, <1>5, <1>6, <1>7

LEMMA Replaced ==
  ASSUME NEW S, NEW s \in Seq(S), NEW k \in DOMAIN s, NEW x \in S
  PROVE  /\ [s EXCEPT ![k] = x] \in Seq(S) /\ Len([s EXCEPT ![k] = x]) = Len(s)
         /\ DOMAIN [s EXCEPT ![k] = x] = DOMAIN s
         /\ [s EXCEPT ![k] = x][k] = x
         /\ \A i \in DOMAIN s : i # k => [s EXCEPT ![k] = x][i] = s[i]
<1>1. k \in 1..Len(s)
  BY LenProperties
<1>2. [s EXCEPT ![k] = x] \in Seq(S) /\ Len([s EXCEPT ![k] = x]) = Len(s)
  BY <1>1, ExceptSeq
<1> QED BY <1>2

LEMMA Mapped ==
  ASSUME NEW S, NEW s \in Seq(S), NEW f, DOMAIN f = DOMAIN s, \A i \in DOMAIN s : f[i] \in S,
         f = [i \in DOMAIN s |-> f[i]]
  PROVE  f \in Seq(S) /\ Len(f) = Len(s)
<1>1. PICK n \in Nat : n = Len(s) /\ DOMAIN s = 1..n
  BY LenProperties
<1>2. f \in [1..n -> S]
  BY <1>1
<1>3. f \in Seq(S)
  BY <1>2, SeqDef
<1>4. Len(f) = n
  BY <1>1, <1>3, LenProperties
<1> QED BY <1>1, <1>3, <1>4

\* Requests and jobs in their next stages.
AtStage(r, p) == [r EXCEPT !.pc = p]
Answered(r, x) == [r EXCEPT !.pc = "answered", !.result = x]
CutOff(r) == [r EXCEPT !.pc = "over", !.waiting = FALSE]
Received(r) == [r EXCEPT !.pc = "over", !.waiting = FALSE, !.result = "none"]
Unheard(r, p) == [r EXCEPT !.waiting = FALSE, !.pc = p]
Silent(r) == [r EXCEPT !.waiting = FALSE]
ReadAs(r, x) == [r EXCEPT !.pc = "read", !.status = x]

LEMMA PostFields ==
  ASSUME NEW r \in Posts
  PROVE  /\ r.input \in Inputs /\ r.result \in Status \cup {"none", "conflict"} /\ r.waiting \in BOOLEAN
         /\ r.pc \in {"sent", "checked", "created", "answering", "answered", "over"}
  BY DEF Posts

LEMMA PostStages ==
  ASSUME NEW r \in Posts, NEW p \in {"checked", "created", "answering", "answered", "over"}
  PROVE  /\ AtStage(r, p) \in Posts /\ AtStage(r, p).pc = p
         /\ AtStage(r, p).input = r.input /\ AtStage(r, p).result = r.result
  BY DEF Posts, AtStage

LEMMA PostAnswers ==
  ASSUME NEW r \in Posts, NEW x \in Status \cup {"none", "conflict"}
  PROVE  /\ Answered(r, x) \in Posts /\ Answered(r, x).pc = "answered"
         /\ Answered(r, x).input = r.input /\ Answered(r, x).result = x
  BY DEF Posts, Answered

LEMMA PostEnds ==
  ASSUME NEW r \in Posts
  PROVE  /\ CutOff(r) \in Posts /\ CutOff(r).pc = "over" /\ CutOff(r).input = r.input /\ CutOff(r).result = r.result
         /\ Received(r) \in Posts /\ Received(r).pc = "over" /\ Received(r).input = r.input
         /\ Received(r).result = "none"
         /\ Silent(r) \in Posts /\ Silent(r).pc = r.pc /\ Silent(r).input = r.input /\ Silent(r).result = r.result
  BY DEF Posts, CutOff, Received, Silent

LEMMA PostUnheard ==
  ASSUME NEW r \in Posts, NEW p \in {r.pc, "over"}
  PROVE  /\ Unheard(r, p) \in Posts /\ Unheard(r, p).pc = p /\ Unheard(r, p).input = r.input
         /\ Unheard(r, p).result = r.result
  BY DEF Posts, Unheard

LEMMA JobFields ==
  ASSUME NEW r \in Jobs
  PROVE  /\ r.input \in Inputs /\ r.status \in Status \cup {"none"}
         /\ r.pc \in {"waiting", "calling", "settled", "read"}
  BY DEF Jobs

LEMMA JobStages ==
  ASSUME NEW r \in Jobs, NEW p \in {"calling", "settled"}
  PROVE  /\ AtStage(r, p) \in Jobs /\ AtStage(r, p).pc = p
         /\ AtStage(r, p).input = r.input /\ AtStage(r, p).status = r.status
  BY DEF Jobs, AtStage

LEMMA JobReads ==
  ASSUME NEW r \in Jobs, NEW x \in Status \cup {"none"}
  PROVE  /\ ReadAs(r, x) \in Jobs /\ ReadAs(r, x).pc = "read"
         /\ ReadAs(r, x).input = r.input /\ ReadAs(r, x).status = x
  BY DEF Jobs, ReadAs

-----------------------------------------------------------------------------
\* What a step does to the requests, the jobs, the rows and the inputs under way.

PostGoes(k) ==
  /\ posts'[k].input = posts[k].input
  /\ \/ posts'[k].pc = posts[k].pc /\ posts'[k].result = posts[k].result
     \/ posts'[k].pc \in {"over", "checked"} /\ posts'[k].result \in {posts[k].result, "none"}
     \/ /\ posts'[k].pc = "answering" /\ posts'[k].result = posts[k].result
        /\ inputRows'[posts[k].input] # "none"
     \/ /\ posts'[k].pc = "answered"
        /\ \/ posts'[k].result = "conflict"
           \/ posts[k].pc = "answering" /\ posts'[k].result = inputRows[posts[k].input]
     \/ /\ posts[k].pc # "created" /\ posts'[k].pc = "created" /\ posts'[k].result = posts[k].result
        /\ inputRows[posts[k].input] = "none" /\ inputRows'[posts[k].input] # "none"
        /\ sent' = sent /\ jobs' = jobs
        /\ \A l \in DOMAIN posts : l # k => posts'[l] = posts[l]

LEMMA PostReplaced ==
  ASSUME SteeringTypeOK, NEW k \in DOMAIN posts, NEW r \in Posts, posts' = [posts EXCEPT ![k] = r]
  PROVE  /\ posts' \in Seq(Posts) /\ Len(posts') <= MaxPosts
         /\ DOMAIN posts' = DOMAIN posts /\ posts'[k] = r
         /\ \A l \in DOMAIN posts : l # k => posts'[l] = posts[l] /\ PostGoes(l)
<1>1. posts \in Seq(Posts) /\ Len(posts) <= MaxPosts
  BY DEF SteeringTypeOK, Posts
<1>2. /\ posts' \in Seq(Posts) /\ Len(posts') <= MaxPosts
      /\ DOMAIN posts' = DOMAIN posts /\ posts'[k] = r
      /\ \A l \in DOMAIN posts : l # k => posts'[l] = posts[l]
  BY <1>1, Replaced
<1> QED BY <1>2 DEF PostGoes

LEMMA PostsMove ==
  ASSUME SteeringInv, [SteeringNext]_steeringVars
  PROVE  /\ posts' \in Seq(Posts) /\ Len(posts') <= MaxPosts
         /\ \A k \in DOMAIN posts' :
              IF k \in DOMAIN posts THEN PostGoes(k)
              ELSE posts'[k].pc = "sent" /\ posts'[k].result = "none"
<1> DEFINE Goal == /\ posts' \in Seq(Posts) /\ Len(posts') <= MaxPosts
                   /\ \A k \in DOMAIN posts' :
                        IF k \in DOMAIN posts THEN PostGoes(k)
                        ELSE posts'[k].pc = "sent" /\ posts'[k].result = "none"
<1>1. /\ SteeringTypeOK /\ posts \in Seq(Posts) /\ Len(posts) <= MaxPosts /\ Len(posts) \in Nat
      /\ inputRows \in [Inputs -> Status \cup {"none"}]
  BY LenProperties DEF SteeringInv, SteeringTypeOK, Posts
<1>2. \A k \in DOMAIN posts : posts[k] \in Posts
  BY <1>1, LenProperties
<1>3. \A k \in DOMAIN posts : inputRows[posts[k].input] \in Status \cup {"none"}
  BY <1>1, <1>2, PostFields
<1>4. ASSUME UNCHANGED posts PROVE Goal
  BY <1>1, <1>4 DEF PostGoes
<1>5. ASSUME NEW k \in DOMAIN posts, NEW r \in Posts, posts' = [posts EXCEPT ![k] = r], posts'[k] = r => PostGoes(k)
      PROVE  Goal
  BY <1>1, <1>5, PostReplaced
<1>6. ASSUME NEW i \in Inputs, SubmitQueuedInput(i) PROVE Goal
  <2>1. PICK r : r = [input |-> i, pc |-> "sent", waiting |-> TRUE, result |-> "none"]
    OBVIOUS
  <2>2. r \in Posts /\ r.pc = "sent" /\ r.result = "none"
    BY <2>1 DEF Posts
  <2>3. posts' = Append(posts, r) /\ Len(posts) < MaxPosts
    BY <1>6, <2>1 DEF SubmitQueuedInput
  <2>4. posts' \in Seq(Posts) /\ Len(posts') = Len(posts) + 1
    BY <1>1, <2>2, <2>3, Added
  <2>5. Len(posts') <= MaxPosts
    BY <1>1, <2>3, <2>4, SteeringAssumption
  <2>6. \A k \in DOMAIN posts : posts'[k] = posts[k]
    BY <1>1, <2>2, <2>3, Added
  <2>7. \A k \in DOMAIN posts' : k \notin DOMAIN posts => posts'[k] = r
    BY <1>1, <2>2, <2>3, Added
  <2> QED BY <2>2, <2>4, <2>5, <2>6, <2>7 DEF PostGoes
<1>7. ASSUME NEW k \in DOMAIN posts, ReceiveAnswer(k) PROVE Goal
  <2>1. PICK r : r = Received(posts[k])
    OBVIOUS
  <2>2. r \in Posts /\ r.pc = "over" /\ r.input = posts[k].input /\ r.result = "none"
    BY <1>2, <2>1, PostEnds
  <2>3. posts' = [posts EXCEPT ![k] = r]
    BY <1>7, <2>1 DEF ReceiveAnswer, Received
  <2> QED BY <1>5, <2>2, <2>3 DEF PostGoes
<1>8. ASSUME NEW k \in DOMAIN posts, LoseAnswer(k) PROVE Goal
  <2>1. PICK p \in {posts[k].pc, "over"} :
          posts' = [posts EXCEPT ![k] = Unheard(posts[k], p)]
    BY <1>8 DEF LoseAnswer, Unheard
  <2>2. PICK r : r = Unheard(posts[k], p)
    OBVIOUS
  <2>3. r \in Posts /\ r.pc = p /\ r.input = posts[k].input /\ r.result = posts[k].result
    BY <1>2, <2>2, PostUnheard
  <2> QED BY <1>5, <2>1, <2>2, <2>3 DEF PostGoes
<1>9. CASE Reload
  <2>1. posts' = [k \in DOMAIN posts |-> Silent(posts[k])]
    BY <1>9 DEF Reload, Silent
  <2>2. \A k \in DOMAIN posts : /\ posts'[k] \in Posts /\ posts'[k].pc = posts[k].pc
                                /\ posts'[k].input = posts[k].input /\ posts'[k].result = posts[k].result
    BY <1>2, <2>1, PostEnds
  <2>3. posts' \in Seq(Posts) /\ Len(posts') = Len(posts)
    BY <1>1, <2>1, <2>2, Mapped
  <2> QED BY <1>1, <2>1, <2>2, <2>3 DEF PostGoes
<1>10. ASSUME NEW k \in DOMAIN posts, SteerTurnForUser(k) PROVE Goal
  <2>1. CASE inputRows[posts[k].input] # "none"
    <3>1. PICK r : r = AtStage(posts[k], "answering")
      OBVIOUS
    <3>2. posts' = [posts EXCEPT ![k] = r] /\ inputRows' = inputRows
      BY <1>10, <2>1, <3>1 DEF SteerTurnForUser, AtStage, Answered
    <3>3. r \in Posts /\ r.pc = "answering" /\ r.input = posts[k].input /\ r.result = posts[k].result
      BY <1>2, <3>1, PostStages
    <3> QED BY <1>5, <2>1, <3>2, <3>3 DEF PostGoes
  <2>2. CASE inputRows[posts[k].input] = "none" /\ turnStatus = "ended"
    <3>1. PICK r : r = Answered(posts[k], "conflict")
      OBVIOUS
    <3>2. posts' = [posts EXCEPT ![k] = r]
      BY <1>10, <2>2, <3>1 DEF SteerTurnForUser, AtStage, Answered
    <3>3. r \in Posts /\ r.pc = "answered" /\ r.input = posts[k].input /\ r.result = "conflict"
      BY <1>2, <3>1, PostAnswers
    <3> QED BY <1>5, <3>2, <3>3 DEF PostGoes
  <2>3. CASE inputRows[posts[k].input] = "none" /\ turnStatus # "ended"
    <3>1. PICK r : r = AtStage(posts[k], "checked")
      OBVIOUS
    <3>2. posts' = [posts EXCEPT ![k] = r]
      BY <1>10, <2>3, <3>1 DEF SteerTurnForUser, AtStage
    <3>3. r \in Posts /\ r.pc = "checked" /\ r.input = posts[k].input /\ r.result = posts[k].result
      BY <1>2, <3>1, PostStages
    <3> QED BY <1>5, <2>3, <3>2, <3>3 DEF PostGoes
  <2> QED BY <2>1, <2>2, <2>3
<1>11. ASSUME NEW k \in DOMAIN posts, UpsertInput(k) PROVE Goal
  <2>1. CASE inputRows[posts[k].input] = "none"
    <3>1. PICK r : r = AtStage(posts[k], "created")
      OBVIOUS
    <3>2. r \in Posts /\ r.pc = "created" /\ r.input = posts[k].input /\ r.result = posts[k].result
      BY <1>2, <3>1, PostStages
    <3>3. /\ posts' = [posts EXCEPT ![k] = r] /\ posts[k].pc = "checked" /\ sent' = sent /\ jobs' = jobs
          /\ inputRows' = [inputRows EXCEPT ![posts[k].input] = "queued"]
      BY <1>11, <2>1, <3>1 DEF UpsertInput, runnerVars, AtStage
    <3>4. inputRows'[posts[k].input] = "queued"
      BY <1>1, <1>2, <3>3, PostFields DEF SteeringTypeOK
    <3>5. \A l \in DOMAIN posts : l # k => posts'[l] = posts[l]
      BY <1>1, <3>2, <3>3, PostReplaced
    <3>6. posts'[k] = r => PostGoes(k)
      BY <2>1, <3>2, <3>3, <3>4, <3>5 DEF PostGoes
    <3> QED BY <1>5, <3>2, <3>3, <3>6
  <2>2. CASE inputRows[posts[k].input] # "none"
    <3>1. PICK r : r = AtStage(posts[k], "answering")
      OBVIOUS
    <3>2. posts' = [posts EXCEPT ![k] = r] /\ inputRows' = inputRows
      BY <1>11, <2>2, <3>1 DEF UpsertInput, AtStage
    <3>3. r \in Posts /\ r.pc = "answering" /\ r.input = posts[k].input /\ r.result = posts[k].result
      BY <1>2, <3>1, PostStages
    <3> QED BY <1>5, <2>2, <3>2, <3>3 DEF PostGoes
  <2> QED BY <2>1, <2>2
<1>12. ASSUME NEW k \in DOMAIN posts, ChainDispatch(k) PROVE Goal
  <2>1. /\ posts' = [posts EXCEPT ![k] = AtStage(posts[k], "answering")] /\ inputRows' = inputRows
        /\ posts[k].pc = "created"
    BY <1>12 DEF ChainDispatch, AtStage
  <2>2. inputRows[posts[k].input] # "none"
    BY <2>1 DEF SteeringInv, Filed
  <2> QED BY <1>2, <1>5, <2>1, <2>2, PostFields, PostStages DEF PostGoes
<1>13. ASSUME NEW k \in DOMAIN posts, AnswerWithRow(k) PROVE Goal
  <2>1. PICK r : r = Answered(posts[k], inputRows[posts[k].input])
    OBVIOUS
  <2>2. r \in Posts /\ r.pc = "answered" /\ r.input = posts[k].input /\ r.result = inputRows[posts[k].input]
    BY <1>2, <1>3, <2>1, PostAnswers
  <2>3. posts' = [posts EXCEPT ![k] = r] /\ posts[k].pc = "answering"
    BY <1>13, <2>1 DEF AnswerWithRow, Answered
  <2> QED BY <1>5, <2>2, <2>3 DEF PostGoes
<1>14. CASE Restart
  <2>1. posts' = [k \in DOMAIN posts |-> IF posts[k].pc \notin {"answered", "over"}
                                         THEN CutOff(posts[k]) ELSE posts[k]]
    BY <1>14 DEF Restart, CutOff
  <2>2. \A k \in DOMAIN posts :
          /\ posts'[k] \in Posts /\ posts'[k].input = posts[k].input /\ posts'[k].result = posts[k].result
          /\ posts'[k].pc \in {posts[k].pc, "over"}
    BY <1>2, <2>1, PostEnds
  <2>3. posts' \in Seq(Posts) /\ Len(posts') = Len(posts)
    BY <1>1, <2>1, <2>2, Mapped
  <2> QED BY <1>1, <2>1, <2>2, <2>3 DEF PostGoes
<1>15. \/ UNCHANGED posts
       \/ \E i \in Inputs : SubmitQueuedInput(i)
       \/ \E k \in DOMAIN posts : \/ ReceiveAnswer(k) \/ LoseAnswer(k) \/ SteerTurnForUser(k) \/ UpsertInput(k)
                                  \/ ChainDispatch(k) \/ AnswerWithRow(k)
       \/ Reload \/ Restart
  BY DEF SteeringNext, steeringVars, PostMoves, JobMoves, PageMoves, RunnerMoves, UserMessageAccepted, GiveUp,
     ClaimAndSteer, SteerSucceeds, InputRefused, ReadLatest, PublishLatest, ReadEvent, AnswerHistory, ApplyHistory,
     CallArrives, SteerUnanswered, StartTurn, EndTurn, Reselect, BeginShutdown
<1> QED BY <1>4, <1>6, <1>7, <1>8, <1>9, <1>10, <1>11, <1>12, <1>13, <1>14, <1>15

\* The kinds of what the steps read, for citing.
LEMMA Kinds ==
  ASSUME SteeringTypeOK
  PROVE  /\ posts \in Seq(Posts) /\ jobs \in Seq(Jobs) /\ history \in Seq(Events)
         /\ inputRows \in [Inputs -> Status \cup {"none"}] /\ sent \in [Inputs -> Nat]
         /\ list \in [Inputs -> Status \cup {"absent"}]
         /\ calls \subseteq Inputs /\ held \subseteq Inputs /\ misread \subseteq Inputs
         /\ \A k \in DOMAIN posts : posts[k] \in Posts
         /\ \A a \in DOMAIN jobs : jobs[a] \in Jobs
         /\ \A n \in DOMAIN history : history[n] \in Events
<1>1. posts \in Seq(Posts) /\ jobs \in Seq(Jobs) /\ history \in Seq(Events)
  BY DEF SteeringTypeOK, Posts, Jobs, Events
<1> QED BY <1>1, LenProperties DEF SteeringTypeOK

LEMMA HeadJob ==
  ASSUME SteeringTypeOK, jobs # <<>>
  PROVE  1 \in DOMAIN jobs /\ Head(jobs) = jobs[1] /\ jobs[1] \in Jobs /\ jobs[1].input \in Inputs
<1>1. jobs \in Seq(Jobs)
  BY Kinds
<1>2. 1 \in DOMAIN jobs /\ Head(jobs) = jobs[1]
  BY <1>1, Dropped
<1> QED BY <1>2, Kinds, JobFields

RowGoes(i) ==
  \/ inputRows'[i] = inputRows[i]
  \/ inputRows[i] = "none" /\ inputRows'[i] = "queued"
  \/ inputRows[i] # "none" /\ inputRows'[i] \in {"unconfirmed", "accepted"}
  \/ /\ inputRows[i] = "queued" /\ inputRows'[i] = "failed"
     /\ i \in misread' \/ i \notin calls' \cup held'

\* A settled row was queued, and one that fails is given up, refused or misread.
LEMMA Settled ==
  ASSUME SteeringTypeOK, NEW i \in Inputs, NEW s \in {"failed", "unconfirmed"}, Settle(i, s),
         s = "failed" => i \in misread' \/ i \notin calls' \cup held'
  PROVE  inputRows' \in [Inputs -> Status \cup {"none"}] /\ \A j \in Inputs : RowGoes(j)
<1>1. inputRows \in [Inputs -> Status \cup {"none"}] /\ s \in Status
  BY DEF SteeringTypeOK, Status
<1> QED BY <1>1 DEF Settle, RowGoes

LEMMA RowsMove ==
  ASSUME SteeringInv, [SteeringNext]_steeringVars
  PROVE  inputRows' \in [Inputs -> Status \cup {"none"}] /\ \A i \in Inputs : RowGoes(i)
<1> DEFINE Goal == inputRows' \in [Inputs -> Status \cup {"none"}] /\ \A i \in Inputs : RowGoes(i)
<1>1. SteeringTypeOK /\ inputRows \in [Inputs -> Status \cup {"none"}]
  BY Kinds DEF SteeringInv
<1>2. {"queued", "failed", "unconfirmed", "accepted"} = Status
  BY DEF Status
<1>3. ASSUME UNCHANGED inputRows PROVE Goal
  BY <1>1, <1>3 DEF RowGoes
<1>4. ASSUME NEW k \in DOMAIN posts, UpsertInput(k) PROVE Goal
  BY <1>1, <1>2, <1>4 DEF UpsertInput, RowGoes
<1>5. CASE GiveUp
  <2>1. jobs # <<>> /\ Head(jobs).pc = "waiting" /\ Settle(Head(jobs).input, "failed")
        /\ UNCHANGED <<calls, held, sent>>
    BY <1>5 DEF GiveUp, runnerVars
  <2>2. jobs[1].input \in Inputs /\ Head(jobs) = jobs[1] /\ 1 \in DOMAIN jobs
    BY <1>1, <2>1, HeadJob
  <2>3. jobs[1].input \notin calls \cup held
    BY <2>1, <2>2 DEF SteeringInv, Given
  <2> QED BY <1>1, <2>1, <2>2, <2>3, Settled
<1>6. CASE InputRefused
  <2>1. jobs # <<>> /\ Head(jobs).input \notin calls \cup held /\ Settle(Head(jobs).input, "failed")
        /\ UNCHANGED <<calls, held>>
    BY <1>6 DEF InputRefused, runnerVars
  <2>2. jobs[1].input \in Inputs /\ Head(jobs) = jobs[1]
    BY <1>1, <2>1, HeadJob
  <2> QED BY <1>1, <2>1, <2>2, Settled
<1>7. CASE SteerUnanswered
  <2>1. PICK recognised \in BOOLEAN :
          /\ Settle(Head(jobs).input, IF recognised THEN "unconfirmed" ELSE "failed")
          /\ misread' = IF recognised THEN misread ELSE misread \cup {Head(jobs).input}
    BY <1>7 DEF SteerUnanswered
  <2>2. jobs[1].input \in Inputs /\ Head(jobs) = jobs[1]
    BY <1>1, <1>7, HeadJob DEF SteerUnanswered
  <2>3. CASE recognised
    BY <1>1, <2>1, <2>2, <2>3, Settled
  <2>4. CASE ~recognised
    BY <1>1, <2>1, <2>2, <2>4, Settled
  <2> QED BY <2>3, <2>4
<1>8. ASSUME NEW i \in Inputs, UserMessageAccepted(i) PROVE Goal
  <2>1. inputRows[i] # "none"
    BY <1>8 DEF UserMessageAccepted, SteeringInv, Given
  <2> QED BY <1>1, <1>2, <1>8, <2>1 DEF UserMessageAccepted, RowGoes
<1>9. CASE EndTurn \/ Restart
  <2>1. inputRows' = [i \in Inputs |-> IF inputRows[i] = "queued" THEN "unconfirmed" ELSE inputRows[i]]
    BY <1>9 DEF EndTurn, Restart
  <2> QED BY <1>1, <1>2, <2>1 DEF RowGoes
<1>10. \/ UNCHANGED inputRows
       \/ \E k \in DOMAIN posts : UpsertInput(k)
       \/ GiveUp \/ InputRefused \/ SteerUnanswered \/ (\E i \in Inputs : UserMessageAccepted(i)) \/ EndTurn \/ Restart
  BY DEF SteeringNext, steeringVars, PostMoves, JobMoves, PageMoves, RunnerMoves, SubmitQueuedInput, ReceiveAnswer,
     LoseAnswer, SteerTurnForUser, ChainDispatch, AnswerWithRow, ClaimAndSteer, SteerSucceeds, ReadLatest,
     PublishLatest, ReadEvent, AnswerHistory, ApplyHistory, CallArrives, StartTurn, Reload, Reselect, BeginShutdown
<1> QED BY <1>3, <1>4, <1>5, <1>6, <1>7, <1>8, <1>9, <1>10

\* What is on its way to the runner, or with it, was claimed by the first job.
Claims ==
  /\ jobs # <<>> /\ jobs[1].pc = "waiting" /\ inputRows[jobs[1].input] = "queued" /\ inputRows' = inputRows
  /\ calls' = calls \cup {jobs[1].input} /\ sent' = [sent EXCEPT ![jobs[1].input] = @ + 1]
  /\ jobs' = [jobs EXCEPT ![1] = AtStage(jobs[1], "calling")]
  /\ UNCHANGED <<posts, held, misread>>

LEMMA ClaimsIt == ASSUME SteeringTypeOK, ClaimAndSteer PROVE Claims \/ (jobs # <<>> /\ jobs' = Tail(jobs) /\ UNCHANGED <<sent, calls, held>>)
<1>1. jobs # <<>> /\ Head(jobs).pc = "waiting"
  BY DEF ClaimAndSteer
<1>2. 1 \in DOMAIN jobs /\ Head(jobs) = jobs[1]
  BY <1>1, HeadJob
<1> QED BY <1>1, <1>2 DEF ClaimAndSteer, Claims, AtStage

LEMMA RunnerMove ==
  ASSUME SteeringInv, [SteeringNext]_steeringVars
  PROVE  /\ calls' \subseteq Inputs /\ held' \subseteq Inputs /\ misread \subseteq misread' /\ misread' \subseteq Inputs
         /\ Claims \/ (sent' = sent /\ calls' \cup held' \subseteq calls \cup held)
<1>1. SteeringTypeOK /\ calls \subseteq Inputs /\ held \subseteq Inputs /\ misread \subseteq Inputs
  BY Kinds DEF SteeringInv
<1>2. CASE UNCHANGED <<calls, held, sent, misread>>
  BY <1>1, <1>2
<1>3. CASE ClaimAndSteer
  <2>1. CASE Claims
    BY <1>1, <2>1, HeadJob DEF Claims
  <2>2. CASE ~Claims
    BY <1>1, <1>3, <2>2, ClaimsIt DEF ClaimAndSteer
  <2> QED BY <2>1, <2>2
<1>4. CASE SteerUnanswered
  <2>1. jobs # <<>> /\ UNCHANGED <<calls, held, sent>> /\ misread' \in {misread, misread \cup {Head(jobs).input}}
    BY <1>4 DEF SteerUnanswered, runnerVars
  <2> QED BY <1>1, <2>1, HeadJob
<1>5. ASSUME NEW i \in Inputs, CallArrives(i)
      PROVE  /\ calls' \subseteq Inputs /\ held' \subseteq Inputs /\ misread' = misread /\ sent' = sent
             /\ calls' \cup held' \subseteq calls \cup held
  BY <1>1, <1>5 DEF CallArrives
<1>6. \/ UNCHANGED <<calls, held, sent, misread>>
      \/ ClaimAndSteer \/ SteerUnanswered \/ \E i \in Inputs : CallArrives(i)
  BY DEF SteeringNext, steeringVars, runnerVars, PostMoves, JobMoves, PageMoves, RunnerMoves, SubmitQueuedInput,
     ReceiveAnswer, LoseAnswer, SteerTurnForUser, UpsertInput, ChainDispatch, AnswerWithRow, GiveUp, SteerSucceeds,
     InputRefused, ReadLatest, PublishLatest, ReadEvent, AnswerHistory, ApplyHistory, StartTurn, EndTurn,
     UserMessageAccepted, Reload, Reselect, BeginShutdown, Restart
<1> QED BY <1>1, <1>2, <1>3, <1>4, <1>5, <1>6

NewJob(i) == [input |-> i, pc |-> "waiting", status |-> "none"]

\* A dispatched input joins the jobs as its request goes on; then only the first job moves.
Joins ==
  \E k \in DOMAIN posts :
    /\ posts[k].pc = "created" /\ posts'[k].pc = "answering"
    /\ \A l \in DOMAIN posts : l # k => posts'[l] = posts[l]
    /\ jobs' = Append(jobs, NewJob(posts[k].input)) /\ sent' = sent /\ inputRows' = inputRows

Progresses ==
  /\ jobs # <<>> /\ sent' = sent
  /\ \E r \in Jobs :
       /\ jobs' = [jobs EXCEPT ![1] = r]
       /\ r.input = jobs[1].input /\ r.pc # "waiting"
       /\ r.pc = "read" => r.status = inputRows[r.input]
       /\ r.status \in {jobs[1].status, inputRows[r.input]}

JobGoes ==
  \/ UNCHANGED <<jobs, sent>>
  \/ jobs' = <<>> /\ sent' = sent
  \/ jobs # <<>> /\ jobs' = Tail(jobs) /\ sent' = sent
  \/ Joins \/ Progresses \/ Claims

LEMMA Moves ==
  ASSUME SteeringTypeOK, jobs # <<>>, sent' = sent, NEW r \in Jobs, jobs' = [jobs EXCEPT ![1] = r],
         r.input = jobs[1].input, r.pc # "waiting",
         r.pc = "read" => r.status = inputRows[r.input],
         r.status \in {jobs[1].status, inputRows[r.input]}
  PROVE  Progresses
  BY DEF Progresses

LEMMA JobsMove ==
  ASSUME SteeringInv, [SteeringNext]_steeringVars
  PROVE  JobGoes /\ jobs' \in Seq(Jobs)
<1>1. /\ SteeringTypeOK /\ jobs \in Seq(Jobs) /\ posts \in Seq(Posts)
      /\ inputRows \in [Inputs -> Status \cup {"none"}]
  BY Kinds DEF SteeringInv
<1>2. CASE UNCHANGED <<jobs, sent>>
  BY <1>1, <1>2 DEF JobGoes
<1>3. ASSUME NEW k \in DOMAIN posts, ChainDispatch(k) PROVE Joins /\ jobs' \in Seq(Jobs)
  <2>1. /\ posts[k].pc = "created" /\ sent' = sent /\ inputRows' = inputRows
        /\ jobs' = Append(jobs, NewJob(posts[k].input))
    BY <1>3 DEF ChainDispatch, runnerVars, NewJob
  <2>2. PICK r : r = AtStage(posts[k], "answering")
    OBVIOUS
  <2>3. posts' = [posts EXCEPT ![k] = r]
    BY <1>3, <2>2 DEF ChainDispatch, AtStage
  <2>4. r \in Posts /\ r.pc = "answering" /\ posts[k].input \in Inputs
    BY <1>1, <2>2, Kinds, PostStages, PostFields
  <2>5. posts'[k] = r /\ \A l \in DOMAIN posts : l # k => posts'[l] = posts[l]
    BY <1>1, <2>3, <2>4, PostReplaced
  <2>6. NewJob(posts[k].input) \in Jobs
    BY <2>4 DEF NewJob, Jobs
  <2> QED BY <1>1, <2>1, <2>4, <2>5, <2>6, Added DEF Joins
<1>4. CASE Restart
  BY <1>4, EmptySeq DEF Restart, JobGoes, runnerVars
<1>5. CASE ClaimAndSteer
  <2>1. CASE Claims
    <3>1. AtStage(jobs[1], "calling") \in Jobs /\ 1 \in DOMAIN jobs
      BY <1>1, <2>1, HeadJob, JobStages DEF Claims
    <3> QED BY <1>1, <2>1, <3>1, Replaced DEF Claims, JobGoes
  <2>2. CASE ~Claims
    BY <1>1, <1>5, <2>2, ClaimsIt, Dropped DEF JobGoes
  <2> QED BY <2>1, <2>2
<1>6. ASSUME jobs # <<>>, NEW r \in Jobs, jobs' = [jobs EXCEPT ![1] = r], sent' = sent,
             r.input = jobs[1].input, r.pc # "waiting",
             r.pc = "read" => r.status = inputRows[r.input],
             r.status \in {jobs[1].status, inputRows[r.input]}
      PROVE  JobGoes /\ jobs' \in Seq(Jobs)
  <2>1. Progresses
    BY <1>1, <1>6, Moves
  <2>2. jobs' \in Seq(Jobs)
    BY <1>1, <1>6, HeadJob, Replaced
  <2> QED BY <2>1, <2>2 DEF JobGoes
<1>7. CASE GiveUp \/ SteerSucceeds \/ InputRefused \/ SteerUnanswered
  <2>1. jobs # <<>> /\ sent' = sent
    BY <1>7 DEF GiveUp, SteerSucceeds, InputRefused, SteerUnanswered, runnerVars
  <2>2. PICK r : r = AtStage(jobs[1], "settled")
    OBVIOUS
  <2>3. jobs' = [jobs EXCEPT ![1] = r]
    BY <1>7, <2>2 DEF GiveUp, SteerSucceeds, InputRefused, SteerUnanswered, AtStage
  <2>4. r \in Jobs /\ r.pc = "settled" /\ r.input = jobs[1].input /\ r.status = jobs[1].status
    BY <1>1, <2>1, <2>2, HeadJob, JobStages
  <2> QED BY <1>6, <2>1, <2>3, <2>4
<1>8. CASE ReadLatest
  <2>1. jobs # <<>> /\ sent' = sent
    BY <1>8 DEF ReadLatest, runnerVars
  <2>2. Head(jobs) = jobs[1] /\ jobs[1] \in Jobs /\ jobs[1].input \in Inputs
    BY <1>1, <2>1, HeadJob
  <2>3. PICK r : r = ReadAs(jobs[1], inputRows[jobs[1].input])
    OBVIOUS
  <2>4. jobs' = [jobs EXCEPT ![1] = r]
    BY <1>8, <2>2, <2>3 DEF ReadLatest, ReadAs
  <2>5. r \in Jobs /\ r.pc = "read" /\ r.input = jobs[1].input /\ r.status = inputRows[jobs[1].input]
    BY <1>1, <2>2, <2>3, JobReads
  <2> QED BY <1>6, <2>1, <2>4, <2>5
<1>9. CASE PublishLatest
  BY <1>1, <1>9, Dropped DEF PublishLatest, JobGoes, runnerVars
<1>10. \/ UNCHANGED <<jobs, sent>>
       \/ \E k \in DOMAIN posts : ChainDispatch(k)
       \/ Restart \/ ClaimAndSteer \/ GiveUp \/ SteerSucceeds \/ InputRefused \/ SteerUnanswered
       \/ ReadLatest \/ PublishLatest
  BY DEF SteeringNext, steeringVars, runnerVars, PostMoves, JobMoves, PageMoves, RunnerMoves, SubmitQueuedInput,
     ReceiveAnswer, LoseAnswer, SteerTurnForUser, UpsertInput, AnswerWithRow, ReadEvent, AnswerHistory, ApplyHistory,
     CallArrives, StartTurn, EndTurn, UserMessageAccepted, Reload, Reselect, BeginShutdown
<1> QED BY <1>2, <1>3, <1>4, <1>5, <1>7, <1>8, <1>9, <1>10 DEF JobGoes

-----------------------------------------------------------------------------
\* The parts of the invariant are kept.

\* A row stays, and an input that is lost stays lost.
LEMMA RowsStay ==
  ASSUME SteeringInv, [SteeringNext]_steeringVars, NEW i \in Inputs
  PROVE  /\ inputRows[i] # "none" => inputRows'[i] # "none"
         /\ inputRows[i] \notin {"none", "queued"} => inputRows'[i] \notin {"none", "queued"}
         /\ inputRows'[i] = "failed" => inputRows[i] = "failed" \/ Lost(i)'
  BY RowsMove DEF RowGoes, Lost

LEMMA LostStays ==
  ASSUME SteeringInv, [SteeringNext]_steeringVars, NEW i \in Inputs, Lost(i)
  PROVE  Lost(i)'
<1>1. inputRows'[i] \notin {"none", "queued"} /\ inputRows[i] \notin {"none", "queued"}
  BY RowsStay DEF Lost
<1>2. misread \subseteq misread'
  BY RunnerMove
<1>3. i \in calls' \cup held' => i \in calls \cup held
  BY <1>1, RunnerMove DEF Claims
<1> QED BY <1>1, <1>2, <1>3 DEF Lost

\* A request that creates a row was doing so before, or does now, while nothing else happens.
LEMMA Creates ==
  ASSUME SteeringInv, [SteeringNext]_steeringVars, NEW k \in DOMAIN posts', posts'[k].pc = "created"
  PROVE  /\ k \in DOMAIN posts /\ posts'[k].input = posts[k].input /\ posts[k].input \in Inputs
         /\ \/ posts[k].pc = "created"
            \/ /\ posts[k].pc # "created" /\ inputRows[posts[k].input] = "none" /\ UNCHANGED <<sent, jobs>>
               /\ \A l \in DOMAIN posts : l # k => posts'[l] = posts[l]
<1>1. k \in DOMAIN posts /\ PostGoes(k)
  BY PostsMove
<1>2. posts[k].input \in Inputs
  BY <1>1, Kinds, PostFields DEF SteeringInv
<1> QED BY <1>1, <1>2 DEF PostGoes

\* The jobs after a step are those before it, but for the first and a new one.
LEMMA JobsAfter ==
  ASSUME SteeringInv, [SteeringNext]_steeringVars, NEW a \in DOMAIN jobs'
  PROVE  \/ \E b \in DOMAIN jobs : /\ jobs'[a].input = jobs[b].input
                                   /\ \/ jobs'[a] = jobs[b]
                                      \/ b = 1 /\ jobs # <<>> /\ jobs'[a].pc # "waiting"
                                         /\ jobs'[a].status \in {jobs[b].status, inputRows[jobs[b].input]}
                                         /\ (jobs'[a].pc = "read" => jobs'[a].status = inputRows[jobs[b].input])
         \/ \E k \in DOMAIN posts : posts[k].pc = "created" /\ jobs'[a] = NewJob(posts[k].input) /\ Joins
<1>1. SteeringTypeOK /\ jobs \in Seq(Jobs)
  BY Kinds DEF SteeringInv
<1>2. CASE UNCHANGED <<jobs, sent>>
  BY <1>2
<1>3. CASE jobs' = <<>>
  BY <1>3
<1>4. CASE jobs # <<>> /\ jobs' = Tail(jobs)
  BY <1>1, <1>4, Dropped
<1>5. CASE Joins
  <2>1. PICK k \in DOMAIN posts : posts[k].pc = "created" /\ jobs' = Append(jobs, NewJob(posts[k].input))
    BY <1>5 DEF Joins
  <2>2. NewJob(posts[k].input) \in Jobs
    BY <1>1, Kinds, PostFields DEF NewJob, Jobs
  <2>3. CASE a \in DOMAIN jobs
    BY <1>1, <2>1, <2>2, <2>3, Added
  <2>4. CASE a \notin DOMAIN jobs
    <3>1. jobs'[a] = NewJob(posts[k].input)
      BY <1>1, <2>1, <2>2, <2>4, Added
    <3> QED BY <1>5, <2>1, <3>1
  <2> QED BY <2>3, <2>4
<1>6. ASSUME jobs # <<>>, NEW r \in Jobs, jobs' = [jobs EXCEPT ![1] = r], r.input = jobs[1].input, r.pc # "waiting",
             r.pc = "read" => r.status = inputRows[r.input],
             r.status \in {jobs[1].status, inputRows[r.input]}
      PROVE  \E b \in DOMAIN jobs : /\ jobs'[a].input = jobs[b].input
                                    /\ \/ jobs'[a] = jobs[b]
                                       \/ b = 1 /\ jobs # <<>> /\ jobs'[a].pc # "waiting"
                                          /\ jobs'[a].status \in {jobs[b].status, inputRows[jobs[b].input]}
                                          /\ (jobs'[a].pc = "read" => jobs'[a].status = inputRows[jobs[b].input])
  <2>1. 1 \in DOMAIN jobs
    BY <1>1, <1>6, HeadJob
  <2>2. a \in DOMAIN jobs /\ jobs'[a] = IF a = 1 THEN r ELSE jobs[a]
    BY <1>1, <1>6, <2>1, Replaced
  <2>3. CASE a = 1
    BY <1>6, <2>1, <2>2, <2>3
  <2>4. CASE a # 1
    BY <2>2, <2>4
  <2> QED BY <2>3, <2>4
<1>7. CASE Progresses
  BY <1>6, <1>7 DEF Progresses
<1>8. CASE Claims
  <2>1. PICK r : r = AtStage(jobs[1], "calling")
    OBVIOUS
  <2>2. r \in Jobs /\ r.pc = "calling" /\ r.input = jobs[1].input /\ r.status = jobs[1].status
    BY <1>1, <1>8, <2>1, HeadJob, JobStages DEF Claims
  <2>3. jobs # <<>> /\ jobs' = [jobs EXCEPT ![1] = r]
    BY <1>8, <2>1 DEF Claims
  <2> QED BY <1>6, <2>2, <2>3
<1> QED BY <1>2, <1>3, <1>4, <1>5, <1>7, <1>8, JobsMove DEF JobGoes

LEMMA FiledKept ==
  ASSUME SteeringInv, [SteeringNext]_steeringVars
  PROVE  Filed'
<1>1. ASSUME NEW k \in DOMAIN posts'
      PROVE  /\ posts'[k].pc \in {"created", "answering"} => inputRows'[posts'[k].input] # "none"
             /\ posts'[k].pc = "answered" => posts'[k].result # "none"
  <2>1. CASE k \notin DOMAIN posts
    BY <2>1, PostsMove
  <2>2. CASE k \in DOMAIN posts
    <3>1. PostGoes(k) /\ posts[k].input \in Inputs
      BY <2>2, PostsMove, Kinds, PostFields DEF SteeringInv
    <3>2. /\ posts[k].pc \in {"created", "answering"} => inputRows[posts[k].input] # "none"
          /\ posts[k].pc = "answered" => posts[k].result # "none"
      BY <2>2 DEF SteeringInv, Filed
    <3>3. inputRows[posts[k].input] # "none" => inputRows'[posts[k].input] # "none"
      BY <3>1, RowsStay
    <3> QED BY <3>1, <3>2, <3>3 DEF PostGoes
  <2> QED BY <2>1, <2>2
<1>2. ASSUME NEW a \in DOMAIN jobs'
      PROVE  inputRows'[jobs'[a].input] # "none" /\ (jobs'[a].pc = "read" => jobs'[a].status # "none")
  <2>1. \A i \in Inputs : inputRows[i] # "none" => inputRows'[i] # "none"
    BY RowsStay
  <2>2. ASSUME NEW b \in DOMAIN jobs, jobs'[a].input = jobs[b].input,
               jobs'[a] = jobs[b] \/ (jobs'[a].pc = "read" => jobs'[a].status = inputRows[jobs[b].input])
        PROVE  inputRows'[jobs'[a].input] # "none" /\ (jobs'[a].pc = "read" => jobs'[a].status # "none")
    <3>1. jobs[b].input \in Inputs
      BY Kinds, JobFields DEF SteeringInv
    <3>2. inputRows[jobs[b].input] # "none" /\ (jobs[b].pc = "read" => jobs[b].status # "none")
      BY DEF SteeringInv, Filed
    <3> QED BY <2>1, <2>2, <3>1, <3>2
  <2>3. ASSUME NEW k \in DOMAIN posts, posts[k].pc = "created", jobs'[a] = NewJob(posts[k].input)
        PROVE  inputRows'[jobs'[a].input] # "none" /\ (jobs'[a].pc = "read" => jobs'[a].status # "none")
    <3>1. posts[k].input \in Inputs /\ inputRows[posts[k].input] # "none"
      BY <2>3, Kinds, PostFields DEF SteeringInv, Filed
    <3>2. jobs'[a].input = posts[k].input /\ jobs'[a].pc = "waiting"
      BY <2>3 DEF NewJob
    <3> QED BY <2>1, <3>1, <3>2
  <2> QED BY <2>2, <2>3, JobsAfter
<1> QED BY <1>1, <1>2 DEF Filed

\* An input is dispatched by one request and one job.
LEMMA DispatchedKept ==
  ASSUME SteeringInv, [SteeringNext]_steeringVars
  PROVE  Dispatched'
<1>1. SteeringTypeOK /\ jobs \in Seq(Jobs) /\ Filed /\ Dispatched
  BY Kinds DEF SteeringInv
<1>2. ASSUME NEW k \in DOMAIN posts', NEW l \in DOMAIN posts',
             posts'[k].pc = "created", posts'[l].pc = "created", posts'[k].input = posts'[l].input
      PROVE  k = l
  <2>1. CASE posts[k].pc = "created" /\ posts[l].pc = "created"
    BY <1>1, <1>2, <2>1, Creates DEF Dispatched
  <2>2. ASSUME NEW m \in DOMAIN posts', NEW n \in DOMAIN posts',
               posts'[m].pc = "created", posts'[n].pc = "created", posts'[m].input = posts'[n].input,
               posts[m].pc # "created"
        PROVE  m = n
    <3>1. /\ m \in DOMAIN posts /\ n \in DOMAIN posts /\ posts[m].input = posts[n].input
          /\ inputRows[posts[m].input] = "none"
          /\ \A j \in DOMAIN posts : j # m => posts'[j] = posts[j]
      BY <2>2, Creates
    <3>2. posts[n].pc # "created"
      BY <1>1, <3>1 DEF Filed
    <3> QED BY <2>2, <3>1, <3>2
  <2>3. CASE posts[k].pc # "created"
    BY <1>2, <2>2, <2>3
  <2>4. CASE posts[l].pc # "created"
    BY <1>2, <2>2, <2>4
  <2> QED BY <2>1, <2>3, <2>4
<1>3. ASSUME NEW a \in DOMAIN jobs', NEW b \in DOMAIN jobs', jobs'[a].input = jobs'[b].input
      PROVE  a = b
  <2>1. CASE UNCHANGED jobs
    BY <1>1, <1>3, <2>1 DEF Dispatched
  <2>2. CASE jobs' = <<>>
    BY <1>3, <2>2
  <2>3. CASE jobs # <<>> /\ jobs' = Tail(jobs)
    <3>1. /\ a + 1 \in DOMAIN jobs /\ b + 1 \in DOMAIN jobs
          /\ jobs'[a] = jobs[a + 1] /\ jobs'[b] = jobs[b + 1]
      BY <1>1, <1>3, <2>3, Dropped
    <3>2. a + 1 = b + 1
      BY <1>1, <1>3, <3>1 DEF Dispatched
    <3> QED BY <1>1, <1>3, <2>3, <3>2, Dropped
  <2>4. CASE Joins
    <3>1. PICK k \in DOMAIN posts : posts[k].pc = "created" /\ jobs' = Append(jobs, NewJob(posts[k].input))
      BY <2>4 DEF Joins
    <3>2. NewJob(posts[k].input) \in Jobs /\ NewJob(posts[k].input).input = posts[k].input
      BY <1>1, Kinds, PostFields DEF NewJob, Jobs
    <3>3. \A c \in DOMAIN jobs : jobs'[c] = jobs[c] /\ jobs[c].input # posts[k].input
      BY <1>1, <3>1, <3>2, Added DEF Dispatched
    <3>4. \A c \in DOMAIN jobs' : c \notin DOMAIN jobs => c = Len(jobs) + 1 /\ jobs'[c].input = posts[k].input
      BY <1>1, <3>1, <3>2, Added
    <3> QED BY <1>1, <1>3, <3>3, <3>4 DEF Dispatched
  <2>5. ASSUME jobs # <<>>, NEW r \in Jobs, jobs' = [jobs EXCEPT ![1] = r], r.input = jobs[1].input
        PROVE  a = b
    <3>1. 1 \in DOMAIN jobs
      BY <1>1, <2>5, HeadJob
    <3>2. /\ DOMAIN jobs' = DOMAIN jobs /\ jobs'[1] = r
          /\ \A c \in DOMAIN jobs : c # 1 => jobs'[c] = jobs[c]
      BY <1>1, <2>5, <3>1, Replaced
    <3>3. \A c \in DOMAIN jobs : jobs'[c].input = jobs[c].input
      BY <2>5, <3>2
    <3> QED BY <1>1, <1>3, <3>2, <3>3 DEF Dispatched
  <2>6. CASE Progresses
    BY <2>5, <2>6 DEF Progresses
  <2>7. CASE Claims
    <3>1. PICK r : r = AtStage(jobs[1], "calling")
      OBVIOUS
    <3>2. r \in Jobs /\ r.input = jobs[1].input
      BY <1>1, <2>7, <3>1, HeadJob, JobStages DEF Claims
    <3> QED BY <2>5, <2>7, <3>1, <3>2 DEF Claims
  <2> QED BY <2>1, <2>2, <2>3, <2>4, <2>6, <2>7, JobsMove DEF JobGoes
<1>4. ASSUME NEW k \in DOMAIN posts', NEW a \in DOMAIN jobs', posts'[k].pc = "created"
      PROVE  jobs'[a].input # posts'[k].input
  <2>1. k \in DOMAIN posts /\ posts'[k].input = posts[k].input
    BY <1>4, Creates
  <2>2. CASE posts[k].pc # "created"
    <3>1. inputRows[posts[k].input] = "none" /\ jobs' = jobs
      BY <1>4, <2>2, Creates
    <3> QED BY <1>1, <1>4, <2>1, <3>1 DEF Filed
  <2>3. CASE posts[k].pc = "created"
    <3>1. ASSUME NEW b \in DOMAIN jobs, jobs'[a].input = jobs[b].input
          PROVE  jobs'[a].input # posts'[k].input
      BY <1>1, <2>1, <2>3, <3>1 DEF Dispatched
    <3>2. CASE Joins /\ ~\E b \in DOMAIN jobs : jobs'[a].input = jobs[b].input
      <4>1. PICK l \in DOMAIN posts :
              /\ posts[l].pc = "created" /\ posts'[l].pc = "answering"
              /\ jobs' = Append(jobs, NewJob(posts[l].input))
        BY <3>2 DEF Joins
      <4>2. NewJob(posts[l].input) \in Jobs /\ NewJob(posts[l].input).input = posts[l].input
        BY <1>1, Kinds, PostFields DEF NewJob, Jobs
      <4>3. jobs'[a].input = posts[l].input
        BY <1>1, <1>4, <3>2, <4>1, <4>2, Added
      <4>4. l # k
        BY <1>4, <4>1
      <4> QED BY <1>1, <2>1, <2>3, <4>1, <4>3, <4>4 DEF Dispatched
    <3> QED BY <3>1, <3>2, JobsAfter
  <2> QED BY <2>2, <2>3
<1> QED BY <1>2, <1>3, <1>4 DEF Dispatched

\* Only the claim counts an input as given, and only once.
LEMMA Counted ==
  ASSUME SteeringInv, [SteeringNext]_steeringVars
  PROVE  \/ sent' = sent /\ calls' \cup held' \subseteq calls \cup held /\ ~Claims
         \/ /\ Claims /\ 1 \in DOMAIN jobs /\ jobs[1].input \in Inputs
            /\ sent[jobs[1].input] = 0 /\ sent'[jobs[1].input] = 1 /\ inputRows'[jobs[1].input] # "none"
            /\ \A i \in Inputs : i # jobs[1].input => sent'[i] = sent[i]
            /\ calls' \cup held' = calls \cup held \cup {jobs[1].input}
            /\ DOMAIN jobs' = DOMAIN jobs /\ jobs'[1].pc = "calling"
            /\ \A a \in DOMAIN jobs : a # 1 => jobs'[a] = jobs[a]
<1>1. SteeringTypeOK /\ jobs \in Seq(Jobs) /\ sent \in [Inputs -> Nat]
  BY Kinds DEF SteeringInv
<1>2. CASE ~Claims
  BY <1>2, RunnerMove
<1>3. CASE Claims
  <2>1. jobs # <<>> /\ 1 \in DOMAIN jobs /\ jobs[1] \in Jobs /\ jobs[1].input \in Inputs
    BY <1>1, <1>3, HeadJob DEF Claims
  <2>2. sent[jobs[1].input] = 0 /\ inputRows[jobs[1].input] # "none"
    BY <1>3, <2>1 DEF SteeringInv, Given, Filed, Claims
  <2>3. /\ sent'[jobs[1].input] = 1
        /\ \A i \in Inputs : i # jobs[1].input => sent'[i] = sent[i]
    BY <1>1, <1>3, <2>1, <2>2 DEF Claims
  <2>4. PICK r : r = AtStage(jobs[1], "calling")
    OBVIOUS
  <2>5. r \in Jobs /\ r.pc = "calling"
    BY <2>1, <2>4, JobStages
  <2>6. /\ DOMAIN jobs' = DOMAIN jobs /\ jobs'[1].pc = "calling"
        /\ \A a \in DOMAIN jobs : a # 1 => jobs'[a] = jobs[a]
    BY <1>1, <1>3, <2>1, <2>4, <2>5, Replaced DEF Claims
  <2>7. inputRows' = inputRows /\ calls' \cup held' = calls \cup held \cup {jobs[1].input}
    BY <1>3 DEF Claims
  <2> QED BY <1>3, <2>1, <2>2, <2>3, <2>6, <2>7
<1> QED BY <1>2, <1>3

LEMMA GivenKept ==
  ASSUME SteeringInv, [SteeringNext]_steeringVars
  PROVE  Given'
<1>1. SteeringTypeOK /\ jobs \in Seq(Jobs) /\ sent \in [Inputs -> Nat] /\ Filed /\ Dispatched /\ Given
  BY Kinds DEF SteeringInv
<1>2. ASSUME NEW k \in DOMAIN posts', posts'[k].pc = "created"
      PROVE  sent'[posts'[k].input] = 0
  <2>1. k \in DOMAIN posts /\ posts'[k].input = posts[k].input /\ posts[k].input \in Inputs
    BY <1>2, Creates
  <2>2. CASE posts[k].pc = "created"
    <3>1. sent[posts[k].input] = 0
      BY <1>1, <2>1, <2>2 DEF Given
    <3>2. Claims /\ 1 \in DOMAIN jobs => posts[k].input # jobs[1].input
      BY <1>1, <2>1, <2>2 DEF Dispatched
    <3> QED BY <2>1, <3>1, <3>2, Counted
  <2>3. CASE posts[k].pc # "created"
    BY <1>1, <1>2, <2>1, <2>3, Creates DEF Given
  <2> QED BY <2>2, <2>3
<1>3. ASSUME NEW a \in DOMAIN jobs', jobs'[a].pc = "waiting"
      PROVE  sent'[jobs'[a].input] = 0
  <2>1. CASE Claims
    <3>1. /\ a \in DOMAIN jobs /\ 1 \in DOMAIN jobs /\ a # 1 /\ jobs'[a] = jobs[a]
          /\ \A i \in Inputs : i # jobs[1].input => sent'[i] = sent[i]
      BY <1>3, <2>1, Counted
    <3>2. jobs[a].input # jobs[1].input /\ sent[jobs[a].input] = 0 /\ jobs[a].input \in Inputs
      BY <1>1, <1>3, <3>1, Kinds, JobFields DEF Given, Dispatched
    <3> QED BY <3>1, <3>2
  <2>2. CASE ~Claims
    <3>1. sent' = sent
      BY <2>2, Counted
    <3>2. ASSUME NEW k \in DOMAIN posts, posts[k].pc = "created", jobs'[a] = NewJob(posts[k].input)
          PROVE  sent[jobs'[a].input] = 0
      BY <1>1, <3>2 DEF Given, NewJob
    <3>3. ASSUME NEW b \in DOMAIN jobs, jobs'[a] = jobs[b]
          PROVE  sent[jobs'[a].input] = 0
      BY <1>1, <1>3, <3>3 DEF Given
    <3> QED BY <1>3, <3>1, <3>2, <3>3, JobsAfter
  <2> QED BY <2>1, <2>2
<1>4. ASSUME NEW i \in Inputs
      PROVE  /\ inputRows'[i] = "none" => sent'[i] = 0
             /\ sent'[i] <= 1
             /\ sent'[i] = 0 => i \notin calls' \cup held'
  <2>1. /\ inputRows[i] = "none" => sent[i] = 0
        /\ sent[i] <= 1
        /\ sent[i] = 0 => i \notin calls \cup held
    BY <1>1 DEF Given
  <2>2. inputRows'[i] = "none" => inputRows[i] = "none"
    BY RowsStay
  <2>3. CASE Claims /\ i = jobs[1].input
    BY <2>3, Counted
  <2>4. CASE ~(Claims /\ i = jobs[1].input)
    <3>1. sent'[i] = sent[i] /\ (i \in calls' \cup held' => i \in calls \cup held)
      BY <2>4, Counted
    <3> QED BY <2>1, <2>2, <3>1
  <2> QED BY <2>3, <2>4
<1> QED BY <1>2, <1>3, <1>4 DEF Given

-----------------------------------------------------------------------------
\* What is said of the inputs: by the page's lists, by the answers and by the events.

Lists == [Inputs -> Status \cup {"absent"}]
Honest(l) == l \in Lists /\ \A i \in Inputs : l[i] = "failed" => Lost(i)

LEMMA Statuses == /\ "queued" \in Status /\ "failed" \in Status /\ "unconfirmed" \in Status /\ "accepted" \in Status
                  /\ "none" \notin Status /\ "absent" \notin Status /\ "conflict" \notin Status
BY DEF Status

LEMMA Merged ==
  ASSUME NEW l, Honest(l), NEW i \in Inputs, NEW s \in Status, s = "failed" => Lost(i)
  PROVE  Honest(MergeQueuedInput(l, i, s))
BY DEF Honest, Lists, MergeQueuedInput

LEMMA EventFields ==
  ASSUME NEW e \in Events
  PROVE  \/ e.of = "terminal" /\ e = Terminal
         \/ e.of = "input" /\ e.input \in Inputs /\ e.status \in Status
BY DEF Events, Terminal

LEMMA UpdatedFields ==
  ASSUME NEW i \in Inputs, NEW s \in Status
  PROVE  /\ Updated(i, s) \in Events /\ Updated(i, s).of = "input"
         /\ Updated(i, s).input = i /\ Updated(i, s).status = s
BY DEF Updated, Events

LEMMA TerminalIs == Terminal \in Events /\ Terminal.of = "terminal"
BY DEF Events, Terminal

LEMMA ListMove ==
  ASSUME SteeringInv, [SteeringNext]_steeringVars
  PROVE  Honest(list')
<1>1. SteeringTypeOK /\ Truthful /\ Filed /\ Honest(list)
  BY Kinds DEF SteeringInv, Truthful, Honest, Lists
<1>2. CASE UNCHANGED list
  BY <1>1, <1>2
<1>3. ASSUME NEW i \in Inputs, SubmitQueuedInput(i) PROVE Honest(list')
  BY <1>1, <1>3, Merged, Statuses DEF SubmitQueuedInput
<1>4. ASSUME NEW k \in DOMAIN posts, ReceiveAnswer(k) PROVE Honest(list')
  <2>1. CASE ~posts[k].waiting
    BY <1>1, <1>4, <2>1 DEF ReceiveAnswer
  <2>2. CASE posts[k].waiting
    <3>1. PICK shown : shown = IF posts[k].result = "conflict" THEN "unconfirmed" ELSE posts[k].result
      OBVIOUS
    <3>2. list' = MergeQueuedInput(list, posts[k].input, shown) /\ posts[k].pc = "answered"
      BY <1>4, <2>2, <3>1 DEF ReceiveAnswer
    <3>3. posts[k].input \in Inputs /\ posts[k].result \in Status \cup {"none", "conflict"}
      BY <1>1, Kinds, PostFields
    <3>4. posts[k].result # "none" /\ (posts[k].result = "failed" => Lost(posts[k].input))
      BY <1>1, <3>2 DEF Filed, Truthful
    <3>5. shown \in Status /\ (shown = "failed" => Lost(posts[k].input))
      BY <3>1, <3>3, <3>4, Statuses
    <3> QED BY <1>1, <3>2, <3>3, <3>5, Merged
  <2> QED BY <2>1, <2>2
<1>5. ASSUME NEW k \in DOMAIN posts, LoseAnswer(k) PROVE Honest(list')
  <2>1. posts[k].input \in Inputs /\ list' = MergeQueuedInput(list, posts[k].input, "unconfirmed")
    BY <1>1, <1>5, Kinds, PostFields DEF LoseAnswer
  <2> QED BY <1>1, <2>1, Merged, Statuses
<1>6. CASE ReadEvent
  <2>1. view.cursor \in Nat /\ view.cursor < Len(history) /\ Len(history) \in Nat /\ DOMAIN history = 1..Len(history)
    BY <1>1, <1>6, Kinds, LenProperties DEF ReadEvent, SteeringTypeOK
  <2>2. PICK n \in DOMAIN history : n = view.cursor + 1
    BY <2>1
  <2>3. PICK e : e = history[n]
    OBVIOUS
  <2>4. e \in Events /\ list' = ApplyInputEvent(list, e)
    BY <1>1, <1>6, <2>2, <2>3, Kinds DEF ReadEvent
  <2>5. CASE e.of = "terminal"
    BY <1>1, <2>4, <2>5, Statuses DEF ApplyInputEvent, Honest, Lists
  <2>6. CASE e.of = "input"
    <3>1. e.input \in Inputs /\ e.status \in Status /\ (e.status = "failed" => Lost(e.input))
      BY <1>1, <2>3, <2>4, <2>6, EventFields, TerminalIs DEF Truthful
    <3>2. list' = MergeQueuedInput(list, e.input, e.status)
      BY <2>4, <2>6 DEF ApplyInputEvent
    <3> QED BY <1>1, <3>1, <3>2, Merged
  <2> QED BY <2>4, <2>5, <2>6, EventFields
<1>7. CASE ApplyHistory
  BY <1>1, <1>7 DEF ApplyHistory, Honest, Lists, Truthful, SteeringTypeOK
<1>8. CASE Reload
  BY <1>8, Statuses DEF Reload, NoInputs, Honest, Lists
<1>9. CASE Restart
  <2>1. PICK broken : list' = [i \in Inputs |-> IF i \in broken THEN MergeQueuedInput(list, i, "unconfirmed")[i] ELSE list[i]]
    BY <1>9 DEF Restart
  <2>2. \A i \in Inputs : Honest(MergeQueuedInput(list, i, "unconfirmed"))
    BY <1>1, Merged, Statuses
  <2>3. \A i \in Inputs : list'[i] \in {MergeQueuedInput(list, i, "unconfirmed")[i], list[i]}
    BY <2>1
  <2> QED BY <1>1, <2>1, <2>2, <2>3 DEF Honest, Lists
<1>10. \/ UNCHANGED list
       \/ \E i \in Inputs : SubmitQueuedInput(i)
       \/ \E k \in DOMAIN posts : ReceiveAnswer(k) \/ LoseAnswer(k)
       \/ ReadEvent \/ ApplyHistory \/ Reload \/ Restart
  BY DEF SteeringNext, steeringVars, pageVars, PostMoves, JobMoves, PageMoves, RunnerMoves, SteerTurnForUser,
     UpsertInput, ChainDispatch, AnswerWithRow, GiveUp, ClaimAndSteer, SteerSucceeds, InputRefused, SteerUnanswered,
     ReadLatest, PublishLatest, AnswerHistory, CallArrives, StartTurn, EndTurn, UserMessageAccepted, Reselect,
     BeginShutdown
<1> QED BY <1>2, <1>3, <1>4, <1>5, <1>6, <1>7, <1>8, <1>9, <1>10

\* The page's view in its next stages.
Views == [on : BOOLEAN, cursor : Nat, active : BOOLEAN, load : {"none", "asked", "answered"},
          list : Lists, upto : Nat, live : BOOLEAN]
AsksAgain(v) == [v EXCEPT !.on = FALSE, !.active = FALSE, !.load = "asked"]
Advanced(v) == [v EXCEPT !.cursor = @ + 1]
LoadAnswered(v, n, b, l) == [v EXCEPT !.load = "answered", !.upto = n, !.live = b, !.list = l]
Applied(v) == [v EXCEPT !.load = "none", !.on = v.live, !.active = v.live, !.cursor = v.upto,
                        !.list = NoInputs, !.upto = 0, !.live = FALSE]

LEMMA ViewStages ==
  ASSUME NEW v \in Views
  PROVE  /\ AsksAgain(v) \in Views /\ AsksAgain(v).list = v.list
         /\ Advanced(v) \in Views /\ Advanced(v).list = v.list
         /\ Applied(v) \in Views /\ Applied(v).list = NoInputs
<1>1. NoInputs \in Lists
  BY DEF NoInputs, Lists
<1>2. AsksAgain(v) \in Views /\ AsksAgain(v).list = v.list
  BY DEF Views, AsksAgain
<1>3. Advanced(v) \in Views /\ Advanced(v).list = v.list
  BY DEF Views, Advanced
<1>4. Applied(v) \in Views /\ Applied(v).list = NoInputs
  BY <1>1 DEF Views, Applied
<1> QED BY <1>2, <1>3, <1>4

LEMMA ViewAnswers ==
  ASSUME NEW v \in Views, NEW n \in Nat, NEW b \in BOOLEAN, NEW l \in Lists
  PROVE  LoadAnswered(v, n, b, l) \in Views /\ LoadAnswered(v, n, b, l).list = l
BY DEF Views, LoadAnswered

LEMMA ViewMove ==
  ASSUME SteeringInv, [SteeringNext]_steeringVars
  PROVE  view' \in Views /\ Honest(view'.list)
<1>1. /\ SteeringTypeOK /\ Truthful /\ history \in Seq(Events)
      /\ view \in Views /\ view.list \in Lists /\ Honest(view.list)
  BY Kinds DEF SteeringInv, SteeringTypeOK, Truthful, Honest, Lists, Views
<1>2. Honest(NoInputs) /\ NoInputs \in Lists
  BY Statuses DEF Honest, NoInputs, Lists
<1>3. ASSUME view' = AsksAgain(view) PROVE view' \in Views /\ Honest(view'.list)
  BY <1>1, <1>2, <1>3, ViewStages
<1>4. CASE UNCHANGED view
  BY <1>1, <1>4
<1>5. CASE ReadEvent
  <2>1. view' = AsksAgain(view) \/ view' = Advanced(view)
    BY <1>5 DEF ReadEvent, AsksAgain, Advanced
  <2>2. ASSUME view' = Advanced(view) PROVE view' \in Views /\ Honest(view'.list)
    BY <1>1, <1>2, <2>2, ViewStages
  <2> QED BY <1>3, <2>1, <2>2
<1>6. CASE AnswerHistory
  <2>1. PICK l : l = [i \in Inputs |-> IF inputRows[i] \in {"none", "accepted"} THEN "absent" ELSE inputRows[i]]
    OBVIOUS
  <2>2. Honest(l)
    BY <1>1, <2>1, Kinds, Statuses DEF Honest, Lists, Truthful
  <2>3. PICK b \in BOOLEAN : b = (turnStatus # "ended")
    OBVIOUS
  <2>4. view' = LoadAnswered(view, Len(history), b, l)
    BY <1>6, <2>1, <2>3 DEF AnswerHistory, LoadAnswered, Cursor
  <2>5. Len(history) \in Nat /\ l \in Lists
    BY <1>1, <2>2, LenProperties DEF Honest
  <2>6. LoadAnswered(view, Len(history), b, l) \in Views /\ LoadAnswered(view, Len(history), b, l).list = l
    BY <1>1, <2>3, <2>5, ViewAnswers
  <2> QED BY <2>2, <2>4, <2>6
<1>7. CASE ApplyHistory
  <2>1. view' = Applied(view)
    BY <1>7 DEF ApplyHistory, Applied
  <2> QED BY <1>1, <1>2, <2>1, ViewStages
<1>8. CASE Reload \/ Reselect
  BY <1>3, <1>8 DEF Reload, Reselect, AsksAgain
<1>9. UNCHANGED view \/ ReadEvent \/ AnswerHistory \/ ApplyHistory \/ Reload \/ Reselect
  BY DEF SteeringNext, steeringVars, pageVars, PostMoves, JobMoves, PageMoves, RunnerMoves, SubmitQueuedInput,
     ReceiveAnswer, LoseAnswer, SteerTurnForUser, UpsertInput, ChainDispatch, AnswerWithRow, GiveUp, ClaimAndSteer,
     SteerSucceeds, InputRefused, SteerUnanswered, ReadLatest, PublishLatest, CallArrives, StartTurn, EndTurn,
     UserMessageAccepted, BeginShutdown, Restart
<1> QED BY <1>4, <1>5, <1>6, <1>7, <1>8, <1>9

\* An event is added to the history; one that reports a failure reports a lost input.
LEMMA HistoryMove ==
  ASSUME SteeringInv, [SteeringNext]_steeringVars
  PROVE  \/ history' = history
         \/ \E e \in Events : /\ history' = Append(history, e)
                              /\ e.of = "input" => (e.status = "failed" => Lost(e.input))
<1> DEFINE Goal == \/ history' = history
                   \/ \E e \in Events : /\ history' = Append(history, e)
                                        /\ e.of = "input" => (e.status = "failed" => Lost(e.input))
<1>1. SteeringTypeOK /\ Truthful /\ Filed
  BY DEF SteeringInv
<1>2. ASSUME NEW i \in Inputs, NEW s \in Status, history' = Append(history, Updated(i, s)), s = "failed" => Lost(i)
      PROVE  Goal
  <2>1. PICK e : e = Updated(i, s)
    OBVIOUS
  <2>2. e \in Events /\ e.input = i /\ e.status = s
    BY <2>1, UpdatedFields
  <2> QED BY <1>2, <2>1, <2>2
<1>3. ASSUME NEW k \in DOMAIN posts, ChainDispatch(k) PROVE Goal
  BY <1>1, <1>2, <1>3, Kinds, PostFields, Statuses DEF ChainDispatch
<1>4. CASE PublishLatest
  <2>1. jobs # <<>> /\ Head(jobs).pc = "read" /\ history' = Append(history, Updated(Head(jobs).input, Head(jobs).status))
    BY <1>4 DEF PublishLatest
  <2>2. 1 \in DOMAIN jobs /\ Head(jobs) = jobs[1] /\ jobs[1].input \in Inputs /\ jobs[1].status \in Status \cup {"none"}
    BY <1>1, <2>1, HeadJob, JobFields
  <2>3. jobs[1].status # "none" /\ (jobs[1].status = "failed" => Lost(jobs[1].input))
    BY <1>1, <2>1, <2>2 DEF Filed, Truthful
  <2> QED BY <1>2, <2>1, <2>2, <2>3
<1>5. ASSUME NEW i \in Inputs, UserMessageAccepted(i) PROVE Goal
  BY <1>2, <1>5, Statuses DEF UserMessageAccepted
<1>6. CASE EndTurn
  <2>1. history' = Append(history, Terminal)
    BY <1>6 DEF EndTurn
  <2>2. PICK e : e = Terminal
    OBVIOUS
  <2>3. e \in Events /\ e.of # "input"
    BY <2>2, TerminalIs
  <2> QED BY <2>1, <2>2, <2>3
<1>7. \/ history' = history
      \/ \E k \in DOMAIN posts : ChainDispatch(k)
      \/ PublishLatest \/ (\E i \in Inputs : UserMessageAccepted(i)) \/ EndTurn
  BY DEF SteeringNext, steeringVars, PostMoves, JobMoves, PageMoves, RunnerMoves, SubmitQueuedInput,
     ReceiveAnswer, LoseAnswer, SteerTurnForUser, UpsertInput, AnswerWithRow, GiveUp, ClaimAndSteer, ReadEvent,
     SteerSucceeds, InputRefused, SteerUnanswered, ReadLatest, AnswerHistory, ApplyHistory, CallArrives, StartTurn,
     Reload, Reselect, BeginShutdown, Restart
<1> QED BY <1>3, <1>4, <1>5, <1>6, <1>7

\* The words and the flags that are left.
LEMMA FlagsMove ==
  ASSUME SteeringInv, [SteeringNext]_steeringVars
  PROVE  /\ turnStatus' \in {"queued", "running", "ended"} /\ stopping' \in BOOLEAN
         /\ inputFaults' \in 0..MaxInputFaults /\ lagging' \subseteq Inputs
<1>1. /\ SteeringTypeOK /\ turnStatus \in {"queued", "running", "ended"} /\ stopping \in BOOLEAN
      /\ inputFaults \in 0..MaxInputFaults /\ lagging \subseteq Inputs
  BY DEF SteeringInv, SteeringTypeOK
<1>2. \A k \in DOMAIN posts : posts[k].input \in Inputs
  BY <1>1, Kinds, PostFields
<1>3. turnStatus' \in {"queued", "running", "ended"}
  <2>1. UNCHANGED turnStatus \/ StartTurn \/ EndTurn
    BY DEF SteeringNext, steeringVars, PostMoves, JobMoves, PageMoves, RunnerMoves, SubmitQueuedInput,
       ReceiveAnswer, LoseAnswer, SteerTurnForUser, UpsertInput, ChainDispatch, AnswerWithRow, GiveUp, ClaimAndSteer,
       ReadEvent, SteerSucceeds, InputRefused, SteerUnanswered, ReadLatest, PublishLatest, AnswerHistory,
       ApplyHistory, CallArrives, UserMessageAccepted, Reload, Reselect, BeginShutdown, Restart
  <2> QED BY <1>1, <2>1 DEF StartTurn, EndTurn
<1>4. stopping' \in BOOLEAN
  <2>1. UNCHANGED stopping \/ BeginShutdown \/ Restart
    BY DEF SteeringNext, steeringVars, PostMoves, JobMoves, PageMoves, RunnerMoves, SubmitQueuedInput,
       ReceiveAnswer, LoseAnswer, SteerTurnForUser, UpsertInput, ChainDispatch, AnswerWithRow, GiveUp, ClaimAndSteer,
       ReadEvent, SteerSucceeds, InputRefused, SteerUnanswered, ReadLatest, PublishLatest, AnswerHistory,
       ApplyHistory, CallArrives, UserMessageAccepted, Reload, Reselect, StartTurn, EndTurn
  <2> QED BY <1>1, <2>1 DEF BeginShutdown, Restart
<1>5. inputFaults' \in 0..MaxInputFaults
  <2>1. UNCHANGED inputFaults \/ InputFault
    BY DEF SteeringNext, steeringVars, PostMoves, JobMoves, PageMoves, RunnerMoves, SubmitQueuedInput,
       ReceiveAnswer, LoseAnswer, SteerTurnForUser, UpsertInput, ChainDispatch, AnswerWithRow, GiveUp, ClaimAndSteer,
       ReadEvent, SteerSucceeds, InputRefused, SteerUnanswered, ReadLatest, PublishLatest, AnswerHistory,
       ApplyHistory, CallArrives, UserMessageAccepted, Reload, Reselect, StartTurn, EndTurn, BeginShutdown, Restart
  <2> QED BY <1>1, <2>1, SteeringAssumption DEF InputFault
<1>6. lagging' \subseteq Inputs
  <2>1. \/ UNCHANGED lagging
        \/ \E k \in DOMAIN posts : ReceiveAnswer(k) \/ LoseAnswer(k) \/ UpsertInput(k)
        \/ ReadEvent \/ Restart
    BY DEF SteeringNext, steeringVars, PostMoves, JobMoves, PageMoves, RunnerMoves, SubmitQueuedInput,
       SteerTurnForUser, ChainDispatch, AnswerWithRow, GiveUp, ClaimAndSteer,
       SteerSucceeds, InputRefused, SteerUnanswered, ReadLatest, PublishLatest, AnswerHistory,
       ApplyHistory, CallArrives, UserMessageAccepted, Reload, Reselect, StartTurn, EndTurn, BeginShutdown
  <2>2. ASSUME NEW k \in DOMAIN posts, ReceiveAnswer(k) \/ LoseAnswer(k) \/ UpsertInput(k)
        PROVE  lagging' \subseteq Inputs
    BY <1>1, <1>2, <2>2 DEF ReceiveAnswer, LoseAnswer, UpsertInput
  <2>3. CASE ReadEvent
    BY <1>1, <2>3 DEF ReadEvent
  <2>4. CASE Restart
    BY <1>1, <1>2, <2>4 DEF Restart
  <2> QED BY <1>1, <2>1, <2>2, <2>3, <2>4
<1> QED BY <1>3, <1>4, <1>5, <1>6

LEMMA TypesKept ==
  ASSUME SteeringInv, [SteeringNext]_steeringVars
  PROVE  SteeringTypeOK'
<1>1. SteeringTypeOK /\ sent \in [Inputs -> Nat] /\ history \in Seq(Events)
  BY Kinds DEF SteeringInv
<1>2. sent' \in [Inputs -> Nat]
  <2>1. CASE ~Claims
    BY <1>1, <2>1, Counted
  <2>2. CASE Claims
    BY <1>1, <2>2, Counted DEF Claims
  <2> QED BY <2>1, <2>2
<1>3. history' \in Seq(Events)
  BY <1>1, HistoryMove, AppendProperties
<1>4. posts' \in Seq(Posts) /\ Len(posts') <= MaxPosts
  BY PostsMove
<1>5. jobs' \in Seq(Jobs)
  BY JobsMove
<1>6. calls' \subseteq Inputs /\ held' \subseteq Inputs /\ misread' \subseteq Inputs
  BY RunnerMove
<1>7. inputRows' \in [Inputs -> Status \cup {"none"}]
  BY RowsMove
<1>8. list' \in Lists /\ view' \in Views
  BY ListMove, ViewMove DEF Honest
<1> QED BY <1>2, <1>3, <1>4, <1>5, <1>6, <1>7, <1>8, FlagsMove
        DEF SteeringTypeOK, Posts, Jobs, Events, Lists, Views

\* A failure is told of an input that was lost, and it stays lost.
LEMMA TruthfulKept ==
  ASSUME SteeringInv, [SteeringNext]_steeringVars
  PROVE  Truthful'
<1>1. SteeringTypeOK /\ Truthful /\ history \in Seq(Events)
  BY Kinds DEF SteeringInv
<1>2. ASSUME NEW i \in Inputs, "failed" \in {inputRows'[i], list'[i], view'.list[i]} PROVE Lost(i)'
  <2>1. CASE inputRows'[i] = "failed"
    <3>1. CASE inputRows[i] = "failed"
      BY <1>1, <3>1, LostStays DEF Truthful
    <3> QED BY <2>1, <3>1, RowsStay
  <2>2. CASE list'[i] = "failed" \/ view'.list[i] = "failed"
    <3>1. Lost(i)
      BY <2>2, ListMove, ViewMove DEF Honest
    <3> QED BY <3>1, LostStays
  <2> QED BY <1>2, <2>1, <2>2
<1>3. ASSUME NEW k \in DOMAIN posts', posts'[k].result = "failed"
      PROVE  \E i \in Inputs : posts'[k].input = i /\ Lost(i)'
  <2>1. k \in DOMAIN posts /\ PostGoes(k)
    BY <1>3, PostsMove
  <2>2. posts[k].input \in Inputs /\ posts'[k].input = posts[k].input
    BY <1>1, <2>1, Kinds, PostFields DEF PostGoes
  <2>3. posts[k].result = "failed" \/ inputRows[posts[k].input] = "failed"
    BY <1>3, <2>1 DEF PostGoes
  <2>4. Lost(posts[k].input)
    BY <1>1, <2>1, <2>2, <2>3 DEF Truthful
  <2>5. ASSUME NEW i \in Inputs, Lost(i) PROVE Lost(i)'
    BY <2>5, LostStays
  <2>6. PICK i \in Inputs : i = posts[k].input
    BY <2>2
  <2>7. Lost(i)'
    BY <2>4, <2>5, <2>6
  <2> QED BY <2>2, <2>6, <2>7
<1>4. ASSUME NEW a \in DOMAIN jobs', jobs'[a].status = "failed"
      PROVE  \E i \in Inputs : jobs'[a].input = i /\ Lost(i)'
  <2>1. PICK b \in DOMAIN jobs : /\ jobs'[a].input = jobs[b].input
                                 /\ jobs[b].status = "failed" \/ inputRows[jobs[b].input] = "failed"
    <3>1. \A i : NewJob(i).status # "failed"
      BY DEF NewJob
    <3> QED BY <1>4, <3>1, JobsAfter
  <2>2. jobs[b].input \in Inputs
    BY <1>1, Kinds, JobFields
  <2>3. Lost(jobs[b].input)
    BY <1>1, <2>1, <2>2 DEF Truthful
  <2>4. ASSUME NEW i \in Inputs, Lost(i) PROVE Lost(i)'
    BY <2>4, LostStays
  <2>5. PICK i \in Inputs : i = jobs[b].input
    BY <2>2
  <2>6. Lost(i)'
    BY <2>3, <2>4, <2>5
  <2> QED BY <2>1, <2>5, <2>6
<1>5. ASSUME NEW n \in DOMAIN history', history'[n].of = "input", history'[n].status = "failed"
      PROVE  \E i \in Inputs : history'[n].input = i /\ Lost(i)'
  <2>1. history'[n].input \in Inputs /\ Lost(history'[n].input)
    <3>1. CASE n \in DOMAIN history /\ history'[n] = history[n]
      BY <1>1, <1>5, <3>1, Kinds, EventFields, TerminalIs DEF Truthful
    <3>2. ASSUME NEW e \in Events, history'[n] = e, e.of = "input" => (e.status = "failed" => Lost(e.input))
          PROVE  history'[n].input \in Inputs /\ Lost(history'[n].input)
      BY <1>5, <3>2, EventFields
    <3>3. CASE history' = history
      BY <3>1, <3>3
    <3>4. CASE history' # history
      <4>1. PICK e \in Events : /\ history' = Append(history, e)
                                /\ e.of = "input" => (e.status = "failed" => Lost(e.input))
        BY <3>4, HistoryMove
      <4>2. \/ n \in DOMAIN history /\ history'[n] = history[n]
            \/ history'[n] = e
        BY <1>1, <4>1, Added
      <4> QED BY <3>1, <3>2, <4>1, <4>2
    <3> QED BY <3>3, <3>4
  <2>2. ASSUME NEW i \in Inputs, Lost(i) PROVE Lost(i)'
    BY <2>2, LostStays
  <2>3. PICK i \in Inputs : i = history'[n].input /\ Lost(i)
    BY <2>1
  <2>4. Lost(i)'
    BY <2>2, <2>3
  <2> QED BY <2>3, <2>4
<1>6. \A k \in DOMAIN posts' : posts'[k].result = "failed" => Lost(posts[k].input)'
  BY <1>3 DEF Lost
<1>7. \A a \in DOMAIN jobs' : jobs'[a].status = "failed" => Lost(jobs[a].input)'
  BY <1>4 DEF Lost
<1>8. \A n \in DOMAIN history' :
        history'[n].of = "input" => (history'[n].status = "failed" => Lost(history[n].input)')
  BY <1>5 DEF Lost
<1> QED BY <1>2, <1>6, <1>7, <1>8 DEF Truthful

-----------------------------------------------------------------------------
LEMMA Begins == SteeringInit => SteeringInv
<1> SUFFICES ASSUME SteeringInit PROVE SteeringInv
  OBVIOUS
<1>1. SteeringTypeOK
  <2>1. /\ turnStatus = "queued" /\ inputRows = [i \in Inputs |-> "none"] /\ history = <<>>
        /\ posts = <<>> /\ jobs = <<>> /\ calls = {} /\ held = {} /\ sent = [i \in Inputs |-> 0]
        /\ stopping = FALSE /\ list = NoInputs /\ inputFaults = 0 /\ misread = {} /\ lagging = {}
    BY DEF SteeringInit
  <2>2. NoInputs \in [Inputs -> Status \cup {"absent"}]
    BY DEF NoInputs
  <2>3. view \in Views
    BY <2>2 DEF SteeringInit, Views, Lists
  <2>4. Len(posts) <= MaxPosts /\ 0 \in 0..MaxInputFaults
    BY <2>1, SteeringAssumption
  <2>5. history \in Seq(Events) /\ posts \in Seq(Posts) /\ jobs \in Seq(Jobs)
    BY <2>1, EmptySeq
  <2>6. inputRows \in [Inputs -> Status \cup {"none"}] /\ sent \in [Inputs -> Nat]
    BY <2>1
  <2> QED BY <2>1, <2>2, <2>3, <2>4, <2>5, <2>6 DEF SteeringTypeOK, Views, Lists, Posts, Jobs, Events
<1>2. Filed /\ Dispatched
  BY DEF SteeringInit, Filed, Dispatched
<1>3. Given
  BY DEF SteeringInit, Given
<1>4. Truthful
  BY DEF SteeringInit, Truthful, NoInputs
<1> QED BY <1>1, <1>2, <1>3, <1>4 DEF SteeringInv

LEMMA Kept == SteeringInv /\ [SteeringNext]_steeringVars => SteeringInv'
BY TypesKept, FiledKept, DispatchedKept, GivenKept, TruthfulKept DEF SteeringInv

\* The chain of turns.service.ts dispatches an input once, however often its request is
\* repeated, and every word that an input failed, in its row, its events, the answers to
\* its requests, the history and the page's list, is about an input the runner will not get.
THEOREM SteeringInvariant == SteeringSpec => []SteeringInv
<1>1. SteeringInit => SteeringInv
  BY Begins
<1>2. SteeringInv /\ [SteeringNext]_steeringVars => SteeringInv'
  BY Kept
<1> QED BY <1>1, <1>2, PTL DEF SteeringSpec

\* A message sent to a running turn reaches the runner once, whatever is sent again, lost
\* or restarted; and one that steerTurnForUser or the page reports as failed is not with
\* the agent as well, unless the API took a call without an answer for a refusal.
THEOREM InputsGivenOnce == SteeringSpec => []GivenOnce
<1>1. SteeringInv => GivenOnce
  BY DEF SteeringInv, Given, Truthful, Lost, GivenOnce
<1> QED BY <1>1, SteeringInvariant, PTL
=============================================================================
