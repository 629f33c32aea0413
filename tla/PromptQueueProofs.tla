--------------------------- MODULE PromptQueueProofs ---------------------------
(***************************************************************************)
(* Codex processes never work on the same task at the same time, and never *)
(* more than MaxRunning of them at all, for every set of tasks and slots   *)
(* and every limit.  The invariant adds to TaskRunsAlone what holds it up: *)
(* each result still in the channel belongs to a job that is neither       *)
(* queued nor run by a process, and a Host that is down has none of either.*)
(*                                                                         *)
(* The refinement of TaskFifo needs one thing more: a running job is the   *)
(* first pending one of its task.  A step changes the table jobs in one of *)
(* four ways, whoever takes it (TableStep), and each is an action of the   *)
(* promise: a row appended is accepted, a row claimed starts its task, a   *)
(* row that ends is the first of its task's queue, and a recovery is a     *)
(* stop, which leaves the queues alone.                                    *)
(***************************************************************************)
EXTENDS PromptQueue, FiniteSetTheorems, TLAPS

ResultsAreOver ==
  \A i \in 1..Len(results) :
    /\ results[i].job \in Sequences1 \ codex
    /\ jobs[results[i].job].state # "queued"

DownIsEmpty == ~up => workers = {} /\ codex = {} /\ results = <<>>

CodexRuns ==
  /\ \A j \in codex : jobs[j].state = "running"
  /\ \A j, k \in codex : jobs[j].task = jobs[k].task => j = k

QueueInv == TypeOK /\ ResultsAreOver /\ DownIsEmpty /\ CodexRuns /\ Cardinality(codex) <= MaxRunning

\* The finite sets the limits count.
LEMMA WorkersFinite ==
  ASSUME TypeOK
  PROVE  IsFiniteSet(workers) /\ IsFiniteSet(codex) /\ Cardinality(codex) <= Cardinality(workers)
         /\ Cardinality(workers) \in Nat /\ Cardinality(codex) \in Nat
<1>1. IsFiniteSet(1..Len(jobs))
  BY FS_Interval DEF TypeOK
<1>2. IsFiniteSet(workers)
  BY <1>1, FS_Subset DEF TypeOK, Sequences1
<1> QED
  BY <1>2, FS_Subset, FS_CardinalityType DEF TypeOK

\* Rows of the table jobs stay rows when they are claimed, marked or recovered.
LEMMA RowsStayRows ==
  ASSUME NEW job \in Job, NEW s \in {"queued", "running", "ended"}, NEW c \in Nat, NEW n \in Nat
  PROVE  /\ [job EXCEPT !.state = s] \in Job
         /\ [job EXCEPT !.state = s, !.claim = c] \in Job
         /\ [job EXCEPT !.state = s, !.recoveries = n] \in Job
         /\ [job EXCEPT !.state = s].task = job.task /\ [job EXCEPT !.state = s].state = s
         /\ [job EXCEPT !.state = s, !.claim = c].task = job.task
         /\ [job EXCEPT !.state = s, !.claim = c].state = s
<1>1. /\ DOMAIN job = {"utterance", "task", "claim", "recoveries", "state"}
      /\ job.utterance \in Utterances /\ job.task \in Tasks /\ job.claim \in Nat
      /\ job.recoveries \in Nat
  BY DEF Job
<1>2. [job EXCEPT !.state = s] \in Job
  BY <1>1 DEF Job
<1>3. [job EXCEPT !.state = s, !.claim = c] \in Job
  BY <1>1 DEF Job
<1>4. [job EXCEPT !.state = s, !.recoveries = n] \in Job
  BY <1>1 DEF Job
<1> QED
  BY <1>1, <1>2, <1>3, <1>4 DEF Job

\* Replacing a row of a table leaves the others alone.
LEMMA ReplacedRow ==
  ASSUME jobs \in Seq(Job), NEW j \in Sequences1, NEW row \in Job
  PROVE  /\ [jobs EXCEPT ![j] = row] \in Seq(Job)
         /\ Len([jobs EXCEPT ![j] = row]) = Len(jobs)
         /\ [jobs EXCEPT ![j] = row][j] = row
         /\ \A k \in Sequences1 \ {j} : [jobs EXCEPT ![j] = row][k] = jobs[k]
  BY DEF Sequences1

LEMMA QueueInvInit == Init => QueueInv
<1> SUFFICES ASSUME Init PROVE QueueInv
  OBVIOUS
<1>1. TypeOK
  BY LimitsAssumption DEF Init, TypeOK, Sequences1
<1>2. ResultsAreOver /\ DownIsEmpty /\ CodexRuns
  BY DEF Init, ResultsAreOver, DownIsEmpty, CodexRuns
<1>3. Cardinality(codex) <= MaxRunning
  BY FS_EmptySet, LimitsAssumption DEF Init
<1> QED
  BY <1>1, <1>2, <1>3 DEF QueueInv

LEMMA QueueInvNext == QueueInv /\ [Next]_vars => QueueInv'
<1> SUFFICES ASSUME QueueInv, [Next]_vars PROVE QueueInv'
  OBVIOUS
<1> USE LimitsAssumption, NoneAssumption
<1>0. UNCHANGED vars => QueueInv'
  BY DEF QueueInv, TypeOK, ResultsAreOver, DownIsEmpty, CodexRuns, Sequences1, vars, host, binding, voice
<1>1. ASSUME NEW u \in Utterances, Transcribe(u) PROVE QueueInv'
  <2>1. prompts' \in Seq(Utterances)
    <3>1. Append(prompts, u) \in Seq(Utterances)
      BY <1>1 DEF QueueInv, TypeOK
    <3> QED
      BY <1>1, <3>1 DEF Transcribe, QueueInv, TypeOK
  <2>2. retired' \subseteq Utterances
    BY <1>1 DEF Transcribe, QueueInv, TypeOK
  <2>3. UNCHANGED <<up, stops, bindings, rebinds, loop, jobs, workers, codex, results>>
    BY <1>1 DEF Transcribe, host, binding
  <2>4. TypeOK'
    BY <2>1, <2>2, <2>3 DEF QueueInv, TypeOK, Sequences1
  <2> QED
    BY <2>3, <2>4 DEF QueueInv, ResultsAreOver, DownIsEmpty, CodexRuns, Sequences1
<1>2. CASE EnqueuePrompt
  <2> DEFINE u == Head(prompts)
             t == bindings[u[1]]
  <2>1. u \in Utterances /\ prompts' \in Seq(Utterances)
    BY <1>2 DEF EnqueuePrompt, QueueInv, TypeOK
  <2>2. CASE UNCHANGED jobs
    <3>1. UNCHANGED <<up, stops, bindings, rebinds, retired, loop, jobs, workers, codex, results>>
      BY <1>2, <2>2 DEF EnqueuePrompt, host, binding
    <3>2. TypeOK'
      BY <2>1, <3>1 DEF QueueInv, TypeOK, Sequences1
    <3> QED
      BY <3>1, <3>2 DEF QueueInv, ResultsAreOver, DownIsEmpty, CodexRuns, Sequences1
  <2>3. CASE Accepts(u, t) /\ jobs' = Append(jobs, NewJob(u, t))
    <3>0. UNCHANGED <<up, workers, codex, results>>
      BY <1>2 DEF EnqueuePrompt, host
    <3>1. u[1] \in Slots
      BY <2>1 DEF Utterances
    <3>2. NewJob(u, t) \in Job
      BY <2>1, <2>3, <3>1 DEF NewJob, Job, Accepts, QueueInv, TypeOK
    <3>3. /\ jobs' \in Seq(Job)
          /\ Len(jobs') = Len(jobs) + 1
          /\ \A j \in 1..Len(jobs) : jobs'[j] = jobs[j]
      BY <2>3, <3>2 DEF QueueInv, TypeOK
    <3>4. TypeOK'
      BY <1>2, <2>1, <3>3 DEF EnqueuePrompt, QueueInv, TypeOK, Sequences1, host, binding
    <3>5. (ResultsAreOver /\ DownIsEmpty)'
      <4>1. /\ \A i \in 1..Len(results) : results[i].job \in 1..Len(jobs)
            /\ Len(jobs) \in Nat
        BY DEF QueueInv, TypeOK, ResultsAreOver, Sequences1
      <4> QED
        BY <3>0, <3>3, <4>1, SMTT(30) DEF QueueInv, ResultsAreOver, DownIsEmpty, Sequences1
    <3>6. (CodexRuns /\ Cardinality(codex) <= MaxRunning)'
      <4>1. \A j \in codex : j \in 1..Len(jobs)
        BY DEF QueueInv, TypeOK, Sequences1
      <4> QED
        BY <3>0, <3>3, <4>1 DEF QueueInv, CodexRuns
    <3> QED
      BY <3>4, <3>5, <3>6 DEF QueueInv
  <2> QED
    BY <1>2, <2>2, <2>3 DEF EnqueuePrompt
<1>3. CASE EnterTick \/ EndResults \/ EndClaims
  BY <1>3 DEF EnterTick, EndResults, EndClaims, Loop, Goes, QueueInv, TypeOK, ResultsAreOver,
              DownIsEmpty, CodexRuns, Sequences1, host, binding, voice
<1>4. ASSUME NEW s \in Slots, NEW t \in Tasks, Rebind(s, t) PROVE QueueInv'
  BY <1>4 DEF Rebind, QueueInv, TypeOK, ResultsAreOver, DownIsEmpty, CodexRuns, Sequences1, host, voice
<1>5. CASE HandleResult
  <2> DEFINE r == Head(results)
  <2>1. /\ r = results[1] /\ Len(results) \in Nat \ {0}
        /\ results' = Tail(results) /\ results' \in Seq(Result)
        /\ Len(results') = Len(results) - 1
        /\ \A i \in 1..Len(results') : results'[i] = results[i + 1]
    BY <1>5 DEF HandleResult, QueueInv, TypeOK
  <2>2. r.job \in Sequences1 \ codex /\ jobs[r.job].state # "queued"
    BY <2>1 DEF QueueInv, ResultsAreOver
  <2>3. /\ jobs' \in Seq(Job) /\ Len(jobs') = Len(jobs)
        /\ \A j \in Sequences1 : jobs'[j].task = jobs[j].task
        /\ \A j \in Sequences1 \ {r.job} : jobs'[j] = jobs[j]
        /\ jobs'[r.job].state # "queued"
    <3> DEFINE ended == [jobs[r.job] EXCEPT !.state = "ended"]
    <3>0. jobs \in Seq(Job) /\ jobs[r.job] \in Job
      BY <2>2 DEF QueueInv, TypeOK, Sequences1
    <3>1. ended \in Job /\ ended.task = jobs[r.job].task /\ ended.state = "ended"
      BY <3>0, RowsStayRows, 0 \in Nat
    <3>2. CASE jobs' = jobs
      BY <2>2, <3>2 DEF QueueInv, TypeOK
    <3>3. CASE jobs' = [jobs EXCEPT ![r.job].state = "ended"]
      <4>1. jobs' = [jobs EXCEPT ![r.job] = ended]
        BY <3>3
      <4> HIDE DEF ended, r
      <4> QED
        BY <2>2, <3>0, <3>1, <4>1, ReplacedRow
    <3> QED
      BY <1>5, <3>2, <3>3 DEF HandleResult, Marked
  <2>4. TypeOK'
    BY <1>5, <2>1, <2>2, <2>3 DEF HandleResult, QueueInv, TypeOK, Sequences1, host, binding, voice
  <2>5. ResultsAreOver'
    <3> SUFFICES ASSUME NEW i \in 1..Len(results')
                 PROVE  /\ results'[i].job \in Sequences1' \ codex'
                        /\ jobs'[results'[i].job].state # "queued"
      BY DEF ResultsAreOver
    <3>1. results[i + 1].job \in Sequences1 \ codex /\ jobs[results[i + 1].job].state # "queued"
      BY <2>1 DEF QueueInv, ResultsAreOver
    <3> QED
      BY <1>5, <2>1, <2>3, <3>1 DEF HandleResult, Sequences1
  <2>6. DownIsEmpty'
    BY <1>5, <2>1 DEF HandleResult, Loop, host, DownIsEmpty
  <2>7. (CodexRuns /\ Cardinality(codex) <= MaxRunning)'
    BY <1>5, <2>2, <2>3, SMTT(30) DEF HandleResult, QueueInv, TypeOK, CodexRuns, Sequences1
  <2> QED
    BY <2>4, <2>5, <2>6, <2>7 DEF QueueInv
<1>6. ASSUME NEW j \in Sequences1, ClaimJob(j) PROVE QueueInv'
  <2>1. /\ j \in Sequences1 /\ jobs[j].state = "queued"
        /\ \A k \in Running : jobs[k].task # jobs[j].task
        /\ Cardinality(workers) < MaxRunning
    BY <1>6 DEF ClaimJob, NextRunnable, Runnable, MayClaim, Queued
  <2>2. /\ jobs' \in Seq(Job) /\ Len(jobs') = Len(jobs)
        /\ \A k \in Sequences1 : jobs'[k].task = jobs[k].task
        /\ \A k \in Sequences1 \ {j} : jobs'[k] = jobs[k]
        /\ jobs'[j].state = "running"
    <3>1. jobs[j] \in Job
      BY <2>1 DEF QueueInv, TypeOK, Sequences1
    <3> DEFINE claimed == [jobs[j] EXCEPT !.state = "running", !.claim = @ + 1]
    <3>2. claimed \in Job /\ claimed.task = jobs[j].task /\ claimed.state = "running"
      <4>1. jobs[j].claim + 1 \in Nat
        BY <3>1 DEF Job
      <4>2. PICK row \in Job, c \in Nat : row = jobs[j] /\ c = jobs[j].claim + 1
        BY <3>1, <4>1
      <4>3. claimed = [row EXCEPT !.state = "running", !.claim = c]
        BY <4>2, Zenon
      <4>4. DOMAIN row = {"utterance", "task", "claim", "recoveries", "state"}
        BY DEF Job
      <4>5. claimed \in Job
        BY <4>3, <4>4 DEF Job
      <4> HIDE DEF claimed
      <4> QED
        BY <4>2, <4>3, <4>4, <4>5
    <3>3. jobs' = [jobs EXCEPT ![j] = claimed]
      BY <1>6 DEF ClaimJob
    <3> HIDE DEF claimed
    <3> QED
      BY <2>1, <3>2, <3>3, ReplacedRow DEF QueueInv, TypeOK
  <2>3. TypeOK'
    BY <1>6, <2>1, <2>2 DEF ClaimJob, QueueInv, TypeOK, Sequences1, host, binding, voice
  <2>4. ResultsAreOver'
    <3> SUFFICES ASSUME NEW i \in 1..Len(results)
                 PROVE  /\ results[i].job \in Sequences1' \ codex'
                        /\ jobs'[results[i].job].state # "queued"
      BY <1>6 DEF ResultsAreOver, ClaimJob
    <3>1. results[i].job \in Sequences1 \ codex /\ jobs[results[i].job].state # "queued"
      BY DEF QueueInv, ResultsAreOver
    <3> QED
      BY <1>6, <2>1, <2>2, <3>1 DEF ClaimJob, Sequences1
  <2>5. DownIsEmpty'
    BY <1>6 DEF ClaimJob, Loop, host, DownIsEmpty
  <2>6. CodexRuns'
    <3>1. \A k \in codex : k \in Running /\ jobs[k].task # jobs[j].task /\ k # j
      BY <2>1 DEF QueueInv, TypeOK, CodexRuns, Running, Sequences1
    <3> QED
      BY <1>6, <2>1, <2>2, <3>1 DEF ClaimJob, QueueInv, TypeOK, CodexRuns, Sequences1
  <2>7. Cardinality(codex') <= MaxRunning
    <3>1. /\ IsFiniteSet(codex) /\ Cardinality(codex) <= Cardinality(workers)
          /\ Cardinality(workers) \in Nat /\ Cardinality(codex) \in Nat
      BY WorkersFinite DEF QueueInv
    <3>2. Cardinality(codex \cup {j}) <= Cardinality(codex) + 1
      BY <3>1, FS_AddElement
    <3>3. Cardinality(codex \cup {j}) \in Nat
      BY <3>1, FS_AddElement, FS_CardinalityType
    <3> QED
      BY <1>6, <2>1, <3>1, <3>2, <3>3 DEF ClaimJob
  <2> QED
    BY <2>3, <2>4, <2>5, <2>6, <2>7 DEF QueueInv
<1>7. ASSUME NEW j \in Sequences1, CodexEnds(j) PROVE QueueInv'
  <2> DEFINE r == [job |-> j, claim |-> jobs[j].claim]
  <2>1. jobs[j] \in Job /\ jobs[j].state = "running" /\ j \in Nat \ {0}
    BY <1>7 DEF CodexEnds, QueueInv, TypeOK, CodexRuns, Sequences1
  <2>2. r \in Result
    BY <2>1 DEF Result, Job
  <2>3. /\ results' \in Seq(Result) /\ Len(results') = Len(results) + 1
        /\ results'[Len(results) + 1].job = j
        /\ \A i \in 1..Len(results) : results'[i] = results[i]
        /\ Len(results) \in Nat
    BY <1>7, <2>2 DEF CodexEnds, QueueInv, TypeOK
  <2>4. TypeOK'
    BY <1>7, <2>3 DEF CodexEnds, QueueInv, TypeOK, Sequences1, host, binding, voice
  <2>5. ResultsAreOver'
    <3> SUFFICES ASSUME NEW i \in 1..Len(results')
                 PROVE  /\ results'[i].job \in Sequences1' \ codex'
                        /\ jobs'[results'[i].job].state # "queued"
      BY DEF ResultsAreOver
    <3>1. CASE i = Len(results) + 1
      BY <1>7, <2>1, <2>3, <3>1 DEF CodexEnds, Sequences1
    <3>2. CASE i \in 1..Len(results)
      BY <1>7, <2>3, <3>2 DEF CodexEnds, Sequences1, QueueInv, ResultsAreOver
    <3> QED
      BY <2>3, <3>1, <3>2
  <2>6. (DownIsEmpty /\ CodexRuns)'
    BY <1>7 DEF CodexEnds, QueueInv, TypeOK, DownIsEmpty, CodexRuns, host
  <2>7. Cardinality(codex') <= MaxRunning
    <3>1. IsFiniteSet(codex) /\ Cardinality(codex) \in Nat
      BY WorkersFinite DEF QueueInv
    <3>2. Cardinality(codex') <= Cardinality(codex) /\ Cardinality(codex') \in Nat
      BY <1>7, <3>1, FS_Subset, FS_CardinalityType DEF CodexEnds
    <3> QED
      BY <3>1, <3>2 DEF QueueInv
  <2> QED
    BY <2>4, <2>5, <2>6, <2>7 DEF QueueInv
<1>8. CASE HostStops
  <2>1. /\ up' = FALSE /\ stops' = stops + 1 /\ retired' = {} /\ prompts' = <<>> /\ loop' = "serve"
        /\ workers' = {} /\ codex' = {} /\ results' = <<>>
        /\ UNCHANGED <<bindings, rebinds, jobs>> /\ stops < MaxStops
    BY <1>8 DEF HostStops, binding
  <2>2. Cardinality(codex') <= MaxRunning
    BY <2>1, FS_EmptySet
  <2>3. TypeOK'
    <3>1. stops' \in 0..MaxStops
      BY <2>1 DEF QueueInv, TypeOK
    <3>2. <<>> \in Seq(Utterances) /\ <<>> \in Seq(Result)
      OBVIOUS
    <3> QED
      BY <2>1, <3>1, <3>2 DEF QueueInv, TypeOK, Sequences1
  <2> QED
    BY <2>1, <2>2, <2>3 DEF QueueInv, ResultsAreOver, DownIsEmpty, CodexRuns
<1>9. CASE HostStarts
  <2>1. workers = {} /\ codex = {} /\ results = <<>>
    BY <1>9 DEF HostStarts, QueueInv, DownIsEmpty
  <2>2. \A j \in Sequences1 : Recovered(jobs[j]) \in Job
    <3> SUFFICES ASSUME NEW j \in Sequences1 PROVE Recovered(jobs[j]) \in Job
      OBVIOUS
    <3>1. jobs[j] \in Job
      BY DEF QueueInv, TypeOK, Sequences1
    <3>2. jobs[j].recoveries + 1 \in Nat
      BY <3>1 DEF Job
    <3> QED
      BY <3>1, <3>2, RowsStayRows, 0 \in Nat DEF Recovered
  <2>3. jobs' \in Seq(Job) /\ Len(jobs') = Len(jobs)
    BY <1>9, <2>2 DEF HostStarts, QueueInv, TypeOK, Sequences1
  <2>4. Cardinality(codex') <= MaxRunning
    BY <1>9 DEF HostStarts, QueueInv
  <2>5. UNCHANGED <<stops, bindings, rebinds, retired, prompts, loop, workers, codex, results>> /\ up'
    BY <1>9 DEF HostStarts, binding, voice
  <2>6. TypeOK'
    BY <1>9, <2>1, <2>3, <2>5 DEF HostStarts, QueueInv, TypeOK, Sequences1
  <2> QED
    BY <2>1, <2>4, <2>5, <2>6 DEF QueueInv, ResultsAreOver, DownIsEmpty, CodexRuns
<1> QED
  BY <1>0, <1>1, <1>2, <1>3, <1>4, <1>5, <1>6, <1>7, <1>8, <1>9 DEF Next, ServeLoop

\* Every variable keeps its type, for every value of the constants.
THEOREM TypeCorrect == Spec => []TypeOK
<1>1. QueueInv => TypeOK
  BY DEF QueueInv
<1> QED
  BY <1>1, QueueInvInit, QueueInvNext, PTL DEF Spec

\* No two Codex processes answer for the same task, and there are never more than
\* MAX_GLOBAL_RUNNING_JOBS, across any number of stops of the Host (store.rs
\* claim_next_runnable, prompt_queue.rs tick).
THEOREM OneProcessPerTask == Spec => []TaskRunsAlone
<1>1. QueueInv => TaskRunsAlone
  BY DEF QueueInv, TaskRunsAlone, DownIsEmpty, CodexRuns
<1> QED
  BY <1>1, QueueInvInit, QueueInvNext, PTL DEF Spec

-----------------------------------------------------------------------------
(* The i-th smallest number of a set. *)

UpTo(S, j) == {k \in S : k <= j}
Numbers(S) == S \subseteq Nat /\ IsFiniteSet(S)

\* The elements of a finite set of numbers have different ranks, from 1 to its size ...
LEMMA RanksDiffer ==
  ASSUME NEW S, Numbers(S)
  PROVE  /\ Cardinality(S) \in Nat
         /\ \A j \in S : Cardinality(UpTo(S, j)) \in 1..Cardinality(S)
         /\ \A j, k \in S : Cardinality(UpTo(S, j)) = Cardinality(UpTo(S, k)) => j = k
<1>1. \A j \in S : IsFiniteSet(UpTo(S, j)) /\ Cardinality(UpTo(S, j)) \in Nat
                   /\ Cardinality(UpTo(S, j)) <= Cardinality(S)
  <2> SUFFICES ASSUME NEW j \in S
               PROVE  IsFiniteSet(UpTo(S, j)) /\ Cardinality(UpTo(S, j)) \in Nat
                      /\ Cardinality(UpTo(S, j)) <= Cardinality(S)
    OBVIOUS
  <2>1. UpTo(S, j) \in SUBSET S
    BY DEF UpTo
  <2> QED
    BY <2>1, FS_Subset, FS_CardinalityType DEF Numbers
<1>2. \A j \in S : Cardinality(UpTo(S, j)) # 0
  <2> SUFFICES ASSUME NEW j \in S PROVE Cardinality(UpTo(S, j)) # 0
    OBVIOUS
  <2>1. j \in UpTo(S, j)
    BY DEF UpTo, Numbers
  <2> QED
    BY <1>1, <2>1, FS_EmptySet
<1>3. \A j, k \in S : Cardinality(UpTo(S, j)) = Cardinality(UpTo(S, k)) /\ j <= k => j = k
  <2> SUFFICES ASSUME NEW j \in S, NEW k \in S, j <= k,
                      Cardinality(UpTo(S, j)) = Cardinality(UpTo(S, k))
               PROVE  j = k
    OBVIOUS
  <2>1. \A i \in S : i \in Nat
    BY DEF Numbers
  <2>2. \A i \in S : i <= j => i <= k
    BY <2>1
  <2>3. UpTo(S, j) \in SUBSET UpTo(S, k)
    BY <2>2 DEF UpTo
  <2>4. UpTo(S, j) = UpTo(S, k)
    BY <1>1, <2>3, FS_Subset
  <2>5. k \in UpTo(S, k)
    BY <2>1 DEF UpTo
  <2> QED
    BY <2>1, <2>4, <2>5 DEF UpTo
<1>4. Cardinality(S) \in Nat
  BY FS_CardinalityType DEF Numbers
<1>5. \A j, k \in S : j <= k \/ k <= j
  BY DEF Numbers
<1> QED
  BY <1>1, <1>2, <1>3, <1>4, <1>5

\* ... so that each rank has one element.
LEMMA NthIsRanked ==
  ASSUME NEW S, Numbers(S), NEW i \in 1..Cardinality(S)
  PROVE  /\ Nth(S, i) \in S
         /\ Cardinality(UpTo(S, Nth(S, i))) = i
         /\ \A j \in S : Cardinality(UpTo(S, j)) = i => j = Nth(S, i)
<1> DEFINE n == Cardinality(S)
           rank == [j \in S |-> Cardinality(UpTo(S, j))]
<1>1. n \in Nat /\ IsFiniteSet(1..n) /\ Cardinality(1..n) = n
  BY RanksDiffer, FS_Interval
<1>2. rank \in Injection(S, 1..n)
  BY RanksDiffer DEF Injection, IsInjective
<1>3. rank \in Surjection(S, 1..n)
  BY <1>1, <1>2, FS_Injection
<1>4. \E j \in S : Cardinality(UpTo(S, j)) = i
  BY <1>3 DEF Surjection
<1>5. \E j \in S : Cardinality({k \in S : k <= j}) = i
  BY <1>4 DEF UpTo
<1>6. Nth(S, i) \in S /\ Cardinality({k \in S : k <= Nth(S, i)}) = i
  BY <1>5 DEF Nth
<1> QED
  BY <1>6, RanksDiffer DEF UpTo

\* A number larger than all others comes last.
LEMMA NthOfExtended ==
  ASSUME NEW S, Numbers(S), NEW m \in Nat, \A j \in S : j < m
  PROVE  /\ Numbers(S \cup {m})
         /\ Cardinality(S) \in Nat /\ Cardinality(S \cup {m}) = Cardinality(S) + 1
         /\ Nth(S \cup {m}, Cardinality(S) + 1) = m
         /\ \A i \in 1..Cardinality(S) : Nth(S \cup {m}, i) = Nth(S, i)
<1> DEFINE T == S \cup {m}
<1>1. /\ Numbers(T) /\ Cardinality(S) \in Nat /\ Cardinality(T) = Cardinality(S) + 1
  BY FS_AddElement, FS_CardinalityType DEF Numbers
<1>2. UpTo(T, m) = T /\ m \in T
  <2>1. \A j \in T : j <= m
    BY DEF Numbers
  <2> QED
    BY <2>1 DEF UpTo
<1>3. \A j \in S : UpTo(T, j) = UpTo(S, j) /\ j \in T
  BY DEF UpTo, Numbers
<1> HIDE DEF T
<1>4. Nth(T, Cardinality(S) + 1) = m
  <2>1. Cardinality(S) + 1 \in 1..Cardinality(T)
    BY <1>1
  <2> QED
    BY <1>1, <1>2, <2>1, NthIsRanked
<1>5. ASSUME NEW i \in 1..Cardinality(S) PROVE Nth(T, i) = Nth(S, i)
  <2>1. i \in 1..Cardinality(T)
    BY <1>1
  <2>2. Nth(S, i) \in S /\ Cardinality(UpTo(S, Nth(S, i))) = i
    BY NthIsRanked
  <2> QED
    BY <1>1, <1>3, <2>1, <2>2, NthIsRanked
<1> QED
  BY <1>1, <1>4, <1>5 DEF T

\* Without its least element, a set's others move up by one.
LEMMA NthOfTail ==
  ASSUME NEW S, Numbers(S), NEW m \in S, \A j \in S : m <= j
  PROVE  /\ Numbers(S \ {m})
         /\ Cardinality(S) \in Nat \ {0} /\ Cardinality(S \ {m}) = Cardinality(S) - 1
         /\ \A i \in 1..Cardinality(S \ {m}) : Nth(S \ {m}, i) = Nth(S, i + 1)
<1> DEFINE T == S \ {m}
<1>1. Numbers(T) /\ Cardinality(S) \in Nat /\ Cardinality(T) = Cardinality(S) - 1
      /\ Cardinality(T) \in Nat
  BY FS_RemoveElement, FS_CardinalityType DEF Numbers
<1>2. ASSUME NEW j \in T PROVE j \in S /\ Cardinality(UpTo(S, j)) = Cardinality(UpTo(T, j)) + 1
  <2>1. UpTo(S, j) = UpTo(T, j) \cup {m} /\ m \notin UpTo(T, j)
    BY DEF UpTo, Numbers
  <2>2. IsFiniteSet(UpTo(T, j))
    <3>1. UpTo(T, j) \in SUBSET T
      BY DEF UpTo
    <3> QED
      BY <1>1, <3>1, FS_Subset DEF Numbers
  <2> QED
    BY <2>1, <2>2, FS_AddElement
<1> HIDE DEF T
<1>3. ASSUME NEW i \in 1..Cardinality(T) PROVE Nth(T, i) = Nth(S, i + 1)
  <2>1. i + 1 \in 1..Cardinality(S)
    BY <1>1
  <2>2. Nth(T, i) \in T /\ Cardinality(UpTo(T, Nth(T, i))) = i
    BY <1>1, NthIsRanked
  <2> QED
    BY <1>2, <2>1, <2>2, NthIsRanked
<1> QED
  BY <1>1, <1>3 DEF T

-----------------------------------------------------------------------------
(* What a step of the Host does to the table jobs, whoever takes it. *)

SameRows(J) == \A k \in Sequences1 \ J : jobs'[k] = jobs[k]
SameOrder == Len(jobs') = Len(jobs)
Speaks(k) == jobs'[k].task = jobs[k].task /\ jobs'[k].utterance = jobs[k].utterance

Appends(t, u) ==
  /\ Accepts(u, t) /\ Len(jobs') = Len(jobs) + 1
  /\ SameRows({}) /\ jobs'[Len(jobs) + 1] = NewJob(u, t)
Claims(j) ==
  /\ Runnable(j) /\ Cardinality(Running) < MaxRunning
  /\ SameOrder /\ SameRows({j}) /\ Speaks(j) /\ jobs'[j].state = "running"
Ends(j) ==
  /\ j \in Running
  /\ SameOrder /\ SameRows({j}) /\ Speaks(j) /\ jobs'[j].state = "ended"
Recovers ==
  /\ SameOrder
  /\ \A k \in Sequences1 :
       /\ Speaks(k)
       /\ jobs'[k].state = IF jobs[k].state = "running" THEN "queued" ELSE jobs[k].state

TableStep ==
  \/ UNCHANGED jobs
  \/ \E t \in Tasks, u \in Utterances : Appends(t, u)
  \/ \E j \in Sequences1 : Claims(j) \/ Ends(j)
  \/ Recovers

\* Every step of the Host changes the table jobs in one of these ways.
LEMMA StepsOfTheTable == QueueInv /\ [Next]_vars => TableStep
<1> SUFFICES ASSUME QueueInv, [Next]_vars PROVE TableStep
  OBVIOUS
<1> USE LimitsAssumption, NoneAssumption
<1>0. jobs \in Seq(Job) /\ \A j \in Sequences1 : jobs[j] \in Job
  BY DEF QueueInv, TypeOK, Sequences1
<1>1. CASE EnqueuePrompt /\ ~UNCHANGED jobs
  <2> DEFINE u == Head(prompts)
             t == bindings[u[1]]
  <2>1. u \in Utterances /\ u[1] \in Slots
    BY <1>1 DEF EnqueuePrompt, QueueInv, TypeOK, Utterances
  <2>2. Accepts(u, t) /\ jobs' = Append(jobs, NewJob(u, t))
    BY <1>1 DEF EnqueuePrompt
  <2>3. t \in Tasks
    BY <2>1, <2>2 DEF Accepts, QueueInv, TypeOK
  <2> HIDE DEF u, t
  <2>4. NewJob(u, t) \in Job
    BY <2>1, <2>3 DEF NewJob, Job
  <2>5. Appends(t, u)
    BY <1>0, <2>2, <2>4 DEF Appends, SameRows, Sequences1
  <2> QED
    BY <2>1, <2>3, <2>5 DEF TableStep
<1>2. CASE HandleResult /\ ~UNCHANGED jobs
  <2> DEFINE j == Head(results).job
             ended == [jobs[j] EXCEPT !.state = "ended"]
  <2>1. jobs' = [jobs EXCEPT ![j].state = "ended"] /\ jobs[j].state = "running"
    BY <1>2 DEF HandleResult, Marked
  <2>2. j \in Sequences1
    BY <1>2 DEF HandleResult, QueueInv, TypeOK, ResultsAreOver
  <2>3. ended \in Job /\ ended.task = jobs[j].task /\ ended.state = "ended"
    BY <1>0, <2>2, RowsStayRows, 0 \in Nat
  <2>4. ended.utterance = jobs[j].utterance
    BY <1>0, <2>2 DEF Job
  <2>5. jobs' = [jobs EXCEPT ![j] = ended]
    BY <2>1
  <2> HIDE DEF j, ended
  <2>6. Ends(j)
    BY <1>0, <2>1, <2>2, <2>3, <2>4, <2>5, ReplacedRow
       DEF Ends, Running, SameOrder, SameRows, Speaks
  <2> QED
    BY <2>2, <2>6 DEF TableStep
<1>3. ASSUME NEW j \in Sequences1, ClaimJob(j) PROVE TableStep
  <2> DEFINE claimed == [jobs[j] EXCEPT !.state = "running", !.claim = @ + 1]
  <2>1. Runnable(j) /\ Cardinality(Running) < MaxRunning /\ jobs' = [jobs EXCEPT ![j] = claimed]
    BY <1>3 DEF ClaimJob, NextRunnable, MayClaim
  <2>2. jobs[j] \in Job /\ jobs[j].claim + 1 \in Nat
    BY <1>0 DEF Job
  <2>3. PICK row \in Job, c \in Nat : row = jobs[j] /\ c = jobs[j].claim + 1
    BY <2>2
  <2>4. claimed = [row EXCEPT !.state = "running", !.claim = c]
    BY <2>3, Zenon
  <2>5. DOMAIN row = {"utterance", "task", "claim", "recoveries", "state"}
    BY DEF Job
  <2>6. claimed \in Job
    BY <2>4, <2>5 DEF Job
  <2>7. claimed.task = row.task /\ claimed.utterance = row.utterance /\ claimed.state = "running"
    BY <2>4, <2>5
  <2> HIDE DEF claimed
  <2>8. Claims(j)
    BY <1>0, <2>1, <2>3, <2>6, <2>7, ReplacedRow DEF Claims, SameOrder, SameRows, Speaks
  <2> QED
    BY <2>8 DEF TableStep
<1>4. CASE HostStarts
  <2>1. /\ Len(jobs') = Len(jobs)
        /\ \A k \in Sequences1 : jobs'[k] = Recovered(jobs[k])
    BY <1>4, <1>0 DEF HostStarts, Sequences1
  <2>2. ASSUME NEW k \in Sequences1
        PROVE  /\ Speaks(k)
               /\ jobs'[k].state = IF jobs[k].state = "running" THEN "queued" ELSE jobs[k].state
    <3>1. DOMAIN jobs[k] = {"utterance", "task", "claim", "recoveries", "state"}
      BY <1>0 DEF Job
    <3> QED
      BY <2>1, <3>1 DEF Speaks, Recovered
  <2> QED
    BY <2>1, <2>2 DEF TableStep, Recovers, SameOrder
<1>5. CASE UNCHANGED jobs
  BY <1>5 DEF TableStep
<1> QED
  <2>1. ASSUME NEW u \in Utterances, Transcribe(u) PROVE UNCHANGED jobs
    BY <2>1 DEF Transcribe
  <2>2. CASE EnterTick \/ EndResults \/ EndClaims \/ HostStops \/ UNCHANGED vars
    BY <1>5, <2>2 DEF EnterTick, EndResults, EndClaims, HostStops, vars
  <2>3. ASSUME NEW s \in Slots, NEW t \in Tasks, Rebind(s, t) PROVE UNCHANGED jobs
    BY <2>3 DEF Rebind
  <2>4. ASSUME NEW j \in Sequences1, CodexEnds(j) PROVE UNCHANGED jobs
    BY <2>4 DEF CodexEnds
  <2> QED
    BY <1>1, <1>2, <1>3, <1>4, <1>5, <2>1, <2>2, <2>3, <2>4 DEF Next, ServeLoop

-----------------------------------------------------------------------------
(* Which jobs wait and run after it. *)

SameSpeech == \A k \in Sequences1 : Speaks(k)

\* The four ways, as changes of the sets of running and of queued jobs.
LEMMA AfterAppend ==
  ASSUME QueueInv, NEW t \in Tasks, NEW u \in Utterances, Appends(t, u)
  PROVE  /\ Running' = Running /\ Queued' = Queued \cup {Len(jobs) + 1}
         /\ Sequences1' = Sequences1 \cup {Len(jobs) + 1}
         /\ SameSpeech /\ jobs'[Len(jobs) + 1].task = t /\ jobs'[Len(jobs) + 1].utterance = u
<1>1. Len(jobs) \in Nat
  BY DEF QueueInv, TypeOK
<1> QED
  BY <1>1 DEF Appends, SameRows, NewJob, Running, Queued, Sequences1, SameSpeech, Speaks

LEMMA AfterClaim ==
  ASSUME QueueInv, NEW j \in Sequences1, Claims(j)
  PROVE  /\ Running' = Running \cup {j} /\ Queued' = Queued \ {j} /\ j \in Queued
         /\ Sequences1' = Sequences1 /\ SameSpeech
  BY DEF Claims, SameRows, SameOrder, Runnable, Running, Queued, Sequences1, SameSpeech, Speaks

LEMMA AfterEnd ==
  ASSUME QueueInv, NEW j \in Sequences1, Ends(j)
  PROVE  /\ Running' = Running \ {j} /\ Queued' = Queued /\ j \in Running
         /\ Sequences1' = Sequences1 /\ SameSpeech
  BY DEF Ends, SameRows, SameOrder, Running, Queued, Sequences1, SameSpeech, Speaks

LEMMA AfterRecovery ==
  ASSUME QueueInv, Recovers
  PROVE  /\ Running' = {} /\ Queued' = Queued \cup Running
         /\ Sequences1' = Sequences1 /\ SameSpeech
  BY DEF Recovers, SameOrder, Running, Queued, Sequences1, SameSpeech, Speaks

-----------------------------------------------------------------------------
(* A job runs only at the head of its task's queue. *)

RunningFirst == \A j \in Running : \A k \in Pending(jobs[j].task) : j <= k

\* The claim takes the first queued job of a task none of whose jobs runs, and later rows have
\* larger sequences.
LEMMA RunningFirstInit == Init => RunningFirst
  BY DEF Init, RunningFirst, Running, Sequences1

LEMMA RunningFirstNext ==
  ASSUME QueueInv, RunningFirst, TableStep
  PROVE  RunningFirst'
<1>0. jobs \in Seq(Job) /\ Len(jobs) \in Nat /\ \A j \in Sequences1 : jobs[j] \in Job
  BY DEF QueueInv, TypeOK, Sequences1
<1>1. CASE UNCHANGED jobs
  BY <1>1 DEF RunningFirst, Running, Queued, Pending, Sequences1
<1>2. ASSUME NEW t \in Tasks, NEW u \in Utterances, Appends(t, u) PROVE RunningFirst'
  <2>1. Running' = Running /\ Queued' = Queued \cup {Len(jobs) + 1} /\ SameSpeech
    BY <1>2, AfterAppend
  <2> SUFFICES ASSUME NEW j \in Running, NEW k \in Pending(jobs[j].task)' PROVE j <= k
    BY <2>1 DEF RunningFirst
  <2>2. CASE k = Len(jobs) + 1
    BY <1>0, <2>2 DEF Running, Sequences1
  <2>3. CASE k # Len(jobs) + 1
    <3>1. k \in Running \cup Queued /\ j \in Sequences1 /\ k \in Sequences1
      BY <2>1, <2>3 DEF Pending, Running, Queued
    <3>2. k \in Pending(jobs[j].task)
      BY <2>1, <3>1 DEF Pending, SameSpeech, Speaks
    <3> QED
      BY <3>2 DEF RunningFirst
  <2> QED
    BY <2>2, <2>3
<1>3. ASSUME NEW i \in Sequences1, Claims(i) PROVE RunningFirst'
  <2>1. Running' = Running \cup {i} /\ Queued' = Queued \ {i} /\ i \in Queued /\ SameSpeech
    BY <1>3, AfterClaim
  <2> SUFFICES ASSUME NEW j \in Running', NEW k \in Pending(jobs[j].task)' PROVE j <= k
    BY DEF RunningFirst
  <2>2. /\ k \in Running \cup Queued /\ j \in Sequences1 /\ k \in Sequences1
        /\ k \in Pending(jobs[j].task)
    BY <2>1 DEF Pending, Running, Queued, SameSpeech, Speaks
  <2>3. CASE j \in Running
    BY <2>2, <2>3 DEF RunningFirst
  <2>4. CASE j = i
    <3>1. k \in Queued /\ jobs[k].task = jobs[i].task
      BY <1>3, <2>2, <2>4 DEF Pending, Claims, Runnable
    <3> QED
      BY <1>0, <1>3, <2>2, <2>4, <3>1 DEF Claims, Runnable, Sequences1
  <2> QED
    BY <2>1, <2>3, <2>4
<1>4. ASSUME NEW i \in Sequences1, Ends(i) PROVE RunningFirst'
  <2>1. Running' = Running \ {i} /\ Queued' = Queued /\ SameSpeech
    BY <1>4, AfterEnd
  <2> SUFFICES ASSUME NEW j \in Running', NEW k \in Pending(jobs[j].task)' PROVE j <= k
    BY DEF RunningFirst
  <2>2. k \in Pending(jobs[j].task) /\ j \in Running
    BY <2>1 DEF Pending, Running, Queued, SameSpeech, Speaks
  <2> QED
    BY <2>2 DEF RunningFirst
<1>5. CASE Recovers
  BY <1>5, AfterRecovery DEF RunningFirst
<1> QED
  BY <1>1, <1>2, <1>3, <1>4, <1>5 DEF TableStep

-----------------------------------------------------------------------------
(* The table, read as what the queue promises. *)

\* What the ranks are taken of, and what the queue of a task is made of.
LEMMA PendingNumbers ==
  ASSUME QueueInv, NEW t
  PROVE  Numbers(Pending(t)) /\ Pending(t) \subseteq Sequences1
<1>1. Pending(t) \in SUBSET Sequences1
  BY DEF Pending, Running, Queued
<1>2. IsFiniteSet(1..Len(jobs)) /\ Len(jobs) \in Nat
  BY FS_Interval DEF QueueInv, TypeOK
<1>3. IsFiniteSet(Pending(t))
  BY <1>1, <1>2, FS_Subset DEF Sequences1
<1> QED
  BY <1>1, <1>2, <1>3 DEF Numbers, Sequences1

LEMMA FifoType ==
  ASSUME QueueInv, NEW t
  PROVE  /\ Fifo(t) \in Seq(Utterances) /\ Len(Fifo(t)) = Cardinality(Pending(t))
         /\ Cardinality(Pending(t)) \in Nat
         /\ \A i \in 1..Cardinality(Pending(t)) : Fifo(t)[i] = jobs[Nth(Pending(t), i)].utterance
<1>1. Cardinality(Pending(t)) \in Nat
  BY PendingNumbers, RanksDiffer
<1>2. ASSUME NEW i \in 1..Cardinality(Pending(t))
      PROVE  jobs[Nth(Pending(t), i)].utterance \in Utterances
  <2>1. Nth(Pending(t), i) \in Sequences1
    BY PendingNumbers, NthIsRanked
  <2>2. jobs[Nth(Pending(t), i)] \in Job
    BY <2>1 DEF QueueInv, TypeOK, Sequences1
  <2> QED
    BY <2>2 DEF Job
<1> QED
  BY <1>1, <1>2 DEF Fifo

\* A task whose pending jobs stay the same keeps its queue.
LEMMA FifoUnchanged ==
  ASSUME QueueInv, NEW t, SameSpeech, Pending(t)' = Pending(t)
  PROVE  Fifo(t)' = Fifo(t)
<1>1. ASSUME NEW i \in 1..Cardinality(Pending(t))
      PROVE  jobs'[Nth(Pending(t), i)].utterance = jobs[Nth(Pending(t), i)].utterance
  <2>1. Nth(Pending(t), i) \in Sequences1
    BY PendingNumbers, NthIsRanked
  <2> QED
    BY <2>1 DEF SameSpeech, Speaks
<1>2. Fifo(t)' = [i \in 1..Cardinality(Pending(t)) |-> jobs'[Nth(Pending(t), i)].utterance]
  BY DEF Fifo
<1> QED
  BY <1>1, <1>2 DEF Fifo

\* Append as a function.
LEMMA AppendIs ==
  ASSUME NEW S, NEW s \in Seq(S), NEW x \in S
  PROVE  Append(s, x) = [i \in 1..(Len(s) + 1) |-> IF i = Len(s) + 1 THEN x ELSE s[i]]
<1>1. /\ Append(s, x) \in Seq(S) /\ Len(Append(s, x)) = Len(s) + 1 /\ Len(s) \in Nat
      /\ \A i \in 1..(Len(s) + 1) : Append(s, x)[i] = IF i = Len(s) + 1 THEN x ELSE s[i]
  OBVIOUS
<1> DEFINE a == Append(s, x)
<1>2. a = [i \in 1..Len(a) |-> a[i]]
  <2>1. a \in Seq(S)
    BY <1>1
  <2> HIDE DEF a
  <2> QED
    BY <2>1
<1> QED
  BY <1>1, <1>2

\* A job a prompt has become is the last of its task's queue ...
LEMMA FifoAppended ==
  ASSUME QueueInv, NEW t \in Tasks, NEW u \in Utterances, Appends(t, u)
  PROVE  /\ Fifo(t)' = Append(Fifo(t), u)
         /\ \A v : v # t => Pending(v)' = Pending(v)
<1> DEFINE P == Pending(t)
           m == Len(jobs) + 1
           c == Cardinality(P)
<1>1. /\ Running' = Running /\ Queued' = Queued \cup {m} /\ SameSpeech
      /\ jobs'[m].task = t /\ jobs'[m].utterance = u
      /\ Running \cup Queued \subseteq Sequences1 /\ m \notin Sequences1
  <2>1. Len(jobs) \in Nat
    BY DEF QueueInv, TypeOK
  <2> QED
    BY <2>1, AfterAppend DEF Running, Queued, Sequences1
<1>2. ASSUME NEW v, v # t PROVE Pending(v)' = Pending(v)
  BY <1>1, <1>2 DEF Pending, SameSpeech, Speaks
<1>3. Pending(t)' = P \cup {m}
  BY <1>1 DEF Pending, SameSpeech, Speaks
<1>4. Numbers(P) /\ m \in Nat /\ \A j \in P : j < m
  <2>1. Numbers(P) /\ P \subseteq Sequences1 /\ Len(jobs) \in Nat
    BY PendingNumbers DEF QueueInv, TypeOK
  <2> QED
    BY <2>1 DEF Sequences1
<1>5. /\ Fifo(t) \in Seq(Utterances) /\ Len(Fifo(t)) = c /\ c \in Nat
      /\ \A i \in 1..c : Fifo(t)[i] = jobs[Nth(P, i)].utterance
  BY FifoType
<1>6. ASSUME NEW i \in 1..c PROVE jobs'[Nth(P, i)].utterance = jobs[Nth(P, i)].utterance
  <2>1. Nth(P, i) \in Sequences1
    BY PendingNumbers, NthIsRanked
  <2> QED
    BY <1>1, <2>1 DEF SameSpeech, Speaks
<1>7. /\ Cardinality(P \cup {m}) = c + 1 /\ Nth(P \cup {m}, c + 1) = m
      /\ \A i \in 1..c : Nth(P \cup {m}, i) = Nth(P, i)
  <2> HIDE DEF P, m
  <2> QED
    BY <1>4, NthOfExtended
<1>8. Fifo(t)' = [i \in 1..Cardinality(Pending(t)') |-> jobs'[Nth(Pending(t)', i)].utterance]
  BY DEF Fifo
<1> HIDE DEF P, m, c
<1>9. Fifo(t)' = [i \in 1..(c + 1) |-> IF i = c + 1 THEN u ELSE Fifo(t)[i]]
  <2>1. Fifo(t)' = [i \in 1..(c + 1) |-> jobs'[Nth(P \cup {m}, i)].utterance]
    BY <1>3, <1>7, <1>8
  <2>2. ASSUME NEW i \in 1..(c + 1)
        PROVE  jobs'[Nth(P \cup {m}, i)].utterance = IF i = c + 1 THEN u ELSE Fifo(t)[i]
    <3>1. CASE i = c + 1
      BY <1>1, <1>7, <3>1
    <3>2. CASE i # c + 1
      <4>1. i \in 1..c
        BY <1>5, <3>2
      <4> QED
        BY <1>5, <1>6, <1>7, <3>2, <4>1
    <3> QED
      BY <3>1, <3>2
  <2> QED
    BY <2>1, <2>2
<1>10. Append(Fifo(t), u) = [i \in 1..(c + 1) |-> IF i = c + 1 THEN u ELSE Fifo(t)[i]]
  BY <1>5, AppendIs
<1> QED
  BY <1>2, <1>9, <1>10

\* ... and one that ends was its first.
LEMMA FifoEnded ==
  ASSUME QueueInv, RunningFirst, NEW j \in Sequences1, Ends(j), NEW t, t = jobs[j].task
  PROVE  /\ Fifo(t) # <<>> /\ Fifo(t)' = Tail(Fifo(t))
         /\ \A v : v # t => Pending(v)' = Pending(v)
<1> DEFINE P == Pending(t)
           c == Cardinality(P)
<1>1. /\ Running' = Running \ {j} /\ Queued' = Queued /\ SameSpeech /\ j \in Running
      /\ Running \cup Queued \subseteq Sequences1 /\ Running \cap Queued = {}
  BY AfterEnd DEF Running, Queued
<1>2. ASSUME NEW v, v # t PROVE Pending(v)' = Pending(v)
  BY <1>1, <1>2 DEF Pending, SameSpeech, Speaks
<1>3. Pending(t)' = P \ {j}
  BY <1>1 DEF Pending, SameSpeech, Speaks
<1>4. Numbers(P) /\ j \in P /\ \A k \in P : j <= k
  <2>1. Numbers(P)
    BY PendingNumbers
  <2>2. j \in P
    BY <1>1 DEF Pending
  <2> QED
    BY <1>1, <2>1, <2>2 DEF RunningFirst
<1>5. /\ Fifo(t) \in Seq(Utterances) /\ Len(Fifo(t)) = c /\ c \in Nat
      /\ \A i \in 1..c : Fifo(t)[i] = jobs[Nth(P, i)].utterance
  BY FifoType
<1>6. ASSUME NEW i \in 1..c PROVE jobs'[Nth(P, i)].utterance = jobs[Nth(P, i)].utterance
  <2>1. Nth(P, i) \in Sequences1
    BY PendingNumbers, NthIsRanked
  <2> QED
    BY <1>1, <2>1 DEF SameSpeech, Speaks
<1>7. /\ c \in Nat \ {0} /\ Cardinality(P \ {j}) = c - 1
      /\ \A i \in 1..(c - 1) : Nth(P \ {j}, i) = Nth(P, i + 1)
  <2> HIDE DEF P
  <2> QED
    BY <1>4, NthOfTail
<1>8. Fifo(t)' = [i \in 1..Cardinality(Pending(t)') |-> jobs'[Nth(Pending(t)', i)].utterance]
  BY DEF Fifo
<1> HIDE DEF P, c
<1>9. Fifo(t)' = [i \in 1..(c - 1) |-> Fifo(t)[i + 1]]
  <2>1. Fifo(t)' = [i \in 1..(c - 1) |-> jobs'[Nth(P \ {j}, i)].utterance]
    BY <1>3, <1>7, <1>8
  <2>2. ASSUME NEW i \in 1..(c - 1)
        PROVE  jobs'[Nth(P \ {j}, i)].utterance = Fifo(t)[i + 1]
    <3>1. i + 1 \in 1..c
      BY <1>7
    <3> QED
      BY <1>5, <1>6, <1>7, <3>1
  <2> QED
    BY <2>1, <2>2
<1>10. Tail(Fifo(t)) = [i \in 1..(c - 1) |-> Fifo(t)[i + 1]] /\ Fifo(t) # <<>>
  BY <1>5, <1>7
<1> QED
  BY <1>2, <1>9, <1>10

-----------------------------------------------------------------------------
(* The table implements the queue. *)

\* Two functions that differ in one place.
LEMMA FunctionUpdate ==
  ASSUME NEW F, NEW G, F = [t \in Tasks |-> F[t]], G = [t \in Tasks |-> G[t]],
         NEW t \in Tasks, NEW v, G[t] = v, \A s \in Tasks : s # t => G[s] = F[s]
  PROVE  G = [F EXCEPT ![t] = v]
<1>1. \A s \in Tasks : G[s] = [F EXCEPT ![t] = v][s]
  OBVIOUS
<1>2. [F EXCEPT ![t] = v] = [s \in Tasks |-> [F EXCEPT ![t] = v][s]]
  OBVIOUS
<1>3. [s \in Tasks |-> G[s]] = [s \in Tasks |-> [F EXCEPT ![t] = v][s]]
  BY <1>1
<1> QED
  BY <1>2, <1>3

\* The queue of one task changes, and those of the others have the same pending jobs.
LEMMA QueuesUpdate ==
  ASSUME QueueInv, SameSpeech, NEW t \in Tasks, NEW q, Fifo(t)' = q,
         \A v : v # t => Pending(v)' = Pending(v)
  PROVE  Queues' = [Queues EXCEPT ![t] = q]
<1>1. \A v \in Tasks : v # t => Fifo(v)' = Fifo(v)
  BY FifoUnchanged
<1>2. /\ Queues' = [v \in Tasks |-> Queues'[v]] /\ Queues = [v \in Tasks |-> Queues[v]]
      /\ \A v \in Tasks : Queues[v] = Fifo(v) /\ Queues'[v] = Fifo(v)'
  BY DEF Queues
<1> QED
  BY <1>1, <1>2, FunctionUpdate

\* A job that starts or is recovered stays pending.
LEMMA QueuesUnchanged ==
  ASSUME QueueInv, SameSpeech, Running' \cup Queued' = Running \cup Queued
  PROVE  UNCHANGED Queues
<1>1. ASSUME NEW v PROVE Pending(v)' = Pending(v)
  <2>1. Running \cup Queued \subseteq Sequences1
    BY DEF Running, Queued
  <2> QED
    BY <2>1 DEF Pending, SameSpeech, Speaks
<1>2. \A v \in Tasks : Fifo(v)' = Fifo(v)
  BY <1>1, FifoUnchanged
<1> QED
  BY <1>2 DEF Queues

\* Never more tasks are busy than jobs run.
LEMMA BusyBound ==
  ASSUME QueueInv
  PROVE  Cardinality(Busy) \in Nat /\ Cardinality(Running) \in Nat
         /\ Cardinality(Busy) <= Cardinality(Running)
<1>1. IsFiniteSet(Running)
  <2>1. IsFiniteSet(1..Len(jobs))
    BY FS_Interval DEF QueueInv, TypeOK
  <2>2. Running \in SUBSET (1..Len(jobs))
    BY DEF Running, Sequences1
  <2> QED
    BY <2>1, <2>2, FS_Subset
<1> DEFINE f == [j \in Running |-> jobs[j].task]
<1>2. f \in Surjection(Running, Busy)
  BY DEF Surjection, Busy
<1> QED
  BY <1>1, <1>2, FS_Surjection, FS_CardinalityType

\* The invariant of the refinement.
FifoInv == QueueInv /\ RunningFirst

LEMMA FifoInvInit == Init => FifoInv
  BY QueueInvInit, RunningFirstInit DEF FifoInv

LEMMA FifoInvNext == FifoInv /\ [Next]_vars => FifoInv'
  BY QueueInvNext, StepsOfTheTable, RunningFirstNext DEF FifoInv

\* Each way the table changes is a step of the promise.
LEMMA FifoStep ==
  ASSUME FifoInv, TableStep
  PROVE  [Promise!Next]_(Promise!vars)
<1>0. QueueInv /\ RunningFirst /\ \A j \in Sequences1 : jobs[j].task \in Tasks
  <2>1. \A j \in Sequences1 : jobs[j] \in Job
    BY DEF FifoInv, QueueInv, TypeOK, Sequences1
  <2> QED
    BY <2>1 DEF FifoInv, Job
<1>1. CASE UNCHANGED jobs
  <2>1. UNCHANGED <<Accepted, Queues, Busy>>
    BY <1>1 DEF Accepted, Queues, Busy, Fifo, Pending, Running, Queued, Sequences1
  <2> QED
    BY <2>1 DEF Promise!vars
<1>2. ASSUME NEW t \in Tasks, NEW u \in Utterances, Appends(t, u) PROVE Promise!Next
  <2>1. /\ Running' = Running /\ SameSpeech /\ Sequences1' = Sequences1 \cup {Len(jobs) + 1}
        /\ jobs'[Len(jobs) + 1].utterance = u
    BY <1>0, <1>2, AfterAppend
  <2>2. u \notin Accepted
    BY <1>2 DEF Appends, Accepts, Accepted
  <2>3. Accepted' = Accepted \cup {u}
    BY <2>1 DEF Accepted, SameSpeech, Speaks
  <2>4. UNCHANGED Busy
    BY <2>1 DEF Busy, SameSpeech, Speaks, Running
  <2>5. Queues' = [Queues EXCEPT ![t] = Append(Fifo(t), u)]
    BY <1>0, <1>2, <2>1, FifoAppended, QueuesUpdate
  <2>6. Queues' = [Queues EXCEPT ![t] = Append(@, u)]
    BY <2>5 DEF Queues
  <2>7. Promise!Accept(t, u)
    BY <2>2, <2>3, <2>4, <2>6 DEF Promise!Accept
  <2> QED
    BY <2>7 DEF Promise!Next
<1>3. ASSUME NEW j \in Sequences1, Claims(j) PROVE Promise!Next
  <2> SUFFICES ASSUME NEW t \in Tasks, t = jobs[j].task PROVE Promise!Next
    BY <1>0
  <2>1. Running' = Running \cup {j} /\ Queued' = Queued \ {j} /\ j \in Queued
        /\ Sequences1' = Sequences1 /\ SameSpeech
    BY <1>0, <1>3, AfterClaim
  <2>2. UNCHANGED Accepted
    BY <2>1 DEF Accepted, SameSpeech, Speaks
  <2>3. UNCHANGED Queues
    BY <1>0, <2>1, QueuesUnchanged
  <2>4. Busy' = Busy \cup {t}
    <3>1. Running \subseteq Sequences1
      BY DEF Running
    <3> QED
      BY <2>1, <3>1 DEF Busy, SameSpeech, Speaks
  <2>5. t \notin Busy
    BY <1>3 DEF Claims, Runnable, Busy
  <2>6. Cardinality(Busy) < MaxRunning
    BY <1>0, <1>3, BusyBound, LimitsAssumption DEF Claims
  <2>7. Queues[t] # <<>>
    <3>1. j \in Pending(t)
      BY <2>1 DEF Pending
    <3>2. Len(Fifo(t)) # 0
      BY <1>0, <3>1, FifoType, PendingNumbers, FS_EmptySet DEF Numbers
    <3> QED
      BY <3>2 DEF Queues
  <2>8. Promise!Cardinality(Busy) = Cardinality(Busy)
    BY DEF Promise!Cardinality, Cardinality
  <2>9. Promise!Start(t)
    BY <2>2, <2>3, <2>4, <2>5, <2>6, <2>7, <2>8 DEF Promise!Start
  <2> QED
    BY <2>9 DEF Promise!Next
<1>4. ASSUME NEW j \in Sequences1, Ends(j) PROVE Promise!Next
  <2> SUFFICES ASSUME NEW t \in Tasks, t = jobs[j].task PROVE Promise!Next
    BY <1>0
  <2>1. Running' = Running \ {j} /\ Queued' = Queued /\ j \in Running
        /\ Sequences1' = Sequences1 /\ SameSpeech
    BY <1>0, <1>4, AfterEnd
  <2>2. UNCHANGED Accepted
    BY <2>1 DEF Accepted, SameSpeech, Speaks
  <2>3. Queues' = [Queues EXCEPT ![t] = Tail(Fifo(t))]
    BY <1>0, <1>4, <2>1, FifoEnded, QueuesUpdate
  <2>4. Queues' = [Queues EXCEPT ![t] = Tail(@)]
    BY <2>3 DEF Queues
  <2>5. t \in Busy
    BY <2>1 DEF Busy
  <2>6. \A k \in Running : jobs[k].task = t => k = j
    <3>1. ASSUME NEW k \in Running, jobs[k].task = t PROVE k = j
      <4>1. k \in Pending(t) /\ j \in Pending(t) /\ j \in Nat /\ k \in Nat
        BY <2>1, <3>1 DEF Pending, Running, Sequences1
      <4>2. j <= k /\ k <= j
        BY <1>0, <2>1, <3>1, <4>1 DEF RunningFirst
      <4> QED
        BY <4>1, <4>2
    <3> QED
      BY <3>1
  <2>7. Busy' = Busy \ {t}
    <3>1. Running \subseteq Sequences1
      BY DEF Running
    <3> QED
      BY <2>1, <2>6, <3>1 DEF Busy, SameSpeech, Speaks
  <2>8. Promise!End(t)
    BY <2>2, <2>4, <2>5, <2>7 DEF Promise!End
  <2> QED
    BY <2>8 DEF Promise!Next
<1>5. CASE Recovers
  <2>1. /\ Running' = {} /\ Queued' = Queued \cup Running
        /\ Sequences1' = Sequences1 /\ SameSpeech
    BY <1>0, <1>5, AfterRecovery
  <2>2. UNCHANGED Accepted
    BY <2>1 DEF Accepted, SameSpeech, Speaks
  <2>3. UNCHANGED Queues
    BY <1>0, <2>1, QueuesUnchanged
  <2>4. Busy' = {}
    BY <2>1 DEF Busy
  <2> QED
    BY <2>2, <2>3, <2>4 DEF Promise!Next, Promise!Stop
<1> QED
  BY <1>1, <1>2, <1>3, <1>4, <1>5 DEF TableStep

LEMMA FifoInit == Init => Promise!Init
<1> SUFFICES ASSUME Init PROVE Promise!Init
  OBVIOUS
<1>1. QueueInv /\ Sequences1 = {} /\ Running = {}
  BY QueueInvInit DEF Init, Sequences1, Running
<1>2. ASSUME NEW t \in Tasks PROVE Fifo(t) = <<>>
  <2>1. Pending(t) = {}
    BY <1>1 DEF Pending, Queued
  <2>2. Cardinality(Pending(t)) = 0
    BY <2>1, FS_EmptySet
  <2> QED
    BY <1>1, <2>2, FifoType
<1> QED
  BY <1>1, <1>2 DEF Promise!Init, Accepted, Queues, Busy

\* Replays, rebindings, failures and stops never run a task's prompts twice without a stop,
\* out of order, or two at once, for every number of tasks, prompts and stops (store.rs
\* enqueue, claim_next_runnable, recover_interrupted_jobs).
THEOREM QueueImplementsFifo == Spec => ImplementsTaskFifo
<1>1. Init => Promise!Init
  BY FifoInit
<1>2. FifoInv /\ [Next]_vars => [Promise!Next]_(Promise!vars)
  BY StepsOfTheTable, FifoStep DEF FifoInv
<1> QED
  BY <1>1, <1>2, FifoInvInit, FifoInvNext, PTL DEF Spec, ImplementsTaskFifo, Promise!Spec
=============================================================================
