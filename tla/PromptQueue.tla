------------------------------ MODULE PromptQueue ------------------------------
(***************************************************************************)
(* From an utterance the Host has received to the Codex run that answers   *)
(* it.  Three kinds of threads take part:                                  *)
(*                                                                         *)
(*   - the ASR worker (lan_voice.rs), which turns captures into prompts;   *)
(*   - the serve loop (health.rs), which enqueues prompts as durable jobs, *)
(*     rebinds slots and runs DurablePromptScheduler::tick;                *)
(*   - one thread per running job, which drives a Codex process            *)
(*     (codex_runner.rs) and reports over a channel.                       *)
(*                                                                         *)
(* Only bindings and jobs survive a stop of the Host.  A crash, a stop on  *)
(* request and a tick that fails on the store differ in nothing a later    *)
(* Host could see: workers are cancelled, their processes killed, results  *)
(* not yet written are dropped.                                            *)
(***************************************************************************)
EXTENDS Integers, FiniteSets, Sequences

CONSTANTS
  Tasks,        \* Codex tasks
  Slots,        \* keyboard slots
  None,         \* no task
  MaxRunning,   \* MAX_GLOBAL_RUNNING_JOBS
  MaxPending,   \* MAX_PENDING_JOBS_PER_TASK
  MaxUtterances,\* bound: utterances spoken per slot
  MaxRebinds,   \* bound: changes of a binding
  MaxStops      \* bound: stops of the Host

ASSUME NoneAssumption == None \notin Tasks
ASSUME LimitsAssumption ==
  /\ {MaxRunning, MaxPending} \subseteq Nat \ {0}
  /\ {MaxUtterances, MaxRebinds, MaxStops} \subseteq Nat

\* A capture's session id, from which its request id is made, contains its slot.
Utterances == Slots \X (1..MaxUtterances)

VARIABLES
  up,       \* the Host runs
  stops,    \* how often it has stopped
  bindings, \* table bindings: slot -> task
  rebinds,  \* the sum of its generations
  retired,  \* CaptureAssembler::retired: captures this Host has completed
  prompts,  \* channel of prompts to the serve loop
  loop,     \* what the serve loop does next
  jobs,     \* table jobs, in the order of its column sequence
  workers,  \* DurablePromptScheduler::workers, by sequence
  codex,    \* jobs a Codex process is running for
  results   \* channel of WorkerResults to the serve loop

voice == <<retired, prompts>>
host == <<up, stops>>
binding == <<bindings, rebinds>>
vars == <<host, binding, voice, loop, jobs, workers, codex, results>>

Sequences1 == 1..Len(jobs)
Job == [utterance: Utterances, task: Tasks, claim: Nat, recoveries: Nat,
        state: {"queued", "running", "ended"}]
Result == [job: Nat \ {0}, claim: Nat]

TypeOK ==
  /\ up \in BOOLEAN /\ stops \in 0..MaxStops
  /\ bindings \in [Slots -> Tasks \cup {None}] /\ rebinds \in 0..MaxRebinds
  /\ retired \subseteq Utterances
  /\ prompts \in Seq(Utterances)
  /\ loop \in {"serve", "results", "claim"}
  /\ jobs \in Seq(Job)
  /\ workers \subseteq Sequences1
  /\ codex \subseteq workers
  /\ results \in Seq(Result)

Init ==
  /\ up = TRUE /\ stops = 0
  /\ bindings \in [Slots -> Tasks \cup {None}] /\ rebinds = 0
  /\ retired = {} /\ prompts = <<>>
  /\ loop = "serve"
  /\ jobs = <<>> /\ workers = {} /\ codex = {} /\ results = <<>>

-----------------------------------------------------------------------------
(* Queries on the jobs. *)

Running == {j \in Sequences1 : jobs[j].state = "running"}
Queued == {j \in Sequences1 : jobs[j].state = "queued"}
Pending(t) == {j \in Running \cup Queued : jobs[j].task = t}

\* Mutant: a task whose job runs is not passed over.
RunnableIgnoresRunning(j) ==
  /\ j \in Queued
  /\ \A k \in Queued : jobs[k].task = jobs[j].task => k >= j

\* claim_next_runnable: the first queued job of a task none of whose jobs runs ...
Runnable(j) ==
  /\ j \in Queued
  /\ \A k \in Running : jobs[k].task # jobs[j].task
  /\ \A k \in Queued : jobs[k].task = jobs[j].task => k >= j

\* ... and of those the first of all.
NextRunnable(j) == Runnable(j) /\ \A k \in Queued : Runnable(k) => k >= j

-----------------------------------------------------------------------------
(* Captures and speech recognition. *)

\* The last frame of a session arrives and the ASR worker, which keeps the order, makes a
\* prompt of it, unless the capture channel is full, the transcript empty or no service
\* answers.  Duplicates of a session count as a new one only once the Host has forgotten it.
Transcribe(u) ==
  /\ up /\ u \notin retired
  /\ retired' = retired \cup {u}
  /\ prompts' \in {prompts, Append(prompts, u)}
  /\ UNCHANGED <<host, binding, loop, jobs, workers, codex, results>>

-----------------------------------------------------------------------------
(* The serve loop. *)

Loop(at) == up /\ loop = at
Goes(to) == loop' = to
NewJob(u, t) == [utterance |-> u, task |-> t, claim |-> 0, recoveries |-> 0, state |-> "queued"]

\* Mutant: a request id that is known already is not looked for.
AcceptsReplay(u, t) == t # None /\ Cardinality(Pending(t)) < MaxPending

\* Mutant: a slot without a binding is not refused.
AcceptsUnbound(u, t) ==
  /\ \A j \in Sequences1 : jobs[j].utterance # u
  /\ Cardinality(Pending(t)) < MaxPending

\* StateStore::enqueue; the binding is the one of now, not of when the user spoke.
Accepts(u, t) ==
  /\ t # None
  /\ \A j \in Sequences1 : jobs[j].utterance # u
  /\ Cardinality(Pending(t)) < MaxPending

\* enqueue_slot, which may also fail on the catalog or the store; the prompt is gone then.
EnqueuePrompt ==
  LET u == Head(prompts)
      t == bindings[u[1]]
  IN /\ Loop("serve") /\ prompts # <<>>
     /\ prompts' = Tail(prompts)
     /\ \/ UNCHANGED jobs
        \/ Accepts(u, t) /\ jobs' = Append(jobs, NewJob(u, t))
     /\ UNCHANGED <<host, binding, retired, loop, workers, codex, results>>

\* A control request binds a slot.
Rebind(s, t) ==
  /\ Loop("serve")
  /\ rebinds < MaxRebinds
  /\ bindings' = [bindings EXCEPT ![s] = t] /\ rebinds' = rebinds + 1
  /\ UNCHANGED <<host, voice, loop, jobs, workers, codex, results>>

\* Before a tick the loop takes at most eight prompts, and after it at most eight requests.
EnterTick ==
  /\ Loop("serve") /\ Goes("results")
  /\ UNCHANGED <<host, binding, voice, jobs, workers, codex, results>>

Marked(r) ==
  IF jobs[r.job].state = "running" /\ jobs[r.job].claim = r.claim
  THEN [jobs EXCEPT ![r.job].state = "ended"] ELSE jobs

\* tick, first loop: mark_completed or mark_failed, both fenced by the claim generation.
HandleResult ==
  LET r == Head(results)
  IN /\ Loop("results") /\ results # <<>>
     /\ results' = Tail(results)
     /\ workers' = workers \ {r.job}
     /\ jobs' = Marked(r)
     /\ UNCHANGED <<host, binding, voice, loop, codex>>

EndResults ==
  /\ Loop("results") /\ results = <<>> /\ Goes("claim")
  /\ UNCHANGED <<host, binding, voice, jobs, workers, codex, results>>

MayClaim == Cardinality(workers) < MaxRunning /\ Cardinality(Running) < MaxRunning

\* tick, second loop: claim a job and start its thread.
ClaimJob(j) ==
  /\ Loop("claim") /\ MayClaim /\ NextRunnable(j)
  /\ jobs' = [jobs EXCEPT ![j].state = "running", ![j].claim = @ + 1]
  /\ workers' = workers \cup {j}
  /\ codex' = codex \cup {j}
  /\ UNCHANGED <<host, binding, voice, loop, results>>

EndClaims ==
  /\ Loop("claim") /\ Goes("serve")
  /\ MayClaim => \A j \in Queued : ~Runnable(j)
  /\ UNCHANGED <<host, binding, voice, jobs, workers, codex, results>>

-----------------------------------------------------------------------------
(* Workers, and the end of the Host. *)

\* The process exits, or is killed after its timeout or for its output; the thread reports.
\* Whether the run succeeded makes no difference to the queue: nothing is tried again.
CodexEnds(j) ==
  /\ up /\ j \in codex
  /\ codex' = codex \ {j}
  /\ results' = Append(results, [job |-> j, claim |-> jobs[j].claim])
  /\ UNCHANGED <<host, binding, voice, loop, jobs, workers>>

HostStops ==
  /\ up /\ stops < MaxStops
  /\ up' = FALSE /\ stops' = stops + 1
  /\ retired' = {} /\ prompts' = <<>> /\ loop' = "serve"
  /\ workers' = {} /\ codex' = {} /\ results' = <<>>
  /\ UNCHANGED <<binding, jobs>>

\* Mutant: the store is opened without recovering the interrupted job.
LeftRunning(job) == job

Recovered(job) ==
  IF job.state = "running" THEN [job EXCEPT !.state = "queued", !.recoveries = @ + 1] ELSE job

\* StateStore::open runs recover_interrupted_jobs.
HostStarts ==
  /\ ~up /\ up' = TRUE
  /\ jobs' = [j \in Sequences1 |-> Recovered(jobs[j])]
  /\ UNCHANGED <<stops, binding, voice, loop, workers, codex, results>>

-----------------------------------------------------------------------------
ServeLoop ==
  \/ EnqueuePrompt \/ EnterTick \/ HandleResult \/ EndResults
  \/ \E j \in Sequences1 : ClaimJob(j)
  \/ EndClaims
  \/ \E s \in Slots, t \in Tasks : Rebind(s, t)

Next ==
  \/ \E u \in Utterances : Transcribe(u)
  \/ ServeLoop
  \/ \E j \in Sequences1 : CodexEnds(j)
  \/ HostStops \/ HostStarts

Spec == Init /\ [][Next]_vars

\* The serve loop runs, a Codex process ends by itself or by its timeout, and the service
\* manager starts the Host again.
FairSpec ==
  /\ Spec
  /\ WF_vars(ServeLoop) /\ WF_vars(HostStarts)
  /\ \A j \in 1..Cardinality(Utterances) : WF_vars(CodexEnds(j))

-----------------------------------------------------------------------------
(* Properties. *)

\* No two Codex processes work on the same task at the same time, there are never more than
\* MAX_GLOBAL_RUNNING_JOBS, and each has its row and its worker, also across a stop that
\* puts running jobs back into the queue (claim_next_runnable, drive_child's kill).
TaskRunsAlone ==
  /\ \A j \in codex : up /\ jobs[j].state = "running"
  /\ \A j, k \in codex : jobs[j].task = jobs[k].task => j = k
  /\ Cardinality(codex) <= MaxRunning

\* The i-th smallest of a set of numbers.
Nth(S, i) == CHOOSE j \in S : Cardinality({k \in S : k <= j}) = i

\* What the queue promises, seen per task: its unanswered jobs in the order of their rows.
Accepted == {jobs[j].utterance : j \in Sequences1}
Fifo(t) == [i \in 1..Cardinality(Pending(t)) |-> jobs[Nth(Pending(t), i)].utterance]
Queues == [t \in Tasks |-> Fifo(t)]
Busy == {jobs[j].task : j \in Running}

Promise == INSTANCE TaskFifo WITH accepted <- Accepted, queue <- Queues, busy <- Busy

\* Replays, rebindings, failures and stops of the Host never run a task's prompts twice
\* without a stop, out of order, or two at once (store.rs enqueue, claim_next_runnable,
\* recover_interrupted_jobs).
ImplementsTaskFifo == Promise!Spec

\* A prompt the Host has accepted ends completed or failed: no full scheduler, failed
\* predecessor or restart leaves it queued for ever.
EveryJobEnds ==
  \A j \in 1..Cardinality(Utterances) :
    (j <= Len(jobs)) ~> (j <= Len(jobs) /\ jobs[j].state = "ended")
=============================================================================
