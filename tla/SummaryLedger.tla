---------------------------- MODULE SummaryLedger ----------------------------
(***************************************************************************)
(* The durable summary ledger of the Host and the three parties that work  *)
(* on it at the same time:                                                 *)
(*                                                                         *)
(*   - the summary worker thread (summary_worker.rs), which claims the     *)
(*     completions of a task, has them summarised and spoken, stores the   *)
(*     encrypted object in the cache and publishes the generation;         *)
(*   - the serve loop (health.rs), which leases the current unread summary *)
(*     to a device, marks it heard and deletes unreferenced objects;       *)
(*   - an optional cleaner process (tools/clean_interrupted.py), which     *)
(*     abandons claims behind the Host's back.                             *)
(*                                                                         *)
(* Every action is one SQLite transaction or one step that changes state   *)
(* outside the database.  The Host may crash between any two of them.      *)
(* Request ids are fresh per claim and lease ids fresh per playback, so a  *)
(* claim is named by its (task, generation) and a lease by a counter.      *)
(***************************************************************************)
EXTENDS Integers, FiniteSets

CONSTANTS
  Tasks,            \* Codex tasks
  Slots,            \* keyboard slots
  None,             \* no task, no slot
  MaxCompletions,   \* bound: completions observed per task
  MaxBatch,         \* MAX_SUMMARY_COMPLETIONS_PER_CLAIM
  MaxGeneration,    \* bound: summary generations per task
  MaxLeases,        \* bound: playback leases ever taken
  MaxCrashes,       \* bound: crashes of the Host process
  Cleaner           \* whether tools/clean_interrupted.py is installed

ASSUME TasksAssumption == None \notin Tasks \cup Slots
ASSUME BoundsAssumption ==
  /\ MaxCompletions \in Nat /\ MaxBatch \in Nat \ {0}
  /\ MaxGeneration \in Nat /\ MaxLeases \in Nat /\ MaxCrashes \in Nat
  /\ Cleaner \in BOOLEAN

Generations == 1..MaxGeneration
Completions == 1..MaxCompletions

VARIABLES
  up,         \* the Host process runs
  crashes,    \* how often it has crashed
  bindings,   \* table bindings: slot -> task
  observed,   \* table completion_ledger: completions 1..observed[t] of task t
  coveredBy,  \* its column summarized_generation, 0 for NULL
  summary,    \* table summary_ledger joined with summary_tts_attempts
  leases,     \* table summary_playback_leases
  nextLease,  \* the next fresh lease id
  cache,      \* finalized cache objects, as <<task, generation>>
  worker,     \* the summary worker thread
  player,     \* the serve loop while it handles a playback event
  active      \* the serve loop's map of playbacks in flight

ledgerVars == <<observed, coveredBy, summary>>
leaseVars  == <<leases, nextLease>>
hostVars   == <<up, crashes>>
vars == <<hostVars, bindings, ledgerVars, leaseVars, cache, worker, player, active>>

RowStates == {"none", "generating", "interrupted", "unheard", "leased",
              "heard", "superseded", "abandoned"}
Row == [state: RowStates, covers: SUBSET Completions,
        previous: 0..MaxGeneration, supersededBy: 0..MaxGeneration, tts: BOOLEAN]
Lease == [id: 1..MaxLeases, task: Tasks, generation: Generations]
WorkerPcs == {"scan", "claim", "recover", "previous", "generate", "begin",
              "synthesize", "store", "publish", "abandon"}
PlayerPcs == {"idle", "replace", "load", "reconcile"}
Worker == [pc: WorkerPcs, task: Tasks \cup {None}, generation: 0..MaxGeneration,
           resumed: BOOLEAN, error: BOOLEAN, todo: SUBSET Tasks]
Player == [pc: PlayerPcs, slot: Slots \cup {None}, lease: 0..MaxLeases]

TypeOK ==
  /\ up \in BOOLEAN /\ crashes \in 0..MaxCrashes
  /\ bindings \in [Slots -> Tasks \cup {None}]
  /\ observed \in [Tasks -> 0..MaxCompletions]
  /\ coveredBy \in [Tasks -> [Completions -> 0..MaxGeneration]]
  /\ summary \in [Tasks -> [Generations -> Row]]
  /\ leases \in SUBSET Lease
  /\ nextLease \in 1..(MaxLeases + 1)
  /\ cache \in SUBSET (Tasks \X Generations)
  /\ worker \in Worker
  /\ player \in Player
  /\ active \in SUBSET [lease: Lease, heard: BOOLEAN]

-----------------------------------------------------------------------------
(* Queries. *)

Bound(t) == \E s \in Slots : bindings[s] = t
Pending(t) == {k \in 1..observed[t] : coveredBy[t][k] = 0}
StateOf(t, g) == summary[t][g].state
ActiveClaims(t) == {g \in Generations : StateOf(t, g) \in {"generating", "interrupted"}}
Interrupted(t) == {g \in Generations : StateOf(t, g) = "interrupted"}

\* query_current_unread: the row a mailbox lamp and a playback refer to.
CurrentUnread(t) ==
  {g \in Generations : /\ StateOf(t, g) \in {"unheard", "leased"}
                       /\ summary[t][g].supersededBy = 0}

\* query_pending_summary_completions: the oldest MaxBatch of them.
Batch(t) ==
  {k \in Pending(t) : Cardinality({j \in Pending(t) : j < k}) < MaxBatch}

\* COALESCE(MAX(generation), 0) + 1
IsNextGeneration(t, g) ==
  /\ \A h \in Generations : StateOf(t, h) # "none" => h < g
  /\ g > 1 => StateOf(t, g - 1) # "none"

\* retained_summary_cache_references
Retained == {r \in Tasks \X Generations : StateOf(r[1], r[2]) \in {"unheard", "leased"}}

WorkTasks_OnlyInterrupted == {t \in Tasks : Bound(t) /\ Interrupted(t) # {}}

\* summary_work_tasks_after
WorkTasks == {t \in Tasks : Bound(t) /\ (Interrupted(t) # {} \/ Pending(t) # {})}

\* load_summary_claim: the frozen input must still be there.
ClaimLoads(t, g) ==
  LET row == summary[t][g]
  IN /\ row.covers \subseteq Pending(t)
     /\ row.previous # 0 => CurrentUnread(t) = {row.previous}

CanPublish_IgnoresCurrent(t, g) ==
  summary[t][g].state = "generating" /\ summary[t][g].covers \subseteq Pending(t)

\* The conditions under which publish_summary commits.
CanPublish(t, g) ==
  LET row == summary[t][g]
  IN /\ row.state = "generating"
     /\ CurrentUnread(t) = IF row.previous = 0 THEN {} ELSE {row.previous}
     /\ row.covers \subseteq Pending(t)

-----------------------------------------------------------------------------
NoRow_NullIsMinusOne ==
  [state |-> "none", covers |-> {}, previous |-> -1, supersededBy |-> -1, tts |-> FALSE]
NoRow == [state |-> "none", covers |-> {}, previous |-> 0, supersededBy |-> 0, tts |-> FALSE]
IdleWorker(todo) ==
  [pc |-> "scan", task |-> None, generation |-> 0, resumed |-> FALSE,
   error |-> FALSE, todo |-> todo]
IdlePlayer == [pc |-> "idle", slot |-> None, lease |-> 0]

Init ==
  /\ up = TRUE /\ crashes = 0
  /\ bindings = [s \in Slots |-> None]
  /\ observed = [t \in Tasks |-> 0]
  /\ coveredBy = [t \in Tasks |-> [k \in Completions |-> 0]]
  /\ summary = [t \in Tasks |-> [g \in Generations |-> NoRow]]
  /\ leases = {} /\ nextLease = 1
  /\ cache = {}
  /\ worker = IdleWorker({})
  /\ player = IdlePlayer
  /\ active = {}

-----------------------------------------------------------------------------
(* Bindings and completions: what the catalog and the rollout observer do. *)

\* set_binding; the compare-and-swap on its generation is BindingLedger's subject.
SetBinding(s, t) ==
  /\ up /\ player.pc = "idle"
  /\ bindings' = [bindings EXCEPT ![s] = t]
  /\ UNCHANGED <<hostVars, ledgerVars, leaseVars, cache, worker, player, active>>

\* commit_bound_rollout_completion, inserting: the binding must still exist.
CommitCompletion(t) ==
  /\ up /\ Bound(t)
  /\ observed[t] < MaxCompletions
  /\ observed' = [observed EXCEPT ![t] = @ + 1]
  /\ UNCHANGED <<hostVars, bindings, coveredBy, summary, leaseVars, cache, worker,
                 player, active>>

-----------------------------------------------------------------------------
(* The summary worker.  The attempt ends in WorkerIdle or in WorkerFailed, *)
(* which the loop answers with a back-off; both return to the scan.        *)

WorkerIdle == worker' = IdleWorker(worker.todo)
WorkerFailed(t) == worker' = [IdleWorker(worker.todo) EXCEPT !.task = t, !.error = TRUE]
WorkerGoes(pc) == worker' = [worker EXCEPT !.pc = pc]
WorkerAbandons(error) == worker' = [worker EXCEPT !.pc = "abandon", !.error = error]

workerOnly == UNCHANGED <<hostVars, bindings, ledgerVars, leaseVars, cache, player, active>>

At(pc) == up /\ worker.pc = pc
Claimed == summary[worker.task][worker.generation]
ClaimObject == <<worker.task, worker.generation>>

\* One pass of run_ready: the list is read once and may be stale when a task's turn comes.
WorkerScan ==
  /\ At("scan") /\ worker.todo = {}
  /\ WorkTasks # {}
  /\ worker' = IdleWorker(WorkTasks)
  /\ workerOnly

Take(t) == IdleWorker(worker.todo \ {t})

\* resume_interrupted_summary finds nothing: run() follows with a fresh request id.
ResumeNothing(t) ==
  /\ At("scan") /\ t \in worker.todo
  /\ Interrupted(t) = {}
  /\ worker' = [Take(t) EXCEPT !.pc = "claim", !.task = t]
  /\ workerOnly

\* resume_interrupted_summary loads the frozen claim.
ResumeClaim(t, g) ==
  /\ At("scan") /\ t \in worker.todo
  /\ g \in Interrupted(t)
  /\ ClaimLoads(t, g)
  /\ summary' = [summary EXCEPT ![t][g].state = "generating"]
  /\ worker' = [Take(t) EXCEPT !.pc = "recover", !.task = t, !.generation = g,
                               !.resumed = TRUE]
  /\ UNCHANGED <<hostVars, bindings, observed, coveredBy, leaseVars, cache, player, active>>

\* load_summary_claim refuses, the transaction rolls back and resume() returns the error.
ResumeRejected(t, g) ==
  /\ At("scan") /\ t \in worker.todo
  /\ g \in Interrupted(t)
  /\ ~ClaimLoads(t, g)
  /\ worker' = [Take(t) EXCEPT !.task = t, !.error = TRUE]
  /\ workerOnly

\* claim_summary inserts a claim that freezes its input.
ClaimSummary(g) ==
  LET t == worker.task
      previous == CurrentUnread(t)
  IN /\ At("claim")
     /\ ActiveClaims(t) = {}
     /\ Pending(t) # {}
     /\ IsNextGeneration(t, g)
     /\ \E p \in IF previous = {} THEN {0} ELSE previous :
          summary' = [summary EXCEPT ![t][g] =
                        [state |-> "generating", covers |-> Batch(t), previous |-> p,
                         supersededBy |-> 0, tts |-> FALSE]]
     /\ worker' = [worker EXCEPT !.pc = "recover", !.generation = g, !.resumed = FALSE]
     /\ UNCHANGED <<hostVars, bindings, observed, coveredBy, leaseVars, cache, player, active>>

\* claim_summary answers SummaryBusy or finds nothing to claim (or the bound is reached).
ClaimNothing ==
  LET t == worker.task
  IN /\ At("claim")
     /\ ~ \E g \in Generations : IsNextGeneration(t, g) /\ ActiveClaims(t) = {} /\ Pending(t) # {}
     /\ IF ActiveClaims(t) # {} THEN WorkerFailed(t) ELSE WorkerIdle
     /\ workerOnly

\* The previous unread row; while it is being played it keeps its lease.
Replaced(row, g) ==
  [row EXCEPT !.state = IF row.state = "unheard" THEN "superseded" ELSE row.state,
              !.supersededBy = g]

Published(t, g) ==
  [h \in Generations |->
    LET row == summary[t][h]
    IN IF h = g THEN [row EXCEPT !.state = "unheard", !.tts = FALSE]
       ELSE IF h = summary[t][g].previous THEN Replaced(row, g)
       ELSE row]

Reassigned_KeepsOldCoverage(t, g) ==
  [k \in Completions |-> IF k \in summary[t][g].covers THEN g ELSE coveredBy[t][k]]

\* The new generation takes over its own batch and everything the previous one covered.
Reassigned(t, g) ==
  LET row == summary[t][g]
  IN [k \in Completions |->
       IF \/ k \in row.covers
          \/ row.previous # 0 /\ coveredBy[t][k] = row.previous
       THEN g ELSE coveredBy[t][k]]

\* publish_summary's transaction, once CanPublish holds.
Publish(t, g) ==
  /\ summary' = [summary EXCEPT ![t] = Published(t, g)]
  /\ coveredBy' = [coveredBy EXCEPT ![t] = Reassigned(t, g)]
  /\ UNCHANGED observed

\* recover_authenticated_cache: an object stored before a crash is published as it is.
RecoverPublished ==
  /\ At("recover") /\ ClaimObject \in cache
  /\ CanPublish(worker.task, worker.generation)
  /\ Publish(worker.task, worker.generation)
  /\ WorkerIdle
  /\ UNCHANGED <<hostVars, bindings, leaseVars, cache, player, active>>

RecoverRejected ==
  /\ At("recover") /\ ClaimObject \in cache
  /\ ~CanPublish(worker.task, worker.generation)
  /\ WorkerAbandons(TRUE)
  /\ workerOnly

\* No object: an attempt already handed to the TTS service is never repeated.
RecoverMissing ==
  /\ At("recover") /\ ClaimObject \notin cache
  /\ IF Claimed.tts /\ worker.generation \in ActiveClaims(worker.task)
     THEN WorkerAbandons(FALSE)
     ELSE WorkerGoes("previous")
  /\ workerOnly

\* The previous unread document is the input of the cumulative summary.
LoadPrevious ==
  /\ At("previous")
  /\ IF Claimed.previous # 0 /\ <<worker.task, Claimed.previous>> \notin cache
     THEN WorkerAbandons(TRUE)
     ELSE WorkerGoes("generate")
  /\ workerOnly

Generated == At("generate") /\ WorkerGoes("begin") /\ workerOnly

\* begin_summary_tts_attempt, refused when the claim was cleaned away meanwhile.
BeginTtsAttempt ==
  /\ At("begin")
  /\ IF worker.generation \in ActiveClaims(worker.task)
     THEN /\ summary' = [summary EXCEPT ![worker.task][worker.generation].tts = TRUE]
          /\ WorkerGoes("synthesize")
     ELSE UNCHANGED summary /\ WorkerFailed(worker.task)
  /\ UNCHANGED <<hostVars, bindings, observed, coveredBy, leaseVars, cache, player, active>>

Synthesized == At("synthesize") /\ WorkerGoes("store") /\ workerOnly

\* A corrupt object, an unreadable previous document, Spark or the TTS service failing.
ExternalFailure ==
  /\ up /\ worker.pc \in {"recover", "previous", "generate", "synthesize"}
  /\ \E error \in IF worker.pc = "synthesize" THEN BOOLEAN ELSE {TRUE} :
       WorkerAbandons(error)
  /\ workerOnly

\* publish_or_verify_with takes the cache gate, writes the object and reads it back; the
\* gate stays taken until publish_summary, called inside it, has returned.
StoreObject ==
  /\ At("store")
  /\ cache' = cache \cup {ClaimObject}
  /\ WorkerGoes("publish")
  /\ UNCHANGED <<hostVars, bindings, ledgerVars, leaseVars, player, active>>

\* Writing fails, before or after the rename that finalizes the object: the Host looks again.
StoreFailed ==
  /\ At("store")
  /\ cache' \in {cache, cache \cup {ClaimObject}}
  /\ WorkerGoes("recover")
  /\ UNCHANGED <<hostVars, bindings, ledgerVars, leaseVars, player, active>>

PublishSummary ==
  /\ At("publish")
  /\ CanPublish(worker.task, worker.generation)
  /\ Publish(worker.task, worker.generation)
  /\ WorkerIdle
  /\ UNCHANGED <<hostVars, bindings, leaseVars, cache, player, active>>

\* SummaryClaimChanged: the previous summary was heard, or the claim cleaned away.
PublishRejected ==
  /\ At("publish")
  /\ ~CanPublish(worker.task, worker.generation)
  /\ WorkerAbandons(TRUE)
  /\ workerOnly

Abandoned(row) == [row EXCEPT !.state = "abandoned", !.tts = FALSE]

\* A resumed claim that ends idle is followed at once by a run of the same task.
AfterAbandon ==
  IF worker.error THEN WorkerFailed(worker.task)
  ELSE IF worker.resumed THEN WorkerGoes("claim")
  ELSE WorkerIdle

\* abandon_summary_claim
Abandon ==
  /\ At("abandon")
  /\ IF worker.generation \in ActiveClaims(worker.task)
     THEN /\ summary' = [summary EXCEPT ![worker.task][worker.generation] = Abandoned(Claimed)]
          /\ AfterAbandon
     ELSE UNCHANGED summary /\ WorkerFailed(worker.task)
  /\ UNCHANGED <<hostVars, bindings, observed, coveredBy, leaseVars, cache, player, active>>

WorkerNext ==
  \/ WorkerScan
  \/ \E t \in Tasks : ResumeNothing(t)
  \/ \E t \in Tasks, g \in Generations : ResumeClaim(t, g) \/ ResumeRejected(t, g)
  \/ \E g \in Generations : ClaimSummary(g)
  \/ ClaimNothing \/ RecoverPublished \/ RecoverRejected \/ RecoverMissing
  \/ LoadPrevious \/ Generated \/ BeginTtsAttempt \/ Synthesized \/ ExternalFailure
  \/ StoreObject \/ StoreFailed \/ PublishSummary \/ PublishRejected \/ Abandon

-----------------------------------------------------------------------------
(* The serve loop handling playback events.  It is one thread: while it is *)
(* between two transactions of one event only the worker and the cleaner   *)
(* move.                                                                   *)

GateFree_NoGate == TRUE
GateFree == worker.pc # "publish"

\* What a leased row becomes when its playback ends unheard.
Released(row) == IF row.supersededBy = 0 THEN "unheard" ELSE "superseded"

\* cancel_summary_playback on an exact lease row.
CancelLease(l) ==
  LET row == summary[l.task][l.generation]
  IN /\ leases' = leases \ {l}
     /\ summary' = [summary EXCEPT ![l.task][l.generation].state =
          IF l \in leases /\ row.state = "leased" THEN Released(row) ELSE row.state]

\* LanPlaybackEvent::Request for an identity that is not already playing.
PlaybackRequested(s) ==
  /\ up /\ player.pc = "idle"
  /\ nextLease <= MaxLeases
  /\ player' = [IdlePlayer EXCEPT !.pc = "replace", !.slot = s]
  /\ UNCHANGED <<hostVars, bindings, ledgerVars, leaseVars, cache, worker, active>>

\* begin_lan_playback first cancels whatever else is playing.
ReplacePlayback(a) ==
  /\ up /\ player.pc = "replace" /\ a \in active
  /\ IF a.heard THEN UNCHANGED <<leases, summary>> ELSE CancelLease(a.lease)
  /\ active' = active \ {a}
  /\ UNCHANGED <<hostVars, bindings, observed, coveredBy, nextLease, cache, worker, player>>

\* acquire_summary_playback: no binding or unread, an unread that is already leased, or a lease.
AcquirePlayback ==
  /\ up /\ player.pc = "replace" /\ active = {}
  /\ LET candidates == {c \in Tasks \X Generations :
                          /\ c[1] = bindings[player.slot]
                          /\ c[2] \in CurrentUnread(c[1])
                          /\ StateOf(c[1], c[2]) = "unheard"}
     IN IF candidates = {}
        THEN player' = IdlePlayer /\ UNCHANGED <<leases, nextLease, summary>>
        ELSE \E c \in candidates :
               /\ summary' = [summary EXCEPT ![c[1]][c[2]].state = "leased"]
               /\ leases' = leases \cup
                    {[id |-> nextLease, task |-> c[1], generation |-> c[2]]}
               /\ nextLease' = nextLease + 1
               /\ player' = [player EXCEPT !.pc = "load", !.lease = nextLease]
  /\ UNCHANGED <<hostVars, bindings, observed, coveredBy, cache, worker, active>>

\* The object is read under the gate, transcoded and handed to the LAN thread.
PlaybackStarted(l) ==
  /\ up /\ player.pc = "load" /\ GateFree
  /\ l \in leases /\ l.id = player.lease
  /\ <<l.task, l.generation>> \in cache
  /\ active' = active \cup {[lease |-> l, heard |-> FALSE]}
  /\ player' = IdlePlayer
  /\ UNCHANGED <<hostVars, bindings, ledgerVars, leaseVars, cache, worker>>

PlaybackNotStarted_KeepsLease(l) ==
  /\ up /\ player.pc = "load" /\ GateFree
  /\ l \in leases /\ l.id = player.lease
  /\ player' = IdlePlayer
  /\ UNCHANGED <<hostVars, bindings, ledgerVars, leaseVars, cache, worker, active>>

\* The object is missing or unreadable, or the LAN thread refuses: the lease is given back.
PlaybackNotStarted(l) ==
  /\ up /\ player.pc = "load" /\ GateFree
  /\ l \in leases /\ l.id = player.lease
  /\ CancelLease(l)
  /\ player' = IdlePlayer
  /\ UNCHANGED <<hostVars, bindings, observed, coveredBy, nextLease, cache, worker, active>>

\* LanPlaybackEvent::Finished: finish_summary_playback on the exact lease, once.
PlaybackFinished(a) ==
  LET l == a.lease
  IN /\ up /\ player.pc = "idle" /\ a \in active
     /\ IF a.heard THEN UNCHANGED <<leases, summary, active>>
        ELSE /\ l \in leases /\ StateOf(l.task, l.generation) = "leased"
             /\ summary' = [summary EXCEPT ![l.task][l.generation].state = "heard"]
             /\ leases' = leases \ {l}
             /\ active' = (active \ {a}) \cup {[a EXCEPT !.heard = TRUE]}
     /\ player' = [IdlePlayer EXCEPT !.pc = "reconcile", !.lease = l.id]
     /\ UNCHANGED <<hostVars, bindings, observed, coveredBy, nextLease, cache, worker>>

\* reconcile_with, under the gate, then the acknowledgement that lets the device forget.
Reconcile(a) ==
  /\ up /\ player.pc = "reconcile" /\ GateFree
  /\ a \in active /\ a.lease.id = player.lease
  /\ Retained \subseteq cache
  /\ cache' = Retained
  /\ active' = active \ {a}
  /\ player' = IdlePlayer
  /\ UNCHANGED <<hostVars, bindings, ledgerVars, leaseVars, worker>>

\* Reconciling or sending the acknowledgement fails, after some orphans have been removed.
ReconcileDeferred ==
  /\ up /\ player.pc = "reconcile" /\ GateFree
  /\ \E orphans \in SUBSET (cache \ Retained) : cache' = cache \ orphans
  /\ player' = IdlePlayer
  /\ UNCHANGED <<hostVars, bindings, ledgerVars, leaseVars, worker, active>>

\* LanPlaybackEvent::Cancelled: a commit already made is kept.
PlaybackCancelled(a) ==
  /\ up /\ player.pc = "idle" /\ a \in active
  /\ IF a.heard THEN UNCHANGED <<leases, summary>> ELSE CancelLease(a.lease)
  /\ active' = active \ {a}
  /\ UNCHANGED <<hostVars, bindings, observed, coveredBy, nextLease, cache, worker, player>>

PlayerNext ==
  \/ \E s \in Slots : PlaybackRequested(s)
  \/ AcquirePlayback \/ ReconcileDeferred
  \/ \E a \in active : \/ ReplacePlayback(a) \/ PlaybackFinished(a)
                       \/ Reconcile(a) \/ PlaybackCancelled(a)
  \/ \E l \in leases : PlaybackStarted(l) \/ PlaybackNotStarted(l)

-----------------------------------------------------------------------------
(* Crash, restart and the two ways a claim is abandoned from outside.      *)

Crash ==
  /\ up /\ crashes < MaxCrashes
  /\ up' = FALSE /\ crashes' = crashes + 1
  /\ worker' = IdleWorker({}) /\ player' = IdlePlayer /\ active' = {}
  /\ UNCHANGED <<bindings, ledgerVars, leaseVars, cache>>

\* recover_interrupted_summaries and recover_interrupted_playback_leases, which open() runs
\* before anything else can see the database.
Recovered ==
  [t \in Tasks |-> [g \in Generations |->
     LET row == summary[t][g]
     IN [row EXCEPT !.state =
           IF row.state = "generating" THEN "interrupted"
           ELSE IF row.state = "leased" THEN Released(row) ELSE row.state]]]

OpenStore ==
  /\ ~up
  /\ up' = TRUE
  /\ summary' = Recovered /\ leases' = {}
  /\ UNCHANGED <<crashes, bindings, observed, coveredBy, nextLease, cache, worker, player, active>>

\* easy-codex-host abandon-slot-summary: opens the store itself, so only while the Host is down.
OperatorAbandon(t, g) ==
  /\ ~up /\ Bound(t)
  /\ g \in ActiveClaims(t)
  /\ summary' = [Recovered EXCEPT ![t][g] = Abandoned(Recovered[t][g])]
  /\ leases' = {}
  /\ UNCHANGED <<hostVars, bindings, observed, coveredBy, nextLease, cache, worker, player, active>>

\* tools/clean_interrupted.py, from a timer: a claim older than its threshold, whether or not
\* the worker is still on it.  It leaves the TTS attempt row behind.
CleanStale(t, g) ==
  /\ Cleaner
  /\ g \in ActiveClaims(t)
  /\ summary' = [summary EXCEPT ![t][g].state = "abandoned"]
  /\ UNCHANGED <<hostVars, bindings, observed, coveredBy, leaseVars, cache, worker, player, active>>

Next ==
  \/ \E s \in Slots, t \in Tasks : SetBinding(s, t)
  \/ \E t \in Tasks : CommitCompletion(t)
  \/ WorkerNext
  \/ PlayerNext
  \/ Crash \/ OpenStore
  \/ \E t \in Tasks, g \in Generations : OperatorAbandon(t, g) \/ CleanStale(t, g)

Spec == Init /\ [][Next]_vars

\* Scheduling: the worker thread always takes its next step, and the external services answer
\* with a success again and again rather than failing for ever.
Fairness ==
  /\ WF_vars(OpenStore)
  /\ WF_vars(WorkerScan)
  /\ \A t \in Tasks : WF_vars(ResumeNothing(t) \/ \E g \in Generations :
                                ResumeClaim(t, g) \/ ResumeRejected(t, g))
  /\ WF_vars(ClaimNothing \/ \E g \in Generations : ClaimSummary(g))
  /\ SF_vars(RecoverPublished \/ RecoverRejected \/ RecoverMissing)
  /\ SF_vars(LoadPrevious) /\ SF_vars(Generated) /\ SF_vars(Synthesized)
  /\ SF_vars(StoreObject)
  /\ WF_vars(BeginTtsAttempt)
  /\ WF_vars(PublishSummary \/ PublishRejected)
  /\ WF_vars(Abandon)

FairSpec == Spec /\ Fairness

-----------------------------------------------------------------------------
(* Safety. *)

\* A completion that has been folded into a generation is either heard or in the one summary
\* the mailbox still shows: superseding, cancelling, abandoning or crashing never drops it into
\* a generation nobody can play (store.rs publish_summary, cancel_summary_playback).
NoCompletionLost ==
  \A t \in Tasks : \A k \in 1..observed[t] :
    coveredBy[t][k] # 0 =>
      \/ StateOf(t, coveredBy[t][k]) = "heard"
      \/ coveredBy[t][k] \in CurrentUnread(t)

\* query_current_unread answers InvalidSummaryState for a current row without coverage, which
\* would stop the mailbox, every claim and every playback of the task; and the unique indexes
\* of summary_ledger never have to refuse a row.
CurrentUnreadIsPlayable ==
  \A t \in Tasks :
    /\ \A g, h \in CurrentUnread(t) : g = h
    /\ \A g, h \in ActiveClaims(t) : g = h
    /\ \A g \in CurrentUnread(t) : \E k \in 1..observed[t] : coveredBy[t][k] = g

\* While the Host runs every lease row belongs to a playback the serve loop still holds, and a
\* row is leased exactly when it has one lease row: no summary stays busy with nobody playing.
LeasesAreHeld ==
  /\ \A t \in Tasks, g \in Generations :
       StateOf(t, g) = "leased" <=> \E l \in leases : l.task = t /\ l.generation = g
  /\ \A l, m \in leases : <<l.task, l.generation>> = <<m.task, m.generation>> => l = m
  /\ up => \A l \in leases :
             \/ [lease |-> l, heard |-> FALSE] \in active
             \/ player.pc = "load" /\ player.lease = l.id

\* Every generation that can still be played has its encrypted object: the cleanup after a
\* heard summary never removes one the worker is about to publish (cache.rs operation gate).
RetainedObjectsExist == Retained \subseteq cache

\* A generating row is being worked on: no failure path of a running Host leaves a claim behind
\* that every later attempt would find busy (docs/04: every failure path releases the lock).
NoZombieClaim ==
  up => \A t \in Tasks, g \in Generations :
          StateOf(t, g) = "generating" =>
            /\ worker.task = t /\ worker.generation = g
            /\ worker.pc \notin {"scan", "claim"}

\* What the rows of a running Host say of claims, leases and unread summaries is true.
RowsAreTrue == CurrentUnreadIsPlayable /\ LeasesAreHeld /\ NoZombieClaim

\* An attempt that failed has released the task's claim (docs/04-总结与踩坑.md:88).
FailureReleasesClaim ==
  worker.pc = "scan" /\ worker.error => ActiveClaims(worker.task) = {}

-----------------------------------------------------------------------------
(* What the ledger promises, seen per completion: Mailbox. *)

UnreadSet(t) == {k \in 1..observed[t] : coveredBy[t][k] \in CurrentUnread(t)}

Mail == INSTANCE Mailbox WITH
  pending <- [t \in Tasks |-> Pending(t)],
  unread  <- [t \in Tasks |-> UnreadSet(t)],
  playing <- [t \in Tasks |-> IF \E g \in CurrentUnread(t) : StateOf(t, g) = "leased"
                              THEN UnreadSet(t) ELSE {}],
  heard   <- [t \in Tasks |-> {k \in 1..observed[t] :
                                 coveredBy[t][k] # 0 /\ StateOf(t, coveredBy[t][k]) = "heard"}]

\* The ledger implements the mailbox: completions move pending -> unread -> heard, and what is
\* marked heard is exactly what the mailbox held when the playback was leased.
ImplementsMailbox == Mail!Spec

\* A claim nobody but an operator ends: interrupted by a crash, and what it was based on was
\* heard since (ResumeRejected, every time).
Stuck(t) == \E g \in Interrupted(t) : ~ClaimLoads(t, g)

\* A pending completion of a task that stays bound is eventually summarised, although playbacks
\* and crashes keep invalidating claims, unless the task is stuck or the bound on generations
\* has been used up by failed attempts.
EventuallySummarised ==
  \A t \in Tasks : \A k \in Completions :
    (k \in Pending(t) /\ Bound(t)) ~>
      \/ coveredBy[t][k] # 0
      \/ ~Bound(t) \/ Stuck(t)
      \/ \A g \in Generations : StateOf(t, g) # "none"
=============================================================================
