---------------------------- MODULE StoreRunner ----------------------------
(***************************************************************************)
(* The sound store's worker and the platform task that feeds it            *)
(* (speaker_assets_flash_runner.cpp, the boot-sound job of                 *)
(* speaker_assets_supervisor.cpp and the startup phases of app_main.cpp).  *)
(*                                                                         *)
(* All Flash work is done by one worker task, in units of at most a        *)
(* sector, each under a permit that the platform task grants.  The two     *)
(* meet in one exchange under a mutex; the permission itself is an atomic  *)
(* word the worker reads and claims without the mutex.  A key press or a   *)
(* recording takes the permission away at any time.  What the store does   *)
(* with a unit is SoundBanks; here a unit is a step that may not start     *)
(* while input has priority.                                               *)
(***************************************************************************)
EXTENDS Naturals

CONSTANTS
  MaxUnits,     \* Flash units of one job
  MaxActions,   \* protocol actions the client sends
  MaxInputs     \* how often input starts or stops claiming priority

ASSUME BoundsAreNaturals ==
  MaxUnits \in Nat /\ MaxActions \in Nat /\ MaxInputs \in Nat

VARIABLES
  prio,      \* priority_state_: permission, its epoch, and the unit in progress
  xch,       \* the exchange: phase, job, requested and granted permit, completion
  wake,      \* the worker's binary semaphore
  worker,    \* the worker's stack: where it is and what it holds
  pinned,    \* the store holds the boot sound's read lease
  stage,     \* which part of its loop the platform task is in
  boot,      \* boot_read_state_
  bootJob,   \* boot_job_
  release,   \* boot_release_requested_
  startup,   \* speaker_startup_phase
  skip,      \* speaker_boot_skip_requested
  started,   \* speaker_boot_resolution_started
  lease,     \* boot_sound_lease, the application's copy
  quiet,     \* playback_allowed, as sampled at the top of service_speaker
  sounding,  \* what the speaker worker plays
  action,    \* the protocol action the core has pending, 0 for none
  actions,   \* how many it has had
  jobs,      \* next_job_id_ - 1
  input,     \* a key, a recording or a pending report claims priority
  inputs     \* how often that changed

exchange == <<prio, xch, wake>>
bootVars == <<boot, bootJob, release>>
startupVars == <<startup, skip, started, lease, quiet>>
vars == <<exchange, worker, pinned, stage, bootVars, startupVars, sounding,
          action, actions, jobs, input, inputs>>

----------------------------------------------------------------------------
(* The exchange. *)

Phases == {"Idle", "Accepted", "Running", "PermitRequested", "PermitGranted", "Completed"}
Kinds == {"None", "Protocol", "Prepare", "Release"}

\* reset_exchange_locked
NoJob == [phase |-> "Idle", kind |-> "None", job |-> 0, action |-> 0,
          unit |-> 0, reqEpoch |-> 0, grantEpoch |-> 0, result |-> "None"]

\* next_job_id
NextJob == jobs + 1

\* The Accepted half of step, start_prepare_boot_read and start_release_read.
Accept(k, a) ==
  /\ xch' = [NoJob EXCEPT !.phase = "Accepted", !.kind = k, !.action = a, !.job = NextJob]
  /\ jobs' = NextJob
  /\ wake' = TRUE

\* mutant: a job in progress is no reason to wait.
StoreAlwaysFree == TRUE

\* What step and the start operations ask of the exchange before they accept a job.
StoreIsFree == xch.phase = "Idle"

\* grant_requested_permit_locked: the permit carries the epoch of the grant.
Grant ==
  IF xch.phase = "PermitRequested" /\ prio.allowed
  THEN /\ xch' = [xch EXCEPT !.phase = "PermitGranted", !.grantEpoch = prio.epoch]
       /\ wake' = TRUE
  ELSE UNCHANGED <<xch, wake>>

Reset == xch' = NoJob /\ UNCHANGED wake

\* internal_handle_matches_locked
HandleMatches(k) == xch.kind = k /\ xch.job = bootJob

\* action_matches
ActionMatches == xch.kind = "Protocol" /\ xch.action = action

\* mutant: the worker is not told of a change.
PublishSilently(ok) ==
  IF ok = prio.allowed THEN UNCHANGED <<prio, wake>>
  ELSE /\ prio' = [prio EXCEPT !.allowed = ok, !.epoch = @ + 1]
       /\ UNCHANGED wake

\* publish_priority_allowed: a new epoch for every change; a claimed unit stays claimed.
Publish(ok) ==
  IF ok = prio.allowed THEN UNCHANGED <<prio, wake>>
  ELSE /\ prio' = [prio EXCEPT !.allowed = ok, !.epoch = @ + 1]
       /\ wake' = TRUE

----------------------------------------------------------------------------
(* The worker task. *)

\* wait_worker, from wherever it is called.
Asleep(at, again) ==
  /\ worker.pc = at
  /\ wake
  /\ wake' = FALSE
  /\ worker' = [worker EXCEPT !.pc = again]
  /\ UNCHANGED <<prio, xch, pinned>>

\* worker_run_once takes the accepted job, or finds none and waits for a signal.
TakeJob ==
  /\ worker.pc = "look"
  /\ IF xch.phase = "Accepted"
     THEN /\ xch' = [xch EXCEPT !.phase = "Running"]
          /\ \E n \in 0 .. MaxUnits :
               worker' = [pc |-> "work", job |-> xch.job, kind |-> xch.kind,
                          left |-> n, unit |-> 0, epoch |-> 0]
     ELSE /\ worker' = [worker EXCEPT !.pc = "idle"]
          /\ UNCHANGED xch
  /\ UNCHANGED <<prio, wake, pinned>>

\* mutant: one unit more than the job has.
ReadEpochOnceMore ==
  /\ worker.pc = "work"
  /\ worker' = [worker EXCEPT !.pc = "exact", !.epoch = prio.epoch]
  /\ UNCHANGED <<exchange, pinned>>

\* worker_claim_permit, first step: the epoch the request is made in.
ReadEpoch ==
  /\ worker.pc = "work" /\ worker.left > 0
  /\ worker' = [worker EXCEPT !.pc = "exact", !.epoch = prio.epoch]
  /\ UNCHANGED <<exchange, pinned>>

\* exact_priority
ExactPriority(e) == prio.allowed /\ ~prio.claimed /\ prio.epoch = e

RequestOrWait ==
  /\ worker.pc = "exact"
  /\ worker' = [worker EXCEPT !.pc = IF ExactPriority(worker.epoch) THEN "request" ELSE "blocked"]
  /\ UNCHANGED <<exchange, pinned>>

RequestPermit ==
  /\ worker.pc = "request"
  /\ xch.phase = "Running" /\ xch.job = worker.job
  /\ xch' = [xch EXCEPT !.phase = "PermitRequested", !.unit = worker.unit + 1,
                        !.reqEpoch = worker.epoch, !.grantEpoch = 0]
  /\ worker' = [worker EXCEPT !.pc = "await", !.unit = @ + 1]
  /\ UNCHANGED <<prio, wake, pinned>>

AwaitGrant ==
  /\ worker.pc = "await"
  /\ xch.job = worker.job
  /\ \/ /\ xch.phase = "PermitGranted" /\ xch.unit = worker.unit
        /\ xch' = [xch EXCEPT !.phase = "Running"]
        /\ worker' = [worker EXCEPT !.pc = "check", !.epoch = xch.grantEpoch]
     \/ /\ xch.phase = "PermitRequested"
        /\ worker' = [worker EXCEPT !.pc = "waiting"]
        /\ UNCHANGED xch
  /\ UNCHANGED <<prio, wake, pinned>>

\* A grant of another epoch is refused and the unit is asked for again.
CheckGrant ==
  /\ worker.pc = "check"
  /\ worker' = [worker EXCEPT !.pc =
       IF worker.epoch = xch.reqEpoch /\ ExactPriority(worker.epoch) THEN "claim" ELSE "work"]
  /\ UNCHANGED <<exchange, pinned>>

\* mutant: the checks before it are taken to be enough.
ClaimUnchecked ==
  /\ worker.pc = "claim"
  /\ prio' = [prio EXCEPT !.claimed = TRUE]
  /\ worker' = [worker EXCEPT !.pc = "unit"]
  /\ UNCHANGED <<xch, wake, pinned>>

\* claim_priority_unit, the compare-and-swap that decides.
ClaimUnit ==
  /\ worker.pc = "claim"
  /\ IF ExactPriority(worker.epoch)
     THEN /\ prio' = [prio EXCEPT !.claimed = TRUE]
          /\ worker' = [worker EXCEPT !.pc = "unit"]
     ELSE /\ worker' = [worker EXCEPT !.pc = "work"]
          /\ UNCHANGED prio
  /\ UNCHANGED <<xch, wake, pinned>>

\* worker_complete_permitted_unit; a unit that fails ends the operation.
UnitDone ==
  /\ worker.pc = "unit"
  /\ prio' = [prio EXCEPT !.claimed = FALSE]
  /\ \E n \in {0, worker.left - 1} : worker' = [worker EXCEPT !.pc = "work", !.left = n]
  /\ UNCHANGED <<xch, wake, pinned>>

\* acquire_active_read succeeds between two units of a Prepare job.
AcquireLease ==
  /\ worker.pc = "work" /\ worker.kind = "Prepare" /\ ~pinned
  /\ pinned' = TRUE
  /\ UNCHANGED <<exchange, worker>>

Results == {"Done", "Prepared", "Blank", "Unresolved"}

\* The results of each kind of job and whether the store holds the lease after it: a
\* sound that cannot be resolved gives its lease back before the job completes.
Outcome(result) ==
  \/ worker.kind = "Protocol" /\ result = "Done" /\ UNCHANGED pinned
  \/ worker.kind = "Release" /\ result = "Done" /\ pinned' = FALSE
  \/ worker.kind = "Prepare" /\ pinned /\ result = "Prepared" /\ UNCHANGED pinned
  \/ worker.kind = "Prepare" /\ ~pinned /\ result = "Blank" /\ UNCHANGED pinned
  \/ worker.kind = "Prepare" /\ result = "Unresolved" /\ pinned' = FALSE

\* The last part of worker_run_once.
FinishJob ==
  /\ worker.pc = "work" /\ worker.left = 0
  /\ xch.phase = "Running" /\ xch.job = worker.job
  /\ \E result \in Results :
       /\ Outcome(result)
       /\ xch' = [xch EXCEPT !.phase = "Completed", !.result = result]
  /\ worker' = [worker EXCEPT !.pc = "look", !.job = 0]
  /\ UNCHANGED <<prio, wake>>

WorkerStep ==
  /\ \/ Asleep("idle", "look") \/ Asleep("blocked", "work") \/ Asleep("waiting", "await")
     \/ TakeJob \/ ReadEpoch \/ RequestOrWait \/ RequestPermit \/ AwaitGrant
     \/ CheckGrant \/ ClaimUnit \/ UnitDone \/ AcquireLease \/ FinishJob
  /\ UNCHANGED <<stage, bootVars, startupVars, sounding, action, actions, jobs, input, inputs>>

----------------------------------------------------------------------------
(* The platform task: service_speaker, then SpeakerAssetsSupervisor::poll. *)

Init ==
  /\ prio = [allowed |-> FALSE, epoch |-> 0, claimed |-> FALSE]
  /\ xch = NoJob /\ wake = FALSE
  /\ worker = [pc |-> "idle", job |-> 0, kind |-> "None", left |-> 0, unit |-> 0, epoch |-> 0]
  /\ pinned = FALSE
  /\ stage = "resolve"
  /\ boot = "Idle" /\ bootJob = 0 /\ release = FALSE
  /\ startup = "StartLocal" /\ skip = FALSE /\ started = FALSE /\ lease = FALSE /\ quiet = TRUE
  /\ sounding = "no"
  /\ action = 0 /\ actions = 0 /\ jobs = 0
  /\ input = FALSE /\ inputs = 0

\* begin_local, then the Wi-Fi carrier, open the way to the boot sound; a wake-up from
\* deep sleep plays none.
StartServices ==
  /\ \/ startup = "StartLocal" /\ startup' \in {"WaitWifi", "WaitLeaseIdle"}
     \/ startup = "WaitWifi" /\ startup' = "ResolveBoot"
  /\ UNCHANGED <<exchange, jobs, bootVars, skip, started, lease>>

\* ResolveBoot, with take_boot_playback.  Whoever records before the sound is looked up
\* goes without it; after that the lease has to be fetched and given back.
ResolveBoot ==
  /\ startup = "ResolveBoot"
  /\ skip' = (skip \/ ~quiet')
  /\ IF skip' /\ ~started
     THEN /\ startup' = "WaitLeaseIdle"
          /\ UNCHANGED <<exchange, jobs, bootVars, started, lease>>
     ELSE /\ started' = TRUE
          /\ \/ /\ boot = "Idle" /\ StoreIsFree
                /\ Accept("Prepare", 0)
                /\ boot' = "Preparing" /\ bootJob' = NextJob
                /\ UNCHANGED <<startup, lease>>
             \/ /\ boot \in {"Ready", "FactoryDefault"}
                /\ boot' = IF boot = "Ready" THEN "LeaseOutstanding" ELSE "Idle"
                /\ lease' = (boot = "Ready")
                /\ startup' = IF skip' THEN "ReleaseLease" ELSE "BeginOutput"
                /\ UNCHANGED <<xch, wake, jobs, bootJob>>
             \/ /\ boot = "Unavailable"
                /\ boot' = "Idle" /\ startup' = "WaitLeaseIdle"
                /\ UNCHANGED <<xch, wake, jobs, bootJob, lease>>
             \/ /\ boot = "Preparing" \/ (boot = "Idle" /\ ~StoreIsFree)
                /\ UNCHANGED <<xch, wake, jobs, boot, bootJob, startup, lease>>
          /\ UNCHANGED <<prio, release>>

ServiceStart ==
  /\ stage = "resolve"
  /\ stage' = "begin"
  /\ quiet' \in {~input, TRUE}
  /\ \/ StartServices
     \/ ResolveBoot
     \/ /\ startup # "ResolveBoot"
        /\ UNCHANGED <<exchange, jobs, bootVars, startup, skip, started, lease>>
  /\ UNCHANGED sounding

\* BeginOutput: the speaker may fail to start, or refuse the sound and be shut down.
BeginOutput ==
  /\ stage = "begin"
  /\ stage' = "finish"
  /\ IF startup # "BeginOutput" THEN UNCHANGED <<startup, skip, sounding>>
     ELSE \/ /\ startup' = "ReleaseLease" /\ skip' \in {skip, skip \/ ~quiet}
             /\ UNCHANGED sounding
          \/ /\ quiet /\ startup' = "WaitPlayback"
             /\ sounding' = IF lease THEN "asset" ELSE "embedded"
             /\ UNCHANGED skip
          \/ /\ quiet /\ startup' = "ShutdownOutput" /\ sounding' = "stopping"
             /\ UNCHANGED skip
  /\ UNCHANGED <<exchange, jobs, bootVars, started, lease, quiet>>

\* WaitPlayback, ShutdownOutput, ReleaseLease and WaitLeaseIdle follow each other in one call.
\* The lease is given back once the output is silent, through the supervisor's one slot.
FinishStartup ==
  /\ stage = "finish"
  /\ stage' = "publish"
  /\ LET silent == IF startup \in {"WaitPlayback", "ShutdownOutput"} /\ sounding = "no"
                   THEN "ReleaseLease" ELSE startup
         queued == silent = "ReleaseLease" /\ (~lease \/ boot = "LeaseOutstanding")
         idle == IF queued THEN "WaitLeaseIdle" ELSE silent
     IN /\ release' = (release \/ (queued /\ lease))
        /\ lease' = (lease /\ ~queued)
        /\ startup' = IF idle = "WaitLeaseIdle" /\ boot = "Idle" /\ ~release'
                      THEN "Ready" ELSE idle
  /\ UNCHANGED <<exchange, jobs, boot, bootJob, skip, started, quiet, sounding>>

\* speaker_asset_resource_steps_allowed: no input, no recording, no sound.
ResourceStepsAllowed == ~input /\ sounding = "no"

PublishPriority ==
  /\ stage = "publish"
  /\ stage' = "bootjob"
  /\ IF startup = "StartLocal" THEN UNCHANGED <<prio, wake>> ELSE Publish(ResourceStepsAllowed)
  /\ UNCHANGED <<xch, jobs, bootVars, startupVars, sounding>>

\* poll_prepare_boot_read and poll_release_read
PollPrepare ==
  /\ boot = "Preparing" /\ HandleMatches("Prepare")
  /\ IF xch.phase = "Completed"
     THEN /\ Reset
          /\ bootJob' = 0
          /\ boot' = CASE xch.result = "Blank" -> "FactoryDefault"
                       [] xch.result = "Prepared" -> "Ready"
                       [] xch.result = "Unresolved" -> "Unavailable"
     ELSE Grant /\ UNCHANGED <<boot, bootJob>>
  /\ UNCHANGED <<jobs, release>>

StartRelease ==
  /\ boot = "LeaseOutstanding" /\ release
  /\ IF StoreIsFree
     THEN /\ Accept("Release", 0)
          /\ boot' = "ReleasePending" /\ bootJob' = NextJob
     ELSE UNCHANGED <<xch, wake, jobs, boot, bootJob>>
  /\ UNCHANGED release

\* The retry of a failed release is left out: release_read refuses only a lease that the store
\* does not hold (sound_asset_store.cpp:2103), and the boot lease is held until its release.
PollRelease ==
  /\ boot = "ReleasePending" /\ HandleMatches("Release")
  /\ IF xch.phase = "Completed"
     THEN Reset /\ boot' = "Idle" /\ bootJob' = 0 /\ release' = FALSE
     ELSE Grant /\ UNCHANGED <<boot, bootJob, release>>
  /\ UNCHANGED jobs

AdvanceBootReadJob ==
  /\ stage = "bootjob"
  /\ stage' = "core"
  /\ \/ PollPrepare \/ StartRelease \/ PollRelease
     \/ /\ boot \notin {"Preparing", "ReleasePending"}
        /\ ~(boot = "LeaseOutstanding" /\ release)
        /\ UNCHANGED <<xch, wake, jobs, bootVars>>
  /\ UNCHANGED <<prio, startupVars, sounding, action, actions>>

\* mutant: the core steps whatever the boot job does.
CoreAlwaysSteps == startup # "StartLocal"

\* The boot job has the store to itself: no core step runs beside it.
CoreMayStep == startup # "StartLocal" /\ boot = "Idle"

\* Runtime admits a new action; while input has priority it answers PausedForInput instead.
QueueAction ==
  /\ CoreMayStep /\ prio.allowed /\ action = 0 /\ actions < MaxActions
  /\ action' = actions + 1 /\ actions' = actions + 1
  /\ UNCHANGED <<xch, wake, jobs, stage>>

\* step, the executor entry: accept, grant one unit, or collect the completion.
ExecutorStep ==
  /\ CoreMayStep /\ prio.allowed /\ action # 0
  /\ UNCHANGED actions
  /\ \/ /\ StoreIsFree
        /\ Accept("Protocol", action)
        /\ stage' = "resolve" /\ UNCHANGED action
     \/ /\ ActionMatches /\ xch.phase = "Completed"
        /\ Reset
        /\ action' = 0 /\ UNCHANGED <<jobs, stage>>
     \/ /\ ActionMatches /\ xch.phase # "Completed"
        /\ Grant
        /\ stage' = "resolve" /\ UNCHANGED <<action, jobs>>

RunCoreSteps ==
  /\ stage = "core"
  /\ \/ QueueAction
     \/ ExecutorStep
     \/ /\ ~CoreMayStep \/ ~prio.allowed \/ action = 0
        /\ stage' = "resolve"
        /\ UNCHANGED <<xch, wake, jobs, action, actions>>
  /\ UNCHANGED <<prio, bootVars, startupVars, sounding>>

PlatformStep ==
  /\ \/ /\ ServiceStart \/ BeginOutput \/ FinishStartup \/ PublishPriority
        /\ UNCHANGED <<action, actions>>
     \/ AdvanceBootReadJob
     \/ RunCoreSteps
  /\ UNCHANGED <<worker, pinned, input, inputs>>

----------------------------------------------------------------------------
(* The world: keys and recordings, and a sound that ends by itself. *)

InputChanges ==
  /\ inputs < MaxInputs
  /\ input' = ~input /\ inputs' = inputs + 1
  /\ UNCHANGED <<exchange, worker, pinned, stage, bootVars, startupVars, sounding,
                 action, actions, jobs>>

SoundEnds ==
  /\ sounding # "no"
  /\ sounding' = "no"
  /\ UNCHANGED <<exchange, worker, pinned, stage, bootVars, startupVars,
                 action, actions, jobs, input, inputs>>

Next == PlatformStep \/ WorkerStep \/ InputChanges \/ SoundEnds

Spec == Init /\ [][Next]_vars

\* Both tasks keep being scheduled, the services come up and a sound ends.
Fairness ==
  /\ WF_vars(PlatformStep) /\ WF_vars(WorkerStep) /\ WF_vars(SoundEnds)

FairSpec == Spec /\ Fairness

----------------------------------------------------------------------------
(* Properties. *)

Priorities == [allowed : BOOLEAN, epoch : Nat, claimed : BOOLEAN]
Exchanges ==
  [phase : Phases, kind : Kinds, job : Nat, action : Nat, unit : Nat, reqEpoch : Nat,
   grantEpoch : Nat, result : Results \cup {"None"}]
Places == {"idle", "look", "work", "exact", "blocked", "request", "await", "waiting",
           "check", "claim", "unit"}
Workers == [pc : Places, job : Nat, kind : Kinds, left : Nat, unit : Nat, epoch : Nat]

\* Types of the exchange, the two tasks and the boot job (speaker_assets_flash_runner.h).
TypeOK ==
  /\ prio \in Priorities /\ xch \in Exchanges /\ worker \in Workers
  /\ wake \in BOOLEAN /\ pinned \in BOOLEAN
  /\ stage \in {"resolve", "begin", "finish", "publish", "bootjob", "core"}
  /\ boot \in {"Idle", "Preparing", "Ready", "FactoryDefault", "Unavailable",
               "LeaseOutstanding", "ReleasePending"}
  /\ bootJob \in Nat /\ release \in BOOLEAN
  /\ startup \in {"StartLocal", "WaitWifi", "ResolveBoot", "BeginOutput", "WaitPlayback",
                  "ShutdownOutput", "ReleaseLease", "WaitLeaseIdle", "Ready"}
  /\ skip \in BOOLEAN /\ started \in BOOLEAN /\ lease \in BOOLEAN /\ quiet \in BOOLEAN
  /\ sounding \in {"no", "asset", "embedded", "stopping"}
  /\ action \in Nat /\ actions \in Nat /\ jobs \in Nat
  /\ input \in BOOLEAN /\ inputs \in Nat

\* A Flash unit starts only while the permission stands, in the same period of permission
\* in which it was asked for and granted: a key pressed between grant and start, even if
\* released again, stops it (the epoch and the claim of worker_claim_permit).
NoUnitAgainstInput ==
  [][worker.pc # "unit" /\ worker'.pc = "unit" =>
       /\ prio.allowed /\ prio'.claimed
       /\ xch.grantEpoch = prio.epoch /\ xch.reqEpoch = prio.epoch
       /\ xch.unit = worker.unit]_vars

\* A job in the exchange belongs to the worker that runs it and to the one party that waits
\* for it: the core's pending action or the boot job's handle.  Nobody collects, resets or
\* replaces a job of another (step, poll_prepare_boot_read, poll_release_read).
JobHasOneOwner ==
  /\ worker.job # 0 => xch.job = worker.job /\ xch.kind = worker.kind
                       /\ xch.phase \in {"Running", "PermitRequested", "PermitGranted"}
  /\ xch.phase \notin {"Idle", "Accepted", "Completed"} => worker.job = xch.job
  /\ xch.kind = "Protocol" => xch.action = action /\ action # 0
  /\ (boot = "Preparing") = (xch.kind = "Prepare")
  /\ (boot = "ReleasePending") = (xch.kind = "Release")
  /\ boot \in {"Preparing", "ReleasePending"} => xch.job = bootJob

\* "A protocol update must never overtake a playback bank that may still be pinned": while
\* the store holds the boot sound's lease no protocol action is in the exchange, and the
\* lease is held for as long as the sound is read.
UpdateNeverOvertakesPlayback ==
  /\ pinned => xch.kind # "Protocol"
  /\ sounding = "asset" => pinned /\ ~release

\* Whatever input does in between, once it leaves the keyboard alone every job handed to
\* the worker is collected, and startup ends with the boot sound's lease back in the store:
\* no wake-up is lost between permission, grant and completion.
WorkFinishes ==
  <>[]~input =>
    /\ (xch.phase # "Idle") ~> (xch.phase = "Idle")
    /\ (startup = "ResolveBoot") ~> (startup = "Ready" /\ ~pinned)
=============================================================================
