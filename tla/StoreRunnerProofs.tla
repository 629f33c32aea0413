---------------------------- MODULE StoreRunnerProofs ----------------------------
(***************************************************************************)
(* For any number of units, actions and changes of input: there is one job *)
(* and everybody agrees on it, no update reaches the store while the boot  *)
(* sound's lease is held, and no Flash unit starts against input.  The     *)
(* invariant says for each place of the worker what the exchange holds,    *)
(* and for each state of the boot read whether the store holds the lease.  *)
(***************************************************************************)
EXTENDS StoreRunner, TLAPS

Runs == {"work", "exact", "blocked", "request", "check", "claim", "unit"}
Waits == {"await", "waiting"}

\* Where the worker is, and what that says of the exchange.
WorkerInv ==
  /\ worker.pc \in {"idle", "look"} <=> worker.job = 0
  /\ worker.pc \in Runs => xch.phase = "Running"
  /\ worker.pc \in Waits => /\ xch.phase \in {"PermitRequested", "PermitGranted"}
                            /\ xch.unit = worker.unit
  /\ worker.pc \in Runs \cup Waits => worker.pc = "work" \/ worker.left > 0
  /\ worker.pc \in {"check", "claim"} =>
       worker.epoch = xch.grantEpoch /\ xch.unit = worker.unit
  /\ worker.pc = "claim" => worker.epoch = xch.reqEpoch

\* A job has a kind, a number and, once completed, a result of its kind.
JobInv ==
  /\ xch.phase = "Idle" <=> xch.kind = "None"
  /\ xch.phase # "Idle" => xch.job # 0
  /\ xch.phase = "Completed" /\ xch.kind = "Prepare" =>
       /\ xch.result \in {"Prepared", "Blank", "Unresolved"}
       /\ pinned <=> xch.result = "Prepared"
  /\ xch.phase = "Completed" /\ xch.kind = "Release" => ~pinned

\* Who holds the boot sound's lease, and that it outlives the sound.
LeaseInv ==
  /\ boot \in {"Idle", "FactoryDefault", "Unavailable"} => ~pinned
  /\ boot \in {"Ready", "LeaseOutstanding"} => pinned
  /\ boot # "Idle" => xch.kind # "Protocol"
  /\ release => boot \in {"LeaseOutstanding", "ReleasePending"}
  /\ lease => boot = "LeaseOutstanding" /\ ~release
  /\ sounding = "asset" => startup = "WaitPlayback" /\ lease

StoreInv == TypeOK /\ JobHasOneOwner /\ WorkerInv /\ JobInv /\ LeaseInv

\* What the invariant says of updates and the boot sound.
LEMMA InvSeparates ==
  ASSUME StoreInv
  PROVE  UpdateNeverOvertakesPlayback
BY DEF StoreInv, LeaseInv, UpdateNeverOvertakesPlayback

LEMMA InitInv == Init => StoreInv
<1> SUFFICES ASSUME Init PROVE StoreInv
  OBVIOUS
<1>1. TypeOK
  BY DEF Init, TypeOK, NoJob, Phases, Kinds, Priorities, Exchanges, Results, Places, Workers
<1>2. JobHasOneOwner /\ JobInv
  BY DEF Init, JobHasOneOwner, JobInv, NoJob
<1>3. WorkerInv
  BY DEF Init, WorkerInv, NoJob, Runs, Waits
<1>4. LeaseInv
  BY DEF Init, LeaseInv, NoJob
<1> QED
  BY <1>1, <1>2, <1>3, <1>4 DEF StoreInv

-----------------------------------------------------------------------------
(* The worker's steps. *)

WorkerFrame ==
  UNCHANGED <<stage, bootVars, startupVars, sounding, action, actions, jobs, input, inputs>>

LEMMA AsleepKeeps ==
  ASSUME StoreInv, WorkerFrame, NEW at, NEW again,
         <<at, again>> \in {<<"idle", "look">>, <<"blocked", "work">>, <<"waiting", "await">>},
         Asleep(at, again)
  PROVE  StoreInv'
<1> USE DEF StoreInv, Asleep, WorkerFrame, bootVars, startupVars, exchange, Runs, Waits
<1>1. TypeOK'
  <2>1. worker' \in Workers
    BY DEF TypeOK, Workers, Places
  <2>2. wake' \in BOOLEAN /\ UNCHANGED <<prio, xch, pinned>>
    OBVIOUS
  <2> QED
    BY <2>1, <2>2 DEF TypeOK
<1>2. JobHasOneOwner'
  BY DEF TypeOK, Workers, Exchanges, JobHasOneOwner, WorkerInv
<1>3. WorkerInv'
  BY DEF TypeOK, Workers, Exchanges, JobHasOneOwner, WorkerInv, JobInv
<1>4. JobInv'
  BY DEF TypeOK, Workers, Exchanges, JobHasOneOwner, WorkerInv, JobInv
<1>5. LeaseInv'
  BY DEF TypeOK, Workers, Exchanges, JobHasOneOwner, WorkerInv, LeaseInv
<1> QED
  BY <1>1, <1>2, <1>3, <1>4, <1>5

LEMMA TakeJobKeeps ==
  ASSUME StoreInv, TakeJob, WorkerFrame
  PROVE  StoreInv'
<1> USE DEF StoreInv, TakeJob, WorkerFrame, bootVars, startupVars, exchange, Runs, Waits
<1>1. TypeOK'
  <2>1. worker' \in Workers
    BY BoundsAreNaturals DEF TypeOK, WorkerInv, Workers, Places, Exchanges, Priorities
  <2>2. xch' \in Exchanges /\ prio' \in Priorities
    BY DEF TypeOK, Workers, Exchanges, Phases, Priorities
  <2> QED
    BY <2>1, <2>2 DEF TypeOK
<1>2. JobHasOneOwner'
  BY DEF TypeOK, Workers, Exchanges, JobHasOneOwner, WorkerInv
<1>3. WorkerInv'
  BY DEF TypeOK, Workers, Exchanges, JobHasOneOwner, WorkerInv, JobInv
<1>4. JobInv'
  BY DEF TypeOK, Workers, Exchanges, JobHasOneOwner, WorkerInv, JobInv
<1>5. LeaseInv'
  BY DEF TypeOK, Workers, Exchanges, JobHasOneOwner, WorkerInv, LeaseInv
<1> QED
  BY <1>1, <1>2, <1>3, <1>4, <1>5

LEMMA ReadEpochKeeps ==
  ASSUME StoreInv, ReadEpoch, WorkerFrame
  PROVE  StoreInv'
<1> USE DEF StoreInv, ReadEpoch, WorkerFrame, bootVars, startupVars, exchange, Runs, Waits
<1>1. TypeOK'
  <2>1. worker' \in Workers
    BY DEF TypeOK, WorkerInv, Workers, Places, Exchanges, Priorities
  <2>2. xch' \in Exchanges /\ prio' \in Priorities
    BY DEF TypeOK, Workers, Exchanges, Phases, Priorities
  <2> QED
    BY <2>1, <2>2 DEF TypeOK
<1>2. JobHasOneOwner'
  BY DEF TypeOK, Workers, Exchanges, JobHasOneOwner, WorkerInv
<1>3. WorkerInv'
  BY DEF TypeOK, Workers, Exchanges, JobHasOneOwner, WorkerInv, JobInv
<1>4. JobInv'
  BY DEF TypeOK, Workers, Exchanges, JobHasOneOwner, WorkerInv, JobInv
<1>5. LeaseInv'
  BY DEF TypeOK, Workers, Exchanges, JobHasOneOwner, WorkerInv, LeaseInv
<1> QED
  BY <1>1, <1>2, <1>3, <1>4, <1>5

LEMMA RequestOrWaitKeeps ==
  ASSUME StoreInv, RequestOrWait, WorkerFrame
  PROVE  StoreInv'
<1> USE DEF StoreInv, RequestOrWait, ExactPriority, WorkerFrame, bootVars, startupVars, exchange, Runs, Waits
<1>1. TypeOK'
  <2>1. worker' \in Workers
    BY DEF TypeOK, WorkerInv, Workers, Places, Exchanges, Priorities
  <2>2. xch' \in Exchanges /\ prio' \in Priorities
    BY DEF TypeOK, Workers, Exchanges, Phases, Priorities
  <2> QED
    BY <2>1, <2>2 DEF TypeOK
<1>2. JobHasOneOwner'
  BY DEF TypeOK, Workers, Exchanges, JobHasOneOwner, WorkerInv
<1>3. WorkerInv'
  BY DEF TypeOK, Workers, Exchanges, JobHasOneOwner, WorkerInv, JobInv
<1>4. JobInv'
  BY DEF TypeOK, Workers, Exchanges, JobHasOneOwner, WorkerInv, JobInv
<1>5. LeaseInv'
  BY DEF TypeOK, Workers, Exchanges, JobHasOneOwner, WorkerInv, LeaseInv
<1> QED
  BY <1>1, <1>2, <1>3, <1>4, <1>5

LEMMA RequestPermitKeeps ==
  ASSUME StoreInv, RequestPermit, WorkerFrame
  PROVE  StoreInv'
<1> USE DEF StoreInv, RequestPermit, WorkerFrame, bootVars, startupVars, exchange, Runs, Waits
<1>1. TypeOK'
  <2>1. worker.unit + 1 \in Nat /\ worker.epoch \in Nat
    BY DEF TypeOK, Workers
  <2>2. worker' \in Workers
    BY <2>1 DEF TypeOK, Workers, Places
  <2>3. xch' \in Exchanges
    BY <2>1 DEF TypeOK, Exchanges, Phases
  <2> QED
    BY <2>2, <2>3 DEF TypeOK
<1>2. JobHasOneOwner'
  BY DEF TypeOK, Workers, Exchanges, JobHasOneOwner, WorkerInv
<1>3. WorkerInv'
  BY DEF TypeOK, Workers, Exchanges, JobHasOneOwner, WorkerInv, JobInv
<1>4. JobInv'
  BY DEF TypeOK, Workers, Exchanges, JobHasOneOwner, WorkerInv, JobInv
<1>5. LeaseInv'
  BY DEF TypeOK, Workers, Exchanges, JobHasOneOwner, WorkerInv, LeaseInv
<1> QED
  BY <1>1, <1>2, <1>3, <1>4, <1>5

LEMMA AwaitGrantKeeps ==
  ASSUME StoreInv, AwaitGrant, WorkerFrame
  PROVE  StoreInv'
<1> USE DEF StoreInv, AwaitGrant, WorkerFrame, bootVars, startupVars, exchange, Runs, Waits
<1>1. TypeOK'
  <2>1. worker' \in Workers
    BY ZenonT(60) DEF TypeOK, WorkerInv, Workers, Places, Exchanges, Priorities
  <2>2. xch' \in Exchanges /\ prio' \in Priorities
    BY DEF TypeOK, Workers, Exchanges, Phases, Priorities
  <2> QED
    BY <2>1, <2>2 DEF TypeOK
<1>2. JobHasOneOwner'
  BY ZenonT(60) DEF TypeOK, Workers, Exchanges, JobHasOneOwner, WorkerInv
<1>3. WorkerInv'
  <2>1. CASE xch.phase = "PermitGranted" /\ xch.unit = worker.unit
    BY <2>1, ZenonT(60) DEF TypeOK, Workers, Exchanges, WorkerInv
  <2>2. CASE xch.phase = "PermitRequested"
    BY <2>2 DEF TypeOK, Workers, Exchanges, WorkerInv
  <2> QED
    BY <2>1, <2>2
<1>4. JobInv'
  BY DEF TypeOK, Workers, Exchanges, JobHasOneOwner, WorkerInv, JobInv
<1>5. LeaseInv'
  BY DEF TypeOK, Workers, Exchanges, JobHasOneOwner, WorkerInv, LeaseInv
<1> QED
  BY <1>1, <1>2, <1>3, <1>4, <1>5

LEMMA CheckGrantKeeps ==
  ASSUME StoreInv, CheckGrant, WorkerFrame
  PROVE  StoreInv'
<1> USE DEF StoreInv, CheckGrant, ExactPriority, WorkerFrame, bootVars, startupVars, exchange, Runs, Waits
<1>1. TypeOK'
  <2>1. worker' \in Workers
    BY DEF TypeOK, WorkerInv, Workers, Places, Exchanges, Priorities
  <2>2. xch' \in Exchanges /\ prio' \in Priorities
    BY DEF TypeOK, Workers, Exchanges, Phases, Priorities
  <2> QED
    BY <2>1, <2>2 DEF TypeOK
<1>2. JobHasOneOwner'
  BY DEF TypeOK, Workers, Exchanges, JobHasOneOwner, WorkerInv
<1>3. WorkerInv'
  BY DEF TypeOK, Workers, Exchanges, JobHasOneOwner, WorkerInv, JobInv
<1>4. JobInv'
  BY DEF TypeOK, Workers, Exchanges, JobHasOneOwner, WorkerInv, JobInv
<1>5. LeaseInv'
  BY DEF TypeOK, Workers, Exchanges, JobHasOneOwner, WorkerInv, LeaseInv
<1> QED
  BY <1>1, <1>2, <1>3, <1>4, <1>5

LEMMA ClaimUnitKeeps ==
  ASSUME StoreInv, ClaimUnit, WorkerFrame
  PROVE  StoreInv'
<1> USE DEF StoreInv, ClaimUnit, ExactPriority, WorkerFrame, bootVars, startupVars, exchange, Runs, Waits
<1>1. TypeOK'
  <2>1. worker' \in Workers
    BY DEF TypeOK, WorkerInv, Workers, Places, Exchanges, Priorities
  <2>2. xch' \in Exchanges /\ prio' \in Priorities
    BY ZenonT(60) DEF TypeOK, Workers, Exchanges, Phases, Priorities
  <2> QED
    BY <2>1, <2>2 DEF TypeOK
<1>2. JobHasOneOwner'
  BY DEF TypeOK, Workers, Exchanges, JobHasOneOwner, WorkerInv
<1>3. WorkerInv'
  BY DEF TypeOK, Workers, Exchanges, JobHasOneOwner, WorkerInv, JobInv
<1>4. JobInv'
  BY DEF TypeOK, Workers, Exchanges, JobHasOneOwner, WorkerInv, JobInv
<1>5. LeaseInv'
  BY DEF TypeOK, Workers, Exchanges, JobHasOneOwner, WorkerInv, LeaseInv
<1> QED
  BY <1>1, <1>2, <1>3, <1>4, <1>5

LEMMA UnitDoneKeeps ==
  ASSUME StoreInv, UnitDone, WorkerFrame
  PROVE  StoreInv'
<1> USE DEF StoreInv, UnitDone, WorkerFrame, bootVars, startupVars, exchange, Runs, Waits
<1>1. TypeOK'
  <2>1. worker.left \in Nat /\ worker.left > 0
    BY DEF TypeOK, Workers, WorkerInv
  <2>2. PICK n \in {0, worker.left - 1} : worker' = [worker EXCEPT !.pc = "work", !.left = n]
    OBVIOUS
  <2>3. n \in Nat
    BY <2>1, <2>2
  <2>4. worker' \in Workers
    BY <2>2, <2>3 DEF TypeOK, Workers, Places
  <2>5. prio' \in Priorities
    BY DEF TypeOK, Priorities
  <2> QED
    BY <2>4, <2>5 DEF TypeOK
<1>2. JobHasOneOwner'
  BY DEF TypeOK, Workers, Exchanges, JobHasOneOwner, WorkerInv
<1>3. WorkerInv'
  BY DEF TypeOK, Workers, Exchanges, JobHasOneOwner, WorkerInv, JobInv
<1>4. JobInv'
  BY DEF TypeOK, Workers, Exchanges, JobHasOneOwner, WorkerInv, JobInv
<1>5. LeaseInv'
  BY DEF TypeOK, Workers, Exchanges, JobHasOneOwner, WorkerInv, LeaseInv
<1> QED
  BY <1>1, <1>2, <1>3, <1>4, <1>5

LEMMA AcquireLeaseKeeps ==
  ASSUME StoreInv, AcquireLease, WorkerFrame
  PROVE  StoreInv'
<1> USE DEF StoreInv, AcquireLease, WorkerFrame, bootVars, startupVars, exchange, Runs, Waits
<1>1. TypeOK'
  BY DEF TypeOK
<1>2. JobHasOneOwner'
  BY DEF TypeOK, Workers, Exchanges, JobHasOneOwner, WorkerInv
<1>3. WorkerInv'
  BY DEF TypeOK, Workers, Exchanges, JobHasOneOwner, WorkerInv, JobInv
<1>4. JobInv'
  BY DEF TypeOK, Workers, Exchanges, JobHasOneOwner, WorkerInv, JobInv
<1>5. LeaseInv'
  BY DEF TypeOK, Workers, Exchanges, JobHasOneOwner, WorkerInv, LeaseInv
<1> QED
  BY <1>1, <1>2, <1>3, <1>4, <1>5

LEMMA FinishJobKeeps ==
  ASSUME StoreInv, FinishJob, WorkerFrame
  PROVE  StoreInv'
<1> USE DEF StoreInv, FinishJob, WorkerFrame, bootVars, startupVars, exchange, Runs, Waits
<1>a. PICK result \in Results :
         Outcome(result) /\ xch' = [xch EXCEPT !.phase = "Completed", !.result = result]
  OBVIOUS
<1>b. worker.job # 0 /\ xch.kind = worker.kind /\ worker.kind # "None"
  BY DEF TypeOK, Workers, Exchanges, WorkerInv, JobHasOneOwner, JobInv
<1>1. TypeOK'
  <2>1. worker' \in Workers
    BY DEF TypeOK, Workers, Places
  <2>2. xch' \in Exchanges
    BY <1>a DEF TypeOK, Exchanges, Phases
  <2>3. pinned' \in BOOLEAN
    BY <1>a DEF TypeOK, Outcome
  <2> QED
    BY <2>1, <2>2, <2>3 DEF TypeOK
<1>2. JobHasOneOwner'
  BY <1>a, <1>b DEF Outcome, Results, TypeOK, Workers, Exchanges, JobHasOneOwner, WorkerInv
<1>3. WorkerInv'
  BY <1>a, <1>b DEF Outcome, Results, TypeOK, Workers, Exchanges, JobHasOneOwner, WorkerInv, JobInv
<1>4. JobInv'
  BY <1>a, <1>b DEF Outcome, Results, TypeOK, Workers, Exchanges, JobHasOneOwner, WorkerInv, JobInv
<1>5. LeaseInv'
  BY <1>a, <1>b DEF Outcome, Results, TypeOK, Workers, Exchanges, JobHasOneOwner, WorkerInv, LeaseInv
<1> QED
  BY <1>1, <1>2, <1>3, <1>4, <1>5

-----------------------------------------------------------------------------
(* The platform task's steps: what accepting, granting and collecting do.  *)

LEMMA AcceptedJob ==
  ASSUME StoreInv, StoreIsFree, UNCHANGED worker,
         NEW k \in Kinds \ {"None"}, NEW a \in Nat, Accept(k, a)
  PROVE  /\ xch' \in Exchanges /\ wake' = TRUE /\ jobs' \in Nat
         /\ xch'.phase = "Accepted" /\ xch'.kind = k /\ xch'.action = a
         /\ xch'.job = NextJob /\ NextJob \in Nat \ {0}
         /\ xch.kind = "None" /\ worker.job = 0 /\ WorkerInv'
<1> USE DEF StoreInv, StoreIsFree
<1>1. NextJob \in Nat \ {0} /\ jobs' \in Nat
  BY DEF TypeOK, NextJob, Accept
<1>2. /\ xch' \in Exchanges /\ xch'.phase = "Accepted" /\ xch'.kind = k
      /\ xch'.action = a /\ xch'.job = NextJob
  BY <1>1 DEF Accept, NoJob, Exchanges, Phases, Results
<1>3. xch.kind = "None" /\ worker.job = 0
  BY DEF TypeOK, Exchanges, Workers, JobHasOneOwner, JobInv
<1>4. WorkerInv'
  BY <1>3 DEF WorkerInv, Runs, Waits
<1> QED
  BY <1>1, <1>2, <1>3, <1>4 DEF Accept

LEMMA GrantedJob ==
  ASSUME StoreInv, Grant, UNCHANGED worker
  PROVE  /\ xch' \in Exchanges /\ wake' \in BOOLEAN /\ WorkerInv'
         /\ xch'.kind = xch.kind /\ xch'.job = xch.job /\ xch'.action = xch.action
         /\ \/ xch' = xch
            \/ xch.phase = "PermitRequested" /\ xch'.phase = "PermitGranted"
<1> USE DEF StoreInv
<1>1. CASE xch.phase = "PermitRequested" /\ prio.allowed
  <2>1. prio.epoch \in Nat
    BY DEF TypeOK, Priorities
  <2>2. xch' = [xch EXCEPT !.phase = "PermitGranted", !.grantEpoch = prio.epoch] /\ wake' = TRUE
    BY <1>1 DEF Grant
  <2>3. xch' \in Exchanges
    BY <2>1, <2>2 DEF TypeOK, Exchanges, Phases
  <2>4. /\ xch'.phase = "PermitGranted" /\ xch'.unit = xch.unit /\ xch'.kind = xch.kind
        /\ xch'.job = xch.job /\ xch'.action = xch.action
    BY <2>2 DEF TypeOK, Exchanges
  <2>5. WorkerInv'
    BY <1>1, <2>4 DEF TypeOK, Workers, Exchanges, WorkerInv, Runs, Waits
  <2> QED
    BY <1>1, <2>2, <2>3, <2>4, <2>5
<1>2. CASE ~(xch.phase = "PermitRequested" /\ prio.allowed)
  BY <1>2 DEF Grant, TypeOK, WorkerInv
<1> QED
  BY <1>1, <1>2

LEMMA CollectedJob ==
  ASSUME StoreInv, xch.phase = "Completed", Reset, UNCHANGED worker
  PROVE  /\ xch' = NoJob /\ xch' \in Exchanges /\ wake' \in BOOLEAN /\ WorkerInv'
         /\ worker.job = 0
<1> USE DEF StoreInv
<1>1. xch' = NoJob /\ xch' \in Exchanges /\ UNCHANGED wake
  BY DEF Reset, NoJob, Exchanges, Phases, Kinds, Results
<1>2. worker.job = 0
  BY DEF TypeOK, Workers, Exchanges, JobHasOneOwner
<1>3. WorkerInv'
  BY <1>2 DEF TypeOK, Workers, WorkerInv, Runs, Waits
<1> QED
  BY <1>1, <1>2, <1>3 DEF TypeOK

-----------------------------------------------------------------------------
(* The startup, the priority and the jobs. *)

PlatformFrame == UNCHANGED <<worker, pinned, input, inputs>>

LEMMA ServiceStartKeeps ==
  ASSUME StoreInv, ServiceStart, PlatformFrame, UNCHANGED <<action, actions>>
  PROVE  StoreInv'
<1> USE DEF StoreInv, ServiceStart, PlatformFrame, exchange, bootVars
<1>1. stage' = "begin" /\ quiet' \in BOOLEAN /\ UNCHANGED sounding
  BY DEF TypeOK
<1>2. CASE StartServices
  <2>1. startup' \in {"WaitWifi", "WaitLeaseIdle", "ResolveBoot"}
        /\ startup \in {"StartLocal", "WaitWifi"}
    BY <1>2 DEF StartServices
  <2>2. TypeOK' /\ WorkerInv'
    BY <1>1, <1>2, <2>1 DEF StartServices, TypeOK, WorkerInv
  <2>3. JobHasOneOwner' /\ JobInv' /\ LeaseInv'
    BY <1>1, <1>2, <2>1 DEF StartServices, JobHasOneOwner, JobInv, LeaseInv
  <2> QED
    BY <2>2, <2>3
<1>3. CASE ResolveBoot
  <2>1. startup = "ResolveBoot" /\ skip' \in BOOLEAN
    BY <1>1, <1>3 DEF ResolveBoot, TypeOK
  <2>2. CASE skip' /\ ~started
    <3>1. startup' = "WaitLeaseIdle" /\ UNCHANGED <<exchange, jobs, bootVars, started, lease>>
      BY <1>3, <2>2 DEF ResolveBoot
    <3>2. TypeOK' /\ WorkerInv'
      BY <1>1, <2>1, <3>1 DEF TypeOK, WorkerInv
    <3>3. JobHasOneOwner' /\ JobInv' /\ LeaseInv'
      BY <1>1, <2>1, <3>1 DEF JobHasOneOwner, JobInv, LeaseInv
    <3> QED
      BY <3>2, <3>3
  <2>3. CASE /\ boot = "Idle" /\ StoreIsFree
             /\ Accept("Prepare", 0)
             /\ boot' = "Preparing" /\ bootJob' = NextJob
             /\ started' = TRUE /\ UNCHANGED <<startup, lease, prio, release>>
    <3>1. /\ xch' \in Exchanges /\ wake' = TRUE /\ jobs' \in Nat
          /\ xch'.phase = "Accepted" /\ xch'.kind = "Prepare" /\ xch'.action = 0
          /\ xch'.job = NextJob /\ NextJob \in Nat \ {0}
          /\ xch.kind = "None" /\ worker.job = 0 /\ WorkerInv'
      BY <2>3, AcceptedJob DEF Kinds
    <3>2. TypeOK'
      BY <1>1, <2>1, <2>3, <3>1 DEF TypeOK
    <3>3. JobHasOneOwner' /\ JobInv'
      BY <2>3, <3>1 DEF JobHasOneOwner, JobInv
    <3>4. LeaseInv'
      BY <1>1, <2>1, <2>3, <3>1 DEF LeaseInv
    <3> QED
      BY <3>1, <3>2, <3>3, <3>4
  <2>4. CASE /\ boot \in {"Ready", "FactoryDefault"}
             /\ boot' = IF boot = "Ready" THEN "LeaseOutstanding" ELSE "Idle"
             /\ lease' = (boot = "Ready")
             /\ startup' = IF skip' THEN "ReleaseLease" ELSE "BeginOutput"
             /\ started' = TRUE /\ UNCHANGED <<xch, wake, jobs, bootJob, prio, release>>
    <3>1. TypeOK' /\ WorkerInv'
      BY <1>1, <2>1, <2>4 DEF TypeOK, WorkerInv
    <3>2. JobHasOneOwner' /\ JobInv'
      BY <2>4 DEF JobHasOneOwner, JobInv
    <3>3. LeaseInv'
      BY <1>1, <2>1, <2>4 DEF LeaseInv
    <3> QED
      BY <3>1, <3>2, <3>3
  <2>5. CASE /\ boot = "Unavailable"
             /\ boot' = "Idle" /\ startup' = "WaitLeaseIdle"
             /\ started' = TRUE /\ UNCHANGED <<xch, wake, jobs, bootJob, lease, prio, release>>
    <3>1. TypeOK' /\ WorkerInv'
      BY <1>1, <2>1, <2>5 DEF TypeOK, WorkerInv
    <3>2. JobHasOneOwner' /\ JobInv' /\ LeaseInv'
      BY <1>1, <2>1, <2>5 DEF JobHasOneOwner, JobInv, LeaseInv
    <3> QED
      BY <3>1, <3>2
  <2>6. CASE started' = TRUE /\ UNCHANGED <<xch, wake, jobs, boot, bootJob, startup, lease, prio, release>>
    <3>1. TypeOK' /\ WorkerInv'
      BY <1>1, <2>1, <2>6 DEF TypeOK, WorkerInv
    <3>2. JobHasOneOwner' /\ JobInv' /\ LeaseInv'
      BY <1>1, <2>1, <2>6 DEF JobHasOneOwner, JobInv, LeaseInv
    <3> QED
      BY <3>1, <3>2
  <2> QED
    BY <1>3, <2>2, <2>3, <2>4, <2>5, <2>6 DEF ResolveBoot
<1>4. CASE UNCHANGED <<exchange, jobs, bootVars, startup, skip, started, lease>>
  <2>1. TypeOK' /\ WorkerInv'
    BY <1>1, <1>4 DEF TypeOK, WorkerInv
  <2>2. JobHasOneOwner' /\ JobInv' /\ LeaseInv'
    BY <1>1, <1>4 DEF JobHasOneOwner, JobInv, LeaseInv
  <2> QED
    BY <2>1, <2>2
<1> QED
  BY <1>2, <1>3, <1>4

LEMMA BeginOutputKeeps ==
  ASSUME StoreInv, BeginOutput, PlatformFrame, UNCHANGED <<action, actions>>
  PROVE  StoreInv'
<1> USE DEF StoreInv, BeginOutput, PlatformFrame, exchange, bootVars
<1>1. TypeOK' /\ WorkerInv'
  <2>1. startup' \in {startup, "ReleaseLease", "WaitPlayback", "ShutdownOutput"}
        /\ sounding' \in {sounding, "asset", "embedded", "stopping"}
    OBVIOUS
  <2>2. skip' \in {skip, skip \/ ~quiet} /\ skip \in BOOLEAN /\ quiet \in BOOLEAN
    BY DEF TypeOK
  <2>3. skip' \in BOOLEAN
    BY <2>2
  <2> QED
    BY <2>1, <2>3 DEF TypeOK, WorkerInv
<1>2. JobHasOneOwner' /\ JobInv'
  BY DEF JobHasOneOwner, JobInv
<1>3. LeaseInv'
  BY DEF LeaseInv
<1> QED
  BY <1>1, <1>2, <1>3

LEMMA FinishStartupKeeps ==
  ASSUME StoreInv, FinishStartup, PlatformFrame, UNCHANGED <<action, actions>>
  PROVE  StoreInv'
<1> USE DEF StoreInv, PlatformFrame, exchange, bootVars
<1> DEFINE silent == IF startup \in {"WaitPlayback", "ShutdownOutput"} /\ sounding = "no"
                     THEN "ReleaseLease" ELSE startup
           queued == silent = "ReleaseLease" /\ (~lease \/ boot = "LeaseOutstanding")
           idle == IF queued THEN "WaitLeaseIdle" ELSE silent
<1>1. /\ stage' = "publish"
      /\ release' = (release \/ (queued /\ lease))
      /\ lease' = (lease /\ ~queued)
      /\ startup' = IF idle = "WaitLeaseIdle" /\ boot = "Idle" /\ ~release' THEN "Ready" ELSE idle
      /\ UNCHANGED <<prio, xch, wake, jobs, boot, bootJob, skip, started, quiet, sounding>>
  BY DEF FinishStartup
<1>2. TypeOK' /\ WorkerInv'
  BY <1>1 DEF TypeOK, WorkerInv
<1>3. JobHasOneOwner' /\ JobInv'
  BY <1>1 DEF JobHasOneOwner, JobInv
<1>4. LeaseInv'
  BY <1>1 DEF LeaseInv
<1> QED
  BY <1>2, <1>3, <1>4

LEMMA PublishPriorityKeeps ==
  ASSUME StoreInv, PublishPriority, PlatformFrame, UNCHANGED <<action, actions>>
  PROVE  StoreInv'
<1> USE DEF StoreInv, PublishPriority, PlatformFrame, bootVars, startupVars
<1>1. prio' \in Priorities /\ wake' \in BOOLEAN
  <2>1. prio \in Priorities /\ wake \in BOOLEAN
    BY DEF TypeOK
  <2>2. CASE UNCHANGED <<prio, wake>>
    BY <2>1, <2>2
  <2>3. CASE Publish(ResourceStepsAllowed) /\ ~UNCHANGED <<prio, wake>>
    <3>1. PICK ok \in BOOLEAN : prio' = [prio EXCEPT !.allowed = ok, !.epoch = @ + 1] /\ wake' = TRUE
      BY <2>3 DEF Publish, ResourceStepsAllowed
    <3>2. DOMAIN prio = {"allowed", "epoch", "claimed"} /\ prio.epoch + 1 \in Nat
      BY <2>1 DEF Priorities
    <3>3. prio' = [allowed |-> ok, epoch |-> prio.epoch + 1, claimed |-> prio.claimed]
      BY <2>1, <3>1, <3>2 DEF Priorities
    <3>4. prio.claimed \in BOOLEAN
      BY <2>1 DEF Priorities
    <3>5. prio' \in Priorities
      BY <3>2, <3>3, <3>4, Zenon DEF Priorities
    <3> QED
      BY <3>1, <3>5
  <2> QED
    BY <2>2, <2>3
<1>2. TypeOK' /\ WorkerInv'
  BY <1>1 DEF TypeOK, WorkerInv
<1>3. JobHasOneOwner' /\ JobInv' /\ LeaseInv'
  BY DEF JobHasOneOwner, JobInv, LeaseInv
<1> QED
  BY <1>2, <1>3

LEMMA AdvanceBootReadJobKeeps ==
  ASSUME StoreInv, AdvanceBootReadJob, PlatformFrame
  PROVE  StoreInv'
<1> USE DEF StoreInv, AdvanceBootReadJob, PlatformFrame, startupVars, bootVars
<1>1. CASE PollPrepare
  <2>1. boot = "Preparing" /\ xch.kind = "Prepare" /\ xch.job = bootJob
    BY <1>1 DEF PollPrepare, HandleMatches
  <2>2. CASE xch.phase = "Completed"
    <3>1. xch' = NoJob /\ xch' \in Exchanges /\ wake' \in BOOLEAN /\ WorkerInv'
      BY <1>1, <2>2, CollectedJob DEF PollPrepare
    <3>2. /\ bootJob' = 0 /\ UNCHANGED <<jobs, release>>
          /\ xch.result \in {"Prepared", "Blank", "Unresolved"}
          /\ pinned <=> xch.result = "Prepared"
          /\ boot' = CASE xch.result = "Blank" -> "FactoryDefault"
                       [] xch.result = "Prepared" -> "Ready"
                       [] xch.result = "Unresolved" -> "Unavailable"
      BY <1>1, <2>1, <2>2 DEF PollPrepare, JobInv
    <3>3. \/ pinned /\ boot' = "Ready"
          \/ ~pinned /\ boot' \in {"FactoryDefault", "Unavailable"}
      BY <3>2
    <3>4. TypeOK'
      BY <3>1, <3>2, <3>3 DEF TypeOK
    <3>5. JobHasOneOwner' /\ JobInv' /\ LeaseInv'
      BY <2>1, <2>2, <3>1, <3>2, <3>3
         DEF JobHasOneOwner, JobInv, LeaseInv, NoJob, TypeOK, Workers, Exchanges
    <3> QED
      BY <3>1, <3>4, <3>5
  <2>3. CASE xch.phase # "Completed"
    <3>1. Grant /\ UNCHANGED <<boot, bootJob, jobs, release>>
      BY <1>1, <2>3 DEF PollPrepare
    <3>2. /\ xch' \in Exchanges /\ wake' \in BOOLEAN /\ WorkerInv'
          /\ xch'.kind = xch.kind /\ xch'.job = xch.job /\ xch'.action = xch.action
          /\ \/ xch' = xch
             \/ xch.phase = "PermitRequested" /\ xch'.phase = "PermitGranted"
      BY <3>1, GrantedJob
    <3>3. TypeOK'
      BY <3>1, <3>2 DEF TypeOK
    <3>4. JobHasOneOwner' /\ JobInv' /\ LeaseInv'
      BY <3>1, <3>2 DEF JobHasOneOwner, JobInv, LeaseInv
    <3> QED
      BY <3>2, <3>3, <3>4
  <2> QED
    BY <2>2, <2>3
<1>2. CASE StartRelease
  <2>1. boot = "LeaseOutstanding" /\ release /\ UNCHANGED release
    BY <1>2 DEF StartRelease
  <2>2. CASE StoreIsFree
    <3>1. Accept("Release", 0) /\ boot' = "ReleasePending" /\ bootJob' = NextJob
      BY <1>2, <2>2 DEF StartRelease
    <3>2. /\ xch' \in Exchanges /\ wake' = TRUE /\ jobs' \in Nat
          /\ xch'.phase = "Accepted" /\ xch'.kind = "Release" /\ xch'.action = 0
          /\ xch'.job = NextJob /\ NextJob \in Nat \ {0}
          /\ xch.kind = "None" /\ worker.job = 0 /\ WorkerInv'
      BY <2>2, <3>1, AcceptedJob DEF Kinds
    <3>3. TypeOK'
      BY <2>1, <3>1, <3>2 DEF TypeOK
    <3>4. JobHasOneOwner' /\ JobInv' /\ LeaseInv'
      BY <2>1, <3>1, <3>2 DEF JobHasOneOwner, JobInv, LeaseInv
    <3> QED
      BY <3>2, <3>3, <3>4
  <2>3. CASE ~StoreIsFree
    <3>1. UNCHANGED <<xch, wake, jobs, boot, bootJob, release>>
      BY <1>2, <2>3 DEF StartRelease
    <3>2. TypeOK' /\ WorkerInv'
      BY <3>1 DEF TypeOK, WorkerInv
    <3>3. JobHasOneOwner' /\ JobInv' /\ LeaseInv'
      BY <3>1 DEF JobHasOneOwner, JobInv, LeaseInv
    <3> QED
      BY <3>2, <3>3
  <2> QED
    BY <2>2, <2>3
<1>3. CASE PollRelease
  <2>1. boot = "ReleasePending" /\ xch.kind = "Release" /\ xch.job = bootJob
    BY <1>3 DEF PollRelease, HandleMatches
  <2>2. CASE xch.phase = "Completed"
    <3>1. xch' = NoJob /\ xch' \in Exchanges /\ wake' \in BOOLEAN /\ WorkerInv'
      BY <1>3, <2>2, CollectedJob DEF PollRelease
    <3>2. boot' = "Idle" /\ bootJob' = 0 /\ release' = FALSE /\ UNCHANGED jobs /\ ~pinned
      BY <1>3, <2>1, <2>2 DEF PollRelease, JobInv
    <3>3. TypeOK'
      BY <3>1, <3>2 DEF TypeOK
    <3>4. JobHasOneOwner' /\ JobInv' /\ LeaseInv'
      BY <2>1, <2>2, <3>1, <3>2
         DEF JobHasOneOwner, JobInv, LeaseInv, NoJob, TypeOK, Workers, Exchanges
    <3> QED
      BY <3>1, <3>3, <3>4
  <2>3. CASE xch.phase # "Completed"
    <3>1. Grant /\ UNCHANGED <<boot, bootJob, jobs, release>>
      BY <1>3, <2>3 DEF PollRelease
    <3>2. /\ xch' \in Exchanges /\ wake' \in BOOLEAN /\ WorkerInv'
          /\ xch'.kind = xch.kind /\ xch'.job = xch.job /\ xch'.action = xch.action
          /\ \/ xch' = xch
             \/ xch.phase = "PermitRequested" /\ xch'.phase = "PermitGranted"
      BY <3>1, GrantedJob
    <3>3. TypeOK'
      BY <3>1, <3>2 DEF TypeOK
    <3>4. JobHasOneOwner' /\ JobInv' /\ LeaseInv'
      BY <3>1, <3>2 DEF JobHasOneOwner, JobInv, LeaseInv
    <3> QED
      BY <3>2, <3>3, <3>4
  <2> QED
    BY <2>2, <2>3
<1>4. CASE UNCHANGED <<xch, wake, jobs, bootVars>>
  <2>1. TypeOK' /\ WorkerInv'
    BY <1>4 DEF TypeOK, WorkerInv
  <2>2. JobHasOneOwner' /\ JobInv' /\ LeaseInv'
    BY <1>4 DEF JobHasOneOwner, JobInv, LeaseInv
  <2> QED
    BY <2>1, <2>2
<1> QED
  BY <1>1, <1>2, <1>3, <1>4

LEMMA RunCoreStepsKeeps ==
  ASSUME StoreInv, RunCoreSteps, PlatformFrame
  PROVE  StoreInv'
<1> USE DEF StoreInv, RunCoreSteps, PlatformFrame, startupVars, bootVars
<1>1. CASE QueueAction
  <2>1. /\ boot = "Idle" /\ action = 0 /\ action' = actions + 1 /\ actions' = actions + 1
        /\ UNCHANGED <<xch, wake, jobs, stage>>
    BY <1>1 DEF QueueAction, CoreMayStep
  <2>2. TypeOK' /\ WorkerInv'
    BY <2>1 DEF TypeOK, WorkerInv
  <2>3. JobHasOneOwner' /\ JobInv' /\ LeaseInv'
    BY <2>1 DEF JobHasOneOwner, JobInv, LeaseInv
  <2> QED
    BY <2>2, <2>3
<1>2. CASE ExecutorStep
  <2>1. boot = "Idle" /\ action # 0 /\ action \in Nat /\ stage' \in {stage, "resolve"}
        /\ UNCHANGED actions
    BY <1>2 DEF ExecutorStep, CoreMayStep, TypeOK
  <2>2. CASE StoreIsFree /\ Accept("Protocol", action) /\ UNCHANGED action
    <3>1. /\ xch' \in Exchanges /\ wake' = TRUE /\ jobs' \in Nat
          /\ xch'.phase = "Accepted" /\ xch'.kind = "Protocol" /\ xch'.action = action
          /\ xch'.job = NextJob /\ NextJob \in Nat \ {0}
          /\ xch.kind = "None" /\ worker.job = 0 /\ WorkerInv'
      BY <2>1, <2>2, AcceptedJob DEF Kinds
    <3>2. TypeOK'
      BY <2>1, <2>2, <3>1 DEF TypeOK
    <3>3. JobHasOneOwner' /\ JobInv' /\ LeaseInv'
      BY <2>1, <2>2, <3>1 DEF JobHasOneOwner, JobInv, LeaseInv
    <3> QED
      BY <3>1, <3>2, <3>3
  <2>3. CASE ActionMatches /\ xch.phase = "Completed" /\ Reset /\ action' = 0 /\ UNCHANGED jobs
    <3>1. xch' = NoJob /\ xch' \in Exchanges /\ wake' \in BOOLEAN /\ WorkerInv' /\ worker.job = 0
      BY <2>3, CollectedJob
    <3>2. TypeOK'
      BY <2>1, <2>3, <3>1 DEF TypeOK
    <3>3. JobHasOneOwner' /\ JobInv' /\ LeaseInv'
      BY <2>1, <2>3, <3>1 DEF JobHasOneOwner, JobInv, LeaseInv, NoJob, ActionMatches
    <3> QED
      BY <3>1, <3>2, <3>3
  <2>4. CASE Grant /\ UNCHANGED <<action, jobs>>
    <3>1. /\ xch' \in Exchanges /\ wake' \in BOOLEAN /\ WorkerInv'
          /\ xch'.kind = xch.kind /\ xch'.job = xch.job /\ xch'.action = xch.action
          /\ \/ xch' = xch
             \/ xch.phase = "PermitRequested" /\ xch'.phase = "PermitGranted"
      BY <2>4, GrantedJob
    <3>2. TypeOK'
      BY <2>1, <2>4, <3>1 DEF TypeOK
    <3>3. JobHasOneOwner' /\ JobInv' /\ LeaseInv'
      BY <2>4, <3>1 DEF JobHasOneOwner, JobInv, LeaseInv
    <3> QED
      BY <3>1, <3>2, <3>3
  <2> QED
    BY <1>2, <2>2, <2>3, <2>4 DEF ExecutorStep
<1>3. CASE stage' = "resolve" /\ UNCHANGED <<xch, wake, jobs, action, actions>>
  <2>1. TypeOK' /\ WorkerInv'
    BY <1>3 DEF TypeOK, WorkerInv
  <2>2. JobHasOneOwner' /\ JobInv' /\ LeaseInv'
    BY <1>3 DEF JobHasOneOwner, JobInv, LeaseInv
  <2> QED
    BY <2>1, <2>2
<1> QED
  BY <1>1, <1>2, <1>3

LEMMA InputChangesKeeps ==
  ASSUME StoreInv, InputChanges
  PROVE  StoreInv'
<1> USE DEF StoreInv, InputChanges, exchange, bootVars, startupVars
<1>1. TypeOK' /\ WorkerInv'
  BY DEF TypeOK, WorkerInv
<1>2. JobHasOneOwner' /\ JobInv' /\ LeaseInv'
  BY DEF JobHasOneOwner, JobInv, LeaseInv
<1> QED
  BY <1>1, <1>2

LEMMA SoundEndsKeeps ==
  ASSUME StoreInv, SoundEnds
  PROVE  StoreInv'
<1> USE DEF StoreInv, SoundEnds, exchange, bootVars, startupVars
<1>1. TypeOK' /\ WorkerInv'
  BY DEF TypeOK, WorkerInv
<1>2. JobHasOneOwner' /\ JobInv' /\ LeaseInv'
  BY DEF JobHasOneOwner, JobInv, LeaseInv
<1> QED
  BY <1>1, <1>2

LEMMA StutterKeeps ==
  ASSUME StoreInv, UNCHANGED vars
  PROVE  StoreInv'
<1> USE DEF StoreInv, vars, exchange, bootVars, startupVars
<1>1. TypeOK' /\ WorkerInv'
  BY DEF TypeOK, WorkerInv
<1>2. JobHasOneOwner' /\ JobInv' /\ LeaseInv'
  BY DEF JobHasOneOwner, JobInv, LeaseInv
<1> QED
  BY <1>1, <1>2

-----------------------------------------------------------------------------
(* The theorems. *)

LEMMA NextInv == StoreInv /\ [Next]_vars => StoreInv'
<1> SUFFICES ASSUME StoreInv, [Next]_vars PROVE StoreInv'
  OBVIOUS
<1>1. CASE WorkerStep
  <2>1. WorkerFrame
    BY <1>1 DEF WorkerStep, WorkerFrame
  <2>2. CASE Asleep("idle", "look") \/ Asleep("blocked", "work") \/ Asleep("waiting", "await")
    BY <2>1, <2>2, AsleepKeeps
  <2>3. CASE TakeJob \/ ReadEpoch \/ RequestOrWait \/ RequestPermit \/ AwaitGrant
    BY <2>1, <2>3, TakeJobKeeps, ReadEpochKeeps, RequestOrWaitKeeps, RequestPermitKeeps,
       AwaitGrantKeeps
  <2>4. CASE CheckGrant \/ ClaimUnit \/ UnitDone \/ AcquireLease \/ FinishJob
    BY <2>1, <2>4, CheckGrantKeeps, ClaimUnitKeeps, UnitDoneKeeps, AcquireLeaseKeeps,
       FinishJobKeeps
  <2> QED
    BY <1>1, <2>2, <2>3, <2>4 DEF WorkerStep
<1>2. CASE PlatformStep
  <2>1. PlatformFrame
    BY <1>2 DEF PlatformStep, PlatformFrame
  <2>2. CASE /\ ServiceStart \/ BeginOutput \/ FinishStartup \/ PublishPriority
             /\ UNCHANGED <<action, actions>>
    BY <2>1, <2>2, ServiceStartKeeps, BeginOutputKeeps, FinishStartupKeeps, PublishPriorityKeeps
  <2>3. CASE AdvanceBootReadJob
    BY <2>1, <2>3, AdvanceBootReadJobKeeps
  <2>4. CASE RunCoreSteps
    BY <2>1, <2>4, RunCoreStepsKeeps
  <2> QED
    BY <1>2, <2>2, <2>3, <2>4 DEF PlatformStep
<1>3. CASE InputChanges
  BY <1>3, InputChangesKeeps
<1>4. CASE SoundEnds
  BY <1>4, SoundEndsKeeps
<1>5. CASE UNCHANGED vars
  BY <1>5, StutterKeeps
<1> QED
  BY <1>1, <1>2, <1>3, <1>4, <1>5 DEF Next

\* A unit starts only in ClaimUnit, with the permission of this very moment.
LEMMA UnitsAreAllowed ==
  ASSUME StoreInv, [Next]_vars, worker.pc # "unit", worker'.pc = "unit"
  PROVE  /\ prio.allowed /\ prio'.claimed
         /\ xch.grantEpoch = prio.epoch /\ xch.reqEpoch = prio.epoch
         /\ xch.unit = worker.unit
<1> USE DEF StoreInv
<1>1. worker' # worker
  OBVIOUS
<1>2. WorkerStep
  BY <1>1 DEF Next, PlatformStep, InputChanges, SoundEnds, vars
<1>3. ClaimUnit
  <2>1. worker \in Workers
    BY DEF TypeOK
  <2>2. ~(Asleep("idle", "look") \/ Asleep("blocked", "work") \/ Asleep("waiting", "await"))
    BY <2>1 DEF Asleep, Workers
  <2>3. ~TakeJob /\ ~ReadEpoch /\ ~RequestOrWait /\ ~RequestPermit /\ ~AwaitGrant
    <3>1. ~TakeJob
      BY <2>1 DEF TakeJob, Workers
    <3>2. ~ReadEpoch /\ ~RequestOrWait
      BY <2>1 DEF ReadEpoch, RequestOrWait, Workers
    <3>3. ~RequestPermit /\ ~AwaitGrant
      BY <2>1 DEF RequestPermit, AwaitGrant, Workers
    <3> QED
      BY <3>1, <3>2, <3>3
  <2>4. ~(CheckGrant \/ UnitDone \/ AcquireLease \/ FinishJob)
    BY <2>1 DEF CheckGrant, UnitDone, AcquireLease, FinishJob, Workers
  <2> QED
    BY <1>2, <2>2, <2>3, <2>4 DEF WorkerStep
<1>4. ExactPriority(worker.epoch) /\ prio' = [prio EXCEPT !.claimed = TRUE]
  BY <1>3 DEF ClaimUnit, TypeOK, Workers
<1> QED
  BY <1>3, <1>4 DEF ClaimUnit, ExactPriority, WorkerInv, TypeOK, Priorities

LEMMA InvAlways == Spec => []StoreInv
BY InitInv, NextInv, PTL DEF Spec

\* The exchange, both tasks and the boot job keep their types.
THEOREM TypeCorrect == Spec => []TypeOK
<1>1. StoreInv => TypeOK
  BY DEF StoreInv
<1> QED
  BY <1>1, InvAlways, PTL

\* Worker, exchange, core and boot job always agree on the one job there is: none is done twice,
\* and no completion is taken for another's (speaker_assets_flash_runner.cpp).
THEOREM OneOwner == Spec => []JobHasOneOwner
<1>1. StoreInv => JobHasOneOwner
  BY DEF StoreInv
<1> QED
  BY <1>1, InvAlways, PTL

\* No protocol job runs while the boot sound's lease is held, and it is held while the sound plays
\* (advance_boot_read_job, speaker_assets_supervisor.cpp).
THEOREM UpdatesWait == Spec => []UpdateNeverOvertakesPlayback
BY InvSeparates, InvAlways, PTL

\* Whenever a Flash unit starts, input is quiet and the permit is of this moment's epoch and for
\* this unit (claim_priority_unit).
THEOREM UnitsRespectInput == Spec => NoUnitAgainstInput
<1>1. StoreInv /\ [Next]_vars =>
        [worker.pc # "unit" /\ worker'.pc = "unit" =>
           /\ prio.allowed /\ prio'.claimed
           /\ xch.grantEpoch = prio.epoch /\ xch.reqEpoch = prio.epoch
           /\ xch.unit = worker.unit]_vars
  BY UnitsAreAllowed
<1> QED
  BY <1>1, InvAlways, PTL DEF Spec, NoUnitAgainstInput
=============================================================================
