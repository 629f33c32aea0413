------------------------- MODULE SummaryLedgerProofs -------------------------
(***************************************************************************)
(* Proofs about SummaryLedger, for any tasks, slots and bounds.            *)
(*                                                                         *)
(*   Typed     TypeOK is not inductive alone: a step of the worker needs   *)
(*             to know that it is on a claim of some task, and taking a    *)
(*             lease that an id is left.                                   *)
(*   StepRows  what any step may do to the rows of summary_ledger: publish *)
(*             a claim, make one, or keep every row in the sense of Kept.  *)
(*   CoverInv  no completion is lost.        ObjectInv  no object is.      *)
(*   UnreadInv one unread row and one claim per task, and neither is empty.*)
(*   LeaseInv  one lease at most, and the serve loop holds it.             *)
(*                                                                         *)
(* LedgerInv joins them; the mailbox refinement comes last and reads each  *)
(* step off what StepRows says of the rows.                                *)
(***************************************************************************)
EXTENDS SummaryLedger, FiniteSetTheorems, WellFoundedInduction, TLAPS

WorkerOnClaim ==
  /\ worker.pc # "scan" => worker.task \in Tasks
  /\ worker.pc \notin {"scan", "claim"} => worker.generation \in Generations

LeaseIdLeft == player.pc = "replace" => nextLease <= MaxLeases

Typed == TypeOK /\ WorkerOnClaim /\ LeaseIdLeft

USE DEF Generations, Completions

\* One row is replaced, or only its state is.
LEMMA RowUpdate ==
  ASSUME summary \in [Tasks -> [Generations -> Row]],
         NEW t \in Tasks, NEW g \in Generations
  PROVE  /\ \A r \in Row : [summary EXCEPT ![t][g] = r] \in [Tasks -> [Generations -> Row]]
         /\ \A st \in RowStates :
              [summary EXCEPT ![t][g].state = st] \in [Tasks -> [Generations -> Row]]
<1>1. ASSUME NEW r \in Row
      PROVE  [summary EXCEPT ![t][g] = r] \in [Tasks -> [Generations -> Row]]
  OBVIOUS
<1>2. ASSUME NEW st \in RowStates
      PROVE  [summary EXCEPT ![t][g].state = st] \in [Tasks -> [Generations -> Row]]
  <2>1. summary[t][g] \in Row
    OBVIOUS
  <2>2. [summary[t][g] EXCEPT !.state = st] \in Row
    BY <2>1 DEF Row
  <2>3. [summary EXCEPT ![t][g].state = st]
          = [summary EXCEPT ![t][g] = [summary[t][g] EXCEPT !.state = st]]
    OBVIOUS
  <2> QED BY <1>1, <2>2, <2>3
<1> QED BY <1>1, <1>2

LEMMA RowMoves ==
  \A row \in Row : /\ [row EXCEPT !.tts = TRUE] \in Row
                   /\ Abandoned(row) \in Row
BY DEF Row, RowStates, Abandoned

\* Giving a lease back keeps the two tables it touches well typed (cancel_summary_playback).
LEMMA CancelLeaseTyped ==
  ASSUME summary \in [Tasks -> [Generations -> Row]], leases \in SUBSET Lease,
         NEW l \in Lease, CancelLease(l)
  PROVE  summary' \in [Tasks -> [Generations -> Row]] /\ leases' \in SUBSET Lease
<1> DEFINE row == summary[l.task][l.generation]
           st == IF l \in leases /\ row.state = "leased" THEN Released(row) ELSE row.state
<1>1. l.task \in Tasks /\ l.generation \in Generations
  BY DEF Lease
<1>2. row \in Row
  BY <1>1
<1>3. st \in RowStates
  BY <1>2 DEF Released, Row, RowStates
<1>4. summary' = [summary EXCEPT ![l.task][l.generation].state = st] /\ leases' = leases \ {l}
  BY DEF CancelLease
<1> QED BY <1>1, <1>3, <1>4, RowUpdate

\* Publishing a claim keeps both tables well typed (publish_summary).
LEMMA PublishTyped ==
  ASSUME TypeOK, NEW t \in Tasks, NEW g \in Generations, Publish(t, g)
  PROVE  /\ summary' \in [Tasks -> [Generations -> Row]]
         /\ coveredBy' \in [Tasks -> [Completions -> 0..MaxGeneration]]
         /\ observed' \in [Tasks -> 0..MaxCompletions]
<1>1. /\ summary \in [Tasks -> [Generations -> Row]]
      /\ coveredBy \in [Tasks -> [Completions -> 0..MaxGeneration]]
      /\ observed \in [Tasks -> 0..MaxCompletions]
  BY DEF TypeOK
<1>2. g \in 0..MaxGeneration
  BY BoundsAssumption
<1>3. Published(t, g) \in [Generations -> Row]
  <2>1. \A row \in Row : /\ [row EXCEPT !.state = "unheard", !.tts = FALSE] \in Row
                         /\ Replaced(row, g) \in Row
    BY <1>2 DEF Row, RowStates, Replaced
  <2>2. \A h \in Generations : summary[t][h] \in Row
    BY <1>1
  <2> QED BY <2>1, <2>2 DEF Published
<1>4. Reassigned(t, g) \in [Completions -> 0..MaxGeneration]
  BY <1>1, <1>2 DEF Reassigned
<1>5. /\ summary' = [summary EXCEPT ![t] = Published(t, g)]
      /\ coveredBy' = [coveredBy EXCEPT ![t] = Reassigned(t, g)]
      /\ observed' = observed
  BY DEF Publish
<1> QED BY <1>1, <1>3, <1>4, <1>5

LEMMA RecoveredTyped ==
  ASSUME summary \in [Tasks -> [Generations -> Row]]
  PROVE  Recovered \in [Tasks -> [Generations -> Row]]
<1>1. \A t \in Tasks, g \in Generations : summary[t][g] \in Row
  OBVIOUS
<1>2. \A row \in Row : /\ Released(row) \in RowStates
                       /\ \A st \in RowStates : [row EXCEPT !.state = st] \in Row
                       /\ row.state \in RowStates
  BY DEF Released, Row, RowStates
<1>3. "interrupted" \in RowStates
  BY DEF RowStates
<1> QED BY <1>1, <1>2, <1>3 DEF Recovered

\* The moves of the worker that its actions are made of.
LEMMA IdleWorkerTyped ==
  ASSUME NEW todo \in SUBSET Tasks, NEW t \in Tasks
  PROVE  /\ IdleWorker(todo) \in Worker /\ IdleWorker(todo).pc = "scan"
         /\ [IdleWorker(todo) EXCEPT !.task = t, !.error = TRUE] \in Worker
         /\ [IdleWorker(todo) EXCEPT !.task = t, !.error = TRUE].pc = "scan"
<1>1. IdleWorker(todo) \in Worker /\ IdleWorker(todo).pc = "scan"
  BY BoundsAssumption DEF IdleWorker, Worker, WorkerPcs
<1>2. \A w \in Worker : /\ [w EXCEPT !.task = t, !.error = TRUE] \in Worker
                        /\ [w EXCEPT !.task = t, !.error = TRUE].pc = w.pc
  BY DEF Worker
<1> QED BY <1>1, <1>2

LEMMA WorkerMoves ==
  ASSUME worker \in Worker, WorkerOnClaim, worker.pc # "scan",
         \/ WorkerIdle
         \/ WorkerFailed(worker.task)
         \/ worker.pc # "claim" /\ \E pc \in WorkerPcs : WorkerGoes(pc)
         \/ worker.pc # "claim" /\ \E e \in BOOLEAN : WorkerAbandons(e)
         \/ UNCHANGED worker
  PROVE  worker' \in Worker /\ WorkerOnClaim'
<1>1. worker.todo \in SUBSET Tasks /\ worker.task \in Tasks
  BY DEF Worker, WorkerOnClaim
<1>2. CASE WorkerIdle \/ WorkerFailed(worker.task)
  BY <1>1, <1>2, IdleWorkerTyped DEF WorkerIdle, WorkerFailed, WorkerOnClaim
<1>3. CASE worker.pc # "claim" /\ \E pc \in WorkerPcs : WorkerGoes(pc)
  BY <1>1, <1>3 DEF WorkerGoes, WorkerOnClaim, Worker
<1>4. CASE worker.pc # "claim" /\ \E e \in BOOLEAN : WorkerAbandons(e)
  BY <1>1, <1>4 DEF WorkerAbandons, WorkerOnClaim, Worker, WorkerPcs
<1>5. CASE UNCHANGED worker
  BY <1>5 DEF WorkerOnClaim
<1> QED BY <1>2, <1>3, <1>4, <1>5

LEMMA TypedInit == Init => Typed
<1> SUFFICES ASSUME Init PROVE Typed
  OBVIOUS
<1>1. summary \in [Tasks -> [Generations -> Row]]
  BY BoundsAssumption DEF Init, NoRow, Row, RowStates
<1>2. worker \in Worker /\ worker.pc = "scan"
  BY BoundsAssumption DEF Init, IdleWorker, Worker, WorkerPcs
<1>3. player \in Player /\ player.pc = "idle"
  BY BoundsAssumption DEF Init, IdlePlayer, Player, PlayerPcs
<1>4. WorkerOnClaim /\ LeaseIdLeft
  BY <1>2, <1>3 DEF WorkerOnClaim, LeaseIdLeft
<1>5. /\ observed \in [Tasks -> 0..MaxCompletions]
      /\ coveredBy \in [Tasks -> [Completions -> 0..MaxGeneration]]
      /\ nextLease \in 1..(MaxLeases + 1)
  BY BoundsAssumption DEF Init
<1>6. /\ up \in BOOLEAN /\ crashes \in 0..MaxCrashes
      /\ bindings \in [Slots -> Tasks \cup {None}]
      /\ leases \in SUBSET Lease /\ cache \in SUBSET (Tasks \X Generations)
      /\ active \in SUBSET [lease: Lease, heard: BOOLEAN]
  BY BoundsAssumption DEF Init
<1> QED BY <1>1, <1>2, <1>3, <1>4, <1>5, <1>6 DEF Typed, TypeOK

-----------------------------------------------------------------------------
(* Typing of the steps, one per action.                                    *)

LEMMA TypedWorkerStep == Typed /\ WorkerNext => Typed'
<1> SUFFICES ASSUME Typed, WorkerNext PROVE Typed'
  OBVIOUS
<1>t. TypeOK /\ WorkerOnClaim /\ LeaseIdLeft
  BY DEF Typed
<1>w. worker \in Worker /\ worker.todo \in SUBSET Tasks
  BY <1>t DEF TypeOK, Worker
<1>s. /\ summary \in [Tasks -> [Generations -> Row]]
      /\ \A t \in Tasks, g \in Generations : summary[t][g] \in Row
  BY <1>t DEF TypeOK
<1>o. worker.pc # "scan" => worker.task \in Tasks
  BY <1>t DEF WorkerOnClaim
<1>g. worker.pc \notin {"scan", "claim"} => worker.generation \in Generations
  BY <1>t DEF WorkerOnClaim
<1>u. ASSUME worker' \in Worker, WorkerOnClaim',
             summary' \in [Tasks -> [Generations -> Row]],
             coveredBy' \in [Tasks -> [Completions -> 0..MaxGeneration]],
             cache' \in SUBSET (Tasks \X Generations),
             UNCHANGED <<hostVars, bindings, observed, leaseVars, player, active>>
      PROVE  Typed'
  BY <1>t, <1>u DEF Typed, TypeOK, LeaseIdLeft, hostVars, leaseVars
<1>v. ASSUME worker' \in Worker, WorkerOnClaim', workerOnly PROVE Typed'
  BY <1>t, <1>v DEF Typed, TypeOK, LeaseIdLeft, workerOnly, hostVars, ledgerVars, leaseVars
<1>k. WorkerPcs = {"scan", "claim", "recover", "previous", "generate", "begin",
                   "synthesize", "store", "publish", "abandon"}
  BY DEF WorkerPcs
<1>c. ASSUME NEW t \in Tasks, NEW g \in Generations, t = worker.task, Publish(t, g),
             WorkerIdle, worker.pc # "scan",
             UNCHANGED <<hostVars, bindings, leaseVars, cache, player, active>>
      PROVE  Typed'
  <2>1. /\ summary' \in [Tasks -> [Generations -> Row]]
        /\ coveredBy' \in [Tasks -> [Completions -> 0..MaxGeneration]]
        /\ UNCHANGED observed
    BY <1>c, <1>t, PublishTyped DEF Publish
  <2>2. worker' \in Worker /\ WorkerOnClaim'
    BY <1>c, <1>t, <1>w, WorkerMoves
  <2>3. cache' \in SUBSET (Tasks \X Generations)
    BY <1>c, <1>t DEF TypeOK
  <2> QED BY <1>c, <1>u, <2>1, <2>2, <2>3
<1>1. CASE WorkerScan
  <2>1. worker' = IdleWorker(WorkTasks) /\ WorkTasks \in SUBSET Tasks
    BY <1>1 DEF WorkerScan, WorkTasks
  <2>2. worker' \in Worker /\ worker'.pc = "scan"
    BY <2>1, BoundsAssumption DEF IdleWorker, Worker, WorkerPcs
  <2> QED BY <1>1, <1>v, <2>2 DEF WorkerScan, WorkerOnClaim
<1>2. ASSUME NEW t \in Tasks, ResumeNothing(t) PROVE Typed'
  <2>1. worker' = [Take(t) EXCEPT !.pc = "claim", !.task = t]
    BY <1>2 DEF ResumeNothing
  <2>2. Take(t) \in Worker
    BY <1>w, IdleWorkerTyped DEF Take
  <2>3. worker' \in Worker /\ worker'.pc = "claim" /\ worker'.task = t
    BY <2>1, <2>2, <1>k DEF Worker
  <2> QED BY <1>2, <1>v, <2>3 DEF ResumeNothing, WorkerOnClaim
<1>3. ASSUME NEW t \in Tasks, NEW g \in Generations, ResumeClaim(t, g) PROVE Typed'
  <2>1. worker' = [Take(t) EXCEPT !.pc = "recover", !.task = t, !.generation = g,
                                  !.resumed = TRUE]
    BY <1>3 DEF ResumeClaim
  <2>2. Take(t) \in Worker
    BY <1>w, IdleWorkerTyped DEF Take
  <2>3. g \in 0..MaxGeneration
    BY BoundsAssumption
  <2>4. worker' \in Worker /\ worker'.task = t /\ worker'.generation = g
    BY <2>1, <2>2, <2>3, <1>k DEF Worker
  <2>5. summary' \in [Tasks -> [Generations -> Row]]
    BY <1>3, <1>s, RowUpdate DEF ResumeClaim, RowStates
  <2>6. /\ coveredBy' \in [Tasks -> [Completions -> 0..MaxGeneration]]
        /\ cache' \in SUBSET (Tasks \X Generations)
    BY <1>3, <1>t DEF ResumeClaim, TypeOK
  <2> QED BY <1>3, <1>u, <2>4, <2>5, <2>6 DEF ResumeClaim, WorkerOnClaim
<1>4. ASSUME NEW t \in Tasks, NEW g \in Generations, ResumeRejected(t, g) PROVE Typed'
  <2>1. worker' = [IdleWorker(worker.todo \ {t}) EXCEPT !.task = t, !.error = TRUE]
    BY <1>4 DEF ResumeRejected, Take
  <2>2. worker' \in Worker /\ worker'.pc = "scan"
    BY <1>w, <2>1, IdleWorkerTyped
  <2> QED BY <1>4, <1>v, <2>2 DEF ResumeRejected, WorkerOnClaim
<1>5. ASSUME NEW g \in Generations, ClaimSummary(g) PROVE Typed'
  <2> DEFINE t == worker.task
  <2>1. t \in Tasks
    BY <1>5, <1>o DEF ClaimSummary, At
  <2>2. PICK p \in IF CurrentUnread(t) = {} THEN {0} ELSE CurrentUnread(t) :
          summary' = [summary EXCEPT ![t][g] =
                        [state |-> "generating", covers |-> Batch(t), previous |-> p,
                         supersededBy |-> 0, tts |-> FALSE]]
    BY <1>5 DEF ClaimSummary
  <2>3. p \in 0..MaxGeneration
    BY BoundsAssumption DEF CurrentUnread
  <2>4. observed[t] \in 0..MaxCompletions
    BY <1>t, <2>1 DEF TypeOK
  <2>5. Batch(t) \in SUBSET Completions
    BY <2>4, BoundsAssumption DEF Batch, Pending
  <2>6. [state |-> "generating", covers |-> Batch(t), previous |-> p,
         supersededBy |-> 0, tts |-> FALSE] \in Row
    BY <2>3, <2>5, BoundsAssumption DEF Row, RowStates
  <2>7. summary' \in [Tasks -> [Generations -> Row]]
    BY <2>1, <2>2, <2>6, <1>s, RowUpdate
  <2>8. worker' = [worker EXCEPT !.pc = "recover", !.generation = g, !.resumed = FALSE]
    BY <1>5 DEF ClaimSummary
  <2>9. g \in 0..MaxGeneration
    BY BoundsAssumption
  <2>10. worker' \in Worker /\ worker'.task = t /\ worker'.generation = g
    BY <1>w, <2>8, <2>9, <1>k DEF Worker
  <2>11. /\ coveredBy' \in [Tasks -> [Completions -> 0..MaxGeneration]]
         /\ cache' \in SUBSET (Tasks \X Generations)
    BY <1>5, <1>t DEF ClaimSummary, TypeOK
  <2> QED BY <1>5, <1>u, <2>1, <2>7, <2>10, <2>11 DEF ClaimSummary, WorkerOnClaim
<1>6. CASE ClaimNothing
  <2>1. worker.pc # "scan" /\ (WorkerFailed(worker.task) \/ WorkerIdle) /\ workerOnly
    BY <1>6 DEF ClaimNothing, At
  <2> QED BY <1>t, <1>w, <1>v, <2>1, WorkerMoves
<1>7. CASE RecoverPublished
  BY <1>7, <1>c, <1>o, <1>g DEF RecoverPublished, At
<1>8. CASE RecoverRejected \/ RecoverMissing \/ LoadPrevious \/ ExternalFailure
           \/ PublishRejected \/ Generated \/ Synthesized
  <2>1. /\ worker.pc \notin {"scan", "claim"} /\ workerOnly
        /\ \/ \E pc \in WorkerPcs : WorkerGoes(pc)
           \/ \E e \in BOOLEAN : WorkerAbandons(e)
    BY <1>8, <1>k DEF RecoverRejected, RecoverMissing, LoadPrevious, ExternalFailure,
                      PublishRejected, Generated, Synthesized, At
  <2>2. worker' \in Worker /\ WorkerOnClaim'
    BY <1>t, <1>w, <2>1, WorkerMoves
  <2> QED BY <1>v, <2>1, <2>2
<1>9. CASE BeginTtsAttempt
  <2> DEFINE t == worker.task
             g == worker.generation
  <2>1. worker.pc = "begin" /\ t \in Tasks /\ g \in Generations
    BY <1>9, <1>o, <1>g DEF BeginTtsAttempt, At
  <2>2. (\E pc \in WorkerPcs : WorkerGoes(pc)) \/ WorkerFailed(worker.task)
    BY <1>9, <1>k DEF BeginTtsAttempt
  <2>3. worker' \in Worker /\ WorkerOnClaim'
    BY <1>t, <1>w, <2>1, <2>2, WorkerMoves
  <2>4. [summary[t][g] EXCEPT !.tts = TRUE] \in Row
    BY <1>s, <2>1, RowMoves
  <2>5. [summary EXCEPT ![t][g].tts = TRUE]
          = [summary EXCEPT ![t][g] = [summary[t][g] EXCEPT !.tts = TRUE]]
    OBVIOUS
  <2>6. summary' \in [Tasks -> [Generations -> Row]]
    <3>1. [summary EXCEPT ![t][g].tts = TRUE] \in [Tasks -> [Generations -> Row]]
      BY <1>s, <2>1, <2>4, <2>5, RowUpdate
    <3> QED BY <1>9, <1>s, <3>1 DEF BeginTtsAttempt
  <2>7. /\ coveredBy' \in [Tasks -> [Completions -> 0..MaxGeneration]]
        /\ cache' \in SUBSET (Tasks \X Generations)
    BY <1>9, <1>t DEF BeginTtsAttempt, TypeOK
  <2> QED BY <1>9, <1>u, <2>3, <2>6, <2>7 DEF BeginTtsAttempt
<1>10. CASE StoreObject \/ StoreFailed
  <2>1. /\ worker.pc = "store" /\ \E pc \in WorkerPcs : WorkerGoes(pc)
        /\ UNCHANGED <<hostVars, bindings, ledgerVars, leaseVars, player, active>>
        /\ cache' \in {cache, cache \cup {ClaimObject}}
    BY <1>10, <1>k DEF StoreObject, StoreFailed, At
  <2>2. worker' \in Worker /\ WorkerOnClaim'
    BY <1>t, <1>w, <2>1, WorkerMoves
  <2>3. cache' \in SUBSET (Tasks \X Generations)
    BY <1>t, <1>o, <1>g, <2>1 DEF TypeOK, ClaimObject
  <2>4. /\ summary' \in [Tasks -> [Generations -> Row]]
        /\ coveredBy' \in [Tasks -> [Completions -> 0..MaxGeneration]]
    BY <1>t, <2>1 DEF TypeOK, ledgerVars
  <2> QED BY <1>u, <2>1, <2>2, <2>3, <2>4 DEF ledgerVars
<1>11. CASE PublishSummary
  BY <1>11, <1>c, <1>o, <1>g DEF PublishSummary, At
<1>12. CASE Abandon
  <2> DEFINE t == worker.task
             g == worker.generation
  <2>1. worker.pc = "abandon" /\ t \in Tasks /\ g \in Generations
    BY <1>12, <1>o, <1>g DEF Abandon, At
  <2>2. WorkerIdle \/ WorkerFailed(worker.task) \/ \E pc \in WorkerPcs : WorkerGoes(pc)
    BY <1>12, <1>k DEF Abandon, AfterAbandon
  <2>3. worker' \in Worker /\ WorkerOnClaim'
    BY <1>t, <1>w, <2>1, <2>2, WorkerMoves
  <2>4. Abandoned(summary[t][g]) \in Row
    BY <1>s, <2>1, RowMoves
  <2>5. summary' = [summary EXCEPT ![t][g] = Abandoned(summary[t][g])] \/ UNCHANGED summary
    BY <1>12 DEF Abandon, Claimed
  <2>6. summary' \in [Tasks -> [Generations -> Row]]
    <3>1. [summary EXCEPT ![t][g] = Abandoned(summary[t][g])] \in [Tasks -> [Generations -> Row]]
      BY <1>s, <2>1, <2>4, RowUpdate
    <3> QED BY <1>s, <2>5, <3>1
  <2>7. /\ coveredBy' \in [Tasks -> [Completions -> 0..MaxGeneration]]
        /\ cache' \in SUBSET (Tasks \X Generations)
    BY <1>12, <1>t DEF Abandon, TypeOK
  <2> QED BY <1>12, <1>u, <2>3, <2>6, <2>7 DEF Abandon
<1> QED BY <1>1, <1>2, <1>3, <1>4, <1>5, <1>6, <1>7, <1>8, <1>9, <1>10, <1>11, <1>12
       DEF WorkerNext

LEMMA TypedPlayerStep == Typed /\ PlayerNext => Typed'
<1> SUFFICES ASSUME Typed, PlayerNext PROVE Typed'
  OBVIOUS
<1>t. TypeOK /\ WorkerOnClaim /\ LeaseIdLeft
  BY DEF Typed
<1>i. IdlePlayer \in Player /\ IdlePlayer.pc = "idle"
  BY BoundsAssumption DEF IdlePlayer, Player, PlayerPcs
<1>s. /\ summary \in [Tasks -> [Generations -> Row]] /\ leases \in SUBSET Lease
      /\ player \in Player /\ active \in SUBSET [lease: Lease, heard: BOOLEAN]
      /\ nextLease \in 1..(MaxLeases + 1)
  BY <1>t DEF TypeOK
<1>l. /\ \A a \in active : a.lease \in Lease /\ a.heard \in BOOLEAN
      /\ \A l \in leases : l \in Lease /\ l.id \in 0..MaxLeases
      /\ \A l \in Lease : l.id \in 0..MaxLeases /\ l.task \in Tasks /\ l.generation \in Generations
  BY <1>s, BoundsAssumption DEF Lease
<1>n. player.pc # "replace" => LeaseIdLeft
  BY DEF LeaseIdLeft
<1>u. ASSUME summary' \in [Tasks -> [Generations -> Row]], leases' \in SUBSET Lease,
             nextLease' \in 1..(MaxLeases + 1), cache' \in SUBSET (Tasks \X Generations),
             player' \in Player, active' \in SUBSET [lease: Lease, heard: BOOLEAN],
             LeaseIdLeft', UNCHANGED <<hostVars, bindings, observed, coveredBy, worker>>
      PROVE  Typed'
  BY <1>t, <1>u DEF Typed, TypeOK, WorkerOnClaim, hostVars
<1>c. cache \in SUBSET (Tasks \X Generations)
  BY <1>t DEF TypeOK
<1>1. ASSUME NEW sl \in Slots, PlaybackRequested(sl) PROVE Typed'
  <2>1. player' = [IdlePlayer EXCEPT !.pc = "replace", !.slot = sl]
    BY <1>1 DEF PlaybackRequested
  <2>2. player' \in Player
    BY <2>1, <1>i DEF Player, PlayerPcs
  <2>3. LeaseIdLeft'
    BY <1>1 DEF PlaybackRequested, LeaseIdLeft, leaseVars
  <2> QED BY <1>1, <1>s, <1>c, <1>u, <2>2, <2>3 DEF PlaybackRequested, ledgerVars, leaseVars
<1>2. ASSUME NEW a \in active, ReplacePlayback(a) \/ PlaybackCancelled(a) PROVE Typed'
  <2>1. summary' \in [Tasks -> [Generations -> Row]] /\ leases' \in SUBSET Lease
    BY <1>2, <1>s, <1>l, CancelLeaseTyped DEF ReplacePlayback, PlaybackCancelled
  <2>2. LeaseIdLeft'
    BY <1>2, <1>t DEF ReplacePlayback, PlaybackCancelled, LeaseIdLeft
  <2> QED BY <1>2, <1>s, <1>c, <1>u, <2>1, <2>2 DEF ReplacePlayback, PlaybackCancelled
<1>3. CASE AcquirePlayback
  <2>1. CASE player' = IdlePlayer /\ UNCHANGED <<leases, nextLease, summary>>
    <3>1. LeaseIdLeft'
      BY <2>1, <1>i DEF LeaseIdLeft
    <3> QED BY <1>3, <2>1, <3>1, <1>i, <1>s, <1>c, <1>u DEF AcquirePlayback
  <2>2. CASE \E c \in Tasks \X Generations :
               /\ summary' = [summary EXCEPT ![c[1]][c[2]].state = "leased"]
               /\ leases' = leases \cup
                    {[id |-> nextLease, task |-> c[1], generation |-> c[2]]}
               /\ nextLease' = nextLease + 1
               /\ player' = [player EXCEPT !.pc = "load", !.lease = nextLease]
    <3>1. PICK t \in Tasks, g \in Generations :
               /\ summary' = [summary EXCEPT ![t][g].state = "leased"]
               /\ leases' = leases \cup {[id |-> nextLease, task |-> t, generation |-> g]}
               /\ nextLease' = nextLease + 1
               /\ player' = [player EXCEPT !.pc = "load", !.lease = nextLease]
      BY <2>2
    <3>2. nextLease <= MaxLeases
      BY <1>3, <1>t DEF AcquirePlayback, LeaseIdLeft
    <3>3. summary' \in [Tasks -> [Generations -> Row]]
      BY <1>s, <3>1, RowUpdate DEF RowStates
    <3>4. /\ nextLease \in 1..MaxLeases /\ nextLease' \in 1..(MaxLeases + 1)
          /\ nextLease \in 0..MaxLeases
      BY <1>s, <3>1, <3>2, BoundsAssumption
    <3>5. leases' \in SUBSET Lease
      BY <1>s, <3>1, <3>4 DEF Lease
    <3>6. player' \in Player /\ player'.pc = "load"
      BY <1>s, <3>1, <3>4 DEF Player, PlayerPcs
    <3>7. LeaseIdLeft'
      BY <3>6 DEF LeaseIdLeft
    <3> QED BY <1>3, <3>3, <3>4, <3>5, <3>6, <3>7, <1>s, <1>c, <1>u DEF AcquirePlayback
  <2> QED BY <1>3, <2>1, <2>2 DEF AcquirePlayback
<1>4. ASSUME NEW l \in leases, PlaybackStarted(l) PROVE Typed'
  <2>1. active' \in SUBSET [lease: Lease, heard: BOOLEAN]
    <3>1. active' = active \cup {[lease |-> l, heard |-> FALSE]}
      BY <1>4 DEF PlaybackStarted
    <3>2. [lease |-> l, heard |-> FALSE] \in [lease: Lease, heard: BOOLEAN]
      BY <1>s
    <3> QED BY <3>1, <3>2, <1>s
  <2>2. player' \in Player /\ LeaseIdLeft'
    BY <1>4, <1>i DEF PlaybackStarted, LeaseIdLeft
  <2> QED BY <1>4, <1>s, <1>c, <1>u, <2>1, <2>2 DEF PlaybackStarted, ledgerVars, leaseVars
<1>5. ASSUME NEW l \in leases, PlaybackNotStarted(l) PROVE Typed'
  <2>1. summary' \in [Tasks -> [Generations -> Row]] /\ leases' \in SUBSET Lease
    BY <1>5, <1>s, <1>l, CancelLeaseTyped DEF PlaybackNotStarted
  <2>2. player' \in Player /\ LeaseIdLeft'
    BY <1>5, <1>i DEF PlaybackNotStarted, LeaseIdLeft
  <2> QED BY <1>5, <1>s, <1>c, <1>u, <2>1, <2>2 DEF PlaybackNotStarted
<1>6. ASSUME NEW a \in active, PlaybackFinished(a) PROVE Typed'
  <2>1. player' = [IdlePlayer EXCEPT !.pc = "reconcile", !.lease = a.lease.id]
    BY <1>6 DEF PlaybackFinished
  <2>2. player' \in Player /\ player'.pc = "reconcile"
    BY <2>1, <1>i, <1>l DEF Player, PlayerPcs
  <2>3. summary' \in [Tasks -> [Generations -> Row]]
    <3>1. [summary EXCEPT ![a.lease.task][a.lease.generation].state = "heard"]
            \in [Tasks -> [Generations -> Row]]
      BY <1>s, <1>l, RowUpdate DEF RowStates
    <3> QED BY <1>6, <1>s, <3>1 DEF PlaybackFinished
  <2>4. leases' \in SUBSET Lease
    BY <1>6, <1>s DEF PlaybackFinished
  <2>5. [a EXCEPT !.heard = TRUE] \in [lease: Lease, heard: BOOLEAN]
    BY <1>s
  <2>6. active' \in SUBSET [lease: Lease, heard: BOOLEAN]
    BY <1>6, <1>s, <2>5 DEF PlaybackFinished
  <2>7. LeaseIdLeft'
    BY <2>2 DEF LeaseIdLeft
  <2> QED BY <1>6, <1>s, <1>c, <1>u, <2>2, <2>3, <2>4, <2>6, <2>7 DEF PlaybackFinished
<1>7. ASSUME NEW a \in active, Reconcile(a) PROVE Typed'
  <2>1. Retained \in SUBSET (Tasks \X Generations)
    BY DEF Retained
  <2>2. player' \in Player /\ LeaseIdLeft'
    BY <1>7, <1>i DEF Reconcile, LeaseIdLeft
  <2> QED BY <1>7, <1>s, <1>u, <2>1, <2>2 DEF Reconcile, ledgerVars, leaseVars
<1>8. CASE ReconcileDeferred
  <2>1. player' \in Player /\ LeaseIdLeft'
    BY <1>8, <1>i DEF ReconcileDeferred, LeaseIdLeft
  <2> QED BY <1>8, <1>s, <1>c, <1>u, <2>1 DEF ReconcileDeferred, ledgerVars, leaseVars
<1> QED BY <1>1, <1>2, <1>3, <1>4, <1>5, <1>6, <1>7, <1>8 DEF PlayerNext

LEMMA TypedStep == Typed /\ [Next]_vars => Typed'
<1> SUFFICES ASSUME Typed, [Next]_vars PROVE Typed'
  OBVIOUS
<1>t. TypeOK /\ WorkerOnClaim /\ LeaseIdLeft
  BY DEF Typed
<1>s. /\ summary \in [Tasks -> [Generations -> Row]]
      /\ \A t \in Tasks, g \in Generations : summary[t][g] \in Row
  BY <1>t DEF TypeOK
<1>u. ASSUME summary' \in [Tasks -> [Generations -> Row]], leases' \in SUBSET Lease,
             up' \in BOOLEAN,
             UNCHANGED <<crashes, bindings, observed, coveredBy, nextLease, cache, worker,
                         player, active>>
      PROVE  Typed'
  BY <1>t, <1>u DEF Typed, TypeOK, WorkerOnClaim, LeaseIdLeft
<1>1. CASE UNCHANGED vars
  BY <1>1, <1>t DEF vars, hostVars, ledgerVars, leaseVars, Typed, TypeOK, WorkerOnClaim, LeaseIdLeft
<1>2. ASSUME NEW s \in Slots, NEW t \in Tasks, SetBinding(s, t) PROVE Typed'
  BY <1>2, <1>t DEF SetBinding, hostVars, ledgerVars, leaseVars, Typed, TypeOK, WorkerOnClaim,
                    LeaseIdLeft
<1>3. ASSUME NEW t \in Tasks, CommitCompletion(t) PROVE Typed'
  <2>1. observed' \in [Tasks -> 0..MaxCompletions]
    BY <1>3, <1>t, BoundsAssumption DEF CommitCompletion, TypeOK
  <2> QED BY <1>3, <1>t, <2>1 DEF CommitCompletion, hostVars, leaseVars, Typed, TypeOK,
                                  WorkerOnClaim, LeaseIdLeft
<1>4. CASE Crash
  <2>1. worker' \in Worker /\ worker'.pc = "scan"
    BY <1>4, BoundsAssumption DEF Crash, IdleWorker, Worker, WorkerPcs
  <2>2. player' \in Player /\ player'.pc = "idle"
    BY <1>4, BoundsAssumption DEF Crash, IdlePlayer, Player, PlayerPcs
  <2>3. up' \in BOOLEAN /\ crashes' \in 0..MaxCrashes /\ active' = {}
    <3>1. crashes \in 0..MaxCrashes
      BY <1>t DEF TypeOK
    <3>2. crashes < MaxCrashes /\ crashes' = crashes + 1 /\ up' = FALSE /\ active' = {}
      BY <1>4 DEF Crash
    <3>3. crashes' \in 0..MaxCrashes
      BY <3>1, <3>2, BoundsAssumption
    <3> QED BY <3>2, <3>3
  <2>4. UNCHANGED <<bindings, observed, coveredBy, summary, leases, nextLease, cache>>
    BY <1>4 DEF Crash, ledgerVars, leaseVars
  <2> QED BY <1>t, <2>1, <2>2, <2>3, <2>4 DEF Typed, TypeOK, WorkerOnClaim, LeaseIdLeft
<1>5. CASE OpenStore
  BY <1>5, <1>s, <1>u, RecoveredTyped DEF OpenStore
<1>6. ASSUME NEW t \in Tasks, NEW g \in Generations, OperatorAbandon(t, g) PROVE Typed'
  <2>1. Recovered \in [Tasks -> [Generations -> Row]] /\ Recovered[t][g] \in Row
    BY <1>s, RecoveredTyped
  <2>2. Abandoned(Recovered[t][g]) \in Row
    BY <2>1, RowMoves
  <2>3. summary' \in [Tasks -> [Generations -> Row]] /\ leases' = {} /\ up' = up
    BY <1>6, <2>1, <2>2 DEF OperatorAbandon, hostVars
  <2> QED BY <1>6, <1>t, <1>u, <2>3 DEF OperatorAbandon, hostVars, TypeOK
<1>7. ASSUME NEW t \in Tasks, NEW g \in Generations, CleanStale(t, g) PROVE Typed'
  <2>1. summary' \in [Tasks -> [Generations -> Row]]
    BY <1>7, <1>s, RowUpdate DEF CleanStale, RowStates
  <2> QED BY <1>7, <1>t, <1>u, <2>1 DEF CleanStale, hostVars, leaseVars, TypeOK
<1> QED BY <1>1, <1>2, <1>3, <1>4, <1>5, <1>6, <1>7, TypedWorkerStep, TypedPlayerStep DEF Next

\* Every table, thread and map of the Host keeps its type through every step and crash.
THEOREM TypeCorrect == Spec => []TypeOK
<1>1. Typed => TypeOK
  BY DEF Typed
<1> QED BY <1>1, TypedInit, TypedStep, PTL DEF Spec

-----------------------------------------------------------------------------
(* What a step may do to the rows of summary_ledger.  Only a publication   *)
(* makes a row playable or moves a completion, and only claim_summary      *)
(* makes one active; every other step keeps each row in the sense of Kept. *)

Playable(row) == row.state \in {"unheard", "leased"}
Readable(row) == Playable(row) /\ row.supersededBy = 0
Active(row) == row.state \in {"generating", "interrupted"}

Kept(row, new) ==
  /\ row.state = "heard" => new.state = "heard"
  /\ Readable(row) => Readable(new) \/ new.state = "heard"
  /\ Active(new) => Active(row) /\ new.supersededBy = row.supersededBy /\ new.covers = row.covers
  /\ Playable(new) => Playable(row) /\ new.supersededBy = row.supersededBy

RowsKept == \A t \in Tasks, g \in Generations : Kept(summary[t][g], summary'[t][g])

LEMMA CurrentUnreadIsReadable ==
  ASSUME NEW t \in Tasks, NEW g \in Generations
  PROVE  /\ g \in CurrentUnread(t) <=> Readable(summary[t][g])
         /\ (g \in CurrentUnread(t))' <=> Readable(summary'[t][g])
BY DEF CurrentUnread, StateOf, Readable, Playable

LEMMA KeptSame == \A row : Kept(row, row)
BY DEF Kept

LEMMA OneRowKept ==
  ASSUME summary \in [Tasks -> [Generations -> Row]],
         NEW t \in Tasks, NEW g \in Generations, NEW r,
         summary' = [summary EXCEPT ![t][g] = r], Kept(summary[t][g], r)
  PROVE  RowsKept
<1> SUFFICES ASSUME NEW u \in Tasks, NEW h \in Generations
             PROVE  Kept(summary[u][h], summary'[u][h])
  BY DEF RowsKept
<1>1. CASE u = t /\ h = g
  BY <1>1
<1>2. CASE ~(u = t /\ h = g)
  BY <1>2, KeptSame
<1> QED BY <1>1, <1>2

\* The same for a step that writes the state column of one row.
LEMMA OneStateKept ==
  ASSUME summary \in [Tasks -> [Generations -> Row]],
         NEW t \in Tasks, NEW g \in Generations, NEW st \in RowStates,
         summary' = [summary EXCEPT ![t][g].state = st],
         \/ Active(summary[t][g]) /\ st \in {"generating", "interrupted", "abandoned"}
         \/ Playable(summary[t][g]) /\ st \in {"leased", "heard"}
         \/ summary[t][g].state = "leased" /\ st = Released(summary[t][g])
         \/ st = summary[t][g].state
  PROVE  RowsKept
<1> DEFINE row == summary[t][g]
           new == [row EXCEPT !.state = st]
<1>1. row \in Row
  OBVIOUS
<1>2. new.state = st /\ new.supersededBy = row.supersededBy /\ new.covers = row.covers
  BY <1>1 DEF Row
<1>3. Kept(row, new)
  BY <1>2 DEF Kept, Readable, Playable, Active, Released
<1>4. summary' = [summary EXCEPT ![t][g] = new]
  OBVIOUS
<1> HIDE DEF new
<1> QED BY <1>3, <1>4, OneRowKept

LEMMA CancelKeepsRows ==
  ASSUME summary \in [Tasks -> [Generations -> Row]], NEW l \in Lease, CancelLease(l)
  PROVE  RowsKept
<1> DEFINE row == summary[l.task][l.generation]
           st == IF l \in leases /\ row.state = "leased" THEN Released(row) ELSE row.state
<1>1. l.task \in Tasks /\ l.generation \in Generations
  BY DEF Lease
<1>2. st \in RowStates
  BY <1>1 DEF Released, Row, RowStates
<1>3. summary' = [summary EXCEPT ![l.task][l.generation].state = st]
  BY DEF CancelLease
<1>4. \/ row.state = "leased" /\ st = Released(row)
      \/ st = row.state
  OBVIOUS
<1> HIDE DEF st
<1> QED BY <1>1, <1>2, <1>3, <1>4, OneStateKept

LEMMA RecoveredKeepsRows ==
  ASSUME summary \in [Tasks -> [Generations -> Row]],
         NEW t \in Tasks, NEW g \in Generations
  PROVE  /\ Kept(summary[t][g], Recovered[t][g])
         /\ Recovered[t][g].supersededBy = summary[t][g].supersededBy
         /\ Active(Recovered[t][g]) <=> Active(summary[t][g])
<1> DEFINE row == summary[t][g]
           st == IF row.state = "generating" THEN "interrupted"
                 ELSE IF row.state = "leased" THEN Released(row) ELSE row.state
<1>1. row \in Row
  OBVIOUS
<1>2. Recovered[t][g] = [row EXCEPT !.state = st]
  BY DEF Recovered
<1>3. /\ Recovered[t][g].state = st /\ Recovered[t][g].supersededBy = row.supersededBy
      /\ Recovered[t][g].covers = row.covers
  BY <1>1, <1>2 DEF Row
<1> QED BY <1>3 DEF Kept, Readable, Playable, Active, Released

\* The worker publishes the claim it is on, whose object is stored when it takes this step
\* with ClaimObject in the cache.
PublishStep ==
  /\ worker.task \in Tasks /\ worker.generation \in Generations
  /\ worker.pc \in {"recover", "publish"}
  /\ worker.pc = "recover" => ClaimObject \in cache
  /\ CanPublish(worker.task, worker.generation)
  /\ Publish(worker.task, worker.generation)
  /\ UNCHANGED cache /\ worker'.pc = "scan"

KeepStep == RowsKept /\ UNCHANGED coveredBy

\* What claim_summary writes.
NewClaim(t, p) ==
  [state |-> "generating", covers |-> Batch(t), previous |-> p, supersededBy |-> 0, tts |-> FALSE]

ClaimStep ==
  /\ worker.task \in Tasks /\ worker'.pc = "recover"
  /\ Pending(worker.task) # {} /\ ActiveClaims(worker.task) = {}
  /\ \E g \in Generations, p \in 0..MaxGeneration :
       /\ summary[worker.task][g].state = "none"
       /\ summary' = [summary EXCEPT ![worker.task][g] = NewClaim(worker.task, p)]
       /\ worker'.task = worker.task /\ worker'.generation = g
  /\ UNCHANGED <<coveredBy, observed, cache, leases, active, player, up>>

LEMMA ClaimIsClaimStep == Typed /\ (\E g \in Generations : ClaimSummary(g)) => ClaimStep
<1> SUFFICES ASSUME Typed, NEW g \in Generations, ClaimSummary(g) PROVE ClaimStep
  OBVIOUS
<1> DEFINE t == worker.task
<1>1. t \in Tasks /\ worker \in Worker
  BY DEF Typed, TypeOK, WorkerOnClaim, ClaimSummary, At
<1>2. PICK p \in IF CurrentUnread(t) = {} THEN {0} ELSE CurrentUnread(t) :
        summary' = [summary EXCEPT ![t][g] = NewClaim(t, p)]
  BY DEF ClaimSummary, NewClaim
<1>3. p \in 0..MaxGeneration
  BY BoundsAssumption DEF CurrentUnread
<1>4. summary[t][g].state = "none" /\ Pending(t) # {} /\ ActiveClaims(t) = {}
  BY DEF ClaimSummary, IsNextGeneration, StateOf
<1>5. worker' = [worker EXCEPT !.pc = "recover", !.generation = g, !.resumed = FALSE]
  BY DEF ClaimSummary
<1>6. worker'.task = t /\ worker'.generation = g /\ worker'.pc = "recover"
  BY <1>1, <1>5 DEF Worker
<1>7. UNCHANGED <<coveredBy, observed, cache, leases, active, player, up>>
  BY DEF ClaimSummary, hostVars, leaseVars
<1> QED BY <1>1, <1>2, <1>3, <1>4, <1>6, <1>7 DEF ClaimStep

\* The rows after a claim: one more, and the rest untouched.
LEMMA ClaimRows ==
  ASSUME Typed, ClaimStep
  PROVE  \E g \in Generations, p \in 0..MaxGeneration :
           /\ summary[worker.task][g].state = "none"
           /\ summary'[worker.task][g] = NewClaim(worker.task, p)
           /\ worker'.task = worker.task /\ worker'.generation = g
           /\ \A u \in Tasks, h \in Generations :
                ~(u = worker.task /\ h = g) => summary'[u][h] = summary[u][h]
<1>1. PICK g \in Generations, p \in 0..MaxGeneration :
       /\ summary[worker.task][g].state = "none"
       /\ summary' = [summary EXCEPT ![worker.task][g] = NewClaim(worker.task, p)]
       /\ worker'.task = worker.task /\ worker'.generation = g
  BY DEF ClaimStep
<1>2. worker.task \in Tasks /\ summary \in [Tasks -> [Generations -> Row]]
  BY DEF ClaimStep, Typed, TypeOK
<1>3. summary'[worker.task][g] = NewClaim(worker.task, p)
  BY <1>1, <1>2
<1>4. \A u \in Tasks, h \in Generations :
        ~(u = worker.task /\ h = g) => summary'[u][h] = summary[u][h]
  BY <1>1, <1>2
<1> QED BY <1>1, <1>3, <1>4

LEMMA WorkerRows ==
  Typed /\ WorkerNext => PublishStep \/ ClaimStep \/ (KeepStep /\ UNCHANGED observed)
<1> SUFFICES ASSUME Typed, WorkerNext, ~PublishStep, ~ClaimStep
             PROVE  KeepStep /\ UNCHANGED observed
  OBVIOUS
<1>t. TypeOK /\ WorkerOnClaim
  BY DEF Typed
<1>s. summary \in [Tasks -> [Generations -> Row]]
  BY <1>t DEF TypeOK
<1>o. worker.pc # "scan" => worker.task \in Tasks
  BY <1>t DEF WorkerOnClaim
<1>g. worker.pc \notin {"scan", "claim"} => worker.generation \in Generations
  BY <1>t DEF WorkerOnClaim
<1>v. ASSUME UNCHANGED ledgerVars PROVE KeepStep /\ UNCHANGED observed
  BY <1>v, KeptSame DEF KeepStep, RowsKept, ledgerVars
<1>1. ASSUME NEW t \in Tasks, NEW g \in Generations, ResumeClaim(t, g)
      PROVE  KeepStep /\ UNCHANGED observed
  <2>1. Active(summary[t][g]) /\ "generating" \in RowStates
    BY <1>1 DEF ResumeClaim, Interrupted, StateOf, Active, RowStates
  <2>2. RowsKept
    BY <1>1, <1>s, <2>1, OneStateKept DEF ResumeClaim
  <2> QED BY <1>1, <2>2 DEF ResumeClaim, KeepStep
<1>2. ASSUME NEW g \in Generations, ClaimSummary(g) PROVE KeepStep /\ UNCHANGED observed
  BY <1>2, ClaimIsClaimStep
<1>3. CASE RecoverPublished \/ PublishSummary
  <2>1. worker'.pc = "scan"
    BY <1>3 DEF RecoverPublished, PublishSummary, WorkerIdle, IdleWorker
  <2> QED BY <1>3, <2>1, <1>o, <1>g DEF RecoverPublished, PublishSummary, PublishStep, At
<1>4. CASE BeginTtsAttempt
  <2> DEFINE t == worker.task
             g == worker.generation
             new == [summary[t][g] EXCEPT !.tts = TRUE]
  <2>1. t \in Tasks /\ g \in Generations
    BY <1>4, <1>o, <1>g DEF BeginTtsAttempt, At
  <2>2. /\ new.state = summary[t][g].state /\ new.supersededBy = summary[t][g].supersededBy
        /\ new.covers = summary[t][g].covers
    <3>1. \A row \in Row : /\ [row EXCEPT !.tts = TRUE].state = row.state
                           /\ [row EXCEPT !.tts = TRUE].supersededBy = row.supersededBy
                           /\ [row EXCEPT !.tts = TRUE].covers = row.covers
      BY DEF Row
    <3> QED BY <1>s, <2>1, <3>1
  <2>3. Kept(summary[t][g], new)
    BY <2>2 DEF Kept, Readable, Playable, Active
  <2>4. [summary EXCEPT ![t][g].tts = TRUE] = [summary EXCEPT ![t][g] = new]
    OBVIOUS
  <2>5. CASE summary' = [summary EXCEPT ![t][g].tts = TRUE]
    <3> HIDE DEF new
    <3>1. RowsKept
      BY <1>s, <2>1, <2>3, <2>4, <2>5, OneRowKept
    <3> QED BY <1>4, <3>1 DEF BeginTtsAttempt, KeepStep
  <2>6. CASE UNCHANGED summary
    BY <1>4, <2>6, KeptSame DEF BeginTtsAttempt, KeepStep, RowsKept
  <2> QED BY <1>4, <2>5, <2>6 DEF BeginTtsAttempt
<1>5. CASE Abandon
  <2> DEFINE t == worker.task
             g == worker.generation
             new == Abandoned(summary[t][g])
  <2>1. t \in Tasks /\ g \in Generations
    BY <1>5, <1>o, <1>g DEF Abandon, At
  <2>2. CASE g \in ActiveClaims(t) /\ summary' = [summary EXCEPT ![t][g] = new]
    <3>1. \A row \in Row : /\ Abandoned(row).state = "abandoned"
                           /\ Abandoned(row).supersededBy = row.supersededBy
      BY DEF Row, Abandoned
    <3>2. new.state = "abandoned" /\ Active(summary[t][g])
      BY <1>s, <2>1, <2>2, <3>1 DEF ActiveClaims, StateOf, Active
    <3>3. Kept(summary[t][g], new)
      BY <3>2 DEF Kept, Readable, Playable, Active
    <3> HIDE DEF new
    <3>4. RowsKept
      BY <1>s, <2>1, <2>2, <3>3, OneRowKept
    <3> QED BY <1>5, <3>4 DEF Abandon, KeepStep
  <2>3. CASE UNCHANGED summary
    BY <1>5, <2>3, KeptSame DEF Abandon, KeepStep, RowsKept
  <2> QED BY <1>5, <2>2, <2>3 DEF Abandon, Claimed
<1>6. CASE StoreObject \/ StoreFailed
  BY <1>6, <1>v DEF StoreObject, StoreFailed
<1>7. CASE \/ WorkerScan \/ ClaimNothing \/ RecoverRejected \/ RecoverMissing \/ LoadPrevious
           \/ Generated \/ Synthesized \/ ExternalFailure \/ PublishRejected
           \/ \E t \in Tasks : ResumeNothing(t)
           \/ \E t \in Tasks, g \in Generations : ResumeRejected(t, g)
  <2>1. workerOnly
    BY <1>7 DEF WorkerScan, ClaimNothing, RecoverRejected, RecoverMissing, LoadPrevious,
         Generated, Synthesized, ExternalFailure, PublishRejected, ResumeNothing, ResumeRejected
  <2> QED BY <1>v, <2>1 DEF workerOnly
<1> QED BY <1>1, <1>2, <1>3, <1>4, <1>5, <1>6, <1>7 DEF WorkerNext

LEMMA PlayerRows == Typed /\ PlayerNext => KeepStep /\ UNCHANGED observed
<1> SUFFICES ASSUME Typed, PlayerNext PROVE KeepStep /\ UNCHANGED observed
  OBVIOUS
<1>s. /\ summary \in [Tasks -> [Generations -> Row]]
      /\ leases \in SUBSET Lease /\ active \in SUBSET [lease: Lease, heard: BOOLEAN]
  BY DEF Typed, TypeOK
<1>l. /\ \A a \in active : a.lease \in Lease
      /\ \A l \in Lease : l.task \in Tasks /\ l.generation \in Generations
  BY <1>s DEF Lease
<1>v. ASSUME UNCHANGED ledgerVars PROVE KeepStep /\ UNCHANGED observed
  BY <1>v, KeptSame DEF KeepStep, RowsKept, ledgerVars
<1>w. ASSUME UNCHANGED summary PROVE RowsKept
  BY <1>w, KeptSame DEF RowsKept
<1>1. ASSUME NEW sl \in Slots, PlaybackRequested(sl) PROVE KeepStep /\ UNCHANGED observed
  BY <1>1, <1>v DEF PlaybackRequested
<1>2. ASSUME NEW a \in active, ReplacePlayback(a) \/ PlaybackCancelled(a)
      PROVE  KeepStep /\ UNCHANGED observed
  <2>1. CancelLease(a.lease) \/ UNCHANGED summary
    BY <1>2 DEF ReplacePlayback, PlaybackCancelled
  <2>2. RowsKept
    BY <1>s, <1>l, <1>w, <2>1, CancelKeepsRows
  <2> QED BY <1>2, <2>2 DEF ReplacePlayback, PlaybackCancelled, KeepStep
<1>3. CASE AcquirePlayback
  <2>1. CASE UNCHANGED summary
    BY <1>3, <1>w, <2>1 DEF AcquirePlayback, KeepStep
  <2>2. CASE \E c \in Tasks \X Generations :
               /\ StateOf(c[1], c[2]) = "unheard"
               /\ summary' = [summary EXCEPT ![c[1]][c[2]].state = "leased"]
    <3>1. PICK t \in Tasks, g \in Generations :
             /\ StateOf(t, g) = "unheard"
             /\ summary' = [summary EXCEPT ![t][g].state = "leased"]
      BY <2>2
    <3>2. Playable(summary[t][g]) /\ "leased" \in RowStates
      BY <3>1 DEF Playable, StateOf, RowStates
    <3>3. RowsKept
      BY <1>s, <3>1, <3>2, OneStateKept
    <3> QED BY <1>3, <3>3 DEF AcquirePlayback, KeepStep
  <2> QED BY <1>3, <2>1, <2>2 DEF AcquirePlayback
<1>4. ASSUME NEW l \in leases, PlaybackStarted(l) PROVE KeepStep /\ UNCHANGED observed
  BY <1>4, <1>v DEF PlaybackStarted
<1>5. ASSUME NEW l \in leases, PlaybackNotStarted(l) PROVE KeepStep /\ UNCHANGED observed
  <2>1. RowsKept
    BY <1>5, <1>s, CancelKeepsRows DEF PlaybackNotStarted
  <2> QED BY <1>5, <2>1 DEF PlaybackNotStarted, KeepStep
<1>6. ASSUME NEW a \in active, PlaybackFinished(a) PROVE KeepStep /\ UNCHANGED observed
  <2> DEFINE t == a.lease.task
             g == a.lease.generation
  <2>0. t \in Tasks /\ g \in Generations
    BY <1>l
  <2>1. CASE UNCHANGED summary
    BY <1>6, <1>w, <2>1 DEF PlaybackFinished, KeepStep
  <2>2. CASE /\ StateOf(t, g) = "leased"
             /\ summary' = [summary EXCEPT ![t][g].state = "heard"]
    <3>1. Playable(summary[t][g]) /\ "heard" \in RowStates
      BY <2>2 DEF Playable, StateOf, RowStates
    <3>2. RowsKept
      BY <1>s, <2>0, <2>2, <3>1, OneStateKept
    <3> QED BY <1>6, <3>2 DEF PlaybackFinished, KeepStep
  <2> QED BY <1>6, <2>1, <2>2 DEF PlaybackFinished
<1>7. ASSUME NEW a \in active, Reconcile(a) PROVE KeepStep /\ UNCHANGED observed
  BY <1>7, <1>v DEF Reconcile
<1>8. CASE ReconcileDeferred
  BY <1>8, <1>v DEF ReconcileDeferred
<1> QED BY <1>1, <1>2, <1>3, <1>4, <1>5, <1>6, <1>7, <1>8 DEF PlayerNext

LEMMA StepRows ==
  Typed /\ [Next]_vars =>
    \/ PublishStep \/ ClaimStep
    \/ KeepStep /\ UNCHANGED observed
    \/ \E t \in Tasks : CommitCompletion(t)
<1> SUFFICES ASSUME Typed, [Next]_vars, ~ \E t \in Tasks : CommitCompletion(t)
             PROVE  PublishStep \/ ClaimStep \/ (KeepStep /\ UNCHANGED observed)
  OBVIOUS
<1>s. summary \in [Tasks -> [Generations -> Row]]
  BY DEF Typed, TypeOK
<1>v. ASSUME UNCHANGED ledgerVars PROVE KeepStep /\ UNCHANGED observed
  BY <1>v, KeptSame DEF KeepStep, RowsKept, ledgerVars
<1>1. CASE UNCHANGED vars \/ Crash \/ \E s \in Slots, t \in Tasks : SetBinding(s, t)
  BY <1>1, <1>v DEF vars, Crash, SetBinding
<1>2. CASE OpenStore
  <2>1. RowsKept
    BY <1>2, <1>s, RecoveredKeepsRows DEF OpenStore, RowsKept
  <2> QED BY <1>2, <2>1 DEF OpenStore, KeepStep
<1>3. ASSUME NEW t \in Tasks, NEW g \in Generations, OperatorAbandon(t, g)
      PROVE  KeepStep /\ UNCHANGED observed
  <2>1. /\ Recovered \in [Tasks -> [Generations -> Row]]
        /\ summary' = [Recovered EXCEPT ![t][g] = Abandoned(Recovered[t][g])]
    BY <1>3, <1>s, RecoveredTyped DEF OperatorAbandon
  <2>2. Active(summary[t][g])
    BY <1>3 DEF OperatorAbandon, ActiveClaims, StateOf, Active
  <2>3. Abandoned(Recovered[t][g]).state = "abandoned"
    <3>1. \A row \in Row : Abandoned(row).state = "abandoned"
      BY DEF Row, Abandoned
    <3> QED BY <2>1, <3>1
  <2>4. Kept(summary[t][g], summary'[t][g])
    <3>1. summary'[t][g] = Abandoned(Recovered[t][g])
      BY <2>1
    <3> QED BY <2>2, <2>3, <3>1 DEF Kept, Readable, Playable, Active
  <2>5. ASSUME NEW u \in Tasks, NEW h \in Generations, ~(u = t /\ h = g)
        PROVE  Kept(summary[u][h], summary'[u][h])
    <3>1. summary'[u][h] = Recovered[u][h]
      BY <2>1, <2>5
    <3> QED BY <1>s, <3>1, RecoveredKeepsRows
  <2>6. RowsKept
    BY <2>4, <2>5 DEF RowsKept
  <2> QED BY <1>3, <2>6 DEF OperatorAbandon, KeepStep
<1>4. ASSUME NEW t \in Tasks, NEW g \in Generations, CleanStale(t, g)
      PROVE  KeepStep /\ UNCHANGED observed
  <2>1. Active(summary[t][g]) /\ "abandoned" \in RowStates
    BY <1>4 DEF CleanStale, ActiveClaims, StateOf, Active, RowStates
  <2>2. RowsKept
    BY <1>4, <1>s, <2>1, OneStateKept DEF CleanStale
  <2> QED BY <1>4, <2>2 DEF CleanStale, KeepStep
<1> QED BY <1>1, <1>2, <1>3, <1>4, WorkerRows, PlayerRows DEF Next

-----------------------------------------------------------------------------
(* No completion is lost.  The invariant is inductive once it is known     *)
(* that a completion not observed yet has no generation, and that the row  *)
(* a claim will publish has not been superseded.                           *)

NoneCoveredEarly ==
  \A t \in Tasks, k \in Completions : k > observed[t] => coveredBy[t][k] = 0

ActiveNotSuperseded ==
  \A t \in Tasks, g \in Generations : Active(summary[t][g]) => summary[t][g].supersededBy = 0

\* NoCompletionLost in terms of rows.
CoveredKept ==
  \A t \in Tasks, k \in Completions :
    coveredBy[t][k] # 0 => \/ summary[t][coveredBy[t][k]].state = "heard"
                           \/ Readable(summary[t][coveredBy[t][k]])

CoverInv == NoneCoveredEarly /\ ActiveNotSuperseded /\ CoveredKept

LEMMA CoverInvImpliesNoCompletionLost == Typed /\ CoverInv => NoCompletionLost
<1> SUFFICES ASSUME Typed, CoverInv, NEW t \in Tasks, NEW k \in 1..observed[t],
                    coveredBy[t][k] # 0
             PROVE  \/ StateOf(t, coveredBy[t][k]) = "heard"
                    \/ coveredBy[t][k] \in CurrentUnread(t)
  BY DEF NoCompletionLost
<1>1. observed[t] \in 0..MaxCompletions /\ coveredBy[t] \in [Completions -> 0..MaxGeneration]
  BY DEF Typed, TypeOK
<1>2. k \in Completions
  BY <1>1, BoundsAssumption
<1>3. coveredBy[t][k] \in Generations
  BY <1>1, <1>2, BoundsAssumption
<1> QED BY <1>2, <1>3, CurrentUnreadIsReadable DEF CoverInv, CoveredKept, StateOf

LEMMA CoverInit == Init => CoverInv
BY DEF Init, CoverInv, NoneCoveredEarly, ActiveNotSuperseded, CoveredKept, NoRow, Active

LEMMA CoverPublish == Typed /\ CoverInv /\ PublishStep => CoverInv'
<1> SUFFICES ASSUME Typed, CoverInv, PublishStep PROVE CoverInv'
  OBVIOUS
<1> DEFINE t == worker.task
           g == worker.generation
           row == summary[t][g]
<1>1. t \in Tasks /\ g \in Generations
  BY DEF PublishStep
<1>2. /\ summary \in [Tasks -> [Generations -> Row]]
      /\ coveredBy \in [Tasks -> [Completions -> 0..MaxGeneration]]
      /\ observed \in [Tasks -> 0..MaxCompletions]
  BY DEF Typed, TypeOK
<1>3. /\ row.state = "generating" /\ row.covers \subseteq Pending(t)
      /\ CurrentUnread(t) = IF row.previous = 0 THEN {} ELSE {row.previous}
  BY DEF PublishStep, CanPublish
<1>4. row.supersededBy = 0 /\ row \in Row
  BY <1>1, <1>2, <1>3 DEF CoverInv, ActiveNotSuperseded, Active
<1>5. /\ summary' = [summary EXCEPT ![t] = Published(t, g)]
      /\ coveredBy' = [coveredBy EXCEPT ![t] = Reassigned(t, g)]
      /\ observed' = observed
  BY DEF PublishStep, Publish
<1>6. /\ summary'[t] = Published(t, g) /\ coveredBy'[t] = Reassigned(t, g)
      /\ \A u \in Tasks : u # t => summary'[u] = summary[u] /\ coveredBy'[u] = coveredBy[u]
  BY <1>1, <1>2, <1>5
<1>7. /\ Published(t, g)[g].state = "unheard" /\ Published(t, g)[g].supersededBy = 0
      /\ \A h \in Generations : h # g /\ h # row.previous => Published(t, g)[h] = summary[t][h]
  <2>1. Published(t, g)[g] = [row EXCEPT !.state = "unheard", !.tts = FALSE]
    BY <1>1 DEF Published
  <2> QED BY <1>1, <1>4, <2>1 DEF Published, Row
<1>8. ASSUME NEW k \in Completions
      PROVE  Reassigned(t, g)[k] = IF \/ k \in row.covers
                                      \/ row.previous # 0 /\ coveredBy[t][k] = row.previous
                                   THEN g ELSE coveredBy[t][k]
  BY DEF Reassigned
<1>9. NoneCoveredEarly'
  <2> SUFFICES ASSUME NEW u \in Tasks, NEW k \in Completions, k > observed[u]
               PROVE  coveredBy'[u][k] = 0
    BY <1>5 DEF NoneCoveredEarly
  <2>1. coveredBy[u][k] = 0
    BY DEF CoverInv, NoneCoveredEarly
  <2>2. CASE u = t
    <3>1. k \notin row.covers
      BY <1>2, <1>3, <2>2 DEF Pending
    <3> QED BY <1>6, <1>8, <2>1, <2>2, <3>1
  <2> QED BY <1>6, <2>1, <2>2
<1>10. ActiveNotSuperseded'
  <2> SUFFICES ASSUME NEW u \in Tasks, NEW h \in Generations, Active(summary'[u][h])
               PROVE  summary'[u][h].supersededBy = 0
    BY DEF ActiveNotSuperseded
  <2>1. CASE u # t \/ (h # g /\ h # row.previous)
    BY <1>6, <1>7, <2>1 DEF CoverInv, ActiveNotSuperseded
  <2>2. CASE u = t /\ h = g
    BY <1>6, <1>7, <2>2
  <2>3. CASE u = t /\ h = row.previous /\ h # g
    <3>1. Readable(summary[t][h])
      <4>1. h \in CurrentUnread(t)
        BY <1>3, <2>3 DEF Generations
      <4> QED BY <1>1, <4>1, CurrentUnreadIsReadable, Zenon
    <3>2. summary'[u][h] = Replaced(summary[t][h], g)
      BY <1>6, <2>3 DEF Published
    <3>3. summary'[u][h].state \in {"superseded", "leased"}
      BY <1>1, <1>2, <3>1, <3>2 DEF Replaced, Readable, Playable, Row
    <3> QED BY <3>3 DEF Active
  <2> QED BY <2>1, <2>2, <2>3
<1>11. CoveredKept'
  <2> SUFFICES ASSUME NEW u \in Tasks, NEW k \in Completions, coveredBy'[u][k] # 0
               PROVE  \/ summary'[u][coveredBy'[u][k]].state = "heard"
                      \/ Readable(summary'[u][coveredBy'[u][k]])
    BY DEF CoveredKept
  <2>1. CASE u # t
    BY <1>6, <2>1 DEF CoverInv, CoveredKept
  <2>2. CASE u = t /\ coveredBy'[u][k] = g
    BY <1>6, <1>7, <2>2 DEF Readable, Playable
  <2>3. CASE u = t /\ coveredBy'[u][k] # g
    <3> DEFINE h == coveredBy[t][k]
    <3>1. coveredBy'[u][k] = h /\ ~(row.previous # 0 /\ h = row.previous)
      BY <1>6, <1>8, <2>3
    <3>2. h \in Generations /\ h # 0 /\ h # g
      BY <1>1, <1>2, <2>3, <3>1, BoundsAssumption
    <3>3. h \notin CurrentUnread(t)
      BY <1>3, <3>1, <3>2
    <3>4. summary[t][h].state = "heard"
      BY <1>1, <3>2, <3>3, CurrentUnreadIsReadable DEF CoverInv, CoveredKept
    <3>5. h # row.previous
      BY <3>1, <3>2
    <3> QED BY <1>6, <1>7, <2>3, <3>1, <3>2, <3>4, <3>5
  <2> QED BY <2>1, <2>2, <2>3
<1> QED BY <1>9, <1>10, <1>11 DEF CoverInv

LEMMA CoverStep == Typed /\ CoverInv /\ [Next]_vars => CoverInv'
<1> SUFFICES ASSUME Typed, CoverInv, [Next]_vars PROVE CoverInv'
  OBVIOUS
<1>t. /\ observed \in [Tasks -> 0..MaxCompletions]
      /\ coveredBy \in [Tasks -> [Completions -> 0..MaxGeneration]]
  BY DEF Typed, TypeOK
<1>1. CASE PublishStep
  BY <1>1, CoverPublish
<1>2. CASE KeepStep /\ UNCHANGED observed
  <2>1. NoneCoveredEarly'
    BY <1>2 DEF CoverInv, NoneCoveredEarly, KeepStep
  <2>2. ActiveNotSuperseded'
    BY <1>2 DEF CoverInv, ActiveNotSuperseded, KeepStep, RowsKept, Kept
  <2>3. CoveredKept'
    <3> SUFFICES ASSUME NEW t \in Tasks, NEW k \in Completions, coveredBy[t][k] # 0
                 PROVE  \/ summary'[t][coveredBy[t][k]].state = "heard"
                        \/ Readable(summary'[t][coveredBy[t][k]])
      BY <1>2 DEF CoveredKept, KeepStep
    <3>1. coveredBy[t][k] \in Generations
      BY <1>t, BoundsAssumption
    <3> QED BY <1>2, <3>1 DEF CoverInv, CoveredKept, KeepStep, RowsKept, Kept
  <2> QED BY <2>1, <2>2, <2>3 DEF CoverInv
<1>3. ASSUME NEW t \in Tasks, CommitCompletion(t) PROVE CoverInv'
  <2>1. /\ observed' = [observed EXCEPT ![t] = observed[t] + 1]
        /\ coveredBy' = coveredBy /\ summary' = summary
    BY <1>3 DEF CommitCompletion
  <2>2. \A u \in Tasks : observed'[u] >= observed[u]
    BY <1>t, <2>1, BoundsAssumption
  <2>3. \A u \in Tasks : observed[u] \in Int /\ observed'[u] \in Int
    BY <1>t, <2>1, BoundsAssumption
  <2> QED BY <2>1, <2>2, <2>3, BoundsAssumption
          DEF CoverInv, NoneCoveredEarly, ActiveNotSuperseded, CoveredKept
<1>4. CASE ClaimStep
  <2>1. UNCHANGED <<observed, coveredBy>>
    BY <1>4 DEF ClaimStep
  <2>2. PICK u \in Tasks, g \in Generations, p \in 0..MaxGeneration :
          /\ summary[u][g].state = "none" /\ summary'[u][g] = NewClaim(u, p)
          /\ \A v \in Tasks, h \in Generations :
               ~(v = u /\ h = g) => summary'[v][h] = summary[v][h]
    BY <1>4, ClaimRows DEF ClaimStep
  <2>3. /\ summary'[u][g].supersededBy = 0 /\ ~Readable(summary[u][g])
        /\ summary[u][g].state # "heard"
    BY <2>2 DEF NewClaim, Readable, Playable
  <2>4. \A t \in Tasks, k \in Completions : coveredBy[t][k] # 0 => coveredBy[t][k] \in Generations
    BY <1>t, BoundsAssumption
  <2>5. CoveredKept'
    <3> SUFFICES ASSUME NEW t \in Tasks, NEW k \in Completions, coveredBy[t][k] # 0
                 PROVE  \/ summary'[t][coveredBy[t][k]].state = "heard"
                        \/ Readable(summary'[t][coveredBy[t][k]])
      BY <2>1 DEF CoveredKept
    <3> QED BY <2>2, <2>3, <2>4 DEF CoverInv, CoveredKept
  <2>6. ActiveNotSuperseded'
    <3> SUFFICES ASSUME NEW t \in Tasks, NEW h \in Generations, Active(summary'[t][h])
                 PROVE  summary'[t][h].supersededBy = 0
      BY DEF ActiveNotSuperseded
    <3> QED BY <2>2, <2>3 DEF CoverInv, ActiveNotSuperseded
  <2> QED BY <2>1, <2>5, <2>6 DEF CoverInv, NoneCoveredEarly
<1> QED BY <1>1, <1>2, <1>3, <1>4, StepRows

\* Whatever the worker, the playbacks, the cleaner and crashes do, a completion folded into a
\* generation is heard or still in the summary the mailbox shows (publish_summary).
THEOREM CompletionsAreKept == Spec => []NoCompletionLost
<1>1. Init => Typed /\ CoverInv
  BY TypedInit, CoverInit
<1>2. Typed /\ CoverInv /\ [Next]_vars => (Typed /\ CoverInv)'
  BY TypedStep, CoverStep
<1>3. Typed /\ CoverInv => NoCompletionLost
  BY CoverInvImpliesNoCompletionLost
<1> QED BY <1>1, <1>2, <1>3, PTL DEF Spec

-----------------------------------------------------------------------------
(* The object behind every playable row.  Between storing an object and    *)
(* publishing its row the worker holds the cache gate, so it is still      *)
(* there when the row becomes playable.                                    *)

StoredUnderGate == worker.pc = "publish" => ClaimObject \in cache

ObjectInv == RetainedObjectsExist /\ StoredUnderGate

\* Who touches the cache, and how the worker reaches its publication.
CacheUntouched == UNCHANGED cache /\ (UNCHANGED worker \/ worker'.pc # "publish")

LEMMA CacheSteps ==
  Typed /\ [Next]_vars =>
    \/ StoreObject \/ StoreFailed \/ ReconcileDeferred \/ \E a \in active : Reconcile(a)
    \/ CacheUntouched
<1> SUFFICES ASSUME Typed, [Next]_vars,
                    ~(StoreObject \/ StoreFailed \/ ReconcileDeferred \/
                      \E a \in active : Reconcile(a))
             PROVE  CacheUntouched
  OBVIOUS
<1>w. worker \in Worker
  BY DEF Typed, TypeOK
<1>g. ASSUME NEW pc, WorkerGoes(pc) PROVE worker'.pc = pc
  BY <1>w, <1>g DEF WorkerGoes, Worker
<1>a. ASSUME NEW e, WorkerAbandons(e) PROVE worker'.pc = "abandon"
  BY <1>w, <1>a DEF WorkerAbandons, Worker
<1>i. ASSUME NEW t, WorkerIdle \/ WorkerFailed(t) PROVE worker'.pc = "scan"
  <2>1. CASE WorkerIdle
    BY <2>1 DEF WorkerIdle, IdleWorker
  <2>2. CASE WorkerFailed(t)
    <3>1. worker' = [IdleWorker(worker.todo) EXCEPT !.task = t, !.error = TRUE]
      BY <2>2 DEF WorkerFailed
    <3>2. worker'.pc = IdleWorker(worker.todo).pc
      BY <3>1 DEF IdleWorker
    <3> QED BY <3>2 DEF IdleWorker
  <2> QED BY <1>i, <2>1, <2>2
<1>1. CASE UNCHANGED vars \/ OpenStore \/ \E s \in Slots, t \in Tasks : SetBinding(s, t)
  BY <1>1 DEF vars, OpenStore, SetBinding, CacheUntouched
<1>2. CASE \E t \in Tasks : CommitCompletion(t) \/ \E g \in Generations :
                              OperatorAbandon(t, g) \/ CleanStale(t, g)
  BY <1>2 DEF CommitCompletion, OperatorAbandon, CleanStale, CacheUntouched
<1>3. CASE Crash
  BY <1>3 DEF Crash, IdleWorker, CacheUntouched
<1>4. CASE PlayerNext
  BY <1>4 DEF PlayerNext, PlaybackRequested, ReplacePlayback, AcquirePlayback, PlaybackStarted,
       PlaybackNotStarted, PlaybackFinished, PlaybackCancelled, CacheUntouched
<1>5. CASE WorkerNext
  <2>1. CASE \E t \in Tasks : ResumeNothing(t)
    BY <2>1 DEF ResumeNothing, Take, IdleWorker, workerOnly, CacheUntouched
  <2>2. CASE \E t \in Tasks, g \in Generations : ResumeClaim(t, g) \/ ResumeRejected(t, g)
    BY <2>2 DEF ResumeClaim, ResumeRejected, Take, IdleWorker, workerOnly, CacheUntouched
  <2>3. CASE \E g \in Generations : ClaimSummary(g)
    BY <2>3, <1>w DEF ClaimSummary, Worker, CacheUntouched
  <2>4. CASE WorkerScan \/ ClaimNothing
    BY <2>4, <1>i DEF WorkerScan, ClaimNothing, workerOnly, IdleWorker, CacheUntouched
  <2>5. CASE RecoverPublished \/ PublishSummary
    BY <2>5, <1>i DEF RecoverPublished, PublishSummary, CacheUntouched
  <2>6. CASE RecoverRejected \/ RecoverMissing \/ LoadPrevious \/ Generated \/ Synthesized
             \/ ExternalFailure \/ PublishRejected
    <3>1. UNCHANGED cache
      BY <2>6 DEF RecoverRejected, RecoverMissing, LoadPrevious, Generated, Synthesized,
           ExternalFailure, PublishRejected, workerOnly
    <3>2. \/ \E e : WorkerAbandons(e)
          \/ \E pc \in {"previous", "generate", "begin", "store"} : WorkerGoes(pc)
      BY <2>6 DEF RecoverRejected, RecoverMissing, LoadPrevious, Generated, Synthesized,
           ExternalFailure, PublishRejected
    <3> QED BY <3>1, <3>2, <1>a, <1>g DEF CacheUntouched
  <2>7. CASE BeginTtsAttempt
    BY <2>7, <1>g, <1>i DEF BeginTtsAttempt, CacheUntouched
  <2>8. CASE Abandon
    BY <2>8, <1>g, <1>i DEF Abandon, AfterAbandon, CacheUntouched
  <2> QED BY <1>5, <2>1, <2>2, <2>3, <2>4, <2>5, <2>6, <2>7, <2>8 DEF WorkerNext
<1> QED BY <1>1, <1>2, <1>3, <1>4, <1>5 DEF Next

LEMMA ObjectStep == Typed /\ ObjectInv /\ [Next]_vars => ObjectInv'
<1> SUFFICES ASSUME Typed, ObjectInv, [Next]_vars PROVE ObjectInv'
  OBVIOUS
<1>t. TypeOK /\ WorkerOnClaim
  BY DEF Typed
<1>r. \A r \in Tasks \X Generations : r \in Retained <=> Playable(summary[r[1]][r[2]])
  BY DEF Retained, StateOf, Playable
<1>p. \A r \in Tasks \X Generations : r \in Retained' <=> Playable(summary'[r[1]][r[2]])
  BY DEF Retained, StateOf, Playable
<1>q. Retained \subseteq Tasks \X Generations /\ Retained' \subseteq Tasks \X Generations
  BY DEF Retained
<1>1. CASE PublishStep
  <2> DEFINE t == worker.task
             g == worker.generation
  <2>1. ClaimObject \in cache /\ ClaimObject = <<t, g>>
    BY <1>1 DEF PublishStep, ObjectInv, StoredUnderGate, ClaimObject
  <2>2. summary' = [summary EXCEPT ![t] = Published(t, g)] /\ t \in Tasks
    BY <1>1 DEF PublishStep, Publish
  <2>3. summary \in [Tasks -> [Generations -> Row]]
    BY <1>t DEF TypeOK
  <2>4. ASSUME NEW h \in Generations, h # g, Playable(Published(t, g)[h])
        PROVE  Playable(summary[t][h])
    <3>1. Published(t, g)[h] \in {summary[t][h], Replaced(summary[t][h], g)}
      BY <2>4 DEF Published
    <3>2. Playable(Replaced(summary[t][h], g)) => Playable(summary[t][h])
      BY <2>2, <2>3 DEF Replaced, Playable, Row
    <3> QED BY <2>4, <3>1, <3>2
  <2>5. ASSUME NEW u \in Tasks, NEW h \in Generations, <<u, h>> \in Retained', <<u, h>> # <<t, g>>
        PROVE  <<u, h>> \in cache
    <3>1. Playable(summary'[u][h])
      BY <1>p, <2>5
    <3>2. Playable(summary[u][h])
      BY <2>2, <2>3, <2>4, <2>5, <3>1
    <3> QED BY <1>r, <3>2 DEF ObjectInv, RetainedObjectsExist
  <2>6. Retained' \subseteq cache
    BY <1>q, <2>1, <2>5
  <2> QED BY <1>1, <2>6 DEF ObjectInv, RetainedObjectsExist, StoredUnderGate, PublishStep
<1>2. CASE RowsKept
  <2>1. Retained' \subseteq Retained
    BY <1>2, <1>r, <1>p, <1>q DEF RowsKept, Kept
  <2>3. CASE StoreObject \/ StoreFailed
    <3>1. cache \subseteq cache' /\ worker' = [worker EXCEPT !.pc = worker'.pc]
      BY <2>3, <1>t DEF StoreObject, StoreFailed, WorkerGoes, TypeOK, Worker
    <3>2. worker'.task = worker.task /\ worker'.generation = worker.generation
      BY <1>t, <3>1 DEF TypeOK, Worker
    <3>3. StoredUnderGate'
      BY <2>3, <3>2, <1>t DEF StoreObject, StoreFailed, StoredUnderGate, WorkerGoes, ClaimObject,
                             TypeOK, Worker
    <3> QED BY <2>1, <3>1, <3>3 DEF ObjectInv, RetainedObjectsExist
  <2>4. CASE \E a \in active : Reconcile(a)
    <3>1. cache' = Retained /\ worker' = worker /\ worker.pc # "publish" /\ summary' = summary
      BY <2>4 DEF Reconcile, GateFree, ledgerVars
    <3> QED BY <2>1, <3>1 DEF ObjectInv, RetainedObjectsExist, StoredUnderGate
  <2>5. CASE ReconcileDeferred
    <3>1. Retained \subseteq cache' /\ worker' = worker /\ worker.pc # "publish"
      BY <2>5 DEF ReconcileDeferred, GateFree, ObjectInv, RetainedObjectsExist
    <3> QED BY <2>1, <3>1 DEF ObjectInv, RetainedObjectsExist, StoredUnderGate
  <2>6. CASE CacheUntouched
    BY <2>1, <2>6 DEF ObjectInv, RetainedObjectsExist, StoredUnderGate, ClaimObject, CacheUntouched
  <2> QED BY <2>3, <2>4, <2>5, <2>6, CacheSteps
<1>3. CASE \E t \in Tasks : CommitCompletion(t)
  BY <1>3 DEF CommitCompletion, ObjectInv, RetainedObjectsExist, StoredUnderGate, ClaimObject,
              Retained, StateOf
<1>4. CASE ClaimStep
  <2>1. PICK u \in Tasks, g \in Generations, p \in 0..MaxGeneration :
          /\ summary'[u][g] = NewClaim(u, p)
          /\ \A v \in Tasks, h \in Generations :
               ~(v = u /\ h = g) => summary'[v][h] = summary[v][h]
    BY <1>4, ClaimRows DEF ClaimStep
  <2>2. ~Playable(summary'[u][g])
    BY <2>1 DEF NewClaim, Playable
  <2>3. ASSUME NEW v \in Tasks, NEW h \in Generations, Playable(summary'[v][h])
        PROVE  Playable(summary[v][h])
    BY <2>1, <2>2, <2>3
  <2>4. Retained' \subseteq Retained
    BY <1>r, <1>p, <1>q, <2>3
  <2>5. cache' = cache /\ worker'.pc = "recover"
    BY <1>4 DEF ClaimStep
  <2> QED BY <2>4, <2>5 DEF ObjectInv, RetainedObjectsExist, StoredUnderGate
<1> QED BY <1>1, <1>2, <1>3, <1>4, StepRows DEF KeepStep

\* The cleanup after a heard summary never removes the object of a row that can still be
\* played, nor one the worker is about to publish (CacheStore::gate).
THEOREM PlayableObjectsAreKept == Spec => []RetainedObjectsExist
<1>1. Init => Typed /\ ObjectInv
  <2>1. Init => ObjectInv
    BY DEF Init, ObjectInv, RetainedObjectsExist, Retained, StateOf, NoRow, StoredUnderGate,
           IdleWorker
  <2> QED BY <2>1, TypedInit
<1>2. Typed /\ ObjectInv /\ [Next]_vars => (Typed /\ ObjectInv)'
  BY TypedStep, ObjectStep
<1>3. ObjectInv => RetainedObjectsExist
  BY DEF ObjectInv
<1> QED BY <1>1, <1>2, <1>3, PTL DEF Spec

-----------------------------------------------------------------------------
(* One unread row and one claim per task.  The row a mailbox shows covers  *)
(* a completion because every claim freezes at least one: the oldest of    *)
(* the pending completions is always in the batch.                         *)

LEMMA SmallestIn ==
  ASSUME NEW Less, IsWellFoundedOn(Less, Nat), \A x, y \in Nat : y < x => <<y, x>> \in Less,
         NEW S \in SUBSET Nat, S # {}
  PROVE  \E x \in S : \A y \in S : x <= y
<1>1. PICK x \in S : \A y \in S : ~(<<y, x>> \in Less)
  BY WFMin
<1>2. \A y \in S : ~(y < x)
  <2> TAKE y \in S
  <2>1. x \in Nat /\ y \in Nat
    OBVIOUS
  <2>2. y < x => <<y, x>> \in Less
    BY <2>1, Zenon
  <2>3. ~(<<y, x>> \in Less)
    BY <1>1
  <2> QED BY <2>2, <2>3, Zenon
<1>3. \A y \in S : x <= y
  BY <1>2
<1> QED BY <1>3

LEMMA Smallest == ASSUME NEW S \in SUBSET Nat, S # {} PROVE \E x \in S : \A y \in S : x <= y
<1> DEFINE Less == {p \in Nat \X Nat : p[1] < p[2]}
<1>1. IsWellFoundedOn(Less, Nat)
  BY NatLessThanWellFounded DEF OpToRel
<1>2. \A x, y \in Nat : y < x => <<y, x>> \in Less
  OBVIOUS
<1> HIDE DEF Less
<1> QED BY <1>1, <1>2, SmallestIn

\* query_pending_summary_completions answers something whenever something is pending.
LEMMA BatchNotEmpty ==
  ASSUME Typed, NEW t \in Tasks, Pending(t) # {}
  PROVE  Batch(t) # {}
<1>1. observed[t] \in Nat
  BY BoundsAssumption DEF Typed, TypeOK
<1>2. Pending(t) \in SUBSET Nat
  BY <1>1 DEF Pending
<1>3. PICK k \in Pending(t) : \A j \in Pending(t) : k <= j
  BY <1>2, Smallest
<1>4. {j \in Pending(t) : j < k} = {}
  BY <1>2, <1>3
<1>5. Cardinality({j \in Pending(t) : j < k}) < MaxBatch
  BY <1>4, FS_EmptySet, BoundsAssumption
<1> QED BY <1>3, <1>5 DEF Batch

OneUnread ==
  \A t \in Tasks, g, h \in Generations :
    Readable(summary[t][g]) /\ Readable(summary[t][h]) => g = h

OneClaim ==
  \A t \in Tasks, g, h \in Generations :
    Active(summary[t][g]) /\ Active(summary[t][h]) => g = h

UnreadCovered ==
  \A t \in Tasks, g \in Generations :
    Readable(summary[t][g]) => \E k \in Completions : coveredBy[t][k] = g

ClaimCovers ==
  \A t \in Tasks, g \in Generations : Active(summary[t][g]) => summary[t][g].covers # {}

UnreadInv == OneUnread /\ OneClaim /\ UnreadCovered /\ ClaimCovers

LEMMA UnreadInit == Init => UnreadInv
BY DEF Init, UnreadInv, OneUnread, OneClaim, UnreadCovered, ClaimCovers, NoRow, Active, Readable,
       Playable

\* The rows and the coverage after a publication.
LEMMA PublishedRows ==
  ASSUME Typed, CoverInv, PublishStep
  PROVE  LET t == worker.task
             g == worker.generation
             row == summary[t][g]
         IN /\ t \in Tasks /\ g \in Generations /\ row \in Row /\ row.state = "generating"
            /\ \A h \in Generations : Readable(summary[t][h]) <=> row.previous # 0 /\ h = row.previous
            /\ row.covers \subseteq Pending(t)
            /\ summary'[t][g].state = "unheard" /\ Readable(summary'[t][g])
            /\ \A h \in Generations : h # g /\ h # row.previous => summary'[t][h] = summary[t][h]
            /\ row.previous \in Generations /\ row.previous # g =>
                 LET new == summary'[t][row.previous] IN
                   /\ ~Readable(new) /\ ~Active(new) /\ new.state # "heard"
                   /\ summary[t][row.previous].state # "heard"
                   /\ new.state = "leased" <=> summary[t][row.previous].state = "leased"
            /\ \A k \in Completions :
                 coveredBy'[t][k] = IF \/ k \in row.covers
                                       \/ row.previous # 0 /\ coveredBy[t][k] = row.previous
                                    THEN g ELSE coveredBy[t][k]
            /\ \A u \in Tasks : u # t => summary'[u] = summary[u] /\ coveredBy'[u] = coveredBy[u]
            /\ observed' = observed
<1> DEFINE t == worker.task
           g == worker.generation
           row == summary[t][g]
<1>1. t \in Tasks /\ g \in Generations
  BY DEF PublishStep
<1>2. /\ summary \in [Tasks -> [Generations -> Row]]
      /\ coveredBy \in [Tasks -> [Completions -> 0..MaxGeneration]]
  BY DEF Typed, TypeOK
<1>3. /\ row.state = "generating" /\ row.covers \subseteq Pending(t)
      /\ CurrentUnread(t) = IF row.previous = 0 THEN {} ELSE {row.previous}
  BY DEF PublishStep, CanPublish
<1>4. row.supersededBy = 0 /\ row \in Row
  BY <1>1, <1>2, <1>3 DEF CoverInv, ActiveNotSuperseded, Active
<1>5. /\ summary' = [summary EXCEPT ![t] = Published(t, g)]
      /\ coveredBy' = [coveredBy EXCEPT ![t] = Reassigned(t, g)]
      /\ observed' = observed
  BY DEF PublishStep, Publish
<1>6. /\ summary'[t] = Published(t, g) /\ coveredBy'[t] = Reassigned(t, g)
      /\ \A u \in Tasks : u # t => summary'[u] = summary[u] /\ coveredBy'[u] = coveredBy[u]
  BY <1>1, <1>2, <1>5
<1>7. \A h \in Generations : Readable(summary[t][h]) <=> row.previous # 0 /\ h = row.previous
  BY <1>1, <1>3, CurrentUnreadIsReadable
<1>8. summary'[t][g].state = "unheard" /\ Readable(summary'[t][g])
  <2>1. summary'[t][g] = [row EXCEPT !.state = "unheard", !.tts = FALSE]
    BY <1>1, <1>6 DEF Published
  <2> QED BY <1>4, <2>1 DEF Readable, Playable, Row
<1>9. \A h \in Generations : h # g /\ h # row.previous => summary'[t][h] = summary[t][h]
  BY <1>6 DEF Published
<1>10. ASSUME row.previous \in Generations, row.previous # g
       PROVE  LET new == summary'[t][row.previous] IN
                /\ ~Readable(new) /\ ~Active(new) /\ new.state # "heard"
                /\ summary[t][row.previous].state # "heard"
                /\ new.state = "leased" <=> summary[t][row.previous].state = "leased"
  <2> DEFINE old == summary[t][row.previous]
             new == summary'[t][row.previous]
  <2>1. new = Replaced(old, g) /\ old \in Row
    BY <1>1, <1>2, <1>6, <1>10 DEF Published
  <2>2. row.previous # 0 /\ g # 0
    BY <1>1, <1>10
  <2>3. Readable(old)
    BY <1>7, <1>10, <2>2
  <2>4. /\ new.supersededBy = g
        /\ new.state = IF old.state = "unheard" THEN "superseded" ELSE old.state
    BY <2>1 DEF Replaced, Row
  <2>5. new.state = IF old.state = "leased" THEN "leased" ELSE "superseded"
    BY <2>3, <2>4 DEF Readable, Playable
  <2> HIDE DEF new, old
  <2>6. /\ ~Readable(new) /\ ~Active(new) /\ new.state # "heard"
        /\ old.state # "heard"
        /\ new.state = "leased" <=> old.state = "leased"
    BY <2>2, <2>3, <2>4, <2>5 DEF Readable, Playable, Active
  <2> QED BY <2>6 DEF new, old
<1>11. \A k \in Completions :
         coveredBy'[t][k] = IF \/ k \in row.covers
                               \/ row.previous # 0 /\ coveredBy[t][k] = row.previous
                            THEN g ELSE coveredBy[t][k]
  BY <1>6 DEF Reassigned
<1> HIDE DEF t, g, row
<1>12. /\ t \in Tasks /\ g \in Generations /\ row \in Row /\ row.state = "generating"
       /\ row.covers \subseteq Pending(t)
       /\ observed' = observed
  BY <1>1, <1>3, <1>4, <1>5
<1> QED BY <1>6, <1>7, <1>8, <1>9, <1>10, <1>11, <1>12 DEF t, g, row

LEMMA UnreadPublish == Typed /\ CoverInv /\ UnreadInv /\ PublishStep => UnreadInv'
<1> SUFFICES ASSUME Typed, CoverInv, UnreadInv, PublishStep PROVE UnreadInv'
  OBVIOUS
<1> DEFINE t == worker.task
           g == worker.generation
           row == summary[t][g]
<1>1. /\ t \in Tasks /\ g \in Generations /\ row \in Row /\ row.state = "generating"
      /\ \A h \in Generations : Readable(summary[t][h]) <=> row.previous # 0 /\ h = row.previous
      /\ row.covers \subseteq Pending(t)
      /\ summary'[t][g].state = "unheard" /\ Readable(summary'[t][g])
      /\ \A h \in Generations : h # g /\ h # row.previous => summary'[t][h] = summary[t][h]
      /\ \A k \in Completions :
           coveredBy'[t][k] = IF \/ k \in row.covers
                                 \/ row.previous # 0 /\ coveredBy[t][k] = row.previous
                              THEN g ELSE coveredBy[t][k]
      /\ \A u \in Tasks : u # t => summary'[u] = summary[u] /\ coveredBy'[u] = coveredBy[u]
      /\ observed' = observed
  BY PublishedRows
<1>2. row.previous \in Generations /\ row.previous # g =>
        ~Readable(summary'[t][row.previous]) /\ ~Active(summary'[t][row.previous])
  BY PublishedRows
<1> HIDE DEF t, g, row
<1>3. \A h \in Generations : h # g => ~Readable(summary'[t][h])
  <2> SUFFICES ASSUME NEW h \in Generations, h # g PROVE ~Readable(summary'[t][h])
    OBVIOUS
  <2>1. CASE h = row.previous
    BY <1>2, <2>1
  <2>2. CASE h # row.previous
    BY <1>1, <2>2
  <2> QED BY <2>1, <2>2
<1>4. \A h \in Generations : Active(summary'[t][h]) => h # g /\ summary'[t][h] = summary[t][h]
  <2>1. ~Active(summary'[t][g])
    BY <1>1 DEF Active
  <2> QED BY <1>1, <1>2, <2>1
<1>5. OneUnread'
  BY <1>1, <1>3 DEF UnreadInv, OneUnread
<1>6. OneClaim'
  BY <1>1, <1>4 DEF UnreadInv, OneClaim
<1>7. ClaimCovers'
  BY <1>1, <1>4 DEF UnreadInv, ClaimCovers
<1>8. UnreadCovered'
  <2> SUFFICES ASSUME NEW u \in Tasks, NEW h \in Generations, Readable(summary'[u][h])
               PROVE  \E k \in Completions : coveredBy'[u][k] = h
    BY DEF UnreadCovered
  <2>1. CASE u # t
    BY <1>1, <2>1 DEF UnreadInv, UnreadCovered
  <2>2. CASE u = t
    <3>1. h = g
      BY <1>3, <2>2
    <3>2. PICK k : k \in row.covers
      BY <1>1 DEF UnreadInv, ClaimCovers, Active, row
    <3>3. k \in Completions
      BY <1>1, <3>2 DEF Row
    <3> QED BY <1>1, <2>2, <3>1, <3>2, <3>3
  <2> QED BY <2>1, <2>2
<1> QED BY <1>5, <1>6, <1>7, <1>8 DEF UnreadInv

LEMMA UnreadClaim == Typed /\ UnreadInv /\ ClaimStep => UnreadInv'
<1> SUFFICES ASSUME Typed, UnreadInv, ClaimStep PROVE UnreadInv'
  OBVIOUS
<1> DEFINE t == worker.task
<1>1. PICK g \in Generations, p \in 0..MaxGeneration :
        /\ summary'[t][g] = NewClaim(t, p)
        /\ \A u \in Tasks, h \in Generations : ~(u = t /\ h = g) => summary'[u][h] = summary[u][h]
  BY ClaimRows
<1>2. t \in Tasks /\ UNCHANGED coveredBy /\ Pending(t) # {} /\ ActiveClaims(t) = {}
  BY DEF ClaimStep
<1>3. \A h \in Generations : ~Active(summary[t][h])
  BY <1>2 DEF ActiveClaims, StateOf, Active
<1>4. ~Readable(summary'[t][g]) /\ summary'[t][g].covers = Batch(t)
  BY <1>1 DEF NewClaim, Readable, Playable
<1>5. Batch(t) # {}
  BY <1>2, BatchNotEmpty
<1> HIDE DEF t
<1>6. OneUnread' /\ UnreadCovered'
  BY <1>1, <1>2, <1>4 DEF UnreadInv, OneUnread, UnreadCovered
<1>7. OneClaim' /\ ClaimCovers'
  BY <1>1, <1>3, <1>4, <1>5 DEF UnreadInv, OneClaim, ClaimCovers
<1> QED BY <1>6, <1>7 DEF UnreadInv

LEMMA UnreadStep == Typed /\ CoverInv /\ UnreadInv /\ [Next]_vars => UnreadInv'
<1> SUFFICES ASSUME Typed, CoverInv, UnreadInv, [Next]_vars PROVE UnreadInv'
  OBVIOUS
<1>1. CASE KeepStep
  <2>1. \A t \in Tasks, g \in Generations :
          /\ Readable(summary'[t][g]) => Readable(summary[t][g])
          /\ Active(summary'[t][g]) => Active(summary[t][g])
                                       /\ summary'[t][g].covers = summary[t][g].covers
    BY <1>1 DEF KeepStep, RowsKept, Kept, Readable
  <2>2. UNCHANGED coveredBy
    BY <1>1 DEF KeepStep
  <2> QED BY <2>1, <2>2 DEF UnreadInv, OneUnread, OneClaim, UnreadCovered, ClaimCovers
<1>2. CASE \E t \in Tasks : CommitCompletion(t)
  BY <1>2 DEF CommitCompletion, UnreadInv, OneUnread, OneClaim, UnreadCovered, ClaimCovers
<1> QED BY <1>1, <1>2, UnreadPublish, UnreadClaim, StepRows

LEMMA UnreadIsPlayable == Typed /\ CoverInv /\ UnreadInv => CurrentUnreadIsPlayable
<1> SUFFICES ASSUME Typed, CoverInv, UnreadInv, NEW t \in Tasks
             PROVE  /\ \A g, h \in CurrentUnread(t) : g = h
                    /\ \A g, h \in ActiveClaims(t) : g = h
                    /\ \A g \in CurrentUnread(t) : \E k \in 1..observed[t] : coveredBy[t][k] = g
  BY DEF CurrentUnreadIsPlayable
<1>1. \A g, h \in CurrentUnread(t) : g = h
  BY DEF UnreadInv, OneUnread, CurrentUnread, StateOf, Readable, Playable
<1>2. \A g, h \in ActiveClaims(t) : g = h
  BY DEF UnreadInv, OneClaim, ActiveClaims, StateOf, Active
<1>3. ASSUME NEW g \in CurrentUnread(t) PROVE \E k \in 1..observed[t] : coveredBy[t][k] = g
  <2>1. g \in Generations /\ Readable(summary[t][g])
    BY DEF CurrentUnread, StateOf, Readable, Playable
  <2>2. PICK k \in Completions : coveredBy[t][k] = g
    BY <2>1 DEF UnreadInv, UnreadCovered
  <2>3. ~(k > observed[t]) /\ observed[t] \in Nat
    BY <2>1, <2>2, BoundsAssumption DEF CoverInv, NoneCoveredEarly, Typed, TypeOK
  <2> QED BY <2>2, <2>3
<1> QED BY <1>1, <1>2, <1>3

-----------------------------------------------------------------------------
(* Claims and leases of a running Host.  A generating row is the worker's  *)
(* own claim, and there is at most one lease: the serve loop takes one     *)
(* only after every earlier playback has left its map, and the lease stays *)
(* in that map, or with the loop itself, until it is given back or heard.  *)

\* A row becomes another one, or its state column changes, and no other row does.
RowBecomes(t, g, r) ==
  /\ summary'[t][g] = r
  /\ \A u \in Tasks, h \in Generations : ~(u = t /\ h = g) => summary'[u][h] = summary[u][h]

StateBecomes(t, g, st) ==
  /\ summary'[t][g].state = st
  /\ summary'[t][g].supersededBy = summary[t][g].supersededBy
  /\ \A u \in Tasks, h \in Generations : ~(u = t /\ h = g) => summary'[u][h] = summary[u][h]

LEMMA StateWritten ==
  ASSUME summary \in [Tasks -> [Generations -> Row]],
         NEW t \in Tasks, NEW g \in Generations, NEW st \in RowStates,
         summary' = [summary EXCEPT ![t][g].state = st]
  PROVE  StateBecomes(t, g, st)
<1>1. summary[t][g] \in Row
  OBVIOUS
<1>2. summary'[t][g] = [summary[t][g] EXCEPT !.state = st]
  OBVIOUS
<1>3. /\ summary'[t][g].state = st
      /\ summary'[t][g].supersededBy = summary[t][g].supersededBy
  BY <1>1, <1>2 DEF Row
<1>4. \A u \in Tasks, h \in Generations : ~(u = t /\ h = g) => summary'[u][h] = summary[u][h]
  OBVIOUS
<1> QED BY <1>3, <1>4 DEF StateBecomes

LEMMA RowWritten ==
  ASSUME summary \in [Tasks -> [Generations -> Row]],
         NEW t \in Tasks, NEW g \in Generations, NEW r \in Row,
         summary' = [summary EXCEPT ![t][g] = r]
  PROVE  RowBecomes(t, g, r)
BY DEF RowBecomes

\* The rows after a lease has been given back (cancel_summary_playback).
LEMMA CancelledRows ==
  ASSUME summary \in [Tasks -> [Generations -> Row]], NEW l \in Lease, CancelLease(l)
  PROVE  /\ leases' = leases \ {l}
         /\ l \in leases => summary'[l.task][l.generation].state # "leased"
         /\ summary'[l.task][l.generation].state = "generating" =>
              summary[l.task][l.generation].state = "generating"
         /\ \A u \in Tasks, h \in Generations :
              /\ summary'[u][h].supersededBy = summary[u][h].supersededBy
              /\ ~(u = l.task /\ h = l.generation) => summary'[u][h] = summary[u][h]
              /\ l \notin leases => summary'[u][h].state = summary[u][h].state
              /\ summary'[u][h].state = "leased" => summary[u][h].state = "leased"
              /\ summary'[u][h].state = "heard" <=> summary[u][h].state = "heard"
<1> DEFINE row == summary[l.task][l.generation]
           st == IF l \in leases /\ row.state = "leased" THEN Released(row) ELSE row.state
<1>1. l.task \in Tasks /\ l.generation \in Generations
  BY DEF Lease
<1>2. summary' = [summary EXCEPT ![l.task][l.generation].state = st] /\ leases' = leases \ {l}
  BY DEF CancelLease
<1>3. Released(row) \in {"unheard", "superseded"}
  BY DEF Released
<1>4. /\ l \in leases => st # "leased"
      /\ l \notin leases => st = row.state
      /\ st = "leased" => row.state = "leased"
      /\ st = "generating" => row.state = "generating"
      /\ st = "heard" <=> row.state = "heard"
  BY <1>3
<1>6. st \in RowStates
  BY <1>1 DEF Released, Row, RowStates
<1> HIDE DEF st
<1>5. StateBecomes(l.task, l.generation, st)
  BY <1>1, <1>2, <1>6, StateWritten
<1> QED BY <1>1, <1>2, <1>4, <1>5 DEF StateBecomes

LEMMA RecoveredStates ==
  ASSUME summary \in [Tasks -> [Generations -> Row]],
         NEW t \in Tasks, NEW g \in Generations
  PROVE  /\ Recovered[t][g].state \notin {"leased", "generating"}
         /\ Recovered[t][g].state = "heard" <=> summary[t][g].state = "heard"
         /\ Recovered[t][g].supersededBy = summary[t][g].supersededBy
         /\ Readable(Recovered[t][g]) <=> Readable(summary[t][g])
<1> DEFINE row == summary[t][g]
           st == IF row.state = "generating" THEN "interrupted"
                 ELSE IF row.state = "leased" THEN Released(row) ELSE row.state
<1>1. row \in Row
  OBVIOUS
<1>2. Recovered[t][g] = [row EXCEPT !.state = st]
  BY DEF Recovered
<1>3. Recovered[t][g].state = st /\ Recovered[t][g].supersededBy = row.supersededBy
  BY <1>1, <1>2 DEF Row
<1> QED BY <1>3 DEF Readable, Playable, Released

\* The rows after abandon-slot-summary.
LEMMA OperatorRows ==
  ASSUME summary \in [Tasks -> [Generations -> Row]],
         NEW t \in Tasks, NEW g \in Generations, OperatorAbandon(t, g)
  PROVE  /\ Active(summary[t][g]) /\ summary'[t][g].state = "abandoned"
         /\ \A u \in Tasks, h \in Generations :
              ~(u = t /\ h = g) => summary'[u][h] = Recovered[u][h]
<1>1. /\ Recovered \in [Tasks -> [Generations -> Row]]
      /\ summary' = [Recovered EXCEPT ![t][g] = Abandoned(Recovered[t][g])]
  BY RecoveredTyped DEF OperatorAbandon
<1>2. Active(summary[t][g])
  BY DEF OperatorAbandon, ActiveClaims, StateOf, Active
<1>3. Abandoned(Recovered[t][g]).state = "abandoned"
  <2>1. \A row \in Row : Abandoned(row).state = "abandoned"
    BY DEF Row, Abandoned
  <2> QED BY <1>1, <2>1
<1>4. summary'[t][g] = Abandoned(Recovered[t][g])
  BY <1>1
<1>5. \A u \in Tasks, h \in Generations : ~(u = t /\ h = g) => summary'[u][h] = Recovered[u][h]
  BY <1>1
<1> QED BY <1>2, <1>3, <1>4, <1>5

PlaybackStatesSame ==
  \A t \in Tasks, g \in Generations :
    /\ summary'[t][g].state = "leased" <=> summary[t][g].state = "leased"
    /\ summary'[t][g].state = "heard" <=> summary[t][g].state = "heard"

NothingElse == PlaybackStatesSame /\ UNCHANGED <<leases, active, player, up>>

LEMMA WorkerKeepsClaim ==
  ASSUME worker \in Worker,
         \/ \E pc \in {"previous", "generate", "begin", "synthesize", "store", "publish",
                       "recover"} : WorkerGoes(pc)
         \/ \E e \in BOOLEAN : WorkerAbandons(e)
  PROVE  /\ worker'.task = worker.task /\ worker'.generation = worker.generation
         /\ worker'.pc \notin {"scan", "claim"}
<1>1. CASE \E pc \in {"previous", "generate", "begin", "synthesize", "store", "publish",
                      "recover"} : WorkerGoes(pc)
  BY <1>1 DEF WorkerGoes, Worker
<1>2. CASE \E e \in BOOLEAN : WorkerAbandons(e)
  BY <1>2 DEF WorkerAbandons, Worker
<1> QED BY <1>1, <1>2

LEMMA PublishesArePublishSteps ==
  Typed /\ (RecoverPublished \/ PublishSummary) => PublishStep
<1> SUFFICES ASSUME Typed, RecoverPublished \/ PublishSummary PROVE PublishStep
  OBVIOUS
<1>1. worker'.pc = "scan"
  BY DEF RecoverPublished, PublishSummary, WorkerIdle, IdleWorker
<1>2. worker.pc \in {"recover", "publish"}
  BY DEF RecoverPublished, PublishSummary, At
<1>3. worker.task \in Tasks /\ worker.generation \in Generations
  BY <1>2 DEF Typed, WorkerOnClaim
<1> QED BY <1>1, <1>2, <1>3 DEF RecoverPublished, PublishSummary, PublishStep, At

LEMMA WorkerClaims ==
  Typed /\ CoverInv /\ NoZombieClaim /\ WorkerNext => NoZombieClaim' /\ NothingElse
<1> SUFFICES ASSUME Typed, CoverInv, NoZombieClaim, WorkerNext
             PROVE  NoZombieClaim' /\ NothingElse
  OBVIOUS
<1>t. TypeOK /\ WorkerOnClaim /\ worker \in Worker
  BY DEF Typed, TypeOK
<1>s. summary \in [Tasks -> [Generations -> Row]]
  BY <1>t DEF TypeOK
<1>u. up /\ UNCHANGED <<leases, active, player, up>>
  BY DEF WorkerNext, WorkerScan, ResumeNothing, ResumeClaim, ResumeRejected, ClaimSummary,
         ClaimNothing, RecoverPublished, RecoverRejected, RecoverMissing, LoadPrevious, Generated,
         BeginTtsAttempt, Synthesized, ExternalFailure, StoreObject, StoreFailed, PublishSummary,
         PublishRejected, Abandon, At, workerOnly, hostVars, leaseVars
<1> DEFINE Gen(t, g) == summary[t][g].state = "generating"
           GenNext(t, g) == summary'[t][g].state = "generating"
<1>z. \A t \in Tasks, g \in Generations :
        Gen(t, g) => /\ worker.task = t /\ worker.generation = g
                     /\ worker.pc \notin {"scan", "claim"}
  BY <1>u DEF NoZombieClaim, StateOf
<1>p. ASSUME \A t \in Tasks, g \in Generations :
               GenNext(t, g) => /\ worker'.task = t /\ worker'.generation = g
                                /\ worker'.pc \notin {"scan", "claim"},
             PlaybackStatesSame
      PROVE  NoZombieClaim' /\ NothingElse
  BY <1>p, <1>u DEF NoZombieClaim, StateOf, NothingElse
<1>k. ASSUME worker'.task = worker.task, worker'.generation = worker.generation,
             worker'.pc \notin {"scan", "claim"}, PlaybackStatesSame,
             \A t \in Tasks, g \in Generations : GenNext(t, g) => Gen(t, g)
      PROVE  NoZombieClaim' /\ NothingElse
  <2>1. \A t \in Tasks, g \in Generations :
          GenNext(t, g) => /\ worker'.task = t /\ worker'.generation = g
                           /\ worker'.pc \notin {"scan", "claim"}
    BY <1>k, <1>z
  <2> QED BY <1>k, <1>p, <2>1
<1>n. ASSUME PlaybackStatesSame, \A t \in Tasks, g \in Generations : ~GenNext(t, g)
      PROVE  NoZombieClaim' /\ NothingElse
  BY <1>n, <1>p
<1>v. UNCHANGED summary => /\ PlaybackStatesSame
                           /\ \A t \in Tasks, g \in Generations : GenNext(t, g) => Gen(t, g)
  BY DEF PlaybackStatesSame
<1>m. ASSUME NEW t \in Tasks, NEW g \in Generations, worker.task = t, worker.generation = g,
             ~Gen(t, g), UNCHANGED summary
      PROVE  NoZombieClaim' /\ NothingElse
  <2>1. \A u \in Tasks, h \in Generations : ~GenNext(u, h)
    BY <1>m, <1>z
  <2> QED BY <1>m, <1>n, <1>v, <2>1
<1>1. CASE \/ WorkerScan \/ ClaimNothing \/ \E t \in Tasks : ResumeNothing(t)
           \/ \E t \in Tasks, g \in Generations : ResumeRejected(t, g)
  <2>1. worker.pc \in {"scan", "claim"} /\ UNCHANGED summary
    BY <1>1 DEF WorkerScan, ClaimNothing, ResumeNothing, ResumeRejected, At, workerOnly, ledgerVars
  <2>2. \A t \in Tasks, g \in Generations : ~GenNext(t, g)
    BY <1>z, <2>1
  <2> QED BY <1>n, <1>v, <2>1, <2>2
<1>2. CASE \/ RecoverRejected \/ RecoverMissing \/ LoadPrevious \/ Generated \/ Synthesized
           \/ ExternalFailure \/ PublishRejected \/ StoreObject \/ StoreFailed
  <2>1. /\ UNCHANGED summary
        /\ \/ \E pc \in {"previous", "generate", "begin", "synthesize", "store", "publish",
                         "recover"} : WorkerGoes(pc)
           \/ \E e \in BOOLEAN : WorkerAbandons(e)
    BY <1>2 DEF RecoverRejected, RecoverMissing, LoadPrevious, Generated, Synthesized,
         ExternalFailure, PublishRejected, StoreObject, StoreFailed, workerOnly, ledgerVars
  <2> HIDE DEF Gen, GenNext
  <2>2. /\ worker'.task = worker.task /\ worker'.generation = worker.generation
        /\ worker'.pc \notin {"scan", "claim"}
    BY <1>t, <2>1, WorkerKeepsClaim
  <2> QED BY <1>k, <1>v, <2>1, <2>2
<1>3. ASSUME NEW t \in Tasks, NEW g \in Generations, ResumeClaim(t, g)
      PROVE  NoZombieClaim' /\ NothingElse
  <2>1. /\ summary' = [summary EXCEPT ![t][g].state = "generating"] /\ worker.pc = "scan"
        /\ worker' = [Take(t) EXCEPT !.pc = "recover", !.task = t, !.generation = g,
                                     !.resumed = TRUE]
        /\ summary[t][g].state = "interrupted"
    BY <1>3 DEF ResumeClaim, At, Interrupted, StateOf
  <2>2. worker'.task = t /\ worker'.generation = g /\ worker'.pc = "recover"
    BY <2>1 DEF Take, IdleWorker
  <2>3. StateBecomes(t, g, "generating")
    <3>1. "generating" \in RowStates
      BY DEF RowStates
    <3> QED BY <1>s, <2>1, <3>1, StateWritten
  <2>4. PlaybackStatesSame
    BY <2>1, <2>3 DEF PlaybackStatesSame, StateBecomes
  <2>5. \A u \in Tasks, h \in Generations : GenNext(u, h) => u = t /\ h = g
    BY <1>z, <2>1, <2>3 DEF StateBecomes
  <2> HIDE DEF Gen, GenNext
  <2> QED BY <1>p, <2>2, <2>4, <2>5
<1>4. ASSUME NEW g \in Generations, ClaimSummary(g) PROVE NoZombieClaim' /\ NothingElse
  <2>1. ClaimStep /\ worker.pc = "claim"
    BY <1>4, ClaimIsClaimStep DEF ClaimSummary, At
  <2>2. PICK h \in Generations, p \in 0..MaxGeneration :
          /\ summary[worker.task][h].state = "none"
          /\ summary'[worker.task][h] = NewClaim(worker.task, p)
          /\ worker'.task = worker.task /\ worker'.generation = h
          /\ \A u \in Tasks, i \in Generations :
               ~(u = worker.task /\ i = h) => summary'[u][i] = summary[u][i]
    BY <2>1, ClaimRows
  <2>3. summary'[worker.task][h].state = "generating" /\ worker'.pc = "recover"
    BY <2>1, <2>2 DEF NewClaim, ClaimStep
  <2>4. PlaybackStatesSame
    BY <2>2, <2>3 DEF PlaybackStatesSame
  <2>5. \A u \in Tasks, i \in Generations : GenNext(u, i) => u = worker.task /\ i = h
    BY <1>z, <2>1, <2>2
  <2> HIDE DEF Gen, GenNext
  <2> QED BY <1>p, <2>2, <2>3, <2>4, <2>5
<1>5. CASE RecoverPublished \/ PublishSummary
  <2> DEFINE t == worker.task
             g == worker.generation
             row == summary[t][g]
  <2>0. PublishStep
    BY <1>5, PublishesArePublishSteps
  <2>1. /\ t \in Tasks /\ g \in Generations /\ row.state = "generating"
        /\ summary'[t][g].state = "unheard"
        /\ \A h \in Generations : h # g /\ h # row.previous => summary'[t][h] = summary[t][h]
        /\ \A u \in Tasks : u # t => summary'[u] = summary[u]
    BY <2>0, PublishedRows
  <2>2. row.previous \in Generations /\ row.previous # g =>
          /\ ~Active(summary'[t][row.previous])
          /\ summary'[t][row.previous].state = "leased" <=> summary[t][row.previous].state = "leased"
          /\ summary'[t][row.previous].state # "heard" /\ summary[t][row.previous].state # "heard"
    BY <2>0, PublishedRows
  <2>3. ASSUME NEW h \in Generations
        PROVE  /\ ~GenNext(t, h)
               /\ summary'[t][h].state = "leased" <=> summary[t][h].state = "leased"
               /\ summary'[t][h].state = "heard" <=> summary[t][h].state = "heard"
    <3>1. CASE h = g
      BY <2>1, <3>1
    <3>2. CASE h # g /\ h = row.previous
      BY <2>2, <3>2 DEF Active
    <3>3. CASE h # g /\ h # row.previous
      BY <1>z, <2>1, <3>3
    <3> QED BY <3>1, <3>2, <3>3
  <2>4. ASSUME NEW u \in Tasks, u # t, NEW h \in Generations
        PROVE  /\ ~GenNext(u, h)
               /\ summary'[u][h].state = "leased" <=> summary[u][h].state = "leased"
               /\ summary'[u][h].state = "heard" <=> summary[u][h].state = "heard"
    BY <1>z, <2>1, <2>4
  <2>5. PlaybackStatesSame
    BY <2>3, <2>4 DEF PlaybackStatesSame
  <2>6. \A u \in Tasks, h \in Generations : ~GenNext(u, h)
    BY <2>3, <2>4
  <2> QED BY <1>n, <2>5, <2>6
<1>6. CASE BeginTtsAttempt
  <2> DEFINE t == worker.task
             g == worker.generation
             new == [summary[t][g] EXCEPT !.tts = TRUE]
  <2>0. worker.pc = "begin" /\ t \in Tasks /\ g \in Generations
    BY <1>6, <1>t DEF BeginTtsAttempt, At, WorkerOnClaim
  <2>1. CASE g \in ActiveClaims(t)
    <3>1. summary' = [summary EXCEPT ![t][g].tts = TRUE] /\ WorkerGoes("synthesize")
      BY <1>6, <2>1 DEF BeginTtsAttempt
    <3>2. [summary EXCEPT ![t][g].tts = TRUE] = [summary EXCEPT ![t][g] = new]
      OBVIOUS
    <3>3. new.state = summary[t][g].state
      <4>1. \A r \in Row : [r EXCEPT !.tts = TRUE].state = r.state
        BY DEF Row
      <4> QED BY <1>s, <2>0, <4>1
    <3>7. new \in Row
      BY <1>s, <2>0, RowMoves
    <3> HIDE DEF new
    <3>4. RowBecomes(t, g, new)
      BY <1>s, <2>0, <3>1, <3>2, <3>7, RowWritten
    <3>5. PlaybackStatesSame
      BY <3>3, <3>4 DEF PlaybackStatesSame, RowBecomes
    <3>6. \A u \in Tasks, h \in Generations : GenNext(u, h) => Gen(u, h)
      BY <3>3, <3>4 DEF RowBecomes
    <3> HIDE DEF Gen, GenNext
    <3> QED BY <1>k, <1>t, <3>1, <3>5, <3>6, WorkerKeepsClaim
  <2>2. CASE g \notin ActiveClaims(t)
    <3>1. UNCHANGED summary /\ ~Gen(t, g)
      BY <1>6, <2>0, <2>2 DEF BeginTtsAttempt, ActiveClaims, StateOf
    <3> QED BY <1>m, <2>0, <3>1
  <2> QED BY <2>1, <2>2
<1>7. CASE Abandon
  <2> DEFINE t == worker.task
             g == worker.generation
             new == Abandoned(summary[t][g])
  <2>0. worker.pc = "abandon" /\ t \in Tasks /\ g \in Generations
    BY <1>7, <1>t DEF Abandon, At, WorkerOnClaim
  <2>1. CASE g \in ActiveClaims(t)
    <3>1. summary' = [summary EXCEPT ![t][g] = new] /\ Active(summary[t][g])
      BY <1>7, <2>1 DEF Abandon, Claimed, ActiveClaims, StateOf, Active
    <3>2. new.state = "abandoned"
      <4>1. \A r \in Row : Abandoned(r).state = "abandoned"
        BY DEF Row, Abandoned
      <4> QED BY <1>s, <2>0, <4>1
    <3>6. new \in Row
      BY <1>s, <2>0, RowMoves
    <3> HIDE DEF new
    <3>3. RowBecomes(t, g, new)
      BY <1>s, <2>0, <3>1, <3>6, RowWritten
    <3>4. PlaybackStatesSame
      BY <3>1, <3>2, <3>3 DEF PlaybackStatesSame, Active, RowBecomes
    <3>5. \A u \in Tasks, h \in Generations : ~GenNext(u, h)
      BY <1>z, <3>2, <3>3 DEF RowBecomes
    <3> QED BY <1>n, <3>4, <3>5
  <2>2. CASE g \notin ActiveClaims(t)
    <3>1. UNCHANGED summary /\ ~Gen(t, g)
      BY <1>7, <2>0, <2>2 DEF Abandon, ActiveClaims, StateOf
    <3> QED BY <1>m, <2>0, <3>1
  <2> QED BY <2>1, <2>2
<1> QED BY <1>1, <1>2, <1>3, <1>4, <1>5, <1>6, <1>7 DEF WorkerNext

LeaseRows ==
  \A t \in Tasks, g \in Generations :
    summary[t][g].state = "leased" <=> \E l \in leases : l.task = t /\ l.generation = g

OneLease == \A l, m \in leases : l = m
OnePlayback == \A a, b \in active : a = b

LeasesHeld ==
  up => \A l \in leases : \/ [lease |-> l, heard |-> FALSE] \in active
                          \/ player.pc = "load" /\ player.lease = l.id

\* begin_lan_playback emptied the map before it took a lease, and an event that ended in a
\* commit has marked its entry.
LoopBetweenSteps ==
  /\ player.pc = "load" => active = {}
  /\ player.pc = "reconcile" => \A a \in active : a.heard

LeaseInv == LeaseRows /\ OneLease /\ OnePlayback /\ LeasesHeld /\ LoopBetweenSteps

LEMMA LeaseInit == Init => LeaseInv
BY DEF Init, LeaseInv, LeaseRows, OneLease, OnePlayback, LeasesHeld, LoopBetweenSteps, NoRow,
       IdlePlayer

LEMMA LeaseFrame == LeaseInv /\ NothingElse => LeaseInv'
BY DEF LeaseInv, LeaseRows, OneLease, OnePlayback, LeasesHeld, LoopBetweenSteps, NothingElse,
       PlaybackStatesSame

\* A lease is given back: no other one is left, and no row is leased.
LEMMA CancelLeaseRows ==
  ASSUME Typed, LeaseInv, NEW l \in Lease, CancelLease(l)
  PROVE  LeaseRows' /\ OneLease' /\ leases' = leases \ {l}
<1>1. summary \in [Tasks -> [Generations -> Row]] /\ leases \in SUBSET Lease
  BY DEF Typed, TypeOK
<1>2. /\ leases' = leases \ {l}
      /\ l \in leases => summary'[l.task][l.generation].state # "leased"
      /\ \A u \in Tasks, h \in Generations :
           /\ ~(u = l.task /\ h = l.generation) => summary'[u][h] = summary[u][h]
           /\ l \notin leases => summary'[u][h].state = summary[u][h].state
           /\ summary'[u][h].state = "leased" => summary[u][h].state = "leased"
  BY <1>1, CancelledRows
<1>3. CASE l \in leases
  <2>1. leases' = {} /\ \A m \in leases : m = l
    BY <1>2, <1>3 DEF LeaseInv, OneLease
  <2>2. \A u \in Tasks, h \in Generations : summary'[u][h].state # "leased"
    BY <1>2, <1>3, <2>1 DEF LeaseInv, LeaseRows
  <2> QED BY <1>2, <2>1, <2>2 DEF LeaseRows, OneLease
<1>4. CASE l \notin leases
  <2>1. leases' = leases
    BY <1>2, <1>4
  <2> QED BY <1>2, <1>4, <2>1 DEF LeaseInv, LeaseRows, OneLease
<1> QED BY <1>2, <1>3, <1>4

LEMMA PlayerLeases == Typed /\ LeaseInv /\ PlayerNext => LeaseInv'
<1> SUFFICES ASSUME Typed, LeaseInv, PlayerNext PROVE LeaseInv'
  OBVIOUS
<1>i. LeaseRows /\ OneLease /\ OnePlayback /\ LeasesHeld /\ LoopBetweenSteps
  BY DEF LeaseInv
<1>s. /\ summary \in [Tasks -> [Generations -> Row]] /\ leases \in SUBSET Lease
      /\ active \in SUBSET [lease: Lease, heard: BOOLEAN] /\ player \in Player
  BY DEF Typed, TypeOK
<1>a. \A a \in active : /\ a.lease \in Lease /\ a.heard \in BOOLEAN
                        /\ a = [lease |-> a.lease, heard |-> a.heard]
  BY <1>s
<1>d. IdlePlayer.pc = "idle"
  BY DEF IdlePlayer
<1>1. ASSUME NEW sl \in Slots, PlaybackRequested(sl) PROVE LeaseInv'
  <2>1. player'.pc = "replace" /\ player.pc = "idle"
    BY <1>1 DEF PlaybackRequested, IdlePlayer
  <2>2. UNCHANGED <<summary, leases, active, up>>
    BY <1>1 DEF PlaybackRequested, hostVars, ledgerVars, leaseVars
  <2> QED BY <1>i, <2>1, <2>2 DEF LeaseInv, LeaseRows, OneLease, OnePlayback, LeasesHeld,
                                  LoopBetweenSteps
<1>2. ASSUME NEW a \in active, ReplacePlayback(a) \/ PlaybackCancelled(a) PROVE LeaseInv'
  <2>1. /\ up /\ player.pc \in {"idle", "replace"} /\ active' = active \ {a}
        /\ UNCHANGED <<player, up>>
    BY <1>2 DEF ReplacePlayback, PlaybackCancelled, hostVars
  <2>2. OnePlayback' /\ LoopBetweenSteps'
    BY <1>i, <2>1 DEF OnePlayback, LoopBetweenSteps
  <2>3. CASE a.heard
    <3>1. UNCHANGED <<leases, summary>>
      BY <1>2, <2>3 DEF ReplacePlayback, PlaybackCancelled
    <3>2. \A l \in leases : [lease |-> l, heard |-> FALSE] # a
      BY <2>3
    <3>3. LeasesHeld'
      BY <1>i, <2>1, <3>1, <3>2 DEF LeasesHeld
    <3> QED BY <1>i, <2>2, <3>1, <3>3 DEF LeaseInv, LeaseRows, OneLease
  <2>4. CASE ~a.heard
    <3>1. CancelLease(a.lease)
      BY <1>2, <2>4 DEF ReplacePlayback, PlaybackCancelled
    <3>2. LeaseRows' /\ OneLease' /\ leases' = leases \ {a.lease}
      BY <1>a, <3>1, CancelLeaseRows
    <3>3. \A l \in leases' : l \in leases /\ [lease |-> l, heard |-> FALSE] # a
      BY <3>2
    <3>4. LeasesHeld'
      BY <1>i, <2>1, <3>3 DEF LeasesHeld
    <3> QED BY <2>2, <3>2, <3>4 DEF LeaseInv
  <2> QED BY <2>3, <2>4
<1>3. CASE AcquirePlayback
  <2>1. /\ up /\ player.pc = "replace" /\ active = {} /\ UNCHANGED <<active, up>>
    BY <1>3 DEF AcquirePlayback, hostVars
  <2>2. leases = {}
    BY <1>i, <2>1 DEF LeasesHeld
  <2>3. CASE player' = IdlePlayer /\ UNCHANGED <<leases, nextLease, summary>>
    BY <1>i, <1>d, <2>1, <2>2, <2>3 DEF LeaseInv, LeaseRows, OneLease, OnePlayback, LeasesHeld,
                                        LoopBetweenSteps
  <2>4. CASE \E c \in Tasks \X Generations :
               /\ summary' = [summary EXCEPT ![c[1]][c[2]].state = "leased"]
               /\ leases' = leases \cup
                    {[id |-> nextLease, task |-> c[1], generation |-> c[2]]}
               /\ player' = [player EXCEPT !.pc = "load", !.lease = nextLease]
    <3>1. PICK t \in Tasks, g \in Generations :
               /\ summary' = [summary EXCEPT ![t][g].state = "leased"]
               /\ leases' = leases \cup {[id |-> nextLease, task |-> t, generation |-> g]}
               /\ player' = [player EXCEPT !.pc = "load", !.lease = nextLease]
      BY <2>4
    <3> DEFINE l == [id |-> nextLease, task |-> t, generation |-> g]
    <3>2. leases' = {l} /\ l.id = nextLease /\ l.task = t /\ l.generation = g
      BY <2>2, <3>1
    <3>3. player'.pc = "load" /\ player'.lease = nextLease
      BY <1>s, <3>1 DEF Player
    <3>4. StateBecomes(t, g, "leased")
      <4>1. "leased" \in RowStates
        BY DEF RowStates
      <4> QED BY <1>s, <3>1, <4>1, StateWritten
    <3>5. \A u \in Tasks, h \in Generations : summary[u][h].state # "leased"
      BY <1>i, <2>2 DEF LeaseRows
    <3> HIDE DEF l
    <3>6. LeaseRows'
      <4> SUFFICES ASSUME NEW u \in Tasks, NEW h \in Generations
                   PROVE  summary'[u][h].state = "leased" <=>
                            \E m \in leases' : m.task = u /\ m.generation = h
        BY DEF LeaseRows
      <4>1. summary'[u][h].state = "leased" <=> u = t /\ h = g
        BY <3>4, <3>5 DEF StateBecomes
      <4> QED BY <3>2, <4>1
    <3>7. OneLease' /\ OnePlayback'
      BY <2>1, <3>2 DEF OneLease, OnePlayback
    <3>8. LeasesHeld' /\ LoopBetweenSteps'
      BY <2>1, <3>2, <3>3 DEF LeasesHeld, LoopBetweenSteps
    <3> QED BY <3>6, <3>7, <3>8 DEF LeaseInv
  <2> QED BY <1>3, <2>3, <2>4 DEF AcquirePlayback
<1>4. ASSUME NEW l \in leases, PlaybackStarted(l) PROVE LeaseInv'
  <2>1. /\ player.pc = "load" /\ active' = active \cup {[lease |-> l, heard |-> FALSE]}
        /\ player'.pc = "idle" /\ UNCHANGED <<leases, summary>>
    BY <1>4, <1>d DEF PlaybackStarted, ledgerVars, leaseVars
  <2>2. active' = {[lease |-> l, heard |-> FALSE]}
    BY <1>i, <2>1 DEF LoopBetweenSteps
  <2>3. OnePlayback' /\ LoopBetweenSteps'
    BY <2>1, <2>2 DEF OnePlayback, LoopBetweenSteps
  <2>4. LeasesHeld'
    BY <1>i, <2>1, <2>2 DEF LeasesHeld, OneLease
  <2> QED BY <1>i, <2>1, <2>3, <2>4 DEF LeaseInv, LeaseRows, OneLease
<1>5. ASSUME NEW l \in leases, PlaybackNotStarted(l) PROVE LeaseInv'
  <2>1. /\ player.pc = "load" /\ CancelLease(l) /\ l \in Lease
        /\ player'.pc = "idle" /\ UNCHANGED active
    BY <1>5, <1>d, <1>s DEF PlaybackNotStarted
  <2>2. LeaseRows' /\ OneLease' /\ leases' = leases \ {l}
    BY <2>1, CancelLeaseRows
  <2>3. leases' = {}
    BY <1>i, <2>2 DEF OneLease
  <2> QED BY <1>i, <2>1, <2>2, <2>3 DEF LeaseInv, OnePlayback, LeasesHeld, LoopBetweenSteps
<1>6. ASSUME NEW a \in active, PlaybackFinished(a) PROVE LeaseInv'
  <2> DEFINE l == a.lease
  <2>1. player'.pc = "reconcile" /\ player.pc = "idle" /\ UNCHANGED up /\ up
    BY <1>6 DEF PlaybackFinished, IdlePlayer, hostVars
  <2>2. CASE a.heard
    <3>1. UNCHANGED <<leases, summary, active>>
      BY <1>6, <2>2 DEF PlaybackFinished
    <3>2. \A b \in active : b.heard
      BY <1>i, <2>2 DEF OnePlayback
    <3>3. LeasesHeld' /\ LoopBetweenSteps'
      BY <1>i, <2>1, <3>1, <3>2 DEF LeasesHeld, LoopBetweenSteps
    <3> QED BY <1>i, <3>1, <3>3 DEF LeaseInv, LeaseRows, OneLease, OnePlayback
  <2>3. CASE ~a.heard
    <3>1. /\ l \in leases /\ leases' = leases \ {l}
          /\ summary' = [summary EXCEPT ![l.task][l.generation].state = "heard"]
          /\ active' = (active \ {a}) \cup {[a EXCEPT !.heard = TRUE]}
      BY <1>6, <2>3 DEF PlaybackFinished
    <3>2. l \in Lease /\ l.task \in Tasks /\ l.generation \in Generations
      BY <1>a DEF Lease
    <3>3. StateBecomes(l.task, l.generation, "heard")
      <4>1. "heard" \in RowStates
        BY DEF RowStates
      <4> QED BY <1>s, <3>1, <3>2, <4>1, StateWritten
    <3>4. leases' = {} /\ \A m \in leases : m = l
      BY <1>i, <3>1 DEF OneLease
    <3>5. \A u \in Tasks, h \in Generations : summary'[u][h].state # "leased"
      BY <1>i, <3>3, <3>4 DEF LeaseRows, StateBecomes
    <3>6. active' = {[a EXCEPT !.heard = TRUE]}
      BY <1>i, <3>1 DEF OnePlayback
    <3>7. \A b \in active' : b.heard
      BY <1>a, <3>6
    <3> QED BY <2>1, <3>4, <3>5, <3>6, <3>7 DEF LeaseInv, LeaseRows, OneLease, OnePlayback,
                                                LeasesHeld, LoopBetweenSteps
  <2> QED BY <2>2, <2>3
<1>7. ASSUME NEW a \in active, Reconcile(a) PROVE LeaseInv'
  <2>1. /\ up /\ player.pc = "reconcile" /\ player'.pc = "idle" /\ active' = active \ {a}
        /\ UNCHANGED <<summary, leases, up>>
    BY <1>7, <1>d DEF Reconcile, hostVars, ledgerVars, leaseVars
  <2>2. leases = {}
    <3> SUFFICES ASSUME NEW l \in leases PROVE FALSE
      OBVIOUS
    <3>1. [lease |-> l, heard |-> FALSE] \in active
      BY <1>i, <2>1 DEF LeasesHeld
    <3>2. [lease |-> l, heard |-> FALSE].heard
      BY <1>i, <2>1, <3>1 DEF LoopBetweenSteps
    <3> QED BY <3>2
  <2> QED BY <1>i, <2>1, <2>2 DEF LeaseInv, LeaseRows, OneLease, OnePlayback, LeasesHeld,
                                  LoopBetweenSteps
<1>8. CASE ReconcileDeferred
  <2>1. player.pc = "reconcile" /\ player'.pc = "idle" /\ UNCHANGED <<summary, leases, active, up>>
    BY <1>8, <1>d DEF ReconcileDeferred, hostVars, ledgerVars, leaseVars
  <2> QED BY <1>i, <2>1 DEF LeaseInv, LeaseRows, OneLease, OnePlayback, LeasesHeld,
                            LoopBetweenSteps
<1> QED BY <1>1, <1>2, <1>3, <1>4, <1>5, <1>6, <1>7, <1>8 DEF PlayerNext

\* No step of the serve loop makes a row generating, or touches the worker.
LEMMA PlayerClaims == Typed /\ NoZombieClaim /\ PlayerNext => NoZombieClaim'
<1> SUFFICES ASSUME Typed, NoZombieClaim, PlayerNext PROVE NoZombieClaim'
  OBVIOUS
<1>s. /\ summary \in [Tasks -> [Generations -> Row]] /\ leases \in SUBSET Lease
      /\ active \in SUBSET [lease: Lease, heard: BOOLEAN]
  BY DEF Typed, TypeOK
<1>l. /\ \A a \in active : a.lease \in Lease
      /\ \A l \in Lease : l.task \in Tasks /\ l.generation \in Generations
  BY <1>s DEF Lease
<1>u. UNCHANGED <<up, worker>>
  BY DEF PlayerNext, PlaybackRequested, ReplacePlayback, AcquirePlayback, PlaybackStarted,
         PlaybackNotStarted, PlaybackFinished, Reconcile, ReconcileDeferred, PlaybackCancelled,
         hostVars
<1>k. ASSUME \A t \in Tasks, g \in Generations :
               summary'[t][g].state = "generating" => summary[t][g].state = "generating"
      PROVE  NoZombieClaim'
  BY <1>k, <1>u DEF NoZombieClaim, StateOf
<1>c. ASSUME NEW l \in Lease, CancelLease(l) PROVE NoZombieClaim'
  <2>1. /\ summary'[l.task][l.generation].state = "generating" =>
             summary[l.task][l.generation].state = "generating"
        /\ \A u \in Tasks, h \in Generations :
             ~(u = l.task /\ h = l.generation) => summary'[u][h] = summary[u][h]
    BY <1>c, <1>s, CancelledRows
  <2> QED BY <1>k, <2>1
<1>w. ASSUME NEW t \in Tasks, NEW g \in Generations, NEW st \in {"leased", "heard"},
             summary' = [summary EXCEPT ![t][g].state = st]
      PROVE  NoZombieClaim'
  <2>1. st \in RowStates /\ st # "generating"
    BY DEF RowStates
  <2>2. StateBecomes(t, g, st)
    BY <1>s, <1>w, <2>1, StateWritten
  <2> QED BY <1>k, <2>1, <2>2 DEF StateBecomes
<1>1. CASE UNCHANGED summary
  BY <1>1, <1>k
<1>2. ASSUME NEW a \in active, ReplacePlayback(a) \/ PlaybackCancelled(a) PROVE NoZombieClaim'
  BY <1>2, <1>1, <1>c, <1>l DEF ReplacePlayback, PlaybackCancelled
<1>3. CASE AcquirePlayback
  <2>1. CASE \E c \in Tasks \X Generations : summary' = [summary EXCEPT ![c[1]][c[2]].state = "leased"]
    <3>1. PICK t \in Tasks, g \in Generations : summary' = [summary EXCEPT ![t][g].state = "leased"]
      BY <2>1
    <3> QED BY <3>1, <1>w
  <2> QED BY <1>3, <1>1, <2>1 DEF AcquirePlayback
<1>4. ASSUME NEW l \in leases, PlaybackNotStarted(l) PROVE NoZombieClaim'
  BY <1>4, <1>c, <1>s DEF PlaybackNotStarted
<1>5. ASSUME NEW a \in active, PlaybackFinished(a) PROVE NoZombieClaim'
  <2>1. a.lease.task \in Tasks /\ a.lease.generation \in Generations
    BY <1>l
  <2>2. \/ UNCHANGED summary
        \/ summary' = [summary EXCEPT ![a.lease.task][a.lease.generation].state = "heard"]
    BY <1>5 DEF PlaybackFinished
  <2> QED BY <1>1, <1>w, <2>1, <2>2
<1>6. CASE \/ ReconcileDeferred \/ \E sl \in Slots : PlaybackRequested(sl)
           \/ \E a \in active : Reconcile(a)
           \/ \E l \in leases : PlaybackStarted(l)
  BY <1>6, <1>1 DEF ReconcileDeferred, PlaybackRequested, Reconcile, PlaybackStarted, ledgerVars
<1> QED BY <1>2, <1>3, <1>4, <1>5, <1>6 DEF PlayerNext

LEMMA ClaimsAndLeasesStep ==
  Typed /\ CoverInv /\ NoZombieClaim /\ LeaseInv /\ [Next]_vars => NoZombieClaim' /\ LeaseInv'
<1> SUFFICES ASSUME Typed, CoverInv, NoZombieClaim, LeaseInv, [Next]_vars
             PROVE  NoZombieClaim' /\ LeaseInv'
  OBVIOUS
<1>s. summary \in [Tasks -> [Generations -> Row]]
  BY DEF Typed, TypeOK
<1>k. ASSUME \A t \in Tasks, g \in Generations :
               summary'[t][g].state = "generating" => summary[t][g].state = "generating",
             UNCHANGED <<up, worker>>
      PROVE  NoZombieClaim'
  BY <1>k DEF NoZombieClaim, StateOf
<1>1. CASE UNCHANGED vars \/ (\E s \in Slots, t \in Tasks : SetBinding(s, t))
                          \/ \E t \in Tasks : CommitCompletion(t)
  <2>1. UNCHANGED <<summary, leases, active, player, up, worker>>
    BY <1>1 DEF vars, SetBinding, CommitCompletion, hostVars, ledgerVars, leaseVars
  <2> QED BY <1>k, <2>1, LeaseFrame DEF NothingElse, PlaybackStatesSame
<1>2. CASE WorkerNext
  BY <1>2, WorkerClaims, LeaseFrame
<1>3. CASE PlayerNext
  BY <1>3, PlayerLeases, PlayerClaims
<1>4. CASE Crash
  <2>1. /\ up' = FALSE /\ active' = {} /\ player'.pc = "idle" /\ UNCHANGED <<summary, leases>>
    BY <1>4 DEF Crash, IdlePlayer, ledgerVars, leaseVars
  <2> QED BY <2>1 DEF NoZombieClaim, LeaseInv, LeaseRows, OneLease, OnePlayback, LeasesHeld,
                      LoopBetweenSteps
<1>5. CASE OpenStore
  <2>1. summary' = Recovered /\ leases' = {} /\ UNCHANGED <<active, player>>
    BY <1>5 DEF OpenStore
  <2>2. \A t \in Tasks, g \in Generations : summary'[t][g].state \notin {"leased", "generating"}
    BY <1>s, <2>1, RecoveredStates
  <2> QED BY <2>1, <2>2 DEF NoZombieClaim, StateOf, LeaseInv, LeaseRows, OneLease, OnePlayback,
                            LeasesHeld, LoopBetweenSteps
<1>6. ASSUME NEW t \in Tasks, NEW g \in Generations, OperatorAbandon(t, g)
      PROVE  NoZombieClaim' /\ LeaseInv'
  <2>1. /\ leases' = {} /\ UNCHANGED <<active, player, up>> /\ ~up
    BY <1>6 DEF OperatorAbandon, hostVars
  <2>2. \A u \in Tasks, h \in Generations : summary'[u][h].state # "leased"
    BY <1>6, <1>s, OperatorRows, RecoveredStates
  <2> QED BY <2>1, <2>2 DEF NoZombieClaim, LeaseInv, LeaseRows, OneLease, OnePlayback,
                            LeasesHeld, LoopBetweenSteps
<1>7. ASSUME NEW t \in Tasks, NEW g \in Generations, CleanStale(t, g)
      PROVE  NoZombieClaim' /\ LeaseInv'
  <2>1. /\ summary' = [summary EXCEPT ![t][g].state = "abandoned"]
        /\ UNCHANGED <<leases, active, player, up, worker>> /\ Active(summary[t][g])
    BY <1>7 DEF CleanStale, hostVars, leaseVars, ActiveClaims, StateOf, Active
  <2>2. StateBecomes(t, g, "abandoned")
    <3>1. "abandoned" \in RowStates
      BY DEF RowStates
    <3> QED BY <1>s, <2>1, <3>1, StateWritten
  <2>3. PlaybackStatesSame
    BY <2>1, <2>2 DEF PlaybackStatesSame, StateBecomes, Active
  <2>4. NoZombieClaim'
    BY <1>k, <2>1, <2>2 DEF StateBecomes
  <2> QED BY <2>1, <2>3, <2>4, LeaseFrame DEF NothingElse
<1> QED BY <1>1, <1>2, <1>3, <1>4, <1>5, <1>6, <1>7 DEF Next

\* The inductive invariant of the ledger.
LedgerInv == Typed /\ CoverInv /\ UnreadInv /\ NoZombieClaim /\ LeaseInv

LEMMA LedgerInit == Init => LedgerInv
<1>1. Init => NoZombieClaim
  BY DEF Init, NoZombieClaim, StateOf, NoRow
<1> QED BY <1>1, TypedInit, CoverInit, UnreadInit, LeaseInit DEF LedgerInv

LEMMA LedgerStep == LedgerInv /\ [Next]_vars => LedgerInv'
BY TypedStep, CoverStep, UnreadStep, ClaimsAndLeasesStep DEF LedgerInv

\* While the Host runs, its rows say what its threads do: one unread summary with something in
\* it, one claim, and it is the worker's; a leased row has one lease, held by the serve loop.
THEOREM RowsTrue == Spec => []RowsAreTrue
<1>1. LedgerInv => RowsAreTrue
  <2> SUFFICES ASSUME LedgerInv PROVE RowsAreTrue
    OBVIOUS
  <2>1. CurrentUnreadIsPlayable /\ NoZombieClaim
    BY UnreadIsPlayable DEF LedgerInv
  <2>2. LeasesAreHeld
    BY DEF LedgerInv, LeaseInv, LeaseRows, OneLease, LeasesHeld, LeasesAreHeld, StateOf
  <2> QED BY <2>1, <2>2 DEF RowsAreTrue
<1> QED BY <1>1, LedgerInit, LedgerStep, PTL DEF Spec

-----------------------------------------------------------------------------
(* The ledger implements the mailbox.  The four values of the mailbox are  *)
(* given per task, in terms of rows, and a step of the ledger is shown to  *)
(* be one of the mailbox by what it does to the rows of each task.         *)

Pend == [t \in Tasks |-> Pending(t)]
Unread == [t \in Tasks |-> UnreadSet(t)]
Playing ==
  [t \in Tasks |-> IF \E g \in CurrentUnread(t) : StateOf(t, g) = "leased"
                   THEN UnreadSet(t) ELSE {}]
Heard ==
  [t \in Tasks |-> {k \in 1..observed[t] :
                      coveredBy[t][k] # 0 /\ StateOf(t, coveredBy[t][k]) = "heard"}]

BeingPlayed(t) ==
  \E g \in Generations : Readable(summary[t][g]) /\ summary[t][g].state = "leased"

\* The completions of a task in the generations whose rows have a property.
CoveredAs(t, P(_)) ==
  {k \in 1..observed[t] : coveredBy[t][k] \in Generations /\ P(summary[t][coveredBy[t][k]])}
IsHeard(row) == row.state = "heard"

MailboxOf(t) ==
  /\ Pend[t] = {k \in 1..observed[t] : coveredBy[t][k] = 0}
  /\ Unread[t] = CoveredAs(t, Readable)
  /\ Playing[t] = IF BeingPlayed(t) THEN Unread[t] ELSE {}
  /\ Heard[t] = CoveredAs(t, IsHeard)

MailboxFunctions ==
  /\ Pend = [t \in Tasks |-> Pend[t]] /\ Unread = [t \in Tasks |-> Unread[t]]
  /\ Playing = [t \in Tasks |-> Playing[t]] /\ Heard = [t \in Tasks |-> Heard[t]]

MailboxHolds == MailboxFunctions /\ \A t \in Tasks : MailboxOf(t)

LEMMA MailboxValues == Typed => MailboxHolds
<1> SUFFICES ASSUME Typed PROVE MailboxHolds
  OBVIOUS
<1>1. MailboxFunctions
  BY DEF MailboxFunctions, Pend, Unread, Playing, Heard
<1>2. ASSUME NEW t \in Tasks PROVE MailboxOf(t)
  <2>1. Pend[t] = Pending(t) /\ Unread[t] = UnreadSet(t)
    BY DEF Pend, Unread
  <2>2. /\ Playing[t] = IF \E g \in CurrentUnread(t) : StateOf(t, g) = "leased"
                        THEN UnreadSet(t) ELSE {}
        /\ Heard[t] = {k \in 1..observed[t] :
                         coveredBy[t][k] # 0 /\ StateOf(t, coveredBy[t][k]) = "heard"}
    BY DEF Playing, Heard
  <2>3. \A k \in 1..observed[t] : coveredBy[t][k] \in 0..MaxGeneration
    BY BoundsAssumption DEF Typed, TypeOK
  <2>4. \A k \in 1..observed[t] : coveredBy[t][k] # 0 <=> coveredBy[t][k] \in Generations
    BY <2>3, BoundsAssumption
  <2>5. \A g : g \in CurrentUnread(t) <=> g \in Generations /\ Readable(summary[t][g])
    BY DEF CurrentUnread, StateOf, Readable, Playable
  <2>6. (\E g \in CurrentUnread(t) : StateOf(t, g) = "leased") <=> BeingPlayed(t)
    BY <2>5 DEF BeingPlayed, StateOf
  <2>7. UnreadSet(t) = CoveredAs(t, Readable)
    BY <2>5, Zenon DEF UnreadSet, CoveredAs
  <2>8. Heard[t] = CoveredAs(t, IsHeard)
    BY <2>2, <2>4 DEF CoveredAs, IsHeard, StateOf
  <2> QED BY <2>1, <2>2, <2>6, <2>7, <2>8 DEF MailboxOf, Pending
<1> QED BY <1>1, <1>2 DEF MailboxHolds

LEMMA MailboxValuesNext == Typed' => MailboxHolds'
BY MailboxValues, PTL

\* The steps of the mailbox, in terms of the four values.
LEMMA MailboxActions ==
  /\ /\ UNCHANGED <<Pend, Unread, Heard>>
     /\ \A t \in Tasks : Playing'[t] \in {Playing[t], {}}
     /\ Playing' = [t \in Tasks |-> Playing'[t]]
     => Mail!Stop
  /\ \A t \in Tasks :
       /\ Unread[t] # {} /\ Playing[t] = {}
       /\ Playing' = [Playing EXCEPT ![t] = Unread[t]]
       /\ UNCHANGED <<Pend, Unread, Heard>>
       => Mail!Play(t)
  /\ \A t \in Tasks :
       /\ Playing[t] # {}
       /\ Heard' = [Heard EXCEPT ![t] = @ \cup Playing[t]]
       /\ Unread' = [Unread EXCEPT ![t] = @ \ Playing[t]]
       /\ Playing' = [Playing EXCEPT ![t] = {}]
       /\ UNCHANGED Pend
       => Mail!Hear(t)
  /\ \A t \in Tasks, k \in 1..MaxCompletions :
       /\ k \notin (Pend[t] \cup Unread[t] \cup Heard[t])
       /\ Pend' = [Pend EXCEPT ![t] = @ \cup {k}]
       /\ UNCHANGED <<Unread, Playing, Heard>>
       => Mail!Observe(t)
  /\ \A t \in Tasks : \A batch \in SUBSET Pend[t] :
       /\ batch # {}
       /\ Pend' = [Pend EXCEPT ![t] = @ \ batch]
       /\ Unread' = [Unread EXCEPT ![t] = @ \cup batch]
       /\ Playing' = [Playing EXCEPT ![t] = {}]
       /\ UNCHANGED Heard
       => Mail!Summarise(t)
<1>1. ASSUME UNCHANGED <<Pend, Unread, Heard>>,
             \A t \in Tasks : Playing'[t] \in {Playing[t], {}},
             Playing' = [t \in Tasks |-> Playing'[t]]
      PROVE  Mail!Stop
  <2> DEFINE stopped == {t \in Tasks : Playing'[t] = {}}
  <2>1. [t \in Tasks |-> Playing'[t]]
          = [t \in Tasks |-> IF t \in stopped THEN {} ELSE Playing[t]]
    BY <1>1
  <2>2. Playing' = [t \in Tasks |-> IF t \in stopped THEN {} ELSE Playing[t]]
    BY <1>1, <2>1
  <2>3. stopped \in SUBSET Tasks
    OBVIOUS
  <2> HIDE DEF stopped
  <2> QED BY <1>1, <2>2, <2>3 DEF Mail!Stop, Pend, Unread, Playing, Heard
<1>2. ASSUME NEW t \in Tasks, Unread[t] # {}, Playing[t] = {},
             Playing' = [Playing EXCEPT ![t] = Unread[t]], UNCHANGED <<Pend, Unread, Heard>>
      PROVE  Mail!Play(t)
  BY <1>2 DEF Mail!Play, Pend, Unread, Playing, Heard
<1>3. ASSUME NEW t \in Tasks, Playing[t] # {},
             Heard' = [Heard EXCEPT ![t] = @ \cup Playing[t]],
             Unread' = [Unread EXCEPT ![t] = @ \ Playing[t]],
             Playing' = [Playing EXCEPT ![t] = {}], UNCHANGED Pend
      PROVE  Mail!Hear(t)
  BY <1>3 DEF Mail!Hear, Pend, Unread, Playing, Heard
<1>4. ASSUME NEW t \in Tasks, NEW k \in 1..MaxCompletions,
             k \notin (Pend[t] \cup Unread[t] \cup Heard[t]),
             Pend' = [Pend EXCEPT ![t] = @ \cup {k}], UNCHANGED <<Unread, Playing, Heard>>
      PROVE  Mail!Observe(t)
  BY <1>4 DEF Mail!Observe, Mail!Completions, Pend, Unread, Playing, Heard
<1>5. ASSUME NEW t \in Tasks, NEW batch \in SUBSET Pend[t], batch # {},
             Pend' = [Pend EXCEPT ![t] = @ \ batch],
             Unread' = [Unread EXCEPT ![t] = @ \cup batch],
             Playing' = [Playing EXCEPT ![t] = {}], UNCHANGED Heard
      PROVE  Mail!Summarise(t)
  <2>1. \E b \in (SUBSET Pend[t]) \ {{}} :
          /\ Pend' = [Pend EXCEPT ![t] = @ \ b]
          /\ Unread' = [Unread EXCEPT ![t] = @ \cup b]
    <3>1. batch \in (SUBSET Pend[t]) \ {{}}
      BY <1>5
    <3> QED BY <1>5, <3>1, Zenon
  <2> QED BY <1>5, <2>1 DEF Mail!Summarise, Pend, Unread, Playing, Heard
<1> QED BY <1>1, <1>2, <1>3, <1>4, <1>5

\* A step that leaves the completions of a task, and what may be read of them, as they were.
RowsReadAlike(t) ==
  /\ observed'[t] = observed[t]
  /\ \A k \in Completions : coveredBy'[t][k] = coveredBy[t][k]
  /\ \A g \in Generations : Readable(summary'[t][g]) <=> Readable(summary[t][g])
  /\ \A k \in Completions : coveredBy[t][k] \in Generations =>
       (IsHeard(summary'[t][coveredBy[t][k]]) <=> IsHeard(summary[t][coveredBy[t][k]]))

LEMMA SameMailbox ==
  ASSUME Typed, Typed', NEW t \in Tasks, RowsReadAlike(t)
  PROVE  Pend'[t] = Pend[t] /\ Unread'[t] = Unread[t] /\ Heard'[t] = Heard[t]
<1>1. MailboxOf(t) /\ MailboxOf(t)'
  BY MailboxValues, MailboxValuesNext DEF MailboxHolds
<1>2. 1..observed[t] \subseteq Completions
  BY BoundsAssumption DEF Typed, TypeOK
<1>3. Pend'[t] = Pend[t]
  BY <1>1, <1>2 DEF RowsReadAlike, MailboxOf
<1>4. \A k \in 1..observed[t] :
        coveredBy'[t][k] = coveredBy[t][k] /\ coveredBy[t][k] \in Generations =>
          /\ Readable(summary'[t][coveredBy'[t][k]]) <=> Readable(summary[t][coveredBy[t][k]])
          /\ IsHeard(summary'[t][coveredBy'[t][k]]) <=> IsHeard(summary[t][coveredBy[t][k]])
  BY <1>2 DEF RowsReadAlike
<1>5. \A k \in 1..observed[t] : coveredBy'[t][k] = coveredBy[t][k]
  BY <1>2 DEF RowsReadAlike
<1>6. observed'[t] = observed[t]
  BY DEF RowsReadAlike
<1>7. Unread'[t] = Unread[t]
  BY <1>1, <1>4, <1>5, <1>6 DEF MailboxOf, CoveredAs
<1>8. Heard'[t] = Heard[t]
  BY <1>1, <1>4, <1>5, <1>6 DEF MailboxOf, CoveredAs
<1> QED BY <1>3, <1>7, <1>8

\* The rows of a task that no step of another task touches.
RowsSame(t) ==
  observed'[t] = observed[t] /\ coveredBy'[t] = coveredBy[t]
  /\ \A g \in Generations : summary'[t][g] = summary[t][g]

LEMMA OtherMailbox ==
  ASSUME Typed, Typed', NEW t \in Tasks, RowsSame(t)
  PROVE  /\ Pend'[t] = Pend[t] /\ Unread'[t] = Unread[t] /\ Heard'[t] = Heard[t]
         /\ Playing'[t] = Playing[t]
<1>1. RowsReadAlike(t)
  BY DEF RowsReadAlike, RowsSame
<1>2. MailboxOf(t) /\ MailboxOf(t)'
  BY MailboxValues, MailboxValuesNext DEF MailboxHolds
<1>3. BeingPlayed(t)' <=> BeingPlayed(t)
  BY DEF BeingPlayed, RowsSame
<1> QED BY <1>1, <1>2, <1>3, SameMailbox DEF MailboxOf

\* No playback begins and nothing becomes heard: to the mailbox, at most a playback ends.
QuietStep ==
  \A t \in Tasks :
    /\ RowsReadAlike(t)
    /\ \A g \in Generations : summary'[t][g].state = "leased" => summary[t][g].state = "leased"

LEMMA QuietStops == Typed /\ Typed' /\ QuietStep => Mail!Stop
<1> SUFFICES ASSUME Typed, Typed', QuietStep PROVE Mail!Stop
  OBVIOUS
<1>1. MailboxHolds /\ MailboxHolds'
  BY MailboxValues, MailboxValuesNext
<1>2. \A t \in Tasks : Pend'[t] = Pend[t] /\ Unread'[t] = Unread[t] /\ Heard'[t] = Heard[t]
  BY SameMailbox DEF QuietStep
<1>3. UNCHANGED <<Pend, Unread, Heard>>
  <2>1. MailboxFunctions /\ MailboxFunctions'
    BY <1>1 DEF MailboxHolds
  <2>2. /\ [t \in Tasks |-> Pend'[t]] = [t \in Tasks |-> Pend[t]]
        /\ [t \in Tasks |-> Unread'[t]] = [t \in Tasks |-> Unread[t]]
        /\ [t \in Tasks |-> Heard'[t]] = [t \in Tasks |-> Heard[t]]
    BY <1>2
  <2> QED BY <2>1, <2>2 DEF MailboxFunctions
<1>4. \A t \in Tasks : BeingPlayed(t)' => BeingPlayed(t)
  BY DEF QuietStep, RowsReadAlike, BeingPlayed
<1>5. \A t \in Tasks : Playing'[t] \in {Playing[t], {}}
  BY <1>1, <1>2, <1>4 DEF MailboxHolds, MailboxOf
<1>6. Playing' = [t \in Tasks |-> Playing'[t]]
  BY <1>1 DEF MailboxHolds, MailboxFunctions
<1> QED BY <1>3, <1>5, <1>6, MailboxActions

LEMMA FunctionUpdate ==
  ASSUME NEW F, NEW G, F = [u \in Tasks |-> F[u]], G = [u \in Tasks |-> G[u]],
         NEW t \in Tasks, NEW v, G[t] = v, \A u \in Tasks : u # t => G[u] = F[u]
  PROVE  G = [F EXCEPT ![t] = v]
<1>1. \A u \in Tasks : G[u] = [F EXCEPT ![t] = v][u]
  OBVIOUS
<1>2. [F EXCEPT ![t] = v] = [u \in Tasks |-> [F EXCEPT ![t] = v][u]]
  OBVIOUS
<1>3. [u \in Tasks |-> G[u]] = [u \in Tasks |-> [F EXCEPT ![t] = v][u]]
  BY <1>1
<1> QED BY <1>2, <1>3

\* A mailbox with a readable row has something in it, and what is being played is that row.
LEMMA UnreadRow ==
  ASSUME Typed, CoverInv, UnreadInv, NEW t \in Tasks, NEW g \in Generations,
         Readable(summary[t][g])
  PROVE  /\ Unread[t] # {}
         /\ Unread[t] = {k \in 1..observed[t] : coveredBy[t][k] = g}
         /\ BeingPlayed(t) <=> summary[t][g].state = "leased"
<1>1. \A h \in Generations : Readable(summary[t][h]) <=> h = g
  BY DEF UnreadInv, OneUnread
<1>2. MailboxOf(t)
  BY MailboxValues DEF MailboxHolds
<1>3. Unread[t] = {k \in 1..observed[t] : coveredBy[t][k] = g}
  BY <1>1, <1>2 DEF MailboxOf, CoveredAs
<1>4. PICK k \in Completions : coveredBy[t][k] = g
  BY DEF UnreadInv, UnreadCovered
<1>5. k \in 1..observed[t]
  <2>1. observed[t] \in Nat
    BY BoundsAssumption DEF Typed, TypeOK
  <2>2. ~(k > observed[t])
    BY <1>4 DEF CoverInv, NoneCoveredEarly
  <2> QED BY <2>1, <2>2
<1> QED BY <1>1, <1>3, <1>4, <1>5 DEF BeingPlayed

\* acquire_summary_playback: the row the mailbox shows is leased.
LEMMA AcquirePlays ==
  ASSUME Typed, Typed', CoverInv, UnreadInv, NEW t \in Tasks, NEW g \in Generations,
         Readable(summary[t][g]), summary[t][g].state = "unheard",
         StateBecomes(t, g, "leased"), UNCHANGED <<coveredBy, observed>>
  PROVE  Mail!Play(t)
<1>1. Unread[t] # {} /\ ~BeingPlayed(t)
  BY UnreadRow
<1>2. MailboxHolds /\ MailboxHolds'
  BY MailboxValues, MailboxValuesNext
<1>3. Playing[t] = {}
  BY <1>1, <1>2 DEF MailboxHolds, MailboxOf
<1>4. \A h \in Generations : /\ Readable(summary'[t][h]) <=> Readable(summary[t][h])
                             /\ IsHeard(summary'[t][h]) <=> IsHeard(summary[t][h])
  BY DEF StateBecomes, Readable, Playable, IsHeard
<1>5. RowsReadAlike(t)
  BY <1>4 DEF RowsReadAlike
<1>6. \A u \in Tasks : u # t => RowsSame(u)
  BY DEF RowsSame, StateBecomes
<1>7. /\ Pend'[t] = Pend[t] /\ Unread'[t] = Unread[t] /\ Heard'[t] = Heard[t]
      /\ \A u \in Tasks : u # t => /\ Pend'[u] = Pend[u] /\ Unread'[u] = Unread[u]
                                   /\ Heard'[u] = Heard[u] /\ Playing'[u] = Playing[u]
  BY <1>5, <1>6, SameMailbox, OtherMailbox
<1>8. BeingPlayed(t)'
  BY <1>4 DEF BeingPlayed, StateBecomes
<1>9. Playing'[t] = Unread[t]
  BY <1>2, <1>7, <1>8 DEF MailboxHolds, MailboxOf
<1>10. MailboxFunctions /\ MailboxFunctions'
  BY <1>2 DEF MailboxHolds
<1>11. Playing' = [Playing EXCEPT ![t] = Unread[t]]
  BY <1>7, <1>9, <1>10, FunctionUpdate DEF MailboxFunctions
<1>12. UNCHANGED <<Pend, Unread, Heard>>
  <2>1. /\ [u \in Tasks |-> Pend'[u]] = [u \in Tasks |-> Pend[u]]
        /\ [u \in Tasks |-> Unread'[u]] = [u \in Tasks |-> Unread[u]]
        /\ [u \in Tasks |-> Heard'[u]] = [u \in Tasks |-> Heard[u]]
    BY <1>7
  <2> QED BY <1>10, <2>1 DEF MailboxFunctions
<1> QED BY <1>1, <1>3, <1>11, <1>12, MailboxActions

\* finish_summary_playback of the row the mailbox shows: everything in it has been heard.
LEMMA FinishHears ==
  ASSUME Typed, Typed', CoverInv, UnreadInv, NEW t \in Tasks, NEW g \in Generations,
         Readable(summary[t][g]), summary[t][g].state = "leased",
         StateBecomes(t, g, "heard"), UNCHANGED <<coveredBy, observed>>
  PROVE  Mail!Hear(t)
<1>1. MailboxHolds /\ MailboxHolds'
  BY MailboxValues, MailboxValuesNext
<1>2. MailboxOf(t) /\ MailboxOf(t)'
  BY <1>1 DEF MailboxHolds
<1>3. Playing[t] # {} /\ Playing[t] = Unread[t]
  BY <1>2, UnreadRow DEF MailboxOf
<1>4. Unread[t] = {k \in 1..observed[t] : coveredBy[t][k] = g}
  BY UnreadRow
<1>5. /\ \A h \in Generations : ~Readable(summary'[t][h])
      /\ \A h \in Generations : IsHeard(summary'[t][h]) <=> h = g \/ IsHeard(summary[t][h])
  BY DEF UnreadInv, OneUnread, StateBecomes, Readable, Playable, IsHeard
<1>6. Pend'[t] = Pend[t]
  BY <1>2 DEF MailboxOf
<1>7. Unread'[t] = {}
  BY <1>2, <1>5 DEF MailboxOf, CoveredAs
<1>8. Playing'[t] = {}
  BY <1>2, <1>7 DEF MailboxOf
<1>9. Heard'[t] = Heard[t] \cup Playing[t]
  BY <1>2, <1>3, <1>4, <1>5 DEF MailboxOf, CoveredAs
<1>10. Unread'[t] = Unread[t] \ Playing[t]
  BY <1>3, <1>7
<1>11. \A u \in Tasks : u # t => /\ Pend'[u] = Pend[u] /\ Unread'[u] = Unread[u]
                                 /\ Heard'[u] = Heard[u] /\ Playing'[u] = Playing[u]
  <2>1. \A u \in Tasks : u # t => RowsSame(u)
    BY DEF RowsSame, StateBecomes
  <2> QED BY <2>1, OtherMailbox
<1>12. MailboxFunctions /\ MailboxFunctions'
  BY <1>1 DEF MailboxHolds
<1>13. /\ Heard' = [Heard EXCEPT ![t] = Heard[t] \cup Playing[t]]
       /\ Unread' = [Unread EXCEPT ![t] = Unread[t] \ Playing[t]]
       /\ Playing' = [Playing EXCEPT ![t] = {}]
  BY <1>8, <1>9, <1>10, <1>11, <1>12, FunctionUpdate DEF MailboxFunctions
<1>14. UNCHANGED Pend
  <2>1. [u \in Tasks |-> Pend'[u]] = [u \in Tasks |-> Pend[u]]
    BY <1>6, <1>11
  <2> QED BY <1>12, <2>1 DEF MailboxFunctions
<1> QED BY <1>3, <1>13, <1>14, MailboxActions

\* The playback of a row that was superseded meanwhile ends: nothing was covered by it any more.
LEMMA LateFinishIsQuiet ==
  ASSUME Typed, CoverInv, NEW t \in Tasks, NEW g \in Generations,
         ~Readable(summary[t][g]), summary[t][g].state = "leased",
         StateBecomes(t, g, "heard"), UNCHANGED <<coveredBy, observed>>
  PROVE  QuietStep
<1>1. \A k \in Completions : coveredBy[t][k] # g
  BY DEF CoverInv, CoveredKept
<1>2. RowsReadAlike(t)
  BY <1>1 DEF RowsReadAlike, StateBecomes, Readable, Playable, IsHeard
<1>3. \A u \in Tasks : u # t => RowsReadAlike(u)
  BY DEF RowsReadAlike, StateBecomes
<1>4. \A u \in Tasks, h \in Generations :
        summary'[u][h].state = "leased" => summary[u][h].state = "leased"
  BY DEF StateBecomes
<1> QED BY <1>2, <1>3, <1>4 DEF QuietStep

\* publish_summary: the batch leaves the pending completions and joins the unread ones.
LEMMA PublishSummarises ==
  ASSUME Typed, Typed', CoverInv, UnreadInv, PublishStep
  PROVE  \E t \in Tasks : Mail!Summarise(t)
<1> SUFFICES ASSUME NEW t \in Tasks, NEW g \in Generations,
                    t = worker.task, g = worker.generation
             PROVE  Mail!Summarise(t)
  BY DEF PublishStep
<1> DEFINE row == summary[t][g]
           batch == row.covers
<1>1. /\ t \in Tasks /\ g \in Generations /\ row \in Row /\ row.state = "generating"
      /\ \A h \in Generations : Readable(summary[t][h]) <=> row.previous # 0 /\ h = row.previous
      /\ batch \subseteq Pending(t)
      /\ summary'[t][g].state = "unheard" /\ Readable(summary'[t][g])
      /\ \A h \in Generations : h # g /\ h # row.previous => summary'[t][h] = summary[t][h]
      /\ \A k \in Completions :
           coveredBy'[t][k] = IF k \in batch \/ (row.previous # 0 /\ coveredBy[t][k] = row.previous)
                              THEN g ELSE coveredBy[t][k]
      /\ \A u \in Tasks : u # t => summary'[u] = summary[u] /\ coveredBy'[u] = coveredBy[u]
      /\ observed' = observed
  BY PublishedRows
<1>2. row.previous \in Generations /\ row.previous # g =>
        /\ ~Readable(summary'[t][row.previous])
        /\ summary'[t][row.previous].state # "heard"
        /\ summary[t][row.previous].state # "heard"
  BY PublishedRows
<1>3. batch # {}
  BY <1>1 DEF UnreadInv, ClaimCovers, Active
<1>4. row.previous # 0 => row.previous \in Generations
  BY <1>1, BoundsAssumption DEF Row
<1>5. ~Readable(row) /\ ~IsHeard(row)
  BY <1>1 DEF Readable, Playable, IsHeard
<1>6. \A h \in Generations : coveredBy[t] \in [Completions -> 0..MaxGeneration]
  BY <1>1 DEF Typed, TypeOK
<1>p. row.previous # g
  <2>1. row.previous = g => Readable(summary[t][g])
    BY <1>1, <1>4
  <2> QED BY <1>5, <2>1
<1> HIDE DEF batch, row
<1>7. \A h \in Generations : h # g => ~Readable(summary'[t][h])
  BY <1>1, <1>2
<1>8. \A h \in Generations : /\ IsHeard(summary'[t][h]) <=> IsHeard(summary[t][h])
                             /\ h = row.previous => ~IsHeard(summary[t][h])
  <2>1. ~IsHeard(summary'[t][g]) /\ ~IsHeard(summary[t][g])
    BY <1>1, <1>5 DEF IsHeard, row
  <2> QED BY <1>1, <1>2, <2>1 DEF IsHeard
<1>9. MailboxHolds /\ MailboxHolds'
  BY MailboxValues, MailboxValuesNext
<1>10. MailboxOf(t) /\ MailboxOf(t)'
  BY <1>1, <1>9 DEF MailboxHolds
<1>11. /\ 1..observed[t] \subseteq Completions /\ 0 \notin Generations /\ g # 0
       /\ \A k \in 1..observed[t] : k \in batch => coveredBy[t][k] = 0
       /\ batch \subseteq 1..observed[t]
  BY <1>1, BoundsAssumption DEF Typed, TypeOK, Pending
<1>12. Pend'[t] = Pend[t] \ batch /\ batch \in SUBSET Pend[t]
  <2>1. \A k \in 1..observed[t] : coveredBy'[t][k] = 0 <=> coveredBy[t][k] = 0 /\ k \notin batch
    BY <1>1, <1>11
  <2> QED BY <1>1, <1>10, <1>11, <2>1 DEF MailboxOf
<1>13. Unread'[t] = Unread[t] \cup batch
  <2>1. Unread'[t] = {k \in 1..observed[t] : coveredBy'[t][k] = g}
    BY <1>1, <1>7, <1>10 DEF MailboxOf, CoveredAs
  <2>2. Unread[t] = {k \in 1..observed[t] : row.previous # 0 /\ coveredBy[t][k] = row.previous}
    BY <1>1, <1>4, <1>10, ZenonT(60) DEF MailboxOf, CoveredAs
  <2>3. \A k \in Completions : coveredBy[t][k] # g
    BY <1>1, <1>5 DEF CoverInv, CoveredKept, IsHeard, row
  <2>4. \A k \in 1..observed[t] :
          coveredBy'[t][k] = g <=> k \in batch \/ (row.previous # 0 /\ coveredBy[t][k] = row.previous)
    BY <1>1, <1>11, <2>3
  <2> QED BY <1>11, <2>1, <2>2, <2>4
<1>14. Heard'[t] = Heard[t]
  <2>1. \A k \in 1..observed[t] :
          (coveredBy'[t][k] \in Generations /\ IsHeard(summary'[t][coveredBy'[t][k]]))
            <=> (coveredBy[t][k] \in Generations /\ IsHeard(summary[t][coveredBy[t][k]]))
    <3> SUFFICES ASSUME NEW k \in 1..observed[t]
                 PROVE  (coveredBy'[t][k] \in Generations /\ IsHeard(summary'[t][coveredBy'[t][k]]))
                          <=> (coveredBy[t][k] \in Generations /\ IsHeard(summary[t][coveredBy[t][k]]))
      OBVIOUS
    <3>1. k \in Completions
      BY <1>11
    <3>2. CASE k \in batch \/ (row.previous # 0 /\ coveredBy[t][k] = row.previous)
      <4>1. coveredBy'[t][k] = g /\ ~IsHeard(summary'[t][g])
        BY <1>1, <3>1, <3>2 DEF IsHeard
      <4>2. coveredBy[t][k] = 0 \/ coveredBy[t][k] = row.previous
        BY <1>11, <3>2
      <4> QED BY <1>8, <1>11, <4>1, <4>2
    <3>3. CASE ~(k \in batch \/ (row.previous # 0 /\ coveredBy[t][k] = row.previous))
      <4>1. coveredBy'[t][k] = coveredBy[t][k]
        BY <1>1, <3>1, <3>3
      <4> QED BY <1>8, <4>1
    <3> QED BY <3>2, <3>3
  <2>2. observed'[t] = observed[t]
    BY <1>1
  <2> QED BY <1>10, <2>1, <2>2 DEF MailboxOf, CoveredAs
<1>15. ~BeingPlayed(t)'
  BY <1>1, <1>7 DEF BeingPlayed
<1>16. Playing'[t] = {}
  BY <1>10, <1>15 DEF MailboxOf
<1>17. \A u \in Tasks : u # t => /\ Pend'[u] = Pend[u] /\ Unread'[u] = Unread[u]
                                 /\ Heard'[u] = Heard[u] /\ Playing'[u] = Playing[u]
  <2>1. \A u \in Tasks : u # t => RowsSame(u)
    BY <1>1 DEF RowsSame
  <2> QED BY <2>1, OtherMailbox
<1>18. MailboxFunctions /\ MailboxFunctions'
  BY <1>9 DEF MailboxHolds
<1>19. /\ Pend' = [Pend EXCEPT ![t] = Pend[t] \ batch]
       /\ Unread' = [Unread EXCEPT ![t] = Unread[t] \cup batch]
       /\ Playing' = [Playing EXCEPT ![t] = {}]
  BY <1>1, <1>12, <1>13, <1>16, <1>17, <1>18, FunctionUpdate DEF MailboxFunctions
<1>20. UNCHANGED Heard
  <2>1. [u \in Tasks |-> Heard'[u]] = [u \in Tasks |-> Heard[u]]
    BY <1>14, <1>17
  <2> QED BY <1>18, <2>1 DEF MailboxFunctions
<1> QED BY <1>3, <1>12, <1>19, <1>20, MailboxActions

\* commit_bound_rollout_completion: a completion never seen before is pending.
LEMMA CommitObserves ==
  ASSUME Typed, Typed', CoverInv, NEW t \in Tasks, CommitCompletion(t)
  PROVE  Mail!Observe(t)
<1> DEFINE k == observed[t] + 1
<1>1. /\ observed' = [observed EXCEPT ![t] = k] /\ observed[t] < MaxCompletions
      /\ UNCHANGED <<coveredBy, summary>>
  BY DEF CommitCompletion
<1>2. observed \in [Tasks -> 0..MaxCompletions]
  BY DEF Typed, TypeOK
<1>3. k \in 1..MaxCompletions /\ k \notin 1..observed[t] /\ 1..k = 1..observed[t] \cup {k}
  BY <1>1, <1>2, BoundsAssumption
<1>4. coveredBy[t][k] = 0
  BY <1>1, <1>2, <1>3, BoundsAssumption DEF CoverInv, NoneCoveredEarly
<1>5. observed'[t] = k /\ \A u \in Tasks : u # t => observed'[u] = observed[u]
  BY <1>1, <1>2
<1> HIDE DEF k
<1>6. MailboxHolds /\ MailboxHolds'
  BY MailboxValues, MailboxValuesNext
<1>7. MailboxOf(t) /\ MailboxOf(t)'
  BY <1>6 DEF MailboxHolds
<1>8. Pend'[t] = Pend[t] \cup {k}
  BY <1>1, <1>3, <1>4, <1>5, <1>7 DEF MailboxOf
<1>9. 0 \notin Generations
  OBVIOUS
<1>10. Unread'[t] = Unread[t] /\ Heard'[t] = Heard[t]
  BY <1>1, <1>3, <1>4, <1>5, <1>7, <1>9 DEF MailboxOf, CoveredAs
<1>11. Playing'[t] = Playing[t]
  <2>1. BeingPlayed(t)' <=> BeingPlayed(t)
    BY <1>1 DEF BeingPlayed
  <2> QED BY <1>7, <1>10, <2>1 DEF MailboxOf
<1>12. k \notin (Pend[t] \cup Unread[t] \cup Heard[t])
  BY <1>3, <1>7 DEF MailboxOf, CoveredAs
<1>13. \A u \in Tasks : u # t => /\ Pend'[u] = Pend[u] /\ Unread'[u] = Unread[u]
                                 /\ Heard'[u] = Heard[u] /\ Playing'[u] = Playing[u]
  <2>1. \A u \in Tasks : u # t => RowsSame(u)
    BY <1>1, <1>5 DEF RowsSame
  <2> QED BY <2>1, OtherMailbox
<1>14. MailboxFunctions /\ MailboxFunctions'
  BY <1>6 DEF MailboxHolds
<1>15. Pend' = [Pend EXCEPT ![t] = Pend[t] \cup {k}]
  BY <1>8, <1>13, <1>14, FunctionUpdate DEF MailboxFunctions
<1>16. UNCHANGED <<Unread, Playing, Heard>>
  <2>1. /\ [u \in Tasks |-> Unread'[u]] = [u \in Tasks |-> Unread[u]]
        /\ [u \in Tasks |-> Playing'[u]] = [u \in Tasks |-> Playing[u]]
        /\ [u \in Tasks |-> Heard'[u]] = [u \in Tasks |-> Heard[u]]
    BY <1>10, <1>11, <1>13
  <2> QED BY <1>14, <2>1 DEF MailboxFunctions
<1> QED BY <1>3, <1>12, <1>15, <1>16, MailboxActions

\* No step but the lease and the end of a playback makes a row leased or heard.
NothingPlayed ==
  \A t \in Tasks, g \in Generations :
    /\ summary'[t][g].state = "leased" => summary[t][g].state = "leased"
    /\ summary'[t][g].state = "heard" => summary[t][g].state = "heard"

LEMMA KeepIsQuiet ==
  ASSUME Typed, KeepStep, UNCHANGED observed, NothingPlayed
  PROVE  QuietStep
<1> SUFFICES ASSUME NEW t \in Tasks
             PROVE  /\ RowsReadAlike(t)
                    /\ \A g \in Generations :
                         summary'[t][g].state = "leased" => summary[t][g].state = "leased"
  BY DEF QuietStep
<1>1. \A g \in Generations : /\ Readable(summary'[t][g]) <=> Readable(summary[t][g])
                             /\ IsHeard(summary'[t][g]) <=> IsHeard(summary[t][g])
  <2> SUFFICES ASSUME NEW g \in Generations
               PROVE  /\ Readable(summary'[t][g]) <=> Readable(summary[t][g])
                      /\ IsHeard(summary'[t][g]) <=> IsHeard(summary[t][g])
    OBVIOUS
  <2>1. Kept(summary[t][g], summary'[t][g])
    BY DEF KeepStep, RowsKept
  <2>2. summary'[t][g].state = "heard" => summary[t][g].state = "heard"
    BY DEF NothingPlayed
  <2> QED BY <2>1, <2>2 DEF Kept, Readable, Playable, IsHeard
<1>2. UNCHANGED <<observed, coveredBy>>
  BY DEF KeepStep
<1> QED BY <1>1, <1>2 DEF RowsReadAlike, NothingPlayed

LEMMA ClaimIsQuiet == ASSUME Typed, CoverInv, ClaimStep PROVE QuietStep
<1>1. PICK u \in Tasks, h \in Generations, p \in 0..MaxGeneration :
        /\ summary[u][h].state = "none" /\ summary'[u][h] = NewClaim(u, p)
        /\ \A v \in Tasks, i \in Generations :
             ~(v = u /\ i = h) => summary'[v][i] = summary[v][i]
  BY ClaimRows DEF ClaimStep
<1>2. summary'[u][h].state = "generating"
  BY <1>1 DEF NewClaim
<1>3. UNCHANGED <<observed, coveredBy>>
  BY DEF ClaimStep
<1>4. \A t \in Tasks, g \in Generations :
        /\ Readable(summary'[t][g]) <=> Readable(summary[t][g])
        /\ IsHeard(summary'[t][g]) <=> IsHeard(summary[t][g])
        /\ summary'[t][g].state = "leased" => summary[t][g].state = "leased"
  BY <1>1, <1>2 DEF Readable, Playable, IsHeard
<1> QED BY <1>3, <1>4 DEF QuietStep, RowsReadAlike

LEMMA SameRowsNothingPlayed == UNCHANGED summary => NothingPlayed
BY DEF NothingPlayed

LEMMA CancelPlaysNothing ==
  ASSUME Typed, NEW l \in Lease, CancelLease(l)
  PROVE  NothingPlayed
<1>1. summary \in [Tasks -> [Generations -> Row]]
  BY DEF Typed, TypeOK
<1> QED BY <1>1, CancelledRows DEF NothingPlayed

\* The serve loop: it leases the row the mailbox shows, marks a leased row heard, or neither.
LEMMA PlayerMail ==
  Typed /\ Typed' /\ CoverInv /\ UnreadInv /\ PlayerNext =>
    QuietStep \/ \E t \in Tasks : Mail!Play(t) \/ Mail!Hear(t)
<1> SUFFICES ASSUME Typed, Typed', CoverInv, UnreadInv, PlayerNext
             PROVE  QuietStep \/ \E t \in Tasks : Mail!Play(t) \/ Mail!Hear(t)
  OBVIOUS
<1>s. /\ summary \in [Tasks -> [Generations -> Row]] /\ leases \in SUBSET Lease
      /\ active \in SUBSET [lease: Lease, heard: BOOLEAN]
  BY DEF Typed, TypeOK
<1>l. /\ \A a \in active : a.lease \in Lease
      /\ \A l \in Lease : l.task \in Tasks /\ l.generation \in Generations
  BY <1>s DEF Lease
<1>k. KeepStep /\ UNCHANGED <<observed, coveredBy>>
  BY PlayerRows DEF KeepStep
<1>q. NothingPlayed => QuietStep
  BY <1>k, KeepIsQuiet
<1>1. CASE \/ ReconcileDeferred \/ \E sl \in Slots : PlaybackRequested(sl)
           \/ \E a \in active : Reconcile(a)
           \/ \E l \in leases : PlaybackStarted(l)
  <2>1. UNCHANGED summary
    BY <1>1 DEF ReconcileDeferred, PlaybackRequested, Reconcile, PlaybackStarted, ledgerVars
  <2> QED BY <1>q, <2>1, SameRowsNothingPlayed
<1>2. ASSUME NEW a \in active, ReplacePlayback(a) \/ PlaybackCancelled(a) PROVE QuietStep
  <2>1. CancelLease(a.lease) \/ UNCHANGED summary
    BY <1>2 DEF ReplacePlayback, PlaybackCancelled
  <2> QED BY <1>l, <1>q, <2>1, SameRowsNothingPlayed, CancelPlaysNothing
<1>3. ASSUME NEW l \in leases, PlaybackNotStarted(l) PROVE QuietStep
  BY <1>3, <1>s, <1>q, CancelPlaysNothing DEF PlaybackNotStarted
<1>4. CASE AcquirePlayback
  <2>1. CASE UNCHANGED summary
    BY <1>q, <2>1, SameRowsNothingPlayed
  <2>2. CASE \E c \in Tasks \X Generations :
               /\ c[2] \in CurrentUnread(c[1]) /\ StateOf(c[1], c[2]) = "unheard"
               /\ summary' = [summary EXCEPT ![c[1]][c[2]].state = "leased"]
    <3>1. PICK t \in Tasks, g \in Generations :
             /\ g \in CurrentUnread(t) /\ StateOf(t, g) = "unheard"
             /\ summary' = [summary EXCEPT ![t][g].state = "leased"]
      BY <2>2
    <3>2. Readable(summary[t][g]) /\ summary[t][g].state = "unheard"
      BY <3>1, CurrentUnreadIsReadable DEF StateOf
    <3>3. StateBecomes(t, g, "leased")
      <4>1. "leased" \in RowStates
        BY DEF RowStates
      <4> QED BY <1>s, <3>1, <4>1, StateWritten
    <3> QED BY <1>k, <3>2, <3>3, AcquirePlays
  <2> QED BY <1>4, <2>1, <2>2 DEF AcquirePlayback
<1>5. ASSUME NEW a \in active, PlaybackFinished(a)
      PROVE  QuietStep \/ \E t \in Tasks : Mail!Hear(t)
  <2> DEFINE t == a.lease.task
             g == a.lease.generation
  <2>1. t \in Tasks /\ g \in Generations
    BY <1>l
  <2>2. CASE UNCHANGED summary
    BY <1>q, <2>2, SameRowsNothingPlayed
  <2>3. CASE summary[t][g].state = "leased" /\ summary' = [summary EXCEPT ![t][g].state = "heard"]
    <3>1. StateBecomes(t, g, "heard")
      <4>1. "heard" \in RowStates
        BY DEF RowStates
      <4> QED BY <1>s, <2>1, <2>3, <4>1, StateWritten
    <3>2. CASE Readable(summary[t][g])
      BY <1>k, <2>1, <2>3, <3>1, <3>2, FinishHears
    <3>3. CASE ~Readable(summary[t][g])
      BY <1>k, <2>1, <2>3, <3>1, <3>3, LateFinishIsQuiet
    <3> QED BY <3>2, <3>3
  <2> QED BY <1>5, <2>2, <2>3 DEF PlaybackFinished, StateOf
<1> QED BY <1>1, <1>2, <1>3, <1>4, <1>5 DEF PlayerNext

LEMMA WorkerMail ==
  Typed /\ Typed' /\ CoverInv /\ UnreadInv /\ NoZombieClaim /\ WorkerNext =>
    QuietStep \/ \E t \in Tasks : Mail!Summarise(t)
<1> SUFFICES ASSUME Typed, Typed', CoverInv, UnreadInv, NoZombieClaim, WorkerNext
             PROVE  QuietStep \/ \E t \in Tasks : Mail!Summarise(t)
  OBVIOUS
<1>1. NothingPlayed
  BY WorkerClaims DEF NothingElse, PlaybackStatesSame, NothingPlayed
<1> QED BY <1>1, WorkerRows, PublishSummarises, ClaimIsQuiet, KeepIsQuiet

LEMMA MailStep ==
  LedgerInv /\ LedgerInv' /\ [Next]_vars => [Mail!Next]_(Mail!mail)
<1> SUFFICES ASSUME LedgerInv, LedgerInv', [Next]_vars PROVE Mail!Next
  OBVIOUS
<1>i. Typed /\ Typed' /\ CoverInv /\ UnreadInv /\ NoZombieClaim
  BY DEF LedgerInv
<1>s. summary \in [Tasks -> [Generations -> Row]]
  BY <1>i DEF Typed, TypeOK
<1>m. \/ Mail!Stop
      \/ \E t \in Tasks : Mail!Observe(t) \/ Mail!Summarise(t) \/ Mail!Play(t) \/ Mail!Hear(t)
      => Mail!Next
  BY DEF Mail!Next
<1>q. QuietStep => Mail!Stop
  BY <1>i, QuietStops
<1>p. NothingPlayed => \/ QuietStep \/ \E t \in Tasks : Mail!Summarise(t) \/ Mail!Observe(t)
  BY <1>i, StepRows, PublishSummarises, ClaimIsQuiet, CommitObserves, KeepIsQuiet
<1>1. CASE WorkerNext
  BY <1>i, <1>1, <1>m, <1>q, WorkerMail
<1>2. CASE PlayerNext
  BY <1>i, <1>2, <1>m, <1>q, PlayerMail
<1>3. CASE UNCHANGED vars \/ Crash \/ (\E s \in Slots, t \in Tasks : SetBinding(s, t))
                          \/ \E t \in Tasks : CommitCompletion(t)
  <2>1. NothingPlayed
    BY <1>3, SameRowsNothingPlayed DEF vars, Crash, SetBinding, CommitCompletion, ledgerVars
  <2> QED BY <1>m, <1>p, <1>q, <2>1
<1>4. CASE OpenStore
  <2>1. NothingPlayed
    BY <1>4, <1>s, RecoveredStates DEF OpenStore, NothingPlayed
  <2> QED BY <1>m, <1>p, <1>q, <2>1
<1>5. ASSUME NEW t \in Tasks, NEW g \in Generations, OperatorAbandon(t, g) PROVE Mail!Next
  <2>1. NothingPlayed
    BY <1>5, <1>s, OperatorRows, RecoveredStates DEF NothingPlayed
  <2> QED BY <1>m, <1>p, <1>q, <2>1
<1>6. ASSUME NEW t \in Tasks, NEW g \in Generations, CleanStale(t, g) PROVE Mail!Next
  <2>1. summary' = [summary EXCEPT ![t][g].state = "abandoned"] /\ "abandoned" \in RowStates
    BY <1>6 DEF CleanStale, RowStates
  <2>2. StateBecomes(t, g, "abandoned")
    BY <1>s, <2>1, StateWritten
  <2>3. NothingPlayed
    BY <2>2 DEF NothingPlayed, StateBecomes
  <2> QED BY <1>m, <1>p, <1>q, <2>3
<1> QED BY <1>1, <1>2, <1>3, <1>4, <1>5, <1>6 DEF Next

LEMMA MailInit == Init => Mail!Init
<1> SUFFICES ASSUME Init PROVE Mail!Init
  OBVIOUS
<1>1. Typed /\ MailboxHolds
  BY TypedInit, MailboxValues
<1>2. ASSUME NEW t \in Tasks
      PROVE  Pend[t] = {} /\ Unread[t] = {} /\ Playing[t] = {} /\ Heard[t] = {}
  <2>1. observed[t] = 0 /\ MailboxOf(t)
    BY <1>1 DEF Init, MailboxHolds
  <2> QED BY <2>1 DEF MailboxOf, CoveredAs
<1>3. /\ [t \in Tasks |-> Pend[t]] = [t \in Tasks |-> {}]
      /\ [t \in Tasks |-> Unread[t]] = [t \in Tasks |-> {}]
      /\ [t \in Tasks |-> Playing[t]] = [t \in Tasks |-> {}]
      /\ [t \in Tasks |-> Heard[t]] = [t \in Tasks |-> {}]
  BY <1>2
<1>4. /\ Pend = [t \in Tasks |-> {}] /\ Unread = [t \in Tasks |-> {}]
      /\ Playing = [t \in Tasks |-> {}] /\ Heard = [t \in Tasks |-> {}]
  BY <1>1, <1>3 DEF MailboxHolds, MailboxFunctions
<1> QED BY <1>4 DEF Mail!Init, Pend, Unread, Playing, Heard

\* The ledger, its worker, the playbacks, the cleaner and crashes implement the mailbox: a
\* completion is pending, then unread, then heard, and what becomes heard is what the mailbox
\* held when it was leased (store.rs publish_summary, finish_summary_playback).
THEOREM LedgerImplementsMailbox == Spec => ImplementsMailbox
<1>1. Init => Mail!Init
  BY MailInit
<1>2. LedgerInv /\ LedgerInv' /\ [Next]_vars => [Mail!Next]_(Mail!mail)
  BY MailStep
<1> QED BY <1>1, <1>2, LedgerInit, LedgerStep, PTL DEF Spec, ImplementsMailbox, Mail!Spec

=============================================================================
