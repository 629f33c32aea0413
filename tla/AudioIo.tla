------------------------------- MODULE AudioIo -------------------------------
(***************************************************************************)
(* The keyboard's two audio directions share a power rail and one owner    *)
(* arbiter, and five tasks move them:                                      *)
(*                                                                         *)
(*   - the main loop: talk keys, SpeakerOutput's supervisor side, the      *)
(*     power holds, and deep sleep;                                        *)
(*   - the control task, which starts and stops talk over Wi-Fi;           *)
(*   - the microphone's stream worker (run_audio_stream);                  *)
(*   - the speaker's worker (play_sound);                                  *)
(*   - the capture worker, folded into the stream worker's "capture".      *)
(*                                                                         *)
(* The arbiter (AudioIoArbiter) is lock-free: its operations are split at  *)
(* every load or store another task can observe.  KeyboardAudioLink's      *)
(* sections under its mutex are one step, except start_stream's second,    *)
(* which calls the arbiter while it holds the mutex.                       *)
(*                                                                         *)
(* Not modelled: creation and deletion of the speaker's worker, the        *)
(* recovery of a failing microphone channel inside "capture", and an       *)
(* i2s_channel_disable that reports an error and leaves the clock running. *)
(***************************************************************************)
EXTENDS Integers, FiniteSets

CONSTANTS
  Sessions,  \* talk session identities
  None,      \* no session, no lock holder
  MaxStarts, \* bound: calls of start_stream
  MaxPlays,  \* bound: sounds asked for
  MaxNaps    \* bound: deep sleeps

ASSUME SessionsAssumption == None \notin Sessions
ASSUME BoundsAssumption == {MaxStarts, MaxPlays, MaxNaps} \subseteq Nat

Tasks == {"main", "control"}

VARIABLES
  arbiter,  \* AudioIoArbiter's atomics
  lock,     \* holder of KeyboardAudioLink's mutex inside start_stream
  session,  \* AudioSessionLifecycle
  task,     \* task_owner_generation_ (0: task_ is null) and the job notified
  starter,  \* where each task is in start_stream
  mic,      \* the stream worker
  rx,       \* the microphone's I2S channel is enabled
  playback, \* SpeakerPlayback
  out,      \* SpeakerOutput's fields of the main loop
  shake,    \* SpeakerOutput's atomics shared with its worker
  worker,   \* the speaker's worker
  tx,       \* the speaker's I2S channel is enabled
  hold,     \* power holds on the shared rail
  main,     \* the main loop: where it is, and its locals
  starts, plays, naps, \* what the bounds bound
  played,   \* history: sounds played to the last frame and the tail silence
  missed    \* history: sounds cut for a talk that was over at the next look

arbVars == <<arbiter, lock>>
micVars == <<session, task, starter, mic, rx>>
speakerVars == <<playback, out, shake>>
history == <<played, missed>>
workerVars == <<worker, tx, history>>
budgets == <<starts, plays, naps>>
vars == <<arbVars, micVars, speakerVars, workerVars, hold, main, budgets>>

-----------------------------------------------------------------------------
(* Initial states: a cold boot, the speaker's worker created *)

NoOwner == [speaker |-> 0, microphone |-> 0, ready |-> 0, gate |-> 0, quiescing |-> FALSE]
NoSession == [id |-> None, phase |-> "Idle", gen |-> 0]
NoTask == [owner |-> 0, job |-> 0]
NotStarting == [pc |-> "idle", id |-> None]
NoStream == [stage |-> "idle", gen |-> 0]
NoSound == [phase |-> "Idle", active |-> 0, pending |-> "None", last |-> "None",
            completed |-> 0, counter |-> 0]
NothingOut == [reserved |-> 0, completed |-> 0, primed |-> FALSE, sent |-> FALSE]
NoShake == [requested |-> 0, cancel |-> 0, clock |-> 0, power |-> 0, started |-> 0,
            done |-> 0, result |-> "None"]
Work(stage, g, result) == [stage |-> stage, gen |-> g, result |-> result, whole |-> FALSE]
NoWork == Work("idle", 0, "None")
NoHold == [audio |-> FALSE, speaker |-> FALSE]
LoopTop == [pc |-> "input", next |-> "rail", flag |-> FALSE, gen |-> 0]

Init ==
  /\ arbiter = NoOwner /\ lock = None
  /\ session = NoSession /\ task = NoTask /\ starter = [t \in Tasks |-> NotStarting]
  /\ mic = NoStream /\ rx = FALSE
  /\ playback = NoSound /\ out = NothingOut /\ shake = NoShake
  /\ worker = NoWork /\ tx = FALSE
  /\ hold = NoHold /\ main = LoopTop
  /\ starts = 0 /\ plays = 0 /\ naps = 0 /\ played = {} /\ missed = {}

-----------------------------------------------------------------------------
(* Predicates of the code *)

\* Nobody is inside start_stream's locked section.
Unlocked == lock = None

Owns(g) == g # 0 /\ session.gen = g /\ session.phase # "Idle"
ShouldRun(g) == Owns(g) /\ session.phase # "Stopping"
Streaming == task.owner # 0

\* Mutant: the microphone does not wait for the speaker.
HardwareReadyIgnoresSpeaker(g) == arbiter.microphone = g /\ arbiter.ready = g

MicrophoneHardwareReady(g) ==
  /\ arbiter.microphone = g
  /\ arbiter.ready = g
  /\ arbiter.speaker = 0

\* SpeakerOutput::cancelled
Cancelled(g) == shake.cancel = g \/ arbiter.microphone # 0

\* The worker left its loop before the end of the stream and has not looked again.
CutShort == worker.stage = "check" /\ ~worker.whole

SleepBlocked == playback.phase # "Idle" \/ out.reserved # 0
\* Mutant: the rail is given back while a cancelled sound still drains.
LeaseEndsAtDraining == out.primed /\ playback.phase \notin {"Idle", "Draining"}

PowerLeaseRequired == out.primed /\ playback.phase # "Idle"

At(pc) == main.pc = pc
Goto(pc) == main' = [main EXCEPT !.pc = pc]

-----------------------------------------------------------------------------
(* start_stream and stop_stream, called by the main loop or the control task *)

\* The main loop reads keys at one place of its loop.
MayCall(t) == starter[t].pc = "idle" /\ (t = "main" => At("input"))

NewSession(s) == session' = [id |-> s, phase |-> "Starting", gen |-> session.gen + 1]

\* start_stream's first locked section.
StartStream(t, s) ==
  /\ MayCall(t) /\ Unlocked /\ starts < MaxStarts
  /\ starts' = starts + 1
  /\ session.phase # "Idle" => session.id # s \/ session.phase = "Stopping"
  /\ IF session.phase = "Idle"
       THEN /\ NewSession(s)
            /\ starter' = [starter EXCEPT ![t] = [pc |-> "begin", id |-> s]]
       ELSE /\ session' = [session EXCEPT !.phase = "Stopping"]
            /\ starter' = [starter EXCEPT ![t] = [pc |-> "restart", id |-> s]]
  /\ UNCHANGED <<arbVars, task, mic, rx, speakerVars, workerVars, hold, main, plays, naps>>

\* wait_for_task_stop: the replaced session is gone, or 2.5 s have passed.
WaitForTaskStop(t) ==
  /\ starter[t].pc = "restart" /\ Unlocked
  /\ \/ /\ task.owner = 0 /\ session.phase = "Idle"
        /\ starter' = [starter EXCEPT ![t].pc = "retry"]
     \/ starter' = [starter EXCEPT ![t] = NotStarting]
  /\ UNCHANGED <<arbVars, session, task, mic, rx, speakerVars, workerVars, hold, main, budgets>>

\* The second locked section begins.  After a wait it asks again, and another
\* task may have been faster.
BeginSession(t) ==
  /\ starter[t].pc \in {"begin", "retry"} /\ Unlocked
  /\ IF starter[t].pc = "retry" /\ session.phase # "Idle"
       THEN /\ starter' = [starter EXCEPT ![t] = NotStarting]
            /\ UNCHANGED <<lock, session>>
       ELSE /\ starter' = [starter EXCEPT ![t].pc = "gate"]
            /\ lock' = t
            /\ IF starter[t].pc = "retry" THEN NewSession(starter[t].id) ELSE UNCHANGED session
  /\ UNCHANGED <<arbiter, task, mic, rx, speakerVars, workerVars, hold, main, budgets>>

\* request_microphone: the admission gate; closed by deep sleep, the session ends.
EnterGate(t) ==
  /\ starter[t].pc = "gate"
  /\ IF arbiter.quiescing
       THEN /\ session' = [session EXCEPT !.phase = "Idle", !.id = None]
            /\ starter' = [starter EXCEPT ![t] = NotStarting]
            /\ lock' = None
            /\ UNCHANGED arbiter
       ELSE /\ arbiter' = [arbiter EXCEPT !.gate = @ + 1]
            /\ starter' = [starter EXCEPT ![t].pc = "clear"]
            /\ UNCHANGED <<lock, session>>
  /\ UNCHANGED <<task, mic, rx, speakerVars, workerVars, hold, main, budgets>>

ClearReady(t) ==
  /\ starter[t].pc = "clear"
  /\ arbiter' = [arbiter EXCEPT !.ready = 0]
  /\ starter' = [starter EXCEPT ![t].pc = "set"]
  /\ UNCHANGED <<lock, session, task, mic, rx, speakerVars, workerVars, hold, main, budgets>>

SetMicrophone(t) ==
  /\ starter[t].pc = "set"
  /\ arbiter' = [arbiter EXCEPT !.microphone = session.gen]
  /\ starter' = [starter EXCEPT ![t].pc = "dispatch"]
  /\ UNCHANGED <<lock, session, task, mic, rx, speakerVars, workerVars, hold, main, budgets>>

\* Leave the gate, hand the job to the stream worker and unlock.
Dispatch(t) ==
  /\ starter[t].pc = "dispatch"
  /\ arbiter' = [arbiter EXCEPT !.gate = @ - 1]
  /\ task' = [owner |-> session.gen, job |-> session.gen]
  /\ lock' = None
  /\ starter' = [starter EXCEPT ![t] = NotStarting]
  /\ UNCHANGED <<session, mic, rx, speakerVars, workerVars, hold, main, budgets>>

\* stop_stream and stop_all_streams.
StopStream(t) ==
  /\ MayCall(t) /\ Unlocked
  /\ session.phase \notin {"Idle", "Stopping"}
  /\ session' = [session EXCEPT !.phase = "Stopping"]
  /\ UNCHANGED <<arbVars, task, starter, mic, rx, speakerVars, workerVars, hold, main, budgets>>

-----------------------------------------------------------------------------
(* The stream worker *)

MicGoto(stage) == mic' = [mic EXCEPT !.stage = stage]
MicSame == <<arbVars, starter, speakerVars, workerVars, hold, main, budgets>>

TakeJob ==
  /\ mic.stage = "idle" /\ task.job # 0 /\ Unlocked
  /\ task' = [task EXCEPT !.job = 0]
  /\ mic' = IF task.owner = task.job THEN [stage |-> "wifi", gen |-> task.job] ELSE mic
  /\ UNCHANGED <<MicSame, session, rx>>

\* The session may have been stopped already, and Wi-Fi may fail.
EnsureWifi ==
  /\ mic.stage = "wifi" /\ Unlocked
  /\ \/ ShouldRun(mic.gen) /\ MicGoto("wait")
     \/ MicGoto("finish")
  /\ UNCHANGED <<MicSame, session, task, rx>>

\* wait_for_microphone_hardware.  This worker alone clears the two
\* generations it looks for, so the three loads are one step.
HardwareReady ==
  /\ mic.stage = "wait" /\ Unlocked
  /\ ShouldRun(mic.gen) /\ MicrophoneHardwareReady(mic.gen)
  /\ MicGoto("open")
  /\ UNCHANGED <<MicSame, session, task, rx>>

WaitStopped ==
  /\ mic.stage = "wait" /\ Unlocked /\ ~ShouldRun(mic.gen)
  /\ MicGoto("finish")
  /\ UNCHANGED <<MicSame, session, task, rx>>

\* 750 ms without the hardware.
WaitTimesOut ==
  /\ mic.stage = "wait" /\ Unlocked
  /\ MicGoto("finish")
  /\ UNCHANGED <<MicSame, session, task, rx>>

\* Socket and I2S, either of which may fail; then mark_streaming.
OpenMicrophone ==
  /\ mic.stage = "open" /\ Unlocked
  /\ \/ MicGoto("finish") /\ UNCHANGED <<session, rx>>
     \/ /\ MicGoto("capture")
        /\ rx' = TRUE
        /\ session' = IF ShouldRun(mic.gen) THEN [session EXCEPT !.phase = "Streaming"] ELSE session
  /\ UNCHANGED <<MicSame, task>>

\* Stopped, too long, lease expired or an error: every end of the loop stops
\* the session, waits for the capture worker and shuts the microphone down.
EndCapture ==
  /\ mic.stage = "capture" /\ Unlocked
  /\ session' = [session EXCEPT !.phase = "Stopping"]
  /\ rx' = FALSE
  /\ MicGoto("finish")
  /\ UNCHANGED <<MicSame, task>>

\* finish_stream_task under the mutex.
FinishStream ==
  /\ mic.stage = "finish" /\ Unlocked
  /\ task' = IF task.owner = mic.gen THEN [task EXCEPT !.owner = 0] ELSE task
  /\ session' = IF Owns(mic.gen) THEN [session EXCEPT !.phase = "Idle", !.id = None] ELSE session
  /\ MicGoto("release")
  /\ UNCHANGED <<MicSame, rx>>

\* finish_microphone after the mutex is released: two compare-and-swaps.  A
\* speaker's worker that has just left its loop may not see the talk again.
ReleaseMicrophone ==
  /\ mic.stage = "release"
  /\ IF arbiter.microphone = mic.gen
       THEN /\ arbiter' = [arbiter EXCEPT !.microphone = 0] /\ MicGoto("clear")
            /\ missed' = IF CutShort THEN missed \cup {worker.gen} ELSE missed
       ELSE UNCHANGED <<arbiter, missed>> /\ MicGoto("idle")
  /\ UNCHANGED <<lock, session, task, starter, rx, speakerVars, worker, tx, played, hold, main,
                 budgets>>

ClearPowerReady ==
  /\ mic.stage = "clear"
  /\ arbiter' = IF arbiter.ready = mic.gen THEN [arbiter EXCEPT !.ready = 0] ELSE arbiter
  /\ MicGoto("idle")
  /\ UNCHANGED <<lock, session, task, starter, rx, speakerVars, workerVars, hold, main, budgets>>

-----------------------------------------------------------------------------
(* The speaker's worker *)

WorkerSame == <<arbVars, micVars, playback, out, hold, main, budgets>>
WorkerGoto(stage) == worker' = [worker EXCEPT !.stage = stage]
WorkerDone(result) == worker' = Work("done", worker.gen, result)

TakeSound ==
  /\ worker.stage = "idle" /\ shake.requested # 0
  /\ worker' = Work("prepare", shake.requested, "None")
  /\ shake' = [shake EXCEPT !.requested = 0]
  /\ UNCHANGED <<WorkerSame, tx, history>>

\* DMA preload and first frame with the clock off; a failure is told from a
\* cancellation by another look.
PrepareSound ==
  /\ worker.stage = "prepare"
  /\ \/ WorkerDone(IF Cancelled(worker.gen) THEN "Cancelled" ELSE "Failed")
     \/ ~Cancelled(worker.gen) /\ WorkerGoto("enable")
  /\ UNCHANGED <<WorkerSame, tx, shake, history>>

\* i2s_channel_enable and publish_clock_ready.
EnableClock ==
  /\ worker.stage = "enable"
  /\ \/ WorkerDone("Failed") /\ UNCHANGED <<tx, shake>>
     \/ /\ WorkerGoto("power")
        /\ tx' = TRUE
        /\ shake' = [shake EXCEPT !.clock = worker.gen]
  /\ UNCHANGED <<WorkerSame, history>>

\* The rail is confirmed: write the first frame.
HearPower ==
  /\ worker.stage = "power" /\ shake.power = worker.gen
  /\ \/ WorkerGoto("play") /\ shake' = [shake EXCEPT !.started = worker.gen] /\ UNCHANGED tx
     \/ WorkerDone("Failed") /\ tx' = FALSE /\ UNCHANGED shake
  /\ UNCHANGED <<WorkerSame, history>>

\* Cancelled, or no confirmation within 200 ms; a confirmation may come after
\* the worker's last look.
GiveUpPower ==
  /\ worker.stage = "power"
  /\ \/ Cancelled(worker.gen) /\ WorkerDone("Cancelled")
     \/ WorkerDone("Failed")
  /\ tx' = FALSE
  /\ UNCHANGED <<WorkerSame, shake, history>>

\* play_asset_frames returns ESP_OK at the end of the stream and, as well, when
\* a look at the loop's head finds the sound cancelled.
PlayFrames ==
  /\ worker.stage = "play"
  /\ \/ ~Cancelled(worker.gen) /\ worker' = [worker EXCEPT !.stage = "check", !.whole = TRUE]
     \/ Cancelled(worker.gen) /\ WorkerGoto("check")
  /\ UNCHANGED <<WorkerSame, tx, shake, history>>

\* cancellation_seen: another look decides between the tail silence and the stop.
CheckCancelled ==
  /\ worker.stage = "check"
  /\ IF Cancelled(worker.gen)
       THEN WorkerDone("Cancelled") /\ tx' = FALSE
       ELSE WorkerGoto("drain") /\ UNCHANGED tx
  /\ UNCHANGED <<WorkerSame, shake, history>>

\* The tail silence, with a look before each of its frames.
DrainSilence ==
  /\ worker.stage = "drain"
  /\ IF Cancelled(worker.gen)
       THEN WorkerDone("Cancelled") /\ tx' = FALSE /\ UNCHANGED played
       ELSE /\ WorkerGoto("verdict") /\ UNCHANGED tx
            /\ played' = IF worker.whole THEN played \cup {worker.gen} ELSE played
  /\ UNCHANGED <<WorkerSame, shake, missed>>

\* The clock stops, and the last look is taken.
Judge ==
  /\ worker.stage = "verdict"
  /\ WorkerDone(IF Cancelled(worker.gen) THEN "Cancelled" ELSE "Succeeded")
  /\ tx' = FALSE
  /\ UNCHANGED <<WorkerSame, shake, history>>

\* A frame of the sound or of the silence cannot be written.
FailSound ==
  /\ worker.stage \in {"play", "drain"}
  /\ WorkerDone("Failed")
  /\ tx' = FALSE
  /\ UNCHANGED <<WorkerSame, shake, history>>

PublishCompleted ==
  /\ worker.stage = "done"
  /\ shake' = [shake EXCEPT !.done = worker.gen, !.result = worker.result]
  /\ worker' = Work("idle", worker.gen, "None")
  /\ UNCHANGED <<WorkerSame, tx, history>>

-----------------------------------------------------------------------------
(* The main loop, in its order *)

MainSame == <<lock, micVars, workerVars, budgets>>

\* Keys are read; a start_stream that waits for the old session blocks the loop.
EndInput ==
  /\ At("input") /\ starter["main"].pc = "idle"
  /\ Goto("allow")
  /\ UNCHANGED <<MainSame, arbiter, speakerVars, hold>>

\* playback_allowed: two reads.
ReadStreaming ==
  /\ At("allow") /\ Unlocked
  /\ main' = [main EXCEPT !.pc = "allow2", !.flag = ~Streaming]
  /\ UNCHANGED <<MainSame, arbiter, speakerVars, hold>>

ReadMicrophone ==
  /\ At("allow2")
  /\ main' = [main EXCEPT !.pc = "poll", !.flag = @ /\ arbiter.microphone = 0]
  /\ UNCHANGED <<MainSame, arbiter, speakerVars, hold>>

\* Mutant: a cancelled sound keeps no pending result, so a late success wins.
DrainedForgetsCancel(p, result) ==
  [p EXCEPT !.phase = "Idle", !.active = 0, !.pending = "None", !.completed = p.active,
            !.last = IF result = "Failed" THEN "Failed" ELSE "Succeeded"]

\* SpeakerPlayback after the worker reported: a cancellation already under
\* way keeps its own result, except that a failure prevails.
Drained(p, result) ==
  LET pending == IF p.phase # "Draining" \/ result = "Failed" THEN result ELSE p.pending
  IN [p EXCEPT !.phase = "Idle", !.active = 0, !.pending = "None", !.last = pending,
               !.completed = p.active]

\* SpeakerPlayback::cancel
Cancelling(p) ==
  IF p.phase = "Draining" THEN p ELSE [p EXCEPT !.phase = "Draining", !.pending = "Cancelled"]

\* SpeakerPlayback::mark_started, when poll sees that the worker started
Started(p) ==
  IF shake.started = p.active /\ p.phase = "Starting" THEN [p EXCEPT !.phase = "Playing"] ELSE p

\* Mutant: a sound that is being cancelled is no longer asked for its end.
PollForgetsDraining ==
  /\ At("poll") /\ Goto("boot")
  /\ LET g == playback.active
     IN \/ /\ g = 0 \/ playback.phase = "Draining"
           /\ UNCHANGED <<playback, out, shake>>
        \/ /\ g # 0 /\ playback.phase # "Draining" /\ shake.done = g
           /\ playback' = Drained(Started(playback), shake.result)
           /\ out' = [out EXCEPT !.completed = g, !.primed = FALSE, !.sent = FALSE]
           /\ UNCHANGED shake
        \/ /\ g # 0 /\ playback.phase # "Draining" /\ shake.done # g
           /\ out' = [out EXCEPT !.primed = @ \/ shake.clock = g]
           /\ IF main.flag
                THEN playback' = Started(playback) /\ UNCHANGED shake
                ELSE /\ playback' = Cancelling(Started(playback))
                     /\ shake' = [shake EXCEPT !.cancel = g]
  /\ UNCHANGED <<MainSame, arbiter, hold>>

\* SpeakerOutput::poll
PollSpeaker ==
  /\ At("poll") /\ Goto("boot")
  /\ LET g == playback.active
     IN \/ /\ g = 0
           /\ UNCHANGED <<playback, out, shake>>
        \/ /\ g # 0 /\ shake.done = g
           /\ playback' = Drained(Started(playback), shake.result)
           /\ out' = [out EXCEPT !.completed = g, !.primed = FALSE, !.sent = FALSE]
           /\ UNCHANGED shake
        \/ /\ g # 0 /\ shake.done # g
           /\ out' = [out EXCEPT !.primed = @ \/ shake.clock = g]
           /\ IF main.flag
                THEN playback' = Started(playback) /\ UNCHANGED shake
                ELSE /\ playback' = Cancelling(Started(playback))
                     /\ shake' = [shake EXCEPT !.cancel = g]
  /\ UNCHANGED <<MainSame, arbiter, hold>>

\* SpeakerPlayback::request
Asked == [playback EXCEPT !.phase = "Starting", !.active = playback.counter + 1,
                          !.counter = playback.counter + 1, !.pending = "None"]

\* A sound is asked for: the boot sound after poll, if allowed, or a LAN
\* playback after the handoff.  It may be undecodable.
RequestSound ==
  /\ main.pc \in {"boot", "lan"} /\ (At("boot") => main.flag)
  /\ plays < MaxPlays /\ plays' = plays + 1
  /\ playback.phase = "Idle"
  /\ LET next == IF At("boot") THEN "rail" ELSE "sleep"
     IN \/ /\ playback' = Asked
           /\ main' = [main EXCEPT !.pc = "check", !.next = next]
        \/ /\ playback' = Drained(Cancelling(Asked), "Cancelled")
           /\ main' = [main EXCEPT !.pc = "power", !.next = next]
  /\ UNCHANGED <<arbVars, micVars, out, shake, workerVars, hold, starts, naps>>

SkipSound ==
  /\ main.pc \in {"boot", "lan"}
  /\ main' = [main EXCEPT !.pc = "power", !.next = IF At("boot") THEN "rail" ELSE "sleep"]
  /\ UNCHANGED <<MainSame, arbiter, speakerVars, hold>>

\* A request the arbiter refused is cancelled and drained at once.
Abandon ==
  /\ playback' = Drained(Cancelling(playback), "Cancelled")
  /\ Goto("power")

\* try_begin_speaker, first step: the gate and the microphone's generation.
\* Only this loop closes the gate, so it is open here.
CheckMicrophone ==
  /\ At("check")
  /\ IF arbiter.microphone # 0
       THEN Abandon /\ UNCHANGED arbiter
       ELSE /\ arbiter' = [arbiter EXCEPT !.gate = @ + 1]
            /\ Goto("reserve") /\ UNCHANGED playback
  /\ UNCHANGED <<MainSame, out, shake, hold>>

\* Second step: the compare-and-swap.
Reserve ==
  /\ At("reserve")
  /\ IF arbiter.speaker = 0
       THEN /\ arbiter' = [arbiter EXCEPT !.speaker = playback.active]
            /\ Goto("recheck") /\ UNCHANGED playback
       ELSE arbiter' = [arbiter EXCEPT !.gate = @ - 1] /\ Abandon
  /\ UNCHANGED <<MainSame, out, shake, hold>>

\* submit_open_asset_request after the arbiter accepted.
Submitted(g) == [shake EXCEPT !.requested = g, !.cancel = 0, !.clock = 0, !.power = 0,
                              !.started = 0, !.done = 0, !.result = "None"]

\* Mutant: a request that meets the microphone leaves the gate twice.
RecheckLeavesTwice ==
  /\ At("recheck")
  /\ arbiter' = [arbiter EXCEPT !.gate = @ - 1 - (IF arbiter.microphone # 0 THEN 1 ELSE 0),
                               !.speaker = IF arbiter.microphone # 0 THEN 0 ELSE @]
  /\ IF arbiter.microphone # 0
       THEN Abandon /\ UNCHANGED <<out, shake>>
       ELSE /\ out' = [reserved |-> playback.active, completed |-> 0, primed |-> FALSE,
                       sent |-> FALSE]
            /\ shake' = Submitted(playback.active)
            /\ Goto("power") /\ UNCHANGED playback
  /\ UNCHANGED <<MainSame, hold>>

\* Third step: the microphone may have been requested meanwhile.
Recheck ==
  /\ At("recheck")
  /\ IF arbiter.microphone # 0
       THEN /\ arbiter' = [arbiter EXCEPT !.speaker = 0, !.gate = @ - 1]
            /\ Abandon /\ UNCHANGED <<out, shake>>
       ELSE /\ arbiter' = [arbiter EXCEPT !.gate = @ - 1]
            /\ out' = [reserved |-> playback.active, completed |-> 0, primed |-> FALSE,
                       sent |-> FALSE]
            /\ shake' = Submitted(playback.active)
            /\ Goto("power") /\ UNCHANGED playback
  /\ UNCHANGED <<MainSame, hold>>

\* sync_audio_power_hold: streaming, the microphone's generation, the hold ...
SyncStreaming ==
  /\ At("power") /\ Unlocked
  /\ main' = [main EXCEPT !.pc = "power2", !.flag = Streaming]
  /\ UNCHANGED <<MainSame, arbiter, speakerVars, hold>>

SyncHold ==
  /\ At("power2")
  /\ hold' = [hold EXCEPT !.audio = main.flag \/ arbiter.microphone # 0]
  /\ main' = [main EXCEPT !.pc = IF arbiter.microphone # 0 THEN "mark" ELSE main.next,
                          !.gen = arbiter.microphone, !.flag = FALSE]
  /\ UNCHANGED <<MainSame, arbiter, speakerVars>>

\* ... and mark_microphone_power_ready, a load and a store.
CheckMark ==
  /\ At("mark")
  /\ main' = IF arbiter.microphone = main.gen
               THEN [main EXCEPT !.pc = "mark2"]
               ELSE [main EXCEPT !.pc = main.next, !.gen = 0]
  /\ UNCHANGED <<MainSame, arbiter, speakerVars, hold>>

StoreMark ==
  /\ At("mark2")
  /\ arbiter' = [arbiter EXCEPT !.ready = main.gen]
  /\ main' = [main EXCEPT !.pc = main.next, !.gen = 0]
  /\ UNCHANGED <<MainSame, speakerVars, hold>>

\* The speaker's hold follows power_lease_required, then notify_power_ready.
SyncSpeakerPower ==
  /\ At("rail") /\ Goto("handoff")
  /\ hold' = [hold EXCEPT !.speaker = PowerLeaseRequired]
  /\ IF PowerLeaseRequired /\ ~out.sent
       THEN /\ out' = [out EXCEPT !.sent = TRUE]
            /\ shake' = [shake EXCEPT !.power = playback.active]
       ELSE UNCHANGED <<out, shake>>
  /\ UNCHANGED <<MainSame, arbiter, playback>>

\* Mutant: ownership goes back as soon as the sound is being cancelled.
HandoffWhileDraining ==
  /\ At("handoff") /\ Goto("lan")
  /\ IF out.reserved # 0 /\ playback.phase \in {"Draining", "Idle"}
       THEN /\ arbiter' = [arbiter EXCEPT !.speaker = 0]
            /\ out' = [out EXCEPT !.completed = 0, !.reserved = 0]
       ELSE UNCHANGED <<arbiter, out>>
  /\ UNCHANGED <<MainSame, playback, shake, hold>>

\* complete_power_handoff: ownership goes back after the rail's hold has.
CompletePowerHandoff ==
  /\ At("handoff") /\ Goto("lan")
  /\ IF out.completed # 0 /\ arbiter.speaker = out.completed
       THEN /\ arbiter' = [arbiter EXCEPT !.speaker = 0]
            /\ out' = [out EXCEPT !.completed = 0,
                                  !.reserved = IF out.reserved = out.completed THEN 0 ELSE @]
       ELSE UNCHANGED <<arbiter, out>>
  /\ UNCHANGED <<MainSame, playback, shake, hold>>

\* maybe_enter_deep_sleep: the policy's other inputs may forbid it any time.
SleepPolicy ==
  /\ At("sleep") /\ Unlocked
  /\ \/ Goto("input")
     \/ ~Streaming /\ ~SleepBlocked /\ naps < MaxNaps /\ Goto("quiesce")
  /\ UNCHANGED <<MainSame, arbiter, speakerVars, hold>>

\* try_begin_deep_sleep_quiesce: close the gate if nobody is inside ...
BeginQuiesce ==
  /\ At("quiesce")
  /\ IF arbiter.gate = 0
       THEN arbiter' = [arbiter EXCEPT !.quiescing = TRUE] /\ Goto("owners")
       ELSE UNCHANGED arbiter /\ Goto("input")
  /\ UNCHANGED <<MainSame, speakerVars, hold>>

\* ... then look for an owner.
CheckOwners ==
  /\ At("owners")
  /\ IF arbiter.speaker # 0 \/ arbiter.microphone # 0
       THEN arbiter' = [arbiter EXCEPT !.quiescing = FALSE] /\ Goto("input")
       ELSE UNCHANGED arbiter /\ Goto("final")
  /\ UNCHANGED <<MainSame, speakerVars, hold>>

\* The policy is evaluated again, twice, behind the closed gate.
FinalPolicy ==
  /\ At("final") /\ Unlocked
  /\ \/ arbiter' = [arbiter EXCEPT !.quiescing = FALSE] /\ Goto("input")
     \/ ~Streaming /\ ~SleepBlocked /\ UNCHANGED arbiter /\ Goto("commit")
  /\ UNCHANGED <<MainSame, speakerVars, hold>>

\* prepare_for_deep_sleep refuses while a hold is taken; else the rail goes off.
CommitSleep ==
  /\ At("commit")
  /\ IF hold.audio \/ hold.speaker
       THEN arbiter' = [arbiter EXCEPT !.quiescing = FALSE] /\ Goto("input")
       ELSE UNCHANGED arbiter /\ Goto("dark")
  /\ UNCHANGED <<MainSame, speakerVars, hold>>

\* The chip sleeps until a key wakes it, or restarts because the shutdown of
\* the rail failed half-way.  Either way memory is lost.
WakeUp ==
  /\ At("dark") /\ naps' = naps + 1
  /\ arbiter' = NoOwner /\ lock' = None
  /\ session' = NoSession /\ task' = NoTask /\ starter' = [t \in Tasks |-> NotStarting]
  /\ mic' = NoStream /\ rx' = FALSE
  /\ playback' = NoSound /\ out' = NothingOut /\ shake' = NoShake
  /\ worker' = NoWork /\ tx' = FALSE
  /\ hold' = NoHold /\ main' = LoopTop /\ played' = {} /\ missed' = {}
  /\ UNCHANGED <<starts, plays>>

-----------------------------------------------------------------------------
StartStep(t) ==
  \/ WaitForTaskStop(t) \/ BeginSession(t) \/ EnterGate(t) \/ ClearReady(t)
  \/ SetMicrophone(t) \/ Dispatch(t)

StreamWorker ==
  \/ TakeJob \/ EnsureWifi \/ HardwareReady \/ WaitStopped \/ OpenMicrophone \/ EndCapture
  \/ FinishStream \/ ReleaseMicrophone \/ ClearPowerReady

SpeakerWorker ==
  \/ TakeSound \/ PrepareSound \/ EnableClock \/ HearPower \/ GiveUpPower \/ PlayFrames
  \/ CheckCancelled \/ DrainSilence \/ Judge \/ FailSound \/ PublishCompleted

MainLoop ==
  \/ EndInput \/ ReadStreaming \/ ReadMicrophone \/ PollSpeaker \/ SkipSound
  \/ CheckMicrophone \/ Reserve \/ Recheck
  \/ SyncStreaming \/ SyncHold \/ CheckMark \/ StoreMark
  \/ SyncSpeakerPower \/ CompletePowerHandoff
  \/ SleepPolicy \/ BeginQuiesce \/ CheckOwners \/ FinalPolicy \/ CommitSleep \/ WakeUp

Next ==
  \/ \E t \in Tasks : StopStream(t) \/ StartStep(t) \/ \E s \in Sessions : StartStream(t, s)
  \/ StreamWorker \/ WaitTimesOut
  \/ SpeakerWorker
  \/ MainLoop \/ RequestSound

Spec == Init /\ [][Next]_vars

\* Every task is scheduled.  Nobody is owed a key press, a stop, or a sound,
\* and the 750 ms wait for the speaker is not what ends a start.
FairSpec ==
  /\ Spec
  /\ \A t \in Tasks : WF_vars(StartStep(t))
  /\ WF_vars(StreamWorker) /\ WF_vars(SpeakerWorker) /\ WF_vars(MainLoop)

-----------------------------------------------------------------------------
(* Properties *)

Generations == 0..MaxPlays
Results == {"None", "Succeeded", "Cancelled", "Failed"}

\* The type of every variable; a gate nobody leaves would leave its range.
TypeOK ==
  /\ arbiter \in [speaker: Generations, microphone: 0..MaxStarts, ready: 0..MaxStarts,
                  gate: 0..2, quiescing: BOOLEAN]
  /\ lock \in Tasks \cup {None}
  /\ session \in [id: Sessions \cup {None}, phase: {"Idle", "Starting", "Streaming", "Stopping"},
                  gen: 0..MaxStarts]
  /\ task \in [owner: 0..MaxStarts, job: 0..MaxStarts]
  /\ starter \in [Tasks -> [pc: {"idle", "begin", "restart", "retry", "gate", "clear", "set",
                                "dispatch"}, id: Sessions \cup {None}]]
  /\ mic \in [stage: {"idle", "wifi", "wait", "open", "capture", "finish", "release", "clear"},
              gen: 0..MaxStarts]
  /\ {rx, tx} \subseteq BOOLEAN
  /\ playback \in [phase: {"Idle", "Starting", "Playing", "Draining"}, active: Generations,
                   pending: Results, last: Results, completed: Generations, counter: Generations]
  /\ out \in [reserved: Generations, completed: Generations, primed: BOOLEAN, sent: BOOLEAN]
  /\ shake \in [requested: Generations, cancel: Generations, clock: Generations,
                power: Generations, started: Generations, done: Generations, result: Results]
  /\ worker \in [stage: {"idle", "prepare", "enable", "power", "play", "check", "drain",
                         "verdict", "done"},
                 gen: Generations, result: Results, whole: BOOLEAN]
  /\ hold \in [audio: BOOLEAN, speaker: BOOLEAN]
  /\ main \in [pc: {"input", "allow", "allow2", "poll", "boot", "check", "reserve", "recheck",
                   "power", "power2", "mark", "mark2", "rail", "handoff", "lan", "sleep",
                   "quiesce", "owners", "final", "commit", "dark"},
               next: {"rail", "sleep"}, flag: BOOLEAN, gen: 0..MaxStarts]
  /\ starts \in 0..MaxStarts /\ plays \in 0..MaxPlays /\ naps \in 0..MaxNaps
  /\ played \subseteq Generations /\ missed \subseteq Generations

\* The microphone's I2S channel and the speaker's never run at the same time
\* (AudioIoArbiter, wait_for_microphone_hardware).
MicrophoneAlone == ~(rx /\ tx)

\* While the speaker's clock runs the arbiter still names that sound: ownership
\* is handed back only after the worker stopped (complete_power_handoff).
ClockIsReserved == tx => arbiter.speaker = worker.gen

\* No samples without the rail's hold: not of the speaker past its power
\* handshake, not of the microphone past power-ready.
RailIsHeld ==
  (worker.stage \in {"play", "check", "drain"} => hold.speaker) /\ (rx => hold.audio)

\* Once the rail goes off for deep sleep nothing runs on it, and nobody who was
\* about to start gets through (try_begin_deep_sleep_quiesce).
AsleepIsSilent ==
  At("dark") => /\ ~rx /\ ~tx
                /\ arbiter.speaker = 0 /\ arbiter.microphone = 0
                /\ mic.stage \notin {"wait", "open", "capture"}

\* A microphone that records is the one of the session on record, however the
\* session was replaced (start_stream, wait_for_task_stop, finish_stream_task).
CaptureOwnsSession ==
  rx => /\ mic.gen = session.gen /\ session.phase # "Idle"
        /\ mic.gen = arbiter.microphone /\ mic.gen = task.owner

\* A success is what lets the Host mark a summary as heard, "only after the
\* last I2S frame and the tail silence were really completed"
\* (firmware/README.md): it was played to the end of its tail silence, unless it
\* was cut for a talk that was over before the worker looked again
\* (microphone_requested, which nothing remembers).
SucceededMeansPlayed ==
  playback.last = "Succeeded" => playback.completed \in played \cup missed

\* The rail: nobody runs without it, and it goes only when nobody needs it.
PowerIsSafe == RailIsHeld /\ AsleepIsSilent
\* What the records say of the hardware is true.
RecordsAreTrue == CaptureOwnsSession /\ SucceededMeansPlayed

\* Every sound the arbiter admitted gives the speaker back.
SoundsEnd == arbiter.speaker # 0 ~> arbiter.speaker = 0

\* A talk session that waits for the speaker leaves "starting" without the
\* help of its own timeout.
TalkIsServed == session.phase = "Starting" ~> session.phase # "Starting"

\* Whatever waits for the other's hardware gets it: sounds end and talks start.
AudioProceeds == SoundsEnd /\ TalkIsServed
=============================================================================
