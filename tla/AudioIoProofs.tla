---------------------------- MODULE AudioIoProofs ----------------------------
(***************************************************************************)
(* Every safety property of AudioIo holds in every behaviour, whatever the *)
(* bounds.  The inductive invariant is a conjunction of parts, each kept   *)
(* by the steps that touch its fields:                                     *)
(*                                                                         *)
(*   - SpeakerInv follows one sound: from the reservation through the      *)
(*     worker to the handoff, the arbiter names it;                        *)
(*   - MicrophoneInv follows one talk session: at most one task is past    *)
(*     request_start, and while the stream worker has the hardware the     *)
(*     arbiter names its generation, so a speaker admitted meanwhile is    *)
(*     one Recheck is about to undo;                                       *)
(*   - GateInv: the admission gate counts who is inside, so behind a       *)
(*     closed gate no owner can appear;                                    *)
(*   - TalkInv: the session on record, the task's owner, the stream worker *)
(*     and the arbiter name one generation, unheard of before;             *)
(*   - SoundInv: a success is a sound that was played, or one cut for a    *)
(*     talk that was over at the worker's next look (CutInv), and a        *)
(*     confirmed clock keeps the speaker's hold until the sound is over;   *)
(*   - ReadyInv: power-ready for the arbiter's generation means the audio  *)
(*     hold is taken.                                                      *)
(***************************************************************************)
EXTENDS AudioIo, TLAPS

SoundFields == {"phase", "active", "pending", "last", "completed", "counter"}

\* The fields of the records, and the sounds' numbers.
Shape ==
  /\ DOMAIN arbiter = {"speaker", "microphone", "ready", "gate", "quiescing"}
  /\ DOMAIN session = {"id", "phase", "gen"}
  /\ DOMAIN task = {"owner", "job"}
  /\ DOMAIN starter = Tasks /\ \A t \in Tasks : DOMAIN starter[t] = {"pc", "id"}
  /\ DOMAIN mic = {"stage", "gen"}
  /\ DOMAIN playback = SoundFields
  /\ DOMAIN out = {"reserved", "completed", "primed", "sent"}
  /\ DOMAIN shake = {"requested", "cancel", "clock", "power", "started", "done", "result"}
  /\ DOMAIN worker = {"stage", "gen", "result", "whole"}
  /\ DOMAIN main = {"pc", "next", "flag", "gen"}
  /\ main.next \in {"rail", "sleep"}
  /\ playback.active \in Nat /\ playback.counter \in Nat /\ shake.done \in Nat
  /\ worker.gen \in Nat /\ shake.requested \in Nat

Requesting == {"check", "reserve", "recheck"}

\* The worker, and a request it has not taken, run for the reserved sound.
WorkerInv ==
  /\ tx => worker.stage \in {"power", "play", "check", "drain", "verdict"}
  /\ worker.stage # "idle" =>
       /\ worker.gen # 0 /\ shake.requested = 0 /\ shake.done = 0
       /\ arbiter.speaker = worker.gen /\ playback.active = worker.gen
       /\ main.pc \notin Requesting /\ out.completed = 0
  /\ shake.requested # 0 =>
       /\ worker.stage = "idle" /\ shake.done = 0
       /\ arbiter.speaker = shake.requested /\ playback.active = shake.requested
       /\ main.pc \notin Requesting /\ out.completed = 0

\* A finished sound stays reserved until the handoff.
HandoffInv ==
  /\ shake.done # 0 /\ shake.done = playback.active =>
       arbiter.speaker = playback.active /\ main.pc \notin Requesting /\ out.completed = 0
  /\ out.completed # 0 => arbiter.speaker = out.completed /\ main.pc # "recheck"
  /\ main.pc = "recheck" => arbiter.speaker = playback.active
  /\ main.pc \in Requesting => playback.active # 0

CounterInv ==
  /\ playback.phase = "Idle" <=> playback.active = 0
  /\ playback.active <= playback.counter /\ shake.done <= playback.counter

SpeakerInv == WorkerInv /\ HandoffInv /\ CounterInv

InStart == {"begin", "gate", "clear", "set", "dispatch"}
StreamBusy == mic.stage \in {"wifi", "wait", "open", "capture", "finish"}

\* At most one task is past request_start, and then the stream worker is done
\* with the session before.
StarterInv ==
  /\ \A t \in Tasks : starter[t].pc \in InStart =>
       /\ session.phase # "Idle" /\ task.job = 0 /\ ~StreamBusy
       /\ \A u \in Tasks : starter[u].pc \in InStart => u = t
  /\ \A t \in Tasks : starter[t].pc \in InStart \ {"begin"} => lock = t
  /\ StreamBusy => session.phase # "Idle" /\ task.job = 0
  /\ task.job # 0 => session.phase # "Idle"

HardwareInv ==
  /\ rx => mic.stage = "capture"
  /\ mic.stage \in {"open", "capture"} =>
       /\ mic.gen # 0 /\ arbiter.microphone = mic.gen
       /\ arbiter.speaker = 0 \/ main.pc = "recheck"

MicrophoneInv == StarterInv /\ HardwareInv

-----------------------------------------------------------------------------
\* What SpeakerPlayback's two endings leave behind.
LEMMA DrainedFacts ==
  \A p, result : DOMAIN p = SoundFields =>
    LET d == Drained(Cancelling(p), result)
        e == Drained(p, result)
    IN /\ DOMAIN d = SoundFields /\ d.phase = "Idle" /\ d.active = 0 /\ d.counter = p.counter
       /\ DOMAIN e = SoundFields /\ e.phase = "Idle" /\ e.active = 0 /\ e.counter = p.counter
<1> SUFFICES ASSUME NEW p, NEW result, DOMAIN p = SoundFields
             PROVE  LET d == Drained(Cancelling(p), result)
                        e == Drained(p, result)
                    IN /\ DOMAIN d = SoundFields /\ d.phase = "Idle" /\ d.active = 0
                       /\ d.counter = p.counter
                       /\ DOMAIN e = SoundFields /\ e.phase = "Idle" /\ e.active = 0
                       /\ e.counter = p.counter
  OBVIOUS
<1>1. DOMAIN Cancelling(p) = SoundFields /\ Cancelling(p).counter = p.counter
  <2>1. CASE p.phase = "Draining"
    BY <2>1 DEF Cancelling
  <2>2. CASE p.phase # "Draining"
    BY <2>2 DEF Cancelling, SoundFields
  <2> QED
    BY <2>1, <2>2
<1>2. \A q : DOMAIN q = SoundFields =>
        /\ DOMAIN Drained(q, result) = SoundFields /\ Drained(q, result).phase = "Idle"
        /\ Drained(q, result).active = 0 /\ Drained(q, result).counter = q.counter
  BY DEF Drained, SoundFields
<1> QED
  BY <1>1, <1>2

LEMMA CancellingFacts ==
  \A p : DOMAIN p = SoundFields =>
    /\ DOMAIN Cancelling(p) = SoundFields
    /\ Cancelling(p).active = p.active /\ Cancelling(p).counter = p.counter
    /\ Cancelling(p).phase = "Draining"
<1> SUFFICES ASSUME NEW p, DOMAIN p = SoundFields
             PROVE  /\ DOMAIN Cancelling(p) = SoundFields
                    /\ Cancelling(p).active = p.active /\ Cancelling(p).counter = p.counter
                    /\ Cancelling(p).phase = "Draining"
  OBVIOUS
<1>1. CASE p.phase = "Draining"
  BY <1>1 DEF Cancelling
<1>2. CASE p.phase # "Draining"
  BY <1>2 DEF Cancelling, SoundFields
<1> QED
  BY <1>1, <1>2

LEMMA StartedFacts ==
  DOMAIN playback = SoundFields =>
    /\ DOMAIN Started(playback) = SoundFields
    /\ Started(playback).active = playback.active
    /\ Started(playback).counter = playback.counter
    /\ Started(playback).phase = "Idle" <=> playback.phase = "Idle"
<1>1. CASE shake.started = playback.active /\ playback.phase = "Starting"
  BY <1>1 DEF Started, SoundFields
<1>2. CASE ~(shake.started = playback.active /\ playback.phase = "Starting")
  BY <1>2 DEF Started
<1> QED
  BY <1>1, <1>2

LEMMA AskedFacts ==
  DOMAIN playback = SoundFields =>
    /\ DOMAIN Asked = SoundFields /\ Asked.phase = "Starting"
    /\ Asked.active = playback.counter + 1 /\ Asked.counter = playback.counter + 1
BY DEF Asked, SoundFields

LEMMA InitShape == Init => Shape
BY DEF Init, Shape, NoOwner, NoSession, NoTask, NotStarting, NoStream, NoSound, NothingOut, NoShake, NoWork, Work, NoHold, LoopTop,
       SoundFields

\* Every step keeps the shape of the variables.
LEMMA ShapeStep == Shape /\ [Next]_vars => Shape'
<1> SUFFICES ASSUME Shape, [Next]_vars PROVE Shape'
  OBVIOUS
<1> USE DEF Shape, arbVars, micVars, speakerVars, workerVars, history, budgets
<1>1. ASSUME NEW t \in Tasks, NEW s \in Sessions, StartStream(t, s) PROVE Shape'
  BY <1>1 DEF StartStream, NewSession, NotStarting
<1>2. ASSUME NEW t \in Tasks, StopStream(t) PROVE Shape'
  BY <1>2 DEF StopStream, NotStarting
<1>3. ASSUME NEW t \in Tasks, WaitForTaskStop(t) PROVE Shape'
  BY <1>3 DEF WaitForTaskStop, NotStarting
<1>4. ASSUME NEW t \in Tasks, BeginSession(t) PROVE Shape'
  BY <1>4 DEF BeginSession, NewSession, NotStarting
<1>5. ASSUME NEW t \in Tasks, EnterGate(t) PROVE Shape'
  <2>1. CASE arbiter.quiescing
    BY <1>5, <2>1 DEF EnterGate, NotStarting
  <2>2. CASE ~arbiter.quiescing
    BY <1>5, <2>2 DEF EnterGate
  <2> QED
    BY <2>1, <2>2
<1>6. ASSUME NEW t \in Tasks, ClearReady(t) PROVE Shape'
  BY <1>6 DEF ClearReady, NotStarting
<1>7. ASSUME NEW t \in Tasks, SetMicrophone(t) PROVE Shape'
  BY <1>7 DEF SetMicrophone, NotStarting
<1>8. ASSUME NEW t \in Tasks, Dispatch(t) PROVE Shape'
  BY <1>8 DEF Dispatch, NotStarting
<1>9. CASE TakeJob
  BY <1>9 DEF TakeJob, MicGoto, MicSame
<1>10. CASE EnsureWifi
  BY <1>10 DEF EnsureWifi, MicGoto, MicSame
<1>11. CASE HardwareReady
  BY <1>11 DEF HardwareReady, MicGoto, MicSame, ShouldRun, Owns, MicrophoneHardwareReady
<1>12. CASE WaitStopped
  BY <1>12 DEF WaitStopped, MicGoto, MicSame
<1>13. CASE OpenMicrophone
  BY <1>13 DEF OpenMicrophone, MicGoto, MicSame, ShouldRun, Owns
<1>14. CASE EndCapture
  BY <1>14 DEF EndCapture, MicGoto, MicSame
<1>15. CASE FinishStream
  BY <1>15 DEF FinishStream, MicGoto, MicSame, Owns
<1>16. CASE ReleaseMicrophone
  BY <1>16 DEF ReleaseMicrophone, MicGoto, MicSame
<1>17. CASE ClearPowerReady
  BY <1>17 DEF ClearPowerReady, MicGoto, MicSame
<1>18. CASE WaitTimesOut
  BY <1>18 DEF WaitTimesOut, MicGoto, MicSame
<1>19. CASE TakeSound
  BY <1>19 DEF TakeSound, WorkerSame, Work
<1>20. CASE PrepareSound \/ EnableClock \/ HearPower \/ GiveUpPower
  BY <1>20 DEF PrepareSound, EnableClock, HearPower, GiveUpPower, WorkerSame, WorkerDone, WorkerGoto,
               Work
<1>21. CASE PlayFrames \/ CheckCancelled
  <2>1. CASE worker' = [worker EXCEPT !.stage = "check", !.whole = TRUE]
    BY <1>21, <2>1 DEF PlayFrames, CheckCancelled, WorkerSame
  <2>2. CASE worker' # [worker EXCEPT !.stage = "check", !.whole = TRUE]
    BY <1>21, <2>2 DEF PlayFrames, CheckCancelled, WorkerSame, WorkerDone, WorkerGoto, Work
  <2> QED
    BY <2>1, <2>2
<1>22. CASE DrainSilence
  BY <1>22 DEF DrainSilence, WorkerSame, WorkerDone, WorkerGoto, Work
<1>23. CASE Judge \/ FailSound
  BY <1>23 DEF Judge, FailSound, WorkerSame, WorkerDone, Work
<1>24. CASE PublishCompleted
  BY <1>24 DEF PublishCompleted, WorkerSame, Work
<1>25. CASE EndInput
  BY <1>25 DEF EndInput, MainSame, Goto
<1>26. CASE ReadStreaming
  BY <1>26 DEF ReadStreaming, MainSame, Goto, At, Streaming
<1>27. CASE ReadMicrophone
  BY <1>27 DEF ReadMicrophone, MainSame, Goto
<1>28. CASE PollSpeaker
  <2>1. CASE playback.active = 0
    BY <1>28, <2>1 DEF PollSpeaker, MainSame, Goto
  <2>2. CASE playback.active # 0 /\ shake.done = playback.active
    <3>1. playback' = Drained(Started(playback), shake.result) /\ DOMAIN out' = DOMAIN out
      BY <1>28, <2>2 DEF PollSpeaker
    <3>2. main' = [main EXCEPT !.pc = "boot"] /\ UNCHANGED <<shake, arbiter, MainSame>>
      BY <1>28, <2>2 DEF PollSpeaker, Goto
    <3> QED
      BY <3>1, <3>2, StartedFacts, DrainedFacts DEF MainSame
  <2>3. CASE playback.active # 0 /\ shake.done # playback.active
    <3>1. DOMAIN out' = DOMAIN out /\ main' = [main EXCEPT !.pc = "boot"]
      BY <1>28, <2>3 DEF PollSpeaker, Goto
    <3>2. CASE main.flag
      BY <1>28, <2>3, <3>1, <3>2, StartedFacts DEF PollSpeaker, MainSame
    <3>3. CASE ~main.flag
      BY <1>28, <2>3, <3>1, <3>3, StartedFacts, CancellingFacts DEF PollSpeaker, MainSame
    <3> QED
      BY <3>2, <3>3
  <2> QED
    BY <2>1, <2>2, <2>3
<1>29. CASE SkipSound
  BY <1>29 DEF SkipSound, MainSame, Goto
<1>30. CASE RequestSound
  <2>1. UNCHANGED <<arbVars, micVars, out, shake, workerVars>>
    BY <1>30 DEF RequestSound
  <2>2. DOMAIN main' = DOMAIN main /\ main'.next \in {"rail", "sleep"}
    <3>1. PICK pc \in {"check", "power"}, next \in {"rail", "sleep"} :
            main' = [main EXCEPT !.pc = pc, !.next = next]
      BY <1>30, Zenon DEF RequestSound
    <3> QED
      BY <3>1
  <2>3. DOMAIN playback' = SoundFields /\ playback'.active \in Nat /\ playback'.counter \in Nat
    <3>1. CASE playback' = Asked
      BY <3>1, AskedFacts
    <3>2. CASE playback' = Drained(Cancelling(Asked), "Cancelled")
      BY <3>2, AskedFacts, DrainedFacts
    <3> QED
      BY <1>30, <3>1, <3>2, Zenon DEF RequestSound
  <2> QED
    BY <2>1, <2>2, <2>3
<1>31. CASE CheckMicrophone
  BY <1>31, DrainedFacts DEF CheckMicrophone, MainSame, Goto, Abandon
<1>32. CASE Reserve
  BY <1>32, DrainedFacts DEF Reserve, MainSame, Goto, Abandon
<1>33. CASE Recheck
  <2>1. CASE arbiter.microphone # 0
    BY <1>33, <2>1, DrainedFacts DEF Recheck, MainSame, Goto, Abandon
  <2>2. CASE arbiter.microphone = 0
    <3>1. DOMAIN out' = DOMAIN out
      BY <1>33, <2>2 DEF Recheck
    <3>2. shake' = Submitted(playback.active) /\ main' = [main EXCEPT !.pc = "power"]
      BY <1>33, <2>2 DEF Recheck, Goto
    <3>3. DOMAIN arbiter' = DOMAIN arbiter /\ UNCHANGED <<playback, MainSame>>
      BY <1>33, <2>2 DEF Recheck
    <3> QED
      BY <3>1, <3>2, <3>3 DEF Submitted, MainSame
  <2> QED
    BY <2>1, <2>2
<1>34. CASE SyncStreaming
  BY <1>34 DEF SyncStreaming, MainSame, Goto, At, Streaming
<1>35. CASE SyncHold
  BY <1>35 DEF SyncHold, MainSame, Goto
<1>36. CASE CheckMark
  BY <1>36 DEF CheckMark, MainSame, Goto
<1>37. CASE StoreMark
  BY <1>37 DEF StoreMark, MainSame, Goto
<1>38. CASE SyncSpeakerPower
  BY <1>38 DEF SyncSpeakerPower, MainSame, Goto, At, PowerLeaseRequired
<1>39. CASE CompletePowerHandoff
  <2>1. CASE out.completed # 0 /\ arbiter.speaker = out.completed
    BY <1>39, <2>1 DEF CompletePowerHandoff, MainSame, Goto
  <2>2. CASE ~(out.completed # 0 /\ arbiter.speaker = out.completed)
    BY <1>39, <2>2 DEF CompletePowerHandoff, MainSame, Goto
  <2> QED
    BY <2>1, <2>2
<1>40. CASE SleepPolicy
  BY <1>40 DEF SleepPolicy, MainSame, Goto
<1>41. CASE BeginQuiesce
  BY <1>41 DEF BeginQuiesce, MainSame, Goto
<1>42. CASE CheckOwners
  BY <1>42 DEF CheckOwners, MainSame, Goto
<1>43. CASE FinalPolicy
  BY <1>43 DEF FinalPolicy, MainSame, Goto
<1>44. CASE CommitSleep
  BY <1>44 DEF CommitSleep, MainSame, Goto
<1>45. CASE WakeUp
  BY <1>45 DEF WakeUp, MainSame, Goto, At, NoOwner, NoSession, NoTask, NotStarting, NoStream, NoSound, NothingOut, NoShake, NoWork, Work, NoHold, LoopTop,
       SoundFields
<1>46. CASE UNCHANGED vars
  BY <1>46 DEF vars
<1> QED
  BY <1>1, <1>2, <1>3, <1>4, <1>5, <1>6, <1>7, <1>8, <1>9, <1>10, <1>11, <1>12, <1>13, <1>14, <1>15, <1>16, <1>17, <1>18, <1>19, <1>20, <1>21, <1>22, <1>23, <1>24, <1>25, <1>26, <1>27, <1>28, <1>29, <1>30, <1>31, <1>32, <1>33, <1>34, <1>35, <1>36, <1>37, <1>38, <1>39, <1>40, <1>41, <1>42, <1>43, <1>44, <1>45, <1>46 DEF Next, StartStep, StreamWorker, SpeakerWorker, MainLoop

-----------------------------------------------------------------------------
(* One sound, from the reservation to the handoff *)

LEMMA InitSpeaker == Init => SpeakerInv
BY DEF Init, SpeakerInv, WorkerInv, HandoffInv, CounterInv, Requesting, NoOwner, NoSound,
       NothingOut, NoShake, NoWork, Work, LoopTop

\* The fields SpeakerInv speaks of.
SpeakerSame ==
  /\ worker' = worker /\ tx' = tx
  /\ shake'.requested = shake.requested /\ shake'.done = shake.done
  /\ out'.completed = out.completed
  /\ playback'.active = playback.active /\ playback'.counter = playback.counter
  /\ playback'.phase = "Idle" <=> playback.phase = "Idle"
  /\ arbiter'.speaker = arbiter.speaker

LEMMA SpeakerSameStep ==
  SpeakerInv /\ SpeakerSame /\ (main'.pc = main.pc \/ main'.pc \notin Requesting) => SpeakerInv'
BY DEF SpeakerInv, SpeakerSame, WorkerInv, HandoffInv, CounterInv, Requesting

\* The talk side moves other fields of the arbiter.
LEMMA TalkKeepsSpeaker ==
  ASSUME Shape
  PROVE  /\ \A t \in Tasks : StopStream(t) \/ StartStep(t) => SpeakerSame /\ UNCHANGED main
         /\ \A t \in Tasks, s \in Sessions : StartStream(t, s) => SpeakerSame /\ UNCHANGED main
         /\ StreamWorker \/ WaitTimesOut => SpeakerSame /\ UNCHANGED main
<1> USE DEF Shape, arbVars, micVars, speakerVars, workerVars, history, budgets, SpeakerSame
<1>1. ASSUME NEW t \in Tasks, NEW s \in Sessions, StartStream(t, s)
      PROVE  SpeakerSame /\ UNCHANGED main
  BY <1>1 DEF StartStream
<1>2. ASSUME NEW t \in Tasks, StopStream(t) PROVE SpeakerSame /\ UNCHANGED main
  BY <1>2 DEF StopStream
<1>3. ASSUME NEW t \in Tasks, WaitForTaskStop(t) PROVE SpeakerSame /\ UNCHANGED main
  BY <1>3 DEF WaitForTaskStop
<1>4. ASSUME NEW t \in Tasks, BeginSession(t) PROVE SpeakerSame /\ UNCHANGED main
  BY <1>4 DEF BeginSession
<1>5. ASSUME NEW t \in Tasks, EnterGate(t) PROVE SpeakerSame /\ UNCHANGED main
  BY <1>5 DEF EnterGate
<1>6. ASSUME NEW t \in Tasks, ClearReady(t) PROVE SpeakerSame /\ UNCHANGED main
  BY <1>6 DEF ClearReady
<1>7. ASSUME NEW t \in Tasks, SetMicrophone(t) PROVE SpeakerSame /\ UNCHANGED main
  BY <1>7 DEF SetMicrophone
<1>8. ASSUME NEW t \in Tasks, Dispatch(t) PROVE SpeakerSame /\ UNCHANGED main
  BY <1>8 DEF Dispatch
<1>9. ASSUME TakeJob PROVE SpeakerSame /\ UNCHANGED main
  BY <1>9 DEF TakeJob, MicSame
<1>10. ASSUME EnsureWifi PROVE SpeakerSame /\ UNCHANGED main
  BY <1>10 DEF EnsureWifi, MicSame
<1>11. ASSUME HardwareReady PROVE SpeakerSame /\ UNCHANGED main
  BY <1>11 DEF HardwareReady, MicSame
<1>12. ASSUME WaitStopped PROVE SpeakerSame /\ UNCHANGED main
  BY <1>12 DEF WaitStopped, MicSame
<1>13. ASSUME OpenMicrophone PROVE SpeakerSame /\ UNCHANGED main
  BY <1>13 DEF OpenMicrophone, MicSame
<1>14. ASSUME EndCapture PROVE SpeakerSame /\ UNCHANGED main
  BY <1>14 DEF EndCapture, MicSame
<1>15. ASSUME FinishStream PROVE SpeakerSame /\ UNCHANGED main
  BY <1>15 DEF FinishStream, MicSame
<1>16. ASSUME ReleaseMicrophone PROVE SpeakerSame /\ UNCHANGED main
  BY <1>16 DEF ReleaseMicrophone, MicSame
<1>17. ASSUME ClearPowerReady PROVE SpeakerSame /\ UNCHANGED main
  BY <1>17 DEF ClearPowerReady, MicSame
<1>18. ASSUME WaitTimesOut PROVE SpeakerSame /\ UNCHANGED main
  BY <1>18 DEF WaitTimesOut, MicSame
<1> QED
  BY <1>1, <1>2, <1>3, <1>4, <1>5, <1>6, <1>7, <1>8, <1>9, <1>10, <1>11, <1>12, <1>13, <1>14, <1>15, <1>16, <1>17, <1>18 DEF StartStep, StreamWorker

\* Steps of the main loop that neither ask for a sound nor end one.
QuietMain ==
  \/ EndInput \/ ReadStreaming \/ ReadMicrophone \/ SkipSound \/ SyncStreaming
  \/ SyncHold \/ CheckMark \/ StoreMark \/ SyncSpeakerPower \/ SleepPolicy
  \/ BeginQuiesce \/ CheckOwners \/ FinalPolicy \/ CommitSleep

LEMMA QuietMainKeepsSpeaker ==
  ASSUME Shape, QuietMain PROVE SpeakerSame /\ main'.pc \notin Requesting
<1> USE DEF Shape, arbVars, micVars, speakerVars, workerVars, history, budgets, SpeakerSame, Requesting, MainSame, Goto
<1>1. CASE EndInput
  BY <1>1 DEF EndInput
<1>2. CASE ReadStreaming
  BY <1>2 DEF ReadStreaming
<1>3. CASE ReadMicrophone
  BY <1>3 DEF ReadMicrophone
<1>4. CASE SkipSound
  BY <1>4 DEF SkipSound
<1>5. CASE SyncStreaming
  BY <1>5 DEF SyncStreaming
<1>6. CASE SyncHold
  BY <1>6 DEF SyncHold
<1>7. CASE CheckMark
  BY <1>7 DEF CheckMark
<1>8. CASE StoreMark
  BY <1>8 DEF StoreMark
<1>9. CASE SyncSpeakerPower
  BY <1>9 DEF SyncSpeakerPower
<1>10. CASE SleepPolicy
  BY <1>10 DEF SleepPolicy
<1>11. CASE BeginQuiesce
  BY <1>11 DEF BeginQuiesce
<1>12. CASE CheckOwners
  BY <1>12 DEF CheckOwners
<1>13. CASE FinalPolicy
  BY <1>13 DEF FinalPolicy
<1>14. CASE CommitSleep
  BY <1>14 DEF CommitSleep
<1> QED
  BY QuietMain, <1>1, <1>2, <1>3, <1>4, <1>5, <1>6, <1>7, <1>8, <1>9, <1>10, <1>11, <1>12, <1>13, <1>14 DEF QuietMain

LEMMA WorkerKeepsSpeakerInv ==
  ASSUME Shape, SpeakerInv, SpeakerWorker PROVE SpeakerInv'
<1> USE DEF Shape, SpeakerInv, WorkerInv, HandoffInv, CounterInv, Requesting, WorkerSame,
            WorkerDone, WorkerGoto, Work, arbVars
<1>1. CASE TakeSound
  BY <1>1 DEF TakeSound
<1>2. CASE PrepareSound \/ EnableClock
  BY <1>2 DEF PrepareSound, EnableClock
<1>3. CASE HearPower \/ GiveUpPower
  BY <1>3 DEF HearPower, GiveUpPower
<1>4. CASE PlayFrames \/ CheckCancelled
  <2>1. CASE CheckCancelled
    BY <2>1 DEF CheckCancelled
  <2>2. CASE PlayFrames
    <3>1. worker'.gen = worker.gen /\ worker'.stage = "check" /\ worker.stage = "play"
      <4>1. CASE worker' = [worker EXCEPT !.stage = "check", !.whole = TRUE]
        BY <2>2, <4>1 DEF PlayFrames
      <4>2. CASE Cancelled(worker.gen) /\ WorkerGoto("check")
        BY <2>2, <4>2 DEF PlayFrames
      <4> QED
        BY <2>2, <4>1, <4>2 DEF PlayFrames
    <3> QED
      BY <2>2, <3>1 DEF PlayFrames
  <2> QED
    BY <1>4, <2>1, <2>2
<1>5. CASE DrainSilence \/ Judge \/ FailSound
  BY <1>5 DEF DrainSilence, Judge, FailSound
<1>6. CASE PublishCompleted
  BY <1>6 DEF PublishCompleted
<1> QED
  BY SpeakerWorker, <1>1, <1>2, <1>3, <1>4, <1>5, <1>6 DEF SpeakerWorker

LEMMA PollKeepsSpeakerInv ==
  ASSUME Shape, SpeakerInv, PollSpeaker PROVE SpeakerInv'
<1>1. main'.pc \notin Requesting /\ UNCHANGED <<arbiter, workerVars>> /\ main.pc = "poll"
  BY DEF PollSpeaker, Goto, At, Shape, Requesting, MainSame
<1>2. CASE playback.active = 0
  <2>1. SpeakerSame
    BY <1>1, <1>2 DEF PollSpeaker, SpeakerSame, workerVars
  <2> QED
    BY <1>1, <2>1, SpeakerSameStep
<1>3. CASE playback.active # 0 /\ shake.done = playback.active
  <2>1. playback' = Drained(Started(playback), shake.result) /\ UNCHANGED shake
    BY <1>3 DEF PollSpeaker
  <2>2. out'.completed = playback.active
    BY <1>3 DEF PollSpeaker, Shape
  <2>3. /\ playback'.active = 0 /\ playback'.phase = "Idle"
        /\ playback'.counter = playback.counter
    <3>1. DOMAIN Started(playback) = SoundFields /\ Started(playback).counter = playback.counter
      BY StartedFacts DEF Shape
    <3> QED
      BY <2>1, <3>1, DrainedFacts
  <2> QED
    BY <1>1, <1>3, <2>1, <2>2, <2>3
    DEF Shape, SpeakerInv, WorkerInv, HandoffInv, CounterInv, Requesting, workerVars
<1>4. CASE playback.active # 0 /\ shake.done # playback.active
  <2>1. out'.completed = out.completed
    BY <1>4 DEF PollSpeaker, Shape
  <2>2. shake'.requested = shake.requested /\ shake'.done = shake.done
    BY <1>4 DEF PollSpeaker, Shape
  <2>3. /\ playback'.active = playback.active /\ playback'.counter = playback.counter
        /\ playback'.phase = "Idle" <=> playback.phase = "Idle"
    <3>1. playback.phase # "Idle"
      BY <1>4 DEF SpeakerInv, CounterInv
    <3>2. CASE playback' = Started(playback)
      BY <3>2, StartedFacts DEF Shape
    <3>3. CASE playback' = Cancelling(Started(playback))
      BY <3>1, <3>3, StartedFacts, CancellingFacts DEF Shape
    <3> QED
      BY <1>4, <3>2, <3>3, Zenon DEF PollSpeaker
  <2>4. SpeakerSame
    BY <1>1, <2>1, <2>2, <2>3 DEF SpeakerSame, workerVars
  <2> QED
    BY <1>1, <2>4, SpeakerSameStep
<1> QED
  BY <1>2, <1>3, <1>4

\* A refused request leaves no sound behind.
LEMMA AbandonFacts ==
  ASSUME Shape, Abandon
  PROVE  /\ playback'.active = 0 /\ playback'.phase = "Idle"
         /\ playback'.counter = playback.counter /\ main'.pc = "power"
BY DrainedFacts DEF Shape, Abandon, Goto

LEMMA RequestKeepsSpeakerInv ==
  ASSUME Shape, SpeakerInv, RequestSound \/ CheckMicrophone \/ Reserve \/ Recheck
  PROVE  SpeakerInv'
<1> USE DEF Shape, SpeakerInv, WorkerInv, HandoffInv, CounterInv, Requesting, MainSame,
            workerVars
<1>1. CASE RequestSound
  <2>1. /\ UNCHANGED <<arbiter, out, shake, worker, tx>> /\ playback.phase = "Idle"
        /\ main'.pc \in {"check", "power"} /\ (main'.pc = "check" <=> playback' = Asked)
    <3>1. UNCHANGED <<arbiter, out, shake, worker, tx>> /\ playback.phase = "Idle"
      BY <1>1 DEF RequestSound, arbVars
    <3>2. Asked # Drained(Cancelling(Asked), "Cancelled")
      BY AskedFacts, DrainedFacts
    <3>3. PICK next : \/ playback' = Asked /\ main' = [main EXCEPT !.pc = "check", !.next = next]
                      \/ /\ playback' = Drained(Cancelling(Asked), "Cancelled")
                         /\ main' = [main EXCEPT !.pc = "power", !.next = next]
      BY <1>1, Zenon DEF RequestSound
    <3> QED
      BY <3>1, <3>2, <3>3
  <2>2. CASE playback' = Asked
    BY <2>1, <2>2, AskedFacts
  <2>3. CASE playback' = Drained(Cancelling(Asked), "Cancelled")
    <3>1. /\ playback'.active = 0 /\ playback'.phase = "Idle"
          /\ playback'.counter = playback.counter + 1
      BY <2>3, AskedFacts, DrainedFacts
    <3>2. playback' # Asked
      BY <3>1, AskedFacts
    <3> QED
      BY <2>1, <3>1, <3>2
  <2> QED
    BY <1>1, <2>2, <2>3 DEF RequestSound
<1>2. CASE CheckMicrophone
  <2>1. CASE arbiter.microphone # 0
    BY <1>2, <2>1, AbandonFacts DEF CheckMicrophone, At
  <2>2. CASE arbiter.microphone = 0
    BY <1>2, <2>2 DEF CheckMicrophone, At, Goto
  <2> QED
    BY <2>1, <2>2
<1>3. CASE Reserve
  <2>1. CASE arbiter.speaker = 0
    BY <1>3, <2>1 DEF Reserve, At, Goto
  <2>2. CASE arbiter.speaker # 0
    BY <1>3, <2>2, AbandonFacts DEF Reserve, At
  <2> QED
    BY <2>1, <2>2
<1>4. CASE Recheck
  <2>1. CASE arbiter.microphone # 0
    BY <1>4, <2>1, AbandonFacts DEF Recheck, At
  <2>2. CASE arbiter.microphone = 0
    <3>1. out'.completed = 0
      BY <1>4, <2>2 DEF Recheck
    <3>2. shake' = Submitted(playback.active) /\ main'.pc = "power" /\ playback' = playback
      BY <1>4, <2>2 DEF Recheck, Goto
    <3>3. arbiter'.speaker = arbiter.speaker /\ UNCHANGED workerVars /\ main.pc = "recheck"
      BY <1>4, <2>2 DEF Recheck, At
    <3>4. shake'.requested = playback.active /\ shake'.done = 0
      BY <3>2 DEF Submitted
    <3> QED
      BY <3>1, <3>2, <3>3, <3>4
  <2> QED
    BY <2>1, <2>2
<1> QED
  BY <1>1, <1>2, <1>3, <1>4

LEMMA HandoffKeepsSpeakerInv ==
  ASSUME Shape, SpeakerInv, CompletePowerHandoff PROVE SpeakerInv'
<1>1. main'.pc \notin Requesting /\ UNCHANGED <<playback, shake, workerVars>>
  BY DEF CompletePowerHandoff, Goto, Shape, Requesting, MainSame
<1>2. CASE out.completed # 0 /\ arbiter.speaker = out.completed
  <2>1. arbiter'.speaker = 0 /\ out'.completed = 0
    BY <1>2 DEF CompletePowerHandoff, Shape
  <2>2. worker.stage = "idle" /\ shake.requested = 0
    BY <1>2 DEF SpeakerInv, WorkerInv
  <2>3. ~(shake.done # 0 /\ shake.done = playback.active)
    BY <1>2 DEF SpeakerInv, HandoffInv
  <2>4. ~tx /\ CounterInv
    BY <2>2 DEF SpeakerInv, WorkerInv
  <2> QED
    BY <1>1, <2>1, <2>2, <2>3, <2>4
    DEF SpeakerInv, WorkerInv, HandoffInv, CounterInv, workerVars, Requesting
<1>3. CASE ~(out.completed # 0 /\ arbiter.speaker = out.completed)
  <2>1. SpeakerSame
    BY <1>1, <1>3 DEF CompletePowerHandoff, SpeakerSame, workerVars
  <2> QED
    BY <1>1, <2>1, SpeakerSameStep
<1> QED
  BY <1>2, <1>3

LEMMA SpeakerStep ==
  Shape /\ SpeakerInv /\ [Next]_vars => SpeakerInv'
<1> SUFFICES ASSUME Shape, SpeakerInv, [Next]_vars PROVE SpeakerInv'
  OBVIOUS
<1>1. CASE \E t \in Tasks : StopStream(t) \/ StartStep(t) \/ \E s \in Sessions : StartStream(t, s)
  BY <1>1, TalkKeepsSpeaker, SpeakerSameStep
<1>2. CASE StreamWorker \/ WaitTimesOut
  BY <1>2, TalkKeepsSpeaker, SpeakerSameStep
<1>3. CASE SpeakerWorker
  BY <1>3, WorkerKeepsSpeakerInv
<1>4. CASE MainLoop \/ RequestSound
  <2>1. CASE QuietMain
    BY <2>1, QuietMainKeepsSpeaker, SpeakerSameStep
  <2>2. CASE WakeUp
    BY <2>2 DEF WakeUp, SpeakerInv, WorkerInv, HandoffInv, CounterInv, Requesting, NoOwner,
                NoSound, NothingOut, NoShake, NoWork, Work, LoopTop
  <2> QED
    BY <1>4, <2>1, <2>2, PollKeepsSpeakerInv, RequestKeepsSpeakerInv, HandoffKeepsSpeakerInv
    DEF MainLoop, QuietMain
<1>5. CASE UNCHANGED vars
  BY <1>5 DEF vars, arbVars, micVars, speakerVars, workerVars, SpeakerInv, WorkerInv, HandoffInv,
              CounterInv, Requesting
<1> QED
  BY <1>1, <1>2, <1>3, <1>4, <1>5 DEF Next

\* While the speaker's clock runs the arbiter names its sound
\* (AudioIoArbiter::finish_speaker is called after the worker published).
THEOREM SpeakerReserved == Spec => []ClockIsReserved
<1>1. Init => Shape /\ SpeakerInv
  BY InitShape, InitSpeaker
<1>2. Shape /\ SpeakerInv /\ [Next]_vars => Shape' /\ SpeakerInv'
  BY ShapeStep, SpeakerStep
<1>3. SpeakerInv => ClockIsReserved
  BY DEF SpeakerInv, WorkerInv, ClockIsReserved
<1> QED
  BY <1>1, <1>2, <1>3, PTL DEF Spec

-----------------------------------------------------------------------------
(* One talk session, from request_start to finish_microphone *)

LEMMA InitMicrophone == Init => MicrophoneInv
BY DEF Init, MicrophoneInv, StarterInv, HardwareInv, InStart, StreamBusy, NoOwner, NoSession,
       NoTask, NotStarting, NoStream

\* start_stream runs for one task at a time, and the stream worker is idle then.
LEMMA StartKeepsStarterInv ==
  ASSUME Shape, StarterInv, NEW t \in Tasks,
         StopStream(t) \/ StartStep(t) \/ \E s \in Sessions : StartStream(t, s)
  PROVE  StarterInv'
<1> USE DEF Shape, StarterInv, InStart, StreamBusy, arbVars, micVars
<1>1. ASSUME NEW s \in Sessions, StartStream(t, s) PROVE StarterInv'
  BY <1>1 DEF StartStream, NewSession, MayCall, Unlocked
<1>2. CASE StopStream(t)
  BY <1>2 DEF StopStream
<1>3. CASE WaitForTaskStop(t)
  BY <1>3 DEF WaitForTaskStop, NotStarting
<1>4. CASE BeginSession(t)
  <2>1. CASE starter[t].pc = "retry" /\ session.phase # "Idle"
    BY <1>4, <2>1 DEF BeginSession, NotStarting
  <2>2. CASE starter[t].pc = "retry" /\ session.phase = "Idle"
    BY <1>4, <2>2 DEF BeginSession, NewSession, Unlocked
  <2>3. CASE starter[t].pc = "begin"
    BY <1>4, <2>3 DEF BeginSession, Unlocked
  <2> QED
    BY <1>4, <2>1, <2>2, <2>3 DEF BeginSession
<1>5. CASE EnterGate(t)
  <2>1. CASE arbiter.quiescing
    BY <1>5, <2>1 DEF EnterGate, NotStarting
  <2>2. CASE ~arbiter.quiescing
    BY <1>5, <2>2 DEF EnterGate
  <2> QED
    BY <2>1, <2>2
<1>6. CASE ClearReady(t)
  BY <1>6 DEF ClearReady
<1>7. CASE SetMicrophone(t)
  BY <1>7 DEF SetMicrophone
<1>8. CASE Dispatch(t)
  BY <1>8 DEF Dispatch, NotStarting
<1> QED
  BY <1>1, <1>2, <1>3, <1>4, <1>5, <1>6, <1>7, <1>8 DEF StartStep

\* Starting and stopping touch the microphone's generation only in
\* SetMicrophone, when the stream worker has no hardware.
LEMMA StartKeepsHardwareInv ==
  ASSUME Shape, MicrophoneInv, NEW t \in Tasks,
         StopStream(t) \/ StartStep(t) \/ \E s \in Sessions : StartStream(t, s)
  PROVE  HardwareInv'
<1> USE DEF Shape, MicrophoneInv, HardwareInv
<1>1. UNCHANGED <<mic, rx, main>>
  BY DEF StopStream, StartStep, StartStream, WaitForTaskStop, BeginSession, EnterGate, ClearReady,
         SetMicrophone, Dispatch
<1>2. arbiter'.speaker = arbiter.speaker
  BY TalkKeepsSpeaker DEF SpeakerSame
<1>3. CASE SetMicrophone(t)
  <2>1. mic.stage \notin {"open", "capture"}
    BY <1>3 DEF SetMicrophone, StarterInv, InStart, StreamBusy
  <2> QED
    BY <1>1, <2>1
<1>4. CASE ~SetMicrophone(t)
  <2>1. arbiter'.microphone = arbiter.microphone
    <3>1. CASE EnterGate(t)
      BY <3>1 DEF EnterGate
    <3>2. CASE ClearReady(t)
      BY <3>2 DEF ClearReady
    <3>3. CASE Dispatch(t)
      BY <3>3 DEF Dispatch
    <3>4. CASE StopStream(t) \/ WaitForTaskStop(t) \/ \E s \in Sessions : StartStream(t, s)
      BY <3>4 DEF StopStream, WaitForTaskStop, StartStream, arbVars
    <3>5. CASE BeginSession(t)
      BY <3>5 DEF BeginSession
    <3> QED
      BY <1>4, <3>1, <3>2, <3>3, <3>4, <3>5 DEF StartStep
  <2> QED
    BY <1>1, <1>2, <2>1
<1> QED
  BY <1>3, <1>4

LEMMA StreamKeepsMicrophoneInv ==
  ASSUME Shape, MicrophoneInv, StreamWorker \/ WaitTimesOut
  PROVE  MicrophoneInv'
<1> USE DEF Shape, MicrophoneInv, StarterInv, HardwareInv, InStart, StreamBusy, MicGoto, MicSame,
            arbVars
<1>1. CASE TakeJob
  BY <1>1 DEF TakeJob
<1>2. CASE EnsureWifi
  BY <1>2 DEF EnsureWifi
<1>3. CASE HardwareReady
  <2>1. mic.gen # 0 /\ arbiter.microphone = mic.gen /\ arbiter.speaker = 0
    BY <1>3 DEF HardwareReady, ShouldRun, Owns, MicrophoneHardwareReady
  <2> QED
    BY <1>3, <2>1 DEF HardwareReady
<1>4. CASE WaitStopped \/ WaitTimesOut
  BY <1>4 DEF WaitStopped, WaitTimesOut
<1>5. CASE OpenMicrophone
  <2>1. session.phase # "Idle" /\ session'.phase # "Idle"
    BY <1>5 DEF OpenMicrophone
  <2> QED
    BY <1>5, <2>1 DEF OpenMicrophone
<1>6. CASE EndCapture
  BY <1>6 DEF EndCapture
<1>7. CASE FinishStream
  BY <1>7 DEF FinishStream
<1>8. CASE ReleaseMicrophone
  BY <1>8 DEF ReleaseMicrophone
<1>9. CASE ClearPowerReady
  BY <1>9 DEF ClearPowerReady
<1> QED
  BY <1>1, <1>2, <1>3, <1>4, <1>5, <1>6, <1>7, <1>8, <1>9 DEF StreamWorker

\* The main loop and the speaker's worker leave the talk side alone.
TalkSame ==
  /\ UNCHANGED <<lock, session, task, starter, mic, rx>>
  /\ arbiter'.microphone = arbiter.microphone

\* A speaker the arbiter admits beside the microphone is one Recheck removes.
LEMMA TalkSameStep ==
  MicrophoneInv /\ TalkSame
  /\ (arbiter'.speaker = 0 \/ main'.pc = "recheck"
      \/ (arbiter'.speaker = arbiter.speaker /\ main.pc # "recheck")
      \/ arbiter.microphone = 0)
  => MicrophoneInv'
BY DEF MicrophoneInv, StarterInv, HardwareInv, TalkSame, InStart, StreamBusy

LEMMA WorkerKeepsTalk ==
  ASSUME SpeakerWorker PROVE TalkSame /\ UNCHANGED <<arbiter, main>>
BY DEF SpeakerWorker, TakeSound, PrepareSound, EnableClock, HearPower,
         GiveUpPower, PlayFrames, CheckCancelled, DrainSilence, Judge, FailSound, PublishCompleted,
       WorkerSame, TalkSame, arbVars, micVars

LEMMA QuietMainKeepsTalk ==
  ASSUME Shape, QuietMain PROVE TalkSame /\ main.pc # "recheck"
<1> USE DEF Shape, TalkSame, MainSame, micVars, arbVars, At
<1>1. CASE EndInput
  BY <1>1 DEF EndInput
<1>2. CASE ReadStreaming
  BY <1>2 DEF ReadStreaming
<1>3. CASE ReadMicrophone
  BY <1>3 DEF ReadMicrophone
<1>4. CASE SkipSound
  BY <1>4 DEF SkipSound
<1>5. CASE SyncStreaming
  BY <1>5 DEF SyncStreaming
<1>6. CASE SyncHold
  BY <1>6 DEF SyncHold
<1>7. CASE CheckMark
  BY <1>7 DEF CheckMark
<1>8. CASE StoreMark
  BY <1>8 DEF StoreMark
<1>9. CASE SyncSpeakerPower
  BY <1>9 DEF SyncSpeakerPower
<1>10. CASE SleepPolicy
  BY <1>10 DEF SleepPolicy
<1>11. CASE BeginQuiesce
  BY <1>11 DEF BeginQuiesce
<1>12. CASE CheckOwners
  BY <1>12 DEF CheckOwners
<1>13. CASE FinalPolicy
  BY <1>13 DEF FinalPolicy
<1>14. CASE CommitSleep
  BY <1>14 DEF CommitSleep
<1> QED
  BY QuietMain, <1>1, <1>2, <1>3, <1>4, <1>5, <1>6, <1>7, <1>8, <1>9, <1>10, <1>11, <1>12, <1>13, <1>14 DEF QuietMain

LEMMA SoundStepsKeepMicrophoneInv ==
  ASSUME Shape, MicrophoneInv,
         PollSpeaker \/ RequestSound \/ CheckMicrophone \/ Reserve \/ Recheck
         \/ CompletePowerHandoff
  PROVE  MicrophoneInv'
<1> USE DEF Shape, TalkSame, MainSame, micVars, arbVars, At, Goto
<1>1. CASE PollSpeaker
  BY <1>1, TalkSameStep DEF PollSpeaker
<1>2. CASE RequestSound
  BY <1>2, TalkSameStep DEF RequestSound
<1>3. CASE CheckMicrophone
  BY <1>3, TalkSameStep DEF CheckMicrophone
<1>4. CASE Reserve
  <2>1. TalkSame /\ main.pc = "reserve"
    BY <1>4 DEF Reserve
  <2>2. CASE arbiter.speaker = 0
    BY <1>4, <2>1, <2>2, TalkSameStep DEF Reserve
  <2>3. CASE arbiter.speaker # 0
    BY <1>4, <2>1, <2>3, TalkSameStep DEF Reserve
  <2> QED
    BY <2>2, <2>3
<1>5. CASE Recheck
  <2>1. TalkSame
    BY <1>5 DEF Recheck
  <2>2. CASE arbiter.microphone # 0
    BY <1>5, <2>1, <2>2, TalkSameStep DEF Recheck
  <2>3. CASE arbiter.microphone = 0
    BY <2>1, <2>3, TalkSameStep
  <2> QED
    BY <2>2, <2>3
<1>6. CASE CompletePowerHandoff
  <2>1. /\ TalkSame /\ main.pc = "handoff"
        /\ arbiter'.speaker = 0 \/ arbiter'.speaker = arbiter.speaker
    BY <1>6 DEF CompletePowerHandoff
  <2> QED
    BY <2>1, TalkSameStep
<1> QED
  BY <1>1, <1>2, <1>3, <1>4, <1>5, <1>6

LEMMA MicrophoneStep ==
  Shape /\ MicrophoneInv /\ [Next]_vars => MicrophoneInv'
<1> SUFFICES ASSUME Shape, MicrophoneInv, [Next]_vars PROVE MicrophoneInv'
  OBVIOUS
<1>1. CASE \E t \in Tasks : StopStream(t) \/ StartStep(t) \/ \E s \in Sessions : StartStream(t, s)
  BY <1>1, StartKeepsStarterInv, StartKeepsHardwareInv DEF MicrophoneInv
<1>2. CASE StreamWorker \/ WaitTimesOut
  BY <1>2, StreamKeepsMicrophoneInv
<1>3. CASE SpeakerWorker
  BY <1>3, WorkerKeepsTalk DEF MicrophoneInv, StarterInv, HardwareInv, TalkSame, InStart, StreamBusy
<1>4. CASE MainLoop \/ RequestSound
  <2>1. CASE QuietMain
    BY <2>1, QuietMainKeepsTalk, QuietMainKeepsSpeaker, TalkSameStep DEF SpeakerSame
  <2>2. CASE WakeUp
    BY <2>2 DEF WakeUp, MicrophoneInv, StarterInv, HardwareInv, InStart, StreamBusy, NoOwner,
                NoSession, NoTask, NotStarting, NoStream
  <2> QED
    BY <1>4, <2>1, <2>2, SoundStepsKeepMicrophoneInv DEF MainLoop, QuietMain
<1>5. CASE UNCHANGED vars
  BY <1>5 DEF vars, arbVars, micVars, MicrophoneInv, StarterInv, HardwareInv, InStart, StreamBusy
<1> QED
  BY <1>1, <1>2, <1>3, <1>4, <1>5 DEF Next

\* The two I2S channels never run together (wait_for_microphone_hardware sees
\* the speaker gone, and try_begin_speaker sees the microphone coming).
THEOREM MicrophoneExcludesSpeaker == Spec => []MicrophoneAlone
<1>1. Init => Shape /\ SpeakerInv /\ MicrophoneInv
  BY InitShape, InitSpeaker, InitMicrophone
<1>2. Shape /\ SpeakerInv /\ MicrophoneInv /\ [Next]_vars
      => Shape' /\ SpeakerInv' /\ MicrophoneInv'
  BY ShapeStep, SpeakerStep, MicrophoneStep
<1>3. SpeakerInv /\ MicrophoneInv => MicrophoneAlone
  <2> SUFFICES ASSUME SpeakerInv, MicrophoneInv, rx, tx PROVE FALSE
    BY DEF MicrophoneAlone
  <2>1. arbiter.speaker # 0 /\ main.pc # "recheck"
    BY DEF SpeakerInv, WorkerInv, Requesting
  <2>2. arbiter.speaker = 0 \/ main.pc = "recheck"
    BY DEF MicrophoneInv, HardwareInv
  <2> QED
    BY <2>1, <2>2
<1> QED
  BY <1>1, <1>2, <1>3, PTL DEF Spec

-----------------------------------------------------------------------------
(* The records keep their fields' types *)

Arbiters == [speaker: Nat, microphone: Nat, ready: Nat, gate: Int, quiescing: BOOLEAN]
SessionRecords == [id: Sessions \cup {None}, phase: {"Idle", "Starting", "Streaming", "Stopping"},
                   gen: Nat]
TaskRecords == [owner: Nat, job: Nat]
Starters == [pc: {"idle", "begin", "restart", "retry", "gate", "clear", "set", "dispatch"},
             id: Sessions \cup {None}]
Streams == [stage: {"idle", "wifi", "wait", "open", "capture", "finish", "release", "clear"},
            gen: Nat]
Sounds == [phase: {"Idle", "Starting", "Playing", "Draining"}, active: Nat, pending: Results,
           last: Results, completed: Nat, counter: Nat]
Outs == [reserved: Nat, completed: Nat, primed: BOOLEAN, sent: BOOLEAN]
Shakes == [requested: Nat, cancel: Nat, clock: Nat, power: Nat, started: Nat, done: Nat,
           result: Results]
Stages == {"idle", "prepare", "enable", "power", "play", "check", "drain", "verdict", "done"}
Workers == [stage: Stages, gen: Nat, result: Results, whole: BOOLEAN]
Holds == [audio: BOOLEAN, speaker: BOOLEAN]
Places == {"input", "allow", "allow2", "poll", "boot", "check", "reserve", "recheck", "power",
           "power2", "mark", "mark2", "rail", "handoff", "lan", "sleep", "quiesce", "owners",
           "final", "commit", "dark"}
Loops == [pc: Places, next: {"rail", "sleep"}, flag: BOOLEAN, gen: Nat]

\* TypeOK without the bounds.
Fields ==
  /\ arbiter \in Arbiters /\ lock \in Tasks \cup {None}
  /\ session \in SessionRecords /\ task \in TaskRecords /\ starter \in [Tasks -> Starters]
  /\ mic \in Streams /\ rx \in BOOLEAN
  /\ playback \in Sounds /\ out \in Outs /\ shake \in Shakes
  /\ worker \in Workers /\ tx \in BOOLEAN
  /\ hold \in Holds /\ main \in Loops
  /\ starts \in Nat /\ plays \in Nat /\ naps \in Nat
  /\ played \subseteq Nat /\ missed \subseteq Nat

\* A field is written, the others stay.
LEMMA ArbiterUpdates ==
  \A a \in Arbiters :
    /\ \A n \in Nat : [a EXCEPT !.speaker = n] \in Arbiters /\ [a EXCEPT !.microphone = n] \in Arbiters
                      /\ [a EXCEPT !.ready = n] \in Arbiters
    /\ \A n \in Int : [a EXCEPT !.gate = n] \in Arbiters
    /\ \A b \in BOOLEAN : [a EXCEPT !.quiescing = b] \in Arbiters
BY DEF Arbiters

LEMMA LoopUpdates ==
  \A m \in Loops :
    /\ \A pc \in Places : [m EXCEPT !.pc = pc] \in Loops
    /\ \A next \in {"rail", "sleep"} : [m EXCEPT !.next = next] \in Loops
    /\ \A b \in BOOLEAN : [m EXCEPT !.flag = b] \in Loops
    /\ \A n \in Nat : [m EXCEPT !.gen = n] \in Loops
BY DEF Loops

LEMMA SoundUpdates ==
  \A p \in Sounds :
    /\ \A ph \in {"Idle", "Starting", "Playing", "Draining"} : [p EXCEPT !.phase = ph] \in Sounds
    /\ \A n \in Nat : [p EXCEPT !.active = n] \in Sounds /\ [p EXCEPT !.completed = n] \in Sounds
                      /\ [p EXCEPT !.counter = n] \in Sounds
    /\ \A r \in Results : [p EXCEPT !.pending = r] \in Sounds /\ [p EXCEPT !.last = r] \in Sounds
BY DEF Sounds

LEMMA OutUpdates ==
  \A o \in Outs :
    /\ \A n \in Nat : [o EXCEPT !.reserved = n] \in Outs /\ [o EXCEPT !.completed = n] \in Outs
    /\ \A b \in BOOLEAN : [o EXCEPT !.primed = b] \in Outs /\ [o EXCEPT !.sent = b] \in Outs
BY DEF Outs

LEMMA ShakeUpdates ==
  \A s \in Shakes :
    /\ \A n \in Nat : [s EXCEPT !.requested = n] \in Shakes /\ [s EXCEPT !.cancel = n] \in Shakes
                      /\ [s EXCEPT !.clock = n] \in Shakes /\ [s EXCEPT !.power = n] \in Shakes
                      /\ [s EXCEPT !.started = n] \in Shakes /\ [s EXCEPT !.done = n] \in Shakes
    /\ \A r \in Results : [s EXCEPT !.result = r] \in Shakes
BY DEF Shakes

LEMMA SessionUpdates ==
  \A s \in SessionRecords :
    /\ \A ph \in {"Idle", "Starting", "Streaming", "Stopping"} :
         [s EXCEPT !.phase = ph] \in SessionRecords
    /\ [s EXCEPT !.phase = "Idle", !.id = None] \in SessionRecords
<1> SUFFICES ASSUME NEW s \in SessionRecords
             PROVE  /\ \A ph \in {"Idle", "Starting", "Streaming", "Stopping"} :
                         [s EXCEPT !.phase = ph] \in SessionRecords
                    /\ [s EXCEPT !.phase = "Idle", !.id = None] \in SessionRecords
  OBVIOUS
<1>1. \A ph \in {"Idle", "Starting", "Streaming", "Stopping"} :
        [s EXCEPT !.phase = ph] \in SessionRecords
  BY DEF SessionRecords
<1>2. \A r \in SessionRecords : [r EXCEPT !.id = None] \in SessionRecords
  BY DEF SessionRecords
<1>3. [[s EXCEPT !.phase = "Idle"] EXCEPT !.id = None] \in SessionRecords
  BY <1>1, <1>2
<1>4. [s EXCEPT !.phase = "Idle", !.id = None] = [[s EXCEPT !.phase = "Idle"] EXCEPT !.id = None]
  OBVIOUS
<1> QED
  BY <1>1, <1>3, <1>4

LEMMA StreamUpdates ==
  \A m \in Streams, stage \in {"idle", "wifi", "wait", "open", "capture", "finish", "release",
                               "clear"} : [m EXCEPT !.stage = stage] \in Streams
BY DEF Streams

LEMMA WorkerUpdates ==
  /\ \A w \in Workers, stage \in Stages :
       /\ [w EXCEPT !.stage = stage] \in Workers
       /\ \A b \in BOOLEAN : [w EXCEPT !.stage = stage, !.whole = b] \in Workers
  /\ \A stage \in Stages, g \in Nat, r \in Results : Work(stage, g, r) \in Workers
<1>1. ASSUME NEW w \in Workers, NEW stage \in Stages, NEW b \in BOOLEAN
      PROVE  /\ [w EXCEPT !.stage = stage] \in Workers
             /\ [w EXCEPT !.stage = stage, !.whole = b] \in Workers
  <2>1. [w EXCEPT !.stage = stage] \in Workers
    BY DEF Workers
  <2>2. \A v \in Workers : [v EXCEPT !.whole = b] \in Workers
    BY DEF Workers
  <2>3. [w EXCEPT !.stage = stage, !.whole = b] = [[w EXCEPT !.stage = stage] EXCEPT !.whole = b]
    OBVIOUS
  <2> QED
    BY <2>1, <2>2, <2>3
<1>2. \A stage \in Stages, g \in Nat, r \in Results : Work(stage, g, r) \in Workers
  BY DEF Work, Workers
<1> QED
  BY <1>1, <1>2

LEMMA StarterUpdates ==
  ASSUME NEW f \in [Tasks -> Starters], NEW t \in Tasks
  PROVE  /\ \A r \in Starters : [f EXCEPT ![t] = r] \in [Tasks -> Starters]
         /\ \A pc \in {"idle", "begin", "restart", "retry", "gate", "clear", "set", "dispatch"} :
              [f EXCEPT ![t].pc = pc] \in [Tasks -> Starters]
<1>1. \A r \in Starters : [f EXCEPT ![t] = r] \in [Tasks -> Starters]
  OBVIOUS
<1>2. ASSUME NEW pc \in {"idle", "begin", "restart", "retry", "gate", "clear", "set", "dispatch"}
      PROVE  [f EXCEPT ![t].pc = pc] \in [Tasks -> Starters]
  <2>1. [f[t] EXCEPT !.pc = pc] \in Starters
    BY DEF Starters
  <2>2. [f EXCEPT ![t].pc = pc] = [f EXCEPT ![t] = [f[t] EXCEPT !.pc = pc]]
    OBVIOUS
  <2> QED
    BY <1>1, <2>1, <2>2
<1> QED
  BY <1>1, <1>2

LEMMA DrainedFields ==
  \A p \in Sounds, r \in Results :
    /\ Drained(p, r) \in Sounds /\ Cancelling(p) \in Sounds /\ Started(p) \in Sounds
    /\ Drained(p, r).last \in {r, p.pending} /\ Drained(p, r).completed = p.active
    /\ Drained(p, r).pending = "None" /\ Cancelling(p).pending \in {p.pending, "Cancelled"}
    /\ Cancelling(p).last = p.last /\ Cancelling(p).completed = p.completed
    /\ Started(p).pending = p.pending /\ Started(p).last = p.last
    /\ Started(p).completed = p.completed
<1> SUFFICES ASSUME NEW p \in Sounds, NEW r \in Results
             PROVE  /\ Drained(p, r) \in Sounds /\ Cancelling(p) \in Sounds /\ Started(p) \in Sounds
                    /\ Drained(p, r).last \in {r, p.pending} /\ Drained(p, r).completed = p.active
                    /\ Drained(p, r).pending = "None"
                    /\ Cancelling(p).pending \in {p.pending, "Cancelled"}
                    /\ Cancelling(p).last = p.last /\ Cancelling(p).completed = p.completed
                    /\ Started(p).pending = p.pending /\ Started(p).last = p.last
                    /\ Started(p).completed = p.completed
  OBVIOUS
<1>1. Cancelling(p) \in Sounds /\ Started(p) \in Sounds
  <2>1. "None" \in Results /\ "Cancelled" \in Results
    BY DEF Results
  <2>2. Started(p) \in Sounds
    BY SoundUpdates DEF Started
  <2>3. [[p EXCEPT !.phase = "Draining"] EXCEPT !.pending = "Cancelled"] \in Sounds
    BY <2>1, SoundUpdates
  <2>4. [p EXCEPT !.phase = "Draining", !.pending = "Cancelled"]
        = [[p EXCEPT !.phase = "Draining"] EXCEPT !.pending = "Cancelled"]
    OBVIOUS
  <2> QED
    BY <2>2, <2>3, <2>4 DEF Cancelling
<1>2. /\ Cancelling(p).pending \in {p.pending, "Cancelled"}
      /\ Cancelling(p).last = p.last /\ Cancelling(p).completed = p.completed
      /\ Started(p).pending = p.pending /\ Started(p).last = p.last
      /\ Started(p).completed = p.completed
  <2>1. CASE p.phase = "Draining"
    BY <2>1 DEF Cancelling, Started, Sounds
  <2>2. CASE p.phase # "Draining"
    BY <2>2 DEF Cancelling, Started, Sounds
  <2> QED
    BY <2>1, <2>2
<1>3. ASSUME NEW l \in Results
      PROVE  [p EXCEPT !.phase = "Idle", !.active = 0, !.pending = "None", !.last = l,
                       !.completed = p.active] \in Sounds
  <2>1. "None" \in Results /\ p.active \in Nat
    BY DEF Results, Sounds
  <2>2. [[p EXCEPT !.phase = "Idle"] EXCEPT !.active = 0] \in Sounds
    BY SoundUpdates
  <2>3. [[[p EXCEPT !.phase = "Idle"] EXCEPT !.active = 0] EXCEPT !.pending = "None"] \in Sounds
    BY <2>1, <2>2, SoundUpdates
  <2>4. [[[[p EXCEPT !.phase = "Idle"] EXCEPT !.active = 0] EXCEPT !.pending = "None"]
          EXCEPT !.last = l] \in Sounds
    BY <2>3, SoundUpdates
  <2>5. [[[[[p EXCEPT !.phase = "Idle"] EXCEPT !.active = 0] EXCEPT !.pending = "None"]
          EXCEPT !.last = l] EXCEPT !.completed = p.active] \in Sounds
    BY <2>1, <2>4, SoundUpdates
  <2>6. [p EXCEPT !.phase = "Idle", !.active = 0, !.pending = "None", !.last = l,
                  !.completed = p.active]
        = [[[[[p EXCEPT !.phase = "Idle"] EXCEPT !.active = 0] EXCEPT !.pending = "None"]
            EXCEPT !.last = l] EXCEPT !.completed = p.active]
    OBVIOUS
  <2> QED
    BY <2>5, <2>6
<1>4. Drained(p, r) \in Sounds
  <2>1. p.pending \in Results
    BY DEF Sounds
  <2> QED
    BY <1>3, <2>1 DEF Drained
<1>5. /\ Drained(p, r).last \in {r, p.pending} /\ Drained(p, r).completed = p.active
      /\ Drained(p, r).pending = "None"
  BY DEF Drained, Sounds
<1> QED
  BY <1>1, <1>2, <1>4, <1>5

LEMMA AskedFields ==
  playback \in Sounds =>
    /\ Asked \in Sounds /\ Asked.pending = "None"
    /\ Asked.last = playback.last /\ Asked.completed = playback.completed
<1> SUFFICES ASSUME playback \in Sounds
             PROVE  /\ Asked \in Sounds /\ Asked.pending = "None"
                    /\ Asked.last = playback.last /\ Asked.completed = playback.completed
  OBVIOUS
<1> DEFINE n == playback.counter + 1
<1>1. n \in Nat /\ "None" \in Results
  BY DEF Sounds, Results
<1>2. [[playback EXCEPT !.phase = "Starting"] EXCEPT !.active = n] \in Sounds
  BY <1>1, SoundUpdates
<1>3. [[[playback EXCEPT !.phase = "Starting"] EXCEPT !.active = n] EXCEPT !.counter = n] \in Sounds
  BY <1>1, <1>2, SoundUpdates
<1>4. [[[[playback EXCEPT !.phase = "Starting"] EXCEPT !.active = n] EXCEPT !.counter = n]
        EXCEPT !.pending = "None"] \in Sounds
  BY <1>1, <1>3, SoundUpdates
<1>5. Asked = [[[[playback EXCEPT !.phase = "Starting"] EXCEPT !.active = n] EXCEPT !.counter = n]
                EXCEPT !.pending = "None"]
  BY DEF Asked
<1> QED
  BY <1>4, <1>5 DEF Asked, Sounds

LEMMA InitialFields ==
  /\ NoOwner \in Arbiters /\ NoSession \in SessionRecords /\ NoTask \in TaskRecords
  /\ NotStarting \in Starters /\ NoStream \in Streams /\ NoSound \in Sounds /\ NothingOut \in Outs
  /\ NoShake \in Shakes /\ NoWork \in Workers /\ NoHold \in Holds /\ LoopTop \in Loops
<1>1. NoOwner \in Arbiters /\ NoSession \in SessionRecords /\ NoTask \in TaskRecords
  BY DEF Arbiters, SessionRecords, TaskRecords, NoOwner, NoSession, NoTask
<1>2. NotStarting \in Starters /\ NoStream \in Streams
  BY DEF Starters, Streams, NotStarting, NoStream
<1>3. NoSound \in Sounds /\ NothingOut \in Outs
  BY DEF Sounds, Outs, Results, NoSound, NothingOut
<1>4. NoShake \in Shakes /\ NoWork \in Workers
  BY DEF Shakes, Workers, Stages, Results, NoShake, NoWork, Work
<1>5. NoHold \in Holds /\ LoopTop \in Loops
  BY DEF Holds, Loops, Places, NoHold, LoopTop
<1> QED
  BY <1>1, <1>2, <1>3, <1>4, <1>5

LEMMA InitFields == Init => Fields
<1> SUFFICES ASSUME Init PROVE Fields
  OBVIOUS
<1>1. [t \in Tasks |-> NotStarting] \in [Tasks -> Starters]
  BY InitialFields
<1> QED
  BY <1>1, InitialFields DEF Init, Fields

\* What the talk side and its worker leave to the others.
TalkFrame ==
  /\ UNCHANGED <<speakerVars, worker, tx, played, hold, main, plays, naps>>
  /\ missed \subseteq missed' /\ missed' \subseteq missed \cup {worker.gen}
  /\ arbiter'.speaker = arbiter.speaker /\ arbiter'.quiescing = arbiter.quiescing

LEMMA StartFields ==
  ASSUME Fields, NEW t \in Tasks,
         StopStream(t) \/ StartStep(t) \/ \E s \in Sessions : StartStream(t, s)
  PROVE  Fields' /\ TalkFrame
<1> USE DEF Fields, TalkFrame, arbVars, micVars, speakerVars, workerVars, history, budgets
<1>a. /\ \A s \in Sessions : [pc |-> "begin", id |-> s] \in Starters
      /\ \A s \in Sessions : [pc |-> "restart", id |-> s] \in Starters
      /\ NotStarting \in Starters
  BY DEF Starters, NotStarting
<1>c. [starter EXCEPT ![t] = NotStarting] \in [Tasks -> Starters]
  BY <1>a, StarterUpdates
<1>d. \A pc \in {"retry", "gate", "clear", "set", "dispatch"} :
        [starter EXCEPT ![t].pc = pc] \in [Tasks -> Starters]
  BY StarterUpdates
<1>b. /\ \A s \in Sessions \cup {None} : [id |-> s, phase |-> "Starting", gen |-> session.gen + 1]
                                           \in SessionRecords
      /\ starter[t].id \in Sessions \cup {None} /\ session.gen \in Nat
  BY DEF SessionRecords, Starters
<1>1. ASSUME NEW s \in Sessions, StartStream(t, s) PROVE Fields' /\ TalkFrame
  <2>1. CASE session.phase = "Idle"
    <3>1. [starter EXCEPT ![t] = [pc |-> "begin", id |-> s]] \in [Tasks -> Starters]
      BY <1>a, StarterUpdates
    <3>2. [id |-> s, phase |-> "Starting", gen |-> session.gen + 1] \in SessionRecords
      BY <1>b
    <3> QED
      BY <1>1, <2>1, <3>1, <3>2 DEF StartStream, NewSession
  <2>2. CASE session.phase # "Idle"
    <3>1. [starter EXCEPT ![t] = [pc |-> "restart", id |-> s]] \in [Tasks -> Starters]
      BY <1>a, StarterUpdates
    <3>2. [session EXCEPT !.phase = "Stopping"] \in SessionRecords
      BY SessionUpdates
    <3> QED
      BY <1>1, <2>2, <3>1, <3>2 DEF StartStream
  <2> QED
    BY <2>1, <2>2
<1>2. CASE StopStream(t)
  BY <1>2, SessionUpdates DEF StopStream
<1>3. CASE WaitForTaskStop(t)
  BY <1>3, <1>c, <1>d DEF WaitForTaskStop
<1>4. CASE BeginSession(t)
  <2>1. CASE starter[t].pc = "retry" /\ session.phase # "Idle"
    BY <1>4, <1>c, <2>1 DEF BeginSession
  <2>2. CASE ~(starter[t].pc = "retry" /\ session.phase # "Idle")
    <3>1. [id |-> starter[t].id, phase |-> "Starting", gen |-> session.gen + 1] \in SessionRecords
      BY <1>b
    <3>2. session' \in SessionRecords
      BY <1>4, <2>2, <3>1 DEF BeginSession, NewSession
    <3> QED
      BY <1>4, <1>d, <2>2, <3>2 DEF BeginSession
  <2> QED
    BY <2>1, <2>2
<1>5. CASE EnterGate(t)
  <2>1. CASE arbiter.quiescing
    <3>1. [session EXCEPT !.phase = "Idle", !.id = None] \in SessionRecords
      BY SessionUpdates
    <3> QED
      BY <1>5, <1>c, <2>1, <3>1 DEF EnterGate
  <2>2. CASE ~arbiter.quiescing
    <3>1. arbiter.gate + 1 \in Int
      BY DEF Arbiters
    <3>2. [arbiter EXCEPT !.gate = arbiter.gate + 1] \in Arbiters
      BY <3>1, ArbiterUpdates
    <3>3. arbiter' = [arbiter EXCEPT !.gate = arbiter.gate + 1]
      BY <1>5, <2>2 DEF EnterGate
    <3> QED
      BY <1>5, <1>d, <2>2, <3>2, <3>3 DEF EnterGate, Arbiters
  <2> QED
    BY <2>1, <2>2
<1>6. CASE ClearReady(t)
  BY <1>6, StarterUpdates, ArbiterUpdates DEF ClearReady, Arbiters
<1>7. CASE SetMicrophone(t)
  BY <1>7, <1>b, StarterUpdates, ArbiterUpdates DEF SetMicrophone, Arbiters
<1>8. CASE Dispatch(t)
  <2>1. arbiter.gate - 1 \in Int
    BY DEF Arbiters
  <2>2. [owner |-> session.gen, job |-> session.gen] \in TaskRecords
    BY <1>b DEF TaskRecords
  <2> QED
    BY <1>8, <1>a, <2>1, <2>2, StarterUpdates, ArbiterUpdates DEF Dispatch, Arbiters
<1> QED
  BY <1>1, <1>2, <1>3, <1>4, <1>5, <1>6, <1>7, <1>8 DEF StartStep

LEMMA StreamFields ==
  ASSUME Fields, StreamWorker \/ WaitTimesOut
  PROVE  Fields' /\ TalkFrame
<1> USE StreamUpdates, SessionUpdates DEF Fields, TalkFrame, arbVars, micVars, speakerVars, workerVars, history, budgets, MicSame,
    MicGoto
<1>a. /\ [task EXCEPT !.job = 0] \in TaskRecords /\ [task EXCEPT !.owner = 0] \in TaskRecords
      /\ [stage |-> "wifi", gen |-> task.job] \in Streams
  BY ZenonT(60) DEF TaskRecords, Streams
<1>1. CASE TakeJob
  BY <1>1, <1>a DEF TakeJob
<1>2. CASE EnsureWifi
  BY <1>2 DEF EnsureWifi
<1>3. CASE HardwareReady
  BY <1>3 DEF HardwareReady
<1>4. CASE WaitStopped \/ WaitTimesOut
  BY <1>4 DEF WaitStopped, WaitTimesOut
<1>5. CASE OpenMicrophone
  BY <1>5 DEF OpenMicrophone
<1>6. CASE EndCapture
  BY <1>6 DEF EndCapture
<1>7. CASE FinishStream
  BY <1>7, <1>a DEF FinishStream
<1>8. CASE ReleaseMicrophone
  <2>1. [arbiter EXCEPT !.microphone = 0] \in Arbiters
    BY ArbiterUpdates
  <2>2. CASE arbiter.microphone = mic.gen
    <3>1. worker.gen \in Nat
      BY DEF Workers
    <3>2. missed' \in {missed, missed \cup {worker.gen}}
      BY <1>8, <2>2 DEF ReleaseMicrophone
    <3>3. arbiter' = [arbiter EXCEPT !.microphone = 0] /\ MicGoto("clear")
      BY <1>8, <2>2 DEF ReleaseMicrophone
    <3>4. arbiter'.speaker = arbiter.speaker /\ arbiter'.quiescing = arbiter.quiescing
      BY <3>3 DEF Arbiters
    <3>5. UNCHANGED <<lock, session, task, starter, rx, speakerVars, worker, tx, played, hold, main,
                      budgets>>
      BY <1>8 DEF ReleaseMicrophone
    <3> QED
      BY <2>1, <3>1, <3>2, <3>3, <3>4, <3>5
  <2>3. CASE arbiter.microphone # mic.gen
    BY <1>8, <2>3 DEF ReleaseMicrophone
  <2> QED
    BY <2>2, <2>3
<1>9. CASE ClearPowerReady
  BY <1>9, ArbiterUpdates DEF ClearPowerReady, Arbiters
<1> QED
  BY <1>1, <1>2, <1>3, <1>4, <1>5, <1>6, <1>7, <1>8, <1>9 DEF StreamWorker

LEMMA WorkerFields ==
  ASSUME Fields, SpeakerWorker PROVE Fields'
<1> USE DEF Fields, WorkerSame, WorkerDone, WorkerGoto, arbVars, micVars, history, budgets
<1>a. /\ "Cancelled" \in Results /\ "Failed" \in Results /\ "Succeeded" \in Results
      /\ "None" \in Results
  BY DEF Results
<1>b. /\ worker.gen \in Nat /\ worker.result \in Results /\ shake.requested \in Nat
      /\ worker.whole \in BOOLEAN
  BY DEF Workers, Shakes
<1>c. /\ \A r \in Results : WorkerDone(r) => worker' \in Workers
      /\ \A stage \in Stages : WorkerGoto(stage) => worker' \in Workers
  <2>1. "done" \in Stages
    BY DEF Stages
  <2> QED
    BY <1>b, <2>1, WorkerUpdates
<1>1. CASE TakeSound
  BY <1>1, <1>a, <1>b, WorkerUpdates, ShakeUpdates DEF TakeSound, Stages
<1>2. CASE PrepareSound
  <2>1. worker' \in Workers
    BY <1>2, <1>a, <1>c DEF PrepareSound, Stages
  <2> QED
    BY <1>2, <2>1 DEF PrepareSound
<1>3. CASE EnableClock
  <2>1. worker' \in Workers
    BY <1>3, <1>a, <1>c DEF EnableClock, Stages
  <2> QED
    BY <1>3, <1>b, <2>1, ShakeUpdates DEF EnableClock
<1>4. CASE HearPower \/ GiveUpPower
  <2>1. worker' \in Workers
    BY <1>4, <1>a, <1>c DEF HearPower, GiveUpPower, Stages
  <2> QED
    BY <1>4, <1>b, <2>1, ShakeUpdates DEF HearPower, GiveUpPower
<1>5. CASE PlayFrames \/ CheckCancelled
  <2>1. worker' \in Workers
    BY <1>5, <1>a, <1>c, WorkerUpdates DEF PlayFrames, CheckCancelled, Stages
  <2> QED
    BY <1>5, <2>1 DEF PlayFrames, CheckCancelled
<1>6. CASE DrainSilence
  <2>1. worker' \in Workers
    BY <1>6, <1>a, <1>c DEF DrainSilence, Stages
  <2>2. played' \subseteq Nat
    BY <1>6, <1>b DEF DrainSilence
  <2> QED
    BY <1>6, <2>1, <2>2 DEF DrainSilence
<1>7. CASE Judge \/ FailSound
  <2>1. worker' \in Workers
    BY <1>7, <1>a, <1>c DEF Judge, FailSound
  <2> QED
    BY <1>7, <2>1 DEF Judge, FailSound
<1>8. CASE PublishCompleted
  <2>1. [[shake EXCEPT !.done = worker.gen] EXCEPT !.result = worker.result] \in Shakes
    BY <1>b, ShakeUpdates
  <2>2. [shake EXCEPT !.done = worker.gen, !.result = worker.result]
        = [[shake EXCEPT !.done = worker.gen] EXCEPT !.result = worker.result]
    OBVIOUS
  <2> QED
    BY <1>8, <1>a, <1>b, <2>1, <2>2, WorkerUpdates DEF PublishCompleted, Stages
<1> QED
  BY <1>1, <1>2, <1>3, <1>4, <1>5, <1>6, <1>7, <1>8 DEF SpeakerWorker

\* What the main loop leaves to the other tasks.
LoopFrame ==
  /\ UNCHANGED <<lock, micVars, workerVars, starts, naps>>
  /\ arbiter'.microphone = arbiter.microphone

\* A quiet step leaves the sounds alone, but for the power handshake.
QuietFrame ==
  /\ LoopFrame
  /\ UNCHANGED <<playback, plays>> /\ arbiter'.speaker = arbiter.speaker
  /\ arbiter'.gate = arbiter.gate
  /\ main'.pc \notin {"reserve", "recheck"} /\ main.pc \notin {"reserve", "recheck"}
  /\ ~SyncSpeakerPower => UNCHANGED <<out, shake>>
  /\ ~StoreMark => arbiter'.ready = arbiter.ready
  /\ ~SyncHold => main'.gen \in {0, main.gen}

LEMMA QuietFields ==
  ASSUME Fields, QuietMain PROVE Fields' /\ QuietFrame
<1> USE DEF Fields, QuietFrame, LoopFrame, MainSame, Goto, arbVars, micVars, workerVars, history,
            budgets, speakerVars, At
<1>a. \A pc \in Places : [main EXCEPT !.pc = pc] \in Loops
  BY LoopUpdates
<1>b. main.next \in Places \ {"reserve", "recheck"} /\ arbiter.microphone \in Nat
      /\ main.flag \in BOOLEAN /\ main.gen \in Nat
  BY DEF Loops, Places, Arbiters
<1>1. CASE EndInput
  BY <1>1, <1>a DEF EndInput, Loops, Places, SyncHold
<1>2. CASE ReadStreaming
  <2>1. [[main EXCEPT !.pc = "allow2"] EXCEPT !.flag = ~Streaming] \in Loops
    BY <1>a, LoopUpdates DEF Places, Streaming
  <2>2. [main EXCEPT !.pc = "allow2", !.flag = ~Streaming]
        = [[main EXCEPT !.pc = "allow2"] EXCEPT !.flag = ~Streaming]
    OBVIOUS
  <2> QED
    BY <1>2, <2>1, <2>2 DEF ReadStreaming, Loops, SyncHold
<1>3. CASE ReadMicrophone
  <2>1. PICK ok \in BOOLEAN : ok = (main.flag /\ arbiter.microphone = 0)
    OBVIOUS
  <2>2. [[main EXCEPT !.pc = "poll"] EXCEPT !.flag = ok] \in Loops
    BY <1>a, LoopUpdates DEF Places
  <2>3. [main EXCEPT !.pc = "poll", !.flag = ok] = [[main EXCEPT !.pc = "poll"] EXCEPT !.flag = ok]
    OBVIOUS
  <2>4. main' = [main EXCEPT !.pc = "poll", !.flag = ok]
    BY <1>3, <2>1 DEF ReadMicrophone
  <2> QED
    BY <1>3, <2>2, <2>3, <2>4 DEF ReadMicrophone, Loops, SyncHold
<1>4. CASE SkipSound
  <2>1. PICK next \in {"rail", "sleep"} : main' = [main EXCEPT !.pc = "power", !.next = next]
    BY <1>4 DEF SkipSound
  <2>2. [[main EXCEPT !.pc = "power"] EXCEPT !.next = next] \in Loops
    BY <1>a, LoopUpdates DEF Places
  <2>3. [main EXCEPT !.pc = "power", !.next = next] = [[main EXCEPT !.pc = "power"] EXCEPT !.next = next]
    OBVIOUS
  <2> QED
    BY <1>4, <2>1, <2>2, <2>3 DEF SkipSound, Loops, SyncHold
<1>5. CASE SyncStreaming
  <2>1. [[main EXCEPT !.pc = "power2"] EXCEPT !.flag = Streaming] \in Loops
    BY <1>a, LoopUpdates DEF Places, Streaming
  <2>2. [main EXCEPT !.pc = "power2", !.flag = Streaming]
        = [[main EXCEPT !.pc = "power2"] EXCEPT !.flag = Streaming]
    OBVIOUS
  <2> QED
    BY <1>5, <2>1, <2>2 DEF SyncStreaming, Loops, SyncHold
<1>6. CASE SyncHold
  <2>1. PICK pc \in Places \ {"reserve", "recheck"} :
          main' = [main EXCEPT !.pc = pc, !.gen = arbiter.microphone, !.flag = FALSE]
    BY <1>6, <1>b DEF SyncHold, Places
  <2>2. [[[main EXCEPT !.pc = pc] EXCEPT !.gen = arbiter.microphone] EXCEPT !.flag = FALSE] \in Loops
    BY <1>a, <1>b, LoopUpdates
  <2>3. [main EXCEPT !.pc = pc, !.gen = arbiter.microphone, !.flag = FALSE]
        = [[[main EXCEPT !.pc = pc] EXCEPT !.gen = arbiter.microphone] EXCEPT !.flag = FALSE]
    OBVIOUS
  <2>4. hold' \in Holds
    <3>1. PICK b \in BOOLEAN : b = (main.flag \/ arbiter.microphone # 0)
      OBVIOUS
    <3> QED
      BY <1>6, <3>1 DEF SyncHold, Holds
  <2>5. main' \in Loops /\ main'.pc = pc
    BY <2>1, <2>2, <2>3 DEF Loops
  <2> QED
    BY <1>6, <2>4, <2>5 DEF SyncHold
<1>7. CASE CheckMark
  <2>1. CASE main' = [main EXCEPT !.pc = "mark2"]
    BY <1>7, <1>a, <2>1 DEF CheckMark, Loops, Places, SyncHold
  <2>2. CASE main' = [main EXCEPT !.pc = main.next, !.gen = 0]
    <3>1. main' = [[main EXCEPT !.pc = main.next] EXCEPT !.gen = 0]
      BY <2>2
    <3>2. [main EXCEPT !.pc = main.next] \in Loops
      BY <1>a, <1>b
    <3>3. main' \in Loops
      BY <3>1, <3>2, LoopUpdates
    <3>4. main'.gen = 0 /\ main'.pc = main.next
      BY <2>2 DEF Loops
    <3> QED
      BY <1>7, <1>b, <3>3, <3>4 DEF CheckMark, SyncHold
  <2> QED
    BY <1>7, <2>1, <2>2 DEF CheckMark
<1>8. CASE StoreMark
  BY <1>8, <1>a, <1>b, ArbiterUpdates DEF StoreMark, Loops, Arbiters, SyncHold
<1>9. CASE SyncSpeakerPower
  <2>1. hold' \in Holds
    <3>1. PICK b \in BOOLEAN : b = PowerLeaseRequired
      BY DEF PowerLeaseRequired, Outs
    <3> QED
      BY <1>9, <3>1 DEF SyncSpeakerPower, Holds
  <2>2. out' \in Outs /\ shake' \in Shakes
    BY <1>9, OutUpdates, ShakeUpdates DEF SyncSpeakerPower, Sounds
  <2> QED
    BY <1>9, <1>a, <2>1, <2>2 DEF SyncSpeakerPower, Loops, Places, SyncHold
<1>10. CASE SleepPolicy
  BY <1>10, <1>a DEF SleepPolicy, Loops, Places, SyncHold
<1>11. CASE BeginQuiesce \/ CheckOwners \/ FinalPolicy \/ CommitSleep
  <2>1. /\ UNCHANGED <<lock, micVars, workerVars, budgets, speakerVars, hold>>
        /\ arbiter' = arbiter \/ \E b \in BOOLEAN : arbiter' = [arbiter EXCEPT !.quiescing = b]
        /\ \E pc \in {"owners", "input", "final", "commit", "dark"} :
             main' = [main EXCEPT !.pc = pc]
        /\ main.pc \in {"quiesce", "owners", "final", "commit"}
    BY <1>11 DEF BeginQuiesce, CheckOwners, FinalPolicy, CommitSleep
  <2>2. /\ arbiter' \in Arbiters /\ arbiter'.speaker = arbiter.speaker
        /\ arbiter'.microphone = arbiter.microphone /\ arbiter'.ready = arbiter.ready
        /\ arbiter'.gate = arbiter.gate
    BY <2>1, ArbiterUpdates DEF Arbiters
  <2>3. /\ main' \in Loops /\ main'.pc \notin {"reserve", "recheck"} /\ main'.gen = main.gen
    BY <1>a, <2>1 DEF Loops, Places
  <2> QED
    BY <2>1, <2>2, <2>3
<1> QED
  BY QuietMain, <1>1, <1>2, <1>3, <1>4, <1>5, <1>6, <1>7, <1>8, <1>9, <1>10, <1>11 DEF QuietMain

LEMMA PollFields ==
  ASSUME Fields, PollSpeaker
  PROVE  /\ playback' \in Sounds /\ out' \in Outs /\ shake' \in Shakes /\ main' \in Loops
         /\ main'.gen = main.gen /\ main'.pc = "boot" /\ main.pc = "poll"
         /\ UNCHANGED <<MainSame, arbiter, hold>>
<1>1. /\ main' \in Loops /\ main'.gen = main.gen /\ main'.pc = "boot" /\ main.pc = "poll"
      /\ UNCHANGED <<MainSame, arbiter, hold>>
  <2>1. main' = [main EXCEPT !.pc = "boot"] /\ main.pc = "poll" /\ main \in Loops
    BY DEF PollSpeaker, Goto, At, Fields
  <2>2. UNCHANGED <<MainSame, arbiter, hold>>
    BY DEF PollSpeaker
  <2>3. [main EXCEPT !.pc = "boot"] \in Loops
    BY <2>1, LoopUpdates DEF Places
  <2> QED
    BY <2>1, <2>2, <2>3 DEF Loops
<1>2. playback \in Sounds /\ out \in Outs /\ shake \in Shakes
  BY DEF Fields
<1>3. playback.active \in Nat /\ shake.result \in Results /\ shake.clock \in Nat
  BY <1>2 DEF Sounds, Shakes
<1>4. CASE playback.active = 0
  BY <1>1, <1>2, <1>4 DEF PollSpeaker
<1>5. CASE playback.active # 0 /\ shake.done = playback.active
  <2>1. playback' \in Sounds
    <3>1. playback' = Drained(Started(playback), shake.result)
      BY <1>5 DEF PollSpeaker
    <3> QED
      BY <1>2, <1>3, <3>1, DrainedFields
  <2>2. [[[out EXCEPT !.completed = playback.active] EXCEPT !.primed = FALSE] EXCEPT !.sent = FALSE]
        \in Outs
    BY <1>2, <1>3, OutUpdates
  <2>3. out' = [[[out EXCEPT !.completed = playback.active] EXCEPT !.primed = FALSE]
                  EXCEPT !.sent = FALSE]
    BY <1>5 DEF PollSpeaker
  <2> QED
    BY <1>1, <1>2, <1>5, <2>1, <2>2, <2>3 DEF PollSpeaker
<1>6. CASE playback.active # 0 /\ shake.done # playback.active
  <2>1. out' \in Outs
    <3>1. PICK b \in BOOLEAN : b = (out.primed \/ shake.clock = playback.active)
      BY <1>2 DEF Outs
    <3>2. out' = [out EXCEPT !.primed = b]
      BY <1>6, <3>1 DEF PollSpeaker
    <3> QED
      BY <1>2, <3>2, OutUpdates
  <2>2. CASE main.flag
    BY <1>1, <1>2, <1>3, <1>6, <2>1, <2>2, DrainedFields DEF PollSpeaker
  <2>3. CASE ~main.flag
    <3>1. playback' = Cancelling(Started(playback)) /\ shake' = [shake EXCEPT !.cancel = playback.active]
      BY <1>6, <2>3 DEF PollSpeaker
    <3> QED
      BY <1>1, <1>2, <1>3, <2>1, <3>1, DrainedFields, ShakeUpdates
  <2> QED
    BY <2>2, <2>3
<1> QED
  BY <1>4, <1>5, <1>6

LEMMA AbandonFields ==
  ASSUME Fields, Abandon
  PROVE  /\ playback' \in Sounds
         /\ playback'.last \in {"Cancelled", playback.pending}
         /\ playback'.pending = "None" /\ main' = [main EXCEPT !.pc = "power"]
<1>1. playback \in Sounds /\ "Cancelled" \in Results
  BY DEF Fields, Results
<1>2. Cancelling(playback) \in Sounds /\ Cancelling(playback).pending \in {playback.pending, "Cancelled"}
  BY <1>1, DrainedFields
<1> QED
  BY <1>1, <1>2, DrainedFields DEF Abandon, Goto

\* A sound the caller names.
LEMMA SubmittedFields ==
  Fields => /\ \A g \in Nat : Submitted(g) \in Shakes
            /\ \A g \in Nat : [reserved |-> g, completed |-> 0, primed |-> FALSE, sent |-> FALSE] \in Outs
<1> SUFFICES ASSUME Fields, NEW g \in Nat
             PROVE  /\ Submitted(g) \in Shakes
                    /\ [reserved |-> g, completed |-> 0, primed |-> FALSE, sent |-> FALSE] \in Outs
  OBVIOUS
<1>1. shake \in Shakes /\ "None" \in Results
  BY DEF Fields, Results
<1> DEFINE s1 == [[[shake EXCEPT !.requested = g] EXCEPT !.cancel = 0] EXCEPT !.clock = 0]
           s2 == [[[s1 EXCEPT !.power = 0] EXCEPT !.started = 0] EXCEPT !.done = 0]
<1>2. s1 \in Shakes
  BY <1>1, ShakeUpdates
<1>3. s2 \in Shakes
  <2> HIDE DEF s1
  <2> QED
    BY <1>2, ShakeUpdates
<1>4. [s2 EXCEPT !.result = "None"] \in Shakes
  <2> HIDE DEF s2
  <2> QED
    BY <1>1, <1>3, ShakeUpdates
<1>5. Submitted(g) = [s2 EXCEPT !.result = "None"]
  BY DEF Submitted
<1> QED
  BY <1>4, <1>5 DEF Outs

\* The steps that ask for a sound and reserve the speaker for it.
LEMMA RequestFields ==
  ASSUME Fields, RequestSound \/ CheckMicrophone \/ Reserve \/ Recheck
  PROVE  /\ Fields' /\ LoopFrame /\ hold' = hold
         /\ arbiter'.ready = arbiter.ready /\ main'.gen = main.gen
         /\ arbiter'.quiescing = arbiter.quiescing
<1> USE DEF Fields, LoopFrame, MainSame, arbVars, micVars, workerVars, history, budgets
<1>a. \A pc \in Places : /\ [main EXCEPT !.pc = pc] \in Loops
                         /\ [main EXCEPT !.pc = pc].gen = main.gen
  BY LoopUpdates DEF Loops
<1>b. playback.active \in Nat /\ arbiter.gate \in Int
  BY DEF Sounds, Arbiters
<1>c. {"check", "power", "reserve", "recheck"} \subseteq Places
  BY DEF Places
<1>1. CASE RequestSound
  <2>1. PICK pc \in {"check", "power"}, next \in {"rail", "sleep"} :
          main' = [main EXCEPT !.pc = pc, !.next = next]
    BY <1>1, Zenon DEF RequestSound
  <2>2. [[main EXCEPT !.pc = pc] EXCEPT !.next = next] \in Loops
    BY <1>a, <1>c, LoopUpdates
  <2>3. [main EXCEPT !.pc = pc, !.next = next] = [[main EXCEPT !.pc = pc] EXCEPT !.next = next]
    OBVIOUS
  <2>4. main' \in Loops /\ main'.gen = main.gen
    BY <2>1, <2>2, <2>3 DEF Loops
  <2>5. playback' \in Sounds
    <3>1. Asked \in Sounds /\ "Cancelled" \in Results
      BY AskedFields DEF Results
    <3>2. Drained(Cancelling(Asked), "Cancelled") \in Sounds
      BY <3>1, DrainedFields
    <3>3. playback' = Asked \/ playback' = Drained(Cancelling(Asked), "Cancelled")
      BY <1>1, Zenon DEF RequestSound
    <3> QED
      BY <3>1, <3>2, <3>3
  <2>6. plays' = plays + 1 /\ UNCHANGED <<arbVars, micVars, out, shake, workerVars, hold, starts, naps>>
    BY <1>1 DEF RequestSound
  <2> QED
    BY <2>4, <2>5, <2>6
<1>2. CASE CheckMicrophone
  <2>1. CASE arbiter.microphone # 0
    <3>1. Abandon /\ UNCHANGED <<arbiter, MainSame, out, shake, hold>>
      BY <1>2, <2>1 DEF CheckMicrophone
    <3>2. playback' \in Sounds /\ main' = [main EXCEPT !.pc = "power"]
      BY <3>1, AbandonFields
    <3> QED
      BY <3>1, <3>2, <1>a, <1>c
  <2>2. CASE arbiter.microphone = 0
    <3>1. [arbiter EXCEPT !.gate = arbiter.gate + 1] \in Arbiters
      BY <1>b, ArbiterUpdates
    <3> QED
      BY <1>2, <1>a, <1>c, <2>2, <3>1 DEF CheckMicrophone, Goto, Arbiters
  <2> QED
    BY <2>1, <2>2
<1>3. CASE Reserve
  <2>1. CASE arbiter.speaker = 0
    <3>1. [arbiter EXCEPT !.speaker = playback.active] \in Arbiters
      BY <1>b, ArbiterUpdates
    <3> QED
      BY <1>3, <1>a, <1>c, <2>1, <3>1 DEF Reserve, Goto, Arbiters
  <2>2. CASE arbiter.speaker # 0
    <3>1. [arbiter EXCEPT !.gate = arbiter.gate - 1] \in Arbiters
      BY <1>b, ArbiterUpdates
    <3> QED
      <4>1. /\ Abandon /\ UNCHANGED <<MainSame, out, shake, hold>>
            /\ arbiter' = [arbiter EXCEPT !.gate = arbiter.gate - 1]
        BY <1>3, <2>2 DEF Reserve
      <4>2. playback' \in Sounds /\ main' = [main EXCEPT !.pc = "power"]
        BY <4>1, AbandonFields
      <4> QED
        BY <1>a, <1>c, <3>1, <4>1, <4>2 DEF Arbiters
  <2> QED
    BY <2>1, <2>2
<1>4. CASE Recheck
  <2>1. CASE arbiter.microphone # 0
    <3>1. [[arbiter EXCEPT !.speaker = 0] EXCEPT !.gate = arbiter.gate - 1] \in Arbiters
      <4>1. arbiter \in Arbiters /\ 0 \in Nat /\ arbiter.gate - 1 \in Int
        BY <1>b
      <4>2. [arbiter EXCEPT !.speaker = 0] \in Arbiters
        BY <4>1, ArbiterUpdates
      <4> QED
        BY <4>1, <4>2, ArbiterUpdates
    <3>2. arbiter' = [[arbiter EXCEPT !.speaker = 0] EXCEPT !.gate = arbiter.gate - 1]
      BY <1>4, <2>1 DEF Recheck
    <3> QED
      <4>1. Abandon /\ UNCHANGED <<MainSame, out, shake, hold>>
        BY <1>4, <2>1 DEF Recheck
      <4>2. playback' \in Sounds /\ main' = [main EXCEPT !.pc = "power"]
        BY <4>1, AbandonFields
      <4> QED
        BY <1>a, <1>c, <3>1, <3>2, <4>1, <4>2 DEF Arbiters
  <2>2. CASE arbiter.microphone = 0
    <3>1. [arbiter EXCEPT !.gate = arbiter.gate - 1] \in Arbiters
      BY <1>b, ArbiterUpdates
    <3>2. out' \in Outs /\ shake' \in Shakes
      BY <1>4, <1>b, <2>2, SubmittedFields DEF Recheck
    <3> QED
      BY <1>4, <1>a, <1>c, <2>2, <3>1, <3>2 DEF Recheck, Goto, Arbiters
  <2> QED
    BY <2>1, <2>2
<1> QED
  BY <1>1, <1>2, <1>3, <1>4

LEMMA HandoffFields ==
  ASSUME Fields, CompletePowerHandoff
  PROVE  /\ Fields' /\ LoopFrame /\ UNCHANGED <<playback, shake, hold, plays>>
         /\ arbiter'.ready = arbiter.ready /\ arbiter'.gate = arbiter.gate
         /\ arbiter'.quiescing = arbiter.quiescing /\ main'.gen = main.gen /\ main'.pc = "lan"
         /\ main.pc = "handoff" /\ out'.primed = out.primed
         /\ arbiter'.speaker \in {0, arbiter.speaker}
         /\ out'.reserved \in {0, out.reserved} /\ out'.completed \in {0, out.completed}
<1> USE DEF Fields, LoopFrame, MainSame, arbVars, micVars, workerVars, history, budgets
<1>1. /\ main' \in Loops /\ main'.gen = main.gen /\ main'.pc = "lan" /\ main.pc = "handoff"
      /\ UNCHANGED <<MainSame, playback, shake, hold>>
  <2>1. main' = [main EXCEPT !.pc = "lan"] /\ main.pc = "handoff" /\ main \in Loops
    BY DEF CompletePowerHandoff, Goto, At
  <2>2. UNCHANGED <<MainSame, playback, shake, hold>>
    BY DEF CompletePowerHandoff
  <2>3. [main EXCEPT !.pc = "lan"] \in Loops
    BY <2>1, LoopUpdates DEF Places
  <2> QED
    BY <2>1, <2>2, <2>3 DEF Loops
<1>2. CASE out.completed # 0 /\ arbiter.speaker = out.completed
  <2>1. PICK n \in {0, out.reserved} : n = (IF out.reserved = out.completed THEN 0 ELSE out.reserved)
    BY DEF Outs
  <2>2. out' = [[out EXCEPT !.completed = 0] EXCEPT !.reserved = n]
    BY <1>2, <2>1 DEF CompletePowerHandoff
  <2>3. n \in Nat /\ [out EXCEPT !.completed = 0] \in Outs
    BY <2>1, OutUpdates DEF Outs
  <2>4. out' \in Outs
    BY <2>2, <2>3, OutUpdates
  <2>5. out'.primed = out.primed /\ out'.reserved = n /\ out'.completed = 0
    BY <2>2 DEF Outs
  <2>6. arbiter' = [arbiter EXCEPT !.speaker = 0]
    BY <1>2 DEF CompletePowerHandoff
  <2> QED
    BY <1>1, <2>1, <2>4, <2>5, <2>6, ArbiterUpdates DEF Arbiters
<1>3. CASE ~(out.completed # 0 /\ arbiter.speaker = out.completed)
  BY <1>1, <1>3 DEF CompletePowerHandoff
<1> QED
  BY <1>2, <1>3

LEMMA FieldsStep == Fields /\ [Next]_vars => Fields'
<1> SUFFICES ASSUME Fields, [Next]_vars PROVE Fields'
  OBVIOUS
<1>1. CASE \E t \in Tasks : StopStream(t) \/ StartStep(t) \/ \E s \in Sessions : StartStream(t, s)
  BY <1>1, StartFields
<1>2. CASE StreamWorker \/ WaitTimesOut
  BY <1>2, StreamFields
<1>3. CASE SpeakerWorker
  BY <1>3, WorkerFields
<1>4. CASE PollSpeaker
  BY <1>4, PollFields DEF Fields, MainSame, micVars, workerVars, history, budgets
<1>5. CASE WakeUp
  <2>1. [t \in Tasks |-> NotStarting] \in [Tasks -> Starters]
    BY InitialFields
  <2> QED
    <3>1. /\ arbiter' \in Arbiters /\ lock' \in Tasks \cup {None} /\ session' \in SessionRecords
          /\ task' \in TaskRecords /\ starter' \in [Tasks -> Starters] /\ mic' \in Streams
          /\ rx' \in BOOLEAN
      BY <1>5, <2>1, InitialFields DEF WakeUp
    <3>2. /\ playback' \in Sounds /\ out' \in Outs /\ shake' \in Shakes /\ worker' \in Workers
          /\ tx' \in BOOLEAN /\ hold' \in Holds /\ main' \in Loops
      BY <1>5, InitialFields DEF WakeUp
    <3>3. /\ starts' \in Nat /\ plays' \in Nat /\ naps' \in Nat
            /\ played' \subseteq Nat /\ missed' \subseteq Nat
      BY <1>5 DEF WakeUp, Fields
    <3> QED
      BY <3>1, <3>2, <3>3 DEF Fields
<1>6. CASE UNCHANGED vars
  BY <1>6 DEF Fields, vars, arbVars, micVars, speakerVars, workerVars, history, budgets
<1> QED
  BY <1>1, <1>2, <1>3, <1>4, <1>5, <1>6, QuietFields, RequestFields, HandoffFields
  DEF Next, MainLoop, QuietMain

-----------------------------------------------------------------------------
(* The admission gate, and sleep behind it *)

\* Who is inside the admission gate.
InGate == {"clear", "set", "dispatch"}
TalkInside == IF \E t \in Tasks : starter[t].pc \in InGate THEN 1 ELSE 0
SoundInside == IF main.pc \in {"reserve", "recheck"} THEN 1 ELSE 0

Closed == {"owners", "final", "commit", "dark"}

\* The gate counts who is inside; closed, nobody is, and then nobody who needs
\* the rail can appear.
GateInv ==
  /\ arbiter.gate = TalkInside + SoundInside
  /\ main.pc \in Closed => arbiter.quiescing /\ arbiter.gate = 0
  /\ main.pc \in Closed \ {"owners"} => arbiter.speaker = 0 /\ arbiter.microphone = 0
  /\ main.pc \in Closed \cup {"quiesce"} => naps < MaxNaps

LEMMA InitGate == Init => GateInv
BY DEF Init, GateInv, TalkInside, SoundInside, InGate, Closed, NoOwner, NotStarting, LoopTop

LEMMA StartKeepsGate ==
  ASSUME Fields, StarterInv, GateInv, NEW t \in Tasks,
         StopStream(t) \/ StartStep(t) \/ \E s \in Sessions : StartStream(t, s)
  PROVE  GateInv'
<1> DEFINE Inside(f) == \E u \in Tasks : f[u].pc \in InGate
<1>a. TalkFrame
  BY StartFields
<1>b. SoundInside' = SoundInside /\ main' = main /\ naps' = naps
  BY <1>a DEF TalkFrame, SoundInside
<1>c. /\ starter[t].pc \in InStart => \A u \in Tasks : starter[u].pc \in InStart => u = t
      /\ starter \in [Tasks -> Starters] /\ arbiter \in Arbiters
  BY DEF StarterInv, Fields
<1>1. ASSUME UNCHANGED <<arbiter>>, Inside(starter') <=> Inside(starter)
      PROVE  GateInv'
  BY <1>b, <1>1 DEF GateInv, TalkInside
<1>2. ASSUME starter[t].pc \notin InGate,
             \E r \in Starters : r.pc \notin InGate /\ starter' = [starter EXCEPT ![t] = r]
      PROVE  Inside(starter') <=> Inside(starter)
  <2>1. PICK r \in Starters : r.pc \notin InGate /\ starter' = [starter EXCEPT ![t] = r]
    BY <1>2
  <2>2. \A u \in Tasks : starter'[u] = IF u = t THEN r ELSE starter[u]
    BY <1>c, <2>1
  <2> QED
    BY <1>2, <2>1, <2>2
<1>3. ASSUME NEW s \in Sessions, StartStream(t, s) PROVE GateInv'
  <2>1. PICK pc \in {"begin", "restart"} : starter' = [starter EXCEPT ![t] = [pc |-> pc, id |-> s]]
    BY <1>3 DEF StartStream
  <2>2. [pc |-> pc, id |-> s] \in Starters /\ [pc |-> pc, id |-> s].pc \notin InGate
    BY DEF Starters, InGate
  <2>3. UNCHANGED <<arbiter>> /\ starter[t].pc \notin InGate
    BY <1>3 DEF StartStream, MayCall, InGate, arbVars
  <2> QED
    BY <1>1, <1>2, <2>1, <2>2, <2>3
<1>4. CASE StopStream(t)
  BY <1>1, <1>4 DEF StopStream, arbVars
<1>5. CASE WaitForTaskStop(t) \/ BeginSession(t) \/ (EnterGate(t) /\ arbiter.quiescing)
  <2>1. UNCHANGED <<arbiter>> /\ starter[t].pc \notin InGate
    BY <1>5 DEF WaitForTaskStop, BeginSession, EnterGate, InGate, arbVars
  <2>2. \/ starter' = [starter EXCEPT ![t] = NotStarting]
        \/ \E pc \in {"retry", "gate"} : starter' = [starter EXCEPT ![t].pc = pc]
    BY <1>5 DEF WaitForTaskStop, BeginSession, EnterGate
  <2>3. NotStarting \in Starters /\ NotStarting.pc \notin InGate
    BY InitialFields DEF NotStarting, InGate
  <2>4. \A pc \in {"retry", "gate"} :
          /\ [starter[t] EXCEPT !.pc = pc] \in Starters
          /\ [starter[t] EXCEPT !.pc = pc].pc \notin InGate
          /\ [starter EXCEPT ![t].pc = pc] = [starter EXCEPT ![t] = [starter[t] EXCEPT !.pc = pc]]
    BY <1>c DEF Starters, InGate
  <2> QED
    BY <1>1, <1>2, <2>1, <2>2, <2>3, <2>4
<1>6. CASE EnterGate(t) /\ ~arbiter.quiescing
  <2>1. ~Inside(starter) /\ main.pc \notin Closed
    BY <1>6, <1>c DEF EnterGate, InStart, InGate, GateInv
  <2>2. starter'[t].pc = "clear" /\ arbiter'.gate = arbiter.gate + 1
    BY <1>6, <1>c DEF EnterGate, Arbiters, Starters
  <2>3. TalkInside = 0 /\ TalkInside' = 1
    BY <2>1, <2>2 DEF TalkInside, InGate
  <2> QED
    BY <1>b, <2>1, <2>2, <2>3 DEF GateInv, SoundInside
<1>7. CASE ClearReady(t) \/ SetMicrophone(t)
  <2>1. Inside(starter)
    BY <1>7 DEF ClearReady, SetMicrophone, InGate
  <2>2. starter'[t].pc \in InGate
    BY <1>7, <1>c DEF ClearReady, SetMicrophone, InGate, Starters
  <2>3. main.pc \notin Closed
    BY <2>1 DEF GateInv, TalkInside, SoundInside
  <2>4. arbiter'.gate = arbiter.gate
    BY <1>7, <1>c DEF ClearReady, SetMicrophone, Arbiters
  <2> QED
    BY <1>b, <2>1, <2>2, <2>3, <2>4 DEF GateInv, TalkInside
<1>8. CASE Dispatch(t)
  <2>1. Inside(starter)
    BY <1>8 DEF Dispatch, InGate
  <2>2. \A u \in Tasks : starter'[u].pc \notin InGate
    <3>1. \A u \in Tasks : starter'[u] = IF u = t THEN NotStarting ELSE starter[u]
      BY <1>8, <1>c DEF Dispatch
    <3>2. \A u \in Tasks : u # t => starter[u].pc \notin InGate
      BY <1>8, <1>c DEF Dispatch, InStart, InGate
    <3> QED
      BY <3>1, <3>2 DEF NotStarting, InGate
  <2>3. main.pc \notin Closed
    BY <2>1 DEF GateInv, TalkInside, SoundInside
  <2>4. arbiter'.gate = arbiter.gate - 1
    BY <1>8, <1>c DEF Dispatch, Arbiters
  <2>5. TalkInside = 1 /\ TalkInside' = 0
    BY <2>1, <2>2 DEF TalkInside
  <2> QED
    BY <1>b, <2>3, <2>4, <2>5 DEF GateInv, SoundInside
<1> QED
  BY <1>3, <1>4, <1>5, <1>6, <1>7, <1>8 DEF StartStep

\* The steps of the others that do not ask for a sound.
LEMMA OthersKeepGate ==
  ASSUME Fields, GateInv,
         StreamWorker \/ WaitTimesOut \/ SpeakerWorker \/ PollSpeaker \/ CompletePowerHandoff
  PROVE  GateInv'
<1> USE DEF GateInv, TalkInside, SoundInside
<1>1. CASE StreamWorker \/ WaitTimesOut
  <2>1. TalkFrame
    BY <1>1, StreamFields
  <2>2. /\ starter' = starter /\ arbiter'.gate = arbiter.gate
        /\ arbiter'.microphone \in {0, arbiter.microphone}
    BY <1>1 DEF StreamWorker, TakeJob, EnsureWifi, HardwareReady, WaitStopped, WaitTimesOut,
                OpenMicrophone, EndCapture, FinishStream, ReleaseMicrophone, ClearPowerReady,
                MicSame, arbVars, Fields, Arbiters
  <2> QED
    BY <2>1, <2>2 DEF TalkFrame
<1>2. CASE SpeakerWorker
  BY <1>2, WorkerKeepsTalk DEF TalkSame, SpeakerWorker, TakeSound, PrepareSound, EnableClock, HearPower,
         GiveUpPower, PlayFrames, CheckCancelled, DrainSilence, Judge, FailSound, PublishCompleted, WorkerSame, budgets
<1>3. CASE PollSpeaker
  BY <1>3, PollFields DEF MainSame, micVars, Closed
<1>4. CASE CompletePowerHandoff
  BY <1>4, HandoffFields DEF LoopFrame, micVars, Closed
<1> QED
  BY <1>1, <1>2, <1>3, <1>4

LEMMA QuietKeepsGate ==
  ASSUME Fields, GateInv, QuietMain PROVE GateInv'
<1> USE DEF GateInv, TalkInside, SoundInside, Closed, At, Goto
<1>a. Fields' /\ QuietFrame /\ arbiter \in Arbiters /\ main \in Loops /\ naps' = naps
  BY QuietFields DEF Fields, QuietFrame, LoopFrame
<1>b. /\ starter' = starter /\ arbiter'.gate = arbiter.gate /\ SoundInside' = 0 /\ SoundInside = 0
      /\ arbiter'.speaker = arbiter.speaker /\ arbiter'.microphone = arbiter.microphone
  BY <1>a DEF QuietFrame, LoopFrame, micVars
<1>1. CASE EndInput \/ ReadStreaming \/ ReadMicrophone \/ SkipSound \/ SyncStreaming
  BY <1>a, <1>b, <1>1 DEF EndInput, ReadStreaming, ReadMicrophone, SkipSound, SyncStreaming, Loops
<1>2. CASE SyncHold \/ CheckMark \/ StoreMark \/ SyncSpeakerPower
  <2>1. main'.pc \in {"mark", "mark2", "handoff", "rail", "sleep"}
    BY <1>a, <1>2 DEF SyncHold, CheckMark, StoreMark, SyncSpeakerPower, Loops
  <2> QED
    BY <1>b, <2>1
<1>3. CASE SleepPolicy
  BY <1>a, <1>b, <1>3 DEF SleepPolicy, Loops
<1>4. CASE BeginQuiesce
  BY <1>a, <1>b, <1>4 DEF BeginQuiesce, Loops, Arbiters
<1>5. CASE CheckOwners
  BY <1>a, <1>b, <1>5 DEF CheckOwners, Loops, Arbiters
<1>6. CASE FinalPolicy
  BY <1>a, <1>b, <1>6 DEF FinalPolicy, Loops, Arbiters
<1>7. CASE CommitSleep
  BY <1>a, <1>b, <1>7 DEF CommitSleep, Loops, Arbiters
<1> QED
  BY QuietMain, <1>1, <1>2, <1>3, <1>4, <1>5, <1>6, <1>7 DEF QuietMain

LEMMA RequestKeepsGate ==
  ASSUME Fields, GateInv, RequestSound \/ CheckMicrophone \/ Reserve \/ Recheck
  PROVE  GateInv'
<1> USE DEF GateInv, TalkInside, Closed, At
<1>a. /\ starter' = starter /\ arbiter \in Arbiters /\ main \in Loops
      /\ arbiter'.microphone = arbiter.microphone
  BY RequestFields DEF Fields, LoopFrame, micVars
<1>b. ASSUME Abandon PROVE main'.pc = "power"
  BY <1>a, <1>b, AbandonFields DEF Loops
<1>1. CASE RequestSound
  <2>1. PICK pc \in {"check", "power"}, next \in {"rail", "sleep"} :
          main' = [main EXCEPT !.pc = pc, !.next = next]
    BY <1>1, Zenon DEF RequestSound
  <2>2. main'.pc \in {"check", "power"} /\ main.pc \in {"boot", "lan"}
    BY <1>1, <1>a, <2>1 DEF Loops, RequestSound
  <2>3. arbiter' = arbiter
    BY <1>1 DEF RequestSound, arbVars
  <2> QED
    BY <1>a, <2>2, <2>3 DEF SoundInside
<1>2. CASE CheckMicrophone
  <2>1. CASE arbiter.microphone # 0
    <3>1. Abandon /\ arbiter' = arbiter /\ main.pc = "check"
      BY <1>2, <2>1 DEF CheckMicrophone
    <3> QED
      BY <1>a, <1>b, <3>1 DEF SoundInside
  <2>2. CASE arbiter.microphone = 0
    <3>1. arbiter'.gate = arbiter.gate + 1 /\ main'.pc = "reserve" /\ main.pc = "check"
      BY <1>2, <1>a, <2>2 DEF CheckMicrophone, Goto, Arbiters, Loops
    <3> QED
      BY <1>a, <3>1 DEF SoundInside, Arbiters
  <2> QED
    BY <2>1, <2>2
<1>3. CASE Reserve
  <2>1. CASE arbiter.speaker = 0
    <3>1. arbiter'.gate = arbiter.gate /\ main'.pc = "recheck" /\ main.pc = "reserve"
      BY <1>3, <1>a, <2>1 DEF Reserve, Goto, Arbiters, Loops
    <3> QED
      BY <1>a, <3>1 DEF SoundInside, Arbiters
  <2>2. CASE arbiter.speaker # 0
    <3>1. arbiter'.gate = arbiter.gate - 1 /\ main'.pc = "power" /\ main.pc = "reserve"
      BY <1>3, <1>a, <1>b, <2>2 DEF Reserve, Arbiters
    <3> QED
      BY <1>a, <3>1 DEF SoundInside, Arbiters
  <2> QED
    BY <2>1, <2>2
<1>4. CASE Recheck
  <2>1. arbiter'.gate = arbiter.gate - 1 /\ main'.pc = "power" /\ main.pc = "recheck"
    <3>1. CASE arbiter.microphone # 0
      BY <1>4, <1>a, <1>b, <3>1 DEF Recheck, Arbiters
    <3>2. CASE arbiter.microphone = 0
      BY <1>4, <1>a, <3>2 DEF Recheck, Goto, Arbiters, Loops
    <3> QED
      BY <3>1, <3>2
  <2> QED
    BY <1>a, <2>1 DEF SoundInside, Arbiters
<1> QED
  BY <1>1, <1>2, <1>3, <1>4

LEMMA GateStep ==
  Fields /\ StarterInv /\ GateInv /\ [Next]_vars => GateInv'
<1> SUFFICES ASSUME Fields, StarterInv, GateInv, [Next]_vars PROVE GateInv'
  OBVIOUS
<1>1. CASE WakeUp
  BY <1>1 DEF WakeUp, GateInv, TalkInside, SoundInside, InGate, Closed, NoOwner, NotStarting, LoopTop
<1>2. CASE UNCHANGED vars
  BY <1>2 DEF vars, arbVars, micVars, budgets, GateInv, TalkInside, SoundInside
<1> QED
  BY <1>1, <1>2, StartKeepsGate, OthersKeepGate, QuietKeepsGate, RequestKeepsGate
  DEF Next, MainLoop, QuietMain

-----------------------------------------------------------------------------
(* The generations of a talk session *)

\* A start that waits for the old session has not taken its generation yet.
Waiting(t) == IF starter[t].pc \in {"restart", "retry"} THEN 1 ELSE 0

\* No generation is newer than the session's.
TalkBounds ==
  /\ session.gen + Waiting("main") + Waiting("control") <= starts /\ starts <= MaxStarts
  /\ task.owner <= session.gen /\ task.job <= session.gen /\ mic.gen <= session.gen
  /\ arbiter.microphone <= session.gen /\ arbiter.ready <= session.gen
  /\ main.gen <= session.gen

\* From the job to its end the session on record, the task's owner, the stream
\* worker and the arbiter name one generation; before it the arbiter and the
\* main loop have not heard of it.
SessionInv ==
  /\ StreamBusy => /\ mic.gen = session.gen /\ task.owner = session.gen
                   /\ arbiter.microphone = session.gen
  /\ task.job # 0 => /\ task.job = session.gen /\ task.owner = session.gen
                     /\ arbiter.microphone = session.gen
  /\ session.phase # "Idle" => session.gen # 0 /\ (StreamBusy \/ mic.gen # session.gen)
  /\ \A t \in Tasks : starter[t].pc \in InStart \ {"dispatch"} =>
       /\ arbiter.microphone # session.gen /\ arbiter.ready # session.gen
       /\ main.gen # session.gen
  /\ \A t \in Tasks : starter[t].pc = "dispatch" => arbiter.microphone = session.gen

TalkInv == TalkBounds /\ SessionInv

LEMMA InitTalk == Init => TalkInv
BY BoundsAssumption
DEF Init, TalkInv, TalkBounds, SessionInv, Waiting, StreamBusy, InStart, Tasks, NoOwner, NoSession,
    NoTask, NotStarting, NoStream, LoopTop

\* The numbers TalkInv compares.
LEMMA TalkNumbers ==
  Fields => /\ session.gen \in Nat /\ task.owner \in Nat /\ task.job \in Nat /\ mic.gen \in Nat
            /\ arbiter.microphone \in Nat /\ arbiter.ready \in Nat /\ main.gen \in Nat
            /\ starts \in Nat /\ Waiting("main") \in {0, 1} /\ Waiting("control") \in {0, 1}
BY DEF Fields, SessionRecords, TaskRecords, Streams, Arbiters, Loops, Waiting

\* One task's place changes.
LEMMA StarterMoves ==
  ASSUME Fields, NEW t \in Tasks
  PROVE  /\ \A r \in Starters : starter' = [starter EXCEPT ![t] = r] =>
              /\ starter'[t] = r /\ \A u \in Tasks \ {t} : starter'[u] = starter[u]
         /\ \A pc : starter' = [starter EXCEPT ![t].pc = pc] =>
              /\ starter'[t].pc = pc /\ \A u \in Tasks \ {t} : starter'[u] = starter[u]
BY DEF Fields, Starters

LEMMA StartMovesTask ==
  ASSUME Fields, NEW t \in Tasks,
         StartStep(t) \/ \E s \in Sessions : StartStream(t, s)
  PROVE  \A u \in Tasks \ {t} : starter'[u] = starter[u]
<1>a. NotStarting \in Starters
  BY InitialFields
<1>1. ASSUME NEW s \in Sessions, StartStream(t, s) PROVE \A u \in Tasks \ {t} : starter'[u] = starter[u]
  BY <1>1 DEF StartStream, Fields
<1>2. CASE WaitForTaskStop(t)
  BY <1>2, <1>a, StarterMoves DEF WaitForTaskStop
<1>3. CASE BeginSession(t)
  BY <1>3, <1>a, StarterMoves DEF BeginSession
<1>4. CASE EnterGate(t)
  BY <1>4, <1>a, StarterMoves DEF EnterGate
<1>5. CASE ClearReady(t) \/ SetMicrophone(t)
  BY <1>5, StarterMoves DEF ClearReady, SetMicrophone
<1>6. CASE Dispatch(t)
  BY <1>6, <1>a, StarterMoves DEF Dispatch
<1> QED
  BY <1>1, <1>2, <1>3, <1>4, <1>5, <1>6 DEF StartStep

\* A new session: everybody else's generation is older.
LEMMA NewSessionKeepsTalk ==
  ASSUME Fields, StarterInv, TalkInv, NEW t \in Tasks, session.phase = "Idle",
         session'.gen = session.gen + 1,
         UNCHANGED <<arbiter, task, mic, main>>,
         starter'[t].pc \in {"begin", "gate"},
         \A u \in Tasks \ {t} : starter'[u] = starter[u],
         starts' <= MaxStarts,
         \/ starts' = starts + 1
         \/ starts' = starts /\ starter[t].pc = "retry"
  PROVE  TalkInv'
<1>1. ~StreamBusy /\ task.job = 0 /\ \A u \in Tasks : starter[u].pc \notin InStart
  BY DEF StarterInv
<1>2. /\ arbiter.microphone < session'.gen /\ arbiter.ready < session'.gen
      /\ main.gen < session'.gen /\ mic.gen < session'.gen /\ session'.gen # 0
      /\ task.owner < session'.gen
  BY TalkNumbers DEF TalkInv, TalkBounds
<1>3. SessionInv'
  <2>1. \A u \in Tasks : u # t => starter'[u].pc \notin InStart
    BY <1>1
  <2>2. ~StreamBusy' /\ task'.job = 0
    BY <1>1 DEF StreamBusy
  <2>3. arbiter.microphone # session'.gen /\ arbiter.ready # session'.gen /\ main.gen # session'.gen
        /\ mic.gen # session'.gen
    BY <1>2, TalkNumbers
  <2> QED
    BY <1>2, <2>1, <2>2, <2>3 DEF SessionInv, InStart
<1>4. session'.gen + Waiting("main")' + Waiting("control")' <= starts'
  <2>1. CASE t = "main"
    <3>1. Waiting("control")' = Waiting("control") /\ Waiting("main")' = 0
      BY <2>1 DEF Waiting, Tasks
    <3>2. starts' = starts => Waiting("main") = 1
      BY <2>1, TalkNumbers DEF Waiting
    <3> QED
      BY <3>1, <3>2, TalkNumbers DEF TalkInv, TalkBounds
  <2>2. CASE t = "control"
    <3>1. Waiting("main")' = Waiting("main") /\ Waiting("control")' = 0
      BY <2>2 DEF Waiting, Tasks
    <3>2. starts' = starts => Waiting("control") = 1
      BY <2>2, TalkNumbers DEF Waiting
    <3> QED
      BY <3>1, <3>2, TalkNumbers DEF TalkInv, TalkBounds
  <2> QED
    BY <2>1, <2>2 DEF Tasks
<1> QED
  BY <1>2, <1>3, <1>4, TalkNumbers DEF TalkInv, TalkBounds

\* A task waits for the old session, or ceases to.
LEMMA WaitingCount ==
  ASSUME Fields, NEW t \in Tasks, session'.gen = session.gen,
         \A u \in Tasks \ {t} : starter'[u] = starter[u],
         session.gen + Waiting("main") + Waiting("control") <= starts,
         \/ starts' = starts + 1
         \/ starts' = starts /\ (starter'[t].pc \in {"restart", "retry"} =>
                                   starter[t].pc \in {"restart", "retry"})
  PROVE  session'.gen + Waiting("main")' + Waiting("control")' <= starts'
<1>1. CASE t = "main"
  <2>1. Waiting("control")' = Waiting("control") /\ Waiting("main")' \in {0, 1}
    BY <1>1 DEF Waiting, Tasks
  <2>2. starts' = starts => Waiting("main")' <= Waiting("main")
    BY <1>1, TalkNumbers DEF Waiting
  <2> QED
    BY <2>1, <2>2, TalkNumbers
<1>2. CASE t = "control"
  <2>1. Waiting("main")' = Waiting("main") /\ Waiting("control")' \in {0, 1}
    BY <1>2 DEF Waiting, Tasks
  <2>2. starts' = starts => Waiting("control")' <= Waiting("control")
    BY <1>2, TalkNumbers DEF Waiting
  <2> QED
    BY <2>1, <2>2, TalkNumbers
<1> QED
  BY <1>1, <1>2 DEF Tasks

LEMMA StartKeepsTalk ==
  ASSUME Fields, StarterInv, TalkInv, NEW t \in Tasks,
         StopStream(t) \/ StartStep(t) \/ \E s \in Sessions : StartStream(t, s)
  PROVE  TalkInv'
<1>a. /\ UNCHANGED <<mic, main>> /\ session \in SessionRecords /\ arbiter \in Arbiters
      /\ task \in TaskRecords /\ NotStarting \in Starters
  <2>1. TalkFrame /\ Fields
    BY StartFields
  <2>2. mic' = mic
    BY DEF StopStream, StartStep, StartStream, WaitForTaskStop, BeginSession, EnterGate,
           ClearReady, SetMicrophone, Dispatch
  <2> QED
    BY <2>1, <2>2, InitialFields DEF TalkFrame, Fields
<1>b. starts <= MaxStarts
  BY DEF TalkInv, TalkBounds
<1>c. starter[t].pc \in InStart => /\ session.phase # "Idle" /\ task.job = 0 /\ ~StreamBusy
                                   /\ \A u \in Tasks \ {t} : starter[u].pc \notin InStart
  BY DEF StarterInv
<1>1. ASSUME NEW s \in Sessions, StartStream(t, s) PROVE TalkInv'
  <2>0. /\ starts' = starts + 1 /\ starts' <= MaxStarts /\ UNCHANGED <<arbiter, task, mic, main>>
        /\ starter[t].pc = "idle" /\ \A u \in Tasks \ {t} : starter'[u] = starter[u]
    BY <1>1, <1>a, TalkNumbers, BoundsAssumption, StartMovesTask DEF StartStream, MayCall, arbVars
  <2>1. CASE session.phase = "Idle"
    <3>1. session'.gen = session.gen + 1
      BY <1>1, <2>1 DEF StartStream, NewSession
    <3>2. starter'[t].pc = "begin"
      BY <1>1, <2>1 DEF StartStream, Fields
    <3> QED
      BY <2>0, <2>1, <3>1, <3>2, NewSessionKeepsTalk
  <2>2. CASE session.phase # "Idle"
    <3>1. session'.gen = session.gen /\ session'.phase = "Stopping"
      BY <1>1, <1>a, <2>2 DEF StartStream, SessionRecords
    <3>2. starter'[t].pc = "restart"
      BY <1>1, <2>2 DEF StartStream, Fields
    <3>3. session'.gen + Waiting("main")' + Waiting("control")' <= starts'
      BY <2>0, <3>1, WaitingCount DEF TalkInv, TalkBounds
    <3>4. TalkBounds'
      BY <2>0, <3>1, <3>3 DEF TalkInv, TalkBounds
    <3>5. SessionInv'
      BY <2>0, <2>2, <3>1, <3>2 DEF TalkInv, SessionInv, InStart, StreamBusy
    <3> QED
      BY <3>4, <3>5 DEF TalkInv
  <2> QED
    BY <2>1, <2>2
<1>2. CASE StopStream(t)
  <2>1. /\ UNCHANGED <<arbiter, task, mic, main, starter, starts>> /\ session.phase # "Idle"
        /\ session'.gen = session.gen
    BY <1>2, <1>a DEF StopStream, SessionRecords, arbVars, budgets
  <2> QED
    BY <2>1 DEF TalkInv, TalkBounds, SessionInv, Waiting, StreamBusy
<1>3. CASE WaitForTaskStop(t)
  <2>1. /\ UNCHANGED <<arbiter, task, mic, main, session, starts>>
        /\ starter[t].pc = "restart" /\ starter'[t].pc \in {"idle", "retry"}
        /\ \A u \in Tasks \ {t} : starter'[u] = starter[u]
    BY <1>3, <1>a, StarterMoves, StartMovesTask, SMTT(30) DEF WaitForTaskStop, NotStarting, arbVars, budgets, StartStep
  <2>2. TalkBounds'
    BY <2>1, WaitingCount DEF TalkInv, TalkBounds
  <2> QED
    BY <2>1, <2>2 DEF TalkInv, SessionInv, InStart, StreamBusy
<1>4. CASE BeginSession(t)
  <2>0. /\ UNCHANGED <<arbiter, task, mic, main, starts>>
        /\ \A u \in Tasks \ {t} : starter'[u] = starter[u]
    BY <1>4, <1>a, StartMovesTask DEF BeginSession, budgets, StartStep
  <2>1. CASE starter[t].pc = "retry" /\ session.phase # "Idle"
    <3>1. starter'[t].pc = "idle" /\ session' = session
      BY <1>4, <1>a, <2>1, StarterMoves DEF BeginSession, NotStarting
    <3>2. TalkBounds'
      BY <2>0, <3>1, WaitingCount DEF TalkInv, TalkBounds
    <3> QED
      BY <2>0, <3>1, <3>2 DEF TalkInv, SessionInv, InStart, StreamBusy
  <2>2. CASE starter[t].pc = "retry" /\ session.phase = "Idle"
    <3>1. starter'[t].pc = "gate" /\ session'.gen = session.gen + 1
      BY <1>4, <2>2, StarterMoves DEF BeginSession, NewSession
    <3> QED
      BY <1>b, <2>0, <2>2, <3>1, NewSessionKeepsTalk
  <2>3. CASE starter[t].pc = "begin"
    <3>1. starter'[t].pc = "gate" /\ session' = session
      BY <1>4, <2>3, StarterMoves DEF BeginSession
    <3>2. TalkBounds'
      BY <2>0, <3>1, WaitingCount DEF TalkInv, TalkBounds
    <3> QED
      BY <2>0, <2>3, <3>1, <3>2 DEF TalkInv, SessionInv, InStart, StreamBusy
  <2> QED
    BY <1>4, <2>1, <2>2, <2>3 DEF BeginSession
<1>5. CASE EnterGate(t)
  <2>0. /\ UNCHANGED <<task, mic, main, starts>> /\ starter[t].pc = "gate"
        /\ \A u \in Tasks \ {t} : starter'[u] = starter[u]
    BY <1>5, <1>a, StartMovesTask DEF EnterGate, budgets, StartStep
  <2>1. arbiter'.microphone = arbiter.microphone /\ arbiter'.ready = arbiter.ready
    BY <1>5, <1>a DEF EnterGate, Arbiters
  <2>2. CASE arbiter.quiescing
    <3>1. starter'[t].pc = "idle" /\ session'.gen = session.gen /\ session'.phase = "Idle"
      <4>1. starter'[t] = NotStarting
        BY <1>5, <1>a, <2>2, StarterMoves DEF EnterGate
      <4>2. session' = [session EXCEPT !.phase = "Idle", !.id = None]
        BY <1>5, <2>2 DEF EnterGate
      <4> QED
        BY <1>a, <4>1, <4>2 DEF NotStarting, SessionRecords
    <3>2. TalkBounds'
      BY <2>0, <2>1, <3>1, WaitingCount DEF TalkInv, TalkBounds
    <3> QED
      BY <2>0, <2>1, <3>1, <3>2 DEF TalkInv, SessionInv, InStart, StreamBusy
  <2>3. CASE ~arbiter.quiescing
    <3>1. starter'[t].pc = "clear" /\ session' = session
      BY <1>5, <2>3, StarterMoves DEF EnterGate
    <3>2. TalkBounds'
      BY <2>0, <2>1, <3>1, WaitingCount DEF TalkInv, TalkBounds
    <3> QED
      BY <2>0, <2>1, <3>1, <3>2 DEF TalkInv, SessionInv, InStart, StreamBusy
  <2> QED
    BY <2>2, <2>3
<1>6. CASE ClearReady(t)
  <2>1. /\ UNCHANGED <<task, mic, main, session, starts>> /\ starter[t].pc = "clear"
        /\ arbiter'.microphone = arbiter.microphone /\ arbiter'.ready = 0
        /\ starter'[t].pc = "set" /\ \A u \in Tasks \ {t} : starter'[u] = starter[u]
    BY <1>6, <1>a, StarterMoves DEF ClearReady, budgets, Arbiters
  <2>2. TalkBounds'
    BY <2>1, WaitingCount, TalkNumbers DEF TalkInv, TalkBounds
  <2>3. session.gen # 0
    BY <1>c, <2>1 DEF TalkInv, SessionInv, InStart
  <2> QED
    BY <2>1, <2>2, <2>3 DEF TalkInv, SessionInv, InStart, StreamBusy
<1>7. CASE SetMicrophone(t)
  <2>1. /\ UNCHANGED <<task, mic, main, session, starts>> /\ starter[t].pc = "set"
        /\ arbiter'.microphone = session.gen /\ arbiter'.ready = arbiter.ready
        /\ starter'[t].pc = "dispatch" /\ \A u \in Tasks \ {t} : starter'[u] = starter[u]
    BY <1>7, <1>a, StarterMoves DEF SetMicrophone, budgets, Arbiters
  <2>2. TalkBounds'
    BY <2>1, WaitingCount, TalkNumbers DEF TalkInv, TalkBounds
  <2>3. \A u \in Tasks \ {t} : starter'[u].pc \notin InStart
    BY <1>c, <2>1 DEF InStart
  <2> QED
    BY <1>c, <2>1, <2>2, <2>3 DEF TalkInv, SessionInv, InStart, StreamBusy
<1>8. CASE Dispatch(t)
  <2>1. /\ UNCHANGED <<mic, main, session, starts>> /\ starter[t].pc = "dispatch"
        /\ task' = [owner |-> session.gen, job |-> session.gen]
        /\ arbiter'.microphone = arbiter.microphone /\ arbiter'.ready = arbiter.ready
        /\ starter'[t].pc = "idle" /\ \A u \in Tasks \ {t} : starter'[u] = starter[u]
    <3>1. starter'[t] = NotStarting /\ \A u \in Tasks \ {t} : starter'[u] = starter[u]
      BY <1>8, <1>a, StarterMoves DEF Dispatch
    <3> QED
      BY <1>8, <1>a, <3>1 DEF Dispatch, budgets, Arbiters, NotStarting
  <2>2. TalkBounds'
    <3>1. task'.owner = session.gen /\ task'.job = session.gen
      BY <2>1
    <3> QED
      BY <2>1, <3>1, WaitingCount, TalkNumbers DEF TalkInv, TalkBounds
  <2>3. arbiter.microphone = session.gen /\ ~StreamBusy
    BY <1>c, <2>1 DEF TalkInv, SessionInv, InStart
  <2> QED
    BY <2>1, <2>2, <2>3 DEF TalkInv, SessionInv, InStart, StreamBusy
<1> QED
  BY <1>1, <1>2, <1>3, <1>4, <1>5, <1>6, <1>7, <1>8 DEF StartStep

LEMMA StreamKeepsTalk ==
  ASSUME Fields, StarterInv, TalkInv, StreamWorker \/ WaitTimesOut
  PROVE  TalkInv'
<1> USE DEF TalkInv, TalkBounds, SessionInv, Waiting
<1>a. /\ UNCHANGED <<starter, main, starts>> /\ session \in SessionRecords /\ arbiter \in Arbiters
      /\ task \in TaskRecords /\ mic \in Streams
  <2>1. TalkFrame
    BY StreamFields
  <2>2. starter' = starter /\ starts' = starts
    BY DEF StreamWorker, TakeJob, EnsureWifi, HardwareReady, WaitStopped, WaitTimesOut,
           OpenMicrophone, EndCapture, FinishStream, ReleaseMicrophone, ClearPowerReady, MicSame, budgets
  <2> QED
    BY <2>1, <2>2 DEF TalkFrame, Fields
<1>1. CASE TakeJob
  <2>1. /\ task.job = session.gen /\ task.owner = session.gen /\ arbiter.microphone = session.gen
        /\ mic' = [stage |-> "wifi", gen |-> task.job] /\ task' = [task EXCEPT !.job = 0]
        /\ UNCHANGED <<arbiter, session>> /\ session.gen # 0
    BY <1>1 DEF TakeJob, MicSame, arbVars
  <2>2. task'.owner = task.owner /\ task'.job = 0
    BY <2>1, <1>a DEF TaskRecords
  <2> QED
    BY <1>a, <2>1, <2>2, TalkNumbers DEF StreamBusy
<1>2. CASE EnsureWifi \/ HardwareReady \/ WaitStopped \/ WaitTimesOut
  <2>1. /\ UNCHANGED <<arbiter, session, task>> /\ StreamBusy /\ StreamBusy' /\ mic'.gen = mic.gen
    BY <1>2, <1>a DEF EnsureWifi, HardwareReady, WaitStopped, WaitTimesOut, MicSame, MicGoto,
                      StreamBusy, Streams, arbVars
  <2> QED
    BY <1>a, <2>1
<1>3. CASE OpenMicrophone \/ EndCapture
  <2>1. /\ UNCHANGED <<arbiter, task>> /\ StreamBusy /\ StreamBusy' /\ mic'.gen = mic.gen
        /\ session'.gen = session.gen
    BY <1>3, <1>a DEF OpenMicrophone, EndCapture, MicSame, MicGoto, StreamBusy, Streams, arbVars,
                      SessionRecords
  <2>2. session.phase # "Idle"
    BY <2>1 DEF StarterInv
  <2> QED
    BY <1>a, <2>1, <2>2
<1>4. CASE FinishStream
  <2>1. StreamBusy /\ session.phase # "Idle" /\ task.job = 0 /\ session.gen # 0
    BY <1>4 DEF FinishStream, StarterInv, StreamBusy
  <2>2. session' = [session EXCEPT !.phase = "Idle", !.id = None]
    BY <1>4, <2>1 DEF FinishStream, Owns
  <2>3. session'.phase = "Idle" /\ session'.gen = session.gen
    BY <2>2, <1>a DEF SessionRecords
  <2>4. task'.owner \in {0, task.owner} /\ task'.job = 0
    BY <1>4, <1>a, <2>1 DEF FinishStream, TaskRecords
  <2>5. UNCHANGED arbiter /\ mic'.stage = "release" /\ mic'.gen = mic.gen
    BY <1>4, <1>a DEF FinishStream, MicSame, MicGoto, Streams, arbVars
  <2>6. \A t \in Tasks : starter[t].pc \notin InStart
    BY <2>1 DEF StarterInv
  <2> QED
    BY <1>a, <2>3, <2>4, <2>5, <2>6, TalkNumbers DEF StreamBusy, InStart
<1>5. CASE ReleaseMicrophone
  <2>1. /\ UNCHANGED <<session, task>> /\ ~StreamBusy /\ ~StreamBusy' /\ mic'.gen = mic.gen
        /\ arbiter'.ready = arbiter.ready
        /\ arbiter'.microphone = IF arbiter.microphone = mic.gen THEN 0 ELSE arbiter.microphone
    <3>1. CASE arbiter.microphone = mic.gen
      BY <1>5, <1>a, <3>1 DEF ReleaseMicrophone, MicGoto, Streams, StreamBusy, Arbiters
    <3>2. CASE arbiter.microphone # mic.gen
      BY <1>5, <1>a, <3>2 DEF ReleaseMicrophone, MicGoto, Streams, StreamBusy, Arbiters
    <3> QED
      BY <3>1, <3>2
  <2>2. session.phase # "Idle" => session.gen # 0 /\ mic.gen # session.gen
    BY <2>1
  <2>3. task.job # 0 => session.phase # "Idle"
    BY DEF StarterInv
  <2>4. \A t \in Tasks : starter[t].pc \in InStart => session.phase # "Idle"
    BY DEF StarterInv
  <2>5. /\ arbiter'.microphone <= session.gen
        /\ session.phase # "Idle" /\ arbiter.microphone = session.gen =>
             arbiter'.microphone = session.gen
        /\ session.phase # "Idle" /\ arbiter.microphone # session.gen =>
             arbiter'.microphone # session.gen
    BY <2>1, <2>2, TalkNumbers
  <2>6. TalkBounds'
    BY <1>a, <2>1, <2>5
  <2>7. SessionInv'
    BY <1>a, <2>1, <2>2, <2>3, <2>4, <2>5 DEF InStart
  <2> QED
    BY <2>6, <2>7
<1>6. CASE ClearPowerReady
  <2>1. /\ UNCHANGED <<session, task>> /\ ~StreamBusy /\ ~StreamBusy' /\ mic'.gen = mic.gen
        /\ arbiter'.ready \in {0, arbiter.ready} /\ arbiter'.microphone = arbiter.microphone
    BY <1>6, <1>a DEF ClearPowerReady, MicGoto, Streams, StreamBusy, Arbiters
  <2>2. \A t \in Tasks : starter[t].pc \in InStart => session.gen # 0
    BY DEF StarterInv
  <2>3. TalkBounds'
    BY <1>a, <2>1, TalkNumbers
  <2> QED
    BY <1>a, <2>1, <2>2, <2>3
<1> QED
  BY <1>1, <1>2, <1>3, <1>4, <1>5, <1>6 DEF StreamWorker

LEMMA OthersKeepTalk ==
  ASSUME Fields, StarterInv, TalkInv,
         SpeakerWorker \/ QuietMain \/ PollSpeaker \/ CompletePowerHandoff
         \/ RequestSound \/ CheckMicrophone \/ Reserve \/ Recheck
  PROVE  TalkInv'
<1> USE DEF TalkInv, TalkBounds, SessionInv, Waiting, StreamBusy
<1>1. ASSUME UNCHANGED <<micVars, starts>>, arbiter'.microphone = arbiter.microphone,
             arbiter'.ready \in {arbiter.ready, main.gen},
             main'.gen \in {0, main.gen, arbiter.microphone}
      PROVE  TalkInv'
  <2>1. TalkBounds'
    BY <1>1, TalkNumbers DEF micVars
  <2>2. \A t \in Tasks : starter[t].pc \in InStart => session.gen # 0
    BY DEF StarterInv
  <2>3. SessionInv'
    BY <1>1, <2>2 DEF micVars
  <2> QED
    BY <2>1, <2>3
<1>2. CASE SpeakerWorker
  BY <1>1, <1>2, WorkerKeepsTalk
  DEF SpeakerWorker, TakeSound, PrepareSound, EnableClock, HearPower,
         GiveUpPower, PlayFrames, CheckCancelled, DrainSilence, Judge, FailSound, PublishCompleted,
      WorkerSame, budgets
<1>3. CASE QuietMain
  <2>1. QuietFrame
    BY <1>3, QuietFields
  <2>2. CASE SyncHold
    <3>1. main'.gen = arbiter.microphone
      BY <2>2 DEF SyncHold, Fields, Loops
    <3>2. arbiter' = arbiter
      BY <2>2 DEF SyncHold
    <3> QED
      BY <1>1, <2>1, <3>1, <3>2 DEF QuietFrame, LoopFrame
  <2>3. CASE StoreMark
    <3>1. arbiter'.ready = main.gen /\ main'.gen = 0
      BY <2>3 DEF StoreMark, Fields, Loops, Arbiters
    <3> QED
      BY <1>1, <2>1, <3>1 DEF QuietFrame, LoopFrame
  <2>4. CASE ~SyncHold /\ ~StoreMark
    BY <1>1, <2>1, <2>4 DEF QuietFrame, LoopFrame
  <2> QED
    BY <2>2, <2>3, <2>4
<1>4. CASE PollSpeaker
  BY <1>1, <1>4, PollFields DEF MainSame, budgets
<1>5. CASE CompletePowerHandoff
  BY <1>1, <1>5, HandoffFields DEF LoopFrame
<1>6. CASE RequestSound \/ CheckMicrophone \/ Reserve \/ Recheck
  BY <1>1, <1>6, RequestFields DEF LoopFrame
<1> QED
  BY <1>2, <1>3, <1>4, <1>5, <1>6

LEMMA TalkStep ==
  Fields /\ StarterInv /\ TalkInv /\ [Next]_vars => TalkInv'
<1> SUFFICES ASSUME Fields, StarterInv, TalkInv, [Next]_vars PROVE TalkInv'
  OBVIOUS
<1>1. CASE WakeUp
  <2>1. /\ session' = NoSession /\ task' = NoTask /\ mic' = NoStream /\ arbiter' = NoOwner
        /\ main' = LoopTop /\ starts' = starts /\ starter' = [t \in Tasks |-> NotStarting]
    BY <1>1 DEF WakeUp
  <2>2. starts \in Nat /\ starts <= MaxStarts
    BY TalkNumbers DEF TalkInv, TalkBounds
  <2> QED
    BY <2>1, <2>2 DEF TalkInv, TalkBounds, SessionInv, Waiting, StreamBusy, InStart, Tasks, NoOwner,
                      NoSession, NoTask, NotStarting, NoStream, LoopTop
<1>2. CASE UNCHANGED vars
  BY <1>2 DEF vars, arbVars, micVars, budgets, TalkInv, TalkBounds, SessionInv, Waiting, StreamBusy
<1> QED
  BY <1>1, <1>2, StartKeepsTalk, StreamKeepsTalk, OthersKeepTalk DEF Next, MainLoop, QuietMain

-----------------------------------------------------------------------------
(* The sounds: their numbers, the power handshake and their results *)

\* No sound is newer than the counter.
SoundBounds ==
  /\ playback.counter <= plays /\ plays <= MaxPlays
  /\ playback.active <= playback.counter
  /\ playback.completed <= playback.counter /\ arbiter.speaker <= playback.counter
  /\ out.reserved <= playback.counter /\ out.completed <= playback.counter
  /\ shake.requested <= playback.counter /\ shake.cancel <= playback.counter
  /\ shake.clock <= playback.counter /\ shake.power <= playback.counter
  /\ shake.started <= playback.counter /\ shake.done <= playback.counter
  /\ worker.gen <= playback.counter
  /\ \A g \in played \cup missed : g <= playback.counter

\* A success is a sound that was played, or cut for a talk nobody saw end.
ResultInv ==
  /\ worker.result = "Succeeded" => worker.gen \in played \cup missed
  /\ shake.result = "Succeeded" => shake.done \in played \cup missed
  /\ playback.pending # "Succeeded"
  /\ SucceededMeansPlayed

\* A confirmed clock keeps the rail until the sound is over.
ClockPowerInv ==
  /\ shake.power # 0 /\ shake.power = playback.active => hold.speaker /\ out.primed
  /\ worker.stage \in {"play", "check", "drain"} => shake.power = worker.gen

SoundInv == SoundBounds /\ ResultInv /\ ClockPowerInv

LEMMA InitSound == Init => SoundInv
BY BoundsAssumption
DEF Init, SoundInv, SoundBounds, ResultInv, ClockPowerInv, SucceededMeansPlayed, NoOwner, NoSound,
    NothingOut, NoShake, NoWork, Work, NoHold

LEMMA SoundNumbers ==
  Fields => /\ playback.counter \in Nat /\ plays \in Nat /\ playback.active \in Nat
            /\ playback.completed \in Nat /\ arbiter.speaker \in Nat
            /\ out.reserved \in Nat /\ out.completed \in Nat
            /\ shake.requested \in Nat /\ shake.cancel \in Nat /\ shake.clock \in Nat
            /\ shake.power \in Nat /\ shake.started \in Nat /\ shake.done \in Nat
            /\ worker.gen \in Nat /\ played \subseteq Nat /\ missed \subseteq Nat
BY DEF Fields, Sounds, Arbiters, Outs, Shakes, Workers

\* Why a sound that was cut may still succeed: who saw the cut is still there,
\* or came and went.
CutInv ==
  /\ CutShort => Cancelled(worker.gen) \/ worker.gen \in missed
  /\ worker.stage = "drain" /\ ~worker.whole => worker.gen \in missed
  /\ worker.stage = "verdict" => worker.gen \in played \cup missed

LEMMA WorkerKeepsSound ==
  ASSUME Fields, WorkerInv, SoundInv, CutInv, SpeakerWorker
  PROVE  SoundInv'
<1> USE DEF SoundInv, SoundBounds, ResultInv, ClockPowerInv, SucceededMeansPlayed
<1>a. worker \in Workers /\ shake \in Shakes
  BY DEF Fields
<1>b. UNCHANGED <<arbiter, playback, out, hold, plays, missed>>
  BY DEF SpeakerWorker, TakeSound, PrepareSound, EnableClock, HearPower, GiveUpPower, PlayFrames,
         CheckCancelled, DrainSilence, Judge, FailSound, PublishCompleted, WorkerSame, arbVars,
         history, budgets
<1>c. ASSUME NEW r \in Results, WorkerDone(r), UNCHANGED <<shake, played>>,
             r = "Succeeded" => worker.gen \in played \cup missed
      PROVE  SoundInv'
  <2>1. worker'.gen = worker.gen /\ worker'.result = r /\ worker'.stage = "done"
    BY <1>c DEF WorkerDone, Work
  <2> QED
    BY <1>b, <1>c, <2>1
<1>d. ASSUME worker'.gen = worker.gen, worker'.result = worker.result, shake' = shake,
             worker'.stage \in {"play", "check", "drain"} => shake.power = worker.gen,
             played \subseteq played', played' \subseteq played \cup {worker.gen}
      PROVE  SoundInv'
  BY <1>b, <1>d
<1>e. \A stage \in Stages : WorkerGoto(stage) =>
        worker'.gen = worker.gen /\ worker'.result = worker.result /\ worker'.stage = stage
  BY <1>a DEF WorkerGoto, Workers
<1>f. {"Cancelled", "Failed", "Succeeded"} \subseteq Results
  BY DEF Results
<1>1. CASE TakeSound
  <2>1. /\ worker'.gen = shake.requested /\ worker'.result = "None" /\ worker'.stage = "prepare"
        /\ shake'.requested = 0 /\ shake'.cancel = shake.cancel /\ shake'.clock = shake.clock
        /\ shake'.power = shake.power /\ shake'.started = shake.started
        /\ shake'.done = shake.done /\ shake'.result = shake.result /\ played' = played
    BY <1>1, <1>a DEF TakeSound, Shakes, Work, history
  <2> QED
    BY <1>b, <2>1, SoundNumbers
<1>2. CASE PrepareSound
  <2>1. UNCHANGED <<shake, played>>
    BY <1>2 DEF PrepareSound, history
  <2>2. CASE \E r \in {"Cancelled", "Failed"} : WorkerDone(r)
    BY <1>c, <1>f, <2>1, <2>2
  <2>3. CASE WorkerGoto("enable")
    BY <1>d, <1>e, <2>1, <2>3 DEF Stages
  <2> QED
    BY <1>2, <2>2, <2>3 DEF PrepareSound
<1>3. CASE EnableClock
  <2>1. CASE WorkerDone("Failed") /\ shake' = shake
    BY <1>3, <1>c, <1>f, <2>1 DEF EnableClock, history
  <2>2. CASE WorkerGoto("power") /\ shake' = [shake EXCEPT !.clock = worker.gen]
    <3>1. worker'.gen = worker.gen /\ worker'.result = worker.result /\ worker'.stage = "power"
      BY <1>e, <2>2 DEF Stages
    <3>2. /\ shake'.requested = shake.requested /\ shake'.cancel = shake.cancel
          /\ shake'.clock = worker.gen /\ shake'.power = shake.power
          /\ shake'.started = shake.started
          /\ shake'.done = shake.done /\ shake'.result = shake.result
      BY <1>a, <2>2 DEF Shakes
    <3>3. played' = played
      BY <1>3 DEF EnableClock, history
    <3> QED
      BY <1>b, <3>1, <3>2, <3>3
  <2> QED
    BY <1>3, <2>1, <2>2 DEF EnableClock
<1>4. CASE HearPower
  <2>1. CASE WorkerDone("Failed") /\ shake' = shake
    BY <1>4, <1>c, <1>f, <2>1 DEF HearPower, history
  <2>2. CASE WorkerGoto("play") /\ shake' = [shake EXCEPT !.started = worker.gen]
    <3>1. worker'.gen = worker.gen /\ worker'.result = worker.result /\ worker'.stage = "play"
      BY <1>e, <2>2 DEF Stages
    <3>2. /\ shake'.requested = shake.requested /\ shake'.cancel = shake.cancel
          /\ shake'.clock = shake.clock /\ shake'.power = shake.power /\ shake.power = worker.gen
          /\ shake'.started = worker.gen
          /\ shake'.done = shake.done /\ shake'.result = shake.result
      BY <1>4, <1>a, <2>2 DEF HearPower, Shakes
    <3>3. played' = played
      BY <1>4 DEF HearPower, history
    <3> QED
      BY <1>b, <3>1, <3>2, <3>3
  <2> QED
    BY <1>4, <2>1, <2>2 DEF HearPower
<1>5. CASE GiveUpPower \/ FailSound
  BY <1>5, <1>c, <1>f DEF GiveUpPower, FailSound, history
<1>6. CASE PlayFrames
  <2>1. worker'.gen = worker.gen /\ worker'.result = worker.result /\ worker.stage = "play"
    <3>1. CASE worker' = [worker EXCEPT !.stage = "check", !.whole = TRUE]
      BY <1>6, <1>a, <3>1 DEF PlayFrames, Workers
    <3>2. CASE WorkerGoto("check")
      BY <1>6, <1>e, <3>2 DEF PlayFrames, Stages
    <3> QED
      BY <1>6, <3>1, <3>2 DEF PlayFrames
  <2> QED
    BY <1>6, <1>d, <2>1 DEF PlayFrames, history
<1>7. CASE CheckCancelled
  <2>1. CASE Cancelled(worker.gen)
    BY <1>7, <1>c, <1>f, <2>1 DEF CheckCancelled, history
  <2>2. CASE ~Cancelled(worker.gen)
    BY <1>7, <1>d, <1>e, <2>2 DEF CheckCancelled, history, Stages
  <2> QED
    BY <2>1, <2>2
<1>8. CASE DrainSilence
  <2>1. CASE Cancelled(worker.gen)
    BY <1>8, <1>c, <1>f, <2>1 DEF DrainSilence
  <2>2. CASE ~Cancelled(worker.gen)
    BY <1>8, <1>d, <1>e, <2>2 DEF DrainSilence, Stages
  <2> QED
    BY <2>1, <2>2
<1>9. CASE Judge
  <2>1. worker.gen \in played \cup missed
    BY <1>9 DEF Judge, CutInv
  <2> QED
    BY <1>9, <1>c, <1>f, <2>1 DEF Judge, history
<1>10. CASE PublishCompleted
  <2>1. worker'.gen = worker.gen /\ worker'.result = "None" /\ worker'.stage = "idle"
    BY <1>10 DEF PublishCompleted, Work
  <2>2. /\ shake'.requested = shake.requested /\ shake'.cancel = shake.cancel
        /\ shake'.clock = shake.clock /\ shake'.power = shake.power
        /\ shake'.started = shake.started
        /\ shake'.done = worker.gen /\ shake'.result = worker.result /\ played' = played
    BY <1>10, <1>a DEF PublishCompleted, Shakes, history
  <2> QED
    BY <1>b, <2>1, <2>2
<1> QED
  BY <1>1, <1>2, <1>3, <1>4, <1>5, <1>6, <1>7, <1>8, <1>9, <1>10 DEF SpeakerWorker

\* What a step of the main loop must leave for the sounds to stay in order.
LEMMA PollKeepsSound ==
  ASSUME Fields, Shape, SpeakerInv, SoundInv, PollSpeaker
  PROVE  SoundInv'
<1> USE DEF SoundInv, SoundBounds, ResultInv, ClockPowerInv, SucceededMeansPlayed
<1>a. /\ UNCHANGED <<worker, played, missed, plays, arbiter, hold>> /\ playback' \in Sounds
      /\ playback \in Sounds /\ out \in Outs /\ shake \in Shakes
  BY PollFields DEF MainSame, workerVars, history, budgets, Fields
<1>b. /\ Started(playback) \in Sounds /\ Started(playback).active = playback.active
      /\ Started(playback).counter = playback.counter
      /\ Started(playback).pending = playback.pending /\ Started(playback).last = playback.last
      /\ Started(playback).completed = playback.completed
      /\ DOMAIN Started(playback) = SoundFields /\ shake.result \in Results
      /\ DOMAIN playback = SoundFields
  <2>1. "None" \in Results /\ DOMAIN playback = SoundFields /\ shake.result \in Results
    BY <1>a DEF Results, Shape, Shakes
  <2> QED
    BY <1>a, <2>1, DrainedFields, StartedFacts
<1>1. CASE playback.active = 0
  BY <1>a, <1>1 DEF PollSpeaker
<1>2. CASE playback.active # 0 /\ shake.done = playback.active
  <2>1. playback' = Drained(Started(playback), shake.result) /\ UNCHANGED shake
    BY <1>2 DEF PollSpeaker
  <2>2. /\ playback'.active = 0 /\ playback'.counter = playback.counter
        /\ playback'.completed = playback.active /\ playback'.pending = "None"
        /\ playback'.last \in {shake.result, playback.pending}
    BY <1>b, <2>1, DrainedFields, DrainedFacts
  <2>3. out'.reserved = out.reserved /\ out'.completed = playback.active
    BY <1>2, <1>a DEF PollSpeaker, Outs
  <2>4. worker.stage = "idle"
    BY <1>2, <1>a DEF SpeakerInv, WorkerInv
  <2> QED
    BY <1>2, <1>a, <2>1, <2>2, <2>3, <2>4, SoundNumbers
<1>3. CASE playback.active # 0 /\ shake.done # playback.active
  <2>1. out'.reserved = out.reserved /\ out'.completed = out.completed /\ (out.primed => out'.primed)
    BY <1>3, <1>a DEF PollSpeaker, Outs
  <2>2. /\ shake'.requested = shake.requested /\ shake'.cancel \in {shake.cancel, playback.active}
        /\ shake'.clock = shake.clock /\ shake'.power = shake.power
        /\ shake'.started = shake.started
        /\ shake'.done = shake.done /\ shake'.result = shake.result
    BY <1>3, <1>a DEF PollSpeaker, Shakes
  <2>3. /\ playback'.active = playback.active /\ playback'.counter = playback.counter
        /\ playback'.completed = playback.completed /\ playback'.last = playback.last
        /\ playback'.pending \in {playback.pending, "Cancelled"}
    <3>1. CASE playback' = Started(playback)
      BY <1>b, <3>1
    <3>2. CASE playback' = Cancelling(Started(playback))
      BY <1>b, <3>2, DrainedFields, CancellingFacts
    <3> QED
      BY <1>3, <3>1, <3>2, Zenon DEF PollSpeaker
  <2> QED
    BY <1>3, <1>a, <2>1, <2>2, <2>3
<1> QED
  BY <1>1, <1>2, <1>3

\* A refused request is over; nothing it left says it was heard.
LEMMA AbandonKeepsSound ==
  ASSUME Fields, Shape, SpeakerInv, SoundInv, Abandon, LoopFrame,
         UNCHANGED <<out, shake, hold, plays>>, arbiter'.speaker \in {0, arbiter.speaker},
         worker.stage = "idle"
  PROVE  SoundInv'
<1> USE DEF SoundInv, SoundBounds, ResultInv, ClockPowerInv, SucceededMeansPlayed
<1>1. /\ playback'.active = 0 /\ playback'.counter = playback.counter
      /\ playback'.pending = "None" /\ playback'.last # "Succeeded"
  BY AbandonFacts, AbandonFields
<1>2. playback'.completed = playback.active
  <2>1. playback \in Sounds /\ "Cancelled" \in Results /\ DOMAIN playback = SoundFields
    BY DEF Fields, Results, Shape
  <2>2. Cancelling(playback) \in Sounds /\ Cancelling(playback).active = playback.active
    BY <2>1, DrainedFields, CancellingFacts
  <2> QED
    BY <2>1, <2>2, DrainedFields DEF Abandon
<1> QED
  BY <1>1, <1>2, SoundNumbers DEF LoopFrame, workerVars, history

LEMMA RequestKeepsSound ==
  ASSUME Fields, Shape, SpeakerInv, SoundInv,
         RequestSound \/ CheckMicrophone \/ Reserve \/ Recheck
  PROVE  SoundInv'
<1>a. Fields' /\ LoopFrame /\ hold' = hold /\ playback \in Sounds /\ arbiter \in Arbiters
  BY RequestFields DEF Fields
<1>b. main.pc \in Requesting => worker.stage = "idle"
  BY DEF SpeakerInv, WorkerInv
<1>1. CASE RequestSound
  <2>1. /\ plays' = plays + 1 /\ plays < MaxPlays /\ UNCHANGED <<arbiter, out, shake, worker, history>>
        /\ playback.active = 0
    BY <1>1 DEF RequestSound, arbVars, workerVars, history, SpeakerInv, CounterInv
  <2>2. plays' <= MaxPlays /\ worker.stage = "idle"
    BY <2>1, SoundNumbers, BoundsAssumption DEF SpeakerInv, WorkerInv
  <2>3. DOMAIN playback = SoundFields /\ "Cancelled" \in Results
    BY DEF Shape, Results
  <2>4. /\ playback'.active \in {0, playback.counter + 1} /\ playback'.counter = playback.counter + 1
        /\ playback'.pending = "None"
        /\ playback'.completed \in {playback.completed, playback.counter + 1}
        /\ playback'.last \in {playback.last, "Cancelled", "None"}
        /\ playback'.completed # playback.completed => playback'.last # "Succeeded"
    <3>1. CASE playback' = Asked
      BY <1>a, <2>3, <3>1, AskedFacts, AskedFields
    <3>2. CASE playback' = Drained(Cancelling(Asked), "Cancelled")
      <4>1. /\ Asked \in Sounds /\ Asked.active = playback.counter + 1 /\ Asked.pending = "None"
            /\ Asked.counter = playback.counter + 1 /\ DOMAIN Asked = SoundFields
        BY <1>a, <2>3, AskedFacts, AskedFields
      <4>2. /\ Cancelling(Asked) \in Sounds /\ Cancelling(Asked).active = playback.counter + 1
            /\ Cancelling(Asked).pending \in {"None", "Cancelled"}
        BY <2>3, <4>1, DrainedFields, CancellingFacts
      <4>3. playback'.active = 0 /\ playback'.counter = playback.counter + 1
        BY <3>2, <4>1, DrainedFacts
      <4> QED
        BY <2>3, <3>2, <4>2, <4>3, DrainedFields
    <3> QED
      BY <1>1, <3>1, <3>2, Zenon DEF RequestSound
  <2>5. SoundBounds'
    BY <1>a, <2>1, <2>2, <2>4, SoundNumbers DEF SoundInv, SoundBounds, history
  <2>6. ResultInv'
    BY <2>1, <2>4 DEF SoundInv, ResultInv, SucceededMeansPlayed, history
  <2>7. ClockPowerInv'
    BY <1>a, <2>1, <2>2, <2>4, SoundNumbers DEF SoundInv, SoundBounds, ClockPowerInv
  <2> QED
    BY <2>5, <2>6, <2>7 DEF SoundInv
<1>2. CASE CheckMicrophone
  <2>1. /\ UNCHANGED <<out, shake, plays>> /\ worker.stage = "idle"
        /\ arbiter'.speaker = arbiter.speaker /\ (Abandon \/ playback' = playback)
    BY <1>2, <1>a, <1>b DEF CheckMicrophone, MainSame, budgets, At, Requesting, Arbiters
  <2>2. CASE Abandon
    BY <1>a, <2>1, <2>2, AbandonKeepsSound
  <2>3. CASE playback' = playback
    BY <1>a, <2>1, <2>3 DEF SoundInv, SoundBounds, ResultInv, ClockPowerInv, SucceededMeansPlayed,
                            LoopFrame, workerVars, history
  <2> QED
    BY <2>1, <2>2, <2>3
<1>3. CASE Reserve
  <2>1. UNCHANGED <<out, shake, plays>> /\ worker.stage = "idle"
    BY <1>3, <1>b DEF Reserve, MainSame, budgets, At, Requesting
  <2>2. CASE arbiter.speaker # 0
    <3>1. Abandon /\ arbiter'.speaker = arbiter.speaker
      BY <1>3, <1>a, <2>2 DEF Reserve, Arbiters
    <3> QED
      BY <1>a, <2>1, <3>1, AbandonKeepsSound
  <2>3. CASE arbiter.speaker = 0
    <3>1. playback' = playback /\ arbiter'.speaker = playback.active
      BY <1>3, <1>a, <2>3 DEF Reserve, Arbiters
    <3> QED
      BY <1>a, <2>1, <3>1 DEF SoundInv, SoundBounds, ResultInv, ClockPowerInv, SucceededMeansPlayed,
                              LoopFrame, workerVars, history
  <2> QED
    BY <2>2, <2>3
<1>4. CASE Recheck
  <2>1. worker.stage = "idle" /\ plays' = plays
    BY <1>4, <1>b DEF Recheck, MainSame, budgets, At, Requesting
  <2>2. CASE arbiter.microphone # 0
    <3>1. Abandon /\ arbiter'.speaker = 0 /\ UNCHANGED <<out, shake>>
      BY <1>4, <1>a, <2>2 DEF Recheck, Arbiters
    <3> QED
      BY <1>a, <2>1, <3>1, AbandonKeepsSound
  <2>3. CASE arbiter.microphone = 0
    <3>1. /\ playback' = playback /\ arbiter'.speaker = arbiter.speaker
          /\ out' = [reserved |-> playback.active, completed |-> 0, primed |-> FALSE, sent |-> FALSE]
          /\ shake' = Submitted(playback.active)
      BY <1>4, <1>a, <2>3 DEF Recheck, Arbiters
    <3>2. /\ shake'.requested = playback.active /\ shake'.cancel = 0 /\ shake'.clock = 0
          /\ shake'.power = 0 /\ shake'.started = 0 /\ shake'.done = 0 /\ shake'.result = "None"
      BY <3>1 DEF Submitted, Fields, Shakes
    <3>3. out'.reserved = playback.active /\ out'.completed = 0
      BY <3>1
    <3> QED
      BY <1>a, <2>1, <3>1, <3>2, <3>3, SoundNumbers
      DEF SoundInv, SoundBounds, ResultInv, ClockPowerInv, SucceededMeansPlayed, LoopFrame, workerVars, history
  <2> QED
    BY <2>2, <2>3
<1> QED
  BY <1>1, <1>2, <1>3, <1>4

LEMMA QuietKeepsSound ==
  ASSUME Fields, SpeakerInv, SoundInv, QuietMain
  PROVE  SoundInv'
<1> USE DEF SoundInv, SoundBounds, ResultInv, ClockPowerInv, SucceededMeansPlayed, history
<1>a. QuietFrame /\ UNCHANGED <<worker, history, plays, playback>> /\ arbiter'.speaker = arbiter.speaker
  BY QuietFields DEF QuietFrame, LoopFrame, workerVars, history
<1>1. CASE SyncSpeakerPower
  <2>1. hold'.speaker = PowerLeaseRequired
    BY <1>1 DEF SyncSpeakerPower, Fields, Holds
  <2>2. playback.active # 0 => playback.phase # "Idle"
    BY DEF SpeakerInv, CounterInv
  <2>3. CASE PowerLeaseRequired /\ ~out.sent
    <3>1. /\ out'.reserved = out.reserved /\ out'.completed = out.completed
          /\ out'.primed = out.primed
      BY <1>1, <2>3 DEF SyncSpeakerPower, Fields, Outs
    <3>2. /\ shake'.requested = shake.requested /\ shake'.cancel = shake.cancel
          /\ shake'.clock = shake.clock /\ shake'.power = playback.active
          /\ shake'.started = shake.started
          /\ shake'.done = shake.done /\ shake'.result = shake.result
      BY <1>1, <2>3 DEF SyncSpeakerPower, Fields, Shakes
    <3>3. worker.stage \in {"play", "check", "drain"} => playback.active = worker.gen
      BY DEF SpeakerInv, WorkerInv
    <3> QED
      BY <1>a, <2>1, <2>3, <3>1, <3>2, <3>3 DEF PowerLeaseRequired
  <2>4. CASE ~(PowerLeaseRequired /\ ~out.sent)
    <3>1. UNCHANGED <<out, shake>>
      BY <1>1, <2>4 DEF SyncSpeakerPower
    <3>2. shake.power # 0 /\ shake.power = playback.active => PowerLeaseRequired
      BY <2>2 DEF PowerLeaseRequired
    <3> QED
      BY <1>a, <2>1, <3>1, <3>2
  <2> QED
    BY <2>3, <2>4
<1>2. CASE ~SyncSpeakerPower
  <2>1. UNCHANGED <<out, shake>>
    BY <1>2, <1>a DEF QuietFrame
  <2>2. hold'.speaker = hold.speaker
    BY <1>2 DEF QuietMain, EndInput, ReadStreaming, ReadMicrophone, SkipSound, SyncStreaming, SyncHold,
                CheckMark, StoreMark, SleepPolicy, BeginQuiesce, CheckOwners, FinalPolicy, CommitSleep,
                Fields, Holds
  <2> QED
    BY <1>a, <2>1, <2>2
<1> QED
  BY <1>1, <1>2

LEMMA SoundStep ==
  Fields /\ Shape /\ SpeakerInv /\ SoundInv /\ CutInv /\ [Next]_vars => SoundInv'
<1> SUFFICES ASSUME Fields, Shape, SpeakerInv, SoundInv, CutInv, [Next]_vars PROVE SoundInv'
  OBVIOUS
<1> USE DEF SoundInv, SoundBounds, ResultInv, ClockPowerInv, SucceededMeansPlayed
<1>1. CASE (\E t \in Tasks : StopStream(t) \/ StartStep(t) \/ \E s \in Sessions : StartStream(t, s))
           \/ StreamWorker \/ WaitTimesOut
  <2>1. TalkFrame
    BY <1>1, StartFields, StreamFields
  <2> QED
    BY <2>1 DEF TalkFrame, speakerVars
<1>2. CASE SpeakerWorker
  BY <1>2, WorkerKeepsSound DEF SpeakerInv
<1>3. CASE CompletePowerHandoff
  <2>1. /\ LoopFrame /\ UNCHANGED <<playback, shake, hold, plays>> /\ out'.primed = out.primed
        /\ arbiter'.speaker \in {0, arbiter.speaker}
        /\ out'.reserved \in {0, out.reserved} /\ out'.completed \in {0, out.completed}
    BY <1>3, HandoffFields
  <2> QED
    BY <2>1, SoundNumbers DEF LoopFrame, workerVars, history
<1>4. CASE WakeUp
  <2>1. /\ playback' = NoSound /\ arbiter' = NoOwner /\ out' = NothingOut /\ shake' = NoShake
        /\ worker' = NoWork /\ hold' = NoHold /\ played' = {} /\ missed' = {} /\ plays' = plays
    BY <1>4 DEF WakeUp
  <2> QED
    BY <2>1, SoundNumbers DEF NoSound, NoOwner, NothingOut, NoShake, NoWork, Work, NoHold
<1>5. CASE UNCHANGED vars
  BY <1>5 DEF vars, arbVars, speakerVars, workerVars, history, budgets
<1> QED
  BY <1>1, <1>2, <1>3, <1>4, <1>5, PollKeepsSound, QuietKeepsSound, RequestKeepsSound
  DEF Next, MainLoop, QuietMain

-----------------------------------------------------------------------------
(* Sounds that were cut *)

LEMMA InitCut == Init => CutInv
BY DEF Init, CutInv, CutShort, NoWork, Work

\* Nobody touches the worker, and the look it has not taken yet finds what cut
\* the sound.
LEMMA CutStays ==
  ASSUME CutInv, UNCHANGED <<worker, played>>, missed \subseteq missed',
         CutShort /\ Cancelled(worker.gen) => Cancelled(worker.gen)' \/ worker.gen \in missed'
  PROVE  CutInv'
BY DEF CutInv, CutShort

LEMMA WorkerKeepsCut ==
  ASSUME Fields, CutInv, SpeakerWorker
  PROVE  CutInv'
<1> USE DEF CutInv, CutShort
<1>a. worker \in Workers
  BY DEF Fields
<1>b. UNCHANGED <<arbiter, missed>>
  BY DEF SpeakerWorker, TakeSound, PrepareSound, EnableClock, HearPower, GiveUpPower, PlayFrames,
         CheckCancelled, DrainSilence, Judge, FailSound, PublishCompleted, WorkerSame, arbVars,
         history
<1>c. ASSUME worker'.stage \notin {"check", "drain", "verdict"}
      PROVE  CutInv'
  BY <1>c
<1>d. \A stage \in Stages : WorkerGoto(stage) =>
        worker'.gen = worker.gen /\ worker'.whole = worker.whole /\ worker'.stage = stage
  BY <1>a DEF WorkerGoto, Workers
<1>e. ASSUME NEW r, WorkerDone(r) PROVE CutInv'
  BY <1>c, <1>e DEF WorkerDone, Work
<1>1. CASE TakeSound \/ PublishCompleted
  BY <1>1, <1>c DEF TakeSound, PublishCompleted, Work
<1>2. CASE PrepareSound \/ EnableClock \/ HearPower \/ GiveUpPower \/ FailSound
  BY <1>2, <1>c, <1>d, <1>e
  DEF PrepareSound, EnableClock, HearPower, GiveUpPower, FailSound, Stages
<1>3. CASE PlayFrames
  <2>1. CASE worker' = [worker EXCEPT !.stage = "check", !.whole = TRUE]
    <3>1. worker'.stage = "check" /\ worker'.whole
      BY <1>a, <2>1 DEF Workers
    <3> QED
      BY <3>1
  <2>2. CASE Cancelled(worker.gen) /\ WorkerGoto("check")
    <3>1. worker'.gen = worker.gen /\ worker'.stage = "check" /\ UNCHANGED <<shake, arbiter>>
      BY <1>3, <1>b, <1>d, <2>2 DEF PlayFrames, Stages
    <3> QED
      BY <2>2, <3>1 DEF Cancelled
  <2> QED
    BY <1>3, <2>1, <2>2 DEF PlayFrames
<1>4. CASE CheckCancelled
  <2>1. CASE Cancelled(worker.gen)
    BY <1>4, <1>e, <2>1 DEF CheckCancelled
  <2>2. CASE ~Cancelled(worker.gen)
    <3>1. /\ worker'.gen = worker.gen /\ worker'.whole = worker.whole /\ worker'.stage = "drain"
          /\ worker.stage = "check"
      BY <1>4, <1>d, <2>2 DEF CheckCancelled, Stages
    <3> QED
      BY <1>b, <2>2, <3>1
  <2> QED
    BY <2>1, <2>2
<1>5. CASE DrainSilence
  <2>1. CASE Cancelled(worker.gen)
    BY <1>5, <1>e, <2>1 DEF DrainSilence
  <2>2. CASE ~Cancelled(worker.gen)
    <3>1. /\ worker'.gen = worker.gen /\ worker'.stage = "verdict" /\ worker.stage = "drain"
          /\ worker.whole => worker.gen \in played'
      BY <1>5, <1>d, <2>2 DEF DrainSilence, Stages
    <3> QED
      BY <1>b, <3>1
  <2> QED
    BY <2>1, <2>2
<1>6. CASE Judge
  BY <1>6, <1>e DEF Judge
<1> QED
  BY <1>1, <1>2, <1>3, <1>4, <1>5, <1>6 DEF SpeakerWorker

\* A talk keeps its generation in the arbiter until finish_microphone, which is
\* where the worker may miss it.
LEMMA TalkKeepsCut ==
  ASSUME Fields, TalkInv, CutInv,
         (\E t \in Tasks : StopStream(t) \/ StartStep(t) \/ \E s \in Sessions : StartStream(t, s))
         \/ StreamWorker \/ WaitTimesOut,
         StarterInv
  PROVE  CutInv'
<1>1. TalkFrame
  BY StartFields, StreamFields
<1>2. UNCHANGED <<worker, played, shake>> /\ missed \subseteq missed'
  BY <1>1 DEF TalkFrame, speakerVars
<1>3. ASSUME arbiter.microphone # 0 => arbiter'.microphone # 0 \/ (CutShort => worker.gen \in missed')
      PROVE  CutInv'
  <2>1. CutShort /\ Cancelled(worker.gen) => Cancelled(worker.gen)' \/ worker.gen \in missed'
    BY <1>2, <1>3 DEF Cancelled
  <2> QED
    BY <1>2, <2>1, CutStays
<1>4. CASE \E t \in Tasks : SetMicrophone(t)
  <2>1. arbiter'.microphone = session.gen
    BY <1>4 DEF SetMicrophone, Fields, Arbiters
  <2>2. session.gen # 0
    BY <1>4 DEF SetMicrophone, StarterInv, InStart, TalkInv, SessionInv
  <2> QED
    BY <1>3, <2>1, <2>2
<1>5. CASE ReleaseMicrophone
  <2>1. arbiter.microphone = mic.gen => (CutShort => worker.gen \in missed')
    BY <1>5 DEF ReleaseMicrophone
  <2>2. arbiter.microphone # mic.gen => arbiter' = arbiter
    BY <1>5 DEF ReleaseMicrophone
  <2> QED
    BY <1>3, <2>1, <2>2
<1>6. CASE ~ReleaseMicrophone /\ ~ \E t \in Tasks : SetMicrophone(t)
  <2>1. arbiter'.microphone = arbiter.microphone
    BY <1>6 DEF StopStream, StartStep, StartStream, WaitForTaskStop, BeginSession, EnterGate,
                ClearReady, Dispatch, StreamWorker, TakeJob, EnsureWifi, HardwareReady, WaitStopped,
                OpenMicrophone, EndCapture, FinishStream, ClearPowerReady, WaitTimesOut, MicSame,
                arbVars, Fields, Arbiters
  <2> QED
    BY <1>3, <2>1
<1> QED
  BY <1>4, <1>5, <1>6

LEMMA CutStep ==
  Fields /\ Shape /\ SpeakerInv /\ StarterInv /\ TalkInv /\ CutInv /\ [Next]_vars => CutInv'
<1> SUFFICES ASSUME Fields, Shape, SpeakerInv, StarterInv, TalkInv, CutInv, [Next]_vars PROVE CutInv'
  OBVIOUS
<1>1. CASE (\E t \in Tasks : StopStream(t) \/ StartStep(t) \/ \E s \in Sessions : StartStream(t, s))
           \/ StreamWorker \/ WaitTimesOut
  BY <1>1, TalkKeepsCut
<1>2. CASE SpeakerWorker
  BY <1>2, WorkerKeepsCut
<1>3. CASE PollSpeaker
  <2>1. UNCHANGED <<worker, history, arbiter>> /\ shake \in Shakes
    BY <1>3, PollFields DEF MainSame, workerVars, Fields
  <2>2. shake'.cancel \in {shake.cancel, playback.active}
    BY <1>3, <2>1 DEF PollSpeaker, Shakes
  <2>3. CutShort => playback.active = worker.gen
    BY DEF CutShort, SpeakerInv, WorkerInv
  <2> QED
    BY <2>1, <2>2, <2>3, CutStays DEF Cancelled, history
<1>4. CASE RequestSound \/ CheckMicrophone \/ Reserve \/ Recheck
  <2>1. LoopFrame
    BY <1>4, RequestFields
  <2>2. CutShort => shake' = shake
    <3>1. CASE RequestSound \/ CheckMicrophone \/ Reserve
      BY <3>1 DEF RequestSound, CheckMicrophone, Reserve
    <3>2. CASE Recheck
      BY <3>2 DEF Recheck, At, Requesting, CutShort, SpeakerInv, WorkerInv
    <3> QED
      BY <1>4, <3>1, <3>2
  <2> QED
    BY <2>1, <2>2, CutStays DEF LoopFrame, workerVars, history, Cancelled
<1>5. CASE QuietMain \/ CompletePowerHandoff
  <2>1. LoopFrame /\ shake'.cancel = shake.cancel
    <3>1. CASE SyncSpeakerPower
      BY <3>1, QuietFields DEF QuietMain, QuietFrame, SyncSpeakerPower, Fields, Shakes
    <3>2. CASE ~SyncSpeakerPower
      BY <1>5, <3>2, QuietFields, HandoffFields DEF QuietFrame
    <3> QED
      BY <3>1, <3>2
  <2> QED
    BY <2>1, CutStays DEF LoopFrame, workerVars, history, Cancelled
<1>6. CASE WakeUp
  BY <1>6 DEF WakeUp, CutInv, CutShort, NoWork, Work
<1>7. CASE UNCHANGED vars
  BY <1>7, CutStays DEF vars, arbVars, speakerVars, workerVars, history, Cancelled
<1> QED
  BY <1>1, <1>2, <1>3, <1>4, <1>5, <1>6, <1>7 DEF Next, MainLoop, QuietMain

-----------------------------------------------------------------------------
(* The microphone's power, and the properties *)

\* Power-ready for the arbiter's generation means the hold is taken.
ReadyInv ==
  /\ main.pc \in {"mark", "mark2"} => hold.audio
  /\ arbiter.ready # 0 /\ arbiter.ready = arbiter.microphone => hold.audio
  /\ mic.stage \in {"open", "capture"} => hold.audio

LEMMA InitReady == Init => ReadyInv
BY DEF Init, ReadyInv, NoOwner, NoStream, LoopTop

LEMMA StartKeepsReady ==
  ASSUME Fields, TalkInv, ReadyInv, NEW t \in Tasks,
         StopStream(t) \/ StartStep(t) \/ \E s \in Sessions : StartStream(t, s)
  PROVE  ReadyInv'
<1>a. TalkFrame /\ mic' = mic /\ arbiter \in Arbiters
  <2>1. TalkFrame /\ arbiter \in Arbiters
    BY StartFields DEF Fields
  <2>2. mic' = mic
    BY DEF StopStream, StartStep, StartStream, WaitForTaskStop, BeginSession, EnterGate, ClearReady,
           SetMicrophone, Dispatch
  <2> QED
    BY <2>1, <2>2
<1>1. CASE SetMicrophone(t)
  <2>1. /\ arbiter'.microphone = session.gen /\ arbiter'.ready = arbiter.ready
        /\ arbiter.ready # session.gen
    BY <1>1, <1>a DEF SetMicrophone, Arbiters, TalkInv, SessionInv, InStart
  <2> QED
    BY <1>a, <2>1 DEF TalkFrame, ReadyInv
<1>2. CASE ~SetMicrophone(t)
  <2>1. arbiter'.microphone = arbiter.microphone /\ arbiter'.ready \in {0, arbiter.ready}
    <3>1. CASE EnterGate(t)
      BY <1>a, <3>1 DEF EnterGate, Arbiters
    <3>2. CASE ClearReady(t) \/ Dispatch(t)
      BY <1>a, <3>2 DEF ClearReady, Dispatch, Arbiters
    <3>3. CASE ~EnterGate(t) /\ ~ClearReady(t) /\ ~Dispatch(t)
      BY <1>2, <3>3 DEF StopStream, StartStep, StartStream, WaitForTaskStop, BeginSession, arbVars
    <3> QED
      BY <3>1, <3>2, <3>3
  <2> QED
    BY <1>a, <2>1 DEF TalkFrame, ReadyInv
<1> QED
  BY <1>1, <1>2

LEMMA StreamKeepsReady ==
  ASSUME Fields, ReadyInv, StreamWorker \/ WaitTimesOut
  PROVE  ReadyInv'
<1>a. TalkFrame /\ arbiter \in Arbiters /\ mic \in Streams
  BY StreamFields DEF Fields
<1>1. CASE HardwareReady
  <2>1. arbiter.ready = mic.gen /\ arbiter.microphone = mic.gen /\ mic.gen # 0
    BY <1>1 DEF HardwareReady, MicrophoneHardwareReady, ShouldRun, Owns
  <2>2. arbiter' = arbiter /\ hold.audio
    BY <1>1, <2>1 DEF HardwareReady, MicSame, arbVars, ReadyInv
  <2> QED
    BY <1>a, <2>2 DEF TalkFrame, ReadyInv
<1>2. CASE TakeJob \/ EnsureWifi \/ WaitStopped \/ WaitTimesOut \/ OpenMicrophone \/ EndCapture
           \/ FinishStream
  <2>1. /\ arbiter' = arbiter
        /\ mic'.stage \in {"open", "capture"} => mic.stage \in {"open", "capture"}
    BY <1>2, <1>a DEF TakeJob, EnsureWifi, WaitStopped, WaitTimesOut, OpenMicrophone, EndCapture,
                      FinishStream, MicSame, MicGoto, arbVars, Streams
  <2> QED
    BY <1>a, <2>1 DEF TalkFrame, ReadyInv
<1>3. CASE ReleaseMicrophone
  <2>1. CASE arbiter.microphone = mic.gen
    <3>1. arbiter'.microphone = 0 /\ arbiter'.ready = arbiter.ready /\ mic'.stage = "clear"
      BY <1>3, <1>a, <2>1 DEF ReleaseMicrophone, MicGoto, Arbiters, Streams
    <3> QED
      BY <1>a, <3>1 DEF TalkFrame, ReadyInv
  <2>2. CASE arbiter.microphone # mic.gen
    <3>1. arbiter' = arbiter /\ mic'.stage = "idle"
      BY <1>3, <1>a, <2>2 DEF ReleaseMicrophone, MicGoto, Streams
    <3> QED
      BY <1>a, <3>1 DEF TalkFrame, ReadyInv
  <2> QED
    BY <2>1, <2>2
<1>4. CASE ClearPowerReady
  <2>1. /\ arbiter'.microphone = arbiter.microphone /\ arbiter'.ready \in {0, arbiter.ready}
        /\ mic'.stage = "idle"
    BY <1>4, <1>a DEF ClearPowerReady, MicGoto, Arbiters, Streams
  <2> QED
    BY <1>a, <2>1 DEF TalkFrame, ReadyInv
<1> QED
  BY <1>1, <1>2, <1>3, <1>4 DEF StreamWorker

LEMMA OthersKeepReady ==
  ASSUME Fields, HardwareInv, ReadyInv,
         SpeakerWorker \/ QuietMain \/ PollSpeaker \/ CompletePowerHandoff
         \/ RequestSound \/ CheckMicrophone \/ Reserve \/ Recheck
  PROVE  ReadyInv'
<1> USE DEF ReadyInv
<1>a. arbiter \in Arbiters /\ main \in Loops /\ hold \in Holds
  BY DEF Fields
<1>1. CASE SpeakerWorker
  BY <1>1, WorkerKeepsTalk DEF TalkSame, SpeakerWorker, TakeSound, PrepareSound, EnableClock, HearPower,
         GiveUpPower, PlayFrames, CheckCancelled, DrainSilence, Judge, FailSound, PublishCompleted, WorkerSame
<1>2. CASE QuietMain
  <2>a. QuietFrame
    BY <1>2, QuietFields
  <2>1. CASE SyncHold
    <3>1. hold'.audio = (main.flag \/ arbiter.microphone # 0) /\ arbiter' = arbiter
      BY <1>a, <2>1 DEF SyncHold, Holds
    <3>2. main'.pc \in {"mark", "mark2"} => arbiter.microphone # 0
      BY <1>a, <2>1 DEF SyncHold, Loops
    <3>3. mic.stage \in {"open", "capture"} => arbiter.microphone # 0
      BY DEF HardwareInv
    <3> QED
      BY <2>a, <3>1, <3>2, <3>3 DEF QuietFrame, LoopFrame, micVars
  <2>2. CASE CheckMark
    <3>1. hold' = hold /\ hold.audio /\ arbiter' = arbiter
      BY <2>2 DEF CheckMark, At
    <3> QED
      BY <2>a, <3>1 DEF QuietFrame, LoopFrame, micVars
  <2>3. CASE StoreMark
    <3>1. hold' = hold /\ hold.audio
      BY <2>3 DEF StoreMark, At
    <3> QED
      BY <3>1
  <2>4. CASE ~SyncHold /\ ~CheckMark /\ ~StoreMark
    <3>1. hold'.audio = hold.audio /\ main'.pc \notin {"mark", "mark2"}
      BY <1>2, <1>a, <2>4
      DEF QuietMain, EndInput, ReadStreaming, ReadMicrophone, SkipSound, SyncStreaming,
          SyncSpeakerPower, SleepPolicy, BeginQuiesce, CheckOwners, FinalPolicy, CommitSleep,
          Holds, Loops, Goto
    <3> QED
      BY <2>a, <2>4, <3>1 DEF QuietFrame, LoopFrame, micVars
  <2> QED
    BY <2>1, <2>2, <2>3, <2>4
<1>3. CASE PollSpeaker
  BY <1>3, PollFields DEF MainSame, micVars
<1>4. CASE CompletePowerHandoff
  BY <1>4, HandoffFields DEF LoopFrame, micVars
<1>5. CASE RequestSound \/ CheckMicrophone \/ Reserve \/ Recheck
  <2>1. /\ LoopFrame /\ hold' = hold /\ arbiter'.ready = arbiter.ready
    BY <1>5, RequestFields
  <2>2. main'.pc \notin {"mark", "mark2"}
    <3>1. CASE RequestSound
      <4>1. PICK pc \in {"check", "power"}, next \in {"rail", "sleep"} :
              main' = [main EXCEPT !.pc = pc, !.next = next]
        BY <3>1, Zenon DEF RequestSound
      <4> QED
        BY <1>a, <4>1 DEF Loops
    <3>2. CASE CheckMicrophone \/ Reserve \/ Recheck
      <4>1. Abandon \/ \E pc \in {"reserve", "recheck", "power"} : main' = [main EXCEPT !.pc = pc]
        BY <3>2 DEF CheckMicrophone, Reserve, Recheck, Goto
      <4>2. \E pc \in {"reserve", "recheck", "power"} : main' = [main EXCEPT !.pc = pc]
        BY <4>1 DEF Abandon, Goto
      <4> QED
        BY <1>a, <4>2 DEF Loops
    <3> QED
      BY <1>5, <3>1, <3>2
  <2> QED
    BY <2>1, <2>2 DEF LoopFrame, micVars
<1> QED
  BY <1>1, <1>2, <1>3, <1>4, <1>5

\* The whole inductive invariant.
AudioInv ==
  /\ Shape /\ Fields /\ SpeakerInv /\ MicrophoneInv
  /\ GateInv /\ TalkInv /\ SoundInv /\ CutInv /\ ReadyInv /\ naps <= MaxNaps

LEMMA InitAudio == Init => AudioInv
<1>1. Init => naps <= MaxNaps
  BY BoundsAssumption DEF Init
<1> QED
  BY <1>1, InitShape, InitFields, InitSpeaker, InitMicrophone, InitGate, InitTalk, InitSound,
      InitCut, InitReady
  DEF AudioInv

LEMMA AudioStep == AudioInv /\ [Next]_vars => AudioInv'
<1> SUFFICES ASSUME AudioInv, [Next]_vars PROVE AudioInv'
  OBVIOUS
<1>1. Shape' /\ Fields' /\ SpeakerInv' /\ MicrophoneInv'
  BY ShapeStep, FieldsStep, SpeakerStep, MicrophoneStep DEF AudioInv
<1>2. GateInv' /\ TalkInv' /\ SoundInv' /\ CutInv'
  BY GateStep, TalkStep, SoundStep, CutStep DEF AudioInv, MicrophoneInv
<1>3. ReadyInv'
  <2>1. CASE WakeUp
    BY <2>1 DEF WakeUp, ReadyInv, NoOwner, NoStream, LoopTop
  <2>2. CASE UNCHANGED vars
    BY <2>2 DEF AudioInv, ReadyInv, vars, arbVars, micVars
  <2> QED
    BY <2>1, <2>2, StartKeepsReady, StreamKeepsReady, OthersKeepReady
    DEF AudioInv, MicrophoneInv, Next, MainLoop, QuietMain
<1>4. naps' <= MaxNaps
  <2>1. CASE WakeUp
    <3>1. naps < MaxNaps /\ naps' = naps + 1 /\ naps \in Nat
      BY <2>1 DEF WakeUp, At, AudioInv, GateInv, Closed, Fields
    <3> QED
      BY <3>1, BoundsAssumption
  <2>2. CASE ~WakeUp
    <3>1. naps' = naps
      <4>1. CASE \E t \in Tasks : StopStream(t) \/ StartStep(t) \/ \E s \in Sessions : StartStream(t, s)
        BY <4>1, StartFields DEF AudioInv, TalkFrame
      <4>2. CASE StreamWorker \/ WaitTimesOut
        BY <4>2, StreamFields DEF AudioInv, TalkFrame
      <4>3. CASE SpeakerWorker
        BY <4>3 DEF SpeakerWorker, TakeSound, PrepareSound, EnableClock, HearPower,
         GiveUpPower, PlayFrames, CheckCancelled, DrainSilence, Judge, FailSound, PublishCompleted, WorkerSame, budgets
      <4>4. CASE MainLoop \/ RequestSound
        BY <2>2, <4>4, QuietFields, PollFields, HandoffFields, RequestFields
        DEF AudioInv, MainLoop, QuietMain, QuietFrame, LoopFrame, MainSame, budgets
      <4>5. CASE UNCHANGED vars
        BY <4>5 DEF vars, budgets
      <4> QED
        BY <4>1, <4>2, <4>3, <4>4, <4>5 DEF Next
    <3> QED
      BY <3>1 DEF AudioInv
  <2> QED
    BY <2>1, <2>2
<1> QED
  BY <1>1, <1>2, <1>3, <1>4 DEF AudioInv

\* The records of both directions, the rail and the arbiter stay well formed for
\* any number of talks, sounds and sleeps.
THEOREM Invariance == Spec => []AudioInv
BY InitAudio, AudioStep, PTL DEF Spec

LEMMA BoundedFields == AudioInv => TypeOK
<1> SUFFICES ASSUME AudioInv PROVE TypeOK
  OBVIOUS
<1>0. Fields /\ TalkBounds /\ SoundBounds /\ GateInv /\ naps <= MaxNaps
  BY DEF AudioInv, TalkInv, SoundInv
<1>a. MaxStarts \in Nat /\ MaxPlays \in Nat /\ MaxNaps \in Nat
  BY BoundsAssumption
<1>b. session.gen <= MaxStarts
  BY <1>0, <1>a, TalkNumbers DEF TalkBounds
<1>c. \A n \in Nat : n <= session.gen => n \in 0..MaxStarts
  BY <1>0, <1>a, <1>b, TalkNumbers
<1>d. \A n \in Nat : n <= playback.counter => n \in Generations
  BY <1>0, <1>a, SoundNumbers DEF SoundBounds, Generations
<1>1. arbiter \in [speaker: Generations, microphone: 0..MaxStarts, ready: 0..MaxStarts, gate: 0..2,
                   quiescing: BOOLEAN]
  <2>1. arbiter.gate \in 0..2
    BY <1>0 DEF GateInv, TalkInside, SoundInside
  <2>2. /\ arbiter.speaker \in Generations /\ arbiter.microphone \in 0..MaxStarts
        /\ arbiter.ready \in 0..MaxStarts
    BY <1>0, <1>c, <1>d, TalkNumbers, SoundNumbers DEF TalkBounds, SoundBounds
  <2> QED
    BY <1>0, <2>1, <2>2 DEF Fields, Arbiters
<1>2. /\ session \in [id: Sessions \cup {None}, phase: {"Idle", "Starting", "Streaming", "Stopping"},
                      gen: 0..MaxStarts]
      /\ task \in [owner: 0..MaxStarts, job: 0..MaxStarts]
      /\ mic \in [stage: {"idle", "wifi", "wait", "open", "capture", "finish", "release", "clear"},
                  gen: 0..MaxStarts]
  <2>1. /\ session.gen \in 0..MaxStarts /\ task.owner \in 0..MaxStarts /\ task.job \in 0..MaxStarts
        /\ mic.gen \in 0..MaxStarts
    BY <1>0, <1>c, TalkNumbers DEF TalkBounds
  <2> QED
    BY <1>0, <2>1 DEF Fields, SessionRecords, TaskRecords, Streams
<1>3. playback \in [phase: {"Idle", "Starting", "Playing", "Draining"}, active: Generations,
                    pending: Results, last: Results, completed: Generations, counter: Generations]
  <2>1. /\ playback.active \in Generations /\ playback.completed \in Generations
        /\ playback.counter \in Generations
    BY <1>0, <1>d, SoundNumbers DEF SoundBounds
  <2> QED
    BY <1>0, <2>1 DEF Fields, Sounds
<1>4. out \in [reserved: Generations, completed: Generations, primed: BOOLEAN, sent: BOOLEAN]
  <2>1. out.reserved \in Generations /\ out.completed \in Generations
    BY <1>0, <1>d, SoundNumbers DEF SoundBounds
  <2> QED
    BY <1>0, <2>1 DEF Fields, Outs
<1>5. shake \in [requested: Generations, cancel: Generations, clock: Generations, power: Generations,
                 started: Generations, done: Generations, result: Results]
  <2>1. /\ shake.requested \in Generations /\ shake.cancel \in Generations
        /\ shake.clock \in Generations /\ shake.power \in Generations
        /\ shake.started \in Generations /\ shake.done \in Generations
    BY <1>0, <1>d, SoundNumbers DEF SoundBounds
  <2> QED
    BY <1>0, <2>1 DEF Fields, Shakes
<1>6. worker \in [stage: Stages, gen: Generations, result: Results, whole: BOOLEAN]
  <2>1. worker.gen \in Generations
    BY <1>0, <1>d, SoundNumbers DEF SoundBounds
  <2> QED
    BY <1>0, <2>1 DEF Fields, Workers
<1>7. main \in [pc: Places, next: {"rail", "sleep"}, flag: BOOLEAN, gen: 0..MaxStarts]
  <2>1. main.gen \in 0..MaxStarts
    BY <1>0, <1>c, TalkNumbers DEF TalkBounds
  <2> QED
    BY <1>0, <2>1 DEF Fields, Loops
<1>8. /\ starts \in 0..MaxStarts /\ plays \in 0..MaxPlays /\ naps \in 0..MaxNaps
      /\ played \subseteq Generations /\ missed \subseteq Generations
  <2>1. starts \in Nat /\ plays \in Nat /\ naps \in Nat /\ starts <= MaxStarts /\ plays <= MaxPlays
    BY <1>0 DEF Fields, TalkBounds, SoundBounds
  <2>2. played \subseteq Generations /\ missed \subseteq Generations
    BY <1>0, <1>d, SoundNumbers DEF SoundBounds
  <2> QED
    BY <1>0, <1>a, <2>1, <2>2
<1> QED
  BY <1>0, <1>1, <1>2, <1>3, <1>4, <1>5, <1>6, <1>7, <1>8
  DEF TypeOK, Fields, Starters, Holds, Places, Stages

\* Every variable keeps its type; in particular the admission gate neither
\* leaks nor underflows, and no generation outruns the calls that make one.
THEOREM TypeCorrect == Spec => []TypeOK
BY Invariance, BoundedFields, PTL

\* Samples need the rail's hold, and the rail goes off for deep sleep only when
\* nobody runs and nobody who was about to start gets through (HearPower,
\* wait_for_microphone_hardware, try_begin_deep_sleep_quiesce).
THEOREM RailIsSafe == Spec => []PowerIsSafe
<1>1. AudioInv => RailIsHeld
  <2> SUFFICES ASSUME AudioInv PROVE RailIsHeld
    OBVIOUS
  <2>1. worker.stage \in {"play", "check", "drain"} => hold.speaker
    <3>1. worker.stage \in {"play", "check", "drain"} =>
            worker.gen # 0 /\ playback.active = worker.gen /\ shake.power = worker.gen
      BY DEF AudioInv, SpeakerInv, WorkerInv, SoundInv, ClockPowerInv
    <3> QED
      BY <3>1 DEF AudioInv, SoundInv, ClockPowerInv
  <2>2. rx => hold.audio
    BY DEF AudioInv, MicrophoneInv, HardwareInv, ReadyInv
  <2> QED
    BY <2>1, <2>2 DEF RailIsHeld
<1>2. AudioInv => AsleepIsSilent
  <2> SUFFICES ASSUME AudioInv, At("dark")
               PROVE  /\ ~rx /\ ~tx /\ arbiter.speaker = 0 /\ arbiter.microphone = 0
                      /\ mic.stage \notin {"wait", "open", "capture"}
    BY DEF AsleepIsSilent
  <2>1. arbiter.speaker = 0 /\ arbiter.microphone = 0
    BY DEF AudioInv, GateInv, Closed, At
  <2>2. ~tx
    BY <2>1 DEF AudioInv, SpeakerInv, WorkerInv
  <2>3. ~StreamBusy
    <3>1. StreamBusy => arbiter.microphone = session.gen /\ session.gen # 0
      BY DEF AudioInv, TalkInv, SessionInv, MicrophoneInv, StarterInv
    <3> QED
      BY <2>1, <3>1
  <2>4. ~rx
    BY <2>3 DEF AudioInv, MicrophoneInv, HardwareInv, StreamBusy
  <2> QED
    BY <2>1, <2>2, <2>3, <2>4 DEF StreamBusy
<1> QED
  BY <1>1, <1>2, Invariance, PTL DEF PowerIsSafe

\* Who records is the session on record; and a success was played to the end of
\* its tail silence unless a talk cut it short and was over before the worker
\* looked again: no failure, no cancellation the worker or the main loop saw, no
\* other order of the two tasks makes one (finish_stream_task, play_sound,
\* SpeakerPlayback::mark_drained).
THEOREM RecordsTrue == Spec => []RecordsAreTrue
<1>1. AudioInv => CaptureOwnsSession
  <2> SUFFICES ASSUME AudioInv, rx
               PROVE  /\ mic.gen = session.gen /\ session.phase # "Idle"
                      /\ mic.gen = arbiter.microphone /\ mic.gen = task.owner
    BY DEF CaptureOwnsSession
  <2>1. StreamBusy
    BY DEF AudioInv, MicrophoneInv, HardwareInv, StreamBusy
  <2> QED
    BY <2>1 DEF AudioInv, MicrophoneInv, StarterInv, TalkInv, SessionInv
<1>2. AudioInv => SucceededMeansPlayed
  BY DEF AudioInv, SoundInv, ResultInv
<1> QED
  BY <1>1, <1>2, Invariance, PTL DEF RecordsAreTrue
=============================================================================
