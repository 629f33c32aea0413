# Verification of the Codex keyboard and its Host

TLA+ models of the Codex keyboard (`src/firmware`) and of the Host service that serves it
(`src/app/host`), with the TLC runs that check them and the theorems TLAPS proves about them.
Paths in this document are relative to `src/`.

## 1. The system

The keyboard is an ESP32-S3 with four *slots*, each bound to a Codex task. The user holds a slot's
key and talks; the recording goes over authenticated UDP to the Host, is transcribed and becomes a
prompt for the task. The Host watches the tasks' rollout files; completions of a task are
summarised, spoken into an encrypted object and kept in a mailbox whose lamps the keyboard shows.
A second key of the slot plays the unread summary; only a summary heard to its end leaves the
mailbox. Beside this the device is an ordinary keyboard, on USB and on Bluetooth, and its sounds are
a bundle that an App transfers to it over USB or Wi-Fi.

```
   keys ──► CodexSlotState ──► CodexLanPlayback ──► SpeakerOutput ─┐   one power rail,
    │           │ PTT                ▲  │               ▲          ├─► one I2S port,
    │           ▼                    │  │ EIPQ/EIPA/…   │ leased   │   AudioIoArbiter
    │     KeyboardAudioLink ─────────┼──┼───────────────┼──────────┘
    │           │ EIAU/EIAE   (UDP)  │  ▼               │ bundle
    │  ═════════▼════════════════════╧═════════════ Wi-Fi ═══════════  sound banks (Flash)
    │     CaptureAssembler      ActiveLanPlayback       │  store worker ──► │ A │ B │
    │           │ capture            ▲  │ events        │      ▲
    ▼           ▼                    │  ▼               │  platform task ◄── mailbox ◄── USB, Wi-Fi
  report   ASR worker ──prompts──► serve loop ◄─ control socket        (frames of the App)
  queues         ▲              │        │       │
    │  DurablePromptScheduler   leases   mailbox status
    ▼            │  ▲                │       │
  USB, BLE  Codex processes          ▼       ▼
   hosts                     StateStore (SQLite) ◄──── rollout observer
                                     ▲
                               summary worker ──► summary text, synthesis, cache
```

### 1.1 Inventory

| component | source | state it keeps | operations | talks to |
|---|---|---|---|---|
| summary ledger and leases | `store.rs` | tables of completions, summaries, synthesis attempts, leases | commit completion, claim, begin attempt, publish, abandon, lease, cancel, finish, recover on open | summary worker, serve loop, observer, `tools/clean_interrupted.py` |
| summary worker | `summary_orchestrator.rs`, `summary_worker.rs`, `summary.rs` | none that lasts; backoff per task | one pass over the tasks, resume or claim, generate, synthesise, store, publish | ledger, cache, external services |
| spoken-object cache | `cache.rs`, `tts_cache.rs` | files named by (task, generation), one operation gate | publish or verify, load, reconcile | summary worker, serve loop |
| prompt queue | `prompt_queue.rs`, `store.rs` jobs, `codex_runner.rs` | table `jobs`, map of workers, result channel | enqueue, claim, mark, stop, recover | serve loop, one Codex process per running job |
| LAN playback, Host | `lan_voice.rs`, `lan_playback.rs`, `health.rs` | one transfer, retired identities, accepted request floors; the serve loop's active playbacks | request, begin, data window, acknowledgement, finish, cancel, resend, give up | device, serve loop by two channels |
| LAN playback, device | `codex_lan_playback.cpp`, `codex_slot_state.cpp` | phase of the transfer; what each slot's keys mean | request, receive, play, report, cancel, retry, time out, reboot | Host by UDP, speaker |
| audio arbitration | `audio_io_arbiter.cpp`, `audio_session.cpp`, `speaker_playback.cpp`, `keyboard_audio.cpp`, `speaker_output.cpp`, `app_main.cpp` | atomics naming the owner of the port; talk session; sound in progress | start and stop a talk, capture, request a sound, power handshake, handoff, sleep | five tasks of the firmware |
| rail power and sleep | `peripheral_power.cpp`, `power_policy.cpp`, `peripheral_power_lease.cpp` | hold marks, deadlines | hold, release, evaluate, quiesce, sleep | audio, lights |
| keyboard reports | `held_keyboard_state.cpp`, `hid_report_queue.cpp`, `keyboard_snapshot_delivery.cpp`, `transport_routing.cpp`, `app_main.cpp` | pressed keys, snapshot wanted and accepted, latch of a chord, reports waiting per transport | press, release, hotkey, text, flush, reset on a lost lifetime | main loop, both transports |
| keyboard transports | `usb_hid.cpp`, `ble_hid.cpp` | presence of the cable, epoch of the endpoint; owner, recovery | mount, unmount, poll, send, give up, terminate a link | TinyUSB, NimBLE, main loop |
| vendored HID profile | `components/esp_hid/src/nimble_hidd.c` | connections, the owner and its generation, protocol mode | connect, subscribe, disconnect, terminate, host reset, checked input | NimBLE task, Bluetooth transport |
| sound store | `sound_asset_store.cpp`, `esp_sound_bank_storage.cpp` | two Flash banks; in RAM the selection, the open update, read leases | scan, begin, resume, recover, write, commit, abort, query, lease, release | store worker |
| store worker | `speaker_assets_flash_runner.cpp`, boot job of `speaker_assets_supervisor.cpp`, start of `app_main.cpp` | the exchange (job, phase, permit), priority word with its epoch, boot-read state | accept, request and grant one Flash unit, complete; prepare and release the boot sound | platform task, sound store, speaker |
| sound transfer | `speaker_assets_runtime.cpp`, `speaker_assets_session.cpp`, `speaker_assets_supervisor.cpp`, `speaker_assets_wifi.cpp`, `usb_hid.cpp` | mailbox with one admission; routes, queues and timers of the core; session with its replay memory; the carrier's slots | open and close a route, admit a frame, assemble a plan or unit, act on the store, answer, expire | App over USB or Wi-Fi, store worker |
| voice capture | `keyboard_audio.cpp`, `lan_voice.rs` CaptureAssembler | packet queue; frames of the active captures, retired sessions | send frame, end, assemble, fill a gap, expire | UDP, ASR worker |
| bindings | `bindings.rs`, `store.rs` | slot → task with a generation | compare and set, resolve | control socket, prompt queue |
| Host control | `health.rs`, `main.rs` | last mailbox status, client reservations | one turn of the serve loop | all Host parts |
| rollout observer | `rollout_observer.rs` | position and identity of every rollout file | scan, tail, commit completions with the position | ledger |
| speech clients | `dashscope.rs`, `audio.rs` | one connection per call | transcribe, synthesise | external service |
| summary text runner | `spark_runner.rs` | one process per call | run with limits | summary worker |
| Codex catalogue | `codex_catalog.rs` | none | read | bindings |
| secrets, provisioning, launch agent, scripts | `secrets.rs`, `provisioning.rs`, `launch_agent.rs`, `scripts/` | files | set up, start again | operating system |
| desktop application | `app/desktop` | none | show, send control requests | control socket |
| configuration, lights, battery, keys, encoder | `config_*.cpp`, `led_strip_status.cpp`, `battery_*.cpp`, `gpio_keys.cpp`, `encoder.cpp` | small | — | main loop |

### 1.2 What is hard, and what makes each part correct

* **Ledger.** Three threads and a second process write one database, and every transaction may be
  the last before a crash. Correct means: a completion that was folded into a summary is heard or
  still in the summary the mailbox shows; every playable summary has its object; no claim and no
  lease outlives whoever would end it; everything pending is eventually summarised.
* **LAN playback.** Messages are lost, repeated and overtaken, keys preempt, both ends restart, and
  two threads of the Host exchange events and commands that cross. Correct means: *heard* implies
  played to the last sample; the device forgets only what the Host has recorded; the two device
  objects agree; leases and requests correspond and end.
* **Audio arbitration.** Lock-free words are read and written by five tasks, and the waits form a
  chain through the main loop. Correct means: the two directions of the port exclude each other
  including the time their clocks take to stop; nothing runs without power or in deep sleep; nobody
  waits for ever.
* **Prompt queue.** At-least-once execution across stops with results in flight. Correct means: one
  process per task, first in, first out per task, replays accepted once, every prompt ends.
* **Sound store.** Power may go, or Flash may report a failure that took effect, at any sector.
  Correct means: exactly one bundle is active, it is only ever replaced as a whole, and the one that
  is being played is not touched.
* **Store worker.** Two tasks hand jobs and permits to each other over one slot and one semaphore,
  and a key may take a permit away at any time. Correct means: no Flash unit starts against input,
  no job is lost or done twice, an update never overtakes the boot sound, and all work ends.
* **Sound transfer.** Callbacks of two transports and a platform task share one admission; a route
  may close with its request anywhere between mailbox, store and answer, and the App may fall silent.
  Correct means: the admission is never lost, an answer belongs to who asked and reports what was
  done, the store never reads memory that changes, and everything is given back.
* **Keyboard reports.** The main loop samples a lifetime, queues and sends in three steps; three
  other tasks change the lifetime in between. Correct means: what a host believes to be pressed
  becomes what is pressed, no key stays down, and nothing pressed before a host was there reaches it.
* **Voice capture** (planned): a recording reaches speech recognition whole, or with only the gaps
  the network made, or not at all.

The hazards are listed one by one, at their lines, in `PROJECT.json`.

## 2. Modules

| module | what it is |
|---|---|
| `SummaryLedger` | ledger, summary worker, serve loop's playback side, cache, cleanup script, crashes |
| `Mailbox` | abstract: pending → unread → heard per completion; implemented by `SummaryLedger` |
| `SummaryLedgerProofs` | proofs, the refinement among them |
| `LanPlayback` | device, UDP, LAN thread, serve loop |
| `Listening` | abstract: leased, drained, heard; implemented by `LanPlayback` |
| `LanPlaybackProofs` | proofs, the refinement among them |
| `AudioIo` | main loop, control task, stream worker, speaker worker, arbiter access by access |
| `AudioIoProofs` | proofs of all its safety properties |
| `PromptQueue` | ASR worker, serve loop, scheduler, Codex workers, stops |
| `TaskFifo` | abstract: a queue per task, one answer at a time; implemented by `PromptQueue` |
| `PromptQueueProofs` | proofs, the refinement among them |
| `SoundBanks` | the store's operations on its two banks, Flash failures, power loss |
| `ActiveBundle` | abstract: one bundle, replaced as a whole; implemented by `SoundBanks` |
| `SoundBanksProofs` | proofs, the refinement among them |
| `StoreRunner` | store worker, platform task, boot sound, input priority |
| `StoreRunnerProofs` | proofs |
| `SpeakerMailbox`, `SpeakerSession` | the mailbox and the session of the sound transfer, as functions from a state to a state |
| `SpeakerSync` | the two put together with the protocol core, the platform task, the Wi-Fi carrier and the USB endpoint |
| `SpeakerSyncProofs` | proofs: types and bounds, the admission, answers and store jobs |
| `HidQueues` | report queue, snapshot delivery, latch: pure operators |
| `KeyboardDelivery` | main task, TinyUSB task, NimBLE task, event-loop task, the two hosts |
| `KeyboardDeliveryProofs` | proofs: types and bounds, no stale input, no stuck key |
| `MC*` | model values, definitions, scenes and symmetry for TLC |

The modules meet where one takes the other's promise as its own input:

* `LanPlayback` treats the ledger as a set of leases, and what it does with them (take one, drop the
  one before, finish, release all) is what `SummaryLedger`'s player does with its table.
* `AudioIo` gives `LanPlayback` a speaker that reports success only for a sound played to its end
  (part of `RecordsAreTrue`), which is what `PollDrained` relies on. The one exception is a sound cut
  by a talk that nobody sees any more (section 4.2).
* `PromptQueue` shares the serve loop and bindings with these but no variable either of them changes.
* `StoreRunner`'s Flash unit is a step of a `SoundBanks` operation, and its read lease of the boot
  sound is a lease of `SoundBanks`: there it keeps the leased bundle intact, here the release waits
  for the sound's end.
* `SpeakerSync` sees the store as a job that runs and ends (`StoreWorks`), which `WorkFinishes` of
  `StoreRunner` justifies, and takes from its boot phase only that no core step runs in it.
* The keyboard reports share with the sound transfer the endpoint lifetime of `usb_hid.cpp`; each
  module has its own copy of that part, without the other's traffic.

### 2.1 SummaryLedger

One action is one SQLite transaction, or one step that changes state outside the database.
`summary[t][g]` is the row of generation `g`; its state is the column `state`, and "leased" a row
with a lease. `worker.pc` follows `SummaryOrchestrator::run_ready`: `scan` → resume or `claim` →
(`recover`) → `previous` → `generate` → `begin` → `synthesize` → `store` → `publish`, with `abandon`
from every step that fails. `player.pc` follows the serve loop while it handles one playback event:
dropping the playback before (`replace`), loading the object (`load`), and cleaning up after a heard
summary (`reconcile`). `GateFree` is the cache's operation gate: a publication holds it from storing
the object to the commit in the ledger. `OpenStore` is everything `StateStore::open` and the start
of the service repair. `CleanStale` is the cleanup script.

### 2.2 LanPlayback

`dev` and `slots` are the device's two state machines, `lan` the Host's transfer, `active` and
`leased` the serve loop's map and the store's table; `events` and `commands` are the channels between
the Host's two threads. Messages stay in the set `net` until they are received, so any of them may
arrive late, twice or never. A lease id stands for the whole playback identity; identities and
request generations are fresh also after a reboot of the device, which seeds its counters with
`esp_random`. `drained`, `forgotten` and `requestOf` are history.

Assumed: the store's cancellation of a lease succeeds, and a resend leaves the socket.

### 2.3 AudioIo

`arbiter` holds the five atomics of `AudioIoArbiter`; an operation that another task can observe
half-way is split at each load and store. `main.pc` is the position of the main loop within one
turn, in the order of `app_main`. `lock` is the audio link's mutex where `start_stream` calls the
arbiter while holding it; its other critical sections are single actions. `worker.stage` is the
speaker worker's place in `play_sound`. It asks `cancelled` anew at every place where the code does:
before each frame (`PlayFrames`), after the loop (`CheckCancelled`), before each frame of the tail
silence (`DrainSilence`) and once the clock has stopped (`Judge`). What it reads there may have
changed in between, and a talk request that is over leaves no trace. `worker.whole` says that the
loop ended with the stream; `played` and `missed` are history: the sounds played to the end of the
tail silence, and those cut by a talk that ended before the worker asked again.

Not modelled: creation and deletion of the speaker's worker, recovery of a failing microphone
channel inside a capture, and a failing `i2s_channel_disable`.

### 2.4 PromptQueue

`jobs` is the table in the order of its key, `workers`, `results` and `codex` the scheduler's map,
its channel and the processes. `loop` is the position of the serve loop: prompts and control
requests (`serve`), then the two loops of `DurablePromptScheduler::tick` (`results`, `claim`).
`HostStops` is a crash, a stop on request and a turn that fails on the store alike: what survives is
the same. That no process survives a stop is what the code arranges: `ChildGuard` kills the process
group, and `PR_SET_PDEATHSIG` on Linux or the supervisor on macOS act when nobody is left to do so
(`codex_runner.rs:204`). The capture and its recognition are one action, whose result is a prompt or
nothing.

A prompt may be dropped before it is accepted: by a failing catalogue, an unbound slot, or a full
task queue. The properties are about accepted prompts. `evidence/m3/durable-runner.md` still speaks
of two running jobs; the code has `MAX_GLOBAL_RUNNING_JOBS = 4`, and the model takes it as a constant.

### 2.5 SoundBanks

`flash[b]` is a bank as a reader finds it: the staging header (the plan, whose magic is written
last), the units (manifest and payload blocks) and the commit sector. The other variables are what
`SoundAssetStore` keeps in RAM: `scanned` and `selection` (the result of the strict scan), `fast`
(what readers are given without a scan), `update` with `complete` (the open transaction and its
verified units), `lease` (eight slots in the code). There is one action per public operation:
`Scan`, `BeginNew`, `BeginStaged`, `ResumeUpdate`, `DiscardInvalidStaging`, `WriteManifest`,
`WritePayloadBlock`, `CommitUpdate`, `AbortUpdate`, `AcquireActiveRead`, `ReleaseRead`,
`QueryCurrentActive`; the query of an outcome is the operator `Outcome`.

Each Flash operation inside them has the outcomes the driver allows: refused, interrupted half way
(the sector is `Torn`), complete, and complete but reported as failed; and a power loss in the place
of each report. A boot forgets the RAM and keeps the Flash. A commit marks every block it finds
verified (`Marked`), also one that is refused later (`CommitRefused`), so a block that is sent again
after it is only compared. `Careful` says how the client treats an error: it commits only once its
manifest is acknowledged, for the commit does not mark the manifest (section 4.2). No client is in
the repository. A plan names the bundle it replaces, so with the bank it determines the transaction
id, which the code computes as a hash of the same fields.

### 2.6 StoreRunner

`xch` is the exchange under the runner's mutex (phase, kind, job, unit, requested and granted
epoch), `prio` the atomic word the worker reads without it, `wake` the semaphore, `worker` the
worker's stack: from picking up a job through each unit's request, wait, check and claim. `stage` is
the part of the loop the platform task is in, in the order of the code: the startup phases of
`service_speaker` (`resolve`, `begin`, `finish`), `publish` of the priority, `bootjob`
(`advance_boot_read_job`), `core` (`run_core_steps`). `boot`, `bootJob` and `release` are the
supervisor's boot-read state, `startup`, `skip`, `started` and `lease` those of `app_main`.

What a unit does is in SoundBanks. A unit here is only a step that has to be permitted, so a job is
the number of its units. The release of the boot lease succeeds: `release_read` refuses only a lease
the store does not hold (`sound_asset_store.cpp:2103`), and the supervisor releases the one it took.

### 2.7 SpeakerMailbox, SpeakerSession, SpeakerSync

`SpeakerMailbox` is `SpeakerAssetsRuntimeMailbox`: a queue of frames and route changes, a side queue
of closes, one admission, and the sticky "revoke everything" when the closes overflow; its operations
are functions because each is one critical section. `SpeakerSession` is `SpeakerAssetsSession`:
phases, plan and unit assembly, the pending store action, the replay memory, each frame's handling a
function from a session to a session and an emission.

`SpeakerSync` gives them their tasks. `sup.pc` is the position of the platform task: `send` (the
endpoint's poll), `epoch` and `observe` (the USB lifetime is read before the mailbox is locked, and
two actions), `retire`, `import`, `core` (at most `CoreSteps` steps a turn), `offer`. A core step is
one of `ProcessLifecycle`, `ExpirePartials`, `AwaitAction`, `CompleteAction`, `ExpireSessionLease`,
`DropIncoming`, `AnswerPaused`, `ConsumeFrame`, in the order the code tries them. `wifi.pc` is the
carrier task from the accepted connection to the four critical sections of its cleanup. `Mount`,
`Unmount`, `UsbFrameArrives` and `WifiFrameArrives` are the callbacks. The App sends frames of the
operations its scene names, any fragment at any time, repeated or missing.

A timer is one bit: the deadline has passed. `exec.done` and `exec.bytes` are history: everything
the store carried out, and what a running job was given to read.

### 2.8 HidQueues, KeyboardDelivery

`HidQueues` has the report queue with its coalescing (a report equal to the newest one is not queued
again) and its reserve (presses leave room for every source's release), the snapshot delivery, and
the latch that binds a chord to one lifetime of one transport.

`app` is the main task's state. A call that samples, queues and transmits is three actions
(`app.pc`), because the other tasks may change a lifetime in between. `usb` is the transport with
TinyUSB's two flags, `ble` the Bluetooth transport with its recovery phase, `adapter` the vendored
profile's connections, `helper` the event-loop task that adopts an owner in one step and asks for
the reset in the next. `hosts[t]` is what a host has received and takes for pressed. The operations
of the main loop may run in any order, which covers the order of the code; each runs again and again.

Four parts of `env` are history: `env.born[i]` has the lifetimes that were alive when input `i` was
pressed, `env.behind` the hotkeys that were pressed while their source's former one was still waiting
to be released at its host, `env.shared` those that were pressed while another source had the
same one, and `env.late` the owners of the keyboard for whom a queued report was cleared by an
adoption that came late (finding 3). The rest of `env` is what the scene still allows.

The event-loop task is pinned to no core (`nimble_hidd.c:1639`), so its adoption of an owner is three
actions (`EventRead`, `EventAdopt`, `EventFlag`) between any two of the others. The same function run
by the NimBLE host task is part of one action with its event, since that task shares core 0 with the
main task and has the higher priority.

## 3. Properties

*Refinements.* `ImplementsMailbox`, `ImplementsListening`, `ImplementsTaskFifo` and
`ReplacedAtomically` (of `ActiveBundle`) state that every behaviour of the detailed module is, under
a mapping, one of the abstract module. They are the strongest properties here: for instance, that
what a finished playback marks as heard is exactly what the mailbox held when it was leased, that a
prompt is tried again only after a stop, or that whatever fails in whatever sector, the only thing
that happens to the device's sounds is that the next generation replaces them at once.

*Safety*, beside one type invariant per module:

| property | says |
|---|---|
| `NoCompletionLost` | a completion folded into a generation is heard or in the summary the mailbox shows |
| `RowsAreTrue` | the current unread row can be played, a leased row has a lease somebody drives, a claim has a worker on it |
| `RetainedObjectsExist` | every generation that can still be played has its object |
| `PlaybacksAreEarned` | heard only after the last sample; the device forgets only what the Host recorded; one press, one lease |
| `DeviceIsConsistent` | the slots' state follows the transfer's; while the user talks nothing is requested or received |
| `MicrophoneAlone`, `ClockIsReserved` | the two I2S directions never overlap, and ownership outlives the clock |
| `PowerIsSafe` | nobody runs without the rail, and sleep finds silence |
| `RecordsAreTrue` | samples flow only under the session that owns them; only a sound played to the end of its tail silence counts as a success (but for one cut by a talk nobody sees any more, section 4.2) |
| `TaskRunsAlone` | one process per task, never more than the limit, each with its row |
| `LeasedBundleIntact` | a leased bundle stays readable to its last byte |
| `OutcomeIsTruthful` | *committed* is durable, *unknown* is not said of a bundle in place |
| `StagingIsKept` | an upload that can be continued goes away only by its own abort or a newer bundle |
| `NoUnitAgainstInput` | a Flash unit starts only under a permit of the current epoch, for that unit, with input quiet |
| `JobHasOneOwner` | worker, exchange, core and boot job agree on the one job there is |
| `UpdateNeverOvertakesPlayback` | no protocol job while the boot sound's lease is held; it is held while the sound plays |
| `AdmissionHeld` | the one admission's request is in the mailbox, the core, the store or an answer |
| `AnswersAreEarned` | an answer's route is open, and success is said of what was carried out for that very request |
| `StoreJobsAreSound` | the store reads memory that does not change under it; a repeated request is not carried out twice |
| `NoStuckKey` | what a host will take for pressed is what the keyboard counts as delivered to it, nothing for another lifetime (but for a hotkey of two keys, section 4.2, and an owner the late reset hit, finding 3) |
| `NoStaleInput` | no host sees an input that was made before it was there (but for a hotkey behind another, section 4.2) |

*Liveness.* `EventuallySummarised`; `PlaybackEnds` (leases end, the device returns);
`AudioProceeds` (sounds end, a waiting talk is served); `EveryJobEnds`; `WorkFinishes` (the exchange
becomes idle, and the keyboard starts with its boot lease given back, once input is quiet);
`EverythingIsReleased` (admission and session are given back when the App falls silent);
`HostFollows` (once keys, cable and radio are quiet, every host shows the chord it owns as it is
held, again but for an owner the late reset hit).

Every property of a passing run is paired in `PROJECT.json` with a mutation of a definition that
models code, each a plausible slip, under which TLC finds the property violated. The mutants are
operators of the modules, placed before the definition they replace and marked as mutants.

## 4. Runs

| run | question | bounds | states | result |
|---|---|---|---|---|
| `ledger` | all ledger properties, refinement and liveness, with crash and cleanup script | 1 task, 1 slot, 2 completions, batch 1, 3 generations, 2 leases, 1 crash | 70 thousand | holds |
| `ledger_zombie_claim` | does every failure give the claim back? | the same, 1 lease, no cleanup script | — | **violated** |
| `playback` | safety and refinement | 2 symmetric slots, 3 chunks, window 2, prebuffer 2, 1 retry, 2 requests and leases, 1 crash, 1 device error, 2 datagrams in flight | 4.5 million | holds |
| `playback_live` | leases end, the device returns | 1 slot, 1 chunk, 1 request, 1 crash, 1 error | 71 thousand | holds |
| `audio_exclusion` | audio safety and liveness | 1 talk id started twice, 1 sound, 1 deep sleep | 1.0 million | holds |
| `prompt_queue` | one process per task, refinement, every job ends | 2 tasks, 1 slot, 3 utterances, 2 places, 2 waiting, 1 rebinding, 1 stop | 0.5 million | holds |
| `sound_banks` | the banks implement one bundle | 2 contents, manifest and 1 block, 2 leases, 3 generations, 1 decayed unit; symmetric | 42 thousand | holds |
| `store_runner` | permits, ownership of jobs, everything ends | 1 unit a job, 2 actions, 3 changes of input | 0.3 million | holds |
| `speaker_sync` | admission, answers, store jobs, release | seven scenes; queues of 2, 1 close, 3 lifecycle entries, 2 routes, 2 replies, 2 core steps a turn | 1.0 million | holds |
| `speaker_sync_slot` | does a finished connection leave the carrier clean? | 1 connection, 1 request | — | **violated** |
| `keyboard_delivery` | the hosts' view, stale input, convergence | sixteen scenes; two bridged sources, queue of 5, 2 inputs, rollover 1, texts of 2 pieces, 2 handles | 0.7 million | holds |
| `keyboard_late_reset` | are reports cleared before any report for the new owner is accepted? | 1 key, 1 press, 1 link, the event-loop task | — | **violated** |

*Scenes.* In `SpeakerSync` and `KeyboardDelivery` the environment can do so many things that all of
them together are out of reach. A scene bounds it: how often each thing may happen in one behaviour.
The initial state chooses one, and within a scene everything interleaves. The scenes are listed with
their purpose in `MCSpeakerSync` and `MCKeyboardDelivery`. Each pairs the disturbances that share
state in the code: a cable pulled with a chord held, a failing send with a host reset, both
transports with one admission, voice with an upload, routes with the boot sound.

*Why the bounds suffice for what they are meant to show.* The ledger's hard cases need a second
completion that arrives while the first is being summarised, a third generation so that a claim can
be invalidated and made again, and a second lease so that an old one can end late. Playback needs
three chunks so that one window is not the whole object, and two playbacks so that messages of the
one can reach the other. A talk started twice meets the remains of its own first start, and of the
sound before. Two tasks behind one rebound slot make a finished worker's place matter. Three
generations of sounds let each bank be overwritten, and two leases pin two of them. Three changes of
input take a permit away and give it back between its grant and its use, once more after that. The
transfer's queues are at their smallest, so that each is full and overflows within a scene; two
lifetimes of a route let a late frame or answer meet its successor. The report queue has one place
more than the least the code's argument needs (two per source), and the chords fill it. `MaxQueue`
in `LanPlayback` guards only the reception of messages that add an event. Bounds on rebindings,
stops, errors and crashes limit how often a disturbance happens, not when.

*Deadlock.* It is checked in the audio, prompt queue and store runner runs. In the others a
behaviour legitimately ends when the bounded keys, frames, completions, leases or generations are
used up, so their configurations switch the check off; where that could hide a wait for ever, the
liveness property asks for it.

*Fairness.* Ledger: the worker thread takes its next step (weak fairness per step), and the external
services answer with a success if they are asked again and again (strong fairness; after a failure
the worker comes back with a backoff of at most ten minutes, or one hour for a task marked for manual
attention). Playback: both device timers, the Host's resend timer, its two threads and the speaker
make progress; the network owes nothing. Audio: every task of the firmware is scheduled; nobody is
owed a key press, and the 750 ms timeout of a waiting talk is not assumed to fire, so `AudioProceeds`
shows that the wait ends without it. Prompt queue: the serve loop runs, a Codex process ends by
itself or by its fifteen minutes, and the service manager starts the Host again
(`scripts/wsl/install-service.sh`, `Restart=always`). Store runner: the platform task and the worker
are scheduled and a sound ends; input may come and go, and `WorkFinishes` supposes only that it ends
in quiet. Sound transfer: the platform task is scheduled, a store job and the boot read end, the two
timers run out, talking ends, and the carrier task goes on, if need be by its own watchdog; a host
that stays connected takes the reply its endpoint is offered (strong fairness, as a poll in between
disables it). Nothing is owed by the App. Keyboard: each operation of the main loop is made again and
again (strong fairness, as a callback may disable one for a moment), a call that began continues, the
NimBLE task runs, and an endpoint that is offered reports again and again takes them.

*What the liveness properties leave out.* `EventuallySummarised` excuses a task that has been
unbound, a claim nobody but an operator can end (the first finding), and the end of the bounded
generations. `PlaybackEnds` asks for the device's return in behaviours in which the talk key is
eventually left alone: each press restarts a running cancellation. `EverythingIsReleased` excuses a
route that is *struck off* (section 4.2).

### 4.1 Findings

1. **A claim that can be neither resumed nor released** (`ledger_zombie_claim`). The Host crashes
   with a claim that replaces an unread summary, and that summary is heard before the claim is
   resumed. `resume_interrupted_summary` (`store.rs:1004`) then refuses the claim every time, and the
   orchestrator returns the error without abandoning it. The task is not summarised again until an
   operator or `tools/clean_interrupted.py` ends the claim. `docs/04-总结与踩坑.md:88` and
   `README.md:91` say that every failure path releases the lock.
2. **The answer of a dead connection** (`speaker_sync_slot`). The carrier's cleanup empties its
   response slot (`speaker_assets_wifi.cpp:833`) and ends its route in the next critical section. In
   between the platform task may put an answer there. The slot's guard compares routes, so nobody
   ever empties it, and the next connection is announced as ready although none of its requests can
   be answered. `host_test/firmware_source_contract_tests.cpp:1162` asserts this order; the comment at
   `speaker_assets_wifi.cpp:538` promises that stale state is never advertised as usable.
3. **A reset that comes late** (`keyboard_late_reset`). `sync_hid_owner` adopts an owner in its
   critical section and asks for the reset of the queues after it (`ble_hid.cpp:720`). When the
   event-loop task is the one that does so, the main task can queue a press between the two, and the
   reset then discards a report that was accepted and counts as delivered: the host never sees the
   key go down. TLC shows it in ten states (Connect, Subscribe, EventRead, EventAdopt, Press,
   SendKeys, EventFlag, PollBle). The comment at `ble_hid.cpp:717` says that reports of the previous
   host are cleared before any report for the new owner is accepted. `env.late` names the owners this
   happens to; `NoStuckKey` and `HostFollows` except them and nothing else. Five of the Bluetooth
   scenes of `keyboard_delivery` press keys and hotkeys with the event-loop task at work; in the
   other three faults, texts or both hosts fill the state space without it.

### 4.2 Observations

Six things met on the way have no run of their own.

* *The transfer is not stop-and-wait.* `docs/协议草案.md:35` says that the next offset is sent only
  after the one before is acknowledged; `send_next_data` (`lan_voice.rs:848`) sends a window of six
  chunks. The playback properties hold with the window.
* *A truncated sound that counts as played.* The worker's `cancelled` reads `microphone_requested()`
  (`speaker_output.cpp:1855`), which is true only while the talk lasts, and asks it at the head of its
  loop (line 1294) and again after it (line 1189). A talk that the control task starts cuts the loop.
  If the worker is preempted there, the talk is stopped or gives up while it still waits for the
  speaker, and the main loop, whose `poll` would have cancelled the sound for good, did not come
  round, then the second look finds nothing: the worker goes on with the tail silence and reports a
  success. `missed` names these sounds, and `RecordsAreTrue` excepts them.
  `firmware/README.md:30` says that EIPF is sent only after the last I2S frame and the tail silence
  were really completed.
* *A manifest sent again after a commit.* The marker of a commit may be in Flash although the commit
  reported an error. `commit_update` has marked every block by then, so `write_payload_block` only
  compares one that is sent again. The manifest is marked by `write_manifest` alone: if its write was
  answered with an error and the client commits all the same, `write_manifest` erases the manifest of
  the bundle that is active by now (`sound_asset_store.cpp:1786`), and a power loss leaves no valid
  bundle. The comment at line 1983 calls the marker the point of no return, and `abort_update`
  respects it. `Careful` excludes such a client.
* *A hotkey behind another.* A source's hotkey is let go while the queue of its transport is full, so
  its release waits, and after a change of the bindings the source is pressed for another hotkey. When
  the release is accepted, `flush_pending_bridged_hotkey_event` (`app_main.cpp:1435`) frees the latch
  (`commit_snapshot(released)`, line 1489) although the press is still to come, and the press then takes
  the endpoint of the next sample. If USB mounts before that flush, the press, made before the mount,
  is replayed into it. The comments at `app_main.cpp:1266` and `transport_routing.h:151` say that no
  stale transition is replayed into a fresh endpoint; they are about the reset after a lost lifetime,
  which does hold to it. A scene with four presses of two hotkeys, one mount and one link shows it in
  34 steps. `env.behind` names these hotkeys, and `NoStaleInput` excepts them and nothing else. It was
  the proof that brought it up: the case has more steps than the scenes of the run allow.
* *Two keys with one hotkey.* Every source has its own `BridgedHotkeyDelivery`, but the command names
  the hotkey and not the key (`send_hotkey_app_command`, `usb_hid.cpp:1281`). With two keys bound to
  one hotkey and both held, letting go of one sends a release while the other is down, and a host that
  takes commands as they come has the hotkey up. Ordinary keys do not have this, for their snapshot is
  composed from all that are held. `env.shared` names these hotkeys; `NoStuckKey` and `HostFollows`
  let them be up too early, and still require that they are not left down. This, too, came up in a
  proof: before it the scenes had one bridged source only, and now one has two.
* *A route that is struck off.* The platform task reads the USB lifetime before it locks the mailbox
  (`observe_usb_route`, `speaker_assets_supervisor.cpp:552`). If the cable is pulled and plugged in
  between the two, the mailbox is told of the old lifetime again; the core has closed that one for
  good, but frames are taken for it until the next lifetime. `StruckOff` names these routes, and
  `AdmissionHeld` and `EverythingIsReleased` except them.

## 5. Proofs

All proofs are for every value of the constants that satisfies the modules' assumptions, which only
say that `None` is not a task, slot, session, content or transaction, that 0 is not a connection
handle, no hotkey is empty (`config_payload.cpp:553`) and no source has the name of a step of the
main task (`NamesDiffer`), and that the bounds are
natural numbers (limits of the queue and batch sizes positive; a report queue with room for a press
and a release of every source, as `hid_report_queue.h` has it). The theorems of `SoundBanksProofs` have one
hypothesis more, `Careful`: the client commits only once its manifest is acknowledged; section 4.2
says what one that does not can do. Those of `SpeakerSyncProofs` have
`BootIsQuiet`: a scene in which the transports are up before the boot sound has been read sends no
more frames than ingress holds (20 in the code). Until then the core takes no steps, so with more
lifetimes than that in these few seconds, each with a frame of its own, a frame would find no room,
be dropped, and leave the admission reserved without a request. After the boot read no such limit is
needed, and that is the larger part of the proof.

| theorem | states | argument |
|---|---|---|
| `SummaryLedgerProofs!TypeCorrect` | `[]TypeOK` | needs that the worker is on a claim of some task past `scan` and that a lease id is left while one is being taken |
| `SummaryLedgerProofs!CompletionsAreKept` | `[]NoCompletionLost` | inductive once it is known that a completion not observed yet has no generation, and that the row a claim will publish has not been superseded: publication then moves everything the superseded row covered to a row that can be played |
| `SummaryLedgerProofs!PlayableObjectsAreKept` | `[]RetainedObjectsExist` | the worker holds the gate from storing to publishing, and its object is in the cache for all that time |
| `SummaryLedgerProofs!RowsTrue` | `[]RowsAreTrue` | the first pending completion of a task makes a claim's batch nonempty, and the next claim starts after it; at most one lease, because the serve loop empties its map before it takes one, and the lease it took is the one its map or its position names |
| `SummaryLedgerProofs!LedgerImplementsMailbox` | `ImplementsMailbox` | refinement, see below |
| `LanPlaybackProofs!TypeCorrect` | `[]TypeOK` | as a part of the invariant below |
| `LanPlaybackProofs!PlaybacksEarned` | `[]PlaybacksAreEarned` | follows the evidence: whatever speaks of a lease (datagram, event, command, either thread) speaks of one that was taken, whatever says *finished* of one that was drained, and an acknowledgement of one that is heard; while the Host has not restarted, each request accepted is at or below the floor of its slot, so it is accepted once |
| `LanPlaybackProofs!KeysFollowDevice` | `[]DeviceIsConsistent` | inductive with the phases of the transfer |
| `LanPlaybackProofs!ImplementsPromise` | `ImplementsListening` | refinement: what the store has leased is the serve loop's one unheard playback, so a finish that arrives is of the lease that holds or of one that is heard already |
| `AudioIoProofs!TypeCorrect` | `[]TypeOK` | as a part of the invariant below |
| `AudioIoProofs!SpeakerReserved` | `[]ClockIsReserved` | follows one sound from reservation to handoff: while its worker, its request or its unhanded completion exists, the arbiter names it |
| `AudioIoProofs!MicrophoneExcludesSpeaker` | `[]MicrophoneAlone` | adds the talk session: at most one task is past the session's start, and from the moment the arbiter names the microphone a speaker that is admitted is one `Recheck` is about to undo |
| `AudioIoProofs!RailIsSafe` | `[]PowerIsSafe` | adds the gate and the rail: the gate counts who is inside, so behind a closed gate no owner appears; *ready* for a generation means the audio hold is taken, and it is dropped only with both directions silent |
| `AudioIoProofs!RecordsTrue` | `[]RecordsAreTrue` | adds the records: session, task, stream worker and arbiter name one generation, never seen before; a success is the result of a worker that played to the end, or of one whose loop was cut (`CutShort`) while the talk that cut it was released, which is when the sound enters `missed` |
| `PromptQueueProofs!TypeCorrect` | `[]TypeOK` | a job's row exists before any actor names the job |
| `PromptQueueProofs!OneProcessPerTask` | `[]TaskRunsAlone` | a result still in the channel belongs to a job that is over, so marking it never ends the row of a process that runs; a Host that is down has no process and no result |
| `PromptQueueProofs!QueueImplementsFifo` | `ImplementsTaskFifo` | refinement, see below |
| `StoreRunnerProofs!TypeCorrect` | `[]TypeOK` | the shape of each record is a named set, and each action keeps each part |
| `StoreRunnerProofs!OneOwner` | `[]JobHasOneOwner` | says for each place of the worker what the exchange holds, and for each finished job which kind of result it has |
| `StoreRunnerProofs!UpdatesWait` | `[]UpdateNeverOvertakesPlayback` | adds, for each state of the boot read, whether the store holds the lease |
| `StoreRunnerProofs!UnitsRespectInput` | `NoUnitAgainstInput` | `ClaimUnit` is the only step that starts a unit, and it compares input, epoch and permit in one critical section |
| `SpeakerSyncProofs!TypeCorrect` | `[]TypeOK` | as a part of the invariant below; the session's phase and the core's pending action change together |
| `SpeakerSyncProofs!AdmissionIsHeld` | `[]AdmissionHeld` | answered and waiting requests have different leases, so a release by exact lease strikes only its own; a request whose admission was revoked waits in ingress no longer than its route's close, which is ahead of every later frame, so that frame finds room |
| `SpeakerSyncProofs!AnswersEarned` | `[]AnswersAreEarned` | what the queue and the replay memory report as a success was carried out; a pending action that is not orphaned has an active route, so its answer goes to one |
| `SpeakerSyncProofs!StoreJobsSound` | `[]StoreJobsAreSound` | cookies are handed out once and the App's requests arrive in order, so what was done for the open session is still remembered when it is asked for again, or cannot be asked for any more; a session with a pending action keeps the bytes it lent |
| `KeyboardDeliveryProofs!TypeCorrect` | `[]TypeOK` | as a part of the invariant below |
| `KeyboardDeliveryProofs!InputsAreFresh` | `[]NoStaleInput` | whatever names a lifetime (a queued report, an operation of a text, a latch) names one that is not of the future and that, if alive, was alive when its inputs were pressed; lifetimes that begin are new, so time only makes this easier |
| `KeyboardDeliveryProofs!NoKeyStuck` | `[]NoStuckKey` | the last report a queue has for a lifetime decides what its host will take for pressed, and it is what the keyboard counts as delivered; a lifetime that is not adopted yet is in no report, latch or view, so nothing is lost when the queues are cleared for it |
| `SoundBanksProofs!TypeCorrect` | `[]TypeOK` | as a part of the invariant below |
| `SoundBanksProofs!LeasesHold` | `[]LeasedBundleIntact` | every lease is in what a scan finds outside the bank of the open update; an update begins only in a bank no lease pins |
| `SoundBanksProofs!OutcomesAreTrue` | `[]OutcomeIsTruthful` | whatever RAM knows agrees with what a scan finds outside that bank; a marker in that bank is the open update's own, and then all its units have been confirmed |
| `SoundBanksProofs!BanksImplementBundle` | `ReplacedAtomically` | refinement: an erase hits the bank that is not active, a unit is written only while its bank has no marker, and the marker of an update built on the active bundle makes it the active one |
| `SoundBanksProofs!StagingSurvives` | `StagingIsKept` | a staging header, the marker beside it and the open update of its bank name one transaction; of two banks without a conflict the active one has the later generation, so what a new update erases is out of date |

Each proof file states its inductive invariant as named parts, proves that `Init` implies it and that
each action keeps it, one step per action, and ends in temporal theorems of a few lines.

All five abstract specifications are refined by proof, in one way: the mapping is written in the
detailed module, a lemma says in a few cases what any step may do to the state the mapping reads, and
each case is shown to be one abstract step or none.

* *Mailbox.* `StepRows` says that a step publishes a claim, makes one, or keeps every row. The four
  sets of a task (pending, unread, playing, heard) are what its rows cover. Publishing is
  `Summarise`, taking a lease `Play`, finishing it `Hear`, a commit of the observer `Observe`. All else
  is quiet, also the late finish of a superseded row, since nothing is covered by it any more.
* *Listening.* The steps of the network, the device and the LAN thread leave the mapped variables
  alone but for the one that drains; the serve loop takes, hears and drops.
* *TaskFifo.* `TableStep`: a row is appended, claimed, ended, or all running rows are recovered. The
  queue of a task lists its pending rows by rank (`Nth`). An appended row has the largest rank; a row
  that ends the least, because a running job is the first pending one of its task (`RunningFirst`); a
  claim and a recovery leave the pending rows alone.
* *ActiveBundle* is in the table.

In `SpeakerSyncProofs` the invariant `SyncOk` has the scene's bounds as parameters, and every operator
of the mailbox, the session and the core that is a function from a state to a state has a lemma of
its own. The actions then fall into three kinds, `RouteStep`, `FrameStep` and `CoreMove`, each shown
once to keep what the invariant says of the leases. What a purge leaves of a queue is `Kept`, whose
lemmas (`PurgeKeeps`, `KeptPart`) give its elements and their order.

The second half of the module relates these states to what the store has done (`StoryOk`). That no
job is carried out twice is not inductive by itself, for the replay memory forgets its oldest entry
and frames may wait in two queues. What makes it true is the App's discipline: it asks for one thing
after the other. So `Ordered` says that of two requests in different places the one further along is
not the later one, and `OnceOk` that a job of the open session is in the replay memory, or has a
request number below that of every frame on its way and of the App's current request. An entry is
forgotten only when a later action of the same session is pending, and then every frame still on its
way is of that request or a later one.

In `KeyboardDeliveryProofs` the invariant `KeyboardOk` says of each place where an input may wait that
the input is `Rightful` for the lifetime named there: it was pressed while that lifetime was alive, or
the lifetime is over. The lemmas on `Follows` show once that no passing of time breaks this. What is
hard is the moment of choice. A chord without a latch may be given any lifetime that was sampled, so
the invariant says of it that the main task is between the sample and the transmission, and that what
was sampled was alive at the press (`Sampled`) or is over since; the endpoint then refuses a report
whose lifetime is not its own. The queues of USB are cleared only when the main task comes to it, so
what the host has been shown and the texts still to be typed are spoken of only while no reset is
asked for, and the reports by their own lifetime. A reset that comes late (finding 3) loses input
but makes none stale.

The second invariant of that module, `DeliveredOk`, looks ahead instead of back. `NoStuckKey` says what
a host will show once its queue has been sent, so it must survive every report that is queued, sent or
dropped, every clearing of a queue, and every change of a latch. `Ends` says of a queue that its last
report of a kind has a wanted content, or, when there is none, that the host shows it already; one
lemma each says that queueing a report makes this true (`EndsPush`), that reports of another kind leave
it (`EndsOther`), and that sending the head moves what it said into the host's view (`EndsPop`).
`Faithful` applies it to the snapshots and to every hotkey. The clearing of a queue is the hard case,
for it throws reports away that the keyboard counts as delivered. It is right because it only happens
on behalf of a lifetime the transport has not adopted yet, or after one that is over. As long as USB
has a reset asked for, no report, no latch and no view names its lifetime (`Untouched`). As long as
Bluetooth's owner is not the active one, or a reset is asked for, or a recovery is about another owner
(`BleNew`), no report in the queue is for it (`Alien`), and afterwards the queue has nothing else
(`OwnOnly`), but for one place: between the adoption by the event-loop task and its reset
(`helper.pc = "flag"`) the queue may hold reports of the former owner and, behind them, of the present
one. A clearing that meets such a report of the present owner puts it into `env.late`; from then on
the invariant speaks of a host that is not there (`Watched`), until another owner comes.

Model-checked only: liveness; and the three properties that are violated. Liveness under fairness,
`ENABLED` and induction over data are beyond the prover and stay with TLC.

## 6. Plan

Done, in this order: `SummaryLedger` with `Mailbox`; `LanPlayback` with `Listening`; `AudioIo`;
`PromptQueue` with `TaskFifo`; `SoundBanks` with `ActiveBundle`; `StoreRunner`; `SpeakerSync` with its
mailbox and session; `KeyboardDelivery` with `HidQueues`; the proofs of section 5.

Next, most important first:

1. **VoiceCapture.** Capture worker, packet queue and sender (`keyboard_audio.cpp` 1854–2300), UDP,
   `CaptureAssembler` and the ASR channel (`lan_voice.rs` 285–385, 962–1165). An abstract
   specification of a recording that arrives whole, with gaps, or not at all. Questions: can two
   captures mix, can a capture complete twice, is a completed one no shorter than what was sent.
   `docs/协议草案.md:20–21`, on frames that are missing, is to be compared with the filling of gaps of
   up to ten frames.
2. **Bindings and observer.** The binding generation of control requests and the observer's committed
   positions, as a module between bindings and ledger.
3. **Cache files.** Temporary files, links and directory syncs below the cache, with a crash between
   any two.

## 7. Not modelled

Everywhere: parsing, formatting, cryptography and file layouts (an authenticated message is one its
sender has sent); external services (a call answers or fails); the Bluetooth, USB, Wi-Fi and I2S
drivers. Time appears as the order in which timers may fire, never as a number. Reasons per component
are in `PROJECT.json`. In the modules with many details:

* `SoundBanks`: the advisory journal, which no decision reads, and the erased tails of the regions. A
  unit that decays does so while it is staged, not once it is part of a committed bundle.
* `SpeakerSync`: the filter of closed routes is the exact set (the code keeps a Bloom filter, which may
  in addition refuse a route it has never seen); frames are well formed, and the bytes of a request
  are its id; the store's result has the type the store promises; the fallback with
  `speaker_assets_sent_ready_` and the fail-closed state of a broken mutex are left out; admission ids
  of 64 bits do not run out. Of the carrier the authentication is one step that succeeds or not.
* `KeyboardDelivery`: the mouse wheel, advertising and the connection-parameter profile of the
  Bluetooth transport, its HID taps (nothing emits one), the USB responses of status and sound
  transfer, and the wrap-around of generations are left out. The 25 ms filter of the cable is a loss
  that is seen at any later time; boards without that sense are not modelled. A mount callback is one
  action with the configuration of the device, and so are the two copies of an owner taken when a host
  subscribes. A press the rollover refuses has no effect. "Release everything" leaves the hotkeys'
  flush to the loop. The branch of the synthetic pump for an operation of an older lifetime cannot be
  reached and is not there.
