-------------------------- MODULE KeyboardDelivery --------------------------
(***************************************************************************)
(* Keys on their way from the switches to a USB or a BLE host.             *)
(*                                                                         *)
(* Four tasks share the state: the main task (input events and the flushes *)
(* and polls of its loop), the TinyUSB task (mount callbacks), the NimBLE  *)
(* host task (GAP events and host resets) and the task of the HID          *)
(* profile's event loop.  A call of the main task that samples, queues and *)
(* transmits is three steps, because the other tasks may change the        *)
(* lifetime of a transport in between; app.pc is the step it is at.        *)
(*                                                                         *)
(* A report names the lifetime it was queued for (`own`).  The hosts are   *)
(* part of the model: what they take for pressed is what the properties    *)
(* are about.                                                              *)
(***************************************************************************)
EXTENDS HidQueues

CONSTANTS
  Key,         \* what each input source sends as a keyboard usage
  Bridged,     \* the sources whose hotkey goes to the companion App
  Typed,       \* the usage of a character of a typed text
  Pieces,      \* characters or chunks of a text
  TextWindow,  \* kBleFixedTextQueuedWindow
  TextQueue,   \* synthetic operations USB can keep
  Handles,     \* GAP connection handles, which NimBLE uses again
  Scenes       \* what may happen in a behaviour: the bounds of the model

VARIABLES
  app,      \* the main task's delivery state (AppContext)
  usb,      \* UsbHidTransport and TinyUSB
  ble,      \* BleHidTransport
  adapter,  \* the HID profile's connection (nimble_hidd.c)
  helper,   \* the profile's event-loop task
  hosts,    \* what each host has received
  env       \* what may still happen, what was alive when an input was pressed (born),
            \* the hotkeys pressed while their key's former one waited for its release (behind),
            \* those that another key had at the time (shared), and the owners of the keyboard
            \* for whom a queued report was cleared by an adoption that came late (late)

vars == <<app, usb, ble, adapter, helper, hosts, env>>

Hotkeys == UNION {s.hotkeys : s \in Scenes}
KeysOf(held) == {Key[s] : s \in held}
Inputs == KeysOf(DOMAIN Key) \cup Hotkeys \cup {Typed}

\* 0 is no connection, no hotkey is empty, and no source has the name of a step of the
\* main task.
ASSUME NamesDiffer ==
  /\ 0 \notin Handles /\ NoHot \notin Hotkeys
  /\ Bridged \cap {"idle", "keys", "pollUsb", "sendUsb", "pollBle", "sendBle"} = {}

\* How often things may happen, which sources and hotkeys are used, and whether the
\* event-loop task takes part.
Bounds ==
  [sources : SUBSET DOMAIN Key, bridges : SUBSET Bridged, hotkeys : SUBSET Hotkeys,
   events : BOOLEAN,
   presses : Nat, mounts : Nat, links : Nat, texts : Nat, faults : Nat, switches : Nat]
ASSUME BoundsAreNumbers ==
  Scenes \subseteq Bounds /\ {Pieces, TextWindow, TextQueue} \subseteq Nat \ {0}

NoOwner == [handle |-> 0, gen |-> NoEpoch]
NoText == [next |-> 0, own |-> Ble(NoEpoch)]
NoView == [live |-> FALSE, keys |-> {}, hot |-> {}, text |-> 0]
FreshView == [NoView EXCEPT !.live = TRUE]

Spend(what) == env' = [env EXCEPT !.left[what] = @ - 1]
Left(what) == env.left[what] > 0

----------------------------------------------------------------------------
(* The lifetimes of the two transports. *)

\* mounted() and connection_epoch()
UsbEpoch(u) == IF u.tiny /\ u.phys /\ ~u.fresh /\ u.tud THEN u.epoch ELSE NoEpoch

\* clear_pending_reports_on_unmount, and when a callback asked for it
UsbCleared(u) ==
  [u EXCEPT !.keys = <<>>, !.cmds = <<>>, !.ops = <<>>, !.shown = {}, !.turn = "Keys"]
\* Mutant: the request is read, not taken.
UsbReadyKeepsRequest(u) == IF u.reset THEN UsbCleared(u) ELSE u
UsbReady(u) == IF u.reset THEN [UsbCleared(u) EXCEPT !.reset = FALSE] ELSE u

Recovering(b) == b.phase # "Idle"
AdapterOwner ==
  IF adapter.owner = 0 THEN NoOwner ELSE [handle |-> adapter.owner, gen |-> adapter.gen]
Identity(b) == IF Recovering(b) THEN NoOwner ELSE AdapterOwner
BleEpoch(b) == IF Identity(b) = NoOwner THEN NoEpoch ELSE b.active.gen

\* sync_hid_owner and reset_connection_power_state both ask for a reset.
Adopted(b, owner) ==
  IF b.active = owner THEN b ELSE [b EXCEPT !.active = owner, !.reset = TRUE]
Refreshed(b) == IF Recovering(b) THEN b ELSE Adopted(b, AdapterOwner)
BleCleared(b) == [b EXCEPT !.queue = <<>>, !.text = NoText]
BleFlushed(b) == IF b.reset THEN [BleCleared(b) EXCEPT !.reset = FALSE] ELSE b
BleReady(b) == BleFlushed(Refreshed(BleFlushed(b)))

Life(t) == IF t = "Usb" THEN Usb(usb.epoch) ELSE Ble(adapter.gen)
Alive == {Life(t) : t \in {o \in {"Usb", "Ble"} : hosts[o].live}}
Born(inputs) == [i \in DOMAIN env.born |-> IF i \in inputs THEN Alive ELSE env.born[i]]

----------------------------------------------------------------------------
(* What the main task keeps. *)

\* reconcile_keyboard_transport_lifetimes, after the refresh of the BLE owner.
Reconciled(a, b) ==
  LET at == [Usb |-> UsbEpoch(usb), Ble |-> BleEpoch(b)]
      now == KeysOf(a.held)
      Lost(l) == LifetimeLost(l, at)
  IN [a EXCEPT
        !.at = at,
        !.keys = IF Lost(a.latch) THEN DeliveryReset(now) ELSE a.keys,
        !.latch = IF Lost(a.latch) THEN Committed(Suppressed, now = {}) ELSE a.latch,
        !.hot = [s \in Bridged |->
                   IF Lost(a.hlatch[s]) THEN HotReset(a.hot[s]) ELSE a.hot[s]],
        !.hlatch = [s \in Bridged |->
                      IF Lost(a.hlatch[s])
                      THEN Committed(Suppressed, a.hot[s].desired = NoHot)
                      ELSE a.hlatch[s]]]

\* flush_pending_keyboard_snapshot up to the transmission.
Flushing(a) ==
  [a EXCEPT !.pc = IF a.keys.pending THEN "keys" ELSE "idle",
            !.latch = IF ~a.keys.pending /\ a.keys.desired = {} THEN NoLatch ELSE @]
Flush(a) ==
  /\ ble' = Refreshed(ble)
  /\ app' = Flushing(Reconciled(a, Refreshed(ble)))

\* dispatch_held_keyboard_event: nothing is sent when the report stays the same.
Hold(held) ==
  IF KeysOf(held) = KeysOf(app.held)
  THEN app' = [app EXCEPT !.held = held] /\ UNCHANGED ble
  ELSE Flush([app EXCEPT !.held = held, !.keys = Desired(app.keys, KeysOf(held))])

\* HeldKeyboardState.press: a chord beyond the rollover is refused whole.
Press(s) ==
  /\ app.pc = "idle"
  /\ Left("presses") /\ s \in env.left.sources \ app.held
  /\ Fits(KeysOf(app.held \cup {s}))
  /\ Hold(app.held \cup {s})
  /\ env' = [env EXCEPT !.left.presses = @ - 1, !.born = Born({Key[s]})]
  /\ UNCHANGED <<usb, adapter, helper, hosts>>

Release(s) ==
  /\ app.pc = "idle" /\ s \in app.held
  /\ Hold(app.held \ {s})
  /\ UNCHANGED <<usb, adapter, helper, hosts, env>>

FlushKeys ==
  /\ app.pc = "idle"
  /\ Flush(app)
  /\ UNCHANGED <<usb, adapter, helper, hosts, env>>

\* release_keyboard_reports: before the configuration or the platform changes.
\* The hotkeys are flushed by the same loop as ever.
\* Mutant: the keys are let go but the empty report is not asked for.
ReleaseAllForgetsKeys ==
  /\ app.pc = "idle" /\ Left("switches")
  /\ Flush([app EXCEPT !.held = {}])
  /\ Spend("switches")
  /\ UNCHANGED <<usb, adapter, helper, hosts>>
ReleaseAll ==
  /\ app.pc = "idle" /\ Left("switches")
  /\ Flush([app EXCEPT !.held = {}, !.keys = Desired(app.keys, {}),
                       !.hot = [s \in Bridged |-> [app.hot[s] EXCEPT !.desired = NoHot]]])
  /\ Spend("switches")
  /\ UNCHANGED <<usb, adapter, helper, hosts>>

\* dispatch_bridged_hotkey_event up to its flush.
Bridge(s, hotkey) ==
  /\ ble' = Refreshed(ble)
  /\ app' = [Reconciled(app, Refreshed(ble)) EXCEPT !.hot[s].desired = hotkey, !.pc = s]

HadElsewhere(s, hotkey) ==
  \E o \in Bridged \ {s} : hotkey \in {app.hot[o].desired, app.hot[o].accepted}

HotkeyDown(s, hotkey) ==
  /\ app.pc = "idle"
  /\ Left("presses") /\ s \in env.left.bridges /\ app.hot[s].desired = NoHot
  /\ Bridge(s, hotkey)
  /\ env' = [env EXCEPT !.left.presses = @ - 1, !.born = Born({hotkey}),
                        !.behind = IF app.hot[s].accepted \in {NoHot, hotkey} THEN @
                                   ELSE @ \cup {hotkey},
                        !.shared = IF HadElsewhere(s, hotkey) THEN @ \cup {hotkey} ELSE @]
  /\ UNCHANGED <<usb, adapter, helper, hosts>>

HotkeyUp(s) ==
  /\ app.pc = "idle" /\ app.hot[s].desired # NoHot
  /\ Bridge(s, NoHot)
  /\ UNCHANGED <<usb, adapter, helper, hosts, env>>

----------------------------------------------------------------------------
(* A report is offered to the transport the latch selects, which queues it *)
(* only in the lifetime the latch names.                                   *)

\* USB keeps its commands apart: push() with a reserve, not by class.
UsbLimit(r) ==
  CASE r.class = "CommandPress" -> Capacity - 1
    [] r.class = "CommandRelease" -> Capacity
    [] r.class = "Command" -> Capacity - 2
    [] OTHER -> Limit(r.class)

UsbQueued(u, r) ==
  IF IsSnapshot(r)
  THEN [u EXCEPT !.keys = Pushed(@, r), !.shown = r.keys]
  ELSE [u EXCEPT !.cmds = Append(@, r)]

\* Mutant: the queue does not ask whether the endpoint is the one of the latch.
OfferUsbToAny(r, yes, no) ==
  /\ usb' = UsbQueued(UsbReady(usb), [r EXCEPT !.own = Usb(usb.epoch)])
  /\ app' = [yes EXCEPT !.pc = "pollUsb"]
OfferUsb(r, yes, no) ==
  LET u == UsbReady(usb)
      ok == /\ r.own = Usb(UsbEpoch(u))
            /\ Accepts(IF IsSnapshot(r) THEN u.keys ELSE u.cmds, r, UsbLimit(r))
  IN /\ usb' = IF ok THEN UsbQueued(u, r) ELSE u
     /\ app' = [(IF ok THEN yes ELSE no) EXCEPT
                  !.pc = IF ok \/ IsSnapshot(r) THEN "pollUsb" ELSE "idle"]

OfferBle(r, yes, no) ==
  LET b == BleReady(ble)
      same == r.own = Ble(Identity(ble).gen)
      ok == same /\ Accepts(b.queue, r, Limit(r.class))
  IN /\ ble' = IF ok THEN [b EXCEPT !.queue = Pushed(@, r)] ELSE IF same THEN b ELSE ble
     /\ app' = [(IF ok THEN yes ELSE no) EXCEPT !.pc = IF ok THEN "pollBle" ELSE "idle"]

\* A chord without a host, or whose host is gone, counts as delivered.
Offer(latch, r, yes, no) ==
  \/ latch.owner = "Usb" /\ OfferUsb(r, yes, no) /\ UNCHANGED ble
  \/ latch.owner = "Ble" /\ OfferBle(r, yes, no) /\ UNCHANGED usb
  \/ ~IsLatched(latch) /\ app' = [yes EXCEPT !.pc = "idle"] /\ UNCHANGED <<usb, ble>>

\* send_keyboard_snapshot, and mark_accepted and commit_snapshot after it.
SendKeys ==
  /\ app.pc = "keys"
  /\ LET keys == app.keys.desired
         latch == Selected(app.latch, keys = {}, app.at)
     IN Offer(latch,
              KeysReport(ClassOf(app.keys.accepted, keys), keys, LifeOf(latch)),
              [app EXCEPT !.keys = Delivered(@), !.latch = Committed(latch, keys = {})],
              [app EXCEPT !.latch = latch])
  /\ UNCHANGED <<adapter, helper, hosts, env>>

\* flush_pending_bridged_hotkey_event, with the last samples.
FlushHot(s) ==
  /\ app.pc \in {"idle", s}
  /\ LET d == app.hot[s]
         up == ~HotDown(d)
         latch == Selected(app.hlatch[s], up, app.at)
     IN IF HotPending(d)
        THEN Offer(latch,
                   HotReport(~up, HotMoved(d), LifeOf(latch)),
                   [app EXCEPT !.hot[s] = HotAccepted(d), !.hlatch[s] = Committed(latch, up)],
                   [app EXCEPT !.hlatch[s] = latch])
        ELSE /\ app' = [app EXCEPT !.pc = "idle",
                          !.hlatch[s] = IF d.desired = NoHot THEN NoLatch ELSE @]
             /\ UNCHANGED <<usb, ble>>
  /\ UNCHANGED <<adapter, helper, hosts, env>>

----------------------------------------------------------------------------
(* Fixed texts.  USB has them when it is mounted; a refusal never moves    *)
(* them to BLE.                                                            *)

\* type_text: the characters the keyboard can type.
TypeOnUsb(u) ==
  IF Len(u.ops) < TextQueue
  THEN [u EXCEPT !.ops = Append(@, [left |-> Pieces, own |-> Usb(UsbEpoch(u))])]
  ELSE u

\* send_fixed_text_command: all the chunks or none.
ChunksOnUsb(u) ==
  IF Len(u.cmds) + Pieces <= Capacity - 2
  THEN [u EXCEPT !.cmds = @ \o [i \in 1..Pieces |-> TextReport(i, Usb(UsbEpoch(u)))]]
  ELSE u

\* BleFixedTextStream.start
StreamOnBle(b) ==
  IF b.text = NoText THEN [b EXCEPT !.text = [next |-> 1, own |-> Ble(Identity(b).gen)]] ELSE b

\* send_firmware_event_for_epoch: the keyboard types what it can.
TextsOnUsb(u) == {TypeOnUsb(u), ChunksOnUsb(u)}
TextOnBle(b) == IF Identity(b) = NoOwner THEN BleReady(b) ELSE StreamOnBle(BleReady(b))

FixedText ==
  /\ app.pc = "idle" /\ Left("texts")
  /\ IF UsbEpoch(usb) # NoEpoch
     THEN /\ usb' \in TextsOnUsb(UsbReady(usb))
          /\ app' = [app EXCEPT !.pc = "pollUsb"]
          /\ UNCHANGED ble
     ELSE /\ ble' = TextOnBle(ble)
          /\ app' = [app EXCEPT !.pc = "pollBle"]
          /\ UNCHANGED usb
  /\ env' = [env EXCEPT !.left.texts = @ - 1, !.born = Born({Typed})]
  /\ UNCHANGED <<adapter, helper, hosts>>

\* pump_synthetic_keyboard_reports: a key on top of the physical chord, and the
\* chord again, only while no physical report waits.
\* Mutant: the chord is not restored.
UsbPumpedWithoutRestore(u) ==
  IF u.keys # <<>> \/ u.ops = <<>> THEN u
  ELSE [u EXCEPT !.keys = <<KeysReport("Press", {Typed}, Head(u.ops).own),
                            KeysReport("AllReleased", {}, Head(u.ops).own)>>,
                 !.ops = Tail(@)]
UsbPumped(u) ==
  IF u.keys # <<>> \/ u.ops = <<>> \/ ~Fits(u.shown \cup {Typed}) THEN u
  ELSE LET op == Head(u.ops)
           down == KeysReport("Press", u.shown \cup {Typed}, op.own)
           restored == KeysReport(IF u.shown = {} THEN "AllReleased" ELSE "Release",
                                  u.shown, op.own)
       IN [u EXCEPT !.keys = Pushed(<<down>>, restored),
                    !.ops = IF op.left = 1 THEN Tail(u.ops) ELSE [u.ops EXCEPT ![1].left = @ - 1]]

\* BleFixedTextStream.pump: a few chunks at a time, for the owner it began with.
BlePumped(b) ==
  LET room == IF TextWindow < Limit("Command") THEN TextWindow ELSE Limit("Command")
      want == Pieces + 1 - b.text.next
      free == IF Len(b.queue) < room THEN room - Len(b.queue) ELSE 0
      n == IF want < free THEN want ELSE free
  IN CASE b.text = NoText -> b
       [] b.text # NoText /\ b.text.own # Ble(Identity(b).gen) -> [b EXCEPT !.text = NoText]
       [] OTHER ->
            [b EXCEPT
               !.queue = @ \o [i \in 1..n |-> TextReport(b.text.next + i - 1, b.text.own)],
               !.text = IF n = want THEN NoText ELSE [b.text EXCEPT !.next = @ + n]]

----------------------------------------------------------------------------
(* Transmission over USB: one report for each poll, taking turns. *)

Taken(view, r) ==
  CASE IsSnapshot(r) -> [view EXCEPT !.keys = r.keys]
    [] r.class = "CommandPress" -> [view EXCEPT !.hot = @ \cup {r.hot}]
    [] r.class = "CommandRelease" -> [view EXCEPT !.hot = @ \ {r.hot}]
    [] OTHER -> [view EXCEPT !.text = r.chunk]
Sees(t, r) ==
  hosts' = IF hosts[t].live THEN [hosts EXCEPT ![t] = Taken(hosts[t], r)] ELSE hosts

\* poll_pending_reports up to the endpoint
PollUsb ==
  /\ app.pc \in {"idle", "pollUsb"}
  /\ LET ready == UsbReady(usb)
         u == IF UsbEpoch(ready) = NoEpoch THEN UsbCleared(ready) ELSE UsbPumped(ready)
     IN /\ usb' = u
        /\ app' = [app EXCEPT !.pc = IF u.keys = <<>> /\ u.cmds = <<>> THEN "idle" ELSE "sendUsb"]
  /\ UNCHANGED <<ble, adapter, helper, hosts, env>>

UsbKind ==
  CASE usb.keys = <<>> -> "Cmds"
    [] usb.cmds = <<>> -> "Keys"
    [] OTHER -> usb.turn
UsbHead == IF UsbKind = "Keys" THEN Head(usb.keys) ELSE Head(usb.cmds)
UsbPopped ==
  IF UsbKind = "Keys" THEN [usb EXCEPT !.keys = Tail(@)] ELSE [usb EXCEPT !.cmds = Tail(@)]
UsbHasReport == usb.keys # <<>> \/ usb.cmds # <<>>
UsbHeadIsCurrent == UsbHead.own = Usb(UsbEpoch(usb))

UsbDrops ==
  /\ app.pc = "sendUsb" /\ UsbHasReport /\ ~UsbHeadIsCurrent
  /\ usb' = UsbPopped
  /\ UNCHANGED <<app, ble, adapter, helper, hosts, env>>

UsbAccepts ==
  /\ app.pc = "sendUsb" /\ UsbHasReport /\ UsbHeadIsCurrent
  /\ usb' = [UsbPopped EXCEPT !.turn = IF UsbKind = "Keys" THEN "Cmds" ELSE "Keys"]
  /\ Sees("Usb", UsbHead)
  /\ app' = [app EXCEPT !.pc = "idle"]
  /\ UNCHANGED <<ble, adapter, helper, env>>

\* The endpoint is busy, or nothing is left.
UsbWaits ==
  /\ app.pc = "sendUsb" /\ (UsbHasReport => UsbHeadIsCurrent)
  /\ app' = [app EXCEPT !.pc = "idle"]
  /\ UNCHANGED <<usb, ble, adapter, helper, hosts, env>>

----------------------------------------------------------------------------
(* Transmission over BLE, and the recovery from a send that fails for good. *)

\* poll_input_delivery up to the scheduler
PollBle ==
  /\ app.pc \in {"idle", "pollBle"} /\ ~Recovering(ble)
  /\ LET ready == BleFlushed(Refreshed(ble))
         b == IF Identity(ready) = NoOwner THEN BleCleared(ready) ELSE BlePumped(ready)
     IN /\ ble' = b
        /\ app' = [app EXCEPT !.pc = IF b.queue = <<>> THEN "idle" ELSE "sendBle"]
  /\ UNCHANGED <<usb, adapter, helper, hosts, env>>

\* easy_input_hidd_dev_input_set_for_owner checks the exact owner.
BleHead == Head(ble.queue)
BleConnected == ble.active # NoOwner /\ BleHead.own = Ble(AdapterOwner.gen)
BleSending(connected) == app.pc = "sendBle" /\ BleConnected = connected
BlePopped == BlePumped([ble EXCEPT !.queue = Tail(@)])

\* A report of the present owner waits in a queue that is about to be cleared.
ReportWaits == \E i \in 1..Len(ble.queue) : ble.queue[i].own = Life("Ble")
Lose(lost) == env' = IF lost THEN [env EXCEPT !.late = @ \cup {Life("Ble")}] ELSE env

\* The reports of a former owner are cleared with all that follow; they are only
\* there while the reset of the event-loop task is still to come.
BleDisconnected ==
  /\ BleSending(FALSE)
  /\ ble' = BleCleared(ble)
  /\ app' = [app EXCEPT !.pc = "idle"]
  /\ Lose(helper.pc = "flag" /\ ReportWaits)
  /\ UNCHANGED <<usb, adapter, helper, hosts>>

\* find_boot_report_for_report_id: the boot protocol knows keyboard reports only.
ProtocolCarries(r) == adapter.boot => IsSnapshot(r)

BleAccepts ==
  /\ BleSending(TRUE) /\ ProtocolCarries(BleHead)
  /\ ble' = BlePopped
  /\ Sees("Ble", BleHead)
  /\ app' = [app EXCEPT !.pc = "idle"]
  /\ UNCHANGED <<usb, adapter, helper, env>>

BleUnsupported ==
  /\ BleSending(TRUE) /\ ~ProtocolCarries(BleHead) /\ BleHead.class = "Command"
  /\ ble' = BlePopped
  /\ app' = [app EXCEPT !.pc = "idle"]
  /\ UNCHANGED <<usb, adapter, helper, hosts, env>>

\* No buffer, or the controller is busy.
BleWaits ==
  /\ BleSending(TRUE)
  /\ app' = [app EXCEPT !.pc = "idle"]
  /\ UNCHANGED <<usb, ble, adapter, helper, hosts, env>>

\* recover_fatal_input_delivery: the queue stays as it is until the owner is gone.
BleFatal ==
  /\ BleSending(TRUE)
  /\ \/ ~ProtocolCarries(BleHead) /\ BleHead.hot # NoHot /\ UNCHANGED env
     \/ Left("faults") /\ Spend("faults")
  /\ ble' = [ble EXCEPT !.phase = "Terminating", !.target = AdapterOwner]
  /\ app' = [app EXCEPT !.pc = "pollBle"]
  /\ UNCHANGED <<usb, adapter, helper, hosts>>

\* service_owner_recovery
Servicing ==
  /\ app.pc \in {"idle", "pollBle"} /\ Recovering(ble)
  /\ UNCHANGED <<usb, helper, hosts, env>>
TargetIsOwner == AdapterOwner = ble.target

RecoveryCompletes ==
  /\ Servicing /\ ~TargetIsOwner
  /\ ble' = [ble EXCEPT !.phase = "Idle", !.target = NoOwner,
                        !.active = NoOwner, !.reset = TRUE]
  /\ app' = [app EXCEPT !.pc = "pollBle"]
  /\ UNCHANGED adapter

RecoveryTerminates ==
  /\ Servicing /\ TargetIsOwner /\ ble.phase = "Terminating"
  /\ ble' = [ble EXCEPT !.phase = "AwaitingOwnerLoss"]
  /\ adapter' = [adapter EXCEPT !.closing = @ \cup {ble.target.handle}]
  /\ app' = [app EXCEPT !.pc = "idle"]

\* The termination is refused, or the deadline of its retries passes.
RecoveryFails ==
  /\ Servicing /\ TargetIsOwner /\ ble.phase = "Terminating"
  /\ ble' = [ble EXCEPT !.phase = "AwaitingHostReset"]
  /\ app' = [app EXCEPT !.pc = "idle"]
  /\ UNCHANGED adapter

\* The owner is still there after its time, or is known not to go.
RecoveryResets ==
  /\ Servicing /\ TargetIsOwner /\ ble.phase \in {"AwaitingOwnerLoss", "AwaitingHostReset"}
  /\ ble' = [ble EXCEPT !.phase = "AwaitingHostReset"]
  /\ adapter' = [adapter EXCEPT !.reset = TRUE]
  /\ app' = [app EXCEPT !.pc = "idle"]

\* A retry is not due, or the termination must be tried again.
RecoveryWaits ==
  /\ Servicing /\ TargetIsOwner
  /\ app' = [app EXCEPT !.pc = "idle"]
  /\ UNCHANGED <<ble, adapter>>

ServiceRecovery ==
  \/ RecoveryCompletes \/ RecoveryTerminates \/ RecoveryFails \/ RecoveryResets \/ RecoveryWaits

----------------------------------------------------------------------------
(* The cable, and TinyUSB's callbacks. *)

UsbKeeps(u) == usb' = u /\ UNCHANGED <<app, ble, adapter, helper>>
UsbHost(view) == hosts' = [hosts EXCEPT !.Usb = view]

PlugIn ==
  /\ ~usb.vbus /\ Left("mounts")
  /\ UsbKeeps([usb EXCEPT !.vbus = TRUE])
  /\ Spend("mounts") /\ UNCHANGED hosts

\* Without VBUS nothing tells TinyUSB: its state stays.
PullOut ==
  /\ usb.vbus /\ Left("mounts")
  /\ UsbKeeps([usb EXCEPT !.vbus = FALSE])
  /\ UsbHost(NoView) /\ UNCHANGED env

\* on_tinyusb_mount: the host has enumerated the keyboard.
Configure ==
  /\ usb.vbus /\ ~hosts.Usb.live
  /\ UsbKeeps([usb EXCEPT !.tud = TRUE, !.tiny = TRUE, !.phys = TRUE, !.fresh = FALSE,
                          !.epoch = @ + 1, !.reset = TRUE])
  /\ UsbHost(FreshView) /\ UNCHANGED env

\* A bus reset deconfigures the device without a callback.
BusReset ==
  /\ usb.vbus /\ usb.tud /\ Left("mounts")
  /\ UsbKeeps([usb EXCEPT !.tud = FALSE])
  /\ UsbHost(NoView) /\ Spend("mounts")

\* on_tinyusb_unmount
Unmount ==
  /\ usb.tiny /\ ~usb.vbus
  /\ UsbKeeps([usb EXCEPT !.tud = FALSE, !.tiny = FALSE, !.epoch = @ + 1, !.reset = TRUE])
  /\ UsbHost(NoView) /\ UNCHANGED env

\* UsbPhysicalPresenceMonitor.update: a loss counts once it has lasted, a return at once.
PresenceMoved == usb.present # usb.vbus

\* observe_physical_presence: a loss ends the lifetime, and a mount must follow.
PresenceSeen(u) ==
  [u EXCEPT !.present = u.vbus, !.phys = u.vbus, !.fresh = @ \/ ~u.vbus,
            !.reset = @ \/ (u.tiny /\ u.phys /\ ~u.fresh /\ ~u.vbus)]

\* sync_usb_physical_presence
SyncPresence ==
  /\ app.pc = "idle" /\ PresenceMoved
  /\ UsbKeeps(PresenceSeen(usb))
  /\ UNCHANGED <<hosts, env>>

----------------------------------------------------------------------------
(* The NimBLE host task.  It handles one event at a time, so that what     *)
(* follows its own adoption of an owner waits for it.                      *)

NimBle(a) == ~adapter.task /\ adapter' = a /\ UNCHANGED <<app, usb, helper>>
BleHost(view) == hosts' = [hosts EXCEPT !.Ble = view]

\* A connection is not yet a keyboard's host.
Connect(h) ==
  /\ adapter.synced /\ h \notin adapter.conns /\ Left("links")
  /\ NimBle([adapter EXCEPT !.conns = @ \cup {h},
                            !.boot = @ /\ adapter.owner # 0])
  /\ Spend("links") /\ UNCHANGED <<ble, hosts>>

\* is_hid_owner_input_report_handle: only a subscription to a keyboard or mouse report
\* claims the keyboard, and a second host is ignored.
ClaimsKeyboard(h) == h \in adapter.conns /\ adapter.owner = 0 /\ h \notin adapter.closing

\* post_hidd_event_bounded: the event loop is told, or the event is dropped.
ConnectPosted == env.left.events

Subscribe(h) ==
  /\ ClaimsKeyboard(h)
  /\ NimBle([adapter EXCEPT !.owner = h, !.gen = @ + 1, !.task = TRUE, !.event = ConnectPosted])
  /\ BleHost(FreshView) /\ UNCHANGED <<ble, env>>

\* The application's GAP listener, after the profile's: sync_hid_owner.
GapSync ==
  /\ adapter.task
  /\ adapter' = [adapter EXCEPT !.task = FALSE]
  /\ ble' = IF Identity(ble) = NoOwner THEN ble ELSE Adopted(ble, AdapterOwner)
  /\ UNCHANGED <<app, usb, helper, hosts, env>>

\* advance_owner_generation_locked, and the owner that is none.
WithoutOwner(a) == IF a.owner = 0 THEN a ELSE [a EXCEPT !.gen = @ + 1, !.owner = 0]

Disconnect(h) ==
  /\ h \in adapter.conns
  /\ LET a == [adapter EXCEPT !.conns = @ \ {h}, !.closing = @ \ {h}]
     IN NimBle(IF adapter.owner = h THEN WithoutOwner(a) ELSE a)
  /\ ble' = IF ble.active.handle = h THEN [ble EXCEPT !.active = NoOwner, !.reset = TRUE] ELSE ble
  /\ IF adapter.owner = h THEN BleHost(NoView) ELSE UNCHANGED hosts
  /\ UNCHANGED env

\* BLE_GAP_EVENT_TERM_FAILURE
TermFailed(h) ==
  /\ h \in adapter.closing /\ Left("faults")
  /\ NimBle([adapter EXCEPT !.closing = @ \ {h}])
  /\ ble' = IF Recovering(ble) /\ ble.target.handle = h
            THEN [ble EXCEPT !.phase = "AwaitingHostReset"] ELSE ble
  /\ Spend("faults") /\ UNCHANGED hosts

\* nimble_host_reset: every link is gone and the application is not told.
HostReset ==
  /\ adapter.synced /\ (adapter.reset \/ Left("faults"))
  /\ NimBle(WithoutOwner([adapter EXCEPT
       !.synced = FALSE, !.reset = FALSE, !.conns = {}, !.closing = {}, !.boot = FALSE]))
  /\ BleHost(NoView)
  /\ IF adapter.reset THEN UNCHANGED env ELSE Spend("faults")
  /\ UNCHANGED ble

\* nimble_host_synced
HostSynced ==
  /\ ~adapter.synced
  /\ NimBle([adapter EXCEPT !.synced = TRUE])
  /\ UNCHANGED <<ble, hosts, env>>

\* The host asks for the boot protocol, or leaves it.
SetProtocol ==
  /\ adapter.owner # 0 /\ Left("switches")
  /\ NimBle([adapter EXCEPT !.boot = ~@])
  /\ Spend("switches") /\ UNCHANGED <<ble, hosts>>

----------------------------------------------------------------------------
(* The event-loop task of the profile: CONNECT arrives there as well, late *)
(* or not at all.  It reads the owner, adopts it in a critical section and *)
(* asks for the reset after it.                                            *)

HelperKeeps == UNCHANGED <<app, usb, hosts>>

EventRead ==
  /\ helper.pc = "idle" /\ adapter.event
  /\ adapter' = [adapter EXCEPT !.event = FALSE]
  /\ helper' = IF Identity(ble) = NoOwner THEN helper
               ELSE [pc |-> "adopt", snap |-> Identity(ble)]
  /\ UNCHANGED <<ble, env>> /\ HelperKeeps

\* The owner that was read may be gone by now; then the main task adopts the
\* right one again, and clears the queue for it again.
EventAdopt ==
  /\ helper.pc = "adopt"
  /\ ble' = [ble EXCEPT !.active = helper.snap]
  /\ helper' = [pc |-> IF ble.active = helper.snap THEN "idle" ELSE "flag", snap |-> NoOwner]
  /\ Lose(helper.snap # AdapterOwner /\ ReportWaits)
  /\ UNCHANGED adapter /\ HelperKeeps

EventFlag ==
  /\ helper.pc = "flag"
  /\ ble' = [ble EXCEPT !.reset = TRUE]
  /\ helper' = [helper EXCEPT !.pc = "idle"]
  /\ Lose(ReportWaits)
  /\ UNCHANGED adapter /\ HelperKeeps

----------------------------------------------------------------------------
InitApp ==
  [held |-> {}, keys |-> NewDelivery, latch |-> NoLatch,
   hot |-> [s \in Bridged |-> NewHot], hlatch |-> [s \in Bridged |-> NoLatch],
   at |-> Nowhere, pc |-> "idle"]
InitUsb ==
  [vbus |-> FALSE, present |-> FALSE, phys |-> FALSE, fresh |-> TRUE, tiny |-> FALSE,
   tud |-> FALSE, epoch |-> 0, reset |-> FALSE, keys |-> <<>>, cmds |-> <<>>, ops |-> <<>>,
   shown |-> {}, turn |-> "Keys"]
InitBle ==
  [active |-> NoOwner, reset |-> FALSE, queue |-> <<>>, text |-> NoText,
   phase |-> "Idle", target |-> NoOwner]
InitAdapter ==
  [owner |-> 0, gen |-> 0, synced |-> FALSE, boot |-> FALSE, conns |-> {}, closing |-> {},
   reset |-> FALSE, task |-> FALSE, event |-> FALSE]

Init ==
  /\ app = InitApp /\ usb = InitUsb /\ ble = InitBle /\ adapter = InitAdapter
  /\ helper = [pc |-> "idle", snap |-> NoOwner]
  /\ hosts = [Usb |-> NoView, Ble |-> NoView]
  /\ \E s \in Scenes :
       env = [left |-> s, born |-> [i \in Inputs |-> {}], behind |-> {}, shared |-> {}, late |-> {}]

Main ==
  \/ \E s \in DOMAIN Key : Press(s) \/ Release(s)
  \/ \E s \in Bridged : HotkeyUp(s) \/ FlushHot(s)
                        \/ \E h \in env.left.hotkeys : HotkeyDown(s, h)
  \/ ReleaseAll \/ FixedText \/ FlushKeys \/ SendKeys \/ SyncPresence
  \/ PollUsb \/ UsbDrops \/ UsbAccepts \/ UsbWaits
  \/ PollBle \/ BleDisconnected \/ BleAccepts \/ BleUnsupported \/ BleWaits \/ BleFatal
  \/ ServiceRecovery
Cable == PlugIn \/ PullOut \/ Configure \/ BusReset \/ Unmount
Radio ==
  \/ \E h \in Handles : Connect(h) \/ Subscribe(h) \/ Disconnect(h) \/ TermFailed(h)
  \/ GapSync \/ HostReset \/ HostSynced \/ SetProtocol
EventTask == EventRead \/ EventAdopt \/ EventFlag

Next == Main \/ Cable \/ Radio \/ EventTask

\* What the main task does in every turn of its loop, what it does before it
\* returns, and what an endpoint does with the reports it is offered.
LoopTurn ==
  \/ PollUsb \/ PollBle \/ SyncPresence \/ \E s \in Bridged : FlushHot(s)
  \/ RecoveryCompletes \/ RecoveryFails \/ RecoveryResets
Continues == SendKeys \/ UsbDrops \/ UsbWaits \/ BleDisconnected \/ BleWaits
Transmits == UsbAccepts \/ BleAccepts \/ BleUnsupported \/ BleFatal
NimBleRuns == GapSync \/ HostSynced \/ (adapter.reset /\ HostReset)

\* The loop never stops and the deadlines of a recovery pass; an endpoint that
\* is offered reports again and again takes them.
Fairness ==
  /\ SF_vars(LoopTurn) /\ SF_vars(FlushKeys) /\ SF_vars(Transmits)
  /\ WF_vars(Continues) /\ WF_vars(NimBleRuns)

Spec == Init /\ [][Next]_vars /\ Fairness

----------------------------------------------------------------------------
Names == DOMAIN env.born
Reports ==
  [class : {"Press", "Release", "AllReleased", "Command", "CommandPress", "CommandRelease"},
   keys : SUBSET Names, hot : Hotkeys \cup {NoHot}, chunk : 0..Pieces,
   own : {"Usb", "Ble"} \X Nat]
QueueOk(q) == Len(q) <= Capacity /\ \A i \in 1..Len(q) : q[i] \in Reports

\* The type of every variable: queues within their capacity, a recovery with the
\* owner it is about, and an endpoint in use only with the cable seen.
TypeOK ==
  /\ app.held \subseteq DOMAIN Key
  /\ app.keys.pending = (app.keys.desired # app.keys.accepted)
  /\ app.keys.desired = KeysOf(app.held)
  /\ app.latch.owner \in {"None", "Usb", "Ble", "Suppressed"} /\ app.latch.epoch \in Nat
  /\ QueueOk(usb.keys) /\ QueueOk(usb.cmds) /\ QueueOk(ble.queue)
  /\ Len(usb.ops) <= TextQueue
  /\ Recovering(ble) = (ble.target # NoOwner)
  /\ adapter.owner \in adapter.conns \cup {0}
  /\ adapter.closing \subseteq adapter.conns
  /\ hosts.Usb.live => UsbEpoch(usb) # NoEpoch
  /\ hosts.Ble.live = (adapter.owner # 0)

QueueOf(t) == IF t = "Usb" THEN usb.keys ELSE ble.queue
CommandsOf(t) == IF t = "Usb" THEN usb.cmds ELSE ble.queue
Followed(t) == hosts[t].live /\ ~(t = "Ble" /\ Recovering(ble))

IsHotkey(r, h) == r.class \in {"CommandPress", "CommandRelease"} /\ r.hot = h

\* What a host will take for pressed once the queue has been sent.
FinalKeys(t) ==
  LET q == QueueOf(t)
      Mine(i) == IsSnapshot(q[i]) /\ q[i].own = Life(t)
      last == {i \in 1..Len(q) : Mine(i) /\ \A j \in i + 1..Len(q) : ~Mine(j)}
  IN IF last = {} THEN hosts[t].keys ELSE UNION {q[i].keys : i \in last}
FinalHot(t) ==
  LET q == CommandsOf(t)
      Mine(h, i) == IsHotkey(q[i], h) /\ q[i].own = Life(t)
      last(h) == {i \in 1..Len(q) : Mine(h, i) /\ \A j \in i + 1..Len(q) : ~Mine(h, j)}
  IN {h \in Hotkeys : IF last(h) = {} THEN h \in hosts[t].hot
                      ELSE \E i \in last(h) : q[i].class = "CommandPress"}

\* What the host takes for pressed in the end is what the keyboard counts as
\* delivered to it, and nothing when the chord belongs to another lifetime.
Faithfully(t) ==
  LET down == {app.hot[s].accepted : s \in {b \in Bridged : LifeOf(app.hlatch[b]) = Life(t)}}
  IN /\ FinalKeys(t) = IF LifeOf(app.latch) = Life(t) THEN app.keys.accepted ELSE {}
     /\ FinalHot(t) \subseteq down
     /\ down \ ({NoHot} \cup env.shared) \subseteq FinalHot(t)

\* A host that is there will take for pressed exactly what the keyboard counts
\* as delivered to it: no report that was accepted is lost, and none from another
\* lifetime arrives.  The exception is an owner for whom the event-loop task's
\* adoption cleared a report that was already accepted.
NoStuckKey == \A t \in {"Usb", "Ble"} : Followed(t) /\ Life(t) \notin env.late => Faithfully(t)

\* The same without the exception: "clear reports from the previous host before
\* accepting any report for this owner" (sync_hid_owner).
ClearedBeforeAccepted == Followed("Ble") => Faithfully("Ble")

\* A host never sees an input that was made before its lifetime began: no
\* key down is replayed into an endpoint that mounted or connected later.  The
\* exception is a hotkey that waited behind another's release: the release
\* frees the latch, and the next sample of the lifetimes decides.
NoStaleInput ==
  \A t \in {"Usb", "Ble"} : hosts[t].live =>
    /\ \A i \in hosts[t].keys \cup (hosts[t].hot \ env.behind) : Life(t) \in env.born[i]
    /\ hosts[t].text # 0 => Life(t) \in env.born[Typed]

Settled ==
  /\ ~Recovering(ble) /\ ~app.keys.pending /\ ble.text = NoText
  /\ app.keys.desired = {} => app.latch = NoLatch
  /\ \A s \in Bridged : ~HotPending(app.hot[s])
  /\ \A t \in {"Usb", "Ble"} : hosts[t].live /\ Life(t) \notin env.late =>
       /\ hosts[t].keys = IF LifeOf(app.latch) = Life(t) THEN app.keys.desired ELSE {}
       /\ LET down == {app.hot[s].desired :
                         s \in {b \in Bridged : LifeOf(app.hlatch[b]) = Life(t)}}
          IN /\ hosts[t].hot \subseteq down
             /\ down \ ({NoHot} \cup env.shared) \subseteq hosts[t].hot

\* Once nothing more happens to the keys, the cable and the radio, every host
\* sees the chord it owns as it is held, a recovery has ended, and a chord that
\* was let go keeps no transport.  An owner who lost a report is left out.
HostFollows == <>[]Settled
=============================================================================
