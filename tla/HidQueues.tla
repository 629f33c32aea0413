------------------------------ MODULE HidQueues ------------------------------
(***************************************************************************)
(* What the keyboard keeps of a chord on its way to a host, as pure        *)
(* operators: the bounded queue of complete reports                        *)
(* (hid_report_queue.cpp), the snapshot last accepted and the one wanted   *)
(* (keyboard_snapshot_delivery.cpp, held_keyboard_state.cpp), and the      *)
(* latch that binds a chord to one lifetime of one transport               *)
(* (transport_routing.cpp).                                                *)
(*                                                                         *)
(* A snapshot is the set of usages pressed.  A lifetime is a pair of a     *)
(* transport and its epoch: every USB mount and every BLE owner is a new   *)
(* one.                                                                    *)
(***************************************************************************)
EXTENDS Integers, Sequences, FiniteSets

CONSTANTS
  Capacity,    \* kHidReportQueueCapacity
  InputCount,  \* kKeyboardStateSourceCount
  Rollover,    \* the keycodes one report can carry
  Modifiers    \* the usages that need no keycode slot

ASSUME QueueHasRoom ==
  /\ {Capacity, InputCount, Rollover} \subseteq Nat \ {0}
  /\ Capacity >= 2 * InputCount

NoEpoch == 0
NoHot == ""
Usb(e) == <<"Usb", e>>
Ble(g) == <<"Ble", g>>

----------------------------------------------------------------------------
(* The queue. *)

\* classified_capacity: presses leave room for the releases, commands for both.
Limit(class) ==
  CASE class = "Press" -> Capacity - InputCount
    [] class \in {"Command", "CommandPress"} -> Capacity - 2 * InputCount
    [] class \in {"Release", "CommandRelease"} -> Capacity - 1
    [] class = "AllReleased" -> Capacity

KeysReport(class, keys, own) ==
  [class |-> class, keys |-> keys, hot |-> NoHot, chunk |-> 0, own |-> own]
HotReport(down, hot, own) ==
  [class |-> IF down THEN "CommandPress" ELSE "CommandRelease",
   keys |-> {}, hot |-> hot, chunk |-> 0, own |-> own]
TextReport(chunk, own) ==
  [class |-> "Command", keys |-> {}, hot |-> NoHot, chunk |-> chunk, own |-> own]

IsSnapshot(r) == r.class \in {"Press", "Release", "AllReleased"}

\* tail_matches: the same snapshot for the same lifetime as the newest report.
Coalesces(q, r) ==
  /\ IsSnapshot(r) /\ q # <<>>
  /\ LET tail == q[Len(q)] IN IsSnapshot(tail) /\ tail.keys = r.keys /\ tail.own = r.own

Accepts(q, r, limit) == Coalesces(q, r) \/ Len(q) < limit
Pushed(q, r) == IF Coalesces(q, r) THEN q ELSE Append(q, r)

----------------------------------------------------------------------------
(* The snapshot wanted and the one a queue accepted last. *)

Fits(keys) == Cardinality(keys \ Modifiers) <= Rollover

NewDelivery == [desired |-> {}, accepted |-> {}, pending |-> FALSE]
Desired(d, keys) ==
  IF keys = d.desired THEN d
  ELSE [d EXCEPT !.desired = keys, !.pending = keys # d.accepted]
Delivered(d) == [d EXCEPT !.accepted = d.desired, !.pending = FALSE]
DeliveryReset(keys) == [desired |-> keys, accepted |-> keys, pending |-> FALSE]

\* classify_transition: a report that lets any usage go is a release.
Removes(from, to) == ~(from \subseteq to)
ClassOf(from, to) ==
  IF to = {} THEN "AllReleased" ELSE IF Removes(from, to) THEN "Release" ELSE "Press"

\* BridgedHotkeyDelivery: another hotkey is a release before it is a press.
NewHot == [desired |-> NoHot, accepted |-> NoHot]
HotPending(b) == b.desired # b.accepted
HotDown(b) == b.accepted = NoHot
HotMoved(b) == IF HotDown(b) THEN b.desired ELSE b.accepted
HotAccepted(b) == [b EXCEPT !.accepted = IF HotDown(b) THEN b.desired ELSE NoHot]
HotReset(b) == [b EXCEPT !.accepted = b.desired]

----------------------------------------------------------------------------
(* The latch.  `at` holds the epoch of each transport, NoEpoch when it has no host. *)

NoLatch == [owner |-> "None", epoch |-> NoEpoch]
Suppressed == [owner |-> "Suppressed", epoch |-> NoEpoch]
Nowhere == [Usb |-> NoEpoch, Ble |-> NoEpoch]

LifeOf(latch) == <<latch.owner, latch.epoch>>
IsLatched(latch) == latch.owner \in {"Usb", "Ble"}

\* observe_transport_state
LifetimeLost(latch, at) == IsLatched(latch) /\ at[latch.owner] # latch.epoch
Observed(latch, at) == IF LifetimeLost(latch, at) THEN Suppressed ELSE latch

\* select_for_snapshot: a release never chooses, and USB comes first.
Selected(latch, released, at) ==
  LET seen == Observed(latch, at)
      first == IF at.Usb # NoEpoch THEN "Usb" ELSE "Ble"
  IN IF released \/ seen.owner # "None" THEN seen
     ELSE IF at[first] = NoEpoch THEN Suppressed
     ELSE [owner |-> first, epoch |-> at[first]]

\* commit_snapshot
Committed(latch, released) == IF released THEN NoLatch ELSE latch
=============================================================================
