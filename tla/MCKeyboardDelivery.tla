------------------------ MODULE MCKeyboardDelivery ------------------------
(* A small keyboard for TLC. *)
EXTENDS KeyboardDelivery

MCKey == [one |-> "A", two |-> "Shift", three |-> "B", four |-> "A"]

Quiet == [sources |-> {}, bridges |-> {"app"}, hotkeys |-> {}, presses |-> 0, mounts |-> 0,
          links |-> 0, texts |-> 0, faults |-> 0, switches |-> 0, events |-> FALSE]
Keys(sources, presses) == [Quiet EXCEPT !.sources = sources, !.presses = presses]
Hots(hotkeys, presses) == [Quiet EXCEPT !.hotkeys = hotkeys, !.presses = presses]

UsbScenes == {
  \* A chord, with the cable pulled and the bus reset under it.
  [Keys({"one", "two"}, 2) EXCEPT !.mounts = 2],
  \* More reports than the queue takes.
  [Keys({"one", "two"}, 4) EXCEPT !.mounts = 1],
  \* Texts typed over a held key, and a key beyond the rollover.
  [Keys({"one", "three"}, 2) EXCEPT !.mounts = 1, !.texts = 2],
  \* Two sources of one usage, and everything let go at once.
  [Keys({"one", "four"}, 2) EXCEPT !.mounts = 2, !.switches = 1],
  \* Hotkeys: two for one source, across lifetimes, and behind a text.
  [Hots({"h1", "h2"}, 2) EXCEPT !.mounts = 2],
  [Hots({"h1"}, 2) EXCEPT !.mounts = 1, !.texts = 1],
  \* Two keys with one hotkey.
  [Hots({"h1"}, 2) EXCEPT !.mounts = 2, !.bridges = {"app", "mic"}],
  [Hots({"h1"}, 3) EXCEPT !.mounts = 1, !.sources = {"one"}]}

Eventful(scene) == [scene EXCEPT !.events = TRUE]

BleScenes == {
  \* A chord, with the connection lost and its handle used again.
  Eventful([Keys({"one", "two"}, 2) EXCEPT !.links = 2]),
  \* Sends that fail for good, terminations that fail, host resets.
  Eventful([Keys({"one"}, 1) EXCEPT !.links = 2, !.faults = 2]),
  [Hots({"h1"}, 2) EXCEPT !.links = 2, !.faults = 1],
  \* A hotkey under two adoptions of the event-loop task.
  Eventful([Hots({"h1"}, 2) EXCEPT !.links = 2]),
  \* The boot protocol under a key, a hotkey and a text.
  Eventful([Hots({"h1"}, 1) EXCEPT !.sources = {"one"}, !.links = 1, !.texts = 1, !.switches = 1]),
  [Hots({"h1"}, 1) EXCEPT !.links = 2, !.texts = 1]}

\* Both hosts at once.
BothScenes == {
  [Keys({"one"}, 2) EXCEPT !.mounts = 1, !.links = 2],
  Eventful([Keys({"one"}, 2) EXCEPT !.mounts = 1, !.links = 1])}

\* One key, one host, and the event-loop task.
MCLateScenes == {Eventful([Keys({"one"}, 1) EXCEPT !.links = 1])}

MCScenes == UsbScenes \cup BleScenes \cup BothScenes
=============================================================================
