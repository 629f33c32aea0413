---------------------- MODULE KeyboardDeliveryProofs ----------------------
(***************************************************************************)
(* For any keys, queues, texts and disturbances: no host sees an input     *)
(* that was made before its lifetime began, and none is left with a chord  *)
(* that the keyboard does not count as delivered to it.                    *)
(*                                                                         *)
(* Whatever names a lifetime l and an input i (a report in a queue, a text *)
(* on its way, the latch of a chord that is held) is Rightful: l is not of *)
(* the future, and if l is alive, it was so when i was last pressed.  A    *)
(* lifetime that is over never comes back, so steps keep this (Follows).   *)
(* The parts of the invariant KeyboardOk say it of each place:             *)
(*                                                                         *)
(*   - UsbOk: reports, and operations of texts, which are typed over the   *)
(*     chord last shown; after a change of the lifetime the queues are     *)
(*     cleared before anything is added;                                   *)
(*   - BleOk: reports and the text's stream;                               *)
(*   - KeysOk: the chord; one that is held without a latch is about to     *)
(*     choose among lifetimes sampled after it was pressed;                *)
(*   - HotOk: the hotkey of each source, in the same way;                  *)
(*   - HostOk: what a host that is alive takes for pressed.                *)
(*                                                                         *)
(* The second invariant, DeliveredOk, is about the reports that are still  *)
(* to come.  The last one a queue has for a lifetime decides what its host *)
(* will take for pressed (Ends), and that is what the keyboard counts as   *)
(* delivered there (Faithful).  A queue that is about to be cleared for a  *)
(* new owner has no report for that owner (Alien), so that nothing is lost *)
(* with it; the event-loop task's adoption can break this when it comes    *)
(* late, and an owner who lost a report that way is no longer Watched.     *)
(***************************************************************************)
EXTENDS KeyboardDelivery, TLAPS

-----------------------------------------------------------------------------
(* The invariant. *)

Transports == {"Usb", "Ble"}
Lifetimes == Transports \X Nat

\* What is alive, what was when each input was pressed, and the epochs so far.
World ==
  [usb |-> usb.epoch, ble |-> adapter.gen, alive |-> Alive, born |-> env.born,
   behind |-> env.behind]

Past(w, l) == (l[1] = "Usb" => l[2] <= w.usb) /\ (l[1] = "Ble" => l[2] <= w.ble)
Rightful(w, l, i) == Past(w, l) /\ (l \in w.alive => l \in w.born[i])
Excused(w, l, h) == h \in w.behind \/ Rightful(w, l, h)
Sampled(w, at, i) == \A o \in Transports : Rightful(w, <<o, at[o]>>, i)

Entries ==
  [class : {"Press", "Release", "AllReleased", "Command", "CommandPress", "CommandRelease"},
   keys : SUBSET Inputs, hot : Hotkeys \cup {NoHot}, chunk : 0..Pieces, own : Lifetimes]
ReportOk(w, r) ==
  /\ r \in Entries /\ r.own[2] # NoEpoch
  /\ IsSnapshot(r) => \A i \in r.keys : Rightful(w, r.own, i)
  /\ r.class = "CommandPress" => r.hot \in Hotkeys /\ Excused(w, r.own, r.hot)
  /\ r.class = "Command" => Rightful(w, r.own, Typed)
Told(w, q) ==
  q \in Seq(Entries) /\ Len(q) <= Capacity /\ \A i \in DOMAIN q : ReportOk(w, q[i])

UsbRecord(u) ==
  u = [vbus |-> u.vbus, present |-> u.present, phys |-> u.phys, fresh |-> u.fresh,
       tiny |-> u.tiny, tud |-> u.tud, epoch |-> u.epoch, reset |-> u.reset, keys |-> u.keys,
       cmds |-> u.cmds, ops |-> u.ops, shown |-> u.shown, turn |-> u.turn]
Operations == [left : Int, own : Lifetimes]
OpsOk(w, u) ==
  /\ u.ops \in Seq(Operations) /\ Len(u.ops) <= TextQueue
  /\ ~u.reset => \A i \in DOMAIN u.ops :
       u.ops[i].own = Usb(u.epoch) /\ u.epoch # NoEpoch /\ Rightful(w, Usb(u.epoch), Typed)
ShownOk(w, u) ==
  u.shown \subseteq Inputs /\ (~u.reset => \A i \in u.shown : Rightful(w, Usb(u.epoch), i))
UsbOk(w, u) ==
  /\ UsbRecord(u) /\ u.epoch \in Nat /\ u.epoch = w.usb
  /\ Told(w, u.keys) /\ Told(w, u.cmds) /\ OpsOk(w, u) /\ ShownOk(w, u)

BleRecord(b) ==
  b = [active |-> b.active, reset |-> b.reset, queue |-> b.queue, text |-> b.text,
       phase |-> b.phase, target |-> b.target]
TextOk(w, t) ==
  t # NoText => /\ t \in [next : 1..Pieces, own : Lifetimes]
                /\ t.own[2] # NoEpoch /\ Rightful(w, t.own, Typed)
BleOk(w, b) ==
  /\ BleRecord(b) /\ Told(w, b.queue) /\ TextOk(w, b.text)
  /\ Recovering(b) = (b.target # NoOwner)

AppRecord(a) ==
  /\ a = [held |-> a.held, keys |-> a.keys, latch |-> a.latch, hot |-> a.hot,
          hlatch |-> a.hlatch, at |-> a.at, pc |-> a.pc]
  /\ a.hot \in [Bridged -> [desired : Hotkeys \cup {NoHot}, accepted : Hotkeys \cup {NoHot}]]
Latches == [owner : {"None", "Usb", "Ble", "Suppressed"}, epoch : Nat]
LatchOk(w, l) == l \in Latches /\ (IsLatched(l) => l.epoch # NoEpoch /\ Past(w, LifeOf(l)))
AtOk(w, at) == at \in [Transports -> Nat] /\ \A o \in Transports : Past(w, <<o, at[o]>>)
DeliveryOk(d, held) ==
  /\ d \in [desired : SUBSET Inputs, accepted : SUBSET Inputs, pending : BOOLEAN]
  /\ d.desired = KeysOf(held) /\ d.pending = (d.desired # d.accepted)
KeysOk(w, a) ==
  /\ a.held \subseteq DOMAIN Key /\ DeliveryOk(a.keys, a.held) /\ LatchOk(w, a.latch)
  /\ a.latch.owner = "None" =>
       /\ a.keys.accepted = {}
       /\ a.keys.desired # {} => a.pc = "keys" /\ \A i \in a.keys.desired : Sampled(w, a.at, i)
  /\ IsLatched(a.latch) => \A i \in a.keys.desired : Rightful(w, LifeOf(a.latch), i)
HotOk(w, d, l, at, here) ==
  /\ LatchOk(w, l)
  /\ l.owner = "None" => d.accepted = NoHot
  /\ d.desired # NoHot =>
       /\ IsLatched(l) => Excused(w, LifeOf(l), d.desired)
       /\ d.accepted \notin {NoHot, d.desired} => d.desired \in w.behind
       /\ l.owner = "None" => d.desired \in w.behind \/ (here /\ Sampled(w, at, d.desired))
HotsOk(w, a) ==
  /\ DOMAIN a.hlatch = Bridged
  /\ \A s \in Bridged : HotOk(w, a.hot[s], a.hlatch[s], a.at, a.pc = s)
AppOk(w, a) == AppRecord(a) /\ AtOk(w, a.at) /\ KeysOk(w, a) /\ HotsOk(w, a)

ViewRecord(v) == v = [live |-> v.live, keys |-> v.keys, hot |-> v.hot, text |-> v.text]
HostOk(w, v, l) ==
  /\ ViewRecord(v) /\ v.keys \cup v.hot \subseteq Inputs
  /\ v.live => /\ l \in w.alive
               /\ \A i \in v.keys \cup (v.hot \ w.behind) : l \in w.born[i]
               /\ v.text # 0 => l \in w.born[Typed]

AdapterOk(a) ==
  /\ a = [owner |-> a.owner, gen |-> a.gen, synced |-> a.synced, boot |-> a.boot,
          conns |-> a.conns, closing |-> a.closing, reset |-> a.reset, task |-> a.task,
          event |-> a.event]
  /\ a.conns \subseteq Handles /\ a.closing \subseteq a.conns /\ a.owner \in a.conns \cup {0}
  /\ a.gen \in Nat /\ (a.owner # 0 => a.gen # 0)
EnvOk ==
  /\ env = [left |-> env.left, born |-> env.born, behind |-> env.behind, shared |-> env.shared,
           late |-> env.late]
  /\ env.left \in Bounds /\ DOMAIN env.born = Inputs
LinksOk ==
  /\ hosts = [Usb |-> hosts.Usb, Ble |-> hosts.Ble]
  /\ hosts.Usb.live => usb.vbus /\ UsbEpoch(usb) # NoEpoch
  /\ hosts.Ble.live = (adapter.owner # 0)
  /\ app.pc = "sendBle" => ble.queue # <<>>

HostsOk(w) == HostOk(w, hosts.Usb, Life("Usb")) /\ HostOk(w, hosts.Ble, Life("Ble"))

KeyboardOk ==
  /\ UsbOk(World, usb) /\ BleOk(World, ble) /\ AppOk(World, app) /\ HostsOk(World)
  /\ AdapterOk(adapter) /\ EnvOk /\ LinksOk

-----------------------------------------------------------------------------
(* What time does to what was right. *)

\* Lifetimes that begin are new, and a press counts for all that are alive.
Follows(w, x) ==
  /\ w.usb \in Nat /\ w.ble \in Nat /\ x.usb \in Nat /\ x.ble \in Nat
  /\ w.usb <= x.usb /\ w.ble <= x.ble /\ w.behind \subseteq x.behind
  /\ \A l \in x.alive : l \in w.alive \/ ~Past(w, l)
  /\ \A i \in Inputs : x.born[i] = w.born[i] \/ x.alive \subseteq x.born[i]

LEMMA PastKept ==
  ASSUME NEW w, NEW x, Follows(w, x), NEW l \in Lifetimes, Past(w, l)
  PROVE  Past(x, l)
<1>1. l[2] \in Nat
  BY DEF Lifetimes
<1> QED
  BY <1>1 DEF Past, Follows

LEMMA RightfulKept ==
  ASSUME NEW w, NEW x, Follows(w, x), NEW l \in Lifetimes, NEW i \in Inputs, Rightful(w, l, i)
  PROVE  Rightful(x, l, i)
<1>1. Past(w, l) /\ (l \in w.alive => l \in w.born[i])
  BY DEF Rightful
<1>2. Past(x, l)
  BY <1>1, PastKept
<1>3. l \in x.alive => l \in w.alive /\ (x.born[i] = w.born[i] \/ x.alive \subseteq x.born[i])
  BY <1>1 DEF Follows
<1> QED
  BY <1>1, <1>2, <1>3 DEF Rightful

LEMMA ExcusedKept ==
  ASSUME NEW w, NEW x, Follows(w, x), NEW l \in Lifetimes, NEW i \in Inputs, Excused(w, l, i)
  PROVE  Excused(x, l, i)
BY RightfulKept DEF Excused, Follows

LEMMA ReportKept ==
  ASSUME NEW w, NEW x, Follows(w, x), NEW r, ReportOk(w, r)
  PROVE  ReportOk(x, r)
<1>1. /\ r \in Entries /\ r.own \in Lifetimes /\ r.keys \subseteq Inputs /\ Typed \in Inputs
      /\ r.class = "CommandPress" => r.hot \in Inputs
  BY DEF ReportOk, Entries, Inputs
<1>2. IsSnapshot(r) => \A i \in r.keys : Rightful(x, r.own, i)
  BY <1>1, RightfulKept DEF ReportOk
<1>3. r.class = "Command" => Rightful(x, r.own, Typed)
  BY <1>1, RightfulKept DEF ReportOk
<1>4. r.class = "CommandPress" => r.hot \in Hotkeys /\ Excused(x, r.own, r.hot)
  BY <1>1, ExcusedKept DEF ReportOk
<1> QED
  BY <1>1, <1>2, <1>3, <1>4 DEF ReportOk

LEMMA ToldKept ==
  ASSUME NEW w, NEW x, Follows(w, x), NEW q, Told(w, q)
  PROVE  Told(x, q)
BY ReportKept DEF Told

LEMMA UsbKept ==
  ASSUME NEW w, NEW x, Follows(w, x), NEW u, UsbOk(w, u), x.usb = u.epoch
  PROVE  UsbOk(x, u)
<1>1. /\ u.epoch \in Nat /\ Usb(u.epoch) \in Lifetimes /\ u.shown \subseteq Inputs
      /\ Typed \in Inputs
  BY DEF UsbOk, Usb, Lifetimes, Transports, ShownOk, Inputs
<1>2. Told(x, u.keys) /\ Told(x, u.cmds)
  BY ToldKept DEF UsbOk
<1>3. OpsOk(x, u)
  BY <1>1, RightfulKept DEF UsbOk, OpsOk
<1>4. ShownOk(x, u)
  BY <1>1, RightfulKept DEF UsbOk, ShownOk
<1> QED
  BY <1>1, <1>2, <1>3, <1>4 DEF UsbOk

LEMMA BleKept ==
  ASSUME NEW w, NEW x, Follows(w, x), NEW b, BleOk(w, b)
  PROVE  BleOk(x, b)
<1>1. TextOk(x, b.text)
  <2>1. Typed \in Inputs
    BY DEF Inputs
  <2> QED
    BY <2>1, RightfulKept DEF BleOk, TextOk
<1> QED
  BY <1>1, ToldKept DEF BleOk

LEMMA LatchKept ==
  ASSUME NEW w, NEW x, Follows(w, x), NEW l, LatchOk(w, l)
  PROVE  LatchOk(x, l) /\ (IsLatched(l) => LifeOf(l) \in Lifetimes)
<1>1. IsLatched(l) => LifeOf(l) \in Lifetimes
  BY DEF LatchOk, Latches, IsLatched, LifeOf, Lifetimes, Transports
<1>2. IsLatched(l) => Past(x, LifeOf(l))
  BY <1>1, PastKept DEF LatchOk
<1> QED
  BY <1>1, <1>2 DEF LatchOk

LEMMA SampleKept ==
  ASSUME NEW w, NEW x, Follows(w, x), NEW at, AtOk(w, at)
  PROVE  AtOk(x, at) /\ \A i \in Inputs : Sampled(w, at, i) => Sampled(x, at, i)
<1>1. \A o \in Transports : <<o, at[o]>> \in Lifetimes
  BY DEF AtOk, Lifetimes
<1>2. AtOk(x, at)
  BY <1>1, PastKept DEF AtOk
<1> QED
  BY <1>1, <1>2, RightfulKept DEF Sampled

LEMMA AppKept ==
  ASSUME NEW w, NEW x, Follows(w, x), NEW a, AppOk(w, a)
  PROVE  AppOk(x, a)
<1>1. AtOk(x, a.at) /\ \A i \in Inputs : Sampled(w, a.at, i) => Sampled(x, a.at, i)
  BY SampleKept DEF AppOk
<1>2. a.keys.desired \subseteq Inputs /\ KeysOk(w, a)
  BY DEF AppOk, KeysOk, DeliveryOk
<1>3. LatchOk(x, a.latch) /\ (IsLatched(a.latch) => LifeOf(a.latch) \in Lifetimes)
  BY <1>2, LatchKept DEF KeysOk
<1>4. IsLatched(a.latch) => \A i \in a.keys.desired : Rightful(x, LifeOf(a.latch), i)
  BY <1>2, <1>3, RightfulKept DEF KeysOk
<1>5. KeysOk(x, a)
  BY <1>1, <1>2, <1>3, <1>4 DEF KeysOk
<1>6. HotsOk(x, a)
  <2> SUFFICES ASSUME NEW s \in Bridged
               PROVE  HotOk(x, a.hot[s], a.hlatch[s], a.at, a.pc = s)
    BY DEF AppOk, HotsOk
  <2> DEFINE d == a.hot[s]
             l == a.hlatch[s]
  <2>1. /\ HotOk(w, d, l, a.at, a.pc = s)
        /\ d \in [desired : Hotkeys \cup {NoHot}, accepted : Hotkeys \cup {NoHot}]
    BY DEF AppOk, HotsOk, AppRecord
  <2> HIDE DEF d, l
  <2>2. LatchOk(x, l) /\ (IsLatched(l) => LifeOf(l) \in Lifetimes)
    BY <2>1, LatchKept DEF HotOk
  <2>3. d.desired # NoHot => d.desired \in Inputs
    BY <2>1 DEF Inputs
  <2>4. d.desired # NoHot /\ IsLatched(l) => Excused(x, LifeOf(l), d.desired)
    BY <2>1, <2>2, <2>3, ExcusedKept DEF HotOk
  <2>5. d.desired # NoHot /\ l.owner = "None" =>
          d.desired \in x.behind \/ (a.pc = s /\ Sampled(x, a.at, d.desired))
    BY <2>1, <2>3, <1>1 DEF HotOk, Follows
  <2>6. HotOk(x, d, l, a.at, a.pc = s)
    BY <2>1, <2>2, <2>4, <2>5 DEF HotOk, Follows
  <2> QED
    BY <2>6 DEF d, l
<1> QED
  BY <1>1, <1>5, <1>6 DEF AppOk

\* A host that is still there.
LEMMA HostKept ==
  ASSUME NEW w, NEW x, Follows(w, x), NEW v, NEW l, HostOk(w, v, l), v.live => l \in x.alive
  PROVE  HostOk(x, v, l)
<1>1. Typed \in Inputs /\ v.keys \subseteq Inputs /\ v.hot \subseteq Inputs
  BY DEF Inputs, HostOk
<1>2. v.live => \A i \in Inputs : l \in w.born[i] => l \in x.born[i]
  BY DEF Follows
<1>3. w.behind \subseteq x.behind
  BY DEF Follows
<1> QED
  BY <1>1, <1>2, <1>3 DEF HostOk

-----------------------------------------------------------------------------
(* The queues of USB. *)

\* The reserves of the queue's classes are within it.
LEMMA LimitsAreBounded ==
  ASSUME NEW r \in Entries
  PROVE  /\ Limit(r.class) \in Int /\ Limit(r.class) <= Capacity
         /\ UsbLimit(r) \in Int /\ UsbLimit(r) <= Capacity
         /\ Limit("Command") \in Nat /\ Limit("Command") <= Capacity
         /\ Capacity \in Nat /\ 2 <= Capacity
<1>1. /\ Capacity \in Nat /\ InputCount \in Nat /\ 1 <= InputCount
      /\ 2 * InputCount <= Capacity
  BY QueueHasRoom
<1>2. r.class \in {"Press", "Release", "AllReleased", "Command", "CommandPress", "CommandRelease"}
  BY DEF Entries
<1>3. Limit(r.class) \in Int /\ Limit(r.class) <= Capacity
  BY <1>1, <1>2 DEF Limit
<1>4. UsbLimit(r) \in Int /\ UsbLimit(r) <= Capacity
  BY <1>1, <1>2, <1>3 DEF UsbLimit
<1>5. Limit("Command") \in Nat /\ Limit("Command") <= Capacity
  BY <1>1 DEF Limit
<1> QED
  BY <1>1, <1>3, <1>4, <1>5

LEMMA EmptyIsTold ==
  ASSUME NEW w
  PROVE  Told(w, <<>>)
BY QueueHasRoom DEF Told

LEMMA AppendedIsTold ==
  ASSUME NEW w, NEW q, Told(w, q), NEW r, ReportOk(w, r), Len(q) < Capacity
  PROVE  Told(w, Append(q, r))
<1>1. q \in Seq(Entries) /\ r \in Entries /\ Len(q) \in Nat /\ Capacity \in Nat
  BY QueueHasRoom DEF Told, ReportOk
<1>2. Append(q, r) \in Seq(Entries) /\ Len(Append(q, r)) = Len(q) + 1
  BY <1>1
<1>3. \A i \in DOMAIN Append(q, r) : Append(q, r)[i] = r \/ (i \in DOMAIN q /\ Append(q, r)[i] = q[i])
  BY <1>1
<1> QED
  BY <1>1, <1>2, <1>3 DEF Told

LEMMA PushedIsTold ==
  ASSUME NEW w, NEW q, Told(w, q), NEW r, ReportOk(w, r), NEW limit \in Int, limit <= Capacity,
         Accepts(q, r, limit)
  PROVE  Told(w, Pushed(q, r)) /\ Pushed(q, r) # <<>>
<1>1. q \in Seq(Entries) /\ Len(q) \in Nat /\ Capacity \in Nat /\ r \in Entries
  BY QueueHasRoom DEF Told, ReportOk
<1>2. CASE Coalesces(q, r)
  <2>1. Pushed(q, r) = q /\ q # <<>>
    BY <1>2 DEF Pushed, Coalesces
  <2> QED
    BY <2>1
<1>3. CASE ~Coalesces(q, r)
  <2>1. Pushed(q, r) = Append(q, r) /\ Len(q) < Capacity
    BY <1>1, <1>3 DEF Pushed, Accepts
  <2>2. Append(q, r) # <<>>
    BY <1>1
  <2> QED
    BY <2>1, <2>2, AppendedIsTold
<1> QED
  BY <1>2, <1>3

LEMMA PoppedIsTold ==
  ASSUME NEW w, NEW q, Told(w, q), q # <<>>
  PROVE  Told(w, Tail(q)) /\ ReportOk(w, Head(q))
<1>1. q \in Seq(Entries) /\ Len(q) \in Nat /\ Capacity \in Nat /\ 1 \in DOMAIN q /\ Head(q) = q[1]
  BY QueueHasRoom DEF Told
<1>2. Tail(q) \in Seq(Entries) /\ Len(Tail(q)) = Len(q) - 1
  BY <1>1
<1>3. \A i \in DOMAIN Tail(q) : i + 1 \in DOMAIN q /\ Tail(q)[i] = q[i + 1]
  BY <1>1
<1> QED
  BY <1>1, <1>2, <1>3 DEF Told

\* Chunks of a text behind the queue.
LEMMA ChunksAreTold ==
  ASSUME NEW w, NEW q, Told(w, q), NEW l \in Lifetimes, l[2] # NoEpoch, Rightful(w, l, Typed),
         NEW n \in Nat, NEW m \in Nat, m + n <= Pieces, Len(q) + n <= Capacity
  PROVE  Told(w, q \o [i \in 1..n |-> TextReport(m + i, l)])
<1> DEFINE t == [i \in 1..n |-> TextReport(m + i, l)]
<1>1. q \in Seq(Entries) /\ Len(q) \in Nat /\ Capacity \in Nat /\ Pieces \in Nat
  BY QueueHasRoom, BoundsAreNumbers DEF Told
<1>2. \A i \in 1..n : ReportOk(w, TextReport(m + i, l))
  <2> SUFFICES ASSUME NEW i \in 1..n PROVE ReportOk(w, TextReport(m + i, l))
    OBVIOUS
  <2> DEFINE r == TextReport(m + i, l)
  <2>1. m + i \in 0..Pieces
    BY <1>1
  <2>2. r \in Entries /\ r.own = l /\ r.class = "Command"
    BY <2>1 DEF TextReport, Entries
  <2> HIDE DEF r
  <2>3. ReportOk(w, r)
    BY <2>2 DEF ReportOk, IsSnapshot
  <2> QED
    BY <2>3 DEF r
<1>3. t \in Seq(Entries) /\ Len(t) = n /\ \A i \in 1..n : ReportOk(w, t[i])
  BY <1>2 DEF ReportOk
<1> HIDE DEF t
<1>4. q \o t \in Seq(Entries) /\ Len(q \o t) = Len(q) + n
  BY <1>1, <1>3
<1>5. \A i \in DOMAIN (q \o t) :
        IF i <= Len(q) THEN i \in DOMAIN q /\ (q \o t)[i] = q[i]
        ELSE i - Len(q) \in 1..n /\ (q \o t)[i] = t[i - Len(q)]
  BY <1>1, <1>3
<1>6. Told(w, q \o t)
  BY <1>1, <1>3, <1>4, <1>5 DEF Told
<1> QED
  BY <1>6 DEF t

\* The endpoint's flags.
SamePort(u, v) ==
  /\ v.vbus = u.vbus /\ v.present = u.present /\ v.phys = u.phys /\ v.fresh = u.fresh
  /\ v.tiny = u.tiny /\ v.tud = u.tud /\ v.epoch = u.epoch
Usable(w, u, v) == UsbOk(w, v) /\ SamePort(u, v) /\ UsbEpoch(v) = UsbEpoch(u)

LEMMA SamePortSameEpoch ==
  ASSUME NEW u, NEW v, SamePort(u, v)
  PROVE  UsbEpoch(v) = UsbEpoch(u)
BY DEF SamePort, UsbEpoch

LEMMA EpochIsCurrent ==
  ASSUME NEW u
  PROVE  UsbEpoch(u) # NoEpoch => UsbEpoch(u) = u.epoch
BY DEF UsbEpoch

LEMMA UsbClearedOk ==
  ASSUME NEW w, NEW u, UsbOk(w, u)
  PROVE  Usable(w, u, UsbCleared(u)) /\ UsbCleared(u).reset = u.reset
<1> DEFINE v == UsbCleared(u)
<1>0. v = [u EXCEPT !.keys = <<>>, !.cmds = <<>>, !.ops = <<>>, !.shown = {}, !.turn = "Keys"]
      /\ UsbRecord(u)
  BY DEF UsbCleared, UsbOk
<1> HIDE DEF v
<1>a. UsbRecord(v)
  BY <1>0 DEF UsbRecord
<1>1. SamePort(u, v) /\ v.reset = u.reset
  BY <1>0 DEF UsbRecord, SamePort
<1>2. v.keys = <<>> /\ v.cmds = <<>> /\ v.ops = <<>> /\ v.shown = {}
  BY <1>0 DEF UsbRecord
<1>3. Told(w, v.keys) /\ Told(w, v.cmds)
  BY <1>2, EmptyIsTold
<1>4. OpsOk(w, v)
  BY <1>2, BoundsAreNumbers DEF OpsOk
<1>5. ShownOk(w, v)
  BY <1>2 DEF ShownOk
<1>6. UsbOk(w, v) /\ UsbEpoch(v) = UsbEpoch(u)
  BY <1>1, <1>a, <1>3, <1>4, <1>5, SamePortSameEpoch DEF UsbOk, SamePort
<1> QED
  BY <1>1, <1>6 DEF v, Usable

LEMMA UsbReadyOk ==
  ASSUME NEW w, NEW u, UsbOk(w, u)
  PROVE  Usable(w, u, UsbReady(u)) /\ UsbReady(u).reset = FALSE
<1>1. CASE u.reset
  <2> DEFINE c == UsbCleared(u)
             v == [c EXCEPT !.reset = FALSE]
  <2>1. UsbReady(u) = v
    BY <1>1 DEF UsbReady
  <2>2. /\ UsbOk(w, c) /\ SamePort(u, c)
        /\ c.keys = <<>> /\ c.cmds = <<>> /\ c.ops = <<>> /\ c.shown = {}
    <3>1. c.keys = <<>> /\ c.cmds = <<>> /\ c.ops = <<>> /\ c.shown = {}
      BY DEF UsbOk, UsbRecord, UsbCleared
    <3> QED
      BY <3>1, UsbClearedOk DEF Usable
  <2> HIDE DEF c
  <2>a. v = [c EXCEPT !.reset = FALSE] /\ UsbRecord(c)
    BY <2>2 DEF UsbOk
  <2> HIDE DEF v
  <2>b. UsbRecord(v)
    BY <2>a DEF UsbRecord
  <2>3. UsbRecord(v) /\ SamePort(c, v) /\ v.reset = FALSE
    BY <2>a, <2>b DEF UsbRecord, SamePort
  <2>4. v.keys = <<>> /\ v.cmds = <<>> /\ v.ops = <<>> /\ v.shown = {}
    BY <2>a, <2>2 DEF UsbRecord
  <2>5. Told(w, v.keys) /\ Told(w, v.cmds)
    BY <2>4, EmptyIsTold
  <2>6. OpsOk(w, v) /\ ShownOk(w, v)
    BY <2>4, BoundsAreNumbers DEF OpsOk, ShownOk
  <2>7. UsbOk(w, v) /\ SamePort(u, v)
    BY <2>2, <2>3, <2>5, <2>6 DEF UsbOk, SamePort
  <2> QED
    BY <2>1, <2>3, <2>7, SamePortSameEpoch DEF Usable
<1>2. CASE ~u.reset
  <2>1. UsbReady(u) = u
    BY <1>2 DEF UsbReady
  <2> QED
    BY <1>2, <2>1 DEF Usable, SamePort
<1> QED
  BY <1>1, <1>2

LEMMA UsbQueuedOk ==
  ASSUME NEW w, NEW u, UsbOk(w, u), u.reset = FALSE, NEW r, ReportOk(w, r),
         r.own = Usb(UsbEpoch(u)),
         Accepts(IF IsSnapshot(r) THEN u.keys ELSE u.cmds, r, UsbLimit(r))
  PROVE  Usable(w, u, UsbQueued(u, r))
<1>0. r \in Entries /\ UsbLimit(r) \in Int /\ UsbLimit(r) <= Capacity
  BY LimitsAreBounded DEF ReportOk
<1>1. CASE IsSnapshot(r)
  <2> DEFINE q == Pushed(u.keys, r)
             v == [u EXCEPT !.keys = q, !.shown = r.keys]
  <2>1. Told(w, q)
    BY <1>0, <1>1, PushedIsTold DEF UsbOk
  <2> HIDE DEF q
  <2>a. v = [u EXCEPT !.keys = q, !.shown = r.keys] /\ UsbRecord(u)
    BY DEF UsbOk
  <2> HIDE DEF v
  <2>b. UsbRecord(v)
    BY <2>a DEF UsbRecord
  <2>2. UsbRecord(v) /\ SamePort(u, v) /\ v.reset = u.reset
    BY <2>a, <2>b DEF UsbRecord, SamePort
  <2>3. v.keys = q /\ v.cmds = u.cmds /\ v.ops = u.ops /\ v.shown = r.keys
    BY <2>a DEF UsbRecord
  <2>4. OpsOk(w, v)
    BY <2>2, <2>3 DEF OpsOk, UsbOk, SamePort
  <2>5. ShownOk(w, v)
    <3>1. r.own = Usb(u.epoch) /\ r.keys \subseteq Inputs
      BY <1>0, EpochIsCurrent DEF ReportOk, Usb, Entries
    <3>2. \A i \in r.keys : Rightful(w, Usb(u.epoch), i)
      BY <1>1, <3>1 DEF ReportOk
    <3> QED
      BY <2>2, <2>3, <3>1, <3>2 DEF ShownOk, SamePort
  <2>6. UsbOk(w, v)
    BY <2>1, <2>2, <2>3, <2>4, <2>5 DEF UsbOk, SamePort
  <2>7. UsbQueued(u, r) = v
    BY <1>1 DEF UsbQueued, v, q
  <2> QED
    BY <2>2, <2>6, <2>7, SamePortSameEpoch DEF Usable
<1>2. CASE ~IsSnapshot(r)
  <2> DEFINE q == Append(u.cmds, r)
             v == [u EXCEPT !.cmds = q]
  <2>1. Told(w, q)
    <3>1. Len(u.cmds) < UsbLimit(r) /\ Told(w, u.cmds)
      BY <1>2 DEF Accepts, Coalesces, UsbOk
    <3>2. Len(u.cmds) < Capacity
      BY <1>0, <3>1, QueueHasRoom DEF Told
    <3> QED
      BY <3>1, <3>2, AppendedIsTold
  <2> HIDE DEF q
  <2>a. v = [u EXCEPT !.cmds = q] /\ UsbRecord(u)
    BY DEF UsbOk
  <2> HIDE DEF v
  <2>b. UsbRecord(v)
    BY <2>a DEF UsbRecord
  <2>2. UsbRecord(v) /\ SamePort(u, v) /\ v.reset = u.reset
    BY <2>a, <2>b DEF UsbRecord, SamePort
  <2>3. v.keys = u.keys /\ v.cmds = q /\ v.ops = u.ops /\ v.shown = u.shown
    BY <2>a DEF UsbRecord
  <2>4. OpsOk(w, v) /\ ShownOk(w, v)
    BY <2>2, <2>3 DEF OpsOk, ShownOk, UsbOk, SamePort
  <2>5. UsbOk(w, v)
    BY <2>1, <2>2, <2>3, <2>4 DEF UsbOk, SamePort
  <2>6. UsbQueued(u, r) = v
    BY <1>2 DEF UsbQueued, v, q
  <2> QED
    BY <2>2, <2>5, <2>6, SamePortSameEpoch DEF Usable
<1> QED
  BY <1>1, <1>2

\* Only what waits changes.
LEMMA UsbPartsOk ==
  ASSUME NEW w, NEW u, UsbOk(w, u), NEW v, UsbRecord(v), SamePort(u, v), Told(w, v.keys),
         Told(w, v.cmds), v.ops = u.ops, v.shown = u.shown, v.reset = u.reset
  PROVE  Usable(w, u, v)
<1>1. OpsOk(w, v) /\ ShownOk(w, v)
  BY DEF OpsOk, ShownOk, UsbOk, SamePort
<1> QED
  BY <1>1, SamePortSameEpoch DEF UsbOk, SamePort, Usable

LEMMA UsbPoppedOk ==
  ASSUME NEW w, NEW u, UsbOk(w, u), NEW kind \in {"Keys", "Cmds"}, NEW turn,
         (IF kind = "Keys" THEN u.keys ELSE u.cmds) # <<>>
  PROVE  LET v == IF kind = "Keys" THEN [u EXCEPT !.keys = Tail(@)] ELSE [u EXCEPT !.cmds = Tail(@)]
         IN /\ Usable(w, u, v) /\ Usable(w, u, [v EXCEPT !.turn = turn])
            /\ ReportOk(w, IF kind = "Keys" THEN Head(u.keys) ELSE Head(u.cmds))
<1> DEFINE v == IF kind = "Keys" THEN [u EXCEPT !.keys = Tail(@)] ELSE [u EXCEPT !.cmds = Tail(@)]
           x == [v EXCEPT !.turn = turn]
<1>1. UsbRecord(u) /\ Told(w, u.keys) /\ Told(w, u.cmds)
  BY DEF UsbOk
<1>2. UsbRecord(v) /\ SamePort(u, v) /\ v.ops = u.ops /\ v.shown = u.shown /\ v.reset = u.reset
  <2>1. CASE kind = "Keys"
    <3>1. v = [u EXCEPT !.keys = Tail(u.keys)]
      BY <1>1, <2>1 DEF UsbRecord
    <3> HIDE DEF v
    <3>2. UsbRecord(v)
      BY <1>1, <3>1 DEF UsbRecord
    <3> QED
      BY <1>1, <3>1, <3>2 DEF UsbRecord, SamePort
  <2>2. CASE kind # "Keys"
    <3>1. v = [u EXCEPT !.cmds = Tail(u.cmds)]
      BY <1>1, <2>2 DEF UsbRecord
    <3> HIDE DEF v
    <3>2. UsbRecord(v)
      BY <1>1, <3>1 DEF UsbRecord
    <3> QED
      BY <1>1, <3>1, <3>2 DEF UsbRecord, SamePort
  <2> QED
    BY <2>1, <2>2
<1>3. /\ v.keys = IF kind = "Keys" THEN Tail(u.keys) ELSE u.keys
      /\ v.cmds = IF kind = "Keys" THEN u.cmds ELSE Tail(u.cmds)
  BY <1>1 DEF UsbRecord
<1> HIDE DEF v
<1>4. /\ Told(w, v.keys) /\ Told(w, v.cmds)
      /\ ReportOk(w, IF kind = "Keys" THEN Head(u.keys) ELSE Head(u.cmds))
  BY <1>1, <1>3, PoppedIsTold
<1>5. Usable(w, u, v)
  BY <1>2, <1>4, UsbPartsOk
<1>a. x = [v EXCEPT !.turn = turn]
  OBVIOUS
<1> HIDE DEF x
<1>6. UsbRecord(x)
  BY <1>2, <1>a DEF UsbRecord
<1>7. /\ SamePort(v, x) /\ x.ops = v.ops /\ x.shown = v.shown /\ x.reset = v.reset
      /\ x.keys = v.keys /\ x.cmds = v.cmds
  BY <1>2, <1>a DEF UsbRecord, SamePort
<1>8. Usable(w, v, x)
  BY <1>4, <1>5, <1>6, <1>7, UsbPartsOk DEF Usable
<1>9. Usable(w, u, x)
  BY <1>5, <1>8 DEF Usable, SamePort
<1> QED
  BY <1>4, <1>5, <1>9 DEF x, v

LEMMA TypedOnUsb ==
  ASSUME NEW w, NEW u, UsbOk(w, u), u.reset = FALSE, UsbEpoch(u) # NoEpoch,
         Rightful(w, Usb(u.epoch), Typed)
  PROVE  Usable(w, u, TypeOnUsb(u))
<1>1. CASE Len(u.ops) < TextQueue
  <2> DEFINE op == [left |-> Pieces, own |-> Usb(UsbEpoch(u))]
             q == Append(u.ops, op)
             v == [u EXCEPT !.ops = q]
  <2>1. op \in Operations /\ op.own = Usb(u.epoch) /\ u.epoch # NoEpoch
    BY EpochIsCurrent, BoundsAreNumbers DEF Operations, Lifetimes, Transports, Usb, UsbOk
  <2> HIDE DEF op
  <2>2. u.ops \in Seq(Operations) /\ Len(u.ops) \in Nat /\ TextQueue \in Nat
    BY BoundsAreNumbers DEF UsbOk, OpsOk
  <2>3. /\ q \in Seq(Operations) /\ Len(q) <= TextQueue
        /\ \A i \in DOMAIN q : q[i] = op \/ (i \in DOMAIN u.ops /\ q[i] = u.ops[i])
    BY <1>1, <2>1, <2>2
  <2> HIDE DEF q
  <2>a. v = [u EXCEPT !.ops = q] /\ UsbRecord(u)
    BY DEF UsbOk
  <2> HIDE DEF v
  <2>b. UsbRecord(v)
    BY <2>a DEF UsbRecord
  <2>4. /\ SamePort(u, v) /\ v.keys = u.keys /\ v.cmds = u.cmds /\ v.ops = q
        /\ v.shown = u.shown /\ v.reset = u.reset
    BY <2>a DEF UsbRecord, SamePort
  <2>5. OpsOk(w, v)
    BY <2>1, <2>3, <2>4 DEF OpsOk, UsbOk, SamePort
  <2>6. ShownOk(w, v)
    BY <2>4 DEF ShownOk, UsbOk, SamePort
  <2>7. UsbOk(w, v)
    BY <2>b, <2>4, <2>5, <2>6 DEF UsbOk, SamePort
  <2>8. TypeOnUsb(u) = v
    BY <1>1 DEF TypeOnUsb, v, q, op
  <2> QED
    BY <2>4, <2>7, <2>8, SamePortSameEpoch DEF Usable
<1>2. CASE ~(Len(u.ops) < TextQueue)
  BY <1>2 DEF TypeOnUsb, Usable, SamePort
<1> QED
  BY <1>1, <1>2

LEMMA ChunksFollowOnUsb ==
  ASSUME NEW w, NEW u, UsbOk(w, u), UsbEpoch(u) # NoEpoch, Rightful(w, Usb(u.epoch), Typed)
  PROVE  Usable(w, u, ChunksOnUsb(u))
<1>1. CASE Len(u.cmds) + Pieces <= Capacity - 2
  <2> DEFINE l == Usb(UsbEpoch(u))
             t == [i \in 1..Pieces |-> TextReport(0 + i, l)]
             q == u.cmds \o t
             v == [u EXCEPT !.cmds = q]
  <2>1. l \in Lifetimes /\ l[2] # NoEpoch /\ Rightful(w, l, Typed)
    BY EpochIsCurrent DEF Lifetimes, Transports, Usb, UsbOk
  <2>2. Pieces \in Nat /\ Capacity \in Nat /\ Len(u.cmds) \in Nat
    BY BoundsAreNumbers, QueueHasRoom DEF UsbOk, Told
  <2>3. t = [i \in 1..Pieces |-> TextReport(i, l)]
    BY <2>2
  <2> HIDE DEF l
  <2>4. Told(w, q)
    BY <1>1, <2>1, <2>2, ChunksAreTold DEF UsbOk
  <2> HIDE DEF q
  <2>a. v = [u EXCEPT !.cmds = q] /\ UsbRecord(u)
    BY DEF UsbOk
  <2> HIDE DEF v
  <2>b. UsbRecord(v)
    BY <2>a DEF UsbRecord
  <2>5. /\ SamePort(u, v) /\ v.keys = u.keys /\ v.cmds = q /\ v.ops = u.ops
        /\ v.shown = u.shown /\ v.reset = u.reset
    BY <2>a DEF UsbRecord, SamePort
  <2>6. Usable(w, u, v)
    BY <2>4, <2>b, <2>5, UsbPartsOk DEF UsbOk
  <2>7. v = [u EXCEPT !.cmds = @ \o [i \in 1..Pieces |-> TextReport(i, Usb(UsbEpoch(u)))]]
    BY <2>a, <2>3 DEF UsbRecord, q, l
  <2> QED
    BY <1>1, <2>6, <2>7 DEF ChunksOnUsb
<1>2. CASE ~(Len(u.cmds) + Pieces <= Capacity - 2)
  BY <1>2 DEF ChunksOnUsb, Usable, SamePort
<1> QED
  BY <1>1, <1>2

LEMMA UsbPumpedOk ==
  ASSUME NEW w, NEW u, UsbOk(w, u), u.reset = FALSE
  PROVE  Usable(w, u, UsbPumped(u))
<1>1. CASE u.keys # <<>> \/ u.ops = <<>> \/ ~Fits(u.shown \cup {Typed})
  BY <1>1 DEF UsbPumped, Usable, SamePort
<1>2. CASE ~(u.keys # <<>> \/ u.ops = <<>> \/ ~Fits(u.shown \cup {Typed}))
  <2> DEFINE op == Head(u.ops)
             down == KeysReport("Press", u.shown \cup {Typed}, op.own)
             class == IF u.shown = {} THEN "AllReleased" ELSE "Release"
             restored == KeysReport(class, u.shown, op.own)
             q == Pushed(<<down>>, restored)
             t == IF op.left = 1 THEN Tail(u.ops) ELSE [u.ops EXCEPT ![1].left = @ - 1]
             v == [u EXCEPT !.keys = q, !.ops = t]
  <2>1. /\ u.ops \in Seq(Operations) /\ Len(u.ops) \in Nat /\ 1 \in DOMAIN u.ops
        /\ op = u.ops[1] /\ op \in Operations
    BY <1>2 DEF UsbOk, OpsOk
  <2>2. /\ op.own = Usb(u.epoch) /\ u.epoch # NoEpoch /\ Rightful(w, op.own, Typed)
        /\ op.own \in Lifetimes /\ op.own[2] # NoEpoch
        /\ u.shown \subseteq Inputs /\ \A i \in u.shown : Rightful(w, op.own, i)
    <3> DEFINE l == Usb(u.epoch)
    <3> HIDE DEF op, l
    <3>1. op.own = l /\ u.epoch # NoEpoch /\ Rightful(w, l, Typed)
      BY <2>1 DEF UsbOk, OpsOk, l
    <3>2. op.own \in Lifetimes
      BY <2>1 DEF Operations
    <3>3. l[2] = u.epoch
      BY DEF l, Usb
    <3>4. u.shown \subseteq Inputs /\ \A i \in u.shown : Rightful(w, l, i)
      BY DEF UsbOk, ShownOk, l
    <3> QED
      BY <3>1, <3>2, <3>3, <3>4 DEF l
  <2>3. Typed \in Inputs /\ NoHot \in Hotkeys \cup {NoHot} /\ 0 \in 0..Pieces
    BY BoundsAreNumbers DEF Inputs
  <2>4. ReportOk(w, down) /\ ReportOk(w, restored)
    <3> DEFINE d == down
               e == restored
    <3>1. /\ d.class = "Press" /\ d.keys = u.shown \cup {Typed} /\ d.own = op.own /\ d \in Entries
          /\ e.class \in {"AllReleased", "Release"} /\ e.keys = u.shown /\ e.own = op.own
          /\ e \in Entries
      BY <2>2, <2>3 DEF KeysReport, Entries
    <3> HIDE DEF d, e, op
    <3>2. ReportOk(w, d)
      BY <2>2, <3>1 DEF ReportOk
    <3>3. ReportOk(w, e)
      BY <2>2, <3>1 DEF ReportOk
    <3> QED
      BY <3>2, <3>3 DEF d, e
  <2>5. /\ t \in Seq(Operations) /\ Len(t) <= Len(u.ops)
        /\ \A i \in DOMAIN t : \E j \in DOMAIN u.ops : t[i].own = u.ops[j].own
    <3>1. CASE op.left = 1
      BY <2>1, <3>1
    <3>2. CASE op.left # 1
      <4> DEFINE x == [op EXCEPT !.left = @ - 1]
      <4>1. x \in Operations /\ x.own = op.own
        BY <2>1 DEF Operations
      <4>2. t = [u.ops EXCEPT ![1] = x]
        BY <2>1, <3>2
      <4> HIDE DEF t, x, op
      <4>3. /\ t \in Seq(Operations) /\ Len(t) = Len(u.ops)
            /\ \A i \in DOMAIN t : i \in DOMAIN u.ops /\ (t[i] = x \/ t[i] = u.ops[i])
        BY <2>1, <4>1, <4>2
      <4> QED
        BY <2>1, <4>1, <4>3
    <3> QED
      BY <3>1, <3>2
  <2> HIDE DEF down, restored, class, t
  <2>6. Told(w, q)
    <3>1. <<down>> = Append(<<>>, down) /\ Len(<<>>) = 0 /\ Len(<<down>>) = 1
      OBVIOUS
    <3>2. 2 <= Capacity /\ Capacity \in Int
      BY QueueHasRoom
    <3>a. Told(w, <<>>) /\ Len(<<>>) < Capacity
      BY <3>1, <3>2, EmptyIsTold
    <3>b. Told(w, Append(<<>>, down))
      BY <2>4, <3>a, AppendedIsTold
    <3>3. Told(w, <<down>>)
      BY <3>1, <3>b
    <3>4. Accepts(<<down>>, restored, Capacity)
      BY <3>1, <3>2 DEF Accepts
    <3> QED
      BY <2>4, <3>2, <3>3, <3>4, PushedIsTold
  <2> HIDE DEF q, op
  <2>a. v = [u EXCEPT !.keys = q, !.ops = t] /\ UsbRecord(u)
    BY DEF UsbOk
  <2> HIDE DEF v
  <2>b. UsbRecord(v)
    BY <2>a DEF UsbRecord
  <2>7. /\ SamePort(u, v) /\ v.keys = q /\ v.cmds = u.cmds /\ v.ops = t
        /\ v.shown = u.shown /\ v.reset = u.reset
    BY <2>a DEF UsbRecord, SamePort
  <2>8. OpsOk(w, v)
    <3>1. Len(u.ops) <= TextQueue /\ Len(t) \in Nat /\ Len(u.ops) \in Nat /\ TextQueue \in Nat
      BY <2>1, <2>5, BoundsAreNumbers DEF UsbOk, OpsOk
    <3>2. \A i \in DOMAIN t : t[i].own = Usb(u.epoch)
      BY <2>5 DEF UsbOk, OpsOk
    <3> QED
      BY <2>2, <2>5, <2>7, <3>1, <3>2 DEF OpsOk, SamePort
  <2>9. ShownOk(w, v)
    BY <2>7 DEF ShownOk, UsbOk, SamePort
  <2>10. UsbOk(w, v)
    BY <2>6, <2>7, <2>8, <2>9, <2>b DEF UsbOk, SamePort
  <2>11. UsbPumped(u) = v
    <3>1. v = [u EXCEPT !.keys = q,
                        !.ops = IF op.left = 1 THEN Tail(u.ops) ELSE [u.ops EXCEPT ![1].left = @ - 1]]
      BY <2>a DEF t
    <3> QED
      BY <1>2, <3>1 DEF UsbPumped, q, restored, down, class, op
  <2> QED
    BY <2>7, <2>10, <2>11, SamePortSameEpoch DEF Usable
<1> QED
  BY <1>1, <1>2

-----------------------------------------------------------------------------
(* The queue of BLE. *)

Serves(w, b, c) == BleOk(w, c) /\ c.phase = b.phase /\ c.target = b.target

LEMMA BlePartsOk ==
  ASSUME NEW w, NEW b, BleOk(w, b), NEW c, BleRecord(c), Told(w, c.queue), TextOk(w, c.text),
         c.phase = b.phase, c.target = b.target
  PROVE  Serves(w, b, c)
BY DEF BleOk, Serves, Recovering

LEMMA AdoptedOk ==
  ASSUME NEW w, NEW b, BleOk(w, b), NEW owner
  PROVE  Serves(w, b, Adopted(b, owner)) /\ Adopted(b, owner).queue = b.queue
<1> DEFINE c == [b EXCEPT !.active = owner, !.reset = TRUE]
<1>1. c = [b EXCEPT !.active = owner, !.reset = TRUE] /\ BleRecord(b)
  BY DEF BleOk
<1> HIDE DEF c
<1>2. BleRecord(c)
  BY <1>1 DEF BleRecord
<1>3. c.queue = b.queue /\ c.text = b.text /\ c.phase = b.phase /\ c.target = b.target
  BY <1>1 DEF BleRecord
<1>4. Serves(w, b, c)
  BY <1>2, <1>3, BlePartsOk DEF BleOk
<1>5. Adopted(b, owner) = b \/ Adopted(b, owner) = c
  BY <1>1 DEF Adopted
<1> QED
  BY <1>3, <1>4, <1>5 DEF Serves

LEMMA KeepsActive ==
  ASSUME BleRecord(ble), NEW owner
  PROVE  Adopted(ble, owner).active = owner
BY DEF Adopted, BleRecord

LEMMA RefreshedOk ==
  ASSUME NEW w, NEW b, BleOk(w, b)
  PROVE  Serves(w, b, Refreshed(b)) /\ Refreshed(b).queue = b.queue
<1>1. Refreshed(b) = b \/ Refreshed(b) = Adopted(b, AdapterOwner)
  BY DEF Refreshed
<1> QED
  BY <1>1, AdoptedOk DEF Serves

LEMMA BleClearedOk ==
  ASSUME NEW w, NEW b, BleOk(w, b)
  PROVE  Serves(w, b, BleCleared(b)) /\ BleCleared(b).queue = <<>> /\ BleCleared(b).text = NoText
<1> DEFINE c == BleCleared(b)
<1>1. c = [b EXCEPT !.queue = <<>>, !.text = NoText] /\ BleRecord(b)
  BY DEF BleCleared, BleOk
<1> HIDE DEF c
<1>2. BleRecord(c)
  BY <1>1 DEF BleRecord
<1>3. c.queue = <<>> /\ c.text = NoText /\ c.phase = b.phase /\ c.target = b.target
  BY <1>1 DEF BleRecord
<1>4. Told(w, c.queue) /\ TextOk(w, c.text)
  BY <1>3, EmptyIsTold DEF TextOk
<1>5. Serves(w, b, c)
  BY <1>2, <1>3, <1>4, BlePartsOk
<1> QED
  BY <1>3, <1>5 DEF c

LEMMA BleFlushedOk ==
  ASSUME NEW w, NEW b, BleOk(w, b)
  PROVE  Serves(w, b, BleFlushed(b))
<1> DEFINE x == BleCleared(b)
           c == [x EXCEPT !.reset = FALSE]
<1>1. Serves(w, b, x)
  BY BleClearedOk
<1> HIDE DEF x
<1>2. c = [x EXCEPT !.reset = FALSE] /\ BleRecord(x)
  BY <1>1 DEF BleOk, Serves
<1> HIDE DEF c
<1>3. BleRecord(c)
  BY <1>2 DEF BleRecord
<1>4. c.queue = x.queue /\ c.text = x.text /\ c.phase = x.phase /\ c.target = x.target
  BY <1>2 DEF BleRecord
<1>5. Serves(w, x, c)
  BY <1>1, <1>3, <1>4, BlePartsOk DEF BleOk, Serves
<1>6. BleFlushed(b) = b \/ BleFlushed(b) = c
  BY DEF BleFlushed, c, x
<1> QED
  BY <1>1, <1>5, <1>6 DEF Serves

LEMMA BleReadyOk ==
  ASSUME NEW w, NEW b, BleOk(w, b)
  PROVE  Serves(w, b, BleReady(b)) /\ Serves(w, b, BleFlushed(Refreshed(b)))
<1>1. Serves(w, b, BleFlushed(Refreshed(b)))
  BY RefreshedOk, BleFlushedOk DEF Serves
<1>2. Serves(w, b, BleFlushed(b))
  BY BleFlushedOk
<1>3. Serves(w, b, Refreshed(BleFlushed(b)))
  BY <1>2, RefreshedOk DEF Serves
<1>4. Serves(w, b, BleFlushed(Refreshed(BleFlushed(b))))
  BY <1>3, BleFlushedOk DEF Serves
<1> QED
  BY <1>1, <1>4 DEF BleReady

\* The identity depends on the recovery only.
LEMMA SameIdentity ==
  ASSUME NEW b, NEW c, c.phase = b.phase
  PROVE  Identity(c) = Identity(b)
<1>1. Recovering(c) = Recovering(b)
  BY DEF Recovering
<1> QED
  BY <1>1 DEF Identity

LEMMA BleQueueOk ==
  ASSUME NEW w, NEW b, BleOk(w, b), NEW q, Told(w, q)
  PROVE  Serves(w, b, [b EXCEPT !.queue = q]) /\ [b EXCEPT !.queue = q].queue = q
<1> DEFINE c == [b EXCEPT !.queue = q]
<1>1. c = [b EXCEPT !.queue = q] /\ BleRecord(b)
  BY DEF BleOk
<1> HIDE DEF c
<1>2. BleRecord(c)
  BY <1>1 DEF BleRecord
<1>3. c.queue = q /\ c.text = b.text /\ c.phase = b.phase /\ c.target = b.target
  BY <1>1 DEF BleRecord
<1>4. Serves(w, b, c)
  BY <1>2, <1>3, BlePartsOk DEF BleOk
<1> QED
  BY <1>3, <1>4 DEF c

LEMMA StreamedOnBle ==
  ASSUME NEW w, NEW b, BleOk(w, b), Ble(Identity(b).gen) \in Lifetimes,
         Identity(b).gen # NoEpoch, Rightful(w, Ble(Identity(b).gen), Typed)
  PROVE  Serves(w, b, StreamOnBle(b))
<1> DEFINE t == [next |-> 1, own |-> Ble(Identity(b).gen)]
           c == [b EXCEPT !.text = t]
<1>1. t \in [next : 1..Pieces, own : Lifetimes] /\ t.own = Ble(Identity(b).gen)
  BY BoundsAreNumbers
<1>2. t.own[2] # NoEpoch
  BY <1>1 DEF Ble
<1>3. TextOk(w, t)
  BY <1>1, <1>2 DEF TextOk
<1> HIDE DEF t
<1>4. c = [b EXCEPT !.text = t] /\ BleRecord(b)
  BY DEF BleOk
<1> HIDE DEF c
<1>5. BleRecord(c)
  BY <1>4 DEF BleRecord
<1>6. c.queue = b.queue /\ c.text = t /\ c.phase = b.phase /\ c.target = b.target
  BY <1>4 DEF BleRecord
<1>7. Serves(w, b, c)
  BY <1>3, <1>5, <1>6, BlePartsOk DEF BleOk
<1>8. StreamOnBle(b) = b \/ StreamOnBle(b) = c
  BY DEF StreamOnBle, c, t
<1> QED
  BY <1>7, <1>8 DEF Serves

\* Another part of the text goes into the queue.
LEMMA TextGoesOn ==
  ASSUME NEW w, NEW b, BleOk(w, b), b.text # NoText, NEW n \in Nat,
         b.text.next + n <= Pieces + 1, Len(b.queue) + n <= Capacity,
         NEW text, text = NoText \/ (b.text.next + n <= Pieces /\ text = [b.text EXCEPT !.next = @ + n])
  PROVE  Serves(w, b, [b EXCEPT
           !.queue = @ \o [i \in 1..n |-> TextReport(b.text.next + i - 1, b.text.own)],
           !.text = text])
<1> DEFINE m == b.text.next - 1
           l == b.text.own
           t == [i \in 1..n |-> TextReport(m + i, l)]
           q == b.queue \o t
           c == [b EXCEPT !.queue = q, !.text = text]
<1>a. /\ b.text \in [next : 1..Pieces, own : Lifetimes] /\ l[2] # NoEpoch
      /\ Rightful(w, l, Typed) /\ Told(w, b.queue)
  BY DEF BleOk, TextOk
<1>b. l \in Lifetimes /\ b.text.next \in 1..Pieces /\ Pieces \in Nat
  BY <1>a, BoundsAreNumbers
<1>c. m \in Nat /\ m + n <= Pieces /\ b.text.next \in Nat
  BY <1>b
<1>1. /\ b.text \in [next : 1..Pieces, own : Lifetimes] /\ l \in Lifetimes /\ l[2] # NoEpoch
      /\ Rightful(w, l, Typed) /\ m \in Nat /\ m + n <= Pieces /\ b.text.next \in Nat
      /\ Told(w, b.queue)
  BY <1>a, <1>b, <1>c
<1>2. Told(w, q)
  <2> HIDE DEF m, l
  <2> QED
    BY <1>1, ChunksAreTold
<1>3. TextOk(w, text)
  <2> SUFFICES ASSUME b.text.next + n <= Pieces, text = [b.text EXCEPT !.next = @ + n]
               PROVE  TextOk(w, text)
    BY DEF TextOk
  <2>1. text \in [next : 1..Pieces, own : Lifetimes] /\ text.own = l
    BY <1>1
  <2> QED
    BY <1>1, <2>1 DEF TextOk
<1>4. t = [i \in 1..n |-> TextReport(b.text.next + i - 1, b.text.own)]
  <2>1. \A i \in 1..n : m + i = b.text.next + i - 1
    BY <1>1
  <2> QED
    BY <2>1
<1> HIDE DEF t, m, l
<1>5. q = b.queue \o [i \in 1..n |-> TextReport(b.text.next + i - 1, b.text.own)]
  BY <1>4
<1> HIDE DEF q
<1>6. c = [b EXCEPT !.queue = q, !.text = text] /\ BleRecord(b)
  BY DEF BleOk
<1> HIDE DEF c
<1>7. BleRecord(c)
  BY <1>6 DEF BleRecord
<1>8. c.queue = q /\ c.text = text /\ c.phase = b.phase /\ c.target = b.target
  BY <1>6 DEF BleRecord
<1>9. Serves(w, b, c)
  BY <1>2, <1>3, <1>7, <1>8, BlePartsOk
<1> QED
  BY <1>5, <1>9 DEF c

LEMMA BlePumpedOk ==
  ASSUME NEW w, NEW b, BleOk(w, b)
  PROVE  Serves(w, b, BlePumped(b))
<1> DEFINE room == IF TextWindow < Limit("Command") THEN TextWindow ELSE Limit("Command")
           want == Pieces + 1 - b.text.next
           free == IF Len(b.queue) < room THEN room - Len(b.queue) ELSE 0
           n == IF want < free THEN want ELSE free
           text == IF n = want THEN NoText ELSE [b.text EXCEPT !.next = @ + n]
           c == [b EXCEPT
                   !.queue = @ \o [i \in 1..n |-> TextReport(b.text.next + i - 1, b.text.own)],
                   !.text = text]
<1>1. CASE b.text = NoText
  <2>1. BlePumped(b) = b
    BY <1>1 DEF BlePumped
  <2> QED
    BY <2>1 DEF Serves
<1>2. CASE b.text # NoText /\ b.text.own # Ble(Identity(b).gen)
  <2> DEFINE d == [b EXCEPT !.text = NoText]
  <2>1. d = [b EXCEPT !.text = NoText] /\ BleRecord(b)
    BY DEF BleOk
  <2> HIDE DEF d
  <2>2. BleRecord(d)
    BY <2>1 DEF BleRecord
  <2>3. d.queue = b.queue /\ d.text = NoText /\ d.phase = b.phase /\ d.target = b.target
    BY <2>1 DEF BleRecord
  <2>4. Serves(w, b, d)
    BY <2>2, <2>3, BlePartsOk DEF BleOk, TextOk
  <2>5. BlePumped(b) = d
    BY <1>2, <2>1 DEF BlePumped
  <2> QED
    BY <2>4, <2>5
<1>3. CASE b.text # NoText /\ b.text.own = Ble(Identity(b).gen)
  <2>1. /\ b.text \in [next : 1..Pieces, own : Lifetimes] /\ b.text.next \in Nat
        /\ b.text.next <= Pieces /\ Pieces \in Nat
        /\ Len(b.queue) \in Nat /\ Len(b.queue) <= Capacity
    BY <1>3, BoundsAreNumbers, QueueHasRoom DEF BleOk, TextOk, Told
  <2>2. room \in Nat /\ room <= Capacity /\ Capacity \in Nat
    <3>1. Limit("Command") \in Nat /\ Limit("Command") <= Capacity
      BY QueueHasRoom DEF Limit
    <3> QED
      BY <3>1, BoundsAreNumbers, QueueHasRoom
  <2> HIDE DEF room
  <2>3. want \in Nat /\ b.text.next + want = Pieces + 1
    BY <2>1
  <2>4. free \in Nat /\ Len(b.queue) + free <= Capacity
    <3>1. Len(b.queue) \in Nat /\ Len(b.queue) <= Capacity
      BY <2>1
    <3>2. CASE Len(b.queue) < room
      BY <2>2, <3>1, <3>2
    <3>3. CASE ~(Len(b.queue) < room)
      BY <2>2, <3>1, <3>3
    <3> QED
      BY <3>2, <3>3
  <2> HIDE DEF want, free
  <2>5. n \in Nat /\ n <= want /\ n <= free
    BY <2>3, <2>4
  <2> HIDE DEF n
  <2>6. b.text.next + n <= Pieces + 1 /\ Len(b.queue) + n <= Capacity
    BY <2>1, <2>2, <2>3, <2>4, <2>5
  <2>7. text = NoText \/ (b.text.next + n <= Pieces /\ text = [b.text EXCEPT !.next = @ + n])
    BY <2>1, <2>3, <2>5
  <2> HIDE DEF text
  <2>8. Serves(w, b, c)
    BY <1>3, <2>5, <2>6, <2>7, TextGoesOn
  <2>9. BlePumped(b) = c
    BY <1>3 DEF BlePumped, c, text, n, want, free, room
  <2> QED
    BY <2>8, <2>9
<1> QED
  BY <1>1, <1>2, <1>3

-----------------------------------------------------------------------------
(* What the main task keeps. *)

Fresh(w, i) == w.alive \subseteq w.born[i]

\* A chord that has no latch was just made, or is empty.
ReadyToFlush(w, a) ==
  /\ AppRecord(a) /\ a.held \subseteq DOMAIN Key /\ DeliveryOk(a.keys, a.held)
  /\ LatchOk(w, a.latch)
  /\ a.latch.owner = "None" => a.keys.accepted = {} /\ \A i \in a.keys.desired : Fresh(w, i)
  /\ IsLatched(a.latch) => \A i \in a.keys.desired : Rightful(w, LifeOf(a.latch), i)
  /\ HotsOk(w, a) /\ a.pc = "idle"

LEMMA FreshIsSampled ==
  ASSUME NEW w, NEW at, AtOk(w, at), NEW i, Fresh(w, i)
  PROVE  Sampled(w, at, i)
BY DEF Sampled, AtOk, Fresh, Rightful

LEMMA LatchesTyped ==
  ASSUME NEW w, NEW l \in {NoLatch, Suppressed}
  PROVE  LatchOk(w, l) /\ ~IsLatched(l) /\ NoLatch.owner = "None" /\ Suppressed.owner = "Suppressed"
BY DEF LatchOk, Latches, NoLatch, Suppressed, IsLatched, NoEpoch

\* Where nothing was sampled for it, a hotkey does not look at the sample.
LEMMA HotAnywhere ==
  ASSUME NEW w, NEW d, NEW l, NEW at, HotOk(w, d, l, at, FALSE), NEW x, NEW here \in BOOLEAN
  PROVE  HotOk(w, d, l, x, here)
BY DEF HotOk

NowAt(b) == [Usb |-> UsbEpoch(usb), Ble |-> BleEpoch(b)]

LEMMA NowIsOk ==
  ASSUME NEW w, w.usb = usb.epoch, w.ble = adapter.gen, usb.epoch \in Nat, adapter.gen \in Nat,
         BleRecord(ble)
  PROVE  AtOk(w, NowAt(Refreshed(ble)))
<1> DEFINE b == Refreshed(ble)
           x == UsbEpoch(usb)
           y == BleEpoch(b)
<1>1. x \in Nat /\ x <= w.usb
  BY DEF UsbEpoch, NoEpoch
<1>2. y \in Nat /\ y <= w.ble
  <2>1. CASE Recovering(ble)
    <3>1. b = ble
      BY <2>1 DEF Refreshed
    <3> QED
      BY <2>1, <3>1 DEF BleEpoch, Identity, NoEpoch
  <2>2. CASE ~Recovering(ble)
    <3>1. b.active = AdapterOwner
      <4>1. b = Adopted(ble, AdapterOwner)
        BY <2>2 DEF Refreshed
      <4> QED
        BY <4>1, KeepsActive
    <3>2. AdapterOwner = NoOwner \/ AdapterOwner.gen = adapter.gen
      BY DEF AdapterOwner
    <3>3. y = NoEpoch \/ y = AdapterOwner.gen
      BY <3>1 DEF BleEpoch
    <3> QED
      BY <3>2, <3>3 DEF NoOwner, NoEpoch
  <2> QED
    BY <2>1, <2>2
<1> HIDE DEF x, y
<1> DEFINE at == [Usb |-> x, Ble |-> y]
<1>3. at \in [Transports -> Nat] /\ at["Usb"] = x /\ at["Ble"] = y
  BY <1>1, <1>2 DEF Transports
<1> HIDE DEF at
<1>4. \A o \in Transports : Past(w, <<o, at[o]>>)
  BY <1>1, <1>2, <1>3 DEF Transports, Past
<1>5. AtOk(w, at)
  BY <1>3, <1>4 DEF AtOk
<1> QED
  BY <1>5 DEF at, x, y, NowAt

\* A chord that is held has chosen its host, or that it has none.
Chosen(a) == a.latch.owner = "None" => a.keys.desired = {}

LEMMA IdleIsNoSource ==
  \A s \in Bridged : s \notin {"idle", "keys", "pollUsb", "sendUsb", "pollBle", "sendBle"}
BY NamesDiffer

Hot == [desired : Hotkeys \cup {NoHot}, accepted : Hotkeys \cup {NoHot}]

\* The lifetime of a hotkey is over.
LEMMA HotResetOk ==
  ASSUME NEW w, NEW d \in Hot, NEW at
  PROVE  /\ HotReset(d) \in Hot
         /\ HotOk(w, HotReset(d), Committed(Suppressed, d.desired = NoHot), at, FALSE)
<1> DEFINE e == HotReset(d)
           l == Committed(Suppressed, d.desired = NoHot)
<1>1. e \in Hot /\ e.desired = d.desired /\ e.accepted = d.desired
  BY DEF HotReset, Hot
<1>2. l \in {NoLatch, Suppressed} /\ (l.owner = "None" => d.desired = NoHot)
  BY LatchesTyped DEF Committed
<1> HIDE DEF e, l
<1>3. LatchOk(w, l) /\ ~IsLatched(l)
  BY <1>2, LatchesTyped
<1>4. HotOk(w, e, l, at, FALSE)
  BY <1>1, <1>2, <1>3 DEF HotOk
<1> QED
  BY <1>1, <1>4 DEF e, l

LEMMA ReconciledHots ==
  ASSUME NEW w, NEW a, AppRecord(a), HotsOk(w, a), a.pc = "idle", NEW b
  PROVE  LET r == Reconciled(a, b) IN
         /\ r.hot \in [Bridged -> Hot] /\ DOMAIN r.hlatch = Bridged
         /\ \A s \in Bridged : HotOk(w, r.hot[s], r.hlatch[s], r.at, FALSE)
<1> DEFINE at == NowAt(b)
           r == Reconciled(a, b)
           hot == [s \in Bridged |->
                     IF LifetimeLost(a.hlatch[s], at) THEN HotReset(a.hot[s]) ELSE a.hot[s]]
           hlatch == [s \in Bridged |->
                        IF LifetimeLost(a.hlatch[s], at)
                        THEN Committed(Suppressed, a.hot[s].desired = NoHot) ELSE a.hlatch[s]]
<1>1. r.hot = hot /\ r.hlatch = hlatch /\ r.at = at
  BY DEF Reconciled, AppRecord, NowAt
<1> HIDE DEF r, at
<1>2. ASSUME NEW s \in Bridged
      PROVE  hot[s] \in Hot /\ HotOk(w, hot[s], hlatch[s], at, FALSE)
  <2> DEFINE d == a.hot[s]
             l == a.hlatch[s]
  <2>1. d \in Hot /\ HotOk(w, d, l, a.at, FALSE)
    <3>1. a.pc # s
      BY IdleIsNoSource
    <3>2. HotOk(w, a.hot[s], a.hlatch[s], a.at, a.pc = s)
      BY DEF HotsOk
    <3> QED
      BY <3>1, <3>2 DEF AppRecord, Hot
  <2> HIDE DEF d, l
  <2>2. CASE LifetimeLost(l, at)
    <3>1. hot[s] = HotReset(d) /\ hlatch[s] = Committed(Suppressed, d.desired = NoHot)
      BY <2>2 DEF d, l
    <3> QED
      BY <2>1, <3>1, HotResetOk
  <2>3. CASE ~LifetimeLost(l, at)
    <3>1. hot[s] = d /\ hlatch[s] = l
      BY <2>3 DEF d, l
    <3> QED
      BY <2>1, <3>1, HotAnywhere
  <2> QED
    BY <2>2, <2>3
<1>3. hot \in [Bridged -> Hot] /\ DOMAIN hlatch = Bridged
  BY <1>2
<1> HIDE DEF hot, hlatch
<1>4. /\ r.hot \in [Bridged -> Hot] /\ DOMAIN r.hlatch = Bridged
      /\ \A s \in Bridged : HotOk(w, r.hot[s], r.hlatch[s], r.at, FALSE)
  BY <1>1, <1>2, <1>3
<1> QED
  BY <1>4 DEF r

\* A chord whose lifetime is over counts as delivered, and is kept from others.
LEMMA ReconciledOk ==
  ASSUME NEW w, NEW a, ReadyToFlush(w, a), NEW b, AtOk(w, NowAt(b))
  PROVE  /\ ReadyToFlush(w, Reconciled(a, b)) /\ Reconciled(a, b).at = NowAt(b)
         /\ Chosen(a) => Chosen(Reconciled(a, b))
         /\ \A s \in Bridged : Reconciled(a, b).hot[s] \in {a.hot[s], HotReset(a.hot[s])}
<1> DEFINE r == Reconciled(a, b)
           at == NowAt(b)
           now == KeysOf(a.held)
           lost == LifetimeLost(a.latch, at)
<1>1. /\ r.hot \in [Bridged -> Hot] /\ DOMAIN r.hlatch = Bridged
      /\ \A s \in Bridged : HotOk(w, r.hot[s], r.hlatch[s], r.at, FALSE)
  BY ReconciledHots DEF ReadyToFlush
<1>2. /\ r = [held |-> r.held, keys |-> r.keys, latch |-> r.latch, hot |-> r.hot,
              hlatch |-> r.hlatch, at |-> r.at, pc |-> r.pc]
      /\ r.held = a.held /\ r.pc = a.pc /\ r.at = at
      /\ r.keys = IF lost THEN DeliveryReset(now) ELSE a.keys
      /\ r.latch = IF lost THEN Committed(Suppressed, now = {}) ELSE a.latch
  <2> DEFINE keys == IF lost THEN DeliveryReset(now) ELSE a.keys
             latch == IF lost THEN Committed(Suppressed, now = {}) ELSE a.latch
             hot == [s \in Bridged |->
                      IF LifetimeLost(a.hlatch[s], at) THEN HotReset(a.hot[s]) ELSE a.hot[s]]
             hlatch == [s \in Bridged |->
                          IF LifetimeLost(a.hlatch[s], at)
                          THEN Committed(Suppressed, a.hot[s].desired = NoHot) ELSE a.hlatch[s]]
  <2>1. r = [a EXCEPT !.at = at, !.keys = keys, !.latch = latch, !.hot = hot, !.hlatch = hlatch]
        /\ AppRecord(a)
    BY DEF ReadyToFlush, Reconciled, NowAt
  <2> HIDE DEF r, at, lost, now, keys, latch, hot, hlatch
  <2>2. r = [held |-> r.held, keys |-> r.keys, latch |-> r.latch, hot |-> r.hot,
             hlatch |-> r.hlatch, at |-> r.at, pc |-> r.pc]
    BY <2>1 DEF AppRecord
  <2>3. r.held = a.held /\ r.pc = a.pc /\ r.at = at /\ r.keys = keys /\ r.latch = latch
    BY <2>1 DEF AppRecord
  <2> QED
    BY <2>2, <2>3 DEF keys, latch
<1> HIDE DEF r, at, lost
<1>3. AppRecord(r)
  BY <1>1, <1>2 DEF AppRecord, Hot
<1>4. HotsOk(w, r)
  <2>1. r.pc = "idle"
    BY <1>2 DEF ReadyToFlush
  <2>2. \A s \in Bridged : (r.pc = s) = FALSE
    BY <2>1, IdleIsNoSource
  <2>3. \A s \in Bridged : HotOk(w, r.hot[s], r.hlatch[s], r.at, r.pc = s)
    BY <2>2, <1>1
  <2> QED
    BY <1>1, <2>3 DEF HotsOk
<1>5. now = a.keys.desired /\ now \subseteq Inputs
  BY DEF ReadyToFlush, DeliveryOk
<1>6. DeliveryOk(r.keys, r.held) /\ r.keys.desired = now
  <2>1. CASE lost
    <3>1. r.keys = [desired |-> now, accepted |-> now, pending |-> FALSE] /\ r.held = a.held
      BY <1>2, <2>1 DEF DeliveryReset
    <3> HIDE DEF now
    <3>2. /\ r.keys.desired = now /\ r.keys.accepted = now /\ r.keys.pending = FALSE
          /\ r.keys \in [desired : SUBSET Inputs, accepted : SUBSET Inputs, pending : BOOLEAN]
      BY <1>5, <3>1
    <3>3. r.keys.pending = (r.keys.desired # r.keys.accepted)
      BY <3>2
    <3> QED
      BY <3>1, <3>2, <3>3 DEF DeliveryOk, now
  <2>2. CASE ~lost
    BY <1>2, <1>5, <2>2 DEF ReadyToFlush
  <2> QED
    BY <2>1, <2>2
<1>7. \A s \in Bridged : r.hot[s] \in {a.hot[s], HotReset(a.hot[s])}
  <2>1. r.hot = [s \in Bridged |->
                   IF LifetimeLost(a.hlatch[s], at) THEN HotReset(a.hot[s]) ELSE a.hot[s]]
    BY DEF ReadyToFlush, AppRecord, Reconciled, NowAt, r, at
  <2> QED
    BY <2>1
<1>8. CASE lost
  <2>1. r.latch \in {NoLatch, Suppressed} /\ (r.latch.owner = "None" => now = {} /\ r.keys.accepted = {})
    BY <1>2, <1>8, LatchesTyped DEF Committed, DeliveryReset
  <2>2. LatchOk(w, r.latch) /\ ~IsLatched(r.latch)
    BY <2>1, LatchesTyped
  <2>3. ReadyToFlush(w, r)
    BY <1>2, <1>3, <1>4, <1>6, <2>1, <2>2 DEF ReadyToFlush
  <2>4. Chosen(r)
    BY <1>6, <2>1 DEF Chosen
  <2> QED
    BY <1>2, <1>7, <2>3, <2>4 DEF r, at
<1>9. CASE ~lost
  <2>1. r.keys = a.keys /\ r.latch = a.latch
    BY <1>2, <1>9
  <2>2. ReadyToFlush(w, r)
    BY <1>2, <1>3, <1>4, <1>6, <2>1 DEF ReadyToFlush
  <2>3. Chosen(a) => Chosen(r)
    BY <2>1 DEF Chosen
  <2> QED
    BY <1>2, <1>7, <2>2, <2>3 DEF r, at
<1> QED
  BY <1>8, <1>9

\* A hotkey looks at the sample only where it is about to be flushed.
LEMMA HotsElsewhere ==
  ASSUME NEW w, NEW a, AppRecord(a), HotsOk(w, a), a.pc \notin Bridged, NEW b, AppRecord(b),
         b.hot = a.hot, b.hlatch = a.hlatch
  PROVE  HotsOk(w, b)
<1> SUFFICES ASSUME NEW s \in Bridged
             PROVE  HotOk(w, b.hot[s], b.hlatch[s], b.at, b.pc = s)
  BY DEF HotsOk
<1> DEFINE d == a.hot[s]
           l == a.hlatch[s]
           here == b.pc = s
<1>1. HotOk(w, d, l, a.at, FALSE)
  <2>1. HotOk(w, a.hot[s], a.hlatch[s], a.at, a.pc = s)
    BY DEF HotsOk
  <2>2. (a.pc = s) = FALSE
    OBVIOUS
  <2> QED
    BY <2>1, <2>2
<1> HIDE DEF d, l
<1>2. here \in BOOLEAN
  OBVIOUS
<1> HIDE DEF here
<1>3. HotOk(w, d, l, b.at, here)
  BY <1>1, <1>2, HotAnywhere
<1> QED
  BY <1>3 DEF d, l, here

LEMMA FlushingOk ==
  ASSUME NEW w, NEW a, ReadyToFlush(w, a), AtOk(w, a.at)
  PROVE  AppOk(w, Flushing(a)) /\ Flushing(a).pc # "sendBle"
<1> DEFINE f == Flushing(a)
           drop == ~a.keys.pending /\ a.keys.desired = {}
<1>0. AppRecord(a) /\ f = [a EXCEPT !.pc = IF a.keys.pending THEN "keys" ELSE "idle",
                                    !.latch = IF drop THEN NoLatch ELSE a.latch]
  BY DEF Flushing, ReadyToFlush, AppRecord
<1> HIDE DEF f
<1>1. AppRecord(f)
  BY <1>0 DEF AppRecord
<1>2. /\ f.held = a.held /\ f.keys = a.keys /\ f.hot = a.hot /\ f.hlatch = a.hlatch
      /\ f.at = a.at /\ f.pc = (IF a.keys.pending THEN "keys" ELSE "idle")
      /\ f.latch = IF drop THEN NoLatch ELSE a.latch
  BY <1>0 DEF AppRecord
<1>3. HotsOk(w, f)
  <2>1. a.pc \notin Bridged
    BY IdleIsNoSource DEF ReadyToFlush
  <2> QED
    BY <1>0, <1>1, <1>2, <2>1, HotsElsewhere DEF ReadyToFlush
<1>4. KeysOk(w, f)
  <2>1. LatchOk(w, f.latch)
    BY <1>2, LatchesTyped DEF ReadyToFlush
  <2>2. DeliveryOk(f.keys, f.held) /\ f.held \subseteq DOMAIN Key
    BY <1>2 DEF ReadyToFlush
  <2>3. f.latch.owner = "None" =>
          /\ f.keys.accepted = {}
          /\ f.keys.desired # {} => f.pc = "keys" /\ \A i \in f.keys.desired : Sampled(w, f.at, i)
    <3>1. CASE drop
      BY <1>2, <2>2, <3>1 DEF DeliveryOk
    <3>2. CASE ~drop
      <4> SUFFICES ASSUME f.latch.owner = "None"
                   PROVE  /\ f.keys.accepted = {}
                          /\ f.keys.desired # {} =>
                               f.pc = "keys" /\ \A i \in f.keys.desired : Sampled(w, f.at, i)
        OBVIOUS
      <4>1. a.keys.accepted = {} /\ \A i \in a.keys.desired : Fresh(w, i)
        BY <1>2, <3>2 DEF ReadyToFlush
      <4>2. \A i \in a.keys.desired : Sampled(w, a.at, i)
        BY <4>1, FreshIsSampled
      <4>3. a.keys.desired # {} => a.keys.pending
        BY <4>1, <1>2, <2>2 DEF DeliveryOk
      <4> QED
        BY <1>2, <4>1, <4>2, <4>3
    <3> QED
      BY <3>1, <3>2
  <2>4. IsLatched(f.latch) => \A i \in f.keys.desired : Rightful(w, LifeOf(f.latch), i)
    BY <1>2, LatchesTyped DEF ReadyToFlush
  <2> QED
    BY <2>1, <2>2, <2>3, <2>4 DEF KeysOk
<1>5. AppOk(w, f)
  BY <1>1, <1>2, <1>3, <1>4 DEF AppOk
<1> QED
  BY <1>2, <1>5 DEF f

LEMMA DesiredOk ==
  ASSUME NEW d, NEW held, DeliveryOk(d, held), NEW x \in SUBSET DOMAIN Key
  PROVE  /\ DeliveryOk(Desired(d, KeysOf(x)), x)
         /\ Desired(d, KeysOf(x)).desired = KeysOf(x)
         /\ Desired(d, KeysOf(x)).accepted = d.accepted
<1> DEFINE keys == KeysOf(x)
           e == Desired(d, keys)
<1>1. keys \subseteq Inputs
  BY DEF KeysOf, Inputs
<1> HIDE DEF keys
<1>2. CASE keys = d.desired
  <2>1. e = d
    BY <1>2 DEF Desired
  <2> QED
    BY <1>2, <2>1 DEF DeliveryOk, keys
<1>3. CASE keys # d.desired
  <2>1. e = [d EXCEPT !.desired = keys, !.pending = keys # d.accepted]
    BY <1>3 DEF Desired
  <2>2. /\ e.desired = keys /\ e.accepted = d.accepted
        /\ e.pending = (keys # d.accepted)
        /\ e \in [desired : SUBSET Inputs, accepted : SUBSET Inputs, pending : BOOLEAN]
    BY <1>1, <2>1 DEF DeliveryOk
  <2> QED
    BY <2>2 DEF DeliveryOk, keys
<1> QED
  BY <1>2, <1>3

LEMMA IdleIsReady ==
  ASSUME NEW w, NEW a, AppOk(w, a), a.pc = "idle"
  PROVE  ReadyToFlush(w, a) /\ Chosen(a)
BY DEF AppOk, KeysOk, ReadyToFlush, Chosen

\* Another chord is held: what it adds was just pressed.
LEMMA ChordIsReady ==
  ASSUME NEW w, NEW a, ReadyToFlush(w, a), NEW held \in SUBSET DOMAIN Key,
         \A i \in KeysOf(held) : i \in a.keys.desired \/ Fresh(w, i)
  PROVE  ReadyToFlush(w, [a EXCEPT !.held = held, !.keys = Desired(a.keys, KeysOf(held))])
<1> DEFINE d == Desired(a.keys, KeysOf(held))
           c == [a EXCEPT !.held = held, !.keys = d]
<1>1. DeliveryOk(d, held) /\ d.desired = KeysOf(held) /\ d.accepted = a.keys.accepted
  BY DesiredOk DEF ReadyToFlush
<1>2. AppRecord(a) /\ c = [a EXCEPT !.held = held, !.keys = d]
  BY DEF ReadyToFlush
<1> HIDE DEF c, d
<1>3. AppRecord(c)
  BY <1>2 DEF AppRecord
<1>4. /\ c.held = held /\ c.keys = d /\ c.latch = a.latch /\ c.hot = a.hot
      /\ c.hlatch = a.hlatch /\ c.at = a.at /\ c.pc = a.pc
  BY <1>2 DEF AppRecord
<1>5. HotsOk(w, c)
  BY <1>4 DEF HotsOk, ReadyToFlush
<1>6. IsLatched(a.latch) => \A i \in KeysOf(held) : Rightful(w, LifeOf(a.latch), i)
  BY DEF ReadyToFlush, LatchOk, Fresh, Rightful
<1>7. a.latch.owner = "None" => \A i \in KeysOf(held) : Fresh(w, i)
  BY DEF ReadyToFlush
<1>8. ReadyToFlush(w, c)
  BY <1>1, <1>3, <1>4, <1>5, <1>6, <1>7 DEF ReadyToFlush
<1> QED
  BY <1>8 DEF c, d

\* The same report: nothing is sent.
LEMMA SameChordOk ==
  ASSUME NEW w, NEW a, AppOk(w, a), NEW held \in SUBSET DOMAIN Key, KeysOf(held) = KeysOf(a.held)
  PROVE  AppOk(w, [a EXCEPT !.held = held]) /\ [a EXCEPT !.held = held].pc = a.pc
<1> DEFINE c == [a EXCEPT !.held = held]
<1>2. AppRecord(a) /\ c = [a EXCEPT !.held = held]
  BY DEF AppOk
<1> HIDE DEF c
<1>3. AppRecord(c)
  BY <1>2 DEF AppRecord
<1>4. /\ c.held = held /\ c.keys = a.keys /\ c.latch = a.latch /\ c.hot = a.hot
      /\ c.hlatch = a.hlatch /\ c.at = a.at /\ c.pc = a.pc
  BY <1>2 DEF AppRecord
<1>5. HotsOk(w, c)
  BY <1>4 DEF HotsOk, AppOk
<1>6. KeysOk(w, c)
  BY <1>4 DEF KeysOk, AppOk, DeliveryOk
<1>7. AppOk(w, c)
  BY <1>3, <1>4, <1>5, <1>6 DEF AppOk
<1> QED
  BY <1>4, <1>7 DEF c

LEMMA HotsLetGo ==
  ASSUME NEW w, NEW a, ReadyToFlush(w, a)
  PROVE  ReadyToFlush(w, [a EXCEPT !.hot = [s \in Bridged |-> [a.hot[s] EXCEPT !.desired = NoHot]]])
<1> DEFINE hot == [s \in Bridged |-> [a.hot[s] EXCEPT !.desired = NoHot]]
           c == [a EXCEPT !.hot = hot]
<1>1. hot \in [Bridged -> Hot]
      /\ \A s \in Bridged : hot[s].desired = NoHot /\ hot[s].accepted = a.hot[s].accepted
  BY DEF ReadyToFlush, AppRecord, Hot
<1>2. AppRecord(a) /\ c = [a EXCEPT !.hot = hot]
  BY DEF ReadyToFlush
<1> HIDE DEF c, hot
<1>3. AppRecord(c)
  BY <1>1, <1>2 DEF AppRecord, Hot
<1>4. /\ c.held = a.held /\ c.keys = a.keys /\ c.latch = a.latch /\ c.hot = hot
      /\ c.hlatch = a.hlatch /\ c.at = a.at /\ c.pc = a.pc
  BY <1>2 DEF AppRecord
<1>5. HotsOk(w, c)
  BY <1>1, <1>4 DEF HotsOk, HotOk, ReadyToFlush
<1>6. ReadyToFlush(w, c)
  BY <1>3, <1>4, <1>5 DEF ReadyToFlush
<1> QED
  BY <1>6 DEF c, hot

\* What holds of the world whatever the step.
Present(w) ==
  /\ w.usb = usb.epoch /\ w.ble = adapter.gen /\ usb.epoch \in Nat /\ adapter.gen \in Nat
  /\ BleOk(w, ble)

LEMMA FlushedOk ==
  ASSUME NEW w, Present(w), NEW a, ReadyToFlush(w, a)
  PROVE  /\ AppOk(w, Flushing(Reconciled(a, Refreshed(ble))))
         /\ Flushing(Reconciled(a, Refreshed(ble))).pc # "sendBle"
<1> DEFINE b == Refreshed(ble)
           r == Reconciled(a, b)
<1>1. AtOk(w, NowAt(b))
  BY NowIsOk DEF Present, BleOk
<1> HIDE DEF b
<1>2. ReadyToFlush(w, r) /\ AtOk(w, r.at)
  BY <1>1, ReconciledOk
<1> HIDE DEF r
<1>3. AppOk(w, Flushing(r)) /\ Flushing(r).pc # "sendBle"
  BY <1>2, FlushingOk
<1> QED
  BY <1>3 DEF r, b

LEMMA BridgedOk ==
  ASSUME NEW w, Present(w), NEW a, AppOk(w, a), a.pc = "idle", NEW s \in Bridged,
         NEW hotkey \in Hotkeys \cup {NoHot},
         hotkey # NoHot => /\ Fresh(w, hotkey) /\ a.hot[s].desired = NoHot
                           /\ a.hot[s].accepted \notin {NoHot, hotkey} => hotkey \in w.behind
  PROVE  LET c == [Reconciled(a, Refreshed(ble)) EXCEPT !.hot[s].desired = hotkey, !.pc = s]
         IN AppOk(w, c) /\ c.pc # "sendBle"
<1> DEFINE b == Refreshed(ble)
           r == Reconciled(a, b)
           c == [r EXCEPT !.hot[s].desired = hotkey, !.pc = s]
<1>1. AtOk(w, NowAt(b))
  BY NowIsOk DEF Present, BleOk
<1> HIDE DEF b
<1>2. /\ ReadyToFlush(w, r) /\ AtOk(w, r.at) /\ Chosen(r)
      /\ r.hot[s] \in {a.hot[s], HotReset(a.hot[s])}
  BY <1>1, ReconciledOk, IdleIsReady
<1> HIDE DEF r
<1> DEFINE hot == [r.hot EXCEPT ![s] = [r.hot[s] EXCEPT !.desired = hotkey]]
<1>3. AppRecord(r) /\ r.hot \in [Bridged -> Hot] /\ a.hot[s] \in Hot
  BY <1>2 DEF ReadyToFlush, AppRecord, Hot, AppOk
<1>4. c = [r EXCEPT !.hot = hot, !.pc = s]
  BY <1>3
<1>5. hot \in [Bridged -> Hot] /\ hot[s].desired = hotkey /\ hot[s].accepted = r.hot[s].accepted
      /\ \A x \in Bridged : x # s => hot[x] = r.hot[x]
  BY <1>3 DEF Hot
<1> HIDE DEF c, hot
<1>6. AppRecord(c)
  BY <1>3, <1>4, <1>5 DEF AppRecord, Hot
<1>7. /\ c.held = r.held /\ c.keys = r.keys /\ c.latch = r.latch /\ c.hot = hot
      /\ c.hlatch = r.hlatch /\ c.at = r.at /\ c.pc = s
  BY <1>3, <1>4 DEF AppRecord
<1>8. KeysOk(w, c)
  BY <1>2, <1>7 DEF KeysOk, ReadyToFlush, Chosen
<1>9. HotsOk(w, c)
  <2>1. ASSUME NEW x \in Bridged, x # s
        PROVE  HotOk(w, c.hot[x], c.hlatch[x], c.at, c.pc = x)
    <3>1. HotOk(w, r.hot[x], r.hlatch[x], r.at, r.pc = x)
      BY <1>2 DEF ReadyToFlush, HotsOk
    <3>2. r.pc # x /\ c.pc # x
      BY <1>2, <1>7, <2>1, IdleIsNoSource DEF ReadyToFlush
    <3>3. (r.pc = x) = FALSE /\ (c.pc = x) = FALSE
      BY <3>2
    <3>4. c.hot[x] = r.hot[x] /\ c.hlatch[x] = r.hlatch[x] /\ c.at = r.at
      BY <1>5, <1>7, <2>1
    <3> QED
      BY <3>1, <3>3, <3>4
  <2>2. HotOk(w, c.hot[s], c.hlatch[s], c.at, c.pc = s)
    <3> DEFINE d == r.hot[s]
               e == hot[s]
               l == r.hlatch[s]
    <3>1. LatchOk(w, l) /\ (l.owner = "None" => d.accepted = NoHot)
      <4>1. HotOk(w, r.hot[s], r.hlatch[s], r.at, r.pc = s)
        BY <1>2 DEF ReadyToFlush, HotsOk
      <4> QED
        BY <4>1 DEF HotOk
    <3>2. e.desired = hotkey /\ e.accepted = d.accepted
      BY <1>5
    <3>3. hotkey # NoHot /\ d.accepted \notin {NoHot, hotkey} => hotkey \in w.behind
      BY <1>2, <1>3 DEF HotReset, Hot
    <3>4. hotkey # NoHot => Sampled(w, c.at, hotkey)
      BY <1>2, <1>7, FreshIsSampled
    <3>5. hotkey # NoHot /\ IsLatched(l) => Excused(w, LifeOf(l), hotkey)
      BY <3>1 DEF LatchOk, Fresh, Rightful, Excused
    <3>6. c.hot[s] = e /\ c.hlatch[s] = l /\ (c.pc = s) = TRUE
      BY <1>7
    <3> HIDE DEF d, e, l
    <3>7. HotOk(w, e, l, c.at, TRUE)
      BY <3>1, <3>2, <3>3, <3>4, <3>5 DEF HotOk
    <3> QED
      BY <3>6, <3>7
  <2>3. DOMAIN c.hlatch = Bridged
    BY <1>2, <1>7 DEF ReadyToFlush, HotsOk
  <2> QED
    BY <2>1, <2>2, <2>3 DEF HotsOk
<1>10. AppOk(w, c) /\ c.pc # "sendBle"
  BY <1>2, <1>6, <1>7, <1>8, <1>9, IdleIsNoSource DEF AppOk
<1> QED
  BY <1>10 DEF c, r, b

-----------------------------------------------------------------------------
(* A report is offered to the transport of the latch. *)

\* Nothing is about to choose a host.
Rests(w, a) ==
  /\ AppRecord(a) /\ AtOk(w, a.at) /\ KeysOk(w, a) /\ Chosen(a) /\ DOMAIN a.hlatch = Bridged
  /\ \A s \in Bridged : HotOk(w, a.hot[s], a.hlatch[s], a.at, FALSE)

LEMMA RestsAnywhere ==
  ASSUME NEW w, NEW a, Rests(w, a), NEW pc
  PROVE  AppOk(w, [a EXCEPT !.pc = pc]) /\ [a EXCEPT !.pc = pc].pc = pc
<1> DEFINE c == [a EXCEPT !.pc = pc]
<1>1. AppRecord(a) /\ c = [a EXCEPT !.pc = pc]
  BY DEF Rests
<1> HIDE DEF c
<1>2. AppRecord(c)
  BY <1>1 DEF AppRecord
<1>3. /\ c.held = a.held /\ c.keys = a.keys /\ c.latch = a.latch /\ c.hot = a.hot
      /\ c.hlatch = a.hlatch /\ c.at = a.at /\ c.pc = pc
  BY <1>1 DEF AppRecord
<1>4. KeysOk(w, c)
  BY <1>3 DEF KeysOk, Rests, Chosen
<1>5. HotsOk(w, c)
  <2> SUFFICES ASSUME NEW s \in Bridged
               PROVE  HotOk(w, c.hot[s], c.hlatch[s], c.at, c.pc = s)
    BY <1>3 DEF HotsOk, Rests
  <2> DEFINE here == c.pc = s
  <2>1. here \in BOOLEAN
    OBVIOUS
  <2> HIDE DEF here
  <2>2. HotOk(w, a.hot[s], a.hlatch[s], a.at, here)
    BY <2>1, HotAnywhere DEF Rests
  <2> QED
    BY <1>3, <2>2 DEF here
<1>6. AppOk(w, c)
  BY <1>2, <1>3, <1>4, <1>5 DEF AppOk, Rests
<1> QED
  BY <1>3, <1>6 DEF c

LEMMA AppRests ==
  ASSUME NEW w, NEW a, AppOk(w, a), a.pc \notin Bridged, a.pc # "keys"
  PROVE  Rests(w, a)
<1>1. ASSUME NEW s \in Bridged
      PROVE  HotOk(w, a.hot[s], a.hlatch[s], a.at, FALSE)
  <2>1. (a.pc = s) = FALSE
    OBVIOUS
  <2>2. HotOk(w, a.hot[s], a.hlatch[s], a.at, a.pc = s)
    BY DEF AppOk, HotsOk
  <2> QED
    BY <2>1, <2>2
<1> QED
  BY <1>1 DEF Rests, AppOk, HotsOk, KeysOk, Chosen

\* Between two calls of the main task, and between the steps of a poll.
LEMMA GoesOn ==
  ASSUME NEW w, NEW a, AppOk(w, a), a.pc \in {"idle", "pollUsb", "sendUsb", "pollBle", "sendBle"},
         NEW pc
  PROVE  AppOk(w, [a EXCEPT !.pc = pc]) /\ [a EXCEPT !.pc = pc].pc = pc
BY AppRests, RestsAnywhere, IdleIsNoSource

LEMMA SelectedOk ==
  ASSUME NEW w, NEW l, LatchOk(w, l), NEW at, AtOk(w, at), NEW released \in BOOLEAN
  PROVE  LET m == Selected(l, released, at) IN
         /\ LatchOk(w, m)
         /\ ~released => m.owner # "None"
         /\ \/ m = l \/ m = Suppressed
            \/ /\ l.owner = "None" /\ ~released
               /\ \E o \in Transports : LifeOf(m) = <<o, at[o]>>
<1> DEFINE seen == Observed(l, at)
           first == IF at.Usb # NoEpoch THEN "Usb" ELSE "Ble"
           m == Selected(l, released, at)
           chosen == [owner |-> first, epoch |-> at[first]]
<1>1. seen = l \/ seen = Suppressed
  BY DEF Observed
<1>2. LatchOk(w, seen)
  BY <1>1, LatchesTyped
<1>3. CASE released \/ seen.owner # "None"
  <2>1. m = seen
    BY <1>3 DEF Selected
  <2> QED
    BY <1>1, <1>2, <1>3, <2>1
<1>4. CASE ~(released \/ seen.owner # "None") /\ at[first] # NoEpoch
  <2>1. m = chosen
    BY <1>4 DEF Selected
  <2>2. l.owner = "None"
    BY <1>1, <1>4 DEF Suppressed
  <2>3. first \in Transports
    BY DEF Transports
  <2> HIDE DEF first
  <2>4. at[first] \in Nat /\ Past(w, <<first, at[first]>>)
    BY <2>3 DEF AtOk
  <2>5. LifeOf(chosen) = <<first, at[first]>> /\ chosen \in Latches /\ chosen.owner = first
        /\ chosen.epoch = at[first]
    BY <2>3, <2>4 DEF LifeOf, Latches, Transports
  <2> HIDE DEF chosen
  <2>6. LatchOk(w, chosen) /\ chosen.owner # "None"
    BY <1>4, <2>3, <2>4, <2>5 DEF LatchOk, Transports
  <2> QED
    BY <1>4, <2>1, <2>2, <2>3, <2>5, <2>6
<1>5. CASE ~(released \/ seen.owner # "None") /\ ~(at[first] # NoEpoch)
  <2>1. m = Suppressed
    BY <1>5 DEF Selected
  <2> QED
    BY <2>1, LatchesTyped
<1> QED
  BY <1>3, <1>4, <1>5

LEMMA UsbOffered ==
  ASSUME NEW w, UsbOk(w, usb), NEW r, ReportOk(w, r), NEW yes, NEW no, Rests(w, yes),
         Rests(w, no), OfferUsb(r, yes, no)
  PROVE  Usable(w, usb, usb') /\ AppOk(w, app') /\ app'.pc # "sendBle"
<1> DEFINE u == UsbReady(usb)
           ok == /\ r.own = Usb(UsbEpoch(u))
                 /\ Accepts(IF IsSnapshot(r) THEN u.keys ELSE u.cmds, r, UsbLimit(r))
<1>1. Usable(w, usb, u) /\ u.reset = FALSE
  BY UsbReadyOk
<1>2. /\ usb' = IF ok THEN UsbQueued(u, r) ELSE u
      /\ app' = [(IF ok THEN yes ELSE no) EXCEPT
                   !.pc = IF ok \/ IsSnapshot(r) THEN "pollUsb" ELSE "idle"]
  BY DEF OfferUsb
<1>3. app'.pc \in {"pollUsb", "idle"} /\ AppOk(w, app')
  <2> DEFINE pc == IF ok \/ IsSnapshot(r) THEN "pollUsb" ELSE "idle"
             a == IF ok THEN yes ELSE no
  <2>1. Rests(w, a) /\ app' = [a EXCEPT !.pc = pc] /\ pc \in {"pollUsb", "idle"}
    BY <1>2
  <2> HIDE DEF pc, a
  <2> QED
    BY <2>1, RestsAnywhere
<1>4. Usable(w, usb, usb')
  <2>1. CASE ok
    <3> HIDE DEF u
    <3>1. Usable(w, u, UsbQueued(u, r))
      BY <1>1, <2>1, UsbQueuedOk DEF Usable
    <3>2. usb' = UsbQueued(u, r)
      BY <1>2, <2>1
    <3> QED
      BY <1>1, <3>1, <3>2 DEF Usable, SamePort
  <2>2. CASE ~ok
    BY <1>1, <1>2, <2>2
  <2> QED
    BY <2>1, <2>2
<1> QED
  BY <1>3, <1>4

LEMMA BleOffered ==
  ASSUME NEW w, BleOk(w, ble), NEW r, ReportOk(w, r), NEW yes, NEW no, Rests(w, yes),
         Rests(w, no), OfferBle(r, yes, no)
  PROVE  Serves(w, ble, ble') /\ AppOk(w, app') /\ app'.pc # "sendBle"
<1> DEFINE b == BleReady(ble)
           same == r.own = Ble(Identity(ble).gen)
           ok == same /\ Accepts(b.queue, r, Limit(r.class))
           q == Pushed(b.queue, r)
<1>1. Serves(w, ble, b)
  BY BleReadyOk
<1>2. /\ ble' = IF ok THEN [b EXCEPT !.queue = Pushed(b.queue, r)] ELSE IF same THEN b ELSE ble
      /\ app' = [(IF ok THEN yes ELSE no) EXCEPT !.pc = IF ok THEN "pollBle" ELSE "idle"]
  BY DEF OfferBle
<1>3. app'.pc \in {"pollBle", "idle"} /\ AppOk(w, app')
  <2> DEFINE pc == IF ok THEN "pollBle" ELSE "idle"
             a == IF ok THEN yes ELSE no
  <2>1. Rests(w, a) /\ app' = [a EXCEPT !.pc = pc] /\ pc \in {"pollBle", "idle"}
    BY <1>2
  <2> HIDE DEF pc, a
  <2> QED
    BY <2>1, RestsAnywhere
<1>4. Serves(w, ble, ble')
  <2>1. CASE ok
    <3> HIDE DEF b
    <3>1. Limit(r.class) \in Int /\ Limit(r.class) <= Capacity
      BY LimitsAreBounded DEF ReportOk
    <3>2. Told(w, q)
      BY <1>1, <2>1, <3>1, PushedIsTold DEF Serves, BleOk
    <3> HIDE DEF q
    <3>3. Serves(w, b, [b EXCEPT !.queue = q])
      BY <1>1, <3>2, BleQueueOk DEF Serves
    <3>4. ble' = [b EXCEPT !.queue = q]
      BY <1>2, <2>1 DEF q
    <3> QED
      BY <1>1, <3>3, <3>4 DEF Serves
  <2>2. CASE ~ok
    BY <1>1, <1>2, <2>2 DEF Serves
  <2> QED
    BY <2>1, <2>2
<1> QED
  BY <1>3, <1>4

\* What the transports become when a report is offered.
LEMMA OfferedOk ==
  ASSUME NEW w, UsbOk(w, usb), BleOk(w, ble), NEW latch, NEW r,
         IsLatched(latch) => ReportOk(w, r), NEW yes, NEW no, Rests(w, yes), Rests(w, no),
         Offer(latch, r, yes, no)
  PROVE  /\ Usable(w, usb, usb') /\ Serves(w, ble, ble') /\ AppOk(w, app')
         /\ app'.pc # "sendBle"
<1>0. Usable(w, usb, usb) /\ Serves(w, ble, ble)
  BY DEF Usable, SamePort, Serves
<1>1. CASE latch.owner = "Usb" /\ OfferUsb(r, yes, no) /\ UNCHANGED ble
  <2>1. ReportOk(w, r)
    BY <1>1 DEF IsLatched
  <2>2. Serves(w, ble, ble')
    BY <1>0, <1>1
  <2> QED
    BY <1>1, <2>1, <2>2, UsbOffered
<1>2. CASE latch.owner = "Ble" /\ OfferBle(r, yes, no) /\ UNCHANGED usb
  <2>1. ReportOk(w, r)
    BY <1>2 DEF IsLatched
  <2>2. Usable(w, usb, usb')
    BY <1>0, <1>2
  <2> QED
    BY <1>2, <2>1, <2>2, BleOffered
<1>3. CASE ~IsLatched(latch) /\ app' = [yes EXCEPT !.pc = "idle"] /\ UNCHANGED <<usb, ble>>
  BY <1>0, <1>3, RestsAnywhere
<1> QED
  BY <1>1, <1>2, <1>3 DEF Offer

Kept(w) ==
  /\ Usable(w, usb, usb') /\ Serves(w, ble, ble') /\ AppOk(w, app') /\ app'.pc # "sendBle"

\* What is sent for a chord that chooses, or has chosen, is rightful there.
LEMMA SentIsRightful ==
  ASSUME NEW w, NEW a, AppOk(w, a), a.pc = "keys", NEW m,
         LatchOk(w, m),
         \/ m = a.latch \/ m = Suppressed
         \/ /\ a.latch.owner = "None" /\ a.keys.desired # {}
            /\ \E o \in Transports : LifeOf(m) = <<o, a.at[o]>>
  PROVE  /\ IsLatched(m) => \A i \in a.keys.desired : Rightful(w, LifeOf(m), i)
         /\ IsLatched(m) => ReportOk(w, KeysReport(ClassOf(a.keys.accepted, a.keys.desired),
                                                   a.keys.desired, LifeOf(m)))
<1> DEFINE keys == a.keys.desired
           l == LifeOf(m)
           class == ClassOf(a.keys.accepted, keys)
           r == KeysReport(class, keys, l)
<1>1. IsLatched(m) => \A i \in keys : Rightful(w, l, i)
  <2>1. CASE m = a.latch \/ m = Suppressed
    BY <2>1, LatchesTyped DEF AppOk, KeysOk
  <2>2. CASE /\ a.latch.owner = "None" /\ keys # {}
             /\ \E o \in Transports : l = <<o, a.at[o]>>
    <3>1. \A i \in keys : Sampled(w, a.at, i)
      BY <2>2 DEF AppOk, KeysOk
    <3> QED
      BY <2>2, <3>1 DEF Sampled
  <2> QED
    BY <2>1, <2>2
<1>2. IsLatched(m) => ReportOk(w, r)
  <2> SUFFICES ASSUME IsLatched(m)
               PROVE  ReportOk(w, r)
    OBVIOUS
  <2>1. l \in Lifetimes /\ l[2] # NoEpoch
    BY DEF LatchOk, Latches, IsLatched, LifeOf, Lifetimes, Transports
  <2>2. class \in {"Press", "Release", "AllReleased"}
    BY DEF ClassOf
  <2>3. keys \subseteq Inputs /\ 0 \in 0..Pieces
    BY BoundsAreNumbers DEF AppOk, KeysOk, DeliveryOk
  <2> HIDE DEF class, l, keys
  <2>4. r \in Entries /\ r.own = l /\ r.keys = keys /\ r.class = class
    BY <2>1, <2>2, <2>3 DEF KeysReport, Entries
  <2> HIDE DEF r
  <2> QED
    BY <1>1, <2>1, <2>2, <2>4 DEF ReportOk
<1> QED
  BY <1>1, <1>2

LEMMA SendKeysOk ==
  ASSUME NEW w, UsbOk(w, usb), BleOk(w, ble), AppOk(w, app), SendKeys
  PROVE  Kept(w)
<1> DEFINE keys == app.keys.desired
           up == keys = {}
           m == Selected(app.latch, up, app.at)
           r == KeysReport(ClassOf(app.keys.accepted, keys), keys, LifeOf(m))
           d == Delivered(app.keys)
           l == Committed(m, up)
           yes == [app EXCEPT !.keys = d, !.latch = l]
           no == [app EXCEPT !.latch = m]
<1>1. app.pc = "keys" /\ Offer(m, r, yes, no)
  BY DEF SendKeys
<1>2. up \in BOOLEAN /\ AppRecord(app) /\ AtOk(w, app.at) /\ KeysOk(w, app) /\ HotsOk(w, app)
  BY DEF AppOk
<1> HIDE DEF up
<1>3. /\ LatchOk(w, m) /\ (~up => m.owner # "None")
      /\ \/ m = app.latch \/ m = Suppressed
         \/ /\ app.latch.owner = "None" /\ ~up
            /\ \E o \in Transports : LifeOf(m) = <<o, app.at[o]>>
  BY <1>2, SelectedOk DEF KeysOk
<1> HIDE DEF m
<1>4. /\ IsLatched(m) => \A i \in keys : Rightful(w, LifeOf(m), i)
      /\ IsLatched(m) => ReportOk(w, r)
  BY <1>1, <1>3, SentIsRightful DEF up
<1>5. DOMAIN app.hlatch = Bridged
      /\ \A s \in Bridged : HotOk(w, app.hot[s], app.hlatch[s], app.at, FALSE)
  <2>1. \A s \in Bridged : (app.pc = s) = FALSE
    BY <1>1, IdleIsNoSource
  <2>2. \A s \in Bridged : HotOk(w, app.hot[s], app.hlatch[s], app.at, app.pc = s)
    BY <1>2 DEF HotsOk
  <2>3. \A s \in Bridged : HotOk(w, app.hot[s], app.hlatch[s], app.at, FALSE)
    BY <2>1, <2>2
  <2> QED
    BY <1>2, <2>3 DEF HotsOk
<1>6. DeliveryOk(app.keys, app.held) /\ app.held \subseteq DOMAIN Key
  BY <1>2 DEF KeysOk
<1>7. Rests(w, no)
  <2> DEFINE c == no
  <2>1. c = [app EXCEPT !.latch = m]
    OBVIOUS
  <2> HIDE DEF c
  <2>2. AppRecord(c)
    BY <1>2, <2>1 DEF AppRecord
  <2>3. /\ c.held = app.held /\ c.keys = app.keys /\ c.latch = m /\ c.hot = app.hot
        /\ c.hlatch = app.hlatch /\ c.at = app.at
    BY <1>2, <2>1 DEF AppRecord
  <2>4. m.owner = "None" => keys = {} /\ app.keys.accepted = {}
    BY <1>2, <1>3 DEF KeysOk, up, Suppressed
  <2>5. KeysOk(w, c) /\ Chosen(c)
    BY <1>3, <1>4, <1>6, <2>3, <2>4 DEF KeysOk, Chosen
  <2>6. Rests(w, c)
    BY <1>2, <1>5, <2>2, <2>3, <2>5 DEF Rests
  <2> QED
    BY <2>6 DEF c
<1>8. Rests(w, yes)
  <2> DEFINE c == yes
  <2>1. c = [app EXCEPT !.keys = d, !.latch = l]
    OBVIOUS
  <2>2. DeliveryOk(d, app.held) /\ d.desired = keys /\ d.accepted = keys
    <3>1. d = [app.keys EXCEPT !.accepted = keys, !.pending = FALSE]
      BY DEF Delivered
    <3> HIDE DEF d
    <3>2. d.desired = keys /\ d.accepted = keys /\ d.pending = FALSE
          /\ d \in [desired : SUBSET Inputs, accepted : SUBSET Inputs, pending : BOOLEAN]
      BY <1>6, <3>1 DEF DeliveryOk
    <3>3. d.pending = (d.desired # d.accepted)
      BY <3>2
    <3> QED
      BY <1>6, <3>2, <3>3 DEF DeliveryOk
  <2>3. /\ LatchOk(w, l) /\ (l.owner = "None" => keys = {})
        /\ IsLatched(l) => l = m
    <3>1. l = IF up THEN NoLatch ELSE m
      BY DEF Committed
    <3> QED
      BY <1>3, <3>1, LatchesTyped DEF up
  <2> HIDE DEF c, d, l
  <2>4. AppRecord(c)
    BY <1>2, <2>1 DEF AppRecord
  <2>5. /\ c.held = app.held /\ c.keys = d /\ c.latch = l /\ c.hot = app.hot
        /\ c.hlatch = app.hlatch /\ c.at = app.at
    BY <1>2, <2>1 DEF AppRecord
  <2>6. KeysOk(w, c) /\ Chosen(c)
    BY <1>4, <1>6, <2>2, <2>3, <2>5 DEF KeysOk, Chosen
  <2>7. Rests(w, c)
    BY <1>2, <1>5, <2>4, <2>5, <2>6 DEF Rests
  <2> QED
    BY <2>7 DEF c
<1> HIDE DEF r, yes, no
<1>9. Kept(w)
  BY <1>1, <1>4, <1>7, <1>8, OfferedOk DEF Kept
<1> QED
  BY <1>9

\* What is sent for a hotkey.
LEMMA HotIsExcused ==
  ASSUME NEW w, NEW d \in Hot, HotPending(d), NEW l, NEW at, NEW here, HotOk(w, d, l, at, here),
         NEW m, LatchOk(w, m),
         \/ m = l \/ m = Suppressed
         \/ /\ l.owner = "None" /\ HotDown(d)
            /\ \E o \in Transports : LifeOf(m) = <<o, at[o]>>
  PROVE  /\ d.desired # NoHot /\ IsLatched(m) => Excused(w, LifeOf(m), d.desired)
         /\ IsLatched(m) => ReportOk(w, HotReport(HotDown(d), HotMoved(d), LifeOf(m)))
<1> DEFINE x == LifeOf(m)
           down == HotDown(d)
           r == HotReport(down, HotMoved(d), x)
<1>1. d.desired # NoHot /\ IsLatched(m) => Excused(w, x, d.desired)
  <2> SUFFICES ASSUME d.desired # NoHot, IsLatched(m)
               PROVE  Excused(w, x, d.desired)
    OBVIOUS
  <2>1. CASE m = l \/ m = Suppressed
    BY <2>1, LatchesTyped DEF HotOk
  <2>2. CASE l.owner = "None" /\ \E o \in Transports : x = <<o, at[o]>>
    BY <2>2 DEF HotOk, Sampled, Excused
  <2> QED
    BY <2>1, <2>2
<1>2. IsLatched(m) => ReportOk(w, r)
  <2> SUFFICES ASSUME IsLatched(m)
               PROVE  ReportOk(w, r)
    OBVIOUS
  <2>1. x \in Lifetimes /\ x[2] # NoEpoch
    BY DEF LatchOk, Latches, IsLatched, LifeOf, Lifetimes, Transports
  <2> HIDE DEF x
  <2>2. /\ HotMoved(d) \in Hotkeys \cup {NoHot} /\ down \in BOOLEAN
        /\ down => HotMoved(d) = d.desired /\ d.desired # NoHot
    BY DEF Hot, HotMoved, HotDown, HotPending
  <2> HIDE DEF down
  <2>3. 0 \in 0..Pieces
    BY BoundsAreNumbers
  <2>4. /\ r \in Entries /\ r.own = x /\ r.hot = HotMoved(d)
        /\ r.class = IF down THEN "CommandPress" ELSE "CommandRelease"
    BY <2>1, <2>2, <2>3 DEF HotReport, Entries
  <2> HIDE DEF r
  <2> QED
    BY <1>1, <2>1, <2>2, <2>4 DEF ReportOk, IsSnapshot
<1> QED
  BY <1>1, <1>2

\* What becomes of a hotkey and its latch.
LEMMA HotMovesOn ==
  ASSUME NEW w, NEW d \in Hot, HotPending(d), NEW l, NEW at, NEW here, HotOk(w, d, l, at, here),
         NEW m, LatchOk(w, m), HotDown(d) => m.owner # "None",
         \/ m = l \/ m = Suppressed
         \/ /\ l.owner = "None" /\ HotDown(d)
            /\ \E o \in Transports : LifeOf(m) = <<o, at[o]>>
  PROVE  /\ HotAccepted(d) \in Hot
         /\ HotOk(w, HotAccepted(d), Committed(m, ~HotDown(d)), at, FALSE)
         /\ HotOk(w, d, m, at, FALSE)
<1>1. d.desired # NoHot /\ IsLatched(m) => Excused(w, LifeOf(m), d.desired)
  BY HotIsExcused
<1>2. d.desired # NoHot => (d.accepted \notin {NoHot, d.desired} => d.desired \in w.behind)
  BY DEF HotOk
<1>3. d.accepted = NoHot <=> HotDown(d)
  BY DEF HotDown
<1>4. m.owner # "None"
  <2>1. l.owner = "None" => HotDown(d)
    BY <1>3 DEF HotOk
  <2> QED
    BY <2>1 DEF Suppressed
<1>5. HotOk(w, d, m, at, FALSE)
  BY <1>1, <1>2, <1>4 DEF HotOk
<1>6. HotAccepted(d) \in Hot /\ HotOk(w, HotAccepted(d), Committed(m, ~HotDown(d)), at, FALSE)
  <2> DEFINE e == HotAccepted(d)
             n == Committed(m, ~HotDown(d))
  <2>1. /\ e \in Hot /\ e.desired = d.desired
        /\ e.accepted = IF HotDown(d) THEN d.desired ELSE NoHot
    BY DEF HotAccepted, Hot
  <2>2. n = IF HotDown(d) THEN m ELSE NoLatch
    BY DEF Committed
  <2> HIDE DEF e, n
  <2>3. LatchOk(w, n) /\ (n.owner = "None" => ~HotDown(d)) /\ (IsLatched(n) => n = m)
    BY <1>4, <2>2, LatchesTyped
  <2>4. HotOk(w, e, n, at, FALSE)
    <3>1. n.owner = "None" => e.accepted = NoHot
      BY <2>1, <2>3
    <3>2. d.desired # NoHot => (e.accepted \notin {NoHot, d.desired} => d.desired \in w.behind)
      BY <2>1
    <3>3. d.desired # NoHot /\ n.owner = "None" => d.desired \in w.behind
      BY <1>2, <1>3, <2>3 DEF HotPending, Hot
    <3>4. d.desired # NoHot /\ IsLatched(n) => Excused(w, LifeOf(n), d.desired)
      BY <1>1, <2>3
    <3> QED
      BY <2>1, <2>3, <3>1, <3>2, <3>3, <3>4 DEF HotOk
  <2> QED
    BY <2>1, <2>4 DEF e, n
<1> QED
  BY <1>5, <1>6

LEMMA HotReplaced ==
  ASSUME NEW w, NEW s \in Bridged, NEW a, AppOk(w, a), a.pc \in {"idle", s}, NEW e \in Hot, NEW n,
         HotOk(w, e, n, a.at, FALSE)
  PROVE  /\ Rests(w, [a EXCEPT !.hot[s] = e, !.hlatch[s] = n])
         /\ e = a.hot[s] => Rests(w, [a EXCEPT !.hlatch[s] = n])
<1> DEFINE hot == [a.hot EXCEPT ![s] = e]
           hlatch == [a.hlatch EXCEPT ![s] = n]
           c == [a EXCEPT !.hot = hot, !.hlatch = hlatch]
<1>1. AppRecord(a) /\ AtOk(w, a.at) /\ KeysOk(w, a) /\ HotsOk(w, a) /\ DOMAIN a.hlatch = Bridged
      /\ a.hot \in [Bridged -> Hot]
  BY DEF AppOk, HotsOk, AppRecord, Hot
<1>2. [a EXCEPT !.hot[s] = e, !.hlatch[s] = n] = c
  BY <1>1
<1>3. /\ hot \in [Bridged -> Hot] /\ hot[s] = e /\ DOMAIN hlatch = Bridged /\ hlatch[s] = n
      /\ \A x \in Bridged : x # s => hot[x] = a.hot[x] /\ hlatch[x] = a.hlatch[x]
  BY <1>1
<1>a. c = [a EXCEPT !.hot = hot, !.hlatch = hlatch]
  OBVIOUS
<1>b. e = a.hot[s] => [a EXCEPT !.hlatch[s] = n] = c
  <2> SUFFICES ASSUME e = a.hot[s]
               PROVE  [a EXCEPT !.hlatch = hlatch] = c
    OBVIOUS
  <2>1. hot = a.hot
    BY <1>1
  <2> HIDE DEF hot, hlatch, c
  <2>2. c = [a EXCEPT !.hot = a.hot, !.hlatch = hlatch]
    BY <1>a, <2>1
  <2> QED
    BY <1>1, <2>2 DEF AppRecord
<1> HIDE DEF c, hot, hlatch
<1>4. AppRecord(c)
  BY <1>1, <1>3, <1>a DEF AppRecord, Hot
<1>5. /\ c.held = a.held /\ c.keys = a.keys /\ c.latch = a.latch /\ c.hot = hot
      /\ c.hlatch = hlatch /\ c.at = a.at /\ c.pc = a.pc
  BY <1>1, <1>a DEF AppRecord
<1>6. KeysOk(w, c) /\ Chosen(c)
  BY <1>1, <1>5, IdleIsNoSource DEF KeysOk, Chosen
<1>7. ASSUME NEW x \in Bridged
      PROVE  HotOk(w, c.hot[x], c.hlatch[x], c.at, FALSE)
  <2>1. CASE x = s
    BY <1>3, <1>5, <2>1
  <2>2. CASE x # s
    <3>1. HotOk(w, a.hot[x], a.hlatch[x], a.at, a.pc = x)
      BY <1>1 DEF HotsOk
    <3>2. (a.pc = x) = FALSE
      BY <2>2, IdleIsNoSource
    <3> QED
      BY <1>3, <1>5, <2>2, <3>1, <3>2
  <2> QED
    BY <2>1, <2>2
<1>8. Rests(w, c)
  BY <1>1, <1>3, <1>4, <1>5, <1>6, <1>7 DEF Rests
<1> QED
  BY <1>2, <1>b, <1>8

LEMMA FlushHotOk ==
  ASSUME NEW w, UsbOk(w, usb), BleOk(w, ble), AppOk(w, app), NEW s \in Bridged, FlushHot(s)
  PROVE  Kept(w)
<1> DEFINE d == app.hot[s]
           up == ~HotDown(d)
           l == app.hlatch[s]
           m == Selected(l, up, app.at)
           r == HotReport(~up, HotMoved(d), LifeOf(m))
           yes == [app EXCEPT !.hot[s] = HotAccepted(d), !.hlatch[s] = Committed(m, up)]
           no == [app EXCEPT !.hlatch[s] = m]
<1>1. app.pc \in {"idle", s} /\ app.pc # "sendBle"
  BY IdleIsNoSource DEF FlushHot
<1>2. /\ d \in Hot /\ HotOk(w, d, l, app.at, app.pc = s) /\ AtOk(w, app.at)
      /\ up \in BOOLEAN /\ HotDown(d) = ~up
  BY DEF AppOk, HotsOk, AppRecord, Hot, HotDown
<1>3. CASE HotPending(d)
  <2>1. Offer(m, r, yes, no)
    BY <1>3 DEF FlushHot
  <2>2. /\ LatchOk(w, m) /\ (~up => m.owner # "None")
        /\ \/ m = l \/ m = Suppressed
           \/ /\ l.owner = "None" /\ ~up
              /\ \E o \in Transports : LifeOf(m) = <<o, app.at[o]>>
    <3> HIDE DEF up, l
    <3> QED
      BY <1>2, SelectedOk DEF HotOk
  <2> DEFINE here == app.pc = s
             at == app.at
  <2>a. HotOk(w, d, l, at, here)
    BY <1>2
  <2>b. ~up = HotDown(d) /\ up = ~HotDown(d)
    BY <1>2
  <2> HIDE DEF m, l, up, d, here
  <2>3. IsLatched(m) => ReportOk(w, HotReport(HotDown(d), HotMoved(d), LifeOf(m)))
    BY <1>2, <1>3, <2>2, <2>a, <2>b, HotIsExcused
  <2>4. /\ HotAccepted(d) \in Hot
        /\ HotOk(w, HotAccepted(d), Committed(m, ~HotDown(d)), at, FALSE)
        /\ HotOk(w, d, m, at, FALSE)
    BY <1>2, <1>3, <2>2, <2>a, <2>b, HotMovesOn
  <2>5. IsLatched(m) => ReportOk(w, r)
    BY <2>3, <2>b DEF HotReport
  <2>6. Rests(w, no)
    <3>1. d = app.hot[s]
      BY DEF d
    <3> QED
      BY <1>1, <1>2, <2>4, <3>1, HotReplaced
  <2>7. Rests(w, yes)
    <3>1. HotOk(w, HotAccepted(d), Committed(m, up), at, FALSE)
      BY <2>4, <2>b
    <3> DEFINE e == HotAccepted(d)
               n == Committed(m, up)
    <3>2. e \in Hot /\ HotOk(w, e, n, app.at, FALSE)
      BY <2>4, <3>1
    <3> HIDE DEF e, n
    <3>3. Rests(w, [app EXCEPT !.hot[s] = e, !.hlatch[s] = n])
      BY <1>1, <3>2, HotReplaced
    <3> QED
      BY <3>3 DEF e, n
  <2> HIDE DEF r, yes, no
  <2>8. Kept(w)
    BY <2>1, <2>5, <2>6, <2>7, OfferedOk DEF Kept
  <2> QED
    BY <2>8
<1>4. CASE ~HotPending(d)
  <2> DEFINE n == IF d.desired = NoHot THEN NoLatch ELSE l
             a == [app EXCEPT !.hlatch[s] = n]
  <2>1. AppRecord(app) /\ s \in DOMAIN app.hlatch
    BY DEF AppOk, HotsOk
  <2>2. app' = [app EXCEPT !.pc = "idle", !.hlatch[s] = n] /\ UNCHANGED <<usb, ble>>
    BY <1>4 DEF FlushHot
  <2>3. app' = [a EXCEPT !.pc = "idle"]
    <3>1. app' = [app EXCEPT !.pc = "idle", !.hlatch = [app.hlatch EXCEPT ![s] = n]]
      BY <2>1, <2>2 DEF AppRecord
    <3>2. a = [app EXCEPT !.hlatch = [app.hlatch EXCEPT ![s] = n]]
      BY <2>1 DEF AppRecord
    <3> HIDE DEF a, n
    <3> QED
      BY <2>1, <3>1, <3>2 DEF AppRecord
  <2>4. HotOk(w, d, n, app.at, FALSE)
    <3>1. d.desired = d.accepted
      BY <1>4 DEF HotPending
    <3>2. LatchOk(w, n)
      BY <1>2, LatchesTyped DEF HotOk
    <3> QED
      BY <1>2, <3>1, <3>2 DEF HotOk
  <2>5. Rests(w, a)
    <3> HIDE DEF n, d
    <3>1. d = app.hot[s]
      BY DEF d
    <3> QED
      BY <1>1, <1>2, <2>4, <3>1, HotReplaced
  <2> HIDE DEF a
  <2>6. AppOk(w, app') /\ app'.pc = "idle"
    BY <2>3, <2>5, RestsAnywhere
  <2>7. Usable(w, usb, usb') /\ Serves(w, ble, ble')
    BY <2>2 DEF Usable, SamePort, Serves
  <2> QED
    BY <2>6, <2>7 DEF Kept
<1> QED
  BY <1>3, <1>4

-----------------------------------------------------------------------------
(* Steps of the world. *)

LEMMA AliveMeans ==
  /\ Life("Usb") = <<"Usb", usb.epoch>> /\ Life("Ble") = <<"Ble", adapter.gen>>
  /\ \A l : l \in Alive <=> \/ l = <<"Usb", usb.epoch>> /\ hosts.Usb.live
                            \/ l = <<"Ble", adapter.gen>> /\ hosts.Ble.live
BY DEF Alive, Life, Usb, Ble

LEMMA WorldMeans ==
  /\ World.usb = usb.epoch /\ World.ble = adapter.gen /\ World.alive = Alive
  /\ World.born = env.born /\ World.behind = env.behind
BY DEF World

\* A lifetime that begins has an epoch nothing named before.
LEMMA TimePasses ==
  ASSUME KeyboardOk, usb'.epoch \in Nat, usb.epoch <= usb'.epoch,
         adapter'.gen \in Nat, adapter.gen <= adapter'.gen, env.behind \subseteq env'.behind,
         hosts'.Usb.live => (hosts.Usb.live /\ usb'.epoch = usb.epoch) \/ usb.epoch < usb'.epoch,
         hosts'.Ble.live =>
           (hosts.Ble.live /\ adapter'.gen = adapter.gen) \/ adapter.gen < adapter'.gen,
         \A i \in Inputs : env'.born[i] = env.born[i] \/ Alive' \subseteq env'.born[i]
  PROVE  Follows(World, World')
<1>1. usb.epoch \in Nat /\ adapter.gen \in Nat
  BY DEF KeyboardOk, UsbOk, AdapterOk
<1>2. \A l \in Alive' : l \in Alive \/ ~Past(World, l)
  <2> SUFFICES ASSUME NEW l \in Alive'
               PROVE  l \in Alive \/ ~Past(World, l)
    OBVIOUS
  <2>1. \/ l = <<"Usb", usb'.epoch>> /\ hosts'.Usb.live
        \/ l = <<"Ble", adapter'.gen>> /\ hosts'.Ble.live
    BY DEF Alive, Life, Usb, Ble
  <2>2. CASE l = <<"Usb", usb'.epoch>> /\ hosts'.Usb.live
    <3>1. l[1] = "Usb" /\ l[2] = usb'.epoch
      BY <2>2
    <3>2. CASE hosts.Usb.live /\ usb'.epoch = usb.epoch
      BY <2>2, <3>2, AliveMeans
    <3>3. CASE usb.epoch < usb'.epoch
      BY <1>1, <3>1, <3>3, WorldMeans DEF Past
    <3> QED
      BY <2>2, <3>2, <3>3
  <2>3. CASE l = <<"Ble", adapter'.gen>> /\ hosts'.Ble.live
    <3>1. l[1] = "Ble" /\ l[2] = adapter'.gen
      BY <2>3
    <3>2. CASE hosts.Ble.live /\ adapter'.gen = adapter.gen
      BY <2>3, <3>2, AliveMeans
    <3>3. CASE adapter.gen < adapter'.gen
      BY <1>1, <3>1, <3>3, WorldMeans DEF Past
    <3> QED
      BY <2>3, <3>2, <3>3
  <2> QED
    BY <2>1, <2>2, <2>3
<1> QED
  BY <1>1, <1>2 DEF Follows, World

\* The lifetimes stay.
Steady ==
  /\ usb'.epoch = usb.epoch /\ adapter'.gen = adapter.gen
  /\ hosts'.Usb.live = hosts.Usb.live /\ hosts'.Ble.live = hosts.Ble.live

LEMMA SteadyWorld ==
  ASSUME KeyboardOk, Steady, env.behind \subseteq env'.behind,
         \A i \in Inputs : env'.born[i] = env.born[i] \/ Alive \subseteq env'.born[i]
  PROVE  Follows(World, World') /\ Alive' = Alive
<1>1. Alive' = Alive
  BY DEF Alive, Life, Steady
<1>2. usb.epoch \in Nat /\ adapter.gen \in Nat
  BY DEF KeyboardOk, UsbOk, AdapterOk
<1> QED
  BY <1>1, <1>2, TimePasses DEF Steady

Budget == {"presses", "mounts", "links", "texts", "faults", "switches"}

LEMMA SpentOk ==
  ASSUME NEW left \in Bounds, NEW what \in Budget, left[what] > 0
  PROVE  [left EXCEPT ![what] = @ - 1] \in Bounds
<1>1. CASE what = "presses"
  BY <1>1 DEF Bounds
<1>2. CASE what = "mounts"
  BY <1>2 DEF Bounds
<1>3. CASE what = "links"
  BY <1>3 DEF Bounds
<1>4. CASE what = "texts"
  BY <1>4 DEF Bounds
<1>5. CASE what = "faults"
  BY <1>5 DEF Bounds
<1>6. CASE what = "switches"
  BY <1>6 DEF Bounds
<1> QED
  BY <1>1, <1>2, <1>3, <1>4, <1>5, <1>6 DEF Budget

EnvStays ==
  /\ EnvOk' /\ env'.born = env.born /\ env'.behind = env.behind /\ env'.shared = env.shared

LEMMA SpendingOk ==
  ASSUME EnvOk, NEW what \in Budget, Left(what), Spend(what)
  PROVE  EnvStays /\ env'.late = env.late
<1> DEFINE left == [env.left EXCEPT ![what] = @ - 1]
<1>1. left \in Bounds
  BY SpentOk DEF EnvOk, Left
<1>2. env' = [env EXCEPT !.left = left]
  BY DEF Spend
<1> HIDE DEF left
<1>3. env' = [left |-> left, born |-> env.born, behind |-> env.behind, shared |-> env.shared,
              late |-> env.late]
  BY <1>2 DEF EnvOk
<1> QED
  BY <1>1, <1>3 DEF EnvOk, EnvStays

\* A loss is noted, and nothing else.
LEMMA LosingOk ==
  ASSUME EnvOk, NEW lost, Lose(lost)
  PROVE  /\ EnvStays /\ env.late \subseteq env'.late
         /\ lost => Life("Ble") \in env'.late
         /\ ~lost => env'.late = env.late
<1>1. CASE lost
  <2> DEFINE late == env.late \cup {Life("Ble")}
  <2>1. env' = [env EXCEPT !.late = late]
    BY <1>1 DEF Lose
  <2>2. env.late \subseteq late /\ Life("Ble") \in late
    OBVIOUS
  <2> HIDE DEF late
  <2>3. env' = [left |-> env.left, born |-> env.born, behind |-> env.behind, shared |-> env.shared,
                late |-> late]
    BY <2>1 DEF EnvOk
  <2> QED
    BY <1>1, <2>2, <2>3 DEF EnvOk, EnvStays
<1>2. CASE ~lost
  <2>1. env' = env
    BY <1>2 DEF Lose
  <2> QED
    BY <1>2, <2>1 DEF EnvOk, EnvStays
<1> QED
  BY <1>1, <1>2

LEMMA EnvUnchanged ==
  ASSUME EnvOk, UNCHANGED env
  PROVE  EnvStays
BY DEF EnvOk, EnvStays

\* The main task's steps that leave the radio and the hosts alone.
LEMMA MainStepOk ==
  ASSUME KeyboardOk, Follows(World, World'), Usable(World', usb, usb'), BleOk(World', ble'),
         AppOk(World', app'), app'.pc = "sendBle" => ble'.queue # <<>>, EnvOk',
         adapter'.gen = adapter.gen, adapter'.owner = adapter.owner, AdapterOk(adapter'),
         UNCHANGED hosts
  PROVE  KeyboardOk'
<1>1. Life("Usb")' = Life("Usb") /\ Life("Ble")' = Life("Ble") /\ Alive' = Alive
  BY DEF Usable, SamePort, Life, Alive
<1>2. HostsOk(World)'
  <2> DEFINE l == Life("Usb")
             m == Life("Ble")
  <2>1. HostOk(World, hosts.Usb, l) /\ HostOk(World, hosts.Ble, m)
    BY DEF KeyboardOk, HostsOk
  <2>2. (hosts.Usb.live => l \in World'.alive) /\ (hosts.Ble.live => m \in World'.alive)
    BY <1>1, <2>1, WorldMeans DEF HostOk, World
  <2> HIDE DEF l, m
  <2>3. HostOk(World', hosts.Usb, l) /\ HostOk(World', hosts.Ble, m)
    BY <2>1, <2>2, HostKept
  <2> QED
    BY <1>1, <2>3 DEF HostsOk, l, m
<1>3. UsbOk(World', usb')
  BY DEF Usable
<1>4. LinksOk'
  BY DEF KeyboardOk, LinksOk, Usable, SamePort
<1> QED
  BY <1>2, <1>3, <1>4 DEF KeyboardOk

-----------------------------------------------------------------------------
(* The main task's steps. *)

Carries ==
  /\ Follows(World, World') /\ UsbOk(World', usb) /\ BleOk(World', ble) /\ AppOk(World', app)
  /\ Present(World') /\ World'.alive = Alive /\ World'.born = env'.born
  /\ World'.behind = env'.behind

LEMMA Carried ==
  ASSUME KeyboardOk, Steady, env.behind \subseteq env'.behind,
         \A i \in Inputs : env'.born[i] = env.born[i] \/ Alive \subseteq env'.born[i]
  PROVE  Carries
<1>1. Follows(World, World') /\ Alive' = Alive
  BY SteadyWorld
<1> DEFINE x == World'
<1>2. /\ x.usb = usb.epoch /\ x.ble = adapter.gen /\ x.alive = Alive /\ x.born = env'.born
      /\ x.behind = env'.behind
  BY <1>1 DEF World, Steady
<1> HIDE DEF x
<1>3. UsbOk(World, usb) /\ BleOk(World, ble) /\ AppOk(World, app) /\ Follows(World, x)
  BY <1>1 DEF KeyboardOk, x
<1>4. UsbOk(x, usb) /\ BleOk(x, ble) /\ AppOk(x, app)
  BY <1>2, <1>3, UsbKept, BleKept, AppKept
<1>5. Present(x)
  BY <1>2, <1>4 DEF Present, KeyboardOk, UsbOk, AdapterOk
<1> QED
  BY <1>1, <1>2, <1>4, <1>5 DEF Carries, x

LEMMA CarriedAlone ==
  ASSUME KeyboardOk, UNCHANGED <<adapter, hosts>>, usb'.epoch = usb.epoch, env'.born = env.born,
         env'.behind = env.behind
  PROVE  Carries
BY Carried DEF Steady

\* The transports as they are.
LEMMA AsItWas ==
  ASSUME NEW w
  PROVE  /\ UsbOk(w, usb) => Usable(w, usb, usb)
         /\ BleOk(w, ble) => Serves(w, ble, ble)
BY DEF Usable, SamePort, Serves

LEMMA FlushStep ==
  ASSUME KeyboardOk, Carries, NEW a, ReadyToFlush(World', a), Flush(a), EnvOk',
         UNCHANGED <<usb, adapter, hosts>>
  PROVE  KeyboardOk'
<1> DEFINE x == World'
           b == Refreshed(ble)
           f == Flushing(Reconciled(a, b))
<1>1. Present(x) /\ ReadyToFlush(x, a) /\ UsbOk(x, usb) /\ BleOk(x, ble)
  BY DEF Carries
<1> HIDE DEF x
<1>2. AppOk(x, f) /\ f.pc # "sendBle"
  BY <1>1, FlushedOk
<1>3. BleOk(x, b)
  BY <1>1, RefreshedOk DEF Serves
<1>4. app' = f /\ ble' = b
  BY DEF Flush
<1>5. Usable(x, usb, usb')
  BY <1>1, AsItWas
<1> HIDE DEF f, b
<1>6. AdapterOk(adapter')
  BY DEF KeyboardOk
<1>7. AppOk(x, app') /\ BleOk(x, ble') /\ app'.pc # "sendBle"
  BY <1>2, <1>3, <1>4
<1> QED
  BY <1>5, <1>6, <1>7, MainStepOk DEF Carries, x

\* Hold, when what it adds was just pressed.
LEMMA HoldOk ==
  ASSUME KeyboardOk, Carries, app.pc = "idle", NEW held \in SUBSET DOMAIN Key, Hold(held), EnvOk',
         \A i \in KeysOf(held) : i \in app.keys.desired \/ Fresh(World', i),
         UNCHANGED <<usb, adapter, hosts>>
  PROVE  KeyboardOk'
<1> DEFINE x == World'
<1>1. /\ AppOk(x, app) /\ UsbOk(x, usb) /\ BleOk(x, ble)
      /\ \A i \in KeysOf(held) : i \in app.keys.desired \/ Fresh(x, i)
  BY DEF Carries
<1> HIDE DEF x
<1>2. CASE KeysOf(held) = KeysOf(app.held)
  <2> DEFINE c == [app EXCEPT !.held = held]
  <2>1. AppOk(x, c) /\ c.pc = app.pc
    BY <1>1, <1>2, SameChordOk
  <2>2. app' = c /\ UNCHANGED ble
    BY <1>2 DEF Hold
  <2> HIDE DEF c
  <2>3. AppOk(x, app') /\ BleOk(x, ble') /\ app'.pc # "sendBle" /\ Usable(x, usb, usb')
    BY <1>1, <2>1, <2>2, AsItWas
  <2>4. AdapterOk(adapter')
    BY DEF KeyboardOk
  <2> QED
    BY <2>3, <2>4, MainStepOk DEF Carries, x
<1>3. CASE KeysOf(held) # KeysOf(app.held)
  <2> DEFINE a == [app EXCEPT !.held = held, !.keys = Desired(app.keys, KeysOf(held))]
  <2>1. ReadyToFlush(x, app)
    BY <1>1, IdleIsReady
  <2>2. ReadyToFlush(x, a)
    BY <1>1, <2>1, ChordIsReady
  <2>3. Flush(a)
    BY <1>3 DEF Hold
  <2> HIDE DEF a
  <2> QED
    BY <2>2, <2>3, FlushStep DEF x
<1> QED
  BY <1>2, <1>3

LEMMA BornIsFresh ==
  ASSUME KeyboardOk, NEW pressed \in SUBSET Inputs, env'.born = Born(pressed)
  PROVE  /\ \A i \in Inputs : env'.born[i] = env.born[i] \/ Alive \subseteq env'.born[i]
         /\ \A i \in pressed : Alive \subseteq env'.born[i]
         /\ DOMAIN env'.born = Inputs
BY DEF KeyboardOk, EnvOk, Born

Pressing(what, born, behind, shared) ==
  env' = [env EXCEPT !.left = [env.left EXCEPT ![what] = @ - 1], !.born = born,
                     !.behind = behind, !.shared = shared]

LEMMA PressedEnv ==
  ASSUME EnvOk, NEW what \in Budget, Left(what), NEW born, DOMAIN born = Inputs, NEW behind,
         NEW shared, Pressing(what, born, behind, shared)
  PROVE  /\ EnvOk' /\ env'.born = born /\ env'.behind = behind /\ env'.shared = shared
         /\ env'.late = env.late
<1> DEFINE left == [env.left EXCEPT ![what] = @ - 1]
<1>1. left \in Bounds
  BY SpentOk DEF EnvOk, Left
<1> HIDE DEF left
<1>2. env' = [env EXCEPT !.left = left, !.born = born, !.behind = behind, !.shared = shared]
  BY DEF left, Pressing
<1>3. env' = [left |-> left, born |-> born, behind |-> behind, shared |-> shared,
              late |-> env.late]
  BY <1>2 DEF EnvOk
<1>4. /\ env'.left = left /\ env'.born = born /\ env'.behind = behind /\ env'.shared = shared
      /\ env'.late = env.late
  BY <1>3
<1>5. env' = [left |-> env'.left, born |-> env'.born, behind |-> env'.behind,
             shared |-> env'.shared, late |-> env'.late]
  BY <1>3, <1>4
<1>6. DOMAIN env'.born = Inputs
  BY <1>4
<1> QED
  BY <1>1, <1>4, <1>5, <1>6 DEF EnvOk

LEMMA PressOk ==
  ASSUME KeyboardOk, NEW s \in DOMAIN Key, Press(s)
  PROVE  KeyboardOk'
<1> DEFINE born == Born({Key[s]})
           held == app.held \cup {s}
<1>1. EnvOk /\ env = [left |-> env.left, born |-> env.born, behind |-> env.behind, shared |-> env.shared,
           late |-> env.late]
  BY DEF KeyboardOk, EnvOk
<1>2. /\ app.pc = "idle" /\ Left("presses") /\ Hold(held) /\ UNCHANGED <<usb, adapter, hosts>>
      /\ env' = [env EXCEPT !.left.presses = @ - 1, !.born = born]
  BY DEF Press
<1>3. {Key[s]} \in SUBSET Inputs
  BY DEF Inputs, KeysOf
<1>4. DOMAIN born = Inputs
  BY <1>1 DEF Born, EnvOk
<1> HIDE DEF born
<1>5. Pressing("presses", born, env.behind, env.shared)
  BY <1>1, <1>2 DEF Pressing
<1>6. EnvOk' /\ env'.born = born /\ env'.behind = env.behind
  BY <1>1, <1>2, <1>4, <1>5, PressedEnv DEF Budget
<1>7. /\ \A i \in Inputs : env'.born[i] = env.born[i] \/ Alive \subseteq env'.born[i]
      /\ Alive \subseteq env'.born[Key[s]]
  <2>1. env'.born = Born({Key[s]})
    BY <1>6 DEF born
  <2> QED
    BY <1>3, <2>1, BornIsFresh
<1>8. Carries
  BY <1>2, <1>6, <1>7, Carried DEF Steady
<1>9. Fresh(World', Key[s])
  BY <1>7, <1>8 DEF Carries, Fresh
<1>10. \A i \in KeysOf(held) : i \in app.keys.desired \/ Fresh(World', i)
  <2>1. app.keys.desired = KeysOf(app.held)
    BY DEF KeyboardOk, AppOk, KeysOk, DeliveryOk
  <2>2. \A i \in KeysOf(held) : i \in KeysOf(app.held) \/ i = Key[s]
    BY DEF KeysOf
  <2> QED
    BY <1>9, <2>1, <2>2
<1>11. held \in SUBSET DOMAIN Key
  BY DEF KeyboardOk, AppOk, KeysOk
<1> HIDE DEF held
<1> QED
  BY <1>2, <1>6, <1>8, <1>10, <1>11, HoldOk

LEMMA ReleaseOk ==
  ASSUME KeyboardOk, NEW s \in DOMAIN Key, Release(s)
  PROVE  KeyboardOk'
<1> DEFINE held == app.held \ {s}
<1>1. /\ app.pc = "idle" /\ Hold(held) /\ UNCHANGED <<usb, adapter, hosts, env>>
  BY DEF Release
<1>2. EnvStays
  BY <1>1, EnvUnchanged DEF KeyboardOk
<1>3. Carries
  BY <1>1, <1>2, CarriedAlone DEF EnvStays
<1>4. app.keys.desired = KeysOf(app.held) /\ app.held \subseteq DOMAIN Key
  BY DEF KeyboardOk, AppOk, KeysOk, DeliveryOk
<1>5. held \in SUBSET DOMAIN Key /\ KeysOf(held) \subseteq app.keys.desired
  BY <1>4 DEF KeysOf
<1> HIDE DEF held
<1> QED
  BY <1>1, <1>2, <1>3, <1>5, HoldOk DEF EnvStays

LEMMA FlushKeysOk ==
  ASSUME KeyboardOk, FlushKeys
  PROVE  KeyboardOk'
<1>1. app.pc = "idle" /\ Flush(app) /\ UNCHANGED <<usb, adapter, hosts, env>>
  BY DEF FlushKeys
<1>2. EnvStays
  BY <1>1, EnvUnchanged DEF KeyboardOk
<1>3. Carries
  BY <1>1, <1>2, CarriedAlone DEF EnvStays
<1> DEFINE x == World'
<1>4. AppOk(x, app)
  BY <1>3 DEF Carries
<1> HIDE DEF x
<1>5. ReadyToFlush(x, app)
  BY <1>1, <1>4, IdleIsReady
<1> QED
  BY <1>1, <1>2, <1>3, <1>5, FlushStep DEF EnvStays, x

LEMMA ReleaseAllOk ==
  ASSUME KeyboardOk, ReleaseAll
  PROVE  KeyboardOk'
<1> DEFINE b == [app EXCEPT !.held = {}, !.keys = Desired(app.keys, KeysOf({}))]
           hot == [s \in Bridged |-> [app.hot[s] EXCEPT !.desired = NoHot]]
           a == [b EXCEPT !.hot = hot]
<1>1. /\ app.pc = "idle" /\ Left("switches") /\ Spend("switches")
      /\ UNCHANGED <<usb, adapter, hosts>>
      /\ Flush([app EXCEPT !.held = {}, !.keys = Desired(app.keys, {}), !.hot = hot])
  BY DEF ReleaseAll
<1>2. EnvStays
  BY <1>1, SpendingOk DEF KeyboardOk, Budget
<1>3. Carries
  BY <1>1, <1>2, CarriedAlone DEF EnvStays
<1> DEFINE x == World'
<1>4. AppOk(x, app)
  BY <1>3 DEF Carries
<1> HIDE DEF x
<1>5. ReadyToFlush(x, app)
  BY <1>1, <1>4, IdleIsReady
<1>6. ReadyToFlush(x, b)
  <2>1. {} \in SUBSET DOMAIN Key /\ \A i \in KeysOf({}) : i \in app.keys.desired \/ Fresh(x, i)
    BY DEF KeysOf
  <2> QED
    BY <1>5, <2>1, ChordIsReady
<1>7. b.hot = app.hot
  BY <1>4 DEF AppOk, AppRecord
<1>8. [app EXCEPT !.held = {}, !.keys = Desired(app.keys, {}), !.hot = hot] = a
  <2>1. KeysOf({}) = {}
    BY DEF KeysOf
  <2> HIDE DEF hot
  <2> QED
    BY <2>1
<1>9. hot = [s \in Bridged |-> [b.hot[s] EXCEPT !.desired = NoHot]]
  BY <1>7
<1> HIDE DEF b
<1>10. ReadyToFlush(x, a)
  BY <1>6, <1>9, HotsLetGo
<1> QED
  BY <1>1, <1>2, <1>3, <1>8, <1>10, FlushStep DEF EnvStays, x

LEMMA BridgeStep ==
  ASSUME KeyboardOk, Carries, app.pc = "idle", NEW s \in Bridged,
         NEW hotkey \in Hotkeys \cup {NoHot}, Bridge(s, hotkey), EnvOk',
         hotkey # NoHot =>
           /\ Fresh(World', hotkey) /\ app.hot[s].desired = NoHot
           /\ app.hot[s].accepted \notin {NoHot, hotkey} => hotkey \in env'.behind,
         UNCHANGED <<usb, adapter, hosts>>
  PROVE  KeyboardOk'
<1> DEFINE x == World'
           b == Refreshed(ble)
           c == [Reconciled(app, b) EXCEPT !.hot[s].desired = hotkey, !.pc = s]
<1>1. /\ AppOk(x, app) /\ UsbOk(x, usb) /\ BleOk(x, ble) /\ Present(x)
      /\ hotkey # NoHot => /\ Fresh(x, hotkey) /\ app.hot[s].desired = NoHot
                           /\ app.hot[s].accepted \notin {NoHot, hotkey} => hotkey \in x.behind
  BY DEF Carries
<1> HIDE DEF x
<1>2. AppOk(x, c) /\ c.pc # "sendBle"
  BY <1>1, BridgedOk
<1>3. BleOk(x, b)
  BY <1>1, RefreshedOk DEF Serves
<1>4. app' = c /\ ble' = b
  BY DEF Bridge
<1> HIDE DEF b, c
<1>5. AppOk(x, app') /\ BleOk(x, ble') /\ app'.pc # "sendBle" /\ Usable(x, usb, usb')
  BY <1>1, <1>2, <1>3, <1>4, AsItWas
<1>6. AdapterOk(adapter')
  BY DEF KeyboardOk
<1> QED
  BY <1>5, <1>6, MainStepOk DEF Carries, x

LEMMA HotkeyUpOk ==
  ASSUME KeyboardOk, NEW s \in Bridged, HotkeyUp(s)
  PROVE  KeyboardOk'
<1>1. app.pc = "idle" /\ Bridge(s, NoHot) /\ UNCHANGED <<usb, adapter, hosts, env>>
  BY DEF HotkeyUp
<1>2. EnvStays
  BY <1>1, EnvUnchanged DEF KeyboardOk
<1>3. Carries
  BY <1>1, <1>2, CarriedAlone DEF EnvStays
<1> QED
  BY <1>1, <1>2, <1>3, BridgeStep DEF EnvStays

LEMMA HotkeyDownOk ==
  ASSUME KeyboardOk, NEW s \in Bridged, NEW h \in env.left.hotkeys, HotkeyDown(s, h)
  PROVE  KeyboardOk'
<1> DEFINE born == Born({h})
           behind == IF app.hot[s].accepted \in {NoHot, h} THEN env.behind
                     ELSE env.behind \cup {h}
           shared == IF HadElsewhere(s, h) THEN env.shared \cup {h} ELSE env.shared
<1>1. EnvOk /\ env = [left |-> env.left, born |-> env.born, behind |-> env.behind, shared |-> env.shared,
           late |-> env.late]
  BY DEF KeyboardOk, EnvOk
<1>2. /\ app.pc = "idle" /\ Left("presses") /\ app.hot[s].desired = NoHot /\ Bridge(s, h)
      /\ UNCHANGED <<usb, adapter, hosts>>
      /\ env' = [env EXCEPT !.left.presses = @ - 1, !.born = born, !.behind = behind,
                            !.shared = shared]
  BY DEF HotkeyDown
<1>3. h \in Hotkeys /\ {h} \in SUBSET Inputs
  BY <1>1 DEF EnvOk, Bounds, Inputs
<1>4. DOMAIN born = Inputs
  BY <1>1 DEF Born, EnvOk
<1>a. env.behind \subseteq behind /\ (app.hot[s].accepted \notin {NoHot, h} => h \in behind)
  OBVIOUS
<1> HIDE DEF born, behind, shared
<1>5. Pressing("presses", born, behind, shared)
  BY <1>1, <1>2 DEF Pressing
<1>6. EnvOk' /\ env'.born = born /\ env'.behind = behind
  BY <1>1, <1>2, <1>4, <1>5, PressedEnv DEF Budget
<1>7. /\ \A i \in Inputs : env'.born[i] = env.born[i] \/ Alive \subseteq env'.born[i]
      /\ Alive \subseteq env'.born[h]
  <2>1. env'.born = Born({h})
    BY <1>6 DEF born
  <2> QED
    BY <1>3, <2>1, BornIsFresh
<1>8. Carries
  BY <1>2, <1>6, <1>7, <1>a, Carried DEF Steady
<1>9. Fresh(World', h)
  BY <1>7, <1>8 DEF Carries, Fresh
<1> QED
  BY <1>2, <1>3, <1>6, <1>8, <1>9, <1>a, BridgeStep

\* A step of the main task that offers a report.
LEMMA OfferStep ==
  ASSUME KeyboardOk, UNCHANGED <<adapter, hosts, env>>, usb'.epoch = usb.epoch, Kept(World')
  PROVE  KeyboardOk'
<1>1. EnvStays
  BY EnvUnchanged DEF KeyboardOk
<1>2. Carries
  BY <1>1, CarriedAlone DEF EnvStays
<1>3. AdapterOk(adapter')
  BY DEF KeyboardOk
<1> QED
  BY <1>1, <1>2, <1>3, MainStepOk DEF Carries, Kept, Serves, EnvStays

LEMMA SendStep ==
  ASSUME KeyboardOk, SendKeys
  PROVE  KeyboardOk'
<1>1. UNCHANGED <<adapter, hosts, env>>
  BY DEF SendKeys
<1> DEFINE w == World
           x == World'
<1>2. UsbOk(w, usb) /\ BleOk(w, ble) /\ AppOk(w, app)
  BY DEF KeyboardOk
<1> HIDE DEF w
<1>3. usb'.epoch = usb.epoch
  BY <1>2, SendKeysOk DEF Kept, Usable, SamePort
<1>4. Carries
  BY <1>1, <1>3, CarriedAlone
<1>5. UsbOk(x, usb) /\ BleOk(x, ble) /\ AppOk(x, app)
  BY <1>4 DEF Carries
<1> HIDE DEF x
<1>6. Kept(x)
  BY <1>5, SendKeysOk
<1> QED
  BY <1>1, <1>3, <1>6, OfferStep DEF x

LEMMA FlushHotStep ==
  ASSUME KeyboardOk, NEW s \in Bridged, FlushHot(s)
  PROVE  KeyboardOk'
<1>1. UNCHANGED <<adapter, hosts, env>>
  BY DEF FlushHot
<1> DEFINE w == World
           x == World'
<1>2. UsbOk(w, usb) /\ BleOk(w, ble) /\ AppOk(w, app)
  BY DEF KeyboardOk
<1> HIDE DEF w
<1>3. usb'.epoch = usb.epoch
  BY <1>2, FlushHotOk DEF Kept, Usable, SamePort
<1>4. Carries
  BY <1>1, <1>3, CarriedAlone
<1>5. UsbOk(x, usb) /\ BleOk(x, ble) /\ AppOk(x, app)
  BY <1>4 DEF Carries
<1> HIDE DEF x
<1>6. Kept(x)
  BY <1>5, FlushHotOk
<1> QED
  BY <1>1, <1>3, <1>6, OfferStep DEF x

\* A step of a poll: only the position of the main task and the transports change.
LEMMA PollStep ==
  ASSUME KeyboardOk, Carries, Usable(World', usb, usb'), BleOk(World', ble'),
         app.pc \in {"idle", "pollUsb", "sendUsb", "pollBle", "sendBle"},
         NEW pc, app' = [app EXCEPT !.pc = pc], pc = "sendBle" => ble'.queue # <<>>,
         EnvOk', adapter'.gen = adapter.gen, adapter'.owner = adapter.owner, AdapterOk(adapter'),
         UNCHANGED hosts
  PROVE  KeyboardOk'
<1> DEFINE x == World'
           a == [app EXCEPT !.pc = pc]
<1>1. AppOk(x, app) /\ app' = a
  BY DEF Carries
<1> HIDE DEF x
<1>2. AppOk(x, a) /\ a.pc = pc
  BY <1>1, GoesOn
<1> HIDE DEF a
<1>3. AppOk(x, app') /\ app'.pc = pc
  BY <1>1, <1>2
<1> QED
  BY <1>3, MainStepOk DEF Carries, x

LEMMA TextsAreUsable ==
  ASSUME NEW w, UsbOk(w, usb), w.usb = usb.epoch, UsbEpoch(usb) # NoEpoch, Fresh(w, Typed),
         NEW v \in TextsOnUsb(UsbReady(usb))
  PROVE  Usable(w, usb, v)
<1> DEFINE u == UsbReady(usb)
<1>1. Usable(w, usb, u) /\ u.reset = FALSE
  BY UsbReadyOk
<1> HIDE DEF u
<1>2. UsbOk(w, u) /\ UsbEpoch(u) # NoEpoch /\ u.epoch = usb.epoch /\ SamePort(usb, u)
      /\ UsbEpoch(u) = UsbEpoch(usb)
  BY <1>1 DEF Usable, SamePort
<1>3. Rightful(w, Usb(u.epoch), Typed)
  BY <1>2 DEF Rightful, Past, Usb, Fresh, UsbOk
<1>4. Usable(w, u, TypeOnUsb(u)) /\ Usable(w, u, ChunksOnUsb(u))
  BY <1>1, <1>2, <1>3, TypedOnUsb, ChunksFollowOnUsb
<1>5. v = TypeOnUsb(u) \/ v = ChunksOnUsb(u)
  BY DEF TextsOnUsb, u
<1> QED
  BY <1>2, <1>4, <1>5 DEF Usable, SamePort

LEMMA OwnerHasEpoch ==
  ASSUME AdapterOk(adapter), AdapterOwner # NoOwner
  PROVE  AdapterOwner.gen = adapter.gen /\ adapter.gen \in Nat /\ adapter.gen # NoEpoch
         /\ adapter.owner # 0 /\ AdapterOwner.handle = adapter.owner
BY DEF AdapterOk, AdapterOwner, NoEpoch

LEMMA TextIsServed ==
  ASSUME NEW w, BleOk(w, ble), w.ble = adapter.gen, Fresh(w, Typed), AdapterOk(adapter)
  PROVE  BleOk(w, TextOnBle(ble))
<1> DEFINE b == BleReady(ble)
           gen == Identity(b).gen
<1>1. Serves(w, ble, b)
  BY BleReadyOk
<1> HIDE DEF b
<1>2. Identity(b) = Identity(ble)
  BY <1>1, SameIdentity DEF Serves
<1>3. CASE Identity(ble) = NoOwner
  <2>1. TextOnBle(ble) = b
    BY <1>3 DEF TextOnBle, b
  <2> QED
    BY <1>1, <2>1 DEF Serves
<1>4. CASE Identity(ble) # NoOwner
  <2>1. Identity(ble) = AdapterOwner
    BY <1>4 DEF Identity
  <2>2. gen = adapter.gen /\ gen \in Nat /\ gen # NoEpoch
    BY <1>2, <1>4, <2>1, OwnerHasEpoch
  <2> HIDE DEF gen
  <2>3. Ble(gen) \in Lifetimes /\ Rightful(w, Ble(gen), Typed)
    BY <2>2 DEF Lifetimes, Transports, Ble, Rightful, Past, Fresh
  <2>4. Serves(w, b, StreamOnBle(b))
    BY <1>1, <2>2, <2>3, StreamedOnBle DEF Serves, gen
  <2>5. TextOnBle(ble) = StreamOnBle(b)
    BY <1>4 DEF TextOnBle, b
  <2> QED
    BY <2>4, <2>5 DEF Serves
<1> QED
  BY <1>3, <1>4

LEMMA FixedTextOk ==
  ASSUME KeyboardOk, FixedText
  PROVE  KeyboardOk'
<1> DEFINE born == Born({Typed})
           x == World'
<1>1. EnvOk /\ env = [left |-> env.left, born |-> env.born, behind |-> env.behind, shared |-> env.shared,
           late |-> env.late]
      /\ AdapterOk(adapter)
  BY DEF KeyboardOk, EnvOk
<1>2. /\ app.pc = "idle" /\ Left("texts") /\ UNCHANGED <<adapter, hosts>>
      /\ env' = [env EXCEPT !.left.texts = @ - 1, !.born = born]
  BY DEF FixedText
<1>3. {Typed} \in SUBSET Inputs
  BY DEF Inputs
<1>4. DOMAIN born = Inputs
  BY <1>1 DEF Born, EnvOk
<1> HIDE DEF born
<1>5. Pressing("texts", born, env.behind, env.shared)
  BY <1>1, <1>2 DEF Pressing
<1>6. EnvOk' /\ env'.born = born /\ env'.behind = env.behind
  BY <1>1, <1>2, <1>4, <1>5, PressedEnv DEF Budget
<1>7. /\ \A i \in Inputs : env'.born[i] = env.born[i] \/ Alive \subseteq env'.born[i]
      /\ Alive \subseteq env'.born[Typed]
  <2>1. env'.born = Born({Typed})
    BY <1>6 DEF born
  <2> QED
    BY <1>3, <2>1, BornIsFresh
<1>8. usb'.epoch = usb.epoch
  <2>1. CASE UNCHANGED usb
    BY <2>1
  <2>2. CASE usb' \in TextsOnUsb(UsbReady(usb))
    <3>1. UsbOk(World, usb)
      BY DEF KeyboardOk
    <3> DEFINE u == UsbReady(usb)
    <3>2. u.epoch = usb.epoch /\ UsbRecord(u)
      <4> DEFINE w == World
      <4>1. UsbOk(w, usb)
        BY <3>1
      <4> HIDE DEF w
      <4> QED
        BY <4>1, UsbReadyOk DEF Usable, SamePort, UsbOk
    <3> HIDE DEF u
    <3>3. usb' \in {TypeOnUsb(u), ChunksOnUsb(u)}
      BY <2>2 DEF TextsOnUsb, u
    <3>4. TypeOnUsb(u).epoch = u.epoch /\ ChunksOnUsb(u).epoch = u.epoch
      BY <3>2 DEF TypeOnUsb, ChunksOnUsb, UsbRecord
    <3> QED
      BY <3>2, <3>3, <3>4
  <2> QED
    BY <2>1, <2>2 DEF FixedText
<1>9. Carries
  BY <1>2, <1>6, <1>7, <1>8, Carried DEF Steady
<1>10. /\ Fresh(x, Typed) /\ UsbOk(x, usb) /\ BleOk(x, ble) /\ x.usb = usb.epoch
       /\ x.ble = adapter.gen
  BY <1>7, <1>9 DEF Carries, Fresh, Present
<1> HIDE DEF x
<1>11. CASE UsbEpoch(usb) # NoEpoch
  <2>1. /\ usb' \in TextsOnUsb(UsbReady(usb)) /\ app' = [app EXCEPT !.pc = "pollUsb"]
        /\ UNCHANGED ble
    BY <1>11 DEF FixedText
  <2>2. Usable(x, usb, usb') /\ BleOk(x, ble')
    BY <1>10, <1>11, <2>1, TextsAreUsable
  <2> QED
    BY <1>1, <1>2, <1>6, <1>9, <2>1, <2>2, PollStep DEF x
<1>12. CASE UsbEpoch(usb) = NoEpoch
  <2>1. ble' = TextOnBle(ble) /\ app' = [app EXCEPT !.pc = "pollBle"] /\ UNCHANGED usb
    BY <1>12 DEF FixedText
  <2>2. BleOk(x, TextOnBle(ble)) /\ Usable(x, usb, usb)
    BY <1>1, <1>10, TextIsServed, AsItWas
  <2>3. BleOk(x, ble') /\ Usable(x, usb, usb')
    BY <2>1, <2>2
  <2> QED
    BY <1>1, <1>2, <1>6, <1>9, <2>1, <2>3, PollStep DEF x
<1> QED
  BY <1>11, <1>12

LEMMA PolledUsb ==
  ASSUME NEW w, UsbOk(w, usb), PollUsb
  PROVE  Usable(w, usb, usb')
<1> DEFINE u == UsbReady(usb)
<1>1. Usable(w, usb, u) /\ u.reset = FALSE
  BY UsbReadyOk
<1>2. usb' = IF UsbEpoch(u) = NoEpoch THEN UsbCleared(u) ELSE UsbPumped(u)
  BY DEF PollUsb
<1> HIDE DEF u
<1>3. Usable(w, u, UsbCleared(u)) /\ Usable(w, u, UsbPumped(u))
  BY <1>1, UsbClearedOk, UsbPumpedOk DEF Usable
<1> QED
  BY <1>1, <1>2, <1>3 DEF Usable, SamePort

\* The usual part of a poll of USB.
LEMMA UsbPollStep ==
  ASSUME KeyboardOk, UNCHANGED <<ble, adapter, hosts, env>>, usb'.epoch = usb.epoch,
         Usable(World', usb, usb'), app.pc \in {"idle", "pollUsb", "sendUsb"},
         NEW pc, app' = [app EXCEPT !.pc = pc], pc # "sendBle"
  PROVE  KeyboardOk'
<1>1. EnvStays
  BY EnvUnchanged DEF KeyboardOk
<1>2. Carries
  BY <1>1, CarriedAlone DEF EnvStays
<1>3. AdapterOk(adapter') /\ BleOk(World', ble')
  BY <1>2 DEF KeyboardOk, Carries
<1> QED
  BY <1>1, <1>2, <1>3, PollStep DEF EnvStays

LEMMA PollUsbOk ==
  ASSUME KeyboardOk, PollUsb
  PROVE  KeyboardOk'
<1> DEFINE w == World
           x == World'
           pc == IF usb'.keys = <<>> /\ usb'.cmds = <<>> THEN "idle" ELSE "sendUsb"
<1>1. /\ UNCHANGED <<ble, adapter, hosts, env>> /\ app.pc \in {"idle", "pollUsb"}
      /\ app' = [app EXCEPT !.pc = pc]
  BY DEF PollUsb
<1>2. UsbOk(w, usb)
  BY DEF KeyboardOk
<1> HIDE DEF w
<1>3. usb'.epoch = usb.epoch
  BY <1>2, PolledUsb DEF Usable, SamePort
<1>4. EnvStays
  BY <1>1, EnvUnchanged DEF KeyboardOk
<1>5. UsbOk(x, usb)
  BY <1>1, <1>3, <1>4, CarriedAlone DEF EnvStays, Carries
<1> HIDE DEF x
<1>6. Usable(x, usb, usb')
  BY <1>5, PolledUsb
<1>7. pc \in {"idle", "sendUsb"}
  OBVIOUS
<1> HIDE DEF pc
<1> QED
  BY <1>1, <1>3, <1>6, <1>7, UsbPollStep DEF x

\* The report at the head, and what is left when it is gone.
LEMMA UsbPoppedMeans ==
  ASSUME NEW w, UsbOk(w, usb), UsbHasReport, NEW turn
  PROVE  /\ Usable(w, usb, UsbPopped) /\ Usable(w, usb, [UsbPopped EXCEPT !.turn = turn])
         /\ ReportOk(w, UsbHead)
<1>1. CASE UsbKind = "Keys"
  <2>1. usb.keys # <<>>
    BY <1>1 DEF UsbKind, UsbHasReport
  <2> DEFINE v == [usb EXCEPT !.keys = Tail(@)]
  <2>2. UsbPopped = v /\ UsbHead = Head(usb.keys)
    BY <1>1 DEF UsbPopped, UsbHead
  <2>3. Usable(w, usb, v) /\ Usable(w, usb, [v EXCEPT !.turn = turn]) /\ ReportOk(w, Head(usb.keys))
    BY <2>1, UsbPoppedOk
  <2> HIDE DEF v
  <2> QED
    BY <2>2, <2>3
<1>2. CASE UsbKind # "Keys"
  <2>1. usb.cmds # <<>>
    BY <1>2 DEF UsbKind, UsbHasReport
  <2> DEFINE v == [usb EXCEPT !.cmds = Tail(@)]
  <2>2. UsbPopped = v /\ UsbHead = Head(usb.cmds)
    BY <1>2 DEF UsbPopped, UsbHead
  <2>3. Usable(w, usb, v) /\ Usable(w, usb, [v EXCEPT !.turn = turn]) /\ ReportOk(w, Head(usb.cmds))
    BY <2>1, UsbPoppedOk
  <2> HIDE DEF v
  <2> QED
    BY <2>2, <2>3
<1> QED
  BY <1>1, <1>2

\* What a host makes of a report of its own lifetime.
LEMMA TakenOk ==
  ASSUME NEW w, NEW v, NEW l, HostOk(w, v, l), v.live, NEW r, ReportOk(w, r), r.own = l
  PROVE  HostOk(w, Taken(v, r), l) /\ Taken(v, r).live = v.live
<1> DEFINE x == Taken(v, r)
<1>1. ViewRecord(v) /\ l \in w.alive /\ v.keys \subseteq Inputs /\ v.hot \subseteq Inputs
  BY DEF HostOk
<1>2. r \in Entries /\ Typed \in Inputs /\ Hotkeys \subseteq Inputs
  BY DEF ReportOk, Inputs
<1>3. \A i : Rightful(w, l, i) => l \in w.born[i]
  BY <1>1 DEF Rightful
<1>4. CASE IsSnapshot(r)
  <2>1. x = [v EXCEPT !.keys = r.keys]
    BY <1>4 DEF Taken, IsSnapshot
  <2> HIDE DEF x
  <2>a. ViewRecord(x)
    BY <1>1, <2>1 DEF ViewRecord
  <2>2. x.live = v.live /\ x.keys = r.keys /\ x.hot = v.hot /\ x.text = v.text
    BY <1>1, <2>1 DEF ViewRecord
  <2>3. r.keys \subseteq Inputs /\ \A i \in r.keys : l \in w.born[i]
    BY <1>2, <1>3, <1>4 DEF ReportOk, Entries
  <2> QED
    BY <2>a, <2>2, <2>3 DEF HostOk, x
<1>5. CASE r.class = "CommandPress"
  <2> DEFINE hot == v.hot \cup {r.hot}
  <2>1. x = [v EXCEPT !.hot = hot]
    BY <1>5 DEF Taken, IsSnapshot
  <2>a. r.hot \in Inputs /\ (r.hot \in w.behind \/ l \in w.born[r.hot])
    BY <1>2, <1>3, <1>5 DEF ReportOk, Excused
  <2>3. hot \subseteq Inputs /\ \A i \in hot \ w.behind : l \in w.born[i]
    BY <1>1, <2>a DEF HostOk
  <2> HIDE DEF x, hot
  <2>b. ViewRecord(x)
    BY <1>1, <2>1 DEF ViewRecord
  <2>2. x.live = v.live /\ x.keys = v.keys /\ x.hot = hot /\ x.text = v.text
    BY <1>1, <2>1 DEF ViewRecord
  <2> QED
    BY <2>b, <2>2, <2>3 DEF HostOk, x
<1>6. CASE r.class = "CommandRelease"
  <2> DEFINE hot == v.hot \ {r.hot}
  <2>1. x = [v EXCEPT !.hot = hot]
    BY <1>6 DEF Taken, IsSnapshot
  <2>3. hot \subseteq v.hot
    OBVIOUS
  <2> HIDE DEF x, hot
  <2>b. ViewRecord(x)
    BY <1>1, <2>1 DEF ViewRecord
  <2>2. x.live = v.live /\ x.keys = v.keys /\ x.hot = hot /\ x.text = v.text
    BY <1>1, <2>1 DEF ViewRecord
  <2> QED
    BY <2>b, <2>2, <2>3 DEF HostOk, x
<1>7. CASE r.class = "Command"
  <2>1. x = [v EXCEPT !.text = r.chunk]
    BY <1>7 DEF Taken, IsSnapshot
  <2> HIDE DEF x
  <2>b. ViewRecord(x)
    BY <1>1, <2>1 DEF ViewRecord
  <2>2. x.live = v.live /\ x.keys = v.keys /\ x.hot = v.hot
    BY <1>1, <2>1 DEF ViewRecord
  <2>3. l \in w.born[Typed]
    BY <1>3, <1>7 DEF ReportOk
  <2> QED
    BY <2>b, <2>2, <2>3 DEF HostOk, x
<1> QED
  BY <1>2, <1>4, <1>5, <1>6, <1>7 DEF Entries, IsSnapshot

LEMMA SeesMeans ==
  ASSUME KeyboardOk, NEW t \in Transports, NEW r, ReportOk(World, r),
         hosts[t].live => r.own = Life(t), Sees(t, r)
  PROVE  /\ hosts' = [Usb |-> hosts'.Usb, Ble |-> hosts'.Ble]
         /\ hosts'.Usb.live = hosts.Usb.live /\ hosts'.Ble.live = hosts.Ble.live
         /\ HostOk(World, hosts'.Usb, Life("Usb")) /\ HostOk(World, hosts'.Ble, Life("Ble"))
<1> DEFINE w == World
           l == Life(t)
           v == hosts[t]
           z == Taken(v, r)
<1>1. /\ hosts = [Usb |-> hosts.Usb, Ble |-> hosts.Ble]
      /\ HostOk(World, hosts.Usb, Life("Usb")) /\ HostOk(World, hosts.Ble, Life("Ble"))
      /\ HostOk(w, v, l)
  BY DEF KeyboardOk, LinksOk, HostsOk, Transports
<1>2. CASE ~hosts[t].live
  <2>1. hosts' = hosts
    BY <1>2 DEF Sees
  <2> QED
    BY <1>1, <2>1
<1>3. CASE hosts[t].live
  <2>1. hosts' = [hosts EXCEPT ![t] = z] /\ v.live /\ ReportOk(w, r) /\ r.own = l
    BY <1>3 DEF Sees
  <2> HIDE DEF w, l, v
  <2>2. HostOk(w, z, l) /\ z.live = v.live
    BY <1>1, <2>1, TakenOk
  <2> HIDE DEF z
  <2>3. CASE t = "Usb"
    <3>1. hosts' = [Usb |-> z, Ble |-> hosts.Ble]
      BY <1>1, <2>1, <2>3
    <3>2. hosts'.Usb = z /\ hosts'.Ble = hosts.Ble
      BY <3>1
    <3> QED
      BY <1>1, <2>2, <2>3, <3>1, <3>2 DEF w, l, v
  <2>4. CASE t = "Ble"
    <3>1. hosts' = [Usb |-> hosts.Usb, Ble |-> z]
      BY <1>1, <2>1, <2>4
    <3>2. hosts'.Ble = z /\ hosts'.Usb = hosts.Usb
      BY <3>1
    <3> QED
      BY <1>1, <2>2, <2>4, <3>1, <3>2 DEF w, l, v
  <2> QED
    BY <2>3, <2>4 DEF Transports
<1> QED
  BY <1>2, <1>3

\* A report that is transmitted.
LEMMA SeesStep ==
  ASSUME KeyboardOk, UNCHANGED <<adapter, env>>, usb'.epoch = usb.epoch,
         NEW t \in Transports, NEW r, ReportOk(World, r), hosts[t].live => r.own = Life(t),
         Sees(t, r), Usable(World, usb, usb'), BleOk(World, ble'),
         app.pc \in {"sendUsb", "sendBle"}, app' = [app EXCEPT !.pc = "idle"]
  PROVE  KeyboardOk'
<1>1. /\ hosts' = [Usb |-> hosts'.Usb, Ble |-> hosts'.Ble]
      /\ hosts'.Usb.live = hosts.Usb.live /\ hosts'.Ble.live = hosts.Ble.live
      /\ HostOk(World, hosts'.Usb, Life("Usb")) /\ HostOk(World, hosts'.Ble, Life("Ble"))
  BY SeesMeans
<1>2. Alive' = Alive /\ Life("Usb")' = Life("Usb") /\ Life("Ble")' = Life("Ble")
  BY <1>1 DEF Alive, Life
<1>3. World' = World
  BY <1>2 DEF World
<1>4. HostsOk(World)'
  BY <1>1, <1>2, <1>3 DEF HostsOk
<1>5. EnvOk' /\ AdapterOk(adapter')
  BY DEF KeyboardOk, EnvOk
<1>6. AppOk(World, app') /\ app'.pc = "idle"
  <2> DEFINE w == World
             a == [app EXCEPT !.pc = "idle"]
  <2>1. AppOk(w, app) /\ app' = a
    BY DEF KeyboardOk
  <2> HIDE DEF w
  <2>2. AppOk(w, a) /\ a.pc = "idle"
    BY <2>1, GoesOn
  <2> HIDE DEF a
  <2> QED
    BY <2>1, <2>2 DEF w
<1>7. LinksOk'
  BY <1>1, <1>6 DEF KeyboardOk, LinksOk, Usable, SamePort
<1> QED
  BY <1>3, <1>4, <1>5, <1>6, <1>7 DEF KeyboardOk, Usable

\* A report of a lifetime that is over, or nothing to do.
LEMMA UsbDropsOk ==
  ASSUME KeyboardOk, UsbDrops
  PROVE  KeyboardOk'
<1> DEFINE w == World
           x == World'
<1>1. /\ app.pc = "sendUsb" /\ UsbHasReport /\ usb' = UsbPopped
      /\ UNCHANGED <<app, ble, adapter, hosts, env>>
  BY DEF UsbDrops
<1>2. UsbOk(w, usb) /\ app = [app EXCEPT !.pc = "sendUsb"]
  BY <1>1 DEF KeyboardOk, AppOk, AppRecord
<1> HIDE DEF w
<1>3. usb'.epoch = usb.epoch
  BY <1>1, <1>2, UsbPoppedMeans DEF Usable, SamePort
<1>4. EnvStays
  BY <1>1, EnvUnchanged DEF KeyboardOk
<1>5. UsbOk(x, usb)
  BY <1>1, <1>3, <1>4, CarriedAlone DEF EnvStays, Carries
<1> HIDE DEF x
<1>6. Usable(x, usb, usb')
  BY <1>1, <1>5, UsbPoppedMeans
<1> QED
  BY <1>1, <1>2, <1>3, <1>6, UsbPollStep DEF x

LEMMA UsbWaitsOk ==
  ASSUME KeyboardOk, UsbWaits
  PROVE  KeyboardOk'
<1>1. /\ app.pc = "sendUsb" /\ app' = [app EXCEPT !.pc = "idle"]
      /\ UNCHANGED <<usb, ble, adapter, hosts, env>>
  BY DEF UsbWaits
<1>2. EnvStays
  BY <1>1, EnvUnchanged DEF KeyboardOk
<1>3. Usable(World', usb, usb')
  BY <1>1, <1>2, CarriedAlone, AsItWas DEF EnvStays, Carries
<1> QED
  BY <1>1, <1>3, UsbPollStep

LEMMA UsbAcceptsOk ==
  ASSUME KeyboardOk, UsbAccepts
  PROVE  KeyboardOk'
<1> DEFINE w == World
           turn == IF UsbKind = "Keys" THEN "Cmds" ELSE "Keys"
           r == UsbHead
           v == [UsbPopped EXCEPT !.turn = turn]
<1>1. /\ app.pc = "sendUsb" /\ UsbHasReport /\ UsbHeadIsCurrent /\ usb' = v
      /\ UNCHANGED <<ble, adapter, env>> /\ app' = [app EXCEPT !.pc = "idle"]
      /\ Sees("Usb", r)
  BY DEF UsbAccepts
<1>2. UsbOk(w, usb) /\ BleOk(w, ble)
  BY DEF KeyboardOk
<1> HIDE DEF w, turn
<1>3. Usable(w, usb, v) /\ ReportOk(w, r)
  BY <1>1, <1>2, UsbPoppedMeans
<1>4. r.own = Life("Usb")
  <2>1. r.own = Usb(UsbEpoch(usb)) /\ r.own[2] # NoEpoch
    BY <1>1, <1>3 DEF UsbHeadIsCurrent, ReportOk
  <2>2. UsbEpoch(usb) # NoEpoch
    BY <2>1 DEF Usb
  <2> QED
    BY <2>1, <2>2, EpochIsCurrent DEF Life
<1> HIDE DEF v, r
<1>5. Usable(w, usb, usb') /\ usb'.epoch = usb.epoch /\ BleOk(w, ble')
  BY <1>1, <1>2, <1>3 DEF Usable, SamePort
<1> QED
  BY <1>1, <1>3, <1>4, <1>5, SeesStep DEF w, Transports

-----------------------------------------------------------------------------

\* The usual part of a poll of BLE.
LEMMA BlePollStep ==
  ASSUME KeyboardOk, UNCHANGED <<usb, hosts>>, EnvStays, Carries, BleOk(World', ble'),
         app.pc \in {"idle", "pollBle", "sendBle"}, NEW pc, app' = [app EXCEPT !.pc = pc],
         pc = "sendBle" => ble'.queue # <<>>,
         adapter'.gen = adapter.gen, adapter'.owner = adapter.owner, AdapterOk(adapter')
  PROVE  KeyboardOk'
<1>1. Usable(World', usb, usb')
  BY AsItWas DEF Carries
<1> QED
  BY <1>1, PollStep DEF EnvStays

LEMMA BleCarries ==
  ASSUME KeyboardOk, UNCHANGED <<usb, hosts>>, adapter'.gen = adapter.gen, EnvStays
  PROVE  Carries
BY Carried DEF Steady, EnvStays

LEMMA PollBleOk ==
  ASSUME KeyboardOk, PollBle
  PROVE  KeyboardOk'
<1> DEFINE x == World'
           c == BleFlushed(Refreshed(ble))
           pc == IF ble'.queue = <<>> THEN "idle" ELSE "sendBle"
<1>1. /\ UNCHANGED <<usb, adapter, hosts, env>> /\ app.pc \in {"idle", "pollBle"}
      /\ app' = [app EXCEPT !.pc = pc]
      /\ ble' = IF Identity(c) = NoOwner THEN BleCleared(c) ELSE BlePumped(c)
  BY DEF PollBle
<1>2. EnvStays /\ Carries
  BY <1>1, EnvUnchanged, BleCarries DEF KeyboardOk
<1>3. BleOk(x, ble)
  BY <1>2 DEF Carries
<1> HIDE DEF x
<1>4. BleOk(x, c)
  BY <1>3, BleReadyOk DEF Serves
<1> HIDE DEF c
<1>5. BleOk(x, ble')
  BY <1>1, <1>4, BleClearedOk, BlePumpedOk DEF Serves
<1>6. (pc = "sendBle" => ble'.queue # <<>>) /\ AdapterOk(adapter')
  BY <1>1 DEF KeyboardOk
<1> HIDE DEF pc
<1> QED
  BY <1>1, <1>2, <1>5, <1>6, BlePollStep DEF x

LEMMA BleHeadOk ==
  ASSUME NEW w, BleOk(w, ble), ble.queue # <<>>
  PROVE  ReportOk(w, BleHead) /\ BleOk(w, BlePopped)
<1> DEFINE q == Tail(ble.queue)
           b == [ble EXCEPT !.queue = q]
<1>1. Told(w, q) /\ ReportOk(w, BleHead)
  BY PoppedIsTold DEF BleOk, BleHead
<1> HIDE DEF q
<1>2. BleOk(w, b)
  BY <1>1, BleQueueOk DEF Serves
<1> HIDE DEF b
<1>3. BleOk(w, BlePumped(b))
  BY <1>2, BlePumpedOk DEF Serves
<1> QED
  BY <1>1, <1>3 DEF BlePopped, b, q

LEMMA BleAcceptsOk ==
  ASSUME KeyboardOk, BleAccepts
  PROVE  KeyboardOk'
<1> DEFINE w == World
           r == BleHead
<1>1. /\ app.pc = "sendBle" /\ BleConnected /\ ble' = BlePopped /\ Sees("Ble", r)
      /\ UNCHANGED <<usb, adapter, env>> /\ app' = [app EXCEPT !.pc = "idle"]
  BY DEF BleAccepts, BleSending
<1>2. UsbOk(w, usb) /\ BleOk(w, ble) /\ ble.queue # <<>>
  BY <1>1 DEF KeyboardOk, LinksOk
<1> HIDE DEF w
<1>3. ReportOk(w, r) /\ BleOk(w, ble')
  BY <1>1, <1>2, BleHeadOk
<1>4. hosts["Ble"].live => r.own = Life("Ble")
  <2>1. r.own = Ble(AdapterOwner.gen) /\ (hosts.Ble.live = (adapter.owner # 0))
    BY <1>1 DEF BleConnected, KeyboardOk, LinksOk
  <2> QED
    BY <2>1 DEF AdapterOwner, Life
<1> HIDE DEF r
<1>5. Usable(w, usb, usb') /\ usb'.epoch = usb.epoch
  BY <1>1, <1>2, AsItWas
<1> QED
  BY <1>1, <1>3, <1>4, <1>5, SeesStep DEF w, Transports

LEMMA BleEndsOk ==
  ASSUME KeyboardOk, BleDisconnected \/ BleUnsupported \/ BleWaits
  PROVE  KeyboardOk'
<1> DEFINE x == World'
<1>1. /\ app.pc = "sendBle" /\ app' = [app EXCEPT !.pc = "idle"]
      /\ ble' = BleCleared(ble) \/ ble' = BlePopped \/ UNCHANGED ble
      /\ UNCHANGED <<usb, adapter, hosts>>
  BY DEF BleDisconnected, BleUnsupported, BleWaits, BleSending
<1>2. EnvStays
  BY EnvUnchanged, LosingOk DEF BleDisconnected, BleUnsupported, BleWaits, KeyboardOk
<1>a. Carries
  BY <1>1, <1>2, BleCarries
<1>3. BleOk(x, ble) /\ ble.queue # <<>> /\ AdapterOk(adapter')
  BY <1>1, <1>a DEF Carries, KeyboardOk, LinksOk
<1> HIDE DEF x
<1>4. BleOk(x, BleCleared(ble)) /\ BleOk(x, BlePopped)
  BY <1>3, BleClearedOk, BleHeadOk DEF Serves
<1>5. BleOk(x, ble')
  BY <1>1, <1>3, <1>4
<1> QED
  BY <1>1, <1>2, <1>a, <1>3, <1>5, BlePollStep DEF x

\* The recovery's steps keep what waits.
LEMMA BleStateOk ==
  ASSUME NEW w, NEW b, BleOk(w, b), NEW c, BleRecord(c), c.queue = b.queue, c.text = b.text,
         Recovering(c) = (c.target # NoOwner)
  PROVE  BleOk(w, c)
BY DEF BleOk

LEMMA TargetMeans ==
  ASSUME KeyboardOk, Recovering(ble), TargetIsOwner
  PROVE  /\ AdapterOwner # NoOwner /\ ble.target.handle = adapter.owner
         /\ adapter.owner \in adapter.conns
<1>1. ble.target # NoOwner /\ ble.target = AdapterOwner
  BY DEF KeyboardOk, BleOk, TargetIsOwner
<1> QED
  BY <1>1, OwnerHasEpoch DEF KeyboardOk, AdapterOk

LEMMA BleFatalOk ==
  ASSUME KeyboardOk, BleFatal
  PROVE  KeyboardOk'
<1> DEFINE x == World'
           c == [ble EXCEPT !.phase = "Terminating", !.target = AdapterOwner]
<1>1. /\ app.pc = "sendBle" /\ BleConnected /\ app' = [app EXCEPT !.pc = "pollBle"]
      /\ ble' = c /\ UNCHANGED <<usb, adapter, hosts>>
  BY DEF BleFatal, BleSending
<1>2. EnvStays
  BY EnvUnchanged, SpendingOk DEF BleFatal, KeyboardOk, Budget
<1>3. Carries
  BY <1>1, <1>2, BleCarries
<1>4. BleOk(x, ble) /\ ble.queue # <<>> /\ AdapterOk(adapter')
  BY <1>1, <1>3 DEF Carries, KeyboardOk, LinksOk
<1> HIDE DEF x
<1>5. AdapterOwner # NoOwner
  <2>1. BleHead.own[2] # NoEpoch /\ BleHead.own = Ble(AdapterOwner.gen)
    BY <1>1, <1>4, BleHeadOk DEF ReportOk, BleConnected
  <2> QED
    BY <2>1 DEF Ble, NoOwner
<1>6. BleRecord(ble) /\ c = [ble EXCEPT !.phase = "Terminating", !.target = AdapterOwner]
  BY <1>4 DEF BleOk
<1> HIDE DEF c
<1>7. BleRecord(c)
  BY <1>6 DEF BleRecord
<1>8. c.queue = ble.queue /\ c.text = ble.text /\ c.phase = "Terminating" /\ c.target = AdapterOwner
  BY <1>6 DEF BleRecord
<1>9. BleOk(x, c)
  <2>1. Recovering(c) = (c.target # NoOwner)
    BY <1>5, <1>8 DEF Recovering
  <2> QED
    BY <1>4, <1>7, <1>8, <2>1, BleStateOk
<1>10. BleOk(x, ble')
  BY <1>1, <1>9
<1> QED
  BY <1>1, <1>2, <1>3, <1>4, <1>10, BlePollStep DEF x

LEMMA RecoveryCompletesOk ==
  ASSUME KeyboardOk, RecoveryCompletes
  PROVE  KeyboardOk'
<1> DEFINE x == World'
           c == [ble EXCEPT !.phase = "Idle", !.target = NoOwner, !.active = NoOwner, !.reset = TRUE]
<1>1. /\ app.pc \in {"idle", "pollBle"} /\ app' = [app EXCEPT !.pc = "pollBle"] /\ ble' = c
      /\ UNCHANGED <<usb, adapter, hosts, env>>
  BY DEF RecoveryCompletes, Servicing
<1>2. EnvStays /\ Carries
  BY <1>1, EnvUnchanged, BleCarries DEF KeyboardOk
<1>3. BleOk(x, ble) /\ AdapterOk(adapter')
  BY <1>1, <1>2 DEF Carries, KeyboardOk
<1> HIDE DEF x
<1>4. BleRecord(ble) /\ c = [ble EXCEPT !.phase = "Idle", !.target = NoOwner,
                                        !.active = NoOwner, !.reset = TRUE]
  BY <1>3 DEF BleOk
<1> HIDE DEF c
<1>5. BleRecord(c)
  BY <1>4 DEF BleRecord
<1>6. c.queue = ble.queue /\ c.text = ble.text /\ c.phase = "Idle" /\ c.target = NoOwner
  BY <1>4 DEF BleRecord
<1>7. BleOk(x, c)
  BY <1>3, <1>5, <1>6, BleStateOk DEF Recovering
<1>8. BleOk(x, ble')
  BY <1>1, <1>7
<1> QED
  BY <1>1, <1>2, <1>3, <1>8, BlePollStep DEF x

\* The recovery waits for another thing.
LEMMA PhaseStep ==
  ASSUME KeyboardOk, Servicing, TargetIsOwner, app' = [app EXCEPT !.pc = "idle"],
         NEW phase, phase # "Idle", ble' = [ble EXCEPT !.phase = phase] \/ UNCHANGED ble,
         adapter'.gen = adapter.gen, adapter'.owner = adapter.owner, AdapterOk(adapter')
  PROVE  KeyboardOk'
<1> DEFINE x == World'
           c == [ble EXCEPT !.phase = phase]
<1>1. /\ app.pc \in {"idle", "pollBle"} /\ Recovering(ble) /\ UNCHANGED <<usb, hosts, env>>
  BY DEF Servicing
<1>2. EnvStays /\ Carries
  BY <1>1, EnvUnchanged, BleCarries DEF KeyboardOk
<1>3. BleOk(x, ble)
  BY <1>2 DEF Carries
<1> HIDE DEF x
<1>4. BleRecord(ble) /\ c = [ble EXCEPT !.phase = phase]
  BY <1>3 DEF BleOk
<1> HIDE DEF c
<1>5. BleRecord(c)
  BY <1>4 DEF BleRecord
<1>6. c.queue = ble.queue /\ c.text = ble.text /\ c.phase = phase /\ c.target = ble.target
  BY <1>4 DEF BleRecord
<1>7. BleOk(x, c)
  BY <1>1, <1>3, <1>5, <1>6, BleStateOk DEF BleOk, Recovering
<1>8. BleOk(x, ble')
  BY <1>3, <1>4, <1>7
<1> QED
  BY <1>1, <1>2, <1>8, BlePollStep DEF x

LEMMA ServiceRecoveryOk ==
  ASSUME KeyboardOk, ServiceRecovery
  PROVE  KeyboardOk'
<1>0. AdapterOk(adapter) /\ (UNCHANGED adapter => AdapterOk(adapter'))
  BY DEF KeyboardOk
<1>1. CASE RecoveryCompletes
  BY <1>1, RecoveryCompletesOk
<1>2. CASE RecoveryTerminates
  <2> DEFINE closing == adapter.closing \cup {ble.target.handle}
             a == [adapter EXCEPT !.closing = closing]
  <2>1. /\ Servicing /\ TargetIsOwner /\ app' = [app EXCEPT !.pc = "idle"]
        /\ ble' = [ble EXCEPT !.phase = "AwaitingOwnerLoss"] /\ adapter' = a
    BY <1>2 DEF RecoveryTerminates
  <2>2. closing \subseteq adapter.conns
    BY <1>0, <2>1, TargetMeans DEF AdapterOk, Servicing
  <2>3. a = [adapter EXCEPT !.closing = closing]
    OBVIOUS
  <2> HIDE DEF closing, a
  <2>4. AdapterOk(a) /\ a.gen = adapter.gen /\ a.owner = adapter.owner
    BY <1>0, <2>2, <2>3 DEF AdapterOk
  <2> QED
    BY <2>1, <2>4, PhaseStep
<1>3. CASE RecoveryFails
  BY <1>0, <1>3, PhaseStep DEF RecoveryFails
<1>4. CASE RecoveryResets
  <2> DEFINE a == [adapter EXCEPT !.reset = TRUE]
  <2>1. /\ Servicing /\ TargetIsOwner /\ app' = [app EXCEPT !.pc = "idle"]
        /\ ble' = [ble EXCEPT !.phase = "AwaitingHostReset"] /\ adapter' = a
    BY <1>4 DEF RecoveryResets
  <2>2. a = [adapter EXCEPT !.reset = TRUE]
    OBVIOUS
  <2> HIDE DEF a
  <2>3. AdapterOk(a) /\ a.gen = adapter.gen /\ a.owner = adapter.owner
    BY <1>0, <2>2 DEF AdapterOk
  <2> QED
    BY <2>1, <2>3, PhaseStep
<1>5. CASE RecoveryWaits
  <2>1. /\ Servicing /\ TargetIsOwner /\ app' = [app EXCEPT !.pc = "idle"]
        /\ UNCHANGED <<ble, adapter>>
    BY <1>5 DEF RecoveryWaits
  <2> QED
    BY <1>0, <2>1, PhaseStep
<1> QED
  BY <1>1, <1>2, <1>3, <1>4, <1>5 DEF ServiceRecovery

-----------------------------------------------------------------------------
(* The cable. *)

LEMMA UsbPortOk ==
  ASSUME NEW w, NEW x, Follows(w, x), NEW u, UsbOk(w, u), NEW v, UsbRecord(v), v.keys = u.keys,
         v.cmds = u.cmds, v.ops = u.ops, v.shown = u.shown, v.epoch \in Nat, x.usb = v.epoch,
         v.reset \/ (~u.reset /\ v.epoch = u.epoch)
  PROVE  UsbOk(x, v)
<1>1. Told(x, v.keys) /\ Told(x, v.cmds)
  BY ToldKept DEF UsbOk
<1>2. CASE v.reset
  BY <1>1, <1>2 DEF UsbOk, OpsOk, ShownOk
<1>3. CASE ~u.reset /\ v.epoch = u.epoch
  <2>1. UsbOk(x, u)
    BY <1>3, UsbKept
  <2> QED
    BY <1>1, <1>3, <2>1 DEF UsbOk, OpsOk, ShownOk
<1> QED
  BY <1>2, <1>3

\* What a host begins with, or keeps.
LEMMA ViewOk ==
  ASSUME NEW w, NEW x, Follows(w, x), NEW v, NEW l, NEW v2, NEW l2,
         HostOk(w, v, l), v2.live => l2 \in x.alive,
         (v2 = v /\ (v.live => l2 = l)) \/ v2 \in {NoView, FreshView}
  PROVE  HostOk(x, v2, l2)
<1>1. CASE v2 = v /\ v.live /\ l2 = l
  BY <1>1, HostKept
<1>2. CASE v2 = v /\ ~v.live
  BY <1>2 DEF HostOk
<1>3. CASE v2 \in {NoView, FreshView}
  <2>1. ViewRecord(v2) /\ v2.keys = {} /\ v2.hot = {} /\ v2.text = 0
    BY <1>3 DEF ViewRecord, NoView, FreshView
  <2> QED
    BY <2>1 DEF HostOk
<1> QED
  BY <1>1, <1>2, <1>3

\* A step of the cable or the radio: the main task does nothing.
LEMMA WorldStepOk ==
  ASSUME KeyboardOk, Follows(World, World'), UNCHANGED app, EnvOk',
         UsbOk(World', usb'), BleOk(World', ble'), ble'.queue = ble.queue, AdapterOk(adapter'),
         hosts' = [Usb |-> hosts'.Usb, Ble |-> hosts'.Ble],
         (hosts'.Usb = hosts.Usb /\ (hosts.Usb.live => usb'.epoch = usb.epoch))
           \/ hosts'.Usb \in {NoView, FreshView},
         (hosts'.Ble = hosts.Ble /\ (hosts.Ble.live => adapter'.gen = adapter.gen))
           \/ hosts'.Ble \in {NoView, FreshView},
         hosts'.Usb.live => usb'.vbus /\ UsbEpoch(usb') # NoEpoch,
         hosts'.Ble.live = (adapter'.owner # 0)
  PROVE  KeyboardOk'
<1> DEFINE w == World
           x == World'
           p == Life("Usb")
           p2 == Life("Usb")'
           q == Life("Ble")
           q2 == Life("Ble")'
<1>1. /\ HostOk(w, hosts.Usb, p) /\ HostOk(w, hosts.Ble, q) /\ AppOk(w, app) /\ Follows(w, x)
      /\ (hosts'.Usb.live => p2 \in x.alive) /\ (hosts'.Ble.live => q2 \in x.alive)
      /\ ((hosts'.Usb = hosts.Usb /\ (hosts.Usb.live => p2 = p)) \/ hosts'.Usb \in {NoView, FreshView})
      /\ ((hosts'.Ble = hosts.Ble /\ (hosts.Ble.live => q2 = q)) \/ hosts'.Ble \in {NoView, FreshView})
  BY DEF KeyboardOk, HostsOk, World, Alive, Life
<1>2. HostsOk(World)' = (HostOk(x, hosts'.Usb, p2) /\ HostOk(x, hosts'.Ble, q2))
  BY DEF HostsOk
<1> HIDE DEF w, x, p, p2, q, q2
<1>3. HostOk(x, hosts'.Usb, p2)
  BY <1>1, ViewOk
<1>4. HostOk(x, hosts'.Ble, q2)
  BY <1>1, ViewOk
<1>5. AppOk(x, app)
  BY <1>1, AppKept
<1>6. LinksOk'
  BY DEF LinksOk, KeyboardOk
<1> QED
  BY <1>2, <1>3, <1>4, <1>5, <1>6 DEF KeyboardOk, x

LEMMA Views ==
  NoView.live = FALSE /\ FreshView.live = TRUE
BY DEF NoView, FreshView

SameWaiting(u, v) ==
  /\ UsbRecord(v) /\ v.keys = u.keys /\ v.cmds = u.cmds /\ v.ops = u.ops /\ v.shown = u.shown
  /\ v.epoch \in Nat /\ u.epoch <= v.epoch
  /\ v.reset \/ (~u.reset /\ v.epoch = u.epoch)

LEMMA CableStep ==
  ASSUME KeyboardOk, NEW u, UsbKeeps(u), SameWaiting(usb, u), EnvStays,
         \/ UNCHANGED hosts /\ (hosts.Usb.live => u.epoch = usb.epoch)
         \/ UsbHost(NoView)
         \/ UsbHost(FreshView) /\ usb.epoch < u.epoch,
         hosts'.Usb.live => u.vbus /\ UsbEpoch(u) # NoEpoch
  PROVE  KeyboardOk'
<1>1. usb' = u /\ UNCHANGED <<app, ble, adapter>>
  BY DEF UsbKeeps
<1>2. hosts = [Usb |-> hosts.Usb, Ble |-> hosts.Ble]
  BY DEF KeyboardOk, LinksOk
<1>3. /\ hosts' = [Usb |-> hosts'.Usb, Ble |-> hosts'.Ble] /\ hosts'.Ble = hosts.Ble
      /\ \/ hosts'.Usb = hosts.Usb /\ (hosts.Usb.live => usb'.epoch = usb.epoch)
         \/ hosts'.Usb = NoView
         \/ hosts'.Usb = FreshView /\ usb.epoch < usb'.epoch
  <2>1. CASE UNCHANGED hosts /\ (hosts.Usb.live => u.epoch = usb.epoch)
    BY <1>1, <1>2, <2>1
  <2>2. ASSUME NEW view, UsbHost(view)
        PROVE  hosts' = [Usb |-> view, Ble |-> hosts.Ble]
    BY <1>2, <2>2 DEF UsbHost
  <2>3. ASSUME NEW view, UsbHost(view)
        PROVE  hosts' = [Usb |-> hosts'.Usb, Ble |-> hosts'.Ble] /\ hosts'.Usb = view
               /\ hosts'.Ble = hosts.Ble
    BY <2>2, <2>3
  <2> QED
    BY <1>1, <2>1, <2>3
<1>4. Follows(World, World')
  <2>1. usb'.epoch \in Nat /\ usb.epoch <= usb'.epoch /\ adapter.gen \in Nat
    BY <1>1 DEF SameWaiting, KeyboardOk, AdapterOk
  <2>2. hosts'.Usb.live => (hosts.Usb.live /\ usb'.epoch = usb.epoch) \/ usb.epoch < usb'.epoch
    BY <1>3, Views
  <2> QED
    BY <1>1, <1>3, <2>1, <2>2, TimePasses DEF EnvStays
<1>5. UsbOk(World', usb')
  <2> DEFINE w == World
             x == World'
  <2>1. UsbOk(w, usb) /\ Follows(w, x) /\ x.usb = u.epoch
    BY <1>1, <1>4 DEF KeyboardOk, World
  <2> HIDE DEF w, x
  <2>2. UsbOk(x, u)
    BY <2>1, UsbPortOk DEF SameWaiting
  <2> QED
    BY <1>1, <2>2 DEF x
<1>6. BleOk(World', ble')
  <2> DEFINE w == World
             x == World'
  <2>1. BleOk(w, ble) /\ Follows(w, x)
    BY <1>4 DEF KeyboardOk
  <2> HIDE DEF w, x
  <2>2. BleOk(x, ble)
    BY <2>1, BleKept
  <2> QED
    BY <1>1, <2>2 DEF x
<1>7. AdapterOk(adapter') /\ hosts'.Ble.live = (adapter'.owner # 0)
  BY <1>1, <1>3 DEF KeyboardOk, LinksOk
<1> QED
  BY <1>1, <1>3, <1>4, <1>5, <1>6, <1>7, WorldStepOk DEF EnvStays

LEMMA CableOk ==
  ASSUME KeyboardOk, Cable \/ SyncPresence
  PROVE  KeyboardOk'
<1>0. /\ UsbRecord(usb) /\ usb.epoch \in Nat /\ EnvOk
      /\ hosts.Usb.live => usb.vbus /\ UsbEpoch(usb) # NoEpoch
      /\ UNCHANGED env => EnvStays
  BY EnvUnchanged DEF KeyboardOk, UsbOk, LinksOk
<1>a. /\ \A view : UsbHost(view) => hosts'.Usb = view
      /\ NoView.live = FALSE
  BY Views DEF UsbHost, KeyboardOk, LinksOk
<1>1. CASE PlugIn
  <2> DEFINE u == [usb EXCEPT !.vbus = TRUE]
  <2>1. UsbKeeps(u) /\ UNCHANGED hosts /\ ~usb.vbus /\ Left("mounts") /\ Spend("mounts")
    BY <1>1 DEF PlugIn
  <2>2. u = [usb EXCEPT !.vbus = TRUE]
    OBVIOUS
  <2> HIDE DEF u
  <2>3. UsbRecord(u)
    BY <1>0, <2>2 DEF UsbRecord
  <2>4. SameWaiting(usb, u) /\ u.epoch = usb.epoch
    BY <1>0, <2>2, <2>3 DEF SameWaiting, UsbRecord
  <2>5. EnvStays
    BY <1>0, <2>1, SpendingOk DEF Budget
  <2> QED
    BY <1>0, <2>1, <2>4, <2>5, CableStep
<1>2. CASE PullOut
  <2> DEFINE u == [usb EXCEPT !.vbus = FALSE]
  <2>1. UsbKeeps(u) /\ UsbHost(NoView) /\ UNCHANGED env
    BY <1>2 DEF PullOut
  <2>2. u = [usb EXCEPT !.vbus = FALSE]
    OBVIOUS
  <2> HIDE DEF u
  <2>3. UsbRecord(u)
    BY <1>0, <2>2 DEF UsbRecord
  <2>4. SameWaiting(usb, u)
    BY <1>0, <2>2, <2>3 DEF SameWaiting, UsbRecord
  <2> QED
    BY <1>0, <1>a, <2>1, <2>4, CableStep
<1>3. CASE Configure
  <2> DEFINE epoch == usb.epoch + 1
             u == [usb EXCEPT !.tud = TRUE, !.tiny = TRUE, !.phys = TRUE, !.fresh = FALSE,
                              !.epoch = epoch, !.reset = TRUE]
  <2>1. UsbKeeps(u) /\ UsbHost(FreshView) /\ usb.vbus /\ UNCHANGED env
    BY <1>3 DEF Configure
  <2>2. epoch \in Nat /\ usb.epoch < epoch /\ usb.epoch <= epoch /\ epoch # NoEpoch
    BY <1>0 DEF NoEpoch
  <2>a. u = [usb EXCEPT !.tud = TRUE, !.tiny = TRUE, !.phys = TRUE, !.fresh = FALSE,
                        !.epoch = epoch, !.reset = TRUE]
    OBVIOUS
  <2> HIDE DEF u, epoch
  <2>3. UsbRecord(u)
    BY <1>0, <2>a DEF UsbRecord
  <2>4. /\ u.tud = TRUE /\ u.tiny = TRUE /\ u.phys = TRUE /\ u.fresh = FALSE
        /\ u.epoch = epoch /\ u.reset = TRUE /\ u.vbus = usb.vbus /\ u.keys = usb.keys
        /\ u.cmds = usb.cmds /\ u.ops = usb.ops /\ u.shown = usb.shown
    BY <1>0, <2>a DEF UsbRecord
  <2>5. SameWaiting(usb, u) /\ usb.epoch < u.epoch
    BY <2>2, <2>3, <2>4 DEF SameWaiting
  <2>6. u.vbus /\ UsbEpoch(u) # NoEpoch
    BY <2>1, <2>2, <2>4 DEF UsbEpoch
  <2> QED
    BY <1>0, <2>1, <2>5, <2>6, CableStep
<1>4. CASE BusReset
  <2> DEFINE u == [usb EXCEPT !.tud = FALSE]
  <2>1. UsbKeeps(u) /\ UsbHost(NoView) /\ Left("mounts") /\ Spend("mounts")
    BY <1>4 DEF BusReset
  <2>2. u = [usb EXCEPT !.tud = FALSE]
    OBVIOUS
  <2> HIDE DEF u
  <2>3. UsbRecord(u)
    BY <1>0, <2>2 DEF UsbRecord
  <2>4. SameWaiting(usb, u)
    BY <1>0, <2>2, <2>3 DEF SameWaiting, UsbRecord
  <2>5. EnvStays
    BY <1>0, <2>1, SpendingOk DEF Budget
  <2> QED
    BY <1>0, <1>a, <2>1, <2>4, <2>5, CableStep
<1>5. CASE Unmount
  <2> DEFINE epoch == usb.epoch + 1
             u == [usb EXCEPT !.tud = FALSE, !.tiny = FALSE, !.epoch = epoch, !.reset = TRUE]
  <2>1. UsbKeeps(u) /\ UsbHost(NoView) /\ UNCHANGED env
    BY <1>5 DEF Unmount
  <2>2. epoch \in Nat /\ usb.epoch <= epoch
    BY <1>0
  <2>a. u = [usb EXCEPT !.tud = FALSE, !.tiny = FALSE, !.epoch = epoch, !.reset = TRUE]
    OBVIOUS
  <2> HIDE DEF u, epoch
  <2>3. UsbRecord(u)
    BY <1>0, <2>a DEF UsbRecord
  <2>4. /\ u.epoch = epoch /\ u.reset = TRUE /\ u.keys = usb.keys
        /\ u.cmds = usb.cmds /\ u.ops = usb.ops /\ u.shown = usb.shown
    BY <1>0, <2>a DEF UsbRecord
  <2>5. SameWaiting(usb, u)
    BY <2>2, <2>3, <2>4 DEF SameWaiting
  <2> QED
    BY <1>0, <1>a, <2>1, <2>5, CableStep
<1>6. CASE SyncPresence
  <2> DEFINE fresh == usb.fresh \/ ~usb.vbus
             reset == usb.reset \/ (usb.tiny /\ usb.phys /\ ~usb.fresh /\ ~usb.vbus)
             u == [usb EXCEPT !.present = usb.vbus, !.phys = usb.vbus, !.fresh = fresh,
                              !.reset = reset]
  <2>1. UsbKeeps(u) /\ UNCHANGED <<hosts, env>>
    BY <1>6 DEF SyncPresence, PresenceSeen
  <2>a. u = [usb EXCEPT !.present = usb.vbus, !.phys = usb.vbus, !.fresh = fresh,
                        !.reset = reset]
    OBVIOUS
  <2> HIDE DEF u
  <2>3. UsbRecord(u)
    BY <1>0, <2>a DEF UsbRecord
  <2>4. /\ u.epoch = usb.epoch /\ u.keys = usb.keys /\ u.cmds = usb.cmds /\ u.ops = usb.ops
        /\ u.shown = usb.shown /\ u.vbus = usb.vbus /\ u.phys = usb.vbus /\ u.tiny = usb.tiny
        /\ u.tud = usb.tud /\ u.fresh = fresh /\ u.reset = reset
    BY <1>0, <2>a DEF UsbRecord
  <2>5. SameWaiting(usb, u)
    <3>1. usb.reset => reset
      OBVIOUS
    <3> HIDE DEF reset
    <3>2. u.reset \/ ~usb.reset
      BY <2>4, <3>1
    <3>3. usb.epoch <= u.epoch /\ u.epoch \in Nat
      BY <1>0, <2>4
    <3> QED
      BY <2>3, <2>4, <3>2, <3>3 DEF SameWaiting
  <2>6. hosts.Usb.live => u.vbus /\ UsbEpoch(u) # NoEpoch
    BY <1>0, <2>4 DEF UsbEpoch
  <2> QED
    BY <1>0, <2>1, <2>4, <2>5, <2>6, CableStep
<1> QED
  BY <1>1, <1>2, <1>3, <1>4, <1>5, <1>6 DEF Cable

-----------------------------------------------------------------------------
(* The radio, and the event loop of its profile. *)

SameQueue(b, c) ==
  /\ BleRecord(c) /\ c.queue = b.queue /\ c.text = b.text
  /\ Recovering(c) = (c.target # NoOwner)

LEMMA RadioStep ==
  ASSUME KeyboardOk, UNCHANGED <<app, usb>>, EnvStays, AdapterOk(adapter'),
         adapter.gen <= adapter'.gen, SameQueue(ble, ble'),
         \/ UNCHANGED hosts /\ (hosts.Ble.live => adapter'.gen = adapter.gen)
         \/ BleHost(NoView)
         \/ BleHost(FreshView) /\ adapter.gen < adapter'.gen,
         hosts'.Ble.live = (adapter'.owner # 0)
  PROVE  KeyboardOk'
<1>1. hosts = [Usb |-> hosts.Usb, Ble |-> hosts.Ble]
  BY DEF KeyboardOk, LinksOk
<1>2. /\ hosts' = [Usb |-> hosts'.Usb, Ble |-> hosts'.Ble] /\ hosts'.Usb = hosts.Usb
      /\ \/ hosts'.Ble = hosts.Ble /\ (hosts.Ble.live => adapter'.gen = adapter.gen)
         \/ hosts'.Ble = NoView
         \/ hosts'.Ble = FreshView /\ adapter.gen < adapter'.gen
  <2>1. CASE UNCHANGED hosts /\ (hosts.Ble.live => adapter'.gen = adapter.gen)
    BY <1>1, <2>1
  <2>2. ASSUME NEW view, BleHost(view)
        PROVE  hosts' = [Usb |-> hosts.Usb, Ble |-> view]
    BY <1>1, <2>2 DEF BleHost
  <2>3. ASSUME NEW view, BleHost(view)
        PROVE  hosts' = [Usb |-> hosts'.Usb, Ble |-> hosts'.Ble] /\ hosts'.Ble = view
               /\ hosts'.Usb = hosts.Usb
    BY <2>2, <2>3
  <2> QED
    BY <2>1, <2>3
<1>3. usb.epoch \in Nat /\ adapter'.gen \in Nat
  BY DEF KeyboardOk, UsbOk, AdapterOk
<1>4. Follows(World, World')
  <2>1. hosts'.Ble.live =>
          (hosts.Ble.live /\ adapter'.gen = adapter.gen) \/ adapter.gen < adapter'.gen
    BY <1>2, Views
  <2> QED
    BY <1>2, <1>3, <2>1, TimePasses DEF EnvStays
<1> DEFINE w == World
           x == World'
<1>5. /\ UsbOk(w, usb) /\ BleOk(w, ble) /\ Follows(w, x) /\ x.usb = usb.epoch
  BY <1>4 DEF KeyboardOk, World
<1> HIDE DEF w, x
<1>6. UsbOk(x, usb) /\ BleOk(x, ble)
  BY <1>5, UsbKept, BleKept
<1>7. BleOk(x, ble')
  BY <1>6, BleStateOk DEF SameQueue
<1>8. UsbOk(x, usb')
  BY <1>6
<1>9. hosts'.Usb.live => usb'.vbus /\ UsbEpoch(usb') # NoEpoch
  BY <1>2 DEF KeyboardOk, LinksOk
<1> QED
  BY <1>2, <1>4, <1>7, <1>8, <1>9, WorldStepOk DEF EnvStays, SameQueue, x

LEMMA SameQueueKept ==
  ASSUME KeyboardOk
  PROVE  /\ SameQueue(ble, ble)
         /\ \A owner : SameQueue(ble, Adopted(ble, owner))
         /\ \A active, reset : SameQueue(ble, [ble EXCEPT !.active = active, !.reset = reset])
         /\ \A active : SameQueue(ble, [ble EXCEPT !.active = active])
         /\ \A reset : SameQueue(ble, [ble EXCEPT !.reset = reset])
         /\ \A phase : Recovering(ble) /\ phase # "Idle" =>
              SameQueue(ble, [ble EXCEPT !.phase = phase])
<1>1. BleRecord(ble) /\ Recovering(ble) = (ble.target # NoOwner)
  BY DEF KeyboardOk, BleOk
<1>2. SameQueue(ble, ble)
  BY <1>1 DEF SameQueue
<1>3. ASSUME NEW active, NEW reset
      PROVE  SameQueue(ble, [ble EXCEPT !.active = active, !.reset = reset])
  <2> DEFINE c == [ble EXCEPT !.active = active, !.reset = reset]
  <2>1. c = [ble EXCEPT !.active = active, !.reset = reset]
    OBVIOUS
  <2> HIDE DEF c
  <2>2. BleRecord(c)
    BY <1>1, <2>1 DEF BleRecord
  <2>3. c.queue = ble.queue /\ c.text = ble.text /\ c.phase = ble.phase /\ c.target = ble.target
    BY <1>1, <2>1 DEF BleRecord
  <2>4. SameQueue(ble, c)
    BY <1>1, <2>2, <2>3 DEF SameQueue, Recovering
  <2> QED
    BY <2>4 DEF c
<1>4. \A active : [ble EXCEPT !.active = active] = [ble EXCEPT !.active = active, !.reset = ble.reset]
  BY <1>1 DEF BleRecord
<1>5. \A reset : [ble EXCEPT !.reset = reset] = [ble EXCEPT !.active = ble.active, !.reset = reset]
  BY <1>1 DEF BleRecord
<1>6. \A owner : SameQueue(ble, Adopted(ble, owner))
  BY <1>2, <1>3 DEF Adopted
<1>7. ASSUME NEW phase, Recovering(ble), phase # "Idle"
      PROVE  SameQueue(ble, [ble EXCEPT !.phase = phase])
  <2> DEFINE c == [ble EXCEPT !.phase = phase]
  <2>1. c = [ble EXCEPT !.phase = phase]
    OBVIOUS
  <2> HIDE DEF c
  <2>2. BleRecord(c)
    BY <1>1, <2>1 DEF BleRecord
  <2>3. c.queue = ble.queue /\ c.text = ble.text /\ c.phase = phase /\ c.target = ble.target
    BY <1>1, <2>1 DEF BleRecord
  <2>4. SameQueue(ble, c)
    BY <1>1, <1>7, <2>2, <2>3 DEF SameQueue, Recovering
  <2> QED
    BY <2>4 DEF c
<1>8. (\A active : SameQueue(ble, [ble EXCEPT !.active = active]))
      /\ \A reset : SameQueue(ble, [ble EXCEPT !.reset = reset])
  <2>1. ASSUME NEW active PROVE SameQueue(ble, [ble EXCEPT !.active = active])
    <3> DEFINE reset == ble.reset
    <3>1. [ble EXCEPT !.active = active] = [ble EXCEPT !.active = active, !.reset = reset]
      BY <1>4
    <3> HIDE DEF reset
    <3>2. SameQueue(ble, [ble EXCEPT !.active = active, !.reset = reset])
      BY <1>3
    <3> QED
      BY <3>1, <3>2
  <2>2. ASSUME NEW reset PROVE SameQueue(ble, [ble EXCEPT !.reset = reset])
    <3> DEFINE active == ble.active
    <3>1. [ble EXCEPT !.reset = reset] = [ble EXCEPT !.active = active, !.reset = reset]
      BY <1>5
    <3> HIDE DEF active
    <3>2. SameQueue(ble, [ble EXCEPT !.active = active, !.reset = reset])
      BY <1>3
    <3> QED
      BY <3>1, <3>2
  <2> QED
    BY <2>1, <2>2
<1> QED
  BY <1>2, <1>3, <1>6, <1>7, <1>8

LEMMA ConnectOk ==
  ASSUME KeyboardOk, NEW h \in Handles, Connect(h)
  PROVE  KeyboardOk'
<1> DEFINE conns == adapter.conns \cup {h}
           boot == adapter.boot /\ adapter.owner # 0
           a == [adapter EXCEPT !.conns = conns, !.boot = boot]
<1>1. /\ UNCHANGED <<app, usb, ble, hosts>> /\ Left("links") /\ Spend("links")
      /\ adapter' = a
  BY DEF Connect, NimBle
<1>2. AdapterOk(adapter) /\ EnvStays /\ hosts.Ble.live = (adapter.owner # 0)
  BY <1>1, SpendingOk DEF KeyboardOk, LinksOk, Budget
<1>3. a = [adapter EXCEPT !.conns = conns, !.boot = boot] /\ adapter.conns \subseteq conns
      /\ conns \subseteq Handles
  BY <1>2 DEF AdapterOk
<1> HIDE DEF a, conns, boot
<1>4. AdapterOk(a) /\ a.gen = adapter.gen /\ a.owner = adapter.owner
  BY <1>2, <1>3 DEF AdapterOk
<1>5. AdapterOk(adapter') /\ adapter'.gen = adapter.gen /\ adapter'.owner = adapter.owner
      /\ adapter.gen <= adapter'.gen
  BY <1>1, <1>2, <1>4 DEF AdapterOk
<1>6. SameQueue(ble, ble')
  BY <1>1, SameQueueKept
<1> QED
  BY <1>1, <1>2, <1>5, <1>6, RadioStep

LEMMA SubscribeOk ==
  ASSUME KeyboardOk, NEW h \in Handles, Subscribe(h)
  PROVE  KeyboardOk'
<1> DEFINE gen == adapter.gen + 1
           event == ConnectPosted
           a == [adapter EXCEPT !.owner = h, !.gen = gen, !.task = TRUE, !.event = event]
<1>1. /\ UNCHANGED <<app, usb, ble, env>> /\ BleHost(FreshView) /\ h \in adapter.conns
      /\ adapter' = a
  BY DEF Subscribe, NimBle, ClaimsKeyboard
<1>2. AdapterOk(adapter) /\ EnvStays /\ h # 0
  BY <1>1, EnvUnchanged, NamesDiffer DEF KeyboardOk
<1>3. a = [adapter EXCEPT !.owner = h, !.gen = gen, !.task = TRUE, !.event = event]
      /\ gen \in Nat /\ gen # 0 /\ adapter.gen < gen /\ adapter.gen <= gen
  BY <1>2 DEF AdapterOk
<1> HIDE DEF a, gen, event
<1>4. AdapterOk(a) /\ a.gen = gen /\ a.owner = h
  BY <1>1, <1>2, <1>3 DEF AdapterOk
<1>5. hosts'.Ble.live = (adapter'.owner # 0)
  <2>1. hosts'.Ble = FreshView
    BY <1>1 DEF BleHost, KeyboardOk, LinksOk
  <2> QED
    BY <1>1, <1>2, <1>4, <2>1, Views
<1>6. SameQueue(ble, ble') /\ AdapterOk(adapter')
      /\ adapter.gen < adapter'.gen /\ adapter.gen <= adapter'.gen
  BY <1>1, <1>3, <1>4, SameQueueKept
<1> QED
  BY <1>1, <1>2, <1>5, <1>6, RadioStep

\* The owner goes, or there was none.
LEMMA WithoutOwnerOk ==
  ASSUME NEW a, a = [owner |-> a.owner, gen |-> a.gen, synced |-> a.synced, boot |-> a.boot,
                     conns |-> a.conns, closing |-> a.closing, reset |-> a.reset,
                     task |-> a.task, event |-> a.event],
         a.conns \subseteq Handles, a.closing \subseteq a.conns, a.gen \in Nat
  PROVE  /\ AdapterOk(WithoutOwner(a)) /\ WithoutOwner(a).owner = 0
         /\ a.gen <= WithoutOwner(a).gen
<1>1. CASE a.owner = 0
  BY <1>1 DEF WithoutOwner, AdapterOk
<1>2. CASE a.owner # 0
  <2> DEFINE gen == a.gen + 1
             x == [a EXCEPT !.gen = gen, !.owner = 0]
  <2>1. x = [a EXCEPT !.gen = gen, !.owner = 0] /\ gen \in Nat /\ a.gen <= gen
    OBVIOUS
  <2>2. WithoutOwner(a) = x
    BY <1>2 DEF WithoutOwner
  <2> HIDE DEF x, gen
  <2>3. x = [owner |-> 0, gen |-> gen, synced |-> a.synced, boot |-> a.boot, conns |-> a.conns,
             closing |-> a.closing, reset |-> a.reset, task |-> a.task, event |-> a.event]
    BY <2>1
  <2>4. AdapterOk(x) /\ x.owner = 0 /\ x.gen = gen
    BY <2>1, <2>3 DEF AdapterOk
  <2> QED
    BY <2>1, <2>2, <2>4
<1> QED
  BY <1>1, <1>2

LEMMA DisconnectOk ==
  ASSUME KeyboardOk, NEW h \in Handles, Disconnect(h)
  PROVE  KeyboardOk'
<1> DEFINE conns == adapter.conns \ {h}
           closing == adapter.closing \ {h}
           a == [adapter EXCEPT !.conns = conns, !.closing = closing]
<1>1. /\ UNCHANGED <<app, usb, env>> /\ h \in adapter.conns
      /\ adapter' = IF adapter.owner = h THEN WithoutOwner(a) ELSE a
      /\ ble' = IF ble.active.handle = h THEN [ble EXCEPT !.active = NoOwner, !.reset = TRUE] ELSE ble
      /\ IF adapter.owner = h THEN BleHost(NoView) ELSE UNCHANGED hosts
  BY DEF Disconnect, NimBle
<1>2. AdapterOk(adapter) /\ EnvStays /\ h # 0 /\ hosts.Ble.live = (adapter.owner # 0)
  BY <1>1, EnvUnchanged, NamesDiffer DEF KeyboardOk, LinksOk
<1>3. a = [adapter EXCEPT !.conns = conns, !.closing = closing]
      /\ closing \subseteq conns /\ conns \subseteq Handles
      /\ (adapter.owner # h => adapter.owner \in conns \cup {0})
  BY <1>2 DEF AdapterOk
<1> HIDE DEF a, conns, closing
<1>a. a = [owner |-> adapter.owner, gen |-> adapter.gen, synced |-> adapter.synced,
           boot |-> adapter.boot, conns |-> conns, closing |-> closing, reset |-> adapter.reset,
           task |-> adapter.task, event |-> adapter.event]
  BY <1>2, <1>3 DEF AdapterOk
<1>b. /\ a = [owner |-> a.owner, gen |-> a.gen, synced |-> a.synced, boot |-> a.boot,
              conns |-> a.conns, closing |-> a.closing, reset |-> a.reset,
              task |-> a.task, event |-> a.event]
      /\ a.owner = adapter.owner /\ a.gen = adapter.gen /\ a.conns = conns /\ a.closing = closing
      /\ a.gen \in Nat /\ a.conns \subseteq Handles /\ a.closing \subseteq a.conns
  BY <1>2, <1>3, <1>a DEF AdapterOk
<1>4. SameQueue(ble, ble')
  BY <1>1, SameQueueKept
<1>5. CASE adapter.owner = h
  <2>1. BleHost(NoView) /\ adapter' = WithoutOwner(a)
    BY <1>1, <1>5
  <2>2. AdapterOk(adapter') /\ adapter'.owner = 0 /\ adapter.gen <= adapter'.gen
    BY <1>b, <2>1, WithoutOwnerOk
  <2>3. hosts'.Ble = NoView
    BY <2>1 DEF BleHost, KeyboardOk, LinksOk
  <2>4. hosts'.Ble.live = (adapter'.owner # 0)
    BY <2>2, <2>3, Views
  <2> QED
    BY <1>1, <1>2, <1>4, <2>1, <2>2, <2>4, RadioStep
<1>6. CASE adapter.owner # h
  <2>1. UNCHANGED hosts /\ adapter' = a
    BY <1>1, <1>6
  <2>2. AdapterOk(a)
    BY <1>2, <1>3, <1>6, <1>b DEF AdapterOk
  <2>3. AdapterOk(adapter') /\ adapter'.gen = adapter.gen /\ adapter'.owner = adapter.owner
        /\ adapter.gen <= adapter'.gen
    BY <1>b, <2>1, <2>2
  <2> QED
    BY <1>1, <1>2, <1>4, <2>1, <2>3, RadioStep
<1> QED
  BY <1>5, <1>6

LEMMA TermFailedOk ==
  ASSUME KeyboardOk, NEW h \in Handles, TermFailed(h)
  PROVE  KeyboardOk'
<1> DEFINE closing == adapter.closing \ {h}
           a == [adapter EXCEPT !.closing = closing]
<1>1. /\ UNCHANGED <<app, usb, hosts>> /\ Left("faults") /\ Spend("faults") /\ adapter' = a
      /\ ble' = ble \/ (Recovering(ble) /\ ble' = [ble EXCEPT !.phase = "AwaitingHostReset"])
  BY DEF TermFailed, NimBle
<1>2. AdapterOk(adapter) /\ EnvStays /\ hosts.Ble.live = (adapter.owner # 0)
  BY <1>1, SpendingOk DEF KeyboardOk, LinksOk, Budget
<1>3. a = [adapter EXCEPT !.closing = closing] /\ closing \subseteq adapter.conns
  BY <1>2 DEF AdapterOk
<1> HIDE DEF a, closing
<1>4. AdapterOk(a) /\ a.gen = adapter.gen /\ a.owner = adapter.owner
  BY <1>2, <1>3 DEF AdapterOk
<1>5. AdapterOk(adapter') /\ adapter'.gen = adapter.gen /\ adapter'.owner = adapter.owner
      /\ adapter.gen <= adapter'.gen
  BY <1>1, <1>2, <1>4 DEF AdapterOk
<1>6. SameQueue(ble, ble')
  BY <1>1, SameQueueKept
<1> QED
  BY <1>1, <1>2, <1>5, <1>6, RadioStep

LEMMA HostResetOk ==
  ASSUME KeyboardOk, HostReset
  PROVE  KeyboardOk'
<1> DEFINE a == [adapter EXCEPT !.synced = FALSE, !.reset = FALSE, !.conns = {}, !.closing = {},
                                !.boot = FALSE]
<1>1. /\ UNCHANGED <<app, usb, ble>> /\ adapter' = WithoutOwner(a) /\ BleHost(NoView)
  BY DEF HostReset, NimBle
<1>2. AdapterOk(adapter) /\ EnvStays
  BY EnvUnchanged, SpendingOk DEF KeyboardOk, HostReset, Budget
<1>3. a = [adapter EXCEPT !.synced = FALSE, !.reset = FALSE, !.conns = {}, !.closing = {},
                          !.boot = FALSE]
  OBVIOUS
<1> HIDE DEF a
<1>a. a = [owner |-> adapter.owner, gen |-> adapter.gen, synced |-> FALSE,
           boot |-> FALSE, conns |-> {}, closing |-> {}, reset |-> FALSE,
           task |-> adapter.task, event |-> adapter.event]
  BY <1>2, <1>3 DEF AdapterOk
<1>b. /\ a = [owner |-> a.owner, gen |-> a.gen, synced |-> a.synced, boot |-> a.boot,
              conns |-> a.conns, closing |-> a.closing, reset |-> a.reset,
              task |-> a.task, event |-> a.event]
      /\ a.gen = adapter.gen /\ a.gen \in Nat /\ a.conns \subseteq Handles /\ a.closing \subseteq a.conns
  BY <1>2, <1>a DEF AdapterOk
<1>4. AdapterOk(adapter') /\ adapter'.owner = 0 /\ adapter.gen <= adapter'.gen
  BY <1>1, <1>b, WithoutOwnerOk
<1>5. hosts'.Ble = NoView
  BY <1>1 DEF BleHost, KeyboardOk, LinksOk
<1>6. hosts'.Ble.live = (adapter'.owner # 0) /\ SameQueue(ble, ble')
  BY <1>1, <1>4, <1>5, Views, SameQueueKept
<1> QED
  BY <1>1, <1>2, <1>4, <1>6, RadioStep

\* What leaves the connections and the owner alone.
Flagged(a, synced, boot, task, event) ==
  [owner |-> a.owner, gen |-> a.gen, synced |-> synced, boot |-> boot, conns |-> a.conns,
   closing |-> a.closing, reset |-> a.reset, task |-> task, event |-> event]

LEMMA FlaggedOk ==
  ASSUME NEW a, AdapterOk(a), NEW synced, NEW boot, NEW task, NEW event
  PROVE  /\ AdapterOk(Flagged(a, synced, boot, task, event))
         /\ Flagged(a, synced, boot, task, event).gen = a.gen
         /\ Flagged(a, synced, boot, task, event).owner = a.owner
  BY DEF AdapterOk, Flagged

LEMMA FlagStep ==
  ASSUME KeyboardOk, UNCHANGED <<app, usb, hosts>>, EnvStays, SameQueue(ble, ble'),
         NEW synced, NEW boot, NEW task, NEW event,
         adapter' = Flagged(adapter, synced, boot, task, event)
  PROVE  KeyboardOk'
<1>1. AdapterOk(adapter) /\ hosts.Ble.live = (adapter.owner # 0)
  BY DEF KeyboardOk, LinksOk
<1>2. AdapterOk(adapter') /\ adapter'.gen = adapter.gen /\ adapter'.owner = adapter.owner
  BY <1>1, FlaggedOk
<1>3. adapter.gen <= adapter'.gen
  BY <1>1, <1>2 DEF AdapterOk
<1> QED
  BY <1>1, <1>2, <1>3, RadioStep

LEMMA FlagStepsOk ==
  ASSUME KeyboardOk, GapSync \/ HostSynced \/ SetProtocol \/ EventTask
  PROVE  KeyboardOk'
<1> DEFINE sy == adapter.synced
           bo == adapter.boot
           ta == adapter.task
           ev == adapter.event
           other == ~adapter.boot
           yes == TRUE
           no == FALSE
<1>1. AdapterOk(adapter) /\ (UNCHANGED env => EnvStays)
  BY EnvUnchanged DEF KeyboardOk
<1>2. /\ adapter = Flagged(adapter, sy, bo, ta, ev)
      /\ [adapter EXCEPT !.synced = TRUE] = Flagged(adapter, TRUE, bo, ta, ev)
      /\ [adapter EXCEPT !.boot = ~@] = Flagged(adapter, sy, other, ta, ev)
      /\ [adapter EXCEPT !.task = FALSE] = Flagged(adapter, sy, bo, FALSE, ev)
      /\ [adapter EXCEPT !.event = FALSE] = Flagged(adapter, sy, bo, ta, FALSE)
  <2> DEFINE a == [owner |-> adapter.owner, gen |-> adapter.gen, synced |-> adapter.synced,
                   boot |-> adapter.boot, conns |-> adapter.conns, closing |-> adapter.closing,
                   reset |-> adapter.reset, task |-> adapter.task, event |-> adapter.event]
  <2>0. adapter = a
    BY <1>1 DEF AdapterOk
  <2> HIDE DEF yes, no
  <2>1. a = Flagged(adapter, sy, bo, ta, ev)
    BY DEF Flagged
  <2>2. [a EXCEPT !.synced = yes] = Flagged(adapter, yes, bo, ta, ev)
    BY DEF Flagged
  <2>3. [a EXCEPT !.boot = ~@] = Flagged(adapter, sy, other, ta, ev)
    BY DEF Flagged
  <2>4. [a EXCEPT !.task = no] = Flagged(adapter, sy, bo, no, ev)
    BY DEF Flagged
  <2>5. [a EXCEPT !.event = no] = Flagged(adapter, sy, bo, ta, no)
    BY DEF Flagged
  <2> HIDE DEF a, sy, bo, ta, ev, other
  <2> QED
    BY <2>0, <2>1, <2>2, <2>3, <2>4, <2>5 DEF yes, no
<1> HIDE DEF sy, bo, ta, ev, other, yes, no
<1>3. CASE GapSync
  <2>1. UNCHANGED <<app, usb, hosts, env>> /\ SameQueue(ble, ble')
    BY <1>3, SameQueueKept DEF GapSync
  <2>2. adapter' = Flagged(adapter, sy, bo, FALSE, ev)
    BY <1>2, <1>3 DEF GapSync
  <2> QED
    BY <1>1, <2>1, <2>2, FlagStep
<1>4. CASE HostSynced
  <2>1. UNCHANGED <<app, usb, hosts, env>> /\ SameQueue(ble, ble')
    BY <1>4, SameQueueKept DEF HostSynced, NimBle
  <2>2. adapter' = Flagged(adapter, TRUE, bo, ta, ev)
    BY <1>2, <1>4 DEF HostSynced, NimBle
  <2> QED
    BY <1>1, <2>1, <2>2, FlagStep
<1>5. CASE SetProtocol
  <2>1. UNCHANGED <<app, usb, hosts>> /\ SameQueue(ble, ble')
    BY <1>5, SameQueueKept DEF SetProtocol, NimBle
  <2>2. adapter' = Flagged(adapter, sy, other, ta, ev)
    BY <1>2, <1>5 DEF SetProtocol, NimBle
  <2>3. EnvStays
    BY <1>5, SpendingOk DEF SetProtocol, KeyboardOk, Budget
  <2> QED
    BY <2>1, <2>2, <2>3, FlagStep
<1>6. CASE EventTask
  <2>1. UNCHANGED <<app, usb, hosts>> /\ SameQueue(ble, ble')
    BY <1>6, SameQueueKept DEF EventTask, EventRead, EventAdopt, EventFlag, HelperKeeps
  <2>a. EnvStays
    BY <1>6, EnvUnchanged, LosingOk DEF EventTask, EventRead, EventAdopt, EventFlag, KeyboardOk
  <2>2. CASE adapter' = Flagged(adapter, sy, bo, ta, FALSE)
    BY <2>a, <2>1, <2>2, FlagStep
  <2>3. CASE adapter' = Flagged(adapter, sy, bo, ta, ev)
    BY <2>a, <2>1, <2>3, FlagStep
  <2> QED
    BY <1>2, <1>6, <2>2, <2>3 DEF EventTask, EventRead, EventAdopt, EventFlag
<1> QED
  BY <1>3, <1>4, <1>5, <1>6

-----------------------------------------------------------------------------
(* The behaviours. *)

LEMMA MainOk ==
  ASSUME KeyboardOk, Main
  PROVE  KeyboardOk'
<1>1. CASE \E s \in DOMAIN Key : Press(s) \/ Release(s)
  BY <1>1, PressOk, ReleaseOk
<1>2. CASE \E s \in Bridged : HotkeyUp(s) \/ FlushHot(s)
                              \/ \E h \in env.left.hotkeys : HotkeyDown(s, h)
  BY <1>2, HotkeyUpOk, FlushHotStep, HotkeyDownOk
<1>3. CASE ReleaseAll \/ FixedText \/ FlushKeys \/ SendKeys \/ SyncPresence
  BY <1>3, ReleaseAllOk, FixedTextOk, FlushKeysOk, SendStep, CableOk
<1>4. CASE PollUsb \/ UsbDrops \/ UsbAccepts \/ UsbWaits
  BY <1>4, PollUsbOk, UsbDropsOk, UsbAcceptsOk, UsbWaitsOk
<1>5. CASE PollBle \/ BleDisconnected \/ BleAccepts \/ BleUnsupported \/ BleWaits \/ BleFatal
  BY <1>5, PollBleOk, BleEndsOk, BleAcceptsOk, BleFatalOk
<1>6. CASE ServiceRecovery
  BY <1>6, ServiceRecoveryOk
<1> QED
  BY <1>1, <1>2, <1>3, <1>4, <1>5, <1>6 DEF Main

LEMMA RadioOk ==
  ASSUME KeyboardOk, Radio
  PROVE  KeyboardOk'
<1>1. CASE \E h \in Handles : Connect(h) \/ Subscribe(h) \/ Disconnect(h) \/ TermFailed(h)
  BY <1>1, ConnectOk, SubscribeOk, DisconnectOk, TermFailedOk
<1>2. CASE GapSync \/ HostReset \/ HostSynced \/ SetProtocol
  BY <1>2, FlagStepsOk, HostResetOk
<1> QED
  BY <1>1, <1>2 DEF Radio

LEMMA StepOk ==
  ASSUME KeyboardOk, [Next]_vars
  PROVE  KeyboardOk'
<1>1. CASE Main
  BY <1>1, MainOk
<1>2. CASE Cable
  BY <1>2, CableOk
<1>3. CASE Radio
  BY <1>3, RadioOk
<1>4. CASE EventTask
  BY <1>4, FlagStepsOk
<1>5. CASE UNCHANGED vars
  <2>1. UNCHANGED <<app, usb, ble, adapter, hosts, env>>
    BY <1>5 DEF vars
  <2>2. AdapterOk(adapter) /\ EnvOk /\ hosts.Ble.live = (adapter.owner # 0)
    BY DEF KeyboardOk, LinksOk
  <2>3. EnvStays /\ SameQueue(ble, ble')
    BY <2>1, <2>2, EnvUnchanged, SameQueueKept
  <2>4. AdapterOk(adapter') /\ adapter.gen <= adapter'.gen
    BY <2>1, <2>2 DEF AdapterOk
  <2> QED
    BY <2>1, <2>2, <2>3, <2>4, RadioStep
<1> QED
  BY <1>1, <1>2, <1>3, <1>4, <1>5 DEF Next

LEMMA InitWorld ==
  ASSUME Init
  PROVE  /\ World.alive = {} /\ World.usb = 0 /\ World.ble = 0 /\ World.behind = {}
         /\ \A l \in Lifetimes : l[2] = NoEpoch => Past(World, l)
<1>1. ~hosts.Usb.live /\ ~hosts.Ble.live /\ usb.epoch = 0 /\ adapter.gen = 0 /\ env.behind = {}
  BY DEF Init, NoView, InitUsb, InitAdapter
<1>2. World.alive = {} /\ World.usb = 0 /\ World.ble = 0 /\ World.behind = {}
  BY <1>1 DEF World, Alive
<1> QED
  BY <1>2 DEF Past, NoEpoch

LEMMA InitApps ==
  ASSUME Init
  PROVE  AppOk(World, app)
<1>1. app = InitApp
  BY DEF Init
<1>2. AppRecord(InitApp)
  BY DEF AppRecord, InitApp, NewHot
<1>3. AtOk(World, InitApp.at)
  <2>1. \A o \in Transports : Past(World, <<o, Nowhere[o]>>)
    BY InitWorld DEF Transports, Nowhere, NoEpoch, Lifetimes
  <2>2. Nowhere \in [Transports -> Nat]
    BY DEF Nowhere, Transports, NoEpoch
  <2> QED
    BY <2>1, <2>2 DEF AtOk, InitApp
<1>4. LatchOk(World, NoLatch) /\ NoLatch.owner = "None"
  BY DEF LatchOk, NoLatch, Latches, IsLatched, NoEpoch
<1>5. KeysOk(World, InitApp)
  <2>1. DeliveryOk(NewDelivery, {}) /\ NewDelivery.accepted = {} /\ NewDelivery.desired = {}
    BY DEF DeliveryOk, NewDelivery, KeysOf
  <2>2. InitApp.keys = NewDelivery /\ InitApp.held = {} /\ InitApp.latch = NoLatch
    BY DEF InitApp
  <2> QED
    BY <1>4, <2>1, <2>2 DEF KeysOk, IsLatched
<1>6. HotsOk(World, InitApp)
  <2>1. /\ DOMAIN InitApp.hlatch = Bridged
        /\ \A s \in Bridged : InitApp.hot[s] = NewHot /\ InitApp.hlatch[s] = NoLatch
    BY DEF InitApp
  <2>2. NewHot.desired = NoHot /\ NewHot.accepted = NoHot
    BY DEF NewHot
  <2>3. \A s \in Bridged : HotOk(World, NewHot, NoLatch, InitApp.at, InitApp.pc = s)
    BY <1>4, <2>2 DEF HotOk
  <2> QED
    BY <2>1, <2>3 DEF HotsOk
<1> QED
  BY <1>1, <1>2, <1>3, <1>5, <1>6 DEF AppOk

LEMMA InitOk ==
  ASSUME Init
  PROVE  KeyboardOk
<1>1. /\ usb = InitUsb /\ ble = InitBle /\ adapter = InitAdapter
      /\ hosts = [Usb |-> NoView, Ble |-> NoView]
  BY DEF Init
<1>2. Told(World, <<>>)
  BY QueueHasRoom DEF Told
<1>3. UsbOk(World, usb)
  <2>1. UsbRecord(InitUsb) /\ InitUsb.epoch = 0
    BY DEF UsbRecord, InitUsb
  <2>2. OpsOk(World, InitUsb) /\ ShownOk(World, InitUsb)
    BY BoundsAreNumbers DEF OpsOk, ShownOk, InitUsb
  <2>3. InitUsb.keys = <<>> /\ InitUsb.cmds = <<>>
    BY DEF InitUsb
  <2> QED
    BY <1>1, <1>2, <2>1, <2>2, <2>3, InitWorld DEF UsbOk
<1>4. BleOk(World, ble)
  <2>1. BleRecord(InitBle) /\ InitBle.queue = <<>> /\ InitBle.text = NoText
        /\ Recovering(InitBle) = (InitBle.target # NoOwner)
    BY DEF BleRecord, InitBle, Recovering
  <2> QED
    BY <1>1, <1>2, <2>1 DEF BleOk, TextOk
<1>5. HostsOk(World)
  <2>1. HostOk(World, NoView, Life("Usb")) /\ HostOk(World, NoView, Life("Ble"))
    BY DEF HostOk, NoView, ViewRecord
  <2> QED
    BY <1>1, <2>1 DEF HostsOk
<1>6. AdapterOk(adapter)
  BY <1>1 DEF AdapterOk, InitAdapter
<1>7. EnvOk
  <2>1. PICK s \in Scenes :
          env = [left |-> s, born |-> [i \in Inputs |-> {}], behind |-> {}, shared |-> {},
                 late |-> {}]
    BY DEF Init
  <2> QED
    BY <2>1, BoundsAreNumbers DEF EnvOk
<1>8. LinksOk
  <2>1. NoView.live = FALSE /\ InitAdapter.owner = 0 /\ InitApp.pc = "idle"
    BY DEF NoView, InitAdapter, InitApp
  <2>2. app.pc = "idle"
    BY <2>1 DEF Init
  <2>3. hosts.Usb.live = FALSE /\ hosts.Ble.live = FALSE /\ adapter.owner = 0
    BY <1>1, <2>1
  <2> QED
    BY <1>1, <2>2, <2>3 DEF LinksOk
<1> QED
  BY <1>3, <1>4, <1>5, <1>6, <1>7, <1>8, InitApps DEF KeyboardOk

LEMMA QueueIsTyped ==
  ASSUME EnvOk, NEW w, NEW q, Told(w, q)
  PROVE  QueueOk(q)
<1>1. Entries \subseteq Reports
  BY DEF Entries, Reports, Names, EnvOk, Lifetimes, Transports
<1>2. q \in Seq(Entries) /\ Len(q) <= Capacity /\ \A i \in DOMAIN q : q[i] \in Entries
  BY DEF Told, ReportOk
<1> QED
  BY <1>1, <1>2 DEF QueueOk

LEMMA KeyboardIsTyped ==
  ASSUME KeyboardOk
  PROVE  TypeOK
<1>1. EnvOk /\ LinksOk /\ AdapterOk(adapter) /\ KeysOk(World, app)
  BY DEF KeyboardOk, AppOk
<1>2. QueueOk(usb.keys) /\ QueueOk(usb.cmds) /\ QueueOk(ble.queue)
  BY <1>1, QueueIsTyped DEF KeyboardOk, UsbOk, BleOk
<1>3. Len(usb.ops) <= TextQueue /\ Recovering(ble) = (ble.target # NoOwner)
  BY DEF KeyboardOk, UsbOk, OpsOk, BleOk
<1>4. /\ app.held \subseteq DOMAIN Key
      /\ app.keys.pending = (app.keys.desired # app.keys.accepted)
      /\ app.keys.desired = KeysOf(app.held)
      /\ app.latch.owner \in {"None", "Usb", "Ble", "Suppressed"} /\ app.latch.epoch \in Nat
  BY <1>1 DEF KeysOk, DeliveryOk, LatchOk, Latches
<1>5. /\ adapter.owner \in adapter.conns \cup {0} /\ adapter.closing \subseteq adapter.conns
      /\ (hosts.Usb.live => UsbEpoch(usb) # NoEpoch) /\ hosts.Ble.live = (adapter.owner # 0)
  BY <1>1 DEF AdapterOk, LinksOk
<1> QED
  BY <1>2, <1>3, <1>4, <1>5 DEF TypeOK

LEMMA NoHostIsStale ==
  ASSUME KeyboardOk
  PROVE  NoStaleInput
<1>1. \A t \in {"Usb", "Ble"} : HostOk(World, hosts[t], Life(t))
  BY DEF KeyboardOk, HostsOk
<1>2. World.born = env.born /\ World.behind = env.behind
  BY DEF World
<1> QED
  BY <1>1, <1>2 DEF NoStaleInput, HostOk

-----------------------------------------------------------------------------
(* The theorems. *)

LEMMA Invariance == Spec => []KeyboardOk
<1>1. Init => KeyboardOk
  BY InitOk
<1>2. KeyboardOk /\ [Next]_vars => KeyboardOk'
  BY StepOk
<1> QED
  BY <1>1, <1>2, PTL DEF Spec

\* The queues of both transports stay within kHidReportQueueCapacity, whatever is
\* pressed, mounted and disconnected; what is pending is what differs from the
\* snapshot last accepted; a recovery has the owner it is about; and the
\* profile's owner is one of its connections (hid_report_queue.cpp,
\* keyboard_snapshot_delivery.cpp, ble_hid.cpp, nimble_hidd.c).
THEOREM TypeCorrect == Spec => []TypeOK
<1>1. KeyboardOk => TypeOK
  BY KeyboardIsTyped
<1> QED
  BY <1>1, Invariance, PTL

\* No chord, text or hotkey reaches a USB mount or a BLE owner that began after it
\* was pressed, except a hotkey that waited behind another's release
\* (select_for_snapshot and observe_transport_state of transport_routing.cpp,
\* reconcile_keyboard_transport_lifetimes of app_main.cpp, and the clearing of
\* the queues in usb_hid.cpp and ble_hid.cpp).
THEOREM InputsAreFresh == Spec => []NoStaleInput
<1>1. KeyboardOk => NoStaleInput
  BY NoHostIsStale
<1> QED
  BY <1>1, Invariance, PTL

-----------------------------------------------------------------------------
(* What a host is left with.                                               *)

\* The last report of q that is in S is in G as well; if there is none, `base`.
Ends(q, S, G, base) ==
  \/ base /\ \A i \in DOMAIN q : q[i] \notin S
  \/ \E i \in DOMAIN q :
       q[i] \in S \cap G /\ \A j \in DOMAIN q : i < j => q[j] \notin S

Shots(l) == {r \in Entries : IsSnapshot(r) /\ r.own = l}
HotsOf(l, h) == {r \in Entries : IsHotkey(r, h) /\ r.own = l}
Showing(keys) == {r \in Entries : r.keys = keys}
Downs == {r \in Entries : r.class = "CommandPress"}
Ups == {r \in Entries : r.class # "CommandPress"}

\* What the keyboard counts as delivered to the lifetime l.
Owned(a, l) == IF LifeOf(a.latch) = l THEN a.keys.accepted ELSE {}
Has(a, l, s, h) == LifeOf(a.hlatch[s]) = l /\ a.hot[s].accepted = h

\* A host that sees v ends up with that, once it has the queues k and c.
KeysRight(keys, k, l, seen) == Ends(k, Shots(l), Showing(keys), seen = keys)
HotsRight(a, c, l, hot, shared) ==
  \A h \in Hotkeys :
    /\ (\A s \in Bridged : ~Has(a, l, s, h)) => Ends(c, HotsOf(l, h), Ups, h \notin hot)
    /\ (\E s \in Bridged : Has(a, l, s, h)) /\ h \notin shared =>
         Ends(c, HotsOf(l, h), Downs, h \in hot)
Faithful(a, k, c, l, v, shared) ==
  KeysRight(Owned(a, l), k, l, v.keys) /\ HotsRight(a, c, l, v.hot, shared)

Alien(q, l) == \A i \in DOMAIN q : q[i].own # l
HasNone(a, l) == Owned(a, l) = {} /\ \A s \in Bridged, h \in Hotkeys : ~Has(a, l, s, h)
Untouched(a, k, c, l, v) ==
  Alien(k, l) /\ Alien(c, l) /\ v.keys = {} /\ v.hot = {} /\ HasNone(a, l)

\* Each latch names the lifetime that was sampled last.
LatchesOk(a) ==
  ~LifetimeLost(a.latch, a.at) /\ \A s \in Bridged : ~LifetimeLost(a.hlatch[s], a.at)
Wants(d, h) == h \in {d.desired, d.accepted}
SharedOk(a, shared) ==
  \A s, o \in Bridged : \A h \in Hotkeys :
    s # o /\ Wants(a.hot[s], h) /\ Wants(a.hot[o], h) => h \in shared

Dated(q, n) == \A i \in DOMAIN q : q[i].own[2] <= n

\* USB keeps snapshots and commands apart, and clears both when a lifetime has begun.
UsbSide(a, u, v, shared) ==
  /\ Dated(u.keys, u.epoch) /\ Dated(u.cmds, u.epoch)
  /\ \A i \in DOMAIN u.keys : IsSnapshot(u.keys[i])
  /\ \A i \in DOMAIN u.cmds : ~IsSnapshot(u.cmds[i])
  /\ v.live => IF u.reset THEN Untouched(a, u.keys, u.cmds, Usb(u.epoch), v)
               ELSE /\ Faithful(a, u.keys, u.cmds, Usb(u.epoch), v, shared)
                    /\ u.shown = Owned(a, Usb(u.epoch))

\* The owner has not been adopted, or its adoption not been completed.
BleNew(b, owner) ==
  IF Recovering(b) THEN b.target # owner ELSE b.reset \/ b.active # owner

\* A queue that is about to be cleared has nothing for the owner.  One that is not
\* has nothing else, unless the event-loop task's reset is still to come.
OwnOnly(q, l) == \A i \in DOMAIN q : q[i].own = l
BleServes(a, q, new, l, v, shared) ==
  /\ Faithful(a, q, q, l, v, shared)
  /\ new => Alien(q, l)
  /\ ~new /\ helper.pc # "flag" => OwnOnly(q, l)
BleSide(a, b, owner, n, v, shared) ==
  /\ {b.active.gen, b.target.gen} \subseteq 0..n /\ Dated(b.queue, n)
  /\ v.live /\ Recovering(b) =>
       (BleNew(b, owner) => Untouched(a, b.queue, b.queue, Ble(n), v))
  /\ v.live /\ ~Recovering(b) => BleServes(a, b.queue, BleNew(b, owner), Ble(n), v, shared)

\* What the invariant says of the BLE host, which may have lost a report.
Watched == IF Life("Ble") \in env.late THEN NoView ELSE hosts.Ble
HelperOk ==
  helper = [pc |-> helper.pc, snap |-> helper.snap] /\ helper.snap.gen \in 0..adapter.gen
AppSide(a, shared) == LatchesOk(a) /\ SharedOk(a, shared)
Sides(a, u, b, usbView, bleView, shared) ==
  /\ AppSide(a, shared) /\ UsbSide(a, u, usbView, shared)
  /\ BleSide(a, b, AdapterOwner, adapter.gen, bleView, shared)
DeliveredOk == HelperOk /\ Sides(app, usb, ble, hosts.Usb, Watched, env.shared)

-----------------------------------------------------------------------------
(* The last report of a kind. *)

LEMMA EndsNone ==
  ASSUME NEW q, NEW S, NEW G, NEW base, \A i \in DOMAIN q : q[i] \notin S
  PROVE  Ends(q, S, G, base) <=> base
BY DEF Ends

LEMMA EndsPush ==
  ASSUME NEW q \in Seq(Entries), NEW r \in Entries, NEW S, NEW G, r \in S \cap G, NEW base
  PROVE  Ends(Append(q, r), S, G, base)
<1> DEFINE p == Append(q, r)
<1>1. p[Len(q) + 1] = r /\ Len(q) + 1 \in DOMAIN p /\ \A j \in DOMAIN p : ~(Len(q) + 1 < j)
  OBVIOUS
<1> HIDE DEF p
<1> QED
  BY <1>1 DEF Ends, p

LEMMA EndsOther ==
  ASSUME NEW q \in Seq(Entries), NEW s \in Seq(Entries), NEW S, NEW G, NEW base,
         \A i \in DOMAIN s : s[i] \notin S, Ends(q, S, G, base)
  PROVE  Ends(q \o s, S, G, base)
<1> DEFINE p == q \o s
<1>1. /\ DOMAIN q \subseteq DOMAIN p /\ \A i \in DOMAIN q : p[i] = q[i]
      /\ \A i \in DOMAIN p : i \in DOMAIN q \/ p[i] \notin S
  <2>1. \A i \in DOMAIN p : i \in DOMAIN q \/ (i - Len(q) \in DOMAIN s /\ p[i] = s[i - Len(q)])
    OBVIOUS
  <2> QED
    BY <2>1
<1> HIDE DEF p
<1> QED
  BY <1>1 DEF Ends, p

LEMMA EndsPop ==
  ASSUME NEW q \in Seq(Entries), q # <<>>, NEW S, NEW G, NEW base, Ends(q, S, G, base)
  PROVE  Ends(Tail(q), S, G, IF Head(q) \in S THEN Head(q) \in G ELSE base)
<1> DEFINE p == Tail(q)
<1>1. /\ Len(q) \in Nat /\ Len(q) > 0 /\ Head(q) = q[1] /\ DOMAIN q = 1..Len(q)
      /\ DOMAIN p = 1..Len(q) - 1 /\ \A i \in 1..Len(q) - 1 : p[i] = q[i + 1]
  OBVIOUS
<1> HIDE DEF p
<1>2. CASE base /\ \A i \in DOMAIN q : q[i] \notin S
  <2>1. \A i \in DOMAIN p : p[i] \notin S
    BY <1>1, <1>2
  <2>2. Head(q) \notin S
    BY <1>1, <1>2
  <2> QED
    BY <1>2, <2>1, <2>2 DEF Ends, p
<1>3. CASE \E i \in DOMAIN q : q[i] \in S \cap G /\ \A j \in DOMAIN q : i < j => q[j] \notin S
  <2>1. PICK i \in DOMAIN q : q[i] \in S \cap G /\ \A j \in DOMAIN q : i < j => q[j] \notin S
    BY <1>3
  <2>2. CASE i = 1
    <3>1. \A j \in DOMAIN p : p[j] \notin S
      BY <1>1, <2>1, <2>2
    <3> QED
      BY <1>1, <2>1, <2>2, <3>1 DEF Ends, p
  <2>3. CASE i # 1
    <3>1. i - 1 \in DOMAIN p /\ p[i - 1] = q[i]
      BY <1>1, <2>3
    <3>2. \A j \in DOMAIN p : i - 1 < j => p[j] \notin S
      BY <1>1, <2>1
    <3> QED
      BY <2>1, <3>1, <3>2 DEF Ends, p
  <2> QED
    BY <2>2, <2>3
<1> QED
  BY <1>2, <1>3 DEF Ends

\* A report coalesces with an equal one.
LEMMA EndsPushed ==
  ASSUME NEW q \in Seq(Entries), NEW r \in Entries, IsSnapshot(r), NEW base
  PROVE  Ends(Pushed(q, r), Shots(r.own), Showing(r.keys), base)
<1>1. CASE Coalesces(q, r)
  <2>1. /\ Pushed(q, r) = q /\ q # <<>> /\ IsSnapshot(q[Len(q)]) /\ q[Len(q)].keys = r.keys
        /\ q[Len(q)].own = r.own
    BY <1>1 DEF Coalesces, Pushed
  <2>2. Len(q) \in DOMAIN q /\ q[Len(q)] \in Entries /\ \A j \in DOMAIN q : ~(Len(q) < j)
    BY <2>1
  <2> QED
    BY <2>1, <2>2 DEF Ends, Shots, Showing
<1>2. CASE ~Coalesces(q, r)
  BY <1>2, EndsPush DEF Pushed, Shots, Showing
<1> QED
  BY <1>1, <1>2

LEMMA EndsBase ==
  ASSUME NEW q, NEW S, NEW G, NEW base, Ends(q, S, G, base), NEW other, base => other
  PROVE  Ends(q, S, G, other)
BY DEF Ends

-----------------------------------------------------------------------------
(* What the keyboard counts as delivered changes for some lifetimes only.  *)

SameFor(a, b, l) ==
  /\ Owned(b, l) = Owned(a, l)
  /\ \A s \in Bridged, h \in Hotkeys : Has(b, l, s, h) <=> Has(a, l, s, h)
LessFor(a, b, l) ==
  /\ Owned(b, l) \in {Owned(a, l), {}}
  /\ \A s \in Bridged, h \in Hotkeys : Has(b, l, s, h) => Has(a, l, s, h)

LEMMA SameIsLess ==
  ASSUME NEW a, NEW b, NEW l, SameFor(a, b, l)
  PROVE  LessFor(a, b, l)
BY DEF SameFor, LessFor

LEMMA SameChain ==
  ASSUME NEW a, NEW b, NEW c, NEW l
  PROVE  /\ SameFor(a, b, l) /\ SameFor(b, c, l) => SameFor(a, c, l)
         /\ LessFor(a, b, l) /\ LessFor(b, c, l) => LessFor(a, c, l)
BY DEF SameFor, LessFor

LEMMA FaithfulKept ==
  ASSUME NEW a, NEW b, NEW l, SameFor(a, b, l), NEW sh, NEW th, sh \subseteq th,
         NEW k, NEW c, NEW v, Faithful(a, k, c, l, v, sh)
  PROVE  Faithful(b, k, c, l, v, th)
<1>1. KeysRight(Owned(b, l), k, l, v.keys)
  BY DEF Faithful, SameFor
<1>2. HotsRight(b, c, l, v.hot, th)
  <2> SUFFICES ASSUME NEW h \in Hotkeys
               PROVE  /\ (\A s \in Bridged : ~Has(b, l, s, h)) =>
                           Ends(c, HotsOf(l, h), Ups, h \notin v.hot)
                      /\ (\E s \in Bridged : Has(b, l, s, h)) /\ h \notin th =>
                           Ends(c, HotsOf(l, h), Downs, h \in v.hot)
    BY DEF HotsRight
  <2>1. \A s \in Bridged : Has(b, l, s, h) <=> Has(a, l, s, h)
    BY DEF SameFor
  <2>2. /\ (\A s \in Bridged : ~Has(a, l, s, h)) => Ends(c, HotsOf(l, h), Ups, h \notin v.hot)
        /\ (\E s \in Bridged : Has(a, l, s, h)) /\ h \notin sh =>
             Ends(c, HotsOf(l, h), Downs, h \in v.hot)
    BY DEF Faithful, HotsRight
  <2> QED
    BY <2>1, <2>2
<1> QED
  BY <1>1, <1>2 DEF Faithful

LEMMA UntouchedKept ==
  ASSUME NEW a, NEW b, NEW l, LessFor(a, b, l), NEW k, NEW c, NEW v, Untouched(a, k, c, l, v)
  PROVE  Untouched(b, k, c, l, v)
BY DEF Untouched, HasNone, LessFor

\* Nothing was sent, and nothing is counted.
LEMMA UntouchedIsFaithful ==
  ASSUME NEW a, NEW l, NEW k, NEW c, NEW v, NEW sh, Untouched(a, k, c, l, v)
  PROVE  Faithful(a, k, c, l, v, sh)
<1>1. (\A i \in DOMAIN k : k[i] \notin Shots(l)) /\ v.keys = Owned(a, l)
  BY DEF Untouched, Alien, HasNone, Shots
<1>2. KeysRight(Owned(a, l), k, l, v.keys)
  BY <1>1 DEF KeysRight, Ends
<1>3. ASSUME NEW h \in Hotkeys
      PROVE  (\A i \in DOMAIN c : c[i] \notin HotsOf(l, h)) /\ h \notin v.hot
             /\ \A s \in Bridged : ~Has(a, l, s, h)
  BY DEF Untouched, Alien, HasNone, HotsOf
<1>4. HotsRight(a, c, l, v.hot, sh)
  BY <1>3 DEF HotsRight, Ends
<1> QED
  BY <1>2, <1>4 DEF Faithful

LEMMA UntouchedCleared ==
  ASSUME NEW a, NEW l, NEW k, NEW c, NEW v, Untouched(a, k, c, l, v)
  PROVE  Untouched(a, <<>>, <<>>, l, v)
BY DEF Untouched, Alien

\* A queue without a report for the host decides nothing for it.
LEMMA FaithfulCleared ==
  ASSUME NEW a, NEW l, NEW c, Alien(c, l), NEW v, NEW sh, Faithful(a, c, c, l, v, sh)
  PROVE  Faithful(a, <<>>, <<>>, l, v, sh)
<1>1. /\ \A i \in DOMAIN c : c[i] \notin Shots(l)
      /\ \A h \in Hotkeys : \A i \in DOMAIN c : c[i] \notin HotsOf(l, h)
  BY DEF Alien, Shots, HotsOf
<1>2. ASSUME NEW S, NEW G, NEW base, \A i \in DOMAIN c : c[i] \notin S, Ends(c, S, G, base)
      PROVE  Ends(<<>>, S, G, base)
  BY <1>2 DEF Ends
<1>3. KeysRight(Owned(a, l), <<>>, l, v.keys)
  BY <1>1, <1>2 DEF Faithful, KeysRight
<1>4. HotsRight(a, <<>>, l, v.hot, sh)
  BY <1>1, <1>2 DEF Faithful, HotsRight
<1> QED
  BY <1>3, <1>4 DEF Faithful

\* The application's account moves on, the transport stays.
LEMMA UsbSideKept ==
  ASSUME NEW a, NEW b, NEW u, NEW v, NEW sh, NEW th, sh \subseteq th, UsbSide(a, u, v, sh),
         v.live => SameFor(a, b, Usb(u.epoch))
  PROVE  UsbSide(b, u, v, th)
<1> DEFINE l == Usb(u.epoch)
<1>1. v.live => IF u.reset THEN Untouched(a, u.keys, u.cmds, l, v)
                ELSE Faithful(a, u.keys, u.cmds, l, v, sh) /\ u.shown = Owned(a, l)
  BY DEF UsbSide
<1> HIDE DEF l
<1>2. v.live => IF u.reset THEN Untouched(b, u.keys, u.cmds, l, v)
                ELSE Faithful(b, u.keys, u.cmds, l, v, th) /\ u.shown = Owned(b, l)
  <2> SUFFICES ASSUME v.live
               PROVE  IF u.reset THEN Untouched(b, u.keys, u.cmds, l, v)
                      ELSE Faithful(b, u.keys, u.cmds, l, v, th) /\ u.shown = Owned(b, l)
    OBVIOUS
  <2>1. SameFor(a, b, l) /\ LessFor(a, b, l)
    BY SameIsLess DEF l
  <2>2. CASE u.reset
    BY <1>1, <2>1, <2>2, UntouchedKept
  <2>3. CASE ~u.reset
    BY <1>1, <2>1, <2>3, FaithfulKept DEF SameFor
  <2> QED
    BY <2>2, <2>3
<1> QED
  BY <1>2 DEF UsbSide, l

LEMMA BleSideKept ==
  ASSUME NEW a, NEW b, NEW c, NEW owner, NEW n, NEW v, NEW sh, NEW th, sh \subseteq th,
         BleSide(a, c, owner, n, v, sh), LessFor(a, b, Ble(n)),
         v.live /\ ~Recovering(c) => SameFor(a, b, Ble(n))
  PROVE  BleSide(b, c, owner, n, v, th)
<1> DEFINE l == Ble(n)
           q == c.queue
           new == BleNew(c, owner)
<1>1. v.live /\ Recovering(c) => (new => Untouched(b, q, q, l, v))
  BY UntouchedKept DEF BleSide
<1>2. v.live /\ ~Recovering(c) => BleServes(a, q, new, l, v, sh) /\ SameFor(a, b, l)
  BY DEF BleSide
<1> HIDE DEF l, new, q
<1>3. v.live /\ ~Recovering(c) => BleServes(b, q, new, l, v, th)
  BY <1>2, FaithfulKept DEF BleServes
<1> QED
  BY <1>1, <1>3 DEF BleSide, l, new, q

-----------------------------------------------------------------------------
(* Reports that are queued, sent and dropped. *)

LEMMA ViewTakes ==
  ASSUME NEW v, ViewRecord(v), NEW r \in Entries
  PROVE  /\ Taken(v, r).live = v.live
         /\ Taken(v, r).keys = IF IsSnapshot(r) THEN r.keys ELSE v.keys
         /\ Taken(v, r).hot =
              CASE r.class = "CommandPress" -> v.hot \cup {r.hot}
                [] r.class = "CommandRelease" -> v.hot \ {r.hot}
                [] OTHER -> v.hot
<1>1. CASE IsSnapshot(r)
  BY <1>1 DEF Taken, ViewRecord, IsSnapshot
<1>2. CASE r.class = "CommandPress"
  BY <1>2 DEF Taken, ViewRecord, IsSnapshot
<1>3. CASE r.class = "CommandRelease"
  BY <1>3 DEF Taken, ViewRecord, IsSnapshot
<1>4. CASE r.class = "Command"
  BY <1>4 DEF Taken, ViewRecord, IsSnapshot
<1> QED
  BY <1>1, <1>2, <1>3, <1>4 DEF Entries, IsSnapshot

LEMMA HeadIsEntry ==
  ASSUME NEW q \in Seq(Entries), q # <<>>
  PROVE  Head(q) \in Entries
OBVIOUS

LEMMA KeysTaken ==
  ASSUME NEW q \in Seq(Entries), q # <<>>, NEW l, Head(q).own = l, NEW v, ViewRecord(v), NEW keys,
         KeysRight(keys, q, l, v.keys)
  PROVE  KeysRight(keys, Tail(q), l, Taken(v, Head(q)).keys)
<1> DEFINE r == Head(q)
           t == Taken(v, r)
<1>1. r \in Entries
  BY HeadIsEntry
<1>2. Ends(Tail(q), Shots(l), Showing(keys),
           IF r \in Shots(l) THEN r \in Showing(keys) ELSE v.keys = keys)
  BY EndsPop DEF KeysRight
<1>3. t.keys = IF IsSnapshot(r) THEN r.keys ELSE v.keys
  BY <1>1, ViewTakes
<1>4. (IF r \in Shots(l) THEN r \in Showing(keys) ELSE v.keys = keys) => t.keys = keys
  BY <1>1, <1>3 DEF Shots, Showing
<1> HIDE DEF r, t
<1>5. Ends(Tail(q), Shots(l), Showing(keys), t.keys = keys)
  BY <1>2, <1>4 DEF Ends
<1> QED
  BY <1>5 DEF KeysRight, r, t

LEMMA KeysDropped ==
  ASSUME NEW q \in Seq(Entries), q # <<>>, NEW l, NEW seen, NEW keys,
         Head(q).own # l \/ ~IsSnapshot(Head(q)), KeysRight(keys, q, l, seen)
  PROVE  KeysRight(keys, Tail(q), l, seen)
<1>1. Ends(Tail(q), Shots(l), Showing(keys),
           IF Head(q) \in Shots(l) THEN Head(q) \in Showing(keys) ELSE seen = keys)
  BY EndsPop DEF KeysRight
<1>2. Head(q) \notin Shots(l)
  BY DEF Shots
<1> QED
  BY <1>1, <1>2 DEF KeysRight

LEMMA HotsTaken ==
  ASSUME NEW q \in Seq(Entries), q # <<>>, NEW l, Head(q).own = l, NEW v, ViewRecord(v), NEW a,
         NEW sh, HotsRight(a, q, l, v.hot, sh)
  PROVE  HotsRight(a, Tail(q), l, Taken(v, Head(q)).hot, sh)
<1> DEFINE r == Head(q)
           hot == Taken(v, r).hot
<1>1. r \in Entries
  BY HeadIsEntry
<1>2. hot = CASE r.class = "CommandPress" -> v.hot \cup {r.hot}
              [] r.class = "CommandRelease" -> v.hot \ {r.hot}
              [] OTHER -> v.hot
  BY <1>1, ViewTakes
<1>3. r.own = l
  OBVIOUS
<1> HIDE DEF hot
<1>4. ASSUME NEW h \in Hotkeys
      PROVE  /\ (IF r \in HotsOf(l, h) THEN r \in Ups ELSE h \notin v.hot) => h \notin hot
             /\ (IF r \in HotsOf(l, h) THEN r \in Downs ELSE h \in v.hot) => h \in hot
  <2> HIDE DEF r
  <2>1. CASE r.class = "CommandPress"
    BY <1>1, <1>2, <1>3, <2>1 DEF HotsOf, IsHotkey, Ups, Downs
  <2>2. CASE r.class = "CommandRelease"
    BY <1>1, <1>2, <1>3, <2>2 DEF HotsOf, IsHotkey, Ups, Downs
  <2>3. CASE r.class \notin {"CommandPress", "CommandRelease"}
    BY <1>1, <1>2, <1>3, <2>3 DEF HotsOf, IsHotkey, Ups, Downs
  <2> QED
    BY <2>1, <2>2, <2>3
<1>5. ASSUME NEW h \in Hotkeys, NEW G, NEW base, Ends(q, HotsOf(l, h), G, base)
      PROVE  Ends(Tail(q), HotsOf(l, h), G, IF r \in HotsOf(l, h) THEN r \in G ELSE base)
  BY <1>5, EndsPop
<1> HIDE DEF r
<1>6. ASSUME NEW h \in Hotkeys
      PROVE  /\ Ends(q, HotsOf(l, h), Ups, h \notin v.hot) =>
                  Ends(Tail(q), HotsOf(l, h), Ups, h \notin hot)
             /\ Ends(q, HotsOf(l, h), Downs, h \in v.hot) =>
                  Ends(Tail(q), HotsOf(l, h), Downs, h \in hot)
  <2>1. ASSUME Ends(q, HotsOf(l, h), Ups, h \notin v.hot)
        PROVE  Ends(Tail(q), HotsOf(l, h), Ups, h \notin hot)
    <3>1. Ends(Tail(q), HotsOf(l, h), Ups, IF r \in HotsOf(l, h) THEN r \in Ups ELSE h \notin v.hot)
      BY <1>5, <2>1
    <3> QED
      BY <1>4, <3>1 DEF Ends
  <2>2. ASSUME Ends(q, HotsOf(l, h), Downs, h \in v.hot)
        PROVE  Ends(Tail(q), HotsOf(l, h), Downs, h \in hot)
    <3>1. Ends(Tail(q), HotsOf(l, h), Downs, IF r \in HotsOf(l, h) THEN r \in Downs ELSE h \in v.hot)
      BY <1>5, <2>2
    <3> QED
      BY <1>4, <3>1 DEF Ends
  <2> QED
    BY <2>1, <2>2
<1>7. HotsRight(a, Tail(q), l, hot, sh)
  BY <1>6 DEF HotsRight
<1> QED
  BY <1>7 DEF hot, r

LEMMA HotsDropped ==
  ASSUME NEW q \in Seq(Entries), q # <<>>, NEW l, NEW a, NEW hot, NEW sh,
         Head(q).own # l \/ Head(q).class \notin {"CommandPress", "CommandRelease"},
         HotsRight(a, q, l, hot, sh)
  PROVE  HotsRight(a, Tail(q), l, hot, sh)
<1>1. ASSUME NEW h \in Hotkeys, NEW G, NEW base, Ends(q, HotsOf(l, h), G, base)
      PROVE  Ends(Tail(q), HotsOf(l, h), G, base)
  <2>1. Ends(Tail(q), HotsOf(l, h), G, IF Head(q) \in HotsOf(l, h) THEN Head(q) \in G ELSE base)
    BY <1>1, EndsPop
  <2>2. Head(q) \notin HotsOf(l, h)
    BY DEF HotsOf, IsHotkey
  <2> QED
    BY <2>1, <2>2
<1> QED
  BY <1>1 DEF HotsRight

LEMMA KeysAppended ==
  ASSUME NEW q \in Seq(Entries), NEW s \in Seq(Entries), NEW l, NEW keys, NEW seen,
         \A i \in DOMAIN s : ~IsSnapshot(s[i]), KeysRight(keys, q, l, seen)
  PROVE  KeysRight(keys, q \o s, l, seen)
<1>1. \A i \in DOMAIN s : s[i] \notin Shots(l)
  BY DEF Shots
<1> QED
  BY <1>1, EndsOther DEF KeysRight

LEMMA HotsAppended ==
  ASSUME NEW q \in Seq(Entries), NEW s \in Seq(Entries), NEW l, NEW a, NEW hot, NEW sh,
         \A i \in DOMAIN s : s[i].class \notin {"CommandPress", "CommandRelease"},
         HotsRight(a, q, l, hot, sh)
  PROVE  HotsRight(a, q \o s, l, hot, sh)
<1>1. \A h \in Hotkeys : \A i \in DOMAIN s : s[i] \notin HotsOf(l, h)
  BY DEF HotsOf, IsHotkey
<1>2. ASSUME NEW h \in Hotkeys, NEW G, NEW base, Ends(q, HotsOf(l, h), G, base)
      PROVE  Ends(q \o s, HotsOf(l, h), G, base)
  BY <1>1, <1>2, EndsOther
<1> QED
  BY <1>2 DEF HotsRight

LEMMA AppendIsConcat ==
  ASSUME NEW q \in Seq(Entries), NEW r \in Entries
  PROVE  \E s \in Seq(Entries) : Append(q, r) = q \o s /\ \A i \in DOMAIN s : s[i] = r
<1>1. /\ Append(q, r) = q \o <<r>> /\ <<r>> \in Seq(Entries)
      /\ \A i \in DOMAIN <<r>> : <<r>>[i] = r
  OBVIOUS
<1> QED
  BY <1>1

\* A snapshot says nothing of the hotkeys, nor a hotkey of the snapshot.
LEMMA HotsBeforeKeys ==
  ASSUME NEW q \in Seq(Entries), NEW r \in Entries, IsSnapshot(r), NEW l, NEW a, NEW hot, NEW sh,
         HotsRight(a, q, l, hot, sh)
  PROVE  HotsRight(a, Pushed(q, r), l, hot, sh)
<1>1. r.class \notin {"CommandPress", "CommandRelease"}
  BY DEF IsSnapshot
<1>2. PICK s \in Seq(Entries) : Append(q, r) = q \o s /\ \A i \in DOMAIN s : s[i] = r
  BY AppendIsConcat
<1>3. \A i \in DOMAIN s : s[i].class \notin {"CommandPress", "CommandRelease"}
  BY <1>1, <1>2
<1>4. HotsRight(a, Append(q, r), l, hot, sh)
  BY <1>2, <1>3, HotsAppended
<1> QED
  BY <1>4 DEF Pushed

LEMMA KeysBeforeHot ==
  ASSUME NEW q \in Seq(Entries), NEW r \in Entries, ~IsSnapshot(r), NEW l, NEW keys, NEW seen,
         KeysRight(keys, q, l, seen)
  PROVE  KeysRight(keys, Append(q, r), l, seen)
<1>1. PICK s \in Seq(Entries) : Append(q, r) = q \o s /\ \A i \in DOMAIN s : s[i] = r
  BY AppendIsConcat
<1>2. \A i \in DOMAIN s : ~IsSnapshot(s[i])
  BY <1>1
<1> QED
  BY <1>1, <1>2, KeysAppended

\* A hotkey of the key s goes down or up.
Moves(a, b, l, s, r) ==
  /\ \A o \in Bridged, h \in Hotkeys : h # r.hot \/ o # s => (Has(b, l, o, h) <=> Has(a, l, o, h))
  /\ Has(b, l, s, r.hot) <=> r.class = "CommandPress"

LEMMA HotsQueued ==
  ASSUME NEW q \in Seq(Entries), NEW r \in Entries, r.class \in {"CommandPress", "CommandRelease"},
         NEW s \in Bridged, NEW l, r.own = l, NEW a, NEW b, NEW hot, NEW sh, Moves(a, b, l, s, r),
         r.class = "CommandRelease" =>
           \A o \in Bridged \ {s} : Has(a, l, o, r.hot) => r.hot \in sh,
         HotsRight(a, q, l, hot, sh)
  PROVE  HotsRight(b, Append(q, r), l, hot, sh)
<1> SUFFICES ASSUME NEW h \in Hotkeys
             PROVE  /\ (\A o \in Bridged : ~Has(b, l, o, h)) =>
                         Ends(Append(q, r), HotsOf(l, h), Ups, h \notin hot)
                    /\ (\E o \in Bridged : Has(b, l, o, h)) /\ h \notin sh =>
                         Ends(Append(q, r), HotsOf(l, h), Downs, h \in hot)
  BY DEF HotsRight
<1>1. CASE h # r.hot
  <2>1. \A o \in Bridged : Has(b, l, o, h) <=> Has(a, l, o, h)
    BY <1>1 DEF Moves
  <2>2. /\ (\A o \in Bridged : ~Has(a, l, o, h)) => Ends(q, HotsOf(l, h), Ups, h \notin hot)
        /\ (\E o \in Bridged : Has(a, l, o, h)) /\ h \notin sh =>
             Ends(q, HotsOf(l, h), Downs, h \in hot)
    BY DEF HotsRight
  <2>3. r \notin HotsOf(l, h)
    BY <1>1 DEF HotsOf, IsHotkey
  <2>4. ASSUME NEW G, NEW base, Ends(q, HotsOf(l, h), G, base)
        PROVE  Ends(Append(q, r), HotsOf(l, h), G, base)
    <3>1. PICK e \in Seq(Entries) : Append(q, r) = q \o e /\ \A i \in DOMAIN e : e[i] = r
      BY AppendIsConcat
    <3>2. \A i \in DOMAIN e : e[i] \notin HotsOf(l, h)
      BY <2>3, <3>1
    <3>3. Ends(q \o e, HotsOf(l, h), G, base)
      BY <2>4, <3>2, EndsOther
    <3> QED
      BY <3>1, <3>3
  <2> QED
    BY <2>1, <2>2, <2>4
<1>2. CASE h = r.hot /\ r.class = "CommandPress"
  <2>1. Has(b, l, s, h)
    BY <1>2 DEF Moves
  <2>2. r \in HotsOf(l, h) \cap Downs
    BY <1>2 DEF HotsOf, IsHotkey, Downs
  <2> QED
    BY <2>1, <2>2, EndsPush
<1>3. CASE h = r.hot /\ r.class = "CommandRelease"
  <2>1. ~Has(b, l, s, h)
    BY <1>3 DEF Moves
  <2>2. r \in HotsOf(l, h) \cap Ups
    BY <1>3 DEF HotsOf, IsHotkey, Ups
  <2>3. ASSUME NEW o \in Bridged, Has(b, l, o, h)
        PROVE  h \in sh
    BY <1>3, <2>1, <2>3 DEF Moves
  <2> QED
    BY <2>2, <2>3, EndsPush
<1> QED
  BY <1>1, <1>2, <1>3

-----------------------------------------------------------------------------
(* USB. *)

LEMMA DatedGrows ==
  ASSUME NEW q \in Seq(Entries), NEW n \in Nat, Dated(q, n)
  PROVE  /\ \A r \in Entries : r.own[2] <= n => Dated(Append(q, r), n) /\ Dated(Pushed(q, r), n)
         /\ \A s \in Seq(Entries) : Dated(s, n) => Dated(q \o s, n)
         /\ q # <<>> => Dated(Tail(q), n)
         /\ \A m \in Nat : n <= m => Dated(q, m)
<1>1. \A r \in Entries : r.own[2] <= n => Dated(Append(q, r), n)
  <2> SUFFICES ASSUME NEW r \in Entries, r.own[2] <= n, NEW i \in DOMAIN Append(q, r)
               PROVE  Append(q, r)[i].own[2] <= n
    BY DEF Dated
  <2>1. Append(q, r)[i] = r \/ (i \in DOMAIN q /\ Append(q, r)[i] = q[i])
    OBVIOUS
  <2> QED
    BY <2>1 DEF Dated
<1>2. \A s \in Seq(Entries) : Dated(s, n) => Dated(q \o s, n)
  <2> SUFFICES ASSUME NEW s \in Seq(Entries), Dated(s, n), NEW i \in DOMAIN (q \o s)
               PROVE  (q \o s)[i].own[2] <= n
    BY DEF Dated
  <2>1. \/ i \in DOMAIN q /\ (q \o s)[i] = q[i]
        \/ i - Len(q) \in DOMAIN s /\ (q \o s)[i] = s[i - Len(q)]
    OBVIOUS
  <2> QED
    BY <2>1 DEF Dated
<1>3. q # <<>> => Dated(Tail(q), n)
  <2>1. q # <<>> => \A i \in DOMAIN Tail(q) : i + 1 \in DOMAIN q /\ Tail(q)[i] = q[i + 1]
    OBVIOUS
  <2> QED
    BY <2>1 DEF Dated
<1>4. \A i \in DOMAIN q : q[i].own[2] \in Nat
  <2>1. \A r \in Entries : r.own[2] \in Nat
    BY DEF Entries, Lifetimes
  <2> QED
    BY <2>1
<1>5. \A m \in Nat : n <= m => Dated(q, m)
  BY <1>4 DEF Dated
<1> QED
  BY <1>1, <1>2, <1>3, <1>5 DEF Pushed

LEMMA AlienTail ==
  ASSUME NEW q \in Seq(Entries), q # <<>>, NEW l, Alien(q, l)
  PROVE  Alien(Tail(q), l) /\ Head(q).own # l
<1>1. \A i \in DOMAIN Tail(q) : i + 1 \in DOMAIN q /\ Tail(q)[i] = q[i + 1]
  OBVIOUS
<1>2. 1 \in DOMAIN q /\ Head(q) = q[1]
  OBVIOUS
<1> QED
  BY <1>1, <1>2 DEF Alien

LEMMA UsbSideSame ==
  ASSUME NEW a, NEW u, NEW v, NEW sh, UsbSide(a, u, v, sh), NEW x, x.keys = u.keys,
         x.cmds = u.cmds, x.shown = u.shown, x.reset <=> u.reset, x.epoch = u.epoch
  PROVE  UsbSide(a, x, v, sh)
BY DEF UsbSide

\* A cleared queue owes an untouched host nothing.
LEMMA UsbSideCleared ==
  ASSUME NEW a, NEW u, NEW v, NEW sh, UsbSide(a, u, v, sh), v.live => u.reset, NEW x,
         x.keys = <<>>, x.cmds = <<>>, x.shown = {}, x.epoch = u.epoch
  PROVE  UsbSide(a, x, v, sh)
<1> DEFINE l == Usb(u.epoch)
<1>1. v.live => Untouched(a, u.keys, u.cmds, l, v)
  BY DEF UsbSide
<1> HIDE DEF l
<1>2. v.live => Untouched(a, <<>>, <<>>, l, v) /\ Owned(a, l) = {}
  BY <1>1, UntouchedCleared DEF Untouched, HasNone
<1>3. v.live => Faithful(a, <<>>, <<>>, l, v, sh)
  BY <1>2, UntouchedIsFaithful
<1>4. \A i \in DOMAIN <<>> : FALSE
  OBVIOUS
<1> QED
  BY <1>2, <1>3, <1>4 DEF UsbSide, Dated, l

LEMMA UsbReadySide ==
  ASSUME NEW w, NEW u, UsbOk(w, u), NEW a, NEW v, NEW sh, UsbSide(a, u, v, sh)
  PROVE  UsbSide(a, UsbReady(u), v, sh)
<1>1. CASE u.reset
  <2> DEFINE c == UsbCleared(u)
             x == [c EXCEPT !.reset = FALSE]
  <2>1. UsbReady(u) = x
    BY <1>1 DEF UsbReady
  <2>2. /\ UsbRecord(c)
        /\ c.keys = <<>> /\ c.cmds = <<>> /\ c.shown = {} /\ c.epoch = u.epoch
    BY UsbClearedOk DEF Usable, UsbOk, UsbRecord, UsbCleared, SamePort
  <2> HIDE DEF c
  <2>3. x.keys = <<>> /\ x.cmds = <<>> /\ x.shown = {} /\ x.epoch = u.epoch
    BY <2>2 DEF UsbRecord
  <2> HIDE DEF x
  <2> QED
    BY <1>1, <2>1, <2>3, UsbSideCleared
<1>2. CASE ~u.reset
  BY <1>2 DEF UsbReady
<1> QED
  BY <1>1, <1>2

\* A chord joins the queue.
LEMMA UsbSideChord ==
  ASSUME NEW w, NEW u, UsbOk(w, u), u.reset = FALSE, NEW a, NEW b, NEW v, NEW sh,
         UsbSide(a, u, v, sh), NEW r \in Entries, IsSnapshot(r), r.own = Usb(u.epoch),
         Owned(b, Usb(u.epoch)) = r.keys,
         \A s \in Bridged, h \in Hotkeys : Has(b, Usb(u.epoch), s, h) <=> Has(a, Usb(u.epoch), s, h),
         NEW x, x.keys = Pushed(u.keys, r), x.cmds = u.cmds, x.shown = r.keys,
         x.reset = u.reset, x.epoch = u.epoch
  PROVE  UsbSide(b, x, v, sh)
<1> DEFINE l == Usb(u.epoch)
           q == Pushed(u.keys, r)
<1>1. u.keys \in Seq(Entries) /\ u.epoch \in Nat
  BY DEF UsbOk, Told
<1>2. r.own[2] <= u.epoch
  BY <1>1 DEF Usb
<1>3. Dated(q, u.epoch)
  BY <1>1, <1>2, DatedGrows DEF UsbSide
<1>4. \A i \in DOMAIN q : IsSnapshot(q[i])
  <2>1. \A i \in DOMAIN u.keys : IsSnapshot(u.keys[i])
    BY DEF UsbSide
  <2>2. \A i \in DOMAIN Append(u.keys, r) :
          Append(u.keys, r)[i] = r \/ (i \in DOMAIN u.keys /\ Append(u.keys, r)[i] = u.keys[i])
    BY <1>1
  <2> QED
    BY <2>1, <2>2 DEF Pushed
<1>5. KeysRight(r.keys, q, l, v.keys)
  BY <1>1, EndsPushed DEF KeysRight
<1>6. v.live => HotsRight(a, u.cmds, l, v.hot, sh)
  BY DEF UsbSide, Faithful
<1>7. v.live => HotsRight(b, u.cmds, l, v.hot, sh)
  BY <1>6 DEF HotsRight
<1>8. v.live => Faithful(b, q, u.cmds, l, v, sh) /\ r.keys = Owned(b, l)
  BY <1>5, <1>7 DEF Faithful
<1> HIDE DEF l, q
<1> QED
  BY <1>3, <1>4, <1>8 DEF UsbSide, l, q

\* A hotkey joins the queue.
LEMMA UsbSideHot ==
  ASSUME NEW w, NEW u, UsbOk(w, u), u.reset = FALSE, NEW a, NEW b, NEW v, NEW sh,
         UsbSide(a, u, v, sh), NEW r \in Entries, r.class \in {"CommandPress", "CommandRelease"},
         r.own = Usb(u.epoch), Owned(b, Usb(u.epoch)) = Owned(a, Usb(u.epoch)),
         NEW s \in Bridged, Moves(a, b, Usb(u.epoch), s, r),
         r.class = "CommandRelease" =>
           \A o \in Bridged \ {s} : Has(a, Usb(u.epoch), o, r.hot) => r.hot \in sh,
         NEW x, x.keys = u.keys, x.cmds = Append(u.cmds, r), x.shown = u.shown,
         x.reset = u.reset, x.epoch = u.epoch
  PROVE  UsbSide(b, x, v, sh)
<1> DEFINE l == Usb(u.epoch)
           q == Append(u.cmds, r)
<1>1. u.cmds \in Seq(Entries) /\ u.epoch \in Nat
  BY DEF UsbOk, Told
<1>2. r.own[2] <= u.epoch /\ ~IsSnapshot(r)
  BY <1>1 DEF Usb, IsSnapshot
<1>3. Dated(q, u.epoch)
  BY <1>1, <1>2, DatedGrows DEF UsbSide
<1>4. \A i \in DOMAIN q : ~IsSnapshot(q[i])
  <2>1. \A i \in DOMAIN u.cmds : ~IsSnapshot(u.cmds[i])
    BY DEF UsbSide
  <2>2. \A i \in DOMAIN q : q[i] = r \/ (i \in DOMAIN u.cmds /\ q[i] = u.cmds[i])
    BY <1>1
  <2> QED
    BY <1>2, <2>1, <2>2
<1>6. v.live => /\ KeysRight(Owned(a, l), u.keys, l, v.keys) /\ HotsRight(a, u.cmds, l, v.hot, sh)
                /\ u.shown = Owned(a, l)
  BY DEF UsbSide, Faithful
<1>7. v.live => HotsRight(b, q, l, v.hot, sh)
  BY <1>1, <1>6, HotsQueued
<1>8. v.live => Faithful(b, u.keys, q, l, v, sh) /\ u.shown = Owned(b, l)
  BY <1>6, <1>7 DEF Faithful
<1> HIDE DEF l, q
<1> QED
  BY <1>3, <1>4, <1>8 DEF UsbSide, l, q

LEMMA UsbPumpedSide ==
  ASSUME NEW w, NEW u, UsbOk(w, u), u.reset = FALSE, NEW a, NEW v, NEW sh, UsbSide(a, u, v, sh)
  PROVE  UsbSide(a, UsbPumped(u), v, sh)
<1>1. CASE u.keys # <<>> \/ u.ops = <<>> \/ ~Fits(u.shown \cup {Typed})
  BY <1>1 DEF UsbPumped
<1>2. CASE ~(u.keys # <<>> \/ u.ops = <<>> \/ ~Fits(u.shown \cup {Typed}))
  <2> DEFINE l == Usb(u.epoch)
             op == Head(u.ops)
             down == KeysReport("Press", u.shown \cup {Typed}, op.own)
             class == IF u.shown = {} THEN "AllReleased" ELSE "Release"
             restored == KeysReport(class, u.shown, op.own)
             q == Pushed(<<down>>, restored)
             t == IF op.left = 1 THEN Tail(u.ops) ELSE [u.ops EXCEPT ![1].left = @ - 1]
             x == [u EXCEPT !.keys = q, !.ops = t]
  <2>1. UsbPumped(u) = x
    BY <1>2 DEF UsbPumped
  <2>2. op.own = l /\ u.epoch \in Nat /\ u.shown \subseteq Inputs /\ UsbRecord(u)
    <3>1. u.ops \in Seq(Operations) /\ 1 \in DOMAIN u.ops /\ op = u.ops[1]
      BY <1>2 DEF UsbOk, OpsOk
    <3> QED
      BY <3>1 DEF UsbOk, OpsOk, ShownOk
  <2> HIDE DEF t
  <2>3. l \in Lifetimes
    BY <2>2 DEF Lifetimes, Transports, Usb
  <2>4. /\ down \in Entries /\ IsSnapshot(down) /\ down.own = l
        /\ restored \in Entries /\ IsSnapshot(restored) /\ restored.own = l
        /\ restored.keys = u.shown
    <3> HIDE DEF l
    <3>1. 0 \in 0..Pieces
      BY BoundsAreNumbers
    <3>2. u.shown \cup {Typed} \in SUBSET Inputs /\ u.shown \in SUBSET Inputs
      BY <2>2 DEF Inputs
    <3> QED
      BY <2>2, <2>3, <3>1, <3>2 DEF KeysReport, Entries, IsSnapshot
  <2> HIDE DEF op, down, restored
  <2>5. /\ x.keys = q /\ x.cmds = u.cmds /\ x.shown = u.shown /\ x.reset = u.reset
        /\ x.epoch = u.epoch
    <3> HIDE DEF q
    <3> QED
      BY <2>2 DEF UsbRecord
  <2> DEFINE p == <<down>>
  <2>6. p \in Seq(Entries) /\ \A i \in DOMAIN p : p[i] = down
    BY <2>4
  <2>7. \A i \in DOMAIN q : q[i] \in {down, restored}
    <3> HIDE DEF p
    <3>1. \A i \in DOMAIN Append(p, restored) :
            Append(p, restored)[i] = restored \/ (i \in DOMAIN p /\ Append(p, restored)[i] = p[i])
      BY <2>4, <2>6
    <3>2. q = Pushed(p, restored)
      BY DEF p
    <3> QED
      BY <2>6, <3>1, <3>2 DEF Pushed
  <2>8. KeysRight(u.shown, q, l, v.keys)
    <3> HIDE DEF p
    <3>1. Ends(Pushed(p, restored), Shots(restored.own), Showing(restored.keys), v.keys = u.shown)
      BY <2>4, <2>6, EndsPushed
    <3>2. q = Pushed(p, restored)
      BY DEF p
    <3> QED
      BY <2>4, <3>1, <3>2 DEF KeysRight
  <2> HIDE DEF q, x
  <2>9. Dated(q, u.epoch) /\ \A i \in DOMAIN q : IsSnapshot(q[i])
    <3>1. l[2] <= u.epoch
      BY <2>2 DEF Usb
    <3> QED
      BY <2>4, <2>7, <3>1 DEF Dated
  <2>10. v.live => /\ HotsRight(a, u.cmds, l, v.hot, sh) /\ u.shown = Owned(a, l)
    BY DEF UsbSide, Faithful
  <2>11. v.live => Faithful(a, q, u.cmds, l, v, sh) /\ u.shown = Owned(a, l)
    BY <2>8, <2>10 DEF Faithful
  <2>12. UsbSide(a, x, v, sh)
    BY <2>5, <2>9, <2>11 DEF UsbSide
  <2> QED
    BY <2>1, <2>12
<1> QED
  BY <1>1, <1>2

LEMMA UsbTypedSide ==
  ASSUME NEW w, NEW u, UsbOk(w, u), NEW a, NEW v, NEW sh, UsbSide(a, u, v, sh)
  PROVE  UsbSide(a, TypeOnUsb(u), v, sh)
<1> DEFINE q == Append(u.ops, [left |-> Pieces, own |-> Usb(UsbEpoch(u))])
           x == [u EXCEPT !.ops = q]
<1>1. TypeOnUsb(u) \in {x, u}
  BY DEF TypeOnUsb
<1> HIDE DEF q
<1>2. /\ x.keys = u.keys /\ x.cmds = u.cmds /\ x.shown = u.shown /\ x.reset = u.reset
      /\ x.epoch = u.epoch
  BY DEF UsbOk, UsbRecord
<1>3. UsbSide(a, x, v, sh)
  BY <1>2, UsbSideSame
<1> QED
  BY <1>1, <1>3

Chunks(f, n, l) == [i \in 1..n |-> TextReport(f + i, l)]

LEMMA ChunksAreEntries ==
  ASSUME NEW l \in Lifetimes, NEW f \in Nat, NEW n \in Nat, f + n <= Pieces,
         NEW t, t = Chunks(f, n, l)
  PROVE  /\ t \in Seq(Entries)
         /\ \A i \in DOMAIN t : t[i].class = "Command" /\ t[i].own = l /\ ~IsSnapshot(t[i])
<1>1. ASSUME NEW i \in 1..n
      PROVE  TextReport(f + i, l) \in Entries
  <2>1. f + i \in 0..Pieces
    BY <1>1, BoundsAreNumbers
  <2> QED
    BY <2>1 DEF TextReport, Entries
<1>2. t \in Seq(Entries)
  BY <1>1 DEF Chunks
<1>3. \A i \in DOMAIN t : t[i].class = "Command" /\ t[i].own = l /\ ~IsSnapshot(t[i])
  BY DEF Chunks, TextReport, IsSnapshot
<1> QED
  BY <1>2, <1>3

LEMMA UsbChunksSide ==
  ASSUME NEW w, NEW u, UsbOk(w, u), u.reset = FALSE, UsbEpoch(u) # NoEpoch, NEW a, NEW v, NEW sh,
         UsbSide(a, u, v, sh)
  PROVE  UsbSide(a, ChunksOnUsb(u), v, sh)
<1> DEFINE l == Usb(UsbEpoch(u))
           m == Usb(u.epoch)
           t == [i \in 1..Pieces |-> TextReport(0 + i, l)]
           q == u.cmds \o t
           x == [u EXCEPT !.cmds = q]
<1>1. l \in Lifetimes /\ l = m /\ u.epoch \in Nat /\ l[2] = u.epoch /\ Pieces \in Nat
  BY EpochIsCurrent, BoundsAreNumbers DEF Lifetimes, Transports, Usb, UsbOk
<1> HIDE DEF l, m
<1>2. t = [i \in 1..Pieces |-> TextReport(i, l)]
  BY <1>1
<1>3. /\ t \in Seq(Entries)
      /\ \A i \in DOMAIN t : t[i].class = "Command" /\ t[i].own = l /\ ~IsSnapshot(t[i])
  <2>1. t = Chunks(0, Pieces, l) /\ 0 \in Nat /\ 0 + Pieces <= Pieces
    BY <1>1 DEF Chunks
  <2> HIDE DEF t
  <2> QED
    BY <1>1, <2>1, ChunksAreEntries
<1>4. u.cmds \in Seq(Entries) /\ UsbRecord(u)
  BY DEF UsbOk, Told
<1>5. ChunksOnUsb(u) \in {x, u}
  BY <1>2, <1>4 DEF ChunksOnUsb, UsbRecord, l
<1> HIDE DEF t
<1>6. Dated(t, u.epoch)
  BY <1>1, <1>3 DEF Dated
<1>7. Dated(q, u.epoch) /\ \A i \in DOMAIN q : ~IsSnapshot(q[i])
  <2>1. \A i \in DOMAIN q : \/ i \in DOMAIN u.cmds /\ q[i] = u.cmds[i]
                            \/ i - Len(u.cmds) \in DOMAIN t /\ q[i] = t[i - Len(u.cmds)]
    BY <1>3, <1>4
  <2> QED
    BY <1>1, <1>3, <1>4, <1>6, <2>1, DatedGrows DEF UsbSide
<1>8. v.live => /\ KeysRight(Owned(a, m), u.keys, m, v.keys) /\ HotsRight(a, u.cmds, m, v.hot, sh)
                /\ u.shown = Owned(a, m)
  BY DEF UsbSide, Faithful, m
<1>9. v.live => HotsRight(a, q, m, v.hot, sh)
  <2>1. \A i \in DOMAIN t : t[i].class \notin {"CommandPress", "CommandRelease"}
    BY <1>3
  <2> QED
    BY <1>3, <1>4, <1>8, <2>1, HotsAppended
<1> HIDE DEF q
<1>10. /\ x.keys = u.keys /\ x.cmds = q /\ x.shown = u.shown /\ x.reset = u.reset
       /\ x.epoch = u.epoch
  BY <1>4 DEF UsbRecord
<1> HIDE DEF x
<1>11. UsbSide(a, x, v, sh)
  BY <1>7, <1>8, <1>9, <1>10 DEF UsbSide, Faithful, m
<1> QED
  BY <1>5, <1>11

\* The head is gone: it was of another lifetime, or the host has it.
Gone(u, x, r) ==
  /\ x.shown = u.shown /\ x.reset = u.reset /\ x.epoch = u.epoch
  /\ \/ u.keys # <<>> /\ r = Head(u.keys) /\ x.keys = Tail(u.keys) /\ x.cmds = u.cmds
     \/ u.cmds # <<>> /\ r = Head(u.cmds) /\ x.cmds = Tail(u.cmds) /\ x.keys = u.keys

LEMMA UsbGoneSide ==
  ASSUME NEW w, NEW u, UsbOk(w, u), NEW a, NEW v, NEW sh, UsbSide(a, u, v, sh), ViewRecord(v),
         NEW x, NEW r, Gone(u, x, r)
  PROVE  /\ r.own # Usb(u.epoch) => UsbSide(a, x, v, sh)
         /\ r.own = Usb(u.epoch) /\ v.live => UsbSide(a, x, Taken(v, r), sh)
         /\ ~v.live => UsbSide(a, x, v, sh)
<1> DEFINE l == Usb(u.epoch)
<1>1. u.keys \in Seq(Entries) /\ u.cmds \in Seq(Entries) /\ u.epoch \in Nat
  BY DEF UsbOk, Told
<1>2. /\ Dated(x.keys, u.epoch) /\ Dated(x.cmds, u.epoch)
      /\ \A i \in DOMAIN x.keys : IsSnapshot(x.keys[i])
      /\ \A i \in DOMAIN x.cmds : ~IsSnapshot(x.cmds[i])
  <2>1. ASSUME NEW q \in Seq(Entries), q # <<>>
        PROVE  \A i \in DOMAIN Tail(q) : i + 1 \in DOMAIN q /\ Tail(q)[i] = q[i + 1]
    BY <2>1
  <2>2. Dated(x.keys, u.epoch) /\ Dated(x.cmds, u.epoch)
    BY <1>1, DatedGrows DEF Gone, UsbSide
  <2>3. /\ \A i \in DOMAIN u.keys : IsSnapshot(u.keys[i])
        /\ \A i \in DOMAIN u.cmds : ~IsSnapshot(u.cmds[i])
    BY DEF UsbSide
  <2>4. CASE u.keys # <<>> /\ x.keys = Tail(u.keys) /\ x.cmds = u.cmds
    <3>1. \A i \in DOMAIN x.keys : i + 1 \in DOMAIN u.keys /\ x.keys[i] = u.keys[i + 1]
      BY <1>1, <2>1, <2>4
    <3> QED
      BY <2>2, <2>3, <2>4, <3>1
  <2>5. CASE u.cmds # <<>> /\ x.cmds = Tail(u.cmds) /\ x.keys = u.keys
    <3>1. \A i \in DOMAIN x.cmds : i + 1 \in DOMAIN u.cmds /\ x.cmds[i] = u.cmds[i + 1]
      BY <1>1, <2>1, <2>5
    <3> QED
      BY <2>2, <2>3, <2>5, <3>1
  <2> QED
    BY <2>4, <2>5 DEF Gone
<1>3. v.live /\ u.reset => Untouched(a, u.keys, u.cmds, l, v)
  BY DEF UsbSide
<1>4. v.live /\ ~u.reset => /\ KeysRight(Owned(a, l), u.keys, l, v.keys)
                            /\ HotsRight(a, u.cmds, l, v.hot, sh) /\ u.shown = Owned(a, l)
  BY DEF UsbSide, Faithful
<1> HIDE DEF l
<1>5. v.live /\ u.reset => r.own # l /\ Untouched(a, x.keys, x.cmds, l, v)
  BY <1>1, <1>3, AlienTail DEF Untouched, Gone
<1>6. /\ u.keys # <<>> => Head(u.keys) \in Entries /\ IsSnapshot(Head(u.keys))
      /\ u.cmds # <<>> => Head(u.cmds) \in Entries /\ ~IsSnapshot(Head(u.cmds))
  <2>1. ASSUME NEW q \in Seq(Entries), q # <<>>
        PROVE  1 \in DOMAIN q /\ Head(q) = q[1] /\ Head(q) \in Entries
    BY <2>1
  <2> QED
    BY <1>1, <2>1 DEF UsbSide
<1>7. ASSUME r.own # l
      PROVE  UsbSide(a, x, v, sh)
  <2>1. v.live /\ ~u.reset => KeysRight(Owned(a, l), x.keys, l, v.keys)
    BY <1>1, <1>4, <1>7, KeysDropped DEF Gone
  <2>2. v.live /\ ~u.reset => HotsRight(a, x.cmds, l, v.hot, sh)
    BY <1>1, <1>4, <1>7, HotsDropped DEF Gone
  <2>3. v.live /\ ~u.reset => Faithful(a, x.keys, x.cmds, l, v, sh) /\ x.shown = Owned(a, l)
    BY <1>4, <2>1, <2>2 DEF Faithful, Gone
  <2> QED
    BY <1>2, <1>5, <2>3 DEF UsbSide, Gone, l
<1>8. ASSUME r.own = l, v.live
      PROVE  UsbSide(a, x, Taken(v, r), sh)
  <2> DEFINE z == Taken(v, r)
  <2>1. ~u.reset
    BY <1>5, <1>8
  <2>2. r \in Entries
    BY <1>6 DEF Gone
  <2>3. z.live = v.live /\ (IsSnapshot(r) => z.hot = v.hot) /\ (~IsSnapshot(r) => z.keys = v.keys)
    BY <2>2, ViewTakes DEF IsSnapshot
  <2> HIDE DEF z
  <2>4. KeysRight(Owned(a, l), x.keys, l, z.keys) /\ HotsRight(a, x.cmds, l, z.hot, sh)
    <3>1. CASE u.keys # <<>> /\ r = Head(u.keys) /\ x.keys = Tail(u.keys) /\ x.cmds = u.cmds
      BY <1>1, <1>4, <1>6, <1>8, <2>1, <2>3, <3>1, KeysTaken DEF z
    <3>2. CASE u.cmds # <<>> /\ r = Head(u.cmds) /\ x.cmds = Tail(u.cmds) /\ x.keys = u.keys
      BY <1>1, <1>4, <1>6, <1>8, <2>1, <2>3, <3>2, HotsTaken DEF z
    <3> QED
      BY <3>1, <3>2 DEF Gone
  <2>5. Faithful(a, x.keys, x.cmds, l, z, sh) /\ x.shown = Owned(a, l)
    BY <1>4, <1>8, <2>1, <2>4 DEF Faithful, Gone
  <2>6. UsbSide(a, x, z, sh)
    BY <1>2, <2>1, <2>5 DEF UsbSide, Gone, l
  <2> QED
    BY <2>6 DEF z
<1>9. ~v.live => UsbSide(a, x, v, sh)
  BY <1>2 DEF UsbSide, Gone
<1> QED
  BY <1>7, <1>8, <1>9 DEF l

-----------------------------------------------------------------------------
(* BLE. *)

SameOwners(b, c) == c.active = b.active /\ c.phase = b.phase /\ c.target = b.target

LEMMA BleSideSame ==
  ASSUME NEW a, NEW b, NEW owner, NEW n, NEW v, NEW sh, BleSide(a, b, owner, n, v, sh), NEW c,
         SameOwners(b, c), c.reset = b.reset, c.queue = b.queue
  PROVE  BleSide(a, c, owner, n, v, sh)
<1>1. Recovering(c) = Recovering(b) /\ BleNew(c, owner) = BleNew(b, owner)
  BY DEF Recovering, BleNew, SameOwners
<1> QED
  BY <1>1 DEF BleSide, SameOwners

\* A queue that is cleared owes nothing to a host that is new.
LEMMA BleSideEmptied ==
  ASSUME NEW a, NEW b, NEW owner, NEW n, NEW v, NEW sh, BleSide(a, b, owner, n, v, sh),
         v.live /\ ~Recovering(b) => Alien(b.queue, Ble(n)),
         NEW c, SameOwners(b, c), c.queue = <<>>
  PROVE  BleSide(a, c, owner, n, v, sh)
<1> DEFINE l == Ble(n)
<1>1. Recovering(c) <=> Recovering(b)
  BY DEF Recovering, SameOwners
<1>2. Recovering(b) => (BleNew(c, owner) <=> BleNew(b, owner))
  BY <1>1 DEF BleNew, SameOwners
<1>3. v.live /\ Recovering(b) => (BleNew(b, owner) => Untouched(a, <<>>, <<>>, l, v))
  BY UntouchedCleared DEF BleSide
<1>4. v.live /\ ~Recovering(b) => Faithful(a, <<>>, <<>>, l, v, sh)
  BY FaithfulCleared DEF BleSide, BleServes
<1>5. \A i \in DOMAIN <<>> : FALSE
  OBVIOUS
<1> HIDE DEF l
<1>6. v.live /\ Recovering(c) => (BleNew(c, owner) => Untouched(a, <<>>, <<>>, l, v))
  BY <1>1, <1>2, <1>3
<1>7. v.live /\ ~Recovering(c) => BleServes(a, <<>>, BleNew(c, owner), l, v, sh)
  BY <1>1, <1>4, <1>5 DEF BleServes, Alien, OwnOnly
<1> QED
  BY <1>5, <1>6, <1>7 DEF BleSide, SameOwners, Dated, l

LEMMA OwnersEpoch ==
  ASSUME AdapterOk(adapter)
  PROVE  /\ adapter.gen \in Nat /\ AdapterOwner.gen \in 0..adapter.gen
         /\ adapter.owner # 0 => AdapterOwner # NoOwner /\ AdapterOwner.gen = adapter.gen
         /\ AdapterOwner # NoOwner => adapter.owner # 0
         /\ AdapterOwner.gen # NoEpoch => adapter.owner # 0
<1>1. adapter.gen \in Nat
  BY DEF AdapterOk
<1>2. CASE adapter.owner = 0
  BY <1>1, <1>2 DEF AdapterOwner, NoOwner, NoEpoch
<1>3. CASE adapter.owner # 0
  <2>1. AdapterOwner = [handle |-> adapter.owner, gen |-> adapter.gen]
    BY <1>3 DEF AdapterOwner
  <2>2. AdapterOwner.handle = adapter.owner /\ AdapterOwner.gen = adapter.gen /\ NoOwner.handle = 0
    BY <2>1 DEF NoOwner
  <2> QED
    BY <1>1, <1>3, <2>2
<1> QED
  BY <1>2, <1>3

\* The owner that is there is adopted with a reset.
LEMMA BleAdoptedSide ==
  ASSUME AdapterOk(adapter), NEW b, BleRecord(b), ~Recovering(b), NEW a, NEW v, NEW sh,
         BleSide(a, b, AdapterOwner, adapter.gen, v, sh)
  PROVE  LET c == Adopted(b, AdapterOwner)
         IN /\ BleSide(a, c, AdapterOwner, adapter.gen, v, sh) /\ c.active = AdapterOwner
            /\ c.phase = b.phase
<1> DEFINE o == AdapterOwner
           c == [b EXCEPT !.active = o, !.reset = TRUE]
<1>1. CASE b.active = o
  BY <1>1 DEF Adopted
<1>2. CASE b.active # o
  <2>1. o.gen \in 0..adapter.gen
    BY OwnersEpoch
  <2> HIDE DEF o
  <2>2. c.active = o /\ c.reset /\ c.queue = b.queue /\ c.phase = b.phase /\ c.target = b.target
    BY DEF BleRecord
  <2>3. Adopted(b, o) = c
    BY <1>2 DEF Adopted
  <2> HIDE DEF c
  <2>4. ~Recovering(c) /\ BleNew(c, o) /\ BleNew(b, o)
    BY <1>2, <2>2 DEF Recovering, BleNew
  <2>5. BleSide(a, c, o, adapter.gen, v, sh)
    BY <2>1, <2>2, <2>4 DEF BleSide, BleServes, o
  <2> QED
    BY <2>2, <2>3, <2>5 DEF o
<1> QED
  BY <1>1, <1>2

LEMMA BleRefreshedSide ==
  ASSUME AdapterOk(adapter), NEW b, BleRecord(b), NEW a, NEW v, NEW sh,
         BleSide(a, b, AdapterOwner, adapter.gen, v, sh)
  PROVE  /\ BleSide(a, Refreshed(b), AdapterOwner, adapter.gen, v, sh)
         /\ Refreshed(b).phase = b.phase
         /\ ~Recovering(b) => Refreshed(b).active = AdapterOwner
BY BleAdoptedSide DEF Refreshed

LEMMA BleClearedMeans ==
  ASSUME NEW b, BleRecord(b)
  PROVE  LET c == BleCleared(b)
         IN BleRecord(c) /\ SameOwners(b, c) /\ c.queue = <<>> /\ c.reset = b.reset
<1> DEFINE c == BleCleared(b)
<1>1. c = [b EXCEPT !.queue = <<>>, !.text = NoText]
  BY DEF BleCleared
<1> HIDE DEF c
<1>2. BleRecord(c)
  BY <1>1 DEF BleRecord
<1>3. c.queue = <<>> /\ c.active = b.active /\ c.phase = b.phase /\ c.target = b.target
      /\ c.reset = b.reset
  BY <1>1 DEF BleRecord
<1> QED
  BY <1>2, <1>3 DEF SameOwners, c

LEMMA BleFlushedSide ==
  ASSUME NEW b, BleRecord(b), NEW a, NEW owner, NEW n, NEW v, NEW sh,
         BleSide(a, b, owner, n, v, sh)
  PROVE  LET c == BleFlushed(b)
         IN BleSide(a, c, owner, n, v, sh) /\ BleRecord(c) /\ SameOwners(b, c) /\ ~c.reset
<1>1. CASE b.reset
  <2> DEFINE x == BleCleared(b)
             c == [x EXCEPT !.reset = FALSE]
  <2>1. BleFlushed(b) = c
    BY <1>1 DEF BleFlushed
  <2>2. BleRecord(x) /\ SameOwners(b, x) /\ x.queue = <<>>
    BY BleClearedMeans
  <2> HIDE DEF x
  <2>3. c = [x EXCEPT !.reset = FALSE]
    OBVIOUS
  <2> HIDE DEF c
  <2>4. BleRecord(c)
    BY <2>2, <2>3 DEF BleRecord
  <2>5. c.queue = <<>> /\ SameOwners(b, c) /\ ~c.reset
    BY <2>2, <2>3 DEF BleRecord, SameOwners
  <2>6. v.live /\ ~Recovering(b) => Alien(b.queue, Ble(n))
    BY <1>1 DEF BleNew, BleSide, BleServes
  <2>7. BleSide(a, c, owner, n, v, sh)
    BY <2>5, <2>6, BleSideEmptied
  <2> QED
    BY <2>1, <2>4, <2>5, <2>7
<1>2. CASE ~b.reset
  BY <1>2 DEF BleFlushed, SameOwners
<1> QED
  BY <1>1, <1>2

LEMMA BleReadySide ==
  ASSUME NEW w, NEW b, BleOk(w, b), AdapterOk(adapter), NEW a, NEW v, NEW sh,
         BleSide(a, b, AdapterOwner, adapter.gen, v, sh)
  PROVE  /\ BleSide(a, BleReady(b), AdapterOwner, adapter.gen, v, sh)
         /\ BleSide(a, BleFlushed(Refreshed(b)), AdapterOwner, adapter.gen, v, sh)
         /\ ~Recovering(b) => /\ ~BleNew(BleReady(b), AdapterOwner)
                              /\ ~BleNew(BleFlushed(Refreshed(b)), AdapterOwner)
<1> DEFINE o == AdapterOwner
           n == adapter.gen
           f == BleFlushed(b)
           r == Refreshed(f)
           s == Refreshed(b)
<1>1. BleRecord(b)
  BY DEF BleOk
<1>2. BleSide(a, f, o, n, v, sh) /\ BleRecord(f) /\ f.phase = b.phase
  BY <1>1, BleFlushedSide DEF SameOwners
<1>3. BleRecord(r) /\ BleRecord(s)
  <2>1. BleOk(w, f)
    BY BleFlushedOk DEF Serves
  <2> QED
    BY <2>1, RefreshedOk DEF Serves, BleOk
<1> HIDE DEF f
<1>4. /\ BleSide(a, r, o, n, v, sh) /\ r.phase = f.phase /\ (~Recovering(f) => r.active = o)
      /\ BleSide(a, s, o, n, v, sh) /\ s.phase = b.phase /\ (~Recovering(b) => s.active = o)
  BY <1>1, <1>2, BleRefreshedSide
<1> HIDE DEF r, s
<1>5. ASSUME NEW c, BleRecord(c), BleSide(a, c, o, n, v, sh), c.phase = b.phase,
             ~Recovering(b) => c.active = o
      PROVE  /\ BleSide(a, BleFlushed(c), o, n, v, sh)
             /\ ~Recovering(b) => ~BleNew(BleFlushed(c), o)
  <2> DEFINE d == BleFlushed(c)
  <2>1. BleSide(a, d, o, n, v, sh) /\ SameOwners(c, d) /\ ~d.reset
    BY <1>5, BleFlushedSide
  <2> HIDE DEF d
  <2>2. ~Recovering(b) => ~BleNew(d, o)
    BY <1>5, <2>1 DEF BleNew, Recovering, SameOwners
  <2> QED
    BY <2>1, <2>2 DEF d
<1>6. r.phase = b.phase /\ (~Recovering(b) => r.active = o)
  BY <1>2, <1>4 DEF Recovering
<1>7. /\ BleSide(a, BleFlushed(r), o, n, v, sh) /\ (~Recovering(b) => ~BleNew(BleFlushed(r), o))
      /\ BleSide(a, BleFlushed(s), o, n, v, sh) /\ (~Recovering(b) => ~BleNew(BleFlushed(s), o))
  BY <1>3, <1>4, <1>5, <1>6
<1> QED
  BY <1>7 DEF BleReady, f, r, s

\* What stays when the queue changes in a lifetime that has been adopted.
Serving(b, c, owner, v) ==
  /\ SameOwners(b, c) /\ c.reset = b.reset
  /\ v.live => ~BleNew(b, owner)

\* Chunks of a text for the owner that is there.
Lengthens(b, q) ==
  \E e \in Seq(Entries) :
    /\ q = b.queue \o e
    /\ \A i \in DOMAIN e :
         e[i].class = "Command" /\ ~IsSnapshot(e[i]) /\ e[i].own = Ble(Identity(b).gen)
    /\ Identity(b).gen = NoEpoch => e = <<>>

\* A text goes on with chunks for its own owner, or ends.
LEMMA BlePumpedMeans ==
  ASSUME NEW w, NEW b, BleOk(w, b)
  PROVE  LET c == BlePumped(b)
         IN BleRecord(c) /\ SameOwners(b, c) /\ c.reset = b.reset /\ Lengthens(b, c.queue)
<1> DEFINE l == b.text.own
<1>1. BleRecord(b) /\ b.queue \in Seq(Entries) /\ BleRecord(BlePumped(b))
  BY BlePumpedOk DEF BleOk, Serves, Told
<1>2. Lengthens(b, b.queue)
  <2>1. b.queue = b.queue \o <<>> /\ <<>> \in Seq(Entries) /\ \A i \in DOMAIN <<>> : FALSE
    BY <1>1
  <2> QED
    BY <2>1 DEF Lengthens
<1>3. CASE b.text = NoText
  <2>1. BlePumped(b) = b
    BY <1>3 DEF BlePumped
  <2> QED
    BY <1>1, <1>2, <2>1 DEF SameOwners
<1>4. CASE b.text # NoText /\ l # Ble(Identity(b).gen)
  <2> DEFINE d == [b EXCEPT !.text = NoText]
  <2>1. BlePumped(b) = d
    BY <1>4 DEF BlePumped
  <2>2. /\ d.queue = b.queue /\ d.active = b.active /\ d.phase = b.phase /\ d.target = b.target
        /\ d.reset = b.reset
    BY <1>1 DEF BleRecord
  <2> HIDE DEF d
  <2> QED
    BY <1>1, <1>2, <2>1, <2>2 DEF SameOwners
<1>5. CASE b.text # NoText /\ l = Ble(Identity(b).gen)
  <2> DEFINE room == IF TextWindow < Limit("Command") THEN TextWindow ELSE Limit("Command")
             want == Pieces + 1 - b.text.next
             free == IF Len(b.queue) < room THEN room - Len(b.queue) ELSE 0
             n == IF want < free THEN want ELSE free
             m == b.text.next - 1
             text == IF n = want THEN NoText ELSE [b.text EXCEPT !.next = @ + n]
             e == [i \in 1..n |-> TextReport(b.text.next + i - 1, b.text.own)]
             q == b.queue \o e
             c == [b EXCEPT !.queue = q, !.text = text]
  <2>1. BlePumped(b) = c
    BY <1>1, <1>5 DEF BlePumped, BleRecord
  <2>2. /\ b.text \in [next : 1..Pieces, own : Lifetimes] /\ l \in Lifetimes /\ l[2] # NoEpoch
        /\ b.text.next \in Nat /\ b.text.next >= 1 /\ b.text.next <= Pieces /\ Pieces \in Nat
        /\ Len(b.queue) \in Nat
    BY <1>1, <1>5, BoundsAreNumbers DEF BleOk, TextOk
  <2>3. Identity(b).gen # NoEpoch
    BY <1>5, <2>2 DEF Ble
  <2>4. room \in Nat
    BY BoundsAreNumbers, QueueHasRoom DEF Limit
  <2> HIDE DEF room
  <2>5. free \in Nat /\ want \in Nat /\ b.text.next + want = Pieces + 1
    BY <2>2, <2>4
  <2> HIDE DEF free, want
  <2>6. n \in Nat /\ n <= want
    BY <2>5
  <2> HIDE DEF n
  <2> DEFINE next == b.text.next
  <2>a. next \in Nat /\ next >= 1 /\ Pieces \in Nat /\ next + want = Pieces + 1 /\ m = next - 1
    BY <2>2, <2>5
  <2> HIDE DEF next, m
  <2>b. m \in Nat /\ m + n <= Pieces
    BY <2>5, <2>6, <2>a
  <2>c. \A i \in 1..n : m + i = next + i - 1
    BY <2>6, <2>a
  <2>7. m \in Nat /\ m + n <= Pieces /\ \A i \in 1..n : m + i = b.text.next + i - 1
    BY <2>b, <2>c DEF next
  <2>8. e = Chunks(m, n, l)
    BY <2>7 DEF Chunks
  <2> HIDE DEF e, l
  <2>9. e \in Seq(Entries) /\ \A i \in DOMAIN e : e[i].class = "Command" /\ e[i].own = l
                              /\ ~IsSnapshot(e[i])
    <3>1. l \in Lifetimes
      BY <2>2
    <3> QED
      BY <2>6, <2>7, <2>8, <3>1, ChunksAreEntries
  <2> HIDE DEF q, text
  <2>10. /\ c.queue = q /\ c.active = b.active /\ c.phase = b.phase /\ c.target = b.target
         /\ c.reset = b.reset
    BY <1>1 DEF BleRecord
  <2> HIDE DEF c
  <2> QED
    BY <1>1, <1>5, <2>1, <2>3, <2>9, <2>10 DEF SameOwners, Lengthens, q
<1> QED
  BY <1>3, <1>4, <1>5

\* Reports of the owner, none of them about a key.
LEMMA BleSideText ==
  ASSUME NEW w, NEW b, BleOk(w, b), AdapterOk(adapter), NEW a, NEW v, NEW sh,
         BleSide(a, b, AdapterOwner, adapter.gen, v, sh), v.live => ~BleNew(b, AdapterOwner)
  PROVE  BleSide(a, BlePumped(b), AdapterOwner, adapter.gen, v, sh)
<1> DEFINE o == AdapterOwner
           n == adapter.gen
           l == Ble(n)
           c == BlePumped(b)
           q == b.queue
<1>1. SameOwners(b, c) /\ c.reset = b.reset
  BY BlePumpedMeans
<1>2. PICK e \in Seq(Entries) :
        /\ c.queue = q \o e
        /\ \A i \in DOMAIN e : e[i].class = "Command" /\ ~IsSnapshot(e[i])
                               /\ e[i].own = Ble(Identity(b).gen)
        /\ Identity(b).gen = NoEpoch => e = <<>>
  BY BlePumpedMeans DEF Lengthens
<1>3. q \in Seq(Entries) /\ n \in Nat
  BY OwnersEpoch DEF BleOk, Told
<1> HIDE DEF c
<1>4. \A i \in DOMAIN e : e[i].own = l
  <2>1. CASE Identity(b).gen = NoEpoch
    BY <1>2, <2>1
  <2>2. CASE Identity(b).gen # NoEpoch
    <3>1. Identity(b) = AdapterOwner \/ Identity(b).gen = NoEpoch
      BY DEF Identity, NoOwner
    <3>2. Identity(b).gen = n
      BY <2>2, <3>1, OwnersEpoch
    <3> QED
      BY <1>2, <3>2
  <2> QED
    BY <2>1, <2>2
<1> HIDE DEF o
<1>5. Recovering(c) = Recovering(b) /\ BleNew(c, o) = BleNew(b, o)
  BY <1>1 DEF Recovering, BleNew, SameOwners
<1>6. Dated(c.queue, n)
  <2>1. Dated(e, n) /\ Dated(q, n)
    BY <1>3, <1>4 DEF Dated, Ble, BleSide
  <2> QED
    BY <1>2, <1>3, <2>1, DatedGrows
<1>7. v.live /\ ~Recovering(b) => /\ KeysRight(Owned(a, l), q, l, v.keys)
                                  /\ HotsRight(a, q, l, v.hot, sh)
                                  /\ helper.pc # "flag" => OwnOnly(q, l)
  BY DEF BleSide, BleServes, Faithful, o
<1> HIDE DEF l, q
<1>8. \A i \in DOMAIN e : ~IsSnapshot(e[i]) /\ e[i].class \notin {"CommandPress", "CommandRelease"}
  BY <1>2
<1>9. v.live /\ ~Recovering(b) => /\ KeysRight(Owned(a, l), c.queue, l, v.keys)
                                  /\ HotsRight(a, c.queue, l, v.hot, sh)
                                  /\ helper.pc # "flag" => OwnOnly(c.queue, l)
  <2>1. \A i \in DOMAIN (q \o e) : \/ i \in DOMAIN q /\ (q \o e)[i] = q[i]
                                   \/ i - Len(q) \in DOMAIN e /\ (q \o e)[i] = e[i - Len(q)]
    BY <1>3
  <2>2. v.live /\ ~Recovering(b) => (helper.pc # "flag" => OwnOnly(c.queue, l))
    BY <1>2, <1>4, <1>7, <2>1 DEF OwnOnly
  <2> QED
    BY <1>2, <1>3, <1>7, <1>8, <2>2, KeysAppended, HotsAppended
<1>10. v.live => ~BleNew(c, o)
  BY <1>5 DEF o
<1>11. {c.active.gen, c.target.gen} \subseteq 0..n
  BY <1>1 DEF BleSide, SameOwners, o
<1>12. v.live /\ ~Recovering(c) => BleServes(a, c.queue, BleNew(c, o), l, v, sh)
  BY <1>5, <1>9, <1>10 DEF Faithful, BleServes
<1> HIDE DEF n
<1>13. BleSide(a, c, o, n, v, sh)
  BY <1>6, <1>10, <1>11, <1>12 DEF BleSide, l
<1> QED
  BY <1>13 DEF c, o, n

\* A chord joins the queue.
LEMMA BleSideChord ==
  ASSUME NEW w, NEW b, BleOk(w, b), NEW o, NEW n \in Nat, NEW a, NEW z, NEW v, NEW sh,
         BleSide(a, b, o, n, v, sh), NEW r \in Entries, IsSnapshot(r), r.own = Ble(n),
         Owned(z, Ble(n)) = r.keys,
         \A s \in Bridged, h \in Hotkeys : Has(z, Ble(n), s, h) <=> Has(a, Ble(n), s, h),
         NEW c, Serving(b, c, o, v), ~Recovering(b), c.queue = Pushed(b.queue, r)
  PROVE  BleSide(z, c, o, n, v, sh)
<1> DEFINE l == Ble(n)
           q == Pushed(b.queue, r)
<1>1. b.queue \in Seq(Entries) /\ r.own[2] <= n
  BY DEF BleOk, Told, Ble
<1>2. Dated(q, n)
  BY <1>1, DatedGrows DEF BleSide
<1>3. Recovering(c) = Recovering(b) /\ BleNew(c, o) = BleNew(b, o)
  BY DEF Recovering, BleNew, SameOwners, Serving
<1>4. v.live => /\ HotsRight(a, b.queue, l, v.hot, sh)
                /\ helper.pc # "flag" => OwnOnly(b.queue, l)
  BY DEF BleSide, BleServes, Faithful, Serving
<1>5. KeysRight(r.keys, q, l, v.keys)
  BY <1>1, EndsPushed DEF KeysRight
<1>6. v.live => HotsRight(z, b.queue, l, v.hot, sh)
  BY <1>4 DEF HotsRight
<1>7. v.live => HotsRight(z, q, l, v.hot, sh)
  BY <1>1, <1>6, HotsBeforeKeys
<1>8. v.live => (helper.pc # "flag" => OwnOnly(q, l))
  <2>1. \A i \in DOMAIN Append(b.queue, r) :
          Append(b.queue, r)[i] = r \/ (i \in DOMAIN b.queue /\ Append(b.queue, r)[i] = b.queue[i])
    BY <1>1
  <2> QED
    BY <1>4, <2>1 DEF Pushed, OwnOnly
<1>9. Owned(z, l) = r.keys
  OBVIOUS
<1> HIDE DEF l, q
<1> QED
  BY <1>2, <1>3, <1>5, <1>7, <1>8, <1>9
  DEF BleSide, BleServes, Faithful, Serving, SameOwners, l, q

\* A hotkey joins the queue.
LEMMA BleSideHot ==
  ASSUME NEW w, NEW b, BleOk(w, b), NEW o, NEW n \in Nat, NEW a, NEW z, NEW v, NEW sh,
         BleSide(a, b, o, n, v, sh), NEW r \in Entries,
         r.class \in {"CommandPress", "CommandRelease"}, r.own = Ble(n),
         Owned(z, Ble(n)) = Owned(a, Ble(n)), NEW s \in Bridged, Moves(a, z, Ble(n), s, r),
         r.class = "CommandRelease" =>
           \A p \in Bridged \ {s} : Has(a, Ble(n), p, r.hot) => r.hot \in sh,
         NEW c, Serving(b, c, o, v), ~Recovering(b), c.queue = Append(b.queue, r)
  PROVE  BleSide(z, c, o, n, v, sh)
<1> DEFINE l == Ble(n)
           q == Append(b.queue, r)
<1>1. b.queue \in Seq(Entries) /\ r.own[2] <= n /\ ~IsSnapshot(r)
  BY DEF BleOk, Told, Ble, IsSnapshot
<1>2. Dated(q, n)
  BY <1>1, DatedGrows DEF BleSide
<1>3. Recovering(c) = Recovering(b) /\ BleNew(c, o) = BleNew(b, o)
  BY DEF Recovering, BleNew, SameOwners, Serving
<1>4. v.live => /\ KeysRight(Owned(a, l), b.queue, l, v.keys)
                /\ HotsRight(a, b.queue, l, v.hot, sh)
                /\ helper.pc # "flag" => OwnOnly(b.queue, l)
  BY DEF BleSide, BleServes, Faithful, Serving
<1>5. v.live => KeysRight(Owned(z, l), q, l, v.keys)
  BY <1>1, <1>4, KeysBeforeHot
<1>7. v.live => HotsRight(z, q, l, v.hot, sh)
  BY <1>1, <1>4, HotsQueued
<1>8. v.live => (helper.pc # "flag" => OwnOnly(q, l))
  <2>1. \A i \in DOMAIN q : q[i] = r \/ (i \in DOMAIN b.queue /\ q[i] = b.queue[i])
    BY <1>1
  <2> QED
    BY <1>4, <2>1 DEF OwnOnly
<1> HIDE DEF l, q
<1> QED
  BY <1>2, <1>3, <1>5, <1>7, <1>8 DEF BleSide, BleServes, Faithful, Serving, SameOwners, l, q

\* The head has been sent: the owner was adopted, and is the one the report is for.
LEMMA BleSideSent ==
  ASSUME NEW w, NEW b, BleOk(w, b), NEW o, NEW n \in Nat, NEW a, NEW v, ViewRecord(v), NEW sh,
         BleSide(a, b, o, n, v, sh), b.queue # <<>>, Head(b.queue).own = Ble(n),
         NEW c, SameOwners(b, c), c.reset = b.reset, c.queue = Tail(b.queue),
         NEW z, z.live = v.live,
         v.live => \/ z = Taken(v, Head(b.queue))
                   \/ Head(b.queue).class = "Command" /\ z = v
  PROVE  BleSide(a, c, o, n, z, sh) /\ (z.live => ~BleNew(c, o))
<1> DEFINE l == Ble(n)
           q == b.queue
           r == Head(q)
<1>1. q \in Seq(Entries) /\ r \in Entries
  BY HeadIsEntry DEF BleOk, Told
<1>2. v.live => ~BleNew(b, o)
  <2>1. v.live /\ BleNew(b, o) => Alien(q, l)
    BY DEF BleSide, BleServes, Untouched
  <2> QED
    BY <1>1, <2>1, AlienTail
<1>3. Recovering(c) = Recovering(b) /\ BleNew(c, o) = BleNew(b, o)
  BY DEF Recovering, BleNew, SameOwners
<1>4. v.live /\ ~Recovering(b) => /\ KeysRight(Owned(a, l), q, l, v.keys)
                                  /\ HotsRight(a, q, l, v.hot, sh)
                                  /\ helper.pc # "flag" => OwnOnly(q, l)
  BY <1>2 DEF BleSide, BleServes, Faithful
<1>5. Dated(Tail(q), n)
  BY <1>1, DatedGrows DEF BleSide
<1>6. v.live /\ ~Recovering(b) => /\ KeysRight(Owned(a, l), Tail(q), l, z.keys)
                                  /\ HotsRight(a, Tail(q), l, z.hot, sh)
                                  /\ helper.pc # "flag" => OwnOnly(Tail(q), l)
  <2> SUFFICES ASSUME v.live, ~Recovering(b)
               PROVE  /\ KeysRight(Owned(a, l), Tail(q), l, z.keys)
                      /\ HotsRight(a, Tail(q), l, z.hot, sh)
                      /\ helper.pc # "flag" => OwnOnly(Tail(q), l)
    OBVIOUS
  <2>1. \A i \in DOMAIN Tail(q) : i + 1 \in DOMAIN q /\ Tail(q)[i] = q[i + 1]
    BY <1>1
  <2>2. helper.pc # "flag" => OwnOnly(Tail(q), l)
    BY <1>4, <2>1 DEF OwnOnly
  <2>3. CASE z = Taken(v, r)
    BY <1>1, <1>4, <2>2, <2>3, KeysTaken, HotsTaken
  <2>4. CASE r.class = "Command" /\ z = v
    <3>1. ~IsSnapshot(r)
      BY <2>4 DEF IsSnapshot
    <3> QED
      BY <1>1, <1>4, <2>2, <2>4, <3>1, KeysDropped, HotsDropped
  <2> QED
    BY <2>3, <2>4
<1> HIDE DEF l, q, r
<1> QED
  BY <1>2, <1>3, <1>5, <1>6 DEF BleSide, BleServes, Faithful, SameOwners, l, q

-----------------------------------------------------------------------------
(* The application's account. *)

Flushable(a) ==
  /\ AppRecord(a) /\ DOMAIN a.hlatch = Bridged
  /\ ~a.keys.pending => a.keys.accepted = a.keys.desired

LEMMA NoLifetime ==
  /\ LifeOf(NoLatch) \notin Lifetimes /\ LifeOf(Suppressed) \notin Lifetimes
  /\ ~IsLatched(NoLatch) /\ ~IsLatched(Suppressed)
  /\ \A latch : LifeOf(latch) \in Lifetimes => IsLatched(latch)
<1>1. \A o, e : <<o, e>> \in Lifetimes => o \in Transports
  BY DEF Lifetimes
<1> QED
  BY <1>1 DEF LifeOf, NoLatch, Suppressed, Transports, IsLatched

LEMMA ReconciledMeans ==
  ASSUME NEW a, Flushable(a), NEW b
  PROVE  LET r == Reconciled(a, b)
             at == NowAt(b)
             now == KeysOf(a.held)
         IN /\ Flushable(r) /\ r.at = at /\ r.pc = a.pc
            /\ r.keys = IF LifetimeLost(a.latch, at) THEN DeliveryReset(now) ELSE a.keys
            /\ r.latch = IF LifetimeLost(a.latch, at) THEN Committed(Suppressed, now = {})
                         ELSE a.latch
            /\ \A s \in Bridged :
                 /\ r.hot[s] = IF LifetimeLost(a.hlatch[s], at) THEN HotReset(a.hot[s])
                               ELSE a.hot[s]
                 /\ r.hlatch[s] = IF LifetimeLost(a.hlatch[s], at)
                                  THEN Committed(Suppressed, a.hot[s].desired = NoHot)
                                  ELSE a.hlatch[s]
<1> DEFINE r == Reconciled(a, b)
           at == NowAt(b)
           now == KeysOf(a.held)
           keys == IF LifetimeLost(a.latch, at) THEN DeliveryReset(now) ELSE a.keys
           latch == IF LifetimeLost(a.latch, at) THEN Committed(Suppressed, now = {}) ELSE a.latch
           hot == [s \in Bridged |->
                     IF LifetimeLost(a.hlatch[s], at) THEN HotReset(a.hot[s]) ELSE a.hot[s]]
           hlatch == [s \in Bridged |->
                        IF LifetimeLost(a.hlatch[s], at)
                        THEN Committed(Suppressed, a.hot[s].desired = NoHot) ELSE a.hlatch[s]]
<1>1. r = [a EXCEPT !.at = at, !.keys = keys, !.latch = latch, !.hot = hot, !.hlatch = hlatch]
  BY DEF Reconciled, NowAt
<1>2. hot \in [Bridged -> Hot] /\ DOMAIN hlatch = Bridged
  <2>1. \A s \in Bridged : a.hot[s] \in Hot /\ HotReset(a.hot[s]) \in Hot
    BY DEF Flushable, AppRecord, HotReset, Hot
  <2> QED
    BY <2>1
<1>3. ~keys.pending => keys.accepted = keys.desired
  BY DEF Flushable, DeliveryReset
<1> HIDE DEF r, at, now, keys, latch, hot, hlatch
<1>4. r = [held |-> r.held, keys |-> r.keys, latch |-> r.latch, hot |-> r.hot,
           hlatch |-> r.hlatch, at |-> r.at, pc |-> r.pc]
  BY <1>1 DEF Flushable, AppRecord
<1>5. r.pc = a.pc /\ r.at = at /\ r.keys = keys /\ r.latch = latch /\ r.hot = hot
      /\ r.hlatch = hlatch
  BY <1>1 DEF Flushable, AppRecord
<1>6. Flushable(r)
  BY <1>2, <1>3, <1>4, <1>5 DEF Flushable, AppRecord, Hot
<1> QED
  BY <1>5, <1>6 DEF r, at, now, keys, latch, hot, hlatch

\* What the sample shows to be over is given up, the rest stays.
LEMMA ReconciledAccount ==
  ASSUME NEW a, Flushable(a), NEW b
  PROVE  LET r == Reconciled(a, b)
             at == NowAt(b)
         IN /\ LatchesOk(r)
            /\ \A s \in Bridged, h \in Hotkeys : Wants(r.hot[s], h) => Wants(a.hot[s], h)
            /\ \A l \in Lifetimes : LessFor(a, r, l)
            /\ \A l \in Lifetimes : at[l[1]] = l[2] => SameFor(a, r, l)
<1> DEFINE r == Reconciled(a, b)
           at == NowAt(b)
           now == KeysOf(a.held)
<1>1. /\ r.at = at
      /\ r.keys = IF LifetimeLost(a.latch, at) THEN DeliveryReset(now) ELSE a.keys
      /\ r.latch = IF LifetimeLost(a.latch, at) THEN Committed(Suppressed, now = {}) ELSE a.latch
      /\ \A s \in Bridged :
           /\ r.hot[s] = IF LifetimeLost(a.hlatch[s], at) THEN HotReset(a.hot[s]) ELSE a.hot[s]
           /\ r.hlatch[s] = IF LifetimeLost(a.hlatch[s], at)
                            THEN Committed(Suppressed, a.hot[s].desired = NoHot)
                            ELSE a.hlatch[s]
  BY ReconciledMeans
<1> HIDE DEF r, at, now
<1>2. \A released : Committed(Suppressed, released) \in {NoLatch, Suppressed}
  BY DEF Committed
<1>3. \A latch \in {NoLatch, Suppressed} : ~LifetimeLost(latch, at) /\ LifeOf(latch) \notin Lifetimes
  BY NoLifetime DEF LifetimeLost
<1>4. LatchesOk(r)
  BY <1>1, <1>2, <1>3 DEF LatchesOk
<1>5. \A s \in Bridged, h \in Hotkeys : Wants(r.hot[s], h) => Wants(a.hot[s], h)
  <2>1. \A s \in Bridged : a.hot[s] \in Hot
    BY DEF Flushable, AppRecord, Hot
  <2>2. \A d \in Hot, h \in Hotkeys : Wants(HotReset(d), h) => Wants(d, h)
    BY DEF HotReset, Wants, Hot
  <2> QED
    BY <1>1, <2>1, <2>2
<1>6. ASSUME NEW l \in Lifetimes
      PROVE  LessFor(a, r, l) /\ (at[l[1]] = l[2] => SameFor(a, r, l))
  <2>1. \A latch : LifeOf(latch) = l => IsLatched(latch) /\ latch.owner = l[1] /\ latch.epoch = l[2]
    BY NoLifetime DEF LifeOf
  <2>2. \A latch : LifeOf(latch) = l /\ at[l[1]] = l[2] => ~LifetimeLost(latch, at)
    BY <2>1 DEF LifetimeLost
  <2>3. \/ Owned(r, l) = Owned(a, l)
        \/ Owned(r, l) = {} /\ LifetimeLost(a.latch, at)
    BY <1>1, <1>2, <1>3 DEF Owned
  <2>4. at[l[1]] = l[2] => Owned(r, l) = Owned(a, l)
    BY <1>1, <1>2, <1>3, <2>2 DEF Owned
  <2>5. ASSUME NEW s \in Bridged, NEW h \in Hotkeys
        PROVE  /\ Has(r, l, s, h) => Has(a, l, s, h)
               /\ at[l[1]] = l[2] => (Has(r, l, s, h) <=> Has(a, l, s, h))
    <3>1. CASE LifetimeLost(a.hlatch[s], at)
      BY <1>1, <1>2, <1>3, <2>2, <3>1 DEF Has
    <3>2. CASE ~LifetimeLost(a.hlatch[s], at)
      BY <1>1, <3>2 DEF Has
    <3> QED
      BY <3>1, <3>2
  <2> QED
    BY <2>3, <2>4, <2>5 DEF LessFor, SameFor
<1> QED
  BY <1>4, <1>5, <1>6 DEF r, at

\* A chord that has gone without a trace leaves its latch.
LEMMA FlushingAccount ==
  ASSUME NEW a, Flushable(a), LatchesOk(a)
  PROVE  LET f == Flushing(a)
         IN /\ LatchesOk(f) /\ f.hot = a.hot /\ f.at = a.at
            /\ \A l \in Lifetimes : SameFor(a, f, l)
<1> DEFINE f == Flushing(a)
           pc == IF a.keys.pending THEN "keys" ELSE "idle"
           latch == IF ~a.keys.pending /\ a.keys.desired = {} THEN NoLatch ELSE a.latch
<1>1. f = [a EXCEPT !.pc = pc, !.latch = latch]
  BY DEF Flushing, Flushable, AppRecord
<1> HIDE DEF f, pc, latch
<1>2. f.keys = a.keys /\ f.latch = latch /\ f.hot = a.hot /\ f.hlatch = a.hlatch /\ f.at = a.at
  BY <1>1 DEF Flushable, AppRecord
<1>3. latch = a.latch \/ (latch = NoLatch /\ a.keys.accepted = {})
  BY DEF latch, Flushable
<1>4. LatchesOk(f)
  BY <1>2, <1>3, NoLifetime DEF LatchesOk, LifetimeLost
<1>5. \A l \in Lifetimes : SameFor(a, f, l)
  BY <1>2, <1>3, NoLifetime DEF SameFor, Owned, Has
<1> QED
  BY <1>2, <1>4, <1>5 DEF f

LEMMA SharedKept ==
  ASSUME NEW a, NEW sh, SharedOk(a, sh), NEW z, NEW th, sh \subseteq th,
         \A s \in Bridged, h \in Hotkeys : Wants(z.hot[s], h) => Wants(a.hot[s], h)
  PROVE  SharedOk(z, th)
BY DEF SharedOk

-----------------------------------------------------------------------------
(* Steps of the main task that sample the lifetimes. *)

\* The account is as it was for every lifetime.
AllSame(a, z) == \A l \in Lifetimes : SameFor(a, z, l)

LEMMA SidesKept ==
  ASSUME KeyboardOk, NEW a, NEW u, NEW b, NEW vu, NEW vb, NEW sh, Sides(a, u, b, vu, vb, sh),
         u.epoch \in Nat, NEW z, AllSame(a, z), NEW th, sh \subseteq th, AppSide(z, th)
  PROVE  Sides(z, u, b, vu, vb, th)
<1>1. Usb(u.epoch) \in Lifetimes /\ Ble(adapter.gen) \in Lifetimes
  BY DEF KeyboardOk, AdapterOk, Lifetimes, Transports, Usb, Ble
<1>2. SameFor(a, z, Usb(u.epoch)) /\ SameFor(a, z, Ble(adapter.gen))
  BY <1>1 DEF AllSame
<1>3. UsbSide(z, u, vu, th)
  BY <1>2, UsbSideKept DEF Sides
<1>4. BleSide(z, b, AdapterOwner, adapter.gen, vb, th)
  BY <1>2, SameIsLess, BleSideKept DEF Sides
<1> QED
  BY <1>3, <1>4 DEF Sides

\* Only the step of the main task moves.
Alike(a, z) ==
  /\ z.keys = a.keys /\ z.latch = a.latch /\ z.hot = a.hot /\ z.hlatch = a.hlatch /\ z.at = a.at

LEMMA AlikeSides ==
  ASSUME KeyboardOk, NEW a, NEW u, NEW b, NEW vu, NEW vb, NEW sh, Sides(a, u, b, vu, vb, sh),
         u.epoch \in Nat, NEW z, Alike(a, z)
  PROVE  Sides(z, u, b, vu, vb, sh)
<1>1. AllSame(a, z)
  BY DEF Alike, AllSame, SameFor, Owned, Has
<1>2. AppSide(z, sh)
  BY DEF Sides, AppSide, LatchesOk, SharedOk, Alike
<1> QED
  BY <1>1, <1>2, SidesKept

LEMMA PausedIsAlike ==
  ASSUME NEW a, AppRecord(a), NEW pc
  PROVE  Alike(a, [a EXCEPT !.pc = pc])
BY DEF AppRecord, Alike

LEMMA WatchedMeans ==
  /\ Watched.live => hosts.Ble.live /\ Watched = hosts.Ble /\ Life("Ble") \notin env.late
  /\ hosts'.Ble = hosts.Ble /\ adapter'.gen = adapter.gen /\ env'.late = env.late =>
       Watched' = Watched
<1>1. Life("Ble") = Ble(adapter.gen) /\ Life("Ble")' = Ble(adapter'.gen)
  BY DEF Life
<1> QED
  BY <1>1 DEF Watched, NoView

\* A step of the main task, or one that leaves the lifetimes alone.
LEMMA DeliveredStep ==
  ASSUME DeliveredOk, adapter'.owner = adapter.owner, adapter'.gen = adapter.gen,
         helper' = helper, Sides(app', usb', ble', hosts'.Usb, Watched', env'.shared)
  PROVE  DeliveredOk'
<1>1. AdapterOwner' = AdapterOwner
  BY DEF AdapterOwner
<1>2. HelperOk'
  BY DEF DeliveredOk, HelperOk
<1>3. AppSide(app', env'.shared) /\ UsbSide(app', usb', hosts'.Usb, env'.shared)
  BY DEF Sides
<1>4. BleSide(app', ble', AdapterOwner', adapter'.gen, Watched', env'.shared)
  BY <1>1 DEF Sides
<1>5. BleSide(app, ble, AdapterOwner, adapter.gen, Watched, env.shared)'
  BY <1>4 DEF BleSide, BleServes
<1> QED
  BY <1>2, <1>3, <1>5 DEF DeliveredOk, Sides

\* One that the BLE host does not notice.
LEMMA QuietStep ==
  ASSUME DeliveredOk, adapter'.owner = adapter.owner, adapter'.gen = adapter.gen,
         helper' = helper, hosts'.Ble = hosts.Ble, env'.late = env.late,
         Sides(app', usb', ble', hosts'.Usb, Watched, env'.shared)
  PROVE  DeliveredOk'
<1>1. Watched' = Watched
  BY WatchedMeans
<1> QED
  BY <1>1, DeliveredStep

\* A host that is alive is sampled with its epoch.
LEMMA LiveIsSampled ==
  ASSUME KeyboardOk
  PROVE  LET at == NowAt(Refreshed(ble))
         IN /\ hosts.Usb.live => at.Usb = usb.epoch
            /\ hosts.Ble.live /\ ~Recovering(ble) => at.Ble = adapter.gen
<1> DEFINE b == Refreshed(ble)
<1>1. hosts.Usb.live => UsbEpoch(usb) = usb.epoch
  BY EpochIsCurrent DEF KeyboardOk, LinksOk
<1>2. ASSUME hosts.Ble.live, ~Recovering(ble)
      PROVE  BleEpoch(b) = adapter.gen
  <2>1. adapter.owner # 0 /\ AdapterOk(adapter) /\ BleRecord(ble)
    BY <1>2 DEF KeyboardOk, LinksOk, BleOk
  <2>2. AdapterOwner # NoOwner /\ AdapterOwner.gen = adapter.gen
    BY <2>1, OwnersEpoch
  <2>3. b = Adopted(ble, AdapterOwner)
    BY <1>2 DEF Refreshed
  <2>4. b.active = AdapterOwner
    BY <2>1, <2>3, KeepsActive
  <2>5. b.phase = ble.phase
    BY <2>1, <2>3 DEF Adopted, BleRecord
  <2>6. Identity(b) = AdapterOwner
    BY <1>2, <2>5 DEF Identity, Recovering
  <2> QED
    BY <2>2, <2>4, <2>6 DEF BleEpoch
<1> QED
  BY <1>1, <1>2 DEF NowAt

LEMMA ReconciledSides ==
  ASSUME KeyboardOk, NEW a, Flushable(a), NEW sh, SharedOk(a, sh), UsbSide(a, usb, hosts.Usb, sh),
         BleSide(a, ble, AdapterOwner, adapter.gen, Watched, sh)
  PROVE  Sides(Reconciled(a, Refreshed(ble)), usb, Refreshed(ble), hosts.Usb, Watched, sh)
<1> DEFINE b == Refreshed(ble)
           r == Reconciled(a, b)
           at == NowAt(b)
           l == Usb(usb.epoch)
           m == Ble(adapter.gen)
<1>1. l \in Lifetimes /\ m \in Lifetimes /\ l[1] = "Usb" /\ l[2] = usb.epoch
      /\ m[1] = "Ble" /\ m[2] = adapter.gen
  BY DEF KeyboardOk, UsbOk, AdapterOk, Lifetimes, Transports, Usb, Ble
<1>2. hosts.Usb.live => at.Usb = usb.epoch
  BY LiveIsSampled
<1>3. Watched.live /\ ~Recovering(ble) => at.Ble = adapter.gen
  BY LiveIsSampled, WatchedMeans
<1>4. BleRecord(ble) /\ AdapterOk(adapter)
  BY DEF KeyboardOk, BleOk
<1>5. BleSide(a, b, AdapterOwner, adapter.gen, Watched, sh) /\ b.phase = ble.phase
  BY <1>4, BleRefreshedSide
<1>6. /\ LatchesOk(r)
      /\ \A s \in Bridged, h \in Hotkeys : Wants(r.hot[s], h) => Wants(a.hot[s], h)
      /\ \A k \in Lifetimes : LessFor(a, r, k)
      /\ \A k \in Lifetimes : at[k[1]] = k[2] => SameFor(a, r, k)
  BY ReconciledAccount
<1> HIDE DEF b, r, at
<1>7. hosts.Usb.live => SameFor(a, r, l)
  BY <1>1, <1>2, <1>6
<1>8. Watched.live /\ ~Recovering(b) => SameFor(a, r, m)
  BY <1>1, <1>3, <1>5, <1>6 DEF Recovering
<1>9. UsbSide(r, usb, hosts.Usb, sh)
  BY <1>7, UsbSideKept
<1>10. BleSide(r, b, AdapterOwner, adapter.gen, Watched, sh)
  BY <1>1, <1>5, <1>6, <1>8, BleSideKept
<1>11. SharedOk(r, sh)
  BY <1>6, SharedKept
<1> QED
  BY <1>6, <1>9, <1>10, <1>11 DEF Sides, AppSide, b, r

LEMMA AppIsFlushable ==
  ASSUME KeyboardOk
  PROVE  Flushable(app)
BY DEF KeyboardOk, AppOk, HotsOk, KeysOk, DeliveryOk, Flushable

\* Flush, of an account that is the same so far.
LEMMA FlushSides ==
  ASSUME KeyboardOk, DeliveredOk, NEW a, Flushable(a), AllSame(app, a),
         \A s \in Bridged, h \in Hotkeys : Wants(a.hot[s], h) => Wants(app.hot[s], h), Flush(a)
  PROVE  Sides(app', usb, ble', hosts.Usb, Watched, env.shared)
<1> DEFINE b == Refreshed(ble)
           r == Reconciled(a, b)
           f == Flushing(r)
           sh == env.shared
           l == Usb(usb.epoch)
           m == Ble(adapter.gen)
<1>1. SharedOk(a, sh)
  BY SharedKept DEF DeliveredOk, Sides, AppSide
<1>2. SameFor(app, a, l) /\ SameFor(app, a, m) /\ usb.epoch \in Nat
  <2>1. l \in Lifetimes /\ m \in Lifetimes /\ usb.epoch \in Nat
    BY DEF KeyboardOk, UsbOk, AdapterOk, Lifetimes, Transports, Usb, Ble
  <2> HIDE DEF l, m
  <2> QED
    BY <2>1 DEF AllSame
<1>3. UsbSide(a, usb, hosts.Usb, sh)
  BY <1>2, UsbSideKept DEF DeliveredOk, Sides
<1>4. BleSide(a, ble, AdapterOwner, adapter.gen, Watched, sh)
  BY <1>2, SameIsLess, BleSideKept DEF DeliveredOk, Sides
<1>5. Sides(r, usb, b, hosts.Usb, Watched, sh)
  BY <1>1, <1>3, <1>4, ReconciledSides
<1>6. Flushable(r) /\ LatchesOk(r)
  BY ReconciledMeans, ReconciledAccount
<1>7. app' = f /\ ble' = b
  BY DEF Flush
<1> HIDE DEF r, b
<1>8. LatchesOk(f) /\ f.hot = r.hot /\ AllSame(r, f)
  BY <1>6, FlushingAccount DEF AllSame
<1> HIDE DEF f
<1>9. AppSide(f, sh)
  BY <1>5, <1>8 DEF AppSide, Sides, SharedOk
<1>10. Sides(f, usb, b, hosts.Usb, Watched, sh)
  BY <1>2, <1>5, <1>8, <1>9, SidesKept
<1> QED
  BY <1>7, <1>10

LEMMA FlushDelivers ==
  ASSUME KeyboardOk, DeliveredOk, NEW a, Flushable(a), AllSame(app, a),
         \A s \in Bridged, h \in Hotkeys : Wants(a.hot[s], h) => Wants(app.hot[s], h), Flush(a),
         UNCHANGED <<usb, adapter, helper, hosts>>, env'.shared = env.shared,
         env'.late = env.late
  PROVE  DeliveredOk'
<1>1. Sides(app', usb, ble', hosts.Usb, Watched, env.shared)
  BY FlushSides
<1> QED
  BY <1>1, QuietStep

\* Steps in which at most the step of the main task moves in its account.
LEMMA PausedDelivers ==
  ASSUME KeyboardOk, DeliveredOk, NEW pc, app' = [app EXCEPT !.pc = pc], usb'.epoch \in Nat,
         adapter'.owner = adapter.owner, adapter'.gen = adapter.gen, helper' = helper,
         env'.shared = env.shared,
         UsbSide(app, usb', hosts'.Usb, env.shared),
         BleSide(app, ble', AdapterOwner, adapter.gen, Watched', env.shared)
  PROVE  DeliveredOk'
<1>1. Alike(app, app')
  BY PausedIsAlike DEF KeyboardOk, AppOk
<1>2. Sides(app, usb', ble', hosts'.Usb, Watched', env.shared)
  BY DEF DeliveredOk, Sides
<1>3. Sides(app', usb', ble', hosts'.Usb, Watched', env.shared)
  BY <1>1, <1>2, AlikeSides
<1> QED
  BY <1>3, DeliveredStep

LEMMA QuietlyPaused ==
  ASSUME KeyboardOk, DeliveredOk, NEW pc, app' = [app EXCEPT !.pc = pc], usb'.epoch \in Nat,
         adapter'.owner = adapter.owner, adapter'.gen = adapter.gen, helper' = helper,
         hosts'.Ble = hosts.Ble, env'.late = env.late, env'.shared = env.shared,
         UsbSide(app, usb', hosts'.Usb, env.shared),
         BleSide(app, ble', AdapterOwner, adapter.gen, Watched, env.shared)
  PROVE  DeliveredOk'
<1>1. Watched' = Watched
  BY WatchedMeans
<1> QED
  BY <1>1, PausedDelivers

\* What is wanted changes, what was accepted stays.
SameAccepted(a, c) ==
  /\ c.latch = a.latch /\ c.hlatch = a.hlatch /\ c.keys.accepted = a.keys.accepted
  /\ \A s \in Bridged : c.hot[s].accepted = a.hot[s].accepted

LEMMA AcceptedIsAccount ==
  ASSUME NEW a, NEW c, SameAccepted(a, c)
  PROVE  AllSame(a, c)
BY DEF SameAccepted, AllSame, SameFor, Owned, Has

LEMMA ChordIsFlushable ==
  ASSUME KeyboardOk, NEW held \in SUBSET DOMAIN Key
  PROVE  LET a == [app EXCEPT !.held = held, !.keys = Desired(app.keys, KeysOf(held))]
         IN Flushable(a) /\ SameAccepted(app, a) /\ a.hot = app.hot
<1> DEFINE d == Desired(app.keys, KeysOf(held))
           c == [app EXCEPT !.held = held, !.keys = d]
<1>1. DeliveryOk(d, held) /\ d.accepted = app.keys.accepted
  BY DesiredOk DEF KeyboardOk, AppOk, KeysOk
<1>2. AppRecord(app) /\ Flushable(app) /\ c = [app EXCEPT !.held = held, !.keys = d]
  BY AppIsFlushable DEF Flushable
<1> HIDE DEF c, d
<1>3. AppRecord(c)
  BY <1>2 DEF AppRecord
<1>4. /\ c.held = held /\ c.keys = d /\ c.latch = app.latch /\ c.hot = app.hot
      /\ c.hlatch = app.hlatch
  BY <1>2 DEF AppRecord
<1>5. Flushable(c)
  BY <1>1, <1>2, <1>3, <1>4 DEF Flushable, DeliveryOk
<1> QED
  BY <1>1, <1>4, <1>5 DEF SameAccepted, c, d

LEMMA HoldDelivers ==
  ASSUME KeyboardOk, DeliveredOk, NEW held \in SUBSET DOMAIN Key, Hold(held),
         UNCHANGED <<usb, adapter, helper, hosts>>, env'.shared = env.shared,
         env'.late = env.late
  PROVE  DeliveredOk'
<1>1. CASE KeysOf(held) = KeysOf(app.held)
  <2> DEFINE c == [app EXCEPT !.held = held]
  <2>1. app' = c /\ ble' = ble /\ AppRecord(app)
    BY <1>1 DEF Hold, KeyboardOk, AppOk
  <2>2. Alike(app, c)
    BY <2>1 DEF AppRecord, Alike
  <2> HIDE DEF c
  <2>3. Sides(app', usb, ble, hosts.Usb, Watched, env.shared)
    BY <2>1, <2>2, AlikeSides DEF DeliveredOk, KeyboardOk, UsbOk
  <2> QED
    BY <2>1, <2>3, QuietStep
<1>2. CASE KeysOf(held) # KeysOf(app.held)
  <2> DEFINE a == [app EXCEPT !.held = held, !.keys = Desired(app.keys, KeysOf(held))]
  <2>1. Flush(a)
    BY <1>2 DEF Hold
  <2>2. Flushable(a) /\ SameAccepted(app, a) /\ a.hot = app.hot
    BY ChordIsFlushable
  <2> HIDE DEF a
  <2>3. AllSame(app, a)
    BY <2>2, AcceptedIsAccount
  <2> QED
    BY <2>1, <2>2, <2>3, FlushDelivers
<1> QED
  BY <1>1, <1>2

LEMMA PressDelivers ==
  ASSUME KeyboardOk, DeliveredOk, NEW s \in DOMAIN Key, Press(s)
  PROVE  DeliveredOk'
<1> DEFINE born == Born({Key[s]})
           held == app.held \cup {s}
<1>1. EnvOk /\ env = [left |-> env.left, born |-> env.born, behind |-> env.behind, shared |-> env.shared,
           late |-> env.late]
  BY DEF KeyboardOk, EnvOk
<1>2. /\ Left("presses") /\ Hold(held) /\ UNCHANGED <<usb, adapter, helper, hosts>>
      /\ env' = [env EXCEPT !.left.presses = @ - 1, !.born = born]
  BY DEF Press
<1>3. DOMAIN born = Inputs
  BY <1>1 DEF Born, EnvOk
<1> HIDE DEF born
<1>4. Pressing("presses", born, env.behind, env.shared)
  BY <1>1, <1>2 DEF Pressing
<1>5. env'.shared = env.shared /\ env'.late = env.late
  BY <1>1, <1>2, <1>3, <1>4, PressedEnv DEF Budget
<1>6. held \in SUBSET DOMAIN Key
  BY DEF KeyboardOk, AppOk, KeysOk
<1> HIDE DEF held
<1> QED
  BY <1>2, <1>5, <1>6, HoldDelivers

LEMMA ReleaseDelivers ==
  ASSUME KeyboardOk, DeliveredOk, NEW s \in DOMAIN Key, Release(s)
  PROVE  DeliveredOk'
<1>1. app.held \ {s} \in SUBSET DOMAIN Key
  BY DEF KeyboardOk, AppOk, KeysOk
<1> QED
  BY <1>1, HoldDelivers DEF Release

LEMMA FlushKeysDelivers ==
  ASSUME KeyboardOk, DeliveredOk, FlushKeys
  PROVE  DeliveredOk'
<1>1. Flushable(app) /\ AllSame(app, app)
  BY AppIsFlushable, AcceptedIsAccount DEF SameAccepted
<1> QED
  BY <1>1, FlushDelivers DEF FlushKeys

LEMMA ReleaseAllDelivers ==
  ASSUME KeyboardOk, DeliveredOk, ReleaseAll
  PROVE  DeliveredOk'
<1> DEFINE b == [app EXCEPT !.held = {}, !.keys = Desired(app.keys, KeysOf({}))]
           hot == [s \in Bridged |-> [app.hot[s] EXCEPT !.desired = NoHot]]
           a == [b EXCEPT !.hot = hot]
<1>1. /\ Left("switches") /\ Spend("switches") /\ UNCHANGED <<usb, adapter, helper, hosts>>
      /\ Flush([app EXCEPT !.held = {}, !.keys = Desired(app.keys, {}), !.hot = hot])
  BY DEF ReleaseAll
<1>2. env'.shared = env.shared /\ env'.late = env.late
  BY <1>1, SpendingOk DEF KeyboardOk, Budget, EnvStays
<1>3. Flushable(b) /\ SameAccepted(app, b) /\ b.hot = app.hot
  BY ChordIsFlushable
<1>4. /\ hot \in [Bridged -> Hot]
      /\ \A s \in Bridged : /\ hot[s].accepted = app.hot[s].accepted
                            /\ \A h \in Hotkeys : Wants(hot[s], h) => Wants(app.hot[s], h)
  BY NamesDiffer DEF KeyboardOk, AppOk, AppRecord, Hot, Wants
<1>5. Flush(a)
  <2>1. KeysOf({}) = {}
    BY DEF KeysOf
  <2>2. [app EXCEPT !.held = {}, !.keys = Desired(app.keys, {}), !.hot = hot] = a
    <3> HIDE DEF hot
    <3> QED
      BY <2>1
  <2> HIDE DEF a, hot
  <2> QED
    BY <1>1, <2>2
<1> HIDE DEF b, hot
<1>6. /\ a.keys = b.keys /\ a.latch = b.latch /\ a.hlatch = b.hlatch /\ a.hot = hot
      /\ a = [held |-> a.held, keys |-> a.keys, latch |-> a.latch, hot |-> a.hot,
              hlatch |-> a.hlatch, at |-> a.at, pc |-> a.pc]
  <2>1. a = [b EXCEPT !.hot = hot] /\ AppRecord(b)
    BY <1>3 DEF Flushable
  <2> HIDE DEF a
  <2> QED
    BY <2>1 DEF AppRecord
<1> HIDE DEF a
<1>7. Flushable(a)
  BY <1>3, <1>4, <1>6 DEF Flushable, AppRecord, Hot
<1>8. AllSame(app, a)
  BY <1>3, <1>4, <1>6, AcceptedIsAccount DEF SameAccepted
<1> QED
  BY <1>1, <1>2, <1>4, <1>5, <1>6, <1>7, <1>8, FlushDelivers

\* The account after another hotkey is asked for.
LEMMA BridgeSides ==
  ASSUME KeyboardOk, DeliveredOk, NEW s \in Bridged, NEW hotkey, Bridge(s, hotkey), NEW th,
         env.shared \subseteq th, hotkey \in Hotkeys /\ HadElsewhere(s, hotkey) => hotkey \in th
  PROVE  Sides(app', usb, ble', hosts.Usb, Watched, th)
<1> DEFINE b == Refreshed(ble)
           r == Reconciled(app, b)
           z == [r EXCEPT !.hot[s].desired = hotkey, !.pc = s]
<1>1. Sides(r, usb, b, hosts.Usb, Watched, env.shared)
  BY AppIsFlushable, ReconciledSides DEF DeliveredOk, Sides, AppSide
<1>2. /\ Flushable(r) /\ LatchesOk(r)
      /\ \A o \in Bridged, h \in Hotkeys : Wants(r.hot[o], h) => Wants(app.hot[o], h)
  BY AppIsFlushable, ReconciledMeans, ReconciledAccount
<1>3. app' = z /\ ble' = b
  BY DEF Bridge
<1> DEFINE d == [r.hot[s] EXCEPT !.desired = hotkey]
           hot == [r.hot EXCEPT ![s] = d]
<1> HIDE DEF r, b
<1>4. z = [r EXCEPT !.hot = hot, !.pc = s] /\ AppRecord(r)
  BY <1>2 DEF Flushable, AppRecord
<1>5. /\ d.accepted = r.hot[s].accepted /\ d.desired = hotkey
      /\ \A o \in Bridged : hot[o] = IF o = s THEN d ELSE r.hot[o]
  BY <1>2 DEF Flushable, AppRecord
<1> HIDE DEF z, d, hot
<1>6. z.keys = r.keys /\ z.latch = r.latch /\ z.hlatch = r.hlatch /\ z.at = r.at /\ z.hot = hot
  BY <1>4 DEF AppRecord
<1>7. AllSame(r, z)
  BY <1>5, <1>6, AcceptedIsAccount DEF SameAccepted
<1>8. LatchesOk(z)
  BY <1>2, <1>6 DEF LatchesOk
<1>9. SharedOk(z, th)
  <2> SUFFICES ASSUME NEW o \in Bridged, NEW p \in Bridged, NEW h \in Hotkeys, o # p,
                      Wants(z.hot[o], h), Wants(z.hot[p], h)
               PROVE  h \in th
    BY DEF SharedOk
  <2>1. SharedOk(app, env.shared)
    BY DEF DeliveredOk, Sides, AppSide
  <2>2. \A q \in Bridged : Wants(z.hot[q], h) => Wants(app.hot[q], h) \/ (q = s /\ h = hotkey)
    BY <1>2, <1>5, <1>6 DEF Wants
  <2>3. CASE Wants(app.hot[o], h) /\ Wants(app.hot[p], h)
    BY <2>1, <2>3 DEF SharedOk
  <2>4. CASE h = hotkey /\ ((o = s /\ Wants(app.hot[p], h)) \/ (p = s /\ Wants(app.hot[o], h)))
    BY <2>4 DEF HadElsewhere, Wants
  <2> QED
    BY <2>2, <2>3, <2>4
<1>10. usb.epoch \in Nat
  BY DEF KeyboardOk, UsbOk
<1>11. Sides(z, usb, b, hosts.Usb, Watched, th)
  BY <1>1, <1>7, <1>8, <1>9, <1>10, SidesKept DEF AppSide
<1> QED
  BY <1>3, <1>11

LEMMA HotkeyUpDelivers ==
  ASSUME KeyboardOk, DeliveredOk, NEW s \in Bridged, HotkeyUp(s)
  PROVE  DeliveredOk'
<1>1. Bridge(s, NoHot) /\ UNCHANGED <<usb, adapter, helper, hosts, env>>
  BY DEF HotkeyUp
<1>2. Sides(app', usb, ble', hosts.Usb, Watched, env.shared)
  BY <1>1, NamesDiffer, BridgeSides
<1> QED
  BY <1>1, <1>2, QuietStep

LEMMA HotkeyDownDelivers ==
  ASSUME KeyboardOk, DeliveredOk, NEW s \in Bridged, NEW h \in env.left.hotkeys, HotkeyDown(s, h)
  PROVE  DeliveredOk'
<1> DEFINE born == Born({h})
           behind == IF app.hot[s].accepted \in {NoHot, h} THEN env.behind
                     ELSE env.behind \cup {h}
           shared == IF HadElsewhere(s, h) THEN env.shared \cup {h} ELSE env.shared
<1>1. EnvOk /\ env = [left |-> env.left, born |-> env.born, behind |-> env.behind, shared |-> env.shared,
           late |-> env.late]
  BY DEF KeyboardOk, EnvOk
<1>2. /\ Left("presses") /\ Bridge(s, h) /\ UNCHANGED <<usb, adapter, helper, hosts>>
      /\ env' = [env EXCEPT !.left.presses = @ - 1, !.born = born, !.behind = behind,
                            !.shared = shared]
  BY DEF HotkeyDown
<1>3. DOMAIN born = Inputs
  BY <1>1 DEF Born, EnvOk
<1>4. env.shared \subseteq shared /\ (HadElsewhere(s, h) => h \in shared)
  OBVIOUS
<1> HIDE DEF born, behind, shared
<1>5. Pressing("presses", born, behind, shared)
  BY <1>1, <1>2 DEF Pressing
<1>6. env'.shared = shared /\ env'.late = env.late
  BY <1>1, <1>2, <1>3, <1>5, PressedEnv DEF Budget
<1>7. Sides(app', usb, ble', hosts.Usb, Watched, shared)
  BY <1>2, <1>4, BridgeSides
<1> QED
  BY <1>2, <1>6, <1>7, QuietStep

-----------------------------------------------------------------------------
(* Reports that are offered to the transport of a latch. *)

\* What is counted as delivered to l changes by the report r.
Tells(a, z, l, r, sh) ==
  \/ /\ IsSnapshot(r) /\ Owned(z, l) = r.keys
     /\ \A s \in Bridged, h \in Hotkeys : Has(z, l, s, h) <=> Has(a, l, s, h)
  \/ /\ r.class \in {"CommandPress", "CommandRelease"} /\ Owned(z, l) = Owned(a, l)
     /\ \E s \in Bridged :
          /\ Moves(a, z, l, s, r)
          /\ r.class = "CommandRelease" => \A o \in Bridged \ {s} : Has(a, l, o, r.hot) => r.hot \in sh

LEMMA UsbQueuedSide ==
  ASSUME NEW w, NEW u, UsbOk(w, u), u.reset = FALSE, NEW a, NEW z, NEW v, NEW sh,
         UsbSide(a, u, v, sh), NEW r \in Entries, r.own = Usb(u.epoch),
         Tells(a, z, Usb(u.epoch), r, sh)
  PROVE  UsbSide(z, UsbQueued(u, r), v, sh) /\ UsbQueued(u, r).epoch = u.epoch
<1> DEFINE x == UsbQueued(u, r)
<1>1. x = IF IsSnapshot(r) THEN [u EXCEPT !.keys = Pushed(u.keys, r), !.shown = r.keys]
          ELSE [u EXCEPT !.cmds = Append(u.cmds, r)]
  BY DEF UsbQueued
<1>2. UsbRecord(u)
  BY DEF UsbOk
<1> HIDE DEF x
<1>3. CASE IsSnapshot(r)
  <2>1. x = [u EXCEPT !.keys = Pushed(u.keys, r), !.shown = r.keys]
    BY <1>1, <1>3
  <2>2. /\ x.keys = Pushed(u.keys, r) /\ x.cmds = u.cmds /\ x.shown = r.keys
        /\ x.reset = u.reset /\ x.epoch = u.epoch
    BY <1>2, <2>1 DEF UsbRecord
  <2>3. /\ Owned(z, Usb(u.epoch)) = r.keys
        /\ \A s \in Bridged, h \in Hotkeys : Has(z, Usb(u.epoch), s, h) <=> Has(a, Usb(u.epoch), s, h)
    BY <1>3 DEF Tells, IsSnapshot
  <2>4. UsbSide(z, x, v, sh)
    BY <1>3, <2>2, <2>3, UsbSideChord
  <2> QED
    BY <2>2, <2>4 DEF x
<1>4. CASE ~IsSnapshot(r)
  <2>1. x = [u EXCEPT !.cmds = Append(u.cmds, r)]
    BY <1>1, <1>4
  <2>2. /\ x.keys = u.keys /\ x.cmds = Append(u.cmds, r) /\ x.shown = u.shown
        /\ x.reset = u.reset /\ x.epoch = u.epoch
    BY <1>2, <2>1 DEF UsbRecord
  <2>3. PICK s \in Bridged :
          /\ r.class \in {"CommandPress", "CommandRelease"}
          /\ Owned(z, Usb(u.epoch)) = Owned(a, Usb(u.epoch)) /\ Moves(a, z, Usb(u.epoch), s, r)
          /\ r.class = "CommandRelease" =>
               \A o \in Bridged \ {s} : Has(a, Usb(u.epoch), o, r.hot) => r.hot \in sh
    BY <1>4 DEF Tells
  <2>4. UsbSide(z, x, v, sh)
    BY <2>2, <2>3, UsbSideHot
  <2> QED
    BY <2>2, <2>4 DEF x
<1> QED
  BY <1>3, <1>4

LEMMA BleQueuedSide ==
  ASSUME NEW w, NEW b, BleOk(w, b), ~Recovering(b), NEW o, NEW n \in Nat, NEW a, NEW z, NEW v,
         NEW sh, BleSide(a, b, o, n, v, sh), v.live => ~BleNew(b, o),
         NEW r \in Entries, r.own = Ble(n), Tells(a, z, Ble(n), r, sh)
  PROVE  BleSide(z, [b EXCEPT !.queue = Pushed(b.queue, r)], o, n, v, sh)
<1> DEFINE q == Pushed(b.queue, r)
           c == [b EXCEPT !.queue = q]
<1>1. c = [b EXCEPT !.queue = q] /\ BleRecord(b)
  BY DEF BleOk
<1> HIDE DEF c
<1>2. Serving(b, c, o, v) /\ c.queue = q
  BY <1>1 DEF BleRecord, Serving, SameOwners
<1>3. CASE IsSnapshot(r)
  <2>1. /\ Owned(z, Ble(n)) = r.keys
        /\ \A s \in Bridged, h \in Hotkeys : Has(z, Ble(n), s, h) <=> Has(a, Ble(n), s, h)
    BY <1>3 DEF Tells, IsSnapshot
  <2>2. BleSide(z, c, o, n, v, sh)
    BY <1>2, <1>3, <2>1, BleSideChord
  <2> QED
    BY <2>2 DEF c
<1>4. CASE ~IsSnapshot(r)
  <2>1. PICK s \in Bridged :
          /\ r.class \in {"CommandPress", "CommandRelease"}
          /\ Owned(z, Ble(n)) = Owned(a, Ble(n)) /\ Moves(a, z, Ble(n), s, r)
          /\ r.class = "CommandRelease" =>
               \A p \in Bridged \ {s} : Has(a, Ble(n), p, r.hot) => r.hot \in sh
    BY <1>4 DEF Tells
  <2>2. c.queue = Append(b.queue, r)
    BY <1>2, <1>4 DEF Pushed, Coalesces
  <2>3. BleSide(z, c, o, n, v, sh)
    BY <1>2, <2>1, <2>2, BleSideHot
  <2> QED
    BY <2>3 DEF c
<1> QED
  BY <1>3, <1>4

\* The account is the same for every lifetime but one.
SameElsewhere(a, z, l) == \A k \in Lifetimes \ {l} : SameFor(a, z, k)

LEMMA UsbOfferSides ==
  ASSUME KeyboardOk, NEW sh, NEW yes, NEW no, Sides(no, usb, ble, hosts.Usb, Watched, sh),
         AppRecord(yes), AppRecord(no), AppSide(yes, sh), NEW r \in Entries, r.own[2] # NoEpoch,
         SameElsewhere(no, yes, r.own), Tells(no, yes, r.own, r, sh),
         OfferUsb(r, yes, no), UNCHANGED ble
  PROVE  Sides(app', usb', ble', hosts.Usb, Watched, sh) /\ usb'.epoch = usb.epoch
<1> DEFINE u == UsbReady(usb)
           ok == /\ r.own = Usb(UsbEpoch(u))
                 /\ Accepts(IF IsSnapshot(r) THEN u.keys ELSE u.cmds, r, UsbLimit(r))
           pc == IF ok \/ IsSnapshot(r) THEN "pollUsb" ELSE "idle"
<1>1. usb' = (IF ok THEN UsbQueued(u, r) ELSE u) /\ app' = [(IF ok THEN yes ELSE no) EXCEPT !.pc = pc]
  BY DEF OfferUsb
<1>2. UsbOk(World, usb) /\ usb.epoch \in Nat
  BY DEF KeyboardOk, UsbOk
<1>3. Usable(World, usb, u) /\ u.reset = FALSE
  BY <1>2, UsbReadyOk
<1>4. UsbSide(no, u, hosts.Usb, sh)
  BY <1>2, UsbReadySide DEF Sides
<1>5. UsbOk(World, u) /\ u.epoch = usb.epoch
  BY <1>3 DEF Usable, SamePort
<1>6. r.own = Usb(UsbEpoch(u)) => r.own = Usb(u.epoch)
  BY EpochIsCurrent DEF Usb
<1> HIDE DEF u, pc
<1>7. CASE ok
  <2>1. r.own = Usb(u.epoch)
    BY <1>6, <1>7
  <2>2. UsbSide(yes, UsbQueued(u, r), hosts.Usb, sh) /\ UsbQueued(u, r).epoch = u.epoch
    BY <1>3, <1>4, <1>5, <2>1, UsbQueuedSide
  <2>3. SameFor(no, yes, Ble(adapter.gen))
    BY <2>1 DEF SameElsewhere, KeyboardOk, AdapterOk, Lifetimes, Transports, Usb, Ble
  <2>4. BleSide(yes, ble, AdapterOwner, adapter.gen, Watched, sh)
    BY <2>3, SameIsLess, BleSideKept DEF Sides
  <2>5. usb' = UsbQueued(u, r) /\ app' = [yes EXCEPT !.pc = pc] /\ ble' = ble
    BY <1>1, <1>7
  <2>6. Sides(yes, usb', ble', hosts.Usb, Watched, sh) /\ usb'.epoch = usb.epoch
    BY <1>5, <2>2, <2>4, <2>5 DEF Sides
  <2>7. Alike(yes, app')
    BY <2>5, PausedIsAlike
  <2> QED
    BY <1>2, <2>6, <2>7, AlikeSides
<1>8. CASE ~ok
  <2>1. usb' = u /\ app' = [no EXCEPT !.pc = pc] /\ ble' = ble
    BY <1>1, <1>8
  <2>2. Sides(no, usb', ble', hosts.Usb, Watched, sh) /\ usb'.epoch = usb.epoch
    BY <1>4, <1>5, <2>1 DEF Sides
  <2>3. Alike(no, app')
    BY <2>1, PausedIsAlike
  <2> QED
    BY <1>2, <2>2, <2>3, AlikeSides
<1> QED
  BY <1>7, <1>8

LEMMA BleOfferSides ==
  ASSUME KeyboardOk, NEW sh, NEW yes, NEW no, Sides(no, usb, ble, hosts.Usb, Watched, sh),
         AppRecord(yes), AppRecord(no), AppSide(yes, sh), NEW r \in Entries, r.own[2] # NoEpoch,
         SameElsewhere(no, yes, r.own), Tells(no, yes, r.own, r, sh),
         OfferBle(r, yes, no), UNCHANGED usb
  PROVE  Sides(app', usb', ble', hosts.Usb, Watched, sh)
<1> DEFINE b == BleReady(ble)
           same == r.own = Ble(Identity(ble).gen)
           ok == same /\ Accepts(b.queue, r, Limit(r.class))
           pc == IF ok THEN "pollBle" ELSE "idle"
           x == [b EXCEPT !.queue = Pushed(b.queue, r)]
           n == adapter.gen
<1>1. /\ ble' = IF ok THEN x ELSE IF same THEN b ELSE ble
      /\ app' = [(IF ok THEN yes ELSE no) EXCEPT !.pc = pc]
  BY DEF OfferBle
<1>2. BleOk(World, ble) /\ AdapterOk(adapter) /\ usb.epoch \in Nat /\ n \in Nat
  BY DEF KeyboardOk, UsbOk, AdapterOk
<1>3. Serves(World, ble, b) /\ BleSide(no, b, AdapterOwner, n, Watched, sh)
      /\ (~Recovering(ble) => ~BleNew(b, AdapterOwner))
  BY <1>2, BleReadyOk, BleReadySide DEF Sides
<1>4. BleOk(World, b) /\ (Recovering(b) <=> Recovering(ble))
  BY <1>3 DEF Serves, Recovering
<1>5. same => r.own = Ble(n) /\ ~Recovering(ble)
  <2> SUFFICES ASSUME same
               PROVE  r.own = Ble(n) /\ ~Recovering(ble)
    OBVIOUS
  <2>1. Identity(ble).gen # NoEpoch
    BY DEF Ble
  <2>2. ~Recovering(ble) /\ Identity(ble) = AdapterOwner
    BY <2>1 DEF Identity, NoOwner
  <2>3. AdapterOwner.gen = n
    BY <1>2, <2>1, <2>2, OwnersEpoch
  <2> QED
    BY <2>2, <2>3
<1> HIDE DEF b, pc, same
<1>6. CASE ok
  <2>1. r.own = Ble(n) /\ ~Recovering(b) /\ ~BleNew(b, AdapterOwner)
    BY <1>3, <1>4, <1>5, <1>6
  <2>2. BleSide(yes, x, AdapterOwner, n, Watched, sh)
    BY <1>2, <1>3, <1>4, <2>1, BleQueuedSide
  <2>3. SameFor(no, yes, Usb(usb.epoch))
    BY <1>2, <2>1 DEF SameElsewhere, Lifetimes, Transports, Usb, Ble
  <2>4. UsbSide(yes, usb, hosts.Usb, sh)
    BY <2>3, UsbSideKept DEF Sides
  <2>5. usb' = usb /\ app' = [yes EXCEPT !.pc = pc] /\ ble' = x
    BY <1>1, <1>6
  <2> HIDE DEF x
  <2>6. Sides(yes, usb', ble', hosts.Usb, Watched, sh)
    BY <2>2, <2>4, <2>5 DEF Sides
  <2>7. Alike(yes, app')
    BY <2>5, PausedIsAlike
  <2> QED
    BY <1>2, <2>5, <2>6, <2>7, AlikeSides
<1>7. CASE ~ok
  <2>1. usb' = usb /\ app' = [no EXCEPT !.pc = pc] /\ ble' \in {b, ble}
    BY <1>1, <1>7
  <2>2. Sides(no, usb', ble', hosts.Usb, Watched, sh)
    BY <1>3, <2>1 DEF Sides
  <2>3. Alike(no, app')
    BY <2>1, PausedIsAlike
  <2> QED
    BY <1>2, <2>1, <2>2, <2>3, AlikeSides
<1> QED
  BY <1>6, <1>7

LEMMA OfferSides ==
  ASSUME KeyboardOk, NEW sh, NEW yes, NEW no, Sides(no, usb, ble, hosts.Usb, Watched, sh),
         AppRecord(yes), AppRecord(no), AppSide(yes, sh), NEW m, NEW r,
         IsLatched(m) => /\ r \in Entries /\ r.own = LifeOf(m) /\ r.own[2] # NoEpoch
                         /\ SameElsewhere(no, yes, r.own) /\ Tells(no, yes, r.own, r, sh),
         ~IsLatched(m) => AllSame(no, yes),
         Offer(m, r, yes, no)
  PROVE  Sides(app', usb', ble', hosts.Usb, Watched, sh)
<1>1. CASE m.owner = "Usb" /\ OfferUsb(r, yes, no) /\ UNCHANGED ble
  BY <1>1, UsbOfferSides DEF IsLatched
<1>2. CASE m.owner = "Ble" /\ OfferBle(r, yes, no) /\ UNCHANGED usb
  BY <1>2, BleOfferSides DEF IsLatched
<1>3. CASE ~IsLatched(m) /\ app' = [yes EXCEPT !.pc = "idle"] /\ UNCHANGED <<usb, ble>>
  <2>1. usb.epoch \in Nat
    BY DEF KeyboardOk, UsbOk
  <2>2. Sides(yes, usb, ble, hosts.Usb, Watched, sh)
    BY <1>3, <2>1, SidesKept
  <2>3. Alike(yes, app')
    BY <1>3, PausedIsAlike
  <2>4. Sides(app', usb, ble, hosts.Usb, Watched, sh)
    BY <2>1, <2>2, <2>3, AlikeSides
  <2> QED
    BY <1>3, <2>4
<1> QED
  BY <1>1, <1>2, <1>3 DEF Offer

\* A latch that has seen the samples chooses only when it is free.
LEMMA SelectedMeans ==
  ASSUME NEW l, NEW at, ~LifetimeLost(l, at), NEW up
  PROVE  LET m == Selected(l, up, at)
         IN ~LifetimeLost(m, at) /\ (m # l => l.owner = "None") /\ (up => m = l)
<1> DEFINE first == IF at.Usb # NoEpoch THEN "Usb" ELSE "Ble"
           chosen == [owner |-> first, epoch |-> at[first]]
           m == Selected(l, up, at)
<1>1. Observed(l, at) = l
  BY DEF Observed
<1>2. m = IF up \/ l.owner # "None" THEN l
          ELSE IF at[first] = NoEpoch THEN Suppressed ELSE chosen
  BY <1>1 DEF Selected
<1>3. ~LifetimeLost(Suppressed, at) /\ ~LifetimeLost(chosen, at)
  BY NoLifetime DEF LifetimeLost
<1> HIDE DEF first, chosen
<1> QED
  BY <1>2, <1>3

LEMMA SendKeysDelivers ==
  ASSUME KeyboardOk, DeliveredOk, SendKeys
  PROVE  DeliveredOk'
<1> DEFINE keys == app.keys.desired
           up == keys = {}
           m == Selected(app.latch, up, app.at)
           class == ClassOf(app.keys.accepted, keys)
           r == KeysReport(class, keys, LifeOf(m))
           d == Delivered(app.keys)
           l == Committed(m, up)
           yes == [app EXCEPT !.keys = d, !.latch = l]
           no == [app EXCEPT !.latch = m]
           sh == env.shared
<1>1. app.pc = "keys" /\ Offer(m, r, yes, no) /\ UNCHANGED <<adapter, helper, hosts, env>>
  BY DEF SendKeys
<1>2. /\ AppOk(World, app) /\ AppRecord(app) /\ AtOk(World, app.at) /\ KeysOk(World, app)
      /\ up \in BOOLEAN /\ usb.epoch \in Nat
  BY DEF KeyboardOk, AppOk, UsbOk
<1>3. Sides(app, usb, ble, hosts.Usb, Watched, sh) /\ LatchesOk(app) /\ SharedOk(app, sh)
  BY DEF DeliveredOk, Sides, AppSide
<1> HIDE DEF up
<1>4. /\ LatchOk(World, m)
      /\ \/ m = app.latch \/ m = Suppressed
         \/ /\ app.latch.owner = "None" /\ ~up
            /\ \E o \in Transports : LifeOf(m) = <<o, app.at[o]>>
  BY <1>2, SelectedOk DEF KeysOk
<1>5. ~LifetimeLost(m, app.at) /\ (m # app.latch => app.latch.owner = "None")
  BY <1>3, SelectedMeans DEF LatchesOk
<1> HIDE DEF m
<1>6. IsLatched(m) => r \in Entries /\ r.own[2] # NoEpoch
  BY <1>1, <1>2, <1>4, SentIsRightful DEF up, ReportOk
<1>7. r.own = LifeOf(m) /\ r.keys = keys /\ IsSnapshot(r)
  <2>1. class \in {"Press", "Release", "AllReleased"}
    BY DEF ClassOf
  <2> HIDE DEF class
  <2> QED
    BY <2>1 DEF KeysReport, IsSnapshot
<1>8. l = IF up THEN NoLatch ELSE m
  BY DEF Committed
<1>9. d.accepted = keys
  BY <1>2 DEF Delivered, KeysOk, DeliveryOk
<1>a. yes = [app EXCEPT !.keys = d, !.latch = l] /\ no = [app EXCEPT !.latch = m]
  OBVIOUS
<1> HIDE DEF l, d, yes, no
<1>10. AppRecord(no) /\ no.keys = app.keys /\ no.latch = m /\ no.hot = app.hot
       /\ no.hlatch = app.hlatch /\ no.at = app.at
  BY <1>2, <1>a DEF AppRecord
<1>11. AppRecord(yes) /\ yes.keys = d /\ yes.latch = l /\ yes.hot = app.hot
       /\ yes.hlatch = app.hlatch /\ yes.at = app.at
  BY <1>2, <1>a DEF AppRecord
<1> HIDE DEF r
<1>12. AllSame(app, no)
  <2>1. m # app.latch => app.keys.accepted = {}
    BY <1>2, <1>5 DEF KeysOk
  <2> QED
    BY <1>10, <2>1 DEF AllSame, SameFor, Owned, Has
<1>13. AppSide(no, sh) /\ AppSide(yes, sh)
  BY <1>3, <1>5, <1>8, <1>10, <1>11, NoLifetime DEF AppSide, LatchesOk, SharedOk, LifetimeLost
<1>14. Sides(no, usb, ble, hosts.Usb, Watched, sh)
  BY <1>2, <1>3, <1>12, <1>13, SidesKept
<1>15. \A k \in Lifetimes : k # LifeOf(m) => SameFor(no, yes, k)
  <2> SUFFICES ASSUME NEW k \in Lifetimes, k # LifeOf(m)
               PROVE  SameFor(no, yes, k)
    OBVIOUS
  <2>1. Owned(no, k) = {}
    BY <1>10 DEF Owned
  <2>2. LifeOf(l) # k
    BY <1>8, NoLifetime
  <2>3. Owned(yes, k) = {}
    BY <1>11, <2>2 DEF Owned
  <2> QED
    BY <1>10, <1>11, <2>1, <2>3 DEF SameFor, Has
<1>16. IsLatched(m) => Tells(no, yes, LifeOf(m), r, sh)
  <2> SUFFICES ASSUME IsLatched(m)
               PROVE  Tells(no, yes, LifeOf(m), r, sh)
    OBVIOUS
  <2>1. Owned(yes, LifeOf(m)) = keys
    <3>1. CASE up
      <4>1. LifeOf(m) \in Lifetimes
        BY <1>6, <1>7 DEF Entries
      <4>2. LifeOf(l) # LifeOf(m)
        BY <1>8, <3>1, <4>1, NoLifetime
      <4> QED
        BY <1>11, <3>1, <4>2 DEF Owned, up
    <3>2. CASE ~up
      BY <1>8, <1>9, <1>11, <3>2 DEF Owned
    <3> QED
      BY <3>1, <3>2
  <2> QED
    BY <1>7, <1>10, <1>11, <2>1 DEF Tells, Has
<1>17. ~IsLatched(m) => AllSame(no, yes)
  BY <1>15, NoLifetime DEF AllSame
<1>18. Sides(app', usb', ble', hosts.Usb, Watched, sh)
  BY <1>1, <1>6, <1>7, <1>10, <1>11, <1>13, <1>14, <1>15, <1>16, <1>17, OfferSides DEF SameElsewhere
<1> QED
  BY <1>1, <1>18, QuietStep

\* The hotkey of one source and its latch are replaced.
Replaced(a, z, s, e, n) ==
  /\ AppRecord(z) /\ z.keys = a.keys /\ z.latch = a.latch /\ z.at = a.at
  /\ z.hot[s] = e /\ z.hlatch[s] = n
  /\ \A o \in Bridged : o # s => z.hot[o] = a.hot[o] /\ z.hlatch[o] = a.hlatch[o]

LEMMA ReplacedMeans ==
  ASSUME NEW a, AppRecord(a), DOMAIN a.hlatch = Bridged, NEW s \in Bridged, NEW e \in Hot, NEW n
  PROVE  /\ Replaced(a, [a EXCEPT !.hot[s] = e, !.hlatch[s] = n], s, e, n)
         /\ Replaced(a, [a EXCEPT !.hlatch[s] = n], s, a.hot[s], n)
<1> DEFINE hot == [a.hot EXCEPT ![s] = e]
           hlatch == [a.hlatch EXCEPT ![s] = n]
           c == [a EXCEPT !.hot = hot, !.hlatch = hlatch]
           x == [a EXCEPT !.hlatch = hlatch]
<1>1. /\ [a EXCEPT !.hot[s] = e, !.hlatch[s] = n] = c
      /\ [a EXCEPT !.hlatch[s] = n] = x
  BY DEF AppRecord
<1>2. a.hot \in [Bridged -> Hot]
  BY DEF AppRecord, Hot
<1>3. /\ hot \in [Bridged -> Hot] /\ hot[s] = e /\ hlatch[s] = n
      /\ \A o \in Bridged : o # s => hot[o] = a.hot[o] /\ hlatch[o] = a.hlatch[o]
  BY <1>2
<1>a. c = [a EXCEPT !.hot = hot, !.hlatch = hlatch] /\ x = [a EXCEPT !.hlatch = hlatch]
  OBVIOUS
<1> HIDE DEF hot, hlatch, c, x
<1>b. AppRecord(c) /\ c.keys = a.keys /\ c.latch = a.latch /\ c.at = a.at /\ c.hot = hot
      /\ c.hlatch = hlatch
  BY <1>3, <1>a DEF AppRecord, Hot
<1>c. AppRecord(x) /\ x.keys = a.keys /\ x.latch = a.latch /\ x.at = a.at /\ x.hot = a.hot
      /\ x.hlatch = hlatch
  BY <1>a DEF AppRecord
<1>4. Replaced(a, c, s, e, n)
  BY <1>3, <1>b DEF Replaced
<1>5. Replaced(a, x, s, a.hot[s], n)
  BY <1>3, <1>c DEF Replaced
<1> QED
  BY <1>1, <1>4, <1>5

\* What a source without a lifetime is counted with is nobody's.
LEMMA ReplacedIsSame ==
  ASSUME NEW a, NEW z, NEW s \in Bridged, NEW e, NEW n, Replaced(a, z, s, e, n), NEW k \in Lifetimes,
         LifeOf(a.hlatch[s]) # k \/ a.hot[s].accepted = NoHot, LifeOf(n) # k \/ e.accepted = NoHot
  PROVE  SameFor(a, z, k)
BY NamesDiffer DEF Replaced, SameFor, Owned, Has

LEMMA ReplacedApp ==
  ASSUME NEW a, NEW sh, AppSide(a, sh), NEW z, NEW s \in Bridged, NEW e, NEW n,
         Replaced(a, z, s, e, n), ~LifetimeLost(n, a.at),
         \A h \in Hotkeys : Wants(e, h) => Wants(a.hot[s], h)
  PROVE  AppSide(z, sh)
<1>1. LatchesOk(z)
  BY DEF Replaced, AppSide, LatchesOk
<1>2. \A o \in Bridged, h \in Hotkeys : Wants(z.hot[o], h) => Wants(a.hot[o], h)
  BY DEF Replaced
<1>3. SharedOk(z, sh)
  BY <1>2, SharedKept DEF AppSide
<1> QED
  BY <1>1, <1>3 DEF AppSide

\* A hotkey is queued for the lifetime of its latch.
LEMMA HotIsTold ==
  ASSUME NEW a, NEW sh, SharedOk(a, sh), NEW s \in Bridged, NEW d \in Hot, d = a.hot[s], HotPending(d),
         NEW m, NEW no, Replaced(a, no, s, d, m),
         NEW yes, Replaced(a, yes, s, HotAccepted(d), Committed(m, ~HotDown(d)))
  PROVE  LET r == HotReport(HotDown(d), HotMoved(d), LifeOf(m))
         IN /\ \A k \in Lifetimes : k # LifeOf(m) => SameFor(no, yes, k)
            /\ LifeOf(m) \in Lifetimes => Tells(no, yes, LifeOf(m), r, sh)
            /\ \A h \in Hotkeys : Wants(HotAccepted(d), h) => Wants(d, h)
<1> DEFINE r == HotReport(HotDown(d), HotMoved(d), LifeOf(m))
           e == HotAccepted(d)
           n == Committed(m, ~HotDown(d))
           l == LifeOf(m)
<1>1. e.desired = d.desired /\ e.accepted = IF HotDown(d) THEN d.desired ELSE NoHot
  BY DEF HotAccepted, Hot
<1>2. n = IF HotDown(d) THEN m ELSE NoLatch
  BY DEF Committed
<1>3. HotDown(d) <=> d.accepted = NoHot
  BY DEF HotDown
<1>4. /\ r.hot = IF HotDown(d) THEN d.desired ELSE d.accepted
      /\ r.class = IF HotDown(d) THEN "CommandPress" ELSE "CommandRelease"
  BY DEF HotReport, HotMoved
<1>5. r.hot \in Hotkeys
  BY <1>3, <1>4 DEF HotPending, Hot
<1>6. \A h \in Hotkeys : Wants(e, h) => Wants(d, h)
  BY <1>1, NamesDiffer DEF Wants
<1> HIDE DEF r, e, n
<1>7. /\ \A k, h : Has(no, k, s, h) <=> l = k /\ d.accepted = h
      /\ \A k, h : Has(yes, k, s, h) <=> LifeOf(n) = k /\ e.accepted = h
      /\ \A o \in Bridged : o # s =>
           \A k, h : /\ Has(yes, k, o, h) <=> Has(no, k, o, h)
                     /\ Has(no, k, o, h) <=> Has(a, k, o, h)
      /\ \A k : Owned(yes, k) = Owned(no, k)
  BY DEF Has, Owned, Replaced, e, n
<1> HIDE DEF l
<1>8. \A k \in Lifetimes : k # l => SameFor(no, yes, k)
  BY <1>2, <1>7, NoLifetime DEF SameFor, l
<1>9. l \in Lifetimes => Tells(no, yes, l, r, sh)
  <2> SUFFICES ASSUME l \in Lifetimes
               PROVE  Tells(no, yes, l, r, sh)
    OBVIOUS
  <2>1. LifeOf(n) = l <=> HotDown(d)
    BY <1>2, NoLifetime DEF l
  <2>2. Moves(no, yes, l, s, r)
    BY <1>1, <1>3, <1>4, <1>5, <1>7, <2>1, NamesDiffer DEF Moves
  <2>3. ASSUME r.class = "CommandRelease", NEW o \in Bridged \ {s}, Has(no, l, o, r.hot)
        PROVE  r.hot \in sh
    <3>1. r.hot = a.hot[s].accepted /\ r.hot = a.hot[o].accepted
      BY <1>4, <1>7, <2>3 DEF Has
    <3> QED
      BY <1>5, <3>1 DEF SharedOk, Wants
  <2> QED
    BY <1>4, <1>7, <2>2, <2>3 DEF Tells
<1> QED
  BY <1>6, <1>8, <1>9 DEF r, e, n, l

LEMMA FlushHotDelivers ==
  ASSUME KeyboardOk, DeliveredOk, NEW s \in Bridged, FlushHot(s)
  PROVE  DeliveredOk'
<1> DEFINE d == app.hot[s]
           up == ~HotDown(d)
           l == app.hlatch[s]
           m == Selected(l, up, app.at)
           r == HotReport(~up, HotMoved(d), LifeOf(m))
           yes == [app EXCEPT !.hot[s] = HotAccepted(d), !.hlatch[s] = Committed(m, up)]
           no == [app EXCEPT !.hlatch[s] = m]
           sh == env.shared
<1>1. UNCHANGED <<adapter, helper, hosts, env>>
  BY DEF FlushHot
<1>2. /\ d \in Hot /\ HotOk(World, d, l, app.at, app.pc = s) /\ AtOk(World, app.at)
      /\ up \in BOOLEAN /\ HotDown(d) = ~up /\ AppRecord(app) /\ DOMAIN app.hlatch = Bridged
      /\ usb.epoch \in Nat
  BY DEF KeyboardOk, AppOk, HotsOk, AppRecord, Hot, HotDown, UsbOk
<1>3. Sides(app, usb, ble, hosts.Usb, Watched, sh) /\ AppSide(app, sh)
      /\ LatchesOk(app) /\ SharedOk(app, sh)
  BY DEF DeliveredOk, Sides, AppSide
<1>4. l.owner = "None" => d.accepted = NoHot
  BY <1>2 DEF HotOk
<1>5. ~LifetimeLost(l, app.at)
  BY <1>3 DEF LatchesOk
<1>6. CASE HotPending(d)
  <2>1. Offer(m, r, yes, no)
    BY <1>6 DEF FlushHot
  <2>2. /\ LatchOk(World, m) /\ ~LifetimeLost(m, app.at) /\ (m # l => l.owner = "None")
        /\ \/ m = l \/ m = Suppressed
           \/ /\ l.owner = "None" /\ ~up
              /\ \E o \in Transports : LifeOf(m) = <<o, app.at[o]>>
    <3> HIDE DEF up, l
    <3> QED
      BY <1>2, <1>5, SelectedOk, SelectedMeans DEF HotOk
  <2> DEFINE here == app.pc = s
             at == app.at
             e == HotAccepted(d)
             n == Committed(m, up)
  <2>a. HotOk(World, d, l, at, here) /\ d = app.hot[s] /\ l = app.hlatch[s]
    BY <1>2
  <2>b. ~up = HotDown(d) /\ up = ~HotDown(d)
    BY <1>2
  <2> HIDE DEF m, l, up, d, here
  <2>3. IsLatched(m) => ReportOk(World, HotReport(HotDown(d), HotMoved(d), LifeOf(m)))
    BY <1>2, <1>6, <2>2, <2>a, <2>b, HotIsExcused
  <2>4. e \in Hot
    BY <1>2 DEF HotAccepted, Hot
  <2>c. r = HotReport(HotDown(d), HotMoved(d), LifeOf(m))
    BY <2>b DEF HotReport
  <2>d. n = Committed(m, ~HotDown(d))
    BY <2>b DEF Committed
  <2>5. r = HotReport(HotDown(d), HotMoved(d), LifeOf(m)) /\ e = HotAccepted(d)
        /\ n = Committed(m, ~HotDown(d))
    BY <2>c, <2>d
  <2>6. r.own = LifeOf(m)
    BY DEF HotReport
  <2> HIDE DEF r, e, n
  <2>7. Replaced(app, yes, s, e, n) /\ Replaced(app, no, s, d, m)
    BY <1>2, <2>4, <2>a, ReplacedMeans DEF e, n
  <2> HIDE DEF yes, no
  <2>8. /\ \A k \in Lifetimes : k # LifeOf(m) => SameFor(no, yes, k)
        /\ LifeOf(m) \in Lifetimes => Tells(no, yes, LifeOf(m), r, sh)
        /\ \A h \in Hotkeys : Wants(e, h) => Wants(d, h)
    BY <1>2, <1>3, <1>6, <2>5, <2>7, <2>a, HotIsTold
  <2>9. AllSame(app, no)
    <3> SUFFICES ASSUME NEW k \in Lifetimes
                 PROVE  SameFor(app, no, k)
      BY DEF AllSame
    <3>1. CASE m = l
      BY <2>7, <2>a, <3>1 DEF Replaced, SameFor, Owned, Has
    <3>2. CASE m # l
      <4>1. d.accepted = NoHot
        BY <1>4, <2>2, <3>2
      <4> QED
        BY <2>7, <2>a, <4>1, ReplacedIsSame
    <3> QED
      BY <3>1, <3>2
  <2>10. ~LifetimeLost(n, app.at)
    BY <2>2, <2>5, NoLifetime DEF Committed, LifetimeLost
  <2>11. AppSide(yes, sh) /\ AppSide(no, sh)
    BY <1>3, <2>2, <2>7, <2>8, <2>10, <2>a, ReplacedApp
  <2>12. Sides(no, usb, ble, hosts.Usb, Watched, sh)
    BY <1>2, <1>3, <2>9, <2>11, SidesKept
  <2>13. AppRecord(yes) /\ AppRecord(no)
    BY <2>7 DEF Replaced
  <2>14. IsLatched(m) => r \in Entries /\ r.own[2] # NoEpoch /\ LifeOf(m) \in Lifetimes
    BY <2>3, <2>5, <2>6 DEF ReportOk, Entries
  <2>15. ~IsLatched(m) => AllSame(no, yes)
    BY <2>8, NoLifetime DEF AllSame
  <2>16. Sides(app', usb', ble', hosts.Usb, Watched, sh)
    BY <2>1, <2>6, <2>8, <2>11, <2>12, <2>13, <2>14, <2>15, OfferSides DEF SameElsewhere
  <2> QED
    BY <1>1, <2>16, QuietStep
<1>7. CASE ~HotPending(d)
  <2> DEFINE n == IF d.desired = NoHot THEN NoLatch ELSE l
             a == [app EXCEPT !.hlatch[s] = n]
  <2>1. app' = [app EXCEPT !.pc = "idle", !.hlatch[s] = n] /\ UNCHANGED <<usb, ble>>
    BY <1>7 DEF FlushHot
  <2>2. d.desired = d.accepted /\ d = app.hot[s] /\ l = app.hlatch[s]
    BY <1>7 DEF HotPending
  <2>3. ~LifetimeLost(n, app.at)
    BY <1>5, NoLifetime DEF LifetimeLost
  <2> HIDE DEF d
  <2>4. Replaced(app, a, s, d, n) /\ AppRecord(a)
    <3> HIDE DEF n
    <3>1. Replaced(app, a, s, d, n)
      BY <1>2, <2>2, ReplacedMeans
    <3> QED
      BY <3>1 DEF Replaced
  <2>5. Alike(a, app')
    <3> HIDE DEF n
    <3>1. app' = [app EXCEPT !.pc = "idle", !.hlatch = [app.hlatch EXCEPT ![s] = n]]
      BY <1>2, <2>1 DEF AppRecord
    <3>2. a = [app EXCEPT !.hlatch = [app.hlatch EXCEPT ![s] = n]]
      BY <1>2 DEF AppRecord
    <3> HIDE DEF a
    <3>3. app' = [a EXCEPT !.pc = "idle"]
      BY <1>2, <3>1, <3>2 DEF AppRecord
    <3> QED
      BY <2>4, <3>3, PausedIsAlike
  <2> HIDE DEF a
  <2>6. AllSame(app, a)
    <3> SUFFICES ASSUME NEW k \in Lifetimes
                 PROVE  SameFor(app, a, k)
      BY DEF AllSame
    <3>1. CASE d.desired = NoHot
      <4> HIDE DEF n
      <4> QED
        BY <2>2, <2>4, <3>1, ReplacedIsSame
    <3>2. CASE d.desired # NoHot
      <4>1. n = l
        BY <3>2
      <4> QED
        BY <2>2, <2>4, <4>1 DEF Replaced, SameFor, Owned, Has
    <3> QED
      BY <3>1, <3>2
  <2> HIDE DEF n
  <2>7. AppSide(a, sh)
    BY <1>3, <2>2, <2>3, <2>4, ReplacedApp
  <2>8. Sides(a, usb, ble, hosts.Usb, Watched, sh)
    BY <1>2, <1>3, <2>6, <2>7, SidesKept
  <2>9. Sides(app', usb', ble', hosts.Usb, Watched, sh)
    BY <1>2, <2>1, <2>5, <2>8, AlikeSides
  <2> QED
    BY <1>1, <2>9, QuietStep
<1> QED
  BY <1>6, <1>7

-----------------------------------------------------------------------------
(* The polls of the main task. *)

LEMMA DeliveredMeans ==
  ASSUME KeyboardOk, DeliveredOk
  PROVE  /\ UsbOk(World, usb) /\ BleOk(World, ble) /\ BleRecord(ble) /\ AdapterOk(adapter)
         /\ usb.epoch \in Nat /\ adapter.gen \in Nat
         /\ UsbSide(app, usb, hosts.Usb, env.shared)
         /\ BleSide(app, ble, AdapterOwner, adapter.gen, Watched, env.shared)
         /\ ViewRecord(hosts.Usb) /\ ViewRecord(hosts.Ble) /\ ViewRecord(Watched)
         /\ hosts = [Usb |-> hosts.Usb, Ble |-> hosts.Ble]
         /\ hosts.Usb.live => usb.vbus /\ UsbEpoch(usb) = usb.epoch
         /\ Watched.live => adapter.owner # 0
<1>1. /\ ViewRecord(hosts.Usb) /\ ViewRecord(hosts.Ble) /\ (hosts.Ble.live => adapter.owner # 0)
      /\ hosts = [Usb |-> hosts.Usb, Ble |-> hosts.Ble]
      /\ hosts.Usb.live => usb.vbus /\ UsbEpoch(usb) = usb.epoch
  BY EpochIsCurrent DEF KeyboardOk, LinksOk, HostsOk, HostOk
<1>2. ViewRecord(Watched) /\ (Watched.live => adapter.owner # 0)
  BY <1>1, WatchedMeans DEF Watched, ViewRecord, NoView
<1> QED
  BY <1>1, <1>2 DEF KeyboardOk, DeliveredOk, Sides, UsbOk, BleOk, AdapterOk

LEMMA PollUsbDelivers ==
  ASSUME KeyboardOk, DeliveredOk, PollUsb
  PROVE  DeliveredOk'
<1> DEFINE u == UsbReady(usb)
           pc == IF usb'.keys = <<>> /\ usb'.cmds = <<>> THEN "idle" ELSE "sendUsb"
<1>1. /\ usb' = IF UsbEpoch(u) = NoEpoch THEN UsbCleared(u) ELSE UsbPumped(u)
      /\ app' = [app EXCEPT !.pc = pc] /\ UNCHANGED <<ble, adapter, helper, hosts, env>>
  BY DEF PollUsb
<1>2. UsbOk(World, usb) /\ UsbSide(app, usb, hosts.Usb, env.shared)
      /\ (hosts.Usb.live => UsbEpoch(usb) # NoEpoch)
  BY DeliveredMeans DEF KeyboardOk, LinksOk
<1>3. Usable(World, usb, u) /\ u.reset = FALSE /\ UsbSide(app, u, hosts.Usb, env.shared)
  BY <1>2, UsbReadyOk, UsbReadySide
<1>4. Usable(World, usb, usb')
  BY <1>2, PolledUsb DEF PollUsb
<1>5. UsbOk(World, u) /\ UsbEpoch(u) = UsbEpoch(usb) /\ u.epoch = usb.epoch /\ usb'.epoch \in Nat
  BY <1>3, <1>4 DEF Usable, SamePort, UsbOk
<1> HIDE DEF u, pc
<1>6. UsbSide(app, usb', hosts.Usb, env.shared)
  <2>1. CASE UsbEpoch(u) = NoEpoch
    <3> DEFINE x == UsbCleared(u)
    <3>1. x.keys = <<>> /\ x.cmds = <<>> /\ x.shown = {} /\ x.epoch = u.epoch
      BY <1>5 DEF UsbCleared, UsbOk, UsbRecord
    <3>2. ~hosts.Usb.live
      BY <1>2, <1>5, <2>1
    <3> HIDE DEF x
    <3>3. UsbSide(app, x, hosts.Usb, env.shared)
      BY <1>3, <3>1, <3>2, UsbSideCleared
    <3> QED
      BY <1>1, <2>1, <3>3 DEF x
  <2>2. CASE UsbEpoch(u) # NoEpoch
    BY <1>1, <1>3, <1>5, <2>2, UsbPumpedSide
  <2> QED
    BY <2>1, <2>2
<1> QED
  BY <1>1, <1>5, <1>6, DeliveredMeans, QuietlyPaused

\* What a poll of USB takes from the queue it has chosen.
LEMMA UsbHeadGoes ==
  ASSUME NEW w, UsbOk(w, usb), UsbHasReport, NEW turn
  PROVE  Gone(usb, UsbPopped, UsbHead) /\ Gone(usb, [UsbPopped EXCEPT !.turn = turn], UsbHead)
<1> DEFINE p == UsbPopped
           x == [p EXCEPT !.turn = turn]
<1>1. UsbRecord(usb)
  BY DEF UsbOk
<1>2. /\ UsbRecord(p) /\ p.shown = usb.shown /\ p.reset = usb.reset /\ p.epoch = usb.epoch
      /\ \/ usb.keys # <<>> /\ UsbHead = Head(usb.keys) /\ p.keys = Tail(usb.keys) /\ p.cmds = usb.cmds
         \/ usb.cmds # <<>> /\ UsbHead = Head(usb.cmds) /\ p.cmds = Tail(usb.cmds) /\ p.keys = usb.keys
  <2>1. CASE UsbKind = "Keys"
    <3>1. UsbHead = Head(usb.keys) /\ p = [usb EXCEPT !.keys = Tail(usb.keys)] /\ usb.keys # <<>>
      BY <2>1 DEF UsbHead, UsbPopped, UsbKind, UsbHasReport
    <3> HIDE DEF p
    <3> QED
      BY <1>1, <3>1 DEF UsbRecord
  <2>2. CASE UsbKind # "Keys"
    <3>1. UsbHead = Head(usb.cmds) /\ p = [usb EXCEPT !.cmds = Tail(usb.cmds)] /\ usb.cmds # <<>>
      BY <2>2 DEF UsbHead, UsbPopped, UsbKind, UsbHasReport
    <3> HIDE DEF p
    <3> QED
      BY <1>1, <3>1 DEF UsbRecord
  <2> QED
    BY <2>1, <2>2
<1>3. x = [p EXCEPT !.turn = turn]
  OBVIOUS
<1> HIDE DEF p, x
<1>4. /\ x.keys = p.keys /\ x.cmds = p.cmds /\ x.shown = p.shown /\ x.reset = p.reset
      /\ x.epoch = p.epoch
  BY <1>2, <1>3 DEF UsbRecord
<1>5. Gone(usb, p, UsbHead) /\ Gone(usb, x, UsbHead)
  BY <1>2, <1>4 DEF Gone
<1> QED
  BY <1>5 DEF p, x

LEMMA UsbDropsDelivers ==
  ASSUME KeyboardOk, DeliveredOk, UsbDrops
  PROVE  DeliveredOk'
<1> DEFINE v == hosts.Usb
           r == UsbHead
<1>1. /\ UsbHasReport /\ ~UsbHeadIsCurrent /\ usb' = UsbPopped
      /\ UNCHANGED <<app, ble, adapter, helper, hosts, env>>
  BY DEF UsbDrops
<1>2. UsbOk(World, usb) /\ UsbSide(app, usb, v, env.shared) /\ ViewRecord(v)
      /\ (v.live => UsbEpoch(usb) = usb.epoch) /\ usb.epoch \in Nat
  BY DeliveredMeans
<1>3. Gone(usb, usb', r)
  BY <1>1, <1>2, UsbHeadGoes
<1>4. v.live => r.own # Usb(usb.epoch)
  BY <1>1, <1>2 DEF UsbHeadIsCurrent
<1>5. usb'.epoch = usb.epoch
  BY <1>3 DEF Gone
<1> HIDE DEF v, r
<1>6. UsbSide(app, usb', v, env.shared)
  <2>1. CASE r.own # Usb(usb.epoch)
    BY <1>2, <1>3, <2>1, UsbGoneSide
  <2>2. CASE ~v.live
    BY <1>2, <1>3, <2>2, UsbGoneSide
  <2> QED
    BY <1>4, <2>1, <2>2
<1>7. app' = [app EXCEPT !.pc = app.pc]
  BY <1>1 DEF KeyboardOk, AppOk, AppRecord
<1> QED
  BY <1>1, <1>2, <1>5, <1>6, <1>7, DeliveredMeans, QuietlyPaused DEF v

LEMMA UsbAcceptsDelivers ==
  ASSUME KeyboardOk, DeliveredOk, UsbAccepts
  PROVE  DeliveredOk'
<1> DEFINE v == hosts.Usb
           r == UsbHead
           turn == IF UsbKind = "Keys" THEN "Cmds" ELSE "Keys"
<1>1. /\ UsbHasReport /\ UsbHeadIsCurrent /\ usb' = [UsbPopped EXCEPT !.turn = turn]
      /\ UNCHANGED <<ble, adapter, helper, env>> /\ app' = [app EXCEPT !.pc = "idle"]
      /\ hosts' = IF hosts["Usb"].live THEN [hosts EXCEPT !["Usb"] = Taken(hosts["Usb"], r)] ELSE hosts
  BY DEF UsbAccepts, Sees
<1>2. UsbOk(World, usb) /\ UsbSide(app, usb, v, env.shared) /\ ViewRecord(v)
      /\ (v.live => UsbEpoch(usb) = usb.epoch) /\ usb.epoch \in Nat
      /\ hosts = [Usb |-> hosts.Usb, Ble |-> hosts.Ble]
  BY DeliveredMeans
<1> HIDE DEF turn
<1>3. Gone(usb, usb', r)
  BY <1>1, <1>2, UsbHeadGoes
<1>4. v.live => r.own = Usb(usb.epoch)
  BY <1>1, <1>2 DEF UsbHeadIsCurrent
<1>5. usb'.epoch = usb.epoch
  BY <1>3 DEF Gone
<1>6. hosts'.Usb = (IF v.live THEN Taken(v, r) ELSE v) /\ hosts'.Ble = hosts.Ble
  BY <1>1, <1>2
<1> HIDE DEF v, r
<1>7. ~v.live => UsbSide(app, usb', v, env.shared)
  BY <1>2, <1>3, UsbGoneSide
<1>8. v.live => UsbSide(app, usb', Taken(v, r), env.shared)
  BY <1>2, <1>3, <1>4, UsbGoneSide
<1>9. UsbSide(app, usb', hosts'.Usb, env.shared)
  BY <1>6, <1>7, <1>8
<1> QED
  BY <1>1, <1>2, <1>5, <1>6, <1>9, DeliveredMeans, QuietlyPaused

LEMMA UsbWaitsDelivers ==
  ASSUME KeyboardOk, DeliveredOk, UsbWaits
  PROVE  DeliveredOk'
BY DeliveredMeans, QuietlyPaused DEF UsbWaits

LEMMA FixedTextDelivers ==
  ASSUME KeyboardOk, DeliveredOk, FixedText
  PROVE  DeliveredOk'
<1> DEFINE born == Born({Typed})
           u == UsbReady(usb)
           b == BleReady(ble)
<1>1. EnvOk /\ env = [left |-> env.left, born |-> env.born, behind |-> env.behind, shared |-> env.shared,
           late |-> env.late]
  BY DEF KeyboardOk, EnvOk
<1>2. /\ Left("texts") /\ UNCHANGED <<adapter, helper, hosts>>
      /\ env' = [env EXCEPT !.left.texts = @ - 1, !.born = born]
  BY DEF FixedText
<1>3. DOMAIN born = Inputs
  BY <1>1 DEF Born, EnvOk
<1> HIDE DEF born
<1>4. Pressing("texts", born, env.behind, env.shared)
  BY <1>1, <1>2 DEF Pressing
<1>5. env'.shared = env.shared /\ env'.late = env.late
  BY <1>1, <1>2, <1>3, <1>4, PressedEnv DEF Budget
<1>6. /\ UsbOk(World, usb) /\ BleOk(World, ble) /\ AdapterOk(adapter) /\ usb.epoch \in Nat
      /\ UsbSide(app, usb, hosts.Usb, env.shared)
      /\ BleSide(app, ble, AdapterOwner, adapter.gen, Watched, env.shared)
  BY DeliveredMeans
<1>7. CASE UsbEpoch(usb) # NoEpoch
  <2>1. usb' \in {TypeOnUsb(u), ChunksOnUsb(u)} /\ app' = [app EXCEPT !.pc = "pollUsb"] /\ ble' = ble
    BY <1>7 DEF FixedText, TextsOnUsb
  <2>2. Usable(World, usb, u) /\ u.reset = FALSE /\ UsbSide(app, u, hosts.Usb, env.shared)
    BY <1>6, UsbReadyOk, UsbReadySide
  <2>3. UsbOk(World, u) /\ UsbEpoch(u) # NoEpoch /\ u.epoch \in Nat /\ UsbRecord(u)
    BY <1>7, <2>2 DEF Usable, UsbOk
  <2> HIDE DEF u
  <2>4. TypeOnUsb(u).epoch = u.epoch /\ ChunksOnUsb(u).epoch = u.epoch
    BY <2>3 DEF TypeOnUsb, ChunksOnUsb, UsbRecord
  <2>5. UsbSide(app, usb', hosts.Usb, env.shared) /\ usb'.epoch \in Nat
    BY <2>1, <2>2, <2>3, <2>4, UsbTypedSide, UsbChunksSide
  <2> QED
    BY <1>2, <1>5, <1>6, <2>1, <2>5, QuietlyPaused
<1>8. CASE UsbEpoch(usb) = NoEpoch
  <2>1. ble' = TextOnBle(ble) /\ app' = [app EXCEPT !.pc = "pollBle"] /\ usb' = usb
    BY <1>8 DEF FixedText
  <2>2. BleSide(app, b, AdapterOwner, adapter.gen, Watched, env.shared) /\ BleRecord(b)
    BY <1>6, BleReadyOk, BleReadySide DEF Serves, BleOk
  <2>3. ble' = b \/ ble' = StreamOnBle(b)
    BY <2>1 DEF TextOnBle
  <2> HIDE DEF b
  <2>4. SameOwners(b, ble') /\ ble'.reset = b.reset /\ ble'.queue = b.queue
    BY <2>2, <2>3 DEF StreamOnBle, BleRecord, SameOwners
  <2>5. BleSide(app, ble', AdapterOwner, adapter.gen, Watched, env.shared)
    BY <2>2, <2>4, BleSideSame
  <2> QED
    BY <1>2, <1>5, <1>6, <2>1, <2>5, QuietlyPaused
<1> QED
  BY <1>7, <1>8

LEMMA PollBleDelivers ==
  ASSUME KeyboardOk, DeliveredOk, PollBle
  PROVE  DeliveredOk'
<1> DEFINE b == BleFlushed(Refreshed(ble))
           pc == IF ble'.queue = <<>> THEN "idle" ELSE "sendBle"
           x == BleCleared(b)
<1>1. /\ UNCHANGED <<usb, adapter, helper, hosts, env>> /\ ~Recovering(ble)
      /\ app' = [app EXCEPT !.pc = pc]
      /\ ble' = IF Identity(b) = NoOwner THEN x ELSE BlePumped(b)
  BY DEF PollBle
<1>2. BleOk(World, ble) /\ AdapterOk(adapter) /\ usb.epoch \in Nat
      /\ BleSide(app, ble, AdapterOwner, adapter.gen, Watched, env.shared)
      /\ UsbSide(app, usb, hosts.Usb, env.shared) /\ (Watched.live => adapter.owner # 0)
  BY DeliveredMeans
<1>3. /\ Serves(World, ble, b) /\ BleSide(app, b, AdapterOwner, adapter.gen, Watched, env.shared)
      /\ ~BleNew(b, AdapterOwner)
  BY <1>1, <1>2, BleReadyOk, BleReadySide
<1>4. BleOk(World, b) /\ BleRecord(b) /\ ~Recovering(b)
  BY <1>1, <1>3 DEF Serves, BleOk, Recovering
<1> HIDE DEF b, pc
<1>5. BleSide(app, ble', AdapterOwner, adapter.gen, Watched, env.shared)
  <2>1. CASE Identity(b) = NoOwner
    <3>1. ~Watched.live
      BY <1>2, <1>4, <2>1, OwnersEpoch DEF Identity
    <3>2. SameOwners(b, x) /\ x.queue = <<>>
      BY <1>4, BleClearedMeans
    <3> HIDE DEF x
    <3>3. BleSide(app, x, AdapterOwner, adapter.gen, Watched, env.shared)
      BY <1>3, <3>1, <3>2, BleSideEmptied
    <3> QED
      BY <1>1, <2>1, <3>3
  <2>2. CASE Identity(b) # NoOwner
    BY <1>1, <1>2, <1>3, <1>4, <2>2, BleSideText
  <2> QED
    BY <2>1, <2>2
<1> QED
  BY <1>1, <1>2, <1>5, QuietlyPaused

LEMMA BleHeadIsCurrent ==
  ASSUME KeyboardOk, DeliveredOk, app.pc = "sendBle"
  PROVE  /\ ble.queue # <<>> /\ BleHead \in Entries
         /\ BleConnected => BleHead.own = Ble(adapter.gen)
         /\ ~BleConnected /\ Watched.live /\ ~Recovering(ble) =>
              helper.pc = "flag" \/ Alien(ble.queue, Ble(adapter.gen))
<1>1. /\ BleOk(World, ble) /\ AdapterOk(adapter) /\ adapter.gen \in Nat
      /\ BleSide(app, ble, AdapterOwner, adapter.gen, Watched, env.shared)
      /\ (Watched.live => adapter.owner # 0) /\ ble.queue # <<>> /\ ble.queue \in Seq(Entries)
  BY DeliveredMeans DEF KeyboardOk, LinksOk, BleOk, Told
<1>2. ReportOk(World, BleHead)
  BY <1>1, BleHeadOk
<1>3. BleConnected => BleHead.own = Ble(adapter.gen)
  <2> SUFFICES ASSUME BleConnected
               PROVE  BleHead.own = Ble(adapter.gen)
    OBVIOUS
  <2>1. BleHead.own = Ble(AdapterOwner.gen) /\ AdapterOwner.gen # NoEpoch
    BY <1>2 DEF BleConnected, ReportOk, Ble
  <2> QED
    BY <1>1, <2>1, OwnersEpoch
<1>4. ASSUME ~BleConnected, Watched.live, ~BleNew(ble, AdapterOwner), ~Recovering(ble),
             helper.pc # "flag"
      PROVE  FALSE
  <2>1. AdapterOwner # NoOwner /\ AdapterOwner.gen = adapter.gen
    BY <1>1, <1>4, OwnersEpoch
  <2>2. ble.active = AdapterOwner
    BY <1>4 DEF BleNew
  <2>3. ble.queue[1].own = Ble(adapter.gen)
    BY <1>1, <1>4 DEF BleSide, BleServes, OwnOnly
  <2>4. BleHead.own = Ble(adapter.gen)
    BY <1>1, <2>3 DEF BleHead
  <2> QED
    BY <1>4, <2>1, <2>2, <2>4 DEF BleConnected
<1>5. BleHead \in Entries
  BY <1>2 DEF ReportOk
<1>6. Watched.live /\ ~Recovering(ble) /\ BleNew(ble, AdapterOwner) =>
        Alien(ble.queue, Ble(adapter.gen))
  BY <1>1 DEF BleSide, BleServes
<1> QED
  BY <1>1, <1>3, <1>4, <1>5, <1>6

\* An adoption that clears a report of the owner is remembered; one that does not
\* leaves the queue to reports of others.
LEMMA LosingMeans ==
  ASSUME KeyboardOk, NEW lost, Lose(lost), hosts'.Ble = hosts.Ble, adapter'.gen = adapter.gen
  PROVE  /\ env'.shared = env.shared
         /\ lost => Watched' = NoView
         /\ ~lost => Watched' = Watched
<1>1. /\ env'.shared = env.shared /\ (lost => Life("Ble") \in env'.late)
      /\ (~lost => env'.late = env.late)
  BY LosingOk DEF KeyboardOk, EnvStays
<1>2. Life("Ble")' = Life("Ble")
  BY DEF Life
<1>3. lost => Watched' = NoView
  BY <1>1, <1>2 DEF Watched
<1> QED
  BY <1>1, <1>3, WatchedMeans

LEMMA NothingWaits ==
  ASSUME KeyboardOk, ~ReportWaits
  PROVE  Alien(ble.queue, Ble(adapter.gen))
BY DEF KeyboardOk, BleOk, Told, ReportWaits, Alien, Life

\* Nothing is claimed of a host that is not watched.
LEMMA BleSideUnwatched ==
  ASSUME NEW a, NEW b, NEW owner, NEW n, NEW v, NEW sh, BleSide(a, b, owner, n, v, sh),
         NEW c, c.active.gen \in 0..n, c.target = b.target, Dated(c.queue, n)
  PROVE  BleSide(a, c, owner, n, NoView, sh)
BY DEF BleSide, NoView

LEMMA BleDisconnectedDelivers ==
  ASSUME KeyboardOk, DeliveredOk, BleDisconnected
  PROVE  DeliveredOk'
<1> DEFINE x == BleCleared(ble)
           lost == helper.pc = "flag" /\ ReportWaits
<1>1. /\ app.pc = "sendBle" /\ ~BleConnected /\ ble' = x /\ app' = [app EXCEPT !.pc = "idle"]
      /\ UNCHANGED <<usb, adapter, helper, hosts>> /\ Lose(lost)
  BY DEF BleDisconnected, BleSending
<1>2. SameOwners(ble, x) /\ x.queue = <<>>
  BY DeliveredMeans, BleClearedMeans
<1>3. Watched.live /\ ~Recovering(ble) => helper.pc = "flag" \/ Alien(ble.queue, Ble(adapter.gen))
  BY <1>1, BleHeadIsCurrent
<1>4. ~lost => (Watched.live /\ ~Recovering(ble) => Alien(ble.queue, Ble(adapter.gen)))
  BY <1>3, NothingWaits
<1> HIDE DEF x, lost
<1>5. env'.shared = env.shared /\ (lost => Watched' = NoView) /\ (~lost => Watched' = Watched)
  BY <1>1, LosingMeans
<1>6. BleSide(app, ble, AdapterOwner, adapter.gen, Watched, env.shared)
  BY DeliveredMeans
<1>7. BleSide(app, x, AdapterOwner, adapter.gen, Watched', env.shared)
  <2>1. CASE lost
    <3>1. Dated(x.queue, adapter.gen) /\ x.active.gen \in 0..adapter.gen /\ x.target = ble.target
      BY <1>2, <1>6 DEF Dated, SameOwners, BleSide
    <3>2. BleSide(app, x, AdapterOwner, adapter.gen, NoView, env.shared)
      BY <1>6, <3>1, BleSideUnwatched
    <3> QED
      BY <1>5, <2>1, <3>2
  <2>2. CASE ~lost
    <3>1. BleSide(app, x, AdapterOwner, adapter.gen, Watched, env.shared)
      BY <1>2, <1>4, <1>6, <2>2, BleSideEmptied
    <3> QED
      BY <1>5, <2>2, <3>1
  <2> QED
    BY <2>1, <2>2
<1> QED
  BY <1>1, <1>5, <1>7, DeliveredMeans, PausedDelivers

\* The head is gone, and has been seen or could not be sent.
LEMMA BleSentDelivers ==
  ASSUME KeyboardOk, DeliveredOk, BleSending(TRUE), ble' = BlePopped, app' = [app EXCEPT !.pc = "idle"],
         UNCHANGED <<usb, adapter, helper, env>>, hosts'.Usb = hosts.Usb,
         hosts'.Ble.live = hosts.Ble.live,
         hosts.Ble.live => \/ hosts'.Ble = Taken(hosts.Ble, BleHead)
                           \/ BleHead.class = "Command" /\ hosts'.Ble = hosts.Ble
  PROVE  DeliveredOk'
<1> DEFINE c == [ble EXCEPT !.queue = Tail(ble.queue)]
           v == Watched
           z == Watched'
           n == adapter.gen
<1>1. /\ BleOk(World, ble) /\ BleRecord(ble) /\ AdapterOk(adapter) /\ n \in Nat
      /\ BleSide(app, ble, AdapterOwner, n, v, env.shared) /\ ViewRecord(v)
  BY DeliveredMeans
<1>2. ble.queue # <<>> /\ Head(ble.queue).own = Ble(n)
  BY BleHeadIsCurrent DEF BleSending, BleHead
<1>3. ble' = BlePumped(c)
  BY DEF BlePopped
<1>4. Serves(World, ble, c) /\ c.queue = Tail(ble.queue)
  <2> DEFINE q == Tail(ble.queue)
  <2>1. Told(World, q)
    BY <1>1, <1>2, PoppedIsTold DEF BleOk
  <2> HIDE DEF q
  <2>2. Serves(World, ble, [ble EXCEPT !.queue = q]) /\ [ble EXCEPT !.queue = q].queue = q
    BY <1>1, <2>1, BleQueueOk
  <2> QED
    BY <2>2 DEF q
<1>5. SameOwners(ble, c) /\ c.reset = ble.reset
  BY <1>1 DEF BleRecord, SameOwners
<1> HIDE DEF c, v, n, z
<1>6. z.live = v.live
      /\ (v.live => z = Taken(v, Head(ble.queue)) \/ (Head(ble.queue).class = "Command" /\ z = v))
  <2>1. Life("Ble")' = Life("Ble") /\ env' = env
    BY DEF Life
  <2>2. CASE Life("Ble") \in env.late
    BY <2>1, <2>2 DEF v, z, Watched, NoView
  <2>3. CASE Life("Ble") \notin env.late
    BY <2>1, <2>3 DEF v, z, Watched, BleHead
  <2> QED
    BY <2>2, <2>3
<1>7. BleSide(app, c, AdapterOwner, n, z, env.shared) /\ (z.live => ~BleNew(c, AdapterOwner))
  BY <1>1, <1>2, <1>4, <1>5, <1>6, BleSideSent
<1>8. BleSide(app, BlePumped(c), AdapterOwner, n, z, env.shared)
  BY <1>1, <1>4, <1>7, BleSideText DEF n, Serves
<1> QED
  BY <1>3, <1>8, DeliveredMeans, PausedDelivers DEF n, z

LEMMA BleAcceptsDelivers ==
  ASSUME KeyboardOk, DeliveredOk, BleAccepts
  PROVE  DeliveredOk'
<1>1. /\ BleSending(TRUE) /\ ble' = BlePopped /\ app' = [app EXCEPT !.pc = "idle"]
      /\ UNCHANGED <<usb, adapter, helper, env>>
      /\ hosts' = IF hosts["Ble"].live THEN [hosts EXCEPT !["Ble"] = Taken(hosts["Ble"], BleHead)]
                  ELSE hosts
  BY DEF BleAccepts, Sees
<1>2. hosts = [Usb |-> hosts.Usb, Ble |-> hosts.Ble] /\ ViewRecord(hosts.Ble) /\ BleHead \in Entries
  BY <1>1, DeliveredMeans, BleHeadIsCurrent DEF BleSending
<1>3. Taken(hosts.Ble, BleHead).live = hosts.Ble.live
  BY <1>2, ViewTakes
<1>4. hosts'.Usb = hosts.Usb
      /\ hosts'.Ble = IF hosts.Ble.live THEN Taken(hosts.Ble, BleHead) ELSE hosts.Ble
  BY <1>1, <1>2
<1> QED
  BY <1>1, <1>3, <1>4, BleSentDelivers

LEMMA BleUnsupportedDelivers ==
  ASSUME KeyboardOk, DeliveredOk, BleUnsupported
  PROVE  DeliveredOk'
BY BleSentDelivers DEF BleUnsupported

LEMMA BleWaitsDelivers ==
  ASSUME KeyboardOk, DeliveredOk, BleWaits
  PROVE  DeliveredOk'
BY DeliveredMeans, QuietlyPaused DEF BleWaits

\* The recovery is about the owner the head was queued for.
LEMMA BleFatalDelivers ==
  ASSUME KeyboardOk, DeliveredOk, BleFatal
  PROVE  DeliveredOk'
<1> DEFINE owner == AdapterOwner
           c == [ble EXCEPT !.phase = "Terminating", !.target = owner]
           n == adapter.gen
           v == Watched
<1>1. /\ app.pc = "sendBle" /\ BleConnected /\ app' = [app EXCEPT !.pc = "pollBle"]
      /\ ble' = c /\ UNCHANGED <<usb, adapter, helper, hosts>>
  BY DEF BleFatal, BleSending
<1>2. env'.shared = env.shared /\ env'.late = env.late
  BY EnvUnchanged, SpendingOk DEF BleFatal, KeyboardOk, Budget, EnvStays
<1>3. BleRecord(ble) /\ AdapterOk(adapter) /\ BleSide(app, ble, owner, n, v, env.shared)
  BY DeliveredMeans
<1>4. c = [ble EXCEPT !.phase = "Terminating", !.target = owner]
  OBVIOUS
<1>5. owner.gen \in 0..n
  BY <1>3, OwnersEpoch
<1> HIDE DEF c, owner, n, v
<1>6. c.queue = ble.queue /\ c.active = ble.active /\ c.phase = "Terminating" /\ c.target = owner
  BY <1>3, <1>4 DEF BleRecord
<1>7. Recovering(c) /\ ~BleNew(c, owner)
  BY <1>6 DEF Recovering, BleNew
<1>8. BleSide(app, c, owner, n, v, env.shared)
  BY <1>3, <1>5, <1>6, <1>7 DEF BleSide
<1> QED
  BY <1>1, <1>2, <1>8, DeliveredMeans, QuietlyPaused DEF owner, n, v

LEMMA RecoveryCompletesDelivers ==
  ASSUME KeyboardOk, DeliveredOk, RecoveryCompletes
  PROVE  DeliveredOk'
<1> DEFINE owner == AdapterOwner
           c == [ble EXCEPT !.phase = "Idle", !.target = NoOwner, !.active = NoOwner, !.reset = TRUE]
           n == adapter.gen
           v == Watched
<1>1. /\ Recovering(ble) /\ ble.target # owner /\ app' = [app EXCEPT !.pc = "pollBle"] /\ ble' = c
      /\ UNCHANGED <<usb, adapter, helper, hosts, env>>
  BY DEF RecoveryCompletes, Servicing, TargetIsOwner
<1>2. BleRecord(ble) /\ n \in Nat /\ BleSide(app, ble, owner, n, v, env.shared)
  BY DeliveredMeans
<1>3. c = [ble EXCEPT !.phase = "Idle", !.target = NoOwner, !.active = NoOwner, !.reset = TRUE]
  OBVIOUS
<1> HIDE DEF c, owner, n, v
<1>4. c.queue = ble.queue /\ c.active = NoOwner /\ c.phase = "Idle" /\ c.target = NoOwner /\ c.reset
  BY <1>2, <1>3 DEF BleRecord
<1>5. BleNew(ble, owner) /\ BleNew(c, owner) /\ NoOwner.gen \in 0..n
  BY <1>1, <1>2, <1>4 DEF BleNew, Recovering, NoOwner, NoEpoch
<1>6. ~Recovering(c) /\ Recovering(ble)
  BY <1>1, <1>4 DEF Recovering
<1>7. v.live => Untouched(app, ble.queue, ble.queue, Ble(n), v)
  BY <1>2, <1>5, <1>6 DEF BleSide
<1>8. v.live => Faithful(app, c.queue, c.queue, Ble(n), v, env.shared) /\ Alien(c.queue, Ble(n))
  BY <1>4, <1>7, UntouchedIsFaithful DEF Untouched
<1>9. BleSide(app, c, owner, n, v, env.shared)
  BY <1>2, <1>4, <1>5, <1>6, <1>8 DEF BleSide, BleServes
<1> QED
  BY <1>1, <1>9, DeliveredMeans, QuietlyPaused DEF owner, n, v

\* Another phase of a recovery that is under way.
LEMMA PhaseSide ==
  ASSUME NEW b, BleRecord(b), Recovering(b), NEW a, NEW owner, NEW n, NEW v, NEW sh,
         BleSide(a, b, owner, n, v, sh), NEW phase, phase # "Idle"
  PROVE  BleSide(a, [b EXCEPT !.phase = phase], owner, n, v, sh)
<1> DEFINE c == [b EXCEPT !.phase = phase]
<1>1. c = [b EXCEPT !.phase = phase]
  OBVIOUS
<1> HIDE DEF c
<1>2. c.queue = b.queue /\ c.active = b.active /\ c.phase = phase /\ c.target = b.target
  BY <1>1 DEF BleRecord
<1>3. Recovering(c) /\ (BleNew(c, owner) <=> BleNew(b, owner))
  BY <1>2 DEF Recovering, BleNew
<1>4. BleSide(a, c, owner, n, v, sh)
  BY <1>2, <1>3 DEF BleSide
<1> QED
  BY <1>4 DEF c

LEMMA ServiceRecoveryDelivers ==
  ASSUME KeyboardOk, DeliveredOk, ServiceRecovery
  PROVE  DeliveredOk'
<1>1. CASE RecoveryCompletes
  BY <1>1, RecoveryCompletesDelivers
<1>2. CASE ~RecoveryCompletes
  <2>1. /\ Recovering(ble) /\ app' = [app EXCEPT !.pc = "idle"]
        /\ UNCHANGED <<usb, helper, hosts, env>>
        /\ \/ \E phase : phase # "Idle" /\ ble' = [ble EXCEPT !.phase = phase]
           \/ ble' = ble
    BY <1>2 DEF ServiceRecovery, RecoveryTerminates, RecoveryFails, RecoveryResets, RecoveryWaits,
                Servicing
  <2>2. adapter'.owner = adapter.owner /\ adapter'.gen = adapter.gen /\ adapter'.event = adapter.event
    BY <1>2, DeliveredMeans DEF ServiceRecovery, RecoveryTerminates, RecoveryFails, RecoveryResets,
                                RecoveryWaits, AdapterOk
  <2>3. BleSide(app, ble', AdapterOwner, adapter.gen, Watched, env.shared)
    BY <2>1, DeliveredMeans, PhaseSide
  <2> QED
    BY <2>1, <2>2, <2>3, DeliveredMeans, QuietlyPaused
<1> QED
  BY <1>1, <1>2

-----------------------------------------------------------------------------
(* The cable and the radio. *)

\* A lifetime that begins is in no queue and in no latch.
LEMMA NewIsUntouched ==
  ASSUME NEW w, NEW a, AppOk(w, a), NEW l \in Lifetimes, ~Past(w, l), NEW k, NEW c,
         Alien(k, l), Alien(c, l)
  PROVE  Untouched(a, k, c, l, FreshView)
<1>1. FreshView.keys = {} /\ FreshView.hot = {}
  BY DEF FreshView, NoView
<1>2. \A latch : LatchOk(w, latch) => LifeOf(latch) # l
  BY NoLifetime DEF LatchOk
<1>3. LifeOf(a.latch) # l /\ \A s \in Bridged : LifeOf(a.hlatch[s]) # l
  BY <1>2 DEF AppOk, KeysOk, HotsOk, HotOk
<1>4. HasNone(a, l)
  BY <1>3 DEF HasNone, Owned, Has
<1> QED
  BY <1>1, <1>4 DEF Untouched

LEMMA UsbSideDead ==
  ASSUME NEW w, NEW u, UsbOk(w, u), NEW a, NEW v, NEW sh, UsbSide(a, u, v, sh),
         NEW x, x.keys = u.keys, x.cmds = u.cmds, x.epoch \in Nat, u.epoch <= x.epoch, NEW z, ~z.live
  PROVE  UsbSide(a, x, z, sh)
<1>1. u.keys \in Seq(Entries) /\ u.cmds \in Seq(Entries) /\ u.epoch \in Nat
  BY DEF UsbOk, Told
<1>2. Dated(x.keys, x.epoch) /\ Dated(x.cmds, x.epoch)
  BY <1>1, DatedGrows DEF UsbSide
<1> QED
  BY <1>2 DEF UsbSide

LEMMA CableDelivers ==
  ASSUME KeyboardOk, DeliveredOk, NEW u, UsbKeeps(u), u.epoch \in Nat, hosts'.Ble = hosts.Ble,
         env'.shared = env.shared, env'.late = env.late,
         UsbSide(app, u, hosts'.Usb, env.shared)
  PROVE  DeliveredOk'
<1>1. usb' = u /\ UNCHANGED <<app, ble, adapter, helper>>
  BY DEF UsbKeeps
<1>2. app' = [app EXCEPT !.pc = app.pc]
  BY <1>1 DEF KeyboardOk, AppOk, AppRecord
<1> QED
  BY <1>1, <1>2, DeliveredMeans, QuietlyPaused

LEMMA ConfigureDelivers ==
  ASSUME KeyboardOk, DeliveredOk, Configure
  PROVE  DeliveredOk'
<1> DEFINE n == usb.epoch + 1
           u == [usb EXCEPT !.tud = TRUE, !.tiny = TRUE, !.phys = TRUE, !.fresh = FALSE,
                            !.epoch = n, !.reset = TRUE]
           l == Usb(n)
<1>1. UsbKeeps(u) /\ UsbHost(FreshView) /\ UNCHANGED env
  BY DEF Configure
<1>2. UsbOk(World, usb) /\ UsbRecord(usb) /\ usb.epoch \in Nat /\ AppOk(World, app)
      /\ UsbSide(app, usb, hosts.Usb, env.shared) /\ World.usb = usb.epoch
      /\ hosts = [Usb |-> hosts.Usb, Ble |-> hosts.Ble]
  BY DeliveredMeans, WorldMeans DEF KeyboardOk, UsbOk
<1>3. hosts'.Usb = FreshView /\ hosts'.Ble = hosts.Ble
  BY <1>1, <1>2 DEF UsbHost
<1>4. u = [usb EXCEPT !.tud = TRUE, !.tiny = TRUE, !.phys = TRUE, !.fresh = FALSE,
                      !.epoch = n, !.reset = TRUE]
  OBVIOUS
<1>5. n \in Nat /\ usb.epoch <= n /\ ~(n <= usb.epoch)
  BY <1>2
<1> HIDE DEF u, n
<1>6. u.keys = usb.keys /\ u.cmds = usb.cmds /\ u.epoch = n /\ u.reset
  BY <1>2, <1>4 DEF UsbRecord
<1>7. Alien(u.keys, l) /\ Alien(u.cmds, l)
  BY <1>2, <1>5, <1>6 DEF UsbSide, Dated, Alien, Usb
<1>8. l \in Lifetimes /\ ~Past(World, l)
  BY <1>2, <1>5 DEF Lifetimes, Transports, Usb, Past
<1> HIDE DEF l
<1>9. Untouched(app, u.keys, u.cmds, l, FreshView)
  BY <1>2, <1>7, <1>8, NewIsUntouched
<1>10. UsbSide(app, u, NoView, env.shared)
  BY <1>2, <1>5, <1>6, UsbSideDead, Views
<1>11. UsbSide(app, u, FreshView, env.shared)
  BY <1>6, <1>9, <1>10 DEF UsbSide, l
<1> QED
  BY <1>1, <1>3, <1>5, <1>6, <1>11, CableDelivers

\* The cable's other steps leave a host that is alive alone, or end it.
LEMMA CableEnds ==
  ASSUME KeyboardOk, DeliveredOk, NEW u, UsbKeeps(u), u.epoch \in Nat, usb.epoch <= u.epoch,
         u.keys = usb.keys, u.cmds = usb.cmds, u.shown = usb.shown,
         env'.shared = env.shared, env'.late = env.late,
         \/ UsbHost(NoView)
         \/ UNCHANGED hosts /\ u.epoch = usb.epoch /\ (hosts.Usb.live => (u.reset <=> usb.reset))
  PROVE  DeliveredOk'
<1>1. UsbOk(World, usb) /\ UsbSide(app, usb, hosts.Usb, env.shared)
      /\ hosts = [Usb |-> hosts.Usb, Ble |-> hosts.Ble]
  BY DeliveredMeans
<1>2. CASE UsbHost(NoView)
  <2>1. hosts'.Usb = NoView /\ hosts'.Ble = hosts.Ble
    BY <1>1, <1>2 DEF UsbHost
  <2>2. UsbSide(app, u, NoView, env.shared)
    BY <1>1, UsbSideDead, Views
  <2> QED
    BY <2>1, <2>2, CableDelivers
<1>3. CASE UNCHANGED hosts /\ u.epoch = usb.epoch /\ (hosts.Usb.live => (u.reset <=> usb.reset))
  <2>1. UsbSide(app, u, hosts.Usb, env.shared)
    BY <1>1, <1>3, UsbSideSame, UsbSideDead
  <2> QED
    BY <1>3, <2>1, CableDelivers
<1> QED
  BY <1>2, <1>3

LEMMA CablesDeliver ==
  ASSUME KeyboardOk, DeliveredOk, Cable \/ SyncPresence
  PROVE  DeliveredOk'
<1>1. UsbRecord(usb) /\ usb.epoch \in Nat /\ EnvOk /\ (hosts.Usb.live => usb.vbus)
  BY DeliveredMeans DEF KeyboardOk, UsbOk
<1>2. CASE PlugIn
  <2> DEFINE u == [usb EXCEPT !.vbus = TRUE]
  <2>1. UsbKeeps(u) /\ Left("mounts") /\ Spend("mounts") /\ UNCHANGED hosts
    BY <1>2 DEF PlugIn
  <2>2. u.epoch = usb.epoch /\ u.reset = usb.reset /\ u.keys = usb.keys /\ u.cmds = usb.cmds
        /\ u.shown = usb.shown
    BY <1>1 DEF UsbRecord
  <2>3. EnvStays /\ env'.late = env.late
    BY <1>1, <2>1, SpendingOk DEF Budget
  <2> HIDE DEF u
  <2> QED
    BY <1>1, <2>1, <2>2, <2>3, CableEnds DEF EnvStays
<1>3. CASE PullOut
  <2> DEFINE u == [usb EXCEPT !.vbus = FALSE]
  <2>1. UsbKeeps(u) /\ UsbHost(NoView) /\ UNCHANGED env
    BY <1>3 DEF PullOut
  <2>2. u.epoch = usb.epoch /\ u.reset = usb.reset /\ u.keys = usb.keys /\ u.cmds = usb.cmds
        /\ u.shown = usb.shown
    BY <1>1 DEF UsbRecord
  <2> HIDE DEF u
  <2> QED
    BY <1>1, <2>1, <2>2, CableEnds
<1>4. CASE Configure
  BY <1>4, ConfigureDelivers
<1>5. CASE BusReset
  <2> DEFINE u == [usb EXCEPT !.tud = FALSE]
  <2>1. UsbKeeps(u) /\ UsbHost(NoView) /\ Left("mounts") /\ Spend("mounts")
    BY <1>5 DEF BusReset
  <2>2. u.epoch = usb.epoch /\ u.reset = usb.reset /\ u.keys = usb.keys /\ u.cmds = usb.cmds
        /\ u.shown = usb.shown
    BY <1>1 DEF UsbRecord
  <2>3. EnvStays /\ env'.late = env.late
    BY <1>1, <2>1, SpendingOk DEF Budget
  <2> HIDE DEF u
  <2> QED
    BY <1>1, <2>1, <2>2, <2>3, CableEnds DEF EnvStays
<1>6. CASE Unmount
  <2> DEFINE n == usb.epoch + 1
             u == [usb EXCEPT !.tud = FALSE, !.tiny = FALSE, !.epoch = n, !.reset = TRUE]
  <2>1. UsbKeeps(u) /\ UsbHost(NoView) /\ UNCHANGED env
    BY <1>6 DEF Unmount
  <2>2. u.epoch = n /\ u.keys = usb.keys /\ u.cmds = usb.cmds /\ u.shown = usb.shown
    BY <1>1 DEF UsbRecord
  <2> HIDE DEF u
  <2>3. n \in Nat /\ usb.epoch <= n
    BY <1>1
  <2> QED
    BY <1>1, <2>1, <2>2, <2>3, CableEnds
<1>7. CASE SyncPresence
  <2> DEFINE u == PresenceSeen(usb)
             reset == usb.reset \/ (usb.tiny /\ usb.phys /\ ~usb.fresh /\ ~usb.vbus)
  <2>1. UsbKeeps(u) /\ UNCHANGED <<hosts, env>>
    BY <1>7 DEF SyncPresence
  <2>2. u = [usb EXCEPT !.present = usb.vbus, !.phys = usb.vbus, !.fresh = usb.fresh \/ ~usb.vbus,
                        !.reset = reset]
    BY DEF PresenceSeen
  <2> HIDE DEF u, reset
  <2>3. u.epoch = usb.epoch /\ u.reset = reset /\ u.keys = usb.keys /\ u.cmds = usb.cmds
        /\ u.shown = usb.shown
    BY <1>1, <2>2 DEF UsbRecord
  <2>4. hosts.Usb.live => (reset <=> usb.reset)
    BY <1>1 DEF reset
  <2> QED
    BY <1>1, <2>1, <2>3, <2>4, CableEnds
<1> QED
  BY <1>2, <1>3, <1>4, <1>5, <1>6, <1>7 DEF Cable

LEMMA BleSideDead ==
  ASSUME NEW w, NEW b, BleOk(w, b), NEW a, NEW owner, NEW n \in Nat, NEW v, NEW sh,
         BleSide(a, b, owner, n, v, sh), NEW c, c.queue = b.queue, c.target = b.target,
         c.active \in {b.active, NoOwner}, NEW o, NEW m \in Nat, n <= m, NEW z, ~z.live
  PROVE  BleSide(a, c, o, m, z, sh)
<1>1. b.queue \in Seq(Entries)
  BY DEF BleOk, Told
<1>2. Dated(c.queue, m)
  BY <1>1, DatedGrows DEF BleSide
<1>3. {c.active.gen, c.target.gen} \subseteq 0..m
  BY DEF BleSide, NoOwner, NoEpoch
<1> QED
  BY <1>2, <1>3 DEF BleSide

LEMMA RadioDelivers ==
  ASSUME KeyboardOk, DeliveredOk, UNCHANGED <<app, usb, helper>>, adapter'.gen \in Nat,
         adapter.gen <= adapter'.gen, hosts'.Usb = hosts.Usb, env'.shared = env.shared,
         BleSide(app, ble', AdapterOwner', adapter'.gen, Watched', env.shared)
  PROVE  DeliveredOk'
<1>1. HelperOk'
  <2>1. adapter.gen \in Nat /\ HelperOk
    BY DeliveredMeans DEF DeliveredOk
  <2> QED
    BY <2>1 DEF HelperOk
<1>2. AppSide(app', env'.shared) /\ UsbSide(app', usb', hosts'.Usb, env'.shared)
  BY DEF DeliveredOk, Sides
<1>3. BleSide(app, ble, AdapterOwner, adapter.gen, Watched, env.shared)'
  BY DEF BleSide, BleServes
<1> QED
  BY <1>1, <1>2, <1>3 DEF DeliveredOk, Sides

\* The owner stays.
LEMMA OwnerStays ==
  ASSUME KeyboardOk, DeliveredOk, UNCHANGED <<app, usb, helper, hosts>>,
         adapter'.owner = adapter.owner, adapter'.gen = adapter.gen,
         env'.shared = env.shared, env'.late = env.late,
         BleSide(app, ble', AdapterOwner, adapter.gen, Watched, env.shared)
  PROVE  DeliveredOk'
<1>1. AdapterOwner' = AdapterOwner /\ Watched' = Watched
  BY WatchedMeans DEF AdapterOwner
<1>2. BleSide(app, ble', AdapterOwner', adapter'.gen, Watched', env.shared)
  BY <1>1
<1>3. adapter'.gen \in Nat /\ adapter.gen <= adapter'.gen
  BY DeliveredMeans
<1> QED
  BY <1>2, <1>3, RadioDelivers

LEMMA SubscribeDelivers ==
  ASSUME KeyboardOk, DeliveredOk, NEW h \in Handles, Subscribe(h)
  PROVE  DeliveredOk'
<1> DEFINE n == adapter.gen + 1
           a == [adapter EXCEPT !.owner = h, !.gen = n, !.task = TRUE, !.event = env.left.events]
           o == [handle |-> h, gen |-> n]
           l == Ble(n)
<1>1. /\ adapter' = a /\ adapter.owner = 0 /\ BleHost(FreshView)
      /\ UNCHANGED <<app, usb, helper, ble, env>>
  BY DEF Subscribe, NimBle, ClaimsKeyboard, ConnectPosted
<1>2. /\ BleOk(World, ble) /\ AdapterOk(adapter) /\ adapter.gen \in Nat /\ AppOk(World, app)
      /\ BleSide(app, ble, AdapterOwner, adapter.gen, Watched, env.shared)
      /\ World.ble = adapter.gen /\ ble.queue \in Seq(Entries)
      /\ hosts = [Usb |-> hosts.Usb, Ble |-> hosts.Ble]
  BY DeliveredMeans, WorldMeans DEF KeyboardOk, BleOk, Told
<1>3. a = [adapter EXCEPT !.owner = h, !.gen = n, !.task = TRUE, !.event = env.left.events]
  OBVIOUS
<1>4. n \in Nat /\ adapter.gen <= n /\ ~(n <= adapter.gen)
  BY <1>2
<1> HIDE DEF a
<1>5. a.owner = h /\ a.gen = n
  BY <1>2, <1>3 DEF AdapterOk
<1>6. AdapterOwner' = o /\ adapter'.gen = n
  <2>1. h # 0
    BY NamesDiffer
  <2> QED
    BY <1>1, <1>5, <2>1 DEF AdapterOwner
<1>7. hosts'.Ble = FreshView /\ hosts'.Usb = hosts.Usb
  BY <1>1, <1>2 DEF BleHost
<1>8. Alien(ble.queue, l)
  BY <1>2, <1>4 DEF BleSide, Dated, Alien, Ble
<1>9. l \in Lifetimes /\ ~Past(World, l)
  BY <1>2, <1>4 DEF Lifetimes, Transports, Ble, Past
<1>10. ble.active # o /\ ble.target # o
  BY <1>2, <1>4 DEF BleSide
<1> HIDE DEF l, n, o
<1>11. Untouched(app, ble.queue, ble.queue, l, FreshView)
  BY <1>2, <1>8, <1>9, NewIsUntouched
<1>12. BleNew(ble, o)
  BY <1>10 DEF BleNew
<1>13. BleSide(app, ble, o, n, NoView, env.shared)
  BY <1>2, <1>4, BleSideDead, Views
<1>14. Faithful(app, ble.queue, ble.queue, l, FreshView, env.shared)
  BY <1>11, UntouchedIsFaithful
<1>15. BleSide(app, ble, o, n, FreshView, env.shared)
  BY <1>8, <1>11, <1>12, <1>13, <1>14 DEF BleSide, BleServes, l
<1>16. Watched' \in {NoView, FreshView}
  BY <1>7 DEF Watched
<1>17. BleSide(app, ble', AdapterOwner', adapter'.gen, Watched', env.shared)
  BY <1>1, <1>6, <1>13, <1>15, <1>16
<1>18. adapter'.gen \in Nat /\ adapter.gen <= adapter'.gen
  BY <1>4, <1>6
<1> QED
  BY <1>1, <1>7, <1>17, <1>18, RadioDelivers

LEMMA GapSyncDelivers ==
  ASSUME KeyboardOk, DeliveredOk, GapSync
  PROVE  DeliveredOk'
<1>1. /\ adapter' = [adapter EXCEPT !.task = FALSE] /\ UNCHANGED <<app, usb, helper, hosts, env>>
      /\ ble' = IF Identity(ble) = NoOwner THEN ble ELSE Adopted(ble, AdapterOwner)
  BY DEF GapSync
<1>2. BleRecord(ble) /\ AdapterOk(adapter)
      /\ BleSide(app, ble, AdapterOwner, adapter.gen, Watched, env.shared)
  BY DeliveredMeans
<1>3. adapter'.owner = adapter.owner /\ adapter'.gen = adapter.gen
  BY <1>1, <1>2 DEF AdapterOk
<1>4. BleSide(app, ble', AdapterOwner, adapter.gen, Watched, env.shared)
  <2>1. CASE Identity(ble) = NoOwner
    BY <1>1, <1>2, <2>1
  <2>2. CASE Identity(ble) # NoOwner
    <3>1. ~Recovering(ble)
      BY <2>2 DEF Identity
    <3> QED
      BY <1>1, <1>2, <2>2, <3>1, BleAdoptedSide
  <2> QED
    BY <2>1, <2>2
<1> QED
  BY <1>1, <1>3, <1>4, OwnerStays

\* The owner is lost, and its host with it.
LEMMA OwnerLost ==
  ASSUME KeyboardOk, DeliveredOk, UNCHANGED <<app, usb, helper>>, BleHost(NoView),
         adapter'.gen \in Nat, adapter.gen <= adapter'.gen, env'.shared = env.shared,
         ble'.queue = ble.queue, ble'.target = ble.target, ble'.active \in {ble.active, NoOwner}
  PROVE  DeliveredOk'
<1>1. BleOk(World, ble) /\ adapter.gen \in Nat /\ hosts = [Usb |-> hosts.Usb, Ble |-> hosts.Ble]
      /\ BleSide(app, ble, AdapterOwner, adapter.gen, Watched, env.shared)
  BY DeliveredMeans
<1>2. Watched' = NoView /\ hosts'.Usb = hosts.Usb /\ ~NoView.live
  BY <1>1, Views DEF BleHost, Watched
<1> DEFINE o == AdapterOwner'
           n == adapter'.gen
<1> HIDE DEF o, n
<1>3. n \in Nat /\ adapter.gen <= n
  BY DEF n
<1>4. BleSide(app, ble', o, n, NoView, env.shared)
  BY <1>1, <1>2, <1>3, BleSideDead
<1> QED
  BY <1>2, <1>4, RadioDelivers DEF o, n

-----------------------------------------------------------------------------
(* The radio's other steps. *)

LEMMA ConnectDelivers ==
  ASSUME KeyboardOk, DeliveredOk, NEW h \in Handles, Connect(h)
  PROVE  DeliveredOk'
<1> DEFINE conns == adapter.conns \cup {h}
           boot == adapter.boot /\ adapter.owner # 0
           a == [adapter EXCEPT !.conns = conns, !.boot = boot]
<1>1. /\ UNCHANGED <<app, usb, helper, ble, hosts>> /\ Left("links") /\ Spend("links")
      /\ adapter' = a
  BY DEF Connect, NimBle
<1>2. AdapterOk(adapter) /\ EnvStays /\ env'.late = env.late
      /\ BleSide(app, ble, AdapterOwner, adapter.gen, Watched, env.shared)
  BY <1>1, DeliveredMeans, SpendingOk DEF KeyboardOk, Budget
<1>3. a = [adapter EXCEPT !.conns = conns, !.boot = boot]
  OBVIOUS
<1> HIDE DEF a, conns, boot
<1>4. a.owner = adapter.owner /\ a.gen = adapter.gen
  BY <1>2, <1>3 DEF AdapterOk
<1> QED
  BY <1>1, <1>2, <1>4, OwnerStays DEF EnvStays

\* Another link than the owner's goes: a transport that had it has not adopted the owner yet.
LEMMA OtherLinkGoes ==
  ASSUME NEW b, BleRecord(b), NEW a, NEW owner, NEW n \in Nat, NEW v, NEW sh,
         BleSide(a, b, owner, n, v, sh), b.active # owner,
         NEW c, c = [b EXCEPT !.active = NoOwner, !.reset = TRUE]
  PROVE  BleSide(a, c, owner, n, v, sh)
<1>1. c.queue = b.queue /\ c.target = b.target /\ c.phase = b.phase /\ c.active = NoOwner /\ c.reset
  BY DEF BleRecord
<1>2. (Recovering(c) <=> Recovering(b)) /\ BleNew(c, owner) = BleNew(b, owner)
  BY <1>1 DEF Recovering, BleNew
<1>3. {c.active.gen, c.target.gen} \subseteq 0..n
  BY <1>1 DEF BleSide, NoOwner, NoEpoch
<1> QED
  BY <1>1, <1>2, <1>3 DEF BleSide

LEMMA DisconnectDelivers ==
  ASSUME KeyboardOk, DeliveredOk, NEW h \in Handles, Disconnect(h)
  PROVE  DeliveredOk'
<1> DEFINE conns == adapter.conns \ {h}
           closing == adapter.closing \ {h}
           a == [adapter EXCEPT !.conns = conns, !.closing = closing]
           b == [ble EXCEPT !.active = NoOwner, !.reset = TRUE]
<1>1. /\ UNCHANGED <<app, usb, helper, env>> /\ h \in adapter.conns
      /\ adapter' = IF adapter.owner = h THEN WithoutOwner(a) ELSE a
      /\ ble' = IF ble.active.handle = h THEN b ELSE ble
      /\ IF adapter.owner = h THEN BleHost(NoView) ELSE UNCHANGED hosts
  BY DEF Disconnect, NimBle
<1>2. /\ AdapterOk(adapter) /\ BleRecord(ble) /\ adapter.gen \in Nat /\ h # 0
      /\ BleSide(app, ble, AdapterOwner, adapter.gen, Watched, env.shared)
      /\ hosts.Ble.live = (adapter.owner # 0)
  BY DeliveredMeans, NamesDiffer DEF KeyboardOk, LinksOk
<1>3. /\ a = [adapter EXCEPT !.conns = conns, !.closing = closing]
      /\ b = [ble EXCEPT !.active = NoOwner, !.reset = TRUE]
      /\ closing \subseteq conns /\ conns \subseteq Handles
  BY <1>2 DEF AdapterOk
<1> HIDE DEF a, b, conns, closing
<1>a. a = [owner |-> adapter.owner, gen |-> adapter.gen, synced |-> adapter.synced,
           boot |-> adapter.boot, conns |-> conns, closing |-> closing, reset |-> adapter.reset,
           task |-> adapter.task, event |-> adapter.event]
  BY <1>2, <1>3 DEF AdapterOk
<1>b. /\ a = [owner |-> a.owner, gen |-> a.gen, synced |-> a.synced, boot |-> a.boot,
              conns |-> a.conns, closing |-> a.closing, reset |-> a.reset,
              task |-> a.task, event |-> a.event]
      /\ a.owner = adapter.owner /\ a.gen = adapter.gen /\ a.conns = conns /\ a.closing = closing
      /\ a.gen \in Nat /\ a.conns \subseteq Handles /\ a.closing \subseteq a.conns
     
  BY <1>2, <1>3, <1>a DEF AdapterOk
<1>4. b.queue = ble.queue /\ b.target = ble.target /\ b.active = NoOwner
  BY <1>2, <1>3 DEF BleRecord
<1>5. CASE adapter.owner = h
  <2>1. BleHost(NoView) /\ adapter' = WithoutOwner(a)
    BY <1>1, <1>5
  <2>2. AdapterOk(adapter') /\ adapter.gen <= adapter'.gen
    BY <1>b, <2>1, WithoutOwnerOk
  <2>3. adapter'.gen \in Nat
    BY <2>2 DEF AdapterOk
  <2>4. ble'.queue = ble.queue /\ ble'.target = ble.target /\ ble'.active \in {ble.active, NoOwner}
    BY <1>1, <1>4
  <2> QED
    BY <1>1, <2>1, <2>2, <2>3, <2>4, OwnerLost
<1>6. CASE adapter.owner # h
  <2>1. UNCHANGED hosts /\ adapter' = a
    BY <1>1, <1>6
  <2>2. BleSide(app, ble', AdapterOwner, adapter.gen, Watched, env.shared)
    <3>1. CASE ble.active.handle = h
      <4>1. ble' = [ble EXCEPT !.active = NoOwner, !.reset = TRUE]
        BY <1>1, <1>3, <3>1
      <4>2. ble.active # AdapterOwner
        BY <1>2, <1>6, <3>1 DEF AdapterOwner, NoOwner
      <4> DEFINE c == ble'
                 o == AdapterOwner
                 n == adapter.gen
      <4> HIDE DEF c, o, n
      <4>3. c = [ble EXCEPT !.active = NoOwner, !.reset = TRUE] /\ ble.active # o /\ n \in Nat
            /\ BleSide(app, ble, o, n, Watched, env.shared)
        BY <1>2, <4>1, <4>2 DEF c, o, n
      <4>4. BleSide(app, c, o, n, Watched, env.shared)
        BY <1>2, <4>3, OtherLinkGoes
      <4> QED
        BY <4>4 DEF c, o, n
    <3>2. CASE ble.active.handle # h
      BY <1>1, <1>2, <3>2
    <3> QED
      BY <3>1, <3>2
  <2> QED
    BY <1>1, <1>b, <2>1, <2>2, OwnerStays
<1> QED
  BY <1>5, <1>6

LEMMA TermFailedDelivers ==
  ASSUME KeyboardOk, DeliveredOk, NEW h \in Handles, TermFailed(h)
  PROVE  DeliveredOk'
<1> DEFINE closing == adapter.closing \ {h}
           a == [adapter EXCEPT !.closing = closing]
<1>1. /\ UNCHANGED <<app, usb, helper, hosts>> /\ Left("faults") /\ Spend("faults")
      /\ adapter' = a
      /\ ble' = ble \/ (Recovering(ble) /\ ble' = [ble EXCEPT !.phase = "AwaitingHostReset"])
  BY DEF TermFailed, NimBle
<1>2. AdapterOk(adapter) /\ EnvStays /\ env'.late = env.late /\ BleRecord(ble)
      /\ BleSide(app, ble, AdapterOwner, adapter.gen, Watched, env.shared)
  BY <1>1, DeliveredMeans, SpendingOk DEF KeyboardOk, Budget
<1>3. a = [adapter EXCEPT !.closing = closing]
  OBVIOUS
<1> HIDE DEF a, closing
<1>4. a.owner = adapter.owner /\ a.gen = adapter.gen
  BY <1>2, <1>3 DEF AdapterOk
<1>5. BleSide(app, ble', AdapterOwner, adapter.gen, Watched, env.shared)
  BY <1>1, <1>2, PhaseSide
<1> QED
  BY <1>1, <1>2, <1>4, <1>5, OwnerStays DEF EnvStays

LEMMA HostResetDelivers ==
  ASSUME KeyboardOk, DeliveredOk, HostReset
  PROVE  DeliveredOk'
<1> DEFINE a == [adapter EXCEPT !.synced = FALSE, !.reset = FALSE, !.conns = {}, !.closing = {},
                                !.boot = FALSE]
<1>1. /\ UNCHANGED <<app, usb, helper, ble>> /\ adapter' = WithoutOwner(a) /\ BleHost(NoView)
  BY DEF HostReset, NimBle
<1>2. AdapterOk(adapter) /\ EnvStays
  BY EnvUnchanged, SpendingOk DEF KeyboardOk, HostReset, Budget
<1>3. a = [adapter EXCEPT !.synced = FALSE, !.reset = FALSE, !.conns = {}, !.closing = {},
                          !.boot = FALSE]
  OBVIOUS
<1> HIDE DEF a
<1>a. a = [owner |-> adapter.owner, gen |-> adapter.gen, synced |-> FALSE,
           boot |-> FALSE, conns |-> {}, closing |-> {}, reset |-> FALSE,
           task |-> adapter.task, event |-> adapter.event]
  BY <1>2, <1>3 DEF AdapterOk
<1>b. /\ a = [owner |-> a.owner, gen |-> a.gen, synced |-> a.synced, boot |-> a.boot,
              conns |-> a.conns, closing |-> a.closing, reset |-> a.reset,
              task |-> a.task, event |-> a.event]
      /\ a.gen = adapter.gen /\ a.gen \in Nat /\ a.conns \subseteq Handles /\ a.closing \subseteq a.conns
     
  BY <1>2, <1>a DEF AdapterOk
<1>4. AdapterOk(adapter') /\ adapter.gen <= adapter'.gen
  BY <1>1, <1>b, WithoutOwnerOk
<1>5. adapter'.gen \in Nat
  BY <1>4 DEF AdapterOk
<1> QED
  BY <1>1, <1>2, <1>4, <1>5, OwnerLost DEF EnvStays

LEMMA FlagsDeliver ==
  ASSUME KeyboardOk, DeliveredOk, HostSynced \/ SetProtocol
  PROVE  DeliveredOk'
<1> DEFINE other == ~adapter.boot
           yes == TRUE
           x == [adapter EXCEPT !.synced = yes]
           y == [adapter EXCEPT !.boot = other]
<1>1. UNCHANGED <<app, usb, helper, ble, hosts>> /\ adapter' \in {x, y}
  BY DEF HostSynced, SetProtocol, NimBle
<1>2. AdapterOk(adapter) /\ EnvStays /\ env'.late = env.late
      /\ BleSide(app, ble, AdapterOwner, adapter.gen, Watched, env.shared)
  <2>1. EnvStays /\ env'.late = env.late
    BY EnvUnchanged, SpendingOk DEF KeyboardOk, HostSynced, SetProtocol, Budget
  <2> QED
    BY <2>1, DeliveredMeans
<1>3. x = [adapter EXCEPT !.synced = yes] /\ y = [adapter EXCEPT !.boot = other]
  OBVIOUS
<1> HIDE DEF x, y, other, yes
<1>4. \A a \in {x, y} : a.owner = adapter.owner /\ a.gen = adapter.gen
  BY <1>2, <1>3 DEF AdapterOk
<1> QED
  BY <1>1, <1>2, <1>4, OwnerStays DEF EnvStays

-----------------------------------------------------------------------------
(* The behaviours, and what their hosts are left with. *)

LEMMA MainDelivers ==
  ASSUME KeyboardOk, DeliveredOk, Main
  PROVE  DeliveredOk'
<1>1. CASE \E s \in DOMAIN Key : Press(s) \/ Release(s)
  BY <1>1, PressDelivers, ReleaseDelivers
<1>2. CASE \E s \in Bridged : HotkeyUp(s) \/ FlushHot(s)
                              \/ \E h \in env.left.hotkeys : HotkeyDown(s, h)
  BY <1>2, HotkeyUpDelivers, FlushHotDelivers, HotkeyDownDelivers
<1>3. CASE ReleaseAll \/ FixedText \/ FlushKeys \/ SendKeys \/ SyncPresence
  BY <1>3, ReleaseAllDelivers, FixedTextDelivers, FlushKeysDelivers, SendKeysDelivers, CablesDeliver
<1>4. CASE PollUsb \/ UsbDrops \/ UsbAccepts \/ UsbWaits
  BY <1>4, PollUsbDelivers, UsbDropsDelivers, UsbAcceptsDelivers, UsbWaitsDelivers
<1>5. CASE PollBle \/ BleDisconnected \/ BleAccepts
  BY <1>5, PollBleDelivers, BleDisconnectedDelivers, BleAcceptsDelivers
<1>6. CASE BleUnsupported \/ BleWaits \/ BleFatal \/ ServiceRecovery
  BY <1>6, BleUnsupportedDelivers, BleWaitsDelivers, BleFatalDelivers, ServiceRecoveryDelivers
<1> QED
  BY <1>1, <1>2, <1>3, <1>4, <1>5, <1>6 DEF Main

LEMMA RadiosDeliver ==
  ASSUME KeyboardOk, DeliveredOk, Radio
  PROVE  DeliveredOk'
<1>1. CASE \E h \in Handles : Connect(h) \/ Subscribe(h) \/ Disconnect(h) \/ TermFailed(h)
  BY <1>1, ConnectDelivers, SubscribeDelivers, DisconnectDelivers, TermFailedDelivers
<1>2. CASE GapSync \/ HostReset \/ HostSynced \/ SetProtocol
  BY <1>2, GapSyncDelivers, HostResetDelivers, FlagsDeliver
<1> QED
  BY <1>1, <1>2 DEF Radio

\* The event-loop task, which moves nothing but the adoption of the owner.
LEMMA EventDelivers ==
  ASSUME KeyboardOk, DeliveredOk, UNCHANGED <<app, usb, hosts>>, adapter'.owner = adapter.owner,
         adapter'.gen = adapter.gen, env'.shared = env.shared,
         helper' = [pc |-> helper'.pc, snap |-> helper'.snap], helper'.snap.gen \in 0..adapter.gen,
         BleSide(app, ble, AdapterOwner, adapter.gen, Watched, env.shared)'
  PROVE  DeliveredOk'
<1>1. HelperOk'
  BY DEF HelperOk
<1>2. AppSide(app', env'.shared) /\ UsbSide(app', usb', hosts'.Usb, env'.shared)
  BY DEF DeliveredOk, Sides
<1> QED
  BY <1>1, <1>2 DEF DeliveredOk, Sides

LEMMA EventReadDelivers ==
  ASSUME KeyboardOk, DeliveredOk, EventRead
  PROVE  DeliveredOk'
<1>1. /\ helper.pc = "idle" /\ adapter' = [adapter EXCEPT !.event = FALSE]
      /\ helper' = helper \/ helper' = [pc |-> "adopt", snap |-> Identity(ble)]
      /\ UNCHANGED <<app, usb, ble, env, hosts>>
  BY DEF EventRead, HelperKeeps
<1>2. AdapterOk(adapter) /\ HelperOk /\ adapter.gen \in Nat
      /\ BleSide(app, ble, AdapterOwner, adapter.gen, Watched, env.shared)
  BY DeliveredMeans DEF DeliveredOk
<1>3. adapter'.owner = adapter.owner /\ adapter'.gen = adapter.gen
  BY <1>1, <1>2 DEF AdapterOk
<1>4. Identity(ble).gen \in 0..adapter.gen
  BY <1>2, OwnersEpoch DEF Identity, NoOwner, NoEpoch
<1>5. /\ helper' = [pc |-> helper'.pc, snap |-> helper'.snap]
      /\ helper'.snap.gen \in 0..adapter.gen /\ helper'.pc # "flag"
  BY <1>1, <1>2, <1>4 DEF HelperOk
<1>6. Watched' = Watched /\ AdapterOwner' = AdapterOwner
  BY <1>1, <1>3, WatchedMeans DEF AdapterOwner
<1>7. BleSide(app, ble, AdapterOwner, adapter.gen, Watched, env.shared)'
  BY <1>1, <1>2, <1>3, <1>5, <1>6 DEF BleSide, BleServes
<1> QED
  BY <1>1, <1>3, <1>5, <1>7, EventDelivers

\* Another owner is adopted: no report waits, or its loss is remembered.
LEMMA EventAdoptDelivers ==
  ASSUME KeyboardOk, DeliveredOk, EventAdopt
  PROVE  DeliveredOk'
<1> DEFINE lost == helper.snap # AdapterOwner /\ ReportWaits
           snap == helper.snap
           c == [ble EXCEPT !.active = snap]
           owner == AdapterOwner
           n == adapter.gen
           q == ble.queue
           v == Watched
<1>1. /\ helper.pc = "adopt" /\ ble' = c /\ Lose(lost) /\ UNCHANGED <<app, usb, adapter, hosts>>
      /\ helper' = [pc |-> IF ble.active = snap THEN "idle" ELSE "flag", snap |-> NoOwner]
  BY DEF EventAdopt, HelperKeeps
<1>2. BleRecord(ble) /\ HelperOk /\ n \in Nat /\ BleSide(app, ble, owner, n, v, env.shared)
  BY DeliveredMeans DEF DeliveredOk
<1>3. ~lost /\ snap # owner => Alien(q, Ble(n))
  BY NothingWaits
<1>4. env'.shared = env.shared /\ (lost => Watched' = NoView) /\ (~lost => Watched' = v)
  BY <1>1, LosingMeans
<1>5. AdapterOwner' = owner /\ adapter'.gen = n /\ adapter'.owner = adapter.owner
  BY <1>1 DEF AdapterOwner
<1>6. c = [ble EXCEPT !.active = snap] /\ snap.gen \in 0..n
  BY <1>2 DEF HelperOk
<1>7. /\ helper' = [pc |-> helper'.pc, snap |-> helper'.snap] /\ helper'.snap.gen \in 0..n
      /\ helper'.pc # "flag" => ble.active = snap
  BY <1>1, <1>2 DEF NoOwner, NoEpoch
<1> HIDE DEF c, lost, owner, n, q, v, snap
<1>8. c.queue = q /\ c.active = snap /\ c.target = ble.target /\ c.phase = ble.phase
      /\ c.reset = ble.reset
  BY <1>2, <1>6 DEF BleRecord, q
<1>9. (Recovering(c) <=> Recovering(ble)) /\ (Recovering(c) => (BleNew(c, owner) <=> BleNew(ble, owner)))
  BY <1>8 DEF Recovering, BleNew
<1>10. {c.active.gen, c.target.gen} \subseteq 0..n /\ Dated(c.queue, n)
  BY <1>2, <1>6, <1>8 DEF BleSide, q
<1>11. CASE lost
  <2>1. BleSide(app, ble, AdapterOwner, adapter.gen, Watched, env.shared)'
    BY <1>1, <1>4, <1>5, <1>10, <1>11 DEF BleSide, NoView
  <2> QED
    BY <1>1, <1>4, <1>5, <1>7, <2>1, EventDelivers DEF n
<1>12. CASE ~lost
  <2>1. v.live /\ Recovering(c) => (BleNew(c, owner) => Untouched(app, c.queue, c.queue, Ble(n), v))
    BY <1>2, <1>8, <1>9 DEF BleSide, q
  <2>2. v.live /\ ~Recovering(c) => BleServes(app, q, BleNew(ble, owner), Ble(n), v, env.shared)
    BY <1>2, <1>9 DEF BleSide, q
  <2>3. v.live /\ ~Recovering(c) /\ BleNew(c, owner) => Alien(q, Ble(n))
    BY <1>3, <1>8, <1>9, <1>12, <2>2 DEF BleNew, BleServes
  <2>4. v.live /\ ~Recovering(c) /\ ~BleNew(c, owner) /\ helper'.pc # "flag" => OwnOnly(q, Ble(n))
    BY <1>1, <1>7, <1>8, <1>9, <2>2 DEF BleNew, BleServes
  <2>5. BleSide(app, ble, AdapterOwner, adapter.gen, Watched, env.shared)'
    BY <1>1, <1>4, <1>5, <1>8, <1>10, <1>12, <2>1, <2>2, <2>3, <2>4 DEF BleSide, BleServes
  <2> QED
    BY <1>1, <1>4, <1>5, <1>7, <2>5, EventDelivers DEF n
<1> QED
  BY <1>11, <1>12

\* The reset that was still to come.
LEMMA EventFlagDelivers ==
  ASSUME KeyboardOk, DeliveredOk, EventFlag
  PROVE  DeliveredOk'
<1> DEFINE lost == ReportWaits
           yes == TRUE
           c == [ble EXCEPT !.reset = yes]
           pc == "idle"
           owner == AdapterOwner
           n == adapter.gen
           q == ble.queue
           v == Watched
<1>1. /\ ble' = c /\ Lose(lost) /\ UNCHANGED <<app, usb, adapter, hosts>>
      /\ helper' = [helper EXCEPT !.pc = pc]
  BY DEF EventFlag, HelperKeeps
<1>2. BleRecord(ble) /\ HelperOk /\ BleSide(app, ble, owner, n, v, env.shared)
  BY DeliveredMeans DEF DeliveredOk
<1>3. ~lost => Alien(q, Ble(n))
  BY NothingWaits
<1>4. env'.shared = env.shared /\ (lost => Watched' = NoView) /\ (~lost => Watched' = v)
  BY <1>1, LosingMeans
<1>5. AdapterOwner' = owner /\ adapter'.gen = n /\ adapter'.owner = adapter.owner
  BY <1>1 DEF AdapterOwner
<1>6. c = [ble EXCEPT !.reset = yes]
  OBVIOUS
<1> HIDE DEF pc
<1>7. helper' = [pc |-> helper'.pc, snap |-> helper'.snap] /\ helper'.snap.gen \in 0..n
  BY <1>1, <1>2 DEF HelperOk
<1> HIDE DEF c, lost, owner, n, q, v
<1>8. c.queue = q /\ c.active = ble.active /\ c.target = ble.target /\ c.phase = ble.phase
      /\ c.reset
  BY <1>2, <1>6 DEF BleRecord, q
<1>9. /\ Recovering(c) <=> Recovering(ble)
      /\ Recovering(c) => (BleNew(c, owner) <=> BleNew(ble, owner))
      /\ ~Recovering(c) => BleNew(c, owner)
  BY <1>8 DEF Recovering, BleNew
<1>10. {c.active.gen, c.target.gen} \subseteq 0..n /\ Dated(c.queue, n)
  BY <1>2, <1>8 DEF BleSide, q
<1>11. CASE lost
  <2>1. BleSide(app, ble, AdapterOwner, adapter.gen, Watched, env.shared)'
    BY <1>1, <1>4, <1>5, <1>10, <1>11 DEF BleSide, NoView
  <2> QED
    BY <1>1, <1>4, <1>5, <1>7, <2>1, EventDelivers DEF n
<1>12. CASE ~lost
  <2>1. v.live /\ Recovering(c) => (BleNew(c, owner) => Untouched(app, c.queue, c.queue, Ble(n), v))
    BY <1>2, <1>8, <1>9 DEF BleSide, q
  <2>2. v.live /\ ~Recovering(c) => Faithful(app, q, q, Ble(n), v, env.shared)
    BY <1>2, <1>9 DEF BleSide, BleServes, q
  <2>3. BleSide(app, ble, AdapterOwner, adapter.gen, Watched, env.shared)'
    BY <1>1, <1>3, <1>4, <1>5, <1>8, <1>9, <1>10, <1>12, <2>1, <2>2 DEF BleSide, BleServes
  <2> QED
    BY <1>1, <1>4, <1>5, <1>7, <2>3, EventDelivers DEF n
<1> QED
  BY <1>11, <1>12

LEMMA NextDelivers ==
  ASSUME KeyboardOk, DeliveredOk, [Next]_vars
  PROVE  DeliveredOk'
<1>1. CASE Main
  BY <1>1, MainDelivers
<1>2. CASE Cable
  BY <1>2, CablesDeliver
<1>3. CASE Radio
  BY <1>3, RadiosDeliver
<1>4. CASE EventTask
  BY <1>4, EventReadDelivers, EventAdoptDelivers, EventFlagDelivers DEF EventTask
<1>5. CASE UNCHANGED vars
  <2>1. UNCHANGED <<app, usb, ble, adapter, helper, hosts, env>>
    BY <1>5 DEF vars
  <2> QED
    BY <2>1, DeliveredMeans, OwnerStays
<1> QED
  BY <1>1, <1>2, <1>3, <1>4, <1>5 DEF Next

LEMMA InitDelivers ==
  ASSUME Init
  PROVE  DeliveredOk
<1>1. /\ app = InitApp /\ usb = InitUsb /\ ble = InitBle /\ adapter = InitAdapter
      /\ helper = [pc |-> "idle", snap |-> NoOwner] /\ ~NoView.live
      /\ hosts.Usb = NoView /\ hosts.Ble = NoView
  BY DEF Init, NoView
<1>2. adapter.gen = 0 /\ NoOwner.gen = 0
  BY <1>1 DEF InitAdapter, NoOwner, NoEpoch
<1>3. HelperOk
  BY <1>1, <1>2 DEF HelperOk
<1>4. AppSide(app, env.shared)
  <2>1. /\ app.latch = NoLatch /\ ~IsLatched(NoLatch)
        /\ \A s \in Bridged : app.hlatch[s] = NoLatch /\ app.hot[s] = NewHot
    BY <1>1 DEF InitApp, NoLatch, IsLatched
  <2>2. \A h \in Hotkeys : ~Wants(NewHot, h)
    BY NamesDiffer DEF Wants, NewHot
  <2> QED
    BY <2>1, <2>2 DEF AppSide, LatchesOk, SharedOk, LifetimeLost
<1>5. UsbSide(app, usb, NoView, env.shared)
  BY <1>1 DEF UsbSide, Dated, InitUsb
<1>6. BleSide(app, ble, AdapterOwner, adapter.gen, NoView, env.shared)
  <2>1. ble.queue = <<>> /\ ble.active = NoOwner /\ ble.target = NoOwner
    BY <1>1 DEF InitBle
  <2> QED
    BY <1>1, <1>2, <2>1 DEF BleSide, Dated
<1>7. Watched = NoView
  BY <1>1 DEF Watched
<1> QED
  BY <1>1, <1>3, <1>4, <1>5, <1>6, <1>7 DEF DeliveredOk, Sides

\* The indices of the last report of a set.
Last(q, S) == {i \in 1..Len(q) : q[i] \in S /\ \A j \in i + 1..Len(q) : q[j] \notin S}

LEMMA EndsLast ==
  ASSUME NEW q \in Seq(Entries), NEW S, NEW G, NEW base, Ends(q, S, G, base)
  PROVE  \/ Last(q, S) = {} /\ base
         \/ \E i \in 1..Len(q) : Last(q, S) = {i} /\ q[i] \in G
<1>1. DOMAIN q = 1..Len(q) /\ Len(q) \in Nat
  OBVIOUS
<1>2. CASE base /\ \A i \in DOMAIN q : q[i] \notin S
  BY <1>1, <1>2 DEF Last
<1>3. CASE \E i \in DOMAIN q : q[i] \in S \cap G /\ \A j \in DOMAIN q : i < j => q[j] \notin S
  <2>1. PICK i \in DOMAIN q : q[i] \in S \cap G /\ \A j \in DOMAIN q : i < j => q[j] \notin S
    BY <1>3
  <2>2. i \in Last(q, S)
    BY <1>1, <2>1 DEF Last
  <2>3. ASSUME NEW k \in Last(q, S)
        PROVE  k = i
    BY <1>1, <2>1 DEF Last
  <2> QED
    BY <1>1, <2>1, <2>2, <2>3
<1> QED
  BY <1>2, <1>3 DEF Ends

LEMMA FollowedIsFaithful ==
  ASSUME KeyboardOk, DeliveredOk, NEW t \in {"Usb", "Ble"}, Followed(t), Life(t) \notin env.late
  PROVE  /\ Faithful(app, QueueOf(t), CommandsOf(t), Life(t), hosts[t], env.shared)
         /\ QueueOf(t) \in Seq(Entries) /\ CommandsOf(t) \in Seq(Entries)
<1>1. /\ UsbSide(app, usb, hosts.Usb, env.shared)
      /\ BleSide(app, ble, AdapterOwner, adapter.gen, Watched, env.shared)
      /\ usb.keys \in Seq(Entries) /\ usb.cmds \in Seq(Entries) /\ ble.queue \in Seq(Entries)
  BY DeliveredMeans DEF UsbOk, BleOk, Told
<1>2. CASE t = "Usb"
  <2>1. Faithful(app, usb.keys, usb.cmds, Usb(usb.epoch), hosts.Usb, env.shared)
    BY <1>1, <1>2, UntouchedIsFaithful DEF UsbSide, Followed
  <2> QED
    BY <1>1, <1>2, <2>1 DEF QueueOf, CommandsOf, Life
<1>3. CASE t = "Ble"
  <2>1. Watched = hosts.Ble
    BY <1>3 DEF Watched
  <2>2. Faithful(app, ble.queue, ble.queue, Ble(adapter.gen), hosts.Ble, env.shared)
    BY <1>1, <1>3, <2>1 DEF BleSide, BleServes, Followed
  <2> QED
    BY <1>1, <1>3, <2>2 DEF QueueOf, CommandsOf, Life
<1> QED
  BY <1>2, <1>3

LEMMA KeysEnd ==
  ASSUME NEW t, QueueOf(t) \in Seq(Entries), NEW keys,
         KeysRight(keys, QueueOf(t), Life(t), hosts[t].keys)
  PROVE  FinalKeys(t) = keys
<1> DEFINE q == QueueOf(t)
           S == Shots(Life(t))
<1>1. FinalKeys(t) = IF Last(q, S) = {} THEN hosts[t].keys ELSE UNION {q[i].keys : i \in Last(q, S)}
  <2>1. \A i \in 1..Len(q) : q[i] \in Entries
    OBVIOUS
  <2>2. \A i \in 1..Len(q) : q[i] \in S <=> IsSnapshot(q[i]) /\ q[i].own = Life(t)
    BY <2>1 DEF Shots
  <2>3. Last(q, S) = {i \in 1..Len(q) :
                        /\ IsSnapshot(q[i]) /\ q[i].own = Life(t)
                        /\ \A j \in i + 1..Len(q) : ~(IsSnapshot(q[j]) /\ q[j].own = Life(t))}
    <3>1. \A i \in 1..Len(q) : \A j \in i + 1..Len(q) : j \in 1..Len(q)
      OBVIOUS
    <3> QED
      BY <2>2, <3>1 DEF Last
  <2> QED
    BY <2>3 DEF FinalKeys
<1>2. \/ Last(q, S) = {} /\ hosts[t].keys = keys
      \/ \E i \in 1..Len(q) : Last(q, S) = {i} /\ q[i] \in Showing(keys)
  BY EndsLast DEF KeysRight
<1> HIDE DEF q, S
<1>3. CASE Last(q, S) = {} /\ hosts[t].keys = keys
  BY <1>1, <1>3
<1>4. CASE \E i \in 1..Len(q) : Last(q, S) = {i} /\ q[i] \in Showing(keys)
  <2>1. PICK i \in 1..Len(q) : Last(q, S) = {i} /\ q[i] \in Showing(keys)
    BY <1>4
  <2>2. UNION {q[j].keys : j \in Last(q, S)} = q[i].keys
    BY <2>1
  <2> QED
    BY <1>1, <2>1, <2>2 DEF Showing
<1> QED
  BY <1>2, <1>3, <1>4

LEMMA HotEnds ==
  ASSUME NEW t, CommandsOf(t) \in Seq(Entries), NEW h \in Hotkeys
  PROVE  LET q == CommandsOf(t)
             last == Last(q, HotsOf(Life(t), h))
         IN h \in FinalHot(t) <=> IF last = {} THEN h \in hosts[t].hot
                                  ELSE \E i \in last : q[i].class = "CommandPress"
<1> DEFINE q == CommandsOf(t)
           S == HotsOf(Life(t), h)
<1>1. \A i \in 1..Len(q) : q[i] \in Entries
  OBVIOUS
<1>2. \A i \in 1..Len(q) : q[i] \in S <=> IsHotkey(q[i], h) /\ q[i].own = Life(t)
  BY <1>1 DEF HotsOf
<1>3. \A i \in 1..Len(q) : \A j \in i + 1..Len(q) : j \in 1..Len(q)
  OBVIOUS
<1>4. Last(q, S) = {i \in 1..Len(q) :
                      /\ IsHotkey(q[i], h) /\ q[i].own = Life(t)
                      /\ \A j \in i + 1..Len(q) : ~(IsHotkey(q[j], h) /\ q[j].own = Life(t))}
  BY <1>2, <1>3 DEF Last
<1> QED
  BY <1>4 DEF FinalHot

LEMMA HotsEnd ==
  ASSUME NEW t, CommandsOf(t) \in Seq(Entries), NEW h \in Hotkeys,
         HotsRight(app, CommandsOf(t), Life(t), hosts[t].hot, env.shared)
  PROVE  /\ (\A s \in Bridged : ~Has(app, Life(t), s, h)) => h \notin FinalHot(t)
         /\ (\E s \in Bridged : Has(app, Life(t), s, h)) /\ h \notin env.shared => h \in FinalHot(t)
<1> DEFINE q == CommandsOf(t)
           S == HotsOf(Life(t), h)
           last == Last(q, S)
<1>1. h \in FinalHot(t) <=> IF last = {} THEN h \in hosts[t].hot
                            ELSE \E i \in last : q[i].class = "CommandPress"
  BY HotEnds
<1>2. ASSUME \A s \in Bridged : ~Has(app, Life(t), s, h)
      PROVE  h \notin FinalHot(t)
  <2>1. Ends(q, S, Ups, h \notin hosts[t].hot)
    BY <1>2 DEF HotsRight
  <2>2. \/ last = {} /\ h \notin hosts[t].hot
        \/ \E i \in 1..Len(q) : last = {i} /\ q[i] \in Ups
    BY <2>1, EndsLast
  <2> QED
    BY <1>1, <2>2 DEF Ups
<1>3. ASSUME \E s \in Bridged : Has(app, Life(t), s, h), h \notin env.shared
      PROVE  h \in FinalHot(t)
  <2>1. Ends(q, S, Downs, h \in hosts[t].hot)
    BY <1>3 DEF HotsRight
  <2>2. \/ last = {} /\ h \in hosts[t].hot
        \/ \E i \in 1..Len(q) : last = {i} /\ q[i] \in Downs
    BY <2>1, EndsLast
  <2> QED
    BY <1>1, <2>2 DEF Downs
<1> QED
  BY <1>2, <1>3

LEMMA NothingIsStuck ==
  ASSUME KeyboardOk, DeliveredOk
  PROVE  NoStuckKey
<1> SUFFICES ASSUME NEW t \in {"Usb", "Ble"}, Followed(t), Life(t) \notin env.late
             PROVE  Faithfully(t)
  BY DEF NoStuckKey
<1> DEFINE down == {app.hot[s].accepted : s \in {b \in Bridged : LifeOf(app.hlatch[b]) = Life(t)}}
<1>1. /\ Faithful(app, QueueOf(t), CommandsOf(t), Life(t), hosts[t], env.shared)
      /\ QueueOf(t) \in Seq(Entries) /\ CommandsOf(t) \in Seq(Entries)
  BY FollowedIsFaithful
<1>2. FinalKeys(t) = Owned(app, Life(t))
  BY <1>1, KeysEnd DEF Faithful
<1>3. \A h \in Hotkeys :
        /\ (\A s \in Bridged : ~Has(app, Life(t), s, h)) => h \notin FinalHot(t)
        /\ (\E s \in Bridged : Has(app, Life(t), s, h)) /\ h \notin env.shared => h \in FinalHot(t)
  BY <1>1, HotsEnd DEF Faithful
<1>4. \A h \in Hotkeys : h \in down <=> \E s \in Bridged : Has(app, Life(t), s, h)
  BY DEF Has
<1>5. down \subseteq Hotkeys \cup {NoHot} /\ FinalHot(t) \subseteq Hotkeys
  BY DEF KeyboardOk, AppOk, AppRecord, FinalHot
<1>6. FinalHot(t) \subseteq down
  BY <1>3, <1>4, <1>5
<1>7. down \ ({NoHot} \cup env.shared) \subseteq FinalHot(t)
  BY <1>3, <1>4, <1>5
<1> QED
  BY <1>2, <1>6, <1>7 DEF Owned, Faithfully

\* A host that is there ends up, once the reports in the queue have been sent, with
\* exactly the chord and the hotkeys that the keyboard counts as delivered to its
\* lifetime: whatever the cable, the radio, the tasks and the two hosts do, an accepted
\* release is not lost, and nothing that was queued for one lifetime arrives in another
\* (flush_pending_keyboard_snapshot and flush_pending_bridged_hotkey_event of
\* app_main.cpp, the clearing of the queues in usb_hid.cpp and ble_hid.cpp, and the
\* recovery of ble_hid.cpp).  What can be lost is what the event loop's adoption of an
\* owner clears when it comes after a report for that owner was accepted
\* (sync_hid_owner): such an owner is in env.late.
THEOREM NoKeyStuck == Spec => []NoStuckKey
<1>1. Init => DeliveredOk
  BY InitDelivers
<1>2. KeyboardOk /\ DeliveredOk /\ [Next]_vars => DeliveredOk'
  BY NextDelivers
<1>3. KeyboardOk /\ DeliveredOk => NoStuckKey
  BY NothingIsStuck
<1> QED
  BY <1>1, <1>2, <1>3, Invariance, PTL DEF Spec
=============================================================================
