--------------------------- MODULE LanPlaybackProofs ---------------------------
(***************************************************************************)
(* For any slots, chunks, windows, retries, crashes and any loss, doubling *)
(* and reordering of datagrams: a summary is heard only after its last     *)
(* sample, the device forgets only what was heard, one key press takes one *)
(* lease, the keys and the transfer agree, and all of it implements        *)
(* Listening.                                                              *)
(*                                                                         *)
(* The invariant follows the evidence.  Whatever speaks of a lease - a     *)
(* datagram, an event, a command, a thread - speaks of one that has been   *)
(* taken; whatever says finished says it of a lease that is drained, and   *)
(* whatever says committed says it of one that is heard.                   *)
(***************************************************************************)
EXTENDS LanPlayback, TLAPS

Taken == 1..(nextLease - 1)

\* A datagram says nothing that is not so.
True(m) ==
  m.kind # "EIPR" =>
    /\ m.lease \in Taken
    /\ m.kind = "EIPF" => m.lease \in drained
    /\ m.kind = "EIPK" /\ m.status = 0 => m.lease \in heard

NetInv == \A m \in net : True(m)

DeviceInv ==
  /\ dev.phase # "Cancelling" => dev.deferred = NoRequest
  /\ dev.phase = "AwaitBegin" => dev.request \in Request
  /\ dev.phase \in {"Idle", "AwaitBegin"} => dev.lease = 0
  /\ dev.lease = 0 => dev.received = 0
  /\ dev.lease < nextLease
  /\ dev.phase \in {"Receiving", "Playing", "FinishedPendingAck"} => dev.lease # 0
  /\ dev.phase = "Receiving" => dev.received < Prebuffer
  /\ dev.phase = "Playing" /\ dev.speaker = "played" => dev.lease \in drained
  /\ dev.phase = "FinishedPendingAck" => dev.lease \in drained

EventInv ==
  \A i \in DOMAIN events : events[i].kind # "Request" =>
    /\ events[i].lease \in Taken
    /\ events[i].kind = "Finished" => events[i].lease \in drained

CommandInv ==
  \A i \in DOMAIN commands :
    /\ commands[i].lease \in Taken
    /\ commands[i].kind = "FinishAck" => commands[i].lease \in heard

LanInv ==
  /\ lan.phase # "None" => lan.lease \in Taken
  /\ retired.finish # 0 => retired.finish \in heard

\* At most one playback is in flight, and what the store has leased is that one, until it is heard.
ServeInv ==
  /\ \A a, b \in active : a = b
  /\ \A a \in active : a.lease \in Taken /\ (a.heard => a.lease \in heard)
  /\ leased = Unheard(active)
  /\ forgotten \subseteq heard /\ heard \subseteq drained /\ drained \subseteq Taken
  /\ \A l \in Taken : requestOf[l] \in Request

\* Unless the Host has restarted, each request is accepted once: its generation is below the
\* floor from then on.
Floor(r) == floor[<<r.slot, r.conn>>]
RequestInv ==
  crashes = 0 =>
    /\ \A l \in Taken : requestOf[l].gen <= Floor(requestOf[l])
    /\ \A i \in DOMAIN events : events[i].kind = "Request" =>
         /\ events[i].request.gen <= Floor(events[i].request)
         /\ \A l \in Taken : requestOf[l] # events[i].request
    /\ \A i, j \in DOMAIN events :
         events[i].kind = "Request" /\ events[j].kind = "Request"
           /\ events[i].request = events[j].request => i = j
    /\ \A l, m \in Taken : requestOf[l] = requestOf[m] => l = m

EarnedInv == EventInv /\ CommandInv /\ LanInv /\ ServeInv

PlaybackInv == TypeOK /\ NetInv /\ DeviceInv /\ DeviceIsConsistent /\ EarnedInv /\ RequestInv

-----------------------------------------------------------------------------
(* The parts of the type invariant. *)

SlotStates == [pending: Request \cup {NoRequest}, capture: BOOLEAN, phase: SlotPhases,
               lease: 0..MaxLeases]
Transfers == [phase: LanPhases, lease: 0..MaxLeases, acked: 0..Chunks, sent: 0..Chunks,
              tries: 0..MaxTries]

UserType == conn \in 0..MaxConn /\ lastConn \in 0..MaxConn /\ nextRequest \in 0..MaxRequests
DeviceType == slots \in SlotStates /\ dev \in Device /\ errors \in 0..MaxErrors
NetType == net \in SUBSET Message
LanType ==
  /\ lan \in Transfers /\ retired \in [finish: 0..MaxLeases, cancel: 0..MaxLeases]
  /\ floor \in [Slots \X (1..MaxConn) -> 0..MaxRequests]
QueueType == events \in Seq(Event) /\ commands \in Seq(Command)
ServeType ==
  /\ active \in SUBSET [lease: Leases, heard: BOOLEAN]
  /\ leased \in SUBSET Leases /\ heard \in SUBSET Leases
  /\ requestOf \in [Leases -> Request \cup {NoRequest}]
  /\ nextLease \in 1..(MaxLeases + 1) /\ crashes \in 0..MaxCrashes
HistoryType == drained \in SUBSET Leases /\ forgotten \in SUBSET Leases
HostType == LanType /\ QueueType /\ ServeType

LEMMA TypeParts ==
  /\ TypeOK <=> UserType /\ DeviceType /\ NetType /\ HostType /\ HistoryType
  /\ TypeOK' <=> UserType' /\ DeviceType' /\ NetType' /\ HostType' /\ HistoryType'
BY DEF TypeOK, UserType, DeviceType, NetType, HostType, LanType, QueueType, ServeType, HistoryType,
       SlotStates, Transfers

LEMMA Bounds ==
  /\ Chunks \in Nat \ {0} /\ Window \in 1..Chunks /\ Prebuffer \in 1..Chunks
  /\ MaxTries \in Nat \ {0}
  /\ MaxRequests \in Nat /\ MaxLeases \in Nat /\ MaxConn \in Nat /\ MaxCrashes \in Nat
  /\ MaxErrors \in Nat
BY SizesAssumption

-----------------------------------------------------------------------------
(* Datagrams. *)

LEMMA TakenLeases ==
  ASSUME ServeType
  PROVE  Taken \subseteq Leases /\ \A l \in Taken : l # 0
BY Bounds DEF ServeType, Taken, Leases

LEMMA RequestIsTrue ==
  ASSUME NEW r \in Request
  PROVE  RequestPacket(r) \in Message /\ True(RequestPacket(r))
BY DEF RequestPacket, Message, True

LEMMA BeginIsTrue ==
  ASSUME ServeType, NEW l \in Taken
  PROVE  BeginPacket(l) \in Message /\ True(BeginPacket(l))
BY TakenLeases DEF BeginPacket, Message, True

LEMMA DataAreTrue ==
  ASSUME ServeType, NEW l \in Taken, NEW from \in Nat, NEW to \in 0..Chunks
  PROVE  \A m \in DataPackets(l, from, to) : m \in Message /\ True(m)
BY TakenLeases, Bounds DEF DataPackets, Message, True

LEMMA AckIsTrue ==
  ASSUME ServeType, NEW l \in Taken, NEW s \in 0..3, NEW o \in 0..Chunks
  PROVE  AckPacket(l, s, o) \in Message /\ True(AckPacket(l, s, o))
BY TakenLeases DEF AckPacket, Message, True

LEMMA FinishedIsTrue ==
  ASSUME ServeType, NEW l \in Taken, l \in drained
  PROVE  FinishedPacket(l) \in Message /\ True(FinishedPacket(l))
BY TakenLeases DEF FinishedPacket, Message, True

LEMMA CommitIsTrue ==
  ASSUME ServeType, NEW l \in Taken, NEW s \in 0..1, s = 0 => l \in heard
  PROVE  CommitPacket(l, s) \in Message /\ True(CommitPacket(l, s))
BY TakenLeases DEF CommitPacket, Message, True

\* What has been true of a lease stays true.
Monotone == nextLease <= nextLease' /\ drained \subseteq drained' /\ heard \subseteq heard'

LEMMA TrueStays ==
  ASSUME ServeType, ServeType', Monotone, NEW m, True(m)
  PROVE  True(m)'
BY DEF True, Taken, Monotone, ServeType

LEMMA NetKeeps ==
  ASSUME ServeType, ServeType', Monotone, NetType, NetInv, NEW sent,
         net' \subseteq net \cup sent, \A m \in sent : m \in Message /\ True(m)
  PROVE  NetType' /\ NetInv'
<1>1. \A m \in net' : m \in Message /\ True(m)
  BY DEF NetType, NetInv
<1>2. \A m \in net' : True(m)'
  BY <1>1, TrueStays
<1> QED
  BY <1>1, <1>2 DEF NetType, NetInv

LEMMA Sends ==
  ASSUME NEW sent, Send(sent) PROVE net' \subseteq net \cup sent
BY DEF Send, Add

LEMMA Replies ==
  ASSUME NEW m, NEW sent, Reply(m, sent) PROVE net' \subseteq net \cup sent
<1>1. PICK flying \in {net, net \ {m}} : net' = Add(flying, sent)
  BY DEF Reply
<1> QED
  BY <1>1 DEF Add

-----------------------------------------------------------------------------
(* What the device does leaves the Host as it is. *)

DeviceSound == DeviceType /\ DeviceInv /\ DeviceIsConsistent

LEMMA HostFrame ==
  ASSUME PlaybackInv, UNCHANGED hostSide, drained \subseteq drained', drained' \subseteq Taken,
         forgotten' \subseteq heard
  PROVE  HostType' /\ HistoryType' /\ EarnedInv' /\ RequestInv' /\ Monotone
<1>1. UNCHANGED <<lan, retired, floor, events, commands, active, leased, requestOf, nextLease, heard,
                  crashes>>
  BY DEF hostSide, lanVars, serveVars
<1>2. HostType /\ HistoryType
  BY TypeParts DEF PlaybackInv
<1>3. HostType'
  BY <1>1, <1>2 DEF HostType, LanType, QueueType, ServeType
<1>4. HistoryType'
  BY <1>2, TakenLeases DEF HostType, ServeType, HistoryType
<1>5. EventInv' /\ CommandInv' /\ LanInv'
  BY <1>1 DEF PlaybackInv, EarnedInv, EventInv, CommandInv, LanInv, Taken
<1>6. ServeInv'
  BY <1>1 DEF PlaybackInv, EarnedInv, ServeInv, Taken, Unheard
<1>7. RequestInv'
  BY <1>1 DEF PlaybackInv, RequestInv, Floor, Taken
<1>8. Monotone
  BY <1>1, <1>2 DEF Monotone, HostType, ServeType
<1> QED
  BY <1>3, <1>4, <1>5, <1>6, <1>7, <1>8 DEF EarnedInv

\* So a step of the device is told by what it does to keys, device, datagrams and history.
LEMMA DeviceStep ==
  ASSUME PlaybackInv, UNCHANGED hostSide, drained \subseteq drained', drained' \subseteq Taken,
         forgotten' \subseteq heard,
         UserType', DeviceSound', NEW sent, net' \subseteq net \cup sent,
         \A m \in sent : m \in Message /\ True(m)
  PROVE  PlaybackInv'
<1>1. HostType' /\ HistoryType' /\ EarnedInv' /\ RequestInv' /\ Monotone
  BY HostFrame
<1>2. ServeType /\ ServeType' /\ NetType /\ NetInv
  BY <1>1, TypeParts DEF PlaybackInv, HostType
<1>3. NetType' /\ NetInv'
  BY <1>1, <1>2, NetKeeps
<1>4. TypeOK'
  BY <1>1, <1>3, TypeParts DEF DeviceSound
<1> QED
  BY <1>1, <1>3, <1>4 DEF PlaybackInv, DeviceSound

-----------------------------------------------------------------------------
(* Devices: what the helpers of CodexLanPlayback return. *)

SpeakerStates == {"quiet", "busy", "played", "failed"}

LEMMA DeviceFields ==
  ASSUME NEW d \in Device
  PROVE  /\ d.phase \in DevPhases /\ d.request \in Request \cup {NoRequest}
         /\ d.lease \in 0..MaxLeases /\ d.received \in 0..Chunks
         /\ d.speaker \in SpeakerStates /\ d.deferred \in Request \cup {NoRequest}
         /\ d.cancelAcked \in BOOLEAN /\ d.tries \in 0..MaxTries
BY DEF Device, SpeakerStates

LEMMA Zeros ==
  /\ 0 \in 0..MaxLeases /\ 0 \in 0..Chunks /\ 0 \in 0..MaxTries /\ 1 \in 0..MaxTries
  /\ FALSE \in BOOLEAN /\ "quiet" \in SpeakerStates /\ DevPhases = {"Idle", "AwaitBegin", "Receiving",
     "Playing", "FinishedPendingAck", "Cancelling"}
BY Bounds DEF SpeakerStates, DevPhases

\* A device stays one when a field of it changes.
LEMMA DeviceUpdates ==
  ASSUME NEW d \in Device
  PROVE  /\ \A p \in DevPhases : [d EXCEPT !.phase = p] \in Device
         /\ \A r \in Request \cup {NoRequest} : [d EXCEPT !.request = r] \in Device
         /\ \A r \in Request \cup {NoRequest} : [d EXCEPT !.deferred = r] \in Device
         /\ \A l \in 0..MaxLeases : [d EXCEPT !.lease = l] \in Device
         /\ \A n \in 0..Chunks : [d EXCEPT !.received = n] \in Device
         /\ \A s \in SpeakerStates : [d EXCEPT !.speaker = s] \in Device
         /\ \A k \in BOOLEAN : [d EXCEPT !.cancelAcked = k] \in Device
         /\ \A t \in 0..MaxTries : [d EXCEPT !.tries = t] \in Device
<1>1. \A p \in DevPhases : [d EXCEPT !.phase = p] \in Device
  BY DEF Device
<1>2. \A r \in Request \cup {NoRequest} : [d EXCEPT !.request = r] \in Device
  BY DEF Device
<1>3. \A r \in Request \cup {NoRequest} : [d EXCEPT !.deferred = r] \in Device
  BY DEF Device
<1>4. \A l \in 0..MaxLeases : [d EXCEPT !.lease = l] \in Device
  BY DEF Device
<1>5. \A n \in 0..Chunks : [d EXCEPT !.received = n] \in Device
  BY DEF Device
<1>6. \A s \in SpeakerStates : [d EXCEPT !.speaker = s] \in Device
  BY DEF Device, SpeakerStates
<1>7. \A k \in BOOLEAN : [d EXCEPT !.cancelAcked = k] \in Device
  BY DEF Device
<1>8. \A t \in 0..MaxTries : [d EXCEPT !.tries = t] \in Device
  BY DEF Device
<1> QED
  BY <1>1, <1>2, <1>3, <1>4, <1>5, <1>6, <1>7, <1>8

LEMMA IdleDeviceIsOne == IdleDevice \in Device
BY Bounds DEF IdleDevice, Device, DevPhases

LEMMA QuietDevices ==
  ASSUME NEW s \in SpeakerStates
  PROVE  LET i == [IdleDevice EXCEPT !.speaker = s]
         IN /\ i \in Device /\ i.speaker = s
            /\ i.phase = "Idle" /\ i.lease = 0 /\ i.received = 0 /\ i.deferred = NoRequest
BY IdleDeviceIsOne, DeviceUpdates DEF IdleDevice

LEMMA RequestingDevices ==
  ASSUME NEW d \in Device, NEW r \in Request
  PROVE  LET q == Requesting(d, r)
         IN /\ q \in Device
            /\ q.phase = "AwaitBegin" /\ q.request = r /\ q.lease = 0 /\ q.received = 0
            /\ q.deferred = NoRequest /\ q.speaker = d.speaker
<1>1. [IdleDevice EXCEPT !.phase = "AwaitBegin"] \in Device
  BY IdleDeviceIsOne, DeviceUpdates, Zeros
<1>2. [[IdleDevice EXCEPT !.phase = "AwaitBegin"] EXCEPT !.request = r] \in Device
  BY <1>1, DeviceUpdates
<1>3. [[[IdleDevice EXCEPT !.phase = "AwaitBegin"] EXCEPT !.request = r] EXCEPT !.speaker = d.speaker]
        \in Device
  BY <1>2, DeviceUpdates, DeviceFields
<1>4. Requesting(d, r) \in Device
  BY <1>3 DEF Requesting
<1> QED
  BY <1>4 DEF Requesting, IdleDevice

LEMMA CancelledDevices ==
  ASSUME NEW d \in Device
  PROVE  LET c == Cancelled(d)
         IN /\ c \in Device
            /\ d.phase = "Idle" => c = d
            /\ d.phase # "Idle" => c.phase = "Cancelling" /\ c.deferred = NoRequest
            /\ c.lease = d.lease /\ c.received = d.received /\ c.speaker = d.speaker
<1>1. CASE d.phase = "Idle"
  BY <1>1 DEF Cancelled
<1>2. CASE d.phase # "Idle"
  <2>1. [d EXCEPT !.phase = "Cancelling"] \in Device
    BY DeviceUpdates, Zeros
  <2>2. [[d EXCEPT !.phase = "Cancelling"] EXCEPT !.deferred = NoRequest] \in Device
    BY <2>1, DeviceUpdates
  <2>3. [[[d EXCEPT !.phase = "Cancelling"] EXCEPT !.deferred = NoRequest] EXCEPT !.cancelAcked = FALSE]
          \in Device
    BY <2>2, DeviceUpdates
  <2>4. [[[[d EXCEPT !.phase = "Cancelling"] EXCEPT !.deferred = NoRequest] EXCEPT !.cancelAcked = FALSE]
           EXCEPT !.tries = 0] \in Device
    BY <2>3, DeviceUpdates, Zeros
  <2>5. Cancelled(d) \in Device
    BY <1>2, <2>4 DEF Cancelled
  <2> QED
    BY <1>2, <2>5 DEF Cancelled, Device
<1> QED
  BY <1>1, <1>2

LEMMA FailedDevices ==
  ASSUME NEW d \in Device
  PROVE  LET f == Fails(d)
         IN /\ f \in Device
            /\ f.phase = "Cancelling" /\ f.deferred = d.deferred
            /\ f.lease = d.lease /\ f.received = d.received /\ f.speaker = d.speaker
<1> DEFINE t == IF d.lease # 0 THEN 1 ELSE 0
<1>1. t \in 0..MaxTries
  BY Zeros
<1> HIDE DEF t
<1>2. [d EXCEPT !.phase = "Cancelling"] \in Device
  BY DeviceUpdates, Zeros
<1>3. [[d EXCEPT !.phase = "Cancelling"] EXCEPT !.cancelAcked = FALSE] \in Device
  BY <1>2, DeviceUpdates
<1>4. [[[d EXCEPT !.phase = "Cancelling"] EXCEPT !.cancelAcked = FALSE] EXCEPT !.tries = t] \in Device
  BY <1>1, <1>3, DeviceUpdates
<1>5. Fails(d) \in Device
  BY <1>4 DEF Fails, t
<1> QED
  BY <1>5 DEF Fails, Device

LEMMA RequestedDevices ==
  ASSUME NEW d \in Device, NEW r \in Request, NEW after \in Requested(d, r),
         d.phase \in {"Idle", "AwaitBegin", "Cancelling"}
  PROVE  /\ after \in Device
         /\ \/ d.phase = "Cancelling" /\ after = [d EXCEPT !.deferred = r]
            \/ after = Requesting(d, r)
            \/ after = [IdleDevice EXCEPT !.speaker = d.speaker]
<1>1. [d EXCEPT !.deferred = r] \in Device
  BY DEF Device
<1> QED
  BY <1>1, DeviceFields, QuietDevices, RequestingDevices, SMTT(30) DEF Requested

-----------------------------------------------------------------------------
(* Keys and device together, as facts about the two records. *)

Consistent(s, d) ==
  /\ s.phase # "Idle" => s.lease = d.lease
  /\ d.phase = "Receiving" => s.phase = "Buffering"
  /\ d.phase = "Playing" /\ d.received < Chunks => s.phase = "Playing"
  /\ d.phase = "Playing" /\ d.received = Chunks => s.phase = "TransferComplete"
  /\ d.phase = "FinishedPendingAck" => s.phase = "FinishedPendingAck"
  /\ d.phase \in {"Idle", "AwaitBegin", "Cancelling"} => s.phase = "Idle"
  /\ s.capture => d.phase \in {"Idle", "Cancelling"} /\ d.deferred = NoRequest

Fit(d, done) ==
  /\ d.phase # "Cancelling" => d.deferred = NoRequest
  /\ d.phase = "AwaitBegin" => d.request \in Request
  /\ d.phase \in {"Idle", "AwaitBegin"} => d.lease = 0
  /\ d.lease = 0 => d.received = 0
  /\ d.lease < nextLease
  /\ d.phase \in {"Receiving", "Playing", "FinishedPendingAck"} => d.lease # 0
  /\ d.phase = "Receiving" => d.received < Prebuffer
  /\ d.phase = "Playing" /\ d.speaker = "played" => d.lease \in done
  /\ d.phase = "FinishedPendingAck" => d.lease \in done

Sound(s, d, done) == s \in SlotStates /\ d \in Device /\ Consistent(s, d) /\ Fit(d, done)

LEMMA DeviceNow ==
  ASSUME PlaybackInv
  PROVE  /\ Sound(slots, dev, drained) /\ errors \in 0..MaxErrors
         /\ UserType /\ DeviceType /\ NetType /\ HostType /\ HistoryType /\ ServeType
<1>1. UserType /\ DeviceType /\ NetType /\ HostType /\ HistoryType /\ ServeType
  BY TypeParts DEF PlaybackInv, HostType
<1>2. slots \in SlotStates /\ dev \in Device /\ errors \in 0..MaxErrors
  BY <1>1 DEF DeviceType
<1>3. dev.phase \in DevPhases /\ dev.received \in 0..Chunks
  BY <1>2, DeviceFields
<1>4. Consistent(slots, dev)
  BY <1>3, Bounds DEF PlaybackInv, DeviceIsConsistent, SlotsFollowTransfer, TalkingIsExclusive,
                      Consistent, DevPhases
<1>5. Fit(dev, drained)
  BY DEF PlaybackInv, DeviceInv, Fit
<1> QED
  BY <1>1, <1>2, <1>4, <1>5 DEF Sound

LEMMA DeviceNext ==
  ASSUME nextLease' = nextLease, errors' \in 0..MaxErrors, Sound(slots', dev', drained')
  PROVE  DeviceSound'
<1>1. slots' \in SlotStates /\ dev' \in Device /\ Consistent(slots', dev') /\ Fit(dev', drained')
  BY DEF Sound
<1>2. dev'.phase \in DevPhases /\ dev'.received \in 0..Chunks
  BY <1>1, DeviceFields
<1>3. TalkingIsExclusive' /\ (slots'.phase # "Idle" => slots'.lease = dev'.lease)
  BY <1>1 DEF Consistent, TalkingIsExclusive
<1>4. slots'.phase = CASE dev'.phase = "Receiving" -> "Buffering"
                       [] dev'.phase = "Playing" /\ dev'.received < Chunks -> "Playing"
                       [] dev'.phase = "Playing" /\ dev'.received = Chunks -> "TransferComplete"
                       [] dev'.phase = "FinishedPendingAck" -> "FinishedPendingAck"
                       [] OTHER -> "Idle"
  BY <1>1, <1>2, Bounds DEF Consistent, DevPhases
<1>5. DeviceIsConsistent'
  BY <1>3, <1>4 DEF DeviceIsConsistent, SlotsFollowTransfer
<1>6. DeviceInv'
  BY <1>1 DEF Fit, DeviceInv
<1> QED
  BY <1>1, <1>5, <1>6 DEF DeviceSound, DeviceType

\* A step of the device is told by what it does to keys, device, datagrams and history.
LEMMA DeviceDoes ==
  ASSUME PlaybackInv, UNCHANGED hostSide, drained \subseteq drained', drained' \subseteq Taken,
         forgotten' \subseteq heard, UserType', errors' \in 0..MaxErrors,
         Sound(slots', dev', drained'), NEW sent, net' \subseteq net \cup sent,
         \A m \in sent : m \in Message /\ True(m)
  PROVE  PlaybackInv'
<1>1. DeviceSound'
  BY DeviceNext DEF hostSide, serveVars
<1> QED
  BY <1>1, DeviceStep

LEMMA DeviceSaysNothing ==
  ASSUME PlaybackInv, UNCHANGED hostSide, drained \subseteq drained', drained' \subseteq Taken,
         forgotten' \subseteq heard, UserType', errors' \in 0..MaxErrors,
         Sound(slots', dev', drained'), net' \subseteq net
  PROVE  PlaybackInv'
<1> DEFINE nothing == {}
<1>1. net' \subseteq net \cup nothing /\ \A m \in nothing : m \in Message /\ True(m)
  OBVIOUS
<1> HIDE DEF nothing
<1> QED
  BY <1>1, DeviceDoes

\* While the keys mean nothing no playback is received or spoken.
LEMMA IdleKeys ==
  ASSUME PlaybackInv, slots.phase = "Idle"
  PROVE  dev.phase \in {"Idle", "AwaitBegin", "Cancelling"}
BY DeviceNow, DeviceFields, Bounds DEF Sound, Consistent, DevPhases

LEMMA Histories ==
  ASSUME PlaybackInv, UNCHANGED history
  PROVE  drained \subseteq drained' /\ drained' \subseteq Taken /\ forgotten' \subseteq heard
         /\ drained' = drained
BY DEF history, PlaybackInv, EarnedInv, ServeInv

LEMMA CancelPacketsAreTrue ==
  ASSUME PlaybackInv
  PROVE  \A m \in CancelPackets(dev) : m \in Message /\ True(m)
<1>1. CASE dev.phase # "Idle" /\ dev.lease # 0
  <2>1. dev.lease \in Taken /\ dev.received \in 0..Chunks /\ 3 \in 0..3 /\ ServeType
    BY <1>1, DeviceNow, DeviceFields DEF Sound, Fit, Taken, ServeType
  <2> QED
    BY <1>1, <2>1, AckIsTrue DEF CancelPackets
<1>2. CASE ~(dev.phase # "Idle" /\ dev.lease # 0)
  BY <1>2 DEF CancelPackets
<1> QED
  BY <1>1, <1>2

\* An acknowledgement for the running transfer.
LEMMA AnswersAreTrue ==
  ASSUME PlaybackInv, NEW l \in Taken, NEW s \in 0..3, NEW n \in 0..Chunks
  PROVE  \A m \in {AckPacket(l, s, n)} : m \in Message /\ True(m)
BY DeviceNow, AckIsTrue

LEMMA RequestPacketsAreTrue ==
  ASSUME NEW d, d.phase = "AwaitBegin" => d.request \in Request
  PROVE  \A m \in RequestPackets(d) : m \in Message /\ True(m)
BY RequestIsTrue DEF RequestPackets

-----------------------------------------------------------------------------
(* The records the handlers leave behind. *)

LEMMA IdleSlotsAreSound ==
  ASSUME NEW r \in Request \cup {NoRequest}, NEW c \in BOOLEAN
  PROVE  /\ IdleSlots \in SlotStates /\ IdleSlots.phase = "Idle" /\ ~IdleSlots.capture
         /\ [IdleSlots EXCEPT !.pending = r] \in SlotStates
         /\ [IdleSlots EXCEPT !.pending = r].phase = "Idle" /\ ~[IdleSlots EXCEPT !.pending = r].capture
         /\ [IdleSlots EXCEPT !.capture = c] \in SlotStates
         /\ [IdleSlots EXCEPT !.capture = c].phase = "Idle"
<1>1. IdleSlots \in SlotStates
  BY Bounds DEF IdleSlots, SlotStates, SlotPhases
<1> QED
  BY <1>1 DEF IdleSlots, SlotStates

\* Keys that mean nothing fit every device that is not in the middle of a playback.
LEMMA SoundWhenIdle ==
  ASSUME NEW s \in SlotStates, s.phase = "Idle", NEW d \in Device, NEW done, Fit(d, done),
         d.phase \in {"Idle", "AwaitBegin", "Cancelling"},
         s.capture => d.phase # "AwaitBegin" /\ d.deferred = NoRequest
  PROVE  Sound(s, d, done)
BY DEF Sound, Consistent

LEMMA CancelledFits ==
  ASSUME NEW d \in Device, NEW done, Fit(d, done)
  PROVE  /\ Fit(Cancelled(d), done) /\ Cancelled(d) \in Device
         /\ Cancelled(d).phase \in {"Idle", "Cancelling"} /\ Cancelled(d).deferred = NoRequest
<1>1. CASE d.phase = "Idle"
  BY <1>1, CancelledDevices DEF Fit
<1>2. CASE d.phase # "Idle"
  BY <1>2, CancelledDevices DEF Fit
<1> QED
  BY <1>1, <1>2

LEMMA FailedFits ==
  ASSUME NEW d \in Device, NEW done, Fit(d, done)
  PROVE  Fit(Fails(d), done)
BY FailedDevices DEF Fit

LEMMA QuietFits ==
  ASSUME NEW s \in SpeakerStates, NEW done, ServeType
  PROVE  Fit([IdleDevice EXCEPT !.speaker = s], done)
<1> DEFINE i == [IdleDevice EXCEPT !.speaker = s]
<1>1. i.phase = "Idle" /\ i.lease = 0 /\ i.received = 0 /\ i.deferred = NoRequest
  BY QuietDevices
<1> HIDE DEF i
<1>2. Fit(i, done)
  BY <1>1, Bounds DEF Fit, ServeType
<1> QED
  BY <1>2 DEF i

LEMMA RequestingFits ==
  ASSUME NEW d \in Device, NEW r \in Request, NEW done, ServeType
  PROVE  Fit(Requesting(d, r), done)
BY RequestingDevices DEF Fit, ServeType

LEMMA RequestedFits ==
  ASSUME NEW d \in Device, NEW r \in Request, NEW done, Fit(d, done), ServeType,
         d.phase \in {"Idle", "AwaitBegin", "Cancelling"}, NEW after \in Requested(d, r)
  PROVE  /\ after \in Device /\ Fit(after, done)
         /\ after.phase \in {"Idle", "AwaitBegin", "Cancelling"}
         /\ d.phase # "Cancelling" => after.deferred = NoRequest
<1>1. after \in Device /\ \/ d.phase = "Cancelling" /\ after = [d EXCEPT !.deferred = r]
                          \/ after = Requesting(d, r)
                          \/ after = [IdleDevice EXCEPT !.speaker = d.speaker]
  BY RequestedDevices
<1>2. CASE d.phase = "Cancelling" /\ after = [d EXCEPT !.deferred = r]
  BY <1>1, <1>2 DEF Fit, Device
<1>3. CASE after = Requesting(d, r)
  BY <1>1, <1>3, RequestingFits, RequestingDevices
<1>4. CASE after = [IdleDevice EXCEPT !.speaker = d.speaker]
  BY <1>1, <1>4, QuietFits, QuietDevices, DeviceFields
<1> QED
  BY <1>1, <1>2, <1>3, <1>4

-----------------------------------------------------------------------------
(* Every step of the device keeps the invariant. *)

LEMMA LosePreserves ==
  ASSUME PlaybackInv, NEW m \in net, Lose(m) PROVE PlaybackInv'
<1>1. UNCHANGED <<hostSide, userVars, deviceVars, errors, history>> /\ net' \subseteq net
  BY DEF Lose, hostSide
<1>2. UserType' /\ errors' \in 0..MaxErrors /\ Sound(slots', dev', drained')
  BY <1>1, DeviceNow DEF userVars, deviceVars, history, UserType
<1> QED
  BY <1>1, <1>2, Histories, DeviceSaysNothing

LEMMA PressPlayPreserves ==
  ASSUME PlaybackInv, NEW s \in Slots, PressPlay(s) PROVE PlaybackInv'
<1> DEFINE r == [slot |-> s, gen |-> nextRequest + 1, conn |-> conn]
           before == IF slots.phase = "Idle" THEN dev ELSE Cancelled(dev)
           others == IF slots.phase = "Idle" THEN {} ELSE CancelPackets(dev)
<1>1. PICK after \in Requested(before, r) : dev' = after /\ Send(RequestPackets(after) \cup others)
  BY DEF PressPlay
<1>2. /\ UNCHANGED <<hostSide, errors, history>> /\ slots' = [IdleSlots EXCEPT !.pending = r]
      /\ UserType' /\ r \in Request
  BY DeviceNow, Bounds DEF PressPlay, deviceOnly, UserType, Request
<1>3. before \in Device /\ Fit(before, drained) /\ before.phase \in {"Idle", "AwaitBegin", "Cancelling"}
  <2>1. CASE slots.phase = "Idle"
    BY <2>1, DeviceNow, IdleKeys DEF Sound
  <2>2. CASE slots.phase # "Idle"
    BY <2>2, DeviceNow, CancelledFits DEF Sound
  <2> QED
    BY <2>1, <2>2
<1> HIDE DEF before, r
<1>4. /\ after \in Device /\ Fit(after, drained)
      /\ after.phase \in {"Idle", "AwaitBegin", "Cancelling"}
  BY <1>1, <1>2, <1>3, DeviceNow, RequestedFits
<1>5. Sound(slots', dev', drained')
  BY <1>1, <1>2, <1>4, IdleSlotsAreSound, SoundWhenIdle, Histories
<1>6. \A m \in RequestPackets(after) \cup others : m \in Message /\ True(m)
  BY <1>4, RequestPacketsAreTrue, CancelPacketsAreTrue DEF Fit
<1> HIDE DEF others
<1>7. net' \subseteq net \cup (RequestPackets(after) \cup others)
  BY <1>1, Sends
<1> QED
  BY <1>2, <1>5, <1>6, <1>7, DeviceNow, Histories, DeviceDoes

LEMMA PressTalkPreserves ==
  ASSUME PlaybackInv, PressTalk PROVE PlaybackInv'
<1>1. /\ UNCHANGED <<hostSide, errors, userVars, history>> /\ slots' = [IdleSlots EXCEPT !.capture = TRUE]
      /\ dev' = Cancelled(dev) /\ Send(CancelPackets(dev)) /\ UserType'
  BY DeviceNow DEF PressTalk, deviceOnly, UserType, userVars
<1>2. Sound(slots', dev', drained')
  BY <1>1, DeviceNow, IdleSlotsAreSound, CancelledFits, SoundWhenIdle, Histories DEF Sound
<1> QED
  BY <1>1, <1>2, Sends, CancelPacketsAreTrue, DeviceNow, Histories, DeviceDoes

LEMMA ReleaseTalkPreserves ==
  ASSUME PlaybackInv, ReleaseTalk PROVE PlaybackInv'
<1>1. /\ UNCHANGED <<hostSide, errors, userVars, history, dev, net>> /\ UserType'
      /\ slots' = [slots EXCEPT !.capture = FALSE]
  BY DeviceNow DEF ReleaseTalk, deviceOnly, UserType, userVars
<1>2. Sound(slots', dev', drained')
  BY <1>1, DeviceNow, Histories DEF Sound, Consistent, SlotStates
<1> QED
  BY <1>1, <1>2, DeviceNow, Histories, DeviceSaysNothing

LEMMA RouteChangesPreserves ==
  ASSUME PlaybackInv, NEW c \in 0..MaxConn, RouteChanges(c) PROVE PlaybackInv'
<1>1. UNCHANGED <<hostSide, errors, history>> /\ slots' = IdleSlots /\ UserType'
  BY DeviceNow, Bounds DEF RouteChanges, deviceOnly, UserType
<1>2. Sound(slots', dev', drained') /\ net' \subseteq net \cup CancelPackets(dev)
  <2>1. CASE slots.phase = "Idle"
    <3>1. dev' = dev /\ net' = net
      BY <2>1 DEF RouteChanges
    <3>2. dev.phase \in {"Idle", "AwaitBegin", "Cancelling"}
      BY <2>1, IdleKeys
    <3> QED
      BY <1>1, <3>1, <3>2, DeviceNow, IdleSlotsAreSound, SoundWhenIdle, Histories DEF Sound
  <2>2. CASE slots.phase # "Idle"
    <3>1. dev' = Cancelled(dev) /\ Send(CancelPackets(dev))
      BY <2>2 DEF RouteChanges
    <3> QED
      BY <1>1, <3>1, Sends, DeviceNow, IdleSlotsAreSound, CancelledFits, SoundWhenIdle, Histories
         DEF Sound
  <2> QED
    BY <2>1, <2>2
<1> QED
  BY <1>1, <1>2, CancelPacketsAreTrue, DeviceNow, Histories, DeviceDoes

LEMMA ReceiveBeginPreserves ==
  ASSUME PlaybackInv, NEW m \in net, ReceiveBegin(m) PROVE PlaybackInv'
<1>1. UNCHANGED <<hostSide, errors, history>> /\ UserType' /\ m.lease \in Taken
  BY DeviceNow DEF ReceiveBegin, fromDevice, deviceOnly, UserType, userVars, PlaybackInv, NetInv, True
<1>2. CASE /\ Reply(m, {AckPacket(m.lease, 0, dev.received)}) /\ UNCHANGED deviceVars
  <2>1. Sound(slots', dev', drained') /\ dev.received \in 0..Chunks
    BY <1>1, <1>2, DeviceNow, DeviceFields, Histories DEF deviceVars, Sound
  <2> QED
    BY <1>1, <1>2, <2>1, Replies, AnswersAreTrue, DeviceNow, Histories, DeviceDoes
<1>3. CASE /\ dev.phase = "AwaitBegin"
           /\ ~slots.capture /\ slots.phase = "Idle" /\ slots.pending = dev.request
           /\ slots' = [slots EXCEPT !.pending = NoRequest, !.phase = "Buffering", !.lease = m.lease]
           /\ dev' = [dev EXCEPT !.phase = "Receiving", !.lease = m.lease, !.received = 0, !.tries = 0]
           /\ Reply(m, {AckPacket(m.lease, 0, 0)})
  <2>1. m.lease \in 0..MaxLeases /\ m.lease # 0 /\ m.lease < nextLease
    BY <1>1, DeviceNow, TakenLeases DEF Taken, Leases, ServeType
  <2>2. dev' \in Device
    <3>1. [dev EXCEPT !.phase = "Receiving"] \in Device
      BY DeviceNow, DeviceUpdates, Zeros DEF Sound
    <3>2. [[dev EXCEPT !.phase = "Receiving"] EXCEPT !.lease = m.lease] \in Device
      BY <3>1, <2>1, DeviceUpdates
    <3>3. [[[dev EXCEPT !.phase = "Receiving"] EXCEPT !.lease = m.lease] EXCEPT !.received = 0] \in Device
      BY <3>2, Zeros, DeviceUpdates
    <3>4. [[[[dev EXCEPT !.phase = "Receiving"] EXCEPT !.lease = m.lease] EXCEPT !.received = 0]
            EXCEPT !.tries = 0] \in Device
      BY <3>3, Zeros, DeviceUpdates
    <3> QED
      BY <1>3, <3>4
  <2>3. slots' \in SlotStates
    <3>1. [slots EXCEPT !.pending = NoRequest] \in SlotStates
      BY DeviceNow DEF Sound, SlotStates
    <3>2. [[slots EXCEPT !.pending = NoRequest] EXCEPT !.phase = "Buffering"] \in SlotStates
      BY <3>1 DEF SlotStates, SlotPhases
    <3>3. [[[slots EXCEPT !.pending = NoRequest] EXCEPT !.phase = "Buffering"] EXCEPT !.lease = m.lease]
            \in SlotStates
      BY <3>2, <2>1 DEF SlotStates
    <3> QED
      BY <1>3, <3>3
  <2>4. /\ dev'.phase = "Receiving" /\ dev'.lease = m.lease /\ dev'.received = 0
        /\ dev'.deferred = dev.deferred
        /\ slots'.phase = "Buffering" /\ slots'.lease = m.lease /\ slots'.capture = slots.capture
    BY <1>3, DeviceNow DEF Sound, Device, SlotStates
  <2>5. Consistent(slots', dev')
    BY <1>3, <2>4 DEF Consistent
  <2>6. Fit(dev', drained')
    BY <1>1, <1>3, <2>1, <2>4, DeviceNow, Bounds DEF Fit, Sound, hostSide, serveVars
  <2>7. Sound(slots', dev', drained')
    BY <2>2, <2>3, <2>5, <2>6 DEF Sound
  <2> QED
    BY <1>1, <1>3, <2>7, Zeros, Replies, AnswersAreTrue, DeviceNow, Histories, DeviceDoes
<1> QED
  BY <1>2, <1>3 DEF ReceiveBegin

LEMMA OldDataPreserves ==
  ASSUME PlaybackInv, NEW m \in net, ReceiveOldData(m) \/ ReceiveGap(m) PROVE PlaybackInv'
<1>1. /\ UNCHANGED <<hostSide, errors, history, userVars, deviceVars>> /\ m.lease \in Taken
      /\ \E s \in 0..3 : Reply(m, {AckPacket(m.lease, s, dev.received)})
  BY DEF ReceiveOldData, ReceiveGap, fromDevice, deviceOnly, PlaybackInv, NetInv, True
<1>2. PICK s \in 0..3 : Reply(m, {AckPacket(m.lease, s, dev.received)})
  BY <1>1
<1>3. UserType' /\ Sound(slots', dev', drained') /\ dev.received \in 0..Chunks
  BY <1>1, DeviceNow, DeviceFields, Histories DEF deviceVars, userVars, UserType, Sound
<1> QED
  BY <1>1, <1>2, <1>3, Replies, AnswersAreTrue, DeviceNow, Histories, DeviceDoes

LEMMA ReceiveNextPreserves ==
  ASSUME PlaybackInv, NEW m \in net, ReceiveNext(m) PROVE PlaybackInv'
<1> DEFINE received == dev.received + 1
           starts == dev.phase = "Receiving" /\ received >= Prebuffer
           p == IF starts THEN "Playing" ELSE dev.phase
           s == IF starts THEN "busy" ELSE dev.speaker
           k == IF received = Chunks THEN "TransferComplete"
                ELSE IF starts THEN "Playing" ELSE slots.phase
<1>1. /\ UNCHANGED <<hostSide, errors, history>> /\ UserType' /\ m.lease \in Taken
      /\ m \in Message /\ m.offset \in 0..(Chunks - 1)
  BY DeviceNow DEF ReceiveNext, fromDevice, deviceOnly, UserType, userVars, PlaybackInv, NetInv, True,
                   Message, NetType
<1>2. /\ m.lease = dev.lease /\ m.offset = dev.received
      /\ dev.phase \in {"Receiving", "Playing"}
      /\ dev' = [dev EXCEPT !.received = received, !.phase = p, !.speaker = s]
      /\ slots' = [slots EXCEPT !.phase = k]
      /\ Reply(m, {AckPacket(m.lease, 0, received)})
  BY DEF ReceiveNext
<1>3. received \in 0..Chunks /\ dev.received < Chunks
  BY <1>1, <1>2, DeviceNow, DeviceFields, Bounds DEF Sound
<1>4. p \in DevPhases /\ s \in SpeakerStates /\ k \in SlotPhases
  BY <1>2, DeviceNow, DeviceFields DEF Sound, SlotStates, DevPhases, SlotPhases, SpeakerStates
<1>5. slots.phase = (IF dev.phase = "Receiving" THEN "Buffering" ELSE "Playing")
      /\ slots.lease = dev.lease /\ dev.lease # 0 /\ ~slots.capture
  BY <1>2, <1>3, DeviceNow DEF Sound, Consistent, Fit
<1>6. dev' \in Device
  <2> HIDE DEF received, p, s
  <2>1. [dev EXCEPT !.received = received] \in Device
    BY <1>3, DeviceNow, DeviceUpdates DEF Sound
  <2>2. [[dev EXCEPT !.received = received] EXCEPT !.phase = p] \in Device
    BY <1>4, <2>1, DeviceUpdates
  <2>3. [[[dev EXCEPT !.received = received] EXCEPT !.phase = p] EXCEPT !.speaker = s] \in Device
    BY <1>4, <2>2, DeviceUpdates
  <2> QED
    BY <1>2, <2>3
<1>7. slots' \in SlotStates /\ slots'.phase = k /\ slots'.lease = slots.lease
      /\ slots'.capture = slots.capture
  <2> HIDE DEF k
  <2> QED
    BY <1>2, <1>4, DeviceNow DEF Sound, SlotStates
<1>8. /\ dev'.phase = p /\ dev'.speaker = s /\ dev'.received = received /\ dev'.lease = dev.lease
      /\ dev'.deferred = dev.deferred
  <2> HIDE DEF received, p, s
  <2> QED
    BY <1>2, DeviceNow DEF Sound, Device
<1>9. Consistent(slots', dev')
  BY <1>2, <1>3, <1>5, <1>7, <1>8, Bounds DEF Consistent
<1>10. Fit(dev', drained')
  BY <1>1, <1>2, <1>3, <1>8, DeviceNow, DeviceFields, Bounds DEF Fit, Sound, hostSide, serveVars, history
<1>11. Sound(slots', dev', drained')
  BY <1>6, <1>7, <1>9, <1>10 DEF Sound
<1> HIDE DEF received
<1> QED
  BY <1>1, <1>2, <1>3, <1>11, Replies, AnswersAreTrue, DeviceNow, Histories, DeviceDoes

LEMMA ReceiveCommitPreserves ==
  ASSUME PlaybackInv, NEW m \in net, ReceiveCommit(m) PROVE PlaybackInv'
<1>1. /\ UNCHANGED <<hostSide, errors, userVars, drained>> /\ UserType' /\ m.lease = dev.lease
      /\ net' \subseteq net
      /\ drained \subseteq drained' /\ drained' \subseteq Taken /\ forgotten \subseteq heard
  <2>1. net' \subseteq net \cup {}
    BY Replies DEF ReceiveCommit
  <2> QED
    BY <2>1, DeviceNow DEF ReceiveCommit, fromDevice, deviceOnly, UserType, userVars, PlaybackInv, EarnedInv,
                           ServeInv
<1>2. CASE /\ dev.phase = "Cancelling"
           /\ dev' = [dev EXCEPT !.cancelAcked = TRUE]
           /\ UNCHANGED <<slots, forgotten>>
  <2>1. dev' \in Device
    BY <1>2, DeviceNow, DeviceUpdates DEF Sound
  <2>2. /\ dev'.phase = dev.phase /\ dev'.lease = dev.lease /\ dev'.received = dev.received
        /\ dev'.deferred = dev.deferred /\ dev'.request = dev.request /\ dev'.speaker = dev.speaker
    BY <1>2, DeviceNow DEF Sound, Device
  <2>3. Sound(slots', dev', drained')
    BY <1>1, <1>2, <2>1, <2>2, DeviceNow DEF Sound, Consistent, Fit, hostSide, serveVars
  <2> QED
    BY <1>1, <1>2, <2>3, DeviceNow, DeviceSaysNothing
<1>3. CASE /\ dev.phase = "FinishedPendingAck" /\ m.kind = "EIPK" /\ m.status = 0
           /\ slots.phase = "FinishedPendingAck"
           /\ slots' = [slots EXCEPT !.phase = "Idle", !.lease = 0]
           /\ dev' = [IdleDevice EXCEPT !.speaker = dev.speaker]
           /\ forgotten' = forgotten \cup {m.lease}
  <2>1. m.lease \in heard
    BY <1>3 DEF PlaybackInv, NetInv, True
  <2>2. [slots EXCEPT !.phase = "Idle"] \in SlotStates
    BY DeviceNow DEF Sound, SlotStates, SlotPhases
  <2>3. [[slots EXCEPT !.phase = "Idle"] EXCEPT !.lease = 0] \in SlotStates
    BY <2>2, Zeros DEF SlotStates
  <2>4. slots' \in SlotStates /\ slots'.phase = "Idle"
    BY <1>3, <2>3 DEF SlotStates
  <2>5. dev.speaker \in SpeakerStates
    BY DeviceNow, DeviceFields DEF Sound
  <2>6. /\ dev' \in Device /\ dev'.phase = "Idle" /\ dev'.deferred = NoRequest
        /\ Fit([IdleDevice EXCEPT !.speaker = dev.speaker], drained)
    BY <1>3, <2>5, DeviceNow, QuietDevices, QuietFits
  <2>7. Sound(slots', dev', drained')
    <3>1. Fit(dev', drained)
      BY <1>3, <2>6
    <3> QED
      BY <1>1, <2>4, <2>6, <3>1, SoundWhenIdle
  <2> QED
    BY <1>1, <1>3, <2>1, <2>7, DeviceNow, DeviceSaysNothing
<1> QED
  BY <1>2, <1>3 DEF ReceiveCommit

LEMMA SpeakerEndsPreserves ==
  ASSUME PlaybackInv, NEW result \in {"played", "failed"}, SpeakerEnds(result) PROVE PlaybackInv'
<1>1. /\ UNCHANGED <<hostSide, errors, userVars, slots, net, forgotten>> /\ UserType'
      /\ dev' = [dev EXCEPT !.speaker = result] /\ dev.speaker = "busy"
      /\ drained' = IF result = "played" THEN drained \cup {dev.lease} ELSE drained
      /\ drained \subseteq Taken /\ forgotten \subseteq heard
  BY DeviceNow DEF SpeakerEnds, fromDevice, deviceOnly, UserType, userVars, PlaybackInv, EarnedInv, ServeInv
<1>2. result = "played" => dev.lease \in Taken
  BY DeviceNow, DeviceFields, Bounds DEF SpeakerEnds, Sound, Fit, Taken, ServeType
<1>3. dev' \in Device
  BY <1>1, DeviceNow, DeviceUpdates DEF Sound, SpeakerStates
<1>4. /\ dev'.phase = dev.phase /\ dev'.lease = dev.lease /\ dev'.received = dev.received
      /\ dev'.deferred = dev.deferred /\ dev'.request = dev.request /\ dev'.speaker = result
  BY <1>1, DeviceNow DEF Sound, Device
<1>5. Sound(slots', dev', drained')
  BY <1>1, <1>3, <1>4, DeviceNow DEF Sound, Consistent, Fit, hostSide, serveVars
<1> QED
  BY <1>1, <1>2, <1>5, DeviceNow, DeviceSaysNothing

LEMMA PollDrainedPreserves ==
  ASSUME PlaybackInv, PollDrained PROVE PlaybackInv'
<1>1. /\ UNCHANGED <<hostSide, errors, userVars, history>> /\ UserType'
      /\ dev.phase = "Playing" /\ dev.speaker = "played"
      /\ slots' = [slots EXCEPT !.phase = "FinishedPendingAck"] /\ slots.lease = dev.lease
      /\ dev' = [dev EXCEPT !.phase = "FinishedPendingAck", !.tries = 0]
      /\ Send({FinishedPacket(dev.lease)})
  BY DeviceNow DEF PollDrained, fromDevice, deviceOnly, UserType, userVars
<1>2. dev.lease \in Taken /\ dev.lease \in drained
  BY <1>1, DeviceNow DEF Sound, Fit, PlaybackInv, EarnedInv, ServeInv
<1>3. dev' \in Device
  <2>1. [dev EXCEPT !.phase = "FinishedPendingAck"] \in Device
    BY DeviceNow, DeviceUpdates, Zeros DEF Sound
  <2>2. [[dev EXCEPT !.phase = "FinishedPendingAck"] EXCEPT !.tries = 0] \in Device
    BY <2>1, DeviceUpdates, Zeros
  <2> QED
    BY <1>1, <2>2
<1>4. slots' \in SlotStates /\ slots'.phase = "FinishedPendingAck" /\ slots'.lease = slots.lease
      /\ slots'.capture = slots.capture
  BY <1>1, DeviceNow DEF Sound, SlotStates, SlotPhases
<1>5. /\ dev'.phase = "FinishedPendingAck" /\ dev'.lease = dev.lease /\ dev'.deferred = dev.deferred
  BY <1>1, DeviceNow DEF Sound, Device
<1>6. Sound(slots', dev', drained')
  <2>1. Consistent(slots', dev')
    BY <1>1, <1>4, <1>5, DeviceNow DEF Consistent, Sound
  <2>2. Fit(dev', drained')
    BY <1>1, <1>2, <1>5, DeviceNow, TakenLeases DEF Fit, Sound, hostSide, serveVars, history, Taken
  <2> QED
    BY <1>3, <1>4, <2>1, <2>2 DEF Sound
<1>7. \A m \in {FinishedPacket(dev.lease)} : m \in Message /\ True(m)
  BY <1>2, FinishedIsTrue, DeviceNow
<1> QED
  BY <1>1, <1>6, <1>7, Sends, DeviceNow, Histories, DeviceDoes

LEMMA DeviceRetriesPreserves ==
  ASSUME PlaybackInv, DeviceRetries PROVE PlaybackInv'
<1>1. /\ UNCHANGED <<hostSide, errors, userVars, history, slots>> /\ UserType'
      /\ dev.tries < MaxTries /\ dev' = [dev EXCEPT !.tries = dev.tries + 1]
  BY DeviceNow DEF DeviceRetries, fromDevice, deviceOnly, UserType, userVars
<1>2. dev' \in Device
  <2>1. dev.tries + 1 \in 0..MaxTries
    BY <1>1, DeviceNow, DeviceFields, Bounds DEF Sound
  <2> QED
    BY <1>1, <2>1, DeviceNow, DeviceUpdates DEF Sound
<1>3. /\ dev'.phase = dev.phase /\ dev'.lease = dev.lease /\ dev'.received = dev.received
      /\ dev'.deferred = dev.deferred /\ dev'.request = dev.request /\ dev'.speaker = dev.speaker
  BY <1>1, DeviceNow DEF Sound, Device
<1>4. Sound(slots', dev', drained')
  BY <1>1, <1>2, <1>3, DeviceNow, Histories DEF Sound, Consistent, Fit, hostSide, serveVars
<1>5. CASE dev.phase = "AwaitBegin" /\ Send({RequestPacket(dev.request)})
  <2>1. \A m \in {RequestPacket(dev.request)} : m \in Message /\ True(m)
    BY <1>5, RequestIsTrue, DeviceNow DEF Sound, Fit
  <2> QED
    BY <1>1, <1>4, <1>5, <2>1, Sends, DeviceNow, Histories, DeviceDoes
<1>6. CASE dev.phase = "FinishedPendingAck" /\ Send({FinishedPacket(dev.lease)})
  <2>1. dev.lease \in Taken /\ dev.lease \in drained
    BY <1>6, DeviceNow DEF Sound, Fit, PlaybackInv, EarnedInv, ServeInv
  <2>2. \A m \in {FinishedPacket(dev.lease)} : m \in Message /\ True(m)
    BY <2>1, FinishedIsTrue, DeviceNow
  <2> QED
    BY <1>1, <1>4, <1>6, <2>2, Sends, DeviceNow, Histories, DeviceDoes
<1>7. CASE Send(CancelPackets(dev))
  BY <1>1, <1>4, <1>7, Sends, CancelPacketsAreTrue, DeviceNow, Histories, DeviceDoes
<1> QED
  BY <1>5, <1>6, <1>7 DEF DeviceRetries

\* fail(), wherever it is called: the keys mean nothing afterwards.
LEMMA FailPreserves ==
  ASSUME PlaybackInv, dev.phase # "Idle", Fail({}), UNCHANGED <<hostSide, userVars, history>>,
         errors' \in 0..MaxErrors
  PROVE  PlaybackInv'
<1>1. slots' = SlotsAborted /\ dev' = Fails(dev) /\ net' \subseteq net \cup ({} \cup CancelPackets(dev))
  BY Sends DEF Fail
<1>2. slots' \in SlotStates /\ slots'.phase = "Idle" /\ slots'.capture = slots.capture
  <2>1. CASE dev.lease # 0 /\ slots.lease = dev.lease
    <3>1. slots' = [slots EXCEPT !.phase = "Idle", !.lease = 0]
      BY <1>1, <2>1 DEF SlotsAborted
    <3>2. [slots EXCEPT !.phase = "Idle"] \in SlotStates
      BY DeviceNow DEF Sound, SlotStates, SlotPhases
    <3>3. [[slots EXCEPT !.phase = "Idle"] EXCEPT !.lease = 0] \in SlotStates
      BY <3>2, Zeros DEF SlotStates
    <3> QED
      BY <3>1, <3>3, DeviceNow DEF Sound, SlotStates
  <2>2. CASE ~(dev.lease # 0 /\ slots.lease = dev.lease)
    <3>1. slots' = slots
      BY <1>1, <2>2 DEF SlotsAborted
    <3>2. slots.phase = "Idle"
      BY <2>2, DeviceNow, DeviceFields DEF Sound, Consistent, Fit, DevPhases
    <3> QED
      BY <3>1, <3>2, DeviceNow DEF Sound
  <2> QED
    BY <2>1, <2>2
<1>3. /\ dev' \in Device /\ Fit(dev', drained) /\ dev'.phase = "Cancelling"
      /\ dev'.deferred = dev.deferred
  BY <1>1, DeviceNow, FailedDevices, FailedFits DEF Sound
<1>4. Sound(slots', dev', drained)
  BY <1>2, <1>3, DeviceNow, SoundWhenIdle DEF Sound, Consistent
<1>5. UserType' /\ \A m \in {} \cup CancelPackets(dev) : m \in Message /\ True(m)
  BY DeviceNow, CancelPacketsAreTrue DEF UserType, userVars
<1> QED
  BY <1>1, <1>4, <1>5, Histories, DeviceDoes

LEMMA PollSpeakerFailedPreserves ==
  ASSUME PlaybackInv, PollSpeakerFailed PROVE PlaybackInv'
BY FailPreserves, DeviceNow DEF PollSpeakerFailed, fromDevice, deviceOnly

LEMMA DeviceTimesOutPreserves ==
  ASSUME PlaybackInv, DeviceTimesOut PROVE PlaybackInv'
BY FailPreserves, DeviceNow DEF DeviceTimesOut, fromDevice, deviceOnly

LEMMA DeviceFailsPreserves ==
  ASSUME PlaybackInv, DeviceFails PROVE PlaybackInv'
<1>1. errors' \in 0..MaxErrors
  BY DeviceNow, Bounds DEF DeviceFails
<1> QED
  BY <1>1, FailPreserves DEF DeviceFails

LEMMA DeviceRebootsPreserves ==
  ASSUME PlaybackInv, DeviceReboots PROVE PlaybackInv'
<1>1. /\ UNCHANGED <<hostSide, net, history>> /\ slots' = IdleSlots /\ dev' = IdleDevice
      /\ UserType' /\ errors' \in 0..MaxErrors
  BY DeviceNow, Bounds DEF DeviceReboots, UserType
<1>2. /\ IdleDevice \in Device /\ IdleDevice.phase = "Idle" /\ IdleDevice.deferred = NoRequest
      /\ IdleDevice.lease = 0 /\ IdleDevice.received = 0
  BY IdleDeviceIsOne DEF IdleDevice
<1>3. Fit(IdleDevice, drained)
  BY <1>2, DeviceNow, Bounds DEF Fit, ServeType
<1>4. Fit(dev', drained) /\ Sound(IdleSlots, IdleDevice, drained)
  BY <1>1, <1>2, <1>3, IdleSlotsAreSound, SoundWhenIdle, Histories DEF hostSide, serveVars, Fit
<1>5. Sound(slots', dev', drained')
  BY <1>1, <1>4, Histories DEF Sound
<1> QED
  BY <1>1, <1>5, Histories, DeviceSaysNothing

LEMMA DeviceCleansUpPreserves ==
  ASSUME PlaybackInv, DeviceCleansUp PROVE PlaybackInv'
<1> DEFINE clean == [IdleDevice EXCEPT !.speaker = dev.speaker]
           nexts == IF dev.deferred = NoRequest THEN {clean}
                    ELSE IF dev.deferred.conn = conn THEN Requested(clean, dev.deferred) ELSE {clean}
<1>1. PICK after \in nexts : dev' = after /\ Send(RequestPackets(after))
  BY DEF DeviceCleansUp
<1>2. UNCHANGED <<hostSide, errors, userVars, history, slots>> /\ UserType' /\ dev.phase = "Cancelling"
  BY DeviceNow DEF DeviceCleansUp, fromDevice, deviceOnly, UserType, userVars
<1>3. clean \in Device /\ Fit(clean, drained) /\ clean.phase = "Idle" /\ clean.deferred = NoRequest
  BY DeviceNow, DeviceFields, QuietDevices, QuietFits DEF Sound
<1>4. dev.deferred \in Request \cup {NoRequest} /\ (slots.capture => dev.deferred = NoRequest)
      /\ slots.phase = "Idle" /\ slots \in SlotStates
  BY <1>2, DeviceNow, DeviceFields DEF Sound, Consistent
<1> HIDE DEF clean
<1>5. /\ after \in Device /\ Fit(after, drained)
      /\ after.phase \in {"Idle", "AwaitBegin", "Cancelling"} /\ after.deferred = NoRequest
      /\ slots.capture => after.phase # "AwaitBegin"
  <2>1. CASE after = clean
    BY <1>3, <2>1
  <2>2. CASE dev.deferred # NoRequest /\ after \in Requested(clean, dev.deferred)
    BY <1>3, <1>4, <2>2, DeviceNow, RequestedFits
  <2> QED
    BY <1>1, <2>1, <2>2
<1>6. Sound(slots', dev', drained')
  BY <1>1, <1>2, <1>4, <1>5, SoundWhenIdle, Histories
<1>7. \A m \in RequestPackets(after) : m \in Message /\ True(m)
  BY <1>5, RequestPacketsAreTrue DEF Fit
<1>8. net' \subseteq net \cup RequestPackets(after)
  BY <1>1, Sends
<1> QED
  BY <1>2, <1>6, <1>7, <1>8, DeviceNow, Histories, DeviceDoes

-----------------------------------------------------------------------------
(* Every step of the LAN thread keeps the invariant. *)

LEMMA TransferFields ==
  ASSUME PlaybackInv
  PROVE  /\ lan \in Transfers /\ lan.phase \in LanPhases /\ lan.lease \in 0..MaxLeases
         /\ lan.acked \in 0..Chunks /\ lan.sent \in 0..Chunks /\ lan.tries \in 0..MaxTries
         /\ retired \in [finish: 0..MaxLeases, cancel: 0..MaxLeases]
         /\ events \in Seq(Event) /\ commands \in Seq(Command)
BY DeviceNow DEF HostType, LanType, QueueType, Transfers

LEMMA TransferUpdates ==
  ASSUME NEW t \in Transfers
  PROVE  /\ \A p \in LanPhases : [t EXCEPT !.phase = p] \in Transfers
         /\ \A l \in 0..MaxLeases : [t EXCEPT !.lease = l] \in Transfers
         /\ \A n \in 0..Chunks : [t EXCEPT !.acked = n] \in Transfers
         /\ \A n \in 0..Chunks : [t EXCEPT !.sent = n] \in Transfers
         /\ \A n \in 0..MaxTries : [t EXCEPT !.tries = n] \in Transfers
<1>1. \A p \in LanPhases : [t EXCEPT !.phase = p] \in Transfers
  BY DEF Transfers
<1>2. \A l \in 0..MaxLeases : [t EXCEPT !.lease = l] \in Transfers
  BY DEF Transfers
<1>3. \A n \in 0..Chunks : [t EXCEPT !.acked = n] \in Transfers
  BY DEF Transfers
<1>4. \A n \in 0..Chunks : [t EXCEPT !.sent = n] \in Transfers
  BY DEF Transfers
<1>5. \A n \in 0..MaxTries : [t EXCEPT !.tries = n] \in Transfers
  BY DEF Transfers
<1> QED
  BY <1>1, <1>2, <1>3, <1>4, <1>5

LEMMA NoTransferIsOne ==
  NoTransfer \in Transfers /\ NoTransfer.phase = "None"
BY Bounds DEF NoTransfer, Transfers, LanPhases

\* send_next_data never reaches beyond the object.
LEMMA WindowEndBounds ==
  ASSUME NEW from \in 0..Chunks PROVE WindowEnd(from) \in 0..Chunks
BY Bounds DEF WindowEnd

\* What the thread may tell the serve loop.
Tells ==
  \/ UNCHANGED events
  \/ \E k \in {"Finished", "Cancelled"}, l \in Taken :
       (k = "Finished" => l \in drained) /\ Tell(k, l)

LEMMA EventsGrow ==
  ASSUME PlaybackInv, lanOnly, UNCHANGED floor, Tells
  PROVE  events' \in Seq(Event) /\ EventInv' /\ RequestInv'
<1>1. UNCHANGED <<requestOf, nextLease, crashes, drained, floor>>
  BY DEF lanOnly, serveVars, history
<1>2. CASE UNCHANGED events
  BY <1>1, <1>2, TransferFields DEF PlaybackInv, EarnedInv, EventInv, RequestInv, Floor, Taken
<1>3. CASE \E k \in {"Finished", "Cancelled"}, l \in Taken :
             (k = "Finished" => l \in drained) /\ Tell(k, l)
  <2>1. PICK k \in {"Finished", "Cancelled"}, l \in Taken :
          (k = "Finished" => l \in drained) /\ Tell(k, l)
    BY <1>3
  <2> DEFINE e == [kind |-> k, lease |-> l]
  <2>2. e \in Event /\ e.kind = k /\ e.lease = l /\ e.kind # "Request"
    BY TakenLeases, DeviceNow DEF Event
  <2> HIDE DEF e
  <2>3. events' = Append(events, e) /\ events \in Seq(Event)
    BY <2>1, TransferFields DEF Tell, e
  <2>4. /\ events' \in Seq(Event) /\ DOMAIN events' = 1..(Len(events) + 1)
        /\ DOMAIN events = 1..Len(events) /\ Len(events) \in Nat
        /\ \A i \in DOMAIN events : events'[i] = events[i]
        /\ events'[Len(events) + 1] = e
    BY <2>2, <2>3
  <2>5. EventInv'
    BY <1>1, <2>1, <2>2, <2>4 DEF PlaybackInv, EarnedInv, EventInv, Taken
  <2>6. \A i \in DOMAIN events' : events'[i].kind = "Request" => i \in DOMAIN events /\ events'[i] = events[i]
    BY <2>2, <2>4
  <2>7. RequestInv'
    BY <1>1, <2>6 DEF PlaybackInv, RequestInv, Floor, Taken
  <2> QED
    BY <2>4, <2>5, <2>7
<1> QED
  BY <1>2, <1>3 DEF Tells

\* What it may do with the commands: take the first one.
Takes ==
  \/ UNCHANGED commands
  \/ commands # <<>> /\ commands' = Tail(commands)

LEMMA CommandsShrink ==
  ASSUME PlaybackInv, lanOnly, Takes
  PROVE  commands' \in Seq(Command) /\ CommandInv'
<1>1. UNCHANGED <<nextLease, heard>>
  BY DEF lanOnly, serveVars
<1>2. CASE UNCHANGED commands
  BY <1>1, <1>2, TransferFields DEF PlaybackInv, EarnedInv, CommandInv, Taken
<1>3. CASE commands # <<>> /\ commands' = Tail(commands)
  <2>1. /\ commands' \in Seq(Command) /\ DOMAIN commands = 1..Len(commands) /\ Len(commands) \in Nat
        /\ DOMAIN commands' = 1..(Len(commands) - 1)
        /\ \A i \in DOMAIN commands' : commands'[i] = commands[i + 1]
    BY <1>3, TransferFields
  <2>2. \A i \in DOMAIN commands' : i + 1 \in DOMAIN commands
    <3>1. SUFFICES ASSUME NEW i \in 1..(Len(commands) - 1) PROVE i + 1 \in 1..Len(commands)
      BY <2>1
    <3>2. Len(commands) \in Nat
      BY <2>1
    <3> QED
      BY <3>2
  <2> QED
    BY <1>1, <2>1, <2>2 DEF PlaybackInv, EarnedInv, CommandInv, Taken
<1> QED
  BY <1>2, <1>3 DEF Takes

LEMMA LanFrame ==
  ASSUME PlaybackInv, lanOnly
  PROVE  /\ UserType' /\ DeviceSound' /\ ServeType' /\ HistoryType' /\ ServeInv' /\ Monotone
<1>1. UNCHANGED <<conn, lastConn, nextRequest, slots, dev, active, leased, requestOf, nextLease, heard,
                  crashes, errors, drained, forgotten>>
  BY DEF lanOnly, userVars, deviceVars, serveVars, history
<1>2. UserType' /\ ServeType' /\ HistoryType'
  BY <1>1, DeviceNow DEF UserType, ServeType, HistoryType
<1>3. Sound(slots', dev', drained')
  BY <1>1, DeviceNow
<1>4. DeviceSound'
  BY <1>1, <1>3, DeviceNow, DeviceNext
<1>5. ServeInv' /\ Monotone
  BY <1>1, DeviceNow DEF PlaybackInv, EarnedInv, ServeInv, Taken, Unheard, Monotone, ServeType
<1> QED
  BY <1>2, <1>4, <1>5

LEMMA LanStep ==
  ASSUME PlaybackInv, lanOnly, LanType', LanInv',
         events' \in Seq(Event) /\ EventInv' /\ RequestInv',
         commands' \in Seq(Command) /\ CommandInv',
         NEW sent, net' \subseteq net \cup sent, \A m \in sent : m \in Message /\ True(m)
  PROVE  PlaybackInv'
<1>1. /\ UserType' /\ DeviceSound' /\ ServeType' /\ HistoryType' /\ ServeInv' /\ Monotone
  BY LanFrame
<1>2. NetType' /\ NetInv'
  BY <1>1, NetKeeps, DeviceNow DEF PlaybackInv
<1>3. TypeOK'
  BY <1>1, <1>2, TypeParts DEF DeviceSound, HostType, QueueType
<1> QED
  BY <1>1, <1>2, <1>3 DEF PlaybackInv, DeviceSound, EarnedInv

TransferFits == lan' \in Transfers /\ (lan'.phase # "None" => lan'.lease \in Taken)
RetiredFits ==
  /\ retired' \in [finish: 0..MaxLeases, cancel: 0..MaxLeases]
  /\ retired'.finish # 0 => retired'.finish \in heard

\* A step of the thread that accepts no request is told by what it does to its transfer, to
\* what it has retired, and to the two channels.
LEMMA LanDoes ==
  ASSUME PlaybackInv, lanOnly, UNCHANGED floor, Tells, Takes, TransferFits, RetiredFits,
         NEW sent, net' \subseteq net \cup sent, \A m \in sent : m \in Message /\ True(m)
  PROVE  PlaybackInv'
<1>1. LanType'
  BY DeviceNow DEF LanType, HostType, TransferFits, RetiredFits
<1>2. LanInv'
  BY DEF LanInv, Taken, lanOnly, serveVars, TransferFits, RetiredFits
<1> QED
  BY <1>1, <1>2, EventsGrow, CommandsShrink, LanStep

LEMMA LanSaysNothing ==
  ASSUME PlaybackInv, lanOnly, UNCHANGED floor, Tells, Takes, TransferFits, RetiredFits,
         net' \subseteq net
  PROVE  PlaybackInv'
<1> DEFINE nothing == {}
<1>1. net' \subseteq net \cup nothing /\ \A m \in nothing : m \in Message /\ True(m)
  OBVIOUS
<1> HIDE DEF nothing
<1> QED
  BY <1>1, LanDoes

LEMMA RetiredKept ==
  ASSUME PlaybackInv, retired' = retired
  PROVE  RetiredFits
BY TransferFields DEF PlaybackInv, EarnedInv, LanInv, RetiredFits

LEMMA CommandsKept == commands' = commands => Takes
BY DEF Takes

LEMMA EventsKept == events' = events => Tells
BY DEF Tells

LEMMA LanKept ==
  ASSUME PlaybackInv
  PROVE  lan \in Transfers /\ (lan.phase # "None" => lan.lease \in Taken)
BY TransferFields DEF PlaybackInv, EarnedInv, LanInv

LEMMA TransferKept ==
  ASSUME PlaybackInv, lan' = lan \/ lan' = NoTransfer
  PROVE  TransferFits
BY LanKept, NoTransferIsOne DEF TransferFits

LEMMA Drops ==
  ASSUME PlaybackInv, Drop, lan.phase # "None"
  PROVE  Tells /\ TransferFits
BY TransferKept, LanKept DEF Drop, Tells

\* A datagram that is only taken from the network.
LEMMA Consumes ==
  ASSUME NEW m, Reply(m, {}) PROVE net' \subseteq net
<1>1. net' \subseteq net \cup {}
  BY Replies
<1> QED
  BY <1>1

\* send_next_data and its callers.
LEMMA SendNextPreserves ==
  ASSUME PlaybackInv, NEW m, NEW next \in Transfers, next.lease = lan.lease, lan.phase # "None",
         NEW packets, \A p \in packets : p \in Message /\ True(p),
         SendNext(m, next, packets), lanOnly, UNCHANGED <<retired, floor, commands>>
  PROVE  PlaybackInv'
<1>1. CASE lan' = next /\ Reply(m, packets) /\ UNCHANGED events
  <2>1. net' \subseteq net \cup packets /\ Tells /\ TransferFits
    BY <1>1, Replies, EventsKept, LanKept DEF TransferFits
  <2> QED
    BY <2>1, RetiredKept, CommandsKept, LanDoes
<1>2. CASE Drop /\ Reply(m, {})
  BY <1>2, Drops, Consumes, RetiredKept, CommandsKept, LanSaysNothing
<1> QED
  BY <1>1, <1>2 DEF SendNext

LEMMA WindowsAreTrue ==
  ASSUME PlaybackInv, lan.phase # "None", NEW from \in 0..Chunks
  PROVE  \A p \in SendWindow(from) : p \in Message /\ True(p)
BY LanKept, DeviceNow, DataAreTrue, WindowEndBounds, Bounds DEF SendWindow

LEMMA LateAnswersPreserve ==
  ASSUME PlaybackInv, NEW m \in net, ReceiveLateCancel(m) \/ ReceiveLateFinished(m)
  PROVE  PlaybackInv'
<1>1. lanOnly /\ UNCHANGED <<lan, retired, floor, events, commands>> /\ m.kind \in {"EIPA", "EIPF"}
  BY DEF ReceiveLateCancel, ReceiveLateFinished, lanVars
<1>2. m.lease \in Taken /\ m.lease # 0
  BY <1>1, DeviceNow, TakenLeases DEF PlaybackInv, NetInv, True
<1>3. PICK s \in 0..1 : Reply(m, {CommitPacket(m.lease, s)}) /\ (s = 0 => retired.finish = m.lease)
  <2>1. CASE ReceiveLateCancel(m)
    BY <2>1 DEF ReceiveLateCancel
  <2>2. CASE ReceiveLateFinished(m)
    BY <2>2 DEF ReceiveLateFinished
  <2> QED
    BY <2>1, <2>2
<1>4. s = 0 => m.lease \in heard
  BY <1>2, <1>3 DEF PlaybackInv, EarnedInv, LanInv
<1> DEFINE answer == {CommitPacket(m.lease, s)}
<1>5. \A p \in answer : p \in Message /\ True(p)
  BY <1>2, <1>4, CommitIsTrue, DeviceNow
<1>6. net' \subseteq net \cup answer /\ Tells /\ Takes
  BY <1>1, <1>3, Replies, EventsKept, CommandsKept
<1>7. TransferFits /\ RetiredFits /\ UNCHANGED floor
  BY <1>1, TransferKept, RetiredKept
<1> HIDE DEF answer
<1> QED
  BY <1>1, <1>5, <1>6, <1>7, LanDoes

LEMMA ReceiveGapAckPreserves ==
  ASSUME PlaybackInv, NEW m \in net, ReceiveGapAck(m) PROVE PlaybackInv'
<1> DEFINE t == IF m.offset = lan.acked THEN lan.tries + 1 ELSE 0
           next == [lan EXCEPT !.acked = m.offset, !.sent = WindowEnd(m.offset), !.tries = t]
<1>1. lanOnly /\ UNCHANGED <<retired, floor, commands>> /\ lan.phase = "DataAck"
  BY DEF ReceiveGapAck
<1>2. m.offset \in 0..Chunks
  BY TransferFields, Bounds, SMTT(30) DEF ReceiveGapAck, InWindow
<1>3. CASE Drop /\ Reply(m, {})
  BY <1>1, <1>3, Drops, Consumes, RetiredKept, CommandsKept, LanSaysNothing
<1>4. CASE /\ ~(m.offset = lan.acked /\ lan.tries = MaxTries)
           /\ SendNext(m, next, SendWindow(m.offset))
  <2>1. t \in 0..MaxTries
    BY <1>4, TransferFields, Bounds, SMTT(30)
  <2> HIDE DEF t
  <2>2. next \in Transfers
    <3>1. [lan EXCEPT !.acked = m.offset] \in Transfers
      BY <1>2, LanKept, TransferUpdates
    <3>2. [[lan EXCEPT !.acked = m.offset] EXCEPT !.sent = WindowEnd(m.offset)] \in Transfers
      BY <3>1, <1>2, WindowEndBounds, TransferUpdates
    <3>3. [[[lan EXCEPT !.acked = m.offset] EXCEPT !.sent = WindowEnd(m.offset)] EXCEPT !.tries = t]
            \in Transfers
      BY <3>2, <2>1, TransferUpdates
    <3> QED
      BY <3>3
  <2>3. next.lease = lan.lease
    BY TransferFields DEF Transfers
  <2> HIDE DEF next
  <2> QED
    BY <1>1, <1>2, <1>4, <2>2, <2>3, WindowsAreTrue, SendNextPreserves
<1> QED
  BY <1>3, <1>4 DEF ReceiveGapAck

LEMMA ReceiveBeginAckPreserves ==
  ASSUME PlaybackInv, NEW m \in net, ReceiveBeginAck(m) PROVE PlaybackInv'
<1> DEFINE next == [lan EXCEPT !.phase = "DataAck", !.acked = 0, !.sent = WindowEnd(0), !.tries = 0]
<1>1. /\ lanOnly /\ UNCHANGED <<retired, floor, commands>> /\ lan.phase # "None"
      /\ SendNext(m, next, SendWindow(0))
  BY DEF ReceiveBeginAck
<1>2. next \in Transfers
  <2>1. [lan EXCEPT !.phase = "DataAck"] \in Transfers
    BY LanKept, TransferUpdates DEF LanPhases
  <2>2. [[lan EXCEPT !.phase = "DataAck"] EXCEPT !.acked = 0] \in Transfers
    BY <2>1, Zeros, TransferUpdates
  <2>3. [[[lan EXCEPT !.phase = "DataAck"] EXCEPT !.acked = 0] EXCEPT !.sent = WindowEnd(0)] \in Transfers
    BY <2>2, Zeros, WindowEndBounds, TransferUpdates
  <2>4. [[[[lan EXCEPT !.phase = "DataAck"] EXCEPT !.acked = 0] EXCEPT !.sent = WindowEnd(0)]
          EXCEPT !.tries = 0] \in Transfers
    BY <2>3, Zeros, TransferUpdates
  <2> QED
    BY <2>4
<1>3. next.lease = lan.lease
  BY TransferFields DEF Transfers
<1> HIDE DEF next
<1> QED
  BY <1>1, <1>2, <1>3, Zeros, WindowsAreTrue, SendNextPreserves

LEMMA ReceiveDataAckPreserves ==
  ASSUME PlaybackInv, NEW m \in net, ReceiveDataAck(m) PROVE PlaybackInv'
<1> DEFINE acked == [lan EXCEPT !.acked = m.offset, !.tries = 0]
<1>1. /\ lanOnly /\ UNCHANGED <<retired, floor, commands>> /\ lan.phase = "DataAck"
      /\ m.offset > lan.acked /\ m.offset <= lan.sent /\ m.kind = "EIPA"
  BY DEF ReceiveDataAck
<1>2. m.offset \in 0..Chunks
  BY <1>1, DeviceNow DEF NetType, Message
<1>3. acked \in Transfers
  <2>1. [lan EXCEPT !.acked = m.offset] \in Transfers
    BY <1>2, LanKept, TransferUpdates
  <2>2. [[lan EXCEPT !.acked = m.offset] EXCEPT !.tries = 0] \in Transfers
    BY <2>1, Zeros, TransferUpdates
  <2> QED
    BY <2>2
<1>4. acked.lease = lan.lease
  BY TransferFields DEF Transfers
<1>5. CASE \/ m.offset # lan.sent \/ m.offset = Chunks
  <2>1. /\ lan' = acked \/ lan' = [acked EXCEPT !.phase = "DeviceFinished"]
        /\ Reply(m, {}) /\ UNCHANGED events
    BY <1>5 DEF ReceiveDataAck
  <2> HIDE DEF acked
  <2>2. [acked EXCEPT !.phase = "DeviceFinished"] \in Transfers
        /\ [acked EXCEPT !.phase = "DeviceFinished"].lease = acked.lease
    <3>1. [acked EXCEPT !.phase = "DeviceFinished"] \in Transfers
      BY <1>3, TransferUpdates DEF LanPhases
    <3> QED
      BY <1>3, <3>1 DEF Transfers
  <2>3. TransferFits
    BY <1>1, <1>3, <1>4, <2>1, <2>2, LanKept DEF TransferFits
  <2> QED
    BY <1>1, <2>1, <2>3, EventsKept, CommandsKept, Consumes, RetiredKept, LanSaysNothing
<1>6. CASE ~(\/ m.offset # lan.sent \/ m.offset = Chunks)
  <2>1. SendNext(m, [acked EXCEPT !.sent = WindowEnd(m.offset)], SendWindow(m.offset))
    BY <1>6 DEF ReceiveDataAck
  <2> HIDE DEF acked
  <2>2. [acked EXCEPT !.sent = WindowEnd(m.offset)] \in Transfers
        /\ [acked EXCEPT !.sent = WindowEnd(m.offset)].lease = lan.lease
    <3>1. [acked EXCEPT !.sent = WindowEnd(m.offset)] \in Transfers
      BY <1>2, <1>3, WindowEndBounds, TransferUpdates
    <3> QED
      BY <1>3, <1>4, <3>1 DEF Transfers
  <2> QED
    BY <1>1, <1>2, <2>1, <2>2, WindowsAreTrue, SendNextPreserves
<1> QED
  BY <1>5, <1>6

LEMMA ReceiveRefusalPreserves ==
  ASSUME PlaybackInv, NEW m \in net, ReceiveRefusal(m) PROVE PlaybackInv'
<1> DEFINE c == IF m.status = 3 THEN m.lease ELSE retired.cancel
           answer == IF m.status = 3 THEN {CommitPacket(m.lease, 1)} ELSE {}
<1>1. /\ lanOnly /\ UNCHANGED <<floor, commands>> /\ lan.phase # "None" /\ Drop
      /\ retired' = [retired EXCEPT !.cancel = c] /\ Reply(m, answer)
      /\ m.kind = "EIPA"
  BY DEF ReceiveRefusal
<1>2. m.lease \in Taken /\ m.lease \in 0..MaxLeases
  BY <1>1, DeviceNow, TakenLeases, Bounds DEF PlaybackInv, NetInv, True, Leases
<1>3. c \in 0..MaxLeases
  BY <1>2, TransferFields
<1>4. \A p \in answer : p \in Message /\ True(p)
  BY <1>2, CommitIsTrue, DeviceNow
<1>5. net' \subseteq net \cup answer
  BY <1>1, Replies
<1> HIDE DEF c, answer
<1>6. retired' \in [finish: 0..MaxLeases, cancel: 0..MaxLeases] /\ retired'.finish = retired.finish
  BY <1>1, <1>3, TransferFields
<1>7. RetiredFits
  BY <1>6 DEF PlaybackInv, EarnedInv, LanInv, RetiredFits
<1> QED
  BY <1>1, <1>4, <1>5, <1>7, Drops, CommandsKept, LanDoes

LEMMA ReceiveFinishedPreserves ==
  ASSUME PlaybackInv, NEW m \in net, ReceiveFinished(m) PROVE PlaybackInv'
<1>1. /\ lanOnly /\ UNCHANGED <<retired, floor, commands>> /\ m.kind = "EIPF" /\ m.lease = lan.lease
      /\ lan.phase # "None" /\ lan' = [lan EXCEPT !.phase = "HostCommit"]
      /\ Tell("Finished", m.lease) /\ Reply(m, {})
  BY DEF ReceiveFinished
<1>2. m.lease \in Taken /\ m.lease \in drained
  BY <1>1 DEF PlaybackInv, NetInv, True
<1>3. Tells /\ Takes
  BY <1>1, <1>2, CommandsKept DEF Tells
<1>4. TransferFits
  <2>1. lan' \in Transfers
    BY <1>1, LanKept, TransferUpdates DEF LanPhases
  <2>2. lan'.lease = lan.lease
    BY <1>1, LanKept DEF Transfers
  <2> QED
    BY <1>1, <1>2, <2>1, <2>2 DEF TransferFits
<1> QED
  BY <1>1, <1>3, <1>4, RetiredKept, Consumes, LanSaysNothing

LEMMA LanResendsPreserves ==
  ASSUME PlaybackInv, LanResends PROVE PlaybackInv'
<1> DEFINE again == IF lan.phase = "BeginAck" THEN {BeginPacket(lan.lease)}
                    ELSE DataPackets(lan.lease, lan.acked, lan.sent)
<1>1. /\ lanOnly /\ UNCHANGED <<retired, floor, events, commands>> /\ lan.phase # "None"
      /\ lan.tries < MaxTries /\ lan' = [lan EXCEPT !.tries = lan.tries + 1] /\ Send(again)
  BY DEF LanResends
<1>2. TransferFits
  <2>1. lan.tries + 1 \in 0..MaxTries
    BY <1>1, TransferFields, Bounds, SMTT(30)
  <2>2. lan' \in Transfers
    BY <1>1, <2>1, LanKept, TransferUpdates
  <2>3. lan'.lease = lan.lease /\ lan'.phase = lan.phase
    BY <1>1, LanKept DEF Transfers
  <2> QED
    BY <2>2, <2>3, LanKept DEF TransferFits
<1>3. \A p \in again : p \in Message /\ True(p)
  <2>1. lan.lease \in Taken /\ lan.acked \in Nat /\ lan.sent \in 0..Chunks /\ ServeType
    BY <1>1, LanKept, TransferFields, DeviceNow
  <2> QED
    BY <2>1, BeginIsTrue, DataAreTrue
<1> HIDE DEF again
<1>4. net' \subseteq net \cup again /\ Tells /\ Takes /\ RetiredFits /\ UNCHANGED floor
  BY <1>1, Sends, EventsKept, CommandsKept, RetiredKept
<1> QED
  BY <1>1, <1>2, <1>3, <1>4, LanDoes

LEMMA LanGivesUpPreserves ==
  ASSUME PlaybackInv, LanGivesUp PROVE PlaybackInv'
<1>1. /\ lanOnly /\ UNCHANGED <<net, retired, floor, commands>> /\ Drop /\ lan.phase # "None"
  BY DEF LanGivesUp
<1>2. Tells /\ TransferFits /\ Takes /\ RetiredFits /\ UNCHANGED floor /\ net' \subseteq net
  BY <1>1, Drops, CommandsKept, RetiredKept
<1> QED
  BY <1>1, <1>2, LanSaysNothing

LEMMA RetiredExpiresPreserves ==
  ASSUME PlaybackInv, RetiredExpires PROVE PlaybackInv'
<1>1. lanOnly /\ UNCHANGED <<net, lan, floor, events, commands>>
  BY DEF RetiredExpires
<1>2. RetiredFits
  <2>1. CASE retired' = [retired EXCEPT !.finish = 0]
    BY <2>1, TransferFields, Zeros DEF RetiredFits
  <2>2. CASE retired' = [retired EXCEPT !.cancel = 0]
    BY <2>2, TransferFields, Zeros DEF RetiredFits, PlaybackInv, EarnedInv, LanInv
  <2> QED
    BY <2>1, <2>2 DEF RetiredExpires
<1>3. Tells /\ TransferFits /\ Takes /\ UNCHANGED floor /\ net' \subseteq net
  BY <1>1, EventsKept, TransferKept, CommandsKept
<1> QED
  BY <1>1, <1>2, <1>3, LanSaysNothing

\* What the first command says is so.
LEMMA HeadIsTrue ==
  ASSUME PlaybackInv, commands # <<>>
  PROVE  /\ Head(commands).lease \in Taken
         /\ Head(commands).kind = "FinishAck" => Head(commands).lease \in heard
<1>1. 1 \in DOMAIN commands /\ Head(commands) = commands[1]
  BY TransferFields
<1> QED
  BY <1>1 DEF PlaybackInv, EarnedInv, CommandInv

LEMMA HandleStartPreserves ==
  ASSUME PlaybackInv, HandleStart PROVE PlaybackInv'
<1> DEFINE l == Head(commands).lease
<1>1. /\ lanOnly /\ UNCHANGED <<retired, floor>> /\ commands # <<>> /\ commands' = Tail(commands)
      /\ l \in Taken
  BY HeadIsTrue DEF HandleStart
<1>2. Takes /\ RetiredFits /\ UNCHANGED floor
  BY <1>1, RetiredKept DEF Takes
<1> HIDE DEF l
<1>3. CASE lan.phase # "None" /\ Tell("Cancelled", l) /\ UNCHANGED <<lan, net>>
  <2>1. Tells /\ TransferFits /\ net' \subseteq net
    BY <1>1, <1>3, TransferKept DEF Tells
  <2> QED
    BY <1>1, <1>2, <2>1, LanSaysNothing
<1>4. CASE /\ lan' = [NoTransfer EXCEPT !.phase = "BeginAck", !.lease = l]
           /\ Send({BeginPacket(l)})
           /\ UNCHANGED events
  <2>1. l \in 0..MaxLeases
    BY <1>1, DeviceNow, TakenLeases DEF Leases
  <2>2. [NoTransfer EXCEPT !.phase = "BeginAck"] \in Transfers
    BY NoTransferIsOne, TransferUpdates DEF LanPhases
  <2>3. [[NoTransfer EXCEPT !.phase = "BeginAck"] EXCEPT !.lease = l] \in Transfers
    BY <2>1, <2>2, TransferUpdates
  <2>4. lan' \in Transfers /\ lan'.lease = l
    BY <1>4, <2>3, NoTransferIsOne DEF Transfers
  <2>5. TransferFits /\ Tells
    BY <1>1, <1>4, <2>4, EventsKept DEF TransferFits
  <2> DEFINE sent == {BeginPacket(l)}
  <2>6. \A p \in sent : p \in Message /\ True(p)
    BY <1>1, BeginIsTrue, DeviceNow
  <2>7. net' \subseteq net \cup sent
    BY <1>4, Sends
  <2> HIDE DEF sent
  <2> QED
    BY <1>1, <1>2, <2>5, <2>6, <2>7, LanDoes
<1> QED
  BY <1>3, <1>4 DEF HandleStart, l

LEMMA HandleStartFailsPreserves ==
  ASSUME PlaybackInv, HandleStartFails PROVE PlaybackInv'
<1>1. /\ lanOnly /\ UNCHANGED <<net, lan, retired, floor>> /\ commands # <<>>
      /\ commands' = Tail(commands) /\ Tell("Cancelled", Head(commands).lease)
  BY DEF HandleStartFails, lanVars
<1>2. Tells /\ Takes /\ TransferFits /\ RetiredFits /\ UNCHANGED floor /\ net' \subseteq net
  BY <1>1, HeadIsTrue, TransferKept, RetiredKept DEF Tells, Takes
<1> QED
  BY <1>1, <1>2, LanSaysNothing

LEMMA HandleFinishAckPreserves ==
  ASSUME PlaybackInv, HandleFinishAck PROVE PlaybackInv'
<1> DEFINE l == Head(commands).lease
<1>1. /\ lanOnly /\ UNCHANGED <<floor, events>> /\ commands # <<>> /\ commands' = Tail(commands)
      /\ l \in Taken /\ l \in heard
  BY HeadIsTrue DEF HandleFinishAck
<1>2. Takes /\ Tells /\ UNCHANGED floor
  BY <1>1, EventsKept DEF Takes
<1> HIDE DEF l
<1>3. CASE /\ Send({CommitPacket(l, 0)}) /\ retired' = [retired EXCEPT !.finish = l]
           /\ lan' = NoTransfer
  <2>1. l \in 0..MaxLeases
    BY <1>1, DeviceNow, TakenLeases DEF Leases
  <2>2. TransferFits /\ RetiredFits
    BY <1>1, <1>3, <2>1, TransferKept, TransferFields DEF RetiredFits
  <2> DEFINE sent == {CommitPacket(l, 0)}
  <2>3. \A p \in sent : p \in Message /\ True(p)
    BY <1>1, CommitIsTrue, DeviceNow
  <2>4. net' \subseteq net \cup sent
    BY <1>3, Sends
  <2> HIDE DEF sent
  <2> QED
    BY <1>1, <1>2, <2>2, <2>3, <2>4, LanDoes
<1>4. CASE UNCHANGED <<net, retired, lan>>
  <2>1. TransferFits /\ RetiredFits /\ net' \subseteq net
    BY <1>4, TransferKept, RetiredKept
  <2> QED
    BY <1>1, <1>2, <2>1, LanSaysNothing
<1> QED
  BY <1>3, <1>4 DEF HandleFinishAck, l

LEMMA HandleCancelPreserves ==
  ASSUME PlaybackInv, HandleCancel PROVE PlaybackInv'
<1>1. /\ lanOnly /\ UNCHANGED <<net, retired, floor, events>> /\ commands # <<>>
      /\ commands' = Tail(commands) /\ (lan' = lan \/ lan' = NoTransfer)
  BY DEF HandleCancel
<1>2. Tells /\ Takes /\ TransferFits /\ RetiredFits /\ UNCHANGED floor /\ net' \subseteq net
  BY <1>1, EventsKept, TransferKept, RetiredKept DEF Takes
<1> QED
  BY <1>1, <1>2, LanSaysNothing

\* A key press is accepted once: the event joins the queue behind what is there, and the floor
\* of its connection rises to its generation.
LEMMA ReceiveRequestPreserves ==
  ASSUME PlaybackInv, NEW m \in net, ReceiveRequest(m) PROVE PlaybackInv'
<1> DEFINE r == m.request
           c == [kind |-> "Cancelled", lease |-> lan.lease]
           e == [kind |-> "Request", request |-> r]
           k == <<r.slot, r.conn>>
           old == IF lan.phase = "None" THEN events ELSE Append(events, c)
<1>1. /\ lanOnly /\ UNCHANGED <<retired, commands>> /\ net' \subseteq net /\ r \in Request
  BY DeviceNow, Consumes DEF ReceiveRequest, NetType, Message
<1>2. Takes /\ RetiredFits
  BY <1>1, CommandsKept, RetiredKept
<1>3. CASE ~AcceptRequest(r)
  <2>1. UNCHANGED <<floor, lan, events>>
    BY <1>3 DEF ReceiveRequest
  <2>2. Tells /\ TransferFits /\ UNCHANGED floor
    BY <2>1, EventsKept, TransferKept
  <2> QED
    BY <1>1, <1>2, <2>2, LanSaysNothing
<1>4. CASE AcceptRequest(r)
  <2>1. floor' = [floor EXCEPT ![k] = r.gen] /\ lan' = NoTransfer /\ events' = old \o <<e>>
    BY <1>4 DEF ReceiveRequest
  <2>2. k \in Slots \X (1..MaxConn) /\ r.gen \in 0..MaxRequests /\ r.gen \in Nat
    BY <1>1, Bounds DEF Request
  <2>3. /\ floor \in [Slots \X (1..MaxConn) -> 0..MaxRequests]
        /\ floor' \in [Slots \X (1..MaxConn) -> 0..MaxRequests]
        /\ floor'[k] = r.gen /\ floor[k] < r.gen
        /\ \A j \in Slots \X (1..MaxConn) : j # k => floor'[j] = floor[j]
    BY <1>4, <2>1, <2>2, DeviceNow DEF HostType, LanType, AcceptRequest
  <2>4. e \in Event /\ e.kind = "Request" /\ e.request = r
    BY <1>1 DEF Event
  <2>5. /\ old \in Seq(Event) /\ events \in Seq(Event)
        /\ \A i \in DOMAIN old : \/ i \in DOMAIN events /\ old[i] = events[i]
                                 \/ old[i].kind = "Cancelled" /\ old[i].lease \in Taken
    <3>1. CASE lan.phase = "None"
      BY <3>1, TransferFields
    <3>2. CASE lan.phase # "None"
      <4>1. c \in Event /\ c.kind = "Cancelled" /\ c.lease \in Taken
        BY <3>2, LanKept, TakenLeases, DeviceNow DEF Event
      <4> HIDE DEF c
      <4>2. old = Append(events, c) /\ events \in Seq(Event)
        BY <3>2, TransferFields
      <4> HIDE DEF old
      <4>3. old \in Seq(Event) /\ DOMAIN old = 1..(Len(events) + 1) /\ Len(events) \in Nat
            /\ DOMAIN events = 1..Len(events)
            /\ \A i \in DOMAIN events : old[i] = events[i]
            /\ old[Len(events) + 1] = c
        BY <4>1, <4>2
      <4>4. \A i \in DOMAIN old : i \in DOMAIN events \/ i = Len(events) + 1
        <5>1. \A i \in 1..(Len(events) + 1) : i \in 1..Len(events) \/ i = Len(events) + 1
          <6> DEFINE n == Len(events)
          <6>1. n \in Nat
            BY <4>3
          <6> HIDE DEF n
          <6>2. \A i \in 1..(n + 1) : i \in 1..n \/ i = n + 1
            BY <6>1
          <6> QED
            BY <6>2 DEF n
        <5> QED
          BY <4>3, <5>1
      <4> QED
        BY <4>1, <4>2, <4>3, <4>4
    <3> QED
      BY <3>1, <3>2
  <2> HIDE DEF old, e, c, k
  <2>6. /\ events' \in Seq(Event) /\ DOMAIN events' = 1..(Len(old) + 1) /\ Len(old) \in Nat
        /\ DOMAIN old = 1..Len(old)
        /\ \A i \in DOMAIN old : events'[i] = old[i]
        /\ events'[Len(old) + 1] = e
    BY <2>1, <2>4, <2>5
  <2>7. UNCHANGED <<requestOf, nextLease, crashes, drained>>
    BY <1>1 DEF lanOnly, serveVars, history
  <2>8. EventInv'
    BY <2>4, <2>5, <2>6, <2>7 DEF PlaybackInv, EarnedInv, EventInv, Taken
  \* the last event is the request, every earlier request was there before
  <2>9. \A i \in DOMAIN events' : events'[i].kind = "Request" =>
          \/ i \in DOMAIN events /\ events'[i] = events[i]
          \/ i = Len(old) + 1 /\ events'[i] = e
    BY <2>5, <2>6
  <2>10. \A q \in Request : floor[<<q.slot, q.conn>>] <= floor'[<<q.slot, q.conn>>]
         /\ (q.gen <= floor[<<q.slot, q.conn>>] => q # r)
    <3> TAKE q \in Request
    <3>1. <<q.slot, q.conn>> \in Slots \X (1..MaxConn) /\ q.gen \in Nat
      BY Bounds DEF Request
    <3>2. floor[<<q.slot, q.conn>>] <= floor'[<<q.slot, q.conn>>]
      BY <2>2, <2>3, <3>1, Bounds
    <3>3. q.gen <= floor[<<q.slot, q.conn>>] => q # r
      BY <2>2, <2>3, <3>1, Bounds DEF k
    <3> QED
      BY <3>2, <3>3
  <2>11. /\ \A i \in DOMAIN events : events[i] \in Event
         /\ \A q \in Request : /\ <<q.slot, q.conn>> \in Slots \X (1..MaxConn) /\ q.gen \in Nat
                               /\ floor[<<q.slot, q.conn>>] \in Nat /\ floor'[<<q.slot, q.conn>>] \in Nat
    BY <2>3, <2>5, Bounds DEF Request
  <2>12. RequestInv'
    <3>1. SUFFICES ASSUME crashes = 0 PROVE RequestInv'
      BY <2>7 DEF RequestInv
    <3>2. /\ \A l \in Taken : requestOf[l] \in Request /\ requestOf[l].gen <= Floor(requestOf[l])
          /\ \A i \in DOMAIN events : events[i].kind = "Request" =>
               /\ events[i].request \in Request /\ events[i].request.gen <= Floor(events[i].request)
               /\ \A l \in Taken : requestOf[l] # events[i].request
          /\ \A i, j \in DOMAIN events :
               events[i].kind = "Request" /\ events[j].kind = "Request"
                 /\ events[i].request = events[j].request => i = j
          /\ \A l, n \in Taken : requestOf[l] = requestOf[n] => l = n
      BY <2>11, <3>1 DEF PlaybackInv, RequestInv, EarnedInv, ServeInv, Event
    <3>3. \A l \in Taken : requestOf[l].gen <= floor'[<<requestOf[l].slot, requestOf[l].conn>>]
                           /\ requestOf[l] # r
      BY <2>10, <2>11, <3>2 DEF Floor
    <3>4. \A i \in DOMAIN events' : events'[i].kind = "Request" =>
            /\ events'[i].request.gen <= floor'[<<events'[i].request.slot, events'[i].request.conn>>]
            /\ \A l \in Taken : requestOf[l] # events'[i].request
      <4> TAKE i \in DOMAIN events'
      <4>1. CASE i \in DOMAIN events /\ events'[i] = events[i]
        BY <2>10, <2>11, <3>2, <4>1 DEF Floor
      <4>2. CASE events'[i] = e
        BY <2>2, <2>3, <2>4, <3>3, <4>2 DEF k
      <4> QED
        BY <2>9, <4>1, <4>2
    <3>5. \A i \in DOMAIN events : events[i].kind = "Request" => events[i].request # r
      BY <2>10, <3>2 DEF Floor
    <3>6. \A i, j \in DOMAIN events' :
            events'[i].kind = "Request" /\ events'[j].kind = "Request"
              /\ events'[i].request = events'[j].request => i = j
      BY <2>4, <2>9, <3>2, <3>5
    <3> QED
      BY <2>7, <3>2, <3>3, <3>4, <3>6 DEF RequestInv, Floor, Taken
  <2>13. LanType' /\ LanInv'
    <3>1. TransferFits
      BY <2>1, TransferKept
    <3>2. UNCHANGED <<nextLease, heard>>
      BY <1>1 DEF lanOnly, serveVars
    <3> QED
      BY <1>2, <2>3, <3>1, <3>2, NoTransferIsOne DEF LanType, LanInv, TransferFits, RetiredFits, Taken
  <2>14. commands' \in Seq(Command) /\ CommandInv'
    BY <1>1, <1>2, CommandsShrink
  <2> DEFINE nothing == {}
  <2>15. net' \subseteq net \cup nothing /\ \A p \in nothing : p \in Message /\ True(p)
    BY <1>1
  <2> HIDE DEF nothing
  <2> QED
    BY <1>1, <2>6, <2>8, <2>12, <2>13, <2>14, <2>15, LanStep
<1> QED
  BY <1>3, <1>4

-----------------------------------------------------------------------------
(* Every step of the serve loop keeps the invariant. *)

\* What is said of a lease stays said while more leases are taken and more is heard.
LEMMA ServeFrame ==
  ASSUME PlaybackInv, UNCHANGED <<userVars, deviceVars, net, errors, history>>, Monotone,
         LanType', LanInv', ServeType', ServeInv', RequestInv',
         events' \in Seq(Event) /\ EventInv', commands' \in Seq(Command) /\ CommandInv'
  PROVE  PlaybackInv'
<1>1. UNCHANGED <<conn, lastConn, nextRequest, slots, dev, net, errors, drained, forgotten>>
  BY DEF userVars, deviceVars, history
<1>2. UserType' /\ HistoryType' /\ DeviceType'
  BY <1>1, DeviceNow DEF UserType, HistoryType, DeviceType
<1>3. DeviceIsConsistent'
  BY <1>1 DEF PlaybackInv, DeviceIsConsistent, SlotsFollowTransfer, TalkingIsExclusive
<1>4. dev.lease < nextLease'
  BY DeviceNow, DeviceFields DEF Sound, Fit, Monotone, ServeType
<1>5. DeviceInv'
  BY <1>1, <1>4, DeviceNow DEF Sound, Fit, DeviceInv
<1> DEFINE nothing == {}
<1>6. net' \subseteq net \cup nothing /\ \A p \in nothing : p \in Message /\ True(p)
  BY <1>1
<1> HIDE DEF nothing
<1>7. NetType' /\ NetInv'
  BY <1>6, NetKeeps, DeviceNow DEF PlaybackInv
<1>8. TypeOK'
  BY <1>2, <1>7, TypeParts DEF HostType, QueueType
<1> QED
  BY <1>3, <1>5, <1>7, <1>8 DEF PlaybackInv, EarnedInv

\* The loop itself leaves the transfer of the other thread alone.
LEMMA ServeStep ==
  ASSUME PlaybackInv, serveOnly, Monotone, ServeType', ServeInv', RequestInv',
         events' \in Seq(Event) /\ EventInv', commands' \in Seq(Command) /\ CommandInv'
  PROVE  PlaybackInv'
<1>1. UNCHANGED <<userVars, deviceVars, net, errors, history, lan, retired, floor>>
  BY DEF serveOnly, lanVars
<1>2. LanType'
  BY <1>1, DeviceNow DEF HostType, LanType
<1>3. LanInv'
  BY <1>1, DeviceNow DEF PlaybackInv, EarnedInv, LanInv, Taken, Monotone, ServeType
<1> QED
  BY <1>1, <1>2, <1>3, ServeFrame

\* The first event is taken, what it says is so, the others move up.
LEMMA EventTaken ==
  ASSUME PlaybackInv, NEW k, NextEvent(k), serveOnly, Monotone, ServeType'
  PROVE  /\ events' \in Seq(Event) /\ EventInv' /\ 1 \in DOMAIN events /\ Head(events) = events[1]
         /\ Head(events).kind = k /\ Head(events) \in Event
         /\ \A i \in DOMAIN events' : /\ i + 1 \in DOMAIN events /\ i \in Nat /\ i # 0
                                      /\ events'[i] = events[i + 1]
<1>1. /\ events \in Seq(Event) /\ events # <<>> /\ events' = Tail(events) /\ Head(events).kind = k
  BY TransferFields DEF NextEvent
<1>2. /\ events' \in Seq(Event) /\ DOMAIN events = 1..Len(events) /\ Len(events) \in Nat
      /\ DOMAIN events' = 1..(Len(events) - 1) /\ Len(events) # 0
      /\ \A i \in DOMAIN events' : events'[i] = events[i + 1]
      /\ Head(events) = events[1]
  BY <1>1
<1>3. \A i \in DOMAIN events' : i + 1 \in DOMAIN events /\ i \in Nat /\ i # 0
  <2>1. SUFFICES ASSUME NEW i \in 1..(Len(events) - 1)
                 PROVE  i + 1 \in 1..Len(events) /\ i \in Nat /\ i # 0
    BY <1>2
  <2>2. Len(events) \in Nat
    BY <1>2
  <2> QED
    BY <2>2
<1>4. 1 \in DOMAIN events /\ Head(events) \in Event
  BY <1>1, <1>2
<1>5. EventInv'
  BY <1>2, <1>3, DeviceNow DEF PlaybackInv, EarnedInv, EventInv, Taken, Monotone, ServeType
<1> QED
  BY <1>1, <1>2, <1>3, <1>4, <1>5

\* As long as no new request is leased, the ones that wait are still fresh.
LEMMA RequestsKept ==
  ASSUME PlaybackInv, NEW k, NextEvent(k), serveOnly, Monotone, ServeType',
         UNCHANGED <<requestOf, nextLease>>
  PROVE  RequestInv'
<1>1. UNCHANGED <<requestOf, nextLease, floor, crashes>>
  BY DEF serveOnly, lanVars
<1>2. \A i \in DOMAIN events' : /\ i + 1 \in DOMAIN events /\ i \in Nat
                                /\ events'[i] = events[i + 1]
  BY EventTaken
<1>3. \A i, j \in DOMAIN events' : i + 1 = j + 1 => i = j
  BY <1>2
<1> QED
  BY <1>1, <1>2, <1>3 DEF PlaybackInv, RequestInv, Floor, Taken

\* Commands the loop may send.
Sayable(cs) ==
  cs \in Seq(Command) /\ \A i \in DOMAIN cs :
    cs[i].lease \in Taken' /\ (cs[i].kind = "FinishAck" => cs[i].lease \in heard')

LEMMA SayableConcat ==
  ASSUME NEW cs, NEW ds, Sayable(cs), Sayable(ds)
  PROVE  Sayable(cs \o ds)
<1>1. cs \in Seq(Command) /\ ds \in Seq(Command)
  BY DEF Sayable
<1>2. /\ cs \o ds \in Seq(Command) /\ Len(cs) \in Nat /\ Len(ds) \in Nat
      /\ DOMAIN cs = 1..Len(cs) /\ DOMAIN ds = 1..Len(ds)
      /\ DOMAIN (cs \o ds) = 1..(Len(cs) + Len(ds))
      /\ \A i \in DOMAIN (cs \o ds) : (cs \o ds)[i] = IF i <= Len(cs) THEN cs[i] ELSE ds[i - Len(cs)]
  BY <1>1
<1> DEFINE n == Len(cs)
           m == Len(ds)
<1>3. n \in Nat /\ m \in Nat
  BY <1>2
<1> HIDE DEF n, m
<1>4. \A i \in 1..(n + m) : (i <= n /\ i \in 1..n) \/ (~(i <= n) /\ i - n \in 1..m)
  BY <1>3
<1>5. \A i \in DOMAIN (cs \o ds) : \/ i \in DOMAIN cs /\ (cs \o ds)[i] = cs[i]
                                   \/ i - Len(cs) \in DOMAIN ds /\ (cs \o ds)[i] = ds[i - Len(cs)]
  BY <1>2, <1>4 DEF n, m
<1> QED
  BY <1>2, <1>5 DEF Sayable

LEMMA SayableNow ==
  ASSUME PlaybackInv, Monotone, ServeType'
  PROVE  Sayable(commands)
BY TransferFields, DeviceNow DEF PlaybackInv, EarnedInv, CommandInv, Sayable, Taken, Monotone, ServeType

LEMMA TakenLater ==
  ASSUME ServeType' PROVE \A l \in Taken' : l \in Leases
<1>1. nextLease' \in 1..(MaxLeases + 1) /\ MaxLeases \in Nat
  BY Bounds DEF ServeType
<1> DEFINE n == nextLease'
<1>2. n \in 1..(MaxLeases + 1) /\ MaxLeases \in Nat
  BY <1>1
<1> HIDE DEF n
<1>3. \A l \in 1..(n - 1) : l \in 1..MaxLeases
  BY <1>2
<1> QED
  BY <1>3 DEF n, Taken, Leases

LEMMA SayableOne ==
  ASSUME NEW k \in {"Start", "FinishAck", "Cancel"}, NEW l, l \in Taken', ServeType',
         k = "FinishAck" => l \in heard'
  PROVE  Sayable(<<Command1(k, l)>>)
<1> DEFINE c == Command1(k, l)
<1>1. l \in Leases
  BY TakenLater
<1>2. c \in Command /\ c.kind = k /\ c.lease = l
  BY <1>1 DEF Command1, Command
<1> HIDE DEF c
<1>3. Sayable(<<c>>)
  BY <1>2 DEF Sayable
<1> QED
  BY <1>3 DEF c

LEMMA SayableNothing == Sayable(<<>>)
BY DEF Sayable

LEMMA Said ==
  ASSUME Sayable(commands') PROVE commands' \in Seq(Command) /\ CommandInv'
BY DEF Sayable, CommandInv

\* What is in flight, as the store sees it.
LEMMA FlightFacts ==
  ASSUME PlaybackInv
  PROVE  /\ \A a \in active : a \in [lease: Leases, heard: BOOLEAN] /\ a.lease \in Taken
                              /\ (a.heard => a.lease \in heard)
         /\ \A a, b \in active : a = b
         /\ leased = {a.lease : a \in {b \in active : ~b.heard}}
         /\ leased \subseteq Taken /\ heard \subseteq Taken /\ drained \subseteq Taken
         /\ forgotten \subseteq heard /\ heard \subseteq drained /\ Taken \subseteq Leases
         /\ \A l \in Taken : requestOf[l] \in Request
         /\ requestOf \in [Leases -> Request \cup {NoRequest}]
         /\ nextLease \in 1..(MaxLeases + 1) /\ MaxLeases \in Nat /\ crashes \in 0..MaxCrashes
         /\ active \in SUBSET [lease: Leases, heard: BOOLEAN] /\ leased \in SUBSET Leases
         /\ heard \in SUBSET Leases
BY DeviceNow, TakenLeases, Bounds DEF PlaybackInv, EarnedInv, ServeInv, ServeType, Unheard

\* What begin_lan_playback releases is everything that was leased.
LEMMA ReleasesAll == ASSUME PlaybackInv PROVE leased \ Unheard(active) = {}
BY FlightFacts DEF Unheard

LEMMA ServeRequestPreserves ==
  ASSUME PlaybackInv, ServeRequest PROVE PlaybackInv'
<1> DEFINE r == Head(events).request
           Cancels == IF active = {} THEN <<>>
                      ELSE <<Command1("Cancel", (CHOOSE a \in active : TRUE).lease)>>
<1>1. NextEvent("Request") /\ serveOnly /\ UNCHANGED <<crashes, floor, drained, forgotten>>
  BY DEF ServeRequest, serveOnly, lanVars, history
<1>2. CASE UNCHANGED <<commands, serveVars>>
  <2>1. UNCHANGED <<commands, active, leased, requestOf, nextLease, heard>>
    BY <1>2 DEF serveVars
  <2>2. Monotone /\ ServeType' /\ ServeInv'
    BY <1>1, <2>1, FlightFacts, DeviceNow
       DEF Monotone, ServeType, PlaybackInv, EarnedInv, ServeInv, Taken, Unheard
  <2>3. Sayable(commands')
    BY <2>1, <2>2, SayableNow
  <2> QED
    BY <1>1, <2>1, <2>2, <2>3, EventTaken, RequestsKept, Said, ServeStep
<1>3. CASE /\ active' = {} /\ leased' = leased \ Unheard(active)
           /\ commands' = commands \o Cancels
           /\ UNCHANGED <<requestOf, nextLease, heard>>
  <2>1. leased' = {}
    BY <1>3, ReleasesAll
  <2>2. Monotone /\ ServeType'
    BY <1>1, <1>3, <2>1, FlightFacts DEF Monotone, ServeType
  <2>3. ServeInv'
    BY <1>1, <1>3, <2>1, FlightFacts DEF ServeInv, Taken, Unheard
  <2>4. Sayable(Cancels)
    <3>1. CASE active = {}
      BY <3>1, SayableNothing
    <3>2. CASE active # {}
      <4>1. PICK l \in Taken : Cancels = <<Command1("Cancel", l)>>
        BY <3>2, FlightFacts
      <4>2. l \in Taken'
        BY <1>3 DEF Taken
      <4> QED
        BY <2>2, <4>1, <4>2, SayableOne
    <3> QED
      BY <3>1, <3>2
  <2> HIDE DEF Cancels
  <2>5. Sayable(commands')
    BY <1>3, <2>2, <2>4, SayableNow, SayableConcat
  <2> QED
    BY <1>1, <1>3, <2>2, <2>3, <2>5, EventTaken, RequestsKept, Said, ServeStep
<1>4. CASE /\ nextLease <= MaxLeases
           /\ active' = {[lease |-> nextLease, heard |-> FALSE]}
           /\ leased' = (leased \ Unheard(active)) \cup {nextLease}
           /\ commands' = commands \o Cancels \o <<Command1("Start", nextLease)>>
           /\ requestOf' = [requestOf EXCEPT ![nextLease] = r]
           /\ nextLease' = nextLease + 1
           /\ UNCHANGED heard
  <2>1. leased' = {nextLease} /\ nextLease \in Leases /\ nextLease \notin Taken
    BY <1>4, ReleasesAll, FlightFacts DEF Leases, Taken
  <2>2. Taken' = Taken \cup {nextLease}
    BY <1>4, FlightFacts DEF Taken
  <2>3. r \in Request /\ 1 \in DOMAIN events /\ events[1].kind = "Request" /\ events[1].request = r
    <3>1. events # <<>> /\ events \in Seq(Event) /\ Head(events).kind = "Request"
      BY <1>1, TransferFields DEF NextEvent
    <3>2. 1 \in DOMAIN events /\ Head(events) = events[1] /\ Head(events) \in Event
      BY <3>1
    <3> QED
      BY <3>1, <3>2 DEF Event
  <2> HIDE DEF r
  <2>4. /\ requestOf' \in [Leases -> Request \cup {NoRequest}] /\ requestOf'[nextLease] = r
        /\ \A l \in Taken : requestOf'[l] = requestOf[l]
    BY <1>4, <2>1, <2>3, FlightFacts
  <2>5. active' \in SUBSET [lease: Leases, heard: BOOLEAN]
    <3>1. [lease |-> nextLease, heard |-> FALSE] \in [lease: Leases, heard: BOOLEAN]
      BY <2>1
    <3> QED
      BY <1>4, <3>1
  <2>6. Monotone /\ ServeType'
    <3>1. nextLease' \in 1..(MaxLeases + 1) /\ nextLease <= nextLease'
      BY <1>4, FlightFacts
    <3> QED
      BY <1>1, <1>4, <2>1, <2>4, <2>5, <3>1, FlightFacts DEF Monotone, ServeType
  <2>7. ServeInv'
    <3>1. \A a, b \in active' : a = b
      BY <1>4
    <3>2. \A a \in active' : a.lease \in Taken' /\ (a.heard => a.lease \in heard')
      BY <1>4, <2>2
    <3>3. leased' = Unheard(active')
      <4>1. \A a \in active' : a.lease = nextLease /\ ~a.heard
        BY <1>4
      <4>2. [lease |-> nextLease, heard |-> FALSE] \in active'
        BY <1>4
      <4> QED
        BY <2>1, <4>1, <4>2 DEF Unheard
    <3>4. forgotten' \subseteq heard' /\ heard' \subseteq drained' /\ drained' \subseteq Taken'
      BY <1>1, <1>4, <2>2, FlightFacts
    <3>5. \A l \in Taken' : requestOf'[l] \in Request
      BY <2>2, <2>3, <2>4, FlightFacts
    <3> QED
      BY <3>1, <3>2, <3>3, <3>4, <3>5 DEF ServeInv, Unheard
  <2>8. EventInv' /\ events' \in Seq(Event)
        /\ \A i \in DOMAIN events' : /\ i + 1 \in DOMAIN events /\ i \in Nat /\ i # 0
                                     /\ events'[i] = events[i + 1]
    BY <1>1, <2>6, EventTaken
  \* the request leased now was waiting once, and none of the others is its equal
  <2>9. RequestInv'
    <3>1. SUFFICES ASSUME crashes = 0 PROVE RequestInv'
      BY <1>1 DEF RequestInv
    <3>2. /\ \A l \in Taken : requestOf[l].gen <= Floor(requestOf[l])
          /\ \A i \in DOMAIN events : events[i].kind = "Request" =>
               /\ events[i].request.gen <= Floor(events[i].request)
               /\ \A l \in Taken : requestOf[l] # events[i].request
          /\ \A i, j \in DOMAIN events :
               events[i].kind = "Request" /\ events[j].kind = "Request"
                 /\ events[i].request = events[j].request => i = j
          /\ \A l, n \in Taken : requestOf[l] = requestOf[n] => l = n
      BY <3>1 DEF PlaybackInv, RequestInv
    <3>3. r.gen <= Floor(r) /\ \A l \in Taken : requestOf[l] # r
      BY <2>3, <3>2
    <3>4. \A l \in Taken' : requestOf'[l].gen <= Floor(requestOf'[l])
      BY <2>2, <2>4, <3>2, <3>3
    <3>5. \A i \in DOMAIN events' : events'[i].kind = "Request" => events'[i].request # r
      <4>1. \A i \in DOMAIN events' : i + 1 # 1
        BY <2>8
      <4> QED
        BY <2>3, <2>8, <3>2, <4>1
    <3>6. \A i \in DOMAIN events' : events'[i].kind = "Request" =>
            /\ events'[i].request.gen <= Floor(events'[i].request)
            /\ \A l \in Taken' : requestOf'[l] # events'[i].request
      BY <2>2, <2>4, <2>8, <3>2, <3>5
    <3>7. \A i, j \in DOMAIN events' :
            events'[i].kind = "Request" /\ events'[j].kind = "Request"
              /\ events'[i].request = events'[j].request => i = j
      <4>1. \A i, j \in DOMAIN events' : i + 1 = j + 1 => i = j
        BY <2>8
      <4> QED
        BY <2>8, <3>2, <4>1
    <3>8. \A l, n \in Taken' : requestOf'[l] = requestOf'[n] => l = n
      BY <2>2, <2>4, <3>2, <3>3
    <3> QED
      BY <1>1, <3>4, <3>6, <3>7, <3>8 DEF RequestInv, Floor
  <2>10. Sayable(Cancels)
    <3>1. CASE active = {}
      BY <3>1, SayableNothing
    <3>2. CASE active # {}
      <4>1. PICK l \in Taken : Cancels = <<Command1("Cancel", l)>>
        BY <3>2, FlightFacts
      <4>2. l \in Taken'
        BY <2>2
      <4> QED
        BY <2>6, <4>1, <4>2, SayableOne
    <3> QED
      BY <3>1, <3>2
  <2> HIDE DEF Cancels
  <2>11. Sayable(<<Command1("Start", nextLease)>>)
    <3>1. nextLease \in Taken'
      BY <2>2
    <3> QED
      BY <2>6, <3>1, SayableOne
  <2>12. Sayable(commands')
    <3>1. Sayable(commands \o Cancels)
      BY <2>6, <2>10, SayableNow, SayableConcat
    <3> QED
      BY <1>4, <2>11, <3>1, SayableConcat
  <2> QED
    BY <1>1, <2>6, <2>7, <2>8, <2>9, <2>12, Said, ServeStep
<1> QED
  BY <1>2, <1>3, <1>4 DEF ServeRequest

LEMMA ServeFinishedPreserves ==
  ASSUME PlaybackInv, ServeFinished PROVE PlaybackInv'
<1> DEFINE l == Head(events).lease
<1>1. /\ NextEvent("Finished") /\ serveOnly /\ UNCHANGED <<requestOf, nextLease, drained, forgotten, crashes>>
  BY DEF ServeFinished, serveOnly, history
<1>2. l \in Taken /\ l \in drained
  <2>1. events # <<>> /\ events \in Seq(Event) /\ Head(events).kind = "Finished"
    BY <1>1, TransferFields DEF NextEvent
  <2>2. 1 \in DOMAIN events /\ Head(events) = events[1]
    BY <2>1
  <2> QED
    BY <2>1, <2>2 DEF PlaybackInv, EarnedInv, EventInv
<1>3. l \in Leases /\ Taken' = Taken
  BY <1>1, <1>2, FlightFacts DEF Taken
<1> HIDE DEF l
<1>4. CASE UNCHANGED <<commands, active, leased, heard>>
  <2>1. Monotone /\ ServeType' /\ ServeInv'
    BY <1>1, <1>4, FlightFacts, DeviceNow
       DEF Monotone, ServeType, PlaybackInv, EarnedInv, ServeInv, Taken, Unheard
  <2>2. Sayable(commands')
    BY <1>4, <2>1, SayableNow
  <2> QED
    BY <1>1, <2>1, <2>2, EventTaken, RequestsKept, Said, ServeStep
\* whatever comes of it, the summary is no longer leased
<1>5. CASE /\ \E a \in active : a.lease = l
           /\ leased' = leased \ {l} /\ heard' = heard \cup {l}
           /\ \/ /\ active' = {a \in active : a.lease # l}
                 /\ commands' = Append(commands, Command1("FinishAck", l))
              \/ /\ active' = {a \in active : a.lease # l} \cup {[lease |-> l, heard |-> TRUE]}
                 /\ UNCHANGED commands
  <2>1. leased' = {} /\ {a \in active : a.lease # l} = {}
    BY <1>5, FlightFacts
  <2>2. [lease |-> l, heard |-> TRUE] \in [lease: Leases, heard: BOOLEAN]
    BY <1>3
  <2>3. active' = {} \/ active' = {[lease |-> l, heard |-> TRUE]}
    BY <1>5, <2>1
  <2>4. Monotone /\ ServeType'
    <3>1. heard' \in SUBSET Leases /\ active' \in SUBSET [lease: Leases, heard: BOOLEAN]
      BY <1>3, <1>5, <2>2, <2>3, FlightFacts
    <3>2. nextLease <= nextLease'
      BY <1>1, FlightFacts
    <3> QED
      BY <1>1, <1>5, <2>1, <3>1, <3>2, FlightFacts DEF Monotone, ServeType
  <2>5. ServeInv'
    <3>1. \A a, b \in active' : a = b
      BY <2>3
    <3>2. \A a \in active' : a.lease = l /\ a.heard
      BY <2>3
    <3>3. Unheard(active') = {}
      BY <3>2 DEF Unheard
    <3>4. forgotten' \subseteq heard' /\ heard' \subseteq drained' /\ drained' \subseteq Taken'
      BY <1>1, <1>2, <1>3, <1>5, FlightFacts
    <3>5. \A n \in Taken' : requestOf'[n] \in Request
      BY <1>1, <1>3, FlightFacts
    <3> QED
      BY <1>2, <1>3, <1>5, <2>1, <3>1, <3>2, <3>3, <3>4, <3>5 DEF ServeInv, Unheard
  <2>6. Sayable(commands')
    <3>1. Sayable(<<Command1("FinishAck", l)>>)
      BY <1>2, <1>3, <1>5, <2>4, SayableOne
    <3>2. Sayable(commands \o <<Command1("FinishAck", l)>>) /\ Sayable(commands)
      BY <2>4, <3>1, SayableNow, SayableConcat
    <3>3. commands \in Seq(Command) /\ Command1("FinishAck", l) \in Command
      BY <1>3, TransferFields DEF Command1, Command
    <3>4. Append(commands, Command1("FinishAck", l)) = commands \o <<Command1("FinishAck", l)>>
      BY <3>3
    <3> QED
      BY <1>5, <3>2, <3>4
  <2> QED
    BY <1>1, <2>4, <2>5, <2>6, EventTaken, RequestsKept, Said, ServeStep
<1> QED
  BY <1>4, <1>5 DEF ServeFinished, l

LEMMA ServeCancelledPreserves ==
  ASSUME PlaybackInv, ServeCancelled PROVE PlaybackInv'
<1> DEFINE l == Head(events).lease
<1>1. /\ NextEvent("Cancelled") /\ serveOnly
      /\ UNCHANGED <<commands, requestOf, nextLease, heard, drained, forgotten, crashes>>
      /\ active' = {a \in active : a.lease # l}
      /\ leased' = leased \ ({l} \cap Unheard(active))
  BY DEF ServeCancelled, serveOnly, history
<1> HIDE DEF l
<1>2. Monotone /\ ServeType'
  BY <1>1, FlightFacts DEF Monotone, ServeType
<1>3. ServeInv'
  <2>1. leased' = Unheard(active')
    BY <1>1, FlightFacts DEF Unheard
  <2> QED
    BY <1>1, <2>1, FlightFacts DEF ServeInv, Taken, Unheard
<1>4. Sayable(commands')
  BY <1>1, <1>2, SayableNow
<1> QED
  BY <1>1, <1>2, <1>3, <1>4, EventTaken, RequestsKept, Said, ServeStep

\* After a restart nothing is leased, nothing is under way, and requests may be leased again.
LEMMA HostRestartsPreserves ==
  ASSUME PlaybackInv, HostRestarts PROVE PlaybackInv'
<1>1. /\ UNCHANGED <<userVars, deviceVars, net, errors, history>>
      /\ UNCHANGED <<requestOf, nextLease, heard, drained, forgotten>>
      /\ lan' = NoTransfer /\ retired' = [finish |-> 0, cancel |-> 0]
      /\ floor' = [k \in Slots \X (1..MaxConn) |-> 0]
      /\ events' = <<>> /\ commands' = <<>> /\ active' = {} /\ leased' = {}
      /\ crashes < MaxCrashes /\ crashes' = crashes + 1
  BY DEF HostRestarts, history
<1>2. Monotone
  BY <1>1, FlightFacts DEF Monotone
<1>3. crashes' \in 0..MaxCrashes /\ crashes' # 0
  BY <1>1, FlightFacts, Bounds
<1>4. ServeType'
  BY <1>1, <1>3, FlightFacts DEF ServeType
<1>5. ServeInv'
  BY <1>1, FlightFacts DEF ServeInv, Taken, Unheard
<1>6. LanType'
  <2>1. [k \in Slots \X (1..MaxConn) |-> 0] \in [Slots \X (1..MaxConn) -> 0..MaxRequests]
    BY Bounds
  <2>2. [finish |-> 0, cancel |-> 0] \in [finish: 0..MaxLeases, cancel: 0..MaxLeases]
    BY Zeros
  <2> QED
    BY <1>1, <2>1, <2>2, NoTransferIsOne DEF LanType
<1>7. LanInv'
  BY <1>1, NoTransferIsOne DEF LanInv
<1>8. /\ events' \in Seq(Event) /\ EventInv' /\ commands' \in Seq(Command) /\ CommandInv'
  BY <1>1 DEF EventInv, CommandInv
<1>9. RequestInv'
  BY <1>3 DEF RequestInv
<1> QED
  BY <1>1, <1>2, <1>4, <1>5, <1>6, <1>7, <1>8, <1>9, ServeFrame

-----------------------------------------------------------------------------
(* The invariant holds throughout. *)

LEMMA InitEstablishes == Init => PlaybackInv
<1> SUFFICES ASSUME Init PROVE PlaybackInv
  OBVIOUS
<1>1. UserType /\ NetType /\ HistoryType /\ QueueType /\ errors \in 0..MaxErrors
  BY Bounds DEF Init, UserType, NetType, HistoryType, QueueType
<1>2. Taken = {}
  BY DEF Init, Taken
<1>3. /\ slots \in SlotStates /\ slots.phase = "Idle" /\ ~slots.capture
      /\ dev \in Device /\ dev.phase = "Idle" /\ dev.deferred = NoRequest
      /\ dev.lease = 0 /\ dev.received = 0
  <2>1. IdleSlots \in SlotStates /\ IdleSlots.phase = "Idle" /\ ~IdleSlots.capture
    BY Bounds DEF IdleSlots, SlotStates, SlotPhases
  <2>2. /\ IdleDevice \in Device /\ IdleDevice.phase = "Idle" /\ IdleDevice.deferred = NoRequest
        /\ IdleDevice.lease = 0 /\ IdleDevice.received = 0
    BY IdleDeviceIsOne DEF IdleDevice
  <2> QED
    BY <2>1, <2>2 DEF Init
<1>4. ServeType
  BY Bounds DEF Init, ServeType
<1>5. LanType
  <2>1. [k \in Slots \X (1..MaxConn) |-> 0] \in [Slots \X (1..MaxConn) -> 0..MaxRequests]
    BY Bounds
  <2>2. [finish |-> 0, cancel |-> 0] \in [finish: 0..MaxLeases, cancel: 0..MaxLeases]
    BY Zeros
  <2> QED
    BY <2>1, <2>2, NoTransferIsOne DEF Init, LanType
<1>6. TypeOK
  BY <1>1, <1>3, <1>4, <1>5, TypeParts DEF DeviceType, HostType
<1>7. NetInv /\ EventInv /\ CommandInv /\ LanInv
  BY NoTransferIsOne DEF Init, NetInv, EventInv, CommandInv, LanInv
<1>8. ServeInv
  BY <1>2 DEF Init, ServeInv, Unheard
<1>9. RequestInv
  BY <1>2 DEF Init, RequestInv
<1>10. DeviceInv
  BY <1>3, <1>4 DEF Init, DeviceInv, ServeType
<1>11. DeviceIsConsistent
  BY <1>3 DEF DeviceIsConsistent, SlotsFollowTransfer, TalkingIsExclusive
<1> QED
  BY <1>6, <1>7, <1>8, <1>9, <1>10, <1>11 DEF PlaybackInv, EarnedInv

LEMMA StutterPreserves ==
  ASSUME PlaybackInv, UNCHANGED vars PROVE PlaybackInv'
<1>1. /\ UNCHANGED <<userVars, deviceVars, net, errors, history, lan, retired, floor, events, commands>>
      /\ UNCHANGED <<active, leased, requestOf, nextLease, heard, crashes, drained, forgotten>>
  BY DEF vars, lanVars, serveVars, history
<1>2. Monotone /\ ServeType' /\ ServeInv'
  BY <1>1, FlightFacts, DeviceNow
     DEF Monotone, ServeType, PlaybackInv, EarnedInv, ServeInv, Taken, Unheard
<1>3. LanType' /\ LanInv'
  BY <1>1, DeviceNow DEF HostType, LanType, PlaybackInv, EarnedInv, LanInv, Taken
<1>4. events' \in Seq(Event) /\ EventInv' /\ commands' \in Seq(Command) /\ CommandInv' /\ RequestInv'
  BY <1>1, TransferFields
     DEF PlaybackInv, EarnedInv, EventInv, CommandInv, RequestInv, Floor, Taken
<1> QED
  BY <1>1, <1>2, <1>3, <1>4, ServeFrame

LEMMA NextPreserves == PlaybackInv /\ [Next]_vars => PlaybackInv'
<1> SUFFICES ASSUME PlaybackInv, [Next]_vars PROVE PlaybackInv'
  OBVIOUS
<1>1. CASE Keys
  BY <1>1, PressPlayPreserves, PressTalkPreserves, ReleaseTalkPreserves, RouteChangesPreserves DEF Keys
<1>2. CASE \E m \in net : Lose(m)
  BY <1>2, LosePreserves
<1>3. CASE \E m \in net : DeviceReceives(m)
  BY <1>3, ReceiveBeginPreserves, OldDataPreserves, ReceiveNextPreserves, ReceiveCommitPreserves
     DEF DeviceReceives, ReceiveData
<1>4. CASE \E m \in net : LanReceives(m)
  BY <1>4, ReceiveRequestPreserves, LateAnswersPreserve, ReceiveGapAckPreserves,
     ReceiveRefusalPreserves, ReceiveBeginAckPreserves, ReceiveDataAckPreserves,
     ReceiveFinishedPreserves DEF LanReceives
<1>5. CASE SpeakerOrPoll \/ DeviceTimers \/ DeviceFails \/ DeviceReboots
  BY <1>5, SpeakerEndsPreserves, PollDrainedPreserves, PollSpeakerFailedPreserves,
     DeviceRetriesPreserves, DeviceTimesOutPreserves, DeviceCleansUpPreserves,
     DeviceFailsPreserves, DeviceRebootsPreserves DEF SpeakerOrPoll, DeviceTimers
<1>6. CASE LanResends \/ LanGivesUp \/ RetiredExpires
  BY <1>6, LanResendsPreserves, LanGivesUpPreserves, RetiredExpiresPreserves
<1>7. CASE HandleCommand
  BY <1>7, HandleStartPreserves, HandleStartFailsPreserves, HandleFinishAckPreserves,
     HandleCancelPreserves DEF HandleCommand
<1>8. CASE ServeNext \/ HostRestarts
  BY <1>8, ServeRequestPreserves, ServeFinishedPreserves, ServeCancelledPreserves,
     HostRestartsPreserves DEF ServeNext
<1>9. CASE UNCHANGED vars
  BY <1>9, StutterPreserves
<1> QED
  BY <1>1, <1>2, <1>3, <1>4, <1>5, <1>6, <1>7, <1>8, <1>9 DEF Next

\* Device, network, LAN thread and serve loop stay within what the code declares and agree about
\* every lease, in every reachable state.
THEOREM Invariance == Spec => []PlaybackInv
BY InitEstablishes, NextPreserves, PTL DEF Spec

\* Every record, counter, queue and datagram stays within its declared domain: no window reaches
\* beyond the object, no retry counter beyond its limit.
THEOREM TypeCorrect == Spec => []TypeOK
<1>1. PlaybackInv => TypeOK
  BY DEF PlaybackInv
<1> QED
  BY <1>1, Invariance, PTL

\* A summary is heard only after its last sample has been played, the device forgets only what
\* is heard, and one key press takes one lease.
THEOREM PlaybacksEarned == Spec => []PlaybacksAreEarned
<1>1. PlaybackInv => PlaybacksAreEarned
  BY DEF PlaybackInv, EarnedInv, ServeInv, RequestInv, PlaybacksAreEarned, HeardOnlyIfDrained,
         ForgottenOnlyIfHeard, RequestLeasedOnce, Taken
<1> QED
  BY <1>1, Invariance, PTL

\* What the keys mean and what is transferred never disagree, and talking excludes playback.
THEOREM KeysFollowDevice == Spec => []DeviceIsConsistent
<1>1. PlaybackInv => DeviceIsConsistent
  BY DEF PlaybackInv
<1> QED
  BY <1>1, Invariance, PTL

-----------------------------------------------------------------------------
(* What the mailbox sees implements Listening. *)

LEMMA InitImplements == Init => Promise!Init
BY DEF Init, Promise!Init

\* Keys, packets, timers and the LAN thread touch neither the leases nor what is heard.
Apart == UNCHANGED <<leased, drained, heard>>

LEMMA OthersAreApart ==
  ASSUME NEW m, \/ Keys \/ Lose(m) \/ DeviceReceives(m) \/ LanReceives(m) \/ PollDrained
                \/ PollSpeakerFailed \/ DeviceTimers \/ DeviceFails \/ DeviceReboots
                \/ LanResends \/ LanGivesUp \/ RetiredExpires \/ HandleCommand
  PROVE  Apart
<1>1. CASE Keys
  BY <1>1 DEF Keys, PressPlay, PressTalk, ReleaseTalk, RouteChanges, deviceOnly, hostSide, serveVars,
              history, Apart
<1>2. CASE Lose(m)
  BY <1>2 DEF Lose, serveVars, history, Apart
<1>3. CASE DeviceReceives(m)
  BY <1>3 DEF DeviceReceives, ReceiveData, ReceiveBegin, ReceiveOldData, ReceiveGap, ReceiveNext,
              ReceiveCommit, fromDevice, deviceOnly, hostSide, serveVars, history, Apart
<1>4. CASE LanReceives(m)
  <2>1. lanOnly
    BY <1>4 DEF LanReceives, ReceiveRequest, ReceiveLateCancel, ReceiveGapAck, ReceiveRefusal,
                ReceiveBeginAck, ReceiveDataAck, ReceiveFinished, ReceiveLateFinished
  <2> QED
    BY <2>1 DEF lanOnly, serveVars, history, Apart
<1>5. CASE PollDrained \/ PollSpeakerFailed \/ DeviceTimers \/ DeviceFails \/ DeviceReboots
  BY <1>5 DEF PollDrained, PollSpeakerFailed, DeviceTimers, DeviceRetries, DeviceTimesOut,
              DeviceCleansUp, DeviceFails, DeviceReboots, fromDevice, deviceOnly, hostSide,
              serveVars, history, Apart
<1>6. CASE LanResends \/ LanGivesUp \/ RetiredExpires \/ HandleCommand
  <2>1. lanOnly
    BY <1>6 DEF LanResends, LanGivesUp, RetiredExpires, HandleCommand, HandleStart,
                HandleStartFails, HandleFinishAck, HandleCancel
  <2> QED
    BY <2>1 DEF lanOnly, serveVars, history, Apart
<1> QED
  BY <1>1, <1>2, <1>3, <1>4, <1>5, <1>6

\* The last sample of the running transfer drains its lease.
LEMMA SpeakerImplements ==
  ASSUME PlaybackInv, NEW result, SpeakerEnds(result)
  PROVE  Apart \/ Promise!Next
<1>1. UNCHANGED <<leased, heard>>
  BY DEF SpeakerEnds, fromDevice, deviceOnly, hostSide, serveVars
<1>2. CASE result # "played"
  BY <1>1, <1>2 DEF SpeakerEnds, Apart
<1>3. CASE result = "played"
  <2>1. dev.lease \in Leases /\ drained' = drained \cup {dev.lease}
    BY <1>3, DeviceNow, DeviceFields, Bounds DEF SpeakerEnds, Sound, Fit, Leases
  <2>2. Promise!Drain(dev.lease)
    BY <1>1, <2>1 DEF Promise!Drain
  <2> QED
    BY <2>1, <2>2 DEF Promise!Next
<1> QED
  BY <1>2, <1>3

\* A request ends what is leased, and may lease a summary that never was.
LEMMA RequestImplements ==
  ASSUME PlaybackInv, ServeRequest
  PROVE  Apart \/ Promise!Next
<1>1. UNCHANGED drained
  BY DEF ServeRequest, serveOnly, history
<1>2. CASE UNCHANGED serveVars
  BY <1>1, <1>2 DEF serveVars, Apart
<1>3. CASE leased' = leased \ Unheard(active) /\ UNCHANGED heard
  <2>1. Promise!Release
    BY <1>1, <1>3, ReleasesAll DEF Promise!Release
  <2> QED
    BY <2>1 DEF Promise!Next
<1>4. CASE /\ nextLease <= MaxLeases /\ leased' = (leased \ Unheard(active)) \cup {nextLease}
           /\ UNCHANGED heard
  <2>1. nextLease \in Leases /\ nextLease \notin Taken
    BY <1>4, FlightFacts DEF Leases, Taken
  <2>2. Promise!Take(nextLease)
    BY <1>1, <1>4, <2>1, ReleasesAll, FlightFacts DEF Promise!Take
  <2> QED
    BY <2>1, <2>2 DEF Promise!Next
<1> QED
  BY <1>2, <1>3, <1>4 DEF ServeRequest

\* A commit hears a drained lease that still holds, once.
LEMMA FinishedImplements ==
  ASSUME PlaybackInv, ServeFinished
  PROVE  Apart \/ Promise!Next
<1> DEFINE l == Head(events).lease
<1>1. UNCHANGED drained
  BY DEF ServeFinished, serveOnly, history
<1>2. l \in Leases /\ l \in drained
  <2>1. events # <<>> /\ events \in Seq(Event) /\ Head(events).kind = "Finished"
    BY TransferFields DEF ServeFinished, NextEvent
  <2>2. 1 \in DOMAIN events /\ Head(events) = events[1]
    BY <2>1
  <2> QED
    BY <2>1, <2>2, FlightFacts DEF PlaybackInv, EarnedInv, EventInv
<1> HIDE DEF l
<1>3. CASE UNCHANGED <<leased, heard>>
  BY <1>1, <1>3 DEF Apart
<1>4. CASE (\E a \in active : a.lease = l) /\ leased' = leased \ {l} /\ heard' = heard \cup {l}
  <2>1. PICK a \in active : a.lease = l
    BY <1>4
  <2>2. CASE a.heard
    <3>1. l \in heard /\ leased' = leased
      BY <1>4, <2>1, <2>2, FlightFacts
    <3> QED
      BY <1>1, <1>4, <3>1 DEF Apart
  <2>3. CASE ~a.heard
    <3>1. l \in leased
      BY <2>1, <2>3, FlightFacts
    <3>2. Promise!Hear(l)
      BY <1>1, <1>2, <1>4, <3>1 DEF Promise!Hear, Promise!Ends
    <3> QED
      BY <1>2, <3>2 DEF Promise!Next
  <2> QED
    BY <2>2, <2>3
<1> QED
  BY <1>3, <1>4 DEF ServeFinished, l

LEMMA EndsImplement ==
  ASSUME PlaybackInv, ServeCancelled \/ HostRestarts
  PROVE  Apart \/ Promise!Next
<1>1. UNCHANGED <<drained, heard>>
  BY DEF ServeCancelled, serveOnly, HostRestarts, history
<1>2. leased' = leased \/ leased' = {}
  <2>1. CASE ServeCancelled
    BY <2>1, FlightFacts DEF ServeCancelled, Unheard
  <2>2. CASE HostRestarts
    BY <2>2 DEF HostRestarts
  <2> QED
    BY <2>1, <2>2
<1>3. CASE leased' = leased
  BY <1>1, <1>3 DEF Apart
<1>4. CASE leased' = {}
  <2>1. Promise!Release
    BY <1>1, <1>4 DEF Promise!Release
  <2> QED
    BY <2>1 DEF Promise!Next
<1> QED
  BY <1>2, <1>3, <1>4

LEMMA NextImplements == PlaybackInv /\ [Next]_vars => [Promise!Next]_(Promise!vars)
<1> SUFFICES ASSUME PlaybackInv, [Next]_vars PROVE Apart \/ Promise!Next
  BY DEF Apart, Promise!vars
<1>1. CASE \/ Keys \/ (\E m \in net : Lose(m) \/ DeviceReceives(m) \/ LanReceives(m))
           \/ PollDrained \/ PollSpeakerFailed \/ DeviceTimers \/ DeviceFails \/ DeviceReboots
           \/ LanResends \/ LanGivesUp \/ RetiredExpires \/ HandleCommand
  BY <1>1, OthersAreApart
<1>2. CASE \E result \in {"played", "failed"} : SpeakerEnds(result)
  BY <1>2, SpeakerImplements
<1>3. CASE ServeNext \/ HostRestarts
  BY <1>3, RequestImplements, FinishedImplements, EndsImplement DEF ServeNext
<1>4. CASE UNCHANGED vars
  BY <1>4 DEF vars, serveVars, history, Apart
<1> QED
  BY <1>1, <1>2, <1>3, <1>4 DEF Next, SpeakerOrPoll

\* Host, network and device together are an implementation of Listening: one summary at a time,
\* heard only when it has been played to its end under a lease that still holds.
THEOREM ImplementsPromise == Spec => ImplementsListening
<1>1. Init => Promise!Init
  BY InitImplements
<1> QED
  BY <1>1, Invariance, NextImplements, PTL DEF Spec, ImplementsListening, Promise!Spec
=============================================================================
