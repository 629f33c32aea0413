----------------------------- MODULE LanPlayback -----------------------------
(***************************************************************************)
(* One spoken summary on its way from the Host to the keyboard and back:   *)
(*                                                                         *)
(*   - the device's main loop: CodexSlotState (what the keys mean) and     *)
(*     CodexLanPlayback (request, receive, speak, report);                 *)
(*   - the Host's LAN thread (lan_voice.rs ActiveLanPlayback), which sends *)
(*     the object in windows of chunks;                                    *)
(*   - the Host's serve loop (health.rs), which leases the summary in the  *)
(*     store and marks it heard.                                           *)
(*                                                                         *)
(* Thread and loop talk through two FIFO channels, Host and device over    *)
(* authenticated UDP, which loses, duplicates and reorders.  A message     *)
(* that fails authentication is not modelled.  A lease id stands for the   *)
(* whole playback identity, a request generation also for its nonce.  The  *)
(* ledger behind the leases is SummaryLedger's subject.                    *)
(***************************************************************************)
EXTENDS Integers, FiniteSets, Sequences

CONSTANTS
  Slots,        \* keyboard slots
  None,         \* no slot
  Chunks,       \* chunks of an object
  Window,       \* PLAYBACK_SEND_WINDOW_CHUNKS
  Prebuffer,    \* chunks received before the speaker starts
  MaxTries,     \* retries of the same message, on either side
  MaxRequests,  \* bound: playback keys pressed
  MaxLeases,    \* bound: leases ever taken
  MaxConn,      \* bound: Wi-Fi connection generations
  MaxCrashes,   \* bound: restarts of the Host
  MaxErrors,    \* bound: socket, memory and speaker errors of the device
  MaxInFlight,  \* bound: datagrams in flight
  MaxQueue      \* bound: events the serve loop has not handled

ASSUME SlotsAssumption == None \notin Slots
ASSUME SizesAssumption ==
  /\ Chunks \in Nat \ {0} /\ Window \in 1..Chunks /\ Prebuffer \in 1..Chunks
  /\ MaxTries \in Nat \ {0}
  /\ {MaxRequests, MaxLeases, MaxConn, MaxCrashes, MaxErrors, MaxInFlight, MaxQueue} \subseteq Nat

Leases == 1..MaxLeases

VARIABLES
  conn,        \* the device's connection generation, 0 while disconnected
  lastConn,    \* the last one used
  nextRequest, \* the device's request counter
  slots,       \* CodexSlotState
  dev,         \* CodexLanPlayback and the speaker it drives
  net,         \* datagrams in flight
  lan,         \* ActiveLanPlayback::transfer
  retired,     \* ActiveLanPlayback::retired_finish and retired_cancel
  floor,       \* ActiveLanPlayback::accepted_requests
  events,      \* channel from the LAN thread to the serve loop
  commands,    \* channel from the serve loop to the LAN thread
  active,      \* the serve loop's playbacks in flight
  leased,      \* lease rows in the store
  requestOf,   \* the request each lease was taken for
  nextLease,   \* the next fresh lease id
  heard,       \* leases whose summary has been marked heard
  crashes,     \* restarts of the Host
  errors,      \* errors of the device
  drained,     \* history: leases the speaker played to the last sample
  forgotten    \* history: leases the device dropped after the Host's acknowledgement

userVars == <<conn, lastConn, nextRequest>>
deviceVars == <<slots, dev>>
lanVars == <<lan, retired, floor>>
serveVars == <<active, leased, requestOf, nextLease, heard>>
history == <<drained, forgotten>>
vars == <<userVars, deviceVars, net, lanVars, events, commands, serveVars, crashes, errors, history>>

NoRequest == [slot |-> None, gen |-> 0, conn |-> 0]
Request == [slot: Slots, gen: 1..MaxRequests, conn: 1..MaxConn]
SlotPhases == {"Idle", "Buffering", "Playing", "TransferComplete", "FinishedPendingAck"}
DevPhases == {"Idle", "AwaitBegin", "Receiving", "Playing", "FinishedPendingAck", "Cancelling"}
LanPhases == {"None", "BeginAck", "DataAck", "DeviceFinished", "HostCommit"}
Device == [phase: DevPhases, request: Request \cup {NoRequest}, lease: 0..MaxLeases,
           received: 0..Chunks, speaker: {"quiet", "busy", "played", "failed"},
           deferred: Request \cup {NoRequest}, cancelAcked: BOOLEAN, tries: 0..MaxTries]
Message ==
       [kind: {"EIPR"}, request: Request]
  \cup [kind: {"EIPB", "EIPF"}, lease: Leases]
  \cup [kind: {"EIPD"}, lease: Leases, offset: 0..(Chunks - 1)]
  \cup [kind: {"EIPA"}, lease: Leases, status: 0..3, offset: 0..Chunks]
  \cup [kind: {"EIPK"}, lease: Leases, status: 0..1]
Event == [kind: {"Request"}, request: Request] \cup [kind: {"Finished", "Cancelled"}, lease: Leases]
Command == [kind: {"Start", "FinishAck", "Cancel"}, lease: Leases]

TypeOK ==
  /\ conn \in 0..MaxConn /\ lastConn \in 0..MaxConn /\ nextRequest \in 0..MaxRequests
  /\ slots \in [pending: Request \cup {NoRequest}, capture: BOOLEAN, phase: SlotPhases,
                lease: 0..MaxLeases]
  /\ dev \in Device
  /\ net \in SUBSET Message
  /\ lan \in [phase: LanPhases, lease: 0..MaxLeases, acked: 0..Chunks, sent: 0..Chunks,
              tries: 0..MaxTries]
  /\ retired \in [finish: 0..MaxLeases, cancel: 0..MaxLeases]
  /\ floor \in [Slots \X (1..MaxConn) -> 0..MaxRequests]
  /\ events \in Seq(Event) /\ commands \in Seq(Command)
  /\ active \in SUBSET [lease: Leases, heard: BOOLEAN]
  /\ leased \in SUBSET Leases /\ heard \in SUBSET Leases
  /\ requestOf \in [Leases -> Request \cup {NoRequest}]
  /\ nextLease \in 1..(MaxLeases + 1) /\ crashes \in 0..MaxCrashes /\ errors \in 0..MaxErrors
  /\ drained \in SUBSET Leases /\ forgotten \in SUBSET Leases

NoTransfer == [phase |-> "None", lease |-> 0, acked |-> 0, sent |-> 0, tries |-> 0]
IdleSlots == [pending |-> NoRequest, capture |-> FALSE, phase |-> "Idle", lease |-> 0]
IdleDevice == [phase |-> "Idle", request |-> NoRequest, lease |-> 0, received |-> 0,
               speaker |-> "quiet", deferred |-> NoRequest, cancelAcked |-> FALSE, tries |-> 0]

Init ==
  /\ conn = 0 /\ lastConn = 0 /\ nextRequest = 0
  /\ slots = IdleSlots /\ dev = IdleDevice
  /\ net = {}
  /\ lan = NoTransfer /\ retired = [finish |-> 0, cancel |-> 0]
  /\ floor = [k \in Slots \X (1..MaxConn) |-> 0]
  /\ events = <<>> /\ commands = <<>>
  /\ active = {} /\ leased = {} /\ heard = {}
  /\ requestOf = [l \in Leases |-> NoRequest] /\ nextLease = 1
  /\ crashes = 0 /\ errors = 0
  /\ drained = {} /\ forgotten = {}

-----------------------------------------------------------------------------
(* The network.  A datagram that arrives may arrive again; a burst that    *)
(* does not fit any more is lost.                                          *)

RequestPacket(r) == [kind |-> "EIPR", request |-> r]
BeginPacket(l) == [kind |-> "EIPB", lease |-> l]
DataPackets(l, from, to) == {[kind |-> "EIPD", lease |-> l, offset |-> o] : o \in from..(to - 1)}
AckPacket(l, status, offset) == [kind |-> "EIPA", lease |-> l, status |-> status, offset |-> offset]
FinishedPacket(l) == [kind |-> "EIPF", lease |-> l]
CommitPacket(l, status) == [kind |-> "EIPK", lease |-> l, status |-> status]

Add(flying, sent) == IF Cardinality(flying \cup sent) <= MaxInFlight THEN flying \cup sent ELSE flying
Send(sent) == net' = Add(net, sent)
Reply(m, sent) == \E flying \in {net, net \ {m}} : net' = Add(flying, sent)

Lose(m) ==
  /\ net' = net \ {m}
  /\ UNCHANGED <<userVars, deviceVars, lanVars, events, commands, serveVars, crashes, errors, history>>

-----------------------------------------------------------------------------
(* The keys (CodexSlotState) and what the main loop does with them.        *)

hostSide == <<lanVars, events, commands, serveVars, crashes>>
deviceOnly == UNCHANGED <<hostSide, errors>>

\* CodexLanPlayback::preempt: tell the Host, stop the speaker, forget a deferred request.
Cancelled(d) == IF d.phase = "Idle" THEN d
                ELSE [d EXCEPT !.phase = "Cancelling", !.deferred = NoRequest,
                               !.cancelAcked = FALSE, !.tries = 0]
CancelPackets(d) == IF d.phase # "Idle" /\ d.lease # 0
                    THEN {AckPacket(d.lease, 3, d.received)} ELSE {}

\* CodexLanPlayback::request: only one that finds the route up leaves the device.
Requesting(d, r) == [IdleDevice EXCEPT !.phase = "AwaitBegin", !.request = r, !.speaker = d.speaker]
Requested(d, r) ==
  IF d.phase = "Cancelling" THEN {[d EXCEPT !.deferred = r]}
  ELSE IF d.phase \in {"AwaitBegin", "Idle"}
  THEN {Requesting(d, r), [IdleDevice EXCEPT !.speaker = d.speaker]}
  ELSE {d}
RequestPackets(d) == IF d.phase = "AwaitBegin" THEN {RequestPacket(d.request)} ELSE {}

\* A playback key: a playback of another slot is preempted, one of this slot goes on.
PressPlay(s) ==
  LET r == [slot |-> s, gen |-> nextRequest + 1, conn |-> conn]
      before == IF slots.phase = "Idle" THEN dev ELSE Cancelled(dev)
  IN /\ conn # 0 /\ ~slots.capture /\ nextRequest < MaxRequests
     /\ slots.phase # "Idle" => requestOf[slots.lease].slot # s
     /\ nextRequest' = nextRequest + 1
     /\ slots' = [IdleSlots EXCEPT !.pending = r]
     /\ \E after \in Requested(before, r) :
          /\ dev' = after
          /\ Send(RequestPackets(after) \cup IF slots.phase = "Idle" THEN {} ELSE CancelPackets(dev))
     /\ deviceOnly /\ UNCHANGED <<conn, lastConn, history>>

\* A push-to-talk key preempts whatever plays or is about to.
PressTalk ==
  /\ conn # 0 /\ ~slots.capture
  /\ slots' = [IdleSlots EXCEPT !.capture = TRUE]
  /\ dev' = Cancelled(dev)
  /\ Send(CancelPackets(dev))
  /\ deviceOnly /\ UNCHANGED <<userVars, history>>

ReleaseTalk ==
  /\ slots.capture
  /\ slots' = [slots EXCEPT !.capture = FALSE]
  /\ deviceOnly /\ UNCHANGED <<userVars, dev, net, history>>

\* reconcile_codex_route_lifetime: another connection generation ends what the old one began.
RouteChanges(c) ==
  /\ c \in {0, lastConn + 1} /\ c # conn /\ c <= MaxConn
  /\ conn' = c /\ lastConn' = IF c = 0 THEN lastConn ELSE c
  /\ slots' = IdleSlots
  /\ IF slots.phase = "Idle" THEN UNCHANGED <<dev, net>>
     ELSE dev' = Cancelled(dev) /\ Send(CancelPackets(dev))
  /\ deviceOnly /\ UNCHANGED <<nextRequest, history>>

-----------------------------------------------------------------------------
(* CodexLanPlayback: packets and timers.                                   *)

fromDevice == deviceOnly /\ UNCHANGED userVars

Fails(d) == [d EXCEPT !.phase = "Cancelling", !.cancelAcked = FALSE,
                      !.tries = IF d.lease # 0 THEN 1 ELSE 0]
SlotsAborted_Keeps == slots
SlotsAborted == IF dev.lease # 0 /\ slots.lease = dev.lease
                THEN [slots EXCEPT !.phase = "Idle", !.lease = 0] ELSE slots

\* fail(): the slot state forgets the playback, the Host is told until it answers.
Fail(packets) ==
  /\ slots' = SlotsAborted /\ dev' = Fails(dev)
  /\ Send(packets \cup CancelPackets(dev))

ReceiveBegin(m) ==
  /\ m.kind = "EIPB" /\ requestOf[m.lease] = dev.request
  /\ \/ /\ dev.phase \in {"Receiving", "Playing"} /\ dev.lease = m.lease
        /\ Reply(m, {AckPacket(m.lease, 0, dev.received)})
        /\ UNCHANGED deviceVars
     \/ /\ dev.phase = "AwaitBegin"
        /\ ~slots.capture /\ slots.phase = "Idle" /\ slots.pending = dev.request
        /\ slots' = [slots EXCEPT !.pending = NoRequest, !.phase = "Buffering", !.lease = m.lease]
        /\ dev' = [dev EXCEPT !.phase = "Receiving", !.lease = m.lease, !.received = 0, !.tries = 0]
        /\ Reply(m, {AckPacket(m.lease, 0, 0)})
  /\ fromDevice /\ UNCHANGED history

\* A chunk already received is acknowledged again, also while the end is being reported.
ReceiveOldData(m) ==
  /\ m.kind = "EIPD" /\ m.lease = dev.lease /\ m.offset < dev.received
  /\ dev.phase \in {"Receiving", "Playing", "FinishedPendingAck"}
  /\ Reply(m, {AckPacket(m.lease, 0, dev.received)})
  /\ fromDevice /\ UNCHANGED <<deviceVars, history>>

ReceiveGap(m) ==
  /\ m.kind = "EIPD" /\ m.lease = dev.lease /\ m.offset > dev.received
  /\ dev.phase \in {"Receiving", "Playing"}
  /\ Reply(m, {AckPacket(m.lease, 1, dev.received)})
  /\ fromDevice /\ UNCHANGED <<deviceVars, history>>

\* The next chunk; the speaker starts once enough is buffered.
ReceiveNext(m) ==
  LET received == dev.received + 1
      starts == dev.phase = "Receiving" /\ received >= Prebuffer
  IN /\ m.kind = "EIPD" /\ m.lease = dev.lease /\ m.offset = dev.received
     /\ dev.phase \in {"Receiving", "Playing"}
     /\ dev' = [dev EXCEPT !.received = received,
                           !.phase = IF starts THEN "Playing" ELSE dev.phase,
                           !.speaker = IF starts THEN "busy" ELSE dev.speaker]
     /\ slots' = [slots EXCEPT !.phase = IF received = Chunks THEN "TransferComplete"
                                         ELSE IF starts THEN "Playing" ELSE slots.phase]
     /\ starts => dev.speaker # "busy"
     /\ Reply(m, {AckPacket(m.lease, 0, received)})
     /\ fromDevice /\ UNCHANGED history

\* The Host has answered a cancel, or has committed the playback as heard.
ReceiveCommit(m) ==
  /\ m.kind = "EIPK" /\ m.lease = dev.lease
  /\ \/ /\ dev.phase = "Cancelling" /\ m.status = 1
        /\ dev' = [dev EXCEPT !.cancelAcked = TRUE]
        /\ UNCHANGED <<slots, forgotten>>
     \/ /\ dev.phase = "FinishedPendingAck" /\ m.status = 0
        /\ slots.phase = "FinishedPendingAck" /\ slots.lease = m.lease
        /\ slots' = [slots EXCEPT !.phase = "Idle", !.lease = 0]
        /\ dev' = [IdleDevice EXCEPT !.speaker = dev.speaker]
        /\ forgotten' = forgotten \cup {m.lease}
  /\ Reply(m, {})
  /\ fromDevice /\ UNCHANGED drained

\* The speaker task ends: with everything played, or stopped or broken before that.
SpeakerEnds(result) ==
  /\ dev.speaker = "busy"
  /\ result = "played" => dev.received = Chunks
  /\ dev' = [dev EXCEPT !.speaker = result]
  /\ drained' = IF result = "played" THEN drained \cup {dev.lease} ELSE drained
  /\ fromDevice /\ UNCHANGED <<slots, net, forgotten>>

PollDrained_AfterTransfer ==
  /\ dev.phase = "Playing" /\ dev.received = Chunks
  /\ slots' = [slots EXCEPT !.phase = "FinishedPendingAck"]
  /\ dev' = [dev EXCEPT !.phase = "FinishedPendingAck", !.tries = 0]
  /\ Send({FinishedPacket(dev.lease)})
  /\ fromDevice /\ UNCHANGED history

PollDrained ==
  /\ dev.phase = "Playing" /\ dev.speaker = "played"
  /\ slots.phase = "TransferComplete" /\ slots.lease = dev.lease
  /\ slots' = [slots EXCEPT !.phase = "FinishedPendingAck"]
  /\ dev' = [dev EXCEPT !.phase = "FinishedPendingAck", !.tries = 0]
  /\ Send({FinishedPacket(dev.lease)})
  /\ fromDevice /\ UNCHANGED history

PollSpeakerFailed ==
  /\ dev.phase = "Playing" /\ dev.speaker # "busy"
  /\ dev.speaker = "played" => slots.phase # "TransferComplete" \/ slots.lease # dev.lease
  /\ Fail({})
  /\ fromDevice /\ UNCHANGED history

\* The 500 ms and 100 ms timers.
DeviceRetries ==
  /\ dev.tries < MaxTries
  /\ \/ dev.phase = "AwaitBegin" /\ Send({RequestPacket(dev.request)})
     \/ dev.phase = "FinishedPendingAck" /\ Send({FinishedPacket(dev.lease)})
     \/ dev.phase = "Cancelling" /\ dev.lease # 0 /\ ~dev.cancelAcked /\ Send(CancelPackets(dev))
  /\ dev' = [dev EXCEPT !.tries = dev.tries + 1]
  /\ fromDevice /\ UNCHANGED <<slots, history>>

\* begin_timeout, finished_timeout and the 30 s data_timeout.
DeviceTimesOut ==
  /\ \/ dev.phase \in {"AwaitBegin", "FinishedPendingAck"} /\ dev.tries = MaxTries
     \/ dev.phase \in {"Receiving", "Playing"} /\ dev.received < Chunks
  /\ Fail({})
  /\ fromDevice /\ UNCHANGED history

\* A socket, memory or speaker error; one while cancelling starts the cancellation again.
DeviceFails ==
  /\ dev.phase # "Idle" /\ errors < MaxErrors
  /\ errors' = errors + 1
  /\ Fail({})
  /\ UNCHANGED <<hostSide, userVars, history>>

\* The keyboard loses power: nothing is told to the Host, the next connection is a new one.
DeviceReboots ==
  /\ errors < MaxErrors
  /\ errors' = errors + 1
  /\ conn' = 0 /\ nextRequest' = 0
  /\ slots' = IdleSlots /\ dev' = IdleDevice
  /\ UNCHANGED <<hostSide, lastConn, net, history>>

\* The end of a cancellation, followed by the request that was deferred meanwhile.
DeviceCleansUp ==
  LET clean == [IdleDevice EXCEPT !.speaker = dev.speaker]
  IN /\ dev.phase = "Cancelling" /\ dev.speaker # "busy"
     /\ dev.lease = 0 \/ dev.cancelAcked \/ dev.tries = MaxTries
     /\ \E after \in IF dev.deferred = NoRequest THEN {clean}
                     ELSE IF dev.deferred.conn = conn THEN Requested(clean, dev.deferred)
                     ELSE {clean} :
          dev' = after /\ Send(RequestPackets(after))
     /\ fromDevice /\ UNCHANGED <<slots, history>>

-----------------------------------------------------------------------------
(* The Host's LAN thread.                                                  *)

lanOnly == UNCHANGED <<userVars, deviceVars, serveVars, crashes, errors, history>>
Room == Len(events) < MaxQueue
Tell(kind, l) == events' = Append(events, [kind |-> kind, lease |-> l])
Drop == lan' = NoTransfer /\ Tell("Cancelled", lan.lease)

\* send_next_data: the chunks leave, or the socket refuses one and the transfer ends.
SendNext(m, next, packets) ==
  \/ lan' = next /\ Reply(m, packets) /\ UNCHANGED events
  \/ Drop /\ Reply(m, {})

WindowEnd_NoClamp(from) == from + Window
WindowEnd(from) == IF from + Window <= Chunks THEN from + Window ELSE Chunks
SendWindow(from) == DataPackets(lan.lease, from, WindowEnd(from))

\* accept_request_generation: a request generation is accepted once per connection.
AcceptRequest(r) == r.gen > floor[<<r.slot, r.conn>>]

ReceiveRequest(m) ==
  /\ m.kind = "EIPR" /\ Room
  /\ LET r == m.request
     IN IF AcceptRequest(r)
        THEN /\ floor' = [floor EXCEPT ![<<r.slot, r.conn>>] = r.gen]
             /\ lan' = NoTransfer
             /\ events' = (IF lan.phase = "None" THEN events
                           ELSE Append(events, [kind |-> "Cancelled", lease |-> lan.lease]))
                          \o <<[kind |-> "Request", request |-> r]>>
        ELSE UNCHANGED <<floor, lan, events>>
  /\ Reply(m, {})
  /\ lanOnly /\ UNCHANGED <<retired, commands>>

\* accept_ack with no transfer: a cancel that has been answered before is answered again.
ReceiveLateCancel(m) ==
  /\ m.kind = "EIPA" /\ lan.phase = "None"
  /\ m.status = 3 /\ retired.cancel = m.lease
  /\ Reply(m, {CommitPacket(m.lease, 1)})
  /\ lanOnly /\ UNCHANGED <<lanVars, events, commands>>

InWindow(m) == m.offset \in lan.acked..lan.sent

\* Status 1 asks for a chunk again; asking for the same one is a retry.
ReceiveGapAck(m) ==
  /\ m.kind = "EIPA" /\ lan.phase = "DataAck" /\ m.lease = lan.lease
  /\ m.status = 1 /\ InWindow(m)
  /\ IF m.offset = lan.acked /\ lan.tries = MaxTries
     THEN Drop /\ Reply(m, {})
     ELSE SendNext(m, [lan EXCEPT !.acked = m.offset, !.sent = WindowEnd(m.offset),
                                  !.tries = IF m.offset = lan.acked THEN lan.tries + 1 ELSE 0],
                   SendWindow(m.offset))
  /\ lanOnly /\ UNCHANGED <<retired, floor, commands>>

\* Every other status ends the transfer: a refusal, a cancel, or a late status 1.
ReceiveRefusal(m) ==
  /\ m.kind = "EIPA" /\ lan.phase # "None" /\ m.lease = lan.lease
  /\ m.status # 0
  /\ m.status = 1 => lan.phase # "DataAck" \/ ~InWindow(m)
  /\ Drop
  /\ retired' = [retired EXCEPT !.cancel = IF m.status = 3 THEN m.lease ELSE retired.cancel]
  /\ Reply(m, IF m.status = 3 THEN {CommitPacket(m.lease, 1)} ELSE {})
  /\ lanOnly /\ UNCHANGED <<floor, commands>>

ReceiveBeginAck(m) ==
  /\ m.kind = "EIPA" /\ lan.phase = "BeginAck" /\ m.lease = lan.lease
  /\ m.status = 0 /\ m.offset = 0
  /\ SendNext(m, [lan EXCEPT !.phase = "DataAck", !.acked = 0, !.sent = WindowEnd(0), !.tries = 0],
              SendWindow(0))
  /\ lanOnly /\ UNCHANGED <<retired, floor, commands>>

\* The next window follows when the whole one in flight has been acknowledged.
ReceiveDataAck(m) ==
  /\ m.kind = "EIPA" /\ lan.phase = "DataAck" /\ m.lease = lan.lease
  /\ m.status = 0 /\ m.offset > lan.acked /\ m.offset <= lan.sent
  /\ LET acked == [lan EXCEPT !.acked = m.offset, !.tries = 0]
         settled == \/ m.offset # lan.sent /\ lan' = acked
                    \/ m.offset = Chunks /\ lan' = [acked EXCEPT !.phase = "DeviceFinished"]
     IN IF m.offset # lan.sent \/ m.offset = Chunks
        THEN settled /\ Reply(m, {}) /\ UNCHANGED events
        ELSE SendNext(m, [acked EXCEPT !.sent = WindowEnd(m.offset)], SendWindow(m.offset))
  /\ lanOnly /\ UNCHANGED <<retired, floor, commands>>

\* EIPF of the exact transfer; repeated ones drive the commit again.
ReceiveFinished(m) ==
  /\ m.kind = "EIPF" /\ Room
  /\ lan.phase \in {"DeviceFinished", "HostCommit"} /\ m.lease = lan.lease
  /\ lan' = [lan EXCEPT !.phase = "HostCommit"]
  /\ Tell("Finished", m.lease)
  /\ Reply(m, {})
  /\ lanOnly /\ UNCHANGED <<retired, floor, commands>>

\* With no transfer left, the acknowledgement that was lost is sent again.
ReceiveLateFinished(m) ==
  /\ m.kind = "EIPF" /\ lan.phase = "None" /\ retired.finish = m.lease
  /\ Reply(m, {CommitPacket(m.lease, 0)})
  /\ lanOnly /\ UNCHANGED <<lanVars, events, commands>>

\* tick(): the 250 ms timer resends, and gives up after its retries or at its deadline.
LanResends ==
  /\ lan.phase \in {"BeginAck", "DataAck"} /\ lan.tries < MaxTries
  /\ Send(IF lan.phase = "BeginAck" THEN {BeginPacket(lan.lease)}
          ELSE DataPackets(lan.lease, lan.acked, lan.sent))
  /\ lan' = [lan EXCEPT !.tries = lan.tries + 1]
  /\ lanOnly /\ UNCHANGED <<retired, floor, events, commands>>

LanGivesUp_Silently ==
  /\ \/ lan.phase \in {"BeginAck", "DataAck"} /\ lan.tries = MaxTries
     \/ lan.phase \in {"DeviceFinished", "HostCommit"}
  /\ lan' = NoTransfer /\ UNCHANGED events
  /\ lanOnly /\ UNCHANGED <<net, retired, floor, commands>>

LanGivesUp ==
  /\ \/ lan.phase \in {"BeginAck", "DataAck"} /\ lan.tries = MaxTries
     \/ lan.phase \in {"DeviceFinished", "HostCommit"}
  /\ Drop
  /\ lanOnly /\ UNCHANGED <<net, retired, floor, commands>>

RetiredExpires ==
  /\ \/ retired.finish # 0 /\ retired' = [retired EXCEPT !.finish = 0]
     \/ retired.cancel # 0 /\ retired' = [retired EXCEPT !.cancel = 0]
  /\ lanOnly /\ UNCHANGED <<net, lan, floor, events, commands>>

\* handle_command, one command of the serve loop at a time.
HandleStart ==
  LET l == Head(commands).lease
  IN /\ commands # <<>> /\ Head(commands).kind = "Start"
     /\ IF lan.phase # "None" THEN Tell("Cancelled", l) /\ UNCHANGED <<lan, net>>
        ELSE /\ lan' = [NoTransfer EXCEPT !.phase = "BeginAck", !.lease = l]
             /\ Send({BeginPacket(l)})
             /\ UNCHANGED events
     /\ commands' = Tail(commands)
     /\ lanOnly /\ UNCHANGED <<retired, floor>>

\* send_to refuses the first datagram.
HandleStartFails ==
  /\ commands # <<>> /\ Head(commands).kind = "Start"
  /\ Tell("Cancelled", Head(commands).lease)
  /\ commands' = Tail(commands)
  /\ lanOnly /\ UNCHANGED <<net, lanVars>>

HandleFinishAck ==
  LET l == Head(commands).lease
  IN /\ commands # <<>> /\ Head(commands).kind = "FinishAck"
     /\ \/ /\ lan.lease = l /\ lan.phase = "HostCommit"
           /\ Send({CommitPacket(l, 0)})
           /\ retired' = [retired EXCEPT !.finish = l]
           /\ lan' = NoTransfer
        \/ \* not this transfer, or the socket refuses
           UNCHANGED <<net, retired, lan>>
     /\ commands' = Tail(commands)
     /\ lanOnly /\ UNCHANGED <<floor, events>>

HandleCancel ==
  /\ commands # <<>> /\ Head(commands).kind = "Cancel"
  /\ lan' = IF lan.lease = Head(commands).lease THEN NoTransfer ELSE lan
  /\ commands' = Tail(commands)
  /\ lanOnly /\ UNCHANGED <<net, retired, floor, events>>

-----------------------------------------------------------------------------
(* The Host's serve loop, one event at a time.                             *)

serveOnly == UNCHANGED <<userVars, deviceVars, net, lanVars, crashes, errors, history>>
NextEvent(kind) == events # <<>> /\ Head(events).kind = kind /\ events' = Tail(events)
Command1(kind, l) == [kind |-> kind, lease |-> l]
Unheard_Inverted(as) == {a.lease : a \in {b \in as : b.heard}}
Unheard(as) == {a.lease : a \in {b \in as : ~b.heard}}

\* begin_lan_playback: whatever else plays is cancelled, then the unread summary is leased
\* and started, or there is none, or its object cannot be loaded.
ServeRequest ==
  LET r == Head(events).request
      Cancels == IF active = {} THEN <<>>
                 ELSE <<Command1("Cancel", (CHOOSE a \in active : TRUE).lease)>>
  IN /\ NextEvent("Request")
     /\ IF \E a \in active : requestOf[a.lease] = r
        THEN UNCHANGED <<commands, serveVars>>
        ELSE \/ /\ active' = {} /\ leased' = leased \ Unheard(active)
                /\ commands' = commands \o Cancels
                /\ UNCHANGED <<requestOf, nextLease, heard>>
             \/ /\ nextLease <= MaxLeases
                /\ active' = {[lease |-> nextLease, heard |-> FALSE]}
                /\ leased' = (leased \ Unheard(active)) \cup {nextLease}
                /\ commands' = commands \o Cancels \o <<Command1("Start", nextLease)>>
                /\ requestOf' = [requestOf EXCEPT ![nextLease] = r]
                /\ nextLease' = nextLease + 1
                /\ UNCHANGED heard
     /\ serveOnly

\* LanPlaybackEvent::Finished: mark heard once, clean the cache, acknowledge.  The store or
\* the cleanup may fail; a repeated EIPF tries the rest again.
ServeFinished ==
  LET l == Head(events).lease
  IN /\ NextEvent("Finished")
     /\ IF ~ \E a \in active : a.lease = l
        THEN UNCHANGED <<commands, active, leased, heard>>
        ELSE \/ \* cleaned up: the device may forget the playback
                /\ active' = {a \in active : a.lease # l}
                /\ leased' = leased \ {l} /\ heard' = heard \cup {l}
                /\ commands' = Append(commands, Command1("FinishAck", l))
             \/ \* committed, cleanup deferred
                /\ active' = {a \in active : a.lease # l} \cup {[lease |-> l, heard |-> TRUE]}
                /\ leased' = leased \ {l} /\ heard' = heard \cup {l}
                /\ UNCHANGED commands
             \/ \* not even committed
                UNCHANGED <<commands, active, leased, heard>>
     /\ serveOnly /\ UNCHANGED <<requestOf, nextLease>>

\* LanPlaybackEvent::Cancelled: a commit already made is kept.
ServeCancelled ==
  LET l == Head(events).lease
  IN /\ NextEvent("Cancelled")
     /\ active' = {a \in active : a.lease # l}
     /\ leased' = leased \ ({l} \cap Unheard(active))
     /\ serveOnly /\ UNCHANGED <<commands, requestOf, nextLease, heard>>

\* The Host process dies and restarts: leases are recovered, what was heard stays heard.
HostRestarts ==
  /\ crashes < MaxCrashes
  /\ crashes' = crashes + 1
  /\ lan' = NoTransfer /\ retired' = [finish |-> 0, cancel |-> 0]
  /\ floor' = [k \in Slots \X (1..MaxConn) |-> 0]
  /\ events' = <<>> /\ commands' = <<>>
  /\ active' = {} /\ leased' = {}
  /\ UNCHANGED <<userVars, deviceVars, net, requestOf, nextLease, heard, errors, history>>

-----------------------------------------------------------------------------
Keys ==
  \/ \E s \in Slots : PressPlay(s)
  \/ PressTalk \/ ReleaseTalk
  \/ \E c \in 0..MaxConn : RouteChanges(c)

ReceiveData(m) == ReceiveOldData(m) \/ ReceiveGap(m) \/ ReceiveNext(m)
DeviceReceives(m) == ReceiveBegin(m) \/ ReceiveData(m) \/ ReceiveCommit(m)
SpeakerOrPoll ==
  \/ \E result \in {"played", "failed"} : SpeakerEnds(result)
  \/ PollDrained \/ PollSpeakerFailed
DeviceTimers == DeviceRetries \/ DeviceTimesOut \/ DeviceCleansUp

LanReceives(m) ==
  \/ ReceiveRequest(m) \/ ReceiveLateCancel(m) \/ ReceiveGapAck(m) \/ ReceiveRefusal(m)
  \/ ReceiveBeginAck(m) \/ ReceiveDataAck(m) \/ ReceiveFinished(m) \/ ReceiveLateFinished(m)
HandleCommand == HandleStart \/ HandleStartFails \/ HandleFinishAck \/ HandleCancel
ServeNext == ServeRequest \/ ServeFinished \/ ServeCancelled

Next ==
  \/ Keys
  \/ \E m \in net : Lose(m) \/ DeviceReceives(m) \/ LanReceives(m)
  \/ SpeakerOrPoll \/ DeviceTimers \/ DeviceFails \/ DeviceReboots
  \/ LanResends \/ LanGivesUp \/ RetiredExpires
  \/ HandleCommand \/ ServeNext \/ HostRestarts

Spec == Init /\ [][Next]_vars

\* The threads run and their timers fire; the network owes nothing.
Fairness ==
  /\ WF_vars(SpeakerOrPoll) /\ WF_vars(DeviceTimers)
  /\ WF_vars(LanResends \/ LanGivesUp)
  /\ WF_vars(HandleCommand) /\ WF_vars(ServeNext)

FairSpec == Spec /\ Fairness

-----------------------------------------------------------------------------
(* Properties.                                                             *)

\* A summary is marked heard only after the speaker has played that very transfer to its last
\* sample (health.rs handle_lan_playback_event, codex_lan_playback.cpp poll): a cancel, a
\* timeout, a late packet of another playback or a restart never consumes it.
HeardOnlyIfDrained == heard \subseteq drained

\* The device forgets a playback it has finished only once the Host has committed it as heard.
ForgottenOnlyIfHeard == forgotten \subseteq heard

\* The meaning the keys have (CodexSlotState) and the transfer that runs (CodexLanPlayback)
\* never disagree: the slot state is never stuck in a playback nobody transfers.
SlotsFollowTransfer ==
  /\ slots.phase # "Idle" => slots.lease = dev.lease
  /\ slots.phase = CASE dev.phase = "Receiving" -> "Buffering"
                     [] dev.phase = "Playing" /\ dev.received < Chunks -> "Playing"
                     [] dev.phase = "Playing" /\ dev.received = Chunks -> "TransferComplete"
                     [] dev.phase = "FinishedPendingAck" -> "FinishedPendingAck"
                     [] OTHER -> "Idle"

\* While the user talks nothing is requested, received or kept for later (docs/端到端架构.md:110).
TalkingIsExclusive ==
  slots.capture => dev.phase \in {"Idle", "Cancelling"} /\ dev.deferred = NoRequest

\* The device's own parts agree with each other, whatever order keys and packets come in.
DeviceIsConsistent == SlotsFollowTransfer /\ TalkingIsExclusive

\* One key press takes one lease, however often its request arrives, unless the Host restarted.
RequestLeasedOnce ==
  crashes = 0 => \A l, m \in 1..(nextLease - 1) : requestOf[l] = requestOf[m] => l = m

\* What is heard: not a summary too many and none lost between Host and device, and no lease
\* taken for a request that already had one.
PlaybacksAreEarned == HeardOnlyIfDrained /\ ForgottenOnlyIfHeard /\ RequestLeasedOnce

\* No loss, silence or race leaves a summary leased for ever.
LeasesEnd == \A l \in Leases : l \in leased ~> l \notin leased

\* The device comes back from every request and never waits for a packet for ever, unless the
\* talk key, which starts a running cancellation again, is pressed over and over.
DeviceReturns == <>[][~PressTalk]_vars => (dev.phase # "Idle" ~> dev.phase = "Idle")

\* Both ends of a playback are rid of it in the end, whatever the network loses.
PlaybackEnds == LeasesEnd /\ DeviceReturns

\* What the mailbox sees of all this is what listening promises (docs/总体方案.md:90): one summary
\* at a time, heard only at its end and under the lease that still holds.
Promise == INSTANCE Listening
ImplementsListening == Promise!Spec
=============================================================================
