---------------------------- MODULE SpeakerSync ----------------------------
(***************************************************************************)
(* The transfer of sounds to the keyboard over USB or Wi-Fi: the protocol  *)
(* core (speaker_assets_runtime.cpp), the platform task that drives it     *)
(* (speaker_assets_supervisor.cpp), the Wi-Fi carrier task                 *)
(* (speaker_assets_wifi.cpp) and the USB endpoint's lifetime (usb_hid.cpp).*)
(*                                                                         *)
(* The core, the session and the choice of a reply belong to the platform  *)
(* task; the mailbox, the USB lifetime and the carrier's slots are shared, *)
(* each behind its own lock.  One action is one critical section and the   *)
(* private work next to it.  The store's worker is StoreRunner; here it is *)
(* a job that ends some time.                                              *)
(***************************************************************************)
EXTENDS SpeakerSession

CONSTANTS
  LifecycleSlots, ReplySlots, ActiveRoutes,   \* the core's capacities
  CoreSteps,     \* kMaximumCoreStepsPerPoll
  Scenes         \* what may happen in one behaviour: the bounds of the environment

ASSUME CoreHasRoom ==
  /\ {LifecycleSlots, ReplySlots, ActiveRoutes, CoreSteps} \subseteq Nat \ {0}
  /\ ActiveRoutes < LifecycleSlots

\* A scene: the opcodes the App uses, how many frames it sends, how many USB lifetimes and
\* Wi-Fi connections there are, how often voice claims priority, and whether the transports
\* are up before the boot sound has been read.
SceneOk(x) ==
  /\ x.asked \subseteq Ops \cup Immediate \cup {"Bad"}
  /\ {x.frames, x.mounts, x.links, x.voice} \subseteq Nat /\ x.boot \in BOOLEAN
ASSUME ScenesAreBounded == \A x \in Scenes : SceneOk(x)

VARIABLES
  box,     \* mailbox_
  core,    \* core_, without its session
  ses,     \* the core's session_
  exec,    \* the store's job and everything it ever did
  sup,     \* the platform task
  usb,     \* endpoint_lifetime_ and the slot of the reply endpoint
  wifi,    \* the carrier task and its slots
  app,     \* the App: its current request and the cookie it was told
  env      \* the scene, voice and the boot sound's read

vars == <<box, core, ses, exec, sup, usb, wifi, app, env>>

NoTimer == [route |-> NoRoute, old |-> FALSE]
Fresh(r) == [route |-> r, old |-> FALSE]
NoRequest == [op |-> "None", rid |-> 0, cookie |-> 0]
NoAnswer == [seq |-> 0, lease |-> NoLease, req |-> NoRequest, reply |-> Status("None", 0)]
NoBytes == <<>>

NewCore ==
  [lifecycle |-> <<>>, ingress |-> <<>>, replies |-> <<>>,
   active |-> {}, closed |-> {},      \* active_routes_, closed_route_filter_
   lease |-> NoLease, action |-> NoAction,   \* pending_action_lease_, pending_action_
   partial |-> NoTimer, owner |-> NoTimer,   \* session_partial_, session_lease_
   seq |-> 1]

Init ==
  /\ box = EmptyMailbox
  /\ core = NewCore
  /\ ses = NewSession
  /\ exec = [stage |-> "none", action |-> NoAction, bytes |-> NoBytes, done |-> {}]
  /\ sup = [pc |-> "send", epoch |-> 0, route |-> 0, queued |-> NoAnswer,
            allowed |-> TRUE, left |-> 0]
  /\ usb = [epoch |-> 0, last |-> 0, slot |-> NoAnswer]
  /\ wifi = [pc |-> "idle", gen |-> 0, preferred |-> FALSE,
             pending |-> NoAnswer, sending |-> NoAnswer, accepted |-> NoAnswer]
  /\ app = [req |-> NoRequest, cookie |-> 0, sent |-> 0]
  /\ \E x \in Scenes : env = [scene |-> x, voice |-> FALSE, turns |-> 0, boot |-> x.boot]

----------------------------------------------------------------------------
(* The core's queues. *)

RouteHasIngress(c, r) == \E e \in Range(c.ingress) : e.lease.route = r
RouteHasReply(c, r) == \E a \in Range(c.replies) : a.lease.route = r
FirstReply(c, r) ==
  c.replies[Nth({i \in DOMAIN c.replies : c.replies[i].lease.route = r}, 1)]
RepliesFull(c) == Len(c.replies) >= ReplySlots

\* push_reply
Answered(c, lease, req, reply) ==
  [c EXCEPT !.replies = Append(@, [seq |-> c.seq, lease |-> lease, req |-> req, reply |-> reply]),
            !.seq = @ + 1]

\* remove_reply_if_sequence
Removed(c, seq) ==
  [c EXCEPT !.replies = Kept(@, {i \in DOMAIN @ : @[i].seq # seq})]

\* enqueue_lifecycle: one entry for a route, a close dominates, opens leave room for closes.
LifecycleAt(c, r) == {i \in DOMAIN c.lifecycle : c.lifecycle[i].route = r}
Enqueued(c, kind, r) ==
  IF LifecycleAt(c, r) # {}
  THEN IF kind = "Open" THEN c
       ELSE [c EXCEPT !.lifecycle[CHOOSE i \in LifecycleAt(c, r) : TRUE].kind = "Close"]
  ELSE IF Len(c.lifecycle) >= LifecycleSlots - (IF kind = "Open" THEN ActiveRoutes ELSE 0) THEN c
  ELSE [c EXCEPT !.lifecycle = Append(@, [kind |-> kind, route |-> r])]

\* enqueue_ingress
Ingested(c, rec) ==
  IF Len(c.ingress) >= DataSlots THEN c
  ELSE [c EXCEPT !.ingress = Append(@, [lease |-> rec.lease, frame |-> rec.frame])]

\* revoke_all_routes: everything but the pending action.
RevokedAll(c, s, overflow) ==
  [NewCore EXCEPT
     !.closed = (c.closed \cup {overflow, s.route, c.lease.route, c.partial.route}
                 \cup c.active \cup {e.route : e \in Range(c.lifecycle)}
                 \cup {e.lease.route : e \in Range(c.ingress) \cup Range(c.replies)}) \ {NoRoute},
     !.lease = c.lease, !.action = c.action, !.seq = c.seq]

\* import_mailbox_record; what does not fit is dropped.
Imported(c, s, rec) ==
  CASE rec.kind = "None" -> c
    [] rec.kind = "CloseAll" -> RevokedAll(c, s, rec.lease.route)
    [] rec.kind = "Frame" -> Ingested(c, rec)
    [] OTHER -> Enqueued(c, rec.kind, rec.lease.route)

\* activate_route
Activated(c, r) ==
  IF r \in c.closed \/ (r \notin c.active /\ Cardinality(c.active) >= ActiveRoutes) THEN c
  ELSE [c EXCEPT !.active = @ \cup {r}]

\* close_route
Cleared(timer, r) == IF timer.route = r THEN NoTimer ELSE timer
RouteGone(c, r) ==
  [c EXCEPT !.closed = @ \cup {r}, !.active = @ \ {r},
            !.owner = Cleared(@, r), !.partial = Cleared(@, r),
            !.ingress = Kept(@, {i \in DOMAIN @ : @[i].lease.route # r}),
            !.replies = Kept(@, {i \in DOMAIN @ : @[i].lease.route # r})]

\* refresh_session_lease
OwnerRefreshed(c, s, r, cookie) ==
  IF cookie # 0 /\ s.route = r /\ s.cookie = cookie THEN [c EXCEPT !.owner = Fresh(r)] ELSE c
OwnerOfBound(c, s) == IF Bound(s) THEN c ELSE [c EXCEPT !.owner = NoTimer]

\* update_session_partial_activity
PartialUpdated(c, s, r, moved) ==
  CASE s.phase = "BeginAssembly" ->
         IF moved /\ c.partial.route \in {NoRoute, r} THEN [c EXCEPT !.partial = Fresh(r)] ELSE c
    [] s.phase = "UnitAssembly" ->
         IF moved /\ s.route = r THEN [c EXCEPT !.partial = Fresh(r)] ELSE c
    [] OTHER -> [c EXCEPT !.partial = NoTimer]

\* expire_session_partial_after_logical_frame
PartialDue(c) == c.partial.route # NoRoute /\ c.partial.old
AfterFrame(c) == IF PartialDue(c) THEN [c EXCEPT !.partial = NoTimer] ELSE c
SessionAfterFrame(c, s) == IF PartialDue(c) THEN PartialExpired(s, c.partial.route) ELSE s

----------------------------------------------------------------------------
(* One step of the core, by what there is to do first. *)

SupAt(pc) == sup.pc = pc
Goto(pc) == sup' = [sup EXCEPT !.pc = pc]

\* run_core_steps: go on, or leave the loop.
Stepped ==
  sup' = [sup EXCEPT !.left = @ - 1, !.pc = IF sup.left = 1 THEN "offer" ELSE "core"]
Stopped == sup' = [sup EXCEPT !.left = 0, !.pc = "offer"]

Carriers == <<usb, wifi, app, env>>

\* process_lifecycle
ProcessLifecycle ==
  /\ SupAt("core") /\ core.lifecycle # <<>>
  /\ LET e == Head(core.lifecycle)
         c == [core EXCEPT !.lifecycle = Tail(@)]
     IN  IF e.kind = "Open" THEN core' = Activated(c, e.route) /\ UNCHANGED ses
         ELSE core' = RouteGone(c, e.route) /\ ses' = RouteClosed(ses, e.route)
  /\ Stepped
  /\ UNCHANGED <<box, exec, Carriers>>

\* expire_partials: traffic already taken in is looked at first.
PartialIsStale == PartialDue(core) /\ ~RouteHasIngress(core, core.partial.route)
ExpirePartials ==
  /\ SupAt("core") /\ core.lifecycle = <<>> /\ PartialIsStale
  /\ ses' = PartialExpired(ses, core.partial.route)
  /\ core' = [core EXCEPT !.partial = NoTimer]
  /\ Stepped
  /\ UNCHANGED <<box, exec, Carriers>>

\* What is left when neither of these is due.
Settled == SupAt("core") /\ core.lifecycle = <<>> /\ ~PartialIsStale

\* What the store reads while it works on an action: the plan or the unit, in place.
Borrowed(action) ==
  IF action.op = "Data" THEN <<ses.unit>>
  ELSE IF action.op \in PlanOps THEN <<ses.decoded>> ELSE NoBytes

\* process_pending_action without an answer yet.
AwaitAction ==
  /\ Settled /\ core.action # NoAction
  /\ ~sup.allowed \/ RepliesFull(core) \/ exec.stage \in {"none", "running"}
  /\ exec' = IF sup.allowed /\ ~RepliesFull(core) /\ exec.stage = "none"
             THEN [exec EXCEPT !.stage = "running", !.action = core.action,
                               !.bytes = Borrowed(core.action)]
             ELSE exec
  /\ Stopped
  /\ UNCHANGED <<box, core, ses, Carriers>>

\* retire_admission_without_reply: which admission the step gives back.
Retired(kind, lease) == IF kind = "Reply" THEN NoLease ELSE lease

\* process_pending_action with the store's answer.
CompleteAction ==
  /\ Settled /\ core.action # NoAction
  /\ sup.allowed /\ ~RepliesFull(core)
  /\ exec.stage \in {"ok", "other", "fail"}
  /\ LET a == core.action
         e == Complete(ses, exec.stage # "fail", IF exec.stage = "ok" THEN "Active" ELSE "Other")
         c == [core EXCEPT !.action = NoAction, !.lease = NoLease, !.partial = NoTimer]
         d == IF e.ses.route = a.route THEN [c EXCEPT !.owner = Fresh(a.route)]
              ELSE OwnerOfBound(c, e.ses)
         req == [op |-> a.op, rid |-> a.rid, cookie |-> a.cookie]
     IN  /\ ses' = e.ses
         /\ core' = IF e.kind = "Reply" THEN Answered(d, core.lease, req, e.reply) ELSE d
         /\ box' = Released(box, Retired(e.kind, core.lease))
  /\ exec' = [exec EXCEPT !.stage = "none", !.action = NoAction, !.bytes = NoBytes]
  /\ Stepped
  /\ UNCHANGED Carriers

\* Mutant: the session outlives a silent App.
NeverLapses(c, s) == FALSE

\* expire_session_lease
OwnerLapsed(c, s) ==
  c.owner.old /\ s.route = c.owner.route /\ ~RouteHasIngress(c, c.owner.route)
OwnerChecked(c, s) == IF s.route = c.owner.route THEN c ELSE [c EXCEPT !.owner = NoTimer]

ExpireSessionLease ==
  /\ Settled /\ core.action = NoAction /\ OwnerLapsed(core, ses)
  /\ ses' = RouteClosed(ses, core.owner.route)
  /\ core' = [core EXCEPT !.owner = NoTimer, !.partial = Cleared(@, core.owner.route)]
  /\ Stepped
  /\ UNCHANGED <<box, exec, Carriers>>

\* The step that finds nothing to do, or no room for an answer.
CoreIdle ==
  /\ Settled /\ core.action = NoAction /\ ~OwnerLapsed(core, ses)
  /\ RepliesFull(core) \/ core.ingress = <<>>
  /\ core' = OwnerChecked(core, ses)
  /\ Stopped
  /\ UNCHANGED <<box, ses, exec, Carriers>>

\* One frame is taken out of ingress.
Ingress ==
  /\ Settled /\ core.action = NoAction /\ ~OwnerLapsed(core, ses)
  /\ ~RepliesFull(core) /\ core.ingress # <<>>
Incoming == Head(core.ingress)
WithoutIncoming == [OwnerChecked(core, ses) EXCEPT !.ingress = Tail(@)]
ReqOf(f) == [op |-> f.op, rid |-> f.rid, cookie |-> f.cookie]

\* process_ingress of a frame that cannot be used: its route is gone, or it does not decode.
DropIncoming ==
  /\ Ingress
  /\ Incoming.lease.route \notin core.active \/ Incoming.frame.op = "Bad"
  /\ core' = AfterFrame(WithoutIncoming)
  /\ ses' = SessionAfterFrame(core, ses)
  /\ box' = Released(box, Incoming.lease)
  /\ Stepped
  /\ UNCHANGED <<exec, Carriers>>

Usable == Ingress /\ Incoming.lease.route \in core.active /\ Incoming.frame.op # "Bad"

\* consume_logical_frame while voice has priority.
AnswerPaused ==
  /\ Usable /\ ~sup.allowed /\ Incoming.frame.op \in Ops
  /\ LET f == Incoming.frame
         r == Incoming.lease.route
         c == OwnerRefreshed(WithoutIncoming, ses, r, f.cookie)
         d == IF c.partial.route = r THEN [c EXCEPT !.partial = Fresh(r)] ELSE c
     IN  /\ core' = AfterFrame(Answered(d, Incoming.lease, ReqOf(f), Status("Paused", f.cookie)))
         /\ ses' = SessionAfterFrame(d, ses)
  /\ Stepped
  /\ UNCHANGED <<box, exec, Carriers>>

\* consume_logical_frame: a partial that turned stale meanwhile is given up and the same
\* frame consumed again.
ConsumeFrame ==
  /\ Usable
  /\ sup.allowed \/ Incoming.frame.op \notin Ops
  /\ LET f == Incoming.frame
         r == Incoming.lease.route
         c == OwnerRefreshed(WithoutIncoming, ses, r, f.cookie)
         one == Consume(ses, r, f)
         c1 == PartialUpdated(OwnerOfBound(c, one.ses), one.ses, r, one.moved)
         expires == ~one.moved /\ PartialDue(c1)
         again == expires /\ PartialOf(one.ses, c1.partial.route)
         two == Consume(PartialExpired(one.ses, c1.partial.route), r, f)
         last == IF again THEN two ELSE one
         c2 == IF expires THEN [c1 EXCEPT !.partial = NoTimer] ELSE c1
         c3 == IF again THEN PartialUpdated(c2, two.ses, r, two.moved) ELSE c2
     IN  /\ ses' = last.ses
         /\ core' = IF last.kind = "Reply" THEN Answered(c3, Incoming.lease, ReqOf(f), last.reply)
                    ELSE [c3 EXCEPT !.action = last.ses.pending.action, !.lease = Incoming.lease]
  /\ Stepped
  /\ UNCHANGED <<box, exec, Carriers>>

----------------------------------------------------------------------------
(* The platform task around the core. *)

\* The App learns the cookie of the session it opened.
Told(answer) ==
  IF answer.reply.status = "Ok" /\ answer.req.op \in {"Begin", "Resume"} /\ answer.reply.cookie # 0
  THEN [app EXCEPT !.cookie = answer.reply.cookie] ELSE app

\* The endpoint takes the reply; retire_accepted_usb_reply runs under the lifetime lock.
SendUsbReply ==
  /\ SupAt("send") /\ usb.slot # NoAnswer
  /\ usb.slot.lease.route = RouteOf("usb", usb.epoch)
  /\ IF sup.queued = usb.slot
     THEN /\ core' = Removed(core, sup.queued.seq)
          /\ box' = Released(box, sup.queued.lease)
          /\ sup' = [sup EXCEPT !.queued = NoAnswer, !.pc = "epoch"]
     ELSE Goto("epoch") /\ UNCHANGED <<core, box>>
  /\ usb' = [usb EXCEPT !.slot = NoAnswer]
  /\ app' = Told(usb.slot)
  /\ UNCHANGED <<ses, exec, wifi, env>>

\* try_send_speaker_assets_response sends nothing: no reply, a busy endpoint, or a reply for
\* an older one, which is dropped.
UsbSlotLeft ==
  IF usb.slot.lease.route = RouteOf("usb", usb.epoch) THEN usb.slot ELSE NoAnswer

\* observe_usb_route reads the epoch before it takes the mailbox lock.
ReadUsbEpoch ==
  /\ sup.pc \in {"send", "epoch"}
  /\ usb' = [usb EXCEPT !.slot = IF SupAt("send") THEN UsbSlotLeft ELSE @]
  /\ sup' = [sup EXCEPT !.epoch = usb.epoch, !.allowed = ~env.voice, !.pc = "observe"]
  /\ UNCHANGED <<box, core, ses, exec, wifi, app, env>>

ObserveUsbRoute ==
  /\ SupAt("observe")
  /\ box' = Ensured(box, "usb", sup.epoch)
  /\ sup' = [sup EXCEPT !.route = sup.epoch, !.pc = "retire",
                        !.queued = IF sup.epoch = sup.route THEN @ ELSE NoAnswer]
  /\ wifi' = [wifi EXCEPT !.preferred = sup.epoch # 0]
  /\ UNCHANGED <<core, ses, exec, usb, app, env>>

\* retire_accepted_wifi_reply
RetireWifiReply ==
  /\ SupAt("retire")
  /\ LET a == wifi.accepted
     IN  IF a # NoAnswer /\ RouteHasReply(core, a.lease.route) /\ FirstReply(core, a.lease.route) = a
         THEN core' = Removed(core, a.seq) /\ box' = Released(box, a.lease)
         ELSE UNCHANGED <<core, box>>
  /\ wifi' = [wifi EXCEPT !.accepted = NoAnswer]
  /\ Goto("import")
  /\ UNCHANGED <<ses, exec, usb, app, env>>

\* import_one_mailbox_record; while the boot sound is read the core takes no steps.
ImportOne ==
  /\ SupAt("import")
  /\ core' = Imported(core, ses, Front(box))
  /\ ses' = IF Front(box).kind = "CloseAll" THEN AllRoutesClosed(ses) ELSE ses
  /\ box' = Taken(box)
  /\ sup' = IF env.boot THEN [sup EXCEPT !.pc = "offer"]
            ELSE [sup EXCEPT !.pc = "core", !.left = CoreSteps]
  /\ UNCHANGED <<exec, Carriers>>

\* offer_usb_reply with queue_speaker_assets_response_for_epoch, then offer_wifi_reply with
\* queue_response.
UsbOffer ==
  /\ sup.queued = NoAnswer /\ sup.route # 0
  /\ RouteHasReply(core, RouteOf("usb", sup.route))
  /\ usb.epoch = sup.route
  /\ usb.slot = NoAnswer \/ usb.slot.lease.route.gen # usb.epoch
WifiIsFree == /\ wifi.pending = NoAnswer
              /\ wifi.sending = NoAnswer
              /\ wifi.accepted = NoAnswer
WifiServing == wifi.pc \in {"read", "wait", "send", "retire", "leave"}
WifiActive == WifiServing \/ wifi.pc = "deactivate"   \* route_active
WifiOffer ==
  /\ WifiActive /\ WifiIsFree
  /\ core.replies # <<>>
  /\ core.replies[1].lease.route = RouteOf("wifi", wifi.gen)

OfferReplies ==
  /\ SupAt("offer")
  /\ LET a == FirstReply(core, RouteOf("usb", sup.route))
     IN  IF UsbOffer THEN /\ usb' = [usb EXCEPT !.slot = a]
                          /\ sup' = [sup EXCEPT !.queued = a, !.pc = "send"]
         ELSE UNCHANGED usb /\ Goto("send")
  /\ wifi' = IF WifiOffer THEN [wifi EXCEPT !.pending = core.replies[1]] ELSE wifi
  /\ UNCHANGED <<box, core, ses, exec, app, env>>

\* The store's worker ends the job, well or not; a Resume may find nothing to resume.
StoreWorks ==
  /\ exec.stage = "running"
  /\ \E result \in {"ok", "fail"} \cup (IF exec.action.op = "Resume" THEN {"other"} ELSE {}) :
       exec' = [exec EXCEPT !.stage = result,
                            !.done = IF result = "fail" THEN @ ELSE @ \cup {exec.action}]
  /\ UNCHANGED <<box, core, ses, sup, Carriers>>

----------------------------------------------------------------------------
(* The transports and the App. *)

\* The next frame: another fragment of the current request, or of the one after it.
Fragments(op) == IF op \in PlanOps \cup {"Data"} THEN Parts ELSE {1}
NextRequest(op) ==
  [op |-> op, rid |-> app.req.rid + 1,
   cookie |-> IF op \in BoundOps \cup {"Data"} THEN app.cookie ELSE 0]
FramesOf(q, parts) == {[op |-> q.op, rid |-> q.rid, cookie |-> q.cookie, part |-> p] : p \in parts}
AppFrames ==
  IF app.sent = env.scene.frames THEN {}
  ELSE (IF app.req = NoRequest THEN {} ELSE FramesOf(app.req, Fragments(app.req.op)))
       \cup UNION {FramesOf(NextRequest(op), {1}) :
                     op \in {o \in env.scene.asked : app.cookie # 0 \/ o \notin BoundOps \cup {"Data"}}}
AppSent(f) == app' = [app EXCEPT !.req = ReqOf(f), !.sent = @ + 1]

\* receive_speaker_assets_report, under the lifetime lock; what is refused is not answered.
UsbFrameArrives ==
  /\ usb.epoch # 0
  /\ \E f \in AppFrames :
       /\ box' = Received(box, RouteOf("usb", usb.epoch), f)
       /\ AppSent(f)
  /\ UNCHANGED <<core, ses, exec, sup, usb, wifi, env>>

Mount ==
  /\ usb.epoch = 0 /\ usb.last < env.scene.mounts
  /\ usb' = [usb EXCEPT !.epoch = usb.last + 1, !.last = @ + 1]
  /\ UNCHANGED <<box, core, ses, exec, sup, wifi, app, env>>

Unmount ==
  /\ usb.epoch # 0
  /\ usb' = [usb EXCEPT !.epoch = 0]
  /\ UNCHANGED <<box, core, ses, exec, sup, wifi, app, env>>

WifiRoute == RouteOf("wifi", wifi.gen)
WifiGoes(pc) == wifi' = [wifi EXCEPT !.pc = pc]

\* allow_new_route: not while USB is preferred.
RouteAllowed == ~wifi.preferred

\* run: the listener accepts one connection at a time.
ListenerIsReady == wifi.pc = "idle" /\ RouteAllowed /\ wifi.gen < env.scene.links

\* service_connection: the route is announced before the peer is told it is ready.
WifiConnect ==
  /\ ListenerIsReady
  /\ box' = Ensured(box, "wifi", wifi.gen + 1)
  /\ wifi' = [wifi EXCEPT !.gen = @ + 1,
                          !.pc = IF box'.route["wifi"] = wifi.gen + 1 THEN "greet" ELSE "idle"]
  /\ UNCHANGED <<core, ses, exec, sup, usb, app, env>>

\* write_exact of the server's greeting, then set_active_route.
WifiGreet ==
  /\ wifi.pc = "greet"
  /\ WifiGoes("read")
  /\ UNCHANGED <<box, core, ses, exec, sup, usb, app, env>>

\* read_exact: the App's bytes come off the wire.
FrameRead(f) == AppSent(f)

\* A request is read and put into the mailbox; if it is refused the connection ends.
WifiFrameArrives ==
  /\ wifi.pc = "read"
  /\ \E f \in AppFrames :
       /\ box' = Received(box, WifiRoute, f)
       /\ WifiGoes(IF Accepts(box, WifiRoute) THEN "wait" ELSE "leave")
       /\ FrameRead(f)
  /\ UNCHANGED <<core, ses, exec, sup, usb, env>>

\* take_pending_response
OwnSlot == IF wifi.pending.lease.route = WifiRoute THEN NoAnswer ELSE wifi.pending
WifiTakeResponse ==
  /\ wifi.pc = "wait" /\ wifi.pending # OwnSlot
  /\ wifi' = [wifi EXCEPT !.sending = wifi.pending, !.pending = OwnSlot, !.pc = "send"]
  /\ UNCHANGED <<box, core, ses, exec, sup, usb, app, env>>

\* write_exact: the App has the response.
ResponseWritten == app' = Told(wifi.sending)

\* publish_accepted_response: the platform task may retire the reply.
AcceptedPublished ==
  /\ wifi.accepted = NoAnswer
  /\ wifi' = [wifi EXCEPT !.accepted = wifi.sending, !.sending = NoAnswer, !.pc = "retire"]

WifiSend ==
  /\ wifi.pc = "send"
  /\ ResponseWritten /\ AcceptedPublished
  /\ UNCHANGED <<box, core, ses, exec, sup, usb, env>>

\* The reply has been retired; the next request may be read.
WifiNext ==
  /\ wifi.pc = "retire" /\ wifi.accepted = NoAnswer
  /\ WifiGoes("read")
  /\ UNCHANGED <<box, core, ses, exec, sup, usb, app, env>>

\* The greeting could not be written: the route was never active.
WifiGreetFails ==
  /\ wifi.pc = "greet"
  /\ WifiGoes("close")
  /\ UNCHANGED <<box, core, ses, exec, sup, usb, app, env>>

\* A timeout, a closed socket, a refused frame or a lifecycle that ended:
\* clear_pending_response.  The route is still active.
WifiLeaves ==
  /\ WifiServing
  /\ wifi' = [wifi EXCEPT !.pending = OwnSlot, !.sending = NoAnswer, !.pc = "deactivate"]
  /\ UNCHANGED <<box, core, ses, exec, sup, usb, app, env>>

\* clear_active_route, under the lock once more.
WifiDeactivate ==
  /\ wifi.pc = "deactivate"
  /\ WifiGoes("close")
  /\ UNCHANGED <<box, core, ses, exec, sup, usb, app, env>>

\* observe_route_(false): the route is closed, the listener is rebuilt.
WifiCloseRoute ==
  /\ wifi.pc = "close"
  /\ box' = Forgotten(box, WifiRoute)
  /\ WifiGoes("idle")
  /\ UNCHANGED <<core, ses, exec, sup, usb, app, env>>

\* Five seconds pass for a partial, ten for a session; nothing newer arrived.
PartialAges ==
  /\ core.partial.route # NoRoute /\ ~core.partial.old
  /\ core' = [core EXCEPT !.partial.old = TRUE]
  /\ UNCHANGED <<box, ses, exec, sup, Carriers>>
OwnerAges ==
  /\ core.owner.route # NoRoute /\ ~core.owner.old
  /\ ses.phase = "UnitAssembly" => PartialDue(core)
  /\ core' = [core EXCEPT !.owner.old = TRUE]
  /\ UNCHANGED <<box, ses, exec, sup, Carriers>>

VoiceTurns ==
  /\ env.voice \/ env.turns < env.scene.voice
  /\ env' = [env EXCEPT !.voice = ~@, !.turns = IF env.voice THEN @ ELSE @ + 1]
  /\ UNCHANGED <<box, core, ses, exec, sup, usb, wifi, app>>

BootReadEnds ==
  /\ env.boot
  /\ env' = [env EXCEPT !.boot = FALSE]
  /\ UNCHANGED <<box, core, ses, exec, sup, usb, wifi, app>>

----------------------------------------------------------------------------
CoreStep ==
  \/ ProcessLifecycle \/ ExpirePartials \/ AwaitAction \/ CompleteAction
  \/ ExpireSessionLease \/ CoreIdle \/ DropIncoming \/ AnswerPaused \/ ConsumeFrame

\* SpeakerAssetsSupervisor::poll and the endpoint's poll before it.
Platform ==
  \/ SendUsbReply \/ ReadUsbEpoch \/ ObserveUsbRoute \/ RetireWifiReply
  \/ ImportOne \/ CoreStep \/ OfferReplies

WifiCarrier ==
  \/ WifiConnect \/ WifiGreet \/ WifiFrameArrives \/ WifiTakeResponse \/ WifiSend
  \/ WifiNext \/ WifiGreetFails \/ WifiLeaves \/ WifiDeactivate \/ WifiCloseRoute

Next ==
  \/ Platform \/ WifiCarrier \/ StoreWorks
  \/ UsbFrameArrives \/ Mount \/ Unmount
  \/ PartialAges \/ OwnerAges \/ VoiceTurns \/ BootReadEnds

Spec == Init /\ [][Next]_vars

\* The platform task polls, the worker works, clocks run, a started close is finished,
\* voice ends, and a host that stays connected takes the reply it is offered.
FairSpec ==
  /\ Spec
  /\ WF_vars(Platform) /\ SF_vars(SendUsbReply)
  /\ WF_vars(StoreWorks) /\ WF_vars(BootReadEnds)
  /\ WF_vars(PartialAges) /\ WF_vars(OwnerAges)
  /\ WF_vars(VoiceTurns /\ env.voice)
  /\ WF_vars(WifiTakeResponse) /\ WF_vars(WifiSend) /\ WF_vars(WifiNext)
  /\ WF_vars(WifiGreet) /\ WF_vars(WifiLeaves /\ wifi.pc \in {"wait", "leave"})
  /\ WF_vars(WifiDeactivate) /\ WF_vars(WifiCloseRoute)

----------------------------------------------------------------------------
(* Properties. *)

Requests == [op : Ops \cup Immediate \cup {"None", "Bad"}, rid : Nat, cookie : Nat]
LeaseOk(l) == /\ l.route.via \in Vias \cup {"none"}
              /\ l.route.gen \in 0..(env.scene.mounts + env.scene.links)
              /\ l.id \in 0..env.scene.frames
AnswerOk(a) == LeaseOk(a.lease) /\ a.req \in Requests

\* Every component has its type, and every queue of the mailbox and the core, filled by
\* callbacks that know nothing of each other, stays within the array it is kept in.
TypeOK ==
  /\ Len(box.data) <= DataSlots /\ Len(box.closes) <= CloseSlots
  /\ box.next \in 1..(env.scene.frames + 1) /\ LeaseOk(box.reserved)
  /\ \A rec \in Range(box.data) : rec.kind \in {"Open", "Close", "Frame"} /\ LeaseOk(rec.lease)
  /\ Len(core.lifecycle) <= LifecycleSlots /\ Len(core.ingress) <= DataSlots
  /\ Len(core.replies) <= ReplySlots /\ Cardinality(core.active) <= ActiveRoutes
  /\ \A a \in Range(core.replies) \cup {sup.queued, usb.slot, wifi.pending, wifi.sending,
                                       wifi.accepted} : AnswerOk(a)
  /\ ses.phase \in {"Idle", "BeginAssembly", "Ready", "UnitAssembly", "ActionPending"}
  /\ (ses.phase = "ActionPending") = (core.action # NoAction)
  /\ exec.stage \in {"none", "running", "ok", "other", "fail"}
  /\ sup.pc \in {"send", "epoch", "observe", "retire", "import", "core", "offer"}
  /\ sup.left \in 0..CoreSteps
  /\ wifi.pc \in {"idle", "greet", "read", "wait", "send", "retire", "leave",
                  "deactivate", "close"}

\* A route frames are still taken for although the core has closed it for good: what a
\* stale USB epoch leaves behind (ObserveUsbRoute).  Only a new lifetime ends it.
StruckOff(r) == r.gen # 0 /\ box.route[r.via] = r.gen /\ r \in core.closed

\* The one admission is never lost: as long as it is reserved, that very request is still
\* in the mailbox, in the core, at the store or waiting as an answer.  If not, every
\* transport is told that the keyboard is busy until it restarts.
AdmissionHeld ==
  box.reserved # NoLease /\ ~StruckOff(box.reserved.route) =>
    \/ \E rec \in Range(box.data) : rec.lease = box.reserved
    \/ \E e \in Range(core.ingress) \cup Range(core.replies) : e.lease = box.reserved
    \/ core.lease = box.reserved

\* An answer belongs to a route that is still open, and one that reports success to an
\* operation the store carried out for exactly this route, request and session; an answer
\* remembered for a lost App is never given to the next one.
AnswersAreEarned ==
  \A a \in Range(core.replies) :
    /\ a.lease.route \in core.active
    /\ a.reply.status = "Ok" /\ a.req.op \in Ops =>
         [route |-> a.lease.route, op |-> a.req.op, rid |-> a.req.rid,
          cookie |-> a.req.cookie] \in exec.done

\* The unit or plan the store's worker reads in place does not change under it, however its
\* route ends meanwhile.
BorrowedBytesStay == exec.stage = "running" => exec.bytes = Borrowed(exec.action)
\* A request of an open session that was carried out is answered from memory when it is sent
\* again; the store does not carry it out twice.
CarriedOutOnce ==
  exec.stage = "running" /\ exec.action.cookie # 0 =>
    ~\E d \in exec.done : [d EXCEPT !.route = NoRoute] = [exec.action EXCEPT !.route = NoRoute]
\* Both together: what the store is given to do.
StoreJobsAreSound == BorrowedBytesStay /\ CarriedOutOnce

\* Once the App falls silent, the admission and the session are given back: a transfer
\* that was cut off anywhere never keeps the next one out.
EverythingIsReleased ==
  <>[](/\ box.reserved = NoLease \/ StruckOff(box.reserved.route)
       /\ ses.phase = "Idle")

\* A connection that is announced to the App can be answered: no answer of an earlier
\* connection is left in the slot every answer must pass through.
ReadyIsUsable == wifi.pc = "idle" => wifi.pending = NoAnswer
=============================================================================
