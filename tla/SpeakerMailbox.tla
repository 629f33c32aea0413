--------------------------- MODULE SpeakerMailbox ---------------------------
(***************************************************************************)
(* The mailbox between the transports and the sound protocol               *)
(* (SpeakerAssetsRuntimeMailbox, speaker_assets_runtime.cpp; the route it  *)
(* tracks for each transport, speaker_assets_supervisor.cpp).              *)
(*                                                                         *)
(* Callbacks of the USB and Wi-Fi tasks put route changes and frames in,   *)
(* the platform task takes them out; every operation is one critical       *)
(* section under mailbox_mux_, so here each is a function from a mailbox   *)
(* to a mailbox.  One request at a time holds the admission.               *)
(***************************************************************************)
EXTENDS Naturals, Sequences, FiniteSets, Functions

CONSTANTS
  DataSlots,   \* kSpeakerAssetsRuntimeIngressCapacity
  CloseSlots   \* kSpeakerAssetsRuntimeMailboxCloseCapacity

ASSUME MailboxHasRoom == DataSlots \in Nat \ {0} /\ CloseSlots \in Nat \ {0}

\* One lifetime of one transport; generation 0 is none.
Vias == {"usb", "wifi"}
RouteOf(via, gen) == [via |-> via, gen |-> gen]
NoRoute == RouteOf("none", 0)

LeaseOf(route, id) == [route |-> route, id |-> id]
NoLease == LeaseOf(NoRoute, 0)

Record(kind, lease, frame) == [kind |-> kind, lease |-> lease, frame |-> frame]
OpenOf(r) == Record("Open", LeaseOf(r, 0), <<>>)
CloseOf(r) == Record("Close", LeaseOf(r, 0), <<>>)

EmptyMailbox ==
  [data |-> <<>>, closes |-> <<>>,
   reserved |-> NoLease,     \* the admission, and for whom
   next |-> 1,               \* next_admission_id_
   revokeAll |-> FALSE,      \* revoke_all_pending_
   overflow |-> NoRoute,     \* revoke_all_overflow_route_
   failClosed |-> FALSE,     \* resource_sync_fail_closed_
   route |-> [v \in Vias |-> 0]]   \* mailbox_usb_route_, mailbox_wifi_route_

\* What a purge leaves of a ring: it turns the ring once and puts back, in order, the
\* entries at the positions it keeps.
Nth(I, n) == CHOOSE i \in I : Cardinality({j \in I : j <= i}) = n
Kept(s, I) == [n \in 1..Cardinality(I) |-> s[Nth(I, n)]]

IsCloseOf(rec, r) == rec.kind = "Close" /\ rec.lease.route = r

ClosePending(b, r) ==
  \/ b.revokeAll /\ b.overflow = r
  \/ r \in Range(b.closes)
  \/ \E rec \in Range(b.data) : IsCloseOf(rec, r)

\* purge_pending_route
Purged(b, r) ==
  [b EXCEPT !.data = Kept(@, {i \in DOMAIN @ : @[i].lease.route # r})]

\* release_logical_request: compares the exact lease, so it never frees a newer one.
Released(b, lease) ==
  IF lease = NoLease \/ b.reserved # lease THEN b
  ELSE [b EXCEPT !.data = Kept(@, {i \in DOMAIN @ : @[i].lease # lease}),
                 !.reserved = NoLease]

\* Mutant: a close leaves the admission of its route reserved.
KeepReservation(b, r) == b

\* revoke_logical_request_for_route
ReservationRevoked(b, r) == IF b.reserved.route = r THEN Released(b, b.reserved) ELSE b

\* retain_fail_closed_tombstone
Tombstoned(b, r) ==
  IF ClosePending(b, r) THEN b
  ELSE IF Len(b.data) >= DataSlots THEN [b EXCEPT !.failClosed = TRUE]
  ELSE [b EXCEPT !.data = Append(@, CloseOf(r))]

\* fail_close_pending_data: opens become closes, payload is dropped.
FailClosedData(data) ==
  LET left == Kept(data, {i \in DOMAIN data : data[i].kind # "Frame"})
  IN  [i \in DOMAIN left |-> CloseOf(left[i].lease.route)]

\* What enqueue_route_opened answers, and what it leaves behind.
OpenAnswer(b, r) ==
  IF b.failClosed \/ ClosePending(b, r) THEN "Coalesced"
  ELSE IF ~b.revokeAll /\ Len(b.data) >= DataSlots THEN "Full"
  ELSE "Accepted"

Opened(b, r) ==
  IF OpenAnswer(b, r) # "Accepted" THEN b
  ELSE IF b.revokeAll THEN Tombstoned(b, r)
  ELSE [b EXCEPT !.data = Append(@, OpenOf(r))]

\* enqueue_route_closed: a close that finds no room closes everything.
Closed(b, r) ==
  LET p == ReservationRevoked(Purged(b, r), r)
  IN  IF p.failClosed THEN p
      ELSE IF p.revokeAll THEN Tombstoned(p, r)
      ELSE IF ClosePending(p, r) THEN p
      ELSE IF Len(p.closes) < CloseSlots THEN [p EXCEPT !.closes = Append(@, r)]
      ELSE [p EXCEPT !.revokeAll = TRUE, !.overflow = r,
                     !.data = FailClosedData(@), !.reserved = NoLease]

\* Mutant: the room for a frame is not checked.
FrameAlwaysFits(b, r) ==
  /\ ~b.revokeAll /\ ~b.failClosed
  /\ ~ClosePending(b, r)
  /\ b.reserved = NoLease

\* reserve_logical_frame_request and the checks of enqueue_usb_frame, enqueue_wifi_frame.
FrameFits(b, r) ==
  /\ ~b.revokeAll /\ ~b.failClosed
  /\ ~ClosePending(b, r)
  /\ b.reserved = NoLease
  /\ Len(b.data) < DataSlots

\* enqueue_data of a frame, under a fresh admission.
Framed(b, r, frame) ==
  LET lease == LeaseOf(r, b.next)
  IN  [b EXCEPT !.data = Append(@, Record("Frame", lease, frame)),
                !.reserved = lease, !.next = @ + 1]

\* ensure_mailbox_usb_route_locked, ensure_mailbox_wifi_route_locked: the transport's
\* new lifetime closes the one before.  USB takes a coalesced open for an open.
GoodOpen(via) == IF via = "usb" THEN {"Accepted", "Coalesced"} ELSE {"Accepted"}

Ensured(b, via, gen) ==
  IF b.route[via] = gen THEN b
  ELSE LET c == IF b.route[via] = 0 THEN b
                ELSE [Closed(b, RouteOf(via, b.route[via])) EXCEPT !.route[via] = 0]
           r == RouteOf(via, gen)
       IN  IF gen = 0 \/ OpenAnswer(c, r) \notin GoodOpen(via) THEN c
           ELSE [Opened(c, r) EXCEPT !.route[via] = gen]

\* enqueue_usb_frame, enqueue_wifi_frame of the supervisor: route first, then the frame.
Accepts(b, r) ==
  LET e == Ensured(b, r.via, r.gen) IN e.route[r.via] = r.gen /\ FrameFits(e, r)
Received(b, r, frame) ==
  LET e == Ensured(b, r.via, r.gen)
  IN  IF Accepts(b, r) THEN Framed(e, r, frame) ELSE e

\* enqueue_wifi_route(false) and forget_mailbox_wifi_route_locked.
Forgotten(b, r) ==
  LET c == Closed(b, r)
  IN  IF c.route[r.via] = r.gen THEN [c EXCEPT !.route[r.via] = 0] ELSE c

\* take_next: the global revocation, then closes, then data in order.
Nothing == Record("None", NoLease, <<>>)
Front(b) ==
  IF b.revokeAll THEN Record("CloseAll", LeaseOf(b.overflow, 0), <<>>)
  ELSE IF b.closes # <<>> THEN CloseOf(Head(b.closes))
  ELSE IF b.data # <<>> THEN Head(b.data)
  ELSE Nothing
Taken(b) ==
  IF b.revokeAll THEN [b EXCEPT !.revokeAll = FALSE, !.overflow = NoRoute]
  ELSE IF b.closes # <<>> THEN [b EXCEPT !.closes = Tail(@)]
  ELSE IF b.data # <<>> THEN [b EXCEPT !.data = Tail(@)]
  ELSE b
=============================================================================
