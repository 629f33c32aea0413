-------------------------- MODULE SpeakerSyncProofs --------------------------
(***************************************************************************)
(* The one admission of the sound transfer is never lost, every queue      *)
(* stays within its array, answers are earned and no request is carried    *)
(* out twice, for any number of routes, frames and slots.                  *)
(*                                                                         *)
(* The invariant SyncOk(n, k) speaks of a scene with n route generations   *)
(* and k frames.  Its parts:                                               *)
(*                                                                         *)
(*   - MailOk: at most one frame is in the mailbox, and it is the one the  *)
(*     admission was given to; the admission's route is the one its        *)
(*     transport has; when everything is revoked it is free;               *)
(*   - LeasesOk: a request that waits in ingress is not answered yet, and  *)
(*     no two have the same lease; releasing the admission by its exact    *)
(*     lease therefore never strikes a request that is still on its way;   *)
(*   - SeqsOk: the answer offered to USB is found again by its number;     *)
(*   - StaleOk and CountOk: a request whose admission was taken away waits *)
(*     in ingress no longer than the close of its route needs to arrive,   *)
(*     and there are no more requests than were sent.  So a frame that     *)
(*     leaves the mailbox finds room in the core;                          *)
(*   - HeldOk: where the admission's request is;                           *)
(*   - PendingOk, SesOk: core and session agree on the pending action.     *)
(*                                                                         *)
(* Most steps are one of three kinds: a change of a route in the mailbox   *)
(* (RouteStep), a frame put into it (FrameStep), a move of requests in the *)
(* core (CoreMove).  Each kind is shown to keep the invariant once, each   *)
(* operation to be of its kind.                                            *)
(*                                                                         *)
(* StoryOk adds what relates the transfer to the work the store has done:  *)
(*                                                                         *)
(*   - Ordered: requests are in the mailbox, in ingress, pending and done  *)
(*     in the order in which the App makes them;                           *)
(*   - RepliesOk, RecallOk: answers in the queue, and those remembered,    *)
(*     report success only of what was done;                               *)
(*   - JobOk: the store's worker has the pending action and its bytes;     *)
(*   - CookiesOk: the next session's cookie is new;                        *)
(*   - OnceOk: what was done for the open session is remembered, or no     *)
(*     frame and no request of the App can ask for it any more.            *)
(*                                                                         *)
(* SyncOk is proved first; StoryOk is kept by steps that start in both.    *)
(***************************************************************************)
EXTENDS SpeakerSync, FiniteSetTheorems, TLAPS

-----------------------------------------------------------------------------
(* The n-th smallest number of a set, and what a purge leaves of a queue. *)

UpTo(S, j) == {k \in S : k <= j}
Numbers(S) == S \subseteq Nat /\ IsFiniteSet(S)

\* The elements of a finite set of numbers have different ranks, from 1 to its size ...
LEMMA RanksDiffer ==
  ASSUME NEW S, Numbers(S)
  PROVE  /\ Cardinality(S) \in Nat
         /\ \A j \in S : Cardinality(UpTo(S, j)) \in 1..Cardinality(S)
         /\ \A j, k \in S : Cardinality(UpTo(S, j)) = Cardinality(UpTo(S, k)) => j = k
<1>1. \A j \in S : IsFiniteSet(UpTo(S, j)) /\ Cardinality(UpTo(S, j)) \in Nat
                   /\ Cardinality(UpTo(S, j)) <= Cardinality(S)
  <2> SUFFICES ASSUME NEW j \in S
               PROVE  IsFiniteSet(UpTo(S, j)) /\ Cardinality(UpTo(S, j)) \in Nat
                      /\ Cardinality(UpTo(S, j)) <= Cardinality(S)
    OBVIOUS
  <2>1. UpTo(S, j) \in SUBSET S
    BY DEF UpTo
  <2> QED
    BY <2>1, FS_Subset, FS_CardinalityType DEF Numbers
<1>2. \A j \in S : Cardinality(UpTo(S, j)) # 0
  <2> SUFFICES ASSUME NEW j \in S PROVE Cardinality(UpTo(S, j)) # 0
    OBVIOUS
  <2>1. j \in UpTo(S, j)
    BY DEF UpTo, Numbers
  <2> QED
    BY <1>1, <2>1, FS_EmptySet
<1>3. \A j, k \in S : Cardinality(UpTo(S, j)) = Cardinality(UpTo(S, k)) /\ j <= k => j = k
  <2> SUFFICES ASSUME NEW j \in S, NEW k \in S, j <= k,
                      Cardinality(UpTo(S, j)) = Cardinality(UpTo(S, k))
               PROVE  j = k
    OBVIOUS
  <2>1. \A i \in S : i \in Nat
    BY DEF Numbers
  <2>2. \A i \in S : i <= j => i <= k
    BY <2>1
  <2>3. UpTo(S, j) \in SUBSET UpTo(S, k)
    BY <2>2 DEF UpTo
  <2>4. UpTo(S, j) = UpTo(S, k)
    BY <1>1, <2>3, FS_Subset
  <2>5. k \in UpTo(S, k)
    BY <2>1 DEF UpTo
  <2> QED
    BY <2>1, <2>4, <2>5 DEF UpTo
<1>4. Cardinality(S) \in Nat
  BY FS_CardinalityType DEF Numbers
<1>5. \A j, k \in S : j <= k \/ k <= j
  BY DEF Numbers
<1> QED
  BY <1>1, <1>2, <1>3, <1>4, <1>5

\* ... so that each rank has one element.
LEMMA NthIsRanked ==
  ASSUME NEW S, Numbers(S), NEW i \in 1..Cardinality(S)
  PROVE  /\ Nth(S, i) \in S
         /\ Cardinality(UpTo(S, Nth(S, i))) = i
         /\ \A j \in S : Cardinality(UpTo(S, j)) = i => j = Nth(S, i)
<1> DEFINE n == Cardinality(S)
           rank == [j \in S |-> Cardinality(UpTo(S, j))]
<1>1. n \in Nat /\ IsFiniteSet(1..n) /\ Cardinality(1..n) = n
  BY RanksDiffer, FS_Interval
<1>2. rank \in Injection(S, 1..n)
  BY RanksDiffer DEF Injection, IsInjective
<1>3. rank \in Surjection(S, 1..n)
  BY <1>1, <1>2, FS_Injection
<1>4. \E j \in S : Cardinality(UpTo(S, j)) = i
  BY <1>3 DEF Surjection
<1>5. \E j \in S : Cardinality({k \in S : k <= j}) = i
  BY <1>4 DEF UpTo
<1>6. Nth(S, i) \in S /\ Cardinality({k \in S : k <= Nth(S, i)}) = i
  BY <1>5 DEF Nth
<1> QED
  BY <1>6, RanksDiffer DEF UpTo

\* A number larger than all others comes last.

\* The positions a purge keeps are numbers.
LEMMA PositionsAreNumbers ==
  ASSUME NEW S, NEW s \in Seq(S), NEW I \in SUBSET (DOMAIN s)
  PROVE  Numbers(I) /\ Cardinality(I) \in Nat /\ Cardinality(I) <= Len(s)
<1>1. Len(s) \in Nat /\ DOMAIN s = 1..Len(s)
  OBVIOUS
<1>2. IsFiniteSet(1..Len(s)) /\ Cardinality(1..Len(s)) = Len(s)
  <2> DEFINE l == Len(s)
  <2>1. l \in Nat
    BY <1>1
  <2> HIDE DEF l
  <2> SUFFICES IsFiniteSet(1..l) /\ Cardinality(1..l) = l
    BY DEF l
  <2> QED
    BY <2>1, FS_Interval
<1>3. I \in SUBSET (1..Len(s))
  BY <1>1
<1>4. IsFiniteSet(I) /\ Cardinality(I) <= Len(s)
  BY <1>2, <1>3, FS_Subset
<1> QED
  BY <1>3, <1>4, FS_CardinalityType DEF Numbers

\* A purge keeps the entries at these positions, each once and in their order.
LEMMA PurgeKeeps ==
  ASSUME NEW S, NEW s \in Seq(S), NEW I \in SUBSET (DOMAIN s)
  PROVE  /\ Kept(s, I) \in Seq(S)
         /\ DOMAIN Kept(s, I) = 1..Cardinality(I) /\ Len(Kept(s, I)) = Cardinality(I)
         /\ Cardinality(I) \in Nat /\ Cardinality(I) <= Len(s)
         /\ \A n \in 1..Cardinality(I) : Nth(I, n) \in I /\ Kept(s, I)[n] = s[Nth(I, n)]
         /\ \A i \in I : \E n \in 1..Cardinality(I) : Nth(I, n) = i /\ Kept(s, I)[n] = s[i]
         /\ \A m, n \in 1..Cardinality(I) : Nth(I, m) = Nth(I, n) => m = n
         /\ \A m, n \in 1..Cardinality(I) : Nth(I, m) < Nth(I, n) => m < n
<1> DEFINE c == Cardinality(I)
<1>1. Numbers(I) /\ c \in Nat /\ c <= Len(s)
  BY PositionsAreNumbers
<1>2. \A n \in 1..c : Nth(I, n) \in I /\ Cardinality(UpTo(I, Nth(I, n))) = n
  BY <1>1, NthIsRanked
<1>3. \A n \in 1..c : s[Nth(I, n)] \in S
  BY <1>2
<1>4. Kept(s, I) = [n \in 1..c |-> s[Nth(I, n)]]
  BY DEF Kept
<1> HIDE DEF c
<1>5. Kept(s, I) \in Seq(S) /\ DOMAIN Kept(s, I) = 1..c /\ Len(Kept(s, I)) = c
  BY <1>1, <1>3, <1>4
<1>6. \A n \in 1..c : Kept(s, I)[n] = s[Nth(I, n)]
  BY <1>4
<1>7. \A i \in I : \E n \in 1..c : Nth(I, n) = i
  <2> SUFFICES ASSUME NEW i \in I PROVE \E n \in 1..c : Nth(I, n) = i
    OBVIOUS
  <2>1. Cardinality(UpTo(I, i)) \in 1..c
    BY <1>1, RanksDiffer DEF c
  <2>2. i = Nth(I, Cardinality(UpTo(I, i)))
    BY <1>1, <2>1, NthIsRanked DEF c
  <2> QED
    BY <2>1, <2>2
<1>8. \A m, n \in 1..c : Nth(I, m) = Nth(I, n) => m = n
  BY <1>2
<1>9. \A m, n \in 1..c : Nth(I, m) < Nth(I, n) => m < n
  <2> SUFFICES ASSUME NEW m \in 1..c, NEW n \in 1..c, Nth(I, m) < Nth(I, n) PROVE m < n
    OBVIOUS
  <2> DEFINE i == Nth(I, m)
             j == Nth(I, n)
  <2>1. i \in I /\ j \in I /\ \A k \in I : k \in Nat
    BY <1>1, <1>2 DEF Numbers
  <2>2. UpTo(I, i) \in SUBSET UpTo(I, j)
    BY <2>1 DEF UpTo
  <2>3. IsFiniteSet(UpTo(I, j))
    <3>1. UpTo(I, j) \in SUBSET I
      BY DEF UpTo
    <3> QED
      BY <1>1, <3>1, FS_Subset DEF Numbers
  <2>4. m <= n
    BY <1>2, <2>2, <2>3, FS_Subset
  <2>5. m # n
    BY <2>1
  <2> QED
    BY <1>1, <2>4, <2>5
<1> QED
  BY <1>1, <1>2, <1>5, <1>6, <1>7, <1>8, <1>9 DEF c

-----------------------------------------------------------------------------
(* The mailbox, with n generations of routes and k admissions at most. *)

Routes(n) == [via : Vias \cup {"none"}, gen : 0..n]
Lifes(n) == [via : Vias, gen : 0..n]
Leases(n, k) == [route : Routes(n), id : 0..k]
AppFrame == [op : Ops \cup Immediate \cup {"Bad"}, rid : Nat, cookie : Nat, part : Parts]
Records(n, k) ==
  [kind : {"Open", "Close", "Frame"}, lease : [route : Lifes(n), id : 0..k],
   frame : AppFrame \cup {<<>>}]
Mailboxes(n, k) ==
  [data : Seq(Records(n, k)), closes : Seq(Lifes(n)), reserved : Leases(n, k), next : 1..(k + 1),
   revokeAll : BOOLEAN, overflow : Routes(n), failClosed : BOOLEAN, route : [Vias -> 0..n]]

FrameAt(d) == {i \in DOMAIN d : d[i].kind = "Frame"}
FramesAt(d) == {d[i].frame : i \in FrameAt(d)}
OneFrame(d) == \A i, j \in FrameAt(d) : i = j

\* The one frame a mailbox may hold is the request that was admitted.
DataOk(n, k, d, lease) ==
  /\ d \in Seq(Records(n, k)) /\ Len(d) <= DataSlots
  /\ \A i \in FrameAt(d) : lease # NoLease /\ d[i].lease = lease /\ d[i].frame \in AppFrame
  /\ OneFrame(d)
  /\ \A i \in DOMAIN d : d[i].kind # "Frame" => d[i].lease.id = 0

\* An admission belongs to the route its transport has, and has been given out.
AdmissionOk(b) ==
  b.reserved # NoLease =>
    /\ b.reserved.id \in 1..(b.next - 1)
    /\ b.reserved.route.via \in Vias /\ b.reserved.route.gen # 0
    /\ b.route[b.reserved.route.via] = b.reserved.route.gen

MailOk(n, k, b) ==
  /\ b \in Mailboxes(n, k)
  /\ DataOk(n, k, b.data, b.reserved) /\ Len(b.closes) <= CloseSlots
  /\ AdmissionOk(b)
  /\ b.revokeAll \/ b.failClosed => b.reserved = NoLease

\* A close of r is taken out before a frame is.
CloseFirst(d, r) ==
  \E i \in DOMAIN d : IsCloseOf(d[i], r) /\ \A j \in FrameAt(d) : i < j
CloseAhead(b, r) ==
  \/ b.revokeAll \/ b.failClosed
  \/ \E i \in DOMAIN b.closes : b.closes[i] = r
  \/ CloseFirst(b.data, r)

\* What an operation on routes does: the admission stays, with its frame, or its route is
\* closed; a close that is on its way stays ahead.
RouteStep(n, b, c) ==
  /\ c.next = b.next
  /\ \/ c.reserved = b.reserved
     \/ c.reserved = NoLease /\ CloseAhead(c, b.reserved.route)
  /\ FramesAt(c.data) \subseteq FramesAt(b.data)
  /\ FrameAt(c.data) # {} => FrameAt(b.data) # {}
  /\ c.reserved # NoLease /\ FrameAt(b.data) # {} => FrameAt(c.data) # {}
  /\ \A r \in Routes(n) : CloseAhead(b, r) => CloseAhead(c, r)

LEMMA RoutesAndLeases ==
  ASSUME NEW n \in Nat, NEW k \in Nat
  PROVE  /\ NoRoute \in Routes(n) /\ NoLease \in Leases(n, k)
         /\ \A v \in Vias, g \in 0..n : RouteOf(v, g) \in Lifes(n)
         /\ \A r \in Lifes(n) : r \in Routes(n) /\ r.via \in Vias /\ r.gen \in 0..n /\ r # NoRoute
         /\ \A r \in Routes(n) : r = RouteOf(r.via, r.gen)
         /\ \A r \in Routes(n), i \in 0..k : LeaseOf(r, i) \in Leases(n, k)
         /\ \A l \in Leases(n, k) : l.route \in Routes(n) /\ l.id \in 0..k /\ l = LeaseOf(l.route, l.id)
         /\ \A r \in Lifes(n) : OpenOf(r) \in Records(n, k) /\ CloseOf(r) \in Records(n, k)
         /\ \A x \in Records(n, k) : x.lease \in Leases(n, k) /\ x.lease.route \in Lifes(n)
<1>1. NoRoute \in Routes(n)
  BY DEF NoRoute, RouteOf, Routes
<1>2. /\ \A v \in Vias, g \in 0..n : RouteOf(v, g) \in Lifes(n)
      /\ \A r \in Lifes(n) : r \in Routes(n) /\ r.via \in Vias /\ r.gen \in 0..n /\ r # NoRoute
  BY DEF RouteOf, Routes, Lifes, NoRoute, Vias
<1>3. \A r \in Routes(n) : r = RouteOf(r.via, r.gen)
  BY DEF RouteOf, Routes
<1>4. \A r \in Routes(n), i \in 0..k : LeaseOf(r, i) \in Leases(n, k)
  BY DEF LeaseOf, Leases
<1>5. NoLease \in Leases(n, k)
  BY <1>1, <1>4 DEF NoLease
<1>6. \A l \in Leases(n, k) : l.route \in Routes(n) /\ l.id \in 0..k /\ l = LeaseOf(l.route, l.id)
  BY DEF LeaseOf, Leases
<1>7. ASSUME NEW r \in Lifes(n) PROVE OpenOf(r) \in Records(n, k) /\ CloseOf(r) \in Records(n, k)
  <2>1. LeaseOf(r, 0) \in [route : Lifes(n), id : 0..k]
    BY DEF LeaseOf
  <2> QED
    BY <2>1 DEF OpenOf, CloseOf, Record, Records
<1>8. \A x \in Records(n, k) : x.lease \in Leases(n, k) /\ x.lease.route \in Lifes(n)
  BY DEF Records, Leases, Lifes, Routes
<1> QED
  BY <1>1, <1>2, <1>3, <1>4, <1>5, <1>6, <1>7, <1>8

LEMMA RecordFields ==
  ASSUME NEW n \in Nat, NEW k \in Nat
  PROVE  /\ \A r \in Lifes(n) : OpenOf(r).kind = "Open" /\ OpenOf(r).lease.id = 0
         /\ \A r \in Lifes(n) : /\ CloseOf(r).kind = "Close" /\ CloseOf(r).lease.id = 0
                                 /\ CloseOf(r).lease.route = r /\ IsCloseOf(CloseOf(r), r)
         /\ NoLease.id = 0 /\ NoLease.route = NoRoute /\ NoRoute.gen = 0 /\ NoRoute.via = "none"
BY DEF OpenOf, CloseOf, Record, LeaseOf, IsCloseOf, NoLease, NoRoute, RouteOf

\* One field of a mailbox is written.
LEMMA MailboxFields ==
  ASSUME NEW n \in Nat, NEW k \in Nat, NEW b \in Mailboxes(n, k)
  PROVE  /\ b.data \in Seq(Records(n, k)) /\ b.closes \in Seq(Lifes(n))
         /\ b.reserved \in Leases(n, k) /\ b.next \in 1..(k + 1)
         /\ b.revokeAll \in BOOLEAN /\ b.failClosed \in BOOLEAN /\ b.overflow \in Routes(n)
         /\ b.route \in [Vias -> 0..n]
BY DEF Mailboxes

LEMMA SetData ==
  ASSUME NEW n \in Nat, NEW k \in Nat, NEW b \in Mailboxes(n, k), NEW d \in Seq(Records(n, k))
  PROVE  [b EXCEPT !.data = d] \in Mailboxes(n, k)
BY DEF Mailboxes
LEMMA SetCloses ==
  ASSUME NEW n \in Nat, NEW k \in Nat, NEW b \in Mailboxes(n, k), NEW s \in Seq(Lifes(n))
  PROVE  [b EXCEPT !.closes = s] \in Mailboxes(n, k)
BY DEF Mailboxes
LEMMA SetReserved ==
  ASSUME NEW n \in Nat, NEW k \in Nat, NEW b \in Mailboxes(n, k), NEW l \in Leases(n, k)
  PROVE  [b EXCEPT !.reserved = l] \in Mailboxes(n, k)
BY DEF Mailboxes
LEMMA SetRevoked ==
  ASSUME NEW n \in Nat, NEW k \in Nat, NEW b \in Mailboxes(n, k), NEW x \in BOOLEAN, NEW r \in Routes(n)
  PROVE  [b EXCEPT !.revokeAll = x, !.overflow = r] \in Mailboxes(n, k)
BY DEF Mailboxes
LEMMA SetFailClosed ==
  ASSUME NEW n \in Nat, NEW k \in Nat, NEW b \in Mailboxes(n, k)
  PROVE  [b EXCEPT !.failClosed = TRUE] \in Mailboxes(n, k)
BY DEF Mailboxes
LEMMA SetRoute ==
  ASSUME NEW n \in Nat, NEW k \in Nat, NEW b \in Mailboxes(n, k), NEW v \in Vias, NEW g \in 0..n
  PROVE  [b EXCEPT !.route[v] = g] \in Mailboxes(n, k)
BY DEF Mailboxes
LEMMA SetNext ==
  ASSUME NEW n \in Nat, NEW k \in Nat, NEW b \in Mailboxes(n, k), NEW i \in 1..(k + 1)
  PROVE  [b EXCEPT !.next = i] \in Mailboxes(n, k)
BY DEF Mailboxes

\* What a purge leaves of the mailbox's data.
LEMMA PurgedData ==
  ASSUME NEW n \in Nat, NEW k \in Nat, NEW d \in Seq(Records(n, k)), NEW I \in SUBSET (DOMAIN d),
         NEW e, e = Kept(d, I)
  PROVE  /\ e \in Seq(Records(n, k)) /\ Len(e) <= Len(d)
         /\ \A i \in DOMAIN e : \E j \in I : e[i] = d[j]
         /\ \A j \in I : \E i \in DOMAIN e : e[i] = d[j]
         /\ OneFrame(d) => OneFrame(e)
         /\ \A r : CloseFirst(d, r) /\ {i \in DOMAIN d : IsCloseOf(d[i], r)} \subseteq I => CloseFirst(e, r)
<1> DEFINE c == Cardinality(I)
<1>0. /\ Kept(d, I) \in Seq(Records(n, k))
      /\ DOMAIN Kept(d, I) = 1..c /\ Len(Kept(d, I)) = c
      /\ c \in Nat /\ c <= Len(d)
      /\ \A i \in 1..c : Nth(I, i) \in I /\ Kept(d, I)[i] = d[Nth(I, i)]
      /\ \A j \in I : \E i \in 1..c : Nth(I, i) = j /\ Kept(d, I)[i] = d[j]
      /\ \A i, j \in 1..c : Nth(I, i) = Nth(I, j) => i = j
      /\ \A i, j \in 1..c : Nth(I, i) < Nth(I, j) => i < j
  BY PurgeKeeps, Zenon
<1> HIDE DEF c
<1>1. /\ e \in Seq(Records(n, k)) /\ DOMAIN e = 1..c /\ Len(e) = c /\ c \in Nat /\ c <= Len(d)
      /\ \A i \in 1..c : Nth(I, i) \in I /\ e[i] = d[Nth(I, i)]
      /\ \A j \in I : \E i \in 1..c : Nth(I, i) = j /\ e[i] = d[j]
      /\ \A i, j \in 1..c : Nth(I, i) = Nth(I, j) => i = j
      /\ \A i, j \in 1..c : Nth(I, i) < Nth(I, j) => i < j
  BY <1>0
<1>2. OneFrame(d) => OneFrame(e)
  <2> SUFFICES ASSUME OneFrame(d), NEW i \in FrameAt(e), NEW j \in FrameAt(e) PROVE i = j
    BY DEF OneFrame
  <2>1. Nth(I, i) \in FrameAt(d) /\ Nth(I, j) \in FrameAt(d)
    BY <1>1 DEF FrameAt
  <2>2. i \in 1..c /\ j \in 1..c
    BY <1>1 DEF FrameAt
  <2> QED
    BY <1>1, <2>1, <2>2 DEF OneFrame
<1>3. ASSUME NEW r, CloseFirst(d, r), {i \in DOMAIN d : IsCloseOf(d[i], r)} \subseteq I
      PROVE  CloseFirst(e, r)
  <2>1. PICK j \in DOMAIN d : IsCloseOf(d[j], r) /\ \A f \in FrameAt(d) : j < f
    BY <1>3 DEF CloseFirst
  <2>2. j \in I
    BY <1>3, <2>1
  <2>3. PICK i \in 1..c : Nth(I, i) = j /\ e[i] = d[j]
    BY <1>1, <2>2
  <2>4. \A f \in FrameAt(e) : i < f
    <3> SUFFICES ASSUME NEW f \in FrameAt(e) PROVE i < f
      OBVIOUS
    <3>1. f \in 1..c /\ Nth(I, f) \in FrameAt(d)
      BY <1>1 DEF FrameAt
    <3> QED
      BY <1>1, <2>1, <2>3, <3>1
  <2> QED
    BY <1>1, <2>1, <2>3, <2>4 DEF CloseFirst
<1> QED
  BY <1>1, <1>2, <1>3

\* A purge keeps what the mailbox needs of its data.
LEMMA PurgedDataOk ==
  ASSUME NEW n \in Nat, NEW k \in Nat, NEW d, NEW l, DataOk(n, k, d, l),
         NEW I \in SUBSET (DOMAIN d), NEW e, e = Kept(d, I)
  PROVE  /\ DataOk(n, k, e, l)
         /\ FramesAt(e) \subseteq FramesAt(d)
         /\ FrameAt(e) # {} => FrameAt(d) # {}
         /\ FrameAt(d) \subseteq I /\ FrameAt(d) # {} => FrameAt(e) # {}
         /\ FrameAt(d) \cap I = {} => FrameAt(e) = {} /\ DataOk(n, k, e, NoLease)
<1>1. d \in Seq(Records(n, k)) /\ Len(d) <= DataSlots
  BY DEF DataOk
<1>2. /\ e \in Seq(Records(n, k)) /\ Len(e) <= Len(d)
      /\ \A i \in DOMAIN e : \E j \in I : e[i] = d[j]
      /\ \A j \in I : \E i \in DOMAIN e : e[i] = d[j]
      /\ OneFrame(d) => OneFrame(e)
  BY <1>1, PurgedData
<1>3. Len(e) <= DataSlots
  BY <1>1, <1>2, MailboxHasRoom
<1>4. DataOk(n, k, e, l)
  BY <1>2, <1>3 DEF DataOk, FrameAt
<1>5. FrameAt(e) # {} => FrameAt(d) # {}
  BY <1>2 DEF FrameAt
<1>6. FrameAt(d) \subseteq I /\ FrameAt(d) # {} => FrameAt(e) # {}
  BY <1>2 DEF FrameAt
<1>7. FrameAt(d) \cap I = {} => FrameAt(e) = {}
  BY <1>2 DEF FrameAt
<1>8. FrameAt(e) = {} => DataOk(n, k, e, NoLease)
  BY <1>4 DEF DataOk
<1>9. FramesAt(e) \subseteq FramesAt(d)
  BY <1>2 DEF FrameAt, FramesAt
<1> QED
  BY <1>4, <1>5, <1>6, <1>7, <1>8, <1>9

\* Everything of the route leaves the data.
PurgeStep(n, b, r, c) ==
  /\ c.closes = b.closes /\ c.reserved = b.reserved /\ c.next = b.next
  /\ c.revokeAll = b.revokeAll /\ c.failClosed = b.failClosed /\ c.overflow = b.overflow
  /\ c.route = b.route /\ FramesAt(c.data) \subseteq FramesAt(b.data)
  /\ FrameAt(c.data) # {} => FrameAt(b.data) # {}
  /\ b.reserved.route # r /\ FrameAt(b.data) # {} => FrameAt(c.data) # {}
  /\ \A i \in DOMAIN c.data : c.data[i].lease.route # r
  /\ \A q \in Routes(n) : q # r /\ CloseFirst(b.data, q) => CloseFirst(c.data, q)

LEMMA PurgedMail ==
  ASSUME NEW n \in Nat, NEW k \in Nat, NEW b, MailOk(n, k, b), NEW r \in Routes(n),
         NEW c, c = Purged(b, r)
  PROVE  MailOk(n, k, c) /\ PurgeStep(n, b, r, c)
<1> DEFINE d == b.data
           I == {i \in DOMAIN d : d[i].lease.route # r}
           e == Kept(d, I)
<1>1. b \in Mailboxes(n, k) /\ DataOk(n, k, d, b.reserved) /\ d \in Seq(Records(n, k))
  BY DEF MailOk, DataOk
<1>2. I \in SUBSET (DOMAIN d) /\ e = Kept(d, I)
  OBVIOUS
<1>3. c = [b EXCEPT !.data = e]
  BY DEF Purged
<1> HIDE DEF e, I
<1>4. /\ DataOk(n, k, e, b.reserved) /\ FramesAt(e) \subseteq FramesAt(d)
      /\ FrameAt(e) # {} => FrameAt(d) # {}
      /\ FrameAt(d) \subseteq I /\ FrameAt(d) # {} => FrameAt(e) # {}
  BY <1>1, <1>2, PurgedDataOk
<1>5. /\ e \in Seq(Records(n, k)) /\ Len(e) <= Len(d)
      /\ \A i \in DOMAIN e : \E j \in I : e[i] = d[j]
      /\ \A q : CloseFirst(d, q) /\ {i \in DOMAIN d : IsCloseOf(d[i], q)} \subseteq I => CloseFirst(e, q)
  BY <1>1, <1>2, PurgedData
<1>6. \A i \in DOMAIN e : e[i].lease.route # r
  BY <1>5 DEF I
<1>7. \A q \in Routes(n) : q # r /\ CloseFirst(d, q) => CloseFirst(e, q)
  BY <1>5 DEF IsCloseOf, I
<1>8. b.reserved.route # r => FrameAt(d) \subseteq I
  BY <1>1 DEF DataOk, FrameAt, I
<1>9. c \in Mailboxes(n, k)
  BY <1>1, <1>3, <1>5, SetData
<1>10. /\ c.data = e /\ c.closes = b.closes /\ c.reserved = b.reserved /\ c.next = b.next
       /\ c.revokeAll = b.revokeAll /\ c.failClosed = b.failClosed /\ c.overflow = b.overflow
       /\ c.route = b.route
  BY <1>1, <1>3 DEF Mailboxes
<1>11. MailOk(n, k, c)
  BY <1>4, <1>9, <1>10 DEF MailOk, AdmissionOk
<1> QED
  BY <1>4, <1>6, <1>7, <1>8, <1>10, <1>11 DEF PurgeStep

\* The admission is given back with its frame, if it is this one.
ReleaseStep(n, b, l, c) ==
  /\ c.closes = b.closes /\ c.next = b.next
  /\ c.revokeAll = b.revokeAll /\ c.failClosed = b.failClosed /\ c.overflow = b.overflow
  /\ c.route = b.route /\ FramesAt(c.data) \subseteq FramesAt(b.data)
  /\ c = b \/ (l = b.reserved /\ c.reserved = NoLease /\ FrameAt(c.data) = {})
  /\ l = b.reserved => c.reserved = NoLease
  /\ FrameAt(c.data) # {} => FrameAt(b.data) # {}
  /\ \A i \in DOMAIN c.data : \E j \in DOMAIN b.data : c.data[i] = b.data[j]
  /\ \A q \in Routes(n) : CloseFirst(b.data, q) => CloseFirst(c.data, q)

LEMMA ReleasedMail ==
  ASSUME NEW n \in Nat, NEW k \in Nat, NEW b, MailOk(n, k, b), NEW l, NEW c, c = Released(b, l)
  PROVE  MailOk(n, k, c) /\ ReleaseStep(n, b, l, c)
<1>1. CASE l = NoLease \/ b.reserved # l
  <2>1. c = b
    BY <1>1 DEF Released
  <2> QED
    BY <1>1, <2>1 DEF ReleaseStep
<1>2. CASE l # NoLease /\ b.reserved = l
  <2> DEFINE d == b.data
             I == {i \in DOMAIN d : d[i].lease # l}
             e == Kept(d, I)
  <2>1. b \in Mailboxes(n, k) /\ DataOk(n, k, d, b.reserved) /\ d \in Seq(Records(n, k))
    BY DEF MailOk, DataOk
  <2>2. I \in SUBSET (DOMAIN d) /\ e = Kept(d, I)
    OBVIOUS
  <2>3. c = [b EXCEPT !.data = e, !.reserved = NoLease]
    BY <1>2 DEF Released
  <2>4. FrameAt(d) \cap I = {}
    BY <1>2, <2>1 DEF DataOk
  <2> HIDE DEF e, I
  <2>5. DataOk(n, k, e, NoLease) /\ FrameAt(e) = {} /\ FramesAt(e) \subseteq FramesAt(d)
    BY <2>1, <2>2, <2>4, PurgedDataOk
  <2>6. /\ e \in Seq(Records(n, k)) /\ Len(e) <= Len(d)
        /\ \A i \in DOMAIN e : \E j \in I : e[i] = d[j]
        /\ \A q : CloseFirst(d, q) /\ {i \in DOMAIN d : IsCloseOf(d[i], q)} \subseteq I => CloseFirst(e, q)
    BY <2>1, <2>2, PurgedData, SMTT(20)
  <2>7. l.id # 0
    BY <1>2, <2>1 DEF MailOk, AdmissionOk, Mailboxes, Leases
  <2>8. \A q : {i \in DOMAIN d : IsCloseOf(d[i], q)} \subseteq I
    BY <2>1, <2>7 DEF IsCloseOf, DataOk, I
  <2>9. \A i \in DOMAIN e : \E j \in DOMAIN d : e[i] = d[j]
    BY <2>2, <2>6
  <2>10. \A q \in Routes(n) : CloseFirst(d, q) => CloseFirst(e, q)
    BY <2>6, <2>8
  <2>11. NoLease \in Leases(n, k)
    BY RoutesAndLeases
  <2>12. c = [[b EXCEPT !.data = e] EXCEPT !.reserved = NoLease]
    BY <2>1, <2>3 DEF Mailboxes
  <2>13. c \in Mailboxes(n, k)
    <3> DEFINE b1 == [b EXCEPT !.data = e]
    <3>1. b1 \in Mailboxes(n, k) /\ c = [b1 EXCEPT !.reserved = NoLease]
      BY <2>1, <2>6, <2>12, SetData
    <3> HIDE DEF b1
    <3> QED
      BY <2>11, <3>1, SetReserved
  <2>14. /\ c.data = e /\ c.closes = b.closes /\ c.reserved = NoLease /\ c.next = b.next
         /\ c.revokeAll = b.revokeAll /\ c.failClosed = b.failClosed /\ c.overflow = b.overflow
         /\ c.route = b.route
    BY <2>1, <2>3 DEF Mailboxes
  <2>15. MailOk(n, k, c)
    BY <2>5, <2>13, <2>14 DEF MailOk, AdmissionOk
  <2> QED
    BY <1>2, <2>5, <2>9, <2>10, <2>14, <2>15 DEF ReleaseStep
<1> QED
  BY <1>1, <1>2

\* A record that is no frame is put at the end of the data.
Put(d, rec) == Append(d, rec)

LEMMA AppendedRecord ==
  ASSUME NEW n \in Nat, NEW k \in Nat, NEW d, NEW l, DataOk(n, k, d, l), Len(d) < DataSlots,
         NEW rec \in Records(n, k), rec.kind # "Frame", rec.lease.id = 0, NEW e, e = Put(d, rec)
  PROVE  /\ DataOk(n, k, e, l)
         /\ FrameAt(e) = FrameAt(d) /\ FramesAt(e) = FramesAt(d)
         /\ \A q : CloseFirst(d, q) => CloseFirst(e, q)
<1>1. d \in Seq(Records(n, k)) /\ Len(d) \in Nat /\ DOMAIN d = 1..Len(d)
  BY DEF DataOk
<1>2. /\ e \in Seq(Records(n, k)) /\ Len(e) = Len(d) + 1 /\ DOMAIN e = 1..(Len(d) + 1)
      /\ \A i \in 1..Len(d) : e[i] = d[i]
      /\ e[Len(d) + 1] = rec
  BY <1>1 DEF Put
<1>3. FrameAt(e) = FrameAt(d)
  <2>1. \A i \in DOMAIN e : i \in DOMAIN d \/ i = Len(d) + 1
    BY <1>1, <1>2
  <2> QED
    BY <1>1, <1>2, <2>1 DEF FrameAt
<1>4. DataOk(n, k, e, l)
  <2>1. Len(e) <= DataSlots
    BY <1>1, <1>2, MailboxHasRoom
  <2>2. \A i \in FrameAt(e) : l # NoLease /\ e[i].lease = l /\ e[i].frame \in AppFrame
    BY <1>1, <1>2, <1>3 DEF DataOk, FrameAt
  <2>3. OneFrame(e)
    BY <1>3 DEF DataOk, OneFrame
  <2>4. \A i \in DOMAIN e : e[i].kind # "Frame" => e[i].lease.id = 0
    BY <1>1, <1>2 DEF DataOk
  <2> QED
    BY <1>2, <2>1, <2>2, <2>3, <2>4 DEF DataOk
<1>5. \A q : CloseFirst(d, q) => CloseFirst(e, q)
  BY <1>1, <1>2, <1>3 DEF CloseFirst
<1>6. FramesAt(e) = FramesAt(d)
  <2>1. \A i \in FrameAt(d) : e[i] = d[i]
    BY <1>1, <1>2 DEF FrameAt
  <2> QED
    BY <1>3, <2>1 DEF FramesAt
<1> QED
  BY <1>3, <1>4, <1>5, <1>6

LEMMA StepsCompose ==
  ASSUME NEW n \in Nat, NEW k \in Nat, NEW a, NEW b, NEW c, MailOk(n, k, a),
         RouteStep(n, a, b), RouteStep(n, b, c)
  PROVE  RouteStep(n, a, c)
<1>1. a.reserved.route \in Routes(n)
  BY DEF MailOk, Mailboxes, Leases
<1> QED
  BY <1>1 DEF RouteStep

LEMMA NoStep == ASSUME NEW n, NEW b PROVE RouteStep(n, b, b)
BY DEF RouteStep

\* Tombstoned, under a pending revocation of everything.
LEMMA TombstonedMail ==
  ASSUME NEW n \in Nat, NEW k \in Nat, NEW b, MailOk(n, k, b), b.revokeAll, NEW r \in Lifes(n),
         NEW c, c = Tombstoned(b, r)
  PROVE  MailOk(n, k, c) /\ c.revokeAll /\ c.route = b.route /\ c.reserved = NoLease /\ RouteStep(n, b, c)
<1>1. b \in Mailboxes(n, k) /\ DataOk(n, k, b.data, NoLease) /\ b.reserved = NoLease
      /\ b.data \in Seq(Records(n, k))
  BY DEF MailOk, DataOk
<1>2. FrameAt(b.data) = {}
  BY <1>1 DEF DataOk
<1>3. CASE c = b
  BY <1>1, <1>3, NoStep
<1>4. CASE c = [b EXCEPT !.failClosed = TRUE]
  <2>1. c \in Mailboxes(n, k)
    BY <1>1, <1>4, SetFailClosed
  <2>2. /\ c.data = b.data /\ c.closes = b.closes /\ c.reserved = b.reserved /\ c.next = b.next
        /\ c.revokeAll = b.revokeAll /\ c.route = b.route
    BY <1>1, <1>4 DEF Mailboxes
  <2>3. MailOk(n, k, c)
    BY <1>1, <2>1, <2>2 DEF MailOk, AdmissionOk
  <2> QED
    BY <1>1, <2>2, <2>3 DEF RouteStep, CloseAhead
<1>5. CASE Len(b.data) < DataSlots /\ c = [b EXCEPT !.data = Append(@, CloseOf(r))]
  <2> DEFINE rec == CloseOf(r)
             d == b.data
             e == Put(d, rec)
  <2>1. rec \in Records(n, k) /\ rec.kind # "Frame" /\ rec.lease.id = 0
    BY RoutesAndLeases, RecordFields
  <2>a. rec = CloseOf(r) /\ d = b.data
    OBVIOUS
  <2>c. e = Put(d, rec)
    OBVIOUS
  <2> HIDE DEF e, rec, d
  <2>b. Len(d) < DataSlots /\ DataOk(n, k, d, NoLease)
    BY <1>1, <1>5, <2>a
  <2>2. DataOk(n, k, e, NoLease)
    BY <2>b, <2>1, <2>c, AppendedRecord
  <2>3. c = [b EXCEPT !.data = e] /\ e \in Seq(Records(n, k))
    BY <1>1, <1>5, <2>1, <2>2, <2>a, <2>c DEF Put, DataOk
  <2>4. c \in Mailboxes(n, k)
    BY <1>1, <2>3, SetData
  <2>5. /\ c.data = e /\ c.closes = b.closes /\ c.reserved = b.reserved /\ c.next = b.next
        /\ c.revokeAll = b.revokeAll /\ c.route = b.route
    BY <1>1, <2>3 DEF Mailboxes
  <2>6. FrameAt(e) = {} /\ FramesAt(e) = {}
    BY <2>2 DEF DataOk, FramesAt
  <2>7. MailOk(n, k, c)
    BY <1>1, <2>2, <2>4, <2>5 DEF MailOk, AdmissionOk
  <2> QED
    BY <1>1, <2>5, <2>6, <2>7 DEF RouteStep, CloseAhead
<1>6. Len(b.data) \in Nat /\ DataSlots \in Nat
  BY <1>1, MailboxHasRoom
<1> QED
  BY <1>3, <1>4, <1>5, <1>6 DEF Tombstoned

\* Opened: an open is put in, or remembered as a close.
LEMMA OpenedMail ==
  ASSUME NEW n \in Nat, NEW k \in Nat, NEW b, MailOk(n, k, b), NEW r \in Lifes(n),
         NEW c, c = Opened(b, r)
  PROVE  MailOk(n, k, c) /\ c.route = b.route /\ c.reserved = b.reserved /\ RouteStep(n, b, c)
<1>1. b \in Mailboxes(n, k) /\ DataOk(n, k, b.data, b.reserved) /\ b.data \in Seq(Records(n, k))
  BY DEF MailOk, DataOk
<1>2. CASE c = b
  BY <1>2, NoStep
<1>3. CASE b.revokeAll /\ c = Tombstoned(b, r)
  BY <1>3, TombstonedMail DEF MailOk
<1>4. CASE Len(b.data) < DataSlots /\ c = [b EXCEPT !.data = Append(@, OpenOf(r))]
  <2> DEFINE rec == OpenOf(r)
             d == b.data
             l == b.reserved
             e == Put(d, rec)
  <2>1. rec \in Records(n, k) /\ rec.kind # "Frame" /\ rec.lease.id = 0
    BY RoutesAndLeases, RecordFields
  <2>a. rec = OpenOf(r) /\ d = b.data /\ l = b.reserved
    OBVIOUS
  <2>c. e = Put(d, rec)
    OBVIOUS
  <2> HIDE DEF e, rec, d, l
  <2>b. Len(d) < DataSlots /\ DataOk(n, k, d, l)
    BY <1>1, <1>4, <2>a
  <2>2. /\ DataOk(n, k, e, l)
        /\ FrameAt(e) = FrameAt(d) /\ FramesAt(e) = FramesAt(d)
        /\ \A q : CloseFirst(d, q) => CloseFirst(e, q)
    BY <2>b, <2>1, <2>c, AppendedRecord
  <2>3. c = [b EXCEPT !.data = e] /\ e \in Seq(Records(n, k))
    BY <1>1, <1>4, <2>1, <2>2, <2>a, <2>c DEF Put, DataOk
  <2>4. c \in Mailboxes(n, k)
    BY <1>1, <2>3, SetData
  <2>5. /\ c.data = e /\ c.closes = b.closes /\ c.reserved = b.reserved /\ c.next = b.next
        /\ c.revokeAll = b.revokeAll /\ c.failClosed = b.failClosed /\ c.route = b.route
    BY <1>1, <2>3 DEF Mailboxes
  <2>6. MailOk(n, k, c)
    BY <2>2, <2>4, <2>5, <2>a DEF MailOk, AdmissionOk
  <2> QED
    BY <2>2, <2>5, <2>6, <2>a DEF RouteStep, CloseAhead
<1>5. Len(b.data) \in Nat /\ DataSlots \in Nat
  BY <1>1, MailboxHasRoom
<1> QED
  BY <1>2, <1>3, <1>4, <1>5 DEF Opened, OpenAnswer

\* What is left when everything is revoked: closes.
LEMMA FailClosedIsOk ==
  ASSUME NEW n \in Nat, NEW k \in Nat, NEW d \in Seq(Records(n, k)), Len(d) <= DataSlots
  PROVE  DataOk(n, k, FailClosedData(d), NoLease) /\ FrameAt(FailClosedData(d)) = {}
<1> DEFINE I == {i \in DOMAIN d : d[i].kind # "Frame"}
           left == Kept(d, I)
           e == [i \in DOMAIN left |-> CloseOf(left[i].lease.route)]
<1>1. I \in SUBSET (DOMAIN d) /\ left = Kept(d, I)
  OBVIOUS
<1>2. FailClosedData(d) = e
  BY DEF FailClosedData
<1> HIDE DEF I, left
<1>3. left \in Seq(Records(n, k)) /\ Len(left) <= Len(d)
  BY <1>1, PurgedData
<1>4. \A i \in DOMAIN left : left[i].lease.route \in Lifes(n)
  <2> SUFFICES ASSUME NEW i \in DOMAIN left PROVE left[i].lease.route \in Lifes(n)
    OBVIOUS
  <2>1. left[i] \in Records(n, k)
    BY <1>3
  <2> QED
    BY <2>1, RoutesAndLeases
<1>5. \A i \in DOMAIN left : e[i] \in Records(n, k) /\ e[i].kind = "Close" /\ e[i].lease.id = 0
  BY <1>4, RoutesAndLeases, RecordFields
<1>6. Len(left) \in Nat /\ DOMAIN left = 1..Len(left) /\ Len(d) \in Nat
  BY <1>3
<1>7. e \in Seq(Records(n, k)) /\ Len(e) = Len(left) /\ DOMAIN e = DOMAIN left
  <2>1. e \in [1..Len(left) -> Records(n, k)]
    BY <1>5, <1>6
  <2> HIDE DEF e
  <2> QED
    BY <1>6, <2>1
<1> HIDE DEF e
<1>8. FrameAt(e) = {}
  BY <1>5, <1>7 DEF FrameAt
<1>9. Len(e) <= DataSlots
  BY <1>3, <1>6, <1>7, MailboxHasRoom
<1> QED
  BY <1>2, <1>5, <1>7, <1>8, <1>9 DEF DataOk, OneFrame

\* The purge that a close begins with takes the admission of the route back.
RevokeStep(n, b, r, p) ==
  /\ p.closes = b.closes /\ p.next = b.next /\ p.route = b.route
  /\ p.revokeAll = b.revokeAll /\ p.failClosed = b.failClosed /\ p.overflow = b.overflow
  /\ p.reserved = NoLease \/ (p.reserved = b.reserved /\ p.reserved.route # r)
  /\ p.reserved = b.reserved \/ b.reserved.route = r
  /\ FramesAt(p.data) \subseteq FramesAt(b.data)
  /\ FrameAt(p.data) # {} => FrameAt(b.data) # {}
  /\ p.reserved # NoLease /\ FrameAt(b.data) # {} => FrameAt(p.data) # {}
  /\ \A i \in DOMAIN p.data : p.data[i].lease.route # r
  /\ \A q \in Routes(n) : q # r /\ CloseFirst(b.data, q) => CloseFirst(p.data, q)

LEMMA RevokedMail ==
  ASSUME NEW n \in Nat, NEW k \in Nat, NEW b, MailOk(n, k, b), NEW r \in Lifes(n),
         NEW p, p = ReservationRevoked(Purged(b, r), r)
  PROVE  MailOk(n, k, p) /\ RevokeStep(n, b, r, p)
<1> DEFINE a == Purged(b, r)
<1>1. a = Purged(b, r) /\ p = ReservationRevoked(a, r) /\ r \in Routes(n)
  BY RoutesAndLeases
<1> HIDE DEF a
<1>2. MailOk(n, k, a) /\ PurgeStep(n, b, r, a)
  BY <1>1, PurgedMail
<1>3. CASE a.reserved.route # r
  <2>1. p = a
    BY <1>1, <1>3 DEF ReservationRevoked
  <2> QED
    BY <1>2, <1>3, <2>1 DEF PurgeStep, RevokeStep
<1>4. CASE a.reserved.route = r
  <2> DEFINE l == a.reserved
  <2>1. p = Released(a, l) /\ l = a.reserved
    BY <1>1, <1>4 DEF ReservationRevoked
  <2> HIDE DEF l
  <2>2. MailOk(n, k, p) /\ ReleaseStep(n, a, l, p)
    BY <1>2, <2>1, ReleasedMail
  <2>3. \A i \in DOMAIN p.data : p.data[i].lease.route # r
    BY <1>2, <2>2 DEF PurgeStep, ReleaseStep
  <2> QED
    BY <1>2, <1>4, <2>1, <2>2, <2>3 DEF PurgeStep, ReleaseStep, RevokeStep
<1> QED
  BY <1>3, <1>4

\* Closed: r is closed, now or when the mailbox is read.
LEMMA ClosedMail ==
  ASSUME NEW n \in Nat, NEW k \in Nat, NEW b, MailOk(n, k, b), NEW r \in Lifes(n),
         NEW c, c = Closed(b, r)
  PROVE  /\ MailOk(n, k, c) /\ c.route = b.route /\ RouteStep(n, b, c)
         /\ c.reserved = NoLease \/ c.reserved.route # r
<1> DEFINE p == ReservationRevoked(Purged(b, r), r)
<1>0. p = ReservationRevoked(Purged(b, r), r)
  OBVIOUS
<1>1. \/ p.failClosed /\ c = p
      \/ p.revokeAll /\ c = Tombstoned(p, r)
      \/ ~p.revokeAll /\ ClosePending(p, r) /\ c = p
      \/ ~p.revokeAll /\ Len(p.closes) < CloseSlots /\ c = [p EXCEPT !.closes = Append(@, r)]
      \/ c = [p EXCEPT !.revokeAll = TRUE, !.overflow = r,
                       !.data = FailClosedData(@), !.reserved = NoLease]
  BY DEF Closed
<1> HIDE DEF p
<1>2. MailOk(n, k, p) /\ RevokeStep(n, b, r, p)
  BY <1>0, RevokedMail
<1>3. p \in Mailboxes(n, k) /\ p.data \in Seq(Records(n, k)) /\ p.closes \in Seq(Lifes(n))
      /\ Len(p.data) <= DataSlots
  BY <1>2 DEF MailOk, DataOk, Mailboxes
<1>4. ASSUME /\ MailOk(n, k, c) /\ c.route = p.route /\ c.next = p.next
             /\ c.reserved = p.reserved \/ (c.reserved = NoLease /\ c.revokeAll)
             /\ CloseAhead(c, r)
             /\ p.revokeAll => c.revokeAll
             /\ c.revokeAll \/ (c.failClosed = p.failClosed /\ c.data = p.data
                                /\ \A q : (\E i \in DOMAIN p.closes : p.closes[i] = q)
                                            => (\E i \in DOMAIN c.closes : c.closes[i] = q))
             /\ FramesAt(c.data) \subseteq FramesAt(p.data)
             /\ FrameAt(c.data) # {} => FrameAt(p.data) # {}
             /\ c.reserved # NoLease /\ FrameAt(p.data) # {} => FrameAt(c.data) # {}
      PROVE  /\ MailOk(n, k, c) /\ c.route = b.route /\ RouteStep(n, b, c)
             /\ c.reserved = NoLease \/ c.reserved.route # r
  <2>1. \A q \in Routes(n) : CloseAhead(b, q) => CloseAhead(c, q)
    <3> SUFFICES ASSUME NEW q \in Routes(n), q # r, CloseAhead(b, q) PROVE CloseAhead(c, q)
      BY <1>4
    <3>1. CASE c.revokeAll
      BY <3>1 DEF CloseAhead
    <3>2. CASE ~c.revokeAll
      <4>1. CloseAhead(p, q)
        BY <1>2 DEF CloseAhead, RevokeStep
      <4> QED
        BY <1>4, <3>2, <4>1 DEF CloseAhead
    <3> QED
      BY <3>1, <3>2
  <2>2. c.reserved = b.reserved \/ (c.reserved = NoLease /\ CloseAhead(c, b.reserved.route))
    <3>1. CASE b.reserved.route = r
      BY <1>2, <1>4, <3>1 DEF RevokeStep
    <3>2. CASE b.reserved.route # r
      <4>1. p.reserved = b.reserved
        BY <1>2, <3>2 DEF RevokeStep
      <4>2. c.revokeAll => CloseAhead(c, b.reserved.route)
        BY DEF CloseAhead
      <4> QED
        BY <1>4, <4>1, <4>2
    <3> QED
      BY <3>1, <3>2
  <2> QED
    BY <1>2, <1>4, <2>1, <2>2 DEF RouteStep, RevokeStep
<1>5. CASE p.failClosed /\ c = p
  BY <1>2, <1>4, <1>5 DEF CloseAhead
<1>6. CASE p.revokeAll /\ c = Tombstoned(p, r)
  <2>1. MailOk(n, k, c) /\ c.revokeAll /\ c.route = p.route /\ c.reserved = NoLease /\ RouteStep(n, p, c)
    BY <1>2, <1>6, TombstonedMail
  <2> QED
    BY <1>4, <2>1 DEF CloseAhead, RouteStep
<1>7. CASE ~p.revokeAll /\ ClosePending(p, r) /\ c = p
  <2>1. \E i \in DOMAIN p.closes : p.closes[i] = r
    BY <1>2, <1>7 DEF RevokeStep, ClosePending, IsCloseOf, Range
  <2> QED
    BY <1>2, <1>4, <1>7, <2>1 DEF CloseAhead
<1>8. CASE ~p.revokeAll /\ Len(p.closes) < CloseSlots /\ c = [p EXCEPT !.closes = Append(@, r)]
  <2> DEFINE s == p.closes
             e == Append(s, r)
  <2>1. s \in Seq(Lifes(n)) /\ c = [p EXCEPT !.closes = e] /\ Len(s) < CloseSlots /\ Len(s) \in Nat
    BY <1>3, <1>8
  <2>2. /\ e \in Seq(Lifes(n)) /\ Len(e) = Len(s) + 1 /\ DOMAIN e = 1..(Len(s) + 1)
        /\ \A i \in DOMAIN s : i \in DOMAIN e /\ e[i] = s[i]
        /\ e[Len(s) + 1] = r
    BY <2>1
  <2>3. s = p.closes
    OBVIOUS
  <2> HIDE DEF e, s
  <2>4. c \in Mailboxes(n, k)
    BY <1>3, <2>1, <2>2, SetCloses
  <2>5. /\ c.closes = e /\ c.data = p.data /\ c.reserved = p.reserved /\ c.next = p.next
        /\ c.revokeAll = p.revokeAll /\ c.failClosed = p.failClosed /\ c.route = p.route
    BY <1>3, <2>1 DEF Mailboxes
  <2>6. Len(e) <= CloseSlots
    BY <2>1, <2>2, MailboxHasRoom
  <2>7. MailOk(n, k, c)
    BY <1>2, <2>4, <2>5, <2>6 DEF MailOk, AdmissionOk
  <2>8. \E i \in DOMAIN e : e[i] = r
    BY <2>1, <2>2
  <2>9. \A q : (\E i \in DOMAIN s : s[i] = q) => \E i \in DOMAIN e : e[i] = q
    BY <2>2
  <2> QED
    BY <1>4, <2>3, <2>5, <2>7, <2>8, <2>9 DEF CloseAhead
<1>9. CASE c = [p EXCEPT !.revokeAll = TRUE, !.overflow = r,
                         !.data = FailClosedData(@), !.reserved = NoLease]
  <2> DEFINE d == p.data
             e == FailClosedData(d)
             p1 == [p EXCEPT !.revokeAll = TRUE, !.overflow = r]
             p2 == [p1 EXCEPT !.data = e]
  <2>1. d \in Seq(Records(n, k)) /\ Len(d) <= DataSlots /\ e = FailClosedData(d)
    BY <1>3
  <2>2. c = [p2 EXCEPT !.reserved = NoLease]
    BY <1>3, <1>9 DEF Mailboxes
  <2>3. p2 = [p1 EXCEPT !.data = e] /\ p1 = [p EXCEPT !.revokeAll = TRUE, !.overflow = r]
    OBVIOUS
  <2>4. /\ c.closes = p.closes /\ c.data = e /\ c.reserved = NoLease /\ c.next = p.next
        /\ c.revokeAll /\ c.route = p.route
    BY <1>3, <1>9 DEF Mailboxes
  <2> HIDE DEF d, e, p1, p2
  <2>5. DataOk(n, k, e, NoLease) /\ FrameAt(e) = {} /\ FramesAt(e) = {}
    BY <2>1, FailClosedIsOk DEF FramesAt
  <2>6. p1 \in Mailboxes(n, k)
    BY <1>3, <2>3, SetRevoked, RoutesAndLeases
  <2>7. p2 \in Mailboxes(n, k)
    BY <2>3, <2>5, <2>6, SetData DEF DataOk
  <2>8. c \in Mailboxes(n, k)
    BY <2>2, <2>7, SetReserved, RoutesAndLeases
  <2>9. MailOk(n, k, c)
    BY <1>2, <2>4, <2>5, <2>8 DEF MailOk, AdmissionOk
  <2> QED
    BY <1>4, <2>4, <2>5, <2>9 DEF CloseAhead
<1> QED
  BY <1>1, <1>5, <1>6, <1>7, <1>8, <1>9

\* A transport's route is written where no admission depends on it.
LEMMA RoutedMail ==
  ASSUME NEW n \in Nat, NEW k \in Nat, NEW b, MailOk(n, k, b), NEW v \in Vias, NEW g \in 0..n,
         b.reserved # NoLease => b.reserved.route.via # v,
         NEW c, c = [b EXCEPT !.route[v] = g]
  PROVE  MailOk(n, k, c) /\ RouteStep(n, b, c) /\ c.reserved = b.reserved /\ c.route[v] = g
<1>1. b \in Mailboxes(n, k)
  BY DEF MailOk
<1>2. c \in Mailboxes(n, k)
  BY <1>1, SetRoute
<1>3. /\ c.closes = b.closes /\ c.data = b.data /\ c.reserved = b.reserved /\ c.next = b.next
      /\ c.revokeAll = b.revokeAll /\ c.failClosed = b.failClosed /\ c.route = [b.route EXCEPT ![v] = g]
  BY <1>1 DEF Mailboxes
<1>4. c.route[v] = g /\ \A u \in Vias : u # v => c.route[u] = b.route[u]
  BY <1>1, <1>3, MailboxFields
<1>5. AdmissionOk(c)
  BY <1>3, <1>4 DEF AdmissionOk, MailOk
<1>6. MailOk(n, k, c)
  BY <1>2, <1>3, <1>5 DEF MailOk
<1>7. RouteStep(n, b, c)
  BY <1>3 DEF RouteStep, CloseAhead
<1> QED
  BY <1>3, <1>4, <1>6, <1>7

LEMMA EnsuredMail ==
  ASSUME NEW n \in Nat, NEW k \in Nat, NEW b, MailOk(n, k, b), NEW v \in Vias, NEW g \in 0..n,
         NEW e, e = Ensured(b, v, g)
  PROVE  MailOk(n, k, e) /\ RouteStep(n, b, e)
<1> DEFINE old == RouteOf(v, b.route[v])
           c == IF b.route[v] = 0 THEN b ELSE [Closed(b, old) EXCEPT !.route[v] = 0]
           r == RouteOf(v, g)
<1>1. CASE b.route[v] = g
  BY <1>1, NoStep DEF Ensured
<1>2. CASE b.route[v] # g
  <2>1. e = IF g = 0 \/ OpenAnswer(c, r) \notin GoodOpen(v) THEN c
            ELSE [Opened(c, r) EXCEPT !.route[v] = g]
    BY <1>2 DEF Ensured
  <2>2. /\ MailOk(n, k, c) /\ RouteStep(n, b, c)
        /\ c.reserved # NoLease => c.reserved.route.via # v
    <3>1. CASE b.route[v] = 0
      <4>1. c = b
        BY <3>1
      <4> QED
        BY <3>1, <4>1, NoStep DEF MailOk, AdmissionOk
    <3>2. CASE b.route[v] # 0
      <4> DEFINE d == Closed(b, old)
      <4>1. d = Closed(b, old) /\ c = [d EXCEPT !.route[v] = 0]
        BY <3>2
      <4>2. b.route[v] \in 0..n /\ old \in Lifes(n) /\ 0 \in 0..n
        BY MailboxFields, RoutesAndLeases DEF MailOk
      <4>3. old.via = v /\ old.gen = b.route[v]
        BY DEF RouteOf
      <4> HIDE DEF c, d, old
      <4>4. MailOk(n, k, d) /\ d.route = b.route /\ RouteStep(n, b, d)
            /\ (d.reserved = NoLease \/ d.reserved.route # old)
        BY <4>1, <4>2, ClosedMail
      <4>5. d.reserved # NoLease => d.reserved.route.via # v
        <5> SUFFICES ASSUME d.reserved # NoLease, d.reserved.route.via = v PROVE FALSE
          OBVIOUS
        <5>1. d.reserved.route.gen = b.route[v]
          BY <4>4 DEF MailOk, AdmissionOk
        <5>2. d.reserved.route \in Routes(n)
          BY <4>4 DEF MailOk, Mailboxes, Leases
        <5>3. d.reserved.route = old
          BY <4>2, <4>3, <5>1, <5>2, RoutesAndLeases
        <5> QED
          BY <4>4, <5>3
      <4>6. MailOk(n, k, c) /\ RouteStep(n, d, c) /\ c.reserved = d.reserved
        BY <4>1, <4>2, <4>4, <4>5, RoutedMail
      <4>7. RouteStep(n, b, c)
        BY <4>4, <4>6, StepsCompose
      <4> QED
        BY <4>5, <4>6, <4>7
    <3> QED
      BY <3>1, <3>2
  <2> HIDE DEF c
  <2>3. CASE e = c
    BY <2>2, <2>3
  <2>4. CASE e = [Opened(c, r) EXCEPT !.route[v] = g]
    <3> DEFINE d == Opened(c, r)
    <3>1. d = Opened(c, r) /\ e = [d EXCEPT !.route[v] = g] /\ r \in Lifes(n)
      BY <2>4, RoutesAndLeases
    <3> HIDE DEF d, r
    <3>2. MailOk(n, k, d) /\ d.reserved = c.reserved /\ RouteStep(n, c, d)
      BY <2>2, <3>1, OpenedMail
    <3>3. MailOk(n, k, e) /\ RouteStep(n, d, e)
      BY <2>2, <3>1, <3>2, RoutedMail
    <3>4. RouteStep(n, b, d)
      BY <2>2, <3>2, StepsCompose
    <3> QED
      BY <3>3, <3>4, StepsCompose
  <2> QED
    BY <2>1, <2>3, <2>4
<1> QED
  BY <1>1, <1>2

LEMMA ForgottenMail ==
  ASSUME NEW n \in Nat, NEW k \in Nat, NEW b, MailOk(n, k, b), NEW r \in Lifes(n),
         NEW e, e = Forgotten(b, r)
  PROVE  MailOk(n, k, e) /\ RouteStep(n, b, e)
<1> DEFINE c == Closed(b, r)
           v == r.via
<1>1. /\ c = Closed(b, r) /\ v \in Vias /\ v = r.via /\ 0 \in 0..n
      /\ e = IF c.route[v] = r.gen THEN [c EXCEPT !.route[v] = 0] ELSE c
  BY RoutesAndLeases DEF Forgotten
<1> HIDE DEF c, v
<1>2. MailOk(n, k, c) /\ RouteStep(n, b, c) /\ (c.reserved = NoLease \/ c.reserved.route # r)
  BY <1>1, ClosedMail
<1>3. CASE c.route[v] = r.gen /\ e = [c EXCEPT !.route[v] = 0]
  <2>1. c.reserved # NoLease => c.reserved.route.via # v
    <3> SUFFICES ASSUME c.reserved # NoLease, c.reserved.route.via = v PROVE FALSE
      OBVIOUS
    <3>1. c.reserved.route.gen = r.gen
      BY <1>2, <1>3 DEF MailOk, AdmissionOk
    <3>2. c.reserved.route \in Routes(n)
      BY <1>2 DEF MailOk, Mailboxes, Leases
    <3>3. c.reserved.route = r
      BY <1>1, <3>1, <3>2, RoutesAndLeases
    <3> QED
      BY <1>2, <3>3
  <2>2. MailOk(n, k, e) /\ RouteStep(n, c, e)
    BY <1>1, <1>2, <1>3, <2>1, RoutedMail
  <2> QED
    BY <1>2, <2>2, StepsCompose
<1>4. CASE e = c
  BY <1>2, <1>4
<1> QED
  BY <1>1, <1>3, <1>4

\* A frame is put at the end of data that holds none.
LEMMA AppendedFrame ==
  ASSUME NEW n \in Nat, NEW k \in Nat, NEW d, DataOk(n, k, d, NoLease), Len(d) < DataSlots,
         NEW rec \in Records(n, k), rec.kind = "Frame", rec.lease # NoLease, rec.frame \in AppFrame,
         NEW e, e = Put(d, rec)
  PROVE  /\ DataOk(n, k, e, rec.lease)
         /\ FrameAt(e) # {} /\ FramesAt(e) = {rec.frame}
         /\ \A q : CloseFirst(d, q) => CloseFirst(e, q)
<1>1. d \in Seq(Records(n, k)) /\ Len(d) \in Nat /\ DOMAIN d = 1..Len(d) /\ FrameAt(d) = {}
  BY DEF DataOk
<1>2. /\ e \in Seq(Records(n, k)) /\ Len(e) = Len(d) + 1 /\ DOMAIN e = 1..(Len(d) + 1)
      /\ \A i \in 1..Len(d) : e[i] = d[i]
      /\ e[Len(d) + 1] = rec
  BY <1>1 DEF Put
<1>3. FrameAt(e) = {Len(d) + 1}
  <2>1. \A i \in DOMAIN e : i \in DOMAIN d \/ i = Len(d) + 1
    BY <1>1, <1>2
  <2>2. \A i \in DOMAIN d : d[i].kind # "Frame"
    BY <1>1 DEF FrameAt
  <2>3. \A i \in DOMAIN d : i # Len(d) + 1 /\ i \in DOMAIN e /\ e[i].kind # "Frame"
    BY <1>1, <1>2, <2>2
  <2>4. Len(d) + 1 \in DOMAIN e
    BY <1>1, <1>2
  <2> QED
    BY <1>2, <2>1, <2>3, <2>4 DEF FrameAt
<1>4. DataOk(n, k, e, rec.lease)
  <2>1. Len(e) <= DataSlots
    BY <1>1, <1>2, MailboxHasRoom
  <2>2. \A i \in FrameAt(e) : e[i].lease = rec.lease /\ e[i].frame \in AppFrame
    BY <1>1, <1>2, <1>3
  <2>3. OneFrame(e)
    BY <1>3 DEF OneFrame
  <2>4. \A i \in DOMAIN e : e[i].kind # "Frame" => e[i].lease.id = 0
    BY <1>1, <1>2 DEF DataOk
  <2> QED
    BY <1>2, <2>1, <2>2, <2>3, <2>4 DEF DataOk
<1>5. \A q : CloseFirst(d, q) => CloseFirst(e, q)
  <2> SUFFICES ASSUME NEW q, CloseFirst(d, q) PROVE CloseFirst(e, q)
    OBVIOUS
  <2>1. PICK i \in DOMAIN d : IsCloseOf(d[i], q)
    BY DEF CloseFirst
  <2>2. i \in DOMAIN e /\ e[i] = d[i] /\ i < Len(d) + 1
    BY <1>1, <1>2
  <2> QED
    BY <1>3, <2>1, <2>2 DEF CloseFirst
<1>6. FramesAt(e) = {rec.frame}
  BY <1>2, <1>3 DEF FramesAt
<1> QED
  BY <1>3, <1>4, <1>5, <1>6

\* What the arrival of a frame does if it is taken: it gets the next admission.
FrameStep(n, b, r, c) ==
  /\ c.next = b.next + 1 /\ c.reserved = LeaseOf(r, b.next)
  /\ FrameAt(c.data) # {}
  /\ b.reserved = NoLease \/ CloseAhead(c, b.reserved.route)
  /\ \A q \in Routes(n) : CloseAhead(b, q) => CloseAhead(c, q)

LEMMA FramedMail ==
  ASSUME NEW n \in Nat, NEW k \in Nat, NEW b, MailOk(n, k, b), NEW r \in Lifes(n),
         r.gen # 0, b.route[r.via] = r.gen, FrameFits(b, r), b.next <= k,
         NEW f \in AppFrame, NEW c, c = Framed(b, r, f)
  PROVE  MailOk(n, k, c) /\ FrameStep(n, b, r, c) /\ FramesAt(c.data) = {f}
<1> DEFINE l == LeaseOf(r, b.next)
           rec == Record("Frame", l, f)
           d == b.data
           e == Put(d, rec)
           i == b.next + 1
           b1 == [b EXCEPT !.data = e]
           b2 == [b1 EXCEPT !.reserved = l]
<1>1. /\ b \in Mailboxes(n, k) /\ DataOk(n, k, d, NoLease) /\ Len(d) < DataSlots
      /\ d \in Seq(Records(n, k))
      /\ ~b.revokeAll /\ ~b.failClosed /\ b.reserved = NoLease
  BY DEF MailOk, DataOk, FrameFits
<1>2. b.next \in 1..(k + 1) /\ b.next \in 0..k /\ i \in 1..(k + 1) /\ b.next # 0 /\ b.next \in 1..(i - 1)
  BY <1>1, MailboxFields
<1>3. l \in Leases(n, k) /\ l.id = b.next /\ l.route = r
  BY <1>2, RoutesAndLeases DEF LeaseOf
<1>4. l # NoLease
  BY <1>2, <1>3, RecordFields
<1>5. rec \in Records(n, k) /\ rec.kind = "Frame" /\ rec.lease = l /\ rec.frame = f
  BY <1>2, <1>3 DEF Record, Records, LeaseOf
<1>6. c = [b EXCEPT !.data = Append(@, rec), !.reserved = l, !.next = @ + 1]
  BY DEF Framed
<1>7. Put(d, rec) = Append(b.data, rec)
  BY DEF Put
<1>8. c = [b2 EXCEPT !.next = i]
  BY <1>1, <1>6, <1>7 DEF Mailboxes
<1>9. b2 = [b1 EXCEPT !.reserved = l] /\ b1 = [b EXCEPT !.data = e] /\ e = Put(d, rec)
  OBVIOUS
<1>10. /\ c.data = e /\ c.reserved = l /\ c.next = i /\ c.closes = b.closes
       /\ c.revokeAll = b.revokeAll /\ c.failClosed = b.failClosed /\ c.route = b.route
  BY <1>1, <1>6, <1>7 DEF Mailboxes
<1>11. d = b.data /\ i = b.next + 1 /\ l = LeaseOf(r, b.next)
  OBVIOUS
<1> HIDE DEF d, e, rec, b1, b2, l, i
<1>12. /\ DataOk(n, k, e, rec.lease)
       /\ FrameAt(e) # {} /\ FramesAt(e) = {rec.frame}
       /\ \A q : CloseFirst(d, q) => CloseFirst(e, q)
  BY <1>1, <1>4, <1>5, <1>9, AppendedFrame
<1>13. b1 \in Mailboxes(n, k)
  BY <1>1, <1>9, <1>12, SetData DEF DataOk
<1>14. b2 \in Mailboxes(n, k)
  BY <1>3, <1>9, <1>13, SetReserved
<1>15. c \in Mailboxes(n, k)
  BY <1>2, <1>8, <1>14, SetNext
<1>16. AdmissionOk(c)
  BY <1>2, <1>3, <1>10, RoutesAndLeases DEF AdmissionOk
<1>17. MailOk(n, k, c)
  BY <1>1, <1>5, <1>10, <1>12, <1>15, <1>16 DEF MailOk
<1>18. \A q \in Routes(n) : CloseAhead(b, q) => CloseAhead(c, q)
  BY <1>10, <1>11, <1>12 DEF CloseAhead
<1> QED
  BY <1>1, <1>5, <1>10, <1>11, <1>12, <1>17, <1>18 DEF FrameStep

LEMMA ReceivedMail ==
  ASSUME NEW n \in Nat, NEW k \in Nat, NEW b, MailOk(n, k, b), NEW r \in Lifes(n),
         r.gen # 0, b.next <= k, NEW f \in AppFrame, NEW c, c = Received(b, r, f)
  PROVE  /\ MailOk(n, k, c) /\ (RouteStep(n, b, c) \/ FrameStep(n, b, r, c))
         /\ FramesAt(c.data) \subseteq FramesAt(b.data) \/ FramesAt(c.data) = {f}
<1> DEFINE e == Ensured(b, r.via, r.gen)
<1>1. e = Ensured(b, r.via, r.gen) /\ r.gen \in 0..n /\ r.via \in Vias
  BY RoutesAndLeases
<1>2. c = e \/ (e.route[r.via] = r.gen /\ FrameFits(e, r) /\ c = Framed(e, r, f))
  BY DEF Received, Accepts
<1> HIDE DEF e
<1>3. MailOk(n, k, e) /\ RouteStep(n, b, e)
  BY <1>1, EnsuredMail
<1>4. CASE c = e
  BY <1>3, <1>4 DEF RouteStep
<1>5. CASE e.route[r.via] = r.gen /\ FrameFits(e, r) /\ c = Framed(e, r, f)
  <2>1. e.next = b.next
    BY <1>3 DEF RouteStep
  <2>2. MailOk(n, k, c) /\ FrameStep(n, e, r, c) /\ FramesAt(c.data) = {f}
    BY <1>3, <1>5, <2>1, FramedMail
  <2>3. b.reserved.route \in Routes(n)
    BY DEF MailOk, Mailboxes, Leases
  <2>4. b.reserved = NoLease \/ CloseAhead(e, b.reserved.route)
    BY <1>3, <1>5 DEF RouteStep, FrameFits
  <2> QED
    BY <1>3, <2>1, <2>2, <2>3, <2>4 DEF RouteStep, FrameStep
<1> QED
  BY <1>2, <1>4, <1>5

\* What taking the front of a mailbox does: only a frame takes the request out, a frame is
\* behind every close, and a close that was ahead still is, or is the one taken.
TakeStep(n, k, b, rec, c) ==
  /\ c.next = b.next /\ c.reserved = b.reserved /\ c.route = b.route
  /\ rec.kind \in {"None", "CloseAll", "Open", "Close", "Frame"} /\ rec.lease \in Leases(n, k)
  /\ FramesAt(c.data) \subseteq FramesAt(b.data)
  /\ FrameAt(c.data) # {} => FrameAt(b.data) # {}
  /\ rec.kind # "Frame" /\ FrameAt(b.data) # {} => FrameAt(c.data) # {}
  /\ rec.kind = "CloseAll" => b.reserved = NoLease
  /\ rec.kind = "Frame" =>
       /\ b.reserved # NoLease /\ rec.lease = b.reserved /\ rec.frame \in AppFrame
       /\ FrameAt(b.data) # {} /\ FrameAt(c.data) = {} /\ rec.frame \in FramesAt(b.data)
       /\ \A q : ~CloseAhead(b, q)
  /\ rec.kind \in {"None", "Open", "Close"} =>
       \A q : CloseAhead(b, q) => CloseAhead(c, q) \/ IsCloseOf(rec, q)

LEMMA TailOf ==
  ASSUME NEW S, NEW s \in Seq(S), s # <<>>, NEW e, e = Tail(s)
  PROVE  /\ e \in Seq(S) /\ Len(s) \in Nat \ {0} /\ Len(e) = Len(s) - 1
         /\ DOMAIN s = 1..Len(s) /\ DOMAIN e = 1..(Len(s) - 1)
         /\ Head(s) = s[1] /\ s[1] \in S
         /\ \A i \in DOMAIN e : i + 1 \in DOMAIN s /\ e[i] = s[i + 1]
         /\ \A i \in DOMAIN s : i # 1 => i - 1 \in DOMAIN e /\ e[i - 1] = s[i]
OBVIOUS

DataTaken(d, l, rec, e) ==
  /\ FramesAt(e) \subseteq FramesAt(d)
  /\ FrameAt(e) # {} => FrameAt(d) # {}
  /\ rec.kind # "Frame" /\ FrameAt(d) # {} => FrameAt(e) # {}
  /\ rec.kind = "Frame" =>
       /\ l # NoLease /\ rec.lease = l /\ rec.frame \in AppFrame
       /\ FrameAt(d) # {} /\ FrameAt(e) = {} /\ rec.frame \in FramesAt(d)
       /\ \A q : ~CloseFirst(d, q)
  /\ rec.kind # "Frame" => \A q : CloseFirst(d, q) => CloseFirst(e, q) \/ IsCloseOf(rec, q)

LEMMA TakenData ==
  ASSUME NEW n \in Nat, NEW k \in Nat, NEW d, NEW l, DataOk(n, k, d, l), d # <<>>,
         NEW e, e = Tail(d), NEW rec, rec = Head(d)
  PROVE  DataOk(n, k, e, l) /\ rec \in Records(n, k) /\ DataTaken(d, l, rec, e)
<1>0. d \in Seq(Records(n, k)) /\ Len(d) <= DataSlots
  BY DEF DataOk
<1>1. /\ e \in Seq(Records(n, k)) /\ Len(d) \in Nat \ {0} /\ Len(e) = Len(d) - 1
      /\ DOMAIN d = 1..Len(d) /\ DOMAIN e = 1..(Len(d) - 1)
      /\ Head(d) = d[1] /\ d[1] \in Records(n, k)
      /\ \A i \in DOMAIN e : i + 1 \in DOMAIN d /\ e[i] = d[i + 1]
      /\ \A i \in DOMAIN d : i # 1 => i - 1 \in DOMAIN e /\ e[i - 1] = d[i]
  BY <1>0, TailOf
<1>2. rec = d[1] /\ 1 \in DOMAIN d
  BY <1>1
<1>3. \A i \in FrameAt(e) : i + 1 \in FrameAt(d) /\ i \in Nat
  BY <1>1 DEF FrameAt
<1>4. \A i \in FrameAt(d) : i # 1 => i - 1 \in FrameAt(e)
  BY <1>1 DEF FrameAt
<1>5. DataOk(n, k, e, l)
  <2>1. \A i \in FrameAt(e) : l # NoLease /\ e[i].lease = l /\ e[i].frame \in AppFrame
    BY <1>1, <1>3 DEF DataOk, FrameAt
  <2>2. OneFrame(e)
    <3> SUFFICES ASSUME NEW i \in FrameAt(e), NEW j \in FrameAt(e) PROVE i = j
      BY DEF OneFrame
    <3>1. i + 1 = j + 1
      BY <1>3 DEF DataOk, OneFrame
    <3> QED
      BY <1>3, <3>1
  <2>3. \A i \in DOMAIN e : e[i].kind # "Frame" => e[i].lease.id = 0
    BY <1>1 DEF DataOk
  <2>4. Len(e) <= DataSlots
    BY <1>0, <1>1, MailboxHasRoom
  <2> QED
    BY <1>1, <2>1, <2>2, <2>3, <2>4 DEF DataOk
<1>6. FrameAt(e) # {} => FrameAt(d) # {}
  BY <1>3
<1>7. rec.kind # "Frame" /\ FrameAt(d) # {} => FrameAt(e) # {}
  BY <1>2, <1>4 DEF FrameAt
<1>8. ASSUME rec.kind = "Frame"
      PROVE  /\ l # NoLease /\ rec.lease = l /\ rec.frame \in AppFrame
             /\ FrameAt(d) # {} /\ FrameAt(e) = {} /\ rec.frame \in FramesAt(d)
             /\ \A q : ~CloseFirst(d, q)
  <2>1. 1 \in FrameAt(d)
    BY <1>2, <1>8 DEF FrameAt
  <2>2. \A i \in FrameAt(d) : i = 1
    BY <2>1 DEF DataOk, OneFrame
  <2>3. FrameAt(e) = {}
    <3> SUFFICES ASSUME NEW i \in FrameAt(e) PROVE FALSE
      OBVIOUS
    <3>1. i + 1 = 1 /\ i \in Nat /\ i \in 1..(Len(d) - 1)
      BY <1>1, <1>3, <2>2 DEF FrameAt
    <3> QED
      BY <3>1
  <2>4. \A q : ~CloseFirst(d, q)
    BY <1>1, <2>1 DEF CloseFirst
  <2> QED
    BY <1>2, <2>1, <2>3, <2>4 DEF DataOk, FramesAt
<1>9. ASSUME rec.kind # "Frame", NEW q, CloseFirst(d, q), ~IsCloseOf(rec, q) PROVE CloseFirst(e, q)
  <2>1. PICK i \in DOMAIN d : IsCloseOf(d[i], q) /\ \A j \in FrameAt(d) : i < j
    BY <1>9 DEF CloseFirst
  <2>2. i # 1
    BY <1>2, <1>9, <2>1
  <2>3. i - 1 \in DOMAIN e /\ e[i - 1] = d[i] /\ i \in Nat
    BY <1>1, <2>1, <2>2
  <2>4. \A j \in FrameAt(e) : i - 1 < j
    BY <1>3, <2>1, <2>3
  <2> QED
    BY <2>1, <2>3, <2>4 DEF CloseFirst
<1>10. FramesAt(e) \subseteq FramesAt(d)
  BY <1>1, <1>3 DEF FramesAt, FrameAt
<1> QED
  BY <1>1, <1>2, <1>5, <1>6, <1>7, <1>8, <1>9, <1>10 DEF DataTaken

LEMMA TakenMail ==
  ASSUME NEW n \in Nat, NEW k \in Nat, NEW b, MailOk(n, k, b),
         NEW rec, rec = Front(b), NEW c, c = Taken(b)
  PROVE  MailOk(n, k, c) /\ TakeStep(n, k, b, rec, c)
<1>1. /\ b \in Mailboxes(n, k) /\ DataOk(n, k, b.data, b.reserved)
      /\ b.data \in Seq(Records(n, k)) /\ b.closes \in Seq(Lifes(n)) /\ b.overflow \in Routes(n)
      /\ Len(b.closes) <= CloseSlots
  BY DEF MailOk, DataOk, Mailboxes
<1>2. CASE b.revokeAll
  <2>1. c = [b EXCEPT !.revokeAll = FALSE, !.overflow = NoRoute]
    BY <1>2 DEF Taken
  <2>2. c \in Mailboxes(n, k)
    <3>1. NoRoute \in Routes(n) /\ FALSE \in BOOLEAN
      BY RoutesAndLeases
    <3>2. [b EXCEPT !.revokeAll = FALSE, !.overflow = NoRoute] \in Mailboxes(n, k)
      BY <1>1, <3>1, SetRevoked
    <3> QED
      BY <2>1, <3>2
  <2>3. /\ c.data = b.data /\ c.closes = b.closes /\ c.reserved = b.reserved /\ c.next = b.next
        /\ c.failClosed = b.failClosed /\ c.route = b.route /\ ~c.revokeAll
    BY <1>1, <2>1 DEF Mailboxes
  <2>4. MailOk(n, k, c)
    BY <2>2, <2>3 DEF MailOk, AdmissionOk
  <2>5. rec.kind = "CloseAll" /\ rec.lease = LeaseOf(b.overflow, 0)
    BY <1>2 DEF Front, Record
  <2>6. rec.lease \in Leases(n, k) /\ b.reserved = NoLease
    BY <1>1, <1>2, <2>5, RoutesAndLeases DEF MailOk
  <2> QED
    BY <2>3, <2>4, <2>5, <2>6 DEF TakeStep
<1>3. CASE ~b.revokeAll /\ b.closes # <<>>
  <2> DEFINE s == b.closes
             e == Tail(s)
             r == Head(s)
  <2>1. c = [b EXCEPT !.closes = e] /\ rec = CloseOf(r)
    BY <1>3 DEF Taken, Front
  <2>2. s = b.closes /\ e = Tail(s) /\ s # <<>> /\ s \in Seq(Lifes(n)) /\ r = Head(s)
    BY <1>1, <1>3
  <2> HIDE DEF s, e, r
  <2>3. /\ e \in Seq(Lifes(n)) /\ Len(s) \in Nat \ {0} /\ Len(e) = Len(s) - 1
        /\ DOMAIN s = 1..Len(s) /\ Head(s) = s[1] /\ s[1] \in Lifes(n)
        /\ \A i \in DOMAIN s : i # 1 => i - 1 \in DOMAIN e /\ e[i - 1] = s[i]
    BY <2>2, TailOf
  <2>4. c \in Mailboxes(n, k)
    BY <1>1, <2>1, <2>3, SetCloses
  <2>5. /\ c.closes = e /\ c.data = b.data /\ c.reserved = b.reserved /\ c.next = b.next
        /\ c.revokeAll = b.revokeAll /\ c.failClosed = b.failClosed /\ c.route = b.route
    BY <1>1, <2>1 DEF Mailboxes
  <2>6. Len(e) <= CloseSlots
    BY <1>1, <2>2, <2>3, MailboxHasRoom
  <2>7. MailOk(n, k, c)
    BY <1>1, <2>4, <2>5, <2>6 DEF MailOk, AdmissionOk
  <2>8. r \in Lifes(n) /\ r = s[1]
    BY <2>2, <2>3
  <2>9. rec.kind = "Close" /\ IsCloseOf(rec, r) /\ rec \in Records(n, k)
    BY <2>1, <2>8, RecordFields, RoutesAndLeases
  <2>10. rec.lease \in Leases(n, k)
    BY <2>9, RoutesAndLeases
  <2>11. \A q : (\E i \in DOMAIN s : s[i] = q) => (\E i \in DOMAIN e : e[i] = q) \/ r = q
    BY <2>3, <2>8
  <2>12. \A q : CloseAhead(b, q) => CloseAhead(c, q) \/ IsCloseOf(rec, q)
    BY <2>2, <2>5, <2>9, <2>11 DEF CloseAhead
  <2> QED
    BY <2>5, <2>7, <2>9, <2>10, <2>12 DEF TakeStep
<1>4. CASE ~b.revokeAll /\ b.closes = <<>> /\ b.data # <<>>
  <2> DEFINE d == b.data
             l == b.reserved
             e == Tail(d)
  <2>1. c = [b EXCEPT !.data = e] /\ rec = Head(d) /\ e = Tail(d) /\ d # <<>>
    BY <1>4 DEF Taken, Front
  <2>2. d = b.data /\ l = b.reserved /\ DataOk(n, k, d, l)
    BY <1>1
  <2> HIDE DEF d, e, l
  <2>3. DataOk(n, k, e, l) /\ rec \in Records(n, k) /\ DataTaken(d, l, rec, e)
    BY <2>1, <2>2, TakenData
  <2>4. c \in Mailboxes(n, k)
    <3>1. e \in Seq(Records(n, k))
      BY <2>3 DEF DataOk
    <3>2. [b EXCEPT !.data = e] \in Mailboxes(n, k)
      BY <1>1, <3>1, SetData
    <3> QED
      BY <2>1, <3>2
  <2>5. /\ c.data = e /\ c.closes = b.closes /\ c.reserved = b.reserved /\ c.next = b.next
        /\ c.revokeAll = b.revokeAll /\ c.failClosed = b.failClosed /\ c.route = b.route
    BY <1>1, <2>1 DEF Mailboxes
  <2>6. MailOk(n, k, c)
    BY <1>1, <2>2, <2>3, <2>4, <2>5 DEF MailOk, AdmissionOk
  <2>7. rec.kind \in {"Open", "Close", "Frame"} /\ rec.lease \in Leases(n, k)
    BY <2>3, RoutesAndLeases DEF Records
  <2>8. \A q : ~\E i \in DOMAIN b.closes : b.closes[i] = q
    BY <1>4
  <2>9. rec.kind = "Frame" => \A q : ~CloseAhead(b, q)
    BY <1>4, <2>2, <2>3, <2>8 DEF CloseAhead, MailOk, DataTaken
  <2>10. rec.kind # "Frame" => \A q : CloseAhead(b, q) => CloseAhead(c, q) \/ IsCloseOf(rec, q)
    BY <1>4, <2>2, <2>3, <2>5, <2>8 DEF CloseAhead, DataTaken
  <2> QED
    BY <2>2, <2>3, <2>5, <2>6, <2>7, <2>9, <2>10 DEF TakeStep, DataTaken
<1>5. CASE ~b.revokeAll /\ b.closes = <<>> /\ b.data = <<>>
  <2>1. c = b /\ rec = Record("None", NoLease, <<>>)
    BY <1>5 DEF Taken, Front, Nothing
  <2>2. rec.kind = "None" /\ rec.lease \in Leases(n, k)
    BY <2>1, RoutesAndLeases DEF Record
  <2> QED
    BY <2>1, <2>2 DEF TakeStep
<1> QED
  BY <1>2, <1>3, <1>4, <1>5

-----------------------------------------------------------------------------
(* The whole system, in a scene with n generations of routes and k frames. *)

Actions(n) == [route : Routes(n), op : Ops \cup {"None"}, rid : Nat, cookie : Nat]
Texts == [status : {"None", "Ok", "Part", "Busy", "Refused", "Failed", "Paused"}, cookie : Nat]
Answers(n, k) == [seq : Nat, lease : Leases(n, k), req : Requests, reply : Texts]
Changes(n) == [kind : {"Open", "Close"}, route : Lifes(n)]
Entries(n, k) == [lease : Leases(n, k), frame : AppFrame]
Timers(n) == {NoTimer} \cup [route : Lifes(n), old : BOOLEAN]
Jobs(n) == {NoAction} \cup [route : Lifes(n), op : Ops, rid : Nat, cookie : Nat]

\* The session: what its phase says of its route, its plan and its pending action.
SesRecord(s) ==
  s = [phase |-> s.phase, route |-> s.route, cookie |-> s.cookie, plan |-> s.plan,
       decoded |-> s.decoded, unit |-> s.unit, pending |-> s.pending, replay |-> s.replay,
       slot |-> s.slot, nextCookie |-> s.nextCookie]
Plans(n) == [route : Routes(n), rid : Nat, op : Ops \cup {"None"}, parts : SUBSET Parts,
             fromReady : BOOLEAN]
Pendings(n) == [action : Actions(n), orphaned : BOOLEAN]
MemoryOk(n, e) ==
  /\ e = [action |-> e.action, reply |-> e.reply] /\ e.action \in Actions(n)
  /\ e.action # NoAction => e.reply \in Texts
SesTypes(n, s) ==
  /\ SesRecord(s)
  /\ s.phase \in {"Idle", "BeginAssembly", "Ready", "UnitAssembly", "ActionPending"}
  /\ s.route \in Routes(n) /\ s.cookie \in Nat /\ s.nextCookie \in Nat
  /\ s.plan \in Plans(n) /\ s.pending \in Pendings(n)
  /\ s.replay = [i \in 1..ReplaySlots |-> s.replay[i]] /\ s.slot \in 1..ReplaySlots
  /\ \A i \in 1..ReplaySlots : MemoryOk(n, s.replay[i])
PhaseOk(s) ==
  /\ s.phase = "Idle" => s.route = NoRoute
  /\ s.phase # "BeginAssembly" => s.plan.route = NoRoute
  /\ s.phase = "BeginAssembly" =>
       s.route = NoRoute \/ (s.plan.fromReady /\ s.route = s.plan.route)
  /\ s.phase # "ActionPending" => s.pending = NoPending
  /\ s.phase = "ActionPending" =>
       s.pending.action # NoAction /\ s.route \in {NoRoute, s.pending.action.route}
SesOk(n, s) == SesTypes(n, s) /\ PhaseOk(s)

\* The core.
CoreRecord(c) ==
  c = [lifecycle |-> c.lifecycle, ingress |-> c.ingress, replies |-> c.replies, active |-> c.active,
       closed |-> c.closed, lease |-> c.lease, action |-> c.action, partial |-> c.partial,
       owner |-> c.owner, seq |-> c.seq]
CoreTypes(n, k, c) ==
  /\ CoreRecord(c)
  /\ c.lifecycle \in Seq(Changes(n)) /\ Len(c.lifecycle) <= LifecycleSlots
  /\ c.ingress \in Seq(Entries(n, k)) /\ Len(c.ingress) <= DataSlots
  /\ c.replies \in Seq(Answers(n, k)) /\ Len(c.replies) <= ReplySlots
  /\ c.active \in SUBSET Lifes(n) /\ IsFiniteSet(c.active) /\ Cardinality(c.active) <= ActiveRoutes
  /\ c.closed \in SUBSET Routes(n)
  /\ c.lease \in Leases(n, k) /\ c.action \in Jobs(n)
  /\ c.partial \in Timers(n) /\ c.owner \in Timers(n) /\ c.seq \in Nat

\* The core and its session agree on the pending action.
PendingOk(c, s) ==
  /\ c.action = NoAction => c.lease = NoLease /\ s.phase # "ActionPending"
  /\ c.action # NoAction => s.phase = "ActionPending" /\ s.pending.action = c.action

\* Answers have different numbers, and the one offered to USB is found by its own.
SeqsOk(c, q) ==
  /\ c.seq \in Nat /\ q.seq \in 0..(c.seq - 1)
  /\ \A i \in DOMAIN c.replies :
       /\ c.replies[i].seq \in 1..(c.seq - 1)
       /\ c.replies[i].seq = q.seq => c.replies[i] = q
  /\ \A i, j \in DOMAIN c.replies : c.replies[i].seq = c.replies[j].seq => i = j

\* An admission that waits to be consumed is not answered yet, and the other way round.
Waiting(c) == {c.ingress[i].lease : i \in DOMAIN c.ingress}
Answering(c) == {c.lease} \cup {c.replies[i].lease : i \in DOMAIN c.replies}
Different(s) == \A i, j \in DOMAIN s : s[i].lease = s[j].lease => i = j
LeasesOk(b, c, q) ==
  /\ \A l \in Answering(c) \cup {q.lease} : l.id < b.next
  /\ \A l \in Waiting(c) : l.id \in 1..(b.next - 1) /\ l \notin Answering(c) \cup {q.lease}
  /\ Different(c.ingress)
  /\ FrameAt(b.data) # {} => b.reserved \notin Answering(c) \cup {q.lease} \cup Waiting(c)

\* A request that lost its admission waits no longer than its route's close needs.
CloseDue(c, r) == \E i \in DOMAIN c.lifecycle : c.lifecycle[i] = [kind |-> "Close", route |-> r]
StaleOk(b, c) ==
  \A l \in Waiting(c) : l = b.reserved \/ CloseAhead(b, l.route) \/ CloseDue(c, l.route)

\* Requests that were sent.
CountOk(b, c) == Len(c.ingress) + (IF FrameAt(b.data) = {} THEN 0 ELSE 1) <= b.next - 1

\* Where the admission's request is.
HeldOk(b, c) ==
  b.reserved # NoLease /\ b.reserved.route \notin c.closed =>
    FrameAt(b.data) # {} \/ b.reserved \in Waiting(c) \cup Answering(c)

InScene(n, k) == env.scene \in Scenes /\ n = env.scene.mounts + env.scene.links /\ k = env.scene.frames

\* The tasks around the core.
SupOk(n, k, p) ==
  /\ p = [pc |-> p.pc, epoch |-> p.epoch, route |-> p.route, queued |-> p.queued,
          allowed |-> p.allowed, left |-> p.left]
  /\ p.pc \in {"send", "epoch", "observe", "retire", "import", "core", "offer"}
  /\ p.epoch \in 0..n /\ p.route \in 0..n /\ p.queued \in Answers(n, k)
  /\ p.left \in 0..CoreSteps /\ (p.pc = "core" => p.left # 0)
UsbOk(n, k, u) ==
  /\ u = [epoch |-> u.epoch, last |-> u.last, slot |-> u.slot]
  /\ u.epoch \in 0..u.last /\ u.last \in 0..env.scene.mounts /\ u.slot \in Answers(n, k)
WifiOk(n, k, w) ==
  /\ w = [pc |-> w.pc, gen |-> w.gen, preferred |-> w.preferred,
          pending |-> w.pending, sending |-> w.sending, accepted |-> w.accepted]
  /\ w.pc \in {"idle", "greet", "read", "wait", "send", "retire", "leave", "deactivate", "close"}
  /\ w.gen \in 0..env.scene.links /\ (w.pc # "idle" => w.gen # 0)
  /\ w.pending \in Answers(n, k) /\ w.sending \in Answers(n, k) /\ w.accepted \in Answers(n, k)
AppOk(k, a) ==
  /\ a = [req |-> a.req, cookie |-> a.cookie, sent |-> a.sent]
  /\ a.req \in Requests /\ a.cookie \in Nat /\ a.sent \in 0..k
  /\ a.req # NoRequest => a.req.op # "None"
EnvOk(e) ==
  /\ e = [scene |-> e.scene, voice |-> e.voice, turns |-> e.turns, boot |-> e.boot]
  /\ e.boot => e.scene.boot
ExecOk(e) ==
  /\ e = [stage |-> e.stage, action |-> e.action, bytes |-> e.bytes, done |-> e.done]
  /\ e.stage \in {"none", "running", "ok", "other", "fail"}
AroundOk(n, k) ==
  SupOk(n, k, sup) /\ UsbOk(n, k, usb) /\ WifiOk(n, k, wifi) /\ AppOk(k, app) /\ EnvOk(env) /\ ExecOk(exec)

\* The mailbox, the core and the session; q is the answer offered to USB.
MainOk(n, k, b, c, s, q) ==
  /\ MailOk(n, k, b) /\ CoreTypes(n, k, c) /\ SesOk(n, s)
  /\ PendingOk(c, s) /\ SeqsOk(c, q) /\ LeasesOk(b, c, q) /\ CountOk(b, c) /\ HeldOk(b, c)

\* Without a boot sound to read first, a change of a route is handled at once.
PromptOk(pc, b, c) ==
  ~env.scene.boot =>
    /\ Len(c.lifecycle) <= 1 /\ (c.lifecycle # <<>> => pc = "core")
    /\ StaleOk(b, c)

SyncOk(n, k) ==
  /\ InScene(n, k) /\ AroundOk(n, k)
  /\ MainOk(n, k, box, core, ses, sup.queued)
  /\ box.next - 1 <= app.sent
  /\ PromptOk(sup.pc, box, core)

-----------------------------------------------------------------------------
(* What the session does keeps what its phase says. *)

\* What consume hands to the core: an answer, or the action that is now pending.
ActionOf(r, f) == [route |-> r, op |-> f.op, rid |-> f.rid, cookie |-> f.cookie]
EmissionOk(n, r, f, e) ==
  /\ SesOk(n, e.ses) /\ e.kind \in {"Reply", "Action"} /\ e.moved \in BOOLEAN
  /\ e.kind = "Reply" => e.reply \in Texts /\ e.ses.phase # "ActionPending"
  /\ e.kind = "Action" =>
       e.ses.phase = "ActionPending" /\ e.ses.pending.action = ActionOf(r, f) /\ f.op \in Ops

LEMMA FrameFields ==
  ASSUME NEW f \in AppFrame
  PROVE  /\ f.op \in Ops \cup Immediate \cup {"Bad"} /\ f.rid \in Nat /\ f.cookie \in Nat /\ f.part \in Parts
         /\ f.op # "None"
BY DEF AppFrame, Ops, PlanOps, OpenOps, BoundOps, Immediate

LEMMA StatusIsText ==
  ASSUME NEW st \in {"None", "Ok", "Part", "Busy", "Refused", "Failed", "Paused"}, NEW c \in Nat
  PROVE  Status(st, c) \in Texts
BY DEF Status, Texts

LEMMA EmptyFields ==
  ASSUME NEW n \in Nat
  PROVE  /\ NoPlan \in Plans(n) /\ NoPlan.route = NoRoute /\ NoPending \in Pendings(n)
         /\ NoPending.action = NoAction /\ NoAction \in Actions(n) /\ NoAction.op = "None"
         /\ NoAction.route = NoRoute
<1>1. NoRoute \in Routes(n)
  BY DEF NoRoute, RouteOf, Routes
<1>2. NoAction \in Actions(n) /\ NoAction.op = "None" /\ NoAction.route = NoRoute
  BY <1>1 DEF NoAction, Actions
<1>3. NoPlan \in Plans(n) /\ NoPlan.route = NoRoute
  BY <1>1 DEF NoPlan, Plans
<1>4. NoPending \in Pendings(n) /\ NoPending.action = NoAction
  BY <1>2 DEF NoPending, Pendings
<1> QED
  BY <1>2, <1>3, <1>4

\* An answer leaves the session as it is given.
LEMMA ReplyOk ==
  ASSUME NEW n \in Nat, NEW r, NEW f, NEW s, SesOk(n, s), s.phase # "ActionPending",
         NEW t \in Texts, NEW moved \in BOOLEAN, NEW e, e = Reply(s, t, moved)
  PROVE  EmissionOk(n, r, f, e)
BY DEF Reply, EmissionOk

LEMMA RefuseOk ==
  ASSUME NEW n \in Nat, NEW r, NEW f \in AppFrame, NEW s, SesOk(n, s), s.phase # "ActionPending",
         NEW st \in {"Busy", "Refused"}, NEW e, e = Refuse(s, st, f)
  PROVE  EmissionOk(n, r, f, e)
<1>1. Status(st, f.cookie) \in Texts
  BY FrameFields, StatusIsText
<1>2. e = Reply(s, Status(st, f.cookie), FALSE)
  BY DEF Refuse
<1> QED
  BY <1>1, <1>2, ReplyOk

\* What is looked up among the answers already given.
Decided(s, r, f, after, refuse, moved, e) ==
  \/ \E t \in Texts : e = Reply(after, t, moved)
  \/ Lookup(s, r, f) = "Miss" /\ ~refuse /\ e = Act(s, r, f, moved)

LEMMA DecideCases ==
  ASSUME NEW n \in Nat, NEW s, SesTypes(n, s), NEW r, NEW f \in AppFrame, NEW after, NEW refuse,
         NEW moved
  PROVE  Decided(s, r, f, after, refuse, moved, Decide(s, r, f, after, refuse, moved))
<1> DEFINE e == Decide(s, r, f, after, refuse, moved)
<1> SUFFICES \/ \E t \in Texts : e = Reply(after, t, moved)
             \/ Lookup(s, r, f) = "Miss" /\ ~refuse /\ e = Act(s, r, f, moved)
  BY DEF Decided
<1>1. CASE Lookup(s, r, f) = "Exact"
  <2>1. Exact(s, r, f) # {}
    BY <1>1 DEF Lookup
  <2>2. PICK i \in Exact(s, r, f) : Remembered(s, r, f) = s.replay[i].reply
    BY <2>1 DEF Remembered
  <2>3. i \in 1..ReplaySlots /\ s.replay[i].action.op = f.op
    BY <2>2 DEF Exact, Seen
  <2>4. s.replay[i].action # NoAction
    BY <2>3, FrameFields, EmptyFields
  <2>5. Remembered(s, r, f) \in Texts
    BY <2>2, <2>3, <2>4 DEF SesTypes, MemoryOk
  <2>6. e = Reply(after, Remembered(s, r, f), moved)
    BY <1>1 DEF Decide
  <2> QED
    BY <2>5, <2>6
<1>2. CASE Lookup(s, r, f) = "Conflict" \/ (Lookup(s, r, f) = "Miss" /\ refuse)
  <2>1. e = Reply(after, Status("Refused", f.cookie), moved)
    BY <1>2 DEF Decide
  <2>2. Status("Refused", f.cookie) \in Texts
    BY FrameFields, StatusIsText
  <2> QED
    BY <2>1, <2>2
<1>3. CASE Lookup(s, r, f) = "Miss" /\ ~refuse
  BY <1>3 DEF Decide
<1> QED
  BY <1>1, <1>2, <1>3 DEF Lookup

\* An action begins where nothing else of the session is in progress.
LEMMA ActOk ==
  ASSUME NEW n \in Nat, NEW s, SesTypes(n, s), NEW r \in Lifes(n), NEW f \in AppFrame, f.op \in Ops,
         s.plan.route = NoRoute, s.route \in {NoRoute, r}, NEW moved \in BOOLEAN,
         NEW e, e.ses = Act(s, r, f, moved).ses, e.kind = "Action", e.moved = moved
  PROVE  EmissionOk(n, r, f, e)
<1> DEFINE t == e.ses
           p == [action |-> ActionOf(r, f), orphaned |-> FALSE]
<1>1. t = [s EXCEPT !.phase = "ActionPending", !.pending = p]
  BY DEF Act, ActionOf
<1>2. r \in Routes(n)
  BY RoutesAndLeases
<1>3. ActionOf(r, f) \in Actions(n) /\ ActionOf(r, f).route = r /\ ActionOf(r, f).op = f.op
  BY <1>2, FrameFields DEF ActionOf, Actions
<1>4. p \in Pendings(n) /\ p.action = ActionOf(r, f)
  BY <1>3 DEF Pendings
<1>5. ActionOf(r, f) # NoAction
  BY <1>3, FrameFields, EmptyFields
<1>6. t = e.ses
  OBVIOUS
<1> HIDE DEF t, p
<1>7. /\ SesRecord(t) /\ t.phase = "ActionPending" /\ t.pending = p /\ t.route = s.route /\ t.plan = s.plan
      /\ t.cookie = s.cookie /\ t.nextCookie = s.nextCookie /\ t.replay = s.replay /\ t.slot = s.slot
  BY <1>1 DEF SesTypes, SesRecord
<1>8. SesTypes(n, t)
  BY <1>4, <1>7 DEF SesTypes
<1>9. PhaseOk(t)
  BY <1>3, <1>4, <1>5, <1>7 DEF PhaseOk
<1> QED
  BY <1>4, <1>6, <1>7, <1>8, <1>9 DEF EmissionOk, SesOk

\* A plan that is given up leaves a bound session ready, and any other idle.
LEMMA PlanDroppedOk ==
  ASSUME NEW n \in Nat, NEW s, SesOk(n, s), s.phase = "BeginAssembly", NEW t, t = PlanDropped(s)
  PROVE  SesOk(n, t) /\ t.phase # "ActionPending" /\ t.route = s.route
<1>1. t = [s EXCEPT !.plan = NoPlan, !.phase = IF s.plan.fromReady /\ Bound(s) THEN "Ready" ELSE "Idle"]
  BY DEF PlanDropped
<1>2. /\ SesRecord(t) /\ t.phase = (IF s.plan.fromReady /\ Bound(s) THEN "Ready" ELSE "Idle")
      /\ t.pending = s.pending /\ t.route = s.route /\ t.plan = NoPlan
      /\ t.cookie = s.cookie /\ t.nextCookie = s.nextCookie /\ t.replay = s.replay /\ t.slot = s.slot
  BY <1>1 DEF SesOk, SesTypes, SesRecord
<1>3. t.phase \in {"Ready", "Idle"}
  BY <1>2
<1>4. NoPlan \in Plans(n) /\ NoPlan.route = NoRoute
  BY EmptyFields
<1>5. SesTypes(n, t)
  BY <1>2, <1>3, <1>4 DEF SesOk, SesTypes
<1>6. PhaseOk(t)
  BY <1>2, <1>3, <1>4 DEF SesOk, PhaseOk, Bound
<1> QED
  BY <1>2, <1>3, <1>5, <1>6 DEF SesOk

LEMMA PartialExpiredOk ==
  ASSUME NEW n \in Nat, NEW s, SesOk(n, s), NEW r, NEW t, t = PartialExpired(s, r)
  PROVE  /\ SesOk(n, t) /\ t.pending = s.pending
         /\ t.phase = "ActionPending" <=> s.phase = "ActionPending"
<1>1. CASE ~PartialOf(s, r)
  BY <1>1 DEF PartialExpired
<1>2. CASE PartialOf(s, r) /\ s.phase = "BeginAssembly"
  <2>1. t = PlanDropped(s)
    BY <1>2 DEF PartialExpired
  <2>2. SesOk(n, t) /\ t.phase # "ActionPending"
    BY <1>2, <2>1, PlanDroppedOk
  <2> QED
    BY <1>2, <2>2 DEF SesOk, PhaseOk
<1>3. CASE PartialOf(s, r) /\ s.phase # "BeginAssembly"
  <2>1. s.phase = "UnitAssembly" /\ t = [s EXCEPT !.unit = NoUnit, !.phase = "Ready"]
    BY <1>3 DEF PartialExpired, PartialOf
  <2>2. /\ SesRecord(t) /\ t.phase = "Ready"
        /\ t.pending = s.pending /\ t.route = s.route /\ t.plan = s.plan
        /\ t.cookie = s.cookie /\ t.nextCookie = s.nextCookie /\ t.replay = s.replay /\ t.slot = s.slot
    BY <2>1 DEF SesOk, SesTypes, SesRecord
  <2> QED
    BY <2>1, <2>2 DEF SesOk, SesTypes, PhaseOk
<1> QED
  BY <1>1, <1>2, <1>3

LEMMA ConsumePlanOk ==
  ASSUME NEW n \in Nat, NEW s, SesOk(n, s), s.phase # "ActionPending",
         NEW r \in Lifes(n), NEW f \in AppFrame, f.op \in PlanOps, NEW e, e = ConsumePlan(s, r, f)
  PROVE  EmissionOk(n, r, f, e)
<1> DEFINE p == IF s.phase = "BeginAssembly" THEN s.plan
                ELSE [route |-> r, rid |-> f.rid, op |-> f.op, parts |-> {},
                      fromReady |-> s.phase = "Ready"]
           q == [p EXCEPT !.parts = @ \cup {f.part}]
           t == [s EXCEPT !.phase = "BeginAssembly", !.plan = q]
           moved == f.part \notin p.parts
           whole == [t EXCEPT !.decoded = f.rid]
           after == PlanDropped(whole)
           d == Decide(whole, r, f, after, p.fromReady, moved)
<1>1. CASE s.phase # "BeginAssembly" /\ ~PlanStarts(s, r, f)
  <2>1. PICK st \in {"Busy", "Refused"} : e = Refuse(s, st, f)
    BY <1>1 DEF ConsumePlan
  <2> QED
    BY <2>1, RefuseOk
<1>2. CASE s.phase = "BeginAssembly" /\ s.plan.op # f.op
  <2>1. e = Refuse(s, "Busy", f)
    BY <1>2 DEF ConsumePlan
  <2> QED
    BY <2>1, RefuseOk
<1>3. CASE /\ s.phase = "BeginAssembly" \/ PlanStarts(s, r, f)
           /\ s.phase # "BeginAssembly" \/ s.plan.op = f.op
  <2>1. \/ e = Refuse(s, "Refused", f)
        \/ p.route = r /\ e = Reply(t, Status("Part", 0), moved)
        \/ p.route = r /\ e = (IF d.kind = "Action" THEN [d EXCEPT !.ses.plan = NoPlan] ELSE d)
    BY <1>3 DEF ConsumePlan
  <2>2. f.op \in Ops /\ r \in Routes(n) /\ r # NoRoute
    BY RoutesAndLeases DEF Ops
  <2>3. p \in Plans(n)
    <3>1. CASE s.phase = "BeginAssembly"
      BY <3>1 DEF SesOk, SesTypes
    <3>2. CASE s.phase # "BeginAssembly"
      BY <2>2, <3>2, FrameFields DEF Plans
    <3> QED
      BY <3>1, <3>2
  <2>4. q \in Plans(n) /\ q.route = p.route /\ q.fromReady = p.fromReady
    BY <2>3, FrameFields DEF Plans
  <2>5. s.route = NoRoute \/ (p.fromReady /\ s.route = p.route)
    BY <1>3 DEF SesOk, PhaseOk, PlanStarts
  <2>6. moved \in BOOLEAN /\ s.pending = NoPending
    BY DEF SesOk, PhaseOk
  <2>a. t = [s EXCEPT !.phase = "BeginAssembly", !.plan = q] /\ SesRecord(s)
    BY DEF SesOk, SesTypes
  <2> HIDE DEF p, q, moved, t
  <2>7. /\ SesRecord(t) /\ t.phase = "BeginAssembly"
        /\ t.pending = s.pending /\ t.route = s.route /\ t.plan = q
        /\ t.cookie = s.cookie /\ t.nextCookie = s.nextCookie /\ t.replay = s.replay /\ t.slot = s.slot
    BY <2>a DEF SesRecord
  <2>8. SesTypes(n, t)
    BY <2>4, <2>7 DEF SesOk, SesTypes
  <2>9. PhaseOk(t)
    BY <2>4, <2>5, <2>6, <2>7 DEF PhaseOk
  <2>10. whole = [t EXCEPT !.decoded = f.rid] /\ after = PlanDropped(whole)
         /\ d = Decide(whole, r, f, after, p.fromReady, moved)
    OBVIOUS
  <2> HIDE DEF p, q, t, moved, whole, after, d
  <2>11. CASE e = Refuse(s, "Refused", f)
    BY <2>11, RefuseOk
  <2>12. CASE e = Reply(t, Status("Part", 0), moved)
    <3>1. Status("Part", 0) \in Texts
      BY StatusIsText
    <3> QED
      BY <2>6, <2>7, <2>8, <2>9, <2>12, <3>1, ReplyOk DEF SesOk
  <2>13. CASE p.route = r /\ e = (IF d.kind = "Action" THEN [d EXCEPT !.ses.plan = NoPlan] ELSE d)
    <3>1. /\ SesRecord(whole) /\ whole.phase = "BeginAssembly"
          /\ whole.pending = t.pending /\ whole.route = t.route /\ whole.plan = t.plan
          /\ whole.cookie = t.cookie /\ whole.nextCookie = t.nextCookie
          /\ whole.replay = t.replay /\ whole.slot = t.slot
      BY <2>7, <2>10 DEF SesRecord
    <3>2. SesTypes(n, whole) /\ PhaseOk(whole)
      BY <2>7, <2>8, <2>9, <3>1 DEF SesTypes, PhaseOk
    <3>3. SesOk(n, after) /\ after.phase # "ActionPending"
      BY <2>10, <3>1, <3>2, PlanDroppedOk DEF SesOk
    <3>4. \/ \E x \in Texts : d = Reply(after, x, moved)
          \/ d = Act(whole, r, f, moved)
      <4>1. Decided(whole, r, f, after, p.fromReady, moved, Decide(whole, r, f, after, p.fromReady, moved))
        BY <3>2, DecideCases
      <4> QED
        BY <2>10, <4>1 DEF Decided
    <3>5. CASE \E x \in Texts : d = Reply(after, x, moved)
      <4>1. PICK x \in Texts : d = Reply(after, x, moved)
        BY <3>5
      <4>2. EmissionOk(n, r, f, d)
        BY <2>6, <3>3, <4>1, ReplyOk
      <4>3. e = d
        BY <2>13, <4>1 DEF Reply
      <4> QED
        BY <4>2, <4>3
    <3>6. CASE d = Act(whole, r, f, moved)
      <4> DEFINE w == [whole EXCEPT !.plan = NoPlan]
      <4>1. /\ SesRecord(w) /\ w.phase = whole.phase
            /\ w.pending = whole.pending /\ w.route = whole.route /\ w.plan = NoPlan
            /\ w.cookie = whole.cookie /\ w.nextCookie = whole.nextCookie
            /\ w.replay = whole.replay /\ w.slot = whole.slot
        BY <3>1 DEF SesRecord
      <4>2. SesTypes(n, w) /\ w.plan.route = NoRoute
        BY <3>2, <4>1, EmptyFields DEF SesTypes
      <4>3. w.route \in {NoRoute, r}
        BY <2>5, <2>7, <2>13, <3>1, <4>1
      <4>4. e.ses = Act(w, r, f, moved).ses /\ e.kind = "Action" /\ e.moved = moved
        <5> DEFINE x == [action |-> ActionOf(r, f), orphaned |-> FALSE]
        <5>1. /\ Act(w, r, f, moved).ses = [w EXCEPT !.phase = "ActionPending", !.pending = x]
              /\ d.ses = [whole EXCEPT !.phase = "ActionPending", !.pending = x]
              /\ d.kind = "Action" /\ d.moved = moved
          BY <3>6 DEF Act, ActionOf
        <5>2. e = [d EXCEPT !.ses.plan = NoPlan]
          BY <2>13, <5>1
        <5>3. e.ses = [d.ses EXCEPT !.plan = NoPlan] /\ e.kind = "Action" /\ e.moved = moved
          BY <3>6, <5>1, <5>2 DEF Act
        <5> HIDE DEF x
        <5>4. [[whole EXCEPT !.phase = "ActionPending", !.pending = x] EXCEPT !.plan = NoPlan]
                = [[whole EXCEPT !.plan = NoPlan] EXCEPT !.phase = "ActionPending", !.pending = x]
          BY <3>1 DEF SesRecord
        <5> QED
          BY <5>1, <5>3, <5>4
      <4> HIDE DEF w
      <4> QED
        BY <2>2, <2>6, <4>2, <4>3, <4>4, ActOk
    <3> QED
      BY <3>4, <3>5, <3>6
  <2> QED
    BY <2>1, <2>11, <2>12, <2>13
<1> QED
  BY <1>1, <1>2, <1>3

LEMMA ConsumeDataOk ==
  ASSUME NEW n \in Nat, NEW s, SesOk(n, s), s.phase # "ActionPending",
         NEW r \in Lifes(n), NEW f \in AppFrame, f.op = "Data", NEW e, e = ConsumeData(s, r, f)
  PROVE  EmissionOk(n, r, f, e)
<1> DEFINE u == IF s.phase = "Ready" THEN [rid |-> f.rid, parts |-> {}] ELSE s.unit
           v == [u EXCEPT !.parts = @ \cup {f.part}]
           t == [s EXCEPT !.phase = "UnitAssembly", !.unit = v]
           moved == f.part \notin u.parts
           done == [t EXCEPT !.unit = NoUnit, !.phase = "Ready"]
<1>1. \/ e = Refuse(s, "Refused", f) \/ e = Refuse(s, "Busy", f)
      \/ /\ s.route = r /\ s.phase \in {"Ready", "UnitAssembly"}
         /\ e = Reply(t, Status("Part", f.cookie), moved) \/ e = Decide(t, r, f, done, FALSE, moved)
  BY DEF ConsumeData
<1>2. CASE e = Refuse(s, "Refused", f) \/ e = Refuse(s, "Busy", f)
  BY <1>2, RefuseOk
<1>3. CASE /\ s.route = r /\ s.phase \in {"Ready", "UnitAssembly"}
           /\ e = Reply(t, Status("Part", f.cookie), moved) \/ e = Decide(t, r, f, done, FALSE, moved)
  <2>4. moved \in BOOLEAN
    OBVIOUS
  <2>a. t = [s EXCEPT !.phase = "UnitAssembly", !.unit = v] /\ SesRecord(s)
    BY DEF SesOk, SesTypes
  <2>8. done = [t EXCEPT !.unit = NoUnit, !.phase = "Ready"]
    OBVIOUS
  <2> HIDE DEF u, v, moved, t, done
  <2>1. /\ SesRecord(t) /\ t.phase = "UnitAssembly"
        /\ t.pending = s.pending /\ t.route = s.route /\ t.plan = s.plan
        /\ t.cookie = s.cookie /\ t.nextCookie = s.nextCookie /\ t.replay = s.replay /\ t.slot = s.slot
    BY <2>a DEF SesRecord
  <2>2. SesTypes(n, t) /\ PhaseOk(t) /\ t.plan.route = NoRoute
    BY <1>3, <2>1 DEF SesOk, SesTypes, PhaseOk
  <2>3. /\ SesRecord(done) /\ done.phase = "Ready"
        /\ done.pending = t.pending /\ done.route = t.route /\ done.plan = t.plan
        /\ done.cookie = t.cookie /\ done.nextCookie = t.nextCookie /\ done.replay = t.replay
        /\ done.slot = t.slot
    BY <2>1, <2>8 DEF SesRecord
  <2>5. SesTypes(n, done) /\ PhaseOk(done)
    BY <2>1, <2>2, <2>3 DEF SesTypes, PhaseOk
  <2>6. CASE e = Reply(t, Status("Part", f.cookie), moved)
    <3>1. Status("Part", f.cookie) \in Texts
      BY FrameFields, StatusIsText
    <3> QED
      BY <2>1, <2>2, <2>4, <2>6, <3>1, ReplyOk DEF SesOk
  <2>7. CASE e = Decide(t, r, f, done, FALSE, moved)
    <3>1. \/ \E x \in Texts : e = Reply(done, x, moved)
          \/ e = Act(t, r, f, moved)
      <4>1. Decided(t, r, f, done, FALSE, moved, Decide(t, r, f, done, FALSE, moved))
        BY <2>2, DecideCases
      <4> QED
        BY <2>7, <4>1 DEF Decided
    <3>2. CASE \E x \in Texts : e = Reply(done, x, moved)
      <4>1. PICK x \in Texts : e = Reply(done, x, moved)
        BY <3>2
      <4> QED
        BY <2>3, <2>4, <2>5, <4>1, ReplyOk DEF SesOk
    <3>3. CASE e = Act(t, r, f, moved)
      <4>1. e.ses = Act(t, r, f, moved).ses /\ e.kind = "Action" /\ e.moved = moved
        BY <3>3 DEF Act
      <4>2. f.op \in Ops /\ t.route \in {NoRoute, r}
        BY <1>3, <2>1 DEF Ops
      <4> QED
        BY <2>2, <2>4, <4>1, <4>2, ActOk
    <3> QED
      BY <3>1, <3>2, <3>3
  <2> QED
    BY <1>3, <2>6, <2>7
<1> QED
  BY <1>1, <1>2, <1>3

LEMMA ConsumeOneOk ==
  ASSUME NEW n \in Nat, NEW s, SesOk(n, s), s.phase # "ActionPending",
         NEW r \in Lifes(n), NEW f \in AppFrame, f.op \in BoundOps \cup OpenOps,
         NEW e, e = ConsumeBound(s, r, f) \/ e = ConsumeOpen(s, r, f)
  PROVE  EmissionOk(n, r, f, e)
<1> DEFINE mine == s.phase = "Ready" /\ s.route = r /\ s.cookie = f.cookie
<1>1. SesTypes(n, s) /\ f.op \in Ops
  BY DEF SesOk, Ops
<1>2. ASSUME NEW refuse, Decided(s, r, f, s, refuse, FALSE, e),
             Lookup(s, r, f) = "Miss" /\ ~refuse => s.plan.route = NoRoute /\ s.route \in {NoRoute, r}
      PROVE  EmissionOk(n, r, f, e)
  <2>1. CASE \E t \in Texts : e = Reply(s, t, FALSE)
    <3>1. PICK t \in Texts : e = Reply(s, t, FALSE)
      BY <2>1
    <3> QED
      BY <3>1, ReplyOk
  <2>2. CASE Lookup(s, r, f) = "Miss" /\ ~refuse /\ e = Act(s, r, f, FALSE)
    <3>1. e.ses = Act(s, r, f, FALSE).ses /\ e.kind = "Action" /\ e.moved = FALSE
      BY <2>2 DEF Act
    <3>2. s.plan.route = NoRoute /\ s.route \in {NoRoute, r}
      BY <1>2, <2>2
    <3> QED
      BY <1>1, <3>1, <3>2, ActOk
  <2> QED
    BY <1>2, <2>1, <2>2 DEF Decided
<1>3. CASE e = ConsumeBound(s, r, f)
  <2>1. Decided(s, r, f, s, ~mine, FALSE, Decide(s, r, f, s, ~mine, FALSE))
    BY <1>1, DecideCases
  <2>2. e = Decide(s, r, f, s, ~mine, FALSE)
    BY <1>3 DEF ConsumeBound
  <2>3. mine => s.plan.route = NoRoute /\ s.route = r
    BY DEF SesOk, PhaseOk
  <2> HIDE DEF mine
  <2> QED
    BY <1>2, <2>1, <2>2, <2>3
<1>4. CASE e = ConsumeOpen(s, r, f) /\ (Lookup(s, r, f) = "Miss" => s.phase = "Idle")
  <2>1. Decided(s, r, f, s, FALSE, FALSE, Decide(s, r, f, s, FALSE, FALSE))
    BY <1>1, DecideCases
  <2>2. e = Decide(s, r, f, s, FALSE, FALSE)
    BY <1>4 DEF ConsumeOpen
  <2>3. s.phase = "Idle" => s.plan.route = NoRoute /\ s.route = NoRoute
    BY DEF SesOk, PhaseOk
  <2> QED
    BY <1>2, <1>4, <2>1, <2>2, <2>3
<1>5. CASE e = ConsumeOpen(s, r, f) /\ Lookup(s, r, f) = "Miss" /\ s.phase # "Idle"
  <2>1. e = Refuse(s, "Busy", f)
    BY <1>5 DEF ConsumeOpen
  <2> QED
    BY <2>1, RefuseOk
<1> QED
  BY <1>3, <1>4, <1>5

LEMMA ConsumeOk ==
  ASSUME NEW n \in Nat, NEW s, SesOk(n, s), s.phase # "ActionPending",
         NEW r \in Lifes(n), NEW f \in AppFrame, f.op # "Bad", NEW e, e = Consume(s, r, f)
  PROVE  EmissionOk(n, r, f, e)
<1>1. CASE f.op \in Immediate
  <2>1. e = Reply(s, Status("Ok", 0), FALSE)
    BY <1>1 DEF Consume
  <2>2. Status("Ok", 0) \in Texts
    BY StatusIsText
  <2> QED
    BY <2>1, <2>2, ReplyOk
<1>2. CASE f.op \in PlanOps
  <2>1. e = ConsumePlan(s, r, f)
    BY <1>2 DEF Consume, Immediate, PlanOps, BoundOps, OpenOps
  <2> QED
    BY <1>2, <2>1, ConsumePlanOk
<1>3. CASE f.op = "Data"
  <2>1. e = ConsumeData(s, r, f)
    BY <1>3 DEF Consume, Immediate, PlanOps, BoundOps, OpenOps
  <2> QED
    BY <1>3, <2>1, ConsumeDataOk
<1>4. CASE f.op \in BoundOps
  <2>1. e = ConsumeBound(s, r, f)
    BY <1>4 DEF Consume, Immediate, PlanOps, BoundOps, OpenOps
  <2> QED
    BY <1>4, <2>1, ConsumeOneOk
<1>5. CASE f.op \in OpenOps
  <2>1. e = ConsumeOpen(s, r, f)
    BY <1>5 DEF Consume, Immediate, PlanOps, BoundOps, OpenOps
  <2> QED
    BY <1>5, <2>1, ConsumeOneOk
<1> QED
  BY <1>1, <1>2, <1>3, <1>4, <1>5, FrameFields DEF Ops

\* What the session writes when an action is over.
LEMMA ResetOk ==
  ASSUME NEW n \in Nat, NEW s, SesTypes(n, s), s.pending = NoPending, NEW t, t = Reset(s)
  PROVE  SesOk(n, t) /\ t.phase = "Idle" /\ t.slot = s.slot
<1>1. t = [s EXCEPT !.plan = NoPlan, !.unit = NoUnit, !.route = NoRoute, !.cookie = 0, !.phase = "Idle"]
  BY DEF Reset, Unbound, Unassembled, SesTypes, SesRecord
<1>2. /\ SesRecord(t) /\ t.phase = "Idle" /\ t.pending = s.pending /\ t.route = NoRoute /\ t.plan = NoPlan
      /\ t.cookie = 0 /\ t.nextCookie = s.nextCookie /\ t.replay = s.replay /\ t.slot = s.slot
  BY <1>1 DEF SesTypes, SesRecord
<1>3. NoRoute \in Routes(n) /\ NoPlan \in Plans(n) /\ NoPlan.route = NoRoute
  BY EmptyFields DEF Plans
<1> QED
  BY <1>2, <1>3 DEF SesOk, SesTypes, PhaseOk

LEMMA RememberOk ==
  ASSUME NEW n \in Nat, NEW s, SesOk(n, s), NEW a \in Actions(n), NEW x \in Texts,
         NEW t, t = Remember(s, a, x)
  PROVE  SesOk(n, t) /\ t.phase = s.phase /\ t.pending = s.pending
<1> DEFINE m == [action |-> a, reply |-> x]
           h == [s.replay EXCEPT ![s.slot] = m]
           j == IF s.slot = ReplaySlots THEN 1 ELSE s.slot + 1
<1>1. t = [s EXCEPT !.replay = h, !.slot = j]
  BY DEF Remember
<1>2. SesRecord(s) /\ s.replay = [i \in 1..ReplaySlots |-> s.replay[i]] /\ s.slot \in 1..ReplaySlots
      /\ \A i \in 1..ReplaySlots : MemoryOk(n, s.replay[i])
  BY DEF SesOk, SesTypes
<1>3. j \in 1..ReplaySlots
  BY <1>2, SessionHasReplay
<1>4. MemoryOk(n, m)
  BY DEF MemoryOk
<1>5. h = [i \in 1..ReplaySlots |-> h[i]] /\ \A i \in 1..ReplaySlots : MemoryOk(n, h[i])
  <2> HIDE DEF m
  <2> QED
    BY <1>2, <1>4
<1> HIDE DEF m, h, j
<1>6. /\ SesRecord(t) /\ t.phase = s.phase /\ t.pending = s.pending /\ t.route = s.route /\ t.plan = s.plan
      /\ t.cookie = s.cookie /\ t.nextCookie = s.nextCookie /\ t.replay = h /\ t.slot = j
  BY <1>1, <1>2 DEF SesRecord
<1> QED
  BY <1>3, <1>5, <1>6 DEF SesOk, SesTypes, PhaseOk

CompletionOk(n, e) ==
  /\ SesOk(n, e.ses) /\ e.ses.phase # "ActionPending" /\ e.kind \in {"Reply", "None"}
  /\ e.kind = "Reply" => e.reply \in Texts

LEMMA CompletedOk ==
  ASSUME NEW n \in Nat, NEW s, SesOk(n, s), s.phase = "ActionPending", NEW ok \in BOOLEAN,
         NEW outcome, NEW e, e = Completed(s, ok, outcome)
  PROVE  CompletionOk(n, e)
<1> DEFINE a == s.pending.action
           u == IF a.op = "Data" THEN NoUnit ELSE s.unit
           base == [s EXCEPT !.pending = NoPending, !.unit = u]
           bound == [base EXCEPT !.route = a.route, !.cookie = s.nextCookie,
                                 !.nextCookie = @ + 1, !.phase = "Ready"]
           ready == [base EXCEPT !.phase = "Ready"]
           idle == [Unbound(base) EXCEPT !.phase = "Idle"]
           failed == IF a.op \in BoundOps \cup {"Data"} THEN ready ELSE idle
           won == CASE Binds(a, outcome) -> bound
                    [] StaysBound(a) -> ready
                    [] OTHER -> Reset(base)
           reply == Status("Ok", IF Binds(a, outcome) THEN bound.cookie ELSE a.cookie)
<1>1. e = IF ok THEN [ses |-> Remember(won, a, reply), kind |-> "Reply", reply |-> reply]
          ELSE [ses |-> failed, kind |-> "Reply", reply |-> Status("Failed", a.cookie)]
  BY DEF Completed
<1>2. /\ SesTypes(n, s) /\ SesRecord(s) /\ s.plan.route = NoRoute /\ s.pending \in Pendings(n)
      /\ s.nextCookie \in Nat
  BY DEF SesOk, SesTypes, PhaseOk
<1>3. a \in Actions(n)
  BY <1>2 DEF Pendings
<1>4. a.route \in Routes(n) /\ a.cookie \in Nat
  BY <1>3 DEF Actions
<1>5. base = [s EXCEPT !.pending = NoPending, !.unit = u]
  OBVIOUS
<1>6. bound = [base EXCEPT !.route = a.route, !.cookie = s.nextCookie,
                           !.nextCookie = @ + 1, !.phase = "Ready"]
      /\ ready = [base EXCEPT !.phase = "Ready"] /\ idle = [Unbound(base) EXCEPT !.phase = "Idle"]
  OBVIOUS
<1> HIDE DEF u, base
<1>7. /\ SesRecord(base) /\ base.phase = s.phase /\ base.pending = NoPending /\ base.route = s.route
      /\ base.plan = s.plan /\ base.cookie = s.cookie /\ base.nextCookie = s.nextCookie
      /\ base.replay = s.replay /\ base.slot = s.slot
  BY <1>2, <1>5 DEF SesRecord
<1>8. SesTypes(n, base)
  BY <1>2, <1>7, EmptyFields DEF SesTypes
<1> HIDE DEF bound, ready, idle, a
<1>9. SesOk(n, bound) /\ bound.phase = "Ready" /\ bound.cookie = s.nextCookie
  <2>1. /\ SesRecord(bound) /\ bound.phase = "Ready" /\ bound.pending = NoPending
        /\ bound.route = a.route /\ bound.plan = s.plan /\ bound.cookie = s.nextCookie
        /\ bound.nextCookie = s.nextCookie + 1 /\ bound.replay = s.replay /\ bound.slot = s.slot
    BY <1>6, <1>7 DEF SesRecord
  <2>2. s.nextCookie + 1 \in Nat
    BY <1>2
  <2>3. SesTypes(n, bound)
    BY <1>2, <1>4, <2>1, <2>2, EmptyFields DEF SesTypes
  <2> QED
    BY <1>2, <2>1, <2>3 DEF SesOk, PhaseOk
<1>10. SesOk(n, ready) /\ ready.phase = "Ready"
  <2>1. /\ SesRecord(ready) /\ ready.phase = "Ready" /\ ready.pending = NoPending
        /\ ready.route = base.route /\ ready.plan = base.plan /\ ready.cookie = base.cookie
        /\ ready.nextCookie = base.nextCookie /\ ready.replay = base.replay /\ ready.slot = base.slot
    BY <1>6, <1>7 DEF SesRecord
  <2> QED
    BY <1>2, <1>7, <1>8, <2>1 DEF SesOk, SesTypes, PhaseOk
<1>11. SesOk(n, idle) /\ idle.phase = "Idle"
  <2>0. idle = [base EXCEPT !.route = NoRoute, !.cookie = 0, !.phase = "Idle"]
    BY <1>6, <1>7 DEF Unbound, SesRecord
  <2>1. /\ SesRecord(idle) /\ idle.phase = "Idle" /\ idle.pending = NoPending
        /\ idle.route = NoRoute /\ idle.plan = base.plan /\ idle.cookie = 0
        /\ idle.nextCookie = base.nextCookie /\ idle.replay = base.replay /\ idle.slot = base.slot
    BY <1>7, <2>0 DEF SesRecord
  <2>2. NoRoute \in Routes(n)
    BY RoutesAndLeases
  <2> QED
    BY <1>2, <1>7, <1>8, <2>1, <2>2 DEF SesOk, SesTypes, PhaseOk
<1>12. SesOk(n, Reset(base)) /\ Reset(base).phase = "Idle"
  BY <1>7, <1>8, ResetOk
<1>13. SesOk(n, failed) /\ failed.phase # "ActionPending"
  BY <1>10, <1>11
<1>14. SesOk(n, won) /\ won.phase # "ActionPending"
  <2>1. CASE Binds(a, outcome)
    <3>1. won = bound
      BY <2>1 DEF Binds, StaysBound
    <3> QED
      BY <1>9, <3>1
  <2>2. CASE StaysBound(a)
    <3>1. won = ready
      BY <2>2 DEF Binds, StaysBound
    <3> QED
      BY <1>10, <3>1
  <2>3. CASE ~Binds(a, outcome) /\ ~StaysBound(a)
    <3>1. won = Reset(base)
      BY <2>3
    <3> QED
      BY <1>12, <3>1
  <2> QED
    BY <2>1, <2>2, <2>3
<1>15. reply \in Texts /\ Status("Failed", a.cookie) \in Texts
  BY <1>2, <1>4, <1>9, StatusIsText
<1> HIDE DEF won, reply, failed
<1>16. SesOk(n, Remember(won, a, reply)) /\ Remember(won, a, reply).phase # "ActionPending"
  BY <1>3, <1>14, <1>15, RememberOk DEF a
<1> QED
  BY <1>1, <1>13, <1>15, <1>16 DEF CompletionOk

LEMMA CompleteOk ==
  ASSUME NEW n \in Nat, NEW s, SesOk(n, s), s.phase = "ActionPending", NEW ok \in BOOLEAN,
         NEW outcome, NEW e, e = Complete(s, ok, outcome)
  PROVE  CompletionOk(n, e)
<1>1. CASE s.pending.orphaned
  <2> DEFINE b == Reset(s)
             t == [b EXCEPT !.pending = NoPending]
  <2>1. e = [ses |-> t, kind |-> "None", reply |-> Status("None", 0)]
    BY <1>1 DEF Complete
  <2>2. /\ SesRecord(t) /\ t.phase = "Idle" /\ t.pending = NoPending /\ t.route = NoRoute /\ t.plan = NoPlan
        /\ t.cookie = 0 /\ t.nextCookie = s.nextCookie /\ t.replay = s.replay /\ t.slot = s.slot
    <3>1. SesRecord(s)
      BY DEF SesOk, SesTypes
    <3>2. b = [s EXCEPT !.plan = NoPlan, !.unit = NoUnit, !.route = NoRoute, !.cookie = 0, !.phase = "Idle"]
      BY <3>1 DEF Reset, Unbound, Unassembled, SesRecord
    <3>3. SesRecord(b) /\ b.phase = "Idle" /\ b.route = NoRoute /\ b.plan = NoPlan
          /\ b.cookie = 0 /\ b.nextCookie = s.nextCookie /\ b.replay = s.replay /\ b.slot = s.slot
      BY <3>1, <3>2 DEF SesRecord
    <3>4. t = [b EXCEPT !.pending = NoPending]
      OBVIOUS
    <3> HIDE DEF b, t
    <3> QED
      BY <3>3, <3>4 DEF SesRecord
  <2>3. NoRoute \in Routes(n)
    BY RoutesAndLeases
  <2> HIDE DEF t
  <2>4. SesTypes(n, t)
    BY <2>2, <2>3, EmptyFields DEF SesOk, SesTypes
  <2>5. PhaseOk(t)
    BY <2>2, EmptyFields DEF PhaseOk
  <2> QED
    BY <2>1, <2>2, <2>4, <2>5 DEF CompletionOk, SesOk
<1>2. CASE ~s.pending.orphaned
  BY <1>2, CompletedOk DEF Complete
<1> QED
  BY <1>1, <1>2

\* The end of a route: the memory of its answers goes, and a pending action stays alone.
ReplayOk(n, h) ==
  h = [i \in 1..ReplaySlots |-> h[i]] /\ \A i \in 1..ReplaySlots : MemoryOk(n, h[i])

WithReplay(s, h, j) == [s EXCEPT !.replay = h, !.slot = j]

LEMMA ReplayWritten ==
  ASSUME NEW n \in Nat, NEW s, SesOk(n, s), NEW h, ReplayOk(n, h), NEW j \in 1..ReplaySlots,
         NEW t, t = WithReplay(s, h, j)
  PROVE  /\ SesOk(n, t) /\ t.phase = s.phase /\ t.pending = s.pending /\ t.route = s.route
         /\ t.plan = s.plan
<1>1. SesRecord(s)
  BY DEF SesOk, SesTypes
<1>2. /\ SesRecord(t) /\ t.phase = s.phase /\ t.pending = s.pending /\ t.route = s.route /\ t.plan = s.plan
      /\ t.cookie = s.cookie /\ t.nextCookie = s.nextCookie /\ t.replay = h /\ t.slot = j
  BY <1>1 DEF SesRecord, WithReplay
<1> QED
  BY <1>2 DEF SesOk, SesTypes, PhaseOk, ReplayOk

LEMMA NoEntryOk == ASSUME NEW n \in Nat PROVE MemoryOk(n, NoEntry)
BY EmptyFields DEF MemoryOk, NoEntry

LEMMA OrphanedOk ==
  ASSUME NEW n \in Nat, NEW s, SesOk(n, s), s.phase = "ActionPending", NEW t, t = Orphaned(s)
  PROVE  SesOk(n, t) /\ t.phase = s.phase /\ t.pending.action = s.pending.action
<1> DEFINE u == IF s.pending.action.op = "Data" THEN s ELSE Unassembled(s)
<1>1. t = [Unbound(u) EXCEPT !.pending.orphaned = TRUE] /\ SesRecord(s) /\ s.pending \in Pendings(n)
  BY DEF Orphaned, SesOk, SesTypes
<1>2. /\ SesRecord(u) /\ u.phase = s.phase /\ u.pending = s.pending /\ u.plan \in {s.plan, NoPlan}
      /\ u.nextCookie = s.nextCookie /\ u.replay = s.replay /\ u.slot = s.slot
  BY <1>1 DEF Unassembled, SesRecord
<1> HIDE DEF u
<1> DEFINE p == [u.pending EXCEPT !.orphaned = TRUE]
<1>3. t = [u EXCEPT !.route = NoRoute, !.cookie = 0, !.pending = p]
  BY <1>1, <1>2 DEF Unbound, SesRecord
<1>4. p \in Pendings(n) /\ p.action = s.pending.action
  BY <1>1, <1>2 DEF Pendings
<1> HIDE DEF p
<1>5. /\ SesRecord(t) /\ t.phase = s.phase /\ t.pending = p /\ t.route = NoRoute /\ t.plan \in {s.plan, NoPlan}
      /\ t.cookie = 0 /\ t.nextCookie = s.nextCookie /\ t.replay = s.replay /\ t.slot = s.slot
  BY <1>2, <1>3 DEF SesRecord
<1>6. NoRoute \in Routes(n)
  BY RoutesAndLeases
<1>7. SesTypes(n, t)
  BY <1>4, <1>5, <1>6, EmptyFields DEF SesOk, SesTypes
<1>8. PhaseOk(t)
  BY <1>4, <1>5, EmptyFields DEF SesOk, PhaseOk
<1> QED
  BY <1>4, <1>5, <1>7, <1>8 DEF SesOk

LEMMA RouteClosedOk ==
  ASSUME NEW n \in Nat, NEW s, SesOk(n, s), NEW r \in Lifes(n), NEW t, t = RouteClosed(s, r)
  PROVE  /\ SesOk(n, t) /\ (t.phase = "ActionPending" <=> s.phase = "ActionPending")
         /\ t.pending.action = s.pending.action
<1> DEFINE h == [i \in 1..ReplaySlots |->
                   IF s.replay[i].action.route = r THEN NoEntry ELSE s.replay[i]]
           f == Forget(s, r)
<1>1. SesRecord(s) /\ s.slot \in 1..ReplaySlots /\ \A i \in 1..ReplaySlots : MemoryOk(n, s.replay[i])
  BY DEF SesOk, SesTypes
<1>2. f = WithReplay(s, h, s.slot)
  BY <1>1 DEF Forget, SesRecord, WithReplay
<1>3. ReplayOk(n, h)
  BY <1>1, NoEntryOk DEF ReplayOk
<1> HIDE DEF h
<1>4. t = IF s.pending.action.route = r THEN Orphaned(f)
          ELSE IF s.route = r \/ s.plan.route = r THEN Reset(f) ELSE f
  BY DEF RouteClosed
<1> HIDE DEF f
<1>5. SesOk(n, f) /\ f.phase = s.phase /\ f.pending = s.pending /\ f.route = s.route /\ f.plan = s.plan
  BY <1>1, <1>2, <1>3, ReplayWritten
<1>6. r # NoRoute
  BY RoutesAndLeases
<1>7. CASE s.pending.action.route = r
  <2>1. s.pending # NoPending
    BY <1>6, <1>7, EmptyFields
  <2>2. s.phase = "ActionPending"
    BY <2>1 DEF SesOk, PhaseOk
  <2> QED
    BY <1>4, <1>5, <1>7, <2>2, OrphanedOk
<1>8. CASE s.pending.action.route # r /\ (s.route = r \/ s.plan.route = r)
  <2>1. s.phase # "ActionPending"
    BY <1>6, <1>8 DEF SesOk, PhaseOk
  <2>2. s.pending = NoPending
    BY <2>1 DEF SesOk, PhaseOk
  <2>3. SesTypes(n, f) /\ f.pending = NoPending /\ t = Reset(f)
    BY <1>4, <1>5, <1>8, <2>2 DEF SesOk
  <2>4. SesOk(n, t) /\ t.phase = "Idle"
    BY <2>3, ResetOk
  <2> QED
    BY <2>1, <2>2, <2>4 DEF SesOk, PhaseOk
<1>9. CASE s.pending.action.route # r /\ ~(s.route = r \/ s.plan.route = r)
  BY <1>4, <1>5, <1>9
<1> QED
  BY <1>7, <1>8, <1>9

LEMMA AllRoutesClosedOk ==
  ASSUME NEW n \in Nat, NEW s, SesOk(n, s), NEW t, t = AllRoutesClosed(s)
  PROVE  /\ SesOk(n, t) /\ (t.phase = "ActionPending" <=> s.phase = "ActionPending")
         /\ t.pending.action = s.pending.action
<1> DEFINE f == [s EXCEPT !.replay = NoEntries, !.slot = 1]
<1>1. t = IF s.pending # NoPending THEN Orphaned(f) ELSE Reset(f)
  BY DEF AllRoutesClosed
<1>2. ReplayOk(n, NoEntries) /\ 1 \in 1..ReplaySlots
  BY NoEntryOk, SessionHasReplay DEF NoEntries, ReplayOk
<1>3. f = WithReplay(s, NoEntries, 1)
  BY DEF WithReplay
<1> HIDE DEF f
<1>4. SesOk(n, f) /\ f.phase = s.phase /\ f.pending = s.pending
  BY <1>2, <1>3, ReplayWritten
<1>5. CASE s.pending # NoPending
  <2>1. s.phase = "ActionPending"
    BY <1>5 DEF SesOk, PhaseOk
  <2> QED
    BY <1>1, <1>4, <1>5, <2>1, OrphanedOk
<1>6. CASE s.pending = NoPending
  <2>1. s.phase # "ActionPending"
    BY <1>6, EmptyFields DEF SesOk, PhaseOk
  <2>2. SesTypes(n, f) /\ f.pending = NoPending /\ t = Reset(f)
    BY <1>1, <1>4, <1>6 DEF SesOk
  <2>3. SesOk(n, t) /\ t.phase = "Idle"
    BY <2>2, ResetOk
  <2> QED
    BY <1>6, <2>1, <2>3 DEF SesOk, PhaseOk
<1> QED
  BY <1>5, <1>6

-----------------------------------------------------------------------------
(* The admission, apart from who takes the step. *)

LEMMA NoAnswerOk ==
  ASSUME NEW n \in Nat, NEW k \in Nat
  PROVE  /\ NoAnswer \in Answers(n, k) /\ NoAnswer.lease = NoLease /\ NoAnswer.seq = 0
         /\ NoLease \in Leases(n, k) /\ NoLease.id = 0 /\ NoRequest \in Requests
<1>1. NoLease \in Leases(n, k) /\ NoLease.id = 0
  BY RoutesAndLeases, RecordFields
<1>2. NoRequest \in Requests /\ NoRequest.op = "None"
  BY DEF NoRequest, Requests
<1>3. Status("None", 0) \in Texts
  BY StatusIsText
<1> QED
  BY <1>1, <1>2, <1>3 DEF NoAnswer, Answers

\* A request in the mailbox is the one that was admitted.
LEMMA FrameIsReserved ==
  ASSUME NEW n \in Nat, NEW k \in Nat, NEW b, MailOk(n, k, b)
  PROVE  /\ b.next \in 1..(k + 1) /\ b.next \in Nat /\ b.next >= 1
         /\ b.reserved \in Leases(n, k) /\ b.reserved.route \in Routes(n)
         /\ FrameAt(b.data) # {} => b.reserved # NoLease
         /\ b.reserved # NoLease => b.reserved.id \in 1..(b.next - 1)
<1>1. b.next \in 1..(k + 1) /\ b.reserved \in Leases(n, k)
  BY DEF MailOk, Mailboxes
<1>2. b.reserved.route \in Routes(n)
  BY <1>1 DEF Leases
<1>3. FrameAt(b.data) # {} => b.reserved # NoLease
  BY DEF MailOk, DataOk
<1>4. b.reserved # NoLease => b.reserved.id \in 1..(b.next - 1)
  BY DEF MailOk, AdmissionOk
<1>5. b.next \in Nat /\ b.next >= 1
  BY <1>1
<1> QED
  BY <1>1, <1>2, <1>3, <1>4, <1>5

\* The requests that were sent, as the mailbox counts them.
LEMMA CountKeeps ==
  ASSUME NEW b, NEW e, NEW c, NEW d, b.next \in Nat, e.next \in Nat,
         Len(c.ingress) \in Nat, Len(d.ingress) \in Nat, CountOk(b, c),
         \/ Len(d.ingress) <= Len(c.ingress) /\ (FrameAt(e.data) # {} => FrameAt(b.data) # {}) /\ e.next = b.next
         \/ Len(d.ingress) <= Len(c.ingress) /\ e.next = b.next + 1 
         \/ Len(d.ingress) <= Len(c.ingress) + 1 /\ FrameAt(e.data) = {} /\ FrameAt(b.data) # {} /\ e.next = b.next
  PROVE  CountOk(e, d)
<1> DEFINE sent(x) == IF FrameAt(x) = {} THEN 0 ELSE 1
<1>1. /\ sent(b.data) \in {0, 1} /\ (FrameAt(b.data) # {} => sent(b.data) = 1)
      /\ sent(e.data) \in {0, 1} /\ (FrameAt(e.data) = {} => sent(e.data) = 0)
      /\ (FrameAt(e.data) # {} => FrameAt(b.data) # {}) => sent(e.data) <= sent(b.data)
  OBVIOUS
<1>2. Len(c.ingress) + sent(b.data) <= b.next - 1
  BY DEF CountOk
<1> HIDE DEF sent
<1>3. Len(d.ingress) + sent(e.data) <= e.next - 1
  <2>1. CASE Len(d.ingress) <= Len(c.ingress) /\ (FrameAt(e.data) # {} => FrameAt(b.data) # {}) /\ e.next = b.next
    BY <1>1, <1>2, <2>1
  <2>2. CASE Len(d.ingress) <= Len(c.ingress) /\ e.next = b.next + 1
    BY <1>1, <1>2, <2>2
  <2>3. CASE Len(d.ingress) <= Len(c.ingress) + 1 /\ FrameAt(e.data) = {} /\ FrameAt(b.data) # {} /\ e.next = b.next
    BY <1>1, <1>2, <2>3
  <2> QED
    BY <2>1, <2>2, <2>3
<1> QED
  BY <1>3 DEF CountOk, sent

\* The transports change the mailbox under the core.
LEMMA RouteStepKeeps ==
  ASSUME NEW n \in Nat, NEW k \in Nat, NEW b, MailOk(n, k, b), NEW e, MailOk(n, k, e),
         RouteStep(n, b, e), NEW c, NEW q, LeasesOk(b, c, q)
  PROVE  /\ LeasesOk(e, c, q) /\ (HeldOk(b, c) => HeldOk(e, c))
         /\ (CountOk(b, c) /\ Len(c.ingress) \in Nat) => CountOk(e, c)
         /\ (StaleOk(b, c) /\ (\A l \in Waiting(c) : l.route \in Routes(n))) => StaleOk(e, c)
<1>1. /\ b.next \in Nat /\ b.next >= 1 /\ e.next \in Nat
      /\ FrameAt(b.data) # {} => b.reserved # NoLease
      /\ FrameAt(e.data) # {} => e.reserved # NoLease
  <2>1. b.next \in Nat /\ b.next >= 1 /\ (FrameAt(b.data) # {} => b.reserved # NoLease)
    BY FrameIsReserved
  <2>2. e.next \in Nat /\ (FrameAt(e.data) # {} => e.reserved # NoLease)
    BY FrameIsReserved
  <2> QED
    BY <2>1, <2>2
<1>2. e.next = b.next /\ (e.reserved = b.reserved \/ (e.reserved = NoLease /\ CloseAhead(e, b.reserved.route)))
      /\ (FrameAt(e.data) # {} => FrameAt(b.data) # {})
      /\ (e.reserved # NoLease /\ FrameAt(b.data) # {} => FrameAt(e.data) # {})
      /\ \A r \in Routes(n) : CloseAhead(b, r) => CloseAhead(e, r)
  BY DEF RouteStep
<1>3. LeasesOk(e, c, q)
  BY <1>1, <1>2 DEF LeasesOk
<1>4. HeldOk(b, c) => HeldOk(e, c)
  BY <1>2 DEF HeldOk
<1>5. (CountOk(b, c) /\ Len(c.ingress) \in Nat) => CountOk(e, c)
  <2> SUFFICES ASSUME CountOk(b, c), Len(c.ingress) \in Nat PROVE CountOk(e, c)
    OBVIOUS
  <2>1. Len(c.ingress) <= Len(c.ingress)
    OBVIOUS
  <2> QED
    BY <1>1, <1>2, <2>1, CountKeeps
<1>6. StaleOk(b, c) /\ (\A l \in Waiting(c) : l.route \in Routes(n)) => StaleOk(e, c)
  BY <1>2 DEF StaleOk
<1> QED
  BY <1>3, <1>4, <1>5, <1>6

\* A request arrives and is admitted.
LEMMA FrameStepKeeps ==
  ASSUME NEW n \in Nat, NEW k \in Nat, NEW b, MailOk(n, k, b), NEW e, MailOk(n, k, e),
         NEW r, FrameStep(n, b, r, e), NEW c, NEW q, LeasesOk(b, c, q),
         \A l \in Waiting(c) \cup Answering(c) \cup {q.lease} : l.id \in Nat
  PROVE  /\ LeasesOk(e, c, q) /\ HeldOk(e, c)
         /\ (CountOk(b, c) /\ Len(c.ingress) \in Nat) => CountOk(e, c)
         /\ (StaleOk(b, c) /\ (\A l \in Waiting(c) : l.route \in Routes(n))) => StaleOk(e, c)
<1>1. /\ e.next = b.next + 1 /\ e.reserved = LeaseOf(r, b.next)
      /\ FrameAt(e.data) # {}
      /\ b.reserved = NoLease \/ CloseAhead(e, b.reserved.route)
      /\ \A x \in Routes(n) : CloseAhead(b, x) => CloseAhead(e, x)
  BY DEF FrameStep
<1>2. b.next \in Nat /\ e.reserved.id = b.next
  BY <1>1, FrameIsReserved DEF LeaseOf
<1>3. \A l \in Waiting(c) \cup Answering(c) \cup {q.lease} : l.id < b.next
  BY <1>2 DEF LeasesOk
<1>4. LeasesOk(e, c, q)
  <2>1. e.reserved \notin Answering(c) \cup {q.lease} \cup Waiting(c)
    BY <1>2, <1>3
  <2>2. \A l \in Answering(c) \cup {q.lease} : l.id < e.next
    BY <1>1, <1>2, <1>3
  <2>3. \A l \in Waiting(c) : l.id \in 1..(e.next - 1)
    BY <1>1, <1>2 DEF LeasesOk
  <2> QED
    BY <2>1, <2>2, <2>3 DEF LeasesOk
<1>5. HeldOk(e, c)
  BY <1>1 DEF HeldOk
<1>6. (CountOk(b, c) /\ Len(c.ingress) \in Nat) => CountOk(e, c)
  BY <1>1, <1>2, CountKeeps
<1>7. StaleOk(b, c) /\ (\A l \in Waiting(c) : l.route \in Routes(n)) => StaleOk(e, c)
  <2>1. \A l \in Waiting(c) : l # NoLease
    BY RecordFields DEF LeasesOk
  <2> QED
    BY <1>1, <2>1 DEF StaleOk
<1> QED
  BY <1>4, <1>5, <1>6, <1>7

\* What a step of the core may do to requests: they stay, are answered, are given to the
\* store, lose their route, or give their admission l back.
CoreMove(c, d, l) ==
  /\ Waiting(d) \subseteq Waiting(c) /\ Different(d.ingress) /\ Len(d.ingress) <= Len(c.ingress)
  /\ Answering(d) \subseteq Answering(c) \cup (Waiting(c) \ Waiting(d)) \cup {NoLease}
  /\ \A x \in Waiting(c) \cup Answering(c) :
       x \in Waiting(d) \cup Answering(d) \cup {l, NoLease} \/ x.route \in d.closed
  /\ c.closed \subseteq d.closed
  /\ l \notin Waiting(d)

LEMMA MoveKeeps ==
  ASSUME NEW n \in Nat, NEW k \in Nat, NEW b, MailOk(n, k, b), NEW c, NEW q, LeasesOk(b, c, q),
         NEW d, NEW l, CoreMove(c, d, l), NEW p, p \in {q, NoAnswer},
         NEW e, e = Released(b, l)
  PROVE  /\ MailOk(n, k, e) /\ e.next = b.next
         /\ LeasesOk(e, d, p) /\ (HeldOk(b, c) => HeldOk(e, d))
         /\ (CountOk(b, c) /\ Len(c.ingress) \in Nat /\ Len(d.ingress) \in Nat) => CountOk(e, d)
         /\ (StaleOk(b, c) /\ (\A x \in Waiting(c) : x.route \in Routes(n))
              /\ (\A x \in Waiting(d) : CloseDue(c, x.route) => CloseDue(d, x.route))) => StaleOk(e, d)
<1>1. MailOk(n, k, e) /\ ReleaseStep(n, b, l, e)
  BY ReleasedMail
<1>2. /\ e.next = b.next /\ e.revokeAll = b.revokeAll /\ e.failClosed = b.failClosed
      /\ e.closes = b.closes
      /\ e = b \/ (l = b.reserved /\ e.reserved = NoLease /\ FrameAt(e.data) = {})
      /\ l = b.reserved => e.reserved = NoLease
      /\ FrameAt(e.data) # {} => FrameAt(b.data) # {}
      /\ \A x \in Routes(n) : CloseFirst(b.data, x) => CloseFirst(e.data, x)
  BY <1>1 DEF ReleaseStep
<1>3. /\ b.next \in Nat /\ b.next >= 1
      /\ FrameAt(b.data) # {} => b.reserved # NoLease
      /\ NoLease.id = 0 /\ NoAnswer.lease = NoLease
  <2>1. b.next \in Nat /\ b.next >= 1 /\ (FrameAt(b.data) # {} => b.reserved # NoLease)
    BY FrameIsReserved
  <2>2. NoLease.id = 0 /\ NoAnswer.lease = NoLease
    BY NoAnswerOk
  <2> QED
    BY <2>1, <2>2
<1>4. /\ Waiting(d) \subseteq Waiting(c) /\ Different(d.ingress) /\ Len(d.ingress) <= Len(c.ingress)
      /\ Answering(d) \subseteq Answering(c) \cup (Waiting(c) \ Waiting(d)) \cup {NoLease}
      /\ \A x \in Waiting(c) \cup Answering(c) :
           x \in Waiting(d) \cup Answering(d) \cup {l, NoLease} \/ x.route \in d.closed
      /\ c.closed \subseteq d.closed
      /\ l \notin Waiting(d)
  BY DEF CoreMove
<1>5. /\ \A x \in Answering(c) \cup {q.lease} : x.id < b.next
      /\ \A x \in Waiting(c) : x.id \in 1..(b.next - 1) /\ x \notin Answering(c) \cup {q.lease}
      /\ FrameAt(b.data) # {} => b.reserved \notin Answering(c) \cup {q.lease} \cup Waiting(c)
  BY DEF LeasesOk
<1>6. p.lease \in {q.lease, NoLease}
  BY <1>3
<1>7. LeasesOk(e, d, p)
  <2>1. \A x \in Answering(d) \cup {p.lease} : x \in Answering(c) \cup {q.lease} \cup Waiting(c) \cup {NoLease}
    BY <1>4, <1>6
  <2>2. \A x \in Answering(d) \cup {p.lease} : x.id < e.next
    BY <1>2, <1>3, <1>5, <2>1
  <2>3. \A x \in Waiting(d) : x.id \in 1..(e.next - 1) /\ x # NoLease
    BY <1>2, <1>3, <1>4, <1>5
  <2>4. \A x \in Waiting(d) : x \notin Answering(d) \cup {p.lease}
    BY <1>4, <1>5, <1>6, <2>3
  <2>5. FrameAt(e.data) # {} => e.reserved \notin Answering(d) \cup {p.lease} \cup Waiting(d)
    <3> SUFFICES ASSUME FrameAt(e.data) # {} PROVE e.reserved \notin Answering(d) \cup {p.lease} \cup Waiting(d)
      OBVIOUS
    <3>1. e = b /\ FrameAt(b.data) # {}
      BY <1>2
    <3> QED
      BY <1>3, <1>4, <1>5, <2>1, <3>1
  <2> QED
    BY <1>4, <2>2, <2>3, <2>4, <2>5 DEF LeasesOk
<1>8. HeldOk(b, c) => HeldOk(e, d)
  <2> SUFFICES ASSUME HeldOk(b, c), e.reserved # NoLease, e.reserved.route \notin d.closed
               PROVE  FrameAt(e.data) # {} \/ e.reserved \in Waiting(d) \cup Answering(d)
    BY DEF HeldOk
  <2>1. e = b /\ l # b.reserved
    BY <1>2
  <2>2. FrameAt(b.data) # {} \/ b.reserved \in Waiting(c) \cup Answering(c)
    BY <1>4, <2>1 DEF HeldOk
  <2> QED
    BY <1>4, <2>1, <2>2
<1>9. CountOk(b, c) /\ Len(c.ingress) \in Nat /\ Len(d.ingress) \in Nat => CountOk(e, d)
  BY <1>2, <1>3, <1>4, CountKeeps
<1>10. ASSUME StaleOk(b, c), \A x \in Waiting(c) : x.route \in Routes(n),
              \A x \in Waiting(d) : CloseDue(c, x.route) => CloseDue(d, x.route)
       PROVE  StaleOk(e, d)
  <2> SUFFICES ASSUME NEW x \in Waiting(d)
               PROVE  x = e.reserved \/ CloseAhead(e, x.route) \/ CloseDue(d, x.route)
    BY DEF StaleOk
  <2>1. x \in Waiting(c) /\ x # l
    BY <1>4
  <2>2. x = b.reserved \/ CloseAhead(b, x.route) \/ CloseDue(c, x.route)
    BY <1>10, <2>1 DEF StaleOk
  <2>3. x = b.reserved => x = e.reserved
    BY <1>2, <2>1
  <2>4. CloseAhead(b, x.route) => CloseAhead(e, x.route)
    BY <1>2, <1>10, <2>1 DEF CloseAhead
  <2> QED
    BY <1>10, <2>2, <2>3, <2>4
<1> QED
  BY <1>1, <1>2, <1>7, <1>8, <1>9, <1>10

-----------------------------------------------------------------------------
(* The core's queues and timers, one operation at a time. *)

TimersOk(n, c) == c.partial \in Timers(n) /\ c.owner \in Timers(n)
SameQueues(c, d) ==
  /\ CoreRecord(d)
  /\ d.lifecycle = c.lifecycle /\ d.ingress = c.ingress /\ d.replies = c.replies
  /\ d.active = c.active /\ d.closed = c.closed /\ d.lease = c.lease /\ d.action = c.action
  /\ d.seq = c.seq
PartialSet(c, t) == [c EXCEPT !.partial = t]
OwnerSet(c, t) == [c EXCEPT !.owner = t]

LEMMA TimersAreTyped ==
  ASSUME NEW n \in Nat
  PROVE  /\ NoTimer \in Timers(n) /\ NoTimer.route = NoRoute
         /\ \A r \in Lifes(n) : Fresh(r) \in Timers(n)
         /\ \A t \in Timers(n) : /\ t.route \in Routes(n)
                                 /\ t.old \/ t.route # NoRoute =>
                                      t.route \in Lifes(n) /\ [t EXCEPT !.old = TRUE] \in Timers(n)
         /\ \A t \in Timers(n) : \A r : Cleared(t, r) \in Timers(n)
<1>1. NoRoute \in Routes(n)
  BY RoutesAndLeases
<1>2. NoTimer \in Timers(n) /\ NoTimer.route = NoRoute
  BY <1>1 DEF NoTimer, Timers
<1>3. \A r \in Lifes(n) : Fresh(r) \in Timers(n)
  BY DEF Fresh, Timers
<1>4. ASSUME NEW t \in Timers(n)
      PROVE  /\ t.route \in Routes(n)
             /\ t.old \/ t.route # NoRoute => t.route \in Lifes(n) /\ [t EXCEPT !.old = TRUE] \in Timers(n)
  <2>1. CASE t = NoTimer
    BY <1>1, <1>2, <2>1 DEF NoTimer
  <2>2. CASE t \in [route : Lifes(n), old : BOOLEAN]
    <3>1. [t EXCEPT !.old = TRUE] \in Timers(n) /\ t.route \in Lifes(n)
      BY <2>2 DEF Timers
    <3> QED
      BY <3>1, RoutesAndLeases
  <2> QED
    BY <2>1, <2>2 DEF Timers
<1>5. \A t \in Timers(n) : \A r : Cleared(t, r) \in Timers(n)
  BY <1>2 DEF Cleared
<1> QED
  BY <1>2, <1>3, <1>4, <1>5

LEMMA SetTimers ==
  ASSUME NEW n \in Nat, NEW c, CoreRecord(c), TimersOk(n, c), NEW t \in Timers(n)
  PROVE  /\ SameQueues(c, PartialSet(c, t)) /\ TimersOk(n, PartialSet(c, t))
         /\ PartialSet(c, t).owner = c.owner
         /\ SameQueues(c, OwnerSet(c, t)) /\ TimersOk(n, OwnerSet(c, t))
         /\ OwnerSet(c, t).partial = c.partial
         /\ SameQueues(c, c)
<1>1. SameQueues(c, PartialSet(c, t)) /\ TimersOk(n, PartialSet(c, t)) /\ PartialSet(c, t).owner = c.owner
  BY DEF CoreRecord, TimersOk, PartialSet, SameQueues
<1>2. SameQueues(c, OwnerSet(c, t)) /\ TimersOk(n, OwnerSet(c, t)) /\ OwnerSet(c, t).partial = c.partial
  BY DEF CoreRecord, TimersOk, OwnerSet, SameQueues
<1>3. SameQueues(c, c)
  BY DEF SameQueues
<1> QED
  BY <1>1, <1>2, <1>3

LEMMA QueuesCompose ==
  ASSUME NEW c, NEW d, NEW e, SameQueues(c, d), SameQueues(d, e)
  PROVE  SameQueues(c, e)
BY DEF SameQueues

\* What the core does to its timers leaves its queues alone.
LEMMA TimerSteps ==
  ASSUME NEW n \in Nat, NEW c, CoreRecord(c), TimersOk(n, c), NEW r \in Lifes(n), NEW s, NEW x
  PROVE  /\ SameQueues(c, OwnerChecked(c, s)) /\ TimersOk(n, OwnerChecked(c, s))
         /\ SameQueues(c, OwnerOfBound(c, s)) /\ TimersOk(n, OwnerOfBound(c, s))
         /\ SameQueues(c, OwnerRefreshed(c, s, r, x)) /\ TimersOk(n, OwnerRefreshed(c, s, r, x))
         /\ SameQueues(c, PartialUpdated(c, s, r, x)) /\ TimersOk(n, PartialUpdated(c, s, r, x))
         /\ SameQueues(c, AfterFrame(c)) /\ TimersOk(n, AfterFrame(c))
<1>1. NoTimer \in Timers(n) /\ Fresh(r) \in Timers(n)
  BY TimersAreTyped
<1> DEFINE good(d) == SameQueues(c, d) /\ TimersOk(n, d)
<1>2. /\ good(c) /\ good(PartialSet(c, NoTimer)) /\ good(PartialSet(c, Fresh(r)))
      /\ good(OwnerSet(c, NoTimer)) /\ good(OwnerSet(c, Fresh(r)))
  BY <1>1, SetTimers
<1> HIDE DEF good
<1>3. OwnerChecked(c, s) \in {c, OwnerSet(c, NoTimer)}
  BY DEF OwnerChecked, OwnerSet
<1>4. OwnerOfBound(c, s) \in {c, OwnerSet(c, NoTimer)}
  BY DEF OwnerOfBound, OwnerSet
<1>5. OwnerRefreshed(c, s, r, x) \in {c, OwnerSet(c, Fresh(r))}
  BY DEF OwnerRefreshed, OwnerSet
<1>6. PartialUpdated(c, s, r, x) \in {c, PartialSet(c, NoTimer), PartialSet(c, Fresh(r))}
  BY DEF PartialUpdated, PartialSet
<1>7. AfterFrame(c) \in {c, PartialSet(c, NoTimer)}
  BY DEF AfterFrame, PartialSet
<1>8. /\ good(OwnerChecked(c, s)) /\ good(OwnerOfBound(c, s)) /\ good(OwnerRefreshed(c, s, r, x))
      /\ good(PartialUpdated(c, s, r, x)) /\ good(AfterFrame(c))
  BY <1>2, <1>3, <1>4, <1>5, <1>6, <1>7
<1> QED
  BY <1>8 DEF good

LEMMA QueuesKeepTypes ==
  ASSUME NEW n \in Nat, NEW k \in Nat, NEW c, CoreTypes(n, k, c), NEW d, SameQueues(c, d), TimersOk(n, d)
  PROVE  CoreTypes(n, k, d)
BY DEF CoreTypes, SameQueues, TimersOk

\* What is left of a queue.
DifferentSeqs(s) == \A i, j \in DOMAIN s : s[i].seq = s[j].seq => i = j
LeftOf(s, I, e) ==
  /\ Len(e) \in Nat /\ Len(e) <= Len(s)
  /\ \A i \in DOMAIN e : \E j \in I : e[i] = s[j]
  /\ \A j \in I : \E i \in DOMAIN e : e[i] = s[j]
  /\ Different(s) => Different(e)
  /\ DifferentSeqs(s) => DifferentSeqs(e)

LEMMA KeptPart ==
  ASSUME NEW S, NEW s \in Seq(S), NEW I \in SUBSET (DOMAIN s)
  PROVE  Kept(s, I) \in Seq(S) /\ LeftOf(s, I, Kept(s, I))
<1> DEFINE e == Kept(s, I)
<1>1. /\ e \in Seq(S)
      /\ DOMAIN e = 1..Cardinality(I) /\ Len(e) = Cardinality(I)
      /\ Cardinality(I) \in Nat /\ Cardinality(I) <= Len(s)
      /\ \A m \in 1..Cardinality(I) : Nth(I, m) \in I /\ e[m] = s[Nth(I, m)]
      /\ \A i \in I : \E m \in 1..Cardinality(I) : Nth(I, m) = i /\ e[m] = s[i]
      /\ \A m, j \in 1..Cardinality(I) : Nth(I, m) = Nth(I, j) => m = j
  BY PurgeKeeps
<1> HIDE DEF e
<1>2. Len(e) \in Nat /\ Len(e) <= Len(s)
  BY <1>1
<1>3. \A i \in DOMAIN e : \E j \in I : e[i] = s[j]
  BY <1>1
<1>4. \A j \in I : \E i \in DOMAIN e : e[i] = s[j]
  BY <1>1
<1>5. Different(s) => Different(e)
  BY <1>1 DEF Different
<1>6. DifferentSeqs(s) => DifferentSeqs(e)
  BY <1>1 DEF DifferentSeqs
<1>7. e \in Seq(S) /\ LeftOf(s, I, e)
  BY <1>1, <1>2, <1>3, <1>4, <1>5, <1>6 DEF LeftOf
<1> QED
  BY <1>7 DEF e

-----------------------------------------------------------------------------
(* How the core's operations move requests. *)

LeasesIn(s) == {s[i].lease : i \in DOMAIN s}
\* What stays when requests move: everything but ingress, replies, the action and its lease.
SameRoutes(c, d) == d.lifecycle = c.lifecycle /\ d.active = c.active /\ d.closed = c.closed

LEMMA CoreFields ==
  ASSUME NEW n \in Nat, NEW k \in Nat, NEW c, CoreTypes(n, k, c)
  PROVE  /\ CoreRecord(c) /\ TimersOk(n, c)
         /\ c.ingress \in Seq(Entries(n, k)) /\ Len(c.ingress) \in Nat
         /\ c.replies \in Seq(Answers(n, k)) /\ Len(c.replies) \in Nat
         /\ \A l \in Waiting(c) \cup Answering(c) : l \in Leases(n, k) /\ l.id \in Nat /\ l.route \in Routes(n)
<1>1. /\ CoreRecord(c) /\ TimersOk(n, c)
      /\ c.ingress \in Seq(Entries(n, k)) /\ Len(c.ingress) \in Nat
      /\ c.replies \in Seq(Answers(n, k)) /\ Len(c.replies) \in Nat
      /\ c.lease \in Leases(n, k)
  BY DEF CoreTypes, TimersOk
<1>2. \A i \in DOMAIN c.ingress : c.ingress[i].lease \in Leases(n, k)
  <2>1. \A i \in DOMAIN c.ingress : c.ingress[i] \in Entries(n, k)
    BY <1>1
  <2> QED
    BY <2>1 DEF Entries
<1>3. \A i \in DOMAIN c.replies : c.replies[i].lease \in Leases(n, k)
  <2>1. \A i \in DOMAIN c.replies : c.replies[i] \in Answers(n, k)
    BY <1>1
  <2> QED
    BY <2>1 DEF Answers
<1>4. \A l \in Waiting(c) \cup Answering(c) : l \in Leases(n, k)
  BY <1>1, <1>2, <1>3 DEF Waiting, Answering
<1>5. \A l \in Leases(n, k) : l.id \in Nat /\ l.route \in Routes(n)
  BY DEF Leases
<1> QED
  BY <1>1, <1>4, <1>5

LEMMA MovesNothing ==
  ASSUME NEW n \in Nat, NEW k \in Nat, NEW c, CoreTypes(n, k, c), NEW b, NEW q, LeasesOk(b, c, q),
         NEW d, d.ingress = c.ingress, d.replies = c.replies, d.lease = c.lease, d.closed = c.closed,
         b.next \in Nat
  PROVE  CoreMove(c, d, NoLease)
<1>1. Waiting(d) = Waiting(c) /\ Answering(d) = Answering(c)
  BY DEF Waiting, Answering
<1>2. NoLease \notin Waiting(c)
  BY RecordFields DEF LeasesOk
<1>3. Different(d.ingress) /\ Len(d.ingress) <= Len(c.ingress)
  BY CoreFields DEF LeasesOk
<1> QED
  BY <1>1, <1>2, <1>3 DEF CoreMove

LEMMA SeqsStay ==
  ASSUME NEW c, NEW q, SeqsOk(c, q), NEW d, d.replies = c.replies, d.seq = c.seq
  PROVE  SeqsOk(d, q)
BY DEF SeqsOk

LEMMA NoAnswerSeqs ==
  ASSUME NEW c, NEW q, SeqsOk(c, q)
  PROVE  SeqsOk(c, NoAnswer)
<1>1. NoAnswer.seq = 0
  BY NoAnswerOk
<1> QED
  BY <1>1 DEF SeqsOk

\* A reply is appended.
AnswerTo(c, lease, req, reply) == [seq |-> c.seq, lease |-> lease, req |-> req, reply |-> reply]
Appended(c, d, l) ==
  /\ Len(d.replies) = Len(c.replies) + 1
  /\ LeasesIn(d.replies) = LeasesIn(c.replies) \cup {l}

LEMMA AnsweredFields ==
  ASSUME NEW c, CoreRecord(c), NEW l, NEW req, NEW reply
  PROVE  /\ CoreRecord(Answered(c, l, req, reply))
         /\ SameRoutes(c, Answered(c, l, req, reply))
         /\ Answered(c, l, req, reply).ingress = c.ingress
         /\ Answered(c, l, req, reply).lease = c.lease /\ Answered(c, l, req, reply).action = c.action
         /\ Answered(c, l, req, reply).partial = c.partial /\ Answered(c, l, req, reply).owner = c.owner
         /\ Answered(c, l, req, reply).seq = c.seq + 1
         /\ Answered(c, l, req, reply).replies = Put(c.replies, AnswerTo(c, l, req, reply))
<1> DEFINE s == Put(c.replies, AnswerTo(c, l, req, reply))
           x == c.seq + 1
           d == Answered(c, l, req, reply)
<1>1. d = [c EXCEPT !.replies = s, !.seq = x]
  BY DEF Answered, Put, AnswerTo
<1> HIDE DEF s, x, d
<1>2. /\ CoreRecord(d) /\ SameRoutes(c, d) /\ d.ingress = c.ingress /\ d.lease = c.lease
      /\ d.action = c.action /\ d.partial = c.partial /\ d.owner = c.owner
      /\ d.seq = x /\ d.replies = s
  BY <1>1 DEF CoreRecord, SameRoutes
<1> QED
  BY <1>2 DEF s, x, d

LEMMA AnsweredOk ==
  ASSUME NEW n \in Nat, NEW k \in Nat, NEW c, CoreTypes(n, k, c), ~RepliesFull(c),
         NEW l \in Leases(n, k), NEW req \in Requests, NEW reply \in Texts,
         NEW d, d = Answered(c, l, req, reply)
  PROVE  /\ CoreTypes(n, k, d) /\ Appended(c, d, l)
         /\ \A q : SeqsOk(c, q) => SeqsOk(d, q)
<1> DEFINE a == AnswerTo(c, l, req, reply)
<1>1. /\ CoreRecord(d) /\ SameRoutes(c, d) /\ d.ingress = c.ingress /\ d.lease = c.lease
      /\ d.action = c.action /\ d.partial = c.partial /\ d.owner = c.owner
      /\ d.seq = c.seq + 1 /\ d.replies = Put(c.replies, a)
  BY AnsweredFields DEF CoreTypes
<1>2. c.seq \in Nat /\ c.replies \in Seq(Answers(n, k)) /\ Len(c.replies) < ReplySlots
      /\ ReplySlots \in Nat
  BY CoreHasRoom DEF CoreTypes, RepliesFull
<1>3. a \in Answers(n, k) /\ a.seq = c.seq /\ a.lease = l
  BY <1>2 DEF Answers, AnswerTo
<1> HIDE DEF a
<1>4. /\ d.replies \in Seq(Answers(n, k)) /\ Len(d.replies) = Len(c.replies) + 1
      /\ Len(c.replies) \in Nat
      /\ DOMAIN c.replies = 1..Len(c.replies) /\ DOMAIN d.replies = 1..(Len(c.replies) + 1)
      /\ \A i \in DOMAIN c.replies : d.replies[i] = c.replies[i]
      /\ d.replies[Len(c.replies) + 1] = a
  BY <1>1, <1>2, <1>3 DEF Put
<1>5. Len(d.replies) <= ReplySlots
  BY <1>2, <1>4
<1>6. CoreTypes(n, k, d)
  BY <1>1, <1>2, <1>4, <1>5 DEF CoreTypes, SameRoutes
<1>7. LeasesIn(d.replies) = LeasesIn(c.replies) \cup {l}
  <2>1. ASSUME NEW i \in DOMAIN d.replies PROVE d.replies[i].lease \in LeasesIn(c.replies) \cup {l}
    BY <1>3, <1>4 DEF LeasesIn
  <2>2. ASSUME NEW i \in DOMAIN c.replies PROVE c.replies[i].lease \in LeasesIn(d.replies)
    BY <1>4 DEF LeasesIn
  <2>3. l \in LeasesIn(d.replies)
    BY <1>3, <1>4 DEF LeasesIn
  <2> QED
    BY <2>1, <2>2, <2>3 DEF LeasesIn
<1>8. ASSUME NEW q, SeqsOk(c, q) PROVE SeqsOk(d, q)
  <2>1. /\ q.seq \in 0..(c.seq - 1)
        /\ \A i \in DOMAIN c.replies :
             /\ c.replies[i].seq \in 1..(c.seq - 1)
             /\ c.replies[i].seq = q.seq => c.replies[i] = q
        /\ \A i, j \in DOMAIN c.replies : c.replies[i].seq = c.replies[j].seq => i = j
    BY <1>8 DEF SeqsOk
  <2>2. q.seq \in 0..(d.seq - 1) /\ d.seq \in Nat
    BY <1>1, <1>2, <2>1
  <2>3. ASSUME NEW i \in DOMAIN d.replies
        PROVE  /\ d.replies[i].seq \in 1..(d.seq - 1)
               /\ d.replies[i].seq = q.seq => d.replies[i] = q
    <3>1. CASE i \in DOMAIN c.replies
      <4>1. c.replies[i].seq \in 1..(c.seq - 1) /\ (c.replies[i].seq = q.seq => c.replies[i] = q)
        BY <2>1, <3>1
      <4>2. d.replies[i] = c.replies[i]
        BY <1>4, <3>1
      <4> QED
        BY <1>1, <1>2, <4>1, <4>2
    <3>2. CASE i = Len(c.replies) + 1
      <4>1. d.replies[i].seq = c.seq
        BY <1>3, <1>4, <3>2
      <4> QED
        BY <1>1, <1>2, <2>1, <2>2, <4>1
    <3> QED
      BY <1>4, <3>1, <3>2
  <2>4. ASSUME NEW i \in DOMAIN d.replies, NEW j \in DOMAIN d.replies, d.replies[i].seq = d.replies[j].seq
        PROVE  i = j
    <3>1. \A m \in DOMAIN d.replies :
            \/ m \in DOMAIN c.replies /\ d.replies[m].seq = c.replies[m].seq /\ d.replies[m].seq # c.seq
            \/ m = Len(c.replies) + 1 /\ d.replies[m].seq = c.seq
      <4> SUFFICES ASSUME NEW m \in DOMAIN d.replies, m # Len(c.replies) + 1
                   PROVE  m \in DOMAIN c.replies /\ d.replies[m].seq = c.replies[m].seq /\ d.replies[m].seq # c.seq
        BY <1>3, <1>4
      <4>1. m \in DOMAIN c.replies /\ d.replies[m].seq = c.replies[m].seq
        BY <1>4
      <4>2. c.replies[m].seq \in 1..(c.seq - 1)
        BY <2>1, <4>1
      <4> QED
        BY <1>2, <4>1, <4>2
    <3> QED
      BY <2>1, <2>4, <3>1
  <2> QED
    BY <2>2, <2>3, <2>4 DEF SeqsOk
<1> QED
  BY <1>4, <1>6, <1>7, <1>8 DEF Appended

\* A reply is taken out again.
OtherSeqs(c, seq) == {i \in DOMAIN c.replies : c.replies[i].seq # seq}

LEMMA RemovedFields ==
  ASSUME NEW c, CoreRecord(c), NEW seq
  PROVE  /\ SameRoutes(c, Removed(c, seq)) /\ CoreRecord(Removed(c, seq))
         /\ Removed(c, seq).ingress = c.ingress /\ Removed(c, seq).lease = c.lease
         /\ Removed(c, seq).action = c.action /\ Removed(c, seq).partial = c.partial
         /\ Removed(c, seq).owner = c.owner /\ Removed(c, seq).seq = c.seq
         /\ Removed(c, seq).replies = Kept(c.replies, OtherSeqs(c, seq))
<1> DEFINE s == Kept(c.replies, OtherSeqs(c, seq))
           d == Removed(c, seq)
<1>1. d = [c EXCEPT !.replies = s]
  BY DEF Removed, OtherSeqs
<1> HIDE DEF s, d
<1>2. /\ SameRoutes(c, d) /\ CoreRecord(d) /\ d.ingress = c.ingress /\ d.lease = c.lease
      /\ d.action = c.action /\ d.partial = c.partial /\ d.owner = c.owner /\ d.seq = c.seq
      /\ d.replies = s
  BY <1>1 DEF CoreRecord, SameRoutes
<1> QED
  BY <1>2 DEF s, d

LEMMA SeqsLeft ==
  ASSUME NEW n \in Nat, NEW k \in Nat, NEW c, CoreTypes(n, k, c), NEW d, NEW I \in SUBSET (DOMAIN c.replies),
         d.replies = Kept(c.replies, I), d.seq = c.seq, NEW q, SeqsOk(c, q)
  PROVE  SeqsOk(d, q)
<1>1. LeftOf(c.replies, I, d.replies)
  BY CoreFields, KeptPart
<1>2. /\ \A i \in DOMAIN d.replies : \E j \in I : d.replies[i] = c.replies[j]
      /\ DifferentSeqs(c.replies) => DifferentSeqs(d.replies)
  BY <1>1 DEF LeftOf
<1>3. DifferentSeqs(c.replies)
  BY DEF SeqsOk, DifferentSeqs
<1>4. \A i \in DOMAIN d.replies :
        /\ d.replies[i].seq \in 1..(c.seq - 1)
        /\ d.replies[i].seq = q.seq => d.replies[i] = q
  BY <1>2 DEF SeqsOk
<1>5. \A i, j \in DOMAIN d.replies : d.replies[i].seq = d.replies[j].seq => i = j
  BY <1>2, <1>3 DEF DifferentSeqs
<1>6. c.seq \in Nat /\ q.seq \in 0..(c.seq - 1)
  BY DEF SeqsOk
<1> QED
  BY <1>4, <1>5, <1>6 DEF SeqsOk

LEMMA RemovedOk ==
  ASSUME NEW n \in Nat, NEW k \in Nat, NEW c, CoreTypes(n, k, c), NEW b, NEW q, LeasesOk(b, c, q),
         SeqsOk(c, q), NEW a, \A i \in DOMAIN c.replies : c.replies[i].seq = a.seq => c.replies[i] = a,
         a.lease \in Answering(c) \cup {q.lease}, NEW d, d = Removed(c, a.seq)
  PROVE  CoreTypes(n, k, d) /\ CoreMove(c, d, a.lease) /\ SeqsOk(d, q) /\ SameRoutes(c, d)
         /\ d.ingress = c.ingress /\ d.action = c.action /\ d.lease = c.lease
<1> DEFINE I == OtherSeqs(c, a.seq)
<1>1. /\ SameRoutes(c, d) /\ CoreRecord(d) /\ d.ingress = c.ingress /\ d.lease = c.lease
      /\ d.action = c.action /\ d.partial = c.partial /\ d.owner = c.owner /\ d.seq = c.seq
      /\ d.replies = Kept(c.replies, I)
  BY CoreFields, RemovedFields
<1>2. I \in SUBSET (DOMAIN c.replies) /\ \A i \in DOMAIN c.replies : i \in I \/ c.replies[i] = a
  BY DEF OtherSeqs
<1> HIDE DEF I
<1>3. d.replies \in Seq(Answers(n, k)) /\ LeftOf(c.replies, I, d.replies) /\ SeqsOk(d, q)
  <2>1. c.replies \in Seq(Answers(n, k))
    BY CoreFields
  <2>2. Kept(c.replies, I) \in Seq(Answers(n, k)) /\ LeftOf(c.replies, I, Kept(c.replies, I))
    BY <1>2, <2>1, KeptPart
  <2>3. SeqsOk(d, q)
    BY <1>1, <1>2, SeqsLeft
  <2> QED
    BY <1>1, <2>2, <2>3
<1>4. /\ Len(d.replies) \in Nat /\ Len(d.replies) <= Len(c.replies)
      /\ \A i \in DOMAIN d.replies : \E j \in I : d.replies[i] = c.replies[j]
      /\ \A j \in I : \E i \in DOMAIN d.replies : d.replies[i] = c.replies[j]
  BY <1>3 DEF LeftOf
<1>5. Len(d.replies) <= ReplySlots
  BY <1>4, CoreHasRoom DEF CoreTypes
<1>6. CoreTypes(n, k, d)
  BY <1>1, <1>3, <1>5 DEF CoreTypes, SameRoutes
<1>7. Waiting(d) = Waiting(c) /\ Different(d.ingress) /\ Len(d.ingress) <= Len(c.ingress)
  BY <1>1, CoreFields DEF Waiting, LeasesOk
<1>8. Answering(d) \subseteq Answering(c)
  BY <1>1, <1>2, <1>4 DEF Answering
<1>9. Answering(c) \subseteq Answering(d) \cup {a.lease}
  <2>1. ASSUME NEW i \in DOMAIN c.replies PROVE c.replies[i].lease \in Answering(d) \cup {a.lease}
    <3>1. CASE i \in I
      BY <1>4, <3>1 DEF Answering
    <3>2. CASE c.replies[i] = a
      BY <3>2
    <3> QED
      BY <1>2, <3>1, <3>2
  <2> QED
    BY <1>1, <2>1 DEF Answering
<1>10. a.lease \notin Waiting(d)
  BY <1>7 DEF LeasesOk
<1>11. c.closed \subseteq d.closed
  BY <1>1 DEF SameRoutes
<1>12. CoreMove(c, d, a.lease)
  BY <1>7, <1>8, <1>9, <1>10, <1>11 DEF CoreMove
<1> QED
  BY <1>1, <1>3, <1>6, <1>12

\* One request is taken out of ingress.
Rest(s) == Tail(s)
LEMMA TakenIngress ==
  ASSUME NEW n \in Nat, NEW k \in Nat, NEW c, CoreTypes(n, k, c), c.ingress # <<>>,
         Different(c.ingress), NEW d, d.ingress = Rest(c.ingress), NEW l, l = Head(c.ingress).lease
  PROVE  /\ Head(c.ingress) \in Entries(n, k) /\ l \in Leases(n, k)
         /\ l \in Waiting(c) /\ Waiting(d) = Waiting(c) \ {l}
         /\ Different(d.ingress) /\ d.ingress \in Seq(Entries(n, k))
         /\ Len(d.ingress) \in Nat /\ Len(d.ingress) <= Len(c.ingress)
<1>1. c.ingress \in Seq(Entries(n, k))
  BY CoreFields
<1>2. /\ d.ingress \in Seq(Entries(n, k)) /\ Len(c.ingress) \in Nat \ {0} /\ Len(d.ingress) = Len(c.ingress) - 1
      /\ DOMAIN c.ingress = 1..Len(c.ingress) /\ DOMAIN d.ingress = 1..(Len(c.ingress) - 1)
      /\ Head(c.ingress) = c.ingress[1] /\ c.ingress[1] \in Entries(n, k)
      /\ \A i \in DOMAIN d.ingress : i + 1 \in DOMAIN c.ingress /\ d.ingress[i] = c.ingress[i + 1]
      /\ \A i \in DOMAIN c.ingress : i # 1 => i - 1 \in DOMAIN d.ingress /\ d.ingress[i - 1] = c.ingress[i]
  BY <1>1, TailOf DEF Rest
<1>3. l \in Leases(n, k) /\ l \in Waiting(c)
  <2>1. l \in Leases(n, k)
    BY <1>2 DEF Entries
  <2>2. 1 \in DOMAIN c.ingress /\ l = c.ingress[1].lease
    BY <1>2
  <2> QED
    BY <2>1, <2>2 DEF Waiting
<1>4. Waiting(d) \subseteq Waiting(c) \ {l}
  <2> SUFFICES ASSUME NEW i \in DOMAIN d.ingress
               PROVE  d.ingress[i].lease \in Waiting(c) /\ d.ingress[i].lease # l
    BY DEF Waiting
  <2>1. i \in Nat /\ i # 0 /\ i + 1 \in DOMAIN c.ingress /\ d.ingress[i] = c.ingress[i + 1] /\ 1 \in DOMAIN c.ingress
    BY <1>2
  <2> DEFINE j == i + 1
  <2>2. j # 1 /\ j \in DOMAIN c.ingress /\ d.ingress[i] = c.ingress[j]
    BY <2>1
  <2> HIDE DEF j
  <2>3. c.ingress[j].lease # l
    BY <1>2, <2>1, <2>2 DEF Different
  <2> QED
    BY <2>2, <2>3 DEF Waiting
<1>5. Waiting(c) \ {l} \subseteq Waiting(d)
  <2> SUFFICES ASSUME NEW i \in DOMAIN c.ingress, c.ingress[i].lease # l
               PROVE  c.ingress[i].lease \in Waiting(d)
    BY DEF Waiting
  <2> QED
    BY <1>2 DEF Waiting
<1>6. Different(d.ingress)
  <2> SUFFICES ASSUME NEW i \in DOMAIN d.ingress, NEW j \in DOMAIN d.ingress,
                      d.ingress[i].lease = d.ingress[j].lease
               PROVE  i = j
    BY DEF Different
  <2>1. i + 1 = j + 1
    <3>1. /\ i + 1 \in DOMAIN c.ingress /\ d.ingress[i] = c.ingress[i + 1]
          /\ j + 1 \in DOMAIN c.ingress /\ d.ingress[j] = c.ingress[j + 1]
      BY <1>2
    <3>2. c.ingress[i + 1].lease = c.ingress[j + 1].lease
      BY <3>1
    <3> QED
      BY <3>1, <3>2 DEF Different
  <2> QED
    BY <1>2, <2>1
<1>7. Len(d.ingress) \in Nat /\ Len(d.ingress) <= Len(c.ingress)
  BY <1>2
<1> QED
  BY <1>2, <1>3, <1>4, <1>5, <1>6, <1>7

LEMMA ConsumedMove ==
  ASSUME NEW n \in Nat, NEW k \in Nat, NEW c, CoreTypes(n, k, c), NEW b, b.next \in Nat, NEW q,
         LeasesOk(b, c, q), c.ingress # <<>>, NEW d, d.ingress = Rest(c.ingress), d.closed = c.closed,
         NEW h, h = Head(c.ingress).lease, NEW l,
         \/ l = h /\ Answering(d) = Answering(c)
         \/ /\ l = NoLease /\ h \in Answering(d)
            /\ Answering(d) \subseteq Answering(c) \cup {h}
            /\ Answering(c) \subseteq Answering(d) \cup {NoLease}
  PROVE  CoreMove(c, d, l) /\ Len(d.ingress) \in Nat /\ d.ingress \in Seq(Entries(n, k))
         /\ Waiting(d) \subseteq Waiting(c)
<1>1. Different(c.ingress) /\ \A x \in Waiting(c) : x.id \in 1..(b.next - 1)
  BY DEF LeasesOk
<1>2. /\ h \in Waiting(c) /\ Waiting(d) = Waiting(c) \ {h}
      /\ Different(d.ingress) /\ d.ingress \in Seq(Entries(n, k))
      /\ Len(d.ingress) \in Nat /\ Len(d.ingress) <= Len(c.ingress)
  BY <1>1, TakenIngress
<1>3. NoLease.id = 0
  BY RecordFields
<1>4. l \notin Waiting(d)
  BY <1>1, <1>2, <1>3
<1>5. CoreMove(c, d, l)
  BY <1>2, <1>4 DEF CoreMove
<1> QED
  BY <1>2, <1>5

LEMMA CompletedMove ==
  ASSUME NEW n \in Nat, NEW k \in Nat, NEW c, CoreTypes(n, k, c), NEW b, b.next \in Nat, NEW q,
         LeasesOk(b, c, q), NEW d, d.ingress = c.ingress, d.closed = c.closed, d.lease = NoLease, NEW l,
         \/ l = c.lease /\ d.replies = c.replies
         \/ l = NoLease /\ LeasesIn(d.replies) = LeasesIn(c.replies) \cup {c.lease}
  PROVE  CoreMove(c, d, l)
<1>1. /\ Different(c.ingress) /\ \A x \in Waiting(c) : x.id \in 1..(b.next - 1) /\ x \notin Answering(c)
      /\ Len(c.ingress) <= Len(c.ingress) /\ NoLease.id = 0
  <2>1. Len(c.ingress) <= Len(c.ingress)
    BY CoreFields
  <2>2. NoLease.id = 0
    BY RecordFields
  <2> QED
    BY <2>1, <2>2 DEF LeasesOk
<1>2. Waiting(d) = Waiting(c)
  BY DEF Waiting
<1>3. /\ Answering(c) = {c.lease} \cup LeasesIn(c.replies)
      /\ Answering(d) = {NoLease} \cup LeasesIn(d.replies)
  BY DEF Answering, LeasesIn
<1>4. l \notin Waiting(d)
  BY <1>1, <1>2, <1>3
<1>5. /\ Answering(d) \subseteq Answering(c) \cup {NoLease}
      /\ Answering(c) \subseteq Answering(d) \cup {l}
  <2>1. CASE l = c.lease /\ d.replies = c.replies
    BY <1>3, <2>1
  <2>2. CASE l = NoLease /\ LeasesIn(d.replies) = LeasesIn(c.replies) \cup {c.lease}
    BY <1>3, <2>2
  <2> QED
    BY <2>1, <2>2
<1> QED
  BY <1>1, <1>2, <1>4, <1>5 DEF CoreMove

\* A route is closed for good.
OnRoutes(s, r) == {i \in DOMAIN s : s[i].lease.route # r}

LEMMA RouteGoneFields ==
  ASSUME NEW c, CoreRecord(c), NEW r
  PROVE  /\ CoreRecord(RouteGone(c, r))
         /\ RouteGone(c, r).lifecycle = c.lifecycle /\ RouteGone(c, r).lease = c.lease
         /\ RouteGone(c, r).action = c.action /\ RouteGone(c, r).seq = c.seq
         /\ RouteGone(c, r).closed = c.closed \cup {r} /\ RouteGone(c, r).active = c.active \ {r}
         /\ RouteGone(c, r).owner = Cleared(c.owner, r) /\ RouteGone(c, r).partial = Cleared(c.partial, r)
         /\ RouteGone(c, r).ingress = Kept(c.ingress, OnRoutes(c.ingress, r))
         /\ RouteGone(c, r).replies = Kept(c.replies, OnRoutes(c.replies, r))
<1> DEFINE s == Kept(c.ingress, OnRoutes(c.ingress, r))
           t == Kept(c.replies, OnRoutes(c.replies, r))
           o == Cleared(c.owner, r)
           p == Cleared(c.partial, r)
           x == c.closed \cup {r}
           y == c.active \ {r}
           d == RouteGone(c, r)
<1>1. d = [c EXCEPT !.closed = x, !.active = y, !.owner = o, !.partial = p, !.ingress = s, !.replies = t]
  BY DEF RouteGone, OnRoutes
<1> HIDE DEF s, t, o, p, x, y, d
<1>2. /\ CoreRecord(d) /\ d.lifecycle = c.lifecycle /\ d.lease = c.lease /\ d.action = c.action
      /\ d.seq = c.seq /\ d.closed = x /\ d.active = y /\ d.owner = o /\ d.partial = p
      /\ d.ingress = s /\ d.replies = t
  BY <1>1 DEF CoreRecord
<1> QED
  BY <1>2 DEF s, t, o, p, x, y, d

LEMMA RouteGoneOk ==
  ASSUME NEW n \in Nat, NEW k \in Nat, NEW c, CoreTypes(n, k, c), NEW b, b.next \in Nat, NEW q,
         LeasesOk(b, c, q), SeqsOk(c, q), NEW r \in Routes(n), NEW d, d = RouteGone(c, r)
  PROVE  /\ CoreTypes(n, k, d) /\ CoreMove(c, d, NoLease) /\ SeqsOk(d, q)
         /\ d.lifecycle = c.lifecycle /\ d.action = c.action /\ d.lease = c.lease
         /\ \A l \in Waiting(d) : l \in Waiting(c) /\ l.route # r
<1> DEFINE I == OnRoutes(c.ingress, r)
           J == OnRoutes(c.replies, r)
<1>1. /\ CoreRecord(d) /\ d.lifecycle = c.lifecycle /\ d.lease = c.lease
      /\ d.action = c.action /\ d.seq = c.seq
      /\ d.closed = c.closed \cup {r} /\ d.active = c.active \ {r}
      /\ d.owner = Cleared(c.owner, r) /\ d.partial = Cleared(c.partial, r)
      /\ d.ingress = Kept(c.ingress, I) /\ d.replies = Kept(c.replies, J)
  BY CoreFields, RouteGoneFields
<1>2. /\ I \in SUBSET (DOMAIN c.ingress) /\ \A i \in DOMAIN c.ingress : i \in I <=> c.ingress[i].lease.route # r
      /\ J \in SUBSET (DOMAIN c.replies) /\ \A i \in DOMAIN c.replies : i \in J <=> c.replies[i].lease.route # r
  BY DEF OnRoutes
<1> HIDE DEF I, J
<1>3. c.ingress \in Seq(Entries(n, k)) /\ c.replies \in Seq(Answers(n, k)) /\ TimersOk(n, c)
      /\ Len(c.ingress) \in Nat /\ Len(c.replies) \in Nat
  BY CoreFields
<1>4. d.ingress \in Seq(Entries(n, k)) /\ LeftOf(c.ingress, I, d.ingress)
  <2>1. Kept(c.ingress, I) \in Seq(Entries(n, k)) /\ LeftOf(c.ingress, I, Kept(c.ingress, I))
    BY <1>2, <1>3, KeptPart
  <2> QED
    BY <1>1, <2>1
<1>5. d.replies \in Seq(Answers(n, k)) /\ LeftOf(c.replies, J, d.replies)
  <2>1. Kept(c.replies, J) \in Seq(Answers(n, k)) /\ LeftOf(c.replies, J, Kept(c.replies, J))
    BY <1>2, <1>3, KeptPart
  <2> QED
    BY <1>1, <2>1
<1>6. SeqsOk(d, q)
  BY <1>1, <1>2, SeqsLeft
<1>7. /\ Len(d.ingress) \in Nat /\ Len(d.ingress) <= Len(c.ingress)
      /\ \A i \in DOMAIN d.ingress : \E j \in I : d.ingress[i] = c.ingress[j]
      /\ \A j \in I : \E i \in DOMAIN d.ingress : d.ingress[i] = c.ingress[j]
      /\ Different(c.ingress) => Different(d.ingress)
  BY <1>4 DEF LeftOf
<1>8. /\ Len(d.replies) \in Nat /\ Len(d.replies) <= Len(c.replies)
      /\ \A i \in DOMAIN d.replies : \E j \in J : d.replies[i] = c.replies[j]
      /\ \A j \in J : \E i \in DOMAIN d.replies : d.replies[i] = c.replies[j]
  BY <1>5 DEF LeftOf
<1>9. d.owner \in Timers(n) /\ d.partial \in Timers(n)
  BY <1>1, <1>3, TimersAreTyped DEF TimersOk
<1>10. d.active \in SUBSET Lifes(n) /\ IsFiniteSet(d.active) /\ Cardinality(d.active) <= ActiveRoutes
  <2>1. d.active \in SUBSET c.active
    BY <1>1
  <2>2. IsFiniteSet(c.active) /\ Cardinality(c.active) <= ActiveRoutes /\ c.active \in SUBSET Lifes(n)
    BY DEF CoreTypes
  <2>3. IsFiniteSet(d.active) /\ Cardinality(d.active) <= Cardinality(c.active)
    BY <2>1, <2>2, FS_Subset
  <2>4. Cardinality(d.active) \in Nat /\ Cardinality(c.active) \in Nat /\ ActiveRoutes \in Nat
    BY <2>2, <2>3, FS_CardinalityType, CoreHasRoom
  <2> QED
    BY <2>1, <2>2, <2>3, <2>4
<1>11. CoreTypes(n, k, d)
  <2>1. /\ d.lifecycle \in Seq(Changes(n)) /\ Len(d.lifecycle) <= LifecycleSlots
        /\ d.closed \in SUBSET Routes(n)
        /\ d.lease \in Leases(n, k) /\ d.action \in Jobs(n) /\ d.seq \in Nat
    BY <1>1 DEF CoreTypes
  <2>2. Len(d.ingress) <= DataSlots /\ Len(d.replies) <= ReplySlots
    <3>1. Len(c.ingress) <= DataSlots /\ Len(c.replies) <= ReplySlots
      BY DEF CoreTypes
    <3> QED
      BY <1>3, <1>7, <1>8, <3>1, MailboxHasRoom, CoreHasRoom
  <2> QED
    BY <1>1, <1>4, <1>5, <1>9, <1>10, <2>1, <2>2 DEF CoreTypes
<1>12. \A l \in Waiting(d) : l \in Waiting(c) /\ l.route # r
  BY <1>2, <1>7 DEF Waiting
<1>13. Answering(d) \subseteq Answering(c)
  BY <1>1, <1>2, <1>8 DEF Answering
<1>14. \A x \in Waiting(c) \cup Answering(c) : x \in Waiting(d) \cup Answering(d) \/ x.route \in d.closed
  <2>1. ASSUME NEW i \in DOMAIN c.ingress
        PROVE  c.ingress[i].lease \in Waiting(d) \/ c.ingress[i].lease.route \in d.closed
    <3>1. CASE i \in I
      BY <1>7, <3>1 DEF Waiting
    <3>2. CASE c.ingress[i].lease.route = r
      BY <1>1, <3>2
    <3> QED
      BY <1>2, <3>1, <3>2
  <2>2. ASSUME NEW i \in DOMAIN c.replies
        PROVE  c.replies[i].lease \in Answering(d) \/ c.replies[i].lease.route \in d.closed
    <3>1. CASE i \in J
      BY <1>8, <3>1 DEF Answering
    <3>2. CASE c.replies[i].lease.route = r
      BY <1>1, <3>2
    <3> QED
      BY <1>2, <3>1, <3>2
  <2>3. c.lease \in Answering(d)
    BY <1>1 DEF Answering
  <2> QED
    BY <2>1, <2>2, <2>3 DEF Waiting, Answering
<1>15. Different(d.ingress) /\ NoLease \notin Waiting(d)
  <2>1. Different(c.ingress) /\ \A x \in Waiting(c) : x.id \in 1..(b.next - 1)
    BY DEF LeasesOk
  <2> QED
    BY <1>7, <1>12, <2>1, RecordFields
<1>16. CoreMove(c, d, NoLease)
  BY <1>1, <1>7, <1>12, <1>13, <1>14, <1>15 DEF CoreMove
<1> QED
  BY <1>1, <1>6, <1>11, <1>12, <1>16

\* A change of a route is noted.
CloseNoted(s, i) == [s EXCEPT ![i].kind = "Close"]

LEMMA NotedClose ==
  ASSUME NEW n \in Nat, NEW s \in Seq(Changes(n)), NEW i \in DOMAIN s
  PROVE  CloseNoted(s, i) \in Seq(Changes(n)) /\ Len(CloseNoted(s, i)) = Len(s)
<1> DEFINE x == [s[i] EXCEPT !.kind = "Close"]
           t == [s EXCEPT ![i] = x]
<1>1. CloseNoted(s, i) = t
  BY DEF CloseNoted
<1>2. s[i] \in Changes(n)
  OBVIOUS
<1>3. x \in Changes(n)
  BY <1>2 DEF Changes
<1> HIDE DEF x
<1>4. t \in Seq(Changes(n)) /\ Len(t) = Len(s)
  BY <1>3
<1> QED
  BY <1>1, <1>4

OnlyRoutesChange(c, d) ==
  /\ CoreRecord(d) /\ d.ingress = c.ingress /\ d.replies = c.replies /\ d.closed = c.closed
  /\ d.lease = c.lease /\ d.action = c.action /\ d.partial = c.partial /\ d.owner = c.owner
  /\ d.seq = c.seq
LifecycleSet(c, s) == [c EXCEPT !.lifecycle = s]
ActiveSet(c, s) == [c EXCEPT !.active = s]

LEMMA SetRoutes ==
  ASSUME NEW c, CoreRecord(c), NEW s
  PROVE  /\ OnlyRoutesChange(c, LifecycleSet(c, s)) /\ LifecycleSet(c, s).lifecycle = s
         /\ LifecycleSet(c, s).active = c.active
         /\ OnlyRoutesChange(c, ActiveSet(c, s)) /\ ActiveSet(c, s).active = s
         /\ ActiveSet(c, s).lifecycle = c.lifecycle
         /\ OnlyRoutesChange(c, c)
<1>1. OnlyRoutesChange(c, LifecycleSet(c, s)) /\ LifecycleSet(c, s).lifecycle = s
      /\ LifecycleSet(c, s).active = c.active
  BY DEF CoreRecord, OnlyRoutesChange, LifecycleSet
<1>2. OnlyRoutesChange(c, ActiveSet(c, s)) /\ ActiveSet(c, s).active = s
      /\ ActiveSet(c, s).lifecycle = c.lifecycle
  BY DEF CoreRecord, OnlyRoutesChange, ActiveSet
<1>3. OnlyRoutesChange(c, c)
  BY DEF OnlyRoutesChange
<1> QED
  BY <1>1, <1>2, <1>3

LEMMA LifecycleKeepsTypes ==
  ASSUME NEW n \in Nat, NEW k \in Nat, NEW c, CoreTypes(n, k, c), NEW s \in Seq(Changes(n)),
         Len(s) <= LifecycleSlots, NEW d, OnlyRoutesChange(c, d), d.lifecycle = s, d.active = c.active
  PROVE  CoreTypes(n, k, d)
BY DEF CoreTypes, OnlyRoutesChange

LEMMA EnqueuedOk ==
  ASSUME NEW n \in Nat, NEW k \in Nat, NEW c, CoreTypes(n, k, c), NEW kind \in {"Open", "Close"},
         NEW r \in Lifes(n), NEW d, d = Enqueued(c, kind, r)
  PROVE  /\ CoreTypes(n, k, d) /\ OnlyRoutesChange(c, d) /\ d.active = c.active
         /\ c.lifecycle = <<>> => Len(d.lifecycle) <= 1 /\ (kind = "Close" => CloseDue(d, r))
<1> DEFINE x == [kind |-> kind, route |-> r]
           i == CHOOSE j \in LifecycleAt(c, r) : TRUE
           t == Append(c.lifecycle, x)
           u == CloseNoted(c.lifecycle, i)
<1>1. x \in Changes(n) /\ CoreRecord(c) /\ c.lifecycle \in Seq(Changes(n)) /\ Len(c.lifecycle) <= LifecycleSlots
      /\ Len(c.lifecycle) \in Nat /\ LifecycleSlots \in Nat \ {0} /\ ActiveRoutes \in Nat
      /\ ActiveRoutes < LifecycleSlots
  BY CoreHasRoom DEF CoreTypes, Changes
<1>2. \/ d = c /\ (c.lifecycle = <<>> => kind # "Close")
      \/ LifecycleAt(c, r) # {} /\ d = LifecycleSet(c, u)
      \/ Len(c.lifecycle) < LifecycleSlots /\ d = LifecycleSet(c, t)
  <2>1. CASE LifecycleAt(c, r) # {} /\ kind = "Open"
    <3>1. d = c
      BY <2>1 DEF Enqueued
    <3> QED
      BY <2>1, <3>1
  <2>2. CASE LifecycleAt(c, r) # {} /\ kind # "Open"
    BY <2>2 DEF Enqueued, LifecycleSet, CloseNoted
  <2>3. CASE LifecycleAt(c, r) = {}
    <3> DEFINE free == LifecycleSlots - (IF kind = "Open" THEN ActiveRoutes ELSE 0)
    <3>1. free \in Int /\ free <= LifecycleSlots /\ (kind = "Close" => free = LifecycleSlots)
      BY <1>1
    <3>2. d = IF Len(c.lifecycle) >= free THEN c ELSE LifecycleSet(c, t)
      BY <2>3 DEF Enqueued, LifecycleSet
    <3> HIDE DEF free, t, x
    <3>3. CASE Len(c.lifecycle) >= free
      <4>1. c.lifecycle = <<>> => kind # "Close"
        BY <1>1, <3>1, <3>3
      <4> QED
        BY <3>2, <3>3, <4>1
    <3>4. CASE ~(Len(c.lifecycle) >= free)
      <4>1. Len(c.lifecycle) < LifecycleSlots
        BY <1>1, <3>1, <3>4
      <4> QED
        BY <3>2, <3>4, <4>1
    <3> QED
      BY <3>3, <3>4
  <2> QED
    BY <2>1, <2>2, <2>3
<1>3. CASE d = c /\ (c.lifecycle = <<>> => kind # "Close")
  <2>1. OnlyRoutesChange(c, d)
    BY <1>3 DEF OnlyRoutesChange, CoreTypes
  <2>2. c.lifecycle = <<>> => Len(c.lifecycle) = 0
    BY <1>1
  <2> QED
    BY <1>1, <1>3, <2>1, <2>2
<1>4. CASE LifecycleAt(c, r) # {} /\ d = LifecycleSet(c, u)
  <2>1. i \in DOMAIN c.lifecycle
    BY <1>4 DEF LifecycleAt
  <2> HIDE DEF i
  <2>2. u \in Seq(Changes(n)) /\ Len(u) = Len(c.lifecycle)
    BY <1>1, <2>1, NotedClose
  <2> HIDE DEF u
  <2>3. OnlyRoutesChange(c, d) /\ d.lifecycle = u /\ d.active = c.active
    BY <1>1, <1>4, SetRoutes
  <2>4. CoreTypes(n, k, d)
    BY <1>1, <2>2, <2>3, LifecycleKeepsTypes
  <2>5. c.lifecycle # <<>>
    BY <1>1, <2>1
  <2> QED
    BY <2>3, <2>4, <2>5
<1>5. CASE Len(c.lifecycle) < LifecycleSlots /\ d = LifecycleSet(c, t)
  <2>1. /\ t \in Seq(Changes(n)) /\ Len(t) = Len(c.lifecycle) + 1
        /\ t[Len(c.lifecycle) + 1] = x /\ Len(c.lifecycle) + 1 \in DOMAIN t
    BY <1>1
  <2> HIDE DEF t
  <2>2. OnlyRoutesChange(c, d) /\ d.lifecycle = t /\ d.active = c.active
    BY <1>1, <1>5, SetRoutes
  <2>3. CoreTypes(n, k, d)
    BY <1>1, <1>5, <2>1, <2>2, LifecycleKeepsTypes
  <2>4. kind = "Close" => CloseDue(d, r)
    BY <2>1, <2>2 DEF CloseDue
  <2>5. c.lifecycle = <<>> => Len(c.lifecycle) = 0
    BY <1>1
  <2>6. c.lifecycle = <<>> => Len(t) <= 1
    BY <2>1, <2>5
  <2> QED
    BY <2>2, <2>3, <2>4, <2>6
<1> QED
  BY <1>2, <1>3, <1>4, <1>5

LEMMA ActivatedOk ==
  ASSUME NEW n \in Nat, NEW k \in Nat, NEW c, CoreTypes(n, k, c), NEW r \in Lifes(n),
         NEW d, d = Activated(c, r)
  PROVE  CoreTypes(n, k, d) /\ OnlyRoutesChange(c, d) /\ d.lifecycle = c.lifecycle
<1>1. CoreRecord(c) /\ c.active \in SUBSET Lifes(n) /\ IsFiniteSet(c.active)
      /\ Cardinality(c.active) <= ActiveRoutes /\ Cardinality(c.active) \in Nat /\ ActiveRoutes \in Nat
  BY CoreHasRoom, FS_CardinalityType DEF CoreTypes
<1>2. CASE d = c
  BY <1>1, <1>2, SetRoutes
<1>3. CASE d = ActiveSet(c, c.active \cup {r}) /\ (r \in c.active \/ Cardinality(c.active) < ActiveRoutes)
  <2> DEFINE s == c.active \cup {r}
  <2>1. s \in SUBSET Lifes(n)
    BY <1>1
  <2>2. IsFiniteSet(s) /\ Cardinality(s) = IF r \in c.active THEN Cardinality(c.active) ELSE Cardinality(c.active) + 1
    BY <1>1, FS_AddElement
  <2>3. Cardinality(s) <= ActiveRoutes
    BY <1>1, <1>3, <2>2
  <2> HIDE DEF s
  <2>4. OnlyRoutesChange(c, d) /\ d.lifecycle = c.lifecycle /\ d.active = s
    <3>1. d = ActiveSet(c, s)
      BY <1>3 DEF s
    <3> QED
      BY <1>1, <3>1, SetRoutes
  <2>5. CoreTypes(n, k, d)
    BY <2>1, <2>2, <2>3, <2>4 DEF CoreTypes, OnlyRoutesChange
  <2> QED
    BY <2>4, <2>5
<1>4. d = c \/ (d = ActiveSet(c, c.active \cup {r}) /\ (r \in c.active \/ Cardinality(c.active) < ActiveRoutes))
  <2>1. CASE r \in c.closed \/ (r \notin c.active /\ Cardinality(c.active) >= ActiveRoutes)
    BY <2>1 DEF Activated
  <2>2. CASE ~(r \in c.closed \/ (r \notin c.active /\ Cardinality(c.active) >= ActiveRoutes))
    <3>1. d = ActiveSet(c, c.active \cup {r})
      BY <2>2 DEF Activated, ActiveSet
    <3>2. r \in c.active \/ Cardinality(c.active) < ActiveRoutes
      BY <1>1, <2>2
    <3> QED
      BY <3>1, <3>2
  <2> QED
    BY <2>1, <2>2
<1> QED
  BY <1>2, <1>3, <1>4

\* Everything is revoked.
ClosedByAll(c, s, o) ==
  (c.closed \cup {o, s.route, c.lease.route, c.partial.route} \cup c.active
   \cup {e.route : e \in Range(c.lifecycle)}
   \cup {e.lease.route : e \in Range(c.ingress) \cup Range(c.replies)}) \ {NoRoute}

LEMMA RevokedAllFields ==
  ASSUME NEW c, NEW s, NEW o, NEW d, d = RevokedAll(c, s, o)
  PROVE  /\ CoreRecord(d) /\ d.lifecycle = <<>> /\ d.ingress = <<>> /\ d.replies = <<>>
         /\ d.active = {} /\ d.closed = ClosedByAll(c, s, o) /\ d.lease = c.lease
         /\ d.action = c.action /\ d.partial = NoTimer /\ d.owner = NoTimer /\ d.seq = c.seq
<1> DEFINE x == ClosedByAll(c, s, o)
           l == c.lease
           a == c.action
           q == c.seq
<1>1. d = [NewCore EXCEPT !.closed = x, !.lease = l, !.action = a, !.seq = q]
  BY DEF RevokedAll, ClosedByAll
<1> HIDE DEF x, l, a, q
<1>2. d = [lifecycle |-> <<>>, ingress |-> <<>>, replies |-> <<>>, active |-> {}, closed |-> x,
           lease |-> l, action |-> a, partial |-> NoTimer, owner |-> NoTimer, seq |-> q]
  BY <1>1 DEF NewCore
<1>3. /\ CoreRecord(d) /\ d.lifecycle = <<>> /\ d.ingress = <<>> /\ d.replies = <<>>
      /\ d.active = {} /\ d.closed = x /\ d.lease = l
      /\ d.action = a /\ d.partial = NoTimer /\ d.owner = NoTimer /\ d.seq = q
  BY <1>2 DEF CoreRecord
<1> QED
  BY <1>3 DEF x, l, a, q

LEMMA RevokedAllOk ==
  ASSUME NEW n \in Nat, NEW k \in Nat, NEW c, CoreTypes(n, k, c), NEW q, SeqsOk(c, q), NEW s,
         s.route \in Routes(n), NEW o \in Routes(n), NEW d, d = RevokedAll(c, s, o)
  PROVE  /\ CoreTypes(n, k, d) /\ SeqsOk(d, q) /\ d.action = c.action /\ d.lease = c.lease
         /\ d.lifecycle = <<>> /\ Waiting(d) = {} /\ Answering(d) \subseteq Answering(c)
         /\ Different(d.ingress) /\ Len(d.ingress) = 0
<1>1. /\ CoreRecord(d) /\ d.lifecycle = <<>> /\ d.ingress = <<>> /\ d.replies = <<>>
      /\ d.active = {} /\ d.closed = ClosedByAll(c, s, o) /\ d.lease = c.lease
      /\ d.action = c.action /\ d.partial = NoTimer /\ d.owner = NoTimer /\ d.seq = c.seq
  BY RevokedAllFields
<1>2. DOMAIN d.ingress = {} /\ DOMAIN d.replies = {} /\ Len(d.ingress) = 0 /\ Len(d.replies) = 0
      /\ Len(d.lifecycle) = 0
  BY <1>1
<1>3. ClosedByAll(c, s, o) \in SUBSET Routes(n)
  <2>1. c.closed \in SUBSET Routes(n) /\ c.lease \in Leases(n, k) /\ c.partial \in Timers(n)
        /\ c.active \in SUBSET Lifes(n) /\ c.lifecycle \in Seq(Changes(n))
        /\ c.ingress \in Seq(Entries(n, k)) /\ c.replies \in Seq(Answers(n, k))
    BY DEF CoreTypes
  <2>2. c.lease.route \in Routes(n) /\ c.partial.route \in Routes(n) /\ c.active \subseteq Routes(n)
    BY <2>1, RoutesAndLeases, TimersAreTyped
  <2>3. \A e \in Range(c.lifecycle) : e.route \in Routes(n)
    <3>1. \A e \in Range(c.lifecycle) : e \in Changes(n)
      BY <2>1 DEF Range
    <3>2. \A e \in Changes(n) : e.route \in Lifes(n)
      BY DEF Changes
    <3> QED
      BY <3>1, <3>2, RoutesAndLeases
  <2>4. \A e \in Range(c.ingress) \cup Range(c.replies) : e.lease.route \in Routes(n)
    <3>1. \A e \in Range(c.ingress) : e \in Entries(n, k)
      BY <2>1 DEF Range
    <3>2. \A e \in Range(c.replies) : e \in Answers(n, k)
      BY <2>1 DEF Range
    <3>3. \A e \in Entries(n, k) : e.lease \in Leases(n, k)
      BY DEF Entries
    <3>4. \A e \in Answers(n, k) : e.lease \in Leases(n, k)
      BY DEF Answers
    <3> QED
      BY <3>1, <3>2, <3>3, <3>4, RoutesAndLeases
  <2> QED
    BY <2>1, <2>2, <2>3, <2>4 DEF ClosedByAll
<1>4. IsFiniteSet(d.active) /\ Cardinality(d.active) = 0
  BY <1>1, FS_EmptySet
<1>5. 0 <= DataSlots /\ 0 <= LifecycleSlots /\ 0 <= ReplySlots /\ 0 <= ActiveRoutes
  BY MailboxHasRoom, CoreHasRoom
<1>6. d.partial \in Timers(n) /\ d.owner \in Timers(n)
  BY <1>1, TimersAreTyped
<1>7. CoreTypes(n, k, d)
  <2>1. c.lease \in Leases(n, k) /\ c.action \in Jobs(n) /\ c.seq \in Nat
    BY DEF CoreTypes
  <2>2. d.lifecycle \in Seq(Changes(n)) /\ d.ingress \in Seq(Entries(n, k)) /\ d.replies \in Seq(Answers(n, k))
    BY <1>1
  <2>3. d.active \in SUBSET Lifes(n) /\ d.closed \in SUBSET Routes(n)
    BY <1>1, <1>3
  <2> QED
    BY <1>1, <1>2, <1>4, <1>5, <1>6, <2>1, <2>2, <2>3 DEF CoreTypes
<1>8. SeqsOk(d, q)
  BY <1>1, <1>2 DEF SeqsOk
<1>9. Waiting(d) = {} /\ Answering(d) \subseteq Answering(c) /\ Different(d.ingress)
  BY <1>1, <1>2 DEF Waiting, Answering, Different
<1> QED
  BY <1>1, <1>2, <1>7, <1>8, <1>9

\* A request is put into ingress.
EntryOf(rec) == [lease |-> rec.lease, frame |-> rec.frame]
IngressSet(c, s) == [c EXCEPT !.ingress = s]

LEMMA SetIngress ==
  ASSUME NEW c, CoreRecord(c), NEW s, NEW d, d = IngressSet(c, s)
  PROVE  /\ CoreRecord(d) /\ SameRoutes(c, d) /\ d.ingress = s /\ d.replies = c.replies
         /\ d.lease = c.lease /\ d.action = c.action /\ d.partial = c.partial /\ d.owner = c.owner
         /\ d.seq = c.seq
BY DEF IngressSet, CoreRecord, SameRoutes

LEMMA IngestedOk ==
  ASSUME NEW n \in Nat, NEW k \in Nat, NEW c, CoreTypes(n, k, c), Len(c.ingress) < DataSlots,
         NEW rec, rec.lease \in Leases(n, k), rec.frame \in AppFrame, rec.lease \notin Waiting(c),
         Different(c.ingress), NEW d, d = Ingested(c, rec)
  PROVE  /\ CoreTypes(n, k, d) /\ SameRoutes(c, d) /\ d.replies = c.replies /\ d.lease = c.lease
         /\ d.action = c.action /\ d.seq = c.seq
         /\ Len(d.ingress) = Len(c.ingress) + 1
         /\ Waiting(d) = Waiting(c) \cup {rec.lease} /\ Different(d.ingress)
<1> DEFINE x == EntryOf(rec)
           s == Put(c.ingress, x)
<1>1. CoreRecord(c) /\ c.ingress \in Seq(Entries(n, k)) /\ Len(c.ingress) \in Nat
  BY CoreFields
<1>2. x \in Entries(n, k) /\ x.lease = rec.lease
  BY DEF Entries, EntryOf
<1>3. d = IngressSet(c, s)
  <2>1. ~(Len(c.ingress) >= DataSlots)
    BY <1>1, MailboxHasRoom
  <2> QED
    BY <2>1 DEF Ingested, IngressSet, Put, EntryOf
<1> HIDE DEF x
<1>4. /\ s \in Seq(Entries(n, k)) /\ Len(s) = Len(c.ingress) + 1
      /\ DOMAIN s = 1..(Len(c.ingress) + 1) /\ DOMAIN c.ingress = 1..Len(c.ingress)
      /\ \A i \in DOMAIN c.ingress : s[i] = c.ingress[i]
      /\ s[Len(c.ingress) + 1] = x
  BY <1>1, <1>2 DEF Put
<1> HIDE DEF s
<1>5. /\ CoreRecord(d) /\ SameRoutes(c, d) /\ d.ingress = s /\ d.replies = c.replies
      /\ d.lease = c.lease /\ d.action = c.action /\ d.partial = c.partial /\ d.owner = c.owner
      /\ d.seq = c.seq
  BY <1>1, <1>3, SetIngress
<1>6. Len(s) <= DataSlots
  BY <1>1, <1>4, MailboxHasRoom
<1>7. CoreTypes(n, k, d)
  BY <1>4, <1>5, <1>6 DEF CoreTypes, SameRoutes
<1>8. Waiting(d) = Waiting(c) \cup {rec.lease}
  <2>1. ASSUME NEW i \in DOMAIN s PROVE s[i].lease \in Waiting(c) \cup {rec.lease}
    BY <1>2, <1>4 DEF Waiting
  <2>2. ASSUME NEW i \in DOMAIN c.ingress PROVE c.ingress[i].lease \in Waiting(d)
    BY <1>4, <1>5 DEF Waiting
  <2>3. rec.lease \in Waiting(d)
    BY <1>2, <1>4, <1>5, <1>1 DEF Waiting
  <2> QED
    BY <1>5, <2>1, <2>2, <2>3 DEF Waiting
<1>9. Different(d.ingress)
  <2>1. \A m \in DOMAIN s :
          \/ m \in DOMAIN c.ingress /\ s[m].lease = c.ingress[m].lease /\ s[m].lease # rec.lease
          \/ m = Len(c.ingress) + 1 /\ s[m].lease = rec.lease
    <3> SUFFICES ASSUME NEW m \in DOMAIN s, m # Len(c.ingress) + 1
                 PROVE  m \in DOMAIN c.ingress /\ s[m].lease = c.ingress[m].lease /\ s[m].lease # rec.lease
      BY <1>2, <1>4
    <3>1. m \in DOMAIN c.ingress /\ s[m] = c.ingress[m]
      BY <1>1, <1>4
    <3> QED
      BY <3>1 DEF Waiting
  <2> QED
    BY <1>5, <2>1 DEF Different
<1> QED
  BY <1>4, <1>5, <1>7, <1>8, <1>9

\* A record goes from the mailbox to the core.
LEMMA FrontIsOfARoute ==
  ASSUME NEW n \in Nat, NEW k \in Nat, NEW b, MailOk(n, k, b), NEW rec, rec = Front(b)
  PROVE  rec.kind \in {"Open", "Close"} => rec.lease.route \in Lifes(n)
<1>1. b.closes \in Seq(Lifes(n)) /\ b.data \in Seq(Records(n, k))
  BY MailboxFields DEF MailOk
<1>2. CASE b.revokeAll
  BY <1>2 DEF Front, Record
<1>3. CASE ~b.revokeAll /\ b.closes # <<>>
  <2>1. Head(b.closes) \in Lifes(n) /\ rec = CloseOf(Head(b.closes))
    BY <1>1, <1>3 DEF Front
  <2> QED
    BY <2>1 DEF CloseOf, Record, LeaseOf
<1>4. CASE ~b.revokeAll /\ b.closes = <<>> /\ b.data # <<>>
  <2>1. Head(b.data) \in Records(n, k) /\ rec = Head(b.data)
    BY <1>1, <1>4 DEF Front
  <2> QED
    BY <2>1 DEF Records
<1>5. CASE ~b.revokeAll /\ b.closes = <<>> /\ b.data = <<>>
  BY <1>5 DEF Front, Nothing, Record
<1> QED
  BY <1>2, <1>3, <1>4, <1>5

LEMMA ImportKeeps ==
  ASSUME NEW n \in Nat, NEW k \in Nat, NEW b, MailOk(n, k, b), NEW c, CoreTypes(n, k, c), NEW q,
         SeqsOk(c, q), LeasesOk(b, c, q), CountOk(b, c), HeldOk(b, c), NEW s, s.route \in Routes(n),
         NEW rec, rec = Front(b), NEW e, e = Taken(b), NEW d, d = Imported(c, s, rec),
         rec.kind = "Frame" => Len(c.ingress) < DataSlots
  PROVE  /\ MailOk(n, k, e) /\ e.next = b.next /\ CoreTypes(n, k, d)
         /\ d.action = c.action /\ d.lease = c.lease
         /\ SeqsOk(d, q) /\ LeasesOk(e, d, q) /\ CountOk(e, d) /\ HeldOk(e, d)
         /\ c.lifecycle = <<>> => Len(d.lifecycle) <= 1
         /\ (c.lifecycle = <<>> /\ StaleOk(b, c)) => StaleOk(e, d)
<1>1. MailOk(n, k, e) /\ TakeStep(n, k, b, rec, e)
  BY TakenMail
<1>2. /\ e.next = b.next /\ e.reserved = b.reserved
      /\ rec.kind \in {"None", "CloseAll", "Open", "Close", "Frame"} /\ rec.lease \in Leases(n, k)
      /\ FrameAt(e.data) # {} => FrameAt(b.data) # {}
      /\ rec.kind # "Frame" /\ FrameAt(b.data) # {} => FrameAt(e.data) # {}
      /\ rec.kind = "CloseAll" => b.reserved = NoLease
      /\ rec.kind = "Frame" =>
           /\ b.reserved # NoLease /\ rec.lease = b.reserved /\ rec.frame \in AppFrame
           /\ FrameAt(b.data) # {} /\ FrameAt(e.data) = {}
           /\ \A x : ~CloseAhead(b, x)
      /\ rec.kind \in {"None", "Open", "Close"} =>
           \A x : CloseAhead(b, x) => CloseAhead(e, x) \/ IsCloseOf(rec, x)
  BY <1>1 DEF TakeStep
<1>3. b.next \in Nat /\ e.next \in Nat /\ (b.reserved # NoLease => b.reserved.id \in 1..(b.next - 1))
  BY <1>2, FrameIsReserved
<1>4. Len(c.ingress) \in Nat /\ CoreRecord(c)
  BY CoreFields
<1>5. /\ \A l \in Answering(c) \cup {q.lease} : l.id < b.next
      /\ \A l \in Waiting(c) : l.id \in 1..(b.next - 1) /\ l \notin Answering(c) \cup {q.lease}
      /\ Different(c.ingress)
      /\ FrameAt(b.data) # {} => b.reserved \notin Answering(c) \cup {q.lease} \cup Waiting(c)
  BY DEF LeasesOk
<1>6. CASE rec.kind = "CloseAll"
  <2>1. d = RevokedAll(c, s, rec.lease.route) /\ rec.lease.route \in Routes(n)
    BY <1>2, <1>6, RoutesAndLeases DEF Imported
  <2>2. /\ CoreTypes(n, k, d) /\ SeqsOk(d, q) /\ d.action = c.action /\ d.lease = c.lease
        /\ d.lifecycle = <<>> /\ Waiting(d) = {} /\ Answering(d) \subseteq Answering(c)
        /\ Different(d.ingress) /\ Len(d.ingress) = 0
    BY <2>1, RevokedAllOk
  <2>3. LeasesOk(e, d, q)
    BY <1>2, <1>5, <2>2 DEF LeasesOk
  <2>4. CountOk(e, d)
    <3>1. Len(d.ingress) \in Nat /\ Len(d.ingress) <= Len(c.ingress)
      BY <1>4, <2>2
    <3> QED
      BY <1>2, <1>3, <1>4, <3>1, CountKeeps
  <2>5. HeldOk(e, d) /\ StaleOk(e, d)
    BY <1>2, <1>6, <2>2 DEF HeldOk, StaleOk
  <2>6. Len(d.lifecycle) <= 1
    BY <2>2
  <2> QED
    BY <1>1, <1>2, <2>2, <2>3, <2>4, <2>5, <2>6
<1>7. CASE rec.kind \in {"None", "Open", "Close"}
  <2>1. /\ CoreTypes(n, k, d) /\ OnlyRoutesChange(c, d)
        /\ c.lifecycle = <<>> => Len(d.lifecycle) <= 1
        /\ c.lifecycle = <<>> /\ rec.kind = "Close" => CloseDue(d, rec.lease.route)
    <3>1. CASE rec.kind = "None"
      <4>1. d = c
        BY <3>1 DEF Imported
      <4>2. OnlyRoutesChange(c, c)
        BY <1>4, SetRoutes
      <4>3. c.lifecycle = <<>> => Len(c.lifecycle) <= 1
        OBVIOUS
      <4> QED
        BY <3>1, <4>1, <4>2, <4>3
    <3>2. CASE rec.kind \in {"Open", "Close"}
      <4>1. rec.lease.route \in Lifes(n)
        BY <3>2, FrontIsOfARoute
      <4>2. d = Enqueued(c, rec.kind, rec.lease.route)
        BY <3>2 DEF Imported
      <4> QED
        BY <3>2, <4>1, <4>2, EnqueuedOk
    <3> QED
      BY <1>7, <3>1, <3>2
  <2>2. /\ d.ingress = c.ingress /\ d.replies = c.replies /\ d.closed = c.closed
        /\ d.lease = c.lease /\ d.action = c.action /\ d.seq = c.seq
    BY <2>1 DEF OnlyRoutesChange
  <2>3. Waiting(d) = Waiting(c) /\ Answering(d) = Answering(c)
    BY <2>2 DEF Waiting, Answering
  <2>4. SeqsOk(d, q)
    BY <2>2, SeqsStay
  <2>5. LeasesOk(e, d, q)
    BY <1>2, <1>5, <2>2, <2>3 DEF LeasesOk
  <2>6. CountOk(e, d)
    <3>1. Len(d.ingress) \in Nat /\ Len(d.ingress) <= Len(c.ingress)
      BY <1>4, <2>2
    <3> QED
      BY <1>2, <1>3, <1>4, <3>1, CountKeeps
  <2>7. HeldOk(e, d)
    BY <1>2, <1>7, <2>2, <2>3 DEF HeldOk
  <2>8. ASSUME c.lifecycle = <<>>, StaleOk(b, c) PROVE StaleOk(e, d)
    <3> SUFFICES ASSUME NEW l \in Waiting(c)
                 PROVE  l = e.reserved \/ CloseAhead(e, l.route) \/ CloseDue(d, l.route)
      BY <2>3 DEF StaleOk
    <3>1. l = b.reserved \/ CloseAhead(b, l.route)
      <4>1. ~CloseDue(c, l.route)
        BY <2>8 DEF CloseDue
      <4> QED
        BY <2>8, <4>1 DEF StaleOk
    <3>2. IsCloseOf(rec, l.route) => rec.kind = "Close" /\ rec.lease.route = l.route
      BY DEF IsCloseOf
    <3> QED
      BY <1>2, <1>7, <2>1, <2>8, <3>1, <3>2
  <2> QED
    BY <1>1, <1>2, <2>1, <2>2, <2>4, <2>5, <2>6, <2>7, <2>8
<1>8. CASE rec.kind = "Frame"
  <2>1. d = Ingested(c, rec)
    BY <1>8 DEF Imported
  <2>2. rec.lease \notin Waiting(c) /\ rec.lease \in Leases(n, k) /\ rec.frame \in AppFrame
    BY <1>2, <1>5, <1>8
  <2>3. /\ CoreTypes(n, k, d) /\ SameRoutes(c, d) /\ d.replies = c.replies /\ d.lease = c.lease
        /\ d.action = c.action /\ d.seq = c.seq
        /\ Len(d.ingress) = Len(c.ingress) + 1
        /\ Waiting(d) = Waiting(c) \cup {rec.lease} /\ Different(d.ingress)
    BY <1>5, <1>8, <2>1, <2>2, IngestedOk
  <2>4. SeqsOk(d, q)
    BY <2>3, SeqsStay
  <2>5. Answering(d) = Answering(c)
    BY <2>3 DEF Answering
  <2>6. LeasesOk(e, d, q)
    BY <1>2, <1>3, <1>5, <1>8, <2>3, <2>5 DEF LeasesOk
  <2>7. CountOk(e, d)
    <3>1. Len(d.ingress) \in Nat /\ Len(d.ingress) <= Len(c.ingress) + 1
      BY <1>4, <2>3
    <3>2. FrameAt(e.data) = {} /\ FrameAt(b.data) # {} /\ e.next = b.next
      BY <1>2, <1>8
    <3> QED
      BY <1>3, <1>4, <3>1, <3>2, CountKeeps
  <2>8. HeldOk(e, d)
    BY <1>2, <1>8, <2>3 DEF HeldOk
  <2>9. ASSUME c.lifecycle = <<>>, StaleOk(b, c) PROVE StaleOk(e, d)
    <3> SUFFICES ASSUME NEW l \in Waiting(d) PROVE l = e.reserved
      BY DEF StaleOk
    <3>1. l \in Waiting(c) => l = b.reserved
      <4>1. ~CloseDue(c, l.route)
        BY <2>9 DEF CloseDue
      <4> QED
        BY <1>2, <1>8, <2>9, <4>1 DEF StaleOk
    <3> QED
      BY <1>2, <1>8, <2>3, <3>1
  <2>10. c.lifecycle = <<>> => Len(d.lifecycle) <= 1
    BY <2>3 DEF SameRoutes
  <2> QED
    BY <1>1, <1>2, <2>3, <2>4, <2>6, <2>7, <2>8, <2>9, <2>10
<1> QED
  BY <1>2, <1>6, <1>7, <1>8

\* There is room for a request that is still admitted.
LEMMA RoomInIngress ==
  ASSUME NEW n \in Nat, NEW k \in Nat, NEW b, MailOk(n, k, b), NEW c, CoreTypes(n, k, c), NEW q,
         LeasesOk(b, c, q), CountOk(b, c), Front(b).kind = "Frame",
         \/ c.lifecycle = <<>> /\ StaleOk(b, c)
         \/ b.next - 1 <= DataSlots
  PROVE  Len(c.ingress) < DataSlots
<1> DEFINE rec == Front(b)
           e == Taken(b)
<1>1. TakeStep(n, k, b, rec, e)
  BY TakenMail
<1>2. FrameAt(b.data) # {} /\ \A x : ~CloseAhead(b, x)
  BY <1>1 DEF TakeStep
<1>3. Len(c.ingress) \in Nat /\ b.next \in Nat /\ DataSlots \in Nat \ {0}
      /\ DOMAIN c.ingress = 1..Len(c.ingress)
  BY CoreFields, FrameIsReserved, MailboxHasRoom
<1>4. CASE c.lifecycle = <<>> /\ StaleOk(b, c)
  <2>1. b.reserved \notin Waiting(c)
    BY <1>2 DEF LeasesOk
  <2>2. \A x : ~CloseDue(c, x)
    BY <1>4 DEF CloseDue
  <2>3. Waiting(c) = {}
    BY <1>2, <1>4, <2>1, <2>2 DEF StaleOk
  <2>4. DOMAIN c.ingress = {}
    BY <2>3 DEF Waiting
  <2> DEFINE m == Len(c.ingress)
  <2>5. m \in Nat /\ 1..m = {}
    BY <1>3, <2>4
  <2> HIDE DEF m
  <2>6. m = 0
    BY <2>5
  <2> QED
    BY <1>3, <2>6 DEF m
<1>5. CASE b.next - 1 <= DataSlots
  <2>1. Len(c.ingress) + 1 <= b.next - 1
    BY <1>2 DEF CountOk
  <2> QED
    BY <1>3, <1>5, <2>1
<1> QED
  BY <1>4, <1>5

-----------------------------------------------------------------------------
(* The steps of the core. *)

\* What a step of the core leaves behind.
CoreStepOk(n, k) ==
  /\ MainOk(n, k, box', core', ses', sup.queued) /\ box'.next = box.next
  /\ ~env.scene.boot =>
       /\ Len(core'.lifecycle) <= 1 /\ StaleOk(box', core')
       /\ core'.lifecycle = <<>>

\* What holds before it.
LEMMA MainFields ==
  ASSUME NEW n \in Nat, NEW k \in Nat, SyncOk(n, k)
  PROVE  /\ MailOk(n, k, box) /\ CoreTypes(n, k, core) /\ SesOk(n, ses) /\ SesTypes(n, ses)
         /\ PendingOk(core, ses) /\ SeqsOk(core, sup.queued) /\ LeasesOk(box, core, sup.queued)
         /\ CountOk(box, core) /\ HeldOk(box, core)
         /\ PromptOk(sup.pc, box, core)
         /\ box.next \in Nat /\ Len(core.ingress) \in Nat
         /\ \A x \in Waiting(core) : x.route \in Routes(n)
         /\ CoreRecord(core) /\ TimersOk(n, core)
<1>1. /\ MailOk(n, k, box) /\ CoreTypes(n, k, core) /\ SesOk(n, ses)
      /\ PendingOk(core, ses) /\ SeqsOk(core, sup.queued) /\ LeasesOk(box, core, sup.queued)
      /\ CountOk(box, core) /\ HeldOk(box, core)
      /\ PromptOk(sup.pc, box, core)
  BY DEF SyncOk, MainOk
<1>2. box.next \in Nat
  BY <1>1, FrameIsReserved
<1>3. /\ Len(core.ingress) \in Nat
      /\ \A x \in Waiting(core) : x.route \in Routes(n)
      /\ CoreRecord(core) /\ TimersOk(n, core)
  BY <1>1, CoreFields
<1> QED
  BY <1>1, <1>2, <1>3 DEF SesOk

LEMMA ReleasedNothing == \A b : Released(b, NoLease) = b
BY DEF Released

\* A step that moves requests and gives at most one admission back.
LEMMA MovedOk ==
  ASSUME NEW n \in Nat, NEW k \in Nat, SyncOk(n, k), core.lifecycle = <<>>,
         NEW l, box' = Released(box, l), CoreTypes(n, k, core'), CoreMove(core, core', l),
         SeqsOk(core', sup.queued), core'.lifecycle = <<>>,
         SesOk(n, ses'), PendingOk(core', ses')
  PROVE  CoreStepOk(n, k)
<1>1. /\ MailOk(n, k, box) /\ LeasesOk(box, core, sup.queued)
      /\ CountOk(box, core) /\ HeldOk(box, core) /\ PromptOk(sup.pc, box, core)
      /\ Len(core.ingress) \in Nat /\ \A x \in Waiting(core) : x.route \in Routes(n)
  BY MainFields
<1>2. Len(core'.ingress) \in Nat
  BY CoreFields
<1>3. \A x : ~CloseDue(core, x)
  BY DEF CloseDue
<1>4. /\ MailOk(n, k, box') /\ box'.next = box.next
      /\ LeasesOk(box', core', sup.queued) /\ HeldOk(box', core')
      /\ CountOk(box', core')
      /\ StaleOk(box, core) => StaleOk(box', core')
  BY <1>1, <1>2, <1>3, MoveKeeps
<1>5. ~env.scene.boot => StaleOk(box', core')
  BY <1>1, <1>4 DEF PromptOk
<1>6. Len(core'.lifecycle) = 0
  OBVIOUS
<1>7. ~env.scene.boot => Len(core'.lifecycle) <= 1
  BY <1>6
<1> QED
  BY <1>4, <1>5, <1>7 DEF CoreStepOk, MainOk

LEMMA PendingStays ==
  ASSUME NEW c, NEW s, PendingOk(c, s), NEW d, d.action = c.action, d.lease = c.lease, NEW t,
         t.phase = "ActionPending" <=> s.phase = "ActionPending", t.pending.action = s.pending.action
  PROVE  PendingOk(d, t)
BY DEF PendingOk

\* A core that differs only in what no request depends on.
LEMMA SameRequests ==
  ASSUME NEW n \in Nat, NEW k \in Nat, NEW b, MailOk(n, k, b), NEW c, CoreTypes(n, k, c), NEW q,
         LeasesOk(b, c, q), SeqsOk(c, q), NEW d, d.ingress = c.ingress, d.replies = c.replies,
         d.lease = c.lease, d.closed = c.closed, d.seq = c.seq
  PROVE  LeasesOk(b, d, q) /\ SeqsOk(d, q) /\ Waiting(d) = Waiting(c) /\ Answering(d) = Answering(c)
<1>1. Waiting(d) = Waiting(c) /\ Answering(d) = Answering(c)
  BY DEF Waiting, Answering
<1>2. LeasesOk(b, d, q)
  BY <1>1 DEF LeasesOk
<1> QED
  BY <1>1, <1>2, SeqsStay

LEMMA LifecycleTaken ==
  ASSUME NEW n \in Nat, NEW k \in Nat, NEW c, CoreTypes(n, k, c), c.lifecycle # <<>>,
         NEW d, d = LifecycleSet(c, Rest(c.lifecycle))
  PROVE  /\ CoreTypes(n, k, d) /\ OnlyRoutesChange(c, d)
         /\ Head(c.lifecycle) \in Changes(n) /\ Head(c.lifecycle).route \in Lifes(n)
         /\ Len(c.lifecycle) <= 1 =>
              /\ d.lifecycle = <<>>
              /\ \A x : CloseDue(c, x) => Head(c.lifecycle).kind = "Close" /\ Head(c.lifecycle).route = x
<1>1. CoreRecord(c) /\ c.lifecycle \in Seq(Changes(n)) /\ Len(c.lifecycle) <= LifecycleSlots
      /\ LifecycleSlots \in Nat
  BY CoreHasRoom DEF CoreTypes
<1> DEFINE s == Rest(c.lifecycle)
<1>2. /\ s \in Seq(Changes(n)) /\ Len(c.lifecycle) \in Nat \ {0} /\ Len(s) = Len(c.lifecycle) - 1
      /\ Head(c.lifecycle) = c.lifecycle[1] /\ c.lifecycle[1] \in Changes(n)
      /\ DOMAIN c.lifecycle = 1..Len(c.lifecycle)
  BY <1>1, TailOf DEF Rest
<1> HIDE DEF s
<1>3. OnlyRoutesChange(c, d) /\ d.lifecycle = s /\ d.active = c.active
  <2>1. d = LifecycleSet(c, s)
    BY DEF s
  <2> QED
    BY <1>1, <2>1, SetRoutes
<1>4. CoreTypes(n, k, d)
  <2>1. Len(s) <= LifecycleSlots
    BY <1>1, <1>2
  <2> QED
    BY <1>2, <1>3, <2>1, LifecycleKeepsTypes
<1>5. Head(c.lifecycle).route \in Lifes(n)
  BY <1>2 DEF Changes
<1>6. ASSUME Len(c.lifecycle) <= 1
      PROVE  /\ d.lifecycle = <<>>
             /\ \A x : CloseDue(c, x) => Head(c.lifecycle).kind = "Close" /\ Head(c.lifecycle).route = x
  <2> DEFINE m == Len(c.lifecycle)
  <2>0. m \in Nat \ {0} /\ m <= 1 /\ Len(s) = m - 1
    BY <1>2, <1>6
  <2> HIDE DEF m
  <2>1. Len(s) = 0
    BY <2>0
  <2>2. d.lifecycle = <<>>
    BY <1>2, <1>3, <2>1
  <2>3. \A i \in DOMAIN c.lifecycle : i = 1
    <3>1. DOMAIN c.lifecycle = 1..m
      BY <1>2 DEF m
    <3> QED
      BY <2>0, <3>1
  <2>4. \A x : CloseDue(c, x) => c.lifecycle[1] = [kind |-> "Close", route |-> x]
    BY <2>3 DEF CloseDue
  <2>5. ASSUME NEW x, CloseDue(c, x)
        PROVE  c.lifecycle[1].kind = "Close" /\ c.lifecycle[1].route = x
    <3> DEFINE y == c.lifecycle[1]
    <3>1. y = [kind |-> "Close", route |-> x]
      BY <2>4, <2>5
    <3> HIDE DEF y
    <3>2. y.kind = "Close" /\ y.route = x
      BY <3>1
    <3> QED
      BY <3>2 DEF y
  <2>6. Head(c.lifecycle) = c.lifecycle[1]
    BY <1>2
  <2> QED
    BY <2>2, <2>5, <2>6
<1> QED
  BY <1>2, <1>3, <1>4, <1>5, <1>6

LEMMA ProcessLifecycleOk ==
  ASSUME NEW n \in Nat, NEW k \in Nat, SyncOk(n, k), ProcessLifecycle
  PROVE  CoreStepOk(n, k)
<1> DEFINE e == Head(core.lifecycle)
           c == LifecycleSet(core, Rest(core.lifecycle))
<1>1. /\ MailOk(n, k, box) /\ CoreTypes(n, k, core) /\ SesOk(n, ses)
      /\ PendingOk(core, ses) /\ SeqsOk(core, sup.queued) /\ LeasesOk(box, core, sup.queued)
      /\ CountOk(box, core) /\ HeldOk(box, core) /\ PromptOk(sup.pc, box, core)
      /\ box.next \in Nat /\ Len(core.ingress) \in Nat
      /\ \A x \in Waiting(core) : x.route \in Routes(n)
  BY MainFields
<1>2. /\ core.lifecycle # <<>> /\ box' = box
      /\ \/ e.kind = "Open" /\ core' = Activated(c, e.route) /\ ses' = ses
         \/ e.kind # "Open" /\ core' = RouteGone(c, e.route) /\ ses' = RouteClosed(ses, e.route)
  BY DEF ProcessLifecycle, LifecycleSet, Rest
<1>3. /\ CoreTypes(n, k, c) /\ OnlyRoutesChange(core, c)
      /\ e.route \in Lifes(n)
      /\ Len(core.lifecycle) <= 1 =>
           /\ c.lifecycle = <<>>
           /\ \A x : CloseDue(core, x) => e.kind = "Close" /\ e.route = x
  BY <1>1, <1>2, LifecycleTaken
<1> HIDE DEF e, c
<1>4. /\ c.ingress = core.ingress /\ c.replies = core.replies /\ c.closed = core.closed
      /\ c.lease = core.lease /\ c.action = core.action /\ c.seq = core.seq
  BY <1>3 DEF OnlyRoutesChange
<1>5. LeasesOk(box, c, sup.queued) /\ SeqsOk(c, sup.queued) /\ Waiting(c) = Waiting(core)
      /\ Answering(c) = Answering(core)
  BY <1>1, <1>4, SameRequests
<1>6. HeldOk(box, c) /\ CountOk(box, c) /\ Len(c.ingress) \in Nat
  BY <1>1, <1>4, <1>5 DEF HeldOk, CountOk
<1>7. box = Released(box, NoLease)
  BY ReleasedNothing
<1>8. CASE e.kind = "Open" /\ core' = Activated(c, e.route) /\ ses' = ses
  <2>1. CoreTypes(n, k, core') /\ OnlyRoutesChange(c, core') /\ core'.lifecycle = c.lifecycle
    BY <1>3, <1>8, ActivatedOk
  <2>2. /\ core'.ingress = c.ingress /\ core'.replies = c.replies /\ core'.closed = c.closed
        /\ core'.lease = c.lease /\ core'.action = c.action /\ core'.seq = c.seq
    BY <2>1 DEF OnlyRoutesChange
  <2>3. LeasesOk(box, core', sup.queued) /\ SeqsOk(core', sup.queued) /\ Waiting(core') = Waiting(c)
        /\ Answering(core') = Answering(c)
    BY <1>1, <1>3, <1>5, <2>2, SameRequests
  <2>4. HeldOk(box, core') /\ CountOk(box, core')
    BY <1>6, <2>2, <2>3 DEF HeldOk, CountOk
  <2>5. PendingOk(core', ses')
    BY <1>1, <1>4, <1>8, <2>2, PendingStays
  <2>6. ASSUME ~env.scene.boot
        PROVE  Len(core'.lifecycle) <= 1 /\ core'.lifecycle = <<>> /\ StaleOk(box, core')
    <3>1. Len(core.lifecycle) <= 1 /\ StaleOk(box, core)
      BY <1>1, <2>6 DEF PromptOk
    <3>2. core'.lifecycle = <<>>
      BY <1>3, <2>1, <3>1
    <3>3. \A x : ~CloseDue(core, x)
      BY <1>3, <1>8, <3>1
    <3>4. StaleOk(box, core')
      BY <1>5, <2>3, <3>1, <3>3 DEF StaleOk
    <3>5. Len(core'.lifecycle) = 0
      BY <3>2
    <3> QED
      BY <3>2, <3>4, <3>5
  <2> QED
    BY <1>1, <1>2, <1>8, <2>1, <2>3, <2>4, <2>5, <2>6 DEF CoreStepOk, MainOk
<1>9. CASE e.kind # "Open" /\ core' = RouteGone(c, e.route) /\ ses' = RouteClosed(ses, e.route)
  <2>0. e.route \in Routes(n)
    BY <1>3, RoutesAndLeases
  <2>1. /\ CoreTypes(n, k, core') /\ CoreMove(c, core', NoLease) /\ SeqsOk(core', sup.queued)
        /\ core'.lifecycle = c.lifecycle /\ core'.action = c.action /\ core'.lease = c.lease
        /\ \A l \in Waiting(core') : l \in Waiting(c) /\ l.route # e.route
    BY <1>1, <1>3, <1>5, <1>9, <2>0, RouteGoneOk
  <2>2. Len(core'.ingress) \in Nat
    BY <2>1, CoreFields
  <2>3. LeasesOk(box, core', sup.queued) /\ HeldOk(box, core') /\ CountOk(box, core')
    BY <1>1, <1>5, <1>6, <1>7, <2>1, <2>2, MoveKeeps
  <2>4. SesOk(n, ses') /\ PendingOk(core', ses')
    <3>1. /\ SesOk(n, ses') /\ (ses'.phase = "ActionPending" <=> ses.phase = "ActionPending")
          /\ ses'.pending.action = ses.pending.action
      BY <1>1, <1>3, <1>9, RouteClosedOk
    <3>2. core'.action = core.action /\ core'.lease = core.lease
      BY <1>4, <2>1
    <3> QED
      BY <1>1, <3>1, <3>2, PendingStays
  <2>5. ASSUME ~env.scene.boot
        PROVE  Len(core'.lifecycle) <= 1 /\ core'.lifecycle = <<>> /\ StaleOk(box, core')
    <3>1. Len(core.lifecycle) <= 1 /\ StaleOk(box, core)
      BY <1>1, <2>5 DEF PromptOk
    <3>2. core'.lifecycle = <<>>
      BY <1>3, <2>1, <3>1
    <3>3. \A x \in Waiting(core') : x \in Waiting(core) /\ ~CloseDue(core, x.route)
      BY <1>3, <1>5, <2>1, <3>1
    <3>4. StaleOk(box, core')
      BY <3>1, <3>3 DEF StaleOk
    <3>5. Len(core'.lifecycle) = 0
      BY <3>2
    <3> QED
      BY <3>2, <3>4, <3>5
  <2> QED
    BY <1>1, <1>2, <2>1, <2>3, <2>4, <2>5 DEF CoreStepOk, MainOk
<1> QED
  BY <1>2, <1>8, <1>9

\* A step that moves no request.
LEMMA QuietOk ==
  ASSUME NEW n \in Nat, NEW k \in Nat, SyncOk(n, k), core.lifecycle = <<>>, box' = box,
         SameQueues(core, core'), TimersOk(n, core'), SesOk(n, ses'),
         ses'.phase = "ActionPending" <=> ses.phase = "ActionPending",
         ses'.pending.action = ses.pending.action
  PROVE  CoreStepOk(n, k)
<1>1. /\ CoreTypes(n, k, core) /\ PendingOk(core, ses) /\ SeqsOk(core, sup.queued)
      /\ LeasesOk(box, core, sup.queued) /\ box.next \in Nat
  BY MainFields
<1>2. /\ core'.lifecycle = core.lifecycle /\ core'.ingress = core.ingress /\ core'.replies = core.replies
      /\ core'.closed = core.closed /\ core'.lease = core.lease /\ core'.action = core.action
      /\ core'.seq = core.seq
  BY DEF SameQueues
<1>3. CoreTypes(n, k, core')
  BY <1>1, QueuesKeepTypes
<1>4. CoreMove(core, core', NoLease)
  BY <1>1, <1>2, MovesNothing
<1>5. SeqsOk(core', sup.queued)
  BY <1>1, <1>2, SeqsStay
<1>6. PendingOk(core', ses')
  BY <1>1, <1>2, PendingStays
<1>7. box' = Released(box, NoLease)
  BY ReleasedNothing
<1> QED
  BY <1>2, <1>3, <1>4, <1>5, <1>6, <1>7, MovedOk

LEMMA ExpirePartialsOk ==
  ASSUME NEW n \in Nat, NEW k \in Nat, SyncOk(n, k), ExpirePartials
  PROVE  CoreStepOk(n, k)
<1>1. /\ core.lifecycle = <<>> /\ box' = box /\ ses' = PartialExpired(ses, core.partial.route)
      /\ core' = PartialSet(core, NoTimer)
  BY DEF ExpirePartials, PartialSet
<1>2. SesOk(n, ses) /\ CoreRecord(core) /\ TimersOk(n, core)
  BY MainFields
<1>3. SameQueues(core, core') /\ TimersOk(n, core')
  BY <1>1, <1>2, SetTimers, TimersAreTyped
<1>4. SesOk(n, ses') /\ ses'.pending = ses.pending
      /\ (ses'.phase = "ActionPending" <=> ses.phase = "ActionPending")
  BY <1>1, <1>2, PartialExpiredOk
<1> QED
  BY <1>1, <1>3, <1>4, QuietOk

LEMMA AwaitActionOk ==
  ASSUME NEW n \in Nat, NEW k \in Nat, SyncOk(n, k), AwaitAction
  PROVE  CoreStepOk(n, k)
<1>1. core.lifecycle = <<>> /\ box' = box /\ ses' = ses /\ core' = core
  BY DEF AwaitAction, Settled
<1>2. SesOk(n, ses) /\ CoreRecord(core) /\ TimersOk(n, core)
  BY MainFields
<1>3. SameQueues(core, core') /\ TimersOk(n, core')
  BY <1>1, <1>2, SetTimers, TimersAreTyped
<1> QED
  BY <1>1, <1>2, <1>3, QuietOk

LEMMA CoreIdleOk ==
  ASSUME NEW n \in Nat, NEW k \in Nat, SyncOk(n, k), CoreIdle
  PROVE  CoreStepOk(n, k)
<1>1. core.lifecycle = <<>> /\ box' = box /\ ses' = ses /\ core' = OwnerChecked(core, ses)
  BY DEF CoreIdle, Settled
<1>2. SesOk(n, ses) /\ CoreRecord(core) /\ TimersOk(n, core)
  BY MainFields
<1>3. RouteOf("usb", 0) \in Lifes(n)
  BY RoutesAndLeases DEF Vias
<1>4. SameQueues(core, core') /\ TimersOk(n, core')
  BY <1>1, <1>2, <1>3, TimerSteps
<1> QED
  BY <1>1, <1>2, <1>4, QuietOk

LEMMA ExpireSessionLeaseOk ==
  ASSUME NEW n \in Nat, NEW k \in Nat, SyncOk(n, k), ExpireSessionLease
  PROVE  CoreStepOk(n, k)
<1> DEFINE r == core.owner.route
           p == Cleared(core.partial, r)
           c == OwnerSet(core, NoTimer)
<1>1. /\ core.lifecycle = <<>> /\ box' = box /\ ses' = RouteClosed(ses, r) /\ core.owner.old
  BY DEF ExpireSessionLease, Settled, OwnerLapsed
<1>2. SesOk(n, ses) /\ CoreRecord(core) /\ TimersOk(n, core)
  BY MainFields
<1>3. NoTimer \in Timers(n) /\ r \in Lifes(n) /\ p \in Timers(n)
  BY <1>1, <1>2, TimersAreTyped DEF TimersOk
<1>4. core' = PartialSet(c, p)
  BY <1>2 DEF ExpireSessionLease, PartialSet, OwnerSet, CoreRecord
<1>5. SameQueues(core, c) /\ TimersOk(n, c)
  BY <1>2, <1>3, SetTimers
<1> HIDE DEF p, c
<1>6. SameQueues(c, core') /\ TimersOk(n, core')
  <2>1. CoreRecord(c)
    BY <1>5 DEF SameQueues
  <2>2. SameQueues(c, PartialSet(c, p)) /\ TimersOk(n, PartialSet(c, p))
    BY <1>3, <1>5, <2>1, SetTimers
  <2> QED
    BY <1>4, <2>2
<1>7. SameQueues(core, core')
  BY <1>5, <1>6, QueuesCompose
<1>8. /\ SesOk(n, ses') /\ (ses'.phase = "ActionPending" <=> ses.phase = "ActionPending")
      /\ ses'.pending.action = ses.pending.action
  BY <1>1, <1>2, <1>3, RouteClosedOk
<1> QED
  BY <1>1, <1>6, <1>7, <1>8, QuietOk

\* The pending action and its admission change.
ActionSet(c, a, l) == [c EXCEPT !.action = a, !.lease = l]

LEMMA SetAction ==
  ASSUME NEW c, CoreRecord(c), NEW a, NEW l, NEW d, d = ActionSet(c, a, l)
  PROVE  /\ CoreRecord(d) /\ SameRoutes(c, d) /\ d.ingress = c.ingress /\ d.replies = c.replies
         /\ d.partial = c.partial /\ d.owner = c.owner /\ d.seq = c.seq
         /\ d.action = a /\ d.lease = l
BY DEF ActionSet, CoreRecord, SameRoutes

LEMMA ActionKeepsTypes ==
  ASSUME NEW n \in Nat, NEW k \in Nat, NEW c, CoreTypes(n, k, c), NEW a \in Jobs(n),
         NEW l \in Leases(n, k), NEW d, d = ActionSet(c, a, l)
  PROVE  CoreTypes(n, k, d)
<1>1. /\ CoreRecord(d) /\ SameRoutes(c, d) /\ d.ingress = c.ingress /\ d.replies = c.replies
      /\ d.partial = c.partial /\ d.owner = c.owner /\ d.seq = c.seq
      /\ d.action = a /\ d.lease = l
  BY CoreFields, SetAction
<1> QED
  BY <1>1 DEF CoreTypes, SameRoutes

LEMMA CompleteActionOk ==
  ASSUME NEW n \in Nat, NEW k \in Nat, SyncOk(n, k), CompleteAction
  PROVE  CoreStepOk(n, k)
<1> DEFINE a == core.action
           e == Complete(ses, exec.stage # "fail", IF exec.stage = "ok" THEN "Active" ELSE "Other")
           c0 == ActionSet(core, NoAction, NoLease)
           c == PartialSet(c0, NoTimer)
           d == IF e.ses.route = a.route THEN OwnerSet(c, Fresh(a.route)) ELSE OwnerOfBound(c, e.ses)
           req == [op |-> a.op, rid |-> a.rid, cookie |-> a.cookie]
<1>1. /\ CoreTypes(n, k, core) /\ SesOk(n, ses) /\ PendingOk(core, ses) /\ SeqsOk(core, sup.queued)
      /\ LeasesOk(box, core, sup.queued) /\ box.next \in Nat
      /\ CoreRecord(core) /\ TimersOk(n, core)
  BY MainFields
<1>2. /\ core.lifecycle = <<>> /\ a # NoAction /\ ~RepliesFull(core) /\ ses' = e.ses
      /\ box' = Released(box, Retired(e.kind, core.lease))
      /\ core' = IF e.kind = "Reply" THEN Answered(d, core.lease, req, e.reply) ELSE d
  <2>1. c = [core EXCEPT !.action = NoAction, !.lease = NoLease, !.partial = NoTimer]
    BY <1>1 DEF PartialSet, ActionSet, CoreRecord
  <2> HIDE DEF c, e
  <2>2. d = IF e.ses.route = a.route THEN [c EXCEPT !.owner = Fresh(a.route)] ELSE OwnerOfBound(c, e.ses)
    BY DEF OwnerSet
  <2> QED
    BY <2>1, <2>2 DEF CompleteAction, Settled, c, e
<1>3. /\ SesOk(n, e.ses) /\ e.ses.phase # "ActionPending" /\ e.kind \in {"Reply", "None"}
      /\ e.kind = "Reply" => e.reply \in Texts
  <2>1. ses.phase = "ActionPending"
    BY <1>1, <1>2 DEF PendingOk
  <2>2. CompletionOk(n, e)
    BY <1>1, <2>1, CompleteOk
  <2> QED
    BY <2>2 DEF CompletionOk
<1> HIDE DEF e
<1>4. /\ NoAction \in Jobs(n) /\ NoLease \in Leases(n, k) /\ NoTimer \in Timers(n)
      /\ a.route \in Lifes(n) /\ Fresh(a.route) \in Timers(n) /\ req \in Requests
      /\ core.lease \in Leases(n, k)
  <2>1. a \in Jobs(n) /\ core.lease \in Leases(n, k)
    BY <1>1 DEF CoreTypes
  <2>2. a.route \in Lifes(n) /\ a.op \in Ops /\ a.rid \in Nat /\ a.cookie \in Nat
    BY <1>2, <2>1 DEF Jobs
  <2>3. req \in Requests
    BY <2>2 DEF Requests
  <2>4. NoAction \in Jobs(n)
    BY DEF Jobs
  <2>5. NoLease \in Leases(n, k)
    BY NoAnswerOk
  <2> QED
    BY <2>1, <2>2, <2>3, <2>4, <2>5, TimersAreTyped
<1>5. CoreTypes(n, k, c0) /\ CoreRecord(c0) /\ TimersOk(n, c0) /\ SameRoutes(core, c0)
      /\ c0.ingress = core.ingress /\ c0.replies = core.replies /\ c0.seq = core.seq
      /\ c0.action = NoAction /\ c0.lease = NoLease
  <2>1. CoreTypes(n, k, c0)
    BY <1>1, <1>4, ActionKeepsTypes
  <2>2. CoreRecord(c0) /\ SameRoutes(core, c0)
        /\ c0.ingress = core.ingress /\ c0.replies = core.replies /\ c0.seq = core.seq
        /\ c0.action = NoAction /\ c0.lease = NoLease
    BY <1>1, SetAction
  <2> QED
    BY <2>1, <2>2, CoreFields
<1> HIDE DEF c0
<1>6. SameQueues(c0, c) /\ TimersOk(n, c) /\ CoreRecord(c)
  <2>1. SameQueues(c0, c) /\ TimersOk(n, c)
    BY <1>4, <1>5, SetTimers
  <2> QED
    BY <2>1 DEF SameQueues
<1> HIDE DEF c
<1>7. SameQueues(c, d) /\ TimersOk(n, d)
  <2>1. SameQueues(c, OwnerSet(c, Fresh(a.route))) /\ TimersOk(n, OwnerSet(c, Fresh(a.route)))
    BY <1>4, <1>6, SetTimers
  <2>2. SameQueues(c, OwnerOfBound(c, e.ses)) /\ TimersOk(n, OwnerOfBound(c, e.ses))
    BY <1>4, <1>6, TimerSteps
  <2> QED
    BY <2>1, <2>2
<1> HIDE DEF d
<1>8. SameQueues(c0, d)
  BY <1>6, <1>7, QueuesCompose
<1>9. /\ d.lifecycle = <<>> /\ d.ingress = core.ingress /\ d.replies = core.replies
      /\ d.closed = core.closed /\ d.lease = NoLease /\ d.action = NoAction /\ d.seq = core.seq
  BY <1>2, <1>5, <1>8 DEF SameQueues, SameRoutes
<1>10. CoreTypes(n, k, d)
  BY <1>5, <1>7, <1>8, QueuesKeepTypes
<1>11. SeqsOk(d, sup.queued)
  BY <1>1, <1>9, SeqsStay
<1>12. \A x : x.action = NoAction /\ x.lease = NoLease => PendingOk(x, ses')
  BY <1>2, <1>3 DEF PendingOk
<1>13. CASE e.kind = "Reply"
  <2>1. core' = Answered(d, core.lease, req, e.reply) /\ e.reply \in Texts
        /\ Retired(e.kind, core.lease) = NoLease
    BY <1>2, <1>3, <1>13 DEF Retired
  <2> HIDE DEF req
  <2>2. ~RepliesFull(d)
    BY <1>2, <1>9 DEF RepliesFull
  <2>3. CoreTypes(n, k, core') /\ Appended(d, core', core.lease) /\ SeqsOk(core', sup.queued)
    BY <1>4, <1>10, <1>11, <2>1, <2>2, AnsweredOk
  <2>4. /\ SameRoutes(d, core') /\ core'.ingress = d.ingress /\ core'.lease = d.lease
        /\ core'.action = d.action
    BY <1>7, <2>1, AnsweredFields DEF SameQueues
  <2>5. /\ core'.lifecycle = <<>> /\ core'.ingress = core.ingress /\ core'.closed = core.closed
        /\ core'.lease = NoLease /\ core'.action = NoAction
    BY <1>9, <2>4 DEF SameRoutes
  <2>6. LeasesIn(core'.replies) = LeasesIn(core.replies) \cup {core.lease}
    BY <1>9, <2>3 DEF Appended
  <2>7. CoreMove(core, core', NoLease)
    BY <1>1, <2>5, <2>6, CompletedMove
  <2> QED
    BY <1>2, <1>3, <1>12, <2>1, <2>3, <2>5, <2>7, MovedOk
<1>14. CASE e.kind = "None"
  <2>1. core' = d /\ Retired(e.kind, core.lease) = core.lease
    BY <1>2, <1>14 DEF Retired
  <2>2. CoreMove(core, core', core.lease)
    BY <1>1, <1>9, <2>1, CompletedMove
  <2> QED
    BY <1>2, <1>3, <1>9, <1>10, <1>11, <1>12, <2>1, <2>2, MovedOk
<1> QED
  BY <1>3, <1>13, <1>14

\* A request is taken out of ingress; w is the core without it.
Without(c, w) ==
  /\ CoreRecord(w) /\ SameRoutes(c, w) /\ w.ingress = Rest(c.ingress) /\ w.replies = c.replies
  /\ w.lease = c.lease /\ w.action = c.action /\ w.seq = c.seq

LEMMA WithoutIncomingOk ==
  ASSUME NEW n \in Nat, NEW k \in Nat, SyncOk(n, k), Ingress
  PROVE  /\ core.lifecycle = <<>> /\ core.action = NoAction /\ core.lease = NoLease
         /\ ses.phase # "ActionPending" /\ core.ingress # <<>> /\ ~RepliesFull(core)
         /\ Without(core, WithoutIncoming) /\ TimersOk(n, WithoutIncoming)
         /\ CoreTypes(n, k, WithoutIncoming) /\ SeqsOk(WithoutIncoming, sup.queued)
         /\ Incoming.lease \in Leases(n, k) /\ Incoming.frame \in AppFrame
         /\ Incoming.lease.route \in core.active => Incoming.lease.route \in Lifes(n)
<1> DEFINE c == OwnerChecked(core, ses)
           s == Rest(core.ingress)
           w == WithoutIncoming
<1>1. /\ CoreTypes(n, k, core) /\ PendingOk(core, ses) /\ SeqsOk(core, sup.queued)
      /\ LeasesOk(box, core, sup.queued) /\ CoreRecord(core) /\ TimersOk(n, core)
  BY MainFields
<1>2. core.lifecycle = <<>> /\ core.action = NoAction /\ core.ingress # <<>> /\ ~RepliesFull(core)
  BY DEF Ingress, Settled
<1>3. core.lease = NoLease /\ ses.phase # "ActionPending"
  BY <1>1, <1>2 DEF PendingOk
<1>4. RouteOf("usb", 0) \in Lifes(n)
  BY RoutesAndLeases DEF Vias
<1>5. SameQueues(core, c) /\ TimersOk(n, c)
  BY <1>1, <1>4, TimerSteps
<1>6. w = IngressSet(c, s)
  <2>1. c.ingress = core.ingress
    BY <1>5 DEF SameQueues
  <2> HIDE DEF c
  <2>2. w = [c EXCEPT !.ingress = Rest(@)]
    BY DEF WithoutIncoming, Rest, c
  <2> QED
    BY <2>1, <2>2 DEF IngressSet
<1>7. CoreTypes(n, k, c)
  BY <1>1, <1>5, QueuesKeepTypes
<1>8. CoreRecord(c)
  BY <1>5 DEF SameQueues
<1> HIDE DEF c, s
<1>9. /\ CoreRecord(w) /\ SameRoutes(c, w) /\ w.ingress = s /\ w.replies = c.replies
      /\ w.lease = c.lease /\ w.action = c.action /\ w.partial = c.partial /\ w.owner = c.owner
      /\ w.seq = c.seq
  BY <1>6, <1>8, SetIngress
<1>10. Without(core, w)
  BY <1>5, <1>9 DEF Without, SameQueues, SameRoutes, s
<1>11. Different(core.ingress)
  BY <1>1 DEF LeasesOk
<1>12. /\ Head(core.ingress) \in Entries(n, k) /\ w.ingress \in Seq(Entries(n, k))
       /\ Len(w.ingress) \in Nat /\ Len(w.ingress) <= Len(core.ingress)
       /\ Head(core.ingress).lease \in Leases(n, k)
  <2>1. w.ingress = Rest(core.ingress)
    BY <1>9 DEF s
  <2> QED
    BY <1>1, <1>2, <1>11, <2>1, TakenIngress
<1>13. CoreTypes(n, k, w)
  <2>1. Len(w.ingress) <= DataSlots
    <3>1. Len(core.ingress) <= DataSlots /\ Len(core.ingress) \in Nat
      BY <1>1, CoreFields DEF CoreTypes
    <3> QED
      BY <1>12, <3>1, MailboxHasRoom
  <2> QED
    BY <1>7, <1>9, <1>12, <2>1 DEF CoreTypes, SameRoutes
<1>14. SeqsOk(w, sup.queued)
  <2>1. w.replies = core.replies /\ w.seq = core.seq
    BY <1>10 DEF Without
  <2> QED
    BY <1>1, <2>1, SeqsStay
<1>15. TimersOk(n, w)
  BY <1>13, CoreFields
<1>16. Incoming.lease \in Leases(n, k) /\ Incoming.frame \in AppFrame
  BY <1>12 DEF Incoming, Entries
<1>17. core.active \in SUBSET Lifes(n)
  BY <1>1 DEF CoreTypes
<1> QED
  BY <1>2, <1>3, <1>10, <1>13, <1>14, <1>15, <1>16, <1>17

LEMMA DropIncomingOk ==
  ASSUME NEW n \in Nat, NEW k \in Nat, SyncOk(n, k), DropIncoming
  PROVE  CoreStepOk(n, k)
<1> DEFINE w == WithoutIncoming
<1>1. Ingress
  BY DEF DropIncoming
<1>2. /\ core' = AfterFrame(w) /\ ses' = SessionAfterFrame(core, ses)
      /\ box' = Released(box, Incoming.lease)
  BY DEF DropIncoming
<1>3. /\ core.lifecycle = <<>> /\ core.action = NoAction /\ core.lease = NoLease
      /\ ses.phase # "ActionPending" /\ core.ingress # <<>>
      /\ Without(core, w) /\ TimersOk(n, w)
      /\ CoreTypes(n, k, w) /\ SeqsOk(w, sup.queued)
  BY <1>1, WithoutIncomingOk
<1>4. /\ CoreTypes(n, k, core) /\ SesOk(n, ses) /\ LeasesOk(box, core, sup.queued) /\ box.next \in Nat
  BY MainFields
<1>5. /\ CoreRecord(w) /\ SameRoutes(core, w) /\ w.ingress = Rest(core.ingress) /\ w.replies = core.replies
      /\ w.lease = core.lease /\ w.action = core.action /\ w.seq = core.seq
  BY <1>3 DEF Without
<1> HIDE DEF w
<1>6. SameQueues(w, core') /\ TimersOk(n, core')
  <2>1. RouteOf("usb", 0) \in Lifes(n)
    BY RoutesAndLeases DEF Vias
  <2> QED
    BY <1>2, <1>3, <1>5, <2>1, TimerSteps
<1>7. /\ core'.lifecycle = <<>> /\ core'.ingress = Rest(core.ingress) /\ core'.replies = core.replies
      /\ core'.lease = NoLease /\ core'.action = NoAction /\ core'.seq = w.seq /\ core'.closed = core.closed
      /\ core'.replies = w.replies
  BY <1>3, <1>5, <1>6 DEF SameQueues, SameRoutes
<1>8. CoreTypes(n, k, core') /\ SeqsOk(core', sup.queued)
  BY <1>3, <1>6, <1>7, QueuesKeepTypes, SeqsStay
<1>9. CoreMove(core, core', Incoming.lease)
  <2>1. Answering(core') = Answering(core)
    BY <1>3, <1>7 DEF Answering
  <2>2. Incoming.lease = Head(core.ingress).lease
    BY DEF Incoming
  <2> QED
    BY <1>3, <1>4, <1>7, <2>1, <2>2, ConsumedMove
<1>10. SesOk(n, ses') /\ ses'.phase # "ActionPending"
  <2>1. ses' = ses \/ ses' = PartialExpired(ses, core.partial.route)
    BY <1>2 DEF SessionAfterFrame
  <2> QED
    BY <1>3, <1>4, <2>1, PartialExpiredOk
<1>11. PendingOk(core', ses')
  BY <1>7, <1>10 DEF PendingOk
<1> QED
  BY <1>2, <1>3, <1>7, <1>8, <1>9, <1>10, <1>11, MovedOk

\* The request is answered: d is the core without it, apart from its timers.
LEMMA AnsweredStepOk ==
  ASSUME NEW n \in Nat, NEW k \in Nat, SyncOk(n, k), Ingress, box' = box,
         NEW d, SameQueues(WithoutIncoming, d), TimersOk(n, d), NEW req \in Requests, NEW reply \in Texts,
         NEW a, a = Answered(d, Incoming.lease, req, reply), SameQueues(a, core'), TimersOk(n, core'),
         SesOk(n, ses'), ses'.phase # "ActionPending"
  PROVE  CoreStepOk(n, k)
<1> DEFINE w == WithoutIncoming
           h == Incoming.lease
<1>1. /\ core.lifecycle = <<>> /\ core.action = NoAction /\ core.lease = NoLease
      /\ core.ingress # <<>> /\ ~RepliesFull(core)
      /\ Without(core, w) /\ CoreTypes(n, k, w) /\ SeqsOk(w, sup.queued)
      /\ h \in Leases(n, k)
  BY WithoutIncomingOk
<1>2. /\ CoreTypes(n, k, core) /\ LeasesOk(box, core, sup.queued) /\ box.next \in Nat
  BY MainFields
<1>3. h = Head(core.ingress).lease
  BY DEF Incoming
<1> HIDE DEF w, h
<1>4. SameQueues(w, d)
  BY DEF w
<1>5. /\ d.lifecycle = <<>> /\ d.ingress = Rest(core.ingress) /\ d.replies = core.replies
      /\ d.lease = NoLease /\ d.action = NoAction /\ d.seq = w.seq /\ d.closed = core.closed
      /\ d.replies = w.replies /\ CoreRecord(d)
  BY <1>1, <1>4 DEF SameQueues, SameRoutes, Without
<1>6. CoreTypes(n, k, d) /\ SeqsOk(d, sup.queued)
  BY <1>1, <1>4, <1>5, QueuesKeepTypes, SeqsStay
<1>7. a = Answered(d, h, req, reply)
  BY DEF h
<1>8. CoreTypes(n, k, a) /\ Appended(d, a, h) /\ SeqsOk(a, sup.queued)
  <2>1. ~RepliesFull(d)
    BY <1>1, <1>5 DEF RepliesFull
  <2> QED
    BY <1>1, <1>6, <1>7, <2>1, AnsweredOk
<1>9. /\ SameRoutes(d, a) /\ a.ingress = d.ingress /\ a.lease = d.lease /\ a.action = d.action
  BY <1>5, <1>7, AnsweredFields
<1>10. /\ core'.lifecycle = <<>> /\ core'.ingress = Rest(core.ingress) /\ core'.closed = core.closed
       /\ core'.lease = NoLease /\ core'.action = NoAction /\ core'.replies = a.replies
       /\ core'.seq = a.seq
  BY <1>5, <1>9 DEF SameQueues, SameRoutes
<1>11. CoreTypes(n, k, core') /\ SeqsOk(core', sup.queued)
  BY <1>8, <1>10, QueuesKeepTypes, SeqsStay
<1>12. CoreMove(core, core', NoLease)
  <2>1. LeasesIn(core'.replies) = LeasesIn(core.replies) \cup {h}
    BY <1>5, <1>8, <1>10 DEF Appended
  <2>2. Answering(core') = Answering(core) \cup {h}
    BY <1>1, <1>10, <2>1 DEF Answering, LeasesIn
  <2> QED
    BY <1>1, <1>2, <1>3, <1>10, <2>2, ConsumedMove
<1>13. PendingOk(core', ses')
  BY <1>10 DEF PendingOk
<1>14. box' = Released(box, NoLease)
  BY ReleasedNothing
<1> QED
  BY <1>1, <1>10, <1>11, <1>12, <1>13, <1>14, MovedOk

\* The request is given to the store.
LEMMA ActedStepOk ==
  ASSUME NEW n \in Nat, NEW k \in Nat, SyncOk(n, k), Ingress, box' = box,
         NEW d, SameQueues(WithoutIncoming, d), TimersOk(n, d), NEW x \in Jobs(n), x # NoAction,
         core' = ActionSet(d, x, Incoming.lease),
         SesOk(n, ses'), ses'.phase = "ActionPending", ses'.pending.action = x
  PROVE  CoreStepOk(n, k)
<1> DEFINE w == WithoutIncoming
           h == Incoming.lease
<1>1. /\ core.lifecycle = <<>> /\ core.action = NoAction /\ core.lease = NoLease
      /\ core.ingress # <<>>
      /\ Without(core, w) /\ CoreTypes(n, k, w) /\ SeqsOk(w, sup.queued)
      /\ h \in Leases(n, k)
  BY WithoutIncomingOk
<1>2. /\ CoreTypes(n, k, core) /\ LeasesOk(box, core, sup.queued) /\ box.next \in Nat
  BY MainFields
<1>3. h = Head(core.ingress).lease
  BY DEF Incoming
<1>a. core' = ActionSet(d, x, h)
  OBVIOUS
<1> HIDE DEF w, h
<1>4. SameQueues(w, d)
  BY DEF w
<1>5. /\ d.lifecycle = <<>> /\ d.ingress = Rest(core.ingress) /\ d.replies = core.replies
      /\ d.seq = w.seq /\ d.closed = core.closed
      /\ d.replies = w.replies /\ CoreRecord(d)
  BY <1>1, <1>4 DEF SameQueues, SameRoutes, Without
<1>6. CoreTypes(n, k, d) /\ SeqsOk(d, sup.queued)
  BY <1>1, <1>4, <1>5, QueuesKeepTypes, SeqsStay
<1>7. /\ SameRoutes(d, core') /\ core'.ingress = d.ingress /\ core'.replies = d.replies
      /\ core'.seq = d.seq /\ core'.action = x /\ core'.lease = h
  BY <1>5, <1>a, SetAction
<1>8. CoreTypes(n, k, core') /\ SeqsOk(core', sup.queued)
  BY <1>1, <1>6, <1>7, <1>a, ActionKeepsTypes, SeqsStay
<1>9. /\ core'.lifecycle = <<>> /\ core'.ingress = Rest(core.ingress) /\ core'.closed = core.closed
      /\ core'.replies = core.replies
  BY <1>5, <1>7 DEF SameRoutes
<1>10. CoreMove(core, core', NoLease)
  <2>1. /\ h \in Answering(core') /\ Answering(core') \subseteq Answering(core) \cup {h}
        /\ Answering(core) \subseteq Answering(core') \cup {NoLease}
    BY <1>1, <1>7, <1>9 DEF Answering
  <2> QED
    BY <1>1, <1>2, <1>3, <1>9, <2>1, ConsumedMove
<1>11. PendingOk(core', ses')
  BY <1>7 DEF PendingOk
<1>12. box' = Released(box, NoLease)
  BY ReleasedNothing
<1> QED
  BY <1>1, <1>8, <1>9, <1>10, <1>11, <1>12, MovedOk

LEMMA FrameAsked ==
  ASSUME NEW f \in AppFrame
  PROVE  ReqOf(f) \in Requests
<1>1. f.op \in Ops \cup Immediate \cup {"Bad"} /\ f.rid \in Nat /\ f.cookie \in Nat
  BY FrameFields
<1> QED
  BY <1>1 DEF ReqOf, Requests

LEMMA UsableOk ==
  ASSUME NEW n \in Nat, NEW k \in Nat, SyncOk(n, k), Usable
  PROVE  /\ Ingress /\ Incoming.frame \in AppFrame /\ Incoming.lease.route \in Lifes(n)
         /\ Incoming.frame.op # "Bad" /\ ses.phase # "ActionPending" /\ SesOk(n, ses)
         /\ CoreRecord(WithoutIncoming) /\ TimersOk(n, WithoutIncoming)
<1>1. Ingress /\ Incoming.lease.route \in core.active /\ Incoming.frame.op # "Bad"
  BY DEF Usable
<1>2. /\ Incoming.frame \in AppFrame /\ Incoming.lease.route \in Lifes(n)
      /\ ses.phase # "ActionPending" /\ Without(core, WithoutIncoming) /\ TimersOk(n, WithoutIncoming)
  BY <1>1, WithoutIncomingOk
<1>3. CoreRecord(WithoutIncoming)
  BY <1>2 DEF Without
<1> QED
  BY <1>1, <1>2, <1>3, MainFields

LEMMA AnswerPausedOk ==
  ASSUME NEW n \in Nat, NEW k \in Nat, SyncOk(n, k), AnswerPaused
  PROVE  CoreStepOk(n, k)
<1> DEFINE f == Incoming.frame
           r == Incoming.lease.route
           w == WithoutIncoming
           c == OwnerRefreshed(w, ses, r, f.cookie)
           d == IF c.partial.route = r THEN PartialSet(c, Fresh(r)) ELSE c
           reply == Status("Paused", f.cookie)
           a == Answered(d, Incoming.lease, ReqOf(f), reply)
<1>1. Usable /\ box' = box /\ core' = AfterFrame(a) /\ ses' = SessionAfterFrame(d, ses)
  BY DEF AnswerPaused, PartialSet
<1>2. /\ Ingress /\ f \in AppFrame /\ r \in Lifes(n)
      /\ ses.phase # "ActionPending" /\ SesOk(n, ses) /\ CoreRecord(w) /\ TimersOk(n, w)
  BY <1>1, UsableOk
<1>3. ReqOf(f) \in Requests /\ reply \in Texts /\ Fresh(r) \in Timers(n)
  <2>1. f.cookie \in Nat
    BY <1>2, FrameFields
  <2> QED
    BY <1>2, <2>1, FrameAsked, StatusIsText, TimersAreTyped
<1> HIDE DEF w
<1>4. SameQueues(w, c) /\ TimersOk(n, c) /\ CoreRecord(c)
  <2>1. SameQueues(w, c) /\ TimersOk(n, c)
    BY <1>2, TimerSteps
  <2> QED
    BY <2>1 DEF SameQueues
<1> HIDE DEF c
<1>5. SameQueues(c, d) /\ TimersOk(n, d)
  BY <1>3, <1>4, SetTimers
<1> HIDE DEF d
<1>6. SameQueues(w, d) /\ CoreRecord(d)
  <2>1. SameQueues(w, d)
    BY <1>4, <1>5, QueuesCompose
  <2> QED
    BY <2>1 DEF SameQueues
<1> HIDE DEF reply
<1>7. CoreRecord(a) /\ TimersOk(n, a)
  <2>1. CoreRecord(a) /\ a.partial = d.partial /\ a.owner = d.owner
    BY <1>6, AnsweredFields
  <2> QED
    BY <1>5, <2>1 DEF TimersOk
<1> HIDE DEF a
<1>8. SameQueues(a, core') /\ TimersOk(n, core')
  BY <1>1, <1>2, <1>7, TimerSteps
<1>9. SesOk(n, ses') /\ ses'.phase # "ActionPending"
  <2>1. ses' = ses \/ ses' = PartialExpired(ses, d.partial.route)
    BY <1>1 DEF SessionAfterFrame
  <2> QED
    BY <1>2, <2>1, PartialExpiredOk
<1>10. SameQueues(WithoutIncoming, d) /\ a = Answered(d, Incoming.lease, ReqOf(f), reply)
  BY <1>6 DEF w, a
<1> HIDE DEF f
<1> QED
  BY <1>1, <1>2, <1>3, <1>5, <1>8, <1>9, <1>10, AnsweredStepOk

\* What a frame was consumed to is a reply or an action of this frame.
LEMMA EmissionFields ==
  ASSUME NEW n \in Nat, NEW r \in Lifes(n), NEW f \in AppFrame, NEW e, EmissionOk(n, r, f, e)
  PROVE  /\ SesOk(n, e.ses) /\ e.kind \in {"Reply", "Action"}
         /\ e.kind = "Reply" => e.reply \in Texts /\ e.ses.phase # "ActionPending"
         /\ e.kind = "Action" =>
              /\ e.ses.phase = "ActionPending" /\ e.ses.pending.action = ActionOf(r, f)
              /\ f.op \in Ops
              /\ ActionOf(r, f) \in Jobs(n) /\ ActionOf(r, f) # NoAction
<1>1. ASSUME f.op \in Ops PROVE ActionOf(r, f) \in Jobs(n) /\ ActionOf(r, f) # NoAction
  <2>1. f.rid \in Nat /\ f.cookie \in Nat /\ f.op # "None"
    BY FrameFields
  <2> QED
    BY <1>1, <2>1 DEF ActionOf, Jobs, NoAction
<1> QED
  BY <1>1 DEF EmissionOk
-----------------------------------------------------------------------------
(* What the store is given, what it has done, and what is answered. *)

\* The operations of an open session: they carry its cookie.
Carrying == BoundOps \cup {"Data"}
Formed(x) == x.op \in Carrying \/ x.cookie = 0
SameRequest(x, y) == x.op = y.op /\ x.rid = y.rid /\ x.cookie = y.cookie
\* The App asks for one thing after the other: y is the request of x or a later one.
NotAfter(x, y) == x.rid < y.rid \/ SameRequest(x, y)

FramesIn(s) == {s[i].frame : i \in DOMAIN s}
Sorted(s) == \A i, j \in DOMAIN s : i < j => NotAfter(s[i].frame, s[j].frame)
Done(n) == [route : Lifes(n), op : Ops, rid : Nat, cookie : Nat]
Given(c) == IF c.action = NoAction THEN {} ELSE {c.action}

\* Requests are processed in the order the App made them; x are the frames in the mailbox,
\* q is the App's current request.
Ordered(n, x, c, done, q) ==
  /\ done \cup Given(c) \subseteq Done(n) /\ q.rid \in Nat
  /\ x \cup FramesIn(c.ingress) \subseteq AppFrame
  /\ Sorted(c.ingress)
  /\ \A f \in FramesIn(c.ingress), g \in x : NotAfter(f, g)
  /\ \A f \in FramesIn(c.ingress) \cup x : NotAfter(f, q) /\ Formed(f)
  /\ \A d \in done \cup Given(c) :
       /\ NotAfter(d, q) /\ Formed(d)
       /\ \A f \in FramesIn(c.ingress) \cup x : NotAfter(d, f)
       /\ \A a \in Given(c) : NotAfter(d, a)
  /\ Formed(q)

\* Answers belong to active routes and report what was done.
Earned(a, done) == a.reply.status = "Ok" /\ a.req.op \in Ops => ActionOf(a.lease.route, a.req) \in done
RepliesOk(c, done) ==
  \A i \in DOMAIN c.replies : c.replies[i].lease.route \in c.active /\ Earned(c.replies[i], done)

\* So do the answers that are remembered.
EntryTrue(e, done) == e.action # NoAction /\ e.reply.status = "Ok" => e.action \in done
RecallOk(s, done) == \A i \in 1..ReplaySlots : EntryTrue(s.replay[i], done)

\* The store works on the pending action, whose route is active unless it is orphaned.
BorrowedOf(s, a) ==
  IF a.op = "Data" THEN <<s.unit>> ELSE IF a.op \in PlanOps THEN <<s.decoded>> ELSE NoBytes
JobOk(c, s, e) ==
  /\ e.stage # "none" => e.action = c.action /\ c.action # NoAction
  /\ e.stage \in {"ok", "other"} => e.action \in e.done
  /\ e.stage = "running" => e.bytes = BorrowedOf(s, e.action)
  /\ c.action # NoAction =>
       /\ c.lease.route = c.action.route
       /\ s.pending.orphaned \/ c.action.route \in c.active

\* Cookies are handed out once.
CookiesOk(c, s, done) ==
  /\ s.nextCookie \in Nat \ {0} /\ \A d \in done \cup Given(c) : d.cookie < s.nextCookie
  /\ s.route # NoRoute => s.cookie \in Nat \ {0} /\ s.cookie < s.nextCookie

\* What was done for the open session is remembered, or no frame can ask for it any more.
OfSession(s, d) == d.op \in Carrying /\ d.cookie = s.cookie
Remembers(s, d) == \E i \in 1..ReplaySlots : s.replay[i].action = d
Past(d, x, q) == d.rid < q.rid /\ \A f \in x : d.rid < f.rid
OnceOk(x, c, s, e, q) ==
  /\ s.route # NoRoute =>
       \A d \in e.done \ Given(c) : OfSession(s, d) =>
         /\ d.route = s.route /\ \A a \in Given(c) : d.rid < a.rid
         /\ Remembers(s, d) \/ Past(d, x \cup FramesIn(c.ingress), q)
  /\ e.stage \in {"none", "running", "fail"} =>
       \A a \in Given(c) : a.cookie # 0 => \A d \in e.done : ~SameRequest(a, d)

StoryOk(n, x, c, s, e, q) ==
  /\ Ordered(n, x, c, e.done, q)
  /\ RepliesOk(c, e.done) /\ RecallOk(s, e.done) /\ JobOk(c, s, e)
  /\ CookiesOk(c, s, e.done) /\ OnceOk(x, c, s, e, q)

-----------------------------------------------------------------------------
(* What the session makes of a frame. *)

\* The session stays with its App, and nothing is forgotten.
SameBinding(s, t) ==
  /\ t.replay = s.replay /\ t.route = s.route /\ t.cookie = s.cookie
  /\ t.nextCookie = s.nextCookie

\* A success is answered from memory; an action of a session is its own and new.
Emitted(s, r, f, e) ==
  /\ SameBinding(s, e.ses)
  /\ e.kind = "Reply" /\ e.reply.status = "Ok" /\ f.op \in Ops =>
       \E i \in 1..ReplaySlots : s.replay[i].action = ActionOf(r, f) /\ s.replay[i].reply = e.reply
  /\ e.kind = "Action" =>
       /\ ~e.ses.pending.orphaned
       /\ f.op \in Carrying => s.route = r /\ s.cookie = f.cookie /\ Seen(s, r, f) = {}

LEMMA SameEmission ==
  ASSUME NEW s, NEW t, SameBinding(s, t), NEW r, NEW f, NEW e, Emitted(t, r, f, e)
  PROVE  Emitted(s, r, f, e)
<1>1. Seen(s, r, f) = Seen(t, r, f)
  BY DEF SameBinding, Seen
<1> QED
  BY <1>1 DEF SameBinding, Emitted

LEMMA ReplyEmits ==
  ASSUME NEW s, NEW t, SameBinding(s, t), NEW x, x.status # "Ok", NEW moved, NEW r, NEW f,
         NEW e, e = Reply(t, x, moved)
  PROVE  Emitted(s, r, f, e)
<1>1. e.ses = t /\ e.kind = "Reply" /\ e.reply = x
  BY DEF Reply
<1> QED
  BY <1>1 DEF Emitted

LEMMA RefuseEmits ==
  ASSUME NEW s, NEW st, st # "Ok", NEW r, NEW f, NEW e, e = Refuse(s, st, f)
  PROVE  Emitted(s, r, f, e)
<1>1. SameBinding(s, s)
  BY DEF SameBinding
<1>2. Status(st, f.cookie).status # "Ok"
  BY DEF Status
<1> QED
  BY <1>1, <1>2, ReplyEmits DEF Refuse

\* A pending action begins with the route that asked for it.
LEMMA ActFields ==
  ASSUME NEW s, SesRecord(s), NEW r, NEW f, NEW moved, NEW t, t = Act(s, r, f, moved).ses
  PROVE  SameBinding(s, t) /\ ~t.pending.orphaned /\ SesRecord(t)
<1> DEFINE p == [action |-> ActionOf(r, f), orphaned |-> FALSE]
<1>1. t = [s EXCEPT !.phase = "ActionPending", !.pending = p]
  BY DEF Act, ActionOf
<1>2. ~p.orphaned
  OBVIOUS
<1> HIDE DEF p
<1>3. /\ SesRecord(t) /\ t.pending = p /\ t.route = s.route
      /\ t.cookie = s.cookie /\ t.nextCookie = s.nextCookie /\ t.replay = s.replay
  BY <1>1 DEF SesRecord
<1> QED
  BY <1>2, <1>3 DEF SameBinding

\* An entry of the memory is the one for this request.
LEMMA ExactEntry ==
  ASSUME NEW n \in Nat, NEW s, SesTypes(n, s), NEW r, NEW f, NEW i \in Exact(s, r, f)
  PROVE  i \in 1..ReplaySlots /\ s.replay[i].action = ActionOf(r, f)
<1>1. /\ i \in 1..ReplaySlots /\ s.replay[i].action.route = r /\ s.replay[i].action.rid = f.rid
      /\ s.replay[i].action.cookie = f.cookie /\ s.replay[i].action.op = f.op
  BY DEF Exact, Seen
<1>2. s.replay[i].action \in Actions(n)
  BY <1>1 DEF SesTypes, MemoryOk
<1> QED
  BY <1>1, <1>2 DEF Actions, ActionOf

\* What is decided for a complete request.
LEMMA DecideEmits ==
  ASSUME NEW n \in Nat, NEW s, SesTypes(n, s), NEW r, NEW f, NEW after, SameBinding(s, after),
         NEW refuse, NEW moved, f.op \in Carrying /\ ~refuse => s.route = r /\ s.cookie = f.cookie,
         NEW e, e = Decide(s, r, f, after, refuse, moved)
  PROVE  Emitted(s, r, f, e) /\ (e.kind = "Action" => e = Act(s, r, f, moved))
<1>1. CASE Lookup(s, r, f) = "Exact"
  <2>1. Exact(s, r, f) # {}
    BY <1>1 DEF Lookup
  <2>2. PICK i \in Exact(s, r, f) : Remembered(s, r, f) = s.replay[i].reply
    BY <2>1 DEF Remembered
  <2>3. i \in 1..ReplaySlots /\ s.replay[i].action = ActionOf(r, f)
    BY <2>2, ExactEntry
  <2>4. e = Reply(after, Remembered(s, r, f), moved)
    BY <1>1 DEF Decide
  <2>5. e.ses = after /\ e.kind = "Reply" /\ e.reply = s.replay[i].reply
    BY <2>2, <2>4 DEF Reply
  <2> QED
    BY <2>3, <2>5 DEF Emitted
<1>2. CASE Lookup(s, r, f) = "Conflict" \/ (Lookup(s, r, f) = "Miss" /\ refuse)
  <2>1. e = Reply(after, Status("Refused", f.cookie), moved)
    BY <1>2 DEF Decide
  <2>2. Status("Refused", f.cookie).status # "Ok" /\ e.kind = "Reply"
    BY <2>1 DEF Status, Reply
  <2> QED
    BY <2>1, <2>2, ReplyEmits
<1>3. CASE Lookup(s, r, f) = "Miss" /\ ~refuse
  <2>1. e = Act(s, r, f, moved)
    BY <1>3 DEF Decide
  <2>2. Seen(s, r, f) = {}
    BY <1>3 DEF Lookup
  <2>3. SameBinding(s, e.ses) /\ ~e.ses.pending.orphaned
    BY <2>1, ActFields DEF SesTypes
  <2>4. e.kind = "Action"
    BY <2>1 DEF Act
  <2> QED
    BY <1>3, <2>1, <2>2, <2>3, <2>4 DEF Emitted
<1> QED
  BY <1>1, <1>2, <1>3 DEF Lookup

LEMMA PlanDroppedBinding ==
  ASSUME NEW s, SesRecord(s), NEW t, t = PlanDropped(s)
  PROVE  SameBinding(s, t) /\ t.pending = s.pending
<1>1. t = [s EXCEPT !.plan = NoPlan, !.phase = IF s.plan.fromReady /\ Bound(s) THEN "Ready" ELSE "Idle"]
  BY DEF PlanDropped
<1> QED
  BY <1>1 DEF SesRecord, SameBinding

\* A partial that is given up takes nothing else with it.
LEMMA PartialExpiredBinding ==
  ASSUME NEW s, SesRecord(s), NEW r, NEW t, t = PartialExpired(s, r)
  PROVE  /\ SameBinding(s, t) /\ t.pending = s.pending
         /\ s.phase = "ActionPending" => t = s
<1>1. CASE t = s
  BY <1>1 DEF SameBinding
<1>2. CASE t = PlanDropped(s) /\ s.phase = "BeginAssembly"
  BY <1>2, PlanDroppedBinding
<1>3. CASE t = [s EXCEPT !.unit = NoUnit, !.phase = "Ready"] /\ s.phase = "UnitAssembly"
  BY <1>3 DEF SameBinding, SesRecord
<1> QED
  BY <1>1, <1>2, <1>3 DEF PartialExpired, PartialOf

LEMMA PlanEmits ==
  ASSUME NEW n \in Nat, NEW s, SesOk(n, s), NEW r \in Lifes(n), NEW f \in AppFrame, f.op \in PlanOps,
         NEW e, e = ConsumePlan(s, r, f)
  PROVE  Emitted(s, r, f, e)
<1> DEFINE p == IF s.phase = "BeginAssembly" THEN s.plan
                ELSE [route |-> r, rid |-> f.rid, op |-> f.op, parts |-> {},
                      fromReady |-> s.phase = "Ready"]
           q == [p EXCEPT !.parts = @ \cup {f.part}]
           t == [s EXCEPT !.phase = "BeginAssembly", !.plan = q]
           moved == f.part \notin p.parts
           whole == [t EXCEPT !.decoded = f.rid]
           after == PlanDropped(whole)
           d == Decide(whole, r, f, after, p.fromReady, moved)
<1>1. \/ \E st \in {"Busy", "Refused"} : e = Refuse(s, st, f)
      \/ e = Reply(t, Status("Part", 0), moved)
      \/ e = (IF d.kind = "Action" THEN [d EXCEPT !.ses.plan = NoPlan] ELSE d)
  BY DEF ConsumePlan
<1>2. SesRecord(s) /\ SesTypes(n, s)
  BY DEF SesOk, SesTypes
<1>3. p \in Plans(n)
  <2>1. CASE s.phase = "BeginAssembly"
    BY <1>2, <2>1 DEF SesTypes
  <2>2. CASE s.phase # "BeginAssembly"
    <3>1. r \in Routes(n) /\ f.op \in Ops
      BY RoutesAndLeases DEF Ops
    <3> QED
      BY <2>2, <3>1, FrameFields DEF Plans
  <2> QED
    BY <2>1, <2>2
<1>4. q \in Plans(n)
  BY <1>3, FrameFields DEF Plans
<1>5. t = [s EXCEPT !.phase = "BeginAssembly", !.plan = q]
  OBVIOUS
<1> HIDE DEF p, q, moved, t
<1>6. /\ SesRecord(t) /\ t.phase = "BeginAssembly" /\ t.pending = s.pending /\ t.route = s.route
      /\ t.plan = q /\ t.cookie = s.cookie /\ t.nextCookie = s.nextCookie /\ t.replay = s.replay
      /\ t.slot = s.slot
  BY <1>2, <1>5 DEF SesRecord
<1>7. SesTypes(n, t) /\ SameBinding(s, t)
  BY <1>2, <1>4, <1>6 DEF SesTypes, SameBinding
<1>8. /\ SesRecord(whole) /\ whole.phase = t.phase /\ whole.pending = t.pending
      /\ whole.route = t.route /\ whole.plan = t.plan /\ whole.cookie = t.cookie
      /\ whole.nextCookie = t.nextCookie /\ whole.replay = t.replay /\ whole.slot = t.slot
  BY <1>6 DEF SesRecord
<1>9. SesTypes(n, whole) /\ SameBinding(s, whole)
  BY <1>7, <1>8 DEF SesTypes, SameBinding
<1>10. after = PlanDropped(whole) /\ d = Decide(whole, r, f, after, p.fromReady, moved)
  OBVIOUS
<1> HIDE DEF whole, after, d
<1>11. SameBinding(whole, after)
  BY <1>8, <1>10, PlanDroppedBinding
<1>12. f.op \notin Carrying
  BY DEF PlanOps, Carrying, BoundOps
<1>13. Emitted(whole, r, f, d) /\ (d.kind = "Action" => d = Act(whole, r, f, moved))
  <2> DEFINE fr == p.fromReady
  <2>1. d = Decide(whole, r, f, after, fr, moved)
    BY <1>10
  <2> HIDE DEF fr
  <2> QED
    BY <1>9, <1>11, <1>12, <2>1, DecideEmits
<1>14. CASE \E st \in {"Busy", "Refused"} : e = Refuse(s, st, f)
  BY <1>14, RefuseEmits
<1>15. CASE e = Reply(t, Status("Part", 0), moved)
  <2>1. Status("Part", 0).status # "Ok"
    BY DEF Status
  <2> QED
    BY <1>7, <1>15, <2>1, ReplyEmits
<1>16. CASE e = d
  BY <1>9, <1>13, <1>16, SameEmission
<1>17. CASE d.kind = "Action" /\ e = [d EXCEPT !.ses.plan = NoPlan]
  <2> DEFINE u == Act(whole, r, f, moved).ses
  <2>1. d = [ses |-> u, kind |-> "Action", reply |-> Status("None", 0), moved |-> moved]
    BY <1>13, <1>17 DEF Act
  <2>2. SameBinding(whole, u) /\ ~u.pending.orphaned /\ SesRecord(u)
    BY <1>8, ActFields
  <2> HIDE DEF u
  <2>3. e.ses = [u EXCEPT !.plan = NoPlan] /\ e.kind = "Action"
    BY <1>17, <2>1
  <2>4. SameBinding(u, e.ses) /\ e.ses.pending = u.pending
    BY <2>2, <2>3 DEF SesRecord, SameBinding
  <2> QED
    BY <1>9, <1>12, <2>2, <2>3, <2>4 DEF Emitted, SameBinding
<1> QED
  BY <1>1, <1>14, <1>15, <1>16, <1>17

LEMMA DataEmits ==
  ASSUME NEW n \in Nat, NEW s, SesOk(n, s), NEW r \in Lifes(n), NEW f \in AppFrame, f.op = "Data",
         NEW e, e = ConsumeData(s, r, f)
  PROVE  Emitted(s, r, f, e)
<1> DEFINE u == IF s.phase = "Ready" THEN [rid |-> f.rid, parts |-> {}] ELSE s.unit
           v == [u EXCEPT !.parts = @ \cup {f.part}]
           t == [s EXCEPT !.phase = "UnitAssembly", !.unit = v]
           moved == f.part \notin u.parts
           done == [t EXCEPT !.unit = NoUnit, !.phase = "Ready"]
<1>1. \/ e = Refuse(s, "Refused", f) \/ e = Refuse(s, "Busy", f)
      \/ /\ s.route = r /\ s.cookie = f.cookie
         /\ e = Reply(t, Status("Part", f.cookie), moved) \/ e = Decide(t, r, f, done, FALSE, moved)
  BY DEF ConsumeData
<1>2. SesRecord(s) /\ SesTypes(n, s)
  BY DEF SesOk, SesTypes
<1>3. t = [s EXCEPT !.phase = "UnitAssembly", !.unit = v]
      /\ done = [t EXCEPT !.unit = NoUnit, !.phase = "Ready"]
  OBVIOUS
<1> HIDE DEF u, v, moved, t, done
<1>4. /\ SesRecord(t) /\ t.phase = "UnitAssembly"
      /\ t.pending = s.pending /\ t.route = s.route /\ t.plan = s.plan
      /\ t.cookie = s.cookie /\ t.nextCookie = s.nextCookie /\ t.replay = s.replay /\ t.slot = s.slot
  BY <1>2, <1>3 DEF SesRecord
<1>5. SesTypes(n, t) /\ SameBinding(s, t)
  BY <1>2, <1>4 DEF SesTypes, SameBinding
<1>6. SameBinding(t, done)
  BY <1>3, <1>4 DEF SesRecord, SameBinding
<1>7. CASE e = Refuse(s, "Refused", f) \/ e = Refuse(s, "Busy", f)
  BY <1>7, RefuseEmits
<1>8. CASE e = Reply(t, Status("Part", f.cookie), moved)
  <2>1. Status("Part", f.cookie).status # "Ok"
    BY DEF Status
  <2> QED
    BY <1>5, <1>8, <2>1, ReplyEmits
<1>9. CASE s.route = r /\ s.cookie = f.cookie /\ e = Decide(t, r, f, done, FALSE, moved)
  <2>1. Emitted(t, r, f, e)
    BY <1>4, <1>5, <1>6, <1>9, DecideEmits
  <2> QED
    BY <1>5, <2>1, SameEmission
<1> QED
  BY <1>1, <1>7, <1>8, <1>9

LEMMA OneEmits ==
  ASSUME NEW n \in Nat, NEW s, SesOk(n, s), NEW r \in Lifes(n), NEW f \in AppFrame,
         NEW e, \/ f.op \in BoundOps /\ e = ConsumeBound(s, r, f)
                \/ f.op \in OpenOps /\ e = ConsumeOpen(s, r, f)
  PROVE  Emitted(s, r, f, e)
<1> DEFINE mine == s.phase = "Ready" /\ s.route = r /\ s.cookie = f.cookie
<1>1. SesTypes(n, s) /\ SameBinding(s, s)
  BY DEF SesOk, SameBinding
<1>2. CASE f.op \in BoundOps /\ e = ConsumeBound(s, r, f)
  <2>1. e = Decide(s, r, f, s, ~mine, FALSE)
    BY <1>2 DEF ConsumeBound
  <2>2. f.op \in Carrying /\ mine => s.route = r /\ s.cookie = f.cookie
    OBVIOUS
  <2> HIDE DEF mine
  <2> QED
    BY <1>1, <2>1, <2>2, DecideEmits
<1>3. CASE f.op \in OpenOps /\ e = ConsumeOpen(s, r, f)
  <2>1. e = Refuse(s, "Busy", f) \/ e = Decide(s, r, f, s, FALSE, FALSE)
    BY <1>3 DEF ConsumeOpen
  <2>2. f.op \notin Carrying
    BY <1>3 DEF OpenOps, Carrying, BoundOps
  <2> QED
    BY <1>1, <2>1, <2>2, DecideEmits, RefuseEmits
<1> QED
  BY <1>2, <1>3

LEMMA ConsumeEmits ==
  ASSUME NEW n \in Nat, NEW s, SesOk(n, s), s.phase # "ActionPending",
         NEW r \in Lifes(n), NEW f \in AppFrame, f.op # "Bad", NEW e, e = Consume(s, r, f)
  PROVE  Emitted(s, r, f, e)
<1>1. CASE f.op \in Immediate
  <2>1. e.ses = s /\ e.kind = "Reply"
    BY <1>1 DEF Consume, Reply
  <2>2. f.op \notin Ops
    BY <1>1 DEF Immediate, Ops, PlanOps, OpenOps, BoundOps
  <2> QED
    BY <2>1, <2>2 DEF Emitted, SameBinding
<1>2. CASE f.op \in PlanOps
  <2>1. e = ConsumePlan(s, r, f)
    BY <1>2 DEF Consume, Immediate, PlanOps, BoundOps, OpenOps
  <2> QED
    BY <1>2, <2>1, PlanEmits
<1>3. CASE f.op = "Data"
  <2>1. e = ConsumeData(s, r, f)
    BY <1>3 DEF Consume, Immediate, PlanOps, BoundOps, OpenOps
  <2> QED
    BY <1>3, <2>1, DataEmits
<1>4. CASE f.op \in BoundOps
  <2>1. e = ConsumeBound(s, r, f)
    BY <1>4 DEF Consume, Immediate, PlanOps, BoundOps, OpenOps
  <2> QED
    BY <1>4, <2>1, OneEmits
<1>5. CASE f.op \in OpenOps
  <2>1. e = ConsumeOpen(s, r, f)
    BY <1>5 DEF Consume, Immediate, PlanOps, BoundOps, OpenOps
  <2> QED
    BY <1>5, <2>1, OneEmits
<1> QED
  BY <1>1, <1>2, <1>3, <1>4, <1>5, FrameFields DEF Ops

\* The frame taken from ingress became a reply or an action: d is the core without it, e what
\* the session emitted.
LEMMA ConsumedFrame ==
  ASSUME NEW n \in Nat, NEW k \in Nat, SyncOk(n, k), ConsumeFrame
  PROVE  \E d, e :
           /\ SameQueues(WithoutIncoming, d) /\ TimersOk(n, d)
           /\ EmissionOk(n, Incoming.lease.route, Incoming.frame, e)
           /\ Emitted(ses, Incoming.lease.route, Incoming.frame, e) /\ ses' = e.ses
           /\ core' = IF e.kind = "Reply"
                      THEN Answered(d, Incoming.lease, ReqOf(Incoming.frame), e.reply)
                      ELSE ActionSet(d, e.ses.pending.action, Incoming.lease)
<1> DEFINE f == Incoming.frame
           r == Incoming.lease.route
           w == WithoutIncoming
           c == OwnerRefreshed(w, ses, r, f.cookie)
           one == Consume(ses, r, f)
           c0 == OwnerOfBound(c, one.ses)
           c1 == PartialUpdated(c0, one.ses, r, one.moved)
           expires == ~one.moved /\ PartialDue(c1)
           again == expires /\ PartialOf(one.ses, c1.partial.route)
           x == PartialExpired(one.ses, c1.partial.route)
           two == Consume(x, r, f)
           last == IF again THEN two ELSE one
           c2 == IF expires THEN PartialSet(c1, NoTimer) ELSE c1
           c3 == IF again THEN PartialUpdated(c2, two.ses, r, two.moved) ELSE c2
<1>1. /\ Usable /\ box' = box /\ ses' = last.ses
      /\ core' = IF last.kind = "Reply" THEN Answered(c3, Incoming.lease, ReqOf(f), last.reply)
                 ELSE ActionSet(c3, last.ses.pending.action, Incoming.lease)
  BY DEF ConsumeFrame, PartialSet, ActionSet
<1>2. /\ Ingress /\ f \in AppFrame /\ r \in Lifes(n) /\ f.op # "Bad"
      /\ ses.phase # "ActionPending" /\ SesOk(n, ses) /\ CoreRecord(w) /\ TimersOk(n, w)
  BY <1>1, UsableOk
<1>a. f = Incoming.frame /\ r = Incoming.lease.route /\ w = WithoutIncoming
  OBVIOUS
<1> HIDE DEF f, r, w
<1>3. EmissionOk(n, r, f, one) /\ Emitted(ses, r, f, one)
  BY <1>2, ConsumeOk, ConsumeEmits
<1>4. again => EmissionOk(n, r, f, two) /\ Emitted(ses, r, f, two)
  <2> SUFFICES ASSUME again PROVE EmissionOk(n, r, f, two) /\ Emitted(ses, r, f, two)
    OBVIOUS
  <2> HIDE DEF one
  <2>1. SesOk(n, one.ses)
    BY <1>3 DEF EmissionOk
  <2>2. one.ses.phase # "ActionPending"
    BY DEF PartialOf
  <2> DEFINE p == c1.partial.route
  <2> HIDE DEF p
  <2>3. x = PartialExpired(one.ses, p)
    BY DEF p
  <2> HIDE DEF x
  <2>4. SesOk(n, x) /\ x.phase # "ActionPending"
    BY <2>1, <2>2, <2>3, PartialExpiredOk
  <2>5. SameBinding(one.ses, x)
    BY <2>1, <2>3, PartialExpiredBinding DEF SesOk, SesTypes
  <2>6. SameBinding(ses, x)
    BY <1>3, <2>5 DEF Emitted, SameBinding
  <2>7. EmissionOk(n, r, f, two) /\ Emitted(x, r, f, two)
    BY <1>2, <2>4, ConsumeOk, ConsumeEmits
  <2> QED
    BY <2>6, <2>7, SameEmission
<1> HIDE DEF one, x, two
<1>5. EmissionOk(n, r, f, last) /\ Emitted(ses, r, f, last)
  BY <1>3, <1>4
<1>6. SameQueues(w, c) /\ TimersOk(n, c) /\ CoreRecord(c)
  <2>1. SameQueues(w, c) /\ TimersOk(n, c)
    BY <1>2, TimerSteps
  <2> QED
    BY <2>1 DEF SameQueues
<1> HIDE DEF c
<1>7. SameQueues(c, c0) /\ TimersOk(n, c0) /\ CoreRecord(c0)
  <2>1. SameQueues(c, c0) /\ TimersOk(n, c0)
    BY <1>2, <1>6, TimerSteps
  <2> QED
    BY <2>1 DEF SameQueues
<1> HIDE DEF c0
<1>8. SameQueues(c0, c1) /\ TimersOk(n, c1) /\ CoreRecord(c1)
  <2>1. SameQueues(c0, c1) /\ TimersOk(n, c1)
    BY <1>2, <1>7, TimerSteps
  <2> QED
    BY <2>1 DEF SameQueues
<1> HIDE DEF c1
<1> HIDE DEF expires
<1>9. SameQueues(c1, c2) /\ TimersOk(n, c2) /\ CoreRecord(c2)
  <2>1. SameQueues(c1, PartialSet(c1, NoTimer)) /\ TimersOk(n, PartialSet(c1, NoTimer)) /\ SameQueues(c1, c1)
    BY <1>8, SetTimers, TimersAreTyped
  <2>2. SameQueues(c1, c2) /\ TimersOk(n, c2)
    BY <1>8, <2>1
  <2> QED
    BY <2>2 DEF SameQueues
<1> HIDE DEF c2, again
<1>10. SameQueues(c2, c3) /\ TimersOk(n, c3)
  <2>1. SameQueues(c2, PartialUpdated(c2, two.ses, r, two.moved))
        /\ TimersOk(n, PartialUpdated(c2, two.ses, r, two.moved))
    BY <1>2, <1>9, TimerSteps
  <2>2. SameQueues(c2, c2)
    BY <1>9 DEF SameQueues
  <2> QED
    BY <1>9, <2>1, <2>2
<1>11. SameQueues(w, c3) /\ CoreRecord(c3)
  <2>1. SameQueues(w, c3)
    BY <1>6, <1>7, <1>8, <1>9, <1>10, QueuesCompose
  <2> QED
    BY <2>1 DEF SameQueues
<1> HIDE DEF c3, last
<1> QED
  BY <1>1, <1>5, <1>10, <1>11, <1>a

LEMMA ConsumeFrameOk ==
  ASSUME NEW n \in Nat, NEW k \in Nat, SyncOk(n, k), ConsumeFrame
  PROVE  CoreStepOk(n, k)
<1> DEFINE f == Incoming.frame
           r == Incoming.lease.route
<1>1. PICK d, e :
        /\ SameQueues(WithoutIncoming, d) /\ TimersOk(n, d) /\ EmissionOk(n, r, f, e) /\ ses' = e.ses
        /\ core' = IF e.kind = "Reply" THEN Answered(d, Incoming.lease, ReqOf(f), e.reply)
                   ELSE ActionSet(d, e.ses.pending.action, Incoming.lease)
  BY ConsumedFrame
<1>2. Usable /\ box' = box
  BY DEF ConsumeFrame
<1>3. Ingress /\ f \in AppFrame /\ r \in Lifes(n)
  BY <1>2, UsableOk
<1> HIDE DEF f, r
<1>4. /\ SesOk(n, ses') /\ e.kind \in {"Reply", "Action"}
      /\ e.kind = "Reply" => e.reply \in Texts /\ ses'.phase # "ActionPending"
      /\ e.kind = "Action" =>
           /\ ses'.phase = "ActionPending" /\ ses'.pending.action = ActionOf(r, f)
           /\ ActionOf(r, f) \in Jobs(n) /\ ActionOf(r, f) # NoAction
  BY <1>1, <1>3, EmissionFields
<1>5. CASE e.kind = "Reply"
  <2> DEFINE a == Answered(d, Incoming.lease, ReqOf(f), e.reply)
  <2>1. core' = a /\ ReqOf(f) \in Requests
    BY <1>1, <1>3, <1>5, FrameAsked
  <2>2. CoreRecord(a) /\ TimersOk(n, a)
    <3>1. CoreRecord(d)
      BY <1>1 DEF SameQueues
    <3>2. CoreRecord(a) /\ a.partial = d.partial /\ a.owner = d.owner
      BY <3>1, AnsweredFields
    <3> QED
      BY <1>1, <3>2 DEF TimersOk
  <2> HIDE DEF a
  <2>3. a = Answered(d, Incoming.lease, ReqOf(f), e.reply)
    BY DEF a
  <2>4. SameQueues(a, core') /\ TimersOk(n, core')
    BY <2>1, <2>2 DEF SameQueues
  <2> QED
    BY <1>1, <1>2, <1>3, <1>4, <1>5, <2>1, <2>3, <2>4, AnsweredStepOk
<1>6. CASE e.kind = "Action"
  <2>1. core' = ActionSet(d, ActionOf(r, f), Incoming.lease)
    BY <1>1, <1>4, <1>6
  <2> QED
    BY <1>1, <1>2, <1>3, <1>4, <1>6, <2>1, ActedStepOk
<1> QED
  BY <1>4, <1>5, <1>6

-----------------------------------------------------------------------------
(* Every step. *)

LEMMA AroundFields ==
  ASSUME NEW n \in Nat, NEW k \in Nat, SyncOk(n, k)
  PROVE  /\ env.scene \in Scenes /\ n = env.scene.mounts + env.scene.links /\ k = env.scene.frames
         /\ SupOk(n, k, sup) /\ UsbOk(n, k, usb) /\ WifiOk(n, k, wifi) /\ AppOk(k, app) /\ EnvOk(env)
         /\ ExecOk(exec) /\ box.next - 1 <= app.sent /\ InScene(n, k)
BY DEF SyncOk, InScene, AroundOk

\* Nothing around the core changes but the platform task's place.
LEMMA SameAround ==
  ASSUME NEW n \in Nat, NEW k \in Nat, SyncOk(n, k), UNCHANGED <<usb, wifi, app, env>>,
         ExecOk(exec'), SupOk(n, k, sup')
  PROVE  InScene(n, k)' /\ AroundOk(n, k)'
<1>1. InScene(n, k) /\ UsbOk(n, k, usb) /\ WifiOk(n, k, wifi) /\ AppOk(k, app) /\ EnvOk(env)
  BY AroundFields
<1>2. InScene(n, k)'
  BY <1>1 DEF InScene
<1>3. UsbOk(n, k, usb)'
  BY <1>1 DEF UsbOk
<1>4. WifiOk(n, k, wifi)'
  BY <1>1 DEF WifiOk
<1>5. AppOk(k, app)' /\ EnvOk(env)' /\ ExecOk(exec)' /\ SupOk(n, k, sup)'
  BY <1>1
<1> QED
  BY <1>2, <1>3, <1>4, <1>5 DEF AroundOk

LEMMA SteppedOk ==
  ASSUME NEW n \in Nat, NEW k \in Nat, SupOk(n, k, sup), SupAt("core"), Stepped \/ Stopped
  PROVE  SupOk(n, k, sup') /\ sup'.queued = sup.queued
<1>1. /\ sup = [pc |-> sup.pc, epoch |-> sup.epoch, route |-> sup.route, queued |-> sup.queued,
                allowed |-> sup.allowed, left |-> sup.left]
      /\ sup.epoch \in 0..n /\ sup.route \in 0..n /\ sup.queued \in Answers(n, k)
      /\ sup.left \in 0..CoreSteps /\ sup.left # 0 /\ CoreSteps \in Nat
  BY CoreHasRoom DEF SupOk, SupAt
<1>2. CASE Stepped
  <2> DEFINE x == sup.left - 1
             p == IF sup.left = 1 THEN "offer" ELSE "core"
  <2>1. sup' = [sup EXCEPT !.left = x, !.pc = p]
    BY <1>2 DEF Stepped
  <2>2. x \in 0..CoreSteps /\ p \in {"offer", "core"} /\ (p = "core" => x # 0)
    BY <1>1
  <2> HIDE DEF x, p
  <2> QED
    BY <1>1, <2>1, <2>2 DEF SupOk
<1>3. CASE Stopped
  <2>1. sup' = [sup EXCEPT !.left = 0, !.pc = "offer"]
    BY <1>3 DEF Stopped
  <2>2. 0 \in 0..CoreSteps
    BY <1>1
  <2> QED
    BY <1>1, <2>1, <2>2 DEF SupOk
<1> QED
  BY <1>2, <1>3

LEMMA CoreStepKeeps ==
  ASSUME NEW n \in Nat, NEW k \in Nat, SyncOk(n, k), CoreStep
  PROVE  SyncOk(n, k)'
<1>1. CoreStepOk(n, k)
  BY ProcessLifecycleOk, ExpirePartialsOk, AwaitActionOk, CompleteActionOk, ExpireSessionLeaseOk,
     CoreIdleOk, DropIncomingOk, AnswerPausedOk, ConsumeFrameOk DEF CoreStep
<1>2. SupAt("core") /\ (Stepped \/ Stopped) /\ UNCHANGED <<usb, wifi, app, env>>
  BY DEF CoreStep, ProcessLifecycle, ExpirePartials, AwaitAction, CompleteAction, ExpireSessionLease,
         CoreIdle, DropIncoming, AnswerPaused, ConsumeFrame, Usable, Ingress, Settled, Carriers
<1>3. ExecOk(exec')
  <2>1. ExecOk(exec)
    BY AroundFields
  <2>2. CASE UNCHANGED exec
    BY <2>1, <2>2
  <2>3. CASE AwaitAction
    <3> DEFINE a == core.action
               x == Borrowed(core.action)
    <3>1. exec' = exec \/ exec' = [exec EXCEPT !.stage = "running", !.action = a, !.bytes = x]
      BY <2>3 DEF AwaitAction
    <3> HIDE DEF a, x
    <3> QED
      BY <2>1, <3>1 DEF ExecOk
  <2>4. CASE CompleteAction
    <3>1. exec' = [exec EXCEPT !.stage = "none", !.action = NoAction, !.bytes = NoBytes]
      BY <2>4 DEF CompleteAction
    <3> QED
      BY <2>1, <3>1 DEF ExecOk
  <2> QED
    BY <2>2, <2>3, <2>4 DEF CoreStep, ProcessLifecycle, ExpirePartials, ExpireSessionLease,
         CoreIdle, DropIncoming, AnswerPaused, ConsumeFrame
<1>4. SupOk(n, k, sup') /\ sup'.queued = sup.queued
  BY <1>2, AroundFields, SteppedOk
<1>5. InScene(n, k)' /\ AroundOk(n, k)'
  BY <1>2, <1>3, <1>4, SameAround
<1>6. MainOk(n, k, box', core', ses', sup'.queued) /\ (box'.next - 1 <= app'.sent)
  BY <1>1, <1>2, <1>4, AroundFields DEF CoreStepOk
<1>7. PromptOk(sup.pc, box, core)'
  BY <1>1, <1>2 DEF CoreStepOk, PromptOk
<1> QED
  BY <1>5, <1>6, <1>7 DEF SyncOk

LEMMA InitIsOk ==
  ASSUME Init
  PROVE  \E n, k \in Nat : SyncOk(n, k)
<1> DEFINE n == env.scene.mounts + env.scene.links
           k == env.scene.frames
<1>1. /\ box = EmptyMailbox /\ core = NewCore /\ ses = NewSession
      /\ exec = [stage |-> "none", action |-> NoAction, bytes |-> NoBytes, done |-> {}]
      /\ sup = [pc |-> "send", epoch |-> 0, route |-> 0, queued |-> NoAnswer,
                allowed |-> TRUE, left |-> 0]
      /\ usb = [epoch |-> 0, last |-> 0, slot |-> NoAnswer]
      /\ wifi = [pc |-> "idle", gen |-> 0, preferred |-> FALSE,
                 pending |-> NoAnswer, sending |-> NoAnswer, accepted |-> NoAnswer]
      /\ app = [req |-> NoRequest, cookie |-> 0, sent |-> 0]
      /\ \E x \in Scenes : env = [scene |-> x, voice |-> FALSE, turns |-> 0, boot |-> x.boot]
  BY DEF Init
<1>2. env.scene \in Scenes
  BY <1>1
<1>3. n \in Nat /\ k \in Nat /\ env.scene.mounts \in Nat /\ env.scene.links \in Nat
  BY <1>2, ScenesAreBounded DEF SceneOk
<1>4. InScene(n, k)
  BY <1>2 DEF InScene
<1> HIDE DEF n, k
<1>5. /\ NoAnswer \in Answers(n, k) /\ NoAnswer.lease = NoLease /\ NoAnswer.seq = 0
      /\ NoLease \in Leases(n, k) /\ NoLease.id = 0 /\ NoRequest \in Requests
      /\ NoRoute \in Routes(n) /\ NoTimer \in Timers(n)
      /\ NoPlan \in Plans(n) /\ NoPlan.route = NoRoute /\ NoPending \in Pendings(n)
      /\ NoPending.action = NoAction
  BY <1>3, NoAnswerOk, RoutesAndLeases, TimersAreTyped, EmptyFields
<1>6. AroundOk(n, k)
  <2>1. SupOk(n, k, sup)
    BY <1>1, <1>3, <1>5, CoreHasRoom DEF SupOk
  <2>2. UsbOk(n, k, usb)
    BY <1>1, <1>3, <1>5 DEF UsbOk
  <2>3. WifiOk(n, k, wifi)
    BY <1>1, <1>3, <1>5 DEF WifiOk
  <2>4. AppOk(k, app)
    BY <1>1, <1>3, <1>5 DEF AppOk
  <2>5. EnvOk(env)
    BY <1>1 DEF EnvOk
  <2>6. ExecOk(exec)
    BY <1>1 DEF ExecOk
  <2> QED
    BY <2>1, <2>2, <2>3, <2>4, <2>5, <2>6 DEF AroundOk
<1>7. /\ box.data = <<>> /\ box.closes = <<>> /\ box.reserved = NoLease /\ box.next = 1
      /\ box.revokeAll = FALSE /\ box.overflow = NoRoute /\ box.failClosed = FALSE
      /\ box.route = [v \in Vias |-> 0]
  BY <1>1 DEF EmptyMailbox
<1>8. MailOk(n, k, box)
  <2>1. box \in Mailboxes(n, k)
    <3>1. 1 \in 1..(k + 1) /\ [v \in Vias |-> 0] \in [Vias -> 0..n]
      BY <1>3
    <3> QED
      BY <1>1, <1>5, <3>1 DEF EmptyMailbox, Mailboxes
  <2>2. DataOk(n, k, box.data, box.reserved)
    BY <1>7, MailboxHasRoom DEF DataOk, FrameAt, OneFrame
  <2>3. Len(box.closes) <= CloseSlots
    BY <1>7, MailboxHasRoom
  <2> QED
    BY <1>7, <2>1, <2>2, <2>3 DEF MailOk, AdmissionOk
<1>9. /\ CoreRecord(core) /\ core.lifecycle = <<>> /\ core.ingress = <<>> /\ core.replies = <<>>
      /\ core.active = {} /\ core.closed = {} /\ core.lease = NoLease /\ core.action = NoAction
      /\ core.partial = NoTimer /\ core.owner = NoTimer /\ core.seq = 1
  BY <1>1 DEF NewCore, CoreRecord
<1>10. CoreTypes(n, k, core)
  <2>1. IsFiniteSet(core.active) /\ Cardinality(core.active) = 0
    BY <1>9, FS_EmptySet
  <2>2. 0 <= DataSlots /\ 0 <= LifecycleSlots /\ 0 <= ReplySlots /\ 0 <= ActiveRoutes
    BY MailboxHasRoom, CoreHasRoom
  <2>3. NoAction \in Jobs(n)
    BY DEF Jobs
  <2> QED
    BY <1>5, <1>9, <2>1, <2>2, <2>3 DEF CoreTypes
<1>11. SesOk(n, ses)
  <2>1. /\ SesRecord(ses) /\ ses.phase = "Idle" /\ ses.route = NoRoute /\ ses.cookie = 0
        /\ ses.plan = NoPlan /\ ses.pending = NoPending /\ ses.replay = NoEntries /\ ses.slot = 1
        /\ ses.nextCookie = 1
    BY <1>1 DEF NewSession, SesRecord
  <2>2. \A i \in 1..ReplaySlots : NoEntries[i] = NoEntry
    BY DEF NoEntries
  <2>3. NoEntries = [i \in 1..ReplaySlots |-> NoEntries[i]]
    BY DEF NoEntries
  <2>4. 1 \in 1..ReplaySlots
    BY SessionHasReplay
  <2>5. MemoryOk(n, NoEntry)
    BY <1>3, NoEntryOk
  <2>6. SesTypes(n, ses)
    BY <1>5, <2>1, <2>2, <2>3, <2>4, <2>5 DEF SesTypes
  <2> QED
    BY <1>5, <2>1, <2>6 DEF SesOk, PhaseOk
<1>12. DOMAIN core.ingress = {} /\ DOMAIN core.replies = {} /\ DOMAIN box.data = {} /\ Len(core.ingress) = 0
       /\ Len(core.lifecycle) = 0
  BY <1>7, <1>9
<1>13. Waiting(core) = {} /\ Answering(core) = {NoLease} /\ FrameAt(box.data) = {}
  BY <1>9, <1>12 DEF Waiting, Answering, FrameAt
<1>14. sup.queued = NoAnswer
  BY <1>1
<1>15. PendingOk(core, ses)
  BY <1>1, <1>9 DEF PendingOk, NewSession
<1>16. SeqsOk(core, sup.queued)
  BY <1>5, <1>9, <1>12, <1>14 DEF SeqsOk
<1>17. LeasesOk(box, core, sup.queued)
  BY <1>5, <1>7, <1>12, <1>13, <1>14 DEF LeasesOk, Different
<1>18. CountOk(box, core) /\ HeldOk(box, core)
  BY <1>7, <1>12, <1>13 DEF CountOk, HeldOk
<1>19. MainOk(n, k, box, core, ses, sup.queued)
  BY <1>8, <1>10, <1>11, <1>15, <1>16, <1>17, <1>18 DEF MainOk
<1>20. box.next - 1 <= app.sent
  BY <1>1, <1>7
<1>21. PromptOk(sup.pc, box, core)
  BY <1>9, <1>12, <1>13 DEF PromptOk, StaleOk
<1>22. SyncOk(n, k)
  BY <1>4, <1>6, <1>19, <1>20, <1>21 DEF SyncOk
<1> QED
  BY <1>3, <1>22

\* A step that changes what is around the core at most.
LEMMA StepKeeps ==
  ASSUME NEW n \in Nat, NEW k \in Nat, SyncOk(n, k), env'.scene = env.scene, AroundOk(n, k)',
         MainOk(n, k, box', core', ses', sup'.queued), box'.next - 1 <= app'.sent,
         ~env.scene.boot =>
           /\ Len(core'.lifecycle) <= 1 /\ (core'.lifecycle # <<>> => sup'.pc = "core")
           /\ StaleOk(box', core')
  PROVE  SyncOk(n, k)'
<1>1. InScene(n, k)'
  BY DEF SyncOk, InScene
<1>2. PromptOk(sup.pc, box, core)'
  BY DEF PromptOk
<1> QED
  BY <1>1, <1>2 DEF SyncOk

\* The mailbox changes under the core, and the answer offered to USB may be dropped.
LEMMA MailMoves ==
  ASSUME NEW n \in Nat, NEW k \in Nat, SyncOk(n, k), UNCHANGED <<core, ses>>, MailOk(n, k, box'),
         RouteStep(n, box, box'), NEW q \in {sup.queued, NoAnswer}
  PROVE  /\ MainOk(n, k, box', core', ses', q) /\ box'.next = box.next
         /\ StaleOk(box, core) => StaleOk(box', core')
<1>1. /\ MailOk(n, k, box) /\ CoreTypes(n, k, core) /\ SesOk(n, ses)
      /\ PendingOk(core, ses) /\ SeqsOk(core, sup.queued) /\ LeasesOk(box, core, sup.queued)
      /\ CountOk(box, core) /\ HeldOk(box, core)
      /\ box.next \in Nat /\ Len(core.ingress) \in Nat
      /\ \A x \in Waiting(core) : x.route \in Routes(n)
  BY MainFields
<1>2. SeqsOk(core, q)
  BY <1>1, NoAnswerSeqs
<1>3. LeasesOk(box, core, q)
  <2>1. CoreMove(core, core, NoLease)
    BY <1>1, MovesNothing
  <2>2. box = Released(box, NoLease)
    BY ReleasedNothing
  <2> QED
    BY <1>1, <2>1, <2>2, MoveKeeps
<1>4. /\ LeasesOk(box', core, q) /\ HeldOk(box', core) /\ CountOk(box', core)
      /\ StaleOk(box, core) => StaleOk(box', core)
  BY <1>1, <1>3, RouteStepKeeps
<1>5. box'.next = box.next
  BY DEF RouteStep
<1> QED
  BY <1>1, <1>2, <1>4, <1>5 DEF MainOk

\* The task is not in the core: without a boot sound every change of a route is handled.
LEMMA Outside ==
  ASSUME NEW n \in Nat, NEW k \in Nat, SyncOk(n, k), sup.pc # "core", ~env.scene.boot
  PROVE  core.lifecycle = <<>> /\ Len(core.lifecycle) <= 1 /\ StaleOk(box, core)
BY MainFields DEF PromptOk

LEMMA AnswerFields ==
  ASSUME NEW n \in Nat, NEW k \in Nat, NEW a \in Answers(n, k)
  PROVE  /\ a.seq \in Nat /\ a.lease \in Leases(n, k) /\ a.req \in Requests /\ a.reply \in Texts
         /\ a.lease.route \in Routes(n) /\ a.reply.cookie \in Nat
<1>1. a.seq \in Nat /\ a.lease \in Leases(n, k) /\ a.req \in Requests /\ a.reply \in Texts
  BY DEF Answers
<1>2. a.lease.route \in Routes(n) /\ a.reply.cookie \in Nat
  BY <1>1 DEF Leases, Texts
<1> QED
  BY <1>1, <1>2

LEMMA FirstReplyIsOne ==
  ASSUME NEW n \in Nat, NEW k \in Nat, NEW c, CoreTypes(n, k, c), NEW r, RouteHasReply(c, r)
  PROVE  \E i \in DOMAIN c.replies : FirstReply(c, r) = c.replies[i] /\ c.replies[i].lease.route = r
<1> DEFINE I == {i \in DOMAIN c.replies : c.replies[i].lease.route = r}
<1>1. c.replies \in Seq(Answers(n, k)) /\ I \in SUBSET (DOMAIN c.replies)
  BY CoreFields
<1>2. \E i \in I : TRUE
  BY DEF RouteHasReply, Range
<1>3. FirstReply(c, r) = c.replies[Nth(I, 1)]
  BY DEF FirstReply
<1>4. \A i \in I : i \in DOMAIN c.replies /\ c.replies[i].lease.route = r
  OBVIOUS
<1> HIDE DEF I
<1>5. Numbers(I) /\ Cardinality(I) \in Nat
  BY <1>1, PositionsAreNumbers
<1>6. Cardinality(I) # 0
  BY <1>2, <1>5, FS_EmptySet DEF Numbers
<1>7. Nth(I, 1) \in I
  <2>1. 1 \in 1..Cardinality(I)
    BY <1>5, <1>6
  <2> QED
    BY <1>5, <2>1, NthIsRanked
<1> QED
  BY <1>3, <1>4, <1>7

LEMMA ToldOk ==
  ASSUME NEW n \in Nat, NEW k \in Nat, AppOk(k, app), NEW a \in Answers(n, k)
  PROVE  AppOk(k, Told(a)) /\ Told(a).sent = app.sent
<1>1. app = [req |-> app.req, cookie |-> app.cookie, sent |-> app.sent] /\ a.reply.cookie \in Nat
  BY AnswerFields DEF AppOk
<1> DEFINE x == a.reply.cookie
<1>2. Told(a) = app \/ Told(a) = [app EXCEPT !.cookie = x]
  BY DEF Told
<1> HIDE DEF x
<1>3. x \in Nat
  BY <1>1 DEF x
<1>4. CASE Told(a) = app
  BY <1>4
<1>5. CASE Told(a) = [app EXCEPT !.cookie = x]
  <2> DEFINE t == Told(a)
  <2>1. t = [app EXCEPT !.cookie = x]
    BY <1>5
  <2> HIDE DEF t
  <2>2. AppOk(k, t) /\ t.sent = app.sent
    BY <1>1, <1>3, <2>1 DEF AppOk
  <2> QED
    BY <2>2 DEF t
<1> QED
  BY <1>2, <1>4, <1>5

LEMMA GotoOk ==
  ASSUME NEW n \in Nat, NEW k \in Nat, SupOk(n, k, sup),
         NEW p \in {"send", "epoch", "observe", "retire", "import", "offer"}, Goto(p)
  PROVE  SupOk(n, k, sup') /\ sup'.queued = sup.queued /\ sup'.pc = p
<1>1. sup' = [sup EXCEPT !.pc = p]
  BY DEF Goto
<1> QED
  BY <1>1 DEF SupOk

\* A reply is retired: a is the one that was offered or the first of its route.
LEMMA RetiredOk ==
  ASSUME NEW n \in Nat, NEW k \in Nat, SyncOk(n, k), NEW a,
         \A i \in DOMAIN core.replies : core.replies[i].seq = a.seq => core.replies[i] = a,
         a.lease \in Answering(core) \cup {sup.queued.lease},
         core' = Removed(core, a.seq), box' = Released(box, a.lease), ses' = ses,
         NEW q \in {sup.queued, NoAnswer}
  PROVE  /\ MainOk(n, k, box', core', ses', q) /\ box'.next = box.next
         /\ StaleOk(box, core) => StaleOk(box', core')
         /\ core'.lifecycle = core.lifecycle
<1>1. /\ MailOk(n, k, box) /\ CoreTypes(n, k, core) /\ SesOk(n, ses)
      /\ PendingOk(core, ses) /\ SeqsOk(core, sup.queued) /\ LeasesOk(box, core, sup.queued)
      /\ CountOk(box, core) /\ HeldOk(box, core)
      /\ box.next \in Nat /\ Len(core.ingress) \in Nat
      /\ \A x \in Waiting(core) : x.route \in Routes(n)
  BY MainFields
<1>2. /\ CoreTypes(n, k, core') /\ CoreMove(core, core', a.lease) /\ SeqsOk(core', sup.queued)
      /\ SameRoutes(core, core')
      /\ core'.ingress = core.ingress /\ core'.action = core.action /\ core'.lease = core.lease
  BY <1>1, RemovedOk
<1>3. SeqsOk(core', q)
  BY <1>2, NoAnswerSeqs
<1>4. Len(core'.ingress) \in Nat /\ core'.lifecycle = core.lifecycle
  BY <1>1, <1>2 DEF SameRoutes
<1>5. \A x \in Waiting(core') : CloseDue(core, x.route) => CloseDue(core', x.route)
  BY <1>4 DEF CloseDue
<1> DEFINE l == a.lease
<1> HIDE DEF l
<1>6. /\ MailOk(n, k, box') /\ box'.next = box.next
      /\ LeasesOk(box', core', q) /\ HeldOk(box', core') /\ CountOk(box', core')
      /\ StaleOk(box, core) => StaleOk(box', core')
  <2> DEFINE a0 == sup.queued
             e == Released(box, l)
  <2>1. /\ CoreMove(core, core', l) /\ box' = e
        /\ LeasesOk(box, core, a0) /\ q \in {a0, NoAnswer}
    BY <1>1, <1>2 DEF l
  <2>2. /\ MailOk(n, k, e) /\ e.next = box.next
        /\ LeasesOk(e, core', q) /\ (HeldOk(box, core) => HeldOk(e, core'))
        /\ (CountOk(box, core) /\ Len(core.ingress) \in Nat /\ Len(core'.ingress) \in Nat)
             => CountOk(e, core')
        /\ (StaleOk(box, core) /\ (\A x \in Waiting(core) : x.route \in Routes(n))
             /\ (\A x \in Waiting(core') : CloseDue(core, x.route) => CloseDue(core', x.route)))
             => StaleOk(e, core')
    <3> HIDE DEF a0
    <3> QED
      BY <1>1, <2>1, MoveKeeps
  <2> HIDE DEF e
  <2> QED
    BY <1>1, <1>4, <1>5, <2>1, <2>2
<1>7. PendingOk(core', ses')
  BY <1>1, <1>2, PendingStays
<1> QED
  BY <1>1, <1>2, <1>3, <1>4, <1>6, <1>7 DEF MainOk

-----------------------------------------------------------------------------
(* The platform task around the core. *)

\* Where the routes of the scene come from.
LEMMA SceneFields ==
  ASSUME NEW n \in Nat, NEW k \in Nat, SyncOk(n, k)
  PROVE  /\ env.scene.mounts \in 0..n /\ env.scene.links \in 0..n
         /\ env.scene.mounts \in Nat /\ env.scene.links \in Nat
         /\ env.scene.asked \subseteq Ops \cup Immediate \cup {"Bad"}
<1>1. env.scene \in Scenes /\ n = env.scene.mounts + env.scene.links
  BY AroundFields
<1>2. SceneOk(env.scene)
  BY <1>1, ScenesAreBounded
<1>3. env.scene.mounts \in Nat /\ env.scene.links \in Nat
  BY <1>2 DEF SceneOk
<1>4. env.scene.asked \subseteq Ops \cup Immediate \cup {"Bad"}
  BY <1>2 DEF SceneOk
<1> QED
  BY <1>1, <1>3, <1>4

\* Three of the components around the core at a time stay as they are.
LEMMA AroundKept ==
  ASSUME NEW n \in Nat, NEW k \in Nat, SyncOk(n, k), env' = env
  PROVE  /\ sup' = sup => SupOk(n, k, sup')
         /\ usb' = usb => UsbOk(n, k, usb)'
         /\ wifi' = wifi => WifiOk(n, k, wifi)'
         /\ app' = app => AppOk(k, app')
         /\ exec' = exec => ExecOk(exec')
         /\ EnvOk(env')
<1>1. SupOk(n, k, sup) /\ UsbOk(n, k, usb) /\ WifiOk(n, k, wifi) /\ AppOk(k, app) /\ EnvOk(env)
      /\ ExecOk(exec)
  BY AroundFields
<1>2. usb' = usb => UsbOk(n, k, usb)'
  BY <1>1 DEF UsbOk
<1>3. wifi' = wifi => WifiOk(n, k, wifi)'
  BY <1>1 DEF WifiOk
<1> QED
  BY <1>1, <1>2, <1>3

\* What a step outside the core may do to the mailbox, the core and the session.
OuterStep(n, k, q) ==
  /\ MainOk(n, k, box', core', ses', q) /\ box'.next = box.next
  /\ ~env.scene.boot => core'.lifecycle = <<>> /\ StaleOk(box', core')

LEMMA OuterKeeps ==
  ASSUME NEW n \in Nat, NEW k \in Nat, SyncOk(n, k), env' = env, OuterStep(n, k, sup'.queued),
         SupOk(n, k, sup'), UsbOk(n, k, usb)', WifiOk(n, k, wifi)', AppOk(k, app'), ExecOk(exec'),
         app'.sent = app.sent
  PROVE  SyncOk(n, k)'
<1>1. AroundOk(n, k)'
  BY AroundKept DEF AroundOk
<1>2. box'.next - 1 <= app'.sent
  BY AroundFields DEF OuterStep
<1>3. core'.lifecycle = <<>> => Len(core'.lifecycle) <= 1
  OBVIOUS
<1> QED
  BY <1>1, <1>2, <1>3, StepKeeps DEF OuterStep

\* The endpoint's slot without the answer that was sent or dropped.
LEMMA SlotLeft ==
  ASSUME NEW n \in Nat, NEW k \in Nat, SyncOk(n, k), env' = env, NEW a \in Answers(n, k),
         usb' = [usb EXCEPT !.slot = a]
  PROVE  UsbOk(n, k, usb)'
<1>1. UsbOk(n, k, usb)
  BY AroundFields
<1> DEFINE u == usb'
<1>2. u = [usb EXCEPT !.slot = a]
  OBVIOUS
<1>3. u = [epoch |-> u.epoch, last |-> u.last, slot |-> u.slot] /\ u.slot = a
      /\ u.epoch = usb.epoch /\ u.last = usb.last
  <2> HIDE DEF u
  <2> QED
    BY <1>1, <1>2 DEF UsbOk
<1> QED
  BY <1>1, <1>3 DEF UsbOk

LEMMA SendUsbReplyOk ==
  ASSUME NEW n \in Nat, NEW k \in Nat, SyncOk(n, k), SendUsbReply
  PROVE  SyncOk(n, k)'
<1>1. /\ SupOk(n, k, sup) /\ UsbOk(n, k, usb) /\ AppOk(k, app)
      /\ SeqsOk(core, sup.queued) /\ NoAnswer \in Answers(n, k)
  BY AroundFields, MainFields, NoAnswerOk
<1>2. /\ sup.pc = "send" /\ UNCHANGED <<ses, exec, wifi, env>>
      /\ usb' = [usb EXCEPT !.slot = NoAnswer] /\ app' = Told(usb.slot)
  BY DEF SendUsbReply, SupAt
<1>3. UsbOk(n, k, usb)' /\ WifiOk(n, k, wifi)' /\ ExecOk(exec')
  BY <1>1, <1>2, SlotLeft, AroundKept
<1>4. AppOk(k, app') /\ app'.sent = app.sent
  <2>1. usb.slot \in Answers(n, k)
    BY <1>1 DEF UsbOk
  <2> QED
    BY <1>1, <1>2, <2>1, ToldOk
<1>5. ~env.scene.boot => core.lifecycle = <<>> /\ StaleOk(box, core)
  BY <1>2, Outside
<1>6. CASE sup.queued = usb.slot
  <2> DEFINE a == sup.queued
  <2>1. /\ core' = Removed(core, a.seq) /\ box' = Released(box, a.lease)
        /\ sup' = [sup EXCEPT !.queued = NoAnswer, !.pc = "epoch"]
    BY <1>6 DEF SendUsbReply
  <2>2. SupOk(n, k, sup') /\ sup'.queued = NoAnswer
    BY <1>1, <2>1 DEF SupOk
  <2>3. \A i \in DOMAIN core.replies : core.replies[i].seq = a.seq => core.replies[i] = a
    BY <1>1 DEF SeqsOk
  <2>4. a.lease \in Answering(core) \cup {sup.queued.lease}
    OBVIOUS
  <2> HIDE DEF a
  <2>5. /\ MainOk(n, k, box', core', ses', NoAnswer) /\ box'.next = box.next
        /\ StaleOk(box, core) => StaleOk(box', core')
        /\ core'.lifecycle = core.lifecycle
    BY <1>2, <2>1, <2>3, <2>4, RetiredOk
  <2> QED
    BY <1>2, <1>3, <1>4, <1>5, <2>2, <2>5, OuterKeeps DEF OuterStep
<1>7. CASE sup.queued # usb.slot
  <2>1. Goto("epoch") /\ UNCHANGED <<core, box>>
    BY <1>7 DEF SendUsbReply
  <2>2. SupOk(n, k, sup') /\ sup'.queued = sup.queued
    BY <1>1, <2>1, GotoOk
  <2>3. MainOk(n, k, box', core', ses', sup'.queued)
    BY <1>2, <2>1, <2>2 DEF SyncOk
  <2> QED
    BY <1>2, <1>3, <1>4, <1>5, <2>1, <2>2, <2>3, OuterKeeps DEF OuterStep
<1> QED
  BY <1>6, <1>7

LEMMA ReadUsbEpochOk ==
  ASSUME NEW n \in Nat, NEW k \in Nat, SyncOk(n, k), ReadUsbEpoch
  PROVE  SyncOk(n, k)'
<1>1. /\ SupOk(n, k, sup) /\ UsbOk(n, k, usb) /\ NoAnswer \in Answers(n, k)
      /\ env.scene.mounts \in 0..n /\ env.scene.mounts \in Nat
  BY AroundFields, NoAnswerOk, SceneFields
<1>2. /\ sup.pc # "core" /\ UNCHANGED <<box, core, ses, exec, wifi, app, env>>
  BY DEF ReadUsbEpoch
<1>3. UsbOk(n, k, usb)'
  <2> DEFINE a == IF SupAt("send") THEN UsbSlotLeft ELSE usb.slot
  <2>1. usb' = [usb EXCEPT !.slot = a]
    BY DEF ReadUsbEpoch
  <2>2. a \in Answers(n, k)
    BY <1>1 DEF UsbOk, UsbSlotLeft
  <2> HIDE DEF a
  <2> QED
    BY <1>2, <2>1, <2>2, SlotLeft
<1>4. SupOk(n, k, sup') /\ sup'.queued = sup.queued
  <2> DEFINE v == ~env.voice
             g == usb.epoch
  <2>1. sup' = [sup EXCEPT !.epoch = g, !.allowed = v, !.pc = "observe"]
    BY DEF ReadUsbEpoch
  <2>2. g \in 0..n
    BY <1>1 DEF UsbOk
  <2> HIDE DEF v, g
  <2> QED
    BY <1>1, <2>1, <2>2 DEF SupOk
<1>5. ~env.scene.boot => core.lifecycle = <<>> /\ StaleOk(box, core)
  BY <1>2, Outside
<1>6. MainOk(n, k, box', core', ses', sup'.queued)
  BY <1>2, <1>4 DEF SyncOk
<1>7. WifiOk(n, k, wifi)' /\ ExecOk(exec') /\ AppOk(k, app')
  BY <1>2, AroundKept
<1> QED
  BY <1>2, <1>3, <1>4, <1>5, <1>6, <1>7, OuterKeeps DEF OuterStep

LEMMA ObserveUsbRouteOk ==
  ASSUME NEW n \in Nat, NEW k \in Nat, SyncOk(n, k), ObserveUsbRoute
  PROVE  SyncOk(n, k)'
<1>1. /\ SupOk(n, k, sup) /\ WifiOk(n, k, wifi) /\ NoAnswer \in Answers(n, k) /\ MailOk(n, k, box)
  BY AroundFields, NoAnswerOk, MainFields
<1>2. /\ sup.pc # "core" /\ UNCHANGED <<core, ses, exec, usb, app, env>>
  BY DEF ObserveUsbRoute, SupAt
<1> DEFINE g == sup.epoch
           q == IF sup.epoch = sup.route THEN sup.queued ELSE NoAnswer
           v == sup.epoch # 0
<1>3. /\ box' = Ensured(box, "usb", g) /\ wifi' = [wifi EXCEPT !.preferred = v]
      /\ sup' = [sup EXCEPT !.route = g, !.pc = "retire", !.queued = q]
      /\ q \in {sup.queued, NoAnswer}
  BY DEF ObserveUsbRoute
<1>4. g \in 0..n /\ q \in Answers(n, k)
  BY <1>1 DEF SupOk
<1> HIDE DEF g, q, v
<1>5. SupOk(n, k, sup') /\ sup'.queued = q
  BY <1>1, <1>3, <1>4 DEF SupOk
<1>6. WifiOk(n, k, wifi)'
  BY <1>1, <1>2, <1>3 DEF WifiOk
<1>7. MailOk(n, k, box') /\ RouteStep(n, box, box')
  <2>1. "usb" \in Vias
    BY DEF Vias
  <2> QED
    BY <1>1, <1>3, <1>4, <2>1, EnsuredMail
<1>8. /\ MainOk(n, k, box', core', ses', q) /\ box'.next = box.next
      /\ StaleOk(box, core) => StaleOk(box', core')
  BY <1>2, <1>3, <1>7, MailMoves
<1>9. ~env.scene.boot => core.lifecycle = <<>> /\ StaleOk(box, core)
  BY <1>2, Outside
<1>10. UsbOk(n, k, usb)' /\ ExecOk(exec') /\ AppOk(k, app')
  BY <1>2, AroundKept
<1> QED
  BY <1>2, <1>5, <1>6, <1>8, <1>9, <1>10, OuterKeeps DEF OuterStep

LEMMA RetireWifiReplyOk ==
  ASSUME NEW n \in Nat, NEW k \in Nat, SyncOk(n, k), RetireWifiReply
  PROVE  SyncOk(n, k)'
<1>1. /\ SupOk(n, k, sup) /\ WifiOk(n, k, wifi) /\ NoAnswer \in Answers(n, k)
      /\ SeqsOk(core, sup.queued) /\ CoreTypes(n, k, core)
  BY AroundFields, NoAnswerOk, MainFields
<1>2. /\ sup.pc # "core" /\ UNCHANGED <<ses, exec, usb, app, env>> /\ Goto("import")
      /\ wifi' = [wifi EXCEPT !.accepted = NoAnswer]
  BY DEF RetireWifiReply, SupAt
<1>3. SupOk(n, k, sup') /\ sup'.queued = sup.queued
  BY <1>1, <1>2, GotoOk
<1>4. WifiOk(n, k, wifi)'
  BY <1>1, <1>2 DEF WifiOk
<1>5. ~env.scene.boot => core.lifecycle = <<>> /\ StaleOk(box, core)
  BY <1>2, Outside
<1>6. UsbOk(n, k, usb)' /\ ExecOk(exec') /\ AppOk(k, app')
  BY <1>2, AroundKept
<1> DEFINE a == wifi.accepted
<1>7. CASE a # NoAnswer /\ RouteHasReply(core, a.lease.route) /\ FirstReply(core, a.lease.route) = a
  <2>1. core' = Removed(core, a.seq) /\ box' = Released(box, a.lease)
    BY <1>7 DEF RetireWifiReply
  <2>2. RouteHasReply(core, a.lease.route) /\ FirstReply(core, a.lease.route) = a
    BY <1>7
  <2> HIDE DEF a
  <2>3. PICK i \in DOMAIN core.replies : core.replies[i] = a
    <3> DEFINE r == a.lease.route
    <3> HIDE DEF r
    <3>1. RouteHasReply(core, r) => \E i \in DOMAIN core.replies : FirstReply(core, r) = core.replies[i]
      BY <1>1, FirstReplyIsOne
    <3> QED
      BY <2>2, <3>1 DEF r
  <2>4. \A j \in DOMAIN core.replies : core.replies[j].seq = a.seq => core.replies[j] = a
    BY <1>1, <2>3 DEF SeqsOk
  <2>5. a.lease \in Answering(core) \cup {sup.queued.lease}
    BY <2>3 DEF Answering
  <2>6. /\ MainOk(n, k, box', core', ses', sup.queued) /\ box'.next = box.next
        /\ StaleOk(box, core) => StaleOk(box', core')
        /\ core'.lifecycle = core.lifecycle
    BY <1>2, <2>1, <2>4, <2>5, RetiredOk
  <2> QED
    BY <1>2, <1>3, <1>4, <1>5, <1>6, <2>6, OuterKeeps DEF OuterStep
<1>8. CASE ~(a # NoAnswer /\ RouteHasReply(core, a.lease.route) /\ FirstReply(core, a.lease.route) = a)
  <2>1. UNCHANGED <<core, box>>
    BY <1>8 DEF RetireWifiReply
  <2>2. MainOk(n, k, box', core', ses', sup'.queued)
    BY <1>2, <1>3, <2>1 DEF SyncOk
  <2> QED
    BY <1>2, <1>3, <1>4, <1>5, <1>6, <2>1, <2>2, OuterKeeps DEF OuterStep
<1> QED
  BY <1>7, <1>8

\* What the transports bring before the boot sound has been read fits into ingress: nothing
\* is taken out of it until then (kSpeakerAssetsRuntimeIngressCapacity is 20).
BootIsQuiet == \A x \in Scenes : x.boot => x.frames <= DataSlots

LEMMA ImportOneOk ==
  ASSUME BootIsQuiet, NEW n \in Nat, NEW k \in Nat, SyncOk(n, k), ImportOne
  PROVE  SyncOk(n, k)'
<1>1. /\ SupOk(n, k, sup) /\ AppOk(k, app) /\ EnvOk(env) /\ env.scene \in Scenes /\ k = env.scene.frames
      /\ box.next - 1 <= app.sent
      /\ MailOk(n, k, box) /\ CoreTypes(n, k, core) /\ SesOk(n, ses) /\ SesTypes(n, ses)
      /\ PendingOk(core, ses) /\ SeqsOk(core, sup.queued) /\ LeasesOk(box, core, sup.queued)
      /\ CountOk(box, core) /\ HeldOk(box, core) /\ box.next \in Nat
  BY AroundFields, MainFields
<1>2. /\ sup.pc # "core" /\ UNCHANGED <<exec, usb, wifi, app, env>>
      /\ core' = Imported(core, ses, Front(box)) /\ box' = Taken(box)
  BY DEF ImportOne, SupAt, Carriers
<1>3. ~env.scene.boot => core.lifecycle = <<>> /\ StaleOk(box, core)
  BY <1>2, Outside
<1>4. Front(box).kind = "Frame" => Len(core.ingress) < DataSlots
  <2>1. CASE env.scene.boot
    <3>1. env.scene.frames <= DataSlots
      BY <1>1, <2>1 DEF BootIsQuiet
    <3>2. app.sent \in 0..k
      BY <1>1 DEF AppOk
    <3>3. box.next - 1 <= DataSlots
      BY <1>1, <3>1, <3>2, MailboxHasRoom
    <3> QED
      BY <1>1, <3>3, RoomInIngress
  <2>2. CASE ~env.scene.boot
    BY <1>1, <1>3, <2>2, RoomInIngress
  <2> QED
    BY <2>1, <2>2
<1> DEFINE rec == Front(box)
           a == sup.queued
           e == Taken(box)
           d == Imported(core, ses, rec)
<1>5. /\ MailOk(n, k, e) /\ e.next = box.next /\ CoreTypes(n, k, d)
      /\ d.action = core.action /\ d.lease = core.lease
      /\ SeqsOk(d, a) /\ LeasesOk(e, d, a) /\ CountOk(e, d) /\ HeldOk(e, d)
      /\ core.lifecycle = <<>> => Len(d.lifecycle) <= 1
      /\ (core.lifecycle = <<>> /\ StaleOk(box, core)) => StaleOk(e, d)
  <2>1. /\ SeqsOk(core, a) /\ LeasesOk(box, core, a) /\ ses.route \in Routes(n)
        /\ rec.kind = "Frame" => Len(core.ingress) < DataSlots
    BY <1>1, <1>4 DEF SesTypes
  <2>2. rec = Front(box)
    OBVIOUS
  <2> HIDE DEF rec, a
  <2> QED
    BY <1>1, <2>1, <2>2, ImportKeeps
<1>6. box' = e /\ core' = d
  BY <1>2
<1>7. /\ SupOk(n, k, sup') /\ sup'.queued = a
      /\ ~env.scene.boot => sup'.pc = "core"
  <2>1. CASE env.boot
    <3>1. sup' = [sup EXCEPT !.pc = "offer"] /\ env.scene.boot
      BY <1>1, <2>1 DEF ImportOne, EnvOk
    <3> QED
      BY <1>1, <3>1 DEF SupOk
  <2>2. CASE ~env.boot
    <3>1. sup' = [sup EXCEPT !.pc = "core", !.left = CoreSteps]
      BY <2>2 DEF ImportOne
    <3>2. CoreSteps \in 0..CoreSteps /\ CoreSteps # 0
      BY CoreHasRoom
    <3> QED
      BY <1>1, <3>1, <3>2 DEF SupOk
  <2> QED
    BY <2>1, <2>2
<1> HIDE DEF rec, a, e, d
<1>8. SesOk(n, ses') /\ PendingOk(core', ses')
  <2>1. CASE ses' = ses
    BY <1>1, <1>5, <1>6, <2>1, PendingStays
  <2>2. CASE ses' = AllRoutesClosed(ses)
    <3>1. /\ SesOk(n, ses') /\ (ses'.phase = "ActionPending" <=> ses.phase = "ActionPending")
          /\ ses'.pending.action = ses.pending.action
      BY <1>1, <2>2, AllRoutesClosedOk
    <3> QED
      BY <1>1, <1>5, <1>6, <3>1, PendingStays
  <2> QED
    BY <2>1, <2>2 DEF ImportOne
<1>9. MainOk(n, k, box', core', ses', sup'.queued)
  BY <1>5, <1>6, <1>7, <1>8 DEF MainOk
<1>10. AroundOk(n, k)'
  BY <1>2, <1>7, AroundKept DEF AroundOk
<1>11. box'.next - 1 <= app'.sent
  BY <1>1, <1>2, <1>5, <1>6
<1> QED
  BY <1>2, <1>3, <1>5, <1>6, <1>7, <1>9, <1>10, <1>11, StepKeeps

\* An answer of the core is offered to a transport.
LEMMA OfferedOk ==
  ASSUME NEW n \in Nat, NEW k \in Nat, SyncOk(n, k), NEW a,
         \E i \in DOMAIN core.replies : core.replies[i] = a
  PROVE  a \in Answers(n, k) /\ SeqsOk(core, a) /\ LeasesOk(box, core, a)
<1>1. /\ CoreTypes(n, k, core) /\ SeqsOk(core, sup.queued) /\ LeasesOk(box, core, sup.queued)
      /\ MailOk(n, k, box)
  BY MainFields
<1>2. PICK i \in DOMAIN core.replies : core.replies[i] = a
  OBVIOUS
<1>3. core.replies \in Seq(Answers(n, k)) /\ core.seq \in Nat
  BY <1>1, CoreFields DEF SeqsOk
<1>4. a \in Answers(n, k)
  BY <1>2, <1>3
<1>5. a.seq \in 1..(core.seq - 1)
  BY <1>1, <1>2 DEF SeqsOk
<1>6. SeqsOk(core, a)
  <2>1. a.seq \in 0..(core.seq - 1)
    BY <1>3, <1>5
  <2>2. \A j \in DOMAIN core.replies : core.replies[j].seq = a.seq => core.replies[j] = a
    BY <1>1, <1>2 DEF SeqsOk
  <2> QED
    BY <1>1, <2>1, <2>2 DEF SeqsOk
<1>7. a.lease \in Answering(core)
  BY <1>2 DEF Answering
<1>8. LeasesOk(box, core, a)
  BY <1>1, <1>7 DEF LeasesOk
<1> QED
  BY <1>4, <1>6, <1>8

LEMMA OfferRepliesOk ==
  ASSUME NEW n \in Nat, NEW k \in Nat, SyncOk(n, k), OfferReplies
  PROVE  SyncOk(n, k)'
<1>1. /\ SupOk(n, k, sup) /\ WifiOk(n, k, wifi) /\ UsbOk(n, k, usb) /\ CoreTypes(n, k, core)
      /\ MainOk(n, k, box, core, ses, sup.queued)
  BY AroundFields, MainFields DEF SyncOk
<1>2. sup.pc # "core" /\ UNCHANGED <<box, core, ses, exec, app, env>>
  BY DEF OfferReplies, SupAt
<1>3. WifiOk(n, k, wifi)'
  <2>1. CASE WifiOffer
    <3>1. wifi' = [wifi EXCEPT !.pending = core.replies[1]]
      BY <2>1 DEF OfferReplies
    <3>2. core.replies \in Seq(Answers(n, k)) /\ core.replies # <<>>
      BY <1>1, <2>1, CoreFields DEF WifiOffer
    <3>3. core.replies[1] \in Answers(n, k)
      BY <3>2
    <3> QED
      BY <1>1, <1>2, <3>1, <3>3 DEF WifiOk
  <2>2. CASE ~WifiOffer
    BY <1>2, <2>2, AroundKept DEF OfferReplies
  <2> QED
    BY <2>1, <2>2
<1>4. ~env.scene.boot => core.lifecycle = <<>> /\ StaleOk(box, core)
  BY <1>2, Outside
<1>5. ExecOk(exec') /\ AppOk(k, app')
  BY <1>2, AroundKept
<1>6. CASE UsbOffer
  <2> DEFINE r == RouteOf("usb", sup.route)
             a == FirstReply(core, r)
  <2>1. /\ usb' = [usb EXCEPT !.slot = a] /\ sup' = [sup EXCEPT !.queued = a, !.pc = "send"]
        /\ RouteHasReply(core, r)
    BY <1>6 DEF OfferReplies, UsbOffer
  <2>2. \E i \in DOMAIN core.replies : core.replies[i] = a
    <3> HIDE DEF r
    <3>1. \E i \in DOMAIN core.replies : FirstReply(core, r) = core.replies[i]
      BY <1>1, <2>1, FirstReplyIsOne
    <3> QED
      BY <3>1
  <2> HIDE DEF a
  <2>3. a \in Answers(n, k) /\ SeqsOk(core, a) /\ LeasesOk(box, core, a)
    BY <2>2, OfferedOk
  <2>4. SupOk(n, k, sup') /\ sup'.queued = a
    BY <1>1, <2>1, <2>3 DEF SupOk
  <2>5. UsbOk(n, k, usb)'
    BY <1>2, <2>1, <2>3, SlotLeft
  <2>6. MainOk(n, k, box', core', ses', a)
    BY <1>1, <1>2, <2>3 DEF MainOk
  <2> QED
    BY <1>2, <1>3, <1>4, <1>5, <2>4, <2>5, <2>6, OuterKeeps DEF OuterStep
<1>7. CASE ~UsbOffer
  <2>1. Goto("send") /\ usb' = usb
    BY <1>7 DEF OfferReplies
  <2>2. SupOk(n, k, sup') /\ sup'.queued = sup.queued /\ UsbOk(n, k, usb)'
    BY <1>1, <1>2, <2>1, GotoOk, AroundKept
  <2>3. MainOk(n, k, box', core', ses', sup'.queued)
    BY <1>1, <1>2, <2>2
  <2> QED
    BY <1>2, <1>3, <1>4, <1>5, <2>2, <2>3, OuterKeeps DEF OuterStep
<1> QED
  BY <1>6, <1>7

-----------------------------------------------------------------------------
(* The store, the transports, the App and the clocks. *)

\* Neither the mailbox nor the platform task moves.
LEMMA AroundMoves ==
  ASSUME NEW n \in Nat, NEW k \in Nat, SyncOk(n, k), UNCHANGED <<box, core, ses, sup>>,
         env'.scene = env.scene, AroundOk(n, k)', app'.sent = app.sent
  PROVE  SyncOk(n, k)'
<1>1. MainOk(n, k, box', core', ses', sup'.queued)
  BY DEF SyncOk
<1>2. box'.next - 1 <= app'.sent
  BY AroundFields
<1>3. ~env.scene.boot =>
        /\ Len(core'.lifecycle) <= 1 /\ (core'.lifecycle # <<>> => sup'.pc = "core")
        /\ StaleOk(box', core')
  BY MainFields DEF PromptOk
<1> QED
  BY <1>1, <1>2, <1>3, StepKeeps

\* A transport changes the routes of the mailbox.
LEMMA RoutesMove ==
  ASSUME NEW n \in Nat, NEW k \in Nat, SyncOk(n, k), UNCHANGED <<core, ses, sup, env>>,
         MailOk(n, k, box'), RouteStep(n, box, box'), AroundOk(n, k)', app'.sent \in Nat,
         app.sent <= app'.sent
  PROVE  SyncOk(n, k)'
<1>1. /\ MainOk(n, k, box', core', ses', sup'.queued) /\ box'.next = box.next
      /\ StaleOk(box, core) => StaleOk(box', core')
  BY MailMoves
<1>2. app.sent \in Nat /\ box.next \in Nat /\ box.next - 1 <= app.sent
  BY AroundFields, MainFields DEF AppOk
<1>3. box'.next - 1 <= app'.sent
  BY <1>1, <1>2
<1>4. ~env.scene.boot =>
        /\ Len(core'.lifecycle) <= 1 /\ (core'.lifecycle # <<>> => sup'.pc = "core")
        /\ StaleOk(box', core')
  BY <1>1, MainFields DEF PromptOk
<1> QED
  BY <1>1, <1>3, <1>4, StepKeeps

\* A transport puts a frame into the mailbox.
LEMMA FrameMoves ==
  ASSUME NEW n \in Nat, NEW k \in Nat, SyncOk(n, k), UNCHANGED <<core, ses, sup, env>>,
         NEW r, MailOk(n, k, box'), FrameStep(n, box, r, box'), AroundOk(n, k)',
         app'.sent = app.sent + 1
  PROVE  SyncOk(n, k)'
<1>1. /\ MailOk(n, k, box) /\ CoreTypes(n, k, core) /\ SesOk(n, ses)
      /\ PendingOk(core, ses) /\ SeqsOk(core, sup.queued) /\ LeasesOk(box, core, sup.queued)
      /\ CountOk(box, core) /\ HeldOk(box, core)
      /\ box.next \in Nat /\ Len(core.ingress) \in Nat
      /\ \A x \in Waiting(core) : x.route \in Routes(n)
  BY MainFields
<1> DEFINE a == sup.queued
<1>2. \A l \in Waiting(core) \cup Answering(core) \cup {a.lease} : l.id \in Nat
  <2>1. \A l \in Waiting(core) \cup Answering(core) : l.id \in Nat
    BY <1>1, CoreFields
  <2>2. a \in Answers(n, k)
    BY AroundFields DEF SupOk
  <2>3. a.lease.id \in Nat
    <3>1. a.lease \in Leases(n, k)
      BY <2>2, AnswerFields
    <3>2. a.lease.id \in 0..k
      BY <3>1, RoutesAndLeases
    <3> QED
      BY <3>2
  <2> QED
    BY <2>1, <2>3
<1>3. LeasesOk(box, core, a)
  BY <1>1
<1>4. /\ LeasesOk(box', core, a) /\ HeldOk(box', core) /\ CountOk(box', core)
      /\ StaleOk(box, core) => StaleOk(box', core)
  <2> HIDE DEF a
  <2> QED
    BY <1>1, <1>2, <1>3, FrameStepKeeps
<1>5. MainOk(n, k, box', core', ses', sup'.queued)
  BY <1>1, <1>4 DEF MainOk
<1>6. box'.next - 1 <= app'.sent
  <2>1. app.sent \in Nat /\ box.next - 1 <= app.sent /\ box'.next = box.next + 1
    BY AroundFields DEF AppOk, FrameStep
  <2> QED
    BY <1>1, <2>1
<1>7. ~env.scene.boot =>
        /\ Len(core'.lifecycle) <= 1 /\ (core'.lifecycle # <<>> => sup'.pc = "core")
        /\ StaleOk(box', core')
  BY <1>4, MainFields DEF PromptOk
<1> QED
  BY <1>5, <1>6, <1>7, StepKeeps

\* Only a clock of the core moves.
LEMMA TimerMoves ==
  ASSUME NEW n \in Nat, NEW k \in Nat, SyncOk(n, k), UNCHANGED <<box, ses, exec, sup, Carriers>>,
         SameQueues(core, core'), TimersOk(n, core')
  PROVE  SyncOk(n, k)'
<1>1. /\ MailOk(n, k, box) /\ CoreTypes(n, k, core) /\ SesOk(n, ses)
      /\ PendingOk(core, ses) /\ SeqsOk(core, sup.queued) /\ LeasesOk(box, core, sup.queued)
      /\ CountOk(box, core) /\ HeldOk(box, core) /\ PromptOk(sup.pc, box, core)
  BY MainFields
<1>2. CoreTypes(n, k, core')
  BY <1>1, QueuesKeepTypes
<1>3. /\ core'.ingress = core.ingress /\ core'.replies = core.replies /\ core'.lease = core.lease
      /\ core'.closed = core.closed /\ core'.seq = core.seq /\ core'.action = core.action
      /\ core'.lifecycle = core.lifecycle
  BY DEF SameQueues
<1> DEFINE a == sup.queued
<1>4. /\ LeasesOk(box, core', a) /\ SeqsOk(core', a)
      /\ Waiting(core') = Waiting(core) /\ Answering(core') = Answering(core)
  <2>1. LeasesOk(box, core, a) /\ SeqsOk(core, a)
    BY <1>1
  <2> HIDE DEF a
  <2> QED
    BY <1>1, <1>3, <2>1, SameRequests
<1>5. CountOk(box, core') /\ HeldOk(box, core') /\ (StaleOk(box, core) => StaleOk(box, core'))
  <2>1. CountOk(box, core')
    BY <1>1, <1>3 DEF CountOk
  <2>2. HeldOk(box, core')
    BY <1>1, <1>3, <1>4 DEF HeldOk
  <2>3. StaleOk(box, core) => StaleOk(box, core')
    BY <1>3, <1>4 DEF StaleOk, CloseDue
  <2> QED
    BY <2>1, <2>2, <2>3
<1>6. PendingOk(core', ses)
  BY <1>1, <1>3, PendingStays
<1>7. MainOk(n, k, box', core', ses', sup'.queued)
  BY <1>1, <1>2, <1>4, <1>5, <1>6 DEF MainOk
<1>8. AroundOk(n, k)'
  BY AroundKept DEF AroundOk, Carriers
<1>9. box'.next - 1 <= app'.sent /\ env'.scene = env.scene
  BY AroundFields DEF Carriers
<1>10. ~env.scene.boot =>
        /\ Len(core'.lifecycle) <= 1 /\ (core'.lifecycle # <<>> => sup'.pc = "core")
        /\ StaleOk(box', core')
  BY <1>1, <1>3, <1>5 DEF PromptOk
<1> QED
  BY <1>7, <1>8, <1>9, <1>10, StepKeeps

LEMMA AgesOk ==
  ASSUME NEW n \in Nat, NEW k \in Nat, SyncOk(n, k), PartialAges \/ OwnerAges
  PROVE  SyncOk(n, k)'
<1>1. CoreRecord(core) /\ TimersOk(n, core) /\ core.partial \in Timers(n) /\ core.owner \in Timers(n)
  BY MainFields DEF TimersOk
<1>2. CASE PartialAges
  <2> DEFINE t == [core.partial EXCEPT !.old = TRUE]
  <2>1. core.partial.route # NoRoute /\ core' = PartialSet(core, t)
        /\ UNCHANGED <<box, ses, exec, sup, Carriers>>
    BY <1>2 DEF PartialAges, PartialSet
  <2>2. t \in Timers(n)
    BY <1>1, <2>1, TimersAreTyped
  <2> HIDE DEF t
  <2>3. SameQueues(core, PartialSet(core, t)) /\ TimersOk(n, PartialSet(core, t))
    BY <1>1, <2>2, SetTimers
  <2> QED
    BY <2>1, <2>3, TimerMoves
<1>3. CASE OwnerAges
  <2> DEFINE t == [core.owner EXCEPT !.old = TRUE]
  <2>1. core.owner.route # NoRoute /\ core' = OwnerSet(core, t)
        /\ UNCHANGED <<box, ses, exec, sup, Carriers>>
    BY <1>3 DEF OwnerAges, OwnerSet
  <2>2. t \in Timers(n)
    BY <1>1, <2>1, TimersAreTyped
  <2> HIDE DEF t
  <2>3. SameQueues(core, OwnerSet(core, t)) /\ TimersOk(n, OwnerSet(core, t))
    BY <1>1, <2>2, SetTimers
  <2> QED
    BY <2>1, <2>3, TimerMoves
<1> QED
  BY <1>2, <1>3

\* A frame the App may send next, and the App once it is sent.
LEMMA SentOk ==
  ASSUME NEW n \in Nat, NEW k \in Nat, SyncOk(n, k), NEW f \in AppFrames, AppSent(f)
  PROVE  /\ f \in AppFrame /\ AppOk(k, app') /\ app'.sent = app.sent + 1 /\ app.sent \in Nat
         /\ box.next <= k
<1>1. /\ AppOk(k, app) /\ k = env.scene.frames /\ box.next - 1 <= app.sent /\ box.next \in Nat
      /\ env.scene.asked \subseteq Ops \cup Immediate \cup {"Bad"}
  BY AroundFields, SceneFields, MainFields
<1>2. /\ app = [req |-> app.req, cookie |-> app.cookie, sent |-> app.sent]
      /\ app.req \in Requests /\ app.cookie \in Nat /\ app.sent \in 0..k
      /\ app.req # NoRequest => app.req.op # "None"
  BY <1>1 DEF AppOk
<1>3. app.sent # k
  BY <1>1 DEF AppFrames
<1>4. \A op : Fragments(op) \subseteq Parts /\ {1} \subseteq Parts
  BY DEF Fragments, Parts
<1>5. app.req.op \in Ops \cup Immediate \cup {"None", "Bad"} /\ app.req.rid \in Nat /\ app.req.cookie \in Nat
  BY <1>2 DEF Requests
<1>6. f \in AppFrame
  <2>1. CASE app.req # NoRequest /\ f \in FramesOf(app.req, Fragments(app.req.op))
    BY <1>2, <1>4, <1>5, <2>1 DEF FramesOf, AppFrame
  <2>2. CASE \E op \in env.scene.asked : f \in FramesOf(NextRequest(op), {1})
    <3>1. PICK op \in env.scene.asked : f \in FramesOf(NextRequest(op), {1})
      BY <2>2
    <3> DEFINE x == app.req.rid + 1
               y == IF op \in BoundOps \cup {"Data"} THEN app.cookie ELSE 0
    <3>2. NextRequest(op) = [op |-> op, rid |-> x, cookie |-> y]
      BY DEF NextRequest
    <3>3. x \in Nat /\ y \in Nat /\ op \in Ops \cup Immediate \cup {"Bad"}
      BY <1>1, <1>2, <1>5
    <3> HIDE DEF x, y
    <3> QED
      BY <1>4, <3>1, <3>2, <3>3 DEF FramesOf, AppFrame
  <2> QED
    BY <2>1, <2>2 DEF AppFrames
<1>7. ReqOf(f) \in Requests /\ ReqOf(f).op # "None"
  <2>1. /\ f.op \in Ops \cup Immediate \cup {"Bad"} /\ f.rid \in Nat /\ f.cookie \in Nat
    BY <1>6 DEF AppFrame
  <2>2. f.op # "None"
    BY <2>1 DEF Ops, PlanOps, OpenOps, BoundOps, Immediate
  <2> QED
    BY <2>1, <2>2 DEF ReqOf, Requests
<1> DEFINE q == ReqOf(f)
           m == app.sent + 1
<1>8. app' = [app EXCEPT !.req = q, !.sent = m]
  BY DEF AppSent
<1>9. m \in 0..k
  BY <1>2, <1>3
<1> HIDE DEF q, m
<1>10. AppOk(k, app') /\ app'.sent = m
  <2>1. q \in Requests /\ q.op # "None"
    BY <1>7 DEF q
  <2> QED
    BY <1>2, <1>8, <1>9, <2>1 DEF AppOk
<1>11. box.next <= k
  BY <1>1, <1>2, <1>3
<1> QED
  BY <1>2, <1>6, <1>10, <1>11 DEF m

LEMMA FrameArrivesOk ==
  ASSUME NEW n \in Nat, NEW k \in Nat, SyncOk(n, k), NEW v \in Vias, NEW g \in 1..n,
         NEW f \in AppFrames, AppSent(f), box' = Received(box, RouteOf(v, g), f),
         UNCHANGED <<core, ses, sup, env>>, AppOk(k, app') => AroundOk(n, k)'
  PROVE  SyncOk(n, k)'
<1>1. /\ f \in AppFrame /\ AppOk(k, app') /\ app'.sent = app.sent + 1 /\ app.sent \in Nat
      /\ box.next <= k
  BY SentOk
<1> DEFINE r == RouteOf(v, g)
<1>2. r \in Lifes(n) /\ r.gen # 0
  BY RoutesAndLeases DEF RouteOf
<1> HIDE DEF r
<1>3. MailOk(n, k, box)
  BY MainFields
<1>4. box' = Received(box, r, f)
  BY DEF r
<1>5. MailOk(n, k, box') /\ (RouteStep(n, box, box') \/ FrameStep(n, box, r, box'))
  BY <1>1, <1>2, <1>3, <1>4, ReceivedMail
<1>6. AroundOk(n, k)' /\ app'.sent \in Nat /\ app.sent <= app'.sent
  BY <1>1
<1> QED
  BY <1>1, <1>5, <1>6, RoutesMove, FrameMoves

LEMMA UsbTakesFramesOk ==
  ASSUME NEW n \in Nat, NEW k \in Nat, SyncOk(n, k), UsbFrameArrives
  PROVE  SyncOk(n, k)'
<1>1. /\ UNCHANGED <<core, ses, exec, sup, usb, wifi, env>> /\ usb.epoch # 0
      /\ UsbOk(n, k, usb) /\ env.scene.mounts \in 0..n
  BY AroundFields, SceneFields DEF UsbFrameArrives
<1>2. "usb" \in Vias /\ usb.epoch \in 1..n
  BY <1>1 DEF Vias, UsbOk
<1>3. AppOk(k, app') => AroundOk(n, k)'
  BY <1>1, AroundKept DEF AroundOk
<1>4. PICK f \in AppFrames : box' = Received(box, RouteOf("usb", usb.epoch), f) /\ AppSent(f)
  BY DEF UsbFrameArrives
<1> QED
  BY <1>1, <1>2, <1>3, <1>4, FrameArrivesOk

LEMMA UsbLifetimeOk ==
  ASSUME NEW n \in Nat, NEW k \in Nat, SyncOk(n, k), Mount \/ Unmount
  PROVE  SyncOk(n, k)'
<1>1. UsbOk(n, k, usb) /\ env.scene.mounts \in Nat
  BY AroundFields, SceneFields
<1>2. UNCHANGED <<box, core, ses, exec, sup, wifi, app, env>>
  BY DEF Mount, Unmount
<1>3. UsbOk(n, k, usb)'
  <2>1. CASE Mount
    <3> DEFINE x == usb.last + 1
    <3>1. usb' = [usb EXCEPT !.epoch = x, !.last = x] /\ usb.last < env.scene.mounts
      BY <2>1 DEF Mount
    <3>2. x \in 0..env.scene.mounts /\ x \in 0..x
      BY <1>1, <3>1 DEF UsbOk
    <3> HIDE DEF x
    <3> QED
      BY <1>1, <1>2, <3>1, <3>2 DEF UsbOk
  <2>2. CASE Unmount
    <3>1. usb' = [usb EXCEPT !.epoch = 0]
      BY <2>2 DEF Unmount
    <3>2. 0 \in 0..usb.last
      BY <1>1 DEF UsbOk
    <3> QED
      BY <1>1, <1>2, <3>1, <3>2 DEF UsbOk
  <2> QED
    BY <2>1, <2>2
<1>4. AroundOk(n, k)'
  BY <1>2, <1>3, AroundKept DEF AroundOk
<1> QED
  BY <1>2, <1>4, AroundMoves

LEMMA StoreWorksOk ==
  ASSUME NEW n \in Nat, NEW k \in Nat, SyncOk(n, k), StoreWorks
  PROVE  SyncOk(n, k)'
<1>1. ExecOk(exec) /\ UNCHANGED <<box, core, ses, sup, usb, wifi, app, env>>
  BY AroundFields DEF StoreWorks, Carriers
<1>2. ExecOk(exec')
  <2>1. PICK x \in {"ok", "fail", "other"} :
          exec' = [exec EXCEPT !.stage = x,
                               !.done = IF x = "fail" THEN @ ELSE @ \cup {exec.action}]
    BY DEF StoreWorks
  <2> DEFINE y == IF x = "fail" THEN exec.done ELSE exec.done \cup {exec.action}
  <2>2. exec' = [exec EXCEPT !.stage = x, !.done = y]
    BY <2>1
  <2> HIDE DEF y
  <2> QED
    BY <1>1, <2>2 DEF ExecOk
<1>3. AroundOk(n, k)'
  BY <1>1, <1>2, AroundKept DEF AroundOk
<1> QED
  BY <1>1, <1>3, AroundMoves

LEMMA VoiceAndBootOk ==
  ASSUME NEW n \in Nat, NEW k \in Nat, SyncOk(n, k), VoiceTurns \/ BootReadEnds
  PROVE  SyncOk(n, k)'
<1>1. /\ SupOk(n, k, sup) /\ UsbOk(n, k, usb) /\ WifiOk(n, k, wifi) /\ AppOk(k, app) /\ EnvOk(env)
      /\ ExecOk(exec)
  BY AroundFields
<1>2. UNCHANGED <<box, core, ses, exec, sup, usb, wifi, app>>
  BY DEF VoiceTurns, BootReadEnds
<1>3. EnvOk(env') /\ env'.scene = env.scene
  <2>1. CASE VoiceTurns
    <3> DEFINE x == ~env.voice
               y == IF env.voice THEN env.turns ELSE env.turns + 1
    <3>1. env' = [env EXCEPT !.voice = x, !.turns = y]
      BY <2>1 DEF VoiceTurns
    <3> HIDE DEF x, y
    <3> QED
      BY <1>1, <3>1 DEF EnvOk
  <2>2. CASE BootReadEnds
    BY <1>1, <2>2 DEF EnvOk, BootReadEnds
  <2> QED
    BY <2>1, <2>2
<1>4. UsbOk(n, k, usb)' /\ WifiOk(n, k, wifi)'
  BY <1>1, <1>2, <1>3 DEF UsbOk, WifiOk
<1>5. AroundOk(n, k)'
  BY <1>1, <1>2, <1>3, <1>4 DEF AroundOk
<1> QED
  BY <1>2, <1>3, <1>5, AroundMoves

-----------------------------------------------------------------------------
(* The Wi-Fi carrier. *)

LEMMA GoesOk ==
  ASSUME NEW n \in Nat, NEW k \in Nat, SyncOk(n, k), env' = env, wifi.pc # "idle",
         NEW p \in {"idle", "greet", "read", "wait", "send", "retire", "leave", "deactivate", "close"},
         WifiGoes(p)
  PROVE  WifiOk(n, k, wifi)'
<1>1. WifiOk(n, k, wifi)
  BY AroundFields
<1> QED
  BY <1>1 DEF WifiOk, WifiGoes

LEMMA WifiTakesFramesOk ==
  ASSUME NEW n \in Nat, NEW k \in Nat, SyncOk(n, k), WifiFrameArrives
  PROVE  SyncOk(n, k)'
<1>1. /\ UNCHANGED <<core, ses, exec, sup, usb, env>> /\ wifi.pc = "read"
      /\ WifiOk(n, k, wifi) /\ env.scene.links \in 0..n /\ env.scene.links \in Nat
  BY AroundFields, SceneFields DEF WifiFrameArrives
<1>2. "wifi" \in Vias /\ wifi.gen \in 1..n
  BY <1>1 DEF Vias, WifiOk
<1>3. PICK f \in AppFrames : /\ box' = Received(box, RouteOf("wifi", wifi.gen), f)
                             /\ WifiGoes("wait") \/ WifiGoes("leave")
                             /\ AppSent(f)
  BY DEF WifiFrameArrives, WifiRoute, FrameRead
<1>4. WifiOk(n, k, wifi)'
  BY <1>1, <1>3, GoesOk
<1>5. AppOk(k, app') => AroundOk(n, k)'
  BY <1>1, <1>4, AroundKept DEF AroundOk
<1> QED
  BY <1>1, <1>2, <1>3, <1>5, FrameArrivesOk

LEMMA WifiConnectOk ==
  ASSUME NEW n \in Nat, NEW k \in Nat, SyncOk(n, k), WifiConnect
  PROVE  SyncOk(n, k)'
<1>1. /\ UNCHANGED <<core, ses, exec, sup, usb, app, env>> /\ wifi.gen < env.scene.links
      /\ WifiOk(n, k, wifi) /\ env.scene.links \in 0..n /\ env.scene.links \in Nat
      /\ MailOk(n, k, box)
  BY AroundFields, SceneFields, MainFields DEF WifiConnect, ListenerIsReady
<1> DEFINE g == wifi.gen + 1
           p == IF box'.route["wifi"] = wifi.gen + 1 THEN "greet" ELSE "idle"
<1>2. box' = Ensured(box, "wifi", g) /\ wifi' = [wifi EXCEPT !.gen = g, !.pc = p]
  BY DEF WifiConnect
<1>3. /\ g \in 0..n /\ g \in 0..env.scene.links /\ g # 0 /\ "wifi" \in Vias
      /\ p \in {"greet", "idle"}
  BY <1>1 DEF WifiOk, Vias
<1> HIDE DEF g, p
<1>4. WifiOk(n, k, wifi)'
  BY <1>1, <1>2, <1>3 DEF WifiOk
<1>5. MailOk(n, k, box') /\ RouteStep(n, box, box')
  BY <1>1, <1>2, <1>3, EnsuredMail
<1>6. AroundOk(n, k)'
  BY <1>1, <1>4, AroundKept DEF AroundOk
<1>7. app'.sent \in Nat /\ app.sent <= app'.sent
  BY <1>1, AroundFields DEF AppOk
<1> QED
  BY <1>1, <1>5, <1>6, <1>7, RoutesMove

LEMMA WifiCloseRouteOk ==
  ASSUME NEW n \in Nat, NEW k \in Nat, SyncOk(n, k), WifiCloseRoute
  PROVE  SyncOk(n, k)'
<1>1. /\ UNCHANGED <<core, ses, exec, sup, usb, app, env>> /\ wifi.pc = "close" /\ WifiGoes("idle")
      /\ WifiOk(n, k, wifi) /\ env.scene.links \in 0..n /\ MailOk(n, k, box)
      /\ box' = Forgotten(box, WifiRoute)
  BY AroundFields, SceneFields, MainFields DEF WifiCloseRoute
<1> DEFINE r == WifiRoute
<1>2. r \in Lifes(n)
  <2>1. wifi.gen \in 0..n /\ "wifi" \in Vias
    BY <1>1, SceneFields DEF WifiOk, Vias
  <2> QED
    BY <2>1, RoutesAndLeases DEF WifiRoute
<1>3. box' = Forgotten(box, r)
  BY <1>1
<1> HIDE DEF r
<1>4. MailOk(n, k, box') /\ RouteStep(n, box, box')
  BY <1>1, <1>2, <1>3, ForgottenMail
<1>5. WifiOk(n, k, wifi)'
  BY <1>1, GoesOk
<1>6. AroundOk(n, k)'
  BY <1>1, <1>5, AroundKept DEF AroundOk
<1>7. app'.sent \in Nat /\ app.sent <= app'.sent
  BY <1>1, AroundFields DEF AppOk
<1> QED
  BY <1>1, <1>4, <1>6, <1>7, RoutesMove

\* What the carrier does by itself.
CarrierStep ==
  \/ WifiGreet \/ WifiTakeResponse \/ WifiSend \/ WifiNext
  \/ WifiGreetFails \/ WifiLeaves \/ WifiDeactivate

LEMMA CarrierStepOk ==
  ASSUME NEW n \in Nat, NEW k \in Nat, SyncOk(n, k), CarrierStep
  PROVE  SyncOk(n, k)'
<1>1. /\ WifiOk(n, k, wifi) /\ AppOk(k, app) /\ NoAnswer \in Answers(n, k)
      /\ UNCHANGED <<box, core, ses, exec, sup, usb, env>> /\ wifi.pc # "idle"
  BY AroundFields, NoAnswerOk
     DEF CarrierStep, WifiGreet, WifiTakeResponse, WifiSend, WifiNext, WifiGreetFails, WifiLeaves,
         WifiDeactivate, WifiServing, ResponseWritten, AcceptedPublished
<1>2. /\ wifi.pending \in Answers(n, k) /\ wifi.sending \in Answers(n, k)
      /\ wifi.accepted \in Answers(n, k) /\ OwnSlot \in Answers(n, k)
  BY <1>1 DEF WifiOk, OwnSlot
<1>3. WifiOk(n, k, wifi)'
  <2>1. CASE WifiGreet \/ WifiNext \/ WifiGreetFails \/ WifiDeactivate
    <3>1. WifiGoes("read") \/ WifiGoes("close")
      BY <2>1 DEF WifiGreet, WifiNext, WifiGreetFails, WifiDeactivate
    <3> QED
      BY <1>1, <3>1, GoesOk
  <2> DEFINE o == OwnSlot
  <2> HIDE DEF o
  <2>2. CASE WifiTakeResponse
    <3>1. wifi' = [wifi EXCEPT !.sending = wifi.pending, !.pending = o, !.pc = "send"]
      BY <2>2 DEF WifiTakeResponse, o
    <3>2. o \in Answers(n, k)
      BY <1>2 DEF o
    <3> QED
      BY <1>1, <3>1, <3>2 DEF WifiOk
  <2>3. CASE WifiSend
    BY <1>1, <2>3 DEF WifiOk, WifiSend, AcceptedPublished
  <2>4. CASE WifiLeaves
    <3>1. wifi' = [wifi EXCEPT !.pending = o, !.sending = NoAnswer, !.pc = "deactivate"]
      BY <2>4 DEF WifiLeaves, o
    <3>2. o \in Answers(n, k)
      BY <1>2 DEF o
    <3> QED
      BY <1>1, <3>1, <3>2 DEF WifiOk
  <2> QED
    BY <2>1, <2>2, <2>3, <2>4 DEF CarrierStep
<1>4. AppOk(k, app') /\ app'.sent = app.sent
  <2>1. app' = app \/ app' = Told(wifi.sending)
    BY DEF CarrierStep, WifiGreet, WifiTakeResponse, WifiSend, WifiNext, WifiGreetFails, WifiLeaves,
           WifiDeactivate, ResponseWritten
  <2> QED
    BY <1>1, <1>2, <2>1, ToldOk
<1>5. AroundOk(n, k)'
  BY <1>1, <1>3, <1>4, AroundKept DEF AroundOk
<1> QED
  BY <1>1, <1>4, <1>5, AroundMoves

-----------------------------------------------------------------------------
(* Every step keeps the invariant; what follows from it. *)

LEMMA SyncIsKept ==
  ASSUME BootIsQuiet, NEW n \in Nat, NEW k \in Nat, SyncOk(n, k), [Next]_vars
  PROVE  SyncOk(n, k)'
<1>1. CASE Platform
  BY <1>1, SendUsbReplyOk, ReadUsbEpochOk, ObserveUsbRouteOk, RetireWifiReplyOk, ImportOneOk,
     CoreStepKeeps, OfferRepliesOk DEF Platform
<1>2. CASE WifiCarrier
  BY <1>2, WifiConnectOk, WifiTakesFramesOk, WifiCloseRouteOk, CarrierStepOk
     DEF WifiCarrier, CarrierStep
<1>3. CASE StoreWorks
  BY <1>3, StoreWorksOk
<1>4. CASE UsbFrameArrives
  BY <1>4, UsbTakesFramesOk
<1>5. CASE Mount \/ Unmount
  BY <1>5, UsbLifetimeOk
<1>6. CASE PartialAges \/ OwnerAges
  BY <1>6, AgesOk
<1>7. CASE VoiceTurns \/ BootReadEnds
  BY <1>7, VoiceAndBootOk
<1>8. CASE UNCHANGED vars
  <2>1. UNCHANGED <<box, core, ses, exec, sup, usb, wifi, app, env>>
    BY <1>8 DEF vars
  <2>2. AroundOk(n, k)'
    BY <2>1, AroundKept DEF AroundOk
  <2> QED
    BY <2>1, <2>2, AroundMoves
<1> QED
  BY <1>1, <1>2, <1>3, <1>4, <1>5, <1>6, <1>7, <1>8 DEF Next

Synchronised == \E n, k \in Nat : SyncOk(n, k)

LEMMA AlwaysSynchronised ==
  ASSUME BootIsQuiet
  PROVE  Spec => []Synchronised
<1>1. Init => Synchronised
  BY InitIsOk DEF Synchronised
<1>2. Synchronised /\ [Next]_vars => Synchronised'
  <2> SUFFICES ASSUME Synchronised, [Next]_vars PROVE Synchronised'
    OBVIOUS
  <2>1. PICK n \in Nat, k \in Nat : SyncOk(n, k)
    BY DEF Synchronised
  <2>2. SyncOk(n, k)'
    BY <2>1, SyncIsKept
  <2> QED
    BY <2>2 DEF Synchronised
<1> QED
  BY <1>1, <1>2, PTL DEF Spec

\* The admission is never lost: while it is reserved for a route the core has not closed for
\* good, the request it was given to is still in the mailbox, in the core, at the store or
\* waiting as an answer (reserve_logical_frame_request, release_logical_request).
THEOREM AdmissionIsHeld == BootIsQuiet /\ Spec => []AdmissionHeld
<1>1. Synchronised => AdmissionHeld
  <2> SUFFICES ASSUME Synchronised, box.reserved # NoLease, ~StruckOff(box.reserved.route)
               PROVE  \/ \E rec \in Range(box.data) : rec.lease = box.reserved
                      \/ \E e \in Range(core.ingress) \cup Range(core.replies) : e.lease = box.reserved
                      \/ core.lease = box.reserved
    BY DEF AdmissionHeld
  <2>1. PICK n \in Nat, k \in Nat : SyncOk(n, k)
    BY DEF Synchronised
  <2>2. MailOk(n, k, box) /\ HeldOk(box, core)
    BY <2>1, MainFields
  <2>3. box.reserved.route \notin core.closed
    BY <2>2 DEF MailOk, AdmissionOk, StruckOff
  <2>4. FrameAt(box.data) # {} \/ box.reserved \in Waiting(core) \cup Answering(core)
    BY <2>2, <2>3 DEF HeldOk
  <2>5. CASE FrameAt(box.data) # {}
    <3>1. PICK i \in FrameAt(box.data) : TRUE
      BY <2>5
    <3>2. i \in DOMAIN box.data /\ box.data[i].lease = box.reserved
      BY <2>2 DEF MailOk, DataOk, FrameAt
    <3> QED
      BY <3>2 DEF Range
  <2>6. CASE box.reserved \in Waiting(core)
    BY <2>6 DEF Waiting, Range
  <2>7. CASE box.reserved \in Answering(core)
    BY <2>7 DEF Answering, Range
  <2> QED
    BY <2>4, <2>5, <2>6, <2>7
<1>2. BootIsQuiet => (Spec => []Synchronised)
  BY AlwaysSynchronised
<1> QED
  BY <1>1, <1>2, PTL

LEMMA AnswersAreOk ==
  ASSUME NEW n \in Nat, NEW k \in Nat, SyncOk(n, k)
  PROVE  /\ \A l \in Leases(n, k) : LeaseOk(l)
         /\ \A a \in Answers(n, k) : AnswerOk(a)
<1>1. n = env.scene.mounts + env.scene.links /\ k = env.scene.frames
  BY AroundFields
<1>2. ASSUME NEW l \in Leases(n, k) PROVE LeaseOk(l)
  <2>1. l.route \in Routes(n) /\ l.id \in 0..k
    BY RoutesAndLeases
  <2>2. l.route.via \in Vias \cup {"none"} /\ l.route.gen \in 0..n
    BY <2>1 DEF Routes
  <2> QED
    BY <1>1, <2>1, <2>2 DEF LeaseOk
<1>3. ASSUME NEW a \in Answers(n, k) PROVE AnswerOk(a)
  BY <1>2, AnswerFields DEF AnswerOk
<1> QED
  BY <1>2, <1>3

\* Every component keeps its type and every queue stays within its array.
THEOREM TypeCorrect == BootIsQuiet /\ Spec => []TypeOK
<1>1. Synchronised => TypeOK
  <2> SUFFICES ASSUME Synchronised PROVE TypeOK
    OBVIOUS
  <2>1. PICK n \in Nat, k \in Nat : SyncOk(n, k)
    BY DEF Synchronised
  <2>2. /\ SupOk(n, k, sup) /\ UsbOk(n, k, usb) /\ WifiOk(n, k, wifi) /\ ExecOk(exec)
        /\ MailOk(n, k, box) /\ CoreTypes(n, k, core) /\ SesTypes(n, ses) /\ PendingOk(core, ses)
        /\ k = env.scene.frames
    BY <2>1, AroundFields, MainFields
  <2>3. /\ \A l \in Leases(n, k) : LeaseOk(l)
        /\ \A a \in Answers(n, k) : AnswerOk(a)
    BY <2>1, AnswersAreOk
  <2>4. /\ Len(box.data) <= DataSlots /\ Len(box.closes) <= CloseSlots
        /\ box.next \in 1..(env.scene.frames + 1) /\ box.reserved \in Leases(n, k)
        /\ box.data \in Seq(Records(n, k))
    BY <2>2 DEF MailOk, DataOk, Mailboxes
  <2>5. \A rec \in Range(box.data) : rec.kind \in {"Open", "Close", "Frame"} /\ LeaseOk(rec.lease)
    <3> SUFFICES ASSUME NEW i \in DOMAIN box.data
                 PROVE  box.data[i].kind \in {"Open", "Close", "Frame"} /\ LeaseOk(box.data[i].lease)
      BY DEF Range
    <3>1. box.data[i] \in Records(n, k)
      BY <2>4
    <3>2. box.data[i].lease \in Leases(n, k)
      BY <3>1, RoutesAndLeases
    <3> QED
      BY <2>3, <3>1, <3>2 DEF Records
  <2>6. /\ Len(core.lifecycle) <= LifecycleSlots /\ Len(core.ingress) <= DataSlots
        /\ Len(core.replies) <= ReplySlots /\ Cardinality(core.active) <= ActiveRoutes
        /\ core.replies \in Seq(Answers(n, k))
    BY <2>2 DEF CoreTypes
  <2>7. \A a \in Range(core.replies) \cup {sup.queued, usb.slot, wifi.pending, wifi.sending,
                                           wifi.accepted} : AnswerOk(a)
    <3>1. /\ sup.queued \in Answers(n, k) /\ usb.slot \in Answers(n, k) /\ wifi.pending \in Answers(n, k)
          /\ wifi.sending \in Answers(n, k) /\ wifi.accepted \in Answers(n, k)
      BY <2>2 DEF SupOk, UsbOk, WifiOk
    <3>2. \A a \in Range(core.replies) : a \in Answers(n, k)
      BY <2>6 DEF Range
    <3> QED
      BY <2>3, <3>1, <3>2
  <2>8. /\ ses.phase \in {"Idle", "BeginAssembly", "Ready", "UnitAssembly", "ActionPending"}
        /\ (ses.phase = "ActionPending") = (core.action # NoAction)
    BY <2>2 DEF SesTypes, PendingOk
  <2>9. /\ exec.stage \in {"none", "running", "ok", "other", "fail"}
        /\ sup.pc \in {"send", "epoch", "observe", "retire", "import", "core", "offer"}
        /\ sup.left \in 0..CoreSteps
        /\ wifi.pc \in {"idle", "greet", "read", "wait", "send", "retire", "leave", "deactivate", "close"}
    BY <2>2 DEF ExecOk, SupOk, WifiOk
  <2> QED
    BY <2>3, <2>4, <2>5, <2>6, <2>7, <2>8, <2>9 DEF TypeOK
<1>2. BootIsQuiet => (Spec => []Synchronised)
  BY AlwaysSynchronised
<1> QED
  BY <1>1, <1>2, PTL
-----------------------------------------------------------------------------
(* What the end of a route leaves of the session, and of its memory. *)

\* The session loses its route, answers of other routes, or nothing; what is pending keeps
\* what it borrows.
Fades(s, t) ==
  /\ t.nextCookie = s.nextCookie
  /\ t.route # NoRoute => t.route = s.route /\ t.cookie = s.cookie
  /\ \A i \in 1..ReplaySlots :
       \/ t.replay[i] = s.replay[i]
       \/ /\ t.replay[i] = NoEntry
          /\ t.route = NoRoute \/ s.replay[i].action.route # t.route
  /\ s.phase = "ActionPending" =>
       /\ t.decoded = s.decoded /\ (s.pending.orphaned => t.pending.orphaned)
       /\ s.pending.action.op = "Data" => t.unit = s.unit

LEMMA BindingFades ==
  ASSUME NEW s, s.phase # "ActionPending", NEW t, SameBinding(s, t)
  PROVE  Fades(s, t)
BY DEF SameBinding, Fades

LEMMA NothingFades == ASSUME NEW s PROVE Fades(s, s)
BY DEF Fades

LEMMA OrphanedFields ==
  ASSUME NEW n \in Nat, NEW s, SesTypes(n, s), NEW t, t = Orphaned(s)
  PROVE  /\ t.route = NoRoute /\ t.replay = s.replay /\ t.nextCookie = s.nextCookie
         /\ t.decoded = s.decoded /\ t.pending.orphaned
         /\ s.pending.action.op = "Data" => t.unit = s.unit
<1> DEFINE u == IF s.pending.action.op = "Data" THEN s ELSE Unassembled(s)
<1>1. t = [Unbound(u) EXCEPT !.pending.orphaned = TRUE] /\ SesRecord(s) /\ s.pending \in Pendings(n)
  BY DEF Orphaned, SesTypes
<1>2. /\ SesRecord(u) /\ u.pending = s.pending /\ u.decoded = s.decoded
      /\ u.nextCookie = s.nextCookie /\ u.replay = s.replay
      /\ s.pending.action.op = "Data" => u.unit = s.unit
  BY <1>1 DEF Unassembled, SesRecord
<1> HIDE DEF u
<1> DEFINE p == [u.pending EXCEPT !.orphaned = TRUE]
<1>3. t = [u EXCEPT !.route = NoRoute, !.cookie = 0, !.pending = p]
  BY <1>1, <1>2 DEF Unbound, SesRecord
<1>4. p.orphaned
  BY <1>1, <1>2 DEF Pendings
<1> HIDE DEF p
<1>5. /\ t.route = NoRoute /\ t.pending = p /\ t.decoded = u.decoded /\ t.unit = u.unit
      /\ t.nextCookie = u.nextCookie /\ t.replay = u.replay
  BY <1>2, <1>3 DEF SesRecord
<1> QED
  BY <1>2, <1>4, <1>5

LEMMA ResetFields ==
  ASSUME NEW s, SesRecord(s), NEW t, t = Reset(s)
  PROVE  /\ SesRecord(t) /\ t.route = NoRoute /\ t.replay = s.replay
         /\ t.nextCookie = s.nextCookie
<1>1. t = [s EXCEPT !.plan = NoPlan, !.unit = NoUnit, !.route = NoRoute, !.cookie = 0, !.phase = "Idle"]
  BY DEF Reset, Unbound, Unassembled, SesRecord
<1> QED
  BY <1>1 DEF SesRecord

LEMMA ReplayFields ==
  ASSUME NEW s, SesRecord(s), NEW h, NEW j, NEW t, t = WithReplay(s, h, j)
  PROVE  /\ SesRecord(t) /\ t.replay = h /\ t.phase = s.phase /\ t.route = s.route
         /\ t.cookie = s.cookie /\ t.nextCookie = s.nextCookie /\ t.decoded = s.decoded
         /\ t.unit = s.unit /\ t.pending = s.pending /\ t.plan = s.plan
BY DEF SesRecord, WithReplay

\* A route is closed.
LEMMA RouteClosedFades ==
  ASSUME NEW n \in Nat, NEW s, SesOk(n, s), NEW r \in Lifes(n), NEW t, t = RouteClosed(s, r)
  PROVE  /\ Fades(s, t)
         /\ s.phase = "ActionPending" /\ s.pending.action.route = r => t.pending.orphaned
<1> DEFINE h == [i \in 1..ReplaySlots |->
                   IF s.replay[i].action.route = r THEN NoEntry ELSE s.replay[i]]
           f == Forget(s, r)
<1>1. SesRecord(s) /\ s.slot \in 1..ReplaySlots /\ \A i \in 1..ReplaySlots : MemoryOk(n, s.replay[i])
  BY DEF SesOk, SesTypes
<1>2. f = WithReplay(s, h, s.slot)
  BY <1>1 DEF Forget, SesRecord, WithReplay
<1>3. ReplayOk(n, h)
  BY <1>1, NoEntryOk DEF ReplayOk
<1>4. \A i \in 1..ReplaySlots :
        h[i] = s.replay[i] \/ (h[i] = NoEntry /\ s.replay[i].action.route = r)
  OBVIOUS
<1> HIDE DEF h
<1>5. t = IF s.pending.action.route = r THEN Orphaned(f)
          ELSE IF s.route = r \/ s.plan.route = r THEN Reset(f) ELSE f
  BY DEF RouteClosed
<1> HIDE DEF f
<1>6. /\ SesRecord(f) /\ f.replay = h /\ f.phase = s.phase /\ f.route = s.route
      /\ f.cookie = s.cookie /\ f.nextCookie = s.nextCookie /\ f.decoded = s.decoded
      /\ f.unit = s.unit /\ f.pending = s.pending /\ f.plan = s.plan
  BY <1>1, <1>2, ReplayFields
<1>7. SesTypes(n, f)
  BY <1>1, <1>2, <1>3, ReplayWritten DEF SesOk
<1>8. CASE s.pending.action.route = r
  BY <1>4, <1>5, <1>6, <1>7, <1>8, OrphanedFields DEF Fades
<1>9. CASE s.pending.action.route # r /\ (s.route = r \/ s.plan.route = r)
  <2>1. s.phase # "ActionPending"
    BY <1>9, RoutesAndLeases DEF SesOk, PhaseOk
  <2>2. t.route = NoRoute /\ t.replay = h /\ t.nextCookie = s.nextCookie
    BY <1>5, <1>6, <1>9, ResetFields
  <2> QED
    BY <1>4, <2>1, <2>2 DEF Fades
<1>10. CASE s.pending.action.route # r /\ ~(s.route = r \/ s.plan.route = r)
  <2>1. t = f
    BY <1>5, <1>10
  <2> QED
    BY <1>4, <1>6, <1>10, <2>1 DEF Fades
<1> QED
  BY <1>8, <1>9, <1>10

\* All routes are closed.
LEMMA AllRoutesClosedFades ==
  ASSUME NEW n \in Nat, NEW s, SesOk(n, s), NEW t, t = AllRoutesClosed(s)
  PROVE  /\ Fades(s, t) /\ t.route = NoRoute
         /\ s.phase = "ActionPending" => t.pending.orphaned
<1> DEFINE f == [s EXCEPT !.replay = NoEntries, !.slot = 1]
<1>1. t = IF s.pending # NoPending THEN Orphaned(f) ELSE Reset(f)
  BY DEF AllRoutesClosed
<1>2. ReplayOk(n, NoEntries) /\ 1 \in 1..ReplaySlots /\ \A i \in 1..ReplaySlots : NoEntries[i] = NoEntry
  BY NoEntryOk, SessionHasReplay DEF NoEntries, ReplayOk
<1>3. f = WithReplay(s, NoEntries, 1) /\ SesRecord(s)
  BY DEF WithReplay, SesOk, SesTypes
<1> HIDE DEF f
<1>4. /\ SesRecord(f) /\ f.replay = NoEntries /\ f.phase = s.phase
      /\ f.nextCookie = s.nextCookie /\ f.decoded = s.decoded
      /\ f.unit = s.unit /\ f.pending = s.pending
  BY <1>3, ReplayFields
<1>5. SesTypes(n, f)
  BY <1>2, <1>3, ReplayWritten DEF SesOk
<1>6. CASE s.pending # NoPending
  <2>1. t = Orphaned(f)
    BY <1>1, <1>6
  <2> QED
    BY <1>2, <1>4, <1>5, <2>1, OrphanedFields DEF Fades
<1>7. CASE s.pending = NoPending
  <2>1. s.phase # "ActionPending"
    BY <1>7, EmptyFields DEF SesOk, PhaseOk
  <2>2. t.route = NoRoute /\ t.replay = NoEntries /\ t.nextCookie = s.nextCookie
    BY <1>1, <1>4, <1>7, ResetFields
  <2> QED
    BY <1>2, <2>1, <2>2 DEF Fades
<1> QED
  BY <1>6, <1>7

\* A partial is given up.
LEMMA PartialFades ==
  ASSUME NEW n \in Nat, NEW s, SesOk(n, s), NEW r, NEW t, t = PartialExpired(s, r)
  PROVE  Fades(s, t)
<1>1. SesRecord(s)
  BY DEF SesOk, SesTypes
<1>2. SameBinding(s, t) /\ (s.phase = "ActionPending" => t = s)
  BY <1>1, PartialExpiredBinding
<1> QED
  BY <1>2, BindingFades, NothingFades

-----------------------------------------------------------------------------
(* What the end of an action leaves of the session. *)

\* What the session became: a new one, the same, or none.
Ended(s, ok, e) ==
  LET a == s.pending.action
      t == e.ses
  IN  /\ \/ a.op \notin Carrying /\ t.route = a.route /\ t.cookie = s.nextCookie
            /\ t.nextCookie = s.nextCookie + 1
         \/ t.route = s.route /\ t.cookie = s.cookie /\ t.nextCookie = s.nextCookie
         \/ t.route = NoRoute /\ t.nextCookie = s.nextCookie
      /\ IF ok
         THEN \E j \in 1..ReplaySlots :
                t.replay = [s.replay EXCEPT ![j] = [action |-> a, reply |-> e.reply]]
         ELSE t.replay = s.replay /\ e.reply.status # "Ok"

LEMMA RememberFields ==
  ASSUME NEW s, SesRecord(s), NEW a, NEW x, NEW t, t = Remember(s, a, x)
  PROVE  /\ t.route = s.route /\ t.cookie = s.cookie /\ t.nextCookie = s.nextCookie
         /\ t.replay = [s.replay EXCEPT ![s.slot] = [action |-> a, reply |-> x]]
<1> DEFINE h == [s.replay EXCEPT ![s.slot] = [action |-> a, reply |-> x]]
           j == IF s.slot = ReplaySlots THEN 1 ELSE s.slot + 1
<1>1. t = [s EXCEPT !.replay = h, !.slot = j]
  BY DEF Remember
<1> HIDE DEF h, j
<1>2. t.route = s.route /\ t.cookie = s.cookie /\ t.nextCookie = s.nextCookie /\ t.replay = h
  BY <1>1 DEF SesRecord
<1> QED
  BY <1>2 DEF h

LEMMA CompletedEnds ==
  ASSUME NEW n \in Nat, NEW s, SesOk(n, s), s.phase = "ActionPending", NEW ok \in BOOLEAN,
         NEW outcome, NEW e, e = Completed(s, ok, outcome)
  PROVE  e.kind = "Reply" /\ Ended(s, ok, e)
<1> DEFINE a == s.pending.action
           u == IF a.op = "Data" THEN NoUnit ELSE s.unit
           base == [s EXCEPT !.pending = NoPending, !.unit = u]
           bound == [base EXCEPT !.route = a.route, !.cookie = s.nextCookie,
                                 !.nextCookie = @ + 1, !.phase = "Ready"]
           ready == [base EXCEPT !.phase = "Ready"]
           idle == [Unbound(base) EXCEPT !.phase = "Idle"]
           failed == IF a.op \in BoundOps \cup {"Data"} THEN ready ELSE idle
           won == CASE Binds(a, outcome) -> bound
                    [] StaysBound(a) -> ready
                    [] OTHER -> Reset(base)
           reply == Status("Ok", IF Binds(a, outcome) THEN bound.cookie ELSE a.cookie)
<1>1. e = IF ok THEN [ses |-> Remember(won, a, reply), kind |-> "Reply", reply |-> reply]
          ELSE [ses |-> failed, kind |-> "Reply", reply |-> Status("Failed", a.cookie)]
  BY DEF Completed
<1>2. SesRecord(s) /\ s.slot \in 1..ReplaySlots
  BY DEF SesOk, SesTypes
<1>5. base = [s EXCEPT !.pending = NoPending, !.unit = u]
  OBVIOUS
<1>6. bound = [base EXCEPT !.route = a.route, !.cookie = s.nextCookie,
                           !.nextCookie = @ + 1, !.phase = "Ready"]
      /\ ready = [base EXCEPT !.phase = "Ready"] /\ idle = [Unbound(base) EXCEPT !.phase = "Idle"]
  OBVIOUS
<1> HIDE DEF u, base
<1>7. /\ SesRecord(base) /\ base.route = s.route /\ base.cookie = s.cookie
      /\ base.nextCookie = s.nextCookie /\ base.replay = s.replay /\ base.slot = s.slot
  BY <1>2, <1>5 DEF SesRecord
<1> HIDE DEF bound, ready, idle, a
<1>8. /\ SesRecord(bound) /\ bound.route = a.route /\ bound.cookie = s.nextCookie
      /\ bound.nextCookie = s.nextCookie + 1 /\ bound.replay = s.replay /\ bound.slot = s.slot
  BY <1>6, <1>7 DEF SesRecord
<1>9. /\ SesRecord(ready) /\ ready.route = s.route /\ ready.cookie = s.cookie
      /\ ready.nextCookie = s.nextCookie /\ ready.replay = s.replay /\ ready.slot = s.slot
  BY <1>6, <1>7 DEF SesRecord
<1>10. /\ SesRecord(idle) /\ idle.route = NoRoute /\ idle.nextCookie = s.nextCookie
       /\ idle.replay = s.replay
  <2>1. idle = [base EXCEPT !.route = NoRoute, !.cookie = 0, !.phase = "Idle"]
    BY <1>6, <1>7 DEF Unbound, SesRecord
  <2> QED
    BY <1>7, <2>1 DEF SesRecord
<1>11. /\ SesRecord(Reset(base)) /\ Reset(base).route = NoRoute /\ Reset(base).replay = s.replay
       /\ Reset(base).nextCookie = s.nextCookie /\ Reset(base).slot = s.slot
  <2> DEFINE z == Reset(base)
  <2>1. z = [base EXCEPT !.plan = NoPlan, !.unit = NoUnit, !.route = NoRoute, !.cookie = 0, !.phase = "Idle"]
    BY <1>7 DEF Reset, Unbound, Unassembled, SesRecord
  <2> HIDE DEF z
  <2>2. /\ SesRecord(z) /\ z.route = NoRoute /\ z.replay = s.replay
        /\ z.nextCookie = s.nextCookie /\ z.slot = s.slot
    BY <1>7, <2>1 DEF SesRecord
  <2> QED
    BY <2>2 DEF z
<1>12. CASE ~ok
  <2>1. e.ses = failed /\ e.kind = "Reply" /\ e.reply.status # "Ok"
    BY <1>1, <1>12 DEF Status
  <2>2. e.ses.replay = s.replay
    BY <1>9, <1>10, <2>1
  <2>3. \/ e.ses.route = s.route /\ e.ses.cookie = s.cookie /\ e.ses.nextCookie = s.nextCookie
        \/ e.ses.route = NoRoute /\ e.ses.nextCookie = s.nextCookie
    BY <1>9, <1>10, <2>1
  <2> HIDE DEF failed
  <2> QED
    BY <1>12, <2>1, <2>2, <2>3 DEF Ended
<1>13. CASE ok
  <2>1. /\ SesRecord(won) /\ won.replay = s.replay /\ won.slot = s.slot
        /\ \/ a.op \notin Carrying /\ won.route = a.route /\ won.cookie = s.nextCookie
              /\ won.nextCookie = s.nextCookie + 1
           \/ won.route = s.route /\ won.cookie = s.cookie /\ won.nextCookie = s.nextCookie
           \/ won.route = NoRoute /\ won.nextCookie = s.nextCookie
    <3>1. CASE Binds(a, outcome)
      <4>1. won = bound
        BY <3>1 DEF Binds, StaysBound
      <4>2. a.op \notin Carrying
        BY <3>1 DEF Binds, Carrying, BoundOps
      <4> QED
        BY <1>8, <4>1, <4>2
    <3>2. CASE StaysBound(a)
      <4>1. won = ready
        BY <3>2 DEF Binds, StaysBound
      <4> QED
        BY <1>9, <4>1
    <3>3. CASE ~Binds(a, outcome) /\ ~StaysBound(a)
      <4>1. won = Reset(base)
        BY <3>3
      <4> QED
        BY <1>11, <4>1
    <3> QED
      BY <3>1, <3>2, <3>3
  <2>2. e.ses = Remember(won, a, reply) /\ e.kind = "Reply" /\ e.reply = reply
    BY <1>1, <1>13
  <2> HIDE DEF won, reply
  <2>3. /\ e.ses.route = won.route /\ e.ses.cookie = won.cookie /\ e.ses.nextCookie = won.nextCookie
        /\ e.ses.replay = [won.replay EXCEPT ![won.slot] = [action |-> a, reply |-> reply]]
    BY <2>1, <2>2, RememberFields
  <2>4. e.ses.replay = [s.replay EXCEPT ![s.slot] = [action |-> s.pending.action, reply |-> e.reply]]
    BY <2>1, <2>2, <2>3 DEF a
  <2>5. \/ a.op \notin Carrying /\ e.ses.route = a.route /\ e.ses.cookie = s.nextCookie
           /\ e.ses.nextCookie = s.nextCookie + 1
        \/ e.ses.route = s.route /\ e.ses.cookie = s.cookie /\ e.ses.nextCookie = s.nextCookie
        \/ e.ses.route = NoRoute /\ e.ses.nextCookie = s.nextCookie
    BY <2>1, <2>3
  <2>6. \E j \in 1..ReplaySlots :
          e.ses.replay = [s.replay EXCEPT ![j] = [action |-> s.pending.action, reply |-> e.reply]]
    BY <1>2, <2>4
  <2> QED
    BY <1>13, <2>2, <2>5, <2>6 DEF Ended, a
<1> QED
  BY <1>12, <1>13

\* An orphaned action ends with its session, and nothing is remembered.
LEMMA OrphanEnds ==
  ASSUME NEW n \in Nat, NEW s, SesOk(n, s), s.pending.orphaned, NEW ok, NEW outcome,
         NEW e, e = Complete(s, ok, outcome)
  PROVE  /\ e.kind = "None" /\ e.ses.route = NoRoute /\ e.ses.replay = s.replay
         /\ e.ses.nextCookie = s.nextCookie
<1> DEFINE b == Reset(s)
           t == [b EXCEPT !.pending = NoPending]
<1>1. e = [ses |-> t, kind |-> "None", reply |-> Status("None", 0)]
  BY DEF Complete
<1>2. SesRecord(s) /\ t = [b EXCEPT !.pending = NoPending]
  BY DEF SesOk, SesTypes
<1>3. SesRecord(b) /\ b.route = NoRoute /\ b.replay = s.replay /\ b.nextCookie = s.nextCookie
  BY <1>2, ResetFields
<1> HIDE DEF b, t
<1>4. t.route = NoRoute /\ t.replay = s.replay /\ t.nextCookie = s.nextCookie
  BY <1>2, <1>3 DEF SesRecord
<1> QED
  BY <1>1, <1>4

-----------------------------------------------------------------------------
(* The order of requests, and what queues keep of it. *)

LEMMA LaterRequest ==
  ASSUME NEW x, NEW y, NEW z, x.rid \in Nat, y.rid \in Nat, z.rid \in Nat, NotAfter(y, z)
  PROVE  /\ NotAfter(x, y) => NotAfter(x, z)
         /\ x.rid < y.rid => x.rid < z.rid
BY DEF NotAfter, SameRequest

LEMMA KeptIsSorted ==
  ASSUME NEW S, NEW s \in Seq(S), NEW I \in SUBSET (DOMAIN s), Sorted(s), NEW e, e = Kept(s, I)
  PROVE  Sorted(e) /\ FramesIn(e) \subseteq FramesIn(s)
<1> DEFINE c == Cardinality(I)
           at(m) == Nth(I, m)
<1>1. /\ DOMAIN e = 1..c /\ c \in Nat
      /\ \A m \in 1..c : at(m) \in I /\ e[m] = s[at(m)]
      /\ \A m, l \in 1..c : at(m) = at(l) => m = l
      /\ \A m, l \in 1..c : at(m) < at(l) => m < l
  BY PurgeKeeps
<1> HIDE DEF c, at
<1>2. \A i \in I : i \in DOMAIN s /\ i \in Nat
  OBVIOUS
<1>3. \A m, l \in 1..c : m < l => at(m) < at(l)
  BY <1>1, <1>2
<1>4. Sorted(e)
  BY <1>1, <1>2, <1>3 DEF Sorted
<1>5. FramesIn(e) \subseteq FramesIn(s)
  BY <1>1, <1>2 DEF FramesIn
<1> QED
  BY <1>4, <1>5

LEMMA RestIsSorted ==
  ASSUME NEW S, NEW s \in Seq(S), s # <<>>, Sorted(s), NEW e, e = Rest(s)
  PROVE  /\ Sorted(e) /\ FramesIn(e) \subseteq FramesIn(s) /\ Head(s).frame \in FramesIn(s)
         /\ \A g \in FramesIn(e) : NotAfter(Head(s).frame, g)
<1>1. /\ Len(s) \in Nat \ {0} /\ DOMAIN s = 1..Len(s) /\ DOMAIN e = 1..(Len(s) - 1)
      /\ Head(s) = s[1]
      /\ \A i \in DOMAIN e : i + 1 \in DOMAIN s /\ e[i] = s[i + 1]
  BY TailOf DEF Rest
<1>2. \A i \in DOMAIN e : i \in Nat /\ 1 < i + 1 /\ \A j \in DOMAIN e : i < j => i + 1 < j + 1
  BY <1>1
<1>3. 1 \in DOMAIN s
  BY <1>1
<1>4. Sorted(e)
  BY <1>1, <1>2 DEF Sorted
<1>5. FramesIn(e) \subseteq FramesIn(s) /\ Head(s).frame \in FramesIn(s)
  BY <1>1, <1>3 DEF FramesIn
<1>6. \A g \in FramesIn(e) : NotAfter(Head(s).frame, g)
  BY <1>1, <1>2, <1>3 DEF FramesIn, Sorted
<1> QED
  BY <1>4, <1>5, <1>6

LEMMA PutIsSorted ==
  ASSUME NEW S, NEW s \in Seq(S), NEW y \in S, Sorted(s), \A f \in FramesIn(s) : NotAfter(f, y.frame),
         NEW e, e = Put(s, y)
  PROVE  Sorted(e) /\ FramesIn(e) = FramesIn(s) \cup {y.frame}
<1>1. /\ Len(s) \in Nat /\ DOMAIN s = 1..Len(s) /\ DOMAIN e = 1..(Len(s) + 1)
      /\ \A i \in DOMAIN s : e[i] = s[i]
      /\ e[Len(s) + 1] = y
  BY DEF Put
<1>2. \A i, j \in DOMAIN e : i < j => i \in DOMAIN s /\ (j \in DOMAIN s \/ j = Len(s) + 1)
  BY <1>1
<1>3. Sorted(e)
  BY <1>1, <1>2 DEF Sorted, FramesIn
<1>4. \A i \in DOMAIN e : i \in DOMAIN s \/ i = Len(s) + 1
  BY <1>1
<1>5. \A i \in DOMAIN s : i \in DOMAIN e
  BY <1>1
<1>6. Len(s) + 1 \in DOMAIN e
  BY <1>1
<1>7. FramesIn(e) = FramesIn(s) \cup {y.frame}
  BY <1>1, <1>4, <1>5, <1>6 DEF FramesIn
<1> QED
  BY <1>3, <1>7

-----------------------------------------------------------------------------
(* What each kind of step does to the story, apart from who takes it. *)

\* The core loses requests, answers or routes.
CoreFades(c, d) ==
  /\ Sorted(d.ingress) /\ FramesIn(d.ingress) \subseteq FramesIn(c.ingress)
  /\ \A i \in DOMAIN d.replies :
       d.replies[i].lease.route \in d.active /\ \E j \in DOMAIN c.replies : d.replies[i] = c.replies[j]
  /\ d.action = c.action /\ d.lease = c.lease

LEMMA StoryFades ==
  ASSUME NEW n \in Nat, NEW x, NEW c, NEW s, NEW e, NEW q, StoryOk(n, x, c, s, e, q), PendingOk(c, s),
         NEW y \in SUBSET x, NEW d, CoreFades(c, d), NEW t, Fades(s, t),
         c.action # NoAction => t.pending.orphaned \/ c.action.route \in d.active
  PROVE  StoryOk(n, y, d, t, e, q)
<1>1. Given(d) = Given(c) /\ FramesIn(d.ingress) \cup y \subseteq FramesIn(c.ingress) \cup x
  BY DEF Given, CoreFades
<1>2. Ordered(n, y, d, e.done, q)
  BY <1>1 DEF StoryOk, Ordered, CoreFades
<1>3. RepliesOk(d, e.done)
  BY DEF StoryOk, RepliesOk, CoreFades
<1>4. RecallOk(t, e.done)
  <2>1. NoEntry.action = NoAction
    BY DEF NoEntry
  <2> QED
    BY <2>1 DEF StoryOk, RecallOk, EntryTrue, Fades
<1>5. JobOk(d, t, e)
  <2>1. d.action = c.action /\ d.lease = c.lease
    BY DEF CoreFades
  <2>2. /\ e.stage # "none" => e.action = c.action /\ c.action # NoAction
        /\ e.stage \in {"ok", "other"} => e.action \in e.done
        /\ e.stage = "running" => e.bytes = BorrowedOf(s, e.action)
        /\ c.action # NoAction => c.lease.route = c.action.route
    BY DEF StoryOk, JobOk
  <2>3. e.stage = "running" => BorrowedOf(t, e.action) = BorrowedOf(s, e.action)
    BY <2>2 DEF PendingOk, Fades, BorrowedOf
  <2> QED
    BY <2>1, <2>2, <2>3 DEF JobOk
<1>6. CookiesOk(d, t, e.done)
  BY <1>1 DEF StoryOk, CookiesOk, Fades
<1>7. OnceOk(y, d, t, e, q)
  <2>1. /\ s.route # NoRoute =>
             \A z \in e.done \ Given(c) : OfSession(s, z) =>
               /\ z.route = s.route /\ \A a \in Given(c) : z.rid < a.rid
               /\ Remembers(s, z) \/ Past(z, x \cup FramesIn(c.ingress), q)
        /\ e.stage \in {"none", "running", "fail"} =>
             \A a \in Given(c) : a.cookie # 0 => \A z \in e.done : ~SameRequest(a, z)
    BY DEF StoryOk, OnceOk
  <2>2. ASSUME t.route # NoRoute, NEW z \in e.done \ Given(d), OfSession(t, z)
        PROVE  /\ z.route = t.route /\ \A a \in Given(d) : z.rid < a.rid
               /\ Remembers(t, z) \/ Past(z, y \cup FramesIn(d.ingress), q)
    <3>1. t.route = s.route /\ t.cookie = s.cookie /\ OfSession(s, z)
      BY <2>2 DEF Fades, OfSession
    <3>2. /\ z.route = s.route /\ \A a \in Given(c) : z.rid < a.rid
          /\ Remembers(s, z) \/ Past(z, x \cup FramesIn(c.ingress), q)
      BY <1>1, <2>1, <2>2, <3>1
    <3>3. Remembers(s, z) => Remembers(t, z)
      BY <2>2, <3>1, <3>2 DEF Remembers, Fades
    <3>4. Past(z, x \cup FramesIn(c.ingress), q) => Past(z, y \cup FramesIn(d.ingress), q)
      BY <1>1 DEF Past
    <3> QED
      BY <1>1, <3>1, <3>2, <3>3, <3>4
  <2> QED
    BY <1>1, <2>1, <2>2 DEF OnceOk
<1> QED
  BY <1>2, <1>3, <1>4, <1>5, <1>6, <1>7 DEF StoryOk

\* An answer is added.
LEMMA StoryAnswered ==
  ASSUME NEW n \in Nat, NEW x, NEW c, NEW s, NEW e, NEW q, StoryOk(n, x, c, s, e, q),
         NEW S, c.replies \in Seq(S), NEW a \in S,
         a.lease.route \in c.active, Earned(a, e.done),
         NEW d, d.replies = Put(c.replies, a), d.ingress = c.ingress, d.action = c.action,
         d.lease = c.lease, d.active = c.active
  PROVE  StoryOk(n, x, d, s, e, q)
<1>1. Given(d) = Given(c)
  BY DEF Given
<1>2. \A i \in DOMAIN d.replies : d.replies[i] = a \/ \E j \in DOMAIN c.replies : d.replies[i] = c.replies[j]
  BY DEF Put
<1>3. RepliesOk(d, e.done)
  BY <1>2 DEF StoryOk, RepliesOk
<1>4. Ordered(n, x, d, e.done, q) /\ CookiesOk(d, s, e.done) /\ OnceOk(x, d, s, e, q)
  BY <1>1 DEF StoryOk, Ordered, CookiesOk, OnceOk
<1>5. JobOk(d, s, e)
  BY DEF StoryOk, JobOk
<1> QED
  BY <1>3, <1>4, <1>5 DEF StoryOk

\* The request goes from the mailbox to ingress.
LEMMA StoryImported ==
  ASSUME NEW n \in Nat, NEW x, NEW c, NEW s, NEW e, NEW q, StoryOk(n, x, c, s, e, q),
         NEW S, c.ingress \in Seq(S), NEW z \in S, z.frame \in x,
         NEW d, d.ingress = Put(c.ingress, z), d.replies = c.replies, d.action = c.action,
         d.lease = c.lease, d.active = c.active
  PROVE  StoryOk(n, {}, d, s, e, q)
<1>1. Given(d) = Given(c)
  BY DEF Given
<1>2. Sorted(d.ingress) /\ FramesIn(d.ingress) = FramesIn(c.ingress) \cup {z.frame}
  BY PutIsSorted DEF StoryOk, Ordered
<1>3. FramesIn(d.ingress) \subseteq FramesIn(c.ingress) \cup x
  BY <1>2
<1>4. Ordered(n, {}, d, e.done, q)
  BY <1>1, <1>2, <1>3 DEF StoryOk, Ordered
<1>5. RepliesOk(d, e.done) /\ JobOk(d, s, e) /\ CookiesOk(d, s, e.done)
  BY <1>1 DEF StoryOk, RepliesOk, JobOk, CookiesOk
<1>6. \A y : Past(y, x \cup FramesIn(c.ingress), q) => Past(y, {} \cup FramesIn(d.ingress), q)
  BY <1>3 DEF Past
<1>7. OnceOk({}, d, s, e, q)
  BY <1>1, <1>6 DEF StoryOk, OnceOk
<1> QED
  BY <1>4, <1>5, <1>7 DEF StoryOk

\* The App asks for the next part of its request, or for something new.
LEMMA StoryAsked ==
  ASSUME NEW n \in Nat, NEW x, NEW c, NEW s, NEW e, NEW q, StoryOk(n, x, c, s, e, q),
         NEW f \in AppFrame, Formed(f), q.rid < f.rid \/ SameRequest(q, f),
         NEW p, SameRequest(p, f), NEW y, y \subseteq x \/ y = {f}
  PROVE  StoryOk(n, y, c, s, e, p)
<1> DEFINE w == FramesIn(c.ingress)
<1>1. f.rid \in Nat /\ p.rid = f.rid /\ p.op = f.op /\ p.cookie = f.cookie /\ NotAfter(q, f)
  BY FrameFields DEF SameRequest, NotAfter
<1>2. /\ e.done \cup Given(c) \subseteq Done(n) /\ q.rid \in Nat /\ x \cup w \subseteq AppFrame
      /\ \A g \in w \cup x : NotAfter(g, q)
      /\ \A d \in e.done \cup Given(c) : NotAfter(d, q)
      /\ \A g \in w, h \in x : NotAfter(g, h)
      /\ \A d \in e.done \cup Given(c) : \A g \in w \cup x : NotAfter(d, g)
  BY DEF StoryOk, Ordered
<1>3. \A g \in w \cup x : g.rid \in Nat
  BY <1>2, FrameFields
<1>4. \A d \in e.done \cup Given(c) : d.rid \in Nat
  BY <1>2 DEF Done
<1>5. \A g \in w \cup x \cup e.done \cup Given(c) : NotAfter(g, f) /\ NotAfter(g, p)
  <2> SUFFICES ASSUME NEW g \in w \cup x \cup e.done \cup Given(c) PROVE NotAfter(g, f) /\ NotAfter(g, p)
    OBVIOUS
  <2>1. g.rid \in Nat /\ NotAfter(g, q)
    BY <1>2, <1>3, <1>4
  <2>2. NotAfter(g, f)
    BY <1>1, <1>2, <2>1, LaterRequest
  <2> QED
    BY <1>1, <2>2 DEF NotAfter, SameRequest
<1>6. y \subseteq x \cup {f} /\ Formed(p) /\ NotAfter(f, p)
  BY <1>1 DEF Formed, NotAfter, SameRequest
<1>7. Ordered(n, y, c, e.done, p)
  <2>1. /\ e.done \cup Given(c) \subseteq Done(n) /\ p.rid \in Nat
        /\ y \cup w \subseteq AppFrame
        /\ Sorted(c.ingress)
        /\ \A g \in w, h \in y : NotAfter(g, h)
    BY <1>1, <1>2, <1>5, <1>6 DEF StoryOk, Ordered
  <2>2. \A g \in w \cup y : NotAfter(g, p) /\ Formed(g)
    BY <1>5, <1>6 DEF StoryOk, Ordered
  <2>3. \A d \in e.done \cup Given(c) :
          /\ NotAfter(d, p) /\ Formed(d)
          /\ \A g \in w \cup y : NotAfter(d, g)
          /\ \A a \in Given(c) : NotAfter(d, a)
    BY <1>2, <1>5, <1>6 DEF StoryOk, Ordered
  <2> QED
    BY <1>6, <2>1, <2>2, <2>3 DEF Ordered
<1>8. \A d \in e.done : Past(d, x \cup w, q) => Past(d, y \cup w, p)
  <2> SUFFICES ASSUME NEW d \in e.done, Past(d, x \cup w, q) PROVE Past(d, y \cup w, p)
    OBVIOUS
  <2>1. d.rid < f.rid
    BY <1>1, <1>2, <1>4, LaterRequest DEF Past
  <2> QED
    BY <1>1, <1>6, <2>1 DEF Past
<1>9. OnceOk(y, c, s, e, p)
  BY <1>8 DEF StoryOk, OnceOk
<1> QED
  BY <1>7, <1>9 DEF StoryOk

\* What was done for the session of a request lies behind it.
LEMMA DoneBefore ==
  ASSUME NEW n \in Nat, NEW x, NEW c, NEW s, NEW e, NEW q, StoryOk(n, x, c, s, e, q),
         NEW f \in FramesIn(c.ingress), NEW r, c.action = NoAction,
         f.op \in Carrying => s.route = r /\ s.cookie = f.cookie /\ Seen(s, r, f) = {},
         s.route # NoRoute, NEW d \in e.done, OfSession(s, d)
  PROVE  d.rid < f.rid
<1>1. d.route = s.route /\ (Remembers(s, d) \/ Past(d, x \cup FramesIn(c.ingress), q))
  BY DEF StoryOk, OnceOk, Given
<1>2. NotAfter(d, f)
  BY DEF StoryOk, Ordered
<1>3. CASE Past(d, x \cup FramesIn(c.ingress), q)
  BY <1>3 DEF Past
<1>4. CASE Remembers(s, d) /\ SameRequest(d, f)
  <2>1. f.op \in Carrying /\ d.rid = f.rid /\ d.cookie = f.cookie
    BY <1>4 DEF OfSession, SameRequest
  <2>2. PICK i \in 1..ReplaySlots : s.replay[i].action = d
    BY <1>4 DEF Remembers
  <2>3. i \in Seen(s, r, f)
    BY <1>1, <2>1, <2>2 DEF Seen
  <2> QED
    BY <2>1, <2>3
<1> QED
  BY <1>1, <1>2, <1>3, <1>4 DEF NotAfter

\* A request becomes the pending action.
LEMMA StoryActed ==
  ASSUME NEW n \in Nat, NEW x, NEW c, NEW s, NEW e, NEW q, StoryOk(n, x, c, s, e, q),
         NEW S, c.ingress \in Seq(S), c.ingress # <<>>, c.action = NoAction,
         NEW f, f = Head(c.ingress).frame, f.op \in Ops, NEW r \in Lifes(n), r \in c.active,
         f.op \in Carrying => s.route = r /\ s.cookie = f.cookie /\ Seen(s, r, f) = {},
         NEW t, SameBinding(s, t),
         NEW d, d.ingress = Rest(c.ingress), d.replies = c.replies, d.active = c.active,
         NEW a, a = ActionOf(r, f), a # NoAction, d.action = a, d.lease.route = r
  PROVE  StoryOk(n, x, d, t, e, q)
<1> DEFINE w == FramesIn(c.ingress)
           u == FramesIn(d.ingress)
<1>1. /\ Given(c) = {} /\ Given(d) = {a}
      /\ a.route = r /\ a.op = f.op /\ a.rid = f.rid /\ a.cookie = f.cookie
  BY DEF Given, ActionOf
<1>2. Sorted(d.ingress) /\ u \subseteq w /\ f \in w /\ \A g \in u : NotAfter(f, g)
  BY RestIsSorted DEF StoryOk, Ordered
<1>3. /\ e.done \subseteq Done(n) /\ q.rid \in Nat /\ x \cup w \subseteq AppFrame
      /\ \A g \in w, h \in x : NotAfter(g, h)
      /\ \A g \in w \cup x : NotAfter(g, q) /\ Formed(g)
      /\ \A z \in e.done : /\ NotAfter(z, q) /\ Formed(z)
                           /\ \A g \in w \cup x : NotAfter(z, g)
      /\ Formed(q)
  BY <1>1 DEF StoryOk, Ordered
<1>4. f \in AppFrame /\ f.rid \in Nat /\ f.cookie \in Nat
  BY <1>2, <1>3, FrameFields
<1>5. a \in Done(n) /\ Formed(a) /\ r # NoRoute
  BY <1>1, <1>2, <1>3, <1>4, RoutesAndLeases DEF Done, ActionOf, Formed
<1>6. /\ \A g : NotAfter(f, g) => NotAfter(a, g)
      /\ \A z : NotAfter(z, f) => NotAfter(z, a)
      /\ NotAfter(a, a)
  BY <1>1 DEF NotAfter, SameRequest
<1>7. Ordered(n, x, d, e.done, q)
  <2>1. /\ e.done \cup Given(d) \subseteq Done(n) /\ q.rid \in Nat
        /\ x \cup u \subseteq AppFrame /\ Sorted(d.ingress)
        /\ \A g \in u, h \in x : NotAfter(g, h)
        /\ \A g \in u \cup x : NotAfter(g, q) /\ Formed(g)
    BY <1>1, <1>2, <1>3, <1>5
  <2>2. \A z \in e.done \cup Given(d) :
          /\ NotAfter(z, q) /\ Formed(z)
          /\ \A g \in u \cup x : NotAfter(z, g)
          /\ \A b \in Given(d) : NotAfter(z, b)
    BY <1>1, <1>2, <1>3, <1>5, <1>6
  <2> QED
    BY <1>3, <2>1, <2>2 DEF Ordered
<1>8. RepliesOk(d, e.done) /\ RecallOk(t, e.done)
  BY DEF StoryOk, RepliesOk, RecallOk, SameBinding
<1>9. JobOk(d, t, e)
  <2>1. e.stage = "none"
    BY DEF StoryOk, JobOk
  <2> QED
    BY <1>1, <2>1 DEF JobOk
<1>10. CookiesOk(d, t, e.done)
  <2>1. /\ s.nextCookie \in Nat \ {0} /\ \A z \in e.done : z.cookie < s.nextCookie
        /\ s.route # NoRoute => s.cookie \in Nat \ {0} /\ s.cookie < s.nextCookie
    BY <1>1 DEF StoryOk, CookiesOk
  <2>2. a.cookie < s.nextCookie
    BY <1>1, <1>5, <2>1 DEF Formed
  <2> QED
    BY <1>1, <2>1, <2>2 DEF CookiesOk, SameBinding
<1>11. \A z \in e.done : s.route # NoRoute /\ OfSession(s, z) => z.rid < a.rid
  BY <1>1, <1>2, DoneBefore
<1>12. OnceOk(x, d, t, e, q)
  <2>1. ASSUME t.route # NoRoute, NEW z \in e.done \ Given(d), OfSession(t, z)
        PROVE  /\ z.route = t.route /\ \A b \in Given(d) : z.rid < b.rid
               /\ Remembers(t, z) \/ Past(z, x \cup u, q)
    <3>1. s.route = t.route /\ OfSession(s, z)
      BY <2>1 DEF SameBinding, OfSession
    <3>2. z.route = s.route /\ (Remembers(s, z) \/ Past(z, x \cup w, q))
      BY <1>1, <2>1, <3>1 DEF StoryOk, OnceOk
    <3>3. Remembers(s, z) => Remembers(t, z)
      BY DEF Remembers, SameBinding
    <3>4. Past(z, x \cup w, q) => Past(z, x \cup u, q)
      BY <1>2 DEF Past
    <3> QED
      BY <1>1, <1>11, <2>1, <3>1, <3>2, <3>3, <3>4
  <2>2. ASSUME a.cookie # 0, NEW z \in e.done PROVE ~SameRequest(a, z)
    <3>1. a.op \in Carrying
      BY <1>5, <2>2 DEF Formed
    <3>2. s.route # NoRoute /\ s.cookie = a.cookie
      BY <1>1, <1>5, <3>1
    <3>3. SameRequest(a, z) => OfSession(s, z)
      BY <3>1, <3>2 DEF SameRequest, OfSession
    <3>4. z.rid \in Nat /\ a.rid \in Nat
      BY <1>1, <1>3, <1>4 DEF Done
    <3> QED
      BY <1>11, <3>2, <3>3, <3>4 DEF SameRequest
  <2> QED
    BY <1>1, <2>1, <2>2 DEF OnceOk
<1> QED
  BY <1>7, <1>8, <1>9, <1>10, <1>12 DEF StoryOk

\* The store begins.
LEMMA StoryBegins ==
  ASSUME NEW n \in Nat, NEW x, NEW c, NEW s, NEW e, NEW q, StoryOk(n, x, c, s, e, q),
         e.stage = "none", c.action # NoAction,
         NEW g, g.stage = "running", g.action = c.action, g.bytes = BorrowedOf(s, c.action),
         g.done = e.done
  PROVE  StoryOk(n, x, c, s, g, q)
<1>1. JobOk(c, s, g)
  BY DEF StoryOk, JobOk
<1>2. OnceOk(x, c, s, g, q)
  BY DEF StoryOk, OnceOk
<1> QED
  BY <1>1, <1>2 DEF StoryOk

\* The store has done it, or not.
LEMMA StoryWorked ==
  ASSUME NEW n \in Nat, NEW x, NEW c, NEW s, NEW e, NEW q, StoryOk(n, x, c, s, e, q),
         e.stage = "running", NEW g, g.action = e.action, g.stage \in {"ok", "other", "fail"},
         \/ g.stage = "fail" /\ g.done = e.done
         \/ g.stage # "fail" /\ g.done = e.done \cup {e.action}
  PROVE  StoryOk(n, x, c, s, g, q)
<1>1. e.action = c.action /\ c.action # NoAction /\ Given(c) = {e.action}
  BY DEF StoryOk, JobOk, Given
<1>2. /\ g.done \cup Given(c) = e.done \cup Given(c) /\ g.done \ Given(c) = e.done \ Given(c)
      /\ e.done \subseteq g.done
  BY <1>1
<1>3. Ordered(n, x, c, g.done, q) /\ CookiesOk(c, s, g.done)
  BY <1>2 DEF StoryOk, Ordered, CookiesOk
<1>4. RepliesOk(c, g.done) /\ RecallOk(s, g.done)
  BY <1>2 DEF StoryOk, RepliesOk, RecallOk, Earned, EntryTrue
<1>5. JobOk(c, s, g)
  BY <1>1 DEF StoryOk, JobOk
<1>6. OnceOk(x, c, s, g, q)
  BY <1>2 DEF StoryOk, OnceOk
<1> QED
  BY <1>3, <1>4, <1>5, <1>6 DEF StoryOk

\* An action is over: it is remembered, it failed, or its session is gone.
LEMMA StoryEnded ==
  ASSUME NEW n \in Nat, NEW x, NEW c, NEW s, NEW e, NEW q, StoryOk(n, x, c, s, e, q),
         PendingOk(c, s), SesOk(n, s), c.action # NoAction, e.stage \in {"ok", "other", "fail"},
         NEW ok \in BOOLEAN, NEW z, Ended(s, ok, z), NEW t, t = z.ses,
         ok => e.stage # "fail", ok \/ e.stage = "fail" \/ t.route = NoRoute,
         NEW d, d.ingress = c.ingress, d.replies = c.replies, d.active = c.active,
         d.action = NoAction, NEW g, g.stage = "none", g.done = e.done
  PROVE  StoryOk(n, x, d, t, g, q)
<1> DEFINE a == c.action
           w == FramesIn(c.ingress)
<1>1. /\ a = s.pending.action /\ Given(c) = {a} /\ Given(d) = {} /\ s.phase = "ActionPending"
      /\ ok => a \in e.done
  BY DEF PendingOk, Given, StoryOk, JobOk
<1>2. /\ \/ t.route = a.route /\ t.cookie = s.nextCookie /\ t.nextCookie = s.nextCookie + 1
         \/ t.route = s.route /\ t.cookie = s.cookie /\ t.nextCookie = s.nextCookie
         \/ t.route = NoRoute /\ t.nextCookie = s.nextCookie
      /\ ok => \E j \in 1..ReplaySlots :
                 t.replay = [s.replay EXCEPT ![j] = [action |-> a, reply |-> z.reply]]
      /\ ~ok => t.replay = s.replay
  BY <1>1 DEF Ended
<1>3. s.replay = [i \in 1..ReplaySlots |-> s.replay[i]] /\ s.route \in {NoRoute, a.route}
  BY <1>1 DEF SesOk, SesTypes, PhaseOk
<1>4. ok => /\ \E i \in 1..ReplaySlots : t.replay[i].action = a
            /\ \A i \in 1..ReplaySlots : t.replay[i] = s.replay[i] \/ t.replay[i].action = a
  <2> SUFFICES ASSUME ok
               PROVE  /\ \E i \in 1..ReplaySlots : t.replay[i].action = a
                      /\ \A i \in 1..ReplaySlots : t.replay[i] = s.replay[i] \/ t.replay[i].action = a
    OBVIOUS
  <2> DEFINE m == [action |-> a, reply |-> z.reply]
  <2>1. PICK j \in 1..ReplaySlots : t.replay = [s.replay EXCEPT ![j] = m]
    BY <1>2
  <2>2. m.action = a
    OBVIOUS
  <2> HIDE DEF m
  <2>3. t.replay[j] = m /\ \A i \in 1..ReplaySlots : i # j => t.replay[i] = s.replay[i]
    BY <1>3, <2>1
  <2> QED
    BY <2>2, <2>3
<1>5. /\ e.done \cup {a} \subseteq Done(n) /\ q.rid \in Nat /\ x \cup w \subseteq AppFrame
      /\ NotAfter(a, q) /\ \A f \in x \cup w : NotAfter(a, f)
  BY <1>1 DEF StoryOk, Ordered
<1>6. Ordered(n, x, d, g.done, q)
  BY <1>1 DEF StoryOk, Ordered
<1>7. RepliesOk(d, g.done)
  BY DEF StoryOk, RepliesOk
<1>8. RecallOk(t, g.done)
  BY <1>1, <1>2, <1>4 DEF StoryOk, RecallOk, EntryTrue
<1>9. JobOk(d, t, g)
  BY DEF JobOk
<1>10. /\ s.nextCookie \in Nat \ {0} /\ \A y \in e.done : y.cookie < s.nextCookie
       /\ s.route # NoRoute => s.cookie \in Nat \ {0} /\ s.cookie < s.nextCookie
       /\ \A y \in e.done : y.cookie \in Nat /\ y.rid \in Nat
  BY <1>5 DEF StoryOk, CookiesOk, Done
<1>11. CookiesOk(d, t, g.done)
  <2>1. t.nextCookie \in Nat \ {0} /\ s.nextCookie <= t.nextCookie
    BY <1>2, <1>10
  <2>2. \A y \in e.done : y.cookie < t.nextCookie
    BY <1>10, <2>1
  <2>3. t.route # NoRoute => t.cookie \in Nat \ {0} /\ t.cookie < t.nextCookie
    BY <1>2, <1>10
  <2> QED
    BY <1>1, <2>1, <2>2, <2>3 DEF CookiesOk
<1>12. OnceOk(x, d, t, g, q)
  <2>1. ASSUME t.route # NoRoute, NEW y \in e.done, OfSession(t, y)
        PROVE  y.route = t.route /\ (Remembers(t, y) \/ Past(y, x \cup w, q))
    <3>1. t.route = s.route /\ t.cookie = s.cookie /\ OfSession(s, y)
      BY <1>2, <1>10, <2>1 DEF OfSession
    <3>2. CASE y # a
      <4>1. y.route = s.route /\ y.rid < a.rid
        BY <1>1, <2>1, <3>1, <3>2 DEF StoryOk, OnceOk
      <4>2. y.rid \in Nat /\ a.rid \in Nat
        BY <1>5 DEF Done
      <4>3. y.rid < q.rid
        BY <1>5, <4>1, <4>2, LaterRequest
      <4>4. \A f \in x \cup w : y.rid < f.rid
        <5> SUFFICES ASSUME NEW f \in x \cup w PROVE y.rid < f.rid
          OBVIOUS
        <5>1. f.rid \in Nat /\ NotAfter(a, f)
          BY <1>5, FrameFields
        <5> QED
          BY <4>1, <4>2, <5>1, LaterRequest
      <4> QED
        BY <3>1, <4>1, <4>3, <4>4 DEF Past
    <3>3. CASE y = a
      <4>1. a.cookie # 0
        BY <1>10, <2>1, <3>1, <3>3 DEF OfSession
      <4>2. e.stage # "fail"
        <5>1. SameRequest(a, a)
          BY DEF SameRequest
        <5> QED
          BY <1>1, <3>3, <4>1, <5>1 DEF StoryOk, OnceOk
      <4>3. ok
        BY <2>1, <4>2
      <4>4. Remembers(t, a)
        BY <1>4, <4>3 DEF Remembers
      <4> QED
        BY <1>3, <2>1, <3>1, <3>3, <4>4
    <3> QED
      BY <3>2, <3>3
  <2>2. d.ingress = c.ingress
    OBVIOUS
  <2> QED
    BY <1>1, <2>1, <2>2 DEF OnceOk
<1> QED
  BY <1>6, <1>7, <1>8, <1>9, <1>11, <1>12 DEF StoryOk

-----------------------------------------------------------------------------
(* The story of a state, and the steps of the core. *)

Story(n) == StoryOk(n, FramesAt(box.data), core, ses, exec, app.req)

LEMMA StoryFields ==
  ASSUME NEW n \in Nat, Story(n)
  PROVE  /\ StoryOk(n, FramesAt(box.data), core, ses, exec, app.req)
         /\ Ordered(n, FramesAt(box.data), core, exec.done, app.req)
         /\ Sorted(core.ingress) /\ RepliesOk(core, exec.done) /\ RecallOk(ses, exec.done)
         /\ JobOk(core, ses, exec)
BY DEF Story, StoryOk, Ordered

\* A pending action keeps its route, or is orphaned.
LEMMA RouteKept ==
  ASSUME NEW c, NEW s, NEW e, JobOk(c, s, e), PendingOk(c, s), NEW t, Fades(s, t), NEW d,
         c.active \subseteq d.active
  PROVE  c.action # NoAction => t.pending.orphaned \/ c.action.route \in d.active
BY DEF JobOk, PendingOk, Fades

\* Requests, answers and routes are lost.
LEMMA FadesKeeps ==
  ASSUME NEW n \in Nat, NEW k \in Nat, SyncOk(n, k), Story(n), exec' = exec, app'.req = app.req,
         FramesAt(box'.data) \subseteq FramesAt(box.data), CoreFades(core, core'), Fades(ses, ses'),
         core.action # NoAction => ses'.pending.orphaned \/ core.action.route \in core'.active
  PROVE  Story(n)'
<1>1. PendingOk(core, ses) /\ StoryOk(n, FramesAt(box.data), core, ses, exec, app.req)
  BY MainFields, StoryFields
<1>2. FramesAt(box'.data) \in SUBSET FramesAt(box.data)
  OBVIOUS
<1>3. StoryOk(n, FramesAt(box'.data), core', ses', exec, app.req)
  BY <1>1, <1>2, StoryFades
<1> QED
  BY <1>3 DEF Story

\* What the story tells of a core depends on five of its parts.
SameStory(c, d) ==
  /\ d.ingress = c.ingress /\ d.replies = c.replies /\ c.active \subseteq d.active
  /\ d.action = c.action /\ d.lease = c.lease

LEMMA SameStoryFades ==
  ASSUME NEW c, NEW z, RepliesOk(c, z), Sorted(c.ingress), NEW d, SameStory(c, d)
  PROVE  CoreFades(c, d)
BY DEF SameStory, CoreFades, RepliesOk

\* The mailbox loses requests, the session fades.
LEMMA QuietKeeps ==
  ASSUME NEW n \in Nat, NEW k \in Nat, SyncOk(n, k), Story(n), exec' = exec, app'.req = app.req,
         FramesAt(box'.data) \subseteq FramesAt(box.data), SameStory(core, core'), Fades(ses, ses')
  PROVE  Story(n)'
<1>1. PendingOk(core, ses)
  BY MainFields
<1>2. Sorted(core.ingress) /\ RepliesOk(core, exec.done) /\ JobOk(core, ses, exec)
  BY StoryFields
<1>3. CoreFades(core, core')
  BY <1>2, SameStoryFades
<1>4. core.active \subseteq core'.active
  BY DEF SameStory
<1> HIDE DEF SameStory
<1>5. core.action # NoAction => ses'.pending.orphaned \/ core.action.route \in core'.active
  BY <1>1, <1>2, <1>4, RouteKept
<1> QED
  BY <1>3, <1>5, FadesKeeps

LEMMA SameQueuesTell ==
  ASSUME NEW c, NEW d, SameQueues(c, d) \/ (OnlyRoutesChange(c, d) /\ d.active = c.active)
  PROVE  SameStory(c, d)
BY DEF SameQueues, OnlyRoutesChange, SameStory

LEMMA ProcessLifecycleTells ==
  ASSUME NEW n \in Nat, NEW k \in Nat, SyncOk(n, k), Story(n), ProcessLifecycle
  PROVE  Story(n)'
<1> DEFINE e == Head(core.lifecycle)
           c == LifecycleSet(core, Rest(core.lifecycle))
<1>1. /\ CoreTypes(n, k, core) /\ SesOk(n, ses) /\ PendingOk(core, ses)
  BY MainFields
<1>2. /\ core.lifecycle # <<>> /\ box' = box /\ exec' = exec /\ app' = app
      /\ \/ e.kind = "Open" /\ core' = Activated(c, e.route) /\ ses' = ses
         \/ e.kind # "Open" /\ core' = RouteGone(c, e.route) /\ ses' = RouteClosed(ses, e.route)
  BY DEF ProcessLifecycle, LifecycleSet, Rest, Carriers
<1>3. CoreTypes(n, k, c) /\ OnlyRoutesChange(core, c) /\ c.active = core.active /\ e.route \in Lifes(n)
  <2>1. CoreTypes(n, k, c) /\ OnlyRoutesChange(core, c) /\ e.route \in Lifes(n)
    BY <1>1, <1>2, LifecycleTaken
  <2>2. CoreRecord(core)
    BY MainFields
  <2> QED
    BY <2>1, <2>2, SetRoutes
<1> HIDE DEF e, c
<1>4. c.ingress = core.ingress /\ c.replies = core.replies /\ c.action = core.action /\ c.lease = core.lease
  BY <1>3 DEF OnlyRoutesChange
<1>5. FramesAt(box'.data) \subseteq FramesAt(box.data) /\ app'.req = app.req
  BY <1>2
<1>6. Sorted(core.ingress) /\ RepliesOk(core, exec.done) /\ JobOk(core, ses, exec)
  BY StoryFields
<1>7. CASE e.kind = "Open" /\ core' = Activated(c, e.route) /\ ses' = ses
  <2>1. OnlyRoutesChange(c, core')
    BY <1>3, <1>7, ActivatedOk
  <2>2. c.active \subseteq core'.active
    <3> DEFINE s == c.active \cup {e.route}
    <3>1. core' = c \/ core' = ActiveSet(c, s)
      BY <1>7 DEF Activated, ActiveSet
    <3> HIDE DEF s
    <3>2. CoreRecord(c)
      BY <1>3, CoreFields
    <3>3. ActiveSet(c, s).active = s
      BY <3>2, SetRoutes
    <3>4. c.active \subseteq s
      BY DEF s
    <3> QED
      BY <3>1, <3>3, <3>4
  <2>3. SameStory(core, core')
    BY <1>3, <1>4, <2>1, <2>2 DEF OnlyRoutesChange, SameStory
  <2>4. Fades(ses, ses')
    BY <1>7, NothingFades
  <2> QED
    BY <1>2, <1>5, <2>3, <2>4, QuietKeeps
<1>8. CASE e.kind # "Open" /\ core' = RouteGone(c, e.route) /\ ses' = RouteClosed(ses, e.route)
  <2> DEFINE r == e.route
  <2>0. r \in Lifes(n) /\ core' = RouteGone(c, r) /\ ses' = RouteClosed(ses, r)
    BY <1>3, <1>8
  <2> HIDE DEF r
  <2>1. Fades(ses, ses') /\ (ses.phase = "ActionPending" /\ ses.pending.action.route = r => ses'.pending.orphaned)
    BY <1>1, <2>0, RouteClosedFades
  <2>2. /\ core'.lease = c.lease /\ core'.action = c.action /\ core'.active = c.active \ {r}
        /\ core'.ingress = Kept(c.ingress, OnRoutes(c.ingress, r))
        /\ core'.replies = Kept(c.replies, OnRoutes(c.replies, r))
    <3>1. CoreRecord(c)
      BY <1>3, CoreFields
    <3> QED
      BY <2>0, <3>1, RouteGoneFields
  <2>3. c.ingress \in Seq(Entries(n, k)) /\ c.replies \in Seq(Answers(n, k))
    BY <1>3, CoreFields
  <2>4. Sorted(core'.ingress) /\ FramesIn(core'.ingress) \subseteq FramesIn(core.ingress)
    <3> DEFINE I == OnRoutes(c.ingress, r)
    <3>1. I \in SUBSET (DOMAIN c.ingress) /\ core'.ingress = Kept(c.ingress, I)
      BY <2>2 DEF OnRoutes
    <3> HIDE DEF I
    <3>2. Sorted(c.ingress)
      BY <1>4, <1>6
    <3> QED
      BY <1>4, <2>3, <3>1, <3>2, KeptIsSorted
  <2>5. \A i \in DOMAIN core'.replies :
          /\ core'.replies[i].lease.route \in core'.active
          /\ \E j \in DOMAIN core.replies : core'.replies[i] = core.replies[j]
    <3> DEFINE I == OnRoutes(c.replies, r)
    <3>1. /\ I \in SUBSET (DOMAIN c.replies) /\ core'.replies = Kept(c.replies, I)
          /\ \A j \in I : c.replies[j].lease.route # r
      BY <2>2 DEF OnRoutes
    <3> HIDE DEF I
    <3>2. LeftOf(c.replies, I, core'.replies)
      BY <2>3, <3>1, KeptPart
    <3>3. \A i \in DOMAIN core'.replies : \E j \in I : core'.replies[i] = c.replies[j]
      BY <3>2 DEF LeftOf
    <3>4. \A j \in DOMAIN c.replies : c.replies[j].lease.route \in c.active
      BY <1>3, <1>4, <1>6 DEF RepliesOk
    <3> QED
      BY <1>4, <2>2, <3>1, <3>3, <3>4
  <2>6. CoreFades(core, core')
    BY <1>4, <2>2, <2>4, <2>5 DEF CoreFades
  <2>7. core.action # NoAction => ses'.pending.orphaned \/ core.action.route \in core'.active
    <3> SUFFICES ASSUME core.action # NoAction PROVE ses'.pending.orphaned \/ core.action.route \in core'.active
      OBVIOUS
    <3>1. ses.phase = "ActionPending" /\ ses.pending.action = core.action
      BY <1>1 DEF PendingOk
    <3>2. ses.pending.orphaned \/ core.action.route \in core.active
      BY <1>6 DEF JobOk
    <3>3. ses.pending.orphaned => ses'.pending.orphaned
      BY <2>1, <3>1 DEF Fades
    <3> QED
      BY <1>3, <2>1, <2>2, <3>1, <3>2, <3>3
  <2> QED
    BY <1>2, <1>5, <2>1, <2>6, <2>7, FadesKeeps
<1> QED
  BY <1>2, <1>7, <1>8

LEMMA ExpirePartialsTells ==
  ASSUME NEW n \in Nat, NEW k \in Nat, SyncOk(n, k), Story(n), ExpirePartials
  PROVE  Story(n)'
<1>1. /\ box' = box /\ ses' = PartialExpired(ses, core.partial.route) /\ exec' = exec /\ app' = app
      /\ core' = PartialSet(core, NoTimer)
  BY DEF ExpirePartials, PartialSet, Carriers
<1>2. SesOk(n, ses) /\ CoreRecord(core) /\ TimersOk(n, core)
  BY MainFields
<1>3. SameStory(core, core')
  BY <1>1, <1>2, SetTimers, TimersAreTyped, SameQueuesTell
<1>4. Fades(ses, ses')
  BY <1>1, <1>2, PartialFades
<1>5. FramesAt(box'.data) \subseteq FramesAt(box.data) /\ app'.req = app.req
  BY <1>1
<1> QED
  BY <1>1, <1>3, <1>4, <1>5, QuietKeeps

LEMMA AwaitActionTells ==
  ASSUME NEW n \in Nat, NEW k \in Nat, SyncOk(n, k), Story(n), AwaitAction
  PROVE  Story(n)'
<1>1. /\ box' = box /\ ses' = ses /\ core' = core /\ app' = app /\ core.action # NoAction
      /\ \/ exec' = exec
         \/ /\ exec.stage = "none"
            /\ exec' = [exec EXCEPT !.stage = "running", !.action = core.action,
                                    !.bytes = Borrowed(core.action)]
  BY DEF AwaitAction, Carriers
<1>2. StoryOk(n, FramesAt(box.data), core, ses, exec, app.req)
  BY StoryFields
<1>3. CASE exec' = exec
  BY <1>1, <1>2, <1>3 DEF Story
<1>4. CASE exec.stage = "none" /\ exec' = [exec EXCEPT !.stage = "running", !.action = core.action,
                                                       !.bytes = Borrowed(core.action)]
  <2> DEFINE a == core.action
             y == BorrowedOf(ses, core.action)
  <2>1. exec' = [exec EXCEPT !.stage = "running", !.action = a, !.bytes = y]
    BY <1>4 DEF Borrowed, BorrowedOf
  <2>2. ExecOk(exec)
    BY AroundFields
  <2> HIDE DEF a, y
  <2>3. exec'.stage = "running" /\ exec'.action = a /\ exec'.bytes = y /\ exec'.done = exec.done
    BY <2>1, <2>2 DEF ExecOk
  <2>4. exec'.action = core.action /\ exec'.bytes = BorrowedOf(ses, core.action)
    BY <2>3 DEF a, y
  <2>5. StoryOk(n, FramesAt(box.data), core, ses, exec', app.req)
    BY <1>1, <1>2, <1>4, <2>3, <2>4, StoryBegins
  <2> QED
    BY <1>1, <2>5 DEF Story
<1> QED
  BY <1>1, <1>3, <1>4

LEMMA CoreIdleTells ==
  ASSUME NEW n \in Nat, NEW k \in Nat, SyncOk(n, k), Story(n), CoreIdle
  PROVE  Story(n)'
<1>1. box' = box /\ ses' = ses /\ exec' = exec /\ app' = app /\ core' = OwnerChecked(core, ses)
  BY DEF CoreIdle, Carriers
<1>2. CoreRecord(core) /\ TimersOk(n, core)
  BY MainFields
<1>3. RouteOf("usb", 0) \in Lifes(n)
  BY RoutesAndLeases DEF Vias
<1>4. SameStory(core, core')
  BY <1>1, <1>2, <1>3, TimerSteps, SameQueuesTell
<1>5. Fades(ses, ses')
  BY <1>1, NothingFades
<1>6. FramesAt(box'.data) \subseteq FramesAt(box.data) /\ app'.req = app.req
  BY <1>1
<1> QED
  BY <1>1, <1>4, <1>5, <1>6, QuietKeeps

LEMMA ExpireSessionLeaseTells ==
  ASSUME NEW n \in Nat, NEW k \in Nat, SyncOk(n, k), Story(n), ExpireSessionLease
  PROVE  Story(n)'
<1> DEFINE r == core.owner.route
           p == Cleared(core.partial, r)
           c == OwnerSet(core, NoTimer)
<1>1. /\ box' = box /\ ses' = RouteClosed(ses, r) /\ core.owner.old /\ exec' = exec /\ app' = app
  BY DEF ExpireSessionLease, OwnerLapsed, Carriers
<1>2. SesOk(n, ses) /\ CoreRecord(core) /\ TimersOk(n, core)
  BY MainFields
<1>3. NoTimer \in Timers(n) /\ r \in Lifes(n) /\ p \in Timers(n)
  BY <1>1, <1>2, TimersAreTyped DEF TimersOk
<1>4. core' = PartialSet(c, p)
  BY <1>2 DEF ExpireSessionLease, PartialSet, OwnerSet, CoreRecord
<1>5. SameQueues(core, c) /\ TimersOk(n, c)
  BY <1>2, <1>3, SetTimers
<1> HIDE DEF p, c
<1>6. SameQueues(c, core')
  <2>1. CoreRecord(c)
    BY <1>5 DEF SameQueues
  <2> QED
    BY <1>3, <1>4, <1>5, <2>1, SetTimers
<1>7. SameStory(core, core')
  BY <1>5, <1>6, QueuesCompose, SameQueuesTell
<1>8. Fades(ses, ses')
  <2> HIDE DEF r
  <2> QED
    BY <1>1, <1>2, <1>3, RouteClosedFades
<1>9. FramesAt(box'.data) \subseteq FramesAt(box.data) /\ app'.req = app.req
  BY <1>1
<1> QED
  BY <1>1, <1>7, <1>8, <1>9, QuietKeeps

\* Ingress without its first request.
LEMMA RestFades ==
  ASSUME NEW n \in Nat, NEW k \in Nat, SyncOk(n, k), Story(n), Ingress,
         NEW d, SameQueues(WithoutIncoming, d)
  PROVE  /\ CoreFades(core, d) /\ d.replies = core.replies /\ d.active = core.active
         /\ d.ingress = Rest(core.ingress) /\ d.action = NoAction
<1>1. core.action = NoAction /\ core.ingress # <<>> /\ Without(core, WithoutIncoming)
  BY WithoutIncomingOk
<1>2. /\ d.replies = core.replies /\ d.active = core.active /\ d.ingress = Rest(core.ingress)
      /\ d.action = core.action /\ d.lease = core.lease
  BY <1>1 DEF Without, SameQueues, SameRoutes
<1>3. Sorted(core.ingress) /\ RepliesOk(core, exec.done)
  BY StoryFields
<1>4. core.ingress \in Seq(Entries(n, k))
  BY MainFields, CoreFields
<1>5. Sorted(d.ingress) /\ FramesIn(d.ingress) \subseteq FramesIn(core.ingress)
  BY <1>1, <1>2, <1>3, <1>4, RestIsSorted
<1>6. CoreFades(core, d)
  BY <1>2, <1>3, <1>5 DEF CoreFades, RepliesOk
<1> QED
  BY <1>1, <1>2, <1>6

LEMMA DropIncomingTells ==
  ASSUME NEW n \in Nat, NEW k \in Nat, SyncOk(n, k), Story(n), DropIncoming
  PROVE  Story(n)'
<1> DEFINE w == WithoutIncoming
           l == Incoming.lease
<1>1. Ingress
  BY DEF DropIncoming
<1>2. /\ core' = AfterFrame(w) /\ ses' = SessionAfterFrame(core, ses) /\ exec' = exec /\ app' = app
      /\ box' = Released(box, l)
  BY DEF DropIncoming, Carriers
<1>3. core.action = NoAction /\ Without(core, w) /\ TimersOk(n, w)
  BY <1>1, WithoutIncomingOk
<1>4. MailOk(n, k, box) /\ SesOk(n, ses)
  BY MainFields
<1>5. SameQueues(WithoutIncoming, core')
  <2>1. RouteOf("usb", 0) \in Lifes(n)
    BY RoutesAndLeases DEF Vias
  <2>2. CoreRecord(w)
    BY <1>3 DEF Without
  <2> HIDE DEF w
  <2>3. SameQueues(w, core')
    BY <1>2, <1>3, <2>1, <2>2, TimerSteps
  <2> QED
    BY <2>3 DEF w
<1>6. CoreFades(core, core')
  BY <1>1, <1>5, RestFades
<1>7. Fades(ses, ses')
  <2>1. ses' = ses \/ ses' = PartialExpired(ses, core.partial.route)
    BY <1>2 DEF SessionAfterFrame
  <2> QED
    BY <1>4, <2>1, NothingFades, PartialFades
<1> HIDE DEF l
<1>8. FramesAt(box'.data) \subseteq FramesAt(box.data)
  BY <1>2, <1>4, ReleasedMail DEF ReleaseStep
<1>9. app'.req = app.req
  BY <1>2
<1> QED
  BY <1>2, <1>3, <1>6, <1>7, <1>8, <1>9, FadesKeeps

\* Frames leave the mailbox.
LEMMA StoryShrinks ==
  ASSUME NEW n \in Nat, NEW x, NEW c, NEW s, NEW e, NEW q, StoryOk(n, x, c, s, e, q),
         NEW y \in SUBSET x
  PROVE  StoryOk(n, y, c, s, e, q)
BY DEF StoryOk, Ordered, OnceOk, Past

LEMMA CompleteActionTells ==
  ASSUME NEW n \in Nat, NEW k \in Nat, SyncOk(n, k), Story(n), CompleteAction
  PROVE  Story(n)'
<1> DEFINE a == core.action
           ok == exec.stage # "fail"
           how == IF exec.stage = "ok" THEN "Active" ELSE "Other"
           e == Complete(ses, ok, how)
           c0 == ActionSet(core, NoAction, NoLease)
           c == PartialSet(c0, NoTimer)
           d == IF e.ses.route = a.route THEN OwnerSet(c, Fresh(a.route)) ELSE OwnerOfBound(c, e.ses)
           req == [op |-> a.op, rid |-> a.rid, cookie |-> a.cookie]
           lost == Retired(e.kind, core.lease)
           x == FramesAt(box.data)
           y == FramesAt(box'.data)
           z == AnswerTo(d, core.lease, req, e.reply)
<1>1. /\ CoreTypes(n, k, core) /\ SesOk(n, ses) /\ PendingOk(core, ses) /\ MailOk(n, k, box)
      /\ CoreRecord(core) /\ TimersOk(n, core) /\ ExecOk(exec)
      /\ StoryOk(n, x, core, ses, exec, app.req) /\ JobOk(core, ses, exec)
  BY MainFields, AroundFields, StoryFields
<1>2. /\ a # NoAction /\ ses' = e.ses /\ box' = Released(box, lost) /\ app' = app
      /\ ~RepliesFull(core) /\ exec.stage \in {"ok", "other", "fail"}
      /\ exec' = [exec EXCEPT !.stage = "none", !.action = NoAction, !.bytes = NoBytes]
      /\ core' = IF e.kind = "Reply" THEN Answered(d, core.lease, req, e.reply) ELSE d
  <2>1. c = [core EXCEPT !.action = NoAction, !.lease = NoLease, !.partial = NoTimer]
    BY <1>1 DEF PartialSet, ActionSet, CoreRecord
  <2> HIDE DEF c, e, lost
  <2>2. d = IF e.ses.route = a.route THEN [c EXCEPT !.owner = Fresh(a.route)] ELSE OwnerOfBound(c, e.ses)
    BY DEF OwnerSet
  <2> QED
    BY <2>1, <2>2 DEF CompleteAction, Carriers, c, e, lost
<1>3. y \in SUBSET x
  <2> HIDE DEF lost
  <2> QED
    BY <1>1, <1>2, ReleasedMail DEF ReleaseStep
<1>4. exec'.stage = "none" /\ exec'.done = exec.done
  BY <1>1, <1>2 DEF ExecOk
<1>5. e = Complete(ses, ok, how) /\ ok \in BOOLEAN /\ ses.phase = "ActionPending" /\ ses.pending.action = a
  BY <1>1, <1>2 DEF PendingOk
<1>6. a \in Jobs(n) /\ a.route \in Lifes(n)
  <2>1. a \in Jobs(n)
    BY <1>1 DEF CoreTypes
  <2> QED
    BY <1>2, <2>1 DEF Jobs
<1>7. /\ CoreRecord(d) /\ d.ingress = core.ingress /\ d.replies = core.replies
      /\ d.active = core.active /\ d.action = NoAction /\ d.lease = NoLease
  <2>1. CoreRecord(c0) /\ SameRoutes(core, c0) /\ TimersOk(n, c0)
        /\ c0.ingress = core.ingress /\ c0.replies = core.replies
        /\ c0.action = NoAction /\ c0.lease = NoLease
    <3>1. /\ CoreRecord(c0) /\ SameRoutes(core, c0) /\ c0.ingress = core.ingress
          /\ c0.replies = core.replies /\ c0.action = NoAction /\ c0.lease = NoLease
          /\ c0.partial = core.partial /\ c0.owner = core.owner
      BY <1>1, SetAction
    <3> QED
      BY <1>1, <3>1 DEF TimersOk
  <2> HIDE DEF c0, e
  <2>2. SameQueues(c0, c) /\ TimersOk(n, c)
    BY <2>1, SetTimers, TimersAreTyped
  <2> HIDE DEF c
  <2>3. CoreRecord(c)
    BY <2>2 DEF SameQueues
  <2>4. SameQueues(c, OwnerSet(c, Fresh(a.route)))
    BY <1>6, <2>2, <2>3, SetTimers, TimersAreTyped
  <2>5. SameQueues(c, OwnerOfBound(c, e.ses))
    BY <1>6, <2>2, <2>3, TimerSteps
  <2>6. SameQueues(c, d)
    BY <2>4, <2>5
  <2> HIDE DEF d
  <2> QED
    BY <2>1, <2>2, <2>6 DEF SameQueues, SameRoutes
<1> HIDE DEF ok, how, e, c0, c, d, x, y, lost
<1>8. CASE ses.pending.orphaned
  <2>1. /\ e.kind = "None" /\ e.ses.route = NoRoute /\ e.ses.replay = ses.replay
        /\ e.ses.nextCookie = ses.nextCookie
    BY <1>1, <1>5, <1>8, OrphanEnds
  <2>2. e.reply.status # "Ok"
    BY <1>5, <1>8 DEF Complete, Status
  <2>3. Ended(ses, FALSE, e)
    BY <2>1, <2>2 DEF Ended
  <2>4. core' = d
    BY <1>2, <2>1
  <2>5. StoryOk(n, x, core', ses', exec', app.req)
    BY <1>1, <1>2, <1>4, <1>7, <2>1, <2>3, <2>4, StoryEnded
  <2> QED
    BY <1>2, <1>3, <1>7, <2>4, <2>5, StoryShrinks DEF Story, x, y
<1>9. CASE ~ses.pending.orphaned
  <2>1. e = Completed(ses, ok, how)
    BY <1>5, <1>9 DEF Complete
  <2>2. e.kind = "Reply" /\ Ended(ses, ok, e)
    BY <1>1, <1>5, <2>1, CompletedEnds
  <2>3. core' = Answered(d, core.lease, req, e.reply)
    BY <1>2, <2>2
  <2>4. ok => exec.stage # "fail"
    BY DEF ok
  <2>5. ok \/ exec.stage = "fail"
    BY DEF ok
  <2>6. StoryOk(n, x, d, ses', exec', app.req)
    <3>1. CASE ok
      <4>1. ok = TRUE
        BY <1>5, <3>1
      <4>2. Ended(ses, TRUE, e)
        BY <2>2, <4>1
      <4> QED
        BY <1>1, <1>2, <1>4, <1>7, <2>4, <3>1, <4>2, StoryEnded
    <3>2. CASE ~ok
      <4>1. ok = FALSE
        BY <1>5, <3>2
      <4>2. Ended(ses, FALSE, e)
        BY <2>2, <4>1
      <4> QED
        BY <1>1, <1>2, <1>4, <1>7, <2>5, <3>2, <4>2, StoryEnded
    <3> QED
      BY <3>1, <3>2
  <2>7. core.lease.route = a.route /\ a.route \in core.active
    BY <1>1, <1>2, <1>9 DEF JobOk
  <2>8. e.reply.status = "Ok" => a \in exec.done
    <3>1. e.reply.status = "Ok" => ok
      BY <2>2 DEF Ended
    <3> QED
      BY <1>1, <1>2, <2>4, <3>1 DEF JobOk
  <2>9. z.lease.route = a.route /\ Earned(z, exec.done)
    <3>1. z.lease = core.lease /\ z.reply = e.reply /\ z.req = req
      BY DEF AnswerTo
    <3>2. a = [route |-> a.route, op |-> a.op, rid |-> a.rid, cookie |-> a.cookie]
      BY <1>2, <1>6 DEF Jobs
    <3> HIDE DEF z, a
    <3>3. ActionOf(z.lease.route, z.req) = a
      BY <2>7, <3>1, <3>2 DEF ActionOf
    <3> QED
      BY <2>7, <2>8, <3>1, <3>3 DEF Earned
  <2>10. /\ core'.replies = Put(d.replies, z) /\ core'.ingress = d.ingress /\ core'.action = d.action
         /\ core'.lease = d.lease /\ core'.active = d.active
    <3>1. SameRoutes(d, core')
      BY <1>7, <2>3, AnsweredFields
    <3> HIDE DEF req
    <3>2. /\ core'.replies = Put(d.replies, z) /\ core'.ingress = d.ingress
          /\ core'.action = d.action /\ core'.lease = d.lease
      BY <1>7, <2>3, AnsweredFields
    <3> QED
      BY <3>1, <3>2 DEF SameRoutes
  <2>11. StoryOk(n, x, core', ses', exec', app.req)
    <3> DEFINE S == Answers(n, k) \cup {z}
    <3>1. d.replies \in Seq(S) /\ z \in S
      <4>1. core.replies \in Seq(Answers(n, k))
        BY <1>1 DEF CoreTypes
      <4> HIDE DEF z
      <4> QED
        BY <1>7, <4>1
    <3>2. z.lease.route \in d.active /\ Earned(z, exec'.done)
      BY <1>4, <1>7, <2>7, <2>9
    <3> HIDE DEF S, z
    <3> QED
      BY <2>6, <2>10, <3>1, <3>2, StoryAnswered
  <2>12. core'.action = NoAction
    BY <1>7, <2>10
  <2> QED
    BY <1>2, <1>3, <2>11, <2>12, StoryShrinks DEF Story, x, y
<1> QED
  BY <1>8, <1>9

\* A request of ingress is answered; an answer that tells of success tells of something done.
LEMMA IncomingAnswered ==
  ASSUME NEW n \in Nat, NEW k \in Nat, SyncOk(n, k), Story(n), Usable,
         exec' = exec, app' = app, box' = box,
         NEW d, SameQueues(WithoutIncoming, d), NEW req, NEW reply,
         reply.status = "Ok" /\ req.op \in Ops => ActionOf(Incoming.lease.route, req) \in exec.done,
         NEW a, a = Answered(d, Incoming.lease, req, reply), SameQueues(a, core'), Fades(ses, ses')
  PROVE  Story(n)'
<1> DEFINE x == FramesAt(box.data)
           z == AnswerTo(d, Incoming.lease, req, reply)
           S == Answers(n, k) \cup {z}
<1>1. /\ Ingress /\ CoreTypes(n, k, core) /\ PendingOk(core, ses) /\ CoreRecord(d)
      /\ StoryOk(n, x, core, ses, exec, app.req) /\ Incoming.lease.route \in core.active
  BY MainFields, StoryFields DEF Usable, SameQueues
<1>2. /\ CoreFades(core, d) /\ d.replies = core.replies /\ d.active = core.active
      /\ core.action = NoAction
  BY <1>1, RestFades DEF Ingress
<1>3. StoryOk(n, x, d, ses', exec, app.req)
  <2> HIDE DEF x
  <2>1. x \in SUBSET x
    OBVIOUS
  <2> QED
    BY <1>1, <1>2, <2>1, StoryFades
<1>4. z.lease = Incoming.lease /\ z.req = req /\ z.reply = reply
  BY DEF AnswerTo
<1>5. d.replies \in Seq(S) /\ z \in S
  <2>1. core.replies \in Seq(Answers(n, k))
    BY <1>1 DEF CoreTypes
  <2> HIDE DEF z
  <2> QED
    BY <1>2, <2>1
<1>6. /\ core'.replies = Put(d.replies, z) /\ core'.ingress = d.ingress /\ core'.action = d.action
      /\ core'.lease = d.lease /\ core'.active = d.active
  <2>1. /\ SameRoutes(d, a) /\ a.ingress = d.ingress /\ a.lease = d.lease /\ a.action = d.action
        /\ a.replies = Put(d.replies, z)
    BY <1>1, AnsweredFields
  <2> HIDE DEF z
  <2> QED
    BY <2>1 DEF SameQueues, SameRoutes
<1>7. z.lease.route \in d.active /\ Earned(z, exec.done)
  BY <1>1, <1>2, <1>4 DEF Earned
<1> HIDE DEF x, z, S
<1>8. StoryOk(n, x, core', ses', exec, app.req)
  BY <1>3, <1>5, <1>6, <1>7, StoryAnswered
<1> QED
  BY <1>8 DEF Story, x

LEMMA AnswerPausedTells ==
  ASSUME NEW n \in Nat, NEW k \in Nat, SyncOk(n, k), Story(n), AnswerPaused
  PROVE  Story(n)'
<1> DEFINE f == Incoming.frame
           r == Incoming.lease.route
           w == WithoutIncoming
           c == OwnerRefreshed(w, ses, r, f.cookie)
           d == IF c.partial.route = r THEN PartialSet(c, Fresh(r)) ELSE c
           reply == Status("Paused", f.cookie)
           a == Answered(d, Incoming.lease, ReqOf(f), reply)
<1>1. /\ Usable /\ box' = box /\ exec' = exec /\ app' = app
      /\ core' = AfterFrame(a) /\ ses' = SessionAfterFrame(d, ses)
  BY DEF AnswerPaused, PartialSet, Carriers
<1>2. r \in Lifes(n) /\ SesOk(n, ses) /\ CoreRecord(w) /\ TimersOk(n, w) /\ Fresh(r) \in Timers(n)
  BY <1>1, UsableOk, TimersAreTyped
<1> HIDE DEF w
<1>3. SameQueues(w, c) /\ TimersOk(n, c) /\ CoreRecord(c)
  <2>1. SameQueues(w, c) /\ TimersOk(n, c)
    BY <1>2, TimerSteps
  <2> QED
    BY <2>1 DEF SameQueues
<1> HIDE DEF c
<1>4. SameQueues(c, d) /\ TimersOk(n, d)
  BY <1>2, <1>3, SetTimers
<1> HIDE DEF d
<1>5. SameQueues(w, d) /\ CoreRecord(d)
  <2>1. SameQueues(w, d)
    BY <1>3, <1>4, QueuesCompose
  <2> QED
    BY <2>1 DEF SameQueues
<1>6. reply.status # "Ok"
  BY DEF Status
<1> HIDE DEF reply
<1>7. CoreRecord(a) /\ TimersOk(n, a)
  <2>1. CoreRecord(a) /\ a.partial = d.partial /\ a.owner = d.owner
    BY <1>5, AnsweredFields
  <2> QED
    BY <1>4, <2>1 DEF TimersOk
<1> HIDE DEF a
<1>8. SameQueues(a, core')
  BY <1>1, <1>2, <1>7, TimerSteps
<1>9. Fades(ses, ses')
  <2>1. ses' = ses \/ ses' = PartialExpired(ses, d.partial.route)
    BY <1>1 DEF SessionAfterFrame
  <2> QED
    BY <1>2, <2>1, NothingFades, PartialFades
<1>10. SameQueues(WithoutIncoming, d) /\ a = Answered(d, Incoming.lease, ReqOf(f), reply)
  BY <1>5 DEF w, a
<1> HIDE DEF f
<1> QED
  BY <1>1, <1>6, <1>8, <1>9, <1>10, IncomingAnswered

LEMMA ConsumeFrameTells ==
  ASSUME NEW n \in Nat, NEW k \in Nat, SyncOk(n, k), Story(n), ConsumeFrame
  PROVE  Story(n)'
<1> DEFINE f == Incoming.frame
           r == Incoming.lease.route
           x == FramesAt(box.data)
<1>1. PICK d, e :
        /\ SameQueues(WithoutIncoming, d) /\ EmissionOk(n, r, f, e) /\ Emitted(ses, r, f, e)
        /\ ses' = e.ses
        /\ core' = IF e.kind = "Reply" THEN Answered(d, Incoming.lease, ReqOf(f), e.reply)
                   ELSE ActionSet(d, e.ses.pending.action, Incoming.lease)
  BY ConsumedFrame
<1>2. Usable /\ box' = box /\ exec' = exec /\ app' = app
  BY DEF ConsumeFrame, Carriers
<1>3. /\ Ingress /\ f \in AppFrame /\ r \in Lifes(n) /\ r \in core.active
      /\ ses.phase # "ActionPending" /\ SesOk(n, ses)
  BY <1>2, UsableOk DEF Usable
<1>4. f = Incoming.frame /\ r = Incoming.lease.route
  OBVIOUS
<1> HIDE DEF f, r
<1>5. /\ e.kind \in {"Reply", "Action"} /\ SameBinding(ses, ses')
      /\ e.kind = "Action" =>
           /\ e.ses.pending.action = ActionOf(r, f) /\ f.op \in Ops
           /\ ActionOf(r, f) # NoAction
           /\ f.op \in Carrying => ses.route = r /\ ses.cookie = f.cookie /\ Seen(ses, r, f) = {}
  BY <1>1, <1>3, EmissionFields DEF Emitted
<1>6. CASE e.kind = "Reply"
  <2> DEFINE a == Answered(d, Incoming.lease, ReqOf(f), e.reply)
             req == ReqOf(f)
             reply == e.reply
  <2>1. core' = a
    BY <1>1, <1>6
  <2>2. SameQueues(a, core')
    <3>1. CoreRecord(d)
      BY <1>1 DEF SameQueues
    <3>2. CoreRecord(a)
      BY <3>1, AnsweredFields
    <3> QED
      BY <2>1, <3>2 DEF SameQueues
  <2>3. Fades(ses, ses')
    BY <1>3, <1>5, BindingFades
  <2>4. reply.status = "Ok" /\ req.op \in Ops => ActionOf(Incoming.lease.route, req) \in exec.done
    <3> SUFFICES ASSUME reply.status = "Ok", req.op \in Ops
                 PROVE  ActionOf(r, req) \in exec.done
      BY <1>4
    <3>1. req.op = f.op /\ ActionOf(r, req) = ActionOf(r, f)
      BY DEF ReqOf, ActionOf
    <3>2. PICK i \in 1..ReplaySlots :
            ses.replay[i].action = ActionOf(r, f) /\ ses.replay[i].reply = e.reply
      BY <1>1, <1>6, <3>1 DEF Emitted
    <3>3. ActionOf(r, f) # NoAction
      <4>1. f.op \in Ops /\ f.op # "None"
        BY <1>3, <3>1, FrameFields
      <4> QED
        BY <4>1 DEF ActionOf, NoAction
    <3>4. RecallOk(ses, exec.done)
      BY StoryFields
    <3> QED
      BY <3>1, <3>2, <3>3, <3>4 DEF RecallOk, EntryTrue
  <2>5. a = Answered(d, Incoming.lease, req, reply)
    OBVIOUS
  <2> HIDE DEF a, req, reply
  <2> QED
    BY <1>1, <1>2, <2>2, <2>3, <2>4, <2>5, IncomingAnswered
<1>7. CASE e.kind = "Action"
  <2> DEFINE a == ActionOf(r, f)
             S == Entries(n, k)
             l == Incoming.lease
  <2>1. core' = ActionSet(d, a, l) /\ a # NoAction /\ a = ActionOf(r, f) /\ l.route = r
    BY <1>1, <1>4, <1>5, <1>7
  <2> HIDE DEF a, l
  <2>2. /\ SameRoutes(d, core') /\ core'.ingress = d.ingress /\ core'.replies = d.replies
        /\ core'.action = a /\ core'.lease = l
    BY <1>1, <2>1, SetAction DEF SameQueues
  <2>3. /\ d.replies = core.replies /\ d.active = core.active /\ d.ingress = Rest(core.ingress)
        /\ core.action = NoAction /\ core.ingress # <<>> /\ f = Head(core.ingress).frame
    BY <1>1, <1>3, <1>4, RestFades DEF Ingress, Incoming
  <2>4. StoryOk(n, x, core, ses, exec, app.req) /\ core.ingress \in Seq(S)
    BY StoryFields, MainFields, CoreFields
  <2>5. core'.active = core.active /\ core'.ingress = Rest(core.ingress) /\ core'.replies = core.replies
        /\ core'.lease.route = r
    BY <2>1, <2>2, <2>3 DEF SameRoutes
  <2> HIDE DEF x, S
  <2>6. StoryOk(n, x, core', ses', exec, app.req)
    BY <1>3, <1>5, <1>7, <2>1, <2>2, <2>3, <2>4, <2>5, StoryActed
  <2> QED
    BY <1>2, <2>6 DEF Story, x
<1> QED
  BY <1>5, <1>6, <1>7

LEMMA CoreStepTells ==
  ASSUME NEW n \in Nat, NEW k \in Nat, SyncOk(n, k), Story(n), CoreStep
  PROVE  Story(n)'
BY ProcessLifecycleTells, ExpirePartialsTells, AwaitActionTells, CompleteActionTells,
   ExpireSessionLeaseTells, CoreIdleTells, DropIncomingTells, AnswerPausedTells, ConsumeFrameTells
   DEF CoreStep

-----------------------------------------------------------------------------
(* The steps around the core. *)

\* Neither the core nor the store moves.
LEMMA StoryRests ==
  ASSUME NEW n \in Nat, Story(n), UNCHANGED <<core, ses, exec>>, app'.req = app.req,
         FramesAt(box'.data) \subseteq FramesAt(box.data)
  PROVE  Story(n)'
<1> DEFINE x == FramesAt(box.data)
           y == FramesAt(box'.data)
<1>1. StoryOk(n, x, core, ses, exec, app.req) /\ y \in SUBSET x
  BY StoryFields
<1> HIDE DEF x, y
<1>2. StoryOk(n, y, core, ses, exec, app.req)
  BY <1>1, StoryShrinks
<1> QED
  BY <1>2 DEF Story, y

LEMMA ToldAsks ==
  ASSUME NEW k \in Nat, AppOk(k, app), NEW a
  PROVE  Told(a).req = app.req
<1> DEFINE x == a.reply.cookie
<1>1. Told(a) = app \/ Told(a) = [app EXCEPT !.cookie = x]
  BY DEF Told
<1> HIDE DEF x
<1>2. app = [req |-> app.req, cookie |-> app.cookie, sent |-> app.sent]
  BY DEF AppOk
<1>3. [app EXCEPT !.cookie = x].req = app.req
  BY <1>2
<1> QED
  BY <1>1, <1>3

\* An answer leaves the core.
LEMMA RetiredTells ==
  ASSUME NEW n \in Nat, NEW k \in Nat, SyncOk(n, k), Story(n), NEW seq, NEW l,
         core' = Removed(core, seq), box' = Released(box, l), ses' = ses, exec' = exec,
         app'.req = app.req
  PROVE  Story(n)'
<1> DEFINE I == OtherSeqs(core, seq)
<1>1. /\ CoreRecord(core) /\ core.replies \in Seq(Answers(n, k)) /\ MailOk(n, k, box)
      /\ PendingOk(core, ses)
  BY MainFields, CoreFields
<1>2. /\ core'.ingress = core.ingress /\ core'.lease = core.lease /\ core'.action = core.action
      /\ core'.active = core.active /\ core'.replies = Kept(core.replies, I)
  <2>1. SameRoutes(core, core')
    BY <1>1, RemovedFields
  <2> HIDE DEF I
  <2>2. /\ core'.ingress = core.ingress /\ core'.lease = core.lease /\ core'.action = core.action
        /\ core'.replies = Kept(core.replies, I)
    BY <1>1, RemovedFields DEF I
  <2> QED
    BY <2>1, <2>2 DEF SameRoutes
<1>3. I \in SUBSET (DOMAIN core.replies)
  BY DEF OtherSeqs
<1> HIDE DEF I
<1>4. Sorted(core.ingress) /\ RepliesOk(core, exec.done) /\ JobOk(core, ses, exec)
  BY StoryFields
<1>5. \A i \in DOMAIN core'.replies : \E j \in DOMAIN core.replies : core'.replies[i] = core.replies[j]
  BY <1>1, <1>2, <1>3, KeptPart DEF LeftOf
<1>6. CoreFades(core, core')
  BY <1>2, <1>4, <1>5 DEF CoreFades, RepliesOk
<1>7. Fades(ses, ses') /\ core.active \subseteq core'.active
  BY <1>2, NothingFades
<1>8. core.action # NoAction => ses'.pending.orphaned \/ core.action.route \in core'.active
  BY <1>1, <1>4, <1>7, RouteKept
<1>9. FramesAt(box'.data) \subseteq FramesAt(box.data)
  BY <1>1, ReleasedMail DEF ReleaseStep
<1> QED
  BY <1>6, <1>7, <1>8, <1>9, FadesKeeps

LEMMA SendUsbReplyTells ==
  ASSUME NEW n \in Nat, NEW k \in Nat, SyncOk(n, k), Story(n), SendUsbReply
  PROVE  Story(n)'
<1>1. /\ ses' = ses /\ exec' = exec /\ app' = Told(usb.slot)
      /\ \/ core' = Removed(core, sup.queued.seq) /\ box' = Released(box, sup.queued.lease)
         \/ UNCHANGED <<core, box>>
  BY DEF SendUsbReply
<1>2. app'.req = app.req
  BY <1>1, AroundFields, ToldAsks
<1>3. CASE core' = Removed(core, sup.queued.seq) /\ box' = Released(box, sup.queued.lease)
  <2> DEFINE s == sup.queued.seq
             l == sup.queued.lease
  <2>1. core' = Removed(core, s) /\ box' = Released(box, l)
    BY <1>3
  <2> HIDE DEF s, l
  <2> QED
    BY <1>1, <1>2, <2>1, RetiredTells
<1>4. CASE UNCHANGED <<core, box>>
  BY <1>1, <1>2, <1>4, StoryRests
<1> QED
  BY <1>1, <1>3, <1>4

LEMMA RetireWifiReplyTells ==
  ASSUME NEW n \in Nat, NEW k \in Nat, SyncOk(n, k), Story(n), RetireWifiReply
  PROVE  Story(n)'
<1> DEFINE s == wifi.accepted.seq
           l == wifi.accepted.lease
<1>1. /\ ses' = ses /\ exec' = exec /\ app' = app
      /\ \/ core' = Removed(core, s) /\ box' = Released(box, l)
         \/ UNCHANGED <<core, box>>
  BY DEF RetireWifiReply
<1> HIDE DEF s, l
<1>2. CASE core' = Removed(core, s) /\ box' = Released(box, l)
  BY <1>1, <1>2, RetiredTells
<1>3. CASE UNCHANGED <<core, box>>
  BY <1>1, <1>3, StoryRests
<1> QED
  BY <1>1, <1>2, <1>3

LEMMA ImportOneTells ==
  ASSUME NEW n \in Nat, NEW k \in Nat, SyncOk(n, k), Story(n), ImportOne
  PROVE  Story(n)'
<1> DEFINE rec == Front(box)
           x == FramesAt(box.data)
           y == FramesAt(box'.data)
<1>1. /\ MailOk(n, k, box) /\ CoreTypes(n, k, core) /\ CoreRecord(core) /\ SesOk(n, ses)
      /\ PendingOk(core, ses) /\ core.ingress \in Seq(Entries(n, k)) /\ Len(core.ingress) \in Nat
      /\ StoryOk(n, x, core, ses, exec, app.req) /\ JobOk(core, ses, exec)
  BY MainFields, CoreFields, StoryFields
<1>2. /\ exec' = exec /\ app' = app
      /\ core' = Imported(core, ses, rec) /\ box' = Taken(box)
      /\ ses' = IF rec.kind = "CloseAll" THEN AllRoutesClosed(ses) ELSE ses
  BY DEF ImportOne, Carriers
<1>3. TakeStep(n, k, box, rec, box')
  BY <1>1, <1>2, TakenMail
<1>4. /\ rec.kind \in {"None", "CloseAll", "Open", "Close", "Frame"} /\ y \subseteq x
      /\ rec.kind = "Frame" => rec.frame \in x /\ FrameAt(box'.data) = {} /\ rec.frame \in AppFrame
      /\ rec.lease \in Leases(n, k)
  BY <1>3 DEF TakeStep
<1>5. rec.kind \in {"Open", "Close"} => rec.lease.route \in Lifes(n)
  BY <1>1, FrontIsOfARoute
<1>6. app'.req = app.req
  BY <1>2
<1> HIDE DEF rec
<1>7. CASE rec.kind = "CloseAll"
  <2> DEFINE r == rec.lease.route
  <2>1. core' = RevokedAll(core, ses, r) /\ ses' = AllRoutesClosed(ses)
    BY <1>2, <1>7 DEF Imported
  <2> HIDE DEF r
  <2>2. /\ core'.ingress = <<>> /\ core'.replies = <<>> /\ core'.lease = core.lease
        /\ core'.action = core.action
    BY <2>1, RevokedAllFields
  <2>3. CoreFades(core, core')
    BY <2>2 DEF CoreFades, Sorted, FramesIn
  <2>4. Fades(ses, ses') /\ (ses.phase = "ActionPending" => ses'.pending.orphaned)
    BY <1>1, <2>1, AllRoutesClosedFades
  <2>5. core.action # NoAction => ses'.pending.orphaned
    BY <1>1, <2>4 DEF PendingOk
  <2> QED
    BY <1>2, <1>4, <1>6, <2>3, <2>4, <2>5, FadesKeeps
<1>8. CASE rec.kind \in {"None", "Open", "Close"}
  <2>1. CASE rec.kind = "None"
    <3>1. core' = core /\ ses' = ses
      BY <1>2, <2>1 DEF Imported
    <3> QED
      BY <1>2, <1>4, <1>6, <3>1, StoryRests
  <2>2. CASE rec.kind \in {"Open", "Close"}
    <3> DEFINE kind == rec.kind
               r == rec.lease.route
    <3>1. core' = Enqueued(core, kind, r) /\ ses' = ses
      BY <1>2, <2>2 DEF Imported
    <3>2. kind \in {"Open", "Close"} /\ r \in Lifes(n)
      BY <1>5, <2>2
    <3> HIDE DEF kind, r
    <3>3. OnlyRoutesChange(core, core') /\ core'.active = core.active
      <4> DEFINE d == Enqueued(core, kind, r)
      <4>1. d = Enqueued(core, kind, r)
        OBVIOUS
      <4> HIDE DEF d
      <4>2. CoreTypes(n, k, core)
        BY <1>1
      <4>3. OnlyRoutesChange(core, d) /\ d.active = core.active
        BY <3>2, <4>1, <4>2, EnqueuedOk
      <4> QED
        BY <3>1, <4>3 DEF d
    <3> QED
      BY <1>2, <1>4, <1>6, <3>1, <3>3, SameQueuesTell, NothingFades, QuietKeeps
  <2> QED
    BY <1>8, <2>1, <2>2
<1>9. CASE rec.kind = "Frame"
  <2>1. core' = Ingested(core, rec) /\ ses' = ses
    BY <1>2, <1>9 DEF Imported
  <2>2. CASE Len(core.ingress) >= DataSlots
    <3>1. core' = core
      BY <2>1, <2>2 DEF Ingested
    <3> QED
      BY <1>2, <1>4, <1>6, <2>1, <3>1, StoryRests
  <2>3. CASE ~(Len(core.ingress) >= DataSlots)
    <3> DEFINE z == EntryOf(rec)
               s == Put(core.ingress, z)
               S == Entries(n, k)
    <3>1. core' = IngressSet(core, s)
      BY <2>1, <2>3 DEF Ingested, IngressSet, EntryOf, Put
    <3>2. z \in S /\ z.frame \in x
      BY <1>4, <1>9 DEF EntryOf, Entries
    <3>3. y = {}
      BY <1>4, <1>9 DEF FramesAt
    <3> HIDE DEF s
    <3>4. /\ core'.ingress = s /\ core'.replies = core.replies /\ core'.action = core.action
          /\ core'.lease = core.lease /\ core'.active = core.active
      BY <1>1, <3>1, SetIngress DEF SameRoutes
    <3>5. core'.ingress = Put(core.ingress, z) /\ core.ingress \in Seq(S)
      BY <1>1, <3>4 DEF s
    <3> HIDE DEF x, y, z, S
    <3>6. StoryOk(n, {}, core', ses, exec, app.req)
      BY <1>1, <3>2, <3>4, <3>5, StoryImported
    <3> QED
      BY <1>2, <2>1, <3>3, <3>6 DEF Story, y
  <2> QED
    BY <2>2, <2>3
<1> QED
  BY <1>4, <1>7, <1>8, <1>9

\* The App sends another part of its request, or the next one.
LEMMA NextAsked ==
  ASSUME NEW n \in Nat, NEW k \in Nat, SyncOk(n, k), NEW f \in AppFrames, AppSent(f), Formed(app.req)
  PROVE  /\ Formed(f)
         /\ app.req.rid < f.rid \/ SameRequest(app.req, f)
         /\ SameRequest(app'.req, f)
<1>1. AppOk(k, app)
  BY AroundFields
<1>2. app = [req |-> app.req, cookie |-> app.cookie, sent |-> app.sent] /\ app.req \in Requests
  BY <1>1 DEF AppOk
<1>3. app.req.rid \in Nat
  BY <1>2 DEF Requests
<1>4. Formed(f) /\ (app.req.rid < f.rid \/ SameRequest(app.req, f))
  <2>1. CASE app.req # NoRequest /\ f \in FramesOf(app.req, Fragments(app.req.op))
    BY <2>1 DEF FramesOf, Formed, SameRequest
  <2>2. CASE \E op \in env.scene.asked : f \in FramesOf(NextRequest(op), {1})
    <3>1. PICK op \in env.scene.asked : f \in FramesOf(NextRequest(op), {1})
      BY <2>2
    <3> DEFINE x == app.req.rid + 1
               y == IF op \in BoundOps \cup {"Data"} THEN app.cookie ELSE 0
    <3>2. NextRequest(op) = [op |-> op, rid |-> x, cookie |-> y]
      BY DEF NextRequest
    <3>3. x \in Nat /\ app.req.rid < x /\ (op \notin Carrying => y = 0)
      BY <1>3 DEF Carrying
    <3> HIDE DEF x, y
    <3>4. f.op = op /\ f.rid = x /\ f.cookie = y
      BY <3>1, <3>2 DEF FramesOf
    <3> QED
      BY <3>3, <3>4 DEF Formed
  <2> QED
    BY <2>1, <2>2 DEF AppFrames
<1>5. SameRequest(app'.req, f)
  <2> DEFINE q == ReqOf(f)
             m == app.sent + 1
  <2>1. app' = [app EXCEPT !.req = q, !.sent = m]
    BY DEF AppSent
  <2>2. q.op = f.op /\ q.rid = f.rid /\ q.cookie = f.cookie
    BY DEF ReqOf
  <2> HIDE DEF q, m
  <2>3. app'.req = q
    BY <1>2, <2>1
  <2> QED
    BY <2>2, <2>3 DEF SameRequest
<1> QED
  BY <1>4, <1>5

\* Any frame the App sends is the request it has, or a later one.
LEMMA FrameArrivesTells ==
  ASSUME NEW n \in Nat, NEW k \in Nat, SyncOk(n, k), Story(n), NEW v \in Vias, NEW g \in 1..n,
         NEW f \in AppFrames, AppSent(f), box' = Received(box, RouteOf(v, g), f),
         UNCHANGED <<core, ses, exec>>
  PROVE  Story(n)'
<1> DEFINE x == FramesAt(box.data)
           y == FramesAt(box'.data)
           r == RouteOf(v, g)
           q == app.req
           p == app'.req
<1>1. f \in AppFrame /\ box.next <= k
  BY SentOk
<1>2. r \in Lifes(n) /\ r.gen # 0 /\ box' = Received(box, r, f)
  BY RoutesAndLeases DEF RouteOf
<1> HIDE DEF r
<1>3. MailOk(n, k, box) /\ StoryOk(n, x, core, ses, exec, q)
  BY MainFields, StoryFields
<1>4. y \subseteq x \/ y = {f}
  BY <1>1, <1>2, <1>3, ReceivedMail, SMTT(20)
<1>5. Formed(q)
  BY <1>3 DEF StoryOk, Ordered
<1>6. Formed(f) /\ (q.rid < f.rid \/ SameRequest(q, f)) /\ SameRequest(p, f)
  BY <1>5, NextAsked
<1> HIDE DEF x, y, p, q
<1>7. StoryOk(n, y, core, ses, exec, p)
  BY <1>1, <1>3, <1>4, <1>6, StoryAsked
<1> QED
  BY <1>7 DEF Story, y, p

LEMMA FramesTell ==
  ASSUME NEW n \in Nat, NEW k \in Nat, SyncOk(n, k), Story(n), UsbFrameArrives \/ WifiFrameArrives
  PROVE  Story(n)'
<1>1. CASE UsbFrameArrives
  <2>1. UNCHANGED <<core, ses, exec>> /\ "usb" \in Vias /\ usb.epoch \in 1..n
    <3>1. UsbOk(n, k, usb) /\ env.scene.mounts \in 0..n
      BY AroundFields, SceneFields
    <3> QED
      BY <1>1, <3>1 DEF Vias, UsbOk, UsbFrameArrives
  <2>2. PICK f \in AppFrames : box' = Received(box, RouteOf("usb", usb.epoch), f) /\ AppSent(f)
    BY <1>1 DEF UsbFrameArrives
  <2> QED
    BY <2>1, <2>2, FrameArrivesTells
<1>2. CASE WifiFrameArrives
  <2>1. UNCHANGED <<core, ses, exec>> /\ "wifi" \in Vias /\ wifi.gen \in 1..n
    <3>1. WifiOk(n, k, wifi) /\ env.scene.links \in 0..n /\ env.scene.links \in Nat
      BY AroundFields, SceneFields
    <3> QED
      BY <1>2, <3>1 DEF Vias, WifiOk, WifiFrameArrives
  <2>2. PICK f \in AppFrames : box' = Received(box, RouteOf("wifi", wifi.gen), f) /\ AppSent(f)
    BY <1>2 DEF WifiFrameArrives, WifiRoute, FrameRead
  <2> QED
    BY <2>1, <2>2, FrameArrivesTells
<1> QED
  BY <1>1, <1>2

\* The mailbox loses or changes a route.
LEMMA RoutesTell ==
  ASSUME NEW n \in Nat, NEW k \in Nat, SyncOk(n, k), Story(n),
         ObserveUsbRoute \/ WifiConnect \/ WifiCloseRoute
  PROVE  Story(n)'
<1>1. UNCHANGED <<core, ses, exec, app>>
  BY DEF ObserveUsbRoute, WifiConnect, WifiCloseRoute
<1>2. /\ MailOk(n, k, box) /\ SupOk(n, k, sup) /\ WifiOk(n, k, wifi)
      /\ env.scene.links \in 0..n /\ env.scene.links \in Nat
  BY MainFields, AroundFields, SceneFields
<1>3. RouteStep(n, box, box')
  <2>1. CASE ObserveUsbRoute
    <3> DEFINE g == sup.epoch
    <3>1. box' = Ensured(box, "usb", g) /\ g \in 0..n /\ "usb" \in Vias
      BY <1>2, <2>1 DEF ObserveUsbRoute, SupOk, Vias
    <3> HIDE DEF g
    <3> QED
      BY <1>2, <3>1, EnsuredMail
  <2>2. CASE WifiConnect
    <3> DEFINE g == wifi.gen + 1
    <3>1. box' = Ensured(box, "wifi", g) /\ g \in 0..n /\ "wifi" \in Vias
      BY <1>2, <2>2 DEF WifiConnect, ListenerIsReady, WifiOk, Vias
    <3> HIDE DEF g
    <3> QED
      BY <1>2, <3>1, EnsuredMail
  <2>3. CASE WifiCloseRoute
    <3> DEFINE r == WifiRoute
    <3>1. box' = Forgotten(box, r) /\ r \in Lifes(n)
      <4>1. wifi.gen \in 0..n /\ "wifi" \in Vias
        BY <1>2 DEF WifiOk, Vias
      <4> QED
        BY <2>3, <4>1, RoutesAndLeases DEF WifiCloseRoute, WifiRoute
    <3> HIDE DEF r
    <3> QED
      BY <1>2, <3>1, ForgottenMail
  <2> QED
    BY <2>1, <2>2, <2>3
<1>4. FramesAt(box'.data) \subseteq FramesAt(box.data)
  BY <1>3 DEF RouteStep
<1> QED
  BY <1>1, <1>4, StoryRests

LEMMA StoreWorksTells ==
  ASSUME NEW n \in Nat, NEW k \in Nat, SyncOk(n, k), Story(n), StoreWorks
  PROVE  Story(n)'
<1> DEFINE x == FramesAt(box.data)
<1>1. /\ ExecOk(exec) /\ exec.stage = "running" /\ UNCHANGED <<box, core, ses, app>>
      /\ StoryOk(n, x, core, ses, exec, app.req)
  BY AroundFields, StoryFields DEF StoreWorks, Carriers
<1>2. PICK m \in {"ok", "fail", "other"} :
        exec' = [exec EXCEPT !.stage = m, !.done = IF m = "fail" THEN @ ELSE @ \cup {exec.action}]
  BY DEF StoreWorks
<1> DEFINE z == IF m = "fail" THEN exec.done ELSE exec.done \cup {exec.action}
<1>3. exec' = [exec EXCEPT !.stage = m, !.done = z]
  BY <1>2
<1>4. \/ m = "fail" /\ z = exec.done
      \/ m # "fail" /\ z = exec.done \cup {exec.action}
  OBVIOUS
<1> HIDE DEF z, x
<1>5. exec'.stage = m /\ exec'.done = z /\ exec'.action = exec.action
  BY <1>1, <1>3 DEF ExecOk
<1>6. StoryOk(n, x, core, ses, exec', app.req)
  BY <1>1, <1>4, <1>5, StoryWorked
<1> QED
  BY <1>1, <1>6 DEF Story, x

\* Clocks, the App and the carriers, apart from the mailbox.
LEMMA IdleTells ==
  ASSUME NEW n \in Nat, NEW k \in Nat, SyncOk(n, k), Story(n),
         \/ ReadUsbEpoch \/ OfferReplies \/ Mount \/ Unmount \/ CarrierStep
         \/ VoiceTurns \/ BootReadEnds \/ UNCHANGED vars
  PROVE  Story(n)'
<1>1. UNCHANGED <<box, core, ses, exec>> /\ (app' = app \/ app' = Told(wifi.sending))
  BY DEF ReadUsbEpoch, OfferReplies, Mount, Unmount, CarrierStep, VoiceTurns, BootReadEnds, vars,
         WifiGreet, WifiTakeResponse, WifiSend, WifiNext, WifiGreetFails, WifiLeaves,
         WifiDeactivate, ResponseWritten, Carriers
<1>2. app'.req = app.req
  BY <1>1, AroundFields, ToldAsks
<1> QED
  BY <1>1, <1>2, StoryRests

LEMMA AgesTell ==
  ASSUME NEW n \in Nat, NEW k \in Nat, SyncOk(n, k), Story(n), PartialAges \/ OwnerAges
  PROVE  Story(n)'
<1>1. CoreRecord(core) /\ TimersOk(n, core) /\ core.partial \in Timers(n) /\ core.owner \in Timers(n)
  BY MainFields DEF TimersOk
<1>2. UNCHANGED <<box, ses, exec, app>>
  BY DEF PartialAges, OwnerAges, Carriers
<1>3. SameQueues(core, core')
  <2>1. CASE PartialAges
    <3> DEFINE t == [core.partial EXCEPT !.old = TRUE]
    <3>1. core.partial.route # NoRoute /\ core' = PartialSet(core, t)
      BY <2>1 DEF PartialAges, PartialSet
    <3>2. t \in Timers(n)
      BY <1>1, <3>1, TimersAreTyped
    <3> HIDE DEF t
    <3> QED
      BY <1>1, <3>1, <3>2, SetTimers
  <2>2. CASE OwnerAges
    <3> DEFINE t == [core.owner EXCEPT !.old = TRUE]
    <3>1. core.owner.route # NoRoute /\ core' = OwnerSet(core, t)
      BY <2>2 DEF OwnerAges, OwnerSet
    <3>2. t \in Timers(n)
      BY <1>1, <3>1, TimersAreTyped
    <3> HIDE DEF t
    <3> QED
      BY <1>1, <3>1, <3>2, SetTimers
  <2> QED
    BY <2>1, <2>2
<1>4. SameStory(core, core') /\ Fades(ses, ses')
  BY <1>2, <1>3, SameQueuesTell, NothingFades
<1>5. FramesAt(box'.data) \subseteq FramesAt(box.data) /\ app'.req = app.req
  BY <1>2
<1> QED
  BY <1>2, <1>4, <1>5, QuietKeeps

-----------------------------------------------------------------------------
(* The story is kept; what follows from it. *)

LEMMA StoryIsKept ==
  ASSUME NEW n \in Nat, NEW k \in Nat, SyncOk(n, k), Story(n), [Next]_vars
  PROVE  Story(n)'
<1>1. CASE Platform
  BY <1>1, SendUsbReplyTells, IdleTells, RoutesTell, RetireWifiReplyTells, ImportOneTells,
     CoreStepTells DEF Platform
<1>2. CASE WifiCarrier
  BY <1>2, RoutesTell, FramesTell, IdleTells DEF WifiCarrier, CarrierStep
<1>3. CASE StoreWorks
  BY <1>3, StoreWorksTells
<1>4. CASE UsbFrameArrives
  BY <1>4, FramesTell
<1>5. CASE Mount \/ Unmount \/ VoiceTurns \/ BootReadEnds \/ UNCHANGED vars
  BY <1>5, IdleTells
<1>6. CASE PartialAges \/ OwnerAges
  BY <1>6, AgesTell
<1> QED
  BY <1>1, <1>2, <1>3, <1>4, <1>5, <1>6 DEF Next

LEMMA InitTells ==
  ASSUME NEW n \in Nat, Init
  PROVE  Story(n)
<1> DEFINE x == FramesAt(box.data)
           q == app.req
<1>1. /\ box.data = <<>> /\ exec.stage = "none" /\ exec.done = {} /\ q = NoRequest
      /\ core.ingress = <<>> /\ core.replies = <<>> /\ core.action = NoAction
      /\ ses.route = NoRoute /\ ses.nextCookie = 1 /\ ses.replay = NoEntries
  BY DEF Init, EmptyMailbox, NewCore, NewSession
<1>2. x = {} /\ FramesIn(core.ingress) = {} /\ Given(core) = {}
  BY <1>1 DEF FramesAt, FrameAt, FramesIn, Given
<1>3. q.rid \in Nat /\ Formed(q)
  BY <1>1 DEF NoRequest, Formed
<1>4. Sorted(core.ingress) /\ RepliesOk(core, exec.done)
  BY <1>1 DEF Sorted, RepliesOk
<1>5. RecallOk(ses, exec.done)
  BY <1>1 DEF RecallOk, EntryTrue, NoEntries, NoEntry
<1> HIDE DEF x, q
<1>6. Ordered(n, x, core, exec.done, q)
  BY <1>1, <1>2, <1>3, <1>4 DEF Ordered
<1>7. JobOk(core, ses, exec) /\ CookiesOk(core, ses, exec.done)
  BY <1>1, <1>2 DEF JobOk, CookiesOk
<1>8. OnceOk(x, core, ses, exec, q)
  BY <1>1, <1>2 DEF OnceOk
<1> QED
  BY <1>4, <1>5, <1>6, <1>7, <1>8 DEF Story, StoryOk, x, q

StoryHolds == \E n, k \in Nat : SyncOk(n, k) /\ Story(n)

LEMMA AlwaysOrdered ==
  ASSUME BootIsQuiet
  PROVE  Spec => []StoryHolds
<1>1. Init => StoryHolds
  <2> SUFFICES ASSUME Init PROVE StoryHolds
    OBVIOUS
  <2>1. PICK n \in Nat, k \in Nat : SyncOk(n, k)
    BY InitIsOk
  <2>2. Story(n)
    BY InitTells
  <2> QED
    BY <2>1, <2>2 DEF StoryHolds
<1>2. StoryHolds /\ [Next]_vars => StoryHolds'
  <2> SUFFICES ASSUME StoryHolds, [Next]_vars PROVE StoryHolds'
    OBVIOUS
  <2>1. PICK n \in Nat, k \in Nat : SyncOk(n, k) /\ Story(n)
    BY DEF StoryHolds
  <2>2. SyncOk(n, k)' /\ Story(n)'
    BY <2>1, SyncIsKept, StoryIsKept
  <2> QED
    BY <2>2 DEF StoryHolds
<1> QED
  BY <1>1, <1>2, PTL DEF Spec

\* An answer waits only for a route that is still open, and one that reports success to an
\* operation is for a job the store's worker carried out, of exactly this route, request and
\* cookie: completed jobs are answered from their pending action, remembered answers only to
\* their own request (SpeakerAssetsSession::complete, lookup_replay,
\* SpeakerAssetsRuntimeCore::purge_replies_for_route).
THEOREM AnswersEarned == BootIsQuiet /\ Spec => []AnswersAreEarned
<1>1. StoryHolds => AnswersAreEarned
  <2> SUFFICES ASSUME StoryHolds, NEW a \in Range(core.replies)
               PROVE  /\ a.lease.route \in core.active
                      /\ a.reply.status = "Ok" /\ a.req.op \in Ops =>
                           [route |-> a.lease.route, op |-> a.req.op, rid |-> a.req.rid,
                            cookie |-> a.req.cookie] \in exec.done
    BY DEF AnswersAreEarned
  <2>1. PICK n \in Nat, k \in Nat : SyncOk(n, k) /\ Story(n)
    BY DEF StoryHolds
  <2>2. RepliesOk(core, exec.done)
    BY <2>1, StoryFields
  <2>3. PICK i \in DOMAIN core.replies : a = core.replies[i]
    BY DEF Range
  <2> QED
    BY <2>2, <2>3 DEF RepliesOk, Earned, ActionOf
<1>2. BootIsQuiet => (Spec => []StoryHolds)
  BY AlwaysOrdered
<1> QED
  BY <1>1, <1>2, PTL

LEMMA BytesStayBorrowed ==
  ASSUME StoryHolds
  PROVE  BorrowedBytesStay
<1>1. PICK n \in Nat, k \in Nat : SyncOk(n, k) /\ Story(n)
  BY DEF StoryHolds
<1>2. JobOk(core, ses, exec)
  BY <1>1, StoryFields
<1> QED
  BY <1>2 DEF JobOk, BorrowedOf, BorrowedBytesStay, Borrowed

\* A job's record is its route and its request: where two differ in their routes only, they
\* are jobs of the same request.
LEMMA RouteAside ==
  ASSUME NEW n, NEW a \in Done(n), NEW d \in Done(n),
         [d EXCEPT !.route = NoRoute] = [a EXCEPT !.route = NoRoute]
  PROVE  SameRequest(a, d)
<1> DEFINE b == [a EXCEPT !.route = NoRoute]
           e == [d EXCEPT !.route = NoRoute]
<1>1. b.op = a.op /\ b.rid = a.rid /\ b.cookie = a.cookie
  BY DEF Done
<1>2. e.op = d.op /\ e.rid = d.rid /\ e.cookie = d.cookie
  BY DEF Done
<1>3. b = e
  OBVIOUS
<1> HIDE DEF b, e
<1> QED
  BY <1>1, <1>2, <1>3 DEF SameRequest

LEMMA OnceCarriedOut ==
  ASSUME StoryHolds
  PROVE  CarriedOutOnce
<1> SUFFICES ASSUME exec.stage = "running", exec.action.cookie # 0, NEW d \in exec.done,
                    [d EXCEPT !.route = NoRoute] = [exec.action EXCEPT !.route = NoRoute]
             PROVE  FALSE
  BY DEF CarriedOutOnce
<1>1. PICK n \in Nat, k \in Nat : SyncOk(n, k) /\ Story(n)
  BY DEF StoryHolds
<1> DEFINE x == FramesAt(box.data)
<1>2. /\ JobOk(core, ses, exec) /\ Ordered(n, x, core, exec.done, app.req)
      /\ OnceOk(x, core, ses, exec, app.req)
  BY <1>1, StoryFields DEF StoryOk
<1> HIDE DEF x
<1>3. core.action = exec.action /\ Given(core) = {exec.action}
  BY <1>2 DEF JobOk, Given
<1>4. exec.action \in Done(n) /\ d \in Done(n)
  BY <1>2, <1>3 DEF Ordered
<1>5. SameRequest(exec.action, d)
  BY <1>4, RouteAside
<1>6. ~SameRequest(exec.action, d)
  BY <1>2, <1>3 DEF OnceOk
<1> QED
  BY <1>5, <1>6

\* The bytes the store's worker reads in place stay as they were lent to it, however its route
\* ends meanwhile: SpeakerAssetsSession::route_closed orphans a session whose action is pending,
\* and leaves it its unit and plan until the job is over.  A request of an open session that was
\* carried out never reaches the store again: lookup_replay answers it from memory before
\* begin_pending_action, or its cookie is no longer the session's.
THEOREM StoreJobsSound == BootIsQuiet /\ Spec => []StoreJobsAreSound
<1>1. StoryHolds => StoreJobsAreSound
  BY BytesStayBorrowed, OnceCarriedOut DEF StoreJobsAreSound
<1>2. BootIsQuiet => (Spec => []StoryHolds)
  BY AlwaysOrdered
<1> QED
  BY <1>1, <1>2, PTL
=============================================================================
