--------------------------- MODULE SpeakerSession ---------------------------
(***************************************************************************)
(* The volatile session of a sound transfer (SpeakerAssetsSession,         *)
(* speaker_assets_session.cpp): which route the transaction is bound to,   *)
(* what has been assembled of a plan or a unit, which store action is      *)
(* pending, and the answers already given.                                 *)
(*                                                                         *)
(* Everything here is a function from a session to a session.  A frame is  *)
(* [op, rid, cookie, part]: opcode, request id, session cookie and which   *)
(* fragment of its plan or unit it carries.  The bytes are what the        *)
(* request id names, so two frames agree on a byte exactly if they are of  *)
(* the same request; field checks that reject a malformed frame are left   *)
(* to the sender, who makes none.                                          *)
(***************************************************************************)
EXTENDS SpeakerMailbox

CONSTANT ReplaySlots   \* kSpeakerAssetsReplayEntries

ASSUME SessionHasReplay == ReplaySlots \in Nat \ {0}

\* Opcodes by what they need.  Recover is RecoverInvalidStaging.
PlanOps == {"Begin", "Recover"}        \* fragments of a plan, no cookie
OpenOps == {"Resume", "Current"}       \* one frame, no cookie, an idle session
BoundOps == {"Query", "Commit", "Abort"}  \* one frame, the cookie of the session
Ops == PlanOps \cup OpenOps \cup BoundOps \cup {"Data"}  \* what voice pauses
Immediate == {"Capabilities"}

Parts == {1, 2}   \* first and last fragment

NoPlan == [route |-> NoRoute, rid |-> 0, op |-> "None", parts |-> {}, fromReady |-> FALSE]
NoUnit == [rid |-> 0, parts |-> {}]
NoAction == [route |-> NoRoute, op |-> "None", rid |-> 0, cookie |-> 0]
NoPending == [action |-> NoAction, orphaned |-> FALSE]
NoEntry == [action |-> NoAction, reply |-> 0]

NoEntries == [i \in 1..ReplaySlots |-> NoEntry]

NewSession ==
  [phase |-> "Idle", route |-> NoRoute, cookie |-> 0,
   plan |-> NoPlan,       \* plan_assembler_ and its flags
   decoded |-> 0,         \* decoded_plan_, by the request that brought it
   unit |-> NoUnit,       \* block_assembler_ and its flags
   pending |-> NoPending, \* pending_
   replay |-> NoEntries, slot |-> 1,
   nextCookie |-> 1]

Bound(s) == s.route # NoRoute

----------------------------------------------------------------------------
(* Answers. *)

Status(st, cookie) == [status |-> st, cookie |-> cookie]

\* An emission of consume: a reply, an action or neither; moved tells whether the
\* frame advanced an assembler.
Reply(s, reply, moved) == [ses |-> s, kind |-> "Reply", reply |-> reply, moved |-> moved]
Refuse(s, st, f) == Reply(s, Status(st, f.cookie), FALSE)

\* begin_pending_action and emit_action
Act(s, r, f, moved) ==
  [ses |-> [s EXCEPT !.phase = "ActionPending",
             !.pending = [action |-> [route |-> r, op |-> f.op, rid |-> f.rid, cookie |-> f.cookie],
                          orphaned |-> FALSE]],
   kind |-> "Action", reply |-> Status("None", 0), moved |-> moved]

\* Mutant: an answer is found by its request id, whoever asked.
SeenAnyRoute(s, r, f) ==
  {i \in 1..ReplaySlots : /\ s.replay[i].action.rid = f.rid
                          /\ s.replay[i].action.cookie = f.cookie}

\* The remembered answers to this request id of this route and cookie.
Seen(s, r, f) ==
  {i \in 1..ReplaySlots : /\ s.replay[i].action.route = r
                          /\ s.replay[i].action.rid = f.rid
                          /\ s.replay[i].action.cookie = f.cookie}

\* lookup_replay
Exact(s, r, f) == {i \in Seen(s, r, f) : s.replay[i].action.op = f.op}
Lookup(s, r, f) ==
  IF Exact(s, r, f) # {} THEN "Exact" ELSE IF Seen(s, r, f) # {} THEN "Conflict" ELSE "Miss"
Remembered(s, r, f) == s.replay[CHOOSE i \in Exact(s, r, f) : TRUE].reply

\* remember_replay
Remember(s, action, reply) ==
  [s EXCEPT !.replay[s.slot] = [action |-> action, reply |-> reply],
            !.slot = IF @ = ReplaySlots THEN 1 ELSE @ + 1]

----------------------------------------------------------------------------
(* consume *)

\* restore_after_begin_assembly
PlanDropped(s) ==
  [s EXCEPT !.plan = NoPlan,
            !.phase = IF s.plan.fromReady /\ Bound(s) THEN "Ready" ELSE "Idle"]

\* clear_partial_assembly, clear_binding
Unassembled(s) == [s EXCEPT !.plan = NoPlan, !.unit = NoUnit]
Unbound(s) == [s EXCEPT !.route = NoRoute, !.cookie = 0]
Reset(s) == [Unbound(Unassembled(s)) EXCEPT !.phase = "Idle"]

\* What lookup_replay decides for a request that is complete: answer again, refuse, or act.
Decide(s, r, f, after, refuse, moved) ==
  CASE Lookup(s, r, f) = "Exact" -> Reply(after, Remembered(s, r, f), moved)
    [] Lookup(s, r, f) = "Conflict" \/ (Lookup(s, r, f) = "Miss" /\ refuse) ->
         Reply(after, Status("Refused", f.cookie), moved)
    [] OTHER -> Act(s, r, f, moved)

\* consume_plan_action
PlanStarts(s, r, f) ==
  f.part = 1 /\ (s.phase = "Idle" \/ (s.phase = "Ready" /\ f.op = "Begin" /\ s.route = r))

ConsumePlan(s, r, f) ==
  LET p == IF s.phase = "BeginAssembly" THEN s.plan
           ELSE [route |-> r, rid |-> f.rid, op |-> f.op, parts |-> {},
                 fromReady |-> s.phase = "Ready"]
      t == [s EXCEPT !.phase = "BeginAssembly", !.plan = [p EXCEPT !.parts = @ \cup {f.part}]]
      moved == f.part \notin p.parts
      whole == [t EXCEPT !.decoded = f.rid]
  IN  IF s.phase # "BeginAssembly" /\ ~PlanStarts(s, r, f)
      THEN Refuse(s, IF s.phase = "Idle" THEN "Refused" ELSE "Busy", f)
      ELSE IF s.phase = "BeginAssembly" /\ s.plan.op # f.op THEN Refuse(s, "Busy", f)
      ELSE IF p.route # r \/ p.rid # f.rid THEN Refuse(s, "Refused", f)
      ELSE IF t.plan.parts # Parts THEN Reply(t, Status("Part", 0), moved)
      ELSE LET d == Decide(whole, r, f, PlanDropped(whole), p.fromReady, moved)
           IN  IF d.kind = "Action" THEN [d EXCEPT !.ses.plan = NoPlan] ELSE d

\* consume_data
ConsumeData(s, r, f) ==
  LET mine == s.route = r /\ s.cookie = f.cookie
      u == IF s.phase = "Ready" THEN [rid |-> f.rid, parts |-> {}] ELSE s.unit
      t == [s EXCEPT !.phase = "UnitAssembly", !.unit = [u EXCEPT !.parts = @ \cup {f.part}]]
      moved == f.part \notin u.parts
      done == [t EXCEPT !.unit = NoUnit, !.phase = "Ready"]
  IN  IF ~mine \/ s.phase \notin {"Ready", "UnitAssembly"} THEN Refuse(s, "Refused", f)
      ELSE IF s.phase = "Ready" /\ f.part # 1 THEN Refuse(s, "Refused", f)
      ELSE IF u.rid # f.rid THEN Refuse(s, "Busy", f)
      ELSE IF t.unit.parts # Parts THEN Reply(t, Status("Part", f.cookie), moved)
      ELSE Decide(t, r, f, done, FALSE, moved)

\* consume_query, consume_terminal_action: an answer already given needs no binding.
ConsumeBound(s, r, f) ==
  LET mine == s.phase = "Ready" /\ s.route = r /\ s.cookie = f.cookie
  IN  Decide(s, r, f, s, ~mine, FALSE)

\* consume_resume, consume_current_active
ConsumeOpen(s, r, f) ==
  IF Lookup(s, r, f) = "Miss" /\ s.phase # "Idle" THEN Refuse(s, "Busy", f)
  ELSE Decide(s, r, f, s, FALSE, FALSE)

Consume(s, r, f) ==
  IF f.op \in Immediate THEN Reply(s, Status("Ok", 0), FALSE)
  ELSE IF s.phase = "ActionPending" THEN Refuse(s, "Busy", f)
  ELSE CASE f.op \in PlanOps -> ConsumePlan(s, r, f)
         [] f.op = "Data" -> ConsumeData(s, r, f)
         [] f.op \in BoundOps -> ConsumeBound(s, r, f)
         [] f.op \in OpenOps -> ConsumeOpen(s, r, f)

----------------------------------------------------------------------------
(* complete and the ends of a route *)

\* The operations after which the session is bound, stays bound, or is over.
Binds(action, outcome) == action.op = "Begin" \/ (action.op = "Resume" /\ outcome = "Active")
StaysBound(action) == action.op \in {"Data", "Query"}

\* A completed action and what became of it: ok is the store's result, outcome what a
\* Resume found.
Completed(s, ok, outcome) ==
  LET a == s.pending.action
      base == [s EXCEPT !.pending = NoPending, !.unit = IF a.op = "Data" THEN NoUnit ELSE @]
      failed == IF a.op \in BoundOps \cup {"Data"} THEN [base EXCEPT !.phase = "Ready"]
                ELSE [Unbound(base) EXCEPT !.phase = "Idle"]
      bound == [base EXCEPT !.route = a.route, !.cookie = s.nextCookie,
                            !.nextCookie = @ + 1, !.phase = "Ready"]
      won == CASE Binds(a, outcome) -> bound
               [] StaysBound(a) -> [base EXCEPT !.phase = "Ready"]
               [] OTHER -> Reset(base)
      reply == Status("Ok", IF Binds(a, outcome) THEN bound.cookie ELSE a.cookie)
  IN  IF ok THEN [ses |-> Remember(won, a, reply), kind |-> "Reply", reply |-> reply]
      ELSE [ses |-> failed, kind |-> "Reply", reply |-> Status("Failed", a.cookie)]

\* An action whose route is gone ends in silence, and with it the session.
Complete(s, ok, outcome) ==
  IF s.pending.orphaned
  THEN [ses |-> [Reset(s) EXCEPT !.pending = NoPending], kind |-> "None",
        reply |-> Status("None", 0)]
  ELSE Completed(s, ok, outcome)

\* clear_replay_for_route
Forget(s, r) ==
  [s EXCEPT !.replay = [i \in 1..ReplaySlots |->
                          IF s.replay[i].action.route = r THEN NoEntry ELSE s.replay[i]]]

\* Mutant: a pending action does not keep the session's memory.
OrphanAndReset(s) ==
  [Unbound(Unassembled(s)) EXCEPT !.pending.orphaned = TRUE]

\* A pending action outlives its route: it keeps the unit it borrows.
Orphaned(s) ==
  LET t == IF s.pending.action.op = "Data" THEN s ELSE Unassembled(s)
  IN  [Unbound(t) EXCEPT !.pending.orphaned = TRUE]

\* route_closed
RouteClosed(s, r) ==
  LET f == Forget(s, r)
  IN  IF s.pending.action.route = r THEN Orphaned(f)
      ELSE IF s.route = r \/ s.plan.route = r THEN Reset(f)
      ELSE f

\* all_routes_closed
AllRoutesClosed(s) ==
  LET f == [s EXCEPT !.replay = NoEntries, !.slot = 1]
  IN  IF s.pending # NoPending THEN Orphaned(f) ELSE Reset(f)

\* expire_partial
PartialOf(s, r) ==
  \/ s.phase = "BeginAssembly" /\ s.plan.route = r
  \/ s.phase = "UnitAssembly" /\ s.route = r
PartialExpired(s, r) ==
  IF ~PartialOf(s, r) THEN s
  ELSE IF s.phase = "BeginAssembly" THEN PlanDropped(s)
  ELSE [s EXCEPT !.unit = NoUnit, !.phase = "Ready"]
=============================================================================
