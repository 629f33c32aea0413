------------------------------ MODULE Listening ------------------------------
(***************************************************************************)
(* What listening to summaries promises, with no protocol in sight: at     *)
(* most one summary is leased to be listened to; it becomes heard only     *)
(* after it has been played to its end and while its lease still holds;    *)
(* every other end of a lease leaves the summary unread.                   *)
(***************************************************************************)
CONSTANT Leases

VARIABLES
  leased,   \* leases that hold
  drained,  \* leases whose summary was played to its end
  heard     \* leases whose summary is heard

vars == <<leased, drained, heard>>

Init == leased = {} /\ drained = {} /\ heard = {}

Ends(gone) == leased' = leased \ gone

\* A key press takes a fresh lease, and with it ends the one before.
Take(l) ==
  /\ l \notin leased \cup drained \cup heard
  /\ leased' = {l}
  /\ UNCHANGED <<drained, heard>>

Drain(l) ==
  /\ drained' = drained \cup {l}
  /\ UNCHANGED <<leased, heard>>

Hear(l) ==
  /\ l \in leased \cap drained
  /\ heard' = heard \cup {l}
  /\ Ends({l})
  /\ UNCHANGED drained

Release ==
  /\ leased' = {}
  /\ UNCHANGED <<drained, heard>>

Next == Release \/ \E l \in Leases : Take(l) \/ Drain(l) \/ Hear(l)

Spec == Init /\ [][Next]_vars
=============================================================================
