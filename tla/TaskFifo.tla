------------------------------- MODULE TaskFifo -------------------------------
(***************************************************************************)
(* What the prompt queue promises: an utterance is accepted at most once,  *)
(* a task answers its utterances one at a time and in the order they were  *)
(* accepted, and an attempt is repeated only after a stop, which breaks    *)
(* off every attempt at once.                                              *)
(***************************************************************************)
EXTENDS Integers, FiniteSets, Sequences

CONSTANTS Tasks, Utterances, MaxRunning

VARIABLES
  accepted, \* utterances ever accepted
  queue,    \* per task, those it has not answered yet
  busy      \* tasks that are answering the first of theirs

vars == <<accepted, queue, busy>>

Init == accepted = {} /\ queue = [t \in Tasks |-> <<>>] /\ busy = {}

Accept(t, u) ==
  /\ u \notin accepted
  /\ accepted' = accepted \cup {u}
  /\ queue' = [queue EXCEPT ![t] = Append(@, u)]
  /\ UNCHANGED busy

Start(t) ==
  /\ t \notin busy /\ queue[t] # <<>> /\ Cardinality(busy) < MaxRunning
  /\ busy' = busy \cup {t}
  /\ UNCHANGED <<accepted, queue>>

End(t) ==
  /\ t \in busy
  /\ busy' = busy \ {t}
  /\ queue' = [queue EXCEPT ![t] = Tail(@)]
  /\ UNCHANGED accepted

Stop == busy' = {} /\ UNCHANGED <<accepted, queue>>

Next == Stop \/ \E t \in Tasks : Start(t) \/ End(t) \/ \E u \in Utterances : Accept(t, u)

Spec == Init /\ [][Next]_vars
=============================================================================
