------------------------------- MODULE Mailbox -------------------------------
(***************************************************************************)
(* What the Host promises about the completions of a task, without saying  *)
(* how: each is pending until a summary covers it, unread until a playback *)
(* of everything unread has been heard to its end, and heard for ever.     *)
(***************************************************************************)
EXTENDS Naturals

CONSTANTS Tasks, MaxCompletions

VARIABLES pending, unread, playing, heard

mail == <<pending, unread, playing, heard>>

Completions == 1..MaxCompletions

Init ==
  /\ pending = [t \in Tasks |-> {}] /\ unread = [t \in Tasks |-> {}]
  /\ playing = [t \in Tasks |-> {}] /\ heard = [t \in Tasks |-> {}]

Observe(t) ==
  /\ \E k \in Completions \ (pending[t] \cup unread[t] \cup heard[t]) :
       pending' = [pending EXCEPT ![t] = @ \cup {k}]
  /\ UNCHANGED <<unread, playing, heard>>

\* A new summary replaces the unread one and covers everything that was in it; a playback of
\* the replaced one no longer marks anything heard.
Summarise(t) ==
  /\ \E batch \in (SUBSET pending[t]) \ {{}} :
       /\ pending' = [pending EXCEPT ![t] = @ \ batch]
       /\ unread' = [unread EXCEPT ![t] = @ \cup batch]
  /\ playing' = [playing EXCEPT ![t] = {}]
  /\ UNCHANGED heard

Play(t) ==
  /\ unread[t] # {} /\ playing[t] = {}
  /\ playing' = [playing EXCEPT ![t] = unread[t]]
  /\ UNCHANGED <<pending, unread, heard>>

\* Playbacks end unheard one at a time, or all together when the Host restarts.
Stop ==
  /\ \E stopped \in SUBSET Tasks :
       playing' = [t \in Tasks |-> IF t \in stopped THEN {} ELSE playing[t]]
  /\ UNCHANGED <<pending, unread, heard>>

Hear(t) ==
  /\ playing[t] # {}
  /\ heard' = [heard EXCEPT ![t] = @ \cup playing[t]]
  /\ unread' = [unread EXCEPT ![t] = @ \ playing[t]]
  /\ playing' = [playing EXCEPT ![t] = {}]
  /\ UNCHANGED pending

Next == Stop \/ \E t \in Tasks : Observe(t) \/ Summarise(t) \/ Play(t) \/ Hear(t)

Spec == Init /\ [][Next]_mail
=============================================================================
