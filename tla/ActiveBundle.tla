---------------------------- MODULE ActiveBundle ----------------------------
(***************************************************************************)
(* What the two sound banks promise together: the speaker has one active   *)
(* bundle of sounds.  An update replaces it as a whole, under the next     *)
(* generation number, and nothing else - no power loss, no failed Flash    *)
(* operation, no abandoned upload - ever changes or loses it.              *)
(***************************************************************************)
EXTENDS Naturals

CONSTANTS Contents,   \* what a bundle may contain
          NoContent   \* the content of no bundle

VARIABLE bundle       \* the active bundle: its generation and its content

NoBundle == [gen |-> 0, content |-> NoContent]

Init == bundle = NoBundle

(* A verified bundle is published over the one it was built on. *)
Publish(c) == bundle' = [gen |-> bundle.gen + 1, content |-> c]

Next == \E c \in Contents : Publish(c)

Spec == Init /\ [][Next]_bundle
=============================================================================
