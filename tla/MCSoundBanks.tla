---- MODULE MCSoundBanks ----
(* A small instance of SoundBanks: see README, section 4. *)
EXTENDS SoundBanks, TLC

Symmetry == Permutations(Contents) \cup Permutations(Slots)
====
