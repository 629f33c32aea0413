---------------------------- MODULE MCLanPlayback ----------------------------
EXTENDS LanPlayback, TLC

CONSTANTS s1, s2

MCOneSlot == {s1}
MCTwoSlots == {s1, s2}

\* For safety only.
MCSymmetry == Permutations(MCTwoSlots)
=============================================================================
