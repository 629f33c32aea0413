--------------------------- MODULE MCSummaryLedger ---------------------------
EXTENDS SummaryLedger

CONSTANTS t1, s1

MCOneTask == {t1}
MCOneSlot == {s1}
=============================================================================
