---------------------------- MODULE MCPromptQueue ----------------------------
EXTENDS PromptQueue

CONSTANTS t1, t2, s1

MCTasks == {t1, t2}
MCSlots == {s1}
=============================================================================
