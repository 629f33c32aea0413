------------------------------ MODULE MCAudioIo ------------------------------
EXTENDS AudioIo

CONSTANT t1

MCOneTalk == {t1}
=============================================================================
