---------------------------- MODULE MCAccessHttp ----------------------------
EXTENDS AccessHttp

CONSTANTS s1, s2

MCSlots == {s1, s2}
=============================================================================
