---------------------------- MODULE MCAccessPoint ----------------------------
EXTENDS AccessPoint

CONSTANTS v1, v2, s1

TwoVals == {v1, v2}
OneStation == {s1}
=============================================================================
