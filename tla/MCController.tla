---------------------------- MODULE MCController ----------------------------
EXTENDS Controller

CONSTANTS s1, s2, par

MCSidecarNames == {s1, s2}
=============================================================================
