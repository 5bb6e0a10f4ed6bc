---------------------------- MODULE MCOpsBridge ----------------------------
EXTENDS OpsBridge
=============================================================================
