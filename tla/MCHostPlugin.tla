---------------------------- MODULE MCHostPlugin ----------------------------
EXTENDS HostPlugin
=============================================================================
