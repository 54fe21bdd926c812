-------------------------- MODULE MCDispatchLaunch --------------------------
EXTENDS DispatchLaunch
=============================================================================
