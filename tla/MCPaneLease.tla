---------------------------- MODULE MCPaneLease ----------------------------
EXTENDS PaneLease
=============================================================================
