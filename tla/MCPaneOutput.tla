---------------------------- MODULE MCPaneOutput ----------------------------
EXTENDS PaneOutput
=============================================================================
