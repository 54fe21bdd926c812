--------------------------- MODULE MCCoordinator ---------------------------
EXTENDS Coordinator
=============================================================================
