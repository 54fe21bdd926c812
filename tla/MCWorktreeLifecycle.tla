------------------------ MODULE MCWorktreeLifecycle ------------------------
EXTENDS WorktreeLifecycle

\* One operation of each kind.
MCKind == [o \in Ops |-> o]
=============================================================================
