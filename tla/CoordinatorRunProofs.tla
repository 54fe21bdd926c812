------------------------ MODULE CoordinatorRunProofs ------------------------
(***************************************************************************)
(* What holds of a run and of its agents and gates, for any number of      *)
(* tasks, attempts and gates and any policy: a finished run has no open    *)
(* gate, an agent is active exactly while its dispatch is bound, a         *)
(* cancelled run is quiet, and the circuit breaker trips on time.          *)
(***************************************************************************)
EXTENDS CoordinatorProofs

-----------------------------------------------------------------------------
(* The status of the run after refresh_terminal_run_status. *)

\* refresh_terminal_run_status neither leaves nor enters cancelled.
LEMMA RefreshedCancelled ==
    ASSUME NEW r, NEW ts, NEW ds, NEW gs
    PROVE  RefreshedRun(r, ts, ds, gs) = "cancelled" <=> r = "cancelled"
  BY DEF RefreshedRun

\* refresh_terminal_run_status makes a run with an open gate wait, unless
\* the run is cancelled.
LEMMA RefreshedWaits ==
    ASSUME NEW r, NEW ts, NEW ds, NEW gs, HasPendingGate(gs)
    PROVE  RefreshedRun(r, ts, ds, gs) \in {"waiting", "cancelled"}
  BY DEF RefreshedRun

-----------------------------------------------------------------------------
(* Agents *)

\* Every transaction that ends a dispatch ends its agent, and only
\* bind_dispatch makes one active.
LEMMA AgentStep ==
    ASSUME TypeOK, AgentFollowsDispatch, [Next]_vars
    PROVE  AgentFollowsDispatch'
<1>1. CASE StartRun
  BY <1>1, TypeOK, AgentFollowsDispatch
     DEF TypeOK, AgentFollowsDispatch, ActiveAgent,
         BoundDispatch, StartRun
<1>2. ASSUME NEW t \in Tasks, NEW ds \in SUBSET Tasks,
             CreateTask(t, ds)
      PROVE  AgentFollowsDispatch'
  BY <1>2, TypeOK, AgentFollowsDispatch
     DEF TypeOK, AgentFollowsDispatch, ActiveAgent,
         BoundDispatch, CreateTask
<1>3. ASSUME NEW claim \in Claims,
             Schedule(claim)
      PROVE  AgentFollowsDispatch'
  <2>1. PICK ts \in SettledTables, sel \in SUBSET Tasks :
               SchedulePass(claim, ts, sel)
    BY <1>3 DEF Schedule
  <2>2. \A d \in Dispatches :
           disp'[d] # disp[d] => disp[d] = "absent" /\ disp'[d] = "pending"
    BY <2>1, PassStep
  <2>3. agent' = agent
    BY <2>1 DEF SchedulePass
  <2>4. QED
    BY <2>2, <2>3 DEF AgentFollowsDispatch, BoundDispatch
<1>4. ASSUME NEW d \in Dispatches, NEW w \in Worktrees,
             BindDispatch(d, w)
      PROVE  AgentFollowsDispatch'
  BY <1>4, TypeOK, AgentFollowsDispatch
     DEF TypeOK, AgentFollowsDispatch, ActiveAgent,
         BoundDispatch, BindDispatch
<1>5. ASSUME NEW d \in Dispatches,
             RecordLaunchFailure(d)
      PROVE  AgentFollowsDispatch'
  BY <1>5, TypeOK, AgentFollowsDispatch
     DEF TypeOK, AgentFollowsDispatch, ActiveAgent,
         BoundDispatch, RecordLaunchFailure
<1>6. ASSUME NEW d \in Dispatches,
             MarkDispatchRunning(d)
      PROVE  AgentFollowsDispatch'
  BY <1>6, TypeOK, AgentFollowsDispatch
     DEF TypeOK, AgentFollowsDispatch, ActiveAgent,
         BoundDispatch, MarkDispatchRunning
<1>7. ASSUME NEW d \in Dispatches,
             Heartbeat(d)
      PROVE  AgentFollowsDispatch'
  BY <1>7, TypeOK, AgentFollowsDispatch
     DEF TypeOK, AgentFollowsDispatch, ActiveAgent,
         BoundDispatch, Heartbeat
<1>8. ASSUME NEW d \in Dispatches,
             NEW o \in {"running", "waiting", "gone", "unknown"},
             ReconcileLiveness(d, o)
      PROVE  AgentFollowsDispatch'
  BY <1>8, TypeOK, AgentFollowsDispatch
     DEF TypeOK, AgentFollowsDispatch, ActiveAgent,
         BoundDispatch, ReconcileLiveness
<1>9. ASSUME NEW d \in Dispatches,
             WorkerDone(d)
      PROVE  AgentFollowsDispatch'
  BY <1>9, TypeOK, AgentFollowsDispatch
     DEF TypeOK, AgentFollowsDispatch, ActiveAgent,
         BoundDispatch, WorkerDone
<1>10. ASSUME NEW d \in Dispatches, NEW g \in Gates,
             WorkerDoneMerge(d, g)
      PROVE  AgentFollowsDispatch'
  BY <1>10, TypeOK, AgentFollowsDispatch
     DEF TypeOK, AgentFollowsDispatch, ActiveAgent,
         BoundDispatch, WorkerDoneMerge
<1>11. ASSUME NEW d \in Dispatches,
             PaneExit(d)
      PROVE  AgentFollowsDispatch'
  BY <1>11, TypeOK, AgentFollowsDispatch
     DEF TypeOK, AgentFollowsDispatch, ActiveAgent,
         BoundDispatch, PaneExit, ActiveDispatch
<1>12. ASSUME NEW d \in Dispatches,
             ReleasePane(d)
      PROVE  AgentFollowsDispatch'
  BY <1>12, TypeOK, AgentFollowsDispatch
     DEF TypeOK, AgentFollowsDispatch, ActiveAgent,
         BoundDispatch, ReleasePane
<1>13. ASSUME NEW g \in Gates, NEW type \in GateTypes,
             NEW d \in Dispatches \cup {NoDispatch},
             CreateGate(g, type, d)
      PROVE  AgentFollowsDispatch'
  BY <1>13, TypeOK, AgentFollowsDispatch
     DEF TypeOK, AgentFollowsDispatch, ActiveAgent,
         BoundDispatch, CreateGate, ActiveDispatch
<1>14. ASSUME NEW g \in Gates,
             ResolveDecision(g)
      PROVE  AgentFollowsDispatch'
  BY <1>14, TypeOK, AgentFollowsDispatch
     DEF TypeOK, AgentFollowsDispatch, ActiveAgent,
         BoundDispatch, ResolveDecision
<1>15. ASSUME NEW g \in Gates, NEW decision \in {"approve", "reject"},
             ResolveMergeOrCleanup(g, decision)
      PROVE  AgentFollowsDispatch'
  BY <1>15, TypeOK, AgentFollowsDispatch
     DEF TypeOK, AgentFollowsDispatch, ActiveAgent,
         BoundDispatch, ResolveMergeOrCleanup
<1>16. ASSUME NEW g \in Gates, NEW h \in Gates,
             MarkMergeApplied(g, h)
      PROVE  AgentFollowsDispatch'
  BY <1>16, TypeOK, AgentFollowsDispatch
     DEF TypeOK, AgentFollowsDispatch, ActiveAgent,
         BoundDispatch, MarkMergeApplied, Approved
<1>17. ASSUME NEW g \in Gates,
             AuthorizeMerge(g)
      PROVE  AgentFollowsDispatch'
  BY <1>17, TypeOK, AgentFollowsDispatch
     DEF TypeOK, AgentFollowsDispatch, ActiveAgent,
         BoundDispatch, AuthorizeMerge, Approved
<1>18. ASSUME NEW g \in Gates,
             AuthorizeCleanup(g)
      PROVE  AgentFollowsDispatch'
  BY <1>18, TypeOK, AgentFollowsDispatch
     DEF TypeOK, AgentFollowsDispatch, ActiveAgent,
         BoundDispatch, AuthorizeCleanup, Approved
<1>19. ASSUME NEW g \in Gates,
             RemoveWorktree(g)
      PROVE  AgentFollowsDispatch'
  BY <1>19, TypeOK, AgentFollowsDispatch
     DEF TypeOK, AgentFollowsDispatch, ActiveAgent,
         BoundDispatch, RemoveWorktree
<1>20. ASSUME NEW g \in Gates,
             MarkCleanupApplied(g)
      PROVE  AgentFollowsDispatch'
  BY <1>20, TypeOK, AgentFollowsDispatch
     DEF TypeOK, AgentFollowsDispatch, ActiveAgent,
         BoundDispatch, MarkCleanupApplied
<1>21. ASSUME NEW g \in Gates,
             Abandon(g)
      PROVE  AgentFollowsDispatch'
  BY <1>21, TypeOK, AgentFollowsDispatch
     DEF TypeOK, AgentFollowsDispatch, ActiveAgent,
         BoundDispatch, Abandon
<1>22. ASSUME NEW t \in Tasks, NEW status \in TaskStatus,
             UpdateTask(t, status)
      PROVE  AgentFollowsDispatch'
  BY <1>22, TypeOK, AgentFollowsDispatch
     DEF TypeOK, AgentFollowsDispatch, ActiveAgent,
         BoundDispatch, UpdateTask
<1>23. ASSUME NEW t \in Tasks,
             RetryTask(t)
      PROVE  AgentFollowsDispatch'
  BY <1>23, TypeOK, AgentFollowsDispatch
     DEF TypeOK, AgentFollowsDispatch, ActiveAgent,
         BoundDispatch, RetryTask
<1>24. CASE AcceptRun
  BY <1>24, TypeOK, AgentFollowsDispatch
     DEF TypeOK, AgentFollowsDispatch, ActiveAgent,
         BoundDispatch, AcceptRun
<1>25. CASE CancelRun
  BY <1>25, TypeOK, AgentFollowsDispatch
     DEF TypeOK, AgentFollowsDispatch, ActiveAgent,
         BoundDispatch, CancelRun, CancelEntities, ActiveDispatch
<1>26. CASE RejectRun
  BY <1>26, TypeOK, AgentFollowsDispatch
     DEF TypeOK, AgentFollowsDispatch, ActiveAgent,
         BoundDispatch, RejectRun, CancelEntities, ActiveDispatch
<1>27. ASSUME NEW late \in SUBSET Gates,
             DaemonRestart(late)
      PROVE  AgentFollowsDispatch'
  BY <1>27, TypeOK, AgentFollowsDispatch
     DEF TypeOK, AgentFollowsDispatch, ActiveAgent,
         BoundDispatch, DaemonRestart, ActiveIn, ActiveDispatch
<1>28. CASE UNCHANGED vars
  BY <1>28, TypeOK, AgentFollowsDispatch
     DEF TypeOK, AgentFollowsDispatch, ActiveAgent,
         BoundDispatch, vars
<1>29. QED
  BY <1>1, <1>2, <1>3, <1>4, <1>5, <1>6, <1>7, <1>8, <1>9,
     <1>10, <1>11, <1>12, <1>13, <1>14, <1>15, <1>16, <1>17, <1>18, <1>19,
     <1>20, <1>21, <1>22, <1>23, <1>24, <1>25, <1>26, <1>27, <1>28
     DEF Next

(***************************************************************************)
(* An agent is active exactly while the dispatch it is bound to is.        *)
(***************************************************************************)
THEOREM AgentFollows == Spec => []AgentFollowsDispatch
<1>1. Init => AgentFollowsDispatch
  BY DEF Init, AgentFollowsDispatch, ActiveAgent, BoundDispatch
<1>2. TypeOK /\ AgentFollowsDispatch /\ [Next]_vars => AgentFollowsDispatch'
  BY AgentStep
<1>3. QED
  BY <1>1, <1>2, TypeCorrect, PTL DEF Spec

-----------------------------------------------------------------------------
(* Gates *)

\* Whatever closes a run leaves no open gate, and whatever opens a gate
\* makes the run wait.
LEMMA GateStep ==
    ASSUME TypeOK, TerminalRunHasNoPendingGate, [Next]_vars
    PROVE  TerminalRunHasNoPendingGate'
<1>1. CASE StartRun
  BY <1>1, TerminalRunHasNoPendingGate
     DEF TerminalRunHasNoPendingGate, TerminalRun, HasPendingGate, StartRun
<1>2. ASSUME NEW t \in Tasks, NEW ds \in SUBSET Tasks,
             CreateTask(t, ds)
      PROVE  TerminalRunHasNoPendingGate'
  BY <1>2, TerminalRunHasNoPendingGate
     DEF TerminalRunHasNoPendingGate, TerminalRun, HasPendingGate, CreateTask
<1>3. ASSUME NEW claim \in Claims,
             Schedule(claim)
      PROVE  TerminalRunHasNoPendingGate'
  <2>1. PICK ts \in SettledTables, sel \in SUBSET Tasks :
               SchedulePass(claim, ts, sel)
    BY <1>3 DEF Schedule
  <2>2. gate' = gate
    BY <2>1 DEF SchedulePass
  <2>3. run' # "cancelled" /\ (HasPendingGate(gate) => run' = "waiting")
    BY <2>1, RefreshedWaits, RefreshedCancelled DEF SchedulePass
  <2>4. QED
    BY <2>2, <2>3 DEF TerminalRunHasNoPendingGate, TerminalRun, HasPendingGate
<1>4. ASSUME NEW d \in Dispatches, NEW w \in Worktrees,
             BindDispatch(d, w)
      PROVE  TerminalRunHasNoPendingGate'
  BY <1>4, TerminalRunHasNoPendingGate
     DEF TerminalRunHasNoPendingGate, TerminalRun, HasPendingGate, BindDispatch
<1>5. ASSUME NEW d \in Dispatches,
             RecordLaunchFailure(d)
      PROVE  TerminalRunHasNoPendingGate'
  BY <1>5, TerminalRunHasNoPendingGate
     DEF TerminalRunHasNoPendingGate, TerminalRun, HasPendingGate, RecordLaunchFailure
<1>6. ASSUME NEW d \in Dispatches,
             MarkDispatchRunning(d)
      PROVE  TerminalRunHasNoPendingGate'
  BY <1>6, TerminalRunHasNoPendingGate
     DEF TerminalRunHasNoPendingGate, TerminalRun, HasPendingGate, MarkDispatchRunning
<1>7. ASSUME NEW d \in Dispatches,
             Heartbeat(d)
      PROVE  TerminalRunHasNoPendingGate'
  BY <1>7, TerminalRunHasNoPendingGate
     DEF TerminalRunHasNoPendingGate, TerminalRun, HasPendingGate, Heartbeat
<1>8. ASSUME NEW d \in Dispatches,
             NEW o \in {"running", "waiting", "gone", "unknown"},
             ReconcileLiveness(d, o)
      PROVE  TerminalRunHasNoPendingGate'
  BY <1>8, TerminalRunHasNoPendingGate
     DEF TerminalRunHasNoPendingGate, TerminalRun, HasPendingGate, ReconcileLiveness
<1>9. ASSUME NEW d \in Dispatches,
             WorkerDone(d)
      PROVE  TerminalRunHasNoPendingGate'
  <2>1. gate' = gate /\ run' = RefreshedRun(run, task', disp', gate)
    BY <1>9 DEF WorkerDone
  <2>2. QED
    BY <2>1, RefreshedWaits, RefreshedCancelled
       DEF TerminalRunHasNoPendingGate, TerminalRun, HasPendingGate
<1>10. ASSUME NEW d \in Dispatches, NEW g \in Gates,
             WorkerDoneMerge(d, g)
      PROVE  TerminalRunHasNoPendingGate'
  BY <1>10, TerminalRunHasNoPendingGate
     DEF TerminalRunHasNoPendingGate, TerminalRun, HasPendingGate, WorkerDoneMerge
<1>11. ASSUME NEW d \in Dispatches,
             PaneExit(d)
      PROVE  TerminalRunHasNoPendingGate'
  <2>1. gate' = gate /\ run' = RefreshedRun(run, task', disp', gate)
    BY <1>11 DEF PaneExit
  <2>2. QED
    BY <2>1, RefreshedWaits, RefreshedCancelled
       DEF TerminalRunHasNoPendingGate, TerminalRun, HasPendingGate
<1>12. ASSUME NEW d \in Dispatches,
             ReleasePane(d)
      PROVE  TerminalRunHasNoPendingGate'
  BY <1>12, TerminalRunHasNoPendingGate
     DEF TerminalRunHasNoPendingGate, TerminalRun, HasPendingGate, ReleasePane
<1>13. ASSUME NEW g \in Gates, NEW type \in GateTypes,
             NEW d \in Dispatches \cup {NoDispatch},
             CreateGate(g, type, d)
      PROVE  TerminalRunHasNoPendingGate'
  BY <1>13, TerminalRunHasNoPendingGate
     DEF TerminalRunHasNoPendingGate, TerminalRun, HasPendingGate, CreateGate
<1>14. ASSUME NEW g \in Gates,
             ResolveDecision(g)
      PROVE  TerminalRunHasNoPendingGate'
  <2>1. CASE HasPendingGate(gate')
    BY <1>14, <2>1, TypeOK
       DEF TypeOK, TerminalRunHasNoPendingGate, HasPendingGate,
           ResolveDecision
  <2>2. CASE ~HasPendingGate(gate')
    BY <2>2 DEF TerminalRunHasNoPendingGate, HasPendingGate
  <2>3. QED
    BY <2>1, <2>2
<1>15. ASSUME NEW g \in Gates, NEW decision \in {"approve", "reject"},
             ResolveMergeOrCleanup(g, decision)
      PROVE  TerminalRunHasNoPendingGate'
  <2>1. run \notin TerminalRun
    BY <1>15 DEF ResolveMergeOrCleanup, TerminalRunHasNoPendingGate,
                HasPendingGate
  <2>2. run' = run \/ run' = RefreshedRun(run, task, disp, gate')
    BY <1>15 DEF ResolveMergeOrCleanup
  <2>3. run' \in TerminalRun => ~HasPendingGate(gate')
    BY <2>1, <2>2, RefreshedWaits, RefreshedCancelled DEF TerminalRun
  <2>4. QED
    BY <2>3 DEF TerminalRunHasNoPendingGate, HasPendingGate
<1>16. ASSUME NEW g \in Gates, NEW h \in Gates,
             MarkMergeApplied(g, h)
      PROVE  TerminalRunHasNoPendingGate'
  BY <1>16, TerminalRunHasNoPendingGate
     DEF TerminalRunHasNoPendingGate, TerminalRun, HasPendingGate, MarkMergeApplied, Approved
<1>17. ASSUME NEW g \in Gates,
             AuthorizeMerge(g)
      PROVE  TerminalRunHasNoPendingGate'
  BY <1>17, TerminalRunHasNoPendingGate
     DEF TerminalRunHasNoPendingGate, TerminalRun, HasPendingGate, AuthorizeMerge, Approved
<1>18. ASSUME NEW g \in Gates,
             AuthorizeCleanup(g)
      PROVE  TerminalRunHasNoPendingGate'
  BY <1>18, TerminalRunHasNoPendingGate
     DEF TerminalRunHasNoPendingGate, TerminalRun, HasPendingGate, AuthorizeCleanup, Approved
<1>19. ASSUME NEW g \in Gates,
             RemoveWorktree(g)
      PROVE  TerminalRunHasNoPendingGate'
  BY <1>19, TerminalRunHasNoPendingGate
     DEF TerminalRunHasNoPendingGate, TerminalRun, HasPendingGate, RemoveWorktree
<1>20. ASSUME NEW g \in Gates,
             MarkCleanupApplied(g)
      PROVE  TerminalRunHasNoPendingGate'
  <2>1. HasPendingGate(gate') => HasPendingGate(gate)
    BY <1>20, TypeOK DEF TypeOK, MarkCleanupApplied, HasPendingGate
  <2>2. run' = RefreshedRun(run, task, disp, gate')
    BY <1>20 DEF MarkCleanupApplied
  <2>3. run' \in TerminalRun => ~HasPendingGate(gate')
    BY <2>1, <2>2, RefreshedWaits, RefreshedCancelled
       DEF TerminalRunHasNoPendingGate, TerminalRun
  <2>4. QED
    BY <2>3 DEF TerminalRunHasNoPendingGate, HasPendingGate
<1>21. ASSUME NEW g \in Gates,
             Abandon(g)
      PROVE  TerminalRunHasNoPendingGate'
  BY <1>21, TerminalRunHasNoPendingGate
     DEF TerminalRunHasNoPendingGate, TerminalRun, HasPendingGate, Abandon
<1>22. ASSUME NEW t \in Tasks, NEW status \in TaskStatus,
             UpdateTask(t, status)
      PROVE  TerminalRunHasNoPendingGate'
  BY <1>22, TerminalRunHasNoPendingGate
     DEF TerminalRunHasNoPendingGate, TerminalRun, HasPendingGate, UpdateTask
<1>23. ASSUME NEW t \in Tasks,
             RetryTask(t)
      PROVE  TerminalRunHasNoPendingGate'
  BY <1>23, TerminalRunHasNoPendingGate
     DEF TerminalRunHasNoPendingGate, TerminalRun, HasPendingGate, RetryTask
<1>24. CASE AcceptRun
  BY <1>24, TerminalRunHasNoPendingGate
     DEF TerminalRunHasNoPendingGate, TerminalRun, HasPendingGate, AcceptRun
<1>25. CASE CancelRun
  BY <1>25, TerminalRunHasNoPendingGate
     DEF TerminalRunHasNoPendingGate, TerminalRun, HasPendingGate, CancelRun, CancelEntities, HasPendingGate
<1>26. CASE RejectRun
  BY <1>26, TerminalRunHasNoPendingGate
     DEF TerminalRunHasNoPendingGate, TerminalRun, HasPendingGate, RejectRun, CancelEntities, HasPendingGate
<1>27. ASSUME NEW late \in SUBSET Gates,
             DaemonRestart(late)
      PROVE  TerminalRunHasNoPendingGate'
  <2>1. HasPendingGate(gate') => HasPendingGate(gate)
    BY <1>27 DEF DaemonRestart, HasPendingGate
  <2>2. run' = run \/ run' = RefreshedRun(run, task', disp', gate')
    BY <1>27 DEF DaemonRestart
  <2>3. run' \in TerminalRun => ~HasPendingGate(gate')
    BY <2>1, <2>2, RefreshedWaits, RefreshedCancelled
       DEF TerminalRunHasNoPendingGate, TerminalRun
  <2>4. QED
    BY <2>3 DEF TerminalRunHasNoPendingGate, HasPendingGate
<1>28. CASE UNCHANGED vars
  BY <1>28, TerminalRunHasNoPendingGate
     DEF TerminalRunHasNoPendingGate, TerminalRun, HasPendingGate, vars
<1>29. QED
  BY <1>1, <1>2, <1>3, <1>4, <1>5, <1>6, <1>7, <1>8, <1>9,
     <1>10, <1>11, <1>12, <1>13, <1>14, <1>15, <1>16, <1>17, <1>18, <1>19,
     <1>20, <1>21, <1>22, <1>23, <1>24, <1>25, <1>26, <1>27, <1>28
     DEF Next

(***************************************************************************)
(* A completed, failed or cancelled run has no pending gate.               *)
(***************************************************************************)
THEOREM FinishedRunHasNoGate == Spec => []TerminalRunHasNoPendingGate
<1>1. Init => TerminalRunHasNoPendingGate
  BY DEF Init, TerminalRunHasNoPendingGate, TerminalRun
<1>2. TypeOK /\ TerminalRunHasNoPendingGate /\ [Next]_vars
      => TerminalRunHasNoPendingGate'
  BY GateStep
<1>3. QED
  BY <1>1, <1>2, TypeCorrect, PTL DEF Spec

-----------------------------------------------------------------------------
(* Cancelled runs *)

\* A run becomes cancelled only by the verdict of an operator.
LEMMA OnlyVerdictsCancel ==
    ASSUME [Next]_vars, run' = "cancelled", run # "cancelled"
    PROVE  CancelEntities
<1>1. CASE StartRun
  BY <1>1 DEF StartRun
<1>2. ASSUME NEW t \in Tasks, NEW ds \in SUBSET Tasks,
             CreateTask(t, ds)
      PROVE  CancelEntities
  BY <1>2 DEF CreateTask
<1>3. ASSUME NEW claim \in Claims,
             Schedule(claim)
      PROVE  CancelEntities
  <2>1. PICK ts \in SettledTables, sel \in SUBSET Tasks :
               SchedulePass(claim, ts, sel)
    BY <1>3 DEF Schedule
  <2>2. QED
    BY <2>1, RefreshedCancelled DEF SchedulePass
<1>4. ASSUME NEW d \in Dispatches, NEW w \in Worktrees,
             BindDispatch(d, w)
      PROVE  CancelEntities
  BY <1>4 DEF BindDispatch
<1>5. ASSUME NEW d \in Dispatches,
             RecordLaunchFailure(d)
      PROVE  CancelEntities
  BY <1>5 DEF RecordLaunchFailure
<1>6. ASSUME NEW d \in Dispatches,
             MarkDispatchRunning(d)
      PROVE  CancelEntities
  BY <1>6 DEF MarkDispatchRunning
<1>7. ASSUME NEW d \in Dispatches,
             Heartbeat(d)
      PROVE  CancelEntities
  BY <1>7 DEF Heartbeat
<1>8. ASSUME NEW d \in Dispatches,
             NEW o \in {"running", "waiting", "gone", "unknown"},
             ReconcileLiveness(d, o)
      PROVE  CancelEntities
  BY <1>8 DEF ReconcileLiveness
<1>9. ASSUME NEW d \in Dispatches,
             WorkerDone(d)
      PROVE  CancelEntities
  BY <1>9, RefreshedCancelled DEF WorkerDone
<1>10. ASSUME NEW d \in Dispatches, NEW g \in Gates,
             WorkerDoneMerge(d, g)
      PROVE  CancelEntities
  BY <1>10 DEF WorkerDoneMerge
<1>11. ASSUME NEW d \in Dispatches,
             PaneExit(d)
      PROVE  CancelEntities
  BY <1>11, RefreshedCancelled DEF PaneExit
<1>12. ASSUME NEW d \in Dispatches,
             ReleasePane(d)
      PROVE  CancelEntities
  BY <1>12 DEF ReleasePane
<1>13. ASSUME NEW g \in Gates, NEW type \in GateTypes,
             NEW d \in Dispatches \cup {NoDispatch},
             CreateGate(g, type, d)
      PROVE  CancelEntities
  BY <1>13 DEF CreateGate
<1>14. ASSUME NEW g \in Gates,
             ResolveDecision(g)
      PROVE  CancelEntities
  BY <1>14, RefreshedCancelled DEF ResolveDecision
<1>15. ASSUME NEW g \in Gates, NEW decision \in {"approve", "reject"},
             ResolveMergeOrCleanup(g, decision)
      PROVE  CancelEntities
  BY <1>15, RefreshedCancelled DEF ResolveMergeOrCleanup
<1>16. ASSUME NEW g \in Gates, NEW h \in Gates,
             MarkMergeApplied(g, h)
      PROVE  CancelEntities
  BY <1>16 DEF MarkMergeApplied, Approved
<1>17. ASSUME NEW g \in Gates,
             AuthorizeMerge(g)
      PROVE  CancelEntities
  BY <1>17 DEF AuthorizeMerge, Approved
<1>18. ASSUME NEW g \in Gates,
             AuthorizeCleanup(g)
      PROVE  CancelEntities
  BY <1>18 DEF AuthorizeCleanup, Approved
<1>19. ASSUME NEW g \in Gates,
             RemoveWorktree(g)
      PROVE  CancelEntities
  BY <1>19 DEF RemoveWorktree
<1>20. ASSUME NEW g \in Gates,
             MarkCleanupApplied(g)
      PROVE  CancelEntities
  BY <1>20, RefreshedCancelled DEF MarkCleanupApplied
<1>21. ASSUME NEW g \in Gates,
             Abandon(g)
      PROVE  CancelEntities
  BY <1>21 DEF Abandon
<1>22. ASSUME NEW t \in Tasks, NEW status \in TaskStatus,
             UpdateTask(t, status)
      PROVE  CancelEntities
  BY <1>22 DEF UpdateTask
<1>23. ASSUME NEW t \in Tasks,
             RetryTask(t)
      PROVE  CancelEntities
  BY <1>23 DEF RetryTask
<1>24. CASE AcceptRun
  BY <1>24 DEF AcceptRun
<1>25. CASE CancelRun
  BY <1>25 DEF CancelRun
<1>26. CASE RejectRun
  BY <1>26 DEF RejectRun
<1>27. ASSUME NEW late \in SUBSET Gates,
             DaemonRestart(late)
      PROVE  CancelEntities
  BY <1>27, RefreshedCancelled DEF DaemonRestart
<1>28. CASE UNCHANGED vars
  BY <1>28 DEF vars
<1>29. QED
  BY <1>1, <1>2, <1>3, <1>4, <1>5, <1>6, <1>7, <1>8, <1>9,
     <1>10, <1>11, <1>12, <1>13, <1>14, <1>15, <1>16, <1>17, <1>18, <1>19,
     <1>20, <1>21, <1>22, <1>23, <1>24, <1>25, <1>26, <1>27, <1>28
     DEF Next

\* No active dispatch is left in a cancelled run.
NoActiveWhenCancelled ==
    run = "cancelled" => \A d \in Dispatches : disp[d] \notin ActiveDispatch

\* schedule_ready refuses a cancelled run, and no other transaction makes a
\* dispatch active.
LEMMA QuietStep ==
    ASSUME TypeOK, NoActiveWhenCancelled, [Next]_vars
    PROVE  NoActiveWhenCancelled'
<1>1. SUFFICES ASSUME run' = "cancelled", NEW d \in Dispatches
               PROVE  disp'[d] \notin ActiveDispatch
  BY DEF NoActiveWhenCancelled
<1>2. CASE run = "cancelled"
  <2>1. ASSUME NEW claim \in Claims PROVE ~Schedule(claim)
    BY <1>2 DEF Schedule, SchedulePass
  <2>2. OnlyActiveChange
    BY <2>1, NoPassStep
  <2>3. QED
    BY <1>2, <2>2 DEF OnlyActiveChange, NoActiveWhenCancelled
<1>3. CASE run # "cancelled"
  <2>1. CancelEntities
    BY <1>1, <1>3, OnlyVerdictsCancel
  <2>2. QED
    BY <2>1 DEF CancelEntities, ActiveDispatch
<1>4. QED
  BY <1>2, <1>3

(***************************************************************************)
(* A cancelled run has neither an active dispatch nor an active agent.     *)
(***************************************************************************)
THEOREM CancelledQuiet == Spec => []CancelledRunIsQuiet
<1>1. Init => NoActiveWhenCancelled
  BY DEF Init, NoActiveWhenCancelled
<1>2. TypeOK /\ NoActiveWhenCancelled /\ [Next]_vars => NoActiveWhenCancelled'
  BY QuietStep
<1>3. NoActiveWhenCancelled /\ AgentFollowsDispatch => CancelledRunIsQuiet
  BY DEF NoActiveWhenCancelled, AgentFollowsDispatch, CancelledRunIsQuiet,
         ActiveDispatch, BoundDispatch
<1>4. QED
  BY <1>1, <1>2, <1>3, TypeCorrect, AgentFollows, PTL DEF Spec

-----------------------------------------------------------------------------
(***************************************************************************)
(* The launch circuit breaker (record_launch_failure) has tripped for a    *)
(* task exactly when the launch failures of the task have reached the      *)
(* threshold.                                                              *)
(***************************************************************************)
\* Nothing is recorded as a launch failure, and no breaker trips.
NoBreak ==
    /\ launchFailed' = launchFailed
    /\ \A d \in Dispatches : disp'[d] = "circuit_broken" => disp[d] = "circuit_broken"

\* Only record_launch_failure counts a failure to launch, or trips the breaker.
LEMMA OnlyLaunchFailuresBreak ==
    ASSUME TypeOK, [Next]_vars, \A d \in Dispatches : ~RecordLaunchFailure(d)
    PROVE  NoBreak
<1>1. CASE StartRun
  BY <1>1, TypeOK DEF TypeOK, NoBreak, StartRun
<1>2. ASSUME NEW t \in Tasks, NEW ds \in SUBSET Tasks,
             CreateTask(t, ds)
      PROVE  NoBreak
  BY <1>2, TypeOK DEF TypeOK, NoBreak, CreateTask
<1>3. ASSUME NEW claim \in Claims,
             Schedule(claim)
      PROVE  NoBreak
  <2>1. PICK ts \in SettledTables, sel \in SUBSET Tasks :
               SchedulePass(claim, ts, sel)
    BY <1>3 DEF Schedule
  <2>2. \A d \in Dispatches :
            IF d \in NewDispatches(sel)
            THEN disp[d] = "absent" /\ disp'[d] = "pending"
            ELSE disp'[d] = disp[d]
    BY <2>1, PassStep
  <2>3. QED
    BY <2>1, <2>2 DEF NoBreak, SchedulePass
<1>4. ASSUME NEW d \in Dispatches, NEW w \in Worktrees,
             BindDispatch(d, w)
      PROVE  NoBreak
  BY <1>4, TypeOK DEF TypeOK, NoBreak, BindDispatch
<1>5. ASSUME NEW d \in Dispatches,
             RecordLaunchFailure(d)
      PROVE  NoBreak
  BY <1>5
<1>6. ASSUME NEW d \in Dispatches,
             MarkDispatchRunning(d)
      PROVE  NoBreak
  BY <1>6, TypeOK DEF TypeOK, NoBreak, MarkDispatchRunning
<1>7. ASSUME NEW d \in Dispatches,
             Heartbeat(d)
      PROVE  NoBreak
  BY <1>7, TypeOK DEF TypeOK, NoBreak, Heartbeat
<1>8. ASSUME NEW d \in Dispatches, NEW o \in {"running", "waiting", "gone", "unknown"},
             ReconcileLiveness(d, o)
      PROVE  NoBreak
  BY <1>8, TypeOK DEF TypeOK, NoBreak, ReconcileLiveness
<1>9. ASSUME NEW d \in Dispatches,
             WorkerDone(d)
      PROVE  NoBreak
  BY <1>9, TypeOK DEF TypeOK, NoBreak, WorkerDone
<1>10. ASSUME NEW d \in Dispatches, NEW g \in Gates,
             WorkerDoneMerge(d, g)
      PROVE  NoBreak
  BY <1>10, TypeOK DEF TypeOK, NoBreak, WorkerDoneMerge
<1>11. ASSUME NEW d \in Dispatches,
             PaneExit(d)
      PROVE  NoBreak
  BY <1>11, TypeOK DEF TypeOK, NoBreak, PaneExit
<1>12. ASSUME NEW d \in Dispatches,
             ReleasePane(d)
      PROVE  NoBreak
  BY <1>12, TypeOK DEF TypeOK, NoBreak, ReleasePane
<1>13. ASSUME NEW g \in Gates, NEW type \in GateTypes, NEW d \in Dispatches \cup {NoDispatch},
             CreateGate(g, type, d)
      PROVE  NoBreak
  BY <1>13, TypeOK DEF TypeOK, NoBreak, CreateGate
<1>14. ASSUME NEW g \in Gates,
             ResolveDecision(g)
      PROVE  NoBreak
  BY <1>14, TypeOK DEF TypeOK, NoBreak, ResolveDecision
<1>15. ASSUME NEW g \in Gates, NEW decision \in {"approve", "reject"},
             ResolveMergeOrCleanup(g, decision)
      PROVE  NoBreak
  BY <1>15, TypeOK DEF TypeOK, NoBreak, ResolveMergeOrCleanup
<1>16. ASSUME NEW g \in Gates, NEW h \in Gates,
             MarkMergeApplied(g, h)
      PROVE  NoBreak
  BY <1>16, TypeOK DEF TypeOK, NoBreak, MarkMergeApplied, Approved
<1>17. ASSUME NEW g \in Gates,
             AuthorizeMerge(g)
      PROVE  NoBreak
  BY <1>17, TypeOK DEF TypeOK, NoBreak, AuthorizeMerge, Approved
<1>18. ASSUME NEW g \in Gates,
             AuthorizeCleanup(g)
      PROVE  NoBreak
  BY <1>18, TypeOK DEF TypeOK, NoBreak, AuthorizeCleanup, Approved
<1>19. ASSUME NEW g \in Gates,
             RemoveWorktree(g)
      PROVE  NoBreak
  BY <1>19, TypeOK DEF TypeOK, NoBreak, RemoveWorktree
<1>20. ASSUME NEW g \in Gates,
             MarkCleanupApplied(g)
      PROVE  NoBreak
  BY <1>20, TypeOK DEF TypeOK, NoBreak, MarkCleanupApplied
<1>21. ASSUME NEW g \in Gates,
             Abandon(g)
      PROVE  NoBreak
  BY <1>21, TypeOK DEF TypeOK, NoBreak, Abandon
<1>22. ASSUME NEW t \in Tasks, NEW status \in TaskStatus,
             UpdateTask(t, status)
      PROVE  NoBreak
  BY <1>22, TypeOK DEF TypeOK, NoBreak, UpdateTask
<1>23. ASSUME NEW t \in Tasks,
             RetryTask(t)
      PROVE  NoBreak
  BY <1>23, TypeOK DEF TypeOK, NoBreak, RetryTask
<1>24. CASE AcceptRun
  BY <1>24, TypeOK DEF TypeOK, NoBreak, AcceptRun
<1>25. CASE CancelRun
  BY <1>25, TypeOK DEF TypeOK, NoBreak, CancelRun, CancelEntities
<1>26. CASE RejectRun
  BY <1>26, TypeOK DEF TypeOK, NoBreak, RejectRun, CancelEntities
<1>27. ASSUME NEW late \in SUBSET Gates,
             DaemonRestart(late)
      PROVE  NoBreak
  BY <1>27, TypeOK DEF TypeOK, NoBreak, DaemonRestart
<1>28. CASE UNCHANGED vars
  BY <1>28, TypeOK DEF TypeOK, NoBreak, vars
<1>29. QED
  BY <1>1, <1>2, <1>3, <1>4, <1>5, <1>6, <1>7, <1>8, <1>9, <1>10, <1>11,
     <1>12, <1>13, <1>14, <1>15, <1>16, <1>17, <1>18, <1>19, <1>20, <1>21, <1>22,
     <1>23, <1>24, <1>25, <1>26, <1>27, <1>28
     DEF Next

-----------------------------------------------------------------------------
(***************************************************************************)
(* The strengthening: a dispatch that failed to launch is over, so that it *)
(* is never counted twice.                                                 *)
(***************************************************************************)
LaunchFailedIsOver ==
    /\ launchFailed \in SUBSET Dispatches
    /\ \A d \in launchFailed : disp[d] \in {"failed", "circuit_broken"}

BreakerInv == LaunchFailedIsOver /\ BreakerTripsOnTime

\* A dispatch that is over stays what it is.
LEMMA OverStays ==
    ASSUME TypeOK, [Next]_vars, NEW d \in Dispatches,
           disp[d] \in {"failed", "circuit_broken"}
    PROVE  disp'[d] = disp[d]
<1>1. CASE \A claim \in Claims : ~Schedule(claim)
  <2>1. OnlyActiveChange
    BY <1>1, NoPassStep
  <2>2. QED
    BY <2>1 DEF OnlyActiveChange, ActiveDispatch
<1>2. ASSUME NEW claim \in Claims, Schedule(claim)
      PROVE  disp'[d] = disp[d]
  <2>1. PICK ts \in SettledTables, sel \in SUBSET Tasks :
               SchedulePass(claim, ts, sel)
    BY <1>2 DEF Schedule
  <2>2. QED
    BY <2>1, PassStep
<1>3. QED
  BY <1>1, <1>2

\* The launch failures of a task have a number.
LEMMA FailuresFinite ==
    ASSUME NEW S \in SUBSET Dispatches
    PROVE  IsFiniteSet(S) /\ Cardinality(S) \in Nat
  BY DispatchesFinite, FS_Subset, FS_CardinalityType

\* A step that is no launch failure leaves the breaker as it is.
LEMMA OtherStep ==
    ASSUME TypeOK, BreakerInv, [Next]_vars, NoBreak
    PROVE  BreakerInv'
<1>1. LaunchFailedIsOver'
  BY OverStays DEF BreakerInv, LaunchFailedIsOver, NoBreak
<1>2. \A d \in Dispatches : disp'[d] = "circuit_broken" <=> disp[d] = "circuit_broken"
  BY OverStays DEF NoBreak
<1>3. \A t \in Tasks : LaunchFailures(t)' = LaunchFailures(t)
  BY DEF NoBreak, LaunchFailures
<1>4. BreakerTripsOnTime'
  BY <1>2, <1>3 DEF BreakerInv, BreakerTripsOnTime
<1>5. QED
  BY <1>1, <1>4 DEF BreakerInv

\* A launch failure counts itself, and trips the breaker when it is due.
LEMMA LaunchFailureStep ==
    ASSUME TypeOK, BreakerInv, NEW d \in Dispatches, RecordLaunchFailure(d)
    PROVE  BreakerInv'
<1> DEFINE failures == Cardinality(LaunchFailures(d.task) \ {d}) + 1
<1>1. /\ disp[d] \in {"pending", "dispatched"}
      /\ launchFailed' = launchFailed \cup {d}
      /\ disp' = [disp EXCEPT ![d] =
                    IF failures >= CircuitBreaker THEN "circuit_broken" ELSE "failed"]
  BY DEF RecordLaunchFailure
<1>2. d \notin launchFailed
  BY <1>1 DEF BreakerInv, LaunchFailedIsOver
<1>3. d.task \in Tasks
  BY DEF Dispatches
<1>4. /\ disp'[d] = IF failures >= CircuitBreaker THEN "circuit_broken" ELSE "failed"
      /\ \A e \in Dispatches \ {d} : disp'[e] = disp[e]
  BY <1>1 DEF TypeOK
<1>5. LaunchFailedIsOver'
  BY <1>1, <1>4 DEF BreakerInv, LaunchFailedIsOver
<1>6. ASSUME NEW t \in Tasks, t # d.task
      PROVE  Cardinality(LaunchFailures(t)') >= CircuitBreaker <=>
                 \E e \in Dispatches : e.task = t /\ disp'[e] = "circuit_broken"
  <2>1. LaunchFailures(t)' = LaunchFailures(t)
    BY <1>1, <1>6 DEF LaunchFailures
  <2>2. \A e \in Dispatches : e.task = t => disp'[e] = disp[e]
    BY <1>4, <1>6
  <2>3. QED
    BY <2>1, <2>2 DEF BreakerInv, BreakerTripsOnTime
<1>7. Cardinality(LaunchFailures(d.task)') >= CircuitBreaker <=>
          \E e \in Dispatches : e.task = d.task /\ disp'[e] = "circuit_broken"
  <2> DEFINE old == LaunchFailures(d.task)
  <2>1. old \in SUBSET Dispatches /\ d \notin old
    BY <1>2 DEF BreakerInv, LaunchFailedIsOver, LaunchFailures
  <2>2. LaunchFailures(d.task)' = old \cup {d}
    BY <1>1 DEF LaunchFailures
  <2>3. Cardinality(old \cup {d}) = Cardinality(old) + 1
    BY <2>1, FailuresFinite, FS_AddElement
  <2>4. old \ {d} = old
    BY <2>1
  <2>5. /\ failures = Cardinality(old) + 1
        /\ Cardinality(LaunchFailures(d.task)') = failures
    BY <2>2, <2>3, <2>4
  <2>6. CASE failures >= CircuitBreaker
    BY <1>4, <2>5, <2>6
  <2>7. CASE ~ (failures >= CircuitBreaker)
    <3>1. Cardinality(old) \in Nat
      BY <2>1, FailuresFinite
    <3>2. ~ (Cardinality(old) >= CircuitBreaker)
      BY <2>5, <2>7, <3>1, BreakerAssumption
    <3>3. \A e \in Dispatches : e.task = d.task => disp[e] # "circuit_broken"
      BY <1>3, <3>2 DEF BreakerInv, BreakerTripsOnTime
    <3>4. \A e \in Dispatches : e.task = d.task => disp'[e] # "circuit_broken"
      BY <1>4, <2>7, <3>3
    <3>5. QED
      BY <2>5, <2>7, <3>4
  <2>8. QED
    BY <2>6, <2>7
<1>8. BreakerTripsOnTime'
  BY <1>6, <1>7 DEF BreakerTripsOnTime
<1>9. QED
  BY <1>5, <1>8 DEF BreakerInv

(***************************************************************************)
(* Some attempt of a task is circuit_broken exactly when its launch        *)
(* failures have reached CIRCUIT_BREAKER_FAILURES, whatever other          *)
(* failures, restarts and retries lie between them.                        *)
(***************************************************************************)
THEOREM BreakerTrips == Spec => []BreakerTripsOnTime
<1>1. Init => BreakerInv
  <2>1. SUFFICES ASSUME Init PROVE BreakerInv
    OBVIOUS
  <2>2. launchFailed = {} /\ \A d \in Dispatches : disp[d] = "absent"
    BY <2>1 DEF Init
  <2>3. \A t \in Tasks : LaunchFailures(t) = {}
    BY <2>2 DEF LaunchFailures
  <2>4. ~ (0 >= CircuitBreaker)
    BY BreakerAssumption
  <2>5. \A t \in Tasks : ~ (Cardinality(LaunchFailures(t)) >= CircuitBreaker)
    BY <2>3, <2>4, FS_EmptySet
  <2>6. QED
    BY <2>2, <2>5 DEF BreakerInv, LaunchFailedIsOver, BreakerTripsOnTime
<1>2. TypeOK /\ BreakerInv /\ [Next]_vars => BreakerInv'
  <2>1. SUFFICES ASSUME TypeOK, BreakerInv, [Next]_vars
                 PROVE  BreakerInv'
    OBVIOUS
  <2>2. CASE \E d \in Dispatches : RecordLaunchFailure(d)
    BY <2>1, <2>2, LaunchFailureStep
  <2>3. CASE \A d \in Dispatches : ~RecordLaunchFailure(d)
    BY <2>1, <2>3, OnlyLaunchFailuresBreak, OtherStep
  <2>4. QED
    BY <2>2, <2>3
<1>3. BreakerInv => BreakerTripsOnTime
  BY DEF BreakerInv
<1>4. QED
  BY <1>1, <1>2, <1>3, TypeCorrect, PTL DEF Spec
=============================================================================
