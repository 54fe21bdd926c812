------------------------ MODULE CoordinatorTaskProofs ------------------------
(***************************************************************************)
(* What holds of the tasks and of the worktrees of a run, for any number   *)
(* of tasks, attempts and gates and any policy: attempts of a task do not  *)
(* overlap, tasks respect their dependencies, a finished run is done, and  *)
(* no worktree is removed without the approvals its removal needs.         *)
(***************************************************************************)
EXTENDS CoordinatorProofs

-----------------------------------------------------------------------------
(* What a transaction may do to the tasks that nobody changes by hand. *)

\* An active dispatch of t ends in this step.
Ended(t) ==
    \E d \in Dispatches :
        d.task = t /\ disp[d] \in ActiveDispatch /\ disp'[d] \notin ActiveDispatch

\* Outside a pass, a task changes because its attempt ended, it is created,
\* the run is cancelled, or it is retried.
TaskChange ==
    /\ overridden \subseteq overridden'
    /\ \A t \in Tasks : deps'[t] = deps[t] \/ task'[t] = "pending"
    /\ \A t \in Tasks \ overridden' :
          \/ task'[t] = task[t]
          \/ Ended(t)
          \/ task[t] = "absent" /\ task'[t] = "pending"
          \/ /\ task[t] \notin FinishedTask /\ task'[t] = "cancelled"
             /\ \A d \in Dispatches : disp'[d] \notin ActiveDispatch
          \/ /\ task[t] \in {"failed", "blocked", "cancelled"}
             /\ task'[t] = IF DependenciesCompleted(t) THEN "ready" ELSE "pending"

\* A run is completed or failed over finished tasks only, or it was so before
\* and a task has only changed with the end of an attempt.
RunChange ==
    run' \in {"completed", "failed"} =>
        \A t \in Tasks \ overridden' :
            \/ task'[t] \in FinishedTask \cup {"absent"}
            \/ /\ run \in {"completed", "failed"}
               /\ task'[t] = task[t] \/ Ended(t)

\* A dispatch belongs to a task.
LEMMA DispatchTask == \A d \in Dispatches : d.task \in Tasks
  BY DEF Dispatches

\* refresh_terminal_run_status finishes a run only when its tasks are.
LEMMA RefreshedFinished ==
    ASSUME NEW r, NEW ts, NEW ds, NEW gs,
           RefreshedRun(r, ts, ds, gs) \in {"completed", "failed"}
    PROVE  \/ r \in {"completed", "failed"}
           \/ \A t \in Tasks : ts[t] \in FinishedTask \cup {"absent"}
  BY DEF RefreshedRun

\* Every transaction but a pass changes tasks in one of these ways.
LEMMA TaskChangeStep ==
    ASSUME TypeOK, [Next]_vars, \A claim \in Claims : ~Schedule(claim)
    PROVE  TaskChange
<1>1. CASE StartRun
  BY <1>1, TypeOK, DispatchTask
     DEF TypeOK, TaskChange, Ended, StartRun
<1>2. ASSUME NEW t \in Tasks, NEW ds \in SUBSET Tasks,
             CreateTask(t, ds)
      PROVE  TaskChange
  BY <1>2, TypeOK, DispatchTask
     DEF TypeOK, TaskChange, Ended, CreateTask
<1>3. ASSUME NEW claim \in Claims,
             Schedule(claim)
      PROVE  TaskChange
  BY <1>3
<1>4. ASSUME NEW d \in Dispatches, NEW w \in Worktrees,
             BindDispatch(d, w)
      PROVE  TaskChange
  BY <1>4, TypeOK, DispatchTask
     DEF TypeOK, TaskChange, Ended, BindDispatch
<1>5. ASSUME NEW d \in Dispatches,
             RecordLaunchFailure(d)
      PROVE  TaskChange
  BY <1>5, TypeOK, DispatchTask
     DEF TypeOK, TaskChange, Ended, ActiveDispatch, RecordLaunchFailure
<1>6. ASSUME NEW d \in Dispatches,
             MarkDispatchRunning(d)
      PROVE  TaskChange
  BY <1>6, TypeOK, DispatchTask
     DEF TypeOK, TaskChange, Ended, MarkDispatchRunning
<1>7. ASSUME NEW d \in Dispatches,
             Heartbeat(d)
      PROVE  TaskChange
  BY <1>7, TypeOK, DispatchTask
     DEF TypeOK, TaskChange, Ended, Heartbeat
<1>8. ASSUME NEW d \in Dispatches,
             NEW o \in {"running", "waiting", "gone", "unknown"},
             ReconcileLiveness(d, o)
      PROVE  TaskChange
  BY <1>8, TypeOK, DispatchTask
     DEF TypeOK, TaskChange, Ended, ActiveDispatch, BoundDispatch, ReconcileLiveness
<1>9. ASSUME NEW d \in Dispatches,
             WorkerDone(d)
      PROVE  TaskChange
  BY <1>9, TypeOK, DispatchTask
     DEF TypeOK, TaskChange, Ended, ActiveDispatch, WorkerDone
<1>10. ASSUME NEW d \in Dispatches, NEW g \in Gates,
             WorkerDoneMerge(d, g)
      PROVE  TaskChange
  BY <1>10, TypeOK, DispatchTask
     DEF TypeOK, TaskChange, Ended, ActiveDispatch, CreateGateRecord, WorkerDoneMerge
<1>11. ASSUME NEW d \in Dispatches,
             PaneExit(d)
      PROVE  TaskChange
  BY <1>11, TypeOK, DispatchTask
     DEF TypeOK, TaskChange, Ended, ActiveDispatch, PaneExit
<1>12. ASSUME NEW d \in Dispatches,
             ReleasePane(d)
      PROVE  TaskChange
  BY <1>12, TypeOK, DispatchTask
     DEF TypeOK, TaskChange, Ended, ReleasePane
<1>13. ASSUME NEW g \in Gates, NEW type \in GateTypes,
             NEW d \in Dispatches \cup {NoDispatch},
             CreateGate(g, type, d)
      PROVE  TaskChange
  BY <1>13, TypeOK, DispatchTask
     DEF TypeOK, TaskChange, Ended, CreateGateRecord, CreateGate
<1>14. ASSUME NEW g \in Gates,
             ResolveDecision(g)
      PROVE  TaskChange
  BY <1>14, TypeOK, DispatchTask
     DEF TypeOK, TaskChange, Ended, ResolveDecision
<1>15. ASSUME NEW g \in Gates, NEW decision \in {"approve", "reject"},
             ResolveMergeOrCleanup(g, decision)
      PROVE  TaskChange
  BY <1>15, TypeOK, DispatchTask
     DEF TypeOK, TaskChange, Ended, ResolveMergeOrCleanup
<1>16. ASSUME NEW g \in Gates, NEW h \in Gates,
             MarkMergeApplied(g, h)
      PROVE  TaskChange
  BY <1>16, TypeOK, DispatchTask
     DEF TypeOK, TaskChange, Ended, MarkMergeApplied, Approved
<1>17. ASSUME NEW g \in Gates,
             AuthorizeMerge(g)
      PROVE  TaskChange
  BY <1>17, TypeOK, DispatchTask
     DEF TypeOK, TaskChange, Ended, AuthorizeMerge, Approved
<1>18. ASSUME NEW g \in Gates,
             AuthorizeCleanup(g)
      PROVE  TaskChange
  BY <1>18, TypeOK, DispatchTask
     DEF TypeOK, TaskChange, Ended, AuthorizeCleanup, Approved
<1>19. ASSUME NEW g \in Gates,
             RemoveWorktree(g)
      PROVE  TaskChange
  BY <1>19, TypeOK, DispatchTask
     DEF TypeOK, TaskChange, Ended, RemoveWorktree
<1>20. ASSUME NEW g \in Gates,
             MarkCleanupApplied(g)
      PROVE  TaskChange
  BY <1>20, TypeOK, DispatchTask
     DEF TypeOK, TaskChange, Ended, MarkCleanupApplied
<1>21. ASSUME NEW g \in Gates,
             Abandon(g)
      PROVE  TaskChange
  BY <1>21, TypeOK, DispatchTask
     DEF TypeOK, TaskChange, Ended, Abandon
<1>22. ASSUME NEW t \in Tasks, NEW status \in TaskStatus,
             UpdateTask(t, status)
      PROVE  TaskChange
  BY <1>22, TypeOK, DispatchTask
     DEF TypeOK, TaskChange, Ended, FinishedTask, ManualTransition, UpdateTask
<1>23. ASSUME NEW t \in Tasks,
             RetryTask(t)
      PROVE  TaskChange
  BY <1>23, TypeOK, DispatchTask
     DEF TypeOK, TaskChange, Ended, FinishedTask, RetryTask
<1>24. CASE AcceptRun
  BY <1>24, TypeOK, DispatchTask
     DEF TypeOK, TaskChange, Ended, FinishedTask, AcceptRun
<1>25. CASE CancelRun
  BY <1>25, TypeOK, DispatchTask
     DEF TypeOK, TaskChange, Ended, ActiveDispatch, FinishedTask, CancelEntities, CancelRun
<1>26. CASE RejectRun
  BY <1>26, TypeOK, DispatchTask
     DEF TypeOK, TaskChange, Ended, ActiveDispatch, FinishedTask, CancelEntities, RejectRun
<1>27. ASSUME NEW late \in SUBSET Gates,
             DaemonRestart(late)
      PROVE  TaskChange
  BY <1>27, TypeOK, DispatchTask
     DEF TypeOK, TaskChange, Ended, ActiveDispatch, ActiveIn, DaemonRestart
<1>28. CASE UNCHANGED vars
  BY <1>28, TypeOK, DispatchTask
     DEF TypeOK, TaskChange, Ended, vars
<1>29. QED
  BY <1>1, <1>2, <1>3, <1>4, <1>5, <1>6, <1>7, <1>8, <1>9,
     <1>10, <1>11, <1>12, <1>13, <1>14, <1>15, <1>16, <1>17, <1>18, <1>19,
     <1>20, <1>21, <1>22, <1>23, <1>24, <1>25, <1>26, <1>27, <1>28
     DEF Next

\* Every transaction but a pass finishes the run in one of these ways.
LEMMA RunChangeStep ==
    ASSUME TypeOK, [Next]_vars, \A claim \in Claims : ~Schedule(claim)
    PROVE  RunChange
<1>1. CASE StartRun
  BY <1>1, TypeOK
     DEF TypeOK, RunChange, StartRun
<1>2. ASSUME NEW t \in Tasks, NEW ds \in SUBSET Tasks,
             CreateTask(t, ds)
      PROVE  RunChange
  BY <1>2, TypeOK
     DEF TypeOK, RunChange, TerminalRun, CreateTask
<1>3. ASSUME NEW claim \in Claims,
             Schedule(claim)
      PROVE  RunChange
  BY <1>3
<1>4. ASSUME NEW d \in Dispatches, NEW w \in Worktrees,
             BindDispatch(d, w)
      PROVE  RunChange
  BY <1>4, TypeOK
     DEF TypeOK, RunChange, BindDispatch
<1>5. ASSUME NEW d \in Dispatches,
             RecordLaunchFailure(d)
      PROVE  RunChange
  BY <1>5, TypeOK
     DEF TypeOK, RunChange, Ended, ActiveDispatch, RecordLaunchFailure
<1>6. ASSUME NEW d \in Dispatches,
             MarkDispatchRunning(d)
      PROVE  RunChange
  BY <1>6, TypeOK
     DEF TypeOK, RunChange, MarkDispatchRunning
<1>7. ASSUME NEW d \in Dispatches,
             Heartbeat(d)
      PROVE  RunChange
  BY <1>7, TypeOK
     DEF TypeOK, RunChange, Heartbeat
<1>8. ASSUME NEW d \in Dispatches,
             NEW o \in {"running", "waiting", "gone", "unknown"},
             ReconcileLiveness(d, o)
      PROVE  RunChange
  BY <1>8, TypeOK
     DEF TypeOK, RunChange, Ended, ActiveDispatch, BoundDispatch, ReconcileLiveness
<1>9. ASSUME NEW d \in Dispatches,
             WorkerDone(d)
      PROVE  RunChange
  <2>1. run' = RefreshedRun(run, task', disp', gate)
    BY <1>9 DEF WorkerDone
  <2>2. \A t \in Tasks : task'[t] = task[t] \/ task'[t] = "completed"
    BY <1>9, TypeOK DEF TypeOK, WorkerDone
  <2>3. QED
    BY <2>1, <2>2, RefreshedFinished DEF RunChange, FinishedTask
<1>10. ASSUME NEW d \in Dispatches, NEW g \in Gates,
             WorkerDoneMerge(d, g)
      PROVE  RunChange
  BY <1>10, TypeOK
     DEF TypeOK, RunChange, ActiveDispatch, CreateGateRecord, WorkerDoneMerge
<1>11. ASSUME NEW d \in Dispatches,
             PaneExit(d)
      PROVE  RunChange
  <2>1. run' = RefreshedRun(run, task', disp', gate)
    BY <1>11 DEF PaneExit
  <2>2. \A t \in Tasks : task'[t] = task[t] \/ task'[t] = "blocked"
    BY <1>11, TypeOK DEF TypeOK, PaneExit
  <2>3. QED
    BY <2>1, <2>2, RefreshedFinished DEF RunChange, FinishedTask
<1>12. ASSUME NEW d \in Dispatches,
             ReleasePane(d)
      PROVE  RunChange
  BY <1>12, TypeOK
     DEF TypeOK, RunChange, ReleasePane
<1>13. ASSUME NEW g \in Gates, NEW type \in GateTypes,
             NEW d \in Dispatches \cup {NoDispatch},
             CreateGate(g, type, d)
      PROVE  RunChange
  BY <1>13, TypeOK
     DEF TypeOK, RunChange, CreateGateRecord, CreateGate
<1>14. ASSUME NEW g \in Gates,
             ResolveDecision(g)
      PROVE  RunChange
  BY <1>14, TypeOK, RefreshedFinished
     DEF TypeOK, RunChange, ResolveDecision
<1>15. ASSUME NEW g \in Gates, NEW decision \in {"approve", "reject"},
             ResolveMergeOrCleanup(g, decision)
      PROVE  RunChange
  BY <1>15, TypeOK, RefreshedFinished
     DEF TypeOK, RunChange, ResolveMergeOrCleanup
<1>16. ASSUME NEW g \in Gates, NEW h \in Gates,
             MarkMergeApplied(g, h)
      PROVE  RunChange
  BY <1>16, TypeOK
     DEF TypeOK, RunChange, MarkMergeApplied, Approved
<1>17. ASSUME NEW g \in Gates,
             AuthorizeMerge(g)
      PROVE  RunChange
  BY <1>17, TypeOK
     DEF TypeOK, RunChange, AuthorizeMerge, Approved
<1>18. ASSUME NEW g \in Gates,
             AuthorizeCleanup(g)
      PROVE  RunChange
  BY <1>18, TypeOK
     DEF TypeOK, RunChange, AuthorizeCleanup, Approved
<1>19. ASSUME NEW g \in Gates,
             RemoveWorktree(g)
      PROVE  RunChange
  BY <1>19, TypeOK
     DEF TypeOK, RunChange, RemoveWorktree
<1>20. ASSUME NEW g \in Gates,
             MarkCleanupApplied(g)
      PROVE  RunChange
  BY <1>20, TypeOK, RefreshedFinished
     DEF TypeOK, RunChange, MarkCleanupApplied
<1>21. ASSUME NEW g \in Gates,
             Abandon(g)
      PROVE  RunChange
  BY <1>21, TypeOK
     DEF TypeOK, RunChange, Abandon
<1>22. ASSUME NEW t \in Tasks, NEW status \in TaskStatus,
             UpdateTask(t, status)
      PROVE  RunChange
  BY <1>22, TypeOK
     DEF TypeOK, RunChange, UpdateTask
<1>23. ASSUME NEW t \in Tasks,
             RetryTask(t)
      PROVE  RunChange
  BY <1>23, TypeOK
     DEF TypeOK, RunChange, RetryTask, TerminalRun
<1>24. CASE AcceptRun
  BY <1>24, TypeOK
     DEF TypeOK, RunChange, FinishedTask, AcceptRun
<1>25. CASE CancelRun
  BY <1>25, TypeOK
     DEF TypeOK, RunChange, ActiveDispatch, FinishedTask, CancelEntities, CancelRun
<1>26. CASE RejectRun
  BY <1>26, TypeOK
     DEF TypeOK, RunChange, ActiveDispatch, FinishedTask, CancelEntities, RejectRun
<1>27. ASSUME NEW late \in SUBSET Gates,
             DaemonRestart(late)
      PROVE  RunChange
  BY <1>27, TypeOK, RefreshedFinished
     DEF TypeOK, RunChange, ActiveDispatch, ActiveIn, DaemonRestart
<1>28. CASE UNCHANGED vars
  BY <1>28, TypeOK
     DEF TypeOK, RunChange, vars
<1>29. QED
  BY <1>1, <1>2, <1>3, <1>4, <1>5, <1>6, <1>7, <1>8, <1>9,
     <1>10, <1>11, <1>12, <1>13, <1>14, <1>15, <1>16, <1>17, <1>18, <1>19,
     <1>20, <1>21, <1>22, <1>23, <1>24, <1>25, <1>26, <1>27, <1>28
     DEF Next

-----------------------------------------------------------------------------
(* Attempts, dependencies and finished runs *)

\* AttemptsDoNotOverlap, pair by pair.
OneAttempt ==
    \A d \in Dispatches :
        disp[d] \in ActiveDispatch /\ d.task \notin overridden =>
            /\ task[d.task] = "dispatched"
            /\ \A e \in Dispatches :
                  disp[e] \in ActiveDispatch /\ e.task = d.task => e = d

\* What the tasks of a run rely on; no part of it is inductive alone but the
\* first.
TaskInv == OneAttempt /\ DependencyOrder /\ FinishedRunIsDone

LEMMA OneAttemptIsOverlap == OneAttempt <=> AttemptsDoNotOverlap
  BY DEF OneAttempt, AttemptsDoNotOverlap, ActiveOf, ActiveIn

\* Outside a pass nothing becomes active, and an attempt that ends was the
\* only one of its task.
LEMMA TaskStep ==
    ASSUME TypeOK, TaskInv, [Next]_vars, \A claim \in Claims : ~Schedule(claim)
    PROVE  TaskInv'
<1>1. TaskChange /\ RunChange
  BY TaskChangeStep, RunChangeStep
<1>2. \A d \in Dispatches : disp'[d] \in ActiveDispatch => disp[d] \in ActiveDispatch
  BY NoPassStep DEF OnlyActiveChange
<1>3. ASSUME NEW t \in Tasks \ overridden', Ended(t)
      PROVE  /\ task[t] = "dispatched"
             /\ \A d \in Dispatches : d.task = t => disp'[d] \notin ActiveDispatch
  BY <1>1, <1>2, <1>3 DEF Ended, TaskInv, OneAttempt, TaskChange
<1>4. OneAttempt'
  <2>1. SUFFICES ASSUME NEW d \in Dispatches, disp'[d] \in ActiveDispatch,
                        d.task \notin overridden'
                 PROVE  /\ task'[d.task] = "dispatched"
                        /\ \A e \in Dispatches :
                              disp'[e] \in ActiveDispatch /\ e.task = d.task => e = d
    BY DEF OneAttempt
  <2>2. d.task \in Tasks \ overridden' /\ d.task \notin overridden
    BY <1>1, <2>1, DispatchTask DEF TaskChange
  <2>3. /\ task[d.task] = "dispatched"
        /\ \A e \in Dispatches : disp[e] \in ActiveDispatch /\ e.task = d.task => e = d
    BY <1>2, <2>1, <2>2 DEF TaskInv, OneAttempt
  <2>4. ~ Ended(d.task)
    BY <1>3, <2>1, <2>2
  <2>5. task'[d.task] = "dispatched"
    BY <1>1, <2>1, <2>2, <2>3, <2>4 DEF TaskChange
  <2>6. QED
    BY <1>2, <2>3, <2>5
<1>5. DependencyOrder'
  <2>1. SUFFICES ASSUME NEW t \in Tasks \ overridden', NEW u \in deps'[t] \ overridden',
                        task'[t] \in {"ready", "dispatched", "completed"}
                 PROVE  task'[u] = "completed"
    BY DEF DependencyOrder
  <2>2. t \notin overridden /\ u \in deps[t] \ overridden /\ u \in Tasks
    BY <1>1, <2>1, TypeOK DEF TaskChange, TypeOK
  <2>3. task[u] = "completed"
    <3>1. CASE Ended(t)
      BY <1>3, <2>2, <3>1 DEF TaskInv, DependencyOrder
    <3>2. CASE task'[t] = task[t]
      BY <2>1, <2>2, <3>2 DEF TaskInv, DependencyOrder
    <3>3. CASE DependenciesCompleted(t)
      BY <2>2, <3>3 DEF DependenciesCompleted
    <3>4. QED
      BY <1>1, <2>1, <3>1, <3>2, <3>3 DEF TaskChange
  <2>4. ~ Ended(u)
    BY <1>3, <2>1, <2>2, <2>3
  <2>5. QED
    BY <1>1, <2>1, <2>2, <2>3, <2>4 DEF TaskChange, FinishedTask
<1>6. FinishedRunIsDone'
  <2>1. SUFFICES ASSUME run' \in {"completed", "failed"}, NEW t \in Tasks \ overridden'
                 PROVE  task'[t] \in FinishedTask \cup {"absent"} /\ ActiveOf(t)' = {}
    BY DEF FinishedRunIsDone
  <2>2. t \notin overridden
    BY <1>1, <2>1 DEF TaskChange
  <2>3. CASE task'[t] \in FinishedTask \cup {"absent"}
    <3>1. task'[t] # "dispatched"
      BY <2>3 DEF FinishedTask
    <3>2. \A d \in Dispatches : d.task = t => disp'[d] \notin ActiveDispatch
      BY <1>4, <2>1, <3>1 DEF OneAttempt
    <3>3. QED
      BY <2>3, <3>2 DEF ActiveOf, ActiveIn
  <2>4. CASE run \in {"completed", "failed"} /\ (task'[t] = task[t] \/ Ended(t))
    <3>1. task[t] \in FinishedTask \cup {"absent"} /\ ActiveOf(t) = {}
      BY <2>1, <2>2, <2>4 DEF TaskInv, FinishedRunIsDone
    <3>2. ~ Ended(t)
      BY <3>1 DEF Ended, ActiveOf, ActiveIn
    <3>3. QED
      BY <2>3, <2>4, <3>1, <3>2
  <2>5. QED
    BY <1>1, <2>1, <2>3, <2>4 DEF RunChange
<1>7. QED
  BY <1>4, <1>5, <1>6 DEF TaskInv

\* A pass gives a task one new dispatch: the attempt after its last.
LEMMA NewAttemptIsOne ==
    ASSUME NEW sel \in SUBSET Tasks, NEW d \in NewDispatches(sel),
           NEW e \in NewDispatches(sel), d.task = e.task
    PROVE  d = e
<1>1. ASSUME NEW x \in NewDispatches(sel), NEW y \in NewDispatches(sel),
             x.task = y.task, x.attempt < y.attempt
      PROVE  FALSE
  <2>1. x \in Dispatches /\ y \in Dispatches
    BY DEF NewDispatches
  <2>2. x.attempt \in 1 .. MaxAttempts /\ y.attempt \in 1 .. MaxAttempts
    BY <2>1 DEF Dispatches
  <2>3. y.attempt # 1
    BY <1>1, <2>2, BoundsAssumption
  <2>4. PICK c \in Dispatches :
          c.task = y.task /\ disp[c] # "absent" /\ c.attempt = y.attempt - 1
    BY <2>3 DEF NewDispatches, NextAttempt
  <2>5. c.attempt < x.attempt
    BY <1>1, <2>4 DEF NewDispatches, NextAttempt
  <2>6. QED
    BY <1>1, <2>2, <2>4, <2>5, BoundsAssumption
<1>2. d \in Dispatches /\ e \in Dispatches
  BY DEF NewDispatches
<1>3. d.attempt \in Int /\ e.attempt \in Int
  BY <1>2, BoundsAssumption DEF Dispatches
<1>4. d.attempt = e.attempt
  BY <1>1, <1>3
<1>5. QED
  BY <1>2, <1>4 DEF Dispatches

\* A pass settles pending tasks and dispatches ready ones, each once.
LEMMA TaskPass ==
    ASSUME TypeOK, TaskInv, NEW claim \in Claims, NEW ts \in SettledTables,
           NEW sel \in SUBSET Tasks, SchedulePass(claim, ts, sel)
    PROVE  TaskInv'
<1>1. UNCHANGED <<deps, overridden>> /\ run \in {"running", "waiting"}
  BY DEF SchedulePass
<1>2. \A t \in Tasks : task'[t] = IF t \in sel THEN "dispatched" ELSE ts[t]
  BY DEF SchedulePass
<1>3. \A t \in Tasks : ts[t] = SettledTask(ts, t)
  BY DEF SchedulePass, Settled
<1>4. \A t \in sel : ts[t] = "ready"
  BY DEF SchedulePass, FirstReady
<1>5. \A t \in Tasks :
         \/ ts[t] = task[t]
         \/ task[t] = "pending" /\ ts[t] \in {"pending", "ready", "blocked"}
  BY DEF SettledTables
<1>6. \A t \in Tasks : ts[t] = "completed" => task[t] = "completed" /\ task'[t] = "completed"
  BY <1>2, <1>4, <1>5
<1>7. OneAttempt'
  <2>1. SUFFICES ASSUME NEW d \in Dispatches, disp'[d] \in ActiveDispatch,
                        d.task \notin overridden
                 PROVE  /\ task'[d.task] = "dispatched"
                        /\ \A e \in Dispatches :
                              disp'[e] \in ActiveDispatch /\ e.task = d.task => e = d
    BY <1>1 DEF OneAttempt
  <2>2. d.task \in Tasks
    BY DispatchTask
  <2>3. ASSUME NEW e \in Dispatches, e.task \in sel, e.task \notin overridden
        PROVE  disp[e] \notin ActiveDispatch
    <3>1. task[e.task] # "dispatched"
      BY <1>4, <1>5, <2>3, DispatchTask
    <3>2. QED
      BY <2>3, <3>1 DEF TaskInv, OneAttempt
  <2>4. CASE d.task \in sel
    <3>1. ASSUME NEW e \in Dispatches, disp'[e] \in ActiveDispatch, e.task = d.task
          PROVE  e \in NewDispatches(sel)
      BY <2>1, <2>3, <2>4, <3>1, PassStep
    <3>2. QED
      BY <1>2, <2>1, <2>2, <2>4, <3>1, NewAttemptIsOne
  <2>5. CASE d.task \notin sel
    <3>1. \A e \in Dispatches : e.task = d.task => disp'[e] = disp[e]
      BY <2>5, PassStep DEF NewDispatches
    <3>2. task[d.task] = "dispatched"
      BY <2>1, <3>1 DEF TaskInv, OneAttempt
    <3>3. task'[d.task] = "dispatched"
      BY <1>2, <1>5, <2>2, <2>5, <3>2
    <3>4. QED
      BY <2>1, <3>1, <3>3 DEF TaskInv, OneAttempt
  <2>6. QED
    BY <2>4, <2>5
<1>8. DependencyOrder'
  <2>1. SUFFICES ASSUME NEW t \in Tasks \ overridden, NEW u \in deps[t] \ overridden,
                        task'[t] \in {"ready", "dispatched", "completed"}
                 PROVE  task'[u] = "completed"
    BY <1>1 DEF DependencyOrder
  <2>2. u \in Tasks
    BY TypeOK DEF TypeOK
  <2>3. ts[u] = "completed"
    <3>1. CASE task[t] = "pending"
      <4>1. ts[t] = "ready"
        BY <1>2, <1>4, <1>5, <2>1, <3>1
      <4>2. QED
        BY <1>3, <2>1, <3>1, <4>1 DEF SettledTask
    <3>2. CASE task[t] # "pending"
      <4>1. task[t] \in {"ready", "dispatched", "completed"}
        BY <1>2, <1>4, <1>5, <2>1, <3>2
      <4>2. task[u] = "completed"
        BY <2>1, <4>1 DEF TaskInv, DependencyOrder
      <4>3. QED
        BY <1>5, <2>2, <4>2
    <3>3. QED
      BY <3>1, <3>2
  <2>4. QED
    BY <1>6, <2>2, <2>3
<1>9. FinishedRunIsDone'
  <2>1. SUFFICES ASSUME run' \in {"completed", "failed"}, NEW t \in Tasks \ overridden
                 PROVE  task'[t] \in FinishedTask \cup {"absent"} /\ ActiveOf(t)' = {}
    BY <1>1 DEF FinishedRunIsDone
  <2>2. task'[t] \in FinishedTask \cup {"absent"}
    <3>1. PICK r \in {"running", run} : run' = RefreshedRun(r, task', disp', gate)
      BY DEF SchedulePass
    <3>2. QED
      BY <1>1, <2>1, <3>1, RefreshedFinished
  <2>3. task'[t] # "dispatched"
    BY <2>2 DEF FinishedTask
  <2>4. \A d \in Dispatches : d.task = t => disp'[d] \notin ActiveDispatch
    BY <1>1, <1>7, <2>1, <2>3 DEF OneAttempt
  <2>5. QED
    BY <2>2, <2>4 DEF ActiveOf, ActiveIn
<1>10. QED
  BY <1>7, <1>8, <1>9 DEF TaskInv

\* TaskInv holds in every reachable state.
LEMMA TasksInOrder == Spec => []TaskInv
<1>1. Init => TaskInv
  BY DEF Init, TaskInv, OneAttempt, DependencyOrder, FinishedRunIsDone, ActiveDispatch
<1>2. TypeOK /\ TaskInv /\ [Next]_vars => TaskInv'
  <2>1. SUFFICES ASSUME TypeOK, TaskInv, [Next]_vars PROVE TaskInv'
    OBVIOUS
  <2>2. ASSUME NEW claim \in Claims, Schedule(claim) PROVE TaskInv'
    BY <2>1, <2>2, TaskPass DEF Schedule
  <2>3. QED
    BY <2>1, <2>2, TaskStep
<1>3. QED
  BY <1>1, <1>2, TypeCorrect, PTL DEF Spec

(***************************************************************************)
(* A task whose status nobody changed by hand never has two active         *)
(* attempts, nor one that its own status does not show.                    *)
(***************************************************************************)
THEOREM AttemptsApart == Spec => []AttemptsDoNotOverlap
<1>1. TaskInv => AttemptsDoNotOverlap
  BY OneAttemptIsOverlap DEF TaskInv
<1>2. QED
  BY <1>1, TasksInOrder, PTL

(***************************************************************************)
(* No task that follows the rules is ready, dispatched or completed before *)
(* the tasks it depends on.                                                *)
(***************************************************************************)
THEOREM DependenciesRespected == Spec => []DependencyOrder
<1>1. TaskInv => DependencyOrder
  BY DEF TaskInv
<1>2. QED
  BY <1>1, TasksInOrder, PTL

(***************************************************************************)
(* A completed or failed run leaves no task open and no attempt active,    *)
(* but those of tasks that were changed by hand.                           *)
(***************************************************************************)
THEOREM FinishedIsDone == Spec => []FinishedRunIsDone
<1>1. TaskInv => FinishedRunIsDone
  BY DEF TaskInv
<1>2. QED
  BY <1>1, TasksInOrder, PTL

-----------------------------------------------------------------------------
(* Approved removals *)

\* A gate of this type about d was resolved with approval.
Resolved(g, type, d) ==
    /\ gate[g].type = type /\ gate[g].dispatch = d
    /\ gate[g].status = "resolved" /\ gate[g].decision = "approve"

\* Gate g was approved, and if it is about a removal then both approvals of
\* the removal are there.
ApplyIsApproved(g) ==
    /\ gate[g].dispatch \in Dispatches
    /\ gate[g].status = "resolved" /\ gate[g].decision = "approve"
    /\ gate[g].type = "cleanup" =>
          \E m \in Gates : Resolved(m, "merge", gate[g].dispatch) /\ gate[m].applied

\* What is being applied was approved, and so was every finished removal.
RemovalInv ==
    /\ \A g \in applying : ApplyIsApproved(g)
    /\ RemovalWasApproved

\* A resolved gate stays as it is, but that it may be marked applied; a
\* decision is applied after an authorization, and a removal of a worktree
\* applies a cleanup decision.
Removal ==
    /\ \A g \in Gates :
          gate[g].status = "resolved" =>
              \/ gate'[g] = gate[g]
              \/ gate'[g] = [gate[g] EXCEPT !.applied = TRUE]
    /\ \A g \in applying' :
          g \in applying \/ AuthorizeMerge(g) \/ AuthorizeCleanup(g)
    /\ \A d \in Dispatches :
          worktree'[d] = "removed" =>
              \/ worktree[d] = "removed"
              \/ \E g \in applying :
                    gate[g].type = "cleanup" /\ gate[g].dispatch = d

\* Every transaction treats gates, removals and worktrees so.
LEMMA RemovalChange ==
    ASSUME TypeOK, [Next]_vars
    PROVE  Removal
<1>1. CASE StartRun
  BY <1>1, TypeOK
     DEF TypeOK, Removal, Resolved, StartRun
<1>2. ASSUME NEW t \in Tasks, NEW ds \in SUBSET Tasks,
             CreateTask(t, ds)
      PROVE  Removal
  BY <1>2, TypeOK
     DEF TypeOK, Removal, Resolved, CreateTask
<1>3. ASSUME NEW claim \in Claims,
             Schedule(claim)
      PROVE  Removal
  <2>1. UNCHANGED <<worktree, gate, applying>>
    BY <1>3 DEF Schedule, SchedulePass
  <2>2. QED
    BY <2>1 DEF Removal, Resolved
<1>4. ASSUME NEW d \in Dispatches, NEW w \in Worktrees,
             BindDispatch(d, w)
      PROVE  Removal
  BY <1>4, TypeOK
     DEF TypeOK, Removal, Resolved, BindDispatch
<1>5. ASSUME NEW d \in Dispatches,
             RecordLaunchFailure(d)
      PROVE  Removal
  BY <1>5, TypeOK
     DEF TypeOK, Removal, Resolved, RecordLaunchFailure
<1>6. ASSUME NEW d \in Dispatches,
             MarkDispatchRunning(d)
      PROVE  Removal
  BY <1>6, TypeOK
     DEF TypeOK, Removal, Resolved, MarkDispatchRunning
<1>7. ASSUME NEW d \in Dispatches,
             Heartbeat(d)
      PROVE  Removal
  BY <1>7, TypeOK
     DEF TypeOK, Removal, Resolved, Heartbeat
<1>8. ASSUME NEW d \in Dispatches,
             NEW o \in {"running", "waiting", "gone", "unknown"},
             ReconcileLiveness(d, o)
      PROVE  Removal
  BY <1>8, TypeOK
     DEF TypeOK, Removal, Resolved, ReconcileLiveness
<1>9. ASSUME NEW d \in Dispatches,
             WorkerDone(d)
      PROVE  Removal
  BY <1>9, TypeOK
     DEF TypeOK, Removal, Resolved, WorkerDone
<1>10. ASSUME NEW d \in Dispatches, NEW g \in Gates,
             WorkerDoneMerge(d, g)
      PROVE  Removal
  BY <1>10, TypeOK
     DEF TypeOK, Removal, Resolved, CreateGateRecord, WorkerDoneMerge
<1>11. ASSUME NEW d \in Dispatches,
             PaneExit(d)
      PROVE  Removal
  BY <1>11, TypeOK
     DEF TypeOK, Removal, Resolved, PaneExit
<1>12. ASSUME NEW d \in Dispatches,
             ReleasePane(d)
      PROVE  Removal
  BY <1>12, TypeOK
     DEF TypeOK, Removal, Resolved, ReleasePane
<1>13. ASSUME NEW g \in Gates, NEW type \in GateTypes,
             NEW d \in Dispatches \cup {NoDispatch},
             CreateGate(g, type, d)
      PROVE  Removal
  BY <1>13, TypeOK
     DEF TypeOK, Removal, Resolved, CreateGateRecord, CreateGate
<1>14. ASSUME NEW g \in Gates,
             ResolveDecision(g)
      PROVE  Removal
  BY <1>14, TypeOK
     DEF TypeOK, Removal, Resolved, ResolveDecision
<1>15. ASSUME NEW g \in Gates, NEW decision \in {"approve", "reject"},
             ResolveMergeOrCleanup(g, decision)
      PROVE  Removal
  BY <1>15, TypeOK
     DEF TypeOK, Removal, Resolved, ResolveMergeOrCleanup
<1>16. ASSUME NEW g \in Gates, NEW h \in Gates,
             MarkMergeApplied(g, h)
      PROVE  Removal
  BY <1>16, TypeOK
     DEF TypeOK, Removal, Resolved, MarkMergeApplied, Approved
<1>17. ASSUME NEW g \in Gates,
             AuthorizeMerge(g)
      PROVE  Removal
  BY <1>17, TypeOK
     DEF TypeOK, Removal, Resolved, AuthorizeMerge, Approved
<1>18. ASSUME NEW g \in Gates,
             AuthorizeCleanup(g)
      PROVE  Removal
  BY <1>18, TypeOK
     DEF TypeOK, Removal, Resolved, AuthorizeCleanup, Approved
<1>19. ASSUME NEW g \in Gates,
             RemoveWorktree(g)
      PROVE  Removal
  BY <1>19, TypeOK
     DEF TypeOK, Removal, Resolved, RemoveWorktree
<1>20. ASSUME NEW g \in Gates,
             MarkCleanupApplied(g)
      PROVE  Removal
  BY <1>20, TypeOK
     DEF TypeOK, Removal, Resolved, MarkCleanupApplied
<1>21. ASSUME NEW g \in Gates,
             Abandon(g)
      PROVE  Removal
  BY <1>21, TypeOK
     DEF TypeOK, Removal, Resolved, Abandon
<1>22. ASSUME NEW t \in Tasks, NEW status \in TaskStatus,
             UpdateTask(t, status)
      PROVE  Removal
  BY <1>22, TypeOK
     DEF TypeOK, Removal, Resolved, UpdateTask
<1>23. ASSUME NEW t \in Tasks,
             RetryTask(t)
      PROVE  Removal
  BY <1>23, TypeOK
     DEF TypeOK, Removal, Resolved, RetryTask
<1>24. CASE AcceptRun
  BY <1>24, TypeOK
     DEF TypeOK, Removal, Resolved, AcceptRun
<1>25. CASE CancelRun
  BY <1>25, TypeOK
     DEF TypeOK, Removal, Resolved, CancelEntities, CancelRun
<1>26. CASE RejectRun
  BY <1>26, TypeOK
     DEF TypeOK, Removal, Resolved, CancelEntities, RejectRun
<1>27. ASSUME NEW late \in SUBSET Gates,
             DaemonRestart(late)
      PROVE  Removal
  BY <1>27, TypeOK
     DEF TypeOK, Removal, Resolved, ActiveIn, DaemonRestart
<1>28. CASE UNCHANGED vars
  BY <1>28, TypeOK
     DEF TypeOK, Removal, Resolved, vars
<1>29. QED
  BY <1>1, <1>2, <1>3, <1>4, <1>5, <1>6, <1>7, <1>8, <1>9,
     <1>10, <1>11, <1>12, <1>13, <1>14, <1>15, <1>16, <1>17, <1>18, <1>19,
     <1>20, <1>21, <1>22, <1>23, <1>24, <1>25, <1>26, <1>27, <1>28
     DEF Next

\* The approvals outlive every transaction.
LEMMA RemovalStep ==
    ASSUME TypeOK, RemovalInv, [Next]_vars
    PROVE  RemovalInv'
<1>1. Removal
  BY RemovalChange
<1>2. ASSUME NEW g \in Gates, gate[g].status = "resolved"
      PROVE  /\ gate'[g].type = gate[g].type /\ gate'[g].dispatch = gate[g].dispatch
             /\ gate'[g].status = "resolved" /\ gate'[g].decision = gate[g].decision
             /\ gate[g].applied => gate'[g].applied
  <2>1. gate[g] \in GateRecord
    BY TypeOK DEF TypeOK
  <2>2. gate'[g] = gate[g] \/ gate'[g] = [gate[g] EXCEPT !.applied = TRUE]
    BY <1>1, <1>2 DEF Removal
  <2>3. QED
    BY <1>2, <2>1, <2>2 DEF GateRecord
<1>3. ASSUME NEW d \in Dispatches,
             \E m \in Gates : Resolved(m, "merge", d) /\ gate[m].applied
      PROVE  \E m \in Gates : (Resolved(m, "merge", d) /\ gate[m].applied)'
  BY <1>2, <1>3 DEF Resolved
<1>4. ASSUME NEW d \in Dispatches, \E g \in Gates : Resolved(g, "cleanup", d)
      PROVE  \E g \in Gates : Resolved(g, "cleanup", d)'
  BY <1>2, <1>4 DEF Resolved
<1>5. ASSUME NEW g \in applying'
      PROVE  g \in Gates /\ ApplyIsApproved(g)
  <2>1. g \in Gates
    BY TypeStep DEF TypeOK
  <2>2. CASE g \in applying
    BY <2>1, <2>2 DEF RemovalInv
  <2>3. CASE AuthorizeMerge(g)
    BY <2>1, <2>3 DEF AuthorizeMerge, Approved, ApplyIsApproved
  <2>4. CASE AuthorizeCleanup(g)
    BY <2>1, <2>4
       DEF AuthorizeCleanup, Approved, MergeApplied, Resolved, ApplyIsApproved
  <2>5. QED
    BY <1>1, <2>2, <2>3, <2>4 DEF Removal
<1>6. \A g \in applying' : ApplyIsApproved(g)'
  <2>1. SUFFICES ASSUME NEW g \in applying' PROVE ApplyIsApproved(g)'
    OBVIOUS
  <2>2. /\ gate'[g].type = gate[g].type /\ gate'[g].dispatch = gate[g].dispatch
        /\ gate'[g].status = "resolved" /\ gate'[g].decision = "approve"
    BY <1>2, <1>5 DEF ApplyIsApproved
  <2>3. CASE gate[g].type = "cleanup"
    <3>1. PICK m \in Gates : Resolved(m, "merge", gate[g].dispatch) /\ gate[m].applied
      BY <1>5, <2>3 DEF ApplyIsApproved
    <3>2. /\ gate'[m].type = "merge" /\ gate'[m].dispatch = gate'[g].dispatch
          /\ gate'[m].status = "resolved" /\ gate'[m].decision = "approve"
          /\ gate'[m].applied
      BY <1>2, <2>2, <3>1 DEF Resolved
    <3>3. QED
      BY <1>5, <2>2, <3>2 DEF Resolved, ApplyIsApproved
  <2>4. CASE gate[g].type # "cleanup"
    BY <1>5, <2>2, <2>4 DEF ApplyIsApproved
  <2>5. QED
    BY <2>3, <2>4
<1>7. RemovalWasApproved'
  <2>1. SUFFICES ASSUME NEW d \in Dispatches, worktree'[d] = "removed"
                 PROVE  /\ \E m \in Gates : (Resolved(m, "merge", d) /\ gate[m].applied)'
                        /\ \E g \in Gates : Resolved(g, "cleanup", d)'
    BY DEF RemovalWasApproved, Resolved
  <2>2. CASE worktree[d] = "removed"
    <3>1. /\ \E m \in Gates : Resolved(m, "merge", d) /\ gate[m].applied
          /\ \E g \in Gates : Resolved(g, "cleanup", d)
      BY <2>2 DEF RemovalInv, RemovalWasApproved, Resolved
    <3>2. QED
      BY <1>3, <1>4, <3>1
  <2>3. CASE \E g \in applying : gate[g].type = "cleanup" /\ gate[g].dispatch = d
    <3>1. PICK g \in applying : gate[g].type = "cleanup" /\ gate[g].dispatch = d
      BY <2>3
    <3>2. g \in Gates /\ ApplyIsApproved(g)
      BY TypeOK DEF RemovalInv, TypeOK
    <3>3. Resolved(g, "cleanup", d)
      BY <3>1, <3>2 DEF ApplyIsApproved, Resolved
    <3>4. \E m \in Gates : Resolved(m, "merge", d) /\ gate[m].applied
      BY <3>1, <3>2 DEF ApplyIsApproved
    <3>5. QED
      BY <1>3, <1>4, <3>2, <3>3, <3>4
  <2>4. QED
    BY <1>1, <2>1, <2>2, <2>3 DEF Removal
<1>8. QED
  BY <1>6, <1>7 DEF RemovalInv

(***************************************************************************)
(* A worktree is gone only after its merge was approved and applied and    *)
(* its removal was approved.                                               *)
(***************************************************************************)
THEOREM RemovalsApproved == Spec => []RemovalWasApproved
<1>1. Init => RemovalInv
  BY DEF Init, RemovalInv, RemovalWasApproved
<1>2. TypeOK /\ RemovalInv /\ [Next]_vars => RemovalInv'
  BY RemovalStep
<1>3. RemovalInv => RemovalWasApproved
  BY DEF RemovalInv
<1>4. QED
  BY <1>1, <1>2, <1>3, TypeCorrect, PTL DEF Spec
=============================================================================
