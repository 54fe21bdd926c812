------------------------- MODULE CoordinatorProofs -------------------------
(***************************************************************************)
(* What holds of the coordinator for any number of tasks, attempts and     *)
(* gates and any policy: the types of its rows, the finality of verdicts,  *)
(* the concurrency cap, and with them the refinement of DispatchSlots.     *)
(* They rest on two facts about one step: only a scheduling pass inserts   *)
(* dispatches (PassStep), and every other transaction changes active ones  *)
(* only (NoPassStep).                                                      *)
(***************************************************************************)
EXTENDS Coordinator, FiniteSetTheorems, TLAPS

\* A gate whose effect has been applied, or that is cancelled, is a gate.
LEMMA AppliedGate ==
    ASSUME NEW g \in Gates, gate \in [Gates -> GateRecord]
    PROVE  [gate EXCEPT ![g].applied = TRUE] \in [Gates -> GateRecord]
<1>1. [gate EXCEPT ![g].applied = TRUE] = [gate EXCEPT ![g] = [gate[g] EXCEPT !.applied = TRUE]]
  OBVIOUS
<1>2. [gate[g] EXCEPT !.applied = TRUE] \in GateRecord
  BY DEF GateRecord
<1>3. QED
  BY <1>1, <1>2

\* So is what a cancelled or rejected run leaves behind.
LEMMA CancelledType ==
    ASSUME TypeOK, CancelEntities
    PROVE  TypeOK'
<1>1. task' \in [Tasks -> TaskStatus]
  BY DEF TypeOK, CancelEntities, TaskStatus
<1>2. disp' \in [Dispatches -> DispatchStatus]
  BY DEF TypeOK, CancelEntities, DispatchStatus
<1>3. agent' \in [Dispatches -> AgentStatus]
  BY DEF TypeOK, CancelEntities, AgentStatus
<1>4. gate' \in [Gates -> GateRecord]
  <2>1. \A g \in Gates : [gate[g] EXCEPT !.status = "cancelled"] \in GateRecord
    BY DEF TypeOK, GateRecord
  <2>2. QED
    BY <2>1 DEF TypeOK, CancelEntities
<1>5. run' \in RunStatus
  BY DEF CancelEntities, RunStatus
<1>6. QED
  BY <1>1, <1>2, <1>3, <1>4, <1>5 DEF TypeOK, CancelEntities

\* refresh_terminal_run_status writes a status the run column may hold.
LEMMA RefreshedType ==
    ASSUME NEW r \in RunStatus, NEW ts, NEW ds, NEW gs
    PROVE  RefreshedRun(r, ts, ds, gs) \in RunStatus
  BY DEF RefreshedRun, RunStatus

\* Every transaction of the service writes values of the declared types.
LEMMA TypeStep == ASSUME TypeOK, [Next]_vars PROVE TypeOK'
<1>1. CASE StartRun
  BY <1>1, TypeOK
     DEF TypeOK, StartRun, RunStatus
<1>2. ASSUME NEW t \in Tasks, NEW ds \in SUBSET Tasks,
             CreateTask(t, ds)
      PROVE  TypeOK'
  BY <1>2, TypeOK
     DEF TypeOK, CreateTask, TaskStatus
<1>3. ASSUME NEW claim \in Claims,
             Schedule(claim)
      PROVE  TypeOK'
  <2>1. PICK ts \in SettledTables, sel \in SUBSET Tasks :
               SchedulePass(claim, ts, sel)
    BY <1>3 DEF Schedule
  <2>2. run' \in RunStatus
    BY <2>1, TypeOK, RefreshedType DEF SchedulePass, TypeOK, RunStatus
  <2>3. ts \in [Tasks -> TaskStatus]
    BY TypeOK DEF TypeOK, SettledTables, TaskStatus
  <2>4. task' \in [Tasks -> TaskStatus]
    BY <2>1, <2>3 DEF SchedulePass, TaskStatus
  <2>5. NewDispatches(sel) \subseteq Dispatches
    BY DEF NewDispatches
  <2>6. disp' \in [Dispatches -> DispatchStatus] /\ claimed' \subseteq Dispatches
    BY <2>1, <2>5, TypeOK
       DEF SchedulePass, TypeOK, DispatchStatus, ActiveDispatch
  <2>7. QED
    BY <2>1, <2>2, <2>4, <2>6, TypeOK DEF SchedulePass, TypeOK
<1>4. ASSUME NEW d \in Dispatches, NEW w \in Worktrees,
             BindDispatch(d, w)
      PROVE  TypeOK'
  BY <1>4, TypeOK
     DEF TypeOK, BindDispatch, DispatchStatus, ActiveDispatch, AgentStatus, ActiveAgent
<1>5. ASSUME NEW d \in Dispatches,
             RecordLaunchFailure(d)
      PROVE  TypeOK'
  BY <1>5, TypeOK
     DEF TypeOK, RecordLaunchFailure, DispatchStatus, TaskStatus, AgentStatus
<1>6. ASSUME NEW d \in Dispatches,
             MarkDispatchRunning(d)
      PROVE  TypeOK'
  BY <1>6, TypeOK
     DEF TypeOK, MarkDispatchRunning, DispatchStatus, ActiveDispatch
<1>7. ASSUME NEW d \in Dispatches,
             Heartbeat(d)
      PROVE  TypeOK'
  BY <1>7, TypeOK
     DEF TypeOK, Heartbeat, DispatchStatus, ActiveDispatch
<1>8. ASSUME NEW d \in Dispatches,
             NEW o \in {"running", "waiting", "gone", "unknown"},
             ReconcileLiveness(d, o)
      PROVE  TypeOK'
  BY <1>8, TypeOK
     DEF TypeOK, ReconcileLiveness, DispatchStatus, ActiveDispatch, TaskStatus, AgentStatus
<1>9. ASSUME NEW d \in Dispatches,
             WorkerDone(d)
      PROVE  TypeOK'
  BY <1>9, TypeOK, RefreshedType
     DEF TypeOK, WorkerDone, DispatchStatus, TaskStatus, AgentStatus
<1>10. ASSUME NEW d \in Dispatches, NEW g \in Gates,
             WorkerDoneMerge(d, g)
      PROVE  TypeOK'
  BY <1>10, TypeOK
     DEF TypeOK, WorkerDoneMerge, RunStatus, DispatchStatus, TaskStatus, AgentStatus, GateRecord, AbsentGate,
              CreateGateRecord
<1>11. ASSUME NEW d \in Dispatches,
             PaneExit(d)
      PROVE  TypeOK'
  BY <1>11, TypeOK, RefreshedType
     DEF TypeOK, PaneExit, DispatchStatus, TaskStatus, AgentStatus
<1>12. ASSUME NEW d \in Dispatches,
             ReleasePane(d)
      PROVE  TypeOK'
  BY <1>12, TypeOK
     DEF TypeOK, ReleasePane, AgentStatus, ActiveAgent
<1>13. ASSUME NEW g \in Gates, NEW type \in GateTypes,
             NEW d \in Dispatches \cup {NoDispatch},
             CreateGate(g, type, d)
      PROVE  TypeOK'
  BY <1>13, TypeOK, ClientAssumption
     DEF TypeOK, CreateGate, RunStatus, DispatchStatus, ActiveDispatch, GateRecord, AbsentGate,
              CreateGateRecord
<1>14. ASSUME NEW g \in Gates,
             ResolveDecision(g)
      PROVE  TypeOK'
  <2>1. gate' \in [Gates -> GateRecord]
    BY <1>14, TypeOK DEF TypeOK, ResolveDecision, GateRecord
  <2>2. disp' \in [Dispatches -> DispatchStatus]
    BY <1>14, TypeOK
       DEF TypeOK, ResolveDecision, DispatchStatus, ActiveDispatch
  <2>3. run' \in RunStatus
    <3>1. "running" \in RunStatus
      BY DEF RunStatus
    <3>2. QED
      BY <1>14, <3>1, TypeOK, RefreshedType DEF TypeOK, ResolveDecision
  <2>4. QED
    BY <1>14, <2>1, <2>2, <2>3, TypeOK DEF TypeOK, ResolveDecision
<1>15. ASSUME NEW g \in Gates, NEW decision \in {"approve", "reject"},
             ResolveMergeOrCleanup(g, decision)
      PROVE  TypeOK'
  <2>1. gate' \in [Gates -> GateRecord]
    BY <1>15 DEF TypeOK, ResolveMergeOrCleanup, GateRecord
  <2>2. run' \in RunStatus
    BY <1>15, RefreshedType DEF TypeOK, ResolveMergeOrCleanup
  <2>3. QED
    BY <1>15, <2>1, <2>2 DEF TypeOK, ResolveMergeOrCleanup
<1>16. ASSUME NEW g \in Gates, NEW h \in Gates,
             MarkMergeApplied(g, h)
      PROVE  TypeOK'
  <2>1. [gate EXCEPT ![g].applied = TRUE] \in [Gates -> GateRecord]
    BY AppliedGate DEF TypeOK
  <2>2. gate[g].dispatch \in Dispatches
    BY <1>16 DEF MarkMergeApplied, Approved
  <2>3. [AbsentGate EXCEPT !.type = "cleanup", !.dispatch = gate[g].dispatch,
                           !.status = "pending"] \in GateRecord
    BY <2>2 DEF AbsentGate, GateRecord
  <2>4. gate' \in [Gates -> GateRecord]
    BY <1>16, <2>1, <2>3 DEF MarkMergeApplied, Approved
  <2>5. QED
    BY <1>16, <2>4, TypeOK DEF TypeOK, MarkMergeApplied, Approved, RunStatus
<1>17. ASSUME NEW g \in Gates,
             AuthorizeMerge(g)
      PROVE  TypeOK'
  BY <1>17, TypeOK DEF TypeOK, AuthorizeMerge, Approved
<1>18. ASSUME NEW g \in Gates,
             AuthorizeCleanup(g)
      PROVE  TypeOK'
  BY <1>18, TypeOK DEF TypeOK, AuthorizeCleanup, Approved
<1>19. ASSUME NEW g \in Gates,
             RemoveWorktree(g)
      PROVE  TypeOK'
  BY <1>19, TypeOK DEF TypeOK, RemoveWorktree, AgentStatus, ActiveAgent
<1>20. ASSUME NEW g \in Gates,
             MarkCleanupApplied(g)
      PROVE  TypeOK'
  <2>1. gate' \in [Gates -> GateRecord]
    BY <1>20, AppliedGate DEF TypeOK, MarkCleanupApplied
  <2>2. run' \in RunStatus
    BY <1>20, RefreshedType DEF TypeOK, MarkCleanupApplied
  <2>3. QED
    BY <1>20, <2>1, <2>2 DEF TypeOK, MarkCleanupApplied
<1>21. ASSUME NEW g \in Gates,
             Abandon(g)
      PROVE  TypeOK'
  BY <1>21, TypeOK DEF TypeOK, Abandon
<1>22. ASSUME NEW t \in Tasks, NEW status \in TaskStatus,
             UpdateTask(t, status)
      PROVE  TypeOK'
  BY <1>22, TypeOK
     DEF TypeOK, UpdateTask, TaskStatus
<1>23. ASSUME NEW t \in Tasks,
             RetryTask(t)
      PROVE  TypeOK'
  BY <1>23, TypeOK
     DEF TypeOK, RetryTask, TaskStatus, RunStatus
<1>24. CASE AcceptRun
  BY <1>24, TypeOK
     DEF TypeOK, AcceptRun, RunStatus
<1>25. CASE CancelRun
  BY <1>25, TypeOK, CancelledType DEF CancelRun
<1>26. CASE RejectRun
  BY <1>26, TypeOK, CancelledType DEF RejectRun
<1>27. ASSUME NEW late \in SUBSET Gates,
             DaemonRestart(late)
      PROVE  TypeOK'
  <2>1. disp' \in [Dispatches -> DispatchStatus]
    BY <1>27, TypeOK DEF TypeOK, DaemonRestart, DispatchStatus
  <2>2. task' \in [Tasks -> TaskStatus]
    BY <1>27, TypeOK DEF TypeOK, DaemonRestart, TaskStatus
  <2>3. agent' \in [Dispatches -> AgentStatus]
    BY <1>27, TypeOK DEF TypeOK, DaemonRestart, AgentStatus, ActiveAgent
  <2>4. gate' \in [Gates -> GateRecord]
    <3>1. \A g \in Gates : [gate[g] EXCEPT !.status = "timeout"] \in GateRecord
      BY TypeOK DEF TypeOK, GateRecord
    <3>2. QED
      BY <1>27, <3>1, TypeOK DEF TypeOK, DaemonRestart
  <2>5. run' \in RunStatus
    BY <1>27, TypeOK, RefreshedType DEF TypeOK, DaemonRestart
  <2>6. QED
    BY <1>27, <2>1, <2>2, <2>3, <2>4, <2>5, TypeOK DEF TypeOK, DaemonRestart
<1>28. CASE UNCHANGED vars
  BY <1>28, TypeOK DEF TypeOK, vars
<1>29. QED
  BY <1>1, <1>2, <1>3, <1>4, <1>5, <1>6, <1>7, <1>8, <1>9,
     <1>10, <1>11, <1>12, <1>13, <1>14, <1>15, <1>16, <1>17, <1>18, <1>19,
     <1>20, <1>21, <1>22, <1>23, <1>24, <1>25, <1>26, <1>27, <1>28
     DEF Next
-----------------------------------------------------------------------------
(* What a step does to the dispatch table. *)

\* Only active dispatches change, and a dispatch is never deleted.
OnlyActiveChange ==
    \A d \in Dispatches :
        \/ disp'[d] = disp[d]
        \/ disp[d] \in ActiveDispatch /\ disp'[d] # "absent"

\* Every transaction but a scheduling pass (bind_dispatch to the restart
\* reconciliation) leaves finished and absent dispatches as they are.
LEMMA NoPassStep ==
    ASSUME TypeOK, [Next]_vars, \A claim \in Claims : ~Schedule(claim)
    PROVE  OnlyActiveChange
<1>1. CASE StartRun
  BY <1>1, TypeOK DEF TypeOK, OnlyActiveChange, StartRun
<1>2. ASSUME NEW t \in Tasks, NEW ds \in SUBSET Tasks,
             CreateTask(t, ds)
      PROVE  OnlyActiveChange
  BY <1>2, TypeOK DEF TypeOK, OnlyActiveChange, CreateTask
<1>3. ASSUME NEW claim \in Claims,
             Schedule(claim)
      PROVE  OnlyActiveChange
  BY <1>3
<1>4. ASSUME NEW d \in Dispatches, NEW w \in Worktrees,
             BindDispatch(d, w)
      PROVE  OnlyActiveChange
  BY <1>4, TypeOK DEF TypeOK, OnlyActiveChange, BindDispatch, ActiveDispatch
<1>5. ASSUME NEW d \in Dispatches,
             RecordLaunchFailure(d)
      PROVE  OnlyActiveChange
  BY <1>5, TypeOK DEF TypeOK, OnlyActiveChange, RecordLaunchFailure, ActiveDispatch
<1>6. ASSUME NEW d \in Dispatches,
             MarkDispatchRunning(d)
      PROVE  OnlyActiveChange
  BY <1>6, TypeOK DEF TypeOK, OnlyActiveChange, MarkDispatchRunning, ActiveDispatch
<1>7. ASSUME NEW d \in Dispatches,
             Heartbeat(d)
      PROVE  OnlyActiveChange
  BY <1>7, TypeOK DEF TypeOK, OnlyActiveChange, Heartbeat, ActiveDispatch
<1>8. ASSUME NEW d \in Dispatches,
             NEW o \in {"running", "waiting", "gone", "unknown"},
             ReconcileLiveness(d, o)
      PROVE  OnlyActiveChange
  BY <1>8, TypeOK DEF TypeOK, OnlyActiveChange, ReconcileLiveness, ActiveDispatch, BoundDispatch
<1>9. ASSUME NEW d \in Dispatches,
             WorkerDone(d)
      PROVE  OnlyActiveChange
  BY <1>9, TypeOK DEF TypeOK, OnlyActiveChange, WorkerDone, ActiveDispatch
<1>10. ASSUME NEW d \in Dispatches, NEW g \in Gates,
             WorkerDoneMerge(d, g)
      PROVE  OnlyActiveChange
  BY <1>10, TypeOK DEF TypeOK, OnlyActiveChange, WorkerDoneMerge, ActiveDispatch
<1>11. ASSUME NEW d \in Dispatches,
             PaneExit(d)
      PROVE  OnlyActiveChange
  BY <1>11, TypeOK DEF TypeOK, OnlyActiveChange, PaneExit, ActiveDispatch
<1>12. ASSUME NEW d \in Dispatches,
             ReleasePane(d)
      PROVE  OnlyActiveChange
  BY <1>12, TypeOK DEF TypeOK, OnlyActiveChange, ReleasePane
<1>13. ASSUME NEW g \in Gates, NEW type \in GateTypes,
             NEW d \in Dispatches \cup {NoDispatch},
             CreateGate(g, type, d)
      PROVE  OnlyActiveChange
  BY <1>13, TypeOK DEF TypeOK, OnlyActiveChange, CreateGate, ActiveDispatch
<1>14. ASSUME NEW g \in Gates,
             ResolveDecision(g)
      PROVE  OnlyActiveChange
  BY <1>14, TypeOK DEF TypeOK, OnlyActiveChange, ResolveDecision, ActiveDispatch
<1>15. ASSUME NEW g \in Gates, NEW decision \in {"approve", "reject"},
             ResolveMergeOrCleanup(g, decision)
      PROVE  OnlyActiveChange
  BY <1>15, TypeOK DEF TypeOK, OnlyActiveChange, ResolveMergeOrCleanup
<1>16. ASSUME NEW g \in Gates, NEW h \in Gates,
             MarkMergeApplied(g, h)
      PROVE  OnlyActiveChange
  BY <1>16, TypeOK DEF TypeOK, OnlyActiveChange, MarkMergeApplied, Approved
<1>17. ASSUME NEW g \in Gates,
             AuthorizeMerge(g)
      PROVE  OnlyActiveChange
  BY <1>17, TypeOK DEF TypeOK, OnlyActiveChange, AuthorizeMerge, Approved
<1>18. ASSUME NEW g \in Gates,
             AuthorizeCleanup(g)
      PROVE  OnlyActiveChange
  BY <1>18, TypeOK DEF TypeOK, OnlyActiveChange, AuthorizeCleanup, Approved
<1>19. ASSUME NEW g \in Gates,
             RemoveWorktree(g)
      PROVE  OnlyActiveChange
  BY <1>19, TypeOK DEF TypeOK, OnlyActiveChange, RemoveWorktree
<1>20. ASSUME NEW g \in Gates,
             MarkCleanupApplied(g)
      PROVE  OnlyActiveChange
  BY <1>20, TypeOK DEF TypeOK, OnlyActiveChange, MarkCleanupApplied
<1>21. ASSUME NEW g \in Gates,
             Abandon(g)
      PROVE  OnlyActiveChange
  BY <1>21, TypeOK DEF TypeOK, OnlyActiveChange, Abandon
<1>22. ASSUME NEW t \in Tasks, NEW status \in TaskStatus,
             UpdateTask(t, status)
      PROVE  OnlyActiveChange
  BY <1>22, TypeOK DEF TypeOK, OnlyActiveChange, UpdateTask
<1>23. ASSUME NEW t \in Tasks,
             RetryTask(t)
      PROVE  OnlyActiveChange
  BY <1>23, TypeOK DEF TypeOK, OnlyActiveChange, RetryTask
<1>24. CASE AcceptRun
  BY <1>24, TypeOK DEF TypeOK, OnlyActiveChange, AcceptRun
<1>25. CASE CancelRun
  BY <1>25, TypeOK DEF TypeOK, OnlyActiveChange, CancelRun, CancelEntities, ActiveDispatch
<1>26. CASE RejectRun
  BY <1>26, TypeOK DEF TypeOK, OnlyActiveChange, RejectRun, CancelEntities, ActiveDispatch
<1>27. ASSUME NEW late \in SUBSET Gates,
             DaemonRestart(late)
      PROVE  OnlyActiveChange
  BY <1>27, TypeOK DEF TypeOK, OnlyActiveChange, DaemonRestart, ActiveIn
<1>28. CASE UNCHANGED vars
  BY <1>28, TypeOK DEF TypeOK, OnlyActiveChange, vars
<1>29. QED
  BY <1>1, <1>2, <1>3, <1>4, <1>5, <1>6, <1>7, <1>8, <1>9,
     <1>10, <1>11, <1>12, <1>13, <1>14, <1>15, <1>16, <1>17, <1>18, <1>19,
     <1>20, <1>21, <1>22, <1>23, <1>24, <1>25, <1>26, <1>27, <1>28
     DEF Next

\* A pass inserts dispatches; those it inserts were absent.
LEMMA PassStep ==
    ASSUME TypeOK, NEW claim \in Claims, NEW ts \in SettledTables,
           NEW sel \in SUBSET Tasks, SchedulePass(claim, ts, sel)
    PROVE  \A d \in Dispatches :
               IF d \in NewDispatches(sel)
               THEN disp[d] = "absent" /\ disp'[d] = "pending"
               ELSE disp'[d] = disp[d]
<1>1. \A d \in NewDispatches(sel) : disp[d] = "absent"
  <2>1. SUFFICES ASSUME NEW d \in NewDispatches(sel), disp[d] # "absent"
                 PROVE  FALSE
    OBVIOUS
  <2>2. d \in Dispatches /\ NextAttempt(d.task, d.attempt)
    BY DEF NewDispatches
  <2>3. d.attempt < d.attempt
    BY <2>1, <2>2 DEF NextAttempt
  <2>4. d.attempt \in Int
    BY <2>2, BoundsAssumption DEF Dispatches
  <2>5. QED
    BY <2>3, <2>4
<1>2. QED
  BY <1>1 DEF SchedulePass

-----------------------------------------------------------------------------
(***************************************************************************)
(* Every reachable state has the types its tables declare.                 *)
(***************************************************************************)
THEOREM TypeCorrect == Spec => []TypeOK
<1>1. Init => TypeOK
  <2>1. AbsentGate \in GateRecord
    BY DEF AbsentGate, GateRecord
  <2>2. QED
    BY <2>1 DEF Init, TypeOK, RunStatus, TaskStatus, DispatchStatus,
                ActiveDispatch, AgentStatus
<1>2. TypeOK /\ [Next]_vars => TypeOK'
  BY TypeStep
<1>3. QED
  BY <1>1, <1>2, PTL DEF Spec

(***************************************************************************)
(* The verdict on a dispatch never changes, whatever transaction comes     *)
(* late: a step changes active dispatches or inserts absent ones.          *)
(***************************************************************************)
THEOREM VerdictFinal == Spec => VerdictIsFinal
<1>1. ASSUME TypeOK, [Next]_vars
      PROVE  [\A d \in Dispatches :
                disp[d] \notin ActiveDispatch \cup {"absent"}
                => disp'[d] = disp[d]]_vars
  <2>1. CASE \A claim \in Claims : ~Schedule(claim)
    <3>1. OnlyActiveChange
      BY <1>1, <2>1, NoPassStep
    <3>2. QED
      BY <3>1 DEF OnlyActiveChange
  <2>2. ASSUME NEW claim \in Claims, Schedule(claim)
        PROVE  \A d \in Dispatches :
                 disp[d] # "absent" => disp'[d] = disp[d]
    <3>1. PICK ts \in SettledTables, sel \in SUBSET Tasks :
                 SchedulePass(claim, ts, sel)
      BY <2>2 DEF Schedule
    <3>2. QED
      BY <1>1, <3>1, PassStep
  <2>3. QED
    BY <2>1, <2>2
<1>2. QED
  BY <1>1, TypeCorrect, PTL DEF Spec, VerdictIsFinal

-----------------------------------------------------------------------------
(* Counting dispatches. *)

\* The tasks a pass may select can be counted.
LEMMA TasksFinite ==
    /\ IsFiniteSet(Tasks)
    /\ \A sel \in SUBSET Tasks :
          IsFiniteSet(sel) /\ Cardinality(sel) \in Nat
<1>1. IsFiniteSet(1 .. MaxTasks)
  BY BoundsAssumption, FS_Interval
<1>2. IsFiniteSet(Tasks)
  BY <1>1 DEF Tasks
<1>3. QED
  BY <1>2, FS_Subset, FS_CardinalityType

\* There are finitely many (task, attempt) keys, so that the active
\* dispatches counted by schedule_ready_transaction have a number.
LEMMA DispatchesFinite == IsFiniteSet(Dispatches)
<1> DEFINE pairs == Tasks \X (1 .. MaxAttempts)
           name == [p \in pairs |-> [task |-> p[1], attempt |-> p[2]]]
<1>1. IsFiniteSet(pairs)
  <2>1. IsFiniteSet(1 .. MaxAttempts)
    BY BoundsAssumption, FS_Interval
  <2>2. QED
    BY <2>1, TasksFinite, FS_Product
<1>2. name \in Surjection(pairs, Dispatches)
  <2>1. \A p \in pairs : name[p] \in Dispatches
    BY DEF Dispatches
  <2>2. ASSUME NEW d \in Dispatches
        PROVE  \E p \in pairs : name[p] = d
    <3>1. <<d.task, d.attempt>> \in pairs
      BY DEF Dispatches
    <3>2. name[<<d.task, d.attempt>>] = d
      BY <3>1 DEF Dispatches
    <3>3. QED
      BY <3>1, <3>2
  <2>3. QED
    BY <2>1, <2>2 DEF Surjection
<1>3. QED
  BY <1>1, <1>2, FS_Surjection

\* A pass inserts at most one dispatch for each task it selects.
LEMMA OneNewDispatchPerTask ==
    ASSUME NEW sel \in SUBSET Tasks
    PROVE  /\ IsFiniteSet(NewDispatches(sel))
           /\ Cardinality(NewDispatches(sel)) <= Cardinality(sel)
<1> DEFINE new == NewDispatches(sel)
           taskOf == [d \in new |-> d.task]
<1>1. IsFiniteSet(sel)
  BY TasksFinite
<1>2. ASSUME NEW d \in new, NEW e \in new, d.task = e.task,
             d.attempt < e.attempt
      PROVE  FALSE
  <2>1. d \in Dispatches /\ e \in Dispatches
    BY DEF NewDispatches
  <2>2. d.attempt \in 1 .. MaxAttempts /\ e.attempt \in 1 .. MaxAttempts
    BY <2>1 DEF Dispatches
  <2>3. e.attempt # 1
    BY <1>2, <2>2, BoundsAssumption
  <2>4. PICK c \in Dispatches :
          c.task = e.task /\ disp[c] # "absent" /\ c.attempt = e.attempt - 1
    BY <2>3 DEF NewDispatches, NextAttempt
  <2>5. c.attempt < d.attempt
    BY <1>2, <2>4 DEF NewDispatches, NextAttempt
  <2>6. QED
    BY <1>2, <2>2, <2>4, <2>5, BoundsAssumption
<1>3. taskOf \in Injection(new, sel)
  <2>1. taskOf \in [new -> sel]
    BY DEF NewDispatches
  <2>2. ASSUME NEW d \in new, NEW e \in new, taskOf[d] = taskOf[e]
        PROVE  d = e
    <3>1. d \in Dispatches /\ e \in Dispatches
      BY DEF NewDispatches
    <3>2. d.attempt \in Int /\ e.attempt \in Int
      BY <3>1, BoundsAssumption DEF Dispatches
    <3>3. d.attempt = e.attempt
      BY <1>2, <2>2, <3>2
    <3>4. QED
      BY <2>2, <3>1, <3>3 DEF Dispatches
  <2>3. QED
    BY <2>1, <2>2 DEF Injection, IsInjective
<1>4. QED
  BY <1>1, <1>3, FS_Injection

\* The COUNT(*) over active dispatches is a natural number.
LEMMA ActiveFinite ==
    ASSUME NEW ds
    PROVE  IsFiniteSet(ActiveIn(ds)) /\ Cardinality(ActiveIn(ds)) \in Nat
<1>1. ActiveIn(ds) \in SUBSET Dispatches
  BY DEF ActiveIn
<1>2. QED
  BY <1>1, DispatchesFinite, FS_Subset, FS_CardinalityType

-----------------------------------------------------------------------------
(* policy.max_concurrent *)

\* A pass adds at most capacity dispatches to those it has counted, and no
\* other transaction makes a dispatch active: the cap survives every step.
LEMMA CapStep ==
    ASSUME TypeOK, ConcurrencyCap, [Next]_vars
    PROVE  ConcurrencyCap'
<1>1. CASE \A claim \in Claims : ~Schedule(claim)
  <2>1. OnlyActiveChange
    BY <1>1, NoPassStep
  <2>2. ActiveIn(disp') \in SUBSET ActiveIn(disp)
    BY <2>1 DEF OnlyActiveChange, ActiveIn
  <2>3. Cardinality(ActiveIn(disp')) <= Cardinality(ActiveIn(disp))
    BY <2>2, ActiveFinite, FS_Subset
  <2>4. QED
    BY <2>3, ActiveFinite, PolicyAssumption DEF ConcurrencyCap
<1>2. ASSUME NEW claim \in Claims, Schedule(claim)
      PROVE  ConcurrencyCap'
  <2>1. PICK ts \in SettledTables, sel \in SUBSET Tasks :
               SchedulePass(claim, ts, sel)
    BY <1>2 DEF Schedule
  <2> DEFINE new == NewDispatches(sel)
             old == ActiveIn(disp)
  <2>2. ActiveIn(disp') \in SUBSET (old \cup new)
    BY <2>1, PassStep DEF ActiveIn
  <2>3. Cardinality(sel) <= MaxConcurrent - Cardinality(old)
    <3>1. Cardinality(sel) <= Capacity
      BY <2>1 DEF SchedulePass, FirstReady
    <3>2. QED
      BY <3>1, ActiveFinite, PolicyAssumption
         DEF Capacity, ConcurrencyCap
  <2>4. IsFiniteSet(new) /\ Cardinality(new) <= Cardinality(sel)
    BY OneNewDispatchPerTask
  <2>5. IsFiniteSet(sel) /\ Cardinality(sel) \in Nat
    BY TasksFinite
  <2>6. /\ IsFiniteSet(old \cup new)
        /\ Cardinality(old \cup new) <= Cardinality(old) + Cardinality(new)
    <3>1. IsFiniteSet(old \cap new) /\ Cardinality(old \cap new) \in Nat
      BY <2>4, ActiveFinite, FS_Intersection, FS_CardinalityType
    <3>2. Cardinality(old) \in Nat /\ Cardinality(new) \in Nat
      BY <2>4, ActiveFinite, FS_CardinalityType
    <3>3. IsFiniteSet(old)
      BY ActiveFinite
    <3>4. /\ IsFiniteSet(old \cup new)
          /\ Cardinality(old \cup new)
                = Cardinality(old) + Cardinality(new) - Cardinality(old \cap new)
      BY <2>4, <3>3, FS_Union
    <3>5. QED
      BY <3>1, <3>2, <3>4
  <2>7. Cardinality(ActiveIn(disp')) <= Cardinality(old \cup new)
    BY <2>2, <2>6, FS_Subset
  <2>8. /\ Cardinality(old) \in Nat /\ Cardinality(new) \in Nat
        /\ Cardinality(old \cup new) \in Nat
        /\ Cardinality(ActiveIn(disp')) \in Nat
    BY <2>4, <2>6, ActiveFinite, FS_CardinalityType
  <2>9. QED
    BY <2>3, <2>4, <2>5, <2>6, <2>7, <2>8, PolicyAssumption
       DEF ConcurrencyCap
<1>3. QED
  BY <1>1, <1>2

(***************************************************************************)
(* No run ever has more active dispatches than policy.max_concurrent, for  *)
(* any number of tasks, attempts and gates.                                *)
(***************************************************************************)
THEOREM CapHolds == Spec => []ConcurrencyCap
<1>1. Init => ConcurrencyCap
  <2>1. SUFFICES ASSUME Init PROVE ConcurrencyCap
    OBVIOUS
  <2>2. ActiveIn(disp) = {}
    BY <2>1 DEF Init, ActiveIn, ActiveDispatch
  <2>3. QED
    BY <2>2, FS_EmptySet, PolicyAssumption DEF ConcurrencyCap
<1>2. TypeOK /\ ConcurrencyCap /\ [Next]_vars => ConcurrencyCap'
  BY CapStep
<1>3. QED
  BY <1>1, <1>2, TypeCorrect, PTL DEF Spec

-----------------------------------------------------------------------------
(* DispatchSlots *)

\* The dispatches that hold a slot are the active ones.
LEMMA InUseIsActive == ASSUME NEW ds
    PROVE  {d \in Dispatches : PhaseOf(ds[d]) = "in use"} = ActiveIn(ds)
  BY DEF PhaseOf, ActiveIn, ActiveDispatch

(***************************************************************************)
(* A scheduling pass that inserts dispatches is a step Begin of            *)
(* DispatchSlots; any other transaction that ends dispatches is a step End *)
(* of all it ends, and one that ends none changes no phase.                *)
(***************************************************************************)
LEMMA SlotsStep ==
    ASSUME TypeOK, ConcurrencyCap', [Next]_vars
    PROVE  [DS!Next]_Phase
<1>1. CASE \A claim \in Claims : ~Schedule(claim)
  <2> DEFINE done == {d \in Dispatches : /\ disp[d] \in ActiveDispatch
                                        /\ disp'[d] \notin ActiveDispatch}
  <2>1. OnlyActiveChange
    BY <1>1, NoPassStep
  <2>2. \A d \in Dispatches :
           PhaseOf(disp'[d]) = IF d \in done THEN "ended" ELSE PhaseOf(disp[d])
    BY <2>1 DEF OnlyActiveChange, PhaseOf, ActiveDispatch
  <2>3. CASE done = {}
    BY <2>2, <2>3 DEF Phase
  <2>4. CASE done # {}
    <3>1. \A d \in done : Phase[d] = "in use"
      BY DEF Phase, PhaseOf, ActiveDispatch
    <3>2. Phase' = [d \in Dispatches |->
                      IF d \in done THEN "ended" ELSE Phase[d]]
      BY <2>2 DEF Phase
    <3>3. DS!End(done)
      BY <2>4, <3>1, <3>2 DEF DS!End
    <3>4. done \in SUBSET Dispatches
      OBVIOUS
    <3>5. QED
      BY <3>3, <3>4 DEF DS!Next
  <2>5. QED
    BY <2>3, <2>4
<1>2. ASSUME NEW claim \in Claims, Schedule(claim)
      PROVE  [DS!Next]_Phase
  <2>1. PICK ts \in SettledTables, sel \in SUBSET Tasks :
               SchedulePass(claim, ts, sel)
    BY <1>2 DEF Schedule
  <2> DEFINE new == NewDispatches(sel)
  <2>2. \A d \in Dispatches :
           IF d \in new THEN disp[d] = "absent" /\ disp'[d] = "pending"
           ELSE disp'[d] = disp[d]
    BY <2>1, PassStep
  <2>3. new \in SUBSET Dispatches
    BY DEF NewDispatches
  <2> HIDE DEF new
  <2>4. CASE new = {}
    BY <2>2, <2>4 DEF Phase
  <2>5. CASE new # {}
    <3>1. \A d \in new : Phase[d] = "unused"
      BY <2>2, <2>3 DEF Phase, PhaseOf
    <3>2. Phase' = [d \in Dispatches |->
                      IF d \in new THEN "in use" ELSE Phase[d]]
      BY <2>2, <2>3 DEF Phase, PhaseOf, ActiveDispatch
    <3>3. DS!InUse(Phase') = ActiveIn(disp')
      <4>1. DS!InUse(Phase') = {d \in Dispatches : PhaseOf(disp'[d]) = "in use"}
        BY DEF DS!InUse, Phase
      <4>2. QED
        BY <4>1, InUseIsActive
    <3>4. DS!Cardinality(DS!InUse(Phase')) <= MaxConcurrent
      <4>1. DS!Cardinality(ActiveIn(disp')) = Cardinality(ActiveIn(disp'))
        BY DEF DS!Cardinality, Cardinality
      <4>2. QED
        BY <3>3, <4>1 DEF ConcurrencyCap
    <3>5. DS!Begin(new)
      BY <2>5, <3>1, <3>2, <3>4 DEF DS!Begin
    <3>6. QED
      BY <2>3, <3>5 DEF DS!Next
  <2>6. QED
    BY <2>4, <2>5
<1>3. QED
  BY <1>1, <1>2

(***************************************************************************)
(* The coordinator implements the allocation of attempts to slots, for any *)
(* number of tasks and attempts and any policy.                            *)
(***************************************************************************)
THEOREM SlotsImplemented == Spec => ImplementsSlots
<1>1. Init => DS!Init
  BY DEF Init, DS!Init, Phase, PhaseOf
<1>2. TypeOK /\ ConcurrencyCap' /\ [Next]_vars => [DS!Next]_Phase
  BY SlotsStep
<1>3. QED
  BY <1>1, <1>2, TypeCorrect, CapHolds, PTL
     DEF Spec, ImplementsSlots, DS!Spec
=============================================================================
