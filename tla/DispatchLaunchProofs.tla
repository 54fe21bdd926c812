------------------------ MODULE DispatchLaunchProofs ------------------------
(***************************************************************************)
(* What holds of the threads that start and stop workers, for any number   *)
(* of tasks: a dispatch has one worker, the start of the daemon and an     *)
(* accepted verdict leave none, and a finished launch leaves no claim      *)
(* open.                                                                   *)
(***************************************************************************)
EXTENDS DispatchLaunch, FiniteSetTheorems, WellFoundedInduction, TLAPS

-----------------------------------------------------------------------------
(* Types *)

\* First picks a member of the set it is given.
LEMMA FirstIsIn ==
    ASSUME NEW ds \in SUBSET Dispatches, ds # {}
    PROVE  First(ds) \in ds
<1> DEFINE positions == {d.task : d \in ds}
<1>1. \A d \in ds : d.task \in Nat
  BY LaunchAssumption DEF Dispatches, C!Dispatches, C!Tasks
<1>2. IsWellFoundedOn(OpToRel(<, Nat), Nat)
  BY NatLessThanWellFounded
<1>3. positions \subseteq Nat /\ positions # {}
  BY <1>1
<1>4. PICK n \in positions : \A m \in positions : ~ (<<m, n>> \in OpToRel(<, Nat))
  BY <1>2, <1>3, WFMin
<1>5. \A m \in positions : ~ (m < n)
  BY <1>3, <1>4 DEF OpToRel
<1>6. PICK d \in ds : d.task = n
  BY <1>4
<1>7. \A e \in ds : d.task <= e.task
  <2>1. \A e \in ds : ~ (e.task < d.task)
    BY <1>5, <1>6
  <2>2. QED
    BY <1>1, <2>1
<1>8. QED
  BY <1>7 DEF First

\* The transactions that threads make write values of the declared types.
RowsType ==
    /\ run \in C!RunStatus
    /\ task \in [C!Tasks -> C!TaskStatus]
    /\ deps \in [C!Tasks -> SUBSET C!Tasks]
    /\ disp \in [Dispatches -> C!DispatchStatus]
    /\ claimed \subseteq Dispatches
    /\ launchFailed \subseteq Dispatches
    /\ agent \in [Dispatches -> C!AgentStatus]
    /\ worktree \in [Dispatches -> {"none", "held", "removed"}]
    /\ gate \in [C!Gates -> C!GateRecord]
    /\ applying \subseteq C!Gates
    /\ overridden \subseteq C!Tasks

\* The transactions that the threads make, but for the scheduling pass.
Transaction ==
    \/ \E d \in Dispatches :
          \/ \E w \in BOOLEAN : C!BindDispatch(d, w)
          \/ C!RecordLaunchFailure(d) \/ C!PaneExit(d) \/ C!ReleasePane(d)
    \/ C!CancelRun \/ C!RejectRun
    \/ C!DaemonRestart({})
    \/ UNCHANGED rows

LEMMA RefreshedType ==
    ASSUME NEW r \in C!RunStatus, NEW ts, NEW ds, NEW gs
    PROVE  C!RefreshedRun(r, ts, ds, gs) \in C!RunStatus
  BY DEF C!RefreshedRun, C!RunStatus

LEMMA DispatchTask == \A d \in Dispatches : d.task \in C!Tasks
  BY DEF Dispatches, C!Dispatches

\* What a thread is doing agrees with what it is doing it to, and nothing runs
\* while the daemon is down.  A recorded pane has a row that says so.
Links ==
    /\ ~ up => launch.step = "idle" /\ stop.step = "idle" /\ entries = {} /\ exits = {}
    /\ IF launch.step \in {"idle", "next"} THEN launch.d = C!NoDispatch
       ELSE launch.d \in Dispatches
    /\ launch.step = "idle" => launch.todo = {}
    /\ launch.step \notin {"idle", "next", "reserve", "failing"} => res[launch.d].row
    /\ \A w \in {"launch", "stop"} : job[w].step # "idle" => job[w].d \in Dispatches
    /\ IF launch.step = "failing" THEN job["launch"].d = launch.d
       ELSE job["launch"].step = "idle"
    /\ stop.step # "cleaning" => job["stop"].step = "idle"
    /\ \A d \in Dispatches :
          res[d].pane => res[d].row /\ res[d].state \in {"live", "cleanup_failed"}

\* Every transaction keeps the types of the rows.
LEMMA RowsTypeKept ==
    ASSUME RowsType, Transaction \/ C!Schedule(TRUE)
    PROVE  RowsType'
<1>1. CASE C!Schedule(TRUE)
  <2>1. PICK ts \in C!SettledTables, sel \in SUBSET C!Tasks :
               C!SchedulePass(TRUE, ts, sel)
    BY <1>1 DEF C!Schedule
  <2>2. run' \in C!RunStatus
    BY <2>1, RefreshedType DEF C!SchedulePass, RowsType, C!RunStatus
  <2>3. ts \in [C!Tasks -> C!TaskStatus]
    BY DEF RowsType, C!SettledTables, C!TaskStatus
  <2>4. task' \in [C!Tasks -> C!TaskStatus]
    BY <2>1, <2>3 DEF C!SchedulePass, C!TaskStatus
  <2>5. C!NewDispatches(sel) \subseteq Dispatches
    BY DEF C!NewDispatches, Dispatches
  <2>6. disp' \in [Dispatches -> C!DispatchStatus] /\ claimed' \subseteq Dispatches
    BY <2>1, <2>5 DEF C!SchedulePass, RowsType, C!DispatchStatus, C!ActiveDispatch, Dispatches
  <2>7. QED
    BY <2>1, <2>2, <2>4, <2>6 DEF C!SchedulePass, RowsType
<1>2. ASSUME NEW d \in Dispatches, NEW w \in BOOLEAN, C!BindDispatch(d, w)
      PROVE  RowsType'
  BY <1>2 DEF RowsType, C!BindDispatch, C!DispatchStatus, C!ActiveDispatch, C!AgentStatus, C!ActiveAgent
<1>3. ASSUME NEW d \in Dispatches, C!RecordLaunchFailure(d)
      PROVE  RowsType'
  BY <1>3, DispatchTask
     DEF RowsType, C!RecordLaunchFailure, C!DispatchStatus, C!TaskStatus, C!AgentStatus
<1>4. ASSUME NEW d \in Dispatches, C!PaneExit(d)
      PROVE  RowsType'
  BY <1>4, DispatchTask, RefreshedType
     DEF RowsType, C!PaneExit, C!DispatchStatus, C!TaskStatus, C!AgentStatus
<1>5. ASSUME NEW d \in Dispatches, C!ReleasePane(d)
      PROVE  RowsType'
  BY <1>5 DEF RowsType, C!ReleasePane, C!AgentStatus, C!ActiveAgent
<1>6. CASE C!CancelRun \/ C!RejectRun
  <2>1. C!CancelEntities
    BY <1>6 DEF C!CancelRun, C!RejectRun
  <2>2. disp' \in [Dispatches -> C!DispatchStatus] /\ agent' \in [Dispatches -> C!AgentStatus]
    BY <2>1 DEF C!CancelEntities, RowsType, C!DispatchStatus, C!AgentStatus, Dispatches
  <2>3. task' \in [C!Tasks -> C!TaskStatus] /\ run' \in C!RunStatus
    BY <2>1 DEF C!CancelEntities, RowsType, C!TaskStatus, C!RunStatus
  <2>4. gate' \in [C!Gates -> C!GateRecord]
    <3>1. \A g \in C!Gates : [gate[g] EXCEPT !.status = "cancelled"] \in C!GateRecord
      BY DEF RowsType, C!GateRecord
    <3>2. QED
      BY <2>1, <3>1 DEF C!CancelEntities, RowsType
  <2>5. QED
    BY <2>1, <2>2, <2>3, <2>4 DEF C!CancelEntities, RowsType
<1>7. CASE C!DaemonRestart({})
  <2>1. disp' \in [Dispatches -> C!DispatchStatus]
    BY <1>7 DEF RowsType, C!DaemonRestart, C!DispatchStatus, Dispatches
  <2>2. task' \in [C!Tasks -> C!TaskStatus]
    BY <1>7 DEF RowsType, C!DaemonRestart, C!TaskStatus
  <2>3. agent' \in [Dispatches -> C!AgentStatus]
    BY <1>7 DEF RowsType, C!DaemonRestart, C!AgentStatus, C!ActiveAgent, Dispatches
  <2>4. gate' \in [C!Gates -> C!GateRecord]
    BY <1>7 DEF RowsType, C!DaemonRestart
  <2>5. run' \in C!RunStatus
    BY <1>7, RefreshedType DEF RowsType, C!DaemonRestart
  <2>6. QED
    BY <1>7, <2>1, <2>2, <2>3, <2>4, <2>5 DEF RowsType, C!DaemonRestart
<1>8. CASE UNCHANGED rows
  BY <1>8 DEF RowsType, rows
<1>9. QED
  BY <1>1, <1>2, <1>3, <1>4, <1>5, <1>6, <1>7, <1>8 DEF Transaction

\* A new launch operation begins with a scheduling pass.
NewLaunch == PrepareLaunch /\ op = "none" /\ C!Schedule(TRUE)

\* Some agents lose their panes and nothing else changes.
DetachOnly ==
    /\ UNCHANGED <<run, task, deps, disp, claimed, launchFailed, worktree,
                   gate, applying, overridden>>
    /\ \E stopped \in SUBSET Dispatches :
          agent' = [d \in Dispatches |->
                      IF d \in stopped /\ agent[d] = "attached"
                      THEN "detached" ELSE agent[d]]

\* Every step makes one of these transactions at most; the start of a daemon
\* that is not to serve requests yet writes the agents alone.
LEMMA StepTransaction ==
    ASSUME TypeOK, Links, [Next]_vars
    PROVE  \/ Transaction
           \/ DetachOnly
           \/ NewLaunch
<1>1. CASE PrepareLaunch
  BY <1>1 DEF Transaction, NewLaunch, PrepareLaunch
<1>2. CASE NextDispatch
  BY <1>2 DEF Transaction, NextDispatch
<1>3. ASSUME NEW d \in Dispatches, NEW inWorktree \in Worktrees, ReserveResources(d, inWorktree)
      PROVE  Transaction \/ DetachOnly \/ NewLaunch
  BY <1>3 DEF Transaction, ReserveResources
<1>4. ASSUME NEW d \in Dispatches, RecordPane(d, "record", "spawn")
      PROVE  Transaction \/ DetachOnly \/ NewLaunch
  BY <1>4 DEF Transaction, RecordPane
<1>5. ASSUME NEW d \in Dispatches, SpawnWorker(d)
      PROVE  Transaction \/ DetachOnly \/ NewLaunch
  BY <1>5 DEF Transaction, SpawnWorker
<1>6. ASSUME NEW d \in Dispatches, InsertPane(d)
      PROVE  Transaction \/ DetachOnly \/ NewLaunch
  BY <1>6 DEF Transaction, InsertPane
<1>7. ASSUME NEW d \in Dispatches, IdentifyWorker(d)
      PROVE  Transaction \/ DetachOnly \/ NewLaunch
  BY <1>7 DEF Transaction, IdentifyWorker
<1>8. ASSUME NEW d \in Dispatches, RecordPane(d, "capture", "check")
      PROVE  Transaction \/ DetachOnly \/ NewLaunch
  BY <1>8 DEF Transaction, RecordPane
<1>9. ASSUME NEW d \in Dispatches, CheckPane(d)
      PROVE  Transaction \/ DetachOnly \/ NewLaunch
  BY <1>9 DEF Transaction, CheckPane
<1>10. ASSUME NEW d \in Dispatches, BindWorker(d)
      PROVE  Transaction \/ DetachOnly \/ NewLaunch
  <2>1. res[d].worktree \in BOOLEAN
    BY TypeOK DEF TypeOK, Resource
  <2>2. C!BindDispatch(d, res[d].worktree) \/ UNCHANGED rows
    BY <1>10 DEF BindWorker
  <2>3. QED
    BY <2>1, <2>2 DEF Transaction
<1>11. ASSUME NEW d \in Dispatches, LaunchFailed(d)
      PROVE  Transaction \/ DetachOnly \/ NewLaunch
  BY <1>11 DEF Transaction, LaunchFailed
<1>12. ASSUME NEW d \in Dispatches, LaunchError(d)
      PROVE  Transaction \/ DetachOnly \/ NewLaunch
  BY <1>12 DEF Transaction, LaunchError
<1>13. ASSUME NEW persisted \in BOOLEAN, CompleteLaunch(persisted)
      PROVE  Transaction \/ DetachOnly \/ NewLaunch
  BY <1>13 DEF Transaction, CompleteLaunch
<1>14. ASSUME NEW w \in {"launch", "stop"}, MarkCleanup(w)
      PROVE  Transaction \/ DetachOnly \/ NewLaunch
  BY <1>14 DEF Transaction, MarkCleanup
<1>15. ASSUME NEW w \in {"launch", "stop"}, ClosePane(w)
      PROVE  Transaction \/ DetachOnly \/ NewLaunch
  BY <1>15 DEF Transaction, ClosePane
<1>16. ASSUME NEW w \in {"launch", "stop"}, KillWorkers(w)
      PROVE  Transaction \/ DetachOnly \/ NewLaunch
  BY <1>16 DEF Transaction, KillWorkers
<1>17. ASSUME NEW w \in {"launch", "stop"}, RecordCleanup(w)
      PROVE  Transaction \/ DetachOnly \/ NewLaunch
  <2>1. job[w].step # "idle"
    BY <1>17 DEF RecordCleanup, At
  <2>2. job[w].d \in Dispatches
    BY <1>17, <2>1 DEF Links
  <2>3. C!ReleasePane(job[w].d) \/ UNCHANGED rows
    BY <1>17 DEF RecordCleanup
  <2>4. QED
    BY <2>2, <2>3 DEF Transaction
<1>18. ASSUME NEW kind \in Verdicts, RequestVerdict(kind)
      PROVE  Transaction \/ DetachOnly \/ NewLaunch
  BY <1>18 DEF Transaction, RequestVerdict, StartStop
<1>19. ASSUME NEW d \in Dispatches, RequestCleanup(d)
      PROVE  Transaction \/ DetachOnly \/ NewLaunch
  BY <1>19 DEF Transaction, RequestCleanup, StartStop
<1>20. CASE NextTarget
  BY <1>20 DEF Transaction, NextTarget
<1>21. CASE TargetDone
  BY <1>21 DEF Transaction, TargetDone
<1>22. ASSUME NEW persisted \in BOOLEAN, FinishStop(persisted)
      PROVE  Transaction \/ DetachOnly \/ NewLaunch
  BY <1>22 DEF Transaction, FinishStop
<1>23. ASSUME NEW d \in Dispatches, WorkerExits(d)
      PROVE  Transaction \/ DetachOnly \/ NewLaunch
  BY <1>23 DEF Transaction, WorkerExits
<1>24. ASSUME NEW d \in Dispatches, MarkExited(d)
      PROVE  Transaction \/ DetachOnly \/ NewLaunch
  BY <1>24 DEF Transaction, MarkExited
<1>25. ASSUME NEW d \in Dispatches, RecordPaneExit(d)
      PROVE  Transaction \/ DetachOnly \/ NewLaunch
  BY <1>25 DEF Transaction, RecordPaneExit
<1>26. ASSUME NEW t \in Edits, UpdateTask(t)
      PROVE  Transaction \/ DetachOnly \/ NewLaunch
  BY <1>26 DEF Transaction, UpdateTask
<1>27. ASSUME NEW survive \in SUBSET Dispatches, Crash(survive)
      PROVE  Transaction \/ DetachOnly \/ NewLaunch
  BY <1>27 DEF Transaction, Crash
<1>28. ASSUME NEW stopped \in SUBSET Dispatches, Startup(stopped)
      PROVE  Transaction \/ DetachOnly \/ NewLaunch
  BY <1>28 DEF Transaction, DetachOnly, Startup
<1>29. CASE UNCHANGED vars
  BY <1>29 DEF Transaction, vars
<1>30. QED
  BY <1>1, <1>2, <1>3, <1>4, <1>5, <1>6, <1>7, <1>8, <1>9, <1>10, <1>11,
     <1>12, <1>13, <1>14, <1>15, <1>16, <1>17, <1>18, <1>19, <1>20, <1>21,
     <1>22, <1>23, <1>24, <1>25, <1>26, <1>27, <1>28, <1>29
     DEF Next, LaunchStep, CleanupStep


LaunchSteps == {"idle", "next", "reserve", "record", "spawn", "insert",
                "identify", "capture", "check", "bind", "failing"}

Launches == [step  : LaunchSteps,
             todo  : SUBSET Dispatches,
             d     : Dispatches \cup {C!NoDispatch},
             fresh : SUBSET C!Tasks]

Stops == [step  : {"idle", "next", "cleaning"},
          kind  : Verdicts \cup {"retry_cleanup", "none"},
          todo  : SUBSET Dispatches,
          bound : SUBSET Dispatches,
          fresh : BOOLEAN]

Jobs == [step : {"idle", "mark", "close", "kill", "stopped", "failed", "end"},
         d    : Dispatches \cup {C!NoDispatch},
         ok   : BOOLEAN]

\* TypeOK without the rows.
ThreadsType ==
    /\ op \in {"none", "intent", "final"}
    /\ res \in [Dispatches -> Resource]
    /\ workers \in [Dispatches -> SUBSET {"hosted", "orphan"}]
    /\ entries \subseteq Dispatches
    /\ exits \subseteq Dispatches
    /\ launch \in Launches
    /\ stop \in Stops
    /\ job \in [{"launch", "stop"} -> Jobs]
    /\ up \in BOOLEAN
    /\ raced \in BOOLEAN
    /\ edited \subseteq C!Tasks

LEMMA TypeParts == TypeOK <=> RowsType /\ ThreadsType
  BY DEF TypeOK, C!TypeOK, RowsType, ThreadsType, Launches, LaunchSteps, Stops, Jobs, Dispatches

\* A launch that fails goes on with the cleanup of what it has reserved.
LEMMA FailType ==
    ASSUME NEW d \in Dispatches, FailLaunch(d), launch \in Launches,
           job \in [{"launch", "stop"} -> Jobs]
    PROVE  launch' \in Launches /\ job' \in [{"launch", "stop"} -> Jobs]
<1>1. launch' \in Launches
  BY DEF FailLaunch, Launches, LaunchSteps
<1>2. job' = [job EXCEPT !["launch"] = [step |-> "mark", d |-> d, ok |-> TRUE]]
      \/ job' = [job EXCEPT !["launch"] = [step |-> "end", d |-> d, ok |-> TRUE]]
  BY DEF FailLaunch
<1>3. /\ [step |-> "mark", d |-> d, ok |-> TRUE] \in Jobs
      /\ [step |-> "end", d |-> d, ok |-> TRUE] \in Jobs
  BY DEF Jobs
<1>4. QED
  BY <1>1, <1>2, <1>3

\* The launch at another step, or with one dispatch less, is a launch.
LEMMA LaunchAt ==
    ASSUME launch \in Launches, NEW step \in LaunchSteps
    PROVE  [launch EXCEPT !.step = step] \in Launches
  BY DEF Launches

LEMMA LaunchWithout ==
    ASSUME launch \in Launches, NEW d \in Dispatches, LaunchedNext(d)
    PROVE  launch' \in Launches
<1>1. "next" \in LaunchSteps
  BY DEF LaunchSteps
<1>2. launch.todo \ {d} \in SUBSET Dispatches
  BY DEF Launches
<1>3. QED
  BY <1>1, <1>2 DEF LaunchedNext, Launches

\* A row that is reserved, or whose pane is recorded, is a row.
LEMMA ReservedRow ==
    ASSUME NEW r \in Resource, NEW w \in BOOLEAN
    PROVE  [r EXCEPT !.row = TRUE, !.worktree = w] \in Resource
  BY DEF Resource

LEMMA RecordedRow ==
    ASSUME NEW r \in Resource
    PROVE  [r EXCEPT !.pane = TRUE, !.state = "live", !.reason = "none"] \in Resource
  BY DEF Resource

\* So is one that the startup has written.
LEMMA RestartedRow ==
    ASSUME NEW r \in Resource, NEW p \in BOOLEAN,
           NEW st \in {"cleaned", "cleanup_failed", r.state},
           NEW a \in {r.reason, "daemon_restart"}
    PROVE  [r EXCEPT !.pane = p, !.state = st, !.reason = a] \in Resource
<1>1. /\ st \in {"not_created", "live", "cleaned", "cleanup_failed"}
      /\ a \in Intentional \cup {"none", "process_exit"}
  BY DEF Resource, Intentional
<1>2. QED
  BY <1>1 DEF Resource

\* A row whose pane is cleared, or whose cleanup has failed, is a row.
LEMMA ClearedRow ==
    ASSUME res \in [Dispatches -> Resource], NEW d,
           NEW a \in Intentional \cup {"none", "process_exit"},
           \/ res' = [res EXCEPT ![d].pane = FALSE, ![d].state = "cleaned", ![d].reason = a]
           \/ res' = [res EXCEPT ![d].state = "cleanup_failed", ![d].reason = a]
    PROVE  res' \in [Dispatches -> Resource]
<1>1. CASE d \in Dispatches
  <2>1. res'[d] \in Resource
    <3>1. res[d] \in Resource
      BY <1>1
    <3>2. \/ res'[d] = [res[d] EXCEPT !.pane = FALSE, !.state = "cleaned", !.reason = a]
          \/ res'[d] = [res[d] EXCEPT !.state = "cleanup_failed", !.reason = a]
      BY <1>1
    <3>3. CASE res'[d] = [res[d] EXCEPT !.pane = FALSE, !.state = "cleaned", !.reason = a]
      BY <3>1, <3>3 DEF Resource
    <3>4. CASE res'[d] = [res[d] EXCEPT !.state = "cleanup_failed", !.reason = a]
      BY <3>1, <3>4 DEF Resource
    <3>5. QED
      BY <3>2, <3>3, <3>4
  <2>2. \A e \in Dispatches : e # d => res'[e] = res[e]
    OBVIOUS
  <2>3. QED
    BY <2>1, <2>2
<1>2. CASE d \notin Dispatches
  BY <1>2
<1>3. QED
  BY <1>1, <1>2

\* Every step keeps the types of the rows.
LEMMA RowsTypeStep ==
    ASSUME TypeOK, Links, [Next]_vars
    PROVE  RowsType'
<1>a. RowsType
  BY TypeParts
<1>1. CASE Transaction
  BY <1>a, <1>1, RowsTypeKept
<1>2. CASE DetachOnly
  BY <1>a, <1>2 DEF DetachOnly, RowsType, C!AgentStatus, C!ActiveAgent
<1>3. CASE NewLaunch
  BY <1>a, <1>3, RowsTypeKept DEF NewLaunch
<1>4. QED
  BY <1>1, <1>2, <1>3, StepTransaction

\* Every step keeps the types of what the threads work on.
LEMMA ThreadsTypeStep ==
    ASSUME TypeOK, Links, [Next]_vars
    PROVE  ThreadsType'
<1>a. ThreadsType /\ RowsType
  BY TypeParts
<1>b. res \in [Dispatches -> Resource]
  BY <1>a DEF ThreadsType
<1>c. launch \in Launches
  BY <1>a DEF ThreadsType
<1>d. stop \in Stops
  BY <1>a DEF ThreadsType
<1>e. job \in [{"launch", "stop"} -> Jobs]
  BY <1>a DEF ThreadsType
<1>f. workers \in [Dispatches -> SUBSET {"hosted", "orphan"}]
  BY <1>a DEF ThreadsType
<1>1. CASE PrepareLaunch
  <2>1. launch' \in Launches
    BY <1>1, <1>c, RowsTypeStep
       DEF PrepareLaunch, BumpRunRevision, RowsType, Launches, LaunchSteps
  <2>2. stop' \in Stops
    BY <1>1, <1>d
       DEF PrepareLaunch, BumpRunRevision, Stops
  <2>3. QED
    BY <1>1, <1>a, <2>1, <2>2
       DEF ThreadsType, PrepareLaunch, BumpRunRevision
<1>2. CASE NextDispatch
  <2>1. launch' \in Launches
    BY <1>2, <1>c, FirstIsIn
       DEF NextDispatch, Launches, LaunchSteps
  <2>2. QED
    BY <1>2, <1>a, <2>1
       DEF ThreadsType, NextDispatch
<1>3. ASSUME NEW d \in Dispatches, NEW inWorktree \in Worktrees, ReserveResources(d, inWorktree)
      PROVE  ThreadsType'
  <2>1. launch' \in Launches
    <3>1. launch' = [launch EXCEPT !.step = "record"] \/ FailLaunch(d)
      BY <1>3 DEF ReserveResources
    <3>2. "record" \in LaunchSteps
      BY DEF LaunchSteps
    <3>3. QED
      BY <1>c, <1>e, <3>1, <3>2, FailType, LaunchAt
  <2>2. job' \in [{"launch", "stop"} -> Jobs]
    BY <1>3, <1>e, <1>c, FailType
       DEF ReserveResources, Launching, Jobs
  <2>3. res' \in [Dispatches -> Resource]
    <3>1. res' = [res EXCEPT ![d] = [res[d] EXCEPT !.row = TRUE, !.worktree = inWorktree]]
      BY <1>3 DEF ReserveResources
    <3>2. inWorktree \in BOOLEAN
      BY LaunchAssumption
    <3>3. res[d] \in Resource
      BY <1>b
    <3>4. [res[d] EXCEPT !.row = TRUE, !.worktree = inWorktree] \in Resource
      BY <3>2, <3>3, ReservedRow
    <3>5. QED
      BY <1>b, <3>1, <3>4
  <2>4. QED
    BY <1>3, <1>a, <2>1, <2>2, <2>3
       DEF ThreadsType, ReserveResources, Launching, FailLaunch
<1>4. ASSUME NEW d \in Dispatches, RecordPane(d, "record", "spawn")
      PROVE  ThreadsType'
  <2>1. res' \in [Dispatches -> Resource]
    <3>1. res' = [res EXCEPT ![d] = [res[d] EXCEPT !.pane = TRUE, !.state = "live",
                                                   !.reason = "none"]]
      BY <1>4 DEF RecordPane
    <3>2. [res[d] EXCEPT !.pane = TRUE, !.state = "live", !.reason = "none"] \in Resource
      BY <1>b, RecordedRow
    <3>3. QED
      BY <1>b, <3>1, <3>2
  <2>2. launch' \in Launches
    BY <1>4, <1>c
       DEF RecordPane, Launching, Launches, LaunchSteps
  <2>3. QED
    BY <1>4, <1>a, <2>1, <2>2
       DEF ThreadsType, RecordPane, Launching
<1>5. ASSUME NEW d \in Dispatches, SpawnWorker(d)
      PROVE  ThreadsType'
  <2>1. launch' \in Launches
    BY <1>5, <1>c
       DEF SpawnWorker, Launching, Launches, LaunchSteps
  <2>2. workers' \in [Dispatches -> SUBSET {"hosted", "orphan"}]
    BY <1>5, <1>f
       DEF SpawnWorker, Launching
  <2>3. QED
    BY <1>5, <1>a, <2>1, <2>2
       DEF ThreadsType, SpawnWorker, Launching
<1>6. ASSUME NEW d \in Dispatches, InsertPane(d)
      PROVE  ThreadsType'
  <2>1. CASE ~ FailLaunch(d)
    <3>1. launch' \in Launches
      BY <1>6, <1>c, <2>1 DEF InsertPane, Launches, LaunchSteps
    <3>2. entries' \subseteq Dispatches /\ workers' = workers /\ job' = job
      BY <1>6, <1>a, <2>1 DEF InsertPane, ThreadsType
    <3>3. QED
      BY <1>6, <1>a, <3>1, <3>2 DEF ThreadsType, InsertPane
  <2>2. CASE FailLaunch(d)
    <3>1. launch' \in Launches /\ job' \in [{"launch", "stop"} -> Jobs]
      BY <1>c, <1>e, <2>2, FailType
    <3>2. entries' \subseteq Dispatches
      BY <1>6, <1>a DEF InsertPane, ThreadsType
    <3>3. workers' \in [Dispatches -> SUBSET {"hosted", "orphan"}]
      BY <1>6, <1>a DEF InsertPane, ThreadsType
    <3>4. QED
      BY <1>6, <1>a, <3>1, <3>2, <3>3 DEF ThreadsType, InsertPane
  <2>3. QED
    BY <2>1, <2>2
<1>7. ASSUME NEW d \in Dispatches, IdentifyWorker(d)
      PROVE  ThreadsType'
  <2>1. launch' \in Launches
    <3>1. launch' = [launch EXCEPT !.step = "capture"] \/ FailLaunch(d)
      BY <1>7 DEF IdentifyWorker
    <3>2. "capture" \in LaunchSteps
      BY DEF LaunchSteps
    <3>3. QED
      BY <1>c, <1>e, <3>1, <3>2, FailType, LaunchAt
  <2>2. job' \in [{"launch", "stop"} -> Jobs]
    BY <1>7, <1>e, <1>c, FailType
       DEF IdentifyWorker, Launching, Jobs
  <2>3. QED
    BY <1>7, <1>a, <2>1, <2>2
       DEF ThreadsType, IdentifyWorker, Launching, FailLaunch
<1>8. ASSUME NEW d \in Dispatches, RecordPane(d, "capture", "check")
      PROVE  ThreadsType'
  <2>1. res' \in [Dispatches -> Resource]
    <3>1. res' = [res EXCEPT ![d] = [res[d] EXCEPT !.pane = TRUE, !.state = "live",
                                                   !.reason = "none"]]
      BY <1>8 DEF RecordPane
    <3>2. [res[d] EXCEPT !.pane = TRUE, !.state = "live", !.reason = "none"] \in Resource
      BY <1>b, RecordedRow
    <3>3. QED
      BY <1>b, <3>1, <3>2
  <2>2. launch' \in Launches
    BY <1>8, <1>c
       DEF RecordPane, Launching, Launches, LaunchSteps
  <2>3. QED
    BY <1>8, <1>a, <2>1, <2>2
       DEF ThreadsType, RecordPane, Launching
<1>9. ASSUME NEW d \in Dispatches, CheckPane(d)
      PROVE  ThreadsType'
  <2>1. launch' \in Launches
    <3>1. launch' = [launch EXCEPT !.step = "bind"] \/ FailLaunch(d)
      BY <1>9 DEF CheckPane
    <3>2. "bind" \in LaunchSteps
      BY DEF LaunchSteps
    <3>3. QED
      BY <1>c, <1>e, <3>1, <3>2, FailType, LaunchAt
  <2>2. job' \in [{"launch", "stop"} -> Jobs]
    BY <1>9, <1>e, <1>c, FailType
       DEF CheckPane, Launching, Jobs
  <2>3. QED
    BY <1>9, <1>a, <2>1, <2>2
       DEF ThreadsType, CheckPane, Launching, FailLaunch
<1>10. ASSUME NEW d \in Dispatches, BindWorker(d)
      PROVE  ThreadsType'
  <2>1. launch' \in Launches
    <3>1. LaunchedNext(d) \/ FailLaunch(d)
      BY <1>10 DEF BindWorker
    <3>2. QED
      BY <1>c, <1>e, <3>1, FailType, LaunchWithout
  <2>2. job' \in [{"launch", "stop"} -> Jobs]
    <3>1. job' = job \/ FailLaunch(d)
      BY <1>10 DEF BindWorker
    <3>2. QED
      BY <1>c, <1>e, <3>1, FailType
  <2>3. QED
    BY <1>10, <1>a, <2>1, <2>2
       DEF ThreadsType, BindWorker, Launching, LaunchedNext, FailLaunch
<1>11. ASSUME NEW d \in Dispatches, LaunchFailed(d)
      PROVE  ThreadsType'
  <2>1. launch' \in Launches
    BY <1>11, <1>c
       DEF LaunchFailed, Launching, LaunchedNext, Launches, LaunchSteps
  <2>2. job' \in [{"launch", "stop"} -> Jobs]
    BY <1>11, <1>e
       DEF LaunchFailed, Launching, LaunchedNext, Jobs, NoJob
  <2>3. QED
    BY <1>11, <1>a, <2>1, <2>2
       DEF ThreadsType, LaunchFailed, Launching, LaunchedNext
<1>12. ASSUME NEW d \in Dispatches, LaunchError(d)
      PROVE  ThreadsType'
  <2>1. launch' \in Launches
    BY <1>12, <1>c, <1>e, FailType
       DEF LaunchError, Launches, LaunchSteps
  <2>2. job' \in [{"launch", "stop"} -> Jobs]
    BY <1>12, <1>e, <1>c, FailType
       DEF LaunchError, Jobs
  <2>3. QED
    BY <1>12, <1>a, <2>1, <2>2
       DEF ThreadsType, LaunchError, FailLaunch
<1>13. ASSUME NEW persisted \in BOOLEAN, CompleteLaunch(persisted)
      PROVE  ThreadsType'
  <2>1. launch' \in Launches
    BY <1>13, <1>c
       DEF CompleteLaunch, IdleLaunch, Launches, LaunchSteps
  <2>2. QED
    BY <1>13, <1>a, <2>1
       DEF ThreadsType, CompleteLaunch, IdleLaunch
<1>14. ASSUME NEW w \in {"launch", "stop"}, MarkCleanup(w)
      PROVE  ThreadsType'
  <2>1. res' \in [Dispatches -> Resource]
    <3>1. res' = [res EXCEPT ![job[w].d].reason = Reason(w)]
      BY <1>14 DEF MarkCleanup
    <3>2. Reason(w) \in Intentional \cup {"none"}
      BY <1>d, LaunchAssumption DEF Reason, Stops, Intentional
    <3>3. QED
      BY <1>b, <3>1, <3>2 DEF Resource
  <2>2. job' \in [{"launch", "stop"} -> Jobs]
    BY <1>14, <1>e
       DEF MarkCleanup, At, Reason, Stopped, Jobs
  <2>3. QED
    BY <1>14, <1>a, <2>1, <2>2
       DEF ThreadsType, MarkCleanup, At, Reason
<1>15. ASSUME NEW w \in {"launch", "stop"}, ClosePane(w)
      PROVE  ThreadsType'
  <2>1. job' \in [{"launch", "stop"} -> Jobs]
    BY <1>15, <1>e
       DEF ClosePane, At, JobAt, Jobs
  <2>2. workers' \in [Dispatches -> SUBSET {"hosted", "orphan"}]
    BY <1>15, <1>f
       DEF ClosePane, At, JobAt
  <2>3. QED
    BY <1>15, <1>a, <2>1, <2>2
       DEF ThreadsType, ClosePane, At, JobAt
<1>16. ASSUME NEW w \in {"launch", "stop"}, KillWorkers(w)
      PROVE  ThreadsType'
  <2>1. job' \in [{"launch", "stop"} -> Jobs]
    BY <1>16, <1>e
       DEF KillWorkers, At, JobAt, Jobs
  <2>2. workers' \in [Dispatches -> SUBSET {"hosted", "orphan"}]
    BY <1>16, <1>f
       DEF KillWorkers, At, JobAt
  <2>3. QED
    BY <1>16, <1>a, <2>1, <2>2
       DEF ThreadsType, KillWorkers, At, JobAt
<1>17. ASSUME NEW w \in {"launch", "stop"}, RecordCleanup(w)
      PROVE  ThreadsType'
  <2>1. res' \in [Dispatches -> Resource]
    <3>1. \/ res' = [res EXCEPT ![job[w].d].pane = FALSE, ![job[w].d].state = "cleaned",
                                ![job[w].d].reason = Reason(w)]
          \/ res' = [res EXCEPT ![job[w].d].state = "cleanup_failed",
                                ![job[w].d].reason = Reason(w)]
      BY <1>17 DEF RecordCleanup
    <3>2. Reason(w) \in Intentional \cup {"none"}
      BY <1>d, LaunchAssumption DEF Reason, Stops, Intentional
    <3>3. QED
      BY <1>b, <3>1, <3>2, ClearedRow
  <2>2. job' \in [{"launch", "stop"} -> Jobs]
    BY <1>17, <1>e
       DEF RecordCleanup, At, JobAt, Reason, Jobs
  <2>3. QED
    BY <1>17, <1>a, <2>1, <2>2
       DEF ThreadsType, RecordCleanup, At, JobAt, Reason
<1>18. ASSUME NEW kind \in Verdicts, RequestVerdict(kind)
      PROVE  ThreadsType'
  <2>1. stop' \in Stops
    BY <1>18, <1>d
       DEF RequestVerdict, StartStop, Stops
  <2>2. QED
    BY <1>18, <1>a, <2>1
       DEF ThreadsType, RequestVerdict, StartStop
<1>19. ASSUME NEW d \in Dispatches, RequestCleanup(d)
      PROVE  ThreadsType'
  <2>1. stop' \in Stops
    BY <1>19, <1>d
       DEF RequestCleanup, StartStop, Stops
  <2>2. QED
    BY <1>19, <1>a, <2>1
       DEF ThreadsType, RequestCleanup, StartStop
<1>20. CASE NextTarget
  <2>1. job' \in [{"launch", "stop"} -> Jobs]
    <3>1. First(stop.todo) \in Dispatches
      BY <1>20, <1>d, FirstIsIn DEF NextTarget, Stops
    <3>2. job' = [job EXCEPT !["stop"].step = "mark", !["stop"].d = First(stop.todo)]
      BY <1>20 DEF NextTarget
    <3>3. QED
      BY <1>e, <3>1, <3>2 DEF Jobs
  <2>2. stop' \in Stops
    BY <1>20, <1>d
       DEF NextTarget, Stops
  <2>3. QED
    BY <1>20, <1>a, <2>1, <2>2
       DEF ThreadsType, NextTarget
<1>21. CASE TargetDone
  <2>1. job' \in [{"launch", "stop"} -> Jobs]
    BY <1>21, <1>e
       DEF TargetDone, Jobs
  <2>2. stop' \in Stops
    BY <1>21, <1>d
       DEF TargetDone, Stops
  <2>3. QED
    BY <1>21, <1>a, <2>1, <2>2
       DEF ThreadsType, TargetDone
<1>22. ASSUME NEW persisted \in BOOLEAN, FinishStop(persisted)
      PROVE  ThreadsType'
  <2>1. job' \in [{"launch", "stop"} -> Jobs]
    BY <1>22, <1>e
       DEF FinishStop, IdleStop, NoJob, Jobs
  <2>2. stop' \in Stops
    BY <1>22, <1>d
       DEF FinishStop, IdleStop, NoJob, Stops
  <2>3. QED
    BY <1>22, <1>a, <2>1, <2>2
       DEF ThreadsType, FinishStop, IdleStop, NoJob
<1>23. ASSUME NEW d \in Dispatches, WorkerExits(d)
      PROVE  ThreadsType'
  <2>1. workers' \in [Dispatches -> SUBSET {"hosted", "orphan"}]
    BY <1>23, <1>f
       DEF WorkerExits
  <2>2. QED
    BY <1>23, <1>a, <2>1
       DEF ThreadsType, WorkerExits
<1>24. ASSUME NEW d \in Dispatches, MarkExited(d)
      PROVE  ThreadsType'
  BY <1>24, <1>a
     DEF ThreadsType, MarkExited
<1>25. ASSUME NEW d \in Dispatches, RecordPaneExit(d)
      PROVE  ThreadsType'
  <2>1. res' \in [Dispatches -> Resource]
    <3>1. \/ res' = res
          \/ res' = [res EXCEPT ![d].pane = FALSE, ![d].state = "cleaned",
                                ![d].reason = "process_exit"]
          \/ res' = [res EXCEPT ![d].pane = FALSE, ![d].state = "cleaned",
                                ![d].reason = res[d].reason]
      BY <1>25, <1>b DEF RecordPaneExit, Resource
    <3>2. res[d].reason \in Intentional \cup {"none", "process_exit"}
      BY <1>b DEF Resource
    <3>3. QED
      BY <1>b, <3>1, <3>2, ClearedRow
  <2>2. stop' \in Stops
    BY <1>25, <1>d
       DEF RecordPaneExit, BumpRunRevision, Intentional, Stops
  <2>3. QED
    BY <1>25, <1>a, <2>1, <2>2
       DEF ThreadsType, RecordPaneExit, BumpRunRevision, Intentional
<1>26. ASSUME NEW t \in Edits, UpdateTask(t)
      PROVE  ThreadsType'
  <2>1. launch' \in Launches
    BY <1>26, <1>c
       DEF UpdateTask, BumpRunRevision, Launches, LaunchSteps
  <2>2. stop' \in Stops
    BY <1>26, <1>d
       DEF UpdateTask, BumpRunRevision, Stops
  <2>3. QED
    BY <1>26, <1>a, <2>1, <2>2, LaunchAssumption
       DEF ThreadsType, UpdateTask, BumpRunRevision, C!Tasks
<1>27. ASSUME NEW survive \in SUBSET Dispatches, Crash(survive)
      PROVE  ThreadsType'
  <2>1. launch' \in Launches
    BY <1>27, <1>c
       DEF Crash, IdleLaunch, IdleStop, NoJob, Launches, LaunchSteps
  <2>2. stop' \in Stops
    BY <1>27, <1>d
       DEF Crash, IdleLaunch, IdleStop, NoJob, Stops
  <2>3. job' \in [{"launch", "stop"} -> Jobs]
    BY <1>27, <1>e
       DEF Crash, IdleLaunch, IdleStop, NoJob, Jobs
  <2>4. workers' \in [Dispatches -> SUBSET {"hosted", "orphan"}]
    BY <1>27, <1>f
       DEF Crash, IdleLaunch, IdleStop, NoJob
  <2>5. QED
    BY <1>27, <1>a, <2>1, <2>2, <2>3, <2>4
       DEF ThreadsType, Crash, IdleLaunch, IdleStop, NoJob
<1>28. ASSUME NEW stopped \in SUBSET Dispatches, Startup(stopped)
      PROVE  ThreadsType'
  <2>1. res' \in [Dispatches -> Resource]
    <3> DEFINE targets == {d \in Dispatches :
                              \/ disp[d] \in C!ActiveDispatch
                              \/ res[d].state \in {"live", "cleanup_failed"}}
               panes == {d \in targets : res[d].pane}
    <3>1. res' = [d \in Dispatches |->
                       IF ~(d \in targets /\ res[d].row) THEN res[d]
                       ELSE [res[d] EXCEPT
                               !.pane   = d \in panes \ stopped,
                               !.state  = IF d \in stopped THEN "cleaned"
                                          ELSE IF d \in panes THEN "cleanup_failed" ELSE @,
                               !.reason = IF @ \in Intentional \ {"daemon_restart"} THEN @
                                          ELSE "daemon_restart"]]
      BY <1>28 DEF Startup
    <3> HIDE DEF targets, panes
    <3>2. ASSUME NEW d \in Dispatches PROVE res'[d] \in Resource
      <4>1. res[d] \in Resource
        BY <1>b
      <4>2. CASE ~(d \in targets /\ res[d].row)
        BY <3>1, <4>1, <4>2
      <4>3. CASE d \in targets /\ res[d].row
        <5> DEFINE st == IF d \in stopped THEN "cleaned"
                         ELSE IF d \in panes THEN "cleanup_failed" ELSE res[d].state
                   a  == IF res[d].reason \in Intentional \ {"daemon_restart"}
                         THEN res[d].reason ELSE "daemon_restart"
                   p  == d \in panes \ stopped
        <5>1. res'[d] = [res[d] EXCEPT !.pane = p, !.state = st, !.reason = a]
          BY <3>1, <4>3, Zenon
        <5>2. /\ st \in {"cleaned", "cleanup_failed", res[d].state}
              /\ a \in {res[d].reason, "daemon_restart"}
              /\ p \in BOOLEAN
          OBVIOUS
        <5> HIDE DEF st, a, p
        <5>3. [res[d] EXCEPT !.pane = p, !.state = st, !.reason = a] \in Resource
          BY <4>1, <5>2, RestartedRow
        <5>4. QED
          BY <5>1, <5>3
      <4>4. QED
        BY <4>2, <4>3
    <3>3. DOMAIN res' = Dispatches /\ res' = [d \in Dispatches |-> res'[d]]
      BY <3>1
    <3>4. QED
      BY <3>2, <3>3
  <2>2. workers' \in [Dispatches -> SUBSET {"hosted", "orphan"}]
    BY <1>28, <1>f
       DEF Startup, Intentional
  <2>3. QED
    BY <1>28, <1>a, <2>1, <2>2
       DEF ThreadsType, Startup, Intentional
<1>29. CASE UNCHANGED vars
  BY <1>29, <1>a
     DEF ThreadsType, vars
<1>30. QED
  BY <1>1, <1>2, <1>3, <1>4, <1>5, <1>6, <1>7, <1>8, <1>9, <1>10, <1>11,
     <1>12, <1>13, <1>14, <1>15, <1>16, <1>17, <1>18, <1>19, <1>20, <1>21,
     <1>22, <1>23, <1>24, <1>25, <1>26, <1>27, <1>28, <1>29
     DEF Next, LaunchStep, CleanupStep

\* Every step keeps the types.
LEMMA TypeStep ==
    ASSUME TypeOK, Links, [Next]_vars
    PROVE  TypeOK'
  BY RowsTypeStep, ThreadsTypeStep
     DEF TypeOK, C!TypeOK, RowsType, ThreadsType, Launches, LaunchSteps, Stops, Jobs, Dispatches

\* Every step keeps the links.
LEMMA LinksStep ==
    ASSUME TypeOK, Links, [Next]_vars
    PROVE  Links'
<1>a. ThreadsType
  BY TypeParts
<1>b. res \in [Dispatches -> Resource]
  BY <1>a DEF ThreadsType
<1>c. launch \in Launches
  BY <1>a DEF ThreadsType
<1>d. stop \in Stops
  BY <1>a DEF ThreadsType
<1>e. job \in [{"launch", "stop"} -> Jobs]
  BY <1>a DEF ThreadsType
<1>1. CASE PrepareLaunch
  BY <1>1, <1>b, <1>c, <1>d, <1>e
     DEF Links, PrepareLaunch, BumpRunRevision, Launches, Jobs, Stops
<1>2. CASE NextDispatch
  <2>1. First(launch.todo) \in Dispatches
    BY <1>2, <1>c, FirstIsIn DEF NextDispatch, Launches
  <2>2. QED
    BY <1>2, <2>1, <1>b, <1>c, <1>d, <1>e
       DEF Links, NextDispatch, Launches, Jobs, Stops
<1>3. ASSUME NEW d \in Dispatches, NEW inWorktree \in Worktrees, ReserveResources(d, inWorktree)
      PROVE  Links'
  BY <1>3, <1>b, <1>c, <1>d, <1>e
     DEF Links, ReserveResources, Launching, FailLaunch, Launches, Jobs,
         Stops, Resource
<1>4. ASSUME NEW d \in Dispatches, RecordPane(d, "record", "spawn")
      PROVE  Links'
  BY <1>4, <1>b, <1>c, <1>d, <1>e
     DEF Links, RecordPane, Launching, Launches, Jobs, Stops, Resource
<1>5. ASSUME NEW d \in Dispatches, SpawnWorker(d)
      PROVE  Links'
  BY <1>5, <1>b, <1>c, <1>d, <1>e
     DEF Links, SpawnWorker, Launching, Launches, Jobs, Stops
<1>6. ASSUME NEW d \in Dispatches, InsertPane(d)
      PROVE  Links'
  BY <1>6, <1>b, <1>c, <1>d, <1>e
     DEF Links, InsertPane, FailLaunch, Launching, Launches, Jobs, Stops
<1>7. ASSUME NEW d \in Dispatches, IdentifyWorker(d)
      PROVE  Links'
  BY <1>7, <1>b, <1>c, <1>d, <1>e
     DEF Links, IdentifyWorker, Launching, FailLaunch, Launches, Jobs, Stops
<1>8. ASSUME NEW d \in Dispatches, RecordPane(d, "capture", "check")
      PROVE  Links'
  BY <1>8, <1>b, <1>c, <1>d, <1>e
     DEF Links, RecordPane, Launching, Launches, Jobs, Stops, Resource
<1>9. ASSUME NEW d \in Dispatches, CheckPane(d)
      PROVE  Links'
  BY <1>9, <1>b, <1>c, <1>d, <1>e
     DEF Links, CheckPane, Launching, FailLaunch, Launches, Jobs, Stops
<1>10. ASSUME NEW d \in Dispatches, BindWorker(d)
      PROVE  Links'
  <2>1. launch.step = "bind" /\ launch.d = d /\ UNCHANGED <<res, stop, entries, exits, up>>
    BY <1>10 DEF BindWorker, Launching
  <2>2. CASE LaunchedNext(d) /\ UNCHANGED job
    BY <2>1, <2>2, <1>b, <1>c, <1>d, <1>e DEF Links, LaunchedNext, Launches, Jobs, Stops
  <2>3. CASE FailLaunch(d)
    BY <2>1, <2>3, <1>b, <1>c, <1>d, <1>e DEF Links, FailLaunch, Launches, Jobs, Stops
  <2>4. QED
    BY <1>10, <2>2, <2>3 DEF BindWorker
<1>11. ASSUME NEW d \in Dispatches, LaunchFailed(d)
      PROVE  Links'
  BY <1>11, <1>b, <1>c, <1>d, <1>e
     DEF Links, LaunchFailed, Launching, LaunchedNext, Launches, Jobs, Stops,
         NoJob
<1>12. ASSUME NEW d \in Dispatches, LaunchError(d)
      PROVE  Links'
  BY <1>12, <1>b, <1>c, <1>d, <1>e
     DEF Links, LaunchError, FailLaunch, Launches, Jobs, Stops
<1>13. ASSUME NEW persisted \in BOOLEAN, CompleteLaunch(persisted)
      PROVE  Links'
  BY <1>13, <1>b, <1>c, <1>d, <1>e
     DEF Links, CompleteLaunch, IdleLaunch, Launches, Jobs, Stops
<1>14. ASSUME NEW w \in {"launch", "stop"}, MarkCleanup(w)
      PROVE  Links'
  BY <1>14, <1>b, <1>c, <1>d, <1>e
     DEF Links, MarkCleanup, At, Reason, Launches, Jobs, Stops, Resource
<1>15. ASSUME NEW w \in {"launch", "stop"}, ClosePane(w)
      PROVE  Links'
  BY <1>15, <1>b, <1>c, <1>d, <1>e
     DEF Links, ClosePane, At, JobAt, Launches, Jobs, Stops
<1>16. ASSUME NEW w \in {"launch", "stop"}, KillWorkers(w)
      PROVE  Links'
  BY <1>16, <1>b, <1>c, <1>d, <1>e
     DEF Links, KillWorkers, At, JobAt, Launches, Jobs, Stops
<1>17. ASSUME NEW w \in {"launch", "stop"}, RecordCleanup(w)
      PROVE  Links'
  <2>1. UNCHANGED <<launch, stop, entries, exits, up>> /\ job[w].step # "idle"
    BY <1>17 DEF RecordCleanup, At
  <2>2. \/ job' = [job EXCEPT ![w].step = "end"]
        \/ job' = [job EXCEPT ![w].step = "end", ![w].ok = FALSE]
    BY <1>17 DEF RecordCleanup, JobAt
  <2>3. \A v \in {"launch", "stop"} :
           job'[v].d = job[v].d /\ (job'[v].step = "idle" <=> job[v].step = "idle")
    BY <1>e, <2>1, <2>2 DEF Jobs
  <2>4. \A d \in Dispatches :
           /\ res'[d].row = res[d].row
           /\ res'[d].pane => res[d].pane /\ res'[d].state \in {res[d].state, "cleanup_failed"}
    <3>1. CASE res' = [res EXCEPT ![job[w].d].pane = FALSE, ![job[w].d].state = "cleaned",
                                  ![job[w].d].reason = Reason(w)]
      BY <1>b, <3>1 DEF Resource
    <3>2. CASE res' = [res EXCEPT ![job[w].d].state = "cleanup_failed",
                                  ![job[w].d].reason = Reason(w)]
      BY <1>b, <3>2 DEF Resource
    <3>3. QED
      BY <1>17, <3>1, <3>2 DEF RecordCleanup
  <2>5. QED
    BY <2>1, <2>3, <2>4 DEF Links
<1>18. ASSUME NEW kind \in Verdicts, RequestVerdict(kind)
      PROVE  Links'
  BY <1>18, <1>b, <1>c, <1>d, <1>e
     DEF Links, RequestVerdict, StartStop, Launches, Jobs, Stops
<1>19. ASSUME NEW d \in Dispatches, RequestCleanup(d)
      PROVE  Links'
  BY <1>19, <1>b, <1>c, <1>d, <1>e
     DEF Links, RequestCleanup, StartStop, Launches, Jobs, Stops
<1>20. CASE NextTarget
  <2>1. First(stop.todo) \in Dispatches
    BY <1>20, <1>d, FirstIsIn DEF NextTarget, Stops
  <2>2. job' = [job EXCEPT !["stop"].step = "mark", !["stop"].d = First(stop.todo)]
    BY <1>20 DEF NextTarget
  <2>3. job'["launch"] = job["launch"] /\ job'["stop"].d = First(stop.todo)
    BY <1>e, <2>2 DEF Jobs
  <2>4. QED
    BY <1>20, <2>1, <2>3, <1>b, <1>c, <1>d, <1>e
       DEF Links, NextTarget, Launches, Stops
<1>21. CASE TargetDone
  BY <1>21, <1>b, <1>c, <1>d, <1>e
     DEF Links, TargetDone, Launches, Jobs, Stops
<1>22. ASSUME NEW persisted \in BOOLEAN, FinishStop(persisted)
      PROVE  Links'
  BY <1>22, <1>b, <1>c, <1>d, <1>e
     DEF Links, FinishStop, IdleStop, NoJob, Launches, Jobs, Stops
<1>23. ASSUME NEW d \in Dispatches, WorkerExits(d)
      PROVE  Links'
  BY <1>23, <1>b, <1>c, <1>d, <1>e
     DEF Links, WorkerExits, Launches, Jobs, Stops
<1>24. ASSUME NEW d \in Dispatches, MarkExited(d)
      PROVE  Links'
  BY <1>24, <1>b, <1>c, <1>d, <1>e
     DEF Links, MarkExited, Launches, Jobs, Stops
<1>25. ASSUME NEW d \in Dispatches, RecordPaneExit(d)
      PROVE  Links'
  BY <1>25, <1>b, <1>c, <1>d, <1>e
     DEF Links, RecordPaneExit, BumpRunRevision, Intentional, Launches, Jobs,
         Stops, Resource
<1>26. ASSUME NEW t \in Edits, UpdateTask(t)
      PROVE  Links'
  BY <1>26, <1>b, <1>c, <1>d, <1>e
     DEF Links, UpdateTask, BumpRunRevision, Launches, Jobs, Stops
<1>27. ASSUME NEW survive \in SUBSET Dispatches, Crash(survive)
      PROVE  Links'
  BY <1>27, <1>b, <1>c, <1>d, <1>e
     DEF Links, Crash, IdleLaunch, IdleStop, NoJob, Launches, Jobs, Stops
<1>28. ASSUME NEW stopped \in SUBSET Dispatches, Startup(stopped)
      PROVE  Links'
  <2>1. ~ up /\ UNCHANGED <<launch, stop, job, entries, exits>>
    BY <1>28 DEF Startup
  <2>2. \A d \in Dispatches :
           /\ res'[d].row = res[d].row
           /\ res'[d].pane => res'[d] = res[d] \/ (res[d].row /\ res'[d].state = "cleanup_failed")
    <3> SUFFICES ASSUME NEW d \in Dispatches
                 PROVE  /\ res'[d].row = res[d].row
                        /\ res'[d].pane => \/ res'[d] = res[d]
                                          \/ (res[d].row /\ res'[d].state = "cleanup_failed")
      OBVIOUS
    <3> DEFINE targets == {e \in Dispatches :
                              \/ disp[e] \in C!ActiveDispatch
                              \/ res[e].state \in {"live", "cleanup_failed"}}
               panes == {e \in targets : res[e].pane}
    <3>1. \/ res'[d] = res[d]
          \/ /\ res[d].row
             /\ \E a : res'[d] = [res[d] EXCEPT
                           !.pane   = d \in panes \ stopped,
                           !.state  = IF d \in stopped THEN "cleaned"
                                      ELSE IF d \in panes THEN "cleanup_failed" ELSE @,
                           !.reason = a]
      BY <1>28 DEF Startup
    <3>2. res[d] \in Resource
      BY <1>b
    <3> HIDE DEF targets, panes
    <3>3. QED
      BY <3>1, <3>2 DEF Resource
  <2>3. QED
    BY <2>1, <2>2 DEF Links
<1>29. CASE UNCHANGED vars
  BY <1>29, <1>b, <1>c, <1>d, <1>e
     DEF Links, vars, Launches, Jobs, Stops
<1>30. QED
  BY <1>1, <1>2, <1>3, <1>4, <1>5, <1>6, <1>7, <1>8, <1>9, <1>10, <1>11,
     <1>12, <1>13, <1>14, <1>15, <1>16, <1>17, <1>18, <1>19, <1>20, <1>21,
     <1>22, <1>23, <1>24, <1>25, <1>26, <1>27, <1>28, <1>29
     DEF Next, LaunchStep, CleanupStep

\* Every reachable state has them.
LEMMA TypesAndLinks == Spec => [](TypeOK /\ Links)
<1>1. Init => TypeOK /\ Links
  <2>1. C!AbsentGate \in C!GateRecord
    BY DEF C!AbsentGate, C!GateRecord
  <2>2. Init => RowsType
    BY <2>1 DEF Init, RowsType, Dispatches, C!RunStatus, C!TaskStatus, C!DispatchStatus,
       C!ActiveDispatch, C!AgentStatus
  <2>3. IdleLaunch \in Launches /\ IdleStop \in Stops /\ NoJob \in Jobs
    BY DEF IdleLaunch, Launches, LaunchSteps, IdleStop, Stops, NoJob, Jobs
  <2>4. Init => ThreadsType
    <3>1. [row |-> FALSE, worktree |-> FALSE, pane |-> FALSE,
           state |-> "not_created", reason |-> "none"] \in Resource
      BY DEF Resource
    <3>2. Init => res \in [Dispatches -> Resource] /\ workers \in [Dispatches -> SUBSET {"hosted", "orphan"}]
      BY <3>1 DEF Init
    <3>3. Init => job \in [{"launch", "stop"} -> Jobs] /\ launch \in Launches /\ stop \in Stops
      BY <2>3 DEF Init
    <3>4. QED
      BY <3>2, <3>3 DEF Init, ThreadsType
  <2>5. Init => Links
    BY DEF Init, Links, IdleLaunch, IdleStop, NoJob
  <2>6. QED
    BY <2>2, <2>4, <2>5, TypeParts
<1>2. TypeOK /\ Links /\ [Next]_vars => (TypeOK /\ Links)'
  BY TypeStep, LinksStep
<1>3. QED
  BY <1>1, <1>2, PTL DEF Spec

(***************************************************************************)
(* Every reachable state has the types its rows and threads declare.       *)
(***************************************************************************)
THEOREM TypeCorrect == Spec => []TypeOK
  BY TypesAndLinks, PTL

-----------------------------------------------------------------------------
(* Launches and their claims *)

\* Outside a scheduling pass dispatches only go on: none becomes pending.
DispatchesGoOn ==
    /\ claimed' = claimed
    /\ \A d \in Dispatches :
          disp'[d] = disp[d] \/ (disp[d] \in C!ActiveDispatch
                                 /\ disp'[d] \notin {"absent", "pending"})

LEMMA OnlyPassClaims ==
    ASSUME TypeOK, Links, [Next]_vars
    PROVE  NewLaunch \/ DispatchesGoOn
<1>a. disp \in [Dispatches -> C!DispatchStatus]
  BY TypeParts DEF RowsType
<1>1. ASSUME NEW d \in Dispatches, NEW w \in BOOLEAN, C!BindDispatch(d, w)
      PROVE  DispatchesGoOn
  BY <1>a, <1>1 DEF DispatchesGoOn, C!BindDispatch, C!ActiveDispatch
<1>2. ASSUME NEW d \in Dispatches, C!RecordLaunchFailure(d) \/ C!PaneExit(d) \/ C!ReleasePane(d)
      PROVE  DispatchesGoOn
  BY <1>a, <1>2
     DEF DispatchesGoOn, C!RecordLaunchFailure, C!PaneExit, C!ReleasePane, C!ActiveDispatch
<1>3. CASE C!CancelRun \/ C!RejectRun
  BY <1>a, <1>3 DEF DispatchesGoOn, C!CancelRun, C!RejectRun, C!CancelEntities, Dispatches
<1>4. CASE C!DaemonRestart({})
  BY <1>a, <1>4 DEF DispatchesGoOn, C!DaemonRestart, C!ActiveIn, Dispatches
<1>5. CASE UNCHANGED rows
  BY <1>5 DEF DispatchesGoOn, rows
<1>6. CASE DetachOnly
  BY <1>6 DEF DispatchesGoOn, DetachOnly
<1>7. QED
  BY <1>1, <1>2, <1>3, <1>4, <1>5, <1>6, StepTransaction DEF Transaction

\* What a pass inserts is pending and claimed, and was absent.
LEMMA PassClaims ==
    ASSUME TypeOK, C!Schedule(TRUE)
    PROVE  /\ claimed \subseteq claimed'
           /\ \A d \in Dispatches :
                 \/ disp'[d] = disp[d]
                 \/ disp[d] = "absent" /\ disp'[d] = "pending" /\ d \in claimed'
<1>1. PICK ts \in C!SettledTables, sel \in SUBSET C!Tasks : C!SchedulePass(TRUE, ts, sel)
  BY DEF C!Schedule
<1>2. \A d \in C!NewDispatches(sel) : d \in Dispatches /\ disp[d] = "absent"
  <2>1. SUFFICES ASSUME NEW d \in C!NewDispatches(sel), disp[d] # "absent" PROVE FALSE
    BY DEF C!NewDispatches, Dispatches
  <2>2. d \in C!Dispatches /\ C!NextAttempt(d.task, d.attempt)
    BY DEF C!NewDispatches
  <2>3. d.attempt < d.attempt
    BY <2>1, <2>2 DEF C!NextAttempt
  <2>4. d.attempt \in Int
    BY <2>2 DEF C!Dispatches
  <2>5. QED
    BY <2>3, <2>4
<1>3. /\ claimed' = claimed \cup C!NewDispatches(sel)
      /\ \A d \in Dispatches :
            disp'[d] = IF d \in C!NewDispatches(sel) THEN "pending" ELSE disp[d]
  BY <1>1 DEF C!SchedulePass, Dispatches
<1>4. QED
  BY <1>2, <1>3

\* record_launch_failure leaves no dispatch pending.
LEMMA PendingFails ==
    ASSUME TypeOK, NEW d \in Dispatches, C!RecordLaunchFailure(d)
    PROVE  disp'[d] # "pending"
<1>1. disp \in [Dispatches -> C!DispatchStatus]
  BY TypeParts DEF RowsType
<1>2. QED
  BY <1>1 DEF C!RecordLaunchFailure

\* What clients have updated stays known, and so does a race.
LEMMA EditsGrow ==
    ASSUME [Next]_vars
    PROVE  edited \subseteq edited'
<1>1. CASE PrepareLaunch
  BY <1>1 DEF PrepareLaunch
<1>2. CASE NextDispatch
  BY <1>2 DEF NextDispatch
<1>3. ASSUME NEW d \in Dispatches, NEW inWorktree \in Worktrees, ReserveResources(d, inWorktree)
      PROVE  edited \subseteq edited'
  BY <1>3 DEF ReserveResources
<1>4. ASSUME NEW d \in Dispatches, RecordPane(d, "record", "spawn")
      PROVE  edited \subseteq edited'
  BY <1>4 DEF RecordPane
<1>5. ASSUME NEW d \in Dispatches, SpawnWorker(d)
      PROVE  edited \subseteq edited'
  BY <1>5 DEF SpawnWorker
<1>6. ASSUME NEW d \in Dispatches, InsertPane(d)
      PROVE  edited \subseteq edited'
  BY <1>6 DEF InsertPane
<1>7. ASSUME NEW d \in Dispatches, IdentifyWorker(d)
      PROVE  edited \subseteq edited'
  BY <1>7 DEF IdentifyWorker
<1>8. ASSUME NEW d \in Dispatches, RecordPane(d, "capture", "check")
      PROVE  edited \subseteq edited'
  BY <1>8 DEF RecordPane
<1>9. ASSUME NEW d \in Dispatches, CheckPane(d)
      PROVE  edited \subseteq edited'
  BY <1>9 DEF CheckPane
<1>10. ASSUME NEW d \in Dispatches, BindWorker(d)
      PROVE  edited \subseteq edited'
  BY <1>10 DEF BindWorker
<1>11. ASSUME NEW d \in Dispatches, LaunchFailed(d)
      PROVE  edited \subseteq edited'
  BY <1>11 DEF LaunchFailed
<1>12. ASSUME NEW d \in Dispatches, LaunchError(d)
      PROVE  edited \subseteq edited'
  BY <1>12 DEF LaunchError
<1>13. ASSUME NEW persisted \in BOOLEAN, CompleteLaunch(persisted)
      PROVE  edited \subseteq edited'
  BY <1>13 DEF CompleteLaunch
<1>14. ASSUME NEW w \in {"launch", "stop"}, MarkCleanup(w)
      PROVE  edited \subseteq edited'
  BY <1>14 DEF MarkCleanup
<1>15. ASSUME NEW w \in {"launch", "stop"}, ClosePane(w)
      PROVE  edited \subseteq edited'
  BY <1>15 DEF ClosePane
<1>16. ASSUME NEW w \in {"launch", "stop"}, KillWorkers(w)
      PROVE  edited \subseteq edited'
  BY <1>16 DEF KillWorkers
<1>17. ASSUME NEW w \in {"launch", "stop"}, RecordCleanup(w)
      PROVE  edited \subseteq edited'
  BY <1>17 DEF RecordCleanup
<1>18. ASSUME NEW kind \in Verdicts, RequestVerdict(kind)
      PROVE  edited \subseteq edited'
  BY <1>18 DEF RequestVerdict, StartStop
<1>19. ASSUME NEW d \in Dispatches, RequestCleanup(d)
      PROVE  edited \subseteq edited'
  BY <1>19 DEF RequestCleanup, StartStop
<1>20. CASE NextTarget
  BY <1>20 DEF NextTarget
<1>21. CASE TargetDone
  BY <1>21 DEF TargetDone
<1>22. ASSUME NEW persisted \in BOOLEAN, FinishStop(persisted)
      PROVE  edited \subseteq edited'
  BY <1>22 DEF FinishStop
<1>23. ASSUME NEW d \in Dispatches, WorkerExits(d)
      PROVE  edited \subseteq edited'
  BY <1>23 DEF WorkerExits
<1>24. ASSUME NEW d \in Dispatches, MarkExited(d)
      PROVE  edited \subseteq edited'
  BY <1>24 DEF MarkExited
<1>25. ASSUME NEW d \in Dispatches, RecordPaneExit(d)
      PROVE  edited \subseteq edited'
  BY <1>25 DEF RecordPaneExit
<1>26. ASSUME NEW t \in Edits, UpdateTask(t)
      PROVE  edited \subseteq edited'
  BY <1>26 DEF UpdateTask
<1>27. ASSUME NEW survive \in SUBSET Dispatches, Crash(survive)
      PROVE  edited \subseteq edited'
  BY <1>27 DEF Crash
<1>28. ASSUME NEW stopped \in SUBSET Dispatches, Startup(stopped)
      PROVE  edited \subseteq edited'
  BY <1>28 DEF Startup
<1>29. CASE UNCHANGED vars
  BY <1>29 DEF vars
<1>30. QED
  BY <1>1, <1>2, <1>3, <1>4, <1>5, <1>6, <1>7, <1>8, <1>9, <1>10, <1>11,
     <1>12, <1>13, <1>14, <1>15, <1>16, <1>17, <1>18, <1>19, <1>20, <1>21,
     <1>22, <1>23, <1>24, <1>25, <1>26, <1>27, <1>28, <1>29
     DEF Next, LaunchStep, CleanupStep

\* Every pending dispatch is claimed; the launch that runs has it in its list,
\* or had its revision taken away by a client.
ClaimInv ==
    /\ \A d \in Dispatches : disp[d] = "pending" => d \in claimed
    /\ launch.step # "idle" =>
          /\ op = "intent"
          /\ \A t \in C!Tasks : t \in launch.fresh \/ t \in edited
          /\ \A d \in Dispatches :
                disp[d] = "pending" => d \in launch.todo \/ d.task \in edited
    /\ FinishedLaunchLeavesNoPending

LEMMA ClaimStep ==
    ASSUME TypeOK, Links, ClaimInv, [Next]_vars
    PROVE  ClaimInv'
<1>a. launch \in Launches
  BY TypeParts DEF ThreadsType
<1>b. CASE NewLaunch
  <2>1. /\ claimed \subseteq claimed' /\ launch'.todo = claimed' /\ launch'.fresh = C!Tasks
        /\ launch'.step = "next" /\ op' = "intent"
    BY <1>b, PassClaims DEF NewLaunch, PrepareLaunch
  <2>2. \A d \in Dispatches : disp'[d] = "pending" => d \in claimed'
    BY <1>b, <2>1, PassClaims DEF NewLaunch, ClaimInv
  <2>3. QED
    BY <2>1, <2>2 DEF ClaimInv, FinishedLaunchLeavesNoPending
<1>c. ASSUME DispatchesGoOn
      PROVE  ClaimInv'
  <2> USE <1>a, <1>c, DispatchTask
  <2>a. \A d \in Dispatches : disp'[d] = "pending" => disp[d] = "pending" /\ d \in claimed'
    BY DEF DispatchesGoOn, ClaimInv, C!ActiveDispatch
  <2>b. edited \subseteq edited'
    BY EditsGrow
<2>1. CASE PrepareLaunch
    BY <2>1, <2>a, <2>b
       DEF ClaimInv, FinishedLaunchLeavesNoPending, PrepareLaunch,
         BumpRunRevision, Launches
<2>2. CASE NextDispatch
    BY <2>2, <2>a, <2>b
       DEF ClaimInv, FinishedLaunchLeavesNoPending, NextDispatch, Launches
<2>3. ASSUME NEW d \in Dispatches, NEW inWorktree \in Worktrees, ReserveResources(d, inWorktree)
      PROVE  ClaimInv'
    BY <2>3, <2>a, <2>b
       DEF ClaimInv, FinishedLaunchLeavesNoPending, ReserveResources,
         Launching, FailLaunch, Launches
<2>4. ASSUME NEW d \in Dispatches, RecordPane(d, "record", "spawn")
      PROVE  ClaimInv'
    BY <2>4, <2>a, <2>b
       DEF ClaimInv, FinishedLaunchLeavesNoPending, RecordPane, Launching,
         Launches
<2>5. ASSUME NEW d \in Dispatches, SpawnWorker(d)
      PROVE  ClaimInv'
    BY <2>5, <2>a, <2>b
       DEF ClaimInv, FinishedLaunchLeavesNoPending, SpawnWorker, Launching,
         Launches
<2>6. ASSUME NEW d \in Dispatches, InsertPane(d)
      PROVE  ClaimInv'
    BY <2>6, <2>a, <2>b
       DEF ClaimInv, FinishedLaunchLeavesNoPending, InsertPane, FailLaunch, Launching,
         Launches
<2>7. ASSUME NEW d \in Dispatches, IdentifyWorker(d)
      PROVE  ClaimInv'
    BY <2>7, <2>a, <2>b
       DEF ClaimInv, FinishedLaunchLeavesNoPending, IdentifyWorker, Launching,
         FailLaunch, Launches
<2>8. ASSUME NEW d \in Dispatches, RecordPane(d, "capture", "check")
      PROVE  ClaimInv'
    BY <2>8, <2>a, <2>b
       DEF ClaimInv, FinishedLaunchLeavesNoPending, RecordPane, Launching,
         Launches
<2>9. ASSUME NEW d \in Dispatches, CheckPane(d)
      PROVE  ClaimInv'
    BY <2>9, <2>a, <2>b
       DEF ClaimInv, FinishedLaunchLeavesNoPending, CheckPane, Launching,
         FailLaunch, Launches
<2>10. ASSUME NEW d \in Dispatches, BindWorker(d)
      PROVE  ClaimInv'
    <3>1. launch.step = "bind" /\ launch.d = d /\ UNCHANGED <<op, edited>>
      BY <2>10 DEF BindWorker, Launching
    <3>2. CASE C!BindDispatch(d, res[d].worktree) /\ LaunchedNext(d)
      <4>1. disp'[d] # "pending"
        BY <3>2, TypeParts DEF C!BindDispatch, RowsType
      <4>2. launch'.todo = launch.todo \ {d} /\ launch'.fresh = launch.fresh
        BY <3>2 DEF LaunchedNext, Launches
      <4>3. QED
        BY <2>a, <3>1, <4>1, <4>2 DEF ClaimInv, FinishedLaunchLeavesNoPending
    <3>3. CASE FailLaunch(d)
      BY <2>a, <3>1, <3>3 DEF ClaimInv, FinishedLaunchLeavesNoPending, FailLaunch, Launches
    <3>4. QED
      BY <2>10, <3>2, <3>3 DEF BindWorker
<2>11. ASSUME NEW d \in Dispatches, LaunchFailed(d)
      PROVE  ClaimInv'
    <3>1. launch'.step = "next" /\ launch'.todo = launch.todo \ {d} /\ launch'.fresh = launch.fresh
      BY <2>11 DEF LaunchFailed, Launching, LaunchedNext, Launches
    <3>2. disp'[d] = "pending" => d.task \in edited
      BY <2>11, <2>a, PendingFails DEF LaunchFailed, Launching, ClaimInv
    <3>3. launch.step # "idle" /\ UNCHANGED <<op, edited>>
      BY <2>11 DEF LaunchFailed, Launching
    <3>4. QED
      BY <2>a, <3>1, <3>2, <3>3 DEF ClaimInv, FinishedLaunchLeavesNoPending
<2>12. ASSUME NEW d \in Dispatches, LaunchError(d)
      PROVE  ClaimInv'
    BY <2>12, <2>a, <2>b
       DEF ClaimInv, FinishedLaunchLeavesNoPending, LaunchError, FailLaunch,
         Launches
<2>13. ASSUME NEW persisted \in BOOLEAN, CompleteLaunch(persisted)
      PROVE  ClaimInv'
    BY <2>13, <2>a, <2>b
       DEF ClaimInv, FinishedLaunchLeavesNoPending, CompleteLaunch, IdleLaunch,
         Launches
<2>14. ASSUME NEW w \in {"launch", "stop"}, MarkCleanup(w)
      PROVE  ClaimInv'
    BY <2>14, <2>a, <2>b
       DEF ClaimInv, FinishedLaunchLeavesNoPending, MarkCleanup, At, Reason,
         Launches
<2>15. ASSUME NEW w \in {"launch", "stop"}, ClosePane(w)
      PROVE  ClaimInv'
    BY <2>15, <2>a, <2>b
       DEF ClaimInv, FinishedLaunchLeavesNoPending, ClosePane, At, JobAt,
         Launches
<2>16. ASSUME NEW w \in {"launch", "stop"}, KillWorkers(w)
      PROVE  ClaimInv'
    BY <2>16, <2>a, <2>b
       DEF ClaimInv, FinishedLaunchLeavesNoPending, KillWorkers, At, JobAt,
         Launches
<2>17. ASSUME NEW w \in {"launch", "stop"}, RecordCleanup(w)
      PROVE  ClaimInv'
    BY <2>17, <2>a, <2>b
       DEF ClaimInv, FinishedLaunchLeavesNoPending, RecordCleanup, At, JobAt,
         Reason, Launches
<2>18. ASSUME NEW kind \in Verdicts, RequestVerdict(kind)
      PROVE  ClaimInv'
    BY <2>18, <2>a, <2>b
       DEF ClaimInv, FinishedLaunchLeavesNoPending, RequestVerdict, StartStop,
         Launches
<2>19. ASSUME NEW d \in Dispatches, RequestCleanup(d)
      PROVE  ClaimInv'
    BY <2>19, <2>a, <2>b
       DEF ClaimInv, FinishedLaunchLeavesNoPending, RequestCleanup, StartStop,
         Launches
<2>20. CASE NextTarget
    BY <2>20, <2>a, <2>b
       DEF ClaimInv, FinishedLaunchLeavesNoPending, NextTarget, Launches
<2>21. CASE TargetDone
    BY <2>21, <2>a, <2>b
       DEF ClaimInv, FinishedLaunchLeavesNoPending, TargetDone, Launches
<2>22. ASSUME NEW persisted \in BOOLEAN, FinishStop(persisted)
      PROVE  ClaimInv'
    BY <2>22, <2>a, <2>b
       DEF ClaimInv, FinishedLaunchLeavesNoPending, FinishStop, IdleStop,
         NoJob, Launches
<2>23. ASSUME NEW d \in Dispatches, WorkerExits(d)
      PROVE  ClaimInv'
    BY <2>23, <2>a, <2>b
       DEF ClaimInv, FinishedLaunchLeavesNoPending, WorkerExits, Launches
<2>24. ASSUME NEW d \in Dispatches, MarkExited(d)
      PROVE  ClaimInv'
    BY <2>24, <2>a, <2>b
       DEF ClaimInv, FinishedLaunchLeavesNoPending, MarkExited, Launches
<2>25. ASSUME NEW d \in Dispatches, RecordPaneExit(d)
      PROVE  ClaimInv'
    BY <2>25, <2>a, <2>b
       DEF ClaimInv, FinishedLaunchLeavesNoPending, RecordPaneExit,
         BumpRunRevision, Intentional, Launches
<2>26. ASSUME NEW t \in Edits, UpdateTask(t)
      PROVE  ClaimInv'
    BY <2>26, <2>a, <2>b
       DEF ClaimInv, FinishedLaunchLeavesNoPending, UpdateTask,
         BumpRunRevision, Launches
<2>27. ASSUME NEW survive \in SUBSET Dispatches, Crash(survive)
      PROVE  ClaimInv'
    BY <2>27, <2>a, <2>b
       DEF ClaimInv, FinishedLaunchLeavesNoPending, Crash, IdleLaunch,
         IdleStop, NoJob, Launches
<2>28. ASSUME NEW stopped \in SUBSET Dispatches, Startup(stopped)
      PROVE  ClaimInv'
    BY <2>28, <2>a, <2>b
       DEF ClaimInv, FinishedLaunchLeavesNoPending, Startup, Intentional,
         Launches
<2>29. CASE UNCHANGED vars
    BY <2>29, <2>a, <2>b
       DEF ClaimInv, FinishedLaunchLeavesNoPending, vars, Launches
<2>30. QED
  BY <2>1, <2>2, <2>3, <2>4, <2>5, <2>6, <2>7, <2>8, <2>9, <2>10, <2>11,
     <2>12, <2>13, <2>14, <2>15, <2>16, <2>17, <2>18, <2>19, <2>20, <2>21,
     <2>22, <2>23, <2>24, <2>25, <2>26, <2>27, <2>28, <2>29
     DEF Next, LaunchStep, CleanupStep
<1>d. QED
  BY <1>b, <1>c, OnlyPassClaims

(***************************************************************************)
(* A launch operation that is final has bound or failed every dispatch it  *)
(* claimed, but for tasks that clients updated while it ran.               *)
(***************************************************************************)
THEOREM LaunchSettles == Spec => []FinishedLaunchLeavesNoPending
<1>1. Init => ClaimInv
  BY DEF Init, ClaimInv, FinishedLaunchLeavesNoPending, IdleLaunch
<1>2. TypeOK /\ Links /\ ClaimInv /\ [Next]_vars => ClaimInv'
  BY ClaimStep
<1>3. ClaimInv => FinishedLaunchLeavesNoPending
  BY DEF ClaimInv
<1>4. QED
  BY <1>1, <1>2, <1>3, TypesAndLinks, PTL DEF Spec

-----------------------------------------------------------------------------
(* Workers *)

\* Nothing of d is left in the daemon.
Clean(d) == workers[d] = {} /\ d \notin entries /\ d \notin exits

\* What the worker of d, its pane and the threads know of each other.
WorkerOf(d) ==
    /\ workers[d] \in {{}, {"hosted"}, {"orphan"}}
    /\ workers[d] # {} => res[d].pane
    /\ d \in entries => workers[d] # {"orphan"}
    /\ d \in exits => workers[d] = {} /\ d \notin entries
    /\ launch.d = d =>
          /\ launch.step = "reserve" => res[d].state = "cleanup_failed" \/ Clean(d)
          /\ launch.step \in {"record", "spawn"} => Clean(d)
          /\ launch.step = "insert" =>
                d \notin entries /\ d \notin exits /\ workers[d] # {"orphan"}
          /\ launch.step \in {"spawn", "insert"} => res[d].pane
          /\ launch.step = "failing" /\ job["launch"].step = "end" =>
                res[d].state = "cleanup_failed" \/ workers[d] = {}
    /\ up /\ launch.d # d /\ disp[d] \in {"absent", "pending"} =>
          res[d].state = "cleanup_failed" \/ workers[d] = {}
    /\ launch.d # d /\ d \in launch.todo /\ disp[d] = "pending" =>
          res[d].state = "cleanup_failed" \/ Clean(d)
    /\ \A w \in {"launch", "stop"} :
          job[w].step = "stopped" /\ job[w].d = d => workers[d] = {}

WorkerInv ==
    ~ raced =>
        /\ launch.step = "idle" \/ stop.step = "idle"
        /\ \A d \in Dispatches : WorkerOf(d)

LEMMA NoDispatchIsNone == C!NoDispatch \notin Dispatches
  BY LaunchAssumption DEF Dispatches, C!Dispatches, C!Tasks, C!NoDispatch

\* Once threads have met, they have; until then only one of them runs.
LEMMA RaceStep ==
    ASSUME TypeOK, Links, ~ raced => launch.step = "idle" \/ stop.step = "idle", [Next]_vars, ~ raced'
    PROVE  ~ raced /\ (launch'.step = "idle" \/ stop'.step = "idle")
<1>a. launch \in Launches /\ stop \in Stops /\ raced \in BOOLEAN
  BY TypeParts DEF ThreadsType
<1>1. CASE PrepareLaunch
  BY <1>1, <1>a
     DEF PrepareLaunch, BumpRunRevision, Launches, Stops
<1>2. CASE NextDispatch
  BY <1>2, <1>a
     DEF NextDispatch, Launches, Stops
<1>3. ASSUME NEW d \in Dispatches, NEW inWorktree \in Worktrees, ReserveResources(d, inWorktree)
      PROVE  ~ raced /\ (launch'.step = "idle" \/ stop'.step = "idle")
  BY <1>3, <1>a
     DEF ReserveResources, Launching, FailLaunch, Launches, Stops
<1>4. ASSUME NEW d \in Dispatches, RecordPane(d, "record", "spawn")
      PROVE  ~ raced /\ (launch'.step = "idle" \/ stop'.step = "idle")
  BY <1>4, <1>a
     DEF RecordPane, Launching, Launches, Stops
<1>5. ASSUME NEW d \in Dispatches, SpawnWorker(d)
      PROVE  ~ raced /\ (launch'.step = "idle" \/ stop'.step = "idle")
  BY <1>5, <1>a
     DEF SpawnWorker, Launching, Launches, Stops
<1>6. ASSUME NEW d \in Dispatches, InsertPane(d)
      PROVE  ~ raced /\ (launch'.step = "idle" \/ stop'.step = "idle")
  BY <1>6, <1>a
     DEF InsertPane, FailLaunch, Launching, Launches, Stops
<1>7. ASSUME NEW d \in Dispatches, IdentifyWorker(d)
      PROVE  ~ raced /\ (launch'.step = "idle" \/ stop'.step = "idle")
  BY <1>7, <1>a
     DEF IdentifyWorker, Launching, FailLaunch, Launches, Stops
<1>8. ASSUME NEW d \in Dispatches, RecordPane(d, "capture", "check")
      PROVE  ~ raced /\ (launch'.step = "idle" \/ stop'.step = "idle")
  BY <1>8, <1>a
     DEF RecordPane, Launching, Launches, Stops
<1>9. ASSUME NEW d \in Dispatches, CheckPane(d)
      PROVE  ~ raced /\ (launch'.step = "idle" \/ stop'.step = "idle")
  BY <1>9, <1>a
     DEF CheckPane, Launching, FailLaunch, Launches, Stops
<1>10. ASSUME NEW d \in Dispatches, BindWorker(d)
      PROVE  ~ raced /\ (launch'.step = "idle" \/ stop'.step = "idle")
  BY <1>10, <1>a
     DEF BindWorker, Launching, LaunchedNext, FailLaunch, Launches, Stops
<1>11. ASSUME NEW d \in Dispatches, LaunchFailed(d)
      PROVE  ~ raced /\ (launch'.step = "idle" \/ stop'.step = "idle")
  BY <1>11, <1>a
     DEF LaunchFailed, Launching, LaunchedNext, Launches, Stops
<1>12. ASSUME NEW d \in Dispatches, LaunchError(d)
      PROVE  ~ raced /\ (launch'.step = "idle" \/ stop'.step = "idle")
  BY <1>12, <1>a
     DEF LaunchError, FailLaunch, Launches, Stops
<1>13. ASSUME NEW persisted \in BOOLEAN, CompleteLaunch(persisted)
      PROVE  ~ raced /\ (launch'.step = "idle" \/ stop'.step = "idle")
  BY <1>13, <1>a
     DEF CompleteLaunch, IdleLaunch, Launches, Stops
<1>14. ASSUME NEW w \in {"launch", "stop"}, MarkCleanup(w)
      PROVE  ~ raced /\ (launch'.step = "idle" \/ stop'.step = "idle")
  BY <1>14, <1>a
     DEF MarkCleanup, At, Reason, Launches, Stops
<1>15. ASSUME NEW w \in {"launch", "stop"}, ClosePane(w)
      PROVE  ~ raced /\ (launch'.step = "idle" \/ stop'.step = "idle")
  BY <1>15, <1>a
     DEF ClosePane, At, JobAt, Launches, Stops
<1>16. ASSUME NEW w \in {"launch", "stop"}, KillWorkers(w)
      PROVE  ~ raced /\ (launch'.step = "idle" \/ stop'.step = "idle")
  BY <1>16, <1>a
     DEF KillWorkers, At, JobAt, Launches, Stops
<1>17. ASSUME NEW w \in {"launch", "stop"}, RecordCleanup(w)
      PROVE  ~ raced /\ (launch'.step = "idle" \/ stop'.step = "idle")
  BY <1>17, <1>a
     DEF RecordCleanup, At, JobAt, Reason, Launches, Stops
<1>18. ASSUME NEW kind \in Verdicts, RequestVerdict(kind)
      PROVE  ~ raced /\ (launch'.step = "idle" \/ stop'.step = "idle")
  BY <1>18, <1>a
     DEF RequestVerdict, StartStop, Launches, Stops
<1>19. ASSUME NEW d \in Dispatches, RequestCleanup(d)
      PROVE  ~ raced /\ (launch'.step = "idle" \/ stop'.step = "idle")
  BY <1>19, <1>a
     DEF RequestCleanup, StartStop, Launches, Stops
<1>20. CASE NextTarget
  BY <1>20, <1>a
     DEF NextTarget, Launches, Stops
<1>21. CASE TargetDone
  BY <1>21, <1>a
     DEF TargetDone, Launches, Stops
<1>22. ASSUME NEW persisted \in BOOLEAN, FinishStop(persisted)
      PROVE  ~ raced /\ (launch'.step = "idle" \/ stop'.step = "idle")
  BY <1>22, <1>a
     DEF FinishStop, IdleStop, NoJob, Launches, Stops
<1>23. ASSUME NEW d \in Dispatches, WorkerExits(d)
      PROVE  ~ raced /\ (launch'.step = "idle" \/ stop'.step = "idle")
  BY <1>23, <1>a
     DEF WorkerExits, Launches, Stops
<1>24. ASSUME NEW d \in Dispatches, MarkExited(d)
      PROVE  ~ raced /\ (launch'.step = "idle" \/ stop'.step = "idle")
  BY <1>24, <1>a
     DEF MarkExited, Launches, Stops
<1>25. ASSUME NEW d \in Dispatches, RecordPaneExit(d)
      PROVE  ~ raced /\ (launch'.step = "idle" \/ stop'.step = "idle")
  BY <1>25, <1>a
     DEF RecordPaneExit, BumpRunRevision, Intentional, Launches, Stops
<1>26. ASSUME NEW t \in Edits, UpdateTask(t)
      PROVE  ~ raced /\ (launch'.step = "idle" \/ stop'.step = "idle")
  BY <1>26, <1>a
     DEF UpdateTask, BumpRunRevision, Launches, Stops
<1>27. ASSUME NEW survive \in SUBSET Dispatches, Crash(survive)
      PROVE  ~ raced /\ (launch'.step = "idle" \/ stop'.step = "idle")
  BY <1>27, <1>a
     DEF Crash, IdleLaunch, IdleStop, NoJob, Launches, Stops
<1>28. ASSUME NEW stopped \in SUBSET Dispatches, Startup(stopped)
      PROVE  ~ raced /\ (launch'.step = "idle" \/ stop'.step = "idle")
  BY <1>28, <1>a
     DEF Startup, Intentional, Launches, Stops
<1>29. CASE UNCHANGED vars
  BY <1>29, <1>a
     DEF vars, Launches, Stops
<1>30. QED
  BY <1>1, <1>2, <1>3, <1>4, <1>5, <1>6, <1>7, <1>8, <1>9, <1>10, <1>11,
     <1>12, <1>13, <1>14, <1>15, <1>16, <1>17, <1>18, <1>19, <1>20, <1>21,
     <1>22, <1>23, <1>24, <1>25, <1>26, <1>27, <1>28, <1>29
     DEF Next, LaunchStep, CleanupStep

\* No step of a thread, a worker, a reader or the daemon leaves a worker that
\* its row does not tell of, or starts one beside another.
LEMMA WorkerStep ==
    ASSUME TypeOK, Links, WorkerInv, [Next]_vars
    PROVE  WorkerInv'
<1> SUFFICES ASSUME ~ raced' PROVE (launch'.step = "idle" \/ stop'.step = "idle")
                                   /\ \A d \in Dispatches : WorkerOf(d)'
  BY DEF WorkerInv
<1>a. ~ raced /\ (launch.step = "idle" \/ stop.step = "idle")
  BY RaceStep DEF WorkerInv
<1>b. launch'.step = "idle" \/ stop'.step = "idle"
  BY RaceStep DEF WorkerInv
<1> SUFFICES ASSUME NEW x \in Dispatches PROVE WorkerOf(x)'
  BY <1>b
<1>c. WorkerOf(x) /\ x # C!NoDispatch
  BY <1>a, NoDispatchIsNone DEF WorkerInv
<1>d. res \in [Dispatches -> Resource] /\ workers \in [Dispatches -> SUBSET {"hosted", "orphan"}]
  BY TypeParts DEF ThreadsType
<1>e. launch \in Launches /\ stop \in Stops /\ job \in [{"launch", "stop"} -> Jobs]
  BY TypeParts DEF ThreadsType
<1>f. CASE NewLaunch
  <2>1. /\ launch'.d = C!NoDispatch /\ launch'.step = "next" /\ Reporting = {}
        /\ UNCHANGED <<res, workers, entries, exits, job, up>> /\ launch.step = "idle"
    BY <1>f DEF NewLaunch, PrepareLaunch
  <2>2. launch.d # x /\ up
    BY <1>c, <1>f, <2>1 DEF Links, NewLaunch, PrepareLaunch
  <2>3. disp'[x] \in {"absent", "pending"} => disp[x] \in {"absent", "pending"}
    BY <1>f, PassClaims DEF NewLaunch
  <2>4. workers[x] = {} => Clean(x)
    BY <2>1 DEF Clean, Reporting
  <2>5. QED
    BY <1>c, <2>1, <2>2, <2>3, <2>4 DEF WorkerOf, Clean
<1>g. ASSUME DispatchesGoOn
      PROVE  WorkerOf(x)'
  <2>a. disp'[x] \in {"absent", "pending"} => disp'[x] = disp[x]
    BY <1>g DEF DispatchesGoOn
<2>1. CASE PrepareLaunch
    <3>1. /\ launch'.d = C!NoDispatch /\ launch'.step = "next" /\ Reporting = {}
          /\ UNCHANGED <<res, workers, entries, exits, job, up>> /\ launch.step = "idle"
      BY <2>1, <1>a DEF PrepareLaunch
    <3>2. launch.d # x /\ up
      BY <1>c, <2>1, <3>1 DEF Links, PrepareLaunch
    <3>3. workers[x] = {} => Clean(x)
      BY <3>1 DEF Clean, Reporting
    <3>4. QED
      BY <1>c, <2>a, <3>1, <3>2, <3>3 DEF WorkerOf, Clean
<2>2. CASE NextDispatch
    <3>1. First(launch.todo) \in launch.todo /\ launch.step = "next"
      BY <2>2, <1>e, FirstIsIn DEF NextDispatch, Launches
    <3>2. /\ launch' = IF disp[First(launch.todo)] = "pending"
                       THEN [launch EXCEPT !.step = "reserve", !.d = First(launch.todo)]
                       ELSE [launch EXCEPT !.todo = @ \ {First(launch.todo)}]
          /\ UNCHANGED <<rows, res, workers, entries, exits, job, up>>
      BY <2>2 DEF NextDispatch
    <3>3. /\ launch'.step \in {"next", "reserve"} /\ launch'.todo \subseteq launch.todo
          /\ launch'.d = x =>
                \/ launch'.step = "next" /\ launch.d = x
                \/ launch'.step = "reserve" /\ x \in launch.todo /\ disp[x] = "pending"
      BY <1>e, <3>1, <3>2 DEF Launches
    <3>4. launch.d # x
      BY <1>c, <3>1 DEF Links
    <3>5. QED
      BY <1>c, <2>a, <3>2, <3>3, <3>4 DEF WorkerOf, Clean
<2>3. ASSUME NEW d \in Dispatches, NEW inWorktree \in Worktrees, ReserveResources(d, inWorktree)
      PROVE  WorkerOf(x)'
    BY <2>3, <2>a, <1>a, <1>c, <1>d, <1>e
       DEF WorkerOf, Clean, Links, ReserveResources, Launching, FailLaunch,
         Launches, Jobs, Resource
<2>4. ASSUME NEW d \in Dispatches, RecordPane(d, "record", "spawn")
      PROVE  WorkerOf(x)'
    BY <2>4, <2>a, <1>a, <1>c, <1>d, <1>e
       DEF WorkerOf, Clean, Links, RecordPane, Launching, Launches, Jobs,
         Resource
<2>5. ASSUME NEW d \in Dispatches, SpawnWorker(d)
      PROVE  WorkerOf(x)'
    <3>1. /\ launch.step = "spawn" /\ launch.d = d /\ launch'.d = d /\ launch'.todo = launch.todo
          /\ UNCHANGED <<res, entries, exits, job, up, disp>>
      BY <2>5, <1>e DEF SpawnWorker, Launching, Launches, rows
    <3>2. CASE x = d
      <4>1. Clean(x) /\ res[x].pane
        BY <1>c, <3>1, <3>2 DEF WorkerOf
      <4>2. workers'[x] = {"hosted"} /\ launch'.step = "insert"
        BY <1>d, <1>e, <2>5, <3>2, <4>1 DEF SpawnWorker, Clean, Launches
      <4>3. job'["launch"].step = "idle" /\ job'["stop"].step = "idle"
        BY <1>a, <3>1 DEF Links
      <4>4. QED
        BY <1>c, <3>1, <3>2, <4>1, <4>2, <4>3 DEF WorkerOf, Clean
    <3>3. CASE x # d
      <4>1. workers'[x] = workers[x]
        BY <1>d, <2>5, <3>3 DEF SpawnWorker
      <4>2. QED
        BY <1>c, <3>1, <3>3, <4>1 DEF WorkerOf, Clean
    <3>4. QED
      BY <3>2, <3>3
<2>6. ASSUME NEW d \in Dispatches, InsertPane(d)
      PROVE  WorkerOf(x)'
    BY <2>6, <2>a, <1>a, <1>c, <1>d, <1>e
       DEF WorkerOf, Clean, Links, InsertPane, FailLaunch, Launching, Launches, Jobs
<2>7. ASSUME NEW d \in Dispatches, IdentifyWorker(d)
      PROVE  WorkerOf(x)'
    BY <2>7, <2>a, <1>a, <1>c, <1>d, <1>e
       DEF WorkerOf, Clean, Links, IdentifyWorker, Launching, FailLaunch,
         Launches, Jobs
<2>8. ASSUME NEW d \in Dispatches, RecordPane(d, "capture", "check")
      PROVE  WorkerOf(x)'
    BY <2>8, <2>a, <1>a, <1>c, <1>d, <1>e
       DEF WorkerOf, Clean, Links, RecordPane, Launching, Launches, Jobs,
         Resource
<2>9. ASSUME NEW d \in Dispatches, CheckPane(d)
      PROVE  WorkerOf(x)'
    BY <2>9, <2>a, <1>a, <1>c, <1>d, <1>e
       DEF WorkerOf, Clean, Links, CheckPane, Launching, FailLaunch, Launches,
         Jobs
<2>10. ASSUME NEW d \in Dispatches, BindWorker(d)
      PROVE  WorkerOf(x)'
    <3>1. /\ launch.step = "bind" /\ launch.d = d
          /\ UNCHANGED <<res, workers, entries, exits, up>>
      BY <2>10 DEF BindWorker, Launching
    <3>2. CASE C!BindDispatch(d, res[d].worktree) /\ LaunchedNext(d) /\ UNCHANGED job
      <4>1. disp'[d] = "dispatched"
        BY <3>2, TypeParts DEF C!BindDispatch, RowsType
      <4>2. launch'.d = C!NoDispatch /\ launch'.todo \subseteq launch.todo /\ launch'.step = "next"
        BY <1>e, <3>2 DEF LaunchedNext, Launches
      <4>3. QED
        BY <1>c, <2>a, <3>1, <3>2, <4>1, <4>2 DEF WorkerOf, Clean
    <3>3. CASE FailLaunch(d) /\ UNCHANGED rows
      BY <1>c, <1>d, <1>e, <3>1, <3>3 DEF WorkerOf, Clean, FailLaunch, Links, Launches, Jobs, Resource, rows
    <3>4. QED
      BY <2>10, <3>2, <3>3 DEF BindWorker
<2>11. ASSUME NEW d \in Dispatches, LaunchFailed(d)
      PROVE  WorkerOf(x)'
    <3>1. /\ launch.step = "failing" /\ launch.d = d /\ job["launch"].step = "end"
          /\ UNCHANGED <<res, workers, entries, exits, up>>
      BY <2>11 DEF LaunchFailed, Launching
    <3>2. launch'.d = C!NoDispatch /\ launch'.todo = launch.todo \ {d} /\ launch'.step = "next"
      BY <1>e, <2>11 DEF LaunchFailed, LaunchedNext, Launches
    <3>3. job'["launch"].step = "idle" /\ job'["stop"] = job["stop"]
      BY <1>e, <2>11 DEF LaunchFailed, NoJob
    <3>4. QED
      BY <1>c, <2>a, <3>1, <3>2, <3>3 DEF WorkerOf, Clean
<2>12. ASSUME NEW d \in Dispatches, LaunchError(d)
      PROVE  WorkerOf(x)'
    BY <2>12, <2>a, <1>a, <1>c, <1>d, <1>e
       DEF WorkerOf, Clean, Links, LaunchError, FailLaunch, Launches, Jobs
<2>13. ASSUME NEW persisted \in BOOLEAN, CompleteLaunch(persisted)
      PROVE  WorkerOf(x)'
    BY <2>13, <2>a, <1>a, <1>c, <1>d, <1>e
       DEF WorkerOf, Clean, Links, CompleteLaunch, IdleLaunch, Launches, Jobs
<2>14. ASSUME NEW w \in {"launch", "stop"}, MarkCleanup(w)
      PROVE  WorkerOf(x)'
    BY <2>14, <2>a, <1>a, <1>c, <1>d, <1>e
       DEF WorkerOf, Clean, Links, MarkCleanup, At, Reason, Launches, Jobs,
         Resource
<2>15. ASSUME NEW w \in {"launch", "stop"}, ClosePane(w)
      PROVE  WorkerOf(x)'
    BY <2>15, <2>a, <1>a, <1>c, <1>d, <1>e
       DEF WorkerOf, Clean, Links, ClosePane, At, JobAt, Launches, Jobs
<2>16. ASSUME NEW w \in {"launch", "stop"}, KillWorkers(w)
      PROVE  WorkerOf(x)'
    <3>1. /\ job[w].step = "kill" /\ UNCHANGED <<rows, res, entries, exits, launch, up>>
          /\ w = "launch" => launch.step = "failing"
      BY <1>e, <2>16 DEF KillWorkers, At, Links
    <3>2. /\ \A v \in {"launch", "stop"} : v # w => job'[v] = job[v]
          /\ job'[w].d = job[w].d
          /\ \/ job'[w].step = "stopped" /\ workers' = [workers EXCEPT ![job[w].d] = {}]
             \/ job'[w].step = "failed" /\ workers' = workers
      <4>1. job[w] \in Jobs
        BY <1>e
      <4>2. JobAt(w, job'[w].step) /\ job'[w].step \in {"stopped", "failed"}
        BY <1>e, <2>16, <4>1 DEF KillWorkers, JobAt, Jobs
      <4>3. \A v \in {"launch", "stop"} : v # w => job'[v] = job[v]
        BY <1>e, <4>2 DEF JobAt
      <4>4. job'[w].d = job[w].d
        BY <1>e, <4>1, <4>2 DEF JobAt, Jobs
      <4>5. \/ job'[w].step = "stopped" /\ workers' = [workers EXCEPT ![job[w].d] = {}]
            \/ job'[w].step = "failed" /\ workers' = workers
        BY <1>e, <2>16, <4>1 DEF KillWorkers, JobAt, Jobs
      <4>6. QED
        BY <4>3, <4>4, <4>5
    <3>3. workers'[x] = workers[x] \/ workers'[x] = {}
      BY <1>d, <3>2
    <3>4. job'[w].step = "stopped" /\ job'[w].d = x => workers'[x] = {}
      BY <1>d, <3>2
    <3>5. QED
      BY <1>c, <2>a, <3>1, <3>2, <3>3, <3>4 DEF WorkerOf, Clean
<2>17. ASSUME NEW w \in {"launch", "stop"}, RecordCleanup(w)
      PROVE  WorkerOf(x)'
    BY <2>17, <2>a, <1>a, <1>c, <1>d, <1>e
       DEF WorkerOf, Clean, Links, RecordCleanup, At, JobAt, Reason, Launches,
         Jobs, Resource
<2>18. ASSUME NEW kind \in Verdicts, RequestVerdict(kind)
      PROVE  WorkerOf(x)'
    BY <2>18, <2>a, <1>a, <1>c, <1>d, <1>e
       DEF WorkerOf, Clean, Links, RequestVerdict, StartStop, Launches, Jobs,
         Stops
<2>19. ASSUME NEW d \in Dispatches, RequestCleanup(d)
      PROVE  WorkerOf(x)'
    BY <2>19, <2>a, <1>a, <1>c, <1>d, <1>e
       DEF WorkerOf, Clean, Links, RequestCleanup, StartStop, Launches, Jobs,
         Stops
<2>20. CASE NextTarget
    BY <2>20, <2>a, <1>a, <1>c, <1>d, <1>e
       DEF WorkerOf, Clean, Links, NextTarget, Launches, Jobs, Stops
<2>21. CASE TargetDone
    BY <2>21, <2>a, <1>a, <1>c, <1>d, <1>e
       DEF WorkerOf, Clean, Links, TargetDone, Launches, Jobs, Stops
<2>22. ASSUME NEW persisted \in BOOLEAN, FinishStop(persisted)
      PROVE  WorkerOf(x)'
    BY <2>22, <2>a, <1>a, <1>c, <1>d, <1>e
       DEF WorkerOf, Clean, Links, FinishStop, IdleStop, NoJob, Launches, Jobs,
         Stops
<2>23. ASSUME NEW d \in Dispatches, WorkerExits(d)
      PROVE  WorkerOf(x)'
    <3>1. UNCHANGED <<rows, res, entries, exits, launch, job, up>>
      BY <2>23 DEF WorkerExits
    <3>2. PICK p \in workers[d] : workers' = [workers EXCEPT ![d] = @ \ {p}]
      BY <2>23 DEF WorkerExits
    <3>3. workers'[x] = workers[x] \/ workers'[x] = {}
      <4>1. CASE x = d
        <5>1. workers[x] = {"hosted"} \/ workers[x] = {"orphan"}
          BY <1>c, <3>2, <4>1 DEF WorkerOf
        <5>2. workers'[x] = workers[x] \ {p}
          BY <1>d, <3>2, <4>1
        <5>3. QED
          BY <3>2, <4>1, <5>1, <5>2
      <4>2. CASE x # d
        BY <1>d, <3>2, <4>2
      <4>3. QED
        BY <4>1, <4>2
    <3>4. QED
      BY <1>c, <2>a, <3>1, <3>3 DEF WorkerOf, Clean
<2>24. ASSUME NEW d \in Dispatches, MarkExited(d)
      PROVE  WorkerOf(x)'
    BY <2>24, <2>a, <1>a, <1>c, <1>d, <1>e
       DEF WorkerOf, Clean, Links, MarkExited, Launches, Jobs
<2>25. ASSUME NEW d \in Dispatches, RecordPaneExit(d)
      PROVE  WorkerOf(x)'
    BY <2>25, <2>a, <1>a, <1>c, <1>d, <1>e
       DEF WorkerOf, Clean, Links, RecordPaneExit, BumpRunRevision,
         Intentional, Launches, Jobs, Resource, Stops
<2>26. ASSUME NEW t \in Edits, UpdateTask(t)
      PROVE  WorkerOf(x)'
    BY <2>26, <2>a, <1>a, <1>c, <1>d, <1>e
       DEF WorkerOf, Clean, Links, UpdateTask, BumpRunRevision, Launches, Jobs,
         Stops
<2>27. ASSUME NEW survive \in SUBSET Dispatches, Crash(survive)
      PROVE  WorkerOf(x)'
    BY <2>27, <2>a, <1>a, <1>c, <1>d, <1>e
       DEF WorkerOf, Clean, Links, Crash, IdleLaunch, IdleStop, NoJob,
         Launches, Jobs, Stops
<2>28. ASSUME NEW stopped \in SUBSET Dispatches, Startup(stopped)
      PROVE  WorkerOf(x)'
    <3>1. ~ up /\ UNCHANGED <<entries, exits, launch, stop, job>>
      BY <2>28 DEF Startup
    <3>2. /\ launch.step = "idle" /\ stop.step = "idle" /\ x \notin entries /\ x \notin exits
          /\ launch.d # x /\ launch.todo = {}
          /\ job["launch"].step = "idle" /\ job["stop"].step = "idle"
      BY <1>c, <3>1 DEF Links
    <3>3. workers'[x] = workers[x] \/ workers'[x] = {}
      BY <2>28 DEF Startup
    <3>4. workers'[x] # {} => res'[x].pane /\ ~ up'
      <4>1. SUFFICES ASSUME workers'[x] # {} PROVE res'[x].pane /\ ~ up'
        OBVIOUS
      <4>2. x \notin stopped /\ workers[x] # {}
        BY <2>28, <4>1 DEF Startup
      <4>3. res[x].pane /\ res[x].row /\ res[x].state \in {"live", "cleanup_failed"}
        BY <1>c, <4>2 DEF WorkerOf, Links
      <4>4. res[x] \in Resource
        BY <1>d
      <4>5. res'[x].pane /\ res'[x].state = "cleanup_failed"
        BY <2>28, <4>2, <4>3, <4>4 DEF Startup, Resource
      <4>6. up' => Stopped(res'[x])
        BY <2>28, <4>3 DEF Startup
      <4>7. QED
        BY <4>5, <4>6 DEF Stopped
    <3>5. QED
      BY <1>c, <3>1, <3>2, <3>3, <3>4 DEF WorkerOf, Clean
<2>29. CASE UNCHANGED vars
    BY <2>29, <2>a, <1>a, <1>c, <1>d, <1>e
       DEF WorkerOf, Clean, Links, vars, Launches, Jobs
<2>30. QED
  BY <2>1, <2>2, <2>3, <2>4, <2>5, <2>6, <2>7, <2>8, <2>9, <2>10, <2>11,
     <2>12, <2>13, <2>14, <2>15, <2>16, <2>17, <2>18, <2>19, <2>20, <2>21,
     <2>22, <2>23, <2>24, <2>25, <2>26, <2>27, <2>28, <2>29
     DEF Next, LaunchStep, CleanupStep
<1>h. QED
  BY <1>f, <1>g, OnlyPassClaims

\* Every reachable state has the invariant.
LEMMA WorkersKnown == Spec => []WorkerInv
<1>1. Init => WorkerInv
  BY NoDispatchIsNone DEF Init, WorkerInv, WorkerOf, Clean, IdleLaunch, IdleStop, NoJob
<1>2. TypeOK /\ Links /\ WorkerInv /\ [Next]_vars => WorkerInv'
  BY WorkerStep
<1>3. QED
  BY <1>1, <1>2, TypesAndLinks, PTL DEF Spec

(***************************************************************************)
(* However launches fail and are continued, and daemons die, a dispatch    *)
(* never has two workers, unless threads race over one row.                *)
(***************************************************************************)
THEOREM OneWorker == Spec => []OneWorkerPerDispatch
<1>1. WorkerInv => OneWorkerPerDispatch
  <2>1. SUFFICES ASSUME WorkerInv, ~ raced, NEW d \in Dispatches PROVE Cardinality(workers[d]) <= 1
    BY DEF OneWorkerPerDispatch
  <2>2. workers[d] \in {{}, {"hosted"}, {"orphan"}}
    BY <2>1 DEF WorkerInv, WorkerOf
  <2>3. Cardinality({}) = 0 /\ Cardinality({"hosted"}) = 1 /\ Cardinality({"orphan"}) = 1
    BY FS_EmptySet, FS_Singleton
  <2>4. QED
    BY <2>2, <2>3
<1>2. QED
  BY <1>1, WorkersKnown, PTL

\* Only the start of a daemon makes it serve requests.
LEMMA OnlyStartupStarts ==
    ASSUME [Next]_vars, ~ up, up'
    PROVE  \E stopped \in SUBSET Dispatches : Startup(stopped)
<1>1. CASE PrepareLaunch
  BY <1>1 DEF PrepareLaunch
<1>2. CASE NextDispatch
  BY <1>2 DEF NextDispatch
<1>3. ASSUME NEW d \in Dispatches, NEW inWorktree \in Worktrees, ReserveResources(d, inWorktree)
      PROVE  \E stopped \in SUBSET Dispatches : Startup(stopped)
  BY <1>3 DEF ReserveResources
<1>4. ASSUME NEW d \in Dispatches, RecordPane(d, "record", "spawn")
      PROVE  \E stopped \in SUBSET Dispatches : Startup(stopped)
  BY <1>4 DEF RecordPane
<1>5. ASSUME NEW d \in Dispatches, SpawnWorker(d)
      PROVE  \E stopped \in SUBSET Dispatches : Startup(stopped)
  BY <1>5 DEF SpawnWorker
<1>6. ASSUME NEW d \in Dispatches, InsertPane(d)
      PROVE  \E stopped \in SUBSET Dispatches : Startup(stopped)
  BY <1>6 DEF InsertPane
<1>7. ASSUME NEW d \in Dispatches, IdentifyWorker(d)
      PROVE  \E stopped \in SUBSET Dispatches : Startup(stopped)
  BY <1>7 DEF IdentifyWorker
<1>8. ASSUME NEW d \in Dispatches, RecordPane(d, "capture", "check")
      PROVE  \E stopped \in SUBSET Dispatches : Startup(stopped)
  BY <1>8 DEF RecordPane
<1>9. ASSUME NEW d \in Dispatches, CheckPane(d)
      PROVE  \E stopped \in SUBSET Dispatches : Startup(stopped)
  BY <1>9 DEF CheckPane
<1>10. ASSUME NEW d \in Dispatches, BindWorker(d)
      PROVE  \E stopped \in SUBSET Dispatches : Startup(stopped)
  BY <1>10 DEF BindWorker
<1>11. ASSUME NEW d \in Dispatches, LaunchFailed(d)
      PROVE  \E stopped \in SUBSET Dispatches : Startup(stopped)
  BY <1>11 DEF LaunchFailed
<1>12. ASSUME NEW d \in Dispatches, LaunchError(d)
      PROVE  \E stopped \in SUBSET Dispatches : Startup(stopped)
  BY <1>12 DEF LaunchError
<1>13. ASSUME NEW persisted \in BOOLEAN, CompleteLaunch(persisted)
      PROVE  \E stopped \in SUBSET Dispatches : Startup(stopped)
  BY <1>13 DEF CompleteLaunch
<1>14. ASSUME NEW w \in {"launch", "stop"}, MarkCleanup(w)
      PROVE  \E stopped \in SUBSET Dispatches : Startup(stopped)
  BY <1>14 DEF MarkCleanup
<1>15. ASSUME NEW w \in {"launch", "stop"}, ClosePane(w)
      PROVE  \E stopped \in SUBSET Dispatches : Startup(stopped)
  BY <1>15 DEF ClosePane
<1>16. ASSUME NEW w \in {"launch", "stop"}, KillWorkers(w)
      PROVE  \E stopped \in SUBSET Dispatches : Startup(stopped)
  BY <1>16 DEF KillWorkers
<1>17. ASSUME NEW w \in {"launch", "stop"}, RecordCleanup(w)
      PROVE  \E stopped \in SUBSET Dispatches : Startup(stopped)
  BY <1>17 DEF RecordCleanup
<1>18. ASSUME NEW kind \in Verdicts, RequestVerdict(kind)
      PROVE  \E stopped \in SUBSET Dispatches : Startup(stopped)
  BY <1>18 DEF RequestVerdict, StartStop
<1>19. ASSUME NEW d \in Dispatches, RequestCleanup(d)
      PROVE  \E stopped \in SUBSET Dispatches : Startup(stopped)
  BY <1>19 DEF RequestCleanup, StartStop
<1>20. CASE NextTarget
  BY <1>20 DEF NextTarget
<1>21. CASE TargetDone
  BY <1>21 DEF TargetDone
<1>22. ASSUME NEW persisted \in BOOLEAN, FinishStop(persisted)
      PROVE  \E stopped \in SUBSET Dispatches : Startup(stopped)
  BY <1>22 DEF FinishStop
<1>23. ASSUME NEW d \in Dispatches, WorkerExits(d)
      PROVE  \E stopped \in SUBSET Dispatches : Startup(stopped)
  BY <1>23 DEF WorkerExits
<1>24. ASSUME NEW d \in Dispatches, MarkExited(d)
      PROVE  \E stopped \in SUBSET Dispatches : Startup(stopped)
  BY <1>24 DEF MarkExited
<1>25. ASSUME NEW d \in Dispatches, RecordPaneExit(d)
      PROVE  \E stopped \in SUBSET Dispatches : Startup(stopped)
  BY <1>25 DEF RecordPaneExit
<1>26. ASSUME NEW t \in Edits, UpdateTask(t)
      PROVE  \E stopped \in SUBSET Dispatches : Startup(stopped)
  BY <1>26 DEF UpdateTask
<1>27. ASSUME NEW survive \in SUBSET Dispatches, Crash(survive)
      PROVE  \E stopped \in SUBSET Dispatches : Startup(stopped)
  BY <1>27 DEF Crash
<1>28. ASSUME NEW s \in SUBSET Dispatches, Startup(s)
      PROVE  \E stopped \in SUBSET Dispatches : Startup(stopped)
  BY <1>28
<1>29. CASE UNCHANGED vars
  BY <1>29 DEF vars
<1>30. QED
  BY <1>1, <1>2, <1>3, <1>4, <1>5, <1>6, <1>7, <1>8, <1>9, <1>10, <1>11,
     <1>12, <1>13, <1>14, <1>15, <1>16, <1>17, <1>18, <1>19, <1>20, <1>21,
     <1>22, <1>23, <1>24, <1>25, <1>26, <1>27, <1>28, <1>29
     DEF Next, LaunchStep, CleanupStep

(***************************************************************************)
(* A daemon that begins to serve requests has left no worker of an earlier *)
(* one: each was on record, and the start refuses while one is in doubt.   *)
(***************************************************************************)
THEOREM StartupStops == Spec => StartupStopsWorkers
<1>1. ASSUME TypeOK, Links, WorkerInv, [Next]_vars
      PROVE  [~ up /\ up' /\ ~ raced => \A d \in Dispatches : workers'[d] = {}]_vars
  <2>1. SUFFICES ASSUME ~ up, up', ~ raced, NEW d \in Dispatches PROVE workers'[d] = {}
    OBVIOUS
  <2>2. PICK stopped \in SUBSET Dispatches : Startup(stopped)
    BY <1>1, <2>1, OnlyStartupStarts
  <2>3. CASE workers[d] = {}
    BY <2>2, <2>3 DEF Startup
  <2>4. CASE workers[d] # {}
    <3>1. res[d].pane /\ res[d].row /\ res[d].state \in {"live", "cleanup_failed"}
      BY <1>1, <2>1, <2>4 DEF WorkerInv, WorkerOf, Links
    <3>2. Stopped(res'[d])
      BY <2>1, <2>2, <3>1 DEF Startup
    <3>3. res[d] \in Resource
      BY <1>1, TypeParts DEF ThreadsType
    <3>4. d \notin stopped => res'[d].state = "cleanup_failed"
      BY <2>2, <3>1, <3>3 DEF Startup, Resource
    <3>5. d \in stopped
      BY <3>2, <3>4 DEF Stopped
    <3>6. QED
      BY <2>2, <3>5 DEF Startup
  <2>5. QED
    BY <2>3, <2>4
<1>2. QED
  BY <1>1, TypesAndLinks, WorkersKnown, PTL DEF Spec, StartupStopsWorkers

-----------------------------------------------------------------------------
(* Verdicts *)

\* run.cancel or run.reject has got the worker of d out of its way.
Visited(d) ==
    /\ d \notin stop.todo
    /\ \/ stop.step = "next"
       \/ /\ stop.step = "cleaning"
          /\ job["stop"].d # d \/ job["stop"].step = "end"

\* What run.cancel and run.reject have seen stopped stays stopped, and after
\* their verdict nothing is started.
VerdictInv ==
    ~ raced =>
        /\ stop.kind \in {"cancel", "reject"} /\ job["stop"].ok =>
              \A d \in Dispatches : Visited(d) => workers[d] = {}
        /\ run = "cancelled" =>
              /\ launch.step \in {"idle", "next"}
              /\ \A d \in Dispatches : workers[d] = {} /\ disp[d] \notin C!ActiveDispatch

\* Only the end of a verdict's RPC cancels the run.
LEMMA OnlyVerdictCancels ==
    ASSUME [Next]_vars, run # "cancelled", run' = "cancelled"
    PROVE  \E ok \in BOOLEAN : FinishStop(ok)
<1> USE DEF C!RefreshedRun
<1>1. CASE PrepareLaunch
  BY <1>1 DEF PrepareLaunch, rows, C!Schedule, C!SchedulePass
<1>2. CASE NextDispatch
  BY <1>2 DEF NextDispatch, rows
<1>3. ASSUME NEW d \in Dispatches, NEW inWorktree \in Worktrees, ReserveResources(d, inWorktree)
      PROVE  \E ok \in BOOLEAN : FinishStop(ok)
  BY <1>3 DEF ReserveResources, rows
<1>4. ASSUME NEW d \in Dispatches, RecordPane(d, "record", "spawn")
      PROVE  \E ok \in BOOLEAN : FinishStop(ok)
  BY <1>4 DEF RecordPane, rows
<1>5. ASSUME NEW d \in Dispatches, SpawnWorker(d)
      PROVE  \E ok \in BOOLEAN : FinishStop(ok)
  BY <1>5 DEF SpawnWorker, rows
<1>6. ASSUME NEW d \in Dispatches, InsertPane(d)
      PROVE  \E ok \in BOOLEAN : FinishStop(ok)
  BY <1>6 DEF InsertPane, rows
<1>7. ASSUME NEW d \in Dispatches, IdentifyWorker(d)
      PROVE  \E ok \in BOOLEAN : FinishStop(ok)
  BY <1>7 DEF IdentifyWorker, rows
<1>8. ASSUME NEW d \in Dispatches, RecordPane(d, "capture", "check")
      PROVE  \E ok \in BOOLEAN : FinishStop(ok)
  BY <1>8 DEF RecordPane, rows
<1>9. ASSUME NEW d \in Dispatches, CheckPane(d)
      PROVE  \E ok \in BOOLEAN : FinishStop(ok)
  BY <1>9 DEF CheckPane, rows
<1>10. ASSUME NEW d \in Dispatches, BindWorker(d)
      PROVE  \E ok \in BOOLEAN : FinishStop(ok)
  BY <1>10 DEF BindWorker, rows, C!BindDispatch
<1>11. ASSUME NEW d \in Dispatches, LaunchFailed(d)
      PROVE  \E ok \in BOOLEAN : FinishStop(ok)
  BY <1>11 DEF LaunchFailed, rows, C!RecordLaunchFailure
<1>12. ASSUME NEW d \in Dispatches, LaunchError(d)
      PROVE  \E ok \in BOOLEAN : FinishStop(ok)
  BY <1>12 DEF LaunchError, rows
<1>13. ASSUME NEW persisted \in BOOLEAN, CompleteLaunch(persisted)
      PROVE  \E ok \in BOOLEAN : FinishStop(ok)
  BY <1>13 DEF CompleteLaunch, rows
<1>14. ASSUME NEW w \in {"launch", "stop"}, MarkCleanup(w)
      PROVE  \E ok \in BOOLEAN : FinishStop(ok)
  BY <1>14 DEF MarkCleanup, rows
<1>15. ASSUME NEW w \in {"launch", "stop"}, ClosePane(w)
      PROVE  \E ok \in BOOLEAN : FinishStop(ok)
  BY <1>15 DEF ClosePane, rows
<1>16. ASSUME NEW w \in {"launch", "stop"}, KillWorkers(w)
      PROVE  \E ok \in BOOLEAN : FinishStop(ok)
  BY <1>16 DEF KillWorkers, rows
<1>17. ASSUME NEW w \in {"launch", "stop"}, RecordCleanup(w)
      PROVE  \E ok \in BOOLEAN : FinishStop(ok)
  BY <1>17 DEF RecordCleanup, rows, C!ReleasePane
<1>18. ASSUME NEW kind \in Verdicts, RequestVerdict(kind)
      PROVE  \E ok \in BOOLEAN : FinishStop(ok)
  BY <1>18 DEF RequestVerdict, rows, StartStop
<1>19. ASSUME NEW d \in Dispatches, RequestCleanup(d)
      PROVE  \E ok \in BOOLEAN : FinishStop(ok)
  BY <1>19 DEF RequestCleanup, rows, StartStop
<1>20. CASE NextTarget
  BY <1>20 DEF NextTarget, rows
<1>21. CASE TargetDone
  BY <1>21 DEF TargetDone, rows
<1>22. ASSUME NEW persisted \in BOOLEAN, FinishStop(persisted)
      PROVE  \E ok \in BOOLEAN : FinishStop(ok)
  BY <1>22
<1>23. ASSUME NEW d \in Dispatches, WorkerExits(d)
      PROVE  \E ok \in BOOLEAN : FinishStop(ok)
  BY <1>23 DEF WorkerExits, rows
<1>24. ASSUME NEW d \in Dispatches, MarkExited(d)
      PROVE  \E ok \in BOOLEAN : FinishStop(ok)
  BY <1>24 DEF MarkExited, rows
<1>25. ASSUME NEW d \in Dispatches, RecordPaneExit(d)
      PROVE  \E ok \in BOOLEAN : FinishStop(ok)
  BY <1>25 DEF RecordPaneExit, rows, C!PaneExit, C!ReleasePane
<1>26. ASSUME NEW t \in Edits, UpdateTask(t)
      PROVE  \E ok \in BOOLEAN : FinishStop(ok)
  BY <1>26 DEF UpdateTask, rows
<1>27. ASSUME NEW survive \in SUBSET Dispatches, Crash(survive)
      PROVE  \E ok \in BOOLEAN : FinishStop(ok)
  BY <1>27 DEF Crash, rows
<1>28. ASSUME NEW stopped \in SUBSET Dispatches, Startup(stopped)
      PROVE  \E ok \in BOOLEAN : FinishStop(ok)
  BY <1>28 DEF Startup, rows, C!DaemonRestart
<1>29. CASE UNCHANGED vars
  BY <1>29 DEF vars, rows
<1>30. QED
  BY <1>1, <1>2, <1>3, <1>4, <1>5, <1>6, <1>7, <1>8, <1>9, <1>10, <1>11,
     <1>12, <1>13, <1>14, <1>15, <1>16, <1>17, <1>18, <1>19, <1>20, <1>21,
     <1>22, <1>23, <1>24, <1>25, <1>26, <1>27, <1>28, <1>29
     DEF Next, LaunchStep, CleanupStep

\* Only a spawn starts a worker.
LEMMA OnlySpawnStarts ==
    ASSUME TypeOK, Links, [Next]_vars, NEW x \in Dispatches, workers[x] = {}
    PROVE  workers'[x] = {} \/ SpawnWorker(x)
<1>a. workers \in [Dispatches -> SUBSET {"hosted", "orphan"}]
  BY TypeParts DEF ThreadsType
<1>1. CASE PrepareLaunch
  BY <1>1, <1>a DEF PrepareLaunch
<1>2. CASE NextDispatch
  BY <1>2, <1>a DEF NextDispatch
<1>3. ASSUME NEW d \in Dispatches, NEW inWorktree \in Worktrees, ReserveResources(d, inWorktree)
      PROVE  workers'[x] = {} \/ SpawnWorker(x)
  BY <1>3, <1>a DEF ReserveResources
<1>4. ASSUME NEW d \in Dispatches, RecordPane(d, "record", "spawn")
      PROVE  workers'[x] = {} \/ SpawnWorker(x)
  BY <1>4, <1>a DEF RecordPane
<1>5. ASSUME NEW d \in Dispatches, SpawnWorker(d)
      PROVE  workers'[x] = {} \/ SpawnWorker(x)
  BY <1>5, <1>a DEF SpawnWorker, Launching
<1>6. ASSUME NEW d \in Dispatches, InsertPane(d)
      PROVE  workers'[x] = {} \/ SpawnWorker(x)
  BY <1>6, <1>a DEF InsertPane
<1>7. ASSUME NEW d \in Dispatches, IdentifyWorker(d)
      PROVE  workers'[x] = {} \/ SpawnWorker(x)
  BY <1>7, <1>a DEF IdentifyWorker
<1>8. ASSUME NEW d \in Dispatches, RecordPane(d, "capture", "check")
      PROVE  workers'[x] = {} \/ SpawnWorker(x)
  BY <1>8, <1>a DEF RecordPane
<1>9. ASSUME NEW d \in Dispatches, CheckPane(d)
      PROVE  workers'[x] = {} \/ SpawnWorker(x)
  BY <1>9, <1>a DEF CheckPane
<1>10. ASSUME NEW d \in Dispatches, BindWorker(d)
      PROVE  workers'[x] = {} \/ SpawnWorker(x)
  BY <1>10, <1>a DEF BindWorker
<1>11. ASSUME NEW d \in Dispatches, LaunchFailed(d)
      PROVE  workers'[x] = {} \/ SpawnWorker(x)
  BY <1>11, <1>a DEF LaunchFailed
<1>12. ASSUME NEW d \in Dispatches, LaunchError(d)
      PROVE  workers'[x] = {} \/ SpawnWorker(x)
  BY <1>12, <1>a DEF LaunchError, FailLaunch
<1>13. ASSUME NEW persisted \in BOOLEAN, CompleteLaunch(persisted)
      PROVE  workers'[x] = {} \/ SpawnWorker(x)
  BY <1>13, <1>a DEF CompleteLaunch
<1>14. ASSUME NEW w \in {"launch", "stop"}, MarkCleanup(w)
      PROVE  workers'[x] = {} \/ SpawnWorker(x)
  BY <1>14, <1>a DEF MarkCleanup
<1>15. ASSUME NEW w \in {"launch", "stop"}, ClosePane(w)
      PROVE  workers'[x] = {} \/ SpawnWorker(x)
  BY <1>15, <1>a DEF ClosePane
<1>16. ASSUME NEW w \in {"launch", "stop"}, KillWorkers(w)
      PROVE  workers'[x] = {} \/ SpawnWorker(x)
  BY <1>16, <1>a DEF KillWorkers
<1>17. ASSUME NEW w \in {"launch", "stop"}, RecordCleanup(w)
      PROVE  workers'[x] = {} \/ SpawnWorker(x)
  BY <1>17, <1>a DEF RecordCleanup
<1>18. ASSUME NEW kind \in Verdicts, RequestVerdict(kind)
      PROVE  workers'[x] = {} \/ SpawnWorker(x)
  BY <1>18, <1>a DEF RequestVerdict, StartStop
<1>19. ASSUME NEW d \in Dispatches, RequestCleanup(d)
      PROVE  workers'[x] = {} \/ SpawnWorker(x)
  BY <1>19, <1>a DEF RequestCleanup, StartStop
<1>20. CASE NextTarget
  BY <1>20, <1>a DEF NextTarget
<1>21. CASE TargetDone
  BY <1>21, <1>a DEF TargetDone
<1>22. ASSUME NEW persisted \in BOOLEAN, FinishStop(persisted)
      PROVE  workers'[x] = {} \/ SpawnWorker(x)
  BY <1>22, <1>a DEF FinishStop
<1>23. ASSUME NEW d \in Dispatches, WorkerExits(d)
      PROVE  workers'[x] = {} \/ SpawnWorker(x)
  BY <1>23, <1>a DEF WorkerExits
<1>24. ASSUME NEW d \in Dispatches, MarkExited(d)
      PROVE  workers'[x] = {} \/ SpawnWorker(x)
  BY <1>24, <1>a DEF MarkExited
<1>25. ASSUME NEW d \in Dispatches, RecordPaneExit(d)
      PROVE  workers'[x] = {} \/ SpawnWorker(x)
  BY <1>25, <1>a DEF RecordPaneExit
<1>26. ASSUME NEW t \in Edits, UpdateTask(t)
      PROVE  workers'[x] = {} \/ SpawnWorker(x)
  BY <1>26, <1>a DEF UpdateTask
<1>27. ASSUME NEW survive \in SUBSET Dispatches, Crash(survive)
      PROVE  workers'[x] = {} \/ SpawnWorker(x)
  BY <1>27, <1>a DEF Crash
<1>28. ASSUME NEW stopped \in SUBSET Dispatches, Startup(stopped)
      PROVE  workers'[x] = {} \/ SpawnWorker(x)
  BY <1>28, <1>a DEF Startup
<1>29. CASE UNCHANGED vars
  BY <1>29, <1>a DEF vars
<1>30. QED
  BY <1>1, <1>2, <1>3, <1>4, <1>5, <1>6, <1>7, <1>8, <1>9, <1>10, <1>11,
     <1>12, <1>13, <1>14, <1>15, <1>16, <1>17, <1>18, <1>19, <1>20, <1>21,
     <1>22, <1>23, <1>24, <1>25, <1>26, <1>27, <1>28, <1>29
     DEF Next, LaunchStep, CleanupStep

\* No step starts a worker behind a verdict or after it.
LEMMA VerdictStep ==
    ASSUME TypeOK, Links, WorkerInv, VerdictInv, [Next]_vars
    PROVE  VerdictInv'
<1> SUFFICES ASSUME ~ raced' PROVE
        /\ (stop.kind \in {"cancel", "reject"} /\ job["stop"].ok)' =>
              \A x \in Dispatches : Visited(x)' => workers'[x] = {}
        /\ run' = "cancelled" =>
              /\ launch'.step \in {"idle", "next"}
              /\ \A x \in Dispatches : workers'[x] = {} /\ disp'[x] \notin C!ActiveDispatch
  BY DEF VerdictInv
<1>a. ~ raced /\ (launch.step = "idle" \/ stop.step = "idle")
  BY RaceStep DEF WorkerInv
<1>b. launch'.step = "idle" \/ stop'.step = "idle"
  BY RaceStep DEF WorkerInv
<1>c. /\ launch \in Launches /\ stop \in Stops /\ job \in [{"launch", "stop"} -> Jobs]
      /\ res \in [Dispatches -> Resource]
  BY TypeParts DEF ThreadsType
<1>d. ASSUME NEW x \in Dispatches, workers[x] = {}, launch.step # "spawn"
      PROVE  workers'[x] = {}
  BY <1>d, OnlySpawnStarts DEF SpawnWorker, Launching
<1>e. ASSUME (stop.kind \in {"cancel", "reject"} /\ job["stop"].ok)',
             NEW x \in Dispatches, Visited(x)'
      PROVE  workers'[x] = {}
  <2>a. stop'.step # "idle" /\ launch'.step = "idle"
    BY <1>b, <1>e DEF Visited
  <2>b. workers[x] # {} => res[x].pane /\ res[x].row
    BY <1>a DEF WorkerInv, WorkerOf, Links
  <2>c. job["stop"].step = "stopped" /\ job["stop"].d = x => workers[x] = {}
    BY <1>a DEF WorkerInv, WorkerOf
  <2>d. stop.kind \in {"cancel", "reject"} /\ job["stop"].ok /\ Visited(x) => workers[x] = {}
    BY <1>a DEF VerdictInv
  <2>e. launch.step \notin {"idle", "next"} => launch'.step # "idle" \/ stop'.step = "idle"
    <3>1. CASE PrepareLaunch
      BY <3>1, <1>c DEF PrepareLaunch, BumpRunRevision, Launches
    <3>2. CASE NextDispatch
      BY <3>2, <1>c DEF NextDispatch, Launches
    <3>3. ASSUME NEW d \in Dispatches, NEW inWorktree \in Worktrees, ReserveResources(d, inWorktree)
          PROVE  launch.step \notin {"idle", "next"} => launch'.step # "idle" \/ stop'.step = "idle"
      BY <3>3, <1>c DEF ReserveResources, Launching, FailLaunch, Launches
    <3>4. ASSUME NEW d \in Dispatches, RecordPane(d, "record", "spawn")
          PROVE  launch.step \notin {"idle", "next"} => launch'.step # "idle" \/ stop'.step = "idle"
      BY <3>4, <1>c DEF RecordPane, Launching, Launches
    <3>5. ASSUME NEW d \in Dispatches, SpawnWorker(d)
          PROVE  launch.step \notin {"idle", "next"} => launch'.step # "idle" \/ stop'.step = "idle"
      BY <3>5, <1>c DEF SpawnWorker, Launching, Launches
    <3>6. ASSUME NEW d \in Dispatches, InsertPane(d)
          PROVE  launch.step \notin {"idle", "next"} => launch'.step # "idle" \/ stop'.step = "idle"
      BY <3>6, <1>c DEF InsertPane, FailLaunch, Launching, Launches
    <3>7. ASSUME NEW d \in Dispatches, IdentifyWorker(d)
          PROVE  launch.step \notin {"idle", "next"} => launch'.step # "idle" \/ stop'.step = "idle"
      BY <3>7, <1>c DEF IdentifyWorker, Launching, FailLaunch, Launches
    <3>8. ASSUME NEW d \in Dispatches, RecordPane(d, "capture", "check")
          PROVE  launch.step \notin {"idle", "next"} => launch'.step # "idle" \/ stop'.step = "idle"
      BY <3>8, <1>c DEF RecordPane, Launching, Launches
    <3>9. ASSUME NEW d \in Dispatches, CheckPane(d)
          PROVE  launch.step \notin {"idle", "next"} => launch'.step # "idle" \/ stop'.step = "idle"
      BY <3>9, <1>c DEF CheckPane, Launching, FailLaunch, Launches
    <3>10. ASSUME NEW d \in Dispatches, BindWorker(d)
          PROVE  launch.step \notin {"idle", "next"} => launch'.step # "idle" \/ stop'.step = "idle"
      BY <3>10, <1>c DEF BindWorker, Launching, LaunchedNext, FailLaunch, Launches
    <3>11. ASSUME NEW d \in Dispatches, LaunchFailed(d)
          PROVE  launch.step \notin {"idle", "next"} => launch'.step # "idle" \/ stop'.step = "idle"
      BY <3>11, <1>c DEF LaunchFailed, Launching, LaunchedNext, Launches
    <3>12. ASSUME NEW d \in Dispatches, LaunchError(d)
          PROVE  launch.step \notin {"idle", "next"} => launch'.step # "idle" \/ stop'.step = "idle"
      BY <3>12, <1>c DEF LaunchError, FailLaunch, Launches
    <3>13. ASSUME NEW persisted \in BOOLEAN, CompleteLaunch(persisted)
          PROVE  launch.step \notin {"idle", "next"} => launch'.step # "idle" \/ stop'.step = "idle"
      BY <3>13, <1>c DEF CompleteLaunch, IdleLaunch, Launches
    <3>14. ASSUME NEW w \in {"launch", "stop"}, MarkCleanup(w)
          PROVE  launch.step \notin {"idle", "next"} => launch'.step # "idle" \/ stop'.step = "idle"
      BY <3>14, <1>c DEF MarkCleanup, At, Reason, Launches
    <3>15. ASSUME NEW w \in {"launch", "stop"}, ClosePane(w)
          PROVE  launch.step \notin {"idle", "next"} => launch'.step # "idle" \/ stop'.step = "idle"
      BY <3>15, <1>c DEF ClosePane, At, JobAt, Launches
    <3>16. ASSUME NEW w \in {"launch", "stop"}, KillWorkers(w)
          PROVE  launch.step \notin {"idle", "next"} => launch'.step # "idle" \/ stop'.step = "idle"
      BY <3>16, <1>c DEF KillWorkers, At, JobAt, Launches
    <3>17. ASSUME NEW w \in {"launch", "stop"}, RecordCleanup(w)
          PROVE  launch.step \notin {"idle", "next"} => launch'.step # "idle" \/ stop'.step = "idle"
      BY <3>17, <1>c DEF RecordCleanup, At, JobAt, Reason, Launches
    <3>18. ASSUME NEW kind \in Verdicts, RequestVerdict(kind)
          PROVE  launch.step \notin {"idle", "next"} => launch'.step # "idle" \/ stop'.step = "idle"
      BY <3>18, <1>c DEF RequestVerdict, StartStop, Launches
    <3>19. ASSUME NEW d \in Dispatches, RequestCleanup(d)
          PROVE  launch.step \notin {"idle", "next"} => launch'.step # "idle" \/ stop'.step = "idle"
      BY <3>19, <1>c DEF RequestCleanup, StartStop, Launches
    <3>20. CASE NextTarget
      BY <3>20, <1>c DEF NextTarget, Launches
    <3>21. CASE TargetDone
      BY <3>21, <1>c DEF TargetDone, Launches
    <3>22. ASSUME NEW persisted \in BOOLEAN, FinishStop(persisted)
          PROVE  launch.step \notin {"idle", "next"} => launch'.step # "idle" \/ stop'.step = "idle"
      BY <3>22, <1>c DEF FinishStop, IdleStop, NoJob, Launches
    <3>23. ASSUME NEW d \in Dispatches, WorkerExits(d)
          PROVE  launch.step \notin {"idle", "next"} => launch'.step # "idle" \/ stop'.step = "idle"
      BY <3>23, <1>c DEF WorkerExits, Launches
    <3>24. ASSUME NEW d \in Dispatches, MarkExited(d)
          PROVE  launch.step \notin {"idle", "next"} => launch'.step # "idle" \/ stop'.step = "idle"
      BY <3>24, <1>c DEF MarkExited, Launches
    <3>25. ASSUME NEW d \in Dispatches, RecordPaneExit(d)
          PROVE  launch.step \notin {"idle", "next"} => launch'.step # "idle" \/ stop'.step = "idle"
      BY <3>25, <1>c DEF RecordPaneExit, BumpRunRevision, Intentional, Launches
    <3>26. ASSUME NEW t \in Edits, UpdateTask(t)
          PROVE  launch.step \notin {"idle", "next"} => launch'.step # "idle" \/ stop'.step = "idle"
      BY <3>26, <1>c DEF UpdateTask, BumpRunRevision, Launches
    <3>27. ASSUME NEW survive \in SUBSET Dispatches, Crash(survive)
          PROVE  launch.step \notin {"idle", "next"} => launch'.step # "idle" \/ stop'.step = "idle"
      BY <3>27, <1>c DEF Crash, IdleLaunch, IdleStop, NoJob, Launches
    <3>28. ASSUME NEW stopped \in SUBSET Dispatches, Startup(stopped)
          PROVE  launch.step \notin {"idle", "next"} => launch'.step # "idle" \/ stop'.step = "idle"
      BY <3>28 DEF Startup
    <3>29. CASE UNCHANGED vars
      BY <3>29, <1>c DEF vars, Launches
    <3>30. QED
      BY <3>1, <3>2, <3>3, <3>4, <3>5, <3>6, <3>7, <3>8, <3>9, <3>10, <3>11,
         <3>12, <3>13, <3>14, <3>15, <3>16, <3>17, <3>18, <3>19, <3>20, <3>21,
         <3>22, <3>23, <3>24, <3>25, <3>26, <3>27, <3>28, <3>29
         DEF Next, LaunchStep, CleanupStep
  <2>f. launch.step # "spawn"
    BY <2>a, <2>e
  <2>g. workers[x] = {} \/ stop'.step = "idle"
    <3>1. CASE PrepareLaunch
      BY <3>1, <2>a DEF PrepareLaunch
    <3>2. CASE NextDispatch
      BY <3>2, <1>c, <2>a, <2>b, <2>c, <2>d, <1>e
         DEF Visited, NextDispatch, Stops, Jobs
    <3>3. ASSUME NEW d \in Dispatches, NEW inWorktree \in Worktrees, ReserveResources(d, inWorktree)
          PROVE  workers[x] = {} \/ stop'.step = "idle"
      BY <3>3, <1>c, <2>a, <2>b, <2>c, <2>d, <1>e
         DEF Visited, ReserveResources, Launching, FailLaunch, Stops, Jobs
    <3>4. ASSUME NEW d \in Dispatches, RecordPane(d, "record", "spawn")
          PROVE  workers[x] = {} \/ stop'.step = "idle"
      BY <3>4, <1>c, <2>a, <2>b, <2>c, <2>d, <1>e
         DEF Visited, RecordPane, Launching, Stops, Jobs
    <3>5. ASSUME NEW d \in Dispatches, SpawnWorker(d)
          PROVE  workers[x] = {} \/ stop'.step = "idle"
      BY <3>5, <1>c, <2>a, <2>b, <2>c, <2>d, <1>e
         DEF Visited, SpawnWorker, Launching, Stops, Jobs
    <3>6. ASSUME NEW d \in Dispatches, InsertPane(d)
          PROVE  workers[x] = {} \/ stop'.step = "idle"
      BY <3>6, <1>c, <2>a, <2>b, <2>c, <2>d, <1>e
         DEF Visited, InsertPane, FailLaunch, Launching, Stops, Jobs
    <3>7. ASSUME NEW d \in Dispatches, IdentifyWorker(d)
          PROVE  workers[x] = {} \/ stop'.step = "idle"
      BY <3>7, <1>c, <2>a, <2>b, <2>c, <2>d, <1>e
         DEF Visited, IdentifyWorker, Launching, FailLaunch, Stops, Jobs
    <3>8. ASSUME NEW d \in Dispatches, RecordPane(d, "capture", "check")
          PROVE  workers[x] = {} \/ stop'.step = "idle"
      BY <3>8, <1>c, <2>a, <2>b, <2>c, <2>d, <1>e
         DEF Visited, RecordPane, Launching, Stops, Jobs
    <3>9. ASSUME NEW d \in Dispatches, CheckPane(d)
          PROVE  workers[x] = {} \/ stop'.step = "idle"
      BY <3>9, <1>c, <2>a, <2>b, <2>c, <2>d, <1>e
         DEF Visited, CheckPane, Launching, FailLaunch, Stops, Jobs
    <3>10. ASSUME NEW d \in Dispatches, BindWorker(d)
          PROVE  workers[x] = {} \/ stop'.step = "idle"
      BY <3>10, <1>c, <2>a, <2>b, <2>c, <2>d, <1>e
         DEF Visited, BindWorker, Launching, LaunchedNext, FailLaunch, Stops,
             Jobs
    <3>11. ASSUME NEW d \in Dispatches, LaunchFailed(d)
          PROVE  workers[x] = {} \/ stop'.step = "idle"
      BY <3>11, <1>c, <2>a, <2>b, <2>c, <2>d, <1>e
         DEF Visited, LaunchFailed, Launching, LaunchedNext, Stops, Jobs
    <3>12. ASSUME NEW d \in Dispatches, LaunchError(d)
          PROVE  workers[x] = {} \/ stop'.step = "idle"
      BY <3>12, <1>c, <2>a, <2>b, <2>c, <2>d, <1>e
         DEF Visited, LaunchError, FailLaunch, Stops, Jobs
    <3>13. ASSUME NEW persisted \in BOOLEAN, CompleteLaunch(persisted)
          PROVE  workers[x] = {} \/ stop'.step = "idle"
      BY <3>13, <1>c, <2>a, <2>b, <2>c, <2>d, <1>e
         DEF Visited, CompleteLaunch, IdleLaunch, Stops, Jobs
    <3>14. ASSUME NEW w \in {"launch", "stop"}, MarkCleanup(w)
          PROVE  workers[x] = {} \/ stop'.step = "idle"
      BY <3>14, <1>c, <2>a, <2>b, <2>c, <2>d, <1>e
         DEF Visited, MarkCleanup, At, Reason, Stops, Jobs, Links
    <3>15. ASSUME NEW w \in {"launch", "stop"}, ClosePane(w)
          PROVE  workers[x] = {} \/ stop'.step = "idle"
      BY <3>15, <1>c, <2>a, <2>b, <2>c, <2>d, <1>e
         DEF Visited, ClosePane, At, JobAt, Stops, Jobs, Links
    <3>16. ASSUME NEW w \in {"launch", "stop"}, KillWorkers(w)
          PROVE  workers[x] = {} \/ stop'.step = "idle"
      BY <3>16, <1>c, <2>a, <2>b, <2>c, <2>d, <1>e
         DEF Visited, KillWorkers, At, JobAt, Stops, Jobs, Links
    <3>17. ASSUME NEW w \in {"launch", "stop"}, RecordCleanup(w)
          PROVE  workers[x] = {} \/ stop'.step = "idle"
      BY <3>17, <1>c, <2>a, <2>b, <2>c, <2>d, <1>e
         DEF Visited, RecordCleanup, At, JobAt, Reason, Stops, Jobs, Links
    <3>18. ASSUME NEW kind \in Verdicts, RequestVerdict(kind)
          PROVE  workers[x] = {} \/ stop'.step = "idle"
      BY <3>18, <1>c, <2>a, <2>b, <2>c, <2>d, <1>e
         DEF Visited, RequestVerdict, StartStop, Stops, Jobs
    <3>19. ASSUME NEW d \in Dispatches, RequestCleanup(d)
          PROVE  workers[x] = {} \/ stop'.step = "idle"
      BY <3>19, <1>c, <2>a, <2>b, <2>c, <2>d, <1>e
         DEF Visited, RequestCleanup, StartStop, Stops, Jobs
    <3>20. CASE NextTarget
      <4>1. First(stop.todo) \in stop.todo
        BY <3>20, <1>c, FirstIsIn DEF NextTarget, Stops
      <4>2. QED
        BY <3>20, <4>1, <1>c, <2>a, <2>b, <2>c, <2>d, <1>e
           DEF Visited, NextTarget, Stops, Jobs
    <3>21. CASE TargetDone
      BY <3>21, <1>c, <2>a, <2>b, <2>c, <2>d, <1>e
         DEF Visited, TargetDone, Stops, Jobs
    <3>22. ASSUME NEW persisted \in BOOLEAN, FinishStop(persisted)
          PROVE  workers[x] = {} \/ stop'.step = "idle"
      BY <3>22, <1>c, <2>a, <2>b, <2>c, <2>d, <1>e
         DEF Visited, FinishStop, IdleStop, NoJob, Stops, Jobs
    <3>23. ASSUME NEW d \in Dispatches, WorkerExits(d)
          PROVE  workers[x] = {} \/ stop'.step = "idle"
      BY <3>23, <1>c, <2>a, <2>b, <2>c, <2>d, <1>e
         DEF Visited, WorkerExits, Stops, Jobs
    <3>24. ASSUME NEW d \in Dispatches, MarkExited(d)
          PROVE  workers[x] = {} \/ stop'.step = "idle"
      BY <3>24, <1>c, <2>a, <2>b, <2>c, <2>d, <1>e
         DEF Visited, MarkExited, Stops, Jobs
    <3>25. ASSUME NEW d \in Dispatches, RecordPaneExit(d)
          PROVE  workers[x] = {} \/ stop'.step = "idle"
      BY <3>25, <1>c, <2>a, <2>b, <2>c, <2>d, <1>e
         DEF Visited, RecordPaneExit, BumpRunRevision, Intentional, Stops, Jobs
    <3>26. ASSUME NEW t \in Edits, UpdateTask(t)
          PROVE  workers[x] = {} \/ stop'.step = "idle"
      BY <3>26, <1>c, <2>a, <2>b, <2>c, <2>d, <1>e
         DEF Visited, UpdateTask, BumpRunRevision, Stops, Jobs
    <3>27. ASSUME NEW survive \in SUBSET Dispatches, Crash(survive)
          PROVE  workers[x] = {} \/ stop'.step = "idle"
      BY <3>27, <1>c, <2>a, <2>b, <2>c, <2>d, <1>e
         DEF Visited, Crash, IdleLaunch, IdleStop, NoJob, Stops, Jobs
    <3>28. ASSUME NEW stopped \in SUBSET Dispatches, Startup(stopped)
          PROVE  workers[x] = {} \/ stop'.step = "idle"
      BY <3>28, <1>c, <2>a, <2>b, <2>c, <2>d, <1>e DEF Links, Visited, Startup, Intentional, Stops, Jobs
    <3>29. CASE UNCHANGED vars
      BY <3>29, <1>c, <2>a, <2>b, <2>c, <2>d, <1>e
         DEF Visited, vars, Stops, Jobs
    <3>30. QED
      BY <3>1, <3>2, <3>3, <3>4, <3>5, <3>6, <3>7, <3>8, <3>9, <3>10, <3>11,
         <3>12, <3>13, <3>14, <3>15, <3>16, <3>17, <3>18, <3>19, <3>20, <3>21,
         <3>22, <3>23, <3>24, <3>25, <3>26, <3>27, <3>28, <3>29
         DEF Next, LaunchStep, CleanupStep
  <2>h. QED
    BY <1>d, <2>a, <2>f, <2>g
<1>f. ASSUME run' = "cancelled"
      PROVE  /\ launch'.step \in {"idle", "next"}
             /\ \A x \in Dispatches : workers'[x] = {} /\ disp'[x] \notin C!ActiveDispatch
  <2>1. CASE run = "cancelled"
    <3>1. /\ launch.step \in {"idle", "next"}
          /\ \A x \in Dispatches : workers[x] = {} /\ disp[x] \notin C!ActiveDispatch
      BY <1>a, <2>1 DEF VerdictInv
    <3>2. \A x \in Dispatches : workers'[x] = {}
      BY <1>d, <3>1
    <3>3. ~ NewLaunch
      BY <2>1 DEF NewLaunch, C!Schedule, C!SchedulePass
    <3>4. \A x \in Dispatches : disp'[x] \notin C!ActiveDispatch
      BY <3>1, <3>3, OnlyPassClaims DEF DispatchesGoOn
    <3>5. launch'.step \in {"idle", "next"}
      <4>1. CASE PrepareLaunch
        BY <4>1, <1>c, <3>1 DEF PrepareLaunch, BumpRunRevision, Launches
      <4>2. CASE NextDispatch
        <5>1. First(launch.todo) \in Dispatches
          BY <4>2, <1>c, FirstIsIn DEF NextDispatch, Launches
        <5>2. disp[First(launch.todo)] # "pending"
          BY <3>1, <5>1 DEF C!ActiveDispatch
        <5>3. QED
          BY <4>2, <5>2, <1>c DEF NextDispatch, Launches
      <4>3. ASSUME NEW d \in Dispatches, NEW inWorktree \in Worktrees, ReserveResources(d, inWorktree)
            PROVE  launch'.step \in {"idle", "next"}
        BY <4>3, <1>c, <3>1 DEF ReserveResources, Launching, FailLaunch, Launches
      <4>4. ASSUME NEW d \in Dispatches, RecordPane(d, "record", "spawn")
            PROVE  launch'.step \in {"idle", "next"}
        BY <4>4, <1>c, <3>1 DEF RecordPane, Launching, Launches
      <4>5. ASSUME NEW d \in Dispatches, SpawnWorker(d)
            PROVE  launch'.step \in {"idle", "next"}
        BY <4>5, <1>c, <3>1 DEF SpawnWorker, Launching, Launches
      <4>6. ASSUME NEW d \in Dispatches, InsertPane(d)
            PROVE  launch'.step \in {"idle", "next"}
        BY <4>6, <1>c, <3>1 DEF InsertPane, FailLaunch, Launching, Launches
      <4>7. ASSUME NEW d \in Dispatches, IdentifyWorker(d)
            PROVE  launch'.step \in {"idle", "next"}
        BY <4>7, <1>c, <3>1 DEF IdentifyWorker, Launching, FailLaunch, Launches
      <4>8. ASSUME NEW d \in Dispatches, RecordPane(d, "capture", "check")
            PROVE  launch'.step \in {"idle", "next"}
        BY <4>8, <1>c, <3>1 DEF RecordPane, Launching, Launches
      <4>9. ASSUME NEW d \in Dispatches, CheckPane(d)
            PROVE  launch'.step \in {"idle", "next"}
        BY <4>9, <1>c, <3>1 DEF CheckPane, Launching, FailLaunch, Launches
      <4>10. ASSUME NEW d \in Dispatches, BindWorker(d)
            PROVE  launch'.step \in {"idle", "next"}
        BY <4>10, <1>c, <3>1 DEF BindWorker, Launching, LaunchedNext, FailLaunch, Launches
      <4>11. ASSUME NEW d \in Dispatches, LaunchFailed(d)
            PROVE  launch'.step \in {"idle", "next"}
        BY <4>11, <1>c, <3>1 DEF LaunchFailed, Launching, LaunchedNext, Launches
      <4>12. ASSUME NEW d \in Dispatches, LaunchError(d)
            PROVE  launch'.step \in {"idle", "next"}
        BY <4>12, <1>c, <3>1 DEF LaunchError, FailLaunch, Launches
      <4>13. ASSUME NEW persisted \in BOOLEAN, CompleteLaunch(persisted)
            PROVE  launch'.step \in {"idle", "next"}
        BY <4>13, <1>c, <3>1 DEF CompleteLaunch, IdleLaunch, Launches
      <4>14. ASSUME NEW w \in {"launch", "stop"}, MarkCleanup(w)
            PROVE  launch'.step \in {"idle", "next"}
        BY <4>14, <1>c, <3>1 DEF MarkCleanup, At, Reason, Launches
      <4>15. ASSUME NEW w \in {"launch", "stop"}, ClosePane(w)
            PROVE  launch'.step \in {"idle", "next"}
        BY <4>15, <1>c, <3>1 DEF ClosePane, At, JobAt, Launches
      <4>16. ASSUME NEW w \in {"launch", "stop"}, KillWorkers(w)
            PROVE  launch'.step \in {"idle", "next"}
        BY <4>16, <1>c, <3>1 DEF KillWorkers, At, JobAt, Launches
      <4>17. ASSUME NEW w \in {"launch", "stop"}, RecordCleanup(w)
            PROVE  launch'.step \in {"idle", "next"}
        BY <4>17, <1>c, <3>1 DEF RecordCleanup, At, JobAt, Reason, Launches
      <4>18. ASSUME NEW kind \in Verdicts, RequestVerdict(kind)
            PROVE  launch'.step \in {"idle", "next"}
        BY <4>18, <1>c, <3>1 DEF RequestVerdict, StartStop, Launches
      <4>19. ASSUME NEW d \in Dispatches, RequestCleanup(d)
            PROVE  launch'.step \in {"idle", "next"}
        BY <4>19, <1>c, <3>1 DEF RequestCleanup, StartStop, Launches
      <4>20. CASE NextTarget
        BY <4>20, <1>c, <3>1 DEF NextTarget, Launches
      <4>21. CASE TargetDone
        BY <4>21, <1>c, <3>1 DEF TargetDone, Launches
      <4>22. ASSUME NEW persisted \in BOOLEAN, FinishStop(persisted)
            PROVE  launch'.step \in {"idle", "next"}
        BY <4>22, <1>c, <3>1 DEF FinishStop, IdleStop, NoJob, Launches
      <4>23. ASSUME NEW d \in Dispatches, WorkerExits(d)
            PROVE  launch'.step \in {"idle", "next"}
        BY <4>23, <1>c, <3>1 DEF WorkerExits, Launches
      <4>24. ASSUME NEW d \in Dispatches, MarkExited(d)
            PROVE  launch'.step \in {"idle", "next"}
        BY <4>24, <1>c, <3>1 DEF MarkExited, Launches
      <4>25. ASSUME NEW d \in Dispatches, RecordPaneExit(d)
            PROVE  launch'.step \in {"idle", "next"}
        BY <4>25, <1>c, <3>1 DEF RecordPaneExit, BumpRunRevision, Intentional, Launches
      <4>26. ASSUME NEW t \in Edits, UpdateTask(t)
            PROVE  launch'.step \in {"idle", "next"}
        BY <4>26, <1>c, <3>1 DEF UpdateTask, BumpRunRevision, Launches
      <4>27. ASSUME NEW survive \in SUBSET Dispatches, Crash(survive)
            PROVE  launch'.step \in {"idle", "next"}
        BY <4>27, <1>c, <3>1 DEF Crash, IdleLaunch, IdleStop, NoJob, Launches
      <4>28. ASSUME NEW stopped \in SUBSET Dispatches, Startup(stopped)
            PROVE  launch'.step \in {"idle", "next"}
        BY <4>28, <3>1 DEF Startup
      <4>29. CASE UNCHANGED vars
        BY <4>29, <1>c, <3>1 DEF vars, Launches
      <4>30. QED
        BY <4>1, <4>2, <4>3, <4>4, <4>5, <4>6, <4>7, <4>8, <4>9, <4>10, <4>11,
           <4>12, <4>13, <4>14, <4>15, <4>16, <4>17, <4>18, <4>19, <4>20, <4>21,
           <4>22, <4>23, <4>24, <4>25, <4>26, <4>27, <4>28, <4>29
           DEF Next, LaunchStep, CleanupStep
    <3>6. QED
      BY <3>2, <3>4, <3>5
  <2>2. CASE run # "cancelled"
    <3>1. PICK persisted \in BOOLEAN : FinishStop(persisted)
      BY <1>f, <2>2, OnlyVerdictCancels
    <3>2. /\ job["stop"].ok /\ stop.kind \in {"cancel", "reject"}
          /\ stop.step = "next" /\ stop.todo = {}
          /\ C!CancelEntities
          /\ UNCHANGED <<workers, launch>>
      BY <1>f, <2>2, <3>1 DEF FinishStop, rows, C!CancelRun, C!RejectRun
    <3>3. \A x \in Dispatches : workers[x] = {}
      BY <1>a, <3>2 DEF VerdictInv, Visited
    <3>4. \A x \in Dispatches : disp'[x] \notin C!ActiveDispatch
      BY <3>2 DEF C!CancelEntities, C!ActiveDispatch, Dispatches
    <3>5. QED
      BY <1>a, <3>2, <3>3, <3>4
  <2>3. QED
    BY <2>1, <2>2
<1>g. QED
  BY <1>e, <1>f

(***************************************************************************)
(* A run that run.cancel or run.reject has cancelled has no worker, unless *)
(* the RPC met a launch.                                                   *)
(***************************************************************************)
THEOREM VerdictStops == Spec => []CancelledRunHasNoWorker
<1>1. Init => VerdictInv
  BY DEF Init, VerdictInv, IdleStop
<1>2. TypeOK /\ Links /\ WorkerInv /\ VerdictInv /\ [Next]_vars => VerdictInv'
  BY VerdictStep
<1>3. VerdictInv => CancelledRunHasNoWorker
  BY DEF VerdictInv, CancelledRunHasNoWorker, CancelLeavesNoWorker
<1>4. QED
  BY <1>1, <1>2, <1>3, TypesAndLinks, WorkersKnown, PTL DEF Spec
=============================================================================
