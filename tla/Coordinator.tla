---------------------------- MODULE Coordinator ----------------------------
(***************************************************************************)
(* The durable rows of one orchestration run and the transactions of       *)
(* CoordinatorService that change them (src-tauri/src/orchestration/mod.rs *)
(* and durable.rs).  Every public method of the service is one IMMEDIATE   *)
(* SQLite transaction, so it is one action here; runs share no row, so one *)
(* run is enough.                                                          *)
(*                                                                         *)
(* A request also carries the revision of the run or of the task that its  *)
(* sender read.  A transaction that finds another revision changes         *)
(* nothing (require_run_revision, require_task_revision); one that finds   *)
(* the revision it expects behaves as written here, and some client can    *)
(* always have read the current one.  The revisions are therefore not part *)
(* of this state.  The same holds for the operation id: a repeated id      *)
(* returns the stored response and changes nothing (mutate).               *)
(***************************************************************************)
EXTENDS Integers, FiniteSets

CONSTANTS
    MaxTasks,        \* bound: tasks created in the run
    MaxAttempts,     \* bound: dispatches (attempts) per task
    MaxGates,        \* bound: decision gates created in the run
    MaxConcurrent,   \* policy.max_concurrent of the run
    CircuitBreaker,  \* CIRCUIT_BREAKER_FAILURES
    Resumable,       \* agents are registered as resumable
    Claims,          \* launch claims a scheduling pass may make (see Schedule)
    Worktrees,       \* launches may bind a dispatch with a worktree, or without
    GateTypes        \* gate types that clients ask create_gate for

ASSUME BoundsAssumption ==
    /\ MaxTasks \in Nat
    /\ MaxAttempts \in Nat
    /\ MaxGates \in Nat

\* create_run refuses a policy with max_concurrent = 0.
ASSUME PolicyAssumption == MaxConcurrent \in Nat \ {0}

ASSUME BreakerAssumption == CircuitBreaker \in Nat \ {0}

ASSUME ClientAssumption ==
    /\ Resumable \in BOOLEAN
    /\ Claims \subseteq BOOLEAN
    /\ Worktrees \subseteq BOOLEAN
    /\ GateTypes \subseteq {"decision", "merge", "cleanup"}

(***************************************************************************)
(* A task is named by its position, which create_task numbers in creation  *)
(* order.  A dispatch is named by its unique key (task, attempt); a gate   *)
(* by its creation order.                                                  *)
(***************************************************************************)
Tasks == 1 .. MaxTasks

Dispatches == [task : Tasks, attempt : 1 .. MaxAttempts]

Gates == 1 .. MaxGates

\* The dispatch of a gate that is about the whole run.
NoDispatch == [task |-> 0, attempt |-> 0]

RunStatus == {"queued", "planning", "running", "waiting", "paused",
              "completed", "failed", "cancelled"}

TerminalRun == {"completed", "failed", "cancelled"}

TaskStatus == {"absent", "pending", "ready", "dispatched", "completed",
               "failed", "blocked", "cancelled"}

FinishedTask == {"completed", "failed", "blocked", "cancelled"}

ActiveDispatch == {"pending", "dispatched", "running", "waiting"}

BoundDispatch == {"dispatched", "running", "waiting"}

DispatchStatus == ActiveDispatch \cup
    {"absent", "completed", "failed", "circuit_broken", "cancelled"}

(***************************************************************************)
(* The agent instance bound to a dispatch.  No transaction distinguishes   *)
(* the agent's active statuses (starting, running, waiting, reconciling),  *)
(* nor its final ones; what matters is whether the pane identity by which  *)
(* its calls are validated is still recorded (attached) or has been        *)
(* cleared (detached: pane_id, process_generation and runtime_identity are *)
(* NULL).  Whether a finished agent's pane is still recorded is left out.  *)
(***************************************************************************)
ActiveAgent == {"attached", "detached"}

AgentStatus == ActiveAgent \cup {"none", "ended"}

GateRecord ==
    [type     : {"decision", "merge", "cleanup"},
     dispatch : Dispatches \cup {NoDispatch},
     expires  : BOOLEAN,   \* may have an expires_at
     status   : {"absent", "pending", "resolved", "timeout", "cancelled"},
     decision : {"none", "approve", "reject", "other"},
     applied  : BOOLEAN]

AbsentGate ==
    [type |-> "decision", dispatch |-> NoDispatch, expires |-> FALSE,
     status |-> "absent", decision |-> "none", applied |-> FALSE]

VARIABLES
    run,          \* status of the run
    task,         \* status of every task
    deps,         \* task_dependencies: the tasks a task waits for
    disp,         \* status of every dispatch
    claimed,      \* dispatches with a dispatch_launch_claims row
    launchFailed, \* dispatches whose failure_code is launch:...
    agent,        \* the agent instance bound to a dispatch
    worktree,     \* worktree record of a dispatch: none, held or removed
    gate,         \* decision gates
    applying,     \* gates whose approved merge or cleanup a daemon thread is applying
    overridden    \* history: tasks whose status task.update ever changed

vars == <<run, task, deps, disp, claimed, launchFailed, agent,
          worktree, gate, applying, overridden>>

TypeOK ==
    /\ run \in RunStatus
    /\ task \in [Tasks -> TaskStatus]
    /\ deps \in [Tasks -> SUBSET Tasks]
    /\ disp \in [Dispatches -> DispatchStatus]
    /\ claimed \subseteq Dispatches
    /\ launchFailed \subseteq Dispatches
    /\ agent \in [Dispatches -> AgentStatus]
    /\ worktree \in [Dispatches -> {"none", "held", "removed"}]
    /\ gate \in [Gates -> GateRecord]
    /\ applying \subseteq Gates
    /\ overridden \subseteq Tasks

-----------------------------------------------------------------------------
(* Queries the transactions share. *)

\* Dispatches that count against max_concurrent, in the table ds.
ActiveIn(ds) == {d \in Dispatches : ds[d] \in ActiveDispatch}

\* pending_gate_count_for_run > 0, in the table gs.
HasPendingGate(gs) == \E g \in Gates : gs[g].status = "pending"

\* pending_gate_count(dispatch) > 0, in the table gs.
DispatchHasPendingGate(gs, d) ==
    \E g \in Gates : gs[g].status = "pending" /\ gs[g].dispatch = d

\* Every dependency of t is completed.
DependenciesCompleted(t) == \A u \in deps[t] : task[u] = "completed"

\* Mutant of RefreshedRun: dispatched tasks do not count as incomplete.
RefreshedRunForgetsDispatched(r, ts, ds, gs) ==
    LET incomplete == \E t \in Tasks : ts[t] \in {"pending", "ready"}
        failed     == \E t \in Tasks : ts[t] \in {"failed", "blocked"}
    IN  IF r = "cancelled" THEN r
        ELSE IF HasPendingGate(gs) THEN "waiting"
        ELSE IF ~incomplete THEN IF failed THEN "failed" ELSE "completed"
        ELSE IF ActiveIn(ds) # {} THEN "running" ELSE r

(***************************************************************************)
(* refresh_terminal_run_status: the status a run at status r gets from the *)
(* task, dispatch and gate tables.  Tasks that do not exist count nowhere. *)
(***************************************************************************)
RefreshedRun(r, ts, ds, gs) ==
    LET incomplete == \E t \in Tasks : ts[t] \notin FinishedTask \cup {"absent"}
        failed     == \E t \in Tasks : ts[t] \in {"failed", "blocked"}
    IN  IF r = "cancelled" THEN r
        ELSE IF HasPendingGate(gs) THEN "waiting"
        ELSE IF ~incomplete THEN IF failed THEN "failed" ELSE "completed"
        ELSE IF ActiveIn(ds) # {} THEN "running" ELSE r

(***************************************************************************)
(* validate_identity: lifecycle calls of a worker name its task, agent,    *)
(* pane and process generation.                                            *)
(***************************************************************************)
IdentityMatches(d) == agent[d] = "attached"

(***************************************************************************)
(* create_gate_record: g is the next gate and is recorded as pending.      *)
(***************************************************************************)
CreateGateRecord(g, type, d, expires) ==
    /\ gate[g].status = "absent"
    /\ \A h \in Gates : h < g => gate[h].status # "absent"
    /\ gate' = [gate EXCEPT ![g] =
                  [AbsentGate EXCEPT !.type = type, !.dispatch = d,
                                     !.expires = expires,
                                     !.status = "pending"]]

-----------------------------------------------------------------------------
(* The run exists once create_run has committed. *)

Init ==
    /\ run = "queued"
    /\ task = [t \in Tasks |-> "absent"]
    /\ deps = [t \in Tasks |-> {}]
    /\ disp = [d \in Dispatches |-> "absent"]
    /\ claimed = {}
    /\ launchFailed = {}
    /\ agent = [d \in Dispatches |-> "none"]
    /\ worktree = [d \in Dispatches |-> "none"]
    /\ gate = [g \in Gates |-> AbsentGate]
    /\ applying = {}
    /\ overridden = {}

\* start_run
StartRun ==
    /\ run \in {"queued", "planning", "paused"}
    /\ run' = "running"
    /\ UNCHANGED <<task, deps, disp, claimed, launchFailed, agent, worktree,
                   gate, applying, overridden>>

\* create_task: the task depends on tasks that already exist.
CreateTask(t, ds) ==
    /\ run \notin TerminalRun
    /\ task[t] = "absent"
    /\ \A u \in Tasks : u < t => task[u] # "absent"
    /\ \A u \in ds : task[u] # "absent"
    /\ task' = [task EXCEPT ![t] = "pending"]
    /\ deps' = [deps EXCEPT ![t] = ds]
    /\ UNCHANGED <<run, disp, claimed, launchFailed, agent, worktree,
                   gate, applying, overridden>>

(***************************************************************************)
(* The first loop of schedule_ready_transaction visits the pending tasks   *)
(* in position order and reads the statuses that the loop has already      *)
(* written.  Dependencies have lower positions, so what it writes is the   *)
(* one table that agrees with the rule at every task.                      *)
(***************************************************************************)
SettledTask(ts, t) ==
    IF task[t] # "pending" THEN task[t]
    ELSE IF \E u \in deps[t] : ts[u] \in {"failed", "blocked", "cancelled"}
    THEN "blocked"
    ELSE IF \A u \in deps[t] : ts[u] = "completed" THEN "ready"
    ELSE "pending"

Settled(ts) == \A t \in Tasks : ts[t] = SettledTask(ts, t)

\* The tables the loop may end with.
SettledTables ==
    {[t \in Tasks |-> IF task[t] = "pending" THEN s[t] ELSE task[t]] :
        s \in [Tasks -> {"pending", "ready", "blocked"}]}

\* Mutant of Capacity: dispatches that are not bound yet are not counted.
CapacityForgetsPending ==
    LET active == Cardinality({d \in Dispatches : disp[d] \in BoundDispatch})
    IN  IF active < MaxConcurrent THEN MaxConcurrent - active ELSE 0

\* run.policy.max_concurrent.saturating_sub(active)
Capacity ==
    LET active == Cardinality(ActiveIn(disp))
    IN  IF active < MaxConcurrent THEN MaxConcurrent - active ELSE 0

\* SELECT ... status = 'ready' ORDER BY position LIMIT capacity
FirstReady(sel, ready) ==
    /\ sel \subseteq ready
    /\ Cardinality(sel) <= Capacity
    /\ sel = ready \/ Cardinality(sel) = Capacity
    /\ \A t \in sel, u \in ready \ sel : t < u

\* COALESCE(MAX(attempt), 0) + 1 over the dispatches of t is n.
NextAttempt(t, n) ==
    /\ \A d \in Dispatches :
          d.task = t /\ disp[d] # "absent" => d.attempt < n
    /\ n = 1 \/ \E d \in Dispatches :
          d.task = t /\ disp[d] # "absent" /\ d.attempt = n - 1

\* The dispatches that a pass which selects the tasks sel inserts.
NewDispatches(sel) ==
    {d \in Dispatches : d.task \in sel /\ NextAttempt(d.task, d.attempt)}

(***************************************************************************)
(* schedule_ready, and prepare_dispatch_launch for a new operation id (the *)
(* same transaction followed by a launch claim for every new dispatch):    *)
(* the pass settles the pending tasks as ts and dispatches the tasks sel.  *)
(***************************************************************************)
SchedulePass(claim, ts, sel) ==
    LET new == NewDispatches(sel)
    IN  /\ run \in {"running", "waiting"}
        /\ Settled(ts)
        /\ FirstReady(sel, {t \in Tasks : ts[t] = "ready"})
        /\ \A t \in sel : \E d \in new : d.task = t     \* MaxAttempts
        /\ task' = [t \in Tasks |->
                      IF t \in sel THEN "dispatched" ELSE ts[t]]
        /\ disp' = [d \in Dispatches |->
                      IF d \in new THEN "pending" ELSE disp[d]]
        /\ claimed' = IF claim THEN claimed \cup new ELSE claimed
        /\ run' = RefreshedRun(IF new # {} THEN "running" ELSE run,
                               task', disp', gate)
        /\ UNCHANGED <<deps, launchFailed, agent, worktree, gate, applying,
                       overridden>>

Schedule(claim) ==
    \E ts \in SettledTables, sel \in SUBSET Tasks :
        SchedulePass(claim, ts, sel)

-----------------------------------------------------------------------------
(* Launching and binding (called by launch_ready_dispatches). *)

\* Mutant of BindDispatch: the status of the dispatch is not checked.
BindDispatchAny(d, hasWorktree) ==
    /\ disp[d] # "absent"
    /\ disp' = [disp EXCEPT ![d] = "dispatched"]
    /\ agent' = [agent EXCEPT ![d] = "attached"]
    /\ worktree' = [worktree EXCEPT ![d] =
                      IF hasWorktree THEN "held" ELSE "none"]
    /\ UNCHANGED <<run, task, deps, claimed, launchFailed, gate, applying,
                   overridden>>

\* bind_dispatch, with or without a worktree in the request.
BindDispatch(d, hasWorktree) ==
    /\ disp[d] = "pending"
    /\ disp' = [disp EXCEPT ![d] = "dispatched"]
    /\ agent' = [agent EXCEPT ![d] = "attached"]
    /\ worktree' = [worktree EXCEPT ![d] =
                      IF hasWorktree THEN "held" ELSE "none"]
    /\ UNCHANGED <<run, task, deps, claimed, launchFailed, gate, applying,
                   overridden>>

(***************************************************************************)
(* record_launch_failure: the failure that brings the launch failures of   *)
(* the task to CIRCUIT_BREAKER_FAILURES fails the task; an earlier one     *)
(* makes it ready again.  The run row is not touched.                      *)
(***************************************************************************)
LaunchFailures(t) == {d \in launchFailed : d.task = t}

\* Mutant of RecordLaunchFailure: the breaker trips one failure late.
RecordLaunchFailureLate(d) ==
    LET failures == Cardinality(LaunchFailures(d.task) \ {d}) + 1
        broken   == failures > CircuitBreaker
    IN  /\ disp[d] \in {"pending", "dispatched"}
        /\ disp' = [disp EXCEPT ![d] =
                      IF broken THEN "circuit_broken" ELSE "failed"]
        /\ launchFailed' = launchFailed \cup {d}
        /\ task' = [task EXCEPT ![d.task] =
                      IF broken THEN "failed" ELSE "ready"]
        /\ agent' = IF agent[d] = "none" THEN agent
                    ELSE [agent EXCEPT ![d] = "ended"]
        /\ UNCHANGED <<run, deps, claimed, worktree, gate, applying,
                       overridden>>

\* Mutant of RecordLaunchFailure: the task row gets the dispatch's status.
RecordLaunchFailureMixesRows(d) ==
    /\ disp[d] \in {"pending", "dispatched"}
    /\ disp' = [disp EXCEPT ![d] = "circuit_broken"]
    /\ task' = [task EXCEPT ![d.task] = disp'[d]]
    /\ launchFailed' = launchFailed \cup {d}
    /\ UNCHANGED <<run, deps, claimed, agent, worktree, gate, applying,
                   overridden>>

RecordLaunchFailure(d) ==
    LET failures == Cardinality(LaunchFailures(d.task) \ {d}) + 1
        broken   == failures >= CircuitBreaker
    IN  /\ disp[d] \in {"pending", "dispatched"}
        /\ disp' = [disp EXCEPT ![d] =
                      IF broken THEN "circuit_broken" ELSE "failed"]
        /\ launchFailed' = launchFailed \cup {d}
        /\ task' = [task EXCEPT ![d.task] =
                      IF broken THEN "failed" ELSE "ready"]
        /\ agent' = IF agent[d] = "none" THEN agent
                    ELSE [agent EXCEPT ![d] = "ended"]
        /\ UNCHANGED <<run, deps, claimed, worktree, gate, applying,
                       overridden>>

-----------------------------------------------------------------------------
(* The worker's lifecycle. *)

\* mark_dispatch_running: a pending gate of the dispatch does not prevent it.
MarkDispatchRunning(d) ==
    /\ IdentityMatches(d)
    /\ disp[d] \in {"dispatched", "waiting"}
    /\ disp' = [disp EXCEPT ![d] = "running"]
    /\ UNCHANGED <<run, task, deps, claimed, launchFailed, agent, worktree,
                   gate, applying, overridden>>

\* heartbeat: a waiting dispatch resumes unless one of its gates is pending.
Heartbeat(d) ==
    /\ IdentityMatches(d)
    /\ disp[d] = "waiting"
    /\ ~DispatchHasPendingGate(gate, d)
    /\ disp' = [disp EXCEPT ![d] = "running"]
    /\ UNCHANGED <<run, task, deps, claimed, launchFailed, agent, worktree,
                   gate, applying, overridden>>

(***************************************************************************)
(* reconcile_liveness for one silent agent.  The transaction treats every  *)
(* silent agent in turn, each independently of the others, and does not    *)
(* recompute the run status, so a batch is a sequence of these steps.  The *)
(* agent stays active unless it is gone and cannot be resumed.             *)
(***************************************************************************)
ReconcileLiveness(d, observation) ==
    LET lost == observation = "gone" /\ ~Resumable
    IN  /\ disp[d] \in BoundDispatch
        /\ disp' = [disp EXCEPT ![d] = IF lost THEN "failed"
                                       ELSE IF observation = "running"
                                       THEN "running" ELSE "waiting"]
        /\ agent' = IF lost THEN [agent EXCEPT ![d] = "ended"] ELSE agent
        /\ task' = IF lost THEN [task EXCEPT ![d.task] = "blocked"] ELSE task
        /\ UNCHANGED <<run, deps, claimed, launchFailed, worktree, gate,
                       applying, overridden>>

\* worker_done of a dispatch without a worktree.
WorkerDone(d) ==
    /\ IdentityMatches(d)
    /\ disp[d] \in {"running", "waiting"}
    /\ worktree[d] # "held"
    /\ disp' = [disp EXCEPT ![d] = "completed"]
    /\ task' = [task EXCEPT ![d.task] = "completed"]
    /\ agent' = [agent EXCEPT ![d] = "ended"]
    /\ run' = RefreshedRun(run, task', disp', gate)
    /\ UNCHANGED <<deps, claimed, launchFailed, worktree, gate,
                   applying, overridden>>

\* worker_done of a dispatch with a worktree: it opens the merge gate.
WorkerDoneMerge(d, g) ==
    /\ IdentityMatches(d)
    /\ disp[d] \in {"running", "waiting"}
    /\ worktree[d] = "held"
    /\ CreateGateRecord(g, "merge", d, FALSE)
    /\ disp' = [disp EXCEPT ![d] = "completed"]
    /\ task' = [task EXCEPT ![d.task] = "completed"]
    /\ agent' = [agent EXCEPT ![d] = "ended"]
    /\ run' = "waiting"
    /\ UNCHANGED <<deps, claimed, launchFailed, worktree, applying,
                   overridden>>

\* Mutant of PaneExit: the agent row is not updated.
PaneExitKeepsAgent(d) ==
    /\ disp[d] \in ActiveDispatch
    /\ agent[d] = "attached" \/ (disp[d] = "pending" /\ d \in claimed)
    /\ disp' = [disp EXCEPT ![d] = "failed"]
    /\ task' = [task EXCEPT ![d.task] = "blocked"]
    /\ run' = RefreshedRun(run, task', disp', gate)
    /\ UNCHANGED <<deps, claimed, launchFailed, agent, worktree, gate,
                   applying, overridden>>

(***************************************************************************)
(* record_pane_exit for a pane that no cleanup had announced: an active    *)
(* dispatch fails and its task is blocked.  The pane of a claimed dispatch *)
(* is recorded before it is bound, so its exit can come first.             *)
(***************************************************************************)
PaneExit(d) ==
    /\ disp[d] \in ActiveDispatch
    /\ agent[d] = "attached" \/ (disp[d] = "pending" /\ d \in claimed)
    /\ disp' = [disp EXCEPT ![d] = "failed"]
    /\ task' = [task EXCEPT ![d.task] = "blocked"]
    /\ agent' = IF agent[d] = "none" THEN agent
                ELSE [agent EXCEPT ![d] = "ended"]
    /\ run' = RefreshedRun(run, task', disp', gate)
    /\ UNCHANGED <<deps, claimed, launchFailed, worktree, gate, applying,
                   overridden>>

(***************************************************************************)
(* The pane identity of a worker is cleared and nothing else changes:      *)
(* record_pane_exit after a cleanup recorded its reason, and the last      *)
(* mark_dispatch_resource_disposition of cleanup_dispatch_target.  The     *)
(* cancel, reject, merge and retry flows stop workers this way.            *)
(***************************************************************************)
ReleasePane(d) ==
    /\ agent[d] = "attached"
    /\ agent' = [agent EXCEPT ![d] = "detached"]
    /\ UNCHANGED <<run, task, deps, disp, claimed, launchFailed, worktree,
                   gate, applying, overridden>>

-----------------------------------------------------------------------------
(* Decision gates, merge and cleanup. *)

\* create_gate: the status of the run is not checked.
CreateGate(g, type, d) ==
    /\ d \in Dispatches => disp[d] # "absent"
    /\ CreateGateRecord(g, type, d, TRUE)
    /\ disp' = [e \in Dispatches |->
                  IF e = d /\ disp[e] \in {"dispatched", "running"}
                  THEN "waiting" ELSE disp[e]]
    /\ run' = "waiting"
    /\ UNCHANGED <<task, deps, claimed, launchFailed, agent, worktree,
                   applying, overridden>>

\* Mutant of ResolveDecision: a dispatch that no longer waits is resumed.
ResolveDecisionResumesAny(g) ==
    LET d      == gate[g].dispatch
        gates  == [gate EXCEPT ![g].status = "resolved",
                               ![g].decision = "other"]
        resume == d \in Dispatches /\ ~DispatchHasPendingGate(gates, d)
    IN  /\ gate[g].status = "pending"
        /\ gate[g].type = "decision"
        /\ gate' = gates
        /\ disp' = IF resume THEN [disp EXCEPT ![d] = "running"] ELSE disp
        /\ run' = IF HasPendingGate(gates) THEN run
                  ELSE RefreshedRun("running", task, disp', gates)
        /\ UNCHANGED <<task, deps, claimed, launchFailed, agent, worktree,
                       applying, overridden>>

\* resolve_gate of a gate that is neither a merge nor a cleanup decision.
ResolveDecision(g) ==
    LET d      == gate[g].dispatch
        gates  == [gate EXCEPT ![g].status = "resolved",
                               ![g].decision = "other"]
        resume == /\ d \in Dispatches
                  /\ disp[d] = "waiting"
                  /\ ~DispatchHasPendingGate(gates, d)
    IN  /\ gate[g].status = "pending"
        /\ gate[g].type = "decision"
        /\ gate' = gates
        /\ disp' = IF resume THEN [disp EXCEPT ![d] = "running"] ELSE disp
        /\ run' = IF HasPendingGate(gates) THEN run
                  ELSE RefreshedRun("running", task, disp', gates)
        /\ UNCHANGED <<task, deps, claimed, launchFailed, agent, worktree,
                       applying, overridden>>

\* resolve_gate of a merge or cleanup gate.
ResolveMergeOrCleanup(g, decision) ==
    /\ gate[g].status = "pending"
    /\ gate[g].type \in {"merge", "cleanup"}
    /\ gate' = [gate EXCEPT ![g].status = "resolved",
                            ![g].decision = decision]
    /\ run' = IF decision = "reject" THEN RefreshedRun(run, task, disp, gate')
              ELSE run
    /\ UNCHANGED <<task, deps, disp, claimed, launchFailed, agent, worktree,
                   applying, overridden>>

\* An approved gate that has not been applied.
Approved(g, type) ==
    /\ gate[g].type = type
    /\ gate[g].status = "resolved"
    /\ gate[g].decision = "approve"
    /\ ~gate[g].applied
    /\ gate[g].dispatch \in Dispatches

\* merge_authorization, in a transaction of its own.
AuthorizeMerge(g) ==
    /\ g \notin applying
    /\ Approved(g, "merge")
    /\ worktree[gate[g].dispatch] = "held"
    /\ applying' = applying \cup {g}
    /\ UNCHANGED <<run, task, deps, disp, claimed, launchFailed, agent,
                   worktree, gate, overridden>>

\* mark_merge_applied, which does not look at the worktree any more: h is the
\* new cleanup gate.
MarkMergeApplied(g, h) ==
    LET merged == [gate EXCEPT ![g].applied = TRUE]
    IN  /\ g \in applying
        /\ Approved(g, "merge")
        /\ gate[h].status = "absent"
        /\ \A k \in Gates : k < h => gate[k].status # "absent"
        /\ gate' = [merged EXCEPT ![h] =
                      [AbsentGate EXCEPT !.type = "cleanup",
                                         !.dispatch = gate[g].dispatch,
                                         !.status = "pending"]]
        /\ run' = "waiting"
        /\ applying' = applying \ {g}
        /\ UNCHANGED <<task, deps, disp, claimed, launchFailed, agent,
                       worktree, overridden>>

\* Mutant of MergeApplied: an approved merge is enough.
MergeApproved(d) ==
    \E m \in Gates :
        /\ gate[m].type = "merge"
        /\ gate[m].status = "resolved"
        /\ gate[m].dispatch = d
        /\ gate[m].decision = "approve"

\* cleanup_authorization: the latest resolved merge gate of d was applied.
MergeApplied(d) ==
    \E m \in Gates :
        /\ gate[m].type = "merge"
        /\ gate[m].status = "resolved"
        /\ gate[m].dispatch = d
        /\ gate[m].decision = "approve"
        /\ gate[m].applied
        /\ \A k \in Gates :
              /\ gate[k].type = "merge"
              /\ gate[k].status = "resolved"
              /\ gate[k].dispatch = d
              => k <= m

\* apply_approved_cleanup, up to the authorization it acts on.
AuthorizeCleanup(g) ==
    /\ g \notin applying
    /\ Approved(g, "cleanup")
    /\ MergeApplied(gate[g].dispatch)
    /\ worktree[gate[g].dispatch] = "held"
    /\ applying' = applying \cup {g}
    /\ UNCHANGED <<run, task, deps, disp, claimed, launchFailed, agent,
                   worktree, gate, overridden>>

\* The worktree is removed from disk and its identity cleared.
RemoveWorktree(g) ==
    /\ g \in applying
    /\ gate[g].type = "cleanup"
    /\ worktree[gate[g].dispatch] = "held"
    /\ worktree' = [worktree EXCEPT ![gate[g].dispatch] = "removed"]
    /\ agent' = [agent EXCEPT ![gate[g].dispatch] =
                   IF @ = "attached" THEN "detached" ELSE @]
    /\ UNCHANGED <<run, task, deps, disp, claimed, launchFailed, gate,
                   applying, overridden>>

\* mark_cleanup_applied
MarkCleanupApplied(g) ==
    /\ g \in applying
    /\ gate[g].type = "cleanup"
    /\ worktree[gate[g].dispatch] = "removed"
    /\ gate' = [gate EXCEPT ![g].applied = TRUE]
    /\ run' = RefreshedRun(run, task, disp, gate')
    /\ applying' = applying \ {g}
    /\ UNCHANGED <<task, deps, disp, claimed, launchFailed, agent, worktree,
                   overridden>>

\* What follows an authorization fails: a step of apply_approved_cleanup
\* (preflight, removal), or the transaction (stale revision).
Abandon(g) ==
    /\ g \in applying
    /\ applying' = applying \ {g}
    /\ UNCHANGED <<run, task, deps, disp, claimed, launchFailed, agent,
                   worktree, gate, overridden>>

-----------------------------------------------------------------------------
(* The operator's decisions on tasks and on the run. *)

\* validate_manual_task_transition, for a status that changes.
ManualTransition(from, to) ==
    \/ from = "pending" /\ to = "ready"
    \/ from = "ready" /\ to = "blocked"
    \/ from \in {"failed", "blocked"} /\ to = "ready"
    \/ from # "cancelled" /\ to = "cancelled"

\* update_task with a status in the patch.
UpdateTask(t, status) ==
    /\ task[t] # "absent"
    /\ ManualTransition(task[t], status)
    /\ task' = [task EXCEPT ![t] = status]
    /\ overridden' = overridden \cup {t}
    /\ UNCHANGED <<run, deps, disp, claimed, launchFailed, agent, worktree,
                   gate, applying>>

\* Mutant of RetryTask: a task can be retried while it is dispatched.
RetryTaskDispatched(t) ==
    /\ task[t] \in {"failed", "blocked", "cancelled", "dispatched"}
    /\ task' = [task EXCEPT ![t] =
                  IF DependenciesCompleted(t) THEN "ready" ELSE "pending"]
    /\ run' = IF run \in TerminalRun \cup {"waiting"} THEN "running" ELSE run
    /\ UNCHANGED <<deps, disp, claimed, launchFailed, agent, worktree,
                   gate, applying, overridden>>

\* Mutant of RetryTask: the dependencies are not looked at.
RetryTaskAlwaysReady(t) ==
    /\ task[t] \in {"failed", "blocked", "cancelled"}
    /\ task' = [task EXCEPT ![t] = "ready"]
    /\ run' = IF run \in TerminalRun \cup {"waiting"} THEN "running" ELSE run
    /\ UNCHANGED <<deps, disp, claimed, launchFailed, agent, worktree,
                   gate, applying, overridden>>

\* retry_task
RetryTask(t) ==
    /\ task[t] \in {"failed", "blocked", "cancelled"}
    /\ task' = [task EXCEPT ![t] =
                  IF DependenciesCompleted(t) THEN "ready" ELSE "pending"]
    /\ run' = IF run \in TerminalRun \cup {"waiting"} THEN "running" ELSE run
    /\ UNCHANGED <<deps, disp, claimed, launchFailed, agent, worktree,
                   gate, applying, overridden>>

\* Mutant of AcceptRun: open gates do not prevent the acceptance.
AcceptRunIgnoresGates ==
    /\ \A t \in Tasks : task[t] \in {"absent", "completed"}
    /\ run' = "completed"
    /\ UNCHANGED <<task, deps, disp, claimed, launchFailed, agent,
                   worktree, gate, applying, overridden>>

\* accept_run
AcceptRun ==
    /\ \A t \in Tasks : task[t] \in {"absent", "completed"}
    /\ ~HasPendingGate(gate)
    /\ run' = "completed"
    /\ UNCHANGED <<task, deps, disp, claimed, launchFailed, agent, worktree,
                   gate, applying, overridden>>

\* Mutant of CancelEntities: waiting dispatches are forgotten.
CancelEntitiesSkipsWaiting ==
    /\ task' = [t \in Tasks |->
                  IF task[t] \in FinishedTask \cup {"absent"} THEN task[t]
                  ELSE "cancelled"]
    /\ disp' = [d \in Dispatches |->
                  IF disp[d] \in ActiveDispatch \ {"waiting"}
                  THEN "cancelled" ELSE disp[d]]
    /\ agent' = [d \in Dispatches |->
                   IF agent[d] \in ActiveAgent THEN "ended" ELSE agent[d]]
    /\ gate' = [g \in Gates |->
                  IF gate[g].status = "pending"
                  THEN [gate[g] EXCEPT !.status = "cancelled"]
                  ELSE gate[g]]
    /\ run' = "cancelled"
    /\ UNCHANGED <<deps, claimed, launchFailed, worktree, applying,
                   overridden>>

\* cancel_active_run_entities, and the same updates inside cancel_run.
CancelEntities ==
    /\ task' = [t \in Tasks |->
                  IF task[t] \in FinishedTask \cup {"absent"} THEN task[t]
                  ELSE "cancelled"]
    /\ disp' = [d \in Dispatches |->
                  IF disp[d] \in ActiveDispatch THEN "cancelled"
                  ELSE disp[d]]
    /\ agent' = [d \in Dispatches |->
                   IF agent[d] \in ActiveAgent THEN "ended"
                   ELSE agent[d]]
    /\ gate' = [g \in Gates |->
                  IF gate[g].status = "pending"
                  THEN [gate[g] EXCEPT !.status = "cancelled"]
                  ELSE gate[g]]
    /\ run' = "cancelled"
    /\ UNCHANGED <<deps, claimed, launchFailed, worktree, applying,
                   overridden>>

\* cancel_run
CancelRun ==
    /\ run \notin TerminalRun
    /\ CancelEntities

\* reject_run: allowed in every status.
RejectRun == CancelEntities

-----------------------------------------------------------------------------
(***************************************************************************)
(* The daemon died and a new one runs reconcile_orchestration_startup:     *)
(* every worker is stopped and its pane identity cleared, then             *)
(* reconcile_daemon_restart treats the active dispatches of the run and    *)
(* times out the gates in late, which have expired.  A claimed pending     *)
(* dispatch is left to the client's retry of its launch operation.         *)
(***************************************************************************)
DaemonRestart(late) ==
    LET reconciled == run \in {"planning", "running", "waiting", "paused"}
        swept == IF reconciled
                 THEN {d \in ActiveIn(disp) :
                         ~(disp[d] = "pending" /\ d \in claimed)}
                 ELSE {}
        lost  == {d \in swept : disp[d] # "pending"}
        timed == IF reconciled THEN late ELSE {}
    IN  /\ \A g \in late : gate[g].status = "pending" /\ gate[g].expires
        /\ disp' = [d \in Dispatches |->
                      IF d \in swept THEN "failed" ELSE disp[d]]
        /\ task' = [t \in Tasks |->
                      IF \E d \in lost : d.task = t THEN "blocked"
                      ELSE IF /\ \E d \in swept : d.task = t
                              /\ task[t] = "dispatched"
                      THEN "ready" ELSE task[t]]
        /\ agent' = [d \in Dispatches |->
                       IF d \in lost THEN "ended"
                       ELSE IF agent[d] = "attached" THEN "detached"
                       ELSE agent[d]]
        /\ gate' = [g \in Gates |->
                      IF g \in timed THEN [gate[g] EXCEPT !.status = "timeout"]
                      ELSE gate[g]]
        /\ run' = IF swept = {} /\ timed = {} THEN run
                  ELSE RefreshedRun(run, task', disp', gate')
        /\ applying' = {}
        /\ UNCHANGED <<deps, claimed, launchFailed, worktree, overridden>>

Next ==
    \/ StartRun
    \/ \E t \in Tasks : \E ds \in SUBSET Tasks : CreateTask(t, ds)
    \/ \E claim \in Claims : Schedule(claim)
    \/ \E d \in Dispatches, w \in Worktrees : BindDispatch(d, w)
    \/ \E d \in Dispatches : RecordLaunchFailure(d)
    \/ \E d \in Dispatches : MarkDispatchRunning(d)
    \/ \E d \in Dispatches : Heartbeat(d)
    \/ \E d \in Dispatches, o \in {"running", "waiting", "gone", "unknown"} :
          ReconcileLiveness(d, o)
    \/ \E d \in Dispatches : WorkerDone(d)
    \/ \E d \in Dispatches, g \in Gates : WorkerDoneMerge(d, g)
    \/ \E d \in Dispatches : PaneExit(d)
    \/ \E d \in Dispatches : ReleasePane(d)
    \/ \E g \in Gates, type \in GateTypes,
          d \in Dispatches \cup {NoDispatch} : CreateGate(g, type, d)
    \/ \E g \in Gates : ResolveDecision(g)
    \/ \E g \in Gates, decision \in {"approve", "reject"} :
          ResolveMergeOrCleanup(g, decision)
    \/ \E g \in Gates : AuthorizeMerge(g)
    \/ \E g, h \in Gates : MarkMergeApplied(g, h)
    \/ \E g \in Gates : AuthorizeCleanup(g)
    \/ \E g \in Gates : RemoveWorktree(g)
    \/ \E g \in Gates : MarkCleanupApplied(g)
    \/ \E g \in Gates : Abandon(g)
    \/ \E t \in Tasks, status \in TaskStatus : UpdateTask(t, status)
    \/ \E t \in Tasks : RetryTask(t)
    \/ AcceptRun
    \/ CancelRun
    \/ RejectRun
    \/ \E late \in SUBSET Gates : DaemonRestart(late)

Spec == Init /\ [][Next]_vars
-----------------------------------------------------------------------------
(* Properties. *)

\* The dispatches of task t that are active.
ActiveOf(t) == {d \in ActiveIn(disp) : d.task = t}

(***************************************************************************)
(* No interleaving of scheduling passes, launches, retries, gates and      *)
(* restarts makes more than policy.max_concurrent dispatches active: the   *)
(* count that schedule_ready_transaction takes misses none of them.        *)
(***************************************************************************)
ConcurrencyCap == Cardinality(ActiveIn(disp)) <= MaxConcurrent

(***************************************************************************)
(* A decision is never left open in a finished run: completed, failed and  *)
(* cancelled runs have no pending gate, so every open gate belongs to a    *)
(* run that is still going on.                                             *)
(***************************************************************************)
TerminalRunHasNoPendingGate == run \in TerminalRun => ~HasPendingGate(gate)

(***************************************************************************)
(* A cancelled run is quiet: cancel_run and reject_run leave no active     *)
(* dispatch and no active agent, and nothing brings one back while the run *)
(* stays cancelled, although tasks of it can be made ready again by hand.  *)
(***************************************************************************)
CancelledRunIsQuiet ==
    run = "cancelled" =>
        \A d \in Dispatches :
            disp[d] \notin ActiveDispatch /\ agent[d] \notin ActiveAgent

(***************************************************************************)
(* Unless task.update changed its status by hand, a task has at most one   *)
(* active dispatch, and has one only while its own status is dispatched:   *)
(* no failure, exit, restart or retry starts an attempt beside another.    *)
(***************************************************************************)
AttemptsDoNotOverlap ==
    \A d \in ActiveIn(disp) :
        d.task \notin overridden =>
            task[d.task] = "dispatched" /\ ActiveOf(d.task) = {d}

(***************************************************************************)
(* A task whose status and whose dependencies' statuses were never changed *)
(* by hand is ready, dispatched or completed only when every dependency is *)
(* completed, however often tasks fail, are retried or the daemon          *)
(* restarts.                                                               *)
(***************************************************************************)
DependencyOrder ==
    \A t \in Tasks \ overridden :
        task[t] \in {"ready", "dispatched", "completed"} =>
            \A u \in deps[t] \ overridden : task[u] = "completed"

(***************************************************************************)
(* A completed or failed run has nothing left to do: each of its tasks     *)
(* whose status was never changed by hand has a final status, and none of  *)
(* those has an active dispatch.                                           *)
(***************************************************************************)
FinishedRunIsDone ==
    run \in {"completed", "failed"} =>
        \A t \in Tasks \ overridden :
            task[t] \in FinishedTask \cup {"absent"} /\ ActiveOf(t) = {}

(***************************************************************************)
(* An agent instance is active exactly while the dispatch it is bound to   *)
(* is: none of the ten ways a dispatch ends leaves its agent active, and   *)
(* no late call makes a finished dispatch's agent active again.            *)
(***************************************************************************)
AgentFollowsDispatch ==
    \A d \in Dispatches :
        agent[d] \in ActiveAgent <=> disp[d] \in BoundDispatch

(***************************************************************************)
(* A worktree is removed only if its merge was approved by a gate and      *)
(* recorded as applied, and its removal was approved by a cleanup gate,    *)
(* also when gates are added or rejected while the removal is under way.   *)
(***************************************************************************)
RemovalWasApproved ==
    \A d \in Dispatches :
        worktree[d] = "removed" =>
            /\ \E g \in Gates :
                  /\ gate[g].type = "merge" /\ gate[g].dispatch = d
                  /\ gate[g].status = "resolved"
                  /\ gate[g].decision = "approve" /\ gate[g].applied
            /\ \E g \in Gates :
                  /\ gate[g].type = "cleanup" /\ gate[g].dispatch = d
                  /\ gate[g].status = "resolved"
                  /\ gate[g].decision = "approve"

(***************************************************************************)
(* The launch circuit breaker: some attempt of a task is circuit_broken    *)
(* exactly when its launch failures have reached CIRCUIT_BREAKER_FAILURES, *)
(* whatever other failures, restarts and retries lie between them.         *)
(***************************************************************************)
BreakerTripsOnTime ==
    \A t \in Tasks :
        Cardinality(LaunchFailures(t)) >= CircuitBreaker <=>
            \E d \in Dispatches : d.task = t /\ disp[d] = "circuit_broken"

(***************************************************************************)
(* The verdict on a dispatch is final: once it is completed, failed,       *)
(* circuit_broken or cancelled, no late heartbeat, exit, gate decision,    *)
(* launch failure, cancellation or restart changes its status.             *)
(***************************************************************************)
VerdictIsFinal ==
    [][\A d \in Dispatches :
          disp[d] \notin ActiveDispatch \cup {"absent"} => disp'[d] = disp[d]]_vars

(***************************************************************************)
(* The detailed specification implements DispatchSlots: an attempt is in   *)
(* use while its dispatch is active, and ended with any verdict.           *)
(***************************************************************************)
PhaseOf(status) == IF status = "absent" THEN "unused"
                   ELSE IF status \in ActiveDispatch THEN "in use" ELSE "ended"

Phase == [d \in Dispatches |-> PhaseOf(disp[d])]

DS == INSTANCE DispatchSlots
        WITH Attempts <- Dispatches, Slots <- MaxConcurrent, phase <- Phase

\* Attempts use slots as DispatchSlots promises, through every transaction.
ImplementsSlots == DS!Spec
=============================================================================
