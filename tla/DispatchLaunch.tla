--------------------------- MODULE DispatchLaunch ---------------------------
(***************************************************************************)
(* The daemon's threads that start and stop the workers of one run, over   *)
(* the rows of Coordinator: one launch operation of dispatch.launch        *)
(* (launch_ready_dispatches, one thread at a time under                    *)
(* ORCHESTRATION_LAUNCH_LOCK), one RPC at a time that stops workers        *)
(* (run.cancel, run.reject or dispatch.cleanup), the reader thread of      *)
(* every worker's pane, and the death and the start of the daemon.  Each   *)
(* action is one transaction of the coordinator or one critical section of *)
(* the daemon state; a step between two of them is a step of the thread.   *)
(*                                                                         *)
(* Revisions matter here, because a thread acts with the one it has read:  *)
(* a set or flag "fresh" says whether that revision is still current.      *)
(*                                                                         *)
(* A worker is the process that a pane runs; what it starts itself is left *)
(* out.  So are the root process id and start time of the resource row:    *)
(* the pane identity that every worker carries in its environment decides  *)
(* what a cleanup stops.                                                   *)
(***************************************************************************)
EXTENDS Integers, FiniteSets

CONSTANTS
    MaxTasks,       \* bound: tasks of the run, none depending on another
    MaxConcurrent,  \* policy.max_concurrent
    CircuitBreaker, \* CIRCUIT_BREAKER_FAILURES
    Worktrees,      \* launches may use a worktree, or none: in a worktree a
                    \* pane does not belong to the session of its run
    Verdicts,       \* the RPCs that end the run, of "cancel" and "reject"
    Edits,          \* bound: tasks that clients update
    Faults          \* "crash": the daemon may die; "survive": a worker may
                    \* be outside its kill-on-close job and outlive it

ASSUME LaunchAssumption ==
    /\ MaxTasks \in Nat
    /\ Worktrees \subseteq BOOLEAN
    /\ Verdicts \subseteq {"cancel", "reject"}
    /\ Edits \subseteq 1 .. MaxTasks
    /\ Faults \subseteq {"crash", "survive"}

VARIABLES
    run, task, deps, disp, claimed, launchFailed, agent, worktree, gate,
    applying, overridden,   \* the rows of Coordinator
    op,       \* the launch operation row: none, intent or final
    res,      \* dispatch_resources
    workers,  \* live processes that carry the pane identity of a dispatch:
              \* hosted by the pane last spawned, or orphans of an earlier one
    entries,  \* dispatches whose pane is in the daemon state
    exits,    \* reader threads between mark_exited and record_pane_exit
    launch,   \* the launching thread
    stop,     \* the thread of the RPC that stops workers, and which of its
              \* targets had a pane bound when it read them
    job,      \* cleanup_dispatch_target, as called by either thread
    up,       \* the daemon serves requests
    raced,    \* history: a launch ever met a stopping RPC, or began before
              \* every reader thread had recorded its pane's exit
    edited    \* history: tasks updated while a launch was running

rows == <<run, task, deps, disp, claimed, launchFailed, agent, worktree,
          gate, applying, overridden>>

vars == <<rows, op, res, workers, entries, exits, launch, stop, job, up,
          raced, edited>>

\* Every task has one attempt, and the run one launch operation.
C == INSTANCE Coordinator
        WITH MaxAttempts <- 1, MaxGates <- 0, Resumable <- FALSE,
             Claims <- {TRUE}, Worktrees <- Worktrees, GateTypes <- {}

Dispatches == C!Dispatches

\* Mutant of Intentional: record_pane_exit takes a restart for a failure.
IntentionalForgetsRestart ==
    {"cancel", "reject", "launch_failure", "retry_cleanup"}

\* cleanup_reason values after which a pane exit is expected.
Intentional == {"cancel", "reject", "launch_failure", "retry_cleanup",
                "daemon_restart"}

Resource ==
    [row      : BOOLEAN,  \* the row exists
     worktree : BOOLEAN,  \* its session is that of a worktree
     pane     : BOOLEAN,  \* pane_id is recorded
     state    : {"not_created", "live", "cleaned", "cleanup_failed"},
     reason   : Intentional \cup {"none", "process_exit"}]

NoJob == [step |-> "idle", d |-> C!NoDispatch, ok |-> TRUE]

IdleLaunch == [step |-> "idle", todo |-> {}, d |-> C!NoDispatch, fresh |-> {}]

IdleStop == [step |-> "idle", kind |-> "none", todo |-> {}, bound |-> {},
             fresh |-> FALSE]

\* Every variable has its type: in particular only the cleanup reasons and
\* resource states that the code writes are ever recorded.
TypeOK ==
    /\ C!TypeOK
    /\ op \in {"none", "intent", "final"}
    /\ res \in [Dispatches -> Resource]
    /\ workers \in [Dispatches -> SUBSET {"hosted", "orphan"}]
    /\ entries \subseteq Dispatches
    /\ exits \subseteq Dispatches
    /\ launch \in [step  : {"idle", "next", "reserve", "record", "spawn",
                            "insert", "identify", "capture", "check",
                            "bind", "failing"},
                   todo  : SUBSET Dispatches,
                   d     : Dispatches \cup {C!NoDispatch},
                   fresh : SUBSET C!Tasks]
    /\ stop \in [step  : {"idle", "next", "cleaning"},
                 kind  : Verdicts \cup {"retry_cleanup", "none"},
                 todo  : SUBSET Dispatches,
                 bound : SUBSET Dispatches,
                 fresh : BOOLEAN]
    /\ job \in [{"launch", "stop"} ->
                  [step : {"idle", "mark", "close", "kill", "stopped",
                           "failed", "end"},
                   d    : Dispatches \cup {C!NoDispatch},
                   ok   : BOOLEAN]]
    /\ up \in BOOLEAN
    /\ raced \in BOOLEAN
    /\ edited \subseteq C!Tasks

Init ==
    /\ run = "running"
    /\ task = [t \in C!Tasks |-> "pending"]
    /\ deps = [t \in C!Tasks |-> {}]
    /\ disp = [d \in Dispatches |-> "absent"]
    /\ agent = [d \in Dispatches |-> "none"]
    /\ worktree = [d \in Dispatches |-> "none"]
    /\ gate = [g \in C!Gates |-> C!AbsentGate]
    /\ claimed = {} /\ launchFailed = {} /\ applying = {} /\ overridden = {}
    /\ op = "none"
    /\ res = [d \in Dispatches |->
                [row |-> FALSE, worktree |-> FALSE, pane |-> FALSE,
                 state |-> "not_created", reason |-> "none"]]
    /\ workers = [d \in Dispatches |-> {}]
    /\ entries = {} /\ exits = {}
    /\ launch = IdleLaunch
    /\ stop = IdleStop
    /\ job = [w \in {"launch", "stop"} |-> NoJob]
    /\ up = TRUE /\ raced = FALSE /\ edited = {}

\* A thread visits dispatches in the order of their tasks' positions.
First(ds) == CHOOSE d \in ds : \A e \in ds : d.task <= e.task

-----------------------------------------------------------------------------
(* launch_ready_dispatches *)

\* The run revision moves on: what the stopping RPC has read is stale.
BumpRunRevision == stop' = [stop EXCEPT !.fresh = FALSE]

\* Dispatches whose reader thread has still to record that a pane exited.
Reporting == exits \cup {d \in entries : "hosted" \notin workers[d]}

(***************************************************************************)
(* prepare_dispatch_launch and the tasks that the thread reads after it.   *)
(* A new operation schedules and claims; one that did not finish continues *)
(* with the dispatches it has claimed; a final one is only replayed.       *)
(***************************************************************************)
PrepareLaunch ==
    /\ up
    /\ launch.step = "idle"
    /\ \/ /\ op = "none"
          /\ C!Schedule(TRUE)
          /\ BumpRunRevision
       \/ /\ op = "intent"
          /\ UNCHANGED <<rows, stop>>
    /\ op' = "intent"
    /\ launch' = [step |-> "next", todo |-> claimed', d |-> C!NoDispatch,
                  fresh |-> C!Tasks]
    /\ raced' = (raced \/ stop.step # "idle" \/ Reporting # {})
    /\ UNCHANGED <<res, workers, entries, exits, job, up, edited>>

\* The thread goes on to the next planned dispatch, and skips it unless
\* it is still pending.
NextDispatch ==
    /\ launch.step = "next"
    /\ launch.todo # {}
    /\ LET d == First(launch.todo)
       IN  launch' = IF disp[d] = "pending"
                     THEN [launch EXCEPT !.step = "reserve", !.d = d]
                     ELSE [launch EXCEPT !.todo = @ \ {d}]
    /\ UNCHANGED <<rows, op, res, workers, entries, exits, stop, job, up,
                   raced, edited>>

\* The thread is at a step of the launch of d.
Launching(d, step) == launch.step = step /\ launch.d = d

\* The thread has finished with d.
LaunchedNext(d) ==
    launch' = [launch EXCEPT !.step = "next", !.todo = @ \ {d},
                             !.d = C!NoDispatch]

\* The launch of d fails: its resources, if reserved, are cleaned up.
FailLaunch(d) ==
    /\ launch' = [launch EXCEPT !.step = "failing"]
    /\ job' = [job EXCEPT !["launch"] =
                 [step |-> IF res[d].row THEN "mark" ELSE "end",
                  d |-> d, ok |-> TRUE]]

\* The workspace, the agent registration or the pane spawn fails.
LaunchError(d) ==
    /\ launch.step \in {"reserve", "record", "spawn"}
    /\ launch.d = d
    /\ FailLaunch(d)
    /\ UNCHANGED <<rows, op, res, workers, entries, exits, stop, up,
                   raced, edited>>

\* Mutant of ReserveResources: a failed cleanup is not looked at.
ReserveResourcesUnchecked(d, inWorktree) ==
    /\ Launching(d, "reserve")
    /\ res[d].row => inWorktree = res[d].worktree
    /\ launch' = [launch EXCEPT !.step = "record"]
    /\ res' = [res EXCEPT ![d].row = TRUE, ![d].worktree = inWorktree]
    /\ UNCHANGED <<rows, op, workers, entries, exits, stop, job, up, raced,
                   edited>>

\* reserve_dispatch_resources: a failed cleanup must be retried first.
ReserveResources(d, inWorktree) ==
    /\ Launching(d, "reserve")
    /\ res[d].row => inWorktree = res[d].worktree
    /\ IF res[d].state = "cleanup_failed" THEN FailLaunch(d)
       ELSE launch' = [launch EXCEPT !.step = "record"] /\ UNCHANGED job
    /\ res' = [res EXCEPT ![d].row = TRUE, ![d].worktree = inWorktree]
    /\ UNCHANGED <<rows, op, workers, entries, exits, stop, up, raced,
                   edited>>

\* Mutant of RecordPane: the pane is recorded only once its process is known.
RecordPaneLate(d, step, next) ==
    /\ Launching(d, step)
    /\ IF step = "record" THEN UNCHANGED res
       ELSE res' = [res EXCEPT ![d].pane = TRUE, ![d].state = "live",
                               ![d].reason = "none"]
    /\ launch' = [launch EXCEPT !.step = next]
    /\ UNCHANGED <<rows, op, workers, entries, exits, stop, job, up, raced,
                   edited>>

(***************************************************************************)
(* record_dispatch_pane_resource, called before the worker is spawned and  *)
(* again when its process is known.  Nothing else of the row or of the     *)
(* dispatch is looked at.                                                  *)
(***************************************************************************)
RecordPane(d, step, next) ==
    /\ Launching(d, step)
    /\ res' = [res EXCEPT ![d].pane = TRUE, ![d].state = "live",
                          ![d].reason = "none"]
    /\ launch' = [launch EXCEPT !.step = next]
    /\ UNCHANGED <<rows, op, workers, entries, exits, stop, job, up, raced,
                   edited>>

\* spawn_orchestration_pane_for_session starts the process, unless the
\* daemon already has the pane.
SpawnWorker(d) ==
    /\ Launching(d, "spawn")
    /\ IF d \in entries
       THEN UNCHANGED workers /\ launch' = [launch EXCEPT !.step = "identify"]
       ELSE /\ workers' = [workers EXCEPT ![d] = @ \cup {"hosted"}]
            /\ launch' = [launch EXCEPT !.step = "insert"]
    /\ UNCHANGED <<rows, op, res, entries, exits, stop, job, up, raced,
                   edited>>

(***************************************************************************)
(* insert_pane_or_recover, and the start of the reader thread; or the      *)
(* spawn is cancelled, or its session gone, and the process is killed      *)
(* again.  That the kill fails is only warned about.                       *)
(***************************************************************************)
InsertPane(d) ==
    /\ Launching(d, "insert")
    /\ \/ /\ entries' = entries \cup {d}
          /\ launch' = [launch EXCEPT !.step = "identify"]
          /\ UNCHANGED <<workers, job>>
       \/ /\ \E killed \in BOOLEAN :
               workers' = [workers EXCEPT ![d] =
                             IF killed THEN @ \ {"hosted"}
                             ELSE IF @ = {} THEN {} ELSE {"orphan"}]
          /\ FailLaunch(d)
          /\ UNCHANGED entries
    /\ UNCHANGED <<rows, op, res, exits, stop, up, raced, edited>>

\* The root process of the pane is looked up, with its start time.
IdentifyWorker(d) ==
    /\ Launching(d, "identify")
    /\ IF d \in entries /\ "hosted" \in workers[d]
       THEN launch' = [launch EXCEPT !.step = "capture"] /\ UNCHANGED job
       ELSE FailLaunch(d)
    /\ UNCHANGED <<rows, op, res, workers, entries, exits, stop, up, raced,
                   edited>>

\* The pane must still be there before it is bound.
CheckPane(d) ==
    /\ Launching(d, "check")
    /\ IF d \in entries
       THEN launch' = [launch EXCEPT !.step = "bind"] /\ UNCHANGED job
       ELSE FailLaunch(d)
    /\ UNCHANGED <<rows, op, res, workers, entries, exits, stop, up, raced,
                   edited>>

\* bind_dispatch, with the task revision that the thread has read.
BindWorker(d) ==
    /\ Launching(d, "bind")
    /\ IF disp[d] = "pending" /\ d.task \in launch.fresh
       THEN C!BindDispatch(d, res[d].worktree) /\ LaunchedNext(d) /\ UNCHANGED job
       ELSE FailLaunch(d) /\ UNCHANGED rows
    /\ UNCHANGED <<op, res, workers, entries, exits, stop, up, raced,
                   edited>>

\* Mutant of LaunchFailed: only a dispatch that was bound is failed.
LaunchFailedIfBound(d) ==
    /\ Launching(d, "failing")
    /\ job["launch"].step = "end"
    /\ IF disp[d] = "dispatched" /\ d.task \in launch.fresh
       THEN C!RecordLaunchFailure(d) ELSE UNCHANGED rows
    /\ job' = [job EXCEPT !["launch"] = NoJob]
    /\ LaunchedNext(d)
    /\ UNCHANGED <<op, res, workers, entries, exits, stop, up, raced, edited>>

(***************************************************************************)
(* record_launch_failure, with the same task revision.  The thread ignores *)
(* its failure.                                                            *)
(***************************************************************************)
LaunchFailed(d) ==
    /\ Launching(d, "failing")
    /\ job["launch"].step = "end"
    /\ IF disp[d] \in {"pending", "dispatched"} /\ d.task \in launch.fresh
       THEN C!RecordLaunchFailure(d) ELSE UNCHANGED rows
    /\ job' = [job EXCEPT !["launch"] = NoJob]
    /\ LaunchedNext(d)
    /\ UNCHANGED <<op, res, workers, entries, exits, stop, up, raced,
                   edited>>

\* complete_dispatch_launch, unless persist_state has failed before it.
CompleteLaunch(persisted) ==
    /\ launch.step = "next"
    /\ launch.todo = {}
    /\ op' = IF persisted THEN "final" ELSE op
    /\ launch' = IdleLaunch
    /\ UNCHANGED <<rows, res, workers, entries, exits, stop, job, up,
                   raced, edited>>

-----------------------------------------------------------------------------
(* cleanup_dispatch_target, called by thread w. *)

Reason(w) == IF w = "launch" THEN "launch_failure" ELSE stop.kind

At(w, step) == up /\ job[w].step = step

\* require_workers_stopped, about one row.
Stopped(r) == r.state \in {"not_created", "cleaned"}

JobAt(w, step) == job' = [job EXCEPT ![w].step = step]

\* The reason is recorded.  The pane is that of the row as it is then, or else
\* the one that was bound when the target was read; a dispatch whose launch
\* fails has none bound.
MarkCleanup(w) ==
    /\ At(w, "mark")
    /\ LET d == job[w].d
       IN  /\ res' = [res EXCEPT ![d].reason = Reason(w)]
           /\ job' = IF res[d].pane \/ (w = "stop" /\ d \in stop.bound)
                     THEN [job EXCEPT ![w].step = "close"]
                     ELSE [job EXCEPT ![w].step = "end",
                                      ![w].ok = @ /\ Stopped(res[d])]
    /\ UNCHANGED <<rows, op, workers, entries, exits, launch, stop, up,
                   raced, edited>>

(***************************************************************************)
(* close_pane, if the session of the run has the pane: its reader thread   *)
(* will find it gone and say nothing.  Another pane is left to be killed.  *)
(***************************************************************************)
ClosePane(w) ==
    LET d == job[w].d
    IN  /\ At(w, "close")
        /\ IF d \in entries /\ ~res[d].worktree
           THEN /\ entries' = entries \ {d}
                /\ workers' = [workers EXCEPT ![d] =
                                 IF @ = {} THEN {} ELSE {"orphan"}]
           ELSE UNCHANGED <<entries, workers>>
        /\ JobAt(w, "kill")
        /\ UNCHANGED <<rows, op, res, exits, launch, stop, up, raced,
                       edited>>

\* Pane::kill and kill_pane_processes_until_exit, which may give up.
KillWorkers(w) ==
    /\ At(w, "kill")
    /\ \/ /\ workers' = [workers EXCEPT ![job[w].d] = {}]
          /\ JobAt(w, "stopped")
       \/ /\ workers[job[w].d] # {}
          /\ JobAt(w, "failed")
          /\ UNCHANGED workers
    /\ UNCHANGED <<rows, op, res, entries, exits, launch, stop, up, raced,
                   edited>>

\* mark_dispatch_resource_disposition with the outcome.
RecordCleanup(w) ==
    LET d == job[w].d
    IN  /\ \/ /\ At(w, "stopped")
              /\ res' = [res EXCEPT ![d].pane = FALSE, ![d].state = "cleaned",
                                    ![d].reason = Reason(w)]
              /\ IF agent[d] = "attached" THEN C!ReleasePane(d)
                 ELSE UNCHANGED rows
              /\ JobAt(w, "end")
           \/ /\ At(w, "failed")
              /\ res' = [res EXCEPT ![d].state = "cleanup_failed",
                                    ![d].reason = Reason(w)]
              /\ job' = [job EXCEPT ![w].step = "end", ![w].ok = FALSE]
              /\ UNCHANGED rows
        /\ UNCHANGED <<op, workers, entries, exits, launch, stop, up,
                       raced, edited>>

-----------------------------------------------------------------------------
(* run.cancel, run.reject and dispatch.cleanup. *)

StartStop(kind, targets) ==
    /\ up
    /\ stop.step = "idle"
    /\ stop' = [step |-> "next", kind |-> kind, todo |-> targets,
                bound |-> {d \in targets : agent[d] = "attached"},
                fresh |-> TRUE]
    /\ raced' = (raced \/ launch.step # "idle")
    /\ UNCHANGED <<rows, op, res, workers, entries, exits, launch, job, up,
                   edited>>

\* validate_run_cleanup_revision and cleanup_targets_for_run: a dispatch
\* whose resources are not reserved yet has nothing to clean up.
RequestVerdict(kind) ==
    /\ run # "cancelled"
    /\ StartStop(kind, {d \in Dispatches : res[d].row})

\* dispatch.cleanup
RequestCleanup(d) ==
    /\ res[d].state = "cleanup_failed"
    /\ StartStop("retry_cleanup", {d})

\* cleanup_run_resources turns to the next target.
NextTarget ==
    /\ stop.step = "next"
    /\ stop.todo # {}
    /\ job' = [job EXCEPT !["stop"].step = "mark",
                          !["stop"].d = First(stop.todo)]
    /\ stop' = [stop EXCEPT !.step = "cleaning",
                            !.todo = @ \ {First(@)}]
    /\ UNCHANGED <<rows, op, res, workers, entries, exits, launch, up,
                   raced, edited>>

TargetDone ==
    /\ stop.step = "cleaning"
    /\ job["stop"].step = "end"
    /\ job' = [job EXCEPT !["stop"].step = "idle"]
    /\ stop' = [stop EXCEPT !.step = "next"]
    /\ UNCHANGED <<rows, op, res, workers, entries, exits, launch, up,
                   raced, edited>>

\* Mutant of FinishStop: cleanup errors are reported but do not refuse.
FinishStopAnyway(persisted) ==
    LET proceed == /\ persisted
                   /\ stop.fresh
                   /\ \/ stop.kind = "reject"
                      \/ stop.kind = "cancel" /\ run \notin C!TerminalRun
    IN  /\ stop.step = "next"
        /\ stop.todo = {}
        /\ IF ~proceed THEN UNCHANGED rows
           ELSE IF stop.kind = "cancel" THEN C!CancelRun ELSE C!RejectRun
        /\ stop' = IdleStop
        /\ job' = [job EXCEPT !["stop"] = NoJob]
        /\ UNCHANGED <<op, res, workers, entries, exits, launch, up, raced,
                       edited>>

(***************************************************************************)
(* require_workers_stopped, persist_state and then cancel_run or           *)
(* reject_run with the run revision that the RPC started from.             *)
(***************************************************************************)
FinishStop(persisted) ==
    LET proceed == /\ job["stop"].ok
                   /\ persisted
                   /\ stop.fresh
                   /\ \/ stop.kind = "reject"
                      \/ stop.kind = "cancel" /\ run \notin C!TerminalRun
    IN  /\ stop.step = "next"
        /\ stop.todo = {}
        /\ IF ~proceed THEN UNCHANGED rows
           ELSE IF stop.kind = "cancel" THEN C!CancelRun ELSE C!RejectRun
        /\ stop' = IdleStop
        /\ job' = [job EXCEPT !["stop"] = NoJob]
        /\ UNCHANGED <<op, res, workers, entries, exits, launch, up,
                       raced, edited>>

-----------------------------------------------------------------------------
(* Workers, their reader threads, the operator, and the daemon process. *)

\* A worker process ends by itself.
WorkerExits(d) ==
    /\ \E p \in workers[d] : workers' = [workers EXCEPT ![d] = @ \ {p}]
    /\ UNCHANGED <<rows, op, res, entries, exits, launch, stop, job, up,
                   raced, edited>>

\* read_pane_loop ends: mark_exited_for_generation removes the pane.
MarkExited(d) ==
    /\ d \in entries
    /\ "hosted" \notin workers[d]
    /\ entries' = entries \ {d}
    /\ exits' = exits \cup {d}
    /\ UNCHANGED <<rows, op, res, workers, launch, stop, job, up, raced,
                   edited>>

\* Mutant of RecordPaneExit: a dispatch not bound yet is not failed.
RecordPaneExitIfBound(d) ==
    /\ d \in exits
    /\ exits' = exits \ {d}
    /\ IF ~(res[d].pane \/ agent[d] = "attached")
       THEN UNCHANGED <<rows, res, stop>>
       ELSE /\ res' = [res EXCEPT ![d].pane = FALSE, ![d].state = "cleaned",
                                  ![d].reason = IF @ = "none"
                                                THEN "process_exit" ELSE @]
            /\ IF /\ disp[d] \in C!BoundDispatch
                  /\ res[d].reason \notin Intentional
               THEN C!PaneExit(d) /\ BumpRunRevision
               ELSE /\ UNCHANGED stop
                    /\ IF agent[d] = "attached" THEN C!ReleasePane(d)
                       ELSE UNCHANGED rows
    /\ UNCHANGED <<op, workers, entries, launch, job, up, raced, edited>>

(***************************************************************************)
(* record_pane_exit: the pane's identity is cleared, and an exit that no   *)
(* cleanup has announced fails an active dispatch.                         *)
(***************************************************************************)
RecordPaneExit(d) ==
    /\ d \in exits
    /\ exits' = exits \ {d}
    /\ IF ~(res[d].pane \/ agent[d] = "attached")
       THEN UNCHANGED <<rows, res, stop>>
       ELSE /\ res' = [res EXCEPT ![d].pane = FALSE, ![d].state = "cleaned",
                                  ![d].reason = IF @ = "none"
                                                THEN "process_exit" ELSE @]
            /\ IF /\ disp[d] \in C!ActiveDispatch
                  /\ res[d].reason \notin Intentional
               THEN C!PaneExit(d) /\ BumpRunRevision
               ELSE /\ UNCHANGED stop
                    /\ IF agent[d] = "attached" THEN C!ReleasePane(d)
                       ELSE UNCHANGED rows
    /\ UNCHANGED <<op, workers, entries, launch, job, up, raced, edited>>

(***************************************************************************)
(* task.update of a text: both revisions move on.  That the call may also  *)
(* change the status of the task is left to Coordinator.                   *)
(***************************************************************************)
UpdateTask(t) ==
    /\ up
    /\ launch' = [launch EXCEPT !.fresh = @ \ {t}]
    /\ BumpRunRevision
    /\ edited' = IF launch.step = "idle" THEN edited ELSE edited \cup {t}
    /\ UNCHANGED <<rows, op, res, workers, entries, exits, job, up, raced>>

\* The daemon dies.  Its jobs take the workers with them that are in one.
Crash(survive) ==
    /\ up
    /\ "crash" \in Faults
    /\ survive # {} => "survive" \in Faults
    /\ workers' = [d \in Dispatches |->
                     IF d \in survive /\ workers[d] # {}
                     THEN {"orphan"} ELSE {}]
    /\ up' = FALSE
    /\ entries' = {} /\ exits' = {}
    /\ launch' = IdleLaunch /\ stop' = IdleStop
    /\ job' = [w \in {"launch", "stop"} |-> NoJob]
    /\ UNCHANGED <<rows, op, res, raced, edited>>

(***************************************************************************)
(* reconcile_orchestration_startup, before the daemon serves requests:     *)
(* active_cleanup_targets are cleaned up, and of those with a recorded     *)
(* pane the workers of stopped are proven stopped.  Only if no target is   *)
(* left in doubt does reconcile_daemon_restart run and the daemon start.   *)
(***************************************************************************)
Startup(stopped) ==
    LET targets == {d \in Dispatches :
                      \/ disp[d] \in C!ActiveDispatch
                      \/ res[d].state \in {"live", "cleanup_failed"}}
        panes   == {d \in targets : res[d].pane}
        retained == Intentional \ {"daemon_restart"}
    IN  /\ ~up
        /\ stopped \subseteq panes
        /\ \A d \in panes : workers[d] = {} => d \in stopped
        /\ workers' = [d \in Dispatches |->
                         IF d \in stopped THEN {} ELSE workers[d]]
        /\ res' = [d \in Dispatches |->
                     IF ~(d \in targets /\ res[d].row) THEN res[d]
                     ELSE [res[d] EXCEPT
                             !.pane   = d \in panes \ stopped,
                             !.state  = IF d \in stopped THEN "cleaned"
                                        ELSE IF d \in panes
                                        THEN "cleanup_failed" ELSE @,
                             !.reason = IF @ \in retained THEN @
                                        ELSE "daemon_restart"]]
        /\ up' = \A d \in targets : Stopped(res'[d])
        /\ IF up' THEN C!DaemonRestart({})
           ELSE /\ agent' = [d \in Dispatches |->
                               IF d \in stopped /\ agent[d] = "attached"
                               THEN "detached" ELSE agent[d]]
                /\ UNCHANGED <<run, task, deps, disp, claimed, launchFailed,
                               worktree, gate, applying, overridden>>
        /\ UNCHANGED <<op, entries, exits, launch, stop, job, raced,
                       edited>>

\* A step of the launching thread.
LaunchStep ==
    \/ NextDispatch
    \/ \E d \in Dispatches :
          \/ \E inWorktree \in Worktrees : ReserveResources(d, inWorktree)
          \/ RecordPane(d, "record", "spawn")
          \/ SpawnWorker(d)
          \/ InsertPane(d)
          \/ IdentifyWorker(d)
          \/ RecordPane(d, "capture", "check")
          \/ CheckPane(d)
          \/ BindWorker(d)
          \/ LaunchFailed(d)

\* A step of a cleanup.
CleanupStep(w) ==
    MarkCleanup(w) \/ ClosePane(w) \/ KillWorkers(w) \/ RecordCleanup(w)

Next ==
    \/ PrepareLaunch
    \/ LaunchStep
    \/ \E d \in Dispatches : LaunchError(d)
    \/ \E persisted \in BOOLEAN : CompleteLaunch(persisted)
    \/ \E w \in {"launch", "stop"} : CleanupStep(w)
    \/ \E kind \in Verdicts : RequestVerdict(kind)
    \/ \E d \in Dispatches : RequestCleanup(d)
    \/ NextTarget
    \/ TargetDone
    \/ \E persisted \in BOOLEAN : FinishStop(persisted)
    \/ \E d \in Dispatches : WorkerExits(d)
    \/ \E d \in Dispatches : MarkExited(d)
    \/ \E d \in Dispatches : RecordPaneExit(d)
    \/ \E t \in Edits : UpdateTask(t)
    \/ \E survive \in SUBSET Dispatches : Crash(survive)
    \/ \E stopped \in SUBSET Dispatches : Startup(stopped)

\* The reader thread of a pane is an operating system thread that waits only
\* for the process to end and then for locks held briefly.
Fairness ==
    \A d \in Dispatches : WF_vars(MarkExited(d)) /\ WF_vars(RecordPaneExit(d))

Spec == Init /\ [][Next]_vars /\ Fairness

-----------------------------------------------------------------------------
(* Properties *)

(***************************************************************************)
(* A dispatch never has two workers: neither a launch that is continued    *)
(* after a failure nor one continued after the daemon died starts a second *)
(* process beside a first one that nobody has stopped.  The launch refuses *)
(* while a cleanup has failed ("prior dispatch resources require           *)
(* successful cleanup before relaunch"), and a start of the daemon stops   *)
(* what it finds on record.  Races of threads over one row are left out;   *)
(* for what they can do see CancelLeavesNoWorker.                          *)
(***************************************************************************)
OneWorkerPerDispatch ==
    ~raced => \A d \in Dispatches : Cardinality(workers[d]) <= 1

(***************************************************************************)
(* When the daemon begins to serve requests, no worker of an earlier       *)
(* daemon runs: reconcile_orchestration_startup reaches every one of them, *)
(* whichever step the launch or a cleanup had reached when the daemon      *)
(* died.  That is what recording the pane before spawning it is for.       *)
(***************************************************************************)
StartupStopsWorkers ==
    [][~up /\ up' /\ ~raced => \A d \in Dispatches : workers'[d] = {}]_vars

(***************************************************************************)
(* complete_dispatch_launch leaves no claimed dispatch pending, which      *)
(* would keep its slot of max_concurrent for ever: the operation is final  *)
(* and no other one may launch it.  The exception is a task that a client  *)
(* updates during the launch: bind_dispatch and record_launch_failure then *)
(* both refuse the revision that the thread has read.                      *)
(***************************************************************************)
FinishedLaunchLeavesNoPending ==
    op = "final" =>
        \A d \in Dispatches : disp[d] = "pending" => d.task \in edited

(***************************************************************************)
(* Once run.cancel or run.reject has answered and no launch runs, the      *)
(* cancelled run has no worker: require_workers_stopped refuses with "One  *)
(* or more orchestration workers could not be proven stopped."  The        *)
(* cleanup goes through the dispatches one by one, though, and a launch    *)
(* that runs meanwhile may spawn a worker behind it, and bind it: the bind *)
(* leaves the revision of the run alone, so the verdict is still accepted. *)
(***************************************************************************)
CancelLeavesNoWorker ==
    run = "cancelled" /\ launch.step = "idle" /\ stop.step = "idle" =>
        \A d \in Dispatches : workers[d] = {}

(***************************************************************************)
(* The same, when no launch met the RPC: with several dispatches, workers  *)
(* that end by themselves, kills that fail, panes in the session of the    *)
(* run or of a worktree, and restarts of the daemon at any point, the      *)
(* verdict is committed only after every worker is gone.                   *)
(***************************************************************************)
CancelledRunHasNoWorker ==
    ~raced => CancelLeavesNoWorker

(***************************************************************************)
(* A cleanup that has failed can be retried: dispatch.cleanup refuses only *)
(* what is not "in a retryable cleanup-failure state", and the pane on     *)
(* record is what it (and a start of the daemon) tries to stop again.  But *)
(* the reader thread may record the exit of the pane, which clears it,     *)
(* between the kill that gave up and the record of its failure.  The row   *)
(* then stays in cleanup_failed: every later cleanup finds no pane, does   *)
(* nothing and reports it as not stopped, run.cancel keeps failing, and    *)
(* the daemon does not start again.                                        *)
(***************************************************************************)
CleanupCanBeRetried ==
    \A d \in Dispatches : res[d].state = "cleanup_failed" => res[d].pane

\* The worker of a bound dispatch is gone, and no cleanup is the reason.
Lost(d) == /\ up
           /\ disp[d] \in C!BoundDispatch
           /\ workers[d] = {}
           /\ res[d].reason \notin Intentional
           /\ ~raced

(***************************************************************************)
(* A dispatch whose worker ends, at whatever step of its launch, does not  *)
(* stay dispatched for ever: the launch sees that the pane has gone before *)
(* it binds it, or record_pane_exit fails the dispatch afterwards.         *)
(***************************************************************************)
LostWorkerIsNoticed ==
    \A d \in Dispatches : Lost(d) ~> ~Lost(d)
=============================================================================
