--------------------------- MODULE AutomationRun ---------------------------
(***************************************************************************)
(* An automation and its runs: the service and its store                   *)
(* (src-tauri/src/daemon/automation.rs, automation/store.rs), the          *)
(* scheduler (bootstrap.rs) and the terminal an agent runs in              *)
(* (dispatch.rs, run_automation_in_visible_terminal).                      *)
(*                                                                         *)
(* The scheduler, the users and the thread that executes a run share the   *)
(* rows of a database.  Every operation on them is one transaction, under  *)
(* the lock of the connection, and is one action here; the executor reads  *)
(* its row again in each of its transactions, and its own memory changes   *)
(* only between them.                                                      *)
(*                                                                         *)
(* One automation is enough: a transaction touches the rows of one only.   *)
(* A run of the daemon has no process in the process registry: only drafts *)
(* and tests put one there, so that cancelling a run finds none, and no    *)
(* row carries the identity of a process.                                  *)
(***************************************************************************)
EXTENDS Integers, FiniteSets

CONSTANTS
    Schedules,   \* sets of the times at which an automation is to run
    ExitStatus,  \* what the runner makes of the exit of an agent
    MaxTime,     \* bound: the clock
    MaxRuns,     \* bound: runs made
    Grace,       \* missed_run_grace_minutes
    Retain,      \* RETAIN_FINAL_RUNS
    MaxUpdates,  \* bound: updates of the automation
    MaxCrashes,  \* bound: restarts of the daemon
    MaxFaults    \* bound: threads that end with an error of the store

Times == 1 .. MaxTime

ASSUME ScheduleAssumption ==
    Schedules \subseteq SUBSET Times /\ Schedules # {}

ASSUME BoundsAssumption ==
    /\ {MaxTime, MaxRuns, Grace, MaxUpdates, MaxCrashes, MaxFaults} \subseteq Nat
    /\ Retain \in Nat \ {0}

ASSUME ExitAssumption ==
    ExitStatus \subseteq {"completed", "skipped_unavailable",
                        "skipped_needs_interactive_auth", "dispatch_failed"}

RunIds == 1 .. MaxRuns   \* run_number: they are made in this order
Never == 0               \* no next_run_at

Active == {"pending", "dispatching", "dispatched"}

RunnerStatus == ExitStatus \cup {"dispatch_failed", "cancelled"}

Final == RunnerStatus \cup {"skipped_precheck", "skipped_missed"}

\* The disposition of the worktree of a run: "settled" is retained, as a
\* worktree that is there already always is, or cleanup_failed.
Dispositions == {"none", "live", "settled"}

VARIABLES
    auto,      \* the row of the automation
    rows,      \* automation_runs, by number; "absent" before it is made, "gone" after
    exec,      \* what the thread of a run does next, "none" without one
    outcome,   \* what the runner has told it
    agent,     \* the agent in the terminal of a run
    clock,
    up,        \* the daemon runs
    budget,    \* what is left of the bounds on updates, crashes and faults
    claimed,   \* history: how often an occurrence was claimed
    early,     \* history: runs cancelled before their checks were saved
    lost,      \* history: active runs that no thread executes, and why not
    cutShort   \* history: cancelled runs whose thread a crash ended

execVars == <<exec, outcome, agent>>
historyVars == <<claimed, early, lost, cutShort>>
vars == <<auto, rows, exec, outcome, agent, clock, up, budget, historyVars>>

Row(status) == [status |-> status, tree |-> "none"]

Statuses == Active \cup Final \cup {"absent", "gone"}

Rows == [RunIds -> [status : Statuses, tree : Dispositions]]

\* Mutant of NextAfter: a time that has come is still to come.
NextAfterOrNow(schedule, time) ==
    LET later == {t \in schedule : t >= time}
    IN  IF later = {} THEN Never
        ELSE CHOOSE t \in later : \A s \in later : t <= s

\* schedule::next_after
NextAfter(schedule, time) ==
    LET later == {t \in schedule : t > time}
    IN  IF later = {} THEN Never
        ELSE CHOOSE t \in later : \A s \in later : t <= s

Init ==
    /\ \E s \in Schedules :
         auto = [exists |-> TRUE, enabled |-> TRUE, review |-> FALSE,
                 schedule |-> s, next |-> NextAfter(s, 0)]
    /\ rows = [r \in RunIds |-> Row("absent")]
    /\ exec = [r \in RunIds |-> "none"]
    /\ outcome = [r \in RunIds |-> "none"]
    /\ agent = [r \in RunIds |-> "none"]
    /\ clock = 0
    /\ up = TRUE
    /\ budget = [updates |-> MaxUpdates, crashes |-> MaxCrashes, faults |-> MaxFaults]
    /\ claimed = [t \in Times |-> 0]
    /\ early = {}
    /\ lost = {}
    /\ cutShort = {}

----------------------------------------------------------------------------
(***************************************************************************)
(* The store.                                                              *)
(***************************************************************************)
Status(r) == rows[r].status
Recorded(r) == Status(r) \notin {"absent", "gone"}
\* Mutant of ActiveRuns: a run counts as active until it is dispatched.
PendingRuns == {r \in RunIds : Status(r) = "pending"}

ActiveRuns == {r \in RunIds : Status(r) \in Active}

\* prune_final_runs: the newest final runs stay.
Pruned(table) ==
    LET final == {r \in RunIds : table[r].status \in Final}
        old == {r \in final : Cardinality({s \in final : s > r}) >= Retain}
    IN  [r \in RunIds |-> IF r \in old THEN Row("gone") ELSE table[r]]

\* An executor saves its run; a run that has ended makes room.
Saved(r, status, tree) ==
    LET table == [rows EXCEPT ![r].status = status, ![r].tree = tree]
    IN  IF status \in Final THEN Pruned(table) ELSE table

NewRun == CHOOSE r \in RunIds : Status(r) = "absent" /\ \A s \in RunIds : s < r => Status(s) # "absent"
RoomForRun == \E r \in RunIds : Status(r) = "absent"

----------------------------------------------------------------------------
(***************************************************************************)
(* Users.                                                                  *)
(***************************************************************************)
\* Mutant of UserUpdates: switching an automation off keeps its next time.
UserUpdatesKeepsNext(enabled, review, schedule) ==
    /\ up /\ auto.exists
    /\ budget.updates > 0
    /\ ~ (review /\ enabled)
    /\ auto' = [auto EXCEPT
          !.enabled = enabled, !.review = review, !.schedule = schedule,
          !.next = IF ~ auto.enabled \/ schedule # auto.schedule \/ auto.next = Never
                   THEN NextAfter(schedule, clock)
                   ELSE auto.next]
    /\ budget' = [budget EXCEPT !.updates = @ - 1]
    /\ UNCHANGED <<rows, execVars, clock, up, historyVars>>

\* update: a schedule that has changed, or was off, starts again from now.
UserUpdates(enabled, review, schedule) ==
    /\ up /\ auto.exists
    /\ budget.updates > 0
    /\ ~ (review /\ enabled)
    /\ auto' = [auto EXCEPT
          !.enabled = enabled, !.review = review, !.schedule = schedule,
          !.next = IF ~ enabled THEN Never
                   ELSE IF ~ auto.enabled \/ schedule # auto.schedule \/ auto.next = Never
                        THEN NextAfter(schedule, clock)
                   ELSE auto.next]
    /\ budget' = [budget EXCEPT !.updates = @ - 1]
    /\ UNCHANGED <<rows, execVars, clock, up, historyVars>>

\* delete: the runs of the automation go with it, whatever they are doing.
UserDeletes ==
    /\ up /\ auto.exists
    /\ auto' = [auto EXCEPT !.exists = FALSE, !.enabled = FALSE, !.next = Never]
    /\ rows' = [r \in RunIds |-> IF Recorded(r) THEN Row("gone") ELSE rows[r]]
    /\ UNCHANGED <<execVars, clock, up, budget, historyVars>>

\* trigger, by the thread that goes on to execute the run.
UserTriggers ==
    /\ up /\ auto.exists
    /\ ~ auto.review
    /\ ActiveRuns = {}
    /\ RoomForRun
    /\ rows' = [rows EXCEPT ![NewRun] = Row("pending")]
    /\ exec' = [exec EXCEPT ![NewRun] = "start"]
    /\ UNCHANGED <<auto, outcome, agent, clock, up, budget, historyVars>>

\* cancel: only the row tells the executor of it.
UserCancels(r) ==
    /\ up
    /\ Status(r) \in Active
    /\ rows' = Pruned([rows EXCEPT ![r].status = "cancelled"])
    /\ early' = IF exec[r] \in {"start", "prepare", "check"} THEN early \cup {r} ELSE early
    /\ UNCHANGED <<auto, execVars, clock, up, budget, claimed, lost, cutShort>>

----------------------------------------------------------------------------
(***************************************************************************)
(* The scheduler: run_automation_scheduler_tick and claim_due.  The thread *)
(* that is to execute the run may fail to start.                           *)
(***************************************************************************)
Due == up /\ auto.enabled /\ ~ auto.review /\ auto.next # Never /\ auto.next <= clock

Missed == clock - auto.next > Grace

\* Mutant of SchedulerClaims: it passes over an occurrence that it has missed.
SchedulerClaimsInTime(started) ==
    /\ Due
    /\ ~ Missed
    /\ ActiveRuns = {}
    /\ RoomForRun
    /\ started \/ budget.faults > 0
    /\ rows' = Pruned([rows EXCEPT ![NewRun] = Row("pending")])
    /\ auto' = [auto EXCEPT !.next = NextAfter(auto.schedule, clock)]
    /\ exec' = IF ~ started THEN exec ELSE [exec EXCEPT ![NewRun] = "start"]
    /\ budget' = IF started THEN budget ELSE [budget EXCEPT !.faults = @ - 1]
    /\ lost' = IF started THEN lost ELSE lost \cup {NewRun}
    /\ claimed' = [claimed EXCEPT ![auto.next] = @ + 1]
    /\ UNCHANGED <<outcome, agent, clock, up, early, cutShort>>

SchedulerClaims(started) ==
    /\ Due
    /\ ActiveRuns = {}
    /\ RoomForRun
    /\ started \/ (~ Missed /\ budget.faults > 0)
    /\ LET row == Row(IF Missed THEN "skipped_missed" ELSE "pending")
       IN  rows' = Pruned([rows EXCEPT ![NewRun] = row])
    /\ auto' = [auto EXCEPT !.next = NextAfter(auto.schedule, clock)]
    /\ exec' = IF Missed \/ ~ started THEN exec ELSE [exec EXCEPT ![NewRun] = "start"]
    /\ budget' = IF started THEN budget ELSE [budget EXCEPT !.faults = @ - 1]
    /\ lost' = IF started THEN lost ELSE lost \cup {NewRun}
    /\ claimed' = [claimed EXCEPT ![auto.next] = @ + 1]
    /\ UNCHANGED <<outcome, agent, clock, up, early, cutShort>>

Tick ==
    /\ clock < MaxTime
    /\ clock' = clock + 1
    /\ UNCHANGED <<auto, rows, execVars, up, budget, historyVars>>

----------------------------------------------------------------------------
(***************************************************************************)
(* The executor: execute_with_worktree_and_runner.  A step is a            *)
(* transaction and what its thread does up to it.  A row that has gone     *)
(* ends the thread with an error.                                          *)
(***************************************************************************)
At(r, step) == up /\ exec[r] = step

Goto(r, step) == exec' = [exec EXCEPT ![r] = step]

\* The thread is done, or gives up.
Stop(r) ==
    /\ exec' = [exec EXCEPT ![r] = "none"]
    /\ outcome' = [outcome EXCEPT ![r] = "none"]

executorKeeps == <<auto, clock, up, budget, claimed, early, cutShort>>

\* The automation, or the run, is not in the store any more.
RowGone(r) ==
    /\ \/ At(r, "start") /\ ~ auto.exists
       \/ exec[r] \notin {"none", "launch", "watch"} /\ up /\ ~ Recorded(r)
    /\ Stop(r)
    /\ UNCHANGED <<rows, agent, executorKeeps, lost>>

\* The automation is under review by now: the run stays as it is.
ReviewStops(r) ==
    /\ At(r, "start") /\ auto.exists /\ auto.review
    /\ Stop(r)
    /\ lost' = IF Status(r) \in Active THEN lost \cup {r} ELSE lost
    /\ UNCHANGED <<rows, agent, executorKeeps>>

Dispatch(r) ==
    /\ At(r, "start") /\ auto.exists /\ ~ auto.review
    /\ \/ Status(r) = "cancelled" /\ Stop(r) /\ UNCHANGED rows
       \/ /\ Status(r) = "pending"
          /\ rows' = [rows EXCEPT ![r].status = "dispatching"]
          /\ Goto(r, "prepare")
          /\ UNCHANGED outcome
    /\ UNCHANGED <<agent, executorKeeps, lost>>

\* finish_prepare_failure
PrepareFails(r) ==
    /\ At(r, "prepare")
    /\ Status(r) \in {"dispatching", "cancelled"}
    /\ rows' = Saved(r, IF Status(r) = "cancelled" THEN "cancelled" ELSE "skipped_precheck",
                     rows[r].tree)
    /\ Stop(r)
    /\ UNCHANGED <<agent, executorKeeps, lost>>

\* prepare_with_worktree, an existing workspace or a worktree of the run's
\* own, and persist_prepared_worktree.
SaveWorktree(r, tree) ==
    /\ At(r, "prepare")
    /\ Recorded(r)
    /\ \/ Status(r) = "cancelled" /\ Goto(r, "finishCancelled") /\ UNCHANGED rows
       \/ /\ Status(r) = "dispatching"
          /\ rows' = [rows EXCEPT ![r].tree = tree]
          /\ Goto(r, "check")
    /\ UNCHANGED <<outcome, agent, executorKeeps, lost>>

\* Mutant of SaveTerminal: a run that was cancelled since ends as the runner did.
SaveTerminalAnyway(r, expected, status) ==
    /\ Status(r) \in {expected, "cancelled"}
    /\ rows' = Saved(r, status, "settled")

\* cleanup_if_safe (the worktree stays, or Git does not know it) and
\* persist_terminal_outcome.
SaveTerminal(r, expected, status) ==
    /\ Status(r) \in {expected, "cancelled"}
    /\ rows' = Saved(r, IF Status(r) = "cancelled" THEN "cancelled" ELSE status, "settled")

ChecksFail(r) ==
    /\ At(r, "check")
    /\ SaveTerminal(r, "dispatching", "skipped_precheck")
    /\ Stop(r)
    /\ UNCHANGED <<agent, executorKeeps, lost>>

\* Mutant of SaveChecks: nobody looks at the row between checks and launch.
SaveChecksLaunches(r) ==
    /\ At(r, "check")
    /\ Recorded(r)
    /\ Goto(r, "launch")
    /\ UNCHANGED <<rows, outcome, agent, executorKeeps, lost>>

\* persist_precheck_result
SaveChecks(r) ==
    /\ At(r, "check")
    /\ Recorded(r)
    /\ Goto(r, IF Status(r) = "cancelled" THEN "finishCancelled" ELSE "launch")
    /\ UNCHANGED <<rows, outcome, agent, executorKeeps, lost>>

----------------------------------------------------------------------------
(***************************************************************************)
(* The terminal.  "exited": the script has written the exit code of the    *)
(* agent to a file.  A pane that is closed leaves no file.  "left": the    *)
(* agent could not be stopped, and nobody watches it any more.             *)
(***************************************************************************)
\* terminate_pane: that it fails is only warned about.
Terminate(r) ==
    \E left \in {"none"} \cup (IF agent[r] = "running" THEN {"left"} ELSE {}) :
        agent' = [agent EXCEPT ![r] = left]

LaunchFails(r) ==
    /\ At(r, "launch")
    /\ \E s \in {"skipped_unavailable", "dispatch_failed"} \cap RunnerStatus :
         outcome' = [outcome EXCEPT ![r] = s]
    /\ Goto(r, "saveOutcome")
    /\ UNCHANGED <<rows, agent, executorKeeps, lost>>

Launch(r) ==
    /\ At(r, "launch")
    /\ agent' = [agent EXCEPT ![r] = "running"]
    /\ Goto(r, "watch")
    /\ UNCHANGED <<rows, outcome, executorKeeps, lost>>

AgentEnds(r, how) ==
    /\ up
    /\ agent[r] = "running"
    /\ agent' = [agent EXCEPT ![r] = how]
    /\ UNCHANGED <<rows, exec, outcome, executorKeeps, lost>>

\* The loop on the result file: first the file, then the row, then the time.
SeeExit(r) ==
    /\ At(r, "watch")
    /\ agent[r] = "exited"
    /\ \E s \in ExitStatus : outcome' = [outcome EXCEPT ![r] = s]
    /\ agent' = [agent EXCEPT ![r] = "none"]
    /\ Goto(r, "saveOutcome")
    /\ UNCHANGED <<rows, executorKeeps, lost>>

\* run_is_cancelled is false of a row that has gone.
SeeCancelled(r) ==
    /\ At(r, "watch")
    /\ agent[r] # "exited"
    /\ Status(r) = "cancelled"
    /\ outcome' = [outcome EXCEPT ![r] = "cancelled"]
    /\ Terminate(r)
    /\ Goto(r, "saveOutcome")
    /\ UNCHANGED <<rows, executorKeeps, lost>>

\* Mutant of TimeOut: the time is measured while there is a pane.
TimeOutOfPane(r) ==
    /\ At(r, "watch")
    /\ agent[r] = "running"
    /\ Status(r) # "cancelled"
    /\ outcome' = [outcome EXCEPT ![r] = "dispatch_failed"]
    /\ Terminate(r)
    /\ Goto(r, "saveOutcome")
    /\ UNCHANGED <<rows, executorKeeps, lost>>

TimeOut(r) ==
    /\ At(r, "watch")
    /\ agent[r] # "exited"
    /\ Status(r) # "cancelled"
    /\ outcome' = [outcome EXCEPT ![r] = "dispatch_failed"]
    /\ Terminate(r)
    /\ Goto(r, "saveOutcome")
    /\ UNCHANGED <<rows, executorKeeps, lost>>

----------------------------------------------------------------------------
\* persist_dispatched_outcome
SaveOutcome(r) ==
    /\ At(r, "saveOutcome")
    /\ Recorded(r)
    /\ \/ Status(r) = "cancelled" /\ Goto(r, "finishCancelled") /\ UNCHANGED rows
       \/ /\ Status(r) = "dispatching"
          /\ rows' = [rows EXCEPT ![r].status = "dispatched"]
          /\ Goto(r, "end")
    /\ UNCHANGED <<outcome, agent, executorKeeps, lost>>

\* A run cancelled since then is cleaned up once more, as a cancelled one.
SaveEnd(r) ==
    /\ At(r, "end")
    /\ SaveTerminal(r, "dispatched", outcome[r])
    /\ IF Status(r) = "cancelled" /\ outcome[r] # "cancelled"
       THEN Goto(r, "finishCancelled") /\ UNCHANGED outcome
       ELSE Stop(r)
    /\ UNCHANGED <<agent, executorKeeps, lost>>

FinishCancelled(r) ==
    /\ At(r, "finishCancelled")
    /\ SaveTerminal(r, "cancelled", "cancelled")
    /\ Stop(r)
    /\ UNCHANGED <<agent, executorKeeps, lost>>

\* A transaction fails (the database is busy or full), and the thread with it.
StoreFails(r) ==
    /\ up /\ exec[r] \notin {"none", "launch", "watch"}
    /\ budget.faults > 0
    /\ budget' = [budget EXCEPT !.faults = @ - 1]
    /\ Stop(r)
    /\ lost' = lost \cup {r}
    /\ UNCHANGED <<auto, rows, agent, clock, up, claimed, early, cutShort>>

----------------------------------------------------------------------------
(***************************************************************************)
(* The daemon ends, with its threads and terminals, and starts again:      *)
(* reconcile_startup.                                                      *)
(***************************************************************************)
Crash ==
    /\ up
    /\ budget.crashes > 0
    /\ budget' = [budget EXCEPT !.crashes = @ - 1]
    /\ up' = FALSE
    /\ exec' = [r \in RunIds |-> "none"]
    /\ outcome' = [r \in RunIds |-> "none"]
    /\ agent' = [r \in RunIds |-> "none"]
    /\ cutShort' = cutShort \cup {r \in RunIds : exec[r] # "none" /\ Status(r) = "cancelled"}
    /\ UNCHANGED <<auto, rows, clock, claimed, early, lost>>

\* Mutant of Failed: the worktree is forgotten.
FailedKeepsTree(row) == [row EXCEPT !.status = "dispatch_failed"]

Failed(row) ==
    [row EXCEPT !.status = "dispatch_failed", !.tree = IF @ = "live" THEN "settled" ELSE @]

\* Mutant of Restart: a run that was dispatched is left alone.
RestartSkipsDispatched ==
    /\ ~ up
    /\ up' = TRUE
    /\ rows' = [r \in RunIds |->
          IF Status(r) \in {"pending", "dispatching"} THEN Failed(rows[r]) ELSE rows[r]]
    /\ lost' = lost \ ActiveRuns
    /\ UNCHANGED <<auto, execVars, clock, budget, claimed, early, cutShort>>

Restart ==
    /\ ~ up
    /\ up' = TRUE
    /\ rows' = [r \in RunIds |-> IF r \in ActiveRuns THEN Failed(rows[r]) ELSE rows[r]]
    /\ lost' = lost \ ActiveRuns
    /\ UNCHANGED <<auto, execVars, clock, budget, claimed, early, cutShort>>

----------------------------------------------------------------------------
Execute(r) ==
    \/ RowGone(r)
    \/ ReviewStops(r)
    \/ Dispatch(r)
    \/ PrepareFails(r)
    \/ \E tree \in {"live", "settled"} : SaveWorktree(r, tree)
    \/ ChecksFail(r)
    \/ SaveChecks(r)
    \/ LaunchFails(r)
    \/ Launch(r)
    \/ SeeExit(r)
    \/ SeeCancelled(r)
    \/ TimeOut(r)
    \/ SaveOutcome(r)
    \/ SaveEnd(r)
    \/ FinishCancelled(r)

Next ==
    \/ \E enabled, review \in BOOLEAN, s \in Schedules : UserUpdates(enabled, review, s)
    \/ UserDeletes
    \/ UserTriggers
    \/ \E r \in RunIds : UserCancels(r)
    \/ \E started \in BOOLEAN : SchedulerClaims(started)
    \/ Tick
    \/ \E r \in RunIds : Execute(r)
    \/ \E r \in RunIds, how \in {"exited", "closed"} : AgentEnds(r, how)
    \/ \E r \in RunIds : StoreFails(r)
    \/ Crash
    \/ Restart

(***************************************************************************)
(* A thread goes on, its loop ends by the time it is given at the latest,  *)
(* and the scheduler looks every 30 seconds.  Users, agents and the clock  *)
(* may stop, and nobody has to start the daemon again.                     *)
(***************************************************************************)
Fairness ==
    /\ \A r \in RunIds : WF_vars(Execute(r))
    /\ WF_vars(SchedulerClaims(TRUE))

Spec == Init /\ [][Next]_vars /\ Fairness

----------------------------------------------------------------------------
\* The variables hold what their declarations say.
TypeOK ==
    /\ auto \in [exists : BOOLEAN, enabled : BOOLEAN, review : BOOLEAN,
                 schedule : Schedules, next : Times \cup {Never}]
    /\ auto.next # Never => auto.enabled
    /\ ~ (auto.enabled /\ auto.review)
    /\ rows \in Rows
    /\ exec \in [RunIds -> {"none", "start", "prepare", "check", "launch", "watch",
                            "saveOutcome", "end", "finishCancelled"}]
    /\ outcome \in [RunIds -> RunnerStatus \cup {"none"}]
    /\ agent \in [RunIds -> {"none", "running", "exited", "closed", "left"}]
    /\ clock \in 0 .. MaxTime
    /\ up \in BOOLEAN
    /\ budget \in [updates : 0 .. MaxUpdates, crashes : 0 .. MaxCrashes, faults : 0 .. MaxFaults]
    /\ claimed \in [Times -> Nat]
    /\ early \subseteq RunIds /\ lost \subseteq RunIds /\ cutShort \subseteq RunIds

\* No time of a schedule is claimed twice (claim_due), however often the
\* schedule is changed, switched off and on, and the daemon restarted; and a
\* run that has been claimed is not made before its time.
OccurrenceOnce == \A t \in Times : claimed[t] <= 1 /\ (claimed[t] = 1 => t <= clock)

\* Of two agents of an automation at work at once, the older belongs to a run
\* that was cancelled, or deleted, and has not been stopped yet (trigger and
\* claim_due look at the rows, and the agent outlives the active status), or
\* it was left at work when its terminal could not be terminated.
OneAgent ==
    \A r, s \in RunIds :
        r < s /\ agent[r] = "running" /\ agent[s] \in {"running", "left"}
            => Status(r) \in {"cancelled", "gone"}

\* A run that was cancelled before its checks were saved starts no agent
\* (execute_with_worktree_and_runner looks at the row before each stage).
EarlyCancelStartsNothing == \A r \in early : agent[r] = "none"

\* An active run that no thread executes keeps an automation from running
\* again; there is one only when its thread has failed since the last start
\* of the daemon, or was stopped by a review (reconcile_startup ends the rest).
ActiveRunIsExecuted ==
    up => \A r \in ActiveRuns : exec[r] # "none" \/ r \in lost

\* The row of a run that has ended, and whose thread has, does not say that
\* its worktree is in use (persist_terminal_outcome, reconcile_startup), but
\* when the thread of a cancelled run did not come to say so.
WorktreeSettled ==
    up => \A r \in RunIds :
        Status(r) \in Final /\ exec[r] = "none" /\ r \notin lost \cup cutShort
            => rows[r].tree # "live"

\* Nothing changes how a run has ended: neither a cancel, nor the thread that
\* still works for a cancelled run, nor a restart (save_run_if_status).
VerdictStands ==
    [][\A r \in RunIds :
          Status(r) \in Final => Status(r)' \in {Status(r), "gone"}]_vars

\* The thread of a run ends, and the run with it, whatever becomes of the
\* agent and its terminal.
RunEnds ==
    \A r \in RunIds :
        exec[r] # "none" ~> exec[r] = "none" /\ (Status(r) \notin Active \/ r \in lost \/ ~ up)

\* A due time is claimed, unless a run is in the way for good, the store of
\* runs is exhausted (a bound), or the daemon has ended (run_automation_scheduler_tick).
DueIsClaimed ==
    Due ~> ~ Due \/ ~ RoomForRun \/ ActiveRuns \cap lost # {}
=============================================================================
