# VibeLink: models of the daemon and what shares its state

VibeLink is a terminal workspace for coding agents. A desktop application
(Tauri) and remote clients talk to a **daemon**, one process per user, which
owns the terminals (panes) and outlives the windows. On top of the terminals the
daemon runs **orchestrations**: runs of dependent tasks, every attempt at a task
being a *dispatch* to an agent that works in a pane of its own, often in a git
worktree of its own, with *gates* where a person decides.

Beside that it runs automations on a schedule, lends panes to phones, and keeps
git worktrees for all of them.

This directory holds TLA+ models of the parts of that system in which order and
concurrency matter most, the TLC configurations that check them on small
instances, and proofs of the theorems that hold for every instance. Paths below
are relative to `src/src-tauri/src/` in the repository, but those that begin
with `src/src/` (the window).

1. [Inventory](#inventory)
2. [Modules](#modules)
3. [Runs, bounds and what they show](#runs-bounds-and-what-they-show)
4. [Fairness](#fairness)
5. [Disagreements found](#disagreements-found)
6. [Theorems](#theorems)
7. [Not modelled](#not-modelled)
8. [Plan](#plan)

Run a model with `tlc -config X.cfg M`, the proofs with `tlapm M.tla` for
`CoordinatorProofs`, `CoordinatorRunProofs`, `CoordinatorTaskProofs`,
`DispatchLaunchProofs`, `PaneOutputProofs`, `PaneLeaseProofs`,
`AutomationRunProofs` and `WorktreeLifecycleProofs`.

## Inventory

### Orchestration coordinator: `orchestration/mod.rs`, `orchestration/durable.rs`

`CoordinatorService` keeps the rows of runs, tasks, dispatches, gates, agents,
their resources, operations and events in SQLite. Every operation is one
immediate transaction; most end with a refresh of the status of the run
(`refresh_run_status_tx`).

* State: the status of a run, its tasks and their dependencies, one dispatch per
  attempt, gates, agents, `dispatch_resources`, launch operations and claims.
* Operations: start, add and update tasks, schedule, claim and bind a launch,
  record its failure, heartbeat, liveness, worker-done, pane exit, create and
  resolve gates, merge applied, cleanup authorised and applied, retry, cancel,
  reject, accept, restart.
* Hard: nothing orders the calls. Agents, panes, operators, timers and the
  restart of the daemon all call at any time, also about what has ended. The
  cap, the dependencies and the verdicts rest on every one of them checking what
  it finds.
* Correct when: a run never has more active dispatches than its policy allows; a
  task never starts before its dependencies are completed; attempts at one task
  do not overlap; a verdict stays a verdict; a finished run has no open gate and
  nothing at work; agents end with their dispatches; the circuit breaker trips
  at its threshold; a worktree is only removed after both its approvals.

### Dispatch launch and worker cleanup: `daemon/dispatch.rs`, `daemon/bootstrap.rs`

Threads of the daemon that carry out what the coordinator decides. A client's
requests are served by a thread per connection (`bootstrap.rs:126`).

* State: the panes in the daemon's memory, the processes of workers, the
  progress of each thread, and the rows above.
* Operations: `dispatch.launch` (prepare, reserve resources, record the pane,
  spawn, insert, identify, record again, check, bind, complete), `run.cancel`,
  `run.reject`, `dispatch.cleanup`, `cleanup_dispatch_target` (record the reason,
  close the pane, kill by environment identity, record the outcome),
  `reconcile_orchestration_startup`, the cleanup of an approved worktree.
* Hard: each of these is a sequence of transactions and system calls with
  arbitrary steps of other threads between them: reader threads that report
  exits, kills that give up, a daemon that dies half way and workers that
  survive it.
* Correct when: no dispatch has two workers, a worker that is lost is noticed,
  a verdict leaves no worker behind, a restart stops what an earlier daemon
  left, and a cleanup that failed can be repeated.

### Panes and terminal output: `daemon/panes.rs`, `daemon/session.rs`, `src/src/terminal/TerminalManager.ts`

* State: a pane per terminal with a generation, its output sequence and its
  scrollback, the queues between its reader thread and the terminal, and the
  terminal's own cursor, queue and replay.
* Operations: record and send a frame, subscribe, attach with a snapshot; in the
  window mount, receive, ask for a snapshot, hydrate, drain, park, hide, show, leave
  the workspace and come back, reconnect.
* Hard: frames are dropped when a queue is full (`panes.rs:244`); a snapshot and
  the live frames come by two ways and in either order; terminals are parked and
  moved while that happens; a new daemon counts from 1 again.
* Correct when: the terminal shows every byte once and in order, what was lost is
  noticed, and a terminal that replays comes to rest.

### Sessions and remote pane leases: `daemon/session.rs`, `remote/bridge.rs`, `src/src/remote/paneLease.ts`

* State: at most one remote lease for a pane, with an owner, a deadline, a revision
  and the geometry to restore; what each bridge and the desktop know of it.
* Operations: claim, update, renew, release, expire, reclaim by the desktop,
  disconnect, exit and replacement of the leased pane, resize, write.
* Hard: a transition is made under a lock and told without it, so messages of two
  transitions may cross; expiry races renewal; the pane may be replaced during
  the lease.
* Correct when: the geometry the desktop chose comes back, everyone ends up
  knowing the lease, and no lease outlives its phone or its pane for ever.

### Automation runner and store: `daemon/automation.rs`, `daemon/automation/*.rs`

* State: automations and the rows of their runs in SQLite, a thread per run and
  the terminal its agent works in.
* Operations: claim of what is due, trigger by hand, update, delete, cancel; the
  stages of an execution (dispatch, worktree, checks, launch, watch, save the
  outcome, end), prune, reconcile at start.
* Hard: a cancellation, a deletion or a prune at any stage of an execution only
  changes rows (`automation.rs:737`); a thread or the daemon may die between any
  two stages.
* Correct when: a due time is claimed once, a final status stays, a run that is
  cancelled in time starts no agent, agents of an automation do not overlap, and
  no run stays active with nobody to end it.

### Git worktrees: `app/git/worktree_*.rs`, `worktree_storage.rs`

* State: the checkout and branch in git, the record of the worktree, the rows of
  its operations, the workspace session opened for it.
* Operations: create with its rollback, move with the move back, remove,
  reconcile the records with `git worktree list`, cancel.
* Hard: no lock is held across an operation, which is a sequence of git commands,
  statements and calls of the daemon; any of them can fail, be cancelled or be
  cut off, while other operations on the same record go on.
* Correct when: a failed create leaves nothing it does not name, record and
  checkout do not part, and no session is left without its worktree.

### Daemon spawn and client: `app/spawn_daemon.rs`, `app/daemon_client.rs`

* State: the pid file, the endpoint, the version and the instance of the daemon.
* Operations: connect, probe, spawn, replace an incompatible daemon, wait for the
  old one to end.
* Hard: several clients do that at once, with process files of daemons long gone.
* Correct when: one daemon serves, and no client ends a compatible one that works.

### The rest

| component | what it is |
| --- | --- |
| Provider adapters (`orchestration/adapters.rs`) | stateless translation from provider events to the coordinator's calls |
| Session persistence, connections (`daemon/persistence.rs`, `lifecycle.rs`, `connection.rs`, `auth.rs`) | state file under one lock, authentication, idle timer |
| Control plane database (`control_plane.rs`, `storage.rs`) | one connection behind a mutex (`with_connection_mut`), write-ahead log; makes the transactions above atomic and durable |
| Processes (`daemon/proc.rs`, `agent_runtime/`) | wrappers of operating system calls, jobs that kill on close |
| Wire protocol (`protocol.rs`) | messages and framing, no state |
| Remote server (`remote/`) | pairing of mobile devices and forwarding of their requests; its leases are in `PaneLease` |
| Git integration (`app/git/`) | runs git and parses its output |
| Desktop host (`app/`) | forwards the frontend's commands |
| Browser, computer use (`browser/`, `computer_use/`) | drive WebView and native windows |
| Command line and MCP (`cli/`, `dedicated_cli/`, `mcp/`) | front ends of the same requests |
| Frontend (`src/src/`) | presentation; its terminals are in `PaneOutput`, its view of leases in `PaneLease` |

### How they interact

```
 frontend / CLI / MCP / remote
        |  requests (thread per connection)
        v
 daemon/dispatch.rs --------transactions--------> CoordinatorService --> SQLite
   |  spawn, kill                                     ^
   v                                                  | record_pane_exit
 panes and processes --- reader thread per pane ------+
   |  output, exits
   v
 queues of the clients
```

The coordinator never calls the daemon. The daemon's threads read rows, act on
processes, and write what they have seen; the revision of a run or task that a
thread has read is passed back, and a call with a stale one is refused. Locks:
`ORCHESTRATION_LAUNCH_LOCK` admits one launch at a time, the daemon state and the
database connection have one mutex each; nothing is held across a whole RPC that
stops workers.

## Modules

| module | models | kind |
| --- | --- | --- |
| `Coordinator` | `orchestration/mod.rs`, `orchestration/durable.rs`: one run | one action per transaction |
| `DispatchSlots` | what the coordinator promises about attempts and slots | abstract specification |
| `DispatchLaunch` | `daemon/dispatch.rs`, `daemon/bootstrap.rs`, the life of a worker's pane | threads over the rows of `Coordinator` |
| `CoordinatorProofs` | types, verdicts, the cap and the refinement of `DispatchSlots` | proofs |
| `CoordinatorRunProofs` | runs, gates, agents and the launch circuit breaker | proofs |
| `CoordinatorTaskProofs` | attempts, dependencies, finished runs, removals of worktrees | proofs |
| `DispatchLaunchProofs` | types and the safety properties of `DispatchLaunch` that hold | proofs |
| `PaneOutput` | output from the reader of a pane to the terminal of the window | daemon, queues and window |
| `PaneOutputProofs` | types, and that the output is right and whole | proofs |
| `PaneLease` | the lease of a pane to a phone | daemon, bridges and desktop |
| `PaneLeaseProofs` | types, the geometry comes back, the clients know the lease | proofs |
| `AutomationRun` | an automation, its runs, their threads and terminals | transactions and threads |
| `AutomationRunProofs` | types and the safety properties of `AutomationRun` | proofs |
| `WorktreeLifecycle` | create, move, remove and reconcile of a worktree | threads over git, database and daemon |
| `WorktreeLifecycleProofs` | types, the rollback of a create, the session of a worktree, the place of a moved checkout | proofs |
| `MC...` | instances for TLC | |

### `Coordinator`

| variable | in the code |
| --- | --- |
| `run`, `task`, `disp` | `status` of `orchestration_runs`, `orchestration_tasks`, `dispatches` |
| `deps` | `task_dependencies` |
| `claimed` | dispatches in `dispatch_launch_claims` (a launch owns them) |
| `launchFailed` | dispatches whose failure `record_launch_failure` wrote |
| `agent` | the agent row of a dispatch: attached to a pane, detached, or ended |
| `worktree` | the worktree of the dispatch's resources: none, held, removed |
| `gate` | gates with type, dispatch, status, decision, whether they may expire, and whether an approved merge or cleanup was applied |
| `applying` | gates whose authorised merge or removal is carried out outside a transaction |
| `overridden` | history: tasks whose status an operator set by hand |

An action is a whole transaction. `refresh_run_status_tx` and
`settle_task_dependencies` are operators applied inside the actions that call
them, with the early return for a cancelled run. A gate times out only when
the start of the daemon looks at it, so expiry is a choice of `DaemonRestart`. Removal of a worktree is three actions, because it is not in a
transaction: `AuthorizeCleanup`, `RemoveWorktree`, `MarkCleanupApplied`. An applied
merge is two, `AuthorizeMerge` (`merge_authorization`) and `MarkMergeApplied`, since
the second does not look at the worktree any more. `Abandon` is a failure, or a stale
revision, between them.

Left out: texts, paths, model and provider names; revisions (a call with a stale
one is refused and changes nothing, so here it is a call that does not happen;
`DispatchLaunch` has them where a thread acts on an old one); events; the
deduplication of a repeated operation.

`consecutive_failures` (`mod.rs:540`) counts all launch failures of a task, also
with other failures between them. The model does the same, and
`BreakerTripsOnTime` is stated for what is counted.

### `DispatchLaunch`

Uses `Coordinator` through `C == INSTANCE Coordinator`, with one attempt per task
and no gates, and adds

| variable | in the code |
| --- | --- |
| `op` | the launch's row in `dispatch_launch_operations` |
| `res` | `dispatch_resources`: reserved, worktree, `pane_id`, `cleanup_state`, `cleanup_reason` |
| `workers` | processes with the pane identity of the dispatch in their environment; `hosted` by the pane last spawned or an `orphan` |
| `entries`, `exits` | panes in the daemon state; reader threads between `mark_exited_for_generation` and `record_pane_exit` |
| `launch`, `stop`, `job` | where the launching thread, the thread of the stopping RPC and their calls of `cleanup_dispatch_target` are |
| `up` | the daemon has finished its start |
| `raced`, `edited` | history: a launch met a stopping RPC or an exit still to be reported; tasks edited during a launch |

A step of a thread is one transaction or one critical section. `fresh` in
`launch` and `stop` stands for the revision that the thread has read and says
whether it is still current. `KillWorkers` may give up, `LaunchError` is any error
before the process is known, `CompleteLaunch` and `FinishStop` may find that the
state could not be saved. `InsertPane` may find the spawn cancelled or its session gone, kills
what it spawned, and goes on when that kill fails. The targets of a stopping RPC are
read before anything is stopped: `stop.bound` holds those that had a pane bound then,
to which `MarkCleanup` falls back (`bootstrap.rs:858`). `Crash` loses the memory of the daemon and the workers
in its job; a worker outside the job survives. `Startup` is
`reconcile_orchestration_startup`, one action because nothing else runs then;
it may fail, after which the daemon can be started again.

An operator whose comment begins with "Mutant of" is that definition with a
plausible mistake; the property named for it in `PROJECT.json` fails when the
mutant is put in its place. No specification uses one.

The properties of the runs `launch` and `stop` that mention `raced` are about
launches and stopping RPCs that do not overlap. What happens when they do is the
run `race`: there the property is the same and fails. A similar overlap is that
of a launch and the late report of an exit: panes of one dispatch have one id in
every launch of an operation, so the report clears the row of the newer pane.

### `DispatchSlots`

Every attempt is unused, in use or ended; it occupies one of `Slots` slots while
it is in use and never returns. `Coordinator` implements it under the mapping
`Phase`: absent is unused, an active dispatch is in use, every other status has
ended.

### `PaneLease`

| variable | in the code |
| --- | --- |
| `pane`, `lease` | size of the pane; its entry in `pane_leases`, with `live` for a deadline that has not passed and `same` for a generation that is still the pane's |
| `sending`, `turn` | messages a thread has made in a transition and not yet sent, and the order of the transitions |
| `link`, `proj`, `inbox` | a remote connection, its `RemoteLeaseProjection` and its queue of events |
| `cover` | whether the desktop shows the pane as taken |
| `chosen`, `late`, `crossed` | history: the geometry the desktop last set, whether it did so between a deadline and the sweep, whether a message overtook an older one |

A transition (claim, update, renew, release, detach, sweep, exit, reclaim) is one
critical section of the daemon state; `Send` sends one message of it later
(`broadcast_pane_lease_event`). Two more messages that say the same as an event by a
way of their own are left out ([Not modelled](#not-modelled)). Revisions are tokens, used again when nothing
refers to them any more: the code only compares them. The model shows what the
code lives with: a bridge does not compare revisions of events, so that a delayed
loss makes it drop a lease it has claimed again (`BridgeRecovers` says it does not
stay wrong), the desktop's cover is only right when messages have not crossed, and
a resize between the deadline and the sweep is overwritten (`late`).

### `PaneOutput`

| variable | in the code |
| --- | --- |
| `pane`, `hand`, `attached` | output cursor of the pane, a frame recorded and not yet sent, the window's place in `pane_clients` |
| `queue` | frames between the reader and the terminal: client channel, daemon client, WebSocket |
| `opened`, `visible`, `away`, `lost`, `moves` | what the person and the connection do |
| `att`, `attachReq`, `after` | `daemonAttached` and the attach under way |
| `cursor`, `pending`, `parked`, `stale` | `paneGeneration` and `outputSequence`, `pendingSequencedOutput`, `outputParked`, `outputSnapshotStale` |
| `replay`, `reply`, `valid`, `again` | `replayPromise` with the answer it waits for, `replayRevision`, `replayAgain` |
| `spoiled`, `hurried`, `outlived`, `missed` | history |

An action is what runs without an `await` in the window, or under a lock in the
daemon. A window is attached from the start to a pane that it has spawned
(`session.rs:1215`) and to any other only later, so `Init` allows both. A terminal that
got frames but was never mounted is attached again by a reconnect like a mounted one
(`TerminalManager.ts:717`), and mounting it then asks for nothing (`Unattached`). `Park`
may give up output that was not yet written, which makes the terminal stale. `spoiled` is set by a write that is not the continuation of what the
terminal shows. Two disturbances are excluded from the properties, and named:
`hurried`, when the window leaves and comes back during a replay (the snapshot of
the first attachment can be taken for a live frame of the second), and
`outlived`, when the terminal holds frames of an earlier daemon (the run `restart`
shows what happens then).

### `AutomationRun`

| variable | in the code |
| --- | --- |
| `auto` | the row of the automation: enabled, under review, schedule, `next_run_at` |
| `rows` | `automation_runs` by number, with status and the disposition of the worktree |
| `exec`, `outcome` | the next stage of `execute_with_worktree_and_runner` and what the runner told it |
| `agent` | the terminal: none, running, exited with an exit file, closed without one, left at work because it could not be terminated |
| `clock`, `up`, `budget` | time, the daemon, bounds |
| `claimed`, `early`, `lost`, `cutShort` | history |

Every transaction of the store is one action, with the prune it ends in. The agent
runs in a visible pane, so no run has an entry in the process registry and a
cancellation only changes the row. The model therefore lets two agents be at work
when the older one's run was cancelled or deleted, and the property says so
(`OneAgent`). That `terminate_pane` fails is only warned about (`dispatch.rs:2665`): the
agent is then `left`, at work with no thread that watches it (`Terminate`). A deleted run's agent ends only by itself or by its time limit:
`run_is_cancelled` is false of a row that has gone. That the terminals end with the
daemon is assumed (they are in its job).

### `WorktreeLifecycle`

| variable | in the code |
| --- | --- |
| `checkout`, `branch` | what git has: the place of the worktree, and whether its branch is at the commit it was made from |
| `record` | the row of the worktree: instance, path, head, session, lifecycle |
| `session` | the workspace session exists |
| `row`, `op`, `cancelled` | rows of the operations, what their threads do next and remember, their cancellation flags |
| `recon` | a reconciliation between its scan, its read and its writes |
| `kept` | artifacts, by their kind, that a failed create reports as retained; of a checkout the code names the place where it was made (`worktree_lifecycle.rs:937`), also when a move has taken it elsewhere |
| `unseen`, `unbound`, `astray`, `crashed` | history |

One action is one git command, one statement or one call of the daemon. `Mishap`
lets a step fail because it was cancelled or by itself. The step that ends a session
deletes it first, so that its failure (a pane that is not killed, a state that is not
saved, `dispatch.rs:4566`) leaves the session gone: a rollback then reports it as retained,
a removal gives up. The histories name what
the code cannot know or does to itself, and each is an exception of one property:

* `unseen`: what a killed `git worktree add` made, a session whose creation failed
  after it was made (`dispatch.rs:4319`), a branch that could not be read;
* `unbound`: a reconciliation with an old list has made the record another
  instance, which drops its session;
* `astray`: a git move that was killed, a failed move back, a stale write of a
  reconciliation, a person who moves the checkout.

Two more are in `SessionHasWorktree` itself: a removal that read its record before
the session was bound, and a crash.

## Runs, bounds and what they show

Bounds of `Coordinator` are constants: `MaxTasks`, `MaxAttempts`, `MaxGates`.
Nothing else is unbounded: `CreateTask`, `SchedulePass` (a task that has no attempt
left is not dispatched) and `CreateGateRecord` take the next unused task, attempt
and gate.

| run | instance | properties |
| --- | --- | --- |
| `attempts` | 2 tasks, every dependency graph, 2 attempts, 2 slots | `AttemptsDoNotOverlap`, `FinishedRunIsDone`, `AgentFollowsDispatch`, `DependencyOrder` |
| `slots` | 2 tasks, 2 attempts, 1 slot, threshold 2 | `TypeOK`, `ConcurrencyCap`, `BreakerTripsOnTime`, `ImplementsSlots` |
| `gates` | 1 dispatch with a worktree, 3 gates of any type | `TerminalRunHasNoPendingGate`, `CancelledRunIsQuiet`, `VerdictIsFinal`, `RemovalWasApproved` |
| `launch` | 1 dispatch; edits, crashes, survivors, both verdicts | `TypeOK`, `OneWorkerPerDispatch`, `FinishedLaunchLeavesNoPending`, `LostWorkerIsNoticed` |
| `stop` | 2 dispatches in parallel; crashes, survivors, cancel | `CancelledRunHasNoWorker`, `StartupStopsWorkers` |
| `race` | 1 dispatch, cancel and reject | `CancelLeavesNoWorker`, violated |
| `retry` | 1 dispatch in a worktree | `CleanupCanBeRetried`, violated |
| `lease` | 2 phones, 2 geometries of the desktop and 1 of a phone, 2 revisions, 2 threads with messages | `TypeOK`, `GeometryComesBack`, `ClientsKnowTheLease`, `BridgeRecovers`, `StrayLeaseEnds` |
| `output` | 2 frames for each of 2 lives of the pane, queue of 1, 1 move of the window | `TypeOK`, `EveryByteOnce`, `NothingMissedSilently`, `ComesToRest` |
| `restart` | the same with 2 generations and no move | `ReplayHeals`, violated |
| `runs` | 2 runs, 2 times, one update, crash and failure | `TypeOK`, `OccurrenceOnce`, `OneAgent`, `EarlyCancelStartsNothing`, `ActiveRunIsExecuted`, `WorktreeSettled`, `VerdictStands`, `RunEnds`, `DueIsClaimed` |
| `worktree` | one create, move and remove of one worktree, 2 reconciliations, 1 disturbance | `TypeOK`, `RolledBack`, `SessionHasWorktree`, `MovedTogether` |

Why the bounds are enough to be interesting:

* `attempts`: a second attempt needs a first; two tasks let one task's end settle
  the run while the other is retried, and a task that is retried goes back behind
  its dependents. Two slots let two attempts of one task overlap if the code
  allowed it.
* `slots`: with one slot every pass has more ready tasks than capacity, so the cap
  binds; two attempts and a threshold of two put another failure, a restart or a
  retry before or between the launch failures. Longer sequences are covered by
  the theorem `BreakerTrips`.
* `gates`: a merge approval, a cleanup approval and one more gate of any type that
  is created or decided between the steps of the removal; a gate is only
  compared with its dispatch and run, so that one dispatch is enough.
* `launch`, `stop`: one dispatch meets every step of the launch against every
  fault; two are needed so that one worker stops and the other does not, and so
  that a crash falls between the first and the second.
* `lease`: two phones make a lease change hands while messages of the first owner
  are on their way; two threads between transition and message are what makes
  messages cross. Two revisions suffice since they are used again.
  `MaxPending = 0`: a bridge asks for something only when it has handled its
  events; events that come afterwards still race its requests.
* `output`: with a queue of one the second of two frames is dropped whenever the
  first is still there, and two frames make a gap; one move covers leaving and
  coming back at any point of a replay. One restart changes the pane's life.
* `runs`: two runs are the fewest for an agent that outlives its row, for a prune
  (`Retain` is 1) of a run whose thread goes on, and for a claim after one that
  was missed. With three runs and times TLC does not finish in minutes; the
  theorems hold for all.
* `worktree`: one operation of each kind is every pair of different operations on a
  worktree; the second reconciliation meets what the first has changed. The
  properties also held with two disturbances (about six million states).
  `MovedTogether` is about one move at a time. With three moves of one worktree TLC
  finds it violated: the first is checked, the second moves checkout and record, the
  third moves the checkout on, then the first does, and both fail to save and can
  move back only where they came from. Nothing excludes it:
  `move_claimed` (`worktree_lifecycle.rs:543`) checks once, and `claim_operation` and
  `compare_and_swap_path` (`worktree_registry.rs:1135`, `1271`) know of no other
  operation on the worktree. Two moves, one after the other, and a reconciliation are
  enough for the exception the property makes: `git worktree list` is read before the
  first move, the rows are written while the second has moved the checkout and not yet
  saved it, then saving fails, and the move back brings the checkout where the record
  no longer is. A later reconciliation can only call the record missing.

An operation on a run that is over still gets an answer, so `Coordinator` has no
deadlock and its runs check that. Where everything may be over (`launch`, `stop`,
`race`, `retry`, `runs`, `worktree`, and `restart` at its bounds) the
configurations say `CHECK_DEADLOCK FALSE`.

## Fairness

`Coordinator` has none: its actions are calls of others, and no call has to come.

`DispatchLaunch` has weak fairness of `MarkExited` and `RecordPaneExit` for every
dispatch. Both are steps of the reader thread of a pane (`read_pane_loop`), an
operating system thread that waits for the end of its process and then for
mutexes that are held briefly. Between the two it sends the exit to its clients
on bounded queues with a blocking call; the assumption is that a client reads or
goes away. No fairness is assumed of the launching thread, of clients, of workers
or of the restart of the daemon: `LostWorkerIsNoticed` is about a daemon that is
up, and a crash ends the obligation.

`PaneLease`: threads that have made a transition send its messages (they hold no
lock and the bridges' queues have no bound), the sweep runs on a timer, a bridge
handles its events and its end. A deadline passes if the lease keeps its revision,
because only a renewal moves it. `SF_vars(Renew(c))`: the bridge renews every five
seconds, whatever its phone asks for in between; weak fairness is too little
because other requests of the same bridge disable it for a moment.

`PaneOutput`: reader threads, the daemon's handlers, the window's event loop and
the end of every request (an answer or an error). Nothing is assumed of the
person, of the pane's output or of restarts.

`AutomationRun`: the thread of a run goes on (its loop ends by its time limit at the
latest, so `Execute` is fair as a whole) and the scheduler looks every 30 seconds
(`SchedulerClaims(TRUE)`). The clock, users, agents and the restart of the daemon
may stop for ever.

`WorktreeLifecycle` has none: git commands may take for ever, and its properties
are about what has happened.

## Disagreements found

**A verdict can leave a worker behind** (run `race`, `dispatch.rs:157`).
`run.cancel` and `run.reject` clean up the dispatches one by one and then commit if
the revision of the run has not changed. A `dispatch.launch` that runs meanwhile
can reserve, spawn and bind a worker for a dispatch the cleanup has already
passed, and `bind_dispatch` changes only the task's revision. The run is then
cancelled with a live worker, although `dispatch.rs:686` says that a verdict is
refused when "One or more orchestration workers could not be proven stopped."

**A failed cleanup can become impossible to retry** (run `retry`,
`bootstrap.rs:959`). When a kill gives up and the worker ends right after it, the
reader thread records the exit, which clears `pane_id`, before the cleanup
records `cleanup_failed`. Every later cleanup finds no pane, changes nothing and
reports the row as not stopped; `run.cancel` keeps failing, and the start of the
daemon fails as well (`bootstrap.rs:53`). The state is the one that
`dispatch.cleanup` calls retryable (`dispatch.rs:254`).

**A replay does not heal after a restart** (run `restart`,
`src/src/terminal/TerminalManager.ts:992`). `replayPane` puts a frame that does not
follow the snapshot back into the queue and asks for another replay. When the
daemon has restarted meanwhile the frame can be one of the earlier daemon:
`reattachToDaemon` clears the cursor and not `pendingSequencedOutput`, and the new
pane counts its generation and frames from 1 again (`session.rs:88`). Until the new
pane happens to reach the frame's place, every replay ends with the next one and
`waitForReplay` does not return, although `terminalReplay.test.ts:58` says that a
gap "resubscribes and replaces the pane".

## Theorems

The first three modules are about `Coordinator`, for every value of the constants under the assumptions
`BoundsAssumption` (the bounds are natural numbers), `PolicyAssumption`
(`MaxConcurrent` is positive, which `create_run` enforces), `BreakerAssumption`
(so is the threshold) and `ClientAssumption` (what clients may send are sets of
the right kind).

In `CoordinatorProofs`:

* `TypeCorrect`: `Spec => []TypeOK`. `TypeOK` is inductive. `RefreshedType` says
  that a refreshed run status is a run status; `TypeStep` goes through the
  actions one by one.
* `VerdictFinal`: `Spec => VerdictIsFinal`. Every transaction but a scheduling pass
  changes active dispatches only and deletes none (`NoPassStep`); a pass changes
  absent ones only (`PassStep`: the attempt it inserts is above every attempt
  that exists).
* `CapHolds`: `Spec => []ConcurrencyCap`. The cap is inductive with `TypeOK`. By
  `NoPassStep` the set of active dispatches can only shrink unless a pass is
  made. A pass adds at most one dispatch for each task it has picked
  (`OneNewDispatchPerTask`) and picks no more than the capacity left. `CapStep`
  adds the cardinalities, which needs that the sets are finite (`TasksFinite`,
  `DispatchesFinite`, `ActiveFinite`).
* `SlotsImplemented`: `Spec => ImplementsSlots`. A pass that inserts something maps
  to `Begin`, any other step that ends dispatches to one `End` of all of them, the
  rest to a stutter (`SlotsStep`, from the same two lemmas and the cap).

In `CoordinatorRunProofs`:

* `AgentFollows`: `Spec => []AgentFollowsDispatch`, inductive with `TypeOK`.
* `FinishedRunHasNoGate`: `Spec => []TerminalRunHasNoPendingGate`, inductive with
  `TypeOK`. It rests on `RefreshedWaits` (a refresh makes a run with an open gate
  wait unless it is cancelled) and `RefreshedCancelled` (a refresh neither leaves
  nor enters cancelled, so a cancelled run is covered by the state before).
* `CancelledQuiet`: `Spec => []CancelledRunIsQuiet`. The invariant to prove is
  `NoActiveWhenCancelled`, about dispatches: a run becomes cancelled only by
  `CancelEntities` (`OnlyVerdictsCancel`), a pass refuses a cancelled run, and
  nothing else makes a dispatch active. That the agents are quiet follows from
  `AgentFollows`.
* `BreakerTrips`: `Spec => []BreakerTripsOnTime`. Only `RecordLaunchFailure` writes
  a launch failure or trips the breaker (`OnlyLaunchFailuresBreak`); it adds one
  element to a finite set, whose cardinality it compares.

In `CoordinatorTaskProofs`:

* `AttemptsApart`, `DependenciesRespected`, `FinishedIsDone`: `AttemptsDoNotOverlap`,
  `DependencyOrder`, `FinishedRunIsDone`, which are inductive together (`TaskInv`)
  when the first is put as `OneAttempt`: an active dispatch of a task that was never
  changed by hand is the only one, and its task is dispatched. `TaskChangeStep` says
  how a step may change tasks and dispatches and `RunChangeStep` how it may change
  the run; a pass is apart (`TaskPass`, with `NewAttemptIsOne`: it starts an attempt
  only of a task that has none active).
* `RemovalsApproved`: `RemovalWasApproved`. A removal under way has an applied merge
  and a resolved cleanup behind it, and a gate that was resolved changes only by
  being applied (`RemovalChange`).

Every invariant that the runs of `Coordinator` check is proved.

In `DispatchLaunchProofs`, for any number of tasks, every choice of worktrees, edits,
verdicts and faults (`LaunchAssumption`):

* `TypeCorrect`: `TypeOK`. It is inductive with `Links`, which ties a row of
  `dispatch_resources` to a dispatch that was made. `StepTransaction` says which
  transaction of `Coordinator` a step is, and lends `RefreshedType` to it.
* `LaunchSettles`: `FinishedLaunchLeavesNoPending`. `ClaimInv` adds that a pending
  dispatch is claimed, and that a launch that goes on has each in its list, unless a
  client has taken its task's revision away. Only a pass claims (`OnlyPassClaims`),
  and edits are never forgotten (`EditsGrow`).
* `OneWorker`: `OneWorkerPerDispatch`. `WorkerInv` says that a live worker has its pane
  on record, and what each thread at each of its steps, the pane table and the exit
  reports know of it; a claim that no launch works on has no worker, unless its
  cleanup failed.
* `StartupStops`: `Spec => StartupStopsWorkers`. The daemon gets up only when its list
  of panes on record is done (`OnlyStartupStarts`), and by `WorkerInv` no worker is
  without record.
* `VerdictStops`: `CancelledRunHasNoWorker`. By `VerdictInv` what the thread of a
  verdict has visited stays stopped: only a launch starts workers (`OnlySpawnStarts`),
  only the end of that thread cancels (`OnlyVerdictCancels`), and a cancelled run has
  nothing left to launch.

The last three, like the properties, are about executions in which launch and
cleanup threads do not meet (`raced`); run `race` shows why.

In `PaneOutputProofs`, for queues of any length, any number of frames, restarts and
moves and any generations, the first of which is 1 (`BoundsAssumption`):

* `TypesCorrect`: `TypeOK`, with the bounds of both queues.
* `OutputIsRight`: `EveryByteOnce`; `OutputIsWhole`: `NothingMissedSilently`.

`OutputInv` is inductive. Whatever happens, a terminal that was never mounted knows
nothing, and is attached only by a reconnect that found frames in it (`Unmounted`), which
is one more way to outlive a daemon; a mounted one that is not attached has asked for it
(`Links`). As long as nothing has disturbed the terminal:

* `OneLife`: all cursors it holds, or that are on their way, are of one start of the
  daemon, and none is ahead of the pane. This is what `outlived` is for: generations
  and numbers alone do not tell a daemon from the one before it;
* `InOrder`: the queue is sorted, and behind what waits in the terminal;
* `Attaching`: a terminal that is not attached, or holds frames, will ask for a
  snapshot, and the snapshot it takes is not behind its cursor;
* `SnapshotsCovered`: when the terminal looks at the snapshot that `attach_pane` has
  sent, it is old. This is what `hurried` is for;
* `NewestKnown`: the newest output is with the reader, the last in a queue, shown, or
  a snapshot that has it is on its way or will be asked for.

With `OneLife` and `SnapshotsCovered`, what passes for the next frame is the next one
(`NextIsRight`). The frames that waited are folded by a recursive function
(`Drained`). `DrainedIs` proves that the function exists and satisfies its recursion,
and `DrainedType` and `DrainedRight` argue over a least index at which they would
fail (`LeastElement`), as the induction theorems of the library cannot be used.

In `PaneLeaseProofs`:

* `GeometryRestored`: `GeometryComesBack`, for every number of phones, threads,
  messages, geometries and revisions. Inductive with the types of the lease are
  that a lease was granted over the geometry the desktop chose, and that a pane
  which was replaced under a lease has the desktop's geometry
  (`RestoredGeometry`, `FinishKeeps`, `GrantKeeps`). Revisions and messages do not
  matter to it.
* `TypesCorrect`: `TypeOK`; `LeaseIsKnown`: `ClientsKnowTheLease`, for any number of
  connections, revisions and threads that have messages to send.

`LeaseInv` is inductive. As long as no message has overtaken one of an earlier
transition, the messages still to be sent have an order: the place of the thread in
`turn`, then the place in its list. `Know` says that the last of them that is for a
client (`LastTold`) tells it how the lease is, and that a client none is for knows it
already, by its projection or the last event in its queue (`Arrived`). A transition
puts its news after all others (`NewsReach`, with `EndStep` and `GrantStep` for what
the news are), sending takes the first message away and keeps the order of the rest
(`LastStaysLast`, `FirstLeaves`), and what a bridge does by itself leaves it as right
as it was (`DropStep`: it gives up only a lease that is not its own or whose pane was
closed or replaced). `Gone` says that a connection the daemon has cleaned up after
owns no lease, so that a new one starts out right.

In `AutomationRunProofs`, about `AutomationRun`, for every set of schedules, grace,
retention and number of runs, updates, crashes and failures, under its
`ScheduleAssumption`, `BoundsAssumption` and `ExitAssumption`:

* `TypeCorrect`, `VerdictIsFinal`, `ActiveRunHasThread`, `AgentsDoNotOverlap`,
  `EarlyCancelHolds`, `WorktreeIsSettled`: `TypeOK`, `VerdictStands`,
  `ActiveRunIsExecuted`, `OneAgent`, `EarlyCancelStartsNothing`, `WorktreeSettled`.
* `OccurrenceClaimedOnce`: `OccurrenceOnce`.

The argument: a step writes one row and may prune rows that have ended, the written
one too (`Wrote`, `RowEffects`). What a thread relies on must then survive every
such write by anybody: `ThreadInv` gives the statuses a row can have at each stage
of its thread, always with `cancelled` and `gone`. No property alone is inductive;
`RunInv` adds to it that an outcome is known when it is saved (`OutcomeKnown`), that
runs are numbered in order and only the newest can be active (`NumberInv`; with
`ThreadInv` this is `OneAgent`), that a deleted automation has no rows
(`DeletedInv`; without it a thread could leave an active row behind), the stages a
run cancelled early can be in (`EarlyInv`), and that no worktree is in use before
it is prepared (`TreeInv`). `OccurrenceInv` says of the next time that it was never
claimed: it comes from `NextAfterTypes` (the next time is after the clock) and from
every claimed time being past. That `prune_final_runs` and the choice of the next
number do what they should are `PrunedRows` and `NewRunIsLeast`.

In `WorktreeLifecycleProofs`, for every set of operations with one create, of places,
and any number of reconciliations and disturbances (`KindAssumption`,
`PathsAssumption`, `BoundsAssumption`):

* `TypeCorrect`: `TypeOK`. It is inductive with `Known`: a thread is at a step of its
  kind of operation and knows the instance and the places it needs, and every new
  instance of the record is paid for by a reconciliation (`InstancesBounded`).
* `FailedCreateIsUndone`: `RolledBack`. `CreateKnows` says of every artifact at every
  step of the rollback that it is gone, reported, unseen or still to be undone;
  `OthersApart` that no other operation, reconciliation or person makes one anew.
* `SessionIsTheRecords`: `SessionHasWorktree`. By `SessionKnown` the record has no
  session, and no removal has read one, before the create has bound it, and a removal
  that read it ends it before the record goes (`RemovalEffects`, `OthersBind`).
* `MovesKeepPlace`: `MovedTogether`, as long as no two moves are under way at a time
  (`OneMoveAtATime`, a hypothesis of the theorem and not of the module, for the code
  does not see to it; any number may follow one another). `PlaceKnown` says that the
  record names the place of the checkout, and during a move that the checkout is where
  it was to go and the record where it came from; it is inductive with `NoMoveYet`, that
  nobody moves a worktree before it is registered. `PlaceSteps` sorts the steps into
  those that move nothing, a reconciliation that writes what is the case, and the
  few steps of a create or a move that remain.

Every invariant and action property that a run expects to hold has a theorem,
`MovedTogether` under the hypothesis just named.
Liveness under fairness (`LostWorkerIsNoticed`, `BridgeRecovers`, `StrayLeaseEnds`,
`ComesToRest`, `RunEnds`, `DueIsClaimed`) is out of the prover's reach.

## Not modelled

The repository has more than 100 000 lines of implementation, and most of it has no
order of steps to check: the views of the window, the drivers of WebView and native
windows (`browser/`, `computer_use/`), parsing of what git and providers print,
installation of hooks, command line front ends, layouts, wording. The models keep to
the parts that share state between threads, processes or restarts. `PROJECT.json`
gives the reason for each component without a module. The start and replacement of
the daemon (`spawn_daemon.rs`) does have races, but what decides them are process
tables, ports and files of the operating system, of which the code promises
nothing that a model could take over.

Inside the modelled ones:

* Coordinator: several runs at a time (they share only the database), the event
  log and its acknowledgements, adoption of agents from outside, and
  `reconcile_after_restart` (`durable.rs:428`), which only tests call.
* Launch and cleanup: creation of the worktree and of its session, the prompt
  that is typed into the pane, processes that a worker starts itself, process
  identifiers and start times (identity in the environment decides what a
  cleanup stops), the cleanup of an approved merge by the daemon.
* Panes and output: the bytes themselves (segments of the history, the query
  filter, rate limits), the terminal's own queue of accepted output (`pendingOutput`;
  a replay that keeps the buffer empties it too, `TerminalManager.ts:950`), input, several windows on one pane, and the exit of a pane,
  which is in `DispatchLaunch`.
* Leases: several panes (they share only the counter of revisions), pairing and
  authentication, failures of a resize, the saving of a leased geometry to the state
  file. Two messages repeat an event by a way of their own: `PaneExited` removes the
  bridge's projection before the event of the exit does (`bridge.rs:4147`), and the
  reply to a reclaim clears the desktop's cover (`paneLease.ts:62`). A late one can
  remove what the next lease has set, which is what an event that was overtaken does
  (`crossed`), and `BridgeRecovers` is about the recovery from that. As messages of their
  own they make the instance too large: with the reply alone all five properties of the
  run `lease` held on 540 000 states, with both TLC had not finished after 1.4 million.
* Automations: drafts, previews, artifacts and usage, what checks and agents do,
  several automations (no transaction touches the rows of two).
* Worktrees: imports, lineage, previews, names and paths, sparse checkouts, copied
  files, failures of the database, the registry of cancellation flags and the
  retry of a create by its operation id (`worktree_lifecycle.rs:231` drops the
  flag of a running one), and two removals of one worktree at a time
  (`prepare_removal` accepts a record that is being removed). A crash leaves rows
  that stay `running` and records that stay `removing`, in the model as in the
  code.

## Plan

1. `ApprovedCleanup`: the RPCs `merge.applied` and `gate.resolve` with
   `apply_approved_cleanup` over the rows of `Coordinator` and
   `DispatchLaunch`: the stop of the worker, the removal of the worktree, its
   record and the mark on the gate, with a crash or an error between any two,
   and its retry; then with `WorktreeLifecycle`, whose removal it calls.
2. Two removals of one worktree, and the retry of a create, in
   `WorktreeLifecycle`.
3. An abstract stream for `PaneOutput` (seen once and in order, or known to have a
   gap) as a refinement target.
4. Session persistence: what a restart restores of leased, closed and spawning
   panes.

Theorems to add: that `PaneOutput` implements the abstract stream of 3, from `OutputInv`,
and for 1 and 2 the invariants of their runs.
