------------------------- MODULE WorktreeLifecycle -------------------------
(***************************************************************************)
(* A managed Git worktree: it is created, moved and removed                *)
(* (src-tauri/src/app/git/worktree_lifecycle.rs), its record is kept and   *)
(* compared with what Git says (worktree_registry.rs), and a workspace     *)
(* session is opened for it (daemon/dispatch.rs).                          *)
(*                                                                         *)
(* No lock is held across an operation.  Its thread goes from a command of *)
(* Git to a statement on the database to the sessions of the daemon, and   *)
(* each of these is one action; other operations on the worktree, a        *)
(* reconciliation, users and agents come in between.                       *)
(*                                                                         *)
(* The worktree one operation creates is enough: the others name it by the *)
(* id and the instance of its record.  Git identifies a checkout by its    *)
(* directory under .git/worktrees, which a move keeps.  Statements on the  *)
(* database do not fail here, a flag can be set as long as its operation   *)
(* runs, and nobody imports the checkout a second time.                    *)
(***************************************************************************)
EXTENDS Integers

CONSTANTS
    Ops,        \* operation ids
    Kind,       \* what each of them does: "create", "move" or "remove"
    Paths,      \* places of the managed root
    Home,       \* the place that the create finds free
    MaxScans,   \* bound: reconciliations
    MaxTrouble  \* bound: failures, cancellations, crashes, acts of others

ASSUME KindAssumption ==
    /\ Kind \in [Ops -> {"create", "move", "remove"}]
    /\ \E o \in Ops : {p \in Ops : Kind[p] = "create"} = {o}

ASSUME PathsAssumption == Home \in Paths /\ "nowhere" \notin Paths

ASSUME BoundsAssumption == MaxScans \in Nat /\ MaxTrouble \in Nat

Nowhere == "nowhere"
NoRecord == [inst |-> 0, path |-> Nowhere, head |-> "none", session |-> FALSE, life |-> "none"]

\* What a create makes.
Artifacts == {"path", "branch", "metadata", "session"}

VARIABLES
    checkout,  \* where Git has the worktree
    branch,    \* its branch: at the commit it was made from, or "ahead" of it
    record,    \* the row of the worktree
    session,   \* the workspace session opened for it exists
    row,       \* the rows of the operations
    op,        \* what the thread of an operation does next, and what it knows
    cancelled, \* operations whose thread has its flag set
    recon,     \* the reconciliation under way
    kept,      \* kinds of artifact that the failed create reports to be retained
    scans,     \* reconciliations left
    trouble,   \* what is left of that bound
    unseen,    \* history: artifacts the create made without noting them
    unbound,   \* history: a reconciliation has dropped the session of the record
    astray,    \* history: the checkout left its record by other means than a move
    crashed    \* history: the daemon has crashed

outside == <<checkout, branch, session>>
historyVars == <<unseen, unbound, astray, crashed>>
vars == <<outside, record, row, op, cancelled, recon, kept, scans, trouble, historyVars>>

NoScan == [step |-> "idle", at |-> Nowhere, head |-> "none", rec |-> NoRecord]

Fresh == [step |-> "idle", inst |-> 0, path |-> Nowhere, to |-> Nowhere,
          head |-> "none", session |-> FALSE, missing |-> FALSE]

\* Of a thread that has ended, only whether it knew of the session matters.
Ended(thread) == [Fresh EXCEPT !.step = "done", !.session = thread.session]

Init ==
    /\ checkout = Nowhere /\ branch = "none" /\ record = NoRecord /\ session = FALSE
    /\ row = [o \in Ops |-> "none"]
    /\ op = [o \in Ops |-> Fresh]
    /\ cancelled = {}
    /\ recon = NoScan
    /\ kept = {}
    /\ scans = MaxScans /\ trouble = MaxTrouble
    /\ unseen = {} /\ unbound = FALSE /\ astray = FALSE /\ crashed = FALSE

At(o, kind, step) == Kind[o] = kind /\ op[o].step = step

Go(o, step) == op' = [op EXCEPT ![o].step = step]

\* Something fails: because the thread is told to stop, or by itself.
Mishap(o) ==
    IF o \in cancelled THEN UNCHANGED trouble
    ELSE trouble > 0 /\ trouble' = trouble - 1

\* A move has moved the checkout and not yet saved that, nor moved it back.
BetweenPlaces == \E o \in Ops : op[o].step \in {"save", "back"}

\* What a step of an operation leaves to others.
othersKeep == <<row, cancelled, recon, scans, crashed>>

----------------------------------------------------------------------------
(***************************************************************************)
(* An operation begins: claim_operation.  It settles in its last step,     *)
(* with complete_operation or fail_operation.                              *)
(***************************************************************************)
BeginCreate(o) ==
    /\ At(o, "create", "idle")
    /\ row' = [row EXCEPT ![o] = "running"]
    /\ Go(o, "creating")
    /\ UNCHANGED <<outside, record, cancelled, recon, kept, scans, trouble, historyVars>>

\* The instance is the one its user has seen.  The row is there for a moment
\* before anybody can cancel the operation.
BeginOther(o) ==
    /\ Kind[o] # "create" /\ op[o].step = "idle"
    /\ record # NoRecord
    /\ row' = [row EXCEPT ![o] = "running"]
    /\ op' = [op EXCEPT ![o].step = "validating", ![o].inst = record.inst]
    /\ UNCHANGED <<outside, record, cancelled, recon, kept, scans, trouble, historyVars>>

Settle(o, status) ==
    /\ row' = [row EXCEPT ![o] = status]
    /\ op' = [op EXCEPT ![o] = Ended(@)]

\* request_cancel
Cancel(o) ==
    /\ row[o] = "running" /\ op[o].step # "done"
    /\ trouble > 0
    /\ trouble' = trouble - 1
    /\ cancelled' = cancelled \cup {o}
    /\ UNCHANGED <<outside, record, row, op, recon, kept, scans, historyVars>>

----------------------------------------------------------------------------
(***************************************************************************)
(* create_claimed.  An error at any point undoes what has been noted.      *)
(***************************************************************************)
Undo(o) == Go(o, "undoSession")

CreateGivesUp(o) ==
    /\ \E step \in {"creating", "register", "binding", "launching"} : At(o, "create", step)
    /\ Mishap(o)
    /\ Undo(o)
    /\ UNCHANGED <<outside, record, kept, unseen, unbound, astray, othersKeep>>

\* create_collision_bounded, after the checks and the fetch.
Add(o) ==
    /\ At(o, "create", "creating") /\ o \notin cancelled
    /\ checkout' = Home /\ branch' = "base"
    /\ op' = [op EXCEPT ![o].step = "register", ![o].path = Home]
    /\ UNCHANGED <<session, record, kept, trouble, unseen, unbound, astray, othersKeep>>

\* `git worktree add` is killed half way, or nobody can say what it made.
AddBreaks(o) ==
    /\ At(o, "create", "creating")
    /\ Mishap(o)
    /\ \E made \in {{"branch"}, {"path", "branch"}} :
         /\ branch' = "base"
         /\ checkout' = IF "path" \in made THEN Home ELSE Nowhere
         /\ \/ unseen' = unseen \cup made /\ UNCHANGED kept
            \/ "path" \in made /\ kept' = kept \cup made /\ UNCHANGED unseen
    /\ Undo(o)
    /\ UNCHANGED <<session, record, unbound, astray, othersKeep>>

\* After copies, the sparse checkout and the setup command.
Register(o) ==
    /\ At(o, "create", "register") /\ o \notin cancelled
    /\ IF checkout = Home /\ branch = "base"
       THEN /\ record' = [inst |-> 1, path |-> Home, head |-> "base", session |-> FALSE,
                          life |-> "active"]
            /\ op' = [op EXCEPT ![o].step = "binding", ![o].inst = 1]
       ELSE Undo(o) /\ UNCHANGED record
    /\ UNCHANGED <<outside, kept, trouble, unseen, unbound, astray, othersKeep>>

\* The session is there before the pane, the prompt and the file it is saved
\* in: when one of these fails, the create does not hear of it.
OpenSession(o) ==
    /\ At(o, "create", "binding") /\ o \notin cancelled
    /\ session' = TRUE
    /\ \/ /\ op' = [op EXCEPT ![o].step = "bind", ![o].session = TRUE]
          /\ UNCHANGED <<unseen, trouble>>
       \/ /\ Mishap(o)
          /\ unseen' = unseen \cup {"session"}
          /\ Undo(o)
    /\ UNCHANGED <<checkout, branch, record, kept, unbound, astray, othersKeep>>

\* bind_session: an instance, in whatever state.
Bind(o) ==
    /\ At(o, "create", "bind")
    /\ IF record.inst = op[o].inst
       THEN /\ record' = [record EXCEPT !.session = TRUE]
            /\ IF o \in cancelled THEN Undo(o)
               ELSE op' = [op EXCEPT ![o].step = "launching", ![o].to = record.path]
       ELSE Undo(o) /\ UNCHANGED record
    /\ UNCHANGED <<outside, kept, trouble, unseen, unbound, astray, othersKeep>>

\* The record is the one that bind_session has read.
Launch(o) ==
    /\ At(o, "create", "launching") /\ o \notin cancelled
    /\ IF checkout = Home /\ branch = "base" /\ op[o].to = Home
       THEN Settle(o, "completed") ELSE Undo(o) /\ UNCHANGED row
    /\ UNCHANGED <<outside, record, cancelled, recon, kept, scans, trouble, historyVars>>

(***************************************************************************)
(* rollback_create                                                         *)
(***************************************************************************)
\* remove_worktree_session deletes the session first: when a pane of it or the
\* file then fails, the session is reported although it is gone.
UndoSession(o) ==
    /\ At(o, "create", "undoSession")
    /\ session' = (session /\ ~ op[o].session)
    /\ \/ UNCHANGED <<kept, trouble>>
       \/ /\ op[o].session /\ session
          /\ trouble > 0 /\ trouble' = trouble - 1
          /\ kept' = kept \cup {"session"}
    /\ Go(o, "undoRecord")
    /\ UNCHANGED <<checkout, branch, record, unseen, unbound, astray, othersKeep>>

\* Mutant of UndoRecord: a record of another instance counts as removed.
UndoRecordQuietly(o) ==
    /\ At(o, "create", "undoRecord")
    /\ record' = IF op[o].inst # 0 /\ record.inst = op[o].inst THEN NoRecord ELSE record
    /\ Go(o, "undoTree")
    /\ UNCHANGED <<outside, kept, trouble, unseen, unbound, astray, othersKeep>>

\* remove_metadata_if_instance
UndoRecord(o) ==
    /\ At(o, "create", "undoRecord")
    /\ CASE op[o].inst = 0 -> UNCHANGED <<record, kept>>
         [] op[o].inst # 0 /\ record.inst = op[o].inst -> record' = NoRecord /\ UNCHANGED kept
         [] OTHER -> kept' = kept \cup {"metadata"} /\ UNCHANGED record
    /\ Go(o, "undoTree")
    /\ UNCHANGED <<outside, trouble, unseen, unbound, astray, othersKeep>>

\* Only a checkout that is proven to be the one it made.  What is reported is
\* the place it was made at, wherever a move may have put it since.
UndoTree(o) ==
    /\ At(o, "create", "undoTree")
    /\ \/ op[o].path = Nowhere /\ UNCHANGED <<checkout, kept, trouble>>
       \/ op[o].path # Nowhere /\ checkout = op[o].path
          /\ checkout' = Nowhere /\ UNCHANGED <<kept, trouble>>
       \/ /\ op[o].path # Nowhere
          /\ IF checkout = op[o].path THEN trouble > 0 /\ trouble' = trouble - 1
             ELSE UNCHANGED trouble
          /\ kept' = kept \cup {"path"}
          /\ UNCHANGED checkout
    /\ Go(o, "undoBranch")
    /\ UNCHANGED <<branch, session, record, unseen, unbound, astray, othersKeep>>

\* A branch nobody has committed to.  That it cannot be read goes unsaid.
UndoBranch(o) ==
    /\ At(o, "create", "undoBranch")
    /\ \/ /\ op[o].path = Nowhere \/ branch = "none"
          /\ UNCHANGED <<branch, kept, trouble, unseen>>
       \/ op[o].path # Nowhere /\ branch = "base"
          /\ branch' = "none" /\ UNCHANGED <<kept, trouble, unseen>>
       \/ op[o].path # Nowhere /\ branch = "ahead"
          /\ kept' = kept \cup {"branch"} /\ UNCHANGED <<branch, trouble, unseen>>
       \/ /\ op[o].path # Nowhere /\ branch # "none"
          /\ trouble > 0 /\ trouble' = trouble - 1
          /\ \/ branch = "base" /\ kept' = kept \cup {"branch"} /\ UNCHANGED unseen
             \/ unseen' = unseen \cup {"branch"} /\ UNCHANGED kept
          /\ UNCHANGED branch
    /\ Settle(o, "failed")
    /\ UNCHANGED <<checkout, session, record, cancelled, recon, scans, unbound, astray, crashed>>

----------------------------------------------------------------------------
(***************************************************************************)
(* A move, and a removal before it has touched the record, end with their  *)
(* error.                                                                  *)
(***************************************************************************)
Fails(o) ==
    /\ Settle(o, "failed")
    /\ UNCHANGED <<cancelled, recon, scans, crashed>>

GivesUp(o) ==
    /\ \/ Kind[o] # "create" /\ op[o].step = "validating"
       \/ At(o, "move", "moving")
    /\ Mishap(o)
    /\ Fails(o)
    /\ UNCHANGED <<outside, record, kept, unseen, unbound, astray>>

(***************************************************************************)
(* move_claimed                                                            *)
(***************************************************************************)
MoveChecks(o, to) ==
    /\ At(o, "move", "validating")
    /\ IF /\ record.inst = op[o].inst /\ record.life = "active"
          /\ checkout = record.path /\ branch = record.head
          /\ to # checkout
       THEN /\ op' = [op EXCEPT ![o].step = "moving", ![o].path = record.path,
                                ![o].to = to, ![o].head = branch]
            /\ UNCHANGED othersKeep
       ELSE Fails(o)
    /\ UNCHANGED <<outside, record, kept, trouble, unseen, unbound, astray>>

GitMoves(o) ==
    /\ At(o, "move", "moving") /\ o \notin cancelled
    /\ IF checkout = op[o].path
       THEN checkout' = op[o].to /\ Go(o, "save") /\ UNCHANGED othersKeep
       ELSE Fails(o) /\ UNCHANGED checkout
    /\ UNCHANGED <<branch, session, record, kept, trouble, unseen, unbound, astray>>

\* Git is killed when it has moved the checkout: nothing moves it back.
GitMoveBreaks(o) ==
    /\ At(o, "move", "moving")
    /\ checkout = op[o].path
    /\ Mishap(o)
    /\ checkout' = op[o].to
    /\ astray' = TRUE
    /\ Fails(o)
    /\ UNCHANGED <<branch, session, record, kept, unseen, unbound>>

\* compare_and_swap_path, of a checkout that is where it was moved to.
MoveSaved(o) ==
    /\ At(o, "move", "save")
    /\ checkout = op[o].to /\ branch = op[o].head
    /\ record.inst = op[o].inst /\ record.path = op[o].path
    /\ record' = [record EXCEPT !.path = op[o].to, !.head = branch]
    /\ Settle(o, "completed")
    /\ UNCHANGED <<outside, cancelled, recon, kept, scans, trouble, historyVars>>

MoveNotSaved(o) ==
    /\ At(o, "move", "save")
    /\ IF /\ checkout = op[o].to /\ branch = op[o].head
          /\ record.inst = op[o].inst /\ record.path = op[o].path
       THEN Mishap(o) ELSE UNCHANGED trouble
    /\ Go(o, "back")
    /\ UNCHANGED <<outside, record, kept, unseen, unbound, astray, othersKeep>>

\* Mutant of MoveBack: the checkout stays where it is.
MoveBackForgotten(o) ==
    /\ At(o, "move", "back")
    /\ Fails(o)
    /\ UNCHANGED <<outside, record, kept, trouble, unseen, unbound, astray>>

MoveBack(o) ==
    /\ At(o, "move", "back")
    /\ \/ checkout = op[o].to /\ checkout' = op[o].path /\ UNCHANGED <<trouble, astray>>
       \/ checkout # op[o].to /\ UNCHANGED <<checkout, trouble, astray>>
       \/ /\ checkout = op[o].to
          /\ trouble > 0 /\ trouble' = trouble - 1
          /\ astray' = TRUE /\ UNCHANGED checkout
    /\ Fails(o)
    /\ UNCHANGED <<branch, session, record, kept, unseen, unbound>>

----------------------------------------------------------------------------
(***************************************************************************)
(* remove_claimed                                                          *)
(***************************************************************************)
\* removal_preflight and validate_removal_request: the user has acknowledged
\* what it finds, a missing registration too, or the removal is refused.
Preflight(o) ==
    /\ At(o, "remove", "validating") /\ o \notin cancelled
    /\ IF record = NoRecord THEN Fails(o)
       ELSE /\ op' = [op EXCEPT ![o].step = "prepare", ![o].missing = checkout # record.path]
            /\ UNCHANGED othersKeep
    /\ UNCHANGED <<outside, record, kept, trouble, unseen, unbound, astray>>

\* prepare_removal takes a record that another one is removing.
Prepare(o) ==
    /\ At(o, "remove", "prepare")
    /\ IF record # NoRecord /\ record.inst = op[o].inst
       THEN /\ record' = [record EXCEPT !.life = "removing"]
            /\ op' = [op EXCEPT ![o].step = "clean", ![o].path = record.path,
                                ![o].head = record.head, ![o].session = record.session]
            /\ UNCHANGED othersKeep
       ELSE Fails(o) /\ UNCHANGED record
    /\ UNCHANGED <<outside, kept, trouble, unseen, unbound, astray>>

\* The steps of a removal under way may fail.
RemoveGivesUp(o) ==
    /\ \E step \in {"clean", "verify", "removing", "branch"} : At(o, "remove", step)
    /\ Mishap(o)
    /\ Go(o, "abort")
    /\ UNCHANGED <<outside, record, kept, unseen, unbound, astray, othersKeep>>

\* cleanup_worktree_session_resources: the panes end, the session stays.
Clean(o) ==
    /\ At(o, "remove", "clean") /\ o \notin cancelled
    /\ Go(o, "verify")
    /\ UNCHANGED <<outside, record, kept, trouble, unseen, unbound, astray, othersKeep>>

\* A checkout that was missing and is not back, or one that is the recorded one.
Verify(o) ==
    /\ At(o, "remove", "verify")
    /\ IF op[o].missing /\ checkout # op[o].path THEN Go(o, "branch")
       ELSE IF checkout = op[o].path /\ branch = op[o].head THEN Go(o, "removing")
       ELSE Go(o, "abort")
    /\ UNCHANGED <<outside, record, kept, trouble, unseen, unbound, astray, othersKeep>>

\* Git removes what is at the path, or is killed when it has.
GitRemoves(o) ==
    /\ At(o, "remove", "removing")
    /\ \/ /\ o \notin cancelled /\ checkout = op[o].path
          /\ checkout' = Nowhere /\ Go(o, "branch") /\ UNCHANGED trouble
       \/ checkout # op[o].path /\ Go(o, "abort") /\ UNCHANGED <<checkout, trouble>>
       \/ /\ checkout = op[o].path
          /\ Mishap(o)
          /\ checkout' = Nowhere /\ Go(o, "abort")
    /\ UNCHANGED <<branch, session, record, kept, unseen, unbound, astray, othersKeep>>

\* The branch is kept, or is where the record says and merged.  One that is
\* gone already is an error.
RemoveBranch(o) ==
    /\ At(o, "remove", "branch")
    /\ \/ UNCHANGED branch /\ Go(o, "session")
       \/ branch = op[o].head /\ branch # "none" /\ branch' = "none" /\ Go(o, "session")
       \/ branch = "none" /\ UNCHANGED branch /\ Go(o, "abort")
    /\ UNCHANGED <<checkout, session, record, kept, trouble, unseen, unbound, astray, othersKeep>>

\* Mutant of RemoveSession: the session outlives its worktree.
RemoveSessionNot(o) ==
    /\ At(o, "remove", "session")
    /\ Go(o, "finalize")
    /\ UNCHANGED <<outside, record, kept, trouble, unseen, unbound, astray, othersKeep>>

\* The session of the record as it was when the removal was prepared.  It is
\* deleted before a pane of it or the file can fail.
RemoveSession(o) ==
    /\ At(o, "remove", "session")
    /\ session' = (session /\ ~ op[o].session)
    /\ \/ Go(o, "finalize") /\ UNCHANGED trouble
       \/ /\ op[o].session /\ session
          /\ trouble > 0 /\ trouble' = trouble - 1
          /\ Go(o, "abort")
    /\ UNCHANGED <<checkout, branch, record, kept, unseen, unbound, astray, othersKeep>>

\* finalize_removal
Finalize(o) ==
    /\ At(o, "remove", "finalize")
    /\ IF record.inst = op[o].inst /\ record.life = "removing"
       THEN record' = NoRecord /\ Settle(o, "completed")
       ELSE Go(o, "abort") /\ UNCHANGED <<record, row>>
    /\ UNCHANGED <<outside, cancelled, recon, kept, scans, trouble, historyVars>>

\* abort_removal: the record is active again, whatever has become of the rest.
Abort(o) ==
    /\ At(o, "remove", "abort")
    /\ record' = IF record.inst = op[o].inst /\ record.life = "removing"
                 THEN [record EXCEPT !.life = "active"] ELSE record
    /\ Fails(o)
    /\ UNCHANGED <<outside, kept, trouble, unseen, unbound, astray>>

----------------------------------------------------------------------------
(***************************************************************************)
(* A reconciliation: it asks Git, reads the records, and updates each by   *)
(* its id.  "missing" is stale too: what is at the path is not asked.      *)
(***************************************************************************)
reconKeeps == <<outside, row, op, cancelled, kept, trouble, unseen, crashed>>

Scan ==
    /\ recon.step = "idle" /\ scans > 0
    /\ scans' = scans - 1
    /\ recon' = [NoScan EXCEPT !.step = "scanned", !.at = checkout, !.head = branch]
    /\ UNCHANGED <<record, unbound, astray, reconKeeps>>

ReadRecords ==
    /\ recon.step = "scanned"
    /\ recon' = [recon EXCEPT !.step = "read", !.rec = record]
    /\ UNCHANGED <<record, scans, unbound, astray, reconKeeps>>

Found == recon.at # Nowhere /\ recon.rec.path = recon.at

\* reconcile_matched_record: a record that was missing is another instance now.
Adopt ==
    /\ Found /\ recon.rec.life = "missing"
    /\ IF record.life = "missing"
       THEN /\ record' = [inst |-> record.inst + 1, path |-> recon.at, head |-> recon.head,
                          session |-> FALSE, life |-> "active"]
            /\ unbound' = (unbound \/ record.session)
            /\ astray' = (astray \/ recon.at # checkout \/ BetweenPlaces)
       ELSE UNCHANGED <<record, unbound, astray>>

\* update_record_from_native
Refresh ==
    /\ Found /\ recon.rec.life = "active"
    /\ IF record # NoRecord /\ record.life # "removing"
       THEN /\ record' = [record EXCEPT !.path = recon.at, !.head = recon.head, !.life = "active"]
            /\ astray' = (astray \/ recon.at # checkout \/ BetweenPlaces)
       ELSE UNCHANGED <<record, astray>>
    /\ UNCHANGED unbound

\* Mutant of MarkMissing: the record is written, whether it is there or not.
MarkMissingAlways ==
    /\ recon.rec # NoRecord /\ ~ Found /\ recon.rec.life # "removing"
    /\ record' = IF record.life # "removing" THEN [record EXCEPT !.life = "missing"] ELSE record
    /\ UNCHANGED <<unbound, astray>>

MarkMissing ==
    /\ recon.rec # NoRecord /\ ~ Found /\ recon.rec.life # "removing"
    /\ record' = IF record # NoRecord /\ record.life # "removing"
                 THEN [record EXCEPT !.life = "missing"] ELSE record
    /\ UNCHANGED <<unbound, astray>>

LeaveAlone ==
    /\ recon.rec = NoRecord \/ recon.rec.life = "removing"
    /\ UNCHANGED <<record, unbound, astray>>

Reconcile ==
    /\ recon.step = "read"
    /\ recon' = NoScan
    /\ Adopt \/ Refresh \/ MarkMissing \/ LeaveAlone
    /\ UNCHANGED <<scans, reconKeeps>>

----------------------------------------------------------------------------
(***************************************************************************)
(* Others: a user moves or removes the checkout with Git, an agent commits *)
(* in it, and the daemon crashes and starts again.  Nothing resumes the    *)
(* operations it was at.                                                   *)
(***************************************************************************)
otherActs ==
    /\ trouble > 0
    /\ trouble' = trouble - 1
    /\ UNCHANGED <<session, record, kept, scans, unseen, unbound>>

UserMoves(to) ==
    /\ checkout # Nowhere /\ to # checkout
    /\ checkout' = to
    /\ astray' = TRUE
    /\ otherActs
    /\ UNCHANGED <<branch, row, op, cancelled, recon, crashed>>

AgentCommits ==
    /\ checkout # Nowhere /\ branch = "base"
    /\ branch' = "ahead"
    /\ otherActs
    /\ UNCHANGED <<checkout, row, op, cancelled, recon, astray, crashed>>

Crash ==
    /\ \E o \in Ops : op[o].step \notin {"idle", "done"}
    /\ op' = [o \in Ops |-> IF op[o].step = "idle" THEN op[o] ELSE Ended(op[o])]
    /\ cancelled' = {}
    /\ recon' = NoScan
    /\ astray' = (astray \/ BetweenPlaces)
    /\ crashed' = TRUE
    /\ otherActs
    /\ UNCHANGED <<checkout, branch, row>>

----------------------------------------------------------------------------
Create(o) ==
    \/ BeginCreate(o) \/ CreateGivesUp(o)
    \/ Add(o) \/ AddBreaks(o) \/ Register(o) \/ OpenSession(o) \/ Bind(o) \/ Launch(o)
    \/ UndoSession(o) \/ UndoRecord(o) \/ UndoTree(o) \/ UndoBranch(o)

Move(o) ==
    \/ \E to \in Paths : MoveChecks(o, to)
    \/ GitMoves(o) \/ GitMoveBreaks(o) \/ MoveSaved(o) \/ MoveNotSaved(o) \/ MoveBack(o)

Remove(o) ==
    \/ Preflight(o) \/ Prepare(o) \/ RemoveGivesUp(o) \/ Clean(o) \/ Verify(o)
    \/ GitRemoves(o) \/ RemoveBranch(o) \/ RemoveSession(o) \/ Finalize(o) \/ Abort(o)

Next ==
    \/ \E o \in Ops :
         \/ Create(o) \/ Move(o) \/ Remove(o)
         \/ BeginOther(o) \/ GivesUp(o) \/ Cancel(o)
    \/ Scan \/ ReadRecords \/ Reconcile
    \/ \E to \in Paths \cup {Nowhere} : UserMoves(to)
    \/ AgentCommits
    \/ Crash

Spec == Init /\ [][Next]_vars

----------------------------------------------------------------------------
Steps == {"idle", "validating", "creating", "register", "binding", "bind", "launching",
          "undoSession", "undoRecord", "undoTree", "undoBranch", "moving", "save", "back",
          "prepare", "clean", "verify", "removing", "branch", "session", "finalize", "abort",
          "done"}

Records ==
    [inst : 0 .. MaxScans + 1, path : Paths \cup {Nowhere}, head : {"none", "base", "ahead"},
     session : BOOLEAN, life : {"none", "active", "missing", "removing"}]

\* The variables hold what their declarations say.
TypeOK ==
    /\ checkout \in Paths \cup {Nowhere}
    /\ branch \in {"none", "base", "ahead"}
    /\ record \in Records
    /\ record.inst = 0 <=> record = NoRecord
    /\ session \in BOOLEAN
    /\ row \in [Ops -> {"none", "running", "completed", "failed"}]
    /\ op \in [Ops -> [step : Steps, inst : 0 .. MaxScans + 1, path : Paths \cup {Nowhere},
                       to : Paths \cup {Nowhere}, head : {"none", "base", "ahead"},
                       session : BOOLEAN, missing : BOOLEAN]]
    /\ cancelled \subseteq Ops
    /\ recon \in [step : {"idle", "scanned", "read"}, at : Paths \cup {Nowhere},
                  head : {"none", "base", "ahead"}, rec : Records]
    /\ kept \subseteq Artifacts /\ unseen \subseteq Artifacts
    /\ scans \in 0 .. MaxScans /\ trouble \in 0 .. MaxTrouble
    /\ {unbound, astray, crashed} \subseteq BOOLEAN

Present ==
    {a \in Artifacts :
        \/ a = "path" /\ checkout # Nowhere
        \/ a = "branch" /\ branch # "none"
        \/ a = "metadata" /\ record # NoRecord
        \/ a = "session" /\ session}

\* A create that has failed leaves nothing behind but what it says is retained
\* (rollback_create), and what it never knew it had made, whatever a move, a
\* removal or a reconciliation of its worktree does at the same time.
RolledBack ==
    \A o \in Ops :
        Kind[o] = "create" /\ row[o] = "failed" => Present \subseteq kept \cup unseen

\* When no operation is under way, a session that was opened for the worktree
\* is the session of its record (bind_session, remove_worktree_session), unless
\* a reconciliation has made the record another instance, the worktree was
\* removed by an operation that had read its record before the session was
\* bound, or the create crashed or failed before it knew of the session.
SessionHasWorktree ==
    /\ session
    /\ \A o \in Ops : op[o].step \in {"idle", "done"}
    /\ ~ unbound /\ ~ crashed /\ "session" \notin unseen
    /\ \A o \in Ops : Kind[o] = "remove" /\ row[o] = "completed" => op[o].session
    => record.session

\* When no move is under way, the record names the place of the checkout: a
\* move changes both or neither (compare_and_swap_path and the move back),
\* unless Git was interrupted, or someone else moved the checkout, or a
\* reconciliation wrote what it had seen before the checkout was moved, or
\* wrote while it was moved and not yet saved.  It is promised of moves that
\* follow one another: nothing keeps a move that was checked before from
\* coming after two others.
MovedTogether ==
    /\ checkout # Nowhere /\ record # NoRecord
    /\ ~ BetweenPlaces /\ ~ astray
    => record.path = checkout
=============================================================================
