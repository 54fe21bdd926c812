------------------------ MODULE AutomationRunProofs ------------------------
(***************************************************************************)
(* The runs of an automation, for any schedules, any number of runs, any   *)
(* grace and retention, and any number of updates, restarts of the daemon  *)
(* and failures of the store.                                              *)
(*                                                                         *)
(* What has to be known of a run is the status its row can have at each    *)
(* step of its thread: cancelling, deleting and pruning change the row     *)
(* behind the thread's back, and nothing else does.                        *)
(***************************************************************************)
EXTENDS AutomationRun, WellFoundedInduction, TLAPS

\* Row q of the table is still the same, or has ended and has been pruned.
SameOrPruned(table, old, q) ==
    table[q] = old[q] \/ (old[q].status \in Final /\ table[q] = Row("gone"))

----------------------------------------------------------------------------
\* Times and run numbers have least elements.
LEMMA LeastElement ==
    ASSUME NEW S \in SUBSET Nat, S # {}
    PROVE  \E m \in S : \A n \in S : m <= n
<1>1. IsWellFoundedOn(OpToRel(<, Nat), Nat)
  BY NatLessThanWellFounded
<1>2. PICK m \in S : \A n \in S : ~ (<<n, m>> \in OpToRel(<, Nat))
  BY <1>1, WFMin
<1>3. \A n \in S : ~ (n < m)
  BY <1>2 DEF OpToRel
<1>4. QED
  BY <1>3

\* schedule::next_after returns a time that is still to come, or none.
LEMMA NextAfterTypes ==
    ASSUME NEW s \in Schedules, NEW time \in Nat
    PROVE  /\ NextAfter(s, time) \in Times \cup {Never}
           /\ NextAfter(s, time) # Never => NextAfter(s, time) > time
<1> DEFINE later == {t \in s : t > time}
<1>1. s \subseteq Times
  BY ScheduleAssumption
<1>2. CASE later = {}
  BY <1>2 DEF NextAfter
<1>3. CASE later # {}
  <2>1. later \in SUBSET Nat
    <3>1. Times \subseteq Nat
      BY BoundsAssumption DEF Times
    <3>2. QED
      BY <1>1, <3>1
  <2>2. PICK m \in later : \A n \in later : m <= n
    BY <1>3, <2>1, LeastElement
  <2>3. (CHOOSE t \in later : \A n \in later : t <= n) \in later
    BY <2>2
  <2>4. NextAfter(s, time) \in later
    BY <1>3, <2>3 DEF NextAfter
  <2>5. QED
    BY <1>1, <2>4
<1>4. QED
  BY <1>2, <1>3

\* A new run takes the least number that has never been used (insert_run).
LEMMA NewRunIsLeast ==
    ASSUME RoomForRun
    PROVE  /\ NewRun \in RunIds
           /\ Status(NewRun) = "absent"
           /\ \A q \in RunIds : q < NewRun => Status(q) # "absent"
<1> DEFINE absent == {q \in RunIds : Status(q) = "absent"}
<1>1. absent \in SUBSET Nat /\ absent # {}
  BY DEF RoomForRun, RunIds
<1>2. PICK m \in absent : \A n \in absent : m <= n
  BY <1>1, LeastElement
<1>3. m \in RunIds /\ Status(m) = "absent" /\ \A q \in RunIds : q < m => Status(q) # "absent"
  BY <1>1, <1>2 DEF RunIds
<1>4. QED
  BY <1>3 DEF NewRun

\* prune_final_runs deletes rows of runs that have ended, and no others.
LEMMA PrunedRows ==
    ASSUME NEW table \in Rows
    PROVE  /\ Pruned(table) \in Rows
           /\ \A q \in RunIds : SameOrPruned(Pruned(table), table, q)
BY DEF Pruned, Rows, Statuses, Row, SameOrPruned, Dispositions

\* A row has no more than its two columns.
LEMMA RowOf ==
    ASSUME NEW S, NEW T, NEW row \in [status : S, tree : T], NEW status, NEW tree
    PROVE  [row EXCEPT !.status = status, !.tree = tree] = [status |-> status, tree |-> tree]
<1>1. DOMAIN row = {"status", "tree"}
  OBVIOUS
<1>2. [row EXCEPT !.status = status, !.tree = tree] =
         [x \in {"status", "tree"} |-> IF x = "tree" THEN tree ELSE status]
  BY <1>1
<1>3. QED
  BY <1>2

\* Saving the end of a run (save_run_if_status) leaves the other rows alone,
\* but for those it prunes.
LEMMA SavedRows ==
    ASSUME rows \in Rows, NEW r \in RunIds, NEW status \in Final, NEW tree \in Dispositions
    PROVE  /\ Saved(r, status, tree) \in Rows
           /\ \A q \in RunIds \ {r} : SameOrPruned(Saved(r, status, tree), rows, q)
           /\ \/ Saved(r, status, tree)[r] = [status |-> status, tree |-> tree]
              \/ Saved(r, status, tree)[r] = Row("gone")
<1> DEFINE table == [rows EXCEPT ![r].status = status, ![r].tree = tree]
<1>1. table \in Rows /\ table[r] = [status |-> status, tree |-> tree]
  <2>1. table = [rows EXCEPT ![r] = [rows[r] EXCEPT !.status = status, !.tree = tree]]
    OBVIOUS
  <2>2. rows[r] \in [status : Statuses, tree : Dispositions]
    BY DEF Rows
  <2>3. [rows[r] EXCEPT !.status = status, !.tree = tree] = [status |-> status, tree |-> tree]
    BY <2>2, RowOf
  <2>4. status \in Statuses
    BY DEF Statuses
  <2>5. [status |-> status, tree |-> tree] \in [status : Statuses, tree : Dispositions]
    BY <2>4
  <2>6. table = [rows EXCEPT ![r] = [status |-> status, tree |-> tree]]
    BY <2>1, <2>3
  <2> HIDE DEF table
  <2>7. QED
    BY <2>5, <2>6 DEF Rows
<1>2. \A q \in RunIds \ {r} : table[q] = rows[q]
  BY DEF Rows
<1>3. Saved(r, status, tree) = Pruned(table)
  BY DEF Saved
<1> HIDE DEF table
<1>4. QED
  BY <1>1, <1>2, <1>3, PrunedRows DEF SameOrPruned

----------------------------------------------------------------------------
\* The runner has an outcome by the time it is to be saved.
OutcomeKnown ==
    \A r \in RunIds : exec[r] \in {"saveOutcome", "end"} => outcome[r] \in RunnerStatus

TypeInv == TypeOK /\ OutcomeKnown

\* The daemon starts with variables of these types.
LEMMA InitTypes == Init => TypeInv
<1> SUFFICES ASSUME Init PROVE TypeInv
  OBVIOUS
<1>1. auto \in [exists : BOOLEAN, enabled : BOOLEAN, review : BOOLEAN,
                schedule : Schedules, next : Times \cup {Never}]
      /\ auto.enabled /\ ~ auto.review
  BY NextAfterTypes DEF Init
<1>2. rows \in Rows
  BY DEF Init, Rows, Row, Statuses, Dispositions
<1>3. clock \in 0 .. MaxTime
      /\ budget \in [updates : 0 .. MaxUpdates, crashes : 0 .. MaxCrashes, faults : 0 .. MaxFaults]
  BY BoundsAssumption DEF Init
<1>4. QED
  BY <1>1, <1>2, <1>3 DEF Init, TypeInv, TypeOK, OutcomeKnown

\* The updates of a single row.
LEMMA RowUpdates ==
    ASSUME NEW table \in Rows, NEW r \in RunIds, NEW status \in Statuses, NEW tree \in Dispositions
    PROVE  /\ [table EXCEPT ![r].status = status] \in Rows
           /\ [table EXCEPT ![r].tree = tree] \in Rows
           /\ [table EXCEPT ![r] = Row(status)] \in Rows
BY DEF Rows, Row, Dispositions


\* Every step keeps the table of runs.
LEMMA RowsKept ==
    ASSUME TypeInv, [Next]_vars
    PROVE  rows' \in Rows
<1>1. ASSUME NEW enabled \in BOOLEAN, NEW review \in BOOLEAN, NEW s \in Schedules, UserUpdates(enabled, review, s)
     PROVE  rows' \in Rows
  BY <1>1 DEF TypeInv, TypeOK, UserUpdates

<1>2. CASE UserDeletes
  BY <1>2 DEF TypeInv, TypeOK, Rows, Statuses, Active, Final, Dispositions, RunnerStatus, UserDeletes, Row, Recorded, Status

<1>3. CASE UserTriggers
  BY <1>3, NewRunIsLeast, RowUpdates DEF TypeInv, TypeOK, Statuses, Active, Final, Dispositions, RunnerStatus, UserTriggers

<1>4. ASSUME NEW r \in RunIds, UserCancels(r)
     PROVE  rows' \in Rows
  <2>1. [rows EXCEPT ![r].status = "cancelled"] \in Rows
    BY RowUpdates DEF TypeInv, TypeOK, Statuses, Active, Final, Dispositions, RunnerStatus
  <2>2. QED
    BY <1>4, <2>1, PrunedRows DEF UserCancels

<1>5. ASSUME NEW started \in BOOLEAN, SchedulerClaims(started)
     PROVE  rows' \in Rows
  <2> DEFINE row == Row(IF Missed THEN "skipped_missed" ELSE "pending")
  <2>1. NewRun \in RunIds
    BY <1>5, NewRunIsLeast DEF SchedulerClaims
  <2>2. [rows EXCEPT ![NewRun] = row] \in Rows
    BY <2>1, RowUpdates DEF TypeInv, TypeOK, Statuses, Active, Final, Dispositions, RunnerStatus
  <2>3. rows' = Pruned([rows EXCEPT ![NewRun] = row])
    BY <1>5 DEF SchedulerClaims
  <2>4. QED
    BY <2>2, <2>3, PrunedRows

<1>6. CASE Tick
  BY <1>6 DEF TypeInv, TypeOK, Tick

<1>7. ASSUME NEW r \in RunIds, RowGone(r)
     PROVE  rows' \in Rows
  BY <1>7 DEF TypeInv, TypeOK, RowGone, executorKeeps

<1>8. ASSUME NEW r \in RunIds, ReviewStops(r)
     PROVE  rows' \in Rows
  BY <1>8 DEF TypeInv, TypeOK, ReviewStops, executorKeeps

<1>9. ASSUME NEW r \in RunIds, Dispatch(r)
     PROVE  rows' \in Rows
  <2>1. "dispatching" \in Statuses
    BY DEF Statuses, Active
  <2>2. rows \in Rows
    BY DEF TypeInv, TypeOK
  <2>3. [rows EXCEPT ![r].status = "dispatching"] \in Rows
    BY <2>1, <2>2, RowUpdates DEF Dispositions
  <2>4. QED
    BY <1>9, <2>2, <2>3 DEF Dispatch

<1>10. ASSUME NEW r \in RunIds, PrepareFails(r)
     PROVE  rows' \in Rows
  <2>1. rows[r].tree \in Dispositions
    BY DEF TypeInv, TypeOK, Rows
  <2>2. QED
    BY <1>10, <2>1, SavedRows DEF TypeInv, TypeOK, Statuses, Active, Final, Dispositions, RunnerStatus, PrepareFails

<1>11. ASSUME NEW r \in RunIds, NEW tree \in {"live", "settled"}, SaveWorktree(r, tree)
     PROVE  rows' \in Rows
  <2>1. tree \in Dispositions /\ "gone" \in Statuses
    BY DEF Dispositions, Statuses
  <2>2. rows \in Rows
    BY DEF TypeInv, TypeOK
  <2>3. [rows EXCEPT ![r].tree = tree] \in Rows
    BY <2>1, <2>2, RowUpdates
  <2>4. QED
    BY <1>11, <2>2, <2>3 DEF SaveWorktree

<1>12. ASSUME NEW r \in RunIds, ChecksFail(r)
     PROVE  rows' \in Rows
  BY <1>12, SavedRows DEF TypeInv, TypeOK, Statuses, Active, Final, Dispositions, RunnerStatus, ChecksFail, SaveTerminal

<1>13. ASSUME NEW r \in RunIds, SaveChecks(r)
     PROVE  rows' \in Rows
  BY <1>13 DEF TypeInv, TypeOK, SaveChecks, executorKeeps

<1>14. ASSUME NEW r \in RunIds, LaunchFails(r)
     PROVE  rows' \in Rows
  BY <1>14 DEF TypeInv, TypeOK, LaunchFails, executorKeeps

<1>15. ASSUME NEW r \in RunIds, Launch(r)
     PROVE  rows' \in Rows
  BY <1>15 DEF TypeInv, TypeOK, Launch, executorKeeps

<1>16. ASSUME NEW r \in RunIds, SeeExit(r)
     PROVE  rows' \in Rows
  BY <1>16 DEF TypeInv, TypeOK, SeeExit, executorKeeps

<1>17. ASSUME NEW r \in RunIds, SeeCancelled(r)
     PROVE  rows' \in Rows
  BY <1>17 DEF TypeInv, TypeOK, SeeCancelled, Terminate, executorKeeps

<1>18. ASSUME NEW r \in RunIds, TimeOut(r)
     PROVE  rows' \in Rows
  BY <1>18 DEF TypeInv, TypeOK, TimeOut, Terminate, executorKeeps

<1>19. ASSUME NEW r \in RunIds, SaveOutcome(r)
     PROVE  rows' \in Rows
  <2>1. "dispatched" \in Statuses
    BY DEF Statuses, Active
  <2>2. rows \in Rows
    BY DEF TypeInv, TypeOK
  <2>3. [rows EXCEPT ![r].status = "dispatched"] \in Rows
    BY <2>1, <2>2, RowUpdates DEF Dispositions
  <2>4. QED
    BY <1>19, <2>2, <2>3 DEF SaveOutcome

<1>20. ASSUME NEW r \in RunIds, SaveEnd(r)
     PROVE  rows' \in Rows
  BY <1>20, SavedRows DEF TypeInv, TypeOK, Statuses, Active, Final, Dispositions, RunnerStatus, SaveEnd, SaveTerminal, OutcomeKnown, At

<1>21. ASSUME NEW r \in RunIds, FinishCancelled(r)
     PROVE  rows' \in Rows
  BY <1>21, SavedRows DEF TypeInv, TypeOK, Statuses, Active, Final, Dispositions, RunnerStatus, FinishCancelled, SaveTerminal

<1>22. ASSUME NEW r \in RunIds, NEW how \in {"exited", "closed"}, AgentEnds(r, how)
     PROVE  rows' \in Rows
  BY <1>22 DEF TypeInv, TypeOK, AgentEnds, executorKeeps

<1>23. ASSUME NEW r \in RunIds, StoreFails(r)
     PROVE  rows' \in Rows
  BY <1>23 DEF TypeInv, TypeOK, StoreFails

<1>24. CASE Crash
  BY <1>24 DEF TypeInv, TypeOK, Crash

<1>25. CASE Restart
  <2> DEFINE Record == [status : Statuses, tree : Dispositions]
  <2>1. \A row \in Record : Failed(row) \in Record
    BY DEF Failed, Statuses, Final, RunnerStatus, Dispositions
  <2>2. \A q \in RunIds : rows[q] \in Record
    BY DEF TypeInv, TypeOK, Rows
  <2> HIDE DEF Record
  <2>3. rows' \in [RunIds -> Record]
    BY <1>25, <2>1, <2>2 DEF Restart
  <2>4. QED
    BY <2>3 DEF Record, Rows

<1>26. CASE UNCHANGED vars
  BY <1>26 DEF TypeInv, TypeOK, vars

<1>27. QED
  BY <1>1, <1>2, <1>3, <1>4, <1>5, <1>6, <1>7, <1>8, <1>9, <1>10, <1>11, <1>12, <1>13, <1>14, <1>15, <1>16, <1>17, <1>18, <1>19, <1>20, <1>21, <1>22, <1>23, <1>24, <1>25, <1>26 DEF Next, Execute
\* Every step keeps the types.
LEMMA TypesKept ==
    ASSUME TypeInv, [Next]_vars
    PROVE  TypeInv'
<1>1. ASSUME NEW enabled \in BOOLEAN, NEW review \in BOOLEAN, NEW s \in Schedules, UserUpdates(enabled, review, s)
     PROVE  TypeInv'
  <2>1. clock \in Nat
    BY BoundsAssumption DEF TypeInv, TypeOK
  <2>2. NextAfter(s, clock) \in Times \cup {Never}
    BY <2>1, NextAfterTypes
  <2>3. auto' \in [exists : BOOLEAN, enabled : BOOLEAN, review : BOOLEAN,
                  schedule : Schedules, next : Times \cup {Never}]
        /\ (auto'.next # Never => auto'.enabled) /\ ~ (auto'.enabled /\ auto'.review)
    BY <1>1, <2>2 DEF TypeInv, TypeOK, UserUpdates
  <2>4. budget' \in [updates : 0 .. MaxUpdates, crashes : 0 .. MaxCrashes, faults : 0 .. MaxFaults]
    BY <1>1, BoundsAssumption DEF TypeInv, TypeOK, UserUpdates
  <2>5. QED
    BY <1>1, <2>3, <2>4, RowsKept DEF TypeInv, TypeOK, OutcomeKnown, UserUpdates, execVars, historyVars

<1>2. CASE UserDeletes
  BY <1>2, RowsKept
     DEF TypeInv, TypeOK, OutcomeKnown, UserDeletes, Never, execVars, historyVars

<1>3. CASE UserTriggers
  BY <1>3, RowsKept, NewRunIsLeast
     DEF TypeInv, TypeOK, OutcomeKnown, UserTriggers, execVars, historyVars

<1>4. ASSUME NEW r \in RunIds, UserCancels(r)
     PROVE  TypeInv'
  BY <1>4, RowsKept, BoundsAssumption
     DEF TypeInv, TypeOK, OutcomeKnown, UserCancels, execVars, historyVars

<1>5. ASSUME NEW started \in BOOLEAN, SchedulerClaims(started)
     PROVE  TypeInv'
  <2>1. clock \in Nat /\ auto.schedule \in Schedules
    BY BoundsAssumption DEF TypeInv, TypeOK
  <2>2. NextAfter(auto.schedule, clock) \in Times \cup {Never} /\ NewRun \in RunIds
    BY <1>5, <2>1, NextAfterTypes, NewRunIsLeast DEF SchedulerClaims
  <2>3. auto' \in [exists : BOOLEAN, enabled : BOOLEAN, review : BOOLEAN,
                  schedule : Schedules, next : Times \cup {Never}]
        /\ auto'.enabled /\ ~ auto'.review
    BY <1>5, <2>2 DEF TypeInv, TypeOK, SchedulerClaims, Due
  <2>4. budget' \in [updates : 0 .. MaxUpdates, crashes : 0 .. MaxCrashes, faults : 0 .. MaxFaults]
    BY <1>5, BoundsAssumption DEF TypeInv, TypeOK, SchedulerClaims
  <2>5. exec' \in [RunIds -> {"none", "start", "prepare", "check", "launch", "watch",
                            "saveOutcome", "end", "finishCancelled"}]
        /\ \A r \in RunIds : exec'[r] \in {exec[r], "start"}
    BY <1>5, <2>2 DEF TypeInv, TypeOK, SchedulerClaims
  <2>6. lost' \subseteq RunIds
    BY <1>5, <2>2 DEF TypeInv, TypeOK, SchedulerClaims
  <2>7. claimed' \in [Times -> Nat]
    <3>1. auto.next \in Times
      BY <1>5 DEF TypeInv, TypeOK, SchedulerClaims, Due
    <3>2. claimed[auto.next] \in Nat
      BY <3>1 DEF TypeInv, TypeOK
    <3>3. claimed[auto.next] + 1 \in Nat
      BY <3>2
    <3>4. claimed' = [claimed EXCEPT ![auto.next] = claimed[auto.next] + 1]
      BY <1>5 DEF SchedulerClaims
    <3>5. QED
      BY <3>3, <3>4 DEF TypeInv, TypeOK
  <2>8. QED
    BY <1>5, <2>3, <2>4, <2>5, <2>6, <2>7, RowsKept
       DEF TypeInv, TypeOK, OutcomeKnown, SchedulerClaims

<1>6. CASE Tick
  BY <1>6, RowsKept, BoundsAssumption
     DEF TypeInv, TypeOK, OutcomeKnown, Tick, execVars, historyVars

<1>7. ASSUME NEW r \in RunIds, RowGone(r)
     PROVE  TypeInv'
  BY <1>7, RowsKept
     DEF TypeInv, TypeOK, OutcomeKnown, RowGone, At, Stop, executorKeeps, execVars, historyVars

<1>8. ASSUME NEW r \in RunIds, ReviewStops(r)
     PROVE  TypeInv'
  BY <1>8, RowsKept
     DEF TypeInv, TypeOK, OutcomeKnown, ReviewStops, At, Stop, executorKeeps, execVars, historyVars

<1>9. ASSUME NEW r \in RunIds, Dispatch(r)
     PROVE  TypeInv'
  BY <1>9, RowsKept
     DEF TypeInv, TypeOK, OutcomeKnown, Dispatch, At, Stop, Goto, executorKeeps, execVars, historyVars

<1>10. ASSUME NEW r \in RunIds, PrepareFails(r)
     PROVE  TypeInv'
  BY <1>10, RowsKept
     DEF TypeInv, TypeOK, OutcomeKnown, PrepareFails, At, Stop, executorKeeps, execVars, historyVars

<1>11. ASSUME NEW r \in RunIds, NEW tree \in {"live", "settled"}, SaveWorktree(r, tree)
     PROVE  TypeInv'
  BY <1>11, RowsKept
     DEF TypeInv, TypeOK, OutcomeKnown, SaveWorktree, At, Goto, executorKeeps, execVars, historyVars

<1>12. ASSUME NEW r \in RunIds, ChecksFail(r)
     PROVE  TypeInv'
  BY <1>12, RowsKept
     DEF TypeInv, TypeOK, OutcomeKnown, ChecksFail, At, Stop, SaveTerminal, executorKeeps, execVars, historyVars

<1>13. ASSUME NEW r \in RunIds, SaveChecks(r)
     PROVE  TypeInv'
  BY <1>13, RowsKept
     DEF TypeInv, TypeOK, OutcomeKnown, SaveChecks, At, Goto, executorKeeps, execVars, historyVars

<1>14. ASSUME NEW r \in RunIds, LaunchFails(r)
     PROVE  TypeInv'
  BY <1>14, RowsKept, ExitAssumption
     DEF TypeInv, TypeOK, OutcomeKnown, LaunchFails, At, Goto, executorKeeps, RunnerStatus, execVars, historyVars

<1>15. ASSUME NEW r \in RunIds, Launch(r)
     PROVE  TypeInv'
  BY <1>15, RowsKept
     DEF TypeInv, TypeOK, OutcomeKnown, Launch, At, Goto, executorKeeps, execVars, historyVars

<1>16. ASSUME NEW r \in RunIds, SeeExit(r)
     PROVE  TypeInv'
  BY <1>16, RowsKept, ExitAssumption
     DEF TypeInv, TypeOK, OutcomeKnown, SeeExit, At, Goto, executorKeeps, RunnerStatus, execVars, historyVars

<1>17. ASSUME NEW r \in RunIds, SeeCancelled(r)
     PROVE  TypeInv'
  BY <1>17, RowsKept, ExitAssumption
     DEF TypeInv, TypeOK, OutcomeKnown, SeeCancelled, Terminate, At, Goto, executorKeeps, RunnerStatus, execVars, historyVars

<1>18. ASSUME NEW r \in RunIds, TimeOut(r)
     PROVE  TypeInv'
  BY <1>18, RowsKept
     DEF TypeInv, TypeOK, OutcomeKnown, TimeOut, Terminate, At, Goto, executorKeeps, RunnerStatus, execVars, historyVars

<1>19. ASSUME NEW r \in RunIds, SaveOutcome(r)
     PROVE  TypeInv'
  BY <1>19, RowsKept
     DEF TypeInv, TypeOK, OutcomeKnown, SaveOutcome, At, Goto, executorKeeps, execVars, historyVars

<1>20. ASSUME NEW r \in RunIds, SaveEnd(r)
     PROVE  TypeInv'
  BY <1>20, RowsKept
     DEF TypeInv, TypeOK, OutcomeKnown, SaveEnd, At, Goto, Stop, SaveTerminal, executorKeeps, execVars, historyVars

<1>21. ASSUME NEW r \in RunIds, FinishCancelled(r)
     PROVE  TypeInv'
  BY <1>21, RowsKept
     DEF TypeInv, TypeOK, OutcomeKnown, FinishCancelled, At, Stop, SaveTerminal, executorKeeps, execVars, historyVars

<1>22. ASSUME NEW r \in RunIds, NEW how \in {"exited", "closed"}, AgentEnds(r, how)
     PROVE  TypeInv'
  BY <1>22, RowsKept
     DEF TypeInv, TypeOK, OutcomeKnown, AgentEnds, executorKeeps, execVars, historyVars

<1>23. ASSUME NEW r \in RunIds, StoreFails(r)
     PROVE  TypeInv'
  BY <1>23, RowsKept, BoundsAssumption
     DEF TypeInv, TypeOK, OutcomeKnown, StoreFails, Stop, execVars, historyVars

<1>24. CASE Crash
  <2>1. budget' \in [updates : 0 .. MaxUpdates, crashes : 0 .. MaxCrashes, faults : 0 .. MaxFaults]
    BY <1>24, BoundsAssumption DEF TypeInv, TypeOK, Crash
  <2>2. cutShort' \subseteq RunIds
    BY <1>24 DEF TypeInv, TypeOK, Crash
  <2>3. QED
    BY <1>24, <2>1, <2>2, RowsKept DEF TypeInv, TypeOK, OutcomeKnown, Crash

<1>25. CASE Restart
  BY <1>25, RowsKept
     DEF TypeInv, TypeOK, OutcomeKnown, Restart, execVars, historyVars

<1>26. CASE UNCHANGED vars
  BY <1>26 DEF TypeInv, TypeOK, OutcomeKnown, vars, execVars, historyVars

<1>27. QED
  BY <1>1, <1>2, <1>3, <1>4, <1>5, <1>6, <1>7, <1>8, <1>9, <1>10, <1>11, <1>12, <1>13, <1>14, <1>15, <1>16, <1>17, <1>18, <1>19, <1>20, <1>21, <1>22, <1>23, <1>24, <1>25, <1>26 DEF Next, Execute
----------------------------------------------------------------------------
(***************************************************************************)
(* What a step does to the rows: it writes one of them, and those of runs  *)
(* that have ended may be pruned, this one too.                            *)
(***************************************************************************)
Wrote(r, status, tree) ==
    /\ rows'[r] \in {[status |-> status, tree |-> tree], Row("gone")}
    /\ \A q \in RunIds \ {r} : SameOrPruned(rows', rows, q)

\* Without pruning.
LEMMA WroteOne ==
    ASSUME rows \in Rows, NEW r \in RunIds
    PROVE  /\ \A status \in Statuses : rows' = [rows EXCEPT ![r].status = status]
                                        => Wrote(r, status, rows[r].tree)
           /\ \A tree \in Dispositions : rows' = [rows EXCEPT ![r].tree = tree]
                                        => Wrote(r, rows[r].status, tree)
           /\ \A status \in Statuses : rows' = [rows EXCEPT ![r] = Row(status)]
                                        => Wrote(r, status, "none")
BY DEF Rows, Wrote, SameOrPruned, Row

\* With pruning.
LEMMA WrotePruned ==
    ASSUME rows \in Rows, NEW r \in RunIds, NEW status \in Statuses
    PROVE  /\ rows' = Pruned([rows EXCEPT ![r].status = status]) => Wrote(r, status, rows[r].tree)
           /\ rows' = Pruned([rows EXCEPT ![r] = Row(status)]) => Wrote(r, status, "none")
<1> DEFINE one == [rows EXCEPT ![r].status = status]
           new == [rows EXCEPT ![r] = Row(status)]
<1>1. "none" \in Dispositions
  BY DEF Dispositions
<1>2. one \in Rows /\ new \in Rows
  BY <1>1, RowUpdates
<1>3. one[r] = [status |-> status, tree |-> rows[r].tree] /\ new[r] = Row(status)
      /\ \A q \in RunIds \ {r} : one[q] = rows[q] /\ new[q] = rows[q]
  BY DEF Rows, Row
<1>4. (\A q \in RunIds : SameOrPruned(Pruned(one), one, q))
      /\ (\A q \in RunIds : SameOrPruned(Pruned(new), new, q))
  BY <1>2, PrunedRows
<1> HIDE DEF one, new
<1>5. rows' = Pruned(one) => Wrote(r, status, rows[r].tree)
  BY <1>3, <1>4 DEF Wrote, SameOrPruned
<1>6. rows' = Pruned(new) => Wrote(r, status, "none")
  BY <1>3, <1>4 DEF Wrote, SameOrPruned, Row
<1>7. QED
  BY <1>5, <1>6 DEF one, new

\* The end of a run.
LEMMA WroteEnd ==
    ASSUME rows \in Rows, NEW r \in RunIds, NEW status \in Final, NEW tree \in Dispositions,
           rows' = Saved(r, status, tree)
    PROVE  Wrote(r, status, tree)
BY SavedRows DEF Wrote, SameOrPruned

\* What every action writes.
LEMMA RowEffects ==
    ASSUME TypeInv
    PROVE  /\ UserTriggers => Wrote(NewRun, "pending", "none")
           /\ \A started \in BOOLEAN : SchedulerClaims(started) =>
                 Wrote(NewRun, IF Missed THEN "skipped_missed" ELSE "pending", "none")
           /\ \A r \in RunIds :
                 /\ UserCancels(r) => Wrote(r, "cancelled", rows[r].tree)
                 /\ Dispatch(r) =>
                       \/ Status(r) = "cancelled" /\ rows' = rows
                       \/ Status(r) = "pending" /\ Wrote(r, "dispatching", rows[r].tree)
                 /\ PrepareFails(r) =>
                       Wrote(r, IF Status(r) = "cancelled" THEN "cancelled" ELSE "skipped_precheck",
                             rows[r].tree)
                 /\ \A tree \in {"live", "settled"} : SaveWorktree(r, tree) =>
                       \/ Status(r) = "cancelled" /\ rows' = rows
                       \/ Status(r) = "dispatching" /\ Wrote(r, "dispatching", tree)
                 /\ ChecksFail(r) =>
                       Wrote(r, IF Status(r) = "cancelled" THEN "cancelled" ELSE "skipped_precheck",
                             "settled")
                 /\ SaveOutcome(r) =>
                       \/ Status(r) = "cancelled" /\ rows' = rows
                       \/ Status(r) = "dispatching" /\ Wrote(r, "dispatched", rows[r].tree)
                 /\ SaveEnd(r) =>
                       Wrote(r, IF Status(r) = "cancelled" THEN "cancelled" ELSE outcome[r], "settled")
                 /\ FinishCancelled(r) => Wrote(r, "cancelled", "settled")
<1>1. rows \in Rows /\ "settled" \in Dispositions
      /\ {"pending", "dispatching", "dispatched", "cancelled", "skipped_precheck", "skipped_missed"}
            \subseteq Statuses
      /\ {"cancelled", "skipped_precheck"} \subseteq Final
  BY DEF TypeInv, TypeOK, Dispositions, Statuses, Active, Final, RunnerStatus
<1>2. \A r \in RunIds : rows[r].tree \in Dispositions
  BY <1>1 DEF Rows
<1>3. UserTriggers => Wrote(NewRun, "pending", "none")
  BY <1>1, NewRunIsLeast, WroteOne DEF UserTriggers
<1>4. ASSUME NEW started \in BOOLEAN, SchedulerClaims(started)
      PROVE  Wrote(NewRun, IF Missed THEN "skipped_missed" ELSE "pending", "none")
  <2> DEFINE status == IF Missed THEN "skipped_missed" ELSE "pending"
  <2>1. rows' = Pruned([rows EXCEPT ![NewRun] = Row(status)]) /\ NewRun \in RunIds
    BY <1>4, NewRunIsLeast DEF SchedulerClaims
  <2>2. status \in Statuses
    BY <1>1
  <2>3. Wrote(NewRun, status, "none")
    BY <1>1, <2>1, <2>2, WrotePruned
  <2>4. QED
    BY <2>3
<1>5. ASSUME NEW r \in RunIds, UserCancels(r)
      PROVE  Wrote(r, "cancelled", rows[r].tree)
  BY <1>1, <1>5, WrotePruned DEF UserCancels
<1>6. ASSUME NEW r \in RunIds, Dispatch(r)
      PROVE  \/ Status(r) = "cancelled" /\ rows' = rows
             \/ Status(r) = "pending" /\ Wrote(r, "dispatching", rows[r].tree)
  BY <1>1, <1>6, WroteOne DEF Dispatch
<1>7. ASSUME NEW r \in RunIds, PrepareFails(r)
      PROVE  Wrote(r, IF Status(r) = "cancelled" THEN "cancelled" ELSE "skipped_precheck",
                   rows[r].tree)
  BY <1>1, <1>2, <1>7, WroteEnd DEF PrepareFails
<1>8. ASSUME NEW r \in RunIds, NEW tree \in {"live", "settled"}, SaveWorktree(r, tree)
      PROVE  \/ Status(r) = "cancelled" /\ rows' = rows
             \/ Status(r) = "dispatching" /\ Wrote(r, "dispatching", tree)
  <2>1. tree \in Dispositions
    BY DEF Dispositions
  <2>2. QED
    BY <1>1, <1>8, <2>1, WroteOne DEF SaveWorktree, Status
<1>9. ASSUME NEW r \in RunIds, ChecksFail(r)
      PROVE  Wrote(r, IF Status(r) = "cancelled" THEN "cancelled" ELSE "skipped_precheck", "settled")
  BY <1>1, <1>9, WroteEnd DEF ChecksFail, SaveTerminal
<1>10. ASSUME NEW r \in RunIds, SaveOutcome(r)
       PROVE  \/ Status(r) = "cancelled" /\ rows' = rows
              \/ Status(r) = "dispatching" /\ Wrote(r, "dispatched", rows[r].tree)
  BY <1>1, <1>10, WroteOne DEF SaveOutcome
<1>11. ASSUME NEW r \in RunIds, SaveEnd(r)
       PROVE  Wrote(r, IF Status(r) = "cancelled" THEN "cancelled" ELSE outcome[r], "settled")
  <2>1. outcome[r] \in Final
    BY <1>11 DEF TypeInv, OutcomeKnown, SaveEnd, At, Final
  <2>2. QED
    BY <1>1, <1>11, <2>1, WroteEnd DEF SaveEnd, SaveTerminal
<1>12. ASSUME NEW r \in RunIds, FinishCancelled(r)
       PROVE  Wrote(r, "cancelled", "settled")
  BY <1>1, <1>12, WroteEnd DEF FinishCancelled, SaveTerminal
<1>13. QED
  BY <1>3, <1>4, <1>5, <1>6, <1>7, <1>8, <1>9, <1>10, <1>11, <1>12

----------------------------------------------------------------------------
(***************************************************************************)
(* The inductive invariant.                                                *)
(***************************************************************************)
\* The status a row can have when its thread comes to a step.
StatusAt(step) ==
    {"cancelled", "gone"} \cup
    CASE step = "start" -> {"pending"}
      [] step \in {"prepare", "check", "launch", "watch", "saveOutcome"} -> {"dispatching"}
      [] step = "end" -> {"dispatched"}
      [] OTHER -> {}

\* Threads and terminals are the daemon's; an agent is watched until its
\* thread gives it up.
ThreadInv ==
    \A r \in RunIds :
        /\ exec[r] # "none" => up /\ Status(r) \in StatusAt(exec[r])
        /\ agent[r] \notin {"none", "left"} => exec[r] = "watch"
        /\ agent[r] = "left" =>
              /\ exec[r] \in {"none", "saveOutcome", "end", "finishCancelled"}
              /\ Status(r) # "absent"

\* Runs are made in the order of their numbers, and not while one is active.
NumberInv ==
    \A r, s \in RunIds :
        r < s /\ Status(r) \in Active \cup {"absent"} => Status(s) = "absent"

\* No run is left of an automation that has been deleted.
DeletedInv ==
    ~ auto.exists => ~ auto.enabled /\ \A r \in RunIds : Status(r) \in {"absent", "gone"}

EarlyInv ==
    \A r \in early :
        /\ Status(r) \in {"cancelled", "gone"}
        /\ exec[r] \in {"none", "start", "prepare", "check", "finishCancelled"}
        /\ agent[r] = "none"

\* A worktree is recorded as in use only from the end of the preparation on.
TreeInv ==
    \A r \in RunIds :
        /\ exec[r] \in {"start", "prepare"} => rows[r].tree # "live"
        /\ Status(r) \in Final /\ exec[r] = "none" /\ r \notin lost \cup cutShort
              => rows[r].tree # "live"

RunInv == TypeInv /\ ThreadInv /\ NumberInv /\ DeletedInv /\ EarlyInv /\ ActiveRunIsExecuted /\ TreeInv


\* Whatever becomes of a row, its thread can go on from it.
LEMMA ThreadsKept ==
    ASSUME RunInv, [Next]_vars
    PROVE  ThreadInv'
<1>1. ASSUME NEW enabled \in BOOLEAN, NEW review \in BOOLEAN, NEW s \in Schedules, UserUpdates(enabled, review, s)
     PROVE  ThreadInv'
  BY <1>1
     DEF RunInv, TypeInv, TypeOK, ThreadInv, UserUpdates, Status, ActiveRuns, StatusAt, Statuses, Active, Final, RunnerStatus, Rows, execVars, historyVars

<1>2. CASE UserDeletes
  BY <1>2
     DEF RunInv, TypeInv, TypeOK, ThreadInv, UserDeletes, Row, Recorded, Status, ActiveRuns, StatusAt, Statuses, Active, Final, RunnerStatus, Rows, execVars, historyVars

<1>3. CASE UserTriggers
  <2>1. Wrote(NewRun, "pending", "none")
    BY <1>3, RowEffects DEF RunInv
  <2>2. QED
    BY <1>3, <2>1, NewRunIsLeast
       DEF RunInv, TypeInv, TypeOK, ThreadInv, UserTriggers, Status, ActiveRuns, StatusAt, Statuses, Active, Final, RunnerStatus, Rows, execVars, historyVars, Wrote, SameOrPruned, Row

<1>4. ASSUME NEW r \in RunIds, UserCancels(r)
     PROVE  ThreadInv'
  <2>1. Wrote(r, "cancelled", rows[r].tree)
    BY <1>4, RowEffects DEF RunInv
  <2>2. /\ up /\ Status(r) \in Active
        /\ UNCHANGED <<auto, exec, agent, clock, up, lost, cutShort>>
        /\ early' = IF exec[r] \in {"start", "prepare", "check"} THEN early \cup {r} ELSE early
    BY <1>4 DEF UserCancels, execVars
  <2>3. QED
    BY <2>1, <2>2
       DEF RunInv, TypeInv, TypeOK, ThreadInv, Status, ActiveRuns, StatusAt, Statuses, Active, Final, RunnerStatus, Rows, Wrote, SameOrPruned, Row

<1>5. ASSUME NEW started \in BOOLEAN, SchedulerClaims(started)
     PROVE  ThreadInv'
  <2>1. Wrote(NewRun, IF Missed THEN "skipped_missed" ELSE "pending", "none")
    BY <1>5, RowEffects DEF RunInv
  <2>2. /\ up /\ auto.enabled /\ ActiveRuns = {}
        /\ NewRun \in RunIds /\ Status(NewRun) = "absent"
        /\ \A q \in RunIds : q < NewRun => Status(q) # "absent"
        /\ UNCHANGED <<agent, up, early, cutShort>>
        /\ auto'.exists = auto.exists /\ auto'.enabled = auto.enabled
        /\ \A q \in RunIds \ {NewRun} : exec'[q] = exec[q]
        /\ exec'[NewRun] = IF Missed \/ ~ started THEN exec[NewRun] ELSE "start"
        /\ lost' = IF started THEN lost ELSE lost \cup {NewRun}
    BY <1>5, NewRunIsLeast DEF SchedulerClaims, Due, RunInv, TypeInv, TypeOK
  <2>3. QED
    BY <2>1, <2>2
       DEF RunInv, TypeInv, TypeOK, ThreadInv, Status, ActiveRuns, StatusAt, Statuses, Active, Final, RunnerStatus, Rows, Wrote, SameOrPruned, Row

<1>6. CASE Tick
  BY <1>6
     DEF RunInv, TypeInv, TypeOK, ThreadInv, Tick, Status, ActiveRuns, StatusAt, Statuses, Active, Final, RunnerStatus, Rows, execVars, historyVars

<1>7. ASSUME NEW r \in RunIds, RowGone(r)
     PROVE  ThreadInv'
  BY <1>7
     DEF RunInv, TypeInv, TypeOK, ThreadInv, RowGone, At, Stop, executorKeeps, Recorded, Status, ActiveRuns, StatusAt, Statuses, Active, Final, RunnerStatus, Rows, execVars, historyVars

<1>8. ASSUME NEW r \in RunIds, ReviewStops(r)
     PROVE  ThreadInv'
  BY <1>8
     DEF RunInv, TypeInv, TypeOK, ThreadInv, ReviewStops, At, Stop, executorKeeps, Status, ActiveRuns, StatusAt, Statuses, Active, Final, RunnerStatus, Rows, execVars, historyVars

<1>9. ASSUME NEW r \in RunIds, Dispatch(r)
     PROVE  ThreadInv'
  <2>1. \/ Status(r) = "cancelled" /\ rows' = rows
        \/ Status(r) = "pending" /\ Wrote(r, "dispatching", rows[r].tree)
    BY <1>9, RowEffects DEF RunInv
  <2>2. QED
    BY <1>9, <2>1
       DEF RunInv, TypeInv, TypeOK, ThreadInv, Dispatch, At, Stop, Goto, executorKeeps, Status, ActiveRuns, StatusAt, Statuses, Active, Final, RunnerStatus, Rows, execVars, historyVars, Wrote, SameOrPruned, Row

<1>10. ASSUME NEW r \in RunIds, PrepareFails(r)
     PROVE  ThreadInv'
  <2>1. Wrote(r, IF Status(r) = "cancelled" THEN "cancelled" ELSE "skipped_precheck", rows[r].tree)
    BY <1>10, RowEffects DEF RunInv
  <2>2. QED
    BY <1>10, <2>1
       DEF RunInv, TypeInv, TypeOK, ThreadInv, PrepareFails, At, Stop, executorKeeps, Status, ActiveRuns, StatusAt, Statuses, Active, Final, RunnerStatus, Rows, execVars, historyVars, Wrote, SameOrPruned, Row

<1>11. ASSUME NEW r \in RunIds, NEW tree \in {"live", "settled"}, SaveWorktree(r, tree)
     PROVE  ThreadInv'
  <2>1. \/ Status(r) = "cancelled" /\ rows' = rows
        \/ Status(r) = "dispatching" /\ Wrote(r, "dispatching", tree)
    BY <1>11, RowEffects DEF RunInv
  <2>2. QED
    BY <1>11, <2>1
       DEF RunInv, TypeInv, TypeOK, ThreadInv, SaveWorktree, At, Goto, executorKeeps, Recorded, Status, ActiveRuns, StatusAt, Statuses, Active, Final, RunnerStatus, Rows, execVars, historyVars, Wrote, SameOrPruned, Row

<1>12. ASSUME NEW r \in RunIds, ChecksFail(r)
     PROVE  ThreadInv'
  <2>1. Wrote(r, IF Status(r) = "cancelled" THEN "cancelled" ELSE "skipped_precheck", "settled")
    BY <1>12, RowEffects DEF RunInv
  <2>2. QED
    BY <1>12, <2>1
       DEF RunInv, TypeInv, TypeOK, ThreadInv, ChecksFail, At, Stop, SaveTerminal, executorKeeps, Status, ActiveRuns, StatusAt, Statuses, Active, Final, RunnerStatus, Rows, execVars, historyVars, Wrote, SameOrPruned, Row

<1>13. ASSUME NEW r \in RunIds, SaveChecks(r)
     PROVE  ThreadInv'
  BY <1>13
     DEF RunInv, TypeInv, TypeOK, ThreadInv, SaveChecks, At, Goto, executorKeeps, Recorded, Status, ActiveRuns, StatusAt, Statuses, Active, Final, RunnerStatus, Rows, execVars, historyVars

<1>14. ASSUME NEW r \in RunIds, LaunchFails(r)
     PROVE  ThreadInv'
  BY <1>14
     DEF RunInv, TypeInv, TypeOK, ThreadInv, LaunchFails, At, Goto, executorKeeps, Status, ActiveRuns, StatusAt, Statuses, Active, Final, RunnerStatus, Rows, execVars, historyVars

<1>15. ASSUME NEW r \in RunIds, Launch(r)
     PROVE  ThreadInv'
  BY <1>15
     DEF RunInv, TypeInv, TypeOK, ThreadInv, Launch, At, Goto, executorKeeps, Status, ActiveRuns, StatusAt, Statuses, Active, Final, RunnerStatus, Rows, execVars, historyVars

<1>16. ASSUME NEW r \in RunIds, SeeExit(r)
     PROVE  ThreadInv'
  BY <1>16
     DEF RunInv, TypeInv, TypeOK, ThreadInv, SeeExit, At, Goto, executorKeeps, Status, ActiveRuns, StatusAt, Statuses, Active, Final, RunnerStatus, Rows, execVars, historyVars

<1>17. ASSUME NEW r \in RunIds, SeeCancelled(r)
     PROVE  ThreadInv'
  BY <1>17
     DEF RunInv, TypeInv, TypeOK, ThreadInv, SeeCancelled, Terminate, At, Goto, executorKeeps, Status, ActiveRuns, StatusAt, Statuses, Active, Final, RunnerStatus, Rows, execVars, historyVars

<1>18. ASSUME NEW r \in RunIds, TimeOut(r)
     PROVE  ThreadInv'
  BY <1>18
     DEF RunInv, TypeInv, TypeOK, ThreadInv, TimeOut, Terminate, At, Goto, executorKeeps, Status, ActiveRuns, StatusAt, Statuses, Active, Final, RunnerStatus, Rows, execVars, historyVars

<1>19. ASSUME NEW r \in RunIds, SaveOutcome(r)
     PROVE  ThreadInv'
  <2>1. \/ Status(r) = "cancelled" /\ rows' = rows
        \/ Status(r) = "dispatching" /\ Wrote(r, "dispatched", rows[r].tree)
    BY <1>19, RowEffects DEF RunInv
  <2>2. QED
    BY <1>19, <2>1
       DEF RunInv, TypeInv, TypeOK, ThreadInv, SaveOutcome, At, Goto, executorKeeps, Recorded, Status, ActiveRuns, StatusAt, Statuses, Active, Final, RunnerStatus, Rows, execVars, historyVars, Wrote, SameOrPruned, Row

<1>20. ASSUME NEW r \in RunIds, SaveEnd(r)
     PROVE  ThreadInv'
  <2>1. Wrote(r, IF Status(r) = "cancelled" THEN "cancelled" ELSE outcome[r], "settled")
    BY <1>20, RowEffects DEF RunInv
  <2>2. outcome[r] # "absent"
    BY <1>20, ExitAssumption DEF RunInv, TypeInv, TypeOK, RunnerStatus
  <2>3. QED
    BY <1>20, <2>1, <2>2
       DEF RunInv, TypeInv, TypeOK, ThreadInv, SaveEnd, At, Goto, Stop, SaveTerminal, executorKeeps, Status, ActiveRuns, StatusAt, Statuses, Active, Final, RunnerStatus, Rows, execVars, historyVars, Wrote, SameOrPruned, Row

<1>21. ASSUME NEW r \in RunIds, FinishCancelled(r)
     PROVE  ThreadInv'
  <2>1. Wrote(r, "cancelled", "settled")
    BY <1>21, RowEffects DEF RunInv
  <2>2. QED
    BY <1>21, <2>1
       DEF RunInv, TypeInv, TypeOK, ThreadInv, FinishCancelled, At, Stop, SaveTerminal, executorKeeps, Status, ActiveRuns, StatusAt, Statuses, Active, Final, RunnerStatus, Rows, execVars, historyVars, Wrote, SameOrPruned, Row

<1>22. ASSUME NEW r \in RunIds, NEW how \in {"exited", "closed"}, AgentEnds(r, how)
     PROVE  ThreadInv'
  BY <1>22
     DEF RunInv, TypeInv, TypeOK, ThreadInv, AgentEnds, executorKeeps, Status, ActiveRuns, StatusAt, Statuses, Active, Final, RunnerStatus, Rows, execVars, historyVars

<1>23. ASSUME NEW r \in RunIds, StoreFails(r)
     PROVE  ThreadInv'
  BY <1>23
     DEF RunInv, TypeInv, TypeOK, ThreadInv, StoreFails, Stop, Status, ActiveRuns, StatusAt, Statuses, Active, Final, RunnerStatus, Rows, execVars, historyVars

<1>24. CASE Crash
  BY <1>24
     DEF RunInv, TypeInv, TypeOK, ThreadInv, Crash, Status, ActiveRuns, StatusAt, Statuses, Active, Final, RunnerStatus, Rows, execVars, historyVars

<1>25. CASE Restart
  <2>1. ASSUME NEW r \in RunIds PROVE Status(r)' \in {Status(r), "dispatch_failed"}
    <3>1. rows \in Rows
      BY DEF RunInv, TypeInv, TypeOK
    <3>2. rows[r] \in [status : Statuses, tree : Dispositions]
      BY <3>1 DEF Rows
    <3>3. Failed(rows[r]).status = "dispatch_failed"
      BY <3>2 DEF Failed
    <3>4. rows'[r] = Failed(rows[r]) \/ rows'[r] = rows[r]
      BY <1>25 DEF Restart
    <3>5. QED
      BY <3>3, <3>4 DEF Status
  <2>2. exec' = exec /\ agent' = agent /\ ~ up
    BY <1>25 DEF Restart, execVars
  <2>3. QED
    BY <2>1, <2>2 DEF RunInv, ThreadInv

<1>26. CASE UNCHANGED vars
  BY <1>26 DEF RunInv, TypeInv, ThreadInv, vars, execVars, historyVars, Status, ActiveRuns

<1>27. QED
  BY <1>1, <1>2, <1>3, <1>4, <1>5, <1>6, <1>7, <1>8, <1>9, <1>10, <1>11, <1>12, <1>13, <1>14, <1>15, <1>16, <1>17, <1>18, <1>19, <1>20, <1>21, <1>22, <1>23, <1>24, <1>25, <1>26 DEF Next, Execute

\* Writing the row of a run that is there keeps the order, if it does not make
\* a run active again.
LEMMA NumbersKeptBy ==
    ASSUME NumberInv, NEW r \in RunIds, NEW status, NEW tree, Wrote(r, status, tree),
           Status(r) # "absent", status # "absent", status \in Active => Status(r) \in Active
    PROVE  NumberInv'
<1>1. \A q \in RunIds : (Status(q) = "absent" => Status(q)' = "absent")
                        /\ (Status(q)' \in Active \cup {"absent"} => Status(q) \in Active \cup {"absent"})
  BY ExitAssumption DEF Wrote, SameOrPruned, Row, Status, Active, Final, RunnerStatus
<1>2. QED
  BY <1>1 DEF NumberInv

\* So does a new run, while none is active.
LEMMA NumbersKeptByNew ==
    ASSUME NumberInv, RoomForRun, ActiveRuns = {}, NEW status, status # "absent",
           Wrote(NewRun, status, "none")
    PROVE  NumberInv'
<1>1. NewRun \in RunIds /\ \A q \in RunIds : q < NewRun => Status(q) # "absent"
  BY NewRunIsLeast
<1>2. \A q \in RunIds \ {NewRun} : (Status(q) = "absent" => Status(q)' = "absent")
                        /\ (Status(q)' \in Active \cup {"absent"} => Status(q) = "absent")
  BY ExitAssumption
     DEF ActiveRuns, Wrote, SameOrPruned, Row, Status, Active, Final, RunnerStatus
<1>3. rows'[NewRun].status # "absent"
  BY DEF Wrote, Row
<1>4. ASSUME NEW q \in RunIds, NEW s \in RunIds, q < s, Status(q)' \in Active \cup {"absent"}
      PROVE  Status(s)' = "absent"
  <2>1. Status(q) = "absent"
    BY <1>2, <1>4, NewRunIsLeast DEF Status
  <2>2. Status(s) = "absent"
    BY <1>4, <2>1 DEF NumberInv
  <2>3. s # NewRun
    BY <1>1, <1>4, <2>1
  <2>4. QED
    BY <1>2, <2>2, <2>3
<1>5. QED
  BY <1>4 DEF NumberInv


\* The newest run is the only one that can be active.
LEMMA NumbersKept ==
    ASSUME RunInv, [Next]_vars
    PROVE  NumberInv'
<1>1. ASSUME NEW enabled \in BOOLEAN, NEW review \in BOOLEAN, NEW s \in Schedules, UserUpdates(enabled, review, s)
     PROVE  NumberInv'
  BY <1>1
     DEF RunInv, TypeInv, TypeOK, NumberInv, UserUpdates, Status, ActiveRuns, StatusAt, Statuses, Active, Final, RunnerStatus, Rows, execVars, historyVars

<1>2. CASE UserDeletes
  BY <1>2
     DEF RunInv, TypeInv, TypeOK, NumberInv, UserDeletes, Row, Recorded, Status, ActiveRuns, StatusAt, Statuses, Active, Final, RunnerStatus, Rows, execVars, historyVars

<1>3. CASE UserTriggers
  <2>1. Wrote(NewRun, "pending", "none")
    BY <1>3, RowEffects DEF RunInv
  <2>2. RoomForRun /\ ActiveRuns = {}
    BY <1>3 DEF UserTriggers
  <2>3. QED
    BY <2>1, <2>2, NumbersKeptByNew DEF RunInv

<1>4. ASSUME NEW r \in RunIds, UserCancels(r)
     PROVE  NumberInv'
  <2>1. Wrote(r, "cancelled", rows[r].tree)
    BY <1>4, RowEffects DEF RunInv
  <2>2. Status(r) # "absent"
    BY <1>4 DEF UserCancels, Active
  <2>3. QED
    BY <2>1, <2>2, NumbersKeptBy DEF RunInv, NumberInv, Status, Active

<1>5. ASSUME NEW started \in BOOLEAN, SchedulerClaims(started)
     PROVE  NumberInv'
  <2>1. Wrote(NewRun, IF Missed THEN "skipped_missed" ELSE "pending", "none")
    BY <1>5, RowEffects DEF RunInv
  <2>2. RoomForRun /\ ActiveRuns = {}
    BY <1>5 DEF SchedulerClaims
  <2>3. QED
    BY <2>1, <2>2, NumbersKeptByNew DEF RunInv

<1>6. CASE Tick
  BY <1>6
     DEF RunInv, TypeInv, TypeOK, NumberInv, Tick, Status, ActiveRuns, StatusAt, Statuses, Active, Final, RunnerStatus, Rows, execVars, historyVars

<1>7. ASSUME NEW r \in RunIds, RowGone(r)
     PROVE  NumberInv'
  BY <1>7
     DEF RunInv, TypeInv, TypeOK, NumberInv, RowGone, At, Stop, executorKeeps, Recorded, Status, ActiveRuns, StatusAt, Statuses, Active, Final, RunnerStatus, Rows, execVars, historyVars

<1>8. ASSUME NEW r \in RunIds, ReviewStops(r)
     PROVE  NumberInv'
  BY <1>8
     DEF RunInv, TypeInv, TypeOK, NumberInv, ReviewStops, At, Stop, executorKeeps, Status, ActiveRuns, StatusAt, Statuses, Active, Final, RunnerStatus, Rows, execVars, historyVars

<1>9. ASSUME NEW r \in RunIds, Dispatch(r)
     PROVE  NumberInv'
  <2>1. \/ Status(r) = "cancelled" /\ rows' = rows
        \/ Status(r) = "pending" /\ Wrote(r, "dispatching", rows[r].tree)
    BY <1>9, RowEffects DEF RunInv
  <2>2. Status(r) # "absent"
    BY <1>9 DEF Dispatch, RunInv, ThreadInv, StatusAt, At
  <2>3. QED
    BY <2>1, <2>2, NumbersKeptBy DEF RunInv, NumberInv, Status, Active

<1>10. ASSUME NEW r \in RunIds, PrepareFails(r)
     PROVE  NumberInv'
  <2>1. Wrote(r, IF Status(r) = "cancelled" THEN "cancelled" ELSE "skipped_precheck", rows[r].tree)
    BY <1>10, RowEffects DEF RunInv
  <2>2. Status(r) # "absent"
    BY <1>10 DEF PrepareFails, RunInv, ThreadInv, StatusAt, At
  <2>3. QED
    BY <2>1, <2>2, NumbersKeptBy DEF RunInv, NumberInv, Status, Active

<1>11. ASSUME NEW r \in RunIds, NEW tree \in {"live", "settled"}, SaveWorktree(r, tree)
     PROVE  NumberInv'
  <2>1. \/ Status(r) = "cancelled" /\ rows' = rows
        \/ Status(r) = "dispatching" /\ Wrote(r, "dispatching", tree)
    BY <1>11, RowEffects DEF RunInv
  <2>2. Status(r) # "absent"
    BY <1>11 DEF SaveWorktree, RunInv, ThreadInv, StatusAt, At
  <2>3. QED
    BY <2>1, <2>2, NumbersKeptBy DEF RunInv, NumberInv, Status, Active

<1>12. ASSUME NEW r \in RunIds, ChecksFail(r)
     PROVE  NumberInv'
  <2>1. Wrote(r, IF Status(r) = "cancelled" THEN "cancelled" ELSE "skipped_precheck", "settled")
    BY <1>12, RowEffects DEF RunInv
  <2>2. Status(r) # "absent"
    BY <1>12 DEF ChecksFail, RunInv, ThreadInv, StatusAt, At
  <2>3. QED
    BY <2>1, <2>2, NumbersKeptBy DEF RunInv, NumberInv, Status, Active

<1>13. ASSUME NEW r \in RunIds, SaveChecks(r)
     PROVE  NumberInv'
  BY <1>13
     DEF RunInv, TypeInv, TypeOK, NumberInv, SaveChecks, At, Goto, executorKeeps, Recorded, Status, ActiveRuns, StatusAt, Statuses, Active, Final, RunnerStatus, Rows, execVars, historyVars

<1>14. ASSUME NEW r \in RunIds, LaunchFails(r)
     PROVE  NumberInv'
  BY <1>14
     DEF RunInv, TypeInv, TypeOK, NumberInv, LaunchFails, At, Goto, executorKeeps, Status, ActiveRuns, StatusAt, Statuses, Active, Final, RunnerStatus, Rows, execVars, historyVars

<1>15. ASSUME NEW r \in RunIds, Launch(r)
     PROVE  NumberInv'
  BY <1>15
     DEF RunInv, TypeInv, TypeOK, NumberInv, Launch, At, Goto, executorKeeps, Status, ActiveRuns, StatusAt, Statuses, Active, Final, RunnerStatus, Rows, execVars, historyVars

<1>16. ASSUME NEW r \in RunIds, SeeExit(r)
     PROVE  NumberInv'
  BY <1>16
     DEF RunInv, TypeInv, TypeOK, NumberInv, SeeExit, At, Goto, executorKeeps, Status, ActiveRuns, StatusAt, Statuses, Active, Final, RunnerStatus, Rows, execVars, historyVars

<1>17. ASSUME NEW r \in RunIds, SeeCancelled(r)
     PROVE  NumberInv'
  BY <1>17
     DEF RunInv, TypeInv, TypeOK, NumberInv, SeeCancelled, Terminate, At, Goto, executorKeeps, Status, ActiveRuns, StatusAt, Statuses, Active, Final, RunnerStatus, Rows, execVars, historyVars

<1>18. ASSUME NEW r \in RunIds, TimeOut(r)
     PROVE  NumberInv'
  BY <1>18
     DEF RunInv, TypeInv, TypeOK, NumberInv, TimeOut, Terminate, At, Goto, executorKeeps, Status, ActiveRuns, StatusAt, Statuses, Active, Final, RunnerStatus, Rows, execVars, historyVars

<1>19. ASSUME NEW r \in RunIds, SaveOutcome(r)
     PROVE  NumberInv'
  <2>1. \/ Status(r) = "cancelled" /\ rows' = rows
        \/ Status(r) = "dispatching" /\ Wrote(r, "dispatched", rows[r].tree)
    BY <1>19, RowEffects DEF RunInv
  <2>2. Status(r) # "absent"
    BY <1>19 DEF SaveOutcome, RunInv, ThreadInv, StatusAt, At
  <2>3. QED
    BY <2>1, <2>2, NumbersKeptBy DEF RunInv, NumberInv, Status, Active

<1>20. ASSUME NEW r \in RunIds, SaveEnd(r)
     PROVE  NumberInv'
  <2>1. Wrote(r, IF Status(r) = "cancelled" THEN "cancelled" ELSE outcome[r], "settled")
    BY <1>20, RowEffects DEF RunInv
  <2>2. Status(r) # "absent" /\ outcome[r] \notin Active \cup {"absent"}
    BY <1>20, ExitAssumption DEF SaveEnd, RunInv, ThreadInv, StatusAt, At, TypeInv, OutcomeKnown, RunnerStatus, Active
  <2>3. QED
    BY <2>1, <2>2, NumbersKeptBy DEF RunInv, Active

<1>21. ASSUME NEW r \in RunIds, FinishCancelled(r)
     PROVE  NumberInv'
  <2>1. Wrote(r, "cancelled", "settled")
    BY <1>21, RowEffects DEF RunInv
  <2>2. Status(r) # "absent"
    BY <1>21 DEF FinishCancelled, RunInv, ThreadInv, StatusAt, At
  <2>3. QED
    BY <2>1, <2>2, NumbersKeptBy DEF RunInv, NumberInv, Status, Active

<1>22. ASSUME NEW r \in RunIds, NEW how \in {"exited", "closed"}, AgentEnds(r, how)
     PROVE  NumberInv'
  BY <1>22
     DEF RunInv, TypeInv, TypeOK, NumberInv, AgentEnds, executorKeeps, Status, ActiveRuns, StatusAt, Statuses, Active, Final, RunnerStatus, Rows, execVars, historyVars

<1>23. ASSUME NEW r \in RunIds, StoreFails(r)
     PROVE  NumberInv'
  BY <1>23
     DEF RunInv, TypeInv, TypeOK, NumberInv, StoreFails, Stop, Status, ActiveRuns, StatusAt, Statuses, Active, Final, RunnerStatus, Rows, execVars, historyVars

<1>24. CASE Crash
  BY <1>24
     DEF RunInv, TypeInv, TypeOK, NumberInv, Crash, Status, ActiveRuns, StatusAt, Statuses, Active, Final, RunnerStatus, Rows, execVars, historyVars

<1>25. CASE Restart
  BY <1>25
     DEF RunInv, TypeInv, TypeOK, NumberInv, Restart, Failed, ActiveRuns, Status, StatusAt, Statuses, Active, Final, RunnerStatus, Rows, execVars, historyVars

<1>26. CASE UNCHANGED vars
  BY <1>26 DEF RunInv, TypeInv, NumberInv, vars, execVars, historyVars, Status, ActiveRuns

<1>27. QED
  BY <1>1, <1>2, <1>3, <1>4, <1>5, <1>6, <1>7, <1>8, <1>9, <1>10, <1>11, <1>12, <1>13, <1>14, <1>15, <1>16, <1>17, <1>18, <1>19, <1>20, <1>21, <1>22, <1>23, <1>24, <1>25, <1>26 DEF Next, Execute

\* Nothing brings a run of a deleted automation back.
LEMMA DeletedKept ==
    ASSUME RunInv, [Next]_vars
    PROVE  DeletedInv'
<1>1. ASSUME NEW enabled \in BOOLEAN, NEW review \in BOOLEAN, NEW s \in Schedules, UserUpdates(enabled, review, s)
     PROVE  DeletedInv'
  BY <1>1
     DEF RunInv, TypeInv, TypeOK, DeletedInv, UserUpdates, Status, ActiveRuns, StatusAt, Statuses, Active, Final, RunnerStatus, Rows, execVars, historyVars

<1>2. CASE UserDeletes
  BY <1>2
     DEF RunInv, TypeInv, TypeOK, DeletedInv, UserDeletes, Row, Recorded, Status, ActiveRuns, StatusAt, Statuses, Active, Final, RunnerStatus, Rows, execVars, historyVars

<1>3. CASE UserTriggers
  <2>1. Wrote(NewRun, "pending", "none")
    BY <1>3, RowEffects DEF RunInv
  <2>2. QED
    BY <1>3, <2>1, NewRunIsLeast
       DEF RunInv, TypeInv, TypeOK, DeletedInv, UserTriggers, Status, ActiveRuns, StatusAt, Statuses, Active, Final, RunnerStatus, Rows, execVars, historyVars, Wrote, SameOrPruned, Row

<1>4. ASSUME NEW r \in RunIds, UserCancels(r)
     PROVE  DeletedInv'
  <2>1. Wrote(r, "cancelled", rows[r].tree)
    BY <1>4, RowEffects DEF RunInv
  <2>2. /\ up /\ Status(r) \in Active
        /\ UNCHANGED <<auto, exec, agent, clock, up, lost, cutShort>>
        /\ early' = IF exec[r] \in {"start", "prepare", "check"} THEN early \cup {r} ELSE early
    BY <1>4 DEF UserCancels, execVars
  <2>3. QED
    BY <2>1, <2>2
       DEF RunInv, TypeInv, TypeOK, DeletedInv, Status, ActiveRuns, StatusAt, Statuses, Active, Final, RunnerStatus, Rows, Wrote, SameOrPruned, Row

<1>5. ASSUME NEW started \in BOOLEAN, SchedulerClaims(started)
     PROVE  DeletedInv'
  <2>1. Wrote(NewRun, IF Missed THEN "skipped_missed" ELSE "pending", "none")
    BY <1>5, RowEffects DEF RunInv
  <2>2. /\ up /\ auto.enabled /\ ActiveRuns = {}
        /\ NewRun \in RunIds /\ Status(NewRun) = "absent"
        /\ \A q \in RunIds : q < NewRun => Status(q) # "absent"
        /\ UNCHANGED <<agent, up, early, cutShort>>
        /\ auto'.exists = auto.exists /\ auto'.enabled = auto.enabled
        /\ \A q \in RunIds \ {NewRun} : exec'[q] = exec[q]
        /\ exec'[NewRun] = IF Missed \/ ~ started THEN exec[NewRun] ELSE "start"
        /\ lost' = IF started THEN lost ELSE lost \cup {NewRun}
    BY <1>5, NewRunIsLeast DEF SchedulerClaims, Due, RunInv, TypeInv, TypeOK
  <2>3. QED
    BY <2>1, <2>2
       DEF RunInv, TypeInv, TypeOK, DeletedInv, Status, ActiveRuns, StatusAt, Statuses, Active, Final, RunnerStatus, Rows, Wrote, SameOrPruned, Row

<1>6. CASE Tick
  BY <1>6
     DEF RunInv, TypeInv, TypeOK, DeletedInv, Tick, Status, ActiveRuns, StatusAt, Statuses, Active, Final, RunnerStatus, Rows, execVars, historyVars

<1>7. ASSUME NEW r \in RunIds, RowGone(r)
     PROVE  DeletedInv'
  BY <1>7
     DEF RunInv, TypeInv, TypeOK, DeletedInv, RowGone, At, Stop, executorKeeps, Recorded, Status, ActiveRuns, StatusAt, Statuses, Active, Final, RunnerStatus, Rows, execVars, historyVars

<1>8. ASSUME NEW r \in RunIds, ReviewStops(r)
     PROVE  DeletedInv'
  BY <1>8
     DEF RunInv, TypeInv, TypeOK, DeletedInv, ReviewStops, At, Stop, executorKeeps, Status, ActiveRuns, StatusAt, Statuses, Active, Final, RunnerStatus, Rows, execVars, historyVars

<1>9. ASSUME NEW r \in RunIds, Dispatch(r)
     PROVE  DeletedInv'
  <2>1. \/ Status(r) = "cancelled" /\ rows' = rows
        \/ Status(r) = "pending" /\ Wrote(r, "dispatching", rows[r].tree)
    BY <1>9, RowEffects DEF RunInv
  <2>2. QED
    BY <1>9, <2>1
       DEF RunInv, TypeInv, TypeOK, DeletedInv, Dispatch, At, Stop, Goto, executorKeeps, Status, ActiveRuns, StatusAt, Statuses, Active, Final, RunnerStatus, Rows, execVars, historyVars, Wrote, SameOrPruned, Row

<1>10. ASSUME NEW r \in RunIds, PrepareFails(r)
     PROVE  DeletedInv'
  <2>1. Wrote(r, IF Status(r) = "cancelled" THEN "cancelled" ELSE "skipped_precheck", rows[r].tree)
    BY <1>10, RowEffects DEF RunInv
  <2>2. QED
    BY <1>10, <2>1
       DEF RunInv, TypeInv, TypeOK, DeletedInv, PrepareFails, At, Stop, executorKeeps, Status, ActiveRuns, StatusAt, Statuses, Active, Final, RunnerStatus, Rows, execVars, historyVars, Wrote, SameOrPruned, Row

<1>11. ASSUME NEW r \in RunIds, NEW tree \in {"live", "settled"}, SaveWorktree(r, tree)
     PROVE  DeletedInv'
  <2>1. \/ Status(r) = "cancelled" /\ rows' = rows
        \/ Status(r) = "dispatching" /\ Wrote(r, "dispatching", tree)
    BY <1>11, RowEffects DEF RunInv
  <2>2. QED
    BY <1>11, <2>1
       DEF RunInv, TypeInv, TypeOK, DeletedInv, SaveWorktree, At, Goto, executorKeeps, Recorded, Status, ActiveRuns, StatusAt, Statuses, Active, Final, RunnerStatus, Rows, execVars, historyVars, Wrote, SameOrPruned, Row

<1>12. ASSUME NEW r \in RunIds, ChecksFail(r)
     PROVE  DeletedInv'
  <2>1. Wrote(r, IF Status(r) = "cancelled" THEN "cancelled" ELSE "skipped_precheck", "settled")
    BY <1>12, RowEffects DEF RunInv
  <2>2. QED
    BY <1>12, <2>1
       DEF RunInv, TypeInv, TypeOK, DeletedInv, ChecksFail, At, Stop, SaveTerminal, executorKeeps, Status, ActiveRuns, StatusAt, Statuses, Active, Final, RunnerStatus, Rows, execVars, historyVars, Wrote, SameOrPruned, Row

<1>13. ASSUME NEW r \in RunIds, SaveChecks(r)
     PROVE  DeletedInv'
  BY <1>13
     DEF RunInv, TypeInv, TypeOK, DeletedInv, SaveChecks, At, Goto, executorKeeps, Recorded, Status, ActiveRuns, StatusAt, Statuses, Active, Final, RunnerStatus, Rows, execVars, historyVars

<1>14. ASSUME NEW r \in RunIds, LaunchFails(r)
     PROVE  DeletedInv'
  BY <1>14
     DEF RunInv, TypeInv, TypeOK, DeletedInv, LaunchFails, At, Goto, executorKeeps, Status, ActiveRuns, StatusAt, Statuses, Active, Final, RunnerStatus, Rows, execVars, historyVars

<1>15. ASSUME NEW r \in RunIds, Launch(r)
     PROVE  DeletedInv'
  BY <1>15
     DEF RunInv, TypeInv, TypeOK, DeletedInv, Launch, At, Goto, executorKeeps, Status, ActiveRuns, StatusAt, Statuses, Active, Final, RunnerStatus, Rows, execVars, historyVars

<1>16. ASSUME NEW r \in RunIds, SeeExit(r)
     PROVE  DeletedInv'
  BY <1>16
     DEF RunInv, TypeInv, TypeOK, DeletedInv, SeeExit, At, Goto, executorKeeps, Status, ActiveRuns, StatusAt, Statuses, Active, Final, RunnerStatus, Rows, execVars, historyVars

<1>17. ASSUME NEW r \in RunIds, SeeCancelled(r)
     PROVE  DeletedInv'
  BY <1>17
     DEF RunInv, TypeInv, TypeOK, DeletedInv, SeeCancelled, Terminate, At, Goto, executorKeeps, Status, ActiveRuns, StatusAt, Statuses, Active, Final, RunnerStatus, Rows, execVars, historyVars

<1>18. ASSUME NEW r \in RunIds, TimeOut(r)
     PROVE  DeletedInv'
  BY <1>18
     DEF RunInv, TypeInv, TypeOK, DeletedInv, TimeOut, Terminate, At, Goto, executorKeeps, Status, ActiveRuns, StatusAt, Statuses, Active, Final, RunnerStatus, Rows, execVars, historyVars

<1>19. ASSUME NEW r \in RunIds, SaveOutcome(r)
     PROVE  DeletedInv'
  <2>1. \/ Status(r) = "cancelled" /\ rows' = rows
        \/ Status(r) = "dispatching" /\ Wrote(r, "dispatched", rows[r].tree)
    BY <1>19, RowEffects DEF RunInv
  <2>2. QED
    BY <1>19, <2>1
       DEF RunInv, TypeInv, TypeOK, DeletedInv, SaveOutcome, At, Goto, executorKeeps, Recorded, Status, ActiveRuns, StatusAt, Statuses, Active, Final, RunnerStatus, Rows, execVars, historyVars, Wrote, SameOrPruned, Row

<1>20. ASSUME NEW r \in RunIds, SaveEnd(r)
     PROVE  DeletedInv'
  <2>1. Wrote(r, IF Status(r) = "cancelled" THEN "cancelled" ELSE outcome[r], "settled")
    BY <1>20, RowEffects DEF RunInv
  <2>2. QED
    BY <1>20, <2>1
       DEF RunInv, TypeInv, TypeOK, DeletedInv, SaveEnd, At, Goto, Stop, SaveTerminal, executorKeeps, Status, ActiveRuns, StatusAt, Statuses, Active, Final, RunnerStatus, Rows, execVars, historyVars, Wrote, SameOrPruned, Row

<1>21. ASSUME NEW r \in RunIds, FinishCancelled(r)
     PROVE  DeletedInv'
  <2>1. Wrote(r, "cancelled", "settled")
    BY <1>21, RowEffects DEF RunInv
  <2>2. QED
    BY <1>21, <2>1
       DEF RunInv, TypeInv, TypeOK, DeletedInv, FinishCancelled, At, Stop, SaveTerminal, executorKeeps, Status, ActiveRuns, StatusAt, Statuses, Active, Final, RunnerStatus, Rows, execVars, historyVars, Wrote, SameOrPruned, Row

<1>22. ASSUME NEW r \in RunIds, NEW how \in {"exited", "closed"}, AgentEnds(r, how)
     PROVE  DeletedInv'
  BY <1>22
     DEF RunInv, TypeInv, TypeOK, DeletedInv, AgentEnds, executorKeeps, Status, ActiveRuns, StatusAt, Statuses, Active, Final, RunnerStatus, Rows, execVars, historyVars

<1>23. ASSUME NEW r \in RunIds, StoreFails(r)
     PROVE  DeletedInv'
  BY <1>23
     DEF RunInv, TypeInv, TypeOK, DeletedInv, StoreFails, Stop, Status, ActiveRuns, StatusAt, Statuses, Active, Final, RunnerStatus, Rows, execVars, historyVars

<1>24. CASE Crash
  BY <1>24
     DEF RunInv, TypeInv, TypeOK, DeletedInv, Crash, Status, ActiveRuns, StatusAt, Statuses, Active, Final, RunnerStatus, Rows, execVars, historyVars

<1>25. CASE Restart
  BY <1>25
     DEF RunInv, TypeInv, TypeOK, DeletedInv, Restart, Failed, ActiveRuns, Status, StatusAt, Statuses, Active, Final, RunnerStatus, Rows, execVars, historyVars

<1>26. CASE UNCHANGED vars
  BY <1>26 DEF RunInv, TypeInv, DeletedInv, vars, execVars, historyVars, Status, ActiveRuns

<1>27. QED
  BY <1>1, <1>2, <1>3, <1>4, <1>5, <1>6, <1>7, <1>8, <1>9, <1>10, <1>11, <1>12, <1>13, <1>14, <1>15, <1>16, <1>17, <1>18, <1>19, <1>20, <1>21, <1>22, <1>23, <1>24, <1>25, <1>26 DEF Next, Execute

\* A run cancelled early goes from its step to its end.
LEMMA EarlyKept ==
    ASSUME RunInv, [Next]_vars
    PROVE  EarlyInv'
<1>1. ASSUME NEW enabled \in BOOLEAN, NEW review \in BOOLEAN, NEW s \in Schedules, UserUpdates(enabled, review, s)
     PROVE  EarlyInv'
  BY <1>1
     DEF RunInv, TypeInv, TypeOK, EarlyInv, ThreadInv, UserUpdates, Status, ActiveRuns, StatusAt, Statuses, Active, Final, RunnerStatus, Rows, execVars, historyVars

<1>2. CASE UserDeletes
  BY <1>2
     DEF RunInv, TypeInv, TypeOK, EarlyInv, ThreadInv, UserDeletes, Row, Recorded, Status, ActiveRuns, StatusAt, Statuses, Active, Final, RunnerStatus, Rows, execVars, historyVars

<1>3. CASE UserTriggers
  <2>1. Wrote(NewRun, "pending", "none")
    BY <1>3, RowEffects DEF RunInv
  <2>2. QED
    BY <1>3, <2>1, NewRunIsLeast
       DEF RunInv, TypeInv, TypeOK, EarlyInv, ThreadInv, UserTriggers, Status, ActiveRuns, StatusAt, Statuses, Active, Final, RunnerStatus, Rows, execVars, historyVars, Wrote, SameOrPruned, Row

<1>4. ASSUME NEW r \in RunIds, UserCancels(r)
     PROVE  EarlyInv'
  <2>1. Wrote(r, "cancelled", rows[r].tree)
    BY <1>4, RowEffects DEF RunInv
  <2>2. /\ up /\ Status(r) \in Active
        /\ UNCHANGED <<auto, exec, agent, clock, up, lost, cutShort>>
        /\ early' = IF exec[r] \in {"start", "prepare", "check"} THEN early \cup {r} ELSE early
    BY <1>4 DEF UserCancels, execVars
  <2>3. QED
    BY <2>1, <2>2
       DEF RunInv, TypeInv, TypeOK, EarlyInv, ThreadInv, Status, ActiveRuns, StatusAt, Statuses, Active, Final, RunnerStatus, Rows, Wrote, SameOrPruned, Row

<1>5. ASSUME NEW started \in BOOLEAN, SchedulerClaims(started)
     PROVE  EarlyInv'
  <2>1. Wrote(NewRun, IF Missed THEN "skipped_missed" ELSE "pending", "none")
    BY <1>5, RowEffects DEF RunInv
  <2>2. /\ up /\ auto.enabled /\ ActiveRuns = {}
        /\ NewRun \in RunIds /\ Status(NewRun) = "absent"
        /\ \A q \in RunIds : q < NewRun => Status(q) # "absent"
        /\ UNCHANGED <<agent, up, early, cutShort>>
        /\ auto'.exists = auto.exists /\ auto'.enabled = auto.enabled
        /\ \A q \in RunIds \ {NewRun} : exec'[q] = exec[q]
        /\ exec'[NewRun] = IF Missed \/ ~ started THEN exec[NewRun] ELSE "start"
        /\ lost' = IF started THEN lost ELSE lost \cup {NewRun}
    BY <1>5, NewRunIsLeast DEF SchedulerClaims, Due, RunInv, TypeInv, TypeOK
  <2>3. QED
    BY <2>1, <2>2
       DEF RunInv, TypeInv, TypeOK, EarlyInv, ThreadInv, Status, ActiveRuns, StatusAt, Statuses, Active, Final, RunnerStatus, Rows, Wrote, SameOrPruned, Row

<1>6. CASE Tick
  BY <1>6
     DEF RunInv, TypeInv, TypeOK, EarlyInv, ThreadInv, Tick, Status, ActiveRuns, StatusAt, Statuses, Active, Final, RunnerStatus, Rows, execVars, historyVars

<1>7. ASSUME NEW r \in RunIds, RowGone(r)
     PROVE  EarlyInv'
  BY <1>7
     DEF RunInv, TypeInv, TypeOK, EarlyInv, ThreadInv, RowGone, At, Stop, executorKeeps, Recorded, Status, ActiveRuns, StatusAt, Statuses, Active, Final, RunnerStatus, Rows, execVars, historyVars

<1>8. ASSUME NEW r \in RunIds, ReviewStops(r)
     PROVE  EarlyInv'
  BY <1>8
     DEF RunInv, TypeInv, TypeOK, EarlyInv, ThreadInv, ReviewStops, At, Stop, executorKeeps, Status, ActiveRuns, StatusAt, Statuses, Active, Final, RunnerStatus, Rows, execVars, historyVars

<1>9. ASSUME NEW r \in RunIds, Dispatch(r)
     PROVE  EarlyInv'
  <2>1. \/ Status(r) = "cancelled" /\ rows' = rows
        \/ Status(r) = "pending" /\ Wrote(r, "dispatching", rows[r].tree)
    BY <1>9, RowEffects DEF RunInv
  <2>2. QED
    BY <1>9, <2>1
       DEF RunInv, TypeInv, TypeOK, EarlyInv, ThreadInv, Dispatch, At, Stop, Goto, executorKeeps, Status, ActiveRuns, StatusAt, Statuses, Active, Final, RunnerStatus, Rows, execVars, historyVars, Wrote, SameOrPruned, Row

<1>10. ASSUME NEW r \in RunIds, PrepareFails(r)
     PROVE  EarlyInv'
  <2>1. Wrote(r, IF Status(r) = "cancelled" THEN "cancelled" ELSE "skipped_precheck", rows[r].tree)
    BY <1>10, RowEffects DEF RunInv
  <2>2. QED
    BY <1>10, <2>1
       DEF RunInv, TypeInv, TypeOK, EarlyInv, ThreadInv, PrepareFails, At, Stop, executorKeeps, Status, ActiveRuns, StatusAt, Statuses, Active, Final, RunnerStatus, Rows, execVars, historyVars, Wrote, SameOrPruned, Row

<1>11. ASSUME NEW r \in RunIds, NEW tree \in {"live", "settled"}, SaveWorktree(r, tree)
     PROVE  EarlyInv'
  <2>1. \/ Status(r) = "cancelled" /\ rows' = rows
        \/ Status(r) = "dispatching" /\ Wrote(r, "dispatching", tree)
    BY <1>11, RowEffects DEF RunInv
  <2>2. /\ exec[r] = "prepare" /\ early' = early
        /\ exec' \in {[exec EXCEPT ![r] = "finishCancelled"], [exec EXCEPT ![r] = "check"]}
    BY <1>11 DEF SaveWorktree, At, Goto, executorKeeps
  <2>3. \A q \in RunIds : exec'[q] = exec[q] \/ (q = r /\ exec'[q] \in {"check", "finishCancelled"})
    BY <2>2 DEF RunInv, TypeInv, TypeOK
  <2>4. \A q \in early : q \in RunIds /\ Status(q)' \in {"cancelled", "gone"}
    BY <2>1 DEF RunInv, TypeInv, TypeOK, EarlyInv, Wrote, SameOrPruned, Row, Status
  <2>5. agent' = agent
    BY <1>11 DEF SaveWorktree
  <2>6. QED
    BY <2>2, <2>3, <2>4, <2>5 DEF RunInv, EarlyInv

<1>12. ASSUME NEW r \in RunIds, ChecksFail(r)
     PROVE  EarlyInv'
  <2>1. Wrote(r, IF Status(r) = "cancelled" THEN "cancelled" ELSE "skipped_precheck", "settled")
    BY <1>12, RowEffects DEF RunInv
  <2>2. QED
    BY <1>12, <2>1
       DEF RunInv, TypeInv, TypeOK, EarlyInv, ThreadInv, ChecksFail, At, Stop, SaveTerminal, executorKeeps, Status, ActiveRuns, StatusAt, Statuses, Active, Final, RunnerStatus, Rows, execVars, historyVars, Wrote, SameOrPruned, Row

<1>13. ASSUME NEW r \in RunIds, SaveChecks(r)
     PROVE  EarlyInv'
  BY <1>13
     DEF RunInv, TypeInv, TypeOK, EarlyInv, ThreadInv, SaveChecks, At, Goto, executorKeeps, Recorded, Status, ActiveRuns, StatusAt, Statuses, Active, Final, RunnerStatus, Rows, execVars, historyVars

<1>14. ASSUME NEW r \in RunIds, LaunchFails(r)
     PROVE  EarlyInv'
  BY <1>14
     DEF RunInv, TypeInv, TypeOK, EarlyInv, ThreadInv, LaunchFails, At, Goto, executorKeeps, Status, ActiveRuns, StatusAt, Statuses, Active, Final, RunnerStatus, Rows, execVars, historyVars

<1>15. ASSUME NEW r \in RunIds, Launch(r)
     PROVE  EarlyInv'
  BY <1>15
     DEF RunInv, TypeInv, TypeOK, EarlyInv, ThreadInv, Launch, At, Goto, executorKeeps, Status, ActiveRuns, StatusAt, Statuses, Active, Final, RunnerStatus, Rows, execVars, historyVars

<1>16. ASSUME NEW r \in RunIds, SeeExit(r)
     PROVE  EarlyInv'
  BY <1>16
     DEF RunInv, TypeInv, TypeOK, EarlyInv, ThreadInv, SeeExit, At, Goto, executorKeeps, Status, ActiveRuns, StatusAt, Statuses, Active, Final, RunnerStatus, Rows, execVars, historyVars

<1>17. ASSUME NEW r \in RunIds, SeeCancelled(r)
     PROVE  EarlyInv'
  BY <1>17
     DEF RunInv, TypeInv, TypeOK, EarlyInv, ThreadInv, SeeCancelled, Terminate, At, Goto, executorKeeps, Status, ActiveRuns, StatusAt, Statuses, Active, Final, RunnerStatus, Rows, execVars, historyVars

<1>18. ASSUME NEW r \in RunIds, TimeOut(r)
     PROVE  EarlyInv'
  BY <1>18
     DEF RunInv, TypeInv, TypeOK, EarlyInv, ThreadInv, TimeOut, Terminate, At, Goto, executorKeeps, Status, ActiveRuns, StatusAt, Statuses, Active, Final, RunnerStatus, Rows, execVars, historyVars

<1>19. ASSUME NEW r \in RunIds, SaveOutcome(r)
     PROVE  EarlyInv'
  <2>1. \/ Status(r) = "cancelled" /\ rows' = rows
        \/ Status(r) = "dispatching" /\ Wrote(r, "dispatched", rows[r].tree)
    BY <1>19, RowEffects DEF RunInv
  <2>2. QED
    BY <1>19, <2>1
       DEF RunInv, TypeInv, TypeOK, EarlyInv, ThreadInv, SaveOutcome, At, Goto, executorKeeps, Recorded, Status, ActiveRuns, StatusAt, Statuses, Active, Final, RunnerStatus, Rows, execVars, historyVars, Wrote, SameOrPruned, Row

<1>20. ASSUME NEW r \in RunIds, SaveEnd(r)
     PROVE  EarlyInv'
  <2>1. Wrote(r, IF Status(r) = "cancelled" THEN "cancelled" ELSE outcome[r], "settled")
    BY <1>20, RowEffects DEF RunInv
  <2>2. QED
    BY <1>20, <2>1
       DEF RunInv, TypeInv, TypeOK, EarlyInv, ThreadInv, SaveEnd, At, Goto, Stop, SaveTerminal, executorKeeps, Status, ActiveRuns, StatusAt, Statuses, Active, Final, RunnerStatus, Rows, execVars, historyVars, Wrote, SameOrPruned, Row

<1>21. ASSUME NEW r \in RunIds, FinishCancelled(r)
     PROVE  EarlyInv'
  <2>1. Wrote(r, "cancelled", "settled")
    BY <1>21, RowEffects DEF RunInv
  <2>2. QED
    BY <1>21, <2>1
       DEF RunInv, TypeInv, TypeOK, EarlyInv, ThreadInv, FinishCancelled, At, Stop, SaveTerminal, executorKeeps, Status, ActiveRuns, StatusAt, Statuses, Active, Final, RunnerStatus, Rows, execVars, historyVars, Wrote, SameOrPruned, Row

<1>22. ASSUME NEW r \in RunIds, NEW how \in {"exited", "closed"}, AgentEnds(r, how)
     PROVE  EarlyInv'
  BY <1>22
     DEF RunInv, TypeInv, TypeOK, EarlyInv, ThreadInv, AgentEnds, executorKeeps, Status, ActiveRuns, StatusAt, Statuses, Active, Final, RunnerStatus, Rows, execVars, historyVars

<1>23. ASSUME NEW r \in RunIds, StoreFails(r)
     PROVE  EarlyInv'
  BY <1>23
     DEF RunInv, TypeInv, TypeOK, EarlyInv, ThreadInv, StoreFails, Stop, Status, ActiveRuns, StatusAt, Statuses, Active, Final, RunnerStatus, Rows, execVars, historyVars

<1>24. CASE Crash
  BY <1>24
     DEF RunInv, TypeInv, TypeOK, EarlyInv, ThreadInv, Crash, Status, ActiveRuns, StatusAt, Statuses, Active, Final, RunnerStatus, Rows, execVars, historyVars

<1>25. CASE Restart
  BY <1>25
     DEF RunInv, TypeInv, TypeOK, EarlyInv, ThreadInv, Restart, Failed, ActiveRuns, Status, StatusAt, Statuses, Active, Final, RunnerStatus, Rows, execVars, historyVars

<1>26. CASE UNCHANGED vars
  BY <1>26 DEF RunInv, TypeInv, EarlyInv, ThreadInv, vars, execVars, historyVars, Status, ActiveRuns

<1>27. QED
  BY <1>1, <1>2, <1>3, <1>4, <1>5, <1>6, <1>7, <1>8, <1>9, <1>10, <1>11, <1>12, <1>13, <1>14, <1>15, <1>16, <1>17, <1>18, <1>19, <1>20, <1>21, <1>22, <1>23, <1>24, <1>25, <1>26 DEF Next, Execute

\* A thread does not leave an active run behind.
LEMMA ActiveKept ==
    ASSUME RunInv, [Next]_vars
    PROVE  ActiveRunIsExecuted'
<1>1. ASSUME NEW enabled \in BOOLEAN, NEW review \in BOOLEAN, NEW s \in Schedules, UserUpdates(enabled, review, s)
     PROVE  ActiveRunIsExecuted'
  BY <1>1
     DEF RunInv, TypeInv, TypeOK, ActiveRunIsExecuted, ThreadInv, DeletedInv, UserUpdates, Status, ActiveRuns, StatusAt, Statuses, Active, Final, RunnerStatus, Rows, execVars, historyVars

<1>2. CASE UserDeletes
  BY <1>2
     DEF RunInv, TypeInv, TypeOK, ActiveRunIsExecuted, ThreadInv, DeletedInv, UserDeletes, Row, Recorded, Status, ActiveRuns, StatusAt, Statuses, Active, Final, RunnerStatus, Rows, execVars, historyVars

<1>3. CASE UserTriggers
  <2>1. Wrote(NewRun, "pending", "none")
    BY <1>3, RowEffects DEF RunInv
  <2>2. QED
    BY <1>3, <2>1, NewRunIsLeast
       DEF RunInv, TypeInv, TypeOK, ActiveRunIsExecuted, ThreadInv, DeletedInv, UserTriggers, Status, ActiveRuns, StatusAt, Statuses, Active, Final, RunnerStatus, Rows, execVars, historyVars, Wrote, SameOrPruned, Row

<1>4. ASSUME NEW r \in RunIds, UserCancels(r)
     PROVE  ActiveRunIsExecuted'
  <2>1. Wrote(r, "cancelled", rows[r].tree)
    BY <1>4, RowEffects DEF RunInv
  <2>2. /\ up /\ Status(r) \in Active
        /\ UNCHANGED <<auto, exec, agent, clock, up, lost, cutShort>>
        /\ early' = IF exec[r] \in {"start", "prepare", "check"} THEN early \cup {r} ELSE early
    BY <1>4 DEF UserCancels, execVars
  <2>3. QED
    BY <2>1, <2>2
       DEF RunInv, TypeInv, TypeOK, ActiveRunIsExecuted, ThreadInv, DeletedInv, Status, ActiveRuns, StatusAt, Statuses, Active, Final, RunnerStatus, Rows, Wrote, SameOrPruned, Row

<1>5. ASSUME NEW started \in BOOLEAN, SchedulerClaims(started)
     PROVE  ActiveRunIsExecuted'
  <2>1. Wrote(NewRun, IF Missed THEN "skipped_missed" ELSE "pending", "none")
    BY <1>5, RowEffects DEF RunInv
  <2>2. /\ up /\ auto.enabled /\ ActiveRuns = {}
        /\ NewRun \in RunIds /\ Status(NewRun) = "absent"
        /\ \A q \in RunIds : q < NewRun => Status(q) # "absent"
        /\ UNCHANGED <<agent, up, early, cutShort>>
        /\ auto'.exists = auto.exists /\ auto'.enabled = auto.enabled
        /\ \A q \in RunIds \ {NewRun} : exec'[q] = exec[q]
        /\ exec'[NewRun] = IF Missed \/ ~ started THEN exec[NewRun] ELSE "start"
        /\ lost' = IF started THEN lost ELSE lost \cup {NewRun}
    BY <1>5, NewRunIsLeast DEF SchedulerClaims, Due, RunInv, TypeInv, TypeOK
  <2>3. QED
    BY <2>1, <2>2
       DEF RunInv, TypeInv, TypeOK, ActiveRunIsExecuted, ThreadInv, DeletedInv, Status, ActiveRuns, StatusAt, Statuses, Active, Final, RunnerStatus, Rows, Wrote, SameOrPruned, Row

<1>6. CASE Tick
  BY <1>6
     DEF RunInv, TypeInv, TypeOK, ActiveRunIsExecuted, ThreadInv, DeletedInv, Tick, Status, ActiveRuns, StatusAt, Statuses, Active, Final, RunnerStatus, Rows, execVars, historyVars

<1>7. ASSUME NEW r \in RunIds, RowGone(r)
     PROVE  ActiveRunIsExecuted'
  BY <1>7
     DEF RunInv, TypeInv, TypeOK, ActiveRunIsExecuted, ThreadInv, DeletedInv, RowGone, At, Stop, executorKeeps, Recorded, Status, ActiveRuns, StatusAt, Statuses, Active, Final, RunnerStatus, Rows, execVars, historyVars

<1>8. ASSUME NEW r \in RunIds, ReviewStops(r)
     PROVE  ActiveRunIsExecuted'
  BY <1>8
     DEF RunInv, TypeInv, TypeOK, ActiveRunIsExecuted, ThreadInv, DeletedInv, ReviewStops, At, Stop, executorKeeps, Status, ActiveRuns, StatusAt, Statuses, Active, Final, RunnerStatus, Rows, execVars, historyVars

<1>9. ASSUME NEW r \in RunIds, Dispatch(r)
     PROVE  ActiveRunIsExecuted'
  <2>1. \/ Status(r) = "cancelled" /\ rows' = rows
        \/ Status(r) = "pending" /\ Wrote(r, "dispatching", rows[r].tree)
    BY <1>9, RowEffects DEF RunInv
  <2>2. QED
    BY <1>9, <2>1
       DEF RunInv, TypeInv, TypeOK, ActiveRunIsExecuted, ThreadInv, DeletedInv, Dispatch, At, Stop, Goto, executorKeeps, Status, ActiveRuns, StatusAt, Statuses, Active, Final, RunnerStatus, Rows, execVars, historyVars, Wrote, SameOrPruned, Row

<1>10. ASSUME NEW r \in RunIds, PrepareFails(r)
     PROVE  ActiveRunIsExecuted'
  <2>1. Wrote(r, IF Status(r) = "cancelled" THEN "cancelled" ELSE "skipped_precheck", rows[r].tree)
    BY <1>10, RowEffects DEF RunInv
  <2>2. QED
    BY <1>10, <2>1
       DEF RunInv, TypeInv, TypeOK, ActiveRunIsExecuted, ThreadInv, DeletedInv, PrepareFails, At, Stop, executorKeeps, Status, ActiveRuns, StatusAt, Statuses, Active, Final, RunnerStatus, Rows, execVars, historyVars, Wrote, SameOrPruned, Row

<1>11. ASSUME NEW r \in RunIds, NEW tree \in {"live", "settled"}, SaveWorktree(r, tree)
     PROVE  ActiveRunIsExecuted'
  <2>1. \/ Status(r) = "cancelled" /\ rows' = rows
        \/ Status(r) = "dispatching" /\ Wrote(r, "dispatching", tree)
    BY <1>11, RowEffects DEF RunInv
  <2>2. QED
    BY <1>11, <2>1
       DEF RunInv, TypeInv, TypeOK, ActiveRunIsExecuted, ThreadInv, DeletedInv, SaveWorktree, At, Goto, executorKeeps, Recorded, Status, ActiveRuns, StatusAt, Statuses, Active, Final, RunnerStatus, Rows, execVars, historyVars, Wrote, SameOrPruned, Row

<1>12. ASSUME NEW r \in RunIds, ChecksFail(r)
     PROVE  ActiveRunIsExecuted'
  <2>1. Wrote(r, IF Status(r) = "cancelled" THEN "cancelled" ELSE "skipped_precheck", "settled")
    BY <1>12, RowEffects DEF RunInv
  <2>2. QED
    BY <1>12, <2>1
       DEF RunInv, TypeInv, TypeOK, ActiveRunIsExecuted, ThreadInv, DeletedInv, ChecksFail, At, Stop, SaveTerminal, executorKeeps, Status, ActiveRuns, StatusAt, Statuses, Active, Final, RunnerStatus, Rows, execVars, historyVars, Wrote, SameOrPruned, Row

<1>13. ASSUME NEW r \in RunIds, SaveChecks(r)
     PROVE  ActiveRunIsExecuted'
  BY <1>13
     DEF RunInv, TypeInv, TypeOK, ActiveRunIsExecuted, ThreadInv, DeletedInv, SaveChecks, At, Goto, executorKeeps, Recorded, Status, ActiveRuns, StatusAt, Statuses, Active, Final, RunnerStatus, Rows, execVars, historyVars

<1>14. ASSUME NEW r \in RunIds, LaunchFails(r)
     PROVE  ActiveRunIsExecuted'
  BY <1>14
     DEF RunInv, TypeInv, TypeOK, ActiveRunIsExecuted, ThreadInv, DeletedInv, LaunchFails, At, Goto, executorKeeps, Status, ActiveRuns, StatusAt, Statuses, Active, Final, RunnerStatus, Rows, execVars, historyVars

<1>15. ASSUME NEW r \in RunIds, Launch(r)
     PROVE  ActiveRunIsExecuted'
  BY <1>15
     DEF RunInv, TypeInv, TypeOK, ActiveRunIsExecuted, ThreadInv, DeletedInv, Launch, At, Goto, executorKeeps, Status, ActiveRuns, StatusAt, Statuses, Active, Final, RunnerStatus, Rows, execVars, historyVars

<1>16. ASSUME NEW r \in RunIds, SeeExit(r)
     PROVE  ActiveRunIsExecuted'
  BY <1>16
     DEF RunInv, TypeInv, TypeOK, ActiveRunIsExecuted, ThreadInv, DeletedInv, SeeExit, At, Goto, executorKeeps, Status, ActiveRuns, StatusAt, Statuses, Active, Final, RunnerStatus, Rows, execVars, historyVars

<1>17. ASSUME NEW r \in RunIds, SeeCancelled(r)
     PROVE  ActiveRunIsExecuted'
  BY <1>17
     DEF RunInv, TypeInv, TypeOK, ActiveRunIsExecuted, ThreadInv, DeletedInv, SeeCancelled, Terminate, At, Goto, executorKeeps, Status, ActiveRuns, StatusAt, Statuses, Active, Final, RunnerStatus, Rows, execVars, historyVars

<1>18. ASSUME NEW r \in RunIds, TimeOut(r)
     PROVE  ActiveRunIsExecuted'
  BY <1>18
     DEF RunInv, TypeInv, TypeOK, ActiveRunIsExecuted, ThreadInv, DeletedInv, TimeOut, Terminate, At, Goto, executorKeeps, Status, ActiveRuns, StatusAt, Statuses, Active, Final, RunnerStatus, Rows, execVars, historyVars

<1>19. ASSUME NEW r \in RunIds, SaveOutcome(r)
     PROVE  ActiveRunIsExecuted'
  <2>1. \/ Status(r) = "cancelled" /\ rows' = rows
        \/ Status(r) = "dispatching" /\ Wrote(r, "dispatched", rows[r].tree)
    BY <1>19, RowEffects DEF RunInv
  <2>2. QED
    BY <1>19, <2>1
       DEF RunInv, TypeInv, TypeOK, ActiveRunIsExecuted, ThreadInv, DeletedInv, SaveOutcome, At, Goto, executorKeeps, Recorded, Status, ActiveRuns, StatusAt, Statuses, Active, Final, RunnerStatus, Rows, execVars, historyVars, Wrote, SameOrPruned, Row

<1>20. ASSUME NEW r \in RunIds, SaveEnd(r)
     PROVE  ActiveRunIsExecuted'
  <2>1. Wrote(r, IF Status(r) = "cancelled" THEN "cancelled" ELSE outcome[r], "settled")
    BY <1>20, RowEffects DEF RunInv
  <2>2. up /\ UNCHANGED <<up, lost>> /\ outcome[r] \notin Active
    BY <1>20, ExitAssumption DEF SaveEnd, At, executorKeeps, RunInv, TypeInv, OutcomeKnown, RunnerStatus, Active
  <2>3. \A q \in RunIds \ {r} : exec'[q] = exec[q]
    BY <1>20 DEF SaveEnd, Goto, Stop, RunInv, TypeInv, TypeOK
  <2>4. Status(r)' \notin Active
    BY <2>1, <2>2 DEF Wrote, Row, Status, Active
  <2>5. \A q \in RunIds \ {r} : Status(q)' \in Active => Status(q) \in Active
    BY <2>1 DEF Wrote, SameOrPruned, Row, Status, Active
  <2>6. QED
    BY <2>2, <2>3, <2>4, <2>5 DEF RunInv, ActiveRunIsExecuted, ActiveRuns

<1>21. ASSUME NEW r \in RunIds, FinishCancelled(r)
     PROVE  ActiveRunIsExecuted'
  <2>1. Wrote(r, "cancelled", "settled")
    BY <1>21, RowEffects DEF RunInv
  <2>2. QED
    BY <1>21, <2>1
       DEF RunInv, TypeInv, TypeOK, ActiveRunIsExecuted, ThreadInv, DeletedInv, FinishCancelled, At, Stop, SaveTerminal, executorKeeps, Status, ActiveRuns, StatusAt, Statuses, Active, Final, RunnerStatus, Rows, execVars, historyVars, Wrote, SameOrPruned, Row

<1>22. ASSUME NEW r \in RunIds, NEW how \in {"exited", "closed"}, AgentEnds(r, how)
     PROVE  ActiveRunIsExecuted'
  BY <1>22
     DEF RunInv, TypeInv, TypeOK, ActiveRunIsExecuted, ThreadInv, DeletedInv, AgentEnds, executorKeeps, Status, ActiveRuns, StatusAt, Statuses, Active, Final, RunnerStatus, Rows, execVars, historyVars

<1>23. ASSUME NEW r \in RunIds, StoreFails(r)
     PROVE  ActiveRunIsExecuted'
  BY <1>23
     DEF RunInv, TypeInv, TypeOK, ActiveRunIsExecuted, ThreadInv, DeletedInv, StoreFails, Stop, Status, ActiveRuns, StatusAt, Statuses, Active, Final, RunnerStatus, Rows, execVars, historyVars

<1>24. CASE Crash
  BY <1>24
     DEF RunInv, TypeInv, TypeOK, ActiveRunIsExecuted, ThreadInv, DeletedInv, Crash, Status, ActiveRuns, StatusAt, Statuses, Active, Final, RunnerStatus, Rows, execVars, historyVars

<1>25. CASE Restart
  <2>1. \A q \in RunIds : Status(q)' \notin Active
    BY <1>25 DEF Restart, RunInv, TypeInv, TypeOK, Rows, Failed, ActiveRuns, Status, Active
  <2>2. QED
    BY <2>1 DEF ActiveRunIsExecuted, ActiveRuns

<1>26. CASE UNCHANGED vars
  BY <1>26 DEF RunInv, TypeInv, ActiveRunIsExecuted, ThreadInv, DeletedInv, vars, execVars, historyVars, Status, ActiveRuns

<1>27. QED
  BY <1>1, <1>2, <1>3, <1>4, <1>5, <1>6, <1>7, <1>8, <1>9, <1>10, <1>11, <1>12, <1>13, <1>14, <1>15, <1>16, <1>17, <1>18, <1>19, <1>20, <1>21, <1>22, <1>23, <1>24, <1>25, <1>26 DEF Next, Execute

\* A thread ends when its row says what became of its worktree.
LEMMA TreesKept ==
    ASSUME RunInv, [Next]_vars
    PROVE  TreeInv'
<1>1. ASSUME NEW enabled \in BOOLEAN, NEW review \in BOOLEAN, NEW s \in Schedules, UserUpdates(enabled, review, s)
     PROVE  TreeInv'
  BY <1>1
     DEF RunInv, TypeInv, TypeOK, TreeInv, ThreadInv, ActiveRunIsExecuted, UserUpdates, Status, ActiveRuns, StatusAt, Statuses, Active, Final, RunnerStatus, Rows, execVars, historyVars

<1>2. CASE UserDeletes
  BY <1>2
     DEF RunInv, TypeInv, TypeOK, TreeInv, ThreadInv, ActiveRunIsExecuted, UserDeletes, Row, Recorded, Status, ActiveRuns, StatusAt, Statuses, Active, Final, RunnerStatus, Rows, execVars, historyVars

<1>3. CASE UserTriggers
  <2>1. Wrote(NewRun, "pending", "none")
    BY <1>3, RowEffects DEF RunInv
  <2>2. QED
    BY <1>3, <2>1, NewRunIsLeast
       DEF RunInv, TypeInv, TypeOK, TreeInv, ThreadInv, ActiveRunIsExecuted, UserTriggers, Status, ActiveRuns, StatusAt, Statuses, Active, Final, RunnerStatus, Rows, execVars, historyVars, Wrote, SameOrPruned, Row

<1>4. ASSUME NEW r \in RunIds, UserCancels(r)
     PROVE  TreeInv'
  <2>1. Wrote(r, "cancelled", rows[r].tree)
    BY <1>4, RowEffects DEF RunInv
  <2>2. /\ up /\ Status(r) \in Active
        /\ UNCHANGED <<auto, exec, agent, clock, up, lost, cutShort>>
        /\ early' = IF exec[r] \in {"start", "prepare", "check"} THEN early \cup {r} ELSE early
    BY <1>4 DEF UserCancels, execVars
  <2>3. QED
    BY <2>1, <2>2
       DEF RunInv, TypeInv, TypeOK, TreeInv, ThreadInv, ActiveRunIsExecuted, Status, ActiveRuns, StatusAt, Statuses, Active, Final, RunnerStatus, Rows, Wrote, SameOrPruned, Row

<1>5. ASSUME NEW started \in BOOLEAN, SchedulerClaims(started)
     PROVE  TreeInv'
  <2>1. Wrote(NewRun, IF Missed THEN "skipped_missed" ELSE "pending", "none")
    BY <1>5, RowEffects DEF RunInv
  <2>2. /\ up /\ auto.enabled /\ ActiveRuns = {}
        /\ NewRun \in RunIds /\ Status(NewRun) = "absent"
        /\ \A q \in RunIds : q < NewRun => Status(q) # "absent"
        /\ UNCHANGED <<agent, up, early, cutShort>>
        /\ auto'.exists = auto.exists /\ auto'.enabled = auto.enabled
        /\ \A q \in RunIds \ {NewRun} : exec'[q] = exec[q]
        /\ exec'[NewRun] = IF Missed \/ ~ started THEN exec[NewRun] ELSE "start"
        /\ lost' = IF started THEN lost ELSE lost \cup {NewRun}
    BY <1>5, NewRunIsLeast DEF SchedulerClaims, Due, RunInv, TypeInv, TypeOK
  <2>3. QED
    BY <2>1, <2>2
       DEF RunInv, TypeInv, TypeOK, TreeInv, ThreadInv, ActiveRunIsExecuted, Status, ActiveRuns, StatusAt, Statuses, Active, Final, RunnerStatus, Rows, Wrote, SameOrPruned, Row

<1>6. CASE Tick
  BY <1>6
     DEF RunInv, TypeInv, TypeOK, TreeInv, ThreadInv, ActiveRunIsExecuted, Tick, Status, ActiveRuns, StatusAt, Statuses, Active, Final, RunnerStatus, Rows, execVars, historyVars

<1>7. ASSUME NEW r \in RunIds, RowGone(r)
     PROVE  TreeInv'
  <2>1. Status(r) \in {"absent", "gone"} /\ UNCHANGED <<rows, lost, cutShort>>
    BY <1>7 DEF RowGone, Recorded, executorKeeps, RunInv, DeletedInv
  <2>2. exec'[r] = "none" /\ \A q \in RunIds \ {r} : exec'[q] = exec[q]
    BY <1>7 DEF RowGone, Stop, RunInv, TypeInv, TypeOK
  <2>3. Status(r) \notin Final
    BY <2>1, ExitAssumption DEF Final, RunnerStatus
  <2>4. QED
    BY <2>1, <2>2, <2>3 DEF RunInv, TreeInv, Status

<1>8. ASSUME NEW r \in RunIds, ReviewStops(r)
     PROVE  TreeInv'
  BY <1>8
     DEF RunInv, TypeInv, TypeOK, TreeInv, ThreadInv, ActiveRunIsExecuted, ReviewStops, At, Stop, executorKeeps, Status, ActiveRuns, StatusAt, Statuses, Active, Final, RunnerStatus, Rows, execVars, historyVars

<1>9. ASSUME NEW r \in RunIds, Dispatch(r)
     PROVE  TreeInv'
  <2>1. \/ Status(r) = "cancelled" /\ rows' = rows
        \/ Status(r) = "pending" /\ Wrote(r, "dispatching", rows[r].tree)
    BY <1>9, RowEffects DEF RunInv
  <2>2. QED
    BY <1>9, <2>1
       DEF RunInv, TypeInv, TypeOK, TreeInv, ThreadInv, ActiveRunIsExecuted, Dispatch, At, Stop, Goto, executorKeeps, Status, ActiveRuns, StatusAt, Statuses, Active, Final, RunnerStatus, Rows, execVars, historyVars, Wrote, SameOrPruned, Row

<1>10. ASSUME NEW r \in RunIds, PrepareFails(r)
     PROVE  TreeInv'
  <2>1. Wrote(r, IF Status(r) = "cancelled" THEN "cancelled" ELSE "skipped_precheck", rows[r].tree)
    BY <1>10, RowEffects DEF RunInv
  <2>2. QED
    BY <1>10, <2>1
       DEF RunInv, TypeInv, TypeOK, TreeInv, ThreadInv, ActiveRunIsExecuted, PrepareFails, At, Stop, executorKeeps, Status, ActiveRuns, StatusAt, Statuses, Active, Final, RunnerStatus, Rows, execVars, historyVars, Wrote, SameOrPruned, Row

<1>11. ASSUME NEW r \in RunIds, NEW tree \in {"live", "settled"}, SaveWorktree(r, tree)
     PROVE  TreeInv'
  <2>1. \/ Status(r) = "cancelled" /\ rows' = rows
        \/ Status(r) = "dispatching" /\ Wrote(r, "dispatching", tree)
    BY <1>11, RowEffects DEF RunInv
  <2>2. QED
    BY <1>11, <2>1
       DEF RunInv, TypeInv, TypeOK, TreeInv, ThreadInv, ActiveRunIsExecuted, SaveWorktree, At, Goto, executorKeeps, Recorded, Status, ActiveRuns, StatusAt, Statuses, Active, Final, RunnerStatus, Rows, execVars, historyVars, Wrote, SameOrPruned, Row

<1>12. ASSUME NEW r \in RunIds, ChecksFail(r)
     PROVE  TreeInv'
  <2>1. Wrote(r, IF Status(r) = "cancelled" THEN "cancelled" ELSE "skipped_precheck", "settled")
    BY <1>12, RowEffects DEF RunInv
  <2>2. QED
    BY <1>12, <2>1
       DEF RunInv, TypeInv, TypeOK, TreeInv, ThreadInv, ActiveRunIsExecuted, ChecksFail, At, Stop, SaveTerminal, executorKeeps, Status, ActiveRuns, StatusAt, Statuses, Active, Final, RunnerStatus, Rows, execVars, historyVars, Wrote, SameOrPruned, Row

<1>13. ASSUME NEW r \in RunIds, SaveChecks(r)
     PROVE  TreeInv'
  BY <1>13
     DEF RunInv, TypeInv, TypeOK, TreeInv, ThreadInv, ActiveRunIsExecuted, SaveChecks, At, Goto, executorKeeps, Recorded, Status, ActiveRuns, StatusAt, Statuses, Active, Final, RunnerStatus, Rows, execVars, historyVars

<1>14. ASSUME NEW r \in RunIds, LaunchFails(r)
     PROVE  TreeInv'
  BY <1>14
     DEF RunInv, TypeInv, TypeOK, TreeInv, ThreadInv, ActiveRunIsExecuted, LaunchFails, At, Goto, executorKeeps, Status, ActiveRuns, StatusAt, Statuses, Active, Final, RunnerStatus, Rows, execVars, historyVars

<1>15. ASSUME NEW r \in RunIds, Launch(r)
     PROVE  TreeInv'
  BY <1>15
     DEF RunInv, TypeInv, TypeOK, TreeInv, ThreadInv, ActiveRunIsExecuted, Launch, At, Goto, executorKeeps, Status, ActiveRuns, StatusAt, Statuses, Active, Final, RunnerStatus, Rows, execVars, historyVars

<1>16. ASSUME NEW r \in RunIds, SeeExit(r)
     PROVE  TreeInv'
  BY <1>16
     DEF RunInv, TypeInv, TypeOK, TreeInv, ThreadInv, ActiveRunIsExecuted, SeeExit, At, Goto, executorKeeps, Status, ActiveRuns, StatusAt, Statuses, Active, Final, RunnerStatus, Rows, execVars, historyVars

<1>17. ASSUME NEW r \in RunIds, SeeCancelled(r)
     PROVE  TreeInv'
  BY <1>17
     DEF RunInv, TypeInv, TypeOK, TreeInv, ThreadInv, ActiveRunIsExecuted, SeeCancelled, Terminate, At, Goto, executorKeeps, Status, ActiveRuns, StatusAt, Statuses, Active, Final, RunnerStatus, Rows, execVars, historyVars

<1>18. ASSUME NEW r \in RunIds, TimeOut(r)
     PROVE  TreeInv'
  BY <1>18
     DEF RunInv, TypeInv, TypeOK, TreeInv, ThreadInv, ActiveRunIsExecuted, TimeOut, Terminate, At, Goto, executorKeeps, Status, ActiveRuns, StatusAt, Statuses, Active, Final, RunnerStatus, Rows, execVars, historyVars

<1>19. ASSUME NEW r \in RunIds, SaveOutcome(r)
     PROVE  TreeInv'
  <2>1. \/ Status(r) = "cancelled" /\ rows' = rows
        \/ Status(r) = "dispatching" /\ Wrote(r, "dispatched", rows[r].tree)
    BY <1>19, RowEffects DEF RunInv
  <2>2. QED
    BY <1>19, <2>1
       DEF RunInv, TypeInv, TypeOK, TreeInv, ThreadInv, ActiveRunIsExecuted, SaveOutcome, At, Goto, executorKeeps, Recorded, Status, ActiveRuns, StatusAt, Statuses, Active, Final, RunnerStatus, Rows, execVars, historyVars, Wrote, SameOrPruned, Row

<1>20. ASSUME NEW r \in RunIds, SaveEnd(r)
     PROVE  TreeInv'
  <2>1. Wrote(r, IF Status(r) = "cancelled" THEN "cancelled" ELSE outcome[r], "settled")
    BY <1>20, RowEffects DEF RunInv
  <2>2. QED
    BY <1>20, <2>1
       DEF RunInv, TypeInv, TypeOK, TreeInv, ThreadInv, ActiveRunIsExecuted, SaveEnd, At, Goto, Stop, SaveTerminal, executorKeeps, Status, ActiveRuns, StatusAt, Statuses, Active, Final, RunnerStatus, Rows, execVars, historyVars, Wrote, SameOrPruned, Row

<1>21. ASSUME NEW r \in RunIds, FinishCancelled(r)
     PROVE  TreeInv'
  <2>1. Wrote(r, "cancelled", "settled")
    BY <1>21, RowEffects DEF RunInv
  <2>2. QED
    BY <1>21, <2>1
       DEF RunInv, TypeInv, TypeOK, TreeInv, ThreadInv, ActiveRunIsExecuted, FinishCancelled, At, Stop, SaveTerminal, executorKeeps, Status, ActiveRuns, StatusAt, Statuses, Active, Final, RunnerStatus, Rows, execVars, historyVars, Wrote, SameOrPruned, Row

<1>22. ASSUME NEW r \in RunIds, NEW how \in {"exited", "closed"}, AgentEnds(r, how)
     PROVE  TreeInv'
  BY <1>22
     DEF RunInv, TypeInv, TypeOK, TreeInv, ThreadInv, ActiveRunIsExecuted, AgentEnds, executorKeeps, Status, ActiveRuns, StatusAt, Statuses, Active, Final, RunnerStatus, Rows, execVars, historyVars

<1>23. ASSUME NEW r \in RunIds, StoreFails(r)
     PROVE  TreeInv'
  BY <1>23
     DEF RunInv, TypeInv, TypeOK, TreeInv, ThreadInv, ActiveRunIsExecuted, StoreFails, Stop, Status, ActiveRuns, StatusAt, Statuses, Active, Final, RunnerStatus, Rows, execVars, historyVars

<1>24. CASE Crash
  <2>1. UNCHANGED <<rows, lost>> /\ \A q \in RunIds : exec'[q] = "none"
    BY <1>24 DEF Crash
  <2>2. \A q \in RunIds : exec[q] # "none" /\ Status(q) \in Final => Status(q) = "cancelled"
    BY ExitAssumption DEF RunInv, ThreadInv, StatusAt, Final, RunnerStatus
  <2>3. \A q \in RunIds : exec[q] # "none" /\ Status(q) = "cancelled" => q \in cutShort'
    BY <1>24 DEF Crash
  <2>4. cutShort \subseteq cutShort'
    BY <1>24 DEF Crash
  <2>5. QED
    BY <2>1, <2>2, <2>3, <2>4 DEF RunInv, TreeInv, Status

<1>25. CASE Restart
  <2>1. /\ \A q \in ActiveRuns : rows'[q].tree # "live"
        /\ \A q \in RunIds \ ActiveRuns : rows'[q] = rows[q]
    <3>1. \A q \in RunIds : rows'[q] = IF q \in ActiveRuns THEN Failed(rows[q]) ELSE rows[q]
      BY <1>25 DEF Restart
    <3>2. ASSUME NEW q \in RunIds PROVE Failed(rows[q]).tree # "live"
      <4>1. rows[q] \in [status : Statuses, tree : Dispositions]
        BY DEF RunInv, TypeInv, TypeOK, Rows
      <4>2. QED
        BY <4>1 DEF Failed
    <3>3. QED
      BY <3>1, <3>2 DEF ActiveRuns
  <2>2. UNCHANGED <<exec, cutShort>> /\ lost' = lost \ ActiveRuns
    BY <1>25 DEF Restart, execVars
  <2>3. QED
    BY <2>1, <2>2 DEF RunInv, TreeInv, Status

<1>26. CASE UNCHANGED vars
  BY <1>26 DEF RunInv, TypeInv, TreeInv, ThreadInv, ActiveRunIsExecuted, vars, execVars, historyVars, Status, ActiveRuns

<1>27. QED
  BY <1>1, <1>2, <1>3, <1>4, <1>5, <1>6, <1>7, <1>8, <1>9, <1>10, <1>11, <1>12, <1>13, <1>14, <1>15, <1>16, <1>17, <1>18, <1>19, <1>20, <1>21, <1>22, <1>23, <1>24, <1>25, <1>26 DEF Next, Execute

----------------------------------------------------------------------------
(***************************************************************************)
(* Occurrences: the next time of an automation is one that was never       *)
(* claimed, since those that were are past, and a schedule starts again    *)
(* from now.                                                               *)
(***************************************************************************)
OccurrenceInv ==
    /\ OccurrenceOnce
    /\ auto.next # Never => claimed[auto.next] = 0


\* No step claims an occurrence again.
LEMMA OccurrencesKept ==
    ASSUME TypeInv, OccurrenceInv, [Next]_vars
    PROVE  OccurrenceInv'
<1>1. ASSUME NEW enabled \in BOOLEAN, NEW review \in BOOLEAN, NEW s \in Schedules, UserUpdates(enabled, review, s)
     PROVE  OccurrenceInv'
  <2>1. clock \in Nat
    BY BoundsAssumption DEF TypeInv, TypeOK
  <2>2. NextAfter(s, clock) \in Times \cup {Never}
        /\ (NextAfter(s, clock) # Never => NextAfter(s, clock) > clock)
    BY <2>1, NextAfterTypes
  <2>3. UNCHANGED <<claimed, clock>> /\ auto'.next \in {Never, auto.next, NextAfter(s, clock)}
    BY <1>1 DEF UserUpdates, historyVars, TypeInv, TypeOK
  <2>4. NextAfter(s, clock) # Never => claimed[NextAfter(s, clock)] = 0
    BY <2>1, <2>2, BoundsAssumption DEF OccurrenceInv, OccurrenceOnce, TypeInv, TypeOK, Times
  <2>5. QED
    BY <2>3, <2>4 DEF OccurrenceInv, OccurrenceOnce

<1>2. CASE UserDeletes
  BY <1>2 DEF OccurrenceInv, OccurrenceOnce, UserDeletes, historyVars, TypeInv, TypeOK

<1>3. CASE UserTriggers
  BY <1>3 DEF OccurrenceInv, OccurrenceOnce, UserTriggers, historyVars

<1>4. ASSUME NEW r \in RunIds, UserCancels(r)
     PROVE  OccurrenceInv'
  BY <1>4 DEF OccurrenceInv, OccurrenceOnce, UserCancels, historyVars

<1>5. ASSUME NEW started \in BOOLEAN, SchedulerClaims(started)
     PROVE  OccurrenceInv'
  <2>1. clock \in Nat /\ auto.schedule \in Schedules /\ auto.next \in Times /\ auto.next <= clock
    BY <1>5, BoundsAssumption DEF TypeInv, TypeOK, SchedulerClaims, Due
  <2> DEFINE next == NextAfter(auto.schedule, clock)
  <2>2. next \in Times \cup {Never} /\ (next # Never => next > clock)
    BY <2>1, NextAfterTypes
  <2>3. clock' = clock /\ auto'.next = next /\ claimed' = [claimed EXCEPT ![auto.next] = @ + 1]
    BY <1>5 DEF SchedulerClaims, TypeInv, TypeOK
  <2>4. claimed[auto.next] = 0
    BY <2>1, BoundsAssumption DEF OccurrenceInv, Times, Never
  <2>5. claimed' = [claimed EXCEPT ![auto.next] = 1]
    BY <2>3, <2>4
  <2>6. OccurrenceOnce'
    BY <2>1, <2>3, <2>5 DEF OccurrenceInv, OccurrenceOnce, TypeInv, TypeOK
  <2>7. next # Never => claimed[next] = 0 /\ next # auto.next
    BY <2>1, <2>2, BoundsAssumption DEF OccurrenceInv, OccurrenceOnce, TypeInv, TypeOK, Times
  <2>8. next # Never => claimed'[next] = 0
    BY <2>2, <2>5, <2>7 DEF TypeInv, TypeOK
  <2>9. QED
    BY <2>3, <2>6, <2>8 DEF OccurrenceInv

<1>6. CASE Tick
  <2>1. UNCHANGED <<claimed, auto>> /\ clock' = clock + 1 /\ clock \in Nat
    BY <1>6, BoundsAssumption DEF Tick, historyVars, TypeInv, TypeOK
  <2>2. \A t \in Times : t \in Nat
    BY BoundsAssumption DEF Times
  <2>3. QED
    BY <2>1, <2>2 DEF OccurrenceInv, OccurrenceOnce

<1>7. ASSUME NEW r \in RunIds, RowGone(r)
     PROVE  OccurrenceInv'
  BY <1>7 DEF OccurrenceInv, OccurrenceOnce, RowGone, executorKeeps

<1>8. ASSUME NEW r \in RunIds, ReviewStops(r)
     PROVE  OccurrenceInv'
  BY <1>8 DEF OccurrenceInv, OccurrenceOnce, ReviewStops, executorKeeps

<1>9. ASSUME NEW r \in RunIds, Dispatch(r)
     PROVE  OccurrenceInv'
  BY <1>9 DEF OccurrenceInv, OccurrenceOnce, Dispatch, executorKeeps

<1>10. ASSUME NEW r \in RunIds, PrepareFails(r)
     PROVE  OccurrenceInv'
  BY <1>10 DEF OccurrenceInv, OccurrenceOnce, PrepareFails, executorKeeps

<1>11. ASSUME NEW r \in RunIds, NEW tree \in {"live", "settled"}, SaveWorktree(r, tree)
     PROVE  OccurrenceInv'
  BY <1>11 DEF OccurrenceInv, OccurrenceOnce, SaveWorktree, executorKeeps

<1>12. ASSUME NEW r \in RunIds, ChecksFail(r)
     PROVE  OccurrenceInv'
  BY <1>12 DEF OccurrenceInv, OccurrenceOnce, ChecksFail, executorKeeps

<1>13. ASSUME NEW r \in RunIds, SaveChecks(r)
     PROVE  OccurrenceInv'
  BY <1>13 DEF OccurrenceInv, OccurrenceOnce, SaveChecks, executorKeeps

<1>14. ASSUME NEW r \in RunIds, LaunchFails(r)
     PROVE  OccurrenceInv'
  BY <1>14 DEF OccurrenceInv, OccurrenceOnce, LaunchFails, executorKeeps

<1>15. ASSUME NEW r \in RunIds, Launch(r)
     PROVE  OccurrenceInv'
  BY <1>15 DEF OccurrenceInv, OccurrenceOnce, Launch, executorKeeps

<1>16. ASSUME NEW r \in RunIds, SeeExit(r)
     PROVE  OccurrenceInv'
  BY <1>16 DEF OccurrenceInv, OccurrenceOnce, SeeExit, executorKeeps

<1>17. ASSUME NEW r \in RunIds, SeeCancelled(r)
     PROVE  OccurrenceInv'
  BY <1>17 DEF OccurrenceInv, OccurrenceOnce, SeeCancelled, Terminate, executorKeeps

<1>18. ASSUME NEW r \in RunIds, TimeOut(r)
     PROVE  OccurrenceInv'
  BY <1>18 DEF OccurrenceInv, OccurrenceOnce, TimeOut, Terminate, executorKeeps

<1>19. ASSUME NEW r \in RunIds, SaveOutcome(r)
     PROVE  OccurrenceInv'
  BY <1>19 DEF OccurrenceInv, OccurrenceOnce, SaveOutcome, executorKeeps

<1>20. ASSUME NEW r \in RunIds, SaveEnd(r)
     PROVE  OccurrenceInv'
  BY <1>20 DEF OccurrenceInv, OccurrenceOnce, SaveEnd, executorKeeps

<1>21. ASSUME NEW r \in RunIds, FinishCancelled(r)
     PROVE  OccurrenceInv'
  BY <1>21 DEF OccurrenceInv, OccurrenceOnce, FinishCancelled, executorKeeps

<1>22. ASSUME NEW r \in RunIds, NEW how \in {"exited", "closed"}, AgentEnds(r, how)
     PROVE  OccurrenceInv'
  BY <1>22 DEF OccurrenceInv, OccurrenceOnce, AgentEnds, executorKeeps

<1>23. ASSUME NEW r \in RunIds, StoreFails(r)
     PROVE  OccurrenceInv'
  BY <1>23 DEF OccurrenceInv, OccurrenceOnce, StoreFails

<1>24. CASE Crash
  BY <1>24 DEF OccurrenceInv, OccurrenceOnce, Crash

<1>25. CASE Restart
  BY <1>25 DEF OccurrenceInv, OccurrenceOnce, Restart

<1>26. CASE UNCHANGED vars
  BY <1>26 DEF OccurrenceInv, OccurrenceOnce, vars, historyVars

<1>27. QED
  BY <1>1, <1>2, <1>3, <1>4, <1>5, <1>6, <1>7, <1>8, <1>9, <1>10, <1>11, <1>12, <1>13, <1>14, <1>15, <1>16, <1>17, <1>18, <1>19, <1>20, <1>21, <1>22, <1>23, <1>24, <1>25, <1>26 DEF Next, Execute

\* What has ended stays as it has ended, or is pruned or deleted.
LEMMA VerdictsStand ==
    ASSUME RunInv, [Next]_vars
    PROVE  \A q \in RunIds : Status(q) \in Final => Status(q)' \in {Status(q), "gone"}
<1>1. ASSUME NEW enabled \in BOOLEAN, NEW review \in BOOLEAN, NEW s \in Schedules, UserUpdates(enabled, review, s)
     PROVE  \A q \in RunIds : Status(q) \in Final => Status(q)' \in {Status(q), "gone"}
  BY <1>1 DEF UserUpdates, Status

<1>2. CASE UserDeletes
  BY <1>2 DEF UserDeletes, Row, Recorded, Status, Active, Final, RunnerStatus

<1>3. CASE UserTriggers
  <2>1. Wrote(NewRun, "pending", "none")
    BY <1>3, RowEffects DEF RunInv
  <2>2. NewRun \in RunIds /\ rows[NewRun].status \notin Final
    BY <1>3, NewRunIsLeast, ExitAssumption DEF UserTriggers, Status, Final, RunnerStatus
  <2>3. QED
    BY <2>1, <2>2 DEF Wrote, SameOrPruned, Row, Status

<1>4. ASSUME NEW r \in RunIds, UserCancels(r)
     PROVE  \A q \in RunIds : Status(q) \in Final => Status(q)' \in {Status(q), "gone"}
  <2>1. Wrote(r, "cancelled", rows[r].tree)
    BY <1>4, RowEffects DEF RunInv
  <2>2. Status(r) \notin Final
    BY <1>4, ExitAssumption DEF UserCancels, Active, Final, RunnerStatus
  <2>3. QED
    BY <2>1, <2>2 DEF Wrote, SameOrPruned, Row, Status

<1>5. ASSUME NEW started \in BOOLEAN, SchedulerClaims(started)
     PROVE  \A q \in RunIds : Status(q) \in Final => Status(q)' \in {Status(q), "gone"}
  <2>1. Wrote(NewRun, IF Missed THEN "skipped_missed" ELSE "pending", "none")
    BY <1>5, RowEffects DEF RunInv
  <2>2. NewRun \in RunIds /\ rows[NewRun].status \notin Final
    BY <1>5, NewRunIsLeast, ExitAssumption DEF SchedulerClaims, Status, Final, RunnerStatus
  <2>3. QED
    BY <2>1, <2>2 DEF Wrote, SameOrPruned, Row, Status

<1>6. CASE Tick
  BY <1>6 DEF Tick, Status

<1>7. ASSUME NEW r \in RunIds, RowGone(r)
     PROVE  \A q \in RunIds : Status(q) \in Final => Status(q)' \in {Status(q), "gone"}
  BY <1>7 DEF RowGone, executorKeeps, Status

<1>8. ASSUME NEW r \in RunIds, ReviewStops(r)
     PROVE  \A q \in RunIds : Status(q) \in Final => Status(q)' \in {Status(q), "gone"}
  BY <1>8 DEF ReviewStops, executorKeeps, Status

<1>9. ASSUME NEW r \in RunIds, Dispatch(r)
     PROVE  \A q \in RunIds : Status(q) \in Final => Status(q)' \in {Status(q), "gone"}
  <2>1. \/ Status(r) = "cancelled" /\ rows' = rows
        \/ Status(r) = "pending" /\ Wrote(r, "dispatching", rows[r].tree)
    BY <1>9, RowEffects DEF RunInv
  <2>2. {"pending", "dispatching"} \cap Final = {}
    BY ExitAssumption DEF Final, RunnerStatus
  <2>3. QED
    BY <2>1, <2>2 DEF Wrote, SameOrPruned, Row, Status

<1>10. ASSUME NEW r \in RunIds, PrepareFails(r)
     PROVE  \A q \in RunIds : Status(q) \in Final => Status(q)' \in {Status(q), "gone"}
  <2>1. Wrote(r, IF Status(r) = "cancelled" THEN "cancelled" ELSE "skipped_precheck", rows[r].tree)
    BY <1>10, RowEffects DEF RunInv
  <2>2. Status(r) \in Final => Status(r) = "cancelled"
    BY <1>10, ExitAssumption DEF PrepareFails, At, RunInv, ThreadInv, StatusAt, Final, RunnerStatus
  <2>3. QED
    BY <2>1, <2>2 DEF Wrote, SameOrPruned, Row, Status

<1>11. ASSUME NEW r \in RunIds, NEW tree \in {"live", "settled"}, SaveWorktree(r, tree)
     PROVE  \A q \in RunIds : Status(q) \in Final => Status(q)' \in {Status(q), "gone"}
  <2>1. \/ Status(r) = "cancelled" /\ rows' = rows
        \/ Status(r) = "dispatching" /\ Wrote(r, "dispatching", tree)
    BY <1>11, RowEffects DEF RunInv
  <2>2. {"pending", "dispatching"} \cap Final = {}
    BY ExitAssumption DEF Final, RunnerStatus
  <2>3. QED
    BY <2>1, <2>2 DEF Wrote, SameOrPruned, Row, Status

<1>12. ASSUME NEW r \in RunIds, ChecksFail(r)
     PROVE  \A q \in RunIds : Status(q) \in Final => Status(q)' \in {Status(q), "gone"}
  <2>1. Wrote(r, IF Status(r) = "cancelled" THEN "cancelled" ELSE "skipped_precheck", "settled")
    BY <1>12, RowEffects DEF RunInv
  <2>2. Status(r) \in Final => Status(r) = "cancelled"
    BY <1>12, ExitAssumption DEF ChecksFail, At, RunInv, ThreadInv, StatusAt, Final, RunnerStatus
  <2>3. QED
    BY <2>1, <2>2 DEF Wrote, SameOrPruned, Row, Status

<1>13. ASSUME NEW r \in RunIds, SaveChecks(r)
     PROVE  \A q \in RunIds : Status(q) \in Final => Status(q)' \in {Status(q), "gone"}
  BY <1>13 DEF SaveChecks, executorKeeps, Status

<1>14. ASSUME NEW r \in RunIds, LaunchFails(r)
     PROVE  \A q \in RunIds : Status(q) \in Final => Status(q)' \in {Status(q), "gone"}
  BY <1>14 DEF LaunchFails, executorKeeps, Status

<1>15. ASSUME NEW r \in RunIds, Launch(r)
     PROVE  \A q \in RunIds : Status(q) \in Final => Status(q)' \in {Status(q), "gone"}
  BY <1>15 DEF Launch, executorKeeps, Status

<1>16. ASSUME NEW r \in RunIds, SeeExit(r)
     PROVE  \A q \in RunIds : Status(q) \in Final => Status(q)' \in {Status(q), "gone"}
  BY <1>16 DEF SeeExit, executorKeeps, Status

<1>17. ASSUME NEW r \in RunIds, SeeCancelled(r)
     PROVE  \A q \in RunIds : Status(q) \in Final => Status(q)' \in {Status(q), "gone"}
  BY <1>17 DEF SeeCancelled, Terminate, executorKeeps, Status

<1>18. ASSUME NEW r \in RunIds, TimeOut(r)
     PROVE  \A q \in RunIds : Status(q) \in Final => Status(q)' \in {Status(q), "gone"}
  BY <1>18 DEF TimeOut, Terminate, executorKeeps, Status

<1>19. ASSUME NEW r \in RunIds, SaveOutcome(r)
     PROVE  \A q \in RunIds : Status(q) \in Final => Status(q)' \in {Status(q), "gone"}
  <2>1. \/ Status(r) = "cancelled" /\ rows' = rows
        \/ Status(r) = "dispatching" /\ Wrote(r, "dispatched", rows[r].tree)
    BY <1>19, RowEffects DEF RunInv
  <2>2. {"pending", "dispatching"} \cap Final = {}
    BY ExitAssumption DEF Final, RunnerStatus
  <2>3. QED
    BY <2>1, <2>2 DEF Wrote, SameOrPruned, Row, Status

<1>20. ASSUME NEW r \in RunIds, SaveEnd(r)
     PROVE  \A q \in RunIds : Status(q) \in Final => Status(q)' \in {Status(q), "gone"}
  <2>1. Wrote(r, IF Status(r) = "cancelled" THEN "cancelled" ELSE outcome[r], "settled")
    BY <1>20, RowEffects DEF RunInv
  <2>2. Status(r) \in Final => Status(r) = "cancelled"
    BY <1>20, ExitAssumption DEF SaveEnd, At, RunInv, ThreadInv, StatusAt, Final, RunnerStatus
  <2>3. QED
    BY <2>1, <2>2 DEF Wrote, SameOrPruned, Row, Status

<1>21. ASSUME NEW r \in RunIds, FinishCancelled(r)
     PROVE  \A q \in RunIds : Status(q) \in Final => Status(q)' \in {Status(q), "gone"}
  <2>1. Wrote(r, "cancelled", "settled")
    BY <1>21, RowEffects DEF RunInv
  <2>2. Status(r) \in Final => Status(r) = "cancelled"
    BY <1>21, ExitAssumption DEF FinishCancelled, At, RunInv, ThreadInv, StatusAt, Final, RunnerStatus
  <2>3. QED
    BY <2>1, <2>2 DEF Wrote, SameOrPruned, Row, Status

<1>22. ASSUME NEW r \in RunIds, NEW how \in {"exited", "closed"}, AgentEnds(r, how)
     PROVE  \A q \in RunIds : Status(q) \in Final => Status(q)' \in {Status(q), "gone"}
  BY <1>22 DEF AgentEnds, executorKeeps, Status

<1>23. ASSUME NEW r \in RunIds, StoreFails(r)
     PROVE  \A q \in RunIds : Status(q) \in Final => Status(q)' \in {Status(q), "gone"}
  BY <1>23 DEF StoreFails, Status

<1>24. CASE Crash
  BY <1>24 DEF Crash, Status

<1>25. CASE Restart
  BY <1>25, ExitAssumption DEF Restart, ActiveRuns, Status, Active, Final, RunnerStatus

<1>26. CASE UNCHANGED vars
  BY <1>26 DEF vars, Status

<1>27. QED
  BY <1>1, <1>2, <1>3, <1>4, <1>5, <1>6, <1>7, <1>8, <1>9, <1>10, <1>11, <1>12, <1>13, <1>14, <1>15, <1>16, <1>17, <1>18, <1>19, <1>20, <1>21, <1>22, <1>23, <1>24, <1>25, <1>26 DEF Next, Execute

----------------------------------------------------------------------------
\* The daemon starts in the invariant.
LEMMA InitRunInv == Init => RunInv /\ OccurrenceInv
<1> SUFFICES ASSUME Init PROVE RunInv /\ OccurrenceInv
  OBVIOUS
<1>1. TypeInv
  BY InitTypes
<1>2. \A r \in RunIds : Status(r) = "absent" /\ exec[r] = "none" /\ agent[r] = "none"
  BY DEF Init, Status, Row
<1>3. "absent" \notin Active \cup Final
  BY ExitAssumption DEF Active, Final, RunnerStatus
<1>4. early = {} /\ auto.exists /\ \A t \in Times : claimed[t] = 0
  BY DEF Init
<1>5. ThreadInv /\ NumberInv /\ DeletedInv /\ EarlyInv /\ ActiveRunIsExecuted
  BY <1>2, <1>3, <1>4
     DEF ThreadInv, NumberInv, DeletedInv, EarlyInv, ActiveRunIsExecuted, ActiveRuns
<1>6. TreeInv
  BY <1>2, <1>3 DEF Init, TreeInv, Row
<1>7. OccurrenceInv
  BY <1>1, <1>4 DEF OccurrenceInv, OccurrenceOnce, TypeInv, TypeOK
<1>8. QED
  BY <1>1, <1>5, <1>6, <1>7 DEF RunInv

\* Both invariants hold of every execution of the daemon (Next).
LEMMA Invariance == Spec => [](RunInv /\ OccurrenceInv)
<1>1. Init => RunInv /\ OccurrenceInv
  BY InitRunInv
<1>2. (RunInv /\ OccurrenceInv) /\ [Next]_vars => (RunInv /\ OccurrenceInv)'
  <2> SUFFICES ASSUME RunInv, OccurrenceInv, [Next]_vars
               PROVE  RunInv' /\ OccurrenceInv'
    OBVIOUS
  <2>1. TypeInv' /\ OccurrenceInv'
    BY TypesKept, OccurrencesKept DEF RunInv
  <2>2. QED
    BY <2>1, ThreadsKept, NumbersKept, DeletedKept, EarlyKept, ActiveKept, TreesKept DEF RunInv
<1>3. QED
  BY <1>1, <1>2, PTL DEF Spec

\* The store, the threads and the terminals hold what they are declared to
\* hold: no thread saves an outcome that the runner has not told it.
THEOREM TypeCorrect == Spec => []TypeOK
<1>1. RunInv /\ OccurrenceInv => TypeOK
  BY DEF RunInv, TypeInv
<1>2. QED
  BY <1>1, Invariance, PTL

\* No occurrence of a schedule is claimed twice (claim_due), whatever updates,
\* restarts and threads that do not start come between.
THEOREM OccurrenceClaimedOnce == Spec => []OccurrenceOnce
<1>1. RunInv /\ OccurrenceInv => OccurrenceOnce
  BY DEF OccurrenceInv
<1>2. QED
  BY <1>1, Invariance, PTL

\* Of two agents at work, the older one of them watched, the older one's run
\* was cancelled or deleted: the check for active rows (trigger, claim_due)
\* keeps agents apart for as long as an agent's row says it runs.
THEOREM AgentsDoNotOverlap == Spec => []OneAgent
<1>1. RunInv /\ OccurrenceInv => OneAgent
  <2> SUFFICES ASSUME RunInv, NEW r \in RunIds, NEW s \in RunIds,
                      r < s, agent[r] = "running", agent[s] \in {"running", "left"}
               PROVE  Status(r) \in {"cancelled", "gone"}
    BY DEF OneAgent
  <2>1. exec[r] = "watch" /\ (exec[s] = "watch" \/ Status(s) # "absent")
    BY DEF RunInv, ThreadInv
  <2>2. Status(r) \in {"cancelled", "gone", "dispatching"} /\ Status(s) # "absent"
    BY <2>1 DEF RunInv, ThreadInv, StatusAt
  <2>3. Status(r) # "dispatching"
    BY <2>2 DEF RunInv, NumberInv, Active
  <2>4. QED
    BY <2>2, <2>3
<1>2. QED
  BY <1>1, Invariance, PTL

\* A run cancelled before its checks are saved never starts an agent
\* (persist_precheck_result looks at the row).
THEOREM EarlyCancelHolds == Spec => []EarlyCancelStartsNothing
<1>1. RunInv /\ OccurrenceInv => EarlyCancelStartsNothing
  BY DEF RunInv, TypeInv, TypeOK, ThreadInv, EarlyInv, EarlyCancelStartsNothing
<1>2. QED
  BY <1>1, Invariance, PTL

\* An active run has a thread, or is known to have lost it
\* (reconcile_startup, finish_prepare_failure, persist_terminal_outcome).
THEOREM ActiveRunHasThread == Spec => []ActiveRunIsExecuted
<1>1. RunInv /\ OccurrenceInv => ActiveRunIsExecuted
  BY DEF RunInv
<1>2. QED
  BY <1>1, Invariance, PTL

\* When a run and its thread have ended, its row does not say that its
\* worktree is in use (cleanup_if_safe, reconcile_startup).
THEOREM WorktreeIsSettled == Spec => []WorktreeSettled
<1>1. RunInv /\ OccurrenceInv => WorktreeSettled
  BY DEF RunInv, TreeInv, WorktreeSettled
<1>2. QED
  BY <1>1, Invariance, PTL

\* How a run has ended is never changed (save_run_if_status), for any number
\* of cancels, threads, failures of the store and restarts.
THEOREM VerdictIsFinal == Spec => VerdictStands
<1>1. RunInv /\ [Next]_vars =>
          [\A r \in RunIds : Status(r) \in Final => Status(r)' \in {Status(r), "gone"}]_vars
  BY VerdictsStand
<1>2. QED
  BY <1>1, Invariance, PTL DEF Spec, VerdictStands

=============================================================================
