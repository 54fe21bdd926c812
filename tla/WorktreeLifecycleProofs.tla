----------------------- MODULE WorktreeLifecycleProofs -----------------------
(***************************************************************************)
(* What holds of a managed worktree for any number of operations on it, of *)
(* reconciliations and of disturbances: a create that fails leaves only    *)
(* what it says, a session that was opened for it is the record's, and the *)
(* record names the place to which moves, one after the other, brought it. *)
(***************************************************************************)
EXTENDS WorktreeLifecycle, TLAPS

-----------------------------------------------------------------------------
(* Types *)

Threads == [step : Steps, inst : 0 .. MaxScans + 1, path : Paths \cup {Nowhere},
            to : Paths \cup {Nowhere}, head : {"none", "base", "ahead"},
            session : BOOLEAN, missing : BOOLEAN]

Scanning == IF recon.step = "idle" THEN 0 ELSE 1

\* A reconciliation makes one more instance at most.
InstancesBounded ==
    /\ scans + Scanning <= MaxScans
    /\ record.inst + scans + Scanning <= MaxScans + 1

StepsOf(kind) ==
    IF kind = "create"
    THEN {"idle", "creating", "register", "binding", "bind", "launching",
          "undoSession", "undoRecord", "undoTree", "undoBranch", "done"}
    ELSE IF kind = "move" THEN {"idle", "validating", "moving", "save", "back", "done"}
    ELSE {"idle", "validating", "prepare", "clean", "verify", "removing", "branch",
          "session", "finalize", "abort", "done"}

\* Operations on a record know its instance and where they are.
OperationKnows(o) ==
    /\ op[o].step \in StepsOf(Kind[o])
    /\ Kind[o] # "create" /\ op[o].step \notin {"idle", "done"} => op[o].inst # 0
    /\ op[o].step \in {"register", "binding", "bind", "launching"} => op[o].path = Home
    /\ op[o].step \in {"binding", "bind", "launching"} => op[o].inst # 0
    /\ op[o].step \in {"moving", "save", "back"} => op[o].path \in Paths /\ op[o].to \in Paths
    /\ row[o] \in {"completed", "failed"} => op[o].step = "done"

\* A record has an instance and a place.
GoodRecord(r) == r \in Records /\ (r # NoRecord => r.inst # 0 /\ r.path \in Paths)

Known ==
    /\ InstancesBounded
    /\ GoodRecord(record)
    /\ \A o \in Ops : OperationKnows(o)

VarTypes ==
    /\ checkout \in Paths \cup {Nowhere}
    /\ branch \in {"none", "base", "ahead"}
    /\ session \in BOOLEAN
    /\ kept \subseteq Artifacts /\ unseen \subseteq Artifacts
    /\ scans \in 0 .. MaxScans /\ trouble \in 0 .. MaxTrouble
    /\ {unbound, astray, crashed} \subseteq BOOLEAN
    /\ cancelled \subseteq Ops

RowTypes ==
    /\ row \in [Ops -> {"none", "running", "completed", "failed"}]
    /\ op \in [Ops -> Threads]

Scans == [step : {"idle", "scanned", "read"}, at : Paths \cup {Nowhere},
          head : {"none", "base", "ahead"}, rec : Records]

RecordTypes ==
    /\ record \in Records
    /\ record.inst = 0 <=> record = NoRecord
    /\ recon \in Scans

\* TypeOK, by what it is about.
LEMMA TypeParts == TypeOK <=> VarTypes /\ RowTypes /\ RecordTypes
  BY DEF TypeOK, VarTypes, RowTypes, RecordTypes, Threads, Scans

\* What the assumptions give.
LEMMA Constants ==
    /\ Home \in Paths /\ Nowhere \notin Paths
    /\ MaxScans \in Nat /\ MaxTrouble \in Nat
    /\ Kind \in [Ops -> {"create", "move", "remove"}]
    /\ \A o, p \in Ops : Kind[o] = "create" /\ Kind[p] = "create" => o = p
  BY PathsAssumption, BoundsAssumption, KindAssumption DEF Nowhere

\* Threads that have not begun, and that have ended.
LEMMA FreshType == Fresh \in Threads /\ Fresh.inst = 0
<1>1. 0 \in 0 .. MaxScans + 1
  BY Constants
<1>2. QED
  BY <1>1 DEF Fresh, Threads, Steps

LEMMA ChangedFresh ==
    ASSUME NEW t \in Threads, NEW f \in Threads, f.inst = 0
    PROVE  /\ [f EXCEPT !.step = "done", !.session = t.session] \in Threads
           /\ [f EXCEPT !.step = "done", !.session = t.session].step = "done"
           /\ [f EXCEPT !.step = "done", !.session = t.session].inst = 0
           /\ [f EXCEPT !.step = "done", !.session = t.session].session = t.session
<1>1. "done" \in Steps
  BY DEF Steps
<1>2. QED
  BY <1>1 DEF Threads

LEMMA EndedType ==
    ASSUME NEW t \in Threads
    PROVE  /\ Ended(t) \in Threads
           /\ Ended(t).step = "done" /\ Ended(t).inst = 0 /\ Ended(t).session = t.session
<1> DEFINE e == [Fresh EXCEPT !.step = "done", !.session = t.session]
<1>1. Ended(t) = e
  BY DEF Ended
<1>2. e \in Threads /\ e.step = "done" /\ e.inst = 0 /\ e.session = t.session
  BY FreshType, ChangedFresh
<1> HIDE DEF e
<1>3. QED
  BY <1>1, <1>2

LEMMA StepNames ==
    {"creating", "register", "binding", "bind", "launching", "undoSession", "undoRecord",
     "undoTree", "undoBranch", "moving", "save", "back", "validating", "prepare", "clean",
     "verify", "removing", "branch", "session", "finalize", "abort"} \subseteq Steps
  BY DEF Steps

\* An operation changes its own thread.
Goes(o, t) == op' = [op EXCEPT ![o] = t]

LEMMA GoesType ==
    ASSUME op \in [Ops -> Threads], NEW o \in Ops, NEW t \in Threads, Goes(o, t)
    PROVE  op' \in [Ops -> Threads]
  BY DEF Goes

\* Nor does it disturb what others know.
LEMMA GoesOn ==
    ASSUME RowTypes, \A x \in Ops : OperationKnows(x),
           NEW o \in Ops, NEW t \in Threads, Goes(o, t),
           NEW s, row' = row \/ row' = [row EXCEPT ![o] = s], OperationKnows(o)'
    PROVE  \A x \in Ops : OperationKnows(x)'
<1> SUFFICES ASSUME NEW x \in Ops, x # o PROVE OperationKnows(x)'
  OBVIOUS
<1>1. op'[x] = op[x] /\ row'[x] = row[x] /\ OperationKnows(x)
  BY DEF RowTypes, Goes
<1>2. QED
  BY <1>1 DEF OperationKnows

\* No record is told from a record by its instance.
LEMMA NoRecordType == NoRecord \in Records /\ NoRecord.inst = 0 /\ NoRecord.life = "none"
                      /\ NoRecord.session = FALSE /\ NoScan \in Scans
  BY Constants DEF NoRecord, Records, NoScan, Scans

\* A record that is changed stays one.
LEMMA RecordBound ==
    ASSUME NEW r \in Records, r.inst # 0, r.path \in Paths
    PROVE  GoodRecord([r EXCEPT !.session = TRUE])
  BY DEF GoodRecord, Records

LEMMA RecordMoved ==
    ASSUME NEW r \in Records, r.inst # 0, NEW p \in Paths, NEW h \in {"none", "base", "ahead"}
    PROVE  GoodRecord([r EXCEPT !.path = p, !.head = h])
  BY DEF GoodRecord, Records

LEMMA RecordLives ==
    ASSUME NEW r \in Records, r.inst # 0, r.path \in Paths,
           NEW l \in {"active", "missing", "removing"}
    PROVE  GoodRecord([r EXCEPT !.life = l])
  BY DEF GoodRecord, Records

LEMMA RecordSeen ==
    ASSUME NEW r \in Records, r.inst # 0, NEW p \in Paths, NEW h \in {"none", "base", "ahead"}
    PROVE  GoodRecord([r EXCEPT !.path = p, !.head = h, !.life = "active"])
  BY DEF GoodRecord, Records

\* So is one that is made or adopted.
LEMMA NewRecord ==
    ASSUME NEW p \in Paths, NEW h \in {"none", "base", "ahead"}, NEW i \in 0 .. MaxScans + 1, i # 0
    PROVE  GoodRecord([inst |-> i, path |-> p, head |-> h, session |-> FALSE, life |-> "active"])
  BY DEF GoodRecord, Records

\* Every step keeps the types of what is not a record.
LEMMA VarTypesStep ==
    ASSUME TypeOK, Known, [Next]_vars
    PROVE  VarTypes'
<1>a. VarTypes /\ RowTypes /\ RecordTypes
  BY TypeParts
<1> USE Constants
<1>1. ASSUME NEW o \in Ops, BeginCreate(o)
      PROVE  VarTypes'
  BY <1>1, <1>a
     DEF VarTypes, BeginCreate, Go, At, outside, othersKeep, historyVars
<1>2. ASSUME NEW o \in Ops, CreateGivesUp(o)
      PROVE  VarTypes'
  BY <1>2, <1>a
     DEF VarTypes, CreateGivesUp, Undo, Go, Mishap, At, outside,
         othersKeep, historyVars
<1>3. ASSUME NEW o \in Ops, Add(o)
      PROVE  VarTypes'
  BY <1>3, <1>a
     DEF VarTypes, Add, At, outside, othersKeep, historyVars
<1>4. ASSUME NEW o \in Ops, AddBreaks(o)
      PROVE  VarTypes'
  BY <1>4, <1>a
     DEF VarTypes, AddBreaks, Undo, Go, Mishap, At, outside, othersKeep,
         historyVars, Artifacts
<1>5. ASSUME NEW o \in Ops, Register(o)
      PROVE  VarTypes'
  BY <1>5, <1>a
     DEF VarTypes, Register, Undo, Go, At, outside, othersKeep, historyVars
<1>6. ASSUME NEW o \in Ops, OpenSession(o)
      PROVE  VarTypes'
  BY <1>6, <1>a
     DEF VarTypes, OpenSession, Undo, Go, Mishap, At, outside, othersKeep,
         historyVars, Artifacts
<1>7. ASSUME NEW o \in Ops, Bind(o)
      PROVE  VarTypes'
  BY <1>7, <1>a
     DEF VarTypes, Bind, Undo, Go, At, outside, othersKeep, historyVars
<1>8. ASSUME NEW o \in Ops, Launch(o)
      PROVE  VarTypes'
  BY <1>8, <1>a
     DEF VarTypes, Launch, Undo, Go, Settle, At, outside, othersKeep,
         historyVars
<1>9. ASSUME NEW o \in Ops, UndoSession(o)
      PROVE  VarTypes'
  <2>1. trouble' \in 0 .. MaxTrouble
    BY <1>9, <1>a DEF VarTypes, UndoSession, othersKeep
  <2>2. checkout' \in Paths \cup {Nowhere} /\ branch' \in {"none", "base", "ahead"}
        /\ session' \in BOOLEAN /\ astray' \in BOOLEAN
    BY <1>9, <1>a DEF VarTypes, RowTypes, Threads, UndoSession, othersKeep
  <2>3. kept' \subseteq Artifacts /\ unseen' \subseteq Artifacts
    BY <1>9, <1>a DEF VarTypes, Artifacts, UndoSession, othersKeep
  <2>4. QED
    BY <1>9, <1>a, <2>1, <2>2, <2>3
       DEF VarTypes, UndoSession, othersKeep, Fails
<1>10. ASSUME NEW o \in Ops, UndoRecord(o)
      PROVE  VarTypes'
  BY <1>10, <1>a
     DEF VarTypes, UndoRecord, Go, At, outside, othersKeep, historyVars, Artifacts
<1>11. ASSUME NEW o \in Ops, UndoTree(o)
      PROVE  VarTypes'
  BY <1>11, <1>a
     DEF VarTypes, UndoTree, Go, At, outside, othersKeep, historyVars, Artifacts
<1>12. ASSUME NEW o \in Ops, UndoBranch(o)
      PROVE  VarTypes'
  <2>1. trouble' \in 0 .. MaxTrouble
    BY <1>12, <1>a DEF VarTypes, UndoBranch, othersKeep
  <2>2. checkout' \in Paths \cup {Nowhere} /\ branch' \in {"none", "base", "ahead"}
        /\ session' \in BOOLEAN /\ astray' \in BOOLEAN
    BY <1>12, <1>a DEF VarTypes, RowTypes, Threads, UndoBranch, othersKeep
  <2>3. kept' \subseteq Artifacts /\ unseen' \subseteq Artifacts
    BY <1>12, <1>a DEF VarTypes, Artifacts, UndoBranch, othersKeep
  <2>4. QED
    BY <1>12, <1>a, <2>1, <2>2, <2>3
       DEF VarTypes, UndoBranch, othersKeep, Fails
<1>13. ASSUME NEW o \in Ops, NEW to \in Paths, MoveChecks(o, to)
      PROVE  VarTypes'
  BY <1>13, <1>a
     DEF VarTypes, MoveChecks, Fails, Settle, At, outside, othersKeep,
         historyVars
<1>14. ASSUME NEW o \in Ops, GitMoves(o)
      PROVE  VarTypes'
  BY <1>14, <1>a
     DEF VarTypes, GitMoves, Fails, Settle, Go, At, outside, othersKeep,
         historyVars, RowTypes, Threads, Known, OperationKnows
<1>15. ASSUME NEW o \in Ops, GitMoveBreaks(o)
      PROVE  VarTypes'
  BY <1>15, <1>a
     DEF VarTypes, GitMoveBreaks, Fails, Settle, Mishap, At, outside,
         othersKeep, historyVars, RowTypes, Threads, Known, OperationKnows
<1>16. ASSUME NEW o \in Ops, MoveSaved(o)
      PROVE  VarTypes'
  BY <1>16, <1>a
     DEF VarTypes, MoveSaved, Settle, At, outside, othersKeep, historyVars
<1>17. ASSUME NEW o \in Ops, MoveNotSaved(o)
      PROVE  VarTypes'
  BY <1>17, <1>a
     DEF VarTypes, MoveNotSaved, Go, Mishap, At, outside, othersKeep,
         historyVars
<1>18. ASSUME NEW o \in Ops, MoveBack(o)
      PROVE  VarTypes'
  <2>1. trouble' \in 0 .. MaxTrouble
    BY <1>18, <1>a DEF VarTypes, MoveBack, othersKeep
  <2>2. checkout' \in Paths \cup {Nowhere} /\ branch' \in {"none", "base", "ahead"}
        /\ session' \in BOOLEAN /\ astray' \in BOOLEAN
    BY <1>18, <1>a DEF VarTypes, RowTypes, Threads, MoveBack, othersKeep
  <2>3. kept' \subseteq Artifacts /\ unseen' \subseteq Artifacts
    BY <1>18, <1>a DEF VarTypes, Artifacts, MoveBack, othersKeep
  <2>4. QED
    BY <1>18, <1>a, <2>1, <2>2, <2>3
       DEF VarTypes, MoveBack, othersKeep, Fails
<1>19. ASSUME NEW o \in Ops, Preflight(o)
      PROVE  VarTypes'
  BY <1>19, <1>a
     DEF VarTypes, Preflight, Fails, Settle, At, outside, othersKeep,
         historyVars
<1>20. ASSUME NEW o \in Ops, Prepare(o)
      PROVE  VarTypes'
  BY <1>20, <1>a
     DEF VarTypes, Prepare, Fails, Settle, At, outside, othersKeep,
         historyVars
<1>21. ASSUME NEW o \in Ops, RemoveGivesUp(o)
      PROVE  VarTypes'
  BY <1>21, <1>a
     DEF VarTypes, RemoveGivesUp, Go, Mishap, At, outside, othersKeep,
         historyVars
<1>22. ASSUME NEW o \in Ops, Clean(o)
      PROVE  VarTypes'
  BY <1>22, <1>a
     DEF VarTypes, Clean, Go, At, outside, othersKeep, historyVars
<1>23. ASSUME NEW o \in Ops, Verify(o)
      PROVE  VarTypes'
  BY <1>23, <1>a
     DEF VarTypes, Verify, Go, At, outside, othersKeep, historyVars
<1>24. ASSUME NEW o \in Ops, GitRemoves(o)
      PROVE  VarTypes'
  BY <1>24, <1>a
     DEF VarTypes, GitRemoves, Go, Mishap, At, outside, othersKeep,
         historyVars
<1>25. ASSUME NEW o \in Ops, RemoveBranch(o)
      PROVE  VarTypes'
  BY <1>25, <1>a
     DEF VarTypes, RemoveBranch, Go, At, outside, othersKeep, historyVars
<1>26. ASSUME NEW o \in Ops, RemoveSession(o)
      PROVE  VarTypes'
  BY <1>26, <1>a
     DEF VarTypes, RemoveSession, Go, At, outside, othersKeep, historyVars
<1>27. ASSUME NEW o \in Ops, Finalize(o)
      PROVE  VarTypes'
  BY <1>27, <1>a
     DEF VarTypes, Finalize, Go, Settle, At, outside, othersKeep,
         historyVars
<1>28. ASSUME NEW o \in Ops, Abort(o)
      PROVE  VarTypes'
  BY <1>28, <1>a
     DEF VarTypes, Abort, Fails, Settle, At, outside, othersKeep,
         historyVars
<1>29. ASSUME NEW o \in Ops, BeginOther(o)
      PROVE  VarTypes'
  BY <1>29, <1>a
     DEF VarTypes, BeginOther, outside, othersKeep, historyVars
<1>30. ASSUME NEW o \in Ops, GivesUp(o)
      PROVE  VarTypes'
  BY <1>30, <1>a
     DEF VarTypes, GivesUp, Fails, Settle, Mishap, At, outside, othersKeep,
         historyVars
<1>31. ASSUME NEW o \in Ops, Cancel(o)
      PROVE  VarTypes'
  BY <1>31, <1>a
     DEF VarTypes, Cancel, outside, othersKeep, historyVars
<1>32. CASE Scan
  BY <1>32, <1>a
     DEF VarTypes, Scan, reconKeeps, NoScan, outside, othersKeep,
         historyVars
<1>33. CASE ReadRecords
  BY <1>33, <1>a
     DEF VarTypes, ReadRecords, reconKeeps, outside, othersKeep,
         historyVars
<1>34. CASE Reconcile
  BY <1>34, <1>a
     DEF VarTypes, Reconcile, reconKeeps, NoScan, Adopt, Refresh,
         MarkMissing, LeaveAlone, Found, outside, othersKeep,
         historyVars
<1>35. ASSUME NEW to \in Paths \cup {Nowhere}, UserMoves(to)
      PROVE  VarTypes'
  BY <1>35, <1>a
     DEF VarTypes, UserMoves, otherActs, outside, othersKeep, historyVars
<1>36. CASE AgentCommits
  BY <1>36, <1>a
     DEF VarTypes, AgentCommits, otherActs, outside, othersKeep,
         historyVars
<1>37. CASE Crash
  BY <1>37, <1>a
     DEF VarTypes, Crash, otherActs, NoScan, outside, othersKeep,
         historyVars
<1>38. CASE UNCHANGED vars
  BY <1>38, <1>a
     DEF VarTypes, vars, outside, othersKeep, historyVars
<1>39. QED
  BY <1>1, <1>2, <1>3, <1>4, <1>5, <1>6, <1>7, <1>8, <1>9, <1>10, <1>11,
     <1>12, <1>13, <1>14, <1>15, <1>16, <1>17, <1>18, <1>19, <1>20, <1>21,
     <1>22, <1>23, <1>24, <1>25, <1>26, <1>27, <1>28, <1>29, <1>30, <1>31,
     <1>32, <1>33, <1>34, <1>35, <1>36, <1>37, <1>38
     DEF Next, Create, Move, Remove

\* Every thread goes from one of its steps to another, and knows what it needs.
LEMMA ThreadStep ==
    ASSUME TypeOK, Known, [Next]_vars
    PROVE  RowTypes' /\ \A x \in Ops : OperationKnows(x)'
<1>a. RowTypes /\ RecordTypes /\ checkout \in Paths \cup {Nowhere}
      /\ branch \in {"none", "base", "ahead"}
  BY TypeParts DEF VarTypes
<1>b. \A o \in Ops : op[o] \in Threads
  BY <1>a DEF RowTypes
<1>c. /\ record.inst \in 0 .. MaxScans + 1 /\ record.path \in Paths \cup {Nowhere}
      /\ record.head \in {"none", "base", "ahead"} /\ record.session \in BOOLEAN
      /\ record # NoRecord => record.inst # 0 /\ record.path \in Paths
  BY <1>a DEF RecordTypes, Records, Known, GoodRecord
<1>d. 1 \in 0 .. MaxScans + 1
  BY Constants
<1>e. \A x \in Ops : OperationKnows(x)
  BY DEF Known
<1> USE Constants
<1>1. ASSUME NEW o \in Ops, BeginCreate(o)
      PROVE  RowTypes' /\ \A x \in Ops : OperationKnows(x)'
  <2>1.    /\ Goes(o, [op[o] EXCEPT !.step = "creating"])
           /\ row' = [row EXCEPT ![o] = "running"]
    BY <1>1, <1>a, <1>e DEF Goes, RowTypes, BeginCreate, Go, At, outside, othersKeep,
           historyVars
  <2>2. /\ op[o] \in Threads /\ OperationKnows(o)
        /\ row[o] \in {"none", "running", "completed", "failed"}
    BY <1>a, <1>b, <1>e DEF RowTypes
  <2>3. Kind[o] = "create" /\ op[o].step # "done"
    BY <1>1 DEF BeginCreate, At
  <2>4. CASE /\ Goes(o, [op[o] EXCEPT !.step = "creating"])
              /\ row' = [row EXCEPT ![o] = "running"]
    <3>1. [op[o] EXCEPT !.step = "creating"] \in Threads
      BY <1>a, <1>c, <1>d, <2>2, StepNames DEF Threads
    <3>2. op'[o] = [op[o] EXCEPT !.step = "creating"] /\ row'[o] \in {"running"}
      BY <1>a, <2>4 DEF RowTypes, Goes
    <3>3. /\ op'[o].step = "creating" /\ op'[o].inst = op[o].inst
          /\ op'[o].path = op[o].path /\ op'[o].to = op[o].to
      BY <2>2, <3>2 DEF Threads
    <3>4. OperationKnows(o)'
      BY <1>1, <1>c, <2>2, <2>3, <2>4, <3>2, <3>3, NoRecordType
         DEF OperationKnows, StepsOf, BeginCreate, At
    <3>5. QED
      BY <1>a, <1>e, <2>4, <3>1, <3>4, GoesType, GoesOn DEF RowTypes
  <2>5. QED
    BY <2>1, <2>4
<1>2. ASSUME NEW o \in Ops, CreateGivesUp(o)
      PROVE  RowTypes' /\ \A x \in Ops : OperationKnows(x)'
  <2>1.    /\ Goes(o, [op[o] EXCEPT !.step = "undoSession"])
           /\ row' = row
    BY <1>2, <1>a, <1>e DEF Goes, RowTypes, CreateGivesUp, Undo, Go, Mishap, At, outside,
           othersKeep, historyVars
  <2>2. /\ op[o] \in Threads /\ OperationKnows(o)
        /\ row[o] \in {"none", "running", "completed", "failed"}
    BY <1>a, <1>b, <1>e DEF RowTypes
  <2>3. Kind[o] = "create" /\ op[o].step # "done" /\ op[o].step # "idle"
    BY <1>2 DEF CreateGivesUp, At
  <2>4. CASE /\ Goes(o, [op[o] EXCEPT !.step = "undoSession"])
              /\ row' = row
    <3>1. [op[o] EXCEPT !.step = "undoSession"] \in Threads
      BY <1>a, <1>c, <1>d, <2>2, StepNames DEF Threads
    <3>2. op'[o] = [op[o] EXCEPT !.step = "undoSession"] /\ row'[o] \in {row[o]}
      BY <1>a, <2>4 DEF RowTypes, Goes
    <3>3. /\ op'[o].step = "undoSession" /\ op'[o].inst = op[o].inst
          /\ op'[o].path = op[o].path /\ op'[o].to = op[o].to
      BY <2>2, <3>2 DEF Threads
    <3>4. OperationKnows(o)'
      BY <1>2, <1>c, <2>2, <2>3, <2>4, <3>2, <3>3, NoRecordType
         DEF OperationKnows, StepsOf, CreateGivesUp, At
    <3>5. QED
      BY <1>a, <1>e, <2>4, <3>1, <3>4, GoesType, GoesOn DEF RowTypes
  <2>5. QED
    BY <2>1, <2>4
<1>3. ASSUME NEW o \in Ops, Add(o)
      PROVE  RowTypes' /\ \A x \in Ops : OperationKnows(x)'
  <2>1.    /\ Goes(o, [op[o] EXCEPT !.step = "register", !.path = Home])
           /\ row' = row
    BY <1>3, <1>a, <1>e DEF Goes, RowTypes, Add, At, outside, othersKeep, historyVars
  <2>2. /\ op[o] \in Threads /\ OperationKnows(o)
        /\ row[o] \in {"none", "running", "completed", "failed"}
    BY <1>a, <1>b, <1>e DEF RowTypes
  <2>3. Kind[o] = "create" /\ op[o].step # "done" /\ op[o].step # "idle"
    BY <1>3 DEF Add, At
  <2>4. CASE /\ Goes(o, [op[o] EXCEPT !.step = "register", !.path = Home])
              /\ row' = row
    <3>1. [op[o] EXCEPT !.step = "register", !.path = Home] \in Threads
      BY <1>a, <1>c, <1>d, <2>2, StepNames DEF Threads
    <3>2. op'[o] = [op[o] EXCEPT !.step = "register", !.path = Home] /\ row'[o] \in {row[o]}
      BY <1>a, <2>4 DEF RowTypes, Goes
    <3>3. /\ op'[o].step = "register" /\ op'[o].inst = op[o].inst /\ op'[o].path = Home
          /\ op'[o].to = op[o].to
      BY <2>2, <3>2 DEF Threads
    <3>4. OperationKnows(o)'
      BY <1>3, <1>c, <2>2, <2>3, <2>4, <3>2, <3>3, NoRecordType
         DEF OperationKnows, StepsOf, Add, At
    <3>5. QED
      BY <1>a, <1>e, <2>4, <3>1, <3>4, GoesType, GoesOn DEF RowTypes
  <2>5. QED
    BY <2>1, <2>4
<1>4. ASSUME NEW o \in Ops, AddBreaks(o)
      PROVE  RowTypes' /\ \A x \in Ops : OperationKnows(x)'
  <2>1.    /\ Goes(o, [op[o] EXCEPT !.step = "undoSession"])
           /\ row' = row
    BY <1>4, <1>a, <1>e DEF Goes, RowTypes, AddBreaks, Undo, Go, Mishap, At, outside,
           othersKeep, historyVars
  <2>2. /\ op[o] \in Threads /\ OperationKnows(o)
        /\ row[o] \in {"none", "running", "completed", "failed"}
    BY <1>a, <1>b, <1>e DEF RowTypes
  <2>3. Kind[o] = "create" /\ op[o].step # "done" /\ op[o].step # "idle"
    BY <1>4 DEF AddBreaks, At
  <2>4. CASE /\ Goes(o, [op[o] EXCEPT !.step = "undoSession"])
              /\ row' = row
    <3>1. [op[o] EXCEPT !.step = "undoSession"] \in Threads
      BY <1>a, <1>c, <1>d, <2>2, StepNames DEF Threads
    <3>2. op'[o] = [op[o] EXCEPT !.step = "undoSession"] /\ row'[o] \in {row[o]}
      BY <1>a, <2>4 DEF RowTypes, Goes
    <3>3. /\ op'[o].step = "undoSession" /\ op'[o].inst = op[o].inst
          /\ op'[o].path = op[o].path /\ op'[o].to = op[o].to
      BY <2>2, <3>2 DEF Threads
    <3>4. OperationKnows(o)'
      BY <1>4, <1>c, <2>2, <2>3, <2>4, <3>2, <3>3, NoRecordType
         DEF OperationKnows, StepsOf, AddBreaks, At
    <3>5. QED
      BY <1>a, <1>e, <2>4, <3>1, <3>4, GoesType, GoesOn DEF RowTypes
  <2>5. QED
    BY <2>1, <2>4
<1>5. ASSUME NEW o \in Ops, Register(o)
      PROVE  RowTypes' /\ \A x \in Ops : OperationKnows(x)'
  <2>1. \/ /\ Goes(o, [op[o] EXCEPT !.step = "binding", !.inst = 1])
           /\ row' = row
           /\ op[o].path = Home
        \/ /\ Goes(o, [op[o] EXCEPT !.step = "undoSession"])
           /\ row' = row
    BY <1>5, <1>a, <1>e DEF Goes, RowTypes, Register, Undo, Go, At, outside, othersKeep,
           historyVars, OperationKnows
  <2>2. /\ op[o] \in Threads /\ OperationKnows(o)
        /\ row[o] \in {"none", "running", "completed", "failed"}
    BY <1>a, <1>b, <1>e DEF RowTypes
  <2>3. Kind[o] = "create" /\ op[o].step # "done" /\ op[o].step # "idle"
    BY <1>5 DEF Register, At
  <2>4. CASE /\ Goes(o, [op[o] EXCEPT !.step = "binding", !.inst = 1])
              /\ row' = row
              /\ op[o].path = Home
    <3>1. [op[o] EXCEPT !.step = "binding", !.inst = 1] \in Threads
      BY <1>a, <1>c, <1>d, <2>2, StepNames DEF Threads
    <3>2. op'[o] = [op[o] EXCEPT !.step = "binding", !.inst = 1] /\ row'[o] \in {row[o]}
      BY <1>a, <2>4 DEF RowTypes, Goes
    <3>3. /\ op'[o].step = "binding" /\ op'[o].inst = 1 /\ op'[o].path = op[o].path
          /\ op'[o].to = op[o].to
      BY <2>2, <3>2 DEF Threads
    <3>4. OperationKnows(o)'
      BY <1>5, <1>c, <2>2, <2>3, <2>4, <3>2, <3>3, NoRecordType
         DEF OperationKnows, StepsOf, Register, At
    <3>5. QED
      BY <1>a, <1>e, <2>4, <3>1, <3>4, GoesType, GoesOn DEF RowTypes
  <2>5. CASE /\ Goes(o, [op[o] EXCEPT !.step = "undoSession"])
              /\ row' = row
    <3>1. [op[o] EXCEPT !.step = "undoSession"] \in Threads
      BY <1>a, <1>c, <1>d, <2>2, StepNames DEF Threads
    <3>2. op'[o] = [op[o] EXCEPT !.step = "undoSession"] /\ row'[o] \in {row[o]}
      BY <1>a, <2>5 DEF RowTypes, Goes
    <3>3. /\ op'[o].step = "undoSession" /\ op'[o].inst = op[o].inst
          /\ op'[o].path = op[o].path /\ op'[o].to = op[o].to
      BY <2>2, <3>2 DEF Threads
    <3>4. OperationKnows(o)'
      BY <1>5, <1>c, <2>2, <2>3, <2>5, <3>2, <3>3, NoRecordType
         DEF OperationKnows, StepsOf, Register, At
    <3>5. QED
      BY <1>a, <1>e, <2>5, <3>1, <3>4, GoesType, GoesOn DEF RowTypes
  <2>6. QED
    BY <2>1, <2>4, <2>5
<1>6. ASSUME NEW o \in Ops, OpenSession(o)
      PROVE  RowTypes' /\ \A x \in Ops : OperationKnows(x)'
  <2>1. \/ /\ Goes(o, [op[o] EXCEPT !.step = "bind", !.session = TRUE])
           /\ row' = row
        \/ /\ Goes(o, [op[o] EXCEPT !.step = "undoSession"])
           /\ row' = row
    BY <1>6, <1>a, <1>e DEF Goes, RowTypes, OpenSession, Undo, Go, Mishap, At, outside,
           othersKeep, historyVars
  <2>2. /\ op[o] \in Threads /\ OperationKnows(o)
        /\ row[o] \in {"none", "running", "completed", "failed"}
    BY <1>a, <1>b, <1>e DEF RowTypes
  <2>3. Kind[o] = "create" /\ op[o].step # "done" /\ op[o].step # "idle"
    BY <1>6 DEF OpenSession, At
  <2>4. CASE /\ Goes(o, [op[o] EXCEPT !.step = "bind", !.session = TRUE])
              /\ row' = row
    <3>1. [op[o] EXCEPT !.step = "bind", !.session = TRUE] \in Threads
      BY <1>a, <1>c, <1>d, <2>2, StepNames DEF Threads
    <3>2. op'[o] = [op[o] EXCEPT !.step = "bind", !.session = TRUE] /\ row'[o] \in {row[o]}
      BY <1>a, <2>4 DEF RowTypes, Goes
    <3>3. /\ op'[o].step = "bind" /\ op'[o].inst = op[o].inst
          /\ op'[o].path = op[o].path /\ op'[o].to = op[o].to
      BY <2>2, <3>2 DEF Threads
    <3>4. OperationKnows(o)'
      BY <1>6, <1>c, <2>2, <2>3, <2>4, <3>2, <3>3, NoRecordType
         DEF OperationKnows, StepsOf, OpenSession, At
    <3>5. QED
      BY <1>a, <1>e, <2>4, <3>1, <3>4, GoesType, GoesOn DEF RowTypes
  <2>5. CASE /\ Goes(o, [op[o] EXCEPT !.step = "undoSession"])
              /\ row' = row
    <3>1. [op[o] EXCEPT !.step = "undoSession"] \in Threads
      BY <1>a, <1>c, <1>d, <2>2, StepNames DEF Threads
    <3>2. op'[o] = [op[o] EXCEPT !.step = "undoSession"] /\ row'[o] \in {row[o]}
      BY <1>a, <2>5 DEF RowTypes, Goes
    <3>3. /\ op'[o].step = "undoSession" /\ op'[o].inst = op[o].inst
          /\ op'[o].path = op[o].path /\ op'[o].to = op[o].to
      BY <2>2, <3>2 DEF Threads
    <3>4. OperationKnows(o)'
      BY <1>6, <1>c, <2>2, <2>3, <2>5, <3>2, <3>3, NoRecordType
         DEF OperationKnows, StepsOf, OpenSession, At
    <3>5. QED
      BY <1>a, <1>e, <2>5, <3>1, <3>4, GoesType, GoesOn DEF RowTypes
  <2>6. QED
    BY <2>1, <2>4, <2>5
<1>7. ASSUME NEW o \in Ops, Bind(o)
      PROVE  RowTypes' /\ \A x \in Ops : OperationKnows(x)'
  <2>1. \/ /\ Goes(o, [op[o] EXCEPT !.step = "launching", !.to = record.path])
           /\ row' = row
        \/ /\ Goes(o, [op[o] EXCEPT !.step = "undoSession"])
           /\ row' = row
    BY <1>7, <1>a, <1>e DEF Goes, RowTypes, Bind, Undo, Go, At, outside, othersKeep,
           historyVars
  <2>2. /\ op[o] \in Threads /\ OperationKnows(o)
        /\ row[o] \in {"none", "running", "completed", "failed"}
    BY <1>a, <1>b, <1>e DEF RowTypes
  <2>3. Kind[o] = "create" /\ op[o].step # "done" /\ op[o].step # "idle"
    BY <1>7 DEF Bind, At
  <2>4. CASE /\ Goes(o, [op[o] EXCEPT !.step = "launching", !.to = record.path])
              /\ row' = row
    <3>1. [op[o] EXCEPT !.step = "launching", !.to = record.path] \in Threads
      BY <1>a, <1>c, <1>d, <2>2, StepNames DEF Threads
    <3>2. /\ op'[o] = [op[o] EXCEPT !.step = "launching", !.to = record.path]
          /\ row'[o] \in {row[o]}
      BY <1>a, <2>4 DEF RowTypes, Goes
    <3>3. /\ op'[o].step = "launching" /\ op'[o].inst = op[o].inst
          /\ op'[o].path = op[o].path /\ op'[o].to = record.path
      BY <2>2, <3>2 DEF Threads
    <3>4. OperationKnows(o)'
      BY <1>7, <1>c, <2>2, <2>3, <2>4, <3>2, <3>3, NoRecordType
         DEF OperationKnows, StepsOf, Bind, At
    <3>5. QED
      BY <1>a, <1>e, <2>4, <3>1, <3>4, GoesType, GoesOn DEF RowTypes
  <2>5. CASE /\ Goes(o, [op[o] EXCEPT !.step = "undoSession"])
              /\ row' = row
    <3>1. [op[o] EXCEPT !.step = "undoSession"] \in Threads
      BY <1>a, <1>c, <1>d, <2>2, StepNames DEF Threads
    <3>2. op'[o] = [op[o] EXCEPT !.step = "undoSession"] /\ row'[o] \in {row[o]}
      BY <1>a, <2>5 DEF RowTypes, Goes
    <3>3. /\ op'[o].step = "undoSession" /\ op'[o].inst = op[o].inst
          /\ op'[o].path = op[o].path /\ op'[o].to = op[o].to
      BY <2>2, <3>2 DEF Threads
    <3>4. OperationKnows(o)'
      BY <1>7, <1>c, <2>2, <2>3, <2>5, <3>2, <3>3, NoRecordType
         DEF OperationKnows, StepsOf, Bind, At
    <3>5. QED
      BY <1>a, <1>e, <2>5, <3>1, <3>4, GoesType, GoesOn DEF RowTypes
  <2>6. QED
    BY <2>1, <2>4, <2>5
<1>8. ASSUME NEW o \in Ops, Launch(o)
      PROVE  RowTypes' /\ \A x \in Ops : OperationKnows(x)'
  <2>1. \/ /\ Goes(o, Ended(op[o]))
           /\ row' = [row EXCEPT ![o] = "completed"]
        \/ /\ Goes(o, [op[o] EXCEPT !.step = "undoSession"])
           /\ row' = row
    BY <1>8, <1>a, <1>e DEF Goes, RowTypes, Launch, Undo, Go, Settle, At, outside, othersKeep,
           historyVars
  <2>2. /\ op[o] \in Threads /\ OperationKnows(o)
        /\ row[o] \in {"none", "running", "completed", "failed"}
    BY <1>a, <1>b, <1>e DEF RowTypes
  <2>3. Kind[o] = "create" /\ op[o].step # "done" /\ op[o].step # "idle"
    BY <1>8 DEF Launch, At
  <2>4. CASE /\ Goes(o, Ended(op[o]))
              /\ row' = [row EXCEPT ![o] = "completed"]
    <3>1. Ended(op[o]) \in Threads
      BY <2>2, EndedType
    <3>2. op'[o] = Ended(op[o]) /\ row'[o] \in {"completed"}
      BY <1>a, <2>4 DEF RowTypes, Goes
    <3>3. op'[o].step = "done"
      BY <2>2, <3>2, EndedType
    <3>4. OperationKnows(o)'
      BY <1>8, <1>c, <2>2, <2>3, <2>4, <3>2, <3>3, NoRecordType
         DEF OperationKnows, StepsOf, Launch, At
    <3>5. QED
      BY <1>a, <1>e, <2>4, <3>1, <3>4, GoesType, GoesOn DEF RowTypes
  <2>5. CASE /\ Goes(o, [op[o] EXCEPT !.step = "undoSession"])
              /\ row' = row
    <3>1. [op[o] EXCEPT !.step = "undoSession"] \in Threads
      BY <1>a, <1>c, <1>d, <2>2, StepNames DEF Threads
    <3>2. op'[o] = [op[o] EXCEPT !.step = "undoSession"] /\ row'[o] \in {row[o]}
      BY <1>a, <2>5 DEF RowTypes, Goes
    <3>3. /\ op'[o].step = "undoSession" /\ op'[o].inst = op[o].inst
          /\ op'[o].path = op[o].path /\ op'[o].to = op[o].to
      BY <2>2, <3>2 DEF Threads
    <3>4. OperationKnows(o)'
      BY <1>8, <1>c, <2>2, <2>3, <2>5, <3>2, <3>3, NoRecordType
         DEF OperationKnows, StepsOf, Launch, At
    <3>5. QED
      BY <1>a, <1>e, <2>5, <3>1, <3>4, GoesType, GoesOn DEF RowTypes
  <2>6. QED
    BY <2>1, <2>4, <2>5
<1>9. ASSUME NEW o \in Ops, UndoSession(o)
      PROVE  RowTypes' /\ \A x \in Ops : OperationKnows(x)'
  <2>1.    /\ Goes(o, [op[o] EXCEPT !.step = "undoRecord"])
           /\ row' = row
    BY <1>9, <1>a, <1>e DEF Goes, RowTypes, UndoSession, Go, At, outside, othersKeep,
           historyVars
  <2>2. /\ op[o] \in Threads /\ OperationKnows(o)
        /\ row[o] \in {"none", "running", "completed", "failed"}
    BY <1>a, <1>b, <1>e DEF RowTypes
  <2>3. Kind[o] = "create" /\ op[o].step # "done" /\ op[o].step # "idle"
    BY <1>9 DEF UndoSession, At
  <2>4. CASE /\ Goes(o, [op[o] EXCEPT !.step = "undoRecord"])
              /\ row' = row
    <3>1. [op[o] EXCEPT !.step = "undoRecord"] \in Threads
      BY <1>a, <1>c, <1>d, <2>2, StepNames DEF Threads
    <3>2. op'[o] = [op[o] EXCEPT !.step = "undoRecord"] /\ row'[o] \in {row[o]}
      BY <1>a, <2>4 DEF RowTypes, Goes
    <3>3. /\ op'[o].step = "undoRecord" /\ op'[o].inst = op[o].inst
          /\ op'[o].path = op[o].path /\ op'[o].to = op[o].to
      BY <2>2, <3>2 DEF Threads
    <3>4. OperationKnows(o)'
      BY <1>9, <1>c, <2>2, <2>3, <2>4, <3>2, <3>3, NoRecordType
         DEF OperationKnows, StepsOf, UndoSession, At
    <3>5. QED
      BY <1>a, <1>e, <2>4, <3>1, <3>4, GoesType, GoesOn DEF RowTypes
  <2>5. QED
    BY <2>1, <2>4
<1>10. ASSUME NEW o \in Ops, UndoRecord(o)
      PROVE  RowTypes' /\ \A x \in Ops : OperationKnows(x)'
  <2>1.    /\ Goes(o, [op[o] EXCEPT !.step = "undoTree"])
           /\ row' = row
    BY <1>10, <1>a, <1>e DEF Goes, RowTypes, UndoRecord, Go, At, outside, othersKeep,
           historyVars
  <2>2. /\ op[o] \in Threads /\ OperationKnows(o)
        /\ row[o] \in {"none", "running", "completed", "failed"}
    BY <1>a, <1>b, <1>e DEF RowTypes
  <2>3. Kind[o] = "create" /\ op[o].step # "done" /\ op[o].step # "idle"
    BY <1>10 DEF UndoRecord, At
  <2>4. CASE /\ Goes(o, [op[o] EXCEPT !.step = "undoTree"])
              /\ row' = row
    <3>1. [op[o] EXCEPT !.step = "undoTree"] \in Threads
      BY <1>a, <1>c, <1>d, <2>2, StepNames DEF Threads
    <3>2. op'[o] = [op[o] EXCEPT !.step = "undoTree"] /\ row'[o] \in {row[o]}
      BY <1>a, <2>4 DEF RowTypes, Goes
    <3>3. /\ op'[o].step = "undoTree" /\ op'[o].inst = op[o].inst
          /\ op'[o].path = op[o].path /\ op'[o].to = op[o].to
      BY <2>2, <3>2 DEF Threads
    <3>4. OperationKnows(o)'
      BY <1>10, <1>c, <2>2, <2>3, <2>4, <3>2, <3>3, NoRecordType
         DEF OperationKnows, StepsOf, UndoRecord, At
    <3>5. QED
      BY <1>a, <1>e, <2>4, <3>1, <3>4, GoesType, GoesOn DEF RowTypes
  <2>5. QED
    BY <2>1, <2>4
<1>11. ASSUME NEW o \in Ops, UndoTree(o)
      PROVE  RowTypes' /\ \A x \in Ops : OperationKnows(x)'
  <2>1.    /\ Goes(o, [op[o] EXCEPT !.step = "undoBranch"])
           /\ row' = row
    BY <1>11, <1>a, <1>e DEF Goes, RowTypes, UndoTree, Go, At, outside, othersKeep, historyVars
  <2>2. /\ op[o] \in Threads /\ OperationKnows(o)
        /\ row[o] \in {"none", "running", "completed", "failed"}
    BY <1>a, <1>b, <1>e DEF RowTypes
  <2>3. Kind[o] = "create" /\ op[o].step # "done" /\ op[o].step # "idle"
    BY <1>11 DEF UndoTree, At
  <2>4. CASE /\ Goes(o, [op[o] EXCEPT !.step = "undoBranch"])
              /\ row' = row
    <3>1. [op[o] EXCEPT !.step = "undoBranch"] \in Threads
      BY <1>a, <1>c, <1>d, <2>2, StepNames DEF Threads
    <3>2. op'[o] = [op[o] EXCEPT !.step = "undoBranch"] /\ row'[o] \in {row[o]}
      BY <1>a, <2>4 DEF RowTypes, Goes
    <3>3. /\ op'[o].step = "undoBranch" /\ op'[o].inst = op[o].inst
          /\ op'[o].path = op[o].path /\ op'[o].to = op[o].to
      BY <2>2, <3>2 DEF Threads
    <3>4. OperationKnows(o)'
      BY <1>11, <1>c, <2>2, <2>3, <2>4, <3>2, <3>3, NoRecordType
         DEF OperationKnows, StepsOf, UndoTree, At
    <3>5. QED
      BY <1>a, <1>e, <2>4, <3>1, <3>4, GoesType, GoesOn DEF RowTypes
  <2>5. QED
    BY <2>1, <2>4
<1>12. ASSUME NEW o \in Ops, UndoBranch(o)
      PROVE  RowTypes' /\ \A x \in Ops : OperationKnows(x)'
  <2>1.    /\ Goes(o, Ended(op[o]))
           /\ row' = [row EXCEPT ![o] = "failed"]
    BY <1>12, <1>a, <1>e DEF Goes, RowTypes, UndoBranch, Settle, At, outside, othersKeep,
           historyVars
  <2>2. /\ op[o] \in Threads /\ OperationKnows(o)
        /\ row[o] \in {"none", "running", "completed", "failed"}
    BY <1>a, <1>b, <1>e DEF RowTypes
  <2>3. Kind[o] = "create" /\ op[o].step # "done" /\ op[o].step # "idle"
    BY <1>12 DEF UndoBranch, At
  <2>4. CASE /\ Goes(o, Ended(op[o]))
              /\ row' = [row EXCEPT ![o] = "failed"]
    <3>1. Ended(op[o]) \in Threads
      BY <2>2, EndedType
    <3>2. op'[o] = Ended(op[o]) /\ row'[o] \in {"failed"}
      BY <1>a, <2>4 DEF RowTypes, Goes
    <3>3. op'[o].step = "done"
      BY <2>2, <3>2, EndedType
    <3>4. OperationKnows(o)'
      BY <1>12, <1>c, <2>2, <2>3, <2>4, <3>2, <3>3, NoRecordType
         DEF OperationKnows, StepsOf, UndoBranch, At
    <3>5. QED
      BY <1>a, <1>e, <2>4, <3>1, <3>4, GoesType, GoesOn DEF RowTypes
  <2>5. QED
    BY <2>1, <2>4
<1>13. ASSUME NEW o \in Ops, NEW to \in Paths, MoveChecks(o, to)
      PROVE  RowTypes' /\ \A x \in Ops : OperationKnows(x)'
  <2>1. \/ /\ Goes(o, [op[o] EXCEPT !.step = "moving", !.path = record.path, !.to = to,
                                    !.head = branch])
           /\ row' = row
           /\ record.life = "active"
        \/ /\ Goes(o, Ended(op[o]))
           /\ row' = [row EXCEPT ![o] = "failed"]
    BY <1>13, <1>a, <1>e DEF Goes, RowTypes, MoveChecks, Fails, Settle, At, outside,
           othersKeep, historyVars
  <2>2. /\ op[o] \in Threads /\ OperationKnows(o)
        /\ row[o] \in {"none", "running", "completed", "failed"}
    BY <1>a, <1>b, <1>e DEF RowTypes
  <2>3. Kind[o] = "move" /\ op[o].step # "done" /\ op[o].step # "idle"
    BY <1>13 DEF MoveChecks, At
  <2>4. CASE /\ Goes(o, [op[o] EXCEPT !.step = "moving", !.path = record.path,
                                      !.to = to, !.head = branch])
              /\ row' = row
              /\ record.life = "active"
    <3>1. [op[o] EXCEPT !.step = "moving", !.path = record.path, !.to = to,
                        !.head = branch] \in Threads
      BY <1>a, <1>c, <1>d, <2>2, StepNames DEF Threads
    <3>2. /\ op'[o] = [op[o] EXCEPT !.step = "moving", !.path = record.path, !.to = to,
                                    !.head = branch]
          /\ row'[o] \in {row[o]}
      BY <1>a, <2>4 DEF RowTypes, Goes
    <3>3. /\ op'[o].step = "moving" /\ op'[o].inst = op[o].inst
          /\ op'[o].path = record.path /\ op'[o].to = to
      BY <2>2, <3>2 DEF Threads
    <3>4. OperationKnows(o)'
      BY <1>13, <1>c, <2>2, <2>3, <2>4, <3>2, <3>3, NoRecordType
         DEF OperationKnows, StepsOf, MoveChecks, At
    <3>5. QED
      BY <1>a, <1>e, <2>4, <3>1, <3>4, GoesType, GoesOn DEF RowTypes
  <2>5. CASE /\ Goes(o, Ended(op[o]))
              /\ row' = [row EXCEPT ![o] = "failed"]
    <3>1. Ended(op[o]) \in Threads
      BY <2>2, EndedType
    <3>2. op'[o] = Ended(op[o]) /\ row'[o] \in {"failed"}
      BY <1>a, <2>5 DEF RowTypes, Goes
    <3>3. op'[o].step = "done"
      BY <2>2, <3>2, EndedType
    <3>4. OperationKnows(o)'
      BY <1>13, <1>c, <2>2, <2>3, <2>5, <3>2, <3>3, NoRecordType
         DEF OperationKnows, StepsOf, MoveChecks, At
    <3>5. QED
      BY <1>a, <1>e, <2>5, <3>1, <3>4, GoesType, GoesOn DEF RowTypes
  <2>6. QED
    BY <2>1, <2>4, <2>5
<1>14. ASSUME NEW o \in Ops, GitMoves(o)
      PROVE  RowTypes' /\ \A x \in Ops : OperationKnows(x)'
  <2>1. \/ /\ Goes(o, [op[o] EXCEPT !.step = "save"])
           /\ row' = row
        \/ /\ Goes(o, Ended(op[o]))
           /\ row' = [row EXCEPT ![o] = "failed"]
    BY <1>14, <1>a, <1>e DEF Goes, RowTypes, GitMoves, Fails, Settle, Go, At, outside,
           othersKeep, historyVars
  <2>2. /\ op[o] \in Threads /\ OperationKnows(o)
        /\ row[o] \in {"none", "running", "completed", "failed"}
    BY <1>a, <1>b, <1>e DEF RowTypes
  <2>3. Kind[o] = "move" /\ op[o].step # "done" /\ op[o].step # "idle"
    BY <1>14 DEF GitMoves, At
  <2>4. CASE /\ Goes(o, [op[o] EXCEPT !.step = "save"])
              /\ row' = row
    <3>1. [op[o] EXCEPT !.step = "save"] \in Threads
      BY <1>a, <1>c, <1>d, <2>2, StepNames DEF Threads
    <3>2. op'[o] = [op[o] EXCEPT !.step = "save"] /\ row'[o] \in {row[o]}
      BY <1>a, <2>4 DEF RowTypes, Goes
    <3>3. /\ op'[o].step = "save" /\ op'[o].inst = op[o].inst
          /\ op'[o].path = op[o].path /\ op'[o].to = op[o].to
      BY <2>2, <3>2 DEF Threads
    <3>4. OperationKnows(o)'
      BY <1>14, <1>c, <2>2, <2>3, <2>4, <3>2, <3>3, NoRecordType
         DEF OperationKnows, StepsOf, GitMoves, At
    <3>5. QED
      BY <1>a, <1>e, <2>4, <3>1, <3>4, GoesType, GoesOn DEF RowTypes
  <2>5. CASE /\ Goes(o, Ended(op[o]))
              /\ row' = [row EXCEPT ![o] = "failed"]
    <3>1. Ended(op[o]) \in Threads
      BY <2>2, EndedType
    <3>2. op'[o] = Ended(op[o]) /\ row'[o] \in {"failed"}
      BY <1>a, <2>5 DEF RowTypes, Goes
    <3>3. op'[o].step = "done"
      BY <2>2, <3>2, EndedType
    <3>4. OperationKnows(o)'
      BY <1>14, <1>c, <2>2, <2>3, <2>5, <3>2, <3>3, NoRecordType
         DEF OperationKnows, StepsOf, GitMoves, At
    <3>5. QED
      BY <1>a, <1>e, <2>5, <3>1, <3>4, GoesType, GoesOn DEF RowTypes
  <2>6. QED
    BY <2>1, <2>4, <2>5
<1>15. ASSUME NEW o \in Ops, GitMoveBreaks(o)
      PROVE  RowTypes' /\ \A x \in Ops : OperationKnows(x)'
  <2>1.    /\ Goes(o, Ended(op[o]))
           /\ row' = [row EXCEPT ![o] = "failed"]
    BY <1>15, <1>a, <1>e DEF Goes, RowTypes, GitMoveBreaks, Fails, Settle, Mishap, At, outside,
           othersKeep, historyVars
  <2>2. /\ op[o] \in Threads /\ OperationKnows(o)
        /\ row[o] \in {"none", "running", "completed", "failed"}
    BY <1>a, <1>b, <1>e DEF RowTypes
  <2>3. Kind[o] = "move" /\ op[o].step # "done" /\ op[o].step # "idle"
    BY <1>15 DEF GitMoveBreaks, At
  <2>4. CASE /\ Goes(o, Ended(op[o]))
              /\ row' = [row EXCEPT ![o] = "failed"]
    <3>1. Ended(op[o]) \in Threads
      BY <2>2, EndedType
    <3>2. op'[o] = Ended(op[o]) /\ row'[o] \in {"failed"}
      BY <1>a, <2>4 DEF RowTypes, Goes
    <3>3. op'[o].step = "done"
      BY <2>2, <3>2, EndedType
    <3>4. OperationKnows(o)'
      BY <1>15, <1>c, <2>2, <2>3, <2>4, <3>2, <3>3, NoRecordType
         DEF OperationKnows, StepsOf, GitMoveBreaks, At
    <3>5. QED
      BY <1>a, <1>e, <2>4, <3>1, <3>4, GoesType, GoesOn DEF RowTypes
  <2>5. QED
    BY <2>1, <2>4
<1>16. ASSUME NEW o \in Ops, MoveSaved(o)
      PROVE  RowTypes' /\ \A x \in Ops : OperationKnows(x)'
  <2>1.    /\ Goes(o, Ended(op[o]))
           /\ row' = [row EXCEPT ![o] = "completed"]
    BY <1>16, <1>a, <1>e DEF Goes, RowTypes, MoveSaved, Settle, At, outside, othersKeep,
           historyVars
  <2>2. /\ op[o] \in Threads /\ OperationKnows(o)
        /\ row[o] \in {"none", "running", "completed", "failed"}
    BY <1>a, <1>b, <1>e DEF RowTypes
  <2>3. Kind[o] = "move" /\ op[o].step # "done" /\ op[o].step # "idle"
    BY <1>16 DEF MoveSaved, At
  <2>4. CASE /\ Goes(o, Ended(op[o]))
              /\ row' = [row EXCEPT ![o] = "completed"]
    <3>1. Ended(op[o]) \in Threads
      BY <2>2, EndedType
    <3>2. op'[o] = Ended(op[o]) /\ row'[o] \in {"completed"}
      BY <1>a, <2>4 DEF RowTypes, Goes
    <3>3. op'[o].step = "done"
      BY <2>2, <3>2, EndedType
    <3>4. OperationKnows(o)'
      BY <1>16, <1>c, <2>2, <2>3, <2>4, <3>2, <3>3, NoRecordType
         DEF OperationKnows, StepsOf, MoveSaved, At
    <3>5. QED
      BY <1>a, <1>e, <2>4, <3>1, <3>4, GoesType, GoesOn DEF RowTypes
  <2>5. QED
    BY <2>1, <2>4
<1>17. ASSUME NEW o \in Ops, MoveNotSaved(o)
      PROVE  RowTypes' /\ \A x \in Ops : OperationKnows(x)'
  <2>1.    /\ Goes(o, [op[o] EXCEPT !.step = "back"])
           /\ row' = row
    BY <1>17, <1>a, <1>e DEF Goes, RowTypes, MoveNotSaved, Go, Mishap, At, outside, othersKeep,
           historyVars
  <2>2. /\ op[o] \in Threads /\ OperationKnows(o)
        /\ row[o] \in {"none", "running", "completed", "failed"}
    BY <1>a, <1>b, <1>e DEF RowTypes
  <2>3. Kind[o] = "move" /\ op[o].step # "done" /\ op[o].step # "idle"
    BY <1>17 DEF MoveNotSaved, At
  <2>4. CASE /\ Goes(o, [op[o] EXCEPT !.step = "back"])
              /\ row' = row
    <3>1. [op[o] EXCEPT !.step = "back"] \in Threads
      BY <1>a, <1>c, <1>d, <2>2, StepNames DEF Threads
    <3>2. op'[o] = [op[o] EXCEPT !.step = "back"] /\ row'[o] \in {row[o]}
      BY <1>a, <2>4 DEF RowTypes, Goes
    <3>3. /\ op'[o].step = "back" /\ op'[o].inst = op[o].inst
          /\ op'[o].path = op[o].path /\ op'[o].to = op[o].to
      BY <2>2, <3>2 DEF Threads
    <3>4. OperationKnows(o)'
      BY <1>17, <1>c, <2>2, <2>3, <2>4, <3>2, <3>3, NoRecordType
         DEF OperationKnows, StepsOf, MoveNotSaved, At
    <3>5. QED
      BY <1>a, <1>e, <2>4, <3>1, <3>4, GoesType, GoesOn DEF RowTypes
  <2>5. QED
    BY <2>1, <2>4
<1>18. ASSUME NEW o \in Ops, MoveBack(o)
      PROVE  RowTypes' /\ \A x \in Ops : OperationKnows(x)'
  <2>1.    /\ Goes(o, Ended(op[o]))
           /\ row' = [row EXCEPT ![o] = "failed"]
    BY <1>18, <1>a, <1>e DEF Goes, RowTypes, MoveBack, Fails, Settle, At, outside, othersKeep,
           historyVars
  <2>2. /\ op[o] \in Threads /\ OperationKnows(o)
        /\ row[o] \in {"none", "running", "completed", "failed"}
    BY <1>a, <1>b, <1>e DEF RowTypes
  <2>3. Kind[o] = "move" /\ op[o].step # "done" /\ op[o].step # "idle"
    BY <1>18 DEF MoveBack, At
  <2>4. CASE /\ Goes(o, Ended(op[o]))
              /\ row' = [row EXCEPT ![o] = "failed"]
    <3>1. Ended(op[o]) \in Threads
      BY <2>2, EndedType
    <3>2. op'[o] = Ended(op[o]) /\ row'[o] \in {"failed"}
      BY <1>a, <2>4 DEF RowTypes, Goes
    <3>3. op'[o].step = "done"
      BY <2>2, <3>2, EndedType
    <3>4. OperationKnows(o)'
      BY <1>18, <1>c, <2>2, <2>3, <2>4, <3>2, <3>3, NoRecordType
         DEF OperationKnows, StepsOf, MoveBack, At
    <3>5. QED
      BY <1>a, <1>e, <2>4, <3>1, <3>4, GoesType, GoesOn DEF RowTypes
  <2>5. QED
    BY <2>1, <2>4
<1>19. ASSUME NEW o \in Ops, Preflight(o)
      PROVE  RowTypes' /\ \A x \in Ops : OperationKnows(x)'
  <2>1. \/ /\ Goes(o, [op[o] EXCEPT !.step = "prepare",
                                    !.missing = (checkout # record.path)])
           /\ row' = row
        \/ /\ Goes(o, Ended(op[o]))
           /\ row' = [row EXCEPT ![o] = "failed"]
    BY <1>19, <1>a, <1>e DEF Goes, RowTypes, Preflight, Fails, Settle, At, outside, othersKeep,
           historyVars
  <2>2. /\ op[o] \in Threads /\ OperationKnows(o)
        /\ row[o] \in {"none", "running", "completed", "failed"}
    BY <1>a, <1>b, <1>e DEF RowTypes
  <2>3. Kind[o] = "remove" /\ op[o].step # "done" /\ op[o].step # "idle"
    BY <1>19 DEF Preflight, At
  <2>4. CASE /\ Goes(o, [op[o] EXCEPT !.step = "prepare",
                                      !.missing = (checkout # record.path)])
              /\ row' = row
    <3>1. [op[o] EXCEPT !.step = "prepare",
                        !.missing = (checkout # record.path)] \in Threads
      BY <1>a, <1>c, <1>d, <2>2, StepNames DEF Threads
    <3>2. op'[o] = [op[o] EXCEPT !.step = "prepare",
                                 !.missing = (checkout # record.path)] /\ row'[o] \in {row[o]}
      BY <1>a, <2>4 DEF RowTypes, Goes
    <3>3. /\ op'[o].step = "prepare" /\ op'[o].inst = op[o].inst
          /\ op'[o].path = op[o].path /\ op'[o].to = op[o].to
      BY <2>2, <3>2 DEF Threads
    <3>4. OperationKnows(o)'
      BY <1>19, <1>c, <2>2, <2>3, <2>4, <3>2, <3>3, NoRecordType
         DEF OperationKnows, StepsOf, Preflight, At
    <3>5. QED
      BY <1>a, <1>e, <2>4, <3>1, <3>4, GoesType, GoesOn DEF RowTypes
  <2>5. CASE /\ Goes(o, Ended(op[o]))
              /\ row' = [row EXCEPT ![o] = "failed"]
    <3>1. Ended(op[o]) \in Threads
      BY <2>2, EndedType
    <3>2. op'[o] = Ended(op[o]) /\ row'[o] \in {"failed"}
      BY <1>a, <2>5 DEF RowTypes, Goes
    <3>3. op'[o].step = "done"
      BY <2>2, <3>2, EndedType
    <3>4. OperationKnows(o)'
      BY <1>19, <1>c, <2>2, <2>3, <2>5, <3>2, <3>3, NoRecordType
         DEF OperationKnows, StepsOf, Preflight, At
    <3>5. QED
      BY <1>a, <1>e, <2>5, <3>1, <3>4, GoesType, GoesOn DEF RowTypes
  <2>6. QED
    BY <2>1, <2>4, <2>5
<1>20. ASSUME NEW o \in Ops, Prepare(o)
      PROVE  RowTypes' /\ \A x \in Ops : OperationKnows(x)'
  <2>1. \/ /\ Goes(o, [op[o] EXCEPT !.step = "clean", !.path = record.path,
                                    !.head = record.head, !.session = record.session])
           /\ row' = row
        \/ /\ Goes(o, Ended(op[o]))
           /\ row' = [row EXCEPT ![o] = "failed"]
    BY <1>20, <1>a, <1>e DEF Goes, RowTypes, Prepare, Fails, Settle, At, outside, othersKeep,
           historyVars
  <2>2. /\ op[o] \in Threads /\ OperationKnows(o)
        /\ row[o] \in {"none", "running", "completed", "failed"}
    BY <1>a, <1>b, <1>e DEF RowTypes
  <2>3. Kind[o] = "remove" /\ op[o].step # "done" /\ op[o].step # "idle"
    BY <1>20 DEF Prepare, At
  <2>4. CASE /\ Goes(o, [op[o] EXCEPT !.step = "clean", !.path = record.path,
                                      !.head = record.head, !.session = record.session])
              /\ row' = row
    <3>1. [op[o] EXCEPT !.step = "clean", !.path = record.path, !.head = record.head,
                        !.session = record.session] \in Threads
      BY <1>a, <1>c, <1>d, <2>2, StepNames DEF Threads
    <3>2. /\ op'[o] = [op[o] EXCEPT !.step = "clean", !.path = record.path,
                                    !.head = record.head, !.session = record.session]
          /\ row'[o] \in {row[o]}
      BY <1>a, <2>4 DEF RowTypes, Goes
    <3>3. /\ op'[o].step = "clean" /\ op'[o].inst = op[o].inst
          /\ op'[o].path = record.path /\ op'[o].to = op[o].to
      BY <2>2, <3>2 DEF Threads
    <3>4. OperationKnows(o)'
      BY <1>20, <1>c, <2>2, <2>3, <2>4, <3>2, <3>3, NoRecordType
         DEF OperationKnows, StepsOf, Prepare, At
    <3>5. QED
      BY <1>a, <1>e, <2>4, <3>1, <3>4, GoesType, GoesOn DEF RowTypes
  <2>5. CASE /\ Goes(o, Ended(op[o]))
              /\ row' = [row EXCEPT ![o] = "failed"]
    <3>1. Ended(op[o]) \in Threads
      BY <2>2, EndedType
    <3>2. op'[o] = Ended(op[o]) /\ row'[o] \in {"failed"}
      BY <1>a, <2>5 DEF RowTypes, Goes
    <3>3. op'[o].step = "done"
      BY <2>2, <3>2, EndedType
    <3>4. OperationKnows(o)'
      BY <1>20, <1>c, <2>2, <2>3, <2>5, <3>2, <3>3, NoRecordType
         DEF OperationKnows, StepsOf, Prepare, At
    <3>5. QED
      BY <1>a, <1>e, <2>5, <3>1, <3>4, GoesType, GoesOn DEF RowTypes
  <2>6. QED
    BY <2>1, <2>4, <2>5
<1>21. ASSUME NEW o \in Ops, RemoveGivesUp(o)
      PROVE  RowTypes' /\ \A x \in Ops : OperationKnows(x)'
  <2>1.    /\ Goes(o, [op[o] EXCEPT !.step = "abort"])
           /\ row' = row
    BY <1>21, <1>a, <1>e DEF Goes, RowTypes, RemoveGivesUp, Go, Mishap, At, outside,
           othersKeep, historyVars
  <2>2. /\ op[o] \in Threads /\ OperationKnows(o)
        /\ row[o] \in {"none", "running", "completed", "failed"}
    BY <1>a, <1>b, <1>e DEF RowTypes
  <2>3. Kind[o] = "remove" /\ op[o].step # "done" /\ op[o].step # "idle"
    BY <1>21 DEF RemoveGivesUp, At
  <2>4. CASE /\ Goes(o, [op[o] EXCEPT !.step = "abort"])
              /\ row' = row
    <3>1. [op[o] EXCEPT !.step = "abort"] \in Threads
      BY <1>a, <1>c, <1>d, <2>2, StepNames DEF Threads
    <3>2. op'[o] = [op[o] EXCEPT !.step = "abort"] /\ row'[o] \in {row[o]}
      BY <1>a, <2>4 DEF RowTypes, Goes
    <3>3. /\ op'[o].step = "abort" /\ op'[o].inst = op[o].inst
          /\ op'[o].path = op[o].path /\ op'[o].to = op[o].to
      BY <2>2, <3>2 DEF Threads
    <3>4. OperationKnows(o)'
      BY <1>21, <1>c, <2>2, <2>3, <2>4, <3>2, <3>3, NoRecordType
         DEF OperationKnows, StepsOf, RemoveGivesUp, At
    <3>5. QED
      BY <1>a, <1>e, <2>4, <3>1, <3>4, GoesType, GoesOn DEF RowTypes
  <2>5. QED
    BY <2>1, <2>4
<1>22. ASSUME NEW o \in Ops, Clean(o)
      PROVE  RowTypes' /\ \A x \in Ops : OperationKnows(x)'
  <2>1.    /\ Goes(o, [op[o] EXCEPT !.step = "verify"])
           /\ row' = row
    BY <1>22, <1>a, <1>e DEF Goes, RowTypes, Clean, Go, At, outside, othersKeep, historyVars
  <2>2. /\ op[o] \in Threads /\ OperationKnows(o)
        /\ row[o] \in {"none", "running", "completed", "failed"}
    BY <1>a, <1>b, <1>e DEF RowTypes
  <2>3. Kind[o] = "remove" /\ op[o].step # "done" /\ op[o].step # "idle"
    BY <1>22 DEF Clean, At
  <2>4. CASE /\ Goes(o, [op[o] EXCEPT !.step = "verify"])
              /\ row' = row
    <3>1. [op[o] EXCEPT !.step = "verify"] \in Threads
      BY <1>a, <1>c, <1>d, <2>2, StepNames DEF Threads
    <3>2. op'[o] = [op[o] EXCEPT !.step = "verify"] /\ row'[o] \in {row[o]}
      BY <1>a, <2>4 DEF RowTypes, Goes
    <3>3. /\ op'[o].step = "verify" /\ op'[o].inst = op[o].inst
          /\ op'[o].path = op[o].path /\ op'[o].to = op[o].to
      BY <2>2, <3>2 DEF Threads
    <3>4. OperationKnows(o)'
      BY <1>22, <1>c, <2>2, <2>3, <2>4, <3>2, <3>3, NoRecordType
         DEF OperationKnows, StepsOf, Clean, At
    <3>5. QED
      BY <1>a, <1>e, <2>4, <3>1, <3>4, GoesType, GoesOn DEF RowTypes
  <2>5. QED
    BY <2>1, <2>4
<1>23. ASSUME NEW o \in Ops, Verify(o)
      PROVE  RowTypes' /\ \A x \in Ops : OperationKnows(x)'
  <2>1. \/ /\ Goes(o, [op[o] EXCEPT !.step = "branch"])
           /\ row' = row
        \/ /\ Goes(o, [op[o] EXCEPT !.step = "removing"])
           /\ row' = row
        \/ /\ Goes(o, [op[o] EXCEPT !.step = "abort"])
           /\ row' = row
    BY <1>23, <1>a, <1>e DEF Goes, RowTypes, Verify, Go, At, outside, othersKeep, historyVars
  <2>2. /\ op[o] \in Threads /\ OperationKnows(o)
        /\ row[o] \in {"none", "running", "completed", "failed"}
    BY <1>a, <1>b, <1>e DEF RowTypes
  <2>3. Kind[o] = "remove" /\ op[o].step # "done" /\ op[o].step # "idle"
    BY <1>23 DEF Verify, At
  <2>4. CASE /\ Goes(o, [op[o] EXCEPT !.step = "branch"])
              /\ row' = row
    <3>1. [op[o] EXCEPT !.step = "branch"] \in Threads
      BY <1>a, <1>c, <1>d, <2>2, StepNames DEF Threads
    <3>2. op'[o] = [op[o] EXCEPT !.step = "branch"] /\ row'[o] \in {row[o]}
      BY <1>a, <2>4 DEF RowTypes, Goes
    <3>3. /\ op'[o].step = "branch" /\ op'[o].inst = op[o].inst
          /\ op'[o].path = op[o].path /\ op'[o].to = op[o].to
      BY <2>2, <3>2 DEF Threads
    <3>4. OperationKnows(o)'
      BY <1>23, <1>c, <2>2, <2>3, <2>4, <3>2, <3>3, NoRecordType
         DEF OperationKnows, StepsOf, Verify, At
    <3>5. QED
      BY <1>a, <1>e, <2>4, <3>1, <3>4, GoesType, GoesOn DEF RowTypes
  <2>5. CASE /\ Goes(o, [op[o] EXCEPT !.step = "removing"])
              /\ row' = row
    <3>1. [op[o] EXCEPT !.step = "removing"] \in Threads
      BY <1>a, <1>c, <1>d, <2>2, StepNames DEF Threads
    <3>2. op'[o] = [op[o] EXCEPT !.step = "removing"] /\ row'[o] \in {row[o]}
      BY <1>a, <2>5 DEF RowTypes, Goes
    <3>3. /\ op'[o].step = "removing" /\ op'[o].inst = op[o].inst
          /\ op'[o].path = op[o].path /\ op'[o].to = op[o].to
      BY <2>2, <3>2 DEF Threads
    <3>4. OperationKnows(o)'
      BY <1>23, <1>c, <2>2, <2>3, <2>5, <3>2, <3>3, NoRecordType
         DEF OperationKnows, StepsOf, Verify, At
    <3>5. QED
      BY <1>a, <1>e, <2>5, <3>1, <3>4, GoesType, GoesOn DEF RowTypes
  <2>6. CASE /\ Goes(o, [op[o] EXCEPT !.step = "abort"])
              /\ row' = row
    <3>1. [op[o] EXCEPT !.step = "abort"] \in Threads
      BY <1>a, <1>c, <1>d, <2>2, StepNames DEF Threads
    <3>2. op'[o] = [op[o] EXCEPT !.step = "abort"] /\ row'[o] \in {row[o]}
      BY <1>a, <2>6 DEF RowTypes, Goes
    <3>3. /\ op'[o].step = "abort" /\ op'[o].inst = op[o].inst
          /\ op'[o].path = op[o].path /\ op'[o].to = op[o].to
      BY <2>2, <3>2 DEF Threads
    <3>4. OperationKnows(o)'
      BY <1>23, <1>c, <2>2, <2>3, <2>6, <3>2, <3>3, NoRecordType
         DEF OperationKnows, StepsOf, Verify, At
    <3>5. QED
      BY <1>a, <1>e, <2>6, <3>1, <3>4, GoesType, GoesOn DEF RowTypes
  <2>7. QED
    BY <2>1, <2>4, <2>5, <2>6
<1>24. ASSUME NEW o \in Ops, GitRemoves(o)
      PROVE  RowTypes' /\ \A x \in Ops : OperationKnows(x)'
  <2>1. \/ /\ Goes(o, [op[o] EXCEPT !.step = "branch"])
           /\ row' = row
        \/ /\ Goes(o, [op[o] EXCEPT !.step = "abort"])
           /\ row' = row
    BY <1>24, <1>a, <1>e DEF Goes, RowTypes, GitRemoves, Go, Mishap, At, outside, othersKeep,
           historyVars
  <2>2. /\ op[o] \in Threads /\ OperationKnows(o)
        /\ row[o] \in {"none", "running", "completed", "failed"}
    BY <1>a, <1>b, <1>e DEF RowTypes
  <2>3. Kind[o] = "remove" /\ op[o].step # "done" /\ op[o].step # "idle"
    BY <1>24 DEF GitRemoves, At
  <2>4. CASE /\ Goes(o, [op[o] EXCEPT !.step = "branch"])
              /\ row' = row
    <3>1. [op[o] EXCEPT !.step = "branch"] \in Threads
      BY <1>a, <1>c, <1>d, <2>2, StepNames DEF Threads
    <3>2. op'[o] = [op[o] EXCEPT !.step = "branch"] /\ row'[o] \in {row[o]}
      BY <1>a, <2>4 DEF RowTypes, Goes
    <3>3. /\ op'[o].step = "branch" /\ op'[o].inst = op[o].inst
          /\ op'[o].path = op[o].path /\ op'[o].to = op[o].to
      BY <2>2, <3>2 DEF Threads
    <3>4. OperationKnows(o)'
      BY <1>24, <1>c, <2>2, <2>3, <2>4, <3>2, <3>3, NoRecordType
         DEF OperationKnows, StepsOf, GitRemoves, At
    <3>5. QED
      BY <1>a, <1>e, <2>4, <3>1, <3>4, GoesType, GoesOn DEF RowTypes
  <2>5. CASE /\ Goes(o, [op[o] EXCEPT !.step = "abort"])
              /\ row' = row
    <3>1. [op[o] EXCEPT !.step = "abort"] \in Threads
      BY <1>a, <1>c, <1>d, <2>2, StepNames DEF Threads
    <3>2. op'[o] = [op[o] EXCEPT !.step = "abort"] /\ row'[o] \in {row[o]}
      BY <1>a, <2>5 DEF RowTypes, Goes
    <3>3. /\ op'[o].step = "abort" /\ op'[o].inst = op[o].inst
          /\ op'[o].path = op[o].path /\ op'[o].to = op[o].to
      BY <2>2, <3>2 DEF Threads
    <3>4. OperationKnows(o)'
      BY <1>24, <1>c, <2>2, <2>3, <2>5, <3>2, <3>3, NoRecordType
         DEF OperationKnows, StepsOf, GitRemoves, At
    <3>5. QED
      BY <1>a, <1>e, <2>5, <3>1, <3>4, GoesType, GoesOn DEF RowTypes
  <2>6. QED
    BY <2>1, <2>4, <2>5
<1>25. ASSUME NEW o \in Ops, RemoveBranch(o)
      PROVE  RowTypes' /\ \A x \in Ops : OperationKnows(x)'
  <2>1. \/ /\ Goes(o, [op[o] EXCEPT !.step = "session"])
           /\ row' = row
        \/ /\ Goes(o, [op[o] EXCEPT !.step = "abort"])
           /\ row' = row
    BY <1>25, <1>a, <1>e DEF Goes, RowTypes, RemoveBranch, Go, At, outside, othersKeep,
           historyVars
  <2>2. /\ op[o] \in Threads /\ OperationKnows(o)
        /\ row[o] \in {"none", "running", "completed", "failed"}
    BY <1>a, <1>b, <1>e DEF RowTypes
  <2>3. Kind[o] = "remove" /\ op[o].step # "done" /\ op[o].step # "idle"
    BY <1>25 DEF RemoveBranch, At
  <2>4. CASE /\ Goes(o, [op[o] EXCEPT !.step = "session"])
              /\ row' = row
    <3>1. [op[o] EXCEPT !.step = "session"] \in Threads
      BY <1>a, <1>c, <1>d, <2>2, StepNames DEF Threads
    <3>2. op'[o] = [op[o] EXCEPT !.step = "session"] /\ row'[o] \in {row[o]}
      BY <1>a, <2>4 DEF RowTypes, Goes
    <3>3. /\ op'[o].step = "session" /\ op'[o].inst = op[o].inst
          /\ op'[o].path = op[o].path /\ op'[o].to = op[o].to
      BY <2>2, <3>2 DEF Threads
    <3>4. OperationKnows(o)'
      BY <1>25, <1>c, <2>2, <2>3, <2>4, <3>2, <3>3, NoRecordType
         DEF OperationKnows, StepsOf, RemoveBranch, At
    <3>5. QED
      BY <1>a, <1>e, <2>4, <3>1, <3>4, GoesType, GoesOn DEF RowTypes
  <2>5. CASE /\ Goes(o, [op[o] EXCEPT !.step = "abort"])
              /\ row' = row
    <3>1. [op[o] EXCEPT !.step = "abort"] \in Threads
      BY <1>a, <1>c, <1>d, <2>2, StepNames DEF Threads
    <3>2. op'[o] = [op[o] EXCEPT !.step = "abort"] /\ row'[o] \in {row[o]}
      BY <1>a, <2>5 DEF RowTypes, Goes
    <3>3. /\ op'[o].step = "abort" /\ op'[o].inst = op[o].inst
          /\ op'[o].path = op[o].path /\ op'[o].to = op[o].to
      BY <2>2, <3>2 DEF Threads
    <3>4. OperationKnows(o)'
      BY <1>25, <1>c, <2>2, <2>3, <2>5, <3>2, <3>3, NoRecordType
         DEF OperationKnows, StepsOf, RemoveBranch, At
    <3>5. QED
      BY <1>a, <1>e, <2>5, <3>1, <3>4, GoesType, GoesOn DEF RowTypes
  <2>6. QED
    BY <2>1, <2>4, <2>5
<1>26. ASSUME NEW o \in Ops, RemoveSession(o)
      PROVE  RowTypes' /\ \A x \in Ops : OperationKnows(x)'
  <2>1. /\ \/ Goes(o, [op[o] EXCEPT !.step = "finalize"])
           \/ Goes(o, [op[o] EXCEPT !.step = "abort"])
        /\ row' = row
    BY <1>26, <1>a, <1>e DEF Goes, RowTypes, RemoveSession, Go, At, outside, othersKeep,
           historyVars
  <2>2. /\ op[o] \in Threads /\ OperationKnows(o)
        /\ row[o] \in {"none", "running", "completed", "failed"}
    BY <1>a, <1>b, <1>e DEF RowTypes
  <2>3. Kind[o] = "remove" /\ op[o].step # "done" /\ op[o].step # "idle"
    BY <1>26 DEF RemoveSession, At
  <2>4. CASE /\ Goes(o, [op[o] EXCEPT !.step = "finalize"])
              /\ row' = row
    <3>1. [op[o] EXCEPT !.step = "finalize"] \in Threads
      BY <1>a, <1>c, <1>d, <2>2, StepNames DEF Threads
    <3>2. op'[o] = [op[o] EXCEPT !.step = "finalize"] /\ row'[o] \in {row[o]}
      BY <1>a, <2>4 DEF RowTypes, Goes
    <3>3. /\ op'[o].step = "finalize" /\ op'[o].inst = op[o].inst
          /\ op'[o].path = op[o].path /\ op'[o].to = op[o].to
      BY <2>2, <3>2 DEF Threads
    <3>4. OperationKnows(o)'
      BY <1>26, <1>c, <2>2, <2>3, <2>4, <3>2, <3>3, NoRecordType
         DEF OperationKnows, StepsOf, RemoveSession, At
    <3>5. QED
      BY <1>a, <1>e, <2>4, <3>1, <3>4, GoesType, GoesOn DEF RowTypes
  <2>5. CASE /\ Goes(o, [op[o] EXCEPT !.step = "abort"])
              /\ row' = row
    <3>1. [op[o] EXCEPT !.step = "abort"] \in Threads
      BY <1>a, <1>c, <1>d, <2>2, StepNames DEF Threads
    <3>2. op'[o] = [op[o] EXCEPT !.step = "abort"] /\ row'[o] \in {row[o]}
      BY <1>a, <2>5 DEF RowTypes, Goes
    <3>3. /\ op'[o].step = "abort" /\ op'[o].inst = op[o].inst
          /\ op'[o].path = op[o].path /\ op'[o].to = op[o].to
      BY <2>2, <3>2 DEF Threads
    <3>4. OperationKnows(o)'
      BY <1>26, <1>c, <2>2, <2>3, <2>5, <3>2, <3>3, NoRecordType
         DEF OperationKnows, StepsOf, RemoveSession, At
    <3>5. QED
      BY <1>a, <1>e, <2>5, <3>1, <3>4, GoesType, GoesOn DEF RowTypes
  <2>6. QED
    BY <2>1, <2>4, <2>5
<1>27. ASSUME NEW o \in Ops, Finalize(o)
      PROVE  RowTypes' /\ \A x \in Ops : OperationKnows(x)'
  <2>1. \/ /\ Goes(o, Ended(op[o]))
           /\ row' = [row EXCEPT ![o] = "completed"]
        \/ /\ Goes(o, [op[o] EXCEPT !.step = "abort"])
           /\ row' = row
    BY <1>27, <1>a, <1>e DEF Goes, RowTypes, Finalize, Go, Settle, At, outside, othersKeep,
           historyVars
  <2>2. /\ op[o] \in Threads /\ OperationKnows(o)
        /\ row[o] \in {"none", "running", "completed", "failed"}
    BY <1>a, <1>b, <1>e DEF RowTypes
  <2>3. Kind[o] = "remove" /\ op[o].step # "done" /\ op[o].step # "idle"
    BY <1>27 DEF Finalize, At
  <2>4. CASE /\ Goes(o, Ended(op[o]))
              /\ row' = [row EXCEPT ![o] = "completed"]
    <3>1. Ended(op[o]) \in Threads
      BY <2>2, EndedType
    <3>2. op'[o] = Ended(op[o]) /\ row'[o] \in {"completed"}
      BY <1>a, <2>4 DEF RowTypes, Goes
    <3>3. op'[o].step = "done"
      BY <2>2, <3>2, EndedType
    <3>4. OperationKnows(o)'
      BY <1>27, <1>c, <2>2, <2>3, <2>4, <3>2, <3>3, NoRecordType
         DEF OperationKnows, StepsOf, Finalize, At
    <3>5. QED
      BY <1>a, <1>e, <2>4, <3>1, <3>4, GoesType, GoesOn DEF RowTypes
  <2>5. CASE /\ Goes(o, [op[o] EXCEPT !.step = "abort"])
              /\ row' = row
    <3>1. [op[o] EXCEPT !.step = "abort"] \in Threads
      BY <1>a, <1>c, <1>d, <2>2, StepNames DEF Threads
    <3>2. op'[o] = [op[o] EXCEPT !.step = "abort"] /\ row'[o] \in {row[o]}
      BY <1>a, <2>5 DEF RowTypes, Goes
    <3>3. /\ op'[o].step = "abort" /\ op'[o].inst = op[o].inst
          /\ op'[o].path = op[o].path /\ op'[o].to = op[o].to
      BY <2>2, <3>2 DEF Threads
    <3>4. OperationKnows(o)'
      BY <1>27, <1>c, <2>2, <2>3, <2>5, <3>2, <3>3, NoRecordType
         DEF OperationKnows, StepsOf, Finalize, At
    <3>5. QED
      BY <1>a, <1>e, <2>5, <3>1, <3>4, GoesType, GoesOn DEF RowTypes
  <2>6. QED
    BY <2>1, <2>4, <2>5
<1>28. ASSUME NEW o \in Ops, Abort(o)
      PROVE  RowTypes' /\ \A x \in Ops : OperationKnows(x)'
  <2>1.    /\ Goes(o, Ended(op[o]))
           /\ row' = [row EXCEPT ![o] = "failed"]
    BY <1>28, <1>a, <1>e DEF Goes, RowTypes, Abort, Fails, Settle, At, outside, othersKeep,
           historyVars
  <2>2. /\ op[o] \in Threads /\ OperationKnows(o)
        /\ row[o] \in {"none", "running", "completed", "failed"}
    BY <1>a, <1>b, <1>e DEF RowTypes
  <2>3. Kind[o] = "remove" /\ op[o].step # "done" /\ op[o].step # "idle"
    BY <1>28 DEF Abort, At
  <2>4. CASE /\ Goes(o, Ended(op[o]))
              /\ row' = [row EXCEPT ![o] = "failed"]
    <3>1. Ended(op[o]) \in Threads
      BY <2>2, EndedType
    <3>2. op'[o] = Ended(op[o]) /\ row'[o] \in {"failed"}
      BY <1>a, <2>4 DEF RowTypes, Goes
    <3>3. op'[o].step = "done"
      BY <2>2, <3>2, EndedType
    <3>4. OperationKnows(o)'
      BY <1>28, <1>c, <2>2, <2>3, <2>4, <3>2, <3>3, NoRecordType
         DEF OperationKnows, StepsOf, Abort, At
    <3>5. QED
      BY <1>a, <1>e, <2>4, <3>1, <3>4, GoesType, GoesOn DEF RowTypes
  <2>5. QED
    BY <2>1, <2>4
<1>29. ASSUME NEW o \in Ops, BeginOther(o)
      PROVE  RowTypes' /\ \A x \in Ops : OperationKnows(x)'
  <2>1.    /\ Goes(o, [op[o] EXCEPT !.step = "validating", !.inst = record.inst])
           /\ row' = [row EXCEPT ![o] = "running"]
           /\ record # NoRecord
    BY <1>29, <1>a, <1>e DEF Goes, RowTypes, BeginOther, outside, othersKeep, historyVars
  <2>2. /\ op[o] \in Threads /\ OperationKnows(o)
        /\ row[o] \in {"none", "running", "completed", "failed"}
    BY <1>a, <1>b, <1>e DEF RowTypes
  <2>3. Kind[o] # "create" /\ op[o].step # "done"
    BY <1>29 DEF BeginOther, At
  <2>4. CASE /\ Goes(o, [op[o] EXCEPT !.step = "validating", !.inst = record.inst])
              /\ row' = [row EXCEPT ![o] = "running"]
              /\ record # NoRecord
    <3>1. [op[o] EXCEPT !.step = "validating", !.inst = record.inst] \in Threads
      BY <1>a, <1>c, <1>d, <2>2, StepNames DEF Threads
    <3>2. /\ op'[o] = [op[o] EXCEPT !.step = "validating", !.inst = record.inst]
          /\ row'[o] \in {"running"}
      BY <1>a, <2>4 DEF RowTypes, Goes
    <3>3. /\ op'[o].step = "validating" /\ op'[o].inst = record.inst
          /\ op'[o].path = op[o].path /\ op'[o].to = op[o].to
      BY <2>2, <3>2 DEF Threads
    <3>4. OperationKnows(o)'
      BY <1>29, <1>c, <2>2, <2>3, <2>4, <3>2, <3>3, NoRecordType
         DEF OperationKnows, StepsOf, BeginOther, At
    <3>5. QED
      BY <1>a, <1>e, <2>4, <3>1, <3>4, GoesType, GoesOn DEF RowTypes
  <2>5. QED
    BY <2>1, <2>4
<1>30. ASSUME NEW o \in Ops, GivesUp(o)
      PROVE  RowTypes' /\ \A x \in Ops : OperationKnows(x)'
  <2>1.    /\ Goes(o, Ended(op[o]))
           /\ row' = [row EXCEPT ![o] = "failed"]
    BY <1>30, <1>a, <1>e DEF Goes, RowTypes, GivesUp, Fails, Settle, Mishap, At, outside,
           othersKeep, historyVars
  <2>2. /\ op[o] \in Threads /\ OperationKnows(o)
        /\ row[o] \in {"none", "running", "completed", "failed"}
    BY <1>a, <1>b, <1>e DEF RowTypes
  <2>3. Kind[o] # "create" /\ op[o].step # "done" /\ op[o].step # "idle"
    BY <1>30 DEF GivesUp, At
  <2>4. CASE /\ Goes(o, Ended(op[o]))
              /\ row' = [row EXCEPT ![o] = "failed"]
    <3>1. Ended(op[o]) \in Threads
      BY <2>2, EndedType
    <3>2. op'[o] = Ended(op[o]) /\ row'[o] \in {"failed"}
      BY <1>a, <2>4 DEF RowTypes, Goes
    <3>3. op'[o].step = "done"
      BY <2>2, <3>2, EndedType
    <3>4. OperationKnows(o)'
      BY <1>30, <1>c, <2>2, <2>3, <2>4, <3>2, <3>3, NoRecordType
         DEF OperationKnows, StepsOf, GivesUp, At
    <3>5. QED
      BY <1>a, <1>e, <2>4, <3>1, <3>4, GoesType, GoesOn DEF RowTypes
  <2>5. QED
    BY <2>1, <2>4
<1>31. ASSUME NEW o \in Ops, Cancel(o)
      PROVE  RowTypes' /\ \A x \in Ops : OperationKnows(x)'
  BY <1>31, <1>a, <1>e DEF Cancel, RowTypes, OperationKnows
<1>32. CASE Scan
  BY <1>32, <1>a, <1>e
     DEF RowTypes, OperationKnows, Scan, reconKeeps, NoScan, outside,
         othersKeep, historyVars
<1>33. CASE ReadRecords
  BY <1>33, <1>a, <1>e
     DEF RowTypes, OperationKnows, ReadRecords, reconKeeps, outside,
         othersKeep, historyVars
<1>34. CASE Reconcile
  BY <1>34, <1>a, <1>e
     DEF RowTypes, OperationKnows, Reconcile, reconKeeps, NoScan, Adopt,
         Refresh, MarkMissing, LeaveAlone, Found, outside,
         othersKeep, historyVars
<1>35. ASSUME NEW to \in Paths \cup {Nowhere}, UserMoves(to)
      PROVE  RowTypes' /\ \A x \in Ops : OperationKnows(x)'
  BY <1>35, <1>a, <1>e
     DEF RowTypes, OperationKnows, UserMoves, otherActs, outside,
         othersKeep, historyVars
<1>36. CASE AgentCommits
  BY <1>36, <1>a, <1>e
     DEF RowTypes, OperationKnows, AgentCommits, otherActs, outside,
         othersKeep, historyVars
<1>37. CASE Crash
  <2>1. op' = [x \in Ops |-> IF op[x].step = "idle" THEN op[x] ELSE Ended(op[x])] /\ row' = row
    BY <1>37 DEF Crash
  <2>2. RowTypes'
    BY <1>a, <1>b, <2>1, EndedType DEF RowTypes
  <2>3. ASSUME NEW x \in Ops PROVE OperationKnows(x)'
    BY <1>b, <1>e, <2>1, <2>3, EndedType DEF OperationKnows, StepsOf
  <2>4. QED
    BY <2>2, <2>3
<1>38. CASE UNCHANGED vars
  BY <1>38, <1>a, <1>e
     DEF RowTypes, OperationKnows, vars, outside, othersKeep, historyVars
<1>39. QED
  BY <1>1, <1>2, <1>3, <1>4, <1>5, <1>6, <1>7, <1>8, <1>9, <1>10, <1>11,
     <1>12, <1>13, <1>14, <1>15, <1>16, <1>17, <1>18, <1>19, <1>20, <1>21,
     <1>22, <1>23, <1>24, <1>25, <1>26, <1>27, <1>28, <1>29, <1>30, <1>31,
     <1>32, <1>33, <1>34, <1>35, <1>36, <1>37, <1>38
     DEF Next, Create, Move, Remove

\* The record stays one, or none.
LEMMA RecordStep ==
    ASSUME TypeOK, Known, [Next]_vars
    PROVE  GoodRecord(record)' /\ recon' \in Scans
<1>a. recon \in Scans /\ scans \in 0 .. MaxScans
      /\ checkout \in Paths \cup {Nowhere} /\ branch \in {"none", "base", "ahead"}
  BY TypeParts DEF VarTypes, RecordTypes
<1>b. GoodRecord(record)
  BY DEF Known
<1>c. \A o \in Ops : OperationKnows(o) /\ op[o] \in Threads
  BY TypeParts DEF Known, RowTypes
<1>d. record \in Records /\ (record # NoRecord <=> record.inst # 0) /\ (record # NoRecord => record.path \in Paths)
  BY <1>b, NoRecordType DEF GoodRecord
<1>e. recon.at \in Paths \cup {Nowhere} /\ recon.head \in {"none", "base", "ahead"}
  BY <1>a DEF Scans
<1>f. 1 \in 0 .. MaxScans + 1
  BY Constants
<1>1. ASSUME NEW o \in Ops, BeginCreate(o)
      PROVE  GoodRecord(record)' /\ recon' \in Scans
  BY <1>1, <1>a, <1>b
     DEF GoodRecord, BeginCreate, Go, At, outside, othersKeep, historyVars
<1>2. ASSUME NEW o \in Ops, CreateGivesUp(o)
      PROVE  GoodRecord(record)' /\ recon' \in Scans
  BY <1>2, <1>a, <1>b
     DEF GoodRecord, CreateGivesUp, Undo, Go, Mishap, At, outside,
         othersKeep, historyVars
<1>3. ASSUME NEW o \in Ops, Add(o)
      PROVE  GoodRecord(record)' /\ recon' \in Scans
  BY <1>3, <1>a, <1>b
     DEF GoodRecord, Add, At, outside, othersKeep, historyVars
<1>4. ASSUME NEW o \in Ops, AddBreaks(o)
      PROVE  GoodRecord(record)' /\ recon' \in Scans
  BY <1>4, <1>a, <1>b
     DEF GoodRecord, AddBreaks, Undo, Go, Mishap, At, outside, othersKeep,
         historyVars
<1>5. ASSUME NEW o \in Ops, Register(o)
      PROVE  GoodRecord(record)' /\ recon' \in Scans
  <2>1. record' = record \/ record' = [inst |-> 1, path |-> Home, head |-> "base", session |-> FALSE,
                                         life |-> "active"]
    BY <1>5 DEF Register
  <2>2. GoodRecord(record')
    BY <1>b, <1>f, <2>1, NewRecord, Constants
  <2>3. QED
    BY <1>5, <1>a, <2>2 DEF Register, othersKeep, GoodRecord
<1>6. ASSUME NEW o \in Ops, OpenSession(o)
      PROVE  GoodRecord(record)' /\ recon' \in Scans
  BY <1>6, <1>a, <1>b
     DEF GoodRecord, OpenSession, Undo, Go, Mishap, At, outside,
         othersKeep, historyVars
<1>7. ASSUME NEW o \in Ops, Bind(o)
      PROVE  GoodRecord(record)' /\ recon' \in Scans
  <2>1. record' = record \/ (record.inst # 0 /\ record' = [record EXCEPT !.session = TRUE])
    BY <1>7, <1>c, <1>d, Constants
       DEF Bind, OperationKnows, At
  <2>2. GoodRecord(record')
    BY <1>b, <1>d, <2>1, RecordBound
  <2>3. recon' = recon
    BY <1>7 DEF Bind, Undo, Go, At, outside, othersKeep, historyVars
  <2>4. QED
    BY <1>a, <2>2, <2>3 DEF GoodRecord
<1>8. ASSUME NEW o \in Ops, Launch(o)
      PROVE  GoodRecord(record)' /\ recon' \in Scans
  BY <1>8, <1>a, <1>b
     DEF GoodRecord, Launch, Undo, Go, Settle, At, outside, othersKeep,
         historyVars
<1>9. ASSUME NEW o \in Ops, UndoSession(o)
      PROVE  GoodRecord(record)' /\ recon' \in Scans
  BY <1>9, <1>a, <1>b
     DEF GoodRecord, UndoSession, Go, At, outside, othersKeep, historyVars
<1>10. ASSUME NEW o \in Ops, UndoRecord(o)
      PROVE  GoodRecord(record)' /\ recon' \in Scans
  <2>1. record' \in {record, NoRecord} /\ recon' = recon
    BY <1>10 DEF UndoRecord, Go, At, outside, othersKeep, historyVars
  <2>2. QED
    BY <1>a, <1>b, <2>1, NoRecordType DEF GoodRecord
<1>11. ASSUME NEW o \in Ops, UndoTree(o)
      PROVE  GoodRecord(record)' /\ recon' \in Scans
  BY <1>11, <1>a, <1>b
     DEF GoodRecord, UndoTree, Go, At, outside, othersKeep, historyVars
<1>12. ASSUME NEW o \in Ops, UndoBranch(o)
      PROVE  GoodRecord(record)' /\ recon' \in Scans
  BY <1>12, <1>a, <1>b
     DEF GoodRecord, UndoBranch, Settle, At, outside, othersKeep,
         historyVars
<1>13. ASSUME NEW o \in Ops, NEW to \in Paths, MoveChecks(o, to)
      PROVE  GoodRecord(record)' /\ recon' \in Scans
  BY <1>13, <1>a, <1>b
     DEF GoodRecord, MoveChecks, Fails, Settle, At, outside, othersKeep,
         historyVars
<1>14. ASSUME NEW o \in Ops, GitMoves(o)
      PROVE  GoodRecord(record)' /\ recon' \in Scans
  BY <1>14, <1>a, <1>b
     DEF GoodRecord, GitMoves, Fails, Settle, Go, At, outside, othersKeep,
         historyVars
<1>15. ASSUME NEW o \in Ops, GitMoveBreaks(o)
      PROVE  GoodRecord(record)' /\ recon' \in Scans
  BY <1>15, <1>a, <1>b
     DEF GoodRecord, GitMoveBreaks, Fails, Settle, Mishap, At, outside,
         othersKeep, historyVars
<1>16. ASSUME NEW o \in Ops, MoveSaved(o)
      PROVE  GoodRecord(record)' /\ recon' \in Scans
  <2>1. record' = record \/ (record.inst # 0 /\ record' = [record EXCEPT !.path = op[o].to, !.head = branch])
    BY <1>16, <1>c, <1>d, Constants
       DEF MoveSaved, OperationKnows, At
  <2>2. GoodRecord(record')
    <3>1. op[o].to \in Paths
      BY <1>16, <1>c DEF MoveSaved, OperationKnows, At
    <3>2. CASE record' = record
      BY <1>b, <3>2
    <3>3. ASSUME record.inst # 0
          PROVE  GoodRecord([record EXCEPT !.path = op[o].to, !.head = branch])
      BY <1>a, <1>d, <3>1, <3>3, RecordMoved
    <3>4. QED
      BY <2>1, <3>2, <3>3
  <2>3. recon' = recon
    BY <1>16 DEF MoveSaved, Settle, At, outside, othersKeep, historyVars
  <2>4. QED
    BY <1>a, <2>2, <2>3 DEF GoodRecord
<1>17. ASSUME NEW o \in Ops, MoveNotSaved(o)
      PROVE  GoodRecord(record)' /\ recon' \in Scans
  BY <1>17, <1>a, <1>b
     DEF GoodRecord, MoveNotSaved, Go, Mishap, At, outside, othersKeep,
         historyVars
<1>18. ASSUME NEW o \in Ops, MoveBack(o)
      PROVE  GoodRecord(record)' /\ recon' \in Scans
  BY <1>18, <1>a, <1>b
     DEF GoodRecord, MoveBack, Fails, Settle, At, outside, othersKeep,
         historyVars
<1>19. ASSUME NEW o \in Ops, Preflight(o)
      PROVE  GoodRecord(record)' /\ recon' \in Scans
  BY <1>19, <1>a, <1>b
     DEF GoodRecord, Preflight, Fails, Settle, At, outside, othersKeep,
         historyVars
<1>20. ASSUME NEW o \in Ops, Prepare(o)
      PROVE  GoodRecord(record)' /\ recon' \in Scans
  <2>1. record' = record \/ (record.inst # 0 /\ record' = [record EXCEPT !.life = "removing"])
    BY <1>20, <1>c, <1>d, Constants
       DEF Prepare, OperationKnows, At, Fails
  <2>2. GoodRecord(record')
    BY <1>b, <1>d, <2>1, RecordLives
  <2>3. recon' = recon
    BY <1>20 DEF Prepare, Fails, Settle, At, outside, othersKeep, historyVars
  <2>4. QED
    BY <1>a, <2>2, <2>3 DEF GoodRecord
<1>21. ASSUME NEW o \in Ops, RemoveGivesUp(o)
      PROVE  GoodRecord(record)' /\ recon' \in Scans
  BY <1>21, <1>a, <1>b
     DEF GoodRecord, RemoveGivesUp, Go, Mishap, At, outside, othersKeep,
         historyVars
<1>22. ASSUME NEW o \in Ops, Clean(o)
      PROVE  GoodRecord(record)' /\ recon' \in Scans
  BY <1>22, <1>a, <1>b
     DEF GoodRecord, Clean, Go, At, outside, othersKeep, historyVars
<1>23. ASSUME NEW o \in Ops, Verify(o)
      PROVE  GoodRecord(record)' /\ recon' \in Scans
  BY <1>23, <1>a, <1>b
     DEF GoodRecord, Verify, Go, At, outside, othersKeep, historyVars
<1>24. ASSUME NEW o \in Ops, GitRemoves(o)
      PROVE  GoodRecord(record)' /\ recon' \in Scans
  BY <1>24, <1>a, <1>b
     DEF GoodRecord, GitRemoves, Go, Mishap, At, outside, othersKeep,
         historyVars
<1>25. ASSUME NEW o \in Ops, RemoveBranch(o)
      PROVE  GoodRecord(record)' /\ recon' \in Scans
  BY <1>25, <1>a, <1>b
     DEF GoodRecord, RemoveBranch, Go, At, outside, othersKeep, historyVars
<1>26. ASSUME NEW o \in Ops, RemoveSession(o)
      PROVE  GoodRecord(record)' /\ recon' \in Scans
  BY <1>26, <1>a, <1>b
     DEF GoodRecord, RemoveSession, Go, At, outside, othersKeep,
         historyVars
<1>27. ASSUME NEW o \in Ops, Finalize(o)
      PROVE  GoodRecord(record)' /\ recon' \in Scans
  <2>1. record' \in {record, NoRecord} /\ recon' = recon
    BY <1>27 DEF Finalize, Go, Settle, At, outside, othersKeep, historyVars
  <2>2. QED
    BY <1>a, <1>b, <2>1, NoRecordType DEF GoodRecord
<1>28. ASSUME NEW o \in Ops, Abort(o)
      PROVE  GoodRecord(record)' /\ recon' \in Scans
  <2>1. record' = record \/ (record.inst # 0 /\ record' = [record EXCEPT !.life = "active"])
    BY <1>28, <1>c, <1>d, Constants
       DEF Abort, OperationKnows, At
  <2>2. GoodRecord(record')
    BY <1>b, <1>d, <2>1, RecordLives
  <2>3. recon' = recon
    BY <1>28 DEF Abort, Fails, Settle, At, outside, othersKeep, historyVars
  <2>4. QED
    BY <1>a, <2>2, <2>3 DEF GoodRecord
<1>29. ASSUME NEW o \in Ops, BeginOther(o)
      PROVE  GoodRecord(record)' /\ recon' \in Scans
  BY <1>29, <1>a, <1>b
     DEF GoodRecord, BeginOther, outside, othersKeep, historyVars
<1>30. ASSUME NEW o \in Ops, GivesUp(o)
      PROVE  GoodRecord(record)' /\ recon' \in Scans
  BY <1>30, <1>a, <1>b
     DEF GoodRecord, GivesUp, Fails, Settle, Mishap, At, outside,
         othersKeep, historyVars
<1>31. ASSUME NEW o \in Ops, Cancel(o)
      PROVE  GoodRecord(record)' /\ recon' \in Scans
  BY <1>31, <1>a, <1>b
     DEF GoodRecord, Cancel, outside, othersKeep, historyVars
<1>32. CASE Scan
  <2>1. /\ recon' = [NoScan EXCEPT !.step = "scanned", !.at = checkout, !.head = branch]
        /\ record' = record
    BY <1>32 DEF Scan
  <2>2. ASSUME NEW n \in Scans
        PROVE  [n EXCEPT !.step = "scanned", !.at = checkout, !.head = branch] \in Scans
    BY <1>a, <2>2 DEF Scans
  <2>3. QED
    BY <1>b, <2>1, <2>2, NoRecordType DEF GoodRecord
<1>33. CASE ReadRecords
  <2>1. recon' = [recon EXCEPT !.step = "read", !.rec = record] /\ record' = record
    BY <1>33 DEF ReadRecords, reconKeeps
  <2>2. QED
    BY <1>a, <1>b, <1>d, <2>1 DEF GoodRecord, Scans
<1>34. CASE Reconcile
  <2>1. recon' \in Scans
    BY <1>34, NoRecordType DEF Reconcile
  <2>2. CASE Adopt
    <3>1. record' = record \/ (record.life = "missing" /\ recon.at # Nowhere
             /\ record' = [inst |-> record.inst + 1, path |-> recon.at, head |-> recon.head,
                           session |-> FALSE, life |-> "active"])
      BY <2>2 DEF Adopt, Found
    <3>2. record.inst + 1 \in 0 .. MaxScans + 1 /\ record.inst + 1 # 0
      BY <1>34, <1>a, <1>d, Constants
         DEF Reconcile, Known, InstancesBounded, Scanning, Records
    <3>3. QED
      BY <1>b, <1>e, <2>1, <3>1, <3>2, NewRecord
  <2>3. CASE Refresh
    <3>1. record' = record \/ (record # NoRecord /\ recon.at # Nowhere
             /\ record' = [record EXCEPT !.path = recon.at, !.head = recon.head,
                                         !.life = "active"])
      BY <2>3 DEF Refresh, Found
    <3>2. CASE record' = record
      BY <1>b, <2>1, <3>2
    <3>3. ASSUME record.inst # 0, recon.at # Nowhere
          PROVE  GoodRecord([record EXCEPT !.path = recon.at, !.head = recon.head,
                                           !.life = "active"])
      BY <1>d, <1>e, <3>3, RecordSeen
    <3>4. QED
      BY <1>d, <2>1, <3>1, <3>2, <3>3
  <2>4. CASE MarkMissing
    <3>1. record' = record \/ (record # NoRecord /\ record' = [record EXCEPT !.life = "missing"])
      BY <2>4 DEF MarkMissing
    <3>2. QED
      BY <1>b, <1>d, <2>1, <3>1, RecordLives
  <2>5. CASE LeaveAlone
    BY <1>b, <2>1, <2>5 DEF LeaveAlone, GoodRecord
  <2>6. QED
    BY <1>34, <2>2, <2>3, <2>4, <2>5 DEF Reconcile
<1>35. ASSUME NEW to \in Paths \cup {Nowhere}, UserMoves(to)
      PROVE  GoodRecord(record)' /\ recon' \in Scans
  BY <1>35, <1>a, <1>b
     DEF GoodRecord, UserMoves, otherActs, outside, othersKeep, historyVars
<1>36. CASE AgentCommits
  BY <1>36, <1>a, <1>b
     DEF GoodRecord, AgentCommits, otherActs, outside, othersKeep,
         historyVars
<1>37. CASE Crash
  BY <1>37, <1>b, NoRecordType DEF Crash, otherActs, GoodRecord
<1>38. CASE UNCHANGED vars
  BY <1>38, <1>a, <1>b
     DEF GoodRecord, vars, outside, othersKeep, historyVars
<1>39. QED
  BY <1>1, <1>2, <1>3, <1>4, <1>5, <1>6, <1>7, <1>8, <1>9, <1>10, <1>11,
     <1>12, <1>13, <1>14, <1>15, <1>16, <1>17, <1>18, <1>19, <1>20, <1>21,
     <1>22, <1>23, <1>24, <1>25, <1>26, <1>27, <1>28, <1>29, <1>30, <1>31,
     <1>32, <1>33, <1>34, <1>35, <1>36, <1>37, <1>38
     DEF Next, Create, Move, Remove

\* Every new instance is paid for by a reconciliation.
LEMMA InstancesStep ==
    ASSUME TypeOK, Known, [Next]_vars
    PROVE  InstancesBounded'
<1>a. record \in Records /\ recon \in Scans /\ scans \in 0 .. MaxScans
  BY TypeParts DEF VarTypes, RecordTypes
<1>b. record.inst \in 0 .. MaxScans + 1 /\ recon.step \in {"idle", "scanned", "read"}
  BY <1>a DEF Records, Scans
<1>c. InstancesBounded
  BY DEF Known
<1> USE Constants
<1>1. ASSUME NEW o \in Ops, BeginCreate(o)
      PROVE  InstancesBounded'
  BY <1>1, <1>a, <1>b, <1>c
     DEF InstancesBounded, Scanning, BeginCreate, Go, At, outside,
         othersKeep, historyVars
<1>2. ASSUME NEW o \in Ops, CreateGivesUp(o)
      PROVE  InstancesBounded'
  BY <1>2, <1>a, <1>b, <1>c
     DEF InstancesBounded, Scanning, CreateGivesUp, Undo, Go, Mishap, At,
         outside, othersKeep, historyVars
<1>3. ASSUME NEW o \in Ops, Add(o)
      PROVE  InstancesBounded'
  BY <1>3, <1>a, <1>b, <1>c
     DEF InstancesBounded, Scanning, Add, At, outside, othersKeep,
         historyVars
<1>4. ASSUME NEW o \in Ops, AddBreaks(o)
      PROVE  InstancesBounded'
  BY <1>4, <1>a, <1>b, <1>c
     DEF InstancesBounded, Scanning, AddBreaks, Undo, Go, Mishap, At,
         outside, othersKeep, historyVars
<1>5. ASSUME NEW o \in Ops, Register(o)
      PROVE  InstancesBounded'
  <2>1. record'.inst = record.inst \/ record'.inst = 1
    BY <1>5 DEF Register
  <2>2. scans' = scans /\ recon' = recon
    BY <1>5 DEF Register, othersKeep
  <2>3. QED
    BY <1>a, <1>b, <1>c, <2>1, <2>2 DEF InstancesBounded, Scanning
<1>6. ASSUME NEW o \in Ops, OpenSession(o)
      PROVE  InstancesBounded'
  BY <1>6, <1>a, <1>b, <1>c
     DEF InstancesBounded, Scanning, OpenSession, Undo, Go, Mishap, At,
         outside, othersKeep, historyVars
<1>7. ASSUME NEW o \in Ops, Bind(o)
      PROVE  InstancesBounded'
  <2>1. record'.inst = record.inst
    BY <1>7, <1>a DEF Bind, Records
  <2>2. QED
    BY <1>7, <1>c, <2>1 DEF InstancesBounded, Scanning, Bind, Undo, Go, At, outside,
         othersKeep, historyVars
<1>8. ASSUME NEW o \in Ops, Launch(o)
      PROVE  InstancesBounded'
  BY <1>8, <1>a, <1>b, <1>c
     DEF InstancesBounded, Scanning, Launch, Undo, Go, Settle, At, outside,
         othersKeep, historyVars
<1>9. ASSUME NEW o \in Ops, UndoSession(o)
      PROVE  InstancesBounded'
  BY <1>9, <1>a, <1>b, <1>c
     DEF InstancesBounded, Scanning, UndoSession, Go, At, outside,
         othersKeep, historyVars
<1>10. ASSUME NEW o \in Ops, UndoRecord(o)
      PROVE  InstancesBounded'
  <2>1. record'.inst <= record.inst /\ record'.inst \in Nat
    BY <1>10, <1>b, NoRecordType DEF UndoRecord
  <2>2. scans' = scans /\ recon' = recon
    BY <1>10 DEF UndoRecord, Go, At, outside, othersKeep, historyVars
  <2>3. QED
    BY <1>a, <1>b, <1>c, <2>1, <2>2 DEF InstancesBounded, Scanning
<1>11. ASSUME NEW o \in Ops, UndoTree(o)
      PROVE  InstancesBounded'
  BY <1>11, <1>a, <1>b, <1>c
     DEF InstancesBounded, Scanning, UndoTree, Go, At, outside, othersKeep,
         historyVars
<1>12. ASSUME NEW o \in Ops, UndoBranch(o)
      PROVE  InstancesBounded'
  BY <1>12, <1>a, <1>b, <1>c
     DEF InstancesBounded, Scanning, UndoBranch, Settle, At, outside,
         othersKeep, historyVars
<1>13. ASSUME NEW o \in Ops, NEW to \in Paths, MoveChecks(o, to)
      PROVE  InstancesBounded'
  BY <1>13, <1>a, <1>b, <1>c
     DEF InstancesBounded, Scanning, MoveChecks, Fails, Settle, At,
         outside, othersKeep, historyVars
<1>14. ASSUME NEW o \in Ops, GitMoves(o)
      PROVE  InstancesBounded'
  BY <1>14, <1>a, <1>b, <1>c
     DEF InstancesBounded, Scanning, GitMoves, Fails, Settle, Go, At,
         outside, othersKeep, historyVars
<1>15. ASSUME NEW o \in Ops, GitMoveBreaks(o)
      PROVE  InstancesBounded'
  BY <1>15, <1>a, <1>b, <1>c
     DEF InstancesBounded, Scanning, GitMoveBreaks, Fails, Settle, Mishap,
         At, outside, othersKeep, historyVars
<1>16. ASSUME NEW o \in Ops, MoveSaved(o)
      PROVE  InstancesBounded'
  <2>1. record'.inst = record.inst
    BY <1>16, <1>a DEF MoveSaved, Records
  <2>2. QED
    BY <1>16, <1>c, <2>1 DEF InstancesBounded, Scanning, MoveSaved, Settle, At, outside,
         othersKeep, historyVars
<1>17. ASSUME NEW o \in Ops, MoveNotSaved(o)
      PROVE  InstancesBounded'
  BY <1>17, <1>a, <1>b, <1>c
     DEF InstancesBounded, Scanning, MoveNotSaved, Go, Mishap, At, outside,
         othersKeep, historyVars
<1>18. ASSUME NEW o \in Ops, MoveBack(o)
      PROVE  InstancesBounded'
  BY <1>18, <1>a, <1>b, <1>c
     DEF InstancesBounded, Scanning, MoveBack, Fails, Settle, At, outside,
         othersKeep, historyVars
<1>19. ASSUME NEW o \in Ops, Preflight(o)
      PROVE  InstancesBounded'
  BY <1>19, <1>a, <1>b, <1>c
     DEF InstancesBounded, Scanning, Preflight, Fails, Settle, At, outside,
         othersKeep, historyVars
<1>20. ASSUME NEW o \in Ops, Prepare(o)
      PROVE  InstancesBounded'
  <2>1. record'.inst = record.inst
    BY <1>20, <1>a DEF Prepare, Records
  <2>2. QED
    BY <1>20, <1>c, <2>1 DEF InstancesBounded, Scanning, Prepare, Fails, Settle, At, outside,
         othersKeep, historyVars
<1>21. ASSUME NEW o \in Ops, RemoveGivesUp(o)
      PROVE  InstancesBounded'
  BY <1>21, <1>a, <1>b, <1>c
     DEF InstancesBounded, Scanning, RemoveGivesUp, Go, Mishap, At,
         outside, othersKeep, historyVars
<1>22. ASSUME NEW o \in Ops, Clean(o)
      PROVE  InstancesBounded'
  BY <1>22, <1>a, <1>b, <1>c
     DEF InstancesBounded, Scanning, Clean, Go, At, outside, othersKeep,
         historyVars
<1>23. ASSUME NEW o \in Ops, Verify(o)
      PROVE  InstancesBounded'
  BY <1>23, <1>a, <1>b, <1>c
     DEF InstancesBounded, Scanning, Verify, Go, At, outside, othersKeep,
         historyVars
<1>24. ASSUME NEW o \in Ops, GitRemoves(o)
      PROVE  InstancesBounded'
  BY <1>24, <1>a, <1>b, <1>c
     DEF InstancesBounded, Scanning, GitRemoves, Go, Mishap, At, outside,
         othersKeep, historyVars
<1>25. ASSUME NEW o \in Ops, RemoveBranch(o)
      PROVE  InstancesBounded'
  BY <1>25, <1>a, <1>b, <1>c
     DEF InstancesBounded, Scanning, RemoveBranch, Go, At, outside,
         othersKeep, historyVars
<1>26. ASSUME NEW o \in Ops, RemoveSession(o)
      PROVE  InstancesBounded'
  BY <1>26, <1>a, <1>b, <1>c
     DEF InstancesBounded, Scanning, RemoveSession, Go, At, outside,
         othersKeep, historyVars
<1>27. ASSUME NEW o \in Ops, Finalize(o)
      PROVE  InstancesBounded'
  <2>1. record'.inst <= record.inst /\ record'.inst \in Nat
    BY <1>27, <1>b, NoRecordType DEF Finalize
  <2>2. scans' = scans /\ recon' = recon
    BY <1>27 DEF Finalize, Go, Settle, At, outside, othersKeep, historyVars
  <2>3. QED
    BY <1>a, <1>b, <1>c, <2>1, <2>2 DEF InstancesBounded, Scanning
<1>28. ASSUME NEW o \in Ops, Abort(o)
      PROVE  InstancesBounded'
  <2>1. record'.inst = record.inst
    BY <1>28, <1>a DEF Abort, Records
  <2>2. QED
    BY <1>28, <1>c, <2>1 DEF InstancesBounded, Scanning, Abort, Fails, Settle, At, outside,
         othersKeep, historyVars
<1>29. ASSUME NEW o \in Ops, BeginOther(o)
      PROVE  InstancesBounded'
  BY <1>29, <1>a, <1>b, <1>c
     DEF InstancesBounded, Scanning, BeginOther, outside, othersKeep,
         historyVars
<1>30. ASSUME NEW o \in Ops, GivesUp(o)
      PROVE  InstancesBounded'
  BY <1>30, <1>a, <1>b, <1>c
     DEF InstancesBounded, Scanning, GivesUp, Fails, Settle, Mishap, At,
         outside, othersKeep, historyVars
<1>31. ASSUME NEW o \in Ops, Cancel(o)
      PROVE  InstancesBounded'
  BY <1>31, <1>a, <1>b, <1>c
     DEF InstancesBounded, Scanning, Cancel, outside, othersKeep,
         historyVars
<1>32. CASE Scan
  BY <1>32, <1>a, <1>b, <1>c
     DEF InstancesBounded, Scanning, Scan, reconKeeps, NoScan, outside,
         othersKeep, historyVars, Scans
<1>33. CASE ReadRecords
  BY <1>33, <1>a, <1>b, <1>c
     DEF InstancesBounded, Scanning, ReadRecords, reconKeeps, outside,
         othersKeep, historyVars, Scans
<1>34. CASE Reconcile
  <2>1. recon.step = "read" /\ recon'.step = "idle" /\ scans' = scans
    BY <1>34 DEF Reconcile, NoScan
  <2>2. CASE Adopt
    <3>1. record'.inst = record.inst \/ record'.inst = record.inst + 1
      BY <2>2 DEF Adopt
    <3>2. QED
      BY <1>a, <1>b, <1>c, <2>1, <3>1 DEF InstancesBounded, Scanning
  <2>3. CASE Refresh \/ MarkMissing \/ LeaveAlone
    <3>1. record'.inst = record.inst
      BY <1>a, <2>3 DEF Refresh, MarkMissing, LeaveAlone, Records
    <3>2. QED
      BY <1>a, <1>b, <1>c, <2>1, <3>1 DEF InstancesBounded, Scanning
  <2>4. QED
    BY <1>34, <2>2, <2>3 DEF Reconcile

<1>35. ASSUME NEW to \in Paths \cup {Nowhere}, UserMoves(to)
      PROVE  InstancesBounded'
  BY <1>35, <1>a, <1>b, <1>c
     DEF InstancesBounded, Scanning, UserMoves, otherActs, outside,
         othersKeep, historyVars
<1>36. CASE AgentCommits
  BY <1>36, <1>a, <1>b, <1>c
     DEF InstancesBounded, Scanning, AgentCommits, otherActs, outside,
         othersKeep, historyVars
<1>37. CASE Crash
  BY <1>37, <1>a, <1>b, <1>c
     DEF InstancesBounded, Scanning, Crash, otherActs, NoScan, outside,
         othersKeep, historyVars
<1>38. CASE UNCHANGED vars
  BY <1>38, <1>a, <1>b, <1>c
     DEF InstancesBounded, Scanning, vars, outside, othersKeep, historyVars
<1>39. QED
  BY <1>1, <1>2, <1>3, <1>4, <1>5, <1>6, <1>7, <1>8, <1>9, <1>10, <1>11,
     <1>12, <1>13, <1>14, <1>15, <1>16, <1>17, <1>18, <1>19, <1>20, <1>21,
     <1>22, <1>23, <1>24, <1>25, <1>26, <1>27, <1>28, <1>29, <1>30, <1>31,
     <1>32, <1>33, <1>34, <1>35, <1>36, <1>37, <1>38
     DEF Next, Create, Move, Remove

LEMMA TypeStep ==
    ASSUME TypeOK, Known, [Next]_vars
    PROVE  TypeOK' /\ Known'
<1>1. VarTypes' /\ RowTypes' /\ GoodRecord(record)' /\ recon' \in Scans
      /\ InstancesBounded' /\ \A x \in Ops : OperationKnows(x)'
  BY VarTypesStep, ThreadStep, RecordStep, InstancesStep
<1>2. RecordTypes'
  <2>1. record' \in Records /\ (record' # NoRecord => record'.inst # 0) /\ recon' \in Scans
    BY <1>1 DEF GoodRecord
  <2>2. record' = NoRecord => record'.inst = 0
    BY NoRecordType
  <2>3. QED
    BY <2>1, <2>2 DEF RecordTypes
<1>3. TypeOK'
  BY <1>1, <1>2 DEF TypeOK, VarTypes, RowTypes, RecordTypes, Threads, Scans
<1>4. QED
  BY <1>1, <1>3 DEF Known

\* The invariant under every other one.
LEMMA TypesKnown == Spec => [](TypeOK /\ Known)
<1>1. Init => TypeOK /\ Known
  <2>1. ASSUME Init PROVE VarTypes /\ RowTypes /\ RecordTypes
    <3>1. VarTypes
      <4>1. checkout = Nowhere /\ branch = "none" /\ session = FALSE /\ scans = MaxScans
            /\ trouble = MaxTrouble /\ kept = {} /\ unseen = {} /\ cancelled = {}
            /\ unbound = FALSE /\ astray = FALSE /\ crashed = FALSE
        BY <2>1 DEF Init
      <4>2. scans \in 0 .. MaxScans /\ trouble \in 0 .. MaxTrouble
        BY <4>1, Constants
      <4>3. QED
        BY <4>1, <4>2, Zenon DEF VarTypes
    <3>2. RowTypes
      BY <2>1, FreshType DEF Init, RowTypes
    <3>3. RecordTypes
      BY <2>1, NoRecordType DEF Init, RecordTypes
    <3>4. QED
      BY <3>1, <3>2, <3>3
  <2>2. ASSUME Init PROVE Known
    BY <2>2, Constants, NoRecordType
       DEF Init, Known, InstancesBounded, Scanning, GoodRecord, OperationKnows, StepsOf, Fresh, NoScan
  <2>3. QED
    BY <2>1, <2>2, TypeParts
<1>2. TypeOK /\ Known /\ [Next]_vars => (TypeOK /\ Known)'
  BY TypeStep
<1>3. QED
  BY <1>1, <1>2, PTL DEF Spec

(***************************************************************************)
(* The types of the variables: a record has no more instances than         *)
(* reconciliations have made.                                              *)
(***************************************************************************)
THEOREM TypeCorrect == Spec => []TypeOK
  BY TypesKnown, PTL

-----------------------------------------------------------------------------
(* A create that fails *)

Early == {"idle", "creating", "register", "binding", "bind"}
Undoing == {"undoSession", "undoRecord", "undoTree", "undoBranch"}

Told(artifact) == artifact \in kept \cup unseen

\* What there is of an artifact while and after a create is undone has been
\* reported, or is still to be undone; a session that is reported is gone.
CreateKnows(c) ==
    /\ op[c].step \in {"idle", "creating"} => checkout = Nowhere /\ branch = "none"
    /\ op[c].step \in {"idle", "creating", "register"} => record = NoRecord
    /\ op[c].step \in Early \ {"bind"} => ~ session
    /\ op[c].step \in {"bind", "launching"} => op[c].session
    /\ op[c].step \in Undoing \/ row[c] = "failed" =>
          /\ session =>
                \/ "session" \in unseen
                \/ op[c].step = "undoSession" /\ op[c].session
          /\ record # NoRecord =>
                \/ Told("metadata")
                \/ op[c].step \in {"undoSession", "undoRecord"} /\ op[c].inst # 0
          /\ checkout # Nowhere =>
                \/ Told("path")
                \/ op[c].step \in Undoing \ {"undoBranch"} /\ op[c].path # Nowhere
          /\ branch # "none" =>
                \/ Told("branch")
                \/ op[c].step \in Undoing /\ op[c].path # Nowhere

CreateInv == \A c \in Ops : Kind[c] = "create" => CreateKnows(c)

\* Other operations, reconciliations, users and crashes make nothing that the
\* create c undoes, and report nothing.
Apart(c) ==
    /\ op'[c] = op[c] \/ op'[c].step = "done"
    /\ row'[c] = row[c]
    /\ checkout = Nowhere => checkout' = Nowhere
    /\ branch = "none" => branch' = "none"
    /\ record = NoRecord => record' = NoRecord
    /\ session = FALSE => session' = FALSE
    /\ UNCHANGED <<kept, unseen>>

LEMMA OthersApart ==
    ASSUME TypeOK, Known, [Next]_vars,
           NEW c \in Ops, Kind[c] = "create", ~ Create(c)
    PROVE  Apart(c)
<1>a. op \in [Ops -> Threads] /\ row \in [Ops -> {"none", "running", "completed", "failed"}]
      /\ op[c] \in Threads /\ recon.rec \in Records
  BY TypeParts DEF RowTypes, RecordTypes, Scans
<1>b. NoRecord.inst = 0 /\ NoRecord.life = "none" /\ NoRecord.path = Nowhere /\ Nowhere \notin Paths
  BY Constants DEF NoRecord
<1>c. \A o \in Ops : OperationKnows(o)
  BY DEF Known
<1>d. \A o \in Ops : Kind[o] = "create" => o = c
  BY Constants
<1>1. ASSUME NEW o \in Ops, Create(o)
      PROVE  Apart(c)
  <2>1. Kind[o] = "create"
    BY <1>1, Zenon DEF Create, At, BeginCreate, CreateGivesUp, Add, AddBreaks, Register,
       OpenSession, Bind, Launch, UndoSession, UndoRecord, UndoTree, UndoBranch
  <2>2. o = c
    BY <1>d, <2>1
  <2>3. QED
    BY <1>1, <2>2
<1>2. ASSUME NEW o \in Ops, NEW to \in Paths, MoveChecks(o, to)
      PROVE  Apart(c)
  <2>1. o # c
    BY <1>2 DEF MoveChecks, At
  <2>2. op'[c] = op[c] /\ row'[c] = row[c]
    BY <1>2, <1>a, <2>1 DEF MoveChecks, Fails, Settle, At, outside, othersKeep, historyVars
  <2>3. QED
    BY <1>2, <1>b, <1>c, <2>2
       DEF Apart, OperationKnows, MoveChecks, Fails, Settle, At, outside,
         othersKeep, historyVars
<1>3. ASSUME NEW o \in Ops, GitMoves(o)
      PROVE  Apart(c)
  <2>1. o # c
    BY <1>3 DEF GitMoves, At
  <2>2. op'[c] = op[c] /\ row'[c] = row[c]
    BY <1>3, <1>a, <2>1 DEF GitMoves, Fails, Settle, Go, At, outside, othersKeep, historyVars
  <2>3. QED
    BY <1>3, <1>b, <1>c, <2>2
       DEF Apart, OperationKnows, GitMoves, Fails, Settle, Go, At, outside,
         othersKeep, historyVars
<1>4. ASSUME NEW o \in Ops, GitMoveBreaks(o)
      PROVE  Apart(c)
  <2>1. o # c
    BY <1>4 DEF GitMoveBreaks, At
  <2>2. op'[c] = op[c] /\ row'[c] = row[c]
    BY <1>4, <1>a, <2>1 DEF GitMoveBreaks, Fails, Settle, Mishap, At, outside, othersKeep,
         historyVars
  <2>3. QED
    BY <1>4, <1>b, <1>c, <2>2
       DEF Apart, OperationKnows, GitMoveBreaks, Fails, Settle, Mishap, At,
         outside, othersKeep, historyVars
<1>5. ASSUME NEW o \in Ops, MoveSaved(o)
      PROVE  Apart(c)
  <2>1. o # c
    BY <1>5 DEF MoveSaved, At
  <2>2. op'[c] = op[c] /\ row'[c] = row[c]
    BY <1>5, <1>a, <2>1 DEF MoveSaved, Settle, At, outside, othersKeep, historyVars
  <2>3. QED
    BY <1>5, <1>b, <1>c, <2>2
       DEF Apart, OperationKnows, MoveSaved, Settle, At, outside, othersKeep,
         historyVars
<1>6. ASSUME NEW o \in Ops, MoveNotSaved(o)
      PROVE  Apart(c)
  <2>1. o # c
    BY <1>6 DEF MoveNotSaved, At
  <2>2. op'[c] = op[c] /\ row'[c] = row[c]
    BY <1>6, <1>a, <2>1 DEF MoveNotSaved, Go, Mishap, At, outside, othersKeep, historyVars
  <2>3. QED
    BY <1>6, <1>b, <1>c, <2>2
       DEF Apart, OperationKnows, MoveNotSaved, Go, Mishap, At, outside,
         othersKeep, historyVars
<1>7. ASSUME NEW o \in Ops, MoveBack(o)
      PROVE  Apart(c)
  <2>1. o # c
    BY <1>7 DEF MoveBack, At
  <2>2. op'[c] = op[c] /\ row'[c] = row[c]
    BY <1>7, <1>a, <2>1 DEF MoveBack, Fails, Settle, At, outside, othersKeep, historyVars
  <2>3. QED
    BY <1>7, <1>b, <1>c, <2>2
       DEF Apart, OperationKnows, MoveBack, Fails, Settle, At, outside,
         othersKeep, historyVars
<1>8. ASSUME NEW o \in Ops, Preflight(o)
      PROVE  Apart(c)
  <2>1. o # c
    BY <1>8 DEF Preflight, At
  <2>2. op'[c] = op[c] /\ row'[c] = row[c]
    BY <1>8, <1>a, <2>1 DEF Preflight, Fails, Settle, At, outside, othersKeep, historyVars
  <2>3. QED
    BY <1>8, <1>b, <1>c, <2>2
       DEF Apart, OperationKnows, Preflight, Fails, Settle, At, outside,
         othersKeep, historyVars
<1>9. ASSUME NEW o \in Ops, Prepare(o)
      PROVE  Apart(c)
  <2>1. o # c
    BY <1>9 DEF Prepare, At
  <2>2. op'[c] = op[c] /\ row'[c] = row[c]
    BY <1>9, <1>a, <2>1 DEF Prepare, Fails, Settle, At, outside, othersKeep, historyVars
  <2>3. QED
    BY <1>9, <1>b, <1>c, <2>2
       DEF Apart, OperationKnows, Prepare, Fails, Settle, At, outside,
         othersKeep, historyVars
<1>10. ASSUME NEW o \in Ops, RemoveGivesUp(o)
      PROVE  Apart(c)
  <2>1. o # c
    BY <1>10 DEF RemoveGivesUp, At
  <2>2. op'[c] = op[c] /\ row'[c] = row[c]
    BY <1>10, <1>a, <2>1 DEF RemoveGivesUp, Go, Mishap, At, outside, othersKeep, historyVars
  <2>3. QED
    BY <1>10, <1>b, <1>c, <2>2
       DEF Apart, OperationKnows, RemoveGivesUp, Go, Mishap, At, outside,
         othersKeep, historyVars
<1>11. ASSUME NEW o \in Ops, Clean(o)
      PROVE  Apart(c)
  <2>1. o # c
    BY <1>11 DEF Clean, At
  <2>2. op'[c] = op[c] /\ row'[c] = row[c]
    BY <1>11, <1>a, <2>1 DEF Clean, Go, At, outside, othersKeep, historyVars
  <2>3. QED
    BY <1>11, <1>b, <1>c, <2>2
       DEF Apart, OperationKnows, Clean, Go, At, outside, othersKeep,
         historyVars
<1>12. ASSUME NEW o \in Ops, Verify(o)
      PROVE  Apart(c)
  <2>1. o # c
    BY <1>12 DEF Verify, At
  <2>2. op'[c] = op[c] /\ row'[c] = row[c]
    BY <1>12, <1>a, <2>1 DEF Verify, Go, At, outside, othersKeep, historyVars
  <2>3. QED
    BY <1>12, <1>b, <1>c, <2>2
       DEF Apart, OperationKnows, Verify, Go, At, outside, othersKeep,
         historyVars
<1>13. ASSUME NEW o \in Ops, GitRemoves(o)
      PROVE  Apart(c)
  <2>1. o # c
    BY <1>13 DEF GitRemoves, At
  <2>2. op'[c] = op[c] /\ row'[c] = row[c]
    BY <1>13, <1>a, <2>1 DEF GitRemoves, Go, Mishap, At, outside, othersKeep, historyVars
  <2>3. QED
    BY <1>13, <1>b, <1>c, <2>2
       DEF Apart, OperationKnows, GitRemoves, Go, Mishap, At, outside,
         othersKeep, historyVars
<1>14. ASSUME NEW o \in Ops, RemoveBranch(o)
      PROVE  Apart(c)
  <2>1. o # c
    BY <1>14 DEF RemoveBranch, At
  <2>2. op'[c] = op[c] /\ row'[c] = row[c]
    BY <1>14, <1>a, <2>1 DEF RemoveBranch, Go, At, outside, othersKeep, historyVars
  <2>3. QED
    BY <1>14, <1>b, <1>c, <2>2
       DEF Apart, OperationKnows, RemoveBranch, Go, At, outside, othersKeep,
         historyVars
<1>15. ASSUME NEW o \in Ops, RemoveSession(o)
      PROVE  Apart(c)
  <2>1. o # c
    BY <1>15 DEF RemoveSession, At
  <2>2. op'[c] = op[c] /\ row'[c] = row[c]
    BY <1>15, <1>a, <2>1 DEF RemoveSession, Go, At, outside, othersKeep, historyVars
  <2>3. QED
    BY <1>15, <1>b, <1>c, <2>2
       DEF Apart, OperationKnows, RemoveSession, Go, At, outside, othersKeep,
         historyVars
<1>16. ASSUME NEW o \in Ops, Finalize(o)
      PROVE  Apart(c)
  <2>1. o # c
    BY <1>16 DEF Finalize, At
  <2>2. op'[c] = op[c] /\ row'[c] = row[c]
    BY <1>16, <1>a, <2>1 DEF Finalize, Go, Settle, At, outside, othersKeep, historyVars
  <2>3. QED
    BY <1>16, <1>b, <1>c, <2>2
       DEF Apart, OperationKnows, Finalize, Go, Settle, At, outside,
         othersKeep, historyVars
<1>17. ASSUME NEW o \in Ops, Abort(o)
      PROVE  Apart(c)
  <2>1. o # c
    BY <1>17 DEF Abort, At
  <2>2. op'[c] = op[c] /\ row'[c] = row[c]
    BY <1>17, <1>a, <2>1 DEF Abort, Fails, Settle, At, outside, othersKeep, historyVars
  <2>3. QED
    BY <1>17, <1>b, <1>c, <2>2
       DEF Apart, OperationKnows, Abort, Fails, Settle, At, outside,
         othersKeep, historyVars
<1>18. ASSUME NEW o \in Ops, BeginOther(o)
      PROVE  Apart(c)
  <2>1. o # c
    BY <1>18 DEF BeginOther, At
  <2>2. op'[c] = op[c] /\ row'[c] = row[c]
    BY <1>18, <1>a, <2>1 DEF BeginOther, outside, othersKeep, historyVars
  <2>3. QED
    BY <1>18, <1>b, <1>c, <2>2
       DEF Apart, OperationKnows, BeginOther, outside, othersKeep,
         historyVars
<1>19. ASSUME NEW o \in Ops, GivesUp(o)
      PROVE  Apart(c)
  <2>1. o # c
    BY <1>19 DEF GivesUp, At
  <2>2. op'[c] = op[c] /\ row'[c] = row[c]
    BY <1>19, <1>a, <2>1 DEF GivesUp, Fails, Settle, Mishap, At, outside, othersKeep,
         historyVars
  <2>3. QED
    BY <1>19, <1>b, <1>c, <2>2
       DEF Apart, OperationKnows, GivesUp, Fails, Settle, Mishap, At,
         outside, othersKeep, historyVars
<1>20. ASSUME NEW o \in Ops, Cancel(o)
      PROVE  Apart(c)
  BY <1>20, <1>a, <1>b
     DEF Apart, Cancel, outside, othersKeep, historyVars
<1>21. CASE Scan
  BY <1>21, <1>a, <1>b
     DEF Apart, Scan, reconKeeps, NoScan, outside, othersKeep, historyVars
<1>22. CASE ReadRecords
  BY <1>22, <1>a, <1>b
     DEF Apart, ReadRecords, reconKeeps, outside, othersKeep, historyVars
<1>23. CASE Reconcile
  BY <1>23, <1>a, <1>b
     DEF Apart, Reconcile, reconKeeps, NoScan, Adopt, Refresh, MarkMissing,
         LeaveAlone, Found, outside, othersKeep, historyVars
<1>24. ASSUME NEW to \in Paths \cup {Nowhere}, UserMoves(to)
      PROVE  Apart(c)
  BY <1>24, <1>a, <1>b
     DEF Apart, UserMoves, otherActs, outside, othersKeep, historyVars
<1>25. CASE AgentCommits
  BY <1>25, <1>a, <1>b
     DEF Apart, AgentCommits, otherActs, outside, othersKeep, historyVars
<1>26. CASE Crash
  <2>1. op'[c] = op[c] \/ op'[c].step = "done"
    BY <1>26, <1>a, EndedType DEF Crash
  <2>2. QED
    BY <1>26, <2>1 DEF Apart, Crash, otherActs
<1>27. CASE UNCHANGED vars
  BY <1>27, <1>a, <1>b
     DEF Apart, vars, outside, othersKeep, historyVars
<1>28. QED
  BY <1>1, <1>2, <1>3, <1>4, <1>5, <1>6, <1>7, <1>8, <1>9, <1>10, <1>11,
     <1>12, <1>13, <1>14, <1>15, <1>16, <1>17, <1>18, <1>19, <1>20, <1>21,
     <1>22, <1>23, <1>24, <1>25, <1>26, <1>27
     DEF Next, Move, Remove

\* Its own steps undo or report everything they have made.
LEMMA CreateStep ==
    ASSUME TypeOK, Known, NEW c \in Ops, Kind[c] = "create", CreateKnows(c), Create(c)
    PROVE  CreateKnows(c)'
<1>a. op \in [Ops -> Threads] /\ row \in [Ops -> {"none", "running", "completed", "failed"}]
      /\ op[c] \in Threads /\ OperationKnows(c)
  BY TypeParts DEF RowTypes, Known
<1>b. NoRecord.inst = 0 /\ Home # Nowhere /\ session \in BOOLEAN
  BY Constants, NoRecordType, TypeParts DEF VarTypes
<1>c. row[c] # "failed"
  BY <1>a DEF Create, At, OperationKnows, BeginCreate, CreateGivesUp, Add, AddBreaks, Register,
     OpenSession, Bind, Launch, UndoSession, UndoRecord, UndoTree, UndoBranch
<1>1. CASE BeginCreate(c)
  <2>1. op'[c] = [op[c] EXCEPT !.step = "creating"] /\ row'[c] = "running"
    BY <1>1, <1>a DEF BeginCreate, Go, At, outside, othersKeep, historyVars
  <2>2. CASE op'[c] = [op[c] EXCEPT !.step = "creating"] /\ row'[c] = "running"
    <3>1. /\ op'[c].step = "creating" /\ op'[c].inst = op[c].inst
          /\ op'[c].path = op[c].path /\ op'[c].session = op[c].session
      BY <1>a, <2>2 DEF Threads
    <3>2. QED
      BY <1>1, <1>a, <1>b, <1>c, <2>2, <3>1
         DEF CreateKnows, OperationKnows, Told, Early, Undoing, BeginCreate,
         At, outside, othersKeep, historyVars
  <2>3. QED
    BY <2>1, <2>2
<1>2. CASE CreateGivesUp(c)
  <2>1. op'[c] = [op[c] EXCEPT !.step = "undoSession"] /\ row'[c] = row[c]
    BY <1>2, <1>a DEF CreateGivesUp, Undo, Go, Mishap, At, outside, othersKeep,
         historyVars
  <2>2. CASE op'[c] = [op[c] EXCEPT !.step = "undoSession"] /\ row'[c] = row[c]
    <3>1. /\ op'[c].step = "undoSession" /\ op'[c].inst = op[c].inst
          /\ op'[c].path = op[c].path /\ op'[c].session = op[c].session
      BY <1>a, <2>2 DEF Threads
    <3>2. QED
      BY <1>2, <1>a, <1>b, <1>c, <2>2, <3>1
         DEF CreateKnows, OperationKnows, Told, Early, Undoing, CreateGivesUp,
         At, outside, othersKeep, historyVars
  <2>3. QED
    BY <2>1, <2>2
<1>3. CASE Add(c)
  <2>1. op'[c] = [op[c] EXCEPT !.step = "register", !.path = Home] /\ row'[c] = row[c]
    BY <1>3, <1>a DEF Add, At, outside, othersKeep, historyVars
  <2>2. CASE op'[c] = [op[c] EXCEPT !.step = "register", !.path = Home] /\ row'[c] = row[c]
    <3>1. /\ op'[c].step = "register" /\ op'[c].inst = op[c].inst /\ op'[c].path = Home
          /\ op'[c].session = op[c].session
      BY <1>a, <2>2 DEF Threads
    <3>2. QED
      BY <1>3, <1>a, <1>b, <1>c, <2>2, <3>1
         DEF CreateKnows, OperationKnows, Told, Early, Undoing, Add, At,
         outside, othersKeep, historyVars
  <2>3. QED
    BY <2>1, <2>2
<1>4. CASE AddBreaks(c)
  <2>1. op'[c] = [op[c] EXCEPT !.step = "undoSession"] /\ row'[c] = row[c]
    BY <1>4, <1>a DEF AddBreaks, Undo, Go, Mishap, At, outside, othersKeep, historyVars
  <2>2. CASE op'[c] = [op[c] EXCEPT !.step = "undoSession"] /\ row'[c] = row[c]
    <3>1. /\ op'[c].step = "undoSession" /\ op'[c].inst = op[c].inst
          /\ op'[c].path = op[c].path /\ op'[c].session = op[c].session
      BY <1>a, <2>2 DEF Threads
    <3>2. QED
      BY <1>4, <1>a, <1>b, <1>c, <2>2, <3>1
         DEF CreateKnows, OperationKnows, Told, Early, Undoing, AddBreaks, At,
         outside, othersKeep, historyVars
  <2>3. QED
    BY <2>1, <2>2
<1>5. CASE Register(c)
  <2>1. \/ /\ op'[c] = [op[c] EXCEPT !.step = "binding", !.inst = 1] /\ row'[c] = row[c]
           /\ session' = session
        \/ /\ op'[c] = [op[c] EXCEPT !.step = "undoSession"] /\ row'[c] = row[c]
           /\ record' = record
    BY <1>5, <1>a DEF Register, Undo, Go, At, outside, othersKeep, historyVars
  <2>2. CASE /\ op'[c] = [op[c] EXCEPT !.step = "binding", !.inst = 1] /\ row'[c] = row[c]
             /\ session' = session
    <3>1. /\ op'[c].step = "binding" /\ op'[c].inst = 1 /\ op'[c].path = op[c].path
          /\ op'[c].session = op[c].session
      BY <1>a, <2>2 DEF Threads
    <3>2. QED
      BY <1>5, <1>a, <1>b, <1>c, <2>2, <3>1
         DEF CreateKnows, OperationKnows, Told, Early, Undoing, Register, At,
         outside, othersKeep, historyVars
  <2>3. CASE /\ op'[c] = [op[c] EXCEPT !.step = "undoSession"] /\ row'[c] = row[c]
             /\ record' = record
    <3>1. /\ op'[c].step = "undoSession" /\ op'[c].inst = op[c].inst
          /\ op'[c].path = op[c].path /\ op'[c].session = op[c].session
      BY <1>a, <2>3 DEF Threads
    <3>2. QED
      BY <1>5, <1>a, <1>b, <1>c, <2>3, <3>1
         DEF CreateKnows, OperationKnows, Told, Early, Undoing, Register, At,
         outside, othersKeep, historyVars
  <2>4. QED
    BY <2>1, <2>2, <2>3
<1>6. CASE OpenSession(c)
  <2>1. \/ /\ op'[c] = [op[c] EXCEPT !.step = "bind", !.session = TRUE] /\ row'[c] = row[c]
           /\ unseen' = unseen
        \/ /\ op'[c] = [op[c] EXCEPT !.step = "undoSession"] /\ row'[c] = row[c]
           /\ "session" \in unseen'
    BY <1>6, <1>a DEF OpenSession, Undo, Go, Mishap, At, outside, othersKeep,
         historyVars
  <2>2. CASE /\ op'[c] = [op[c] EXCEPT !.step = "bind",
                                       !.session = TRUE] /\ row'[c] = row[c]
             /\ unseen' = unseen
    <3>1. /\ op'[c].step = "bind" /\ op'[c].inst = op[c].inst
          /\ op'[c].path = op[c].path /\ op'[c].session = TRUE
      BY <1>a, <2>2 DEF Threads
    <3>2. QED
      BY <1>6, <1>a, <1>b, <1>c, <2>2, <3>1
         DEF CreateKnows, OperationKnows, Told, Early, Undoing, OpenSession,
         At, outside, othersKeep, historyVars
  <2>3. CASE /\ op'[c] = [op[c] EXCEPT !.step = "undoSession"] /\ row'[c] = row[c]
             /\ "session" \in unseen'
    <3>1. /\ op'[c].step = "undoSession" /\ op'[c].inst = op[c].inst
          /\ op'[c].path = op[c].path /\ op'[c].session = op[c].session
      BY <1>a, <2>3 DEF Threads
    <3>2. QED
      BY <1>6, <1>a, <1>b, <1>c, <2>3, <3>1
         DEF CreateKnows, OperationKnows, Told, Early, Undoing, OpenSession,
         At, outside, othersKeep, historyVars
  <2>4. QED
    BY <2>1, <2>2, <2>3
<1>7. CASE Bind(c)
  <2>1. \/ op'[c] = [op[c] EXCEPT !.step = "launching",
                                  !.to = record.path] /\ row'[c] = row[c]
        \/ op'[c] = [op[c] EXCEPT !.step = "undoSession"] /\ row'[c] = row[c]
    BY <1>7, <1>a DEF Bind, Undo, Go, At, outside, othersKeep, historyVars
  <2>2. CASE op'[c] = [op[c] EXCEPT !.step = "launching",
                                    !.to = record.path] /\ row'[c] = row[c]
    <3>1. /\ op'[c].step = "launching" /\ op'[c].inst = op[c].inst
          /\ op'[c].path = op[c].path /\ op'[c].session = op[c].session
      BY <1>a, <2>2 DEF Threads
    <3>2. QED
      BY <1>7, <1>a, <1>b, <1>c, <2>2, <3>1
         DEF CreateKnows, OperationKnows, Told, Early, Undoing, Bind, At,
         outside, othersKeep, historyVars
  <2>3. CASE op'[c] = [op[c] EXCEPT !.step = "undoSession"] /\ row'[c] = row[c]
    <3>1. /\ op'[c].step = "undoSession" /\ op'[c].inst = op[c].inst
          /\ op'[c].path = op[c].path /\ op'[c].session = op[c].session
      BY <1>a, <2>3 DEF Threads
    <3>2. QED
      BY <1>7, <1>a, <1>b, <1>c, <2>3, <3>1
         DEF CreateKnows, OperationKnows, Told, Early, Undoing, Bind, At,
         outside, othersKeep, historyVars
  <2>4. QED
    BY <2>1, <2>2, <2>3
<1>8. CASE Launch(c)
  <2>1. \/ Goes(c, Ended(op[c])) /\ row' = [row EXCEPT ![c] = "completed"]
        \/ Goes(c, [op[c] EXCEPT !.step = "undoSession"]) /\ row' = row
    BY <1>8, <1>a DEF Goes, Launch, Undo, Go, Settle, outside, historyVars
  <2>2. CASE Goes(c, Ended(op[c])) /\ row' = [row EXCEPT ![c] = "completed"]
    <3>1. op'[c].step = "done" /\ row'[c] = "completed"
      BY <1>a, <2>2, EndedType DEF Goes
    <3>2. QED
      BY <3>1 DEF CreateKnows, Early, Undoing
  <2>3. CASE Goes(c, [op[c] EXCEPT !.step = "undoSession"]) /\ row' = row
    <3>1. /\ op'[c].step = "undoSession" /\ op'[c].inst = op[c].inst
          /\ op'[c].path = op[c].path /\ op'[c].session = op[c].session
      BY <1>a, <2>3 DEF Goes, Threads
    <3>2. QED
      BY <1>8, <1>a, <1>b, <1>c, <2>3, <3>1
         DEF CreateKnows, OperationKnows, Told, Early, Undoing, Launch, At, outside, historyVars
  <2>4. QED
    BY <2>1, <2>2, <2>3
<1>9. CASE UndoSession(c)
  <2>1. op'[c] = [op[c] EXCEPT !.step = "undoRecord"] /\ row'[c] = row[c]
    BY <1>9, <1>a DEF UndoSession, Go, At, outside, othersKeep, historyVars
  <2>2. CASE op'[c] = [op[c] EXCEPT !.step = "undoRecord"] /\ row'[c] = row[c]
    <3>1. /\ op'[c].step = "undoRecord" /\ op'[c].inst = op[c].inst
          /\ op'[c].path = op[c].path /\ op'[c].session = op[c].session
      BY <1>a, <2>2 DEF Threads
    <3>2. QED
      BY <1>9, <1>a, <1>b, <1>c, <2>2, <3>1
         DEF CreateKnows, OperationKnows, Told, Early, Undoing, UndoSession,
         At, outside, othersKeep, historyVars
  <2>3. QED
    BY <2>1, <2>2
<1>10. CASE UndoRecord(c)
  <2>1. op'[c] = [op[c] EXCEPT !.step = "undoTree"] /\ row'[c] = row[c]
    BY <1>10, <1>a DEF UndoRecord, Go, At, outside, othersKeep, historyVars
  <2>2. CASE op'[c] = [op[c] EXCEPT !.step = "undoTree"] /\ row'[c] = row[c]
    <3>1. /\ op'[c].step = "undoTree" /\ op'[c].inst = op[c].inst
          /\ op'[c].path = op[c].path /\ op'[c].session = op[c].session
      BY <1>a, <2>2 DEF Threads
    <3>2. QED
      BY <1>10, <1>a, <1>b, <1>c, <2>2, <3>1
         DEF CreateKnows, OperationKnows, Told, Early, Undoing, UndoRecord, At,
         outside, othersKeep, historyVars
  <2>3. QED
    BY <2>1, <2>2
<1>11. CASE UndoTree(c)
  <2>1. op'[c] = [op[c] EXCEPT !.step = "undoBranch"] /\ row'[c] = row[c]
    BY <1>11, <1>a DEF UndoTree, Go, At, outside, othersKeep, historyVars
  <2>2. CASE op'[c] = [op[c] EXCEPT !.step = "undoBranch"] /\ row'[c] = row[c]
    <3>1. /\ op'[c].step = "undoBranch" /\ op'[c].inst = op[c].inst
          /\ op'[c].path = op[c].path /\ op'[c].session = op[c].session
      BY <1>a, <2>2 DEF Threads
    <3>2. QED
      BY <1>11, <1>a, <1>b, <1>c, <2>2, <3>1
         DEF CreateKnows, OperationKnows, Told, Early, Undoing, UndoTree, At,
         outside, othersKeep, historyVars
  <2>3. QED
    BY <2>1, <2>2
<1>12. CASE UndoBranch(c)
  <2>1. op'[c] = Ended(op[c]) /\ row'[c] = "failed"
    BY <1>12, <1>a DEF UndoBranch, Settle, At, outside, othersKeep, historyVars
  <2>2. CASE op'[c] = Ended(op[c]) /\ row'[c] = "failed"
    <3>1. op'[c].step = "done"
      BY <1>a, <2>2, EndedType
    <3>2. QED
      BY <1>12, <1>a, <1>b, <1>c, <2>2, <3>1
         DEF CreateKnows, OperationKnows, Told, Early, Undoing, UndoBranch, At,
         outside, othersKeep, historyVars
  <2>3. QED
    BY <2>1, <2>2
<1>13. QED
  BY <1>1, <1>2, <1>3, <1>4, <1>5, <1>6, <1>7, <1>8, <1>9, <1>10, <1>11,
     <1>12
     DEF Create

LEMMA CreateInvStep ==
    ASSUME TypeOK, Known, CreateInv, [Next]_vars
    PROVE  CreateInv'
<1> SUFFICES ASSUME NEW c \in Ops, Kind[c] = "create"
             PROVE  CreateKnows(c)'
  BY DEF CreateInv
<1>1. CreateKnows(c) /\ OperationKnows(c) /\ op[c] \in Threads /\ session \in BOOLEAN
  BY TypeParts DEF CreateInv, Known, RowTypes, VarTypes
<1>2. CASE Create(c)
  BY <1>1, <1>2, CreateStep
<1>3. CASE ~ Create(c)
  <2>1. Apart(c)
    BY <1>3, OthersApart
  <2>2. row'[c] = "failed" => op[c].step = "done" /\ row[c] = "failed"
    BY <1>1, <2>1 DEF Apart, OperationKnows
  <2>3. CASE op'[c] = op[c]
    BY <1>1, <2>1, <2>2, <2>3 DEF Apart, CreateKnows, Told, Early, Undoing
  <2>4. CASE op'[c].step = "done"
    BY <1>1, <2>1, <2>2, <2>4 DEF Apart, CreateKnows, Told, Early, Undoing
  <2>5. QED
    BY <2>1, <2>3, <2>4 DEF Apart
<1>4. QED
  BY <1>2, <1>3

LEMMA CreatesKnown == Spec => []CreateInv
<1>1. Init => CreateInv
  BY DEF Init, CreateInv, CreateKnows, Fresh, Early, Undoing
<1>2. TypeOK /\ Known /\ CreateInv /\ [Next]_vars => CreateInv'
  BY CreateInvStep
<1>3. QED
  BY <1>1, <1>2, TypesKnown, PTL DEF Spec

(***************************************************************************)
(* A create that has failed leaves nothing behind but what it reports, or  *)
(* never knew it had made, whatever any number of other operations and     *)
(* reconciliations do to its worktree meanwhile.                           *)
(***************************************************************************)
THEOREM FailedCreateIsUndone == Spec => []RolledBack
<1>1. TypeOK /\ Known /\ CreateInv => RolledBack
  <2> SUFFICES ASSUME Known, CreateInv, NEW c \in Ops, Kind[c] = "create", row[c] = "failed"
               PROVE  Present \subseteq kept \cup unseen
    BY DEF RolledBack
  <2>1. CreateKnows(c) /\ op[c].step = "done"
    BY DEF CreateInv, Known, OperationKnows
  <2>2. QED
    BY <2>1 DEF CreateKnows, Present, Told, Undoing
<1>2. QED
  BY <1>1, TypesKnown, CreatesKnown, PTL

-----------------------------------------------------------------------------
(* Sessions *)

\* The record has no session before the create has bound it, and so no removal
\* has read one; a removal that has read it ends it before the record goes.
SessionKnown(c) ==
    /\ op[c].step \in Early =>
          ~ record.session /\ \A r \in Ops : Kind[r] = "remove" => ~ op[r].session
    /\ \A r \in Ops :
          Kind[r] = "remove" /\ op[r].step = "finalize" /\ op[r].session => ~ session
    /\ op[c].step = "done" => row[c] \in {"completed", "failed"} \/ crashed
    /\ /\ session /\ ~ unbound /\ ~ crashed /\ "session" \notin unseen
       /\ \A r \in Ops : Kind[r] = "remove" /\ row[r] = "completed" => op[r].session
       /\ op[c].step = "launching" \/ row[c] = "completed"
       => record.session

SessionInv == \A c \in Ops : Kind[c] = "create" => SessionKnown(c)

\* What others do to the removal r.
RemovalApart(r) ==
    /\ op'[r].session = op[r].session
    /\ op'[r].step = op[r].step \/ op'[r].step \in {"validating", "done"}
    /\ row[r] = "completed" => row'[r] = "completed"

LEMMA OthersAreNoRemoval ==
    ASSUME TypeOK, Known, [Next]_vars,
           NEW r \in Ops, Kind[r] = "remove", ~ Remove(r)
    PROVE  RemovalApart(r)
<1>a. op \in [Ops -> Threads] /\ row \in [Ops -> {"none", "running", "completed", "failed"}]
      /\ op[r] \in Threads /\ OperationKnows(r)
  BY TypeParts DEF RowTypes, Known
<1>b. Ended(op[r]).step = "done" /\ Ended(op[r]).session = op[r].session
  BY <1>a, EndedType
<1>1. ASSUME NEW o \in Ops, Remove(o)
      PROVE  RemovalApart(r)
  <2>1. o # r
    BY <1>1
  <2>2. op'[r] = op[r] /\ row'[r] = row[r]
    BY <1>1, <1>a, <2>1 DEF Remove, Go, Fails, Settle, othersKeep,
       Preflight, Prepare, RemoveGivesUp, Clean, Verify, GitRemoves, RemoveBranch,
       RemoveSession, Finalize, Abort
  <2>3. QED
    BY <2>2 DEF RemovalApart
<1>2. ASSUME NEW o \in Ops, BeginCreate(o)
      PROVE  RemovalApart(r)
  <2>1. o # r
    BY <1>2 DEF BeginCreate, At
  <2>2. QED
    BY <1>2, <1>a, <2>1 DEF RemovalApart, BeginCreate, Go, At, outside, othersKeep,
         historyVars
<1>3. ASSUME NEW o \in Ops, CreateGivesUp(o)
      PROVE  RemovalApart(r)
  <2>1. o # r
    BY <1>3 DEF CreateGivesUp, At
  <2>2. QED
    BY <1>3, <1>a, <2>1 DEF RemovalApart, CreateGivesUp, Undo, Go, Mishap, At, outside,
         othersKeep, historyVars
<1>4. ASSUME NEW o \in Ops, Add(o)
      PROVE  RemovalApart(r)
  <2>1. o # r
    BY <1>4 DEF Add, At
  <2>2. QED
    BY <1>4, <1>a, <2>1 DEF RemovalApart, Add, At, outside, othersKeep, historyVars
<1>5. ASSUME NEW o \in Ops, AddBreaks(o)
      PROVE  RemovalApart(r)
  <2>1. o # r
    BY <1>5 DEF AddBreaks, At
  <2>2. QED
    BY <1>5, <1>a, <2>1 DEF RemovalApart, AddBreaks, Undo, Go, Mishap, At, outside,
         othersKeep, historyVars
<1>6. ASSUME NEW o \in Ops, Register(o)
      PROVE  RemovalApart(r)
  <2>1. o # r
    BY <1>6 DEF Register, At
  <2>2. QED
    BY <1>6, <1>a, <2>1 DEF RemovalApart, Register, Undo, Go, At, outside, othersKeep,
         historyVars
<1>7. ASSUME NEW o \in Ops, OpenSession(o)
      PROVE  RemovalApart(r)
  <2>1. o # r
    BY <1>7 DEF OpenSession, At
  <2>2. QED
    BY <1>7, <1>a, <2>1 DEF RemovalApart, OpenSession, Undo, Go, Mishap, At, outside,
         othersKeep, historyVars
<1>8. ASSUME NEW o \in Ops, Bind(o)
      PROVE  RemovalApart(r)
  <2>1. o # r
    BY <1>8 DEF Bind, At
  <2>2. QED
    BY <1>8, <1>a, <2>1 DEF RemovalApart, Bind, Undo, Go, At, outside, othersKeep, historyVars
<1>9. ASSUME NEW o \in Ops, Launch(o)
      PROVE  RemovalApart(r)
  <2>1. o # r
    BY <1>9 DEF Launch, At
  <2>2. QED
    BY <1>9, <1>a, <2>1 DEF RemovalApart, Launch, Undo, Go, Settle, At, outside, othersKeep,
         historyVars
<1>10. ASSUME NEW o \in Ops, UndoSession(o)
      PROVE  RemovalApart(r)
  <2>1. o # r
    BY <1>10 DEF UndoSession, At
  <2>2. QED
    BY <1>10, <1>a, <2>1 DEF RemovalApart, UndoSession, Go, At, outside, othersKeep,
         historyVars
<1>11. ASSUME NEW o \in Ops, UndoRecord(o)
      PROVE  RemovalApart(r)
  <2>1. o # r
    BY <1>11 DEF UndoRecord, At
  <2>2. QED
    BY <1>11, <1>a, <2>1 DEF RemovalApart, UndoRecord, Go, At, outside, othersKeep, historyVars
<1>12. ASSUME NEW o \in Ops, UndoTree(o)
      PROVE  RemovalApart(r)
  <2>1. o # r
    BY <1>12 DEF UndoTree, At
  <2>2. QED
    BY <1>12, <1>a, <2>1 DEF RemovalApart, UndoTree, Go, At, outside, othersKeep, historyVars
<1>13. ASSUME NEW o \in Ops, UndoBranch(o)
      PROVE  RemovalApart(r)
  <2>1. o # r
    BY <1>13 DEF UndoBranch, At
  <2>2. QED
    BY <1>13, <1>a, <2>1 DEF RemovalApart, UndoBranch, Settle, At, outside, othersKeep,
         historyVars
<1>14. ASSUME NEW o \in Ops, NEW to \in Paths, MoveChecks(o, to)
      PROVE  RemovalApart(r)
  <2>1. o # r
    BY <1>14 DEF MoveChecks, At
  <2>2. QED
    BY <1>14, <1>a, <2>1 DEF RemovalApart, MoveChecks, Fails, Settle, At, outside, othersKeep,
         historyVars
<1>15. ASSUME NEW o \in Ops, GitMoves(o)
      PROVE  RemovalApart(r)
  <2>1. o # r
    BY <1>15 DEF GitMoves, At
  <2>2. QED
    BY <1>15, <1>a, <2>1 DEF RemovalApart, GitMoves, Fails, Settle, Go, At, outside,
         othersKeep, historyVars
<1>16. ASSUME NEW o \in Ops, GitMoveBreaks(o)
      PROVE  RemovalApart(r)
  <2>1. o # r
    BY <1>16 DEF GitMoveBreaks, At
  <2>2. QED
    BY <1>16, <1>a, <2>1 DEF RemovalApart, GitMoveBreaks, Fails, Settle, Mishap, At, outside,
         othersKeep, historyVars
<1>17. ASSUME NEW o \in Ops, MoveSaved(o)
      PROVE  RemovalApart(r)
  <2>1. o # r
    BY <1>17 DEF MoveSaved, At
  <2>2. QED
    BY <1>17, <1>a, <2>1 DEF RemovalApart, MoveSaved, Settle, At, outside, othersKeep,
         historyVars
<1>18. ASSUME NEW o \in Ops, MoveNotSaved(o)
      PROVE  RemovalApart(r)
  <2>1. o # r
    BY <1>18 DEF MoveNotSaved, At
  <2>2. QED
    BY <1>18, <1>a, <2>1 DEF RemovalApart, MoveNotSaved, Go, Mishap, At, outside, othersKeep,
         historyVars
<1>19. ASSUME NEW o \in Ops, MoveBack(o)
      PROVE  RemovalApart(r)
  <2>1. o # r
    BY <1>19 DEF MoveBack, At
  <2>2. QED
    BY <1>19, <1>a, <2>1 DEF RemovalApart, MoveBack, Fails, Settle, At, outside, othersKeep,
         historyVars
<1>20. ASSUME NEW o \in Ops, BeginOther(o)
      PROVE  RemovalApart(r)
  <2>1. CASE o # r
    BY <1>20, <1>a, <2>1 DEF RemovalApart, BeginOther, outside, othersKeep, historyVars
  <2>2. CASE o = r
    <3>1. op'[r].step = "validating" /\ op'[r].session = op[r].session
      BY <1>20, <1>a, <2>2 DEF BeginOther, outside, othersKeep, historyVars, Threads
    <3>2. row[r] # "completed"
      BY <1>20, <1>a, <2>2 DEF BeginOther, At, OperationKnows
    <3>3. QED
      BY <1>b, <3>1, <3>2 DEF RemovalApart
  <2>3. QED
    BY <2>1, <2>2
<1>21. ASSUME NEW o \in Ops, GivesUp(o)
      PROVE  RemovalApart(r)
  <2>1. CASE o # r
    BY <1>21, <1>a, <2>1 DEF RemovalApart, GivesUp, Fails, Settle, Mishap, At, outside,
         othersKeep, historyVars
  <2>2. CASE o = r
    <3>1. op'[r] = Ended(op[r])
      BY <1>21, <1>a, <2>2 DEF GivesUp, Fails, Settle, Mishap, At, outside, othersKeep,
         historyVars, Threads
    <3>2. row[r] # "completed"
      BY <1>21, <1>a, <2>2 DEF GivesUp, At, OperationKnows
    <3>3. QED
      BY <1>b, <3>1, <3>2 DEF RemovalApart
  <2>3. QED
    BY <2>1, <2>2
<1>22. ASSUME NEW o \in Ops, Cancel(o)
      PROVE  RemovalApart(r)
  BY <1>22, <1>a, <1>b
     DEF RemovalApart, Cancel, outside, othersKeep, historyVars
<1>23. CASE Scan
  BY <1>23, <1>a, <1>b
     DEF RemovalApart, Scan, reconKeeps, NoScan, outside, othersKeep,
         historyVars
<1>24. CASE ReadRecords
  BY <1>24, <1>a, <1>b
     DEF RemovalApart, ReadRecords, reconKeeps, outside, othersKeep,
         historyVars
<1>25. CASE Reconcile
  BY <1>25, <1>a, <1>b
     DEF RemovalApart, Reconcile, reconKeeps, NoScan, Adopt, Refresh,
         MarkMissing, LeaveAlone, Found, outside, othersKeep,
         historyVars
<1>26. ASSUME NEW to \in Paths \cup {Nowhere}, UserMoves(to)
      PROVE  RemovalApart(r)
  BY <1>26, <1>a, <1>b
     DEF RemovalApart, UserMoves, otherActs, outside, othersKeep,
         historyVars
<1>27. CASE AgentCommits
  BY <1>27, <1>a, <1>b
     DEF RemovalApart, AgentCommits, otherActs, outside, othersKeep,
         historyVars
<1>28. CASE Crash
  BY <1>28, <1>a, <1>b
     DEF RemovalApart, Crash, otherActs, NoScan, outside, othersKeep,
         historyVars
<1>29. CASE UNCHANGED vars
  BY <1>29, <1>a, <1>b
     DEF RemovalApart, vars, outside, othersKeep, historyVars
<1>30. QED
  BY <1>1, <1>2, <1>3, <1>4, <1>5, <1>6, <1>7, <1>8, <1>9, <1>10, <1>11,
     <1>12, <1>13, <1>14, <1>15, <1>16, <1>17, <1>18, <1>19, <1>20, <1>21,
     <1>22, <1>23, <1>24, <1>25, <1>26, <1>27, <1>28, <1>29
     DEF Next, Create, Move

\* What a removal knows of the session, before and after a step.
RemovalEffect(r) ==
    /\ op'[r].session => op[r].session \/ record.session
    /\ op'[r].step = "finalize" /\ op'[r].session =>
          op[r].session /\ (op[r].step = "finalize" \/ session' = FALSE)
    /\ row[r] = "completed" => row'[r] = "completed" /\ op'[r].session = op[r].session

LEMMA RemovalEffects ==
    ASSUME TypeOK, Known, [Next]_vars, NEW r \in Ops, Kind[r] = "remove"
    PROVE  RemovalEffect(r)
<1>a. op \in [Ops -> Threads] /\ row \in [Ops -> {"none", "running", "completed", "failed"}]
      /\ op[r] \in Threads /\ OperationKnows(r) /\ session \in BOOLEAN
      /\ record.session \in BOOLEAN
  BY TypeParts DEF RowTypes, Known, VarTypes, RecordTypes, Records
<1>b. Ended(op[r]).step = "done" /\ Ended(op[r]).session = op[r].session
  BY <1>a, EndedType
<1>c. CASE ~ Remove(r)
  <2>1. RemovalApart(r)
    BY <1>c, OthersAreNoRemoval
  <2>2. QED
    BY <1>a, <2>1 DEF RemovalApart, RemovalEffect
<1>1. CASE Preflight(r)
  <2>1. row[r] # "completed"
    BY <1>1, <1>a DEF Preflight, At, OperationKnows
  <2>2. \/ op'[r] = [op[r] EXCEPT !.step = "prepare", !.missing = (checkout # record.path)]
        \/ op'[r] = Ended(op[r])
    BY <1>1, <1>a DEF Preflight, Fails, Settle, At, outside, othersKeep, historyVars
  <2>3. CASE op'[r] = [op[r] EXCEPT !.step = "prepare",
                                    !.missing = (checkout # record.path)]
    <3>1. op'[r].step = "prepare" /\ op'[r].session = op[r].session
      BY <1>a, <1>b, <2>3 DEF Threads
    <3>2. QED
      BY <1>1, <1>a, <2>1, <3>1 DEF RemovalEffect, Preflight, At
  <2>4. CASE op'[r] = Ended(op[r])
    <3>1. op'[r].step = "done" /\ op'[r].session = op[r].session
      BY <1>a, <1>b, <2>4
    <3>2. QED
      BY <1>1, <1>a, <2>1, <3>1 DEF RemovalEffect, Preflight, At
  <2>5. QED
    BY <2>2, <2>3, <2>4
<1>2. CASE Prepare(r)
  <2>1. row[r] # "completed"
    BY <1>2, <1>a DEF Prepare, At, OperationKnows
  <2>2. \/ op'[r] = [op[r] EXCEPT !.step = "clean", !.path = record.path,
                                  !.head = record.head, !.session = record.session]
        \/ op'[r] = Ended(op[r])
    BY <1>2, <1>a DEF Prepare, Fails, Settle, At, outside, othersKeep, historyVars
  <2>3. CASE op'[r] = [op[r] EXCEPT !.step = "clean", !.path = record.path,
                                    !.head = record.head, !.session = record.session]
    <3>1. op'[r].step = "clean" /\ op'[r].session = record.session
      BY <1>a, <1>b, <2>3 DEF Threads
    <3>2. QED
      BY <1>2, <1>a, <2>1, <3>1 DEF RemovalEffect, Prepare, At
  <2>4. CASE op'[r] = Ended(op[r])
    <3>1. op'[r].step = "done" /\ op'[r].session = op[r].session
      BY <1>a, <1>b, <2>4
    <3>2. QED
      BY <1>2, <1>a, <2>1, <3>1 DEF RemovalEffect, Prepare, At
  <2>5. QED
    BY <2>2, <2>3, <2>4
<1>3. CASE RemoveGivesUp(r)
  <2>1. row[r] # "completed"
    BY <1>3, <1>a DEF RemoveGivesUp, At, OperationKnows
  <2>2. op'[r] = [op[r] EXCEPT !.step = "abort"]
    BY <1>3, <1>a DEF RemoveGivesUp, Go, Mishap, At, outside, othersKeep, historyVars
  <2>3. CASE op'[r] = [op[r] EXCEPT !.step = "abort"]
    <3>1. op'[r].step = "abort" /\ op'[r].session = op[r].session
      BY <1>a, <1>b, <2>3 DEF Threads
    <3>2. QED
      BY <1>3, <1>a, <2>1, <3>1 DEF RemovalEffect, RemoveGivesUp, At
  <2>4. QED
    BY <2>2, <2>3
<1>4. CASE Clean(r)
  <2>1. row[r] # "completed"
    BY <1>4, <1>a DEF Clean, At, OperationKnows
  <2>2. op'[r] = [op[r] EXCEPT !.step = "verify"]
    BY <1>4, <1>a DEF Clean, Go, At, outside, othersKeep, historyVars
  <2>3. CASE op'[r] = [op[r] EXCEPT !.step = "verify"]
    <3>1. op'[r].step = "verify" /\ op'[r].session = op[r].session
      BY <1>a, <1>b, <2>3 DEF Threads
    <3>2. QED
      BY <1>4, <1>a, <2>1, <3>1 DEF RemovalEffect, Clean, At
  <2>4. QED
    BY <2>2, <2>3
<1>5. CASE Verify(r)
  <2>1. row[r] # "completed"
    BY <1>5, <1>a DEF Verify, At, OperationKnows
  <2>2. \/ op'[r] = [op[r] EXCEPT !.step = "branch"]
        \/ op'[r] = [op[r] EXCEPT !.step = "removing"]
        \/ op'[r] = [op[r] EXCEPT !.step = "abort"]
    BY <1>5, <1>a DEF Verify, Go, At, outside, othersKeep, historyVars
  <2>3. CASE op'[r] = [op[r] EXCEPT !.step = "branch"]
    <3>1. op'[r].step = "branch" /\ op'[r].session = op[r].session
      BY <1>a, <1>b, <2>3 DEF Threads
    <3>2. QED
      BY <1>5, <1>a, <2>1, <3>1 DEF RemovalEffect, Verify, At
  <2>4. CASE op'[r] = [op[r] EXCEPT !.step = "removing"]
    <3>1. op'[r].step = "removing" /\ op'[r].session = op[r].session
      BY <1>a, <1>b, <2>4 DEF Threads
    <3>2. QED
      BY <1>5, <1>a, <2>1, <3>1 DEF RemovalEffect, Verify, At
  <2>5. CASE op'[r] = [op[r] EXCEPT !.step = "abort"]
    <3>1. op'[r].step = "abort" /\ op'[r].session = op[r].session
      BY <1>a, <1>b, <2>5 DEF Threads
    <3>2. QED
      BY <1>5, <1>a, <2>1, <3>1 DEF RemovalEffect, Verify, At
  <2>6. QED
    BY <2>2, <2>3, <2>4, <2>5
<1>6. CASE GitRemoves(r)
  <2>1. row[r] # "completed"
    BY <1>6, <1>a DEF GitRemoves, At, OperationKnows
  <2>2. \/ op'[r] = [op[r] EXCEPT !.step = "branch"]
        \/ op'[r] = [op[r] EXCEPT !.step = "abort"]
    BY <1>6, <1>a DEF GitRemoves, Go, Mishap, At, outside, othersKeep, historyVars
  <2>3. CASE op'[r] = [op[r] EXCEPT !.step = "branch"]
    <3>1. op'[r].step = "branch" /\ op'[r].session = op[r].session
      BY <1>a, <1>b, <2>3 DEF Threads
    <3>2. QED
      BY <1>6, <1>a, <2>1, <3>1 DEF RemovalEffect, GitRemoves, At
  <2>4. CASE op'[r] = [op[r] EXCEPT !.step = "abort"]
    <3>1. op'[r].step = "abort" /\ op'[r].session = op[r].session
      BY <1>a, <1>b, <2>4 DEF Threads
    <3>2. QED
      BY <1>6, <1>a, <2>1, <3>1 DEF RemovalEffect, GitRemoves, At
  <2>5. QED
    BY <2>2, <2>3, <2>4
<1>7. CASE RemoveBranch(r)
  <2>1. row[r] # "completed"
    BY <1>7, <1>a DEF RemoveBranch, At, OperationKnows
  <2>2. \/ op'[r] = [op[r] EXCEPT !.step = "session"]
        \/ op'[r] = [op[r] EXCEPT !.step = "abort"]
    BY <1>7, <1>a DEF RemoveBranch, Go, At, outside, othersKeep, historyVars
  <2>3. CASE op'[r] = [op[r] EXCEPT !.step = "session"]
    <3>1. op'[r].step = "session" /\ op'[r].session = op[r].session
      BY <1>a, <1>b, <2>3 DEF Threads
    <3>2. QED
      BY <1>7, <1>a, <2>1, <3>1 DEF RemovalEffect, RemoveBranch, At
  <2>4. CASE op'[r] = [op[r] EXCEPT !.step = "abort"]
    <3>1. op'[r].step = "abort" /\ op'[r].session = op[r].session
      BY <1>a, <1>b, <2>4 DEF Threads
    <3>2. QED
      BY <1>7, <1>a, <2>1, <3>1 DEF RemovalEffect, RemoveBranch, At
  <2>5. QED
    BY <2>2, <2>3, <2>4
<1>8. CASE RemoveSession(r)
  <2>1. row[r] # "completed"
    BY <1>8, <1>a DEF RemoveSession, At, OperationKnows
  <2>2. \/ op'[r] = [op[r] EXCEPT !.step = "finalize"]
        \/ op'[r] = [op[r] EXCEPT !.step = "abort"]
    BY <1>8, <1>a DEF RemoveSession, Go, At, outside, othersKeep, historyVars
  <2>3. CASE op'[r] = [op[r] EXCEPT !.step = "finalize"]
    <3>1. op'[r].step = "finalize" /\ op'[r].session = op[r].session
      BY <1>a, <1>b, <2>3 DEF Threads
    <3>2. QED
      BY <1>8, <1>a, <2>1, <3>1 DEF RemovalEffect, RemoveSession, At
  <2>4. CASE op'[r] = [op[r] EXCEPT !.step = "abort"]
    <3>1. op'[r].step = "abort" /\ op'[r].session = op[r].session
      BY <1>a, <1>b, <2>4 DEF Threads
    <3>2. QED
      BY <1>8, <1>a, <2>1, <3>1 DEF RemovalEffect, RemoveSession, At
  <2>5. QED
    BY <2>2, <2>3, <2>4
<1>9. CASE Finalize(r)
  <2>1. row[r] # "completed"
    BY <1>9, <1>a DEF Finalize, At, OperationKnows
  <2>2. \/ op'[r] = Ended(op[r])
        \/ op'[r] = [op[r] EXCEPT !.step = "abort"]
    BY <1>9, <1>a DEF Finalize, Go, Settle, At, outside, othersKeep, historyVars
  <2>3. CASE op'[r] = Ended(op[r])
    <3>1. op'[r].step = "done" /\ op'[r].session = op[r].session
      BY <1>a, <1>b, <2>3
    <3>2. QED
      BY <1>9, <1>a, <2>1, <3>1 DEF RemovalEffect, Finalize, At
  <2>4. CASE op'[r] = [op[r] EXCEPT !.step = "abort"]
    <3>1. op'[r].step = "abort" /\ op'[r].session = op[r].session
      BY <1>a, <1>b, <2>4 DEF Threads
    <3>2. QED
      BY <1>9, <1>a, <2>1, <3>1 DEF RemovalEffect, Finalize, At
  <2>5. QED
    BY <2>2, <2>3, <2>4
<1>10. CASE Abort(r)
  <2>1. row[r] # "completed"
    BY <1>10, <1>a DEF Abort, At, OperationKnows
  <2>2. op'[r] = Ended(op[r])
    BY <1>10, <1>a DEF Abort, Fails, Settle, At, outside, othersKeep, historyVars
  <2>3. CASE op'[r] = Ended(op[r])
    <3>1. op'[r].step = "done" /\ op'[r].session = op[r].session
      BY <1>a, <1>b, <2>3
    <3>2. QED
      BY <1>10, <1>a, <2>1, <3>1 DEF RemovalEffect, Abort, At
  <2>4. QED
    BY <2>2, <2>3
<1>11. QED
  BY <1>c, <1>1, <1>2, <1>3, <1>4, <1>5, <1>6, <1>7, <1>8, <1>9, <1>10
     DEF Remove

\* The session of the record comes and goes with few steps.
BoundApart(c) ==
    /\ op'[c] = op[c] \/ crashed' = TRUE
    /\ crashed = TRUE => crashed' = TRUE
    /\ unbound = TRUE => unbound' = TRUE
    /\ record.session = FALSE => record'.session = FALSE
    /\ record.session /\ record'.session = FALSE =>
          \/ unbound' = TRUE
          \/ \E r \in Ops : /\ Kind[r] = "remove" /\ op[r].step = "finalize"
                            /\ row'[r] = "completed" /\ op'[r].session = op[r].session

LEMMA OthersBind ==
    ASSUME TypeOK, Known, [Next]_vars,
           NEW c \in Ops, Kind[c] = "create", ~ Create(c)
    PROVE  BoundApart(c)
<1>a. op \in [Ops -> Threads] /\ row \in [Ops -> {"none", "running", "completed", "failed"}]
      /\ op[c] \in Threads /\ record \in Records
  BY TypeParts DEF RowTypes, RecordTypes
<1>b. \A o \in Ops : op[o] \in Threads
  BY <1>a
<1>c. NoRecord.session = FALSE
  BY NoRecordType
<1>d. \A o \in Ops : Kind[o] = "create" => o = c
  BY Constants
<1>e. record.session \in BOOLEAN /\ unbound \in BOOLEAN /\ crashed \in BOOLEAN
  BY TypeParts DEF RecordTypes, Records, VarTypes
<1>1. ASSUME NEW o \in Ops, Create(o)
      PROVE  BoundApart(c)
  <2>1. Kind[o] = "create"
    BY <1>1, Zenon DEF Create, At, BeginCreate, CreateGivesUp, Add, AddBreaks, Register,
       OpenSession, Bind, Launch, UndoSession, UndoRecord, UndoTree, UndoBranch
  <2>2. o = c
    BY <1>d, <2>1
  <2>3. QED
    BY <1>1, <2>2
<1>2. ASSUME NEW o \in Ops, NEW to \in Paths, MoveChecks(o, to)
      PROVE  BoundApart(c)
  <2>1. op'[c] = op[c] /\ unbound' = unbound /\ crashed' = crashed
    <3>1. o # c
      BY <1>2 DEF MoveChecks, At
    <3>2. QED
      BY <1>2, <1>a, <3>1 DEF MoveChecks, Fails, Settle, At, outside, othersKeep, historyVars
  <2>2. record'.session = record.session
    BY <1>2, <1>a DEF MoveChecks, othersKeep, Fails
  <2>3. QED
    BY <1>e, <2>1, <2>2 DEF BoundApart
<1>3. ASSUME NEW o \in Ops, GitMoves(o)
      PROVE  BoundApart(c)
  <2>1. op'[c] = op[c] /\ unbound' = unbound /\ crashed' = crashed
    <3>1. o # c
      BY <1>3 DEF GitMoves, At
    <3>2. QED
      BY <1>3, <1>a, <3>1 DEF GitMoves, Fails, Settle, Go, At, outside, othersKeep, historyVars
  <2>2. record'.session = record.session
    BY <1>3, <1>a DEF GitMoves, othersKeep, Fails
  <2>3. QED
    BY <1>e, <2>1, <2>2 DEF BoundApart
<1>4. ASSUME NEW o \in Ops, GitMoveBreaks(o)
      PROVE  BoundApart(c)
  <2>1. op'[c] = op[c] /\ unbound' = unbound /\ crashed' = crashed
    <3>1. o # c
      BY <1>4 DEF GitMoveBreaks, At
    <3>2. QED
      BY <1>4, <1>a, <3>1 DEF GitMoveBreaks, Fails, Settle, Mishap, At, outside, othersKeep,
         historyVars
  <2>2. record'.session = record.session
    BY <1>4, <1>a DEF GitMoveBreaks, othersKeep, Fails
  <2>3. QED
    BY <1>e, <2>1, <2>2 DEF BoundApart
<1>5. ASSUME NEW o \in Ops, MoveSaved(o)
      PROVE  BoundApart(c)
  <2>1. op'[c] = op[c] /\ unbound' = unbound /\ crashed' = crashed
    <3>1. o # c
      BY <1>5 DEF MoveSaved, At
    <3>2. QED
      BY <1>5, <1>a, <3>1 DEF MoveSaved, Settle, At, outside, othersKeep, historyVars
  <2>2. record'.session = record.session
    BY <1>5, <1>a DEF MoveSaved, Records
  <2>3. QED
    BY <1>e, <2>1, <2>2 DEF BoundApart
<1>6. ASSUME NEW o \in Ops, MoveNotSaved(o)
      PROVE  BoundApart(c)
  <2>1. op'[c] = op[c] /\ unbound' = unbound /\ crashed' = crashed
    <3>1. o # c
      BY <1>6 DEF MoveNotSaved, At
    <3>2. QED
      BY <1>6, <1>a, <3>1 DEF MoveNotSaved, Go, Mishap, At, outside, othersKeep, historyVars
  <2>2. record'.session = record.session
    BY <1>6, <1>a DEF MoveNotSaved, othersKeep, Fails
  <2>3. QED
    BY <1>e, <2>1, <2>2 DEF BoundApart
<1>7. ASSUME NEW o \in Ops, MoveBack(o)
      PROVE  BoundApart(c)
  <2>1. op'[c] = op[c] /\ unbound' = unbound /\ crashed' = crashed
    <3>1. o # c
      BY <1>7 DEF MoveBack, At
    <3>2. QED
      BY <1>7, <1>a, <3>1 DEF MoveBack, Fails, Settle, At, outside, othersKeep, historyVars
  <2>2. record'.session = record.session
    BY <1>7, <1>a DEF MoveBack, othersKeep, Fails
  <2>3. QED
    BY <1>e, <2>1, <2>2 DEF BoundApart
<1>8. ASSUME NEW o \in Ops, Preflight(o)
      PROVE  BoundApart(c)
  <2>1. op'[c] = op[c] /\ unbound' = unbound /\ crashed' = crashed
    <3>1. o # c
      BY <1>8 DEF Preflight, At
    <3>2. QED
      BY <1>8, <1>a, <3>1 DEF Preflight, Fails, Settle, At, outside, othersKeep, historyVars
  <2>2. record'.session = record.session
    BY <1>8, <1>a DEF Preflight, othersKeep, Fails
  <2>3. QED
    BY <1>e, <2>1, <2>2 DEF BoundApart
<1>9. ASSUME NEW o \in Ops, Prepare(o)
      PROVE  BoundApart(c)
  <2>1. op'[c] = op[c] /\ unbound' = unbound /\ crashed' = crashed
    <3>1. o # c
      BY <1>9 DEF Prepare, At
    <3>2. QED
      BY <1>9, <1>a, <3>1 DEF Prepare, Fails, Settle, At, outside, othersKeep, historyVars
  <2>2. record'.session = record.session
    BY <1>9, <1>a DEF Prepare, Records
  <2>3. QED
    BY <1>e, <2>1, <2>2 DEF BoundApart
<1>10. ASSUME NEW o \in Ops, RemoveGivesUp(o)
      PROVE  BoundApart(c)
  <2>1. op'[c] = op[c] /\ unbound' = unbound /\ crashed' = crashed
    <3>1. o # c
      BY <1>10 DEF RemoveGivesUp, At
    <3>2. QED
      BY <1>10, <1>a, <3>1 DEF RemoveGivesUp, Go, Mishap, At, outside, othersKeep, historyVars
  <2>2. record'.session = record.session
    BY <1>10, <1>a DEF RemoveGivesUp, othersKeep, Fails
  <2>3. QED
    BY <1>e, <2>1, <2>2 DEF BoundApart
<1>11. ASSUME NEW o \in Ops, Clean(o)
      PROVE  BoundApart(c)
  <2>1. op'[c] = op[c] /\ unbound' = unbound /\ crashed' = crashed
    <3>1. o # c
      BY <1>11 DEF Clean, At
    <3>2. QED
      BY <1>11, <1>a, <3>1 DEF Clean, Go, At, outside, othersKeep, historyVars
  <2>2. record'.session = record.session
    BY <1>11, <1>a DEF Clean, othersKeep, Fails
  <2>3. QED
    BY <1>e, <2>1, <2>2 DEF BoundApart
<1>12. ASSUME NEW o \in Ops, Verify(o)
      PROVE  BoundApart(c)
  <2>1. op'[c] = op[c] /\ unbound' = unbound /\ crashed' = crashed
    <3>1. o # c
      BY <1>12 DEF Verify, At
    <3>2. QED
      BY <1>12, <1>a, <3>1 DEF Verify, Go, At, outside, othersKeep, historyVars
  <2>2. record'.session = record.session
    BY <1>12, <1>a DEF Verify, othersKeep, Fails
  <2>3. QED
    BY <1>e, <2>1, <2>2 DEF BoundApart
<1>13. ASSUME NEW o \in Ops, GitRemoves(o)
      PROVE  BoundApart(c)
  <2>1. op'[c] = op[c] /\ unbound' = unbound /\ crashed' = crashed
    <3>1. o # c
      BY <1>13 DEF GitRemoves, At
    <3>2. QED
      BY <1>13, <1>a, <3>1 DEF GitRemoves, Go, Mishap, At, outside, othersKeep, historyVars
  <2>2. record'.session = record.session
    BY <1>13, <1>a DEF GitRemoves, othersKeep, Fails
  <2>3. QED
    BY <1>e, <2>1, <2>2 DEF BoundApart
<1>14. ASSUME NEW o \in Ops, RemoveBranch(o)
      PROVE  BoundApart(c)
  <2>1. op'[c] = op[c] /\ unbound' = unbound /\ crashed' = crashed
    <3>1. o # c
      BY <1>14 DEF RemoveBranch, At
    <3>2. QED
      BY <1>14, <1>a, <3>1 DEF RemoveBranch, Go, At, outside, othersKeep, historyVars
  <2>2. record'.session = record.session
    BY <1>14, <1>a DEF RemoveBranch, othersKeep, Fails
  <2>3. QED
    BY <1>e, <2>1, <2>2 DEF BoundApart
<1>15. ASSUME NEW o \in Ops, RemoveSession(o)
      PROVE  BoundApart(c)
  <2>1. op'[c] = op[c] /\ unbound' = unbound /\ crashed' = crashed
    <3>1. o # c
      BY <1>15 DEF RemoveSession, At
    <3>2. QED
      BY <1>15, <1>a, <3>1 DEF RemoveSession, Go, At, outside, othersKeep, historyVars
  <2>2. record'.session = record.session
    BY <1>15, <1>a DEF RemoveSession, othersKeep, Fails
  <2>3. QED
    BY <1>e, <2>1, <2>2 DEF BoundApart
<1>16. ASSUME NEW o \in Ops, Finalize(o)
      PROVE  BoundApart(c)
  <2>1. op'[c] = op[c] /\ unbound' = unbound /\ crashed' = crashed
    <3>1. o # c
      BY <1>16 DEF Finalize, At
    <3>2. QED
      BY <1>16, <1>a, <3>1 DEF Finalize, Go, Settle, At, outside, othersKeep, historyVars
  <2>2. CASE record' = NoRecord /\ Settle(o, "completed")
    <3>1. Kind[o] = "remove" /\ op[o].step = "finalize" /\ row'[o] = "completed"
          /\ op'[o].session = op[o].session
      BY <1>16, <1>a, <1>b, <2>2, EndedType DEF Finalize, At, Settle
    <3>2. QED
      BY <1>c, <2>1, <2>2, <3>1 DEF BoundApart
  <2>3. CASE record' = record
    BY <2>1, <2>3 DEF BoundApart
  <2>4. QED
    BY <1>16, <2>2, <2>3 DEF Finalize
<1>17. ASSUME NEW o \in Ops, Abort(o)
      PROVE  BoundApart(c)
  <2>1. op'[c] = op[c] /\ unbound' = unbound /\ crashed' = crashed
    <3>1. o # c
      BY <1>17 DEF Abort, At
    <3>2. QED
      BY <1>17, <1>a, <3>1 DEF Abort, Fails, Settle, At, outside, othersKeep, historyVars
  <2>2. record'.session = record.session
    BY <1>17, <1>a DEF Abort, Records
  <2>3. QED
    BY <1>e, <2>1, <2>2 DEF BoundApart
<1>18. ASSUME NEW o \in Ops, BeginOther(o)
      PROVE  BoundApart(c)
  <2>1. op'[c] = op[c] /\ unbound' = unbound /\ crashed' = crashed
    <3>1. o # c
      BY <1>18 DEF BeginOther, At
    <3>2. QED
      BY <1>18, <1>a, <3>1 DEF BeginOther, outside, othersKeep, historyVars
  <2>2. record'.session = record.session
    BY <1>18, <1>a DEF BeginOther, othersKeep, Fails
  <2>3. QED
    BY <1>e, <2>1, <2>2 DEF BoundApart
<1>19. ASSUME NEW o \in Ops, GivesUp(o)
      PROVE  BoundApart(c)
  <2>1. op'[c] = op[c] /\ unbound' = unbound /\ crashed' = crashed
    <3>1. o # c
      BY <1>19 DEF GivesUp, At
    <3>2. QED
      BY <1>19, <1>a, <3>1 DEF GivesUp, Fails, Settle, Mishap, At, outside, othersKeep,
         historyVars
  <2>2. record'.session = record.session
    BY <1>19, <1>a DEF GivesUp, othersKeep, Fails
  <2>3. QED
    BY <1>e, <2>1, <2>2 DEF BoundApart
<1>20. ASSUME NEW o \in Ops, Cancel(o)
      PROVE  BoundApart(c)
  BY <1>20, <1>a, <1>e
     DEF BoundApart, Cancel, outside, othersKeep, historyVars
<1>21. CASE Scan
  BY <1>21, <1>a, <1>e
     DEF BoundApart, Scan, reconKeeps, NoScan, outside, othersKeep,
         historyVars
<1>22. CASE ReadRecords
  BY <1>22, <1>a, <1>e
     DEF BoundApart, ReadRecords, reconKeeps, outside, othersKeep,
         historyVars
<1>23. CASE Reconcile
  <2>1. op'[c] = op[c] /\ crashed' = crashed
    BY <1>23 DEF Reconcile, reconKeeps
  <2>2. CASE Adopt
    <3>1. \/ record' = record /\ unbound' = unbound
          \/ record'.session = FALSE /\ unbound' = (unbound \/ record.session)
      BY <2>2 DEF Adopt
    <3>2. QED
      BY <1>e, <2>1, <3>1 DEF BoundApart
  <2>3. CASE Refresh \/ MarkMissing \/ LeaveAlone
    <3>1. unbound' = unbound
      BY <2>3 DEF Refresh, MarkMissing, LeaveAlone
    <3>2. record'.session = record.session
      BY <1>a, <2>3 DEF Refresh, MarkMissing, LeaveAlone, Records
    <3>3. QED
      BY <1>e, <2>1, <3>1, <3>2 DEF BoundApart
  <2>4. QED
    BY <1>23, <2>2, <2>3 DEF Reconcile
<1>24. ASSUME NEW to \in Paths \cup {Nowhere}, UserMoves(to)
      PROVE  BoundApart(c)
  BY <1>24, <1>a, <1>e
     DEF BoundApart, UserMoves, otherActs, outside, othersKeep, historyVars
<1>25. CASE AgentCommits
  BY <1>25, <1>a, <1>e
     DEF BoundApart, AgentCommits, otherActs, outside, othersKeep,
         historyVars
<1>26. CASE Crash
  BY <1>26, <1>a, <1>e
     DEF BoundApart, Crash, otherActs, NoScan, outside, othersKeep,
         historyVars
<1>27. CASE UNCHANGED vars
  BY <1>27, <1>a, <1>e
     DEF BoundApart, vars, outside, othersKeep, historyVars
<1>28. QED
  BY <1>1, <1>2, <1>3, <1>4, <1>5, <1>6, <1>7, <1>8, <1>9, <1>10, <1>11,
     <1>12, <1>13, <1>14, <1>15, <1>16, <1>17, <1>18, <1>19, <1>20, <1>21,
     <1>22, <1>23, <1>24, <1>25, <1>26, <1>27
     DEF Next, Move, Remove

\* The same of the create that binds it.
CreateBinds(c) ==
    /\ op'[c].step \in Early =>
          op[c].step \in Early /\ (record.session = FALSE => record'.session = FALSE)
    /\ session = FALSE /\ op[c].step # "binding" => session' = FALSE
    /\ op'[c].step = "done" => row'[c] \in {"completed", "failed"}
    /\ unbound' = unbound /\ crashed' = crashed /\ kept \subseteq kept' /\ unseen \subseteq unseen'
    /\ row'[c] = "completed" => op[c].step = "launching" /\ record' = record
    /\ op'[c].step = "launching" => record'.session

LEMMA CreateStepBinds ==
    ASSUME TypeOK, Known, NEW c \in Ops, Kind[c] = "create", Create(c)
    PROVE  CreateBinds(c)
<1>a. op \in [Ops -> Threads] /\ row \in [Ops -> {"none", "running", "completed", "failed"}]
      /\ op[c] \in Threads /\ OperationKnows(c) /\ record \in Records
  BY TypeParts DEF RowTypes, RecordTypes, Known
<1>b. row[c] # "completed"
  BY <1>a DEF Create, At, OperationKnows, BeginCreate, CreateGivesUp, Add, AddBreaks, Register,
     OpenSession, Bind, Launch, UndoSession, UndoRecord, UndoTree, UndoBranch
<1>c. Ended(op[c]).step = "done"
  BY <1>a, EndedType
<1>d. NoRecord.session = FALSE
  BY NoRecordType
<1>1. CASE BeginCreate(c)
  <2>1. op'[c] = [op[c] EXCEPT !.step = "creating"] /\ row'[c] = "running"
    BY <1>1, <1>a DEF BeginCreate, Go, At, outside, othersKeep, historyVars
  <2>2. op'[c].step = "creating" /\ row'[c] = "running"
    BY <1>a, <1>c, <2>1 DEF Threads
  <2>3. QED
    BY <1>1, <1>a, <1>b, <1>d, <2>2
       DEF CreateBinds, Early, BeginCreate, At, outside, othersKeep,
         historyVars
<1>2. CASE CreateGivesUp(c)
  <2>1. op'[c] = [op[c] EXCEPT !.step = "undoSession"] /\ row'[c] = row[c]
    BY <1>2, <1>a DEF CreateGivesUp, Undo, Go, Mishap, At, outside, othersKeep,
         historyVars
  <2>2. op'[c].step = "undoSession" /\ row'[c] = row[c]
    BY <1>a, <1>c, <2>1 DEF Threads
  <2>3. QED
    BY <1>2, <1>a, <1>b, <1>d, <2>2
       DEF CreateBinds, Early, CreateGivesUp, At, outside, othersKeep,
         historyVars
<1>3. CASE Add(c)
  <2>1. op'[c] = [op[c] EXCEPT !.step = "register", !.path = Home] /\ row'[c] = row[c]
    BY <1>3, <1>a DEF Add, At, outside, othersKeep, historyVars
  <2>2. op'[c].step = "register" /\ row'[c] = row[c]
    BY <1>a, <1>c, <2>1 DEF Threads
  <2>3. QED
    BY <1>3, <1>a, <1>b, <1>d, <2>2
       DEF CreateBinds, Early, Add, At, outside, othersKeep, historyVars
<1>4. CASE AddBreaks(c)
  <2>1. op'[c] = [op[c] EXCEPT !.step = "undoSession"] /\ row'[c] = row[c]
    BY <1>4, <1>a DEF AddBreaks, Undo, Go, Mishap, At, outside, othersKeep, historyVars
  <2>2. op'[c].step = "undoSession" /\ row'[c] = row[c]
    BY <1>a, <1>c, <2>1 DEF Threads
  <2>3. QED
    BY <1>4, <1>a, <1>b, <1>d, <2>2
       DEF CreateBinds, Early, AddBreaks, At, outside, othersKeep,
         historyVars
<1>5. CASE Register(c)
  <2>1. \/ op'[c] = [op[c] EXCEPT !.step = "binding", !.inst = 1] /\ row'[c] = row[c]
        \/ op'[c] = [op[c] EXCEPT !.step = "undoSession"] /\ row'[c] = row[c]
    BY <1>5, <1>a DEF Register, Undo, Go, At, outside, othersKeep, historyVars
  <2>2. \/ op'[c].step = "binding" /\ row'[c] = row[c]
        \/ op'[c].step = "undoSession" /\ row'[c] = row[c]
    BY <1>a, <1>c, <2>1 DEF Threads
  <2>3. QED
    BY <1>5, <1>a, <1>b, <1>d, <2>2
       DEF CreateBinds, Early, Register, At, outside, othersKeep, historyVars
<1>6. CASE OpenSession(c)
  <2>1. \/ op'[c] = [op[c] EXCEPT !.step = "bind", !.session = TRUE] /\ row'[c] = row[c]
        \/ op'[c] = [op[c] EXCEPT !.step = "undoSession"] /\ row'[c] = row[c]
    BY <1>6, <1>a DEF OpenSession, Undo, Go, Mishap, At, outside, othersKeep,
         historyVars
  <2>2. \/ op'[c].step = "bind" /\ row'[c] = row[c]
        \/ op'[c].step = "undoSession" /\ row'[c] = row[c]
    BY <1>a, <1>c, <2>1 DEF Threads
  <2>3. QED
    BY <1>6, <1>a, <1>b, <1>d, <2>2
       DEF CreateBinds, Early, OpenSession, At, outside, othersKeep,
         historyVars
<1>7. CASE Bind(c)
  <2>1. \/ op'[c] = [op[c] EXCEPT !.step = "launching",
                                  !.to = record.path] /\ row'[c] = row[c]
        \/ op'[c] = [op[c] EXCEPT !.step = "undoSession"] /\ row'[c] = row[c]
    BY <1>7, <1>a DEF Bind, Undo, Go, At, outside, othersKeep, historyVars
  <2>2. \/ op'[c].step = "launching" /\ row'[c] = row[c]
        \/ op'[c].step = "undoSession" /\ row'[c] = row[c]
    BY <1>a, <1>c, <2>1 DEF Threads
  <2>3. CASE record.inst = op[c].inst
    <3>1. record'.session = TRUE
      BY <1>7, <1>a, <2>3 DEF Bind, Records
    <3>2. QED
      BY <1>7, <1>b, <2>2, <3>1 DEF CreateBinds, Early, Bind, At, outside, othersKeep
  <2>4. CASE record.inst # op[c].inst
    <3>1. op'[c].step = "undoSession"
      BY <1>7, <1>a, <2>4 DEF Bind, Undo, Go, Threads
    <3>2. QED
      BY <1>7, <1>b, <2>2, <3>1 DEF CreateBinds, Early, Bind, At, outside, othersKeep
  <2>5. QED
    BY <2>3, <2>4
<1>8. CASE Launch(c)
  <2>1. \/ op'[c] = Ended(op[c]) /\ row'[c] = "completed"
        \/ op'[c] = [op[c] EXCEPT !.step = "undoSession"] /\ row'[c] = row[c]
    <3>1. \/ Goes(c, Ended(op[c])) /\ row' = [row EXCEPT ![c] = "completed"]
          \/ Goes(c, [op[c] EXCEPT !.step = "undoSession"]) /\ row' = row
      BY <1>8 DEF Goes, Launch, Undo, Go, Settle
    <3>2. QED
      BY <1>a, <3>1 DEF Goes
  <2>2. \/ op'[c].step = "done" /\ row'[c] = "completed"
        \/ op'[c].step = "undoSession" /\ row'[c] = row[c]
    <3>1. CASE op'[c] = Ended(op[c]) /\ row'[c] = "completed"
      BY <1>c, <3>1
    <3>2. CASE op'[c] = [op[c] EXCEPT !.step = "undoSession"] /\ row'[c] = row[c]
      BY <1>a, <3>2 DEF Threads
    <3>3. QED
      BY <2>1, <3>1, <3>2
  <2>3. QED
    BY <1>8, <1>a, <1>b, <1>d, <2>2
       DEF CreateBinds, Early, Launch, At, outside, othersKeep, historyVars
<1>9. CASE UndoSession(c)
  <2>1. op'[c] = [op[c] EXCEPT !.step = "undoRecord"] /\ row'[c] = row[c]
    BY <1>9, <1>a DEF UndoSession, Go, At, outside, othersKeep, historyVars
  <2>2. op'[c].step = "undoRecord" /\ row'[c] = row[c]
    BY <1>a, <1>c, <2>1 DEF Threads
  <2>3. QED
    BY <1>9, <1>a, <1>b, <1>d, <2>2
       DEF CreateBinds, Early, UndoSession, At, outside, othersKeep,
         historyVars
<1>10. CASE UndoRecord(c)
  <2>1. op'[c] = [op[c] EXCEPT !.step = "undoTree"] /\ row'[c] = row[c]
    BY <1>10, <1>a DEF UndoRecord, Go, At, outside, othersKeep, historyVars
  <2>2. op'[c].step = "undoTree" /\ row'[c] = row[c]
    BY <1>a, <1>c, <2>1 DEF Threads
  <2>3. QED
    BY <1>10, <1>a, <1>b, <1>d, <2>2
       DEF CreateBinds, Early, UndoRecord, At, outside, othersKeep,
         historyVars
<1>11. CASE UndoTree(c)
  <2>1. op'[c] = [op[c] EXCEPT !.step = "undoBranch"] /\ row'[c] = row[c]
    BY <1>11, <1>a DEF UndoTree, Go, At, outside, othersKeep, historyVars
  <2>2. op'[c].step = "undoBranch" /\ row'[c] = row[c]
    BY <1>a, <1>c, <2>1 DEF Threads
  <2>3. QED
    BY <1>11, <1>a, <1>b, <1>d, <2>2
       DEF CreateBinds, Early, UndoTree, At, outside, othersKeep, historyVars
<1>12. CASE UndoBranch(c)
  <2>1. op'[c] = Ended(op[c]) /\ row'[c] = "failed"
    BY <1>12, <1>a DEF UndoBranch, Settle, At, outside, othersKeep, historyVars
  <2>2. op'[c].step = "done" /\ row'[c] = "failed"
    BY <1>a, <1>c, <2>1 DEF Threads
  <2>3. QED
    BY <1>12, <1>a, <1>b, <1>d, <2>2
       DEF CreateBinds, Early, UndoBranch, At, outside, othersKeep,
         historyVars
<1>13. QED
  BY <1>1, <1>2, <1>3, <1>4, <1>5, <1>6, <1>7, <1>8, <1>9, <1>10, <1>11,
     <1>12
     DEF Create


LEMMA SessionInvStep ==
    ASSUME TypeOK, Known, CreateInv, SessionInv, [Next]_vars
    PROVE  SessionInv'
<1> SUFFICES ASSUME NEW c \in Ops, Kind[c] = "create"
             PROVE  SessionKnown(c)'
  BY DEF SessionInv
<1>1. /\ SessionKnown(c) /\ CreateKnows(c) /\ OperationKnows(c)
      /\ op[c] \in Threads /\ row[c] \in {"none", "running", "completed", "failed"}
      /\ session \in BOOLEAN /\ unbound \in BOOLEAN /\ crashed \in BOOLEAN
      /\ record.session \in BOOLEAN
  BY TypeParts DEF SessionInv, CreateInv, Known, RowTypes, VarTypes, RecordTypes, Records
<1>2. \A r \in Ops : Kind[r] = "remove" => RemovalEffect(r)
  BY RemovalEffects
\* What the create, and what others, leave in common.
<1>3. /\ op'[c].step \in Early =>
            op[c].step \in Early /\ (record.session = FALSE => record'.session = FALSE)
      /\ session = FALSE /\ op[c].step # "binding" => session' = FALSE
      /\ op'[c].step = "done" =>
            \/ row'[c] \in {"completed", "failed"} \/ crashed' = TRUE
            \/ op[c].step = "done" /\ row'[c] = row[c]
      /\ (crashed = TRUE => crashed' = TRUE) /\ (unbound = TRUE => unbound' = TRUE)
      /\ kept \subseteq kept' /\ unseen \subseteq unseen'
      /\ row'[c] = "completed" => row[c] = "completed" \/ op[c].step = "launching"
      /\ op'[c].step = "launching" /\ crashed' # TRUE =>
            op[c].step = "launching" \/ record'.session
      /\ /\ record.session /\ record'.session = FALSE
         /\ row'[c] = "completed" \/ (op'[c].step = "launching" /\ crashed' # TRUE)
         => \/ unbound' = TRUE
            \/ \E r \in Ops : /\ Kind[r] = "remove" /\ op[r].step = "finalize"
                              /\ row'[r] = "completed" /\ op'[r].session = op[r].session
  <2>1. CASE Create(c)
    <3>1. CreateBinds(c)
      BY <2>1, CreateStepBinds
    <3>2. QED
      BY <1>1, <3>1 DEF CreateBinds
  <2>2. CASE ~ Create(c)
    <3>1. Apart(c) /\ BoundApart(c)
      BY <2>2, OthersApart, OthersBind
    <3>2. QED
      BY <1>1, <3>1 DEF Apart, BoundApart, Early
  <2>3. QED
    BY <2>1, <2>2
<1>4. op'[c].step \in Early =>
          ~ record'.session /\ \A r \in Ops : Kind[r] = "remove" => ~ op'[r].session
  BY <1>1, <1>2, <1>3 DEF SessionKnown, RemovalEffect
<1>5. \A r \in Ops :
          Kind[r] = "remove" /\ op'[r].step = "finalize" /\ op'[r].session => session' = FALSE
  <2> SUFFICES ASSUME NEW r \in Ops, Kind[r] = "remove", op'[r].step = "finalize", op'[r].session,
                      session' # FALSE
               PROVE  FALSE
    OBVIOUS
  <2>1. op[r].session /\ op[r].step = "finalize"
    BY <1>2 DEF RemovalEffect
  <2>2. session = FALSE
    BY <1>1, <2>1 DEF SessionKnown
  <2>3. op[c].step = "binding"
    BY <1>3, <2>2
  <2>4. QED
    BY <1>1, <2>1, <2>3 DEF SessionKnown, Early
<1>6. op'[c].step = "done" => row'[c] \in {"completed", "failed"} \/ crashed' = TRUE
  BY <1>1, <1>3 DEF SessionKnown
<1>7. ASSUME session' # FALSE, unbound' # TRUE, crashed' # TRUE, "session" \notin unseen',
             \A r \in Ops : Kind[r] = "remove" /\ row'[r] = "completed" => op'[r].session,
             op'[c].step = "launching" \/ row'[c] = "completed"
      PROVE  record'.session # FALSE
  <2> SUFFICES ASSUME record'.session = FALSE PROVE FALSE
    OBVIOUS
  <2>1. op[c].step = "launching" \/ row[c] = "completed"
    BY <1>3, <1>7
  <2>2. op[c].step # "binding"
    BY <1>1, <2>1 DEF OperationKnows
  <2>3. session
    BY <1>1, <1>3, <1>7, <2>2
  <2>4. ~ unbound /\ ~ crashed /\ "session" \notin unseen
    BY <1>1, <1>3, <1>7 DEF Told
  <2>5. \A r \in Ops : Kind[r] = "remove" /\ row[r] = "completed" => op[r].session
    BY <1>2, <1>7 DEF RemovalEffect
  <2>6. record.session
    BY <1>1, <2>1, <2>3, <2>4, <2>5 DEF SessionKnown
  <2>7. PICK r \in Ops : /\ Kind[r] = "remove" /\ op[r].step = "finalize"
                        /\ row'[r] = "completed" /\ op'[r].session = op[r].session
    BY <1>3, <1>7, <2>6
  <2>8. op[r].session
    BY <1>7, <2>7
  <2>9. QED
    BY <1>1, <2>3, <2>7, <2>8 DEF SessionKnown
<1>8. session' \in BOOLEAN /\ unbound' \in BOOLEAN /\ crashed' \in BOOLEAN
  BY VarTypesStep DEF VarTypes
<1>9. record'.session \in BOOLEAN
  BY RecordStep DEF GoodRecord, Records
<1>10. QED
  BY <1>4, <1>5, <1>6, <1>7, <1>8, <1>9 DEF SessionKnown, Told

LEMMA SessionsKnown == Spec => []SessionInv
<1>1. Init => SessionInv
  BY DEF Init, SessionInv, SessionKnown, Fresh, NoRecord, Early
<1>2. TypeOK /\ Known /\ CreateInv /\ SessionInv /\ [Next]_vars => SessionInv'
  BY SessionInvStep
<1>3. QED
  BY <1>1, <1>2, TypesKnown, CreatesKnown, PTL DEF Spec

(***************************************************************************)
(* When no operation is under way, a session that was opened for the       *)
(* worktree is the session of its record, but for the exceptions it names, *)
(* after any number of moves, removals and reconciliations.                *)
(***************************************************************************)
THEOREM SessionIsTheRecords == Spec => []SessionHasWorktree
<1>1. TypeOK /\ Known /\ CreateInv /\ SessionInv => SessionHasWorktree
  <2> SUFFICES ASSUME TypeOK, Known, CreateInv, SessionInv,
                      session, \A o \in Ops : op[o].step \in {"idle", "done"},
                      ~ unbound, ~ crashed, "session" \notin unseen,
                      \A o \in Ops : Kind[o] = "remove" /\ row[o] = "completed" => op[o].session
               PROVE  record.session
    BY DEF SessionHasWorktree
  <2>1. PICK c \in Ops : Kind[c] = "create"
    BY KindAssumption
  <2>2. CreateKnows(c) /\ SessionKnown(c)
    BY <2>1 DEF CreateInv, SessionInv
  <2>3. op[c].step = "done"
    BY <2>2 DEF CreateKnows, Early
  <2>4. row[c] # "failed"
    BY <2>2, <2>3 DEF CreateKnows, Told
  <2>5. QED
    BY <2>2, <2>3, <2>4 DEF SessionKnown, Told
<1>2. QED
  BY <1>1, TypesKnown, CreatesKnown, SessionsKnown, PTL

-----------------------------------------------------------------------------
(* The place of the checkout *)

MoveUnderWay(o) == Kind[o] = "move" /\ op[o].step \notin {"idle", "done"}

\* Moves of one worktree are asked for one after the other.
OneMoveAtATime == \A o, p \in Ops : MoveUnderWay(o) /\ MoveUnderWay(p) => o = p

\* The record names the place of the checkout, or where it goes back to.
PlaceKnown ==
    /\ ~ BetweenPlaces /\ checkout # Nowhere /\ record # NoRecord => record.path = checkout
    /\ \A o \in Ops : op[o].step \in {"save", "back"} /\ checkout # Nowhere =>
          /\ checkout = op[o].to
          /\ record # NoRecord => record.path = op[o].path

\* Before it is registered nobody moves a worktree.
Unregistered == {"idle", "creating", "register"}
Moving == {"moving", "save", "back"}

NoMoveYet ==
    \A c \in Ops : Kind[c] = "create" /\ op[c].step \in Unregistered =>
        \A o \in Ops : op[o].step \notin Moving

PlaceInv == NoMoveYet /\ (~ astray => PlaceKnown)

\* A thread that was at a and is at b now has not begun to move, nor begun anew;
\* and if it had moved the checkout, it has still to save that or to move it back.
Mild(a, b) ==
    /\ b.step \in Moving => a.step \in Moving
    /\ b.step \in Unregistered => a.step \in Unregistered

Calm(a, b) ==
    /\ b.step \in {"save", "back"} =>
          a.step \in {"save", "back"} /\ b.path = a.path /\ b.to = a.to
    /\ a.step \in {"save", "back"} => b.step \in {"save", "back"}

\* A step that moves nothing.
Stays ==
    /\ checkout' \in {checkout, Nowhere}
    /\ record' = NoRecord \/ (record # NoRecord /\ record'.path = record.path)
    /\ \A x \in Ops : Calm(op[x], op'[x])

\* A reconciliation that writes where the checkout is.
Rewrites ==
    /\ checkout' = checkout /\ op' = op
    /\ ~ BetweenPlaces /\ record'.path = checkout

\* The steps that put the checkout or its record in another place.
Places ==
    \E o \in Ops :
        \/ Add(o) \/ AddBreaks(o) \/ Register(o)
        \/ \E to \in Paths : MoveChecks(o, to)
        \/ GitMoves(o) \/ MoveSaved(o) \/ MoveBack(o)

PlaceEffects ==
    /\ astray => astray'
    /\ (\A x \in Ops : Mild(op[x], op'[x])) \/ \E o \in Ops, to \in Paths : MoveChecks(o, to)
    /\ astray' \/ Stays \/ Rewrites \/ Places

\* What a step of anybody may do to the place.
LEMMA PlaceSteps ==
    ASSUME TypeOK, Known, [Next]_vars
    PROVE  PlaceEffects
<1>a. op \in [Ops -> Threads] /\ record \in Records
      /\ \A o \in Ops : op[o] \in Threads
  BY TypeParts DEF RowTypes, RecordTypes
<1>b. \A o \in Ops : Ended(op[o]).step = "done"
  BY <1>a, EndedType
<1>c. \A a : Mild(a, a) /\ Calm(a, a)
  BY DEF Mild, Calm
<1>d. ASSUME NEW o \in Ops, \A x \in Ops : x # o => op'[x] = op[x],
             Mild(op[o], op'[o]), Calm(op[o], op'[o]), astray' = astray,
             checkout' \in {checkout, Nowhere},
             record' = NoRecord \/ (record # NoRecord /\ record'.path = record.path)
      PROVE  PlaceEffects
  <2>1. \A x \in Ops : Mild(op[x], op'[x]) /\ Calm(op[x], op'[x])
    BY <1>c, <1>d
  <2>2. QED
    BY <1>d, <2>1 DEF PlaceEffects, Stays
<1>e. record = NoRecord \/ (record # NoRecord /\ record.path = record.path)
  OBVIOUS
<1>g. NoRecord.inst = 0 /\ NoRecord.life = "none"
  BY NoRecordType
<1>h. \A o \in Ops : OperationKnows(o)
  BY DEF Known
<1>f. ASSUME op' = op, astray' = astray, checkout' = checkout,
             record' = NoRecord \/ (record # NoRecord /\ record'.path = record.path)
      PROVE  PlaceEffects
  BY <1>c, <1>f DEF PlaceEffects, Stays
<1>1. ASSUME NEW o \in Ops, BeginCreate(o)
      PROVE  PlaceEffects
  <2>1. \A x \in Ops : x # o => op'[x] = op[x]
    BY <1>1, <1>a DEF BeginCreate, Go, outside, othersKeep, historyVars, At
  <2>2. Mild(op[o], op'[o]) /\ Calm(op[o], op'[o])
    BY <1>1, <1>a, <1>b DEF BeginCreate, Go, outside, othersKeep, historyVars, At, Mild, Calm, Moving, Unregistered, Threads
  <2>3. /\ astray' = astray /\ checkout' \in {checkout, Nowhere}
        /\ record' = NoRecord \/ (record # NoRecord /\ record'.path = record.path)
    BY <1>1, <1>a DEF BeginCreate, Go, outside, othersKeep, historyVars, At, NoRecord, Records
  <2>4. QED
    BY <1>d, <2>1, <2>2, <2>3
<1>2. ASSUME NEW o \in Ops, CreateGivesUp(o)
      PROVE  PlaceEffects
  <2>1. \A x \in Ops : x # o => op'[x] = op[x]
    BY <1>2, <1>a DEF CreateGivesUp, Undo, Go, Mishap, outside, othersKeep, historyVars, At
  <2>2. Mild(op[o], op'[o]) /\ Calm(op[o], op'[o])
    BY <1>2, <1>a, <1>b DEF CreateGivesUp, Undo, Go, Mishap, outside, othersKeep, historyVars, At, Mild, Calm, Moving, Unregistered, Threads
  <2>3. /\ astray' = astray /\ checkout' \in {checkout, Nowhere}
        /\ record' = NoRecord \/ (record # NoRecord /\ record'.path = record.path)
    BY <1>2, <1>a DEF CreateGivesUp, Undo, Go, Mishap, outside, othersKeep, historyVars, At, NoRecord, Records
  <2>4. QED
    BY <1>d, <2>1, <2>2, <2>3
<1>3. ASSUME NEW o \in Ops, OpenSession(o)
      PROVE  PlaceEffects
  <2>1. \A x \in Ops : x # o => op'[x] = op[x]
    BY <1>3, <1>a DEF OpenSession, Undo, Go, Mishap, outside, othersKeep, historyVars, At
  <2>2. Mild(op[o], op'[o]) /\ Calm(op[o], op'[o])
    BY <1>3, <1>a, <1>b DEF OpenSession, Undo, Go, Mishap, outside, othersKeep, historyVars, At, Mild, Calm, Moving, Unregistered, Threads
  <2>3. /\ astray' = astray /\ checkout' \in {checkout, Nowhere}
        /\ record' = NoRecord \/ (record # NoRecord /\ record'.path = record.path)
    BY <1>3, <1>a DEF OpenSession, Undo, Go, Mishap, outside, othersKeep, historyVars, At, NoRecord, Records
  <2>4. QED
    BY <1>d, <2>1, <2>2, <2>3
<1>4. ASSUME NEW o \in Ops, Bind(o)
      PROVE  PlaceEffects
  <2>1. \A x \in Ops : x # o => op'[x] = op[x]
    BY <1>4, <1>a DEF Bind, Undo, Go, outside, othersKeep, historyVars, At
  <2>2. Mild(op[o], op'[o]) /\ Calm(op[o], op'[o])
    BY <1>4, <1>a, <1>b DEF Bind, Undo, Go, outside, othersKeep, historyVars, At, Mild, Calm, Moving, Unregistered, Threads
  <2>3. /\ astray' = astray /\ checkout' \in {checkout, Nowhere}
        /\ record' = NoRecord \/ (record # NoRecord /\ record'.path = record.path)
    <3>1. op[o].inst # 0 /\ astray' = astray /\ checkout' = checkout
      BY <1>4, <1>h DEF Bind, outside, At, OperationKnows
    <3>2. record' = record \/ (record.inst = op[o].inst /\ record' = [record EXCEPT !.session = TRUE])
      BY <1>4 DEF Bind
    <3>3. record' = record \/ (record # NoRecord /\ record'.path = record.path)
      BY <1>a, <1>g, <3>1, <3>2 DEF Records
    <3>4. QED
      BY <3>1, <3>3
  <2>4. QED
    BY <1>d, <2>1, <2>2, <2>3
<1>5. ASSUME NEW o \in Ops, Launch(o)
      PROVE  PlaceEffects
  <2>1. \A x \in Ops : x # o => op'[x] = op[x]
    BY <1>5, <1>a DEF Launch, Settle, Undo, Go, outside, othersKeep, historyVars, At
  <2>2. Mild(op[o], op'[o]) /\ Calm(op[o], op'[o])
    BY <1>5, <1>a, <1>b DEF Launch, Settle, Undo, Go, outside, othersKeep, historyVars, At, Mild, Calm, Moving, Unregistered, Threads
  <2>3. /\ astray' = astray /\ checkout' \in {checkout, Nowhere}
        /\ record' = NoRecord \/ (record # NoRecord /\ record'.path = record.path)
    BY <1>5, <1>a DEF Launch, Settle, Undo, Go, outside, othersKeep, historyVars, At, NoRecord, Records
  <2>4. QED
    BY <1>d, <2>1, <2>2, <2>3
<1>6. ASSUME NEW o \in Ops, UndoSession(o)
      PROVE  PlaceEffects
  <2>1. \A x \in Ops : x # o => op'[x] = op[x]
    BY <1>6, <1>a DEF UndoSession, Go, outside, othersKeep, historyVars, At
  <2>2. Mild(op[o], op'[o]) /\ Calm(op[o], op'[o])
    BY <1>6, <1>a, <1>b DEF UndoSession, Go, outside, othersKeep, historyVars, At, Mild, Calm, Moving, Unregistered, Threads
  <2>3. /\ astray' = astray /\ checkout' \in {checkout, Nowhere}
        /\ record' = NoRecord \/ (record # NoRecord /\ record'.path = record.path)
    BY <1>6, <1>a DEF UndoSession, Go, outside, othersKeep, historyVars, At, NoRecord, Records
  <2>4. QED
    BY <1>d, <2>1, <2>2, <2>3
<1>7. ASSUME NEW o \in Ops, UndoRecord(o)
      PROVE  PlaceEffects
  <2>1. \A x \in Ops : x # o => op'[x] = op[x]
    BY <1>7, <1>a DEF UndoRecord, Go, outside, othersKeep, historyVars, At
  <2>2. Mild(op[o], op'[o]) /\ Calm(op[o], op'[o])
    BY <1>7, <1>a, <1>b DEF UndoRecord, Go, outside, othersKeep, historyVars, At, Mild, Calm, Moving, Unregistered, Threads
  <2>3. /\ astray' = astray /\ checkout' \in {checkout, Nowhere}
        /\ record' = NoRecord \/ (record # NoRecord /\ record'.path = record.path)
    BY <1>7, <1>a DEF UndoRecord, Go, outside, othersKeep, historyVars, At, NoRecord, Records
  <2>4. QED
    BY <1>d, <2>1, <2>2, <2>3
<1>8. ASSUME NEW o \in Ops, UndoTree(o)
      PROVE  PlaceEffects
  <2>1. \A x \in Ops : x # o => op'[x] = op[x]
    BY <1>8, <1>a DEF UndoTree, Go, outside, othersKeep, historyVars, At
  <2>2. Mild(op[o], op'[o]) /\ Calm(op[o], op'[o])
    BY <1>8, <1>a, <1>b DEF UndoTree, Go, outside, othersKeep, historyVars, At, Mild, Calm, Moving, Unregistered, Threads
  <2>3. /\ astray' = astray /\ checkout' \in {checkout, Nowhere}
        /\ record' = NoRecord \/ (record # NoRecord /\ record'.path = record.path)
    BY <1>8, <1>a DEF UndoTree, Go, outside, othersKeep, historyVars, At, NoRecord, Records
  <2>4. QED
    BY <1>d, <2>1, <2>2, <2>3
<1>9. ASSUME NEW o \in Ops, UndoBranch(o)
      PROVE  PlaceEffects
  <2>1. \A x \in Ops : x # o => op'[x] = op[x]
    BY <1>9, <1>a DEF UndoBranch, Settle, outside, othersKeep, historyVars, At
  <2>2. Mild(op[o], op'[o]) /\ Calm(op[o], op'[o])
    BY <1>9, <1>a, <1>b DEF UndoBranch, Settle, outside, othersKeep, historyVars, At, Mild, Calm, Moving, Unregistered, Threads
  <2>3. /\ astray' = astray /\ checkout' \in {checkout, Nowhere}
        /\ record' = NoRecord \/ (record # NoRecord /\ record'.path = record.path)
    BY <1>9, <1>a DEF UndoBranch, Settle, outside, othersKeep, historyVars, At, NoRecord, Records
  <2>4. QED
    BY <1>d, <2>1, <2>2, <2>3
<1>10. ASSUME NEW o \in Ops, MoveNotSaved(o)
      PROVE  PlaceEffects
  <2>1. \A x \in Ops : x # o => op'[x] = op[x]
    BY <1>10, <1>a DEF MoveNotSaved, Go, Mishap, outside, othersKeep, historyVars, At
  <2>2. Mild(op[o], op'[o]) /\ Calm(op[o], op'[o])
    BY <1>10, <1>a, <1>b DEF MoveNotSaved, Go, Mishap, outside, othersKeep, historyVars, At, Mild, Calm, Moving, Unregistered, Threads
  <2>3. /\ astray' = astray /\ checkout' \in {checkout, Nowhere}
        /\ record' = NoRecord \/ (record # NoRecord /\ record'.path = record.path)
    BY <1>10, <1>a DEF MoveNotSaved, Go, Mishap, outside, othersKeep, historyVars, At, NoRecord, Records
  <2>4. QED
    BY <1>d, <2>1, <2>2, <2>3
<1>11. ASSUME NEW o \in Ops, Preflight(o)
      PROVE  PlaceEffects
  <2>1. \A x \in Ops : x # o => op'[x] = op[x]
    BY <1>11, <1>a DEF Preflight, Fails, Settle, outside, othersKeep, historyVars, At
  <2>2. Mild(op[o], op'[o]) /\ Calm(op[o], op'[o])
    BY <1>11, <1>a, <1>b DEF Preflight, Fails, Settle, outside, othersKeep, historyVars, At, Mild, Calm, Moving, Unregistered, Threads
  <2>3. /\ astray' = astray /\ checkout' \in {checkout, Nowhere}
        /\ record' = NoRecord \/ (record # NoRecord /\ record'.path = record.path)
    BY <1>11, <1>a DEF Preflight, Fails, Settle, outside, othersKeep, historyVars, At, NoRecord, Records
  <2>4. QED
    BY <1>d, <2>1, <2>2, <2>3
<1>12. ASSUME NEW o \in Ops, Prepare(o)
      PROVE  PlaceEffects
  <2>1. \A x \in Ops : x # o => op'[x] = op[x]
    BY <1>12, <1>a DEF Prepare, Fails, Settle, outside, othersKeep, historyVars, At
  <2>2. Mild(op[o], op'[o]) /\ Calm(op[o], op'[o])
    BY <1>12, <1>a, <1>b DEF Prepare, Fails, Settle, outside, othersKeep, historyVars, At, Mild, Calm, Moving, Unregistered, Threads
  <2>3. /\ astray' = astray /\ checkout' \in {checkout, Nowhere}
        /\ record' = NoRecord \/ (record # NoRecord /\ record'.path = record.path)
    BY <1>12, <1>a DEF Prepare, Fails, Settle, outside, othersKeep, historyVars, At, NoRecord, Records
  <2>4. QED
    BY <1>d, <2>1, <2>2, <2>3
<1>13. ASSUME NEW o \in Ops, RemoveGivesUp(o)
      PROVE  PlaceEffects
  <2>1. \A x \in Ops : x # o => op'[x] = op[x]
    BY <1>13, <1>a DEF RemoveGivesUp, Go, Mishap, outside, othersKeep, historyVars, At
  <2>2. Mild(op[o], op'[o]) /\ Calm(op[o], op'[o])
    BY <1>13, <1>a, <1>b DEF RemoveGivesUp, Go, Mishap, outside, othersKeep, historyVars, At, Mild, Calm, Moving, Unregistered, Threads
  <2>3. /\ astray' = astray /\ checkout' \in {checkout, Nowhere}
        /\ record' = NoRecord \/ (record # NoRecord /\ record'.path = record.path)
    BY <1>13, <1>a DEF RemoveGivesUp, Go, Mishap, outside, othersKeep, historyVars, At, NoRecord, Records
  <2>4. QED
    BY <1>d, <2>1, <2>2, <2>3
<1>14. ASSUME NEW o \in Ops, Clean(o)
      PROVE  PlaceEffects
  <2>1. \A x \in Ops : x # o => op'[x] = op[x]
    BY <1>14, <1>a DEF Clean, Go, outside, othersKeep, historyVars, At
  <2>2. Mild(op[o], op'[o]) /\ Calm(op[o], op'[o])
    BY <1>14, <1>a, <1>b DEF Clean, Go, outside, othersKeep, historyVars, At, Mild, Calm, Moving, Unregistered, Threads
  <2>3. /\ astray' = astray /\ checkout' \in {checkout, Nowhere}
        /\ record' = NoRecord \/ (record # NoRecord /\ record'.path = record.path)
    BY <1>14, <1>a DEF Clean, Go, outside, othersKeep, historyVars, At, NoRecord, Records
  <2>4. QED
    BY <1>d, <2>1, <2>2, <2>3
<1>15. ASSUME NEW o \in Ops, Verify(o)
      PROVE  PlaceEffects
  <2>1. \A x \in Ops : x # o => op'[x] = op[x]
    BY <1>15, <1>a DEF Verify, Go, outside, othersKeep, historyVars, At
  <2>2. Mild(op[o], op'[o]) /\ Calm(op[o], op'[o])
    BY <1>15, <1>a, <1>b DEF Verify, Go, outside, othersKeep, historyVars, At, Mild, Calm, Moving, Unregistered, Threads
  <2>3. /\ astray' = astray /\ checkout' \in {checkout, Nowhere}
        /\ record' = NoRecord \/ (record # NoRecord /\ record'.path = record.path)
    BY <1>15, <1>a DEF Verify, Go, outside, othersKeep, historyVars, At, NoRecord, Records
  <2>4. QED
    BY <1>d, <2>1, <2>2, <2>3
<1>16. ASSUME NEW o \in Ops, GitRemoves(o)
      PROVE  PlaceEffects
  <2>1. \A x \in Ops : x # o => op'[x] = op[x]
    BY <1>16, <1>a DEF GitRemoves, Go, Mishap, outside, othersKeep, historyVars, At
  <2>2. Mild(op[o], op'[o]) /\ Calm(op[o], op'[o])
    BY <1>16, <1>a, <1>b DEF GitRemoves, Go, Mishap, outside, othersKeep, historyVars, At, Mild, Calm, Moving, Unregistered, Threads
  <2>3. /\ astray' = astray /\ checkout' \in {checkout, Nowhere}
        /\ record' = NoRecord \/ (record # NoRecord /\ record'.path = record.path)
    BY <1>16, <1>a DEF GitRemoves, Go, Mishap, outside, othersKeep, historyVars, At, NoRecord, Records
  <2>4. QED
    BY <1>d, <2>1, <2>2, <2>3
<1>17. ASSUME NEW o \in Ops, RemoveBranch(o)
      PROVE  PlaceEffects
  <2>1. \A x \in Ops : x # o => op'[x] = op[x]
    BY <1>17, <1>a DEF RemoveBranch, Go, outside, othersKeep, historyVars, At
  <2>2. Mild(op[o], op'[o]) /\ Calm(op[o], op'[o])
    BY <1>17, <1>a, <1>b DEF RemoveBranch, Go, outside, othersKeep, historyVars, At, Mild, Calm, Moving, Unregistered, Threads
  <2>3. /\ astray' = astray /\ checkout' \in {checkout, Nowhere}
        /\ record' = NoRecord \/ (record # NoRecord /\ record'.path = record.path)
    BY <1>17, <1>a DEF RemoveBranch, Go, outside, othersKeep, historyVars, At, NoRecord, Records
  <2>4. QED
    BY <1>d, <2>1, <2>2, <2>3
<1>18. ASSUME NEW o \in Ops, RemoveSession(o)
      PROVE  PlaceEffects
  <2>1. \A x \in Ops : x # o => op'[x] = op[x]
    BY <1>18, <1>a DEF RemoveSession, Go, outside, othersKeep, historyVars, At
  <2>2. Mild(op[o], op'[o]) /\ Calm(op[o], op'[o])
    BY <1>18, <1>a, <1>b DEF RemoveSession, Go, outside, othersKeep, historyVars, At, Mild, Calm, Moving, Unregistered, Threads
  <2>3. /\ astray' = astray /\ checkout' \in {checkout, Nowhere}
        /\ record' = NoRecord \/ (record # NoRecord /\ record'.path = record.path)
    BY <1>18, <1>a DEF RemoveSession, Go, outside, othersKeep, historyVars, At, NoRecord, Records
  <2>4. QED
    BY <1>d, <2>1, <2>2, <2>3
<1>19. ASSUME NEW o \in Ops, Finalize(o)
      PROVE  PlaceEffects
  <2>1. \A x \in Ops : x # o => op'[x] = op[x]
    BY <1>19, <1>a DEF Finalize, Settle, Go, outside, othersKeep, historyVars, At
  <2>2. Mild(op[o], op'[o]) /\ Calm(op[o], op'[o])
    BY <1>19, <1>a, <1>b DEF Finalize, Settle, Go, outside, othersKeep, historyVars, At, Mild, Calm, Moving, Unregistered, Threads
  <2>3. /\ astray' = astray /\ checkout' \in {checkout, Nowhere}
        /\ record' = NoRecord \/ (record # NoRecord /\ record'.path = record.path)
    BY <1>19, <1>a DEF Finalize, Settle, Go, outside, othersKeep, historyVars, At, NoRecord, Records
  <2>4. QED
    BY <1>d, <2>1, <2>2, <2>3
<1>20. ASSUME NEW o \in Ops, Abort(o)
      PROVE  PlaceEffects
  <2>1. \A x \in Ops : x # o => op'[x] = op[x]
    BY <1>20, <1>a DEF Abort, Fails, Settle, outside, othersKeep, historyVars, At
  <2>2. Mild(op[o], op'[o]) /\ Calm(op[o], op'[o])
    BY <1>20, <1>a, <1>b DEF Abort, Fails, Settle, outside, othersKeep, historyVars, At, Mild, Calm, Moving, Unregistered, Threads
  <2>3. /\ astray' = astray /\ checkout' \in {checkout, Nowhere}
        /\ record' = NoRecord \/ (record # NoRecord /\ record'.path = record.path)
    <3>1. astray' = astray /\ checkout' = checkout
      BY <1>20 DEF Abort, outside
    <3>2. \/ record' = record
          \/ record.life = "removing" /\ record' = [record EXCEPT !.life = "active"]
      BY <1>20 DEF Abort
    <3>3. record' = record \/ (record # NoRecord /\ record'.path = record.path)
      BY <1>a, <1>g, <3>2 DEF Records
    <3>4. QED
      BY <3>1, <3>3
  <2>4. QED
    BY <1>d, <2>1, <2>2, <2>3
<1>21. ASSUME NEW o \in Ops, BeginOther(o)
      PROVE  PlaceEffects
  <2>1. \A x \in Ops : x # o => op'[x] = op[x]
    BY <1>21, <1>a DEF BeginOther, outside, othersKeep, historyVars, At
  <2>2. Mild(op[o], op'[o]) /\ Calm(op[o], op'[o])
    BY <1>21, <1>a, <1>b DEF BeginOther, outside, othersKeep, historyVars, At, Mild, Calm, Moving, Unregistered, Threads
  <2>3. /\ astray' = astray /\ checkout' \in {checkout, Nowhere}
        /\ record' = NoRecord \/ (record # NoRecord /\ record'.path = record.path)
    BY <1>21, <1>a DEF BeginOther, outside, othersKeep, historyVars, At, NoRecord, Records
  <2>4. QED
    BY <1>d, <2>1, <2>2, <2>3
<1>22. ASSUME NEW o \in Ops, GivesUp(o)
      PROVE  PlaceEffects
  <2>1. \A x \in Ops : x # o => op'[x] = op[x]
    BY <1>22, <1>a DEF GivesUp, Fails, Settle, Mishap, outside, othersKeep, historyVars, At
  <2>2. Mild(op[o], op'[o]) /\ Calm(op[o], op'[o])
    BY <1>22, <1>a, <1>b DEF GivesUp, Fails, Settle, Mishap, outside, othersKeep, historyVars, At, Mild, Calm, Moving, Unregistered, Threads
  <2>3. /\ astray' = astray /\ checkout' \in {checkout, Nowhere}
        /\ record' = NoRecord \/ (record # NoRecord /\ record'.path = record.path)
    BY <1>22, <1>a DEF GivesUp, Fails, Settle, Mishap, outside, othersKeep, historyVars, At, NoRecord, Records
  <2>4. QED
    BY <1>d, <2>1, <2>2, <2>3
<1>23. ASSUME NEW o \in Ops, Add(o)
      PROVE  PlaceEffects
  <2>1. \A x \in Ops : x # o => op'[x] = op[x]
    BY <1>23, <1>a DEF Add, outside, othersKeep, historyVars, At
  <2>2. Mild(op[o], op'[o]) /\ (astray => astray')
    BY <1>23, <1>a, <1>b DEF Add, outside, othersKeep, historyVars, At, Mild, Moving, Unregistered, Threads
  <2>3. Places
    BY <1>23 DEF Places
  <2>4. QED
    BY <1>c, <2>1, <2>2, <2>3 DEF PlaceEffects
<1>24. ASSUME NEW o \in Ops, AddBreaks(o)
      PROVE  PlaceEffects
  <2>1. \A x \in Ops : x # o => op'[x] = op[x]
    BY <1>24, <1>a DEF AddBreaks, Undo, Go, Mishap, outside, othersKeep, historyVars, At
  <2>2. Mild(op[o], op'[o]) /\ (astray => astray')
    BY <1>24, <1>a, <1>b DEF AddBreaks, Undo, Go, Mishap, outside, othersKeep, historyVars, At, Mild, Moving, Unregistered, Threads
  <2>3. Places
    BY <1>24 DEF Places
  <2>4. QED
    BY <1>c, <2>1, <2>2, <2>3 DEF PlaceEffects
<1>25. ASSUME NEW o \in Ops, Register(o)
      PROVE  PlaceEffects
  <2>1. \A x \in Ops : x # o => op'[x] = op[x]
    BY <1>25, <1>a DEF Register, Undo, Go, outside, othersKeep, historyVars, At
  <2>2. Mild(op[o], op'[o]) /\ (astray => astray')
    BY <1>25, <1>a, <1>b DEF Register, Undo, Go, outside, othersKeep, historyVars, At, Mild, Moving, Unregistered, Threads
  <2>3. Places
    BY <1>25 DEF Places
  <2>4. QED
    BY <1>c, <2>1, <2>2, <2>3 DEF PlaceEffects
<1>26. ASSUME NEW o \in Ops, GitMoves(o)
      PROVE  PlaceEffects
  <2>1. \A x \in Ops : x # o => op'[x] = op[x]
    BY <1>26, <1>a DEF GitMoves, Go, Fails, Settle, outside, othersKeep, historyVars, At
  <2>2. Mild(op[o], op'[o]) /\ (astray => astray')
    BY <1>26, <1>a, <1>b DEF GitMoves, Go, Fails, Settle, outside, othersKeep, historyVars, At, Mild, Moving, Unregistered, Threads
  <2>3. Places
    BY <1>26 DEF Places
  <2>4. QED
    BY <1>c, <2>1, <2>2, <2>3 DEF PlaceEffects
<1>27. ASSUME NEW o \in Ops, MoveSaved(o)
      PROVE  PlaceEffects
  <2>1. \A x \in Ops : x # o => op'[x] = op[x]
    BY <1>27, <1>a DEF MoveSaved, Settle, outside, othersKeep, historyVars, At
  <2>2. Mild(op[o], op'[o]) /\ (astray => astray')
    BY <1>27, <1>a, <1>b DEF MoveSaved, Settle, outside, othersKeep, historyVars, At, Mild, Moving, Unregistered, Threads
  <2>3. Places
    BY <1>27 DEF Places
  <2>4. QED
    BY <1>c, <2>1, <2>2, <2>3 DEF PlaceEffects
<1>28. ASSUME NEW o \in Ops, MoveBack(o)
      PROVE  PlaceEffects
  <2>1. \A x \in Ops : x # o => op'[x] = op[x]
    BY <1>28, <1>a DEF MoveBack, Fails, Settle, outside, othersKeep, historyVars, At
  <2>2. Mild(op[o], op'[o]) /\ (astray => astray')
    BY <1>28, <1>a, <1>b DEF MoveBack, Fails, Settle, outside, othersKeep, historyVars, At, Mild, Moving, Unregistered, Threads
  <2>3. Places
    BY <1>28 DEF Places
  <2>4. QED
    BY <1>c, <2>1, <2>2, <2>3 DEF PlaceEffects
<1>29. ASSUME NEW o \in Ops, NEW to \in Paths, MoveChecks(o, to)
      PROVE  PlaceEffects
  BY <1>29 DEF PlaceEffects, Places, MoveChecks
<1>30. ASSUME NEW o \in Ops, GitMoveBreaks(o)
      PROVE  PlaceEffects
  <2>1. \A x \in Ops : x # o => op'[x] = op[x]
    BY <1>30, <1>a DEF GitMoveBreaks, Fails, Settle, Mishap, outside, othersKeep, historyVars, At
  <2>2. Mild(op[o], op'[o]) /\ astray'
    BY <1>30, <1>a, <1>b DEF GitMoveBreaks, Fails, Settle, Mishap, outside, othersKeep, historyVars, At, Mild, Moving, Unregistered
  <2>3. QED
    BY <1>c, <2>1, <2>2 DEF PlaceEffects
<1>31. ASSUME NEW o \in Ops, Cancel(o)
      PROVE  PlaceEffects
  BY <1>31, <1>e, <1>f DEF Cancel, outside, historyVars
<1>32. CASE Scan
  BY <1>32, <1>e, <1>f DEF Scan, reconKeeps, outside
<1>33. CASE ReadRecords
  BY <1>33, <1>e, <1>f DEF ReadRecords, reconKeeps, outside
<1>34. CASE AgentCommits
  BY <1>34, <1>e, <1>f DEF AgentCommits, otherActs
<1>35. CASE Reconcile
  <2>1. checkout' = checkout /\ op' = op
    BY <1>35 DEF Reconcile, reconKeeps, outside
  <2>2. \A x \in Ops : Mild(op[x], op'[x]) /\ Calm(op[x], op'[x])
    BY <1>c, <2>1
  <2>3. CASE MarkMissing \/ LeaveAlone
    <3>1. astray' = astray /\ (record' = NoRecord \/ (record # NoRecord /\ record'.path = record.path))
      BY <1>a, <2>3 DEF MarkMissing, LeaveAlone, Records
    <3>2. QED
      BY <1>f, <2>1, <3>1
  <2>4. CASE Adopt \/ Refresh
    <3>1. CASE UNCHANGED <<record, astray>>
      BY <1>f, <1>e, <2>1, <3>1
    <3>2. CASE /\ astray' = (astray \/ recon.at # checkout \/ BetweenPlaces)
               /\ record'.path = recon.at
      <4>1. (astray => astray') /\ (astray' \/ Rewrites)
        BY <2>1, <3>2 DEF Rewrites
      <4>2. QED
        BY <2>2, <4>1 DEF PlaceEffects
    <3>3. UNCHANGED <<record, astray>> \/ (/\ astray' = (astray \/ recon.at # checkout \/ BetweenPlaces)
                                          /\ record'.path = recon.at)
      <4>1. CASE Adopt
        BY <4>1 DEF Adopt
      <4>2. CASE Refresh
        <5>1. CASE record # NoRecord /\ record.life # "removing"
          <6>1. record' = [record EXCEPT !.path = recon.at, !.head = recon.head, !.life = "active"]
            BY <4>2, <5>1 DEF Refresh
          <6>2. record'.path = recon.at
            BY <1>a, <6>1 DEF Records
          <6>3. QED
            BY <4>2, <5>1, <6>2 DEF Refresh
        <5>2. CASE ~ (record # NoRecord /\ record.life # "removing")
          BY <4>2, <5>2 DEF Refresh
        <5>3. QED
          BY <5>1, <5>2
      <4>3. QED
        BY <2>4, <4>1, <4>2
    <3>4. QED
      BY <3>1, <3>2, <3>3
  <2>5. QED
    BY <1>35, <2>3, <2>4 DEF Reconcile
<1>36. ASSUME NEW to \in Paths \cup {Nowhere}, UserMoves(to)
      PROVE  PlaceEffects
  <2>1. op' = op /\ astray'
    BY <1>36 DEF UserMoves
  <2>2. QED
    BY <1>c, <2>1 DEF PlaceEffects
<1>37. CASE Crash
  <2>1. /\ record' = record /\ checkout' = checkout
        /\ astray' = (astray \/ BetweenPlaces)
        /\ \A x \in Ops : op'[x] = op[x] \/ op'[x].step = "done"
    BY <1>37, <1>b DEF Crash, otherActs
  <2>2. \A x \in Ops : Mild(op[x], op'[x])
    BY <1>c, <2>1 DEF Mild, Moving, Unregistered
  <2>3. CASE BetweenPlaces
    BY <2>1, <2>2, <2>3 DEF PlaceEffects
  <2>4. CASE ~ BetweenPlaces
    <3>1. \A x \in Ops : Calm(op[x], op'[x])
      BY <1>c, <2>1, <2>4 DEF Calm, BetweenPlaces
    <3>2. QED
      BY <1>e, <2>1, <2>2, <3>1 DEF PlaceEffects, Stays
  <2>5. QED
    BY <2>3, <2>4
<1>38. CASE UNCHANGED vars
  BY <1>38, <1>e, <1>f DEF vars, outside, historyVars
<1>39. QED
  BY <1>1, <1>2, <1>3, <1>4, <1>5, <1>6, <1>7, <1>8, <1>9, <1>10, <1>11, <1>12,
     <1>13, <1>14, <1>15, <1>16, <1>17, <1>18, <1>19, <1>20, <1>21, <1>22,
     <1>23, <1>24, <1>25, <1>26, <1>27, <1>28, <1>29, <1>30, <1>31, <1>32,
     <1>33, <1>34, <1>35, <1>36, <1>37, <1>38
     DEF Next, Create, Move, Remove

\* Moves, one after the other, keep the record with the checkout.
LEMMA PlaceInvStep ==
    ASSUME TypeOK, Known, CreateInv, OneMoveAtATime, PlaceInv, [Next]_vars
    PROVE  PlaceInv'
<1>a. op \in [Ops -> Threads] /\ record \in Records
      /\ \A o \in Ops : op[o] \in Threads
  BY TypeParts DEF RowTypes, RecordTypes
<1>b. \A o \in Ops : Ended(op[o]).step = "done"
  BY <1>a, EndedType
<1>c. /\ NoRecord.inst = 0 /\ Nowhere \notin Paths
      /\ \A o, p \in Ops : Kind[o] = "create" /\ Kind[p] = "create" => o = p
  BY Constants DEF NoRecord
<1>d. \A o \in Ops : OperationKnows(o)
  BY DEF Known
<1>e. \A o \in Ops : op[o].step \in {"moving", "save", "back"} => MoveUnderWay(o)
  BY <1>d DEF OperationKnows, StepsOf, MoveUnderWay
<1>f. PlaceEffects
  BY PlaceSteps
<1>1. NoMoveYet'
  <2> SUFFICES ASSUME NEW c \in Ops, Kind[c] = "create", op'[c].step \in Unregistered,
                      NEW o \in Ops, op'[o].step \in Moving
               PROVE  FALSE
    BY DEF NoMoveYet
  <2>1. CASE \A x \in Ops : Mild(op[x], op'[x])
    BY <2>1 DEF Mild, PlaceInv, NoMoveYet
  <2>2. ASSUME NEW p \in Ops, NEW to \in Paths, MoveChecks(p, to)
        PROVE  FALSE
    <3>1. \A x \in Ops : x # p => op'[x] = op[x]
      BY <2>2, <1>a DEF MoveChecks, Fails, Settle, At, othersKeep
    <3>2. Kind[p] = "move" /\ op[p].step = "validating"
      BY <2>2 DEF MoveChecks, At
    <3>3. p # c /\ op'[c] = op[c]
      BY <3>1, <3>2
    <3>4. record = NoRecord
      BY <3>3 DEF CreateInv, CreateKnows, Unregistered
    <3>5. record.inst # op[p].inst
      BY <1>c, <1>d, <3>2, <3>4 DEF OperationKnows
    <3>6. op' = [op EXCEPT ![p] = Ended(@)]
      BY <2>2, <3>5 DEF MoveChecks, Fails, Settle
    <3>7. op'[p].step = "done"
      BY <1>a, <1>b, <3>6
    <3>8. o # p /\ op'[o] = op[o]
      BY <3>1, <3>7 DEF Moving
    <3>9. QED
      BY <3>3, <3>8 DEF PlaceInv, NoMoveYet
  <2>3. QED
    BY <1>f, <2>1, <2>2 DEF PlaceEffects
<1>2. ASSUME ~ astray' PROVE PlaceKnown'
  <2>a. ~ astray /\ PlaceKnown
    BY <1>2, <1>f DEF PlaceEffects, PlaceInv
  <2>1. CASE Stays
    <3>1. BetweenPlaces <=> BetweenPlaces'
      BY <2>1 DEF Stays, Calm, BetweenPlaces
    <3>2. QED
      BY <2>1, <2>a, <3>1 DEF Stays, Calm, PlaceKnown
  <2>2. CASE Rewrites
    BY <2>2 DEF Rewrites, PlaceKnown, BetweenPlaces
  <2>3. ASSUME NEW c \in Ops, Add(c) \/ AddBreaks(c) \/ Register(c)
        PROVE  PlaceKnown'
    <3>1. Kind[c] = "create" /\ op[c].step \in {"creating", "register"}
      BY <2>3 DEF Add, AddBreaks, Register, At
    <3>2. /\ op'[c].step \notin {"save", "back"}
          /\ \A x \in Ops : x # c => op'[x] = op[x]
      BY <2>3, <1>a DEF Add, AddBreaks, Register, Undo, Go, Threads
    <3>3. \A o \in Ops : op'[o].step \notin {"save", "back"}
      BY <3>1, <3>2 DEF PlaceInv, NoMoveYet, Unregistered, Moving
    <3>4. record = NoRecord
      BY <3>1 DEF CreateInv, CreateKnows
    <3>5. record' # NoRecord => record'.path = checkout'
      BY <2>3, <3>4 DEF Add, AddBreaks, Register, outside
    <3>6. QED
      BY <3>3, <3>5 DEF PlaceKnown
  <2>4. ASSUME NEW o \in Ops, NEW to \in Paths, MoveChecks(o, to)
        PROVE  PlaceKnown'
    <3>1. checkout' = checkout /\ record' = record /\ op[o].step = "validating"
      BY <2>4 DEF MoveChecks, outside, At
    <3>2. /\ op'[o].step \notin {"save", "back"}
          /\ \A x \in Ops : x # o => op'[x] = op[x]
      BY <2>4, <1>a, <1>b DEF MoveChecks, Fails, Settle, Threads
    <3>3. \A x \in Ops : op'[x].step \in {"save", "back"} \/ op[x].step \in {"save", "back"}
              => op'[x] = op[x]
      BY <3>1, <3>2
    <3>4. BetweenPlaces <=> BetweenPlaces'
      BY <3>3 DEF BetweenPlaces
    <3>5. QED
      BY <2>a, <3>1, <3>3, <3>4 DEF PlaceKnown
  <2>5. ASSUME NEW o \in Ops, GitMoves(o) \/ MoveSaved(o) \/ MoveBack(o)
        PROVE  PlaceKnown'
    <3>1. Kind[o] = "move" /\ op[o].step \in {"moving", "save", "back"}
      BY <2>5 DEF GitMoves, MoveSaved, MoveBack, At
    <3>2. \A x \in Ops : x # o => op'[x] = op[x] /\ op[x].step \notin {"save", "back"}
      <4>1. \A x \in Ops : x # o => op'[x] = op[x]
        BY <2>5, <1>a DEF GitMoves, MoveSaved, MoveBack, Fails, Settle, Go
      <4>2. \A x \in Ops : x # o => op[x].step \notin {"save", "back"}
        BY <1>e, <3>1 DEF OneMoveAtATime
      <4>3. QED
        BY <4>1, <4>2
    <3>3. op[o].path \in Paths /\ op[o].to \in Paths
      BY <1>d, <3>1 DEF OperationKnows
    <3>4. CASE GitMoves(o)
      <4>1. op[o].step = "moving" /\ record' = record
        BY <3>4 DEF GitMoves, At
      <4>2. ~ BetweenPlaces
        BY <3>2, <4>1 DEF BetweenPlaces
      <4>3. CASE checkout = op[o].path
        <5>1. /\ checkout' = op[o].to /\ op'[o].path = op[o].path /\ op'[o].to = op[o].to
              /\ op'[o].step = "save"
          BY <1>a, <3>4, <4>3 DEF GitMoves, Go, Threads
        <5>2. checkout # Nowhere
          BY <1>c, <3>3, <4>3
        <5>3. record # NoRecord => record.path = op[o].path
          BY <2>a, <4>2, <4>3, <5>2 DEF PlaceKnown
        <5>4. BetweenPlaces'
          BY <5>1 DEF BetweenPlaces
        <5>5. QED
          BY <3>2, <4>1, <5>1, <5>3, <5>4 DEF PlaceKnown
      <4>4. CASE checkout # op[o].path
        <5>1. checkout' = checkout /\ op'[o].step = "done"
          BY <1>a, <1>b, <3>4, <4>4 DEF GitMoves, Fails, Settle
        <5>2. QED
          BY <2>a, <3>2, <4>1, <4>2, <5>1 DEF PlaceKnown, BetweenPlaces
      <4>5. QED
        BY <4>3, <4>4
    <3>5. CASE MoveSaved(o)
      <4>1. /\ checkout' = checkout /\ checkout = op[o].to /\ record'.path = op[o].to
            /\ op'[o].step = "done"
        BY <1>a, <1>b, <3>5 DEF MoveSaved, Settle, outside, Records
      <4>2. QED
        BY <3>2, <4>1 DEF PlaceKnown, BetweenPlaces
    <3>6. CASE MoveBack(o)
      <4>1. op[o].step = "back" /\ record' = record /\ op'[o].step = "done"
        BY <1>a, <1>b, <3>6 DEF MoveBack, At, Fails, Settle
      <4>2. checkout # Nowhere => checkout = op[o].to /\ (record # NoRecord => record.path = op[o].path)
        BY <2>a, <4>1 DEF PlaceKnown
      <4>3. checkout' = Nowhere \/ (checkout' = op[o].path /\ checkout # Nowhere)
        BY <1>2, <1>c, <3>3, <3>6, <4>2 DEF MoveBack
      <4>4. QED
        BY <3>2, <4>1, <4>2, <4>3 DEF PlaceKnown, BetweenPlaces
    <3>7. QED
      BY <2>5, <3>4, <3>5, <3>6
  <2>6. QED
    BY <1>2, <1>f, <2>1, <2>2, <2>3, <2>4, <2>5 DEF PlaceEffects, Places
<1>3. QED
  BY <1>1, <1>2 DEF PlaceInv

\* A move changes the place of the checkout and the record's together
\* (move_claimed, compare_and_swap_path): for any number of moves, removals,
\* reconciliations and disturbances, as long as no two moves are under way at a
\* time, which nothing in the code sees to.
THEOREM MovesKeepPlace == Spec /\ []OneMoveAtATime => []MovedTogether
<1>1. Init => PlaceInv
  BY DEF Init, PlaceInv, NoMoveYet, PlaceKnown, Moving, Fresh, Nowhere
<1>2. /\ TypeOK /\ Known /\ CreateInv /\ OneMoveAtATime /\ PlaceInv
      /\ [Next]_vars
      => PlaceInv'
  BY PlaceInvStep
<1>3. PlaceInv => MovedTogether
  BY DEF PlaceInv, PlaceKnown, MovedTogether
<1>4. Spec => [](TypeOK /\ Known)
  BY TypesKnown
<1>5. Spec => []CreateInv
  BY CreatesKnown
<1>6. QED
  BY <1>1, <1>2, <1>3, <1>4, <1>5, PTL DEF Spec
==============================================================================
