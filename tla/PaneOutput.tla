----------------------------- MODULE PaneOutput -----------------------------
(***************************************************************************)
(* How the output of a pane reaches the terminal of the window: the daemon *)
(* (src-tauri/src/daemon/panes.rs, session.rs), the lossy queues on the    *)
(* way (daemon client and WebSocket, src-tauri/src/app/daemon_client.rs)   *)
(* and the terminal (src/terminal/TerminalManager.ts).                     *)
(*                                                                         *)
(* Frames carry the generation of the pane and a sequence number; the      *)
(* terminal applies the next one, drops old ones, and asks for a snapshot  *)
(* when it meets a gap.  Snapshots come as replies, by another way than    *)
(* frames, so either may be first.  One pane and one window; the requests  *)
(* of a window reach the daemon in the order they were made.               *)
(***************************************************************************)
EXTENDS Integers, Sequences

CONSTANTS
    MaxSeq,      \* bound: frames a pane records
    MaxLife,     \* bound: restarts of the daemon
    MaxMoves,    \* bound: times the window goes to another workspace
    Generations, \* generations a pane may get
    QueueLen,    \* frames between the reader of the pane and the terminal
    PendingLen   \* MAX_PENDING_OUTPUT_BYTES, in frames

ASSUME BoundsAssumption ==
    /\ {MaxSeq, MaxLife, MaxMoves} \subseteq Nat
    /\ {QueueLen, PendingLen} \subseteq Nat \ {0}
    /\ Generations \subseteq Nat \ {0} /\ 1 \in Generations

(***************************************************************************)
(* A cursor of the terminal, or of the daemon.  "life" counts the starts   *)
(* of the daemon: nothing in the program knows it, but a daemon numbers    *)
(* its generations from 1 again.                                           *)
(***************************************************************************)
Cursors == [life : 0 .. MaxLife, gen : Generations, seq : 0 .. MaxSeq]

NoCursor == [life |-> 0, gen |-> 0, seq |-> 0]

\* "snap": attach_pane sends the snapshot of the pane as an Output message.
Frames == [at : Cursors, snap : BOOLEAN]

VARIABLES
    pane,      \* output_cursor of the pane
    hand,      \* the reader has recorded the last frame and not yet sent it
    attached,  \* pane_clients[pane] has the client of the window
    queue,     \* frames on the way to the terminal
    opened,    \* the terminal is mounted
    att,       \* daemonAttached: "yes" or "no"
    attachReq, \* the last attach_pane: "none", "sent" or "done" by the daemon
    after,     \* ask for a snapshot when it is done
    cursor,    \* paneGeneration and outputSequence, or NoCursor
    replay,    \* replayPromise: "none", "asked", "answered" or "writing"
    reply,     \* the snapshot that the daemon has answered with
    valid,     \* replayRevision is still the one of the request
    again,     \* replayAgain
    pending,   \* pendingSequencedOutput
    visible,   \* the terminal can be seen
    parked,    \* outputParked
    stale,     \* outputSnapshotStale
    away,      \* the window shows another workspace
    lost,      \* the connection to the daemon is down
    moves,     \* bound: number of times the window has gone away
    spoiled,   \* history: what the terminal shows is not the output of the pane
    hurried,   \* history: the window came back while a replay was going on
    outlived,  \* history: a terminal held frames, or a cursor, of an earlier daemon
    missed     \* history: the newest frame was dropped on its way

daemonVars == <<pane, hand, attached>>
attachVars == <<att, attachReq, after>>
replayVars == <<replay, reply, valid, again>>
viewVars   == <<opened, visible, away, lost, moves>>
shownVars  == <<cursor, pending, parked, stale>>
history    == <<spoiled, hurried, outlived, missed>>
vars == <<daemonVars, queue, attachVars, replayVars, viewVars, shownVars, history>>

\* A window is attached at once to a pane that it has spawned itself.
Init ==
    /\ pane = [life |-> 0, gen |-> 1, seq |-> 0]
    /\ hand = FALSE /\ attached \in BOOLEAN
    /\ queue = <<>>
    /\ opened = FALSE /\ visible = FALSE /\ away = FALSE /\ lost = FALSE /\ moves = 0
    /\ att = "no" /\ attachReq = "none" /\ after = FALSE
    /\ cursor = NoCursor
    /\ replay = "none" /\ reply = NoCursor /\ valid = TRUE /\ again = FALSE
    /\ pending = <<>> /\ parked = FALSE /\ stale = FALSE
    /\ spoiled = FALSE /\ hurried = FALSE /\ outlived = FALSE /\ missed = FALSE

----------------------------------------------------------------------------
(***************************************************************************)
(* The daemon.                                                             *)
(***************************************************************************)
\* try_send: a frame for which there is no room is dropped.
SendFrame(frame) ==
    IF Len(queue) < QueueLen
    THEN queue' = Append(queue, frame) /\ missed' = FALSE
    ELSE UNCHANGED queue /\ missed' = TRUE

\* record_output_and_push_for_generation, under the lock, by the reader.
Record ==
    /\ ~hand /\ pane.seq < MaxSeq
    /\ pane' = [pane EXCEPT !.seq = @ + 1]
    /\ hand' = attached
    /\ UNCHANGED <<attached, queue, attachVars, replayVars, viewVars, shownVars, history>>

\* send_output_to_clients, after the lock, to the clients of that moment.
ReaderSends ==
    /\ hand
    /\ hand' = FALSE
    /\ SendFrame([at |-> pane, snap |-> FALSE])
    /\ UNCHANGED <<pane, attached, attachVars, replayVars, viewVars, shownVars,
                   spoiled, hurried, outlived>>

\* attach_pane.  The scrollback is empty until the pane has put something out;
\* a restored pane has the one of before.
AttachHandled ==
    /\ attachReq = "sent" /\ ~lost
    /\ attachReq' = "done"
    /\ attached' = TRUE
    /\ IF ~attached /\ (pane.seq > 0 \/ pane.life > 0)
       THEN SendFrame([at |-> pane, snap |-> TRUE])
       ELSE UNCHANGED <<queue, missed>>
    /\ UNCHANGED <<pane, hand, att, after, replayVars, viewVars, shownVars,
                   spoiled, hurried, outlived>>

\* subscribe_pane: snapshot and attachment under one lock.
SubscribeHandled ==
    /\ replay = "asked" /\ ~lost
    /\ replay' = "answered"
    /\ reply' = pane
    /\ attached' = TRUE
    /\ missed' = FALSE
    /\ UNCHANGED <<pane, hand, queue, attachVars, valid, again, viewVars, shownVars,
                   spoiled, hurried, outlived>>

----------------------------------------------------------------------------
(***************************************************************************)
(* The terminal.                                                           *)
(***************************************************************************)
\* requestSnapshotReplay, given whether another one has to follow.
Request(going) ==
    /\ replay' = IF opened /\ going THEN "asked" ELSE "none"
    /\ again' = FALSE /\ valid' = TRUE /\ reply' = NoCursor

AskForSnapshot ==
    IF replay = "none"
    THEN Request(TRUE)
    ELSE again' = TRUE /\ UNCHANGED <<replay, reply, valid>>

\* Mutant of EndReplay: what was asked for meanwhile is forgotten.
EndReplayAnyway == Request(FALSE)

\* The end of the replay: the next one starts at once when it was asked for.
EndReplay == Request(again)

\* beginDaemonAttach
BeginAttach(ask) == att' = "no" /\ attachReq' = "sent" /\ after' = ask

\* Mutant of Push: there is no limit.
PushAlways(frames, frame) == Append(frames, frame)

\* queueSequencedOutput: the oldest frames make room.
Push(frames, frame) ==
    Append(IF Len(frames) < PendingLen THEN frames ELSE Tail(frames), frame)

\* Mutant of Next1: a gap is not noticed.
AnyLater(frame, c) == frame.at.gen = c.gen /\ frame.at.seq > c.seq

Old(frame, c)  == frame.at.gen = c.gen /\ frame.at.seq <= c.seq
Next1(frame, c) == frame.at.gen = c.gen /\ frame.at.seq = c.seq + 1

\* What the terminal shows after a frame that it takes for the next one is
\* right when it is the output after what it has shown so far.
Spoils(frame, c) == frame.snap \/ frame.at # [c EXCEPT !.seq = @ + 1]

(***************************************************************************)
(* writeSequenced.                                                         *)
(***************************************************************************)
Ready == opened /\ att = "yes" /\ replay = "none" /\ cursor # NoCursor

Applied(frame) ==
    /\ cursor' = frame.at
    /\ spoiled' = (spoiled \/ Spoils(frame, cursor))

Receive ==
    /\ queue # <<>>
    /\ queue' = Tail(queue)
    /\ LET frame == Head(queue) IN
       \/ /\ ~Ready
          /\ pending' = Push(pending, frame)
          /\ IF opened /\ att = "yes" /\ replay = "none" THEN AskForSnapshot
                                                        ELSE UNCHANGED replayVars
          /\ UNCHANGED <<cursor, parked, stale, spoiled>>
       \/ /\ Ready /\ parked
          /\ stale' = TRUE
          /\ UNCHANGED <<replayVars, cursor, pending, parked, spoiled>>
       \/ /\ Ready /\ ~parked /\ Old(frame, cursor)
          /\ UNCHANGED <<replayVars, shownVars, spoiled>>
       \/ /\ Ready /\ ~parked /\ Next1(frame, cursor)
          /\ Applied(frame)
          /\ UNCHANGED <<replayVars, pending, parked, stale>>
       \/ /\ Ready /\ ~parked /\ ~Old(frame, cursor) /\ ~Next1(frame, cursor)
          /\ pending' = Push(pending, frame)
          /\ AskForSnapshot
          /\ UNCHANGED <<cursor, parked, stale, spoiled>>
    /\ UNCHANGED <<daemonVars, attachVars, viewVars, hurried, outlived, missed>>

(***************************************************************************)
(* replayPane: the snapshot replaces what is shown, unless the request was *)
(* made before the terminal was told to start again, or the terminal shows *)
(* just that already.                                                      *)
(***************************************************************************)
Retained == ~stale /\ cursor.gen = reply.gen /\ cursor.seq = reply.seq

Hydrate ==
    /\ replay = "answered" /\ valid
    /\ replay' = "writing" /\ reply' = NoCursor
    /\ att' = "yes"
    /\ IF Retained
       THEN /\ spoiled' = (spoiled \/ cursor.life # reply.life)
            /\ UNCHANGED cursor
       ELSE cursor' = reply /\ spoiled' = FALSE
    /\ UNCHANGED <<daemonVars, queue, attachReq, after, valid, again, viewVars,
                   pending, parked, stale, hurried, outlived, missed>>

DropReply ==
    /\ replay = "answered" /\ ~valid
    /\ EndReplay
    /\ UNCHANGED <<daemonVars, queue, attachVars, viewVars, shownVars, history>>

(***************************************************************************)
(* The frames that came meanwhile, in order: old ones are dropped, the     *)
(* next ones applied; from the first gap on they wait for another replay.  *)
(* Drained[i] is what the first i frames come to: the first "done" of them *)
(* have been looked at, "at" is the cursor then.                           *)
(***************************************************************************)
Drained[i \in 0 .. Len(pending)] ==
    IF i = 0 THEN [done |-> 0, at |-> cursor, spoiled |-> spoiled]
    ELSE LET r == Drained[i - 1]
             f == pending[i]
         IN  IF r.done < i - 1 \/ ~(Old(f, r.at) \/ Next1(f, r.at)) THEN r
             ELSE IF Old(f, r.at) THEN [r EXCEPT !.done = i]
             ELSE [done |-> i, at |-> f.at, spoiled |-> r.spoiled \/ Spoils(f, r.at)]

Drain ==
    /\ replay = "writing" /\ pending # <<>>
    /\ LET r == Drained[Len(pending)] IN
       /\ cursor' = r.at
       /\ spoiled' = r.spoiled
       /\ pending' = SubSeq(pending, r.done + 1, Len(pending))
       /\ again' = (again \/ r.done < Len(pending))
    /\ UNCHANGED <<daemonVars, queue, attachVars, replay, reply, valid, viewVars,
                   parked, stale, hurried, outlived, missed>>

FinishReplay ==
    /\ replay = "writing" /\ (pending = <<>> \/ again)
    /\ parked' = FALSE /\ stale' = FALSE
    /\ EndReplay
    /\ UNCHANGED <<daemonVars, queue, attachVars, viewVars, cursor, pending, history>>

\* attach_pane has been answered.
AttachDone ==
    /\ attachReq = "done"
    /\ attachReq' = "none" /\ att' = "yes" /\ after' = FALSE
    /\ IF after THEN AskForSnapshot ELSE UNCHANGED replayVars
    /\ UNCHANGED <<daemonVars, queue, viewVars, shownVars, history>>

----------------------------------------------------------------------------
(***************************************************************************)
(* The window.                                                             *)
(***************************************************************************)
Unattached == att = "no" /\ attachReq = "none"

\* attach: the terminal is mounted, or mounted again after a failure.  One that
\* reattachToDaemon has attached before it was mounted is not attached again.
Mount ==
    /\ ~away /\ ~lost
    /\ ~opened \/ Unattached
    /\ opened' = TRUE /\ visible' = TRUE
    /\ IF Unattached THEN BeginAttach(TRUE) ELSE UNCHANGED attachVars
    /\ UNCHANGED <<daemonVars, queue, replayVars, away, lost, moves, shownVars, history>>

\* scheduleHiddenOutputParking: some time after the terminal was hidden.  Output
\* that was not written by then (pendingOutput, outputWritePending) is given up;
\* a replay replaces it anyway, so it is looked at only when there is none.
Park ==
    /\ opened /\ ~visible /\ ~parked /\ att = "yes" /\ cursor # NoCursor
    /\ parked' = TRUE
    /\ stale' \in IF replay = "none" THEN {stale, TRUE} ELSE {stale}
    /\ UNCHANGED <<daemonVars, queue, attachVars, replayVars, viewVars, cursor, pending,
                   history>>

Hide ==
    /\ opened /\ visible
    /\ visible' = FALSE
    /\ UNCHANGED <<daemonVars, queue, attachVars, replayVars, opened, away, lost, moves,
                   shownVars, history>>

\* Mutant of Show: the terminal goes on with the next frame.
ShowAsItIs ==
    /\ opened /\ ~visible /\ ~away
    /\ visible' = TRUE
    /\ parked' = FALSE
    /\ UNCHANGED <<daemonVars, queue, attachVars, replayVars, opened, away, lost, moves,
                   cursor, pending, stale, history>>

\* resumeOutputConsumption
Show ==
    /\ opened /\ ~visible /\ ~away
    /\ visible' = TRUE
    /\ parked' = FALSE
    /\ IF parked /\ stale /\ att = "yes" THEN AskForSnapshot ELSE UNCHANGED replayVars
    /\ UNCHANGED <<daemonVars, queue, attachVars, opened, away, lost, moves, cursor, pending,
                   stale, history>>

\* The window goes to another workspace: detach_session.
Leave ==
    /\ opened /\ ~away /\ ~lost /\ moves < MaxMoves
    /\ attachReq # "sent" /\ replay # "asked"
    /\ away' = TRUE /\ visible' = FALSE /\ moves' = moves + 1
    /\ attached' = FALSE
    /\ UNCHANGED <<pane, hand, queue, attachVars, replayVars, opened, lost, shownVars, history>>

\* It comes back: reattachToDaemon without force.
Return ==
    /\ away /\ ~lost
    /\ away' = FALSE
    /\ BeginAttach(replay = "none")
    /\ hurried' = (hurried \/ replay # "none")
    /\ UNCHANGED <<daemonVars, queue, replayVars, opened, visible, lost, moves, shownVars,
                   spoiled, outlived, missed>>

----------------------------------------------------------------------------
(***************************************************************************)
(* The daemon restarts and restores the pane, in some generation.          *)
(***************************************************************************)
Restart(gen) ==
    /\ pane.life < MaxLife
    /\ pane' = [life |-> pane.life + 1, gen |-> gen, seq |-> 0]
    /\ hand' = FALSE /\ attached' = FALSE
    /\ lost' = TRUE
    /\ UNCHANGED <<queue, attachVars, replayVars, opened, visible, away, moves, shownVars, history>>

\* The requests that the daemon has not answered fail.
AttachFails ==
    /\ lost /\ attachReq = "sent"
    /\ attachReq' = "none" /\ att' = "no" /\ after' = FALSE
    /\ UNCHANGED <<daemonVars, queue, replayVars, viewVars, shownVars, history>>

SubscribeFails ==
    /\ lost /\ replay = "asked"
    /\ att' = "no" /\ UNCHANGED <<attachReq, after>>
    /\ EndReplay
    /\ UNCHANGED <<daemonVars, queue, viewVars, shownVars, history>>

\* handleConnectionRestored: another WebSocket, and reattachToDaemon, forced,
\* for the panes of the workspace that is shown, also for those that have got
\* frames and were never mounted.
Reconnect ==
    /\ lost /\ attachReq # "sent" /\ replay # "asked"
    /\ lost' = FALSE
    /\ queue' = <<>>
    /\ outlived' = (outlived \/ pending # <<>> \/ replay = "writing" \/ away)
    /\ IF (opened \/ pending # <<>>) /\ ~away
       THEN cursor' = NoCursor /\ valid' = (replay # "answered") /\ BeginAttach(TRUE)
       ELSE UNCHANGED <<cursor, valid, attachVars>>
    /\ UNCHANGED <<daemonVars, replay, reply, again, opened, visible, away, moves,
                   pending, parked, stale, spoiled, hurried, missed>>

Next ==
    \/ Record \/ ReaderSends \/ AttachHandled \/ SubscribeHandled
    \/ Receive \/ Hydrate \/ DropReply \/ Drain \/ FinishReplay \/ AttachDone
    \/ Mount \/ Park \/ Hide \/ Show \/ Leave \/ Return
    \/ \E gen \in Generations : Restart(gen)
    \/ AttachFails \/ SubscribeFails \/ Reconnect

(***************************************************************************)
(* Readers, requests, replies and the loop of the window go on, and a lost *)
(* daemon is started again.  What the person does is not promised.         *)
(***************************************************************************)
Fairness ==
    /\ WF_vars(ReaderSends) /\ WF_vars(AttachHandled) /\ WF_vars(SubscribeHandled)
    /\ WF_vars(Receive) /\ WF_vars(Hydrate) /\ WF_vars(DropReply) /\ WF_vars(Drain)
    /\ WF_vars(FinishReplay) /\ WF_vars(AttachDone)
    /\ WF_vars(AttachFails) /\ WF_vars(SubscribeFails) /\ WF_vars(Reconnect)

Spec == Init /\ [][Next]_vars /\ Fairness

----------------------------------------------------------------------------
(***************************************************************************)
(* Types, and the bounds of the queues.                                    *)
(***************************************************************************)
TypeOK ==
    /\ pane \in Cursors
    /\ {hand, attached, opened, after, valid, again, visible, parked, stale, away, lost,
        spoiled, hurried, outlived, missed} \subseteq BOOLEAN
    /\ queue \in Seq(Frames) /\ Len(queue) <= QueueLen
    /\ pending \in Seq(Frames) /\ Len(pending) <= PendingLen
    /\ att \in {"yes", "no"}
    /\ attachReq \in {"none", "sent", "done"}
    /\ replay \in {"none", "asked", "answered", "writing"}
    /\ cursor \in Cursors \cup {NoCursor}
    /\ reply \in Cursors \cup {NoCursor}
    /\ moves \in 0 .. MaxMoves

(***************************************************************************)
(* Two events break what follows.  The daemon has restarted while the      *)
(* terminal held frames or a cursor of the earlier one (see ReplayHeals).  *)
(* The window has come back to the workspace while a replay was going on:  *)
(* no other replay is asked for then, and the snapshot that attach_pane    *)
(* sends may be taken for the next frame.                                  *)
(***************************************************************************)
Undisturbed == ~hurried /\ ~outlived

(***************************************************************************)
(* The terminal shows the output of the pane, every byte once and in       *)
(* order, whatever is dropped, parked, or sent twice as snapshot and as    *)
(* frame, and whether snapshot or frame comes first.                       *)
(***************************************************************************)
EveryByteOnce == Undisturbed => ~spoiled

\* Nothing is on its way, and the terminal takes part.
Still ==
    /\ ~hand /\ queue = <<>> /\ attachReq = "none" /\ replay = "none"
    /\ ~lost /\ ~away /\ opened /\ att = "yes" /\ ~parked

(***************************************************************************)
(* When nothing is on its way, a terminal that can be seen shows all that  *)
(* the pane has put out, however output was lost before: the loss of a     *)
(* frame is found out with the next one.  Only the loss of the newest      *)
(* frame goes unnoticed until there is a next one.                         *)
(***************************************************************************)
NothingMissedSilently ==
    (Still /\ ~missed /\ Undisturbed) => attached /\ cursor = pane /\ pending = <<>>

Busy == opened /\ ~away /\ (attachReq # "none" \/ replay # "none" \/ pending # <<>>)

AtRest == ~Busy \/ att = "no"

(***************************************************************************)
(* A terminal that attaches or replays comes to rest, with no frame left   *)
(* waiting in it.                                                          *)
(***************************************************************************)
ComesToRest == Busy ~> (AtRest \/ ~Undisturbed)

(***************************************************************************)
(* Also after a restart of the daemon: the replay after a gap heals        *)
(* the terminal ("resubscribes and replaces the pane when a live output    *)
(* sequence has a gap", terminalReplay.test.ts:58).                        *)
(***************************************************************************)
ReplayHeals == (Busy /\ replay # "none") ~> (AtRest \/ hurried)

=============================================================================
