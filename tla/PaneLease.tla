----------------------------- MODULE PaneLease -----------------------------
(***************************************************************************)
(* The lease by which a phone takes over the geometry of a pane, between   *)
(* the daemon (src-tauri/src/daemon/session.rs), the bridge of each remote *)
(* connection (src-tauri/src/remote/bridge.rs) and the desktop             *)
(* (src/remote/paneLease.ts).                                              *)
(*                                                                         *)
(* A transition of the lease happens under the lock of the daemon state;   *)
(* the thread that made it sends the events of the lease and the reply     *)
(* after it has given the lock back.  Each thread therefore has a list of  *)
(* messages it has still to send, and the messages of two threads may      *)
(* reach a client in either order.                                         *)
(*                                                                         *)
(* One pane is enough: leases of different panes share only the counter of *)
(* revisions.  Time is left out but for the deadline of the lease: a lease *)
(* is live until its deadline passes.  PTY resizes succeed.  PaneResized   *)
(* is left out: it only tells a client to redraw, or to ask again.         *)
(***************************************************************************)
EXTENDS Integers, Sequences

CONSTANTS
    Conns,       \* connections of remote clients
    PhoneSizes,  \* geometries that phones ask for
    DeskSizes,   \* geometries that the desktop asks for
    NoSize,      \* the geometry of a pane that does not exist
    NoConn,      \* the owner when there is no lease
    MaxToken,    \* bound: revisions that something still refers to
    MaxSending,  \* bound: threads between a transition and its last message
    MaxPending   \* bound: events a bridge has not handled when it asks for something

ASSUME SizesAssumption ==
    /\ PhoneSizes \cap DeskSizes = {}
    /\ NoSize \notin PhoneSizes \cup DeskSizes
    /\ NoConn \notin Conns \cup {"desktop"}
    /\ Conns \cap {"desktop", "sweep", "reader"} = {}

ASSUME LimitsAssumption ==
    {MaxToken, MaxSending, MaxPending} \subseteq Nat

Sizes == PhoneSizes \cup DeskSizes

(***************************************************************************)
(* A revision comes from a counter that never repeats, over all claims and *)
(* updates, and is only compared for equality: lease id and revision of a  *)
(* request match those of the lease exactly when the revisions do.  Here   *)
(* it is a token, used again once nothing refers to it any more.  0 is no  *)
(* lease.                                                                  *)
(***************************************************************************)
Tokens == 1 .. MaxToken

NoLease ==
    [rev |-> 0, owner |-> NoConn, same |-> FALSE, live |-> FALSE, original |-> NoSize]

\* "same": the pane still has the generation that was leased.
Leases ==
    [rev : Tokens, owner : Conns, same : BOOLEAN, live : BOOLEAN, original : Sizes]

\* A thread per connection, the desktop's, the expiry sweep, and the reader
\* of the pane.
Threads == Conns \cup {"desktop", "sweep", "reader"}

VARIABLES
    pane,      \* geometry of the pane, NoSize when there is none
    lease,     \* pane_leases[pane]
    sending,   \* messages a thread has made and not yet sent
    turn,      \* threads with messages to send, in the order of their transitions
    link,      \* remote connections: up, closing (the bridge has gone) or down
    proj,      \* RemoteLeaseProjection of a bridge: the revision it knows, or 0
    inbox,     \* events in the queue of a bridge, as revisions
    cover,     \* the desktop shows the pane as taken by a phone
    chosen,    \* history: the geometry the desktop has last set
    late,      \* history: it did so when a lease had expired and was still there
    crossed    \* history: a message has overtaken one of an earlier transition

daemonVars == <<pane, lease, chosen, late>>
bridgeVars == <<link, proj, inbox>>
vars == <<pane, lease, sending, turn, link, proj, inbox, cover, chosen, late, crossed>>

Init ==
    /\ pane \in DeskSizes
    /\ lease = NoLease
    /\ sending = [t \in Threads |-> <<>>]
    /\ turn = <<>>
    /\ link = [c \in Conns |-> "down"]
    /\ proj = [c \in Conns |-> 0]
    /\ inbox = [c \in Conns |-> <<>>]
    /\ cover = FALSE
    /\ chosen = pane
    /\ late = FALSE
    /\ crossed = FALSE

----------------------------------------------------------------------------
(***************************************************************************)
(* An event goes to every client; a bridge ignores those of another owner. *)
(* The event of a lease that has ended has revision 0.  "reply": the reply *)
(* to the owner follows, and tells it the same as the event does.          *)
(***************************************************************************)
Event(owner, rev, reply) == [to |-> owner, rev |-> rev, reply |-> reply]

RevsIn(s) == {s[i].rev : i \in 1 .. Len(s)}

UsedTokens ==
    {lease.rev} \cup UNION {RevsIn(sending[t]) : t \in Threads}
        \cup UNION {{inbox[c][i] : i \in 1 .. Len(inbox[c])} \cup {proj[c]} : c \in Conns}

FreeTokens == Tokens \ UsedTokens

\* take_pane_lease_revision
Fresh == CHOOSE r \in FreeTokens : \A s \in FreeTokens : r <= s

\* Thread t leaves the lock with messages to send.
Queue(t, messages) ==
    /\ messages # <<>> => Len(turn) < MaxSending
    /\ sending' = [sending EXCEPT ![t] = messages]
    /\ turn' = IF messages = <<>> THEN turn ELSE Append(turn, t)

Idle(t) == sending[t] = <<>>

(***************************************************************************)
(* finish_remote_pane_lease: the geometry goes back only to the pane that  *)
(* was leased; one that is gone or has been replaced keeps its own.        *)
(***************************************************************************)
Restored == IF pane # NoSize /\ lease.same THEN lease.original ELSE pane

EndNews(reply) == IF lease = NoLease THEN <<>> ELSE <<Event(lease.owner, 0, reply)>>

\* Thread t ends the lease.
Finish(t, reply) ==
    /\ pane' = Restored
    /\ lease' = NoLease
    /\ Queue(t, EndNews(reply))
    /\ UNCHANGED <<chosen, late>>

Matches(c) == lease.owner = c /\ lease.rev = proj[c]

----------------------------------------------------------------------------
(***************************************************************************)
(* Requests of a bridge.  A bridge waits for the reply to each request and *)
(* handles nothing else meanwhile (request_reply defers the events that    *)
(* come before the reply), so its projection at the moment the daemon      *)
(* handles the request is the one it has sent, and a reply that no event   *)
(* goes before is handled at once.                                         *)
(***************************************************************************)
Asks(c) ==
    /\ link[c] = "up" /\ Idle(c) /\ Len(inbox[c]) <= MaxPending
    /\ UNCHANGED <<cover, crossed>>

\* A refusal leaves the daemon as it is.
Refuse == UNCHANGED <<daemonVars, sending, turn, inbox>>

\* It leaves the projection alone, or makes the bridge forget the lease, or
\* is an error, which ends the connection.
Keep    == Refuse /\ UNCHANGED <<link, proj>>
Drop(c) == Refuse /\ proj' = [proj EXCEPT ![c] = 0] /\ UNCHANGED link
Close(c) ==
    /\ link' = [link EXCEPT ![c] = "closing"]
    /\ proj' = [proj EXCEPT ![c] = 0]
    /\ inbox' = [inbox EXCEPT ![c] = <<>>]
    /\ UNCHANGED <<daemonVars, sending, turn>>

\* The lease is as given now; its owner is told of the news and gets the reply.
Grant(c, new, size, news) ==
    /\ lease' = new
    /\ pane' = size
    /\ Queue(c, news \o <<Event(c, new.rev, TRUE)>>)
    /\ UNCHANGED <<chosen, late, bridgeVars>>

\* Mutant of ClaimNew: nobody looks whether the pane is there.
ClaimNewAnyPane(c, size) ==
    /\ ~lease.live /\ FreeTokens # {}
    /\ Grant(c, [rev |-> Fresh, owner |-> c, same |-> TRUE, live |-> TRUE,
                 original |-> Restored], size, EndNews(FALSE))

(***************************************************************************)
(* claim_or_update_remote_pane_lease without a lease in the way: an        *)
(* expired one is finished first, and the original geometry is the one the *)
(* pane has after that.                                                    *)
(***************************************************************************)
ClaimNew(c, size) ==
    /\ pane # NoSize /\ ~lease.live /\ FreeTokens # {}
    /\ Grant(c, [rev |-> Fresh, owner |-> c, same |-> TRUE, live |-> TRUE,
                 original |-> Restored], size, EndNews(FALSE))

\* Mutant of Update: the original geometry is read again.
UpdateForgets(c, size) ==
    /\ pane # NoSize /\ lease.live /\ FreeTokens # {}
    /\ Matches(c) /\ lease.same
    /\ Grant(c, [lease EXCEPT !.rev = Fresh, !.original = pane], size, <<>>)

\* The owner asks for another geometry, under a new revision.
Update(c, size) ==
    /\ pane # NoSize /\ lease.live /\ FreeTokens # {}
    /\ Matches(c) /\ lease.same
    /\ Grant(c, [lease EXCEPT !.rev = Fresh], size, <<>>)

ClaimRefused(c) ==
    \/ pane = NoSize /\ Close(c)
    \/ pane # NoSize /\ lease.live /\ ~(Matches(c) /\ lease.same) /\ Keep

Claim(c, size) ==
    /\ Asks(c)
    /\ ClaimNew(c, size) \/ Update(c, size) \/ ClaimRefused(c)

\* Mutant of Renewed: the generation of the pane is not compared.
RenewedForAnyPane(c) ==
    /\ Matches(c) /\ pane # NoSize /\ FreeTokens # {}
    /\ Grant(c, [lease EXCEPT !.rev = Fresh, !.live = TRUE], pane, <<>>)

(***************************************************************************)
(* renew_remote_pane_lease.  The deadline is not looked at: an expired     *)
(* lease that the sweep has not met yet is renewed like any other.         *)
(***************************************************************************)
Renewed(c) ==
    /\ Matches(c) /\ pane # NoSize /\ lease.same /\ FreeTokens # {}
    /\ Grant(c, [lease EXCEPT !.rev = Fresh, !.live = TRUE], pane, <<>>)

\* Mutant of RenewRefused: a stale renewal leaves the projection as it is.
RenewRefusedKeeps(c) ==
    \/ ~Matches(c) /\ Keep
    \/ Matches(c) /\ pane = NoSize /\ Close(c)
    \/ Matches(c) /\ pane # NoSize /\ ~lease.same /\ Drop(c)

RenewRefused(c) ==
    \/ ~Matches(c) /\ Drop(c)
    \/ Matches(c) /\ pane = NoSize /\ Close(c)
    \/ Matches(c) /\ pane # NoSize /\ ~lease.same /\ Drop(c)

\* renew_remote_leases, every five seconds.
Renew(c) ==
    /\ proj[c] # 0
    /\ Asks(c)
    /\ Renewed(c) \/ RenewRefused(c)

\* release_remote_pane_lease
Release(c) ==
    /\ proj[c] # 0
    /\ Asks(c)
    /\ \/ Matches(c) /\ Finish(c, TRUE) /\ UNCHANGED bridgeVars
       \/ ~Matches(c) /\ Drop(c)

\* cleanup_remote_connection_leases, asked for when the phone leaves the
\* workspace.
Detach(c) ==
    /\ Asks(c)
    /\ \/ lease.owner = c /\ Finish(c, TRUE) /\ UNCHANGED bridgeVars
       \/ lease.owner # c /\ Drop(c)

\* authorize_pane_command for the input of a phone.  A request that is
\* refused ends the connection, one that is allowed changes nothing here.
WriteRefused(c) ==
    /\ Asks(c)
    /\ \/ pane = NoSize
       \/ lease.live /\ ~(Matches(c) /\ lease.same)
       \/ ~lease.live /\ proj[c] # 0
    /\ Close(c)

----------------------------------------------------------------------------
(***************************************************************************)
(* The bridge: run_legacy_connection.                                      *)
(***************************************************************************)
\* apply_lease_event; neither the lease nor its revision is compared.
ReceiveEvent(c) ==
    /\ link[c] = "up" /\ Idle(c) /\ inbox[c] # <<>>
    /\ proj' = [proj EXCEPT ![c] = Head(inbox[c])]
    /\ inbox' = [inbox EXCEPT ![c] = Tail(@)]
    /\ UNCHANGED <<daemonVars, sending, turn, link, cover, crossed>>

\* The bridge of a phone that goes away drops its connection to the daemon.
BridgeCloses(c) ==
    /\ link[c] = "up"
    /\ Close(c)
    /\ UNCHANGED <<cover, crossed>>

\* The end of handle_connection in the daemon.
Disconnect(c) ==
    /\ link[c] = "closing" /\ Idle(c)
    /\ link' = [link EXCEPT ![c] = "down"]
    /\ \/ lease.owner = c /\ Finish(c, FALSE)
       \/ lease.owner # c /\ UNCHANGED <<daemonVars, sending, turn>>
    /\ UNCHANGED <<proj, inbox, cover, crossed>>

\* A new connection has a new id.  The name is free again when nothing that
\* still refers to the old one is on its way.
Connect(c) ==
    /\ link[c] = "down" /\ Idle(c)
    /\ \A t \in Threads : \A i \in 1 .. Len(sending[t]) : sending[t][i].to # c
    /\ link' = [link EXCEPT ![c] = "up"]
    /\ UNCHANGED <<daemonVars, sending, turn, proj, inbox, cover, crossed>>

----------------------------------------------------------------------------
\* The deadline of the lease passes.
Deadline ==
    /\ lease.live
    /\ lease' = [lease EXCEPT !.live = FALSE]
    /\ UNCHANGED <<pane, chosen, late, sending, turn, bridgeVars, cover, crossed>>

\* expire_remote_pane_leases, called by a thread of its own every second.
Sweep ==
    /\ Idle("sweep") /\ lease # NoLease /\ ~lease.live
    /\ Finish("sweep", FALSE)
    /\ UNCHANGED <<bridgeVars, cover, crossed>>

\* Mutant of PaneEnds: nobody is told that the lease has ended.
PaneEndsSilently ==
    /\ Idle("reader") /\ pane # NoSize
    /\ pane' = NoSize
    /\ lease' = NoLease
    /\ UNCHANGED <<sending, turn, chosen, late, bridgeVars, cover, crossed>>

(***************************************************************************)
(* The process of the pane ends (mark_exited_for_generation, by its        *)
(* reader), or a client closes it (ClosePane, by the thread of that        *)
(* client): pane and lease go together.  One thread stands for both.       *)
(* The PaneExited that the reader sends before the event is left out: it   *)
(* makes a bridge forget its lease like the event, but also a bridge that  *)
(* has got a lease on the next pane meanwhile, if it comes so late.        *)
(***************************************************************************)
PaneEnds ==
    /\ Idle("reader") /\ pane # NoSize
    /\ pane' = NoSize
    /\ lease' = NoLease
    /\ Queue("reader", EndNews(FALSE))
    /\ UNCHANGED <<chosen, late, bridgeVars, cover, crossed>>

\* cancel_pane_spawn closes the pane, and its lease stays.
CancelPaneSpawn ==
    /\ Idle("desktop") /\ pane # NoSize
    /\ pane' = NoSize
    /\ lease' = [lease EXCEPT !.same = FALSE]
    /\ UNCHANGED <<chosen, late, sending, turn, bridgeVars, cover, crossed>>

\* insert_pane_or_recover: a pane of this id, in a generation of its own.
SpawnPane(size) ==
    /\ Idle("desktop")
    /\ pane' = size
    /\ chosen' = size
    /\ late' = FALSE
    /\ lease' = [lease EXCEPT !.same = FALSE]
    /\ UNCHANGED <<sending, turn, bridgeVars, cover, crossed>>

----------------------------------------------------------------------------
(***************************************************************************)
(* The desktop.  resize_pane_authorized rejects it while a lease is live.  *)
(***************************************************************************)
DesktopResizes(size) ==
    /\ Idle("desktop") /\ ~cover /\ pane # NoSize /\ ~lease.live
    /\ pane' = size
    /\ chosen' = size
    /\ late' = (lease # NoLease /\ lease.same)
    /\ UNCHANGED <<lease, sending, turn, bridgeVars, cover, crossed>>

\* The person at the desktop takes the pane back
\* (admin_reclaim_remote_pane_lease).  A reply that is an error changes
\* nothing, and the other one tells the desktop what the event before it has
\* told it: that it may come after the event of the next lease is left out.
Reclaim ==
    /\ Idle("desktop") /\ cover /\ lease # NoLease
    /\ Finish("desktop", FALSE)
    /\ UNCHANGED <<bridgeVars, cover, crossed>>

----------------------------------------------------------------------------
(***************************************************************************)
(* Thread t sends its next message (broadcast_pane_lease_event), with the  *)
(* reply to the bridge after it.  That handles the reply as soon as it is  *)
(* there, before the event (send_pane_lease_transition, request_reply).    *)
(* The desktop applies events in order (applyRemotePaneLeaseEvent), and    *)
(* what it asks for on an old view is refused: that it lags behind its     *)
(* queue is left out.  A bridge empties its queue at any time, also while  *)
(* it waits (its control channel has no bound): nothing blocks a sender.   *)
(***************************************************************************)
Covers(m) == m.rev # 0   \* applyRemotePaneLeaseEvent

Send(t) ==
    /\ ~Idle(t)
    /\ LET m == Head(sending[t]) IN
       /\ cover' = Covers(m)
       /\ inbox' = IF link[m.to] = "up" THEN [inbox EXCEPT ![m.to] = Append(@, m.rev)]
                                       ELSE inbox
       /\ proj' = IF m.reply /\ link[m.to] = "up" THEN [proj EXCEPT ![m.to] = m.rev]
                                                 ELSE proj
    /\ sending' = [sending EXCEPT ![t] = Tail(@)]
    /\ IF Len(sending[t]) = 1
       THEN \E p \in 1 .. Len(turn) :
               turn[p] = t /\ turn' = SubSeq(turn, 1, p - 1) \o SubSeq(turn, p + 1, Len(turn))
       ELSE turn' = turn
    /\ crossed' = (crossed \/ Head(turn) # t)
    /\ UNCHANGED <<daemonVars, link>>

Next ==
    \/ \E c \in Conns :
          \/ \E size \in PhoneSizes : Claim(c, size)
          \/ Renew(c) \/ Release(c) \/ Detach(c) \/ WriteRefused(c)
          \/ ReceiveEvent(c) \/ BridgeCloses(c) \/ Disconnect(c) \/ Connect(c)
    \/ Deadline \/ Sweep \/ PaneEnds \/ CancelPaneSpawn \/ Reclaim
    \/ \E size \in DeskSizes : SpawnPane(size) \/ DesktopResizes(size)
    \/ \E t \in Threads : Send(t)

(***************************************************************************)
(* Threads and clients go on.  A deadline passes when the lease keeps its  *)
(* revision: a renewal moves it.  The bridge renews every five seconds,    *)
(* whatever else its phone asks for.                                       *)
(***************************************************************************)
Fairness ==
    /\ \A t \in Threads : WF_vars(Send(t))
    /\ \A r \in Tokens : WF_vars(Deadline /\ lease.rev = r)
    /\ WF_vars(Sweep)
    /\ \A c \in Conns : SF_vars(Renew(c)) /\ WF_vars(ReceiveEvent(c)) /\ WF_vars(Disconnect(c))

Spec == Init /\ [][Next]_vars /\ Fairness

----------------------------------------------------------------------------
Messages ==
    [to : Conns, rev : Tokens \cup {0}, reply : BOOLEAN]

(***************************************************************************)
(* Types, and that the threads with messages to send are those that have a *)
(* place in the order of transitions.                                      *)
(***************************************************************************)
TypeOK ==
    /\ pane \in Sizes \cup {NoSize}
    /\ lease \in Leases \cup {NoLease}
    /\ \A t \in Threads : sending[t] \in Seq(Messages)
    /\ turn \in Seq(Threads)
    /\ \A t \in Threads : Idle(t) <=> \A i \in 1 .. Len(turn) : turn[i] # t
    /\ link \in [Conns -> {"up", "closing", "down"}]
    /\ proj \in [Conns -> Tokens \cup {0}]
    /\ \A c \in Conns : inbox[c] \in Seq(Tokens \cup {0})
    /\ cover \in BOOLEAN
    /\ chosen \in DeskSizes
    /\ late \in BOOLEAN
    /\ crossed \in BOOLEAN

(***************************************************************************)
(* However a lease ends, and however often its phone asked for another     *)
(* geometry meanwhile, the pane gets back the geometry the desktop chose,  *)
(* and as long as a lease is on it that is the one to go back to.  The     *)
(* exception is a resize by the desktop after the deadline and before the  *)
(* sweep (authorize_pane_command accepts it): the sweep then restores an   *)
(* older geometry over it.                                                 *)
(***************************************************************************)
GeometryComesBack ==
    ~late =>
        /\ lease = NoLease /\ pane # NoSize => pane = chosen
        /\ lease # NoLease /\ lease.same => lease.original = chosen

HeldBy(c) == IF lease.owner = c THEN lease.rev ELSE 0

(***************************************************************************)
(* When nothing is on its way, and no message has overtaken another, every *)
(* client knows the lease: a bridge its own with its revision, unless it   *)
(* has given up a lease on a pane that was closed or replaced; the desktop *)
(* whether the pane is taken.                                              *)
(***************************************************************************)
ClientsKnowTheLease ==
    (turn = <<>> /\ ~crossed) =>
        /\ \A c \in Conns :
              link[c] = "up" /\ inbox[c] = <<>>
                  => proj[c] = HeldBy(c) \/ (proj[c] = 0 /\ ~lease.same)
        /\ cover <=> lease # NoLease

(***************************************************************************)
(* A bridge that is wrong about its lease, also because messages overtook  *)
(* each other, does not stay wrong: its renewal is refused, or the lease   *)
(* that it does not renew expires.                                         *)
(***************************************************************************)
BridgeRecovers ==
    \A c \in Conns :
        (link[c] = "up" /\ proj[c] # HeldBy(c))
            ~> (link[c] # "up" \/ proj[c] = HeldBy(c))

Stray == lease # NoLease /\ (~lease.same \/ link[lease.owner] # "up")

(***************************************************************************)
(* A lease whose phone has gone, or whose pane has been closed or replaced *)
(* behind it, ends: it cannot keep the desktop out for ever.               *)
(***************************************************************************)
StrayLeaseEnds == Stray ~> ~Stray

=============================================================================
