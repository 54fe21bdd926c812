-------------------------- MODULE PaneLeaseProofs --------------------------
(***************************************************************************)
(* The lease of a pane, for any number of connections, geometries and      *)
(* revisions.                                                              *)
(*                                                                         *)
(* The geometry of a leased pane comes back however the messages of the    *)
(* daemon are delayed: the transitions themselves see to it, under the     *)
(* lock of the daemon state.                                               *)
(*                                                                         *)
(* The clients know the lease as long as no message overtakes another.     *)
(* What is still to be sent has an order then, by the place of its thread  *)
(* in turn and its own place in the list of the thread, and the last       *)
(* message for a client says how the lease is: a transition puts its news  *)
(* after all others, and sending takes away the first.                     *)
(***************************************************************************)
EXTENDS PaneLease, SequenceTheorems, WellFoundedInduction, TLAPS

\* The pane and its lease hold what they are declared to hold.
LeaseType ==
    /\ pane \in Sizes \cup {NoSize}
    /\ chosen \in DeskSizes
    /\ late \in BOOLEAN
    /\ lease \in Leases \cup {NoLease}

\* A pane that has taken the place of the leased one has the desktop's
\* geometry: nobody restores another one to it.
ReplacedPaneIsTheDesktops ==
    ~ late /\ lease # NoLease /\ ~ lease.same /\ pane # NoSize => pane = chosen

GeometryInv == LeaseType /\ GeometryComesBack /\ ReplacedPaneIsTheDesktops

----------------------------------------------------------------------------
\* take_pane_lease_revision gives a revision that nothing refers to.
LEMMA FreshIsFree == FreeTokens # {} => Fresh \in FreeTokens
<1> SUFFICES ASSUME FreeTokens # {} PROVE Fresh \in FreeTokens
  OBVIOUS
<1>1. FreeTokens \subseteq Nat
  BY LimitsAssumption DEF FreeTokens, Tokens
<1>2. IsWellFoundedOn(OpToRel(<, Nat), Nat)
  BY NatLessThanWellFounded
<1>3. PICK r \in FreeTokens : \A s \in FreeTokens : ~ (<<s, r>> \in OpToRel(<, Nat))
  BY <1>1, <1>2, WFMin
<1>4. \A s \in FreeTokens : ~ (s < r)
  BY <1>1, <1>3 DEF OpToRel
<1>5. \A s \in FreeTokens : r <= s
  BY <1>1, <1>4
<1>6. QED
  BY <1>5 DEF Fresh

\* An owner is a connection, so that a lease is told from none.
LEMMA LeaseIsOwned ==
    /\ \A new \in Leases : new # NoLease
    /\ NoLease.same = FALSE /\ [NoLease EXCEPT !.same = FALSE] = NoLease
<1>1. \A new \in Leases : new # NoLease
  BY SizesAssumption DEF Leases, NoLease
<1> DEFINE None == [rev : {0}, owner : {NoConn}, same : {FALSE}, live : {FALSE}, original : {NoSize}]
<1>2. NoLease \in None
  BY DEF NoLease
<1>3. \A none \in None : none.same = FALSE /\ [none EXCEPT !.same = FALSE] = none
  OBVIOUS
<1> HIDE DEF None
<1>4. QED
  BY <1>1, <1>2, <1>3

\* What the leases of the past leave behind (finish_remote_pane_lease) is the
\* geometry the desktop chose.
LEMMA RestoredGeometry ==
    ASSUME GeometryInv, ~ late, pane # NoSize
    PROVE  Restored = chosen
BY LeaseIsOwned
   DEF GeometryInv, GeometryComesBack, ReplacedPaneIsTheDesktops, Restored

\* Ending a lease keeps the invariant (release, detach, disconnect, sweep,
\* reclaim).
LEMMA FinishKeeps ==
    ASSUME GeometryInv, NEW t, NEW reply, Finish(t, reply)
    PROVE  GeometryInv'
<1>1. pane' = Restored /\ lease' = NoLease /\ UNCHANGED <<chosen, late>>
  BY DEF Finish
<1>2. Restored \in Sizes \cup {NoSize}
  BY DEF GeometryInv, LeaseType, Restored, Leases, NoLease
<1>3. ~ late /\ pane # NoSize => Restored = chosen
  BY RestoredGeometry
<1>4. pane = NoSize => Restored = NoSize
  BY DEF Restored
<1>5. QED
  BY <1>1, <1>2, <1>3, <1>4
     DEF GeometryInv, LeaseType, GeometryComesBack, ReplacedPaneIsTheDesktops

\* So does granting one that restores the geometry the desktop chose.
LEMMA GrantKeeps ==
    ASSUME GeometryInv, NEW c \in Conns, NEW new \in Leases, NEW size \in Sizes, NEW news,
           Grant(c, new, size, news), new.same, ~ late => new.original = chosen
    PROVE  GeometryInv'
<1>1. lease' = new /\ pane' = size /\ UNCHANGED <<chosen, late>>
  BY DEF Grant
<1>2. new # NoLease
  BY LeaseIsOwned
<1>3. QED
  BY <1>1, <1>2 DEF GeometryInv, LeaseType, GeometryComesBack, ReplacedPaneIsTheDesktops

\* A claim keeps the invariant: an expired lease is finished first, and an
\* update keeps the geometry to go back to.
LEMMA ClaimKeeps ==
    ASSUME GeometryInv, NEW c \in Conns, NEW size \in PhoneSizes, Claim(c, size)
    PROVE  GeometryInv'
<1>1. size \in Sizes
  BY DEF Sizes
<1>2. CASE ClaimNew(c, size)
  <2> DEFINE new == [rev |-> Fresh, owner |-> c, same |-> TRUE, live |-> TRUE,
                     original |-> Restored]
  <2>1. Fresh \in Tokens
    BY <1>2, FreshIsFree DEF ClaimNew, FreeTokens
  <2>2. Restored \in Sizes
    BY <1>2 DEF ClaimNew, GeometryInv, LeaseType, Restored, Leases, NoLease
  <2>3. new \in Leases
    BY <2>1, <2>2 DEF Leases
  <2>4. ~ late => new.original = chosen
    BY <1>2, RestoredGeometry DEF ClaimNew
  <2>5. Grant(c, new, size, EndNews(FALSE)) /\ new.same
    BY <1>2 DEF ClaimNew
  <2> HIDE DEF new
  <2>6. QED
    BY <1>1, <2>3, <2>4, <2>5, GrantKeeps
<1>3. CASE Update(c, size)
  <2> DEFINE new == [lease EXCEPT !.rev = Fresh]
  <2>1. Fresh \in Tokens
    BY <1>3, FreshIsFree DEF Update, FreeTokens
  <2>2. lease \in Leases /\ lease.same
    BY <1>3 DEF Update, GeometryInv, LeaseType, NoLease
  <2>3. new \in Leases /\ new.same /\ new.original = lease.original
    BY <2>1, <2>2 DEF Leases
  <2>4. ~ late => lease.original = chosen
    BY <2>2, LeaseIsOwned DEF GeometryInv, GeometryComesBack
  <2>5. Grant(c, new, size, <<>>)
    BY <1>3 DEF Update
  <2> HIDE DEF new
  <2>6. QED
    BY <1>1, <2>3, <2>4, <2>5, GrantKeeps
<1>4. CASE ClaimRefused(c)
  BY <1>4 DEF ClaimRefused, Close, Keep, Refuse, daemonVars, GeometryInv, LeaseType,
     GeometryComesBack, ReplacedPaneIsTheDesktops
<1>5. QED
  BY <1>2, <1>3, <1>4 DEF Claim

\* A renewal changes neither the geometry nor what to go back to.
LEMMA RenewKeeps ==
    ASSUME GeometryInv, NEW c \in Conns, Renew(c)
    PROVE  GeometryInv'
<1>1. CASE Renewed(c)
  <2> DEFINE new == [lease EXCEPT !.rev = Fresh, !.live = TRUE]
  <2>1. Fresh \in Tokens
    BY <1>1, FreshIsFree DEF Renewed, FreeTokens
  <2>2. lease \in Leases /\ lease.same /\ pane \in Sizes
    BY <1>1 DEF Renewed, GeometryInv, LeaseType, NoLease
  <2>3. new \in Leases /\ new.same /\ new.original = lease.original
    BY <2>1, <2>2 DEF Leases
  <2>4. ~ late => lease.original = chosen
    BY <2>2, LeaseIsOwned DEF GeometryInv, GeometryComesBack
  <2>5. Grant(c, new, pane, <<>>)
    BY <1>1 DEF Renewed
  <2> HIDE DEF new
  <2>6. QED
    BY <2>2, <2>3, <2>4, <2>5, GrantKeeps
<1>2. CASE RenewRefused(c)
  BY <1>2 DEF RenewRefused, Close, Drop, Refuse, daemonVars, GeometryInv, LeaseType,
     GeometryComesBack, ReplacedPaneIsTheDesktops
<1>3. QED
  BY <1>1, <1>2 DEF Renew

----------------------------------------------------------------------------
\* No step of anybody takes the pane away from the desktop's geometry.
LEMMA GeometryKept ==
    ASSUME GeometryInv, [Next]_vars
    PROVE  GeometryInv'
<1> USE DEF GeometryInv
<1>1. ASSUME NEW c \in Conns, NEW size \in PhoneSizes, Claim(c, size)
      PROVE  GeometryInv'
  BY <1>1, ClaimKeeps
<1>2. ASSUME NEW c \in Conns, Renew(c)
      PROVE  GeometryInv'
  BY <1>2, RenewKeeps
<1>3. ASSUME UNCHANGED daemonVars
      PROVE  GeometryInv'
  BY <1>3 DEF daemonVars, LeaseType, GeometryComesBack, ReplacedPaneIsTheDesktops
<1>4. ASSUME NEW c \in Conns, Release(c)
      PROVE  GeometryInv'
  BY <1>3, <1>4, FinishKeeps DEF Release, Drop, Refuse
<1>5. ASSUME NEW c \in Conns, Detach(c)
      PROVE  GeometryInv'
  BY <1>3, <1>5, FinishKeeps DEF Detach, Drop, Refuse
<1>6. ASSUME NEW c \in Conns, WriteRefused(c)
      PROVE  GeometryInv'
  BY <1>3, <1>6 DEF WriteRefused, Close
<1>7. ASSUME NEW c \in Conns, ReceiveEvent(c)
      PROVE  GeometryInv'
  BY <1>3, <1>7 DEF ReceiveEvent
<1>8. ASSUME NEW c \in Conns, BridgeCloses(c)
      PROVE  GeometryInv'
  BY <1>3, <1>8 DEF BridgeCloses, Close
<1>9. ASSUME NEW c \in Conns, Disconnect(c)
      PROVE  GeometryInv'
  BY <1>3, <1>9, FinishKeeps DEF Disconnect
<1>10. ASSUME NEW c \in Conns, Connect(c)
       PROVE  GeometryInv'
  BY <1>3, <1>10 DEF Connect
<1>11. CASE Deadline
  <2>1. lease \in Leases
    BY <1>11 DEF Deadline, LeaseType, NoLease
  <2>2. lease' \in Leases /\ lease'.same = lease.same /\ lease'.original = lease.original
    BY <1>11, <2>1 DEF Deadline, Leases
  <2>3. UNCHANGED <<pane, chosen, late>>
    BY <1>11 DEF Deadline
  <2>4. QED
    BY <2>1, <2>2, <2>3, LeaseIsOwned
       DEF LeaseType, GeometryComesBack, ReplacedPaneIsTheDesktops
<1>12. CASE Sweep
  BY <1>12, FinishKeeps DEF Sweep
<1>13. CASE PaneEnds
  BY <1>13 DEF PaneEnds, LeaseType, GeometryComesBack, ReplacedPaneIsTheDesktops
<1>14. lease' = [lease EXCEPT !.same = FALSE] => lease' \in Leases \cup {NoLease} /\ ~ lease'.same
  BY LeaseIsOwned DEF LeaseType, Leases
<1>15. CASE CancelPaneSpawn
  BY <1>14, <1>15 DEF CancelPaneSpawn, LeaseType, GeometryComesBack, ReplacedPaneIsTheDesktops
<1>16. CASE Reclaim
  BY <1>16, FinishKeeps DEF Reclaim
<1>17. ASSUME NEW size \in DeskSizes, SpawnPane(size)
       PROVE  GeometryInv'
  BY <1>14, <1>17
     DEF SpawnPane, LeaseType, Sizes, GeometryComesBack, ReplacedPaneIsTheDesktops
<1>18. ASSUME NEW size \in DeskSizes, DesktopResizes(size)
       PROVE  GeometryInv'
  BY <1>18
     DEF DesktopResizes, LeaseType, Sizes, GeometryComesBack, ReplacedPaneIsTheDesktops
<1>19. ASSUME NEW t \in Threads, Send(t)
       PROVE  GeometryInv'
  BY <1>3, <1>19 DEF Send
<1>20. CASE UNCHANGED vars
  BY <1>3, <1>20 DEF vars, daemonVars
<1>21. QED
  BY <1>1, <1>2, <1>4, <1>5, <1>6, <1>7, <1>8, <1>9, <1>10, <1>11, <1>12, <1>13, <1>15,
     <1>16, <1>17, <1>18, <1>19, <1>20 DEF Next

\* However a lease ends (finish_remote_pane_lease), the pane it was taken from
\* gets back the geometry the desktop chose, and no other pane does, for every
\* number of phones, claims, updates and replaced panes.
THEOREM GeometryRestored == Spec => []GeometryComesBack
<1>1. Init => GeometryInv
  BY DEF Init, GeometryInv, LeaseType, Sizes, GeometryComesBack, ReplacedPaneIsTheDesktops
<1>2. GeometryInv /\ [Next]_vars => GeometryInv'
  BY GeometryKept
<1>3. GeometryInv => GeometryComesBack
  BY DEF GeometryInv
<1>4. QED
  BY <1>1, <1>2, <1>3, PTL DEF Spec

----------------------------------------------------------------------------
LEMMA ThreadsApart ==
    /\ Conns \subseteq Threads /\ {"desktop", "sweep", "reader"} \subseteq Threads
    /\ NoConn \notin Conns
  BY SizesAssumption DEF Threads

\* No thread is twice in the order of transitions.
Distinct == \A k, l \in 1 .. Len(turn) : turn[k] = turn[l] => k = l

QueuesOK ==
    /\ sending \in [Threads -> Seq(Messages)]
    /\ turn \in Seq(Threads)
    /\ \A t \in Threads : Idle(t) <=> \A i \in 1 .. Len(turn) : turn[i] # t
    /\ Distinct

\* A thread that leaves the lock is the last in the order.
LEMMA QueueStep ==
    ASSUME QueuesOK, NEW t \in Threads, Idle(t), NEW ms \in Seq(Messages), Queue(t, ms)
    PROVE  /\ QueuesOK'
           /\ ms = <<>> => UNCHANGED <<sending, turn>>
           /\ ms # <<>> => turn' = Append(turn, t)
           /\ sending'[t] = ms /\ \A u \in Threads : u # t => sending'[u] = sending[u]
<1>1. /\ sending' = [sending EXCEPT ![t] = ms]
      /\ sending' \in [Threads -> Seq(Messages)]
      /\ sending'[t] = ms /\ \A u \in Threads : u # t => sending'[u] = sending[u]
  BY DEF Queue, QueuesOK
<1>2. CASE ms = <<>>
  <2>1. turn' = turn
    BY <1>2 DEF Queue
  <2>2. sending' = sending
    BY <1>1, <1>2 DEF QueuesOK, Idle
  <2>3. QED
    BY <1>1, <1>2, <2>1, <2>2 DEF QueuesOK, Idle, Distinct
<1>3. CASE ms # <<>>
  <2>1. turn' = Append(turn, t) /\ Len(turn) \in Nat
    BY <1>3 DEF Queue, QueuesOK
  <2>2. /\ turn' \in Seq(Threads) /\ Len(turn') = Len(turn) + 1
        /\ \A i \in 1 .. Len(turn) : turn'[i] = turn[i] /\ turn[i] # t
        /\ turn'[Len(turn) + 1] = t
    BY <2>1 DEF QueuesOK
  <2>3. ASSUME NEW i \in 1 .. Len(turn')
        PROVE  (i \in 1 .. Len(turn) /\ turn'[i] = turn[i]) \/ (i = Len(turn) + 1 /\ turn'[i] = t)
    BY <2>1, <2>2
  <2>4. Distinct'
    BY <2>1, <2>2, <2>3 DEF QueuesOK, Distinct
  <2>5. ASSUME NEW u \in Threads
        PROVE  Idle(u)' <=> \A i \in 1 .. Len(turn') : turn'[i] # u
    <3>1. CASE u = t
      <4>1. ~ Idle(u)'
        BY <1>1, <1>3, <3>1 DEF Idle
      <4>2. Len(turn) + 1 \in 1 .. Len(turn')
        BY <2>1, <2>2
      <4>3. QED
        BY <2>2, <3>1, <4>1, <4>2
    <3>2. CASE u # t
      <4>1. Idle(u)' <=> Idle(u)
        BY <1>1, <3>2 DEF Idle
      <4>2. 1 .. Len(turn) \subseteq 1 .. Len(turn')
        BY <2>1, <2>2
      <4>3. (\A i \in 1 .. Len(turn') : turn'[i] # u) <=> (\A i \in 1 .. Len(turn) : turn[i] # u)
        BY <2>2, <2>3, <3>2, <4>2
      <4>4. QED
        BY <4>1, <4>3 DEF QueuesOK
    <3>3. QED
      BY <3>1, <3>2
  <2>6. QED
    BY <1>1, <1>3, <2>1, <2>2, <2>4, <2>5 DEF QueuesOK
<1>4. QED
  BY <1>2, <1>3

\* A sequence without its p-th member.
Without(s, p) == SubSeq(s, 1, p - 1) \o SubSeq(s, p + 1, Len(s))

LEMMA WithoutIs ==
    ASSUME NEW S, NEW s \in Seq(S), NEW p \in 1 .. Len(s)
    PROVE  /\ Without(s, p) \in Seq(S) /\ Len(Without(s, p)) = Len(s) - 1
           /\ \A i \in 1 .. Len(s) - 1 : Without(s, p)[i] = IF i < p THEN s[i] ELSE s[i + 1]
<1> DEFINE n == Len(s)
           a == SubSeq(s, 1, p - 1)
           b == SubSeq(s, p + 1, n)
<1>1. n \in Nat /\ p \in Nat /\ 1 <= p /\ p <= n /\ n \in Int /\ p - 1 \in Int /\ p + 1 \in Int
  OBVIOUS
<1>2. \A i \in 1 .. n : s[i] \in S
  OBVIOUS
<1>3. /\ a \in Seq(S) /\ Len(a) = IF 1 <= p - 1 THEN p - 1 - 1 + 1 ELSE 0
      /\ \A i \in 1 .. p - 1 - 1 + 1 : a[i] = s[1 + i - 1]
  <2>1. \A i \in 1 .. p - 1 : s[i] \in S
    BY <1>1, <1>2
  <2>2. QED
    BY <1>1, <2>1, SubSeqProperties
<1>4. /\ b \in Seq(S) /\ Len(b) = IF p + 1 <= n THEN n - (p + 1) + 1 ELSE 0
      /\ \A i \in 1 .. n - (p + 1) + 1 : b[i] = s[p + 1 + i - 1]
  <2>1. \A i \in p + 1 .. n : s[i] \in S
    BY <1>1, <1>2
  <2>2. QED
    BY <1>1, <2>1, SubSeqProperties
<1> HIDE DEF n, a, b
<1>5. Len(a) = p - 1 /\ Len(b) = n - p
  BY <1>1, <1>3, <1>4
<1>6. /\ a \o b \in Seq(S) /\ Len(a \o b) = Len(a) + Len(b)
      /\ \A i \in 1 .. Len(a) + Len(b) : (a \o b)[i] = IF i <= Len(a) THEN a[i] ELSE b[i - Len(a)]
  BY <1>3, <1>4, ConcatProperties
<1> DEFINE w == a \o b
<1> HIDE DEF w
<1>7. ASSUME NEW i \in 1 .. n - 1
      PROVE  w[i] = IF i < p THEN s[i] ELSE s[i + 1]
  <2>1. w[i] = IF i <= p - 1 THEN a[i] ELSE b[i - (p - 1)]
    BY <1>1, <1>5, <1>6 DEF w
  <2>2. CASE i < p
    <3>1. i \in 1 .. p - 1 - 1 + 1 /\ 1 + i - 1 = i /\ i <= p - 1
      BY <1>1, <2>2
    <3>2. a[i] = s[i]
      BY <1>3, <3>1
    <3>3. QED
      BY <2>1, <2>2, <3>1, <3>2
  <2>3. CASE ~(i < p)
    <3>1. i - (p - 1) \in 1 .. n - (p + 1) + 1 /\ p + 1 + (i - (p - 1)) - 1 = i + 1 /\ ~(i <= p - 1)
      BY <1>1, <2>3
    <3>2. b[i - (p - 1)] = s[i + 1]
      BY <1>4, <3>1
    <3>3. QED
      BY <2>1, <2>3, <3>1, <3>2
  <2>4. QED
    BY <2>2, <2>3
<1>8. Len(w) = n - 1
  BY <1>1, <1>5, <1>6 DEF w
<1>9. QED
  BY <1>6, <1>7, <1>8 DEF Without, n, a, b, w

\* A thread that has sent its last message leaves the order of the others as it is.
LEMMA SendStep ==
    ASSUME QueuesOK, NEW t \in Threads, Send(t)
    PROVE  /\ QueuesOK'
           /\ sending[t] # <<>> /\ sending'[t] = Tail(sending[t])
           /\ \A u \in Threads : u # t => sending'[u] = sending[u]
           /\ IF Len(sending[t]) = 1
              THEN /\ sending'[t] = <<>>
                   /\ \E p \in 1 .. Len(turn) :
                         /\ turn[p] = t /\ Len(turn') = Len(turn) - 1
                         /\ \A i \in 1 .. Len(turn) - 1 :
                               turn'[i] = IF i < p THEN turn[i] ELSE turn[i + 1]
              ELSE sending'[t] # <<>> /\ turn' = turn
<1>1. /\ sending' = [sending EXCEPT ![t] = Tail(@)]
      /\ sending[t] # <<>> /\ sending[t] \in Seq(Messages)
  BY DEF Send, Idle, QueuesOK
<1>2. /\ Tail(sending[t]) \in Seq(Messages) /\ Len(Tail(sending[t])) = Len(sending[t]) - 1
      /\ Len(sending[t]) \in Nat \ {0}
  BY <1>1, HeadTailProperties, EmptySeq
<1>3. /\ sending' \in [Threads -> Seq(Messages)]
      /\ sending'[t] = Tail(sending[t])
      /\ \A u \in Threads : u # t => sending'[u] = sending[u]
  BY <1>1, <1>2 DEF QueuesOK
<1>4. CASE Len(sending[t]) = 1
  <2>1. sending'[t] = <<>>
    BY <1>2, <1>3, <1>4, EmptySeq
  <2>2. PICK p \in 1 .. Len(turn) : turn[p] = t /\ turn' = Without(turn, p)
    BY <1>4 DEF Send, Without
  <2>3. /\ turn' \in Seq(Threads) /\ Len(turn') = Len(turn) - 1 /\ Len(turn) \in Nat
        /\ \A i \in 1 .. Len(turn) - 1 : turn'[i] = IF i < p THEN turn[i] ELSE turn[i + 1]
    <3>1. turn \in Seq(Threads) /\ Len(turn) \in Nat
      BY DEF QueuesOK
    <3>2. /\ Without(turn, p) \in Seq(Threads) /\ Len(Without(turn, p)) = Len(turn) - 1
          /\ \A i \in 1 .. Len(turn) - 1 :
                Without(turn, p)[i] = IF i < p THEN turn[i] ELSE turn[i + 1]
      BY <3>1, WithoutIs
    <3>3. QED
      BY <2>2, <3>1, <3>2
  <2>4. \A i \in 1 .. Len(turn') :
           \E j \in 1 .. Len(turn) : j # p /\ turn'[i] = turn[j] /\ j = IF i < p THEN i ELSE i + 1
    <3> TAKE i \in 1 .. Len(turn')
    <3>1. CASE i < p
      BY <2>3, <3>1
    <3>2. CASE ~(i < p)
      <4>1. i + 1 \in 1 .. Len(turn) /\ i + 1 # p
        BY <2>3, <3>2
      <4>2. QED
        BY <2>3, <3>2, <4>1
    <3>3. QED
      BY <3>1, <3>2
  <2>5. \A j \in 1 .. Len(turn) : j # p => \E i \in 1 .. Len(turn') : turn'[i] = turn[j]
    <3> SUFFICES ASSUME NEW j \in 1 .. Len(turn), j # p
                 PROVE  \E i \in 1 .. Len(turn') : turn'[i] = turn[j]
      OBVIOUS
    <3>1. CASE j < p
      BY <2>3, <3>1
    <3>2. CASE ~(j < p)
      <4>1. j - 1 \in 1 .. Len(turn') /\ ~(j - 1 < p) /\ j - 1 + 1 = j
        BY <2>3, <3>2
      <4>2. QED
        BY <2>3, <4>1
    <3>3. QED
      BY <3>1, <3>2
  <2>6. Distinct'
    <3> SUFFICES ASSUME NEW k \in 1 .. Len(turn'), NEW l \in 1 .. Len(turn'), turn'[k] = turn'[l]
                 PROVE  k = l
      BY DEF Distinct
    <3>1. PICK i \in 1 .. Len(turn) : turn'[k] = turn[i] /\ i = IF k < p THEN k ELSE k + 1
      BY <2>4
    <3>2. PICK j \in 1 .. Len(turn) : turn'[l] = turn[j] /\ j = IF l < p THEN l ELSE l + 1
      BY <2>4
    <3>3. \A a, b \in 1 .. Len(turn) : turn[a] = turn[b] => a = b
      BY DEF QueuesOK, Distinct
    <3>4. turn[i] = turn[j]
      BY <3>1, <3>2
    <3>5. i = j
      BY <3>3, <3>4
    <3>6. QED
      BY <2>3, <3>1, <3>2, <3>5
  <2>7. ASSUME NEW u \in Threads
        PROVE  Idle(u)' <=> \A i \in 1 .. Len(turn') : turn'[i] # u
    <3>1. CASE u = t
      <4>1. \A j \in 1 .. Len(turn) : j # p => turn[j] # t
        BY <2>2 DEF QueuesOK, Distinct
      <4>2. \A i \in 1 .. Len(turn') : turn'[i] # u
        BY <2>4, <3>1, <4>1
      <4>3. QED
        BY <2>1, <3>1, <4>2 DEF Idle
    <3>2. CASE u # t
      <4>1. Idle(u)' <=> Idle(u)
        BY <1>3, <3>2 DEF Idle
      <4>2. Idle(u) <=> \A j \in 1 .. Len(turn) : turn[j] # u
        BY DEF QueuesOK
      <4>3. ASSUME NEW i \in 1 .. Len(turn'), turn'[i] = u
            PROVE  \E j \in 1 .. Len(turn) : turn[j] = u
        BY <2>4, <4>3
      <4>4. ASSUME NEW j \in 1 .. Len(turn), turn[j] = u
            PROVE  \E i \in 1 .. Len(turn') : turn'[i] = u
        <5>1. j # p
          BY <2>2, <3>2, <4>4
        <5>2. QED
          BY <2>5, <4>4, <5>1
      <4>5. QED
        BY <4>1, <4>2, <4>3, <4>4
    <3>3. QED
      BY <3>1, <3>2
  <2>8. QED
    BY <1>1, <1>3, <1>4, <2>1, <2>2, <2>3, <2>6, <2>7 DEF QueuesOK
<1>5. CASE Len(sending[t]) # 1
  <2>1. turn' = turn
    BY <1>5 DEF Send
  <2> DEFINE left == Tail(sending[t])
  <2>2. sending'[t] # <<>>
    <3>1. Len(left) = Len(sending[t]) - 1 /\ Len(sending[t]) \in Nat
      BY <1>2
    <3> HIDE DEF left
    <3>2. Len(left) # 0
      BY <1>5, <3>1
    <3>3. left # <<>>
      BY <3>2, EmptySeq
    <3>4. QED
      BY <1>3, <3>3 DEF left
  <2>3. \A u \in Threads : Idle(u)' <=> Idle(u)
    BY <1>1, <1>3, <2>2 DEF Idle
  <2>4. QED
    BY <1>1, <1>3, <1>5, <2>1, <2>2, <2>3 DEF QueuesOK, Distinct
<1>6. QED
  BY <1>4, <1>5

----------------------------------------------------------------------------
\* What the k-th thread in the order of transitions has still to send, and
\* its i-th message, if that is for client c.
Sent(k) == sending[turn[k]]

Told(c, k, i) == k \in 1 .. Len(turn) /\ i \in 1 .. Len(Sent(k)) /\ Sent(k)[i].to = c

Untold(c) == \A k \in 1 .. Len(turn) : \A i \in 1 .. Len(Sent(k)) : ~ Told(c, k, i)

\* It is the last one for c.
LastTold(c, k, i) ==
    /\ Told(c, k, i)
    /\ \A l \in 1 .. Len(turn) : \A j \in 1 .. Len(Sent(l)) :
          Told(c, l, j) => (l < k \/ (l = k /\ j <= i))

Newest(s) == s[Len(s)]

\* What the bridge of c knows when it has handled its queue.
Arrived(c) == IF inbox[c] = <<>> THEN proj[c] ELSE Newest(inbox[c])

\* A bridge that knows revision r is right, or has given the lease up.
Settled(c, r) == r = HeldBy(c) \/ (r = 0 /\ ~ lease.same)

BridgeKnows(c) ==
    /\ Untold(c) => Settled(c, Arrived(c))
    /\ \A k \in 1 .. Len(turn) : \A i \in 1 .. Len(Sent(k)) :
          LastTold(c, k, i) => Settled(c, Sent(k)[i].rev)

DesktopKnows ==
    IF turn = <<>> THEN cover <=> lease # NoLease
    ELSE Covers(Newest(Sent(Len(turn)))) <=> lease # NoLease

\* The news ms are the last word to c.
Tells(ms, c, r) ==
    \E n \in 1 .. Len(ms) :
        /\ ms[n].to = c /\ ms[n].rev = r
        /\ \A j \in 1 .. Len(ms) : ms[j].to = c => j <= n

\* A thread that leaves the lock with messages adds them after all others.
LEMMA QueuedLast ==
    ASSUME QueuesOK, NEW t \in Threads, Idle(t), NEW ms \in Seq(Messages), ms # <<>>, Queue(t, ms)
    PROVE  /\ turn' # <<>> /\ Len(turn') = Len(turn) + 1 /\ Len(turn) \in Nat
           /\ \A k : k = Len(turn) + 1 => Sent(k)' = ms
           /\ \A k \in 1 .. Len(turn) : Sent(k)' = Sent(k)
<1>1. /\ turn' = Append(turn, t) /\ sending'[t] = ms
      /\ \A u \in Threads : u # t => sending'[u] = sending[u]
  BY QueueStep
<1>2. /\ turn \in Seq(Threads) /\ Len(turn) \in Nat
      /\ \A k \in 1 .. Len(turn) : turn[k] # t /\ turn[k] \in Threads
  BY DEF QueuesOK
<1>3. /\ turn' # <<>> /\ Len(turn') = Len(turn) + 1 /\ turn'[Len(turn) + 1] = t
      /\ \A k \in 1 .. Len(turn) : turn'[k] = turn[k]
  BY <1>1, <1>2, AppendProperties
<1>4. QED
  BY <1>1, <1>2, <1>3 DEF Sent

\* A client that the news are for learns from them; one that they are not for
\* goes on being right.
LEMMA NewsReach ==
    ASSUME QueuesOK, NEW t \in Threads, Idle(t), NEW ms \in Seq(Messages), ms # <<>>, Queue(t, ms),
           NEW c,
           \/ \E r : Tells(ms, c, r) /\ Settled(c, r)'
           \/ /\ BridgeKnows(c) /\ UNCHANGED <<proj, inbox>>
              /\ \A j \in 1 .. Len(ms) : ms[j].to # c
              /\ \A r : Settled(c, r) => Settled(c, r)'
    PROVE  BridgeKnows(c)'
<1>n. PICK n : n = Len(turn)
  OBVIOUS
<1>o. PICK o : o = n + 1
  OBVIOUS
<1>1. /\ Len(turn') = n + 1 /\ Len(turn) = n /\ n \in Nat /\ o = n + 1 /\ o \in Nat
      /\ Sent(o)' = ms
      /\ \A k \in 1 .. n : Sent(k)' = Sent(k)
  BY <1>n, <1>o, QueuedLast
<1>2. \A k : k \in 1 .. n + 1 <=> k \in 1 .. n \/ k = o
  BY <1>1
<1>3. ASSUME NEW k, NEW i
      PROVE  Told(c, k, i)' <=> \/ Told(c, k, i)
                                \/ (k = o /\ i \in 1 .. Len(ms) /\ ms[i].to = c)
  <2>1. CASE k \in 1 .. n
    <3>1. k # o /\ k \in 1 .. n + 1
      BY <1>1, <2>1
    <3>2. QED
      BY <1>1, <2>1, <3>1 DEF Told
  <2>2. CASE k \notin 1 .. n
    <3>1. ~ Told(c, k, i)
      BY <1>n, <2>2 DEF Told
    <3>2. k \in 1 .. Len(turn') <=> k = o
      BY <1>1, <1>2, <2>2
    <3>3. QED
      BY <1>1, <3>1, <3>2 DEF Told
  <2>3. QED
    BY <2>1, <2>2
<1>4. CASE \E r : Tells(ms, c, r) /\ Settled(c, r)'
  <2>1. PICK r : Tells(ms, c, r) /\ Settled(c, r)'
    BY <1>4
  <2>2. PICK m \in 1 .. Len(ms) : /\ ms[m].to = c /\ ms[m].rev = r
                                  /\ \A j \in 1 .. Len(ms) : ms[j].to = c => j <= m
    BY <2>1 DEF Tells
  <2>3. Told(c, o, m)' /\ o \in 1 .. Len(turn') /\ m \in 1 .. Len(Sent(o)')
    BY <1>1, <1>2, <1>3, <2>2
  <2>4. ~ Untold(c)'
    BY <2>3 DEF Untold
  <2>5. ASSUME NEW k \in 1 .. Len(turn'), NEW i \in 1 .. Len(Sent(k)'), LastTold(c, k, i)'
        PROVE  Settled(c, Sent(k)[i].rev)'
    <3>1. o < k \/ (o = k /\ m <= i)
      BY <2>3, <2>5 DEF LastTold
    <3>2. k = o /\ m <= i
      BY <1>1, <3>1
    <3>3. i \in 1 .. Len(ms) /\ ms[i].to = c
      BY <1>1, <2>5, <3>2 DEF LastTold, Told
    <3>4. i = m
      BY <2>2, <3>2, <3>3
    <3>5. Sent(k)'[i].rev = r
      BY <1>1, <2>2, <3>2, <3>4
    <3>6. QED
      BY <2>1, <3>5
  <2>6. QED
    BY <2>4, <2>5 DEF BridgeKnows
<1>5. CASE /\ BridgeKnows(c) /\ UNCHANGED <<proj, inbox>>
           /\ \A j \in 1 .. Len(ms) : ms[j].to # c
           /\ \A r : Settled(c, r) => Settled(c, r)'
  <2>1. \A k, i : Told(c, k, i)' <=> Told(c, k, i)
    BY <1>3, <1>5
  <2>2. \A k, i : Told(c, k, i) => k \in 1 .. n /\ i \in 1 .. Len(Sent(k)) /\ Sent(k)' = Sent(k)
    BY <1>1 DEF Told
  <2>3. Untold(c)' => Settled(c, Arrived(c))'
    <3>1. ASSUME Untold(c)' PROVE Untold(c)
      <4>1. ASSUME NEW k \in 1 .. n, NEW i \in 1 .. Len(Sent(k)), Told(c, k, i)
            PROVE  FALSE
        BY <1>1, <1>2, <2>1, <3>1, <4>1 DEF Untold
      <4>2. QED
        BY <1>n, <4>1 DEF Untold
    <3>2. Arrived(c)' = Arrived(c)
      BY <1>5 DEF Arrived
    <3>3. QED
      BY <1>5, <3>1, <3>2 DEF BridgeKnows
  <2>4. ASSUME NEW k \in 1 .. Len(turn'), NEW i \in 1 .. Len(Sent(k)'), LastTold(c, k, i)'
        PROVE  Settled(c, Sent(k)[i].rev)'
    <3>1. Told(c, k, i)
      BY <2>1, <2>4 DEF LastTold
    <3>2. k \in 1 .. n /\ i \in 1 .. Len(Sent(k)) /\ Sent(k)' = Sent(k)
      BY <2>2, <3>1
    <3>3. LastTold(c, k, i)
      <4>1. ASSUME NEW l \in 1 .. n, NEW j \in 1 .. Len(Sent(l)), Told(c, l, j)
            PROVE  l < k \/ (l = k /\ j <= i)
        BY <1>1, <1>2, <2>1, <2>4, <4>1 DEF LastTold
      <4>2. QED
        BY <1>n, <3>1, <4>1 DEF LastTold
    <3>4. QED
      BY <1>5, <1>n, <3>2, <3>3 DEF BridgeKnows
  <2>5. QED
    BY <2>3, <2>4 DEF BridgeKnows
<1>6. QED
  BY <1>4, <1>5

\* The thread that is first in order sends the first message of all.
LEMMA SentFirst ==
    ASSUME QueuesOK, NEW t \in Threads, Send(t), turn # <<>>, Head(turn) = t
    PROVE  /\ 1 \in 1 .. Len(turn) /\ 1 \in 1 .. Len(Sent(1)) /\ Sent(1) = sending[t]
           /\ Len(turn) \in Nat /\ \A k \in 1 .. Len(turn) : Sent(k) \in Seq(Messages)
           /\ IF Len(Sent(1)) = 1
              THEN /\ Len(turn') = Len(turn) - 1
                   /\ \A k \in 1 .. Len(turn') : Sent(k)' = Sent(k + 1)
              ELSE /\ turn' = turn /\ Len(Sent(1)') = Len(Sent(1)) - 1
                   /\ \A i \in 1 .. Len(Sent(1)') : Sent(1)'[i] = Sent(1)[i + 1]
                   /\ \A k \in 1 .. Len(turn) : k # 1 => Sent(k)' = Sent(k)
<1>1. /\ turn \in Seq(Threads) /\ Len(turn) \in Nat
      /\ \A k \in 1 .. Len(turn) : turn[k] \in Threads
      /\ sending \in [Threads -> Seq(Messages)]
  BY DEF QueuesOK
<1>2. 1 \in 1 .. Len(turn) /\ turn[1] = t
  BY <1>1, HeadTailProperties, EmptySeq
<1>3. Sent(1) = sending[t] /\ \A k \in 1 .. Len(turn) : Sent(k) \in Seq(Messages)
  BY <1>1, <1>2 DEF Sent
<1>4. \A k \in 1 .. Len(turn) : k # 1 => turn[k] # t
  BY <1>2 DEF QueuesOK, Distinct
<1>5. sending[t] # <<>> /\ sending[t] \in Seq(Messages) /\ sending'[t] = Tail(sending[t])
  BY <1>1, SendStep
<1>6. \A u \in Threads : u # t => sending'[u] = sending[u]
  BY SendStep
<1>7. Len(sending[t]) \in Nat /\ 1 \in 1 .. Len(sending[t])
  BY <1>5, EmptySeq
<1>8. CASE Len(sending[t]) = 1
  <2>1. PICK p \in 1 .. Len(turn) :
           /\ turn[p] = t /\ Len(turn') = Len(turn) - 1
           /\ \A i \in 1 .. Len(turn) - 1 : turn'[i] = IF i < p THEN turn[i] ELSE turn[i + 1]
    BY <1>8, SendStep
  <2>2. p = 1
    BY <1>4, <2>1
  <2>3. \A i \in 1 .. Len(turn') : turn'[i] = turn[i + 1] /\ i + 1 \in 1 .. Len(turn) /\ i + 1 # 1
    BY <1>1, <2>1, <2>2
  <2>4. ASSUME NEW k \in 1 .. Len(turn') PROVE Sent(k)' = Sent(k + 1)
    BY <1>1, <1>4, <1>6, <2>3 DEF Sent
  <2>5. QED
    BY <1>1, <1>2, <1>3, <1>7, <1>8, <2>1, <2>4
<1>9. CASE Len(sending[t]) # 1
  <2>1. turn' = turn
    BY <1>9, SendStep
  <2>2. Sent(1)' = Tail(sending[t])
    BY <1>2, <1>5, <2>1 DEF Sent
  <2>3. /\ Len(Tail(sending[t])) = Len(sending[t]) - 1
        /\ \A i \in 1 .. Len(Tail(sending[t])) : Tail(sending[t])[i] = sending[t][i + 1]
    BY <1>5, HeadTailProperties
  <2>4. \A k \in 1 .. Len(turn) : k # 1 => Sent(k)' = Sent(k)
    BY <1>1, <1>4, <1>6, <2>1 DEF Sent
  <2>5. QED
    BY <1>1, <1>2, <1>3, <1>7, <1>9, <2>1, <2>2, <2>3, <2>4
<1>10. QED
  BY <1>8, <1>9

\* What is still to be sent after that was to be sent before, in the same order.
LEMMA LastStaysLast ==
    ASSUME QueuesOK, NEW t \in Threads, Send(t), turn # <<>>, Head(turn) = t,
           NEW c, NEW k \in 1 .. Len(turn'), NEW i \in 1 .. Len(Sent(k)')
    PROVE  \E k0 \in 1 .. Len(turn) : \E i0 \in 1 .. Len(Sent(k0)) :
              /\ Sent(k)'[i] = Sent(k0)[i0]
              /\ LastTold(c, k, i)' => LastTold(c, k0, i0)
              /\ Untold(c)' => ~ Told(c, k0, i0)
<1>1. CASE Len(Sent(1)) = 1
  <2>1. /\ Len(turn') = Len(turn) - 1 /\ Len(turn) \in Nat
        /\ \A l \in 1 .. Len(turn') : Sent(l)' = Sent(l + 1)
    BY <1>1, SentFirst
  <2>2. k + 1 \in 1 .. Len(turn) /\ i \in 1 .. Len(Sent(k + 1)) /\ Sent(k)'[i] = Sent(k + 1)[i]
    BY <2>1
  <2>3. \A l \in 1 .. Len(turn') : \A j : Told(c, l, j)' <=> Told(c, l + 1, j)
    <3> TAKE l \in 1 .. Len(turn')
    <3>1. l + 1 \in 1 .. Len(turn) /\ Sent(l)' = Sent(l + 1)
      BY <2>1
    <3>2. QED
      BY <3>1 DEF Told
  <2>4. ASSUME LastTold(c, k, i)' PROVE LastTold(c, k + 1, i)
    <3>1. Told(c, k + 1, i)
      BY <2>3, <2>4 DEF LastTold
    <3>2. ASSUME NEW l \in 1 .. Len(turn), NEW j \in 1 .. Len(Sent(l)), Told(c, l, j)
          PROVE  l < k + 1 \/ (l = k + 1 /\ j <= i)
      <4>1. CASE l = 1
        BY <4>1
      <4>2. CASE l # 1
        <5>1. PICK m \in 1 .. Len(turn') : m + 1 = l
          <6>1. l - 1 \in 1 .. Len(turn') /\ l - 1 + 1 = l
            BY <2>1, <4>2
          <6>2. QED
            BY <6>1
        <5>2. Told(c, m, j)' /\ j \in 1 .. Len(Sent(m)')
          BY <2>1, <2>3, <3>2, <5>1
        <5>3. m < k \/ (m = k /\ j <= i)
          BY <2>4, <5>2 DEF LastTold
        <5>4. QED
          BY <5>1, <5>3
      <4>3. QED
        BY <4>1, <4>2
    <3>3. QED
      BY <3>1, <3>2 DEF LastTold
  <2>5. Untold(c)' => ~ Told(c, k + 1, i)
    BY <2>1, <2>3 DEF Untold
  <2>6. QED
    BY <2>2, <2>4, <2>5
<1>2. CASE Len(Sent(1)) # 1
  <2>1. /\ turn' = turn /\ Len(Sent(1)') = Len(Sent(1)) - 1 /\ Len(Sent(1)) \in Nat
        /\ \A j \in 1 .. Len(Sent(1)') : Sent(1)'[j] = Sent(1)[j + 1]
        /\ \A l \in 1 .. Len(turn) : l # 1 => Sent(l)' = Sent(l)
        /\ 1 \in 1 .. Len(turn) /\ Len(turn) \in Nat
    BY <1>2, SentFirst
  <2>2. PICK i0 : i0 = IF k = 1 THEN i + 1 ELSE i
    OBVIOUS
  <2>3. k \in 1 .. Len(turn) /\ i0 \in 1 .. Len(Sent(k)) /\ Sent(k)'[i] = Sent(k)[i0]
    <3>1. CASE k = 1
      BY <2>1, <2>2, <3>1
    <3>2. CASE k # 1
      BY <2>1, <2>2, <3>2
    <3>3. QED
      BY <3>1, <3>2
  <2>4. \A l, j : l # 1 => (Told(c, l, j)' <=> Told(c, l, j))
    BY <2>1 DEF Told
  <2>5. \A j : j \in 1 .. Len(Sent(1)') => (Told(c, 1, j)' <=> Told(c, 1, j + 1))
    BY <2>1 DEF Told
  <2>6. Told(c, k, i)' <=> Told(c, k, i0)
    BY <2>2, <2>4, <2>5
  <2>7. ASSUME LastTold(c, k, i)' PROVE LastTold(c, k, i0)
    <3>1. Told(c, k, i0)
      BY <2>6, <2>7 DEF LastTold
    <3>2. ASSUME NEW l \in 1 .. Len(turn), NEW j \in 1 .. Len(Sent(l)), Told(c, l, j)
          PROVE  l < k \/ (l = k /\ j <= i0)
      <4>1. CASE l # 1
        <5>1. Told(c, l, j)' /\ l \in 1 .. Len(turn') /\ j \in 1 .. Len(Sent(l)')
          BY <2>1, <2>4, <3>2, <4>1
        <5>2. l < k \/ (l = k /\ j <= i)
          BY <2>7, <5>1 DEF LastTold
        <5>3. QED
          BY <2>2, <4>1, <5>2
      <4>2. CASE l = 1 /\ j = 1
        BY <2>1, <2>2, <2>3, <4>2
      <4>3. CASE l = 1 /\ j # 1
        <5>1. PICK q \in 1 .. Len(Sent(1)') : q + 1 = j
          <6>1. j - 1 \in 1 .. Len(Sent(1)') /\ j - 1 + 1 = j
            BY <2>1, <4>3
          <6>2. QED
            BY <6>1
        <5>2. Told(c, 1, q)' /\ 1 \in 1 .. Len(turn')
          BY <2>1, <2>5, <3>2, <4>3, <5>1
        <5>3. 1 < k \/ (1 = k /\ q <= i)
          BY <2>7, <5>1, <5>2 DEF LastTold
        <5>4. QED
          BY <2>2, <4>3, <5>1, <5>3
      <4>4. QED
        BY <4>1, <4>2, <4>3
    <3>3. QED
      BY <3>1, <3>2 DEF LastTold
  <2>8. Untold(c)' => ~ Told(c, k, i0)
    BY <2>6 DEF Untold
  <2>9. QED
    BY <2>3, <2>7, <2>8
<1>3. QED
  BY <1>1, <1>2

\* Only the first message of all leaves the queues.
LEMMA FirstLeaves ==
    ASSUME QueuesOK, NEW t \in Threads, Send(t), turn # <<>>, Head(turn) = t,
           NEW c, Untold(c)', NEW l \in 1 .. Len(turn), NEW j \in 1 .. Len(Sent(l)), Told(c, l, j)
    PROVE  l = 1 /\ j = 1
<1>1. CASE Len(Sent(1)) = 1
  <2>1. /\ Len(turn') = Len(turn) - 1 /\ Len(turn) \in Nat
        /\ \A k \in 1 .. Len(turn') : Sent(k)' = Sent(k + 1)
    BY <1>1, SentFirst
  <2>2. ASSUME l # 1 PROVE FALSE
    <3>1. PICK m \in 1 .. Len(turn') : m + 1 = l
      <4>1. l - 1 \in 1 .. Len(turn') /\ l - 1 + 1 = l
        BY <2>1, <2>2
      <4>2. QED
        BY <4>1
    <3>2. Sent(m)' = Sent(l)
      BY <2>1, <3>1
    <3>3. Told(c, m, j)' /\ j \in 1 .. Len(Sent(m)')
      BY <3>2 DEF Told
    <3>4. QED
      BY <3>3 DEF Untold
  <2>3. l = 1 /\ j \in 1 .. Len(Sent(1))
    BY <2>2
  <2>4. j \in 1 .. 1
    BY <1>1, <2>3
  <2>5. QED
    BY <2>3, <2>4
<1>2. CASE Len(Sent(1)) # 1
  <2>1. /\ turn' = turn /\ Len(Sent(1)') = Len(Sent(1)) - 1 /\ Len(Sent(1)) \in Nat
        /\ \A q \in 1 .. Len(Sent(1)') : Sent(1)'[q] = Sent(1)[q + 1]
        /\ \A k \in 1 .. Len(turn) : k # 1 => Sent(k)' = Sent(k)
        /\ 1 \in 1 .. Len(turn)
    BY <1>2, SentFirst
  <2>2. ASSUME l # 1 PROVE FALSE
    <3>1. Told(c, l, j)' /\ l \in 1 .. Len(turn') /\ j \in 1 .. Len(Sent(l)')
      BY <2>1, <2>2 DEF Told
    <3>2. QED
      BY <3>1 DEF Untold
  <2>3. ASSUME l = 1, j # 1 PROVE FALSE
    <3>1. PICK q \in 1 .. Len(Sent(1)') : q + 1 = j
      <4>1. j - 1 \in 1 .. Len(Sent(1)') /\ j - 1 + 1 = j
        BY <2>1, <2>3
      <4>2. QED
        BY <4>1
    <3>2. Told(c, 1, q)' /\ 1 \in 1 .. Len(turn')
      BY <2>1, <2>3, <3>1 DEF Told
    <3>3. QED
      BY <3>1, <3>2 DEF Untold
  <2>4. QED
    BY <2>2, <2>3
<1>3. QED
  BY <1>1, <1>2

BridgeType ==
    /\ link \in [Conns -> {"up", "closing", "down"}]
    /\ proj \in [Conns -> Tokens \cup {0}]
    /\ inbox \in [Conns -> Seq(Tokens \cup {0})]
    /\ cover \in BOOLEAN
    /\ crossed \in BOOLEAN

\* The head of what is to be sent is a message.
LEMMA HeadIsMessage ==
    ASSUME QueuesOK, NEW t \in Threads, Send(t)
    PROVE  /\ Head(sending[t]) \in Messages /\ Head(sending[t]) = sending[t][1]
           /\ Head(sending[t]).to \in Conns /\ Head(sending[t]).rev \in Tokens \cup {0}
<1>1. sending[t] # <<>> /\ sending[t] \in Seq(Messages)
  BY SendStep DEF QueuesOK
<1>2. Head(sending[t]) \in Messages /\ Head(sending[t]) = sending[t][1]
  BY <1>1, HeadTailProperties
<1>3. QED
  BY <1>2 DEF Messages

\* The queue of a bridge that gets an event.
LEMMA InboxGrows ==
    ASSUME BridgeType, QueuesOK, NEW t \in Threads, Send(t), NEW c \in Conns
    PROVE  IF Head(sending[t]).to = c /\ link[c] = "up"
           THEN inbox'[c] # <<>> /\ Newest(inbox'[c]) = Head(sending[t]).rev
           ELSE inbox'[c] = inbox[c] /\ proj'[c] = proj[c]
<1> DEFINE m == Head(sending[t])
<1>1. /\ inbox' = IF link[m.to] = "up" THEN [inbox EXCEPT ![m.to] = Append(@, m.rev)] ELSE inbox
      /\ proj' = IF m.reply /\ link[m.to] = "up" THEN [proj EXCEPT ![m.to] = m.rev] ELSE proj
  BY DEF Send
<1>2. m.to \in Conns /\ m.rev \in Tokens \cup {0}
  BY HeadIsMessage
<1> HIDE DEF m
<1>3. inbox[c] \in Seq(Tokens \cup {0})
  BY DEF BridgeType
<1>4. CASE m.to = c /\ link[c] = "up"
  <2>1. inbox'[c] = Append(inbox[c], m.rev)
    BY <1>1, <1>4 DEF BridgeType
  <2>2. /\ Len(inbox'[c]) = Len(inbox[c]) + 1 /\ inbox'[c][Len(inbox[c]) + 1] = m.rev
        /\ inbox'[c] # <<>>
    BY <1>2, <1>3, <2>1, AppendProperties
  <2>3. Newest(inbox'[c]) = m.rev
    BY <2>2 DEF Newest
  <2>4. QED
    BY <1>4, <2>2, <2>3 DEF m
<1>5. CASE ~ (m.to = c /\ link[c] = "up")
  <2>1. inbox'[c] = inbox[c] /\ proj'[c] = proj[c]
    BY <1>1, <1>5 DEF BridgeType
  <2>2. QED
    BY <1>5, <2>1 DEF m
<1>6. QED
  BY <1>4, <1>5

\* When nothing overtakes, what is sent reaches the bridge it is for.
LEMMA SendReaches ==
    ASSUME BridgeType, QueuesOK, NEW t \in Threads, Send(t), turn # <<>>, Head(turn) = t,
           NEW c \in Conns, link[c] = "up", BridgeKnows(c)
    PROVE  BridgeKnows(c)'
<1> DEFINE m == Head(sending[t])
<1>1. /\ 1 \in 1 .. Len(turn) /\ 1 \in 1 .. Len(Sent(1)) /\ Sent(1)[1] = m
  BY SentFirst, HeadIsMessage
<1>2. m.to \in Conns /\ m.rev \in Tokens \cup {0}
  BY HeadIsMessage
<1>3. UNCHANGED <<lease, link>>
  BY DEF Send, daemonVars
<1>4. \A r : Settled(c, r)' <=> Settled(c, r)
  BY <1>3 DEF Settled, HeldBy
<1>5. m.to = c <=> Told(c, 1, 1)
  BY <1>1 DEF Told
<1>6. IF m.to = c THEN inbox'[c] # <<>> /\ Newest(inbox'[c]) = m.rev
      ELSE inbox'[c] = inbox[c] /\ proj'[c] = proj[c]
  BY InboxGrows
<1> HIDE DEF m
<1>7. ASSUME Untold(c)' PROVE Settled(c, Arrived(c))'
  <2>1. \A l \in 1 .. Len(turn) : \A j \in 1 .. Len(Sent(l)) : Told(c, l, j) => l = 1 /\ j = 1
    BY <1>7, FirstLeaves
  <2>2. CASE m.to = c
    <3>1. LastTold(c, 1, 1)
      BY <1>5, <2>1, <2>2 DEF LastTold
    <3>2. Settled(c, m.rev)
      BY <1>1, <3>1 DEF BridgeKnows
    <3>3. Arrived(c)' = m.rev
      BY <1>6, <2>2 DEF Arrived
    <3>4. QED
      BY <1>4, <3>2, <3>3
  <2>3. CASE m.to # c
    <3>1. Untold(c)
      BY <1>5, <2>1, <2>3 DEF Untold
    <3>2. Settled(c, Arrived(c))
      BY <3>1 DEF BridgeKnows
    <3>3. Arrived(c)' = Arrived(c)
      BY <1>6, <2>3 DEF Arrived
    <3>4. QED
      BY <1>4, <3>2, <3>3
  <2>4. QED
    BY <2>2, <2>3
<1>8. ASSUME NEW k \in 1 .. Len(turn'), NEW i \in 1 .. Len(Sent(k)'), LastTold(c, k, i)'
      PROVE  Settled(c, Sent(k)[i].rev)'
  <2>1. PICK k0 \in 1 .. Len(turn) : \E i0 \in 1 .. Len(Sent(k0)) :
              Sent(k)'[i] = Sent(k0)[i0] /\ LastTold(c, k0, i0)
    BY <1>8, LastStaysLast
  <2>2. PICK i0 \in 1 .. Len(Sent(k0)) : Sent(k)'[i] = Sent(k0)[i0] /\ LastTold(c, k0, i0)
    BY <2>1
  <2>3. Settled(c, Sent(k0)[i0].rev)
    BY <2>2 DEF BridgeKnows
  <2>4. PICK r : r = Sent(k0)[i0].rev
    OBVIOUS
  <2>5. Settled(c, r)'
    BY <1>4, <2>3, <2>4
  <2>6. Sent(k)'[i].rev = r
    BY <2>2, <2>4
  <2>7. QED
    BY <2>5, <2>6
<1>9. QED
  BY <1>7, <1>8 DEF BridgeKnows

----------------------------------------------------------------------------
\* A connection that has ended has nothing more to handle, and one that the
\* daemon has cleaned up after owns no lease.
Gone ==
    \A c \in Conns :
        /\ link[c] # "up" => inbox[c] = <<>> /\ proj[c] = 0
        /\ link[c] = "down" => lease.owner # c

Know ==
    ~ crossed =>
        /\ \A c \in Conns : link[c] = "up" => BridgeKnows(c)
        /\ DesktopKnows

Clients == QueuesOK /\ BridgeType /\ Gone /\ Know

\* The desktop learns from the last message of all.
LEMMA NewsReachDesktop ==
    ASSUME QueuesOK, NEW t \in Threads, Idle(t), NEW ms \in Seq(Messages), ms # <<>>, Queue(t, ms),
           Covers(Newest(ms)) <=> lease' # NoLease
    PROVE  DesktopKnows'
<1>1. PICK o : o = Len(turn) + 1
  OBVIOUS
<1>2. turn' # <<>> /\ Len(turn') = o /\ Sent(o)' = ms
  BY <1>1, QueuedLast
<1>3. Newest(Sent(Len(turn)))' = Newest(ms)
  BY <1>2 DEF Newest, Sent
<1>4. QED
  BY <1>2, <1>3 DEF DesktopKnows, Covers

LEMMA SendReachesDesktop ==
    ASSUME QueuesOK, NEW t \in Threads, Send(t), turn # <<>>, Head(turn) = t, DesktopKnows
    PROVE  DesktopKnows'
<1> DEFINE m == Head(sending[t])
<1>1. /\ 1 \in 1 .. Len(turn) /\ Len(turn) \in Nat /\ 1 \in 1 .. Len(Sent(1)) /\ Sent(1)[1] = m
      /\ Len(Sent(1)) \in Nat
  BY SentFirst, HeadIsMessage
<1>2. cover' = Covers(m) /\ lease' = lease
  BY DEF Send, daemonVars
<1>3. Covers(Newest(Sent(Len(turn)))) <=> lease # NoLease
  BY DEF DesktopKnows
<1> HIDE DEF m
<1>4. CASE Len(Sent(1)) = 1
  <2>1. /\ Len(turn') = Len(turn) - 1
        /\ \A k \in 1 .. Len(turn') : Sent(k)' = Sent(k + 1)
    BY <1>4, SentFirst
  <2>2. turn' \in Seq(Threads)
    BY SendStep DEF QueuesOK
  <2>3. CASE Len(turn) = 1
    <3>1. turn' = <<>>
      BY <2>1, <2>2, <2>3, EmptySeq
    <3>2. Newest(Sent(Len(turn))) = m
      BY <1>1, <1>4, <2>3 DEF Newest
    <3>3. QED
      BY <1>2, <1>3, <3>1, <3>2 DEF DesktopKnows
  <2>4. CASE Len(turn) # 1
    <3>1. Len(turn') \in 1 .. Len(turn') /\ Len(turn') + 1 = Len(turn)
      BY <1>1, <2>1, <2>4
    <3>2. turn' # <<>>
      BY <1>1, <2>1, <2>4, EmptySeq
    <3>3. PICK k : k = Len(turn')
      OBVIOUS
    <3>4. Sent(k)' = Sent(Len(turn))
      BY <2>1, <3>1, <3>3
    <3>5. Newest(Sent(Len(turn)))' = Newest(Sent(Len(turn)))
      BY <3>3, <3>4 DEF Newest, Sent
    <3>6. QED
      BY <1>2, <1>3, <3>2, <3>5 DEF DesktopKnows, Covers
  <2>5. QED
    BY <2>3, <2>4
<1>5. CASE Len(Sent(1)) # 1
  <2>1. /\ turn' = turn /\ Len(Sent(1)') = Len(Sent(1)) - 1
        /\ \A i \in 1 .. Len(Sent(1)') : Sent(1)'[i] = Sent(1)[i + 1]
        /\ \A k \in 1 .. Len(turn) : k # 1 => Sent(k)' = Sent(k)
    BY <1>5, SentFirst
  <2>2. PICK k : k = Len(turn)
    OBVIOUS
  <2>3. Newest(Sent(k))' = Newest(Sent(k))
    <3>1. CASE k = 1
      <4>1. /\ Len(Sent(1)') \in 1 .. Len(Sent(1)') /\ Len(Sent(1)') + 1 = Len(Sent(1))
        <5>1. Len(Sent(1)) \in Nat /\ Len(Sent(1)) >= 1 /\ Len(Sent(1)) # 1
          BY <1>1, <1>5
        <5>2. Len(Sent(1)') = Len(Sent(1)) - 1
          BY <2>1
        <5>3. QED
          BY <5>1, <5>2
      <4>2. QED
        BY <2>1, <3>1, <4>1 DEF Newest
    <3>2. CASE k # 1
      BY <1>1, <2>1, <2>2, <3>2 DEF Newest
    <3>3. QED
      BY <3>1, <3>2
  <2>4. Newest(Sent(Len(turn)))' = Newest(Sent(Len(turn)))
    BY <2>1, <2>2, <2>3 DEF Sent
  <2>5. QED
    BY <1>2, <1>3, <2>1, <2>4 DEF DesktopKnows, Covers
<1>6. QED
  BY <1>4, <1>5

\* A step that sends nothing keeps the clients informed when none of them
\* forgets what is still so, and a new one owns nothing.
LEMMA QuietStep ==
    ASSUME Clients, UNCHANGED <<sending, turn, cover, crossed>>, BridgeType', Gone',
           lease = NoLease <=> lease' = NoLease,
           \A c \in Conns : link'[c] = "up" =>
              \/ /\ link[c] = "up"
                 /\ \A r : Settled(c, r) => Settled(c, r)'
                 /\ Settled(c, Arrived(c)) => Settled(c, Arrived(c))'
              \/ Untold(c) /\ Settled(c, Arrived(c))'
    PROVE  Clients'
<1>1. QueuesOK'
  BY DEF Clients, QueuesOK, Distinct, Idle
<1>2. \A k : Sent(k)' = Sent(k)
  BY DEF Sent
<1>3. DesktopKnows' <=> DesktopKnows
  BY <1>2 DEF DesktopKnows, Covers, Newest, Sent
<1>4. ASSUME NEW c
      PROVE  /\ Untold(c)' <=> Untold(c)
             /\ \A k, i : LastTold(c, k, i)' <=> LastTold(c, k, i)
  BY <1>2 DEF Untold, LastTold, Told
<1>5. ASSUME NEW c \in Conns, link'[c] = "up", link[c] = "up" => BridgeKnows(c)
      PROVE  BridgeKnows(c)'
  <2>1. CASE /\ link[c] = "up"
             /\ \A r : Settled(c, r) => Settled(c, r)'
             /\ Settled(c, Arrived(c)) => Settled(c, Arrived(c))'
    <3>1. Untold(c)' => Settled(c, Arrived(c))'
      BY <1>4, <1>5, <2>1 DEF BridgeKnows
    <3>2. ASSUME NEW k \in 1 .. Len(turn'), NEW i \in 1 .. Len(Sent(k)'), LastTold(c, k, i)'
          PROVE  Settled(c, Sent(k)[i].rev)'
      <4>1. PICK r : r = Sent(k)[i].rev
        OBVIOUS
      <4>2. Settled(c, r)
        BY <1>2, <1>4, <1>5, <2>1, <3>2, <4>1 DEF BridgeKnows
      <4>3. Settled(c, r)' /\ Sent(k)'[i].rev = r
        BY <1>2, <2>1, <4>1, <4>2
      <4>4. QED
        BY <4>3
    <3>3. QED
      BY <3>1, <3>2 DEF BridgeKnows
  <2>2. CASE Untold(c) /\ Settled(c, Arrived(c))'
    <3>1. Untold(c)'
      BY <1>4, <2>2
    <3>2. \A k \in 1 .. Len(turn') : \A i \in 1 .. Len(Sent(k)') : ~ LastTold(c, k, i)'
      BY <3>1 DEF Untold, LastTold
    <3>3. QED
      BY <2>2, <3>2 DEF BridgeKnows
  <2>3. QED
    BY <1>5, <2>1, <2>2
<1>6. Know'
  BY <1>3, <1>5 DEF Clients, Know
<1>7. QED
  BY <1>1, <1>6 DEF Clients

\* A thread that leaves the lock with news for those whom they concern keeps
\* the clients informed.
LEMMA NewsStep ==
    ASSUME Clients, NEW t \in Threads, Idle(t), NEW ms \in Seq(Messages), ms # <<>>, Queue(t, ms),
           UNCHANGED <<proj, inbox, cover, crossed>>, BridgeType', Gone',
           Covers(Newest(ms)) <=> lease' # NoLease,
           \A c \in Conns : link'[c] = "up" => link[c] = "up",
           \A c \in Conns :
              \/ \E r : Tells(ms, c, r) /\ Settled(c, r)'
              \/ /\ \A j \in 1 .. Len(ms) : ms[j].to # c
                 /\ \A r : Settled(c, r) => Settled(c, r)'
    PROVE  Clients'
<1>1. QueuesOK /\ QueuesOK'
  BY QueueStep DEF Clients
<1>2. DesktopKnows'
  BY <1>1, NewsReachDesktop
<1>3. ASSUME NEW c \in Conns, link[c] = "up" => BridgeKnows(c), link'[c] = "up"
      PROVE  BridgeKnows(c)'
  <2>1. BridgeKnows(c)
    BY <1>3
  <2>2. \/ \E r : Tells(ms, c, r) /\ Settled(c, r)'
        \/ /\ BridgeKnows(c) /\ UNCHANGED <<proj, inbox>>
           /\ \A j \in 1 .. Len(ms) : ms[j].to # c
           /\ \A r : Settled(c, r) => Settled(c, r)'
    BY <2>1
  <2>3. QED
    BY <1>1, <2>2, NewsReach
<1>4. Know'
  BY <1>2, <1>3 DEF Clients, Know
<1>5. QED
  BY <1>1, <1>4 DEF Clients

----------------------------------------------------------------------------
LEMMA EventIsMessage ==
    ASSUME NEW c \in Conns, NEW r \in Tokens \cup {0}, NEW reply \in BOOLEAN
    PROVE  /\ Event(c, r, reply) \in Messages
           /\ Event(c, r, reply).to = c /\ Event(c, r, reply).rev = r
  BY DEF Event, Messages

\* Only the owner of a lease holds one.
LEMMA HeldByOwner ==
    ASSUME LeaseType
    PROVE  /\ \A c \in Conns : lease = NoLease => HeldBy(c) = 0
           /\ \A c : lease.owner # c => (HeldBy(c) = 0 /\ \A r : Settled(c, r) <=> r = 0)
           /\ lease # NoLease => lease.owner \in Conns /\ lease \in Leases
           /\ lease = NoLease => lease.owner = NoConn /\ lease.owner \notin Conns
<1>1. NoLease.owner = NoConn /\ NoConn \notin Conns
  BY ThreadsApart DEF NoLease
<1>2. lease # NoLease => lease.owner \in Conns /\ lease \in Leases
  BY DEF LeaseType, Leases
<1>3. \A c : lease.owner # c => (HeldBy(c) = 0 /\ \A r : Settled(c, r) <=> r = 0)
  BY DEF HeldBy, Settled
<1>4. QED
  BY <1>1, <1>2, <1>3

\* The end of a lease (finish_remote_pane_lease, mark_exited_for_generation)
\* is told to its owner and to the desktop.
LEMMA EndStep ==
    ASSUME Clients, LeaseType, LeaseType', NEW t \in Threads, Idle(t), NEW reply \in BOOLEAN,
           lease' = NoLease, Queue(t, EndNews(reply)), UNCHANGED <<proj, inbox, cover, crossed>>,
           link' \in [Conns -> {"up", "closing", "down"}],
           \A c \in Conns : link'[c] = "up" <=> link[c] = "up"
    PROVE  Clients'
<1>1. BridgeType'
  BY DEF Clients, BridgeType
<1>2. \A c \in Conns : lease'.owner # c
  BY ThreadsApart DEF NoLease
<1>3. Gone'
  BY <1>2 DEF Clients, Gone
<1>4. \A c \in Conns : HeldBy(c)' = 0 /\ \A r : Settled(c, r)' <=> r = 0
  BY <1>2 DEF HeldBy, Settled
<1>5. CASE lease = NoLease
  <2>1. EndNews(reply) = <<>>
    BY <1>5 DEF EndNews
  <2>2. UNCHANGED <<sending, turn>>
    BY <2>1, QueueStep, EmptySeq DEF Clients
  <2>3. \A c \in Conns : \A r : Settled(c, r) => Settled(c, r)'
    BY <1>5 DEF Settled, HeldBy
  <2>4. \A c \in Conns : Arrived(c)' = Arrived(c)
    BY DEF Arrived
  <2>5. ASSUME NEW c \in Conns, link'[c] = "up"
        PROVE  /\ link[c] = "up"
               /\ \A r : Settled(c, r) => Settled(c, r)'
               /\ Settled(c, Arrived(c)) => Settled(c, Arrived(c))'
    <3>1. PICK r : r = Arrived(c)
      OBVIOUS
    <3>2. QED
      BY <2>3, <2>4, <2>5, <3>1
  <2>6. QED
    BY <1>1, <1>3, <1>5, <2>2, <2>5, QuietStep
<1>6. CASE lease # NoLease
  <2>1. lease.owner \in Conns
    BY <1>6, HeldByOwner
  <2>2. PICK own \in Conns : own = lease.owner
    BY <2>1
  <2>3. PICK e \in Messages : e = Event(own, 0, reply) /\ e.to = own /\ e.rev = 0
    <3>1. /\ Event(own, 0, reply) \in Messages
          /\ Event(own, 0, reply).to = own /\ Event(own, 0, reply).rev = 0
      BY EventIsMessage
    <3>2. QED
      BY <3>1
  <2>4. PICK ms : ms = <<e>>
    OBVIOUS
  <2>5. ms \in Seq(Messages) /\ Len(ms) = 1 /\ ms[1] = e /\ ms # <<>>
    BY <2>4
  <2>6. Queue(t, ms)
    BY <1>6, <2>2, <2>3, <2>4 DEF EndNews
  <2>7. ~ Covers(Newest(ms))
    BY <2>3, <2>5 DEF Covers, Newest
  <2>8. ASSUME NEW c \in Conns
        PROVE  \/ \E r : Tells(ms, c, r) /\ Settled(c, r)'
               \/ /\ \A j \in 1 .. Len(ms) : ms[j].to # c
                  /\ \A r : Settled(c, r) => Settled(c, r)'
    <3>1. CASE c = own
      <4>1. Tells(ms, c, 0)
        BY <2>3, <2>5, <3>1 DEF Tells
      <4>2. Settled(c, 0)'
        BY <1>4
      <4>3. QED
        BY <4>1, <4>2
    <3>2. CASE c # own
      <4>1. \A j \in 1 .. Len(ms) : ms[j].to # c
        BY <2>3, <2>5, <3>2
      <4>2. \A r : Settled(c, r) <=> r = 0
        BY <2>2, <3>2, HeldByOwner
      <4>3. QED
        BY <1>4, <4>1, <4>2
    <3>3. QED
      BY <3>1, <3>2
  <2>9. QED
    BY <1>1, <1>3, <2>5, <2>6, <2>7, <2>8, NewsStep
<1>7. QED
  BY <1>5, <1>6

\* A lease that is granted is told to its owner after the end of one that has
\* expired is told to that one's.
LEMMA GrantStep ==
    ASSUME Clients, LeaseType, NEW c \in Conns, Asks(c), NEW new \in Leases, new.owner = c,
           NEW size, NEW news, Grant(c, new, size, news),
           news = EndNews(FALSE) \/ (news = <<>> /\ lease.owner = c)
    PROVE  Clients'
<1>1. /\ lease' = new /\ UNCHANGED <<link, proj, inbox, cover, crossed>>
      /\ Queue(c, news \o <<Event(c, new.rev, TRUE)>>)
      /\ link[c] = "up" /\ Idle(c)
  BY DEF Grant, Asks, bridgeVars
<1>2. BridgeType'
  BY <1>1 DEF Clients, BridgeType
<1>3. Gone'
  BY <1>1 DEF Clients, Gone
<1>4. new.rev \in Tokens /\ new # NoLease
  BY LeaseIsOwned DEF Leases
<1>5. /\ Settled(c, new.rev)'
      /\ \A d \in Conns : d # c => \A r : Settled(d, r)' <=> r = 0
  BY <1>1 DEF Settled, HeldBy
<1>6. PICK e \in Messages : e = Event(c, new.rev, TRUE) /\ e.to = c /\ e.rev = new.rev
  BY <1>4, EventIsMessage
<1>7. new.rev # 0
  BY <1>4, LimitsAssumption DEF Tokens
<1>8. c \in Threads
  BY ThreadsApart
<1>9. CASE news = <<>>
  <2>1. PICK ms : ms = <<e>>
    OBVIOUS
  <2>2. ms \in Seq(Messages) /\ Len(ms) = 1 /\ ms[1] = e /\ ms # <<>>
    BY <2>1
  <2>s. \A j \in 1 .. Len(ms) : j = 1 /\ ms[j].to = c /\ ms[j].rev = new.rev
    <3> TAKE j \in 1 .. Len(ms)
    <3>1. j \in 1 .. 1
      BY <2>2
    <3>2. j = 1
      BY <3>1
    <3>3. ms[j] = e
      BY <2>2, <3>2
    <3>4. QED
      BY <1>6, <3>2, <3>3
  <2>3. Queue(c, ms)
    <3>1. <<>> \o <<e>> = <<e>>
      OBVIOUS
    <3>2. QED
      BY <1>1, <1>6, <1>9, <2>1, <3>1
  <2>4. Covers(Newest(ms))
    BY <1>6, <1>7, <2>2 DEF Covers, Newest
  <2>5. lease.owner = c \/ lease = NoLease
    BY <1>9 DEF EndNews
  <2>6. ASSUME NEW d \in Conns
        PROVE  \/ \E r : Tells(ms, d, r) /\ Settled(d, r)'
               \/ /\ \A j \in 1 .. Len(ms) : ms[j].to # d
                  /\ \A r : Settled(d, r) => Settled(d, r)'
    <3>1. CASE d = c
      <4>1. Tells(ms, d, new.rev)
        BY <2>2, <2>s, <3>1 DEF Tells
      <4>2. QED
        BY <1>5, <3>1, <4>1
    <3>2. CASE d # c
      <4>1. \A j \in 1 .. Len(ms) : ms[j].to # d
        BY <2>s, <3>2
      <4>2. lease.owner # d
        BY <2>5, <3>2, HeldByOwner
      <4>3. \A r : Settled(d, r) <=> r = 0
        BY <4>2, HeldByOwner
      <4>4. QED
        BY <1>5, <3>2, <4>1, <4>3
    <3>3. QED
      BY <3>1, <3>2
  <2>7. QED
    BY <1>1, <1>2, <1>3, <1>4, <1>8, <2>2, <2>3, <2>4, <2>6, NewsStep
<1>10. CASE news # <<>>
  <2>1. news = EndNews(FALSE) /\ lease # NoLease
    BY <1>10 DEF EndNews
  <2>2. lease.owner \in Conns
    BY <2>1, HeldByOwner
  <2>3. PICK own \in Conns : own = lease.owner
    BY <2>2
  <2>4. PICK f \in Messages : f = Event(own, 0, FALSE) /\ f.to = own /\ f.rev = 0
    <3>1. /\ Event(own, 0, FALSE) \in Messages
          /\ Event(own, 0, FALSE).to = own /\ Event(own, 0, FALSE).rev = 0
      BY EventIsMessage
    <3>2. QED
      BY <3>1
  <2>5. news = <<f>>
    BY <2>1, <2>3, <2>4 DEF EndNews
  <2>6. PICK ms : ms = <<f>> \o <<e>>
    OBVIOUS
  <2>7. ms \in Seq(Messages) /\ Len(ms) = 2 /\ ms[1] = f /\ ms[2] = e /\ ms # <<>>
    <3>1. PICK a : a = <<f>>
      OBVIOUS
    <3>2. a \in Seq(Messages) /\ Len(a) = 1 /\ a[1] = f
      BY <3>1
    <3>3. PICK b : b = <<e>>
      OBVIOUS
    <3>4. b \in Seq(Messages) /\ Len(b) = 1 /\ b[1] = e
      BY <3>3
    <3>5. /\ a \o b \in Seq(Messages) /\ Len(a \o b) = 2
          /\ (a \o b)[1] = f /\ (a \o b)[2] = e
      <4>1. a \o b \in Seq(Messages) /\ Len(a \o b) = Len(a) + Len(b)
        BY <3>2, <3>4, ConcatProperties
      <4>2. \A i \in 1 .. Len(a) + Len(b) :
               (a \o b)[i] = IF i <= Len(a) THEN a[i] ELSE b[i - Len(a)]
        BY <3>2, <3>4, ConcatProperties
      <4>3. 1 \in 1 .. Len(a) + Len(b) /\ 2 \in 1 .. Len(a) + Len(b) /\ 2 - Len(a) = 1
            /\ ~ (2 <= Len(a))
        BY <3>2, <3>4
      <4>4. (a \o b)[1] = f
        BY <3>2, <4>2, <4>3
      <4>5. (a \o b)[2] = e
        <5>1. (a \o b)[2] = b[2 - Len(a)]
          BY <4>2, <4>3
        <5>2. QED
          BY <3>4, <4>3, <5>1
      <4>6. QED
        BY <3>2, <3>4, <4>1, <4>4, <4>5
    <3>6. ms = a \o b
      BY <2>6, <3>1, <3>3
    <3>7. QED
      BY <3>5, <3>6, EmptySeq
  <2>8. Queue(c, ms)
    BY <1>1, <1>6, <2>5, <2>6
  <2>9. Covers(Newest(ms))
    BY <1>6, <1>7, <2>7 DEF Covers, Newest
  <2>10. \A j : j \in 1 .. Len(ms) <=> j = 1 \/ j = 2
    BY <2>7
  <2>s. /\ 1 \in 1 .. Len(ms) /\ ms[1].to = own /\ ms[1].rev = 0
        /\ 2 \in 1 .. Len(ms) /\ ms[2].to = c /\ ms[2].rev = new.rev
    <3>1. 1 \in 1 .. Len(ms) /\ 2 \in 1 .. Len(ms)
      BY <2>10
    <3>2. ms[1] = f /\ ms[2] = e
      BY <2>7
    <3>3. QED
      BY <1>6, <2>4, <3>1, <3>2
  <2>11. ASSUME NEW d \in Conns
         PROVE  \/ \E r : Tells(ms, d, r) /\ Settled(d, r)'
                \/ /\ \A j \in 1 .. Len(ms) : ms[j].to # d
                   /\ \A r : Settled(d, r) => Settled(d, r)'
    <3>1. CASE d = c
      <4>1. Tells(ms, d, new.rev)
        BY <2>10, <2>s, <3>1 DEF Tells
      <4>2. QED
        BY <1>5, <3>1, <4>1
    <3>2. CASE d # c /\ d = own
      <4>1. Tells(ms, d, 0)
        BY <2>10, <2>s, <3>2 DEF Tells
      <4>2. Settled(d, 0)'
        BY <1>5, <3>2
      <4>3. QED
        BY <4>1, <4>2
    <3>3. CASE d # c /\ d # own
      <4>1. \A j \in 1 .. Len(ms) : ms[j].to # d
        BY <1>6, <2>4, <2>7, <2>10, <3>3
      <4>2. \A r : Settled(d, r) <=> r = 0
        BY <2>3, <3>3, HeldByOwner
      <4>3. QED
        BY <1>5, <3>3, <4>1, <4>2
    <3>4. QED
      BY <3>1, <3>2, <3>3
  <2>12. QED
    BY <1>1, <1>2, <1>3, <1>4, <1>8, <2>7, <2>8, <2>9, <2>11, NewsStep
<1>11. QED
  BY <1>9, <1>10

\* A step that touches neither the lease nor what has to be sent.
LEMMA LocalStep ==
    ASSUME Clients, UNCHANGED <<lease, sending, turn, cover, crossed>>, BridgeType', Gone',
           \A c \in Conns : link'[c] = "up" =>
              \/ /\ link[c] = "up"
                 /\ Settled(c, Arrived(c)) => Settled(c, Arrived(c)')
              \/ Untold(c) /\ Settled(c, Arrived(c)')
    PROVE  Clients'
<1>1. \A c, r : Settled(c, r)' <=> Settled(c, r)
  BY DEF Settled, HeldBy
<1>2. ASSUME NEW c \in Conns, link'[c] = "up"
      PROVE  \/ /\ link[c] = "up"
                /\ \A r : Settled(c, r) => Settled(c, r)'
                /\ Settled(c, Arrived(c)) => Settled(c, Arrived(c))'
             \/ Untold(c) /\ Settled(c, Arrived(c))'
  <2>1. PICK r : r = Arrived(c)'
    OBVIOUS
  <2>2. Settled(c, Arrived(c)') <=> Settled(c, Arrived(c))'
    BY <1>1, <2>1
  <2>3. QED
    BY <1>1, <1>2, <2>2
<1>3. QED
  BY <1>2, QuietStep

\* A bridge forgets a lease (Drop) only when it has none, or its pane is gone.
LEMMA DropStep ==
    ASSUME Clients, NEW c \in Conns, Asks(c), Drop(c),
           ~ Matches(c) \/ ~ lease.same
    PROVE  Clients'
<1>1. /\ UNCHANGED <<lease, sending, turn, cover, crossed, inbox, link>>
      /\ proj' = [proj EXCEPT ![c] = 0] /\ link[c] = "up"
  BY DEF Drop, Refuse, Asks, daemonVars
<1>2. BridgeType'
  BY <1>1 DEF Clients, BridgeType
<1>3. /\ proj'[c] = 0 /\ \A d \in Conns : d # c => proj'[d] = proj[d]
  BY <1>1 DEF Clients, BridgeType
<1>4. Gone'
  BY <1>1, <1>3 DEF Clients, Gone
<1>5. \A d : inbox'[d] = inbox[d]
  BY <1>1
<1>6. ASSUME NEW d \in Conns, link'[d] = "up"
      PROVE  link[d] = "up" /\ (Settled(d, Arrived(d)) => Settled(d, Arrived(d)'))
  <2>1. CASE d # c \/ inbox[d] # <<>>
    <3>1. Arrived(d)' = Arrived(d)
      BY <1>3, <1>5, <2>1 DEF Arrived
    <3>2. QED
      BY <1>1, <1>6, <3>1
  <2>2. CASE d = c /\ inbox[d] = <<>>
    <3>1. Arrived(d) = proj[c] /\ Arrived(d)' = 0
      BY <1>3, <1>5, <2>2 DEF Arrived
    <3>2. Settled(c, proj[c]) => Settled(c, 0)
      BY DEF Settled, HeldBy, Matches
    <3>3. QED
      BY <1>1, <1>6, <2>2, <3>1, <3>2
  <2>3. QED
    BY <2>1, <2>2
<1>7. QED
  BY <1>1, <1>2, <1>4, <1>6, LocalStep

LEMMA CloseStep ==
    ASSUME Clients, NEW c \in Conns, link[c] = "up", Close(c), UNCHANGED <<cover, crossed>>
    PROVE  Clients'
<1>1. /\ UNCHANGED <<lease, sending, turn>>
      /\ link' = [link EXCEPT ![c] = "closing"]
      /\ proj' = [proj EXCEPT ![c] = 0] /\ inbox' = [inbox EXCEPT ![c] = <<>>]
  BY DEF Close, daemonVars
<1>2. <<>> \in Seq(Tokens \cup {0})
  OBVIOUS
<1>3. BridgeType'
  BY <1>1, <1>2 DEF Clients, BridgeType
<1>4. /\ link'[c] = "closing" /\ proj'[c] = 0 /\ inbox'[c] = <<>>
      /\ \A d \in Conns : d # c => link'[d] = link[d] /\ proj'[d] = proj[d] /\ inbox'[d] = inbox[d]
  BY <1>1 DEF Clients, BridgeType
<1>5. Gone'
  BY <1>1, <1>4 DEF Clients, Gone
<1>6. ASSUME NEW d \in Conns, link'[d] = "up"
      PROVE  link[d] = "up" /\ (Settled(d, Arrived(d)) => Settled(d, Arrived(d)'))
  <2>1. d # c
    BY <1>4, <1>6
  <2>2. link'[d] = link[d] /\ Arrived(d)' = Arrived(d)
    BY <1>4, <2>1 DEF Arrived
  <2>3. QED
    BY <1>6, <2>2
<1>7. QED
  BY <1>1, <1>3, <1>5, <1>6, LocalStep

\* Handling the queue brings a bridge nearer to what has arrived.
LEMMA ReceiveStep ==
    ASSUME Clients, NEW c \in Conns, ReceiveEvent(c)
    PROVE  Clients'
<1>1. /\ UNCHANGED <<lease, sending, turn, cover, crossed, link>>
      /\ proj' = [proj EXCEPT ![c] = Head(inbox[c])]
      /\ inbox' = [inbox EXCEPT ![c] = Tail(@)]
      /\ link[c] = "up" /\ inbox[c] # <<>>
  BY DEF ReceiveEvent, daemonVars
<1>2. inbox[c] \in Seq(Tokens \cup {0})
  BY DEF Clients, BridgeType
<1>3. PICK in \in Seq(Tokens \cup {0}) : in = inbox[c] /\ in # <<>>
  BY <1>1, <1>2
<1>4. PICK rest : rest = Tail(in)
  OBVIOUS
<1>5. /\ Head(in) = in[1] /\ in[1] \in Tokens \cup {0} /\ rest \in Seq(Tokens \cup {0})
      /\ Len(rest) = Len(in) - 1 /\ \A i \in 1 .. Len(rest) : rest[i] = in[i + 1]
      /\ Len(in) \in Nat
  BY <1>3, <1>4, HeadTailProperties
<1>6. /\ proj'[c] = in[1] /\ inbox'[c] = rest
      /\ \A d \in Conns : d # c => proj'[d] = proj[d] /\ inbox'[d] = inbox[d]
  BY <1>1, <1>3, <1>4, <1>5 DEF Clients, BridgeType
<1>7. BridgeType'
  BY <1>1, <1>3, <1>4, <1>5 DEF Clients, BridgeType
<1>8. Gone'
  BY <1>1, <1>6 DEF Clients, Gone
<1>9. Arrived(c)' = Arrived(c)
  <2>1. Arrived(c) = in[Len(in)]
    BY <1>3 DEF Arrived, Newest
  <2>2. CASE rest = <<>>
    <3>1. Len(rest) = 0
      BY <2>2
    <3>2. Len(in) = 1
      BY <1>5, <3>1
    <3>3. QED
      BY <1>6, <2>1, <2>2, <3>2 DEF Arrived
  <2>3. CASE rest # <<>>
    <3>1. Len(rest) # 0
      BY <1>5, <2>3, EmptySeq
    <3>2. Len(rest) \in 1 .. Len(rest) /\ Len(rest) + 1 = Len(in)
      BY <1>5, <3>1
    <3>3. rest[Len(rest)] = in[Len(in)]
      BY <1>5, <3>2
    <3>4. QED
      BY <1>6, <2>1, <2>3, <3>3 DEF Arrived, Newest
  <2>4. QED
    BY <2>2, <2>3
<1>10. ASSUME NEW d \in Conns, link'[d] = "up"
       PROVE  link[d] = "up" /\ (Settled(d, Arrived(d)) => Settled(d, Arrived(d)'))
  <2>1. Arrived(d)' = Arrived(d)
    BY <1>6, <1>9 DEF Arrived
  <2>2. QED
    BY <1>1, <1>10, <2>1
<1>11. QED
  BY <1>1, <1>7, <1>8, <1>10, LocalStep

\* A new connection owns nothing and knows it.
LEMMA ConnectStep ==
    ASSUME Clients, NEW c \in Conns, Connect(c)
    PROVE  Clients'
<1>1. /\ UNCHANGED <<lease, sending, turn, cover, crossed, proj, inbox>>
      /\ link' = [link EXCEPT ![c] = "up"] /\ link[c] = "down"
      /\ \A t \in Threads : \A i \in 1 .. Len(sending[t]) : sending[t][i].to # c
  BY DEF Connect, daemonVars
<1>2. BridgeType'
  BY <1>1 DEF Clients, BridgeType
<1>3. link'[c] = "up" /\ \A d \in Conns : d # c => link'[d] = link[d]
  BY <1>1 DEF Clients, BridgeType
<1>4. Gone'
  BY <1>1, <1>3 DEF Clients, Gone
<1>5. \A k \in 1 .. Len(turn) : turn[k] \in Threads
  BY DEF Clients, QueuesOK
<1>6. Untold(c)
  BY <1>1, <1>5 DEF Untold, Told, Sent
<1>7. inbox[c] = <<>> /\ proj[c] = 0 /\ lease.owner # c
  BY <1>1 DEF Clients, Gone
<1>8. Arrived(c)' = 0
  BY <1>1, <1>7 DEF Arrived
<1>9. Settled(c, 0)
  BY <1>7 DEF Settled, HeldBy
<1>10. ASSUME NEW d \in Conns, link'[d] = "up"
       PROVE  \/ link[d] = "up" /\ (Settled(d, Arrived(d)) => Settled(d, Arrived(d)'))
              \/ Untold(d) /\ Settled(d, Arrived(d)')
  <2>1. CASE d = c
    BY <1>6, <1>8, <1>9, <2>1
  <2>2. CASE d # c
    <3>1. Arrived(d)' = Arrived(d)
      BY <1>1 DEF Arrived
    <3>2. QED
      BY <1>3, <1>10, <2>2, <3>1
  <2>3. QED
    BY <2>1, <2>2
<1>11. QED
  BY <1>1, <1>2, <1>4, <1>10, LocalStep

\* The deadline, a pane that is closed by cancel_pane_spawn or replaced, and a
\* resize by the desktop leave revision and owner as they are.
LEMMA FlagStep ==
    ASSUME Clients, LeaseType, LeaseType',
           UNCHANGED <<sending, turn, link, proj, inbox, cover, crossed>>,
           lease'.rev = lease.rev, lease'.owner = lease.owner, ~ lease.same => ~ lease'.same
    PROVE  Clients'
<1>1. BridgeType'
  BY DEF Clients, BridgeType
<1>2. Gone'
  BY DEF Clients, Gone
<1>3. NoLease.owner \notin Conns /\ \A new \in Leases : new.owner \in Conns
  BY ThreadsApart DEF NoLease, Leases
<1>4. lease = NoLease <=> lease' = NoLease
  BY <1>3 DEF LeaseType
<1>5. \A c \in Conns : \A r : Settled(c, r) => Settled(c, r)'
  BY DEF Settled, HeldBy
<1>6. ASSUME NEW c \in Conns, link'[c] = "up"
      PROVE  /\ link[c] = "up"
             /\ \A r : Settled(c, r) => Settled(c, r)'
             /\ Settled(c, Arrived(c)) => Settled(c, Arrived(c))'
  <2>1. PICK r : r = Arrived(c)
    OBVIOUS
  <2>2. Arrived(c)' = r
    BY <2>1 DEF Arrived
  <2>3. QED
    BY <1>5, <1>6, <2>1, <2>2
<1>7. QED
  BY <1>1, <1>2, <1>4, <1>6, QuietStep

\* A message that is sent in the order of the transitions reaches its client;
\* one that is not ends what is said here of the clients.
LEMMA SendKeeps ==
    ASSUME Clients, NEW t \in Threads, Send(t)
    PROVE  Clients'
<1>1. QueuesOK /\ QueuesOK' /\ BridgeType
  BY SendStep DEF Clients
<1>2. UNCHANGED <<lease, link>>
  BY DEF Send, daemonVars
<1> DEFINE m == Head(sending[t])
<1>3. m.to \in Conns /\ m.rev \in Tokens \cup {0}
  BY <1>1, HeadIsMessage
<1>4. BridgeType'
  <2>1. /\ cover' = Covers(m) /\ crossed' = (crossed \/ Head(turn) # t)
        /\ inbox' = IF link[m.to] = "up" THEN [inbox EXCEPT ![m.to] = Append(@, m.rev)] ELSE inbox
        /\ proj' = IF m.reply /\ link[m.to] = "up" THEN [proj EXCEPT ![m.to] = m.rev] ELSE proj
    BY DEF Send
  <2> HIDE DEF m
  <2>2. cover' \in BOOLEAN /\ crossed' \in BOOLEAN
    BY <1>1, <2>1 DEF Covers, BridgeType
  <2>3. Append(inbox[m.to], m.rev) \in Seq(Tokens \cup {0})
    BY <1>1, <1>3, AppendProperties DEF BridgeType
  <2>4. inbox' \in [Conns -> Seq(Tokens \cup {0})]
    BY <1>1, <1>3, <2>1, <2>3 DEF BridgeType
  <2>5. proj' \in [Conns -> Tokens \cup {0}]
    BY <1>1, <1>3, <2>1 DEF BridgeType
  <2>6. QED
    BY <1>1, <1>2, <2>2, <2>4, <2>5 DEF BridgeType
<1>5. Gone'
  <2>1. ASSUME NEW c \in Conns, link[c] # "up"
        PROVE  inbox'[c] = inbox[c] /\ proj'[c] = proj[c]
    BY <1>1, <2>1, InboxGrows
  <2>2. QED
    BY <1>2, <2>1 DEF Clients, Gone
<1>6. Know'
  <2>1. SUFFICES ASSUME ~ crossed'
                 PROVE  /\ \A c \in Conns : link'[c] = "up" => BridgeKnows(c)'
                        /\ DesktopKnows'
    BY DEF Know
  <2>2. ~ crossed /\ Head(turn) = t
    BY <2>1 DEF Send
  <2>3. turn # <<>>
    <3>1. sending[t] # <<>>
      BY <1>1, SendStep
    <3>2. \E i \in 1 .. Len(turn) : turn[i] = t
      BY <1>1, <3>1 DEF QueuesOK, Idle
    <3>3. QED
      BY <3>2
  <2>4. (\A c \in Conns : link[c] = "up" => BridgeKnows(c)) /\ DesktopKnows
    BY <2>2 DEF Clients, Know
  <2>5. DesktopKnows'
    BY <1>1, <2>2, <2>3, <2>4, SendReachesDesktop
  <2>6. ASSUME NEW c \in Conns, link'[c] = "up" PROVE BridgeKnows(c)'
    BY <1>1, <1>2, <2>2, <2>3, <2>4, <2>6, SendReaches
  <2>7. QED
    BY <2>5, <2>6
<1>7. QED
  BY <1>1, <1>4, <1>5, <1>6 DEF Clients

----------------------------------------------------------------------------
\* A claim is granted with the revision that the lease then has, or changes
\* nothing that a client has to know.
LEMMA ClaimTells ==
    ASSUME Clients, GeometryInv, NEW c \in Conns, NEW size \in PhoneSizes, Claim(c, size)
    PROVE  Clients'
<1>1. Asks(c) /\ link[c] = "up" /\ UNCHANGED <<cover, crossed>> /\ LeaseType
  BY DEF Claim, Asks, GeometryInv
<1>2. CASE ClaimNew(c, size)
  <2> DEFINE new == [rev |-> Fresh, owner |-> c, same |-> TRUE, live |-> TRUE,
                     original |-> Restored]
             news == EndNews(FALSE)
  <2>1. Fresh \in Tokens
    BY <1>2, FreshIsFree DEF ClaimNew, FreeTokens
  <2>2. Restored \in Sizes
    BY <1>2 DEF ClaimNew, GeometryInv, LeaseType, Restored, Leases, NoLease
  <2>3. new \in Leases /\ new.owner = c
    BY <2>1, <2>2 DEF Leases
  <2>4. Grant(c, new, size, news)
    BY <1>2 DEF ClaimNew
  <2>5. news = EndNews(FALSE)
    OBVIOUS
  <2> HIDE DEF new, news
  <2>6. QED
    BY <1>1, <2>3, <2>4, <2>5, GrantStep
<1>3. CASE Update(c, size)
  <2> DEFINE new == [lease EXCEPT !.rev = Fresh]
             news == <<>>
  <2>1. Fresh \in Tokens
    BY <1>3, FreshIsFree DEF Update, FreeTokens
  <2>2. lease \in Leases /\ lease.owner = c
    BY <1>3 DEF Update, GeometryInv, LeaseType, NoLease, Matches
  <2>3. new \in Leases /\ new.owner = c
    BY <2>1, <2>2 DEF Leases
  <2>4. Grant(c, new, size, news) /\ news = <<>>
    BY <1>3 DEF Update
  <2> HIDE DEF new, news
  <2>5. QED
    BY <1>1, <2>2, <2>3, <2>4, GrantStep
<1>4. CASE ClaimRefused(c)
  <2>1. CASE Close(c)
    BY <1>1, <2>1, CloseStep
  <2>2. CASE Keep
    <3>1. UNCHANGED <<pane, lease, chosen, late, sending, turn, inbox, link, proj, cover, crossed>>
      BY <1>1, <2>2 DEF Keep, Refuse, daemonVars
    <3>2. LeaseType'
      BY <1>1, <3>1 DEF LeaseType
    <3>3. QED
      BY <1>1, <3>1, <3>2, FlagStep
  <2>3. QED
    BY <1>4, <2>1, <2>2 DEF ClaimRefused
<1>5. QED
  BY <1>2, <1>3, <1>4 DEF Claim

LEMMA RenewTells ==
    ASSUME Clients, GeometryInv, NEW c \in Conns, Renew(c)
    PROVE  Clients'
<1>1. Asks(c) /\ link[c] = "up" /\ UNCHANGED <<cover, crossed>> /\ LeaseType
  BY DEF Renew, Asks, GeometryInv
<1>2. CASE Renewed(c)
  <2> DEFINE new == [lease EXCEPT !.rev = Fresh, !.live = TRUE]
             news == <<>>
  <2>1. Fresh \in Tokens
    BY <1>2, FreshIsFree DEF Renewed, FreeTokens
  <2>2. lease \in Leases /\ lease.owner = c
    BY <1>2 DEF Renewed, GeometryInv, LeaseType, NoLease, Matches
  <2>3. new \in Leases /\ new.owner = c
    BY <2>1, <2>2 DEF Leases
  <2>4. Grant(c, new, pane, news) /\ news = <<>>
    BY <1>2 DEF Renewed
  <2> HIDE DEF new, news
  <2>5. QED
    BY <1>1, <2>2, <2>3, <2>4, GrantStep
<1>3. CASE RenewRefused(c)
  BY <1>1, <1>3, DropStep, CloseStep DEF RenewRefused
<1>4. QED
  BY <1>2, <1>3 DEF Renew

\* Every step keeps the clients informed of the lease.
LEMMA ClientsKept ==
    ASSUME Clients, GeometryInv, [Next]_vars
    PROVE  Clients'
<1>1. LeaseType /\ LeaseType' /\ Conns \subseteq Threads
      /\ {"desktop", "sweep", "reader"} \subseteq Threads
  BY GeometryKept, ThreadsApart DEF GeometryInv
<1>2. link \in [Conns -> {"up", "closing", "down"}]
  BY DEF Clients, BridgeType
<1>3. ASSUME NEW c \in Conns, NEW size \in PhoneSizes, Claim(c, size)
      PROVE  Clients'
  BY <1>3, ClaimTells
<1>4. ASSUME NEW c \in Conns, Renew(c)
      PROVE  Clients'
  BY <1>4, RenewTells
<1>5. ASSUME NEW c \in Conns, Asks(c), Finish(c, TRUE), UNCHANGED bridgeVars
      PROVE  Clients'
  <2>1. /\ lease' = NoLease /\ Queue(c, EndNews(TRUE)) /\ Idle(c) /\ c \in Threads
        /\ UNCHANGED <<proj, inbox, link, cover, crossed>>
    BY <1>1, <1>5 DEF Finish, Asks, bridgeVars
  <2>2. QED
    BY <1>1, <1>2, <2>1, EndStep
<1>6. ASSUME NEW c \in Conns, Release(c)
      PROVE  Clients'
  BY <1>5, <1>6, DropStep DEF Release
<1>7. ASSUME NEW c \in Conns, Detach(c)
      PROVE  Clients'
  <2>1. lease.owner # c => ~ Matches(c)
    BY DEF Matches
  <2>2. QED
    BY <1>5, <1>7, <2>1, DropStep DEF Detach
<1>8. ASSUME NEW c \in Conns, WriteRefused(c)
      PROVE  Clients'
  BY <1>8, CloseStep DEF WriteRefused, Asks
<1>9. ASSUME NEW c \in Conns, ReceiveEvent(c)
      PROVE  Clients'
  BY <1>9, ReceiveStep
<1>10. ASSUME NEW c \in Conns, BridgeCloses(c)
       PROVE  Clients'
  BY <1>10, CloseStep DEF BridgeCloses
<1>11. ASSUME NEW c \in Conns, Disconnect(c)
       PROVE  Clients'
  <2>1. /\ link' = [link EXCEPT ![c] = "down"] /\ link[c] = "closing" /\ Idle(c)
        /\ UNCHANGED <<proj, inbox, cover, crossed>>
    BY <1>11 DEF Disconnect
  <2>2. /\ link' \in [Conns -> {"up", "closing", "down"}] /\ link'[c] = "down"
        /\ \A d \in Conns : d # c => link'[d] = link[d]
    BY <1>2, <2>1
  <2>3. \A d \in Conns : link'[d] = "up" <=> link[d] = "up"
    BY <2>1, <2>2
  <2>4. CASE Finish(c, FALSE)
    <3>1. lease' = NoLease /\ Queue(c, EndNews(FALSE)) /\ c \in Threads
      BY <1>1, <2>4 DEF Finish
    <3>2. QED
      BY <1>1, <2>1, <2>2, <2>3, <3>1, EndStep
  <2>5. CASE lease.owner # c /\ UNCHANGED <<daemonVars, sending, turn>>
    <3>1. BridgeType'
      BY <2>1, <2>2 DEF Clients, BridgeType
    <3>2. UNCHANGED <<lease, sending, turn, cover, crossed>>
      BY <2>1, <2>5 DEF daemonVars
    <3>3. Gone'
      BY <2>1, <2>2, <2>5, <3>2 DEF Clients, Gone
    <3>4. ASSUME NEW d \in Conns, link'[d] = "up"
          PROVE  link[d] = "up" /\ (Settled(d, Arrived(d)) => Settled(d, Arrived(d)'))
      <4>1. Arrived(d)' = Arrived(d)
        BY <2>1 DEF Arrived
      <4>2. QED
        BY <2>3, <3>4, <4>1
    <3>5. QED
      BY <3>1, <3>2, <3>3, <3>4, LocalStep
  <2>6. QED
    BY <1>11, <2>4, <2>5 DEF Disconnect
<1>12. ASSUME NEW c \in Conns, Connect(c)
       PROVE  Clients'
  BY <1>12, ConnectStep
<1>13. CASE Deadline
  <2>1. UNCHANGED <<sending, turn, link, proj, inbox, cover, crossed>>
    BY <1>13 DEF Deadline, bridgeVars
  <2>2. lease'.rev = lease.rev /\ lease'.owner = lease.owner /\ lease'.same = lease.same
    BY <1>1, <1>13 DEF Deadline, LeaseType, Leases, NoLease
  <2>3. QED
    BY <1>1, <2>1, <2>2, FlagStep
<1>14. CASE Sweep
  <2>1. /\ lease' = NoLease /\ Queue("sweep", EndNews(FALSE)) /\ Idle("sweep")
        /\ UNCHANGED <<proj, inbox, link, cover, crossed>>
    BY <1>14 DEF Sweep, Finish, bridgeVars
  <2>2. QED
    BY <1>1, <1>2, <2>1, EndStep
<1>15. CASE PaneEnds
  <2>1. /\ lease' = NoLease /\ Queue("reader", EndNews(FALSE)) /\ Idle("reader")
        /\ UNCHANGED <<proj, inbox, link, cover, crossed>>
    BY <1>15 DEF PaneEnds, bridgeVars
  <2>2. QED
    BY <1>1, <1>2, <2>1, EndStep
<1>16. lease' = [lease EXCEPT !.same = FALSE]
          => lease'.rev = lease.rev /\ lease'.owner = lease.owner /\ ~ lease'.same
  BY <1>1 DEF LeaseType, Leases, NoLease
<1>17. CASE CancelPaneSpawn
  <2>1. UNCHANGED <<sending, turn, link, proj, inbox, cover, crossed>>
    BY <1>17 DEF CancelPaneSpawn, bridgeVars
  <2>2. lease'.rev = lease.rev /\ lease'.owner = lease.owner /\ ~ lease'.same
    BY <1>16, <1>17 DEF CancelPaneSpawn
  <2>3. QED
    BY <1>1, <2>1, <2>2, FlagStep
<1>18. CASE Reclaim
  <2>1. /\ lease' = NoLease /\ Queue("desktop", EndNews(FALSE)) /\ Idle("desktop")
        /\ UNCHANGED <<proj, inbox, link, cover, crossed>>
    BY <1>18 DEF Reclaim, Finish, bridgeVars
  <2>2. QED
    BY <1>1, <1>2, <2>1, EndStep
<1>19. ASSUME NEW size \in DeskSizes, SpawnPane(size)
       PROVE  Clients'
  <2>1. UNCHANGED <<sending, turn, link, proj, inbox, cover, crossed>>
    BY <1>19 DEF SpawnPane, bridgeVars
  <2>2. lease'.rev = lease.rev /\ lease'.owner = lease.owner /\ ~ lease'.same
    BY <1>16, <1>19 DEF SpawnPane
  <2>3. QED
    BY <1>1, <2>1, <2>2, FlagStep
<1>20. ASSUME NEW size \in DeskSizes, DesktopResizes(size)
       PROVE  Clients'
  <2>1. UNCHANGED <<lease, sending, turn, link, proj, inbox, cover, crossed>>
    BY <1>20 DEF DesktopResizes, bridgeVars
  <2>2. QED
    BY <1>1, <2>1, FlagStep
<1>21. ASSUME NEW t \in Threads, Send(t)
       PROVE  Clients'
  BY <1>21, SendKeeps
<1>22. CASE UNCHANGED vars
  BY <1>1, <1>22, FlagStep DEF vars
<1>23. QED
  BY <1>3, <1>4, <1>6, <1>7, <1>8, <1>9, <1>10, <1>11, <1>12, <1>13, <1>14, <1>15, <1>17,
     <1>18, <1>19, <1>20, <1>21, <1>22 DEF Next

LeaseInv == GeometryInv /\ Clients

LEMMA LeaseInvHolds == Spec => []LeaseInv
<1>1. ASSUME Init PROVE LeaseInv
  <2>1. GeometryInv
    BY <1>1 DEF Init, GeometryInv, LeaseType, Sizes, GeometryComesBack, ReplacedPaneIsTheDesktops
  <2>2. <<>> \in Seq(Messages) /\ <<>> \in Seq(Threads) /\ <<>> \in Seq(Tokens \cup {0})
    OBVIOUS
  <2>3. Len(turn) = 0
    BY <1>1 DEF Init
  <2>4. QueuesOK
    BY <1>1, <2>2, <2>3 DEF Init, QueuesOK, Idle, Distinct
  <2>5. BridgeType
    BY <1>1, <2>2 DEF Init, BridgeType
  <2>6. \A c \in Conns : link[c] = "down" /\ inbox[c] = <<>> /\ proj[c] = 0 /\ lease.owner # c
    BY <1>1, ThreadsApart DEF Init, NoLease
  <2>7. Gone
    BY <2>6 DEF Gone
  <2>8. Know
    BY <1>1, <2>6 DEF Init, Know, DesktopKnows
  <2>9. QED
    BY <2>1, <2>4, <2>5, <2>7, <2>8 DEF LeaseInv, Clients
<1>2. LeaseInv /\ [Next]_vars => LeaseInv'
  BY GeometryKept, ClientsKept DEF LeaseInv
<1>3. QED
  BY <1>1, <1>2, PTL DEF Spec

\* Everything the daemon, the bridges and the desktop keep of a lease is of
\* its type, and the threads that still have to send events
\* (broadcast_pane_lease_event) are those in the order of transitions, however
\* many connections there are.
THEOREM TypesCorrect == Spec => []TypeOK
<1>1. LeaseInv => TypeOK
  <2> SUFFICES ASSUME LeaseInv PROVE TypeOK
    OBVIOUS
  <2>1. QueuesOK /\ BridgeType /\ LeaseType
    BY DEF LeaseInv, Clients, GeometryInv
  <2>2. \A c \in Conns : inbox[c] \in Seq(Tokens \cup {0})
    BY <2>1 DEF BridgeType
  <2>3. \A t \in Threads : sending[t] \in Seq(Messages)
    BY <2>1 DEF QueuesOK
  <2>4. QED
    BY <2>1, <2>2, <2>3 DEF TypeOK, QueuesOK, BridgeType, LeaseType
<1>2. QED
  BY <1>1, LeaseInvHolds, PTL

\* When all events of the lease have been sent, in the order of the
\* transitions they are of, every bridge that has handled its queue knows the
\* lease it holds (apply_lease_event, renew_remote_leases) and the desktop
\* knows whether the pane is taken (applyRemotePaneLeaseEvent), for any number
\* of connections, whatever they claim, renew, release or drop meanwhile.
THEOREM LeaseIsKnown == Spec => []ClientsKnowTheLease
<1>1. LeaseInv => ClientsKnowTheLease
  <2> SUFFICES ASSUME LeaseInv, turn = <<>>, ~ crossed
               PROVE  /\ \A c \in Conns :
                            link[c] = "up" /\ inbox[c] = <<>>
                               => proj[c] = HeldBy(c) \/ (proj[c] = 0 /\ ~ lease.same)
                      /\ cover <=> lease # NoLease
    BY DEF ClientsKnowTheLease
  <2>1. (\A c \in Conns : link[c] = "up" => BridgeKnows(c)) /\ DesktopKnows
    BY DEF LeaseInv, Clients, Know
  <2>2. Len(turn) = 0
    OBVIOUS
  <2>3. \A c : Untold(c)
    BY <2>2 DEF Untold
  <2>4. QED
    BY <2>1, <2>3 DEF BridgeKnows, DesktopKnows, Settled, Arrived
<1>2. QED
  BY <1>1, LeaseInvHolds, PTL

=============================================================================
