-------------------------- MODULE PaneOutputProofs ---------------------------
(***************************************************************************)
(* The output of a pane and the terminal that shows it, for any number of  *)
(* frames, restarts and moves, any generations, and queues of any length.  *)
(***************************************************************************)
EXTENDS PaneOutput, SequenceTheorems, WellFoundedInduction, TLAPS

LEMMA Bounds ==
    /\ MaxSeq \in Nat /\ MaxLife \in Nat /\ MaxMoves \in Nat
    /\ QueueLen \in Nat \ {0} /\ PendingLen \in Nat \ {0}
    /\ Generations \subseteq Nat \ {0} /\ 1 \in Generations
  BY BoundsAssumption

\* The members of a sequence, and its last one.
Items(s) == {s[i] : i \in 1 .. Len(s)}
Newest(s) == s[Len(s)]

----------------------------------------------------------------------------
(***************************************************************************)
(* Queues.                                                                 *)
(***************************************************************************)
LEMMA AppendItems ==
    ASSUME NEW S, NEW s \in Seq(S), NEW e \in S
    PROVE  /\ Append(s, e) \in Seq(S) /\ Append(s, e) # <<>>
           /\ Len(Append(s, e)) = Len(s) + 1
           /\ Newest(Append(s, e)) = e
           /\ Items(Append(s, e)) = Items(s) \cup {e}
<1>1. /\ Append(s, e) \in Seq(S) /\ Len(Append(s, e)) = Len(s) + 1
      /\ \A i \in 1 .. Len(s) : Append(s, e)[i] = s[i]
      /\ Append(s, e)[Len(s) + 1] = e
  OBVIOUS
<1>2. Len(s) \in Nat
  OBVIOUS
<1>3. Append(s, e) # <<>>
  BY <1>1, <1>2, EmptySeq
<1>4. Items(Append(s, e)) \subseteq Items(s) \cup {e}
  BY <1>1, <1>2 DEF Items
<1>5. Items(s) \cup {e} \subseteq Items(Append(s, e))
  <2>1. 1 .. Len(s) \subseteq 1 .. Len(s) + 1 /\ Len(s) + 1 \in 1 .. Len(s) + 1
    BY <1>2
  <2>2. QED
    BY <1>1, <2>1 DEF Items
<1>6. QED
  BY <1>1, <1>3, <1>4, <1>5 DEF Newest

LEMMA TailItems ==
    ASSUME NEW S, NEW s \in Seq(S), s # <<>>
    PROVE  /\ Head(s) \in S /\ Head(s) \in Items(s)
           /\ Tail(s) \in Seq(S) /\ Len(Tail(s)) = Len(s) - 1
           /\ Items(Tail(s)) \subseteq Items(s)
           /\ Newest(s) \in Items(s)
           /\ IF Tail(s) = <<>> THEN Newest(s) = Head(s) ELSE Newest(Tail(s)) = Newest(s)
<1>1. /\ Head(s) \in S /\ Tail(s) \in Seq(S) /\ Len(Tail(s)) = Len(s) - 1
      /\ \A i \in 1 .. Len(Tail(s)) : Tail(s)[i] = s[i + 1]
  BY HeadTailProperties
<1>2. Len(s) \in Nat \ {0} /\ Head(s) = s[1]
  BY EmptySeq
<1>3. Head(s) \in Items(s) /\ Newest(s) \in Items(s)
  BY <1>2 DEF Items, Newest
<1>4. Items(Tail(s)) \subseteq Items(s)
  BY <1>1, <1>2 DEF Items
<1>5. CASE Tail(s) = <<>>
  <2>1. Len(Tail(s)) = 0
    <3> DEFINE t == Tail(s)
    <3> HIDE DEF t
    <3>1. t = <<>>
      BY <1>5 DEF t
    <3>2. Len(t) = 0
      BY <3>1
    <3>3. QED
      BY <3>2 DEF t
  <2>2. Len(s) = 1
    <3> DEFINE n == Len(s)
               m == Len(Tail(s))
    <3>1. m = n - 1 /\ n \in Nat /\ m = 0
      BY <1>1, <1>2, <2>1
    <3> HIDE DEF n, m
    <3>2. n = 1
      BY <3>1
    <3>3. QED
      BY <3>2 DEF n
  <2>3. QED
    BY <1>1, <1>2, <1>3, <1>4, <1>5, <2>2 DEF Newest
<1>6. CASE Tail(s) # <<>>
  <2>1. Len(Tail(s)) \in Nat \ {0}
    BY <1>1, <1>6, EmptySeq
  <2>2. Newest(Tail(s)) = Newest(s)
    BY <1>1, <1>2, <2>1 DEF Newest
  <2>3. QED
    BY <1>1, <1>3, <1>4, <1>6, <2>2
<1>7. QED
  BY <1>5, <1>6

\* Pushing keeps the bound, and the frame is the newest.
LEMMA PushItems ==
    ASSUME NEW s \in Seq(Frames), NEW f \in Frames, Len(s) <= PendingLen
    PROVE  /\ Push(s, f) \in Seq(Frames) /\ Len(Push(s, f)) <= PendingLen
           /\ Push(s, f) # <<>> /\ Newest(Push(s, f)) = f
           /\ Items(Push(s, f)) \subseteq Items(s) \cup {f}
<1>1. PendingLen \in Nat \ {0} /\ Len(s) \in Nat
  BY Bounds
<1>2. CASE Len(s) < PendingLen
  <2>1. Push(s, f) = Append(s, f)
    BY <1>2 DEF Push
  <2>2. QED
    BY <1>1, <1>2, <2>1, AppendItems
<1>3. CASE ~(Len(s) < PendingLen)
  <2>1. s # <<>>
    BY <1>1, <1>3
  <2>2. Push(s, f) = Append(Tail(s), f)
    BY <1>3 DEF Push
  <2>3. Tail(s) \in Seq(Frames) /\ Len(Tail(s)) = Len(s) - 1 /\ Items(Tail(s)) \subseteq Items(s)
    BY <2>1, TailItems
  <2> DEFINE t == Tail(s)
  <2>4. /\ Append(t, f) \in Seq(Frames) /\ Append(t, f) # <<>> /\ Len(Append(t, f)) = Len(t) + 1
        /\ Newest(Append(t, f)) = f /\ Items(Append(t, f)) = Items(t) \cup {f}
    <3> HIDE DEF t
    <3>1. t \in Seq(Frames)
      BY <2>3 DEF t
    <3>2. QED
      BY <3>1, AppendItems
  <2>5. QED
    BY <1>1, <2>2, <2>3, <2>4
<1>4. QED
  BY <1>2, <1>3

\* What is left after the first n.
LEMMA RestItems ==
    ASSUME NEW S, NEW s \in Seq(S), NEW n \in 0 .. Len(s)
    PROVE  /\ SubSeq(s, n + 1, Len(s)) \in Seq(S)
           /\ Len(SubSeq(s, n + 1, Len(s))) = Len(s) - n
           /\ Items(SubSeq(s, n + 1, Len(s))) \subseteq Items(s)
<1> DEFINE r == SubSeq(s, n + 1, Len(s))
<1>1. Len(s) \in Nat /\ n \in Nat /\ n + 1 \in Int /\ Len(s) \in Int
  OBVIOUS
<1>2. \A i \in n + 1 .. Len(s) : s[i] \in S
  BY <1>1
<1>3. /\ r \in Seq(S)
      /\ Len(r) = IF n + 1 <= Len(s) THEN Len(s) - (n + 1) + 1 ELSE 0
      /\ \A i \in 1 .. Len(s) - (n + 1) + 1 : r[i] = s[n + 1 + i - 1]
  BY <1>1, <1>2, SubSeqProperties
<1>4. Len(r) = Len(s) - n
  BY <1>1, <1>3
<1>5. \A i \in 1 .. Len(r) : r[i] = s[n + i] /\ n + i \in 1 .. Len(s)
  BY <1>1, <1>3, <1>4
<1> HIDE DEF r
<1>6. Items(r) \subseteq Items(s)
  BY <1>5 DEF Items
<1>7. QED
  BY <1>3, <1>4, <1>6 DEF r

----------------------------------------------------------------------------
(***************************************************************************)
(* The frames that wait when a snapshot is written.  Drained is defined by *)
(* recursion; there is one such function, and what holds of its values is  *)
(* shown for a least index where it would not.                             *)
(***************************************************************************)
LEMMA LeastElement ==
    ASSUME NEW S \in SUBSET Nat, S # {}
    PROVE  \E m \in S : \A n \in S : m <= n
<1>1. IsWellFoundedOn(OpToRel(<, Nat), Nat)
  BY NatLessThanWellFounded
<1>2. PICK m \in S : \A n \in S : ~ (<<n, m>> \in OpToRel(<, Nat))
  BY <1>1, WFMin
<1>3. \A n \in S : ~ (n < m)
  BY <1>2 DEF OpToRel
<1>4. QED
  BY <1>3

Undrained == [done |-> 0, at |-> cursor, spoiled |-> spoiled]

\* What the next frame, the i-th, makes of what the frames before it came to.
Drains(i, r) ==
    IF r.done < i - 1 \/ ~(Old(pending[i], r.at) \/ Next1(pending[i], r.at)) THEN r
    ELSE IF Old(pending[i], r.at) THEN [r EXCEPT !.done = i]
    ELSE [done |-> i, at |-> pending[i].at, spoiled |-> r.spoiled \/ Spoils(pending[i], r.at)]

LEMMA DrainedIs ==
    ASSUME pending \in Seq(Frames)
    PROVE  \A i \in 0 .. Len(pending) :
              Drained[i] = IF i = 0 THEN Undrained ELSE Drains(i, Drained[i - 1])
<1> DEFINE n == Len(pending)
           Upto(g, m) == g = [i \in 0 .. m |-> IF i = 0 THEN Undrained ELSE Drains(i, g[i - 1])]
<1>1. n \in Nat
  OBVIOUS
<1> HIDE DEF n
<1>2. \A m \in 0 .. n : \E g : Upto(g, m)
  <2> DEFINE bad == {m \in 0 .. n : ~ \E g : Upto(g, m)}
  <2>1. SUFFICES ASSUME bad # {} PROVE FALSE
    OBVIOUS
  <2>2. PICK m \in bad : \A k \in bad : m <= k
    <3>1. bad \in SUBSET Nat
      BY <1>1
    <3> HIDE DEF bad
    <3>2. QED
      BY <2>1, <3>1, LeastElement
  <2>3. m \in 0 .. n /\ ~ \E g : Upto(g, m)
    BY <2>2
  <2>4. CASE m = 0
    <3> DEFINE g == [i \in 0 .. 0 |-> Undrained]
    <3>1. Upto(g, 0)
      OBVIOUS
    <3>2. QED
      BY <2>3, <2>4, <3>1
  <2>5. CASE m # 0
    <3>1. m - 1 \in 0 .. n /\ m - 1 \notin bad /\ m \in Nat
      BY <1>1, <2>2, <2>3, <2>5
    <3>2. PICK h : Upto(h, m - 1)
      BY <3>1
    <3> DEFINE g == [i \in 0 .. m |-> IF i = m THEN Drains(m, h[m - 1]) ELSE h[i]]
    <3>3. \A i \in 0 .. m - 1 : g[i] = h[i]
      BY <3>1
    <3>4. g[m] = Drains(m, g[m - 1])
      BY <2>5, <3>1, <3>3
    <3>5. \A i \in 0 .. m - 1 : h[i] = IF i = 0 THEN Undrained ELSE Drains(i, h[i - 1])
      BY <3>2
    <3>6. \A i \in 0 .. m : g[i] = IF i = 0 THEN Undrained ELSE Drains(i, g[i - 1])
      <4> SUFFICES ASSUME NEW i \in 0 .. m
                   PROVE  g[i] = IF i = 0 THEN Undrained ELSE Drains(i, g[i - 1])
        OBVIOUS
      <4>1. CASE i = m
        BY <2>5, <3>4, <4>1
      <4>2. CASE i # m /\ i = 0
        BY <3>1, <3>3, <3>5, <4>2
      <4>3. CASE i # m /\ i # 0
        <5>1. i \in 0 .. m - 1 /\ i - 1 \in 0 .. m - 1
          BY <3>1, <4>3
        <5>2. g[i] = h[i] /\ g[i - 1] = h[i - 1] /\ h[i] = Drains(i, h[i - 1])
          BY <3>3, <3>5, <4>3, <5>1
        <5>3. QED
          BY <4>3, <5>2
      <4>4. QED
        BY <4>1, <4>2, <4>3
    <3>7. Upto(g, m)
      <4>1. g = [i \in 0 .. m |-> g[i]]
        OBVIOUS
      <4> HIDE DEF g
      <4>2. QED
        BY <3>6, <4>1
    <3>8. QED
      BY <2>3, <3>7
  <2>6. QED
    BY <2>4, <2>5
<1>3. \E g : Upto(g, n)
  BY <1>1, <1>2
<1>4. Drained = CHOOSE g : Upto(g, n)
  BY DEF Drained, n, Undrained, Drains
<1>5. Upto(Drained, n)
  BY <1>3, <1>4
<1>6. QED
  BY <1>5 DEF n

Drainings(i) == [done : 0 .. i, at : Cursors \cup {NoCursor}, spoiled : BOOLEAN]

LEMMA DrainedType ==
    ASSUME pending \in Seq(Frames), cursor \in Cursors \cup {NoCursor}, spoiled \in BOOLEAN
    PROVE  \A i \in 0 .. Len(pending) : Drained[i] \in Drainings(i)
<1> DEFINE Typed(i) == Drained[i] \in Drainings(i)
           bad == {i \in 0 .. Len(pending) : ~ Typed(i)}
<1>1. Len(pending) \in Nat
  OBVIOUS
<1>2. SUFFICES ASSUME bad # {} PROVE FALSE
  OBVIOUS
<1>3. PICK m \in bad : \A k \in bad : m <= k
  <2>1. bad \in SUBSET Nat
    BY <1>1
  <2> HIDE DEF bad
  <2>2. QED
    BY <1>2, <2>1, LeastElement
<1>4. m \in 0 .. Len(pending) /\ ~ Typed(m)
  BY <1>3
<1>5. m # 0
  BY <1>1, <1>4, DrainedIs DEF Undrained, Drainings
<1>6. m \in Nat /\ m - 1 \in 0 .. Len(pending) /\ m \in 1 .. Len(pending) /\ Typed(m - 1)
  BY <1>1, <1>3, <1>4, <1>5
<1>7. Drained[m] = Drains(m, Drained[m - 1])
  BY <1>4, <1>5, DrainedIs
<1>8. pending[m].at \in Cursors
  <2>1. pending[m] \in Frames
    BY <1>6, ElementOfSeq
  <2>2. QED
    BY <2>1 DEF Frames
<1> DEFINE r == Drained[m - 1]
<1>9. r \in Drainings(m - 1)
  BY <1>6
<1>10. \/ Drained[m] = r
       \/ Drained[m] = [r EXCEPT !.done = m] /\ Old(pending[m], r.at)
       \/ Drained[m] = [done |-> m, at |-> pending[m].at, spoiled |-> r.spoiled \/ Spoils(pending[m], r.at)]
  BY <1>7 DEF Drains
<1> HIDE DEF r
<1>11. CASE Drained[m] = r
  BY <1>4, <1>6, <1>9, <1>11 DEF Drainings
<1>12. CASE Drained[m] = [r EXCEPT !.done = m]
  BY <1>4, <1>6, <1>9, <1>12 DEF Drainings
<1>13. CASE Drained[m] = [done |-> m, at |-> pending[m].at, spoiled |-> r.spoiled \/ Spoils(pending[m], r.at)]
  <2>1. (r.spoiled \/ Spoils(pending[m], r.at)) \in BOOLEAN
    BY <1>9 DEF Drainings, Spoils
  <2>2. m \in 0 .. m
    BY <1>6
  <2>3. QED
    BY <1>4, <1>8, <1>13, <2>1, <2>2 DEF Drainings
<1>14. QED
  BY <1>10, <1>11, <1>12, <1>13

SameLife(c, d) == c.life = d.life /\ c.gen = d.gen

\* What the terminal takes for the next frame is the next one, if it is of
\* the same start of the daemon and no snapshot that is still to be covered.
LEMMA NextIsRight ==
    ASSUME NEW f \in Frames, NEW c \in Cursors, SameLife(f.at, c), Next1(f, c),
           f.snap => f.at.seq <= c.seq
    PROVE  ~ Spoils(f, c)
<1>1. f.at \in Cursors /\ c.seq \in Nat /\ f.at.seq = c.seq + 1
  BY Bounds DEF Frames, Cursors, Next1
<1>2. ~ f.snap
  BY <1>1
<1>3. f.at.life = c.life /\ f.at.gen = c.gen
  BY DEF SameLife
<1>4. f.at = [life |-> f.at.life, gen |-> f.at.gen, seq |-> f.at.seq]
  BY <1>1 DEF Cursors
<1>5. [c EXCEPT !.seq = @ + 1] = [life |-> c.life, gen |-> c.gen, seq |-> c.seq + 1]
  BY DEF Cursors
<1>6. QED
  BY <1>1, <1>2, <1>3, <1>4, <1>5 DEF Spoils

\* A drain goes on with the right frames, and past those it has looked at.
DrainsRight(i) ==
    /\ Drained[i].at \in {cursor} \cup {f.at : f \in Items(pending)}
    /\ cursor.seq <= Drained[i].at.seq
    /\ Drained[i].spoiled = spoiled
    /\ i # 0 /\ Drained[i].done = i => pending[i].at.seq <= Drained[i].at.seq

LEMMA DrainedRight ==
    ASSUME pending \in Seq(Frames), cursor \in Cursors, spoiled \in BOOLEAN,
           \A f \in Items(pending) :
              SameLife(f.at, cursor) /\ (f.snap => f.at.seq <= cursor.seq)
    PROVE  \A i \in 0 .. Len(pending) : DrainsRight(i)
<1> DEFINE bad == {i \in 0 .. Len(pending) : ~ DrainsRight(i)}
<1>1. Len(pending) \in Nat
  OBVIOUS
<1>2. SUFFICES ASSUME bad # {} PROVE FALSE
  OBVIOUS
<1>3. PICK m \in bad : \A k \in bad : m <= k
  <2>1. bad \in SUBSET Nat
    BY <1>1
  <2> HIDE DEF bad
  <2>2. QED
    BY <1>2, <2>1, LeastElement
<1>4. m \in 0 .. Len(pending) /\ ~ DrainsRight(m)
  BY <1>3
<1>5. m # 0
  <2>1. cursor.seq \in Nat
    BY Bounds DEF Cursors
  <2>2. ASSUME m = 0 PROVE Drained[m] = Undrained
    BY <1>4, <2>2, DrainedIs
  <2>3. QED
    BY <1>4, <2>1, <2>2 DEF Undrained, DrainsRight
<1>6. m \in Nat /\ m - 1 \in 0 .. Len(pending) /\ m \in 1 .. Len(pending) /\ DrainsRight(m - 1)
  BY <1>1, <1>3, <1>4, <1>5
<1>7. Drained[m] = Drains(m, Drained[m - 1])
  BY <1>4, <1>5, DrainedIs
<1> DEFINE r == Drained[m - 1]
           f == pending[m]
<1>8. f \in Frames /\ f \in Items(pending) /\ f.at \in Cursors
  <2>1. f \in Frames
    BY <1>6, ElementOfSeq
  <2>2. QED
    BY <1>6, <2>1 DEF Frames, Items
<1>9. r \in Drainings(m - 1)
  BY <1>6, DrainedType
<1>10. /\ r.at \in Cursors /\ SameLife(r.at, cursor) /\ cursor.seq <= r.at.seq
       /\ r.at \in {cursor} \cup {g.at : g \in Items(pending)}
       /\ r.spoiled = spoiled
  <2>1. cursor.seq <= r.at.seq /\ r.spoiled = spoiled
        /\ r.at \in {cursor} \cup {g.at : g \in Items(pending)}
    BY <1>6 DEF DrainsRight
  <2>2. SameLife(cursor, cursor)
    BY DEF SameLife
  <2>3. \A g \in Items(pending) : g \in Frames
    BY ElementOfSeq DEF Items
  <2>4. r.at \in Cursors /\ SameLife(r.at, cursor)
    BY <2>1, <2>2, <2>3 DEF Frames
  <2>5. QED
    BY <2>1, <2>4
<1>11. /\ cursor.seq \in Nat /\ r.at.seq \in Nat /\ f.at.seq \in Nat
       /\ r.done \in 0 .. m - 1
  BY <1>8, <1>9, <1>10, Bounds DEF Cursors, Drainings
<1>12. \/ Drained[m] = r
       \/ Drained[m] = [r EXCEPT !.done = m] /\ Old(f, r.at)
       \/ /\ Drained[m] = [done |-> m, at |-> f.at, spoiled |-> r.spoiled \/ Spoils(f, r.at)]
          /\ Next1(f, r.at)
  BY <1>7 DEF Drains
<1>13. Next1(f, r.at) => ~ Spoils(f, r.at)
  <2>1. SameLife(f.at, r.at)
    BY <1>8, <1>10 DEF SameLife
  <2>2. f.snap => f.at.seq <= r.at.seq
    BY <1>8, <1>10, <1>11
  <2> HIDE DEF f, r
  <2>3. QED
    BY <1>8, <1>10, <2>1, <2>2, NextIsRight
<1> HIDE DEF r, f
<1>14. CASE Drained[m] = r
  BY <1>4, <1>6, <1>10, <1>11, <1>14 DEF DrainsRight
<1>15. CASE Drained[m] = [r EXCEPT !.done = m] /\ Old(f, r.at)
  <2>1. Drained[m].at = r.at /\ Drained[m].spoiled = r.spoiled
    BY <1>9, <1>15 DEF Drainings
  <2>2. f.at.seq <= r.at.seq
    BY <1>15 DEF Old
  <2>3. QED
    BY <1>4, <1>10, <2>1, <2>2 DEF DrainsRight, f
<1>16. CASE /\ Drained[m] = [done |-> m, at |-> f.at, spoiled |-> r.spoiled \/ Spoils(f, r.at)]
            /\ Next1(f, r.at)
  <2>1. Drained[m].at = f.at /\ Drained[m].spoiled = r.spoiled
    BY <1>9, <1>13, <1>16 DEF Drainings
  <2>2. cursor.seq <= f.at.seq /\ f.at.seq <= f.at.seq
    BY <1>10, <1>11, <1>16 DEF Next1
  <2>3. QED
    BY <1>4, <1>8, <1>10, <2>1, <2>2 DEF DrainsRight, f
<1>17. QED
  BY <1>12, <1>14, <1>15, <1>16

\* What a drain comes to.
LEMMA DrainTypes ==
    ASSUME TypeOK, Drain
    PROVE  /\ cursor' \in Cursors \cup {NoCursor} /\ spoiled' \in BOOLEAN
           /\ pending' \in Seq(Frames) /\ Len(pending') <= PendingLen
           /\ Items(pending') \subseteq Items(pending)
           /\ again' \in BOOLEAN /\ (pending' # <<>> => again')
<1> DEFINE r == Drained[Len(pending)]
<1>1. /\ pending \in Seq(Frames) /\ Len(pending) <= PendingLen /\ Len(pending) \in Nat
      /\ cursor \in Cursors \cup {NoCursor} /\ spoiled \in BOOLEAN /\ again \in BOOLEAN
  BY DEF TypeOK
<1>2. r \in Drainings(Len(pending))
  BY <1>1, DrainedType
<1>3. /\ cursor' = r.at /\ spoiled' = r.spoiled
      /\ pending' = SubSeq(pending, r.done + 1, Len(pending))
      /\ again' = (again \/ r.done < Len(pending))
  BY DEF Drain
<1> HIDE DEF r
<1>4. /\ r.done \in 0 .. Len(pending) /\ r.at \in Cursors \cup {NoCursor} /\ r.spoiled \in BOOLEAN
  BY <1>2 DEF Drainings
<1>5. /\ pending' \in Seq(Frames) /\ Len(pending') = Len(pending) - r.done
      /\ Items(pending') \subseteq Items(pending)
  BY <1>1, <1>3, <1>4, RestItems
<1>6. pending' # <<>> => r.done < Len(pending)
  <2>1. pending' # <<>> => Len(pending') \in Nat \ {0}
    BY <1>5, EmptySeq
  <2>2. QED
    BY <1>1, <1>4, <1>5, <2>1
<1>7. Len(pending') <= PendingLen
  BY <1>1, <1>4, <1>5, Bounds
<1>8. QED
  BY <1>1, <1>3, <1>4, <1>5, <1>6, <1>7

LEMMA DrainRight ==
    ASSUME TypeOK, Drain, cursor # NoCursor,
           \A f \in Items(pending) :
              SameLife(f.at, cursor) /\ (f.snap => f.at.seq <= cursor.seq)
    PROVE  /\ cursor' \in {cursor} \cup {f.at : f \in Items(pending)}
           /\ cursor.seq <= cursor'.seq
           /\ spoiled' = spoiled
           /\ again' \/ Newest(pending).at.seq <= cursor'.seq
<1> DEFINE n == Len(pending)
<1>1. /\ pending \in Seq(Frames) /\ n \in Nat \ {0}
      /\ cursor \in Cursors /\ spoiled \in BOOLEAN
  BY EmptySeq DEF TypeOK, Drain
<1>2. DrainsRight(n)
  BY <1>1, DrainedRight
<1>3. Drained[n].done \in 0 .. n
  <2>1. Drained[n] \in Drainings(n)
    BY <1>1, DrainedType
  <2>2. QED
    BY <2>1 DEF Drainings
<1>4. /\ cursor' = Drained[n].at /\ spoiled' = Drained[n].spoiled
      /\ Drained[n].done < n => again'
  BY DEF Drain
<1> HIDE DEF n
<1>5. again' \/ Drained[n].done = n
  BY <1>1, <1>3, <1>4
<1>6. QED
  BY <1>1, <1>2, <1>4, <1>5 DEF DrainsRight, Newest, n

----------------------------------------------------------------------------
(***************************************************************************)
(* Types.                                                                  *)
(***************************************************************************)
LEMMA SendTypes ==
    ASSUME TypeOK, NEW f \in Frames, SendFrame(f)
    PROVE  /\ queue' \in Seq(Frames) /\ Len(queue') <= QueueLen /\ missed' \in BOOLEAN
           /\ Items(queue') \subseteq Items(queue) \cup {f}
           /\ missed' \/ (queue' # <<>> /\ Newest(queue') = f)
<1>1. queue \in Seq(Frames) /\ Len(queue) <= QueueLen /\ Len(queue) \in Nat /\ QueueLen \in Nat
  BY Bounds DEF TypeOK
<1>2. CASE Len(queue) < QueueLen
  <2>1. queue' = Append(queue, f) /\ missed' = FALSE
    BY <1>2 DEF SendFrame
  <2>2. /\ Append(queue, f) \in Seq(Frames) /\ Append(queue, f) # <<>>
        /\ Len(Append(queue, f)) = Len(queue) + 1
        /\ Newest(Append(queue, f)) = f
        /\ Items(Append(queue, f)) = Items(queue) \cup {f}
    BY <1>1, AppendItems
  <2>3. Len(queue) + 1 <= QueueLen
    BY <1>1, <1>2
  <2>4. QED
    BY <2>1, <2>2, <2>3
<1>3. CASE ~(Len(queue) < QueueLen)
  BY <1>1, <1>3 DEF SendFrame
<1>4. QED
  BY <1>2, <1>3

ReplayTypes ==
    /\ replay \in {"none", "asked", "answered", "writing"}
    /\ reply \in Cursors \cup {NoCursor}
    /\ {valid, again} \subseteq BOOLEAN

LEMMA RequestTypes ==
    ASSUME NEW going \in BOOLEAN, Request(going)
    PROVE  ReplayTypes'
  BY DEF Request, ReplayTypes

LEMMA AskTypes ==
    ASSUME TypeOK, AskForSnapshot
    PROVE  ReplayTypes'
  BY DEF AskForSnapshot, Request, ReplayTypes, TypeOK

LEMMA TypeStep ==
    ASSUME TypeOK, [Next]_vars
    PROVE  TypeOK'
<1>a. TypeOK /\ ReplayTypes
  BY DEF TypeOK, ReplayTypes
<1>1. CASE Record
  <2>1. pane' \in Cursors
    <3>1. pane \in Cursors /\ pane.seq < MaxSeq /\ pane' = [pane EXCEPT !.seq = @ + 1]
      BY <1>a, <1>1 DEF TypeOK, Record
    <3>2. pane.seq \in 0 .. MaxSeq
      BY <3>1 DEF Cursors
    <3>3. pane.seq + 1 \in 0 .. MaxSeq
      BY <3>1, <3>2, Bounds
    <3>4. QED
      BY <3>1, <3>3 DEF Cursors
  <2>2. hand' \in BOOLEAN
    BY <1>a, <1>1 DEF TypeOK, Record
  <2>3. UNCHANGED <<attached, queue, attachVars, replayVars, viewVars, shownVars, history>>
    BY <1>1 DEF Record
  <2>4. QED
    BY <1>a, <2>1, <2>2, <2>3
       DEF TypeOK, attachVars, replayVars, viewVars, shownVars, history
<1>2. CASE ReaderSends
  <2>1. [at |-> pane, snap |-> FALSE] \in Frames
    BY DEF TypeOK, Frames
  <2>2. queue' \in Seq(Frames) /\ Len(queue') <= QueueLen /\ missed' \in BOOLEAN
    BY <1>2, <2>1, SendTypes DEF ReaderSends, TypeOK
  <2>3. QED
    BY <1>a, <1>2, <2>2 DEF TypeOK, ReaderSends, daemonVars, attachVars, replayVars,
       viewVars, shownVars, history, vars
<1>3. CASE AttachHandled
  <2>1. [at |-> pane, snap |-> TRUE] \in Frames
    BY DEF TypeOK, Frames
  <2>2. queue' \in Seq(Frames) /\ Len(queue') <= QueueLen /\ missed' \in BOOLEAN
    BY <1>3, <2>1, SendTypes DEF AttachHandled, TypeOK
  <2>3. QED
    BY <1>a, <1>3, <2>2 DEF TypeOK, AttachHandled, daemonVars, attachVars, replayVars,
       viewVars, shownVars, history, vars
<1>4. CASE SubscribeHandled
  BY <1>a, <1>4 DEF TypeOK, SubscribeHandled, daemonVars, attachVars, replayVars,
     viewVars, shownVars, history, vars
<1>5. CASE Receive
  <2> DEFINE frame == Head(queue)
  <2>1. frame \in Frames /\ frame.at \in Cursors /\ queue' \in Seq(Frames) /\ Len(queue') <= QueueLen
    <3>1. queue \in Seq(Frames) /\ queue # <<>> /\ queue' = Tail(queue) /\ Len(queue) <= QueueLen
      BY <1>5 DEF TypeOK, Receive
    <3>2. /\ Head(queue) \in Frames /\ Tail(queue) \in Seq(Frames)
          /\ Len(Tail(queue)) = Len(queue) - 1
      BY <3>1, TailItems
    <3>3. Len(queue) - 1 <= QueueLen
      BY <3>1, Bounds
    <3>4. QED
      BY <3>1, <3>2, <3>3 DEF Frames
  <2>2. /\ pending' = pending \/ pending' = Push(pending, frame)
        /\ cursor' = cursor \/ Applied(frame)
        /\ AskForSnapshot \/ UNCHANGED replayVars
        /\ stale' \in BOOLEAN /\ parked' = parked
        /\ spoiled' = spoiled \/ Applied(frame)
        /\ UNCHANGED <<daemonVars, attachVars, viewVars, hurried, outlived, missed>>
    BY <1>5 DEF Receive, shownVars, replayVars, TypeOK
  <2> HIDE DEF frame
  <2>3. pending' \in Seq(Frames) /\ Len(pending') <= PendingLen
    <3>1. pending \in Seq(Frames) /\ Len(pending) <= PendingLen
      BY DEF TypeOK
    <3>2. Push(pending, frame) \in Seq(Frames) /\ Len(Push(pending, frame)) <= PendingLen
      BY <2>1, <3>1, PushItems
    <3>3. QED
      BY <2>2, <3>1, <3>2
  <2>4. cursor' \in Cursors \cup {NoCursor} /\ spoiled' \in BOOLEAN
    BY <2>1, <2>2 DEF TypeOK, Applied, Spoils
  <2>5. ReplayTypes'
    BY <1>a, <2>2, AskTypes DEF ReplayTypes, replayVars
  <2>6. QED
    BY <1>a, <2>1, <2>2, <2>3, <2>4, <2>5 DEF TypeOK, ReplayTypes, daemonVars,
       attachVars, viewVars
<1>6. CASE Hydrate
  BY <1>a, <1>6 DEF TypeOK, Hydrate, daemonVars, attachVars, replayVars, viewVars,
     shownVars, history, vars
<1>7. CASE DropReply
  <2>1. ReplayTypes'
    BY <1>7, RequestTypes DEF DropReply, EndReplay, TypeOK
  <2>2. QED
    BY <1>a, <1>7, <2>1 DEF TypeOK, ReplayTypes, DropReply, daemonVars, attachVars,
       replayVars, viewVars, shownVars, history, vars
<1>8. CASE Drain
  <2>1. /\ cursor' \in Cursors \cup {NoCursor} /\ spoiled' \in BOOLEAN
        /\ pending' \in Seq(Frames) /\ Len(pending') <= PendingLen /\ again' \in BOOLEAN
    BY <1>8, DrainTypes
  <2>2. QED
    BY <1>a, <1>8, <2>1 DEF TypeOK, Drain, daemonVars, attachVars, replayVars,
       viewVars, shownVars, history, vars
<1>9. CASE FinishReplay
  <2>1. ReplayTypes'
    BY <1>9, RequestTypes DEF FinishReplay, EndReplay, TypeOK
  <2>2. QED
    BY <1>a, <1>9, <2>1 DEF TypeOK, ReplayTypes, FinishReplay, daemonVars, attachVars,
       replayVars, viewVars, shownVars, history, vars
<1>10. CASE AttachDone
  <2>1. ReplayTypes'
    BY <1>a, <1>10, AskTypes DEF AttachDone, ReplayTypes, replayVars
  <2>2. QED
    BY <1>a, <1>10, <2>1 DEF TypeOK, ReplayTypes, AttachDone, daemonVars, attachVars,
       replayVars, viewVars, shownVars, history, vars
<1>11. CASE Mount
  <2>1. att' \in {"yes", "no"} /\ attachReq' \in {"none", "sent", "done"} /\ after' \in BOOLEAN
    BY <1>a, <1>11 DEF TypeOK, Mount, BeginAttach, attachVars
  <2>2. opened' = TRUE /\ visible' = TRUE
    BY <1>11 DEF Mount
  <2>3. UNCHANGED <<daemonVars, queue, replayVars, away, lost, moves, shownVars, history>>
    BY <1>11 DEF Mount
  <2>4. QED
    BY <1>a, <2>1, <2>2, <2>3 DEF TypeOK, daemonVars, replayVars, shownVars, history
<1>12. CASE Park
  <2>1. parked' = TRUE /\ stale' \in BOOLEAN
    BY <1>a, <1>12 DEF TypeOK, Park
  <2>2. UNCHANGED <<daemonVars, queue, attachVars, replayVars, viewVars, cursor, pending, history>>
    BY <1>12 DEF Park
  <2>3. QED
    BY <1>a, <2>1, <2>2 DEF TypeOK, daemonVars, attachVars, replayVars, viewVars, history
<1>13. CASE Hide
  BY <1>a, <1>13 DEF TypeOK, Hide, daemonVars, attachVars, replayVars, viewVars,
     shownVars, history, vars
<1>14. CASE Show
  <2>1. ReplayTypes'
    BY <1>a, <1>14, AskTypes DEF Show, ReplayTypes, replayVars
  <2>2. QED
    BY <1>a, <1>14, <2>1 DEF TypeOK, ReplayTypes, Show, daemonVars, attachVars,
       replayVars, viewVars, shownVars, history, vars
<1>15. CASE Leave
  <2>1. moves' \in 0 .. MaxMoves
    BY <1>15, Bounds DEF TypeOK, Leave
  <2>2. QED
    BY <1>15, <2>1 DEF TypeOK, Leave, daemonVars, attachVars, replayVars, viewVars,
       shownVars, history, vars
<1>16. CASE Return
  <2>1. /\ att' = "no" /\ attachReq' = "sent" /\ after' \in BOOLEAN
        /\ away' \in BOOLEAN /\ hurried' \in BOOLEAN
    BY <1>16 DEF TypeOK, Return, BeginAttach
  <2>2. UNCHANGED <<daemonVars, queue, replayVars, opened, visible, lost, moves, shownVars,
                    spoiled, outlived, missed>>
    BY <1>16 DEF Return
  <2>3. QED
    BY <2>1, <2>2 DEF TypeOK, daemonVars, replayVars, shownVars
<1>17. ASSUME NEW gen \in Generations, Restart(gen)
      PROVE  TypeOK'
  <2>1. pane.life + 1 \in 0 .. MaxLife /\ 0 \in 0 .. MaxSeq
    BY <1>17, Bounds DEF TypeOK, Restart, Cursors
  <2>2. pane' \in Cursors
    BY <1>17, <2>1 DEF Restart, Cursors
  <2>3. QED
    BY <1>17, <2>2 DEF TypeOK, Restart, daemonVars, attachVars, replayVars, viewVars,
       shownVars, history, vars
<1>18. CASE AttachFails
  BY <1>a, <1>18 DEF TypeOK, AttachFails, daemonVars, attachVars, replayVars, viewVars,
     shownVars, history, vars
<1>19. CASE SubscribeFails
  <2>1. ReplayTypes'
    BY <1>19, RequestTypes DEF SubscribeFails, EndReplay, TypeOK
  <2>2. QED
    BY <1>a, <1>19, <2>1 DEF TypeOK, ReplayTypes, SubscribeFails, daemonVars,
       attachVars, replayVars, viewVars, shownVars, history, vars
<1>20. CASE Reconnect
  <2>1. queue' \in Seq(Frames) /\ Len(queue') <= QueueLen
    BY <1>20, EmptySeq, Bounds DEF Reconnect
  <2>2. /\ cursor' \in {cursor, NoCursor} /\ valid' \in BOOLEAN /\ outlived' \in BOOLEAN
        /\ att' \in {"yes", "no"} /\ attachReq' \in {"none", "sent", "done"} /\ after' \in BOOLEAN
    <3>1. CASE (opened \/ pending # <<>>) /\ ~away
      BY <1>20, <3>1 DEF Reconnect, BeginAttach
    <3>2. CASE ~((opened \/ pending # <<>>) /\ ~away)
      BY <1>20, <3>2 DEF TypeOK, Reconnect, attachVars
    <3>3. QED
      BY <3>1, <3>2
  <2>3. /\ lost' = FALSE
        /\ UNCHANGED <<daemonVars, replay, reply, again, opened, visible, away, moves,
                       pending, parked, stale, spoiled, hurried, missed>>
    BY <1>20 DEF Reconnect
  <2>4. QED
    BY <2>1, <2>2, <2>3 DEF TypeOK, daemonVars
<1>21. CASE UNCHANGED vars
  BY <1>21 DEF TypeOK, daemonVars, attachVars, replayVars, viewVars, shownVars, history,
     vars
<1>22. QED
  BY <1>1, <1>2, <1>3, <1>4, <1>5, <1>6, <1>7, <1>8, <1>9, <1>10, <1>11, <1>12, <1>13,
     <1>14, <1>15, <1>16, <1>17, <1>18, <1>19, <1>20, <1>21 DEF Next

LEMMA InitTypes == Init => TypeOK
<1>1. 0 \in 0 .. MaxLife /\ 0 \in 0 .. MaxSeq /\ 0 \in 0 .. MaxMoves
  BY Bounds
<1>2. Init => pane \in Cursors
  BY <1>1, Bounds DEF Init, Cursors
<1>3. Init => /\ queue \in Seq(Frames) /\ Len(queue) <= QueueLen
              /\ pending \in Seq(Frames) /\ Len(pending) <= PendingLen
  BY Bounds, EmptySeq DEF Init
<1>4. QED
  BY <1>1, <1>2, <1>3 DEF Init, TypeOK

(***************************************************************************)
(* Frames and cursors are of the pane, and the queues keep their bounds.   *)
(***************************************************************************)
THEOREM TypesCorrect == Spec => []TypeOK
<1>1. Init => TypeOK
  BY InitTypes
<1>2. TypeOK /\ [Next]_vars => TypeOK'
  BY TypeStep
<1>3. QED
  BY <1>1, <1>2, PTL DEF Spec

----------------------------------------------------------------------------
(***************************************************************************)
(* The invariant.  Whatever happens:                                       *)
(***************************************************************************)
\* A terminal that has not been mounted shows nothing and asks for nothing; only
\* after a restart may it be attached, and then it holds frames of before.
Unmounted ==
    ~opened => /\ cursor = NoCursor /\ replay = "none" /\ ~away
               /\ Unattached \/ (outlived /\ pending # <<>>)

Links ==
    /\ lost => ~attached /\ ~hand
    /\ replay = "asked" => valid
    /\ again => replay # "none"
    /\ (opened \/ ~Unattached) /\ ~attached /\ ~lost /\ ~away => attachReq = "sent"
    /\ replay = "answered" => reply # NoCursor

(***************************************************************************)
(* And as long as nothing has disturbed the terminal:                      *)
(***************************************************************************)
Waiting == Items(queue) \cup Items(pending)

Answered == replay = "answered" /\ valid

\* The cursors of what waits, of the terminal, and of a snapshot it will take.
Held ==
    {f.at : f \in Waiting} \cup {c \in {cursor} : c # NoCursor} \cup {c \in {reply} : Answered}

\* They are of one start of the daemon, of this one if it can be reached.
OneLife ==
    /\ \A c, d \in Held : SameLife(c, d)
    /\ ~lost => \A c \in Held : SameLife(c, pane) /\ c.seq <= pane.seq

\* Frames come in the order in which the daemon has sent them.
Sorted(s) == \A i, j \in 1 .. Len(s) : i <= j => s[i].at.seq <= s[j].at.seq

InOrder ==
    /\ Sorted(queue)
    /\ \A f \in Items(pending), g \in Items(queue) : f.at.seq <= g.at.seq

\* A terminal that is not attached, or holds frames, will ask for a snapshot.
Attaching ==
    /\ replay = "writing" => cursor # NoCursor
    /\ attachReq # "none" => after
    /\ opened /\ ~lost /\ att = "no" => attachReq # "none"
    /\ attachReq = "sent" /\ ~attached /\ ~lost => att = "no" /\ ~Answered /\ replay # "writing"
    /\ replay = "answered" /\ ~valid => again \/ att = "no"
    /\ replay = "none" /\ att = "yes" => pending = <<>>
    /\ Answered /\ cursor # NoCursor => cursor.seq <= reply.seq

\* The snapshot that attach_pane has sent is old once the terminal looks at it.
Covered(f) ==
    CASE replay = "none"     -> att = "no" \/ (cursor # NoCursor /\ f.at.seq <= cursor.seq)
      [] replay = "writing"  -> f.at.seq <= cursor.seq
      [] replay = "answered" -> valid => f.at.seq <= reply.seq
      [] OTHER               -> TRUE

SnapshotsCovered == \A f \in Waiting : f.snap => Covered(f)

\* The newest output is on its way, or the terminal has it or will ask for it.
NewestKnown ==
    opened /\ attached /\ ~lost /\ ~missed =>
        \/ hand
        \/ cursor = pane
        \/ queue # <<>> /\ Newest(queue).at = pane
        \/ pending # <<>> /\ Newest(pending).at = pane
        \/ replay = "asked" \/ again
        \/ Answered /\ reply = pane
        \/ attachReq # "none"
        \/ replay = "none" /\ parked /\ stale

OutputInv ==
    /\ TypeOK /\ Unmounted /\ Links
    /\ Undisturbed => OneLife /\ InOrder /\ Attaching /\ SnapshotsCovered /\ NewestKnown /\ ~spoiled

\* A terminal that is mounted, and that nothing has disturbed, is attached then.
LEMMA MountAttaches ==
    ASSUME OutputInv, Undisturbed, Mount
    PROVE  Unattached /\ attachReq' = "sent" /\ att' = "no" /\ after'
<1>1. Unattached
  BY DEF OutputInv, Unmounted, Undisturbed, Mount
<1>2. QED
  BY <1>1 DEF Mount, BeginAttach

LEMMA UnmountedStep ==
    ASSUME OutputInv, [Next]_vars
    PROVE  Unmounted'
<1>a. TypeOK /\ Unmounted
  BY DEF OutputInv
<1>1. CASE Record
  BY <1>1, <1>a DEF Unmounted, Unattached, TypeOK, Record, daemonVars, attachVars, replayVars,
     viewVars, shownVars, history, vars
<1>2. CASE ReaderSends
  BY <1>2, <1>a DEF Unmounted, Unattached, TypeOK, ReaderSends, daemonVars, attachVars, replayVars,
     viewVars, shownVars, history, vars
<1>3. CASE AttachHandled
  BY <1>3, <1>a DEF Unmounted, Unattached, TypeOK, AttachHandled, daemonVars, attachVars,
     replayVars, viewVars, shownVars, history, vars
<1>4. CASE SubscribeHandled
  BY <1>4, <1>a DEF Unmounted, Unattached, TypeOK, SubscribeHandled, daemonVars, attachVars,
     replayVars, viewVars, shownVars, history, vars
<1>5. CASE Receive
  <2>1. SUFFICES ASSUME ~opened' PROVE Unmounted'
    BY DEF Unmounted
  <2>2. ~opened /\ UNCHANGED <<att, attachReq, away, outlived>>
    BY <1>5, <2>1 DEF Receive, attachVars, viewVars
  <2>3. pending' = Push(pending, Head(queue)) /\ UNCHANGED replayVars /\ UNCHANGED cursor
    BY <1>5, <2>2 DEF Receive, Ready
  <2>4. pending' # <<>>
    <3>1. queue \in Seq(Frames) /\ queue # <<>>
      BY <1>5, <1>a DEF Receive, TypeOK
    <3>2. Head(queue) \in Frames
      BY <3>1
    <3>3. pending \in Seq(Frames) /\ Len(pending) <= PendingLen
      BY <1>a DEF TypeOK
    <3>4. QED
      BY <2>3, <3>2, <3>3, PushItems
  <2>5. QED
    BY <1>a, <2>2, <2>3, <2>4 DEF Unmounted, Unattached, replayVars
<1>6. CASE Hydrate
  BY <1>6, <1>a DEF Unmounted, Unattached, TypeOK, Hydrate, daemonVars, attachVars, replayVars,
     viewVars, shownVars, history, vars
<1>7. CASE DropReply
  BY <1>7, <1>a DEF Unmounted, Unattached, TypeOK, DropReply, EndReplay, Request, daemonVars,
     attachVars, replayVars, viewVars, shownVars, history, vars
<1>8. CASE Drain
  BY <1>8, <1>a DEF Unmounted, Unattached, TypeOK, Drain, daemonVars, attachVars, replayVars,
     viewVars, shownVars, history, vars
<1>9. CASE FinishReplay
  BY <1>9, <1>a DEF Unmounted, Unattached, TypeOK, FinishReplay, EndReplay, Request, daemonVars,
     attachVars, replayVars, viewVars, shownVars, history, vars
<1>10. CASE AttachDone
  BY <1>10, <1>a DEF Unmounted, Unattached, TypeOK, AttachDone, AskForSnapshot, Request, daemonVars,
     attachVars, replayVars, viewVars, shownVars, history, vars
<1>11. CASE Mount
  BY <1>11, <1>a DEF Unmounted, Unattached, TypeOK, Mount, BeginAttach, daemonVars, attachVars,
     replayVars, viewVars, shownVars, history, vars
<1>12. CASE Park
  BY <1>12, <1>a DEF Unmounted, Unattached, TypeOK, Park, daemonVars, attachVars, replayVars,
     viewVars, shownVars, history, vars
<1>13. CASE Hide
  BY <1>13, <1>a DEF Unmounted, Unattached, TypeOK, Hide, daemonVars, attachVars, replayVars,
     viewVars, shownVars, history, vars
<1>14. CASE Show
  BY <1>14, <1>a DEF Unmounted, Unattached, TypeOK, Show, AskForSnapshot, Request, daemonVars,
     attachVars, replayVars, viewVars, shownVars, history, vars
<1>15. CASE Leave
  BY <1>15, <1>a DEF Unmounted, Unattached, TypeOK, Leave, daemonVars, attachVars, replayVars,
     viewVars, shownVars, history, vars
<1>16. CASE Return
  BY <1>16, <1>a DEF Unmounted, Unattached, TypeOK, Return, BeginAttach, daemonVars, attachVars,
     replayVars, viewVars, shownVars, history, vars
<1>17. ASSUME NEW gen \in Generations, Restart(gen)
      PROVE  Unmounted'
  BY <1>17, <1>a DEF Unmounted, Unattached, TypeOK, Restart, daemonVars, attachVars, replayVars,
     viewVars, shownVars, history, vars
<1>18. CASE AttachFails
  BY <1>18, <1>a DEF Unmounted, Unattached, TypeOK, AttachFails, daemonVars, attachVars, replayVars,
     viewVars, shownVars, history, vars
<1>19. CASE SubscribeFails
  BY <1>19, <1>a DEF Unmounted, Unattached, TypeOK, SubscribeFails, EndReplay, Request, daemonVars,
     attachVars, replayVars, viewVars, shownVars, history, vars
<1>20. CASE Reconnect
  BY <1>20, <1>a DEF Unmounted, Unattached, TypeOK, Reconnect, BeginAttach, daemonVars, attachVars,
     replayVars, viewVars, shownVars, history, vars
<1>21. CASE UNCHANGED vars
  BY <1>21, <1>a DEF Unmounted, Unattached, TypeOK, daemonVars, attachVars, replayVars, viewVars,
     shownVars, history, vars
<1>22. QED
  BY <1>1, <1>2, <1>3, <1>4, <1>5, <1>6, <1>7, <1>8, <1>9, <1>10, <1>11, <1>12, <1>13,
     <1>14, <1>15, <1>16, <1>17, <1>18, <1>19, <1>20, <1>21 DEF Next

LEMMA CursorIsNone ==
    ASSUME NEW c \in Cursors
    PROVE  c # NoCursor /\ c.seq \in Nat /\ c.gen # 0
  BY Bounds DEF Cursors, NoCursor

LEMMA LinksStep ==
    ASSUME OutputInv, [Next]_vars
    PROVE  Links'
<1>a. TypeOK /\ Unmounted /\ Links
  BY DEF OutputInv
<1>b. pane # NoCursor
  BY <1>a, CursorIsNone DEF TypeOK
<1>1. CASE Record
  BY <1>1, <1>a DEF Links, Unmounted, Unattached, TypeOK, Record, daemonVars, attachVars,
     replayVars, viewVars, shownVars, history, vars
<1>2. CASE ReaderSends
  BY <1>2, <1>a DEF Links, Unmounted, Unattached, TypeOK, ReaderSends, daemonVars, attachVars,
     replayVars, viewVars, shownVars, history, vars
<1>3. CASE AttachHandled
  BY <1>3, <1>a DEF Links, Unmounted, Unattached, TypeOK, AttachHandled, daemonVars, attachVars,
     replayVars, viewVars, shownVars, history, vars
<1>4. CASE SubscribeHandled
  BY <1>4, <1>a, <1>b DEF Links, Unmounted, Unattached, TypeOK, SubscribeHandled, daemonVars,
     attachVars, replayVars, viewVars, shownVars, history, vars
<1>5. CASE Receive
  BY <1>5, <1>a DEF Links, Unmounted, Unattached, TypeOK, Receive, AskForSnapshot, Request,
     daemonVars, attachVars, replayVars, viewVars, shownVars, history, vars
<1>6. CASE Hydrate
  BY <1>6, <1>a DEF Links, Unmounted, Unattached, TypeOK, Hydrate, daemonVars, attachVars,
     replayVars, viewVars, shownVars, history, vars
<1>7. CASE DropReply
  BY <1>7, <1>a DEF Links, Unmounted, Unattached, TypeOK, DropReply, EndReplay, Request, daemonVars,
     attachVars, replayVars, viewVars, shownVars, history, vars
<1>8. CASE Drain
  BY <1>8, <1>a DEF Links, Unmounted, Unattached, TypeOK, Drain, daemonVars, attachVars, replayVars,
     viewVars, shownVars, history, vars
<1>9. CASE FinishReplay
  BY <1>9, <1>a DEF Links, Unmounted, Unattached, TypeOK, FinishReplay, EndReplay, Request,
     daemonVars, attachVars, replayVars, viewVars, shownVars, history, vars
<1>10. CASE AttachDone
  BY <1>10, <1>a DEF Links, Unmounted, Unattached, TypeOK, AttachDone, AskForSnapshot, Request,
     daemonVars, attachVars, replayVars, viewVars, shownVars, history, vars
<1>11. CASE Mount
  BY <1>11, <1>a DEF Links, Unmounted, Unattached, TypeOK, Mount, BeginAttach, daemonVars,
     attachVars, replayVars, viewVars, shownVars, history, vars
<1>12. CASE Park
  BY <1>12, <1>a DEF Links, Unmounted, Unattached, TypeOK, Park, daemonVars, attachVars, replayVars,
     viewVars, shownVars, history, vars
<1>13. CASE Hide
  BY <1>13, <1>a DEF Links, Unmounted, Unattached, TypeOK, Hide, daemonVars, attachVars, replayVars,
     viewVars, shownVars, history, vars
<1>14. CASE Show
  BY <1>14, <1>a DEF Links, Unmounted, Unattached, TypeOK, Show, AskForSnapshot, Request,
     daemonVars, attachVars, replayVars, viewVars, shownVars, history, vars
<1>15. CASE Leave
  BY <1>15, <1>a DEF Links, Unmounted, Unattached, TypeOK, Leave, daemonVars, attachVars,
     replayVars, viewVars, shownVars, history, vars
<1>16. CASE Return
  BY <1>16, <1>a DEF Links, Unmounted, Unattached, TypeOK, Return, BeginAttach, daemonVars,
     attachVars, replayVars, viewVars, shownVars, history, vars
<1>17. ASSUME NEW gen \in Generations, Restart(gen)
      PROVE  Links'
  BY <1>17, <1>a DEF Links, Unmounted, Unattached, TypeOK, Restart, daemonVars, attachVars,
     replayVars, viewVars, shownVars, history, vars
<1>18. CASE AttachFails
  BY <1>18, <1>a DEF Links, Unmounted, Unattached, TypeOK, AttachFails, daemonVars, attachVars,
     replayVars, viewVars, shownVars, history, vars
<1>19. CASE SubscribeFails
  BY <1>19, <1>a DEF Links, Unmounted, Unattached, TypeOK, SubscribeFails, EndReplay, Request,
     daemonVars, attachVars, replayVars, viewVars, shownVars, history, vars
<1>20. CASE Reconnect
  BY <1>20, <1>a DEF Links, Unmounted, Unattached, TypeOK, Reconnect, BeginAttach, daemonVars,
     attachVars, replayVars, viewVars, shownVars, history, vars
<1>21. CASE UNCHANGED vars
  BY <1>21, <1>a DEF Links, Unmounted, Unattached, TypeOK, daemonVars, attachVars, replayVars,
     viewVars, shownVars, history, vars
<1>22. QED
  BY <1>1, <1>2, <1>3, <1>4, <1>5, <1>6, <1>7, <1>8, <1>9, <1>10, <1>11, <1>12, <1>13,
     <1>14, <1>15, <1>16, <1>17, <1>18, <1>19, <1>20, <1>21 DEF Next

\* What has disturbed the terminal has done so for good.
LEMMA UndisturbedBefore ==
    ASSUME [Next]_vars, Undisturbed'
    PROVE  Undisturbed
<1>1. CASE Record
  BY <1>1 DEF Undisturbed, Record, daemonVars, attachVars, replayVars, viewVars,
     shownVars, history, vars
<1>2. CASE ReaderSends
  BY <1>2 DEF Undisturbed, ReaderSends, daemonVars, attachVars, replayVars, viewVars,
     shownVars, history, vars
<1>3. CASE AttachHandled
  BY <1>3 DEF Undisturbed, AttachHandled, daemonVars, attachVars, replayVars, viewVars,
     shownVars, history, vars
<1>4. CASE SubscribeHandled
  BY <1>4 DEF Undisturbed, SubscribeHandled, daemonVars, attachVars, replayVars,
     viewVars, shownVars, history, vars
<1>5. CASE Receive
  BY <1>5 DEF Undisturbed, Receive, AskForSnapshot, Request, daemonVars, attachVars,
     replayVars, viewVars, shownVars, history, vars
<1>6. CASE Hydrate
  BY <1>6 DEF Undisturbed, Hydrate, daemonVars, attachVars, replayVars, viewVars,
     shownVars, history, vars
<1>7. CASE DropReply
  BY <1>7 DEF Undisturbed, DropReply, EndReplay, Request, daemonVars, attachVars,
     replayVars, viewVars, shownVars, history, vars
<1>8. CASE Drain
  BY <1>8 DEF Undisturbed, Drain, daemonVars, attachVars, replayVars, viewVars,
     shownVars, history, vars
<1>9. CASE FinishReplay
  BY <1>9 DEF Undisturbed, FinishReplay, EndReplay, Request, daemonVars, attachVars,
     replayVars, viewVars, shownVars, history, vars
<1>10. CASE AttachDone
  BY <1>10 DEF Undisturbed, AttachDone, AskForSnapshot, Request, daemonVars, attachVars,
     replayVars, viewVars, shownVars, history, vars
<1>11. CASE Mount
  BY <1>11 DEF Undisturbed, Mount, BeginAttach, daemonVars, attachVars, replayVars,
     viewVars, shownVars, history, vars
<1>12. CASE Park
  BY <1>12 DEF Undisturbed, Park, daemonVars, attachVars, replayVars, viewVars,
     shownVars, history, vars
<1>13. CASE Hide
  BY <1>13 DEF Undisturbed, Hide, daemonVars, attachVars, replayVars, viewVars,
     shownVars, history, vars
<1>14. CASE Show
  BY <1>14 DEF Undisturbed, Show, AskForSnapshot, Request, daemonVars, attachVars,
     replayVars, viewVars, shownVars, history, vars
<1>15. CASE Leave
  BY <1>15 DEF Undisturbed, Leave, daemonVars, attachVars, replayVars, viewVars,
     shownVars, history, vars
<1>16. CASE Return
  BY <1>16 DEF Undisturbed, Return, BeginAttach, daemonVars, attachVars, replayVars,
     viewVars, shownVars, history, vars
<1>17. ASSUME NEW gen \in Generations, Restart(gen)
      PROVE  Undisturbed
  BY <1>17 DEF Undisturbed, Restart, daemonVars, attachVars, replayVars, viewVars,
     shownVars, history, vars
<1>18. CASE AttachFails
  BY <1>18 DEF Undisturbed, AttachFails, daemonVars, attachVars, replayVars, viewVars,
     shownVars, history, vars
<1>19. CASE SubscribeFails
  BY <1>19 DEF Undisturbed, SubscribeFails, EndReplay, Request, daemonVars, attachVars,
     replayVars, viewVars, shownVars, history, vars
<1>20. CASE Reconnect
  BY <1>20 DEF Undisturbed, Reconnect, BeginAttach, daemonVars, attachVars, replayVars,
     viewVars, shownVars, history, vars
<1>21. CASE UNCHANGED vars
  BY <1>21 DEF Undisturbed, daemonVars, attachVars, replayVars, viewVars, shownVars,
     history, vars
<1>22. QED
  BY <1>1, <1>2, <1>3, <1>4, <1>5, <1>6, <1>7, <1>8, <1>9, <1>10, <1>11, <1>12, <1>13,
     <1>14, <1>15, <1>16, <1>17, <1>18, <1>19, <1>20, <1>21 DEF Next


\* Frames reach the terminal from the daemon, which makes them of the pane as it is.
LEMMA WaitingStep ==
    ASSUME OutputInv, [Next]_vars
    PROVE  \/ Waiting' \subseteq Waiting
           \/ /\ ~lost /\ hand
              /\ Waiting' \subseteq Waiting \cup {[at |-> pane, snap |-> FALSE]}
           \/ /\ AttachHandled /\ ~attached
              /\ Waiting' \subseteq Waiting \cup {[at |-> pane, snap |-> TRUE]}
<1> DEFINE Goal == \/ Waiting' \subseteq Waiting
                   \/ /\ ~lost /\ hand
                      /\ Waiting' \subseteq Waiting \cup {[at |-> pane, snap |-> FALSE]}
                   \/ /\ AttachHandled /\ ~attached
                      /\ Waiting' \subseteq Waiting \cup {[at |-> pane, snap |-> TRUE]}
<1>a. TypeOK /\ Links
  BY DEF OutputInv
<1>b. Items(<<>>) = {}
  BY DEF Items
<1>1. CASE Record
  <2>1. UNCHANGED <<queue, pending>>
    BY <1>1 DEF Record, daemonVars, attachVars, replayVars, viewVars, shownVars,
       history, vars
  <2>2. QED
    BY <2>1 DEF Waiting
<1>2. CASE ReaderSends
  <2>1. [at |-> pane, snap |-> FALSE] \in Frames
    BY <1>a DEF TypeOK, Frames
  <2>2. Items(queue') \subseteq Items(queue) \cup {[at |-> pane, snap |-> FALSE]}
    BY <1>a, <1>2, <2>1, SendTypes DEF ReaderSends
  <2>3. pending' = pending /\ ~lost /\ hand
    BY <1>a, <1>2 DEF ReaderSends, shownVars, Links
  <2>4. QED
    BY <2>2, <2>3 DEF Waiting
<1>3. CASE AttachHandled
  <2>1. pending' = pending
    BY <1>3 DEF AttachHandled, shownVars
  <2>2. CASE queue' = queue
    BY <2>1, <2>2 DEF Waiting
  <2>3. CASE queue' # queue
    <3>1. ~attached /\ SendFrame([at |-> pane, snap |-> TRUE])
      BY <1>3, <2>3 DEF AttachHandled
    <3>2. [at |-> pane, snap |-> TRUE] \in Frames
      BY <1>a DEF TypeOK, Frames
    <3>3. Items(queue') \subseteq Items(queue) \cup {[at |-> pane, snap |-> TRUE]}
      BY <1>a, <3>1, <3>2, SendTypes
    <3>4. QED
      BY <1>3, <2>1, <3>1, <3>3 DEF Waiting
  <2>4. QED
    BY <2>2, <2>3
<1>4. CASE SubscribeHandled
  <2>1. UNCHANGED <<queue, pending>>
    BY <1>4 DEF SubscribeHandled, daemonVars, attachVars, replayVars, viewVars,
       shownVars, history, vars
  <2>2. QED
    BY <2>1 DEF Waiting
<1>5. CASE Receive
  <2>1. queue \in Seq(Frames) /\ queue # <<>> /\ queue' = Tail(queue) /\ pending \in Seq(Frames)
        /\ Len(pending) <= PendingLen
    BY <1>a, <1>5 DEF TypeOK, Receive
  <2>2. Items(queue') \subseteq Items(queue) /\ Head(queue) \in Items(queue) /\ Head(queue) \in Frames
    BY <2>1, TailItems
  <2>3. pending' = pending \/ pending' = Push(pending, Head(queue))
    BY <1>5 DEF Receive, shownVars
  <2>4. Items(pending') \subseteq Items(pending) \cup {Head(queue)}
    BY <2>1, <2>2, <2>3, PushItems
  <2>5. QED
    BY <2>2, <2>4 DEF Waiting
<1>6. CASE Hydrate
  <2>1. UNCHANGED <<queue, pending>>
    BY <1>6 DEF Hydrate, daemonVars, attachVars, replayVars, viewVars, shownVars,
       history, vars
  <2>2. QED
    BY <2>1 DEF Waiting
<1>7. CASE DropReply
  <2>1. UNCHANGED <<queue, pending>>
    BY <1>7 DEF DropReply, EndReplay, Request, daemonVars, attachVars, replayVars,
       viewVars, shownVars, history, vars
  <2>2. QED
    BY <2>1 DEF Waiting
<1>8. CASE Drain
  <2>1. Items(pending') \subseteq Items(pending) /\ queue' = queue
    BY <1>a, <1>8, DrainTypes DEF Drain
  <2>2. QED
    BY <2>1 DEF Waiting
<1>9. CASE FinishReplay
  <2>1. UNCHANGED <<queue, pending>>
    BY <1>9 DEF FinishReplay, EndReplay, Request, daemonVars, attachVars, replayVars,
       viewVars, shownVars, history, vars
  <2>2. QED
    BY <2>1 DEF Waiting
<1>10. CASE AttachDone
  <2>1. UNCHANGED <<queue, pending>>
    BY <1>10 DEF AttachDone, AskForSnapshot, Request, daemonVars, attachVars,
       replayVars, viewVars, shownVars, history, vars
  <2>2. QED
    BY <2>1 DEF Waiting
<1>11. CASE Mount
  <2>1. UNCHANGED <<queue, pending>>
    BY <1>11 DEF Mount, BeginAttach, daemonVars, attachVars, replayVars, viewVars,
       shownVars, history, vars
  <2>2. QED
    BY <2>1 DEF Waiting
<1>12. CASE Park
  <2>1. UNCHANGED <<queue, pending>>
    BY <1>12 DEF Park, daemonVars, attachVars, replayVars, viewVars, shownVars,
       history, vars
  <2>2. QED
    BY <2>1 DEF Waiting
<1>13. CASE Hide
  <2>1. UNCHANGED <<queue, pending>>
    BY <1>13 DEF Hide, daemonVars, attachVars, replayVars, viewVars, shownVars,
       history, vars
  <2>2. QED
    BY <2>1 DEF Waiting
<1>14. CASE Show
  <2>1. UNCHANGED <<queue, pending>>
    BY <1>14 DEF Show, AskForSnapshot, Request, daemonVars, attachVars, replayVars,
       viewVars, shownVars, history, vars
  <2>2. QED
    BY <2>1 DEF Waiting
<1>15. CASE Leave
  <2>1. UNCHANGED <<queue, pending>>
    BY <1>15 DEF Leave, daemonVars, attachVars, replayVars, viewVars, shownVars,
       history, vars
  <2>2. QED
    BY <2>1 DEF Waiting
<1>16. CASE Return
  <2>1. UNCHANGED <<queue, pending>>
    BY <1>16 DEF Return, BeginAttach, daemonVars, attachVars, replayVars, viewVars,
       shownVars, history, vars
  <2>2. QED
    BY <2>1 DEF Waiting
<1>17. ASSUME NEW gen \in Generations, Restart(gen)
      PROVE  Goal
  <2>1. UNCHANGED <<queue, pending>>
    BY <1>17 DEF Restart, daemonVars, attachVars, replayVars, viewVars, shownVars,
       history, vars
  <2>2. QED
    BY <2>1 DEF Waiting
<1>18. CASE AttachFails
  <2>1. UNCHANGED <<queue, pending>>
    BY <1>18 DEF AttachFails, daemonVars, attachVars, replayVars, viewVars, shownVars,
       history, vars
  <2>2. QED
    BY <2>1 DEF Waiting
<1>19. CASE SubscribeFails
  <2>1. UNCHANGED <<queue, pending>>
    BY <1>19 DEF SubscribeFails, EndReplay, Request, daemonVars, attachVars,
       replayVars, viewVars, shownVars, history, vars
  <2>2. QED
    BY <2>1 DEF Waiting
<1>20. CASE Reconnect
  <2>1. queue' = <<>> /\ pending' = pending
    BY <1>20 DEF Reconnect
  <2>2. QED
    BY <1>b, <2>1 DEF Waiting
<1>21. CASE UNCHANGED vars
  <2>1. UNCHANGED <<queue, pending>>
    BY <1>21 DEF daemonVars, attachVars, replayVars, viewVars, shownVars, history, vars
  <2>2. QED
    BY <2>1 DEF Waiting
<1>22. QED
  BY <1>1, <1>2, <1>3, <1>4, <1>5, <1>6, <1>7, <1>8, <1>9, <1>10, <1>11, <1>12, <1>13,
     <1>14, <1>15, <1>16, <1>17, <1>18, <1>19, <1>20, <1>21 DEF Next

LEMMA HeldAreCursors ==
    ASSUME TypeOK, Links
    PROVE  /\ \A f \in Waiting : f \in Frames /\ f.at \in Cursors /\ f.at \in Held
           /\ Held \subseteq Cursors
           /\ cursor # NoCursor => cursor \in Cursors /\ cursor \in Held
           /\ Answered => reply \in Held
<1>1. \A f \in Waiting : f \in Frames
  BY ElementOfSeq DEF TypeOK, Waiting, Items
<1>2. \A f \in Waiting : f.at \in Cursors
  BY <1>1 DEF Frames
<1>3. cursor # NoCursor => cursor \in Cursors
  BY DEF TypeOK
<1>4. Answered => reply \in Cursors
  BY DEF TypeOK, Answered, Links
<1>5. QED
  BY <1>1, <1>2, <1>3, <1>4 DEF Held

\* The cursors stay of one start while new ones are those of the pane, and the
\* pane goes on.
LEMMA OneLifeKept ==
    ASSUME OneLife, Held' \subseteq Held \cup {c \in {pane} : ~lost},
           \/ lost'
           \/ ~lost /\ SameLife(pane', pane) /\ pane.seq <= pane'.seq,
           TypeOK, Links, TypeOK'
    PROVE  OneLife'
<1>1. \A c, d \in Held' : SameLife(c, d)
  BY DEF OneLife, SameLife
<1>2. ASSUME ~lost', NEW c \in Held'
      PROVE  SameLife(c, pane') /\ c.seq <= pane'.seq
  <2>1. SameLife(c, pane) /\ c.seq <= pane.seq /\ c.seq \in Nat
    <3>1. pane.seq \in Nat
      BY CursorIsNone DEF TypeOK
    <3>2. c \in Cursors
      BY <1>2, HeldAreCursors DEF TypeOK
    <3>3. QED
      BY <1>2, <3>1, <3>2, CursorIsNone DEF OneLife, SameLife
  <2>2. pane.seq \in Nat /\ pane'.seq \in Nat
    BY CursorIsNone DEF TypeOK
  <2>3. QED
    BY <1>2, <2>1, <2>2 DEF SameLife
<1>3. QED
  BY <1>1, <1>2 DEF OneLife

LEMMA HeldKept ==
    ASSUME NEW X, \A f \in Waiting' : f \in Waiting \/ f.at \in X,
           cursor' \in {cursor, NoCursor} \cup Held \cup X,
           Answered' => (Answered /\ reply' = reply) \/ reply' \in X
    PROVE  Held' \subseteq Held \cup X
<1>1. \A f \in Waiting' : f.at \in Held \cup X
  BY DEF Held
<1>2. cursor' # NoCursor => cursor' \in Held \cup X
  BY DEF Held
<1>3. Answered' => reply' \in Held \cup X
  BY DEF Held
<1>4. QED
  BY <1>1, <1>2, <1>3 DEF Held

\* Another request makes no reply.
LEMMA AskedAgain ==
    ASSUME AskForSnapshot \/ EndReplay \/ UNCHANGED replayVars
    PROVE  Answered' => Answered /\ reply' = reply
<1>1. CASE AskForSnapshot
  BY <1>1 DEF AskForSnapshot, Request, Answered
<1>2. CASE EndReplay
  BY <1>2 DEF EndReplay, Request, Answered
<1>3. CASE UNCHANGED replayVars
  BY <1>3 DEF Answered, replayVars
<1>4. QED
  BY <1>1, <1>2, <1>3

\* Receiving moves a frame on.
LEMMA ReceiveTakes ==
    ASSUME TypeOK, Receive
    PROVE  /\ queue # <<>> /\ Head(queue) \in Frames /\ Head(queue) \in Waiting
           /\ Waiting' \subseteq Waiting
           /\ IF queue' = <<>> THEN Newest(queue) = Head(queue) ELSE Newest(queue') = Newest(queue)
           /\ \/ pending' = pending
              \/ pending' # <<>> /\ Newest(pending') = Head(queue)
<1>1. /\ queue \in Seq(Frames) /\ queue # <<>> /\ queue' = Tail(queue)
      /\ pending \in Seq(Frames) /\ Len(pending) <= PendingLen
  BY DEF TypeOK, Receive
<1>2. /\ Items(queue') \subseteq Items(queue)
      /\ Head(queue) \in Items(queue) /\ Head(queue) \in Frames
      /\ IF queue' = <<>> THEN Newest(queue) = Head(queue) ELSE Newest(queue') = Newest(queue)
  BY <1>1, TailItems
<1>3. pending' = pending \/ pending' = Push(pending, Head(queue))
  BY DEF Receive, shownVars
<1>4. /\ Items(pending') \subseteq Items(pending) \cup {Head(queue)}
      /\ \/ pending' = pending
         \/ pending' # <<>> /\ Newest(pending') = Head(queue)
  <2> DEFINE f == Head(queue)
  <2> HIDE DEF f
  <2>1. f \in Frames
    BY <1>2 DEF f
  <2>2. /\ Push(pending, f) # <<>> /\ Newest(Push(pending, f)) = f
        /\ Items(Push(pending, f)) \subseteq Items(pending) \cup {f}
    BY <1>1, <2>1, PushItems
  <2>3. pending' = pending \/ pending' = Push(pending, f)
    BY <1>3 DEF f
  <2>4. QED
    BY <2>2, <2>3 DEF f
<1>5. QED
  BY <1>1, <1>2, <1>4 DEF Waiting

\* A drain comes to what is right, as long as nothing has disturbed it.
LEMMA DrainStep ==
    ASSUME OutputInv, Undisturbed, Drain
    PROVE  /\ cursor \in Held /\ cursor' \in Held /\ cursor.seq <= cursor'.seq
           /\ spoiled' = spoiled
           /\ again' \/ Newest(pending).at.seq <= cursor'.seq
           /\ pending' # <<>> => again'
           /\ Items(pending') \subseteq Items(pending)
<1>1. /\ TypeOK /\ Links /\ OneLife /\ Attaching /\ SnapshotsCovered
      /\ replay = "writing" /\ cursor # NoCursor
  BY DEF OutputInv, Drain, Attaching
<1>2. cursor \in Held /\ \A f \in Waiting : f.at \in Held
  BY <1>1, HeldAreCursors
<1>3. \A f \in Items(pending) : SameLife(f.at, cursor) /\ (f.snap => f.at.seq <= cursor.seq)
  BY <1>1, <1>2 DEF OneLife, SnapshotsCovered, Covered, Waiting
<1>4. /\ cursor' \in {cursor} \cup {f.at : f \in Items(pending)} /\ cursor.seq <= cursor'.seq
      /\ spoiled' = spoiled
      /\ again' \/ Newest(pending).at.seq <= cursor'.seq
  BY <1>1, <1>3, DrainRight
<1>5. cursor' \in Held
  BY <1>2, <1>4 DEF Waiting
<1>6. QED
  BY <1>1, <1>2, <1>4, <1>5, DrainTypes

LEMMA OneLifeStep ==
    ASSUME OutputInv, Undisturbed', [Next]_vars
    PROVE  OneLife'
<1>a. TypeOK /\ Unmounted /\ Links /\ Undisturbed /\ OneLife
  BY UndisturbedBefore DEF OutputInv
<1>t. TypeOK'
  BY <1>a, TypeStep
<1> DEFINE New == {c \in {pane} : ~lost}
           Kept == /\ Held' \subseteq Held \cup New
                   /\ lost' \/ (~lost /\ SameLife(pane', pane) /\ pane.seq <= pane'.seq)
<1>k. Kept => OneLife'
  BY <1>a, <1>t, OneLifeKept
<1>s. pane \in Cursors /\ pane.seq \in Nat /\ SameLife(pane, pane) /\ pane.seq <= pane.seq
  BY <1>a, CursorIsNone DEF TypeOK, SameLife
<1>u. UNCHANGED <<Held, pane, lost>> => OneLife'
  BY <1>a DEF OneLife
<1> HIDE DEF New
<1>1. CASE Record
  <2>1. UNCHANGED <<queue, pending, cursor, replay, reply, valid, lost>>
    BY <1>1 DEF Record, replayVars, shownVars, viewVars
  <2>2. Held' = Held
    BY <2>1 DEF Held, Waiting, Answered
  <2>3. pane'.seq = pane.seq + 1 /\ pane'.life = pane.life /\ pane'.gen = pane.gen
    BY <1>1, <1>s DEF Record, Cursors
  <2>4. SameLife(pane', pane) /\ pane.seq <= pane'.seq
    BY <1>s, <2>3 DEF SameLife
  <2>5. QED
    <3>1. lost' \/ ~lost
      BY <1>1, <2>1 DEF Record, TypeOK
    <3>2. QED
      BY <1>k, <2>1, <2>2, <2>4, <3>1
<1>2. CASE ReaderSends
  <2>1. UNCHANGED <<cursor, replay, reply, valid, pane, lost>> /\ ~lost
    BY <1>2, <1>a DEF ReaderSends, replayVars, shownVars, viewVars, Links
  <2>2. \A f \in Waiting' : f \in Waiting \/ f.at \in New
    BY <2>1, WaitingStep DEF New
  <2>3. Held' \subseteq Held \cup New
    BY <2>1, <2>2, HeldKept DEF Answered
  <2>4. QED
    BY <1>k, <1>s, <2>1, <2>3
<1>3. CASE AttachHandled
  <2>1. UNCHANGED <<cursor, replay, reply, valid, pane, lost>> /\ ~lost
    BY <1>3, <1>a DEF AttachHandled, replayVars, shownVars, viewVars, Links
  <2>2. \A f \in Waiting' : f \in Waiting \/ f.at \in New
    BY <2>1, WaitingStep DEF New
  <2>3. Held' \subseteq Held \cup New
    BY <2>1, <2>2, HeldKept DEF Answered
  <2>4. QED
    BY <1>k, <1>s, <2>1, <2>3
<1>4. CASE SubscribeHandled
  <2>1. UNCHANGED <<queue, pending, cursor, pane, lost>> /\ ~lost /\ reply' = pane
    BY <1>4 DEF SubscribeHandled, shownVars, viewVars
  <2>2. Waiting' = Waiting /\ reply' \in New
    BY <2>1 DEF Waiting, New
  <2>3. Held' \subseteq Held \cup New
    BY <2>1, <2>2, HeldKept
  <2>4. QED
    BY <1>k, <1>s, <2>1, <2>3
<1>5. CASE Receive
  <2>1. /\ UNCHANGED <<pane, lost>>
        /\ cursor' = cursor \/ cursor' = Head(queue).at
        /\ AskForSnapshot \/ UNCHANGED replayVars
    BY <1>5 DEF Receive, Applied, shownVars, viewVars, daemonVars
  <2>2. Head(queue).at \in Held /\ Waiting' \subseteq Waiting
    BY <1>5, <1>a, ReceiveTakes, HeldAreCursors
  <2>3. Held' \subseteq Held \cup {}
    BY <2>1, <2>2, AskedAgain, HeldKept
  <2>4. QED
    BY <1>a, <2>1, <2>3 DEF OneLife
<1>6. CASE Hydrate
  <2>1. UNCHANGED <<queue, pending, pane, lost>> /\ Answered /\ ~Answered' /\ cursor' \in {cursor, reply}
    BY <1>6 DEF Hydrate, Answered, daemonVars, viewVars
  <2>2. Waiting' = Waiting /\ reply \in Held
    BY <2>1 DEF Waiting, Held
  <2>3. Held' \subseteq Held \cup {}
    BY <2>1, <2>2, HeldKept
  <2>4. QED
    BY <1>a, <2>1, <2>3 DEF OneLife
<1>7. CASE DropReply
  <2>1. UNCHANGED <<queue, pending, cursor, pane, lost>>
    BY <1>7 DEF DropReply, shownVars, daemonVars, viewVars
  <2>2. Answered' => Answered /\ reply' = reply
    BY <1>7, AskedAgain DEF DropReply
  <2>3. Held' \subseteq Held
    BY <2>1, <2>2 DEF Held, Waiting
  <2>4. QED
    BY <1>a, <2>1, <2>3 DEF OneLife
<1>8. CASE Drain
  <2>1. UNCHANGED <<queue, pane, lost, replay, reply, valid>>
    BY <1>8 DEF Drain, daemonVars, viewVars
  <2>2. cursor' \in Held /\ Waiting' \subseteq Waiting
    BY <1>8, <1>a, <2>1, DrainStep DEF Waiting
  <2>3. Held' \subseteq Held \cup {}
    BY <2>1, <2>2, HeldKept DEF Answered
  <2>4. QED
    BY <1>a, <2>1, <2>3 DEF OneLife
<1>9. CASE FinishReplay
  <2>1. UNCHANGED <<queue, pending, cursor, pane, lost>>
    BY <1>9 DEF FinishReplay, shownVars, daemonVars, viewVars
  <2>2. Answered' => Answered /\ reply' = reply
    BY <1>9, AskedAgain DEF FinishReplay
  <2>3. Held' \subseteq Held
    BY <2>1, <2>2 DEF Held, Waiting
  <2>4. QED
    BY <1>a, <2>1, <2>3 DEF OneLife
<1>10. CASE AttachDone
  <2>1. UNCHANGED <<queue, pending, cursor, pane, lost>>
    BY <1>10 DEF AttachDone, shownVars, daemonVars, viewVars
  <2>2. Answered' => Answered /\ reply' = reply
    BY <1>10, AskedAgain DEF AttachDone
  <2>3. Held' \subseteq Held
    BY <2>1, <2>2 DEF Held, Waiting
  <2>4. QED
    BY <1>a, <2>1, <2>3 DEF OneLife
<1>11. CASE Mount
  <2>1. UNCHANGED <<queue, pending, cursor, replay, reply, valid, pane, lost>>
    BY <1>11 DEF Mount, BeginAttach, daemonVars, attachVars, replayVars, viewVars,
       shownVars, history, vars
  <2>2. QED
    BY <1>u, <2>1 DEF Held, Waiting, Answered
<1>12. CASE Park
  <2>1. UNCHANGED <<queue, pending, cursor, replay, reply, valid, pane, lost>>
    BY <1>12 DEF Park, daemonVars, attachVars, replayVars, viewVars, shownVars,
       history, vars
  <2>2. QED
    BY <1>u, <2>1 DEF Held, Waiting, Answered
<1>13. CASE Hide
  <2>1. UNCHANGED <<queue, pending, cursor, replay, reply, valid, pane, lost>>
    BY <1>13 DEF Hide, daemonVars, attachVars, replayVars, viewVars, shownVars,
       history, vars
  <2>2. QED
    BY <1>u, <2>1 DEF Held, Waiting, Answered
<1>14. CASE Show
  <2>1. UNCHANGED <<queue, pending, cursor, pane, lost>>
    BY <1>14 DEF Show, shownVars, daemonVars, viewVars
  <2>2. Answered' => Answered /\ reply' = reply
    BY <1>14, AskedAgain DEF Show
  <2>3. Held' \subseteq Held
    BY <2>1, <2>2 DEF Held, Waiting
  <2>4. QED
    BY <1>a, <2>1, <2>3 DEF OneLife
<1>15. CASE Leave
  <2>1. UNCHANGED <<queue, pending, cursor, replay, reply, valid, pane, lost>>
    BY <1>15 DEF Leave, daemonVars, attachVars, replayVars, viewVars, shownVars,
       history, vars
  <2>2. QED
    BY <1>u, <2>1 DEF Held, Waiting, Answered
<1>16. CASE Return
  <2>1. UNCHANGED <<queue, pending, cursor, replay, reply, valid, pane, lost>>
    BY <1>16 DEF Return, BeginAttach, daemonVars, attachVars, replayVars, viewVars,
       shownVars, history, vars
  <2>2. QED
    BY <1>u, <2>1 DEF Held, Waiting, Answered
<1>17. ASSUME NEW gen \in Generations, Restart(gen)
      PROVE  OneLife'
  <2>1. UNCHANGED <<queue, pending, cursor, replay, reply, valid>> /\ lost'
    BY <1>17 DEF Restart, replayVars, shownVars
  <2>2. Held' = Held
    BY <2>1 DEF Held, Waiting, Answered
  <2>3. QED
    BY <1>k, <2>1, <2>2
<1>18. CASE AttachFails
  <2>1. UNCHANGED <<queue, pending, cursor, replay, reply, valid, pane, lost>>
    BY <1>18 DEF AttachFails, daemonVars, attachVars, replayVars, viewVars, shownVars,
       history, vars
  <2>2. QED
    BY <1>u, <2>1 DEF Held, Waiting, Answered
<1>19. CASE SubscribeFails
  <2>1. UNCHANGED <<queue, pending, cursor, pane, lost>>
    BY <1>19 DEF SubscribeFails, shownVars, daemonVars, viewVars
  <2>2. Answered' => Answered /\ reply' = reply
    BY <1>19, AskedAgain DEF SubscribeFails
  <2>3. Held' \subseteq Held
    BY <2>1, <2>2 DEF Held, Waiting
  <2>4. QED
    BY <1>a, <2>1, <2>3 DEF OneLife
<1>20. CASE Reconnect
  <2>1. /\ queue' = <<>> /\ pending' = <<>> /\ replay' = replay
        /\ pending = <<>> /\ replay # "writing" /\ ~away
    BY <1>20 DEF Reconnect, Undisturbed
  <2>2. cursor' = NoCursor /\ ~Answered'
    <3>1. CASE opened
      BY <1>20, <2>1, <3>1 DEF Reconnect, Answered
    <3>2. CASE ~opened
      BY <1>20, <1>a, <2>1, <3>2 DEF Reconnect, Unmounted, Answered
    <3>3. QED
      BY <3>1, <3>2
  <2>3. Held' = {}
    BY <2>1, <2>2 DEF Held, Waiting, Items
  <2>4. QED
    BY <2>3 DEF OneLife
<1>21. CASE UNCHANGED vars
  <2>1. UNCHANGED <<queue, pending, cursor, replay, reply, valid, pane, lost>>
    BY <1>21 DEF daemonVars, attachVars, replayVars, viewVars, shownVars, history, vars
  <2>2. QED
    BY <1>u, <2>1 DEF Held, Waiting, Answered
<1>22. QED
  BY <1>1, <1>2, <1>3, <1>4, <1>5, <1>6, <1>7, <1>8, <1>9, <1>10, <1>11, <1>12, <1>13,
     <1>14, <1>15, <1>16, <1>17, <1>18, <1>19, <1>20, <1>21 DEF Next

LEMMA AttachingStep ==
    ASSUME OutputInv, Undisturbed', [Next]_vars
    PROVE  Attaching'
<1>a. Unmounted /\ Links /\ Undisturbed /\ Attaching
  BY UndisturbedBefore DEF OutputInv
<1>t. /\ {opened, attached, lost, away, again, valid, after} \subseteq BOOLEAN
      /\ replay \in {"none", "asked", "answered", "writing"}
      /\ attachReq \in {"none", "sent", "done"} /\ att \in {"yes", "no"}
  BY DEF OutputInv, TypeOK
<1>1. CASE Record
  BY <1>1, <1>a, <1>t DEF Attaching, Unmounted, Links, Answered, Record, daemonVars,
     attachVars, replayVars, viewVars, shownVars, history, vars
<1>2. CASE ReaderSends
  BY <1>2, <1>a, <1>t DEF Attaching, Unmounted, Links, Answered, ReaderSends,
     daemonVars, attachVars, replayVars, viewVars, shownVars, history, vars
<1>3. CASE AttachHandled
  BY <1>3, <1>a, <1>t DEF Attaching, Unmounted, Links, Answered, AttachHandled,
     daemonVars, attachVars, replayVars, viewVars, shownVars, history, vars
<1>4. CASE SubscribeHandled
  <2>1. cursor # NoCursor => cursor.seq <= pane.seq
    BY <1>4, <1>a, HeldAreCursors DEF OutputInv, OneLife, SubscribeHandled
  <2>2. QED
    BY <1>4, <1>a, <1>t, <2>1 DEF Attaching, Links, Answered, SubscribeHandled,
       daemonVars, attachVars, replayVars, viewVars, shownVars, history, vars
<1>5. CASE Receive
  <2>1. /\ replay # "none" => cursor' = cursor /\ UNCHANGED replayVars
        /\ replay = "none" => AskForSnapshot \/ (replay' = replay /\ (att = "yes" => pending' = pending))
    BY <1>5, <1>a DEF Unmounted, Unattached, Undisturbed, Receive, Ready, Applied, replayVars, shownVars
  <2>2. /\ replay # "none" => UNCHANGED <<cursor, replay, reply, valid, again>>
        /\ replay = "none" => replay' \in {"none", "asked"}
        /\ replay' = "none" /\ att = "yes" => pending' = pending
    BY <1>5, <1>a, <2>1 DEF Unmounted, Unattached, Undisturbed, AskForSnapshot, Request, replayVars, Receive
  <2>3. UNCHANGED <<att, attachReq, after, opened, attached, lost>>
    BY <1>5 DEF Receive, daemonVars, attachVars, replayVars, viewVars, shownVars,
       history, vars
  <2>4. QED
    BY <1>a, <1>t, <2>2, <2>3 DEF Attaching, Answered
<1>6. CASE Hydrate
  <2>1. reply # NoCursor /\ replay' = "writing" /\ cursor' # NoCursor /\ att' = "yes"
    <3>1. reply # NoCursor /\ reply.gen # 0
      BY <1>6, <1>a, CursorIsNone DEF Hydrate, Links, OutputInv, TypeOK
    <3>2. Retained => cursor # NoCursor
      BY <3>1 DEF Retained, NoCursor
    <3>3. QED
      BY <1>6, <3>1, <3>2 DEF Hydrate
  <2>2. ~(attachReq = "sent" /\ ~attached /\ ~lost)
    BY <1>6, <1>a DEF Hydrate, Attaching, Answered
  <2>3. UNCHANGED <<attachReq, after, opened, attached, lost>>
    BY <1>6 DEF Hydrate, daemonVars, viewVars
  <2>4. QED
    BY <1>a, <1>t, <2>1, <2>2, <2>3 DEF Attaching, Answered
<1>7. CASE DropReply
  BY <1>7, <1>a, <1>t DEF Attaching, Unmounted, Links, Answered, DropReply, EndReplay,
     Request, daemonVars, attachVars, replayVars, viewVars, shownVars, history, vars
<1>8. CASE Drain
  <2>1. cursor' # NoCursor /\ replay = "writing" /\ replay' = replay
    <3>1. cursor' \in Cursors
      BY <1>8, <1>a, DrainStep, HeldAreCursors DEF OutputInv
    <3>2. QED
      BY <1>8, <3>1, CursorIsNone DEF Drain
  <2>2. UNCHANGED <<att, attachReq, after, valid, opened, attached, lost>>
    BY <1>8 DEF Drain, daemonVars, attachVars, replayVars, viewVars, shownVars,
       history, vars
  <2>3. QED
    BY <1>a, <1>t, <2>1, <2>2 DEF Attaching, Answered
<1>9. CASE FinishReplay
  BY <1>9, <1>a, <1>t DEF Attaching, Unmounted, Links, Answered, FinishReplay,
     EndReplay, Request, daemonVars, attachVars, replayVars, viewVars, shownVars,
     history, vars
<1>10. CASE AttachDone
  BY <1>10, <1>a, <1>t DEF Attaching, Unmounted, Unattached, Undisturbed, Links, Answered,
     AttachDone, AskForSnapshot, Request, daemonVars, attachVars, replayVars, viewVars, shownVars,
     history, vars
<1>11. CASE Mount
  <2>1. Unattached /\ attachReq' = "sent" /\ att' = "no" /\ after'
    BY <1>11, <1>a, MountAttaches
  <2>2. ~opened /\ replay = "none"
    BY <1>11, <1>a, <2>1 DEF Mount, Attaching, Unattached, Unmounted
  <2>3. UNCHANGED <<replay, cursor, pending, attached, lost, valid, reply>>
    BY <1>11 DEF Mount, daemonVars, replayVars, shownVars
  <2>4. QED
    BY <1>a, <1>t, <2>1, <2>2, <2>3 DEF Attaching, Answered
<1>12. CASE Park
  BY <1>12, <1>a, <1>t DEF Attaching, Unmounted, Links, Answered, Park, daemonVars,
     attachVars, replayVars, viewVars, shownVars, history, vars
<1>13. CASE Hide
  BY <1>13, <1>a, <1>t DEF Attaching, Unmounted, Links, Answered, Hide, daemonVars,
     attachVars, replayVars, viewVars, shownVars, history, vars
<1>14. CASE Show
  BY <1>14, <1>a, <1>t DEF Attaching, Unmounted, Links, Answered, Show, AskForSnapshot,
     Request, daemonVars, attachVars, replayVars, viewVars, shownVars, history, vars
<1>15. CASE Leave
  BY <1>15, <1>a, <1>t DEF Attaching, Unmounted, Links, Answered, Leave, daemonVars,
     attachVars, replayVars, viewVars, shownVars, history, vars
<1>16. CASE Return
  <2>1. replay = "none"
    BY <1>16 DEF Return, Undisturbed
  <2>2. QED
    BY <1>16, <1>a, <1>t, <2>1 DEF Attaching, Answered, Return, BeginAttach,
       daemonVars, attachVars, replayVars, viewVars, shownVars, history, vars
<1>17. ASSUME NEW gen \in Generations, Restart(gen)
      PROVE  Attaching'
  BY <1>17, <1>a, <1>t DEF Attaching, Unmounted, Links, Answered, Restart, daemonVars,
     attachVars, replayVars, viewVars, shownVars, history, vars
<1>18. CASE AttachFails
  BY <1>18, <1>a, <1>t DEF Attaching, Unmounted, Links, Answered, AttachFails,
     daemonVars, attachVars, replayVars, viewVars, shownVars, history, vars
<1>19. CASE SubscribeFails
  BY <1>19, <1>a, <1>t DEF Attaching, Unmounted, Links, Answered, SubscribeFails,
     EndReplay, Request, daemonVars, attachVars, replayVars, viewVars, shownVars,
     history, vars
<1>20. CASE Reconnect
  <2>1. pending' = <<>> /\ replay' = replay /\ replay # "writing" /\ ~away
    BY <1>20 DEF Reconnect, Undisturbed
  <2>2. CASE ~opened
    BY <1>20, <1>a, <1>t, <2>1, <2>2 DEF Unmounted, Unattached, Attaching, Answered, Reconnect,
       attachVars
  <2>3. CASE opened
    BY <1>20, <1>a, <1>t, <2>1, <2>3 DEF Attaching, Answered, Reconnect, BeginAttach
  <2>4. QED
    BY <2>2, <2>3
<1>21. CASE UNCHANGED vars
  BY <1>21, <1>a, <1>t DEF Attaching, Unmounted, Links, Answered, daemonVars,
     attachVars, replayVars, viewVars, shownVars, history, vars
<1>22. QED
  BY <1>1, <1>2, <1>3, <1>4, <1>5, <1>6, <1>7, <1>8, <1>9, <1>10, <1>11, <1>12, <1>13,
     <1>14, <1>15, <1>16, <1>17, <1>18, <1>19, <1>20, <1>21 DEF Next

LEMMA SnapshotsCoveredStep ==
    ASSUME OutputInv, Undisturbed', [Next]_vars
    PROVE  SnapshotsCovered'
<1>a. /\ TypeOK /\ Unmounted /\ Links /\ Undisturbed
      /\ OneLife /\ Attaching /\ SnapshotsCovered
  BY UndisturbedBefore DEF OutputInv
<1> SUFFICES ASSUME NEW f \in Waiting', f.snap PROVE Covered(f)'
  BY DEF SnapshotsCovered
<1>b. CASE f \notin Waiting
  <2>1. AttachHandled /\ ~attached
    BY <1>b, WaitingStep
  <2>2. ~lost /\ attachReq = "sent" /\ UNCHANGED <<att, replay, valid>>
    BY <2>1 DEF AttachHandled, replayVars
  <2>3. att = "no" /\ ~Answered /\ replay # "writing"
    BY <1>a, <2>1, <2>2 DEF Attaching
  <2>4. QED
    BY <1>a, <2>2, <2>3 DEF Covered, Answered
<1>e. CASE f \in Waiting
  <2>c. Covered(f)
    BY <1>a, <1>e DEF SnapshotsCovered
  <2>t. /\ f.at \in Held /\ f.at.seq \in Nat /\ pane.seq \in Nat
        /\ cursor # NoCursor => cursor \in Held /\ cursor.seq \in Nat
        /\ replay \in {"none", "asked", "answered", "writing"}
    BY <1>a, <1>e, HeldAreCursors, CursorIsNone DEF TypeOK
  <2>1. CASE Record
    <3>1. UNCHANGED <<replay, att, cursor, reply, valid>>
      BY <2>1 DEF Record, daemonVars, attachVars, replayVars, viewVars, shownVars,
         history, vars
    <3>2. QED
      BY <2>c, <3>1 DEF Covered
  <2>2. CASE ReaderSends
    <3>1. UNCHANGED <<replay, att, cursor, reply, valid>>
      BY <2>2 DEF ReaderSends, daemonVars, attachVars, replayVars, viewVars,
         shownVars, history, vars
    <3>2. QED
      BY <2>c, <3>1 DEF Covered
  <2>3. CASE AttachHandled
    <3>1. UNCHANGED <<replay, att, cursor, reply, valid>>
      BY <2>3 DEF AttachHandled, daemonVars, attachVars, replayVars, viewVars,
         shownVars, history, vars
    <3>2. QED
      BY <2>c, <3>1 DEF Covered
  <2>4. CASE SubscribeHandled
    <3>1. reply' = pane /\ replay' = "answered" /\ ~lost
      BY <2>4 DEF SubscribeHandled
    <3>2. f.at.seq <= pane.seq
      BY <1>a, <2>t, <3>1 DEF OneLife
    <3>3. QED
      BY <3>1, <3>2 DEF Covered
  <2>5. CASE Receive
    <3>1. UNCHANGED <<att, opened>> /\ queue # <<>>
      BY <2>5 DEF Receive, attachVars, viewVars
    <3>2. CASE AskForSnapshot /\ cursor' = cursor
      BY <1>a, <2>c, <3>1, <3>2 DEF Unmounted, Unattached, AskForSnapshot, Request, Covered
    <3>3. CASE UNCHANGED replayVars /\ cursor' = cursor
      BY <2>c, <3>1, <3>3 DEF Covered, replayVars
    <3>4. CASE UNCHANGED replayVars /\ Ready /\ Next1(Head(queue), cursor) /\ cursor' = Head(queue).at
      <4>1. replay' = "none" /\ att = "yes" /\ cursor # NoCursor
        BY <3>4 DEF Ready, replayVars
      <4>2. cursor'.seq = cursor.seq + 1 /\ cursor' # NoCursor
        <5>1. Head(queue).at \in Cursors
          BY <1>a, <2>5, ReceiveTakes, HeldAreCursors
        <5>2. QED
          BY <3>4, <5>1, CursorIsNone DEF Next1
      <4>3. f.at.seq <= cursor.seq
        BY <2>c, <4>1, <3>4 DEF Covered, Ready
      <4>4. QED
        BY <2>t, <4>1, <4>2, <4>3 DEF Covered
    <3>5. QED
      BY <2>5, <3>2, <3>3, <3>4 DEF Receive, Applied, shownVars
  <2>6. CASE Hydrate
    <3>1. replay = "answered" /\ valid /\ replay' = "writing" /\ cursor'.seq = reply.seq
      BY <2>6 DEF Hydrate, Retained
    <3>2. QED
      BY <2>c, <3>1 DEF Covered
  <2>7. CASE DropReply
    <3>1. again \/ att = "no"
      BY <1>a, <2>7 DEF DropReply, Attaching
    <3>2. opened /\ att' = att /\ replay' = IF opened /\ again THEN "asked" ELSE "none"
      BY <1>a, <2>7 DEF DropReply, Unmounted, EndReplay, Request, attachVars
    <3>3. QED
      BY <3>1, <3>2 DEF Covered
  <2>8. CASE Drain
    <3>1. replay = "writing" /\ replay' = replay
      BY <2>8 DEF Drain
    <3>2. cursor.seq <= cursor'.seq /\ cursor.seq \in Nat /\ cursor'.seq \in Nat
      BY <2>8, <1>a, DrainStep, HeldAreCursors, CursorIsNone
    <3>3. QED
      BY <2>c, <2>t, <3>1, <3>2 DEF Covered
  <2>9. CASE FinishReplay
    <3>1. replay = "writing" /\ cursor # NoCursor /\ f.at.seq <= cursor.seq
      BY <1>a, <2>c, <2>9 DEF FinishReplay, Attaching, Covered
    <3>2. cursor' = cursor /\ replay' \in {"asked", "none"}
      BY <2>9 DEF FinishReplay, EndReplay, Request
    <3>3. QED
      BY <3>1, <3>2 DEF Covered
  <2>10. CASE AttachDone
    <3>1. AskForSnapshot /\ opened /\ cursor' = cursor
      BY <1>a, <2>10
         DEF AttachDone, Attaching, Unmounted, Unattached, Undisturbed, shownVars
    <3>2. QED
      BY <2>c, <3>1 DEF AskForSnapshot, Request, Covered
  <2>11. CASE Mount
    <3>1. replay' = replay /\ att' = "no" /\ UNCHANGED <<cursor, reply, valid>>
      BY <1>a, <2>11, MountAttaches DEF Mount, replayVars, shownVars
    <3>2. QED
      BY <2>c, <3>1 DEF Covered
  <2>12. CASE Park
    <3>1. UNCHANGED <<replay, att, cursor, reply, valid>>
      BY <2>12 DEF Park, daemonVars, attachVars, replayVars, viewVars, shownVars,
         history, vars
    <3>2. QED
      BY <2>c, <3>1 DEF Covered
  <2>13. CASE Hide
    <3>1. UNCHANGED <<replay, att, cursor, reply, valid>>
      BY <2>13 DEF Hide, daemonVars, attachVars, replayVars, viewVars, shownVars,
         history, vars
    <3>2. QED
      BY <2>c, <3>1 DEF Covered
  <2>14. CASE Show
    <3>1. UNCHANGED <<att, cursor>> /\ opened /\ (AskForSnapshot \/ UNCHANGED replayVars)
      BY <2>14 DEF Show, attachVars
    <3>2. QED
      BY <2>c, <3>1 DEF AskForSnapshot, Request, replayVars, Covered
  <2>15. CASE Leave
    <3>1. UNCHANGED <<replay, att, cursor, reply, valid>>
      BY <2>15 DEF Leave, daemonVars, attachVars, replayVars, viewVars, shownVars,
         history, vars
    <3>2. QED
      BY <2>c, <3>1 DEF Covered
  <2>16. CASE Return
    <3>1. replay' = "none" /\ att' = "no"
      BY <2>16 DEF Return, Undisturbed, BeginAttach, replayVars
    <3>2. QED
      BY <3>1 DEF Covered
  <2>17. ASSUME NEW gen \in Generations, Restart(gen)
        PROVE  Covered(f)'
    <3>1. UNCHANGED <<replay, att, cursor, reply, valid>>
      BY <2>17 DEF Restart, daemonVars, attachVars, replayVars, viewVars, shownVars,
         history, vars
    <3>2. QED
      BY <2>c, <3>1 DEF Covered
  <2>18. CASE AttachFails
    <3>1. att' = "no" /\ UNCHANGED <<replay, reply, valid, cursor>>
      BY <2>18 DEF AttachFails, replayVars, shownVars
    <3>2. QED
      BY <2>c, <3>1 DEF Covered
  <2>19. CASE SubscribeFails
    <3>1. att' = "no" /\ replay' \in {"asked", "none"}
      BY <2>19 DEF SubscribeFails, EndReplay, Request
    <3>2. QED
      BY <3>1 DEF Covered
  <2>20. CASE Reconnect
    <3>1. queue' = <<>> /\ pending' = <<>>
      BY <2>20 DEF Reconnect, Undisturbed
    <3>2. QED
      BY <3>1 DEF Waiting, Items
  <2>21. CASE UNCHANGED vars
    <3>1. UNCHANGED <<replay, att, cursor, reply, valid>>
      BY <2>21 DEF daemonVars, attachVars, replayVars, viewVars, shownVars, history, vars
    <3>2. QED
      BY <2>c, <3>1 DEF Covered
  <2>22. QED
    BY <2>1, <2>2, <2>3, <2>4, <2>5, <2>6, <2>7, <2>8, <2>9, <2>10, <2>11, <2>12, <2>13,
       <2>14, <2>15, <2>16, <2>17, <2>18, <2>19, <2>20, <2>21 DEF Next
<1>g. QED
  BY <1>b, <1>e

LEMMA AppendSorted ==
    ASSUME NEW s \in Seq(Frames), NEW f \in Frames, Sorted(s),
           \A g \in Items(s) : g.at.seq <= f.at.seq
    PROVE  Sorted(Append(s, f))
<1>1. /\ Len(Append(s, f)) = Len(s) + 1 /\ Len(s) \in Nat
      /\ \A i \in 1 .. Len(s) : Append(s, f)[i] = s[i]
      /\ Append(s, f)[Len(s) + 1] = f
  OBVIOUS
<1>2. f.at.seq <= f.at.seq
  BY CursorIsNone DEF Frames
<1>3. \A i \in 1 .. Len(s) : s[i].at.seq <= f.at.seq
  BY DEF Items
<1> DEFINE t == Append(s, f)
<1> HIDE DEF t
<1>4. ASSUME NEW i \in 1 .. Len(t), NEW j \in 1 .. Len(t), i <= j
      PROVE  t[i].at.seq <= t[j].at.seq
  <2>1. /\ Len(t) = Len(s) + 1 /\ t[Len(s) + 1] = f
        /\ \A k \in 1 .. Len(s) : t[k] = s[k]
    BY <1>1 DEF t
  <2>2. CASE j \in 1 .. Len(s)
    <3>1. i \in 1 .. Len(s) /\ t[i] = s[i] /\ t[j] = s[j]
      BY <1>1, <1>4, <2>1, <2>2
    <3>2. QED
      BY <1>4, <2>2, <3>1 DEF Sorted
  <2>3. CASE j = Len(s) + 1
    <3>1. i \in 1 .. Len(s) \/ i = Len(s) + 1
      BY <1>1, <2>1
    <3>2. QED
      BY <1>2, <1>3, <2>1, <2>3, <3>1
  <2>4. QED
    BY <1>1, <2>1, <2>2, <2>3
<1>5. QED
  BY <1>4 DEF Sorted, t

LEMMA TailSorted ==
    ASSUME NEW s \in Seq(Frames), s # <<>>, Sorted(s)
    PROVE  Sorted(Tail(s)) /\ \A g \in Items(s) : Head(s).at.seq <= g.at.seq
<1>1. /\ Len(Tail(s)) = Len(s) - 1 /\ Len(s) \in Nat \ {0} /\ Head(s) = s[1]
      /\ \A i \in 1 .. Len(Tail(s)) : Tail(s)[i] = s[i + 1]
  BY HeadTailProperties, EmptySeq
<1>2. \A g \in Items(s) : Head(s).at.seq <= g.at.seq
  BY <1>1 DEF Items, Sorted
<1> DEFINE t == Tail(s)
<1> HIDE DEF t
<1>3. ASSUME NEW i \in 1 .. Len(t), NEW j \in 1 .. Len(t), i <= j
      PROVE  t[i].at.seq <= t[j].at.seq
  <2>1. t[i] = s[i + 1] /\ t[j] = s[j + 1]
    BY <1>1 DEF t
  <2>2. i + 1 \in 1 .. Len(s) /\ j + 1 \in 1 .. Len(s) /\ i + 1 <= j + 1
    BY <1>1, <1>3 DEF t
  <2>3. QED
    BY <2>1, <2>2 DEF Sorted
<1>4. QED
  BY <1>2, <1>3 DEF Sorted, t

LEMMA InOrderStep ==
    ASSUME OutputInv, Undisturbed', [Next]_vars
    PROVE  InOrder'
<1>a. TypeOK /\ Links /\ Undisturbed /\ OneLife /\ InOrder
  BY UndisturbedBefore DEF OutputInv
<1>u. UNCHANGED <<queue, pending>> => InOrder'
  BY <1>a DEF InOrder
\* The daemon sends the pane as it is, which is ahead of all it has sent.
<1>s. ASSUME ~lost, pending' = pending, NEW f \in Frames, f.at = pane, SendFrame(f)
      PROVE  InOrder'
  <2>1. queue \in Seq(Frames)
    BY <1>a DEF TypeOK
  <2>2. \A g \in Waiting : g.at.seq <= pane.seq
    BY <1>a, <1>s, HeldAreCursors DEF OneLife
  <2>3. queue' = queue \/ queue' = Append(queue, f)
    BY <1>s DEF SendFrame
  <2>4. Sorted(Append(queue, f))
    BY <1>a, <1>s, <2>1, <2>2, AppendSorted DEF InOrder, Waiting
  <2>5. Items(queue') \subseteq Items(queue) \cup {f}
    BY <1>a, <1>s, SendTypes
  <2>6. QED
    BY <1>a, <1>s, <2>2, <2>3, <2>4, <2>5 DEF InOrder, Waiting
<1>r. [at |-> pane, snap |-> FALSE] \in Frames /\ [at |-> pane, snap |-> TRUE] \in Frames
  BY <1>a DEF TypeOK, Frames
<1>1. CASE Record
  <2>1. UNCHANGED <<queue, pending>>
    BY <1>1 DEF Record, daemonVars, attachVars, replayVars, viewVars, shownVars,
       history, vars, shownVars
  <2>2. QED
    BY <1>u, <2>1
<1>2. CASE ReaderSends
  <2>1. ~lost /\ pending' = pending /\ SendFrame([at |-> pane, snap |-> FALSE])
    BY <1>a, <1>2 DEF ReaderSends, Links, shownVars
  <2>2. QED
    BY <1>r, <1>s, <2>1
<1>3. CASE AttachHandled
  <2>1. ~lost /\ pending' = pending
    BY <1>3 DEF AttachHandled, shownVars
  <2>2. queue' = queue \/ SendFrame([at |-> pane, snap |-> TRUE])
    BY <1>3 DEF AttachHandled
  <2>3. QED
    BY <1>r, <1>s, <1>u, <2>1, <2>2
<1>4. CASE SubscribeHandled
  <2>1. UNCHANGED <<queue, pending>>
    BY <1>4 DEF SubscribeHandled, daemonVars, attachVars, replayVars, viewVars,
       shownVars, history, vars, shownVars
  <2>2. QED
    BY <1>u, <2>1
<1>5. CASE Receive
  <2>1. queue \in Seq(Frames) /\ queue # <<>> /\ queue' = Tail(queue)
    BY <1>a, <1>5 DEF TypeOK, Receive
  <2>2. Sorted(queue') /\ \A g \in Items(queue) : Head(queue).at.seq <= g.at.seq
    BY <1>a, <2>1, TailSorted DEF InOrder
  <2>3. Items(queue') \subseteq Items(queue) /\ Head(queue) \in Frames
    BY <2>1, TailItems
  <2>4. Items(pending') \subseteq Items(pending) \cup {Head(queue)}
    <3>1. pending' = pending \/ pending' = Push(pending, Head(queue))
      BY <1>5 DEF Receive, shownVars
    <3>2. pending \in Seq(Frames) /\ Len(pending) <= PendingLen
      BY <1>a DEF TypeOK
    <3>3. QED
      BY <2>3, <3>1, <3>2, PushItems
  <2>5. QED
    BY <1>a, <2>2, <2>3, <2>4 DEF InOrder
<1>6. CASE Hydrate
  <2>1. UNCHANGED <<queue, pending>>
    BY <1>6 DEF Hydrate, daemonVars, attachVars, replayVars, viewVars, shownVars,
       history, vars, shownVars
  <2>2. QED
    BY <1>u, <2>1
<1>7. CASE DropReply
  <2>1. UNCHANGED <<queue, pending>>
    BY <1>7 DEF DropReply, EndReplay, Request, daemonVars, attachVars, replayVars,
       viewVars, shownVars, history, vars, shownVars
  <2>2. QED
    BY <1>u, <2>1
<1>8. CASE Drain
  <2>1. queue' = queue /\ Items(pending') \subseteq Items(pending)
    BY <1>a, <1>8, DrainTypes DEF Drain
  <2>2. QED
    BY <1>a, <2>1 DEF InOrder
<1>9. CASE FinishReplay
  <2>1. UNCHANGED <<queue, pending>>
    BY <1>9 DEF FinishReplay, EndReplay, Request, daemonVars, attachVars, replayVars,
       viewVars, shownVars, history, vars, shownVars
  <2>2. QED
    BY <1>u, <2>1
<1>10. CASE AttachDone
  <2>1. UNCHANGED <<queue, pending>>
    BY <1>10 DEF AttachDone, AskForSnapshot, Request, daemonVars, attachVars,
       replayVars, viewVars, shownVars, history, vars, shownVars
  <2>2. QED
    BY <1>u, <2>1
<1>11. CASE Mount
  <2>1. UNCHANGED <<queue, pending>>
    BY <1>11 DEF Mount, BeginAttach, daemonVars, attachVars, replayVars, viewVars,
       shownVars, history, vars, shownVars
  <2>2. QED
    BY <1>u, <2>1
<1>12. CASE Park
  <2>1. UNCHANGED <<queue, pending>>
    BY <1>12 DEF Park, daemonVars, attachVars, replayVars, viewVars, shownVars,
       history, vars, shownVars
  <2>2. QED
    BY <1>u, <2>1
<1>13. CASE Hide
  <2>1. UNCHANGED <<queue, pending>>
    BY <1>13 DEF Hide, daemonVars, attachVars, replayVars, viewVars, shownVars,
       history, vars, shownVars
  <2>2. QED
    BY <1>u, <2>1
<1>14. CASE Show
  <2>1. UNCHANGED <<queue, pending>>
    BY <1>14 DEF Show, AskForSnapshot, Request, daemonVars, attachVars, replayVars,
       viewVars, shownVars, history, vars, shownVars
  <2>2. QED
    BY <1>u, <2>1
<1>15. CASE Leave
  <2>1. UNCHANGED <<queue, pending>>
    BY <1>15 DEF Leave, daemonVars, attachVars, replayVars, viewVars, shownVars,
       history, vars, shownVars
  <2>2. QED
    BY <1>u, <2>1
<1>16. CASE Return
  <2>1. UNCHANGED <<queue, pending>>
    BY <1>16 DEF Return, BeginAttach, daemonVars, attachVars, replayVars, viewVars,
       shownVars, history, vars, shownVars
  <2>2. QED
    BY <1>u, <2>1
<1>17. ASSUME NEW gen \in Generations, Restart(gen)
      PROVE  InOrder'
  <2>1. UNCHANGED <<queue, pending>>
    BY <1>17 DEF Restart, daemonVars, attachVars, replayVars, viewVars, shownVars,
       history, vars, shownVars
  <2>2. QED
    BY <1>u, <2>1
<1>18. CASE AttachFails
  <2>1. UNCHANGED <<queue, pending>>
    BY <1>18 DEF AttachFails, daemonVars, attachVars, replayVars, viewVars, shownVars,
       history, vars, shownVars
  <2>2. QED
    BY <1>u, <2>1
<1>19. CASE SubscribeFails
  <2>1. UNCHANGED <<queue, pending>>
    BY <1>19 DEF SubscribeFails, EndReplay, Request, daemonVars, attachVars,
       replayVars, viewVars, shownVars, history, vars, shownVars
  <2>2. QED
    BY <1>u, <2>1
<1>20. CASE Reconnect
  <2>1. queue' = <<>>
    BY <1>20 DEF Reconnect
  <2>2. QED
    BY <2>1 DEF InOrder, Sorted, Items
<1>21. CASE UNCHANGED vars
  <2>1. UNCHANGED <<queue, pending>>
    BY <1>21 DEF daemonVars, attachVars, replayVars, viewVars, shownVars, history,
       vars, shownVars
  <2>2. QED
    BY <1>u, <2>1
<1>22. QED
  BY <1>1, <1>2, <1>3, <1>4, <1>5, <1>6, <1>7, <1>8, <1>9, <1>10, <1>11, <1>12, <1>13,
     <1>14, <1>15, <1>16, <1>17, <1>18, <1>19, <1>20, <1>21 DEF Next

\* What the terminal shows stays right.
LEMMA RightStep ==
    ASSUME OutputInv, Undisturbed', [Next]_vars
    PROVE  ~ spoiled'
<1>a. /\ TypeOK /\ Links /\ Undisturbed
      /\ OneLife /\ SnapshotsCovered /\ ~spoiled
  BY UndisturbedBefore DEF OutputInv
<1>1. CASE Receive
  <2>1. SUFFICES ASSUME Ready, Next1(Head(queue), cursor) PROVE ~ Spoils(Head(queue), cursor)
    BY <1>a, <1>1 DEF Receive, Applied
  <2>2. /\ Head(queue) \in Frames /\ Head(queue) \in Waiting /\ Head(queue).at \in Held
        /\ cursor \in Cursors /\ cursor \in Held
    BY <1>a, <1>1, <2>1, ReceiveTakes, HeldAreCursors DEF Ready
  <2>3. SameLife(Head(queue).at, cursor)
    BY <1>a, <2>2 DEF OneLife
  <2>4. Head(queue).snap => Head(queue).at.seq <= cursor.seq
    BY <1>a, <2>1, <2>2 DEF SnapshotsCovered, Covered, Ready
  <2> DEFINE f == Head(queue)
  <2> HIDE DEF f
  <2>5. f \in Frames /\ SameLife(f.at, cursor) /\ Next1(f, cursor) /\ (f.snap => f.at.seq <= cursor.seq)
    BY <2>1, <2>2, <2>3, <2>4 DEF f
  <2>6. ~ Spoils(f, cursor)
    BY <2>2, <2>5, NextIsRight
  <2>7. QED
    BY <2>6 DEF f
<1>2. CASE Hydrate
  <2>1. Retained => cursor.life = reply.life
    <3>1. reply \in Held /\ reply.gen # 0
      BY <1>a, <1>2, HeldAreCursors, CursorIsNone DEF Hydrate, Answered
    <3>2. Retained => cursor \in Held
      BY <1>a, <3>1, HeldAreCursors DEF Retained, NoCursor
    <3>3. QED
      BY <1>a, <3>1, <3>2 DEF OneLife, SameLife
  <2>2. QED
    BY <1>a, <1>2, <2>1 DEF Hydrate
<1>3. CASE Drain
  BY <1>a, <1>3, DrainStep
<1>4. CASE /\ ~Receive /\ ~Hydrate /\ ~Drain
  <2>1. UNCHANGED spoiled
    BY <1>4 DEF Next, Record, ReaderSends, AttachHandled, SubscribeHandled, DropReply,
       FinishReplay,
       AttachDone, Mount, Park, Hide, Show, Leave, Return, Restart, AttachFails, SubscribeFails,
       Reconnect, history, vars
  <2>2. QED
    BY <1>a, <2>1
<1>5. QED
  BY <1>1, <1>2, <1>3, <1>4

\* A cursor that is as far as the pane is that of the pane.
LEMMA AsFarAsThePane ==
    ASSUME TypeOK, Links, OneLife, ~lost, NEW c \in Held, pane.seq <= c.seq
    PROVE  c = pane
<1>1. c \in Cursors /\ pane \in Cursors
  BY HeldAreCursors DEF TypeOK
<1>2. c.seq \in Nat /\ pane.seq \in Nat /\ c.seq <= pane.seq /\ SameLife(c, pane)
  BY <1>1, CursorIsNone DEF OneLife
<1>3. c.seq = pane.seq /\ c.life = pane.life /\ c.gen = pane.gen
  BY <1>2 DEF SameLife
<1>4. QED
  BY <1>1, <1>3 DEF Cursors

\* Nothing else opens a terminal.
LEMMA OpenedByMount ==
    ASSUME [Next]_vars, opened'
    PROVE  opened \/ Mount
  BY DEF Next, vars, viewVars, Record, ReaderSends, AttachHandled, SubscribeHandled,
     Receive, Hydrate, DropReply, Drain, FinishReplay, AttachDone, Park, Hide, Show,
     Leave, Return, Restart, AttachFails, SubscribeFails, Reconnect

LEMMA NewestKnownStep ==
    ASSUME OutputInv, Undisturbed', [Next]_vars
    PROVE  NewestKnown'
<1>a. /\ TypeOK /\ Unmounted /\ Links /\ Undisturbed
      /\ OneLife /\ InOrder /\ Attaching /\ NewestKnown
  BY UndisturbedBefore DEF OutputInv
<1> SUFFICES ASSUME attached', ~lost', ~missed', opened' PROVE NewestKnown'
  BY DEF NewestKnown
<1>o. opened \/ Mount
  BY OpenedByMount
<1> SUFFICES ASSUME opened PROVE NewestKnown'
  BY <1>o, <1>a, MountAttaches DEF NewestKnown
<1>1. CASE Record
  BY <1>1 DEF Record, NewestKnown
<1>2. CASE ReaderSends
  <2>1. [at |-> pane, snap |-> FALSE] \in Frames
    BY <1>a DEF TypeOK, Frames
  <2>2. queue' # <<>> /\ Newest(queue') = [at |-> pane, snap |-> FALSE] /\ pane' = pane
    BY <1>a, <1>2, <2>1, SendTypes DEF ReaderSends
  <2>3. Newest(queue').at = pane'
    BY <2>2
  <2>4. QED
    BY <2>2, <2>3 DEF NewestKnown
<1>3. CASE AttachHandled
  BY <1>3 DEF AttachHandled, NewestKnown
<1>4. CASE SubscribeHandled
  <2>1. Answered' /\ reply' = pane'
    BY <1>a, <1>4 DEF SubscribeHandled, Links, Answered
  <2>2. QED
    BY <2>1 DEF NewestKnown
<1>5. CASE Receive
  <2>1. UNCHANGED <<pane, hand, attached, lost, missed, att, attachReq, opened>>
    BY <1>5 DEF Receive, daemonVars, attachVars, viewVars
  <2> DEFINE f == Head(queue)
  <2>f. /\ queue # <<>> /\ f \in Waiting /\ f \in Items(queue)
        /\ f.at \in Held /\ f.at \in Cursors /\ f.at.seq \in Nat /\ pane.seq \in Nat
        /\ cursor # NoCursor => cursor \in Held /\ cursor.seq \in Nat
        /\ cursor.seq \in Nat
    <3>1. f \in Items(queue)
      BY <1>a, <1>5, TailItems DEF TypeOK, Receive
    <3>2. NoCursor.seq \in Nat
      BY DEF NoCursor
    <3>3. QED
      BY <1>a, <1>5, <3>1, <3>2, ReceiveTakes, HeldAreCursors, CursorIsNone DEF TypeOK
  <2>r. /\ IF queue' = <<>> THEN Newest(queue) = f ELSE Newest(queue') = Newest(queue)
        /\ pending' = pending \/ (pending' # <<>> /\ Newest(pending') = f)
    BY <1>a, <1>5, ReceiveTakes
  <2>l. ~lost /\ attached /\ ~missed
    BY <2>1
  \* A frame of the pane as it is, is kept, or the terminal has its cursor, or
  \* it asks for a snapshot.
  <2>2. ASSUME f.at = pane PROVE NewestKnown'
    <3>1. CASE pending' # <<>> /\ Newest(pending') = f
      BY <2>1, <2>2, <3>1 DEF NewestKnown
    <3>2. CASE Ready /\ parked /\ stale' /\ UNCHANGED <<replay, parked>>
      BY <3>2 DEF Ready, NewestKnown
    <3>3. CASE Ready /\ Old(f, cursor) /\ cursor' = cursor
      <4>1. cursor \in Held /\ pane.seq <= cursor.seq
        BY <2>2, <2>f, <3>3 DEF Ready, Old
      <4>2. cursor = pane
        BY <1>a, <2>l, <4>1, AsFarAsThePane
      <4>3. QED
        BY <2>1, <3>3, <4>2 DEF NewestKnown
    <3>4. CASE cursor' = f.at
      BY <2>1, <2>2, <3>4 DEF NewestKnown
    <3>5. pending' = Push(pending, f) => pending' # <<>> /\ Newest(pending') = f
      <4>1. pending \in Seq(Frames) /\ Len(pending) <= PendingLen
        BY <1>a DEF TypeOK
      <4>2. f \in Frames
        BY <1>a, <1>5, ReceiveTakes
      <4> HIDE DEF f
      <4>3. QED
        BY <4>1, <4>2, PushItems
    <3>6. QED
      BY <1>5, <3>1, <3>2, <3>3, <3>4, <3>5 DEF Receive, Applied, shownVars, replayVars
  <2>3. CASE hand \/ attachReq # "none"
    BY <2>1, <2>3 DEF NewestKnown
  <2>4. CASE cursor = pane
    <3>1. cursor' = pane \/ (Next1(f, pane) /\ Ready)
      BY <1>5, <2>4 DEF Receive, Applied, shownVars
    <3>2. ~ Next1(f, pane)
      <4>1. f.at.seq <= pane.seq
        BY <1>a, <2>f, <2>l DEF OneLife
      <4>2. QED
        BY <2>f, <4>1 DEF Next1
    <3>3. QED
      BY <2>1, <3>1, <3>2 DEF NewestKnown
  <2>5. CASE queue # <<>> /\ Newest(queue).at = pane
    <3>1. CASE queue' = <<>>
      BY <2>2, <2>5, <2>r, <3>1
    <3>2. CASE queue' # <<>>
      BY <2>1, <2>5, <2>r, <3>2 DEF NewestKnown
    <3>3. QED
      BY <3>1, <3>2
  <2>6. CASE pending # <<>> /\ Newest(pending).at = pane
    <3>1. CASE pending' = pending
      BY <2>1, <2>6, <3>1 DEF NewestKnown
    <3>2. f.at = pane
      <4>1. Newest(pending) \in Items(pending)
        BY <1>a, <2>6, TailItems DEF TypeOK
      <4>2. pane.seq <= f.at.seq
        BY <1>a, <2>6, <2>f, <4>1 DEF InOrder
      <4>3. QED
        BY <1>a, <2>f, <2>l, <4>2, AsFarAsThePane
    <3>3. QED
      BY <2>2, <3>2
  <2>7. CASE replay = "asked" \/ again \/ (Answered /\ reply = pane)
    <3>1. replay # "none"
      BY <1>a, <2>7 DEF Links, Answered
    <3>2. UNCHANGED replayVars
      BY <1>5, <3>1 DEF Receive, Ready
    <3>3. QED
      BY <2>1, <2>7, <3>2 DEF NewestKnown, Answered, replayVars
  <2>8. CASE replay = "none" /\ parked /\ stale
    <3>1. parked' /\ stale' /\ (AskForSnapshot \/ UNCHANGED replayVars)
      BY <1>5, <2>8 DEF Receive, shownVars
    <3>2. opened
      OBVIOUS
    <3>3. replay' \in {"none", "asked"}
      BY <2>8, <3>1 DEF AskForSnapshot, Request, replayVars
    <3>4. QED
      BY <3>1, <3>3 DEF NewestKnown
  <2>9. QED
    BY <1>a, <2>l, <2>3, <2>4, <2>5, <2>6, <2>7, <2>8 DEF NewestKnown
<1>6. CASE Hydrate
  <2>1. /\ UNCHANGED <<pane, hand, attached, lost, missed, queue, pending, attachReq, again>>
        /\ Answered /\ replay = "answered" /\ ~lost
    BY <1>6 DEF Hydrate, daemonVars, viewVars, Answered
  <2>2. reply \in Held /\ reply # NoCursor /\ reply.gen # 0 /\ reply.seq \in Nat
    BY <1>a, <2>1, HeldAreCursors, CursorIsNone
  <2>3. cursor = pane => reply = pane
    <3>1. pane # NoCursor
      BY <1>a, CursorIsNone DEF TypeOK
    <3>2. cursor = pane => pane.seq <= reply.seq
      BY <1>a, <2>1, <3>1 DEF Attaching
    <3>3. QED
      BY <1>a, <2>1, <2>2, <3>2, AsFarAsThePane
  <2>4. reply = pane => cursor' = pane
    <3>1. CASE Retained
      <4>1. cursor \in Held /\ cursor.seq = reply.seq
        BY <1>a, <2>2, <3>1, HeldAreCursors DEF Retained, NoCursor
      <4>2. reply = pane => pane.seq <= cursor.seq
        BY <2>2, <4>1
      <4>3. reply = pane => cursor = pane
        BY <1>a, <2>1, <4>1, <4>2, AsFarAsThePane
      <4>4. QED
        BY <1>6, <3>1, <4>3 DEF Hydrate
    <3>2. CASE ~Retained
      BY <1>6, <3>2 DEF Hydrate
    <3>3. QED
      BY <3>1, <3>2
  <2>5. QED
    BY <1>a, <2>1, <2>3, <2>4 DEF NewestKnown
<1>7. CASE DropReply
  <2>1. UNCHANGED <<pane, hand, attached, lost, missed, queue, pending, attachReq, cursor>>
    BY <1>7 DEF DropReply, daemonVars, attachVars, replayVars, viewVars, shownVars,
       history, vars
  <2>2. replay = "answered" /\ ~Answered /\ (again => replay' = "asked")
    BY <1>a, <1>7 DEF DropReply, EndReplay, Request, Unmounted, Answered
  <2>3. QED
    BY <1>a, <2>1, <2>2 DEF NewestKnown
<1>8. CASE Drain
  <2>1. UNCHANGED <<pane, hand, attached, lost, missed, queue, attachReq>> /\ replay = "writing"
    BY <1>8 DEF Drain, daemonVars, attachVars, replayVars, viewVars, shownVars,
       history, vars
  <2>2. cursor' \in Held /\ cursor.seq <= cursor'.seq /\ (again' \/ Newest(pending).at.seq <= cursor'.seq)
    BY <1>a, <1>8, DrainStep
  <2>3. pane.seq <= cursor'.seq => cursor' = pane
    BY <1>a, <2>1, <2>2, AsFarAsThePane
  <2>4. again => again'
    BY <1>8 DEF Drain
  <2>5. QED
    BY <1>a, <2>1, <2>2, <2>3, <2>4 DEF NewestKnown, Answered
<1>9. CASE FinishReplay
  <2>1. UNCHANGED <<pane, hand, attached, lost, missed, queue, pending, attachReq, cursor>>
    BY <1>9 DEF FinishReplay, daemonVars, attachVars, replayVars, viewVars, shownVars,
       history, vars
  <2>2. replay = "writing" /\ (again => replay' = "asked")
    BY <1>a, <1>9 DEF FinishReplay, EndReplay, Request, Unmounted
  <2>3. QED
    BY <1>a, <2>1, <2>2 DEF NewestKnown, Answered
<1>10. CASE AttachDone
  <2>1. AskForSnapshot /\ opened
    BY <1>a, <1>10 DEF AttachDone, Attaching
  <2>2. replay' = "asked" \/ again'
    BY <2>1 DEF AskForSnapshot, Request
  <2>3. QED
    BY <2>2 DEF NewestKnown
<1>11. CASE Mount
  <2>1. attachReq' = "sent"
    BY <1>11, <1>a, MountAttaches
  <2>2. QED
    BY <2>1 DEF NewestKnown
<1>12. CASE Park
  <2>1. UNCHANGED <<pane, hand, attached, lost, missed, queue, pending, attachReq, cursor, replayVars>>
    BY <1>12 DEF Park, daemonVars, attachVars, replayVars, viewVars, shownVars,
       history, vars
  <2>2. parked => FALSE
    BY <1>12 DEF Park
  <2>3. QED
    BY <1>a, <2>1, <2>2 DEF NewestKnown, Answered, replayVars
<1>13. CASE Hide
  <2>1. UNCHANGED <<pane, hand, attached, lost, missed, queue, pending, attachReq, cursor, replayVars,
                    stale>>
    BY <1>13 DEF Hide, daemonVars, attachVars, replayVars, viewVars, shownVars,
       history, vars
  <2>2. parked => parked'
    BY <1>13 DEF Hide, daemonVars, attachVars, replayVars, viewVars, shownVars,
       history, vars
  <2>3. QED
    BY <1>a, <2>1, <2>2 DEF NewestKnown, Answered, replayVars
<1>14. CASE Show
  <2>1. UNCHANGED <<pane, hand, attached, lost, missed, queue, pending, attachReq, att, opened, cursor>>
    BY <1>14 DEF Show, daemonVars, attachVars, history
  <2>2. opened /\ ~lost
    BY <1>14, <2>1 DEF Show
  <2>3. CASE AskForSnapshot
    <3>1. replay' = "asked" \/ again'
      BY <2>2, <2>3 DEF AskForSnapshot, Request
    <3>2. QED
      BY <3>1 DEF NewestKnown
  <2>4. CASE UNCHANGED replayVars /\ (att # "yes" \/ ~(parked /\ stale))
    <3>1. att # "yes" => attachReq # "none"
      BY <1>a, <2>2 DEF Attaching, TypeOK
    <3>2. QED
      BY <1>a, <2>1, <2>4, <3>1 DEF NewestKnown, Answered, replayVars
  <2>5. QED
    BY <1>14, <2>3, <2>4 DEF Show
<1>15. CASE Leave
  BY <1>15 DEF Leave
<1>16. CASE Return
  <2>1. attachReq' = "sent"
    BY <1>16 DEF Return, BeginAttach
  <2>2. QED
    BY <2>1 DEF NewestKnown
<1>17. ASSUME NEW gen \in Generations, Restart(gen)
      PROVE  NewestKnown'
  BY <1>17 DEF Restart
<1>18. CASE AttachFails
  BY <1>18 DEF AttachFails, viewVars
<1>19. CASE SubscribeFails
  BY <1>19 DEF SubscribeFails, viewVars
<1>20. CASE Reconnect
  BY <1>a, <1>20 DEF Reconnect, Links, daemonVars
<1>21. CASE UNCHANGED vars
  <2>1. UNCHANGED <<pane, hand, attached, lost, missed, queue, pending, attachReq, cursor, replayVars,
                    stale>>
    BY <1>21 DEF daemonVars, attachVars, replayVars, viewVars, shownVars, history, vars
  <2>2. parked => parked'
    BY <1>21 DEF daemonVars, attachVars, replayVars, viewVars, shownVars, history, vars
  <2>3. QED
    BY <1>a, <2>1, <2>2 DEF NewestKnown, Answered, replayVars
<1>22. QED
  BY <1>1, <1>2, <1>3, <1>4, <1>5, <1>6, <1>7, <1>8, <1>9, <1>10, <1>11, <1>12, <1>13,
     <1>14, <1>15, <1>16, <1>17, <1>18, <1>19, <1>20, <1>21 DEF Next

----------------------------------------------------------------------------
LEMMA OutputInvHolds == Spec => []OutputInv
<1>1. Init => OutputInv
  <2>1. Init => TypeOK
    BY InitTypes
  <2>2. Init => Unmounted /\ Links
    BY DEF Init, Unmounted, Unattached, Links
  <2>3. ASSUME Init PROVE Held = {}
    BY <2>3 DEF Init, Held, Waiting, Items, Answered
  <2>4. ASSUME Init PROVE InOrder /\ SnapshotsCovered
    BY <2>4 DEF Init, InOrder, Sorted, SnapshotsCovered, Waiting, Items
  <2>5. Init => Attaching /\ NewestKnown /\ ~spoiled
    BY DEF Init, Attaching, Answered, NewestKnown
  <2>6. QED
    BY <2>1, <2>2, <2>3, <2>4, <2>5 DEF OutputInv, OneLife
<1>2. OutputInv /\ [Next]_vars => OutputInv'
  <2> SUFFICES ASSUME OutputInv, [Next]_vars PROVE OutputInv'
    OBVIOUS
  <2>1. TypeOK' /\ Unmounted' /\ Links'
    BY TypeStep, UnmountedStep, LinksStep DEF OutputInv
  <2>2. Undisturbed' => /\ OneLife' /\ InOrder' /\ Attaching' /\ SnapshotsCovered'
                        /\ NewestKnown' /\ ~spoiled'
    BY OneLifeStep, InOrderStep, AttachingStep, SnapshotsCoveredStep, NewestKnownStep,
       RightStep
  <2>3. QED
    BY <2>1, <2>2 DEF OutputInv
<1>3. QED
  BY <1>1, <1>2, PTL DEF Spec

(***************************************************************************)
(* As long as no terminal outlives its daemon and none comes back amid a   *)
(* replay (Undisturbed), what it shows is the output of the pane, every    *)
(* byte once and in order, for any queues and any numbers of frames.       *)
(***************************************************************************)
THEOREM OutputIsRight == Spec => []EveryByteOnce
<1>1. OutputInv => EveryByteOnce
  BY DEF OutputInv, EveryByteOnce
<1>2. QED
  BY <1>1, OutputInvHolds, PTL

(***************************************************************************)
(* When nothing is on its way and the newest frame was not dropped, the    *)
(* terminal shows all that the pane has put out, whatever was lost before. *)
(***************************************************************************)
THEOREM OutputIsWhole == Spec => []NothingMissedSilently
<1>1. OutputInv => NothingMissedSilently
  <2> SUFFICES ASSUME OutputInv, Still, ~missed, Undisturbed
               PROVE  attached /\ cursor = pane /\ pending = <<>>
    BY DEF NothingMissedSilently
  <2>1. Links /\ Attaching /\ NewestKnown
    BY DEF OutputInv
  <2>2. pending = <<>>
    BY <2>1 DEF Attaching, Still
  <2>3. attached
    BY <2>1 DEF Links, Still
  <2>4. ~again
    BY <2>1 DEF Links, Still
  <2>5. cursor = pane
    BY <2>1, <2>2, <2>3, <2>4 DEF NewestKnown, Still, Answered
  <2>6. QED
    BY <2>2, <2>3, <2>5
<1>2. QED
  BY <1>1, OutputInvHolds, PTL

=============================================================================
