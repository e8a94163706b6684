--------------------------- MODULE IpcServerProofs ---------------------------
(***************************************************************************)
(* A client and the IPC server stay in step: whatever clients there are,   *)
(* however their requests and the writes to them are cut, mixed and broken *)
(* off, and however long it goes on, each reads whole messages, and the    *)
(* replies among them answer its requests one by one in their order.       *)
(*                                                                         *)
(* Owes says of a client how many of its requests have been answered by    *)
(* what it was sent, and Backlog that what waits in its socket is what     *)
(* follows them.  A message that is queued, an event or the reply to the   *)
(* next request, keeps the first and a step of the client the second.      *)
(***************************************************************************)
EXTENDS IpcServer, FiniteSetTheorems, FunctionTheorems, SequenceTheorems,
        WellFoundedInduction, NaturalsInduction, TLAPS

------------------------------------------------------------------------------
(***************************************************************************)
(* Walks along a sequence.                                                 *)
(***************************************************************************)
LEMMA LeastExists ==
  ASSUME NEW I \in SUBSET Nat, I # {}
  PROVE  \E x \in I : \A y \in I : x <= y
<1>1. \E x \in I : \A y \in I : <<y, x>> \notin OpToRel(<, Nat)
  BY NatLessThanWellFounded, WFMin
<1>2. PICK x \in I : \A y \in I : <<y, x>> \notin OpToRel(<, Nat)
  BY <1>1
<1>3. \A y \in I : ~(y < x)
  BY <1>2 DEF OpToRel
<1> QED
  BY <1>3

\* What holds at first and is kept by every step holds all along.
LEMMA Counting ==
  ASSUME NEW n \in Nat, NEW G, 0 \in G, \A i \in 1 .. n : i - 1 \in G => i \in G
  PROVE  \A i \in 0 .. n : i \in G
<1> DEFINE I == (0 .. n) \ G
<1> SUFFICES ASSUME I # {}
             PROVE  FALSE
  OBVIOUS
<1>1. I \in SUBSET Nat
  OBVIOUS
<1>2. PICK x \in I : \A y \in I : x <= y
  BY <1>1, LeastExists
<1>3. x \in 1 .. n /\ x \notin G
  BY <1>2
<1>4. x - 1 \in 0 .. n /\ ~(x <= x - 1)
  BY <1>3
<1>5. x - 1 \in G
  BY <1>2, <1>4
<1> QED
  BY <1>3, <1>5

Walk(f, m, T, base, g) ==
  /\ f \in [0 .. m -> T] /\ f[0] = base
  /\ \A i \in 1 .. m : f[i] = g[<<f[i - 1], i>>]

\* A walk whose steps stay in T exists.
LEMMA FoldExists ==
  ASSUME NEW n \in Nat, NEW T, NEW base \in T, NEW g \in [T \X (1 .. n) -> T]
  PROVE  \E f : Walk(f, n, T, base, g)
<1> DEFINE G == {m \in 0 .. n : \E f : Walk(f, m, T, base, g)}
<1>1. 0 \in G
  <2>1. Walk([i \in 0 .. 0 |-> base], 0, T, base, g)
    BY DEF Walk
  <2>2. 0 \in 0 .. n
    OBVIOUS
  <2> QED
    BY <2>1, <2>2
<1>2. ASSUME NEW m \in 1 .. n, m - 1 \in G
      PROVE  m \in G
  <2>1. PICK f : Walk(f, m - 1, T, base, g)
    BY <1>2
  <2> DEFINE h == [i \in 0 .. m |-> IF i = m THEN g[<<f[m - 1], m>>] ELSE f[i]]
  <2>2. m - 1 \in 0 .. m - 1 /\ m # 0 /\ m \in Nat
    OBVIOUS
  <2>3. g[<<f[m - 1], m>>] \in T
    BY <2>1, <2>2 DEF Walk
  <2>4. h \in [0 .. m -> T]
    BY <2>1, <2>3 DEF Walk
  <2>5. h[0] = base
    BY <2>1, <2>2 DEF Walk
  <2>6. ASSUME NEW i \in 1 .. m
        PROVE  h[i] = g[<<h[i - 1], i>>]
    <3>1. i - 1 \in 0 .. m /\ i - 1 # m /\ i \in 0 .. m
      BY <2>2
    <3>2. h[i - 1] = f[i - 1]
      BY <3>1
    <3>3. CASE i = m
      BY <3>1, <3>2, <3>3
    <3>4. CASE i # m
      <4>1. i \in 1 .. m - 1
        BY <2>2, <3>4
      <4>2. f[i] = g[<<f[i - 1], i>>] /\ h[i] = f[i]
        BY <2>1, <3>1, <3>4, <4>1 DEF Walk
      <4> QED
        BY <3>2, <4>2
    <3> QED
      BY <3>3, <3>4
  <2>7. Walk(h, m, T, base, g)
    BY <2>4, <2>5, <2>6 DEF Walk
  <2>8. m \in 0 .. n
    OBVIOUS
  <2> HIDE DEF h
  <2> QED
    BY <2>7, <2>8
<1> HIDE DEF G
<1>3. n \in 0 .. n /\ \A i \in 0 .. n : i \in G
  BY <1>1, <1>2, Counting
<1>4. n \in G
  BY <1>3
<1> QED
  BY <1>4 DEF G

------------------------------------------------------------------------------
(***************************************************************************)
(* Messages and what a client was sent.                                    *)
(***************************************************************************)
LEMMA MessagesAre ==
  /\ \A k \in AllKinds : Reply(k) \in Messages /\ Reply(k).type = "reply"
  /\ \A e \in Events : Event(e) \in Messages /\ Event(e).type = "event"
  /\ \A m \in Messages : MsgLen(m) \in {2, 4}
  /\ \A e \in Events : MsgLen(Event(e)) = 2
  /\ \A e \in Events, k \in AllKinds : Event(e) # Reply(k)
  BY DEF Messages, Reply, Event, MsgLen

LEMMA PayloadIs ==
  /\ \A k \in AllKinds : PayloadLen[k] \in 0 .. 2
  /\ PayloadLen["garbage"] = 0 /\ PayloadLen["unknown"] = 0
  BY DEF PayloadLen, AllKinds

LEMMA UnitsAre ==
  ASSUME NEW m \in Messages
  PROVE  /\ Units(m) \in Seq(AllUnits) /\ Len(Units(m)) = MsgLen(m)
         /\ \A i \in 1 .. MsgLen(m) : /\ Units(m)[i].msg = m /\ Units(m)[i].part = i
                                      /\ Units(m)[i] = [msg |-> m, part |-> i]
<1>1. MsgLen(m) \in {2, 4}
  BY MessagesAre
<1>2. \A i \in 1 .. MsgLen(m) : [msg |-> m, part |-> i] \in AllUnits
  BY <1>1 DEF AllUnits
<1> QED
  BY <1>1, <1>2 DEF Units

LEMMA UnitIs ==
  ASSUME NEW u \in AllUnits
  PROVE  /\ u.msg \in Messages /\ u.part \in 1 .. 4 /\ u.part <= MsgLen(u.msg)
         /\ u = [msg |-> u.msg, part |-> u.part]
  BY DEF AllUnits

\* What the stream of a client owes to its first h requests, and how it is cut.
FramedIn(units, whole) ==
  /\ \A i \in 1 .. Len(units) :
       IF i = 1 \/ Ends(units[i-1]) THEN units[i].part = 1
       ELSE units[i] = [msg |-> units[i-1].msg, part |-> units[i-1].part + 1]
  /\ whole /\ units # <<>> => Ends(units[Len(units)])

Heads(units) == RepliesUpTo(units, Len(units))

InOrder(units, requests) ==
  \A i \in Heads(units) :
    \E r \in AnsweredUpTo(requests, Len(requests)) :
      /\ units[i].msg = Reply(requests[r])
      /\ Cardinality(RepliesUpTo(units, i)) = Cardinality(AnsweredUpTo(requests, r))

LEMMA RepliesFinite ==
  ASSUME NEW units, NEW n \in Int
  PROVE  /\ IsFiniteSet(RepliesUpTo(units, n)) /\ Cardinality(RepliesUpTo(units, n)) \in Nat
         /\ IsFiniteSet(AnsweredUpTo(units, n)) /\ Cardinality(AnsweredUpTo(units, n)) \in Nat
<1>1. IsFiniteSet(1 .. n)
  BY FS_Interval
<1>2. RepliesUpTo(units, n) \in SUBSET (1 .. n) /\ AnsweredUpTo(units, n) \in SUBSET (1 .. n)
  BY DEF RepliesUpTo, AnsweredUpTo
<1> HIDE DEF RepliesUpTo, AnsweredUpTo
<1>3. IsFiniteSet(RepliesUpTo(units, n)) /\ IsFiniteSet(AnsweredUpTo(units, n))
  BY <1>1, <1>2, FS_Subset
<1> QED
  BY <1>3, FS_CardinalityType

\* A prefix of a stream is in order when the stream is.
LEMMA PrefixInOrder ==
  ASSUME NEW units \in Seq(AllUnits), NEW requests \in Seq(AllKinds), NEW more \in Seq(AllUnits),
         InOrder(units \o more, requests), FramedIn(units \o more, FALSE)
  PROVE  InOrder(units, requests) /\ FramedIn(units, FALSE)
<1> DEFINE both == units \o more
<1>1. /\ both \in Seq(AllUnits) /\ Len(both) = Len(units) + Len(more)
      /\ \A i \in 1 .. Len(units) : both[i] = units[i]
  BY ConcatProperties
<1>2. InOrder(both, requests) /\ FramedIn(both, FALSE)
  OBVIOUS
<1> HIDE DEF both
<1>3. Len(units) \in Nat /\ Len(more) \in Nat
  OBVIOUS
<1>4. \A n \in 0 .. Len(units) : RepliesUpTo(both, n) = RepliesUpTo(units, n)
  <2>1. ASSUME NEW n \in 0 .. Len(units) PROVE RepliesUpTo(both, n) = RepliesUpTo(units, n)
    <3>1. \A i \in 1 .. n : both[i] = units[i]
      BY <1>1, <1>3
    <3> QED
      BY <3>1 DEF RepliesUpTo
  <2> QED
    BY <2>1
<1>5. InOrder(units, requests)
  <2>1. ASSUME NEW i \in Heads(units)
        PROVE  \E r \in AnsweredUpTo(requests, Len(requests)) :
                 /\ units[i].msg = Reply(requests[r])
                 /\ Cardinality(RepliesUpTo(units, i)) = Cardinality(AnsweredUpTo(requests, r))
    <3>1. i \in 1 .. Len(units) /\ i \in Heads(both)
      BY <1>1, <1>3 DEF Heads, RepliesUpTo
    <3>2. both[i] = units[i] /\ RepliesUpTo(both, i) = RepliesUpTo(units, i)
      BY <1>1, <1>3, <1>4, <3>1
    <3> QED
      BY <1>2, <3>1, <3>2 DEF InOrder
  <2> QED
    BY <2>1 DEF InOrder
<1>6. FramedIn(units, FALSE)
  <2>1. ASSUME NEW i \in 1 .. Len(units)
        PROVE  IF i = 1 \/ Ends(units[i-1]) THEN units[i].part = 1
               ELSE units[i] = [msg |-> units[i-1].msg, part |-> units[i-1].part + 1]
    <3>1. i \in 1 .. Len(both) /\ both[i] = units[i] /\ (i # 1 => both[i-1] = units[i-1])
      BY <1>1, <1>3
    <3> QED
      BY <1>2, <3>1 DEF FramedIn
  <2> QED
    BY <2>1 DEF FramedIn
<1> QED
  BY <1>5, <1>6

\* A whole message more: it is framed, and begins a reply where it is one.
LEMMA OneMoreMessage ==
  ASSUME NEW units \in Seq(AllUnits), NEW m \in Messages, FramedIn(units, TRUE)
  PROVE  LET more == units \o Units(m)
         IN  /\ more \in Seq(AllUnits) /\ Len(more) = Len(units) + MsgLen(m)
             /\ FramedIn(more, TRUE)
             /\ \A i \in 1 .. Len(units) : more[i] = units[i]
             /\ more[Len(units) + 1].msg = m
             /\ \A n \in 0 .. Len(units) : RepliesUpTo(more, n) = RepliesUpTo(units, n)
             /\ \A n \in Len(units) + 1 .. Len(more) :
                  RepliesUpTo(more, n) = IF m.type = "reply" THEN Heads(units) \cup {Len(units) + 1}
                                         ELSE Heads(units)
<1> DEFINE more == units \o Units(m)
           n == Len(units)
           k == MsgLen(m)
<1>1. /\ Units(m) \in Seq(AllUnits) /\ Len(Units(m)) = k
      /\ \A i \in 1 .. k : /\ Units(m)[i].msg = m /\ Units(m)[i].part = i
                           /\ Units(m)[i] = [msg |-> m, part |-> i]
  BY UnitsAre
<1>2. k \in {2, 4} /\ n \in Nat
  BY MessagesAre
<1>3. /\ more \in Seq(AllUnits) /\ Len(more) = n + k
      /\ \A i \in 1 .. n + k : more[i] = IF i <= n THEN units[i] ELSE Units(m)[i - n]
  <2>1. /\ more \in Seq(AllUnits) /\ Len(more) = n + Len(Units(m))
        /\ \A i \in 1 .. n + Len(Units(m)) :
             more[i] = IF i <= n THEN units[i] ELSE Units(m)[i - n]
    BY <1>1, ConcatProperties, Zenon
  <2> HIDE DEF more, n, k
  <2> QED
    BY <1>1, <2>1
<1> HIDE DEF more, n, k
<1>4. \A i \in 1 .. n : more[i] = units[i]
  BY <1>2, <1>3
<1>5. \A i \in n + 1 .. n + k : more[i].msg = m /\ more[i].part = i - n /\ more[i] = [msg |-> m, part |-> i - n]
  <2>1. ASSUME NEW i \in n + 1 .. n + k
        PROVE  more[i].msg = m /\ more[i].part = i - n /\ more[i] = [msg |-> m, part |-> i - n]
    <3>1. i \in 1 .. n + k /\ ~(i <= n) /\ i - n \in 1 .. k
      BY <1>2
    <3>2. more[i] = Units(m)[i - n]
      BY <1>3, <3>1
    <3> QED
      BY <1>1, <3>1, <3>2
  <2> QED
    BY <2>1
<1>6. FramedIn(units, TRUE) /\ (n # 0 => units # <<>>) /\ Len(units) = n
  <2>1. Len(units) # 0 => units # <<>>
    OBVIOUS
  <2> QED
    BY <2>1 DEF n
<1>7. FramedIn(more, TRUE)
  <2>1. ASSUME NEW i \in 1 .. n + k
        PROVE  IF i = 1 \/ Ends(more[i-1]) THEN more[i].part = 1
               ELSE more[i] = [msg |-> more[i-1].msg, part |-> more[i-1].part + 1]
    <3>1. CASE i \in 1 .. n
      <4>1. more[i] = units[i] /\ (i # 1 => more[i-1] = units[i-1])
        BY <1>2, <1>4, <3>1
      <4> QED
        BY <1>6, <3>1, <4>1 DEF FramedIn
    <3>2. CASE i = n + 1
      <4>1. more[i].part = 1
        <5>1. i \in n + 1 .. n + k /\ i - n = 1
          BY <1>2, <3>2
        <5> QED
          BY <1>5, <5>1
      <4>2. i # 1 => more[i-1] = units[n] /\ units # <<>>
        BY <1>2, <1>4, <1>6, <3>2
      <4>3. i # 1 => Ends(more[i-1])
        BY <1>6, <4>2 DEF FramedIn
      <4> QED
        BY <4>1, <4>3
    <3>3. CASE i \in n + 2 .. n + k
      <4>1. i - 1 \in n + 1 .. n + k /\ i # 1 /\ i \in n + 1 .. n + k
        BY <1>2, <3>3
      <4>2. more[i-1].msg = m /\ more[i-1].part = i - 1 - n /\ more[i] = [msg |-> m, part |-> i - n]
        BY <1>5, <4>1
      <4>3. i - 1 - n # k /\ (i - 1 - n) + 1 = i - n
        BY <1>2, <3>3
      <4>4. ~Ends(more[i-1])
        BY <4>2, <4>3 DEF Ends, k
      <4> QED
        BY <4>1, <4>2, <4>3, <4>4
    <3> QED
      BY <1>2, <3>1, <3>2, <3>3
  <2>2. Ends(more[n + k])
    <3>1. n + k \in n + 1 .. n + k /\ (n + k) - n = k
      BY <1>2
    <3> QED
      BY <1>5, <3>1 DEF Ends, k
  <2> QED
    BY <1>3, <2>1, <2>2 DEF FramedIn
<1>8. \A j \in 0 .. n : RepliesUpTo(more, j) = RepliesUpTo(units, j)
  <2>1. ASSUME NEW j \in 0 .. n PROVE RepliesUpTo(more, j) = RepliesUpTo(units, j)
    <3>1. \A i \in 1 .. j : more[i] = units[i]
      BY <1>2, <1>4
    <3> QED
      BY <3>1 DEF RepliesUpTo
  <2> QED
    BY <2>1
<1>9. ASSUME NEW j \in n + 1 .. n + k
      PROVE  RepliesUpTo(more, j) = IF m.type = "reply" THEN Heads(units) \cup {n + 1} ELSE Heads(units)
  <2>1. \A i \in 1 .. j : i \in 1 .. n \/ i \in n + 1 .. n + k
    BY <1>2
  <2>2. \A i \in 1 .. n : i \in 1 .. j
    BY <1>2
  <2>3. n + 1 \in 1 .. j /\ n + 1 \in n + 1 .. n + k /\ (n + 1) - n = 1
    BY <1>2
  <2>4. \A i \in n + 1 .. n + k : i - n = 1 <=> i = n + 1
    BY <1>2
  <2>5. ASSUME NEW i \in RepliesUpTo(more, j)
        PROVE  i \in Heads(units) \/ (m.type = "reply" /\ i = n + 1)
    <3>1. i \in 1 .. j /\ more[i].part = 1 /\ more[i].msg.type = "reply"
      BY <2>5 DEF RepliesUpTo
    <3>2. CASE i \in 1 .. n
      BY <1>4, <1>6, <3>1, <3>2 DEF Heads, RepliesUpTo
    <3>3. CASE i \in n + 1 .. n + k
      BY <1>5, <2>4, <3>1, <3>3
    <3> QED
      BY <2>1, <3>1, <3>2, <3>3
  <2>6. ASSUME NEW i \in Heads(units) PROVE i \in RepliesUpTo(more, j)
    BY <1>4, <1>6, <2>2, <2>6 DEF Heads, RepliesUpTo
  <2>7. m.type = "reply" => n + 1 \in RepliesUpTo(more, j)
    BY <1>5, <2>3 DEF RepliesUpTo
  <2>8. CASE m.type = "reply"
    BY <2>5, <2>6, <2>7, <2>8
  <2>9. CASE m.type # "reply"
    BY <2>5, <2>6, <2>9
  <2> QED
    BY <2>8, <2>9
<1>10. more[n + 1].msg = m
  <2>1. n + 1 \in n + 1 .. n + k
    BY <1>2
  <2> QED
    BY <1>5, <2>1
<1> QED
  BY <1>3, <1>4, <1>7, <1>8, <1>9, <1>10 DEF more, n, k

------------------------------------------------------------------------------
(***************************************************************************)
(* The buffers.                                                            *)
(***************************************************************************)
Doubles(w, z, n) == w \in [0 .. n -> Nat] /\ w[0] = z /\ \A i \in 1 .. n : w[i] = 2 * w[i-1]

\* A buffer doubles until what is queued fits.
LEMMA GrownIs ==
  ASSUME NEW z \in Nat \ {0}, NEW n \in Nat
  PROVE  \E w : /\ Doubles(w, z, n)
                /\ \E k \in 0 .. n : /\ Grown(z, n) = w[k] /\ n < w[k]
                                     /\ \A j \in 0 .. k - 1 : w[j] <= n
<1> DEFINE g == [x \in Nat \X (1 .. n) |-> 2 * x[1]]
<1>1. g \in [Nat \X (1 .. n) -> Nat]
  OBVIOUS
<1>2. PICK h : Walk(h, n, Nat, z, g)
  <2> HIDE DEF g
  <2> QED
    BY <1>1, FoldExists
<1> DEFINE E(x) == [k \in 0 .. n |-> IF k = 0 THEN z ELSE 2 * x[k-1]]
           w == CHOOSE x : x = E(x)
<1>3. ASSUME NEW i \in 1 .. n PROVE h[i] = 2 * h[i - 1]
  <2>1. <<h[i - 1], i>> \in Nat \X (1 .. n)
    BY <1>2 DEF Walk
  <2> QED
    BY <1>2, <2>1 DEF Walk
<1>4. h = E(h)
  <2>1. h = [i \in 0 .. n |-> h[i]] /\ h[0] = z
    BY <1>2 DEF Walk
  <2>2. \A i \in 0 .. n : i = 0 \/ i \in 1 .. n
    OBVIOUS
  <2>3. \A i \in 0 .. n : h[i] = IF i = 0 THEN z ELSE 2 * h[i - 1]
    BY <1>3, <2>1, <2>2
  <2> QED
    BY <2>1, <2>3
<1>5. w = E(w)
  BY <1>4
<1> DEFINE k == CHOOSE i \in 0 .. n : n < w[i] /\ \A j \in 0 .. i - 1 : w[j] <= n
<1>6. Grown(z, n) = w[k]
  BY DEF Grown
<1> HIDE DEF w
<1>7. DOMAIN w = 0 .. n /\ w[0] = z /\ \A i \in 1 .. n : w[i] = 2 * w[i - 1]
  <2>1. \A i \in 0 .. n : w[i] = E(w)[i]
    BY <1>5
  <2>2. DOMAIN w = 0 .. n
    BY <1>5
  <2> QED
    BY <2>1, <2>2
<1> DEFINE G == {i \in 0 .. n : w[i] \in Nat /\ w[i] >= i + 1}
<1>8. 0 \in G
  BY <1>7
<1>9. ASSUME NEW i \in 1 .. n, i - 1 \in G PROVE i \in G
  BY <1>7, <1>9
<1> HIDE DEF G
<1>10. \A i \in 0 .. n : i \in G
  BY <1>8, <1>9, Counting
<1>11. \A i \in 0 .. n : w[i] \in Nat /\ w[i] >= i + 1
  BY <1>10 DEF G
<1>12. Doubles(w, z, n)
  <2>1. w = [i \in 0 .. n |-> w[i]]
    BY <1>5
  <2> QED
    BY <1>7, <1>11, <2>1 DEF Doubles
<1>13. \E i \in 0 .. n : n < w[i] /\ \A j \in 0 .. i - 1 : w[j] <= n
  <2> DEFINE I == {i \in 0 .. n : n < w[i]}
  <2>1. n \in I
    BY <1>11
  <2>2. I \in SUBSET Nat /\ I # {}
    BY <2>1
  <2>3. PICK i \in I : \A j \in I : i <= j
    <3> HIDE DEF I
    <3> QED
      BY <2>2, LeastExists
  <2>4. \A j \in 0 .. i - 1 : w[j] <= n
    <3>1. ASSUME NEW j \in 0 .. i - 1 PROVE w[j] <= n
      <4>1. j \in 0 .. n /\ ~(i <= j)
        BY <2>3
      <4> QED
        BY <1>11, <2>3, <4>1
    <3> QED
      BY <3>1
  <2> QED
    BY <2>3, <2>4
<1>14. k \in 0 .. n /\ n < w[k] /\ \A j \in 0 .. k - 1 : w[j] <= n
  BY <1>13
<1> HIDE DEF k
<1> QED
  BY <1>6, <1>12, <1>14

LEMMA GrownFits ==
  ASSUME NEW z \in Nat \ {0}, NEW n \in Nat
  PROVE  Grown(z, n) \in Nat /\ Grown(z, n) > n
<1>1. PICK w : /\ Doubles(w, z, n)
               /\ \E k \in 0 .. n : /\ Grown(z, n) = w[k] /\ n < w[k]
                                    /\ \A j \in 0 .. k - 1 : w[j] <= n
  BY GrownIs
<1> QED
  BY <1>1 DEF Doubles

------------------------------------------------------------------------------
(***************************************************************************)
(* The server: what disconnecting a client and queueing for it change.     *)
(***************************************************************************)
Srv == [list : Seq(Clients), subs : [Clients -> SUBSET Events],
        buf : [Clients -> Seq(AllUnits)], size : [Clients -> Nat],
        armed : [Clients -> BOOLEAN], pending : [Clients -> AllKinds \cup {None}],
        misused : BOOLEAN]

NoRepeats(q) == \A i, j \in 1 .. Len(q) : q[i] = q[j] => i = j

\* The queue of a client: what waits for it fits in its buffer, and its socket is
\* watched as long as something does.
QueueOK(s, c) ==
  /\ 0 < s.size[c] /\ s.size[c] <= SizeLimit /\ Len(s.buf[c]) < s.size[c]
  /\ s.armed[c] <=> s.buf[c] # <<>>

ServerOK(s) ==
  /\ s \in Srv /\ NoRepeats(s.list)
  /\ \A c \in Clients :
       /\ QueueOK(s, c)
       /\ c \notin Connected(s) => s.buf[c] = <<>> /\ s.subs[c] = {} /\ s.pending[c] = None

\* From s to t, a client is left alone, is sent m, or is disconnected because n
\* units more would not fit.
Same(s, t, c) ==
  /\ c \in Connected(s) <=> c \in Connected(t)
  /\ t.subs[c] = s.subs[c] /\ t.pending[c] = s.pending[c]
  /\ t.buf[c] = s.buf[c] /\ t.size[c] = s.size[c]

Got(s, t, c, m) ==
  /\ c \in Connected(s) /\ c \in Connected(t)
  /\ t.subs[c] = s.subs[c] /\ t.pending[c] = s.pending[c]
  /\ t.buf[c] = s.buf[c] \o Units(m) /\ t.size[c] = Grown(s.size[c], Len(s.buf[c]) + MsgLen(m))

Lost(s, t, c, n) ==
  /\ c \in Connected(s) /\ c \notin Connected(t)
  /\ Grown(s.size[c], Len(s.buf[c]) + n) > SizeLimit

Shortened(q, k) == [i \in 1 .. Len(q) - 1 |-> IF i < k THEN q[i] ELSE q[i + 1]]

LEMMA ConnectedIs ==
  ASSUME NEW s \in Srv
  PROVE  /\ Connected(s) \in SUBSET Clients
         /\ \A c : c \in Connected(s) <=> \E i \in 1 .. Len(s.list) : s.list[i] = c
<1>1. s.list \in Seq(Clients) /\ Connected(s) = {s.list[i] : i \in DOMAIN s.list}
  BY DEF Srv, Connected, ToSet
<1>2. DOMAIN s.list = 1 .. Len(s.list)
  BY <1>1
<1>3. \A i \in 1 .. Len(s.list) : s.list[i] \in Clients
  BY <1>1
<1> QED
  BY <1>1, <1>2, <1>3

LEMMA RemoveAtIs ==
  ASSUME NEW q \in Seq(Clients), NEW k \in 1 .. Len(q)
  PROVE  RemoveAt(q, k) = Shortened(q, k) /\ RemoveAt(q, k) \in Seq(Clients) /\ Len(RemoveAt(q, k)) = Len(q) - 1
<1> DEFINE n == Len(q)
           a == SubSeq(q, 1, k - 1)
           b == SubSeq(q, k + 1, n)
           r == RemoveAt(q, k)
<1>1. n \in Nat /\ k \in 1 .. n
  OBVIOUS
<1>2. a \in Seq(Clients) /\ Len(a) = k - 1 /\ \A i \in 1 .. k - 1 : a[i] = q[i]
  BY <1>1
<1>3. b \in Seq(Clients) /\ Len(b) = n - k /\ \A i \in 1 .. n - k : b[i] = q[k + i]
  BY <1>1
<1>4. r = a \o b
  BY DEF RemoveAt
<1> HIDE DEF a, b, r
<1>5. /\ r \in Seq(Clients) /\ Len(r) = n - 1
      /\ \A i \in 1 .. n - 1 : r[i] = IF i < k THEN q[i] ELSE q[i + 1]
  <2>1. /\ r \in Seq(Clients) /\ Len(r) = Len(a) + Len(b)
        /\ \A i \in 1 .. Len(a) + Len(b) : r[i] = IF i <= Len(a) THEN a[i] ELSE b[i - Len(a)]
    BY <1>2, <1>3, <1>4, ConcatProperties, Zenon
  <2>2. Len(r) = n - 1
    BY <1>1, <1>2, <1>3, <2>1
  <2>3. ASSUME NEW i \in 1 .. n - 1 PROVE r[i] = IF i < k THEN q[i] ELSE q[i + 1]
    <3>1. r[i] = IF i <= k - 1 THEN a[i] ELSE b[i - (k - 1)]
      BY <1>1, <1>2, <1>3, <2>1
    <3>2. CASE i < k
      <4>1. i \in 1 .. k - 1 /\ i <= k - 1
        BY <1>1, <3>2
      <4> QED
        BY <1>2, <3>1, <3>2, <4>1
    <3>3. CASE ~(i < k)
      <4>1. i - (k - 1) \in 1 .. n - k /\ ~(i <= k - 1) /\ k + (i - (k - 1)) = i + 1
        BY <1>1, <3>3
      <4> QED
        BY <1>3, <3>1, <3>3, <4>1
    <3> QED
      BY <3>2, <3>3
  <2> QED
    BY <2>1, <2>2, <2>3
<1> HIDE DEF n
<1>6. r = [i \in 1 .. n - 1 |-> IF i < k THEN q[i] ELSE q[i + 1]]
  <2>1. r = [i \in 1 .. Len(r) |-> r[i]]
    BY <1>5
  <2> QED
    BY <1>5, <2>1
<1> QED
  BY <1>5, <1>6 DEF r, n, Shortened

LEMMA ShortenedIs ==
  ASSUME NEW q \in Seq(Clients), NEW k \in 1 .. Len(q), NoRepeats(q)
  PROVE  LET r == RemoveAt(q, k)
         IN  /\ NoRepeats(r) /\ \A i \in 1 .. Len(r) : r[i] # q[k]
             /\ \A c : c # q[k] => ((\E i \in 1 .. Len(q) : q[i] = c) <=> (\E i \in 1 .. Len(r) : r[i] = c))
<1> DEFINE r == RemoveAt(q, k)
           n == Len(q)
<1>1. n \in Nat /\ k \in 1 .. n /\ NoRepeats(q) /\ Len(q) = n
  OBVIOUS
<1>2. Len(r) = n - 1 /\ \A i \in 1 .. n - 1 : r[i] = IF i < k THEN q[i] ELSE q[i + 1]
  BY RemoveAtIs DEF Shortened
<1> HIDE DEF r, n
<1>3. NoRepeats(r)
  <2>1. ASSUME NEW i \in 1 .. n - 1, NEW j \in 1 .. n - 1, r[i] = r[j] PROVE i = j
    <3>1. i \in 1 .. n /\ i + 1 \in 1 .. n /\ j \in 1 .. n /\ j + 1 \in 1 .. n
      BY <1>1
    <3>2. CASE i < k /\ j < k
      BY <1>1, <1>2, <2>1, <3>1, <3>2 DEF NoRepeats
    <3>3. CASE i < k /\ ~(j < k)
      <4>1. q[i] = q[j + 1]
        BY <1>2, <2>1, <3>3
      <4> QED
        BY <1>1, <3>1, <3>3, <4>1 DEF NoRepeats
    <3>4. CASE ~(i < k) /\ j < k
      <4>1. q[i + 1] = q[j]
        BY <1>2, <2>1, <3>4
      <4> QED
        BY <1>1, <3>1, <3>4, <4>1 DEF NoRepeats
    <3>5. CASE ~(i < k) /\ ~(j < k)
      <4>1. q[i + 1] = q[j + 1]
        BY <1>2, <2>1, <3>5
      <4>2. i + 1 = j + 1
        BY <1>1, <3>1, <4>1 DEF NoRepeats
      <4> QED
        BY <4>2
    <3> QED
      BY <3>2, <3>3, <3>4, <3>5
  <2> QED
    BY <1>2, <2>1 DEF NoRepeats
<1>4. \A i \in 1 .. n - 1 : r[i] # q[k]
  <2>1. ASSUME NEW i \in 1 .. n - 1, r[i] = q[k] PROVE FALSE
    <3>1. i \in 1 .. n /\ i + 1 \in 1 .. n
      BY <1>1
    <3>2. CASE i < k
      BY <1>1, <1>2, <2>1, <3>1, <3>2 DEF NoRepeats
    <3>3. CASE ~(i < k)
      <4>1. i + 1 = k
        BY <1>1, <1>2, <2>1, <3>1, <3>3 DEF NoRepeats
      <4> QED
        BY <1>1, <3>3, <4>1
    <3> QED
      BY <3>2, <3>3
  <2> QED
    BY <2>1
<1>5. ASSUME NEW c, c # q[k], NEW i \in 1 .. n, q[i] = c
      PROVE  \E j \in 1 .. n - 1 : r[j] = c
  <2>1. i # k
    BY <1>5
  <2>2. CASE i < k
    <3>1. i \in 1 .. n - 1
      BY <1>1, <2>2
    <3> QED
      BY <1>2, <1>5, <2>2, <3>1
  <2>3. CASE ~(i < k)
    <3>1. i - 1 \in 1 .. n - 1 /\ ~(i - 1 < k) /\ (i - 1) + 1 = i
      BY <1>1, <2>1, <2>3
    <3> QED
      BY <1>2, <1>5, <3>1
  <2> QED
    BY <2>2, <2>3
<1>6. ASSUME NEW c, NEW j \in 1 .. n - 1, r[j] = c
      PROVE  \E i \in 1 .. n : q[i] = c
  <2>1. j \in 1 .. n /\ j + 1 \in 1 .. n
    BY <1>1
  <2> QED
    BY <1>2, <1>6, <2>1
<1> QED
  BY <1>1, <1>2, <1>3, <1>4, <1>5, <1>6 DEF r, n

LEMMA DisconnectIs ==
  ASSUME NEW s, ServerOK(s), NEW k \in 1 .. Len(s.list)
  PROVE  LET c == s.list[k]
             t == Disconnect(s, c)
         IN  /\ ServerOK(t) /\ t.list = Shortened(s.list, k) /\ Len(t.list) = Len(s.list) - 1
             /\ c \notin Connected(t)
             /\ t.misused = s.misused
             /\ \A d \in Clients \ {c} : Same(s, t, d)
<1> DEFINE c == s.list[k]
           t == Disconnect(s, c)
           q == s.list
<1>1. s \in Srv /\ NoRepeats(q) /\ q \in Seq(Clients) /\ c \in Clients
  BY DEF ServerOK, Srv
<1>2. (CHOOSE i \in DOMAIN q : q[i] = c) = k
  <2>1. DOMAIN q = 1 .. Len(q)
    BY <1>1
  <2>2. \A i \in DOMAIN q : q[i] = c => i = k
    BY <1>1, <2>1 DEF NoRepeats
  <2> QED
    BY <2>1, <2>2
<1>3. t = [s EXCEPT !.list = RemoveAt(q, k), !.subs[c] = {}, !.buf[c] = <<>>,
                    !.armed[c] = FALSE, !.pending[c] = None]
  BY <1>2 DEF Disconnect
<1>4. RemoveAt(q, k) = Shortened(q, k) /\ RemoveAt(q, k) \in Seq(Clients) /\ Len(RemoveAt(q, k)) = Len(q) - 1
  BY <1>1, RemoveAtIs
<1>5. /\ t.list = RemoveAt(q, k) /\ t.subs = [s.subs EXCEPT ![c] = {}]
      /\ t.buf = [s.buf EXCEPT ![c] = <<>>] /\ t.armed = [s.armed EXCEPT ![c] = FALSE]
      /\ t.pending = [s.pending EXCEPT ![c] = None]
      /\ t.size = s.size /\ t.misused = s.misused
  BY <1>1, <1>3 DEF Srv
<1>6. t \in Srv
  <2>1. <<>> \in Seq(AllUnits) /\ {} \in SUBSET Events
    OBVIOUS
  <2>2. /\ [s.subs EXCEPT ![c] = {}] \in [Clients -> SUBSET Events]
        /\ [s.buf EXCEPT ![c] = <<>>] \in [Clients -> Seq(AllUnits)]
        /\ [s.armed EXCEPT ![c] = FALSE] \in [Clients -> BOOLEAN]
        /\ [s.pending EXCEPT ![c] = None] \in [Clients -> AllKinds \cup {None}]
    BY <1>1, <2>1 DEF Srv
  <2> QED
    BY <1>1, <1>3, <1>4, <2>2 DEF Srv
<1> HIDE DEF t, c
<1>7. /\ \A d \in Clients : d # c => (d \in Connected(s) <=> d \in Connected(t))
      /\ c \notin Connected(t) /\ NoRepeats(t.list)
  <2>1. c = q[k]
    BY DEF c
  <2> DEFINE r == RemoveAt(q, k)
  <2>2. /\ NoRepeats(r) /\ \A i \in 1 .. Len(r) : r[i] # q[k]
        /\ \A d : d # q[k] => ((\E i \in 1 .. Len(q) : q[i] = d) <=> (\E i \in 1 .. Len(r) : r[i] = d))
    BY <1>1, ShortenedIs
  <2>3. /\ \A d : d \in Connected(s) <=> \E i \in 1 .. Len(q) : q[i] = d
        /\ \A d : d \in Connected(t) <=> \E i \in 1 .. Len(t.list) : t.list[i] = d
    BY <1>1, <1>6, ConnectedIs
  <2>4. t.list = r
    BY <1>5
  <2> HIDE DEF r
  <2>5. \A d : d \in Connected(t) <=> \E i \in 1 .. Len(r) : r[i] = d
    BY <2>3, <2>4
  <2> QED
    BY <2>1, <2>2, <2>3, <2>4, <2>5
<1>8. ASSUME NEW d \in Clients, d # c
      PROVE  Same(s, t, d) /\ (t.armed[d] <=> s.armed[d])
  BY <1>1, <1>5, <1>7, <1>8 DEF Same, Srv
<1>9. t.buf[c] = <<>> /\ t.subs[c] = {} /\ t.pending[c] = None /\ ~t.armed[c] /\ t.size[c] = s.size[c]
  BY <1>1, <1>5 DEF Srv
<1>10. ASSUME NEW d \in Clients
       PROVE  /\ QueueOK(t, d)
              /\ d \notin Connected(t) => t.buf[d] = <<>> /\ t.subs[d] = {} /\ t.pending[d] = None
  <2>1. /\ QueueOK(s, d)
        /\ d \notin Connected(s) => s.buf[d] = <<>> /\ s.subs[d] = {} /\ s.pending[d] = None
    BY DEF ServerOK
  <2>2. CASE d = c
    <3>1. Len(<<>>) = 0
      OBVIOUS
    <3> QED
      BY <1>1, <1>9, <2>1, <2>2, <3>1 DEF QueueOK, Srv
  <2>3. CASE d # c
    BY <1>8, <2>1, <2>3 DEF QueueOK, Same
  <2> QED
    BY <2>2, <2>3
<1>11. ServerOK(t)
  BY <1>6, <1>7, <1>10 DEF ServerOK
<1> QED
  BY <1>4, <1>5, <1>7, <1>8, <1>11 DEF c, t

LEMMA QueueIs ==
  ASSUME NEW s, ServerOK(s), NEW c \in Connected(s), NEW m \in Messages,
         Grown(s.size[c], Len(s.buf[c]) + MsgLen(m)) <= SizeLimit
  PROVE  LET t == Queue(s, c, m, Grown(s.size[c], Len(s.buf[c]) + MsgLen(m)))
         IN  /\ ServerOK(t) /\ t.list = s.list /\ t.misused = s.misused
             /\ Got(s, t, c, m)
             /\ \A d \in Clients \ {c} : Same(s, t, d)
<1> DEFINE z == Grown(s.size[c], Len(s.buf[c]) + MsgLen(m))
           t == Queue(s, c, m, z)
<1>1. s \in Srv /\ NoRepeats(s.list) /\ c \in Clients /\ s.buf[c] \in Seq(AllUnits)
  <2>1. s \in Srv /\ NoRepeats(s.list)
    BY DEF ServerOK
  <2>2. c \in Clients
    BY <2>1, ConnectedIs
  <2> QED
    BY <2>1, <2>2 DEF Srv
<1>2. QueueOK(s, c) /\ s.size[c] \in Nat \ {0}
  BY <1>1 DEF ServerOK, QueueOK, Srv
<1>3. MsgLen(m) \in {2, 4} /\ Units(m) \in Seq(AllUnits) /\ Len(Units(m)) = MsgLen(m)
  BY MessagesAre, UnitsAre
<1>4. z \in Nat /\ z > Len(s.buf[c]) + MsgLen(m) /\ z <= SizeLimit
  <2>1. Len(s.buf[c]) + MsgLen(m) \in Nat
    BY <1>1, <1>3
  <2> QED
    BY <1>2, <2>1, GrownFits
<1> HIDE DEF z
<1>5. /\ t.list = s.list /\ t.subs = s.subs
      /\ t.buf = [s.buf EXCEPT ![c] = s.buf[c] \o Units(m)]
      /\ t.size = [s.size EXCEPT ![c] = z] /\ t.armed = [s.armed EXCEPT ![c] = TRUE]
      /\ t.pending = s.pending /\ t.misused = s.misused
  BY <1>1 DEF Srv, Queue
<1>6. s.buf[c] \o Units(m) \in Seq(AllUnits) /\ Len(s.buf[c] \o Units(m)) = Len(s.buf[c]) + MsgLen(m)
  BY <1>1, <1>3, ConcatProperties
<1> DEFINE b == s.buf[c] \o Units(m)
<1> HIDE DEF b
<1>7. b \in Seq(AllUnits) /\ Len(b) = Len(s.buf[c]) + MsgLen(m) /\ b # <<>>
  <2>1. b \in Seq(AllUnits) /\ Len(b) = Len(s.buf[c]) + MsgLen(m)
    BY <1>6 DEF b
  <2>2. Len(b) # 0
    BY <1>1, <1>3, <2>1
  <2> QED
    BY <2>1, <2>2
<1>8. t \in Srv
  <2>1. /\ [s.buf EXCEPT ![c] = b] \in [Clients -> Seq(AllUnits)]
        /\ [s.size EXCEPT ![c] = z] \in [Clients -> Nat]
        /\ [s.armed EXCEPT ![c] = TRUE] \in [Clients -> BOOLEAN]
    BY <1>1, <1>4, <1>7 DEF Srv
  <2>2. t = [s EXCEPT !.buf = [s.buf EXCEPT ![c] = b], !.size = [s.size EXCEPT ![c] = z],
                      !.armed = [s.armed EXCEPT ![c] = TRUE]]
    BY <1>1 DEF Queue, b, Srv
  <2> HIDE DEF t
  <2> QED
    BY <1>1, <2>1, <2>2 DEF Srv
<1> HIDE DEF t
<1>9. Connected(t) = Connected(s)
  BY <1>5 DEF Connected
<1>10. Got(s, t, c, m)
  <2>1. t.buf[c] = s.buf[c] \o Units(m) /\ t.size[c] = z
    BY <1>1, <1>5 DEF Srv
  <2> QED
    BY <1>5, <1>9, <2>1 DEF Got, z
<1>11. ASSUME NEW d \in Clients, d # c
       PROVE  Same(s, t, d) /\ (t.armed[d] <=> s.armed[d])
  BY <1>1, <1>5, <1>9, <1>11 DEF Same, Srv
<1>12. t.buf[c] = b /\ t.size[c] = z /\ t.armed[c]
  BY <1>1, <1>5 DEF Srv, b
<1>13. ASSUME NEW d \in Clients
       PROVE  /\ QueueOK(t, d)
              /\ d \notin Connected(t) => t.buf[d] = <<>> /\ t.subs[d] = {} /\ t.pending[d] = None
  <2>1. /\ QueueOK(s, d)
        /\ d \notin Connected(s) => s.buf[d] = <<>> /\ s.subs[d] = {} /\ s.pending[d] = None
    BY DEF ServerOK
  <2>2. CASE d = c
    <3>1. QueueOK(t, c)
      BY <1>1, <1>3, <1>4, <1>7, <1>12 DEF QueueOK
    <3> QED
      BY <1>9, <2>2, <3>1
  <2>3. CASE d # c
    BY <1>11, <2>1, <2>3 DEF QueueOK, Same
  <2> QED
    BY <2>2, <2>3
<1>14. ServerOK(t)
  BY <1>1, <1>5, <1>8, <1>13 DEF ServerOK
<1> QED
  BY <1>5, <1>10, <1>11, <1>14 DEF t, z

\* A message is queued, or does not fit and costs the connection.
LEMMA SendReplyIs ==
  ASSUME NEW s, ServerOK(s), NEW k \in 1 .. Len(s.list), NEW m \in Messages
  PROVE  LET c == s.list[k]
             t == SendReply(s, c, m)
         IN  /\ ServerOK(t) /\ t.misused = s.misused
             /\ \/ Got(s, t, c, m) /\ t.list = s.list
                \/ /\ Lost(s, t, c, MsgLen(m))
                   /\ t.list = Shortened(s.list, k) /\ Len(t.list) = Len(s.list) - 1
             /\ \A d \in Clients \ {c} : Same(s, t, d)
<1> DEFINE c == s.list[k]
           z == Grown(s.size[c], Len(s.buf[c]) + MsgLen(m))
<1>1. s \in Srv /\ c \in Clients /\ c \in Connected(s)
  <2>1. s \in Srv
    BY DEF ServerOK
  <2> QED
    BY <2>1, ConnectedIs
<1>2. z \in Nat /\ SizeLimit \in Nat
  <2> HIDE DEF c
  <2>1. s.buf[c] \in Seq(AllUnits) /\ s.size[c] \in Nat /\ QueueOK(s, c) /\ MsgLen(m) \in {2, 4}
    BY <1>1, MessagesAre DEF ServerOK, Srv
  <2>2. s.size[c] \in Nat \ {0} /\ Len(s.buf[c]) + MsgLen(m) \in Nat
    BY <2>1 DEF QueueOK
  <2> QED
    BY <2>2, GrownFits, ServerAssumption DEF z
<1> HIDE DEF z
<1>3. CASE z <= SizeLimit
  <2>1. SendReply(s, c, m) = Queue(s, c, m, z)
    BY <1>2, <1>3 DEF SendReply, z
  <2> QED
    BY <1>1, <1>3, <2>1, QueueIs DEF z
<1>4. CASE ~(z <= SizeLimit)
  <2>1. SendReply(s, c, m) = Disconnect(s, c) /\ z > SizeLimit
    BY <1>2, <1>4 DEF SendReply, z
  <2> DEFINE t == Disconnect(s, c)
  <2>2. /\ ServerOK(t) /\ t.list = Shortened(s.list, k) /\ Len(t.list) = Len(s.list) - 1
        /\ c \notin Connected(t) /\ t.misused = s.misused
        /\ \A d \in Clients \ {c} : Same(s, t, d)
    BY DisconnectIs
  <2> HIDE DEF t
  <2>3. Lost(s, t, c, MsgLen(m))
    BY <1>1, <2>1, <2>2 DEF Lost, z
  <2> QED
    BY <2>1, <2>2, <2>3 DEF t
<1> QED
  BY <1>3, <1>4

\* What event e means to a client.
Told(s, t, c, e) ==
  IF e \in s.subs[c] THEN Got(s, t, c, Event(e)) \/ Lost(s, t, c, 2) ELSE Same(s, t, c)

\* One iteration: of the clients from index i on, the first is told.
LEMMA EventStepIs ==
  ASSUME NEW acc, ServerOK(acc.s), acc.i \in 1 .. Len(acc.s.list), NEW e \in Events
  PROVE  LET c == acc.s.list[acc.i]
             next == EventStep(acc, e)
         IN  /\ next = [s |-> next.s, i |-> next.i]
             /\ ServerOK(next.s) /\ next.i \in 1 .. Len(next.s.list) + 1
             /\ Len(next.s.list) - next.i = Len(acc.s.list) - acc.i - 1
             /\ \A j \in 1 .. Len(acc.s.list) - acc.i :
                  next.s.list[next.i + j - 1] = acc.s.list[acc.i + j]
             /\ Told(acc.s, next.s, c, e)
             /\ \A d \in Clients \ {c} : Same(acc.s, next.s, d)
             /\ next.s.misused = acc.s.misused
<1> DEFINE s == acc.s
           i == acc.i
           c == s.list[i]
           q == s.list
           t == IF e \in s.subs[c] THEN SendReply(s, c, Event(e)) ELSE s
           next == EventStep(acc, e)
<1>1. next = [s |-> t, i |-> IF c \in Connected(t) THEN i + 1 ELSE i]
  BY DEF EventStep
<1>2. s \in Srv /\ c \in Clients /\ c \in Connected(s) /\ q \in Seq(Clients) /\ NoRepeats(q)
  <2>1. s \in Srv /\ NoRepeats(q)
    BY DEF ServerOK
  <2> QED
    BY <2>1, ConnectedIs DEF Srv
<1>3. Event(e) \in Messages /\ MsgLen(Event(e)) = 2
  BY MessagesAre
<1>4. /\ ServerOK(t) /\ t.misused = s.misused
      /\ \/ Told(s, t, c, e) /\ c \in Connected(t) /\ t.list = q
         \/ /\ Told(s, t, c, e) /\ c \notin Connected(t)
            /\ t.list = Shortened(q, i) /\ Len(t.list) = Len(q) - 1
      /\ \A d \in Clients \ {c} : Same(s, t, d)
  <2>1. CASE e \in s.subs[c]
    <3> DEFINE u == SendReply(s, c, Event(e))
    <3>1. /\ ServerOK(u) /\ u.misused = s.misused
          /\ \/ Got(s, u, c, Event(e)) /\ u.list = s.list
             \/ /\ Lost(s, u, c, 2)
                /\ u.list = Shortened(s.list, i) /\ Len(u.list) = Len(s.list) - 1
          /\ \A d \in Clients \ {c} : Same(s, u, d)
      BY <1>3, SendReplyIs
    <3>2. t = u
      BY <2>1
    <3> HIDE DEF u, t
    <3> QED
      BY <2>1, <3>1, <3>2 DEF Told, Got, Lost
  <2>2. CASE e \notin s.subs[c]
    <3>1. t = s
      BY <2>2
    <3> HIDE DEF t
    <3> QED
      BY <1>2, <2>2, <3>1 DEF Told, Same
  <2> QED
    BY <2>1, <2>2
<1> HIDE DEF t, next
<1>5. Len(q) \in Nat /\ i \in 1 .. Len(q)
  BY <1>2
<1>6. CASE c \in Connected(t)
  <2>1. next.s = t /\ next.i = i + 1 /\ t.list = q
    BY <1>1, <1>4, <1>6
  <2>2. \A j \in 1 .. Len(q) - i : t.list[(i + 1) + j - 1] = q[i + j]
    <3>1. \A j \in 1 .. Len(q) - i : (i + 1) + j - 1 = i + j
      BY <1>5
    <3> QED
      BY <2>1, <3>1
  <2>3. next.i \in 1 .. Len(t.list) + 1 /\ Len(t.list) - next.i = Len(q) - i - 1
    BY <1>5, <2>1
  <2>4. next = [s |-> next.s, i |-> next.i]
    BY <1>1
  <2>5. /\ ServerOK(next.s) /\ Told(s, next.s, c, e) /\ next.s.misused = s.misused
        /\ \A d \in Clients \ {c} : Same(s, next.s, d)
    BY <1>4, <2>1
  <2>6. \A j \in 1 .. Len(q) - i : next.s.list[next.i + j - 1] = q[i + j]
    BY <2>1, <2>2
  <2> QED
    BY <2>1, <2>3, <2>4, <2>5, <2>6 DEF next
<1>7. CASE c \notin Connected(t)
  <2>1. next.s = t /\ next.i = i /\ t.list = Shortened(q, i) /\ Len(t.list) = Len(q) - 1
    BY <1>1, <1>4, <1>7
  <2>2. \A j \in 1 .. Len(q) - i : t.list[i + j - 1] = q[i + j]
    <3>1. ASSUME NEW j \in 1 .. Len(q) - i PROVE t.list[i + j - 1] = q[i + j]
      <4>1. i + j - 1 \in 1 .. Len(q) - 1 /\ ~(i + j - 1 < i) /\ (i + j - 1) + 1 = i + j
        BY <1>5
      <4> QED
        BY <2>1, <4>1 DEF Shortened
    <3> QED
      BY <3>1
  <2>3. next.i \in 1 .. Len(t.list) + 1 /\ Len(t.list) - next.i = Len(q) - i - 1
    BY <1>5, <2>1
  <2>4. next = [s |-> next.s, i |-> next.i]
    BY <1>1
  <2>5. /\ ServerOK(next.s) /\ Told(s, next.s, c, e) /\ next.s.misused = s.misused
        /\ \A d \in Clients \ {c} : Same(s, next.s, d)
    BY <1>4, <2>1
  <2>6. \A j \in 1 .. Len(q) - i : next.s.list[next.i + j - 1] = q[i + j]
    BY <2>1, <2>2
  <2> QED
    BY <2>1, <2>3, <2>4, <2>5, <2>6 DEF next
<1> QED
  BY <1>6, <1>7

LEMMA SameThenTold ==
  ASSUME NEW s, NEW t, NEW u, NEW c, NEW e, Same(s, t, c), Told(t, u, c, e)
  PROVE  Told(s, u, c, e)
  BY DEF Same, Told, Got, Lost

LEMMA ThenSame ==
  ASSUME NEW s, NEW t, NEW u, NEW c, NEW e, Same(t, u, c)
  PROVE  (Same(s, t, c) => Same(s, u, c)) /\ (Told(s, t, c, e) => Told(s, u, c, e))
  BY DEF Same, Told, Got, Lost

\* An event reaches every client once, whoever is disconnected on the way.
LEMMA SendEventIs ==
  ASSUME NEW s, ServerOK(s), NEW e \in Events
  PROVE  LET t == SendEvent(s, e)
         IN  ServerOK(t) /\ t.misused = s.misused /\ \A c \in Clients : Told(s, t, c, e)
<1> DEFINE n == Len(s.list)
           q == s.list
           T == {acc \in [s : Srv, i : Nat] : ServerOK(acc.s)}
           first == [s |-> s, i |-> 1]
           Step(acc) == IF acc.i \in 1 .. Len(acc.s.list) THEN EventStep(acc, e) ELSE first
           g == [z \in T \X (1 .. n) |-> Step(z[1])]
<1>1. s \in Srv /\ q \in Seq(Clients) /\ n \in Nat /\ NoRepeats(q)
  BY DEF ServerOK, Srv
<1>2. first \in T
  BY <1>1
<1>3. ASSUME NEW acc \in T PROVE Step(acc) \in T
  <2>1. CASE acc.i \in 1 .. Len(acc.s.list)
    <3> DEFINE next == EventStep(acc, e)
    <3>1. /\ next = [s |-> next.s, i |-> next.i] /\ ServerOK(next.s)
          /\ next.i \in 1 .. Len(next.s.list) + 1
      BY <2>1, EventStepIs
    <3> HIDE DEF next
    <3>2. next.s \in Srv /\ next.i \in Nat
      BY <3>1 DEF ServerOK
    <3>3. next \in [s : Srv, i : Nat]
      BY <3>1, <3>2
    <3> QED
      BY <2>1, <3>1, <3>3 DEF next
  <2>2. CASE acc.i \notin 1 .. Len(acc.s.list)
    BY <1>2, <2>2
  <2> QED
    BY <2>1, <2>2
<1> HIDE DEF T, Step, first, n
<1>4. g \in [T \X (1 .. n) -> T]
  BY <1>3
<1>5. PICK h : Walk(h, n, T, first, g)
  <2> HIDE DEF g
  <2> QED
    BY <1>1, <1>2, <1>4, FoldExists
<1>6. ASSUME NEW k \in 1 .. n PROVE h[k] = Step(h[k - 1])
  <2>1. <<h[k - 1], k>> \in T \X (1 .. n)
    BY <1>1, <1>5 DEF Walk
  <2> QED
    BY <1>5, <2>1 DEF Walk
<1>7. h \in [0 .. n -> T] /\ h[0] = first
  BY <1>5 DEF Walk
\* The clients up to index k are told, and those behind it are the rest of the list.
<1> DEFINE Rest(a, k) == /\ a.i \in 1 .. Len(a.s.list) + 1 /\ Len(a.s.list) - a.i = n - k - 1
                         /\ \A j \in 1 .. n - k : a.s.list[a.i + j - 1] = q[k + j]
           So(a, k) == /\ \A j \in 1 .. n : IF j <= k THEN Told(s, a.s, q[j], e) ELSE Same(s, a.s, q[j])
                       /\ \A c \in Clients \ Connected(s) : Same(s, a.s, c)
           G == {k \in 0 .. n : ServerOK(h[k].s) /\ h[k].s.misused = s.misused /\ Rest(h[k], k) /\ So(h[k], k)}
<1>8. 0 \in G
  <2>1. first.s = s /\ first.i = 1
    BY DEF first
  <2>2. Rest(first, 0)
    <3>1. \A j \in 1 .. n - 0 : 1 + j - 1 = 0 + j
      BY <1>1
    <3> QED
      BY <1>1, <2>1, <3>1 DEF n
  <2>3. So(first, 0)
    <3>1. \A j \in 1 .. n : ~(j <= 0)
      BY <1>1
    <3> QED
      BY <2>1, <3>1 DEF Same
  <2> HIDE DEF Rest, So
  <2> QED
    BY <1>1, <1>7, <2>1, <2>2, <2>3
<1>9. ASSUME NEW k \in 1 .. n, k - 1 \in G
      PROVE  k \in G /\ Step(h[k - 1]) = EventStep(h[k - 1], e)
  <2> DEFINE a == h[k - 1]
             c == a.s.list[a.i]
             b == EventStep(a, e)
  <2>1. ServerOK(a.s) /\ a.s.misused = s.misused /\ Rest(a, k - 1) /\ So(a, k - 1)
    BY <1>9
  <2>2. n - (k - 1) \in Nat /\ 1 \in 1 .. n - (k - 1) /\ a.i \in Int /\ Len(a.s.list) \in Int
    <3>1. a.s \in Srv
      BY <2>1 DEF ServerOK
    <3>2. a.s.list \in Seq(Clients)
      BY <3>1 DEF Srv
    <3> QED
      BY <1>1, <2>1, <3>2
  <2> HIDE DEF a
  <2>3. a.i \in 1 .. Len(a.s.list) /\ a.i + 1 - 1 = a.i /\ (k - 1) + 1 = k
    BY <1>1, <2>1, <2>2
  <2>4. c = q[k]
    BY <2>1, <2>2, <2>3
  <2>5. /\ ServerOK(b.s) /\ b.i \in 1 .. Len(b.s.list) + 1
        /\ Len(b.s.list) - b.i = Len(a.s.list) - a.i - 1
        /\ \A j \in 1 .. Len(a.s.list) - a.i : b.s.list[b.i + j - 1] = a.s.list[a.i + j]
        /\ Told(a.s, b.s, c, e)
        /\ \A d \in Clients \ {c} : Same(a.s, b.s, d)
        /\ b.s.misused = a.s.misused
    BY <2>1, <2>3, EventStepIs
  <2>6. Step(a) = b /\ h[k] = b
    BY <1>6, <2>3 DEF Step, a
  <2> HIDE DEF b, c
  <2>7. Rest(b, k)
    <3>1. Len(a.s.list) - a.i = n - k /\ Len(b.s.list) - b.i = n - k - 1
      <4>1. Len(b.s.list) \in Int /\ b.i \in Int
        <5>1. b.s \in Srv
          BY <2>5 DEF ServerOK
        <5>2. b.s.list \in Seq(Clients)
          BY <5>1 DEF Srv
        <5> QED
          BY <2>5, <5>2
      <4> QED
        BY <1>1, <2>1, <2>2, <2>5, <4>1
    <3>2. ASSUME NEW j \in 1 .. n - k PROVE b.s.list[b.i + j - 1] = q[k + j]
      <4>1. j + 1 \in 1 .. n - (k - 1) /\ a.i + (j + 1) - 1 = a.i + j /\ (k - 1) + (j + 1) = k + j
        BY <1>1, <2>2
      <4>2. a.s.list[a.i + j] = q[k + j]
        <5>1. a.s.list[a.i + (j + 1) - 1] = q[(k - 1) + (j + 1)]
          BY <2>1, <4>1
        <5> QED
          BY <4>1, <5>1
      <4> QED
        BY <2>5, <3>1, <4>2
    <3> QED
      BY <2>5, <3>1, <3>2
  <2>8. So(b, k)
    <3>1. ASSUME NEW j \in 1 .. n
          PROVE  IF j <= k THEN Told(s, b.s, q[j], e) ELSE Same(s, b.s, q[j])
      <4>0. q[j] \in Clients /\ k \in 1 .. n /\ n \in Nat
        BY <1>1 DEF n
      <4>1. CASE j = k
        <5>1. Same(s, a.s, q[j])
          <6>1. ~(j <= k - 1)
            BY <4>0, <4>1
          <6> QED
            BY <2>1, <6>1
        <5> QED
          BY <2>4, <2>5, <4>0, <4>1, <5>1, SameThenTold
      <4>2. CASE j # k
        <5>1. q[j] # c
          BY <1>1, <2>4, <4>0, <4>2 DEF NoRepeats, n
        <5>2. Same(a.s, b.s, q[j])
          BY <2>5, <4>0, <5>1
        <5>3. j <= k <=> j <= k - 1
          BY <4>0, <4>2
        <5>4. IF j <= k - 1 THEN Told(s, a.s, q[j], e) ELSE Same(s, a.s, q[j])
          BY <2>1
        <5> QED
          BY <5>2, <5>3, <5>4, ThenSame
      <4> QED
        BY <4>1, <4>2
    <3>2. ASSUME NEW d \in Clients \ Connected(s) PROVE Same(s, b.s, d)
      <4>1. d # c
        <5>1. q[k] \in Connected(s)
          BY <1>1, ConnectedIs DEF n
        <5> QED
          BY <2>4, <5>1
      <4>2. Same(s, a.s, d) /\ Same(a.s, b.s, d)
        BY <2>1, <2>5, <4>1
      <4> QED
        BY <4>2, ThenSame
    <3> QED
      BY <3>1, <3>2
  <2> HIDE DEF Rest, So
  <2>9. k \in 0 .. n
    BY <1>1
  <2>10. ServerOK(h[k].s) /\ h[k].s.misused = s.misused
    BY <2>1, <2>5, <2>6
  <2>11. k \in G
    BY <2>6, <2>7, <2>8, <2>9, <2>10
  <2> QED
    BY <2>6, <2>11 DEF a, b
<1> HIDE DEF G
<1>10. \A k \in 0 .. n : k \in G
  BY <1>1, <1>8, <1>9, Counting
<1>11. \A k \in 1 .. n : h[k] = EventStep(h[k - 1], e)
  <2>1. ASSUME NEW k \in 1 .. n PROVE h[k] = EventStep(h[k - 1], e)
    <3>1. k - 1 \in 0 .. n
      BY <1>1
    <3> QED
      BY <1>6, <1>9, <1>10, <3>1
  <2> QED
    BY <2>1
<1> DEFINE E(x) == [k \in 0 .. n |-> IF k = 0 THEN [s |-> s, i |-> 1] ELSE EventStep(x[k-1], e)]
           w == CHOOSE x : x = E(x)
<1>12. h = E(h)
  <2>1. h = [k \in 0 .. n |-> h[k]] /\ h[0] = [s |-> s, i |-> 1]
    BY <1>7 DEF first
  <2>2. \A k \in 0 .. n : k = 0 \/ k \in 1 .. n
    BY <1>1
  <2>3. \A k \in 0 .. n : h[k] = IF k = 0 THEN [s |-> s, i |-> 1] ELSE EventStep(h[k - 1], e)
    BY <1>11, <2>1, <2>2
  <2>4. [k \in 0 .. n |-> h[k]] = E(h)
    BY <2>3
  <2> QED
    BY <2>1, <2>4
<1>13. w = E(w)
  BY <1>12
<1>14. SendEvent(s, e) = w[n].s
  BY DEF SendEvent, n
<1> HIDE DEF w
<1>15. w[0] = h[0] /\ \A k \in 1 .. n : w[k] = EventStep(w[k - 1], e)
  <2>1. \A k \in 0 .. n : w[k] = E(w)[k]
    BY <1>13
  <2> QED
    BY <1>1, <1>7, <2>1 DEF first
<1>16. w[n] = h[n]
  <2> DEFINE H == {k \in 0 .. n : w[k] = h[k]}
  <2>1. 0 \in H
    BY <1>1, <1>15
  <2>2. ASSUME NEW k \in 1 .. n, k - 1 \in H PROVE k \in H
    BY <1>1, <1>11, <1>15, <2>2
  <2> HIDE DEF H
  <2>3. \A k \in 0 .. n : k \in H
    BY <1>1, <2>1, <2>2, Counting
  <2>4. n \in 0 .. n
    BY <1>1
  <2> QED
    BY <2>3, <2>4 DEF H
<1>17. ServerOK(h[n].s) /\ h[n].s.misused = s.misused /\ So(h[n], n)
  <2>1. n \in 0 .. n
    BY <1>1
  <2> QED
    BY <1>10, <2>1 DEF G
<1>18. ASSUME NEW c \in Clients PROVE Told(s, h[n].s, c, e)
  <2>1. CASE c \in Connected(s)
    <3>1. PICK j \in 1 .. n : q[j] = c
      BY <1>1, <2>1, ConnectedIs DEF n
    <3>2. j <= n
      BY <1>1
    <3> QED
      BY <1>17, <3>1, <3>2
  <2>2. CASE c \notin Connected(s)
    <3>1. Same(s, h[n].s, c) /\ s.subs[c] = {}
      BY <1>17, <2>2 DEF ServerOK
    <3> QED
      BY <3>1 DEF Told
  <2> QED
    BY <2>1, <2>2
<1> QED
  BY <1>14, <1>16, <1>17, <1>18

------------------------------------------------------------------------------
(***************************************************************************)
(* What a client was sent answers its first h requests.                    *)
(***************************************************************************)
Owed(whole, units, requests, h) ==
  /\ FramedIn(units, whole) /\ InOrder(units, requests)
  /\ whole => /\ h \in 0 .. Len(requests)
              /\ Cardinality(Heads(units)) = Cardinality(AnsweredUpTo(requests, h))

Owes(s, c, rec, requests, h) == Owed(c \in Connected(s), rec \o s.buf[c], requests, h)

LEMMA OwedEvent ==
  ASSUME NEW units \in Seq(AllUnits), NEW requests \in Seq(AllKinds), NEW h,
         Owed(TRUE, units, requests, h), NEW e \in Events
  PROVE  Owed(TRUE, units \o Units(Event(e)), requests, h)
<1> DEFINE m == Event(e)
           more == units \o Units(m)
           n == Len(units)
<1>1. m \in Messages /\ m.type = "event" /\ FramedIn(units, TRUE)
  BY MessagesAre DEF Owed
<1>2. /\ more \in Seq(AllUnits) /\ Len(more) = n + MsgLen(m) /\ FramedIn(more, TRUE)
      /\ \A i \in 1 .. n : more[i] = units[i]
      /\ \A i \in 0 .. n : RepliesUpTo(more, i) = RepliesUpTo(units, i)
      /\ \A i \in n + 1 .. Len(more) :
           RepliesUpTo(more, i) = IF m.type = "reply" THEN Heads(units) \cup {n + 1} ELSE Heads(units)
  BY <1>1, OneMoreMessage
<1>3. MsgLen(m) \in {2, 4} /\ n \in Nat
  BY <1>1, MessagesAre
<1> HIDE DEF more, m
<1>4. Heads(more) = Heads(units)
  <2>1. Len(more) \in n + 1 .. Len(more)
    BY <1>2, <1>3
  <2>2. m.type # "reply"
    BY <1>1
  <2> QED
    BY <1>2, <2>1, <2>2 DEF Heads
<1>5. \A i \in Heads(units) : i \in 0 .. n /\ i \in 1 .. n
  BY DEF Heads, RepliesUpTo
<1>6. InOrder(more, requests)
  <2>1. InOrder(units, requests)
    BY DEF Owed
  <2> QED
    BY <1>2, <1>4, <1>5, <2>1 DEF InOrder
<1> QED
  BY <1>2, <1>4, <1>6 DEF Owed, more, m

LEMMA AnsweredNext ==
  ASSUME NEW requests \in Seq(AllKinds), NEW h \in Nat, h < Len(requests)
  PROVE  /\ Cardinality(AnsweredUpTo(requests, h)) \in Nat
         /\ Cardinality(AnsweredUpTo(requests, h + 1))
              = Cardinality(AnsweredUpTo(requests, h))
                  + (IF requests[h + 1] \in {"unknown", "garbage"} THEN 0 ELSE 1)
         /\ requests[h + 1] \notin {"unknown", "garbage"} => h + 1 \in AnsweredUpTo(requests, Len(requests))
<1>1. IsFiniteSet(AnsweredUpTo(requests, h)) /\ Cardinality(AnsweredUpTo(requests, h)) \in Nat
  BY RepliesFinite
<1>2. h + 1 \notin AnsweredUpTo(requests, h)
  BY DEF AnsweredUpTo
<1>3. CASE requests[h + 1] \in {"unknown", "garbage"}
  <2>1. \A i \in 1 .. h + 1 : i \in 1 .. h \/ i = h + 1
    OBVIOUS
  <2>2. \A i \in 1 .. h : i \in 1 .. h + 1
    OBVIOUS
  <2>3. AnsweredUpTo(requests, h + 1) = AnsweredUpTo(requests, h)
    BY <1>3, <2>1, <2>2 DEF AnsweredUpTo
  <2> QED
    BY <1>1, <1>3, <2>3
<1>4. CASE requests[h + 1] \notin {"unknown", "garbage"}
  <2>1. \A i \in 1 .. h + 1 : i \in 1 .. h \/ i = h + 1
    OBVIOUS
  <2>2. \A i \in 1 .. h : i \in 1 .. h + 1
    OBVIOUS
  <2>3. h + 1 \in 1 .. h + 1 /\ h + 1 \in 1 .. Len(requests)
    OBVIOUS
  <2>4. AnsweredUpTo(requests, h + 1) = AnsweredUpTo(requests, h) \cup {h + 1}
    BY <1>4, <2>1, <2>2, <2>3 DEF AnsweredUpTo
  <2>5. h + 1 \in AnsweredUpTo(requests, Len(requests))
    BY <1>4, <2>3 DEF AnsweredUpTo
  <2> HIDE DEF AnsweredUpTo
  <2>6. Cardinality(AnsweredUpTo(requests, h) \cup {h + 1}) = Cardinality(AnsweredUpTo(requests, h)) + 1
    BY <1>1, <1>2, FS_AddElement
  <2> QED
    BY <1>1, <1>4, <2>4, <2>5, <2>6
<1> QED
  BY <1>3, <1>4

LEMMA OwedReply ==
  ASSUME NEW units \in Seq(AllUnits), NEW requests \in Seq(AllKinds), NEW h,
         Owed(TRUE, units, requests, h), h < Len(requests),
         requests[h + 1] \notin {"unknown", "garbage"}
  PROVE  Owed(TRUE, units \o Units(Reply(requests[h + 1])), requests, h + 1)
<1> DEFINE m == Reply(requests[h + 1])
           more == units \o Units(m)
           n == Len(units)
<1>1. /\ h \in Nat /\ h + 1 \in 1 .. Len(requests) /\ Len(requests) \in Nat
      /\ h + 1 \in 0 .. Len(requests) /\ requests[h + 1] \in AllKinds
  BY DEF Owed
<1>2. m \in Messages /\ m.type = "reply" /\ FramedIn(units, TRUE)
  BY <1>1, MessagesAre DEF Owed
<1>3. /\ more \in Seq(AllUnits) /\ Len(more) = n + MsgLen(m) /\ FramedIn(more, TRUE)
      /\ \A i \in 1 .. n : more[i] = units[i]
      /\ more[n + 1].msg = m
      /\ \A i \in 0 .. n : RepliesUpTo(more, i) = RepliesUpTo(units, i)
      /\ \A i \in n + 1 .. Len(more) :
           RepliesUpTo(more, i) = IF m.type = "reply" THEN Heads(units) \cup {n + 1} ELSE Heads(units)
  BY <1>2, OneMoreMessage
<1>4. MsgLen(m) \in {2, 4} /\ n \in Nat
  BY <1>2, MessagesAre
<1> HIDE DEF more, m
<1>5. Heads(more) = Heads(units) \cup {n + 1} /\ RepliesUpTo(more, n + 1) = Heads(more)
  <2>1. Len(more) \in n + 1 .. Len(more) /\ n + 1 \in n + 1 .. Len(more)
    BY <1>3, <1>4
  <2> QED
    BY <1>2, <1>3, <2>1 DEF Heads
<1>6. \A i \in Heads(units) : i \in 0 .. n /\ i \in 1 .. n
  BY DEF Heads, RepliesUpTo
<1>7. Cardinality(Heads(more)) = Cardinality(AnsweredUpTo(requests, h + 1))
  <2>1. IsFiniteSet(Heads(units)) /\ Cardinality(Heads(units)) \in Nat
    BY <1>4, RepliesFinite DEF Heads
  <2>2. n + 1 \notin Heads(units)
    BY <1>4, <1>6
  <2>3. Cardinality(Heads(more)) = Cardinality(Heads(units)) + 1
    BY <1>5, <2>1, <2>2, FS_AddElement
  <2>4. Cardinality(Heads(units)) = Cardinality(AnsweredUpTo(requests, h))
    BY DEF Owed
  <2> QED
    BY <1>1, <2>3, <2>4, AnsweredNext
<1>8. InOrder(more, requests)
  <2>1. InOrder(units, requests)
    BY DEF Owed
  <2>2. ASSUME NEW i \in Heads(more)
        PROVE  \E r \in AnsweredUpTo(requests, Len(requests)) :
                 /\ more[i].msg = Reply(requests[r])
                 /\ Cardinality(RepliesUpTo(more, i)) = Cardinality(AnsweredUpTo(requests, r))
    <3>1. CASE i \in Heads(units)
      BY <1>3, <1>6, <2>1, <3>1 DEF InOrder
    <3>2. CASE i = n + 1
      BY <1>1, <1>3, <1>5, <1>7, <3>2, AnsweredNext DEF m
    <3> QED
      BY <1>5, <3>1, <3>2
  <2> QED
    BY <2>2 DEF InOrder
<1> QED
  <2>1. Owed(TRUE, more, requests, h + 1)
    BY <1>1, <1>3, <1>7, <1>8 DEF Owed
  <2> QED
    BY <2>1 DEF more, m

LEMMA OwedSkip ==
  ASSUME NEW units \in Seq(AllUnits), NEW requests \in Seq(AllKinds), NEW h,
         Owed(TRUE, units, requests, h), h < Len(requests),
         requests[h + 1] \in {"unknown", "garbage"}
  PROVE  Owed(TRUE, units, requests, h + 1)
<1>1. h \in Nat /\ h + 1 \in 0 .. Len(requests)
  BY DEF Owed
<1>2. Cardinality(AnsweredUpTo(requests, h + 1)) = Cardinality(AnsweredUpTo(requests, h))
  BY <1>1, AnsweredNext
<1> QED
  BY <1>1, <1>2 DEF Owed

LEMMA OwedMore ==
  ASSUME NEW whole \in BOOLEAN, NEW units \in Seq(AllUnits), NEW requests \in Seq(AllKinds), NEW h,
         Owed(whole, units, requests, h), NEW k \in AllKinds
  PROVE  Owed(whole, units, Append(requests, k), h)
<1> DEFINE longer == Append(requests, k)
           n == Len(requests)
<1>1. n \in Nat /\ Len(longer) = n + 1 /\ \A i \in 1 .. n : longer[i] = requests[i]
  OBVIOUS
<1> HIDE DEF longer
<1>2. ASSUME NEW r \in 0 .. n PROVE AnsweredUpTo(longer, r) = AnsweredUpTo(requests, r)
  <2>1. \A i \in 1 .. r : longer[i] = requests[i]
    BY <1>1
  <2> QED
    BY <2>1 DEF AnsweredUpTo
<1>3. InOrder(units, longer)
  <2>1. InOrder(units, requests)
    BY DEF Owed
  <2>2. ASSUME NEW i \in Heads(units)
        PROVE  \E r \in AnsweredUpTo(longer, Len(longer)) :
                 /\ units[i].msg = Reply(longer[r])
                 /\ Cardinality(RepliesUpTo(units, i)) = Cardinality(AnsweredUpTo(longer, r))
    <3>1. PICK r \in AnsweredUpTo(requests, n) :
            /\ units[i].msg = Reply(requests[r])
            /\ Cardinality(RepliesUpTo(units, i)) = Cardinality(AnsweredUpTo(requests, r))
      BY <2>1 DEF InOrder
    <3>2. r \in 1 .. n /\ r \in 0 .. n /\ r \in 1 .. n + 1
      BY <1>1, <3>1 DEF AnsweredUpTo
    <3>3. r \in AnsweredUpTo(longer, Len(longer)) /\ longer[r] = requests[r]
      BY <1>1, <3>1, <3>2 DEF AnsweredUpTo
    <3> QED
      BY <1>2, <3>1, <3>2, <3>3
  <2> QED
    BY <2>2 DEF InOrder
<1>4. ASSUME whole
      PROVE  h \in 0 .. n + 1 /\ Cardinality(Heads(units)) = Cardinality(AnsweredUpTo(longer, h))
  <2>1. h \in 0 .. n /\ Cardinality(Heads(units)) = Cardinality(AnsweredUpTo(requests, h))
    BY <1>4 DEF Owed
  <2> QED
    BY <1>1, <1>2, <2>1
<1>5. FramedIn(units, whole)
  BY DEF Owed
<1> QED
  BY <1>1, <1>3, <1>4, <1>5 DEF Owed, longer

LEMMA OwedFirst ==
  ASSUME NEW whole, NEW rec \in Seq(AllUnits), NEW buf \in Seq(AllUnits),
         NEW requests \in Seq(AllKinds), NEW h, Owed(whole, rec \o buf, requests, h)
  PROVE  \A other : Owed(FALSE, rec \o <<>>, requests, other)
<1>1. FramedIn(rec \o buf, FALSE) /\ InOrder(rec \o buf, requests)
  BY DEF Owed, FramedIn
<1>2. InOrder(rec, requests) /\ FramedIn(rec, FALSE)
  BY <1>1, PrefixInOrder
<1>3. rec \o <<>> = rec
  BY ConcatEmptySeq
<1> QED
  BY <1>2, <1>3 DEF Owed

\* What was sent to a client of whom nothing more is said owes the same, and to
\* one that was disconnected no more than what it had read.
LEMMA OwesSame ==
  ASSUME NEW s, NEW t, NEW c, NEW rec, NEW requests, NEW h,
         Owes(s, c, rec, requests, h), Same(s, t, c)
  PROVE  Owes(t, c, rec, requests, h)
  BY DEF Owes, Owed, Same, FramedIn

LEMMA OwesGone ==
  ASSUME NEW s, ServerOK(s), NEW t, ServerOK(t), NEW c \in Clients, NEW rec \in Seq(AllUnits),
         NEW requests \in Seq(AllKinds), NEW h,
         Owes(s, c, rec, requests, h), c \notin Connected(t)
  PROVE  \A other : Owes(t, c, rec, requests, other)
<1>1. s.buf[c] \in Seq(AllUnits) /\ t.buf[c] = <<>>
  BY DEF ServerOK, Srv
<1>2. Owed(c \in Connected(s), rec \o s.buf[c], requests, h)
  BY DEF Owes
<1>3. \A other : Owed(FALSE, rec \o <<>>, requests, other)
  BY <1>1, <1>2, OwedFirst
<1> QED
  BY <1>1, <1>3 DEF Owes, Owed, FramedIn

LEMMA Regrouped ==
  \A x, y, z \in Seq(AllUnits) : (x \o y) \o z = x \o (y \o z)
  BY ConcatAssociative

LEMMA OwesGot ==
  ASSUME NEW s, ServerOK(s), NEW t, NEW c \in Clients, NEW rec \in Seq(AllUnits),
         NEW requests \in Seq(AllKinds), NEW h, NEW m \in Messages,
         Owes(s, c, rec, requests, h), Got(s, t, c, m)
  PROVE  /\ m \in {Event(e) : e \in Events} => Owes(t, c, rec, requests, h)
         /\ /\ h < Len(requests) /\ requests[h + 1] \notin {"unknown", "garbage"}
            /\ m = Reply(requests[h + 1])
            => Owes(t, c, rec, requests, h + 1)
<1> DEFINE units == rec \o s.buf[c]
<1>1. s.buf[c] \in Seq(AllUnits) /\ Units(m) \in Seq(AllUnits)
  BY UnitsAre DEF ServerOK, Srv
<1>2. units \in Seq(AllUnits) /\ rec \o t.buf[c] = units \o Units(m)
  <2>1. t.buf[c] = s.buf[c] \o Units(m)
    BY DEF Got
  <2>2. (rec \o s.buf[c]) \o Units(m) = rec \o (s.buf[c] \o Units(m))
    BY <1>1, Regrouped
  <2>3. rec \o s.buf[c] \in Seq(AllUnits)
    BY <1>1
  <2> QED
    BY <2>1, <2>2, <2>3
<1>3. Owed(TRUE, units, requests, h) /\ c \in Connected(t)
  BY DEF Owes, Owed, FramedIn, Got
<1> HIDE DEF units
<1>4. ASSUME NEW e \in Events, m = Event(e) PROVE Owes(t, c, rec, requests, h)
  <2>1. Owed(TRUE, units \o Units(m), requests, h)
    BY <1>2, <1>3, <1>4, OwedEvent
  <2> QED
    BY <1>2, <1>3, <2>1 DEF Owes, Owed, FramedIn
<1>5. ASSUME h < Len(requests), requests[h + 1] \notin {"unknown", "garbage"}, m = Reply(requests[h + 1])
      PROVE  Owes(t, c, rec, requests, h + 1)
  <2>1. Owed(TRUE, units \o Units(m), requests, h + 1)
    BY <1>2, <1>3, <1>5, OwedReply
  <2> QED
    BY <1>2, <1>3, <2>1 DEF Owes, Owed, FramedIn
<1> QED
  BY <1>4, <1>5

\* SendReplyTo: a client is sent m, or is gone before or after.
LEMMA SendReplyToIs ==
  ASSUME NEW s, ServerOK(s), NEW c \in Clients, NEW m \in Messages
  PROVE  LET t == SendReplyTo(s, c, m)
         IN  /\ ServerOK(t)
             /\ \/ Got(s, t, c, m) /\ t.misused = s.misused
                \/ Lost(s, t, c, MsgLen(m)) /\ t.misused = s.misused
                \/ c \notin Connected(s) /\ c \notin Connected(t)
             /\ \A d \in Clients \ {c} : Same(s, t, d)
<1>1. s \in Srv
  BY DEF ServerOK
<1>2. CASE c \in Connected(s)
  <2>1. PICK k \in 1 .. Len(s.list) : s.list[k] = c
    BY <1>1, <1>2, ConnectedIs
  <2>2. SendReplyTo(s, c, m) = SendReply(s, c, m)
    BY <1>2 DEF SendReplyTo
  <2> QED
    BY <2>1, <2>2, SendReplyIs
<1>3. CASE c \notin Connected(s)
  <2> DEFINE t == [s EXCEPT !.misused = TRUE]
  <2>1. SendReplyTo(s, c, m) = t
    BY <1>3 DEF SendReplyTo
  <2>2. /\ t \in Srv /\ t.list = s.list /\ t.subs = s.subs /\ t.buf = s.buf /\ t.size = s.size
        /\ t.armed = s.armed /\ t.pending = s.pending
    BY <1>1 DEF Srv
  <2> HIDE DEF t
  <2>3. Connected(t) = Connected(s)
    BY <2>2 DEF Connected
  <2>4. ServerOK(t)
    BY <2>2, <2>3 DEF ServerOK, QueueOK
  <2>5. \A d \in Clients \ {c} : Same(s, t, d)
    BY <2>2, <2>3 DEF Same
  <2> QED
    BY <1>3, <2>1, <2>3, <2>4, <2>5
<1> QED
  BY <1>2, <1>3

\* What is kept of all clients while the next request of one of them is handled.
AllOwe(s, rec, req, hh) == \A d \in Clients : Owes(s, d, rec[d], req[d], hh[d])

Shrinks(s, t) ==
  \A d \in Clients : d \in Connected(t) => d \in Connected(s) /\ t.pending[d] = s.pending[d]

LEMMA EventOwes ==
  ASSUME NEW s, ServerOK(s), NEW e \in Events, NEW rec \in [Clients -> Seq(AllUnits)],
         NEW req \in [Clients -> Seq(AllKinds)], NEW hh, AllOwe(s, rec, req, hh)
  PROVE  LET t == SendEvent(s, e)
         IN  ServerOK(t) /\ AllOwe(t, rec, req, hh) /\ Shrinks(s, t)
<1> DEFINE t == SendEvent(s, e)
<1>1. ServerOK(t) /\ \A c \in Clients : Told(s, t, c, e)
  BY SendEventIs
<1> HIDE DEF t
<1>2. Event(e) \in Messages
  BY MessagesAre
<1>3. ASSUME NEW c \in Clients
      PROVE  /\ Owes(t, c, rec[c], req[c], hh[c])
             /\ c \in Connected(t) => c \in Connected(s) /\ t.pending[c] = s.pending[c]
  <2>1. rec[c] \in Seq(AllUnits) /\ req[c] \in Seq(AllKinds) /\ Owes(s, c, rec[c], req[c], hh[c])
    BY DEF AllOwe
  <2>2. Same(s, t, c) \/ Got(s, t, c, Event(e)) \/ Lost(s, t, c, 2)
    BY <1>1 DEF Told
  <2>3. CASE Same(s, t, c)
    <3>1. Owes(t, c, rec[c], req[c], hh[c])
      BY <2>1, <2>3, OwesSame
    <3> QED
      BY <2>3, <3>1 DEF Same
  <2>4. CASE Got(s, t, c, Event(e))
    <3>1. Owes(t, c, rec[c], req[c], hh[c])
      BY <1>2, <2>1, <2>4, OwesGot
    <3> QED
      BY <2>4, <3>1 DEF Got
  <2>5. CASE Lost(s, t, c, 2)
    <3>1. c \notin Connected(t)
      BY <2>5 DEF Lost
    <3>2. Owes(t, c, rec[c], req[c], hh[c])
      BY <1>1, <2>1, <3>1, OwesGone
    <3> QED
      BY <3>1, <3>2
  <2> QED
    BY <2>2, <2>3, <2>4, <2>5
<1> QED
  BY <1>1, <1>3 DEF AllOwe, Shrinks, t

\* A reply to the next request counts it, an event does not.
Counts(c, m, req, hh, new) ==
  /\ \A d \in Clients \ {c} : new[d] = hh[d]
  /\ \/ m \in {Event(e) : e \in Events} /\ new[c] = hh[c]
     \/ /\ hh[c] < Len(req[c]) /\ req[c][hh[c] + 1] \notin {"unknown", "garbage"}
        /\ m = Reply(req[c][hh[c] + 1]) /\ new[c] = hh[c] + 1

LEMMA ReplyOwes ==
  ASSUME NEW s, ServerOK(s), NEW c \in Clients, NEW m \in Messages,
         NEW rec \in [Clients -> Seq(AllUnits)], NEW req \in [Clients -> Seq(AllKinds)],
         NEW hh, AllOwe(s, rec, req, hh), NEW new, Counts(c, m, req, hh, new)
  PROVE  LET t == SendReplyTo(s, c, m)
         IN  ServerOK(t) /\ AllOwe(t, rec, req, new) /\ Shrinks(s, t)
<1> DEFINE t == SendReplyTo(s, c, m)
<1>1. /\ ServerOK(t)
      /\ Got(s, t, c, m) \/ c \notin Connected(t)
      /\ \A d \in Clients \ {c} : Same(s, t, d)
  BY SendReplyToIs DEF Lost
<1> HIDE DEF t
<1>2. ASSUME NEW d \in Clients, d # c
      PROVE  /\ Owes(t, d, rec[d], req[d], new[d])
             /\ d \in Connected(t) => d \in Connected(s) /\ t.pending[d] = s.pending[d]
  <2>1. Same(s, t, d) /\ Owes(s, d, rec[d], req[d], hh[d]) /\ new[d] = hh[d]
    BY <1>1, <1>2 DEF AllOwe, Counts
  <2>2. Owes(t, d, rec[d], req[d], hh[d])
    BY <2>1, OwesSame
  <2> QED
    BY <2>1, <2>2 DEF Same
<1>3. /\ Owes(t, c, rec[c], req[c], new[c])
      /\ c \in Connected(t) => c \in Connected(s) /\ t.pending[c] = s.pending[c]
  <2>1. rec[c] \in Seq(AllUnits) /\ req[c] \in Seq(AllKinds) /\ Owes(s, c, rec[c], req[c], hh[c])
    BY DEF AllOwe
  <2>2. CASE Got(s, t, c, m)
    <3>1. Owes(t, c, rec[c], req[c], new[c])
      BY <2>1, <2>2, OwesGot DEF Counts
    <3> QED
      BY <2>2, <3>1 DEF Got
  <2>3. CASE c \notin Connected(t)
    <3>1. Owes(t, c, rec[c], req[c], new[c])
      BY <1>1, <2>1, <2>3, OwesGone
    <3> QED
      BY <2>3, <3>1
  <2> QED
    BY <1>1, <2>2, <2>3
<1> QED
  BY <1>1, <1>2, <1>3 DEF AllOwe, Shrinks, t

LEMMA SubscribedIs ==
  ASSUME NEW s, ServerOK(s), NEW c \in Clients, c \in Connected(s), NEW k
  PROVE  LET t == Subscribed(s, c, k)
         IN  /\ ServerOK(t) /\ t.list = s.list /\ t.buf = s.buf /\ t.size = s.size
             /\ t.pending = s.pending /\ t.misused = s.misused
<1> DEFINE more == s.subs[c] \cup (IF k = "subscribe" THEN Events ELSE {"tick"})
           t == [s EXCEPT !.subs = [s.subs EXCEPT ![c] = more]]
<1>1. s \in Srv
  BY DEF ServerOK
<1>2. Subscribed(s, c, k) = t
  BY <1>1 DEF Subscribed, Srv
<1>3. more \in SUBSET Events
  BY <1>1 DEF Srv, Events
<1> HIDE DEF more
<1>4. [s.subs EXCEPT ![c] = more] \in [Clients -> SUBSET Events]
  BY <1>1, <1>3 DEF Srv
<1>5. /\ t \in Srv /\ t.list = s.list /\ t.buf = s.buf /\ t.size = s.size /\ t.armed = s.armed
      /\ t.pending = s.pending /\ t.misused = s.misused
      /\ \A d \in Clients \ {c} : t.subs[d] = s.subs[d]
  BY <1>1, <1>4 DEF Srv
<1> HIDE DEF t
<1>6. Connected(t) = Connected(s)
  BY <1>5 DEF Connected
<1>7. ServerOK(t)
  BY <1>5, <1>6 DEF ServerOK, QueueOK
<1> QED
  BY <1>2, <1>5, <1>7

\* Handling a request answers it, or it is an unknown one.
LEMMA HandleCommandIs ==
  ASSUME NEW s, ServerOK(s), NEW c \in Clients, c \in Connected(s),
         NEW rec \in [Clients -> Seq(AllUnits)], NEW req \in [Clients -> Seq(AllKinds)],
         NEW hh \in [Clients -> Nat], AllOwe(s, rec, req, hh), hh[c] < Len(req[c]),
         NEW k \in AllKinds, k = req[c][hh[c] + 1], k # "garbage", NEW es \in Emits(k)
  PROVE  LET t == HandleCommand(s, c, k, es)
         IN  ServerOK(t) /\ AllOwe(t, rec, req, [hh EXCEPT ![c] = hh[c] + 1]) /\ Shrinks(s, t)
<1> DEFINE new == [hh EXCEPT ![c] = hh[c] + 1]
           t == HandleCommand(s, c, k, es)
<1>1. new[c] = hh[c] + 1 /\ \A d \in Clients \ {c} : new[d] = hh[d]
  OBVIOUS
<1> HIDE DEF new
<1>2. CASE k \in {"get_tree", "send_tick", "command"}
  <2> DEFINE u == SendAll(s, es)
  <2>1. es = <<>> \/ (es # <<>> /\ es[1] \in Events)
    BY <1>2 DEF Emits, Events
  <2>2. ServerOK(u) /\ AllOwe(u, rec, req, hh) /\ Shrinks(s, u)
    <3>1. CASE es = <<>>
      BY <3>1 DEF SendAll, Shrinks
    <3>2. CASE es # <<>> /\ es[1] \in Events
      BY <3>2, EventOwes DEF SendAll
    <3> QED
      BY <2>1, <3>1, <3>2
  <2>3. t = SendReplyTo(u, c, Reply(k))
    BY <1>2 DEF HandleCommand
  <2> HIDE DEF u, t
  <2>4. Reply(k) \in Messages /\ k \notin {"unknown", "garbage"}
    BY <1>2, MessagesAre
  <2>5. ServerOK(t) /\ AllOwe(t, rec, req, new) /\ Shrinks(u, t)
    <3> DEFINE m == Reply(k)
    <3>1. m = Reply(req[c][hh[c] + 1]) /\ req[c][hh[c] + 1] \notin {"unknown", "garbage"} /\ m \in Messages
      BY <2>4
    <3> HIDE DEF m
    <3>2. Counts(c, m, req, hh, new)
      BY <1>1, <3>1 DEF Counts
    <3>3. ServerOK(SendReplyTo(u, c, m)) /\ AllOwe(SendReplyTo(u, c, m), rec, req, new)
          /\ Shrinks(u, SendReplyTo(u, c, m))
      BY <2>2, <3>1, <3>2, ReplyOwes
    <3> QED
      BY <2>3, <3>3 DEF m
  <2>6. Shrinks(s, t)
    BY <2>2, <2>5 DEF Shrinks
  <2> QED
    BY <2>5, <2>6 DEF new, t
<1>3. CASE k \in {"subscribe", "subscribe_bad"}
  <2> DEFINE u == Subscribed(s, c, k)
             v == SendReplyTo(u, c, Reply(k))
             w == SendReplyTo(v, c, Event("tick"))
  <2>1. ServerOK(u) /\ u.list = s.list /\ u.buf = s.buf /\ u.pending = s.pending
    BY SubscribedIs
  <2> HIDE DEF u
  <2>2. Connected(u) = Connected(s)
    BY <2>1 DEF Connected
  <2>3. AllOwe(u, rec, req, hh) /\ Shrinks(s, u)
    BY <2>1, <2>2 DEF AllOwe, Owes, Shrinks
  <2>4. Reply(k) \in Messages /\ k \notin {"unknown", "garbage"}
    BY <1>3, MessagesAre
  <2>5. ServerOK(v) /\ AllOwe(v, rec, req, new) /\ Shrinks(u, v)
    <3> DEFINE m == Reply(k)
    <3>1. m = Reply(req[c][hh[c] + 1]) /\ req[c][hh[c] + 1] \notin {"unknown", "garbage"} /\ m \in Messages
      BY <2>4
    <3> HIDE DEF m
    <3>2. Counts(c, m, req, hh, new)
      BY <1>1, <3>1 DEF Counts
    <3>3. ServerOK(SendReplyTo(u, c, m)) /\ AllOwe(SendReplyTo(u, c, m), rec, req, new)
          /\ Shrinks(u, SendReplyTo(u, c, m))
      BY <2>1, <2>3, <3>1, <3>2, ReplyOwes
    <3> QED
      BY <3>3 DEF m
  <2> HIDE DEF v
  <2>6. Event("tick") \in Messages /\ Event("tick") \in {Event(e) : e \in Events}
    BY MessagesAre DEF Events
  <2>7. ServerOK(w) /\ AllOwe(w, rec, req, new) /\ Shrinks(v, w)
    <3>1. Counts(c, Event("tick"), req, new, new)
      BY <2>6 DEF Counts
    <3> QED
      BY <2>5, <2>6, <3>1, ReplyOwes
  <2> HIDE DEF w
  <2>8. t = IF k = "subscribe" THEN w ELSE v
    BY <1>3 DEF HandleCommand, u, v, w
  <2> HIDE DEF t
  <2>9. Shrinks(s, v) /\ Shrinks(s, w)
    BY <2>3, <2>5, <2>7 DEF Shrinks
  <2>10. ServerOK(t) /\ AllOwe(t, rec, req, new) /\ Shrinks(s, t)
    BY <2>5, <2>7, <2>8, <2>9
  <2> QED
    BY <2>10 DEF new, t
<1>4. CASE k = "unknown"
  <2>1. t = s
    BY <1>4 DEF HandleCommand
  <2> HIDE DEF t
  <2>2. ASSUME NEW d \in Clients PROVE Owes(s, d, rec[d], req[d], new[d])
    <3>1. Owes(s, d, rec[d], req[d], hh[d])
      BY DEF AllOwe
    <3>2. CASE d = c
      <4>1. s.buf[c] \in Seq(AllUnits) /\ rec[c] \in Seq(AllUnits) /\ req[c] \in Seq(AllKinds)
        BY DEF ServerOK, Srv
      <4>2. rec[c] \o s.buf[c] \in Seq(AllUnits)
        BY <4>1
      <4>3. Owed(TRUE, rec[c] \o s.buf[c], req[c], hh[c])
        BY <3>1, <3>2 DEF Owes, Owed, FramedIn
      <4>4. Owed(TRUE, rec[c] \o s.buf[c], req[c], hh[c] + 1)
        BY <1>4, <4>1, <4>2, <4>3, OwedSkip
      <4> QED
        BY <1>1, <3>2, <4>4 DEF Owes, Owed, FramedIn
    <3>3. CASE d # c
      BY <1>1, <3>1, <3>3
    <3> QED
      BY <3>2, <3>3
  <2> QED
    BY <2>1, <2>2 DEF AllOwe, Shrinks, new, t
<1> QED
  BY <1>2, <1>3, <1>4 DEF AllKinds

------------------------------------------------------------------------------
(***************************************************************************)
(* What waits in the socket of a client: position i of it is part pp[i] of *)
(* request rr[i].                                                          *)
(***************************************************************************)
Parts == [of : AllKinds, part : Nat]

Track(rr, pp, box, req, rest) ==
  /\ rr \in [1 .. Len(box) + 1 -> Nat \ {0}] /\ pp \in [1 .. Len(box) + 1 -> Nat]
  /\ \A i \in 1 .. Len(box) :
       /\ rr[i] <= Len(req)
       /\ box[i] = [of |-> req[rr[i]], part |-> pp[i]]
       /\ IF pp[i] = PayloadLen[req[rr[i]]] THEN rr[i + 1] = rr[i] + 1 /\ pp[i + 1] = 0
          ELSE rr[i + 1] = rr[i] /\ pp[i + 1] = pp[i] + 1
  /\ IF rest = 0 THEN rr[Len(box) + 1] = Len(req) + 1 /\ pp[Len(box) + 1] = 0
     ELSE /\ rr[Len(box) + 1] = Len(req)
          /\ pp[Len(box) + 1] = PayloadLen[req[Len(req)]] - rest + 1

\* It begins after the first h requests, and after the header where that is kept.
Backlog(box, req, rest, pend, h) ==
  \E rr, pp :
    /\ Track(rr, pp, box, req, rest)
    /\ rr[1] = h + 1
    /\ IF pend = None THEN pp[1] = 0
       ELSE pp[1] = 1 /\ h < Len(req) /\ pend = req[h + 1] /\ PayloadLen[pend] > 0

LEMMA TrackSkip ==
  ASSUME NEW box \in Seq(Parts), NEW req \in Seq(AllKinds), NEW rest, NEW rr, NEW pp,
         Track(rr, pp, box, req, rest), NEW n \in 0 .. Len(box)
  PROVE  LET more == SubSeq(box, n + 1, Len(box))
         IN  /\ more \in Seq(Parts)
             /\ \E ss, qq : Track(ss, qq, more, req, rest) /\ ss[1] = rr[n + 1] /\ qq[1] = pp[n + 1]
<1> DEFINE m == Len(box) - n
           more == SubSeq(box, n + 1, Len(box))
           ss == [i \in 1 .. m + 1 |-> rr[i + n]]
           qq == [i \in 1 .. m + 1 |-> pp[i + n]]
<1>1. m \in Nat /\ n \in Nat /\ Len(box) = m + n
  OBVIOUS
<1>2. more \in Seq(Parts) /\ Len(more) = m /\ \A i \in 1 .. m : more[i] = box[i + n]
  <2>1. /\ more \in Seq(Parts) /\ Len(more) = Len(box) - n
        /\ \A i \in 1 .. Len(box) - n : more[i] = box[n + i]
    OBVIOUS
  <2>2. \A i \in 1 .. m : n + i = i + n
    BY <1>1
  <2> QED
    BY <2>1, <2>2
<1> HIDE DEF m, more
<1>3. \A i \in 1 .. m + 1 : i + n \in 1 .. Len(box) + 1
  BY <1>1
<1>4. ss \in [1 .. m + 1 -> Nat \ {0}] /\ qq \in [1 .. m + 1 -> Nat]
  BY <1>3 DEF Track
<1>5. ASSUME NEW i \in 1 .. m
      PROVE  /\ ss[i] = rr[i + n] /\ qq[i] = pp[i + n] /\ ss[i + 1] = rr[(i + n) + 1]
             /\ qq[i + 1] = pp[(i + n) + 1] /\ i + n \in 1 .. Len(box)
  <2>1. i \in 1 .. m + 1 /\ i + 1 \in 1 .. m + 1 /\ (i + 1) + n = (i + n) + 1 /\ i + n \in 1 .. Len(box)
    BY <1>1
  <2> QED
    BY <2>1
<1>6. ss[m + 1] = rr[Len(box) + 1] /\ qq[m + 1] = pp[Len(box) + 1]
  <2>1. m + 1 \in 1 .. m + 1 /\ (m + 1) + n = Len(box) + 1
    BY <1>1
  <2> QED
    BY <2>1
<1>7. ss[1] = rr[n + 1] /\ qq[1] = pp[n + 1]
  <2>1. 1 \in 1 .. m + 1 /\ 1 + n = n + 1
    BY <1>1
  <2> QED
    BY <2>1
<1> HIDE DEF ss, qq
<1>8. ASSUME NEW i \in 1 .. m
      PROVE  /\ ss[i] <= Len(req)
             /\ more[i] = [of |-> req[ss[i]], part |-> qq[i]]
             /\ IF qq[i] = PayloadLen[req[ss[i]]] THEN ss[i + 1] = ss[i] + 1 /\ qq[i + 1] = 0
                ELSE ss[i + 1] = ss[i] /\ qq[i + 1] = qq[i] + 1
  <2> DEFINE j == i + n
  <2>1. /\ ss[i] = rr[j] /\ qq[i] = pp[j] /\ ss[i + 1] = rr[j + 1] /\ qq[i + 1] = pp[j + 1]
        /\ j \in 1 .. Len(box) /\ more[i] = box[j]
    BY <1>2, <1>5
  <2> HIDE DEF j
  <2>2. /\ rr[j] <= Len(req)
        /\ box[j] = [of |-> req[rr[j]], part |-> pp[j]]
        /\ IF pp[j] = PayloadLen[req[rr[j]]] THEN rr[j + 1] = rr[j] + 1 /\ pp[j + 1] = 0
           ELSE rr[j + 1] = rr[j] /\ pp[j + 1] = pp[j] + 1
    BY <2>1 DEF Track
  <2> QED
    BY <2>1, <2>2
<1>9. IF rest = 0 THEN ss[m + 1] = Len(req) + 1 /\ qq[m + 1] = 0
      ELSE ss[m + 1] = Len(req) /\ qq[m + 1] = PayloadLen[req[Len(req)]] - rest + 1
  BY <1>6 DEF Track
<1>10. Track(ss, qq, more, req, rest)
  BY <1>2, <1>4, <1>8, <1>9 DEF Track
<1> QED
  BY <1>2, <1>7, <1>10 DEF more

\* From a part of a request it goes on to the end of that request.
LEMMA TrackGoes ==
  ASSUME NEW box \in Seq(Parts), NEW req \in Seq(AllKinds), NEW rest, NEW rr, NEW pp,
         Track(rr, pp, box, req, rest), NEW h \in Nat, h < Len(req), rr[1] = h + 1, pp[1] \in {0, 1},
         pp[1] <= PayloadLen[req[h + 1]], PayloadLen[req[h + 1]] - pp[1] + 1 <= Len(box)
  PROVE  LET n == PayloadLen[req[h + 1]] - pp[1] + 1
         IN  n \in 0 .. Len(box) /\ rr[n + 1] = h + 2 /\ pp[n + 1] = 0
<1> DEFINE k == PayloadLen[req[h + 1]]
           Hop(i) == IF pp[i] = PayloadLen[req[rr[i]]] THEN rr[i + 1] = rr[i] + 1 /\ pp[i + 1] = 0
                     ELSE rr[i + 1] = rr[i] /\ pp[i + 1] = pp[i] + 1
<1>1. k \in 0 .. 2 /\ Len(box) \in Nat
  <2>1. req[h + 1] \in AllKinds
    OBVIOUS
  <2> QED
    BY <2>1, PayloadIs
<1>2. \A i \in 1 .. Len(box) : Hop(i)
  BY DEF Track
<1>3. k - pp[1] + 1 <= Len(box) /\ pp[1] <= k
  OBVIOUS
<1>4. CASE k - pp[1] = 0
  <2>1. Hop(1) /\ pp[1] = k
    BY <1>1, <1>2, <1>3, <1>4
  <2>2. rr[2] = h + 2 /\ pp[2] = 0
    BY <2>1
  <2> QED
    BY <1>1, <1>3, <1>4, <2>2
<1>5. CASE k - pp[1] = 1
  <2>1. Hop(1) /\ Hop(2) /\ pp[1] # k /\ pp[1] + 1 = k
    BY <1>1, <1>2, <1>3, <1>5
  <2>2. rr[2] = h + 1 /\ pp[2] = k
    BY <2>1
  <2>3. rr[3] = h + 2 /\ pp[3] = 0
    BY <2>1, <2>2
  <2> QED
    BY <1>1, <1>3, <1>5, <2>3
<1>6. CASE k - pp[1] = 2
  <2>1. Hop(1) /\ Hop(2) /\ Hop(3) /\ pp[1] = 0 /\ k = 2
    BY <1>1, <1>2, <1>3, <1>6
  <2>2. rr[2] = h + 1 /\ pp[2] = 1
    BY <2>1
  <2>3. rr[3] = h + 1 /\ pp[3] = k
    BY <2>1, <2>2
  <2>4. rr[4] = h + 2 /\ pp[4] = 0
    BY <2>1, <2>3
  <2> QED
    BY <1>1, <1>3, <1>6, <2>4
<1> QED
  BY <1>1, <1>3, <1>4, <1>5, <1>6

\* The payload of the request whose header is kept.
LEMMA PayloadTaken ==
  ASSUME NEW box \in Seq(Parts), NEW req \in Seq(AllKinds), NEW rest, NEW k, k # None, NEW h \in Nat,
         Backlog(box, req, rest, k, h), Len(box) >= PayloadLen[k]
  PROVE  LET more == SubSeq(box, PayloadLen[k] + 1, Len(box))
         IN  /\ h < Len(req) /\ k = req[h + 1] /\ k \in AllKinds /\ PayloadLen[k] > 0
             /\ more \in Seq(Parts) /\ Backlog(more, req, rest, None, h + 1)
<1>1. PICK rr, pp : /\ Track(rr, pp, box, req, rest) /\ rr[1] = h + 1 /\ pp[1] = 1
                    /\ h < Len(req) /\ k = req[h + 1] /\ PayloadLen[k] > 0
  BY DEF Backlog
<1> DEFINE n == PayloadLen[k]
<1>2. k \in AllKinds /\ n \in 0 .. 2 /\ n - 1 + 1 = n /\ n <= Len(box) /\ n >= 1
  <2>1. k \in AllKinds
    BY <1>1
  <2> QED
    BY <1>1, <2>1, PayloadIs
<1>3. n \in 0 .. Len(box) /\ rr[n + 1] = h + 2 /\ pp[n + 1] = 0
  BY <1>1, <1>2, TrackGoes
<1> HIDE DEF n
<1>4. PICK ss, qq : /\ Track(ss, qq, SubSeq(box, n + 1, Len(box)), req, rest)
                    /\ ss[1] = rr[n + 1] /\ qq[1] = pp[n + 1]
  BY <1>1, <1>3, TrackSkip
<1>5. SubSeq(box, n + 1, Len(box)) \in Seq(Parts)
  BY <1>1, <1>3, TrackSkip
<1>6. ss[1] = (h + 1) + 1
  BY <1>3, <1>4
<1>7. Backlog(SubSeq(box, n + 1, Len(box)), req, rest, None, h + 1)
  BY <1>3, <1>4, <1>6 DEF Backlog
<1> QED
  BY <1>1, <1>2, <1>5, <1>7 DEF n

\* The header of the next request, with its payload or without.
LEMMA HeaderTaken ==
  ASSUME NEW box \in Seq(Parts), NEW req \in Seq(AllKinds), NEW rest, NEW h \in Nat,
         Backlog(box, req, rest, None, h), box # <<>>
  PROVE  LET k == Head(box).of
             n == 1 + PayloadLen[k]
             more == SubSeq(box, n + 1, Len(box))
         IN  /\ h < Len(req) /\ k = req[h + 1] /\ k \in AllKinds /\ Head(box).part = 0
             /\ Len(box) > PayloadLen[k] => more \in Seq(Parts) /\ Backlog(more, req, rest, None, h + 1)
             /\ Len(box) <= PayloadLen[k] => Tail(box) \in Seq(Parts) /\ Backlog(Tail(box), req, rest, k, h)
<1> DEFINE k == Head(box).of
           n == 1 + PayloadLen[k]
<1>1. PICK rr, pp : Track(rr, pp, box, req, rest) /\ rr[1] = h + 1 /\ pp[1] = 0
  BY DEF Backlog
<1>2. Len(box) \in Nat /\ Len(box) >= 1 /\ Head(box) = box[1] /\ 1 \in 1 .. Len(box)
  OBVIOUS
<1>3. /\ rr[1] <= Len(req) /\ box[1] = [of |-> req[rr[1]], part |-> pp[1]]
      /\ IF pp[1] = PayloadLen[req[rr[1]]] THEN rr[2] = rr[1] + 1 /\ pp[2] = 0
         ELSE rr[2] = rr[1] /\ pp[2] = pp[1] + 1
  BY <1>1, <1>2 DEF Track
<1>4. h < Len(req) /\ k = req[h + 1] /\ Head(box).part = 0
  BY <1>1, <1>2, <1>3
<1>5. k \in AllKinds
  BY <1>4
<1> HIDE DEF k
<1>6. PayloadLen[k] \in 0 .. 2
  BY <1>5, PayloadIs
<1>7. ASSUME Len(box) > PayloadLen[k]
      PROVE  SubSeq(box, n + 1, Len(box)) \in Seq(Parts) /\ Backlog(SubSeq(box, n + 1, Len(box)), req, rest, None, h + 1)
  <2>1. n \in 0 .. Len(box) /\ n = PayloadLen[req[h + 1]] - pp[1] + 1 /\ n <= Len(box)
    BY <1>1, <1>2, <1>4, <1>6, <1>7
  <2>2. rr[n + 1] = h + 2 /\ pp[n + 1] = 0
    BY <1>1, <1>4, <1>6, <2>1, TrackGoes
  <2>6. n \in 0 .. Len(box)
    BY <2>1
  <2> HIDE DEF n
  <2>3. PICK ss, qq : /\ Track(ss, qq, SubSeq(box, n + 1, Len(box)), req, rest)
                      /\ ss[1] = rr[n + 1] /\ qq[1] = pp[n + 1]
    BY <1>1, <2>6, TrackSkip
  <2>4. SubSeq(box, n + 1, Len(box)) \in Seq(Parts)
    BY <1>1, <2>6, TrackSkip
  <2>5. ss[1] = (h + 1) + 1
    BY <2>2, <2>3
  <2> QED
    BY <2>2, <2>3, <2>4, <2>5 DEF Backlog
<1>8. ASSUME Len(box) <= PayloadLen[k]
      PROVE  Tail(box) \in Seq(Parts) /\ Backlog(Tail(box), req, rest, k, h)
  <2>1. PayloadLen[k] > 0 /\ 1 \in 0 .. Len(box) /\ k # None
    BY <1>2, <1>5, <1>6, <1>8, ServerAssumption
  <2>2. rr[2] = h + 1 /\ pp[2] = 1
    BY <1>1, <1>3, <1>4, <2>1
  <2> DEFINE j == 1
  <2>3. Tail(box) = SubSeq(box, j + 1, Len(box)) /\ j \in 0 .. Len(box) /\ j + 1 = 2
    BY <1>2
  <2> HIDE DEF j
  <2>4. PICK ss, qq : /\ Track(ss, qq, SubSeq(box, j + 1, Len(box)), req, rest)
                      /\ ss[1] = rr[j + 1] /\ qq[1] = pp[j + 1]
    BY <1>1, <2>3, TrackSkip
  <2>5. SubSeq(box, j + 1, Len(box)) \in Seq(Parts)
    BY <1>1, <2>3, TrackSkip
  <2>6. Track(ss, qq, Tail(box), req, rest) /\ ss[1] = h + 1 /\ qq[1] = 1
    BY <2>2, <2>3, <2>4
  <2> QED
    BY <1>4, <2>1, <2>3, <2>5, <2>6 DEF Backlog
<1> QED
  BY <1>4, <1>5, <1>7, <1>8 DEF k

\* One unit more, part b of request a, which is what comes next, and after which
\* part p of request r does.
Follows(box, req, req2, rest2, rr, pp, a, b, r, p) ==
  /\ Len(req) <= Len(req2) /\ \A i \in 1 .. Len(req) : req2[i] = req[i]
  /\ a \in Nat \ {0} /\ b \in Nat /\ a = rr[Len(box) + 1] /\ b = pp[Len(box) + 1] /\ a <= Len(req2)
  /\ r \in Nat \ {0} /\ p \in Nat
  /\ IF b = PayloadLen[req2[a]] THEN r = a + 1 /\ p = 0 ELSE r = a /\ p = b + 1
  /\ IF rest2 = 0 THEN r = Len(req2) + 1 /\ p = 0
     ELSE r = Len(req2) /\ p = PayloadLen[req2[Len(req2)]] - rest2 + 1

LEMMA TrackGrows ==
  ASSUME NEW box \in Seq(Parts), NEW req \in Seq(AllKinds), NEW req2 \in Seq(AllKinds),
         NEW rest, NEW rest2, NEW rr, NEW pp, Track(rr, pp, box, req, rest),
         NEW a, NEW b, NEW r, NEW p, Follows(box, req, req2, rest2, rr, pp, a, b, r, p)
  PROVE  LET more == Append(box, [of |-> req2[a], part |-> b])
         IN  /\ more \in Seq(Parts)
             /\ \E ss, qq : Track(ss, qq, more, req2, rest2) /\ ss[1] = rr[1] /\ qq[1] = pp[1]
<1> DEFINE n == Len(box)
           u == [of |-> req2[a], part |-> b]
           more == Append(box, u)
           ss == [i \in 1 .. n + 2 |-> IF i = n + 2 THEN r ELSE rr[i]]
           qq == [i \in 1 .. n + 2 |-> IF i = n + 2 THEN p ELSE pp[i]]
<1>0. /\ Len(req) <= Len(req2) /\ \A i \in 1 .. Len(req) : req2[i] = req[i]
      /\ a \in Nat \ {0} /\ b \in Nat /\ a = rr[n + 1] /\ b = pp[n + 1] /\ a <= Len(req2)
      /\ r \in Nat \ {0} /\ p \in Nat
      /\ IF b = PayloadLen[req2[a]] THEN r = a + 1 /\ p = 0 ELSE r = a /\ p = b + 1
      /\ IF rest2 = 0 THEN r = Len(req2) + 1 /\ p = 0
         ELSE r = Len(req2) /\ p = PayloadLen[req2[Len(req2)]] - rest2 + 1
  BY DEF Follows
<1>1. n \in Nat /\ Len(req) \in Nat /\ Len(req2) \in Nat
  OBVIOUS
<1>2. u \in Parts
  BY <1>0, <1>1 DEF Parts
<1> HIDE DEF u
<1>3. more \in Seq(Parts) /\ Len(more) = n + 1 /\ more[n + 1] = u /\ \A i \in 1 .. n : more[i] = box[i]
  BY <1>2
<1>4. /\ rr \in [1 .. n + 1 -> Nat \ {0}] /\ pp \in [1 .. n + 1 -> Nat]
      /\ rr[n + 1] = a /\ pp[n + 1] = b
  BY <1>0 DEF Track
<1> HIDE DEF more
<1>5. \A i \in 1 .. n + 2 : i = n + 2 \/ i \in 1 .. n + 1
  BY <1>1
<1>6. ss \in [1 .. n + 2 -> Nat \ {0}] /\ qq \in [1 .. n + 2 -> Nat]
  BY <1>0, <1>4, <1>5
<1>7. ss[n + 2] = r /\ qq[n + 2] = p
  BY <1>1
<1>8. \A i \in 1 .. n + 1 : ss[i] = rr[i] /\ qq[i] = pp[i]
  BY <1>1
<1> HIDE DEF ss, qq
<1>9. ASSUME NEW i \in 1 .. n + 1
      PROVE  /\ ss[i] <= Len(req2)
             /\ more[i] = [of |-> req2[ss[i]], part |-> qq[i]]
             /\ IF qq[i] = PayloadLen[req2[ss[i]]] THEN ss[i + 1] = ss[i] + 1 /\ qq[i + 1] = 0
                ELSE ss[i + 1] = ss[i] /\ qq[i + 1] = qq[i] + 1
  <2>1. CASE i = n + 1
    <3>1. ss[i] = a /\ qq[i] = b /\ ss[i + 1] = r /\ qq[i + 1] = p
      <4>1. i + 1 = n + 2
        BY <1>1, <2>1
      <4> QED
        BY <1>4, <1>7, <1>8, <2>1, <4>1
    <3> QED
      BY <1>0, <1>3, <2>1, <3>1 DEF u
  <2>2. CASE i \in 1 .. n
    <3>1. i + 1 \in 1 .. n + 1
      BY <1>1, <2>2
    <3>2. ss[i] = rr[i] /\ qq[i] = pp[i] /\ ss[i + 1] = rr[i + 1] /\ qq[i + 1] = pp[i + 1] /\ more[i] = box[i]
      BY <1>3, <1>8, <2>2, <3>1
    <3>3. /\ rr[i] <= Len(req)
          /\ box[i] = [of |-> req[rr[i]], part |-> pp[i]]
          /\ IF pp[i] = PayloadLen[req[rr[i]]] THEN rr[i + 1] = rr[i] + 1 /\ pp[i + 1] = 0
             ELSE rr[i + 1] = rr[i] /\ pp[i + 1] = pp[i] + 1
      BY <2>2 DEF Track
    <3>4. rr[i] \in 1 .. Len(req) /\ rr[i] <= Len(req2)
      <4>1. i \in 1 .. n + 1
        BY <1>1, <2>2
      <4>2. rr[i] \in Nat \ {0} /\ rr[i] <= Len(req)
        BY <1>4, <3>3, <4>1
      <4> QED
        BY <1>0, <1>1, <4>2
    <3>5. req2[rr[i]] = req[rr[i]]
      BY <1>0, <3>4
    <3> QED
      BY <3>2, <3>3, <3>4, <3>5
  <2> QED
    BY <1>1, <2>1, <2>2
<1>10. Track(ss, qq, more, req2, rest2)
  <2>1. Len(more) + 1 = n + 2
    BY <1>1, <1>3
  <2> QED
    BY <1>0, <1>3, <1>6, <1>7, <1>9, <2>1 DEF Track
<1>11. ss[1] = rr[1] /\ qq[1] = pp[1]
  BY <1>1, <1>8
<1> QED
  BY <1>3, <1>10, <1>11 DEF more, u

LEMMA BacklogSend ==
  ASSUME NEW box \in Seq(Parts), NEW req \in Seq(AllKinds), NEW pend, NEW h \in Nat,
         Backlog(box, req, 0, pend, h), NEW k \in AllKinds
  PROVE  LET more == Append(box, [of |-> k, part |-> 0])
         IN  more \in Seq(Parts) /\ Backlog(more, Append(req, k), PayloadLen[k], pend, h)
<1> DEFINE req2 == Append(req, k)
           n == Len(req)
           more == Append(box, [of |-> k, part |-> 0])
           r == IF PayloadLen[k] = 0 THEN n + 2 ELSE n + 1
           p == IF PayloadLen[k] = 0 THEN 0 ELSE 1
<1>1. PICK rr, pp : /\ Track(rr, pp, box, req, 0) /\ rr[1] = h + 1
                    /\ IF pend = None THEN pp[1] = 0
                       ELSE pp[1] = 1 /\ h < n /\ pend = req[h + 1] /\ PayloadLen[pend] > 0
  BY DEF Backlog
<1>2. /\ req2 \in Seq(AllKinds) /\ Len(req2) = n + 1 /\ req2[n + 1] = k /\ n \in Nat
      /\ \A i \in 1 .. n : req2[i] = req[i]
  OBVIOUS
<1>3. rr[Len(box) + 1] = n + 1 /\ pp[Len(box) + 1] = 0 /\ PayloadLen[k] \in 0 .. 2
  BY <1>1, PayloadIs DEF Track
<1> HIDE DEF req2, n
<1>4. r \in Nat \ {0} /\ p \in Nat /\ n + 1 \in Nat \ {0}
  BY <1>2
<1>5. /\ IF 0 = PayloadLen[req2[n + 1]] THEN r = (n + 1) + 1 /\ p = 0 ELSE r = n + 1 /\ p = 0 + 1
      /\ IF PayloadLen[k] = 0 THEN r = Len(req2) + 1 /\ p = 0
         ELSE r = Len(req2) /\ p = PayloadLen[req2[Len(req2)]] - PayloadLen[k] + 1
  BY <1>2, <1>3
<1> HIDE DEF r, p
<1>6. /\ more \in Seq(Parts)
      /\ \E ss, qq : Track(ss, qq, more, req2, PayloadLen[k]) /\ ss[1] = rr[1] /\ qq[1] = pp[1]
  <2> DEFINE a == n + 1
             b == 0
  <2>1. /\ a \in Nat \ {0} /\ b \in Nat /\ a = rr[Len(box) + 1] /\ b = pp[Len(box) + 1] /\ a <= Len(req2)
        /\ IF b = PayloadLen[req2[a]] THEN r = a + 1 /\ p = 0 ELSE r = a /\ p = b + 1
        /\ Len(req) <= Len(req2) /\ \A i \in 1 .. Len(req) : req2[i] = req[i]
        /\ more = Append(box, [of |-> req2[a], part |-> b])
    BY <1>2, <1>3, <1>4, <1>5 DEF n
  <2> DEFINE rest2 == PayloadLen[k]
  <2> HIDE DEF a, b, more, rest2
  <2>2. Follows(box, req, req2, rest2, rr, pp, a, b, r, p)
    BY <1>4, <1>5, <2>1 DEF Follows, rest2
  <2>3. /\ more \in Seq(Parts)
        /\ \E ss, qq : Track(ss, qq, more, req2, rest2) /\ ss[1] = rr[1] /\ qq[1] = pp[1]
    BY <1>1, <1>2, <2>1, <2>2, TrackGrows
  <2> QED
    BY <2>3 DEF rest2
<1>7. pend # None => h < Len(req2) /\ pend = req2[h + 1]
  <2>1. h < n => h + 1 \in 1 .. n
    BY <1>2
  <2> QED
    BY <1>1, <1>2, <2>1
<1> HIDE DEF more
<1> QED
  BY <1>1, <1>6, <1>7 DEF Backlog, more, req2

LEMMA BacklogPayload ==
  ASSUME NEW box \in Seq(Parts), NEW req \in Seq(AllKinds), NEW rest \in Nat \ {0}, NEW pend,
         NEW h \in Nat, req # <<>>, rest <= PayloadLen[req[Len(req)]],
         Backlog(box, req, rest, pend, h)
  PROVE  LET more == Append(box, [of |-> req[Len(req)], part |-> PayloadLen[req[Len(req)]] - rest + 1])
         IN  more \in Seq(Parts) /\ Backlog(more, req, rest - 1, pend, h)
<1> DEFINE n == Len(req)
           k == PayloadLen[req[n]]
           b == k - rest + 1
           r == IF rest = 1 THEN n + 1 ELSE n
           p == IF rest = 1 THEN 0 ELSE k - (rest - 1) + 1
           more == Append(box, [of |-> req[n], part |-> b])
<1>1. PICK rr, pp : /\ Track(rr, pp, box, req, rest) /\ rr[1] = h + 1
                    /\ IF pend = None THEN pp[1] = 0
                       ELSE pp[1] = 1 /\ h < n /\ pend = req[h + 1] /\ PayloadLen[pend] > 0
  BY DEF Backlog
<1>2. n \in Nat \ {0} /\ req[n] \in AllKinds
  OBVIOUS
<1>3. k \in 0 .. 2 /\ rest <= k
  BY <1>2, PayloadIs
<1>4. rr[Len(box) + 1] = n /\ pp[Len(box) + 1] = b
  BY <1>1 DEF Track
<1>5. /\ b \in Nat /\ r \in Nat \ {0} /\ p \in Nat
      /\ IF b = k THEN r = n + 1 /\ p = 0 ELSE r = n /\ p = b + 1
      /\ IF rest - 1 = 0 THEN r = n + 1 /\ p = 0 ELSE r = n /\ p = k - (rest - 1) + 1
  BY <1>2, <1>3
<1> HIDE DEF b, r, p
<1>6. /\ more \in Seq(Parts)
      /\ \E ss, qq : Track(ss, qq, more, req, rest - 1) /\ ss[1] = rr[1] /\ qq[1] = pp[1]
  <2> DEFINE a == n
             rest2 == rest - 1
  <2>1. /\ a \in Nat \ {0} /\ b \in Nat /\ a = rr[Len(box) + 1] /\ b = pp[Len(box) + 1] /\ a <= Len(req)
        /\ IF b = PayloadLen[req[a]] THEN r = a + 1 /\ p = 0 ELSE r = a /\ p = b + 1
        /\ IF rest2 = 0 THEN r = Len(req) + 1 /\ p = 0
           ELSE r = Len(req) /\ p = PayloadLen[req[Len(req)]] - rest2 + 1
        /\ more = Append(box, [of |-> req[a], part |-> b])
    BY <1>2, <1>4, <1>5
  <2> HIDE DEF a, more, rest2
  <2>2. Follows(box, req, req, rest2, rr, pp, a, b, r, p)
    BY <1>2, <1>5, <2>1 DEF Follows
  <2>3. /\ more \in Seq(Parts)
        /\ \E ss, qq : Track(ss, qq, more, req, rest2) /\ ss[1] = rr[1] /\ qq[1] = pp[1]
    BY <1>1, <2>1, <2>2, TrackGrows
  <2> QED
    BY <2>3 DEF rest2
<1> HIDE DEF more
<1> QED
  BY <1>1, <1>6 DEF Backlog, more, b

------------------------------------------------------------------------------
(***************************************************************************)
(* The invariant.                                                          *)
(***************************************************************************)
ClientOK(c) ==
  /\ unsent[c] > 0 => sent[c] # <<>> /\ unsent[c] <= PayloadLen[sent[c][Len(sent[c])]]
  /\ peer[c] = "away" =>
       c \notin Connected(srv) /\ sent[c] = <<>> /\ unsent[c] = 0 /\ received[c] = <<>>
  /\ c \notin Connected(srv) => inbox[c] = <<>>

WorldOK ==
  /\ up \in BOOLEAN /\ emitted \in Seq(Events)
  /\ peer \in [Clients -> {"away", "here", "gone"}]
  /\ sent \in [Clients -> Seq(AllKinds)] /\ unsent \in [Clients -> Nat]
  /\ inbox \in [Clients -> Seq(Parts)] /\ received \in [Clients -> Seq(AllUnits)]

Waits(hh) ==
  \A c \in Connected(srv) : Backlog(inbox[c], sent[c], unsent[c], srv.pending[c], hh[c])

Pace == \E hh \in [Clients -> Nat] : AllOwe(srv, received, sent, hh) /\ Waits(hh)

IpcInv == WorldOK /\ ServerOK(srv) /\ (\A c \in Clients : ClientOK(c)) /\ Pace

LEMMA EmptyBacklog == Backlog(<<>>, <<>>, 0, None, 0)
<1> DEFINE rr == [i \in 1 .. 1 |-> 1]
           pp == [i \in 1 .. 1 |-> 0]
<1>1. Len(<<>>) = 0 /\ Len(<<>>) + 1 = 1
  OBVIOUS
<1>2. Track(rr, pp, <<>>, <<>>, 0)
  BY <1>1 DEF Track
<1>3. rr[1] = 0 + 1 /\ pp[1] = 0
  OBVIOUS
<1> HIDE DEF rr, pp
<1> QED
  BY <1>2, <1>3 DEF Backlog

LEMMA NothingOwed ==
  \A whole : Owed(whole, <<>> \o <<>>, <<>>, 0)
<1>1. <<>> \o <<>> = <<>> /\ Len(<<>>) = 0
  OBVIOUS
<1>2. Heads(<<>>) = {} /\ AnsweredUpTo(<<>>, 0) = {}
  BY DEF Heads, RepliesUpTo, AnsweredUpTo
<1>3. FramedIn(<<>>, TRUE) /\ InOrder(<<>>, <<>>)
  BY <1>1, <1>2 DEF FramedIn, InOrder
<1> QED
  BY <1>1, <1>2, <1>3 DEF Owed, FramedIn

LEMMA IpcInit == Init => IpcInv
<1> SUFFICES ASSUME Init PROVE IpcInv
  OBVIOUS
<1>1. Connected(NewServer) = {}
  BY DEF Connected, ToSet, NewServer
<1>2. \A c \in Clients : QueueOK(NewServer, c)
  <2>1. ASSUME NEW c \in Clients PROVE QueueOK(NewServer, c)
    <3>1. /\ NewServer.size[c] = FirstSize /\ NewServer.buf[c] = <<>> /\ ~NewServer.armed[c]
          /\ Len(<<>>) = 0
      BY DEF NewServer
    <3> QED
      BY <3>1, ServerAssumption DEF QueueOK
  <2> QED
    BY <2>1
<1>3. ServerOK(NewServer)
  <2>1. NewServer \in Srv
    BY ServerAssumption DEF NewServer, Srv
  <2>2. NoRepeats(NewServer.list)
    BY DEF NewServer, NoRepeats
  <2>3. \A c \in Clients : /\ NewServer.buf[c] = <<>> /\ NewServer.subs[c] = {} /\ NewServer.pending[c] = None
    BY DEF NewServer
  <2> QED
    BY <1>2, <2>1, <2>2, <2>3 DEF ServerOK
<1>4. WorldOK /\ \A c \in Clients : ClientOK(c)
  BY <1>1 DEF Init, WorldOK, ClientOK
<1>5. Pace
  <2> DEFINE hh == [c \in Clients |-> 0]
  <2>1. hh \in [Clients -> Nat]
    OBVIOUS
  <2>2. ASSUME NEW c \in Clients PROVE Owes(srv, c, received[c], sent[c], hh[c])
    <3>1. received[c] = <<>> /\ sent[c] = <<>> /\ srv.buf[c] = <<>> /\ hh[c] = 0
      BY DEF Init, NewServer
    <3> QED
      BY <3>1, NothingOwed DEF Owes
  <2>3. AllOwe(srv, received, sent, hh) /\ Waits(hh)
    BY <1>1, <2>2 DEF AllOwe, Waits, Init
  <2> HIDE DEF hh
  <2> QED
    BY <2>1, <2>3 DEF Pace
<1> QED
  BY <1>3, <1>4, <1>5 DEF IpcInv, Init

\* What the server does of its own: box is what its sockets hold, before those of
\* clients that it disconnected are closed.
LEMMA ServerKeeps ==
  ASSUME IpcInv, ServerOK(srv'), Connected(srv') \subseteq Connected(srv), up' \in BOOLEAN, emitted' \in Seq(Events),
         UNCHANGED <<environment, received>>,
         NEW box \in [Clients -> Seq(Parts)], Inbox(box),
         NEW hh \in [Clients -> Nat], AllOwe(srv', received, sent, hh),
         \A c \in Connected(srv') : Backlog(box[c], sent[c], unsent[c], srv'.pending[c], hh[c])
  PROVE  IpcInv'
<1>1. /\ peer' = peer /\ sent' = sent /\ unsent' = unsent /\ received' = received
      /\ inbox' = [c \in Clients |-> IF c \in Connected(srv') THEN box[c] ELSE <<>>]
  BY DEF environment, Inbox
<1>2. WorldOK /\ ServerOK(srv) /\ (\A c \in Clients : ClientOK(c)) /\ srv' \in Srv
  BY DEF IpcInv, ServerOK
<1>3. <<>> \in Seq(Parts)
  OBVIOUS
<1>4. inbox' \in [Clients -> Seq(Parts)]
  BY <1>1, <1>3
<1>5. WorldOK'
  BY <1>1, <1>2, <1>4 DEF WorldOK
<1>6. ASSUME NEW c \in Clients PROVE ClientOK(c)'
  BY <1>1, <1>2, <1>6 DEF ClientOK
<1>7. Pace'
  <2>1. ASSUME NEW c \in Connected(srv')
        PROVE  Backlog(inbox'[c], sent'[c], unsent'[c], srv'.pending[c], hh[c])
    <3>1. c \in Clients
      BY <1>2, ConnectedIs
    <3> QED
      BY <1>1, <3>1
  <2>2. AllOwe(srv', received', sent', hh)
    BY <1>1
  <2> QED
    BY <2>1, <2>2 DEF Pace, Waits
<1> QED
  BY <1>5, <1>6, <1>7 DEF IpcInv

LEMMA DropKeeps ==
  ASSUME IpcInv, NEW c \in Connected(srv), Drop(c), up' = up, UNCHANGED <<environment, received>>
  PROVE  IpcInv'
<1>1. ServerOK(srv) /\ srv \in Srv /\ WorldOK /\ c \in Clients
  BY ConnectedIs DEF IpcInv, ServerOK
<1>2. PICK k \in 1 .. Len(srv.list) : srv.list[k] = c
  BY <1>1, ConnectedIs
<1>3. ServerOK(srv') /\ c \notin Connected(srv') /\ \A d \in Clients \ {c} : Same(srv, srv', d)
  BY <1>1, <1>2, DisconnectIs DEF Drop
<1>4. PICK hh \in [Clients -> Nat] : AllOwe(srv, received, sent, hh) /\ Waits(hh)
  BY DEF IpcInv, Pace
<1>5. ASSUME NEW d \in Clients
      PROVE  /\ Owes(srv', d, received[d], sent[d], hh[d])
             /\ d \in Connected(srv') =>
                  /\ d \in Connected(srv) /\ srv'.pending[d] = srv.pending[d]
                  /\ Backlog(inbox[d], sent[d], unsent[d], srv'.pending[d], hh[d])
  <2>1. received[d] \in Seq(AllUnits) /\ sent[d] \in Seq(AllKinds) /\ Owes(srv, d, received[d], sent[d], hh[d])
    BY <1>1, <1>4 DEF AllOwe, WorldOK
  <2>2. CASE d = c
    <3>1. Owes(srv', d, received[d], sent[d], hh[d])
      BY <1>1, <1>3, <2>1, <2>2, OwesGone
    <3> QED
      BY <1>3, <2>2, <3>1
  <2>3. CASE d # c
    <3>1. Same(srv, srv', d)
      BY <1>3, <2>3
    <3>2. Owes(srv', d, received[d], sent[d], hh[d])
      BY <2>1, <3>1, OwesSame
    <3> QED
      BY <1>4, <3>1, <3>2 DEF Same, Waits
  <2> QED
    BY <2>2, <2>3
<1>6. Connected(srv') \subseteq Connected(srv) /\ AllOwe(srv', received, sent, hh)
  <2>1. Connected(srv') \in SUBSET Clients
    BY <1>3, ConnectedIs DEF ServerOK
  <2> QED
    BY <1>5, <2>1 DEF AllOwe
<1>7. ASSUME NEW d \in Connected(srv')
      PROVE  Backlog(inbox[d], sent[d], unsent[d], srv'.pending[d], hh[d])
  <2>1. d \in Clients
    BY <1>3, ConnectedIs DEF ServerOK
  <2> QED
    BY <1>5, <2>1
<1>8. /\ inbox \in [Clients -> Seq(Parts)] /\ Inbox(inbox) /\ up' \in BOOLEAN
      /\ emitted' \in Seq(Events)
  BY <1>1 DEF WorldOK, Drop
<1> QED
  BY <1>3, <1>4, <1>6, <1>7, <1>8, ServerKeeps

LEMMA UnpendIs ==
  ASSUME NEW s, ServerOK(s), NEW c \in Clients, NEW p \in AllKinds \cup {None},
         c \in Connected(s) \/ p = None
  PROVE  LET t == [s EXCEPT !.pending[c] = p]
         IN  /\ ServerOK(t) /\ t.list = s.list /\ t.buf = s.buf /\ t.subs = s.subs /\ t.size = s.size
             /\ t.armed = s.armed /\ t.misused = s.misused
             /\ t.pending = [s.pending EXCEPT ![c] = p]
             /\ t.pending[c] = p /\ \A d \in Clients \ {c} : t.pending[d] = s.pending[d]
<1> DEFINE t == [s EXCEPT !.pending[c] = p]
<1>1. s \in Srv
  BY DEF ServerOK
<1>2. t = [s EXCEPT !.pending = [s.pending EXCEPT ![c] = p]]
  BY <1>1 DEF Srv
<1>3. [s.pending EXCEPT ![c] = p] \in [Clients -> AllKinds \cup {None}]
  BY <1>1 DEF Srv
<1>4. /\ t \in Srv /\ t.list = s.list /\ t.buf = s.buf /\ t.subs = s.subs /\ t.size = s.size
      /\ t.armed = s.armed /\ t.misused = s.misused
      /\ t.pending = [s.pending EXCEPT ![c] = p]
      /\ t.pending[c] = p /\ \A d \in Clients \ {c} : t.pending[d] = s.pending[d]
  BY <1>1, <1>2, <1>3 DEF Srv
<1> HIDE DEF t
<1>5. Connected(t) = Connected(s)
  BY <1>4 DEF Connected
<1>6. ASSUME NEW d \in Clients, d \notin Connected(t) PROVE t.pending[d] = None
  <2>1. s.pending[d] = None /\ d \notin Connected(s)
    BY <1>5, <1>6 DEF ServerOK
  <2> QED
    BY <1>4, <2>1
<1>7. ServerOK(t)
  BY <1>4, <1>5, <1>6 DEF ServerOK, QueueOK
<1> QED
  BY <1>4, <1>7 DEF t

LEMMA AfterHandling ==
  ASSUME IpcInv, NEW c \in Connected(srv), up' \in BOOLEAN, UNCHANGED <<environment, received>>,
         NEW hh \in [Clients -> Nat], AllOwe(srv, received, sent, hh), Waits(hh),
         NEW k \in AllKinds, k # "garbage", hh[c] < Len(sent[c]), k = sent[c][hh[c] + 1],
         NEW n, Handle(c, k, n),
         SubSeq(inbox[c], n + 1, Len(inbox[c])) \in Seq(Parts),
         Backlog(SubSeq(inbox[c], n + 1, Len(inbox[c])), sent[c], unsent[c], None, hh[c] + 1)
  PROVE  IpcInv'
<1> DEFINE s == [srv EXCEPT !.pending[c] = None]
           more == SubSeq(inbox[c], n + 1, Len(inbox[c]))
           box == [inbox EXCEPT ![c] = more]
           new == [hh EXCEPT ![c] = hh[c] + 1]
<1>1. ServerOK(srv) /\ srv \in Srv /\ WorldOK /\ c \in Clients
  BY ConnectedIs DEF IpcInv, ServerOK
<1>2. PICK es \in Emits(k) :
        /\ srv' = HandleCommand(s, c, k, es)
        /\ Inbox([inbox EXCEPT ![c] = SubSeq(@, n + 1, Len(@))])
        /\ emitted' = emitted \o es
  BY DEF Handle
<1>3. /\ ServerOK(s) /\ s.list = srv.list /\ s.buf = srv.buf
      /\ s.pending[c] = None /\ \A d \in Clients \ {c} : s.pending[d] = srv.pending[d]
  BY <1>1, UnpendIs
<1> HIDE DEF s
<1>4. Connected(s) = Connected(srv)
  BY <1>3 DEF Connected
<1>5. AllOwe(s, received, sent, hh)
  BY <1>3, <1>4 DEF AllOwe, Owes
<1>6. received \in [Clients -> Seq(AllUnits)] /\ sent \in [Clients -> Seq(AllKinds)]
  BY <1>1 DEF WorldOK
<1>7. ServerOK(srv') /\ AllOwe(srv', received, sent, new) /\ Shrinks(s, srv')
  BY <1>1, <1>2, <1>3, <1>4, <1>5, <1>6, HandleCommandIs
<1>8. new \in [Clients -> Nat] /\ new[c] = hh[c] + 1 /\ \A d \in Clients \ {c} : new[d] = hh[d]
  BY <1>1
<1>9. box \in [Clients -> Seq(Parts)] /\ box[c] = more /\ \A d \in Clients \ {c} : box[d] = inbox[d]
  BY <1>1 DEF WorldOK
<1>10. Inbox(box)
  BY <1>1, <1>2 DEF WorldOK
<1> HIDE DEF new, box
<1>11. Connected(srv') \subseteq Connected(srv)
  <2>1. Connected(srv') \in SUBSET Clients
    BY <1>7, ConnectedIs DEF ServerOK
  <2> QED
    BY <1>4, <1>7, <2>1 DEF Shrinks
<1>12. ASSUME NEW d \in Connected(srv')
       PROVE  Backlog(box[d], sent[d], unsent[d], srv'.pending[d], new[d])
  <2>1. d \in Clients /\ d \in Connected(srv)
    BY <1>1, <1>11, ConnectedIs
  <2>2. srv'.pending[d] = s.pending[d]
    BY <1>7, <2>1 DEF Shrinks
  <2>3. CASE d = c
    BY <1>3, <1>8, <1>9, <2>2, <2>3
  <2>4. CASE d # c
    <3>1. Backlog(inbox[d], sent[d], unsent[d], srv.pending[d], hh[d])
      BY <2>1 DEF Waits
    <3> QED
      BY <1>3, <1>8, <1>9, <2>1, <2>2, <2>4, <3>1
  <2> QED
    BY <2>3, <2>4
<1>13. emitted' \in Seq(Events)
  <2>1. es \in Seq(Events)
    <3>1. es \in {<<>>, <<"tick">>, <<"window">>}
      BY DEF Emits
    <3>2. \A e \in Events : <<e>> \in Seq(Events)
      OBVIOUS
    <3>3. <<"tick">> \in Seq(Events) /\ <<"window">> \in Seq(Events)
      BY <3>2 DEF Events
    <3>4. <<>> \in Seq(Events)
      OBVIOUS
    <3> QED
      BY <3>1, <3>3, <3>4
  <2>2. emitted \in Seq(Events)
    BY <1>1 DEF WorldOK
  <2> QED
    BY <1>2, <2>1, <2>2
<1> QED
  BY <1>7, <1>8, <1>9, <1>10, <1>11, <1>12, <1>13, ServerKeeps

LEMMA HandleReadableKeeps ==
  ASSUME IpcInv, NEW c \in Clients, HandleReadable(c)
  PROVE  IpcInv'
<1>1. c \in Connected(srv) /\ UNCHANGED <<environment, received>>
  BY DEF HandleReadable
<1>2. ServerOK(srv) /\ srv \in Srv /\ WorldOK /\ inbox[c] \in Seq(Parts) /\ sent[c] \in Seq(AllKinds)
  BY DEF IpcInv, ServerOK, WorldOK
<1>3. PICK hh \in [Clients -> Nat] : AllOwe(srv, received, sent, hh) /\ Waits(hh)
  BY DEF IpcInv, Pace
<1>4. Backlog(inbox[c], sent[c], unsent[c], srv.pending[c], hh[c]) /\ hh[c] \in Nat
  BY <1>1, <1>3 DEF Waits
<1>5. CASE Drop(c)
  <2>1. srv' = Disconnect(srv, c)
    BY <1>5 DEF Drop
  <2>2. PICK k \in 1 .. Len(srv.list) : srv.list[k] = c
    BY <1>1, <1>2, ConnectedIs
  <2>3. srv'.misused = srv.misused
    BY <1>2, <2>1, <2>2, DisconnectIs
  <2>4. up' = up
    BY <2>3 DEF HandleReadable
  <2> QED
    BY <1>1, <1>5, <2>4, DropKeeps
<1>6. up' \in BOOLEAN
  BY <1>2 DEF HandleReadable, WorldOK
<1>7. CASE ReadPayload(c)
  <2> DEFINE k == srv.pending[c]
             n == PayloadLen[k]
  <2>1. k # None /\ Len(inbox[c]) >= n /\ Handle(c, k, n)
    BY <1>7 DEF ReadPayload
  <2> HIDE DEF k
  <2>2. /\ hh[c] < Len(sent[c]) /\ k = sent[c][hh[c] + 1] /\ k \in AllKinds /\ n > 0
        /\ SubSeq(inbox[c], n + 1, Len(inbox[c])) \in Seq(Parts)
        /\ Backlog(SubSeq(inbox[c], n + 1, Len(inbox[c])), sent[c], unsent[c], None, hh[c] + 1)
    BY <1>2, <1>4, <2>1, PayloadTaken DEF k
  <2>3. k # "garbage"
    BY <2>2, PayloadIs
  <2> HIDE DEF n
  <2> QED
    BY <1>1, <1>3, <1>6, <2>1, <2>2, <2>3, AfterHandling
<1>8. CASE ReadHeader(c)
  <2> DEFINE k == Head(inbox[c]).of
             n == 1 + PayloadLen[k]
             more == SubSeq(inbox[c], n + 1, Len(inbox[c]))
  <2>1. srv.pending[c] = None /\ inbox[c] # <<>>
    BY <1>8 DEF ReadHeader
  <2>2. /\ hh[c] < Len(sent[c]) /\ k = sent[c][hh[c] + 1] /\ k \in AllKinds /\ Head(inbox[c]).part = 0
        /\ Len(inbox[c]) > PayloadLen[k] =>
             more \in Seq(Parts) /\ Backlog(more, sent[c], unsent[c], None, hh[c] + 1)
        /\ Len(inbox[c]) <= PayloadLen[k] =>
             Tail(inbox[c]) \in Seq(Parts) /\ Backlog(Tail(inbox[c]), sent[c], unsent[c], k, hh[c])
    BY <1>2, <1>4, <2>1, HeaderTaken
  <2>3. \/ Drop(c)
        \/ k # "garbage" /\ Len(inbox[c]) > PayloadLen[k] /\ Handle(c, k, n)
        \/ /\ Len(inbox[c]) <= PayloadLen[k] /\ srv' = [srv EXCEPT !.pending[c] = k]
           /\ inbox' = [inbox EXCEPT ![c] = Tail(@)] /\ emitted' = emitted
    BY <1>8 DEF ReadHeader
  <2> HIDE DEF k
  <2>4. CASE k # "garbage" /\ Len(inbox[c]) > PayloadLen[k] /\ Handle(c, k, n)
    <3>1. more \in Seq(Parts) /\ Backlog(more, sent[c], unsent[c], None, hh[c] + 1)
      BY <2>2, <2>4
    <3> HIDE DEF n
    <3> QED
      BY <1>1, <1>3, <1>6, <2>2, <2>4, <3>1, AfterHandling
  <2>5. CASE /\ Len(inbox[c]) <= PayloadLen[k] /\ srv' = [srv EXCEPT !.pending[c] = k]
             /\ inbox' = [inbox EXCEPT ![c] = Tail(@)] /\ emitted' = emitted
    <3> DEFINE box == [inbox EXCEPT ![c] = Tail(inbox[c])]
    <3>1. Tail(inbox[c]) \in Seq(Parts) /\ Backlog(Tail(inbox[c]), sent[c], unsent[c], k, hh[c])
      BY <2>2, <2>5
    <3>2. /\ ServerOK(srv') /\ srv'.list = srv.list /\ srv'.buf = srv.buf
          /\ srv'.pending[c] = k /\ \A d \in Clients \ {c} : srv'.pending[d] = srv.pending[d]
      <4> DEFINE t == [srv EXCEPT !.pending[c] = k]
      <4>1. k \in AllKinds \cup {None}
        BY <2>2
      <4>2. /\ ServerOK(t) /\ t.list = srv.list /\ t.buf = srv.buf
            /\ t.pending[c] = k /\ \A d \in Clients \ {c} : t.pending[d] = srv.pending[d]
        BY <1>1, <1>2, <4>1, UnpendIs
      <4>3. srv' = t
        BY <2>5
      <4> HIDE DEF t
      <4> QED
        BY <4>2, <4>3
    <3>3. Connected(srv') = Connected(srv)
      BY <3>2 DEF Connected
    <3>4. /\ box \in [Clients -> Seq(Parts)] /\ box[c] = Tail(inbox[c])
          /\ \A d \in Clients \ {c} : box[d] = inbox[d]
      BY <1>2, <3>1 DEF WorldOK
    <3>5. inbox' = box
      BY <2>5
    <3> HIDE DEF box
    <3>6. Inbox(box)
      <4>1. \A d \in Clients : d \notin Connected(srv') => box[d] = <<>>
        BY <1>1, <3>3, <3>4 DEF IpcInv, ClientOK
      <4>2. box = [d \in Clients |-> IF d \in Connected(srv') THEN box[d] ELSE <<>>]
        BY <3>4, <4>1
      <4> QED
        BY <3>5, <4>2 DEF Inbox
    <3>7. AllOwe(srv', received, sent, hh)
      BY <1>3, <3>2, <3>3 DEF AllOwe, Owes
    <3>8. ASSUME NEW d \in Connected(srv')
          PROVE  Backlog(box[d], sent[d], unsent[d], srv'.pending[d], hh[d])
      <4>1. d \in Clients /\ d \in Connected(srv)
        BY <1>2, <3>3, ConnectedIs
      <4>2. CASE d = c
        BY <3>1, <3>2, <3>4, <4>2
      <4>3. CASE d # c
        BY <1>3, <3>2, <3>4, <4>1, <4>3 DEF Waits
      <4> QED
        BY <4>2, <4>3
    <3>9. emitted' \in Seq(Events)
      BY <1>2, <2>5 DEF WorldOK
    <3> QED
      BY <1>1, <1>3, <1>6, <3>2, <3>3, <3>4, <3>6, <3>7, <3>8, <3>9, ServerKeeps
  <2> QED
    BY <1>5, <2>3, <2>4, <2>5
<1> QED
  BY <1>5, <1>7, <1>8 DEF HandleReadable

LEMMA HandleConnectionKeeps ==
  ASSUME IpcInv, NEW c \in Clients, HandleConnection(c)
  PROVE  IpcInv'
<1>1. /\ peer[c] = "away" /\ peer' = [peer EXCEPT ![c] = "here"]
      /\ srv' = [srv EXCEPT !.list = Append(srv.list, c)]
      /\ up' = up /\ sent' = sent /\ unsent' = unsent /\ inbox' = inbox /\ received' = received
      /\ emitted' = emitted
  BY DEF HandleConnection
<1>2. /\ ServerOK(srv) /\ srv \in Srv /\ WorldOK /\ srv.list \in Seq(Clients) /\ NoRepeats(srv.list)
      /\ \A d \in Clients : ClientOK(d)
  BY DEF IpcInv, ServerOK, Srv
<1>3. /\ c \notin Connected(srv) /\ sent[c] = <<>> /\ unsent[c] = 0 /\ received[c] = <<>> /\ inbox[c] = <<>>
      /\ srv.buf[c] = <<>> /\ srv.subs[c] = {} /\ srv.pending[c] = None
  BY <1>1, <1>2 DEF ClientOK, ServerOK
<1> DEFINE q == Append(srv.list, c)
<1>4. q \in Seq(Clients) /\ Len(q) = Len(srv.list) + 1 /\ q[Len(srv.list) + 1] = c
      /\ \A i \in 1 .. Len(srv.list) : q[i] = srv.list[i]
  BY <1>2
<1> HIDE DEF q
<1>5. /\ srv' \in Srv /\ srv'.list = q /\ srv'.subs = srv.subs /\ srv'.buf = srv.buf /\ srv'.size = srv.size
      /\ srv'.armed = srv.armed /\ srv'.pending = srv.pending /\ srv'.misused = srv.misused
  BY <1>1, <1>2, <1>4 DEF Srv, q
<1>6. Len(srv.list) \in Nat
  BY <1>2
<1>7. \A d : d \in Connected(srv') <=> d \in Connected(srv) \/ d = c
  <2>1. \A d : d \in Connected(srv') <=> \E i \in 1 .. Len(q) : q[i] = d
    BY <1>5, ConnectedIs
  <2>2. \A d : d \in Connected(srv) <=> \E i \in 1 .. Len(srv.list) : srv.list[i] = d
    BY <1>2, ConnectedIs
  <2>3. \A i \in 1 .. Len(q) : i \in 1 .. Len(srv.list) \/ i = Len(srv.list) + 1
    BY <1>4, <1>6
  <2>4. \A i \in 1 .. Len(srv.list) : i \in 1 .. Len(q)
    BY <1>4, <1>6
  <2>5. Len(srv.list) + 1 \in 1 .. Len(q)
    BY <1>4, <1>6
  <2> QED
    BY <1>4, <2>1, <2>2, <2>3, <2>4, <2>5
<1>8. NoRepeats(q)
  <2>1. ASSUME NEW i \in 1 .. Len(q), NEW j \in 1 .. Len(q), q[i] = q[j] PROVE i = j
    <3>1. \A k \in 1 .. Len(srv.list) : srv.list[k] # c
      BY <1>2, <1>3, ConnectedIs
    <3>2. /\ i \in 1 .. Len(srv.list) \/ i = Len(srv.list) + 1
          /\ j \in 1 .. Len(srv.list) \/ j = Len(srv.list) + 1
      BY <1>4, <1>6
    <3> QED
      BY <1>2, <1>4, <2>1, <3>1, <3>2 DEF NoRepeats
  <2> QED
    BY <2>1 DEF NoRepeats
<1>9. ServerOK(srv')
  BY <1>2, <1>5, <1>7, <1>8 DEF ServerOK, QueueOK
<1>10. WorldOK'
  BY <1>1, <1>2 DEF WorldOK
<1>11. ASSUME NEW d \in Clients PROVE ClientOK(d)'
  <2>1. CASE d = c
    BY <1>1, <1>2, <1>3, <1>7, <2>1 DEF ClientOK, WorldOK
  <2>2. CASE d # c
    BY <1>1, <1>2, <1>7, <2>2 DEF ClientOK, WorldOK
  <2> QED
    BY <2>1, <2>2
<1>12. Pace'
  <2>1. PICK hh \in [Clients -> Nat] : AllOwe(srv, received, sent, hh) /\ Waits(hh)
    BY DEF IpcInv, Pace
  <2> DEFINE new == [hh EXCEPT ![c] = 0]
  <2>2. new \in [Clients -> Nat] /\ new[c] = 0 /\ \A d \in Clients \ {c} : new[d] = hh[d]
    OBVIOUS
  <2> HIDE DEF new
  <2>3. ASSUME NEW d \in Clients
        PROVE  /\ Owes(srv', d, received[d], sent[d], new[d])
               /\ d \in Connected(srv') => Backlog(inbox[d], sent[d], unsent[d], srv'.pending[d], new[d])
    <3>1. CASE d = c
      <4>1. Owes(srv', c, received[c], sent[c], 0)
        BY <1>3, <1>5, NothingOwed DEF Owes
      <4> QED
        BY <1>3, <1>5, <2>2, <3>1, <4>1, EmptyBacklog
    <3>2. CASE d # c
      <4>1. Owes(srv, d, received[d], sent[d], hh[d])
        BY <2>1 DEF AllOwe
      <4>2. Same(srv, srv', d)
        BY <1>5, <1>7, <3>2 DEF Same
      <4>3. Owes(srv', d, received[d], sent[d], hh[d])
        BY <4>1, <4>2, OwesSame
      <4> QED
        BY <1>5, <1>7, <2>1, <2>2, <3>2, <4>3 DEF Waits
    <3> QED
      BY <3>1, <3>2
  <2>4. AllOwe(srv', received, sent, new)
    BY <2>3 DEF AllOwe
  <2>5. ASSUME NEW d \in Connected(srv')
        PROVE  Backlog(inbox[d], sent[d], unsent[d], srv'.pending[d], new[d])
    <3>1. d \in Clients
      BY <1>5, ConnectedIs
    <3> QED
      BY <2>3, <3>1
  <2> QED
    BY <1>1, <2>2, <2>4, <2>5 DEF Pace, Waits
<1> QED
  BY <1>9, <1>10, <1>11, <1>12 DEF IpcInv

\* Writing moves units from the buffer to what the client received.
LEMMA HandleWritableKeeps ==
  ASSUME IpcInv, NEW c \in Clients, HandleWritable(c)
  PROVE  IpcInv'
<1>1. c \in Connected(srv) /\ up' = up /\ UNCHANGED environment
  BY DEF HandleWritable
<1>2. ServerOK(srv) /\ srv \in Srv /\ WorldOK /\ \A d \in Clients : ClientOK(d)
  BY DEF IpcInv, ServerOK
<1>3. CASE Drop(c) /\ received' = received
  BY <1>1, <1>3, DropKeeps
<1>4. CASE /\ peer[c] = "here"
           /\ \E n \in 1 .. Len(srv.buf[c]) :
                /\ received' = [received EXCEPT ![c] = @ \o SubSeq(srv.buf[c], 1, n)]
                /\ srv' = [srv EXCEPT !.buf[c] = Written(@, n), !.armed[c] = n < Len(srv.buf[c])]
           /\ UNCHANGED <<inbox, emitted>>
  <2>1. PICK n \in 1 .. Len(srv.buf[c]) :
          /\ received' = [received EXCEPT ![c] = @ \o SubSeq(srv.buf[c], 1, n)]
          /\ srv' = [srv EXCEPT !.buf[c] = Written(@, n), !.armed[c] = n < Len(srv.buf[c])]
    BY <1>4
  <2> DEFINE b == srv.buf[c]
             z == Len(b)
             kept == SubSeq(b, n + 1, z)
             gone == SubSeq(b, 1, n)
             on == n < z
  <2>2. b \in Seq(AllUnits) /\ z \in Nat /\ n \in 1 .. z /\ QueueOK(srv, c) /\ received[c] \in Seq(AllUnits)
    BY <1>2 DEF ServerOK, Srv, WorldOK
  <2>3. /\ kept \in Seq(AllUnits) /\ Len(kept) = z - n /\ gone \in Seq(AllUnits)
        /\ gone \o kept = b
    <3>1. kept \in Seq(AllUnits) /\ Len(kept) = z - n /\ gone \in Seq(AllUnits)
      BY <2>2
    <3>2. 1 \in 1 .. Len(b) + 1 /\ n \in 1 - 1 .. Len(b) /\ Len(b) \in n .. Len(b)
      BY <2>2
    <3>3. SubSeq(b, 1, n) \o SubSeq(b, n + 1, Len(b)) = SubSeq(b, 1, Len(b))
      BY <2>2, <3>2, ConcatAdjacentSubSeq
    <3>4. SubSeq(b, 1, Len(b)) = b
      BY <2>2
    <3> QED
      BY <3>1, <3>3, <3>4
  <2>4. on \in BOOLEAN /\ (on <=> kept # <<>>)
    <3>1. Len(kept) = 0 <=> kept = <<>>
      BY <2>3, EmptySeq
    <3> QED
      BY <2>2, <2>3, <3>1
  <2>5. received' = [received EXCEPT ![c] = received[c] \o gone]
    BY <1>2, <2>1 DEF WorldOK
  <2>6. srv' = [srv EXCEPT !.buf = [srv.buf EXCEPT ![c] = kept], !.armed = [srv.armed EXCEPT ![c] = on]]
    BY <1>2, <2>1 DEF Srv, Written
  <2> HIDE DEF b, z, kept, gone, on
  <2>7. /\ [srv.buf EXCEPT ![c] = kept] \in [Clients -> Seq(AllUnits)]
        /\ [srv.armed EXCEPT ![c] = on] \in [Clients -> BOOLEAN]
    BY <1>2, <2>3, <2>4 DEF Srv
  <2>8. /\ srv' \in Srv /\ srv'.list = srv.list /\ srv'.subs = srv.subs
        /\ srv'.buf = [srv.buf EXCEPT ![c] = kept] /\ srv'.armed = [srv.armed EXCEPT ![c] = on]
        /\ srv'.size = srv.size /\ srv'.pending = srv.pending /\ srv'.misused = srv.misused
    BY <1>2, <2>6, <2>7 DEF Srv
  <2>9. Connected(srv') = Connected(srv)
    BY <2>8 DEF Connected
  <2>10. ASSUME NEW d \in Clients, d # c
         PROVE  srv'.buf[d] = srv.buf[d] /\ (srv'.armed[d] <=> srv.armed[d]) /\ received'[d] = received[d]
    BY <1>2, <2>5, <2>8, <2>10 DEF Srv, WorldOK
  <2>11. srv'.buf[c] = kept /\ (srv'.armed[c] <=> on) /\ received'[c] = received[c] \o gone
    BY <1>2, <2>5, <2>8 DEF Srv, WorldOK
  <2>12. ASSUME NEW d \in Clients
         PROVE  /\ QueueOK(srv', d)
                /\ d \notin Connected(srv') =>
                     srv'.buf[d] = <<>> /\ srv'.subs[d] = {} /\ srv'.pending[d] = None
    <3>1. CASE d = c
      <4>1. Len(kept) < srv.size[c]
        <5>1. srv.size[c] \in Nat /\ z < srv.size[c]
          BY <1>2, <2>2 DEF QueueOK, Srv, z, b
        <5> QED
          BY <2>2, <2>3, <5>1
      <4>2. QueueOK(srv', c)
        BY <2>2, <2>4, <2>8, <2>11, <4>1 DEF QueueOK
      <4> QED
        BY <1>1, <2>9, <3>1, <4>2
    <3>2. CASE d # c
      BY <1>2, <2>8, <2>9, <2>10, <3>2 DEF ServerOK, QueueOK
    <3> QED
      BY <3>1, <3>2
  <2>13. ServerOK(srv')
    BY <1>2, <2>8, <2>12 DEF ServerOK
  <2>14. received' \in [Clients -> Seq(AllUnits)]
    <3>1. received[c] \o gone \in Seq(AllUnits)
      BY <2>2, <2>3, ConcatProperties
    <3> QED
      BY <1>2, <2>5, <3>1 DEF WorldOK
  <2>15. WorldOK'
    BY <1>1, <1>2, <1>4, <2>14 DEF WorldOK, environment
  <2>16. ASSUME NEW d \in Clients PROVE ClientOK(d)'
    <3>1. CASE d = c
      BY <1>1, <1>2, <1>4, <2>9, <3>1 DEF ClientOK, environment
    <3>2. CASE d # c
      BY <1>1, <1>2, <1>4, <2>9, <2>10, <3>2 DEF ClientOK, environment
    <3> QED
      BY <3>1, <3>2
  <2>17. Pace'
    <3>1. PICK hh \in [Clients -> Nat] : AllOwe(srv, received, sent, hh) /\ Waits(hh)
      BY DEF IpcInv, Pace
    <3>2. ASSUME NEW d \in Clients PROVE Owes(srv', d, received'[d], sent[d], hh[d])
      <4>1. Owes(srv, d, received[d], sent[d], hh[d])
        BY <3>1 DEF AllOwe
      <4>2. received'[d] \o srv'.buf[d] = received[d] \o srv.buf[d]
        <5>1. CASE d = c
          <6>1. (received[c] \o gone) \o kept = received[c] \o (gone \o kept)
            BY <2>2, <2>3, Regrouped
          <6> QED
            BY <2>3, <2>11, <5>1, <6>1 DEF b
        <5>2. CASE d # c
          BY <2>10, <5>2
        <5> QED
          BY <5>1, <5>2
      <4> QED
        BY <2>9, <4>1, <4>2 DEF Owes
    <3>3. AllOwe(srv', received', sent', hh)
      BY <1>1, <3>2 DEF AllOwe, environment
    <3>4. ASSUME NEW d \in Connected(srv')
          PROVE  Backlog(inbox'[d], sent'[d], unsent'[d], srv'.pending[d], hh[d])
      BY <1>1, <1>4, <2>8, <2>9, <3>1 DEF Waits, environment
    <3> QED
      BY <3>1, <3>3, <3>4 DEF Pace, Waits
  <2> QED
    BY <2>13, <2>15, <2>16, <2>17 DEF IpcInv
<1> QED
  BY <1>3, <1>4 DEF HandleWritable

LEMMA CompositorEventKeeps ==
  ASSUME IpcInv, CompositorEvent
  PROVE  IpcInv'
<1>1. ServerOK(srv) /\ srv \in Srv /\ WorldOK
  BY DEF IpcInv, ServerOK
<1>2. PICK hh \in [Clients -> Nat] : AllOwe(srv, received, sent, hh) /\ Waits(hh)
  BY DEF IpcInv, Pace
<1>3. ServerOK(srv') /\ AllOwe(srv', received, sent, hh) /\ Shrinks(srv, srv')
  <2> DEFINE t == SendEvent(srv, "window")
  <2>1. "window" \in Events /\ received \in [Clients -> Seq(AllUnits)] /\ sent \in [Clients -> Seq(AllKinds)]
    BY <1>1 DEF Events, WorldOK
  <2>2. ServerOK(t) /\ AllOwe(t, received, sent, hh) /\ Shrinks(srv, t)
    BY <1>1, <1>2, <2>1, EventOwes
  <2>3. srv' = t
    BY DEF CompositorEvent
  <2> HIDE DEF t
  <2> QED
    BY <2>2, <2>3
<1>4. Connected(srv') \in SUBSET Clients
  BY <1>3, ConnectedIs DEF ServerOK
<1>5. Connected(srv') \subseteq Connected(srv)
  BY <1>3, <1>4 DEF Shrinks
<1>6. ASSUME NEW d \in Connected(srv')
      PROVE  Backlog(inbox[d], sent[d], unsent[d], srv'.pending[d], hh[d])
  <2>1. d \in Clients /\ d \in Connected(srv) /\ srv'.pending[d] = srv.pending[d]
    BY <1>3, <1>4, <1>5 DEF Shrinks
  <2> QED
    BY <1>2, <2>1 DEF Waits
<1>7. /\ inbox \in [Clients -> Seq(Parts)] /\ Inbox(inbox) /\ up' \in BOOLEAN
      /\ UNCHANGED <<environment, received>>
  BY <1>1 DEF WorldOK, CompositorEvent
<1>8. emitted' \in Seq(Events)
  <2>1. emitted \in Seq(Events) /\ "window" \in Events
    BY <1>1 DEF WorldOK, Events
  <2> QED
    BY <2>1 DEF CompositorEvent
<1> QED
  BY <1>2, <1>3, <1>5, <1>6, <1>7, <1>8, ServerKeeps

LEMMA HandleDisplayDestroyKeeps ==
  ASSUME IpcInv, HandleDisplayDestroy
  PROVE  IpcInv'
<1>1. ServerOK(srv) /\ srv \in Srv /\ WorldOK
  BY DEF IpcInv, ServerOK
<1>2. PICK hh \in [Clients -> Nat] : AllOwe(srv, received, sent, hh) /\ Waits(hh)
  BY DEF IpcInv, Pace
<1>3. /\ srv'.list = <<>> /\ srv'.subs = [c \in Clients |-> {}] /\ srv'.buf = [c \in Clients |-> <<>>]
      /\ srv'.armed = [c \in Clients |-> FALSE] /\ srv'.pending = [c \in Clients |-> None]
      /\ srv'.size = srv.size /\ srv' \in Srv
  <2> DEFINE subs == [c \in Clients |-> {}]
             buf == [c \in Clients |-> <<>>]
             armed == [c \in Clients |-> FALSE]
             pending == [c \in Clients |-> None]
  <2>1. /\ <<>> \in Seq(Clients) /\ subs \in [Clients -> SUBSET Events] /\ buf \in [Clients -> Seq(AllUnits)]
        /\ armed \in [Clients -> BOOLEAN] /\ pending \in [Clients -> AllKinds \cup {None}]
    OBVIOUS
  <2>2. srv' = [srv EXCEPT !.list = <<>>, !.subs = subs, !.buf = buf, !.armed = armed, !.pending = pending]
    BY DEF HandleDisplayDestroy
  <2> HIDE DEF subs, buf, armed, pending
  <2>3. /\ srv'.list = <<>> /\ srv'.subs = subs /\ srv'.buf = buf
        /\ srv'.armed = armed /\ srv'.pending = pending
        /\ srv'.size = srv.size /\ srv' \in Srv
    BY <1>1, <2>1, <2>2 DEF Srv
  <2> QED
    BY <2>3 DEF subs, buf, armed, pending
<1>4. Connected(srv') = {}
  BY <1>3 DEF Connected, ToSet
<1>5. ASSUME NEW c \in Clients PROVE QueueOK(srv', c)
  <2>1. QueueOK(srv, c) /\ srv.size[c] \in Nat /\ Len(<<>>) = 0
    BY <1>1 DEF ServerOK, Srv
  <2> QED
    BY <1>3, <2>1 DEF QueueOK
<1>6. ServerOK(srv')
  BY <1>3, <1>5 DEF ServerOK, NoRepeats
<1>7. AllOwe(srv', received, sent, hh)
  <2>1. ASSUME NEW c \in Clients PROVE Owes(srv', c, received[c], sent[c], hh[c])
    <3>1. received[c] \in Seq(AllUnits) /\ sent[c] \in Seq(AllKinds) /\ Owes(srv, c, received[c], sent[c], hh[c])
      BY <1>1, <1>2 DEF AllOwe, WorldOK
    <3> QED
      BY <1>1, <1>4, <1>6, <3>1, OwesGone
  <2> QED
    BY <2>1 DEF AllOwe
<1>8. /\ inbox \in [Clients -> Seq(Parts)] /\ Inbox(inbox) /\ up' \in BOOLEAN
      /\ UNCHANGED <<environment, received>> /\ emitted' \in Seq(Events)
  BY <1>1 DEF WorldOK, HandleDisplayDestroy
<1>9. /\ Connected(srv') \subseteq Connected(srv)
      /\ \A c \in Connected(srv') : Backlog(inbox[c], sent[c], unsent[c], srv'.pending[c], hh[c])
  BY <1>4
<1> QED
  BY <1>2, <1>6, <1>7, <1>8, <1>9, ServerKeeps

\* A client sends: the requests and what waits in its socket grow together.
LEMMA ClientKeeps ==
  ASSUME IpcInv, NEW c \in Connected(srv), peer[c] = "here",
         NEW req \in Seq(AllKinds), NEW rest \in Nat, NEW box \in Seq(Parts),
         sent' = [sent EXCEPT ![c] = req], unsent' = [unsent EXCEPT ![c] = rest],
         inbox' = [inbox EXCEPT ![c] = box], UNCHANGED <<srv, up, peer, received, emitted>>,
         rest > 0 => req # <<>> /\ rest <= PayloadLen[req[Len(req)]],
         NEW hh \in [Clients -> Nat], Waits(hh),
         AllOwe(srv, received, sent, hh), Owes(srv, c, received[c], req, hh[c]),
         Backlog(box, req, rest, srv.pending[c], hh[c])
  PROVE  IpcInv'
<1>1. ServerOK(srv) /\ srv \in Srv /\ WorldOK /\ c \in Clients /\ \A d \in Clients : ClientOK(d)
  BY ConnectedIs DEF IpcInv, ServerOK
<1>2. /\ sent'[c] = req /\ unsent'[c] = rest /\ inbox'[c] = box
      /\ \A d \in Clients \ {c} : sent'[d] = sent[d] /\ unsent'[d] = unsent[d] /\ inbox'[d] = inbox[d]
  BY <1>1 DEF WorldOK
<1>3. /\ sent' \in [Clients -> Seq(AllKinds)] /\ unsent' \in [Clients -> Nat]
      /\ inbox' \in [Clients -> Seq(Parts)]
  BY <1>1 DEF WorldOK
<1>4. WorldOK'
  BY <1>1, <1>3 DEF WorldOK
<1>5. ASSUME NEW d \in Clients PROVE ClientOK(d)'
  <2>1. CASE d = c
    BY <1>1, <1>2, <2>1 DEF ClientOK
  <2>2. CASE d # c
    BY <1>1, <1>2, <2>2 DEF ClientOK
  <2> QED
    BY <2>1, <2>2
<1>6. AllOwe(srv, received, sent', hh)
  BY <1>2 DEF AllOwe
<1>7. ASSUME NEW d \in Connected(srv)
      PROVE  Backlog(inbox'[d], sent'[d], unsent'[d], srv.pending[d], hh[d])
  <2>1. d \in Clients
    BY <1>1, ConnectedIs
  <2>2. CASE d = c
    BY <1>2, <2>2
  <2>3. CASE d # c
    BY <1>2, <2>1, <2>3 DEF Waits
  <2> QED
    BY <2>2, <2>3
<1>8. Pace'
  BY <1>6, <1>7 DEF Pace, Waits
<1> QED
  BY <1>1, <1>4, <1>5, <1>8 DEF IpcInv

LEMMA ClientSendKeeps ==
  ASSUME IpcInv, NEW c \in Clients, NEW k \in Kinds[c], ClientSend(c, k)
  PROVE  IpcInv'
<1>1. WorldOK /\ ServerOK(srv) /\ srv \in Srv /\ c \in Connected(srv) /\ peer[c] = "here" /\ unsent[c] = 0
  BY DEF IpcInv, ServerOK, ClientSend
<1>2. k \in AllKinds
  BY ServerAssumption
<1>3. PICK hh \in [Clients -> Nat] : AllOwe(srv, received, sent, hh) /\ Waits(hh)
  BY DEF IpcInv, Pace
<1> DEFINE req == Append(sent[c], k)
           rest == PayloadLen[k]
           box == Append(inbox[c], [of |-> k, part |-> 0])
<1>4. sent[c] \in Seq(AllKinds) /\ inbox[c] \in Seq(Parts) /\ received[c] \in Seq(AllUnits) /\ srv.buf[c] \in Seq(AllUnits)
  BY <1>1 DEF WorldOK, Srv
<1>5. /\ req \in Seq(AllKinds) /\ req # <<>> /\ req[Len(req)] = k
      /\ rest \in 0 .. 2 /\ rest \in Nat
  BY <1>2, <1>4, PayloadIs
<1>6. box \in Seq(Parts) /\ Backlog(box, req, rest, srv.pending[c], hh[c])
  <2>1. Backlog(inbox[c], sent[c], 0, srv.pending[c], hh[c]) /\ hh[c] \in Nat
    BY <1>1, <1>3 DEF Waits
  <2> QED
    BY <1>2, <1>4, <2>1, BacklogSend
<1>7. Owes(srv, c, received[c], req, hh[c])
  <2>1. Owed(c \in Connected(srv), received[c] \o srv.buf[c], sent[c], hh[c])
    BY <1>3 DEF AllOwe, Owes
  <2>2. received[c] \o srv.buf[c] \in Seq(AllUnits)
    BY <1>4
  <2>3. Owed(TRUE, received[c] \o srv.buf[c], sent[c], hh[c])
    BY <1>1, <2>1 DEF Owed, FramedIn
  <2>4. Owed(TRUE, received[c] \o srv.buf[c], req, hh[c])
    BY <1>2, <1>4, <2>2, <2>3, OwedMore
  <2> HIDE DEF req
  <2> QED
    BY <1>1, <2>4 DEF Owes, Owed, FramedIn
<1>8. /\ sent' = [sent EXCEPT ![c] = req] /\ unsent' = [unsent EXCEPT ![c] = rest]
      /\ inbox' = [inbox EXCEPT ![c] = box] /\ UNCHANGED <<srv, up, peer, received, emitted>>
  BY DEF ClientSend
<1>9. rest > 0 => req # <<>> /\ rest <= PayloadLen[req[Len(req)]]
  BY <1>5
<1> HIDE DEF req, rest, box
<1> QED
  BY <1>1, <1>3, <1>5, <1>6, <1>7, <1>8, <1>9, ClientKeeps

LEMMA ClientSendPayloadKeeps ==
  ASSUME IpcInv, NEW c \in Clients, ClientSendPayload(c)
  PROVE  IpcInv'
<1>1. /\ WorldOK /\ ServerOK(srv) /\ srv \in Srv /\ c \in Connected(srv) /\ peer[c] = "here" /\ unsent[c] > 0
      /\ ClientOK(c)
  BY DEF IpcInv, ServerOK, ClientSendPayload
<1>2. PICK hh \in [Clients -> Nat] : AllOwe(srv, received, sent, hh) /\ Waits(hh)
  BY DEF IpcInv, Pace
<1> DEFINE req == sent[c]
           k == req[Len(req)]
           rest == unsent[c] - 1
           box == Append(inbox[c], [of |-> k, part |-> PayloadLen[k] - unsent[c] + 1])
<1>3. /\ req \in Seq(AllKinds) /\ inbox[c] \in Seq(Parts) /\ unsent[c] \in Nat \ {0}
      /\ req # <<>> /\ unsent[c] <= PayloadLen[k]
  BY <1>1 DEF WorldOK, ClientOK
<1>4. k \in AllKinds /\ PayloadLen[k] \in 0 .. 2 /\ rest \in Nat /\ rest <= PayloadLen[k]
  <2>1. k \in AllKinds
    BY <1>3
  <2>2. PayloadLen[k] \in 0 .. 2
    BY <2>1, PayloadIs
  <2> QED
    BY <1>3, <2>1, <2>2
<1>5. box \in Seq(Parts) /\ Backlog(box, req, rest, srv.pending[c], hh[c])
  <2>1. Backlog(inbox[c], req, unsent[c], srv.pending[c], hh[c]) /\ hh[c] \in Nat
    BY <1>1, <1>2 DEF Waits
  <2> QED
    BY <1>3, <2>1, BacklogPayload
<1>6. /\ sent' = [sent EXCEPT ![c] = req] /\ unsent' = [unsent EXCEPT ![c] = rest]
      /\ inbox' = [inbox EXCEPT ![c] = box] /\ UNCHANGED <<srv, up, peer, received, emitted>>
  <2>1. Last(sent[c]) = k
    BY DEF Last
  <2> QED
    BY <1>1, <2>1 DEF ClientSendPayload, WorldOK
<1>7. Owes(srv, c, received[c], req, hh[c])
  BY <1>2 DEF AllOwe
<1>8. rest > 0 => req # <<>> /\ rest <= PayloadLen[req[Len(req)]]
  BY <1>3, <1>4
<1> HIDE DEF req, rest, box
<1> QED
  BY <1>1, <1>2, <1>3, <1>4, <1>5, <1>6, <1>7, <1>8, ClientKeeps

LEMMA ClientLeaveKeeps ==
  ASSUME IpcInv, NEW c \in Clients, ClientLeave(c)
  PROVE  IpcInv'
<1>1. /\ peer[c] = "here" /\ peer' = [peer EXCEPT ![c] = "gone"]
      /\ UNCHANGED <<srv, up, sent, unsent, inbox, received, emitted>>
  BY DEF ClientLeave
<1>2. WorldOK /\ ServerOK(srv) /\ (\A d \in Clients : ClientOK(d)) /\ Pace
  BY DEF IpcInv
<1>3. WorldOK'
  BY <1>1, <1>2 DEF WorldOK
<1>4. \A d \in Clients : peer'[d] = "away" => peer[d] = "away"
  BY <1>1, <1>2 DEF WorldOK
<1>5. \A d \in Clients : ClientOK(d)'
  BY <1>1, <1>2, <1>4 DEF ClientOK
<1>6. Pace' /\ ServerOK(srv')
  BY <1>1, <1>2 DEF Pace, Waits
<1> QED
  BY <1>3, <1>5, <1>6 DEF IpcInv

LEMMA IpcNext == IpcInv /\ [Next]_vars => IpcInv'
<1> SUFFICES ASSUME IpcInv, [Next]_vars PROVE IpcInv'
  OBVIOUS
<1>1. CASE UNCHANGED vars
  BY <1>1 DEF vars, IpcInv, WorldOK, ClientOK, Pace, Waits
<1>2. ASSUME NEW c \in Clients, HandleConnection(c) PROVE IpcInv'
  BY <1>2, HandleConnectionKeeps
<1>3. ASSUME NEW c \in Clients, HandleReadable(c) PROVE IpcInv'
  BY <1>3, HandleReadableKeeps
<1>4. ASSUME NEW c \in Clients, HandleWritable(c) PROVE IpcInv'
  BY <1>4, HandleWritableKeeps
<1>5. ASSUME NEW c \in Clients, NEW k \in Kinds[c], ClientSend(c, k) PROVE IpcInv'
  BY <1>5, ClientSendKeeps
<1>6. ASSUME NEW c \in Clients, ClientSendPayload(c) PROVE IpcInv'
  BY <1>6, ClientSendPayloadKeeps
<1>7. ASSUME NEW c \in Clients, ClientLeave(c) PROVE IpcInv'
  BY <1>7, ClientLeaveKeeps
<1>8. CASE CompositorEvent
  BY <1>8, CompositorEventKeeps
<1>9. CASE HandleDisplayDestroy
  BY <1>9, HandleDisplayDestroyKeeps
<1> QED
  BY <1>1, <1>2, <1>3, <1>4, <1>5, <1>6, <1>7, <1>8, <1>9 DEF Next

\* The invariant holds in every state of the server.
THEOREM ClientsStaySound == Spec => []IpcInv
<1> QED
  BY IpcInit, IpcNext, PTL DEF Spec

LEMMA SoundInStep == IpcInv => ClientsInStep
<1> SUFFICES ASSUME IpcInv PROVE ClientsInStep
  OBVIOUS
<1>1. /\ ServerOK(srv) /\ srv \in Srv /\ WorldOK /\ NoRepeats(srv.list) /\ \A c \in Clients : ClientOK(c)
  BY DEF IpcInv, ServerOK
<1>2. PICK hh \in [Clients -> Nat] : AllOwe(srv, received, sent, hh)
  BY DEF IpcInv, Pace
<1>3. TypeOK
  <2>1. srv.list \in Seq(Clients) /\ IsInjective(srv.list) /\ srv.misused \in BOOLEAN
    <3>1. srv.list \in Seq(Clients) /\ srv.misused \in BOOLEAN
      BY <1>1 DEF Srv
    <3>2. DOMAIN srv.list = 1 .. Len(srv.list)
      BY <3>1
    <3> QED
      BY <1>1, <3>1, <3>2 DEF NoRepeats, IsInjective
  <2>2. ASSUME NEW c \in Clients
        PROVE  /\ peer[c] \in {"away", "here", "gone"}
               /\ srv.subs[c] \subseteq Events
               /\ srv.pending[c] \in AllKinds \cup {None}
               /\ srv.buf[c] \in Seq(AllUnits) /\ received[c] \in Seq(AllUnits)
               /\ c \notin Connected(srv) =>
                    srv.buf[c] = <<>> /\ ~srv.armed[c] /\ srv.subs[c] = {} /\ inbox[c] = <<>>
    <3>1. /\ peer[c] \in {"away", "here", "gone"}
          /\ srv.subs[c] \subseteq Events
          /\ srv.pending[c] \in AllKinds \cup {None}
          /\ srv.buf[c] \in Seq(AllUnits) /\ received[c] \in Seq(AllUnits)
      BY <1>1 DEF Srv, WorldOK
    <3>2. c \notin Connected(srv) => srv.buf[c] = <<>> /\ srv.subs[c] = {} /\ inbox[c] = <<>>
      BY <1>1 DEF ServerOK, ClientOK
    <3>3. QueueOK(srv, c)
      BY <1>1 DEF ServerOK
    <3> QED
      BY <3>1, <3>2, <3>3 DEF QueueOK
  <2>3. up \in BOOLEAN
    BY <1>1 DEF WorldOK
  <2> QED
    BY <2>1, <2>2, <2>3 DEF TypeOK
<1>4. ASSUME NEW c \in Clients
      PROVE  /\ Stream(c) \in Seq(AllUnits) /\ DOMAIN Stream(c) = 1 .. Len(Stream(c))
             /\ FramedIn(Stream(c), c \in Connected(srv)) /\ InOrder(Stream(c), sent[c])
  <2>1. received[c] \in Seq(AllUnits) /\ srv.buf[c] \in Seq(AllUnits)
    BY <1>1 DEF Srv, WorldOK
  <2>2. Stream(c) \in Seq(AllUnits)
    BY <2>1 DEF Stream
  <2>3. Owed(c \in Connected(srv), Stream(c), sent[c], hh[c])
    BY <1>2 DEF AllOwe, Owes, Stream
  <2> QED
    BY <2>2, <2>3 DEF Owed
<1>5. Framed
  BY <1>4 DEF Framed, FramedIn
<1>6. RepliesInOrder
  BY <1>4 DEF RepliesInOrder, InOrder, Heads
<1>7. WritableArmed /\ BufferFits
  <2>1. ASSUME NEW c \in Connected(srv) PROVE QueueOK(srv, c)
    BY <1>1, ConnectedIs DEF ServerOK
  <2> QED
    BY <2>1 DEF WritableArmed, BufferFits, QueueOK
<1> QED
  BY <1>3, <1>5, <1>6, <1>7 DEF ClientsInStep

\* A client and the server stay in step, whatever is sent, read and written in
\* whatever pieces, and whoever leaves or reads too slowly (ipc-server.c).
THEOREM ClientsKeepInStep == Spec => []ClientsInStep
<1> QED
  BY ClientsStaySound, SoundInStep, PTL

------------------------------------------------------------------------------
(***************************************************************************)
(* Events reach their listeners.                                           *)
(***************************************************************************)

\* A buffer that doubles for a and then for more than that is as large as one that
\* doubles for all of it at once.
LEMMA DoublesGrow ==
  ASSUME NEW z \in Nat, NEW n \in Nat, NEW w, Doubles(w, z, n)
  PROVE  \A i \in 0 .. n : \A j \in 0 .. i : w[j] <= w[i]
<1> DEFINE G == {i \in 0 .. n : \A j \in 0 .. i : w[j] <= w[i]}
<1>1. 0 \in G
  BY DEF Doubles
<1>2. ASSUME NEW i \in 1 .. n, i - 1 \in G PROVE i \in G
  <2>1. w[i] = 2 * w[i - 1] /\ w[i - 1] \in Nat /\ w[i] \in Nat
    BY DEF Doubles
  <2>2. w[i - 1] <= w[i]
    BY <2>1
  <2>3. ASSUME NEW j \in 0 .. i PROVE w[j] <= w[i]
    <3>1. w[j] \in Nat
      BY DEF Doubles
    <3>2. CASE j = i
      BY <2>1, <3>2
    <3>3. CASE j # i
      <4>1. w[j] <= w[i - 1]
        BY <1>2, <3>3
      <4> QED
        BY <2>1, <2>2, <3>1, <4>1
    <3> QED
      BY <3>2, <3>3
  <2> QED
    BY <2>3
<1> HIDE DEF G
<1>3. \A i \in 0 .. n : i \in G
  BY <1>1, <1>2, Counting
<1> QED
  BY <1>3 DEF G

\* Two such walks agree as far as both go.
Meets(w, z, n, v, x, m, d) ==
  n \in Nat /\ m \in Nat /\ Doubles(w, z, n) /\ Doubles(v, x, m) /\ d \in 0 .. n /\ x = w[d]
Agree(w, n, v, m, d) == \A i \in 0 .. m : i + d <= n => v[i] = w[i + d]

LEMMA DoublesAgree ==
  ASSUME NEW w, NEW z, NEW n, NEW v, NEW x, NEW m, NEW d, Meets(w, z, n, v, x, m, d)
  PROVE  Agree(w, n, v, m, d)
<1>0. n \in Nat /\ m \in Nat /\ Doubles(w, z, n) /\ Doubles(v, x, m) /\ d \in 0 .. n /\ x = w[d]
  BY DEF Meets
<1> DEFINE G == {i \in 0 .. m : i + d <= n => v[i] = w[i + d]}
<1>1. 0 \in G
  BY <1>0 DEF Doubles
<1>2. ASSUME NEW i \in 1 .. m, i - 1 \in G PROVE i \in G
  <2>1. v[i] = 2 * v[i - 1]
    BY <1>0 DEF Doubles
  <2>2. ASSUME i + d <= n PROVE v[i] = w[i + d]
    <3>1. i + d \in 1 .. n /\ (i + d) - 1 = (i - 1) + d /\ (i - 1) + d <= n
      BY <1>0, <2>2
    <3>2. w[i + d] = 2 * w[(i + d) - 1]
      BY <1>0, <3>1 DEF Doubles
    <3> QED
      BY <1>2, <2>1, <3>1, <3>2
  <2> QED
    BY <2>2
<1> HIDE DEF G
<1>3. \A i \in 0 .. m : i \in G
  BY <1>0, <1>1, <1>2, Counting
<1> QED
  BY <1>3 DEF Agree, G

LEMMA GrownTwice ==
  ASSUME NEW z \in Nat \ {0}, NEW a \in Nat, NEW b \in Nat, a <= b
  PROVE  Grown(Grown(z, a), b) <= Grown(z, b) /\ Grown(z, a) <= Grown(z, b)
<1>1. PICK w, k : /\ Doubles(w, z, b) /\ k \in 0 .. b /\ Grown(z, b) = w[k] /\ b < w[k]
                  /\ \A j \in 0 .. k - 1 : w[j] <= b
  BY GrownIs
<1>2. PICK v, h : /\ Doubles(v, z, a) /\ h \in 0 .. a /\ Grown(z, a) = v[h] /\ a < v[h]
                  /\ \A j \in 0 .. h - 1 : v[j] <= a
  BY GrownIs
<1> DEFINE x == Grown(z, a)
<1>3. x \in Nat \ {0} /\ x > a
  BY GrownFits
<1>4. PICK u, l : /\ Doubles(u, x, b) /\ l \in 0 .. b /\ Grown(x, b) = u[l] /\ b < u[l]
                  /\ \A j \in 0 .. l - 1 : u[j] <= b
  BY <1>3, GrownIs
<1> HIDE DEF x
<1>5. w[0] = z /\ 0 \in 0 .. b
  BY <1>1 DEF Doubles
<1>6. \A i \in 0 .. a : v[i] = w[i]
  <2>1. \A i \in 0 .. a : i + 0 <= b => v[i] = w[i + 0]
    <3>1. Meets(w, z, b, v, z, a, 0)
      BY <1>1, <1>2, <1>5 DEF Meets
    <3>2. Agree(w, b, v, a, 0)
      BY <3>1, DoublesAgree
    <3> QED
      BY <3>2 DEF Agree
  <2>2. \A i \in 0 .. a : i + 0 = i /\ i <= b
    OBVIOUS
  <2> QED
    BY <2>1, <2>2
<1>7. x = w[h] /\ h \in 0 .. b
  BY <1>2, <1>6 DEF x
<1>8. h <= k
  <2>1. CASE k < h
    <3>1. k \in 0 .. h - 1 /\ k \in 0 .. a
      BY <1>1, <1>2, <2>1
    <3>2. w[k] <= a
      BY <1>2, <1>6, <3>1
    <3>3. w[k] \in Nat
      BY <1>1 DEF Doubles
    <3> QED
      BY <1>1, <3>2, <3>3
  <2> QED
    BY <1>1, <1>2, <2>1
<1>9. x <= w[k]
  <2>1. h \in 0 .. k
    BY <1>1, <1>2, <1>8
  <2> QED
    BY <1>1, <1>7, <2>1, DoublesGrow
<1>10. \A i \in 0 .. b : i + h <= b => u[i] = w[i + h]
  <2>1. Meets(w, z, b, u, x, b, h)
    BY <1>1, <1>4, <1>7 DEF Meets
  <2>2. Agree(w, b, u, b, h)
    BY <2>1, DoublesAgree
  <2> QED
    BY <2>2 DEF Agree
<1>11. k - h \in 0 .. b /\ (k - h) + h = k
  BY <1>1, <1>2, <1>8
<1>12. u[k - h] = w[k]
  BY <1>1, <1>10, <1>11
<1>13. l <= k - h
  <2>1. CASE k - h < l
    <3>1. k - h \in 0 .. l - 1
      BY <1>4, <1>11, <2>1
    <3>2. w[k] <= b /\ w[k] \in Nat
      BY <1>1, <1>4, <1>12, <3>1 DEF Doubles
    <3> QED
      BY <1>1, <3>2
  <2> QED
    BY <1>4, <1>11, <2>1
<1>14. u[l] <= u[k - h]
  <2>1. l \in 0 .. k - h
    BY <1>4, <1>13
  <2> QED
    BY <1>3, <1>4, <1>11, <2>1, DoublesGrow
<1> QED
  BY <1>1, <1>4, <1>9, <1>12, <1>14 DEF x

\* How many events a message adds to a stream.
LEMMA CountIs ==
  ASSUME NEW units \in Seq(AllUnits), NEW e \in Events
  PROVE  /\ Count(e, units) \in Nat
         /\ \A m \in Messages :
              Count(e, units \o Units(m)) = Count(e, units) + (IF m = Event(e) THEN 1 ELSE 0)
<1> DEFINE n == Len(units)
           Found(q, i) == q[i].part = 1 /\ q[i].msg = Event(e)
           In(q) == {i \in DOMAIN q : Found(q, i)}
<1>1. n \in Nat /\ DOMAIN units = 1 .. n
  OBVIOUS
<1>2. IsFiniteSet(In(units)) /\ Cardinality(In(units)) \in Nat
  <2>1. IsFiniteSet(1 .. n)
    BY <1>1, FS_Interval
  <2>2. In(units) \in SUBSET (1 .. n)
    BY <1>1
  <2> HIDE DEF In
  <2>3. IsFiniteSet(In(units))
    BY <2>1, <2>2, FS_Subset
  <2> QED
    BY <2>3, FS_CardinalityType
<1>3. ASSUME NEW m \in Messages
      PROVE  Count(e, units \o Units(m)) = Count(e, units) + (IF m = Event(e) THEN 1 ELSE 0)
  <2> DEFINE k == MsgLen(m)
             more == units \o Units(m)
  <2>1. /\ Units(m) \in Seq(AllUnits) /\ Len(Units(m)) = k
        /\ \A i \in 1 .. k : Units(m)[i].msg = m /\ Units(m)[i].part = i
    BY UnitsAre
  <2>2. k \in {2, 4}
    BY MessagesAre
  <2>3. /\ more \in Seq(AllUnits) /\ Len(more) = n + Len(Units(m))
        /\ \A i \in 1 .. n + Len(Units(m)) : more[i] = IF i <= n THEN units[i] ELSE Units(m)[i - n]
    BY <2>1, ConcatProperties, Zenon
  <2> HIDE DEF more, k, n
  <2>4. /\ DOMAIN more = 1 .. n + k /\ \A i \in 1 .. n : more[i] = units[i]
    BY <1>1, <2>1, <2>2, <2>3
  <2>5. \A i \in n + 1 .. n + k : more[i].msg = m /\ more[i].part = i - n
    <3>1. ASSUME NEW i \in n + 1 .. n + k PROVE more[i].msg = m /\ more[i].part = i - n
      <4>1. i \in 1 .. n + k /\ ~(i <= n) /\ i - n \in 1 .. k
        BY <1>1, <2>2
      <4>2. more[i] = Units(m)[i - n]
        BY <2>1, <2>3, <4>1
      <4> QED
        BY <2>1, <4>1, <4>2
    <3> QED
      BY <3>1
  <2>6. \A i \in 1 .. n + k : i \in 1 .. n \/ i \in n + 1 .. n + k
    BY <1>1, <2>2
  <2>7. \A i \in 1 .. n : i \in 1 .. n + k
    BY <1>1, <2>2
  <2>8. n + 1 \in n + 1 .. n + k /\ n + 1 \in 1 .. n + k /\ n + 1 \notin 1 .. n
    BY <1>1, <2>2
  <2>9. \A i \in n + 1 .. n + k : i - n = 1 <=> i = n + 1
    BY <1>1, <2>2
  <2>10. CASE m = Event(e)
    <3>1. ASSUME NEW i \in In(more) PROVE i \in In(units) \cup {n + 1}
      <4>1. i \in 1 .. n + k /\ Found(more, i)
        BY <2>4
      <4>2. CASE i \in 1 .. n
        BY <1>1, <2>4, <4>1, <4>2
      <4>3. CASE i \in n + 1 .. n + k
        BY <2>5, <2>9, <4>1, <4>3
      <4> QED
        BY <2>6, <4>1, <4>2, <4>3
    <3>2. ASSUME NEW i \in In(units) PROVE i \in In(more)
      BY <1>1, <2>4, <2>7
    <3>3. n + 1 \in In(more)
      BY <2>4, <2>5, <2>8, <2>9, <2>10
    <3>4. In(more) = In(units) \cup {n + 1} /\ n + 1 \notin In(units)
      BY <1>1, <2>8, <3>1, <3>2, <3>3
    <3> HIDE DEF In
    <3>5. Cardinality(In(more)) = Cardinality(In(units)) + 1
      BY <1>2, <3>4, FS_AddElement
    <3> QED
      BY <2>10, <3>5 DEF Count, In, Found, more
  <2>11. CASE m # Event(e)
    <3>1. ASSUME NEW i \in In(more) PROVE i \in In(units)
      <4>1. i \in 1 .. n + k /\ Found(more, i)
        BY <2>4
      <4>2. CASE i \in 1 .. n
        BY <1>1, <2>4, <4>1, <4>2
      <4>3. CASE i \in n + 1 .. n + k
        BY <2>5, <2>11, <4>1, <4>3
      <4> QED
        BY <2>6, <4>1, <4>2, <4>3
    <3>2. ASSUME NEW i \in In(units) PROVE i \in In(more)
      BY <1>1, <2>4, <2>7
    <3>3. In(more) = In(units)
      BY <3>1, <3>2
    <3> HIDE DEF In
    <3>4. Cardinality(In(more)) = Cardinality(In(units)) + 0
      BY <1>2, <3>3
    <3> QED
      BY <2>11, <3>4 DEF Count, In, Found, more
  <2> QED
    BY <2>10, <2>11
<1>4. Count(e, units) \in Nat
  BY <1>2 DEF Count
<1> QED
  BY <1>3, <1>4

\* Whether n more units exceed the buffer of c.
Over(s, c, n) == Grown(s.size[c], Len(s.buf[c]) + n) > SizeLimit

\* From s to t an event e reached those who listened for it.
Reached(s, t, c, rec, e) ==
  /\ c \in Connected(t) =>
       Count(e, rec \o t.buf[c]) = Count(e, rec \o s.buf[c]) + (IF e \in s.subs[c] THEN 1 ELSE 0)
  /\ c \in Connected(s) /\ c \notin Connected(t) => Over(s, c, 4)

LEMMA CountGot ==
  ASSUME NEW s, ServerOK(s), NEW t, NEW c \in Clients, NEW m \in Messages, Got(s, t, c, m),
         NEW rec \in Seq(AllUnits), NEW e \in Events
  PROVE  Count(e, rec \o t.buf[c]) = Count(e, rec \o s.buf[c]) + (IF m = Event(e) THEN 1 ELSE 0)
<1>1. s.buf[c] \in Seq(AllUnits) /\ Units(m) \in Seq(AllUnits)
  BY UnitsAre DEF ServerOK, Srv
<1>2. t.buf[c] = s.buf[c] \o Units(m)
  BY DEF Got
<1>3. (rec \o s.buf[c]) \o Units(m) = rec \o (s.buf[c] \o Units(m))
  BY <1>1, Regrouped
<1>4. rec \o s.buf[c] \in Seq(AllUnits)
  BY <1>1
<1> DEFINE units == rec \o s.buf[c]
<1>5. rec \o t.buf[c] = units \o Units(m) /\ units \in Seq(AllUnits)
  BY <1>2, <1>3, <1>4
<1> HIDE DEF units
<1>6. Count(e, units \o Units(m)) = Count(e, units) + (IF m = Event(e) THEN 1 ELSE 0)
  BY <1>5, CountIs
<1> QED
  BY <1>5, <1>6 DEF units

\* Who is lost to an event, or to a short reply after it, had no room for both.
LEMMA LostOver ==
  ASSUME NEW s, ServerOK(s), NEW c \in Clients
  PROVE  /\ \A t : Lost(s, t, c, 2) => Over(s, c, 4)
         /\ \A t, u : \A m \in Messages :
              MsgLen(m) = 2 /\ Got(s, t, c, m) /\ Lost(t, u, c, 2) => Over(s, c, 4)
<1> DEFINE z == s.size[c]
           n == Len(s.buf[c])
<1>1. z \in Nat \ {0} /\ n \in Nat /\ s.buf[c] \in Seq(AllUnits) /\ SizeLimit \in Nat
  <2>1. s.buf[c] \in Seq(AllUnits) /\ s.size[c] \in Nat /\ QueueOK(s, c)
    BY DEF ServerOK, Srv
  <2> QED
    BY <2>1, ServerAssumption DEF QueueOK
<1>2. ASSUME NEW t, NEW m \in Messages, MsgLen(m) = 2, Got(s, t, c, m)
      PROVE  t.size[c] = Grown(z, n + 2) /\ Len(t.buf[c]) = n + 2
  <2>1. Units(m) \in Seq(AllUnits) /\ Len(Units(m)) = 2
    BY <1>2, UnitsAre
  <2>2. Len(s.buf[c] \o Units(m)) = n + 2
    <3>1. s.buf[c] \in Seq(AllUnits)
      BY <1>1
    <3>2. Len(s.buf[c] \o Units(m)) = Len(s.buf[c]) + Len(Units(m))
      BY <2>1, <3>1, ConcatProperties, Zenon
    <3> QED
      BY <2>1, <3>2 DEF n
  <2> QED
    BY <1>2, <2>2 DEF Got
<1>3. \A t : Lost(s, t, c, 2) => Grown(z, n + 2) > SizeLimit
  BY DEF Lost
<1>4. Over(s, c, 4) <=> Grown(z, n + 4) > SizeLimit
  BY DEF Over
<1> HIDE DEF z, n
<1>5. Grown(z, n + 2) \in Nat \ {0} /\ Grown(z, n + 4) \in Nat
  <2>1. n + 2 \in Nat /\ n + 4 \in Nat
    BY <1>1
  <2>2. Grown(z, n + 2) \in Nat /\ Grown(z, n + 2) > n + 2
    BY <1>1, <2>1, GrownFits
  <2>3. Grown(z, n + 4) \in Nat
    BY <1>1, <2>1, GrownFits
  <2> QED
    BY <1>1, <2>2, <2>3
<1>6. Grown(Grown(z, n + 2), n + 4) <= Grown(z, n + 4) /\ Grown(z, n + 2) <= Grown(z, n + 4)
  <2>1. n + 2 \in Nat /\ n + 4 \in Nat /\ n + 2 <= n + 4
    BY <1>1
  <2> QED
    BY <1>1, <2>1, GrownTwice
<1>7. Grown(Grown(z, n + 2), n + 4) \in Nat
  <2>1. n + 4 \in Nat
    BY <1>1
  <2> QED
    BY <1>5, <2>1, GrownFits
<1>8. \A t : Lost(s, t, c, 2) => Over(s, c, 4)
  BY <1>1, <1>3, <1>4, <1>5, <1>6
<1>9. ASSUME NEW t, NEW u, NEW m \in Messages, MsgLen(m) = 2, Got(s, t, c, m), Lost(t, u, c, 2)
      PROVE  Over(s, c, 4)
  <2>1. Grown(t.size[c], Len(t.buf[c]) + 2) > SizeLimit
    BY <1>9 DEF Lost
  <2>2. t.size[c] = Grown(z, n + 2) /\ Len(t.buf[c]) = n + 2 /\ (n + 2) + 2 = n + 4
    BY <1>1, <1>2, <1>9
  <2>3. Grown(Grown(z, n + 2), n + 4) > SizeLimit
    BY <2>1, <2>2
  <2> QED
    BY <1>1, <1>4, <1>5, <1>6, <1>7, <2>3
<1> QED
  BY <1>8, <1>9

LEMMA EventReaches ==
  ASSUME NEW s, ServerOK(s), NEW e \in Events, NEW c \in Clients, NEW rec \in Seq(AllUnits)
  PROVE  Reached(s, SendEvent(s, e), c, rec, e)
<1> DEFINE t == SendEvent(s, e)
<1>1. Told(s, t, c, e)
  BY SendEventIs
<1> HIDE DEF t
<1>2. s.buf[c] \in Seq(AllUnits) /\ rec \o s.buf[c] \in Seq(AllUnits)
  BY DEF ServerOK, Srv
<1>3. Count(e, rec \o s.buf[c]) \in Nat
  BY <1>2, CountIs
<1>4. CASE e \in s.subs[c] /\ Got(s, t, c, Event(e))
  <2>1. Event(e) \in Messages
    BY MessagesAre
  <2>2. Count(e, rec \o t.buf[c]) = Count(e, rec \o s.buf[c]) + 1
    BY <1>4, <2>1, CountGot
  <2>3. c \in Connected(t)
    BY <1>4 DEF Got
  <2> QED
    BY <1>4, <2>2, <2>3 DEF Reached, t
<1>5. CASE e \in s.subs[c] /\ Lost(s, t, c, 2)
  <2>1. Over(s, c, 4) /\ c \notin Connected(t)
    BY <1>5, LostOver DEF Lost
  <2> QED
    BY <2>1 DEF Reached, t
<1>6. CASE e \notin s.subs[c] /\ Same(s, t, c)
  <2>1. t.buf[c] = s.buf[c] /\ (c \in Connected(s) <=> c \in Connected(t))
    BY <1>6 DEF Same
  <2>2. Count(e, rec \o t.buf[c]) = Count(e, rec \o s.buf[c]) + 0
    BY <1>3, <2>1
  <2> QED
    BY <1>6, <2>1, <2>2 DEF Reached, t
<1> QED
  BY <1>1, <1>4, <1>5, <1>6 DEF Told

\* The same with the reply to the request that caused it.
LEMMA ReplyReaches ==
  ASSUME NEW s, ServerOK(s), NEW e \in Events, NEW b \in Clients, NEW m \in Messages, MsgLen(m) = 2,
         m \notin {Event(x) : x \in Events},
         NEW c \in Clients, NEW rec \in Seq(AllUnits)
  PROVE  Reached(s, SendReplyTo(SendEvent(s, e), b, m), c, rec, e)
<1> DEFINE t == SendEvent(s, e)
           u == SendReplyTo(t, b, m)
<1>1. ServerOK(t) /\ Told(s, t, c, e)
  BY SendEventIs
<1>2. Reached(s, t, c, rec, e)
  BY EventReaches
<1> HIDE DEF t
<1>3. /\ \/ Got(t, u, b, m) \/ Lost(t, u, b, 2)
         \/ b \notin Connected(t) /\ b \notin Connected(u)
      /\ \A d \in Clients \ {b} : Same(t, u, d)
  BY <1>1, SendReplyToIs
<1> HIDE DEF u
<1>4. CASE c # b
  <2>1. Same(t, u, c)
    BY <1>3, <1>4
  <2> QED
    BY <1>2, <2>1 DEF Reached, Same, t, u
<1>5. CASE c = b /\ Got(t, u, c, m)
  <2>1. t.buf[c] \in Seq(AllUnits) /\ rec \o t.buf[c] \in Seq(AllUnits)
    BY <1>1 DEF ServerOK, Srv
  <2>2. Count(e, rec \o t.buf[c]) \in Nat
    BY <2>1, CountIs
  <2>3. m # Event(e)
    OBVIOUS
  <2>4. Count(e, rec \o u.buf[c]) = Count(e, rec \o t.buf[c]) + 0
    BY <1>1, <1>5, <2>3, CountGot
  <2>5. Count(e, rec \o u.buf[c]) = Count(e, rec \o t.buf[c])
    BY <2>2, <2>4
  <2>6. c \in Connected(t) /\ c \in Connected(u)
    BY <1>5 DEF Got
  <2> QED
    BY <1>2, <2>5, <2>6 DEF Reached, t, u
<1>6. CASE c = b /\ Lost(t, u, c, 2)
  <2>1. c \in Connected(t) /\ c \notin Connected(u)
    BY <1>6 DEF Lost
  <2>2. CASE Got(s, t, c, Event(e))
    <3>1. Event(e) \in Messages /\ MsgLen(Event(e)) = 2
      BY MessagesAre
    <3>2. Over(s, c, 4)
      BY <1>6, <2>2, <3>1, LostOver
    <3> QED
      BY <2>1, <3>2 DEF Reached, t, u
  <2>3. CASE Same(s, t, c)
    <3>1. Lost(s, u, c, 2)
      BY <1>6, <2>1, <2>3 DEF Lost, Same
    <3>2. Over(s, c, 4)
      BY <3>1, LostOver
    <3> QED
      BY <2>1, <3>2 DEF Reached, t, u
  <2>4. ~Lost(s, t, c, 2)
    BY <2>1 DEF Lost
  <2> QED
    BY <1>1, <2>2, <2>3, <2>4 DEF Told
<1>7. CASE c = b /\ c \notin Connected(t) /\ c \notin Connected(u)
  BY <1>2, <1>7 DEF Reached, t, u
<1> QED
  BY <1>3, <1>4, <1>5, <1>6, <1>7

\* A step that sends an event.
Hears ==
  emitted' # emitted =>
    LET e == Last(emitted')
    IN  /\ \A c \in Connected(srv') :
             Count(e, received'[c] \o srv'.buf[c])
               = Count(e, Stream(c)) + (IF e \in srv.subs[c] THEN 1 ELSE 0)
        /\ \A c \in Connected(srv) \ Connected(srv') : Crowded(c, 4)

LEMMA ReachedHears ==
  ASSUME IpcInv, IpcInv', NEW e \in Events, Last(emitted') = e, received' = received,
         \A c \in Clients : Reached(srv, srv', c, received[c], e)
  PROVE  Hears
<1>1. Connected(srv) \in SUBSET Clients /\ Connected(srv') \in SUBSET Clients
  <2>1. srv \in Srv
    BY DEF IpcInv, ServerOK
  <2>2. srv' \in Srv
    BY DEF IpcInv, ServerOK
  <2> QED
    BY <2>1, <2>2, ConnectedIs
<1>2. ASSUME NEW c \in Connected(srv')
      PROVE  Count(e, received'[c] \o srv'.buf[c])
               = Count(e, Stream(c)) + (IF e \in srv.subs[c] THEN 1 ELSE 0)
  <2>1. Reached(srv, srv', c, received[c], e)
    BY <1>1
  <2> QED
    BY <2>1 DEF Reached, Stream
<1>3. ASSUME NEW c \in Connected(srv) \ Connected(srv') PROVE Crowded(c, 4)
  <2>1. Reached(srv, srv', c, received[c], e)
    BY <1>1
  <2> QED
    BY <2>1 DEF Reached, Over, Crowded
<1> QED
  BY <1>2, <1>3 DEF Hears

LEMMA LastIs ==
  ASSUME NEW q \in Seq(Events), NEW e \in Events
  PROVE  Last(q \o <<e>>) = e /\ Last(Append(q, e)) = e
  BY DEF Last

LEMMA HandleHears ==
  ASSUME IpcInv, IpcInv', NEW c \in Connected(srv), NEW k, NEW n, Handle(c, k, n), received' = received
  PROVE  Hears
<1> DEFINE s == [srv EXCEPT !.pending[c] = None]
<1>1. ServerOK(srv) /\ srv \in Srv /\ WorldOK /\ c \in Clients
  BY ConnectedIs DEF IpcInv, ServerOK
<1>2. PICK es \in Emits(k) : srv' = HandleCommand(s, c, k, es) /\ emitted' = emitted \o es
  BY DEF Handle
<1>3. /\ ServerOK(s) /\ s.list = srv.list /\ s.buf = srv.buf /\ s.subs = srv.subs /\ s.size = srv.size
  BY <1>1, UnpendIs
<1> HIDE DEF s
<1>4. Connected(s) = Connected(srv)
  BY <1>3 DEF Connected
<1>5. CASE es = <<>>
  <2>1. emitted \in Seq(Events)
    BY <1>1 DEF WorldOK
  <2>2. emitted' = emitted
    BY <1>2, <1>5, <2>1
  <2> QED
    BY <2>2 DEF Hears
<1>6. CASE es # <<>>
  <2>1. k \in {"send_tick", "command"} /\ es \in {<<"tick">>, <<"window">>}
    BY <1>6 DEF Emits
  <2>2. PICK e \in Events : es = <<e>>
    BY <2>1 DEF Events
  <2>3. srv' = SendReplyTo(SendEvent(s, e), c, Reply(k))
    <3>1. SendAll(s, es) = SendEvent(s, e)
      BY <1>6, <2>2 DEF SendAll
    <3> QED
      BY <1>2, <2>1, <3>1 DEF HandleCommand
  <2>4. /\ Reply(k) \in Messages /\ MsgLen(Reply(k)) = 2
        /\ Reply(k) \notin {Event(x) : x \in Events}
    <3>1. k \in AllKinds /\ Reply(k) # Reply("get_tree")
      BY <2>1 DEF AllKinds, Reply
    <3> QED
      BY <3>1, MessagesAre DEF MsgLen
  <2>5. ASSUME NEW d \in Clients PROVE Reached(srv, srv', d, received[d], e)
    <3>1. received[d] \in Seq(AllUnits)
      BY <1>1 DEF WorldOK
    <3>2. Reached(s, srv', d, received[d], e)
      BY <1>1, <1>3, <2>3, <2>4, <3>1, ReplyReaches
    <3> QED
      BY <1>3, <1>4, <3>2 DEF Reached, Over
  <2>6. Last(emitted') = e
    <3>1. emitted \in Seq(Events)
      BY <1>1 DEF WorldOK
    <3> QED
      BY <1>2, <2>2, <3>1, LastIs
  <2> QED
    BY <2>5, <2>6, ReachedHears
<1> QED
  BY <1>5, <1>6

LEMMA HearsNext ==
  ASSUME IpcInv, IpcInv', [Next]_vars
  PROVE  Hears
<1>1. CASE emitted' = emitted
  BY <1>1 DEF Hears
<1>2. ASSUME NEW c \in Clients, HandleReadable(c), emitted' # emitted PROVE Hears
  <2>1. c \in Connected(srv) /\ received' = received
    BY <1>2 DEF HandleReadable
  <2>2. \/ Handle(c, srv.pending[c], PayloadLen[srv.pending[c]])
        \/ Handle(c, Head(inbox[c]).of, 1 + PayloadLen[Head(inbox[c]).of])
    BY <1>2 DEF HandleReadable, Drop, ReadPayload, ReadHeader
  <2> QED
    BY <2>1, <2>2, HandleHears
<1>3. CASE CompositorEvent
  <2>1. /\ srv' = SendEvent(srv, "window") /\ emitted' = Append(emitted, "window")
        /\ received' = received /\ "window" \in Events
    BY <1>3 DEF CompositorEvent, Events
  <2>2. ServerOK(srv) /\ received \in [Clients -> Seq(AllUnits)] /\ emitted \in Seq(Events)
    BY DEF IpcInv, WorldOK
  <2>3. ASSUME NEW c \in Clients PROVE Reached(srv, srv', c, received[c], "window")
    <3>1. received[c] \in Seq(AllUnits)
      BY <2>2
    <3> QED
      BY <2>1, <2>2, <3>1, EventReaches
  <2>4. Last(emitted') = "window"
    BY <2>1, <2>2, LastIs
  <2> QED
    BY <2>1, <2>3, <2>4, ReachedHears
<1>4. \/ emitted' = emitted \/ CompositorEvent
      \/ \E c \in Clients : HandleReadable(c) /\ emitted' # emitted
  <2>1. \A c \in Clients : HandleConnection(c) \/ HandleWritable(c) => emitted' = emitted
    BY DEF HandleConnection, HandleWritable, Drop
  <2>2. \A c \in Clients : \A k \in Kinds[c] : ClientSend(c, k) => emitted' = emitted
    BY DEF ClientSend
  <2>3. \A c \in Clients : ClientSendPayload(c) \/ ClientLeave(c) => emitted' = emitted
    BY DEF ClientSendPayload, ClientLeave
  <2>4. HandleDisplayDestroy \/ UNCHANGED vars => emitted' = emitted
    BY DEF HandleDisplayDestroy, vars
  <2> QED
    BY <2>1, <2>2, <2>3, <2>4 DEF Next
<1> QED
  BY <1>1, <1>2, <1>3, <1>4

\* An event reaches every subscriber once and nobody else, whoever is disconnected in
\* the midst of it, and disconnects only who has no room for it (ipc_send_event).
THEOREM ListenersHear == Spec => EveryListenerHears
<1>1. IpcInv /\ IpcInv' /\ [Next]_vars => [Hears]_vars
  BY HearsNext
<1>2. Spec => [][Hears]_vars
  BY <1>1, ClientsStaySound, PTL DEF Spec
<1> QED
  BY <1>2 DEF EveryListenerHears, Hears
==============================================================================
