-------------------------- MODULE FramePathProofs --------------------------
(***************************************************************************)
(* The way of a frame: from the player over local_camera to GenyClient     *)
(* (CameraLink), then into the preview window and to the recorder          *)
(* (FrameDelivery).                                                        *)
(*                                                                         *)
(* The first part is for every number of queries and of players: the link  *)
(* implements the abstract QueryChannel, and frames are whole while no     *)
(* player is lost.  The two inductive invariants are ChannelInv, on the    *)
(* order of what is in the four queues, and WholeInv, on how replies lie   *)
(* in the two on the way to the HAL.  The second part is for every set of  *)
(* windows, dimensions and memory regions: types, the buffers of the       *)
(* preview window and the recorded frames.                                 *)
(***************************************************************************)
EXTENDS CameraLink, FrameDelivery, SequenceTheorems, TLAPS

-----------------------------------------------------------------------------
(* The queues of the link.                                                  *)

\* The units and the queries on the link.
Unit == [id : Nat, part : {"size", "first", "rest"}, units : 0 .. 2]
Query == [id : Nat, kind : Kinds]

\* What the HAL has read of the current reply and what is on its way to it; and the
\* queries that are on their way to the player.
Stream == toHal \o fromPlayer
Backlog == body \o Stream
Waiting == toPlayer \o toProxy

LinkTypes ==
  /\ hpc \in {"idle", "size", "data", "skip"} /\ kind \in Kinds
  /\ asked \in Nat /\ answered \in Nat /\ failures \in Nat /\ losses \in Nat
  /\ want \in Int
  /\ body \in Seq(Unit) /\ toHal \in Seq(Unit) /\ fromPlayer \in Seq(Unit)
  /\ toProxy \in Seq(Query) /\ toPlayer \in Seq(Query)

\* The replies in s and the queries in q are those of queries later than lo and not
\* later than hi, each once and in the order they were asked.
InOrder(lo, s, q, hi) ==
  /\ \A i \in 1 .. Len(s) : s[i].part = "first" => lo < s[i].id /\ s[i].id <= hi
  /\ \A i, j \in 1 .. Len(s) :
       i < j /\ s[i].part = "first" /\ s[j].part = "first" => s[i].id < s[j].id
  /\ \A i \in 1 .. Len(q) : lo < q[i].id /\ q[i].id <= hi
  /\ \A i, j \in 1 .. Len(q) : i < j => q[i].id < q[j].id
  /\ \A i \in 1 .. Len(s), j \in 1 .. Len(q) :
       s[i].part = "first" => s[i].id < q[j].id

\* t is a part of s without a gap, from its unit n + 1 on.
Window(t, s, n) == \A i \in 1 .. Len(t) : i + n \in 1 .. Len(s) /\ t[i] = s[i + n]

\* j is a followed by b.
Joins(j, a, b) ==
  /\ Len(j) = Len(a) + Len(b) /\ Len(a) \in Nat /\ Len(b) \in Nat
  /\ \A i \in 1 .. Len(a) : j[i] = a[i]
  /\ \A i \in Len(a) + 1 .. Len(a) + Len(b) :
       i - Len(a) \in 1 .. Len(b) /\ j[i] = b[i - Len(a)]

\* Where the elements of a concatenation come from.
LEMMA Joined ==
  ASSUME NEW S, NEW a \in Seq(S), NEW b \in Seq(S)
  PROVE  a \o b \in Seq(S) /\ Joins(a \o b, a, b)
<1>1. Len(a) \in Nat /\ Len(b) \in Nat BY LenProperties
<1>2. /\ a \o b \in Seq(S)
      /\ Len(a \o b) = Len(a) + Len(b)
      /\ \A i \in 1 .. Len(a) + Len(b) :
           (a \o b)[i] = IF i <= Len(a) THEN a[i] ELSE b[i - Len(a)]
  BY ConcatProperties
<1> QED BY <1>1, <1>2, Z3 DEF Joins

\* Concatenation is associative, of units and of queries.
LEMMA UnitsAssociate ==
  \A a, b, c \in Seq(Unit) : (a \o b) \o c = a \o (b \o c)
<1> TAKE a, b, c \in Seq(Unit)
<1> QED BY ConcatAssociative

LEMMA QueriesAssociate ==
  \A a, b, c \in Seq(Query) : (a \o b) \o c = a \o (b \o c)
<1> TAKE a, b, c \in Seq(Query)
<1> QED BY ConcatAssociative

\* What the reply to a query is made of.
LEMMA ReplyIs ==
  ASSUME NEW q \in Query
  PROVE  /\ Reply(q) \in Seq(Unit)
         /\ Len(Reply(q)) \in {2, 3}
         /\ Reply(q)[1].part = "size"
         /\ Reply(q)[1].units = Len(Reply(q)) - 1
         /\ \A i \in 1 .. Len(Reply(q)) : Reply(q)[i].id = q.id
         /\ \A i \in 1 .. Len(Reply(q)) : Reply(q)[i].part = "first" <=> i = 2
         /\ \A i \in 1 .. Len(Reply(q)) : Reply(q)[i].part = "size" <=> i = 1
<1> DEFINE head == <<[id |-> q.id, part |-> "size", units |-> Len(Payload(q.kind))]>>
           tail == [i \in 1 .. Len(Payload(q.kind)) |->
                      [id |-> q.id, part |-> Payload(q.kind)[i], units |-> 0]]
<1>1. /\ Payload(q.kind) \in Seq({"first", "rest"})
      /\ Len(Payload(q.kind)) \in {1, 2}
      /\ Payload(q.kind)[1] = "first"
      /\ \A i \in 2 .. Len(Payload(q.kind)) : Payload(q.kind)[i] = "rest"
  <2>1. CASE q.kind = "frame"
    BY <2>1 DEF Payload
  <2>2. CASE q.kind # "frame"
    BY <2>2 DEF Payload
  <2> QED BY <2>1, <2>2
<1>2. head \in Seq(Unit) /\ Len(head) = 1 /\ head[1].part = "size"
      /\ head[1].id = q.id /\ head[1].units = Len(Payload(q.kind))
  BY <1>1 DEF Unit, Query
<1>3. /\ tail \in Seq(Unit) /\ Len(tail) = Len(Payload(q.kind))
      /\ \A i \in 1 .. Len(tail) : tail[i].id = q.id /\ tail[i].part = Payload(q.kind)[i]
  <2>1. \A i \in 1 .. Len(Payload(q.kind)) : 
           [id |-> q.id, part |-> Payload(q.kind)[i], units |-> 0] \in Unit
    BY <1>1 DEF Unit, Query
  <2> QED BY <1>1, <2>1, IsASeq
<1>4. Reply(q) = head \o tail
  BY DEF Reply
<1> HIDE DEF head, tail
<1>5. /\ Reply(q) \in Seq(Unit)
      /\ Len(Reply(q)) = 1 + Len(tail)
      /\ Reply(q)[1] = head[1]
      /\ \A i \in 2 .. Len(Reply(q)) : i - 1 \in 1 .. Len(tail) /\ Reply(q)[i] = tail[i - 1]
  <2>1. head \o tail \in Seq(Unit) /\ Joins(head \o tail, head, tail)
    BY <1>2, <1>3, Joined
  <2>2. Reply(q) \in Seq(Unit) /\ Joins(Reply(q), head, tail)
    BY <2>1, <1>4
  <2> QED BY <2>2, <1>2 DEF Joins
<1>6. \A i \in 1 .. Len(Reply(q)) : i = 1 \/ i = 2 \/ i \in 3 .. Len(Reply(q))
  BY <1>5, <1>3
<1> QED BY <1>1, <1>2, <1>3, <1>5, <1>6

\* A sequence is made of its first n elements and the others.
LEMMA SplitAt ==
  ASSUME NEW S, NEW s \in Seq(S), NEW n \in 0 .. Len(s)
  PROVE  /\ SubSeq(s, 1, n) \in Seq(S) /\ SubSeq(s, n + 1, Len(s)) \in Seq(S)
         /\ Len(SubSeq(s, 1, n)) = n
         /\ Joins(s, SubSeq(s, 1, n), SubSeq(s, n + 1, Len(s)))
<1> DEFINE x == SubSeq(s, 1, n)
           y == SubSeq(s, n + 1, Len(s))
<1>1. Len(s) \in Nat /\ \A i \in 1 .. Len(s) : s[i] \in S
  BY LenProperties, ElementOfSeq
<1>2. /\ x \in Seq(S) /\ Len(x) = (IF 1 <= n THEN n - 1 + 1 ELSE 0)
      /\ \A i \in 1 .. n - 1 + 1 : x[i] = s[1 + i - 1]
  <2>1. \A i \in 1 .. n : s[i] \in S BY <1>1
  <2>2. n \in Int /\ 1 \in Int BY <1>1
  <2> QED BY <2>1, <2>2, SubSeqProperties
<1>3. /\ y \in Seq(S) /\ Len(y) = (IF n + 1 <= Len(s) THEN Len(s) - (n + 1) + 1 ELSE 0)
      /\ \A i \in 1 .. Len(s) - (n + 1) + 1 : y[i] = s[(n + 1) + i - 1]
  <2>1. \A i \in n + 1 .. Len(s) : s[i] \in S BY <1>1
  <2>2. n + 1 \in Int /\ Len(s) \in Int BY <1>1
  <2> QED BY <2>1, <2>2, SubSeqProperties
<1> HIDE DEF x, y
<1>4. Len(x) = n /\ Joins(s, x, y)
  <2>1. Len(x) = n /\ Len(y) = Len(s) - n /\ Len(s) \in Nat
    BY <1>1, <1>2, <1>3
  <2>2. \A i \in 1 .. n : s[i] = x[i]
    <3> TAKE i \in 1 .. n
    <3>1. i \in 1 .. n - 1 + 1 /\ 1 + i - 1 = i BY <1>1
    <3> QED BY <3>1, <1>2
  <2>3. \A i \in n + 1 .. Len(s) : i - n \in 1 .. Len(s) - n /\ s[i] = y[i - n]
    <3> TAKE i \in n + 1 .. Len(s)
    <3>1. /\ i - n \in 1 .. Len(s) - (n + 1) + 1 /\ i - n \in 1 .. Len(s) - n
          /\ (n + 1) + (i - n) - 1 = i
      BY <1>1
    <3> QED BY <3>1, <1>3
  <2>4. n + (Len(s) - n) = Len(s) /\ n \in Nat /\ Len(s) - n \in Nat BY <1>1
  <2> QED BY <2>1, <2>2, <2>3, <2>4 DEF Joins
<1> QED BY <1>2, <1>3, <1>4 DEF x, y

\* What is left after reading some of it, and before some of it is lost, keeps the
\* order.
LEMMA WindowOrder ==
  ASSUME NEW lo \in Nat, NEW hi \in Nat, NEW s, NEW t, NEW q, NEW r,
         NEW n \in Nat, NEW m \in Nat,
         Len(s) \in Nat, Len(t) \in Nat, Len(q) \in Nat, Len(r) \in Nat,
         InOrder(lo, s, q, hi), Window(t, s, n), Window(r, q, m)
  PROVE  InOrder(lo, t, r, hi)
<1>1. \A i \in 1 .. Len(t) : t[i].part = "first" => lo < t[i].id /\ t[i].id <= hi
  BY DEF InOrder, Window
<1>2. \A i, j \in 1 .. Len(t) :
        i < j /\ t[i].part = "first" /\ t[j].part = "first" => t[i].id < t[j].id
  <2> TAKE i, j \in 1 .. Len(t)
  <2>1. i + n \in 1 .. Len(s) /\ t[i] = s[i + n] BY DEF Window
  <2>2. j + n \in 1 .. Len(s) /\ t[j] = s[j + n] BY DEF Window
  <2>3. i < j => i + n < j + n OBVIOUS
  <2> QED BY <2>1, <2>2, <2>3 DEF InOrder
<1>3. \A i \in 1 .. Len(r) : lo < r[i].id /\ r[i].id <= hi
  BY DEF InOrder, Window
<1>4. \A i, j \in 1 .. Len(r) : i < j => r[i].id < r[j].id
  <2> TAKE i, j \in 1 .. Len(r)
  <2>1. i + m \in 1 .. Len(q) /\ r[i] = q[i + m] BY DEF Window
  <2>2. j + m \in 1 .. Len(q) /\ r[j] = q[j + m] BY DEF Window
  <2>3. i < j => i + m < j + m OBVIOUS
  <2> QED BY <2>1, <2>2, <2>3 DEF InOrder
<1>5. \A i \in 1 .. Len(t), j \in 1 .. Len(r) :
        t[i].part = "first" => t[i].id < r[j].id
  <2> TAKE i \in 1 .. Len(t), j \in 1 .. Len(r)
  <2>1. i + n \in 1 .. Len(s) /\ t[i] = s[i + n] BY DEF Window
  <2>2. j + m \in 1 .. Len(q) /\ r[j] = q[j + m] BY DEF Window
  <2> QED BY <2>1, <2>2 DEF InOrder
<1> QED BY <1>1, <1>2, <1>3, <1>4, <1>5 DEF InOrder

\* A reply that is used is later than the last one, and earlier than what follows.
LEMMA AnsweredOrder ==
  ASSUME NEW lo \in Nat, NEW hi \in Nat, NEW s, NEW t, NEW q, NEW n \in Nat \ {0},
         Len(s) \in Nat \ {0}, Len(t) \in Nat, Len(q) \in Nat, s[1].id \in Nat,
         InOrder(lo, s, q, hi), Window(t, s, n), s[1].part = "first"
  PROVE  InOrder(s[1].id, t, q, hi) /\ s[1].id \in lo + 1 .. hi
<1>1. s[1].id \in lo + 1 .. hi
  BY DEF InOrder
<1>2. Window(q, q, 0)
  BY DEF Window
<1>3. InOrder(lo, t, q, hi)
  BY <1>2, WindowOrder
<1>4. \A i \in 1 .. Len(t) : t[i].part = "first" => s[1].id < t[i].id
  <2> TAKE i \in 1 .. Len(t)
  <2>1. i + n \in 1 .. Len(s) /\ 1 < i + n /\ t[i] = s[i + n] BY DEF Window
  <2>2. 1 \in 1 .. Len(s) OBVIOUS
  <2> QED BY <2>1, <2>2 DEF InOrder
<1>5. \A j \in 1 .. Len(q) : s[1].id < q[j].id
  BY DEF InOrder
<1> QED BY <1>1, <1>3, <1>4, <1>5 DEF InOrder

\* A query of the HAL is later than all the others.
LEMMA AskOrder ==
  ASSUME NEW lo \in Nat, NEW hi \in Nat, NEW s, NEW q, NEW r, NEW e,
         Len(s) \in Nat, Len(q) \in Nat, e.id = hi + 1, lo <= hi,
         \A i \in 1 .. Len(s) : s[i].id \in Nat,
         \A i \in 1 .. Len(q) : q[i].id \in Nat,
         Len(r) = Len(q) + 1, r[Len(q) + 1] = e, \A i \in 1 .. Len(q) : r[i] = q[i],
         InOrder(lo, s, q, hi)
  PROVE  InOrder(lo, s, r, hi + 1) /\ InOrder(lo, s, q, hi + 1)
<1>1. \A i \in 1 .. Len(s) : s[i].part = "first" => lo < s[i].id /\ s[i].id <= hi + 1
  BY DEF InOrder
<1>2. \A i \in 1 .. Len(q) : lo < q[i].id /\ q[i].id <= hi + 1 /\ q[i].id < e.id
  BY DEF InOrder
<1>3. \A i \in 1 .. Len(r) :
        \/ i \in 1 .. Len(q) /\ r[i] = q[i]
        \/ i = Len(q) + 1 /\ r[i] = e
  <2> TAKE i \in 1 .. Len(r)
  <2>1. i \in 1 .. Len(q) \/ i = Len(q) + 1 OBVIOUS
  <2> QED BY <2>1, Zenon
<1>4. \A i \in 1 .. Len(r) : lo < r[i].id /\ r[i].id <= hi + 1
  BY <1>2, <1>3
<1>5. \A i, j \in 1 .. Len(r) : i < j => r[i].id < r[j].id
  <2> TAKE i, j \in 1 .. Len(r)
  <2> HAVE i < j
  <2>1. i \in 1 .. Len(q) /\ r[i] = q[i] BY <1>3
  <2> QED BY <2>1, <1>2, <1>3 DEF InOrder
<1>6. \A i \in 1 .. Len(s), j \in 1 .. Len(r) : s[i].part = "first" => s[i].id < r[j].id
  <2> TAKE i \in 1 .. Len(s), j \in 1 .. Len(r)
  <2>1. s[i].part = "first" => s[i].id < e.id BY DEF InOrder
  <2> QED BY <2>1, <1>3 DEF InOrder
<1> QED BY <1>1, <1>2, <1>4, <1>5, <1>6 DEF InOrder

\* The player answers the first of its queries, after all it answered before.
LEMMA ReplyOrder ==
  ASSUME NEW lo \in Nat, NEW hi \in Nat, NEW s, NEW q, NEW t, NEW r, NEW e \in Query,
         Len(s) \in Nat, Len(q) \in Nat \ {0}, Len(r) \in Nat, Len(t) \in Nat,
         InOrder(lo, s, q, hi), e = q[1], Window(r, q, 1), Joins(t, s, Reply(e))
  PROVE  InOrder(lo, t, r, hi)
<1>1. InOrder(lo, s, r, hi)
  <2>1. Window(s, s, 0) BY DEF Window
  <2> QED BY <2>1, WindowOrder
<1>2. \A j \in 1 .. Len(r) : e.id < r[j].id
  BY DEF InOrder, Window
<1>3. /\ lo < e.id /\ e.id <= hi
      /\ \A i \in 1 .. Len(s) : s[i].part = "first" => s[i].id < e.id
  BY DEF InOrder
<1>4. \A i \in 1 .. Len(t) :
        \/ i \in 1 .. Len(s) /\ t[i] = s[i]
        \/ i > Len(s) /\ t[i].id = e.id /\ (t[i].part = "first" => i = Len(s) + 2)
  <2> TAKE i \in 1 .. Len(t)
  <2>1. CASE i \in 1 .. Len(s) BY <2>1 DEF Joins
  <2>2. CASE i \notin 1 .. Len(s)
    <3>1. i \in Len(s) + 1 .. Len(s) + Len(Reply(e)) BY <2>2 DEF Joins
    <3>2. i - Len(s) \in 1 .. Len(Reply(e)) /\ t[i] = Reply(e)[i - Len(s)]
      BY <3>1 DEF Joins
    <3>3. t[i].id = e.id /\ (t[i].part = "first" => i - Len(s) = 2)
      <4>1. \A k \in 1 .. Len(Reply(e)) :
              /\ Reply(e)[k].id = e.id
              /\ Reply(e)[k].part = "first" => k = 2
        BY ReplyIs
      <4> QED BY <3>2, <4>1, Zenon
    <3> QED BY <3>1, <3>3
  <2> QED BY <2>1, <2>2
<1>5. \A i \in 1 .. Len(t) : t[i].part = "first" => lo < t[i].id /\ t[i].id <= hi
  BY <1>1, <1>3, <1>4 DEF InOrder
<1>6. \A i, j \in 1 .. Len(t) :
        i < j /\ t[i].part = "first" /\ t[j].part = "first" => t[i].id < t[j].id
  <2> TAKE i, j \in 1 .. Len(t)
  <2> HAVE i < j /\ t[i].part = "first" /\ t[j].part = "first"
  <2>1. i \in 1 .. Len(s) /\ t[i] = s[i] BY <1>4
  <2> QED BY <2>1, <1>1, <1>3, <1>4 DEF InOrder
<1>7. \A i \in 1 .. Len(t), j \in 1 .. Len(r) : t[i].part = "first" => t[i].id < r[j].id
  <2> TAKE i \in 1 .. Len(t), j \in 1 .. Len(r)
  <2> QED BY <1>1, <1>2, <1>4 DEF InOrder
<1> QED BY <1>1, <1>5, <1>6, <1>7 DEF InOrder

\* Moving the first elements of b to the end of a leaves the concatenation as it is.
LEMMA Moved ==
  ASSUME NEW S, NEW a \in Seq(S), NEW b \in Seq(S), NEW n \in 0 .. Len(b)
  PROVE  /\ a \o SubSeq(b, 1, n) \in Seq(S)
         /\ (a \o SubSeq(b, 1, n)) \o SubSeq(b, n + 1, Len(b)) = a \o b
<1> DEFINE x == SubSeq(b, 1, n)
           y == SubSeq(b, n + 1, Len(b))
<1>1. Len(b) \in Nat BY LenProperties
<1>2. x \in Seq(S) /\ y \in Seq(S)
  BY SplitAt
<1>3. x \o y = b
  <2>1. 1 \in 1 .. Len(b) + 1 /\ n \in 1 - 1 .. Len(b) /\ Len(b) \in n .. Len(b)
    BY <1>1
  <2>2. x \o y = SubSeq(b, 1, Len(b))
    BY <2>1, ConcatAdjacentSubSeq
  <2> QED BY <2>2, SubSeqFull
<1> HIDE DEF x, y
<1>4. (a \o x) \o y = a \o (x \o y)
  BY <1>2
<1>5. a \o x \in Seq(S) BY <1>2, ConcatProperties
<1> QED BY <1>3, <1>4, <1>5 DEF x, y

\* Reading the first element of a.
LEMMA ReadOff ==
  ASSUME NEW S, NEW a \in Seq(S), NEW b \in Seq(S), a # <<>>
  PROVE  /\ Head(a) \in S /\ Tail(a) \in Seq(S) /\ Tail(a) \o b \in Seq(S)
         /\ a \o b \in Seq(S)
         /\ a \o b # <<>> /\ (a \o b)[1] = Head(a)
         /\ Len(Tail(a) \o b) = Len(a \o b) - 1
         /\ Window(Tail(a) \o b, a \o b, 1)
<1>1. /\ Head(a) \in S /\ Tail(a) \in Seq(S) /\ Len(Tail(a)) = Len(a) - 1
      /\ \A i \in 1 .. Len(Tail(a)) : Tail(a)[i] = a[i + 1]
  BY HeadTailProperties
<1>2. Len(a) \in Nat \ {0} /\ Len(b) \in Nat /\ Head(a) = a[1]
  BY LenProperties, EmptySeq
<1>3. a \o b \in Seq(S) /\ Joins(a \o b, a, b)
  BY Joined
<1>4. Tail(a) \o b \in Seq(S) /\ Joins(Tail(a) \o b, Tail(a), b)
  BY <1>1, Joined
<1>5. ASSUME NEW j, NEW k, NEW c, Joins(j, a, b), Joins(k, c, b), Len(c) = Len(a) - 1,
             \A i \in 1 .. Len(c) : c[i] = a[i + 1]
      PROVE  Len(j) > 0 /\ j[1] = a[1] /\ Len(k) = Len(j) - 1 /\ Window(k, j, 1)
  <2>1. /\ Len(j) = Len(a) + Len(b) /\ Len(k) = Len(a) - 1 + Len(b)
        /\ Len(j) > 0 /\ j[1] = a[1]
    BY <1>5, <1>2 DEF Joins
  <2>2. \A i \in 1 .. Len(k) : i + 1 \in 1 .. Len(j) /\ k[i] = j[i + 1]
    <3> TAKE i \in 1 .. Len(k)
    <3>1. CASE i <= Len(a) - 1
      <4>1. i \in 1 .. Len(c) /\ i + 1 \in 1 .. Len(a) BY <3>1, <2>1, <1>2, <1>5
      <4> QED BY <4>1, <2>1, <1>2, <1>5 DEF Joins
    <3>2. CASE i > Len(a) - 1
      <4>1. /\ i \in Len(c) + 1 .. Len(c) + Len(b)
            /\ i + 1 \in Len(a) + 1 .. Len(a) + Len(b)
            /\ i - Len(c) = i + 1 - Len(a) /\ i + 1 \in 1 .. Len(j)
        BY <3>2, <2>1, <1>2, <1>5
      <4> QED BY <4>1, <1>5 DEF Joins
    <3> QED BY <3>1, <3>2, <2>1, <1>2
  <2> QED BY <2>1, <2>2, <1>5, <1>2 DEF Window
<1>6. /\ Len(a \o b) > 0 /\ (a \o b)[1] = a[1] /\ Len(Tail(a) \o b) = Len(a \o b) - 1
      /\ Window(Tail(a) \o b, a \o b, 1)
  BY <1>1, <1>3, <1>4, <1>5
<1>7. a \o b # <<>>
  BY <1>6, EmptySeq
<1> QED BY <1>1, <1>2, <1>3, <1>4, <1>6, <1>7

\* Skipping a, and stopping in b.
LEMMA SkipOver ==
  ASSUME NEW S, NEW a \in Seq(S), NEW b \in Seq(S), NEW n \in 0 .. Len(b)
  PROVE  /\ Window(b, a \o b, Len(a)) /\ Len(a) \in Nat
         /\ Window(a \o SubSeq(b, 1, n), a \o b, 0)
         /\ Window(SubSeq(b, n + 1, Len(b)), b, n)
<1> DEFINE x == SubSeq(b, 1, n)
           y == SubSeq(b, n + 1, Len(b))
<1>1. /\ Joins(a \o b, a, b) /\ Len(a) \in Nat /\ Len(b) \in Nat
  BY Joined, LenProperties
<1>2. x \in Seq(S) /\ Len(x) = n /\ Joins(b, x, y)
  BY SplitAt
<1>3. Joins(a \o x, a, x)
  BY <1>2, Joined
<1> HIDE DEF x, y
<1>4. ASSUME NEW j, NEW k, Joins(j, a, b), Joins(k, a, x)
      PROVE  Window(b, j, Len(a)) /\ Window(k, j, 0)
  <2>1. \A i \in 1 .. Len(b) : i + Len(a) \in 1 .. Len(j) /\ b[i] = j[i + Len(a)]
    <3> TAKE i \in 1 .. Len(b)
    <3>1. /\ i + Len(a) \in Len(a) + 1 .. Len(a) + Len(b) /\ i + Len(a) - Len(a) = i
          /\ i + Len(a) \in 1 .. Len(a) + Len(b)
      BY <1>1
    <3> QED BY <3>1, <1>4 DEF Joins
  <2>2. \A i \in 1 .. Len(k) : i + 0 \in 1 .. Len(j) /\ k[i] = j[i + 0]
    <3> TAKE i \in 1 .. Len(k)
    <3>1. Len(j) = Len(a) + Len(b) /\ Len(k) = Len(a) + n /\ i + 0 = i /\ i \in 1 .. Len(j)
      BY <1>1, <1>2, <1>4 DEF Joins
    <3>2. CASE i <= Len(a)
      BY <3>1, <3>2, <1>1, <1>4 DEF Joins
    <3>3. CASE i > Len(a)
      <4>1. i \in Len(a) + 1 .. Len(a) + Len(x) /\ i \in Len(a) + 1 .. Len(a) + Len(b)
            /\ i - Len(a) \in 1 .. Len(x)
        BY <3>1, <3>3, <1>1, <1>2
      <4>2. k[i] = x[i - Len(a)] /\ j[i] = b[i - Len(a)] BY <4>1, <1>4 DEF Joins
      <4>3. b[i - Len(a)] = x[i - Len(a)] BY <4>1, <1>2 DEF Joins
      <4> QED BY <4>2, <4>3, <3>1
    <3> QED BY <3>2, <3>3, <1>1
  <2> QED BY <2>1, <2>2 DEF Window
<1>5. Window(y, b, n)
  <2>1. Len(b) = n + Len(y) /\ Len(y) \in Nat BY <1>2 DEF Joins
  <2>2. \A i \in 1 .. Len(y) : i + n \in 1 .. Len(b) /\ y[i] = b[i + n]
    <3> TAKE i \in 1 .. Len(y)
    <3>1. i + n \in n + 1 .. n + Len(y) /\ i + n - n = i /\ i + n \in 1 .. Len(b)
      BY <2>1, <1>1
    <3> QED BY <3>1, <1>2 DEF Joins
  <2> QED BY <2>2 DEF Window
<1> QED BY <1>1, <1>3, <1>4, <1>5 DEF x, y

\* What stops early still stops early after something else.
LEMMA Prefixed ==
  ASSUME NEW S, NEW a \in Seq(S), NEW b \in Seq(S), NEW x \in Seq(S), Window(x, b, 0)
  PROVE  Window(a \o x, a \o b, 0)
<1>1. /\ Joins(a \o b, a, b) /\ Joins(a \o x, a, x)
      /\ Len(a) \in Nat /\ Len(b) \in Nat /\ Len(x) \in Nat
  BY Joined, LenProperties
<1>2. ASSUME NEW j, NEW k, Joins(j, a, b), Joins(k, a, x)
      PROVE  Window(k, j, 0)
  <2>1. \A i \in 1 .. Len(k) : i + 0 \in 1 .. Len(j) /\ k[i] = j[i + 0]
    <3> TAKE i \in 1 .. Len(k)
    <3>1. Len(j) = Len(a) + Len(b) /\ Len(k) = Len(a) + Len(x) /\ i + 0 = i
      BY <1>1, <1>2 DEF Joins
    <3>2. CASE i <= Len(a)
      <4>1. i \in 1 .. Len(a) /\ i \in 1 .. Len(j) BY <3>1, <3>2, <1>1
      <4> QED BY <4>1, <3>1, <1>2 DEF Joins
    <3>3. CASE i > Len(a)
      <4>1. i \in Len(a) + 1 .. Len(a) + Len(x) /\ i - Len(a) \in 1 .. Len(x)
        BY <3>1, <3>3, <1>1
      <4>2. i - Len(a) + 0 \in 1 .. Len(b) /\ x[i - Len(a)] = b[i - Len(a) + 0]
        BY <4>1 DEF Window
      <4>3. i - Len(a) + 0 = i - Len(a) /\ i \in Len(a) + 1 .. Len(a) + Len(b)
            /\ i \in 1 .. Len(j)
        BY <4>1, <4>2, <3>1, <1>1
      <4>4. k[i] = x[i - Len(a)] BY <4>1, <1>2 DEF Joins
      <4>5. j[i] = b[i - Len(a)] BY <4>3, <1>2 DEF Joins
      <4> QED BY <4>2, <4>3, <4>4, <4>5, <3>1
    <3> QED BY <3>2, <3>3, <1>1
  <2> QED BY <2>1 DEF Window
<1> QED BY <1>1, <1>2

\* Stopping at the end of a; all of s.
LEMMA Stops ==
  ASSUME NEW S, NEW a \in Seq(S), NEW b \in Seq(S)
  PROVE  Window(a, a \o b, 0) /\ Window(<<>>, b, 0) /\ Window(b, b, 0)
<1>1. Joins(a \o b, a, b) /\ Len(a) \in Nat /\ Len(b) \in Nat /\ Len(<<>>) = 0
  BY Joined, LenProperties, EmptySeq
<1>2. ASSUME NEW j, Joins(j, a, b) PROVE Window(a, j, 0)
  <2>1. \A i \in 1 .. Len(a) : i + 0 = i /\ i \in 1 .. Len(j) /\ j[i] = a[i]
    BY <1>1, <1>2 DEF Joins
  <2> QED BY <2>1 DEF Window
<1>3. Window(<<>>, b, 0) BY <1>1 DEF Window
<1>4. Window(b, b, 0)
  <2>1. \A i \in 1 .. Len(b) : i + 0 = i BY <1>1
  <2> QED BY <2>1 DEF Window
<1> QED BY <1>1, <1>2, <1>3, <1>4

\* The next unit of what is on its way is read into the payload.
LEMMA TakeIn ==
  ASSUME NEW S, NEW a \in Seq(S), NEW b \in Seq(S), NEW c \in Seq(S), b # <<>>
  PROVE  /\ Append(a, Head(b)) \in Seq(S)
         /\ Append(a, Head(b)) \o (Tail(b) \o c) = a \o (b \o c)
<1>1. Head(b) \in S /\ Tail(b) \in Seq(S) /\ Tail(b) \o c \in Seq(S)
  BY ReadOff
<1>2. <<Head(b)>> \in Seq(S) /\ Append(a, Head(b)) \in Seq(S)
  BY <1>1, AppendProperties
<1>3. Append(a, Head(b)) = a \o <<Head(b)>>
  BY <1>1, AppendIsConcat
<1>4. <<Head(b)>> \o Tail(b) = b
  <2>1. /\ <<Head(b)>> \o Tail(b) \in Seq(S) /\ Joins(<<Head(b)>> \o Tail(b), <<Head(b)>>, Tail(b))
        /\ Len(<<Head(b)>>) = 1 /\ <<Head(b)>>[1] = Head(b)
    BY <1>1, <1>2, Joined
  <2>2. /\ Len(Tail(b)) = Len(b) - 1 /\ \A i \in 1 .. Len(Tail(b)) : Tail(b)[i] = b[i + 1]
        /\ Len(b) \in Nat \ {0} /\ Head(b) = b[1]
    BY HeadTailProperties, LenProperties, EmptySeq
  <2>3. ASSUME NEW j, NEW h, NEW k, Joins(j, h, k), Len(h) = 1, h[1] = b[1],
               Len(k) = Len(b) - 1, \A i \in 1 .. Len(k) : k[i] = b[i + 1]
        PROVE  Len(j) = Len(b) /\ \A i \in 1 .. Len(j) : j[i] = b[i]
    <3>1. Len(j) = Len(b) BY <2>2, <2>3 DEF Joins
    <3>2. j[1] = b[1] BY <2>3 DEF Joins
    <3>3. ASSUME NEW i \in 2 .. Len(b) PROVE j[i] = b[i]
      <4>1. i - 1 \in 1 .. Len(k) /\ (i - 1) + 1 = i /\ i \in 1 + 1 .. 1 + Len(k)
        BY <2>2, <2>3
      <4>2. j[i] = k[i - 1] BY <4>1, <2>3 DEF Joins
      <4>3. k[i - 1] = b[(i - 1) + 1] BY <4>1, <2>3
      <4> QED BY <4>1, <4>2, <4>3
    <3>4. \A i \in 1 .. Len(j) : i = 1 \/ i \in 2 .. Len(b) BY <3>1, <2>2
    <3> QED BY <3>1, <3>2, <3>3, <3>4
  <2> DEFINE x == <<Head(b)>>
             y == Tail(b)
  <2>4. Joins(x \o y, x, y) /\ x \o y \in Seq(S) /\ Len(x) = 1 /\ x[1] = b[1]
    BY <2>1, <2>2
  <2>5. Len(y) = Len(b) - 1 /\ \A i \in 1 .. Len(y) : y[i] = b[i + 1]
    BY <2>2
  <2> HIDE DEF x, y
  <2>6. Len(x \o y) = Len(b) /\ \A i \in 1 .. Len(x \o y) : (x \o y)[i] = b[i]
    BY <2>3, <2>4, <2>5, Zenon
  <2>7. x \o y = b BY <2>4, <2>6, SeqEqual
  <2> QED BY <2>7 DEF x, y
<1>5. ASSUME NEW h \in Seq(S), NEW k \in Seq(S)
      PROVE  (a \o h) \o (k \o c) = a \o ((h \o k) \o c)
  <2> DEFINE v == k \o c
  <2>1. v \in Seq(S) BY ConcatProperties
  <2>2. h \o v = (h \o k) \o c BY DEF v
  <2> HIDE DEF v
  <2>3. (a \o h) \o v = a \o (h \o v) BY <2>1
  <2> QED BY <2>2, <2>3 DEF v
<1>6. (a \o <<Head(b)>>) \o (Tail(b) \o c) = a \o ((<<Head(b)>> \o Tail(b)) \o c)
  BY <1>1, <1>2, <1>5, Zenon
<1> QED BY <1>2, <1>3, <1>4, <1>6, Zenon

-----------------------------------------------------------------------------
\* A step keeps the types of the link.
LEMMA LinkTypesNext ==
  ASSUME LinkTypes, [Next]_vars
  PROVE  LinkTypes'
<1> USE DEF LinkTypes, halVars, proxyVars, playerVars, Failed,
            Answered
<1>1. CASE SendQuery
  <2>1. [id |-> asked', kind |-> kind'] \in Query BY <1>1 DEF SendQuery, Query
  <2>2. toProxy' \in Seq(Query)
    BY <1>1, <2>1, AppendProperties DEF SendQuery
  <2> QED BY <1>1, <2>2 DEF SendQuery
<1>2. CASE ReadSize
  <2>1. toHal' \in Seq(Unit) /\ Head(toHal) \in Unit
    BY <1>2, HeadTailProperties DEF ReadSize
  <2>2. want' \in Int BY <1>2, <2>1 DEF ReadSize, Unit
  <2> QED BY <1>2, <2>1, <2>2 DEF ReadSize
<1>3. CASE ReadSkip
  <2>1. toHal' \in Seq(Unit)
    BY <1>3, HeadTailProperties DEF ReadSkip
  <2>2. body' \in Seq(Unit) BY <1>3, EmptySeq DEF ReadSkip
  <2>3. /\ want' \in Int /\ failures' \in Nat /\ hpc' \in {"idle", "size", "data", "skip"}
        /\ UNCHANGED <<kind, asked, answered>>
    <3>1. CASE UNCHANGED halVars BY <3>1
    <3>2. CASE Failed BY <3>2
    <3> QED BY <1>3, <3>1, <3>2 DEF ReadSkip
  <2> QED BY <1>3, <2>1, <2>2, <2>3 DEF ReadSkip
<1>4. CASE ReadData
  <2>1. toHal' \in Seq(Unit) /\ Append(body, Head(toHal)) \in Seq(Unit) /\ Head(toHal) \in Unit
    BY <1>4, HeadTailProperties, AppendProperties DEF ReadData
  <2>2. Append(body, Head(toHal))[1].id \in Nat
    <3>1. Len(Append(body, Head(toHal))) >= 1 /\ Len(Append(body, Head(toHal))) \in Nat
      BY <2>1, AppendProperties, LenProperties
    <3>2. Append(body, Head(toHal))[1] \in Unit BY <2>1, <3>1, ElementOfSeq
    <3> QED BY <3>2 DEF Unit
  <2>3. body' \in Seq(Unit)
    BY <1>4, <2>1, EmptySeq DEF ReadData, CompleteQuery
  <2> DEFINE payload == Append(body, Head(toHal))
  <2>4. payload[1].id \in Nat BY <2>2
  <2>5. IF want = 1 THEN CompleteQuery(payload)
        ELSE want' = want - 1 /\ UNCHANGED <<hpc, asked, kind, answered, failures>>
    BY <1>4 DEF ReadData
  <2> HIDE DEF payload
  <2>6. /\ answered' \in Nat /\ failures' \in Nat /\ want' \in Int /\ asked' \in Nat
        /\ hpc' \in {"idle", "size", "data", "skip"} /\ kind' \in Kinds
    <3>1. CASE want = 1
      <4>1. Answered(payload[1].id) \/ Failed BY <2>5, <3>1, Zenon DEF CompleteQuery
      <4> QED BY <2>4, <4>1
    <3>2. CASE want # 1 BY <2>5, <3>2
    <3> QED BY <3>1, <3>2
  <2> QED BY <1>4, <2>1, <2>3, <2>6 DEF ReadData
<1>5. CASE ReadFails BY <1>5, EmptySeq DEF ReadFails
<1>6. CASE HalDies BY <1>6 DEF HalDies
<1>7. CASE AcceptHal BY <1>7 DEF AcceptHal
<1>8. CASE AcceptPlayer BY <1>8 DEF AcceptPlayer
<1>9. CASE Select BY <1>9 DEF Select
<1>10. CASE PlayerData
  <2>1. fromPlayer' \in Seq(Unit) /\ toHal' \in Seq(Unit)
    <3>1. CASE ~up /\ Exits
      BY <3>1, EmptySeq DEF Exits
    <3>2. ASSUME NEW n \in 1 .. Len(fromPlayer),
                 fromPlayer' = SubSeq(fromPlayer, n + 1, Len(fromPlayer)),
                 toHal' = toHal \o SubSeq(fromPlayer, 1, n)
          PROVE  fromPlayer' \in Seq(Unit) /\ toHal' \in Seq(Unit)
      <4>1. n \in 0 .. Len(fromPlayer) BY LenProperties
      <4> QED BY <3>2, <4>1, SplitAt, Moved
    <3> QED BY <1>10, <3>1, <3>2 DEF PlayerData
  <2> QED BY <1>10, <2>1, EmptySeq DEF PlayerData, Exits
<1>11. CASE PlayerLost BY <1>11, EmptySeq DEF PlayerLost
<1>12. CASE HalData
  <2>1. toProxy' \in Seq(Query) /\ toPlayer' \in Seq(Query)
    <3>1. CASE Exits
      BY <3>1, EmptySeq DEF Exits
    <3>2. ASSUME NEW n \in 1 .. Len(toProxy),
                 toProxy' = SubSeq(toProxy, n + 1, Len(toProxy)),
                 toPlayer' = IF player = "open"
                             THEN toPlayer \o SubSeq(toProxy, 1, n) ELSE toPlayer
          PROVE  toProxy' \in Seq(Query) /\ toPlayer' \in Seq(Query)
      <4>1. n \in 0 .. Len(toProxy) BY LenProperties
      <4> QED BY <3>2, <4>1, SplitAt, Moved
    <3> QED BY <1>12, <3>1, <3>2 DEF HalData
  <2> QED BY <1>12, <2>1, EmptySeq DEF HalData, Exits
<1>13. CASE HalLost BY <1>13, EmptySeq DEF HalLost, Exits
<1>14. CASE PlayerConnects BY <1>14 DEF PlayerConnects
<1>15. CASE PlayerAnswers
  <2>1. Head(toPlayer) \in Query /\ toPlayer' \in Seq(Query)
    BY <1>15, HeadTailProperties DEF PlayerAnswers
  <2>2. fromPlayer' \in Seq(Unit)
    BY <1>15, <2>1, ReplyIs, ConcatProperties DEF PlayerAnswers
  <2> QED BY <1>15, <2>1, <2>2 DEF PlayerAnswers
<1>16. CASE PlayerLeaves
  <2>1. fromPlayer' \in Seq(Unit)
    BY <1>16, SplitAt DEF PlayerLeaves
  <2> QED BY <1>16, <2>1, EmptySeq DEF PlayerLeaves
<1>17. CASE UNCHANGED vars BY <1>17 DEF vars
<1> QED BY <1>1, <1>2, <1>3, <1>4, <1>5, <1>6, <1>7, <1>8, <1>9, <1>10, <1>11, <1>12,
           <1>13, <1>14, <1>15, <1>16, <1>17
  DEF Next, Hal, Proxy, Player

-----------------------------------------------------------------------------
(* The link implements the channel of queries.                              *)

\* An answer is used that is later than the last one used: what the HAL may still
\* read is in order.  A query either failed or used the answer of its own number or
\* of an earlier one, so that it lags behind by the failures.
ChannelInv ==
  /\ answered <= asked
  /\ body # <<>> => hpc = "data"
  /\ player # "open" => toPlayer = <<>>
  /\ asked <= answered + failures + (IF hpc = "idle" THEN 0 ELSE 1)
  /\ InOrder(answered, Backlog, Waiting, asked)

\* The queues, taken together, are sequences.
LEMMA QueuesAre ==
  ASSUME NEW a \in Seq(Unit), NEW b \in Seq(Unit), NEW c \in Seq(Unit),
         NEW d \in Seq(Query), NEW e \in Seq(Query)
  PROVE  /\ b \o c \in Seq(Unit) /\ a \o (b \o c) \in Seq(Unit) /\ d \o e \in Seq(Query)
         /\ Len(a \o (b \o c)) \in Nat /\ Len(d \o e) \in Nat /\ Len(b \o c) \in Nat
<1>1. b \o c \in Seq(Unit) /\ d \o e \in Seq(Query) BY Joined
<1>2. a \o (b \o c) \in Seq(Unit) BY <1>1, Joined
<1> QED BY <1>1, <1>2, LenProperties

\* A step that only shortens what is on its way keeps it in order.
LEMMA OrderKept ==
  ASSUME LinkTypes, LinkTypes', InOrder(answered, Backlog, Waiting, asked),
         UNCHANGED <<asked, answered>>, NEW n \in Nat, NEW m \in Nat,
         Window(Backlog', Backlog, n), Window(Waiting', Waiting, m)
  PROVE  InOrder(answered, Backlog, Waiting, asked)'
<1>1. /\ Len(Backlog) \in Nat /\ Len(Waiting) \in Nat
      /\ Len(Backlog') \in Nat /\ Len(Waiting') \in Nat
  BY QueuesAre DEF LinkTypes, Backlog, Stream, Waiting
<1>2. answered \in Nat /\ asked \in Nat BY DEF LinkTypes
<1>3. InOrder(answered, Backlog', Waiting', asked)
  BY <1>1, <1>2, WindowOrder
<1> QED BY <1>3

\* A queue that a step leaves alone.
LEMMA Same ==
  ASSUME LinkTypes
  PROVE  /\ Window(Backlog, Backlog, 0) /\ Window(Waiting, Waiting, 0)
         /\ Backlog \in Seq(Unit) /\ Waiting \in Seq(Query) /\ Stream \in Seq(Unit)
         /\ Window(Stream, Stream, 0)
<1>1. Backlog \in Seq(Unit) /\ Waiting \in Seq(Query) /\ Stream \in Seq(Unit)
  BY QueuesAre DEF LinkTypes, Backlog, Stream, Waiting
<1> QED BY <1>1, Stops

\* The payload, with the unit being read, and what is still on its way are all that
\* was there before.
LEMMA DataRead ==
  ASSUME LinkTypes, ReadData, NEW p, p = Append(body, Head(toHal))
  PROVE  /\ p \in Seq(Unit) /\ Len(p) \in Nat \ {0} /\ Backlog # <<>>
         /\ Stream' \in Seq(Unit) /\ p \o Stream' = Backlog
         /\ Window(Stream', Backlog, Len(p)) /\ Backlog[1] = p[1]
<1>1. /\ body \in Seq(Unit) /\ toHal \in Seq(Unit) /\ fromPlayer \in Seq(Unit) /\ toHal # <<>>
      /\ toHal' = Tail(toHal) /\ fromPlayer' = fromPlayer
  BY DEF LinkTypes, ReadData
<1>2. p \in Seq(Unit) /\ p \o (Tail(toHal) \o fromPlayer) = body \o (toHal \o fromPlayer)
  BY <1>1, TakeIn
<1>3. Tail(toHal) \o fromPlayer \in Seq(Unit) BY <1>1, ReadOff
<1>4. Len(p) \in Nat \ {0}
  BY <1>1, HeadTailProperties, AppendProperties, LenProperties
<1>5. p \o Stream' = Backlog /\ Stream' \in Seq(Unit)
  BY <1>1, <1>2, <1>3 DEF Stream, Backlog
<1>6. Joins(Backlog, p, Stream')
  <2>1. Joins(p \o Stream', p, Stream') BY <1>2, <1>5, Joined
  <2> QED BY <2>1, <1>5
<1>7. Window(Stream', Backlog, Len(p))
  <2>1. 0 \in 0 .. Len(Stream') BY <1>5, LenProperties
  <2>2. Window(Stream', p \o Stream', Len(p)) BY <1>2, <1>5, <2>1, SkipOver
  <2> QED BY <2>2, <1>5
<1>8. Backlog[1] = p[1] /\ Len(Backlog) > 0
  BY <1>4, <1>6 DEF Joins
<1>9. Backlog # <<>> BY <1>8, EmptySeq
<1> QED BY <1>2, <1>4, <1>5, <1>7, <1>8, <1>9

\* A query that ends does so with a failure or with an answer later than the last.
LEMMA Completed ==
  ASSUME LinkTypes, LinkTypes', ChannelInv, ReadData, want = 1
  PROVE  /\ InOrder(answered, Backlog, Waiting, asked)'
         /\ hpc = "data" /\ hpc' = "idle" /\ body' = <<>> /\ asked' = asked
         /\ \/ answered' = answered /\ failures' = failures + 1
            \/ answered' \in answered + 1 .. asked /\ failures' = failures
<1> DEFINE p == Append(body, Head(toHal))
<1>1. /\ p \in Seq(Unit) /\ Len(p) \in Nat \ {0} /\ Backlog # <<>>
      /\ Stream' \in Seq(Unit) /\ p \o Stream' = Backlog
      /\ Window(Stream', Backlog, Len(p)) /\ Backlog[1] = p[1]
  BY DataRead
<1>2. CompleteQuery(p) /\ hpc = "data" /\ UNCHANGED <<toPlayer, toProxy>>
  BY DEF ReadData
<1> HIDE DEF p
<1>3. /\ hpc' = "idle" /\ body' = <<>> /\ asked' = asked
      /\ \/ answered' = answered /\ failures' = failures + 1
         \/ answered' = p[1].id /\ p[1].part = "first" /\ failures' = failures
  BY <1>2 DEF CompleteQuery, Failed, Answered
<1>4. Backlog' = Stream' /\ Waiting' = Waiting
  BY <1>1, <1>2, <1>3, ConcatEmptySeq DEF Backlog, Waiting
<1>5. /\ Len(Backlog) \in Nat \ {0} /\ Len(Backlog') \in Nat /\ Len(Waiting) \in Nat
      /\ Window(Waiting, Waiting, 0) /\ Backlog[1].id \in Nat
  <2>1. Backlog \in Seq(Unit) /\ Waiting \in Seq(Query) /\ Window(Waiting, Waiting, 0)
    BY Same
  <2>2. Len(Backlog) \in Nat \ {0} /\ Len(Waiting) \in Nat /\ Len(Stream') \in Nat
    BY <1>1, <2>1, LenProperties, EmptySeq
  <2>3. Backlog[1] \in Unit BY <2>1, <2>2, ElementOfSeq
  <2> QED BY <1>4, <2>1, <2>2, <2>3 DEF Unit
<1>6. answered \in Nat /\ asked \in Nat /\ InOrder(answered, Backlog, Waiting, asked)
  BY DEF LinkTypes, ChannelInv
<1>7. CASE answered' = answered /\ failures' = failures + 1
  <2>1. InOrder(answered, Backlog', Waiting, asked)
    BY <1>1, <1>4, <1>5, <1>6, WindowOrder
  <2> QED BY <2>1, <1>2, <1>3, <1>4, <1>7
<1>8. CASE answered' = p[1].id /\ p[1].part = "first" /\ failures' = failures
  <2>1. InOrder(Backlog[1].id, Backlog', Waiting, asked) /\ Backlog[1].id \in answered + 1 .. asked
    BY <1>1, <1>4, <1>5, <1>6, <1>8, AnsweredOrder
  <2> QED BY <2>1, <1>1, <1>2, <1>3, <1>4, <1>8
<1> QED BY <1>3, <1>7, <1>8

\* A step of the HAL keeps the invariant.
LEMMA HalKeepsChannel ==
  ASSUME LinkTypes, LinkTypes', ChannelInv, Hal
  PROVE  ChannelInv'
<1> USE DEF halVars, proxyVars, playerVars
<1>1. /\ Window(Backlog, Backlog, 0) /\ Window(Waiting, Waiting, 0)
      /\ Backlog \in Seq(Unit) /\ Waiting \in Seq(Query) /\ Stream \in Seq(Unit)
      /\ Window(Stream, Stream, 0) /\ <<>> \o Stream = Stream
  BY Same, ConcatEmptySeq
<1>2. answered \in Nat /\ asked \in Nat /\ failures \in Nat /\ 0 \in Nat /\ 1 \in Nat
  BY DEF LinkTypes
<1>3. InOrder(answered, Backlog, Waiting, asked) BY DEF ChannelInv
<1>4. toHal \in Seq(Unit) /\ fromPlayer \in Seq(Unit) /\ body \in Seq(Unit)
  BY DEF LinkTypes
<1>5. toHal # <<>> => Window(Tail(toHal) \o fromPlayer, Stream, 1)
  BY <1>4, ReadOff DEF Stream
<1>6. CASE SendQuery
  <2> DEFINE e == [id |-> asked', kind |-> kind']
  <2>1. asked' = asked + 1 /\ hpc = "idle" /\ hpc' = "size" /\ body' = body
        /\ UNCHANGED <<player, toPlayer, answered, failures>> /\ Backlog' = Backlog
        /\ \/ toProxy' = toProxy
           \/ toProxy' = Append(toProxy, e)
    BY <1>6 DEF SendQuery, Backlog, Stream
  <2>2. e \in Query /\ e.id = asked + 1 BY <2>1 DEF LinkTypes, Query
  <2>3. /\ Len(Backlog) \in Nat /\ Len(Waiting) \in Nat
        /\ \A i \in 1 .. Len(Backlog) : Backlog[i].id \in Nat
        /\ \A i \in 1 .. Len(Waiting) : Waiting[i].id \in Nat
    <3>1. Len(Backlog) \in Nat /\ Len(Waiting) \in Nat BY <1>1, LenProperties
    <3>2. \A i \in 1 .. Len(Backlog) : Backlog[i] \in Unit BY <1>1, ElementOfSeq
    <3>3. \A i \in 1 .. Len(Waiting) : Waiting[i] \in Query BY <1>1, ElementOfSeq
    <3>4. \A u \in Unit : u.id \in Nat BY DEF Unit
    <3>5. \A q \in Query : q.id \in Nat BY DEF Query
    <3> QED BY <3>1, <3>2, <3>3, <3>4, <3>5
  <2>4. Append(Waiting, e) = toPlayer \o Append(toProxy, e)
    <3>1. toPlayer \in Seq(Query) /\ toProxy \in Seq(Query) BY DEF LinkTypes
    <3>2. <<e>> \in Seq(Query) BY <2>2
    <3>3. Append(Waiting, e) = Waiting \o <<e>> /\ Append(toProxy, e) = toProxy \o <<e>>
      BY <1>1, <2>2, <3>1, AppendIsConcat
    <3> DEFINE x == <<e>>
    <3>4. x \in Seq(Query) BY <3>2
    <3> HIDE DEF x
    <3>5. (toPlayer \o toProxy) \o x = toPlayer \o (toProxy \o x)
      BY <3>1, <3>4, QueriesAssociate, Zenon
    <3> QED BY <3>3, <3>5 DEF x, Waiting
  <2>5. /\ Len(Append(Waiting, e)) = Len(Waiting) + 1
        /\ Append(Waiting, e)[Len(Waiting) + 1] = e
        /\ \A i \in 1 .. Len(Waiting) : Append(Waiting, e)[i] = Waiting[i]
    BY <1>1, <2>2, AppendProperties
  <2> DEFINE w == Append(Waiting, e)
  <2>6. Waiting' = Waiting \/ Waiting' = w
    BY <2>1, <2>4 DEF Waiting
  <2>7. Len(w) = Len(Waiting) + 1 /\ w[Len(Waiting) + 1] = e
        /\ \A i \in 1 .. Len(Waiting) : w[i] = Waiting[i]
    BY <2>5
  <2> HIDE DEF w, e
  <2>8. answered <= asked BY DEF ChannelInv
  <2>9. InOrder(answered, Backlog, w, asked + 1) /\ InOrder(answered, Backlog, Waiting, asked + 1)
    BY <1>2, <1>3, <2>2, <2>3, <2>7, <2>8, AskOrder
  <2>10. InOrder(answered, Backlog, Waiting, asked)'
    BY <2>1, <2>6, <2>9
  <2> QED BY <2>1, <2>8, <2>10, <1>2 DEF ChannelInv
<1>7. CASE ReadSize
  <2>1. /\ body = <<>> /\ body' = <<>> /\ hpc = "size" /\ hpc' # "idle" /\ Waiting' = Waiting
        /\ UNCHANGED <<asked, answered, failures, player, toPlayer>>
    BY <1>7 DEF ReadSize, ChannelInv, Waiting
  <2>2. Backlog = Stream /\ Backlog' = Stream'
    BY <1>1, <2>1, ConcatEmptySeq, LinkTypes' DEF Backlog, LinkTypes, Stream
  <2>3. Window(Backlog', Backlog, 0) \/ Window(Backlog', Backlog, 1)
    BY <1>1, <1>5, <1>7, <2>2 DEF ReadSize, Stream
  <2>4. InOrder(answered, Backlog, Waiting, asked)'
    BY <1>1, <1>2, <1>3, <2>1, <2>3, OrderKept
  <2> QED BY <2>1, <2>4 DEF ChannelInv
<1>8. CASE ReadSkip
  <2>1. /\ body = <<>> /\ body' = <<>> /\ hpc = "skip" /\ Waiting' = Waiting
        /\ UNCHANGED <<asked, answered, player, toPlayer>>
        /\ \/ hpc' = hpc /\ failures' = failures
           \/ hpc' = "idle" /\ failures' = failures + 1
    BY <1>8 DEF ReadSkip, ChannelInv, Waiting, Failed
  <2>2. Backlog = Stream /\ Backlog' = Stream'
    BY <1>1, <2>1, ConcatEmptySeq, LinkTypes' DEF Backlog, LinkTypes, Stream
  <2>3. Window(Backlog', Backlog, 0) \/ Window(Backlog', Backlog, 1)
    BY <1>1, <1>5, <1>8, <2>2 DEF ReadSkip, Stream
  <2>4. InOrder(answered, Backlog, Waiting, asked)'
    BY <1>1, <1>2, <1>3, <2>1, <2>3, OrderKept
  <2> QED BY <2>1, <2>4, <1>2 DEF ChannelInv
<1>9. CASE ReadData /\ want = 1
  <2>1. UNCHANGED <<player, toPlayer>>
    BY <1>9 DEF ReadData
  <2> QED BY <1>9, <2>1, <1>2, Completed DEF ChannelInv
<1>10. CASE ReadData /\ want # 1
  <2>1. UNCHANGED <<player, toPlayer, asked, answered, failures, hpc>> /\ hpc = "data"
        /\ Waiting' = Waiting /\ body' = Append(body, Head(toHal))
    BY <1>10 DEF ReadData, Waiting
  <2>2. Backlog' = Backlog
    BY <1>10, <2>1, DataRead DEF Backlog
  <2> QED BY <1>3, <2>1, <2>2 DEF ChannelInv
<1>11. CASE ReadFails
  <2>1. /\ UNCHANGED <<player, toPlayer, asked, answered>> /\ hpc # "idle" /\ hpc' = "idle"
        /\ failures' = failures + 1 /\ Waiting' = Waiting /\ body' = <<>> /\ Stream' = Stream
    BY <1>11 DEF ReadFails, Failed, Waiting, Stream
  <2>2. Backlog' = Stream BY <1>1, <2>1 DEF Backlog
  <2>3. Window(Stream, Backlog, Len(body)) /\ Len(body) \in Nat
    <3>1. 0 \in 0 .. Len(Stream) BY <1>1, LenProperties
    <3> QED BY <1>1, <1>4, <3>1, SkipOver DEF Backlog
  <2>4. InOrder(answered, Backlog, Waiting, asked)'
    BY <1>1, <1>2, <1>3, <2>1, <2>2, <2>3, OrderKept
  <2> QED BY <2>1, <2>4, <1>2 DEF ChannelInv
<1> QED BY <1>6, <1>7, <1>8, <1>9, <1>10, <1>11 DEF Hal

\* main returns: what was to be relayed is gone.
LEMMA ExitOrder ==
  ASSUME LinkTypes, LinkTypes', ChannelInv, Exits, UNCHANGED <<asked, answered, body>>
  PROVE  InOrder(answered, Backlog, Waiting, asked)'
<1>1. toHal \in Seq(Unit) /\ fromPlayer \in Seq(Unit) /\ body \in Seq(Unit)
      /\ Stream \in Seq(Unit) /\ Waiting \in Seq(Query) /\ <<>> \in Seq(Unit) /\ <<>> \in Seq(Query)
  BY Same, EmptySeq DEF LinkTypes
<1>2. Stream' = toHal \/ Stream' = <<>>
  BY <1>1, ConcatEmptySeq DEF Exits, Stream
<1>3. Window(toHal, Stream, 0) /\ Window(<<>>, Stream, 0)
  BY <1>1, Stops DEF Stream
<1>4. Window(Stream', Stream, 0) /\ Stream' \in Seq(Unit)
  BY <1>1, <1>2, <1>3
<1>5. Window(Backlog', Backlog, 0)
  BY <1>1, <1>4, Prefixed DEF Backlog
<1>6. Window(Waiting', Waiting, 0)
  <2>1. Waiting' = <<>> BY <1>1, ConcatEmptySeq DEF Exits, Waiting
  <2> QED BY <1>1, <2>1, Stops
<1> QED BY <1>5, <1>6, OrderKept DEF ChannelInv

\* So does a step of local_camera, or the end of the HAL.
LEMMA ProxyKeepsChannel ==
  ASSUME LinkTypes, LinkTypes', ChannelInv, Proxy \/ HalDies
  PROVE  ChannelInv'
<1> USE DEF halVars, proxyVars, playerVars
<1>1. UNCHANGED <<hpc, asked, answered, failures, body>>
  BY DEF Proxy, HalDies, AcceptHal, AcceptPlayer, Select,
         PlayerData, PlayerLost, HalData, HalLost
<1>2. InOrder(answered, Backlog, Waiting, asked) BY DEF ChannelInv
<1>3. ASSUME InOrder(answered, Backlog, Waiting, asked)', player' # "open" => toPlayer' = <<>>
      PROVE  ChannelInv'
  BY <1>1, <1>3 DEF ChannelInv
<1>4. CASE UNCHANGED <<toHal, fromPlayer, toPlayer, toProxy, player>>
  BY <1>1, <1>2, <1>3, <1>4 DEF ChannelInv, Backlog, Stream, Waiting
<1>5. ASSUME NEW n \in 1 .. Len(fromPlayer), UNCHANGED <<toPlayer, toProxy, player>>,
             fromPlayer' = SubSeq(fromPlayer, n + 1, Len(fromPlayer)),
             toHal' = toHal \o SubSeq(fromPlayer, 1, n)
      PROVE  ChannelInv'
  <2>1. Stream' = Stream
    <3>1. n \in 0 .. Len(fromPlayer) /\ toHal \in Seq(Unit) /\ fromPlayer \in Seq(Unit)
      BY LenProperties DEF LinkTypes
    <3> QED BY <1>5, <3>1, Moved DEF Stream
  <2>2. Backlog' = Backlog /\ Waiting' = Waiting
    BY <2>1, <1>1, <1>5 DEF Backlog, Waiting
  <2> QED BY <1>1, <1>2, <1>3, <1>5, <2>2 DEF ChannelInv
<1>6. CASE Exits
  <2>1. InOrder(answered, Backlog, Waiting, asked)' BY <1>1, <1>6, ExitOrder
  <2> QED BY <1>3, <1>6, <2>1 DEF Exits
<1>7. CASE PlayerLost
  <2>1. toPlayer = <<>> /\ toPlayer' = <<>> /\ UNCHANGED <<toHal, fromPlayer, toProxy>>
    BY <1>7 DEF PlayerLost, ChannelInv
  <2> QED BY <1>1, <1>2, <1>3, <2>1 DEF Backlog, Stream, Waiting
<1>8. ASSUME NEW n \in 1 .. Len(toProxy), UNCHANGED <<toHal, fromPlayer>>,
             toProxy' = SubSeq(toProxy, n + 1, Len(toProxy)),
             toPlayer' = IF player = "open"
                         THEN toPlayer \o SubSeq(toProxy, 1, n) ELSE toPlayer,
             player' = IF player = "closed" THEN "reset" ELSE player
      PROVE  ChannelInv'
  <2>1. n \in 0 .. Len(toProxy) /\ n \in Nat /\ toPlayer \in Seq(Query) /\ toProxy \in Seq(Query)
        /\ toProxy' \in Seq(Query)
    BY LenProperties DEF LinkTypes
  <2>2. Backlog' = Backlog BY <1>1, <1>8 DEF Backlog, Stream
  <2>3. CASE player = "open"
    <3>1. Waiting' = Waiting BY <1>8, <2>1, <2>3, Moved DEF Waiting
    <3> QED BY <1>1, <1>2, <1>3, <1>8, <2>2, <2>3, <3>1
  <2>4. CASE player # "open"
    <3>1. toPlayer = <<>> /\ toPlayer' = <<>> /\ player' # "open"
      BY <1>8, <2>4 DEF ChannelInv
    <3>2. Waiting = toProxy /\ Waiting' = toProxy'
      BY <2>1, <3>1, ConcatEmptySeq DEF Waiting
    <3>3. Window(toProxy', toProxy, n) BY <1>8, <2>1, SkipOver
    <3>4. InOrder(answered, Backlog, Waiting, asked)'
      BY <1>1, <1>2, <2>1, <2>2, <3>2, <3>3, Same, OrderKept
    <3> QED BY <1>3, <3>1, <3>4
  <2> QED BY <2>3, <2>4
<1>9. CASE AcceptHal BY <1>9, <1>4 DEF AcceptHal
<1>10. CASE AcceptPlayer BY <1>10, <1>4 DEF AcceptPlayer
<1>11. CASE Select BY <1>11, <1>4 DEF Select
<1>12. CASE HalDies BY <1>12, <1>4 DEF HalDies
<1>13. CASE PlayerData BY <1>13, <1>5, <1>6 DEF PlayerData
<1>14. CASE HalData BY <1>14, <1>6, <1>8 DEF HalData
<1>15. CASE HalLost BY <1>15, <1>6 DEF HalLost
<1> QED BY <1>7, <1>9, <1>10, <1>11, <1>12, <1>13, <1>14, <1>15 DEF Proxy

\* So does a step of the player: it answers its queries in order.
LEMMA PlayerKeepsChannel ==
  ASSUME LinkTypes, LinkTypes', ChannelInv, Player
  PROVE  ChannelInv'
<1> USE DEF halVars, proxyVars, playerVars
<1>1. UNCHANGED <<hpc, asked, answered, failures, body, toHal, toProxy>>
  BY DEF Player, PlayerConnects, PlayerAnswers, PlayerLeaves
<1>2. InOrder(answered, Backlog, Waiting, asked) /\ answered \in Nat /\ asked \in Nat
  BY DEF ChannelInv, LinkTypes
<1>3. /\ toHal \in Seq(Unit) /\ fromPlayer \in Seq(Unit) /\ body \in Seq(Unit)
      /\ toPlayer \in Seq(Query) /\ toProxy \in Seq(Query)
      /\ Stream \in Seq(Unit) /\ Backlog \in Seq(Unit) /\ Waiting \in Seq(Query)
  BY Same DEF LinkTypes
<1>4. ASSUME InOrder(answered, Backlog, Waiting, asked)', player' # "open" => toPlayer' = <<>>
      PROVE  ChannelInv'
  BY <1>1, <1>4 DEF ChannelInv
<1>5. CASE PlayerConnects
  <2>1. UNCHANGED <<fromPlayer, toPlayer>> /\ player' = "open"
    BY <1>5 DEF PlayerConnects
  <2> QED BY <1>1, <1>2, <1>4, <2>1 DEF Backlog, Stream, Waiting
<1>6. CASE PlayerAnswers
  <2> DEFINE e == Head(toPlayer)
             r == Reply(e)
  <2>1. /\ player' = "open" /\ toPlayer # <<>> /\ toPlayer' = Tail(toPlayer)
        /\ fromPlayer' = fromPlayer \o r
    BY <1>6 DEF PlayerAnswers
  <2>2. /\ e \in Query /\ Waiting # <<>> /\ e = Waiting[1] /\ Window(Waiting', Waiting, 1)
        /\ Waiting' \in Seq(Query)
    BY <1>1, <1>3, <2>1, ReadOff DEF Waiting
  <2>3. r \in Seq(Unit) BY <2>2, ReplyIs
  <2> HIDE DEF r
  <2>4. Stream' = Stream \o r
    <3>1. (toHal \o fromPlayer) \o r = toHal \o (fromPlayer \o r)
      <4>1. toHal \in Seq(Unit) /\ fromPlayer \in Seq(Unit) BY <1>3
      <4> QED BY <2>3, <4>1, UnitsAssociate, Zenon
    <3> QED BY <1>1, <2>1, <3>1 DEF Stream
  <2>5. Backlog' = Backlog \o r
    <3>1. (body \o Stream) \o r = body \o (Stream \o r)
      <4>1. body \in Seq(Unit) /\ Stream \in Seq(Unit) BY <1>3
      <4> QED BY <2>3, <4>1, UnitsAssociate, Zenon
    <3> QED BY <1>1, <2>4, <3>1 DEF Backlog
  <2>6. Joins(Backlog', Backlog, Reply(e)) /\ Backlog' \in Seq(Unit)
    BY <1>3, <2>3, <2>5, Joined DEF r
  <2>7. /\ Len(Backlog) \in Nat /\ Len(Waiting) \in Nat \ {0}
        /\ Len(Waiting') \in Nat /\ Len(Backlog') \in Nat
    BY <1>3, <2>2, <2>6, LenProperties, EmptySeq
  <2> HIDE DEF e
  <2>8. InOrder(answered, Backlog', Waiting', asked)
    BY <1>2, <2>2, <2>6, <2>7, ReplyOrder
  <2> QED BY <1>1, <1>4, <2>1, <2>8
<1>7. CASE PlayerLeaves
  <2>1. toPlayer' = <<>> /\ \E n \in 0 .. Len(fromPlayer) : fromPlayer' = SubSeq(fromPlayer, 1, n)
    BY <1>7 DEF PlayerLeaves
  <2>2. Window(Stream', Stream, 0) /\ Stream' \in Seq(Unit)
    <3>1. PICK n \in 0 .. Len(fromPlayer) : fromPlayer' = SubSeq(fromPlayer, 1, n) BY <2>1
    <3>2. Stream' = toHal \o SubSeq(fromPlayer, 1, n) BY <1>1, <3>1 DEF Stream
    <3>3. Window(toHal \o SubSeq(fromPlayer, 1, n), toHal \o fromPlayer, 0) BY <1>3, SkipOver
    <3>4. toHal \o SubSeq(fromPlayer, 1, n) \in Seq(Unit) BY <1>3, Moved
    <3> QED BY <3>2, <3>3, <3>4 DEF Stream
  <2>3. Window(Backlog', Backlog, 0)
    BY <1>1, <1>3, <2>2, Prefixed DEF Backlog
  <2>4. Window(Waiting', Waiting, Len(toPlayer)) /\ Len(toPlayer) \in Nat
    <3>1. Waiting' = toProxy BY <1>1, <1>3, <2>1, ConcatEmptySeq DEF Waiting
    <3>2. 0 \in 0 .. Len(toProxy) BY <1>3, LenProperties
    <3> QED BY <1>3, <3>1, <3>2, SkipOver DEF Waiting
  <2>5. InOrder(answered, Backlog, Waiting, asked)'
    BY <1>1, <1>2, <2>3, <2>4, OrderKept
  <2> QED BY <1>4, <2>1, <2>5
<1> QED BY <1>5, <1>6, <1>7 DEF Player

\* The link starts in order, with its queues empty.
LEMMA LinkInit ==
  ASSUME Init
  PROVE  LinkTypes /\ ChannelInv
<1> USE DEF Init
<1>1. LinkTypes BY EmptySeq DEF LinkTypes, Kinds
<1>2. <<>> \in Seq(Unit) /\ <<>> \in Seq(Query) /\ Len(<<>>) = 0 BY EmptySeq
<1>3. Stream = <<>> /\ Waiting = <<>> BY <1>2, ConcatEmptySeq DEF Stream, Waiting
<1>4. Backlog = <<>> BY <1>2, <1>3, ConcatEmptySeq DEF Backlog
<1>5. InOrder(answered, Backlog, Waiting, asked) BY <1>2, <1>3, <1>4 DEF InOrder
<1> QED BY <1>1, <1>5 DEF ChannelInv

\* What is on the way of a query and of its answer is in order.
THEOREM ChannelCorrect == Spec => [](LinkTypes /\ ChannelInv)
<1>1. Init => LinkTypes /\ ChannelInv BY LinkInit
<1>2. LinkTypes /\ ChannelInv /\ [Next]_vars => (LinkTypes /\ ChannelInv)'
  <2> SUFFICES ASSUME LinkTypes, ChannelInv, [Next]_vars
               PROVE  LinkTypes' /\ ChannelInv'
    OBVIOUS
  <2>1. LinkTypes' BY LinkTypesNext
  <2>2. CASE Next
    BY <2>1, <2>2, HalKeepsChannel, ProxyKeepsChannel, PlayerKeepsChannel DEF Next
  <2>3. CASE UNCHANGED vars
    <3>1. UNCHANGED <<asked, answered, failures, hpc, body, player, toPlayer, toProxy, toHal, fromPlayer>>
      BY <2>3 DEF vars, halVars, playerVars
    <3>2. Backlog' = Backlog /\ Waiting' = Waiting BY <3>1 DEF Backlog, Stream, Waiting
    <3> QED BY <2>1, <3>1, <3>2 DEF ChannelInv
  <2> QED BY <2>1, <2>2, <2>3
<1> QED BY <1>1, <1>2, PTL DEF Spec

\* A step of the link is one of the channel, or the channel does not see it.
LEMMA ChannelStep ==
  ASSUME LinkTypes, LinkTypes', ChannelInv, [Next]_vars
  PROVE  [QC!Next]_QC!vars
<1>1. answered \in Nat /\ asked \in Nat /\ failures \in Nat BY DEF LinkTypes
<1>2. hpc # "idle" => \A a \in answered + 1 .. asked : asked <= a + failures
  BY <1>1 DEF ChannelInv
<1> USE DEF halVars, QC!vars
<1>3. CASE SendQuery
  <2>1. QC!Ask BY <1>3 DEF SendQuery, QC!Ask
  <2> QED BY <2>1 DEF QC!Next
<1>4. CASE ReadData /\ want = 1
  <2>1. /\ hpc = "data" /\ hpc' = "idle" /\ asked' = asked
        /\ \/ answered' = answered /\ failures' = failures + 1
           \/ answered' \in answered + 1 .. asked /\ failures' = failures
    BY <1>4, Completed
  <2>2. CASE answered' = answered /\ failures' = failures + 1
    BY <2>1, <2>2 DEF QC!Fail, QC!Next
  <2>3. CASE answered' \in answered + 1 .. asked /\ failures' = failures
    <3>1. asked <= answered' + failures BY <1>2, <2>1, <2>3
    <3>2. QC!Answer BY <2>1, <2>3, <3>1 DEF QC!Answer
    <3> QED BY <3>2 DEF QC!Next
  <2> QED BY <2>1, <2>2, <2>3
<1>5. CASE ReadFails
  <2>1. QC!Fail BY <1>5 DEF ReadFails, Failed, QC!Fail
  <2> QED BY <2>1 DEF QC!Next
<1>6. CASE ReadSkip
  <2>1. CASE Failed
    <3>1. QC!Fail BY <1>6, <2>1 DEF ReadSkip, Failed, QC!Fail
    <3> QED BY <3>1 DEF QC!Next
  <2>2. CASE UNCHANGED halVars BY <2>2
  <2> QED BY <1>6, <2>1, <2>2 DEF ReadSkip
<1>7. CASE ReadSize BY <1>7 DEF ReadSize
<1>8. CASE ReadData /\ want # 1 BY <1>8 DEF ReadData
<1>9. CASE HalDies \/ Proxy \/ Player \/ UNCHANGED vars
  BY <1>9 DEF HalDies, Proxy, Player, AcceptHal, AcceptPlayer,
    Select, PlayerData, PlayerLost, HalData, HalLost,
    PlayerConnects, PlayerAnswers, PlayerLeaves, vars
<1> QED BY <1>3, <1>4, <1>5, <1>6, <1>7, <1>8, <1>9 DEF Next, Hal

\* doQuery over the link, through local_camera and whatever player is there, behaves
\* as the channel promises: answers are used in the order of the queries, each at
\* most once, and late by no more queries than have failed.
THEOREM LinkImplementsChannel == Spec => ImplementsQueryChannel
<1>1. Init => QC!Init BY DEF Init, QC!Init
<1>2. /\ LinkTypes /\ ChannelInv /\ (LinkTypes /\ ChannelInv)' /\ [Next]_vars
      => [QC!Next]_QC!vars
  BY ChannelStep
<1> QED BY <1>1, <1>2, ChannelCorrect, PTL DEF Spec, ImplementsQueryChannel, QC!Spec

-----------------------------------------------------------------------------
(* A frame is made of one reply while no player is lost.                    *)

\* Every size in s is followed by the units it announces, all of the same reply.
Whole(s) ==
  \A i \in 1 .. Len(s) : s[i].part = "size" =>
    /\ s[i].units >= 1 /\ i + s[i].units <= Len(s)
    /\ \A j \in i + 1 .. i + s[i].units : s[j].id = s[i].id

\* The payload p and the n units still to be read for it from s are of one reply.
OneReply(p, s, n) ==
  /\ n \in 1 .. Len(s)
  /\ \E id \in Nat : /\ \A i \in 1 .. Len(p) : p[i].id = id
                     /\ \A j \in 1 .. n : s[j].id = id

\* All units of p are of one reply.
OneId(p) == \E id \in Nat : \A i \in 1 .. Len(p) : p[i].id = id

\* While no player was lost, replies are whole between the player and the HAL, and a
\* query reads one of them.  local_camera itself throws nothing away while the HAL is
\* there: it only returns from main because of a connection that ended.
WholeInv ==
  /\ torn \in BOOLEAN /\ ready \subseteq {"player", "hal"}
  /\ torn => losses > 0
  /\ player \in {"closed", "reset"} => losses > 0
  /\ "hal" \in ready => toProxy # <<>> \/ ~up
  /\ ppc = "hal" => "hal" \in ready
  /\ losses = 0 /\ up =>
       Whole(Stream) /\ (hpc = "data" => OneReply(body, Stream, want))

\* Reading a unit off.
LEMMA WholeTail ==
  ASSUME NEW s \in Seq(Unit), NEW t \in Seq(Unit), Len(t) = Len(s) - 1, Window(t, s, 1), Whole(s)
  PROVE  Whole(t)
<1>1. Len(s) \in Nat /\ Len(t) \in Nat BY LenProperties
<1>2. SUFFICES ASSUME NEW i \in 1 .. Len(t), t[i].part = "size"
               PROVE  /\ t[i].units >= 1 /\ i + t[i].units <= Len(t)
                      /\ \A j \in i + 1 .. i + t[i].units : t[j].id = t[i].id
  BY DEF Whole
<1>3. i + 1 \in 1 .. Len(s) /\ t[i] = s[i + 1] BY DEF Window
<1>4. t[i].units \in 0 .. 2
  <2>1. t[i] \in Unit BY ElementOfSeq
  <2> QED BY <2>1 DEF Unit
<1>5. /\ t[i].units >= 1 /\ i + 1 + t[i].units <= Len(s)
      /\ \A j \in i + 1 + 1 .. i + 1 + t[i].units : s[j].id = t[i].id
  BY <1>2, <1>3 DEF Whole
<1>6. i + t[i].units <= Len(t) BY <1>1, <1>4, <1>5
<1>7. ASSUME NEW j \in i + 1 .. i + t[i].units PROVE t[j].id = t[i].id
  <2>1. j \in 1 .. Len(t) /\ j + 1 \in i + 1 + 1 .. i + 1 + t[i].units
    BY <1>1, <1>4, <1>6
  <2>2. t[j] = s[j + 1] BY <2>1 DEF Window
  <2> QED BY <1>5, <2>1, <2>2
<1> QED BY <1>5, <1>6, <1>7

\* Another reply arrives.
LEMMA WholeReply ==
  ASSUME NEW s \in Seq(Unit), NEW t \in Seq(Unit), NEW e \in Query, Whole(s),
         Joins(t, s, Reply(e))
  PROVE  Whole(t)
<1> DEFINE r == Reply(e)
<1>1. Len(s) \in Nat /\ Len(t) \in Nat /\ Len(r) \in {2, 3} /\ Len(t) = Len(s) + Len(r)
  BY LenProperties, ReplyIs DEF Joins
<1>2. SUFFICES ASSUME NEW i \in 1 .. Len(t), t[i].part = "size"
               PROVE  /\ t[i].units >= 1 /\ i + t[i].units <= Len(t)
                      /\ \A j \in i + 1 .. i + t[i].units : t[j].id = t[i].id
  BY DEF Whole
<1>3. /\ \A j \in 1 .. Len(s) : t[j] = s[j]
      /\ \A j \in Len(s) + 1 .. Len(s) + Len(r) :
           j - Len(s) \in 1 .. Len(r) /\ t[j] = r[j - Len(s)]
  BY DEF Joins
<1>4. /\ r[1].units = Len(r) - 1
      /\ \A j \in 1 .. Len(r) : r[j].id = e.id /\ (r[j].part = "size" <=> j = 1)
  BY ReplyIs
<1>5. t[i].units \in 0 .. 2
  <2>1. t[i] \in Unit BY ElementOfSeq
  <2> QED BY <2>1 DEF Unit
<1> HIDE DEF r
<1>6. CASE i <= Len(s)
  <2>1. i \in 1 .. Len(s) /\ t[i] = s[i] BY <1>1, <1>3, <1>6
  <2>2. /\ t[i].units >= 1 /\ i + t[i].units <= Len(s)
        /\ \A j \in i + 1 .. i + t[i].units : s[j].id = t[i].id
    BY <1>2, <2>1 DEF Whole
  <2>3. i + t[i].units <= Len(t) BY <1>1, <1>5, <2>2
  <2>4. ASSUME NEW j \in i + 1 .. i + t[i].units PROVE t[j].id = t[i].id
    <3>1. j \in 1 .. Len(s) BY <1>1, <1>5, <2>2
    <3> QED BY <1>3, <2>2, <3>1
  <2> QED BY <2>2, <2>3, <2>4
<1>7. CASE i > Len(s)
  <2>1. i \in Len(s) + 1 .. Len(s) + Len(r)
    <3>1. Len(r) \in Nat BY <1>1
    <3> QED BY <3>1, <1>1, <1>7
  <2>2. i - Len(s) \in 1 .. Len(r) /\ t[i] = r[i - Len(s)] BY <1>3, <2>1
  <2>3. i - Len(s) = 1 BY <1>2, <1>4, <2>2
  <2>4. i = Len(s) + 1 /\ t[i] = r[1] /\ t[i].units = Len(r) - 1 /\ t[i].id = e.id
    BY <1>1, <1>4, <2>2, <2>3
  <2>5. t[i].units >= 1 /\ i + t[i].units = Len(t)
    <3>1. Len(r) \in Nat /\ Len(r) >= 2 /\ Len(r) - 1 >= 1
      <4>1. \A n \in {2, 3} : n \in Nat /\ n >= 2 /\ n - 1 >= 1 OBVIOUS
      <4> QED BY <1>1, <4>1, Zenon
    <3>2. Len(s) + 1 + (Len(r) - 1) = Len(t) BY <3>1, <1>1
    <3> QED BY <2>4, <3>1, <3>2
  <2>6. ASSUME NEW j \in i + 1 .. i + t[i].units PROVE t[j].id = t[i].id
    <3>1. j \in Len(s) + 1 .. Len(s) + Len(r) BY <1>1, <2>4, <2>5
    <3>2. j - Len(s) \in 1 .. Len(r) /\ t[j] = r[j - Len(s)] BY <1>3, <3>1
    <3> QED BY <1>4, <2>4, <3>2
  <2> QED BY <1>1, <2>5, <2>6
<1> QED BY <1>1, <1>6, <1>7

\* Then the payload is still of one reply, whatever else arrives.
LEMMA OneReplyKept ==
  ASSUME NEW p, NEW s \in Seq(Unit), NEW t \in Seq(Unit), NEW n, NEW r, OneReply(p, s, n), Joins(t, s, r)
  PROVE  OneReply(p, t, n)
<1>1. Len(s) \in Nat /\ Len(t) \in Nat /\ Len(t) >= Len(s)
  BY LenProperties DEF Joins
<1>2. n \in 1 .. Len(s) /\ n \in 1 .. Len(t) BY <1>1 DEF OneReply
<1>3. \A j \in 1 .. n : t[j] = s[j]
  <2>1. \A j \in 1 .. n : j \in 1 .. Len(s) BY <1>1, <1>2
  <2> QED BY <2>1 DEF Joins
<1>4. PICK id \in Nat : /\ \A i \in 1 .. Len(p) : p[i].id = id
                       /\ \A j \in 1 .. n : s[j].id = id
  BY DEF OneReply
<1>5. \A j \in 1 .. n : t[j].id = id BY <1>3, <1>4
<1> QED BY <1>2, <1>4, <1>5 DEF OneReply

\* A size is read, and with it the number of units of its reply.
LEMMA SizeRead ==
  ASSUME NEW s \in Seq(Unit), Whole(s), s # <<>>, s[1].part = "size",
         NEW t \in Seq(Unit), Len(t) = Len(s) - 1, Window(t, s, 1)
  PROVE  OneReply(<<>>, t, s[1].units)
<1>1. Len(s) \in Nat \ {0} /\ Len(t) \in Nat /\ Len(<<>>) = 0
  BY LenProperties, EmptySeq
<1>2. s[1].units \in Nat /\ s[1].id \in Nat
  <2>1. s[1] \in Unit BY <1>1, ElementOfSeq
  <2> QED BY <2>1 DEF Unit
<1>3. /\ s[1].units >= 1 /\ 1 + s[1].units <= Len(s)
      /\ \A j \in 1 + 1 .. 1 + s[1].units : s[j].id = s[1].id
  BY <1>1 DEF Whole
<1>4. s[1].units \in 1 .. Len(t) BY <1>1, <1>2, <1>3
<1>5. ASSUME NEW j \in 1 .. s[1].units PROVE t[j].id = s[1].id
  <2>1. j \in 1 .. Len(t) /\ j + 1 \in 1 + 1 .. 1 + s[1].units BY <1>1, <1>2, <1>4
  <2>2. t[j] = s[j + 1] BY <2>1 DEF Window
  <2> QED BY <1>3, <2>1, <2>2
<1>6. \A i \in 1 .. Len(<<>>) : (<<>>)[i].id = s[1].id BY <1>1
<1> QED BY <1>2, <1>4, <1>5, <1>6 DEF OneReply

\* A unit is read into the payload: with the last one, the payload is of one reply.
LEMMA UnitRead ==
  ASSUME NEW p \in Seq(Unit), NEW s \in Seq(Unit), NEW n, OneReply(p, s, n), s # <<>>,
         NEW t \in Seq(Unit), Len(t) = Len(s) - 1, Window(t, s, 1)
  PROVE  /\ n # 1 => OneReply(Append(p, s[1]), t, n - 1)
         /\ OneId(Append(p, s[1]))
<1> DEFINE p1 == Append(p, s[1])
<1>1. Len(s) \in Nat \ {0} /\ Len(t) \in Nat /\ Len(p) \in Nat
  BY LenProperties, EmptySeq
<1>2. s[1] \in Unit BY <1>1, ElementOfSeq
<1>3. Len(p1) = Len(p) + 1 /\ p1[Len(p) + 1] = s[1] /\ \A i \in 1 .. Len(p) : p1[i] = p[i]
  BY <1>2, AppendProperties
<1> HIDE DEF p1
<1>4. PICK id \in Nat : /\ \A i \in 1 .. Len(p) : p[i].id = id
                       /\ \A j \in 1 .. n : s[j].id = id
  BY DEF OneReply
<1>5. n \in 1 .. Len(s) BY DEF OneReply
<1>6. ASSUME NEW i \in 1 .. Len(p1) PROVE p1[i].id = id
  <2>1. i \in 1 .. Len(p) \/ i = Len(p) + 1 BY <1>1, <1>3
  <2>2. 1 \in 1 .. n BY <1>1, <1>5
  <2>3. s[1].id = id BY <1>4, <2>2
  <2> QED BY <1>3, <1>4, <2>1, <2>3
<1>7. ASSUME n # 1 PROVE OneReply(p1, t, n - 1)
  <2>1. n - 1 \in 1 .. Len(t) BY <1>1, <1>5, <1>7
  <2>2. ASSUME NEW j \in 1 .. n - 1 PROVE t[j].id = id
    <3>1. j \in 1 .. Len(t) /\ j + 1 \in 1 .. n BY <1>1, <1>5, <2>1
    <3>2. t[j] = s[j + 1] BY <3>1 DEF Window
    <3> QED BY <1>4, <3>1, <3>2
  <2> QED BY <1>6, <2>1, <2>2 DEF OneReply
<1>8. OneId(p1) BY <1>6 DEF OneId
<1> QED BY <1>7, <1>8 DEF p1

\* A step of the HAL keeps the invariant.
LEMMA HalKeepsWhole ==
  ASSUME LinkTypes, LinkTypes', ChannelInv, WholeInv, Hal
  PROVE  WholeInv'
<1> USE DEF halVars, proxyVars, playerVars
<1>1. UNCHANGED <<ppc, ready, player, losses, fromPlayer>> /\ up /\ up'
      /\ (toProxy # <<>> => toProxy' # <<>>)
  <2>1. CASE SendQuery
    <3>1. toProxy' = toProxy \/ toProxy' = Append(toProxy, [id |-> asked', kind |-> kind'])
      BY <2>1 DEF SendQuery
    <3>2. [id |-> asked', kind |-> kind'] \in Query BY <2>1 DEF SendQuery, LinkTypes, Query
    <3>3. Append(toProxy, [id |-> asked', kind |-> kind']) # <<>>
      <4>1. toProxy \in Seq(Query) BY DEF LinkTypes
      <4> QED BY <3>2, <4>1, AppendProperties
    <3> QED BY <2>1, <3>1, <3>3 DEF SendQuery
  <2>2. CASE ReadSize BY <2>2 DEF ReadSize
  <2>3. CASE ReadSkip BY <2>3 DEF ReadSkip, Failed
  <2>4. CASE ReadData
    BY <2>4 DEF ReadData, CompleteQuery, Failed, Answered
  <2>5. CASE ReadFails BY <2>5 DEF ReadFails, Failed
  <2> QED BY <2>1, <2>2, <2>3, <2>4, <2>5 DEF Hal
<1>2. ASSUME torn' \in BOOLEAN, torn' => losses > 0,
             losses = 0 => Whole(Stream') /\ (hpc' = "data" => OneReply(body', Stream', want'))
      PROVE  WholeInv'
  BY <1>1, <1>2, Zenon DEF WholeInv
<1>3. losses = 0 => Whole(Stream) /\ (hpc = "data" => OneReply(body, Stream, want))
  BY <1>1 DEF WholeInv
<1>4. torn \in BOOLEAN /\ (torn => losses > 0) BY DEF WholeInv
<1>5. /\ toHal \in Seq(Unit) /\ fromPlayer \in Seq(Unit) /\ body \in Seq(Unit)
      /\ Stream \in Seq(Unit) /\ Stream' \in Seq(Unit)
  <2>1. Stream' \in Seq(Unit) BY Joined DEF LinkTypes, Stream
  <2> QED BY <2>1, Same DEF LinkTypes
<1>6. ASSUME toHal # <<>>, toHal' = Tail(toHal)
      PROVE  /\ Stream # <<>> /\ Stream[1] = Head(toHal)
             /\ Len(Stream') = Len(Stream) - 1 /\ Window(Stream', Stream, 1)
             /\ losses = 0 => Whole(Stream')
  <2>1. Stream' = Tail(toHal) \o fromPlayer BY <1>1, <1>6 DEF Stream
  <2>2. /\ Stream # <<>> /\ Stream[1] = Head(toHal)
        /\ Len(Stream') = Len(Stream) - 1 /\ Window(Stream', Stream, 1)
    <3>1. Tail(toHal) \o fromPlayer \in Seq(Unit) BY <1>5, <2>1
    <3>2. /\ toHal \o fromPlayer # <<>> /\ (toHal \o fromPlayer)[1] = Head(toHal)
          /\ Len(Tail(toHal) \o fromPlayer) = Len(toHal \o fromPlayer) - 1
          /\ Window(Tail(toHal) \o fromPlayer, toHal \o fromPlayer, 1)
      BY <1>5, <1>6, ReadOff
    <3> QED BY <2>1, <3>2, Zenon DEF Stream
  <2> QED BY <1>3, <1>5, <2>2, WholeTail
<1>7. ASSUME toHal' = toHal PROVE Stream' = Stream
  BY <1>1, <1>7 DEF Stream
<1>8. CASE SendQuery
  <2>1. toHal' = toHal /\ torn' = torn /\ hpc' = "size" BY <1>8 DEF SendQuery
  <2> QED BY <1>2, <1>3, <1>4, <1>7, <2>1
<1>9. CASE ReadSize
  <2>1. torn' = torn /\ body' = <<>> /\ toHal # <<>>
    BY <1>9 DEF ReadSize, ChannelInv
  <2>2. CASE Head(toHal).part = "size" /\ toHal' = Tail(toHal) /\ want' = Head(toHal).units
    <3>1. ASSUME losses = 0 PROVE OneReply(<<>>, Stream', Stream[1].units)
      BY <1>3, <1>5, <1>6, <2>1, <2>2, <3>1, SizeRead
    <3>2. want' = Stream[1].units BY <1>6, <2>1, <2>2
    <3> QED BY <1>2, <1>4, <1>6, <2>1, <2>2, <3>1, <3>2
  <2>3. CASE hpc' = "skip" /\ toHal' \in {toHal, Tail(toHal)}
    BY <1>2, <1>3, <1>4, <1>6, <1>7, <2>1, <2>3
  <2> QED BY <1>9, <2>2, <2>3 DEF ReadSize
<1>10. CASE ReadSkip
  <2>1. torn' = torn /\ hpc' # "data" /\ (toHal' = toHal \/ (toHal # <<>> /\ toHal' = Tail(toHal)))
    BY <1>10 DEF ReadSkip, Failed
  <2> QED BY <1>2, <1>3, <1>4, <1>6, <1>7, <2>1
<1>11. CASE ReadData
  <2> DEFINE p == Append(body, Head(toHal))
  <2>1. toHal # <<>> /\ toHal' = Tail(toHal) /\ hpc = "data"
    BY <1>11 DEF ReadData
  <2>2. p = Append(body, Stream[1]) BY <1>6, <2>1
  <2>3. \/ want = 1 /\ CompleteQuery(p)
        \/ want # 1 /\ hpc' = hpc /\ torn' = torn /\ want' = want - 1 /\ body' = p
    BY <1>11 DEF ReadData
  <2>4. p \in Seq(Unit) /\ Len(p) \in Nat \ {0} BY <1>11, DataRead
  <2> HIDE DEF p
  <2>5. ASSUME losses = 0
        PROVE  /\ want # 1 => OneReply(p, Stream', want - 1)
               /\ OneId(p)
    <3>1. /\ OneReply(body, Stream, want) /\ Stream # <<>> /\ body \in Seq(Unit)
          /\ Stream \in Seq(Unit) /\ Stream' \in Seq(Unit)
          /\ Len(Stream') = Len(Stream) - 1 /\ Window(Stream', Stream, 1)
      BY <1>3, <1>5, <1>6, <2>1, <2>5
    <3>2. /\ want # 1 => OneReply(Append(body, Stream[1]), Stream', want - 1)
          /\ OneId(Append(body, Stream[1]))
      BY <3>1, UnitRead
    <3> QED BY <2>2, <3>2, Zenon
  <2>6. CASE want # 1 /\ hpc' = hpc /\ torn' = torn /\ want' = want - 1 /\ body' = p
    BY <1>2, <1>4, <1>6, <2>1, <2>5, <2>6
  <2>7. CASE want = 1 /\ CompleteQuery(p)
    <3>1. hpc' = "idle" BY <2>7 DEF CompleteQuery, Failed, Answered
    <3>2. \/ torn' = torn
          \/ torn' = (torn \/ \E i \in DOMAIN p : p[i].id # p[1].id)
      BY <2>7 DEF CompleteQuery, Failed
    <3>3. DOMAIN p = 1 .. Len(p) /\ 1 \in 1 .. Len(p) BY <2>4, LenProperties
    <3>4. losses = 0 => ~ \E i \in DOMAIN p : p[i].id # p[1].id
      BY <2>5, <3>3 DEF OneId
    <3>5. losses \in Nat BY DEF LinkTypes
    <3>6. torn' \in BOOLEAN /\ (torn' => losses > 0)
      <4>1. losses = 0 \/ losses > 0 BY <3>5
      <4>2. CASE losses > 0 BY <1>4, <3>2, <4>2, Zenon
      <4>3. CASE losses = 0
        <5>1. ~torn BY <1>4, <4>3
        <5>2. ~ torn' BY <3>2, <3>4, <4>3, <5>1, Zenon
        <5>3. torn' \in BOOLEAN BY <1>4, <3>2, Zenon
        <5> QED BY <5>2, <5>3
      <4> QED BY <4>1, <4>2, <4>3
    <3>7. hpc' # "data" BY <3>1
    <3> QED BY <1>2, <1>6, <2>1, <3>6, <3>7
  <2> QED BY <2>3, <2>6, <2>7
<1>12. CASE ReadFails
  <2>1. toHal' = toHal /\ torn' = torn /\ hpc' = "idle" BY <1>12 DEF ReadFails, Failed
  <2> QED BY <1>2, <1>3, <1>4, <1>7, <2>1
<1> QED BY <1>8, <1>9, <1>10, <1>11, <1>12 DEF Hal

\* A step of local_camera keeps it: what it read of the player it sends to the HAL.
LEMMA ProxyKeepsWhole ==
  ASSUME LinkTypes, LinkTypes', WholeInv, Proxy \/ HalDies
  PROVE  WholeInv'
<1> USE DEF halVars, proxyVars, playerVars
<1>1. UNCHANGED <<hpc, torn, body, want, losses>> /\ (up' => up)
  BY DEF Proxy, HalDies, AcceptHal, AcceptPlayer, Select,
         PlayerData, PlayerLost, HalData, HalLost
<1>2. losses \in Nat BY DEF LinkTypes
<1>3. CASE AcceptHal
  BY <1>1, <1>3 DEF AcceptHal, WholeInv, Stream
<1>4. CASE AcceptPlayer
  BY <1>1, <1>4 DEF AcceptPlayer, WholeInv, Stream
<1>5. CASE Select
  BY <1>1, <1>5 DEF Select, Handle, Readable, WholeInv, Stream
<1>6. CASE HalDies
  BY <1>1, <1>6 DEF HalDies, WholeInv
<1>7. ASSUME Exits, losses > 0 \/ ~up, player' = player PROVE WholeInv'
  BY <1>1, <1>2, <1>7 DEF Exits, WholeInv
<1>8. CASE PlayerData
  <2>1. CASE ~up /\ Exits BY <1>7, <1>8, <2>1 DEF PlayerData
  <2>2. CASE ~(~up /\ Exits)
    <3>1. PICK n \in 1 .. Len(fromPlayer) :
            /\ fromPlayer' = SubSeq(fromPlayer, n + 1, Len(fromPlayer))
            /\ toHal' = toHal \o SubSeq(fromPlayer, 1, n)
            /\ Handle(ready \ {"player"})
            /\ UNCHANGED <<toProxy, toPlayer>>
      BY <1>8, <2>2 DEF PlayerData
    <3>2. Stream' = Stream
      <4>1. n \in 0 .. Len(fromPlayer) /\ toHal \in Seq(Unit) /\ fromPlayer \in Seq(Unit)
        BY LenProperties DEF LinkTypes
      <4> QED BY <3>1, <4>1, Moved DEF Stream
    <3>3. UNCHANGED <<player, up, toProxy>> /\ ready' = ready \ {"player"}
          /\ (ppc' = "hal" => "hal" \in ready')
      BY <1>8, <3>1 DEF PlayerData, Handle, WholeInv
    <3> QED BY <1>1, <3>2, <3>3 DEF WholeInv
  <2> QED BY <2>1, <2>2
<1>9. CASE PlayerLost
  BY <1>1, <1>9 DEF PlayerLost, WholeInv, Stream
<1>10. CASE HalData
  <2>1. CASE player = "reset" /\ Exits
    BY <1>7, <1>10, <2>1 DEF HalData, WholeInv
  <2>2. CASE ~(player = "reset" /\ Exits)
    <3>1. /\ UNCHANGED <<toHal, fromPlayer, up>> /\ ready' = {} /\ ppc' = "select"
          /\ player' = IF player = "closed" THEN "reset" ELSE player
      BY <1>10, <2>2 DEF HalData, Handle
    <3> QED BY <1>1, <3>1 DEF WholeInv, Stream
  <2> QED BY <2>1, <2>2
<1>11. CASE HalLost
  <2>1. ~up BY <1>11 DEF HalLost, WholeInv
  <2> QED BY <1>7, <1>11, <2>1 DEF HalLost
<1> QED BY <1>3, <1>4, <1>5, <1>6, <1>8, <1>9, <1>10, <1>11 DEF Proxy

\* So does a step of the player, which answers with whole replies until it leaves.
LEMMA PlayerKeepsWhole ==
  ASSUME LinkTypes, LinkTypes', WholeInv, Player
  PROVE  WholeInv'
<1> USE DEF halVars, proxyVars, playerVars
<1>1. UNCHANGED <<up, hpc, torn, body, want, ppc, ready, toProxy, toHal>>
  BY DEF Player, PlayerConnects, PlayerAnswers, PlayerLeaves
<1>2. losses \in Nat BY DEF LinkTypes
<1>3. CASE PlayerConnects
  BY <1>1, <1>3 DEF PlayerConnects, WholeInv, Stream
<1>4. CASE PlayerLeaves
  <2>1. losses' > 0 BY <1>2, <1>4 DEF PlayerLeaves
  <2>2. losses' # 0 BY <1>2, <1>4 DEF PlayerLeaves
  <2> QED BY <1>1, <2>1, <2>2 DEF WholeInv
<1>5. CASE PlayerAnswers
  <2> DEFINE r == Reply(Head(toPlayer))
  <2>1. /\ UNCHANGED <<player, losses>> /\ toPlayer # <<>> /\ fromPlayer' = fromPlayer \o r
    BY <1>5 DEF PlayerAnswers
  <2>2. Head(toPlayer) \in Query BY <2>1, HeadTailProperties DEF LinkTypes
  <2>3. r \in Seq(Unit) BY <2>2, ReplyIs
  <2> HIDE DEF r
  <2>4. Stream \in Seq(Unit) BY Same
  <2>5. Stream' = Stream \o r
    <3>1. toHal \in Seq(Unit) /\ fromPlayer \in Seq(Unit) BY DEF LinkTypes
    <3>2. (toHal \o fromPlayer) \o r = toHal \o (fromPlayer \o r)
      BY <2>3, <3>1, UnitsAssociate, Zenon
    <3> QED BY <1>1, <2>1, <3>2 DEF Stream
  <2>6. Stream' \in Seq(Unit) /\ Joins(Stream', Stream, r) BY <2>3, <2>4, <2>5, Joined
  <2>7. Whole(Stream) => Whole(Stream')
    BY <2>2, <2>4, <2>6, WholeReply DEF r
  <2>8. OneReply(body, Stream, want) => OneReply(body, Stream', want)
    BY <2>4, <2>6, OneReplyKept
  <2> QED BY <1>1, <2>1, <2>7, <2>8 DEF WholeInv
<1> QED BY <1>3, <1>4, <1>5 DEF Player

\* WholeInv is inductive with the order of the link.
THEOREM WholeCorrect == Spec => []WholeInv
<1>1. Init => WholeInv
  <2> SUFFICES ASSUME Init PROVE WholeInv
    OBVIOUS
  <2>1. Stream = <<>> /\ Len(<<>>) = 0 BY EmptySeq, ConcatEmptySeq DEF Init, Stream
  <2>2. Whole(Stream) BY <2>1 DEF Whole
  <2> QED BY <2>2 DEF Init, WholeInv
<1>2. /\ LinkTypes /\ LinkTypes' /\ ChannelInv /\ WholeInv
      /\ [Next]_vars
      => WholeInv'
  <2> SUFFICES ASSUME LinkTypes, LinkTypes', ChannelInv, WholeInv, [Next]_vars
               PROVE  WholeInv'
    OBVIOUS
  <2>1. CASE Next
    BY <2>1, HalKeepsWhole, ProxyKeepsWhole, PlayerKeepsWhole DEF Next
  <2>2. CASE UNCHANGED vars
    BY <2>2 DEF vars, halVars, proxyVars, playerVars, WholeInv, Stream
  <2> QED BY <2>1, <2>2
<1> QED BY <1>1, <1>2, ChannelCorrect, PTL DEF Spec

\* A query uses a frame made of the pieces of two replies only after a player has left
\* in the middle of an answer: short reads, relayed bit by bit, and timeouts do not
\* suffice.
THEOREM FramesWhole == Spec => []FrameIsWhole
<1>1. WholeInv => FrameIsWhole BY DEF WholeInv, FrameIsWhole
<1> QED BY <1>1, WholeCorrect, PTL

-----------------------------------------------------------------------------
(* FrameDelivery: the types.                                                *)

USE FrameDeliveryAssumption

\* A step of the worker keeps the types of the data.
LEMMA WorkerKeepsData ==
  ASSUME DeliveryTypes, Worker
  PROVE  DataOK'
<1> USE DEF DeliveryTypes, DataOK, Labels, PreviewLabels, previewVars, videoVars, releaseVars
<1>1. CASE PreviewFrame BY <1>1 DEF PreviewFrame
<1>2. CASE SetBuffersGeometry BY <1>2 DEF SetBuffersGeometry
<1>3. CASE DequeueBuffer BY <1>3 DEF DequeueBuffer
<1>4. CASE LockBuffer BY <1>4 DEF LockBuffer
<1>5. CASE MapBuffer BY <1>5 DEF MapBuffer
<1>6. CASE DrawFrame BY <1>6 DEF DrawFrame
<1>7. CASE VideoFrame BY <1>7 DEF VideoFrame
<1>8. CASE GetMemory BY <1>8 DEF GetMemory
<1>9. CASE Callback BY <1>9 DEF Callback
<1>10. CASE BeginPush BY <1>10 DEF BeginPush
<1>11. CASE Push BY <1>11 DEF Push
<1> QED
  BY <1>1, <1>2, <1>3, <1>4, <1>5, <1>6, <1>7, <1>8, <1>9, <1>10, <1>11
  DEF Worker

\* The list without one of its nodes: those after it move up by one.
LEMMA Removed ==
  ASSUME NEW S, NEW s \in Seq(S), NEW k \in DOMAIN s
  PROVE  /\ RemoveAt(s, k) \in Seq(S)
         /\ Len(RemoveAt(s, k)) = Len(s) - 1
         /\ \A i \in 1 .. Len(s) - 1 :
              RemoveAt(s, k)[i] = IF i < k THEN s[i] ELSE s[i + 1]
<1> DEFINE a == SubSeq(s, 1, k - 1)
           b == SubSeq(s, k + 1, Len(s))
<1>1. /\ a \in Seq(S) /\ Len(a) = k - 1
      /\ \A i \in 1 .. k - 1 : a[i] = s[i]
  OBVIOUS
<1>2. /\ b \in Seq(S) /\ Len(b) = Len(s) - k
      /\ \A i \in 1 .. Len(s) - k : b[i] = s[i + k]
  OBVIOUS
<1>3. RemoveAt(s, k) = a \o b BY DEF RemoveAt
<1> HIDE DEF a, b
<1>4. /\ a \o b \in Seq(S) /\ Len(a \o b) = Len(s) - 1
      /\ \A i \in 1 .. Len(s) - 1 :
           (a \o b)[i] = IF i < k THEN a[i] ELSE b[i - (k - 1)]
  BY <1>1, <1>2
<1>5. Len(s) \in Nat /\ k \in 1 .. Len(s) OBVIOUS
<1>6. ASSUME NEW i \in 1 .. Len(s) - 1
      PROVE  RemoveAt(s, k)[i] = IF i < k THEN s[i] ELSE s[i + 1]
  <2>1. CASE i < k BY <1>1, <1>3, <1>4, <1>5, <2>1
  <2>2. CASE ~(i < k)
    <3>1. i - (k - 1) \in 1 .. Len(s) - k /\ i - (k - 1) + k = i + 1 BY <1>5, <2>2
    <3>2. b[i - (k - 1)] = s[i + 1] BY <1>2, <3>1
    <3> QED BY <1>3, <1>4, <2>2, <3>2
  <2> QED BY <2>1, <2>2
<1> QED BY <1>3, <1>4, <1>6

\* A step of the framework keeps the types of the data.
LEMMA FrameworkKeepsData ==
  ASSUME DeliveryTypes, Framework
  PROVE  DataOK'
<1> USE DEF DeliveryTypes, DataOK, previewVars, videoVars, releaseVars
<1>1. CASE setPreviewWindow BY <1>1 DEF setPreviewWindow
<1>2. CASE EnablePreview BY <1>2 DEF EnablePreview
<1>3. CASE RestartDevice BY <1>3 DEF RestartDevice
<1>4. CASE EnableMessage BY <1>4 DEF EnableMessage
<1>5. CASE enableVideoRecording BY <1>5 DEF enableVideoRecording
<1>6. CASE disableVideoRecording BY <1>6 DEF disableVideoRecording
<1>7. CASE releaseRecordingFrame BY <1>7 DEF releaseRecordingFrame
<1>8. CASE WalkList BY <1>8 DEF WalkList
<1>9. CASE EraseNode
  <2>1. RemoveAt(mCameraMemoryTs, it) \in Seq(Memory)
    BY <1>9, Removed DEF EraseNode
  <2> QED BY <1>9, <2>1 DEF EraseNode
<1> QED
  BY <1>1, <1>2, <1>3, <1>4, <1>5, <1>6, <1>7, <1>8, <1>9
  DEF Framework

\* A step keeps the types of the flags, which only the framework writes.
LEMMA StepKeepsFlags ==
  ASSUME DeliveryTypes, DeliveryNext
  PROVE  FlagsOK'
<1> USE DEF DeliveryTypes, FlagsOK, previewVars, videoVars, releaseVars
<1>1. CASE PreviewFrame BY <1>1 DEF PreviewFrame
<1>2. CASE SetBuffersGeometry BY <1>2 DEF SetBuffersGeometry
<1>3. CASE DequeueBuffer BY <1>3 DEF DequeueBuffer
<1>4. CASE LockBuffer BY <1>4 DEF LockBuffer
<1>5. CASE MapBuffer BY <1>5 DEF MapBuffer
<1>6. CASE DrawFrame BY <1>6 DEF DrawFrame
<1>7. CASE VideoFrame BY <1>7 DEF VideoFrame
<1>8. CASE GetMemory BY <1>8 DEF GetMemory
<1>9. CASE Callback BY <1>9 DEF Callback
<1>10. CASE Push BY <1>10 DEF Push
<1>11. CASE setPreviewWindow BY <1>11 DEF setPreviewWindow
<1>12. CASE EnablePreview BY <1>12 DEF EnablePreview
<1>13. CASE RestartDevice BY <1>13 DEF RestartDevice
<1>14. CASE EnableMessage BY <1>14 DEF EnableMessage
<1>15. CASE enableVideoRecording BY <1>15 DEF enableVideoRecording
<1>16. CASE disableVideoRecording BY <1>16 DEF disableVideoRecording
<1>17. CASE releaseRecordingFrame BY <1>17 DEF releaseRecordingFrame
<1>18. CASE BeginPush BY <1>18 DEF BeginPush
<1>19. CASE WalkList BY <1>19 DEF WalkList
<1>20. CASE EraseNode BY <1>20 DEF EraseNode
<1> QED
  BY <1>1, <1>2, <1>3, <1>4, <1>5, <1>6, <1>7, <1>8, <1>9, <1>10, <1>11, <1>12, <1>13, <1>14, <1>15, <1>16, <1>17, <1>18, <1>19, <1>20
  DEF DeliveryNext, Worker, Framework

\* Every variable of the frame delivery keeps its type.
THEOREM TypeCorrect == DeliverySpec => []DeliveryTypes
<1>1. DeliveryInit => DataOK
  BY DEF DeliveryInit, DataOK, Labels
<1>2. DeliveryInit => FlagsOK
  BY Zenon DEF DeliveryInit, FlagsOK
<1>3. DeliveryTypes /\ [DeliveryNext]_deliveryVars => DeliveryTypes'
  <2> SUFFICES ASSUME DeliveryTypes, [DeliveryNext]_deliveryVars PROVE DeliveryTypes'
    OBVIOUS
  <2>1. CASE DeliveryNext
    BY <2>1, WorkerKeepsData, FrameworkKeepsData, StepKeepsFlags DEF DeliveryNext, DeliveryTypes
  <2>2. CASE UNCHANGED deliveryVars
    <3>1. DataOK' BY <2>2 DEF deliveryVars, previewVars, videoVars, releaseVars, DeliveryTypes, DataOK
    <3>2. FlagsOK' BY <2>2 DEF deliveryVars, previewVars, videoVars, DeliveryTypes, FlagsOK
    <3> QED BY <3>1, <3>2 DEF DeliveryTypes
  <2> QED BY <2>1, <2>2
<1> QED BY <1>1, <1>2, <1>3, PTL DEF DeliverySpec, DeliveryTypes

-----------------------------------------------------------------------------
\* A step of the worker keeps the invariant of the preview.
LEMMA WorkerKeepsPreview ==
  ASSUME DeliveryTypes, PreviewInv, Worker
  PROVE  PreviewInv'
<1> USE DEF PreviewInv, PreviewSection, BufferGivenBack, previewLocked,
            PreviewLabels, previewVars
<1>1. CASE PreviewFrame BY <1>1 DEF PreviewFrame, DeliveryTypes, DataOK
<1>2. CASE SetBuffersGeometry BY <1>2 DEF SetBuffersGeometry, DeliveryTypes, DataOK
<1>3. CASE DequeueBuffer BY <1>3 DEF DequeueBuffer
<1>4. CASE LockBuffer BY <1>4 DEF LockBuffer
<1>5. CASE MapBuffer BY <1>5 DEF MapBuffer
<1>6. CASE DrawFrame BY <1>6 DEF DrawFrame
<1>7. CASE VideoFrame BY <1>7 DEF VideoFrame
<1>8. CASE GetMemory BY <1>8 DEF GetMemory
<1>9. CASE Callback BY <1>9 DEF Callback
<1>10. CASE BeginPush BY <1>10 DEF BeginPush
<1>11. CASE Push BY <1>11 DEF Push
<1> QED
  BY <1>1, <1>2, <1>3, <1>4, <1>5, <1>6, <1>7, <1>8, <1>9, <1>10, <1>11 DEF Worker

\* No step of the framework disturbs it: what PreviewWindow does is locked.
LEMMA FrameworkKeepsPreview ==
  ASSUME DeliveryTypes, PreviewInv, Framework
  PROVE  PreviewInv'
<1> USE DEF PreviewInv, PreviewSection, BufferGivenBack, previewLocked,
            PreviewLabels, previewVars
<1>1. CASE setPreviewWindow BY <1>1 DEF setPreviewWindow
<1>2. CASE EnablePreview BY <1>2 DEF EnablePreview
<1>3. CASE RestartDevice BY <1>3 DEF RestartDevice
<1>4. CASE EnableMessage BY <1>4 DEF EnableMessage
<1>5. CASE enableVideoRecording BY <1>5 DEF enableVideoRecording
<1>6. CASE disableVideoRecording BY <1>6 DEF disableVideoRecording
<1>7. CASE releaseRecordingFrame BY <1>7 DEF releaseRecordingFrame
<1>8. CASE WalkList BY <1>8 DEF WalkList
<1>9. CASE EraseNode BY <1>9 DEF EraseNode
<1> QED
  BY <1>1, <1>2, <1>3, <1>4, <1>5, <1>6, <1>7, <1>8, <1>9 DEF Framework

\* The invariant of the preview holds, whatever the windows refuse.
THEOREM PreviewCorrect == DeliverySpec => []PreviewInv
<1>1. DeliveryInit => PreviewInv
  BY DEF DeliveryInit, PreviewInv, PreviewSection, BufferGivenBack, previewLocked, PreviewLabels
<1>2. DeliveryTypes /\ PreviewInv /\ [DeliveryNext]_deliveryVars => PreviewInv'
  <2> SUFFICES ASSUME DeliveryTypes, PreviewInv, [DeliveryNext]_deliveryVars
               PROVE  PreviewInv'
    OBVIOUS
  <2>1. CASE UNCHANGED deliveryVars
    BY <2>1 DEF deliveryVars, previewVars, PreviewInv, PreviewSection, BufferGivenBack,
                previewLocked
  <2> QED BY <2>1, WorkerKeepsPreview, FrameworkKeepsPreview DEF DeliveryNext
<1> QED BY <1>1, <1>2, TypeCorrect, PTL DEF DeliverySpec

\* The window being drawn is the current one, every dequeued buffer is given back,
\* and every frame is drawn into a buffer of its own dimensions, unless the window
\* has refused them.
THEOREM PreviewSafe == DeliverySpec => [](PreviewSection /\ BufferGivenBack /\ PreviewInSync)
<1>1. PreviewInv => PreviewSection /\ BufferGivenBack /\ PreviewInSync
  BY DEF PreviewInv, PreviewInSync, previewLocked, PreviewLabels
<1> QED BY <1>1, PreviewCorrect, PTL

-----------------------------------------------------------------------------
(* The recorded frames.                                                     *)

\* What RecordingInv is about is left alone by every step that is not one of the
\* recording.
LEMMA OthersKeepRecording ==
  ASSUME RecordingInv, pc' = pc \/ (pc' \notin {"callback", "push", "link"}
                                   /\ pc \notin {"callback", "push", "link"}),
         UNCHANGED <<cam_buff, mCameraMemoryTs, recorder, early, opaque, it, rpc>>
  PROVE  RecordingInv'
BY DEF RecordingInv, GivenBackIsFreed, PushedIsHeld, ListedOnce, NotPassed, EarlyIsKept,
       Listed, Nodes

\* The steps of the worker that touch the recorded frames.
LEMMA RecordingKept ==
  ASSUME DeliveryTypes, RecordingInv, GetMemory \/ Callback \/ BeginPush
  PROVE  RecordingInv'
<1> USE DEF DeliveryTypes, DataOK, RecordingInv, GivenBackIsFreed, PushedIsHeld, ListedOnce,
            NotPassed, EarlyIsKept, Listed, Nodes, videoVars, releaseVars
<1>1. CASE GetMemory BY <1>1 DEF GetMemory
<1>2. CASE Callback BY <1>2 DEF Callback
<1>3. CASE BeginPush BY <1>3 DEF BeginPush
<1> QED BY <1>1, <1>2, <1>3

\* The nodes after push_back: those before it and one for the frame of the worker.
LEMMA PushNodes ==
  ASSUME DeliveryTypes, Push
  PROVE  /\ Nodes' = Nodes \cup {Len(mCameraMemoryTs) + 1}
         /\ Len(mCameraMemoryTs) + 1 \notin Nodes
         /\ mCameraMemoryTs'[Len(mCameraMemoryTs) + 1] = cam_buff
         /\ \A i \in Nodes : mCameraMemoryTs'[i] = mCameraMemoryTs[i]
         /\ \A i \in Nodes : i \in 1 .. Len(mCameraMemoryTs)
         /\ Listed' = Listed \cup {cam_buff}
<1> USE DEF DeliveryTypes, DataOK, Push, releaseVars
<1>1. mCameraMemoryTs \in Seq(Memory) /\ cam_buff \in Memory /\ rpc' = rpc /\ it' = it
  OBVIOUS
<1>2. /\ Len(mCameraMemoryTs') = Len(mCameraMemoryTs) + 1
      /\ mCameraMemoryTs'[Len(mCameraMemoryTs) + 1] = cam_buff
      /\ \A i \in 1 .. Len(mCameraMemoryTs) : mCameraMemoryTs'[i] = mCameraMemoryTs[i]
      /\ mCameraMemoryTs' \in Seq(Memory)
  BY <1>1
<1>3. rpc = "erase" => it \in 1 .. Len(mCameraMemoryTs)
  OBVIOUS
<1> HIDE DEF DeliveryTypes, DataOK, Push, releaseVars
<1>4. /\ Nodes = 1 .. Len(mCameraMemoryTs) \ (IF rpc = "erase" THEN {it} ELSE {})
      /\ Nodes' = 1 .. Len(mCameraMemoryTs) + 1 \ (IF rpc = "erase" THEN {it} ELSE {})
  BY <1>1, <1>2 DEF Nodes
<1>5. /\ Nodes' = Nodes \cup {Len(mCameraMemoryTs) + 1}
      /\ Len(mCameraMemoryTs) + 1 \notin Nodes
      /\ \A i \in Nodes : i \in 1 .. Len(mCameraMemoryTs)
  BY <1>1, <1>3, <1>4
<1>6. Listed' = Listed \cup {cam_buff}
  BY <1>2, <1>5 DEF Listed
<1> QED BY <1>2, <1>5, <1>6

\* push_back puts the frame of the worker, which is not in the list, at its end,
\* where the loop of releaseRecordingFrame has not been.
LEMMA PushKeepsRecording ==
  ASSUME DeliveryTypes, RecordingInv, Push
  PROVE  RecordingInv'
<1> DEFINE n == Len(mCameraMemoryTs) + 1
<1>1. /\ Nodes' = Nodes \cup {n} /\ n \notin Nodes
      /\ mCameraMemoryTs'[n] = cam_buff
      /\ \A i \in Nodes : mCameraMemoryTs'[i] = mCameraMemoryTs[i]
      /\ Listed' = Listed \cup {cam_buff}
  BY PushNodes
<1>2. /\ cam_buff' = NULL /\ pc' = "idle" /\ pc = "link"
      /\ UNCHANGED <<recorder, rpc, opaque, it, early>>
  BY DEF Push, releaseVars
<1>3. GivenBackIsFreed' BY <1>1, <1>2 DEF RecordingInv, GivenBackIsFreed, PushedIsHeld
<1>4. PushedIsHeld' BY <1>2 DEF PushedIsHeld
<1>5. NULL \notin Listed'
  <2>1. \A i \in Nodes : mCameraMemoryTs[i] \in Memory
    BY DEF DeliveryTypes, DataOK, Nodes
  <2>2. cam_buff \in Memory BY <1>2 DEF DeliveryTypes, DataOK
  <2> QED BY <1>1, <2>1, <2>2, FrameDeliveryAssumption DEF Listed
<1>6. ListedOnce' BY <1>1, <1>2, <1>5 DEF RecordingInv, ListedOnce, Listed
<1>7. NotPassed'
  <2> SUFFICES ASSUME rpc = "walk", n < it, cam_buff = opaque
               PROVE  FALSE
    BY <1>1, <1>2 DEF RecordingInv, NotPassed
  <2> QED BY DEF DeliveryTypes, DataOK
<1>8. EarlyIsKept' BY <1>1, <1>2 DEF RecordingInv, EarlyIsKept
<1> QED BY <1>3, <1>4, <1>6, <1>7, <1>8 DEF RecordingInv

\* A frame is given back, early or not; and each turn of the loop passes a node that
\* does not hold it, or finds the only one that does.
LEMMA ReleaseKeepsRecording ==
  ASSUME DeliveryTypes, RecordingInv, releaseRecordingFrame \/ WalkList
  PROVE  RecordingInv'
<1> USE DEF DeliveryTypes, DataOK, RecordingInv, GivenBackIsFreed, PushedIsHeld, ListedOnce,
            NotPassed, EarlyIsKept, Listed, Nodes
<1>1. CASE releaseRecordingFrame
  <2>1. PICK b \in recorder : /\ recorder' = recorder \ {b} /\ opaque' = b
                              /\ early' = early \cup ({b} \cap {cam_buff})
    BY <1>1 DEF releaseRecordingFrame
  <2>2. /\ rpc = "idle" /\ rpc' = "walk" /\ it' = 1
        /\ UNCHANGED <<pc, cam_buff, mCameraMemoryTs>>
    BY <1>1 DEF releaseRecordingFrame
  <2>3. b \in Memory /\ b # NULL /\ opaque = NULL BY <2>2
  <2>4. Nodes' = Nodes /\ Listed' = Listed BY <2>2
  <2>5. GivenBackIsFreed' /\ EarlyIsKept' BY <2>1, <2>2, <2>3, <2>4
  <2>6. PushedIsHeld' BY <2>1, <2>2, <2>3
  <2>7. ListedOnce' /\ NotPassed' BY <2>2, <2>4
  <2> QED BY <2>5, <2>6, <2>7
<1>2. CASE WalkList
  <2>1. CASE it > Len(mCameraMemoryTs) BY <1>2, <2>1 DEF WalkList
  <2>2. CASE it <= Len(mCameraMemoryTs) /\ mCameraMemoryTs[it] # opaque
    BY <1>2, <2>2 DEF WalkList
  <2>3. CASE it <= Len(mCameraMemoryTs) /\ mCameraMemoryTs[it] = opaque
    BY <1>2, <2>3 DEF WalkList
  <2> QED BY <2>1, <2>2, <2>3
<1> QED BY <1>1, <1>2

\* erase leaves the other nodes with the frames they hold.
LEMMA EraseKeepsRecording ==
  ASSUME DeliveryTypes, RecordingInv, EraseNode
  PROVE  RecordingInv'
<1> DEFINE n == Len(mCameraMemoryTs)
           old(i) == IF i < it THEN i ELSE i + 1
<1>1. /\ n \in Nat /\ it \in 1 .. n
      /\ Nodes = 1 .. n \ {it} /\ Nodes' = 1 .. n - 1
      /\ \A i \in 1 .. n - 1 : mCameraMemoryTs'[i] = mCameraMemoryTs[old(i)]
  <2>1. mCameraMemoryTs \in Seq(Memory) /\ it \in DOMAIN mCameraMemoryTs /\ rpc = "erase"
    BY DEF DeliveryTypes, DataOK, EraseNode
  <2>2. /\ RemoveAt(mCameraMemoryTs, it) \in Seq(Memory)
        /\ Len(RemoveAt(mCameraMemoryTs, it)) = n - 1
        /\ \A i \in 1 .. n - 1 :
             RemoveAt(mCameraMemoryTs, it)[i] =
               IF i < it THEN mCameraMemoryTs[i] ELSE mCameraMemoryTs[i + 1]
    BY <2>1, Removed
  <2>3. mCameraMemoryTs' = RemoveAt(mCameraMemoryTs, it) /\ rpc' = "idle"
    BY DEF EraseNode
  <2> QED BY <2>1, <2>2, <2>3 DEF Nodes
<1>2. /\ \A i \in Nodes' : old(i) \in Nodes
      /\ \A i, j \in Nodes' : old(i) = old(j) => i = j
      /\ \A k \in Nodes : \E i \in Nodes' : k = old(i)
  <2>1. \A i \in 1 .. n - 1 : old(i) \in 1 .. n \ {it} BY <1>1
  <2>2. \A i, j \in 1 .. n - 1 : old(i) = old(j) => i = j BY <1>1
  <2>3. ASSUME NEW k \in 1 .. n \ {it}
        PROVE  \E i \in 1 .. n - 1 : k = old(i)
    <3>1. CASE k < it
      <4>1. k \in 1 .. n - 1 /\ k = old(k) BY <1>1, <3>1
      <4> QED BY <4>1
    <3>2. CASE k > it
      <4>1. k - 1 \in 1 .. n - 1 /\ k = old(k - 1) BY <1>1, <3>2
      <4> QED BY <4>1
    <3> QED BY <1>1, <3>1, <3>2
  <2> QED BY <1>1, <2>1, <2>2, <2>3
<1>3. \A i \in Nodes' : mCameraMemoryTs'[i] = mCameraMemoryTs[old(i)]
  BY <1>1
<1> HIDE DEF old, n
<1>4. Listed' = Listed BY <1>2, <1>3 DEF Listed
<1>5. /\ rpc = "erase" /\ rpc' = "idle"
      /\ UNCHANGED <<pc, cam_buff, recorder, opaque, early>>
  BY DEF EraseNode
<1>6. GivenBackIsFreed' BY <1>4, <1>5 DEF RecordingInv, GivenBackIsFreed
<1>7. PushedIsHeld' BY <1>5 DEF RecordingInv, PushedIsHeld
<1>8. ListedOnce' BY <1>2, <1>3, <1>4, <1>5 DEF RecordingInv, ListedOnce
<1>9. NotPassed' BY <1>5 DEF RecordingInv, NotPassed
<1>10. EarlyIsKept' BY <1>4, <1>5 DEF RecordingInv, EarlyIsKept
<1> QED BY <1>6, <1>7, <1>8, <1>9, <1>10 DEF RecordingInv

\* The list of the recorded frames, its worker and its recorder agree at every step,
\* however the loop over it and push_back interleave.
THEOREM RecordingCorrect == DeliverySpec => []RecordingInv
<1>1. DeliveryInit => RecordingInv
  BY DEF DeliveryInit, RecordingInv, GivenBackIsFreed, PushedIsHeld, ListedOnce, NotPassed,
         EarlyIsKept, Listed, Nodes
<1>2. DeliveryTypes /\ RecordingInv /\ [DeliveryNext]_deliveryVars => RecordingInv'
  <2> SUFFICES ASSUME DeliveryTypes, RecordingInv, [DeliveryNext]_deliveryVars
               PROVE  RecordingInv'
    OBVIOUS
  <2>1. CASE GetMemory \/ Callback \/ BeginPush BY <2>1, RecordingKept
  <2>2. CASE Push BY <2>2, PushKeepsRecording
  <2>3. CASE releaseRecordingFrame \/ WalkList BY <2>3, ReleaseKeepsRecording
  <2>4. CASE EraseNode BY <2>4, EraseKeepsRecording
  <2>5. CASE PreviewFrame \/ SetBuffersGeometry \/ DequeueBuffer \/ LockBuffer
    BY <2>5, OthersKeepRecording
    DEF PreviewFrame, SetBuffersGeometry, DequeueBuffer, LockBuffer, videoVars, releaseVars
  <2>6. CASE MapBuffer \/ DrawFrame \/ VideoFrame
    BY <2>6, OthersKeepRecording DEF MapBuffer, DrawFrame, VideoFrame, videoVars, releaseVars
  <2>7. CASE setPreviewWindow \/ EnablePreview \/ RestartDevice
    BY <2>7, OthersKeepRecording
    DEF setPreviewWindow, EnablePreview, RestartDevice, videoVars, releaseVars
  <2>8. CASE EnableMessage \/ enableVideoRecording \/ disableVideoRecording
    BY <2>8, OthersKeepRecording
    DEF EnableMessage, enableVideoRecording, disableVideoRecording, releaseVars
  <2>9. CASE UNCHANGED deliveryVars
    BY <2>9, OthersKeepRecording DEF deliveryVars, videoVars, releaseVars
  <2> QED
    BY <2>1, <2>2, <2>3, <2>4, <2>5, <2>6, <2>7, <2>8, <2>9
    DEF DeliveryNext, Worker, Framework
<1> QED BY <1>1, <1>2, TypeCorrect, PTL DEF DeliverySpec

\* In particular a listed frame that the recorder has given back is freed by the call
\* that gives it back, unless that call came before push_back.
THEOREM ReleaseFrees == DeliverySpec => []GivenBackIsFreed
<1>1. RecordingInv => GivenBackIsFreed BY DEF RecordingInv
<1> QED BY <1>1, RecordingCorrect, PTL

-----------------------------------------------------------------------------
(* The buffers of the window, and the frame after the end of the recording. *)

\* A buffer is out of its window only between dequeueBuffer and the end of the
\* drawing; a frame that followed the end of the recording leaves the worker with
\* its tests of the flags still to make.
LateInv ==
  /\ held # NULL => pc \in {"lock", "map", "draw"}
  /\ late <= 1
  /\ late = 1 /\ ~recording => pc \notin {"getMemory", "callback"}

\* LateInv is inductive, whatever the windows and the recorder do.
THEOREM LateCorrect == DeliverySpec => []LateInv
<1>1. DeliveryInit => LateInv
  BY DEF DeliveryInit, LateInv
<1>2. DeliveryTypes /\ LateInv /\ [DeliveryNext]_deliveryVars => LateInv'
  <2> SUFFICES ASSUME DeliveryTypes, LateInv, [DeliveryNext]_deliveryVars
               PROVE  LateInv'
    OBVIOUS
  <2> USE DEF LateInv, previewVars, videoVars
  <2>1. CASE Worker
    <3>1. CASE PreviewFrame BY <3>1 DEF PreviewFrame
    <3>2. CASE SetBuffersGeometry BY <3>2 DEF SetBuffersGeometry
    <3>3. CASE DequeueBuffer BY <3>3 DEF DequeueBuffer
    <3>4. CASE LockBuffer BY <3>4 DEF LockBuffer
    <3>5. CASE MapBuffer BY <3>5 DEF MapBuffer
    <3>6. CASE DrawFrame BY <3>6 DEF DrawFrame
    <3>7. CASE VideoFrame BY <3>7 DEF VideoFrame
    <3>8. CASE GetMemory BY <3>8 DEF GetMemory
    <3>9. CASE Callback BY <3>9 DEF Callback, DeliveryTypes, DataOK
    <3>10. CASE BeginPush BY <3>10 DEF BeginPush
    <3>11. CASE Push BY <3>11 DEF Push
    <3> QED
      BY <2>1, <3>1, <3>2, <3>3, <3>4, <3>5, <3>6, <3>7, <3>8, <3>9, <3>10, <3>11
      DEF Worker
  <2>2. CASE Framework
    <3>1. CASE setPreviewWindow BY <3>1 DEF setPreviewWindow
    <3>2. CASE EnablePreview BY <3>2 DEF EnablePreview
    <3>3. CASE RestartDevice BY <3>3 DEF RestartDevice
    <3>4. CASE EnableMessage BY <3>4 DEF EnableMessage
    <3>5. CASE enableVideoRecording BY <3>5 DEF enableVideoRecording
    <3>6. CASE disableVideoRecording BY <3>6 DEF disableVideoRecording
    <3>7. CASE releaseRecordingFrame BY <3>7 DEF releaseRecordingFrame
    <3>8. CASE WalkList BY <3>8 DEF WalkList
    <3>9. CASE EraseNode BY <3>9 DEF EraseNode
    <3> QED
      BY <2>2, <3>1, <3>2, <3>3, <3>4, <3>5, <3>6, <3>7, <3>8, <3>9 DEF Framework
  <2>3. CASE UNCHANGED deliveryVars BY <2>3 DEF deliveryVars
  <2> QED BY <2>1, <2>2, <2>3 DEF DeliveryNext
<1> QED BY <1>1, <1>2, TypeCorrect, PTL DEF DeliverySpec

\* Whatever fails on the way, a dequeued buffer is back with its window before the
\* next frame.
THEOREM BuffersReturned == DeliverySpec => []BufferGivenBack
<1>1. LateInv => BufferGivenBack
  BY DEF LateInv, BufferGivenBack, previewLocked, PreviewLabels
<1> QED BY <1>1, LateCorrect, PTL

\* stop_recording, which does not wait for the worker, is followed by one recorded
\* frame at the most.
THEOREM LateFrames == DeliverySpec => []OneLateFrame
<1>1. LateInv => OneLateFrame BY DEF LateInv, OneLateFrame
<1> QED BY <1>1, LateCorrect, PTL
=============================================================================
