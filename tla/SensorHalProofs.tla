--------------------------- MODULE SensorHalProofs ---------------------------
(***************************************************************************)
(* Proofs about poll, for any number of clients, of records and of events  *)
(* the caller has room for.                                                *)
(***************************************************************************)
EXTENDS SensorHal, SequenceTheorems, FiniteSetTheorems, TLAPS

Events == Conns \cup {NULL}

\* The sequence of a client's events, as a read returns it.
LEMMA Repeated ==
  ASSUME NEW c \in Conns, NEW m \in Nat
  PROVE  /\ [k \in 1..m |-> c] \in Seq(Events)
         /\ Len([k \in 1..m |-> c]) = m
<1> DEFINE s == [k \in 1..m |-> c]
<1>1. s \in [1..m -> Events] /\ DOMAIN s = 1..m
  BY DEF Events
<1>2. s \in Seq(Events)
  BY <1>1, SeqDef
<1>3. 1..m = 1..Len(s) /\ Len(s) \in Nat
  BY <1>1, <1>2, LenProperties
<1> HIDE DEF s
<1>4. Len(s) = m
  BY <1>3
<1> QED
  BY <1>2, <1>4 DEF s

-----------------------------------------------------------------------------
(* Types, and what fits.                                                    *)

SlotTypes ==
  /\ ready \subseteq Slots
  /\ clientsSocks \in [Slots -> Events]
  /\ pending \in Seq(Conns) /\ used \in Nat

StreamTypes == stream \in [Conns -> Seq({1, 2})] /\ next \in [Conns -> {1, 2}]

DataTypes ==
  /\ data \in Seq(Events) /\ Len(data) <= Count
  /\ lastEvent \in Events

\* A slot that is to be read has a client: select found it, and only its own read frees it.
ReadyHasClient == ppc = "read" => \A i \in ready : clientsSocks[i] \in Conns

FitInv == SlotTypes /\ StreamTypes /\ DataTypes /\ ReadyHasClient

LEMMA FitInit == Init => FitInv
<1> SUFFICES ASSUME Init PROVE FitInv
  OBVIOUS
<1>1. SlotTypes
  BY DEF Init, SlotTypes, Events
<1>2. StreamTypes
  BY DEF Init, StreamTypes
<1>3. DataTypes
  BY EmptySeq, SensorAssumption DEF Init, DataTypes, Events
<1>4. ReadyHasClient
  BY DEF Init, ReadyHasClient
<1> QED
  BY <1>1, <1>2, <1>3, <1>4 DEF FitInv

\* What a read leaves in the stream.
LEMMA RestOfStream ==
  ASSUME NEW q \in Seq({1, 2}), NEW n \in Nat, n <= Len(q)
  PROVE  /\ SubSeq(q, n + 1, Len(q)) \in Seq({1, 2})
         /\ Len(SubSeq(q, n + 1, Len(q))) = Len(q) - n
         /\ \A i \in 1..(Len(q) - n) : SubSeq(q, n + 1, Len(q))[i] = q[n + i]
<1> DEFINE l == Len(q)
           a == n + 1
           r == SubSeq(q, a, l)
<1>1. l \in Nat /\ \A i \in 1..l : q[i] \in {1, 2}
  BY LenProperties, ElementOfSeq
<1>2. a \in Int /\ l \in Int /\ \A i \in a..l : q[i] \in {1, 2}
  BY <1>1
<1> HIDE DEF l, a
<1>3. /\ r \in Seq({1, 2}) /\ Len(r) = (IF a <= l THEN l - a + 1 ELSE 0)
      /\ \A i \in 1 .. l - a + 1 : r[i] = q[a + i - 1]
  BY <1>2, SubSeqProperties
<1> HIDE DEF r
<1>4. Len(r) = l - n /\ \A i \in 1..(l - n) : r[i] = q[n + i]
  <2>1. a = n + 1 /\ n <= l /\ l \in Nat
    BY <1>1 DEF a, l
  <2>2. ASSUME NEW i \in 1..(l - n) PROVE r[i] = q[n + i]
    <3>1. i \in 1 .. l - a + 1 /\ a + i - 1 = n + i
      BY <2>1
    <3> QED
      BY <1>3, <3>1
  <2> QED
    BY <1>3, <2>1, <2>2
<1> QED
  BY <1>3, <1>4 DEF r, a, l

\* A read of n halves adds at most n \div 2 events.
LEMMA ReadFits ==
  ASSUME FitInv, NEW c \in Conns, NEW n \in Nat, n <= Len(stream[c]), n <= 2 * Room,
         stream[c] # <<>>, Read(c, n)
  PROVE  DataTypes' /\ stream' \in [Conns -> Seq({1, 2})]
<1>1. stream[c] \in Seq({1, 2}) /\ stream \in [Conns -> Seq({1, 2})]
  BY DEF FitInv, StreamTypes
<1>2. stream' \in [Conns -> Seq({1, 2})]
  BY <1>1, RestOfStream DEF Read
<1>3. data \in Seq(Events) /\ Len(data) \in Nat /\ Len(data) <= Count /\ lastEvent \in Events
  BY LenProperties DEF FitInv, DataTypes
<1>4. CASE UNCHANGED <<data, lastEvent>>
  BY <1>2, <1>3, <1>4 DEF DataTypes
<1>5. CASE data' = data \o <<>> /\ lastEvent' \in Events
  BY <1>2, <1>3, <1>5, ConcatEmptySeq DEF DataTypes
<1>6. CASE data' = data \o [k \in 1..(n \div 2) |-> c] /\ lastEvent' \in Events
  <2> DEFINE m == n \div 2
             ev == [k \in 1..m |-> c]
  <2>1. m \in Nat /\ 2 * m <= n
    OBVIOUS
  <2>2. m <= Count - Len(data)
    BY <1>3, <2>1, SensorAssumption DEF Room
  <2> HIDE DEF m
  <2>3. ev \in Seq(Events) /\ Len(ev) = m
    BY <2>1, Repeated
  <2> HIDE DEF ev
  <2>4. data' = data \o ev
    BY <1>6 DEF ev, m
  <2>5. data' \in Seq(Events) /\ Len(data') = Len(data) + m
    BY <1>3, <2>3, <2>4, ConcatProperties
  <2> QED
    BY <1>2, <1>3, <1>6, <2>1, <2>2, <2>5, SensorAssumption DEF DataTypes
<1> QED
  BY <1>3, <1>4, <1>5, <1>6 DEF Read, Added, Events

\* A connection that is accepted.
LEMMA AcceptFits ==
  ASSUME FitInv, pending # <<>>, acceptNewClient
  PROVE  /\ clientsSocks' \in [Slots -> Events] /\ pending' \in Seq(Conns)
         /\ \A i \in Slots : clientsSocks[i] \in Conns => clientsSocks'[i] = clientsSocks[i]
<1>1. Head(pending) \in Conns /\ Tail(pending) \in Seq(Conns)
  BY HeadTailProperties DEF FitInv, SlotTypes
<1>2. clientsSocks \in [Slots -> Events]
  BY DEF FitInv, SlotTypes
<1>3. NULL \notin Conns
  BY SensorAssumption DEF Conns
<1>4. pending' = Tail(pending)
  BY DEF acceptNewClient
<1>5. CASE UNCHANGED clientsSocks
  BY <1>1, <1>2, <1>4, <1>5
<1>6. ASSUME NEW i \in Slots, FirstFree(i),
             clientsSocks' = [clientsSocks EXCEPT ![i] = Head(pending)]
      PROVE  /\ clientsSocks' \in [Slots -> Events]
             /\ \A j \in Slots : clientsSocks[j] \in Conns => clientsSocks'[j] = clientsSocks[j]
  BY <1>1, <1>2, <1>3, <1>6 DEF FirstFree, Events
<1> QED
  BY <1>1, <1>4, <1>5, <1>6 DEF acceptNewClient

LEMMA PollFits == ASSUME FitInv, Poll PROVE FitInv'
<1> USE DEF FitInv
<1>1. CASE Call
  <2>1. SlotTypes' /\ StreamTypes' /\ ReadyHasClient'
    BY <1>1 DEF Call, SlotTypes, StreamTypes, ReadyHasClient, acceptVars, clientVars
  <2>2. DataTypes'
    BY <1>1, EmptySeq, SensorAssumption DEF Call, DataTypes
  <2> QED
    BY <2>1, <2>2
<1>2. CASE Select
  <2>1. StreamTypes' /\ DataTypes'
    BY <1>2 DEF Select, StreamTypes, DataTypes, clientVars
  <2>2. /\ clientsSocks' \in [Slots -> Events] /\ pending' \in Seq(Conns)
        /\ \A i \in Slots : clientsSocks[i] \in Conns => clientsSocks'[i] = clientsSocks[i]
    <3>1. CASE pending # <<>> /\ acceptNewClient
      BY <3>1, AcceptFits
    <3>2. CASE UNCHANGED acceptVars
      BY <3>2 DEF acceptVars, SlotTypes
    <3> QED
      BY <1>2, <3>1, <3>2 DEF Select
  <2>3. ready' \subseteq Slots /\ \A i \in ready' : clientsSocks[i] \in Conns
    BY <1>2 DEF Select, Selected, Readable, SlotTypes, Events
  <2>4. SlotTypes' /\ ReadyHasClient'
    BY <1>2, <2>2, <2>3 DEF Select, SlotTypes, ReadyHasClient, clientVars
  <2> QED
    BY <2>1, <2>4
<1>3. ASSUME NEW i \in Slots, ReadData(i) PROVE FitInv'
  <2> DEFINE c == clientsSocks[i]
  <2>1. c \in Conns
    BY <1>3 DEF ReadData, ReadyHasClient
  <2>2. SlotTypes' /\ ReadyHasClient'
    <3>1. /\ ready' = ready \ {i} /\ UNCHANGED <<ppc, pending, used>>
          /\ UNCHANGED clientsSocks \/ clientsSocks' = [clientsSocks EXCEPT ![i] = NULL]
      BY <1>3 DEF ReadData, clientVars
    <3> QED
      BY <3>1 DEF SlotTypes, ReadyHasClient, Events
  <2>3. UNCHANGED next
    BY <1>3 DEF ReadData, clientVars
  <2>4. CASE UNCHANGED <<data, lastEvent, stream>>
    BY <2>2, <2>3, <2>4 DEF StreamTypes, DataTypes
  <2>5. ASSUME stream[c] # <<>>, NEW n \in {Len(stream[c]), 2 * Room},
               n <= Len(stream[c]), n <= 2 * Room, Read(c, n)
        PROVE  FitInv'
    <3>1. Len(stream[c]) \in Nat /\ Room \in Nat
      BY <2>1, <1>3, LenProperties, SensorAssumption DEF StreamTypes, DataTypes, ReadData, Room
    <3>2. n \in Nat
      BY <2>5, <3>1
    <3>3. DataTypes' /\ stream' \in [Conns -> Seq({1, 2})]
      BY <2>1, <2>5, <3>2, ReadFits
    <3> QED
      BY <2>2, <2>3, <3>3 DEF StreamTypes
  <2> QED
    BY <1>3, <2>4, <2>5 DEF ReadData
<1>4. CASE Return
  <2>1. SlotTypes' /\ StreamTypes' /\ ReadyHasClient'
    BY <1>4 DEF Return, useLastData, SlotTypes, StreamTypes, ReadyHasClient, acceptVars, clientVars
  <2>2. CASE data' = data
    BY <1>4, <2>1, <2>2 DEF Return, useLastData, DataTypes
  <2>3. ASSUME NEW e \in Events, data' = <<e>> PROVE FitInv'
    <3>1. data' \in Seq(Events) /\ Len(data') = 1
      BY <2>3
    <3> QED
      BY <1>4, <2>1, <3>1, SensorAssumption DEF Return, useLastData, DataTypes
  <2>4. lastEvent \in Events /\ NULL \in Events
    BY DEF DataTypes, Events
  <2>5. data' = data \/ (\E e \in Events : data' = <<e>>)
    BY <1>4, <2>4 DEF Return, useLastData
  <2> QED
    BY <2>2, <2>3, <2>5
<1> QED
  BY <1>1, <1>2, <1>3, <1>4 DEF Poll

\* What arrives, after what is there.
LEMMA SentHalves ==
  ASSUME NEW q \in Seq({1, 2})
  PROVE  /\ q \o <<1, 2>> \in Seq({1, 2}) /\ Len(q \o <<1, 2>>) = Len(q) + 2
         /\ q \o <<2>> \in Seq({1, 2}) /\ Len(q \o <<2>>) = Len(q) + 1
         /\ Append(q, 1) \in Seq({1, 2}) /\ Len(Append(q, 1)) = Len(q) + 1
         /\ \A i \in 1..Len(q) : /\ (q \o <<1, 2>>)[i] = q[i]
                                 /\ (q \o <<2>>)[i] = q[i] /\ Append(q, 1)[i] = q[i]
         /\ (q \o <<1, 2>>)[Len(q) + 1] = 1 /\ (q \o <<1, 2>>)[Len(q) + 2] = 2
         /\ (q \o <<2>>)[Len(q) + 1] = 2 /\ Append(q, 1)[Len(q) + 1] = 1
<1>1. Len(q) \in Nat
  BY LenProperties
<1>2. /\ <<1, 2>> \in Seq({1, 2}) /\ Len(<<1, 2>>) = 2 /\ <<1, 2>>[1] = 1 /\ <<1, 2>>[2] = 2
      /\ <<2>> \in Seq({1, 2}) /\ Len(<<2>>) = 1 /\ <<2>>[1] = 2
  OBVIOUS
<1>3. /\ Append(q, 1) \in Seq({1, 2}) /\ Len(Append(q, 1)) = Len(q) + 1
      /\ \A i \in 1..Len(q) : Append(q, 1)[i] = q[i]
      /\ Append(q, 1)[Len(q) + 1] = 1
  BY AppendProperties
<1>4. ASSUME NEW t \in Seq({1, 2}), NEW m \in Nat, Len(t) = m
      PROVE  /\ q \o t \in Seq({1, 2}) /\ Len(q \o t) = Len(q) + m
             /\ \A i \in 1..Len(q) : (q \o t)[i] = q[i]
             /\ \A i \in 1..m : (q \o t)[Len(q) + i] = t[i]
  <2> DEFINE r == q \o t
  <2>1. /\ r \in Seq({1, 2}) /\ Len(r) = Len(q) + m
        /\ \A i \in 1 .. Len(q) + m : r[i] = IF i <= Len(q) THEN q[i] ELSE t[i - Len(q)]
    BY <1>4, ConcatProperties
  <2> HIDE DEF r
  <2>2. \A i \in 1..Len(q) : r[i] = q[i]
    BY <1>1, <2>1
  <2>3. ASSUME NEW i \in 1..m PROVE r[Len(q) + i] = t[i]
    <3>1. Len(q) + i \in 1 .. Len(q) + m /\ ~(Len(q) + i <= Len(q)) /\ Len(q) + i - Len(q) = i
      BY <1>1
    <3> QED
      BY <2>1, <3>1
  <2> QED
    BY <2>1, <2>2, <2>3 DEF r
<1> QED
  BY <1>2, <1>3, <1>4

LEMMA SendFits ==
  ASSUME FitInv, NEW c \in Conns, Send(c) PROVE StreamTypes'
<1>1. stream \in [Conns -> Seq({1, 2})] /\ next \in [Conns -> {1, 2}]
  BY DEF FitInv, StreamTypes
<1>2. \E q \in {stream[c] \o <<1, 2>>, stream[c] \o <<2>>, Append(stream[c], 1)} :
        stream' = [stream EXCEPT ![c] = q]
  BY DEF Send
<1>3. next' \in [Conns -> {1, 2}]
  BY <1>1 DEF Send
<1>4. PICK q \in {stream[c] \o <<1, 2>>, stream[c] \o <<2>>, Append(stream[c], 1)} :
        stream' = [stream EXCEPT ![c] = q]
  BY <1>2, Zenon
<1>5. stream[c] \in Seq({1, 2})
  BY <1>1
<1>6. q \in Seq({1, 2})
  BY <1>5, SentHalves, Zenon
<1>7. stream' \in [Conns -> Seq({1, 2})]
  BY <1>1, <1>4, <1>6
<1> QED
  BY <1>3, <1>7 DEF StreamTypes

LEMMA FitNext == FitInv /\ [Next]_vars => FitInv'
<1> SUFFICES ASSUME FitInv, [Next]_vars PROVE FitInv'
  OBVIOUS
<1>1. CASE SelectFails
  <2>1. SlotTypes'
    BY <1>1 DEF SelectFails, FitInv, SlotTypes, Events, clientVars
  <2>2. StreamTypes'
    <3>1. stream \in [Conns -> Seq({1, 2})] /\ <<>> \in Seq({1, 2})
      BY EmptySeq DEF FitInv, StreamTypes
    <3>2. \/ UNCHANGED stream
          \/ stream' = [c \in Conns |-> IF c \in Connected THEN <<>> ELSE stream[c]]
      BY <1>1 DEF SelectFails
    <3>3. stream' \in [Conns -> Seq({1, 2})]
      BY <3>1, <3>2
    <3> QED
      BY <1>1, <3>3 DEF SelectFails, FitInv, StreamTypes, clientVars
  <2>3. DataTypes' /\ ReadyHasClient'
    BY <1>1 DEF SelectFails, FitInv, DataTypes, ReadyHasClient
  <2> QED
    BY <2>1, <2>2, <2>3 DEF FitInv
<1>2. CASE activate \/ UNCHANGED vars
  BY <1>2 DEF activate, vars, pollVars, acceptVars, clientVars, FitInv, SlotTypes,
              StreamTypes, DataTypes, ReadyHasClient
<1>3. CASE Connect
  <2>1. used' \in Conns /\ used' \in Nat /\ pending' = Append(pending, used')
    BY <1>3, SensorAssumption DEF Connect, Conns, FitInv, SlotTypes
  <2>2. pending' \in Seq(Conns)
    BY <2>1, AppendProperties DEF FitInv, SlotTypes
  <2> QED
    BY <1>3, <2>1, <2>2 DEF Connect, pollVars, FitInv, SlotTypes, StreamTypes, DataTypes,
                            ReadyHasClient
<1>4. ASSUME NEW c \in Conns, Send(c) PROVE FitInv'
  BY <1>4, SendFits DEF Send, pollVars, acceptVars, FitInv, SlotTypes, StreamTypes,
                        DataTypes, ReadyHasClient
<1>5. ASSUME NEW c \in Conns, Leave(c) PROVE FitInv'
  BY <1>5 DEF Leave, pollVars, acceptVars, FitInv, SlotTypes,
              StreamTypes, DataTypes, ReadyHasClient
<1> QED
  BY <1>1, <1>2, <1>3, <1>4, <1>5, PollFits DEF Next, Clients

\* poll returns no more events than the caller has room for.
THEOREM EventsFit == Spec => []FitsInData
<1>1. FitInv => FitsInData
  BY DEF FitInv, DataTypes, FitsInData
<1> QED
  BY <1>1, FitInit, FitNext, PTL DEF Spec

-----------------------------------------------------------------------------
(* Every record is returned once.                                           *)

\* How many events of s are of client c.
Tally(s, c) == Cardinality({k \in 1..Len(s) : s[k] = c})

LEMMA TallyIsNat == ASSUME NEW s \in Seq(Events), NEW c PROVE Tally(s, c) \in Nat
<1>1. IsFiniteSet(1..Len(s))
  BY LenProperties, FS_Interval
<1> DEFINE T == {k \in 1..Len(s) : s[k] = c}
<1>2. T \subseteq 1..Len(s)
  OBVIOUS
<1> HIDE DEF T
<1>3. IsFiniteSet(T)
  BY <1>1, <1>2, FS_Subset
<1> QED
  BY <1>3, FS_CardinalityType DEF Tally, T

\* What m events of client c add.
LEMMA TallyAdds ==
  ASSUME NEW s \in Seq(Events), NEW c \in Conns, NEW m \in Nat, NEW d \in Conns
  PROVE  Tally(s \o [k \in 1..m |-> c], d) = IF d = c THEN Tally(s, d) + m ELSE Tally(s, d)
<1> DEFINE e == [k \in 1..m |-> c]
           t == s \o e
           l == Len(s)
           S == {k \in 1..l : s[k] = d}
           T == {k \in 1..Len(t) : t[k] = d}
<1>1. e \in Seq(Events) /\ Len(e) = m /\ \A k \in 1..m : e[k] = c
  BY Repeated
<1> HIDE DEF e
<1>2. l \in Nat /\ Len(t) = l + m
      /\ \A k \in 1 .. l + m : t[k] = IF k <= l THEN s[k] ELSE e[k - l]
  BY <1>1, ConcatProperties, LenProperties
<1> HIDE DEF t, l
<1>3. \A k \in 1..l : k \in 1 .. l + m /\ t[k] = s[k]
  BY <1>2
<1>4. ASSUME NEW k \in (l + 1)..(l + m) PROVE k \in 1 .. l + m /\ t[k] = c
  <2>1. k \in 1 .. l + m /\ ~(k <= l) /\ k - l \in 1..m
    BY <1>2
  <2> QED
    BY <1>1, <1>2, <2>1
<1>5. CASE d = c
  <2> DEFINE A == (l + 1)..(l + m)
  <2>1. T = S \cup A
    BY <1>2, <1>3, <1>4, <1>5
  <2>2. S \cap A = {} /\ S \subseteq 1..l
    BY <1>2
  <2>3. IsFiniteSet(1..l) /\ IsFiniteSet(A) /\ Cardinality(A) = m
    BY <1>2, FS_Interval
  <2> HIDE DEF S, T, A
  <2>4. IsFiniteSet(S)
    BY <2>2, <2>3, FS_Subset
  <2>5. Cardinality(T) = Cardinality(S) + Cardinality(A) - Cardinality(S \cap A)
    BY <2>1, <2>3, <2>4, FS_Union
  <2>6. Cardinality(S \cap A) = 0 /\ Cardinality(S) \in Nat
    BY <2>2, <2>4, FS_EmptySet, FS_CardinalityType
  <2>7. Cardinality(T) = Cardinality(S) + m
    BY <2>3, <2>5, <2>6
  <2> QED
    BY <1>5, <2>7 DEF Tally, S, T, t, l, e
<1>6. CASE d # c
  <2>1. T = S
    BY <1>2, <1>3, <1>4, <1>6
  <2> QED
    BY <1>6, <2>1 DEF Tally, t, l, e
<1> QED
  BY <1>5, <1>6

\* A connection that is not accepted has sent nothing, and is accepted once.
FreshInv ==
  /\ \A i \in 1..Len(pending) : pending[i] <= used
  /\ \A i, j \in 1..Len(pending) : pending[i] = pending[j] => i = j
  /\ \A c \in Conns :
       c > used \/ (\E i \in 1..Len(pending) : pending[i] = c)
         => stream[c] = <<>> /\ next[c] = 1 /\ c \notin Connected

\* Until a read ends inside a record, what is on the way starts with a record.
Half(i) == IF i % 2 = 1 THEN 1 ELSE 2
Aligned(q) == \A i \in 1..Len(q) : q[i] = Half(i)

AlignInv ==
  \A c \in Conns : c \notin split =>
    /\ Aligned(stream[c])
    /\ c \in Connected => (next[c] = 1 <=> Len(stream[c]) % 2 = 0)

\* What is owed is what is in data.
OwedInv ==
  /\ ppc = "select" => data = <<>>
  /\ split \subseteq Conns /\ owed \in [Conns -> Nat]
  /\ \A c \in Conns : c \notin split =>
       owed[c] = IF ppc = "read" THEN 2 * Tally(data, c) ELSE 0

LossInv == FitInv /\ FreshInv /\ AlignInv /\ OwedInv

LEMMA LossInit == Init => LossInv
<1> SUFFICES ASSUME Init PROVE LossInv
  OBVIOUS
<1>0. NULL \notin Conns
  BY SensorAssumption DEF Conns
<1>1. \A i \in 1..Len(pending) : FALSE
  BY DEF Init
<1>2. FreshInv
  BY <1>0, <1>1 DEF Init, FreshInv, Connected
<1>3. AlignInv
  <2>1. \A c \in Conns : stream[c] = <<>> /\ c \notin Connected
    BY <1>0 DEF Init, Connected
  <2>2. Aligned(<<>>)
    BY DEF Aligned
  <2> QED
    BY <2>1, <2>2 DEF AlignInv
<1>4. OwedInv
  BY DEF Init, OwedInv
<1> QED
  BY <1>2, <1>3, <1>4, FitInit DEF LossInv

\* Steps that leave the connections alone.
LEMMA FreshFramed ==
  ASSUME FreshInv, UNCHANGED <<pending, used, stream, next>>,
         \A c \in Conns : c \in Connected' => c \in Connected
  PROVE  FreshInv'
BY DEF FreshInv

LEMMA AlignFramed ==
  ASSUME AlignInv, UNCHANGED <<split, stream, next>>,
         \A c \in Conns : c \in Connected' => c \in Connected
  PROVE  AlignInv'
BY DEF AlignInv, Aligned, Half

\* An event sequence that is empty.
LEMMA TallyEmpty == ASSUME NEW c PROVE Tally(<<>>, c) = 0
<1>1. {k \in 1..Len(<<>>) : <<>>[k] = c} = {}
  BY EmptySeq
<1> QED
  BY <1>1, FS_EmptySet DEF Tally

LEMMA SelectLoss == ASSUME LossInv, Select PROVE FreshInv' /\ AlignInv' /\ OwedInv'
<1>1. FitInv /\ FreshInv /\ AlignInv /\ OwedInv
  BY DEF LossInv
<1>2. UNCHANGED <<data, used, stream, next, split, owed>> /\ ppc = "select" /\ ppc' = "read"
  BY DEF Select, clientVars
<1>3. OwedInv'
  <2>1. \A c \in Conns : Tally(data, c) = 0
    BY <1>1, <1>2, TallyEmpty DEF OwedInv
  <2> QED
    BY <1>1, <1>2, <2>1 DEF OwedInv
<1>4. CASE UNCHANGED clientsSocks /\ UNCHANGED pending
  BY <1>1, <1>2, <1>3, <1>4, FreshFramed, AlignFramed DEF Connected
<1>5. CASE pending # <<>> /\ acceptNewClient
  <2> DEFINE h == Head(pending)
             q == Tail(pending)
  <2>1. pending \in Seq(Conns) /\ clientsSocks \in [Slots -> Events]
    BY <1>1 DEF FitInv, SlotTypes
  <2>2. /\ h = pending[1] /\ h \in Conns /\ 1 \in 1..Len(pending) /\ Len(pending) \in Nat
        /\ Len(q) = Len(pending) - 1 /\ \A i \in 1..Len(q) : q[i] = pending[i + 1]
    BY <1>5, <2>1, HeadTailProperties, EmptySeq
  <2>3. pending' = q
    BY <1>5 DEF acceptNewClient
  <2> HIDE DEF q
  <2>4. \A i \in 1..Len(q) : i + 1 \in 1..Len(pending) /\ q[i] = pending[i + 1]
    BY <2>2
  <2>5. \A c \in Conns : c \in Connected' => c \in Connected \/ c = h
    BY <1>5, <2>1 DEF acceptNewClient, Connected
  <2>6. h <= used /\ stream[h] = <<>> /\ next[h] = 1
    BY <1>1, <2>2 DEF FreshInv
  <2>7. \A i \in 1..Len(q) : q[i] <= used /\ q[i] # h
    <3> SUFFICES ASSUME NEW i \in 1..Len(q) PROVE q[i] <= used /\ q[i] # h
      OBVIOUS
    <3>1. i + 1 \in 1..Len(pending) /\ i + 1 # 1 /\ q[i] = pending[i + 1]
      BY <2>2, <2>4
    <3> QED
      BY <1>1, <2>2, <3>1 DEF FreshInv
  <2>8. \A i, j \in 1..Len(q) : q[i] = q[j] => i = j
    <3> SUFFICES ASSUME NEW i \in 1..Len(q), NEW j \in 1..Len(q), q[i] = q[j] PROVE i = j
      OBVIOUS
    <3>1. /\ i + 1 \in 1..Len(pending) /\ q[i] = pending[i + 1]
          /\ j + 1 \in 1..Len(pending) /\ q[j] = pending[j + 1]
      BY <2>4
    <3>2. i + 1 = j + 1
      BY <1>1, <3>1 DEF FreshInv
    <3> QED
      BY <2>2, <3>2
  <2>9. FreshInv'
    <3>1. ASSUME NEW c \in Conns,
                 c > used \/ (\E i \in 1..Len(q) : q[i] = c)
          PROVE  stream[c] = <<>> /\ next[c] = 1 /\ c \notin Connected'
      <4>1. c # h
        BY <1>1, <2>2, <2>6, <2>7, <3>1 DEF FitInv, SlotTypes, Conns
      <4>2. c > used \/ (\E i \in 1..Len(pending) : pending[i] = c)
        BY <2>4, <3>1
      <4> QED
        BY <1>1, <2>5, <4>1, <4>2 DEF FreshInv
    <3> QED
      BY <1>2, <2>3, <2>7, <2>8, <3>1 DEF FreshInv
  <2>10. AlignInv'
    <3>1. Len(stream[h]) % 2 = 0 /\ next[h] = 1
      BY <2>6
    <3> QED
      BY <1>1, <1>2, <2>5, <3>1 DEF AlignInv, Aligned, Half
  <2> QED
    BY <1>3, <2>9, <2>10
<1> QED
  BY <1>4, <1>5 DEF Select, acceptVars

LEMMA SelectFailsLoss == ASSUME LossInv, SelectFails PROVE FreshInv' /\ AlignInv' /\ OwedInv'
<1>1. FitInv /\ FreshInv /\ AlignInv /\ OwedInv
  BY DEF LossInv
<1>2. /\ UNCHANGED <<data, used, next, split, owed, pending>>
      /\ ppc = "select" /\ ppc' \in {"select", "exited"}
  BY DEF SelectFails, clientVars
<1>3. OwedInv'
  BY <1>1, <1>2 DEF OwedInv
<1>4. CASE UNCHANGED <<clientsSocks, stream>>
  BY <1>1, <1>2, <1>3, <1>4, FreshFramed, AlignFramed DEF Connected
<1>5. CASE /\ clientsSocks' = [i \in Slots |-> NULL]
           /\ stream' = [c \in Conns |-> IF c \in Connected THEN <<>> ELSE stream[c]]
  <2>1. \A c \in Conns : c \notin Connected'
    BY <1>5, SensorAssumption DEF Connected, Conns
  <2>2. \A c \in Conns : stream'[c] = stream[c] \/ stream'[c] = <<>>
    BY <1>5
  <2>3. FreshInv'
    BY <1>1, <1>2, <2>1, <2>2 DEF FreshInv
  <2>4. Aligned(<<>>)
    BY DEF Aligned
  <2>5. AlignInv'
    <3> SUFFICES ASSUME NEW c \in Conns, c \notin split PROVE Aligned(stream'[c])
      BY <1>2, <2>1 DEF AlignInv, Aligned, Half
    <3>1. Aligned(stream[c])
      BY <1>1 DEF AlignInv
    <3> QED
      BY <2>2, <2>4, <3>1, Zenon
  <2> QED
    BY <1>3, <2>3, <2>5
<1> QED
  BY <1>4, <1>5 DEF SelectFails

LEMMA Parity ==
  /\ \A n, i \in Nat : n % 2 = 0 => (n + i) % 2 = i % 2
  /\ \A n, i \in Nat : n % 2 = 0 /\ n <= i => (i - n) % 2 = i % 2
  /\ \A n \in Nat : n % 2 \in {0, 1}
  /\ \A n \in Nat : n % 2 = 0 => (n + 1) % 2 = 1 /\ (n + 2) % 2 = 0
  /\ \A n \in Nat : n % 2 = 1 => (n + 1) % 2 = 0
  /\ 1 % 2 = 1 /\ 0 % 2 = 0
OBVIOUS

\* Reading whole records keeps the rest of the stream aligned.
LEMMA RestAligned ==
  ASSUME NEW q \in Seq({1, 2}), NEW n \in Nat, n <= Len(q), n % 2 = 0, Aligned(q)
  PROVE  /\ Aligned(SubSeq(q, n + 1, Len(q)))
         /\ Len(SubSeq(q, n + 1, Len(q))) % 2 = Len(q) % 2
<1> DEFINE r == SubSeq(q, n + 1, Len(q))
<1>1. Len(q) \in Nat
  BY LenProperties
<1>2. Len(r) = Len(q) - n /\ \A i \in 1..(Len(q) - n) : r[i] = q[n + i]
  BY RestOfStream
<1> HIDE DEF r
<1>3. ASSUME NEW i \in 1..Len(r) PROVE r[i] = Half(i)
  <2>1. n + i \in 1..Len(q) /\ i \in 1..(Len(q) - n)
    BY <1>1, <1>2
  <2>2. r[i] = Half(n + i)
    BY <1>2, <2>1 DEF Aligned
  <2>3. i \in Nat
    BY <1>1, <1>2
  <2>4. (n + i) % 2 = i % 2
    BY <2>3, Parity
  <2> QED
    BY <2>2, <2>4 DEF Half
<1>4. Len(r) % 2 = Len(q) % 2
  <2>1. (Len(q) - n) % 2 = Len(q) % 2
    BY <1>1, Parity, Zenon
  <2>2. Len(r) = Len(q) - n
    BY <1>2
  <2> QED
    BY <2>1, <2>2, Zenon
<1> QED
  BY <1>3, <1>4 DEF Aligned, r

\* A read that ends with a record: as many halves are owed as the events stand for.
LEMMA ReadLoss ==
  ASSUME LossInv, ppc = "read", UNCHANGED <<ppc, pending, used, next, clientsSocks>>,
         NEW c \in Conns, c \in Connected, NEW n \in Nat, n <= Len(stream[c]),
         stream[c] # <<>>, Read(c, n)
  PROVE  FreshInv' /\ AlignInv' /\ OwedInv'
<1>1. FitInv /\ FreshInv /\ AlignInv /\ OwedInv
  BY DEF LossInv
<1>2. /\ stream \in [Conns -> Seq({1, 2})] /\ stream[c] \in Seq({1, 2})
      /\ Len(stream[c]) \in Nat \ {0} /\ data \in Seq(Events)
      /\ owed \in [Conns -> Nat] /\ split \subseteq Conns
  BY <1>1, EmptySeq DEF FitInv, StreamTypes, DataTypes, OwedInv
<1>3. Connected' = Connected
  BY DEF Connected
<1>4. /\ stream' = [stream EXCEPT ![c] = SubSeq(stream[c], n + 1, Len(stream[c]))]
      /\ \A d \in Conns : d # c => stream'[d] = stream[d]
  BY <1>2 DEF Read
<1>5. /\ \A d \in Conns : d # c => owed'[d] = owed[d]
      /\ owed' \in [Conns -> Nat]
      /\ owed'[c] = IF c \in split' THEN 0 ELSE owed[c] + n
  BY <1>2 DEF Read
<1>6. /\ n % 2 = 1 => split' = split \cup {c} /\ data' = data
      /\ n % 2 # 1 => split' = split
  BY DEF Read
<1>7. FreshInv'
  BY <1>1, <1>3, <1>4 DEF FreshInv
<1>8. AlignInv'
  <2> SUFFICES ASSUME NEW d \in Conns, d \notin split'
               PROVE  /\ Aligned(stream'[d])
                      /\ d \in Connected => (next[d] = 1 <=> Len(stream'[d]) % 2 = 0)
    BY <1>3 DEF AlignInv, Aligned, Half
  <2>1. /\ d \notin split /\ Aligned(stream[d])
        /\ d \in Connected => (next[d] = 1 <=> Len(stream[d]) % 2 = 0)
    BY <1>1, <1>6 DEF AlignInv
  <2>2. CASE d # c
    BY <1>4, <2>1, <2>2
  <2>3. CASE d = c
    <3>1. n % 2 = 0
      BY <1>6, <2>3
    <3>2. stream'[c] = SubSeq(stream[c], n + 1, Len(stream[c]))
      BY <1>2, <1>4
    <3>3. Aligned(stream'[c]) /\ Len(stream'[c]) % 2 = Len(stream[c]) % 2
      <4>1. stream[c] \in Seq({1, 2}) /\ Aligned(stream[c])
        BY <1>2, <2>1, <2>3
      <4> QED
        BY <3>1, <3>2, <4>1, RestAligned, Zenon
    <3> QED
      BY <2>1, <2>3, <3>3
  <2> QED
    BY <2>2, <2>3
<1>9. OwedInv'
  <2> DEFINE m == n \div 2
             ev == [k \in 1..m |-> c]
  <2>0. m \in Nat
    OBVIOUS
  <2>1. n % 2 # 1 => n = 2 * m
    OBVIOUS
  <2>2. \A d \in Conns :
          Tally(data \o ev, d) = IF d = c THEN Tally(data, d) + m ELSE Tally(data, d)
    BY <1>2, <2>0, TallyAdds
  <2>3. \A d \in Conns : Tally(data, d) \in Nat
    BY <1>2, TallyIsNat
  <2>4. n % 2 # 1 => data' = data \o ev \/ (Head(stream[c]) # 1 /\ data' = data)
    BY <1>2, ConcatEmptySeq DEF Read, Added
  <2>5. c \notin split => Head(stream[c]) = 1
    <3>1. Head(stream[c]) = stream[c][1] /\ 1 \in 1..Len(stream[c])
      BY <1>2
    <3>2. c \notin split => Aligned(stream[c])
      BY <1>1 DEF AlignInv
    <3> QED
      BY <3>1, <3>2, Parity DEF Aligned, Half
  <2> HIDE DEF ev, m
  <2> SUFFICES ASSUME NEW d \in Conns, d \notin split'
               PROVE  owed'[d] = 2 * Tally(data', d)
    BY <1>2, <1>5, <1>6 DEF OwedInv
  <2>6. d \notin split /\ owed[d] = 2 * Tally(data, d)
    BY <1>1, <1>6 DEF OwedInv
  <2>7. CASE d # c
    <3>1. Tally(data', d) = Tally(data, d)
      BY <1>6, <2>2, <2>4, <2>7
    <3> QED
      BY <1>5, <2>6, <2>7, <3>1
  <2>8. CASE d = c
    <3>1. n % 2 # 1 /\ n = 2 * m
      BY <1>6, <2>1, <2>8
    <3>2. Tally(data', c) = Tally(data, c) + m
      BY <2>2, <2>4, <2>5, <2>6, <2>8, <3>1
    <3>3. owed'[c] = owed[c] + n
      BY <1>5, <2>8
    <3> QED
      BY <2>0, <2>3, <2>6, <2>8, <3>1, <3>2, <3>3
  <2> QED
    BY <2>7, <2>8
<1> QED
  BY <1>7, <1>8, <1>9

\* A client sends the halves of its records in turn.
LEMMA SendLoss ==
  ASSUME LossInv, NEW c \in Conns, Send(c) PROVE FreshInv' /\ AlignInv' /\ OwedInv'
<1>1. FitInv /\ FreshInv /\ AlignInv /\ OwedInv
  BY DEF LossInv
<1>2. /\ stream \in [Conns -> Seq({1, 2})] /\ next \in [Conns -> {1, 2}]
      /\ stream[c] \in Seq({1, 2}) /\ Len(stream[c]) \in Nat
  BY <1>1, LenProperties DEF FitInv, StreamTypes
<1>3. /\ c \in Connected /\ Connected' = Connected
      /\ UNCHANGED <<ppc, data, split, owed, pending, used>>
  BY DEF Send, pollVars, acceptVars, Connected
<1>4. \A d \in Conns : d # c => stream'[d] = stream[d] /\ next'[d] = next[d]
  BY <1>2 DEF Send
<1>5. OwedInv'
  BY <1>1, <1>3 DEF OwedInv
<1>6. FreshInv'
  BY <1>1, <1>3, <1>4 DEF FreshInv
<1>7. AlignInv'
  <2> SUFFICES ASSUME NEW d \in Conns, d \notin split
               PROVE  /\ Aligned(stream'[d])
                      /\ d \in Connected => (next'[d] = 1 <=> Len(stream'[d]) % 2 = 0)
    BY <1>3 DEF AlignInv, Aligned, Half
  <2>1. /\ Aligned(stream[d])
        /\ d \in Connected => (next[d] = 1 <=> Len(stream[d]) % 2 = 0)
    BY <1>1 DEF AlignInv
  <2>2. CASE d # c
    BY <1>4, <2>1, <2>2
  <2>3. CASE d = c
    <3> DEFINE q == stream[c]
               l == Len(q)
    <3>1. Aligned(q) /\ (next[c] = 1 <=> l % 2 = 0) /\ l \in Nat /\ l % 2 \in {0, 1}
      BY <1>2, <1>3, <2>1, <2>3, Parity
    <3>2. \/ next[c] = 1 /\ stream'[c] = q \o <<1, 2>> /\ next'[c] = 1
          \/ next[c] # 1 /\ stream'[c] = q \o <<2>> /\ next'[c] = 1
          \/ next[c] = 1 /\ stream'[c] = Append(q, 1) /\ next'[c] = 2
      BY <1>2 DEF Send
    <3>3. CASE next[c] = 1 /\ stream'[c] = q \o <<1, 2>> /\ next'[c] = 1
      <4> DEFINE r == q \o <<1, 2>>
      <4>1. /\ Len(r) = l + 2 /\ \A i \in 1..l : r[i] = q[i]
            /\ r[l + 1] = 1 /\ r[l + 2] = 2
        BY <1>2, SentHalves
      <4>2. l % 2 = 0 /\ (l + 1) % 2 = 1 /\ (l + 2) % 2 = 0
        BY <3>1, <3>3, Parity
      <4> HIDE DEF r
      <4>3. Aligned(r)
        <5> SUFFICES ASSUME NEW i \in 1..(l + 2) PROVE r[i] = Half(i)
          BY <4>1 DEF Aligned
        <5>1. CASE i \in 1..l
          BY <3>1, <4>1, <5>1 DEF Aligned
        <5>2. CASE i = l + 1 \/ i = l + 2
          BY <4>1, <4>2, <5>2 DEF Half
        <5> QED
          BY <3>1, <5>1, <5>2
      <4>4. Aligned(stream'[d]) /\ Len(stream'[d]) = Len(r) /\ next'[d] = 1
        BY <2>3, <3>3, <4>3 DEF r
      <4>5. Len(r) % 2 = 0
        BY <4>1, <4>2
      <4> QED
        BY <4>4, <4>5
    <3>4. CASE next[c] # 1 /\ stream'[c] = q \o <<2>> /\ next'[c] = 1
      <4> DEFINE r == q \o <<2>>
      <4>1. Len(r) = l + 1 /\ (\A i \in 1..l : r[i] = q[i]) /\ r[l + 1] = 2
        BY <1>2, SentHalves
      <4>2. (l + 1) % 2 = 0
        BY <3>1, <3>4, Parity
      <4> HIDE DEF r
      <4>3. Aligned(r)
        <5> SUFFICES ASSUME NEW i \in 1..(l + 1) PROVE r[i] = Half(i)
          BY <4>1 DEF Aligned
        <5>1. CASE i \in 1..l
          BY <3>1, <4>1, <5>1 DEF Aligned
        <5>2. CASE i = l + 1
          BY <4>1, <4>2, <5>2 DEF Half
        <5> QED
          BY <3>1, <5>1, <5>2
      <4>4. Aligned(stream'[d]) /\ Len(stream'[d]) = Len(r) /\ next'[d] = 1
        BY <2>3, <3>4, <4>3 DEF r
      <4>5. Len(r) % 2 = 0
        BY <4>1, <4>2
      <4> QED
        BY <4>4, <4>5
    <3>5. CASE next[c] = 1 /\ stream'[c] = Append(q, 1) /\ next'[c] = 2
      <4> DEFINE r == Append(q, 1)
      <4>1. Len(r) = l + 1 /\ (\A i \in 1..l : r[i] = q[i]) /\ r[l + 1] = 1
        BY <1>2, SentHalves
      <4>2. (l + 1) % 2 = 1
        BY <3>1, <3>5, Parity
      <4> HIDE DEF r
      <4>3. Aligned(r)
        <5> SUFFICES ASSUME NEW i \in 1..(l + 1) PROVE r[i] = Half(i)
          BY <4>1 DEF Aligned
        <5>1. CASE i \in 1..l
          BY <3>1, <4>1, <5>1 DEF Aligned
        <5>2. CASE i = l + 1
          BY <4>1, <4>2, <5>2 DEF Half
        <5> QED
          BY <3>1, <5>1, <5>2
      <4>4. Aligned(stream'[d]) /\ Len(stream'[d]) = Len(r) /\ next'[d] = 2
        BY <2>3, <3>5, <4>3 DEF r
      <4>5. Len(r) % 2 = 1
        BY <4>1, <4>2
      <4> QED
        BY <4>4, <4>5
    <3> QED
      BY <3>2, <3>3, <3>4, <3>5
  <2> QED
    BY <2>2, <2>3
<1> QED
  BY <1>5, <1>6, <1>7

\* poll returns what it owes.
LEMMA ReturnLoss == ASSUME LossInv, Return PROVE FreshInv' /\ AlignInv' /\ OwedInv'
<1>1. FitInv /\ FreshInv /\ AlignInv /\ OwedInv
  BY DEF LossInv
<1>2. /\ ppc = "read" /\ ppc' = "out" /\ Connected' = Connected
      /\ UNCHANGED <<pending, used, stream, next, split>>
  BY DEF Return, useLastData, acceptVars, clientVars, Connected
<1>3. FreshInv' /\ AlignInv'
  BY <1>1, <1>2, FreshFramed, AlignFramed
<1>4. \A c \in Conns : c \notin split => owed[c] = 2 * Tally(data, c)
  BY <1>1, <1>2 DEF OwedInv
<1>5. \A c \in Conns : Tally(data, c) \in Nat
  BY <1>1, TallyIsNat DEF FitInv, DataTypes
<1>6. owed' = [c \in Conns |-> IF c \in split THEN 0 ELSE owed[c] - 2 * Tally(data, c)]
  BY DEF Return, useLastData, Tally
<1>7. \A c \in Conns : owed'[c] = 0
  BY <1>4, <1>5, <1>6
<1>8. owed' \in [Conns -> Nat]
  BY <1>6, <1>7
<1> QED
  BY <1>1, <1>2, <1>3, <1>7, <1>8 DEF OwedInv

LEMMA LossNext == LossInv /\ [Next]_vars => LossInv'
<1> SUFFICES ASSUME LossInv, [Next]_vars PROVE FreshInv' /\ AlignInv' /\ OwedInv'
  BY FitNext DEF LossInv
<1>0. FitInv /\ FreshInv /\ AlignInv /\ OwedInv
  BY DEF LossInv
<1>1. CASE Call
  <2>1. UNCHANGED <<pending, used, stream, next, split, owed>> /\ Connected' = Connected
    BY <1>1 DEF Call, acceptVars, clientVars, Connected
  <2>2. OwedInv'
    BY <1>0, <1>1, <2>1 DEF Call, OwedInv
  <2> QED
    BY <1>0, <2>1, <2>2, FreshFramed, AlignFramed
<1>2. ASSUME NEW i \in Slots, ReadData(i) PROVE FreshInv' /\ AlignInv' /\ OwedInv'
  <2> DEFINE c == clientsSocks[i]
  <2>1. c \in Conns /\ c \in Connected /\ ppc = "read" /\ UNCHANGED <<ppc, pending, used, next>>
    BY <1>0, <1>2 DEF ReadData, FitInv, ReadyHasClient, Connected, clientVars
  <2>2. CASE /\ clientsSocks' = [clientsSocks EXCEPT ![i] = NULL]
             /\ UNCHANGED <<data, stream, split, owed>>
    <3>1. \A d \in Conns : d \in Connected' => d \in Connected
      BY <1>0, <2>2, SensorAssumption DEF FitInv, SlotTypes, Connected, Conns
    <3>2. OwedInv'
      BY <1>0, <2>1, <2>2 DEF OwedInv
    <3> QED
      BY <1>0, <2>1, <2>2, <3>1, <3>2, FreshFramed, AlignFramed
  <2>3. ASSUME stream[c] # <<>>, NEW n \in {Len(stream[c]), 2 * Room},
               n <= Len(stream[c]), n <= 2 * Room, Read(c, n), UNCHANGED clientsSocks
        PROVE  FreshInv' /\ AlignInv' /\ OwedInv'
    <3>1. Len(stream[c]) \in Nat /\ Room \in Nat
      BY <1>0, <1>2, <2>1, LenProperties, SensorAssumption
         DEF FitInv, StreamTypes, DataTypes, ReadData, Room
    <3>2. n \in Nat
      BY <2>3, <3>1
    <3> QED
      BY <2>1, <2>3, <3>2, ReadLoss
  <2> QED
    BY <1>2, <2>2, <2>3 DEF ReadData
<1>3. CASE activate \/ UNCHANGED vars
  <2>1. /\ UNCHANGED <<pending, used, stream, next, split, owed, ppc, data>>
        /\ Connected' = Connected
    BY <1>3 DEF activate, vars, pollVars, acceptVars, clientVars, Connected
  <2> QED
    BY <1>0, <2>1, FreshFramed, AlignFramed DEF OwedInv
<1>4. ASSUME NEW c \in Conns, Leave(c) PROVE FreshInv' /\ AlignInv' /\ OwedInv'
  <2>1. /\ UNCHANGED <<pending, used, stream, next, split, owed, ppc, data>>
        /\ Connected' = Connected
    BY <1>4 DEF Leave, pollVars, acceptVars, clientVars, Connected
  <2> QED
    BY <1>0, <2>1, FreshFramed, AlignFramed DEF OwedInv
<1>5. CASE Connect
  <2>1. /\ UNCHANGED <<stream, next, split, owed, ppc, data>>
        /\ Connected' = Connected
    BY <1>5 DEF Connect, pollVars, Connected
  <2>2. AlignInv' /\ OwedInv'
    BY <1>0, <2>1, AlignFramed DEF OwedInv
  <2>3. /\ used \in Nat /\ used' = used + 1 /\ pending \in Seq(Conns) /\ used' \in Conns
        /\ Len(pending) \in Nat
    BY <1>0, <1>5, LenProperties, SensorAssumption
       DEF Connect, FitInv, SlotTypes, Conns
  <2>4. /\ Len(pending') = Len(pending) + 1 /\ pending'[Len(pending) + 1] = used'
        /\ \A i \in 1..Len(pending) : pending'[i] = pending[i] /\ pending[i] <= used
                                      /\ pending[i] \in Conns
    BY <1>0, <1>5, <2>3, AppendProperties, ElementOfSeq DEF Connect, FreshInv
  <2>5. /\ \A i \in 1..Len(pending') : pending'[i] <= used'
        /\ \A i, j \in 1..Len(pending') : pending'[i] = pending'[j] => i = j
    <3> DEFINE l == Len(pending)
    <3>1. \A i, j \in 1..l : pending[i] = pending[j] => i = j
      BY <1>0 DEF FreshInv
    <3>2. \A i \in 1..l : pending'[i] = pending[i] /\ pending[i] <= used /\ pending[i] \in Nat
      BY <2>4 DEF Conns
    <3>3. \A i \in 1..l : pending'[i] # used' /\ pending'[i] <= used'
      BY <2>3, <3>2
    <3>4. /\ \A i \in 1..(l + 1) : i \in 1..l \/ i = l + 1
          /\ pending'[l + 1] = used' /\ used' <= used' /\ Len(pending') = l + 1
      BY <2>3, <2>4
    <3> HIDE DEF l
    <3> QED
      BY <3>1, <3>2, <3>3, <3>4, ZenonT(60)
  <2>6. ASSUME NEW c \in Conns,
               c > used' \/ (\E i \in 1..Len(pending') : pending'[i] = c)
        PROVE  stream[c] = <<>> /\ next[c] = 1 /\ c \notin Connected
    <3>1. c > used \/ (\E i \in 1..Len(pending) : pending[i] = c)
      BY <2>3, <2>4, <2>6 DEF Conns
    <3> QED
      BY <1>0, <3>1 DEF FreshInv
  <2>7. FreshInv'
    BY <2>1, <2>5, <2>6 DEF FreshInv
  <2> QED
    BY <2>2, <2>7
<1> QED
  BY <1>1, <1>2, <1>3, <1>4, <1>5, SelectLoss, SelectFailsLoss, SendLoss, ReturnLoss
     DEF Next, Poll, Clients

\* A record is lost or returned twice only after a read that ended inside a record.
THEOREM RecordsReturned == Spec => []LossNeedsSplit
<1>1. LossInv => LossNeedsSplit
  BY DEF LossInv, OwedInv, LossNeedsSplit
<1> QED
  BY <1>1, LossInit, LossNext, PTL DEF Spec
=============================================================================
