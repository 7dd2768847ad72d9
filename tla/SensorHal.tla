------------------------------ MODULE SensorHal ------------------------------
(***************************************************************************)
(* The sensor HAL (geny_sensors.cpp, sensor.cpp, sensor_accelerometer.cpp).*)
(* The thread of the sensor service calls poll again and again; poll waits *)
(* for the clients that are connected, up to the delay, and returns the    *)
(* records they sent as events, or the last event when there is none.      *)
(* Another thread activates the sensor.                                    *)
(*                                                                         *)
(* A record is two halves, so that a read may end inside of it; an event   *)
(* is the client that sent the record.  The properties generateEvent       *)
(* writes, times, and records of other sensors are left out.               *)
(***************************************************************************)
EXTENDS Naturals, Sequences, FiniteSets

CONSTANTS
  MaxConns,     (* connections of clients                                  *)
  MAX_CLIENTS,
  Count,        (* events that poll may return                             *)
  Capacity,     (* halves of records a connection holds                    *)
  MaxFaults,    (* failures of select and accept, records sent in parts    *)
  NULL          (* a free slot; the base event                             *)

ASSUME SensorAssumption ==
  /\ MaxConns \in Nat /\ MAX_CLIENTS \in Nat /\ Count \in Nat \ {0}
  /\ Capacity \in Nat /\ MaxFaults \in Nat
  /\ NULL \notin Nat

Conns == 1..MaxConns
Slots == 1..MAX_CLIENTS

VARIABLES
  \* the thread in poll
  ppc,          (* "out", "select", "read" or "exited"                     *)
  ready,        (* readfs: the slots that are readable and not read yet    *)
  data,         (* the events so far, or returned                          *)
  clientsSocks, (* the connection in each slot                             *)
  lastEvent, enabled,
  \* the connections
  pending,      (* not accepted yet                                        *)
  above,        (* accepted with a descriptor above that of serverSock     *)
  leaked,       (* accepted, and no slot was free                          *)
  used,         (* connections made                                        *)
  stream, next, (* the halves on the way, and the one to be sent next      *)
  eof,          (* closed by the client                                    *)
  split,        (* a read has ended inside a record                        *)
  owed,         (* halves read and not returned in an event, unless split  *)
  faults

acceptVars == <<clientsSocks, pending, above, leaked>>
clientVars == <<used, next, eof>>
vars == <<ppc, ready, data, lastEvent, enabled, acceptVars, clientVars, stream, split,
          owed, faults>>

Init ==
  /\ ppc = "out" /\ ready = {} /\ data = <<>>
  /\ clientsSocks = [i \in Slots |-> NULL]
  /\ lastEvent = NULL /\ enabled \in BOOLEAN  \* never initialised
  /\ pending = <<>> /\ above = {} /\ leaked = {} /\ used = 0
  /\ stream = [c \in Conns |-> <<>>] /\ next = [c \in Conns |-> 1]
  /\ eof = {} /\ split = {} /\ owed = [c \in Conns |-> 0]
  /\ faults = 0

Fault == faults < MaxFaults /\ faults' = faults + 1

Connected == {c \in Conns : \E i \in Slots : clientsSocks[i] = c}

-----------------------------------------------------------------------------
(* poll.                                                                    *)

Call ==
  /\ ppc = "out" /\ ppc' = "select" /\ data' = <<>>
  /\ UNCHANGED <<ready, lastEvent, enabled, acceptVars, clientVars, stream, split, owed,
                 faults>>

Readable(c) == c # NULL /\ (stream[c] # <<>> \/ c \in eof)

FirstFree(i) == clientsSocks[i] = NULL /\ \A j \in 1..(i - 1) : clientsSocks[j] # NULL

\* Without a free slot the connection stays open, and nobody knows of it.
acceptNewClient ==
  /\ pending' = Tail(pending)
  /\ \/ Fault /\ UNCHANGED <<clientsSocks, above, leaked>>
     \/ /\ above' \in {above, above \cup {Head(pending)}} /\ UNCHANGED faults
        /\ \/ \E i \in Slots :
                /\ FirstFree(i)
                /\ clientsSocks' = [clientsSocks EXCEPT ![i] = Head(pending)]
                /\ UNCHANGED leaked
           \/ /\ \A i \in Slots : clientsSocks[i] # NULL
              /\ leaked' = leaked \cup {Head(pending)} /\ UNCHANGED clientsSocks

\* Mutant: select looks at the descriptors up to serverSock only.
Selected_Below == {i \in Slots : Readable(clientsSocks[i]) /\ clientsSocks[i] \notin above}

Selected == {i \in Slots : Readable(clientsSocks[i])}

\* select returns: a new connection, data of clients, or nothing for the delay.
Select ==
  /\ ppc = "select" /\ ppc' = "read"
  /\ ready' = Selected
  /\ \/ pending # <<>> /\ acceptNewClient
     \/ pending = <<>> /\ UNCHANGED <<acceptVars, faults>>
  /\ UNCHANGED <<data, lastEvent, enabled, clientVars, stream, split, owed>>

\* select fails.  The process exits when no client has a higher descriptor than serverSock;
\* or else all clients are disconnected.
SelectFails ==
  /\ ppc = "select" /\ Fault
  /\ \/ /\ Connected \cap above = {} /\ ppc' = "exited"
        /\ UNCHANGED <<clientsSocks, stream>>
     \/ /\ Connected \cap above # {}
        /\ clientsSocks' = [i \in Slots |-> NULL]
        /\ stream' = [c \in Conns |-> IF c \in Connected THEN <<>> ELSE stream[c]]
        /\ UNCHANGED ppc
  /\ UNCHANGED <<ready, data, lastEvent, enabled, pending, above, leaked, clientVars,
                 split, owed>>

\* Mutant: recv is given the size of the whole of data.
Room_Whole == Count

Room == Count - Len(data)

\* Mutant: the events of each client are written to the start of data.
Added_First(events) == events

Added(events) == data \o events

Read(c, n) ==
  LET events == IF Head(stream[c]) = 1 THEN [k \in 1..(n \div 2) |-> c] ELSE <<>> IN
  /\ stream' = [stream EXCEPT ![c] = SubSeq(@, n + 1, Len(@))]
  /\ IF n % 2 = 1 THEN split' = split \cup {c} /\ UNCHANGED <<data, lastEvent>>
     ELSE /\ data' = Added(events) /\ UNCHANGED split
          /\ lastEvent' = IF events = <<>> THEN lastEvent ELSE c
  /\ owed' = [owed EXCEPT ![c] = IF c \in split' THEN 0 ELSE @ + n]

\* readData on the slots, in order.  What does not end with a record is discarded; from
\* then on records are read from their middle on, and are of no sensor that is known.
ReadData(i) ==
  LET c == clientsSocks[i] IN
  /\ ppc = "read" /\ Len(data) < Count
  /\ i \in ready /\ \A j \in ready : i <= j
  /\ ready' = ready \ {i}
  /\ \/ /\ stream[c] = <<>>
        /\ clientsSocks' = [clientsSocks EXCEPT ![i] = NULL]
        /\ UNCHANGED <<data, lastEvent, stream, split, owed>>
     \/ /\ stream[c] # <<>>
        /\ \E n \in {Len(stream[c]), 2 * Room} :
             n <= Len(stream[c]) /\ n <= 2 * Room /\ Read(c, n)
        /\ UNCHANGED clientsSocks
  /\ UNCHANGED <<ppc, enabled, pending, above, leaked, clientVars, faults>>

useLastData == <<IF enabled THEN lastEvent ELSE NULL>>

\* poll returns when all were read or data is full: the events, or the last one.
Return ==
  /\ ppc = "read" /\ (ready = {} \/ Len(data) = Count) /\ ppc' = "out"
  /\ data' = IF data = <<>> THEN useLastData ELSE data
  /\ owed' = [c \in Conns |->
                IF c \in split THEN 0
                ELSE owed[c] - 2 * Cardinality({k \in 1..Len(data) : data[k] = c})]
  /\ UNCHANGED <<ready, lastEvent, enabled, acceptVars, clientVars, stream, split, faults>>

Poll == Call \/ Select \/ (\E i \in Slots : ReadData(i)) \/ Return

-----------------------------------------------------------------------------
(* The other thread, and the clients.                                       *)

pollVars == <<ppc, ready, data, lastEvent, split, owed>>

activate ==
  /\ ppc # "exited" /\ enabled' = ~enabled
  /\ UNCHANGED <<pollVars, acceptVars, clientVars, stream, faults>>

Connect ==
  /\ ppc # "exited" /\ used < MaxConns
  /\ used' = used + 1 /\ pending' = Append(pending, used')
  /\ UNCHANGED <<pollVars, enabled, clientsSocks, above, leaked, next, eof, stream, faults>>

\* A record arrives whole, or what is left of it, or its first half alone.
Send(c) ==
  /\ c \in Connected \ eof /\ Len(stream[c]) + 2 <= Capacity
  /\ \/ /\ stream' = [stream EXCEPT ![c] = @ \o (IF next[c] = 1 THEN <<1, 2>> ELSE <<2>>)]
        /\ next' = [next EXCEPT ![c] = 1] /\ UNCHANGED faults
     \/ /\ next[c] = 1 /\ Fault
        /\ stream' = [stream EXCEPT ![c] = Append(@, 1)]
        /\ next' = [next EXCEPT ![c] = 2]
  /\ UNCHANGED <<pollVars, enabled, acceptVars, used, eof>>

Leave(c) ==
  /\ c \in Connected \ eof /\ eof' = eof \cup {c}
  /\ UNCHANGED <<pollVars, enabled, acceptVars, used, next, stream, faults>>

Clients == Connect \/ \E c \in Conns : Send(c) \/ Leave(c)

Next == Poll \/ SelectFails \/ activate \/ Clients

Spec == Init /\ [][Next]_vars

\* The thread of the sensor service is scheduled, and select ends with the delay.
FairSpec == Spec /\ WF_vars(Poll)

-----------------------------------------------------------------------------
(* Properties.                                                              *)

TypeOK ==
  /\ ppc \in {"out", "select", "read", "exited"}
  /\ ready \subseteq Slots
  /\ data \in Seq(Conns \cup {NULL})
  /\ clientsSocks \in [Slots -> Conns \cup {NULL}]
  /\ lastEvent \in Conns \cup {NULL} /\ enabled \in BOOLEAN
  /\ pending \in Seq(Conns) /\ above \subseteq Conns /\ leaked \subseteq Conns
  /\ used \in 0..MaxConns
  /\ stream \in [Conns -> Seq({1, 2})] /\ next \in [Conns -> {1, 2}]
  /\ eof \subseteq Conns /\ split \subseteq Conns /\ owed \in [Conns -> Nat]
  /\ faults \in 0..MaxFaults

\* poll never writes more events than the caller has room for, whatever the number of
\* clients and of records that are there.
FitsInData == Len(data) <= Count

\* Every record that was read is returned, and once, until a read ends inside a record of
\* that client (the test of readSize).
LossNeedsSplit ==
  ppc \in {"out", "select"} => \A c \in Conns \ split : owed[c] = 0

\* A client in a slot below that of c is read and fills data: poll returns without a
\* look at c.
PassedOver(c) ==
  \E i, j \in Slots :
    i < j /\ clientsSocks[j] = c /\ j \in ready /\ ReadData(i) /\ Len(data') = Count

\* What a client sends is read in the end, unless the process exits or clients in lower
\* slots fill data again and again: the client in the lowest slot is always heard, and
\* every other once those below fall silent.
ClientHeard ==
  \A c \in Conns :
    \/ <>(ppc = "exited" \/ [](c \notin Connected)) \/ []<>(stream[c] = <<>>)
    \/ []<><<\E i \in Slots : ReadData(i) /\ clientsSocks[i] = c>>_vars
    \/ []<><<PassedOver(c)>>_vars
=============================================================================
