-------------------------- MODULE LocalOpenglProofs --------------------------
(***************************************************************************)
(* Proofs about the relay, for any number of connections: its types; that  *)
(* a thread and main only use sockets of their own until a descriptor that *)
(* was closed twice had been handed out in between; that the free sockets  *)
(* are no more than the connections of the host on their way and the       *)
(* failures; and that, until such a reuse, at most two sockets per failure *)
(* are known to nobody.  For the last two, which count sets, each step is  *)
(* first shown to add or remove one member.                                *)
(***************************************************************************)
EXTENDS LocalOpengl, SequenceTheorems, FiniteSetTheorems, TLAPS

Things == Conns \cup {LISTEN, MAIN, NULL}
Duos == [local : Descriptors, host : Descriptors, guest : Things,
         to : Descriptors \cup {NULL}]

\* The numbers of guests and of the host differ, and none is NULL.
LEMMA Apart ==
  /\ Guests \subseteq Conns /\ HostConns \subseteq Conns /\ Conns \subseteq Nat
  /\ Guests \cap HostConns = {}
  /\ NULL \notin Conns /\ LISTEN \notin Conns /\ MAIN \notin Conns
BY RelayAssumption DEF Conns, Guests, HostConns

\* The first entry of a sequence, and the others.
LEMMA FirstAndRest ==
  ASSUME NEW S, NEW q \in Seq(S), q # <<>>
  PROVE  /\ Head(q) = q[1] /\ Head(q) \in S /\ 1 \in 1..Len(q)
         /\ Tail(q) \in Seq(S) /\ Len(Tail(q)) = Len(q) - 1
         /\ \A i \in 1..Len(Tail(q)) : Tail(q)[i] = q[i + 1] /\ i + 1 \in 1..Len(q)
<1>1. Len(q) \in Nat /\ Len(q) > 0
  BY EmptySeq, LenProperties
<1>2. Head(q) = q[1] /\ Head(q) \in S /\ Tail(q) \in Seq(S) /\ Len(Tail(q)) = Len(q) - 1
  BY HeadTailProperties, <1>1
<1>3. \A i \in 1..Len(Tail(q)) : Tail(q)[i] = q[i + 1]
  BY HeadTailProperties
<1> QED
  BY <1>1, <1>2, <1>3

-----------------------------------------------------------------------------
(* Types.                                                                   *)

KernelTypes ==
  /\ fds \in [Descriptors -> Things]
  /\ queue \in Seq(Conns) /\ left \subseteq Conns

MainTypes ==
  /\ mpc \in {"listen", "start", "serve", "exited", "overrun"}
  /\ ssocket \in Descriptors /\ mainSocket \in Descriptors
  /\ free \in Seq(Descriptors)

ThreadTypes ==
  /\ tpc \in [HostConns -> Live \cup {"none", "again", "done"}]
  /\ cd \in [HostConns -> Duos]

WorldTypes ==
  /\ host \in {"absent", "up", "closed", "reset"}
  /\ guests \in 0..MaxGuests /\ hosts \in 0..MaxHosts /\ asked \in Nat
  /\ faults \in 0..MaxFaults

Types == KernelTypes /\ MainTypes /\ ThreadTypes /\ WorldTypes /\ reused \in BOOLEAN

LEMMA TypesInit == Init => Types
<1> SUFFICES ASSUME Init PROVE Types
  OBVIOUS
<1>0. 0 \in Descriptors /\ NoDuo \in Duos
  BY RelayAssumption DEF NoDuo, Duos, Things, Descriptors
<1>1. KernelTypes
  BY DEF Init, KernelTypes, Things
<1>2. MainTypes
  BY <1>0 DEF Init, MainTypes
<1>3. ThreadTypes
  BY <1>0 DEF Init, ThreadTypes
<1>4. WorldTypes
  BY RelayAssumption DEF Init, WorldTypes
<1>5. reused \in BOOLEAN
  BY Zenon DEF Init
<1> QED
  BY <1>1, <1>2, <1>3, <1>4, <1>5 DEF Types

\* The program ends: its threads and descriptors go with it.
LEMMA ExitTypes ==
  ASSUME Types, Exit, UNCHANGED left
  PROVE  KernelTypes' /\ MainTypes' /\ ThreadTypes'
<1>0. NoDuo \in Duos
  BY RelayAssumption DEF NoDuo, Duos, Things, Descriptors
<1>1. KernelTypes'
  BY DEF Exit, Types, KernelTypes, Closed, Things
<1>2. MainTypes'
  BY DEF Exit, Types, MainTypes
<1>3. ThreadTypes'
  BY <1>0 DEF Exit, ThreadTypes
<1> QED
  BY <1>1, <1>2, <1>3

\* The types after a step of main.
LEMMA MainStepTypes == Types /\ Main => Types'
<1> SUFFICES ASSUME Types, Main PROVE Types'
  OBVIOUS
<1> USE DEF Types
<1>1. CASE AcceptMain
  <2>1. KernelTypes'
    BY <1>1 DEF AcceptMain, KernelTypes, Closed, Things
  <2>2. MainTypes' /\ ThreadTypes' /\ WorldTypes' /\ reused' \in BOOLEAN
    BY <1>1 DEF AcceptMain, MainTypes, ThreadTypes, WorldTypes, threadVars, worldVars
  <2> QED
    BY <2>1, <2>2
<1>2. CASE ReadStart
  <2>1. WorldTypes' /\ reused' \in BOOLEAN /\ UNCHANGED left
    BY <1>2 DEF ReadStart, WorldTypes, worldVars
  <2>2. CASE Exit
    BY <2>1, <2>2, ExitTypes
  <2>3. CASE ~Exit
    <3>1. KernelTypes'
      BY <1>2, <2>1, <2>3 DEF ReadStart, KernelTypes, Things
    <3>2. MainTypes' /\ ThreadTypes'
      BY <1>2, <2>3 DEF ReadStart, MainTypes, ThreadTypes, threadVars
    <3> QED
      BY <2>1, <3>1, <3>2
  <2> QED
    BY <2>2, <2>3
<1>3. CASE LoseHost
  <2>1. WorldTypes' /\ reused' \in BOOLEAN /\ UNCHANGED left /\ Exit
    BY <1>3 DEF LoseHost, WorldTypes, worldVars
  <2> QED
    BY <2>1, ExitTypes
<1>4. CASE Timeout
  <2>1. KernelTypes'
    BY <1>4 DEF Timeout, KernelTypes, Closed, Things
  <2>2. MainTypes' /\ ThreadTypes' /\ reused' \in BOOLEAN
    BY <1>4 DEF Timeout, MainTypes, ThreadTypes, threadVars
  <2>3. WorldTypes'
    BY <1>4 DEF Timeout, Ping, WorldTypes, worldVars
  <2> QED
    BY <2>1, <2>2, <2>3
<1>5. ASSUME Serving
      PROVE  /\ queue # <<>> /\ Head(queue) \in Conns /\ Tail(queue) \in Seq(Conns)
             /\ host' \in {"absent", "up", "closed", "reset"}
             /\ UNCHANGED <<left, guests, hosts, ssocket, mainSocket, reused>>
  <2>1. queue # <<>> /\ Head(queue) \in Conns /\ Tail(queue) \in Seq(Conns)
    BY <1>5, FirstAndRest DEF Serving, KernelTypes
  <2> QED
    BY <1>5, <2>1 DEF Serving, Ping, WorldTypes
<1>6. CASE AcceptGone
  <2>1. Serving
    BY <1>6 DEF AcceptGone
  <2> QED
    BY <1>5, <1>6, <2>1 DEF AcceptGone, KernelTypes, MainTypes, ThreadTypes, WorldTypes,
                            threadVars
<1>7. CASE AcceptGuest
  <2>1. Serving /\ UNCHANGED faults
    BY <1>7 DEF AcceptGuest
  <2>2. WorldTypes' /\ reused' \in BOOLEAN
    BY <1>5, <1>7, <2>1 DEF AcceptGuest, AskHost, WorldTypes
  <2>3. CASE Exit
    BY <1>5, <2>1, <2>2, <2>3, ExitTypes
  <2>4. CASE queue' = Tail(queue) /\ UNCHANGED <<mpc, free, threadVars, fds>>
    BY <1>5, <2>1, <2>2, <2>4 DEF KernelTypes, MainTypes, ThreadTypes, threadVars
  <2>5. ASSUME NEW d \in Descriptors, fds' = [fds EXCEPT ![d] = Head(queue)],
               free' = Append(free, d), queue' = Tail(queue),
               UNCHANGED <<mpc, threadVars>>
        PROVE  Types'
    <3>1. KernelTypes'
      BY <1>5, <2>1, <2>5 DEF KernelTypes, Things
    <3>2. MainTypes'
      BY <1>5, <2>1, <2>5, AppendProperties DEF MainTypes
    <3> QED
      BY <2>2, <2>5, <3>1, <3>2 DEF ThreadTypes, threadVars
  <2> QED
    BY <1>7, <2>3, <2>4, <2>5 DEF AcceptGuest, AskHost
<1>8. CASE AcceptHost
  <2> DEFINE h == Head(queue)
  <2>1. Serving /\ h \in HostConns /\ queue' = Tail(queue) /\ UNCHANGED asked
    BY <1>8 DEF AcceptHost
  <2>2. WorldTypes' /\ reused' \in BOOLEAN
    <3>1. faults' \in 0..MaxFaults
      BY <1>8, RelayAssumption DEF AcceptHost, Fault, WorldTypes
    <3> QED
      BY <1>5, <2>1, <3>1 DEF WorldTypes
  <2>3. MainTypes'
    <3>1. free' = free \/ (free # <<>> /\ free' = Tail(free))
      BY <1>8 DEF AcceptHost, TakeFirst
    <3>2. free' \in Seq(Descriptors)
      BY <3>1, FirstAndRest DEF MainTypes
    <3>3. mpc' = mpc \/ mpc' = "overrun"
      BY <1>8 DEF AcceptHost
    <3> QED
      BY <1>5, <2>1, <3>2, <3>3 DEF MainTypes
  <2>4. CASE UNCHANGED <<threadVars, fds>>
    BY <1>5, <2>1, <2>2, <2>3, <2>4 DEF KernelTypes, ThreadTypes, threadVars
  <2>5. CASE fds' = Closed({Head(free)}) /\ UNCHANGED threadVars
    <3>1. KernelTypes'
      BY <1>5, <2>1, <2>5 DEF KernelTypes, Closed, Things
    <3> QED
      BY <2>2, <2>3, <2>5, <3>1 DEF ThreadTypes, threadVars
  <2>6. ASSUME NEW d \in Descriptors, free # <<>>, fds' = [fds EXCEPT ![d] = h],
               cd' = [cd EXCEPT ![h] = [local |-> Head(free), host |-> d,
                                        guest |-> fds[Head(free)], to |-> NULL]],
               \/ tpc' = [tpc EXCEPT ![h] = "relay"]
               \/ tpc' = [tpc EXCEPT ![h] = "done"]
        PROVE  Types'
    <3>1. KernelTypes'
      BY <1>5, <2>1, <2>6 DEF KernelTypes, Things
    <3>2. Head(free) \in Descriptors
      BY <2>6, FirstAndRest DEF MainTypes
    <3>3. cd' \in [HostConns -> Duos]
      BY <2>1, <2>6, <3>2 DEF KernelTypes, ThreadTypes, Duos
    <3>4. tpc' \in [HostConns -> Live \cup {"none", "again", "done"}]
      BY <2>1, <2>6 DEF ThreadTypes, Live
    <3> QED
      BY <2>2, <2>3, <3>1, <3>3, <3>4 DEF ThreadTypes
  <2> QED
    BY <1>8, <2>4, <2>5, <2>6 DEF AcceptHost
<1> QED
  BY <1>1, <1>2, <1>3, <1>4, <1>6, <1>7, <1>8 DEF Main

\* The types after a step of a thread.
LEMMA ThreadStepTypes ==
  ASSUME Types, NEW h \in HostConns, Thread(h) PROVE Types'
<1> USE DEF Types
<1>0. /\ cd[h] \in Duos /\ ThreadFds(h) \subseteq Descriptors
      /\ \A d \in ThreadFds(h) : Across(h, d) \in Descriptors
  BY DEF ThreadTypes, Duos, ThreadFds, Across
<1>1. WorldTypes'
  BY DEF Thread, BeginCopy, EndCopy, EndOfFile, BadDescriptor, CloseAgain, WorldTypes,
         worldVars
<1>2. reused' \in BOOLEAN
  <2>1. CASE CloseAgain(h)
    BY <2>1, Zenon DEF CloseAgain
  <2>2. CASE UNCHANGED reused
    BY <2>2, Zenon
  <2> QED
    BY <2>1, <2>2 DEF Thread, BeginCopy, EndCopy, EndOfFile, BadDescriptor
<1>3. UNCHANGED left
  BY DEF Thread, BeginCopy, EndCopy, EndOfFile, BadDescriptor, CloseAgain
<1>4. CASE Exit
  BY <1>1, <1>2, <1>3, <1>4, ExitTypes
<1>5. CASE ~Exit
  <2>1. UNCHANGED <<mainVars, queue>>
    BY <1>5 DEF Thread, BeginCopy, EndCopy, EndOfFile, BadDescriptor, CloseAgain
  <2>2. MainTypes'
    BY <2>1 DEF MainTypes, mainVars
  <2>3. KernelTypes'
    <3>1. UNCHANGED fds \/ fds' = Closed(ThreadFds(h))
      BY <1>5 DEF Thread, BeginCopy, EndCopy, EndOfFile, BadDescriptor, CloseAgain
    <3> QED
      BY <1>3, <2>1, <3>1 DEF KernelTypes, Closed, Things
  <2>4. tpc' \in [HostConns -> Live \cup {"none", "again", "done"}]
    BY <1>5 DEF Thread, BeginCopy, EndCopy, EndOfFile, BadDescriptor, CloseAgain,
                EndThread, ThreadTypes, Live
  <2>5. cd' \in [HostConns -> Duos]
    <3>1. NoDuo \in Duos
      BY RelayAssumption DEF NoDuo, Duos, Things, Descriptors
    <3>2. \/ UNCHANGED cd
          \/ \E d \in Descriptors \cup {NULL} : cd' = [cd EXCEPT ![h].to = d]
          \/ cd' = [cd EXCEPT ![h] = NoDuo]
      BY <1>0, <1>5 DEF Thread, BeginCopy, EndCopy, EndOfFile, BadDescriptor, CloseAgain,
                        EndThread
    <3> QED
      BY <1>0, <3>1, <3>2 DEF ThreadTypes, Duos
  <2> QED
    BY <1>1, <1>2, <2>2, <2>3, <2>4, <2>5 DEF ThreadTypes
<1> QED
  BY <1>4, <1>5

\* The types after a step of the host or of a guest.
LEMMA WorldStepTypes == Types /\ World => Types'
<1> SUFFICES ASSUME Types, World PROVE Types'
  OBVIOUS
<1> USE DEF Types
<1>1. UNCHANGED othersVars /\ UNCHANGED faults
  BY DEF World, HostComes, HostLeaves, GuestConnects, HostConnects, PeerLeaves
<1>2. MainTypes' /\ ThreadTypes' /\ reused' \in BOOLEAN /\ fds' \in [Descriptors -> Things]
  BY <1>1 DEF othersVars, mainVars, threadVars, MainTypes, ThreadTypes, KernelTypes
<1>3. WorldTypes'
  BY <1>1, RelayAssumption
     DEF World, HostComes, HostLeaves, GuestConnects, HostConnects, PeerLeaves, WorldTypes,
         worldVars
<1>4. queue' \in Seq(Conns)
  <2>1. CASE GuestConnects
    <3>1. guests' \in Conns
      BY <2>1, RelayAssumption DEF GuestConnects, WorldTypes, Conns, Guests
    <3> QED
      BY <2>1, <3>1, AppendProperties DEF GuestConnects, KernelTypes
  <2>2. CASE HostConnects
    <3>1. MaxGuests + hosts' \in Conns
      BY <2>2, RelayAssumption DEF HostConnects, WorldTypes, Conns, HostConns
    <3> QED
      BY <2>2, <3>1, AppendProperties DEF HostConnects, KernelTypes
  <2> QED
    BY <2>1, <2>2 DEF World, HostComes, HostLeaves, PeerLeaves, KernelTypes
<1>5. left' \subseteq Conns
  BY Apart DEF World, HostComes, HostLeaves, GuestConnects, HostConnects, PeerLeaves,
               KernelTypes
<1> QED
  BY <1>2, <1>3, <1>4, <1>5 DEF KernelTypes

LEMMA TypesNext == Types /\ [Next]_vars => Types'
<1> SUFFICES ASSUME Types, [Next]_vars PROVE Types'
  OBVIOUS
<1>1. CASE UNCHANGED vars
  BY <1>1 DEF vars, mainVars, threadVars, worldVars, Types, KernelTypes, MainTypes,
              ThreadTypes, WorldTypes
<1> QED
  BY <1>1, MainStepTypes, ThreadStepTypes, WorldStepTypes DEF Next

\* The types hold: descriptors are descriptors, and every thread has a conn_duo.
THEOREM TypeCorrect == Spec => []TypeOK
<1>1. Types => TypeOK
  BY DEF Types, KernelTypes, MainTypes, ThreadTypes, WorldTypes, TypeOK, Duos, Things
<1> QED
  BY <1>1, TypesInit, TypesNext, PTL DEF Spec

-----------------------------------------------------------------------------
(* Ownership.                                                               *)

\* Before the data port is open there is no thread and nothing is free.
Starting ==
  mpc \in {"listen", "start"} => free = <<>> /\ \A h \in HostConns : tpc[h] \notin Live

FreeOnce == \A i, j \in 1..Len(free) : free[i] = free[j] => i = j

\* A thread is between a guest and the host connection it has its number from.
ThreadsOwn ==
  \A h \in HostConns : tpc[h] \in Live =>
    /\ cd[h].guest \in Guests
    /\ fds[cd[h].local] = cd[h].guest /\ fds[cd[h].host] = h
    /\ \A i \in 1..Len(free) : free[i] # cd[h].local

LocalsApart ==
  \A h, k \in HostConns :
    tpc[h] \in Live /\ tpc[k] \in Live /\ h # k => cd[h].local # cd[k].local

Own == Starting /\ FreeAreLocal /\ FreeOnce /\ ThreadsOwn /\ LocalsApart

RelayInv == Types /\ (~reused => Own)

\* Nothing is owned when no thread lives and no socket is free.
LEMMA NothingOwned ==
  ASSUME free = <<>>, \A h \in HostConns : tpc[h] \notin Live PROVE Own
<1>1. \A i \in 1..Len(free) : FALSE
  BY EmptySeq
<1> QED
  BY <1>1 DEF Own, Starting, FreeAreLocal, FreeOnce, ThreadsOwn, LocalsApart

LEMMA ExitOwns == ASSUME Exit PROVE Own'
<1>1. free' = <<>> /\ \A h \in HostConns : tpc'[h] \notin Live'
  BY DEF Exit, Live
<1>2. \A i \in 1..Len(free') : FALSE
  BY <1>1
<1> QED
  BY <1>1, <1>2 DEF Own, Starting, FreeAreLocal, FreeOnce, ThreadsOwn, LocalsApart

\* A step that changes none of what is owned, and closes nothing that is.
LEMMA Framed ==
  ASSUME Types, Own, UNCHANGED <<free, tpc, cd>>,
         \A d \in Descriptors : fds[d] \in Conns => fds'[d] = fds[d],
         mpc' \in {"listen", "start"} => mpc \in {"listen", "start"}
  PROVE  Own'
<1>1. \A i \in 1..Len(free) : free[i] \in Descriptors
  BY DEF Types, MainTypes
<1>2. \A h \in HostConns : cd[h].local \in Descriptors /\ cd[h].host \in Descriptors
  BY DEF Types, ThreadTypes, Duos
<1>3. Starting' /\ FreeOnce' /\ LocalsApart'
  BY DEF Own, Starting, FreeOnce, LocalsApart, Live
<1>4. FreeAreLocal'
  BY <1>1, Apart DEF Own, FreeAreLocal
<1>5. ThreadsOwn'
  <2> SUFFICES ASSUME NEW h \in HostConns, tpc[h] \in Live
               PROVE  /\ cd[h].guest \in Guests
                      /\ fds'[cd[h].local] = cd[h].guest /\ fds'[cd[h].host] = h
                      /\ \A i \in 1..Len(free) : free[i] # cd[h].local
    BY DEF ThreadsOwn, Live
  <2>1. /\ cd[h].guest \in Guests
        /\ fds[cd[h].local] = cd[h].guest /\ fds[cd[h].host] = h
        /\ \A i \in 1..Len(free) : free[i] # cd[h].local
    BY Zenon DEF Own, ThreadsOwn
  <2>2. fds'[cd[h].local] = cd[h].guest /\ fds'[cd[h].host] = h
    BY <1>2, <2>1, Apart
  <2> QED
    BY <2>1, <2>2, Zenon
<1> QED
  BY <1>3, <1>4, <1>5 DEF Own

\* A thread that ends closes its own two sockets, and nobody else's.
LEMMA ThreadClosesOwn ==
  ASSUME Types, Own, NEW h \in HostConns, tpc[h] \in Live,
         fds' = Closed(ThreadFds(h)), EndThread(h), UNCHANGED <<mpc, free>>
  PROVE  Own'
<1>1. \A i \in 1..Len(free) : free[i] \in Descriptors
  BY DEF Types, MainTypes
<1>2. \A k \in HostConns : cd[k].local \in Descriptors /\ cd[k].host \in Descriptors
  BY DEF Types, ThreadTypes, Duos
<1>3. \A k \in HostConns : tpc'[k] \in Live => k # h /\ tpc[k] \in Live
  BY DEF EndThread, Types, ThreadTypes, Live
<1>4. fds[cd[h].local] \in Guests /\ fds[cd[h].host] = h
  BY DEF Own, ThreadsOwn
<1>5. Starting' /\ FreeOnce' /\ LocalsApart'
  BY <1>3 DEF Own, Starting, FreeOnce, LocalsApart, EndThread, Live
<1>6. FreeAreLocal'
  <2> SUFFICES ASSUME NEW i \in 1..Len(free) PROVE fds'[free[i]] \in Guests
    BY DEF FreeAreLocal
  <2>1. fds[free[i]] \in Guests /\ free[i] # cd[h].local
    BY DEF Own, FreeAreLocal, ThreadsOwn
  <2>2. free[i] # cd[h].host
    BY <1>4, <2>1, Apart
  <2> QED
    BY <1>1, <2>1, <2>2 DEF Closed, ThreadFds
<1>7. ThreadsOwn'
  <2> SUFFICES ASSUME NEW k \in HostConns, tpc'[k] \in Live
               PROVE  /\ cd[k].guest \in Guests
                      /\ fds'[cd[k].local] = cd[k].guest /\ fds'[cd[k].host] = k
                      /\ \A i \in 1..Len(free) : free[i] # cd[k].local
    BY DEF ThreadsOwn, EndThread, Live
  <2>1. k # h /\ tpc[k] \in Live
    BY <1>3
  <2>2. /\ cd[k].guest \in Guests
        /\ fds[cd[k].local] = cd[k].guest /\ fds[cd[k].host] = k
        /\ \A i \in 1..Len(free) : free[i] # cd[k].local
    BY <2>1 DEF Own, ThreadsOwn
  <2>3. cd[k].local # cd[h].local
    BY <2>1 DEF Own, LocalsApart
  <2>4. cd[k].local \notin ThreadFds(h) /\ cd[k].host \notin ThreadFds(h)
    BY <1>4, <2>1, <2>2, <2>3, Apart DEF ThreadFds
  <2> QED
    BY <1>2, <2>2, <2>4 DEF Closed
<1> QED
  BY <1>5, <1>6, <1>7 DEF Own

\* The timeout closes the sockets that are free, and no thread's.
LEMMA TimeoutOwns ==
  ASSUME Types, Own, Timeout PROVE Own'
<1>1. \A h \in HostConns : cd[h].local \in Descriptors /\ cd[h].host \in Descriptors
  BY DEF Types, ThreadTypes, Duos
<1>2. free' = <<>> /\ UNCHANGED <<mpc, tpc, cd>> /\ mpc = "serve"
  BY DEF Timeout, threadVars
<1>3. \A i \in 1..Len(free') : FALSE
  BY <1>2
<1>4. Starting' /\ FreeAreLocal' /\ FreeOnce'
  BY <1>2, <1>3 DEF Starting, FreeAreLocal, FreeOnce
<1>5. ThreadsOwn'
  <2> SUFFICES ASSUME NEW h \in HostConns, tpc[h] \in Live
               PROVE  /\ cd[h].guest \in Guests
                      /\ fds'[cd[h].local] = cd[h].guest /\ fds'[cd[h].host] = h
    BY <1>2, <1>3 DEF ThreadsOwn, Live
  <2>1. /\ cd[h].guest \in Guests
        /\ fds[cd[h].local] = cd[h].guest /\ fds[cd[h].host] = h
        /\ \A i \in 1..Len(free) : free[i] # cd[h].local
    BY DEF Own, ThreadsOwn
  <2>2. \A i \in 1..Len(free) : free[i] # cd[h].host
    BY <2>1, Apart DEF Own, FreeAreLocal
  <2>3. fds' = Closed({free[i] : i \in 1..Len(free)})
    BY DEF Timeout
  <2> QED
    BY <1>1, <2>1, <2>2, <2>3 DEF Closed
<1>6. LocalsApart'
  BY <1>2 DEF Own, LocalsApart, Live
<1> QED
  BY <1>4, <1>5, <1>6 DEF Own

\* A guest that is accepted gets a descriptor nobody has.
LEMMA AcceptGuestOwns ==
  ASSUME Types, Own, mpc = "serve", UNCHANGED <<mpc, tpc, cd>>,
         NEW g \in Guests, NEW d \in Descriptors, fds[d] = NULL,
         fds' = [fds EXCEPT ![d] = g], free' = Append(free, d)
  PROVE  Own'
<1>0. free \in Seq(Descriptors) /\ fds \in [Descriptors -> Things] /\ Len(free) \in Nat
  BY LenProperties DEF Types, MainTypes, KernelTypes
<1>1. \A h \in HostConns : cd[h].local \in Descriptors /\ cd[h].host \in Descriptors
  BY DEF Types, ThreadTypes, Duos
<1>2. /\ Len(free') = Len(free) + 1 /\ free'[Len(free) + 1] = d
      /\ \A i \in 1..Len(free) : free'[i] = free[i] /\ free[i] \in Descriptors
  BY <1>0, AppendProperties
<1>3. \A i \in 1..Len(free) : free[i] # d /\ fds[free[i]] \in Guests
  BY Apart DEF Own, FreeAreLocal
<1>4. ASSUME NEW h \in HostConns, tpc[h] \in Live PROVE cd[h].local # d /\ cd[h].host # d
  <2>1. fds[cd[h].local] \in Guests /\ fds[cd[h].host] = h
    BY <1>4 DEF Own, ThreadsOwn
  <2> QED
    BY <2>1, Apart
<1>5. Starting' /\ LocalsApart'
  BY DEF Own, Starting, LocalsApart, Live
<1>6. FreeAreLocal'
  BY <1>0, <1>2, <1>3 DEF FreeAreLocal
<1>7. FreeOnce'
  BY <1>0, <1>2, <1>3 DEF Own, FreeOnce
<1>8. ThreadsOwn'
  BY <1>0, <1>1, <1>2, <1>4 DEF Own, ThreadsOwn, Live
<1> QED
  BY <1>5, <1>6, <1>7, <1>8 DEF Own

\* When the first free socket is taken out, the others stay as they are.
LEMMA RestOwned ==
  ASSUME Types, Own, free # <<>>, free' = Tail(free)
  PROVE  /\ Head(free) \in Descriptors /\ fds[Head(free)] \in Guests
         /\ \A i \in 1..Len(free') :
              /\ free'[i] \in Descriptors /\ fds[free'[i]] \in Guests
              /\ free'[i] # Head(free)
              /\ \A h \in HostConns : tpc[h] \in Live => free'[i] # cd[h].local
         /\ \A h \in HostConns : tpc[h] \in Live => Head(free) # cd[h].local
         /\ \A i, j \in 1..Len(free') : free'[i] = free'[j] => i = j
<1>0. free \in Seq(Descriptors) /\ Len(free) \in Nat
  BY LenProperties DEF Types, MainTypes
<1>1. /\ Head(free) = free[1] /\ Head(free) \in Descriptors /\ 1 \in 1..Len(free)
      /\ Len(free') = Len(free) - 1
      /\ \A i \in 1..Len(free') : free'[i] = free[i + 1] /\ i + 1 \in 1..Len(free)
  BY <1>0, FirstAndRest
<1>2. \A i \in 1..Len(free) :
        /\ free[i] \in Descriptors /\ fds[free[i]] \in Guests
        /\ \A h \in HostConns : tpc[h] \in Live => free[i] # cd[h].local
  BY <1>0 DEF Own, FreeAreLocal, ThreadsOwn
<1>3. \A i \in 1..Len(free') : free'[i] # Head(free)
  BY <1>0, <1>1 DEF Own, FreeOnce
<1>4. \A i, j \in 1..Len(free') : free'[i] = free'[j] => i = j
  BY <1>0, <1>1 DEF Own, FreeOnce
<1>5. ASSUME NEW i \in 1..Len(free')
      PROVE  /\ free'[i] \in Descriptors /\ fds[free'[i]] \in Guests
             /\ \A h \in HostConns : tpc[h] \in Live => free'[i] # cd[h].local
  <2>1. free'[i] = free[i + 1] /\ i + 1 \in 1..Len(free)
    BY <1>1
  <2> DEFINE n == i + 1
  <2> HIDE DEF n
  <2>2. free'[i] = free[n] /\ n \in 1..Len(free)
    BY <2>1 DEF n
  <2> QED
    BY <1>2, <2>2, Zenon
<1>6. /\ fds[Head(free)] \in Guests
      /\ \A h \in HostConns : tpc[h] \in Live => Head(free) # cd[h].local
  BY <1>1, <1>2, Zenon
<1> QED
  BY <1>1, <1>3, <1>4, <1>5, <1>6, Zenon

\* A failed pthread_create closes the socket that was taken out.
LEMMA CreateFailsOwns ==
  ASSUME Types, Own, mpc = "serve", UNCHANGED <<mpc, tpc, cd>>,
         free # <<>>, free' = Tail(free), fds' = Closed({Head(free)})
  PROVE  Own'
<1>1. \A h \in HostConns : cd[h].local \in Descriptors /\ cd[h].host \in Descriptors
  BY DEF Types, ThreadTypes, Duos
<1>2. Starting' /\ LocalsApart'
  BY DEF Own, Starting, LocalsApart, Live
<1>3. FreeAreLocal' /\ FreeOnce'
  BY RestOwned DEF FreeAreLocal, FreeOnce, Closed
<1>4. ThreadsOwn'
  <2> SUFFICES ASSUME NEW h \in HostConns, tpc[h] \in Live
               PROVE  /\ cd[h].guest \in Guests
                      /\ fds'[cd[h].local] = cd[h].guest /\ fds'[cd[h].host] = h
                      /\ \A i \in 1..Len(free') : free'[i] # cd[h].local
    BY DEF ThreadsOwn, Live
  <2>1. /\ cd[h].guest \in Guests
        /\ fds[cd[h].local] = cd[h].guest /\ fds[cd[h].host] = h
    BY DEF Own, ThreadsOwn
  <2>2. Head(free) # cd[h].local /\ Head(free) # cd[h].host
    BY <2>1, RestOwned, Apart
  <2> QED
    BY <1>1, <2>1, <2>2, RestOwned DEF Closed
<1> QED
  BY <1>2, <1>3, <1>4 DEF Own

\* A new thread, or one that ends at once, takes the socket that was taken out and a
\* descriptor nobody has.
LEMMA NewThreadOwns ==
  ASSUME Types, Own, mpc = "serve", UNCHANGED mpc,
         NEW h \in HostConns, NEW d \in Descriptors, fds[d] = NULL,
         free # <<>>, free' = Tail(free), fds' = [fds EXCEPT ![d] = h],
         cd' = [cd EXCEPT ![h] = [local |-> Head(free), host |-> d,
                                  guest |-> fds[Head(free)], to |-> NULL]],
         \/ tpc' = [tpc EXCEPT ![h] = "relay"]
         \/ tpc' = [tpc EXCEPT ![h] = "done"]
  PROVE  Own'
<1>0. /\ fds \in [Descriptors -> Things]
      /\ cd \in [HostConns -> Duos]
      /\ tpc \in [HostConns -> Live \cup {"none", "again", "done"}]
  BY DEF Types, KernelTypes, ThreadTypes
<1>1. \A k \in HostConns : cd[k].local \in Descriptors /\ cd[k].host \in Descriptors
  BY <1>0 DEF Duos
<1>2. \A k \in HostConns : k # h => tpc'[k] = tpc[k] /\ cd'[k] = cd[k]
  BY <1>0
<1>3. /\ cd'[h].local = Head(free) /\ cd'[h].host = d
      /\ cd'[h].guest = fds[Head(free)]
  BY <1>0
<1>4. \A e \in Descriptors : fds[e] \in Conns => e # d /\ fds'[e] = fds[e]
  BY <1>0, Apart
<1>5. Starting'
  BY DEF Starting
<1>6. FreeAreLocal' /\ FreeOnce'
  <2>1. \A i \in 1..Len(free') : fds'[free'[i]] \in Guests
    BY <1>4, RestOwned, Apart
  <2> QED
    BY <2>1, RestOwned DEF FreeAreLocal, FreeOnce
<1>7. ThreadsOwn'
  <2> SUFFICES ASSUME NEW k \in HostConns, tpc'[k] \in Live
               PROVE  /\ cd'[k].guest \in Guests
                      /\ fds'[cd'[k].local] = cd'[k].guest /\ fds'[cd'[k].host] = k
                      /\ \A i \in 1..Len(free') : free'[i] # cd'[k].local
    BY DEF ThreadsOwn, Live
  <2>1. CASE k = h
    <3>1. Head(free) \in Descriptors /\ fds[Head(free)] \in Guests
      BY RestOwned
    <3>2. fds'[Head(free)] = fds[Head(free)]
      BY <1>4, <3>1, Apart
    <3>3. fds'[d] = h
      BY <1>0
    <3> QED
      BY <1>3, <2>1, <3>1, <3>2, <3>3, RestOwned
  <2>2. CASE k # h
    <3>1. tpc[k] \in Live /\ cd'[k] = cd[k]
      BY <1>2, <2>2
    <3>2. /\ cd[k].guest \in Guests
          /\ fds[cd[k].local] = cd[k].guest /\ fds[cd[k].host] = k
      BY <3>1 DEF Own, ThreadsOwn
    <3>3. fds'[cd[k].local] = cd[k].guest /\ fds'[cd[k].host] = k
      BY <1>1, <1>4, <3>2, Apart
    <3>4. \A i \in 1..Len(free') : free'[i] # cd[k].local
      BY <3>1, RestOwned
    <3> QED
      BY <3>1, <3>2, <3>3, <3>4
  <2> QED
    BY <2>1, <2>2
<1>8. LocalsApart'
  <2> SUFFICES ASSUME NEW k \in HostConns, NEW m \in HostConns, k # m,
                      tpc'[k] \in Live, tpc'[m] \in Live
               PROVE  cd'[k].local # cd'[m].local
    BY DEF LocalsApart, Live
  <2>1. \A n \in HostConns : n # h /\ tpc'[n] \in Live => Head(free) # cd'[n].local
    BY <1>2, RestOwned
  <2>2. CASE k = h \/ m = h
    BY <1>3, <2>1, <2>2
  <2>3. CASE k # h /\ m # h
    BY <1>2, <2>3 DEF Own, LocalsApart
  <2> QED
    BY <2>2, <2>3
<1> QED
  BY <1>5, <1>6, <1>7, <1>8 DEF Own

\* Copying changes only what the thread does and whom it writes to.
LEMMA CopyOwns ==
  ASSUME Types, Own, NEW h \in HostConns, tpc[h] \in Live, NEW t, NEW p,
         tpc' = [tpc EXCEPT ![h] = p], cd' = [cd EXCEPT ![h].to = t],
         UNCHANGED <<mpc, free, fds>>
  PROVE  Own'
<1>1. cd \in [HostConns -> Duos] /\ tpc \in [HostConns -> Live \cup {"none", "again", "done"}]
  BY DEF Types, ThreadTypes
<1>2. cd' = [cd EXCEPT ![h] = [cd[h] EXCEPT !.to = t]]
  BY <1>1
<1>3. \A k \in HostConns :
        cd'[k].local = cd[k].local /\ cd'[k].host = cd[k].host /\ cd'[k].guest = cd[k].guest
  BY <1>1, <1>2 DEF Duos
<1>4. \A k \in HostConns : tpc'[k] \in Live => tpc[k] \in Live
  BY <1>1
<1>5. Starting' /\ FreeAreLocal' /\ FreeOnce'
  BY <1>4 DEF Own, Starting, FreeAreLocal, FreeOnce, Live
<1>6. ThreadsOwn'
  <2> SUFFICES ASSUME NEW k \in HostConns, tpc'[k] \in Live
               PROVE  /\ cd'[k].guest \in Guests
                      /\ fds[cd'[k].local] = cd'[k].guest /\ fds[cd'[k].host] = k
                      /\ \A i \in 1..Len(free) : free[i] # cd'[k].local
    BY DEF ThreadsOwn, Live
  <2> QED
    BY <1>3, <1>4 DEF Own, ThreadsOwn
<1>7. LocalsApart'
  <2> SUFFICES ASSUME NEW k \in HostConns, NEW m \in HostConns, k # m,
                      tpc'[k] \in Live, tpc'[m] \in Live
               PROVE  cd'[k].local # cd'[m].local
    BY DEF LocalsApart, Live
  <2> QED
    BY <1>3, <1>4 DEF Own, LocalsApart
<1> QED
  BY <1>5, <1>6, <1>7 DEF Own

\* The second close finds both descriptors closed, or reused says so.
LEMMA CloseAgainOwns ==
  ASSUME Types, Own, NEW h \in HostConns, CloseAgain(h), ~reused' PROVE Own'
<1>1. /\ cd \in [HostConns -> Duos] /\ fds \in [Descriptors -> Things]
      /\ tpc \in [HostConns -> Live \cup {"none", "again", "done"}]
  BY DEF Types, ThreadTypes, KernelTypes
<1>2. \A d \in ThreadFds(h) : fds[d] = NULL
  BY DEF CloseAgain
<1>3. fds' = fds
  BY <1>1, <1>2 DEF CloseAgain, Closed
<1>4. \A k \in HostConns : tpc'[k] \in Live => tpc[k] \in Live /\ cd'[k] = cd[k]
  BY <1>1 DEF CloseAgain, Live
<1>5. UNCHANGED <<mpc, free>>
  BY DEF CloseAgain, mainVars
<1>6. Starting' /\ FreeAreLocal' /\ FreeOnce'
  BY <1>3, <1>4, <1>5 DEF Own, Starting, FreeAreLocal, FreeOnce, Live
<1>7. ThreadsOwn'
  BY <1>3, <1>4, <1>5 DEF Own, ThreadsOwn, Live
<1>8. LocalsApart'
  BY <1>4 DEF Own, LocalsApart, Live
<1> QED
  BY <1>6, <1>7, <1>8 DEF Own

LEMMA MainOwns == ASSUME Types, Own, Main PROVE Own'
<1>0. fds \in [Descriptors -> Things] /\ queue \in Seq(Conns)
  BY DEF Types, KernelTypes
<1>1. CASE Exit
  BY <1>1, ExitOwns
<1>2. CASE AcceptMain
  <2>1. free' = <<>> /\ \A h \in HostConns : tpc'[h] \notin Live
    BY <1>2 DEF AcceptMain, Own, Starting, threadVars
  <2>2. \A i \in 1..Len(free') : FALSE
    BY <2>1
  <2> QED
    BY <2>1, <2>2 DEF Own, Starting, FreeAreLocal, FreeOnce, ThreadsOwn, LocalsApart, Live
<1>3. CASE ReadStart /\ ~Exit
  <2>1. /\ UNCHANGED <<free, tpc, cd>> /\ mpc' = "serve"
        /\ \E d \in Descriptors : fds[d] = NULL /\ fds' = [fds EXCEPT ![d] = LISTEN]
    BY <1>3 DEF ReadStart, threadVars, Lowest
  <2>2. \A d \in Descriptors : fds[d] \in Conns => fds'[d] = fds[d]
    BY <1>0, <2>1, Apart
  <2> QED
    BY <2>1, <2>2, Framed
<1>4. CASE Timeout
  BY <1>4, TimeoutOwns
<1>5. CASE AcceptGone
  <2>1. UNCHANGED <<free, tpc, cd, mpc, fds>>
    BY <1>5 DEF AcceptGone, threadVars
  <2> QED
    BY <2>1, Framed
<1>6. CASE AcceptGuest /\ ~Exit
  <2>1. mpc = "serve" /\ Head(queue) \in Guests
    BY <1>6 DEF AcceptGuest, Serving
  <2>2. CASE UNCHANGED <<free, tpc, cd, mpc, fds>>
    BY <2>2, Framed
  <2>3. ASSUME NEW d \in Descriptors, fds[d] = NULL,
               fds' = [fds EXCEPT ![d] = Head(queue)], free' = Append(free, d),
               UNCHANGED <<mpc, tpc, cd>>
        PROVE  Own'
    BY <2>1, <2>3, AcceptGuestOwns
  <2> QED
    BY <1>6, <2>2, <2>3 DEF AcceptGuest, AskHost, threadVars, Lowest
<1>7. CASE AcceptHost
  <2>1. mpc = "serve" /\ Head(queue) \in HostConns
    BY <1>7 DEF AcceptHost, Serving
  <2>2. CASE UNCHANGED <<free, tpc, cd, fds>>
    <3>1. mpc' = mpc \/ mpc' = "overrun"
      BY <1>7 DEF AcceptHost
    <3> QED
      BY <2>1, <2>2, <3>1, Framed
  <2>3. CASE /\ free # <<>> /\ free' = Tail(free) /\ fds' = Closed({Head(free)})
             /\ UNCHANGED <<mpc, tpc, cd>>
    BY <2>1, <2>3, CreateFailsOwns
  <2>4. ASSUME NEW d \in Descriptors, fds[d] = NULL, free # <<>>, free' = Tail(free),
               fds' = [fds EXCEPT ![d] = Head(queue)], UNCHANGED mpc,
               cd' = [cd EXCEPT ![Head(queue)] =
                        [local |-> Head(free), host |-> d,
                         guest |-> fds[Head(free)], to |-> NULL]],
               \/ tpc' = [tpc EXCEPT ![Head(queue)] = "relay"]
               \/ tpc' = [tpc EXCEPT ![Head(queue)] = "done"]
        PROVE  Own'
    BY <2>1, <2>4, NewThreadOwns
  <2> QED
    BY <1>7, <2>2, <2>3, <2>4 DEF AcceptHost, TakeFirst, threadVars, Lowest
<1> QED
  BY <1>1, <1>2, <1>3, <1>4, <1>5, <1>6, <1>7 DEF Main, LoseHost

LEMMA ThreadOwns ==
  ASSUME Types, Own, NEW h \in HostConns, Thread(h), ~reused' PROVE Own'
<1>1. CASE Exit
  BY <1>1, ExitOwns
<1>2. CASE BeginCopy(h)
  <2>1. /\ tpc[h] \in Live /\ tpc' = [tpc EXCEPT ![h] = "write"]
        /\ \E t : cd' = [cd EXCEPT ![h].to = t]
        /\ UNCHANGED <<mpc, free, fds>>
    BY <1>2 DEF BeginCopy, mainVars, Live
  <2> QED
    BY <2>1, CopyOwns
<1>3. CASE EndCopy(h) /\ ~Exit
  <2>1. /\ tpc[h] \in Live /\ tpc' = [tpc EXCEPT ![h] = "relay"]
        /\ cd' = [cd EXCEPT ![h].to = NULL]
        /\ UNCHANGED <<mpc, free, fds>>
    BY <1>3 DEF EndCopy, mainVars, Live
  <2> QED
    BY <2>1, CopyOwns
<1>4. CASE EndOfFile(h)
  BY <1>4, ThreadClosesOwn DEF EndOfFile, mainVars, Live
<1>5. CASE BadDescriptor(h)
  <2>1. tpc[h] \in Live /\ EndThread(h) /\ UNCHANGED <<mpc, free>>
    BY <1>5 DEF BadDescriptor, mainVars, Live
  <2>2. fds[cd[h].local] # NULL /\ fds[cd[h].host] # NULL
    <3>1. fds[cd[h].local] \in Guests /\ fds[cd[h].host] = h
      BY <2>1, Zenon DEF Own, ThreadsOwn
    <3> QED
      BY <3>1, Apart
  <2>3. fds' = Closed(ThreadFds(h))
    BY <1>5, <2>2 DEF BadDescriptor, ThreadFds
  <2> QED
    BY <2>1, <2>3, ThreadClosesOwn
<1>6. CASE CloseAgain(h)
  BY <1>6, CloseAgainOwns
<1> QED
  BY <1>1, <1>2, <1>3, <1>4, <1>5, <1>6 DEF Thread

\* What was confused once stays so.
LEMMA ReusedStays == ASSUME [Next]_vars, ~reused' PROVE ~reused
<1>1. ASSUME NEW h \in HostConns, Thread(h) PROVE ~reused
  BY <1>1 DEF Thread, BeginCopy, EndCopy, EndOfFile, BadDescriptor, CloseAgain
<1> QED
  BY <1>1 DEF Next, Main, AcceptMain, ReadStart, LoseHost, Timeout, Serving, AcceptGone,
              AcceptGuest, AcceptHost, World, HostComes, HostLeaves, GuestConnects,
              HostConnects, PeerLeaves, othersVars, vars

LEMMA RelayNext == RelayInv /\ [Next]_vars => RelayInv'
<1> SUFFICES ASSUME RelayInv, [Next]_vars, ~reused' PROVE Own'
  BY TypesNext DEF RelayInv
<1>1. ~reused
  BY ReusedStays
<1>2. Types /\ Own
  BY <1>1 DEF RelayInv
<1>3. CASE UNCHANGED othersVars
  <2>1. UNCHANGED <<free, tpc, cd, mpc, fds>>
    BY <1>3 DEF othersVars, mainVars, threadVars
  <2> QED
    BY <1>2, <2>1, Framed
<1>4. World \/ UNCHANGED vars => UNCHANGED othersVars
  BY DEF World, HostComes, HostLeaves, GuestConnects, HostConnects, PeerLeaves, othersVars,
         vars
<1> QED
  BY <1>2, <1>3, <1>4, MainOwns, ThreadOwns DEF Next

LEMMA RelayHolds == Spec => []RelayInv
<1>1. Init => RelayInv
  <2> SUFFICES ASSUME Init PROVE RelayInv
    OBVIOUS
  <2>1. free = <<>> /\ \A h \in HostConns : tpc[h] \notin Live
    BY DEF Init, Live
  <2> QED
    BY <2>1, TypesInit, NothingOwned DEF RelayInv
<1> QED
  BY <1>1, RelayNext, PTL DEF Spec

\* Until a descriptor is closed for the second time after it was handed out again, main's
\* free sockets are guests' and every thread copies between its own two connections.
THEOREM SocketsOwned == Spec => []OwnedUntilReused
<1>1. RelayInv => OwnedUntilReused
  BY DEF RelayInv, Own, ThreadsOwn, OwnedUntilReused, RelaysOwn
<1> QED
  BY <1>1, RelayHolds, PTL

-----------------------------------------------------------------------------
(* The connections of the host, by number.                                  *)

\* A connection that was made has its number: it is in the queue once and has no
\* thread there, or it was accepted, or it is over.
Numbered ==
  /\ \A c \in HostConns : c \in Queued \cup left \cup Accepted => c <= MaxGuests + hosts
  /\ \A i, j \in 1..Len(queue) : queue[i] \in HostConns /\ queue[i] = queue[j] => i = j
  /\ \A h \in HostConns :
       tpc[h] \in Live => h <= MaxGuests + hosts /\ h \notin Queued

\* What is in the queue once its first entry is out.
LEMMA QueueTail ==
  ASSUME queue \in Seq(Conns), queue # <<>>, queue' = Tail(queue)
  PROVE  /\ Head(queue) \in Conns /\ Head(queue) \in Queued
         /\ Queued = {Head(queue)} \cup Queued'
         /\ Len(queue') = Len(queue) - 1 /\ Len(queue) \in Nat
         /\ \A i \in 1..Len(queue') : queue'[i] = queue[i + 1] /\ i + 1 \in 1..Len(queue)
<1>1. /\ Head(queue) = queue[1] /\ Head(queue) \in Conns /\ 1 \in 1..Len(queue)
      /\ Len(queue') = Len(queue) - 1 /\ Len(queue) \in Nat
      /\ \A i \in 1..Len(queue') : queue'[i] = queue[i + 1] /\ i + 1 \in 1..Len(queue)
  BY FirstAndRest, LenProperties
<1>2. ASSUME NEW i \in 1..Len(queue), i # 1
      PROVE  i - 1 \in 1..Len(queue') /\ queue[i] = queue'[i - 1]
  <2>1. i - 1 \in 1..Len(queue') /\ (i - 1) + 1 = i
    BY <1>1, <1>2
  <2> QED BY <1>1, <2>1
<1>3. Queued' \subseteq Queued
  BY <1>1 DEF Queued
<1>4. ASSUME NEW c \in Queued, c # Head(queue) PROVE c \in Queued'
  <2>1. PICK i \in 1..Len(queue) : c = queue[i]
    BY DEF Queued
  <2>2. i - 1 \in 1..Len(queue') /\ c = queue'[i - 1]
    BY <1>1, <1>2, <1>4, <2>1
  <2> QED BY <2>2 DEF Queued
<1>5. Head(queue) \in Queued
  BY <1>1 DEF Queued
<1> QED
  BY <1>1, <1>3, <1>4, <1>5

\* What is in the queue with one more at its end.
LEMMA QueueAppend ==
  ASSUME queue \in Seq(Conns), NEW c \in Conns, queue' = Append(queue, c)
  PROVE  /\ Queued' = Queued \cup {c}
         /\ Len(queue') = Len(queue) + 1 /\ Len(queue) \in Nat
         /\ queue'[Len(queue) + 1] = c
         /\ \A i \in 1..Len(queue) : queue'[i] = queue[i]
<1>1. /\ Len(queue') = Len(queue) + 1 /\ Len(queue) \in Nat
      /\ queue'[Len(queue) + 1] = c
      /\ \A i \in 1..Len(queue) : queue'[i] = queue[i]
  BY AppendProperties, LenProperties
<1>2. 1..Len(queue') = 1..Len(queue) \cup {Len(queue) + 1}
  BY <1>1
<1>3. Queued' \subseteq Queued \cup {c}
  BY <1>1, <1>2 DEF Queued
<1>4. Queued \cup {c} \subseteq Queued'
  BY <1>1, <1>2 DEF Queued
<1> QED BY <1>1, <1>3, <1>4

\* A step that makes no connection and accepts none.
LEMMA NumbersKept ==
  ASSUME Types, Numbered, UNCHANGED hosts, queue' = queue \/ queue' = <<>>,
         left' \subseteq left \cup Accepted \cup Queued,
         \A d \in Descriptors : fds'[d] \in HostConns => fds'[d] = fds[d],
         \A h \in HostConns : tpc'[h] \in Live => tpc[h] \in Live
  PROVE  Numbered'
<1>1. Queued' \subseteq Queued /\ 1..Len(queue') \subseteq 1..Len(queue)
  <2>1. CASE queue' = queue BY <2>1 DEF Queued
  <2>2. CASE queue' = <<>>
    <3>1. 1..Len(queue') = {} BY <2>2
    <3> QED BY <3>1 DEF Queued
  <2> QED BY <2>1, <2>2
<1>2. \A c \in HostConns : c \in Accepted' => c \in Accepted
  BY DEF Accepted
<1>3. \A c \in HostConns : c \in Queued' \cup left' \cup Accepted' =>
        c <= MaxGuests + hosts'
  BY <1>1, <1>2 DEF Numbered
<1>4. \A i, j \in 1..Len(queue') : queue'[i] \in HostConns /\ queue'[i] = queue'[j] => i = j
  <2>1. CASE queue' = queue BY <2>1 DEF Numbered
  <2>2. CASE queue' = <<>>
    <3>1. 1..Len(queue') = {} BY <2>2
    <3> QED BY <3>1
  <2> QED BY <2>1, <2>2
<1>5. \A h \in HostConns :
        tpc'[h] \in Live => h <= MaxGuests + hosts' /\ h \notin Queued'
  BY <1>1 DEF Numbered
<1> QED
  BY <1>3, <1>4, <1>5 DEF Numbered, Live

\* A step that accepts the first connection of the queue.
LEMMA NumbersTaken ==
  ASSUME Types, Numbered, UNCHANGED <<hosts, left>>, queue # <<>>, queue' = Tail(queue),
         \A d \in Descriptors :
           fds'[d] \in HostConns => fds'[d] = fds[d] \/ fds'[d] = Head(queue),
         \A h \in HostConns : tpc'[h] \in Live => tpc[h] \in Live \/ h = Head(queue)
  PROVE  Numbered'
<1>0. queue \in Seq(Conns) BY DEF Types, KernelTypes
<1>1. /\ Head(queue) \in Queued /\ Queued = {Head(queue)} \cup Queued'
      /\ Len(queue') = Len(queue) - 1 /\ Len(queue) \in Nat
      /\ \A i \in 1..Len(queue') : queue'[i] = queue[i + 1] /\ i + 1 \in 1..Len(queue)
  BY <1>0, QueueTail
<1>2. \A c \in HostConns : c \in Accepted' => c \in Accepted \cup {Head(queue)}
  BY DEF Accepted
<1>3. \A c \in HostConns : c \in Queued' \cup left' \cup Accepted' =>
        c <= MaxGuests + hosts'
  BY <1>1, <1>2 DEF Numbered
<1>4. ASSUME NEW i \in 1..Len(queue'), NEW j \in 1..Len(queue'),
             queue'[i] \in HostConns, queue'[i] = queue'[j]
      PROVE  i = j
  <2>1. /\ i + 1 \in 1..Len(queue) /\ j + 1 \in 1..Len(queue)
        /\ queue[i + 1] \in HostConns /\ queue[i + 1] = queue[j + 1]
    BY <1>1, <1>4
  <2>2. i + 1 = j + 1
    BY <2>1 DEF Numbered
  <2> QED BY <2>2
<1>5. Head(queue) \in HostConns => Head(queue) \notin Queued'
  <2> SUFFICES ASSUME Head(queue) \in HostConns, Head(queue) \in Queued' PROVE FALSE
    OBVIOUS
  <2>1. PICK i \in 1..Len(queue') : queue'[i] = Head(queue)
    BY DEF Queued
  <2>2. /\ Head(queue) = queue[1] /\ 1 \in 1..Len(queue)
        /\ queue[i + 1] = queue[1] /\ i + 1 \in 1..Len(queue)
    BY <1>0, <1>1, <2>1, FirstAndRest
  <2>3. i + 1 = 1
    BY <2>2 DEF Numbered
  <2> QED BY <2>3
<1>6. \A h \in HostConns :
        tpc'[h] \in Live => h <= MaxGuests + hosts' /\ h \notin Queued'
  BY <1>1, <1>5 DEF Numbered
<1> QED
  BY <1>3, <1>4, <1>6 DEF Numbered, Live

\* The host connects: the number is new.
LEMMA NumbersNew ==
  ASSUME Types, Numbered, HostConnects
  PROVE  Numbered' /\ MaxGuests + hosts' \in HostConns \ (Queued \cup left)
<1> DEFINE n == MaxGuests + hosts'
<1>1. /\ queue \in Seq(Conns) /\ queue' = Append(queue, n) /\ hosts' = hosts + 1
      /\ hosts \in Nat /\ MaxGuests \in Nat /\ UNCHANGED <<left, fds, tpc>>
  BY RelayAssumption DEF Types, KernelTypes, WorldTypes, HostConnects, othersVars, threadVars
<1>2. n \in HostConns /\ n \in Conns
  BY RelayAssumption DEF Types, WorldTypes, HostConnects, HostConns, Conns
<1>3. \A c \in HostConns : c \in Nat
  BY Apart
<1> HIDE DEF n
<1>4. /\ Queued' = Queued \cup {n} /\ Len(queue') = Len(queue) + 1 /\ Len(queue) \in Nat
      /\ queue'[Len(queue) + 1] = n
      /\ \A i \in 1..Len(queue) : queue'[i] = queue[i]
  BY <1>1, <1>2, QueueAppend
<1>5. n > MaxGuests + hosts /\ n = MaxGuests + hosts'
  BY <1>1 DEF n
<1>6. n \notin Queued /\ n \notin left /\ tpc[n] \notin Live
  BY <1>1, <1>2, <1>3, <1>5 DEF Numbered
<1>7. Accepted' = Accepted
  BY <1>1 DEF Accepted
<1>8. \A c \in HostConns : c \in Queued' \cup left' \cup Accepted' =>
        c <= MaxGuests + hosts'
  BY <1>1, <1>3, <1>4, <1>5, <1>7 DEF Numbered
<1>9. ASSUME NEW i \in 1..Len(queue'), NEW j \in 1..Len(queue'),
             queue'[i] \in HostConns, queue'[i] = queue'[j]
      PROVE  i = j
  <2>1. \A k \in 1..Len(queue) : queue[k] # n
    BY <1>6 DEF Queued
  <2>2. CASE i \in 1..Len(queue) /\ j \in 1..Len(queue)
    BY <1>4, <1>9, <2>2 DEF Numbered
  <2>3. CASE i = Len(queue) + 1 \/ j = Len(queue) + 1
    BY <1>4, <1>9, <2>1, <2>3
  <2> QED BY <1>4, <2>2, <2>3
<1>10. \A h \in HostConns :
        tpc'[h] \in Live => h <= MaxGuests + hosts' /\ h \notin Queued'
  BY <1>1, <1>3, <1>4, <1>5, <1>6 DEF Numbered
<1> QED
  BY <1>2, <1>5, <1>6, <1>8, <1>9, <1>10 DEF Numbered, Live

\* A guest connects: the connections of the host stay as they are.
LEMMA NumbersOfGuest ==
  ASSUME Types, Numbered, GuestConnects
  PROVE  Numbered' /\ Queued' \cap HostConns = Queued \cap HostConns
<1> DEFINE g == guests'
<1>1. /\ queue \in Seq(Conns) /\ queue' = Append(queue, g)
      /\ UNCHANGED <<left, fds, tpc, hosts>>
  BY DEF Types, KernelTypes, GuestConnects, othersVars, threadVars
<1>2. g \in Guests
  BY RelayAssumption DEF Types, WorldTypes, GuestConnects, Guests
<1> HIDE DEF g
<1>3. g \in Conns /\ g \notin HostConns
  BY <1>2, Apart
<1>4. /\ Queued' = Queued \cup {g} /\ Len(queue') = Len(queue) + 1 /\ Len(queue) \in Nat
      /\ queue'[Len(queue) + 1] = g
      /\ \A i \in 1..Len(queue) : queue'[i] = queue[i]
  BY <1>1, <1>3, QueueAppend
<1>5. Accepted' = Accepted
  BY <1>1 DEF Accepted
<1>6. \A c \in HostConns : c \in Queued' \cup left' \cup Accepted' =>
        c <= MaxGuests + hosts'
  BY <1>1, <1>3, <1>4, <1>5 DEF Numbered
<1>7. ASSUME NEW i \in 1..Len(queue'), NEW j \in 1..Len(queue'),
             queue'[i] \in HostConns, queue'[i] = queue'[j]
      PROVE  i = j
  <2>1. i \in 1..Len(queue) /\ j \in 1..Len(queue)
    BY <1>3, <1>4, <1>7
  <2> QED BY <1>4, <1>7, <2>1 DEF Numbered
<1>8. \A h \in HostConns :
        tpc'[h] \in Live => h <= MaxGuests + hosts' /\ h \notin Queued'
  BY <1>1, <1>3, <1>4 DEF Numbered
<1> QED
  BY <1>3, <1>4, <1>6, <1>7, <1>8 DEF Numbered, Live

\* Every step keeps the numbers.
LEMMA NumberedStep == ASSUME Types, Numbered, [Next]_vars PROVE Numbered'
<1>0. /\ fds \in [Descriptors -> Things] /\ tpc \in [HostConns -> Live \cup {"none", "again", "done"}]
      /\ NULL \notin HostConns /\ LISTEN \notin HostConns /\ MAIN \notin HostConns
  BY Apart DEF Types, KernelTypes, ThreadTypes
<1>1. CASE Exit /\ UNCHANGED <<hosts, left>>
  BY <1>0, <1>1, NumbersKept DEF Exit, Closed, Live
<1>2. CASE AcceptMain \/ ReadStart \/ Timeout
  <2>1. CASE ~Exit
    <3>1. \A d \in Descriptors : fds'[d] \in HostConns => fds'[d] = fds[d]
      BY <1>0, <1>2, <2>1 DEF AcceptMain, ReadStart, Timeout, Closed
    <3>2. UNCHANGED <<hosts, left, queue, tpc>>
      BY <1>2, <2>1 DEF AcceptMain, ReadStart, Timeout, threadVars, worldVars
    <3> QED BY <3>1, <3>2, NumbersKept
  <2>2. CASE Exit
    <3>1. UNCHANGED <<hosts, left>>
      BY <1>2 DEF AcceptMain, ReadStart, Timeout, worldVars
    <3> QED BY <1>1, <2>2, <3>1
  <2> QED BY <2>1, <2>2
<1>3. CASE LoseHost
  BY <1>1, <1>3 DEF LoseHost, worldVars
<1>4. CASE AcceptGone \/ AcceptGuest \/ AcceptHost
  <2>1. queue # <<>> /\ UNCHANGED <<hosts, left>>
    BY <1>4 DEF AcceptGone, AcceptGuest, AcceptHost, Serving
  <2>2. CASE ~Exit
    <3>1. queue' = Tail(queue)
      BY <1>4, <2>2 DEF AcceptGone, AcceptGuest, AcceptHost
    <3>2. \A d \in Descriptors :
            fds'[d] \in HostConns => fds'[d] = fds[d] \/ fds'[d] = Head(queue)
      BY <1>0, <1>4, <2>2 DEF AcceptGone, AcceptGuest, AcceptHost, Closed
    <3>3. \A h \in HostConns : tpc'[h] \in Live => tpc[h] \in Live \/ h = Head(queue)
      BY <1>0, <1>4, <2>2 DEF AcceptGone, AcceptGuest, AcceptHost, threadVars
    <3> QED BY <2>1, <3>1, <3>2, <3>3, NumbersTaken
  <2> QED BY <1>1, <2>1, <2>2
<1>5. ASSUME NEW h \in HostConns, Thread(h) PROVE Numbered'
  <2>1. UNCHANGED <<hosts, left>>
    BY <1>5 DEF Thread, BeginCopy, EndCopy, EndOfFile, BadDescriptor, CloseAgain, worldVars
  <2>2. CASE ~Exit
    <3>1. UNCHANGED queue /\ (UNCHANGED fds \/ fds' = Closed(ThreadFds(h)))
      BY <1>5, <2>2 DEF Thread, BeginCopy, EndCopy, EndOfFile, BadDescriptor, CloseAgain
    <3>2. \A d \in Descriptors : fds'[d] \in HostConns => fds'[d] = fds[d]
      BY <1>0, <3>1 DEF Closed
    <3>3. \A k \in HostConns : tpc'[k] \in Live => tpc[k] \in Live
      BY <1>0, <1>5, <2>2 DEF Thread, BeginCopy, EndCopy, EndOfFile, BadDescriptor,
         CloseAgain, EndThread, Live
    <3> QED BY <2>1, <3>1, <3>2, <3>3, NumbersKept
  <2> QED BY <1>1, <2>1, <2>2
<1>6. CASE HostComes \/ HostLeaves \/ (\E c \in Conns : PeerLeaves(c)) \/ UNCHANGED vars
  <2>1. UNCHANGED <<hosts, queue, fds, tpc>>
    BY <1>6 DEF HostComes, HostLeaves, PeerLeaves, vars, othersVars, worldVars, threadVars
  <2>2. left' \subseteq left \cup Accepted \cup Queued
    BY <1>6 DEF HostComes, HostLeaves, PeerLeaves, vars
  <2> QED BY <2>1, <2>2, NumbersKept
<1> QED
  BY <1>2, <1>3, <1>4, <1>5, <1>6, NumbersNew, NumbersOfGuest DEF Next, Main, World

\* Numbers hold throughout, with the types.
LEMMA NumbersHold == Spec => [](Types /\ Numbered)
<1>1. Init => Numbered
  <2> SUFFICES ASSUME Init PROVE Numbered
    OBVIOUS
  <2>1. 1..Len(queue) = {} /\ left = {} /\ \A h \in HostConns : tpc[h] \notin Live
    BY DEF Init, Live
  <2>2. Queued = {} BY <2>1 DEF Queued
  <2>3. HostConns \cap Accepted = {}
    BY Apart DEF Init, Accepted
  <2> QED BY <2>1, <2>2, <2>3 DEF Numbered
<1>2. Types /\ Numbered /\ [Next]_vars => (Types /\ Numbered)'
  BY TypesNext, NumberedStep
<1> QED
  BY <1>1, <1>2, TypesInit, PTL DEF Spec

-----------------------------------------------------------------------------
(* The free local sockets and the connections of the host on their way.     *)

\* The host connections that wait to be accepted, and those that are over.
Away == HostConns \cap (Queued \cup left)

AwaitInv ==
  /\ mpc \in {"listen", "start"} => free = <<>>
  /\ mpc = "serve" => Len(free) <= asked + faults + Cardinality(Away)

\* The host connections are finitely many, before and after a step.
LEMMA AwayFinite ==
  ASSUME NEW S, S \subseteq HostConns
  PROVE  IsFiniteSet(S) /\ Cardinality(S) \in Nat
<1>1. IsFiniteSet(HostConns)
  BY RelayAssumption, FS_Interval DEF HostConns
<1>2. IsFiniteSet(S)
  BY <1>1, FS_Subset
<1> QED
  BY <1>2, FS_CardinalityType

\* A step in which as many connections go as free sockets do, or failures happen.
LEMMA AwaitSum ==
  ASSUME Types, Types', AwaitInv, mpc = "serve", mpc' = "serve", NEW e \in Nat,
         Cardinality(Away) \in Nat, Cardinality(Away') \in Nat,
         Cardinality(Away) <= Cardinality(Away') + e,
         Len(free') + asked + faults + e <= Len(free) + asked' + faults'
  PROVE  AwaitInv'
<1> DEFINE l == Len(free)
           l1 == Len(free')
           n == Cardinality(Away)
           n1 == Cardinality(Away')
           k == asked + faults
           k1 == asked' + faults'
<1>0. asked \in Nat /\ faults \in Nat /\ asked' \in Nat /\ faults' \in Nat
  BY RelayAssumption DEF Types, WorldTypes
<1>1. l \in Nat /\ l1 \in Nat /\ k \in Nat /\ k1 \in Nat /\ n \in Nat /\ n1 \in Nat
  <2>1. l \in Nat /\ l1 \in Nat
    BY LenProperties DEF Types, MainTypes
  <2>2. k \in Nat /\ k1 \in Nat
    <3>1. \A a, b \in Nat : a + b \in Nat
      OBVIOUS
    <3> QED BY <1>0, <3>1, Zenon
  <2>3. n \in Nat /\ n1 \in Nat
    BY Zenon
  <2> QED BY <2>1, <2>2, <2>3, Zenon
<1>2. l <= k + n
  BY DEF AwaitInv
<1>3. n <= n1 + e
  OBVIOUS
<1>4. l1 + k + e <= l + k1
  BY <1>0, <1>1
<1>5. l1 <= k1 + n1
  <2> HIDE DEF l, l1, n, n1, k, k1
  <2> QED BY <1>1, <1>2, <1>3, <1>4
<1>6. Len(free') <= asked' + faults' + Cardinality(Away')
  BY <1>5
<1> HIDE DEF l, l1, n, n1, k, k1
<1> QED
  BY <1>6 DEF AwaitInv

\* A step that takes nothing away, or one connection with a free socket or a failure.
LEMMA AwaitKept ==
  ASSUME Types, Types', AwaitInv, mpc = "serve", mpc' = "serve",
         \/ /\ Away \subseteq Away'
            /\ Len(free') + asked + faults <= Len(free) + asked' + faults'
         \/ /\ \E c : Away \subseteq Away' \cup {c}
            /\ Len(free') + asked + faults + 1 <= Len(free) + asked' + faults'
  PROVE  AwaitInv'
<1>0. /\ Len(free) \in Nat /\ Len(free') \in Nat /\ asked \in Nat /\ asked' \in Nat
      /\ faults \in Nat /\ faults' \in Nat
  BY LenProperties, RelayAssumption DEF Types, MainTypes, WorldTypes
<1>1. /\ IsFiniteSet(Away) /\ IsFiniteSet(Away')
      /\ Cardinality(Away) \in Nat /\ Cardinality(Away') \in Nat
  <2>1. Away \subseteq HostConns /\ Away' \subseteq HostConns
    BY DEF Away
  <2>2. IsFiniteSet(Away) /\ Cardinality(Away) \in Nat
    BY <2>1, AwayFinite
  <2>3. IsFiniteSet(Away') /\ Cardinality(Away') \in Nat
    BY <2>1, AwayFinite
  <2> QED BY <2>2, <2>3
<1>3. CASE /\ Away \subseteq Away'
           /\ Len(free') + asked + faults <= Len(free) + asked' + faults'
  <2>1. Cardinality(Away) <= Cardinality(Away')
    BY <1>1, <1>3, FS_Subset
  <2>2. /\ Cardinality(Away) <= Cardinality(Away') + 0
        /\ Len(free') + asked + faults + 0 <= Len(free) + asked' + faults'
    BY <1>0, <1>1, <1>3, <2>1
  <2> QED BY <1>1, <2>2, AwaitSum, 0 \in Nat
<1>4. CASE /\ \E c : Away \subseteq Away' \cup {c}
           /\ Len(free') + asked + faults + 1 <= Len(free) + asked' + faults'
  <2>1. PICK c : Away \subseteq Away' \cup {c}
    BY <1>4
  <2>2. /\ IsFiniteSet(Away' \cup {c})
        /\ Cardinality(Away' \cup {c}) <= Cardinality(Away') + 1
        /\ Cardinality(Away' \cup {c}) \in Nat
    <3>1. IsFiniteSet(Away')
      BY <1>1
    <3>2. /\ IsFiniteSet(Away' \cup {c})
          /\ Cardinality(Away' \cup {c}) \in {Cardinality(Away'), Cardinality(Away') + 1}
      BY <3>1, FS_AddElement
    <3> QED BY <1>1, <3>2
  <2>3. Cardinality(Away) <= Cardinality(Away' \cup {c})
    BY <2>1, <2>2, FS_Subset
  <2>4. Cardinality(Away) <= Cardinality(Away') + 1
    BY <1>1, <2>2, <2>3
  <2> QED BY <1>1, <1>4, <2>4, AwaitSum, 1 \in Nat
<1> QED BY <1>3, <1>4

\* Main's steps: a guest that is kept is asked for, and a host connection that is taken
\* from the queue takes a free socket with it, or is paid for by a failure.
LEMMA MainAwaits == ASSUME Types, Types', AwaitInv, Main PROVE AwaitInv'
<1>0. /\ free \in Seq(Descriptors) /\ Len(free) \in Nat /\ queue \in Seq(Conns)
      /\ asked \in Nat /\ faults \in Nat
  BY LenProperties DEF Types, MainTypes, KernelTypes, WorldTypes
<1>1. CASE Exit
  BY <1>1 DEF Exit, AwaitInv
<1>2. CASE AcceptMain
  BY <1>2 DEF AcceptMain, AwaitInv
<1>3. CASE ReadStart /\ ~Exit
  <2>1. mpc' = "serve" /\ free' = <<>> /\ Cardinality(Away') \in Nat
    <3>1. Away' \subseteq HostConns BY DEF Away
    <3>2. Cardinality(Away') \in Nat BY <3>1, AwayFinite
    <3> QED BY <1>3, <3>2 DEF ReadStart, AwaitInv
  <2>2. Len(free') = 0 /\ asked' \in Nat /\ faults' \in Nat
    BY <1>0, <1>3, <2>1 DEF ReadStart, worldVars
  <2> QED BY <2>1, <2>2 DEF AwaitInv
<1>4. CASE Timeout
  <2>1. Away' = Away
    BY <1>4 DEF Timeout, Away, Queued
  <2>2. Len(free') = 0 /\ UNCHANGED <<asked, faults, mpc>> /\ mpc = "serve"
    BY <1>4 DEF Timeout, worldVars
  <2> QED BY <1>0, <2>1, <2>2, AwaitKept
<1>5. ASSUME Serving, queue' = Tail(queue)
      PROVE  /\ mpc = "serve" /\ Away \subseteq Away' \cup {Head(queue)}
             /\ Head(queue) \notin HostConns \/ Head(queue) \in left => Away \subseteq Away'
  <2>1. mpc = "serve" /\ Queued = {Head(queue)} \cup Queued' /\ UNCHANGED left
    BY <1>0, <1>5, QueueTail DEF Serving
  <2> QED BY <2>1 DEF Away
<1>6. CASE AcceptGone
  <2>1. Serving /\ queue' = Tail(queue) /\ Head(queue) \in left
        /\ UNCHANGED <<mpc, free, asked, faults>>
    BY <1>6 DEF AcceptGone
  <2>2. mpc = "serve" /\ Away \subseteq Away'
    BY <1>5, <2>1
  <2> QED BY <1>0, <2>1, <2>2, AwaitKept
<1>7. CASE AcceptGuest /\ ~Exit
  <2>1. Serving /\ queue' = Tail(queue) /\ Head(queue) \in Guests /\ UNCHANGED <<mpc, faults>>
    BY <1>7 DEF AcceptGuest, AskHost
  <2>2. mpc = "serve" /\ Away \subseteq Away'
    BY <1>5, <2>1, Apart
  <2>3. Len(free') + asked <= Len(free) + asked'
    <3>1. CASE UNCHANGED <<free, asked>>
      BY <1>0, <3>1
    <3>2. CASE asked' = asked + 1 /\ \E d \in Descriptors : free' = Append(free, d)
      <4>1. Len(free') = Len(free) + 1
        BY <1>0, <3>2, AppendProperties
      <4> QED BY <1>0, <3>2, <4>1
    <3> QED BY <1>7, <3>1, <3>2 DEF AcceptGuest, AskHost
  <2>4. Len(free') \in Nat /\ asked' \in Nat
    BY LenProperties DEF Types, MainTypes, WorldTypes
  <2> QED BY <1>0, <2>1, <2>2, <2>3, <2>4, AwaitKept
<1>8. CASE AcceptHost
  <2>1. Serving /\ queue' = Tail(queue) /\ UNCHANGED asked
    BY <1>8 DEF AcceptHost
  <2>2. mpc = "serve" /\ \E c : Away \subseteq Away' \cup {c}
    BY <1>5, <2>1
  <2>3. CASE mpc' = "overrun"
    BY <2>3 DEF AwaitInv
  <2>4. CASE UNCHANGED <<mpc, free, faults>> /\ free = <<>>
    <3>1. Cardinality(Away') \in Nat
      <4>1. Away' \subseteq HostConns BY DEF Away
      <4> QED BY <4>1, AwayFinite
    <3>2. Len(free') = 0 BY <2>4
    <3>3. Len(free') <= asked' + faults' + Cardinality(Away')
      BY <1>0, <2>1, <2>4, <3>1, <3>2
    <3>4. mpc' = "serve" BY <2>2, <2>4
    <3> QED BY <3>3, <3>4 DEF AwaitInv
  <2>5. CASE UNCHANGED <<mpc, free>> /\ faults' = faults + 1
    BY <1>0, <2>1, <2>2, <2>5, AwaitKept
  <2>6. CASE /\ UNCHANGED mpc /\ free # <<>> /\ free' = Tail(free)
             /\ faults' \in {faults, faults + 1}
    <3>1. Len(free') = Len(free) - 1
      BY <1>0, <2>6, FirstAndRest
    <3>2. Len(free') + asked + faults + 1 <= Len(free) + asked' + faults'
      BY <1>0, <2>1, <2>6, <3>1
    <3> QED BY <2>2, <2>6, <3>2, AwaitKept
  <2> QED BY <1>8, <2>3, <2>4, <2>5, <2>6 DEF AcceptHost, TakeFirst, Fault
<1> QED
  BY <1>1, <1>2, <1>3, <1>4, <1>6, <1>7, <1>8 DEF Main, LoseHost

\* The steps of the threads and of the other side.
LEMMA OthersAwait ==
  ASSUME Types, Types', Numbered, AwaitInv,
         (\E h \in HostConns : Thread(h)) \/ World \/ UNCHANGED vars
  PROVE  AwaitInv'
<1>0. Len(free) \in Nat /\ asked \in Nat /\ faults \in Nat
  BY LenProperties DEF Types, MainTypes, WorldTypes
<1>1. CASE Exit
  BY <1>1 DEF Exit, AwaitInv
<1>2. CASE HostConnects
  <2>1. mpc = "serve" /\ asked > 0 /\ asked' = asked - 1 /\ UNCHANGED <<mpc, free, faults, left>>
    BY <1>2 DEF HostConnects, othersVars, mainVars
  <2> DEFINE n == MaxGuests + hosts'
  <2>2. n \in HostConns \ Away /\ Away' = Away \cup {n}
    <3>1. n \in HostConns \ (Queued \cup left)
      BY <1>2, NumbersNew
    <3>2. queue \in Seq(Conns) /\ queue' = Append(queue, n) /\ n \in Conns
      BY <1>2, <3>1, Apart DEF HostConnects, Types, KernelTypes
    <3> HIDE DEF n
    <3>3. Queued' = Queued \cup {n}
      BY <3>2, QueueAppend
    <3> QED BY <2>1, <3>1, <3>3 DEF Away
  <2> HIDE DEF n
  <2>3. IsFiniteSet(Away) /\ Cardinality(Away) \in Nat
    <3>1. Away \subseteq HostConns BY DEF Away
    <3> QED BY <3>1, AwayFinite
  <2>4. Cardinality(Away') = Cardinality(Away) + 1
    BY <2>2, <2>3, FS_AddElement
  <2> QED BY <1>0, <2>1, <2>3, <2>4 DEF AwaitInv
<1>3. CASE ~Exit /\ ~HostConnects
  <2>1. UNCHANGED <<mpc, free, asked, faults>>
    BY <1>3 DEF Thread, BeginCopy, EndCopy, EndOfFile, BadDescriptor, CloseAgain, World,
       HostComes, HostLeaves, GuestConnects, PeerLeaves, vars, othersVars, mainVars, worldVars
  <2>2. Away \subseteq Away'
    <3>1. CASE GuestConnects
      <4>1. Queued' \cap HostConns = Queued \cap HostConns /\ UNCHANGED left
        BY <3>1, NumbersOfGuest DEF GuestConnects
      <4> QED BY <4>1 DEF Away
    <3>2. CASE UNCHANGED queue /\ left \subseteq left'
      BY <3>2 DEF Away, Queued
    <3>3. GuestConnects \/ (UNCHANGED queue /\ left \subseteq left')
      BY <1>3 DEF Thread, BeginCopy, EndCopy, EndOfFile, BadDescriptor, CloseAgain, World,
         HostComes, HostLeaves, PeerLeaves, vars
    <3> QED BY <3>1, <3>2, <3>3
  <2>3. CASE mpc = "serve"
    BY <1>0, <2>1, <2>2, <2>3, AwaitKept
  <2>4. CASE mpc # "serve"
    BY <2>1, <2>4 DEF AwaitInv
  <2> QED BY <2>3, <2>4
<1> QED BY <1>1, <1>2, <1>3

\* Every free local socket has a host connection on its way, but for the failures and
\* for the connections the host gave up: for any number of guests, in any order of
\* connections, and whether descriptors were confused or not.
THEOREM FreeAwaited == Spec => []FreeIsAwaited
<1>1. Init => AwaitInv
  BY DEF Init, AwaitInv
<1>2. Types /\ Numbered /\ AwaitInv /\ [Next]_vars => AwaitInv'
  BY TypesNext, MainAwaits, OthersAwait DEF Next
<1>3. Types /\ AwaitInv => FreeIsAwaited
  <2> SUFFICES ASSUME Types, AwaitInv, mpc = "serve"
               PROVE  Len(free) <= asked + faults + Cardinality(left \cap HostConns)
                                   + Cardinality(Queued \cap (HostConns \ left))
    BY DEF FreeIsAwaited
  <2> DEFINE L == left \cap HostConns
             Q == Queued \cap (HostConns \ left)
  <2>0. L \subseteq HostConns /\ Q \subseteq HostConns /\ L \cap Q = {}
    OBVIOUS
  <2>2. Away = L \cup Q
    BY DEF Away
  <2> HIDE DEF L, Q
  <2>1. /\ IsFiniteSet(L) /\ IsFiniteSet(Q)
        /\ Cardinality(L) \in Nat /\ Cardinality(Q) \in Nat
    <3>1. IsFiniteSet(L) /\ Cardinality(L) \in Nat
      BY <2>0, AwayFinite
    <3>2. IsFiniteSet(Q) /\ Cardinality(Q) \in Nat
      BY <2>0, AwayFinite
    <3> QED BY <3>1, <3>2
  <2>3. Cardinality(Away) = Cardinality(L) + Cardinality(Q)
    <3>1. Cardinality(L \cap Q) = 0
      BY <2>0, FS_EmptySet
    <3>2. Cardinality(L \cup Q) = Cardinality(L) + Cardinality(Q) - Cardinality(L \cap Q)
      BY <2>1, FS_Union
    <3> QED BY <2>1, <2>2, <3>1, <3>2
  <2>4. Len(free) <= asked + faults + Cardinality(Away)
    BY DEF AwaitInv
  <2>5. Len(free) \in Nat /\ asked \in Nat /\ faults \in Nat
    BY LenProperties DEF Types, MainTypes, WorldTypes
  <2>6. Len(free) <= asked + faults + Cardinality(L) + Cardinality(Q)
    BY <2>1, <2>3, <2>4, <2>5
  <2> QED BY <2>6 DEF L, Q
<1> QED
  BY <1>1, <1>2, <1>3, NumbersHold, PTL DEF Spec

-----------------------------------------------------------------------------
(* The sockets that nobody knows of.                                        *)

InFree(d) == \E i \in 1..Len(free) : free[i] = d
OfThread(d) == \E h \in HostConns : tpc[h] \in Live /\ d \in ThreadFds(h)
Known(d) == InFree(d) \/ OfThread(d)

Orphans == {d \in Descriptors : fds[d] \in Conns /\ ~Known(d)}

OrphansPaid == Cardinality(Orphans) <= 2 * faults

\* There are finitely many, before and after a step.
LEMMA OrphansFinite ==
  ASSUME NEW S, S \subseteq Descriptors
  PROVE  IsFiniteSet(S) /\ Cardinality(S) \in Nat
<1>1. IsFiniteSet(Descriptors)
  BY RelayAssumption, FS_Interval DEF Descriptors
<1>2. IsFiniteSet(S)
  BY <1>1, FS_Subset
<1> QED
  BY <1>2, FS_CardinalityType

\* A step after which every connection is known, or was unknown before.
LEMMA OrphansKept ==
  ASSUME Types, Types', OrphansPaid, faults' >= faults,
         \A d \in Descriptors :
           fds'[d] \in Conns => Known(d)' \/ (fds[d] \in Conns /\ ~Known(d))
  PROVE  OrphansPaid'
<1>1. Orphans' \subseteq Orphans /\ Orphans \subseteq Descriptors
  BY DEF Orphans
<1>2. IsFiniteSet(Orphans) /\ Cardinality(Orphans) \in Nat
  BY <1>1, OrphansFinite
<1>3. Orphans' \subseteq Descriptors
  BY <1>1
<1>4. Cardinality(Orphans') \in Nat
  BY <1>3, OrphansFinite
<1>5. Cardinality(Orphans') <= Cardinality(Orphans)
  BY <1>1, <1>2, FS_Subset
<1>6. Cardinality(Orphans) <= 2 * faults
  BY DEF OrphansPaid
<1>7. faults \in Nat /\ faults' \in Nat
  BY RelayAssumption DEF Types, WorldTypes
<1>8. Cardinality(Orphans') <= 2 * faults'
  BY <1>2, <1>4, <1>5, <1>6, <1>7
<1> QED
  BY <1>8 DEF OrphansPaid

\* A failure after which two sockets more may be unknown.
LEMMA OrphansMade ==
  ASSUME Types, Types', OrphansPaid, faults' = faults + 1,
         NEW a \in Descriptors, NEW b \in Descriptors,
         \A d \in Descriptors \ {a, b} :
           fds'[d] \in Conns => Known(d)' \/ (fds[d] \in Conns /\ ~Known(d))
  PROVE  OrphansPaid'
<1> DEFINE A == Orphans \cup {a}
           B == A \cup {b}
<1>1. Orphans' \subseteq B /\ Orphans' \subseteq Descriptors /\ Orphans \subseteq Descriptors
  BY DEF Orphans
<1>2. IsFiniteSet(Orphans) /\ Cardinality(Orphans) \in Nat
  BY <1>1, OrphansFinite
<1>3. Cardinality(Orphans') \in Nat
  BY <1>1, OrphansFinite
<1>4. IsFiniteSet(A) /\ Cardinality(A) \in {Cardinality(Orphans), Cardinality(Orphans) + 1}
  BY <1>2, FS_AddElement
<1>5. IsFiniteSet(B) /\ Cardinality(B) \in {Cardinality(A), Cardinality(A) + 1}
  <2> HIDE DEF A
  <2> QED BY <1>4, FS_AddElement
<1> HIDE DEF A, B
<1>6. Cardinality(Orphans') <= Cardinality(B)
  BY <1>1, <1>5, FS_Subset
<1>7. Cardinality(Orphans) <= 2 * faults
  BY DEF OrphansPaid
<1>8. faults \in Nat
  BY RelayAssumption DEF Types, WorldTypes
<1>9. Cardinality(Orphans') <= 2 * faults'
  BY <1>2, <1>3, <1>4, <1>5, <1>6, <1>7, <1>8
<1> QED
  BY <1>9 DEF OrphansPaid

\* A step that leaves the free sockets and the threads as they are.
LEMMA KnownFramed ==
  ASSUME UNCHANGED <<free, tpc, cd>>, NEW d PROVE Known(d)' <=> Known(d)
BY DEF Known, InFree, OfThread, ThreadFds, Live

\* What is free once the first socket is taken out.
LEMMA RestKnown ==
  ASSUME Types, free # <<>>, free' = Tail(free), NEW d, InFree(d), d # Head(free)
  PROVE  InFree(d)'
<1>1. /\ Head(free) = free[1] /\ Len(free') = Len(free) - 1 /\ Len(free) \in Nat
      /\ \A i \in 1..Len(free') : free'[i] = free[i + 1]
  BY FirstAndRest, LenProperties DEF Types, MainTypes
<1>2. PICK i \in 1..Len(free) : free[i] = d
  BY DEF InFree
<1>3. i - 1 \in 1..Len(free') /\ (i - 1) + 1 = i
  BY <1>1, <1>2
<1>4. free'[i - 1] = d
  BY <1>1, <1>2, <1>3
<1> QED
  BY <1>3, <1>4 DEF InFree

\* Main's steps: a socket is free, then a thread's or closed; only a thread that ends for
\* want of a buffer leaves its two sockets open.
LEMMA MainPays == ASSUME Types, Types', Numbered, OrphansPaid, Main PROVE OrphansPaid'
<1>0. /\ fds \in [Descriptors -> Things] /\ free \in Seq(Descriptors)
      /\ queue \in Seq(Conns) /\ faults \in Nat /\ cd \in [HostConns -> Duos]
      /\ tpc \in [HostConns -> Live \cup {"none", "again", "done"}]
      /\ NULL \notin Conns /\ LISTEN \notin Conns /\ MAIN \notin Conns
  BY Apart, RelayAssumption DEF Types, KernelTypes, MainTypes, WorldTypes, ThreadTypes
<1>1. CASE Exit /\ UNCHANGED faults
  BY <1>0, <1>1, OrphansKept DEF Exit, Closed
<1>2. CASE AcceptMain \/ (ReadStart /\ ~Exit) \/ AcceptGone
  <2>1. UNCHANGED <<free, tpc, cd, faults>>
    BY <1>2 DEF AcceptMain, ReadStart, AcceptGone, threadVars
  <2>2. \A d \in Descriptors : fds'[d] \in Conns => fds'[d] = fds[d]
    BY <1>0, <1>2 DEF AcceptMain, ReadStart, AcceptGone, Closed
  <2> QED BY <1>0, <2>1, <2>2, KnownFramed, OrphansKept
<1>3. CASE Timeout
  <2>1. /\ UNCHANGED <<tpc, cd, faults>>
        /\ fds' = Closed({free[i] : i \in 1..Len(free)})
    BY <1>3 DEF Timeout, threadVars
  <2>2. ASSUME NEW d \in Descriptors, fds'[d] \in Conns
        PROVE  fds[d] \in Conns /\ ~InFree(d)
    BY <1>0, <2>1, <2>2 DEF Closed, InFree
  <2>3. \A d \in Descriptors : OfThread(d)' <=> OfThread(d)
    BY <2>1 DEF OfThread, ThreadFds, Live
  <2> QED BY <1>0, <2>1, <2>2, <2>3, OrphansKept DEF Known
<1>4. CASE AcceptGuest /\ ~Exit
  <2>1. UNCHANGED <<tpc, cd, faults>>
    BY <1>4 DEF AcceptGuest, threadVars
  <2>2. CASE UNCHANGED <<fds, free>>
    BY <1>0, <2>1, <2>2, KnownFramed, OrphansKept
  <2>3. ASSUME NEW d \in Descriptors, free' = Append(free, d),
               fds' = [fds EXCEPT ![d] = Head(queue)]
        PROVE  OrphansPaid'
    <3>1. InFree(d)' /\ \A e : InFree(e) => InFree(e)'
      <4>1. /\ Len(free') = Len(free) + 1 /\ free'[Len(free) + 1] = d /\ Len(free) \in Nat
            /\ \A i \in 1..Len(free) : free'[i] = free[i]
        BY <1>0, <2>3, AppendProperties, LenProperties
      <4>2. Len(free) + 1 \in 1..Len(free') /\ 1..Len(free) \subseteq 1..Len(free')
        BY <4>1
      <4> QED BY <4>1, <4>2 DEF InFree
    <3>2. \A e \in Descriptors \ {d} : fds'[e] = fds[e]
      BY <1>0, <2>3
    <3>3. \A e : OfThread(e) => OfThread(e)'
      BY <2>1 DEF OfThread, ThreadFds, Live
    <3> QED BY <1>0, <2>1, <3>1, <3>2, <3>3, OrphansKept DEF Known
  <2> QED BY <1>4, <2>2, <2>3 DEF AcceptGuest
<1>5. CASE AcceptHost
  <2> DEFINE h == Head(queue)
  <2>1. h \in HostConns /\ tpc[h] \notin Live
    <3>1. h \in HostConns /\ queue # <<>> /\ queue' = Tail(queue)
      BY <1>5 DEF AcceptHost, Serving
    <3>2. h \in Queued
      BY <1>0, <3>1, QueueTail
    <3> QED BY <3>1, <3>2 DEF Numbered
  <2> HIDE DEF h
  <2>2. CASE UNCHANGED <<fds, free, tpc, cd>> /\ faults' \in {faults, faults + 1}
    BY <1>0, <2>2, KnownFramed, OrphansKept
  <2>3. CASE /\ free # <<>> /\ free' = Tail(free) /\ fds' = Closed({Head(free)})
             /\ UNCHANGED <<tpc, cd>> /\ faults' = faults + 1
    <3>1. \A e \in Descriptors :
            fds'[e] \in Conns => fds[e] \in Conns /\ e # Head(free)
      BY <1>0, <2>3 DEF Closed
    <3>2. \A e : OfThread(e) => OfThread(e)'
      BY <2>3 DEF OfThread, ThreadFds, Live
    <3>3. \A e : InFree(e) /\ e # Head(free) => InFree(e)'
      BY <2>3, RestKnown
    <3>4. \A e \in Descriptors :
            fds'[e] \in Conns => Known(e)' \/ (fds[e] \in Conns /\ ~Known(e))
      BY <3>1, <3>2, <3>3 DEF Known
    <3>5. faults' >= faults
      BY <1>0, <2>3
    <3> QED BY <3>4, <3>5, OrphansKept
  <2>4. ASSUME NEW d \in Descriptors, free # <<>>, free' = Tail(free),
               fds' = [fds EXCEPT ![d] = h],
               cd' = [cd EXCEPT ![h] = [local |-> Head(free), host |-> d,
                                        guest |-> fds[Head(free)], to |-> NULL]],
               \/ tpc' = [tpc EXCEPT ![h] = "relay"] /\ UNCHANGED faults
               \/ tpc' = [tpc EXCEPT ![h] = "done"] /\ faults' = faults + 1
        PROVE  OrphansPaid'
    <3>1. \A e \in Descriptors \ {d} : fds'[e] = fds[e]
      BY <1>0, <2>4
    <3>2. \A e : InFree(e) /\ e # Head(free) => InFree(e)'
      BY <2>4, RestKnown
    <3>3. \A k \in HostConns \ {h} : tpc'[k] = tpc[k] /\ cd'[k] = cd[k]
      BY <1>0, <2>4
    <3>4. \A e : OfThread(e) => OfThread(e)'
      BY <2>1, <3>3 DEF OfThread, ThreadFds, Live
    <3>5. \A e : e # Head(free) /\ Known(e) => Known(e)'
      BY <3>2, <3>4 DEF Known
    <3>6. CASE tpc' = [tpc EXCEPT ![h] = "relay"] /\ UNCHANGED faults
      <4>1. cd'[h].local = Head(free) /\ cd'[h].host = d /\ tpc'[h] = "relay"
        BY <1>0, <2>1, <2>4, <3>6
      <4>2. \A e \in {Head(free), d} : Known(e)'
        BY <2>1, <4>1 DEF Known, OfThread, ThreadFds, Live
      <4>3. \A e \in Descriptors :
              fds'[e] \in Conns => Known(e)' \/ (fds[e] \in Conns /\ ~Known(e))
        BY <3>1, <3>5, <4>2
      <4>4. faults' >= faults
        BY <1>0, <3>6
      <4> QED BY <4>3, <4>4, OrphansKept
    <3>7. CASE tpc' = [tpc EXCEPT ![h] = "done"] /\ faults' = faults + 1
      <4>1. Head(free) \in Descriptors
        BY <1>0, <2>4, FirstAndRest
      <4> DEFINE a == Head(free)
      <4>2. \A e \in Descriptors \ {a, d} :
              fds'[e] \in Conns => Known(e)' \/ (fds[e] \in Conns /\ ~Known(e))
        BY <3>1, <3>5
      <4> HIDE DEF a
      <4>3. a \in Descriptors /\ faults' = faults + 1
        BY <3>7, <4>1 DEF a
      <4> QED BY <4>2, <4>3, OrphansMade
    <3> QED BY <2>4, <3>6, <3>7
  <2> QED
    BY <1>5, <2>2, <2>3, <2>4 DEF AcceptHost, TakeFirst, Fault, threadVars, h
<1>6. (ReadStart /\ Exit) \/ (AcceptGuest /\ Exit) \/ LoseHost => Exit /\ UNCHANGED faults
  BY DEF ReadStart, AcceptGuest, LoseHost
<1> QED
  BY <1>1, <1>2, <1>3, <1>4, <1>5, <1>6 DEF Main

\* The steps of the threads, as long as each has its own sockets: a thread that ends has
\* closed both.
LEMMA ThreadPays ==
  ASSUME Types, Types', Own, OrphansPaid, ~reused', NEW h \in HostConns, Thread(h)
  PROVE  OrphansPaid'
<1>0. /\ fds \in [Descriptors -> Things] /\ faults \in Nat /\ cd \in [HostConns -> Duos]
      /\ tpc \in [HostConns -> Live \cup {"none", "again", "done"}]
      /\ NULL \notin Conns
  BY Apart, RelayAssumption DEF Types, KernelTypes, WorldTypes, ThreadTypes
<1>1. UNCHANGED faults /\ (~Exit => UNCHANGED free)
  BY DEF Thread, BeginCopy, EndCopy, EndOfFile, BadDescriptor, CloseAgain, mainVars
<1>2. CASE Exit
  BY <1>0, <1>1, <1>2, OrphansKept DEF Exit, Closed
<1>3. CASE ~Exit /\ (BeginCopy(h) \/ EndCopy(h))
  <2>1. /\ UNCHANGED fds /\ tpc[h] \in Live /\ \E p \in Live : tpc' = [tpc EXCEPT ![h] = p]
        /\ \E t : cd' = [cd EXCEPT ![h].to = t]
    BY <1>3 DEF BeginCopy, EndCopy, Live
  <2>2. \A k \in HostConns : ThreadFds(k)' = ThreadFds(k) /\ (tpc[k] \in Live => tpc'[k] \in Live)
    <3>1. PICK t : cd' = [cd EXCEPT ![h] = [cd[h] EXCEPT !.to = t]]
      BY <1>0, <2>1
    <3> QED BY <1>0, <2>1, <3>1 DEF ThreadFds, Duos
  <2>3. \A e : Known(e) => Known(e)'
    BY <1>1, <1>3, <2>2 DEF Known, InFree, OfThread, Live
  <2> QED BY <1>0, <1>1, <2>1, <2>3, OrphansKept
<1>4. CASE ~Exit /\ (EndOfFile(h) \/ BadDescriptor(h))
  <2>1. tpc[h] \in Live /\ EndThread(h)
    BY <1>4 DEF EndOfFile, BadDescriptor, Live
  <2>2. fds[cd[h].local] # NULL /\ fds[cd[h].host] # NULL
    <3>1. fds[cd[h].local] \in Guests /\ fds[cd[h].host] = h
      BY <2>1, Zenon DEF Own, ThreadsOwn
    <3> QED
      BY <3>1, Apart
  <2>3. fds' = Closed(ThreadFds(h))
    BY <1>4, <2>2 DEF EndOfFile, BadDescriptor, ThreadFds
  <2>4. \A e \in Descriptors : fds'[e] \in Conns => fds[e] \in Conns /\ e \notin ThreadFds(h)
    BY <1>0, <2>3 DEF Closed
  <2>5. \A e : Known(e) /\ e \notin ThreadFds(h) => Known(e)'
    BY <1>0, <1>1, <1>4, <2>1 DEF EndThread, Known, InFree, OfThread, ThreadFds, Live
  <2> QED BY <1>0, <1>1, <2>4, <2>5, OrphansKept
<1>5. CASE ~Exit /\ CloseAgain(h)
  <2>1. \A d \in ThreadFds(h) : fds[d] = NULL
    BY <1>5 DEF CloseAgain
  <2>2. UNCHANGED fds
    BY <1>0, <1>5, <2>1 DEF CloseAgain, Closed
  <2>3. \A k \in HostConns : tpc[k] \in Live => tpc'[k] \in Live /\ cd'[k] = cd[k]
    BY <1>0, <1>5 DEF CloseAgain, Live
  <2>4. \A e : Known(e) => Known(e)'
    BY <1>1, <1>5, <2>3 DEF Known, InFree, OfThread, ThreadFds, Live
  <2> QED BY <1>0, <1>1, <2>2, <2>4, OrphansKept
<1> QED
  BY <1>2, <1>3, <1>4, <1>5 DEF Thread

\* As long as no descriptor was confused, at most two sockets are left open for each
\* failure: for any number of connections and of failures.
THEOREM SocketsKnown == Spec => []NoOrphanSocket
<1>1. Init => OrphansPaid
  <2> SUFFICES ASSUME Init PROVE OrphansPaid
    OBVIOUS
  <2>1. Orphans = {}
    BY Apart DEF Init, Orphans
  <2>2. Cardinality(Orphans) = 0 /\ faults = 0
    BY <2>1, FS_EmptySet DEF Init
  <2> QED BY <2>2 DEF OrphansPaid
<1>2. RelayInv /\ RelayInv' /\ Types /\ Numbered /\ (~reused => OrphansPaid) /\ [Next]_vars
        => (~reused => OrphansPaid)'
  <2> SUFFICES ASSUME RelayInv, RelayInv', Numbered, ~reused => OrphansPaid, [Next]_vars, ~reused'
               PROVE  OrphansPaid'
    OBVIOUS
  <2>1. ~reused
    BY ReusedStays
  <2>2. Types /\ Types' /\ Own /\ OrphansPaid
    BY <2>1 DEF RelayInv
  <2>3. CASE World \/ UNCHANGED vars
    <3>1. UNCHANGED <<fds, free, tpc, cd, faults>>
      BY <2>3 DEF World, HostComes, HostLeaves, GuestConnects, HostConnects, PeerLeaves,
         othersVars, vars, mainVars, threadVars
    <3>2. faults \in Nat
      BY <2>2, RelayAssumption DEF Types, WorldTypes
    <3> QED BY <2>2, <3>1, <3>2, KnownFramed, OrphansKept
  <2> QED
    BY <2>2, <2>3, MainPays, ThreadPays DEF Next
<1>3. (~reused => OrphansPaid) => NoOrphanSocket
  <2>1. Orphans = {d \in Descriptors :
                     /\ fds[d] \in Conns
                     /\ \A i \in 1..Len(free) : free[i] # d
                     /\ \A h \in HostConns : tpc[h] \in Live => d \notin ThreadFds(h)}
    BY DEF Orphans, Known, InFree, OfThread
  <2> QED BY <2>1 DEF OrphansPaid, NoOrphanSocket
<1> QED
  BY <1>1, <1>2, <1>3, RelayHolds, NumbersHold, PTL DEF Spec
=============================================================================
