----------------------------- MODULE LocalOpengl -----------------------------
(***************************************************************************)
(* The relay of the renderer (local_opengl.c).  Guest processes connect to *)
(* the data port; for each of them the relay asks the host, over the main  *)
(* connection, to connect as well, and pairs the two connections in the    *)
(* order in which they come.  A thread for each pair copies bytes both     *)
(* ways.  The main thread waits in select for three seconds at most.       *)
(*                                                                         *)
(* Descriptors are numbers, handed out lowest first and shared by all      *)
(* threads: a descriptor that is closed twice may by then be another       *)
(* thread's connection.  The guests, the host and the kernel are external. *)
(***************************************************************************)
EXTENDS Naturals, Sequences, FiniteSets

CONSTANTS
  MaxGuests,        (* connections of guest processes                      *)
  MaxHosts,         (* connections of the host                             *)
  MAX_FREE_SOCKETS, (* entries of free_local_sockets                       *)
  NULL,             (* no connection, a free descriptor                    *)
  LISTEN, MAIN,     (* the socket that listens, the main connection        *)
  MaxFaults         (* bound on the failures of malloc and pthread_create  *)

ASSUME RelayAssumption ==
  /\ MaxGuests \in Nat /\ MaxHosts \in Nat /\ MAX_FREE_SOCKETS \in Nat \ {0}
  /\ MaxFaults \in Nat
  /\ {NULL, LISTEN, MAIN} \cap Nat = {} /\ NULL \notin {LISTEN, MAIN}

Guests == 1..MaxGuests
HostConns == MaxGuests + 1 .. MaxGuests + MaxHosts
Conns == Guests \cup HostConns
Descriptors == 0..(MaxGuests + MaxHosts + 2)

VARIABLES
  \* the main thread
  mpc,      (* "listen", "start", "serve", "exited", or "overrun"           *)
  ssocket, mainSocket, (* its two descriptors                              *)
  free,     (* free_local_sockets and nb_free_local                        *)
  \* the threads, by the connection of the host they were created with
  tpc,      (* what it does: "none", "relay", "write", "again" or "done"   *)
  cd,       (* its conn_duo, the guest it is for, and whom it writes to    *)
  \* the kernel
  fds,      (* what each descriptor is                                     *)
  queue,    (* connections to the data port, not accepted yet              *)
  left,     (* connections closed at the other end                         *)
  \* the other side
  host,     (* "absent", "up", "closed", or "reset" once a write met that   *)
  guests, hosts, (* connections made so far                                *)
  asked,    (* TCPCLI_NEW commands the host has not acted on               *)
  faults,   (* failures so far                                             *)
  reused    (* a descriptor closed for the second time was open again      *)

mainVars == <<mpc, ssocket, mainSocket, free>>
threadVars == <<tpc, cd>>
worldVars == <<guests, hosts, asked>>
vars == <<mainVars, threadVars, fds, queue, left, host, worldVars, faults,
          reused>>

NoDuo == [local |-> 0, host |-> 0, guest |-> NULL, to |-> NULL]

Init ==
  /\ mpc = "listen" /\ ssocket = 0 /\ mainSocket = 0 /\ free = <<>>
  /\ tpc = [h \in HostConns |-> "none"] /\ cd = [h \in HostConns |-> NoDuo]
  /\ fds = [d \in Descriptors |-> IF d = 0 THEN LISTEN ELSE NULL]
  /\ queue = <<>> /\ left = {}
  /\ host = "absent" /\ guests = 0 /\ hosts = 0 /\ asked = 0
  /\ faults = 0 /\ reused = FALSE

-----------------------------------------------------------------------------
(* Descriptors.                                                             *)

Lowest(d) ==
  /\ fds[d] = NULL
  /\ \A e \in Descriptors : fds[e] = NULL => d <= e

Closed(D) == [d \in Descriptors |-> IF d \in D THEN NULL ELSE fds[d]]

\* exit, or a signal: the kernel closes everything.
Exit ==
  /\ mpc' = "exited"
  /\ fds' = Closed(Descriptors) /\ queue' = <<>> /\ free' = <<>>
  /\ tpc' = [h \in HostConns |-> "done"] /\ cd' = [h \in HostConns |-> NoDuo]
  /\ UNCHANGED <<ssocket, mainSocket>>

Fault == faults < MaxFaults /\ faults' = faults + 1

-----------------------------------------------------------------------------
(* The start of main.                                                       *)

\* The main connection is accepted, and the socket it came to is closed.
AcceptMain ==
  /\ mpc = "listen" /\ host = "up"
  /\ \E d \in Descriptors :
       /\ Lowest(d)
       /\ mainSocket' = d
       /\ fds' = [Closed({ssocket}) EXCEPT ![d] = MAIN]
  /\ mpc' = "start"
  /\ UNCHANGED <<ssocket, free, threadVars, queue, left, host, worldVars, faults, reused>>

\* OPENGL_START_COMMAND is read and answered, and the data port opened; anything else
\* ends the program.
ReadStart ==
  /\ mpc = "start"
  /\ \/ Exit
     \/ /\ host = "up" /\ mpc' = "serve"
        /\ \E d \in Descriptors :
             Lowest(d) /\ ssocket' = d /\ fds' = [fds EXCEPT ![d] = LISTEN]
        /\ UNCHANGED <<mainSocket, free, threadVars, queue>>
  /\ UNCHANGED <<left, host, worldVars, faults, reused>>

-----------------------------------------------------------------------------
(* A turn of the loop of main, from select on.  Each turn writes             *)
(* OPENGL_PING, because the times of the last ping and pong start from 0 at  *)
(* each turn; for the same reason a pong that does not come is not missed.   *)

\* select is told to look at the descriptors up to ssocket only.
Watched(d) == d < ssocket + 1

\* Mutant: the result of writing the ping is not looked at.
PingFails_Ignored == Watched(mainSocket) /\ host = "closed"

\* The ping cannot be written, or a main connection that is watched has ended.
PingFails == host = "reset" \/ (Watched(mainSocket) /\ host = "closed")

\* The first write to a connection the other end has closed succeeds.
Ping == host' = IF host = "closed" THEN "reset" ELSE host

LoseHost ==
  /\ mpc = "serve" /\ PingFails
  /\ Exit
  /\ UNCHANGED <<left, host, worldVars, faults, reused>>

\* Mutant: the timeout only pings.
Timeout_KeepsFree ==
  /\ mpc = "serve" /\ ~PingFails /\ queue = <<>>
  /\ Ping
  /\ UNCHANGED <<mainVars, threadVars, fds, queue, left, worldVars, faults, reused>>

\* Nothing for three seconds: the free local sockets are closed.
Timeout ==
  /\ mpc = "serve" /\ ~PingFails /\ queue = <<>>
  /\ Ping
  /\ fds' = Closed({free[i] : i \in 1..Len(free)}) /\ free' = <<>>
  /\ UNCHANGED <<mpc, ssocket, mainSocket, threadVars, queue, left, worldVars, faults, reused>>

Serving ==
  /\ mpc = "serve" /\ ~PingFails /\ queue # <<>>
  /\ Ping
  /\ UNCHANGED <<left, guests, hosts, ssocket, mainSocket, reused>>

\* getpeername fails on a connection that was reset.
AcceptGone ==
  /\ Serving /\ Head(queue) \in left
  /\ queue' = Tail(queue)
  /\ UNCHANGED <<mpc, free, threadVars, fds, asked, faults>>

\* Mutant: the host is asked only for the first free socket.
AskHost_First ==
  /\ asked' = IF free = <<>> THEN asked + 1 ELSE asked
  /\ UNCHANGED mpc

AskHost ==
  /\ asked' = asked + 1
  /\ UNCHANGED mpc

\* A connection from the guest waits in free_local_sockets, and the host is asked for
\* one; the write may meet a connection that is closed.
AcceptGuest ==
  /\ Serving /\ Head(queue) \in Guests
  /\ \/ /\ Len(free) >= MAX_FREE_SOCKETS
        /\ queue' = Tail(queue)
        /\ UNCHANGED <<mpc, free, threadVars, fds, asked>>
     \/ /\ Len(free) < MAX_FREE_SOCKETS
        /\ \E d \in Descriptors :
             Lowest(d) /\ fds' = [fds EXCEPT ![d] = Head(queue)] /\ free' = Append(free, d)
        /\ queue' = Tail(queue)
        /\ AskHost /\ UNCHANGED threadVars
     \/ Len(free) < MAX_FREE_SOCKETS /\ host = "closed" /\ Exit /\ UNCHANGED asked
  /\ UNCHANGED faults

\* The memmove that takes the first entry out moves twice as many words as are left:
\* past the array when they are more than half of it.
Overruns == 2 * (Len(free) - 1) > MAX_FREE_SOCKETS

\* Mutant: the first entry stays in the array.
TakeFirst_Keeps == UNCHANGED free

TakeFirst == free' = Tail(free)

\* A connection from the host is paired with the first free local socket, and a thread
\* created; each of the three failures closes what it knows of.
AcceptHost ==
  LET h == Head(queue) IN
  /\ Serving /\ h \in HostConns
  /\ queue' = Tail(queue)
  /\ \/ /\ free = <<>>
        /\ UNCHANGED <<mpc, free, threadVars, fds, faults>>
     \/ /\ free # <<>> /\ ~Overruns
        /\ \/ /\ Fault                     \* malloc
              /\ UNCHANGED <<free, threadVars, fds>>
           \/ /\ Fault /\ TakeFirst        \* pthread_create
              /\ fds' = Closed({Head(free)})
              /\ UNCHANGED threadVars
           \/ /\ TakeFirst
              /\ \E d \in Descriptors :
                   /\ Lowest(d) /\ fds' = [fds EXCEPT ![d] = h]
                   /\ cd' = [cd EXCEPT ![h] = [local |-> Head(free), host |-> d,
                                               guest |-> fds[Head(free)], to |-> NULL]]
              /\ \/ tpc' = [tpc EXCEPT ![h] = "relay"] /\ UNCHANGED faults
                 \/ tpc' = [tpc EXCEPT ![h] = "done"] /\ Fault  \* malloc of its buffer
        /\ UNCHANGED mpc
     \/ /\ free # <<>> /\ Overruns
        /\ mpc' = "overrun"
        /\ UNCHANGED <<free, threadVars, fds, faults>>
  /\ UNCHANGED asked

Main ==
  \/ AcceptMain \/ ReadStart
  \/ LoseHost \/ Timeout \/ AcceptGone \/ AcceptGuest \/ AcceptHost

-----------------------------------------------------------------------------
(* conn_thread and copy_socket.                                             *)

ThreadFds(h) == {cd[h].local, cd[h].host}
Across(h, d) == IF d = cd[h].local THEN cd[h].host ELSE cd[h].local

EndThread(h) == tpc' = [tpc EXCEPT ![h] = "again"] /\ UNCHANGED cd

\* Bytes from one end are read, and written to the other.
BeginCopy(h) ==
  /\ tpc[h] = "relay"
  /\ \E from \in ThreadFds(h) :
       /\ fds[from] \in Conns \ left
       /\ cd' = [cd EXCEPT ![h].to = Across(h, from)]
  /\ tpc' = [tpc EXCEPT ![h] = "write"]
  /\ UNCHANGED <<mainVars, fds, queue, left, host, worldVars, faults, reused>>

\* The bytes are written, or the other end is gone and the signal ends the program.
EndCopy(h) ==
  /\ tpc[h] = "write"
  /\ \/ /\ fds[cd[h].to] \in Conns \ left
        /\ tpc' = [tpc EXCEPT ![h] = "relay"]
        /\ cd' = [cd EXCEPT ![h].to = NULL]
        /\ UNCHANGED <<mainVars, fds, queue>>
     \/ fds[cd[h].to] \in left /\ Exit
  /\ UNCHANGED <<left, host, worldVars, faults, reused>>

\* Mutant: only the end that has nothing more to read is closed, and not again.
EndOfFile_OneEnd(h) ==
  /\ tpc[h] = "relay"
  /\ \E d \in ThreadFds(h) : fds[d] \in left /\ fds' = Closed({d})
  /\ tpc' = [tpc EXCEPT ![h] = "done"] /\ UNCHANGED cd
  /\ UNCHANGED <<mainVars, queue, left, host, worldVars, faults, reused>>

\* Nothing more to read from one of the ends: copy_socket closes both.
EndOfFile(h) ==
  /\ tpc[h] = "relay"
  /\ \E d \in ThreadFds(h) : fds[d] \in left
  /\ fds' = Closed(ThreadFds(h))
  /\ EndThread(h)
  /\ UNCHANGED <<mainVars, queue, left, host, worldVars, faults, reused>>

\* select or write is given a descriptor that somebody closed.
BadDescriptor(h) ==
  /\ \/ tpc[h] = "relay" /\ (\E d \in ThreadFds(h) : fds[d] = NULL) /\ UNCHANGED fds
     \/ tpc[h] = "write" /\ fds[cd[h].to] = NULL /\ fds' = Closed(ThreadFds(h))
  /\ EndThread(h)
  /\ UNCHANGED <<mainVars, queue, left, host, worldVars, faults, reused>>

\* The end of conn_thread closes both again.
CloseAgain(h) ==
  /\ tpc[h] = "again"
  /\ fds' = Closed(ThreadFds(h))
  /\ reused' = (reused \/ \E d \in ThreadFds(h) : fds[d] # NULL)
  /\ tpc' = [tpc EXCEPT ![h] = "done"] /\ cd' = [cd EXCEPT ![h] = NoDuo]
  /\ UNCHANGED <<mainVars, queue, left, host, worldVars, faults>>

Thread(h) == BeginCopy(h) \/ EndCopy(h) \/ EndOfFile(h) \/ BadDescriptor(h) \/ CloseAgain(h)

-----------------------------------------------------------------------------
(* The host and the guests.                                                 *)

othersVars == <<mainVars, threadVars, fds, reused>>

HostComes ==
  /\ host = "absent" /\ host' = "up"
  /\ UNCHANGED <<othersVars, queue, left, worldVars, faults>>

Accepted == {c \in Conns : \E d \in Descriptors : fds[d] = c}
Queued == {queue[i] : i \in 1..Len(queue)}

HostLeaves ==
  /\ mpc \in {"listen", "start", "serve"}
  /\ host = "up" /\ host' = "closed"
  /\ left' = left \cup (HostConns \cap (Accepted \cup Queued))
  /\ UNCHANGED <<othersVars, queue, worldVars, faults>>

GuestConnects ==
  /\ mpc = "serve" /\ guests < MaxGuests
  /\ guests' = guests + 1 /\ queue' = Append(queue, guests')
  /\ UNCHANGED <<othersVars, left, host, hosts, asked, faults>>

\* The host acts on TCPCLI_NEW, some time or never.
HostConnects ==
  /\ mpc = "serve" /\ host = "up" /\ asked > 0 /\ hosts < MaxHosts
  /\ asked' = asked - 1
  /\ hosts' = hosts + 1 /\ queue' = Append(queue, MaxGuests + hosts')
  /\ UNCHANGED <<othersVars, left, host, guests, faults>>

\* A connection that was accepted is closed at the other end.
PeerLeaves(c) ==
  /\ mpc = "serve" /\ c \in Accepted \ left
  /\ left' = left \cup {c}
  /\ UNCHANGED <<othersVars, queue, host, worldVars, faults>>

World ==
  \/ HostComes \/ HostLeaves \/ GuestConnects \/ HostConnects
  \/ \E c \in Conns : PeerLeaves(c)

Next == Main \/ (\E h \in HostConns : Thread(h)) \/ World

Spec == Init /\ [][Next]_vars

\* select returns after three seconds at most, and the threads are scheduled.  Nothing
\* is assumed of the guests and of the host.
FairSpec ==
  Spec /\ WF_vars(Main) /\ \A h \in HostConns : WF_vars(CloseAgain(h))

-----------------------------------------------------------------------------
(* Properties.                                                              *)

Live == {"relay", "write"}

TypeOK ==
  /\ mpc \in {"listen", "start", "serve", "exited", "overrun"}
  /\ ssocket \in Descriptors /\ mainSocket \in Descriptors
  /\ free \in Seq(Descriptors)
  /\ tpc \in [HostConns -> Live \cup {"none", "again", "done"}]
  /\ cd \in [HostConns -> [local : Descriptors, host : Descriptors,
                            guest : Conns \cup {LISTEN, MAIN, NULL},
                            to : Descriptors \cup {NULL}]]
  /\ fds \in [Descriptors -> Conns \cup {LISTEN, MAIN, NULL}]
  /\ queue \in Seq(Conns) /\ left \subseteq Conns
  /\ host \in {"absent", "up", "closed", "reset"}
  /\ guests \in 0..MaxGuests /\ hosts \in 0..MaxHosts /\ asked \in Nat
  /\ faults \in 0..MaxFaults /\ reused \in BOOLEAN

\* What main keeps in free_local_sockets to pair, or to close at the next timeout
\* ("flush localhost 'free cons'"), are connections of guests.
FreeAreLocal == \A i \in 1..Len(free) : fds[free[i]] \in Guests

\* A thread copies between the two connections it was created for, although it uses
\* descriptors that other threads open and close (conn_thread, copy_socket).
RelaysOwn ==
  \A h \in HostConns : tpc[h] \in Live =>
    fds[cd[h].local] = cd[h].guest /\ fds[cd[h].host] = h

\* Both hold until conn_thread closes a descriptor that copy_socket has closed before
\* and that was handed out again in between: nothing else confuses the sockets.
OwnedUntilReused == ~reused => FreeAreLocal /\ RelaysOwn

\* Every free local socket has a connection of the host on its way, asked for or in
\* the queue of the data port, but for the failures and for the connections the host
\* has given up (main, TCPCLI_NEW).
FreeIsAwaited ==
  mpc = "serve" =>
    Len(free) <= asked + faults + Cardinality(left \cap HostConns)
                 + Cardinality(Queued \cap (HostConns \ left))

\* A socket that neither main nor a thread knows of is due to a failure.
NoOrphanSocket ==
  ~reused =>
    Cardinality({d \in Descriptors :
      /\ fds[d] \in Conns
      /\ \A i \in 1..Len(free) : free[i] # d
      /\ \A h \in HostConns : tpc[h] \in Live => d \notin ThreadFds(h)}) <= 2 * faults

Waiting(g) ==
  \/ g \in Queued
  \/ \E i \in 1..Len(free) : fds[free[i]] = g

\* A guest that connects is paired or refused: none waits for ever for a host that does
\* not come (the timeout of select).
GuestServed == <>[](mpc = "overrun" \/ \A g \in Guests : ~Waiting(g))

\* When the host goes, the relay ends, although select does not watch the main
\* connection: the ping of the second turn fails.
HostLossEnds ==
  (mpc = "serve" /\ host = "closed") ~> mpc \in {"exited", "overrun"}
=============================================================================
