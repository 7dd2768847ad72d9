---------------------------- MODULE GpsHalProofs ----------------------------
(***************************************************************************)
(* For any number of sessions, connections that wait, commands, sentences, *)
(* seconds and failures: a thread of GpsHal that runs owns the state, what *)
(* it does follows the last call of the framework, a sentence that does    *)
(* not fit costs at most one more, and while all fit, a fix is made of     *)
(* sentences of one second.                                                *)
(***************************************************************************)
EXTENDS GpsHal, SequenceTheorems, TLAPS

USE GpsAssumption

Commands == {"START", "STOP", "QUIT"}
Points == {"none", "start", "wait", "read", "spin", "ended"}

\* The types that the arguments below need.
Types ==
  /\ fd \in Sessions \cup {NULL} /\ control \in Seq(Commands)
  /\ tpc \in [Sessions -> Points] /\ started \in [Sessions -> BOOLEAN]

\* A state that was given a connection is initialised, and a call in progress has one.
ApiInv ==
  /\ ~init => fd = NULL
  /\ apc # "idle" => fd # NULL

\* Commands are written in a session only, and QUIT is the last of them; until the first
\* callbacks are there, nothing is written or told.
ControlInv ==
  /\ fd = NULL => control = <<>>
  /\ apc = "init" => control = <<>>
  /\ apc # "join" => \A i \in 1..Len(control) : control[i] # "QUIT"
  /\ ~callbacks => status = "NONE" /\ control = <<>> /\ (fd = NULL \/ apc = "init")

\* The last call is the last command that is not read, or what the thread does; and the
\* last status is what it does.
FollowsInv ==
  /\ \A s \in Sessions : tpc[s] \in {"none", "start"} => started[s] = FALSE
  /\ \A s \in Sessions : Alive(s) /\ apc # "join" =>
       IF control = <<>> THEN started[s] = (wanted = "START")
       ELSE wanted = control[Len(control)]
  /\ \A s \in Sessions : tpc[s] \in {"wait", "read", "spin"} =>
       (status = "SESSION_BEGIN") = started[s]

GpsInv == Types /\ ThreadOwnsState /\ ApiInv /\ ControlInv /\ FollowsInv

-----------------------------------------------------------------------------
\* There is no session at the start.
LEMMA InitInv == Init => GpsInv
<1> SUFFICES ASSUME Init PROVE GpsInv
  OBVIOUS
<1> USE DEF Init
<1>1. Types
  BY DEF Types, Points, Commands
<1>2. ThreadOwnsState /\ ApiInv /\ ControlInv
  BY DEF ThreadOwnsState, ApiInv, ControlInv, Alive
<1>3. FollowsInv
  BY DEF FollowsInv, Alive
<1> QED
  BY <1>1, <1>2, <1>3 DEF GpsInv

sessionVars == <<apiVars, control, tpc, started, status, closed>>

\* A step that leaves the session alone.
LEMMA SameSession == GpsInv /\ UNCHANGED sessionVars => GpsInv'
  BY DEF GpsInv, sessionVars, apiVars, Types, ThreadOwnsState, ApiInv, ControlInv, FollowsInv,
         Alive

\* gps_init finds no thread, and makes one or none.
LEMMA InitStep == GpsInv /\ gps_init => GpsInv'
<1> SUFFICES ASSUME GpsInv, gps_init PROVE GpsInv'
  OBVIOUS
<1> USE DEF GpsInv, gps_init
<1>1. /\ fd = NULL /\ control = <<>> /\ control' = control
      /\ callbacks' = callbacks /\ started' = started /\ status' = status
      /\ \A s \in Sessions : ~Alive(s)
  BY DEF ApiInv, ControlInv, ThreadOwnsState
<1>2. CASE init' = TRUE /\ fd' = NULL /\ UNCHANGED <<apc, wanted, tpc, closed>>
  BY <1>1, <1>2 DEF Types, ThreadOwnsState, ApiInv, ControlInv, FollowsInv, Alive
<1>3. ASSUME NEW s \in Sessions, Connects(s), init' = TRUE, fd' = s, wanted' = "STOP",
             tpc' = [tpc EXCEPT ![s] = "start"], apc' = "init", closed' = closed
      PROVE  GpsInv'
  <2>1. s # NULL /\ tpc[s] = "none" /\ s \notin closed
    BY <1>3 DEF Connects, Unused, Sessions
  <2>2. started[s] = FALSE
    BY <2>1 DEF FollowsInv
  <2>3. \A r \in Sessions : r # s => tpc'[r] = tpc[r] /\ tpc[r] \notin {"start", "wait", "read", "spin"}
    BY <1>1, <1>3 DEF Types, Alive, Points
  <2>4. Types' /\ tpc'[s] = "start"
    BY <1>1, <1>3 DEF Types, Points
  <2>5. ThreadOwnsState' /\ ApiInv' /\ ControlInv'
    BY <1>1, <1>3, <2>1, <2>3, <2>4 DEF ThreadOwnsState, Alive, ApiInv, ControlInv, Types
  <2>6. FollowsInv'
    BY <1>1, <1>3, <2>2, <2>3, <2>4 DEF FollowsInv, Alive, Types, Points
  <2> QED
    BY <2>4, <2>5, <2>6
<1>4. CASE UNCHANGED <<apc, wanted, init, fd, tpc>>
  BY <1>1, <1>4 DEF Types, ThreadOwnsState, ApiInv, ControlInv, FollowsInv, Alive
<1> QED
  BY <1>2, <1>3, <1>4

\* The other calls of the framework: a command is added in a session, or nothing happens.
LEMMA CallStep == GpsInv /\ (gps_init_end \/ gps_start \/ gps_stop \/ gps_cleanup) => GpsInv'
<1> SUFFICES ASSUME GpsInv, gps_init_end \/ gps_start \/ gps_stop \/ gps_cleanup
             PROVE  GpsInv'
  OBVIOUS
<1> USE DEF GpsInv
<1>1. /\ fd' = fd /\ tpc' = tpc /\ started' = started /\ status' = status
      /\ closed' = closed
  BY DEF gps_init_end, gps_start, gps_stop, gps_cleanup, Command, threadVars, connVars
<1>2. CASE gps_init_end
  BY <1>1, <1>2 DEF gps_init_end, Types, ThreadOwnsState, ApiInv, ControlInv, FollowsInv, Alive
<1>3. ASSUME NEW cmd \in {"START", "STOP"}, Command(cmd) PROVE GpsInv'
  <2>1. /\ apc = "idle" /\ apc' = "idle" /\ init' = init /\ callbacks' = callbacks
    BY <1>3 DEF Command
  <2>2. CASE fd = NULL
    BY <1>1, <1>3, <2>1, <2>2 DEF Command, Types, ThreadOwnsState, ApiInv, ControlInv,
                                  FollowsInv, Alive
  <2>3. CASE fd # NULL
    <3>1. control' = Append(control, cmd) /\ wanted' = cmd
      BY <1>3, <2>3 DEF Command
    <3>2. /\ control' \in Seq(Commands) /\ control' # <<>>
          /\ Len(control') = Len(control) + 1 /\ control'[Len(control')] = cmd
          /\ \A i \in 1..Len(control) : control'[i] = control[i]
      BY <3>1 DEF Types, Commands
    <3>3. ControlInv'
      BY <1>1, <2>1, <2>3, <3>2 DEF ControlInv, Types
    <3> QED
      BY <1>1, <2>1, <3>1, <3>2, <3>3 DEF Types, ThreadOwnsState, ApiInv, FollowsInv, Alive
  <2> QED
    BY <2>2, <2>3
<1>4. CASE gps_cleanup
  <2>1. wanted' = wanted /\ callbacks' = callbacks /\ apc = "idle" /\ init
    BY <1>4 DEF gps_cleanup
  <2>2. CASE fd = NULL
    <3>1. init' = FALSE /\ apc' = apc /\ control' = control
      BY <1>4, <2>2 DEF gps_cleanup
    <3>2. \A s \in Sessions : ~Alive(s)
      BY <2>2 DEF ThreadOwnsState, Sessions
    <3> QED
      BY <1>1, <2>1, <2>2, <3>1, <3>2 DEF Types, ThreadOwnsState, ApiInv, ControlInv,
                                          FollowsInv, Alive
  <2>3. CASE fd # NULL
    <3>1. control' = Append(control, "QUIT") /\ apc' = "join" /\ init' = init
      BY <1>4, <2>3 DEF gps_cleanup
    <3>2. control' \in Seq(Commands)
      BY <3>1 DEF Types, Commands
    <3>3. callbacks = TRUE \/ ~callbacks
      OBVIOUS
    <3> QED
      BY <1>1, <2>1, <2>3, <3>1, <3>2 DEF Types, ThreadOwnsState, ApiInv, ControlInv,
                                          FollowsInv, Alive
  <2> QED
    BY <2>2, <2>3
<1> QED
  BY <1>2, <1>3, <1>4 DEF gps_start, gps_stop

\* gps_state_done finds the thread ended, and so no other.
LEMMA DoneStep == GpsInv /\ gps_state_done => GpsInv'
<1> SUFFICES ASSUME GpsInv, gps_state_done PROVE GpsInv'
  OBVIOUS
<1> USE DEF GpsInv, gps_state_done
<1>1. \A s \in Sessions : ~Alive(s)
  BY DEF ThreadOwnsState, Alive
<1>2. /\ fd' = NULL /\ control' = <<>> /\ apc' = "idle" /\ init' = FALSE
      /\ tpc' = tpc /\ started' = started /\ status' = status /\ callbacks' = callbacks
  BY DEF threadVars
<1> QED
  BY <1>1, <1>2 DEF Types, ThreadOwnsState, ApiInv, ControlInv, FollowsInv, Alive

\* What is left of the commands when one was read.
LEMMA TailFacts ==
  ASSUME control \in Seq(Commands), control # <<>>
  PROVE  /\ Head(control) = control[1] /\ 1 \in 1..Len(control)
         /\ Tail(control) \in Seq(Commands)
         /\ Tail(control) = <<>> => control[Len(control)] = Head(control)
         /\ Tail(control) # <<>> => Tail(control)[Len(Tail(control))] = control[Len(control)]
         /\ \A i \in 1..Len(Tail(control)) :
              i + 1 \in 1..Len(control) /\ Tail(control)[i] = control[i + 1]
<1> DEFINE t == Tail(control)
<1>1. /\ Len(control) \in Nat \ {0} /\ Head(control) = control[1]
  BY EmptySeq
<1>2. /\ t \in Seq(Commands) /\ Len(t) = Len(control) - 1
      /\ \A i \in 1..Len(t) : t[i] = control[i + 1]
  BY HeadTailProperties
<1> HIDE DEF t
<1>3. ASSUME t = <<>> PROVE Len(control) = 1
  BY <1>1, <1>2, <1>3
<1>4. ASSUME t # <<>> PROVE Len(t) \in Nat \ {0}
  BY <1>2, <1>4, EmptySeq
<1>5. t = <<>> => control[Len(control)] = Head(control)
  BY <1>1, <1>3
<1>6. t # <<>> => t[Len(t)] = control[Len(control)]
  BY <1>1, <1>2, <1>4
<1>7. \A i \in 1..Len(t) : i + 1 \in 1..Len(control) /\ t[i] = control[i + 1]
  BY <1>1, <1>2
<1> QED
  BY <1>1, <1>2, <1>5, <1>6, <1>7 DEF t

\* A thread that moves is the only one.
LEMMA Alone ==
  ASSUME GpsInv, NEW s \in Sessions, Alive(s), UNCHANGED <<apiVars, closed>>,
         control' = control \/ (control # <<>> /\ control' = Tail(control)),
         \A r \in Sessions : r # s => tpc'[r] = tpc[r] /\ started'[r] = started[r],
         tpc'[s] \in Points \ {"none", "start"},
         tpc' \in [Sessions -> Points], started' \in [Sessions -> BOOLEAN]
  PROVE  /\ Types' /\ ThreadOwnsState' /\ ApiInv'
         /\ \A r \in Sessions : r # s => ~Alive(r) /\ ~Alive(r)'
         /\ fd # NULL /\ callbacks' = callbacks /\ apc' = apc /\ wanted' = wanted
<1>1. \A r \in Sessions : r # s => ~Alive(r) /\ ~Alive(r)'
  BY DEF GpsInv, ThreadOwnsState, Alive
<1>2. fd = s /\ fd' = fd /\ init' = init /\ apc' = apc /\ init /\ s \notin closed
      /\ closed' = closed /\ fd # NULL /\ callbacks' = callbacks /\ wanted' = wanted
  BY DEF GpsInv, ThreadOwnsState, apiVars, Sessions
<1>3. control' \in Seq(Commands)
  BY TailFacts DEF GpsInv, Types
<1> QED
  BY <1>1, <1>2, <1>3 DEF GpsInv, Types, ThreadOwnsState, ApiInv

\* The thread starts, or turns to the connection and back.
LEMMA MoveStep ==
  ASSUME GpsInv, NEW s \in Sessions, ThreadStarts(s) \/ BeginRead(s) \/ EndRead(s)
  PROVE  GpsInv'
<1>1. /\ tpc[s] \in {"start", "wait", "read"} /\ UNCHANGED <<apiVars, control, closed, started>>
      /\ tpc' = [tpc EXCEPT ![s] = "wait"] \/ tpc' = [tpc EXCEPT ![s] = "read"]
           \/ tpc' = [tpc EXCEPT ![s] = "spin"]
  BY DEF ThreadStarts, BeginRead, EndRead, connVars
<1>2. tpc' \in [Sessions -> Points] /\ tpc'[s] \in {"wait", "read", "spin"}
      /\ \A r \in Sessions : r # s => tpc'[r] = tpc[r]
  BY <1>1 DEF GpsInv, Types, Points
<1>3. Alive(s) /\ Alive(s)'
  BY <1>1, <1>2 DEF Alive
<1>4. /\ Types' /\ ThreadOwnsState' /\ ApiInv'
      /\ \A r \in Sessions : r # s => ~Alive(r) /\ ~Alive(r)'
      /\ fd # NULL /\ callbacks' = callbacks /\ apc' = apc /\ wanted' = wanted
  <2>1. started' \in [Sessions -> BOOLEAN]
    BY <1>1 DEF GpsInv, Types
  <2> QED
    BY <1>1, <1>2, <1>3, <2>1, Alone DEF Points
<1>5. (status' = "SESSION_BEGIN") = started'[s] /\ (~callbacks => status' = "NONE")
  <2>1. CASE ThreadStarts(s)
    BY <2>1 DEF ThreadStarts, gps_update_status, GpsInv, ControlInv, FollowsInv, Types
  <2>2. CASE BeginRead(s) \/ EndRead(s)
    BY <2>2, <1>1 DEF BeginRead, EndRead, GpsInv, ControlInv, FollowsInv
  <2> QED
    BY <2>1, <2>2
<1>6. ControlInv'
  BY <1>1, <1>4, <1>5 DEF GpsInv, ControlInv, apiVars
<1>7. FollowsInv'
  BY <1>1, <1>2, <1>3, <1>4, <1>5 DEF GpsInv, FollowsInv, Alive, Types, Points
<1> QED
  BY <1>4, <1>6, <1>7 DEF GpsInv

\* The thread ends, because it is told to or because the connection was reset.
LEMMA EndStep ==
  ASSUME GpsInv, NEW s \in Sessions, tpc[s] = "wait", EndThread(s), UNCHANGED <<apiVars, closed>>,
         \/ control' = control /\ status' = status
         \/ /\ control # <<>> /\ control' = Tail(control) /\ Head(control) = "QUIT"
            /\ gps_update_status("ENGINE_OFF")
  PROVE  GpsInv'
<1>1. /\ tpc' \in [Sessions -> Points] /\ tpc'[s] = "ended"
      /\ \A r \in Sessions : r # s => tpc'[r] = tpc[r] /\ started'[r] = started[r]
  BY DEF EndThread, GpsInv, Types, Points
<1>2. started' \in [Sessions -> BOOLEAN]
  BY ZenonT(60) DEF EndThread, GpsInv, Types
<1>3. /\ Types' /\ ThreadOwnsState' /\ ApiInv'
      /\ \A r \in Sessions : r # s => ~Alive(r) /\ ~Alive(r)'
      /\ fd # NULL /\ callbacks' = callbacks /\ apc' = apc /\ wanted' = wanted
  BY <1>1, <1>2, Alone DEF Alive, Points
<1>4. control # <<>> => callbacks /\ apc # "init"
  BY DEF GpsInv, ControlInv
<1>5. ControlInv'
  <2>1. CASE control' = control /\ status' = status
    BY <2>1, <1>3 DEF GpsInv, ControlInv, apiVars
  <2>2. CASE control # <<>> /\ control' = Tail(control) /\ Head(control) = "QUIT"
    <3>1. apc = "join"
      BY <2>2, TailFacts DEF GpsInv, ControlInv, Types
    <3> QED
      BY <2>2, <3>1, <1>3, <1>4 DEF GpsInv, ControlInv, apiVars
  <2> QED
    BY <2>1, <2>2
<1>6. FollowsInv'
  BY <1>1, <1>3 DEF GpsInv, FollowsInv, Alive, Points
<1> QED
  BY <1>3, <1>5, <1>6 DEF GpsInv

\* The thread reads START or STOP.
LEMMA CommandStep ==
  ASSUME GpsInv, NEW s \in Sessions, tpc[s] = "wait", UNCHANGED <<apiVars, closed, tpc>>,
         control # <<>>, control' = Tail(control),
         \/ Head(control) = "START" /\ ReadStart(s)
         \/ Head(control) = "STOP" /\ ReadStop(s)
  PROVE  GpsInv'
<1>1. /\ control \in Seq(Commands) /\ tpc \in [Sessions -> Points]
      /\ started \in [Sessions -> BOOLEAN] /\ callbacks /\ apc # "init" /\ Alive(s)
  BY DEF GpsInv, Types, ControlInv, Alive
<1>2. /\ started' = started \/ started' = [started EXCEPT ![s] = TRUE]
                            \/ started' = [started EXCEPT ![s] = FALSE]
      /\ (status' = "SESSION_BEGIN") = started'[s]
      /\ started'[s] = (Head(control) = "START")
  <2>0. (status = "SESSION_BEGIN") = started[s] /\ started[s] \in BOOLEAN
    BY <1>1 DEF GpsInv, FollowsInv
  <2>1. CASE Head(control) = "START" /\ started[s] /\ UNCHANGED <<started, status>>
    BY <2>0, <2>1
  <2>2. CASE /\ Head(control) = "START" /\ started' = [started EXCEPT ![s] = TRUE]
             /\ gps_update_status("SESSION_BEGIN")
    BY <1>1, <2>2 DEF gps_update_status
  <2>3. CASE Head(control) = "STOP" /\ ReadStop(s)
    BY <1>1, <2>0, <2>3 DEF ReadStop
  <2> QED
    BY <2>1, <2>2, <2>3 DEF ReadStart
<1>3. /\ started' \in [Sessions -> BOOLEAN]
      /\ \A r \in Sessions : r # s => started'[r] = started[r]
  <2>1. CASE started' = started
    BY <1>1, <2>1
  <2>2. CASE started' = [started EXCEPT ![s] = TRUE]
    BY <1>1, <2>2, ZenonT(60)
  <2>3. CASE started' = [started EXCEPT ![s] = FALSE]
    BY <1>1, <2>3, ZenonT(60)
  <2> QED
    BY <1>2, <2>1, <2>2, <2>3
<1>4. /\ Types' /\ ThreadOwnsState' /\ ApiInv'
      /\ \A r \in Sessions : r # s => ~Alive(r) /\ ~Alive(r)'
      /\ fd # NULL /\ callbacks' = callbacks /\ apc' = apc /\ wanted' = wanted /\ fd' = fd
  BY <1>1, <1>3, Alone DEF Points, apiVars
<1>5. ControlInv'
  BY <1>1, <1>4, TailFacts DEF GpsInv, ControlInv
<1>6. ASSUME apc # "join"
      PROVE  IF control' = <<>> THEN started'[s] = (wanted = "START")
             ELSE wanted = control'[Len(control')]
  <2>1. wanted = control[Len(control)]
    BY <1>1, <1>6 DEF GpsInv, FollowsInv
  <2> QED
    BY <1>1, <1>2, <2>1, TailFacts
<1>7. FollowsInv'
  BY <1>1, <1>2, <1>3, <1>4, <1>6 DEF GpsInv, FollowsInv, Alive, Points
<1> QED
  BY <1>4, <1>5, <1>7 DEF GpsInv

\* Every step keeps the invariant.
LEMMA NextInv == GpsInv /\ [Next]_vars => GpsInv'
<1> SUFFICES ASSUME GpsInv, [Next]_vars PROVE GpsInv'
  OBVIOUS
<1>1. CASE Framework \/ gps_init_end \/ gps_state_done
  BY <1>1, InitStep, CallStep, DoneStep DEF Framework
<1>2. ASSUME NEW s \in Sessions, Thread(s) PROVE GpsInv'
  <2>1. CASE ThreadStarts(s) \/ BeginRead(s) \/ EndRead(s)
    BY <2>1, MoveStep
  <2>2. CASE ReadSentence(s)
    BY <2>2, SameSession DEF ReadSentence, sessionVars
  <2>3. CASE ThreadReset(s)
    BY <2>3, EndStep DEF ThreadReset, connVars
  <2>4. CASE ReadCommand(s)
    <3>1. /\ tpc[s] = "wait" /\ control # <<>> /\ control' = Tail(control)
          /\ UNCHANGED <<apiVars, closed>>
      BY <2>4 DEF ReadCommand, connVars
    <3>2. CASE Head(control) = "QUIT" /\ ReadQuit(s)
      BY <3>1, <3>2, EndStep DEF ReadQuit
    <3>3. CASE Head(control) = "START" /\ ReadStart(s) /\ UNCHANGED tpc
      BY <3>1, <3>3, CommandStep
    <3>4. CASE Head(control) = "STOP" /\ ReadStop(s) /\ UNCHANGED tpc
      BY <3>1, <3>4, CommandStep
    <3> QED
      BY <2>4, <3>2, <3>3, <3>4 DEF ReadCommand
  <2> QED
    BY <1>2, <2>1, <2>2, <2>3, <2>4 DEF Thread
<1>3. CASE Daemon \/ DaemonEnds \/ SecondPasses
  BY <1>3, SameSession DEF Daemon, Accept, SendGGA, SendRMC, DaemonStarts, DaemonEnds,
                           SecondPasses, threadVars, connVars, sessionVars
<1>4. CASE UNCHANGED vars
  BY <1>4, SameSession DEF vars, threadVars, connVars, sessionVars
<1> QED
  BY <1>1, <1>2, <1>3, <1>4 DEF Next

\* The invariant holds in every state.
THEOREM SessionCorrect == Spec => []GpsInv
  BY InitInv, NextInv, PTL DEF Spec

\* A thread that runs is the only one and owns the state, so that none calls back when
\* gps_cleanup has returned.
THEOREM ThreadSafe == Spec => []ThreadOwnsState
<1>1. GpsInv => ThreadOwnsState
  BY DEF GpsInv
<1> QED
  BY <1>1, SessionCorrect, PTL

\* When every command was read, the session is what the framework asked for last, and it
\* was told so.
THEOREM SessionSettles == Spec => []SettledSession
<1>1. GpsInv => SettledSession
  BY DEF GpsInv, FollowsInv, SettledSession, Alive
<1> QED
  BY <1>1, SessionCorrect, PTL

-----------------------------------------------------------------------------
\* What was dropped, with the sentence that is skipped next.
Bounded(r) ==
  /\ r.overflow \in BOOLEAN /\ r.odd \in Nat /\ r.dropped \in Nat
  /\ r.dropped <= 2 * r.odd
  /\ r.overflow => r.dropped < 2 * r.odd

Fields == {"overflow", "day", "fix", "odd", "dropped"}

DropInv ==
  /\ DOMAIN reader = Sessions
  /\ \A s \in Sessions : DOMAIN reader[s] = Fields /\ Bounded(reader[s])

\* A sentence that is dropped.
LEMMA DropStep ==
  ASSUME DropInv, NEW s \in Sessions, ReadSentence(s) PROVE DropInv'
<1> DEFINE x == Head(stream[s])
<1>1. CASE /\ reader[s].overflow \/ x.size # "fits"
           /\ reader' = [reader EXCEPT ![s].overflow = Overflows(reader[s], x),
                                       ![s].odd = IF x.size = "fits" THEN @ ELSE @ + 1,
                                       ![s].dropped = @ + 1]
  <2>1. /\ reader'[s].overflow = Overflows(reader[s], x)
        /\ reader'[s].odd = IF x.size = "fits" THEN reader[s].odd ELSE reader[s].odd + 1
        /\ reader'[s].dropped = reader[s].dropped + 1
        /\ DOMAIN reader'[s] = Fields /\ DOMAIN reader' = Sessions
        /\ \A r \in Sessions : r # s => reader'[r] = reader[r]
    BY <1>1 DEF DropInv, Fields
  <2>2. /\ reader[s].odd \in Nat /\ reader[s].dropped \in Nat
        /\ reader[s].dropped <= 2 * reader[s].odd
        /\ reader[s].overflow => reader[s].dropped < 2 * reader[s].odd
    BY DEF DropInv, Bounded
  <2>3. Bounded(reader'[s])
    <3>1. CASE x.size # "fits"
      BY <2>1, <2>2, <3>1 DEF Bounded, Overflows
    <3>2. CASE x.size = "fits" /\ reader[s].overflow
      <4>0. Overflows(reader[s], x) = FALSE
        BY <3>2 DEF Overflows
      <4>1. reader'[s].overflow = FALSE
        BY <2>1, <4>0, Zenon
      <4>2. reader'[s].overflow \in BOOLEAN /\ ~reader'[s].overflow
        BY <4>1, Zenon
      <4>3. /\ reader'[s].odd \in Nat /\ reader'[s].dropped \in Nat
            /\ reader'[s].dropped <= 2 * reader'[s].odd
        <5>1. reader[s].dropped < 2 * reader[s].odd
          BY <2>2, <3>2, Zenon
        <5>2. reader'[s].odd = reader[s].odd /\ reader'[s].dropped = reader[s].dropped + 1
          BY <2>1, <3>2
        <5> QED
          BY <2>2, <5>1, <5>2
      <4> QED
        BY <4>2, <4>3, Zenon DEF Bounded
    <3> QED
      BY <1>1, <3>1, <3>2
  <2> QED
    BY <2>1, <2>3 DEF DropInv
<1>2. ASSUME NEW r, DOMAIN r = Fields, r.odd = reader[s].odd, r.dropped = reader[s].dropped,
             r.overflow = reader[s].overflow, reader' = [reader EXCEPT ![s] = r]
      PROVE  DropInv'
  BY <1>2 DEF DropInv, Bounded
<1>3. LET p == Parsed(reader[s], x) IN
        /\ DOMAIN p = Fields
        /\ p.odd = reader[s].odd /\ p.dropped = reader[s].dropped
        /\ p.overflow = reader[s].overflow
  BY DEF DropInv, Parsed, Fields
<1>4. LET p == [Parsed(reader[s], x) EXCEPT !.fix = NoFix] IN
        /\ DOMAIN p = Fields
        /\ p.odd = reader[s].odd /\ p.dropped = reader[s].dropped
        /\ p.overflow = reader[s].overflow
  BY <1>3 DEF Fields
<1> QED
  BY <1>1, <1>2, <1>3, <1>4 DEF ReadSentence

\* Every step keeps the bound: the other steps make a new reader, or take a fix out.
LEMMA DropNext == DropInv /\ [Next]_vars => DropInv'
<1> SUFFICES ASSUME DropInv, [Next]_vars PROVE DropInv'
  OBVIOUS
<1>1. CASE UNCHANGED reader
  BY <1>1 DEF DropInv
<1>2. ASSUME NEW s \in Sessions, EndThread(s) PROVE DropInv'
  <2>1. DOMAIN NewReader = Fields /\ Bounded(NewReader)
    BY DEF NewReader, Fields, Bounded
  <2> QED
    BY <1>2, <2>1 DEF EndThread, DropInv
<1>3. ASSUME NEW s \in Sessions, ReadStart(s) PROVE DropInv'
  <2>1. CASE reader' = [reader EXCEPT ![s].fix = NoFix]
    <3>1. /\ DOMAIN reader'[s] = Fields /\ DOMAIN reader' = Sessions
          /\ reader'[s].odd = reader[s].odd /\ reader'[s].dropped = reader[s].dropped
          /\ reader'[s].overflow = reader[s].overflow
          /\ \A r \in Sessions : r # s => reader'[r] = reader[r]
      BY <2>1 DEF DropInv, Fields
    <3> QED
      BY <3>1 DEF DropInv, Bounded
  <2> QED
    BY <1>1, <1>3, <2>1 DEF ReadStart
<1>4. ASSUME NEW s \in Sessions, Thread(s) PROVE DropInv'
  <2>1. CASE ThreadStarts(s) \/ BeginRead(s) \/ EndRead(s)
    BY <1>1, <2>1 DEF ThreadStarts, BeginRead, EndRead
  <2>2. CASE ReadCommand(s)
    BY <1>1, <1>2, <1>3, <2>2 DEF ReadCommand, ReadQuit, ReadStop
  <2>3. CASE ThreadReset(s)
    BY <1>2, <2>3 DEF ThreadReset
  <2> QED
    BY <1>4, <2>1, <2>2, <2>3, DropStep DEF Thread
<1>5. CASE Framework \/ gps_init_end \/ gps_state_done
  BY <1>1, <1>5 DEF Framework, gps_init, gps_start, gps_stop, Command, gps_cleanup,
                    gps_init_end, gps_state_done, threadVars
<1>6. CASE Daemon \/ DaemonEnds \/ SecondPasses \/ UNCHANGED vars
  BY <1>1, <1>6 DEF Daemon, Accept, SendGGA, SendRMC, DaemonStarts, DaemonEnds,
                    SecondPasses, threadVars, vars
<1> QED
  BY <1>4, <1>5, <1>6 DEF Next

\* A sentence that does not fit costs itself and at most the next one.
THEOREM OverlongCostsOne == Spec => []DropsBounded
<1>0. DOMAIN NewReader = Fields /\ Bounded(NewReader)
  BY DEF NewReader, Fields, Bounded
<1>1. Init => DropInv
  BY <1>0 DEF Init, DropInv
<1>2. DropInv => DropsBounded
  BY DEF DropInv, Bounded, DropsBounded
<1> QED
  BY <1>1, <1>2, DropNext, PTL DEF Spec

-----------------------------------------------------------------------------
(* The sentences of a session that none of an odd size has reached.         *)

\* The sentences on the way, read after an altitude of second a and while the position of
\* second l is kept: their seconds do not go back, and RMC comes with its GGA.
Chain(q, a, l) ==
  /\ \A i \in 1..Len(q) : l # NULL => l <= q[i].sent
  /\ \A i, j \in 1..Len(q) : i <= j => q[i].sent <= q[j].sent
  /\ \A i \in 1..Len(q) : q[i].kind = "RMC" =>
       IF i = 1 THEN a = q[1].sent
       ELSE q[i - 1].kind = "GGA" /\ q[i - 1].sent = q[i].sent

\* The daemon has sent GGA and will send RMC of second t.
Pending(q, a, l, t) ==
  /\ t # NULL /\ (l # NULL => l <= t)
  /\ \A i \in 1..Len(q) : q[i].sent <= t
  /\ IF Len(q) = 0 THEN a = t ELSE q[Len(q)].kind = "GGA" /\ q[Len(q)].sent = t

\* A fix that is kept.
Whole(fix) ==
  fix.latlong # NULL =>
    /\ fix.alt # NULL /\ fix.alt >= fix.latlong
    /\ fix.alt = fix.latlong => fix.time = fix.latlong

\* What a session has been told, and will be.
Told(s) ==
  LET r == reader[s]
      l == r.fix.latlong
  IN /\ Whole(r.fix) /\ (l # NULL => l <= clock /\ r.day = Day(l))
     /\ Chain(stream[s], altToken, l)
     /\ \A i \in 1..Len(stream[s]) : stream[s][i].sent <= clock
     /\ client = s /\ dpc = "rmc" => Pending(stream[s], altToken, l, rmc)

\* A number that no session has yet is not known to the daemon.
Fresh(s) ==
  /\ stream[s] = <<>> /\ client # s /\ reader[s] = NewReader
  /\ \A i \in 1..Len(backlog) : backlog[i] # s

FixInv ==
  /\ \A s \in Sessions : tpc[s] = "none" /\ s \notin closed => Fresh(s)
  /\ dpc = "rmc" => rmc # NULL /\ rmc <= clock
  /\ \A s \in Sessions : Alive(s) /\ reader[s].odd = 0 => Told(s)

Times == Seconds \cup {NULL}

\* The first sentence on the way, and the others.
LEMMA FirstSentence ==
  ASSUME NEW q \in Seq(Sentences), q # <<>>
  PROVE  /\ Head(q) = q[1] /\ Head(q) \in Sentences /\ Len(q) \in Nat /\ Len(q) >= 1
         /\ Tail(q) \in Seq(Sentences) /\ Len(Tail(q)) = Len(q) - 1
         /\ \A i \in 1..Len(Tail(q)) : i + 1 \in 1..Len(q) /\ Tail(q)[i] = q[i + 1]
<1>1. Len(q) \in Nat /\ Len(q) > 0
  BY EmptySeq, LenProperties
<1>2. /\ Head(q) = q[1] /\ Head(q) \in Sentences /\ Tail(q) \in Seq(Sentences)
      /\ Len(Tail(q)) = Len(q) - 1
      /\ \A i \in 1..Len(Tail(q)) : Tail(q)[i] = q[i + 1]
  BY HeadTailProperties, <1>1
<1> QED
  BY <1>1, <1>2

\* A sentence is read: GGA leaves its second in the altitude, RMC in the position.
LEMMA ChainRead ==
  ASSUME NEW q \in Seq(Sentences), q # <<>>, NEW a \in Times, NEW l \in Times,
         NEW a1, NEW l1, Chain(q, a, l),
         a1 = IF Head(q).kind = "GGA" THEN Head(q).sent ELSE a,
         l1 \in {NULL, IF Head(q).kind = "RMC" THEN Head(q).sent ELSE l}
  PROVE  /\ Chain(Tail(q), a1, l1)
         /\ Head(q).kind = "RMC" => a = Head(q).sent
         /\ l # NULL => l <= Head(q).sent
<1> DEFINE p == Tail(q)
           x == Head(q)
<1>1. /\ x = q[1] /\ 1 \in 1..Len(q) /\ Len(q) \in Nat /\ Len(p) = Len(q) - 1
      /\ \A i \in 1..Len(p) : i + 1 \in 1..Len(q) /\ p[i] = q[i + 1]
  BY FirstSentence
<1>2. \A i \in 1..Len(q) : q[i] \in Sentences
  OBVIOUS
<1>3. \A i \in 1..Len(q) : q[i].sent \in Nat /\ q[i].kind \in {"GGA", "RMC"}
  BY <1>2 DEF Sentences, Seconds
<1> HIDE DEF p, x
<1>4. l # NULL => l <= x.sent
  BY <1>1 DEF Chain
<1>5. x.kind = "RMC" => a = x.sent
  BY <1>1 DEF Chain
<1>6. \A i \in 1..Len(p) : l1 # NULL => l1 <= p[i].sent
  <2> SUFFICES ASSUME NEW i \in 1..Len(p), l1 # NULL PROVE l1 <= p[i].sent
    OBVIOUS
  <2>1. p[i] = q[i + 1] /\ i + 1 \in 1..Len(q) /\ 1 <= i + 1
    BY <1>1
  <2>2. x.sent <= p[i].sent
    BY <1>1, <2>1 DEF Chain
  <2>3. l # NULL => l <= p[i].sent
    BY <2>1 DEF Chain
  <2> QED BY <2>2, <2>3 DEF x
<1>7. \A i, j \in 1..Len(p) : i <= j => p[i].sent <= p[j].sent
  <2> SUFFICES ASSUME NEW i \in 1..Len(p), NEW j \in 1..Len(p), i <= j
               PROVE  p[i].sent <= p[j].sent
    OBVIOUS
  <2>1. /\ p[i] = q[i + 1] /\ i + 1 \in 1..Len(q) /\ p[j] = q[j + 1] /\ j + 1 \in 1..Len(q)
        /\ i + 1 <= j + 1
    BY <1>1
  <2> QED BY <2>1 DEF Chain
<1>8. ASSUME NEW i \in 1..Len(p), p[i].kind = "RMC"
      PROVE  IF i = 1 THEN a1 = p[1].sent
             ELSE p[i - 1].kind = "GGA" /\ p[i - 1].sent = p[i].sent
  <2>1. p[i] = q[i + 1] /\ i + 1 \in 1..Len(q) /\ i + 1 # 1 /\ (i + 1) - 1 = i
    BY <1>1
  <2>2. q[i].kind = "GGA" /\ q[i].sent = p[i].sent
    BY <1>8, <2>1 DEF Chain
  <2>3. CASE i = 1
    BY <1>1, <2>2, <2>3 DEF x
  <2>4. CASE i # 1
    <3>1. i - 1 \in 1..Len(p) /\ (i - 1) + 1 = i
      BY <1>1, <2>4
    <3>2. p[i - 1] = q[i]
      BY <1>1, <3>1
    <3> QED BY <2>2, <2>4, <3>2
  <2> QED BY <2>3, <2>4
<1>9. Chain(p, a1, l1)
  BY <1>6, <1>7, <1>8 DEF Chain
<1> QED
  BY <1>4, <1>5, <1>9 DEF p, x

\* The same while RMC is still to be sent.
LEMMA PendingRead ==
  ASSUME NEW q \in Seq(Sentences), q # <<>>, NEW a \in Times, NEW l \in Times, NEW t \in Seconds,
         NEW a1, NEW l1, Chain(q, a, l), Pending(q, a, l, t),
         a1 = IF Head(q).kind = "GGA" THEN Head(q).sent ELSE a,
         l1 \in {NULL, IF Head(q).kind = "RMC" THEN Head(q).sent ELSE l}
  PROVE  Pending(Tail(q), a1, l1, t)
<1> DEFINE p == Tail(q)
           x == Head(q)
<1>1. /\ x = q[1] /\ x \in Sentences /\ 1 \in 1..Len(q) /\ Len(q) \in Nat \ {0}
      /\ Len(p) = Len(q) - 1
      /\ \A i \in 1..Len(p) : i + 1 \in 1..Len(q) /\ p[i] = q[i + 1]
  BY FirstSentence
<1> HIDE DEF p, x
<1>2. t # NULL /\ (l1 # NULL => l1 <= t)
  BY <1>1 DEF Pending, x, Seconds
<1>3. \A i \in 1..Len(p) : p[i].sent <= t
  BY <1>1 DEF Pending
<1>4. q[Len(q)].kind = "GGA" /\ q[Len(q)].sent = t
  BY <1>1 DEF Pending
<1>5. CASE Len(p) = 0
  <2>1. Len(q) = 1
    BY <1>1, <1>5
  <2>2. a1 = t
    BY <1>1, <1>4, <2>1 DEF x
  <2>3. Pending(p, a1, l1, t)
    BY <1>2, <1>3, <1>5, <2>2 DEF Pending
  <2> QED BY <2>3 DEF p
<1>6. CASE Len(p) # 0
  <2>1. Len(p) \in 1..Len(p) /\ Len(p) + 1 = Len(q)
    BY <1>1, <1>6
  <2>2. p[Len(p)] = q[Len(q)]
    BY <1>1, <2>1
  <2>3. Pending(p, a1, l1, t)
    BY <1>2, <1>3, <1>4, <1>6, <2>2 DEF Pending
  <2> QED BY <2>3 DEF p
<1> QED
  BY <1>5, <1>6

\* GGA of second t is sent.
LEMMA ChainBegins ==
  ASSUME NEW q \in Seq(Sentences), NEW a, NEW l \in Times, NEW t \in Seconds, NEW z \in Sizes,
         Chain(q, a, l), l # NULL => l <= t, \A i \in 1..Len(q) : q[i].sent <= t
  PROVE  LET p == Append(q, [kind |-> "GGA", sent |-> t, size |-> z]) IN
           /\ Chain(p, a, l) /\ Pending(p, a, l, t)
           /\ \A i \in 1..Len(p) : p[i].sent <= t
<1> DEFINE y == [kind |-> "GGA", sent |-> t, size |-> z]
           p == Append(q, y)
<1>0. y \in Sentences /\ y.kind = "GGA" /\ y.sent = t /\ t \in Nat /\ t # NULL
  BY DEF Sentences, Seconds
<1>1. /\ Len(q) \in Nat /\ Len(p) = Len(q) + 1 /\ p[Len(q) + 1] = y
      /\ \A i \in 1..Len(q) : p[i] = q[i]
  BY <1>0, AppendProperties, LenProperties
<1> HIDE DEF y, p
<1>2. \A i \in 1..Len(q) : q[i].sent \in Nat
  <2>1. \A i \in 1..Len(q) : q[i] \in Sentences
    OBVIOUS
  <2> QED BY <2>1 DEF Sentences, Seconds
<1>3. \A i \in 1..Len(p) : i \in 1..Len(q) \/ i = Len(q) + 1
  BY <1>1
<1>4. \A i \in 1..Len(p) : p[i].sent <= t
  BY <1>0, <1>1, <1>2, <1>3
<1>5. \A i \in 1..Len(p) : l # NULL => l <= p[i].sent
  BY <1>0, <1>1, <1>3 DEF Chain
<1>6. \A i, j \in 1..Len(p) : i <= j => p[i].sent <= p[j].sent
  <2> SUFFICES ASSUME NEW i \in 1..Len(p), NEW j \in 1..Len(p), i <= j
               PROVE  p[i].sent <= p[j].sent
    OBVIOUS
  <2>1. CASE j = Len(q) + 1
    BY <1>0, <1>1, <1>4, <2>1
  <2>2. CASE j \in 1..Len(q)
    <3>1. i \in 1..Len(q)
      BY <1>1, <2>2
    <3> QED BY <1>1, <2>2, <3>1 DEF Chain
  <2> QED BY <1>3, <2>1, <2>2
<1>7. ASSUME NEW i \in 1..Len(p), p[i].kind = "RMC"
      PROVE  IF i = 1 THEN a = p[1].sent
             ELSE p[i - 1].kind = "GGA" /\ p[i - 1].sent = p[i].sent
  <2>1. i \in 1..Len(q) /\ q[i].kind = "RMC"
    BY <1>0, <1>1, <1>3, <1>7
  <2>2. CASE i = 1
    BY <1>1, <2>1, <2>2 DEF Chain
  <2>3. CASE i # 1
    <3>1. i - 1 \in 1..Len(q)
      BY <1>1, <2>1, <2>3
    <3> QED BY <1>1, <2>1, <2>3, <3>1 DEF Chain
  <2> QED BY <2>2, <2>3
<1>8. Chain(p, a, l)
  BY <1>5, <1>6, <1>7 DEF Chain
<1>9. Pending(p, a, l, t)
  BY <1>0, <1>1, <1>4 DEF Pending
<1> QED
  BY <1>4, <1>8, <1>9 DEF p, y

\* RMC of second t is sent.
LEMMA ChainEnds ==
  ASSUME NEW q \in Seq(Sentences), NEW a, NEW l \in Times, NEW t \in Seconds, NEW z \in Sizes,
         Chain(q, a, l), Pending(q, a, l, t)
  PROVE  LET p == Append(q, [kind |-> "RMC", sent |-> t, size |-> z]) IN
           Chain(p, a, l) /\ \A i \in 1..Len(p) : p[i].sent <= t
<1> DEFINE y == [kind |-> "RMC", sent |-> t, size |-> z]
           p == Append(q, y)
<1>0. y \in Sentences /\ y.kind = "RMC" /\ y.sent = t /\ t \in Nat
  BY DEF Sentences, Seconds
<1>1. /\ Len(q) \in Nat /\ Len(p) = Len(q) + 1 /\ p[Len(q) + 1] = y
      /\ \A i \in 1..Len(q) : p[i] = q[i]
  BY <1>0, AppendProperties, LenProperties
<1> HIDE DEF y, p
<1>3. \A i \in 1..Len(p) : i \in 1..Len(q) \/ i = Len(q) + 1
  BY <1>1
<1>4. \A i \in 1..Len(p) : p[i].sent <= t
  BY <1>0, <1>1, <1>3 DEF Pending
<1>5. \A i \in 1..Len(p) : l # NULL => l <= p[i].sent
  BY <1>0, <1>1, <1>3 DEF Chain, Pending
<1>6. \A i, j \in 1..Len(p) : i <= j => p[i].sent <= p[j].sent
  <2> SUFFICES ASSUME NEW i \in 1..Len(p), NEW j \in 1..Len(p), i <= j
               PROVE  p[i].sent <= p[j].sent
    OBVIOUS
  <2>1. CASE j = Len(q) + 1
    BY <1>0, <1>1, <1>4, <2>1
  <2>2. CASE j \in 1..Len(q)
    <3>1. i \in 1..Len(q)
      BY <1>1, <2>2
    <3> QED BY <1>1, <2>2, <3>1 DEF Chain
  <2> QED BY <1>3, <2>1, <2>2
<1>7. ASSUME NEW i \in 1..Len(p), p[i].kind = "RMC"
      PROVE  IF i = 1 THEN a = p[1].sent
             ELSE p[i - 1].kind = "GGA" /\ p[i - 1].sent = p[i].sent
  <2>1. CASE i \in 1..Len(q)
    <3>1. CASE i = 1
      BY <1>1, <1>7, <2>1, <3>1 DEF Chain
    <3>2. CASE i # 1
      <4>1. i - 1 \in 1..Len(q)
        BY <1>1, <2>1, <3>2
      <4> QED BY <1>1, <1>7, <2>1, <3>2, <4>1 DEF Chain
    <3> QED BY <3>1, <3>2
  <2>2. CASE i = Len(q) + 1 /\ Len(q) = 0
    BY <1>0, <1>1, <2>2 DEF Pending
  <2>3. CASE i = Len(q) + 1 /\ Len(q) # 0
    <3>1. i - 1 = Len(q) /\ Len(q) \in 1..Len(q) /\ i # 1
      BY <1>1, <2>3
    <3>2. p[Len(q)] = q[Len(q)] /\ p[i] = y
      BY <1>1, <2>3, <3>1
    <3> QED BY <1>0, <2>3, <3>1, <3>2 DEF Pending
  <2> QED BY <1>3, <2>1, <2>2, <2>3
<1>8. Chain(p, a, l)
  BY <1>5, <1>6, <1>7 DEF Chain
<1> QED
  BY <1>4, <1>8 DEF p, y

-----------------------------------------------------------------------------
(* Types of what the sentences go through.                                  *)

Readers == [overflow : BOOLEAN, day : Nat \cup {NULL}, fix : Fixes, odd : Nat, dropped : Nat]

ReaderTypes ==
  /\ reader \in [Sessions -> Readers] /\ altToken \in Times
  /\ reported \in Fixes \cup {NULL}

DaemonTypes ==
  /\ dpc \in {"down", "accept", "sleep", "rmc"}
  /\ client \in Sessions \cup {NULL} /\ backlog \in Seq(Sessions) /\ rmc \in Times
  /\ dpc = "rmc" => rmc # NULL
  /\ stream \in [Sessions -> Seq(Sentences)]
  /\ closed \subseteq Sessions /\ ended \subseteq Sessions
  /\ denied \subseteq Sessions /\ cut \subseteq Sessions

ClockTypes == clock \in Seconds /\ faults \in 0..MaxFaults

CallTypes ==
  /\ apc \in {"idle", "init", "join"} /\ wanted \in {"START", "STOP"}
  /\ init \in BOOLEAN /\ callbacks \in BOOLEAN
  /\ status \in {"NONE", "ENGINE_ON", "ENGINE_OFF", "SESSION_BEGIN", "SESSION_END"}

Data == ReaderTypes /\ DaemonTypes /\ ClockTypes /\ CallTypes

\* The day and the time of a second.
LEMMA DayAndTime ==
  ASSUME NEW t \in Nat
  PROVE  /\ Day(t) \in Nat /\ t % DayLength \in Nat
         /\ TimeOn(Day(t), t) = t
         /\ \A d \in Nat : TimeOn(d, t) \in Nat
<1>1. /\ Day(t) \in Nat /\ t % DayLength \in Nat
      /\ t = Day(t) * DayLength + (t % DayLength)
  BY DEF Day
<1> QED
  BY <1>1 DEF TimeOn

\* What a sentence makes of a reader.
LEMMA ParsedIs ==
  ASSUME NEW r \in Readers, NEW x \in Sentences, ReaderTypes, ClockTypes
  PROVE  LET p == Parsed(r, x)
             d == IF x.kind = "RMC" THEN Day(x.sent) ELSE UpdatedDay(r) IN
         /\ p \in Readers /\ p.odd = r.odd /\ p.overflow = r.overflow
         /\ p.dropped = r.dropped /\ p.day = d
         /\ p.fix.latlong = IF x.kind = "RMC" THEN x.sent ELSE r.fix.latlong
         /\ p.fix.alt = IF AltRead(x) = NULL THEN r.fix.alt ELSE AltRead(x)
         /\ p.fix.time = TimeOn(d, x.sent) /\ p.fix.odd = r.fix.odd
         /\ p.fix \in Fixes /\ AltRead(x) \in Times
<1> DEFINE d == IF x.kind = "RMC" THEN Day(x.sent) ELSE UpdatedDay(r)
           l == IF x.kind = "RMC" THEN x.sent ELSE r.fix.latlong
           a == IF AltRead(x) = NULL THEN r.fix.alt ELSE AltRead(x)
           m == TimeOn(d, x.sent)
           f == [[[r.fix EXCEPT !.latlong = l] EXCEPT !.alt = a] EXCEPT !.time = m]
           p == [[r EXCEPT !.day = d] EXCEPT !.fix = f]
<1>1. x.sent \in Nat /\ x.sent \in Seconds /\ clock \in Nat
  BY DEF Sentences, Seconds, ClockTypes
<1>2. /\ r.day \in Nat \cup {NULL} /\ r.overflow \in BOOLEAN /\ r.odd \in Nat /\ r.dropped \in Nat
      /\ r.fix \in Fixes
  BY DEF Readers
<1>3. d \in Nat
  BY <1>1, <1>2, DayAndTime DEF UpdatedDay
<1>4. m \in Int
  <2> HIDE DEF d
  <2>1. TimeOn(d, x.sent) \in Nat
    BY <1>1, <1>3, DayAndTime
  <2> QED BY <2>1
<1>5. AltRead(x) \in Times /\ l \in Times /\ a \in Times /\ r.fix.odd \in BOOLEAN
  BY <1>1, <1>2 DEF AltRead, Fixes, Times, ReaderTypes
<1>6. Parsed(r, x) = p
  <2>1. Parsed(r, x) = [r EXCEPT !.day = d, !.fix.latlong = l, !.fix.alt = a, !.fix.time = m]
    BY DEF Parsed, FixTime
  <2> HIDE DEF d, l, a, m
  <2>2. [r EXCEPT !.day = d, !.fix.latlong = l, !.fix.alt = a, !.fix.time = m] = p
    BY DEF Readers
  <2> QED BY <2>1, <2>2
<1> HIDE DEF d, l, a, m
<1>7. f \in Fixes /\ f.latlong = l /\ f.alt = a /\ f.time = m /\ f.odd = r.fix.odd
  BY <1>2, <1>4, <1>5 DEF Fixes, Times
<1> HIDE DEF f
<1>8. p \in Readers
  BY <1>2, <1>3, <1>7 DEF Readers
<1>9. /\ p.odd = r.odd /\ p.overflow = r.overflow /\ p.dropped = r.dropped /\ p.day = d
      /\ p.fix = f
  BY DEF Readers
<1> HIDE DEF p
<1>10. /\ Parsed(r, x) \in Readers /\ Parsed(r, x).odd = r.odd
       /\ Parsed(r, x).overflow = r.overflow /\ Parsed(r, x).dropped = r.dropped
       /\ Parsed(r, x).day = d
       /\ Parsed(r, x).fix.latlong = l /\ Parsed(r, x).fix.alt = a
       /\ Parsed(r, x).fix.time = m /\ Parsed(r, x).fix.odd = r.fix.odd
       /\ Parsed(r, x).fix \in Fixes /\ AltRead(x) \in Times
  BY <1>5, <1>6, <1>7, <1>8, <1>9
<1> QED
  BY <1>10 DEF d, l, a, m

LEMMA NewReaders == NoFix \in Fixes /\ NewReader \in Readers
<1>1. NoFix \in Fixes
  BY DEF NoFix, Fixes
<1> QED
  BY <1>1 DEF NewReader, Readers

\* What the thread does with a sentence.
LEMMA SentenceTypes ==
  ASSUME Data, NEW s \in Sessions, ReadSentence(s)
  PROVE  ReaderTypes' /\ stream' \in [Sessions -> Seq(Sentences)]
<1> DEFINE x == Head(stream[s])
           r == reader[s]
<1>0. /\ stream[s] \in Seq(Sentences) /\ stream[s] # <<>> /\ r \in Readers
      /\ reader \in [Sessions -> Readers] /\ ReaderTypes /\ ClockTypes
      /\ stream \in [Sessions -> Seq(Sentences)]
  BY DEF Data, ReaderTypes, DaemonTypes, ReadSentence
<1>1. x \in Sentences /\ Tail(stream[s]) \in Seq(Sentences)
  BY <1>0, FirstSentence
<1>2. stream' = [stream EXCEPT ![s] = Tail(stream[s])]
  BY DEF ReadSentence
<1>3. stream' \in [Sessions -> Seq(Sentences)]
  BY <1>0, <1>1, <1>2
<1>4. ReaderTypes'
  <2>1. CASE r.overflow \/ x.size # "fits"
    <3>1. UNCHANGED altToken /\ reported' = NULL
      BY <2>1 DEF ReadSentence, Silent
    <3>2. reader' = [reader EXCEPT ![s] =
                       [r EXCEPT !.overflow = Overflows(r, x),
                                 !.odd = IF x.size = "fits" THEN r.odd ELSE r.odd + 1,
                                 !.dropped = r.dropped + 1]]
      BY <1>0, <2>1 DEF ReadSentence, Readers
    <3>3. /\ Overflows(r, x) \in BOOLEAN /\ r.dropped + 1 \in Nat
          /\ (IF x.size = "fits" THEN r.odd ELSE r.odd + 1) \in Nat
      BY <1>0 DEF Overflows, Readers
    <3>4. reader' \in [Sessions -> Readers]
      <4> HIDE DEF x
      <4>1. [r EXCEPT !.overflow = Overflows(r, x),
                      !.odd = IF x.size = "fits" THEN r.odd ELSE r.odd + 1,
                      !.dropped = r.dropped + 1] \in Readers
        BY <1>0, <3>3 DEF Readers
      <4> QED BY <1>0, <3>2, <4>1
    <3> QED BY <1>0, <3>1, <3>4 DEF ReaderTypes
  <2>2. CASE ~r.overflow /\ x.size = "fits"
    <3> DEFINE p == Parsed(r, x)
    <3>1. p \in Readers /\ p.fix \in Fixes /\ AltRead(x) \in Times
      BY <1>0, <1>1, ParsedIs
    <3>2. /\ altToken' = AltRead(x)
          /\ \/ /\ reported' = [p.fix EXCEPT !.odd = r.odd > 0]
                /\ reader' = [reader EXCEPT ![s] = [p EXCEPT !.fix = NoFix]]
             \/ reported' = NULL /\ reader' = [reader EXCEPT ![s] = p]
      BY <2>2 DEF ReadSentence, Silent, Report
    <3> HIDE DEF p
    <3>3. [p EXCEPT !.fix = NoFix] \in Readers /\ [p.fix EXCEPT !.odd = r.odd > 0] \in Fixes
      <4>1. [p EXCEPT !.fix = NoFix] \in Readers
        BY <3>1, NewReaders DEF Readers
      <4>2. (r.odd > 0) \in BOOLEAN
        OBVIOUS
      <4>3. ASSUME NEW b \in BOOLEAN PROVE [p.fix EXCEPT !.odd = b] \in Fixes
        BY <3>1 DEF Fixes
      <4> QED BY <4>1, <4>2, <4>3
    <3> QED BY <1>0, <3>1, <3>2, <3>3 DEF ReaderTypes
  <2> QED BY <2>1, <2>2 DEF ReadSentence
<1> QED
  BY <1>3, <1>4

\* The other steps of a thread.
LEMMA ThreadData ==
  ASSUME Data, NEW s \in Sessions, Thread(s) PROVE Data'
<1>1. UNCHANGED <<apc, wanted, init, callbacks, dpc, client, backlog, rmc, closed, ended, denied,
                  cut, clock, faults>>
  BY DEF Thread, ThreadStarts, ReadCommand, ThreadReset, BeginRead, ReadSentence, EndRead,
         apiVars, daemonVars, connVars, worldVars
<1>2. ClockTypes'
  BY <1>1 DEF Data, ClockTypes
<1>3. CallTypes'
  <2>1. status' \in {status, "ENGINE_ON", "ENGINE_OFF", "SESSION_BEGIN", "SESSION_END"}
    BY DEF Thread, ThreadStarts, ReadCommand, ThreadReset, BeginRead, ReadSentence, EndRead,
           ReadStart, ReadStop, ReadQuit, gps_update_status
  <2> QED BY <1>1, <2>1 DEF Data, CallTypes
<1>4. CASE ReadSentence(s)
  BY <1>1, <1>2, <1>3, <1>4, SentenceTypes DEF Data, DaemonTypes
<1>5. CASE ~ReadSentence(s)
  <2>1. UNCHANGED stream /\ UNCHANGED altToken
    BY <1>5 DEF Thread, ThreadStarts, ReadCommand, ThreadReset, BeginRead, EndRead, connVars
  <2>2. DaemonTypes'
    BY <1>1, <2>1 DEF Data, DaemonTypes
  <2>3. CASE UNCHANGED reader /\ Silent
    BY <1>2, <1>3, <2>1, <2>2, <2>3 DEF Data, ReaderTypes, Silent
  <2>4. CASE EndThread(s)
    BY <1>2, <1>3, <2>1, <2>2, <2>4, NewReaders DEF Data, ReaderTypes, EndThread, Silent
  <2>5. CASE ReadStart(s)
    <3>1. CASE UNCHANGED reader /\ Silent
      BY <2>3, <3>1
    <3>2. CASE /\ reader' = [reader EXCEPT ![s].fix = NoFix]
               /\ Silent \/ Report(s, reader[s].fix)
      <4>1. reader \in [Sessions -> Readers] /\ reader[s] \in Readers /\ reader[s].fix \in Fixes
        BY DEF Data, ReaderTypes, Readers
      <4>2. reader' = [reader EXCEPT ![s] = [reader[s] EXCEPT !.fix = NoFix]]
        BY <3>2, <4>1
      <4>3. [reader[s] EXCEPT !.fix = NoFix] \in Readers
        BY <4>1, NewReaders DEF Readers
      <4>4. reported' \in Fixes \cup {NULL}
        <5>1. (reader[s].odd > 0) \in BOOLEAN
          OBVIOUS
        <5>2. ASSUME NEW b \in BOOLEAN PROVE [reader[s].fix EXCEPT !.odd = b] \in Fixes
          BY <4>1 DEF Fixes
        <5> QED BY <3>2, <5>1, <5>2 DEF Silent, Report
      <4> QED BY <1>2, <1>3, <2>1, <2>2, <4>1, <4>2, <4>3, <4>4 DEF Data, ReaderTypes
    <3> QED BY <2>5, <3>1, <3>2 DEF ReadStart
  <2> QED
    BY <1>5, <2>3, <2>4, <2>5 DEF Thread, ThreadStarts, ReadCommand, ThreadReset, BeginRead,
       EndRead, ReadStop, ReadQuit
<1> QED
  BY <1>4, <1>5

LEMMA DataNext == GpsInv /\ Data /\ [Next]_vars => Data'
<1> SUFFICES ASSUME GpsInv, Data, [Next]_vars PROVE Data'
  OBVIOUS
<1>0. fd \in Sessions \cup {NULL} /\ (apc # "idle" => fd # NULL)
  BY DEF GpsInv, Types, ApiInv
<1>1. CASE Framework \/ gps_init_end \/ gps_state_done
  <2>1. UNCHANGED <<reader, altToken, reported, status, dpc, client, rmc, denied, clock>>
    BY <1>1 DEF Framework, gps_init, gps_start, gps_stop, Command, gps_cleanup, gps_init_end,
       gps_state_done, threadVars, daemonVars, connVars, worldVars
  <2>2. ReaderTypes'
    BY <2>1 DEF Data, ReaderTypes
  <2>3. CallTypes'
    BY <1>1, <2>1 DEF Data, CallTypes, Framework, gps_init, gps_start, gps_stop, Command,
       gps_cleanup, gps_init_end, gps_state_done
  <2>4. ClockTypes'
    BY <1>1, <2>1 DEF Data, ClockTypes, Framework, gps_init, gps_start, gps_stop, Command,
       gps_cleanup, gps_init_end, gps_state_done, worldVars, Fault
  <2>5. DaemonTypes'
    <3>1. CASE gps_init
      <4>1. UNCHANGED <<stream, ended, cut>>
        BY <3>1 DEF gps_init
      <4>2. CASE UNCHANGED <<backlog, closed>>
        BY <2>1, <4>1, <4>2 DEF Data, DaemonTypes
      <4>3. ASSUME NEW s \in Sessions, backlog' = Append(backlog, s),
                   closed' \in {closed, closed \cup {s}}
            PROVE  DaemonTypes'
        BY <2>1, <4>1, <4>3 DEF Data, DaemonTypes
      <4> QED BY <3>1, <4>2, <4>3 DEF gps_init
    <3>2. CASE gps_state_done
      BY <1>0, <2>1, <3>2 DEF Data, DaemonTypes, gps_state_done, CloseConnection, daemonVars
    <3>3. CASE UNCHANGED <<backlog, connVars>>
      BY <2>1, <3>3 DEF Data, DaemonTypes, connVars
    <3> QED
      BY <1>1, <3>1, <3>2, <3>3 DEF Framework, gps_start, gps_stop, Command, gps_cleanup,
         gps_init_end, daemonVars
  <2> QED BY <2>2, <2>3, <2>4, <2>5 DEF Data
<1>2. CASE Daemon \/ DaemonEnds \/ SecondPasses \/ UNCHANGED vars
  <2>1. UNCHANGED <<reader, altToken, reported, status, apc, wanted, init, callbacks>>
    BY <1>2 DEF Daemon, Accept, SendGGA, SendRMC, DaemonStarts, DaemonEnds, SecondPasses,
       vars, threadVars, apiVars
  <2>2. ReaderTypes' /\ CallTypes'
    BY <2>1 DEF Data, ReaderTypes, CallTypes
  <2>3. ClockTypes'
    <3>1. /\ UNCHANGED clock \/ (clock < MaxClock /\ clock' = clock + 1)
          /\ UNCHANGED faults \/ Fault
      BY <1>2 DEF Daemon, Accept, SendGGA, SendRMC, DaemonStarts, DaemonEnds, SecondPasses,
         vars, worldVars, OddSize
    <3> QED BY <3>1 DEF Data, ClockTypes, Fault, Seconds
  <2>4. DaemonTypes'
    <3>1. CASE Accept
      <4>1. Head(backlog) \in Sessions /\ Tail(backlog) \in Seq(Sessions)
        BY <3>1, HeadTailProperties, EmptySeq DEF Accept, Data, DaemonTypes
      <4> QED BY <3>1, <4>1 DEF Accept, Data, DaemonTypes, connVars
    <3>2. CASE SendGGA \/ SendRMC
      <4>0. clock \in Seconds /\ (dpc = "rmc" => rmc \in Seconds) /\ clock # NULL
        BY DEF Data, ClockTypes, DaemonTypes, Times, Seconds
      <4>1. /\ dpc' \in {"accept", "sleep", "rmc"} /\ UNCHANGED <<backlog, closed, ended, cut>>
            /\ client' \in {client, NULL} /\ rmc' \in {clock, NULL} /\ (dpc' = "rmc" => rmc' = clock)
            /\ UNCHANGED <<stream, denied>> \/ \E x \in Sentences : Sends(x)
        <5>1. CASE SendGGA
          BY <4>0, <5>1 DEF SendGGA, CloseClient, Sentences
        <5>2. CASE SendRMC
          BY <4>0, <5>2 DEF SendRMC, CloseClient, Sentences
        <5> QED BY <3>2, <5>1, <5>2
      <4>2. stream' \in [Sessions -> Seq(Sentences)] /\ denied' \subseteq Sessions
        <5>1. CASE UNCHANGED <<stream, denied>>
          BY <5>1 DEF Data, DaemonTypes
        <5>2. ASSUME NEW x \in Sentences, Sends(x)
              PROVE  stream' \in [Sessions -> Seq(Sentences)] /\ denied' \subseteq Sessions
          <6>0. /\ stream \in [Sessions -> Seq(Sentences)] /\ denied \subseteq Sessions
                /\ closed \subseteq Sessions
            BY DEF Data, DaemonTypes
          <6>1. CASE client \in closed
            BY <5>2, <6>0, <6>1 DEF Sends
          <6>2. CASE client \notin closed
            <7>1. stream' = [stream EXCEPT ![client] = Append(stream[client], x)] /\ UNCHANGED denied
              BY <5>2, <6>2 DEF Sends
            <7>2. client \in Sessions => Append(stream[client], x) \in Seq(Sentences)
              BY <5>2, <6>0
            <7> QED BY <6>0, <7>1, <7>2
          <6> QED BY <6>1, <6>2
        <5> QED BY <4>1, <5>1, <5>2
      <4> QED BY <4>0, <4>1, <4>2 DEF Data, DaemonTypes, Times
    <3>3. CASE DaemonEnds
      <4>1. {backlog[i] : i \in 1..Len(backlog)} \subseteq Sessions
        BY DEF Data, DaemonTypes
      <4>2. <<>> \in Seq(Sessions)
        OBVIOUS
      <4> QED BY <3>3, <4>1, <4>2 DEF DaemonEnds, Data, DaemonTypes, Times
    <3>4. CASE DaemonStarts \/ SecondPasses \/ UNCHANGED vars
      BY <3>4 DEF Data, DaemonTypes, DaemonStarts, SecondPasses, vars, daemonVars, connVars
    <3> QED BY <1>2, <3>1, <3>2, <3>3, <3>4 DEF Daemon
  <2> QED BY <2>2, <2>3, <2>4 DEF Data
<1> QED
  BY <1>1, <1>2, ThreadData DEF Next

LEMMA DataInit == Init => Data
<1> SUFFICES ASSUME Init PROVE Data
  OBVIOUS
<1>1. ReaderTypes
  BY NewReaders DEF Init, ReaderTypes, Times
<1>2. DaemonTypes
  BY DEF Init, DaemonTypes, Times
<1>3. ClockTypes
  BY DEF Init, ClockTypes, Seconds
<1>4. CallTypes
  BY Zenon DEF Init, CallTypes
<1> QED
  BY <1>1, <1>2, <1>3, <1>4 DEF Data

\* Every variable of the HAL, of its threads and of the daemon keeps its type.
THEOREM TypeCorrect == Spec => []TypeOK
<1>1. GpsInv /\ Data => TypeOK
  <2> SUFFICES ASSUME Types, ReaderTypes, DaemonTypes, ClockTypes, CallTypes PROVE TypeOK
    BY DEF GpsInv, Data
  <2>1. /\ fd \in Sessions \cup {NULL} /\ control \in Seq({"START", "STOP", "QUIT"})
        /\ tpc \in [Sessions -> {"none", "start", "wait", "read", "spin", "ended"}]
        /\ started \in [Sessions -> BOOLEAN]
    BY Zenon DEF Types, Points, Commands
  <2>2. /\ reader \in [Sessions -> [overflow : BOOLEAN, day : Nat \cup {NULL}, fix : Fixes,
                                    odd : Nat, dropped : Nat]]
        /\ altToken \in Seconds \cup {NULL} /\ reported \in Fixes \cup {NULL}
    BY Zenon DEF ReaderTypes, Readers, Times
  <2>3. rmc \in Seconds \cup {NULL}
    BY Zenon DEF DaemonTypes, Times
  <2> QED
    BY <2>1, <2>2, <2>3, Zenon DEF DaemonTypes, ClockTypes, CallTypes, TypeOK
<1> QED
  BY <1>1, DataInit, DataNext, SessionCorrect, PTL DEF Spec

-----------------------------------------------------------------------------
(* A fix is of one second.                                                  *)

\* A position that was reported or forgotten binds the sentences no more.
LEMMA ChainForgets ==
  ASSUME NEW q, NEW a, NEW l
  PROVE  /\ Chain(q, a, l) => Chain(q, a, NULL)
         /\ \A t : Pending(q, a, l, t) => Pending(q, a, NULL, t)
BY DEF Chain, Pending

\* A step that leaves alone what a session was told.
LEMMA SameTold ==
  ASSUME Data, Data', NEW s \in Sessions, Told(s), clock <= clock',
         reader'[s] = reader[s], stream'[s] = stream[s], UNCHANGED altToken,
         client' = s /\ dpc' = "rmc" => client = s /\ dpc = "rmc" /\ UNCHANGED rmc
  PROVE  Told(s)'
<1> DEFINE l == reader[s].fix.latlong
           q == stream[s]
<1>1. clock \in Nat /\ clock' \in Nat /\ l \in Nat \cup {NULL} /\ q \in Seq(Sentences)
  BY DEF Data, ClockTypes, ReaderTypes, Readers, Fixes, Seconds, DaemonTypes
<1>2. \A i \in 1..Len(q) : q[i].sent \in Nat
  <2>1. \A i \in 1..Len(q) : q[i] \in Sentences
    BY <1>1
  <2> QED BY <2>1 DEF Sentences, Seconds
<1>3. /\ Whole(reader[s].fix) /\ Chain(q, altToken, l)
      /\ l # NULL => l <= clock /\ reader[s].day = Day(l)
      /\ \A i \in 1..Len(q) : q[i].sent <= clock
      /\ client = s /\ dpc = "rmc" => Pending(q, altToken, l, rmc)
  BY DEF Told
<1>4. /\ Whole(reader'[s].fix) /\ Chain(stream'[s], altToken', reader'[s].fix.latlong)
      /\ reader'[s].day = reader[s].day /\ reader'[s].fix.latlong = l /\ stream'[s] = q
  BY <1>3
<1> HIDE DEF l, q
<1>5. l # NULL => l <= clock' /\ reader[s].day = Day(l)
  BY <1>1, <1>3
<1>6. \A i \in 1..Len(q) : q[i].sent <= clock'
  BY <1>1, <1>2, <1>3
<1>7. client' = s /\ dpc' = "rmc" => Pending(q, altToken', l, rmc')
  BY <1>3
<1>8. /\ Whole(reader'[s].fix) /\ Chain(stream'[s], altToken', reader'[s].fix.latlong)
      /\ reader'[s].fix.latlong # NULL =>
           reader'[s].fix.latlong <= clock' /\ reader'[s].day = Day(reader'[s].fix.latlong)
      /\ \A i \in 1..Len(stream'[s]) : stream'[s][i].sent <= clock'
      /\ client' = s /\ dpc' = "rmc" =>
           Pending(stream'[s], altToken', reader'[s].fix.latlong, rmc')
  BY <1>4, <1>5, <1>6, <1>7
<1> QED
  BY <1>8 DEF Told, Whole, Chain, Pending, Day

\* What a session is told that reads a sentence.
LEMMA ToldNext ==
  ASSUME Data, NEW s \in Sessions, Told(s), stream[s] # <<>>
  PROVE  LET x == Head(stream[s])
             p == Parsed(reader[s], x)
             l == p.fix.latlong
         IN /\ Whole(p.fix) /\ (l # NULL => l <= clock /\ p.day = Day(l))
            /\ \A m \in {NULL, l} :
                 /\ Chain(Tail(stream[s]), AltRead(x), m)
                 /\ client = s /\ dpc = "rmc" => Pending(Tail(stream[s]), AltRead(x), m, rmc)
            /\ \A i \in 1..Len(Tail(stream[s])) : Tail(stream[s])[i].sent <= clock
<1> DEFINE q == stream[s]
           x == Head(q)
           r == reader[s]
           p == Parsed(r, x)
           l == r.fix.latlong
           d == IF x.kind = "RMC" THEN Day(x.sent) ELSE UpdatedDay(r)
<1>0. /\ q \in Seq(Sentences) /\ q # <<>> /\ r \in Readers /\ ReaderTypes /\ ClockTypes
      /\ altToken \in Times /\ l \in Times /\ clock \in Nat
  BY DEF Data, ReaderTypes, DaemonTypes, ClockTypes, Readers, Fixes, Times, Seconds
<1>1. /\ x = q[1] /\ x \in Sentences /\ Len(q) \in Nat /\ 1 \in 1..Len(q)
      /\ \A i \in 1..Len(Tail(q)) : i + 1 \in 1..Len(q) /\ Tail(q)[i] = q[i + 1]
  BY <1>0, FirstSentence
<1>2. x.sent \in Nat /\ x.sent \in Seconds /\ x.kind \in {"GGA", "RMC"} /\ x.sent # NULL
  BY <1>1 DEF Sentences, Seconds
<1>3. /\ p.day = d /\ p.fix.latlong = IF x.kind = "RMC" THEN x.sent ELSE l
      /\ p.fix.alt = IF AltRead(x) = NULL THEN r.fix.alt ELSE AltRead(x)
      /\ p.fix.time = TimeOn(d, x.sent)
  BY <1>0, <1>1, ParsedIs
<1>4. AltRead(x) = IF x.kind = "GGA" THEN x.sent ELSE altToken
  BY DEF AltRead
<1>5. /\ Chain(q, altToken, l) /\ (l # NULL => l <= clock /\ r.day = Day(l))
      /\ \A i \in 1..Len(q) : q[i].sent <= clock
      /\ client = s /\ dpc = "rmc" => Pending(q, altToken, l, rmc)
  BY DEF Told
<1> HIDE DEF q, x, r, p, l
<1>6. /\ \A m \in {NULL, p.fix.latlong} : Chain(Tail(q), AltRead(x), m)
      /\ x.kind = "RMC" => altToken = x.sent
      /\ l # NULL => l <= x.sent
  BY <1>0, <1>3, <1>4, <1>5, ChainRead DEF x
<1>7. client = s /\ dpc = "rmc" =>
        \A m \in {NULL, p.fix.latlong} : Pending(Tail(q), AltRead(x), m, rmc)
  <2>1. dpc = "rmc" => rmc \in Seconds
    BY DEF Data, DaemonTypes, Times
  <2> QED BY <1>0, <1>3, <1>4, <1>5, <2>1, PendingRead DEF x
<1>8. \A i \in 1..Len(Tail(q)) : Tail(q)[i].sent <= clock
  BY <1>1, <1>5
<1>9. CASE x.kind = "RMC"
  <2>1. /\ p.fix.latlong = x.sent /\ p.fix.alt = x.sent /\ p.day = Day(x.sent)
        /\ p.fix.time = TimeOn(Day(x.sent), x.sent)
    BY <1>2, <1>3, <1>4, <1>6, <1>9
  <2>2. p.fix.time = x.sent
    BY <1>2, <2>1, DayAndTime
  <2>3. x.sent <= clock
    BY <1>1, <1>5
  <2>4. Whole(p.fix) /\ p.fix.latlong <= clock /\ p.day = Day(p.fix.latlong)
    BY <1>2, <2>1, <2>2, <2>3 DEF Whole
  <2> QED BY <1>6, <1>7, <1>8, <2>4 DEF q, x, r, p
<1>10. CASE x.kind = "GGA"
  <2>1. /\ p.fix.latlong = l /\ p.fix.alt = x.sent /\ p.day = UpdatedDay(r)
        /\ p.fix.time = TimeOn(UpdatedDay(r), x.sent)
    BY <1>2, <1>3, <1>4, <1>10
  <2>2. ASSUME l # NULL
        PROVE  /\ Whole(p.fix) /\ l <= clock /\ p.day = Day(l)
    <3>1. l \in Nat /\ Day(l) \in Nat /\ TimeOn(Day(l), l) = l /\ r.day = Day(l)
      BY <1>0, <1>5, <2>2, DayAndTime DEF Times, Seconds
    <3>2. UpdatedDay(r) = Day(l)
      BY <3>1 DEF UpdatedDay
    <3>3. p.fix.alt >= p.fix.latlong
      BY <1>2, <1>6, <2>1, <2>2, <3>1
    <3>4. p.fix.alt = p.fix.latlong => p.fix.time = p.fix.latlong
      BY <2>1, <3>1, <3>2
    <3> QED BY <1>2, <1>5, <2>1, <2>2, <3>2, <3>3, <3>4 DEF Whole
  <2>3. Whole(p.fix) /\ (p.fix.latlong # NULL => p.fix.latlong <= clock /\ p.day = Day(p.fix.latlong))
    BY <2>1, <2>2 DEF Whole
  <2> QED BY <1>6, <1>7, <1>8, <2>3 DEF q, x, r, p
<1> QED
  BY <1>2, <1>9, <1>10

\* The steps that leave what the session reads alone, and make no new one.
LEMMA FixFramed ==
  ASSUME Data, Data', FixInv, UNCHANGED <<reader, altToken>>, clock <= clock',
         \A s \in Sessions : tpc'[s] = "none" => tpc[s] = "none",
         \A s \in Sessions : Alive(s)' => Alive(s) /\ stream'[s] = stream[s],
         closed \subseteq closed',
         \A s \in Sessions : tpc[s] = "none" /\ stream[s] = <<>> => stream'[s] = <<>>,
         client' \in {client, NULL}, NULL \notin Sessions,
         UNCHANGED backlog \/ backlog' = <<>>,
         dpc' = "rmc" => dpc = "rmc" /\ UNCHANGED rmc
  PROVE  FixInv'
<1>1. ASSUME NEW s \in Sessions, tpc'[s] = "none", s \notin closed' PROVE Fresh(s)'
  <2>1. Fresh(s) /\ tpc[s] = "none"
    BY <1>1 DEF FixInv
  <2>2. \A i \in 1..Len(backlog') : backlog'[i] # s
    BY <2>1 DEF Fresh
  <2>3. stream'[s] = <<>> /\ client' # s /\ reader'[s] = NewReader
    BY <2>1 DEF Fresh
  <2> QED BY <2>2, <2>3 DEF Fresh, NewReader, NoFix
<1>2. dpc' = "rmc" => rmc' # NULL /\ rmc' <= clock'
  <2>1. clock \in Nat /\ clock' \in Nat /\ rmc \in Nat \cup {NULL}
    BY DEF Data, ClockTypes, DaemonTypes, Times, Seconds
  <2> QED BY <2>1 DEF FixInv
<1>3. ASSUME NEW s \in Sessions, Alive(s)', reader'[s].odd = 0 PROVE Told(s)'
  <2>1. Told(s)
    BY <1>3 DEF FixInv
  <2>2. client' = s /\ dpc' = "rmc" => client = s /\ dpc = "rmc" /\ UNCHANGED rmc
    OBVIOUS
  <2> QED BY <1>3, <2>1, <2>2, SameTold
<1> QED
  BY <1>1, <1>2, <1>3 DEF FixInv, Alive

\* gps_init makes a session of a number that nobody has.
LEMMA FixInit ==
  ASSUME GpsInv, Data, Data', FixInv, gps_init PROVE FixInv'
<1>0. /\ UNCHANGED <<reader, altToken, dpc, client, rmc, stream, clock>> /\ NULL \notin Sessions
      /\ backlog \in Seq(Sessions) /\ tpc \in [Sessions -> Points] /\ clock \in Nat
  BY DEF gps_init, GpsInv, Types, Data, DaemonTypes, ClockTypes, Sessions, Seconds
<1>1. CASE UNCHANGED <<tpc, backlog, closed>>
  BY <1>0, <1>1, FixFramed DEF Alive
<1>2. ASSUME NEW n \in Sessions, Connects(n), backlog' = Append(backlog, n),
             \/ tpc' = [tpc EXCEPT ![n] = "start"] /\ UNCHANGED closed
             \/ UNCHANGED tpc /\ closed' = closed \cup {n}
      PROVE  FixInv'
  <2>1. tpc[n] = "none" /\ Fresh(n)
    BY <1>2 DEF Connects, Unused, FixInv
  <2>2. \A i \in 1..Len(backlog') : backlog'[i] = n \/ \E j \in 1..Len(backlog) : backlog'[i] = backlog[j]
    <3>1. /\ Len(backlog) \in Nat /\ Len(backlog') = Len(backlog) + 1
          /\ backlog'[Len(backlog) + 1] = n
          /\ \A i \in 1..Len(backlog) : backlog'[i] = backlog[i]
      BY <1>0, <1>2, AppendProperties, LenProperties
    <3>2. \A i \in 1..Len(backlog') : i \in 1..Len(backlog) \/ i = Len(backlog) + 1
      BY <3>1
    <3> QED BY <3>1, <3>2
  <2>3. ASSUME NEW s \in Sessions, tpc'[s] = "none", s \notin closed' PROVE Fresh(s)'
    <3>1. s # n /\ tpc[s] = "none" /\ s \notin closed
      BY <1>0, <1>2, <2>3
    <3>2. Fresh(s)
      BY <3>1 DEF FixInv
    <3>3. \A i \in 1..Len(backlog') : backlog'[i] # s
      BY <2>2, <3>1, <3>2 DEF Fresh
    <3> QED BY <1>0, <3>2, <3>3 DEF Fresh, NewReader, NoFix
  <2>4. ASSUME NEW s \in Sessions, Alive(s)', reader'[s].odd = 0 PROVE Told(s)'
    <3>1. CASE s = n
      <4>1. /\ reader'[s] = NewReader /\ reader'[s].fix.latlong = NULL /\ stream'[s] = <<>>
            /\ client' # s
        BY <1>0, <2>1, <3>1 DEF Fresh, NewReader, NoFix
      <4>2. \A i \in 1..Len(stream'[s]) : FALSE
        BY <4>1
      <4> QED BY <4>1, <4>2 DEF Told, Whole, Chain
    <3>2. CASE s # n
      <4>1. Alive(s)
        BY <1>0, <1>2, <2>4, <3>2 DEF Alive
      <4>2. Told(s)
        BY <1>0, <2>4, <4>1 DEF FixInv
      <4> QED BY <1>0, <4>2, SameTold
    <3> QED BY <3>1, <3>2
  <2>5. dpc' = "rmc" => rmc' # NULL /\ rmc' <= clock'
    BY <1>0 DEF FixInv
  <2> QED BY <2>3, <2>4, <2>5 DEF FixInv, Alive
<1> QED
  BY <1>1, <1>2 DEF gps_init

\* The daemon's steps.
LEMMA FixDaemon ==
  ASSUME GpsInv, Data, Data', FixInv, Daemon \/ DaemonEnds \/ SecondPasses PROVE FixInv'
<1>0. /\ UNCHANGED <<reader, altToken, tpc, closed>> /\ NULL \notin Sessions
      /\ backlog \in Seq(Sessions) /\ clock \in Nat
      /\ \A s \in Sessions : Alive(s)' <=> Alive(s)
  <2>1. UNCHANGED <<reader, altToken, tpc, closed>>
    BY DEF Daemon, Accept, SendGGA, SendRMC, DaemonStarts, DaemonEnds, SecondPasses,
       threadVars, connVars
  <2>2. NULL \notin Sessions /\ backlog \in Seq(Sessions) /\ clock \in Nat
    BY DEF Data, DaemonTypes, ClockTypes, Sessions, Seconds
  <2> QED BY <2>1, <2>2 DEF Alive
<1>1. CASE DaemonStarts \/ DaemonEnds \/ SecondPasses
  <2>1. /\ UNCHANGED stream /\ clock <= clock' /\ client' \in {client, NULL}
        /\ UNCHANGED backlog \/ backlog' = <<>>
        /\ dpc' = "rmc" => dpc = "rmc" /\ UNCHANGED rmc
    BY <1>0, <1>1 DEF DaemonStarts, DaemonEnds, SecondPasses, daemonVars, connVars, worldVars
  <2> QED BY <1>0, <2>1, FixFramed
<1>2. CASE Accept
  <2>1. /\ UNCHANGED <<stream, clock>> /\ client' = Head(backlog) /\ backlog' = Tail(backlog)
        /\ dpc' = "sleep" /\ backlog # <<>>
    BY <1>2 DEF Accept, connVars, worldVars
  <2>2. /\ Head(backlog) = backlog[1] /\ 1 \in 1..Len(backlog)
        /\ \A i \in 1..Len(backlog') : backlog'[i] = backlog[i + 1] /\ i + 1 \in 1..Len(backlog)
    <3>1. Len(backlog) \in Nat /\ Len(backlog) > 0
      BY <1>0, <2>1, EmptySeq, LenProperties
    <3>2. /\ Head(backlog) = backlog[1] /\ Len(backlog') = Len(backlog) - 1
          /\ \A i \in 1..Len(backlog') : backlog'[i] = backlog[i + 1]
      BY <1>0, <2>1, HeadTailProperties
    <3> QED BY <3>1, <3>2
  <2>3. ASSUME NEW s \in Sessions, tpc'[s] = "none", s \notin closed' PROVE Fresh(s)'
    <3>1. Fresh(s)
      BY <1>0, <2>3 DEF FixInv
    <3>2. client' # s /\ \A i \in 1..Len(backlog') : backlog'[i] # s
      BY <2>1, <2>2, <3>1 DEF Fresh
    <3> QED BY <1>0, <2>1, <3>1, <3>2 DEF Fresh, NewReader, NoFix
  <2>4. ASSUME NEW s \in Sessions, Alive(s)', reader'[s].odd = 0 PROVE Told(s)'
    <3>1. Told(s)
      BY <1>0, <2>4 DEF FixInv
    <3> QED BY <1>0, <2>1, <3>1, SameTold
  <2> QED BY <2>1, <2>3, <2>4 DEF FixInv, Alive
<1>3. CASE SendGGA \/ SendRMC
  <2>1. UNCHANGED <<backlog, clock>> /\ client' \in {client, NULL}
    BY <1>3 DEF SendGGA, SendRMC, CloseClient
  <2>2. \A s \in Sessions : s # client => stream'[s] = stream[s]
    BY <1>3 DEF SendGGA, SendRMC, Sends, Data, DaemonTypes
  <2>3. ASSUME NEW s \in Sessions, tpc'[s] = "none", s \notin closed' PROVE Fresh(s)'
    <3>1. Fresh(s)
      BY <1>0, <2>3 DEF FixInv
    <3> QED BY <1>0, <2>1, <2>2, <3>1 DEF Fresh, NewReader, NoFix
  <2>4. dpc' = "rmc" => rmc' = clock
    BY <1>3 DEF SendGGA, SendRMC, CloseClient
  <2>5. dpc' = "rmc" => rmc' # NULL /\ rmc' <= clock'
    BY <1>0, <2>1, <2>4
  <2>6. ASSUME NEW s \in Sessions, Alive(s)', reader'[s].odd = 0 PROVE Told(s)'
    <3>1. Told(s) /\ s \notin closed
      BY <1>0, <2>6 DEF FixInv, GpsInv, ThreadOwnsState
    <3>2. CASE s # client
      <4>1. stream'[s] = stream[s] /\ client' # s
        BY <1>0, <2>1, <2>2, <3>2
      <4> QED BY <1>0, <2>1, <3>1, <4>1, SameTold
    <3>3. CASE s = client
      <4> DEFINE q == stream[s]
                 l == reader[s].fix.latlong
      <4>0. /\ q \in Seq(Sentences) /\ l \in Times /\ clock \in Seconds
            /\ stream \in [Sessions -> Seq(Sentences)]
        BY DEF Data, ReaderTypes, DaemonTypes, ClockTypes, Readers, Fixes, Times
      <4>1. /\ Whole(reader[s].fix) /\ Chain(q, altToken, l)
            /\ l # NULL => l <= clock /\ reader[s].day = Day(l)
            /\ \A i \in 1..Len(q) : q[i].sent <= clock
            /\ client = s /\ dpc = "rmc" => Pending(q, altToken, l, rmc)
        BY <3>1 DEF Told
      <4>2. CASE SendGGA
        <5>1. PICK z \in Sizes :
                /\ stream' = [stream EXCEPT ![s] = Append(q, [kind |-> "GGA", sent |-> clock, size |-> z])]
                /\ rmc' = clock
          BY <3>1, <3>3, <4>2 DEF SendGGA, SendFails, Sends
        <5>2. stream'[s] = Append(q, [kind |-> "GGA", sent |-> clock, size |-> z])
          BY <4>0, <5>1
        <5> HIDE DEF q, l
        <5>3. /\ Chain(stream'[s], altToken, l) /\ Pending(stream'[s], altToken, l, clock)
              /\ \A i \in 1..Len(stream'[s]) : stream'[s][i].sent <= clock
          <6> DEFINE p == Append(q, [kind |-> "GGA", sent |-> clock, size |-> z])
          <6>1. /\ Chain(q, altToken, l) /\ (l # NULL => l <= clock)
                /\ \A i \in 1..Len(q) : q[i].sent <= clock
            BY <4>1
          <6>2. /\ Chain(p, altToken, l) /\ Pending(p, altToken, l, clock)
                /\ \A i \in 1..Len(p) : p[i].sent <= clock
            BY <4>0, <6>1, ChainBegins
          <6>3. stream'[s] = p BY <5>2
          <6> HIDE DEF p
          <6> QED BY <6>2, <6>3
        <5>4. reader'[s] = reader[s] /\ altToken' = altToken /\ rmc' = clock /\ clock' = clock
          BY <1>0, <2>1, <5>1
        <5> QED BY <4>1, <5>3, <5>4 DEF Told, l, Whole, Chain, Pending, Day
      <4>3. CASE SendRMC
        <5>0. dpc = "rmc" /\ rmc \in Seconds /\ rmc <= clock /\ dpc' # "rmc"
          BY <4>3 DEF SendRMC, FixInv, Data, DaemonTypes, Times, CloseClient
        <5>1. PICK z \in Sizes :
                stream' = [stream EXCEPT ![s] = Append(q, [kind |-> "RMC", sent |-> rmc, size |-> z])]
          BY <3>1, <3>3, <4>3 DEF SendRMC, SendFails, Sends
        <5> DEFINE p == Append(q, [kind |-> "RMC", sent |-> rmc, size |-> z])
        <5>2. stream'[s] = p
          BY <4>0, <5>1
        <5> HIDE DEF q, l
        <5>3. Chain(p, altToken, l) /\ \A i \in 1..Len(p) : p[i].sent <= rmc
          BY <3>3, <4>0, <4>1, <5>0, ChainEnds
        <5>4. p \in Seq(Sentences)
          BY <4>0, <5>0 DEF Sentences
        <5>5. \A i \in 1..Len(p) : p[i].sent <= clock
          <6> HIDE DEF p
          <6>1. \A i \in 1..Len(p) : p[i] \in Sentences
            BY <5>4
          <6> QED BY <4>0, <5>0, <5>3, <6>1 DEF Sentences, Seconds
        <5>6. reader'[s] = reader[s] /\ altToken' = altToken /\ clock' = clock
          BY <1>0, <2>1
        <5> HIDE DEF p
        <5> QED BY <4>1, <5>0, <5>2, <5>3, <5>5, <5>6 DEF Told, l, Whole, Chain, Day
      <4> QED BY <1>3, <4>2, <4>3
    <3> QED BY <3>2, <3>3
  <2> QED BY <2>3, <2>5, <2>6 DEF FixInv, Alive
<1> QED
  BY <1>1, <1>2, <1>3 DEF Daemon

\* What a step of the only thread that runs may change.
LEMMA FixOfThread ==
  ASSUME GpsInv, Data, Data', FixInv, NEW s \in Sessions, Alive(s),
         UNCHANGED <<dpc, client, backlog, rmc, clock, closed>>,
         tpc'[s] # "none",
         \A r \in Sessions \ {s} : /\ tpc'[r] = tpc[r] /\ reader'[r] = reader[r]
                                   /\ stream'[r] = stream[r],
         Alive(s)' /\ reader'[s].odd = 0 => Told(s)'
  PROVE  FixInv'
<1>1. ASSUME NEW r \in Sessions, tpc'[r] = "none", r \notin closed' PROVE Fresh(r)'
  <2>1. r # s /\ Fresh(r)
    BY <1>1 DEF FixInv
  <2> QED BY <2>1 DEF Fresh, NewReader, NoFix
<1>2. \A r \in Sessions : Alive(r)' => r = s
  BY DEF GpsInv, ThreadOwnsState, Alive
<1> QED
  BY <1>1, <1>2 DEF FixInv, Alive

\* A report of what the session was told.
LEMMA ReportWhole ==
  ASSUME NEW fix \in Fixes, NEW s \in Sessions, Data, Report(s, fix),
         reader[s].odd = 0 => Whole(fix)
  PROVE  FixOfOneSecond'
<1>1. reader[s].odd \in Nat
  BY DEF Data, ReaderTypes, Readers
<1>2. reported' = [fix EXCEPT !.odd = reader[s].odd > 0]
  BY DEF Report
<1>3. /\ reported'.latlong = fix.latlong /\ reported'.alt = fix.alt
      /\ reported'.time = fix.time /\ reported'.odd = (reader[s].odd > 0)
  BY <1>2 DEF Fixes
<1>4. ASSUME ~reported'.odd, reported'.latlong # NULL
      PROVE  /\ reported'.alt >= reported'.latlong
             /\ reported'.alt = reported'.latlong => reported'.time = reported'.latlong
  <2>0. ~(reader[s].odd > 0)
    BY <1>3, <1>4, Zenon
  <2>1. reader[s].odd = 0
    BY <1>1, <2>0
  <2> QED BY <1>3, <1>4, <2>1 DEF Whole
<1> QED
  BY <1>4 DEF FixOfOneSecond

LEMMA NotReported == ASSUME Silent PROVE FixOfOneSecond'
BY DEF Silent, FixOfOneSecond

\* A sentence is read.
LEMMA FixSentence ==
  ASSUME GpsInv, Data, Data', DropInv, FixInv, NEW s \in Sessions, ReadSentence(s)
  PROVE  FixInv' /\ FixOfOneSecond'
<1> DEFINE q == stream[s]
           x == Head(q)
           r == reader[s]
           p == Parsed(r, x)
<1>0. /\ reader \in [Sessions -> Readers] /\ stream \in [Sessions -> Seq(Sentences)]
      /\ r \in Readers /\ r.odd \in Nat /\ q \in Seq(Sentences) /\ q # <<>>
      /\ ReaderTypes /\ ClockTypes /\ tpc[s] = "read"
  BY DEF Data, ReaderTypes, DaemonTypes, Readers, ReadSentence
<1>1. /\ UNCHANGED <<tpc, dpc, client, backlog, rmc, clock, closed>> /\ Alive(s)
      /\ stream' = [stream EXCEPT ![s] = Tail(q)]
  BY DEF ReadSentence, daemonVars, worldVars, Alive
<1>2. stream'[s] = Tail(q) /\ \A k \in Sessions \ {s} : stream'[k] = stream[k]
  BY <1>0, <1>1
<1>3. x \in Sentences
  BY <1>0, FirstSentence
<1>4. CASE r.overflow \/ x.size # "fits"
  <2>1. /\ reader'[s].odd = IF x.size = "fits" THEN r.odd ELSE r.odd + 1
        /\ \A k \in Sessions \ {s} : reader'[k] = reader[k]
        /\ Silent
    BY <1>0, <1>4 DEF ReadSentence, Readers
  <2>2. r.overflow => r.odd # 0
    BY <1>0 DEF DropInv, Bounded
  <2>3. reader'[s].odd # 0
    BY <1>0, <1>4, <2>1, <2>2
  <2>4. FixInv'
    BY <1>0, <1>1, <1>2, <2>1, <2>3, FixOfThread
  <2> QED BY <2>1, <2>4, NotReported
<1>5. CASE ~r.overflow /\ x.size = "fits"
  <2>1. /\ altToken' = AltRead(x)
        /\ \/ /\ Report(s, p.fix)
              /\ reader' = [reader EXCEPT ![s] = [p EXCEPT !.fix = NoFix]]
           \/ Silent /\ reader' = [reader EXCEPT ![s] = p]
    BY <1>5 DEF ReadSentence
  <2>2. p \in Readers /\ p.fix \in Fixes /\ p.odd = r.odd
    BY <1>0, <1>3, ParsedIs
  <2>3. r.odd = 0 => Told(s)
    BY <1>1 DEF FixInv
  <2> DEFINE l == p.fix.latlong
  <2>4. r.odd = 0 =>
          /\ Whole(p.fix) /\ (l # NULL => l <= clock /\ p.day = Day(l))
          /\ \A m \in {NULL, l} :
               /\ Chain(Tail(q), AltRead(x), m)
               /\ client = s /\ dpc = "rmc" => Pending(Tail(q), AltRead(x), m, rmc)
          /\ \A i \in 1..Len(Tail(q)) : Tail(q)[i].sent <= clock
    BY <1>0, <2>3, ToldNext
  <2> HIDE DEF p, q, x, r, l
  <2>5. /\ reader'[s].odd = r.odd /\ reader'[s].day = p.day
        /\ reader'[s].fix = p.fix \/ reader'[s].fix = NoFix
        /\ \A k \in Sessions \ {s} : reader'[k] = reader[k]
    BY <1>0, <2>1, <2>2 DEF Readers
  <2>6. NoFix.latlong = NULL
    BY DEF NoFix
  <2>7. ASSUME reader'[s].odd = 0 PROVE Told(s)'
    <3>1. r.odd = 0
      BY <2>5, <2>7
    <3>2. reader'[s].fix.latlong \in {NULL, l} /\ Whole(reader'[s].fix)
      BY <2>4, <2>5, <2>6, <3>1 DEF Whole, l
    <3>3. /\ Chain(stream'[s], altToken', reader'[s].fix.latlong)
          /\ client = s /\ dpc = "rmc" =>
               Pending(stream'[s], altToken', reader'[s].fix.latlong, rmc)
          /\ \A i \in 1..Len(stream'[s]) : stream'[s][i].sent <= clock
      BY <1>2, <2>1, <2>4, <3>1, <3>2
    <3>4. reader'[s].fix.latlong # NULL =>
            reader'[s].fix.latlong <= clock /\ reader'[s].day = Day(reader'[s].fix.latlong)
      BY <2>4, <2>5, <3>1, <3>2
    <3> QED
      BY <1>1, <3>2, <3>3, <3>4 DEF Told, Whole, Chain, Pending, Day
  <2>8. FixInv'
    BY <1>0, <1>1, <1>2, <2>5, <2>7, FixOfThread
  <2>9. FixOfOneSecond'
    <3>1. CASE Silent
      BY <3>1, NotReported
    <3>2. CASE Report(s, p.fix)
      BY <2>2, <2>4, <3>2, ReportWhole DEF r
    <3> QED BY <2>1, <3>1, <3>2
  <2> QED BY <2>8, <2>9
<1> QED
  BY <1>4, <1>5

\* The other steps of the thread.
LEMMA FixThread ==
  ASSUME GpsInv, Data, Data', DropInv, FixInv, NEW s \in Sessions, Thread(s)
  PROVE  FixInv' /\ FixOfOneSecond'
<1>1. CASE ReadSentence(s)
  BY <1>1, FixSentence
<1>2. CASE ~ReadSentence(s)
  <2>0. /\ reader \in [Sessions -> Readers] /\ tpc \in [Sessions -> Points]
        /\ reader[s] \in Readers /\ reader[s].fix \in Fixes /\ clock \in Nat
    BY DEF Data, ReaderTypes, Readers, GpsInv, Types, ClockTypes, Seconds
  <2>1. /\ UNCHANGED <<dpc, client, backlog, rmc, clock, closed, stream, altToken>> /\ Alive(s)
    BY <1>2 DEF Thread, ThreadStarts, ReadCommand, ThreadReset, BeginRead, EndRead, daemonVars,
       connVars, worldVars, Alive
  <2>2. CASE EndThread(s)
    <3>1. /\ tpc'[s] = "ended" /\ Silent
          /\ \A k \in Sessions \ {s} : tpc'[k] = tpc[k] /\ reader'[k] = reader[k]
      BY <2>0, <2>2 DEF EndThread
    <3>2. FixInv'
      BY <2>1, <3>1, FixOfThread DEF Alive
    <3> QED BY <3>1, <3>2, NotReported
  <2>3. ASSUME UNCHANGED reader, Silent, tpc' \in [Sessions -> Points], tpc'[s] # "none",
               \A k \in Sessions \ {s} : tpc'[k] = tpc[k]
        PROVE  FixInv' /\ FixOfOneSecond'
    <3>1. reader[s].odd = 0 => Told(s)
      BY <2>1 DEF FixInv
    <3>2. reader[s].odd = 0 => Told(s)'
      BY <2>0, <2>1, <2>3, <3>1, SameTold
    <3>3. FixInv'
      BY <2>1, <2>3, <3>2, FixOfThread
    <3> QED BY <2>3, <3>3, NotReported
  <2>4. CASE ReadStart(s) /\ UNCHANGED tpc
    <3>1. CASE UNCHANGED reader /\ Silent
      BY <2>0, <2>1, <2>3, <2>4, <3>1 DEF Alive
    <3>2. CASE /\ reader' = [reader EXCEPT ![s].fix = NoFix]
               /\ Silent \/ Report(s, reader[s].fix)
      <4>1. /\ reader'[s].fix = NoFix /\ reader'[s].odd = reader[s].odd
            /\ \A k \in Sessions \ {s} : reader'[k] = reader[k]
        BY <2>0, <3>2 DEF Readers
      <4>2. reader[s].odd = 0 => Told(s)
        BY <2>1 DEF FixInv
      <4>3. ASSUME reader[s].odd = 0 PROVE Told(s)'
        <5>1. reader'[s].fix.latlong = NULL
          BY <4>1 DEF NoFix
        <5>2. /\ Chain(stream[s], altToken, NULL)
              /\ \A i \in 1..Len(stream[s]) : stream[s][i].sent <= clock
              /\ client = s /\ dpc = "rmc" => Pending(stream[s], altToken, NULL, rmc)
          BY <4>2, <4>3, ChainForgets DEF Told
        <5> QED BY <2>1, <5>1, <5>2 DEF Told, Whole, Chain, Pending
      <4>4. FixInv'
        BY <2>1, <2>4, <4>1, <4>3, FixOfThread DEF Alive
      <4>5. reader[s].odd = 0 => Whole(reader[s].fix)
        BY <4>2 DEF Told
      <4>6. FixOfOneSecond'
        BY <2>0, <3>2, <4>5, NotReported, ReportWhole
      <4> QED BY <4>4, <4>6
    <3> QED BY <2>4, <3>1, <3>2 DEF ReadStart
  <2>5. CASE ReadCommand(s)
    <3>1. CASE ReadStop(s) /\ UNCHANGED tpc
      BY <2>0, <2>1, <2>3, <3>1 DEF ReadStop, Alive
    <3> QED BY <2>2, <2>4, <2>5, <3>1 DEF ReadCommand, ReadQuit
  <2>6. CASE ThreadStarts(s) \/ BeginRead(s) \/ EndRead(s)
    <3>1. /\ UNCHANGED reader /\ Silent
          /\ tpc' = [tpc EXCEPT ![s] = "wait"] \/ tpc' = [tpc EXCEPT ![s] = "read"]
               \/ tpc' = [tpc EXCEPT ![s] = "spin"]
      BY <2>6 DEF ThreadStarts, BeginRead, EndRead
    <3>2. /\ tpc' \in [Sessions -> Points] /\ tpc'[s] # "none"
          /\ \A k \in Sessions \ {s} : tpc'[k] = tpc[k]
      BY <2>0, <3>1 DEF Points
    <3> QED BY <2>3, <3>1, <3>2
  <2> QED
    BY <1>2, <2>2, <2>5, <2>6 DEF Thread, ThreadReset
<1> QED
  BY <1>1, <1>2

\* A position is reported with an altitude that is not older, and with the day and time of
\* its second: for any number of sessions that share the tokens, any pace of the daemon and
\* of the thread, and any moment at which a day ends.
THEOREM FixesWhole == Spec => []FixOfOneSecond
<1>1. Init => FixInv /\ FixOfOneSecond
  <2> SUFFICES ASSUME Init PROVE FixInv /\ FixOfOneSecond
    OBVIOUS
  <2>1. \A i \in 1..Len(backlog) : FALSE
    BY DEF Init
  <2>2. \A s \in Sessions : Fresh(s) /\ ~Alive(s)
    <3> SUFFICES ASSUME NEW s \in Sessions PROVE Fresh(s) /\ ~Alive(s)
      OBVIOUS
    <3>1. NULL # s
      BY DEF Sessions
    <3>2. tpc[s] = "none" /\ stream[s] = <<>> /\ reader[s] = NewReader /\ client = NULL
      BY Zenon DEF Init
    <3> QED BY <2>1, <3>1, <3>2 DEF Fresh, Alive
  <2> QED BY <2>2 DEF Init, FixInv, FixOfOneSecond
<1>2. GpsInv /\ Data /\ Data' /\ DropInv /\ FixInv /\ FixOfOneSecond /\ [Next]_vars
        => (FixInv /\ FixOfOneSecond)'
  <2> SUFFICES ASSUME GpsInv, Data, Data', DropInv, FixInv, FixOfOneSecond, [Next]_vars
               PROVE  FixInv' /\ FixOfOneSecond'
    OBVIOUS
  <2>1. CASE Framework \/ gps_init_end \/ gps_state_done
    <3>1. FixOfOneSecond'
      BY <2>1 DEF FixOfOneSecond, Framework, gps_init, gps_start, gps_stop, Command,
         gps_cleanup, gps_init_end, gps_state_done, threadVars
    <3>2. CASE gps_init
      BY <3>1, <3>2, FixInit
    <3>3. CASE ~gps_init
      <4>1. /\ UNCHANGED <<reader, altToken, tpc, dpc, client, backlog, rmc, clock>>
            /\ NULL \notin Sessions /\ clock \in Nat
        BY <2>1, <3>3 DEF Framework, gps_start, gps_stop, Command, gps_cleanup, gps_init_end,
           gps_state_done, threadVars, daemonVars, worldVars, Sessions, Data, ClockTypes, Seconds
      <4>2. \A s \in Sessions : Alive(s)' <=> Alive(s)
        BY <4>1 DEF Alive
      <4>3. closed \subseteq closed' /\ \A s \in Sessions : Alive(s) => stream'[s] = stream[s]
        BY <2>1, <3>3 DEF Framework, gps_start, gps_stop, Command, gps_cleanup, gps_init_end,
           gps_state_done, CloseConnection, connVars, Alive, Data, DaemonTypes
      <4>4. \A s \in Sessions : tpc[s] = "none" /\ stream[s] = <<>> => stream'[s] = <<>>
        BY <2>1, <3>3 DEF Framework, gps_start, gps_stop, Command, gps_cleanup, gps_init_end,
           gps_state_done, CloseConnection, connVars, Data, DaemonTypes
      <4>5. FixInv'
        BY <4>1, <4>2, <4>3, <4>4, FixFramed
      <4> QED BY <3>1, <4>5
    <3> QED BY <3>2, <3>3
  <2>2. CASE Daemon \/ DaemonEnds \/ SecondPasses
    <3>1. FixOfOneSecond'
      BY <2>2 DEF FixOfOneSecond, Daemon, Accept, SendGGA, SendRMC, DaemonStarts, DaemonEnds,
         SecondPasses, threadVars
    <3> QED BY <2>2, <3>1, FixDaemon
  <2>3. CASE UNCHANGED vars
    <3>1. /\ UNCHANGED <<reader, altToken, tpc, dpc, client, backlog, rmc, clock, stream, closed,
                         reported>>
          /\ NULL \notin Sessions /\ clock \in Nat
      BY <2>3 DEF vars, threadVars, daemonVars, connVars, worldVars, Sessions, Data,
         ClockTypes, Seconds
    <3>2. \A s \in Sessions : Alive(s)' <=> Alive(s)
      BY <3>1 DEF Alive
    <3> QED BY <3>1, <3>2, FixFramed DEF FixOfOneSecond
  <2> QED
    BY <2>1, <2>2, <2>3, FixThread DEF Next
<1>3. Init => DropInv
  <2>1. DOMAIN NewReader = Fields /\ Bounded(NewReader)
    BY DEF NewReader, Fields, Bounded
  <2> QED BY <2>1 DEF Init, DropInv
<1> QED
  BY <1>1, <1>2, <1>3, DataInit, DataNext, DropNext, SessionCorrect, PTL DEF Spec
=============================================================================
