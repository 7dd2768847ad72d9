------------------------------- MODULE GpsHal -------------------------------
(***************************************************************************)
(* The GPS HAL (gps_vbox86.c) and the daemon that feeds it (local_gps.c).  *)
(* A thread of the framework calls the interface; each gps_init makes a    *)
(* session: a connection to the daemon, a control socket pair and a thread *)
(* that reads both, assembles NMEA sentences and calls back.  The daemon   *)
(* serves one connection at a time and sends two sentences a second, GGA   *)
(* and RMC, while the GPS is enabled.  init restarts it when it ends.      *)
(*                                                                         *)
(* A session, its connection and its thread have one number.  A sentence   *)
(* stands for the second it tells of, in which its position, altitude and  *)
(* date are; a second has a day and a time of day.  Time zones, speed and  *)
(* bearing are left out.  create_thread_cb is external: the thread it      *)
(* makes can be joined, as gps_state_done relies on.                       *)
(***************************************************************************)
EXTENDS Integers, Sequences, FiniteSets

CONSTANTS
  MaxSessions,  (* connections                                             *)
  Backlog,      (* connections that wait to be accepted                    *)
  MaxCommands,  (* what the control pair holds                             *)
  SendBuffer,   (* sentences a connection holds                            *)
  MaxClock, DayLength, (* seconds, and how many make a day                 *)
  MaxFaults,    (* bound on failures, and on sentences of an odd size      *)
  NULL

ASSUME GpsAssumption ==
  /\ MaxSessions \in Nat /\ Backlog \in Nat /\ MaxCommands \in Nat \ {0}
  /\ SendBuffer \in Nat /\ MaxClock \in Nat /\ DayLength \in Nat \ {0}
  /\ MaxFaults \in Nat
  /\ NULL \notin Int

Sessions == 1..MaxSessions
Seconds == 0..MaxClock
Day(t) == t \div DayLength

(* A sentence fits into the reader's buffer, or its newline is the first    *)
(* character that does not, or others do not; or snprintf has cut it off    *)
(* with its newline.                                                        *)
Sizes == {"fits", "exact", "long", "cut"}
Sentences == [kind : {"GGA", "RMC"}, sent : Seconds, size : Sizes]

VARIABLES
  \* the thread of the framework, and what it keeps of its last command
  apc, wanted,
  \* GpsState: init, fd, the commands in the control pair, and callbacks
  init, fd, control, callbacks,
  \* the threads
  tpc, started, reader,
  altToken, (* tokens.altitude, shared by all sessions: the only one that  *)
            (* another sentence than the one that set it uses              *)
  status,   (* the last call of status_cb                                  *)
  reported, (* the call of location_cb in the last step of a thread        *)
  \* the daemon
  dpc, client, backlog, rmc,
  \* the connections: what is on the way, who has closed, and a reset that the
  \* daemon or the thread would see
  stream, closed, ended, denied, cut,
  clock, faults

apiVars == <<apc, wanted, init, fd, callbacks>>
threadVars == <<tpc, started, reader, altToken, status, reported>>
daemonVars == <<dpc, client, backlog, rmc>>
connVars == <<stream, closed, ended, denied, cut>>
worldVars == <<clock, faults>>
vars == <<apiVars, control, threadVars, daemonVars, connVars, worldVars>>

NoFix == [latlong |-> NULL, alt |-> NULL, time |-> NULL, odd |-> FALSE]
NewReader == [overflow |-> FALSE, day |-> NULL, fix |-> NoFix,
              odd |-> 0, dropped |-> 0]

Init ==
  /\ apc = "idle" /\ wanted = "STOP"
  /\ init = FALSE /\ fd = NULL /\ control = <<>> /\ callbacks = FALSE
  /\ tpc = [s \in Sessions |-> "none"] /\ started = [s \in Sessions |-> FALSE]
  /\ reader = [s \in Sessions |-> NewReader]
  /\ altToken = NULL /\ status = "NONE" /\ reported = NULL
  /\ dpc = "down" /\ client = NULL /\ backlog = <<>> /\ rmc = NULL
  /\ stream = [s \in Sessions |-> <<>>]
  /\ closed = {} /\ ended = {} /\ denied = {} /\ cut = {}
  /\ clock = 0 /\ faults = 0

Fault == faults < MaxFaults /\ faults' = faults + 1

-----------------------------------------------------------------------------
(* The interface.                                                           *)

Unused(s) == tpc[s] = "none" /\ s \notin closed /\ \A r \in Sessions : r < s =>
               tpc[r] # "none" \/ r \in closed

\* connect is tried three times in a row.
Connects(s) == Unused(s) /\ dpc # "down" /\ Len(backlog) < Backlog

\* init is set and stays, even when there is no connection; without a socket pair or a
\* thread, gps_state_done takes everything back.
gps_init ==
  /\ apc = "idle" /\ ~init
  /\ \/ /\ dpc = "down" \/ Len(backlog) >= Backlog
        /\ init' = TRUE /\ fd' = NULL
        /\ UNCHANGED <<apc, wanted, tpc, backlog, closed, faults>>
     \/ \E s \in Sessions :
          /\ Connects(s) /\ backlog' = Append(backlog, s)
          /\ \/ /\ init' = TRUE /\ fd' = s /\ wanted' = "STOP"
                /\ tpc' = [tpc EXCEPT ![s] = "start"]
                /\ apc' = "init"
                /\ UNCHANGED <<closed, faults>>
             \/ /\ Fault /\ closed' = closed \cup {s}
                /\ UNCHANGED <<apc, wanted, init, fd, tpc>>
  /\ UNCHANGED <<callbacks, control, started, reader, altToken, status, reported, dpc, client,
                 rmc, stream, ended, denied, cut, clock>>

\* The callbacks are copied when the thread is created already.
gps_init_end ==
  /\ apc = "init" /\ apc' = "idle"
  /\ callbacks' = TRUE
  /\ UNCHANGED <<wanted, init, fd, control, threadVars, daemonVars, connVars, worldVars>>

\* gps_start and gps_stop write a command; without a control pair nobody is told.
Command(cmd) ==
  /\ apc = "idle" /\ init
  /\ IF fd = NULL THEN UNCHANGED <<control, wanted>>
     ELSE /\ Len(control) < MaxCommands
          /\ control' = Append(control, cmd) /\ wanted' = cmd
  /\ UNCHANGED <<apc, init, fd, callbacks, threadVars, daemonVars, connVars, worldVars>>

gps_start == Command("START")
gps_stop == Command("STOP")

\* Mutant: gps_state_done does not wait for the thread.
gps_cleanup_NoJoin ==
  /\ apc = "idle" /\ init /\ init' = FALSE /\ fd' = NULL
  /\ control' = <<>>
  /\ closed' = closed \cup ({fd} \ {NULL})
  /\ UNCHANGED <<apc, wanted, callbacks, threadVars, daemonVars, stream, ended, denied, cut,
                 worldVars>>

\* Without a connection there is no thread either, and pthread_join returns an error.
gps_cleanup ==
  /\ apc = "idle" /\ init
  /\ IF fd = NULL THEN init' = FALSE /\ UNCHANGED <<apc, control>>
     ELSE /\ Len(control) < MaxCommands
          /\ control' = Append(control, "QUIT") /\ apc' = "join"
          /\ UNCHANGED init
  /\ UNCHANGED <<wanted, fd, callbacks, threadVars, daemonVars, connVars, worldVars>>

\* The connection is closed; what is unread is gone.
CloseConnection(s) ==
  /\ closed' = closed \cup {s} /\ stream' = [stream EXCEPT ![s] = <<>>]
  /\ ended' = ended \ {s} /\ cut' = cut \ {s}

\* pthread_join returns; the control pair and the connection are closed.
gps_state_done ==
  /\ apc = "join" /\ tpc[fd] = "ended" /\ apc' = "idle"
  /\ init' = FALSE /\ fd' = NULL /\ control' = <<>>
  /\ CloseConnection(fd)
  /\ UNCHANGED <<wanted, callbacks, threadVars, daemonVars, denied, worldVars>>

Framework == gps_init \/ gps_start \/ gps_stop \/ gps_cleanup

-----------------------------------------------------------------------------
(* gps_state_thread.                                                        *)

gps_update_status(val) == status' = IF callbacks THEN val ELSE status

Silent == reported' = NULL

ThreadStarts(s) ==
  /\ tpc[s] = "start" /\ tpc' = [tpc EXCEPT ![s] = "wait"]
  /\ gps_update_status("ENGINE_ON") /\ Silent
  /\ UNCHANGED <<apiVars, control, started, reader, altToken, daemonVars, connVars, worldVars>>

EndThread(s) ==
  /\ tpc' = [tpc EXCEPT ![s] = "ended"]
  /\ started' = [started EXCEPT ![s] = FALSE]
  /\ reader' = [reader EXCEPT ![s] = NewReader]
  /\ Silent

Report(s, fix) == reported' = [fix EXCEPT !.odd = reader[s].odd > 0]

\* A new callback is given the fix that was kept for it.
ReadStart(s) ==
  \/ started[s] /\ Silent /\ UNCHANGED <<started, status, reader>>
  \/ /\ ~started[s]
     /\ started' = [started EXCEPT ![s] = TRUE]
     /\ gps_update_status("SESSION_BEGIN")
     /\ IF reader[s].fix = NoFix THEN Silent ELSE Report(s, reader[s].fix)
     /\ reader' = [reader EXCEPT ![s].fix = NoFix]

\* Mutant: the end of the session is told and the callback kept.
ReadStop_Keeps(s) ==
  /\ status' = IF started[s] /\ callbacks THEN "SESSION_END" ELSE status
  /\ UNCHANGED <<started, reader>> /\ Silent

ReadStop(s) ==
  /\ started' = [started EXCEPT ![s] = FALSE]
  /\ status' = IF started[s] /\ callbacks THEN "SESSION_END" ELSE status
  /\ UNCHANGED reader /\ Silent

\* Mutant: a thread with a session in progress does not quit.
ReadQuit_Idle(s) ==
  IF started[s] THEN UNCHANGED <<tpc, started, reader, status, reported>>
  ELSE gps_update_status("ENGINE_OFF") /\ EndThread(s)

ReadQuit(s) == gps_update_status("ENGINE_OFF") /\ EndThread(s)

\* One command is read at each turn.
ReadCommand(s) ==
  /\ tpc[s] = "wait" /\ s \notin cut /\ control # <<>> /\ control' = Tail(control)
  /\ \/ Head(control) = "QUIT" /\ ReadQuit(s)
     \/ Head(control) = "START" /\ ReadStart(s) /\ UNCHANGED tpc
     \/ Head(control) = "STOP" /\ ReadStop(s) /\ UNCHANGED tpc
  /\ UNCHANGED <<apiVars, altToken, daemonVars, connVars, worldVars>>

\* The connection was reset: EPOLLERR, and the thread returns without a word.
ThreadReset(s) ==
  /\ tpc[s] = "wait" /\ s \in cut /\ EndThread(s)
  /\ UNCHANGED <<apiVars, control, altToken, status, daemonVars, connVars, worldVars>>

BeginRead(s) ==
  /\ tpc[s] = "wait" /\ s \notin cut /\ (stream[s] # <<>> \/ s \in ended)
  /\ tpc' = [tpc EXCEPT ![s] = "read"] /\ Silent
  /\ UNCHANGED <<apiVars, control, started, reader, altToken, status, daemonVars, connVars,
                 worldVars>>

\* GGA is read with the indices of RMC, where it has no latitude, and sets the altitude.
AltRead(x) == IF x.kind = "GGA" THEN x.sent ELSE altToken

\* nmea_reader_update_time: before any date was read, the date is today's.
UpdatedDay(r) == IF r.day = NULL THEN Day(clock) ELSE r.day
TimeOn(day, t) == day * DayLength + (t % DayLength)

\* Mutant: the time is not computed again when the date is read.
FixTime_Early(r, x) == TimeOn(UpdatedDay(r), x.sent)

\* nmea_reader_update_date computes the time again.
FixTime(r, x) == TimeOn(IF x.kind = "RMC" THEN Day(x.sent) ELSE UpdatedDay(r), x.sent)

\* nmea_reader_parse, up to the report.
Parsed(r, x) ==
  [r EXCEPT !.day = IF x.kind = "RMC" THEN Day(x.sent) ELSE UpdatedDay(r),
            !.fix.latlong = IF x.kind = "RMC" THEN x.sent ELSE @,
            !.fix.alt = IF AltRead(x) = NULL THEN @ ELSE AltRead(x),
            !.fix.time = FixTime(r, x)]

\* Mutant: a newline does not end what overflowed.
Overflows_Forever(r, x) == r.overflow \/ x.size # "fits"

\* nmea_reader_addc: whether the next sentence is skipped.  What overflows ends with
\* a newline, unless that is what did not fit.
Overflows(r, x) == x.size = "cut" \/ (~r.overflow /\ x.size = "exact")

\* A sentence is parsed and reported, or kept for want of a callback, or dropped.
ReadSentence(s) ==
  LET x == Head(stream[s])
      r == reader[s]
  IN
  /\ tpc[s] = "read" /\ stream[s] # <<>>
  /\ stream' = [stream EXCEPT ![s] = Tail(@)]
  /\ \/ /\ r.overflow \/ x.size # "fits"
        /\ reader' = [reader EXCEPT ![s].overflow = Overflows(r, x),
                                    ![s].odd = IF x.size = "fits" THEN @ ELSE @ + 1,
                                    ![s].dropped = @ + 1]
        /\ Silent /\ UNCHANGED altToken
     \/ /\ ~r.overflow /\ x.size = "fits"
        /\ altToken' = AltRead(x)
        /\ \/ /\ started[s]
              /\ Report(s, Parsed(r, x).fix)
              /\ reader' = [reader EXCEPT ![s] = [Parsed(r, x) EXCEPT !.fix = NoFix]]
           \/ /\ ~started[s] /\ Silent
              /\ reader' = [reader EXCEPT ![s] = Parsed(r, x)]
  /\ UNCHANGED <<apiVars, control, tpc, started, status, daemonVars, closed, ended, denied, cut,
                 worldVars>>

\* Nothing more to read for now; at the end of the connection, recv returns 0 for ever.
EndRead(s) ==
  /\ tpc[s] = "read" /\ stream[s] = <<>>
  /\ tpc' = [tpc EXCEPT ![s] = IF s \in ended THEN "spin" ELSE "wait"] /\ Silent
  /\ UNCHANGED <<apiVars, control, started, reader, altToken, status, daemonVars, connVars,
                 worldVars>>

Thread(s) ==
  \/ ThreadStarts(s) \/ ReadCommand(s) \/ ThreadReset(s)
  \/ BeginRead(s) \/ ReadSentence(s) \/ EndRead(s)

-----------------------------------------------------------------------------
(* local_gps.                                                               *)

\* wait_for_client
Accept ==
  /\ dpc = "accept" /\ backlog # <<>>
  /\ client' = Head(backlog) /\ backlog' = Tail(backlog) /\ dpc' = "sleep"
  /\ UNCHANGED <<apiVars, control, threadVars, rmc, connVars, worldVars>>

\* send succeeds once on a connection that was closed, unless it was closed with
\* something unread; the answer is a reset.
Sends(x) ==
  /\ client \notin denied
  /\ IF client \in closed THEN denied' = denied \cup {client} /\ UNCHANGED stream
     ELSE /\ Len(stream[client]) < SendBuffer
          /\ stream' = [stream EXCEPT ![client] = Append(@, x)]
          /\ UNCHANGED denied

SendFails == client \in closed

OddSize(size) == IF size = "fits" THEN UNCHANGED faults ELSE Fault

\* Mutant: the result of send is not looked at.
CloseClient_Never ==
  /\ IF dpc = "sleep" THEN dpc' = "rmc" /\ rmc' = clock
     ELSE dpc' = "sleep" /\ rmc' = NULL
  /\ UNCHANGED client

CloseClient == dpc' = "accept" /\ client' = NULL /\ rmc' = NULL

\* The sleep is over and the GPS enabled: GGA is sent, with the second that RMC will tell
\* of as well.
SendGGA ==
  /\ dpc = "sleep"
  /\ \/ \E size \in Sizes :
          /\ Sends([kind |-> "GGA", sent |-> clock, size |-> size]) /\ OddSize(size)
          /\ rmc' = clock /\ dpc' = "rmc" /\ UNCHANGED client
     \/ SendFails /\ CloseClient /\ UNCHANGED <<stream, denied, faults>>
  /\ UNCHANGED <<apiVars, control, threadVars, backlog, closed, ended, cut, clock>>

SendRMC ==
  /\ dpc = "rmc"
  /\ \/ \E size \in Sizes :
          /\ Sends([kind |-> "RMC", sent |-> rmc, size |-> size]) /\ OddSize(size)
          /\ rmc' = NULL /\ dpc' = "sleep" /\ UNCHANGED client
     \/ SendFails /\ CloseClient /\ UNCHANGED <<stream, denied, faults>>
  /\ UNCHANGED <<apiVars, control, threadVars, backlog, closed, ended, cut, clock>>

\* accept fails, or the daemon is killed: its connections end, and those it had not
\* accepted are reset.
DaemonEnds ==
  /\ dpc # "down" /\ Fault
  /\ dpc' = "down" /\ client' = NULL /\ rmc' = NULL /\ backlog' = <<>>
  /\ ended' = ended \cup ({client} \ {NULL})
  /\ cut' = cut \cup {backlog[i] : i \in 1..Len(backlog)}
  /\ UNCHANGED <<apiVars, control, threadVars, stream, closed, denied, clock>>

\* start_server; init restarts the service.
DaemonStarts ==
  /\ dpc = "down" /\ dpc' = "accept"
  /\ UNCHANGED <<apiVars, control, threadVars, client, backlog, rmc, connVars, worldVars>>

Daemon == Accept \/ SendGGA \/ SendRMC \/ DaemonStarts

-----------------------------------------------------------------------------

SecondPasses ==
  /\ clock < MaxClock /\ clock' = clock + 1
  /\ UNCHANGED <<apiVars, control, threadVars, daemonVars, connVars, faults>>

Next ==
  \/ Framework \/ gps_init_end \/ gps_state_done
  \/ \E s \in Sessions : Thread(s)
  \/ Daemon \/ DaemonEnds
  \/ SecondPasses

Spec == Init /\ [][Next]_vars

\* Threads and processes are scheduled.  epoll_wait reports a command beside whatever
\* there is to read, and the reading is done long before the daemon sends again.  Nothing
\* makes the user enable the GPS.
FairSpec ==
  /\ Spec
  /\ WF_vars(gps_init_end) /\ WF_vars(gps_state_done)
  /\ WF_vars(Accept) /\ WF_vars(SendRMC) /\ WF_vars(DaemonStarts)
  /\ \A s \in Sessions :
       WF_vars(Thread(s)) /\ SF_vars(ReadCommand(s)) /\ SF_vars(EndRead(s))

-----------------------------------------------------------------------------
(* Properties.                                                              *)

Fixes == [latlong : Seconds \cup {NULL}, alt : Seconds \cup {NULL}, time : Int \cup {NULL},
          odd : BOOLEAN]

TypeOK ==
  /\ apc \in {"idle", "init", "join"} /\ wanted \in {"START", "STOP"}
  /\ init \in BOOLEAN /\ fd \in Sessions \cup {NULL}
  /\ control \in Seq({"START", "STOP", "QUIT"}) /\ callbacks \in BOOLEAN
  /\ tpc \in [Sessions -> {"none", "start", "wait", "read", "spin", "ended"}]
  /\ started \in [Sessions -> BOOLEAN]
  /\ reader \in [Sessions -> [overflow : BOOLEAN, day : Nat \cup {NULL}, fix : Fixes,
                              odd : Nat, dropped : Nat]]
  /\ altToken \in Seconds \cup {NULL} /\ reported \in Fixes \cup {NULL}
  /\ status \in {"NONE", "ENGINE_ON", "ENGINE_OFF", "SESSION_BEGIN", "SESSION_END"}
  /\ dpc \in {"down", "accept", "sleep", "rmc"}
  /\ client \in Sessions \cup {NULL} /\ backlog \in Seq(Sessions)
  /\ rmc \in Seconds \cup {NULL}
  /\ stream \in [Sessions -> Seq(Sentences)]
  /\ closed \subseteq Sessions /\ ended \subseteq Sessions
  /\ denied \subseteq Sessions /\ cut \subseteq Sessions
  /\ clock \in Seconds /\ faults \in 0..MaxFaults

Alive(s) == tpc[s] \notin {"none", "ended"}

\* A thread that runs is the thread of the state it was given: it is initialised, and the
\* connection is the thread's and open.  There is never a second one, and none calls back
\* when gps_cleanup has returned.
ThreadOwnsState ==
  \A s \in Sessions : Alive(s) => init /\ fd = s /\ s \notin closed

\* When every command has been read, the session and what the framework was told of it
\* are those of its last call of gps_start or gps_stop.
SettledSession ==
  \A s \in Sessions :
    apc = "idle" /\ control = <<>> /\ tpc[s] \in {"wait", "read"} =>
      /\ started[s] = (wanted = "START")
      /\ (status = "SESSION_BEGIN") = started[s]

\* A position is reported with an altitude that is not older, and, when it is of the same
\* second, with the day and time of that second, although GGA has no date, the tokens
\* outlive the session and a fix may be kept: as long as the sentences fit.
FixOfOneSecond ==
  reported # NULL /\ ~reported.odd /\ reported.latlong # NULL =>
    /\ reported.alt >= reported.latlong
    /\ reported.alt = reported.latlong => reported.time = reported.latlong

\* A sentence that does not fit costs itself and at most the next (nmea_reader_addc).
DropsBounded ==
  \A s \in Sessions : reader[s].dropped <= 2 * reader[s].odd

\* gps_cleanup returns, unless the daemon has ended the connection.
CleanupReturns == (apc = "join") ~> (apc = "idle" \/ fd \in ended)

Waits(s) == \E i \in 1..Len(backlog) : backlog[i] = s

\* A new session is served although the daemon still sends to the one before: as long
\* as the GPS is enabled, so that it goes on sending, the daemon finds out.
NextSessionServed ==
  []<><<SendGGA \/ SendRMC>>_vars => \A s \in Sessions : []<>~Waits(s)
=============================================================================
