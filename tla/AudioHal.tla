------------------------------ MODULE AudioHal ------------------------------
(***************************************************************************)
(* The audio HAL (audio_hw.c): one output stream, which the framework      *)
(* opens when it starts and keeps, input streams, which come and go, and   *)
(* the threads that call them.  The device has a mutex and each stream has *)
(* one; starting a stream may put the active stream of the other direction *)
(* to standby, for which its mutex is taken as well.                       *)
(*                                                                         *)
(* A step is what a thread does between two points where it may wait: for  *)
(* a mutex, for the kernel to open or to move a PCM, or for the client of  *)
(* the PCM server, to which out_write copies what it plays.  A mutex that  *)
(* is taken and given back without waiting in between is only tested.      *)
(***************************************************************************)
EXTENDS Naturals

CONSTANTS
  Threads,    (* threads of the framework                                  *)
  Inputs,     (* stream_in structures                                      *)
  NULL,       (* no thread, no stream                                      *)
  OutRate,    (* OUT_SAMPLING_RATE                                         *)
  InRate,     (* IN_SAMPLING_RATE                                          *)
  MaxCalls,   (* bound on the calls of the framework                       *)
  MaxFaults   (* bound on the failures of pcm_open                         *)

ASSUME AudioAssumption ==
  /\ "out" \notin Inputs /\ NULL \notin Threads \cup Inputs \cup {"out"}
  /\ OutRate \in Nat /\ OutRate > 1 /\ InRate \in Nat \ {0}
  /\ MaxCalls \in Nat /\ MaxFaults \in Nat

VARIABLES
  \* the calls in progress
  pc,         (* what each thread is about to do                           *)
  op,         (* the call it makes: "io" is out_write or in_read           *)
  stream,     (* the stream it makes it on                                 *)
  peer,       (* start: the active stream of the other direction           *)
  calls,      (* calls made so far                                         *)
  \* struct audio_device
  devLock,    (* the thread that holds lock, or NULL                       *)
  active,     (* active_out and active_in                                  *)
  \* the streams
  exists,     (* allocated and not freed                                   *)
  lock,       (* the thread that holds its lock, or NULL                   *)
  standby,    (* standby                                                   *)
  pcm,        (* rate of its open PCM, 0 if there is none                  *)
  outRate,    (* pcm_config_out.rate                                       *)
  alreadyTried, (* already_tried of start_output_stream                    *)
  \* the PCM server and its client
  socket,     (* pcm_server_socket is not 0                                *)
  client,     (* "none", "reading" or "stalled"                            *)
  faults      (* failures so far                                           *)

callVars == <<pc, op, stream, peer, calls>>
devVars == <<active, exists, standby, pcm, outRate, alreadyTried>>
lockVars == <<devLock, lock>>
serverVars == <<socket, client>>
vars == <<callVars, devVars, lockVars, serverVars, faults>>

Streams == Inputs \cup {"out"}
Dir(s) == IF s = "out" THEN "out" ELSE "in"
Other(s) == IF s = "out" THEN "in" ELSE "out"
Rate(s) == IF s = "out" THEN outRate ELSE InRate

Init ==
  /\ pc = [t \in Threads |-> "idle"] /\ op = [t \in Threads |-> "none"]
  /\ stream = [t \in Threads |-> NULL] /\ peer = [t \in Threads |-> NULL]
  /\ calls = 0
  /\ devLock = NULL /\ lock = [s \in Streams |-> NULL]
  /\ active = [d \in {"out", "in"} |-> NULL]
  /\ exists = [s \in Streams |-> s = "out"]
  /\ standby = [s \in Streams |-> TRUE] /\ pcm = [s \in Streams |-> 0]
  /\ outRate = OutRate /\ alreadyTried = FALSE
  /\ socket = FALSE /\ client = "none"
  /\ faults = 0

-----------------------------------------------------------------------------
(* The calls of the framework.                                              *)

Goto(t, label) ==
  /\ pc' = [pc EXCEPT ![t] = label]
  /\ UNCHANGED <<op, stream>>

Return(t) ==
  /\ pc' = [pc EXCEPT ![t] = "idle"]
  /\ op' = [op EXCEPT ![t] = "none"] /\ stream' = [stream EXCEPT ![t] = NULL]

adev_open_input_stream(s) ==
  /\ s \in Inputs /\ ~exists[s] /\ calls < MaxCalls
  /\ exists' = [exists EXCEPT ![s] = TRUE]
  /\ standby' = [standby EXCEPT ![s] = TRUE]
  /\ calls' = calls + 1
  /\ UNCHANGED <<pc, op, stream, peer, active, pcm, outRate, alreadyTried, lockVars,
                 serverVars, faults>>

\* out_write and in_read ("io"), out_standby and in_standby ("standby", and with it a
\* set_parameters that turns SCO on or off), and adev_close_input_stream.  The
\* framework does not use a stream it is closing.
Call(t, o, s) ==
  /\ pc[t] = "idle" /\ exists[s] /\ calls < MaxCalls
  /\ o = "close" => s # "out"
  /\ \A u \in Threads : pc[u] # "idle" /\ stream[u] = s => "close" \notin {o, op[u]}
  /\ pc' = [pc EXCEPT ![t] = "dev"]
  /\ op' = [op EXCEPT ![t] = o] /\ stream' = [stream EXCEPT ![t] = s]
  /\ calls' = calls + 1
  /\ UNCHANGED <<peer, devVars, lockVars, serverVars, faults>>

LockDevice(t) ==
  /\ pc[t] = "dev" /\ devLock = NULL
  /\ devLock' = t /\ Goto(t, "own")
  /\ UNCHANGED <<peer, calls, devVars, lock, serverVars, faults>>

-----------------------------------------------------------------------------
(* do_out_standby and do_in_standby.                                        *)

do_standby(s) ==
  IF standby[s] THEN UNCHANGED <<standby, pcm, active>>
  ELSE /\ standby' = [standby EXCEPT ![s] = TRUE]
       /\ pcm' = [pcm EXCEPT ![s] = 0]
       /\ active' = [active EXCEPT ![Dir(s)] = NULL]

\* Mutant: the mutex of the stream is not taken.
StandbyCall_Unlocked(t) ==
  /\ pc[t] = "own" /\ op[t] # "io"
  /\ do_standby(stream[t])
  /\ devLock' = NULL
  /\ IF op[t] = "close" THEN Goto(t, "free") ELSE Return(t)
  /\ UNCHANGED <<peer, calls, exists, outRate, alreadyTried, lock, serverVars, faults>>

\* Both mutexes are held for do_standby only.  A stream that is being closed is freed
\* once they have been given back.
StandbyCall(t) ==
  /\ pc[t] = "own" /\ op[t] # "io" /\ lock[stream[t]] = NULL
  /\ do_standby(stream[t])
  /\ devLock' = NULL
  /\ IF op[t] = "close" THEN Goto(t, "free") ELSE Return(t)
  /\ UNCHANGED <<peer, calls, exists, outRate, alreadyTried, lock, serverVars, faults>>

Free(t) ==
  /\ pc[t] = "free"
  /\ exists' = [exists EXCEPT ![stream[t]] = FALSE]
  /\ Return(t)
  /\ UNCHANGED <<peer, calls, active, standby, pcm, outRate, alreadyTried, lockVars,
                 serverVars, faults>>

-----------------------------------------------------------------------------
(* out_write and in_read.                                                   *)

\* With both mutexes: a stream that plays or records goes on without that of the
\* device; one in standby is started, after the other direction if that is active.
IoBegin(t) ==
  LET s == stream[t] IN
  /\ pc[t] = "own" /\ op[t] = "io" /\ lock[s] = NULL
  /\ lock' = [lock EXCEPT ![s] = t]
  /\ \/ ~standby[s] /\ devLock' = NULL /\ Goto(t, "send") /\ UNCHANGED peer
     \/ /\ standby[s] /\ UNCHANGED devLock
        /\ peer' = [peer EXCEPT ![t] = active[Other(s)]]
        /\ Goto(t, IF active[Other(s)] = NULL THEN "open" ELSE "other")
  /\ UNCHANGED <<calls, devVars, serverVars, faults>>

\* Mutant: only the rates that SCO needs are compared.
Incompatible_OneGroup(s, p) ==
  Rate(s) % 8000 = 0 /\ Rate(p) % 8000 # 0

\* "All open PCMs can only use a single group of rates at once": the stream that is
\* started is of one group, and the active stream is not.
Incompatible(s, p) ==
  \/ Rate(s) % 8000 = 0 /\ Rate(p) % 8000 # 0
  \/ Rate(s) % 11025 = 0 /\ Rate(p) % 11025 # 0

StopOther(t) ==
  /\ pc[t] = "other" /\ lock[peer[t]] = NULL
  /\ IF Incompatible(stream[t], peer[t]) THEN do_standby(peer[t])
     ELSE UNCHANGED <<standby, pcm, active>>
  /\ Goto(t, "open") /\ peer' = [peer EXCEPT ![t] = NULL]
  /\ UNCHANGED <<calls, exists, outRate, alreadyTried, lockVars, serverVars, faults>>

\* The kernel opens a PCM of a direction once, and may fail.  The first failure of
\* the output lowers its rate for good, and is followed by a second attempt.
OpenFails(s) ==
  \/ /\ \E i \in Inputs : s \in Inputs /\ pcm[i] # 0
     /\ UNCHANGED faults
  \/ faults < MaxFaults /\ faults' = faults + 1

Opened(t, s, rate) ==
  /\ pcm' = [pcm EXCEPT ![s] = rate]
  /\ active' = [active EXCEPT ![Dir(s)] = s]
  /\ standby' = [standby EXCEPT ![s] = FALSE]
  /\ Goto(t, "send") /\ UNCHANGED lock

\* Mutant: the failure returns without unlocking the stream.
NotOpened_KeepsLock(t, s) ==
  /\ UNCHANGED <<pcm, active, standby>>
  /\ Return(t) /\ UNCHANGED lock

NotOpened(t, s) ==
  /\ UNCHANGED <<pcm, active, standby>>
  /\ Return(t) /\ lock' = [lock EXCEPT ![s] = NULL]

OpenPcm(t) ==
  LET s == stream[t] IN
  /\ pc[t] = "open"
  /\ \/ /\ s = "out" \/ \A i \in Inputs : pcm[i] = 0
        /\ Opened(t, s, Rate(s))
        /\ UNCHANGED <<outRate, alreadyTried, faults>>
     \/ /\ s \in Inputs \/ alreadyTried
        /\ OpenFails(s) /\ NotOpened(t, s)
        /\ UNCHANGED <<outRate, alreadyTried>>
     \/ /\ s = "out" /\ ~alreadyTried
        /\ OpenFails(s)
        /\ alreadyTried' = TRUE /\ outRate' = outRate - 1
        /\ Opened(t, s, outRate') \/ NotOpened(t, s)
  /\ devLock' = NULL
  /\ UNCHANGED <<peer, calls, exists, serverVars>>

\* The copy to the client of the PCM server.  The socket is tested without a mutex, so
\* that write may find it closed, and fail; on an open one it waits while the client
\* does not read.
Send(t) ==
  /\ pc[t] = "send"
  /\ Goto(t, IF stream[t] = "out" /\ socket THEN "copy" ELSE "pcm")
  /\ UNCHANGED <<peer, calls, devVars, lockVars, serverVars, faults>>

Copy(t) ==
  /\ pc[t] = "copy"
  /\ socket => client # "stalled"
  /\ Goto(t, "pcm")
  /\ UNCHANGED <<peer, calls, devVars, lockVars, serverVars, faults>>

\* pcm_write or pcm_read, and the return of the call.
MovePcm(t) ==
  /\ pc[t] = "pcm"
  /\ lock' = [lock EXCEPT ![stream[t]] = NULL]
  /\ Return(t)
  /\ UNCHANGED <<peer, calls, devVars, devLock, serverVars, faults>>

-----------------------------------------------------------------------------
(* start_pcm_server, and its client.                                        *)

ClientConnects ==
  /\ client = "none" /\ ~socket
  /\ client' = "reading" /\ socket' = TRUE
  /\ UNCHANGED <<callVars, devVars, lockVars, faults>>

ClientStalls ==
  /\ client = "reading" /\ client' = "stalled"
  /\ UNCHANGED <<callVars, devVars, lockVars, socket, faults>>

\* A client that stalls reads again or leaves.
ClientMoves ==
  /\ client = "stalled" /\ client' \in {"reading", "none"}
  /\ UNCHANGED <<callVars, devVars, lockVars, socket, faults>>

ClientLeaves ==
  /\ client = "reading" /\ client' = "none"
  /\ UNCHANGED <<callVars, devVars, lockVars, socket, faults>>

ServerCloses ==
  /\ socket /\ client = "none"
  /\ socket' = FALSE
  /\ UNCHANGED <<callVars, devVars, lockVars, client, faults>>

Server == ClientConnects \/ ClientStalls \/ ClientMoves \/ ClientLeaves \/ ServerCloses

-----------------------------------------------------------------------------
Calls(t) ==
  \E s \in Streams, o \in {"io", "standby", "close"} : Call(t, o, s)

\* What a thread in a call does.
Run(t) ==
  \/ LockDevice(t) \/ StandbyCall(t) \/ Free(t)
  \/ IoBegin(t) \/ StopOther(t) \/ OpenPcm(t) \/ Send(t) \/ Copy(t) \/ MovePcm(t)

Next ==
  \/ \E s \in Inputs : adev_open_input_stream(s)
  \/ \E t \in Threads : Calls(t) \/ Run(t)
  \/ Server

Spec == Init /\ [][Next]_vars

\* Threads are scheduled, PCMs move, and a client that stalls reads again or leaves; the
\* space it makes stays until write fills it, hence strong fairness of Copy.  The calls
\* are bounded, so weak fairness is enough for a mutex: at some time nobody else asks
\* for it any more.
FairSpec ==
  /\ Spec
  /\ \A t \in Threads : WF_vars(Run(t)) /\ SF_vars(Copy(t))
  /\ WF_vars(ClientMoves)

-----------------------------------------------------------------------------
(* Properties.                                                              *)

TypeOK ==
  /\ pc \in [Threads -> {"idle", "dev", "own", "free", "other", "open", "send", "copy",
                          "pcm"}]
  /\ op \in [Threads -> {"none", "io", "standby", "close"}]
  /\ stream \in [Threads -> Streams \cup {NULL}]
  /\ peer \in [Threads -> Streams \cup {NULL}]
  /\ calls \in 0..MaxCalls
  /\ devLock \in Threads \cup {NULL}
  /\ active \in [{"out", "in"} -> Streams \cup {NULL}]
  /\ exists \in [Streams -> BOOLEAN]
  /\ lock \in [Streams -> Threads \cup {NULL}]
  /\ standby \in [Streams -> BOOLEAN]
  /\ pcm \in [Streams -> {0, OutRate, OutRate - 1, InRate}]
  /\ <<alreadyTried, outRate>> \in {<<FALSE, OutRate>>, <<TRUE, OutRate - 1>>}
  /\ socket \in BOOLEAN
  /\ client \in {"none", "reading", "stalled"}
  /\ faults \in 0..MaxFaults

\* The device's active_out and active_in, the standby flags and the PCMs agree, and a
\* stream that was freed has none of them (do_out_standby, start_output_stream and
\* their input twins; adev_close_input_stream).
ActiveHasPcm ==
  \A s \in Streams :
    /\ standby[s] <=> active[Dir(s)] # s
    /\ standby[s] <=> pcm[s] = 0
    /\ ~standby[s] => exists[s]

\* A stream is read or written with its mutex held and its PCM open, although the
\* other direction may put it to standby (out_write, in_read after unlocking the
\* device).
PcmLiveDuringIo ==
  \A t \in Threads : pc[t] \in {"send", "copy", "pcm"} =>
    lock[stream[t]] = t /\ pcm[stream[t]] # 0

\* The stream that start_output_stream or start_input_stream stops is the active one,
\* and is not freed while they wait for its mutex.
PeerAlive ==
  \A t \in Threads : pc[t] = "other" =>
    /\ peer[t] \in Streams /\ exists[peer[t]]
    /\ active[Other(stream[t])] = peer[t]

\* What a thread in a call holds, and what it knows of its stream; nobody else uses a
\* stream that is being closed.
CallInv(t) ==
  /\ IF pc[t] = "idle" THEN stream[t] = NULL
     ELSE stream[t] \in Streams /\ exists[stream[t]]
  /\ pc[t] \in {"own", "other", "open"} => devLock = t
  /\ pc[t] \in {"other", "open", "send", "copy", "pcm"} =>
       op[t] = "io" /\ lock[stream[t]] = t
  /\ pc[t] \in {"other", "open", "free"} => standby[stream[t]]
  /\ pc[t] \in {"send", "copy", "pcm"} => ~standby[stream[t]]
  /\ pc[t] = "other" => peer[t] # NULL /\ peer[t] = active[Other(stream[t])]
  /\ pc[t] = "free" => op[t] = "close"
  /\ op[t] = "close" => pc[t] # "idle"
  /\ op[t] = "close" => \A u \in Threads \ {t} : stream[u] # stream[t]

\* The mutexes that out_write, in_read, the standby calls and adev_close_input_stream
\* hold are the ones that protect what they use; ActiveHasPcm, PcmLiveDuringIo and
\* PeerAlive follow.
LockInv ==
  /\ active["out"] \in {"out", NULL} /\ active["in"] \in Inputs \cup {NULL}
  /\ ActiveHasPcm
  /\ \A t \in Threads : CallInv(t)

OneGroup(r, q) == \A base \in {8000, 11025} : r % base = 0 => q % base = 0

\* When an input PCM is opened, the output's is closed or of a rate of the same group
\* (start_input_stream, which holds the device from its test to pcm_open).
InputKeepsRateGroup ==
  [][\A i \in Inputs : pcm[i] = 0 /\ pcm'[i] # 0 => OneGroup(pcm'[i], pcm'["out"])]_vars

\* What InputKeepsRateGroup rests on: the PCMs have the rates of their configurations,
\* and once start_input_stream has looked at the output it stays as it found or left it.
RateInv ==
  /\ pcm["out"] \in {0, outRate} /\ \A i \in Inputs : pcm[i] \in {0, InRate}
  /\ \A t \in Threads : pc[t] = "open" /\ stream[t] \in Inputs =>
       OneGroup(InRate, pcm["out"])

\* Every call returns: neither the order in which the mutexes are taken nor a failure
\* of pcm_open leaves a thread waiting.
CallsReturn == \A t \in Threads : pc[t] # "idle" ~> pc[t] = "idle"
=============================================================================
