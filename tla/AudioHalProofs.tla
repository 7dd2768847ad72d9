--------------------------- MODULE AudioHalProofs ---------------------------
(***************************************************************************)
(* The mutexes of AudioHal protect what they are meant to, for any number  *)
(* of threads, input streams, calls and failures: the active streams are   *)
(* those whose PCM is open, a stream is not stopped while it is read or    *)
(* written, and the stream a start stops is still there.                   *)
(***************************************************************************)
EXTENDS AudioHal, TLAPS

USE AudioAssumption

AudioInv == TypeOK /\ LockInv

\* The parts of TypeOK: the calls, the device with its streams, and the rest.
CallTypes ==
  /\ pc \in [Threads -> {"idle", "dev", "own", "free", "other", "open", "send", "copy",
                         "pcm"}]
  /\ op \in [Threads -> {"none", "io", "standby", "close"}]
  /\ stream \in [Threads -> Streams \cup {NULL}]
  /\ peer \in [Threads -> Streams \cup {NULL}]
  /\ calls \in 0..MaxCalls
DevTypes ==
  /\ active \in [{"out", "in"} -> Streams \cup {NULL}]
  /\ exists \in [Streams -> BOOLEAN]
  /\ standby \in [Streams -> BOOLEAN]
  /\ pcm \in [Streams -> {0, OutRate, OutRate - 1, InRate}]
RestTypes ==
  /\ devLock \in Threads \cup {NULL}
  /\ lock \in [Streams -> Threads \cup {NULL}]
  /\ <<alreadyTried, outRate>> \in {<<FALSE, OutRate>>, <<TRUE, OutRate - 1>>}
  /\ socket \in BOOLEAN
  /\ client \in {"none", "reading", "stalled"}
  /\ faults \in 0..MaxFaults

-----------------------------------------------------------------------------
\* The device starts with no stream active and no call in progress.
LEMMA InitInv == Init => AudioInv
<1> SUFFICES ASSUME Init PROVE AudioInv
  OBVIOUS
<1> USE DEF Init, Streams
<1>1. exists \in [Streams -> BOOLEAN] /\ standby \in [Streams -> BOOLEAN]
  OBVIOUS
<1>2. <<alreadyTried, outRate>> = <<FALSE, OutRate>> /\ socket \in BOOLEAN
  OBVIOUS
<1>3. CallTypes /\ active \in [{"out", "in"} -> Streams \cup {NULL}]
  BY DEF CallTypes
<1>4. TypeOK
  BY <1>1, <1>2, <1>3 DEF TypeOK, CallTypes
<1>5. ActiveHasPcm
  BY DEF ActiveHasPcm, Dir
<1>6. \A t \in Threads : CallInv(t)
  BY DEF CallInv
<1> QED
  BY <1>4, <1>5, <1>6 DEF AudioInv, LockInv

\* Every step keeps the types of the variables of the calls.
LEMMA CallTypesStep == AudioInv /\ [Next]_vars => CallTypes'
<1> SUFFICES ASSUME AudioInv, [Next]_vars PROVE CallTypes'
  OBVIOUS
<1> USE DEF AudioInv, TypeOK, CallTypes, Goto, Return
<1>1. ASSUME NEW s \in Inputs, adev_open_input_stream(s) PROVE CallTypes'
  BY <1>1 DEF adev_open_input_stream
<1>2. ASSUME NEW t \in Threads, NEW o \in {"io", "standby", "close"}, NEW s \in Streams,
             Call(t, o, s)
      PROVE  CallTypes'
  BY <1>2 DEF Call
<1>3. ASSUME NEW t \in Threads, LockDevice(t) PROVE CallTypes'
  BY <1>3 DEF LockDevice
<1>4. ASSUME NEW t \in Threads, StandbyCall(t) PROVE CallTypes'
  BY <1>4 DEF StandbyCall
<1>5. ASSUME NEW t \in Threads, Free(t) PROVE CallTypes'
  BY <1>5 DEF Free
<1>6. ASSUME NEW t \in Threads, IoBegin(t) PROVE CallTypes'
  <2>1. active[Other(stream[t])] \in Streams \cup {NULL}
    BY DEF Other
  <2> QED
    BY <1>6, <2>1 DEF IoBegin
<1>7. ASSUME NEW t \in Threads, StopOther(t) PROVE CallTypes'
  BY <1>7 DEF StopOther
<1>8. ASSUME NEW t \in Threads, OpenPcm(t) PROVE CallTypes'
  BY <1>8 DEF OpenPcm, Opened, NotOpened
<1>9. ASSUME NEW t \in Threads, Send(t) \/ Copy(t) \/ MovePcm(t) PROVE CallTypes'
  BY <1>9 DEF Send, Copy, MovePcm
<1>10. CASE Server \/ UNCHANGED vars
  BY <1>10 DEF Server, ClientConnects, ClientStalls, ClientMoves, ClientLeaves,
               ServerCloses, vars, callVars
<1> QED
  BY <1>1, <1>2, <1>3, <1>4, <1>5, <1>6, <1>7, <1>8, <1>9, <1>10 DEF Next, Calls, Run

\* Every step keeps the types of the device and its streams.
LEMMA DevTypesStep == AudioInv /\ [Next]_vars => DevTypes'
<1> SUFFICES ASSUME AudioInv, [Next]_vars PROVE DevTypes'
  OBVIOUS
<1> USE DEF AudioInv, TypeOK, DevTypes
<1>1. ASSUME NEW s \in Inputs, adev_open_input_stream(s) PROVE DevTypes'
  BY <1>1 DEF adev_open_input_stream
<1>2. ASSUME NEW t \in Threads, NEW o \in {"io", "standby", "close"}, NEW s \in Streams,
             Call(t, o, s)
      PROVE  DevTypes'
  BY <1>2 DEF Call, devVars
<1>3. ASSUME NEW t \in Threads,
             LockDevice(t) \/ IoBegin(t) \/ Send(t) \/ Copy(t) \/ MovePcm(t)
      PROVE  DevTypes'
  BY <1>3 DEF LockDevice, IoBegin, Send, Copy, MovePcm, devVars
<1>4. ASSUME NEW s, do_standby(s), UNCHANGED exists PROVE DevTypes'
  <2>1. CASE standby[s]
    BY <1>4, <2>1 DEF do_standby
  <2>2. CASE ~standby[s]
    <3>1. /\ standby' = [standby EXCEPT ![s] = TRUE]
          /\ pcm' = [pcm EXCEPT ![s] = 0]
          /\ active' = [active EXCEPT ![Dir(s)] = NULL]
      BY <1>4, <2>2 DEF do_standby
    <3>2. standby' \in [Streams -> BOOLEAN]
      BY <3>1, ZenonT(60)
    <3>3. /\ pcm' \in [Streams -> {0, OutRate, OutRate - 1, InRate}]
          /\ active' \in [{"out", "in"} -> Streams \cup {NULL}]
      BY <3>1
    <3> QED
      BY <1>4, <3>2, <3>3
  <2> QED
    BY <2>1, <2>2
<1>5. ASSUME NEW t \in Threads, StandbyCall(t) \/ StopOther(t) PROVE DevTypes'
  BY <1>4, <1>5 DEF StandbyCall, StopOther
<1>6. ASSUME NEW t \in Threads, Free(t) PROVE DevTypes'
  BY <1>6 DEF Free
<1>7. ASSUME NEW t \in Threads, OpenPcm(t) PROVE DevTypes'
  <2>1. stream[t] \in Streams
    BY <1>7 DEF OpenPcm, LockInv, CallInv
  <2>2. CASE NotOpened(t, stream[t])
    BY <1>7, <2>2 DEF OpenPcm, NotOpened
  <2>3. CASE Opened(t, stream[t], Rate(stream[t]))
    BY <1>7, <2>1, <2>3 DEF OpenPcm, Opened, Rate, Dir
  <2>4. CASE ~alreadyTried /\ outRate' = outRate - 1 /\ Opened(t, stream[t], outRate')
    BY <1>7, <2>1, <2>4 DEF OpenPcm, Opened, Dir
  <2> QED
    BY <1>7, <2>2, <2>3, <2>4 DEF OpenPcm
<1>8. CASE Server \/ UNCHANGED vars
  BY <1>8 DEF Server, ClientConnects, ClientStalls, ClientMoves, ClientLeaves,
              ServerCloses, vars, devVars
<1> QED
  BY <1>1, <1>2, <1>3, <1>5, <1>6, <1>7, <1>8 DEF Next, Calls, Run

\* Every step keeps the types of the mutexes, the rate, the server and the counts.
LEMMA RestTypesStep == AudioInv /\ [Next]_vars => RestTypes'
<1> SUFFICES ASSUME AudioInv, [Next]_vars PROVE RestTypes'
  OBVIOUS
<1> USE DEF AudioInv, TypeOK, RestTypes
<1>1. ASSUME NEW s \in Inputs, adev_open_input_stream(s) PROVE RestTypes'
  BY <1>1 DEF adev_open_input_stream, lockVars, serverVars
<1>2. ASSUME NEW t \in Threads, NEW o \in {"io", "standby", "close"}, NEW s \in Streams,
             Call(t, o, s)
      PROVE  RestTypes'
  BY <1>2 DEF Call, devVars, lockVars, serverVars
<1>3. ASSUME NEW t \in Threads, LockDevice(t) \/ IoBegin(t) PROVE RestTypes'
  <2>1. UNCHANGED <<alreadyTried, outRate, socket, client, faults>>
    BY <1>3 DEF LockDevice, IoBegin, devVars, serverVars
  <2>2. devLock' \in Threads \cup {NULL} /\ lock' \in [Streams -> Threads \cup {NULL}]
    BY <1>3 DEF LockDevice, IoBegin
  <2> QED
    BY <2>1, <2>2
<1>4. ASSUME NEW t \in Threads, StandbyCall(t) \/ Free(t) \/ StopOther(t) PROVE RestTypes'
  BY <1>4 DEF StandbyCall, Free, StopOther, lockVars, serverVars
<1>5. ASSUME NEW t \in Threads, Send(t) \/ Copy(t) PROVE RestTypes'
  BY <1>5 DEF Send, Copy, devVars, lockVars, serverVars
<1>6. ASSUME NEW t \in Threads, MovePcm(t) PROVE RestTypes'
  BY <1>6 DEF MovePcm, devVars, serverVars
<1>7. ASSUME NEW t \in Threads, OpenPcm(t) PROVE RestTypes'
  <2>1. devLock' = NULL /\ UNCHANGED <<socket, client>>
    BY <1>7 DEF OpenPcm, serverVars
  <2>2. lock' \in [Streams -> Threads \cup {NULL}]
    BY <1>7 DEF OpenPcm, Opened, NotOpened
  <2>3. faults' \in 0..MaxFaults
    BY <1>7 DEF OpenPcm, OpenFails
  <2>4. \/ UNCHANGED <<outRate, alreadyTried>>
        \/ ~alreadyTried /\ alreadyTried' = TRUE /\ outRate' = outRate - 1
    BY <1>7 DEF OpenPcm
  <2> QED
    BY <2>1, <2>2, <2>3, <2>4
<1>8. CASE Server \/ UNCHANGED vars
  <2>1. UNCHANGED <<alreadyTried, outRate, lock, devLock, faults>>
    BY <1>8 DEF Server, ClientConnects, ClientStalls, ClientMoves, ClientLeaves,
                ServerCloses, vars, devVars, lockVars
  <2>2. socket' = socket \/ socket' = TRUE \/ socket' = FALSE
    BY <1>8 DEF Server, ClientConnects, ClientStalls, ClientMoves, ClientLeaves,
                ServerCloses, vars, serverVars
  <2>3. client' \in {"none", "reading", "stalled"}
    BY <1>8 DEF Server, ClientConnects, ClientStalls, ClientMoves, ClientLeaves,
                ServerCloses, vars, serverVars
  <2> QED
    BY <2>1, <2>2, <2>3
<1> HIDE DEF AudioInv, TypeOK, RestTypes
<1> QED
  BY <1>1, <1>2, <1>3, <1>4, <1>5, <1>6, <1>7, <1>8 DEF Next, Calls, Run

\* Every step keeps all the types.
LEMMA TypeStep == AudioInv /\ [Next]_vars => TypeOK'
BY CallTypesStep, DevTypesStep, RestTypesStep
   DEF TypeOK, CallTypes, DevTypes, RestTypes

-----------------------------------------------------------------------------
\* The part of LockInv about the device.
ActiveInv ==
  /\ active["out"] \in {"out", NULL} /\ active["in"] \in Inputs \cup {NULL}
  /\ ActiveHasPcm

\* The output is lowered once, so that both of its rates are rates.
LEMMA RateFacts ==
  AudioInv => /\ outRate \in Nat \ {0}
              /\ ~alreadyTried => outRate - 1 \in Nat \ {0}
<1> SUFFICES ASSUME AudioInv
             PROVE  /\ outRate \in Nat \ {0}
                    /\ ~alreadyTried => outRate - 1 \in Nat \ {0}
  OBVIOUS
<1>1. <<alreadyTried, outRate>> \in {<<FALSE, OutRate>>, <<TRUE, OutRate - 1>>}
  BY DEF AudioInv, TypeOK
<1>2. \/ alreadyTried = FALSE /\ outRate = OutRate
      \/ alreadyTried = TRUE /\ outRate = OutRate - 1
  BY <1>1
<1> QED
  BY <1>2

\* Putting a stream to standby keeps the device and its streams in agreement.
LEMMA StandbyActive ==
  ASSUME AudioInv, NEW s \in Streams, do_standby(s), UNCHANGED exists
  PROVE  ActiveInv'
<1> USE DEF AudioInv, TypeOK, LockInv, ActiveInv
<1>1. active'["out"] \in {"out", NULL} /\ active'["in"] \in Inputs \cup {NULL}
  BY DEF do_standby, Dir
<1>2. ASSUME NEW r \in Streams
      PROVE  /\ standby'[r] <=> active'[Dir(r)] # r
             /\ standby'[r] <=> pcm'[r] = 0
             /\ ~standby'[r] => exists'[r]
  BY DEF ActiveHasPcm, do_standby, Dir, Streams
<1> QED
  BY <1>1, <1>2 DEF ActiveHasPcm

\* Opening a PCM makes its stream the only one of its direction that is active.
LEMMA OpenedActive ==
  ASSUME AudioInv, NEW t \in Threads, pc[t] = "open", NEW rate \in Nat \ {0},
         Opened(t, stream[t], rate), UNCHANGED exists,
         stream[t] = "out" \/ \A i \in Inputs : pcm[i] = 0
  PROVE  ActiveInv'
<1> USE DEF AudioInv, TypeOK, LockInv, ActiveInv
<1>1. stream[t] \in Streams /\ exists[stream[t]]
  BY DEF CallInv
<1>2. active'["out"] \in {"out", NULL} /\ active'["in"] \in Inputs \cup {NULL}
  BY <1>1 DEF Opened, Dir, Streams
<1>3. ASSUME NEW r \in Streams
      PROVE  /\ standby'[r] <=> active'[Dir(r)] # r
             /\ standby'[r] <=> pcm'[r] = 0
             /\ ~standby'[r] => exists'[r]
  <2>1. CASE r = stream[t]
    BY <1>1, <2>1 DEF Opened, Dir
  <2>2. CASE r # stream[t]
    <3>1. standby'[r] = standby[r] /\ pcm'[r] = pcm[r] /\ exists'[r] = exists[r]
      BY <2>2 DEF Opened
    <3>2. CASE Dir(r) # Dir(stream[t])
      BY <1>1, <3>1, <3>2 DEF Opened, ActiveHasPcm, Dir
    <3>3. CASE Dir(r) = Dir(stream[t])
      <4>1. r \in Inputs /\ pcm[r] = 0
        BY <1>1, <2>2, <3>3 DEF Dir, Streams
      <4>2. active'[Dir(r)] = stream[t]
        BY <1>1, <3>3 DEF Opened, Dir
      <4> QED
        BY <2>2, <3>1, <4>1, <4>2 DEF ActiveHasPcm
    <3> QED
      BY <3>2, <3>3
  <2> QED
    BY <2>1, <2>2
<1> QED
  BY <1>2, <1>3 DEF ActiveHasPcm

\* Every step keeps the active streams, the flags and the PCMs in agreement.
LEMMA ActiveStep == AudioInv /\ [Next]_vars => ActiveInv'
<1> SUFFICES ASSUME AudioInv, [Next]_vars PROVE ActiveInv'
  OBVIOUS
<1>1. ASSUME UNCHANGED <<active, exists, standby, pcm>> PROVE ActiveInv'
  BY <1>1 DEF AudioInv, LockInv, ActiveInv, ActiveHasPcm
<1>2. ASSUME NEW s \in Inputs, adev_open_input_stream(s) PROVE ActiveInv'
  BY <1>2 DEF AudioInv, TypeOK, LockInv, ActiveInv, ActiveHasPcm,
              adev_open_input_stream, Streams
<1>3. ASSUME NEW t \in Threads, StandbyCall(t) PROVE ActiveInv'
  <2>1. stream[t] \in Streams
    BY <1>3 DEF AudioInv, LockInv, CallInv, StandbyCall
  <2> QED
    BY <1>3, <2>1, StandbyActive DEF StandbyCall
<1>4. ASSUME NEW t \in Threads, StopOther(t) PROVE ActiveInv'
  <2>1. peer[t] \in Streams
    BY <1>4 DEF AudioInv, TypeOK, LockInv, CallInv, StopOther
  <2>2. CASE do_standby(peer[t])
    BY <1>4, <2>1, <2>2, StandbyActive DEF StopOther
  <2>3. CASE UNCHANGED <<standby, pcm, active>>
    BY <1>1, <1>4, <2>3 DEF StopOther
  <2> QED
    BY <1>4, <2>2, <2>3 DEF StopOther
<1>5. ASSUME NEW t \in Threads, Free(t) PROVE ActiveInv'
  <2>1. stream[t] \in Streams /\ standby[stream[t]]
    BY <1>5 DEF AudioInv, LockInv, CallInv, Free
  <2> QED
    BY <1>5, <2>1 DEF AudioInv, TypeOK, LockInv, ActiveInv, ActiveHasPcm, Free
<1>6. ASSUME NEW t \in Threads, OpenPcm(t) PROVE ActiveInv'
  <2>1. UNCHANGED exists /\ pc[t] = "open"
    BY <1>6 DEF OpenPcm
  <2>2. CASE NotOpened(t, stream[t])
    BY <1>1, <2>1, <2>2 DEF NotOpened
  <2>3. CASE /\ Opened(t, stream[t], Rate(stream[t]))
             /\ stream[t] = "out" \/ \A i \in Inputs : pcm[i] = 0
    <3>1. Rate(stream[t]) \in Nat \ {0}
      BY RateFacts DEF Rate
    <3> QED
      BY <2>1, <2>3, <3>1, OpenedActive
  <2>4. CASE /\ ~alreadyTried /\ outRate' = outRate - 1 /\ stream[t] = "out"
             /\ Opened(t, stream[t], outRate')
    <3>1. outRate' \in Nat \ {0}
      BY <2>4, RateFacts
    <3> QED
      BY <2>1, <2>4, <3>1, OpenedActive
  <2> QED
    BY <1>6, <2>2, <2>3, <2>4 DEF OpenPcm
<1>7. ASSUME NEW t \in Threads, Calls(t) PROVE ActiveInv'
  BY <1>1, <1>7 DEF Calls, Call, devVars
<1>8. ASSUME NEW t \in Threads,
             LockDevice(t) \/ IoBegin(t) \/ Send(t) \/ Copy(t) \/ MovePcm(t)
      PROVE  ActiveInv'
  BY <1>1, <1>8 DEF LockDevice, IoBegin, Send, Copy, MovePcm, devVars
<1>9. CASE Server \/ UNCHANGED vars
  BY <1>1, <1>9 DEF Server, ClientConnects, ClientStalls, ClientMoves, ClientLeaves,
              ServerCloses, vars, devVars
<1> QED
  BY <1>2, <1>3, <1>4, <1>5, <1>6, <1>7, <1>8, <1>9 DEF Next, Run

-----------------------------------------------------------------------------
\* A step of another thread keeps what u relies on when it leaves alone u's call, the
\* flag and the mutex of its stream, and the device if u holds it.
LEMMA Undisturbed ==
  ASSUME AudioInv, NEW t \in Threads, NEW u \in Threads, t # u,
         stream' \in {stream, [stream EXCEPT ![t] = NULL]},
         pc'[u] = pc[u], op'[u] = op[u], peer'[u] = peer[u],
         pc[u] # "idle" => exists'[stream[u]],
         pc[u] \in {"own", "other", "open"} => UNCHANGED <<devLock, active>>,
         pc[u] \in {"other", "open", "send", "copy", "pcm"} =>
           lock'[stream[u]] = lock[stream[u]],
         pc[u] \in {"other", "open", "free", "send", "copy", "pcm"} =>
           standby'[stream[u]] = standby[stream[u]]
  PROVE  CallInv(u)'
<1> USE DEF AudioInv, TypeOK, LockInv
<1>1. CallInv(u) /\ stream'[u] = stream[u]
  OBVIOUS
<1>2. op[u] = "close" => \A v \in Threads \ {u} : stream'[v] # stream[u]
  BY <1>1 DEF CallInv, Streams
<1> QED
  BY <1>1, <1>2 DEF CallInv

\* Every step keeps what a thread in a call relies on.
LEMMA CallStep ==
  ASSUME AudioInv, [Next]_vars, NEW u \in Threads
  PROVE  CallInv(u)'
<1> USE DEF AudioInv, TypeOK, LockInv
<1>0. CallInv(u)
  OBVIOUS
<1>1. ASSUME NEW s \in Inputs, adev_open_input_stream(s) PROVE CallInv(u)'
  BY <1>0, <1>1 DEF adev_open_input_stream, CallInv, Streams, lockVars
<1>2. ASSUME NEW t \in Threads, NEW o \in {"io", "standby", "close"}, NEW s \in Streams,
             Call(t, o, s)
      PROVE  CallInv(u)'
  <2>1. CASE t = u
    BY <1>2, <2>1 DEF Call, CallInv, Streams, devVars, lockVars
  <2>2. CASE t # u
    BY <1>0, <1>2, <2>2 DEF Call, CallInv, Streams, devVars, lockVars
  <2> QED
    BY <2>1, <2>2
<1>3. ASSUME NEW t \in Threads, LockDevice(t) PROVE CallInv(u)'
  BY <1>0, <1>3 DEF LockDevice, Goto, CallInv, devVars
<1>4. ASSUME NEW t \in Threads, StandbyCall(t) PROVE CallInv(u)'
  <2>1. CASE t = u
    BY <1>0, <1>4, <2>1 DEF StandbyCall, do_standby, Goto, Return, CallInv
  <2>2. CASE t # u
    <3>1. pc'[u] = pc[u] /\ op'[u] = op[u] /\ peer'[u] = peer[u] /\ exists' = exists
      BY <1>4, <2>2 DEF StandbyCall, Goto, Return
    <3>2. stream' \in {stream, [stream EXCEPT ![t] = NULL]} /\ lock' = lock
      BY <1>4 DEF StandbyCall, Goto, Return
    <3>3. pc[u] \notin {"own", "other", "open"}
      BY <1>0, <1>4, <2>2 DEF StandbyCall, CallInv
    <3>4. pc[u] \in {"free", "send", "copy", "pcm"} =>
            standby'[stream[u]] = standby[stream[u]]
      BY <1>0, <1>4 DEF StandbyCall, do_standby, CallInv
    <3>5. pc[u] # "idle" => exists[stream[u]]
      BY <1>0 DEF CallInv
    <3> HIDE DEF AudioInv, TypeOK, LockInv
    <3> QED
      BY <2>2, <3>1, <3>2, <3>3, <3>4, <3>5, Undisturbed
  <2> QED
    BY <2>1, <2>2
<1>5. ASSUME NEW t \in Threads, Free(t) PROVE CallInv(u)'
  <2>1. CASE t = u
    BY <1>0, <1>5, <2>1 DEF Free, Return, CallInv, lockVars
  <2>2. CASE t # u
    <3>1. op[t] = "close" /\ stream[t] # stream[u]
      BY <1>5, <2>2 DEF Free, CallInv
    <3>2. pc'[u] = pc[u] /\ op'[u] = op[u] /\ peer'[u] = peer[u]
      BY <1>5, <2>2 DEF Free, Return
    <3>3. /\ stream' = [stream EXCEPT ![t] = NULL]
          /\ UNCHANGED <<active, standby, devLock, lock>>
      BY <1>5 DEF Free, Return, lockVars
    <3>4. pc[u] # "idle" => exists'[stream[u]]
      BY <1>0, <1>5, <3>1 DEF Free, CallInv
    <3> HIDE DEF AudioInv, TypeOK, LockInv
    <3> QED
      BY <2>2, <3>2, <3>3, <3>4, Undisturbed
  <2> QED
    BY <2>1, <2>2
<1>6. ASSUME NEW t \in Threads, IoBegin(t) PROVE CallInv(u)'
  <2>1. CASE t = u
    BY <1>0, <1>6, <2>1 DEF IoBegin, Goto, CallInv, devVars
  <2>2. CASE t # u
    BY <1>0, <1>6, <2>2 DEF IoBegin, Goto, CallInv, devVars
  <2> QED
    BY <2>1, <2>2
<1>7. ASSUME NEW t \in Threads, StopOther(t) PROVE CallInv(u)'
  <2>1. CASE t = u
    BY <1>0, <1>7, <2>1 DEF StopOther, do_standby, Goto, CallInv, lockVars
  <2>2. CASE t # u
    BY <1>0, <1>7, <2>2 DEF StopOther, do_standby, Goto, CallInv, lockVars
  <2> QED
    BY <2>1, <2>2
<1>8. ASSUME NEW t \in Threads, OpenPcm(t) PROVE CallInv(u)'
  <2>1. CASE t = u
    BY <1>0, <1>8, <2>1 DEF OpenPcm, Opened, NotOpened, Goto, Return, CallInv
  <2>2. CASE t # u
    <3>1. pc'[u] = pc[u] /\ op'[u] = op[u] /\ peer'[u] = peer[u] /\ exists' = exists
      BY <1>8, <2>2 DEF OpenPcm, Opened, NotOpened, Goto, Return
    <3>2. stream' \in {stream, [stream EXCEPT ![t] = NULL]}
      BY <1>8 DEF OpenPcm, Opened, NotOpened, Goto, Return
    <3>3. pc[u] \notin {"own", "other", "open"} /\ lock[stream[t]] = t
      BY <1>0, <1>8, <2>2 DEF OpenPcm, CallInv
    <3>4. pc[u] \in {"send", "copy", "pcm"} => stream[u] # stream[t]
      BY <1>0, <2>2, <3>3 DEF CallInv
    <3>5. pc[u] = "free" => stream[u] # stream[t]
      BY <1>0, <2>2 DEF CallInv
    <3>6. /\ pc[u] \in {"send", "copy", "pcm"} => lock'[stream[u]] = lock[stream[u]]
          /\ pc[u] \in {"free", "send", "copy", "pcm"} =>
               standby'[stream[u]] = standby[stream[u]]
      BY <1>0, <1>8, <3>4, <3>5 DEF OpenPcm, Opened, NotOpened, CallInv
    <3>7. pc[u] # "idle" => exists[stream[u]]
      BY <1>0 DEF CallInv
    <3> HIDE DEF AudioInv, TypeOK, LockInv
    <3> QED
      BY <2>2, <3>1, <3>2, <3>3, <3>6, <3>7, Undisturbed
  <2> QED
    BY <2>1, <2>2
<1>9. ASSUME NEW t \in Threads, Send(t) \/ Copy(t) PROVE CallInv(u)'
  BY <1>0, <1>9 DEF Send, Copy, Goto, CallInv, devVars, lockVars
<1>10. ASSUME NEW t \in Threads, MovePcm(t) PROVE CallInv(u)'
  <2>1. CASE t = u
    BY <1>0, <1>10, <2>1 DEF MovePcm, Return, CallInv, devVars
  <2>2. CASE t # u
    <3>1. pc'[u] = pc[u] /\ op'[u] = op[u] /\ UNCHANGED <<peer, exists>>
      BY <1>10, <2>2 DEF MovePcm, Return, devVars
    <3>2. /\ stream' = [stream EXCEPT ![t] = NULL]
          /\ UNCHANGED <<devLock, active, standby>>
      BY <1>10 DEF MovePcm, Return, devVars
    <3>3. lock[stream[t]] = t
      BY <1>10 DEF MovePcm, CallInv
    <3>4. pc[u] \in {"other", "open", "send", "copy", "pcm"} =>
            lock'[stream[u]] = lock[stream[u]]
      BY <1>0, <1>10, <2>2, <3>3 DEF MovePcm, CallInv
    <3>5. pc[u] # "idle" => exists[stream[u]]
      BY <1>0 DEF CallInv
    <3> HIDE DEF AudioInv, TypeOK, LockInv
    <3> QED
      BY <2>2, <3>1, <3>2, <3>4, <3>5, Undisturbed
  <2> QED
    BY <2>1, <2>2
<1>11. CASE Server \/ UNCHANGED vars
  BY <1>0, <1>11 DEF Server, ClientConnects, ClientStalls, ClientMoves, ClientLeaves,
              ServerCloses, vars, callVars, devVars, lockVars, CallInv
<1> HIDE DEF AudioInv, TypeOK, LockInv
<1> QED
  BY <1>1, <1>2, <1>3, <1>4, <1>5, <1>6, <1>7, <1>8, <1>9, <1>10, <1>11
     DEF Next, Calls, Run

\* Every step keeps the invariant.
LEMMA AudioInvStep == AudioInv /\ [Next]_vars => AudioInv'
<1> SUFFICES ASSUME AudioInv, [Next]_vars PROVE AudioInv'
  OBVIOUS
<1>1. \A u \in Threads : CallInv(u)'
  BY CallStep
<1>2. TypeOK' /\ ActiveInv'
  BY TypeStep, ActiveStep
<1> QED
  BY <1>1, <1>2 DEF AudioInv, LockInv, ActiveInv

-----------------------------------------------------------------------------
\* AudioHal keeps its types, and the mutexes protect what the calls use, under
\* every interleaving of out_write, in_read, the standby calls and closing.
THEOREM MutexesProtect == Spec => [](TypeOK /\ LockInv)
<1>1. Init => AudioInv
  BY InitInv
<1>2. AudioInv /\ [Next]_vars => AudioInv'
  BY AudioInvStep
<1> QED
  BY <1>1, <1>2, PTL DEF Spec, AudioInv

\* The active streams are those whose PCM is open, and none of them was freed
\* (do_out_standby, start_output_stream, adev_close_input_stream).
THEOREM ActiveAgrees == Spec => []ActiveHasPcm
<1>1. TypeOK /\ LockInv => ActiveHasPcm
  BY DEF LockInv
<1> QED
  BY <1>1, MutexesProtect, PTL

\* A PCM stays open, and the mutex of its stream held, from the moment out_write or
\* in_read unlock the device to the end of the transfer.
THEOREM IoProtected == Spec => []PcmLiveDuringIo
<1>1. TypeOK /\ LockInv => PcmLiveDuringIo
  <2> SUFFICES ASSUME LockInv, NEW t \in Threads, pc[t] \in {"send", "copy", "pcm"}
               PROVE  lock[stream[t]] = t /\ pcm[stream[t]] # 0
    BY DEF PcmLiveDuringIo
  <2>1. stream[t] \in Streams /\ lock[stream[t]] = t /\ ~standby[stream[t]]
    BY DEF LockInv, CallInv
  <2> QED
    BY <2>1 DEF LockInv, ActiveHasPcm
<1> QED
  BY <1>1, MutexesProtect, PTL

\* While start_output_stream or start_input_stream waits for the mutex of the other
\* direction's stream, that stream stays active and is not freed.
THEOREM PeerStays == Spec => []PeerAlive
<1>1. TypeOK /\ LockInv => PeerAlive
  <2> SUFFICES ASSUME TypeOK, LockInv, NEW t \in Threads, pc[t] = "other"
               PROVE  /\ peer[t] \in Streams /\ exists[peer[t]]
                      /\ active[Other(stream[t])] = peer[t]
    BY DEF PeerAlive
  <2>1. peer[t] # NULL /\ peer[t] = active[Other(stream[t])]
    BY DEF LockInv, CallInv
  <2>2. peer[t] \in Streams /\ active[Dir(peer[t])] = peer[t]
    BY <2>1 DEF LockInv, Streams, Other, Dir
  <2> QED
    BY <2>1, <2>2 DEF LockInv, ActiveHasPcm
<1> QED
  BY <1>1, MutexesProtect, PTL

-----------------------------------------------------------------------------
\* A closed PCM is of the group of every rate.
LEMMA ClosedOneGroup == \A rate \in Nat : OneGroup(rate, 0)
BY DEF OneGroup

\* No PCM is open at first.
LEMMA InitRates == Init => RateInv
BY DEF Init, RateInv, Streams

\* Every step keeps the rates, and the output as an input that is being started needs it.
LEMMA RateStep == AudioInv /\ RateInv /\ [Next]_vars => RateInv'
<1> SUFFICES ASSUME AudioInv, RateInv, [Next]_vars PROVE RateInv'
  OBVIOUS
<1> USE DEF AudioInv, TypeOK, LockInv, RateInv
<1>1. ASSUME UNCHANGED <<pcm, outRate>>,
             \A t \in Threads : pc'[t] = "open" => pc[t] = "open" /\ stream'[t] = stream[t]
      PROVE  RateInv'
  BY <1>1
<1>2. ASSUME NEW s \in Inputs, adev_open_input_stream(s) PROVE RateInv'
  BY <1>1, <1>2 DEF adev_open_input_stream
<1>3. ASSUME NEW t \in Threads, NEW o \in {"io", "standby", "close"}, NEW s \in Streams,
             Call(t, o, s)
      PROVE  RateInv'
  BY <1>1, <1>3 DEF Call, devVars
<1>4. ASSUME NEW t \in Threads,
             LockDevice(t) \/ Free(t) \/ Send(t) \/ Copy(t) \/ MovePcm(t)
      PROVE  RateInv'
  BY <1>1, <1>4 DEF LockDevice, Free, Send, Copy, MovePcm, Goto, Return, devVars
<1>5. ASSUME NEW s \in Streams, do_standby(s)
      PROVE  \A r \in Streams : pcm'[r] \in {0, pcm[r]}
  BY <1>5 DEF do_standby
<1>6. ASSUME NEW t \in Threads, StandbyCall(t) PROVE RateInv'
  <2>1. \A r \in Streams : pcm'[r] \in {0, pcm[r]}
    BY <1>5, <1>6 DEF StandbyCall, CallInv
  <2>2. \A u \in Threads : pc'[u] = "open" => pc[u] = "open" /\ stream'[u] = stream[u]
    BY <1>6 DEF StandbyCall, Goto, Return
  <2> QED
    BY <1>6, <2>1, <2>2, ClosedOneGroup DEF StandbyCall, Streams
<1>7. ASSUME NEW t \in Threads, IoBegin(t) PROVE RateInv'
  <2>1. ASSUME NEW u \in Threads, pc'[u] = "open", stream'[u] \in Inputs
        PROVE  OneGroup(InRate, pcm["out"])
    <3>1. CASE pc[u] = "open"
      BY <1>7, <2>1, <3>1 DEF IoBegin, Goto
    <3>2. CASE pc[u] # "open"
      <4>1. active[Other(stream[u])] = NULL /\ stream[u] \in Inputs
        BY <1>7, <2>1, <3>2 DEF IoBegin, Goto
      <4>2. pcm["out"] = 0
        BY <4>1 DEF Other, ActiveHasPcm, Dir, Streams
      <4> QED
        BY <4>2, ClosedOneGroup
    <3> QED
      BY <3>1, <3>2
  <2> QED
    BY <1>7, <2>1 DEF IoBegin, devVars
<1>8. ASSUME NEW t \in Threads, StopOther(t) PROVE RateInv'
  <2>1. peer[t] \in Streams /\ peer[t] = active[Other(stream[t])] /\ stream[t] \in Streams
    BY <1>8 DEF StopOther, CallInv
  <2>2. \A r \in Streams : pcm'[r] \in {0, pcm[r]}
    BY <1>5, <1>8, <2>1 DEF StopOther
  <2>3. ASSUME stream[t] \in Inputs PROVE OneGroup(InRate, pcm'["out"])
    <3>1. peer[t] = "out" /\ stream[t] # "out"
      BY <2>1, <2>3 DEF Other, Streams
    <3>2. CASE Incompatible(stream[t], peer[t])
      <4>1. do_standby("out")
        BY <1>8, <3>1, <3>2 DEF StopOther
      <4>a. ~standby["out"]
        BY <2>1, <3>1 DEF ActiveHasPcm, Dir, Streams, Other
      <4>2. pcm'["out"] = 0
        BY <4>1, <4>a DEF do_standby, Streams
      <4> QED
        BY <4>2, ClosedOneGroup
    <3>3. CASE ~Incompatible(stream[t], peer[t])
      <4>1. OneGroup(InRate, outRate)
        BY <3>1, <3>3 DEF Incompatible, Rate, OneGroup
      <4>2. pcm'["out"] \in {0, outRate}
        BY <2>2 DEF Streams
      <4> QED
        BY <4>1, <4>2, ClosedOneGroup
    <3> QED
      BY <3>2, <3>3
  <2>4. \A u \in Threads : u # t => pc'[u] # "open"
    BY <1>8 DEF StopOther, Goto, CallInv
  <2>5. stream' = stream /\ outRate' = outRate
    BY <1>8 DEF StopOther, Goto
  <2> QED
    BY <2>2, <2>3, <2>4, <2>5 DEF Streams
<1>9. ASSUME NEW t \in Threads, OpenPcm(t) PROVE RateInv'
  <2>1. \A u \in Threads : pc'[u] # "open"
    BY <1>9 DEF OpenPcm, Opened, NotOpened, Goto, Return, CallInv
  <2>2. stream[t] \in Streams /\ pcm[stream[t]] = 0
    BY <1>9 DEF OpenPcm, CallInv, ActiveHasPcm
  <2>3. CASE NotOpened(t, stream[t])
    BY <1>9, <2>1, <2>2, <2>3 DEF OpenPcm, NotOpened
  <2>4. CASE Opened(t, stream[t], Rate(stream[t])) /\ UNCHANGED outRate
    BY <2>1, <2>2, <2>4 DEF Opened, Rate, Streams
  <2>5. CASE Opened(t, stream[t], outRate') /\ stream[t] = "out"
    BY <2>1, <2>2, <2>5 DEF Opened, Streams
  <2> QED
    BY <1>9, <2>3, <2>4, <2>5 DEF OpenPcm
<1>10. CASE Server \/ UNCHANGED vars
  BY <1>1, <1>10 DEF Server, ClientConnects, ClientStalls, ClientMoves, ClientLeaves,
               ServerCloses, vars, callVars, devVars
<1> HIDE DEF AudioInv, TypeOK, LockInv, RateInv
<1> QED
  BY <1>2, <1>3, <1>4, <1>6, <1>7, <1>8, <1>9, <1>10 DEF Next, Calls, Run

\* A step that opens the PCM of an input is that input's, and leaves the output alone.
LEMMA InputOpens ==
  ASSUME AudioInv, RateInv, Next, NEW i \in Inputs, pcm[i] = 0, pcm'[i] # 0
  PROVE  OneGroup(pcm'[i], pcm'["out"])
<1> USE DEF AudioInv, TypeOK, LockInv
<1>1. ASSUME NEW t \in Threads, OpenPcm(t) PROVE OneGroup(pcm'[i], pcm'["out"])
  <2>1. pc[t] = "open" /\ stream[t] = i
    BY <1>1 DEF OpenPcm, Opened, NotOpened, Streams
  <2>2. OneGroup(InRate, pcm["out"])
    BY <2>1 DEF RateInv
  <2>3. pcm'[i] = InRate /\ pcm'["out"] = pcm["out"]
    BY <1>1, <2>1 DEF OpenPcm, Opened, NotOpened, Rate, Streams
  <2> QED
    BY <2>2, <2>3
<1>2. ASSUME NEW t \in Threads, StandbyCall(t) \/ StopOther(t) PROVE FALSE
  BY <1>2 DEF StandbyCall, StopOther, do_standby, Streams
<1>3. ASSUME UNCHANGED pcm PROVE FALSE
  BY <1>3
<1>4. ASSUME NEW t \in Threads,
             Calls(t) \/ LockDevice(t) \/ Free(t) \/ IoBegin(t) \/ Send(t) \/ Copy(t)
             \/ MovePcm(t)
      PROVE  UNCHANGED pcm
  BY <1>4 DEF Calls, Call, LockDevice, Free, IoBegin, Send, Copy, MovePcm, devVars
<1>5. ASSUME Server \/ \E s \in Inputs : adev_open_input_stream(s) PROVE UNCHANGED pcm
  BY <1>5 DEF Server, ClientConnects, ClientStalls, ClientMoves, ClientLeaves,
              ServerCloses, devVars, adev_open_input_stream
<1> HIDE DEF AudioInv, TypeOK, LockInv
<1> QED
  BY <1>1, <1>2, <1>3, <1>4, <1>5 DEF Next, Run

\* An input is never opened beside an output of another group of rates: the device is
\* held from the test of start_input_stream to its pcm_open.
THEOREM InputRates == Spec => InputKeepsRateGroup
<1>1. Init => AudioInv /\ RateInv
  BY InitInv, InitRates
<1>2. AudioInv /\ RateInv /\ [Next]_vars => (AudioInv /\ RateInv)'
  BY AudioInvStep, RateStep
<1>3. AudioInv /\ RateInv /\ [Next]_vars =>
        [\A i \in Inputs : pcm[i] = 0 /\ pcm'[i] # 0 => OneGroup(pcm'[i], pcm'["out"])]_vars
  BY InputOpens
<1> QED
  BY <1>1, <1>2, <1>3, PTL DEF Spec, InputKeepsRateGroup
=============================================================================
