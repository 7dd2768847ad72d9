------------------------ MODULE EmulatedCameraProofs ------------------------
(***************************************************************************)
(* Proofs about EmulatedCamera, for every set of buffers, every set of     *)
(* preview formats and every bound on the failures: its types, the         *)
(* delivery of frames, the buffers that are lost, and, while nothing has   *)
(* failed, the preview and the closing of the camera.  Those that depend   *)
(* on when a spawned worker first runs assume PromptSpawn.                 *)
(***************************************************************************)
EXTENDS EmulatedCamera, FiniteSetTheorems, TLAPS

USE CameraAssumption

\* The geometries a device is given.
LEMMA GeometryTypes ==
  /\ NoGeometry \in Geometries
  /\ \A s \in Sizes, f \in {"NV21", "YUV420"} :
       [size |-> s, fmt |-> f] \in Geometries
BY DEF Geometries

\* A step of the framework keeps every variable that is not a flag in its range.
LEMMA ApiKeepsData ==
  ASSUME DataOK, ApiCall \/ ApiStep
  PROVE  DataOK'
<1> USE GeometryTypes DEF DataOK, FwLabels, WorkerLabels, States, Sizes, Idle,
               Fault, fwVars, halVars, devVars, wrkVars, Goto, Return,
               stopDeliveringFrames
<1>1. CASE OpenCamera
  BY <1>1 DEF OpenCamera, connectDevice
<1>2. CASE SetCallbacks \/ SetMessages \/ SetParameters
  BY <1>2 DEF SetCallbacks, SetMessages, SetParameters
<1>3. CASE StartPreview \/ StopPreview \/ TakePicture \/ CleanupCamera
  BY <1>3 DEF StartPreview, StopPreview, TakePicture, CleanupCamera
<1>4. CASE JoinWorker
  BY <1>4 DEF JoinWorker
<1>5. CASE SpBegin \/ TpCheck \/ ClCheck \/ StBegin
  BY <1>5 DEF SpBegin, TpCheck, ClCheck, StBegin
<1>6. CASE SpStopDevice \/ SpUndo \/ StDevice \/ TpStopDevice \/ ClStopDevice
  BY <1>6 DEF SpStopDevice, SpUndo, StDevice, TpStopDevice, ClStopDevice,
     stopDevice
<1>7. CASE SpConnect \/ ClDisconnect
  BY <1>7 DEF SpConnect, ClDisconnect, connectDevice, disconnectDevice
<1>8. CASE SpStart \/ TpStart
  <2>1. PICK ok \in BOOLEAN, size \in Sizes, fmt \in PreviewFormats \cup {"NV21"} :
          startDevice(size, fmt, ok)
    BY <1>8 DEF SpStart, TpStart
  <2>2. /\ state' \in States /\ geometry' \in Geometries
        /\ bufferSize' \in Sizes \cup {"none"}
        /\ currentFrame' \in Buffers \cup {NULL}
        /\ heap' \in [Buffers -> Sizes \cup {"free"}]
        /\ faults' \in 0..MaxFaults
    BY <2>1 DEF startDevice
  <2>3. QED
    BY <1>8, <2>2 DEF SpStart, TpStart
<1>9. CASE SpDeliver \/ TpDeliver
  BY <1>9 DEF SpDeliver, TpDeliver, startDeliveringFrames
<1>10. CASE SpWindow \/ TpTaking \/ ClNotifier
  BY <1>10 DEF SpWindow, TpTaking, ClNotifier
<1>11. QED
  BY <1>1, <1>2, <1>3, <1>4, <1>5, <1>6, <1>7, <1>8, <1>9, <1>10
  DEF ApiCall, ApiStep

\* A step of the framework keeps every flag a Boolean.
LEMMA ApiKeepsFlags ==
  ASSUME FlagsOK, ApiCall \/ ApiStep
  PROVE  FlagsOK'
<1> USE DEF FlagsOK, fwVars, halVars, devVars, wrkVars, Goto, Return,
            stopDeliveringFrames, startDeliveringFrames
<1>1. CASE OpenCamera
  BY <1>1 DEF OpenCamera
<1>2. CASE SetCallbacks
  BY <1>2 DEF SetCallbacks
<1>3. CASE SetMessages
  BY <1>3 DEF SetMessages
<1>4. CASE SetParameters
  BY <1>4 DEF SetParameters
<1>5. CASE StartPreview
  BY <1>5 DEF StartPreview
<1>6. CASE StopPreview
  BY <1>6 DEF StopPreview
<1>7. CASE TakePicture
  BY <1>7 DEF TakePicture
<1>8. CASE CleanupCamera
  BY <1>8 DEF CleanupCamera
<1>9. CASE JoinWorker
  BY <1>9 DEF JoinWorker
<1>10. CASE SpBegin
  BY <1>10 DEF SpBegin
<1>11. CASE SpStopDevice
  BY <1>11 DEF SpStopDevice
<1>12. CASE SpWindow
  BY <1>12 DEF SpWindow
<1>13. CASE SpConnect
  BY <1>13 DEF SpConnect
<1>14. CASE SpStart
  BY <1>14 DEF SpStart
<1>15. CASE SpDeliver
  BY <1>15 DEF SpDeliver
<1>16. CASE SpUndo
  BY <1>16 DEF SpUndo
<1>17. CASE StBegin
  BY <1>17, ZenonT(60) DEF StBegin
<1>18. CASE StDevice
  BY <1>18 DEF StDevice
<1>19. CASE TpCheck
  BY <1>19 DEF TpCheck
<1>20. CASE TpStopDevice
  BY <1>20 DEF TpStopDevice
<1>21. CASE TpStart
  BY <1>21 DEF TpStart
<1>22. CASE TpTaking
  BY <1>22 DEF TpTaking
<1>23. CASE TpDeliver
  BY <1>23 DEF TpDeliver
<1>24. CASE ClCheck
  BY <1>24 DEF ClCheck
<1>25. CASE ClStopDevice
  BY <1>25, ZenonT(60) DEF ClStopDevice
<1>26. CASE ClDisconnect
  BY <1>26, ZenonT(60) DEF ClDisconnect
<1>27. CASE ClNotifier
  BY <1>27 DEF ClNotifier
<1>28. QED
  BY <1>1, <1>2, <1>3, <1>4, <1>5, <1>6, <1>7, <1>8, <1>9, <1>10, <1>11,
     <1>12, <1>13, <1>14, <1>15, <1>16, <1>17, <1>18, <1>19, <1>20,
     <1>21, <1>22, <1>23, <1>24, <1>25, <1>26, <1>27
  DEF ApiCall, ApiStep

\* A step of the worker keeps the type invariant.
LEMMA WorkerKeepsType ==
  ASSUME TypeOK, Worker
  PROVE  TypeOK'
<1> USE DEF fwVars, halVars, devVars, WorkerExits
<1>1. DataOK'
  BY DEF TypeOK, DataOK, WorkerLabels, Fault, Worker, WkReady, WkSelect,
     WkQueryDone, WkDeliver, WkLoopEnd
<1>2. FlagsOK'
  <2> USE DEF TypeOK, FlagsOK
  <2>1. CASE WkReady
    BY <2>1 DEF WkReady
  <2>2. CASE WkSelect
    BY <2>2 DEF WkSelect
  <2>3. CASE WkQueryDone
    BY <2>3 DEF WkQueryDone
  <2>4. CASE WkDeliver
    BY <2>4 DEF WkDeliver
  <2>5. CASE WkLoopEnd
    BY <2>5 DEF WkLoopEnd
  <2>6. QED
    BY <2>1, <2>2, <2>3, <2>4, <2>5 DEF Worker
<1>3. QED
  BY <1>1, <1>2 DEF TypeOK

\* Every variable keeps its type, whichever thread moves: the type invariant of
\* the camera HAL (EmulatedCamera, its device and its worker).
THEOREM TypeCorrect == Spec => []TypeOK
<1>1. Init => TypeOK
  <2>1. Init => DataOK
    BY GeometryTypes DEF Init, DataOK, FwLabels, WorkerLabels, States, Sizes
  <2>2. Init => FlagsOK
    BY DEF Init, FlagsOK
  <2>3. QED
    BY <2>1, <2>2 DEF TypeOK
<1>2. TypeOK /\ [Next]_vars => TypeOK'
  <2> SUFFICES ASSUME TypeOK, [Next]_vars
               PROVE  TypeOK'
    OBVIOUS
  <2>1. CASE UNCHANGED vars
    <3>1. DataOK'
      BY <2>1 DEF vars, fwVars, halVars, devVars, wrkVars, TypeOK, DataOK
    <3>2. FlagsOK'
      BY <2>1 DEF vars, fwVars, halVars, devVars, wrkVars, TypeOK, FlagsOK
    <3>3. QED
      BY <3>1, <3>2 DEF TypeOK
  <2>2. QED
    BY <2>1, ApiKeepsData, ApiKeepsFlags, WorkerKeepsType DEF Next, TypeOK
<1>3. QED
  BY <1>1, <1>2, PTL DEF Spec

-----------------------------------------------------------------------------
\* The delivery invariant is preserved by a step of the framework.
LEMMA ApiKeepsDelivery ==
  ASSUME PromptSpawn, TypeOK, DeliveryInv, ApiCall \/ ApiStep
  PROVE  DeliveryInv'
<1> USE DEF DeliveryInv, WorkerAllowed, PipeFollowsWorker, isStarted,
            isConnected, Idle, Fault, fwVars, halVars, devVars, wrkVars
<1>1. CASE OpenCamera
  BY <1>1 DEF OpenCamera, connectDevice
<1>2. CASE SetCallbacks \/ SetMessages \/ SetParameters
  BY <1>2 DEF SetCallbacks, SetMessages, SetParameters
<1>3. CASE StartPreview \/ StopPreview \/ TakePicture \/ CleanupCamera
  BY <1>3 DEF StartPreview, StopPreview, TakePicture, CleanupCamera, Goto
<1>4. CASE JoinWorker
  BY <1>4 DEF JoinWorker
<1>5. CASE SpBegin \/ TpCheck \/ ClCheck \/ StBegin
  BY <1>5 DEF SpBegin, TpCheck, ClCheck, StBegin, stopDeliveringFrames, TypeOK,
     DataOK, WorkerLabels
<1>6. CASE SpStopDevice \/ SpUndo \/ StDevice \/ TpStopDevice \/ ClStopDevice
  BY <1>6 DEF SpStopDevice, SpUndo, StDevice, TpStopDevice, ClStopDevice,
     stopDevice, Goto, Return, TypeOK, DataOK
<1>7. CASE SpConnect \/ ClDisconnect
  BY <1>7 DEF SpConnect, ClDisconnect, connectDevice, disconnectDevice, Goto,
     Return
<1>8. CASE SpStart \/ TpStart
  BY <1>8 DEF SpStart, TpStart, startDevice, Goto, TypeOK, DataOK
<1>9. CASE SpDeliver \/ TpDeliver
  BY <1>9 DEF SpDeliver, TpDeliver, startDeliveringFrames, Goto
<1>10. CASE SpWindow \/ TpTaking \/ ClNotifier
  BY <1>10 DEF SpWindow, TpTaking, ClNotifier, Goto, Return
<1>11. QED
  BY <1>1, <1>2, <1>3, <1>4, <1>5, <1>6, <1>7, <1>8, <1>9, <1>10
  DEF ApiCall, ApiStep

\* The delivery invariant is preserved by a step of the worker.
LEMMA WorkerKeepsDelivery ==
  ASSUME TypeOK, DeliveryInv, Worker
  PROVE  DeliveryInv'
<1> USE DEF DeliveryInv, WorkerAllowed, PipeFollowsWorker, isStarted, Fault,
            WorkerExits, fwVars, halVars, devVars, wrkVars
<1>1. CASE WkReady
  BY <1>1 DEF WkReady
<1>2. CASE WkSelect
  BY <1>2 DEF WkSelect
<1>3. CASE WkQueryDone
  BY <1>3 DEF WkQueryDone
<1>4. CASE WkDeliver
  BY <1>4 DEF WkDeliver, TypeOK, DataOK
<1>5. CASE WkLoopEnd
  BY <1>5 DEF WkLoopEnd
<1>6. QED
  BY <1>1, <1>2, <1>3, <1>4, <1>5 DEF Worker

\* When a new worker always opens its pipe before the framework comes back to
\* stop it, the delivery invariant holds throughout.
THEOREM DeliveryCorrect == PromptSpawn /\ Spec => []DeliveryInv
<1> SUFFICES ASSUME PromptSpawn
             PROVE  Spec => []DeliveryInv
  OBVIOUS
<1>1. Init => DeliveryInv
  BY DEF Init, DeliveryInv, PipeFollowsWorker, isStarted, WorkerAllowed
<1>2. TypeOK /\ DeliveryInv /\ [Next]_vars => DeliveryInv'
  <2> SUFFICES ASSUME TypeOK, DeliveryInv, [Next]_vars
               PROVE  DeliveryInv'
    OBVIOUS
  <2>1. CASE UNCHANGED vars
    BY <2>1 DEF vars, fwVars, halVars, devVars, wrkVars, DeliveryInv,
       PipeFollowsWorker, isStarted
  <2>2. QED
    BY <2>1, ApiKeepsDelivery, WorkerKeepsDelivery DEF Next
<1>3. QED
  BY <1>1, <1>2, TypeCorrect, PTL DEF Spec

-----------------------------------------------------------------------------
\* The safety of the frame delivery: one query at a time on the socket, a live
\* frame buffer of the right size under every frame, no worker left behind by a
\* stopped device, a pipe for every worker, one frame per burst.
THEOREM DeliverySafe ==
  PromptSpawn /\ Spec => [](/\ OneQueryAtATime
                            /\ FrameBufferLive
                            /\ StoppedDeviceHasNoWorker
                            /\ PipeFollowsWorker
                            /\ BurstDeliversOne)
<1>1. DeliveryInv =>
        /\ OneQueryAtATime /\ FrameBufferLive /\ StoppedDeviceHasNoWorker
        /\ PipeFollowsWorker /\ BurstDeliversOne
  BY DEF DeliveryInv, OneQueryAtATime, FrameBufferLive, StoppedDeviceHasNoWorker,
     BurstDeliversOne, FrameworkQueries, WorkerAllowed, isStarted, isConnected,
     Idle
<1>2. QED
  BY <1>1, DeliveryCorrect, PTL

\* Every frame in flight uses an allocated buffer of the size the service was
\* asked for.
THEOREM FramesInLiveBuffers == PromptSpawn /\ Spec => []FrameBufferLive
BY DeliverySafe, PTL

\* A device that is not started has no worker between two calls.
THEOREM NoWorkerLeft == PromptSpawn /\ Spec => []StoppedDeviceHasNoWorker
BY DeliverySafe, PTL

\* A burst delivers one frame at the most.
THEOREM OneFramePerBurst == PromptSpawn /\ Spec => []BurstDeliversOne
BY DeliverySafe, PTL

\* No call of the framework stops, restarts or reallocates the device while the
\* worker has a frame in flight.
THEOREM DeviceStable == PromptSpawn /\ Spec => DeviceStableDuringFrame
<1>1. ASSUME TypeOK, DeliveryInv, [Next]_vars, wpc \in {"query", "deliver"}
      PROVE  UNCHANGED <<state, geometry, currentFrame, bufferSize>>
  <2> USE <1>1 DEF DeliveryInv, WorkerAllowed, isStarted, isConnected, Idle,
              fwVars, halVars, devVars, wrkVars
  <2>1. CASE ApiCall
    BY <2>1 DEF ApiCall, OpenCamera, SetCallbacks, SetMessages, SetParameters,
       StartPreview, StopPreview, TakePicture, CleanupCamera, connectDevice
  <2>2. CASE ApiStep
    BY <2>2 DEF ApiStep, JoinWorker, SpBegin, SpStopDevice, SpWindow, SpConnect,
       SpStart, SpDeliver, SpUndo, StBegin, StDevice, TpCheck, TpStopDevice,
       TpStart, TpTaking, TpDeliver, ClCheck, ClStopDevice, ClDisconnect,
       ClNotifier
  <2>3. CASE Worker
    BY <2>3 DEF Worker, WkReady, WkSelect, WkQueryDone, WkDeliver, WkLoopEnd
  <2>4. QED
    BY <2>1, <2>2, <2>3 DEF Next, vars
<1>2. TypeOK /\ DeliveryInv /\ [Next]_vars =>
        [(wpc \in {"query", "deliver"}) =>
           UNCHANGED <<state, geometry, currentFrame, bufferSize>>]_vars
  BY <1>1
<1>3. QED
  BY <1>2, TypeCorrect, DeliveryCorrect, PTL DEF Spec, DeviceStableDuringFrame

\* cleanupCBNotifier never clears the callback pointers of a running worker.
THEOREM CallbacksSafe == PromptSpawn /\ Spec => CallbacksOutliveWorker
<1>1. ASSUME DeliveryInv, [Next]_vars, callbacks, wpc # "none"
      PROVE  callbacks'
  <2> USE <1>1 DEF DeliveryInv, WorkerAllowed, fwVars, halVars, devVars, wrkVars
  <2>1. CASE ApiCall
    BY <2>1 DEF ApiCall, OpenCamera, SetCallbacks, SetMessages, SetParameters,
       StartPreview, StopPreview, TakePicture, CleanupCamera
  <2>2. CASE ApiStep
    BY <2>2 DEF ApiStep, JoinWorker, SpBegin, SpStopDevice, SpWindow, SpConnect,
       SpStart, SpDeliver, SpUndo, StBegin, StDevice, TpCheck, TpStopDevice,
       TpStart, TpTaking, TpDeliver, ClCheck, ClStopDevice, ClDisconnect,
       ClNotifier
  <2>3. CASE Worker
    BY <2>3 DEF Worker, WkReady, WkSelect, WkQueryDone, WkDeliver, WkLoopEnd
  <2>4. QED
    BY <2>1, <2>2, <2>3 DEF Next, vars
<1>2. DeliveryInv /\ [Next]_vars =>
        [callbacks /\ wpc # "none" => callbacks']_vars
  BY <1>1
<1>3. QED
  BY <1>2, DeliveryCorrect, PTL DEF Spec, CallbacksOutliveWorker

-----------------------------------------------------------------------------
(* The frame buffers.  Nothing is assumed of the worker here: only the      *)
(* framework allocates and frees them.                                      *)

Allocated == {b \in Buffers : heap[b] # "free"}

\* A started device owns one buffer; every other allocated buffer, and every one
\* while the device is not started, was paid for by a start that was refused.
OrphanInv ==
  /\ IsFiniteSet(Allocated)
  /\ Cardinality(IF isStarted THEN Allocated \ {currentFrame} ELSE Allocated)
       <= faults

\* A step that leaves the device alone keeps OrphanInv.
LEMMA SameDeviceKeepsOrphans ==
  ASSUME TypeOK, OrphanInv, UNCHANGED <<state, currentFrame, heap>>,
         faults' \in {faults, faults + 1}
  PROVE  OrphanInv'
<1>1. Allocated' = Allocated
  BY DEF Allocated
<1>2. DEFINE O == IF isStarted THEN Allocated \ {currentFrame} ELSE Allocated
<1>3. Cardinality(O) \in Nat
  BY FS_CardinalityType, FS_Difference, FS_Singleton DEF OrphanInv
<1> QED
  BY <1>1, <1>3 DEF OrphanInv, isStarted, TypeOK, DataOK

\* connectDevice and disconnectDevice move between states that are not started.
LEMMA ConnectionKeepsOrphans ==
  ASSUME TypeOK, OrphanInv, NEW ok \in BOOLEAN,
         connectDevice(ok) \/ disconnectDevice(ok)
  PROVE  OrphanInv'
<1> USE DEF connectDevice, disconnectDevice, isStarted, isConnected, devVars, Fault
<1>1. Allocated' = Allocated /\ currentFrame' = currentFrame
  BY DEF Allocated
<1>2. isStarted' <=> isStarted
  BY DEF TypeOK, DataOK
<1>3. faults' \in {faults, faults + 1}
  OBVIOUS
<1>4. Cardinality(IF isStarted THEN Allocated \ {currentFrame} ELSE Allocated) \in Nat
  BY FS_CardinalityType, FS_Difference, FS_Singleton DEF OrphanInv
<1> QED
  BY <1>1, <1>2, <1>3, <1>4 DEF OrphanInv, TypeOK, DataOK

\* startDevice allocates one buffer, which the device owns if it starts and which
\* is lost with the failure if it does not.
LEMMA StartKeepsOrphans ==
  ASSUME TypeOK, OrphanInv, NEW ok \in BOOLEAN, NEW size \in Sizes, NEW fmt,
         startDevice(size, fmt, ok)
  PROVE  OrphanInv'
<1>1. CASE UNCHANGED <<devVars, faults>>
  BY <1>1, SameDeviceKeepsOrphans DEF devVars
<1>2. CASE ~UNCHANGED <<devVars, faults>>
  <2>1. PICK b \in Buffers :
          /\ state = "CONNECTED" /\ heap[b] = "free"
          /\ heap' = [heap EXCEPT ![b] = size] /\ currentFrame' = b
          /\ \/ state' = "STARTED" /\ UNCHANGED faults
             \/ Fault /\ UNCHANGED state
    BY <1>2 DEF startDevice
  <2>2. Allocated' = Allocated \cup {b} /\ b \notin Allocated
    BY <2>1 DEF Allocated, TypeOK, DataOK, Sizes
  <2>3. IsFiniteSet(Allocated) /\ Cardinality(Allocated) <= faults
    BY <2>1 DEF OrphanInv, isStarted
  <2>4. /\ IsFiniteSet(Allocated')
        /\ Cardinality(Allocated') = Cardinality(Allocated) + 1
        /\ Allocated' \ {b} = Allocated
    BY <2>2, <2>3, FS_AddElement
  <2>5. Cardinality(Allocated) \in Nat
    BY <2>3, FS_CardinalityType
  <2>6. CASE state' = "STARTED" /\ UNCHANGED faults
    BY <2>1, <2>3, <2>4, <2>6 DEF OrphanInv, isStarted
  <2>7. CASE Fault /\ UNCHANGED state
    BY <2>1, <2>3, <2>4, <2>5, <2>7 DEF OrphanInv, isStarted, Fault, TypeOK, DataOK
  <2> QED BY <2>1, <2>6, <2>7
<1> QED BY <1>1, <1>2

\* stopDevice frees the buffer the started device owns.
LEMMA StopKeepsOrphans ==
  ASSUME TypeOK, OrphanInv, NEW ok \in BOOLEAN, stopDevice(ok)
  PROVE  OrphanInv'
<1>1. CASE UNCHANGED devVars
  BY <1>1, SameDeviceKeepsOrphans DEF stopDevice, devVars, Fault
<1>2. CASE ~UNCHANGED devVars
  <2>1. /\ isStarted /\ state' = "CONNECTED"
        /\ heap' = [b \in Buffers |-> IF b = currentFrame THEN "free" ELSE heap[b]]
        /\ UNCHANGED faults
    BY <1>2 DEF stopDevice
  <2>2. Allocated' = Allocated \ {currentFrame}
    BY <2>1 DEF Allocated
  <2>3. IsFiniteSet(Allocated')
    BY <2>2, FS_Difference DEF OrphanInv
  <2> QED BY <2>1, <2>2, <2>3 DEF OrphanInv, isStarted
<1> QED BY <1>1, <1>2

\* OrphanInv is inductive.
THEOREM OrphansCounted == Spec => []OrphanInv
<1>1. Init => OrphanInv
  <2> SUFFICES ASSUME Init PROVE OrphanInv
    OBVIOUS
  <2>1. Allocated = {} BY DEF Init, Allocated
  <2> QED BY <2>1, FS_EmptySet DEF Init, OrphanInv, isStarted
<1>2. TypeOK /\ OrphanInv /\ [Next]_vars => OrphanInv'
  <2> SUFFICES ASSUME TypeOK, OrphanInv, [Next]_vars
               PROVE  OrphanInv'
    OBVIOUS
  <2> USE DEF fwVars, halVars, devVars, wrkVars, Fault
  <2>1. CASE OpenCamera \/ SpConnect \/ ClDisconnect
    BY <2>1, ConnectionKeepsOrphans DEF OpenCamera, SpConnect, ClDisconnect
  <2>2. CASE SpStart \/ TpStart
    BY <2>2, StartKeepsOrphans DEF SpStart, TpStart, Sizes
  <2>3. CASE SpStopDevice \/ SpUndo \/ StDevice \/ TpStopDevice \/ ClStopDevice
    BY <2>3, StopKeepsOrphans
    DEF SpStopDevice, SpUndo, StDevice, TpStopDevice, ClStopDevice
  <2>4. CASE SetCallbacks \/ SetMessages \/ SetParameters \/ StartPreview
             \/ StopPreview \/ TakePicture \/ CleanupCamera
    BY <2>4, SameDeviceKeepsOrphans DEF SetCallbacks, SetMessages, SetParameters,
       StartPreview, StopPreview, TakePicture, CleanupCamera
  <2>5. CASE JoinWorker \/ SpBegin \/ SpWindow \/ SpDeliver \/ StBegin \/ TpCheck
             \/ TpTaking \/ TpDeliver \/ ClCheck \/ ClNotifier
    BY <2>5, SameDeviceKeepsOrphans DEF JoinWorker, SpBegin, SpWindow, SpDeliver,
       StBegin, TpCheck, TpTaking, TpDeliver, ClCheck, ClNotifier,
       startDeliveringFrames
  <2>6. CASE Worker
    BY <2>6, SameDeviceKeepsOrphans DEF Worker, WkReady, WkSelect, WkQueryDone,
       WkDeliver, WkLoopEnd
  <2>7. CASE UNCHANGED vars
    BY <2>7, SameDeviceKeepsOrphans DEF vars
  <2> QED
    BY <2>1, <2>2, <2>3, <2>4, <2>5, <2>6, <2>7 DEF Next, ApiCall, ApiStep
<1> QED BY <1>1, <1>2, TypeCorrect, PTL DEF Spec

\* However many starts are refused, and whatever the worker does meanwhile, the
\* device never loses more frame buffers than there were failures.
THEOREM OrphansBounded == Spec => []NoOrphanBuffer
<1>1. TypeOK /\ OrphanInv => NoOrphanBuffer
  <2> SUFFICES ASSUME TypeOK, OrphanInv PROVE NoOrphanBuffer
    OBVIOUS
  <2>1. IsFiniteSet(Allocated) /\ Allocated \ {currentFrame} \subseteq Allocated
    BY DEF OrphanInv
  <2>2. /\ Cardinality(Allocated \ {currentFrame}) <= Cardinality(Allocated)
        /\ Cardinality(Allocated) \in Nat
        /\ Cardinality(Allocated \ {currentFrame}) \in Nat
    BY <2>1, FS_Subset, FS_CardinalityType
  <2> QED BY <2>2 DEF OrphanInv, NoOrphanBuffer, Allocated, TypeOK, DataOK
<1> QED BY <1>1, TypeCorrect, OrphansCounted, PTL

-----------------------------------------------------------------------------
(* What holds while nothing has failed.                                     *)

\* A preview that is enabled has a worker that goes on until it is told to stop,
\* and is disabled before a picture is taken or the camera is cleaned up.
PreviewFed ==
  previewEnabled =>
    /\ fpc \in {"idle", "sp_begin", "st_begin"} =>
         isStarted /\ wpc # "none" /\ ~oneBurst
    /\ fpc = "join" => joinTo \in {"sp_stopDevice", "st_device"}
    /\ fpc \notin {"tp_check", "tp_stopDevice", "tp_start", "tp_taking", "tp_deliver",
                   "cl_check", "cl_stopDevice", "cl_disconnect", "cl_notifier"}

\* The one allocated buffer is that of a started device.
OneBuffer == \A b \in Buffers : heap[b] # "free" => isStarted /\ b = currentFrame

\* A camera that was closed was disconnected and forgot its callbacks.
Closed == ~open => state = "INITIALIZED" /\ ~takingPicture /\ ~callbacks

\* The worker is told to stop only by a thread that waits for it, a camera that is
\* not open is in no call, and cleanupCamera goes on only with a stopped device.
CloseInv ==
  /\ stopSent \/ exitPending => fpc = "join"
  /\ ~open => Idle
  /\ fpc = "cl_disconnect" => ~isStarted
  /\ fpc = "cl_notifier" => state = "INITIALIZED"
  /\ faults = 0 => PreviewFed /\ OneBuffer /\ Closed

\* The parts of CloseInv that do not depend on the failures, under a step of the
\* framework.
LEMMA ApiKeepsControl ==
  ASSUME TypeOK, DeliveryInv, CloseInv, ApiCall \/ ApiStep
  PROVE  /\ (stopSent \/ exitPending => fpc = "join")'
         /\ (~open => Idle)'
         /\ (fpc = "cl_disconnect" => ~isStarted)'
         /\ (fpc = "cl_notifier" => state = "INITIALIZED")'
<1> USE DEF CloseInv, DeliveryInv, isStarted, isConnected, Idle, Fault, fwVars,
            halVars, devVars, wrkVars
<1>1. CASE OpenCamera
  BY <1>1 DEF OpenCamera, connectDevice
<1>2. CASE SetCallbacks \/ SetMessages \/ SetParameters
  BY <1>2 DEF SetCallbacks, SetMessages, SetParameters
<1>3. CASE StartPreview \/ StopPreview \/ TakePicture \/ CleanupCamera
  BY <1>3 DEF StartPreview, StopPreview, TakePicture, CleanupCamera, Goto
<1>4. CASE JoinWorker
  BY <1>4 DEF JoinWorker
<1>5. CASE SpBegin \/ TpCheck \/ ClCheck \/ StBegin
  BY <1>5 DEF SpBegin, TpCheck, ClCheck, StBegin, stopDeliveringFrames
<1>6. CASE SpStopDevice \/ SpUndo \/ StDevice \/ TpStopDevice \/ ClStopDevice
  BY <1>6 DEF SpStopDevice, SpUndo, StDevice, TpStopDevice, ClStopDevice,
     stopDevice, Goto, Return
<1>7. CASE SpConnect \/ ClDisconnect
  BY <1>7 DEF SpConnect, ClDisconnect, connectDevice, disconnectDevice, Goto,
     Return, TypeOK, DataOK, States
<1>8. CASE SpStart \/ TpStart
  BY <1>8 DEF SpStart, TpStart, startDevice, Goto
<1>9. CASE SpDeliver \/ TpDeliver
  BY <1>9 DEF SpDeliver, TpDeliver, startDeliveringFrames, Goto
<1>10. CASE SpWindow \/ TpTaking \/ ClNotifier
  BY <1>10 DEF SpWindow, TpTaking, ClNotifier, Goto, Return
<1> QED
  BY <1>1, <1>2, <1>3, <1>4, <1>5, <1>6, <1>7, <1>8, <1>9, <1>10
  DEF ApiCall, ApiStep

\* The parts that hold while nothing has failed, under a step of the framework.
LEMMA ApiKeepsClean ==
  ASSUME TypeOK, DeliveryInv, CloseInv, ApiCall \/ ApiStep, faults' = 0
  PROVE  (PreviewFed /\ OneBuffer /\ Closed)'
<1>1. faults = 0 /\ ~Fault
  <2>1. faults \in Nat /\ ~Fault
    BY DEF TypeOK, DataOK, Fault
  <2>2. faults' = faults
    BY <2>1 DEF ApiCall, ApiStep, OpenCamera, SetCallbacks, SetMessages,
       SetParameters, StartPreview, StopPreview, TakePicture, CleanupCamera,
       JoinWorker, SpBegin, SpStopDevice, SpWindow, SpConnect, SpStart, SpDeliver,
       SpUndo, StBegin, StDevice, TpCheck, TpStopDevice, TpStart, TpTaking,
       TpDeliver, ClCheck, ClStopDevice, ClDisconnect, ClNotifier, connectDevice,
       disconnectDevice, startDevice, stopDevice, startDeliveringFrames
  <2> QED BY <2>1, <2>2
<1> USE <1>1 DEF CloseInv, DeliveryInv, WorkerAllowed, PreviewFed, OneBuffer, Closed,
            isStarted, isConnected, Idle, fwVars, halVars, devVars, wrkVars
<1>2. CASE OpenCamera
  BY <1>2 DEF OpenCamera, connectDevice
<1>3. CASE SetCallbacks \/ SetMessages \/ SetParameters
  BY <1>3 DEF SetCallbacks, SetMessages, SetParameters
<1>4. CASE StartPreview \/ StopPreview \/ TakePicture \/ CleanupCamera
  BY <1>4 DEF StartPreview, StopPreview, TakePicture, CleanupCamera, Goto
<1>5. CASE JoinWorker
  BY <1>5 DEF JoinWorker
<1>6. CASE SpBegin \/ TpCheck \/ ClCheck \/ StBegin
  BY <1>6 DEF SpBegin, TpCheck, ClCheck, StBegin, stopDeliveringFrames
<1>7. CASE SpStopDevice \/ SpUndo \/ StDevice \/ TpStopDevice \/ ClStopDevice
  <2>1. OneBuffer'
    BY <1>7 DEF SpStopDevice, SpUndo, StDevice, TpStopDevice, ClStopDevice,
       stopDevice
  <2>2. Closed'
    BY <1>7 DEF SpStopDevice, SpUndo, StDevice, TpStopDevice, ClStopDevice,
       stopDevice, Goto, Return
  <2>3. PreviewFed'
    <3>1. CASE StDevice
      <4>1. previewEnabled' = FALSE
        BY <3>1 DEF StDevice, stopDevice
      <4> QED BY <4>1
    <3>2. CASE SpUndo
      BY <3>2 DEF SpUndo
    <3>3. CASE SpStopDevice \/ TpStopDevice \/ ClStopDevice
      BY <3>3 DEF SpStopDevice, TpStopDevice, ClStopDevice, stopDevice, Goto,
         Return
    <3> QED BY <1>7, <3>1, <3>2, <3>3
  <2> QED BY <2>1, <2>2, <2>3
<1>8. CASE SpConnect \/ ClDisconnect
  BY <1>8 DEF SpConnect, ClDisconnect, connectDevice, disconnectDevice, Goto,
     Return
<1>9. CASE SpStart \/ TpStart
  BY <1>9 DEF SpStart, TpStart, startDevice, Goto, TypeOK, DataOK
<1>10. CASE SpDeliver \/ TpDeliver
  BY <1>10 DEF SpDeliver, TpDeliver, startDeliveringFrames, Goto
<1>11. CASE SpWindow \/ TpTaking \/ ClNotifier
  BY <1>11 DEF SpWindow, TpTaking, ClNotifier, Goto, Return
<1> QED
  BY <1>2, <1>3, <1>4, <1>5, <1>6, <1>7, <1>8, <1>9, <1>10, <1>11
  DEF ApiCall, ApiStep

\* A step of the worker keeps CloseInv: one that was not told to stop goes on.
LEMMA WorkerKeepsClose ==
  ASSUME TypeOK, DeliveryInv, CloseInv, Worker
  PROVE  CloseInv'
<1> USE DEF CloseInv, DeliveryInv, WorkerAllowed, PreviewFed, OneBuffer, Closed,
            isStarted, Idle, WorkerExits, Fault, fwVars, halVars, devVars, wrkVars,
            TypeOK, DataOK
<1>1. CASE WkReady
  BY <1>1 DEF WkReady
<1>2. CASE WkSelect
  BY <1>2 DEF WkSelect
<1>3. CASE WkQueryDone
  BY <1>3 DEF WkQueryDone
<1>4. CASE WkDeliver
  BY <1>4 DEF WkDeliver
<1>5. CASE WkLoopEnd
  BY <1>5 DEF WkLoopEnd
<1> QED
  BY <1>1, <1>2, <1>3, <1>4, <1>5 DEF Worker

\* With a prompt worker, CloseInv holds throughout.
THEOREM CloseCorrect == PromptSpawn /\ Spec => []CloseInv
<1> SUFFICES ASSUME PromptSpawn
             PROVE  Spec => []CloseInv
  OBVIOUS
<1>1. Init => CloseInv
  BY DEF Init, CloseInv, PreviewFed, OneBuffer, Closed, isStarted, Idle
<1>2. TypeOK /\ DeliveryInv /\ CloseInv /\ [Next]_vars => CloseInv'
  <2> SUFFICES ASSUME TypeOK, DeliveryInv, CloseInv, [Next]_vars
               PROVE  CloseInv'
    OBVIOUS
  <2>1. CASE ApiCall \/ ApiStep
    BY <2>1, ApiKeepsControl, ApiKeepsClean DEF CloseInv
  <2>2. CASE UNCHANGED vars
    BY <2>2 DEF vars, fwVars, halVars, devVars, wrkVars, CloseInv, PreviewFed,
       OneBuffer, Closed, isStarted, Idle
  <2> QED
    BY <2>1, <2>2, WorkerKeepsClose DEF Next
<1> QED
  BY <1>1, <1>2, TypeCorrect, DeliveryCorrect, PTL DEF Spec

\* While nothing has failed, an enabled preview has a worker that goes on.
THEOREM PreviewsFed == PromptSpawn /\ Spec => []PreviewIsFed
<1>1. CloseInv => PreviewIsFed
  BY DEF CloseInv, PreviewFed, PreviewIsFed, Idle
<1> QED BY <1>1, CloseCorrect, PTL

\* While nothing has failed, a closed camera has left nothing behind, whatever was
\* in progress when it was closed.
THEOREM ClosesClean == PromptSpawn /\ Spec => []CleanClose
<1>1. DeliveryInv /\ CloseInv => CleanClose
  BY DEF DeliveryInv, CloseInv, PreviewFed, OneBuffer, Closed, CleanClose, Idle,
     isStarted
<1> QED BY <1>1, DeliveryCorrect, CloseCorrect, PTL
=============================================================================
