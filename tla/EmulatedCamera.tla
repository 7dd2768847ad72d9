--------------------------- MODULE EmulatedCamera ---------------------------
(***************************************************************************)
(* The Genymotion camera HAL: the framework thread that calls the          *)
(* camera_device_ops of an EmulatedCamera, and the worker thread of its    *)
(* EmulatedGenyCameraDevice that pulls frames from the camera service and  *)
(* delivers them.  The two share, without a common lock, the device state, *)
(* the frame buffer mCurrentFrame, the pipe that carries THREAD_STOP, the  *)
(* mTakingPicture flag and the socket to the service.                      *)
(*                                                                         *)
(* A step of the framework is one call made by EmulatedCamera (a query to  *)
(* the service, or a change of state no other thread can split); fpc is    *)
(* the call about to return, and an API call is in progress while          *)
(* fpc # "idle".  A step of the worker is one of the blocking points of    *)
(* Thread::_threadLoop / inWorkerThread; wpc = "none" is !mRunning.        *)
(***************************************************************************)
EXTENDS Naturals, FiniteSets

CONSTANTS
  Buffers,        (* addresses `new` can return for a frame buffer          *)
  NULL,           (* the null frame buffer                                  *)
  PreviewFormats, (* pixel formats an application sets for the preview      *)
  PromptSpawn,    (* a new worker reaches readyToRun before the next stop   *)
  MaxFaults       (* bound on the failures of the service and of the kernel *)

ASSUME CameraAssumption ==
  /\ NULL \notin Buffers
  /\ PreviewFormats \subseteq {"NV21", "YUV420", "RGB32"}
  /\ PromptSpawn \in BOOLEAN
  /\ MaxFaults \in Nat

VARIABLES
  \* the framework thread inside the HAL
  fpc,            (* the call it is in                                      *)
  cont,           (* where doStopPreview returns to                         *)
  joinTo,         (* where stopThread returns to once the worker has exited *)
  previewOn,      (* takePicture's local preview_on                         *)
  open,           (* the framework holds the device between open and close  *)
  closing,        (* the cleanup in progress is that of close, not release  *)
  \* EmulatedCamera, its PreviewWindow and its CallbackNotifier
  previewFmt,     (* KEY_PREVIEW_FORMAT of mParameters                      *)
  previewEnabled, (* PreviewWindow::mPreviewEnabled                         *)
  callbacks,      (* the callback pointers are set                          *)
  messages,       (* mMessageEnabler is not zero                            *)
  takingPicture,  (* CallbackNotifier::mTakingPicture                       *)
  \* EmulatedCameraDevice
  state,          (* mState                                                 *)
  geometry,       (* mFrameWidth, mFrameHeight, mPixelFormat                *)
  bufferSize,     (* mFrameBufferSize                                       *)
  currentFrame,   (* mCurrentFrame                                          *)
  heap,           (* size of the allocation at each address, or "free"      *)
  \* WorkerThread
  wpc,            (* the worker's blocking point                            *)
  oneBurst,       (* mOneBurst                                              *)
  controlPipe,    (* mThreadControl and mControlFD are open                 *)
  stopSent,       (* THREAD_STOP is in the pipe                             *)
  exitPending,    (* Thread::mExitPending                                   *)
  wframe,         (* the frame buffer the worker is using                   *)
  wsize,          (* the number of bytes it was told the buffer has         *)
  delivered,      (* frames this worker delivered, up to 2               *)
  faults          (* failures so far                                        *)

fwVars  == <<fpc, cont, joinTo, previewOn, open, closing>>
halVars == <<previewFmt, previewEnabled, callbacks, messages, takingPicture>>
devVars == <<state, geometry, bufferSize, currentFrame, heap>>
wrkVars == <<wpc, oneBurst, controlPipe, stopSent, exitPending, wframe, wsize,
             delivered>>
vars == <<fwVars, halVars, devVars, wrkVars, faults>>

-----------------------------------------------------------------------------
States == {"INITIALIZED", "CONNECTED", "STARTED"}
Sizes == {"preview", "picture"}
NoGeometry == [size |-> "none", fmt |-> "none"]
Geometries == [size : Sizes, fmt : {"NV21", "YUV420"}] \cup {NoGeometry}
\* Labels of the framework thread: sp_ doStartPreview, st_ doStopPreview,
\* tp_ takePicture, cl_ cleanupCamera.
FwLabels == {"idle", "join", "sp_begin", "sp_stopDevice", "sp_window",
             "sp_connect", "sp_start", "sp_deliver", "sp_undo", "st_begin",
             "st_device", "tp_check", "tp_stopDevice", "tp_start",
             "tp_taking", "tp_deliver", "cl_check", "cl_stopDevice",
             "cl_disconnect", "cl_notifier"}
WorkerLabels == {"none", "spawned", "select", "query", "deliver",
                 "loopEnd"}

isStarted == state = "STARTED"
isConnected == state \in {"CONNECTED", "STARTED"}

Fault == /\ faults < MaxFaults
         /\ faults' = faults + 1

Init ==
  /\ fpc = "idle" /\ cont = "idle" /\ joinTo = "idle"
  /\ previewOn = FALSE /\ open = FALSE /\ closing = FALSE
  /\ previewFmt \in PreviewFormats
  /\ previewEnabled = FALSE /\ callbacks = FALSE /\ messages = FALSE
  /\ takingPicture = FALSE
  /\ state = "INITIALIZED" /\ geometry = NoGeometry /\ bufferSize = "none"
  /\ currentFrame = NULL /\ heap = [b \in Buffers |-> "free"]
  /\ wpc = "none" /\ oneBurst = FALSE /\ controlPipe = FALSE
  /\ stopSent = FALSE /\ exitPending = FALSE
  /\ wframe = NULL /\ wsize = "none" /\ delivered = 0
  /\ faults = 0

-----------------------------------------------------------------------------
(* EmulatedGenyCameraDevice.  Each operation holds mObjectLock and makes at *)
(* most one query; its outcome is TRUE for NO_ERROR.                        *)

connectDevice(ok) ==
  \/ /\ isConnected /\ ok
     /\ UNCHANGED <<devVars, faults>>
  \/ /\ ~isConnected
     /\ \/ ok /\ state' = "CONNECTED" /\ UNCHANGED faults
        \/ ~ok /\ Fault /\ UNCHANGED state
     /\ UNCHANGED <<geometry, bufferSize, currentFrame, heap>>

disconnectDevice(ok) ==
  \/ /\ ~isConnected /\ ok
     /\ UNCHANGED <<devVars, faults>>
  \/ /\ isStarted /\ ~ok
     /\ UNCHANGED <<devVars, faults>>
  \/ /\ state = "CONNECTED"
     /\ \/ ok /\ state' = "INITIALIZED" /\ UNCHANGED faults
        \/ ~ok /\ Fault /\ UNCHANGED state
     /\ UNCHANGED <<geometry, bufferSize, currentFrame, heap>>

\* commonStartDevice rejects every format that is not a YUV one, then overwrites
\* mCurrentFrame with a new buffer, before the service is asked to start.
startDevice(size, fmt, ok) ==
  \/ /\ ~isConnected /\ ~ok
     /\ UNCHANGED <<devVars, faults>>
  \/ /\ isStarted /\ ok
     /\ UNCHANGED <<devVars, faults>>
  \/ /\ state = "CONNECTED" /\ fmt = "RGB32" /\ ~ok
     /\ UNCHANGED <<devVars, faults>>
  \/ /\ state = "CONNECTED" /\ fmt # "RGB32"
     /\ geometry' = [size |-> size, fmt |-> fmt]
     /\ bufferSize' = size
     /\ \E b \in Buffers :
          /\ heap[b] = "free"
          /\ heap' = [heap EXCEPT ![b] = size]
          /\ currentFrame' = b
     /\ \/ ok /\ state' = "STARTED" /\ UNCHANGED faults
        \/ ~ok /\ Fault /\ UNCHANGED state

\* Mutant: commonStopDevice forgets the buffer instead of freeing it.
stopDevice_Forget(ok) ==
  /\ ok
  /\ IF isStarted
     THEN /\ state' = "CONNECTED"
          /\ geometry' = NoGeometry
          /\ currentFrame' = NULL
          /\ UNCHANGED <<bufferSize, heap>>
     ELSE UNCHANGED devVars
  /\ UNCHANGED faults

\* commonStopDevice frees mCurrentFrame and leaves mFrameBufferSize alone.
stopDevice(ok) ==
  \/ /\ ~isStarted /\ ok
     /\ UNCHANGED <<devVars, faults>>
  \/ /\ isStarted /\ ok
     /\ state' = "CONNECTED"
     /\ geometry' = NoGeometry
     /\ heap' = [b \in Buffers |-> IF b = currentFrame THEN "free" ELSE heap[b]]
     /\ currentFrame' = NULL
     /\ UNCHANGED <<bufferSize, faults>>
  \/ /\ isStarted /\ ~ok
     /\ Fault
     /\ UNCHANGED devVars

-----------------------------------------------------------------------------
(* WorkerThread, as the framework uses it.                                  *)

\* startThread: mOneBurst is written before Thread::run, which refuses to run a
\* thread that is still running; creating the thread may fail as well.
startDeliveringFrames(burst, ok) ==
  /\ oneBurst' = burst
  /\ \/ /\ ok /\ wpc = "none"
        /\ wpc' = "spawned"
        /\ exitPending' = FALSE
        /\ UNCHANGED faults
     \/ /\ ~ok /\ wpc # "none"
        /\ UNCHANGED <<wpc, exitPending, faults>>
     \/ /\ ~ok /\ wpc = "none"
        /\ Fault
        /\ UNCHANGED <<wpc, exitPending>>
  /\ UNCHANGED <<controlPipe, stopSent, wframe, wsize, delivered>>

\* Mutant: requestExit instead of requestExitAndWait.
stopDeliveringFrames_NoWait(next) ==
  /\ PromptSpawn => wpc # "spawned"
  /\ fpc' = next
  /\ stopSent' = controlPipe
  /\ exitPending' = controlPipe
  /\ UNCHANGED <<joinTo, wpc, oneBurst, controlPipe, wframe, wsize, delivered>>

\* Mutant: the worker is waited for without being told to stop.
stopDeliveringFrames_Unasked(next) ==
  /\ IF controlPipe
     THEN fpc' = "join" /\ joinTo' = next
     ELSE fpc' = next /\ UNCHANGED joinTo
  /\ UNCHANGED wrkVars

\* stopThread with the pipe open: THREAD_STOP is written and requestExitAndWait
\* waits in "join".  Without a pipe it returns EINVAL at once, which no caller
\* looks at.  PromptSpawn is the assumption that a thread that was created has
\* opened its pipe by the time the framework comes back to stop it.
stopDeliveringFrames(next) ==
  /\ PromptSpawn => wpc # "spawned"
  /\ IF controlPipe
     THEN /\ fpc' = "join"
          /\ joinTo' = next
          /\ stopSent' = TRUE
          /\ exitPending' = TRUE
     ELSE /\ fpc' = next
          /\ UNCHANGED <<joinTo, stopSent, exitPending>>
  /\ UNCHANGED <<wpc, oneBurst, controlPipe, wframe, wsize, delivered>>

\* The rest of stopThread, once the worker has left its loop.
JoinWorker ==
  /\ fpc = "join"
  /\ wpc = "none"
  /\ fpc' = joinTo /\ joinTo' = "idle"
  /\ controlPipe' = FALSE
  /\ stopSent' = FALSE
  /\ exitPending' = FALSE
  /\ UNCHANGED <<cont, previewOn, open, closing, halVars, devVars, wpc, oneBurst,
                 wframe, wsize, delivered, faults>>

-----------------------------------------------------------------------------
(* The camera_device_ops that only set a field.                             *)

Idle == fpc = "idle"

\* On to the next call; the locals of the API call go out of scope at its return.
Goto(label) ==
  /\ fpc' = label
  /\ IF label = "idle"
     THEN cont' = "idle" /\ previewOn' = FALSE
     ELSE UNCHANGED <<cont, previewOn>>
  /\ UNCHANGED <<joinTo, open, closing>>

OpenCamera ==
  /\ Idle /\ ~open
  /\ \E ok \in BOOLEAN : connectDevice(ok) /\ open' = ok
  /\ UNCHANGED <<fpc, cont, joinTo, previewOn, closing, halVars, wrkVars>>

SetCallbacks ==
  /\ Idle /\ open
  /\ callbacks' = TRUE
  /\ UNCHANGED <<fwVars, previewFmt, previewEnabled, messages, takingPicture,
                 devVars, wrkVars, faults>>

\* enable_msg_type and disable_msg_type; CameraService registers its callbacks
\* first.
SetMessages ==
  /\ Idle /\ open /\ callbacks
  /\ messages' \in BOOLEAN
  /\ UNCHANGED <<fwVars, previewFmt, previewEnabled, callbacks, takingPicture,
                 devVars, wrkVars, faults>>

SetParameters ==
  /\ Idle /\ open
  /\ previewFmt' \in PreviewFormats
  /\ UNCHANGED <<fwVars, previewEnabled, callbacks, messages, takingPicture,
                 devVars, wrkVars, faults>>

-----------------------------------------------------------------------------
(* doStartPreview                                                           *)

StartPreview ==
  /\ Idle /\ open
  /\ Goto("sp_begin")
  /\ UNCHANGED <<halVars, devVars, wrkVars, faults>>

\* Mutant: a started device is stopped without stopping the delivery of frames.
SpBegin_KeepDelivering ==
  /\ fpc = "sp_begin"
  /\ Goto(IF isStarted THEN "sp_stopDevice" ELSE "sp_window")
  /\ UNCHANGED <<halVars, devVars, wrkVars, faults>>

SpBegin ==
  /\ fpc = "sp_begin"
  /\ IF isStarted
     THEN stopDeliveringFrames("sp_stopDevice")
     ELSE fpc' = "sp_window" /\ UNCHANGED <<joinTo, wrkVars>>
  /\ UNCHANGED <<cont, previewOn, open, closing, halVars, devVars, faults>>

\* The result of this stopDevice is ignored.
SpStopDevice ==
  /\ fpc = "sp_stopDevice"
  /\ \E ok \in BOOLEAN : stopDevice(ok)
  /\ Goto("sp_window")
  /\ UNCHANGED <<halVars, wrkVars>>

SpWindow ==
  /\ fpc = "sp_window"
  /\ previewEnabled' = TRUE
  /\ Goto("sp_connect")
  /\ UNCHANGED <<previewFmt, callbacks, messages, takingPicture, devVars,
                 wrkVars, faults>>

SpConnect ==
  /\ fpc = "sp_connect"
  /\ \E ok \in BOOLEAN :
       /\ connectDevice(ok)
       /\ Goto(IF ok THEN "sp_start" ELSE "idle")
       /\ previewEnabled' = ok
  /\ UNCHANGED <<previewFmt, callbacks, messages, takingPicture, wrkVars>>

SpStart ==
  /\ fpc = "sp_start"
  /\ \E ok \in BOOLEAN :
       /\ startDevice("preview", previewFmt, ok)
       /\ Goto(IF ok THEN "sp_deliver" ELSE "idle")
       /\ previewEnabled' = ok
  /\ UNCHANGED <<previewFmt, callbacks, messages, takingPicture, wrkVars>>

SpDeliver ==
  /\ fpc = "sp_deliver"
  /\ \E ok \in BOOLEAN :
       /\ startDeliveringFrames(FALSE, ok)
       /\ Goto(IF ok THEN "idle" ELSE "sp_undo")
  /\ UNCHANGED <<halVars, devVars>>

SpUndo ==
  /\ fpc = "sp_undo"
  /\ \E ok \in BOOLEAN : stopDevice(ok)
  /\ previewEnabled' = FALSE
  /\ Goto("idle")
  /\ UNCHANGED <<previewFmt, callbacks, messages, takingPicture, wrkVars>>

-----------------------------------------------------------------------------
(* doStopPreview, whose result is NO_ERROR even when stopDevice failed.     *)

StopPreview ==
  /\ Idle /\ open
  /\ fpc' = "st_begin" /\ cont' = "idle"
  /\ UNCHANGED <<joinTo, previewOn, open, closing, halVars, devVars, wrkVars,
                 faults>>

StBegin ==
  /\ fpc = "st_begin"
  /\ \/ /\ previewEnabled /\ isStarted
        /\ stopDeliveringFrames("st_device")
        /\ UNCHANGED previewEnabled
     \/ /\ ~(previewEnabled /\ isStarted)
        /\ previewEnabled' = FALSE
        /\ fpc' = cont
        /\ UNCHANGED <<joinTo, wrkVars>>
  /\ UNCHANGED <<cont, previewOn, open, closing, previewFmt, callbacks, messages,
                 takingPicture, devVars, faults>>

\* Mutant: the preview window is not told that the preview stopped.
StDevice_StaysEnabled ==
  /\ fpc = "st_device"
  /\ \E ok \in BOOLEAN : stopDevice(ok)
  /\ Goto(cont)
  /\ UNCHANGED <<halVars, wrkVars>>

StDevice ==
  /\ fpc = "st_device"
  /\ \E ok \in BOOLEAN :
       /\ stopDevice(ok)
       /\ previewEnabled' = ~ok
  /\ Goto(cont)
  /\ UNCHANGED <<previewFmt, callbacks, messages, takingPicture, wrkVars>>

-----------------------------------------------------------------------------
(* takePicture, for the picture format the HAL advertises (JPEG, captured   *)
(* as NV21).                                                                *)

TakePicture ==
  /\ Idle /\ open
  /\ previewOn' = previewEnabled
  /\ fpc' = IF previewEnabled THEN "st_begin" ELSE "tp_check"
  /\ cont' = "tp_check"
  /\ UNCHANGED <<joinTo, open, closing, halVars, devVars, wrkVars, faults>>

\* Mutant: a started device is stopped without stopping the delivery of frames.
TpCheck_KeepDelivering ==
  /\ fpc = "tp_check"
  /\ Goto(IF isStarted THEN "tp_stopDevice" ELSE "tp_start")
  /\ UNCHANGED <<halVars, devVars, wrkVars, faults>>

TpCheck ==
  /\ fpc = "tp_check"
  /\ IF isStarted
     THEN stopDeliveringFrames("tp_stopDevice")
     ELSE fpc' = "tp_start" /\ UNCHANGED <<joinTo, wrkVars>>
  /\ UNCHANGED <<cont, previewOn, open, closing, halVars, devVars, faults>>

\* The result of this stopDevice is ignored.
TpStopDevice ==
  /\ fpc = "tp_stopDevice"
  /\ \E ok \in BOOLEAN : stopDevice(ok)
  /\ Goto("tp_start")
  /\ UNCHANGED <<halVars, wrkVars>>

TpStart ==
  /\ fpc = "tp_start"
  /\ \E ok \in BOOLEAN :
       /\ startDevice("picture", "NV21", ok)
       /\ Goto(IF ok THEN "tp_taking" ELSE IF previewOn THEN "sp_begin" ELSE "idle")
  /\ UNCHANGED <<halVars, wrkVars>>

TpTaking ==
  /\ fpc = "tp_taking"
  /\ takingPicture' = TRUE
  /\ Goto("tp_deliver")
  /\ UNCHANGED <<previewFmt, previewEnabled, callbacks, messages, devVars,
                 wrkVars, faults>>

TpDeliver ==
  /\ fpc = "tp_deliver"
  /\ \E ok \in BOOLEAN :
       /\ startDeliveringFrames(TRUE, ok)
       /\ takingPicture' = (ok /\ takingPicture)
       /\ Goto(IF ~ok /\ previewOn THEN "sp_begin" ELSE "idle")
  /\ UNCHANGED <<previewFmt, previewEnabled, callbacks, messages, devVars>>

-----------------------------------------------------------------------------
(* cleanupCamera, run by release and by close.                              *)

Return == /\ fpc' = "idle" /\ cont' = "idle" /\ closing' = FALSE
          /\ open' = (open /\ ~closing)
          /\ UNCHANGED <<joinTo, previewOn>>

CleanupCamera ==
  /\ Idle /\ open
  /\ closing' \in BOOLEAN
  /\ fpc' = "st_begin" /\ cont' = "cl_check"
  /\ UNCHANGED <<joinTo, previewOn, open, halVars, devVars, wrkVars, faults>>

\* Mutant: a started device is stopped without stopping the delivery of frames.
ClCheck_KeepDelivering ==
  /\ fpc = "cl_check"
  /\ Goto(IF isStarted THEN "cl_stopDevice" ELSE "cl_disconnect")
  /\ UNCHANGED <<halVars, devVars, wrkVars, faults>>

ClCheck ==
  /\ fpc = "cl_check"
  /\ IF isStarted
     THEN stopDeliveringFrames("cl_stopDevice")
     ELSE fpc' = "cl_disconnect" /\ UNCHANGED <<joinTo, wrkVars>>
  /\ UNCHANGED <<cont, previewOn, open, closing, halVars, devVars, faults>>

ClStopDevice ==
  /\ fpc = "cl_stopDevice"
  /\ \E ok \in BOOLEAN :
       /\ stopDevice(ok)
       /\ IF ok THEN Goto("cl_disconnect") ELSE Return
  /\ UNCHANGED <<halVars, wrkVars>>

ClDisconnect ==
  /\ fpc = "cl_disconnect"
  /\ \E ok \in BOOLEAN :
       /\ disconnectDevice(ok)
       /\ IF ok THEN Goto("cl_notifier") ELSE Return
  /\ UNCHANGED <<halVars, wrkVars>>

\* Mutant: cleanupCBNotifier does not reset mTakingPicture.
ClNotifier_KeepsPicture ==
  /\ fpc = "cl_notifier"
  /\ callbacks' = FALSE
  /\ messages' = FALSE
  /\ Return
  /\ UNCHANGED <<previewFmt, previewEnabled, takingPicture, devVars, wrkVars,
                 faults>>

ClNotifier ==
  /\ fpc = "cl_notifier"
  /\ callbacks' = FALSE
  /\ messages' = FALSE
  /\ takingPicture' = FALSE
  /\ Return
  /\ UNCHANGED <<previewFmt, previewEnabled, devVars, wrkVars, faults>>

-----------------------------------------------------------------------------
(* The worker thread.                                                       *)

\* Thread::_threadLoop clears mRunning; the thread's locals are gone.
WorkerExits ==
  wpc' = "none" /\ wframe' = NULL /\ wsize' = "none" /\ delivered' = 0

\* readyToRun opens the control pipe, over one that is still open.
WkReady ==
  /\ wpc = "spawned"
  /\ \/ /\ controlPipe' = TRUE
        /\ wpc' = "select"
        /\ UNCHANGED faults
     \/ /\ Fault
        /\ wpc' = "none"
        /\ UNCHANGED controlPipe
  /\ UNCHANGED <<fwVars, halVars, devVars, oneBurst, stopSent, exitPending,
                 wframe, wsize, delivered>>

\* Mutant: a timeout of 0, which Select takes as no timeout at all.
WkSelect_Forever ==
  /\ wpc = "select"
  /\ stopSent
  /\ WorkerExits
  /\ UNCHANGED <<fwVars, halVars, devVars, oneBurst, controlPipe, stopSent,
                 exitPending, faults>>

\* Select in inWorkerThread: THREAD_STOP ends the loop, the FPS timeout starts a
\* "frame" query into the buffer, and of the size, the device has now.
WkSelect ==
  /\ wpc = "select"
  /\ IF stopSent
     THEN WorkerExits
     ELSE /\ wpc' = "query"
          /\ wframe' = currentFrame
          /\ wsize' = bufferSize
          /\ UNCHANGED delivered
  /\ UNCHANGED <<fwVars, halVars, devVars, oneBurst, controlPipe, stopSent,
                 exitPending, faults>>

\* queryFrame returns; mCurrentFrame is read again for the notification.  On an
\* error onCameraDeviceError is called and inWorkerThread returns false.
WkQueryDone ==
  /\ wpc = "query"
  /\ \/ /\ wpc' = "deliver"
        /\ wframe' = currentFrame
        /\ UNCHANGED <<wsize, delivered, faults>>
     \/ /\ Fault
        /\ WorkerExits
  /\ UNCHANGED <<fwVars, halVars, devVars, oneBurst, controlPipe, stopSent,
                 exitPending>>

\* EmulatedCamera::onNextFrameAvailable: the preview window, the preview frame
\* callback, and, when a picture is being taken, the picture callbacks.
WkDeliver ==
  /\ wpc = "deliver"
  /\ wpc' = "loopEnd"
  /\ takingPicture' = FALSE
  /\ delivered' = IF delivered < 2 THEN delivered + 1 ELSE delivered
  /\ wframe' = NULL /\ wsize' = "none"
  /\ UNCHANGED <<fwVars, previewFmt, previewEnabled, callbacks, messages,
                 devVars, oneBurst, controlPipe, stopSent, exitPending, faults>>

\* Mutant: threadLoop ignores mOneBurst.
WkLoopEnd_NoBurst ==
  /\ wpc = "loopEnd"
  /\ IF exitPending
     THEN WorkerExits
     ELSE wpc' = "select" /\ UNCHANGED <<wframe, wsize, delivered>>
  /\ UNCHANGED <<fwVars, halVars, devVars, oneBurst, controlPipe, stopSent,
                 exitPending, faults>>

\* threadLoop returns !mOneBurst, and _threadLoop looks at mExitPending.
WkLoopEnd ==
  /\ wpc = "loopEnd"
  /\ IF oneBurst \/ exitPending
     THEN WorkerExits
     ELSE wpc' = "select" /\ UNCHANGED <<wframe, wsize, delivered>>
  /\ UNCHANGED <<fwVars, halVars, devVars, oneBurst, controlPipe, stopSent,
                 exitPending, faults>>

-----------------------------------------------------------------------------
ApiCall ==
  \/ OpenCamera \/ SetCallbacks \/ SetMessages \/ SetParameters
  \/ StartPreview \/ StopPreview \/ TakePicture \/ CleanupCamera

ApiStep ==
  \/ JoinWorker
  \/ SpBegin \/ SpStopDevice \/ SpWindow \/ SpConnect \/ SpStart \/ SpDeliver
  \/ SpUndo
  \/ StBegin \/ StDevice
  \/ TpCheck \/ TpStopDevice \/ TpStart \/ TpTaking \/ TpDeliver
  \/ ClCheck \/ ClStopDevice \/ ClDisconnect \/ ClNotifier

Worker ==
  WkReady \/ WkSelect \/ WkQueryDone \/ WkDeliver \/ WkLoopEnd

Next == ApiCall \/ ApiStep \/ Worker

Spec == Init /\ [][Next]_vars

\* The two threads are scheduled, and every query is answered or times out (the
\* socket has a receive timeout); nothing obliges the framework to call.
Fairness == WF_vars(ApiStep) /\ WF_vars(Worker)
FairSpec == Spec /\ Fairness

-----------------------------------------------------------------------------
(* Properties                                                               *)

FlagsOK ==
  /\ previewOn \in BOOLEAN /\ open \in BOOLEAN /\ closing \in BOOLEAN
  /\ previewEnabled \in BOOLEAN /\ callbacks \in BOOLEAN
  /\ messages \in BOOLEAN /\ takingPicture \in BOOLEAN
  /\ oneBurst \in BOOLEAN /\ controlPipe \in BOOLEAN
  /\ stopSent \in BOOLEAN /\ exitPending \in BOOLEAN

DataOK ==
  /\ fpc \in FwLabels /\ cont \in FwLabels /\ joinTo \in FwLabels
  /\ previewFmt \in PreviewFormats
  /\ state \in States
  /\ geometry \in Geometries
  /\ bufferSize \in Sizes \cup {"none"}
  /\ currentFrame \in Buffers \cup {NULL}
  /\ heap \in [Buffers -> Sizes \cup {"free"}]
  /\ wpc \in WorkerLabels
  /\ wframe \in Buffers \cup {NULL}
  /\ wsize \in Sizes \cup {"none"}
  /\ delivered \in 0..2
  /\ faults \in 0..MaxFaults

\* Every variable of the HAL stays within its declared range.
TypeOK == FlagsOK /\ DataOK

\* The calls of the framework that have a query on the socket of the service.
FrameworkQueries ==
  \/ isStarted /\ fpc \in {"sp_stopDevice", "sp_undo", "st_device",
                           "tp_stopDevice", "cl_stopDevice"}
  \/ ~isConnected /\ (fpc = "sp_connect" \/ (Idle /\ ~open))
  \/ state = "CONNECTED" /\ fpc \in {"tp_start", "cl_disconnect"}
  \/ state = "CONNECTED" /\ fpc = "sp_start" /\ previewFmt # "RGB32"

\* GenyClient has one socket, no request identifiers and no lock: the framework
\* and the worker never have a query outstanding at the same time.
OneQueryAtATime == ~(FrameworkQueries /\ wpc = "query")

\* A frame in flight is written into, and delivered from, a buffer that is still
\* allocated and has exactly the size the service was asked for.
FrameBufferLive ==
  wpc \in {"query", "deliver"} =>
    isStarted /\ wframe \in Buffers /\ heap[wframe] = wsize

\* The device is not stopped, restarted or given another buffer or geometry
\* while the worker has a frame in flight.
DeviceStableDuringFrame ==
  [][(wpc \in {"query", "deliver"}) =>
        UNCHANGED <<state, geometry, currentFrame, bufferSize>>]_vars

\* Between two API calls, a device that is not started has no worker thread: one
\* would deliver frames nobody can stop (stopDeliveringFrames returns early).
StoppedDeviceHasNoWorker == Idle /\ ~isStarted => wpc = "none"

\* A thread in its loop can be told to stop, and readyToRun never opens the
\* control pipe over one that is open (which would leak both descriptors).
PipeFollowsWorker ==
  /\ wpc \notin {"none", "spawned"} => controlPipe
  /\ wpc = "spawned" => ~controlPipe

\* startDeliveringFrames(true) delivers at most one frame, however long the
\* device stays started.
BurstDeliversOne == wpc # "none" /\ oneBurst => delivered <= 1

\* The worker reads the callback pointers without a lock: they are never cleared
\* while a worker thread exists.
CallbacksOutliveWorker == [][callbacks /\ wpc # "none" => callbacks']_vars

\* Frame buffers are lost only when the service refuses a start that has already
\* allocated one: never more buffers than failures.
NoOrphanBuffer ==
  Cardinality({b \in Buffers : heap[b] # "free"} \ {currentFrame}) <= faults

\* While nothing has failed, a preview reported as enabled between two calls is
\* fed by a worker that does not stop by itself.
PreviewIsFed ==
  Idle /\ previewEnabled /\ faults = 0 => isStarted /\ wpc # "none" /\ ~oneBurst

\* While nothing has failed, closing the camera, whatever was in progress, leaves
\* no worker, no pipe, no buffer, no pending picture and no enabled preview.
CleanClose ==
  Idle /\ ~open /\ faults = 0 =>
    /\ state = "INITIALIZED" /\ wpc = "none" /\ ~controlPipe
    /\ \A b \in Buffers : heap[b] = "free"
    /\ ~previewEnabled /\ ~takingPicture /\ ~callbacks

\* Every API call returns: no wait for the worker, and no restart of the preview
\* after a failure, goes on for ever.
ApiReturns == ~Idle ~> Idle

\* Once failures have stopped, a worker that was started delivers a frame, unless
\* the framework calls the HAL again first.
FramesArrive ==
  (wpc = "spawned" /\ faults = MaxFaults) ~> (wpc = "deliver" \/ ~Idle)

-----------------------------------------------------------------------------
(* Why the properties of the worker hold under PromptSpawn: the inductive   *)
(* invariant behind them.                                                   *)

\* The points of the framework at which a worker, or a pipe it left, may exist.
WorkerAllowed == {"idle", "join", "sp_begin", "st_begin", "tp_check", "cl_check"}

\* The invariant of the frame delivery: the worker and its pipe live inside the
\* started state of the device, a started device owns its frame buffer, a frame in
\* flight uses that buffer, and a burst counts its frame.
DeliveryInv ==
  /\ wpc # "none" \/ controlPipe \/ fpc = "join" =>
       isStarted /\ fpc \in WorkerAllowed
  /\ fpc \in {"sp_deliver", "tp_taking", "tp_deliver"} => isStarted
  /\ joinTo \in IF fpc = "join"
                THEN {"sp_stopDevice", "st_device", "tp_stopDevice", "cl_stopDevice"}
                ELSE {"idle"}
  /\ cont \in {"idle", "tp_check", "cl_check"}
  /\ PipeFollowsWorker
  /\ isStarted => currentFrame \in Buffers /\ heap[currentFrame] = bufferSize
  /\ wpc \in {"query", "deliver"} => wframe = currentFrame /\ wsize = bufferSize
  /\ wpc \in {"none", "spawned"} => delivered = 0
  /\ oneBurst /\ wpc # "loopEnd" => delivered = 0
  /\ oneBurst => delivered <= 1

-----------------------------------------------------------------------------
(* What comments of the code claim and the code does not do.                *)

\* stopWorkerThread: "this method will always wait for the worker thread to
\* terminate", so that the stopDevice that follows it finds no worker.
StopWaitsForWorker ==
  fpc \in {"sp_stopDevice", "st_device", "tp_stopDevice", "cl_stopDevice"} =>
    wpc = "none"

\* The picture part of onNextFrameAvailable hands the frame to the NV21 JPEG
\* compressor: "when taking pictures, we have requested camera device to provide
\* us with NV21 frames".
PictureFrameIsNV21 ==
  wpc = "deliver" /\ takingPicture /\ messages => geometry.fmt = "NV21"
=============================================================================
