--------------------------- MODULE FrameDelivery ---------------------------
(***************************************************************************)
(* What the camera worker does with a frame: PreviewWindow draws it into a *)
(* buffer of the preview window, then CallbackNotifier gives a copy of it  *)
(* to the video recorder.  Meanwhile the framework sets the window, starts *)
(* and stops the preview and the recording, and the recorder, on threads   *)
(* of its own, gives recorded frames back.                                 *)
(*                                                                         *)
(* PreviewWindow works under its mObjectLock from the first test to the    *)
(* last call; CallbackNotifier tests its flags and uses its list of        *)
(* recorded frames without a lock: push_back and erase, which change the   *)
(* links of the list, are a step that begins and one that ends each, and   *)
(* nothing is said of the list after two of them raced for its last link.  *)
(* This is the detail of the step WkDeliver of EmulatedCamera, whose       *)
(* theorem DeviceStable is what lets the dimensions of the device change   *)
(* between two frames only.                                                *)
(***************************************************************************)
EXTENDS Naturals, Sequences, SequencesExt

CONSTANTS
  Windows,          (* preview windows of the framework                       *)
  NULL,             (* no window, no buffer, no memory                        *)
  Dims,             (* dimensions of the frames of the device                 *)
  Memory,           (* memory regions the framework gives for recorded frames *)
  MaxFrames         (* bound on the number of frames                          *)

ASSUME FrameDeliveryAssumption ==
  /\ NULL \notin Windows \cup Dims \cup Memory
  /\ MaxFrames \in Nat

VARIABLES
  pc,             (* the call the worker is about to make                   *)
  dims,           (* dimensions of the device's frames                      *)
  frames,         (* frames delivered                                       *)
  \* PreviewWindow and the windows it draws into
  window,         (* mPreviewWindow                                         *)
  enabled,        (* mPreviewEnabled                                        *)
  cached,         (* mPreviewFrameWidth, mPreviewFrameHeight                *)
  geometry,       (* dimensions of the buffers of each window               *)
  held,           (* the window whose buffer has been dequeued              *)
  refused,        (* history: the last set_buffers_geometry of window failed *)
  \* CallbackNotifier and the recorder
  videoMsg,       (* CAMERA_MSG_VIDEO_FRAME is enabled                      *)
  recording,      (* mVideoRecEnabled                                       *)
  cam_buff,       (* the memory of the frame being recorded                 *)
  recorder,       (* recorded frames the recorder has                       *)
  late,           (* frames recorded since the recording was stopped, to 2  *)
  mCameraMemoryTs,(* the list of the recorded frames to be released         *)
  raced,          (* push_back and erase have both written its last link    *)
  \* releaseRecordingFrame
  rpc,            (* "idle", "walk", "erase"                                *)
  opaque,         (* the frame it looks for                                 *)
  it,             (* the position of its iterator                           *)
  early           (* history: frames given back before they were listed     *)

previewVars == <<window, enabled, cached, geometry, held, refused>>
releaseVars == <<rpc, opaque, it, early>>
videoVars == <<videoMsg, recording, cam_buff, recorder, late, mCameraMemoryTs, raced,
               releaseVars>>
deliveryVars == <<pc, dims, frames, previewVars, videoVars>>

-----------------------------------------------------------------------------
\* The calls made under the mObjectLock of PreviewWindow.
PreviewLabels == {"geometry", "dequeue", "lock", "map", "draw"}
Labels == {"idle", "video", "getMemory", "callback", "push", "link"} \cup PreviewLabels

previewLocked == pc \in PreviewLabels

DeliveryInit ==
  /\ pc = "idle" /\ dims \in Dims /\ frames = 0
  /\ window = NULL /\ enabled = FALSE /\ cached = NULL
  /\ geometry = [w \in Windows |-> NULL] /\ held = NULL /\ refused = FALSE
  /\ videoMsg = FALSE /\ recording = FALSE /\ cam_buff = NULL
  /\ recorder = {} /\ late = 0 /\ mCameraMemoryTs = << >> /\ raced = FALSE
  /\ rpc = "idle" /\ opaque = NULL /\ it = 1 /\ early = {}

-----------------------------------------------------------------------------
(* PreviewWindow::onNextFrameAvailable                                      *)

\* The tests; isPreviewTime may say that it is too early for another frame.
PreviewFrame ==
  /\ pc = "idle"
  /\ frames < MaxFrames
  /\ frames' = frames + 1
  /\ \/ pc' = "video" /\ UNCHANGED cached
     \/ /\ enabled /\ window # NULL
        /\ pc' = IF cached = dims THEN "dequeue" ELSE "geometry"
        /\ cached' = dims
  /\ UNCHANGED <<dims, window, enabled, geometry, held, refused, videoVars>>

SetBuffersGeometry ==
  /\ pc = "geometry"
  /\ \/ /\ geometry' = [geometry EXCEPT ![window] = cached]
        /\ refused' = FALSE
        /\ pc' = "dequeue"
     \/ /\ refused' = TRUE
        /\ pc' = "video"
        /\ UNCHANGED geometry
  /\ UNCHANGED <<dims, frames, window, enabled, cached, held, videoVars>>

DequeueBuffer ==
  /\ pc = "dequeue"
  /\ \/ pc' = "lock" /\ held' = window
     \/ pc' = "video" /\ UNCHANGED held
  /\ UNCHANGED <<dims, frames, window, enabled, cached, geometry, refused, videoVars>>

\* lock_buffer of the window; the buffer is cancelled when it fails.
LockBuffer ==
  /\ pc = "lock"
  /\ \/ pc' = "map" /\ UNCHANGED held
     \/ pc' = "video" /\ held' = NULL
  /\ UNCHANGED <<dims, frames, window, enabled, cached, geometry, refused, videoVars>>

\* Mutant: a buffer that cannot be mapped is not cancelled.
MapBuffer_Keep ==
  /\ pc = "map"
  /\ pc' \in {"draw", "video"}
  /\ UNCHANGED <<dims, frames, previewVars, videoVars>>

\* GraphicBufferMapper::lock; the buffer is cancelled when it fails.
MapBuffer ==
  /\ pc = "map"
  /\ \/ pc' = "draw" /\ UNCHANGED held
     \/ pc' = "video" /\ held' = NULL
  /\ UNCHANGED <<dims, frames, window, enabled, cached, geometry, refused, videoVars>>

\* The frame is converted into the buffer, which is enqueued or cancelled.
DrawFrame ==
  /\ pc = "draw"
  /\ pc' = "video"
  /\ held' = NULL
  /\ UNCHANGED <<dims, frames, window, enabled, cached, geometry, refused, videoVars>>

-----------------------------------------------------------------------------
(* CallbackNotifier::onNextFrameAvailable, the recording part               *)

\* Mutant: isVideoRecordingEnabled is not tested.
VideoFrame_NotEnabled ==
  /\ pc = "video"
  /\ pc' \in IF videoMsg THEN {"getMemory", "idle"} ELSE {"idle"}
  /\ UNCHANGED <<dims, frames, previewVars, videoVars>>

\* The three tests; isNewVideoFrameTime may say that it is too early.
VideoFrame ==
  /\ pc = "video"
  /\ pc' \in IF videoMsg /\ recording THEN {"getMemory", "idle"} ELSE {"idle"}
  /\ UNCHANGED <<dims, frames, previewVars, videoVars>>

\* The nodes of the list: erase comes after the release of the frame in the node.
Nodes == DOMAIN mCameraMemoryTs \ (IF rpc = "erase" THEN {it} ELSE {})
Listed == {mCameraMemoryTs[i] : i \in Nodes}

\* mGetMemoryCB, which may find no memory.
GetMemory ==
  /\ pc = "getMemory"
  /\ \/ /\ cam_buff' \in Memory \ (Listed \cup recorder)
        /\ pc' = "callback"
     \/ /\ pc' = "idle"
        /\ UNCHANGED cam_buff
  /\ UNCHANGED <<dims, frames, previewVars, videoMsg, recording, recorder, late,
                 mCameraMemoryTs, raced, releaseVars>>

\* mDataCBTimestamp hands the frame to the recorder.
Callback ==
  /\ pc = "callback"
  /\ recorder' = recorder \cup {cam_buff}
  /\ late' = IF recording THEN 0 ELSE IF late < 2 THEN late + 1 ELSE late
  /\ pc' = "push"
  /\ UNCHANGED <<dims, frames, previewVars, videoMsg, recording, cam_buff,
                 mCameraMemoryTs, raced, releaseVars>>

\* mCameraMemoryTs.push_back begins to write the links,
BeginPush ==
  /\ pc = "push" /\ ~raced
  /\ pc' = "link"
  /\ UNCHANGED <<dims, frames, previewVars, videoVars>>

\* and has written them.
Push ==
  /\ pc = "link" /\ ~raced
  /\ mCameraMemoryTs' = Append(mCameraMemoryTs, cam_buff)
  /\ raced' = (rpc = "erase" /\ it = Len(mCameraMemoryTs))
  /\ cam_buff' = NULL
  /\ pc' = "idle"
  /\ UNCHANGED <<dims, frames, previewVars, videoMsg, recording, recorder, late,
                 releaseVars>>

-----------------------------------------------------------------------------
(* The framework                                                            *)

\* Mutant: the cached dimensions survive the change of window.
setPreviewWindow_KeepDims ==
  /\ ~previewLocked
  /\ window' \in Windows \cup {NULL}
  /\ refused' = FALSE
  /\ UNCHANGED <<pc, dims, frames, enabled, cached, geometry, held, videoVars>>

\* A window whose set_usage fails is replaced by no window.
setPreviewWindow ==
  /\ ~previewLocked
  /\ window' \in Windows \cup {NULL}
  /\ cached' = NULL /\ refused' = FALSE
  /\ UNCHANGED <<pc, dims, frames, enabled, geometry, held, videoVars>>

\* startPreview and stopPreview
EnablePreview ==
  /\ ~previewLocked
  /\ enabled' \in BOOLEAN
  /\ UNCHANGED <<pc, dims, frames, window, cached, geometry, held, refused, videoVars>>

\* The device is stopped and started again between two frames.
RestartDevice ==
  /\ pc = "idle"
  /\ dims' \in Dims
  /\ UNCHANGED <<pc, frames, previewVars, videoVars>>

EnableMessage ==
  /\ videoMsg' \in BOOLEAN
  /\ UNCHANGED <<pc, dims, frames, previewVars, recording, cam_buff, recorder, late,
                 mCameraMemoryTs, raced, releaseVars>>

enableVideoRecording ==
  /\ recording' = TRUE
  /\ UNCHANGED <<pc, dims, frames, previewVars, videoMsg, cam_buff, recorder, late,
                 mCameraMemoryTs, raced, releaseVars>>

disableVideoRecording ==
  /\ recording' = FALSE
  /\ late' = 0
  /\ UNCHANGED <<pc, dims, frames, previewVars, videoMsg, cam_buff, recorder,
                 mCameraMemoryTs, raced, releaseVars>>

-----------------------------------------------------------------------------
(* CallbackNotifier::releaseRecordingFrame, one call at a time              *)

\* The recorder gives a frame back, which it has had since the callback: the worker
\* may not have listed it yet.
releaseRecordingFrame ==
  /\ rpc = "idle"
  /\ \E b \in recorder :
       /\ recorder' = recorder \ {b}
       /\ opaque' = b
       /\ early' = early \cup ({b} \cap {cam_buff})
  /\ rpc' = "walk" /\ it' = 1
  /\ UNCHANGED <<pc, dims, frames, previewVars, videoMsg, recording, cam_buff, late,
                 mCameraMemoryTs, raced>>

\* Mutant: the loop ends before it looks at the last node.
WalkList_SkipsLast ==
  /\ rpc = "walk" /\ ~raced
  /\ \/ /\ it >= Len(mCameraMemoryTs)
        /\ rpc' = "idle" /\ opaque' = NULL /\ it' = 1
        /\ UNCHANGED early
     \/ /\ it < Len(mCameraMemoryTs) /\ mCameraMemoryTs[it] # opaque
        /\ it' = it + 1
        /\ UNCHANGED <<rpc, opaque, early>>
     \/ /\ it < Len(mCameraMemoryTs) /\ mCameraMemoryTs[it] = opaque
        /\ early' = early \ {opaque}
        /\ rpc' = "erase" /\ opaque' = NULL
        /\ UNCHANGED it
  /\ UNCHANGED <<pc, dims, frames, previewVars, videoMsg, recording, cam_buff, recorder,
                 late, mCameraMemoryTs, raced>>

\* One turn of the loop over the list, to which the worker may append meanwhile; the
\* frame that is found is released.
WalkList ==
  /\ rpc = "walk" /\ ~raced
  /\ \/ /\ it > Len(mCameraMemoryTs)
        /\ rpc' = "idle" /\ opaque' = NULL /\ it' = 1
        /\ UNCHANGED early
     \/ /\ it <= Len(mCameraMemoryTs) /\ mCameraMemoryTs[it] # opaque
        /\ it' = it + 1
        /\ UNCHANGED <<rpc, opaque, early>>
     \/ /\ it <= Len(mCameraMemoryTs) /\ mCameraMemoryTs[it] = opaque
        /\ early' = early \ {opaque}
        /\ rpc' = "erase" /\ opaque' = NULL
        /\ UNCHANGED it
  /\ UNCHANGED <<pc, dims, frames, previewVars, videoMsg, recording, cam_buff, recorder,
                 late, mCameraMemoryTs, raced>>

\* mCameraMemoryTs.erase has written the links around the node.
EraseNode ==
  /\ rpc = "erase" /\ ~raced
  /\ mCameraMemoryTs' = RemoveAt(mCameraMemoryTs, it)
  /\ raced' = (pc = "link" /\ it = Len(mCameraMemoryTs))
  /\ rpc' = "idle" /\ it' = 1
  /\ UNCHANGED <<pc, dims, frames, previewVars, videoMsg, recording, cam_buff, recorder,
                 late, opaque, early>>

-----------------------------------------------------------------------------
Worker == PreviewFrame \/ SetBuffersGeometry \/ DequeueBuffer \/ LockBuffer
          \/ MapBuffer \/ DrawFrame \/ VideoFrame \/ GetMemory \/ Callback \/ BeginPush
          \/ Push
Framework == setPreviewWindow \/ EnablePreview \/ RestartDevice \/ EnableMessage
             \/ enableVideoRecording \/ disableVideoRecording
             \/ releaseRecordingFrame \/ WalkList \/ EraseNode

DeliveryNext == Worker \/ Framework
DeliverySpec == DeliveryInit /\ [][DeliveryNext]_deliveryVars

-----------------------------------------------------------------------------
(* Properties                                                               *)

FlagsOK ==
  /\ enabled \in BOOLEAN /\ refused \in BOOLEAN /\ raced \in BOOLEAN
  /\ videoMsg \in BOOLEAN /\ recording \in BOOLEAN

DataOK ==
  /\ pc \in Labels /\ dims \in Dims /\ frames \in 0 .. MaxFrames
  /\ window \in Windows \cup {NULL} /\ held \in Windows \cup {NULL}
  /\ cached \in Dims \cup {NULL}
  /\ geometry \in [Windows -> Dims \cup {NULL}]
  /\ cam_buff \in Memory \cup {NULL}
  /\ recorder \subseteq Memory /\ early \subseteq Memory
  /\ mCameraMemoryTs \in Seq(Memory) /\ late \in 0 .. 2
  /\ rpc \in {"idle", "walk", "erase"} /\ opaque \in Memory \cup {NULL}
  /\ it \in 1 .. Len(mCameraMemoryTs) + 1
  /\ rpc = "erase" => it <= Len(mCameraMemoryTs)
  /\ pc \in {"callback", "push", "link"} => cam_buff \in Memory

\* Every variable stays within its declared range.
DeliveryTypes == FlagsOK /\ DataOK

\* While a frame is on its way to the window, the preview is enabled and the window
\* is the one its buffer was dequeued from: the framework may free a window once
\* set_preview_window has replaced it.
PreviewSection ==
  /\ previewLocked => enabled /\ window # NULL
  /\ pc \in {"lock", "map", "draw"} => held = window

\* On every path, failures included, a dequeued buffer is back with its window
\* before the next frame: a window has only a few buffers.
BufferGivenBack == ~previewLocked => held = NULL

\* adjustPreviewDimensions: the buffer a frame is drawn into has the dimensions of
\* the frame, "in order to be always in sync with frame dimensions".  A window that
\* refused them keeps its buffers, until the window or the dimensions change again.
PreviewInSync == pc = "draw" /\ ~refused => geometry[window] = dims

\* stop_recording does not wait for the worker, which has tested its flags already:
\* one frame may follow it, and never a second one.
OneLateFrame == late <= 1

\* release_recording_frame "releases video frame, sent to the framework": whatever
\* the worker lists meanwhile, a frame that is in the list and not with the recorder
\* is being released or was given back before the worker had listed it.
GivenBackIsFreed == Listed \subseteq recorder \cup early \cup {opaque}

\* The inductive invariant behind the two properties of the preview.
PreviewInv ==
  /\ PreviewSection
  /\ BufferGivenBack
  /\ pc \notin {"lock", "map", "draw"} => held = NULL
  /\ previewLocked => cached = dims
  /\ pc \in {"dequeue", "lock", "map", "draw"} /\ ~refused => geometry[window] = cached
  /\ cached # NULL /\ pc # "geometry" /\ window # NULL /\ ~refused =>
       geometry[window] = cached

\* The worker lists a frame that the recorder has, or has given back early.
PushedIsHeld ==
  /\ cam_buff # NULL <=> pc \in {"callback", "push", "link"}
  /\ pc \in {"push", "link"} => cam_buff \in recorder \cup early

\* No two nodes of the list hold the same frame, and none that of the worker.
ListedOnce ==
  /\ \A i, j \in Nodes : mCameraMemoryTs[i] = mCameraMemoryTs[j] => i = j
  /\ cam_buff \notin Listed

\* The loop of releaseRecordingFrame has not passed the frame it looks for.
NotPassed ==
  /\ rpc = "walk" => \A i \in Nodes : i < it => mCameraMemoryTs[i] # opaque
  /\ rpc # "walk" => opaque = NULL

\* What was given back early is still allocated: the history names no other frame.
EarlyIsKept == early \subseteq Listed \cup {cam_buff}

\* The inductive invariant behind GivenBackIsFreed.
RecordingInv ==
  GivenBackIsFreed /\ PushedIsHeld /\ ListedOnce /\ NotPassed /\ EarlyIsKept
=============================================================================
