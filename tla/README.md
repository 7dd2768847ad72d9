# TLA+ models of device_androVM

This directory holds a verification development of `device_androVM`,
Android device tree of the AndroVM / Genymotion virtual device. The device
tree is a collection of HALs and daemons that replace hardware by something
outside the virtual machine: a camera service, a GPS feed, a sensor feed, an
OpenGL renderer, the shared clipboard of the hypervisor. Each of them is a
small concurrent program of its own, reached by the Android framework on one
side and by a socket on the other.

## 1. Inventory

Vendored or generated code is left aside: the VirtualBox headers and runtime
(`vbox86/virtualbox`), the kernel modules, the Google packages, the encoders
generated from `*.in`/`*.types` (`gl_enc.cpp`, `gl2_enc.cpp`,
`renderControl_enc.cpp`, `*_entry.cpp`), and the files that no `Android.mk`
builds (`EmulatedCamera2*`, `EmulatedFakeCamera2*`, `audio_hw_MMAP.c`,
`audio_hw_GROUPER.c`, `audio_hw_LEGACY.c`). Paths below are under `src/`.

### Camera HAL (`vbox86/camera/camera_vbox86`)

* **EmulatedCamera** - the `camera_device_ops`. State: the parameters,
  preview window, the callback notifier, the device. Operations: open, close,
  start/stop preview, take picture, start/stop recording, set parameters,
  release. `takePicture` stops the preview, starts the device with the picture
  geometry and asks for a one-frame burst; it returns long before the frame.
* **EmulatedCameraDevice / EmulatedGenyCameraDevice** - state machine
  initialized -> connected -> started, the frame buffer `mCurrentFrame`, and a
  worker thread that every 1/50 s asks the camera service for a frame and
  delivers it. The worker is stopped by a byte on a socket pair it opens itself.
* **CallbackNotifier** - callback pointers, enabled messages,
  `mTakingPicture` flag, the list of video buffers the encoder still holds.
* **PreviewWindow** - dequeue, lock, fill and enqueue of window buffers.
* **GenyClient** - one TCP connection to the camera service; a request and an
  answer per query, a ten second receive timeout, no request identifiers.
* **EmulatedCameraFactory** - discovers the cameras, and owns them by index.

Hard behaviour: the framework and the worker share the device without a common
lock; the thread may not have started when it is told to stop; every query can
fail or time out; most results are ignored. Correct when: a frame in flight
always has its buffer; one query at a time on the socket; no thread without a
started device; every buffer is freed; every call returns.

### Camera proxy (`vbox86/camera/local_camera`)

A process that relays bytes between the HAL and the player: accepts one HAL
connection, then any number of successive player connections. Hard behaviour:
the player may disappear with a query in flight.

### GPS HAL and its daemon (`vbox86/gps`)

* **gps_vbox86.c** - one `GpsState` (the flag `init`, the connection, a control
  socket pair, the callbacks) and, for each `gps_init`, a thread that waits with
  epoll on the connection and on the pair; `start`, `stop` and `cleanup` send
  it commands. NMEA sentences are assembled byte by byte; a fix is reported by
  a callback, or kept until there is one.
* **local_gps.c** - a daemon that serves one connection at a time and, while the
  GPS is enabled, sends two sentences a second.

Hard behaviour: commands, sentences and the end of either side come in any
order; a failed `init` leaves its flag set; tokens are shared by all sentences;
the daemon learns of a closed connection only by sending. Correct when no
thread outlives `cleanup`, the session settles to the last command, what is
reported together is of one second, a sentence that does not fit costs no more
than it must, and `cleanup` returns.

### Sensor HAL (`vbox86/libsensor`)

A poll device that accepts clients into a table of slots and returns the records
they send as events, or the last event when the delay is over. Hard behaviour:
clients come and leave, a stream has no boundaries, the events of the caller
are few. Correct when events fit, no record is lost or returned twice, and every
client is read in the end.

### Sensor, battery and identity reader (`common/libgenymotion`)

Values with a manual or automatic mode, read from properties and cached.

### Audio HAL (`common/audio_alsa/audio_hw.c`)

Input and output streams over two ALSA PCMs, guarded by one device mutex and
one mutex per stream. Streams go to standby and are restarted by the next read
or write; all open PCMs must share one group of rates, so starting one stream
may force another to standby. A PCM server thread listens for a remote player.
Correct when a PCM is open exactly while its stream is active, a PCM in use is
not closed, two open PCMs have rates of one group (section 4 says how far that
goes), and the lock order device -> stream leaves no thread waiting.

### Gralloc (`common/opengl/system/gralloc`)

Allocation, registration, locking of graphic buffers that are an ashmem region,
a host colour buffer, or both. Correct when each mapping and each host
reference is released exactly once, in the process that took it, and a locked
buffer is mapped.

### EGL and GLES front ends (`common/opengl/system/{egl,GLESv1,GLESv2,OpenglSystemCommon}`)

Per-thread current context, contexts and surfaces with host handles, window
surfaces that queue and dequeue native buffers, and one host connection per
thread. Correct when a context is current in at most one thread and is destroyed
exactly once, after it is no longer current.

### IOStream and pipe streams (`common/opengl/host`, `common/opengl/shared/OpenglCodecCommon`)

The command buffer of the encoders: `alloc`, `flush`, `readback`. Correct when
no byte is lost, sent twice or overwritten.

### VirtualBox helpers (`vbox86/bd-vbox`, `vbox86/mount.vboxsf`, `vbox86/vmconfig`, `vbox86/setprop`)

Clipboard and property exchange with the hypervisor, shared-folder mounting,
network configuration at boot.

### Renderer relay (`vbox86/local_opengl`)

A process that pairs connections of guest processes with connections the host
makes on demand. State: the array of guests that wait, a thread with two
descriptors for each pair. Hard behaviour: descriptors are shared by all threads
and used again as soon as they are closed; a timeout gives up the guests that
wait while the host may be connecting; malloc and thread creation fail half way.
Correct when a pair is a guest and a host, no socket is lost, no guest waits for
ever, and the relay ends with the host, for init to start it again.

### Input (`vbox86/vinput`)

A TCP server that turns text commands into `uinput` events.

### Others

`common_x86/libhoudini_hook` (rewrites a few strings seen by translated
libraries), `common_x86/v86d` (real mode emulator for the frame buffer), init
scripts.

## 2. Modules

| module | models | of the code |
| --- | --- | --- |
| `EmulatedCamera` | the framework thread in the camera HAL and the worker thread of its device | `EmulatedCamera.cpp`, `EmulatedCameraDevice.cpp/.h`, `EmulatedGenyCameraDevice.cpp` |
| `FrameDelivery` | what the worker does with one frame: preview window and video recorder | `PreviewWindow.cpp/.h`, `CallbackNotifier.cpp` |
| `QueryChannel` | abstract: what a caller of `doQuery` may rely on | - |
| `CameraLink` | a query from `GenyClient` through `local_camera` to the player and back | `GenyClient.cpp`, `QemuClient.cpp`, `local_camera/main.c` |
| `Gralloc` | graphic buffers, their mappings and host references, across processes | `gralloc.cpp`, `gralloc_cb.h` |
| `EglContexts` | contexts and surfaces across the threads of an application | `egl.cpp`, `eglDisplay.cpp` |
| `AudioHal` | the streams of the audio HAL, their mutexes and the threads that call them | `audio_hw.c` |
| `LocalOpengl` | the relay of the renderer: main, a thread for each pair, the descriptors of the process | `local_opengl.c` |
| `GpsHal` | the framework's calls, the threads of the GPS HAL and the daemon that feeds them | `gps_vbox86.c`, `local_gps.c` |
| `SensorHal` | `poll`, its table of clients, and the clients | `geny_sensors.cpp`, `sensor.cpp`, `sensor_accelerometer.cpp` |
| `EmulatedCameraProofs`, `FramePathProofs` (of `CameraLink` and `FrameDelivery`), `GrallocProofs`, `EglContextsProofs`, `AudioHalProofs`, `LocalOpenglProofs`, `GpsHalProofs`, `SensorHalProofs` | theorems and their proofs | |
| `MC*` | instances for TLC: symmetry sets and sets of formats and usages | |

How they compose. The step `WkDeliver` of `EmulatedCamera` is one step there
and is spelled out call by call in `FrameDelivery`; what `FrameDelivery` assumes
of its surroundings (the dimensions of the device change between two frames,
never under one) is the theorem `DeviceStable` of `EmulatedCameraProofs`. A
query is one step of `EmulatedCamera` that succeeds or fails; `CameraLink`
spells it out, and `OneQueryAtATime` is what allows `CameraLink` to have one
caller. `CameraLink` implements `QueryChannel` under the mapping
`pending <- hpc # "idle"`. `GpsHal` composes two programs, the HAL and its daemon,
over the connection between them. The others stand alone: `Gralloc` has
processes and shares only the host with others, `EglContexts` has the threads
of one process, `AudioHal` those of the audio server, `LocalOpengl` those of the
relay, whose bytes it does not look at, and `SensorHal` has one thread in `poll`
and one that activates the sensor.

### EmulatedCamera

State. `state`, `geometry`, `bufferSize` and `currentFrame` are `mState`, the
frame dimensions with the pixel format, `mFrameBufferSize` and `mCurrentFrame`;
`heap` records what each address returned by `new` is allocated with, so that a
buffer that is lost or used after `delete` is visible. `wpc` is the point at
which the worker thread is: not running, created but not yet in `readyToRun`,
in `select`, in the frame query, delivering, or at the end of its loop.
`controlPipe` and `stopSent` are the socket pair and the byte in it. `fpc` is
the call a framework operation is about to return from.

Actions. The names `Sp`, `St`, `Tp`, `Cl` are `doStartPreview`,
`doStopPreview`, `takePicture` and `cleanupCamera`; each label is a query to the
service or a wait, and everything the code does between two of them is in one
action, early returns and error paths included. `connectDevice`, `startDevice`,
... are operators on the state of the device, shared by these actions as the
methods are in the code. `JoinWorker` is the wait in `stopThread`.

A failure of the service, of the socket or of the kernel is counted in
`faults`, up to `MaxFaults`; the properties that speak of failures use
count.

`PromptSpawn` is an assumption about scheduling: a thread that was created
opens its control pipe in `readyToRun` before the framework comes back to stop
it. Without it `stopDeliveringFrames` finds no pipe and returns at once, which
is the run `camera_stop`.

### FrameDelivery

`pc` is the next call of the worker into the window or the recorder. The
mutex of `PreviewWindow` is held from the first test to the last call
(`previewLocked`): `setPreviewWindow` and `EnablePreview` are disabled
meanwhile. `held` is the window whose buffer is dequeued, `geometry` the dimensions its
buffers have; `refused` remembers, for the property, that the last
`set_buffers_geometry` failed.

`CallbackNotifier` has no such mutex, and the operations of the recorder
interleave with each step of the worker. `mCameraMemoryTs` is the list of
recorded frames. `push_back` is two steps (`BeginPush`, `Push`), before and
after its links are written; `releaseRecordingFrame` is the call, one step for
each turn of its loop (`WalkList`), and the end of `erase` (`EraseNode`), so
that the recorder may give a frame back before it is listed, and the worker may
append while the recorder walks. When `push_back` and `erase` have both written
the last link, `raced` is set and nobody goes on: what the list is then is not
known. `late` counts frames recorded after the recording was stopped, `early`
remembers the frames given back before they were listed.

### CameraLink

The bytes of a reply are cut into *units*: its size, its first part, the rest
of a frame. That is as much as `receiveMessage` and the relay distinguish: a read of
`local_camera` returns any number of the units that have arrived, a timeout
falls between any two units, a player may leave after any of them. The units
carry the query they answer, which the program cannot see; the properties
compare it with the query that uses them.

### Gralloc

A handle is the structure `cb_handle_t` in one process, `kind = "own"` from
`gralloc_alloc` or `"clone"` from binder, which copies every integer of the
structure, `ashmemBase`, `ashmemBasePid` and `mappedPid` among them (`Export`,
external). `maps` is what the kernel has mapped where, `refs` what the host
counts. `gralloc_register_buffer`, `gralloc_lock` and the others are one action
each, with their tests and their failures.

### EglContexts

`eglMakeCurrent` is three actions, because another thread may run between the
test of `IS_CURRENT`, the answer of the renderer, and the local binding. The
application calls from any thread, with any valid handle, at any time. A call
stops where it would use a context that was freed, since nothing is known of
what it does then. `contested` remembers, for the properties, the contexts that
the application bound again, bound by two calls at a time, or destroyed in one
thread while current in another: those are the calls after which the code
loses the mark, or the context (section 4). `Visited` is the walk of
`eglDisplay::terminate` over its list, which erases an entry and then
increments the iterator all the same.

### AudioHal

A call in progress is `pc`, `op`, `stream` and, while a stream is started, the
active stream of the other direction (`peer`). `devLock` and `lock` hold the
owner of each mutex; a mutex that the code takes and gives back without waiting
in between is only tested. `active`, `standby` and `pcm` are `active_out` and
`active_in`, the flags of the streams, and the rate of the PCM each has open;
`outRate` and `alreadyTried` are `pcm_config_out.rate` and the `already_tried` of
`start_output_stream`, both of which outlive the call. `socket` and `client`
are the connection of the PCM server, to which `out_write` copies what it plays
with the mutex of the stream held. The call `"standby"` also stands for a
`set_parameters` that turns SCO on or off, which does the same under the same
mutexes.

External, as the HAL relies on it: the kernel opens one PCM per direction; the
output stream is opened once and kept, as `audio_policy.conf` has it; the
framework does not use a stream it is closing.

### LocalOpengl

`fds` is the table of descriptors of the process: accept hands out the lowest
that is free, and a thread that closes one closes whatever it is by then. `free`
is `free_local_sockets` with `nb_free_local`; `cd` is the `conn_duo` of each
thread with, for the properties, the guest it was made for. A turn of the loop
of main is one action, from select to the end of the body, named after what
select found. Two facts of the code are operators: `Watched` (select is told
to look at the descriptors up to `ssocket`) and `PingFails` (a ping is written every turn,
because the times start from 0 every turn). `copy_socket` is a read and a write,
between which other threads run. `reused` records that a second close met an
open descriptor. When the `memmove` at `:310` writes past its array the model
stops in `"overrun"`, since what it overwrites is not known.

### GpsHal

A session, its connection and its thread have one number. A sentence stands for
the second it tells of: its position, altitude, time and date are that second,
so that a mixture is visible in what is reported. `size` is what matters of its
length to `nmea_reader_addc`: it fits, its newline is the first character that
does not, more does not, or `snprintf` cut off the newline. `Parsed` follows
`nmea_reader_parse` with the indices it uses: GGA is read with those of RMC, so
that it gives an altitude and no position. `wanted` is the last of `gps_start`
and `gps_stop`, for the properties. TCP is external: what was sent before the
end is still read, a send to a closed connection succeeds once, a listening
socket that goes away resets what it had not accepted.

### SensorHal

A record is two halves, so that a read may end inside one. `ready` is the set
`select` leaves in `readfs`; slots are read in order, each as one action, until
the events are full. `above` holds the clients whose descriptor is above that of
the server, which is all that `poll` asks of descriptors. `owed` counts, for the
properties, the halves read from a client and not yet returned. `enabled` starts
with any value, because no constructor sets it.

## 3. Runs

Every run is one question.

| run | asks | bounds |
| --- | --- | --- |
| `camera_prompt` | are the frames of the camera delivered safely, and is everything released, whatever the sequence of calls? | 3 buffers, 3 formats, 2 failures |
| `camera_live` | does every call return, do frames arrive, without any assumption on when the new thread starts? | 2 buffers, 3 formats, 1 failure |
| `camera_stop` (violated) | does a stop always wait for the worker? | no failure |
| `link_queries` | which answer does a query get, with timeouts and players that come and go? | 3 queries, 2 players |
| `delivery_frames` | is each buffer given back, each frame drawn where it fits and each recorded frame released, with every failure and with the framework and the recorder interleaved? | 2 windows, 2 dimensions, 3 regions, 4 frames |
| `gralloc_processes` | are mappings and host references right in every process? | 2 processes, 3 handles, 2 buffers of 4 usages, 1 failure |
| `egl_contexts` | is what is current alive, and in one thread, with overlapping calls? | 2 threads, 3 contexts, 2 surfaces |
| `audio_calls` | is a PCM in use protected by the mutexes its user holds, and does every call return? | 3 threads, 2 inputs, 5 calls, 1 failure of `pcm_open` |
| `opengl_relay` | are guests and host paired rightly, is every socket somebody's, is every guest served or refused? | 4 guests, 2 host connections, 3 free sockets, 1 failure |
| `opengl_close` (violated) | are the free sockets connections of guests, whatever other threads close? | 2 guests, 1 host connection, no failure |
| `gps_sessions` | is a session what was last asked for, are its fixes right, does it end, and is the next one served? | 2 sessions, 3 seconds with 2 in a day, 2 commands, a backlog of 1, 1 sentence on the way, 1 failure or odd sentence |
| `sensor_clients` | do events fit, is any record lost, is any client left unread? | 3 clients, 2 slots, 2 events, 4 halves on the way, 1 failure or record in parts |

Why the bounds are enough:

* Camera. One buffer is in use and one is being allocated; the third is the one
  a refused start loses. Two failures allow a failure in the recovery from the
  first. Frames are not bounded: `delivered` saturates at 2, which is what
  `BurstDeliversOne` tells apart from 1.
* Link. A late answer needs two queries, an answer that is later than one
  failure three; a player lost in the middle of an answer needs a second one
  to answer next.
* Delivery. A replaced window and the old one; the frame being recorded, one
  the recorder has and one it gave back; four frames for a change of dimensions
  between two of them, and one after a stop.
* Gralloc. A buffer, its copy, and a copy of the copy, back in the first
  process; two addresses, so that the address carried by a copy may be free or
  in use in the process that gets it.
* EGL. Two calls that bind one context, or of which one destroys what the other
  has; a second surface to bind a context again. Three contexts are the shortest
  list on which the walk of `terminate` goes past the end. The theorems are
  about any number of threads.
* Audio. One thread in an input, one in the output and one that puts either to
  standby or closes it; two inputs, because the second cannot be opened beside
  the first. Five calls are the opening of an input, a use of each direction, and
  two more that find both active. Both rates are those of the code.
* Relay. Two pairs, one of which ends while the other lives, a guest that takes
  over a descriptor, and one that is refused because all free sockets are in
  use. Three free sockets instead of five: the `memmove` goes wrong from three
  on, as it does from four on with five. One pair and one guest are enough
  for the second close.
* GPS. The second session follows a first that ended or failed; seconds 0, 1
  and 2 are two of one day and one of the next; the backlog is that of
  `listen(server, 1)`. One odd sentence is followed by ones that fit.
* Sensors. The third client finds no slot, or one that was freed. The two
  events are filled by one client alone, or by two; two records may be on the
  way, or one and a half.

The type invariant `TypeOK` of each module holds on the same instances; it is
left out of the configurations, where it can be added.

Deadlock is checked in the runs of the camera and of the delivery, where some
thread can always move. It is not in the others, which really stop: in
`link_queries` all queries are asked and all players gone, in
`gralloc_processes` and `egl_contexts` every object is used up, in `audio_calls`
every call is made, in `opengl_*` the relay has exited, in `gps_sessions` all
sessions are used up, in `sensor_clients` the process has exited.

### Fairness

`camera_live` uses `FairSpec` of `EmulatedCamera`: weak fairness of the steps
of an API call in progress, and of the worker. Both are threads of a process
that Android schedules, and neither blocks for ever: a query ends after the
ten seconds of `SO_RCVTIMEO`, the `select` of the worker has a timeout, and the
wait for the worker ends with it, which is what the run shows. Nothing makes the framework
call the HAL.
`audio_calls` uses `FairSpec` of `AudioHal`: weak fairness of each thread in a
call, which is enough for a mutex because the calls are bounded and the others
leave it in the end; weak fairness of a client that stalls, which reads again or
leaves; strong fairness of the copy to it, because the space a read makes in the
socket stays until `write` fills it.
`opengl_relay` uses `FairSpec` of `LocalOpengl`: weak fairness of main, whose select
ends after three seconds, and of the end of a thread; none of the copying, of the
guests and of the host. `gps_sessions` uses `FairSpec` of `GpsHal`: weak fairness of
the threads, of the daemon's accept and second send, and of its restart by init; strong
fairness of the reading of a command, because `epoll_wait` reports both descriptors at
once, and of the end of a read, because the daemon sleeps for a second and the
reading is done long before. None of the first send: nothing makes the user
enable the GPS, and `NextSessionServed` has it as its premise. `sensor_clients`
uses weak fairness of `poll`, which the sensor service calls in a loop.

## 4. What the runs show

**Camera.** With `PromptSpawn`, framework and worker never have two queries on
the one socket, a frame in flight has a live buffer of the right size, nobody
stops or reconfigures the device under it, a stopped device has no worker,
control pipe is never opened twice, a burst delivers one frame, the callbacks
outlive the worker, and without failures a close leaves nothing behind. Each
refused start may lose one frame buffer, and no other path loses one
(`NoOrphanBuffer`). Without `PromptSpawn`, calls still return and frames still
arrive (`camera_live`), but a stop that overtakes the new thread leaves it
running over a stopped device (`camera_stop`; `EmulatedCameraDevice.cpp:310`
returns without waiting although its header says that it always waits).
`takePicture` returns before its frame; a preview started meanwhile makes the
first preview frame the picture, in whatever format it has: with two buffers and
`YuvFormats` TLC finds `PictureFrameIsNV21` violated, whatever
`CallbackNotifier.cpp:256` says.

**Link.** Without request identifiers an answer may be used by a later query,
but in order, at most once, and late by no more queries than have failed
(`ImplementsQueryChannel`); a frame is made of two replies only after a player
was lost (`FrameIsWhole`). `local_camera` waits for a
player without watching the HAL, and stays when the HAL goes, although the comment
at `main.c:25` says that it exits: under `FairSpec` of `CameraLink` TLC finds
`HalLossEndsProxy` violated.

**Delivery.** Buffers of the window are given back on all three failure paths,
frames are drawn into buffers of their own dimensions, and one frame at most is
recorded after the stop. `adjustPreviewDimensions` caches the dimensions before
`set_buffers_geometry` is called, so that after a failure it is not called
again: the frames that follow are drawn into buffers of the former dimensions
until the window or the dimensions change, and `PreviewInSync` excuses exactly
those (without `~refused` TLC finds it violated). A frame that was in the list
when the recorder gave it back is freed, whatever the worker lists meanwhile
(`GivenBackIsFreed`). One that the recorder gives back before the worker has
listed it is searched in vain, listed afterwards, and never freed: TLC reaches
that state, which the property sets apart as `early` and nothing else with it.

**Gralloc.** A handle that a process may lock is mapped in that process,
whatever the integers it was copied with said, and no two handles of a process
share a mapping. Mappings and references to the host are lost only to failures.
What is written under a lock has reached the host when the lock is gone.

**EGL.** Whatever calls overlap, no context is current in two threads, but for
the moment in which one of them is about to release it (`CurrentInOneThread`),
and outside the local half of `eglMakeCurrent` the renderer has bound what each
thread takes to be bound (`HostAgrees`): the renderer refuses a context that is
bound to another connection, whatever the marks say. A current context is alive
and marked, and nothing marked or to be deleted is left behind, unless the
context is contested (`CurrentIsKept`, `NothingLeftBehind`). With a contested
one the code does go wrong; TLC reaches each of these states in the same run:

| the context was | what happens | because |
| --- | --- | --- |
| bound by two calls at a time | the thread that had it first ends its release late and takes the mark from the other | both test `IS_CURRENT` before either binds (`egl.cpp:956`) |
| bound again, to another surface | it is current without a mark, and `eglTerminate` or another thread may delete it | the mark is set and then cleared with that of the previous context, which is the same (`egl.cpp:996`) |
| destroyed by another thread | it is freed while current | `eglDestroyContext` asks only whether it is current in the calling thread (`egl.cpp:876`), although the comment at `:897` speaks of any thread |

The properties show that a current context is lost in no other way, and that what
happens to a contested context takes no other along. A context may also be destroyed, by
`eglDestroyContext` or `eglTerminate`, between the answer of the renderer and
the local binding of another thread: that binding would use it after it was
freed, and is where the model stops. `eglTerminate` frees
surfaces that are current, against its comment (`eglDisplay.cpp:210`; TLC finds
`CurrentSurfaceIsKept` violated), and, erasing while it walks, skips
every second context that is not: those stay alive, listed, with no handle.

**Audio.** The flags, the pointers of the device and the open PCMs agree; the
PCM of a read or a write stays open under it although the device is unlocked by
then; a stream that another is to stop is still the active one and not freed
when its mutex is obtained; an input is opened only beside an output of its
group of rates; every call returns. What does not hold is the converse of the
rates: the second attempt of `start_output_stream` (`audio_hw.c:290`) leaves the
output at 44099 for good, which is in no group, so that an output started beside
an open input at 44100 leaves both open, whatever the comment at `:267` says.
And every call depends on the client of the PCM server: `out_write` waits in
`write` (`:737`) with the mutex of the stream, for which another call waits with
that of the device.

**Relay.** As long as no descriptor that was closed twice had been handed out
again, every socket in `free_local_sockets` is a guest's, and every thread copies
between the two connections it was made for. `opengl_close` shows the other
case, with two guests and one thread: `copy_socket` closes both descriptors, a
guest is accepted on one of them, `conn_thread` closes them again, and main pairs
the next host connection with a descriptor that is closed or somebody else's.
A guest in the array has a host connection on its way but for failures;
sockets nobody knows of come from failures, two for each (`conn_thread` without a
buffer returns without closing); every guest is paired, refused or given up; and the relay
ends when the host goes, because the second ping fails. It ends for no other
reason it was written for: the times of ping and pong are set to 0 at each turn, so
that a silent host is never missed, and the data port is opened after the main
connection, with a lower descriptor, so that select never looks at the main
connection. Not covered by a property: `memmove` moves structures of two ints in an
array of ints (`:310`) and writes past it when four of the five are in use; a
`write` to a peer that has gone raises SIGPIPE, which ends the relay with all
its pairs (`EndCopy`).

**GPS.** A thread that runs has the state and an open connection to itself,
also after an `init` that failed; a session settles to the last command; an
overlong sentence costs itself and at most the next one; a position is
reported with an altitude that is not older and, when both are of one second, with
the time of that second.
What is reported without a position, from the first GGA after midnight, has
yesterday's date. `cleanup` returns unless the daemon has ended the
connection: then `recv` returns 0 for ever (`:714`) and `cleanup` does not return.
(That `cleanup` waits at all needs a thread that can be joined, which
`create_thread_cb` of the framework is to make.) A thread whose connection is reset ends
without a word, and later commands are read by nobody. After a failed `init`
the flag stays, the next `init` does nothing, and only `cleanup` helps. A new session is
served while the GPS is enabled; while it is not, the daemon sends nothing, does not
notice that the old connection was closed, and the new one waits.

**Sensors.** Events fit, and every record is returned once until a read ends inside
one; from then on the records of that client are read from their middle and are of
no known sensor. A client is heard in the end, unless those in the slots below fill the events again
and again or the process exits: no other order of records, connections and
disconnections starves one. (Without the first exception TLC finds `ClientHeard`
violated: two clients that send as fast as `poll` reads, of which the second is
never looked at.) Not covered by a property: a connection that finds no slot is left open and
unknown (`:258`); an error of `select`, also EINTR, ends the process when no client has a
descriptor above the server's (`:195`), and disconnects all clients otherwise.

Seen while modelling and not the subject of a run: the preview format `rgb32`
is offered although no device can be started with it; a player that resets its
connection between `select` and `send` makes `local_camera` exit instead of
waiting for the next one; `gralloc_device_close`
never ends when a buffer cannot be freed for want of a connection; a fake front
camera is written past the table of the camera factory; a frame query that fails
ends the worker and leaves the device started; the HAL does not connect again
after `local_camera` has exited; `vinput` keeps the state of the pointer when its
client reconnects, so that a touch may stay down.

## 5. Proofs

Each theorem is about every value of the constants the named assumption of its
module allows.

| theorem | from | says |
| --- | --- | --- |
| `EmulatedCameraProofs!TypeCorrect` | - | `TypeOK` |
| `DeliveryCorrect` | `PromptSpawn` | `DeliveryInv` is invariant |
| `DeliverySafe`, `FramesInLiveBuffers`, `NoWorkerLeft`, `OneFramePerBurst` | `PromptSpawn` | `OneQueryAtATime`, `FrameBufferLive`, `StoppedDeviceHasNoWorker`, `PipeFollowsWorker`, `BurstDeliversOne` |
| `DeviceStable`, `CallbacksSafe` | `PromptSpawn` | the action properties `DeviceStableDuringFrame`, `CallbacksOutliveWorker` |
| `OrphansCounted`, `OrphansBounded` | - | `OrphanInv`, and with it `NoOrphanBuffer` |
| `CloseCorrect`, `PreviewsFed`, `ClosesClean` | `PromptSpawn` | `CloseInv`, and with it `PreviewIsFed`, `CleanClose` |
| `FramePathProofs!ChannelCorrect`, `LinkImplementsChannel` | - | `ChannelInv` is invariant, and with it `CameraLink` implements `QueryChannel` (`ImplementsQueryChannel`) |
| `WholeCorrect`, `FramesWhole` | - | `WholeInv`, and with it `FrameIsWhole` |
| `FramePathProofs!TypeCorrect` | - | `DeliveryTypes` |
| `PreviewCorrect`, `PreviewSafe` | - | `PreviewInv`, and with it `PreviewSection`, `PreviewInSync` |
| `RecordingCorrect`, `ReleaseFrees` | - | `RecordingInv`, and with it `GivenBackIsFreed` |
| `LateCorrect`, `BuffersReturned`, `LateFrames` | - | `LateInv`, and with it `BufferGivenBack`, `OneLateFrame` |
| `GrallocProofs!TypeCorrect` | - | `TypeOK` |
| `MappingCorrect`, `UsableMapped`, `MappingsApart` | - | `MappingInv`, and with it `UsableIsMapped`, `MappingsNotShared` |
| `WritesArrive` | - | `WritesReachHost` |
| `RefsBounded`, `MapsBounded` | - | `HostRefsBounded`, `MappingsBounded` |
| `BindingCorrect`, `HostBindingAgrees`, `OneThread` | - | `HostInv`, and with it `HostAgrees`, `CurrentInOneThread` |
| `MarksCorrect`, `CurrentKept`, `NothingLeft` | - | `MarksInv`, and with it `CurrentIsKept`, `NothingLeftBehind` |
| `AudioHalProofs!MutexesProtect` | - | `TypeOK` and `LockInv` are invariant |
| `ActiveAgrees`, `IoProtected`, `PeerStays` | - | `ActiveHasPcm`, `PcmLiveDuringIo`, `PeerAlive` |
| `InputRates` | - | the action property `InputKeepsRateGroup` |
| `LocalOpenglProofs!TypeCorrect` | - | `TypeOK` |
| `SocketsOwned` | - | `OwnedUntilReused` |
| `FreeAwaited`, `SocketsKnown` | - | `FreeIsAwaited`, `NoOrphanSocket` |
| `GpsHalProofs!TypeCorrect` | - | `TypeOK` |
| `SessionCorrect`, `ThreadSafe`, `SessionSettles` | - | `GpsInv`, and with it `ThreadOwnsState`, `SettledSession` |
| `OverlongCostsOne` | - | `DropsBounded` |
| `FixesWhole` | - | `FixOfOneSecond` |
| `EventsFit` | - | `FitsInData` |
| `RecordsReturned` | - | `LossNeedsSplit` |

Few of the properties are inductive by themselves. The strengthenings
(`DeliveryInv`, `OrphanInv`, `CloseInv`, `ChannelInv`, `WholeInv`, `PreviewInv`,
`RecordingInv`, `LateInv`, `MappingInv`, `WriteInv`, `RefsOf`, `LostInv`, `HostInv`, `MarksInv`,
`LockInv`, `RateInv`, `RelayInv`, `AwaitInv`, `OrphansPaid`, `GpsInv`, `DropInv`, `FixInv`,
`FitInv`, `LossInv`) are defined in the modules of the proofs; the runs list what
follows from them. `PipeFollowsWorker`, `PreviewSection`, `MappingsNotShared`,
`HostAgrees`, `NothingLeftBehind`, `ActiveHasPcm` and `PeerAlive` are proved and not
listed in a run.

* *Camera.* `FrameBufferLive` fails in the step before a query unless the buffer
  the device has when the worker starts the query is allocated with the size it
  has, which needs that a started device owns its buffer, that a worker exists
  only while the device is started, and that the framework is at a point where
  it will wait for the worker before it touches the device (`WorkerAllowed`).
  `DeliveryInv` says that, with where the framework returns to after a wait.
  The induction has one step per action; `joinTo` and `cont` keep the case split
  small, since a wait may only lead to the four places listed.
  `NoOrphanBuffer` counts: every buffer but the one of a started device was
  allocated by a start that was refused afterwards, and each such start is one
  fault (`OrphanInv`). `CleanClose` looks at a closed camera only; `CloseInv` follows
  the close: when the framework disconnects the device it is stopped, and when
  it cleans up the notifier the device is back in its initial state, whatever
  the worker was doing when the close began.
* *Link.* A query that times out is answered later, and the answer is taken for
  that of the next query. What holds is that the lag does not grow by itself:
  every query has failed, or used an answer, or is the pending one, so that
  `asked <= answered + failures + 1`; and what the HAL may still read, from the
  unit at hand to the query the player has not seen, is in order (`InOrder`), so
  that an answer used is later than the last and is used once. Every step of the
  link takes units from the front of that order or adds the newest query at
  its end, or loses a part (`Window`). For `FrameIsWhole`, `WholeInv` says that
  replies lie whole between player and HAL as long as the HAL is there and no player was
  lost, because `local_camera` itself then throws nothing away: it leaves its loop
  only for a connection that ended. Nothing is assumed of the constants; the
  bounds on queries and players only limit what TLC explores.
* *Delivery.* `PreviewInv` adds that the cached dimensions are those of the
  window whenever the worker has no call to `set_buffers_geometry` to make and
  the last one was not refused. `RecordingInv` adds that the frame being
  recorded is not in the list and, once the callback was called, is with the
  recorder or was given back early (`PushedIsHeld`), that no frame is listed
  twice (`ListedOnce`), and that the loop has not passed the frame it looks for
  (`NotPassed`), so that it ends in vain only when that frame is not listed.
  `EarlyIsKept` bounds the excuse: only a frame that is still listed or about to
  be listed counts as early. `LateInv`: a buffer is out of its window only at the
  three calls that have it, and a worker
  that has recorded a late frame has its tests of the flags still to make.
* *Gralloc.* `UsableIsMapped` speaks of registered handles; a handle whose
  unregistration failed for want of a connection keeps its mapping, and another
  registration may not be given its address. `MappingInv` therefore speaks of
  every handle whose fields claim a mapping in its own process. `WriteInv` says
  that only a handle in use is locked and that a lock for writing has recorded
  its region, which is what `unlock` sends. For `HostRefsBounded` and
  `MappingsBounded` each action is shown to add or take one member of the set of
  users of a buffer, or of lost mappings, together with one reference or one
  failure; the cardinalities follow.
* *EGL.* `HostInv` looks at thread and renderer alone: it joins `HostAgrees` to
  what is bound in the renderer between its answer and the local binding
  (`BindingsAgree`), and to the renderer's own rule (`BoundOnce`); no mark has a
  part in it. `MarksInv` looks at one context that is not contested: a thread
  holds the context it has and the one it is about to have (`Held`), one thread at
  most holds it (`HeldAlone`), and its mark is there exactly while it is current, when
  it is alive (`MarkAgrees`). A step on other contexts leaves both alone, and of
  the steps on this one those that would break them make it contested.
* *Audio.* `LockInv` says of each thread which mutexes it holds at its point of
  the call and what that lets it know of its stream (`CallInv`): a stream that is
  being started is in standby, one that is read or written is not, and one that
  is being closed has no other user. A step of one thread cannot change what
  another knows, because it would need a mutex the other holds; that is one lemma,
  cited by every action. `RateInv` adds that an input about to open its PCM,
  whose thread still holds the device, has the output of its group or none.
* *Relay.* `OwnedUntilReused` is kept by a step only if no two owners share a
  descriptor: `Own` adds that no entry of the array appears twice, that no free
  socket is a thread's, and that two threads have different local sockets (their
  host sockets differ because a descriptor is one connection). Each action either
  leaves the owned descriptors alone (`Framed`), closes what it owns
  (`ThreadClosesOwn`), or takes one that nobody owns, because it is free in the kernel.
  The second close keeps `Own` exactly when it closes nothing, which is what
  `reused` says. `FreeIsAwaited` and `NoOrphanSocket` count sockets: a free one is
  awaited by a request for a connection or was paid for by a failure; one known
  to nobody came from a failure that left at most two. Each step is
  first shown to change those sets by one member at most.
* *GPS.* `SettledSession` looks at a moment when no command is left. `FollowsInv`
  says what holds before: the last command not yet read is the one that was last
  asked for, or, when there is none, the thread does what was asked; and the
  status told is that of the thread. `ControlInv` keeps QUIT last, and commands out
  of the pair until the callbacks are there, so that no status is lost.
  `DropInv` has the sharper bound `dropped + 1 <= 2 * odd` while overflowing.
  For `FixOfOneSecond`, the sentences on the way have seconds that do not go back
  and each RMC is behind its GGA (`Chain`), also when the daemon has sent only
  the first of the two (`Pending`); `Told` joins that to what the reader
  has kept of the sentences before. It holds until a first sentence does not fit.
* *Sensors.* For `FitsInData`, `ReadyHasClient` says that a slot about to be read
  has a client, so that a read is of a stream. For `LossNeedsSplit`, `OwedInv` equates
  what is owed to twice the number of events in `data` (`Tally`, with lemmas on
  the cardinality of a concatenation), `AlignInv` says that what is on the way
  starts with a record until a read ended inside one, and `FreshInv` that a
  connection not accepted has sent nothing.

With these, every invariant, action property and refinement that a passing run
checks is also a theorem for all values of the constants. Only model-checked is
liveness (`ApiReturns`, `FramesArrive`, `CallsReturn`, `GuestServed`,
`HostLossEnds`, `CleanupReturns`, `NextSessionServed`, `ClientHeard`): it rests on
fairness, and the provers know nothing of `ENABLED`. `ListedOnce`, an invariant of
`EglContexts` that no run lists, cannot be proved because no theorem about
`SelectSeq` is available to the provers. The two violated runs refute a claim on
one instance, which is all that is needed.

## 6. Not modelled

`PROJECT.json` lists every component with its reason. Pure input and output or
one-shot programs (`vinput`, the helpers of the hypervisor, `mount.vboxsf`,
`setprop`, `vmconfig`, the scripts), arithmetic without state (pixel
converters, JPEG), and vendored or generated code stay out. Within the
modelled components: the text of queries and parameters, the
framebuffer device and the strides of `gralloc.cpp`, native buffers,
configurations and images of `egl.cpp`, volumes, resampling, effects and the
buffers of `audio_hw.c`, the bytes the relay copies, the numbers in the sentences of the
GPS, the properties the sensor HAL writes. Most of the lines of the repository
are the headers and libraries of VirtualBox and generated encoders, which are not this
project's programs; the models cover the device's own daemons and HALs.

## 7. Plan

Done, in this order, because it is the order in which the behaviour of the
device depends on threads: the camera core, its link, its delivery, gralloc,
EGL, audio, the relay of the renderer, GPS, sensors. Left:

1. `IOStream` and `HostConnection` below EGL (no byte lost, sent twice or
   overwritten), then `swapBuffers` in `EglContexts`.
2. `vinput`: the state of the pointer over reconnections, and the two-finger
   gestures, whose geometry has a case each for the four orientations.
3. Proofs: of what 1 and 2 add, and that a step of `FrameDelivery` from one
   frame to the next is the step `WkDeliver` of `EmulatedCamera`, so that the
   assumption between the two is a theorem as well.

The set of runs is kept at a dozen. A new component brings one passing run with
all its properties; to make room, violated runs go first, their finding
staying in section 4. Likewise for the properties of a run: what a theorem
gives for every instance makes room before what only a run can show.
