# AXRB in TLA+

AXRB lets an Android OpenXR application, running in a container (Waydroid), render to a headset
that is attached to a Windows host. An OpenXR runtime inside the container (`android-runtime/`)
answers the application; its APK (`android-runtime-apk/`) serves poses and forwards images; a
host bridge (`host-bridge/`) owns the real OpenXR session, publishes head poses and shows the
images it receives; `protocol/` holds the wire formats and transports both sides use.

This directory holds TLA+ specifications of that code, TLC configurations that check them on
small instances, and proofs checked by TLAPS. Paths below are relative to the repository.

## 1. Inventory

### Components

| Component | Files | State | Operations |
|---|---|---|---|
| Runtime: session and events | `android-runtime/session.cpp` | `g_sessionState`, `g_pendingSessionEvents` | create/destroy instance and session, begin, end, poll |
| Runtime: swapchain and frames | `android-runtime/session.cpp` | `g_swapchainCreated`, `…ImageAcquired`, `…ImageWaited`, `g_nextSwapchainImage`, `g_currentSwapchainImage`, `g_lastReleasedSwapchainImage`, textures, `g_imageFrameSequence` | create/destroy swapchain, acquire, wait, release, end frame |
| Runtime: spaces, paths, actions | `android-runtime/session.cpp` | tables of 16 spaces, 64 paths, 8 actions with counters | create/destroy space, string to path and back, create action, locate space |
| Runtime: image client | `android-runtime/session.cpp` | socket of `ImageTransportClient` | connect, send header and payload, close on error |
| Runtime: pose client | `android-runtime/pose_client.cpp` | socket, last frame, two countdowns | JNI query of the broker, connect, drain frames |
| APK: pose broker | `RuntimeBrokerProvider.java` | TCP socket, last pose | `query` reads one frame, reconnects |
| APK: image proxy | `ImageProxy.java` | server socket, UDP socket, frame id | accept a client, relay each frame as datagrams |
| Pose server | `protocol/transport_tcp.cpp` | listening socket, sequence | serve one client at a time, at 90 Hz |
| Image server | `protocol/image_transport.cpp` | listening socket, the client served, frame count | accept, receive a header and a payload, validate, hand over, drop a client |
| Encoded video over UDP | `protocol/video_transport.cpp` | sender: frame id; receiver: table of incomplete frames | send frame, receive, evict, time out |
| GPU descriptors | `protocol/gpu_transport.cpp` | Unix socket, `UniqueFd`s, file descriptors of the process | send and receive one descriptor with its fds, own, show and close them |
| Host bridge | `host-bridge/openxr_host.cpp` | host session state, `useFrameLoop_`, image store, uploaded sequence of each image | session events, frame loop, image threads |

Command line parsing, the OpenXR dispatch table and type declarations, a few placeholder
translation units and the container scripts keep no state worth modelling.

### Interactions

* The application calls the runtime on one thread; every call reads and writes the globals of
  `session.cpp`, which no lock protects. Session states reach the application only through
  `xrPollEvent`, while calls are checked against the newest state.
* `xrEndFrame` reads back the image released last and sends it, synchronously, to the image proxy
  on a TCP connection; the proxy cuts it into UDP datagrams for the host.
* `xrLocateViews`, `xrLocateSpace` and their like ask the pose client, which asks the broker (JNI)
  or reads the pose server's TCP stream itself.
* The host runs its OpenXR frame loop on one thread and takes images on two others (TCP and UDP);
  the three share one image store under a mutex. The TCP thread is the image server with a callback
  that stores the frame.
* GPU frames go over a Unix socket: each sender connects, passes one descriptor with the file
  descriptors of its planes (`SCM_RIGHTS`) and closes. The numbers the server gets are those of its
  whole process, which other threads use too.

### Hard behaviours and what makes each component correct

* *Session and events.* State and queue are changed together, read apart. Correct: the
  application reads a legal sequence of states, none skipped, that ends in the runtime's state.
* *Swapchain.* Three counters and three flags have to agree, through four calls that end a
  swapchain. Correct: images are handed out one at a time in ring order; the image read back by
  `xrEndFrame` is not the one the application holds; nothing outlives the swapchain.
* *Frame numbers.* A frame is numbered before anything can fail. Correct: numbers of sent frames
  increase.
* *Video transport.* Datagrams are lost, repeated and reordered; the table is full; the sender
  restarts and numbers from 0. Correct: no copy past a payload, only whole frames are handed over,
  each made of one frame's chunks; incomplete frames do not stand in the way of newer ones.
* *Spaces, paths, actions.* Fixed tables that are never freed, or not reset, or reset under live
  handles. Correct: a valid handle names what it was created for.
* *Poses.* A stream at 90 Hz read by a client at its own pace, reconnects, one client at a time.
  Correct: poses reach each reader in order across reconnections and restarts, none goes to two;
  the broker's lock is released; a call for a pose returns.
* *Images to the host.* Frames with several layers, clean and unclean ends of a connection, in the
  middle of a frame too. Correct: what goes on is one whole frame with its own header, in the order
  of the numbers on each connection, and later connections carry newer frames.
* *Image server.* One client at a time, without a time limit; clients that send what is refused, stop
  half way or go away. Correct: the callback gets whole valid frames of one client, sockets are
  closed, the next client has its turn.
* *Host bridge.* Session states from the host runtime, errors inside a frame, threads that outlive
  `run`. Correct: every begun frame is ended, every acquired image is released.
* *GPU descriptors.* Short and invalid descriptors, a process without free numbers, a vector that
  grows while it owns, another thread that is given a number as soon as it is closed. Correct: every
  number has one owner and is closed once, a frame is shown with its own buffers.

The hazards, each at the line where it bites, are listed in `PROJECT.json`.

## 2. Modules

| Module | Models |
|---|---|
| `SwapchainContract` | the abstract contract of a swapchain, without counters |
| `RuntimeSession` | the runtime's session, swapchain and frame calls; implements `SwapchainContract` |
| `RuntimeSession_proofs` | theorems about `RuntimeSession` |
| `RuntimeHandles` | the runtime's tables of spaces, paths and actions |
| `RuntimeHandles_proofs` | theorems about `RuntimeHandles` |
| `FrameChannel` | an unreliable channel of whole frames, abstractly |
| `VideoTransport` | sender, network and receiver of the UDP transport; implements `FrameChannel` |
| `VideoTransport_proofs` | theorems about `VideoTransport` |
| `PoseRelay` | the way of a pose to its readers, abstractly |
| `PosePath` | pose server, pose broker and the applications' pose clients, composed; implements `PoseRelay` |
| `PosePath_proofs` | theorems about `PosePath` |
| `HostBridge` | the host bridge's frame loop, the host's OpenXR runtime as it sees it, the image store |
| `HostBridge_proofs` | theorems about `HostBridge` |
| `ImageRelay` | the way of a frame out of the container, abstractly |
| `ImagePipeline` | the runtime's image client and the APK's image proxy, composed; implements `ImageRelay` |
| `ImagePipeline_proofs` | theorems about `ImagePipeline` |
| `FrameIntake` | a server that takes the frames of one client at a time, abstractly |
| `ImageServer` | the TCP image server of the host and its clients; implements `FrameIntake` |
| `ImageServer_proofs` | theorems about `ImageServer` |
| `FrameCustody` | the abstract contract of the descriptors of a GPU frame |
| `GpuTransport` | senders and server of GPU frames over the process's table of file numbers; implements `FrameCustody` |
| `GpuTransport_proofs` | theorems about `GpuTransport` |
| `MC…` | the instances TLC checks, one module for each component |

### RuntimeSession

One variable per global: `sessionState` is `g_sessionState`, `pending` is `g_pendingSessionEvents`,
`created`/`acquired`/`waited` are the three swapchain flags, `nextImage`/`currentImage`/
`lastReleased` the three counters, `textures` whether `g_glSwapchainTextures` holds textures,
`shape` what the size checks of `maybe_send_swapchain_image` will say, `sequence`
`g_imageFrameSequence`. `given` is the set of handles the application has: instance and session
handles are addresses of globals and stay valid for ever once given. Three history variables
(`appState`, `hasReleased`, `lastSent`) are read by properties only.

One action per entry point that changes state. A call that returns an error changes nothing, so it
is a stuttering step; the guard of an action is the conjunction of the checks the call passes. In
particular `EndFrame` sends the image *before* the call looks at the session state, as
`xrEndFrame` does, so a session that is not focused sends it too. Where OpenGL is not current the
texture names stay zero and nothing is read back: `textures' \in BOOLEAN` at creation. The size
check, the readback and the connection to the proxy are one choice between "sent" and "not sent";
both use up a number.

### RuntimeHandles

`spaces` is the part of `g_spaces` that `find_space` searches, of which only the kind is kept,
`paths` that of `g_paths`, `nextPath` `g_nextPath`, `actionCount` `g_actionCount`. A handle of a space
or an action is its place in the table. `Cut` says what the 127 characters of a record keep of a
text; `FindPath` and `EnterPath` are the two ends of `xrStringToPath`, whose search compares the whole
text with what was kept. `CreateHandSpace`, `CreateActionSpaceOnly` and `CreateStaleSpace` are
`xrCreateActionSpace` with a subaction path of the present instance, none, and one of an earlier
instance, which then names whatever text has its number now. `asked` and `placed` are histories.
`xrDestroySpace` and `xrDestroyAction` only look the handle up, so a table that is full stays full
until the next instance, and that of the actions for good.

### VideoTransport

`sending` and `offset` are the locals of `send_frame` (one datagram is one step, so a sender can
fail or restart between two), `net` the datagrams on their way, `frames` the receiver's `std::unordered_map`
keyed by frame id, each with the metadata of its first packet, the set of chunks copied and the
byte count. A chunk of an assembly records the run of the sender whose bytes it holds. The run is
not in the packet; it stands for the bytes, which the receiver copies without comparing. `Receive`
is the whole body of the receive loop: find or create the assembly, compare sizes
(`SizeAgrees`, `DropMismatch`), copy and count distinct bytes, hand a complete frame over and erase it
(`DeliverComplete`), else keep it (`KeepPartial`), and in both cases evict the lowest ids while the
table is too large. `outcome` is what `receive` returned: with a limit it ends at the limit or after
three seconds without a datagram (`Timeout`). The check of the packet header (magic, version, sizes)
is left out: every packet the sender makes passes it.

The network loses and repeats at most `MaxFaults` datagrams and reorders them as it likes, since
`net` is a set. What the receiver owes the application is stated against that (`Owed`): a frame no
datagram of which was lost, whose id is not used by two runs (`Mixed`: the code cannot tell the runs
apart) and which is not followed by `Capacity` higher ids (`Crowded`: the code gives it up).

`FrameChannel` keeps of all this the frames sent, the frames given, their number and whether the
receiver listens. A frame is sent when `send_frame` is entered and given when `DeliverComplete`
hands it over; losses, repeats and evictions are frames that are never given, or given more than
once. Each chunk given is of some run that sent a frame with this id and size: that two runs may be mixed in
one frame is part of the contract, because the code does not tell them apart.

### PosePath

Three programs in one module, because what can go wrong lies between them. A pose is its place in
the order in which frames were produced, over all runs of the server (`produced`), since the
server's own `sequence` starts again at 0. A TCP connection is the sequence of frames sent and not
yet read; `sock` is what the client knows of it (`"ended"`: the server closed, what was sent can
still be read), `client` and `backlog` what the server knows. A client that closes becomes `Gone`
to the server, which finds out only by sending: `SendLost` is a send the kernel still accepts,
`SendFails` the one it refuses, after which the frame's number is used again.

* *Server* (`transport_tcp.cpp`): `Accept`, `SendFrame` (blocks while the connection holds
  `MaxBuffered` frames), the frame limit (`Counted`), `KillServer`, `StartServer`.
* *Broker* (`RuntimeBrokerProvider.java`): `UpdatePose` takes `poseLock` and connects, at most one
  attempt a second (`brokerWait`); `BrokerReads` or, after a second or at the end of the
  connection, `BrokerGivesUp`; `TakeRow` is the second `synchronized` block, which copies the row.
  Between the two another query may run.
* *Client* (`pose_client.cpp`): `pc` is where a call of `latest_pose_frame` is. `Call` decides
  between the broker and the own connection with `broker_retry_countdown_`, `QueryFails` sets it,
  `EnsureConnected` counts `retry_countdown_` down or connects, `ReadFrame` and `ReadEnd` are the
  read loop. `xrLocateViews` and `xrLocateSpace` make such a call.

The countdowns restart from `BrokerRetry` (30, or 90 when the thread cannot be attached) and
`ConnectRetry` (90); the checks use 1, and the theorems hold for any value. The four candidate
hosts of a connection are one server that is reached or not. A partly received frame counts as not
yet sent. An application is killed only outside a binder call.

`PoseRelay` knows no sockets: the frames on a connection are the set of those on their way to its
reader (`pending`), which the reader takes oldest first or loses together; an application with no
frames of its own on their way may copy the broker's pose (`CopyRow`), and `rows`, which is
`fromBroker`, says who did.

### HostBridge

`make_frame` call by call, with the host's OpenXR runtime (SteamVR, Monado) as an external party.
Of that runtime the module keeps what the OpenXR specification says an application can rely on:
`rt` and `events` are its session state and the event queue, `frame` tells whether a frame was
waited for or begun, `acquired` is the queue of images of its swapchain that are acquired and
`released` the image released last. Its calls fail at any time once it is gone (`rt = "gone"`),
and `MaxFailures` times before; a call made out of order fails or, `xrWaitFrame`, blocks
(`WaitBlocks`). The runtime may stop the session, begin it again and go away between any two calls.

`running` is `sessionRunning_`, `useFrameLoop` `useFrameLoop_`, `uploaded`
`uploadedAndroidSequenceByImage_`, `began`, `image` and `layer` the locals `beganFrame`,
`imageIndex` and the result of `update_projection_layer`; `store` is the `HostImageFrame`. `pc` is
the next call of `make_frame`. A picture is a frame of the application (its run and its sequence
number), the test pattern, or nothing. `texture` is the picture at each of the `Spots` of each image,
the pixels of the projection as far as they are told apart; `Covers[f]` are those a frame fills, its
box of `min(frame, projection)` size. A stored frame of no width, height, layers or pixels is refused
by the bridge (`openxr_host.cpp:917`) as no frame is, so both are `Blank`. `shown` is the image of
the frame ended last. `taken`, `arrived`, `shown` and `failures` are read by properties and bounds
only.

* *Events.* `PumpEvent` handles one event (`handle_session_state`), `PumpDone` is the end of
  `pump_events` and the choice that follows it. `READY` while a session runs and `STOPPING` while
  none does are ignored by the code; a runtime that keeps to the session states never sends them.
* *Frame calls.* Each call has an action for each branch the code takes on its result: `WaitFrame`,
  `WaitDiscarded`, `WaitFails`; `BeginFrame`, `BeginRejected` (pose-only from now on), `BeginFails`;
  `EndFrame`, `EndFails`. Where no frame gives a time, `WithoutFrame` goes on to locate only in the
  headless Linux build, since `current_xr_time` is 0 elsewhere.
* *Projection layer.* `chain` is what `create_projection_swapchain` left: its result is ignored, so
  a swapchain can be there whose images were never listed (`"unlisted"`: every index is refused
  after the image has been acquired) or listed without textures (`"untextured"`). `FillTexture`
  copies the stored frame into its box (`CopyBox`), and what was drawn around it stays, unless its
  number is the one uploaded to this image before (`Upload`, `KeepTexture`); or it draws the test
  pattern all over while the store has no frame or one without pixels, and the number stays.
* *Threads.* `StoreFromTcp` and `StoreFromUdp` are the image and the video thread; they store at any
  moment between two calls of the frame loop, in any order of frames. The image server accepts a frame without
  pixels, so `StoreFromTcp` may store `Blank` after frames too. `Decodes` is the size check of
  `decode_video_frame_to_image`. `RestartApp` takes the application's numbers back to 0.

The poses are located or not; what they are is not distinguished, so the pose thread, which copies
`latest_` under the same mutex, is left out.

### ImagePipeline

`ImageTransportClient` (`session.cpp`) and `ImageProxy.java`, with the connections between them. A
frame is written and read in pieces: piece 0 is its header, then one piece for each datagram of the
payload. Either end may fail or die between two pieces; a piece that was written in part counts as
not written.

* *Client.* `sock` is `socket_`, `recent` says that `lastConnectAttemptNs_` is less than two seconds
  ago, `sending` and `written` are how far `send_frame` has come. `SendConnected`, `SendConnecting`
  and `SendSkipped` are its three beginnings; all of them use up a number, as
  `maybe_send_swapchain_image` numbers a frame before it looks at its size, reads it back and calls.
  `SendSkipped` is a frame that stops there, with or without a connection, or for want of one. `NewInstance` sets the number to 0
  and leaves the connection; `AppDies` may interrupt `send_frame`.
* *Connection.* `stream` is what was written and not read, at most `MaxBuffered` pieces; `writing`
  tells whether the client's end is open. A closed connection can be read to its end.
* *Proxy.* `proxy` is `"up"` while `serve` accepts; when `accept` fails, `serve` closes its socket and
  takes `STARTED` back, but only `onCreate` calls `ensureStarted`, once in a process, so nothing is
  accepted again (`"deaf"`) until the process dies. `thread[c]`
  is where `forwardClient` of connection `c` is, `header`, `payload`, `host` and `offset` are its
  locals: no address for the headset's host makes it `drain` the payload; a failure inside a payload
  closes `frameHost`, an end between two frames returns with it open. The size checks of the header
  are left out: every header the client writes passes them.

A frame's number starts again with each instance; `run` counts instances, so that "newer" is an order
over all frames. How datagrams go on is `VideoTransport`; here `SendDatagram` only counts them. A send that was
interrupted leaves a thread that still works through the old connection while the next one is
served, so two threads may send at the same time. `ProxyStarts` is the provider's `onCreate`.

`ImageRelay` keeps, for each connection, the frames on their way and the one that left it last.
`OnTheWay(c)` is the mapping: the frames whose header is on the connection, the one its thread
holds, and the one whose header the client writes next. A frame is `Number`ed and put on its way in
one step, withdrawn when the client gives it up before its header is written, leaves as the oldest
when its last datagram is sent (`Forward`) or it is drained or abandoned (`Discard`), and is lost
together with its connection.

### ImageServer

`TcpImageServer::serve_with_callback`, the loop of accept, header, checks, payload and callback. `recv`
returns what has arrived, so a frame comes in parts: `HeaderParts` of its header, then those of its
payload, and a client may close or die between any two. `stream` is what a client wrote and the
server has not read, `got` the parts read of the frame under way, `open` the clients' sockets the
server has open. What the checks of a header will say is the `kind` of the frame. Each way out of the
inner loop is an action: `Disconnected` (before a frame, inside a header or a payload),
`ReceiveFails` (the same while the client is there or data is unread), `Rejected` (header or size refused), and `HandOver`, which at the frame limit leaves both loops without
`close_socket`. Clients are external: one connection each, any frames, and they may keep it for ever.

`FrameIntake` has no parts and no sockets: a client is outside, waiting, served or gone (`Place`),
has completed so many frames (`Completed`) and had so many handed over. `HandOver` maps to the same
step there, which also turns away those who wait when it reaches the limit.

### GpuTransport

`table` says what each file number of the server's process names: a socket, a buffer that came with a
message, or a file of another thread. `serverFd` and `clientFd` are the two local `UniqueFd`s of
`serve`, `raw` the numbers of the control message that are not owned yet, `fds` the vector that owns
the others. `Receive` is `recvmsg`: the kernel installs as many of the sent descriptors as it has free
numbers. A descriptor that comes short makes `recv_descriptor_with_fds` return before it looks at the
control message, and its numbers stay open without an owner (`abandoned`). `OwnNext` is one
`emplace_back`, with or without the vector growing: `MovedFrom` is what the move constructor leaves in
the old elements, which are then destroyed. `CallBack` and `Discard` are the two outcomes of
`validate_descriptor`, `Release` the end of the loop's body, where the vector closes what it owns.
`OtherThread` opens and closes files of its own at any moment, and is given a number as soon as it is
free. `ReceiveFails` is a `recvmsg` that reports an error: the server leaves the connection with
whatever was sent on it (`broken` remembers the sender). Senders send any of `Messages`: valid, invalid or short, with any number of planes and any
count claimed.

`FrameCustody` says what this is for, without numbers or vectors: the descriptors of a frame are with
the sender, on their way, with the server, with the callback, closed or abandoned; the server has
those of one frame at a time and shows them at most once. `PlaceOf` reads the place off `table`,
`queue` and `pc`.

## 3. What TLC checks

| Run | Distinct states | Shows |
|---|---|---|
| `session` | 8 340 | any order of calls: legal event stream that leads to the runtime's state, readback, frame numbers, the swapchain contract, focus reported |
| `handles` | 199 000 | two instances and a path too long to be stored: tables keep to their size, texts to their path, spaces to what they were created for |
| `video` | 442 000 | a sender that restarts with the same ids and larger or smaller frames, a datagram lost or repeated: no copy past a payload, whole frames, the contract of the channel, none owed once its datagrams were read, and none owed for ever |
| `video_blocked` | — | counterexample: after a restart newer frames are dropped for a stale incomplete one |
| `pose` | 522 000 | two applications, broker and server, restarts, failed queries and killed processes: order, one broker pose, the contract of the relay, the broker's lock given up |
| `pose_stuck` | — | counterexample: a direct call waits for ever behind the broker's connection |
| `images` | 66 400 | clients that give up frames, proxies that fail, drain or die: whole frames are sent, in the order of their numbers on each connection, as the relay says; `send_frame` returns, written frames are sent |
| `image_server` | 637 000 | good and bad frames, clients that stop half way, a `recv` that fails: whole frames of one client, no other socket open, the contract of the intake, the next client has its turn |
| `gpu` | 450 000 | valid, invalid and short descriptors, a process short of numbers, a failing `recvmsg`: one owner per number, whole frames, the custody contract, good frames shown |
| `host` | 3 225 000 | a runtime that stops, begins again and is lost at any call, every outcome of the set-up, a failing call, a restarted application, frames without pixels, small and large ones: calls in order, one image at a time, the layer shows the stored frame in its box |
| `host_live` | 451 000 | a ready session is begun, loss is noticed, poses go on after failed frame calls, a frame of one layer is shown in its box |
| `host_layers` | — | counterexample: a frame of two layers that comes over UDP is never shown |

*Bounds.* In `session`, three images are the code's. Eight pending events hold a create, a begin and
an end that were never polled; beyond that the queue only repeats the cycle. Two numbered frames show
a failed and a sent frame in both orders.

In `handles`, three paths hold a long path entered twice and a hand, two spaces are the least that
can be mistaken for each other, and two instances the least with stale paths.

In `video`, a table of one frame with two ids and two runs is full at once, so that each new frame
evicts (the code keeps 8). Frames of two and of three chunks both stay in the table, so after the
restart packets of the larger meet an assembly sized by the smaller and the other way round; a
repeated datagram recreates an assembly of a delivered frame. One restart suffices, as the receiver
cannot count them, and a limit of two frames is reached with a third on its way. At most three frames
are sent in all and three datagrams are on their way at once (four and four in `video_blocked`): one
frame of the earlier run, one of the new run with its id and one more to crowd it out, and a late
datagram besides those of the frame being sent. `video_blocked` has no faults and no limit.

In `pose`, two applications are the least that interleave in the broker or compete for the server; a
backlog of 1 is the code's (`listen(server, 1)`); two runs of the server, three frames each (four in
`pose_stuck`) and connections that hold two (one in `pose_stuck`) let a connection fill, end with
frames unread and be followed by one of the next run; one failure at a time is a broken query, a
killed broker or a killed application. `MaxFrames` is the server's own limit; 0, no limit, behaves as
a limit that is not reached.

In `images`, two connections are the least that follow one another, two instances give a number its
second frame, a payload of two pieces can be cut inside, a connection that holds two pieces is full
inside a frame, and two failures are a lost client or frame and what it meets at the proxy.

In `image_server`, two clients are the least that wait for each other, a header of two parts and
payloads of none and two can be cut inside, a connection that holds two parts is full inside a frame,
and a limit of three of four possible frames is reached in the middle of a client or never.

In `gpu`, two senders compete for the server; five numbers are the two sockets, the two planes of a
frame and one for the other thread, so that a frame fits, comes cut off or does not fit at all; two
planes make the vector grow; a limit of two frames ends `serve` with and without a sender waiting.

In `host`, two images are the least for which "uploaded to this image" differs from "uploaded last";
two numbers and two runs of the application give equal numbers with different contents; one failure
of a runtime that goes on, besides its loss at any point, reaches every error branch. Two spots tell
the box of a small frame from what is around it; a number that a small frame has in one run a large
one has in the next, so both orders of sizes occur, with and without a number kept. `host_live` has one
run of the application, and frames without pixels in it.

Deadlock checking is off where the system may stop: in `video`, `image_server` and `gpu` because the
receiving call returns at its limit, in `images` because the application need not render and its
frames are bounded.

*Fairness.* `WF(PollEvent)`: the loader probe (`tests/android_openxr_loader_probe`) and the smoke
test poll events in their frame loop; no other call of the application is assumed. `WF(Receive)`:
the receiver is a loop on a thread of its own that always returns to `recvfrom`. Senders, the
network and time-outs of the video transport have no fairness; `CatchesUp` speaks of the finitely
many frames of the bounds. `WF(ServerStep)`: the pose server's
loop accepts and sends unless it is blocked. `WF(CallStep(a))`: a call that has begun goes on
whenever it is not blocked in `recv` or on `poseLock`; the broker's read is bounded by its
one-second time-out, which is why `BrokerGivesUp` needs no answer from the server. No application
has to make a call, no server has to be started or stopped. `WF(~WaitBlocks /\ Host)`: the loop of
`run` has no end without a frame limit (the default, 0) and every call of the host's runtime
returns, except an `xrWaitFrame` that has to block; nothing is assumed of the runtime's events or of
the frames. `WF(Sending)`: the thread inside `send_frame` goes on unless the connection is full, in
which case `send` blocks. `WF(Thread(c))`: a thread of the proxy goes on unless it has to wait for the
client; no client has to send or close, no proxy has to fail or start. `WF(Server)` of the image server: its
thread goes on unless `accept` or `recv` waits; no client has to do anything, which is why
`WaitingServed` assumes that every client closes at some time. `WF(Server)` of the GPU transport is
the same, and each of its senders that has connected sends or goes away, as
`send_gpu_frame_descriptor` connects, sends and closes in one call.

*Findings.* The video transport keeps its table by frame id alone while ids restart at 0
(`session.cpp:805`). `docs/encoded_video_transport.md:14` says that incomplete frames can be
dropped instead of blocking newer frames: eviction takes the lowest id for the oldest frame, so the
stale frames of the earlier run stay and the newer ones are evicted (`video_blocked`). By the same
key, chunks of an unfinished frame of the earlier run and of a new one of the same id and size are
put together into one frame; `DeliveredIntact` and `FramesDelivered` therefore except frames with an
id of which datagrams of two runs were read.
The second is in the pose client: its read loop returns without an error only on `EAGAIN`
(`pose_client.cpp:299`), but its socket is blocking, so `xrLocateViews` does not return while the
server streams, nor, as `pose_stuck` shows, when the server never comes to its connection because
the broker's, which is read only once per query, is full. The loader probe
(`openxr_loader_probe.cpp:461`) expects the call to return `XR_SUCCESS` in each frame.
The third is between the proxy and the host. `docs/encoded_video_transport.md:59` says that
captured application frames travel over UDP to the SteamVR projection layer; the proxy sends all
layers of a frame as one payload, the host accepts the payload of one layer only, and the swapchains
of the tests (`runtime_smoke.cpp:225`) have two (`host_layers`).
A smaller thing that `LayerIsCurrent` states: an upload is skipped when the number of the frame is
the one uploaded to the image before, so the picture of an earlier run of the application stays for
a frame of the same number, and so does the test pattern that a frame without pixels brought back
over it. `FrameShown` excepts both (`Mistaken`: an image keeps the number of the frame and shows
something else). Both speak of the box of a frame: around a smaller one the code leaves the pattern or
an earlier picture, and nothing in the repository says what should be there. Two more that no document contradicts: a short GPU descriptor leaves its
file numbers open for ever (`abandoned` in `OwnedOnce`), and at its frame limit the image server
returns with the last client's socket open (`HandOver`).

## 4. What TLAPS proves

From the named assumptions on the constants only (any number of images above one, any bounds, any
capacity and frame sizes):

* `RuntimeSession_proofs`: `TypeCorrect`, `EventsCorrect` (`LegalEventStream` and `SettledState`),
  `StreamLeadsToState`, `ReadbackSafe`, `SwapchainOwnership`, `FrameOrder`, `ContractRefinement`. The
  inductive invariant is the conjunction of the module's invariants. `LegalEventStream` is not inductive alone: `BeginSession`
  continues the stream legally only because `EventsLeadToState` ties its end to the state that the
  guard tests, and `SettledState` is needed to know that `EndSession` starts from FOCUSED.
  `ReadbackNeverAcquired` follows from `RingOrder` and two images or more.
* `RuntimeHandles_proofs`: `TypeCorrect`, `OnePathPerText`, `SpacesTrue`, for any texts and table
  sizes, provided that cutting a text twice changes nothing more and that no other text is cut to that
  of a hand. The strengthening: a path is its place in the table, and every answer given in the present
  instance is still there, at the first place of its text if the text is stored whole.
* `VideoTransport_proofs`: `TypeCorrect`, `BoundedTable`, `MemorySafety`, `CountsExact`,
  `FramesIntact`, `NoFrameBlocked`, for any capacity, sizes, runs and faults. The strengthening has
  three layers. The sender is inside a frame it was given, uses an id once a run, and every packet
  is a chunk of a frame that was sent (`SenderFit`, `SentOnce`, `Origin`). The keys of an assembly
  are chunks of its size and the count is their number (`TableFit`), and metadata and bytes are those
  of packets read with its id (`Source`), so a complete frame without `Mixed` has one source. `Kept`
  says that a packet that was read is in the table until its frame is delivered, mixed or crowded out;
  the step that matters is an eviction, where the ids above the evicted one are those of packets that
  were read. `FramesDelivered` follows: with all packets read and kept, the count would have reached
  the size.
  `ChannelKept`: the receiver implements `FrameChannel`. Every packet behind an assembly has the
  size of the assembly as well as its id (`Known`), since a packet of another size erases it; so each
  chunk handed over is of a run that sent a frame with this id and size. `Counted` (below the limit
  while receiving) gives the guard of the count.
* `PosePath_proofs`: `TypeCorrect`, `Connections`, `InOrder`, `BrokerRows`, `BrokerForward`,
  `DirectReads`, for any number of applications, any limits and any number of restarts. The
  inductive invariant has two layers. `Link` is about the server and its connections: each open
  connection occurs exactly once among `client` and `backlog`, nothing is on one not yet accepted
  or on a closed one, what is on a connection is contiguous and at most `produced`, the served one
  ends with the frame produced last, and no frame is on two.
  `Readers` is about the clients and uses `Link`: what a client holds was produced and is older
  than all that is on its connection, no application with a row is ahead of the broker, one query
  at a time reads for it, and an application's socket is in use only in the read loop. `BrokerMovesForward` follows since
  the broker reads only frames ahead of its pose.
  `RelayKept`: the path implements `PoseRelay`, from the same invariant. The head of a connection is
  its oldest frame because its frames are contiguous, and an application without a connection has
  nothing on its way, which allows `CopyRow`.

* `HostBridge_proofs`: `TypeCorrect`, `SessionInStep`, `FrameOrder`, `DrawsItsImage`,
  `LayerCurrent`, for any number of images, runs and failures and every outcome of the set-up. None
  of the properties is inductive. `RunningAgrees` needs `EventsTell`: a queued
  `STOPPING` is the only one and the session is stopping or gone, a queued end means that the
  runtime is gone, and a runtime that is gone while the flag is up has left its last event. `FrameCallsInOrder`
  needs `NothingLeftBegun`: as long as the frame loop is in use and no call has failed, a frame is
  waited for or begun only at the places between the calls. `LayerIsCurrent` needs `NumbersTell` (an
  image shows a frame of its number in the box of that frame, or the pattern drawn over one: `Keeps`),
  `FilledIsSubmitted` (the number of the image submitted is that of the frame that was stored, or it
  shows the pattern for want of pixels: `Took`) and `LayerHasImage`. Nothing is assumed of the boxes but
  that none is empty.

* `GpuTransport_proofs`: `TypeCorrect`, `OneOwner`, `FramesWhole`, `CustodyKept`, for any number of
  senders, planes and file numbers. `IInv` says which variables are in use at each place of the loops
  (`Control`), which numbers the sockets have (`Sockets`), that the i-th number owned or still raw is
  the i-th buffer of the peer and that no other buffer is open but the abandoned (`Owned`), and
  that every open buffer came with a message that was sent and read, an abandoned one with a short
  descriptor (`Letters`). The refinement is proved action by action: a step of the server moves the
  place of one frame or of none, that of `Return` refuses those of the senders who wait.
* `ImageServer_proofs`: `TypeCorrect`, `WholeFrames`, `ServedAlone`, for any clients, sizes and limits.
  `Chain` says that the parts of a connection follow one another from the one read last to the one
  written last; `Gathered` that what has been read of a frame is its first parts, and that the frame
  before it was handed over.
  `IntakeKept`: the server implements `FrameIntake`. It needs more (`CInv`): nothing read
  or on a connection is later than the part written last, between two frames the part read last is of
  a good frame, and the frames stored are as many as `received` counts.
* `ImagePipeline_proofs`: `TypeCorrect`, `InStep`, `WholeForwarded`, `InOrder`, for any sizes of
  payloads and connections and any number of instances, connections and failures. `Chain` again ties
  both ends of a connection: its oldest piece is what the thread waits for, inside a payload or at a
  header newer than the last; each piece follows the one before; and the client, if it still has the
  connection, writes what comes after the newest. That is why a frame given up in the middle, which
  closes the connection, is never continued by another one. `Ages` says that all frames a connection
  still carries are older than those of the next connection and than the next number. `InOrder` is
  therefore about the frames of one connection, and about the numbers that successive connections
  carry; when the threads of two connections send is left to the scheduler, so the frames of an
  interrupted connection may still leave after newer ones.
  `RelayKept`: the pipeline implements `ImageRelay`. `RInv` adds that the headers of a connection
  ascend up to the frame the client is writing and that this frame has the number given last, so the
  frame a thread finishes is the oldest of its connection and the frame given up is the newest.

`SettledState`, `RingOrder`, `NothingOutlivesSwapchain`, `SentSequenceFresh`, `TableUnderWay`,
`TableBounded`, `OpenIsServedOrQueued`, `FrameOnOneStream`, `OneBrokerReader`, `BrokerMovesForward`,
`ConnectedMeansReading`, `StreamInStep` and the type invariants of `VideoTransport`, `PosePath`,
`ImagePipeline` and `ImageServer` are parts of these arguments: they are proved and no run checks
them apart.

Six of the eight components are shown to implement an abstract contract, for all values of the
constants and step by step: `ContractRefinement`, `ChannelKept`, `RelayKept` (twice), `IntakeKept` and
`CustodyKept`. Each run that checks the safety of one of these components checks the same statement
on its instance.

Model-checked only: `FocusReported`, `CatchesUp`, `LockReleased`, `ReadyAnswered`, `LossNoticed`,
`PosesGoOn`, `FrameShown`, `SendReturns`, `WrittenIsSent`, `WaitingServed` and `GoodFramesShown`, because
liveness is out of the prover's reach. Every safety property of a run that passes is proved.

## 5. Plan

Done, in this order: `RuntimeSession` with `SwapchainContract`, `VideoTransport`, `RuntimeHandles`,
`PosePath`, `HostBridge`, `ImagePipeline`, `ImageServer`, `GpuTransport` with `FrameCustody`, each with its
runs, mutants and proofs; then the contracts `FrameIntake`, `PoseRelay`, `ImageRelay` and
`FrameChannel` with the proofs that they are kept. What could follow:

1. A contract of `HostBridge`: the frames the host's runtime is given, without the calls of
   `make_frame`, with a proof that the bridge keeps it.
2. `HostBridge`: the set-up of the session and of the controller actions, and `latest_frame`.
3. A composition of `ImagePipeline`, `VideoTransport` and the store of `HostBridge`, with the proxy's
   datagrams as the frames of the transport. It needs the order of the two threads of the proxy, which
   each module now leaves open at its own end.

## 6. Not modelled

OpenGL and JNI calls beyond their success or failure, pixel data, pose arithmetic, logging,
command-line parsing, the dispatch table, the container scripts, socket set-up. Real time appears
only as time-outs and intervals that may or may not have passed. On Linux a send to a closed
connection also raises SIGPIPE, which would end the pose server; the host bridge runs on Windows,
where it does not. The age of a pose is in no property: a reader that is slower than the stream
falls behind by as much as the connection holds, and nothing in the repository says how much is
too much.
Of the host bridge, the set-up of instance, device, session and controller actions, the arithmetic
and contents of poses, and the end of `run` at a frame limit: after it the detached threads use
locals that no longer exist, and nothing can be said of what follows.
