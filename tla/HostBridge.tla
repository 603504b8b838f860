----------------------------- MODULE HostBridge -----------------------------
(***************************************************************************)
(* The host bridge of host-bridge/openxr_host.cpp when it is started with  *)
(* --serve-openxr: a loop calls OpenXrPoseSource::make_frame, which reads  *)
(* the session events of the host's OpenXR runtime, waits for a frame,     *)
(* locates the poses, draws the newest application frame into the          *)
(* projection swapchain and ends the frame.  Two more threads put the      *)
(* application frames they receive into the image store.                   *)
(*                                                                         *)
(* The host's OpenXR runtime (SteamVR, Monado) is external: its states and *)
(* the results of its calls are those the OpenXR specification allows.  A  *)
(* call may fail MaxFailures times, and at any time once the runtime is    *)
(* gone.                                                                   *)
(***************************************************************************)
EXTENDS Naturals, Sequences, FiniteSets

CONSTANTS NumImages,    \* images of the projection swapchain
          Chains,       \* possible outcomes of create_projection_swapchain
          Layers,       \* layers of the application's frames
          MaxRuns,      \* bound: runs of the application
          MaxSeq,       \* bound: largest sequence number of a frame
          Spots,        \* pixels of the projection, as far as told apart
          Covers,       \* the box a frame fills: min(frame, projection)
          MaxFailures   \* bound: calls of a runtime still there that fail

\* "headless" is the Linux build: it creates no swapchain, and only there
\* does current_xr_time answer.
ChainOutcomes == {"headless", "none", "unlisted", "untextured", "ready"}

NoChain == {"headless", "none"}

Images == 1 .. NumImages
NoSeq  == MaxSeq + 1               \* UINT64_MAX: nothing uploaded yet

AppFrames == [run : 1 .. MaxRuns, seq : 0 .. MaxSeq]
\* No frame, or one without pixels; in an image, a spot never drawn.
Blank     == [run |-> 0, seq |-> 0]
Pattern   == [run |-> 0, seq |-> 1]   \* the test pattern of the bridge
Pictures  == AppFrames \cup {Blank, Pattern}

ASSUME HostAssumption ==
    /\ NumImages \in Nat /\ NumImages >= 1
    /\ Chains \subseteq ChainOutcomes
    /\ Layers \in {1, 2}
    /\ MaxRuns \in Nat /\ MaxRuns >= 1
    /\ MaxSeq \in Nat
    /\ MaxFailures \in Nat
    /\ Covers \in [AppFrames -> (SUBSET Spots) \ {{}}]

VARIABLES
    rt,            \* the session as the host's runtime has it
    events,        \* its session state events the bridge has not polled
    frame,         \* its frame: "waited" and "begun" until it ends
    acquired,      \* its swapchain: images acquired, oldest first
    released,      \* its swapchain: the image released last, or 0
    shown,         \* its screen: the image of the frame ended last, or 0
    chain,         \* what create_projection_swapchain left behind
    pc,            \* the next call of make_frame
    running,       \* sessionRunning_
    useFrameLoop,  \* useFrameLoop_
    began,         \* beganFrame
    image,         \* imageIndex
    layer,         \* layerCount: update_projection_layer succeeded
    texture,       \* what is drawn at each spot of each image
    uploaded,      \* uploadedAndroidSequenceByImage_
    store,         \* the HostImageFrame
    taken,         \* history: the store when the image was filled last
    appRun,        \* the run of the application
    arrived,       \* history: the frame received last, taken or refused
    failures       \* history: calls that failed

runtimeVars == <<rt, events, frame, acquired, released, shown>>
imageVars   == <<texture, uploaded, taken>>
feedVars    == <<store, appRun, arrived>>
swapVars    == <<acquired, released, image, layer>>
vars == <<rt, events, frame, acquired, released, shown, chain, pc, running,
          useFrameLoop, began, image, layer, texture, uploaded, store, taken,
          appRun, arrived, failures>>

\* What initialize leaves: it ignores the result of
\* create_projection_swapchain, whose calls may fail one after the other.
Init == /\ rt = "idle"
        /\ events = <<>>
        /\ frame = {}
        /\ acquired = <<>>
        /\ released = 0
        /\ shown = 0
        /\ chain \in Chains
        /\ pc = "asleep"
        /\ running = FALSE
        /\ useFrameLoop = TRUE
        /\ began = FALSE
        /\ image = 0
        /\ layer = FALSE
        /\ texture = [i \in Images |-> [s \in Spots |-> Blank]]
        /\ uploaded = [i \in Images |-> NoSeq]
        /\ store = Blank
        /\ taken = Blank
        /\ appRun = 1
        /\ arrived = Blank
        /\ failures = 0
----------------------------------------------------------------------------
(***************************************************************************)
(* The host's OpenXR runtime.                                              *)
(***************************************************************************)
\* A call fails: for any reason while the bound lasts, or because the
\* runtime is gone.
CallFails == \/ /\ rt = "gone"
                /\ UNCHANGED failures
             \/ /\ rt # "gone"
                /\ failures < MaxFailures
                /\ failures' = failures + 1

RuntimeReady == /\ rt = "idle"
                /\ rt' = "ready"
                /\ events' = Append(events, "READY")

RuntimeStops == /\ rt = "running"
                /\ rt' = "stopping"
                /\ events' = Append(events, "STOPPING")

RuntimeEnds == /\ rt # "gone"
               /\ rt' = "gone"
               /\ \/ rt = "idle" /\ events' = Append(events, "EXITING")
                  \/ events' = Append(events, "LOSS_PENDING")

HostRuntime == /\ RuntimeReady \/ RuntimeStops \/ RuntimeEnds
               /\ UNCHANGED <<frame, acquired, released, shown, chain, pc,
                              running, useFrameLoop, began, image, layer,
                              failures, imageVars, feedVars>>
----------------------------------------------------------------------------
(***************************************************************************)
(* make_frame up to the frame loop.                                        *)
(***************************************************************************)
MakeFrame == /\ pc = "asleep"
             /\ pc' = "pump"
             /\ began' = FALSE
             /\ layer' = FALSE
             /\ image' = 0
             /\ taken' = Blank
             /\ UNCHANGED <<runtimeVars, chain, running, useFrameLoop, texture,
                            uploaded, failures, feedVars>>

OnReady == /\ ~running
           /\ \/ /\ rt = "ready"
                 /\ rt' = "running"
                 /\ running' = TRUE
                 /\ UNCHANGED failures
              \/ /\ CallFails
                 /\ UNCHANGED <<rt, running>>
           /\ UNCHANGED frame

\* The result of xrEndSession is ignored.
OnStopping == /\ running
              /\ running' = FALSE
              /\ \/ /\ rt' = IF rt = "stopping" THEN "idle" ELSE rt
                    /\ frame' = {}
                    /\ UNCHANGED failures
                 \/ /\ CallFails
                    /\ UNCHANGED <<rt, frame>>

\* Slip: the flag stays up after xrEndSession.
OnStoppingFlagUp == /\ running
                    /\ rt' = IF rt = "stopping" THEN "idle" ELSE rt
                    /\ frame' = {}
                    /\ UNCHANGED <<running, failures>>

OnEnd == running' = FALSE /\ UNCHANGED <<rt, frame, failures>>

\* Slip: only EXITING ends the session.
HandleAllButLoss(state) ==
    \/ state = "READY" /\ OnReady
    \/ state = "STOPPING" /\ OnStopping
    \/ state = "EXITING" /\ OnEnd
    \/ /\ \/ state = "READY" /\ running
          \/ state = "STOPPING" /\ ~running
          \/ state = "LOSS_PENDING"
       /\ UNCHANGED <<rt, frame, running, failures>>

\* Slip: STOPPING is answered by xrEndSession only.
HandleKeepingFlag(state) ==
    \/ state = "READY" /\ OnReady
    \/ state = "STOPPING" /\ OnStoppingFlagUp
    \/ state \in {"EXITING", "LOSS_PENDING"} /\ OnEnd
    \/ /\ \/ state = "READY" /\ running
          \/ state = "STOPPING" /\ ~running
       /\ UNCHANGED <<rt, frame, running, failures>>

HandleSessionState(state) ==
    \/ state = "READY" /\ OnReady
    \/ state = "STOPPING" /\ OnStopping
    \/ state \in {"EXITING", "LOSS_PENDING"} /\ OnEnd
    \/ /\ \/ state = "READY" /\ running
          \/ state = "STOPPING" /\ ~running
       /\ UNCHANGED <<rt, frame, running, failures>>

PumpEvent == /\ pc = "pump"
             /\ events # <<>>
             /\ HandleSessionState(Head(events))
             /\ events' = Tail(events)
             /\ UNCHANGED <<acquired, released, shown, chain, pc,
                            useFrameLoop, began, image, layer, imageVars,
                            feedVars>>

\* Slip: no time is asked for outside the frame loop.
WithoutFrameAsleep == "asleep"

\* Where make_frame goes on when no frame gives it a time to locate at.
WithoutFrame == IF chain = "headless" THEN "locate" ELSE "asleep"

PumpDone == /\ pc = "pump"
            /\ events = <<>>
            /\ pc' = CASE ~running                 -> "asleep"
                       [] running /\ useFrameLoop  -> "wait"
                       [] running /\ ~useFrameLoop -> WithoutFrame
            /\ UNCHANGED <<runtimeVars, chain, running, useFrameLoop, began,
                           image, layer, failures, imageVars, feedVars>>
----------------------------------------------------------------------------
(***************************************************************************)
(* The frame calls of make_frame and the poses.                            *)
(***************************************************************************)
FrameStep == UNCHANGED <<rt, events, swapVars, chain, running, imageVars,
                         feedVars>>

\* xrWaitFrame blocks while the frame waited for before was not begun.
WaitFrame == /\ pc = "wait"
             /\ "waited" \notin frame
             /\ frame' = frame \cup {"waited"}
             /\ pc' = "begin"
             /\ FrameStep
             /\ UNCHANGED <<shown, useFrameLoop, began, failures>>

WaitDiscarded == /\ pc = "wait"
                 /\ CallFails
                 /\ pc' = "asleep"
                 /\ FrameStep
                 /\ UNCHANGED <<frame, shown, useFrameLoop, began>>

\* It need not block for ever either: a runtime may report the wrong order.
WaitFails == /\ pc = "wait"
             /\ CallFails \/ ("waited" \in frame /\ UNCHANGED failures)
             /\ useFrameLoop' = FALSE
             /\ pc' = WithoutFrame
             /\ FrameStep
             /\ UNCHANGED <<frame, shown, began>>

BeginFrame == /\ pc = "begin"
              /\ frame = {"waited"}
              /\ frame' = {"begun"}
              /\ began' = TRUE
              /\ pc' = "locate"
              /\ FrameStep
              /\ UNCHANGED <<shown, useFrameLoop, failures>>

\* XR_ERROR_CALL_ORDER_INVALID: poses without frames from now on.
BeginRejected == /\ pc = "begin"
                 /\ CallFails
                 /\ useFrameLoop' = FALSE
                 /\ pc' = "locate"
                 /\ FrameStep
                 /\ UNCHANGED <<frame, shown, began>>

\* Any other result than XR_SUCCESS; after XR_SESSION_LOSS_PENDING, which is
\* a success of its own, the frame is begun all the same.
BeginFails == /\ pc = "begin"
              /\ CallFails
              /\ \/ UNCHANGED frame
                 \/ rt = "gone" /\ frame' = {"begun"}
              /\ pc' = "asleep"
              /\ FrameStep
              /\ UNCHANGED <<shown, useFrameLoop, began>>

\* The poses are located, valid or not; then the begun frame goes on.
Locate == /\ pc = "locate"
          /\ pc' = CASE ~began                         -> "asleep"
                     [] began /\ chain \in NoChain     -> "end"
                     [] began /\ chain \notin NoChain  -> "acquire"
          /\ FrameStep
          /\ UNCHANGED <<frame, shown, useFrameLoop, began, failures>>

EndFrame == /\ pc = "end"
            /\ frame' = frame \ {"begun"}
            /\ shown' = IF layer THEN released ELSE 0
            /\ pc' = "asleep"
            /\ FrameStep
            /\ UNCHANGED <<useFrameLoop, began, failures>>

EndFails == /\ pc = "end"
            /\ CallFails
            /\ useFrameLoop' = FALSE
            /\ pc' = "asleep"
            /\ FrameStep
            /\ UNCHANGED <<frame, shown, began>>
----------------------------------------------------------------------------
(***************************************************************************)
(* update_projection_layer.  xrWaitSwapchainImage waits for the oldest     *)
(* image not waited for, and only when no other one is waited for;         *)
(* xrReleaseSwapchainImage releases the one waited for.                    *)
(***************************************************************************)
LayerStep == UNCHANGED <<rt, events, frame, shown, chain, running,
                         useFrameLoop, began, feedVars>>

AcquiredImages == {acquired[k].image : k \in DOMAIN acquired}
WaitedPlaces   == {k \in DOMAIN acquired : acquired[k].waited}

AcquireImage ==
    /\ pc = "acquire"
    /\ \E i \in Images \ AcquiredImages :
          /\ acquired' = Append(acquired, [image |-> i, waited |-> FALSE])
          /\ image' = i
    /\ pc' = IF chain = "unlisted" THEN "end" ELSE "waitImage"
    /\ LayerStep
    /\ UNCHANGED <<released, layer, failures, imageVars>>

\* Slip: the frame is not ended when there is no image for it.
AcquireFailsReturning ==
    /\ pc = "acquire"
    /\ CallFails \/ (Len(acquired) = NumImages /\ UNCHANGED failures)
    /\ pc' = "asleep"
    /\ LayerStep
    /\ UNCHANGED <<swapVars, imageVars>>

AcquireFails ==
    /\ pc = "acquire"
    /\ CallFails \/ (Len(acquired) = NumImages /\ UNCHANGED failures)
    /\ pc' = "end"
    /\ LayerStep
    /\ UNCHANGED <<swapVars, imageVars>>

WaitImage == /\ pc = "waitImage"
             /\ WaitedPlaces = {}
             /\ acquired' = [acquired EXCEPT ![1].waited = TRUE]
             /\ pc' = "fill"
             /\ LayerStep
             /\ UNCHANGED <<released, image, layer, failures, imageVars>>

WaitImageFails == /\ pc = "waitImage"
                  /\ CallFails \/ (WaitedPlaces # {} /\ UNCHANGED failures)
                  /\ pc' = "end"
                  /\ LayerStep
                  /\ UNCHANGED <<swapVars, imageVars>>

\* The picture of the store over what the image held, in its box only.
CopyBox == texture' = [texture EXCEPT ![image] =
                          [s \in Spots |-> IF s \in Covers[store]
                                           THEN store ELSE texture[image][s]]]

\* Slip: one number for all images.
UploadOnce == /\ store.seq # uploaded[image]
              /\ CopyBox
              /\ uploaded' = [i \in Images |-> store.seq]

\* Slip: only frames with a higher number are uploaded.
UploadHigher == /\ store.seq > uploaded[image] \/ uploaded[image] = NoSeq
                /\ CopyBox
                /\ uploaded' = [uploaded EXCEPT ![image] = store.seq]

Upload == /\ store.seq # uploaded[image]
          /\ CopyBox
          /\ uploaded' = [uploaded EXCEPT ![image] = store.seq]

\* The numbers are left as they are.
DrawPattern == /\ texture' = [texture EXCEPT ![image] = [s \in Spots |-> Pattern]]
               /\ UNCHANGED uploaded

KeepTexture == UNCHANGED <<texture, uploaded>>

\* Slip: an image that needs no upload is not released.
FillWithoutRelease == /\ pc = "fill"
                      /\ taken' = store
                      /\ \/ store = Blank /\ DrawPattern /\ pc' = "release"
                         \/ store # Blank /\ Upload /\ pc' = "release"
                         \/ /\ store # Blank
                            /\ store.seq = uploaded[image]
                            /\ KeepTexture
                            /\ pc' = "end"
                      /\ LayerStep
                      /\ UNCHANGED <<swapVars, failures>>

FillTexture == /\ pc = "fill"
               /\ taken' = store
               /\ \/ chain = "untextured" /\ KeepTexture
                  \/ chain # "untextured" /\ store = Blank /\ DrawPattern
                  \/ chain # "untextured" /\ store # Blank /\ Upload
                  \/ /\ chain # "untextured"
                     /\ store # Blank
                     /\ store.seq = uploaded[image]
                     /\ KeepTexture
               /\ pc' = "release"
               /\ LayerStep
               /\ UNCHANGED <<swapVars, failures>>

\* The image is released; then the views are located for the layer, or not.
ReleaseImage ==
    /\ pc = "release"
    /\ WaitedPlaces # {}
    /\ released' = acquired[1].image
    /\ acquired' = Tail(acquired)
    /\ \/ layer' = TRUE /\ UNCHANGED failures
       \/ layer' = FALSE /\ CallFails
    /\ pc' = "end"
    /\ LayerStep
    /\ UNCHANGED <<image, imageVars>>

ReleaseFails == /\ pc = "release"
                /\ CallFails
                /\ pc' = "end"
                /\ LayerStep
                /\ UNCHANGED <<swapVars, imageVars>>
----------------------------------------------------------------------------
(***************************************************************************)
(* The image store and the threads that fill it, which do not know of each *)
(* other.  Frames come in any order: UDP delivers those of all runs, late, *)
(* reordered and more than once (VideoTransport).  They go through         *)
(* decode_video_frame_to_image, which accepts one layer only.              *)
(***************************************************************************)
FeedStep == UNCHANGED <<runtimeVars, chain, pc, running, useFrameLoop, began,
                        image, layer, failures, imageVars>>

\* The image server hands over frames of no width, height or layers too.
StoreFromTcp == /\ \/ \E s \in 0 .. MaxSeq :
                         arrived' = [run |-> appRun, seq |-> s]
                   \/ arrived' = Blank
                /\ store' = arrived'
                /\ FeedStep
                /\ UNCHANGED appRun

Decodes == Layers = 1

StoreFromUdp == /\ \E r \in 1 .. appRun, s \in 0 .. MaxSeq :
                      arrived' = [run |-> r, seq |-> s]
                /\ store' = IF Decodes THEN arrived' ELSE store
                /\ FeedStep
                /\ UNCHANGED appRun

RestartApp == /\ appRun < MaxRuns
              /\ appRun' = appRun + 1
              /\ FeedStep
              /\ UNCHANGED <<store, arrived>>
----------------------------------------------------------------------------
Host == \/ MakeFrame \/ PumpEvent \/ PumpDone
        \/ WaitFrame \/ WaitDiscarded \/ WaitFails
        \/ BeginFrame \/ BeginRejected \/ BeginFails
        \/ Locate \/ EndFrame \/ EndFails
        \/ AcquireImage \/ AcquireFails \/ WaitImage \/ WaitImageFails
        \/ FillTexture \/ ReleaseImage \/ ReleaseFails

Feed == StoreFromTcp \/ StoreFromUdp \/ RestartApp

Next == Host \/ HostRuntime \/ Feed

\* xrWaitFrame called again before the frame waited for was begun.
WaitBlocks == pc = "wait" /\ "waited" \in frame

Spec == Init /\ [][Next]_vars

\* The loop of run never ends without a frame limit, and every call of the
\* runtime returns, except an xrWaitFrame that has to block.
FairSpec == Spec /\ WF_vars(~WaitBlocks /\ Host)
----------------------------------------------------------------------------
Places == {"asleep", "pump", "wait", "begin", "locate", "acquire",
           "waitImage", "fill", "release", "end"}
LayerPlaces == {"acquire", "waitImage", "fill", "release", "end"}
EventKinds  == {"READY", "STOPPING", "EXITING", "LOSS_PENDING"}

\* The types of the variables.
TypeOK ==
    /\ rt \in {"idle", "ready", "running", "stopping", "gone"}
    /\ events \in Seq(EventKinds)
    /\ frame \subseteq {"waited", "begun"}
    /\ acquired \in Seq([image : Images, waited : BOOLEAN])
    /\ released \in 0 .. NumImages
    /\ shown \in 0 .. NumImages
    /\ chain \in Chains
    /\ pc \in Places
    /\ running \in BOOLEAN
    /\ useFrameLoop \in BOOLEAN
    /\ began \in BOOLEAN
    /\ image \in 0 .. NumImages
    /\ layer \in BOOLEAN
    /\ texture \in [Images -> [Spots -> Pictures]]
    /\ uploaded \in [Images -> 0 .. NoSeq]
    /\ store \in AppFrames \cup {Blank}
    /\ taken \in AppFrames \cup {Blank}
    /\ appRun \in 1 .. MaxRuns
    /\ arrived \in AppFrames \cup {Blank}
    /\ failures \in 0 .. MaxFailures

\* sessionRunning_ follows the runtime: calls that need a running session
\* are made only in one, and a session that runs is one the bridge serves,
\* with all events of earlier sessions behind it.
RunningAgrees ==
    /\ running => rt \in {"running", "stopping", "gone"}
    /\ rt = "running" => running
    /\ pc \in Places \ {"asleep", "pump"} => running

\* The frame calls come in the order xrWaitFrame, xrBeginFrame, xrEndFrame:
\* a frame that was begun is ended whatever became of its layer, no frame is
\* begun over one that was not ended, and the next wait starts from nothing
\* unless a frame call itself has failed.
FrameCallsInOrder ==
    /\ pc = "begin" => frame = {"waited"}
    /\ pc \in LayerPlaces => began /\ frame = {"begun"}
    /\ pc = "wait" /\ failures = 0 /\ rt # "gone" => frame = {}

\* With a complete swapchain and no failed call the image being drawn is the
\* one and only image acquired, and the one that was waited for.
ImageInStep ==
    chain = "ready" /\ failures = 0 /\ rt # "gone" =>
        CASE pc = "waitImage" ->
                 acquired = <<[image |-> image, waited |-> FALSE]>>
          [] pc \in {"fill", "release"} ->
                 acquired = <<[image |-> image, waited |-> TRUE]>>
          [] OTHER -> acquired = <<>>

\* What an image shows: the pattern all over, or f in the box of f.
ShowsPattern(i) == \A s \in Spots : texture[i][s] = Pattern
Shows(i, f)     == \A s \in Covers[f] : texture[i][s] = f

\* The layer submitted shows what was in the store when its image was filled,
\* in the box that has: the test pattern for want of pixels, or the frame,
\* although an upload is skipped when the image is thought to hold that frame
\* already.  It can be mistaken only for a frame of the same number from
\* another run of the application, or for the pattern, where that was drawn
\* over a frame of the same number and the number left.
LayerIsCurrent ==
    pc = "end" /\ layer /\ chain = "ready" /\ failures = 0 /\ rt # "gone" =>
        IF taken = Blank
        THEN ShowsPattern(released)
        ELSE \/ \E r \in 1 .. appRun :
                    Shows(released, [run |-> r, seq |-> taken.seq])
             \/ ShowsPattern(released) /\ uploaded[released] = taken.seq

\* A session that becomes ready is begun: its READY event is not lost behind
\* the events or the flag of the session before.
ReadyAnswered == (rt = "ready") ~> (rt # "ready" \/ failures > 0)

\* The bridge notices that its runtime is gone and stops calling it, in
\* whichever call the loss finds it.
LossNoticed == (rt = "gone") ~> (~running \/ WaitBlocks)

\* While a session runs the poses are located again and again, also after
\* frame calls have failed or were rejected, if there is a clock to locate
\* by.
PosesGoOn ==
    []<>(pc = "locate" \/ ~running \/ WaitBlocks
         \/ (chain # "headless" /\ failures > 0))

\* An image that shows something else keeps the number of f.
Mistaken(f) == \E i \in Images : uploaded[i] = f.seq /\ ~Shows(i, f)

\* An application frame that reaches the bridge in a running session is shown,
\* unless another one arrives first, there is no swapchain to show it with, or
\* an image has its number from before the application's restart or from
\* before the pattern was drawn.
FrameShown ==
    \A f \in AppFrames :
        (arrived = f /\ rt = "running" /\ chain = "ready")
            ~> \/ shown # 0 /\ Shows(shown, f)
               \/ arrived # f \/ Mistaken(f) \/ rt # "running" \/ failures > 0
=============================================================================
