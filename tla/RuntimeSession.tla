--------------------------- MODULE RuntimeSession ---------------------------
(***************************************************************************)
(* The session, swapchain and frame calls of the Android OpenXR runtime    *)
(* (android-runtime/session.cpp).  The state of the runtime is a set of    *)
(* process globals; the application calls it from one thread, and every    *)
(* call is one action.  A call that returns an error changes nothing, so   *)
(* it is a stuttering step: a guard below is the conjunction of the        *)
(* conditions under which the call gets past its early returns.            *)
(*                                                                         *)
(* Instance and session handles are addresses of globals, so a handle the  *)
(* application was once given passes is_valid_instance/is_valid_session    *)
(* for ever, whatever was destroyed since.  The variable given holds the   *)
(* handles the application has; a swapchain handle is also checked against *)
(* g_swapchainCreated.                                                     *)
(***************************************************************************)
EXTENDS Integers, Sequences

CONSTANTS NumImages,    \* images of a swapchain; the literal 3 of session.cpp
          NoImage,      \* no image
          MaxPending,   \* bound: undelivered session events
          MaxSequence   \* bound: image frames of one instance

ASSUME SwapchainAssumption == /\ NumImages \in Nat
                              /\ NumImages >= 2
                              /\ NoImage \notin 0 .. NumImages - 1
ASSUME BoundAssumption == /\ MaxPending \in Nat
                          /\ MaxPending >= 2
                          /\ MaxSequence \in Nat

Images == 0 .. NumImages - 1

SessionStates == {"UNKNOWN", "IDLE", "READY", "SYNCHRONIZED", "VISIBLE",
                  "FOCUSED", "STOPPING"}

Handles == {"instance", "session", "swapchain"}

\* What maybe_send_swapchain_image can do with a swapchain: "fits" or, past
\* 4096 pixels or 4 layers, "oversize".  A zero size is refused at creation.
Shapes == {"fits", "oversize"}

VARIABLES
    given,          \* handles the application has been given
    sessionState,   \* g_sessionState
    pending,        \* g_pendingSessionEvents
    created,        \* g_swapchainCreated
    acquired,       \* g_swapchainImageAcquired
    waited,         \* g_swapchainImageWaited
    nextImage,      \* g_nextSwapchainImage
    currentImage,   \* g_currentSwapchainImage
    lastReleased,   \* g_lastReleasedSwapchainImage
    shape,          \* g_swapchainWidth/Height/ArraySize
    textures,       \* g_glSwapchainTextures holds textures
    sequence,       \* g_imageFrameSequence
    appState,       \* history: last state the application read from an event
    hasReleased,    \* history: an image was released since the creation
    lastSent        \* history: sequence of the last frame sent, or -1

sessionVars == <<sessionState, pending, appState>>
ownerVars   == <<created, acquired, waited, nextImage, currentImage,
                 lastReleased, hasReleased>>
imageVars   == <<shape, textures>>
sendVars    == <<sequence, lastSent>>
vars        == <<given, sessionVars, ownerVars, imageVars, sendVars>>

Init == /\ given = {}
        /\ sessionState = "UNKNOWN"
        /\ pending = <<>>
        /\ created = FALSE
        /\ acquired = FALSE
        /\ waited = FALSE
        /\ nextImage = 0
        /\ currentImage = 0
        /\ lastReleased = 0
        /\ shape = "fits"
        /\ textures = FALSE
        /\ sequence = 0
        /\ appState = "UNKNOWN"
        /\ hasReleased = FALSE
        /\ lastSent = -1
----------------------------------------------------------------------------
(***************************************************************************)
(* Helpers of session.cpp.                                                 *)
(***************************************************************************)
\* Slip: the state is set, the event for the last state is not pushed.
QueueAllButLast(q, states) ==
    /\ pending' = q \o SubSeq(states, 1, Len(states) - 1)
    /\ sessionState' = states[Len(states)]

\* queue_session_state for each state in turn, behind the events already
\* in the queue q: the last one is the state the runtime is in.
QueueSessionStates(q, states) ==
    /\ pending' = q \o states
    /\ sessionState' = states[Len(states)]

\* Slip: the events of the session that is gone stay in the queue.
ForgetStateOnly == /\ sessionState' = "UNKNOWN"
                   /\ appState' = "UNKNOWN"
                   /\ UNCHANGED pending

\* The events are dropped and the session is as if it had never been made.
ForgetSession == /\ sessionState' = "UNKNOWN"
                 /\ pending' = <<>>
                 /\ appState' = "UNKNOWN"

\* The flags are lowered and destroy_swapchain_images deletes the textures;
\* the image counters keep their values.
DropSwapchain == /\ created' = FALSE
                 /\ acquired' = FALSE
                 /\ waited' = FALSE
                 /\ hasReleased' = FALSE
                 /\ textures' = FALSE
----------------------------------------------------------------------------
(***************************************************************************)
(* Instance and session.                                                   *)
(***************************************************************************)
CreateInstance ==
    /\ given' = given \cup {"instance"}
    /\ ForgetSession
    /\ DropSwapchain
    /\ nextImage' = 0
    /\ sequence' = 0
    /\ lastSent' = -1
    /\ UNCHANGED <<currentImage, lastReleased, shape>>

\* Slip: the events of an earlier session are not cleared.
CreateSessionKeepingEvents ==
    /\ "instance" \in given
    /\ given' = given \cup {"session"}
    /\ QueueSessionStates(pending, <<"IDLE", "READY">>)
    /\ appState' = "UNKNOWN"
    /\ UNCHANGED <<ownerVars, imageVars, sendVars>>

CreateSession ==
    /\ "instance" \in given
    /\ given' = given \cup {"session"}
    /\ QueueSessionStates(<<>>, <<"IDLE", "READY">>)
    /\ appState' = "UNKNOWN"
    /\ UNCHANGED <<ownerVars, imageVars, sendVars>>

DestroySession ==
    /\ "session" \in given
    /\ ForgetSession
    /\ DropSwapchain
    /\ UNCHANGED <<given, nextImage, currentImage, lastReleased, shape, sendVars>>

BeginSession ==
    /\ "session" \in given
    /\ sessionState = "READY"
    /\ Len(pending) + 3 <= MaxPending
    /\ QueueSessionStates(pending, <<"SYNCHRONIZED", "VISIBLE", "FOCUSED">>)
    /\ UNCHANGED <<given, appState, ownerVars, imageVars, sendVars>>

EndSession ==
    /\ "session" \in given
    /\ sessionState \in {"FOCUSED", "VISIBLE", "SYNCHRONIZED"}
    /\ Len(pending) + 3 <= MaxPending
    /\ QueueSessionStates(pending, <<"STOPPING", "IDLE", "READY">>)
    /\ UNCHANGED <<given, appState, ownerVars, imageVars, sendVars>>

PollEvent ==
    /\ "instance" \in given
    /\ pending # <<>>
    /\ appState' = Head(pending)
    /\ pending' = Tail(pending)
    /\ UNCHANGED <<given, sessionState, ownerVars, imageVars, sendVars>>
----------------------------------------------------------------------------
(***************************************************************************)
(* Swapchain.                                                              *)
(***************************************************************************)
ValidSwapchain == created /\ "swapchain" \in given

\* Slip: the frame numbers start again with every swapchain.
CreateSwapchainRenumbering ==
    /\ "session" \in given
    /\ given' = given \cup {"swapchain"}
    /\ created' = TRUE
    /\ acquired' = FALSE /\ waited' = FALSE /\ hasReleased' = FALSE
    /\ nextImage' = 0 /\ currentImage' = 0 /\ lastReleased' = 0
    /\ shape' \in Shapes
    /\ textures' \in BOOLEAN
    /\ sequence' = 0
    /\ UNCHANGED <<sessionVars, lastSent>>

\* glGenTextures leaves the names zero when no GL context is current, which
\* is the case of an application that renders with Vulkan.
CreateSwapchain ==
    /\ "session" \in given
    /\ given' = given \cup {"swapchain"}
    /\ created' = TRUE
    /\ acquired' = FALSE
    /\ waited' = FALSE
    /\ nextImage' = 0
    /\ currentImage' = 0
    /\ lastReleased' = 0
    /\ hasReleased' = FALSE
    /\ shape' \in Shapes
    /\ textures' \in BOOLEAN
    /\ UNCHANGED <<sessionVars, sendVars>>

DestroySwapchain ==
    /\ ValidSwapchain
    /\ DropSwapchain
    /\ UNCHANGED <<given, nextImage, currentImage, lastReleased, shape,
                   sessionVars, sendVars>>

\* Slip: a second image is handed out while one is held.
AcquireTwice ==
    /\ ValidSwapchain
    /\ currentImage' = nextImage
    /\ nextImage' = (nextImage + 1) % NumImages
    /\ acquired' = TRUE
    /\ waited' = FALSE
    /\ UNCHANGED <<given, created, lastReleased, hasReleased, sessionVars,
                   imageVars, sendVars>>

AcquireSwapchainImage ==
    /\ ValidSwapchain
    /\ ~acquired
    /\ currentImage' = nextImage
    /\ nextImage' = (nextImage + 1) % NumImages
    /\ acquired' = TRUE
    /\ waited' = FALSE
    /\ UNCHANGED <<given, created, lastReleased, hasReleased, sessionVars,
                   imageVars, sendVars>>

WaitSwapchainImage ==
    /\ ValidSwapchain
    /\ acquired
    /\ waited' = TRUE
    /\ UNCHANGED <<given, created, acquired, nextImage, currentImage,
                   lastReleased, hasReleased, sessionVars, imageVars, sendVars>>

\* Slip: the index that is handed out next is noted as released.
ReleaseNext ==
    /\ ValidSwapchain
    /\ acquired
    /\ waited
    /\ acquired' = FALSE
    /\ waited' = FALSE
    /\ lastReleased' = nextImage
    /\ hasReleased' = TRUE
    /\ UNCHANGED <<given, created, nextImage, currentImage, sessionVars,
                   imageVars, sendVars>>

ReleaseSwapchainImage ==
    /\ ValidSwapchain
    /\ acquired
    /\ waited
    /\ acquired' = FALSE
    /\ waited' = FALSE
    /\ lastReleased' = currentImage
    /\ hasReleased' = TRUE
    /\ UNCHANGED <<given, created, nextImage, currentImage, sessionVars,
                   imageVars, sendVars>>
----------------------------------------------------------------------------
(***************************************************************************)
(* Frames.  xrWaitFrame and xrBeginFrame change no state.                  *)
(***************************************************************************)
\* maybe_send_swapchain_image: a frame takes its sequence number before the
\* size check, the readback and the connection can fail, so numbers of frames
\* that were not sent are skipped.
MaybeSendSwapchainImage ==
    IF created /\ textures
    THEN /\ sequence' = sequence + 1
         /\ \/ lastSent' = lastSent
            \/ shape = "fits" /\ lastSent' = sequence
    ELSE UNCHANGED sendVars

\* The image leaves before the call looks at the session state, so a session
\* that is not focused sends it too, and the call then returns an error.
EndFrame ==
    /\ "session" \in given
    /\ sequence < MaxSequence
    /\ MaybeSendSwapchainImage
    /\ UNCHANGED <<given, sessionVars, ownerVars, imageVars>>
----------------------------------------------------------------------------
Next == \/ CreateInstance
        \/ CreateSession
        \/ DestroySession
        \/ BeginSession
        \/ EndSession
        \/ PollEvent
        \/ CreateSwapchain
        \/ DestroySwapchain
        \/ AcquireSwapchainImage
        \/ WaitSwapchainImage
        \/ ReleaseSwapchainImage
        \/ EndFrame

\* The loader probe and the smoke test poll events in their frame loop; no
\* other call is ever certain to be made.
Spec == Init /\ [][Next]_vars /\ WF_vars(PollEvent)
----------------------------------------------------------------------------
(***************************************************************************)
(* Properties.                                                             *)
(***************************************************************************)
\* The globals of session.cpp hold values of their types, and the counters
\* stay within the bounds.
TypeOK == /\ given \subseteq Handles
          /\ sessionState \in SessionStates
          /\ pending \in Seq(SessionStates)
          /\ Len(pending) <= MaxPending
          /\ created \in BOOLEAN /\ acquired \in BOOLEAN /\ waited \in BOOLEAN
          /\ nextImage \in Images
          /\ currentImage \in Images
          /\ lastReleased \in Images
          /\ shape \in Shapes
          /\ textures \in BOOLEAN
          /\ sequence \in 0 .. MaxSequence
          /\ appState \in SessionStates
          /\ hasReleased \in BOOLEAN
          /\ lastSent \in -1 .. MaxSequence

\* The states the application has read and is still to read, in order.
EventStream == <<appState>> \o pending

\* The order session.cpp promises: up from IDLE to FOCUSED, down through
\* STOPPING to IDLE.
NextState == [ UNKNOWN      |-> "IDLE",
               IDLE         |-> "READY",
               READY        |-> "SYNCHRONIZED",
               SYNCHRONIZED |-> "VISIBLE",
               VISIBLE      |-> "FOCUSED",
               FOCUSED      |-> "STOPPING",
               STOPPING     |-> "IDLE" ]

\* An application that has read every event knows the state the runtime
\* checks its calls against: the last event of the stream is g_sessionState,
\* through any mix of begin, end, create and destroy before it polls.
EventsLeadToState == EventStream[Len(EventStream)] = sessionState

\* However late the application polls, the states it reads follow one another
\* in the session life cycle, and none is skipped.
LegalEventStream ==
    \A i \in 1 .. Len(pending) : EventStream[i + 1] = NextState[EventStream[i]]

\* Between calls the session is unknown, ready or focused: no call leaves it
\* half way, so the checks of xrEndSession for VISIBLE and SYNCHRONIZED and
\* the FOCUSED check of the frame calls agree on which sessions run.
SettledState == sessionState \in {"UNKNOWN", "READY", "FOCUSED"}

\* The three counters agree on one ring order: the image handed out follows
\* the one handed out before it, and the held image follows the released one.
RingOrder ==
    /\ acquired \/ hasReleased => nextImage = (currentImage + 1) % NumImages
    /\ acquired /\ hasReleased => currentImage = (lastReleased + 1) % NumImages
    /\ ~acquired /\ hasReleased => currentImage = lastReleased

\* Once an image has been released, the image xrEndFrame reads back is never
\* the one the application holds: it is drawn into while it is sent.
ReadbackNeverAcquired ==
    acquired /\ hasReleased => lastReleased # currentImage

\* No textures and no held image outlive the swapchain, whichever of the
\* four calls ended it, and no image is marked waited that is not held.
NothingOutlivesSwapchain ==
    /\ acquired \/ textures \/ hasReleased => created
    /\ waited => acquired

\* The number the next frame takes is above the number of every frame sent.
SentSequenceFresh == lastSent < sequence

\* Frames of one instance leave with increasing numbers, even when frames in
\* between fail; only a new instance starts again from 0.
FramesSentInOrder ==
    [][lastSent' # lastSent => lastSent' > lastSent \/ sequence' = 0]_vars

Contract == INSTANCE SwapchainContract WITH
                open     <- created,
                held     <- IF acquired THEN currentImage ELSE NoImage,
                writable <- waited,
                front    <- IF hasReleased THEN lastReleased ELSE NoImage

\* The counters and flags of session.cpp implement the contract: images are
\* handed out one at a time, never the one that is shown.
ImplementsContract == Contract!ContractSpec

\* A session that reached FOCUSED is reported to the application as focused,
\* unless the application leaves the state first.
FocusReported ==
    sessionState = "FOCUSED" ~> appState = "FOCUSED" \/ sessionState # "FOCUSED"
=============================================================================
