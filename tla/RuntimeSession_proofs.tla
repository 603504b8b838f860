----------------------- MODULE RuntimeSession_proofs -----------------------
(***************************************************************************)
(* The safety properties of RuntimeSession for every number of images and  *)
(* every bound.  The inductive invariant IInv is the conjunction of the    *)
(* invariants the runs check: RingOrder is what ReadbackNeverAcquired      *)
(* needs, SettledState is what LegalEventStream needs.                     *)
(***************************************************************************)
EXTENDS RuntimeSession, SequenceTheorems, TLAPS

\* The state calls preserve, as one formula.
IInv == /\ TypeOK
        /\ EventsLeadToState
        /\ LegalEventStream
        /\ SettledState
        /\ RingOrder
        /\ NothingOutlivesSwapchain
        /\ SentSequenceFresh

\* The index arithmetic of xrAcquireSwapchainImage: the next index is an index,
\* and it is another one.
LEMMA NextIndex ==
    ASSUME NEW i \in Images
    PROVE  /\ (i + 1) % NumImages \in Images
           /\ (i + 1) % NumImages # i
<1>1. CASE i + 1 = NumImages
  <2>1. (i + 1) % NumImages = 0
    BY <1>1, SwapchainAssumption DEF Images
  <2> QED BY <2>1, <1>1, SwapchainAssumption DEF Images
<1>2. CASE i + 1 # NumImages
  <2>1. i + 1 \in 0 .. NumImages - 1
    BY <1>2, SwapchainAssumption DEF Images
  <2>2. (i + 1) % NumImages = i + 1
    BY <2>1, SwapchainAssumption
  <2> QED BY <2>1, <2>2, SwapchainAssumption DEF Images
<1> QED BY <1>1, <1>2
----------------------------------------------------------------------------
(***************************************************************************)
(* The event stream: what was read last, a, followed by the queue q.       *)
(***************************************************************************)
Before(a, q, i) == IF i = 1 THEN a ELSE q[i - 1]

Tip(a, q) == IF q = <<>> THEN a ELSE q[Len(q)]

Follows(a, q) == \A i \in 1 .. Len(q) : q[i] = NextState[Before(a, q, i)]

\* EventsLeadToState and LegalEventStream, said of the queue alone.
LEMMA StreamOfQueue ==
    ASSUME appState \in SessionStates, pending \in Seq(SessionStates)
    PROVE  /\ EventsLeadToState <=> Tip(appState, pending) = sessionState
           /\ LegalEventStream <=> Follows(appState, pending)
<1>1. /\ Len(EventStream) = Len(pending) + 1
      /\ EventStream[1] = appState
      /\ \A i \in 1 .. Len(pending) : EventStream[i + 1] = pending[i]
  BY DEF EventStream
<1>2. \A i \in 1 .. Len(pending) : EventStream[i] = Before(appState, pending, i)
  <2> SUFFICES ASSUME NEW i \in 1 .. Len(pending)
               PROVE  EventStream[i] = Before(appState, pending, i)
    OBVIOUS
  <2>1. CASE i = 1
    BY <1>1, <2>1 DEF Before
  <2>2. CASE i # 1
    <3>1. i - 1 \in 1 .. Len(pending) /\ (i - 1) + 1 = i
      BY <2>2
    <3> QED BY <1>1, <2>2, <3>1 DEF Before
  <2> QED BY <2>1, <2>2
<1>3. EventStream[Len(EventStream)] = Tip(appState, pending)
  <2>1. CASE pending = <<>>
    BY <1>1, <2>1 DEF Tip
  <2>2. CASE pending # <<>>
    BY <1>1, <2>2 DEF Tip
  <2> QED BY <2>1, <2>2
<1> QED BY <1>1, <1>2, <1>3 DEF EventsLeadToState, LegalEventStream, Follows

\* queue_session_state keeps a legal stream legal when the new events go on
\* from the last one.
LEMMA FollowsAppend ==
    ASSUME NEW a \in SessionStates,
           NEW q \in Seq(SessionStates), NEW s \in Seq(SessionStates),
           s # <<>>, Follows(a, q), Follows(Tip(a, q), s)
    PROVE  /\ q \o s \in Seq(SessionStates)
           /\ Len(q \o s) = Len(q) + Len(s)
           /\ Follows(a, q \o s)
           /\ Tip(a, q \o s) = s[Len(s)]
<1> DEFINE r == q \o s
<1>1. /\ r \in Seq(SessionStates)
      /\ Len(r) = Len(q) + Len(s)
      /\ \A i \in 1 .. Len(q) : r[i] = q[i]
      /\ \A i \in 1 .. Len(s) : r[Len(q) + i] = s[i]
  OBVIOUS
<1>2. Len(q) \in Nat /\ Len(s) \in Nat /\ Len(s) > 0
  OBVIOUS
<1> HIDE DEF r
<1>3. Follows(a, r)
  <2> SUFFICES ASSUME NEW i \in 1 .. Len(r)
               PROVE  r[i] = NextState[Before(a, r, i)]
    BY DEF Follows
  <2>1. CASE i <= Len(q)
    <3>1. i \in 1 .. Len(q)
      BY <2>1, <1>1, <1>2
    <3>2. Before(a, r, i) = Before(a, q, i)
      <4>1. CASE i = 1
        BY <4>1 DEF Before
      <4>2. CASE i # 1
        <5>1. i - 1 \in 1 .. Len(q)
          BY <4>2, <3>1, <1>2
        <5> QED BY <5>1, <4>2, <1>1 DEF Before
      <4> QED BY <4>1, <4>2
    <3> QED BY <3>1, <3>2, <1>1 DEF Follows
  <2>2. CASE i > Len(q)
    <3>1. PICK j \in 1 .. Len(s) : i = Len(q) + j
      <4>1. i - Len(q) \in 1 .. Len(s) /\ i = Len(q) + (i - Len(q))
        BY <2>2, <1>1, <1>2
      <4> QED BY <4>1
    <3>2. r[i] = s[j]
      BY <3>1, <1>1
    <3>3. Before(a, r, i) = Before(Tip(a, q), s, j)
      <4>1. CASE j # 1
        <5>1. i - 1 = Len(q) + (j - 1) /\ j - 1 \in 1 .. Len(s) /\ i # 1
          BY <4>1, <3>1, <1>2
        <5> QED BY <5>1, <4>1, <1>1 DEF Before
      <4>2. CASE j = 1 /\ q = <<>>
        <5>1. i = 1
          BY <4>2, <3>1
        <5> QED BY <5>1, <4>2 DEF Before, Tip
      <4>3. CASE j = 1 /\ q # <<>>
        <5>1. Len(q) \in 1 .. Len(q) /\ i # 1 /\ i - 1 = Len(q)
          BY <4>3, <3>1, <1>2
        <5> QED BY <5>1, <4>3, <1>1 DEF Before, Tip
      <4> QED BY <4>1, <4>2, <4>3
    <3>4. s[j] = NextState[Before(Tip(a, q), s, j)]
      BY DEF Follows
    <3> QED BY <3>2, <3>3, <3>4
  <2> QED BY <2>1, <2>2, <1>1, <1>2
<1>4. Tip(a, r) = s[Len(s)]
  <2>1. Len(s) \in 1 .. Len(s) /\ r # <<>>
    BY <1>1, <1>2
  <2> QED BY <2>1, <1>1 DEF Tip
<1> QED BY <1>1, <1>3, <1>4 DEF r

\* A queue is empty when its length is 0.
LEMMA EmptyQueue ==
    \A q \in Seq(SessionStates) : q = <<>> <=> Len(q) = 0
<1> QED BY EmptySeq

\* xrPollEvent moves the first event of the queue to the application.
LEMMA FollowsTail ==
    ASSUME NEW a \in SessionStates, NEW q \in Seq(SessionStates),
           q # <<>>, Follows(a, q)
    PROVE  /\ Head(q) \in SessionStates
           /\ Tail(q) \in Seq(SessionStates)
           /\ Len(Tail(q)) = Len(q) - 1
           /\ Follows(Head(q), Tail(q))
           /\ Tip(Head(q), Tail(q)) = Tip(a, q)
<1>1. /\ Head(q) = q[1]
      /\ Head(q) \in SessionStates
      /\ Tail(q) \in Seq(SessionStates)
      /\ Len(Tail(q)) = Len(q) - 1
      /\ \A i \in 1 .. Len(q) - 1 : Tail(q)[i] = q[i + 1]
      /\ Len(q) \in Nat /\ Len(q) > 0
  OBVIOUS
<1>2. Follows(Head(q), Tail(q))
  <2> SUFFICES ASSUME NEW i \in 1 .. Len(q) - 1
               PROVE  Tail(q)[i] = NextState[Before(Head(q), Tail(q), i)]
    BY <1>1 DEF Follows
  <2>1. i + 1 \in 1 .. Len(q) /\ i + 1 # 1 /\ (i + 1) - 1 = i
    BY <1>1
  <2>2. q[i + 1] = NextState[q[i]]
    BY <2>1 DEF Follows, Before
  <2>3. Before(Head(q), Tail(q), i) = q[i]
    <3>1. CASE i = 1
      BY <3>1, <1>1 DEF Before
    <3>2. CASE i # 1
      <4>1. i - 1 \in 1 .. Len(q) - 1 /\ (i - 1) + 1 = i
        BY <3>2, <1>1
      <4> QED BY <4>1, <3>2, <1>1 DEF Before
    <3> QED BY <3>1, <3>2
  <2> QED BY <2>2, <2>3, <1>1
<1>3. Tip(Head(q), Tail(q)) = Tip(a, q)
  <2>1. CASE Len(q) = 1
    <3>0. Len(Tail(q)) = 0 /\ Tail(q) \in Seq(SessionStates)
      BY <2>1, <1>1
    <3>1. Tail(q) = <<>>
      BY <3>0, EmptyQueue
    <3> QED BY <3>1, <2>1, <1>1 DEF Tip
  <2>2. CASE Len(q) # 1
    <3>1. Len(q) - 1 \in 1 .. Len(q) - 1 /\ (Len(q) - 1) + 1 = Len(q)
      BY <2>2, <1>1
    <3>0. Len(Tail(q)) # 0 /\ Tail(q) \in Seq(SessionStates)
      BY <2>2, <1>1
    <3>2. Tail(q) # <<>>
      BY <3>0, EmptyQueue
    <3> QED BY <3>1, <3>2, <1>1 DEF Tip
  <2> QED BY <2>1, <2>2
<1> QED BY <1>1, <1>2, <1>3
----------------------------------------------------------------------------
(***************************************************************************)
(* The inductive invariant.                                                *)
(***************************************************************************)
LEMMA InitIInv == Init => IInv
<1> SUFFICES ASSUME Init PROVE IInv
  OBVIOUS
<1> USE DEF Init
<1>1. TypeOK
  <2>1. <<>> \in Seq(SessionStates) /\ Len(<<>>) = 0
    OBVIOUS
  <2>2. 0 \in Images /\ 0 \in 0 .. MaxSequence /\ -1 \in -1 .. MaxSequence
    BY SwapchainAssumption, BoundAssumption DEF Images
  <2>3. "UNKNOWN" \in SessionStates /\ "fits" \in Shapes /\ 0 <= MaxPending
    BY BoundAssumption DEF SessionStates, Shapes
  <2> QED BY <2>1, <2>2, <2>3 DEF TypeOK
<1>2. EventsLeadToState /\ LegalEventStream
  <2>1. Tip(appState, pending) = sessionState /\ Follows(appState, pending)
    BY DEF Tip, Follows
  <2> QED BY <2>1, <1>1, StreamOfQueue DEF TypeOK
<1>3. SettledState /\ RingOrder /\ NothingOutlivesSwapchain /\ SentSequenceFresh
  BY DEF SettledState, RingOrder, NothingOutlivesSwapchain, SentSequenceFresh
<1> QED BY <1>1, <1>2, <1>3 DEF IInv

\* The event part of the invariant, in the form the steps use.
StreamInv == /\ sessionState \in SessionStates
             /\ appState \in SessionStates
             /\ pending \in Seq(SessionStates)
             /\ Len(pending) <= MaxPending
             /\ Tip(appState, pending) = sessionState
             /\ Follows(appState, pending)
             /\ SettledState

\* Every call leaves the event stream legal and leading to the state.
LEMMA NextStreamInv == StreamInv /\ [Next]_vars => StreamInv'
<1> SUFFICES ASSUME StreamInv, [Next]_vars PROVE StreamInv'
  OBVIOUS
<1> USE DEF StreamInv, SettledState
<1>0. /\ "UNKNOWN" \in SessionStates /\ <<>> \in Seq(SessionStates)
      /\ Tip("UNKNOWN", <<>>) = "UNKNOWN" /\ Follows("UNKNOWN", <<>>)
      /\ Len(<<>>) = 0
  BY DEF SessionStates, Tip, Follows
<1>1. ASSUME ForgetSession PROVE StreamInv'
  BY <1>0, <1>1, BoundAssumption DEF ForgetSession
<1>2. CASE CreateSession
  <2> DEFINE s == <<"IDLE", "READY">>
  <2>1. s \in Seq(SessionStates) /\ s # <<>> /\ Len(s) = 2 /\ s[2] = "READY"
    BY DEF SessionStates
  <2>2. Follows("UNKNOWN", s)
    BY DEF Follows, Before, NextState
  <2>3. <<>> \o s = s /\ pending' = s /\ sessionState' = "READY"
        /\ appState' = "UNKNOWN"
    BY <1>2, <2>1 DEF CreateSession, QueueSessionStates
  <2>4. Tip("UNKNOWN", s) = "READY"
    BY <2>1 DEF Tip
  <2> HIDE DEF s
  <2> QED BY <1>0, <2>1, <2>2, <2>3, <2>4, BoundAssumption DEF SessionStates
<1>3. CASE BeginSession
  <2> DEFINE s == <<"SYNCHRONIZED", "VISIBLE", "FOCUSED">>
  <2>1. s \in Seq(SessionStates) /\ s # <<>> /\ Len(s) = 3 /\ s[3] = "FOCUSED"
    BY DEF SessionStates
  <2>2. Follows("READY", s)
    BY DEF Follows, Before, NextState
  <2>3. pending' = pending \o s /\ sessionState' = "FOCUSED"
        /\ UNCHANGED appState /\ sessionState = "READY"
        /\ Len(pending) + 3 <= MaxPending
    BY <1>3, <2>1 DEF BeginSession, QueueSessionStates
  <2> HIDE DEF s
  <2>4. /\ pending \o s \in Seq(SessionStates)
        /\ Len(pending \o s) = Len(pending) + Len(s)
        /\ Follows(appState, pending \o s)
        /\ Tip(appState, pending \o s) = s[Len(s)]
    <3>1. Follows(Tip(appState, pending), s)
      BY <2>2, <2>3
    <3> QED BY <2>1, <3>1, FollowsAppend
  <2> QED BY <2>1, <2>3, <2>4 DEF SessionStates
<1>4. CASE EndSession
  <2> DEFINE s == <<"STOPPING", "IDLE", "READY">>
  <2>1. s \in Seq(SessionStates) /\ s # <<>> /\ Len(s) = 3 /\ s[3] = "READY"
    BY DEF SessionStates
  <2>2. Follows("FOCUSED", s)
    BY DEF Follows, Before, NextState
  <2>3. pending' = pending \o s /\ sessionState' = "READY"
        /\ UNCHANGED appState /\ sessionState = "FOCUSED"
        /\ Len(pending) + 3 <= MaxPending
    BY <1>4, <2>1 DEF EndSession, QueueSessionStates
  <2> HIDE DEF s
  <2>4. /\ pending \o s \in Seq(SessionStates)
        /\ Len(pending \o s) = Len(pending) + Len(s)
        /\ Follows(appState, pending \o s)
        /\ Tip(appState, pending \o s) = s[Len(s)]
    <3>1. Follows(Tip(appState, pending), s)
      BY <2>2, <2>3
    <3> QED BY <2>1, <3>1, FollowsAppend
  <2> QED BY <2>1, <2>3, <2>4 DEF SessionStates
<1>5. CASE PollEvent
  <2>1. /\ pending # <<>> /\ appState' = Head(pending)
        /\ pending' = Tail(pending) /\ UNCHANGED sessionState
    BY <1>5 DEF PollEvent
  <2> QED BY <2>1, FollowsTail, BoundAssumption
<1>6. CASE UNCHANGED sessionVars
  BY <1>6 DEF sessionVars
<1>7. CASE \/ CreateSwapchain \/ DestroySwapchain \/ AcquireSwapchainImage
           \/ WaitSwapchainImage \/ ReleaseSwapchainImage \/ EndFrame
           \/ UNCHANGED vars
  BY <1>6, <1>7
     DEF CreateSwapchain, DestroySwapchain, AcquireSwapchainImage,
         WaitSwapchainImage, ReleaseSwapchainImage, EndFrame, vars
<1>8. CASE CreateInstance \/ DestroySession
  BY <1>1, <1>8 DEF CreateInstance, DestroySession
<1> QED BY <1>2, <1>3, <1>4, <1>5, <1>7, <1>8 DEF Next

\* The swapchain part of the invariant.
OwnerInv == /\ given \subseteq Handles
            /\ created \in BOOLEAN /\ acquired \in BOOLEAN /\ waited \in BOOLEAN
            /\ nextImage \in Images
            /\ currentImage \in Images
            /\ lastReleased \in Images
            /\ shape \in Shapes
            /\ textures \in BOOLEAN
            /\ hasReleased \in BOOLEAN
            /\ RingOrder
            /\ NothingOutlivesSwapchain

\* Every call leaves the image counters in ring order and drops with a
\* swapchain all that belongs to it.
LEMMA NextOwnerInv == OwnerInv /\ [Next]_vars => OwnerInv'
<1> SUFFICES ASSUME OwnerInv, [Next]_vars PROVE OwnerInv'
  OBVIOUS
<1> USE DEF OwnerInv, RingOrder, NothingOutlivesSwapchain
<1>0. 0 \in Images
  BY SwapchainAssumption DEF Images
<1>1. CASE CreateInstance
  BY <1>0, <1>1 DEF CreateInstance, DropSwapchain, Handles
<1>2. CASE CreateSession
  BY <1>2 DEF CreateSession, ownerVars, imageVars, Handles
<1>3. CASE DestroySession
  BY <1>3 DEF DestroySession, DropSwapchain
<1>4. CASE BeginSession \/ EndSession \/ PollEvent
  BY <1>4 DEF BeginSession, EndSession, PollEvent, ownerVars, imageVars
<1>5. CASE CreateSwapchain
  BY <1>0, <1>5 DEF CreateSwapchain, Handles
<1>6. CASE DestroySwapchain
  BY <1>6 DEF DestroySwapchain, DropSwapchain
<1>7. CASE AcquireSwapchainImage
  <2>1. /\ created /\ ~acquired
        /\ currentImage' = nextImage
        /\ nextImage' = (nextImage + 1) % NumImages
        /\ acquired' = TRUE /\ waited' = FALSE
        /\ UNCHANGED <<given, created, lastReleased, hasReleased, shape, textures>>
    BY <1>7 DEF AcquireSwapchainImage, ValidSwapchain, imageVars
  <2>2. nextImage' \in Images
    BY <2>1, NextIndex
  <2> QED BY <2>1, <2>2
<1>8. CASE WaitSwapchainImage
  BY <1>8 DEF WaitSwapchainImage, ValidSwapchain, imageVars
<1>9. CASE ReleaseSwapchainImage
  BY <1>9 DEF ReleaseSwapchainImage, ValidSwapchain, imageVars
<1>10. CASE EndFrame \/ UNCHANGED vars
  BY <1>10 DEF EndFrame, vars, ownerVars, imageVars
<1> QED BY <1>1, <1>2, <1>3, <1>4, <1>5, <1>6, <1>7, <1>8, <1>9, <1>10 DEF Next

\* The frame numbers.
SendInv == /\ sequence \in 0 .. MaxSequence
           /\ lastSent \in -1 .. MaxSequence
           /\ SentSequenceFresh

\* Every call keeps the next frame number above those already sent, and a
\* number sent later is larger.
LEMMA NextSendInv ==
    SendInv /\ [Next]_vars =>
        /\ SendInv'
        /\ lastSent' # lastSent => lastSent' > lastSent \/ sequence' = 0
<1> SUFFICES ASSUME SendInv, [Next]_vars
             PROVE  /\ SendInv'
                    /\ lastSent' # lastSent => lastSent' > lastSent \/ sequence' = 0
  OBVIOUS
<1> USE DEF SendInv, SentSequenceFresh
<1>1. CASE CreateInstance
  BY <1>1, BoundAssumption DEF CreateInstance
<1>2. CASE EndFrame
  BY <1>2, BoundAssumption DEF EndFrame, MaybeSendSwapchainImage, sendVars
<1>3. CASE UNCHANGED sendVars
  BY <1>3 DEF sendVars
<1>4. CASE \/ CreateSession \/ DestroySession \/ BeginSession \/ EndSession
           \/ PollEvent \/ CreateSwapchain \/ DestroySwapchain
           \/ AcquireSwapchainImage \/ WaitSwapchainImage
           \/ ReleaseSwapchainImage \/ UNCHANGED vars
  BY <1>3, <1>4
     DEF CreateSession, DestroySession, BeginSession, EndSession, PollEvent,
         CreateSwapchain, DestroySwapchain, AcquireSwapchainImage,
         WaitSwapchainImage, ReleaseSwapchainImage, vars
<1> QED BY <1>1, <1>2, <1>4 DEF Next

\* The three parts together are IInv.
LEMMA IInvParts == IInv <=> StreamInv /\ OwnerInv /\ SendInv
<1>1. ASSUME appState \in SessionStates, pending \in Seq(SessionStates)
      PROVE  EventsLeadToState /\ LegalEventStream <=>
                 Tip(appState, pending) = sessionState /\ Follows(appState, pending)
  BY <1>1, StreamOfQueue
<1> QED BY <1>1 DEF IInv, TypeOK, StreamInv, OwnerInv, SendInv

\* Every call of the runtime preserves the invariant.
LEMMA NextIInv == IInv /\ [Next]_vars => IInv'
<1> SUFFICES ASSUME IInv, [Next]_vars PROVE IInv'
  OBVIOUS
<1>1. StreamInv' /\ OwnerInv' /\ SendInv'
  BY IInvParts, NextStreamInv, NextOwnerInv, NextSendInv
<1>2. (IInv <=> StreamInv /\ OwnerInv /\ SendInv)'
  BY IInvParts, PTL
<1> QED BY <1>1, <1>2
----------------------------------------------------------------------------
(***************************************************************************)
(* The theorems.                                                           *)
(***************************************************************************)
\* IInv holds of every reachable state of the runtime.
THEOREM Invariance == Spec => []IInv
<1> QED BY InitIInv, NextIInv, PTL DEF Spec

\* The globals of session.cpp always hold values of their types.
THEOREM TypeCorrect == Spec => []TypeOK
<1>1. IInv => TypeOK
  BY DEF IInv
<1> QED BY <1>1, Invariance, PTL

\* The application reads a legal sequence of session states, at whatever pace
\* it polls, and no call leaves the session half way between two of them.
THEOREM EventsCorrect == Spec => [](LegalEventStream /\ SettledState)
<1>1. IInv => LegalEventStream /\ SettledState
  BY DEF IInv
<1> QED BY <1>1, Invariance, PTL

\* The state an application knows once it has read every event is the one that
\* the runtime checks its calls against.
THEOREM StreamLeadsToState == Spec => []EventsLeadToState
<1>1. IInv => EventsLeadToState
  BY DEF IInv
<1> QED BY <1>1, Invariance, PTL

\* The ring order keeps the image that is read back apart from the held one.
LEMMA RingSeparates == IInv => ReadbackNeverAcquired
<1> SUFFICES ASSUME IInv, acquired, hasReleased
             PROVE  lastReleased # currentImage
  BY DEF ReadbackNeverAcquired
<1>1. lastReleased \in Images /\ currentImage = (lastReleased + 1) % NumImages
  BY DEF IInv, TypeOK, RingOrder
<1> QED BY <1>1, NextIndex

\* With any number of images above one, xrEndFrame never reads back the image
\* the application holds, once an image has been released.
THEOREM ReadbackSafe == Spec => []ReadbackNeverAcquired
<1> QED BY RingSeparates, Invariance, PTL

\* Whichever call ends a swapchain, its textures and its held image go too.
THEOREM SwapchainOwnership == Spec => []NothingOutlivesSwapchain
<1>1. IInv => NothingOutlivesSwapchain
  BY DEF IInv
<1> QED BY <1>1, Invariance, PTL

\* The frames of an instance are sent with increasing numbers.
THEOREM FrameOrder == Spec => FramesSentInOrder
<1>1. IInv /\ [Next]_vars =>
          [lastSent' # lastSent => lastSent' > lastSent \/ sequence' = 0]_vars
  BY IInvParts, NextSendInv
<1> QED BY <1>1, Invariance, PTL DEF Spec, FramesSentInOrder
----------------------------------------------------------------------------
(***************************************************************************)
(* The counters of session.cpp implement SwapchainContract.                *)
(***************************************************************************)
LEMMA ContractInitial == Init => Contract!ContractInit
<1> QED BY DEF Init, Contract!ContractInit

LEMMA ContractStep ==
    IInv /\ [Next]_vars => [Contract!ContractNext]_(Contract!contractVars)
<1> SUFFICES ASSUME IInv, [Next]_vars
             PROVE  Contract!ContractNext \/ UNCHANGED Contract!contractVars
  OBVIOUS
<1> DEFINE held == IF acquired THEN currentImage ELSE NoImage
<1> DEFINE front == IF hasReleased THEN lastReleased ELSE NoImage
<1>0. /\ currentImage \in Images /\ lastReleased \in Images /\ nextImage \in Images
      /\ NoImage \notin Images
      /\ acquired \in BOOLEAN /\ waited \in BOOLEAN /\ hasReleased \in BOOLEAN
      /\ (waited => acquired)
  BY SwapchainAssumption DEF IInv, TypeOK, NothingOutlivesSwapchain, Images
<1>1. ASSUME DropSwapchain PROVE Contract!Close
  BY <1>1 DEF DropSwapchain, Contract!Close
<1>2. CASE CreateInstance \/ DestroySession \/ DestroySwapchain
  BY <1>1, <1>2 DEF CreateInstance, DestroySession, DestroySwapchain,
                    Contract!ContractNext
<1>3. ASSUME UNCHANGED ownerVars PROVE UNCHANGED Contract!contractVars
  BY <1>3 DEF ownerVars, Contract!contractVars
<1>4. CASE \/ CreateSession \/ BeginSession \/ EndSession \/ PollEvent
           \/ EndFrame \/ UNCHANGED vars
  BY <1>3, <1>4 DEF CreateSession, BeginSession, EndSession, PollEvent,
                    EndFrame, vars
<1>5. CASE CreateSwapchain
  <2>1. Contract!Open
    BY <1>5 DEF CreateSwapchain, Contract!Open
  <2> QED BY <2>1 DEF Contract!ContractNext
<1>6. CASE AcquireSwapchainImage
  <2>1. /\ created /\ ~acquired /\ acquired' = TRUE /\ waited' = FALSE
        /\ currentImage' = nextImage
        /\ UNCHANGED <<created, lastReleased, hasReleased>>
    BY <1>6 DEF AcquireSwapchainImage, ValidSwapchain
  <2>2. ~waited
    BY <2>1, <1>0
  <2>3. nextImage # front
    <3>1. CASE hasReleased
      <4>1. nextImage = (lastReleased + 1) % NumImages
        BY <2>1, <3>1 DEF IInv, RingOrder
      <4> QED BY <4>1, <3>1, <1>0, NextIndex
    <3>2. CASE ~hasReleased
      BY <3>2, <1>0
    <3> QED BY <3>1, <3>2
  <2>4. Contract!Acquire(nextImage)
    BY <1>0, <2>1, <2>2, <2>3 DEF Contract!Acquire
  <2> QED BY <1>0, <2>4 DEF Contract!ContractNext
<1>7. CASE WaitSwapchainImage
  <2>1. Contract!Wait
    BY <1>0, <1>7 DEF WaitSwapchainImage, Contract!Wait
  <2> QED BY <2>1 DEF Contract!ContractNext
<1>8. CASE ReleaseSwapchainImage
  <2>1. Contract!Release
    BY <1>0, <1>8 DEF ReleaseSwapchainImage, Contract!Release
  <2> QED BY <2>1 DEF Contract!ContractNext
<1> QED BY <1>2, <1>4, <1>5, <1>6, <1>7, <1>8 DEF Next

\* Every behaviour of the runtime is one of the contract: images are handed
\* out one at a time and never the one that is shown.
THEOREM ContractRefinement == Spec => ImplementsContract
<1> QED BY ContractInitial, ContractStep, Invariance, PTL
        DEF Spec, ImplementsContract, Contract!ContractSpec
=============================================================================
