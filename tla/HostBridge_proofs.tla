------------------------- MODULE HostBridge_proofs -------------------------
(***************************************************************************)
(* Proofs about HostBridge for every number of images, every outcome of    *)
(* the swapchain's creation and every bound.  IInv is the inductive        *)
(* invariant: what the events still in the queue say about the runtime,    *)
(* what is left of a frame between two passes of the loop, and what each   *)
(* image is known to hold.                                                 *)
(***************************************************************************)
EXTENDS HostBridge, SequenceTheorems, TLAPS

Between == {"asleep", "pump", "wait"}
EndKinds == {"EXITING", "LOSS_PENDING"}

\* An event in the queue tells where the runtime has got to, and the end of
\* the runtime is in the queue until the bridge has seen it.
EventsTell ==
    /\ \A k \in DOMAIN events : events[k] \in EndKinds => rt = "gone"
    /\ \A k \in DOMAIN events :
          events[k] = "STOPPING" => rt \in {"stopping", "gone"}
    /\ \A j, k \in DOMAIN events :
          events[j] = "STOPPING" /\ events[k] = "STOPPING" => j = k
    /\ rt = "gone" /\ running => \E k \in DOMAIN events : events[k] \in EndKinds

\* What is left of a frame between two passes.
NothingLeftBegun ==
    /\ pc \in Between /\ "begun" \in frame =>
          ~useFrameLoop \/ (rt = "gone" /\ pc # "wait")
    /\ pc \in Between /\ failures = 0 /\ rt # "gone" => frame = {}
    /\ pc = "wait" => useFrameLoop
    /\ pc \in {"pump", "wait", "begin"} => ~began
    /\ pc = "locate" => IF began THEN frame = {"begun"} ELSE ~useFrameLoop
    /\ ~useFrameLoop => failures # 0 \/ rt = "gone"

\* Image i has a frame numbered n in its box, or the pattern drawn over it.
Keeps(i, n) == \/ \E r \in 1 .. appRun : Shows(i, [run |-> r, seq |-> n])
               \/ ShowsPattern(i)

\* What the numbers kept for the images say about what is drawn in them.
NumbersTell ==
    /\ \A i \in Images : uploaded[i] # NoSeq => Keeps(i, uploaded[i])
    /\ store # Blank => store.run \in 1 .. appRun /\ store.seq \in 0 .. MaxSeq
    /\ arrived # Blank => arrived.run \in 1 .. appRun

\* Image i was filled from what was taken of the store.
Took(i) == IF taken = Blank THEN ShowsPattern(i) ELSE uploaded[i] = taken.seq

\* The image filled is the image submitted.
FilledIsSubmitted ==
    /\ layer => pc \in {"end", "asleep"}
    /\ chain = "ready" /\ failures = 0 /\ rt # "gone" =>
          /\ pc = "release" => Took(image)
          /\ pc = "end" /\ layer => Took(released)

\* A layer is submitted only after an image was released.
LayerHasImage == layer => released \in Images

IInv == /\ TypeOK /\ LayerHasImage /\ RunningAgrees /\ FrameCallsInOrder /\ ImageInStep
        /\ EventsTell /\ NothingLeftBegun /\ NumbersTell /\ FilledIsSubmitted
-----------------------------------------------------------------------------
(***************************************************************************)
(* Types.                                                                  *)
(***************************************************************************)
\* NoSeq is no number of a frame and Blank no frame.
LEMMA Apart == /\ NoSeq \in Nat /\ NoSeq \notin 0 .. MaxSeq
               /\ Blank \notin AppFrames /\ Pattern \notin AppFrames
               /\ Blank # Pattern
  BY HostAssumption DEF NoSeq, Blank, Pattern, AppFrames

\* Marking the oldest image as waited for leaves a sequence of the type.
LEMMA MarkType ==
    ASSUME NEW s \in Seq([image : Images, waited : BOOLEAN]),
           NEW t, t = [s EXCEPT ![1].waited = TRUE]
    PROVE  t \in Seq([image : Images, waited : BOOLEAN])
<1>1. /\ Len(s) \in Nat /\ DOMAIN s = 1 .. Len(s)
      /\ \A k \in 1 .. Len(s) : s[k] \in [image : Images, waited : BOOLEAN]
  BY LenProperties, ElementOfSeq
<1>2. t = [k \in DOMAIN s |->
              IF k = 1 THEN [s[1] EXCEPT !.waited = TRUE] ELSE s[k]]
  BY Zenon
<1>3. ASSUME NEW r \in [image : Images, waited : BOOLEAN]
      PROVE  [r EXCEPT !.waited = TRUE] \in [image : Images, waited : BOOLEAN]
  OBVIOUS
<1>4. ASSUME NEW k \in 1 .. Len(s)
      PROVE  t[k] \in [image : Images, waited : BOOLEAN]
  <2>1. CASE k = 1
    <3>1. t[k] = [s[k] EXCEPT !.waited = TRUE]
      BY <1>1, <1>2, <2>1
    <3>2. s[k] \in [image : Images, waited : BOOLEAN]
      BY <1>1
    <3> QED
      BY <1>3, <3>1, <3>2, Zenon
  <2>2. CASE k # 1
    BY <1>1, <1>2, <2>2
  <2> QED
    BY <2>1, <2>2
<1>5. t \in [1 .. Len(s) -> [image : Images, waited : BOOLEAN]]
  BY <1>1, <1>2, <1>4
<1> QED
  BY <1>1, <1>5, SeqDef

LEMMA TypeInit == Init => TypeOK
<1> SUFFICES ASSUME Init PROVE TypeOK
  OBVIOUS
<1> USE HostAssumption, Apart
<1>1. /\ running \in BOOLEAN /\ useFrameLoop \in BOOLEAN
      /\ began \in BOOLEAN /\ layer \in BOOLEAN
  BY Zenon DEF Init
<1>2. /\ events \in Seq(EventKinds)
      /\ acquired \in Seq([image : Images, waited : BOOLEAN])
  BY EmptySeq DEF Init
<1>3. /\ shown \in 0 .. NumImages /\ texture \in [Images -> [Spots -> Pictures]]
      /\ uploaded \in [Images -> 0 .. NoSeq]
  BY DEF Init, Pictures, NoSeq
<1>4. /\ released \in 0 .. NumImages /\ image \in 0 .. NumImages
      /\ appRun \in 1 .. MaxRuns /\ failures \in 0 .. MaxFailures
  BY DEF Init
<1> QED
  BY <1>1, <1>2, <1>3, <1>4 DEF Init, TypeOK, Places

LEMMA FailsType ==
    ASSUME failures \in 0 .. MaxFailures,
           CallFails \/ UNCHANGED failures
    PROVE  failures' \in 0 .. MaxFailures
  BY HostAssumption DEF CallFails

\* What is drawn into an image are pictures at all its spots.
LEMMA FilledType ==
    ASSUME TypeOK, CopyBox \/ DrawPattern
    PROVE  texture' \in [Images -> [Spots -> Pictures]]
<1>1. store \in Pictures /\ Pattern \in Pictures
  BY DEF TypeOK, Pictures
<1>2. texture \in [Images -> [Spots -> Pictures]]
  BY DEF TypeOK
<1>3. PICK x : /\ texture' = [texture EXCEPT ![image] = x]
               /\ image \in Images => x \in [Spots -> Pictures]
  <2>1. CASE CopyBox
    <3> DEFINE box == [s \in Spots |-> IF s \in Covers[store]
                                       THEN store ELSE texture[image][s]]
    <3>1. image \in Images => box \in [Spots -> Pictures]
      BY <1>1, <1>2
    <3>2. texture' = [texture EXCEPT ![image] = box]
      BY <2>1 DEF CopyBox
    <3> HIDE DEF box
    <3> QED
      BY <3>1, <3>2
  <2>2. CASE DrawPattern
    <3>1. [s \in Spots |-> Pattern] \in [Spots -> Pictures]
      BY <1>1
    <3> QED
      BY <2>2, <3>1 DEF DrawPattern
  <2> QED
    BY <2>1, <2>2
<1> QED
  BY <1>2, <1>3

LEMMA LayerImage ==
    TypeOK /\ LayerHasImage /\ [Next]_vars => LayerHasImage'
<1> SUFFICES ASSUME TypeOK, LayerHasImage, [Next]_vars PROVE LayerHasImage'
  OBVIOUS
<1>1. CASE UNCHANGED <<layer, released>>
  BY <1>1 DEF LayerHasImage
<1>2. CASE MakeFrame
  BY <1>2 DEF MakeFrame, LayerHasImage
<1>3. CASE ReleaseImage
  <2>1. acquired # <<>>
    BY <1>3 DEF ReleaseImage, WaitedPlaces
  <2>2. acquired[1] \in [image : Images, waited : BOOLEAN]
    <3>1. acquired \in Seq([image : Images, waited : BOOLEAN])
      BY DEF TypeOK
    <3>2. 1 \in 1 .. Len(acquired)
      BY <2>1, <3>1, EmptySeq
    <3> QED
      BY <3>1, <3>2, ElementOfSeq, Zenon
  <2>3. acquired[1].image \in Images
    BY <2>2
  <2> QED
    BY <1>3, <2>3 DEF ReleaseImage, LayerHasImage
<1>4. QED
  BY <1>1, <1>2, <1>3, Zenon
  DEF Next, Host, HostRuntime, Feed, PumpEvent, PumpDone, WaitFrame,
      WaitDiscarded, WaitFails, BeginFrame, BeginRejected, BeginFails, Locate,
      EndFrame, EndFails, AcquireImage, AcquireFails, WaitImage, WaitImageFails,
      FillTexture, ReleaseFails, FrameStep, LayerStep, FeedStep, StoreFromTcp,
      StoreFromUdp, RestartApp, runtimeVars, swapVars, vars

LEMMA TypeStep == TypeOK /\ LayerHasImage /\ [Next]_vars => TypeOK'
<1> SUFFICES ASSUME TypeOK, LayerHasImage, [Next]_vars PROVE TypeOK'
  OBVIOUS
<1> USE HostAssumption, Apart
<1>1. CASE UNCHANGED vars
  BY <1>1 DEF vars, TypeOK
<1>2. CASE HostRuntime
  <2>1. /\ events' \in Seq(EventKinds)
        /\ rt' \in {"idle", "ready", "running", "stopping", "gone"}
    <3>1. \E e \in EventKinds : events' = Append(events, e)
      <4>1. /\ "READY" \in EventKinds /\ "STOPPING" \in EventKinds
            /\ "EXITING" \in EventKinds /\ "LOSS_PENDING" \in EventKinds
        BY DEF EventKinds
      <4> QED
        BY <1>2, <4>1, Zenon
        DEF HostRuntime, RuntimeReady, RuntimeStops, RuntimeEnds
    <3>2. rt' \in {"idle", "ready", "running", "stopping", "gone"}
      BY <1>2 DEF HostRuntime, RuntimeReady, RuntimeStops, RuntimeEnds
    <3> QED
      BY <3>1, <3>2, AppendProperties DEF TypeOK
  <2> QED
    BY <1>2, <2>1 DEF HostRuntime, TypeOK, imageVars, feedVars
<1>3. CASE Feed
  <2>1. arrived' \in AppFrames \cup {Blank}
    BY <1>3 DEF Feed, StoreFromTcp, StoreFromUdp, RestartApp, TypeOK, AppFrames
  <2>2. store' \in AppFrames \cup {Blank}
    BY <1>3, <2>1 DEF Feed, StoreFromTcp, StoreFromUdp, RestartApp, TypeOK
  <2>3. appRun' \in 1 .. MaxRuns
    BY <1>3 DEF Feed, StoreFromTcp, StoreFromUdp, RestartApp, TypeOK
  <2>4. FeedStep
    BY <1>3 DEF Feed, StoreFromTcp, StoreFromUdp, RestartApp
  <2> QED
    BY <2>1, <2>2, <2>3, <2>4 DEF FeedStep, TypeOK, runtimeVars, imageVars
<1>4. CASE MakeFrame
  <2>1. /\ pc' \in Places /\ image' \in 0 .. NumImages
        /\ taken' \in AppFrames \cup {Blank}
    BY <1>4 DEF MakeFrame, Places
  <2>2. began' \in BOOLEAN /\ layer' \in BOOLEAN
    BY <1>4, Zenon DEF MakeFrame
  <2>3. UNCHANGED <<runtimeVars, chain, running, useFrameLoop, texture, uploaded,
                    failures, feedVars>>
    BY <1>4 DEF MakeFrame
  <2> QED
    BY <2>1, <2>2, <2>3 DEF runtimeVars, feedVars, TypeOK
<1>5. CASE PumpEvent
  <2>1. /\ Head(events) \in EventKinds
        /\ Tail(events) \in Seq(EventKinds)
    BY <1>5, HeadTailProperties DEF PumpEvent, TypeOK
  <2>2. running' \in BOOLEAN
    BY <1>5, Zenon
    DEF PumpEvent, HandleSessionState, OnReady, OnStopping, OnEnd, TypeOK
  <2>3. failures' \in 0 .. MaxFailures
    BY <1>5, FailsType
    DEF PumpEvent, HandleSessionState, OnReady, OnStopping, OnEnd, TypeOK
  <2>4. /\ rt' \in {"idle", "ready", "running", "stopping", "gone"}
        /\ frame' \subseteq {"waited", "begun"}
    BY <1>5
    DEF PumpEvent, HandleSessionState, OnReady, OnStopping, OnEnd, TypeOK
  <2> QED
    BY <1>5, <2>1, <2>2, <2>3, <2>4 DEF PumpEvent, TypeOK, imageVars, feedVars
<1>6. CASE PumpDone
  BY <1>6 DEF PumpDone, WithoutFrame, runtimeVars, imageVars, feedVars, TypeOK, Places
<1>7. CASE WaitFrame
  <2>1. useFrameLoop' \in BOOLEAN /\ began' \in BOOLEAN
    BY <1>7, Zenon DEF WaitFrame, TypeOK
  <2>2. failures' \in 0 .. MaxFailures
    BY <1>7, FailsType DEF WaitFrame, TypeOK
  <2>3. frame' \subseteq {"waited", "begun"} /\ pc' \in Places
    BY <1>7 DEF WaitFrame, TypeOK, Places
  <2>4. UNCHANGED shown
    BY <1>7 DEF WaitFrame
  <2>5. FrameStep
    BY <1>7 DEF WaitFrame
  <2> QED
    BY <2>1, <2>2, <2>3, <2>4, <2>5
    DEF FrameStep, TypeOK, swapVars, imageVars, feedVars
<1>8. CASE WaitDiscarded
  <2>1. useFrameLoop' \in BOOLEAN /\ began' \in BOOLEAN
    BY <1>8, Zenon DEF WaitDiscarded, TypeOK
  <2>2. failures' \in 0 .. MaxFailures
    BY <1>8, FailsType DEF WaitDiscarded, TypeOK
  <2>3. frame' \subseteq {"waited", "begun"} /\ pc' \in Places
    BY <1>8 DEF WaitDiscarded, TypeOK, Places
  <2>4. UNCHANGED shown
    BY <1>8 DEF WaitDiscarded
  <2>5. FrameStep
    BY <1>8 DEF WaitDiscarded
  <2> QED
    BY <2>1, <2>2, <2>3, <2>4, <2>5
    DEF FrameStep, TypeOK, swapVars, imageVars, feedVars
<1>9. CASE WaitFails
  <2>1. useFrameLoop' \in BOOLEAN /\ began' \in BOOLEAN
    BY <1>9, Zenon DEF WaitFails, TypeOK
  <2>2. failures' \in 0 .. MaxFailures
    BY <1>9, FailsType DEF WaitFails, TypeOK
  <2>3. frame' \subseteq {"waited", "begun"} /\ pc' \in Places
    BY <1>9 DEF WaitFails, WithoutFrame, TypeOK, Places
  <2>4. UNCHANGED shown
    BY <1>9 DEF WaitFails
  <2>5. FrameStep
    BY <1>9 DEF WaitFails
  <2> QED
    BY <2>1, <2>2, <2>3, <2>4, <2>5
    DEF FrameStep, TypeOK, swapVars, imageVars, feedVars
<1>10. CASE BeginFrame
  <2>1. useFrameLoop' \in BOOLEAN /\ began' \in BOOLEAN
    BY <1>10, Zenon DEF BeginFrame, TypeOK
  <2>2. failures' \in 0 .. MaxFailures
    BY <1>10, FailsType DEF BeginFrame, TypeOK
  <2>3. frame' \subseteq {"waited", "begun"} /\ pc' \in Places
    BY <1>10 DEF BeginFrame, TypeOK, Places
  <2>4. UNCHANGED shown
    BY <1>10 DEF BeginFrame
  <2>5. FrameStep
    BY <1>10 DEF BeginFrame
  <2> QED
    BY <2>1, <2>2, <2>3, <2>4, <2>5
    DEF FrameStep, TypeOK, swapVars, imageVars, feedVars
<1>11. CASE BeginRejected
  <2>1. useFrameLoop' \in BOOLEAN /\ began' \in BOOLEAN
    BY <1>11, Zenon DEF BeginRejected, TypeOK
  <2>2. failures' \in 0 .. MaxFailures
    BY <1>11, FailsType DEF BeginRejected, TypeOK
  <2>3. frame' \subseteq {"waited", "begun"} /\ pc' \in Places
    BY <1>11 DEF BeginRejected, TypeOK, Places
  <2>4. UNCHANGED shown
    BY <1>11 DEF BeginRejected
  <2>5. FrameStep
    BY <1>11 DEF BeginRejected
  <2> QED
    BY <2>1, <2>2, <2>3, <2>4, <2>5
    DEF FrameStep, TypeOK, swapVars, imageVars, feedVars
<1>12. CASE BeginFails
  <2>1. useFrameLoop' \in BOOLEAN /\ began' \in BOOLEAN
    BY <1>12, Zenon DEF BeginFails, TypeOK
  <2>2. failures' \in 0 .. MaxFailures
    BY <1>12, FailsType DEF BeginFails, TypeOK
  <2>3. frame' \subseteq {"waited", "begun"} /\ pc' \in Places
    BY <1>12 DEF BeginFails, TypeOK, Places
  <2>4. UNCHANGED shown
    BY <1>12 DEF BeginFails
  <2>5. FrameStep
    BY <1>12 DEF BeginFails
  <2> QED
    BY <2>1, <2>2, <2>3, <2>4, <2>5
    DEF FrameStep, TypeOK, swapVars, imageVars, feedVars
<1>13. CASE Locate
  <2>1. useFrameLoop' \in BOOLEAN /\ began' \in BOOLEAN
    BY <1>13, Zenon DEF Locate, TypeOK
  <2>2. failures' \in 0 .. MaxFailures
    BY <1>13, FailsType DEF Locate, TypeOK
  <2>3. frame' \subseteq {"waited", "begun"} /\ pc' \in Places
    BY <1>13 DEF Locate, TypeOK, Places
  <2>4. UNCHANGED shown
    BY <1>13 DEF Locate
  <2>5. FrameStep
    BY <1>13 DEF Locate
  <2> QED
    BY <2>1, <2>2, <2>3, <2>4, <2>5
    DEF FrameStep, TypeOK, swapVars, imageVars, feedVars
<1>14. CASE EndFrame
  <2>1. useFrameLoop' \in BOOLEAN /\ began' \in BOOLEAN
    BY <1>14, Zenon DEF EndFrame, TypeOK
  <2>2. failures' \in 0 .. MaxFailures
    BY <1>14, FailsType DEF EndFrame, TypeOK
  <2>3. frame' \subseteq {"waited", "begun"} /\ pc' \in Places
    BY <1>14 DEF EndFrame, TypeOK, Places
  <2>4. shown' \in 0 .. NumImages
    <3>1. 0 \in 0 .. NumImages /\ released \in 0 .. NumImages
      BY DEF TypeOK
    <3> QED
      BY <1>14, <3>1, Zenon DEF EndFrame
  <2>5. FrameStep
    BY <1>14 DEF EndFrame
  <2> QED
    BY <2>1, <2>2, <2>3, <2>4, <2>5
    DEF FrameStep, TypeOK, swapVars, imageVars, feedVars
<1>15. CASE EndFails
  <2>1. useFrameLoop' \in BOOLEAN /\ began' \in BOOLEAN
    BY <1>15, Zenon DEF EndFails, TypeOK
  <2>2. failures' \in 0 .. MaxFailures
    BY <1>15, FailsType DEF EndFails, TypeOK
  <2>3. frame' \subseteq {"waited", "begun"} /\ pc' \in Places
    BY <1>15 DEF EndFails, TypeOK, Places
  <2>4. UNCHANGED shown
    BY <1>15 DEF EndFails
  <2>5. FrameStep
    BY <1>15 DEF EndFails
  <2> QED
    BY <2>1, <2>2, <2>3, <2>4, <2>5
    DEF FrameStep, TypeOK, swapVars, imageVars, feedVars
<1>16. CASE AcquireImage
  <2>1. failures' \in 0 .. MaxFailures
    BY <1>16, FailsType DEF AcquireImage, TypeOK
  <2>2. /\ acquired' \in Seq([image : Images, waited : BOOLEAN])
        /\ image' \in 0 .. NumImages /\ UNCHANGED <<released, layer>>
    <3>1. PICK i \in Images :
              /\ acquired' = Append(acquired, [image |-> i, waited |-> FALSE])
              /\ image' = i
      BY <1>16 DEF AcquireImage
    <3>2. [image |-> i, waited |-> FALSE] \in [image : Images, waited : BOOLEAN]
      BY Zenon
    <3>3. i \in 0 .. NumImages
      BY DEF Images
    <3> QED
      BY <1>16, <3>1, <3>2, <3>3, AppendProperties DEF AcquireImage, TypeOK
  <2>3. UNCHANGED imageVars
    BY <1>16 DEF AcquireImage
  <2>4. pc' \in Places /\ LayerStep
    BY <1>16 DEF AcquireImage, Places
  <2> QED
    BY <2>1, <2>2, <2>3, <2>4
    DEF LayerStep, TypeOK, swapVars, imageVars, feedVars
<1>17. CASE AcquireFails
  <2>1. failures' \in 0 .. MaxFailures
    BY <1>17, FailsType DEF AcquireFails, TypeOK
  <2>2. UNCHANGED swapVars
    BY <1>17 DEF AcquireFails
  <2>3. UNCHANGED imageVars
    BY <1>17 DEF AcquireFails
  <2>4. pc' \in Places /\ LayerStep
    BY <1>17 DEF AcquireFails, Places
  <2> QED
    BY <2>1, <2>2, <2>3, <2>4
    DEF LayerStep, TypeOK, swapVars, imageVars, feedVars
<1>18. CASE WaitImage
  <2>1. failures' \in 0 .. MaxFailures
    BY <1>18, FailsType DEF WaitImage, TypeOK
  <2>2. /\ acquired' \in Seq([image : Images, waited : BOOLEAN])
        /\ UNCHANGED <<released, image, layer>>
    BY <1>18, MarkType DEF WaitImage, TypeOK
  <2>3. UNCHANGED imageVars
    BY <1>18 DEF WaitImage
  <2>4. pc' \in Places /\ LayerStep
    BY <1>18 DEF WaitImage, Places
  <2> QED
    BY <2>1, <2>2, <2>3, <2>4
    DEF LayerStep, TypeOK, swapVars, imageVars, feedVars
<1>19. CASE WaitImageFails
  <2>1. failures' \in 0 .. MaxFailures
    BY <1>19, FailsType DEF WaitImageFails, TypeOK
  <2>2. UNCHANGED swapVars
    BY <1>19 DEF WaitImageFails
  <2>3. UNCHANGED imageVars
    BY <1>19 DEF WaitImageFails
  <2>4. pc' \in Places /\ LayerStep
    BY <1>19 DEF WaitImageFails, Places
  <2> QED
    BY <2>1, <2>2, <2>3, <2>4
    DEF LayerStep, TypeOK, swapVars, imageVars, feedVars
<1>20. CASE FillTexture
  <2>1. failures' \in 0 .. MaxFailures
    BY <1>20, FailsType DEF FillTexture, TypeOK
  <2>2. UNCHANGED swapVars
    BY <1>20 DEF FillTexture
  <2>3. /\ texture' \in [Images -> [Spots -> Pictures]]
        /\ uploaded' \in [Images -> 0 .. NoSeq]
        /\ taken' \in AppFrames \cup {Blank}
    <3>1. store \in Pictures /\ Pattern \in Pictures /\ store.seq \in 0 .. NoSeq
      BY DEF TypeOK, Pictures, AppFrames, Blank, NoSeq
    <3>2. texture' \in [Images -> [Spots -> Pictures]]
      <4>1. UNCHANGED texture \/ CopyBox \/ DrawPattern
        BY <1>20, Zenon DEF FillTexture, Upload, KeepTexture
      <4> QED
        BY <4>1, FilledType DEF TypeOK
    <3>3. \/ uploaded' = uploaded
          \/ \E x \in 0 .. NoSeq : uploaded' = [uploaded EXCEPT ![image] = x]
      BY <1>20, <3>1 DEF FillTexture, Upload, DrawPattern, KeepTexture
    <3>4. taken' = store
      BY <1>20 DEF FillTexture
    <3>5. /\ uploaded \in [Images -> 0 .. NoSeq]
          /\ store \in AppFrames \cup {Blank}
      BY DEF TypeOK
    <3>6. uploaded' \in [Images -> 0 .. NoSeq]
      BY <3>3, <3>5
    <3> QED
      BY <3>2, <3>4, <3>5, <3>6
  <2>4. pc' \in Places /\ LayerStep
    BY <1>20 DEF FillTexture, Places
  <2> QED
    BY <2>1, <2>2, <2>3, <2>4
    DEF LayerStep, TypeOK, swapVars, imageVars, feedVars
<1>21. CASE ReleaseImage
  <2>1. failures' \in 0 .. MaxFailures
    BY <1>21, FailsType DEF ReleaseImage, TypeOK
  <2>2. /\ acquired' \in Seq([image : Images, waited : BOOLEAN])
        /\ released' \in 0 .. NumImages /\ image' \in 0 .. NumImages
        /\ layer' \in BOOLEAN
    <3>1. acquired # <<>>
      BY <1>21 DEF ReleaseImage, WaitedPlaces
    <3>2. /\ acquired[1] \in [image : Images, waited : BOOLEAN]
          /\ Tail(acquired) \in Seq([image : Images, waited : BOOLEAN])
      <4>1. acquired \in Seq([image : Images, waited : BOOLEAN])
        BY DEF TypeOK
      <4>2. 1 \in 1 .. Len(acquired)
        BY <3>1, <4>1, EmptySeq
      <4> QED
        BY <3>1, <4>1, <4>2, HeadTailProperties, ElementOfSeq, Zenon
    <3>3. layer' \in BOOLEAN
      BY <1>21, Zenon DEF ReleaseImage
    <3>4. acquired[1].image \in 0 .. NumImages
      BY <3>2 DEF Images
    <3> QED
      BY <1>21, <3>2, <3>3, <3>4 DEF ReleaseImage, TypeOK
  <2>3. UNCHANGED imageVars
    BY <1>21 DEF ReleaseImage
  <2>4. pc' \in Places /\ LayerStep
    BY <1>21 DEF ReleaseImage, Places
  <2> QED
    BY <2>1, <2>2, <2>3, <2>4
    DEF LayerStep, TypeOK, swapVars, imageVars, feedVars
<1>22. CASE ReleaseFails
  <2>1. failures' \in 0 .. MaxFailures
    BY <1>22, FailsType DEF ReleaseFails, TypeOK
  <2>2. UNCHANGED swapVars
    BY <1>22 DEF ReleaseFails
  <2>3. UNCHANGED imageVars
    BY <1>22 DEF ReleaseFails
  <2>4. pc' \in Places /\ LayerStep
    BY <1>22 DEF ReleaseFails, Places
  <2> QED
    BY <2>1, <2>2, <2>3, <2>4
    DEF LayerStep, TypeOK, swapVars, imageVars, feedVars
<1> QED
  BY <1>1, <1>2, <1>3, <1>4, <1>5, <1>6, <1>7, <1>8, <1>9, <1>10, <1>11, <1>12, <1>13, <1>14, <1>15, <1>16, <1>17, <1>18, <1>19, <1>20, <1>21, <1>22 DEF Next, Host

\* Every variable of the bridge keeps its type.
THEOREM TypeCorrect == Spec => []TypeOK
<1>1. Init => LayerHasImage
  BY Zenon DEF Init, LayerHasImage
<1>2. QED
  BY <1>1, TypeInit, TypeStep, LayerImage, PTL DEF Spec
-----------------------------------------------------------------------------
(***************************************************************************)
(* The session: the flag, the runtime and the events between them.         *)
(***************************************************************************)
\* The runtime changes its state and queues the event that says so.
LEMMA SessionRuntime ==
    ASSUME TypeOK, RunningAgrees, EventsTell, HostRuntime
    PROVE  RunningAgrees' /\ EventsTell'
<1> DEFINE n == Len(events)
<1>1. /\ n \in Nat /\ DOMAIN events = 1 .. n
      /\ events \in Seq(EventKinds)
  BY LenProperties DEF TypeOK
<1>2. ASSUME NEW e \in EventKinds, events' = Append(events, e)
      PROVE  /\ DOMAIN events' = 1 .. n + 1
             /\ \A k \in 1 .. n : events'[k] = events[k]
             /\ events'[n + 1] = e
  BY <1>1, <1>2, AppendProperties, LenProperties
<1>3. \A k : k \in 1 .. n + 1 <=> k \in 1 .. n \/ k = n + 1
  BY <1>1
<1> HIDE DEF n
<1>4. UNCHANGED <<pc, running>>
  BY DEF HostRuntime
<1>5. CASE RuntimeReady
  <2>1. rt = "idle" /\ rt' = "ready" /\ events' = Append(events, "READY")
    BY <1>5 DEF RuntimeReady
  <2>2. /\ DOMAIN events' = 1 .. n + 1
        /\ \A k \in 1 .. n : events'[k] = events[k]
        /\ events'[n + 1] = "READY"
    BY <1>2, <2>1 DEF EventKinds
  <2> QED
    BY <1>1, <1>3, <1>4, <2>1, <2>2 DEF RunningAgrees, EventsTell, EndKinds
<1>6. CASE RuntimeStops
  <2>1. rt = "running" /\ rt' = "stopping" /\ events' = Append(events, "STOPPING")
    BY <1>6 DEF RuntimeStops
  <2>2. /\ DOMAIN events' = 1 .. n + 1
        /\ \A k \in 1 .. n : events'[k] = events[k]
        /\ events'[n + 1] = "STOPPING"
    BY <1>2, <2>1 DEF EventKinds
  <2> QED
    BY <1>1, <1>3, <1>4, <2>1, <2>2 DEF RunningAgrees, EventsTell, EndKinds
<1>7. CASE RuntimeEnds
  <2>1. PICK e \in EndKinds : rt' = "gone" /\ events' = Append(events, e)
    BY <1>7 DEF RuntimeEnds, EndKinds
  <2>2. /\ DOMAIN events' = 1 .. n + 1
        /\ \A k \in 1 .. n : events'[k] = events[k]
        /\ events'[n + 1] = e /\ e # "STOPPING"
    BY <1>2, <2>1 DEF EventKinds, EndKinds
  <2>3. \E k \in DOMAIN events' : events'[k] \in EndKinds
    BY <1>3, <2>1, <2>2
  <2>4. RunningAgrees'
    BY <1>4, <2>1 DEF RunningAgrees
  <2> QED
    BY <1>1, <1>3, <1>4, <2>1, <2>2, <2>3, <2>4 DEF EventsTell
<1> QED
  BY <1>5, <1>6, <1>7 DEF HostRuntime

\* The bridge polls an event and acts on it.
LEMMA SessionPump ==
    ASSUME TypeOK, RunningAgrees, EventsTell, PumpEvent
    PROVE  RunningAgrees' /\ EventsTell'
<1> DEFINE n == Len(events)
<1>1. /\ n \in Nat /\ DOMAIN events = 1 .. n /\ n >= 1
      /\ Head(events) = events[1]
      /\ DOMAIN events' = 1 .. n - 1
      /\ \A k \in 1 .. n - 1 : events'[k] = events[k + 1]
  <2>1. /\ events \in Seq(EventKinds) /\ events # <<>> /\ events' = Tail(events)
    BY DEF PumpEvent, TypeOK
  <2>2. /\ n \in Nat /\ DOMAIN events = 1 .. n /\ n # 0
        /\ events' \in Seq(EventKinds) /\ Len(events') = n - 1
        /\ \A k \in 1 .. n - 1 : events'[k] = events[k + 1]
    BY <2>1, EmptySeq, LenProperties, HeadTailProperties
  <2>3. DOMAIN events' = 1 .. n - 1
    BY <2>2, LenProperties
  <2>4. Head(events) = events[1]
    BY <2>1
  <2> QED
    BY <2>2, <2>3, <2>4
<1>2. \A k : k \in 1 .. n - 1 => k + 1 \in 1 .. n /\ k + 1 # 1
  BY <1>1
<1>3. \A k : k \in 1 .. n /\ k # 1 => k - 1 \in 1 .. n - 1 /\ (k - 1) + 1 = k
  BY <1>1
<1>4. \A j, k \in 1 .. n - 1 : j + 1 = k + 1 => j = k
  BY <1>1
<1>5. 1 \in DOMAIN events
  BY <1>1
<1> HIDE DEF n
<1>6. pc = "pump" /\ pc' = "pump" /\ HandleSessionState(events[1])
  BY <1>1 DEF PumpEvent
<1>7. (\E k \in DOMAIN events : events[k] \in EndKinds) /\ events[1] \notin EndKinds
          => \E k \in DOMAIN events' : events'[k] \in EndKinds
  <2> SUFFICES ASSUME NEW k \in DOMAIN events, events[k] \in EndKinds,
                      events[1] \notin EndKinds
               PROVE  \E j \in DOMAIN events' : events'[j] \in EndKinds
    OBVIOUS
  <2>1. k \in 1 .. n /\ k # 1
    BY <1>1
  <2>2. k - 1 \in DOMAIN events' /\ events'[k - 1] = events[k]
    BY <1>1, <1>3, <2>1
  <2> QED
    BY <2>2
<1>8. CASE events[1] = "READY" /\ OnReady
  <2>1. events[1] \notin EndKinds
    BY <1>8 DEF EndKinds
  <2>2. \/ rt = "ready" /\ rt' = "running" /\ running' = TRUE
        \/ rt' = rt /\ running' = running /\ ~running
    BY <1>8, Zenon DEF OnReady
  <2> QED
    BY <1>1, <1>2, <1>4, <1>6, <1>7, <2>1, <2>2 DEF RunningAgrees, EventsTell
<1>9. CASE events[1] = "STOPPING" /\ OnStopping
  <2>1. \A k \in 1 .. n - 1 : events'[k] # "STOPPING"
    BY <1>1, <1>2, <1>5, <1>9 DEF EventsTell
  <2>2. rt \in {"stopping", "gone"} /\ running' = FALSE
    BY <1>5, <1>9 DEF EventsTell, OnStopping
  <2>3. rt' = "gone" <=> rt = "gone"
    BY <1>9, <2>2 DEF OnStopping
  <2>4. rt' # "running"
    BY <1>9, <2>2 DEF OnStopping
  <2> QED
    BY <1>1, <1>2, <1>6, <2>1, <2>2, <2>3, <2>4
    DEF RunningAgrees, EventsTell
<1>10. CASE events[1] \in {"EXITING", "LOSS_PENDING"} /\ OnEnd
  <2>1. rt = "gone" /\ rt' = "gone" /\ running' = FALSE
    BY <1>5, <1>10 DEF EventsTell, EndKinds, OnEnd
  <2> QED
    BY <1>1, <1>2, <1>4, <1>6, <2>1 DEF RunningAgrees, EventsTell
<1>11. CASE /\ \/ events[1] = "READY" /\ running
               \/ events[1] = "STOPPING" /\ ~running
            /\ UNCHANGED <<rt, frame, running, failures>>
  <2>1. events[1] \notin EndKinds
    BY <1>11 DEF EndKinds
  <2> QED
    BY <1>1, <1>2, <1>4, <1>6, <1>7, <1>11, <2>1 DEF RunningAgrees, EventsTell
<1> QED
  BY <1>6, <1>8, <1>9, <1>10, <1>11 DEF HandleSessionState

LEMMA SessionStep ==
    ASSUME TypeOK, RunningAgrees, EventsTell, [Next]_vars
    PROVE  RunningAgrees' /\ EventsTell'
<1>1. CASE HostRuntime
  BY <1>1, SessionRuntime
<1>2. CASE PumpEvent
  BY <1>2, SessionPump
<1>3. CASE UNCHANGED vars \/ Feed
  <2>1. UNCHANGED <<rt, events, running, pc>>
    BY <1>3 DEF Feed, StoreFromTcp, StoreFromUdp, RestartApp, FeedStep,
                runtimeVars, vars
  <2> QED
    BY <2>1 DEF RunningAgrees, EventsTell
<1>4. ASSUME Host, ~PumpEvent
      PROVE  /\ UNCHANGED <<rt, events, running>>
             /\ pc' \in Places \ {"asleep", "pump"} => running
  <2>1. CASE MakeFrame
    BY <2>1 DEF MakeFrame, runtimeVars
  <2>2. CASE PumpDone
    BY <2>2 DEF PumpDone, runtimeVars
  <2>3. CASE \/ WaitFrame \/ WaitDiscarded \/ WaitFails
             \/ BeginFrame \/ BeginRejected \/ BeginFails
             \/ Locate \/ EndFrame \/ EndFails
    <3>1. FrameStep /\ pc \in Places \ {"asleep", "pump"}
      BY <2>3 DEF WaitFrame, WaitDiscarded, WaitFails, BeginFrame, BeginRejected,
                  BeginFails, Locate, EndFrame, EndFails, Places
    <3> QED
      BY <3>1, Zenon DEF FrameStep, RunningAgrees
  <2>4. CASE \/ AcquireImage \/ AcquireFails \/ WaitImage \/ WaitImageFails
             \/ FillTexture \/ ReleaseImage \/ ReleaseFails
    <3>1. LayerStep /\ pc \in Places \ {"asleep", "pump"}
      BY <2>4 DEF AcquireImage, AcquireFails, WaitImage, WaitImageFails,
                  FillTexture, ReleaseImage, ReleaseFails, Places
    <3> QED
      BY <3>1, Zenon DEF LayerStep, RunningAgrees
  <2> QED
    BY <1>4, <2>1, <2>2, <2>3, <2>4 DEF Host
<1>5. CASE Host /\ ~PumpEvent
  BY <1>4, <1>5 DEF RunningAgrees, EventsTell
<1> QED
  BY <1>1, <1>2, <1>3, <1>5 DEF Next

LEMMA SessionInit == Init => RunningAgrees /\ EventsTell
  BY DEF Init, RunningAgrees, EventsTell, Places

\* The bridge calls the runtime only in a running session, and every running
\* session is served.
THEOREM SessionInStep == Spec => []RunningAgrees
<1>1. Init => LayerHasImage
  BY Zenon DEF Init, LayerHasImage
<1>2. QED
  BY <1>1, TypeInit, TypeStep, LayerImage, SessionInit, SessionStep, PTL DEF Spec
-----------------------------------------------------------------------------
(***************************************************************************)
(* The frame calls.                                                        *)
(***************************************************************************)
FrameInv == FrameCallsInOrder /\ NothingLeftBegun

\* A count that fails is not 0, and a runtime that is gone stays gone.
LEMMA FailsOnce ==
    ASSUME failures \in 0 .. MaxFailures, CallFails
    PROVE  failures' = 0 => failures = 0 /\ rt = "gone"
  BY HostAssumption DEF CallFails

\* The events that are polled end a frame or leave it.
LEMMA FramePump ==
    ASSUME TypeOK, FrameInv, PumpEvent
    PROVE  FrameInv'
<1>1. pc = "pump" /\ UNCHANGED <<pc, useFrameLoop, began>>
  BY DEF PumpEvent
<1>2. (frame' = frame \/ frame' = {}) /\ (rt = "gone" => rt' = "gone")
  BY DEF PumpEvent, HandleSessionState, OnReady, OnStopping, OnEnd
<1>3. failures' = 0 => failures = 0
  BY FailsOnce
  DEF PumpEvent, HandleSessionState, OnReady, OnStopping, OnEnd, TypeOK
<1>4. ("begun" \in frame' => "begun" \in frame) /\ (frame = {} => frame' = {})
  BY <1>2
<1> QED
  BY <1>1, <1>2, <1>3, <1>4, Zenon
  DEF FrameInv, FrameCallsInOrder, NothingLeftBegun, Between, LayerPlaces

LEMMA FrameStepInv ==
    ASSUME TypeOK, RunningAgrees, EventsTell, FrameInv, [Next]_vars
    PROVE  FrameInv'
<1> USE DEF FrameInv, FrameCallsInOrder, NothingLeftBegun, Between, LayerPlaces
<1>1. CASE UNCHANGED vars \/ Feed
  <2>1. UNCHANGED <<rt, frame, pc, useFrameLoop, began, failures>>
    BY <1>1 DEF Feed, StoreFromTcp, StoreFromUdp, RestartApp, FeedStep,
                runtimeVars, vars
  <2> QED
    BY <2>1
<1>2. CASE HostRuntime
  <2>1. UNCHANGED <<frame, pc, useFrameLoop, began, failures>>
    BY <1>2 DEF HostRuntime
  <2>2. rt = "gone" => rt' = "gone"
    BY <1>2 DEF HostRuntime, RuntimeReady, RuntimeStops, RuntimeEnds
  <2> QED
    BY <2>1, <2>2
<1>3. CASE MakeFrame
  BY <1>3 DEF MakeFrame, runtimeVars
<1>4. CASE PumpEvent
  BY <1>4, FramePump
<1>5. CASE PumpDone
  <2>1. UNCHANGED <<rt, frame, useFrameLoop, began, failures>> /\ pc = "pump"
    BY <1>5 DEF PumpDone, runtimeVars
  <2>2. running => rt # "gone"
    BY <1>5 DEF PumpDone, EventsTell
  <2>3. CASE ~running
    <3>1. pc' = "asleep"
      BY <1>5, <2>3 DEF PumpDone
    <3> QED
      BY <2>1, <3>1
  <2>4. CASE running /\ useFrameLoop
    <3>1. pc' = "wait"
      BY <1>5, <2>4 DEF PumpDone
    <3> QED
      BY <2>1, <2>2, <2>4, <3>1
  <2>5. CASE running /\ ~useFrameLoop
    <3>1. pc' = "locate" \/ pc' = "asleep"
      BY <1>5, <2>5 DEF PumpDone, WithoutFrame
    <3> QED
      BY <2>1, <2>5, <3>1
  <2> QED
    BY <2>3, <2>4, <2>5
<1>6. CASE WaitFrame
  <2>1. frame' = {"waited"}
    BY <1>6 DEF WaitFrame, TypeOK
  <2> QED
    BY <1>6, <2>1 DEF WaitFrame, FrameStep
<1>7. CASE WaitDiscarded
  <2>1. /\ pc = "wait" /\ pc' = "asleep"
        /\ UNCHANGED <<rt, frame, useFrameLoop, began>>
        /\ failures' = 0 => failures = 0 /\ rt = "gone"
    BY <1>7, FailsOnce DEF WaitDiscarded, FrameStep, TypeOK
  <2> QED
    BY <2>1
<1>8. CASE WaitFails
  <2>1. /\ pc = "wait" /\ pc' \in {"locate", "asleep"}
        /\ UNCHANGED <<rt, frame, began>> /\ ~useFrameLoop'
    BY <1>8 DEF WaitFails, FrameStep, WithoutFrame
  <2>2. failures' = 0 => failures = 0 /\ (rt = "gone" \/ "waited" \in frame)
    BY <1>8, FailsOnce DEF WaitFails, TypeOK
  <2> QED
    BY <2>1, <2>2
<1>9. CASE BeginFrame
  BY <1>9 DEF BeginFrame, FrameStep
<1>10. CASE BeginRejected
  <2>1. /\ pc = "begin" /\ pc' = "locate" /\ UNCHANGED <<rt, frame, began>>
        /\ ~useFrameLoop' /\ (failures' = 0 => rt = "gone")
    BY <1>10, FailsOnce DEF BeginRejected, FrameStep, TypeOK
  <2> QED
    BY <2>1
<1>11. CASE BeginFails
  <2>1. /\ pc = "begin" /\ pc' = "asleep" /\ UNCHANGED <<rt, began>>
        /\ failures' = 0 => rt = "gone"
    BY <1>11, FailsOnce DEF BeginFails, FrameStep, TypeOK
  <2>2. frame' = {"waited"} \/ (rt = "gone" /\ frame' = {"begun"})
    BY <1>11 DEF BeginFails
  <2> QED
    BY <2>1, <2>2
<1>12. CASE Locate
  <2>1. /\ pc = "locate" /\ UNCHANGED <<rt, frame, useFrameLoop, began, failures>>
    BY <1>12 DEF Locate, FrameStep
  <2>2. CASE began
    <3>1. pc' \in {"end", "acquire"}
      BY <1>12, <2>2 DEF Locate
    <3> QED
      BY <2>1, <2>2, <3>1
  <2>3. CASE ~began
    <3>1. pc' = "asleep"
      BY <1>12, <2>3 DEF Locate
    <3> QED
      BY <2>1, <2>3, <3>1
  <2> QED
    BY <2>2, <2>3
<1>13. CASE EndFrame
  <2>1. /\ frame' = {} /\ pc' = "asleep"
        /\ UNCHANGED <<rt, useFrameLoop, failures>>
    BY <1>13 DEF EndFrame, FrameStep
  <2> QED
    BY <2>1
<1>14. CASE EndFails
  <2>1. /\ pc = "end" /\ pc' = "asleep" /\ ~useFrameLoop' /\ UNCHANGED rt
        /\ failures' = 0 => rt = "gone"
    BY <1>14, FailsOnce DEF EndFails, FrameStep, TypeOK
  <2> QED
    BY <2>1
<1>15. CASE \/ AcquireImage \/ AcquireFails \/ WaitImage \/ WaitImageFails
            \/ FillTexture \/ ReleaseImage \/ ReleaseFails
  <2>1. /\ pc \in LayerPlaces /\ pc' \in LayerPlaces
        /\ UNCHANGED <<rt, frame, useFrameLoop, began>>
    BY <1>15 DEF AcquireImage, AcquireFails, WaitImage, WaitImageFails,
                 FillTexture, ReleaseImage, ReleaseFails, LayerStep
  <2>2. failures' = 0 => failures = 0
    BY <1>15, FailsOnce
    DEF AcquireImage, AcquireFails, WaitImage, WaitImageFails, FillTexture,
        ReleaseImage, ReleaseFails, TypeOK
  <2> QED
    BY <2>1, <2>2
<1> QED
  BY <1>1, <1>2, <1>3, <1>4, <1>5, <1>6, <1>7, <1>8, <1>9, <1>10, <1>11, <1>12,
     <1>13, <1>14, <1>15
  DEF Next, Host

LEMMA FrameInit == Init => FrameInv
  BY DEF Init, FrameInv, FrameCallsInOrder, NothingLeftBegun, Between, LayerPlaces

\* The frame calls of the bridge come in order, whichever of them fail.
THEOREM FrameOrder == Spec => []FrameCallsInOrder
<1>1. Init => LayerHasImage
  BY Zenon DEF Init, LayerHasImage
<1>2. FrameInv => FrameCallsInOrder
  BY DEF FrameInv
<1>3. QED
  BY <1>1, <1>2, TypeInit, TypeStep, LayerImage, SessionInit, SessionStep,
     FrameInit, FrameStepInv, PTL DEF Spec
-----------------------------------------------------------------------------
(***************************************************************************)
(* The images.                                                             *)
(***************************************************************************)
FeedActions  == StoreFromTcp \/ StoreFromUdp \/ RestartApp
FrameActions == \/ WaitFrame \/ WaitDiscarded \/ WaitFails
                \/ BeginFrame \/ BeginRejected \/ BeginFails
                \/ Locate \/ EndFrame \/ EndFails

\* The steps outside update_projection_layer leave the swapchain, the
\* textures and the layer alone, except that a pass starts without a layer.
LEMMA OutsideLayer ==
    ASSUME TypeOK,
           UNCHANGED vars \/ HostRuntime \/ FeedActions \/ MakeFrame \/ PumpEvent
               \/ PumpDone \/ FrameActions
    PROVE  /\ UNCHANGED <<chain, acquired, released, texture, uploaded>>
           /\ UNCHANGED <<image, taken>> \/ (pc = "asleep" /\ pc' = "pump")
           /\ layer' => layer
           /\ layer' /\ pc \in {"asleep", "end"} /\ pc' # pc => pc' = "asleep"
           /\ failures' = 0 => failures = 0
           /\ rt' # "gone" => rt # "gone"
           /\ \/ pc' = pc
              \/ pc \in Between \cup {"begin", "locate", "end"}
                 /\ pc' \in Between \cup {"begin", "locate", "acquire", "end"}
           /\ pc' = "end" => pc = "end" \/ pc = "locate"
<1>1. CASE UNCHANGED vars
  BY <1>1 DEF vars
<1>2. CASE HostRuntime
  BY <1>2 DEF HostRuntime, RuntimeReady, RuntimeStops, RuntimeEnds, imageVars
<1>3. CASE FeedActions
  BY <1>3 DEF FeedActions, StoreFromTcp, StoreFromUdp, RestartApp, FeedStep,
              runtimeVars, imageVars
<1>4. CASE MakeFrame
  BY <1>4 DEF MakeFrame, runtimeVars, imageVars, Between
<1>5. CASE PumpEvent
  <2>1. failures' = 0 => failures = 0
    BY <1>5, FailsOnce
    DEF PumpEvent, HandleSessionState, OnReady, OnStopping, OnEnd, TypeOK
  <2>2. rt' # "gone" => rt # "gone"
    BY <1>5 DEF PumpEvent, HandleSessionState, OnReady, OnStopping, OnEnd
  <2> QED
    BY <1>5, <2>1, <2>2 DEF PumpEvent, imageVars
<1>6. CASE PumpDone
  BY <1>6 DEF PumpDone, WithoutFrame, runtimeVars, imageVars, Between
<1>7. CASE FrameActions
  <2>1. FrameStep
    BY <1>7 DEF FrameActions, WaitFrame, WaitDiscarded, WaitFails, BeginFrame,
                BeginRejected, BeginFails, Locate, EndFrame, EndFails
  <2>2. failures' = 0 => failures = 0
    BY <1>7, FailsOnce
    DEF FrameActions, WaitFrame, WaitDiscarded, WaitFails, BeginFrame,
        BeginRejected, BeginFails, Locate, EndFrame, EndFails, TypeOK
  <2>3. /\ pc \in {"wait", "begin", "locate", "end"}
        /\ pc' \in Between \cup {"begin", "locate", "acquire", "end"}
        /\ pc' = "end" => pc = "end" \/ pc = "locate"
    BY <1>7
    DEF FrameActions, WaitFrame, WaitDiscarded, WaitFails, BeginFrame,
        BeginRejected, BeginFails, Locate, EndFrame, EndFails, WithoutFrame,
        Between
  <2>4. UNCHANGED <<chain, acquired, released, image, texture, uploaded, taken,
                    layer, rt>>
    BY <2>1 DEF FrameStep, swapVars, imageVars
  <2>5. pc = "end" => pc' = "asleep"
    BY <1>7
    DEF FrameActions, WaitFrame, WaitDiscarded, WaitFails, BeginFrame,
        BeginRejected, BeginFails, Locate, EndFrame, EndFails
  <2> QED
    BY <2>2, <2>3, <2>4, <2>5 DEF Between
<1> QED
  BY <1>1, <1>2, <1>3, <1>4, <1>5, <1>6, <1>7

\* While no call fails none can have failed in this step.
LEMMA NoFailure ==
    ASSUME TypeOK, failures' = 0, rt' # "gone", UNCHANGED rt
    PROVE  ~CallFails
  BY FailsOnce DEF TypeOK

\* The one image acquired is marked as waited for.
LEMMA MarkOne ==
    ASSUME NEW S, NEW i \in S
    PROVE  [<<[image |-> i, waited |-> FALSE]>> EXCEPT ![1].waited = TRUE]
               = <<[image |-> i, waited |-> TRUE]>>
<1> DEFINE first == [image |-> i, waited |-> FALSE]
           marked == [first EXCEPT !.waited = TRUE]
<1>1. [<<first>> EXCEPT ![1].waited = TRUE] = [<<first>> EXCEPT ![1] = marked]
  BY Zenon
<1>2. ASSUME NEW x, NEW y PROVE [<<x>> EXCEPT ![1] = y] = <<y>>
  OBVIOUS
<1>3. [<<first>> EXCEPT ![1] = marked] = <<marked>>
  BY <1>2, Zenon
<1>4. ASSUME NEW r, r = marked PROVE r = [image |-> i, waited |-> TRUE]
  <2>1. r.image = i /\ r.waited = TRUE
    BY <1>4
  <2>2. r \in [image : S, waited : BOOLEAN]
    BY <1>4
  <2> QED
    BY <2>1, <2>2
<1> QED
  BY <1>1, <1>3, <1>4, Zenon

LEMMA ImageStep ==
    ASSUME TypeOK, ImageInStep, [Next]_vars
    PROVE  ImageInStep'
<1> SUFFICES ASSUME chain' = "ready", failures' = 0, rt' # "gone"
             PROVE  CASE pc' = "waitImage" ->
                             acquired' = <<[image |-> image', waited |-> FALSE]>>
                      [] pc' \in {"fill", "release"} ->
                             acquired' = <<[image |-> image', waited |-> TRUE]>>
                      [] OTHER -> acquired' = <<>>
  BY DEF ImageInStep
<1>1. CASE UNCHANGED vars \/ HostRuntime \/ FeedActions \/ MakeFrame
               \/ PumpEvent \/ PumpDone \/ FrameActions
  BY <1>1, OutsideLayer DEF ImageInStep, Between
<1>2. ASSUME LayerStep PROVE UNCHANGED <<rt, chain>>
  BY <1>2 DEF LayerStep
<1>3. CASE AcquireImage
  <2>1. acquired = <<>>
    BY <1>2, <1>3 DEF AcquireImage, ImageInStep
  <2>2. PICK i \in Images :
            /\ acquired' = Append(acquired, [image |-> i, waited |-> FALSE])
            /\ image' = i
    BY <1>3 DEF AcquireImage
  <2>3. acquired' = <<[image |-> image', waited |-> FALSE]>>
    BY <2>1, <2>2
  <2>4. pc' = "waitImage"
    BY <1>2, <1>3 DEF AcquireImage
  <2> QED
    BY <2>3, <2>4
<1>4. CASE AcquireFails
  <2>1. acquired = <<>> /\ ~CallFails
    BY <1>2, <1>4, NoFailure DEF AcquireFails, ImageInStep
  <2>2. Len(acquired) = 0
    BY <2>1, EmptySeq
  <2> QED
    BY <1>4, <2>1, <2>2, HostAssumption DEF AcquireFails
<1>5. CASE WaitImage
  <2>1. acquired = <<[image |-> image, waited |-> FALSE]>> /\ image' = image
    BY <1>2, <1>5 DEF WaitImage, ImageInStep
  <2>2. acquired' = <<[image |-> image, waited |-> TRUE]>>
    BY <1>5, <2>1, MarkOne DEF WaitImage, TypeOK
  <2> QED
    BY <1>5, <2>1, <2>2 DEF WaitImage
<1>6. CASE WaitImageFails
  <2>1. acquired = <<[image |-> image, waited |-> FALSE]>> /\ ~CallFails
    BY <1>2, <1>6, NoFailure DEF WaitImageFails, ImageInStep
  <2>2. WaitedPlaces = {}
    BY <2>1 DEF WaitedPlaces
  <2> QED
    BY <1>6, <2>1, <2>2 DEF WaitImageFails
<1>7. CASE FillTexture
  BY <1>2, <1>7 DEF FillTexture, swapVars, ImageInStep
<1>8. CASE ReleaseImage
  <2>1. acquired = <<[image |-> image, waited |-> TRUE]>>
    BY <1>2, <1>8, NoFailure DEF ReleaseImage, ImageInStep
  <2>2. acquired' = <<>>
    BY <1>8, <2>1 DEF ReleaseImage
  <2> QED
    BY <1>8, <2>2 DEF ReleaseImage
<1>9. CASE ReleaseFails
  BY <1>2, <1>9, NoFailure DEF ReleaseFails
<1> QED
  BY <1>1, <1>3, <1>4, <1>5, <1>6, <1>7, <1>8, <1>9
  DEF Next, Host, Feed, FeedActions, FrameActions

LEMMA ImageInit == Init => ImageInStep
  BY DEF Init, ImageInStep
-----------------------------------------------------------------------------
(***************************************************************************)
(* What the images hold.                                                   *)
(***************************************************************************)
NumberInv == NumbersTell /\ FilledIsSubmitted

\* A frame enters the store, or the application starts again.
LEMMA NumberFeed ==
    ASSUME TypeOK, NumberInv, FeedActions
    PROVE  NumberInv'
<1>1. UNCHANGED <<rt, chain, pc, image, layer, released, failures, texture,
                  uploaded, taken>>
  BY DEF FeedActions, StoreFromTcp, StoreFromUdp, RestartApp, FeedStep,
         runtimeVars, imageVars
<1>2. appRun \in Nat /\ appRun' \in Nat /\ appRun' >= appRun
  BY HostAssumption
  DEF FeedActions, StoreFromTcp, StoreFromUdp, RestartApp, TypeOK
<1>3. \/ store' = store /\ arrived' = arrived
      \/ store' = Blank /\ arrived' = Blank
      \/ \E r \in 1 .. appRun', s \in 0 .. MaxSeq :
            /\ arrived' = [run |-> r, seq |-> s]
            /\ store' \in {store, arrived'}
  <2>1. CASE StoreFromTcp
    <3>1. appRun \in 1 .. appRun /\ appRun' = appRun
      BY <2>1 DEF StoreFromTcp, TypeOK
    <3>2. CASE arrived' = Blank
      BY <2>1, <3>2 DEF StoreFromTcp
    <3>3. CASE arrived' # Blank
      <4>1. PICK s \in 0 .. MaxSeq : arrived' = [run |-> appRun, seq |-> s]
        BY <2>1, <3>3 DEF StoreFromTcp
      <4> QED
        BY <2>1, <3>1, <4>1 DEF StoreFromTcp
    <3> QED
      BY <3>2, <3>3
  <2>2. CASE StoreFromUdp
    BY <2>2 DEF StoreFromUdp
  <2>3. CASE RestartApp
    BY <2>3 DEF RestartApp
  <2> QED
    BY <2>1, <2>2, <2>3 DEF FeedActions
<1>4. store' # Blank => store'.run \in 1 .. appRun' /\ store'.seq \in 0 .. MaxSeq
  BY <1>2, <1>3 DEF NumberInv, NumbersTell
<1>5. arrived' # Blank => arrived'.run \in 1 .. appRun'
  BY <1>2, <1>3 DEF NumberInv, NumbersTell
<1>6. \A r \in 1 .. appRun : r \in 1 .. appRun'
  BY <1>2
<1>7. ASSUME NEW i \in Images, uploaded'[i] # NoSeq
      PROVE  Keeps(i, uploaded[i])' /\ uploaded'[i] = uploaded[i]
  <2>1. Keeps(i, uploaded[i])
    BY <1>1, <1>7 DEF NumberInv, NumbersTell
  <2> QED
    BY <1>1, <1>6, <2>1 DEF Keeps, Shows, ShowsPattern
<1>8. FilledIsSubmitted'
  BY <1>1, Zenon DEF NumberInv, FilledIsSubmitted, Took, ShowsPattern
<1> QED
  BY <1>4, <1>5, <1>7, <1>8 DEF NumberInv, NumbersTell

\* The image held is one of the swapchain.
LEMMA HeldIsImage ==
    ASSUME TypeOK, ImageInStep, chain = "ready", failures = 0, rt # "gone",
           pc \in {"fill", "release"}
    PROVE  /\ acquired = <<[image |-> image, waited |-> TRUE]>>
           /\ acquired[1].image = image
           /\ image \in Images
<1>1. acquired = <<[image |-> image, waited |-> TRUE]>>
  BY DEF ImageInStep
<1>2. acquired[1] = [image |-> image, waited |-> TRUE] /\ Len(acquired) = 1
  BY <1>1
<1>3. acquired[1] \in [image : Images, waited : BOOLEAN]
  <2>1. acquired \in Seq([image : Images, waited : BOOLEAN])
    BY DEF TypeOK
  <2>2. 1 \in 1 .. Len(acquired)
    BY <1>2
  <2> QED
    BY <2>1, <2>2, ElementOfSeq, Zenon
<1>4. acquired[1].image = image /\ acquired[1].image \in Images
  BY <1>2, <1>3
<1> QED
  BY <1>1, <1>4

\* What the pictures of an image say is kept where the image is not drawn.
LEMMA NotDrawn ==
    ASSUME UNCHANGED appRun, NEW i, texture'[i] = texture[i], NEW n
    PROVE  Keeps(i, n)' <=> Keeps(i, n)
  BY DEF Keeps, Shows, ShowsPattern

\* The frame of the store is in its box after the copy, and the pattern
\* everywhere once it is drawn.
LEMMA Drawn ==
    ASSUME TypeOK, image \in Images
    PROVE  /\ CopyBox /\ store # Blank => \A s \in Covers[store] : texture'[image][s] = store
           /\ DrawPattern => \A s \in Spots : texture'[image][s] = Pattern
<1>1. texture \in [Images -> [Spots -> Pictures]]
  BY DEF TypeOK
<1>2. ASSUME CopyBox, store # Blank
      PROVE  \A s \in Covers[store] : texture'[image][s] = store
  <2> DEFINE box == [s \in Spots |-> IF s \in Covers[store]
                                     THEN store ELSE texture[image][s]]
  <2>1. texture'[image] = box
    BY <1>1, <1>2 DEF CopyBox
  <2>2. Covers[store] \subseteq Spots
    BY <1>2, HostAssumption DEF TypeOK
  <2> QED
    BY <2>1, <2>2
<1>3. ASSUME DrawPattern
      PROVE  \A s \in Spots : texture'[image][s] = Pattern
  BY <1>1, <1>3 DEF DrawPattern
<1> QED
  BY <1>2, <1>3

\* An image is filled: with the frame of the store, the test pattern while
\* there is no frame or none with pixels, or not at all.
LEMMA NumberFill ==
    ASSUME TypeOK, ImageInStep, NumberInv, FillTexture
    PROVE  NumberInv'
<1>1. /\ UNCHANGED <<store, arrived, appRun, layer, image, rt, chain, failures>>
      /\ pc = "fill" /\ pc' = "release" /\ taken' = store
  BY DEF FillTexture, LayerStep, swapVars, feedVars
<1>2. store \in AppFrames \cup {Blank} /\ image \in 0 .. NumImages
  BY DEF TypeOK
<1>3. store # Blank => store.seq # NoSeq
  BY <1>2, Apart DEF AppFrames
<1>4. texture \in [Images -> [Spots -> Pictures]]
      /\ uploaded \in [Images -> 0 .. NoSeq]
  BY DEF TypeOK
<1>5. chain = "ready" /\ failures = 0 /\ rt # "gone" => image \in Images
  BY <1>1, HeldIsImage
<1>6. ~layer'
  BY <1>1 DEF NumberInv, FilledIsSubmitted
<1>7. \A i \in Images : uploaded[i] # NoSeq => Keeps(i, uploaded[i])
  BY DEF NumberInv, NumbersTell
<1>8. CASE /\ KeepTexture
           /\ chain = "untextured" \/ (store # Blank /\ store.seq = uploaded[image])
  <2>1. UNCHANGED <<texture, uploaded>>
    BY <1>8 DEF KeepTexture
  <2>2. NumbersTell'
    BY <1>1, <2>1 DEF NumberInv, NumbersTell, Keeps, Shows, ShowsPattern
  <2>3. chain = "ready" => Took(image)'
    BY <1>1, <1>8, <2>1 DEF Took
  <2> QED
    BY <1>1, <1>6, <2>2, <2>3 DEF NumberInv, FilledIsSubmitted
<1>9. CASE store = Blank /\ DrawPattern
  <2>1. /\ texture' = [texture EXCEPT ![image] = [s \in Spots |-> Pattern]]
        /\ UNCHANGED uploaded
    BY <1>9 DEF DrawPattern
  <2>2. image \in Images => ShowsPattern(image)'
    BY <1>1, <1>9, Drawn DEF ShowsPattern
  <2>3. ASSUME NEW i \in Images, uploaded'[i] # NoSeq
        PROVE  Keeps(i, uploaded[i])' /\ uploaded'[i] = uploaded[i]
    <3>1. CASE i = image
      BY <1>1, <2>1, <2>2, <3>1 DEF Keeps, ShowsPattern
    <3>2. CASE i # image
      <4>1. texture'[i] = texture[i] /\ uploaded' = uploaded
        BY <1>4, <2>1, <3>2
      <4>2. Keeps(i, uploaded[i])
        BY <1>7, <2>3, <4>1
      <4> QED
        BY <1>1, <4>1, <4>2 DEF Keeps, Shows, ShowsPattern
    <3> QED
      BY <3>1, <3>2
  <2>4. NumbersTell'
    BY <1>1, <2>3 DEF NumberInv, NumbersTell
  <2>5. chain = "ready" /\ failures = 0 /\ rt # "gone" => Took(image)'
    BY <1>1, <1>5, <1>9, <2>2 DEF Took
  <2> QED
    BY <1>1, <1>6, <2>4, <2>5 DEF NumberInv, FilledIsSubmitted
<1>10. CASE store # Blank /\ Upload
  <2>1. CopyBox /\ uploaded' = [uploaded EXCEPT ![image] = store.seq]
    BY <1>10 DEF Upload
  <2>2. /\ store.run \in 1 .. appRun
        /\ store = [run |-> store.run, seq |-> store.seq]
    BY <1>2, <1>10 DEF NumberInv, NumbersTell, AppFrames
  <2>3. ASSUME NEW i \in Images, uploaded'[i] # NoSeq
        PROVE  \/ \E r \in 1 .. appRun' :
                     \A s \in Covers[[run |-> r, seq |-> uploaded'[i]]] :
                        texture'[i][s] = [run |-> r, seq |-> uploaded'[i]]
               \/ \A s \in Spots : texture'[i][s] = Pattern
    <3>1. CASE i = image
      <4>1. uploaded'[i] = store.seq
        BY <1>4, <2>1, <3>1
      <4>2. \A s \in Covers[store] : texture'[i][s] = store
        BY <1>10, <2>1, <3>1, Drawn
      <4> QED
        BY <1>1, <2>2, <4>1, <4>2
    <3>2. CASE i # image
      <4>1. texture'[i] = texture[i] /\ uploaded'[i] = uploaded[i]
        BY <1>4, <2>1, <3>2 DEF CopyBox
      <4>2. Keeps(i, uploaded[i])
        BY <1>7, <2>3, <4>1
      <4> QED
        BY <1>1, <4>1, <4>2 DEF Keeps, Shows, ShowsPattern
    <3> QED
      BY <3>1, <3>2
  <2>4. NumbersTell'
    BY <1>1, <1>10, <2>3 DEF NumberInv, NumbersTell, Keeps, Shows, ShowsPattern
  <2>5. image \in Images => Took(image)'
    BY <1>1, <1>4, <1>10, <2>1 DEF Took
  <2> QED
    BY <1>1, <1>5, <1>6, <2>4, <2>5 DEF NumberInv, FilledIsSubmitted
<1> QED
  BY <1>8, <1>9, <1>10 DEF FillTexture

LEMMA NumberStep ==
    ASSUME TypeOK, ImageInStep, NumberInv, [Next]_vars
    PROVE  NumberInv'
<1>1. CASE FeedActions
  BY <1>1, NumberFeed
<1>2. CASE FillTexture
  BY <1>2, NumberFill
<1>3. CASE UNCHANGED vars \/ HostRuntime \/ MakeFrame \/ PumpEvent \/ PumpDone
               \/ FrameActions
  <2>1. UNCHANGED feedVars
    BY <1>3 DEF vars, HostRuntime, MakeFrame, PumpEvent, PumpDone, FrameActions,
                WaitFrame, WaitDiscarded, WaitFails, BeginFrame, BeginRejected,
                BeginFails, Locate, EndFrame, EndFails, FrameStep, feedVars
  <2>2. UNCHANGED <<texture, uploaded>>
    BY <1>3, OutsideLayer
  <2>3. NumbersTell'
    BY <2>1, <2>2 DEF NumberInv, NumbersTell, Keeps, Shows, ShowsPattern, feedVars
  <2>4. layer' => pc' \in {"end", "asleep"}
    BY <1>3, OutsideLayer DEF NumberInv, FilledIsSubmitted
  <2>5. pc' = "release" => pc = "release"
    BY <1>3, OutsideLayer DEF Between
  <2>6. pc' = "end" /\ layer' => pc = "end" /\ layer
    BY <1>3, OutsideLayer DEF NumberInv, FilledIsSubmitted
  <2>7. FilledIsSubmitted'
    <3>1. pc' # "pump" /\ (pc' = "release" \/ (pc' = "end" /\ layer'))
              => UNCHANGED <<image, released, taken, texture, uploaded>>
      BY <1>3, OutsideLayer
    <3> QED
      BY <1>3, <2>4, <2>5, <2>6, <3>1, OutsideLayer
      DEF NumberInv, FilledIsSubmitted, Took, ShowsPattern
  <2> QED
    BY <2>3, <2>7 DEF NumberInv
<1>4. CASE \/ AcquireImage \/ AcquireFails \/ WaitImage \/ WaitImageFails
           \/ ReleaseFails
  <2>1. /\ UNCHANGED <<store, appRun, arrived, texture, uploaded, taken, layer>>
        /\ pc \in {"acquire", "waitImage", "release"}
        /\ pc' \in {"waitImage", "fill", "end"}
    BY <1>4 DEF AcquireImage, AcquireFails, WaitImage, WaitImageFails,
                ReleaseFails, LayerStep, swapVars, feedVars, imageVars
  <2>2. ~layer
    BY <2>1 DEF NumberInv, FilledIsSubmitted
  <2> QED
    BY <2>1, <2>2 DEF NumberInv, NumbersTell, Keeps, Shows, ShowsPattern,
                      FilledIsSubmitted
<1>5. CASE ReleaseImage
  <2>1. /\ UNCHANGED <<store, appRun, arrived, texture, uploaded, taken, rt,
                       chain, image>>
        /\ pc = "release" /\ pc' = "end" /\ released' = acquired[1].image
    BY <1>5 DEF ReleaseImage, LayerStep, feedVars, imageVars
  <2>2. failures' = 0 => failures = 0
    BY <1>5, FailsOnce DEF ReleaseImage, TypeOK
  <2>3. NumbersTell'
    BY <2>1 DEF NumberInv, NumbersTell, Keeps, Shows, ShowsPattern
  <2>4. chain = "ready" /\ failures = 0 /\ rt # "gone" => released' = image
    BY <2>1, HeldIsImage
  <2>5. chain = "ready" /\ failures = 0 /\ rt # "gone" => Took(released)'
    BY <2>1, <2>4 DEF NumberInv, FilledIsSubmitted, Took, ShowsPattern
  <2> QED
    BY <2>1, <2>2, <2>3, <2>5 DEF NumberInv, FilledIsSubmitted
<1> QED
  BY <1>1, <1>2, <1>3, <1>4, <1>5 DEF Next, Host, Feed, FeedActions, FrameActions

LEMMA NumberInit == Init => NumberInv
  BY DEF Init, NumberInv, NumbersTell, FilledIsSubmitted

LEMMA Current ==
    ASSUME TypeOK, LayerHasImage, NumberInv
    PROVE  LayerIsCurrent
<1> SUFFICES ASSUME pc = "end", layer, chain = "ready", failures = 0,
                    rt # "gone"
             PROVE  IF taken = Blank
                    THEN ShowsPattern(released)
                    ELSE \/ \E r \in 1 .. appRun :
                                Shows(released, [run |-> r, seq |-> taken.seq])
                         \/ /\ ShowsPattern(released)
                            /\ uploaded[released] = taken.seq
  BY Zenon DEF LayerIsCurrent
<1>1. Took(released) /\ released \in Images
  BY DEF NumberInv, FilledIsSubmitted, LayerHasImage
<1>2. CASE taken = Blank
  BY <1>1, <1>2 DEF Took
<1>3. CASE taken # Blank
  <2>1. uploaded[released] = taken.seq
    BY <1>1, <1>3 DEF Took
  <2>2. taken.seq # NoSeq
    BY <1>3, Apart DEF TypeOK, AppFrames
  <2>3. Keeps(released, taken.seq)
    BY <1>1, <2>1, <2>2 DEF NumberInv, NumbersTell
  <2> QED
    BY <1>3, <2>1, <2>3 DEF Keeps
<1> QED
  BY <1>2, <1>3

\* The inductive invariant holds, whatever the constants.
THEOREM Inductive == Spec => []IInv
<1>1. Init => LayerHasImage
  BY Zenon DEF Init, LayerHasImage
<1>2. IInv <=> /\ TypeOK /\ LayerHasImage /\ RunningAgrees /\ EventsTell
               /\ FrameInv /\ ImageInStep /\ NumberInv
  BY DEF IInv, FrameInv, NumberInv
<1> QED
  BY <1>1, <1>2, TypeInit, TypeStep, LayerImage, SessionInit, SessionStep,
     FrameInit, FrameStepInv, ImageInit, ImageStep, NumberInit, NumberStep,
     PTL DEF Spec

\* With a complete swapchain and no failed call the bridge draws into the one
\* image it holds, for any number of images.
THEOREM DrawsItsImage == Spec => []ImageInStep
  BY Inductive, PTL DEF IInv

\* The layer submitted shows the frame the store held in the box of that frame,
\* or the pattern when the store held no pixels, although uploads are skipped
\* and an image keeps what was drawn around a smaller frame; mistakes are only
\* those LayerIsCurrent names.  For any number of images, frames and runs and
\* any boxes.
THEOREM LayerCurrent == Spec => []LayerIsCurrent
<1>1. IInv => LayerIsCurrent
  BY Current DEF IInv, NumberInv
<1> QED
  BY <1>1, Inductive, PTL
=============================================================================
