------------------------- MODULE SwapchainContract -------------------------
(***************************************************************************)
(* What an OpenXR application may rely on when it renders through a        *)
(* swapchain: the images are handed out one at a time, an image goes from  *)
(* the application back to the runtime only by a release, and the image    *)
(* the runtime shows is never the one the application is drawing into.     *)
(* The specification keeps no index arithmetic: RuntimeSession, which has  *)
(* the three counters of session.cpp, is shown to implement it.            *)
(***************************************************************************)
EXTENDS Naturals

CONSTANTS Images,     \* the images of a swapchain
          NoImage     \* no image: nothing held, nothing shown

VARIABLES open,       \* a swapchain exists
          held,       \* the image the application holds, or NoImage
          writable,   \* the application has waited for the image it holds
          front       \* the image released last, or NoImage

contractVars == <<open, held, writable, front>>

ContractInit == /\ open = FALSE
                /\ held = NoImage
                /\ writable = FALSE
                /\ front = NoImage

\* A new swapchain replaces whatever was there; nothing is held or shown.
Open == /\ open' = TRUE
        /\ held' = NoImage
        /\ writable' = FALSE
        /\ front' = NoImage

\* The swapchain goes away, with the image the application may hold.
Close == /\ open' = FALSE
         /\ held' = NoImage
         /\ writable' = FALSE
         /\ front' = NoImage

\* Any image but the shown one may be handed out, one at a time.
Acquire(i) == /\ open
              /\ held = NoImage
              /\ i # front
              /\ held' = i
              /\ UNCHANGED <<open, writable, front>>

Wait == /\ held # NoImage
        /\ writable' = TRUE
        /\ UNCHANGED <<open, held, front>>

\* Only an image that was waited for is released, and it is then shown.
Release == /\ writable
           /\ front' = held
           /\ held' = NoImage
           /\ writable' = FALSE
           /\ UNCHANGED open

ContractNext == \/ Open
                \/ Close
                \/ \E i \in Images : Acquire(i)
                \/ Wait
                \/ Release

ContractSpec == ContractInit /\ [][ContractNext]_contractVars
=============================================================================
