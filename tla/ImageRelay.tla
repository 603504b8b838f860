----------------------------- MODULE ImageRelay -----------------------------
(***************************************************************************)
(* What the way of a frame out of the container promises, without pieces,  *)
(* headers or threads.  Every frame has a number of its own.  It is on its *)
(* way over one connection, the newest that carries frames; the frames of  *)
(* a connection leave it oldest first, each once; and a frame is missing   *)
(* only when it was given up before anything of it was written, when it    *)
(* was the oldest and there was nowhere to send it, or when its connection *)
(* was lost with all that was on it.                                       *)
(***************************************************************************)
EXTENDS Naturals

CONSTANTS Conns,   \* connections, in the order they are made
          Frames,  \* frames, with a run and a seq
          NoFrame  \* nothing has left a connection

VARIABLES run, next,  \* the number of the next frame
          pending,    \* frames on their way over each connection
          left        \* the frame that left each last

relayVars == <<run, next, pending, left>>

Newer(f, g) == f.run > g.run \/ (f.run = g.run /\ f.seq > g.seq)

RelayInit == /\ run = 1
             /\ next = 0
             /\ pending = [c \in Conns |-> {}]
             /\ left = [c \in Conns |-> NoFrame]

Put(c, f) == /\ \A d \in Conns : d > c => pending[d] = {} /\ left[d] = NoFrame
             /\ pending' = [pending EXCEPT ![c] = @ \cup {f}]

\* A frame gets the next number, and a connection, or is given up.
Number == /\ next' = next + 1
          /\ \/ UNCHANGED pending
             \/ \E c \in Conns, f \in Frames :
                   f.run = run /\ f.seq = next /\ Put(c, f)
          /\ UNCHANGED <<run, left>>

\* The frame numbered last is given up.
Withdrawn == \E c \in Conns : \E f \in pending[c] :
                /\ f.run = run /\ f.seq + 1 = next
                /\ pending' = [pending EXCEPT ![c] = @ \ {f}]

Withdraw == Withdrawn /\ UNCHANGED <<run, next, left>>

\* The numbers start again.
NewRun == /\ run' = run + 1
          /\ next' = 0
          /\ Withdrawn \/ UNCHANGED pending
          /\ UNCHANGED left

TakeOldest(c, f) == /\ f \in pending[c]
                    /\ \A g \in pending[c] : g = f \/ Newer(g, f)
                    /\ pending' = [pending EXCEPT ![c] = @ \ {f}]

Forward(c, f) == /\ TakeOldest(c, f)
                 /\ left' = [left EXCEPT ![c] = f]
                 /\ UNCHANGED <<run, next>>

Discard(c, f) == TakeOldest(c, f) /\ UNCHANGED <<run, next, left>>

\* Connections are lost.
Lose(lost) ==
    /\ pending' = [c \in Conns |-> IF c \in lost THEN {} ELSE pending[c]]
    /\ UNCHANGED <<run, next, left>>

RelayNext == \/ Number \/ Withdraw \/ NewRun
             \/ \E c \in Conns : \E f \in pending[c] : Forward(c, f) \/ Discard(c, f)
             \/ \E lost \in SUBSET Conns : Lose(lost)

RelaySpec == RelayInit /\ [][RelayNext]_relayVars
=============================================================================
