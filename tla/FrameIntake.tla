---------------------------- MODULE FrameIntake ----------------------------
(***************************************************************************)
(* What a server that takes frames from clients, one client at a time,     *)
(* promises, without parts, sockets or buffers: the frames a client has    *)
(* completed are handed over in their order, each once and none left out,  *)
(* as long as the client is served; a client that is gone hands over       *)
(* nothing more; and no more frames are handed over than the limit says.   *)
(***************************************************************************)
EXTENDS Naturals, Sequences

CONSTANTS Conns,   \* the clients' connections
          Limit    \* frames handed over; 0 is no limit

VARIABLES place,      \* where each connection is
          completed,  \* frames the client has written to their end
          taken,      \* frames of each that were handed over
          handed      \* all frames handed over, by connection and number

intakeVars == <<place, completed, taken, handed>>

IntakeInit == /\ place = [c \in Conns |-> "outside"]
              /\ completed = [c \in Conns |-> 0]
              /\ taken = [c \in Conns |-> 0]
              /\ handed = <<>>

Move(c, from, to) == place[c] = from /\ place' = [place EXCEPT ![c] = to]

Arrive(c) == /\ Move(c, "outside", "waiting")
             /\ UNCHANGED <<completed, taken, handed>>

Complete(c) == /\ place[c] \in {"waiting", "served"}
               /\ completed' = [completed EXCEPT ![c] = @ + 1]
               /\ UNCHANGED <<place, taken, handed>>

Serve(c) == /\ \A d \in Conns : place[d] # "served"
            /\ Move(c, "waiting", "served")
            /\ UNCHANGED <<completed, taken, handed>>

\* The client has gone away, or sent what is refused.
Dismiss(c) == /\ Move(c, "served", "gone")
              /\ UNCHANGED <<completed, taken, handed>>

TurnAwayAll ==
    place' = [c \in Conns |-> IF place[c] = "waiting" THEN "gone" ELSE place[c]]

\* Nobody is served any more, not even those who wait.
Stop == /\ \A c \in Conns : place[c] # "served"
        /\ TurnAwayAll
        /\ UNCHANGED <<completed, taken, handed>>

\* The frame that reaches the limit is the last.
HandOver(c) ==
    /\ place[c] = "served"
    /\ taken[c] < completed[c]
    /\ Limit # 0 => Len(handed) < Limit
    /\ taken' = [taken EXCEPT ![c] = @ + 1]
    /\ handed' = Append(handed, [conn |-> c, no |-> taken[c] + 1])
    /\ IF Len(handed) + 1 = Limit THEN TurnAwayAll ELSE UNCHANGED place
    /\ UNCHANGED completed

IntakeNext == \/ Stop
              \/ \E c \in Conns : \/ Arrive(c) \/ Complete(c) \/ Serve(c)
                                  \/ Dismiss(c) \/ HandOver(c)

IntakeSpec == IntakeInit /\ [][IntakeNext]_intakeVars
=============================================================================
