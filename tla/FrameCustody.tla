---------------------------- MODULE FrameCustody ----------------------------
(***************************************************************************)
(* What the GPU frame transport promises of the file descriptors of a      *)
(* frame, without descriptor numbers, sockets or vectors: they pass from   *)
(* the sender to the server, which has those of one frame at a time, shows *)
(* them to the callback at most once, and closes them for good.            *)
(***************************************************************************)
CONSTANT Senders   \* each sends one frame

VARIABLE place     \* where the descriptors of each sender's frame are

Places == {"sender", "travelling", "server", "callback", "closed", "abandoned"}

Init == place = [s \in Senders |-> "sender"]

Move(s, from, to) == place[s] = from /\ place' = [place EXCEPT ![s] = to]

Send(s) == Move(s, "sender", "travelling")

Take(s) == /\ \A t \in Senders : place[t] \notin {"server", "callback"}
           /\ Move(s, "travelling", "server")

Show(s) == Move(s, "server", "callback")

\* After the callback, or in place of it.
Close(s) == \E from \in {"server", "callback"} : Move(s, from, "closed")

\* Nobody takes them: they end with their connections.
Refuse(S) == /\ \A s \in S : place[s] = "travelling"
             /\ place' = [s \in Senders |-> IF s \in S THEN "closed" ELSE place[s]]

\* A descriptor that came short: its file descriptors stay open unused.
Abandon(s) == Move(s, "travelling", "abandoned")

Next == \/ \E s \in Senders : Send(s) \/ Take(s) \/ Show(s) \/ Close(s) \/ Abandon(s)
        \/ \E S \in SUBSET Senders : Refuse(S)

Spec == Init /\ [][Next]_place
=============================================================================
