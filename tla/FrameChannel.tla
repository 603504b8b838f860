---------------------------- MODULE FrameChannel ----------------------------
(***************************************************************************)
(* What the UDP frame transport promises, without datagrams, chunks on     *)
(* their way or a table: an unreliable channel.  Frames are lost, arrive   *)
(* in any order and more than once, but whole, only while the receiver     *)
(* listens, and never more of them than it wants.  All bytes of a frame    *)
(* come from frames sent with its id and size; the channel does not tell   *)
(* the runs of the sender apart.                                           *)
(***************************************************************************)
EXTENDS Naturals

CONSTANTS Frames,  \* frames, with a run, an id and a size in chunks
          Limit    \* frames the receiver wants; 0 for any number

VARIABLES sent,     \* frames given to the channel
          given,    \* frames it gave: for each chunk, the run its bytes are of
          count,    \* how often it gave one, when there is a limit
          receiver  \* "receiving", or why the receiver stopped

channelVars == <<sent, given, count, receiver>>

ChannelInit == /\ sent = {}
               /\ given = {}
               /\ count = 0
               /\ receiver = "receiving"

\* Runs follow one another, and each numbers its frames upwards.
Send(f) == /\ \A g \in sent : g.run < f.run \/ (g.run = f.run /\ g.id < f.id)
           /\ sent' = sent \cup {f}
           /\ UNCHANGED <<given, count, receiver>>

\* The runs that sent a frame with the id and the size of f.
RunsOf(f) == {g.run : g \in {h \in sent : h.id = f.id /\ h.size = f.size}}

Arriving(f) == {[run |-> f.run, id |-> f.id, size |-> f.size, chunks |-> bytes] :
                   bytes \in [0 .. f.size - 1 -> RunsOf(f)]}

Counts == \/ Limit = 0 /\ UNCHANGED <<count, receiver>>
          \/ /\ count < Limit
             /\ count' = count + 1
             /\ receiver' = IF count' = Limit THEN "complete" ELSE receiver

Give(f) == /\ receiver = "receiving"
           /\ \E d \in Arriving(f) : given' = given \cup {d}
           /\ Counts
           /\ UNCHANGED sent

GiveUp == /\ receiver = "receiving"
          /\ Limit # 0
          /\ receiver' = "timed_out"
          /\ UNCHANGED <<sent, given, count>>

ChannelNext == \/ \E f \in Frames : Send(f)
               \/ \E f \in sent : Give(f)
               \/ GiveUp

ChannelSpec == ChannelInit /\ [][ChannelNext]_channelVars
=============================================================================
