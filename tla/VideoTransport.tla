--------------------------- MODULE VideoTransport ---------------------------
(***************************************************************************)
(* The UDP frame transport of protocol/video_transport.cpp: a sender cuts  *)
(* a frame into chunks, one datagram each; the network loses, delays and   *)
(* repeats datagrams; the receiver puts frames together again in a table   *)
(* keyed by the frame id and hands complete ones to a callback.            *)
(*                                                                         *)
(* A frame is identified by the run of the sender that made it (run) and   *)
(* by its frame id; a run starts numbering at 0, as the native runtime     *)
(* does with every instance and the synthetic senders with every start.    *)
(* The run is no field of the packet: it stands for the payload bytes and  *)
(* the metadata, which the receiver copies and never compares.             *)
(***************************************************************************)
EXTENDS Naturals, FiniteSets

CONSTANTS Capacity,    \* incomplete frames kept; the literal 8 of receive
          MaxChunks,   \* bound: chunks of a frame
          Sizes,       \* frame_size, in chunks
          MaxId,       \* bound: largest frame id
          MaxRun,      \* bound: restarts of the sender
          MaxSent,     \* bound: frames sent, in all runs
          MaxNet,      \* bound: datagrams on their way at once
          MaxFaults,   \* bound: datagrams lost, or delivered once more
          MaxFrames    \* max_frames of receive; 0 receives for ever

ASSUME VideoAssumption == /\ Capacity \in Nat /\ Capacity >= 1
                          /\ MaxChunks \in Nat /\ MaxChunks >= 1
                          /\ Sizes \subseteq 1 .. MaxChunks
                          /\ MaxId \in Nat
                          /\ MaxRun \in Nat
                          /\ MaxSent \in Nat
                          /\ MaxNet \in Nat
                          /\ MaxFaults \in Nat
                          /\ MaxFrames \in Nat

Ids  == 0 .. MaxId
Runs == 0 .. MaxRun
Indices == 0 .. MaxChunks - 1  \* chunk_offset, in chunks

Frames  == [run : Runs, id : Ids, size : Sizes]
Packets == [run : Runs, id : Ids, size : Sizes, chunk : Indices]

PacketOf(f, c) == [run |-> f.run, id |-> f.id, size |-> f.size, chunk |-> c]

PacketsOf(f) == {PacketOf(f, c) : c \in 0 .. f.size - 1}

VARIABLES
    run,        \* the run of the sender
    nextId,     \* id of the next frame of this run
    sent,       \* history: frames given to send_frame
    offset,     \* chunks of the frame being sent that went out
    sending,    \* the frames send_frame is in: none or one
    net,        \* datagrams on their way
    faults,     \* datagrams lost or delivered again so far
    frames,     \* the receiver's table: id -> assembly
    completed,  \* complete frames, counted when MaxFrames is not 0
    outcome,    \* "receiving", or what receive returned
    received,   \* history: packets the receiver read
    delivered   \* history: frames given to the callback

senderVars   == <<run, nextId, sent, offset, sending>>
receiverVars == <<frames, completed, outcome, received, delivered>>
vars == <<senderVars, net, faults, receiverVars>>

EmptyTable == [i \in {} |-> 0]

Init == /\ run = 0
        /\ nextId = 0
        /\ sent = {}
        /\ offset = 0
        /\ sending = {}
        /\ net = {}
        /\ faults = 0
        /\ frames = EmptyTable
        /\ completed = 0
        /\ outcome = "receiving"
        /\ received = {}
        /\ delivered = {}
----------------------------------------------------------------------------
(***************************************************************************)
(* Sender: send_frame is entered, sends chunk after chunk in a loop, and   *)
(* returns after the last chunk or at a send that fails.                   *)
(***************************************************************************)
StartFrame(size) ==
    /\ sending = {}
    /\ nextId <= MaxId
    /\ Cardinality(sent) < MaxSent
    /\ LET f == [run |-> run, id |-> nextId, size |-> size]
       IN  sending' = {f} /\ sent' = sent \cup {f}
    /\ nextId' = nextId + 1
    /\ offset' = 0
    /\ UNCHANGED <<run, net, faults, receiverVars>>

SendChunk ==
    \E f \in sending :
        /\ Cardinality(net) < MaxNet
        /\ net' = net \cup {PacketOf(f, offset)}
        /\ offset' = offset + 1
        /\ sending' = IF offset + 1 = f.size THEN {} ELSE sending
        /\ UNCHANGED <<run, nextId, sent, faults, receiverVars>>

\* A short send: the rest of the frame is not sent, the next frame is.
ShortSend == /\ sending # {}
             /\ sending' = {}
             /\ UNCHANGED <<run, nextId, sent, offset, net, faults, receiverVars>>

\* The application is started again: ids start at 0, and neither the table of
\* the receiver nor what is on its way knows of it.
RestartSender == /\ run < MaxRun
                 /\ run' = run + 1
                 /\ nextId' = 0
                 /\ sending' = {}
                 /\ offset' = 0
                 /\ UNCHANGED <<sent, net, faults, receiverVars>>
----------------------------------------------------------------------------
Lose == /\ faults < MaxFaults
        /\ faults' = faults + 1
        /\ \E p \in net : net' = net \ {p}
        /\ UNCHANGED <<senderVars, receiverVars>>
----------------------------------------------------------------------------
(***************************************************************************)
(* Receiver.  An assembly has the frame metadata of its first packet, the  *)
(* chunks copied so far (with the run their bytes are from) and the count  *)
(* of bytes received, in chunks.                                           *)
(***************************************************************************)
Without(table, id) == [i \in DOMAIN table \ {id} |-> table[i]]

With(table, id, assembly) ==
    [i \in DOMAIN table \cup {id} |-> IF i = id THEN assembly ELSE table[i]]

\* frames[header->frame_id]: the assembly of this id, or a new one.
Lookup(p) == IF p.id \in DOMAIN frames
             THEN frames[p.id]
             ELSE [run |-> p.run, size |-> p.size, count |-> 0,
                   chunks |-> EmptyTable]

\* Slip: bytes count as often as they come.
CopiedCountingRepeats(p) ==
    LET a == Lookup(p)
    IN  [a EXCEPT !.chunks = With(a.chunks, p.chunk, p.run), !.count = @ + 1]

\* The chunk is copied; its bytes count once however often it comes.
Copied(p) ==
    LET a == Lookup(p)
    IN  [a EXCEPT !.chunks = With(a.chunks, p.chunk, p.run),
                  !.count  = IF p.chunk \in DOMAIN a.chunks THEN @ ELSE @ + 1]

\* Slip: the highest ids are erased.
EvictedNewest(table) ==
    [i \in {j \in DOMAIN table :
               Cardinality({k \in DOMAIN table : k < j}) < Capacity} |-> table[i]]

\* Slip: one frame less is kept.
EvictedTooEarly(table) ==
    [i \in {j \in DOMAIN table :
               Cardinality({k \in DOMAIN table : k > j}) + 1 < Capacity} |-> table[i]]

\* The lowest ids are erased while the table is larger than Capacity.
Evicted(table) ==
    [i \in {j \in DOMAIN table :
               Cardinality({k \in DOMAIN table : k > j}) < Capacity} |-> table[i]]

\* Slip: the frame_size of the packet is not compared.
SizeNotCompared(p) == TRUE

\* The packet is of a frame of the size its assembly was made for.
SizeAgrees(p) == Lookup(p).size = p.size

\* A packet whose size differs from its assembly's erases the assembly and is
\* itself dropped.
DropMismatch(p) ==
    /\ ~SizeAgrees(p)
    /\ frames' = Without(frames, p.id)
    /\ UNCHANGED <<completed, outcome, delivered>>

KeepPartial(p) ==
    /\ SizeAgrees(p)
    /\ Copied(p).count # p.size
    /\ frames' = Evicted(With(frames, p.id, Copied(p)))
    /\ UNCHANGED <<completed, outcome, delivered>>

HandOver(p) == delivered' = delivered \cup
                   {[run |-> Copied(p).run, id |-> p.id, size |-> p.size,
                     chunks |-> Copied(p).chunks]}

\* Slip: the limit is compared before the frame is counted.
DeliverOneTooMany(p) ==
    /\ SizeAgrees(p)
    /\ Copied(p).count = p.size
    /\ frames' = Evicted(Without(frames, p.id))
    /\ HandOver(p)
    /\ completed' = completed + 1
    /\ outcome' = IF completed = MaxFrames THEN "complete" ELSE outcome

\* A complete frame leaves the table; with a limit on frames, receive returns
\* when it is reached.
DeliverComplete(p) ==
    /\ SizeAgrees(p)
    /\ Copied(p).count = p.size
    /\ frames' = Evicted(Without(frames, p.id))
    /\ HandOver(p)
    /\ IF MaxFrames = 0
       THEN UNCHANGED <<completed, outcome>>
       ELSE /\ completed' = completed + 1
            /\ outcome' = IF completed + 1 = MaxFrames THEN "complete" ELSE outcome

\* One datagram is read and handled; the network may deliver it once more.
Receive(p) ==
    /\ outcome = "receiving"
    /\ p \in net
    /\ \/ net' = net \ {p} /\ UNCHANGED faults
       \/ faults < MaxFaults /\ faults' = faults + 1 /\ UNCHANGED net
    /\ received' = received \cup {p}
    /\ DropMismatch(p) \/ KeepPartial(p) \/ DeliverComplete(p)
    /\ UNCHANGED senderVars

\* Three seconds without a datagram end a receive that has a limit.
Timeout == /\ outcome = "receiving"
           /\ outcome' = IF MaxFrames = 0 THEN "receiving" ELSE "timed_out"
           /\ UNCHANGED <<senderVars, net, faults, frames, completed, received,
                          delivered>>
----------------------------------------------------------------------------
Next == \/ \E size \in Sizes : StartFrame(size)
        \/ SendChunk
        \/ ShortSend
        \/ RestartSender
        \/ Lose
        \/ \E p \in Packets : Receive(p)
        \/ Timeout

\* The receiver runs a loop of its own on a thread of its own: while datagrams
\* are on their way it reads one.  Nothing forces a sender to send.
Spec == Init /\ [][Next]_vars /\ WF_vars(\E p \in Packets : Receive(p))
----------------------------------------------------------------------------
(***************************************************************************)
(* Properties.                                                             *)
(***************************************************************************)
Assemblies == [run : Runs, size : Sizes, count : Nat,
               chunks : UNION {[C -> Runs] : C \in SUBSET Indices}]

\* The variables hold values of their types.
TypeOK == /\ run \in Runs
          /\ nextId \in 0 .. MaxId + 1
          /\ sent \subseteq Frames
          /\ offset \in 0 .. MaxChunks
          /\ sending \subseteq sent
          /\ net \subseteq Packets
          /\ faults \in 0 .. MaxFaults
          /\ DOMAIN frames \subseteq Ids
          /\ \A i \in DOMAIN frames : frames[i] \in Assemblies
          /\ completed \in 0 .. MaxFrames
          /\ outcome \in {"receiving", "complete", "timed_out"}
          /\ received \subseteq Packets

\* The payload of an assembly holds every chunk copied into it: the size check
\* keeps a packet of a restarted sender, with a larger frame under the same
\* id, from being copied past the end.
CopiesFit == \A i \in DOMAIN frames :
                 DOMAIN frames[i].chunks \subseteq 0 .. frames[i].size - 1

\* The table holds only frames that are under way: complete ones have left
\* it, and the byte count is the number of distinct bytes copied.
TableUnderWay == \A i \in DOMAIN frames :
                     /\ frames[i].count = Cardinality(DOMAIN frames[i].chunks)
                     /\ frames[i].count \in 1 .. frames[i].size - 1

\* However many frames lose a datagram, the table stays within its limit.
TableBounded == Cardinality(DOMAIN frames) <= Capacity

\* A packet of the frame that has the id of f in another run was read.
Mixed(f) == \E p \in received : p.id = f.id /\ p.run # f.run

\* A frame given to the callback has every chunk, also when datagrams are
\* repeated or reordered; unless two runs share its id it is one that was
\* sent, with the bytes of all its chunks and its metadata from one send_frame.
DeliveredIntact ==
    \A d \in delivered :
        /\ DOMAIN d.chunks = 0 .. d.size - 1
        /\ \/ Mixed(d)
           \/ /\ [run |-> d.run, id |-> d.id, size |-> d.size] \in sent
              /\ \A c \in DOMAIN d.chunks : d.chunks[c] = d.run

Channel == INSTANCE FrameChannel WITH
               Limit    <- MaxFrames,
               given    <- delivered,
               count    <- completed,
               receiver <- outcome

\* Sender, network and receiver together are the channel FrameChannel says.
ImplementsChannel == Channel!ChannelSpec

\* Bytes of f reached the callback, whole or mixed with another run's.
Delivered(f) == \E d \in delivered :
                    d.id = f.id /\ \E c \in DOMAIN d.chunks : d.chunks[c] = f.run

\* Packets of Capacity frames with higher ids were read.
Crowded(f) == Cardinality({p.id : p \in {q \in received : q.id > f.id}}) >= Capacity

\* The frames the callback has still to get: those no packet of which was lost,
\* unless the id is used twice or Capacity higher ids came.
Owed == {f \in sent : /\ PacketsOf(f) \subseteq net \cup received
                      /\ ~Delivered(f) /\ ~Mixed(f) /\ ~Crowded(f)}

\* Incomplete frames, of whatever run, stand in the way only of frames with
\* lower ids: no frame is owed once all its datagrams have been read, whatever
\* was lost or repeated before and between.
FramesDelivered == \A f \in Owed : ~(PacketsOf(f) \subseteq received)

\* Fewer than Capacity frames of this run are newer than f.
Recent(f) == f.run = run /\ nextId - f.id <= Capacity

\* Incomplete frames do not stand in the way of newer ones: a recent frame
\* whose datagrams have all been read has been delivered.
RecentFramesDelivered ==
    \A f \in sent :
        Recent(f) /\ PacketsOf(f) \subseteq received => Delivered(f) \/ Mixed(f)

\* The receiver catches up: of finitely many frames sent, none stays owed
\* until receive returns.
CatchesUp == Owed # {} ~> Owed = {} \/ outcome # "receiving"
=============================================================================
