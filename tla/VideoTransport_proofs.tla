----------------------- MODULE VideoTransport_proofs -----------------------
(***************************************************************************)
(* The safety of the receiver, for every capacity, frame size and number   *)
(* of runs and faults: the types, the table of assemblies, and what is     *)
(* handed over.  IInv adds to the properties of the run what ties them     *)
(* together: every packet is of a frame that was sent, the assemblies hold *)
(* what was read, and no packet that was read is forgotten before its      *)
(* frame is delivered, mixed or crowded out.  The last section shows that  *)
(* sender, network and receiver implement FrameChannel.                    *)
(***************************************************************************)
EXTENDS VideoTransport, FiniteSetTheorems, WellFoundedInduction, TLAPS

\* send_frame leaves its loop at the end of the payload.
SenderFit == /\ run \in Runs
             /\ nextId \in 0 .. MaxId + 1
             /\ offset \in 0 .. MaxChunks
             /\ sent \subseteq Frames
             /\ sending \subseteq sent
             /\ \A f, g \in sending : f = g
             /\ \A f \in sending : offset < f.size

\* A run uses an id once.
SentOnce == /\ \A f \in sent : f.run <= run /\ (f.run = run => f.id < nextId)
            /\ \A f, g \in sent : f.run = g.run /\ f.id = g.id => f = g

\* valid_packet: the chunk of a datagram ends within the frame.
InFrame(p) == p \in Packets /\ p.chunk < p.size

FrameOf(p) == [run |-> p.run, id |-> p.id, size |-> p.size]

\* Datagrams come from send_frame only.
Origin == \A p \in net \cup received : InFrame(p) /\ FrameOf(p) \in sent

\* An assembly that may be in the table.
UnderWay(a) == /\ a \in Assemblies
               /\ DOMAIN a.chunks \subseteq 0 .. a.size - 1
               /\ a.count = Cardinality(DOMAIN a.chunks)
               /\ a.count \in 1 .. a.size - 1

TableFit == /\ DOMAIN frames \subseteq Ids
            /\ \A i \in DOMAIN frames : UnderWay(frames[i])

\* The metadata and the bytes of an assembly are of packets of its id.
Known(packets, id, a) ==
    /\ \E q \in packets : q.id = id /\ q.run = a.run /\ q.size = a.size
    /\ \A c \in DOMAIN a.chunks :
          \E q \in packets : q.id = id /\ q.run = a.chunks[c] /\ q.size = a.size

Source == /\ \A i \in DOMAIN frames : Known(received, i, frames[i])
          /\ \A d \in delivered : Known(received, d.id, d)

DeliveredWhole == \A d \in delivered : DOMAIN d.chunks = 0 .. d.size - 1

\* The chunk of a packet that was read is in the table for as long as its frame
\* is not delivered, mixed with another or crowded out.
Kept == \A p \in received :
            \/ Delivered(FrameOf(p)) \/ Mixed(FrameOf(p)) \/ Crowded(FrameOf(p))
            \/ p.id \in DOMAIN frames /\ p.chunk \in DOMAIN frames[p.id].chunks

\* The counters keep to their limits.
Counted == /\ faults \in 0 .. MaxFaults
           /\ completed \in 0 .. MaxFrames
           /\ outcome \in {"receiving", "complete", "timed_out"}
           /\ outcome = "receiving" /\ MaxFrames # 0 => completed < MaxFrames

IInv == /\ SenderFit
        /\ SentOnce
        /\ Origin
        /\ TableFit
        /\ TableBounded
        /\ DeliveredWhole
        /\ Source
        /\ Kept
        /\ Counted
----------------------------------------------------------------------------
(***************************************************************************)
(* The helpers of the receiver.                                            *)
(***************************************************************************)
LEMMA IndexFacts == /\ Capacity \in Nat /\ Capacity >= 1
                    /\ \A s \in Sizes : s \in Nat /\ s >= 1 /\ s <= MaxChunks
                    /\ MaxChunks \in Nat
<1> QED BY VideoAssumption

\* A non-empty set of frame ids has a least one.
LEMMA LeastId ==
    ASSUME NEW T, T \subseteq Nat, T # {}
    PROVE  \E m \in T : \A k \in T : m <= k
<1>1. \E m \in T : \A k \in T : ~(<<k, m>> \in OpToRel(<, Nat))
  BY NatLessThanWellFounded, WFMin
<1>2. PICK m \in T : \A k \in T : ~(<<k, m>> \in OpToRel(<, Nat))
  BY <1>1
<1>3. \A k \in T : m <= k
  <2> SUFFICES ASSUME NEW k \in T, ~(m <= k) PROVE FALSE
    OBVIOUS
  <2>1. m \in Nat /\ k \in Nat /\ k < m
    OBVIOUS
  <2>2. <<k, m>> \in OpToRel(<, Nat)
    BY <2>1 DEF OpToRel
  <2> QED BY <2>2, <1>2
<1> QED BY <1>3

LEMMA EvictedKeeps ==
    ASSUME NEW table
    PROVE  /\ DOMAIN Evicted(table) \subseteq DOMAIN table
           /\ \A i \in DOMAIN Evicted(table) : Evicted(table)[i] = table[i]
<1> QED BY DEF Evicted

\* Eviction keeps assemblies as they are and at most Capacity of them.
LEMMA EvictedBounded ==
    ASSUME NEW table, DOMAIN table \subseteq Ids
    PROVE  /\ DOMAIN Evicted(table) \subseteq DOMAIN table
           /\ \A i \in DOMAIN Evicted(table) : Evicted(table)[i] = table[i]
           /\ Cardinality(DOMAIN Evicted(table)) <= Capacity
<1> DEFINE Above(j) == {k \in DOMAIN table : k > j}
           Rest == {j \in DOMAIN table : Cardinality(Above(j)) < Capacity}
<1>1. DOMAIN Evicted(table) = Rest
      /\ \A i \in Rest : Evicted(table)[i] = table[i]
  BY DEF Evicted
<1>2. IsFiniteSet(DOMAIN table) /\ DOMAIN table \subseteq Nat
  <2>1. IsFiniteSet(Ids)
    BY FS_Interval, VideoAssumption DEF Ids
  <2> QED BY <2>1, FS_Subset, VideoAssumption DEF Ids
<1>3. IsFiniteSet(Rest) /\ Rest \subseteq Nat
  BY <1>2, FS_Subset
<1>4. Cardinality(Rest) <= Capacity
  <2>1. CASE Rest = {}
    <3>1. Cardinality(Rest) = 0
      BY <2>1, FS_EmptySet
    <3> HIDE DEF Rest
    <3> QED BY <3>1, IndexFacts
  <2>2. CASE Rest # {}
    <3>1. PICK m \in Rest : \A k \in Rest : m <= k
      BY <1>3, <2>2, LeastId
    <3>2. Rest \ {m} \subseteq Above(m)
      <4> SUFFICES ASSUME NEW k \in Rest, k # m PROVE k \in DOMAIN table /\ k > m
        OBVIOUS
      <4>1. m <= k /\ m \in Nat /\ k \in Nat
        BY <3>1, <1>3
      <4> QED BY <4>1
    <3>3. IsFiniteSet(Above(m)) /\ Cardinality(Above(m)) \in Nat
      BY <1>2, FS_Subset, FS_CardinalityType
    <3>4. Cardinality(Rest \ {m}) <= Cardinality(Above(m))
      BY <3>2, <3>3, FS_Subset
    <3>5. Cardinality(Rest \ {m}) = Cardinality(Rest) - 1
      BY <1>3, FS_RemoveElement
    <3>6. Cardinality(Above(m)) < Capacity
      BY <3>1
    <3>7. Cardinality(Rest) \in Nat
      BY <1>3, FS_CardinalityType
    <3> HIDE DEF Rest, Above
    <3> QED BY <3>3, <3>4, <3>5, <3>6, <3>7, IndexFacts
  <2> QED BY <2>1, <2>2
<1> HIDE DEF Rest
<1> QED BY <1>1, <1>4 DEF Rest

\* Copying a packet into the assembly of its id, when the sizes agree: the
\* copy lies in the payload and the count follows the chunks there are.
LEMMA CopiedFits ==
    ASSUME TableFit, NEW p, InFrame(p), Lookup(p).size = p.size
    PROVE  /\ Copied(p) \in Assemblies
           /\ Copied(p).size = p.size
           /\ DOMAIN Copied(p).chunks \subseteq 0 .. p.size - 1
           /\ Copied(p).count = Cardinality(DOMAIN Copied(p).chunks)
           /\ Copied(p).count \in 1 .. p.size
           /\ Copied(p).count = p.size => DOMAIN Copied(p).chunks = 0 .. p.size - 1
<1> DEFINE a == Lookup(p)
           old == DOMAIN a.chunks
           new == old \cup {p.chunk}
<1>0. /\ p \in Packets /\ p.chunk \in Indices /\ p.chunk < p.size
      /\ p.size \in Sizes /\ p.size \in Nat /\ p.size <= MaxChunks
      /\ p.run \in Runs /\ p.chunk \in 0 .. p.size - 1
  BY IndexFacts DEF InFrame, Packets, Indices
<1>1. /\ a \in Assemblies
      /\ old \subseteq 0 .. a.size - 1
      /\ a.count = Cardinality(old)
  <2>1. CASE p.id \in DOMAIN frames
    BY <2>1 DEF Lookup, TableFit, UnderWay
  <2>2. CASE p.id \notin DOMAIN frames
    <3>1. a = [run |-> p.run, size |-> p.size, count |-> 0, chunks |-> EmptyTable]
      BY <2>2 DEF Lookup
    <3>2. EmptyTable \in [{} -> Runs] /\ DOMAIN EmptyTable = {}
      BY DEF EmptyTable
    <3>3. {} \in SUBSET Indices
      OBVIOUS
    <3>4. EmptyTable \in UNION {[C -> Runs] : C \in SUBSET Indices}
      BY <3>2, <3>3
    <3>5. a \in Assemblies
      BY <3>1, <3>4, <1>0 DEF Assemblies
    <3>6. old = {} /\ a.count = 0
      BY <3>1, <3>2
    <3> HIDE DEF old
    <3> QED BY <3>5, <3>6, FS_EmptySet
  <2> QED BY <2>1, <2>2
<1>2. old \subseteq 0 .. p.size - 1 /\ a.size = p.size
  BY <1>1
<1>3. a.count \in Nat /\ a.chunks \in UNION {[C -> Runs] : C \in SUBSET Indices}
  BY <1>1 DEF Assemblies
<1>4. PICK C \in SUBSET Indices : a.chunks \in [C -> Runs]
  BY <1>3
<1>5. Copied(p) = [run |-> a.run, size |-> a.size,
                   count |-> IF p.chunk \in old THEN a.count ELSE a.count + 1,
                   chunks |-> With(a.chunks, p.chunk, p.run)]
  <2>1. a = [run |-> a.run, size |-> a.size, count |-> a.count, chunks |-> a.chunks]
    BY <1>1 DEF Assemblies
  <2>2. Copied(p) = [a EXCEPT !.chunks = With(a.chunks, p.chunk, p.run),
                              !.count = IF p.chunk \in old THEN a.count
                                        ELSE a.count + 1]
    BY DEF Copied
  <2> HIDE DEF a, old
  <2> QED BY <2>1, <2>2
<1>6. /\ With(a.chunks, p.chunk, p.run) \in [new -> Runs]
      /\ new \in SUBSET Indices
      /\ DOMAIN With(a.chunks, p.chunk, p.run) = new
  <2>1. old = C
    BY <1>4
  <2> QED BY <2>1, <1>4, <1>0 DEF With
<1>7. new \subseteq 0 .. p.size - 1
  BY <1>0, <1>2
<1>8. /\ IsFiniteSet(0 .. p.size - 1)
      /\ Cardinality(0 .. p.size - 1) = p.size
  BY <1>0, FS_Interval, SMTT(30)
<1>9. IsFiniteSet(old) /\ IsFiniteSet(new)
  BY <1>2, <1>7, <1>8, FS_Subset
<1>10. Cardinality(new) = IF p.chunk \in old THEN Cardinality(old)
                          ELSE Cardinality(old) + 1
  BY <1>9, FS_AddElement
<1>11. Copied(p).count = Cardinality(new)
  BY <1>1, <1>5, <1>10
<1>12. Cardinality(new) \in Nat /\ Cardinality(new) <= p.size /\ Cardinality(new) # 0
  <2>1. Cardinality(new) \in Nat
    BY <1>9, FS_CardinalityType
  <2>2. Cardinality(new) <= Cardinality(0 .. p.size - 1)
    BY <1>7, <1>8, FS_Subset
  <2>3. new # {}
    OBVIOUS
  <2>4. Cardinality(new) # 0
    BY <1>9, <2>3, FS_EmptySet
  <2> QED BY <2>1, <2>2, <2>4, <1>8
<1>13. Cardinality(new) = p.size => new = 0 .. p.size - 1
  BY <1>7, <1>8, FS_Subset
<1>14. Copied(p).chunks \in UNION {[D -> Runs] : D \in SUBSET Indices}
       /\ DOMAIN Copied(p).chunks = new
  BY <1>5, <1>6
<1>15. Copied(p) \in Assemblies
  BY <1>1, <1>5, <1>11, <1>12, <1>14 DEF Assemblies
<1> HIDE DEF new, old, a
<1>16. Copied(p).size = p.size
  BY <1>2, <1>5
<1> QED BY <1>0, <1>7, <1>11, <1>12, <1>13, <1>14, <1>15, <1>16
----------------------------------------------------------------------------
(***************************************************************************)
(* The steps.                                                              *)
(***************************************************************************)
LEMMA InitIInv == Init => IInv
<1> SUFFICES ASSUME Init PROVE IInv
  OBVIOUS
<1> USE DEF Init
<1>1. SenderFit
  BY VideoAssumption DEF SenderFit, Runs
<1>2. DOMAIN frames = {}
  BY DEF EmptyTable
<1>3. Cardinality(DOMAIN frames) <= Capacity
  BY <1>2, FS_EmptySet, IndexFacts
<1>4. Counted
  BY VideoAssumption DEF Counted
<1>5. SentOnce /\ Origin
  BY DEF SentOnce, Origin
<1>6. TableFit /\ TableBounded /\ DeliveredWhole
  BY <1>2, <1>3 DEF TableFit, TableBounded, DeliveredWhole
<1>7. Source /\ Kept
  BY <1>2 DEF Source, Kept
<1> QED BY <1>1, <1>4, <1>5, <1>6, <1>7 DEF IInv

\* The sender uses an id once in a run and never hands the network a datagram
\* outside its frame.
LEMMA SenderStep ==
    ASSUME SenderFit, SentOnce, Origin,
           \/ \E size \in Sizes : StartFrame(size)
           \/ SendChunk \/ ShortSend \/ RestartSender
    PROVE  SenderFit' /\ SentOnce' /\ Origin'
<1>1. CASE \E size \in Sizes : StartFrame(size)
  <2>1. PICK size \in Sizes : StartFrame(size)
    BY <1>1
  <2> DEFINE f == [run |-> run, id |-> nextId, size |-> size]
  <2>2. /\ sending' = {f} /\ offset' = 0 /\ nextId' = nextId + 1
        /\ sent' = sent \cup {f}
        /\ nextId <= MaxId /\ run' = run /\ net' = net /\ received' = received
    BY <2>1 DEF StartFrame, receiverVars
  <2>3. f \in Frames /\ f.size = size /\ f.run = run /\ f.id = nextId
    BY <2>2 DEF SenderFit, Frames, Ids
  <2>4. size \in Nat /\ size >= 1 /\ MaxChunks \in Nat
    BY IndexFacts
  <2>5. nextId' \in 0 .. MaxId + 1 /\ nextId \in Nat /\ run \in Nat
    BY <2>2, VideoAssumption DEF SenderFit, Runs
  <2> HIDE DEF f
  <2>6. SenderFit'
    BY <2>2, <2>3, <2>4, <2>5 DEF SenderFit
  <2>7. \A g \in sent : g.id \in Nat /\ g.run \in Nat
    BY VideoAssumption DEF SenderFit, Frames, Ids, Runs
  <2>8. \A g \in sent : ~(g.run = f.run /\ g.id = f.id)
    BY <2>3, <2>5, <2>7 DEF SentOnce
  <2>9. SentOnce'
    BY <2>2, <2>3, <2>5, <2>7, <2>8 DEF SentOnce
  <2>10. Origin'
    BY <2>2 DEF Origin, InFrame
  <2> QED BY <2>6, <2>9, <2>10
<1>2. CASE SendChunk
  <2>1. PICK f \in sending :
            /\ net' = net \cup {PacketOf(f, offset)}
            /\ offset' = offset + 1
            /\ sending' = IF offset + 1 = f.size THEN {} ELSE sending
            /\ UNCHANGED <<run, nextId, sent>>
            /\ received' = received
    BY <1>2 DEF SendChunk, receiverVars
  <2>2. f \in Frames /\ f \in sent /\ offset \in Nat /\ offset < f.size
    BY IndexFacts DEF SenderFit
  <2>3. f.size \in Nat /\ f.size <= MaxChunks /\ MaxChunks \in Nat
    BY <2>2, IndexFacts DEF Frames
  <2>4. InFrame(PacketOf(f, offset))
    BY <2>2, <2>3 DEF InFrame, PacketOf, Packets, Frames, Indices
  <2>5. \A g \in sending' : g = f /\ offset' < g.size
    BY <2>1, <2>2, <2>3 DEF SenderFit
  <2>6. sending' \subseteq sent /\ offset' \in 0 .. MaxChunks
    BY <2>1, <2>2, <2>3 DEF SenderFit
  <2>7. FrameOf(PacketOf(f, offset)) = f
    BY <2>2 DEF FrameOf, PacketOf, Frames
  <2>8. SenderFit'
    BY <2>1, <2>5, <2>6 DEF SenderFit
  <2>9. Origin'
    BY <2>1, <2>2, <2>4, <2>7 DEF Origin, InFrame
  <2> QED BY <2>1, <2>8, <2>9 DEF SentOnce
<1>3. CASE ShortSend
  BY <1>3 DEF ShortSend, SenderFit, SentOnce, Origin, InFrame, receiverVars
<1>4. CASE RestartSender
  <2>1. /\ run < MaxRun /\ run' = run + 1 /\ nextId' = 0 /\ sending' = {}
        /\ offset' = 0 /\ UNCHANGED <<sent, net, received>>
    BY <1>4 DEF RestartSender, receiverVars
  <2>2. \A g \in sent : g.run \in Nat
    BY VideoAssumption DEF SenderFit, Frames, Runs
  <2>3. run \in Nat /\ MaxRun \in Nat /\ MaxId \in Nat
    BY VideoAssumption DEF SenderFit, Runs
  <2>4. SenderFit'
    BY <2>1, <2>3, IndexFacts DEF SenderFit, Runs
  <2>5. SentOnce'
    BY <2>1, <2>2, <2>3 DEF SentOnce
  <2>6. Origin'
    BY <2>1 DEF Origin, InFrame
  <2> QED BY <2>4, <2>5, <2>6
<1> QED BY <1>1, <1>2, <1>3, <1>4

\* Whatever is read, the table stays within its limit, its assemblies stay
\* within their payloads, and only whole frames are handed over.
LEMMA ReceiveStep ==
    ASSUME TableFit, TableBounded, DeliveredWhole,
           NEW p, InFrame(p),
           DropMismatch(p) \/ KeepPartial(p) \/ DeliverComplete(p)
    PROVE  TableFit' /\ TableBounded' /\ DeliveredWhole'
<1>0. p.id \in Ids /\ p.size \in Nat
  BY IndexFacts DEF InFrame, Packets
<1>1. DOMAIN Without(frames, p.id) = DOMAIN frames \ {p.id}
      /\ \A i \in DOMAIN frames \ {p.id} : Without(frames, p.id)[i] = frames[i]
  BY DEF Without
<1>2. CASE DropMismatch(p)
  <2>1. frames' = Without(frames, p.id) /\ delivered' = delivered
    BY <1>2 DEF DropMismatch, SizeAgrees
  <2>2. TableFit'
    BY <1>1, <2>1 DEF TableFit
  <2>3. IsFiniteSet(DOMAIN frames) /\ IsFiniteSet(Ids)
    <3>1. IsFiniteSet(Ids)
      BY FS_Interval, VideoAssumption DEF Ids
    <3> QED BY <3>1, FS_Subset DEF TableFit
  <2>4. Cardinality(DOMAIN frames') <= Cardinality(DOMAIN frames)
    BY <1>1, <2>1, <2>3, FS_Subset
  <2>5. Cardinality(DOMAIN frames') \in Nat /\ Cardinality(DOMAIN frames) \in Nat
    <3>1. DOMAIN frames' \subseteq DOMAIN frames
      BY <1>1, <2>1
    <3>2. IsFiniteSet(DOMAIN frames')
      BY <2>3, <3>1, FS_Subset
    <3> QED BY <2>3, <3>2, FS_CardinalityType
  <2>6. TableBounded'
    BY <2>4, <2>5, IndexFacts DEF TableBounded
  <2>7. DeliveredWhole'
    BY <2>1 DEF DeliveredWhole
  <2> QED BY <2>2, <2>6, <2>7
<1>3. CASE KeepPartial(p)
  <2> DEFINE table == With(frames, p.id, Copied(p))
  <2>1. /\ frames' = Evicted(table) /\ delivered' = delivered
        /\ Lookup(p).size = p.size /\ Copied(p).count # p.size
    BY <1>3 DEF KeepPartial, SizeAgrees
  <2>2. UnderWay(Copied(p))
    <3>1. Copied(p).count \in 1 .. Copied(p).size - 1
      BY <1>0, <2>1, CopiedFits
    <3> QED BY <2>1, <3>1, CopiedFits DEF UnderWay
  <2>3. /\ DOMAIN table = DOMAIN frames \cup {p.id}
        /\ \A i \in DOMAIN table :
              table[i] = IF i = p.id THEN Copied(p) ELSE frames[i]
    BY DEF With
  <2>4. DOMAIN table \subseteq Ids /\ \A i \in DOMAIN table : UnderWay(table[i])
    BY <1>0, <2>2, <2>3 DEF TableFit
  <2> HIDE DEF table
  <2>5. /\ DOMAIN frames' \subseteq DOMAIN table
        /\ \A i \in DOMAIN frames' : frames'[i] = table[i]
        /\ Cardinality(DOMAIN frames') <= Capacity
    BY <2>1, <2>4, EvictedBounded
  <2>6. TableFit' /\ TableBounded'
    BY <2>4, <2>5 DEF TableFit, TableBounded
  <2> QED BY <2>1, <2>6 DEF DeliveredWhole
<1>4. CASE DeliverComplete(p)
  <2> DEFINE table == Without(frames, p.id)
             d == [run |-> Copied(p).run, id |-> p.id, size |-> p.size,
                   chunks |-> Copied(p).chunks]
  <2>1. /\ frames' = Evicted(table) /\ delivered' = delivered \cup {d}
        /\ Lookup(p).size = p.size /\ Copied(p).count = p.size
    BY <1>4 DEF DeliverComplete, HandOver, SizeAgrees
  <2>2. DOMAIN d.chunks = 0 .. d.size - 1
    BY <2>1, CopiedFits
  <2>3. DOMAIN table \subseteq Ids /\ \A i \in DOMAIN table : UnderWay(table[i])
    BY <1>1 DEF TableFit
  <2> HIDE DEF table, d
  <2>4. /\ DOMAIN frames' \subseteq DOMAIN table
        /\ \A i \in DOMAIN frames' : frames'[i] = table[i]
        /\ Cardinality(DOMAIN frames') <= Capacity
    BY <2>1, <2>3, EvictedBounded
  <2>5. TableFit' /\ TableBounded'
    BY <2>3, <2>4 DEF TableFit, TableBounded
  <2>6. DeliveredWhole'
    BY <2>1, <2>2 DEF DeliveredWhole
  <2> QED BY <2>5, <2>6
<1> QED BY <1>2, <1>3, <1>4

\* The chunks of a copy, and the runs their bytes are from.
LEMMA CopiedChunks ==
    ASSUME TableFit, NEW p, InFrame(p)
    PROVE  /\ Copied(p).run = Lookup(p).run
           /\ DOMAIN Copied(p).chunks = DOMAIN Lookup(p).chunks \cup {p.chunk}
           /\ \A c \in DOMAIN Lookup(p).chunks : c # p.chunk =>
                  Copied(p).chunks[c] = Lookup(p).chunks[c]
           /\ Copied(p).chunks[p.chunk] = p.run
<1> DEFINE a == Lookup(p)
           w == With(a.chunks, p.chunk, p.run)
<1>1. a = [run |-> a.run, size |-> a.size, count |-> a.count, chunks |-> a.chunks]
  <2>1. CASE p.id \in DOMAIN frames
    BY <2>1 DEF Lookup, TableFit, UnderWay, Assemblies
  <2>2. CASE p.id \notin DOMAIN frames
    BY <2>2 DEF Lookup
  <2> QED BY <2>1, <2>2
<1>2. Copied(p) = [a EXCEPT !.chunks = w,
                            !.count = IF p.chunk \in DOMAIN a.chunks THEN @ ELSE @ + 1]
  BY DEF Copied
<1> HIDE DEF a, w
<1>3. Copied(p).run = a.run /\ Copied(p).chunks = w
  BY <1>1, <1>2
<1>4. /\ DOMAIN w = DOMAIN a.chunks \cup {p.chunk}
      /\ \A c \in DOMAIN w : w[c] = IF c = p.chunk THEN p.run ELSE a.chunks[c]
  BY DEF w, With
<1> QED BY <1>3, <1>4 DEF a

\* What is known of an assembly stays known, and a copy is known by the packet
\* copied and by what was known.
LEMMA SourceStep ==
    ASSUME TableFit, Source, NEW p, InFrame(p),
           received' = received \cup {p},
           DropMismatch(p) \/ KeepPartial(p) \/ DeliverComplete(p)
    PROVE  Source'
<1>1. ASSUME NEW id, NEW a, Known(received, id, a) PROVE Known(received', id, a)
  <2>1. received \subseteq received'
    OBVIOUS
  <2> QED BY <1>1, <2>1 DEF Known
<1>2. ASSUME Lookup(p).size = p.size
      PROVE  /\ \E q \in received' : /\ q.id = p.id /\ q.run = Copied(p).run
                                     /\ q.size = p.size
             /\ \A c \in DOMAIN Copied(p).chunks :
                   \E q \in received' : /\ q.id = p.id /\ q.run = Copied(p).chunks[c]
                                        /\ q.size = p.size
  <2>1. CASE p.id \in DOMAIN frames
    <3>1. Lookup(p) = frames[p.id] /\ Known(received, p.id, Lookup(p))
      BY <2>1 DEF Lookup, Source
    <3>2. \E q \in received : q.id = p.id /\ q.run = Copied(p).run /\ q.size = p.size
      BY <1>2, <3>1, CopiedChunks DEF Known
    <3>3. ASSUME NEW c \in DOMAIN Copied(p).chunks
          PROVE  \E q \in received' : /\ q.id = p.id /\ q.run = Copied(p).chunks[c]
                                      /\ q.size = p.size
      <4>1. CASE c = p.chunk
        BY <4>1, CopiedChunks
      <4>2. CASE c # p.chunk
        <5>1. /\ c \in DOMAIN Lookup(p).chunks
              /\ Copied(p).chunks[c] = Lookup(p).chunks[c]
          BY <4>2, CopiedChunks
        <5>2. \E q \in received : /\ q.id = p.id /\ q.run = Lookup(p).chunks[c]
                                  /\ q.size = p.size
          BY <1>2, <3>1, <5>1 DEF Known
        <5> QED BY <5>1, <5>2
      <4> QED BY <4>1, <4>2
    <3> QED BY <3>2, <3>3
  <2>2. CASE p.id \notin DOMAIN frames
    <3>1. Lookup(p).run = p.run /\ DOMAIN Lookup(p).chunks = {}
      BY <2>2 DEF Lookup, EmptyTable
    <3>2. DOMAIN Copied(p).chunks = {p.chunk} /\ Copied(p).run = p.run
          /\ Copied(p).chunks[p.chunk] = p.run
      BY <3>1, CopiedChunks
    <3> QED BY <3>2
  <2> QED BY <2>1, <2>2
<1>3. DOMAIN Without(frames, p.id) = DOMAIN frames \ {p.id}
      /\ \A i \in DOMAIN frames \ {p.id} : Without(frames, p.id)[i] = frames[i]
  BY DEF Without
<1>4. CASE DropMismatch(p)
  <2>1. frames' = Without(frames, p.id) /\ delivered' = delivered
    BY <1>4 DEF DropMismatch, SizeAgrees
  <2> QED BY <1>1, <1>3, <2>1 DEF Source
<1>5. CASE KeepPartial(p)
  <2> DEFINE table == With(frames, p.id, Copied(p))
  <2>1. /\ frames' = Evicted(table) /\ delivered' = delivered
        /\ Lookup(p).size = p.size
    BY <1>5 DEF KeepPartial, SizeAgrees
  <2>2. DOMAIN table = DOMAIN frames \cup {p.id}
        /\ \A i \in DOMAIN table :
              table[i] = IF i = p.id THEN Copied(p) ELSE frames[i]
    BY DEF With
  <2>3. Known(received', p.id, Copied(p))
    BY <1>2, <2>1, CopiedFits DEF Known
  <2>4. \A i \in DOMAIN table : Known(received', i, table[i])
    BY <1>1, <2>2, <2>3 DEF Source
  <2>5. DOMAIN frames' \subseteq DOMAIN table
        /\ \A i \in DOMAIN frames' : frames'[i] = table[i]
    BY <2>1, EvictedKeeps
  <2> HIDE DEF table
  <2> QED BY <1>1, <2>1, <2>4, <2>5 DEF Source
<1>6. CASE DeliverComplete(p)
  <2> DEFINE table == Without(frames, p.id)
             d == [run |-> Copied(p).run, id |-> p.id, size |-> p.size,
                   chunks |-> Copied(p).chunks]
  <2>1. /\ frames' = Evicted(table) /\ delivered' = delivered \cup {d}
        /\ Lookup(p).size = p.size
    BY <1>6 DEF DeliverComplete, HandOver, SizeAgrees
  <2>2. Known(received', d.id, d)
    BY <1>2, <2>1 DEF Known
  <2>3. \A i \in DOMAIN table : Known(received', i, table[i])
    BY <1>1, <1>3 DEF Source
  <2>4. DOMAIN frames' \subseteq DOMAIN table
        /\ \A i \in DOMAIN frames' : frames'[i] = table[i]
    BY <2>1, EvictedKeeps
  <2> HIDE DEF table, d
  <2> QED BY <1>1, <2>1, <2>2, <2>3, <2>4 DEF Source
<1> QED BY <1>4, <1>5, <1>6

\* The metadata of an assembly of one run are those of the frame of that run.
LEMMA SizeKnown ==
    ASSUME SentOnce, Origin, NEW f \in sent, ~Mixed(f),
           NEW i, NEW a, Known(received, i, a), i = f.id
    PROVE  a.size = f.size
<1>1. PICK q \in received : q.id = i /\ q.run = a.run /\ q.size = a.size
  BY DEF Known
<1>2. q.run = f.run
  BY <1>1 DEF Mixed
<1>3. FrameOf(q) \in sent
  BY DEF Origin
<1>4. FrameOf(q) = f
  BY <1>1, <1>2, <1>3 DEF SentOnce, FrameOf
<1> QED BY <1>1, <1>4 DEF FrameOf

\* A frame without Capacity newer ones is not evicted.
LEMMA NotEvicted ==
    ASSUME NEW table, NEW j \in DOMAIN table, NEW S, IsFiniteSet(S),
           Cardinality(S) < Capacity,
           \A k \in DOMAIN table : k > j => k \in S
    PROVE  j \in DOMAIN Evicted(table) /\ Evicted(table)[j] = table[j]
<1> DEFINE Above == {k \in DOMAIN table : k > j}
<1>1. Above \subseteq S
  OBVIOUS
<1>2. IsFiniteSet(Above) /\ Cardinality(Above) <= Cardinality(S)
  BY <1>1, FS_Subset
<1>3. Cardinality(Above) \in Nat /\ Cardinality(S) \in Nat
  BY <1>2, FS_CardinalityType
<1> HIDE DEF Above
<1>4. Cardinality(Above) < Capacity
  BY <1>2, <1>3, IndexFacts
<1> QED BY <1>4 DEF Above, Evicted

\* Reading a packet, the receiver keeps every chunk it has to keep.
LEMMA KeptStep ==
    ASSUME SenderFit, SentOnce, Origin, TableFit, Source, Kept, Source',
           NEW r \in net, received' = received \cup {r}, sent' = sent,
           net' \subseteq net,
           DropMismatch(r) \/ KeepPartial(r) \/ DeliverComplete(r)
    PROVE  Kept'
<1> SUFFICES ASSUME NEW p \in received',
                    ~Delivered(FrameOf(p))', ~Mixed(FrameOf(p))', ~Crowded(FrameOf(p))'
             PROVE  p.id \in DOMAIN frames' /\ p.chunk \in DOMAIN frames'[p.id].chunks
  BY DEF Kept
<1> DEFINE f == FrameOf(p)
           Newer == {q \in received' : q.id > f.id}
           S == {q.id : q \in Newer}
<1>1. /\ InFrame(r) /\ InFrame(p) /\ f \in sent /\ FrameOf(r) \in sent
      /\ f.id = p.id /\ f.run = p.run /\ f.size = p.size
  BY DEF Origin, FrameOf
<1>2. ~Delivered(f) /\ ~Mixed(f)
  BY DEF Delivered, Mixed, DropMismatch, KeepPartial, DeliverComplete, HandOver
<1>3. IsFiniteSet(S) /\ Cardinality(S) < Capacity /\ S \subseteq Ids
  <2>1. \A q \in received' : q.id \in Ids
    BY DEF Origin, InFrame, Packets
  <2>2. IsFiniteSet(Ids) /\ S \subseteq Ids
    BY <2>1, FS_Interval, VideoAssumption DEF Ids
  <2>3. IsFiniteSet(S)
    BY <2>2, FS_Subset
  <2>4. Cardinality(S) \in Nat
    BY <2>3, FS_CardinalityType
  <2>5. ~(Cardinality(S) >= Capacity)
    BY DEF Crowded
  <2> HIDE DEF S
  <2> QED BY <2>2, <2>3, <2>4, <2>5, IndexFacts
<1>4. ~Crowded(f)
  <2> DEFINE Old == {q.id : q \in {q \in received : q.id > f.id}}
  <2>1. Old \subseteq S
    OBVIOUS
  <2>2. Cardinality(Old) <= Cardinality(S) /\ IsFiniteSet(Old)
    BY <1>3, <2>1, FS_Subset
  <2>3. Cardinality(Old) \in Nat /\ Cardinality(S) \in Nat
    BY <1>3, <2>2, FS_CardinalityType
  <2>4. ~(Cardinality(Old) >= Capacity)
    <3> HIDE DEF Old, S
    <3> QED BY <1>3, <2>2, <2>3, IndexFacts
  <2> QED BY <2>4 DEF Crowded
<1>5. p \in received => p.id \in DOMAIN frames /\ p.chunk \in DOMAIN frames[p.id].chunks
  BY <1>2, <1>4 DEF Kept
<1>6. \A k \in DOMAIN frames : k > p.id => k \in S
  <2> SUFFICES ASSUME NEW k \in DOMAIN frames, k > p.id PROVE k \in S
    OBVIOUS
  <2>1. PICK q \in received : q.id = k
    BY DEF Source, Known
  <2> QED BY <2>1, <1>1
<1>7. r.id = p.id => r.run = p.run /\ r.size = p.size
  <2>1. r.id = p.id => r.run = p.run
    BY <1>1 DEF Mixed
  <2> QED BY <1>1, <2>1 DEF SentOnce, FrameOf
<1>8. r.id = p.id => Lookup(r).size = r.size
  <2>1. CASE r.id \in DOMAIN frames
    BY <1>1, <1>2, <1>7, <2>1, SizeKnown DEF Lookup, Source
  <2>2. CASE r.id \notin DOMAIN frames
    BY <2>2 DEF Lookup
  <2> QED BY <2>1, <2>2
<1>9. r.id # p.id => p \in received
  OBVIOUS
<1>10. r.id = p.id => p.chunk \in DOMAIN Copied(r).chunks
  <2> SUFFICES ASSUME r.id = p.id PROVE p.chunk \in DOMAIN Copied(r).chunks
    OBVIOUS
  <2>1. DOMAIN Copied(r).chunks = DOMAIN Lookup(r).chunks \cup {r.chunk}
    BY <1>1, CopiedChunks
  <2>2. CASE p = r
    BY <2>1, <2>2
  <2>3. CASE p # r
    BY <1>5, <2>1, <2>3 DEF Lookup
  <2> QED BY <2>2, <2>3
<1> HIDE DEF S, Newer, f
<1>11. CASE DropMismatch(r)
  BY <1>5, <1>8, <1>9, <1>11 DEF DropMismatch, SizeAgrees, Without
<1>12. CASE KeepPartial(r)
  <2> DEFINE table == With(frames, r.id, Copied(r))
  <2>1. frames' = Evicted(table)
    BY <1>12 DEF KeepPartial, SizeAgrees
  <2>2. /\ DOMAIN table = DOMAIN frames \cup {r.id}
        /\ \A i \in DOMAIN table :
              table[i] = IF i = r.id THEN Copied(r) ELSE frames[i]
    BY DEF With
  <2>3. p.id \in DOMAIN table /\ p.chunk \in DOMAIN table[p.id].chunks
    BY <1>5, <1>9, <1>10, <2>2
  <2>4. \A k \in DOMAIN table : k > p.id => k \in S
    <3>1. r.id > p.id => r.id \in S
      BY <1>1 DEF S, Newer
    <3> HIDE DEF table
    <3> QED BY <1>6, <2>2, <3>1
  <2> HIDE DEF table
  <2>5. p.id \in DOMAIN Evicted(table) /\ Evicted(table)[p.id] = table[p.id]
    BY <1>3, <2>3, <2>4, NotEvicted
  <2> QED BY <2>1, <2>3, <2>5
<1>13. CASE DeliverComplete(r)
  <2> DEFINE table == Without(frames, r.id)
             d == [run |-> Copied(r).run, id |-> r.id, size |-> r.size,
                   chunks |-> Copied(r).chunks]
  <2>1. frames' = Evicted(table) /\ delivered' = delivered \cup {d}
    BY <1>13 DEF DeliverComplete, HandOver, SizeAgrees
  <2>2. r.id # p.id
    <3> SUFFICES ASSUME r.id = p.id PROVE FALSE
      OBVIOUS
    <3>1. /\ r.chunk \in DOMAIN d.chunks /\ d.chunks[r.chunk] = r.run
          /\ d.id = p.id
      BY <1>1, CopiedChunks
    <3> HIDE DEF d
    <3>2. Delivered(f)'
      BY <1>1, <1>7, <2>1, <3>1 DEF Delivered, f
    <3> QED BY <3>2 DEF f
  <2>3. /\ DOMAIN table = DOMAIN frames \ {r.id}
        /\ \A i \in DOMAIN table : table[i] = frames[i]
    BY DEF Without
  <2>4. p.id \in DOMAIN table /\ p.chunk \in DOMAIN table[p.id].chunks
    BY <1>5, <1>9, <2>2, <2>3
  <2>5. \A k \in DOMAIN table : k > p.id => k \in S
    BY <1>6, <2>3
  <2> HIDE DEF table
  <2>6. p.id \in DOMAIN Evicted(table) /\ Evicted(table)[p.id] = table[p.id]
    BY <1>3, <2>4, <2>5, NotEvicted
  <2> QED BY <2>1, <2>4, <2>6
<1> QED BY <1>11, <1>12, <1>13

LEMMA NextIInv == IInv /\ [Next]_vars => IInv'
<1> SUFFICES ASSUME IInv, [Next]_vars PROVE IInv'
  OBVIOUS
<1>0. /\ SenderFit /\ SentOnce /\ Origin /\ TableFit /\ TableBounded
      /\ DeliveredWhole /\ Source /\ Kept /\ Counted
  BY DEF IInv
<1>1. ASSUME UNCHANGED <<frames, delivered, received>>
      PROVE  TableFit' /\ TableBounded' /\ DeliveredWhole' /\ Source' /\ Kept'
  <2>1. TableFit' /\ TableBounded' /\ DeliveredWhole'
    BY <1>0, <1>1 DEF TableFit, UnderWay, TableBounded, DeliveredWhole
  <2>2. Source'
    BY <1>0, <1>1 DEF Source, Known
  <2>3. Kept'
    BY <1>0, <1>1 DEF Kept, Delivered, Mixed, Crowded
  <2> QED BY <2>1, <2>2, <2>3
<1>2. ASSUME UNCHANGED senderVars PROVE SenderFit' /\ SentOnce'
  BY <1>0, <1>2 DEF SenderFit, SentOnce, senderVars
<1>3. CASE \/ \E size \in Sizes : StartFrame(size)
           \/ SendChunk \/ ShortSend \/ RestartSender
  <2>1. UNCHANGED <<faults, receiverVars>>
    BY <1>3 DEF StartFrame, SendChunk, ShortSend, RestartSender
  <2>2. SenderFit' /\ SentOnce' /\ Origin'
    BY <1>0, <1>3, SenderStep
  <2>3. Counted'
    BY <1>0, <2>1 DEF Counted, receiverVars
  <2> QED BY <1>1, <2>1, <2>2, <2>3 DEF IInv, receiverVars
<1>4. CASE Lose
  <2>1. /\ UNCHANGED <<senderVars, receiverVars>> /\ net' \subseteq net
        /\ faults < MaxFaults /\ faults' = faults + 1
    BY <1>4 DEF Lose
  <2>2. Origin'
    BY <1>0, <2>1 DEF Origin, InFrame, senderVars, receiverVars
  <2>3. Counted'
    BY <1>0, <2>1, VideoAssumption DEF Counted, receiverVars
  <2> QED BY <1>1, <1>2, <2>1, <2>2, <2>3 DEF IInv, receiverVars
<1>5. CASE \E p \in Packets : Receive(p)
  <2>1. PICK p \in Packets : Receive(p)
    BY <1>5
  <2>2. /\ p \in net /\ net' \subseteq net /\ UNCHANGED senderVars
        /\ received' = received \cup {p} /\ outcome = "receiving"
        /\ faults' = faults \/ (faults < MaxFaults /\ faults' = faults + 1)
        /\ DropMismatch(p) \/ KeepPartial(p) \/ DeliverComplete(p)
    BY <2>1 DEF Receive
  <2>3. InFrame(p)
    BY <1>0, <2>2 DEF Origin
  <2>4. TableFit' /\ TableBounded' /\ DeliveredWhole'
    BY <1>0, <2>2, <2>3, ReceiveStep
  <2>5. Source'
    BY <1>0, <2>2, <2>3, SourceStep
  <2>6. Kept'
    BY <1>0, <2>2, <2>5, KeptStep DEF senderVars
  <2>7. Origin'
    BY <1>0, <2>2 DEF Origin, InFrame, senderVars
  <2>8. Counted'
    <3>1. faults' \in 0 .. MaxFaults
      BY <1>0, <2>2, VideoAssumption DEF Counted
    <3>2. CASE UNCHANGED <<completed, outcome>>
      BY <1>0, <3>1, <3>2 DEF Counted
    <3>3. CASE /\ MaxFrames # 0 /\ completed' = completed + 1
               /\ outcome' = IF completed + 1 = MaxFrames THEN "complete" ELSE outcome
      BY <1>0, <2>2, <3>1, <3>3, VideoAssumption DEF Counted
    <3> QED BY <2>2, <3>2, <3>3 DEF DropMismatch, KeepPartial, DeliverComplete, SizeAgrees
  <2> QED BY <1>2, <2>2, <2>4, <2>5, <2>6, <2>7, <2>8 DEF IInv
<1>6. CASE Timeout
  <2>1. UNCHANGED <<senderVars, net, faults, frames, completed, received, delivered>>
    BY <1>6 DEF Timeout
  <2>2. Counted'
    BY <1>0, <1>6 DEF Timeout, Counted
  <2>3. Origin'
    BY <1>0, <2>1 DEF Origin, InFrame, senderVars
  <2> QED BY <1>1, <1>2, <2>1, <2>2, <2>3 DEF IInv
<1>7. CASE UNCHANGED vars
  <2>1. UNCHANGED <<senderVars, net, faults, receiverVars>>
    BY <1>7 DEF vars
  <2>2. Counted' /\ Origin'
    BY <1>0, <2>1 DEF Counted, Origin, InFrame, senderVars, receiverVars
  <2> QED BY <1>1, <1>2, <2>1, <2>2 DEF IInv, receiverVars
<1> QED BY <1>3, <1>4, <1>5, <1>6, <1>7 DEF Next

\* IInv holds in every reachable state.
THEOREM Invariance == Spec => []IInv
<1> QED BY InitIInv, NextIInv, PTL DEF Spec
----------------------------------------------------------------------------
(***************************************************************************)
(* The theorems.                                                           *)
(***************************************************************************)
\* The receiver never keeps more than Capacity incomplete frames, whatever is
\* lost, repeated, reordered or left over from another run of the sender.
THEOREM BoundedTable == Spec => []TableBounded
<1>1. IInv => TableBounded
  BY DEF IInv
<1> QED BY <1>1, Invariance, PTL

\* No chunk is ever copied outside the payload of its assembly.
THEOREM MemorySafety == Spec => []CopiesFit
<1>1. IInv => CopiesFit
  BY DEF IInv, TableFit, UnderWay, CopiesFit
<1> QED BY <1>1, Invariance, PTL

\* The byte count of an assembly is the number of distinct bytes in it, and no
\* complete frame stays in the table.
THEOREM CountsExact == Spec => []TableUnderWay
<1>1. IInv => TableUnderWay
  BY DEF IInv, TableFit, UnderWay, TableUnderWay
<1> QED BY <1>1, Invariance, PTL

\* The variables hold values of their types, whatever the bounds.
THEOREM TypeCorrect == Spec => []TypeOK
<1>1. IInv => TypeOK
  BY DEF IInv, SenderFit, Origin, InFrame, TableFit, UnderWay, Counted, TypeOK
<1> QED BY <1>1, Invariance, PTL

\* The callback is given whole frames only, and frames that were sent unless
\* two runs share the id.
THEOREM FramesIntact == Spec => []DeliveredIntact
<1>1. IInv => DeliveredIntact
  <2> SUFFICES ASSUME IInv, NEW d \in delivered
               PROVE  /\ DOMAIN d.chunks = 0 .. d.size - 1
                      /\ \/ Mixed(d)
                         \/ /\ [run |-> d.run, id |-> d.id, size |-> d.size] \in sent
                            /\ \A c \in DOMAIN d.chunks : d.chunks[c] = d.run
    BY DEF DeliveredIntact
  <2>1. DOMAIN d.chunks = 0 .. d.size - 1
    BY DEF IInv, DeliveredWhole
  <2>2. Known(received, d.id, d) /\ Origin
    BY DEF IInv, Source
  <2>3. PICK q \in received : q.id = d.id /\ q.run = d.run /\ q.size = d.size
    BY <2>2 DEF Known
  <2>4. [run |-> d.run, id |-> d.id, size |-> d.size] \in sent
    BY <2>2, <2>3 DEF Origin, FrameOf
  <2>5. ASSUME ~Mixed(d), NEW c \in DOMAIN d.chunks PROVE d.chunks[c] = d.run
    BY <2>2, <2>5 DEF Known, Mixed
  <2> QED BY <2>1, <2>4, <2>5
<1> QED BY <1>1, Invariance, PTL

\* A frame whose datagrams have all been read has been delivered, unless its
\* id is used twice or Capacity higher ids came.
THEOREM NoFrameBlocked == Spec => []FramesDelivered
<1>1. IInv => FramesDelivered
  <2> SUFFICES ASSUME IInv, NEW f \in sent, PacketsOf(f) \subseteq received,
                      ~Delivered(f), ~Mixed(f), ~Crowded(f)
               PROVE  FALSE
    BY DEF FramesDelivered, Owed
  <2>1. /\ SenderFit /\ SentOnce /\ Origin /\ TableFit /\ Source /\ Kept
    BY DEF IInv
  <2>2. f \in Frames /\ f.size \in Nat /\ f.size >= 1
    BY <2>1, IndexFacts DEF SenderFit, Frames
  <2>3. ASSUME NEW c \in 0 .. f.size - 1
        PROVE  f.id \in DOMAIN frames /\ c \in DOMAIN frames[f.id].chunks
    <3> DEFINE p == PacketOf(f, c)
    <3>1. p \in received
      BY DEF PacketsOf
    <3>2. FrameOf(p) = f /\ p.id = f.id /\ p.chunk = c
      BY <2>2 DEF FrameOf, PacketOf, Frames
    <3> HIDE DEF p
    <3> QED BY <2>1, <3>1, <3>2 DEF Kept
  <2>4. f.id \in DOMAIN frames
    <3>1. 0 \in 0 .. f.size - 1
      BY <2>2
    <3> QED BY <2>3, <3>1
  <2> DEFINE a == frames[f.id]
  <2>5. UnderWay(a) /\ a.size = f.size
    BY <2>1, <2>4, SizeKnown DEF TableFit, Source
  <2>6. DOMAIN a.chunks = 0 .. f.size - 1
    BY <2>3, <2>5 DEF UnderWay
  <2>7. Cardinality(0 .. f.size - 1) = f.size
    BY <2>2, FS_Interval, SMTT(30)
  <2> HIDE DEF a
  <2> QED BY <2>2, <2>5, <2>6, <2>7 DEF UnderWay
<1> QED BY <1>1, Invariance, PTL
----------------------------------------------------------------------------
(***************************************************************************)
(* The refinement.  send_frame being entered is a frame given to the       *)
(* channel, a complete frame leaving the table is the channel giving one,  *)
(* and a receive that gives up stops the channel; datagrams sent, lost and *)
(* kept are steps of this module alone.  That the bytes handed over come   *)
(* from frames sent with the same id and size is what Source and Origin    *)
(* say of the packet that completes them.                                  *)
(***************************************************************************)
\* Every byte of a frame handed over is of a run that sent a frame with this
\* id and this size.
LEMMA HandedOverArrives ==
    ASSUME TableFit, DeliveredWhole, Source', Origin', sent' = sent,
           NEW p, InFrame(p), DeliverComplete(p)
    PROVE  \E f \in sent : \E d \in Channel!Arriving(f) :
               delivered' = delivered \cup {d}
<1> DEFINE d == [run |-> Copied(p).run, id |-> p.id, size |-> p.size,
                 chunks |-> Copied(p).chunks]
<1>1. /\ delivered' = delivered \cup {d}
      /\ Lookup(p).size = p.size /\ Copied(p).count = p.size
  BY DEF DeliverComplete, HandOver, SizeAgrees
<1>2. Known(received', d.id, d)
  BY <1>1 DEF Source
<1>3. PICK q \in received' : q.id = d.id /\ q.run = d.run /\ q.size = d.size
  BY <1>2 DEF Known
<1> DEFINE f == FrameOf(q)
<1>4. f \in sent /\ f.run = d.run /\ f.id = d.id /\ f.size = d.size
  BY <1>3 DEF Origin, FrameOf
<1>5. DOMAIN d.chunks = 0 .. f.size - 1
  BY <1>1, <1>4, CopiedFits
<1>6. \A c \in DOMAIN d.chunks : d.chunks[c] \in Channel!RunsOf(f)
  <2> SUFFICES ASSUME NEW c \in DOMAIN d.chunks
               PROVE  d.chunks[c] \in Channel!RunsOf(f)
    OBVIOUS
  <2>1. PICK r \in received' : r.id = d.id /\ r.run = d.chunks[c] /\ r.size = d.size
    BY <1>2 DEF Known
  <2>2. /\ FrameOf(r) \in sent /\ FrameOf(r).run = d.chunks[c]
        /\ FrameOf(r).id = d.id /\ FrameOf(r).size = d.size
    BY <2>1 DEF Origin, FrameOf
  <2> HIDE DEF d, f
  <2> QED BY <1>4, <2>2 DEF Channel!RunsOf
<1>7. d.chunks \in UNION {[C -> Runs] : C \in SUBSET Indices}
  BY <1>1, CopiedFits DEF Assemblies
<1>8. d = [run |-> f.run, id |-> f.id, size |-> f.size, chunks |-> d.chunks]
  BY <1>4
<1> HIDE DEF d, f
<1>9. d.chunks \in [0 .. f.size - 1 -> Channel!RunsOf(f)]
  BY <1>5, <1>6, <1>7
<1>10. d \in Channel!Arriving(f)
  BY <1>8, <1>9 DEF Channel!Arriving
<1> QED BY <1>1, <1>4, <1>10

LEMMA NextChannel == IInv /\ IInv' /\ [Next]_vars
                         => [Channel!ChannelNext]_Channel!channelVars
<1> SUFFICES ASSUME IInv, IInv', [Next]_vars
             PROVE  \/ Channel!ChannelNext
                    \/ UNCHANGED <<sent, delivered, completed, outcome>>
  BY DEF Channel!channelVars
<1>1. CASE \E size \in Sizes : StartFrame(size)
  <2>1. PICK size \in Sizes : StartFrame(size)
    BY <1>1
  <2> DEFINE f == [run |-> run, id |-> nextId, size |-> size]
  <2>2. /\ sent' = sent \cup {f} /\ nextId <= MaxId
        /\ UNCHANGED <<delivered, completed, outcome>>
    BY <2>1 DEF StartFrame, receiverVars
  <2>3. f \in Frames /\ f.run = run /\ f.id = nextId
    BY <2>2 DEF IInv, SenderFit, Frames, Ids
  <2>4. \A g \in sent : g.run \in Nat
    BY VideoAssumption DEF IInv, SenderFit, Frames, Runs
  <2>5. run \in Nat
    BY VideoAssumption DEF IInv, SenderFit, Runs
  <2> HIDE DEF f
  <2>6. \A g \in sent : g.run < f.run \/ (g.run = f.run /\ g.id < f.id)
    BY <2>3, <2>4, <2>5 DEF IInv, SentOnce
  <2>7. Channel!Send(f)
    BY <2>2, <2>6 DEF Channel!Send
  <2> QED BY <2>3, <2>7 DEF Channel!ChannelNext
<1>2. CASE SendChunk \/ ShortSend \/ RestartSender
  BY <1>2 DEF SendChunk, ShortSend, RestartSender, receiverVars
<1>3. CASE Lose
  BY <1>3 DEF Lose, senderVars, receiverVars
<1>4. CASE \E p \in Packets : Receive(p)
  <2>1. PICK p \in Packets : Receive(p)
    BY <1>4
  <2>2. /\ p \in net /\ UNCHANGED senderVars /\ outcome = "receiving"
        /\ DropMismatch(p) \/ KeepPartial(p) \/ DeliverComplete(p)
    BY <2>1 DEF Receive
  <2>3. InFrame(p) /\ sent' = sent
    BY <2>2 DEF IInv, Origin, senderVars
  <2>4. CASE DropMismatch(p) \/ KeepPartial(p)
    BY <2>3, <2>4 DEF DropMismatch, KeepPartial
  <2>5. CASE DeliverComplete(p)
    <3>1. PICK f \in sent : \E d \in Channel!Arriving(f) :
                                delivered' = delivered \cup {d}
      BY <2>3, <2>5, HandedOverArrives DEF IInv
    <3>2. Channel!Counts
      <4>1. CASE MaxFrames = 0
        BY <2>5, <4>1 DEF DeliverComplete, Channel!Counts
      <4>2. CASE MaxFrames # 0
        <5>1. completed < MaxFrames
          BY <2>2, <4>2 DEF IInv, Counted
        <5>2. /\ completed' = completed + 1
              /\ outcome' = IF completed + 1 = MaxFrames THEN "complete" ELSE outcome
          BY <2>5, <4>2 DEF DeliverComplete
        <5> QED BY <5>1, <5>2 DEF Channel!Counts
      <4> QED BY <4>1, <4>2
    <3>3. Channel!Give(f)
      BY <2>2, <2>3, <3>1, <3>2 DEF Channel!Give
    <3> QED BY <3>3 DEF Channel!ChannelNext
  <2> QED BY <2>2, <2>4, <2>5
<1>5. CASE Timeout
  <2>1. /\ outcome = "receiving" /\ UNCHANGED <<senderVars, completed, delivered>>
        /\ outcome' = IF MaxFrames = 0 THEN "receiving" ELSE "timed_out"
    BY <1>5 DEF Timeout
  <2>2. CASE MaxFrames = 0
    BY <2>1, <2>2 DEF senderVars
  <2>3. CASE MaxFrames # 0
    BY <2>1, <2>3 DEF senderVars, Channel!GiveUp, Channel!ChannelNext
  <2> QED BY <2>2, <2>3
<1>6. CASE UNCHANGED vars
  BY <1>6 DEF vars, senderVars, receiverVars
<1> QED BY <1>1, <1>2, <1>3, <1>4, <1>5, <1>6 DEF Next

LEMMA InitChannel == Init => Channel!ChannelInit
<1> QED BY DEF Init, Channel!ChannelInit

\* Sender, network and receiver are an unreliable channel of whole frames: what
\* the callback gets was sent under this id and size, nothing comes after the
\* receiver stopped, and never more than the frames it was asked for.
THEOREM ChannelKept == Spec => ImplementsChannel
<1> QED BY InitChannel, NextChannel, Invariance, PTL
        DEF Spec, ImplementsChannel, Channel!ChannelSpec
=============================================================================
