------------------------ MODULE ImagePipeline_proofs ------------------------
(***************************************************************************)
(* The way of a frame to the proxy's datagrams, for any number of runs,    *)
(* frames, connections and failures: what is sent is whole, and in the     *)
(* order of the frames' numbers.  IInv follows the pieces of a connection  *)
(* from what its thread has read to what the client writes next.  RInv     *)
(* adds what the mapping to ImageRelay needs: the headers of a connection  *)
(* ascend up to the frame being written.                                   *)
(***************************************************************************)
EXTENDS ImagePipeline, TLAPS

\* q is the piece after p.
Follows(p, q) == IF p.part = p.frame.size
                 THEN q.part = 0 /\ Newer(q.frame, p.frame)
                 ELSE q = Piece(p.frame, p.part + 1)

InPayload(c) == thread[c] \in {"payload", "drain"}

\* q is what the thread of c waits for.
Comes(c, q) == IF InPayload(c)
               THEN q = Piece(header[c], Len(payload[c]) + 1)
               ELSE q.part = 0 /\ (header[c] # NoFrame => Newer(q.frame, header[c]))

\* q may be written to c; the last frame written to c is whole.
MayWrite(c, q) == IF stream[c] = <<>> THEN Comes(c, q)
                  ELSE Follows(stream[c][Len(stream[c])], q)

Between(c) == IF stream[c] = <<>> THEN ~InPayload(c)
              ELSE LET p == stream[c][Len(stream[c])] IN p.part = p.frame.size

\* The pieces of c follow one another, from the one the thread waits for to
\* the one the client writes next.
Chain(c) ==
    /\ \A i \in 1 .. Len(stream[c]) - 1 : Follows(stream[c][i], stream[c][i + 1])
    /\ stream[c] # <<>> => Comes(c, stream[c][1])
    /\ sock = c /\ thread[c] # "ended" =>
          IF sending = NoFrame THEN Between(c) ELSE MayWrite(c, Piece(sending, written))

\* The client writes to the connection made last.
ClientEnd == /\ sock \in {0, conns}
             /\ \A c \in Conns : writing[c] <=> sock = c
             /\ sending # NoFrame => sock # 0 /\ written <= sending.size

\* The thread of c, what it has read and what it has sent.
ThreadEnd(c) ==
    /\ c > conns <=> thread[c] = "none"
    /\ thread[c] \in {"none", "queued"} => header[c] = NoFrame
    /\ thread[c] \in {"none", "ended"} => stream[c] = <<>>
    /\ InPayload(c) \/ thread[c] = "datagrams" => header[c] # NoFrame
    /\ InPayload(c) => Len(payload[c]) < header[c].size
    /\ thread[c] = "datagrams" => Len(payload[c]) = header[c].size
    /\ thread[c] \in {"payload", "datagrams"} =>
          payload[c] = [k \in 1 .. Len(payload[c]) |-> Piece(header[c], k)]
    /\ last[c] # NoFrame =>
          /\ header[c] # NoFrame
          /\ \/ Newer(header[c], last[c])
             \/ last[c] = header[c] /\ ~InPayload(c) /\ thread[c] # "datagrams"

\* The frames of c that can still be sent.
Carried(c) == {f \in Frames : \/ header[c] = f
                              \/ \E i \in DOMAIN stream[c] : stream[c][i].frame = f
                              \/ sock = c /\ sending = f}

Past(f) == f.run < run \/ (f.run = run /\ f.seq < sequence)

\* Frames are as old as their connections.
Ages == /\ \A c \in Conns : \A f \in Carried(c) : Past(f)
        /\ \A c, d \in Conns : c < d =>
              \A f \in Carried(c), g \in Carried(d) : Newer(g, f)

IInv == /\ TypeOK /\ ClientEnd
        /\ \A c \in Conns : ThreadEnd(c) /\ Chain(c)
        /\ Ages
----------------------------------------------------------------------------
(***************************************************************************)
(* The helpers.                                                            *)
(***************************************************************************)
LEMMA Bounds == /\ MaxRuns \in Nat /\ MaxSeq \in Nat /\ MaxConns \in Nat
                /\ MaxFailures \in Nat /\ MaxBuffered \in Nat /\ Sizes \subseteq Nat
                /\ MaxRuns >= 1 /\ MaxBuffered >= 1
                /\ \A n \in Sizes : n >= 1
                /\ \A c \in Conns : c \in Nat /\ c # 0 /\ c <= MaxConns
                /\ \A c \in Nat : c # 0 /\ c <= MaxConns => c \in Conns
<1> QED BY PipelineAssumption DEF Conns

LEMMA FrameFields == \A f \in Frames : /\ f.run \in Nat /\ f.run >= 1 /\ f.run <= MaxRuns
                                       /\ f.seq \in Nat /\ f.seq <= MaxSeq
                                       /\ f.size \in Nat /\ f.size >= 1
<1> SUFFICES ASSUME NEW f \in Frames
             PROVE  /\ f.run \in Nat /\ f.run >= 1 /\ f.run <= MaxRuns
                    /\ f.seq \in Nat /\ f.seq <= MaxSeq
                    /\ f.size \in Nat /\ f.size >= 1
  OBVIOUS
<1>1. f.run \in 1 .. MaxRuns /\ f.seq \in 0 .. MaxSeq /\ f.size \in Sizes
  BY DEF Frames
<1>2. /\ \A n \in 1 .. MaxRuns : n \in Nat /\ n >= 1 /\ n <= MaxRuns
      /\ \A n \in 0 .. MaxSeq : n \in Nat /\ n <= MaxSeq
  BY Bounds
<1> QED BY <1>1, <1>2, Bounds

LEMMA PieceFields == \A f, k : Piece(f, k).frame = f /\ Piece(f, k).part = k
<1> QED BY DEF Piece

LEMMA PieceType == \A f \in Frames, k \in Nat : Piece(f, k) \in Pieces
<1> QED BY DEF Piece, Pieces

LEMMA NewerTransitive ==
    ASSUME NEW f \in Frames, NEW g \in Frames, NEW h \in Frames, Newer(f, g), Newer(g, h)
    PROVE  Newer(f, h)
<1> QED BY FrameFields DEF Newer

\* A piece is taken from the head of a connection.
LEMMA HeadTaken ==
    ASSUME NEW S, NEW v \in Seq(S), v # <<>>
    PROVE  /\ Head(v) \in S /\ Head(v) = v[1]
           /\ Tail(v) \in Seq(S) /\ Len(Tail(v)) = Len(v) - 1 /\ Len(v) \in Nat \ {0}
           /\ DOMAIN v = 1 .. Len(v)
           /\ \A i \in 1 .. Len(v) - 1 : Tail(v)[i] = v[i + 1]
           /\ Tail(v) # <<>> => /\ 1 \in 1 .. Len(v) - 1
                                /\ Tail(v)[1] = v[2]
                                /\ Tail(v)[Len(Tail(v))] = v[Len(v)]
           /\ Tail(v) = <<>> => v[Len(v)] = v[1]
<1>1. /\ Head(v) \in S /\ Head(v) = v[1] /\ Len(v) \in Nat \ {0}
      /\ Tail(v) \in Seq(S) /\ Len(Tail(v)) = Len(v) - 1
      /\ DOMAIN v = 1 .. Len(v)
      /\ \A i \in 1 .. Len(v) - 1 : Tail(v)[i] = v[i + 1]
  OBVIOUS
<1>2. PICK m \in Nat \ {0} : m = Len(v)
  BY <1>1
<1>3. ASSUME Tail(v) # <<>>
      PROVE  /\ 1 \in 1 .. Len(v) - 1
             /\ Tail(v)[1] = v[2]
             /\ Tail(v)[Len(Tail(v))] = v[Len(v)]
  <2>1. Len(Tail(v)) # 0
    BY <1>1, <1>3
  <2>2. m - 1 \in Nat \ {0}
    BY <1>1, <1>2, <2>1
  <2>3. 1 \in 1 .. m - 1 /\ m - 1 \in 1 .. m - 1 /\ (m - 1) + 1 = m /\ 1 + 1 = 2
    BY <2>2
  <2>4. Tail(v)[1] = v[1 + 1] /\ Tail(v)[m - 1] = v[(m - 1) + 1]
    BY <1>1, <1>2, <2>3
  <2> QED BY <1>1, <1>2, <2>3, <2>4
<1>4. ASSUME Tail(v) = <<>> PROVE v[Len(v)] = v[1]
  <2>1. CASE m = 1
    BY <1>2, <2>1
  <2>2. CASE m # 1
    <3>1. m - 1 # 0 /\ Len(Tail(v)) = m - 1
      BY <1>1, <1>2, <2>2
    <3>2. Len(<<>>) = 0
      OBVIOUS
    <3> QED BY <1>4, <3>1, <3>2, Zenon
  <2> QED BY <2>1, <2>2
<1> QED BY <1>1, <1>3, <1>4

\* A piece is put at the end of a connection.
LEMMA EndPut ==
    ASSUME NEW S, NEW v \in Seq(S), NEW x \in S
    PROVE  /\ Append(v, x) \in Seq(S) /\ Len(Append(v, x)) = Len(v) + 1 /\ Len(v) \in Nat
           /\ Append(v, x) # <<>>
           /\ DOMAIN v = 1 .. Len(v) /\ DOMAIN Append(v, x) = 1 .. Len(v) + 1
           /\ \A i \in 1 .. Len(v) : Append(v, x)[i] = v[i]
           /\ Append(v, x)[Len(v) + 1] = x
<1> QED OBVIOUS

LEMMA InitIInv == Init => IInv
<1> SUFFICES ASSUME Init PROVE IInv
  OBVIOUS
<1>1. TypeOK
  <2>1. /\ stream \in [Conns -> Seq(Pieces)] /\ payload \in [Conns -> Seq(Pieces)]
        /\ \A c \in Conns : Len(stream[c]) = 0
    BY DEF Init
  <2>2. /\ writing \in [Conns -> BOOLEAN] /\ thread \in [Conns -> ThreadStates]
        /\ header \in [Conns -> Frames \cup {NoFrame}]
        /\ last \in [Conns -> Frames \cup {NoFrame}]
        /\ host \in [Conns -> {"none", "open", "closed"}] /\ offset \in [Conns -> Nat]
        /\ \A c \in Conns : header[c] = NoFrame
    BY DEF Init, ThreadStates
  <2>3. /\ run \in 1 .. MaxRuns /\ sequence \in 0 .. MaxSeq + 1 /\ conns \in 0 .. MaxConns
        /\ sock \in 0 .. conns /\ failures \in 0 .. MaxFailures
    BY Bounds DEF Init
  <2>4. /\ recent \in BOOLEAN /\ sending \in Frames \cup {NoFrame} /\ written \in Nat
        /\ proxy \in {"down", "up", "deaf"}
    BY DEF Init
  <2> QED BY <2>1, <2>2, <2>3, <2>4, Bounds DEF TypeOK
<1>2. ClientEnd
  BY Bounds DEF Init, ClientEnd
<1>3. ASSUME NEW c \in Conns PROVE ThreadEnd(c) /\ Chain(c) /\ Carried(c) = {}
  <2>1. /\ stream[c] = <<>> /\ thread[c] = "none" /\ header[c] = NoFrame
        /\ last[c] = NoFrame /\ sock = 0 /\ c # 0
    BY Bounds DEF Init
  <2>2. 1 .. Len(stream[c]) - 1 = {} /\ DOMAIN stream[c] = {}
    BY <2>1
  <2>3. c > conns
    BY Bounds DEF Init
  <2>4. ThreadEnd(c)
    BY <2>1, <2>3 DEF ThreadEnd, InPayload
  <2> QED BY <2>1, <2>2, <2>4, NoFrameAssumption DEF Chain, Carried
<1>4. Ages
  BY <1>3 DEF Ages
<1> QED BY <1>1, <1>2, <1>3, <1>4 DEF IInv

\* When no frame comes and no number goes back, the ages stay.
LEMMA AgesStay ==
    ASSUME IInv, \A c \in Conns : Carried(c)' \subseteq Carried(c),
           \/ run' = run /\ sequence' \in {sequence, sequence + 1}
           \/ run' = run + 1
    PROVE  Ages'
<1>1. /\ Ages /\ run \in Nat /\ sequence \in Nat
  BY Bounds DEF IInv, TypeOK
<1>2. \A c \in Conns : Carried(c) \subseteq Frames
  BY DEF Carried
<1>3. \A f \in Frames : Past(f) => Past(f)'
  <2> SUFFICES ASSUME NEW f \in Frames, Past(f) PROVE Past(f)'
    OBVIOUS
  <2>1. f.run \in Nat /\ f.seq \in Nat
    BY FrameFields
  <2> QED BY <1>1, <2>1 DEF Past
<1>4. ASSUME NEW c \in Conns, NEW f \in Carried(c)' PROVE Past(f)'
  BY <1>1, <1>2, <1>3 DEF Ages
<1>5. ASSUME NEW c \in Conns, NEW d \in Conns, c < d,
             NEW f \in Carried(c)', NEW g \in Carried(d)'
      PROVE  Newer(g, f)
  BY <1>1, <1>5 DEF Ages
<1> QED BY <1>4, <1>5 DEF Ages
----------------------------------------------------------------------------
(***************************************************************************)
(* The threads of the proxy.                                               *)
(***************************************************************************)
\* A step of one thread leaves the other connections as they are.
LEMMA ThreadMoves ==
    ASSUME IInv, NEW c \in Conns, ProxyStep, TypeOK',
           \A d \in Conns : d # c =>
              /\ stream'[d] = stream[d] /\ thread'[d] = thread[d]
              /\ header'[d] = header[d] /\ payload'[d] = payload[d]
              /\ last'[d] = last[d],
           ThreadEnd(c)', Chain(c)', Carried(c)' \subseteq Carried(c)
    PROVE  IInv'
<1>0. /\ TypeOK /\ ClientEnd /\ Ages /\ (\A d \in Conns : ThreadEnd(d) /\ Chain(d))
      /\ UNCHANGED <<run, sequence, sock, recent, sending, written, conns, writing, proxy>>
  BY DEF IInv, ProxyStep, clientVars
<1>1. ClientEnd'
  BY <1>0 DEF ClientEnd
<1>2. ASSUME NEW d \in Conns, d # c
      PROVE  ThreadEnd(d)' /\ Chain(d)' /\ Carried(d)' = Carried(d)
  <2>1. /\ stream'[d] = stream[d] /\ thread'[d] = thread[d] /\ header'[d] = header[d]
        /\ payload'[d] = payload[d] /\ last'[d] = last[d]
    BY <1>2
  <2>2. ThreadEnd(d)'
    BY <1>0, <2>1 DEF ThreadEnd, InPayload
  <2>3. Chain(d)'
    BY <1>0, <2>1 DEF Chain, Comes, Between, MayWrite, InPayload
  <2>4. Carried(d)' = Carried(d)
    BY <1>0, <2>1 DEF Carried
  <2> QED BY <2>2, <2>3, <2>4
<1>3. \A d \in Conns : ThreadEnd(d)' /\ Chain(d)' /\ Carried(d)' \subseteq Carried(d)
  BY <1>2
<1>4. Ages'
  BY <1>0, <1>3, AgesStay
<1> QED BY <1>1, <1>3, <1>4 DEF IInv

\* A thread has read a piece: what came after it in the stream, or what the
\* client writes next, is what it waits for now.
LEMMA ChainRead ==
    ASSUME IInv, NEW c \in Conns, ProxyStep, stream[c] # <<>>,
           stream'[c] = Tail(stream[c]),
           \A q : Follows(stream[c][1], q) => Comes(c, q)',
           stream[c][1].part = stream[c][1].frame.size => ~InPayload(c)',
           thread'[c] # "ended"
    PROVE  Chain(c)'
<1>0. /\ Chain(c) /\ ThreadEnd(c) /\ stream[c] \in Seq(Pieces)
      /\ UNCHANGED <<sock, sending, written>>
  BY DEF IInv, TypeOK, ProxyStep, clientVars
<1> DEFINE v == stream[c]
           p == v[Len(v)]
<1>1. /\ Len(v) \in Nat \ {0} /\ Len(stream'[c]) = Len(v) - 1
      /\ \A i \in 1 .. Len(v) - 1 : stream'[c][i] = v[i + 1]
      /\ stream'[c] # <<>> => /\ 1 \in 1 .. Len(v) - 1 /\ stream'[c][1] = v[2]
                              /\ stream'[c][Len(stream'[c])] = p
      /\ stream'[c] = <<>> => p = v[1]
  BY <1>0, HeadTaken
<1>2. ASSUME NEW i \in 1 .. Len(stream'[c]) - 1
      PROVE  Follows(stream'[c][i], stream'[c][i + 1])
  <2>1. i \in 1 .. Len(v) - 1 /\ i + 1 \in 1 .. Len(v) - 1
    BY <1>1
  <2>2. Follows(v[i + 1], v[(i + 1) + 1])
    BY <1>0, <2>1 DEF Chain
  <2> QED BY <1>1, <2>1, <2>2
<1>3. ASSUME stream'[c] # <<>> PROVE Comes(c, stream[c][1])'
  <2>1. 1 \in 1 .. Len(v) - 1 /\ stream'[c][1] = v[2] /\ 1 + 1 = 2
    BY <1>1, <1>3
  <2>2. Follows(v[1], v[1 + 1])
    BY <1>0, <2>1 DEF Chain
  <2> QED BY <2>1, <2>2
<1>4. ASSUME sock = c
      PROVE  IF sending = NoFrame THEN Between(c)' ELSE MayWrite(c, Piece(sending, written))'
  <2>1. thread[c] # "ended"
    BY <1>0 DEF ThreadEnd
  <2>2. IF sending = NoFrame THEN p.part = p.frame.size
                             ELSE Follows(p, Piece(sending, written))
    BY <1>0, <1>4, <2>1 DEF Chain, Between, MayWrite
  <2>3. CASE stream'[c] = <<>>
    BY <1>0, <1>1, <2>2, <2>3 DEF Between, MayWrite
  <2>4. CASE stream'[c] # <<>>
    BY <1>0, <1>1, <2>2, <2>4 DEF Between, MayWrite
  <2> QED BY <2>3, <2>4
<1> QED BY <1>0, <1>2, <1>3, <1>4 DEF Chain

\* A thread that takes no piece still waits for the same.
LEMMA ChainStays ==
    ASSUME IInv, NEW c \in Conns, ProxyStep,
           stream'[c] = stream[c], header'[c] = header[c], payload'[c] = payload[c],
           InPayload(c)' <=> InPayload(c), thread'[c] # "ended", thread[c] # "ended"
    PROVE  Chain(c)' /\ Carried(c)' \subseteq Carried(c)
<1>1. Chain(c) /\ UNCHANGED <<sock, sending, written>>
  BY DEF IInv, ProxyStep, clientVars
<1>2. \A q : Comes(c, q)' <=> Comes(c, q)
  BY DEF Comes
<1>3. \A q : MayWrite(c, q)' <=> MayWrite(c, q)
  BY <1>2 DEF MayWrite
<1>4. Between(c)' <=> Between(c)
  BY DEF Between
<1>5. Chain(c)'
  BY <1>1, <1>2, <1>3, <1>4 DEF Chain
<1>6. Carried(c)' \subseteq Carried(c)
  BY <1>1 DEF Carried
<1> QED BY <1>5, <1>6

\* Nothing comes on a connection whose thread has ended.
LEMMA ChainEnds ==
    ASSUME NEW c \in Conns, stream'[c] = <<>>, thread'[c] = "ended",
           header'[c] = header[c], UNCHANGED <<sock, sending>>
    PROVE  Chain(c)' /\ Carried(c)' \subseteq Carried(c)
<1>1. 1 .. Len(stream'[c]) - 1 = {} /\ DOMAIN stream'[c] = {}
  OBVIOUS
<1> QED BY <1>1 DEF Chain, Carried

\* A piece is taken from the stream of one connection.
LEMMA StreamRead ==
    ASSUME TypeOK, NEW c \in Conns, stream[c] # <<>>,
           stream' = [stream EXCEPT ![c] = Tail(@)]
    PROVE  /\ stream' \in [Conns -> Seq(Pieces)]
           /\ \A d \in Conns : Len(stream'[d]) <= MaxBuffered
<1>1. stream \in [Conns -> Seq(Pieces)] /\ \A d \in Conns : Len(stream[d]) <= MaxBuffered
  BY DEF TypeOK
<1>2. Tail(stream[c]) \in Seq(Pieces) /\ Len(Tail(stream[c])) <= Len(stream[c])
      /\ Len(Tail(stream[c])) \in Nat /\ Len(stream[c]) \in Nat
  BY <1>1, HeadTaken
<1>3. /\ stream'[c] = Tail(stream[c])
      /\ \A d \in Conns : d # c => stream'[d] = stream[d]
      /\ stream' \in [Conns -> Seq(Pieces)]
  BY <1>1, <1>2
<1>4. Len(stream'[c]) <= MaxBuffered
  BY <1>1, <1>2, <1>3, Bounds
<1> QED BY <1>1, <1>3, <1>4

LEMMA CarriedRead ==
    ASSUME NEW c \in Conns, stream[c] \in Seq(Pieces), stream[c] # <<>>,
           stream'[c] = Tail(stream[c]),
           header'[c] \in {header[c], stream[c][1].frame}, UNCHANGED <<sock, sending>>
    PROVE  Carried(c)' \subseteq Carried(c)
<1> SUFFICES ASSUME NEW f \in Carried(c)' PROVE f \in Carried(c)
  OBVIOUS
<1>1. /\ DOMAIN stream[c] = 1 .. Len(stream[c]) /\ DOMAIN stream'[c] = 1 .. Len(stream'[c])
      /\ Len(stream'[c]) = Len(stream[c]) - 1 /\ Len(stream[c]) \in Nat \ {0}
      /\ \A i \in 1 .. Len(stream[c]) - 1 : stream'[c][i] = stream[c][i + 1]
  BY HeadTaken
<1>2. CASE header'[c] = f
  BY <1>1, <1>2 DEF Carried
<1>3. CASE \E i \in DOMAIN stream'[c] : stream'[c][i].frame = f
  <2>1. PICK i \in DOMAIN stream'[c] : stream'[c][i].frame = f
    BY <1>3
  <2>2. i + 1 \in DOMAIN stream[c] /\ i \in 1 .. Len(stream[c]) - 1
    BY <1>1
  <2> QED BY <1>1, <2>1, <2>2 DEF Carried
<1> QED BY <1>2, <1>3 DEF Carried

LEMMA AcceptStep == ASSUME IInv, NEW c \in Conns, Accept(c) PROVE IInv'
<1>0. TypeOK /\ ThreadEnd(c) /\ thread \in [Conns -> ThreadStates]
  BY DEF IInv, TypeOK
<1>1. /\ thread[c] = "queued" /\ thread' = [thread EXCEPT ![c] = "header"] /\ ProxyStep
      /\ UNCHANGED <<stream, header, payload, host, offset, last, failures>>
  BY DEF Accept
<1>2. thread'[c] = "header" /\ (\A d \in Conns : d # c => thread'[d] = thread[d])
  BY <1>0, <1>1
<1>3. TypeOK'
  <2>1. thread' \in [Conns -> ThreadStates]
    BY <1>0, <1>1 DEF ThreadStates
  <2> QED BY <1>0, <1>1, <2>1 DEF TypeOK, ProxyStep, clientVars
<1>4. ThreadEnd(c)'
  BY <1>0, <1>1, <1>2 DEF ThreadEnd, InPayload, ProxyStep
<1>5. Chain(c)' /\ Carried(c)' \subseteq Carried(c)
  BY <1>1, <1>2, ChainStays DEF InPayload
<1> QED BY <1>1, <1>2, <1>3, <1>4, <1>5, ThreadMoves

LEMMA ReadHeaderStep == ASSUME IInv, NEW c \in Conns, ReadHeader(c) PROVE IInv'
<1>0. /\ TypeOK /\ ThreadEnd(c) /\ Chain(c) /\ thread \in [Conns -> ThreadStates]
      /\ stream \in [Conns -> Seq(Pieces)] /\ payload \in [Conns -> Seq(Pieces)]
      /\ header \in [Conns -> Frames \cup {NoFrame}]
      /\ last \in [Conns -> Frames \cup {NoFrame}]
      /\ host \in [Conns -> {"none", "open", "closed"}]
      /\ failures \in 0 .. MaxFailures
  BY DEF IInv, TypeOK
<1>1. /\ thread[c] = "header" /\ stream[c] # <<>> /\ ProxyStep
      /\ header' = [header EXCEPT ![c] = Head(stream[c]).frame]
      /\ stream' = [stream EXCEPT ![c] = Tail(@)]
      /\ payload' = [payload EXCEPT ![c] = <<>>]
      /\ thread' \in {[thread EXCEPT ![c] = "payload"], [thread EXCEPT ![c] = "drain"]}
      /\ host' \in {host, [host EXCEPT ![c] = "open"]}
      /\ UNCHANGED failures \/ Fail
      /\ UNCHANGED <<offset, last>>
  BY DEF ReadHeader
<1>2. PICK q \in Pieces : q = stream[c][1] /\ q = Head(stream[c])
  BY <1>0, <1>1, HeadTaken
<1>3. q.frame \in Frames /\ q.frame # NoFrame /\ q.frame.size \in Nat /\ q.frame.size >= 1
  BY FrameFields, NoFrameAssumption DEF Pieces
<1>4. q.part = 0 /\ (header[c] # NoFrame => Newer(q.frame, header[c]))
  BY <1>0, <1>1, <1>2 DEF Chain, Comes, InPayload
<1>5. /\ header'[c] = q.frame /\ payload'[c] = <<>> /\ stream'[c] = Tail(stream[c])
      /\ thread'[c] \in {"payload", "drain"}
      /\ \A d \in Conns : d # c => /\ thread'[d] = thread[d] /\ header'[d] = header[d]
                                   /\ payload'[d] = payload[d] /\ stream'[d] = stream[d]
  BY <1>0, <1>1, <1>2
<1>6. Len(payload'[c]) = 0
  BY <1>5
<1>7. TypeOK'
  <2>1. thread' \in [Conns -> ThreadStates] /\ host' \in [Conns -> {"none", "open", "closed"}]
    BY <1>0, <1>1 DEF ThreadStates
  <2>2. header' \in [Conns -> Frames \cup {NoFrame}] /\ payload' \in [Conns -> Seq(Pieces)]
    BY <1>0, <1>1, <1>2, <1>3
  <2>4. stream' \in [Conns -> Seq(Pieces)] /\ \A d \in Conns : Len(stream'[d]) <= MaxBuffered
    BY <1>0, <1>1, StreamRead
  <2>5. \A d \in Conns : header'[d] # NoFrame => Len(payload'[d]) <= header'[d].size
    <3>1. Len(payload'[c]) <= header'[c].size
      BY <1>3, <1>5, <1>6
    <3>2. \A d \in Conns : header[d] # NoFrame => Len(payload[d]) <= header[d].size
      BY <1>0 DEF TypeOK
    <3> QED BY <1>5, <3>1, <3>2
  <2>6. failures' \in 0 .. MaxFailures
    BY <1>0, <1>1, Bounds DEF Fail
  <2> QED BY <1>0, <1>1, <2>1, <2>2, <2>4, <2>5, <2>6 DEF TypeOK, ProxyStep, clientVars
<1>8. ThreadEnd(c)'
  <2>1. payload'[c] = [k \in 1 .. Len(payload'[c]) |-> Piece(header'[c], k)]
    BY <1>5, <1>6
  <2>2. Len(payload'[c]) < header'[c].size
    BY <1>3, <1>5, <1>6
  <2>3. last'[c] = last[c] /\ conns' = conns
    BY <1>1 DEF ProxyStep
  <2>4. last[c] # NoFrame => Newer(q.frame, last[c])
    <3>1. CASE last[c] # NoFrame /\ Newer(header[c], last[c]) /\ header[c] # NoFrame
      <4>1. header[c] \in Frames /\ last[c] \in Frames
        BY <1>0, <3>1
      <4> QED BY <1>3, <1>4, <3>1, <4>1, NewerTransitive
    <3>2. CASE last[c] # NoFrame /\ last[c] = header[c]
      BY <1>4, <3>2
    <3> QED BY <1>0, <3>1, <3>2 DEF ThreadEnd
  <2> QED BY <1>0, <1>1, <1>3, <1>5, <2>1, <2>2, <2>3, <2>4 DEF ThreadEnd, InPayload
<1>9. Chain(c)'
  <2>1. \A x : Follows(stream[c][1], x) => Comes(c, x)'
    <3> SUFFICES ASSUME NEW x, Follows(stream[c][1], x)
                 PROVE  x = Piece(header'[c], Len(payload'[c]) + 1)
      BY <1>5 DEF Comes, InPayload
    <3>1. q.part # q.frame.size /\ q.part + 1 = Len(payload'[c]) + 1
      BY <1>3, <1>4, <1>6
    <3> QED BY <1>2, <1>5, <3>1 DEF Follows
  <2>2. stream[c][1].part # stream[c][1].frame.size
    BY <1>2, <1>3, <1>4
  <2> QED BY <1>1, <1>5, <2>1, <2>2, ChainRead
<1>10. Carried(c)' \subseteq Carried(c)
  BY <1>0, <1>1, <1>2, <1>5, CarriedRead DEF ProxyStep, clientVars
<1> QED BY <1>1, <1>5, <1>7, <1>8, <1>9, <1>10, ThreadMoves

\* What a thread in a payload takes is the next piece of its frame.
LEMMA PieceTaken ==
    ASSUME IInv, NEW c \in Conns, InPayload(c), stream[c] # <<>>,
           payload' = [payload EXCEPT ![c] = Append(@, Head(stream[c]))],
           stream' = [stream EXCEPT ![c] = Tail(@)], UNCHANGED header
    PROVE  /\ header[c] \in Frames /\ header[c] # NoFrame
           /\ header[c].size \in Nat /\ Len(payload[c]) \in Nat
           /\ Len(payload[c]) < header[c].size
           /\ stream[c][1] = Piece(header[c], Len(payload[c]) + 1)
           /\ stream'[c] = Tail(stream[c])
           /\ payload' \in [Conns -> Seq(Pieces)]
           /\ Len(payload'[c]) = Len(payload[c]) + 1
           /\ payload'[c] = Append(payload[c], Piece(header[c], Len(payload[c]) + 1))
           /\ \A d \in Conns : d # c => payload'[d] = payload[d] /\ stream'[d] = stream[d]
           /\ \A d \in Conns : header[d] # NoFrame => Len(payload'[d]) <= header[d].size
           /\ \A q : Follows(stream[c][1], q) =>
                 IF ReadAll(c) THEN q.part = 0 /\ Newer(q.frame, header[c])
                 ELSE q = Piece(header[c], Len(payload'[c]) + 1)
           /\ stream[c][1].part = stream[c][1].frame.size => ReadAll(c)
<1>0. /\ ThreadEnd(c) /\ Chain(c) /\ header[c] \in Frames \cup {NoFrame}
      /\ stream \in [Conns -> Seq(Pieces)] /\ payload \in [Conns -> Seq(Pieces)]
      /\ \A d \in Conns : header[d] # NoFrame => Len(payload[d]) <= header[d].size
  BY DEF IInv, TypeOK
<1>1. /\ header[c] \in Frames /\ header[c] # NoFrame /\ header[c].size \in Nat
      /\ Len(payload[c]) < header[c].size
  BY <1>0, FrameFields DEF ThreadEnd
<1>2. PICK q \in Pieces : q = Head(stream[c]) /\ q = stream[c][1]
  BY <1>0, HeadTaken
<1>3. q = Piece(header[c], Len(payload[c]) + 1)
  BY <1>0, <1>2 DEF Chain, Comes
<1>4. /\ Append(payload[c], q) \in Seq(Pieces) /\ Len(payload[c]) \in Nat
      /\ Len(Append(payload[c], q)) = Len(payload[c]) + 1
  BY <1>0, EndPut
<1>5. /\ payload' \in [Conns -> Seq(Pieces)] /\ payload'[c] = Append(payload[c], q)
      /\ stream'[c] = Tail(stream[c])
      /\ \A d \in Conns : d # c => payload'[d] = payload[d] /\ stream'[d] = stream[d]
  BY <1>0, <1>2, <1>4
<1>6. Len(payload'[c]) = Len(payload[c]) + 1 /\ Len(payload'[c]) <= header[c].size
  BY <1>1, <1>4, <1>5
<1>7. \A d \in Conns : header[d] # NoFrame => Len(payload'[d]) <= header[d].size
  BY <1>0, <1>5, <1>6
<1>8. q.frame = header[c] /\ q.part = Len(payload[c]) + 1
  BY <1>3, PieceFields
<1>9. q.part = q.frame.size <=> ReadAll(c)
  BY <1>8 DEF ReadAll
<1>10. ASSUME NEW x, Follows(q, x)
       PROVE  IF ReadAll(c) THEN x.part = 0 /\ Newer(x.frame, header[c])
              ELSE x = Piece(header[c], Len(payload'[c]) + 1)
  BY <1>6, <1>8, <1>9, <1>10 DEF Follows
<1> QED BY <1>1, <1>2, <1>3, <1>4, <1>5, <1>6, <1>7, <1>9, <1>10

LEMMA ReadPieceStep == ASSUME IInv, NEW c \in Conns, ReadPiece(c) PROVE IInv'
<1>0. /\ TypeOK /\ ThreadEnd(c) /\ Chain(c) /\ thread \in [Conns -> ThreadStates]
      /\ offset \in [Conns -> Nat] /\ stream[c] \in Seq(Pieces)
  BY DEF IInv, TypeOK
<1>1. /\ thread[c] = "payload" /\ stream[c] # <<>> /\ ProxyStep
      /\ payload' = [payload EXCEPT ![c] = Append(@, Head(stream[c]))]
      /\ stream' = [stream EXCEPT ![c] = Tail(@)]
      /\ UNCHANGED <<header, host, last, failures>>
      /\ \/ /\ ReadAll(c) /\ thread' = [thread EXCEPT ![c] = "datagrams"]
            /\ offset' = [offset EXCEPT ![c] = 0]
         \/ ~ReadAll(c) /\ UNCHANGED <<thread, offset>>
  BY DEF ReadPiece
<1>2. /\ header[c] # NoFrame
      /\ header[c].size \in Nat /\ Len(payload[c]) \in Nat
      /\ Len(payload[c]) < header[c].size
      /\ stream'[c] = Tail(stream[c])
      /\ payload' \in [Conns -> Seq(Pieces)]
      /\ Len(payload'[c]) = Len(payload[c]) + 1
      /\ payload'[c] = Append(payload[c], Piece(header[c], Len(payload[c]) + 1))
      /\ \A d \in Conns : d # c => payload'[d] = payload[d] /\ stream'[d] = stream[d]
      /\ \A d \in Conns : header[d] # NoFrame => Len(payload'[d]) <= header[d].size
      /\ \A q : Follows(stream[c][1], q) =>
            IF ReadAll(c) THEN q.part = 0 /\ Newer(q.frame, header[c])
            ELSE q = Piece(header[c], Len(payload'[c]) + 1)
      /\ stream[c][1].part = stream[c][1].frame.size => ReadAll(c)
  BY <1>1, PieceTaken DEF InPayload
<1>3. /\ thread'[c] = IF ReadAll(c) THEN "datagrams" ELSE "payload"
      /\ \A d \in Conns : d # c => thread'[d] = thread[d]
  BY <1>0, <1>1
<1>4. TypeOK'
  <2>1. thread' \in [Conns -> ThreadStates] /\ offset' \in [Conns -> Nat]
    <3>1. CASE ReadAll(c)
      <4>1. [thread EXCEPT ![c] = "datagrams"] \in [Conns -> ThreadStates]
        BY <1>0 DEF ThreadStates
      <4>2. [offset EXCEPT ![c] = 0] \in [Conns -> Nat]
        BY <1>0
      <4> QED BY <1>1, <3>1, <4>1, <4>2
    <3>2. CASE ~ReadAll(c)
      BY <1>0, <1>1, <3>2
    <3> QED BY <3>1, <3>2
  <2>2. stream' \in [Conns -> Seq(Pieces)] /\ \A d \in Conns : Len(stream'[d]) <= MaxBuffered
    BY <1>0, <1>1, StreamRead
  <2> QED BY <1>0, <1>1, <1>2, <2>1, <2>2 DEF TypeOK, ProxyStep, clientVars
<1>5. ThreadEnd(c)'
  <2>1. payload'[c] = [k \in 1 .. Len(payload'[c]) |-> Piece(header[c], k)]
    <3>1. payload[c] = [k \in 1 .. Len(payload[c]) |-> Piece(header[c], k)]
      BY <1>0, <1>1 DEF ThreadEnd
    <3>2. payload[c] \in Seq(Pieces) /\ payload'[c] \in Seq(Pieces)
      BY <1>0, <1>2 DEF TypeOK
    <3>3. DOMAIN payload'[c] = 1 .. Len(payload'[c])
      BY <3>2
    <3>4. \A k \in 1 .. Len(payload'[c]) : payload'[c][k] = Piece(header[c], k)
      <4> SUFFICES ASSUME NEW k \in 1 .. Len(payload'[c])
                   PROVE  payload'[c][k] = Piece(header[c], k)
        OBVIOUS
      <4>1. CASE k \in 1 .. Len(payload[c])
        <5>1. payload'[c][k] = payload[c][k]
          BY <1>2, <3>2, <4>1
        <5> QED BY <3>1, <4>1, <5>1
      <4>2. CASE k = Len(payload[c]) + 1
        BY <1>2, <3>2, <4>2
      <4> QED BY <1>2, <4>1, <4>2
    <3> QED BY <3>2, <3>3, <3>4
  <2>2. CASE ReadAll(c)
    <3>1. Len(payload'[c]) = header[c].size
      BY <1>2, <2>2 DEF ReadAll
    <3> QED BY <1>0, <1>1, <1>2, <1>3, <2>1, <2>2, <3>1 DEF ThreadEnd, InPayload, ProxyStep
  <2>3. CASE ~ReadAll(c)
    <3>1. Len(payload'[c]) < header[c].size
      BY <1>2, <2>3 DEF ReadAll
    <3> QED BY <1>0, <1>1, <1>2, <1>3, <2>1, <2>3, <3>1 DEF ThreadEnd, InPayload, ProxyStep
  <2> QED BY <2>2, <2>3
<1>6. Chain(c)'
  <2>1. \A q : Follows(stream[c][1], q) => Comes(c, q)'
    BY <1>1, <1>2, <1>3 DEF Comes, InPayload
  <2>2. stream[c][1].part = stream[c][1].frame.size => ~InPayload(c)'
    BY <1>2, <1>3 DEF InPayload
  <2>3. thread'[c] # "ended"
    BY <1>3
  <2> QED BY <1>1, <1>2, <2>1, <2>2, <2>3, ChainRead
<1>7. Carried(c)' \subseteq Carried(c)
  BY <1>0, <1>1, <1>2, CarriedRead DEF ProxyStep, clientVars
<1> QED BY <1>1, <1>2, <1>3, <1>4, <1>5, <1>6, <1>7, ThreadMoves

LEMMA DrainStep == ASSUME IInv, NEW c \in Conns, Drain(c) PROVE IInv'
<1>0. /\ TypeOK /\ ThreadEnd(c) /\ Chain(c) /\ thread \in [Conns -> ThreadStates]
      /\ stream[c] \in Seq(Pieces)
  BY DEF IInv, TypeOK
<1>1. /\ thread[c] = "drain" /\ stream[c] # <<>> /\ ProxyStep
      /\ payload' = [payload EXCEPT ![c] = Append(@, Head(stream[c]))]
      /\ stream' = [stream EXCEPT ![c] = Tail(@)]
      /\ UNCHANGED <<header, host, offset, last, failures>>
      /\ \/ ReadAll(c) /\ thread' = [thread EXCEPT ![c] = "header"]
         \/ ~ReadAll(c) /\ UNCHANGED thread
  BY DEF Drain
<1>2. /\ header[c] # NoFrame
      /\ header[c].size \in Nat /\ Len(payload[c]) \in Nat
      /\ Len(payload[c]) < header[c].size
      /\ stream'[c] = Tail(stream[c])
      /\ payload' \in [Conns -> Seq(Pieces)]
      /\ Len(payload'[c]) = Len(payload[c]) + 1
      /\ \A d \in Conns : d # c => payload'[d] = payload[d] /\ stream'[d] = stream[d]
      /\ \A d \in Conns : header[d] # NoFrame => Len(payload'[d]) <= header[d].size
      /\ \A q : Follows(stream[c][1], q) =>
            IF ReadAll(c) THEN q.part = 0 /\ Newer(q.frame, header[c])
            ELSE q = Piece(header[c], Len(payload'[c]) + 1)
      /\ stream[c][1].part = stream[c][1].frame.size => ReadAll(c)
  BY <1>1, PieceTaken DEF InPayload
<1>3. /\ thread'[c] = IF ReadAll(c) THEN "header" ELSE "drain"
      /\ \A d \in Conns : d # c => thread'[d] = thread[d]
  BY <1>0, <1>1
<1>4. TypeOK'
  <2>1. thread' \in [Conns -> ThreadStates]
    BY <1>0, <1>1 DEF ThreadStates
  <2>2. stream' \in [Conns -> Seq(Pieces)] /\ \A d \in Conns : Len(stream'[d]) <= MaxBuffered
    BY <1>0, <1>1, StreamRead
  <2> QED BY <1>0, <1>1, <1>2, <2>1, <2>2 DEF TypeOK, ProxyStep, clientVars
<1>5. ThreadEnd(c)'
  <2>1. ~ReadAll(c) => Len(payload'[c]) < header[c].size
    BY <1>2 DEF ReadAll
  <2> QED BY <1>0, <1>1, <1>2, <1>3, <2>1 DEF ThreadEnd, InPayload, ProxyStep
<1>6. Chain(c)'
  <2>1. \A q : Follows(stream[c][1], q) => Comes(c, q)'
    BY <1>1, <1>2, <1>3 DEF Comes, InPayload
  <2>2. stream[c][1].part = stream[c][1].frame.size => ~InPayload(c)'
    BY <1>2, <1>3 DEF InPayload
  <2>3. thread'[c] # "ended"
    BY <1>3
  <2> QED BY <1>1, <1>2, <2>1, <2>2, <2>3, ChainRead
<1>7. Carried(c)' \subseteq Carried(c)
  BY <1>0, <1>1, <1>2, CarriedRead DEF ProxyStep, clientVars
<1> QED BY <1>1, <1>2, <1>3, <1>4, <1>5, <1>6, <1>7, ThreadMoves

\* The client has closed the connection: nothing more comes on it.
LEMMA DrainEndsStep == ASSUME IInv, NEW c \in Conns, DrainEnds(c) PROVE IInv'
<1>0. /\ TypeOK /\ ThreadEnd(c) /\ ClientEnd /\ thread \in [Conns -> ThreadStates]
  BY DEF IInv, TypeOK
<1>1. /\ thread[c] = "drain" /\ stream[c] = <<>> /\ ~writing[c] /\ ProxyStep
      /\ thread' = [thread EXCEPT ![c] = "header"]
      /\ UNCHANGED <<stream, header, payload, host, offset, last, failures>>
  BY DEF DrainEnds
<1>2. thread'[c] = "header" /\ (\A d \in Conns : d # c => thread'[d] = thread[d])
  BY <1>0, <1>1
<1>3. TypeOK'
  <2>1. thread' \in [Conns -> ThreadStates]
    BY <1>0, <1>1 DEF ThreadStates
  <2> QED BY <1>0, <1>1, <2>1 DEF TypeOK, ProxyStep, clientVars
<1>4. ThreadEnd(c)'
  BY <1>0, <1>1, <1>2 DEF ThreadEnd, InPayload, ProxyStep
<1>5. Chain(c)' /\ Carried(c)' \subseteq Carried(c)
  <2>1. sock # c /\ UNCHANGED <<sock, sending>>
    BY <1>0, <1>1 DEF ClientEnd, ProxyStep, clientVars
  <2>2. 1 .. Len(stream'[c]) - 1 = {} /\ stream'[c] = <<>>
    BY <1>1
  <2> QED BY <1>1, <2>1, <2>2 DEF Chain, Carried
<1> QED BY <1>1, <1>2, <1>3, <1>4, <1>5, ThreadMoves

\* forwardClient returns.
LEMMA ReturnStep ==
    ASSUME IInv, NEW c \in Conns, Return(c), ProxyStep,
           thread[c] \in {"header", "payload", "datagrams"},
           host' \in {host, [host EXCEPT ![c] = "closed"]},
           UNCHANGED <<header, payload, offset, last>>, UNCHANGED failures \/ Fail
    PROVE  IInv'
<1>0. /\ TypeOK /\ ThreadEnd(c) /\ thread \in [Conns -> ThreadStates]
      /\ stream \in [Conns -> Seq(Pieces)]
      /\ host \in [Conns -> {"none", "open", "closed"}]
      /\ failures \in 0 .. MaxFailures
  BY DEF IInv, TypeOK
<1>1. /\ thread'[c] = "ended" /\ stream'[c] = <<>>
      /\ \A d \in Conns : d # c => thread'[d] = thread[d] /\ stream'[d] = stream[d]
  BY <1>0 DEF Return
<1>2. TypeOK'
  <2>1. thread' \in [Conns -> ThreadStates] /\ stream' \in [Conns -> Seq(Pieces)]
    BY <1>0 DEF ThreadStates, Return
  <2>2. \A d \in Conns : Len(stream'[d]) <= MaxBuffered
    <3>1. Len(stream'[c]) = 0
      BY <1>1
    <3>2. 0 <= MaxBuffered /\ \A d \in Conns : Len(stream[d]) <= MaxBuffered
      BY <1>0, Bounds DEF TypeOK
    <3> QED BY <1>1, <3>1, <3>2
  <2>3. host' \in [Conns -> {"none", "open", "closed"}]
    BY <1>0
  <2>4. failures' \in 0 .. MaxFailures
    BY <1>0, Bounds DEF Fail
  <2> QED BY <1>0, <2>1, <2>2, <2>3, <2>4 DEF TypeOK, ProxyStep, clientVars
<1>3. ThreadEnd(c)'
  BY <1>0, <1>1 DEF ThreadEnd, InPayload, ProxyStep
<1>4. Chain(c)' /\ Carried(c)' \subseteq Carried(c)
  BY <1>1, ChainEnds DEF ProxyStep, clientVars
<1> QED BY <1>1, <1>2, <1>3, <1>4, ThreadMoves

LEMMA SendDatagramStep == ASSUME IInv, NEW c \in Conns, SendDatagram(c) PROVE IInv'
<1>0. /\ TypeOK /\ ThreadEnd(c) /\ offset \in [Conns -> Nat]
  BY DEF IInv, TypeOK
<1>1. /\ thread[c] = "datagrams" /\ ProxyStep
      /\ offset' = [offset EXCEPT ![c] = @ + 1]
      /\ UNCHANGED <<stream, thread, header, payload, host, last, failures>>
  BY DEF SendDatagram
<1>2. TypeOK'
  <2>1. offset' \in [Conns -> Nat]
    BY <1>0, <1>1
  <2> QED BY <1>0, <1>1, <2>1 DEF TypeOK, ProxyStep, clientVars
<1>3. ThreadEnd(c)'
  BY <1>0, <1>1 DEF ThreadEnd, InPayload, ProxyStep
<1>4. Chain(c)' /\ Carried(c)' \subseteq Carried(c)
  BY <1>1, ChainStays DEF InPayload
<1> QED BY <1>1, <1>2, <1>3, <1>4, ThreadMoves

LEMMA FrameSentStep == ASSUME IInv, NEW c \in Conns, FrameSent(c) PROVE IInv'
<1>0. /\ TypeOK /\ ThreadEnd(c) /\ thread \in [Conns -> ThreadStates]
      /\ header \in [Conns -> Frames \cup {NoFrame}]
      /\ last \in [Conns -> Frames \cup {NoFrame}]
  BY DEF IInv, TypeOK
<1>1. /\ thread[c] = "datagrams" /\ ProxyStep
      /\ last' = [last EXCEPT ![c] = header[c]]
      /\ thread' = [thread EXCEPT ![c] = "header"]
      /\ UNCHANGED <<stream, header, payload, host, offset, failures>>
  BY DEF FrameSent
<1>2. /\ thread'[c] = "header" /\ last'[c] = header[c]
      /\ \A d \in Conns : d # c => thread'[d] = thread[d] /\ last'[d] = last[d]
  BY <1>0, <1>1
<1>3. TypeOK'
  <2>1. thread' \in [Conns -> ThreadStates] /\ last' \in [Conns -> Frames \cup {NoFrame}]
    BY <1>0, <1>1 DEF ThreadStates
  <2> QED BY <1>0, <1>1, <2>1 DEF TypeOK, ProxyStep, clientVars
<1>4. ThreadEnd(c)'
  BY <1>0, <1>1, <1>2 DEF ThreadEnd, InPayload, ProxyStep
<1>5. Chain(c)' /\ Carried(c)' \subseteq Carried(c)
  BY <1>1, <1>2, ChainStays DEF InPayload
<1> QED BY <1>1, <1>2, <1>3, <1>4, <1>5, ThreadMoves

LEMMA ThreadStep ==
    ASSUME IInv, NEW c \in Conns, Thread(c) \/ DatagramFails(c) PROVE IInv'
<1>1. CASE HeaderEnds(c)
  BY <1>1, ReturnStep DEF HeaderEnds
<1>2. CASE PayloadEnds(c)
  BY <1>2, ReturnStep DEF PayloadEnds, CloseHost
<1>3. CASE DatagramFails(c)
  BY <1>3, ReturnStep DEF DatagramFails, CloseHost
<1> QED BY <1>1, <1>2, <1>3, AcceptStep, ReadHeaderStep, ReadPieceStep, DrainStep,
           DrainEndsStep, SendDatagramStep, FrameSentStep DEF Thread

\* Steps of the whole proxy.
LEMMA ProxyMoves ==
    ASSUME IInv, UNCHANGED <<clientVars, conns, writing>>, TypeOK',
           \A c \in Conns : ThreadEnd(c)' /\ Chain(c)' /\ Carried(c)' \subseteq Carried(c)
    PROVE  IInv'
<1>0. ClientEnd /\ UNCHANGED <<run, sequence, sock, sending, written, conns, writing>>
  BY DEF IInv, clientVars
<1>1. ClientEnd'
  BY <1>0 DEF ClientEnd
<1>2. Ages'
  BY <1>0, AgesStay
<1> QED BY <1>1, <1>2 DEF IInv

LEMMA ServeEndsStep == ASSUME IInv, ServeEnds PROVE IInv'
<1>0. /\ TypeOK /\ (\A c \in Conns : ThreadEnd(c) /\ Chain(c))
      /\ thread \in [Conns -> ThreadStates] /\ stream \in [Conns -> Seq(Pieces)]
      /\ failures \in 0 .. MaxFailures
  BY DEF IInv, TypeOK
<1>1. /\ proxy' = "deaf" /\ Fail
      /\ UNCHANGED <<clientVars, conns, writing, header, payload, host, offset, last>>
      /\ UNCHANGED <<run, sequence, sock, recent, sending, written>>
  BY DEF ServeEnds, clientVars
<1>2. \A c \in Conns :
         /\ thread[c] = "queued" => thread'[c] = "ended" /\ stream'[c] = <<>>
         /\ thread[c] # "queued" => thread'[c] = thread[c] /\ stream'[c] = stream[c]
  BY DEF ServeEnds
<1>3. TypeOK'
  <2>1. thread' \in [Conns -> ThreadStates] /\ stream' \in [Conns -> Seq(Pieces)]
    BY <1>0 DEF ServeEnds, ThreadStates
  <2>2. \A c \in Conns : Len(stream'[c]) <= MaxBuffered
    <3>1. Len(<<>>) = 0
      OBVIOUS
    <3>2. 0 <= MaxBuffered /\ \A d \in Conns : Len(stream[d]) <= MaxBuffered
      BY <1>0, Bounds DEF TypeOK
    <3> QED BY <1>2, <3>1, <3>2
  <2>3. failures' \in 0 .. MaxFailures
    BY <1>0, <1>1, Bounds DEF Fail
  <2> QED BY <1>0, <1>1, <2>1, <2>2, <2>3 DEF TypeOK
<1>4. ASSUME NEW c \in Conns
      PROVE  ThreadEnd(c)' /\ Chain(c)' /\ Carried(c)' \subseteq Carried(c)
  <2>1. CASE thread[c] = "queued"
    <3>1. ThreadEnd(c)'
      BY <1>0, <1>1, <1>2, <2>1 DEF ThreadEnd, InPayload
    <3> QED BY <1>1, <1>2, <2>1, <3>1, ChainEnds
  <2>2. CASE thread[c] # "queued"
    <3>1. thread'[c] = thread[c] /\ stream'[c] = stream[c]
      BY <1>2, <2>2
    <3>2. ThreadEnd(c)'
      BY <1>0, <1>1, <3>1 DEF ThreadEnd, InPayload
    <3>3. Chain(c)'
      BY <1>0, <1>1, <3>1 DEF Chain, Comes, Between, MayWrite, InPayload
    <3>4. Carried(c)' \subseteq Carried(c)
      BY <1>1, <3>1 DEF Carried
    <3> QED BY <3>2, <3>3, <3>4
  <2> QED BY <2>1, <2>2
<1> QED BY <1>1, <1>3, <1>4, ProxyMoves

LEMMA ProxyDiesStep == ASSUME IInv, ProxyDies PROVE IInv'
<1>0. /\ TypeOK /\ ClientEnd /\ (\A c \in Conns : ThreadEnd(c) /\ Chain(c))
      /\ failures \in 0 .. MaxFailures /\ conns \in Nat
  BY Bounds DEF IInv, TypeOK
<1>1. /\ proxy' = "down" /\ Fail
      /\ UNCHANGED <<clientVars, conns, writing, header, payload, offset, last>>
      /\ UNCHANGED <<run, sequence, sock, recent, sending, written>>
  BY DEF ProxyDies, clientVars
<1>2. \A c \in Conns : /\ stream'[c] = <<>>
                       /\ c <= conns => thread'[c] = "ended"
                       /\ ~(c <= conns) => thread'[c] = "none"
  BY DEF ProxyDies
<1>3. TypeOK'
  <2>1. /\ thread' \in [Conns -> ThreadStates] /\ stream' \in [Conns -> Seq(Pieces)]
        /\ host' \in [Conns -> {"none", "open", "closed"}]
    BY DEF ProxyDies, ThreadStates
  <2>2. \A c \in Conns : Len(stream'[c]) <= MaxBuffered
    <3>1. Len(<<>>) = 0
      OBVIOUS
    <3> QED BY <1>2, <3>1, Bounds
  <2>3. failures' \in 0 .. MaxFailures
    BY <1>0, <1>1, Bounds DEF Fail
  <2> QED BY <1>0, <1>1, <2>1, <2>2, <2>3 DEF TypeOK
<1>4. ASSUME NEW c \in Conns
      PROVE  ThreadEnd(c)' /\ Chain(c)' /\ Carried(c)' \subseteq Carried(c)
  <2>0. c \in Nat /\ c # 0
    BY Bounds
  <2>1. CASE c <= conns
    <3>1. thread'[c] = "ended" /\ stream'[c] = <<>>
      BY <1>2, <2>1
    <3>2. ~(c > conns)
      BY <1>0, <2>0, <2>1
    <3>3. ThreadEnd(c)'
      BY <1>0, <1>1, <3>1, <3>2 DEF ThreadEnd, InPayload
    <3> QED BY <1>1, <3>1, <3>3, ChainEnds
  <2>2. CASE ~(c <= conns)
    <3>1. thread'[c] = "none" /\ stream'[c] = <<>> /\ c > conns /\ sock # c
      BY <1>0, <1>2, <2>0, <2>2 DEF ClientEnd
    <3>2. thread[c] = "none"
      BY <1>0, <3>1 DEF ThreadEnd
    <3>3. ThreadEnd(c)'
      BY <1>0, <1>1, <3>1, <3>2 DEF ThreadEnd, InPayload
    <3>4. 1 .. Len(stream'[c]) - 1 = {} /\ DOMAIN stream'[c] = {}
      BY <3>1
    <3>5. Chain(c)' /\ Carried(c)' \subseteq Carried(c)
      BY <1>1, <3>1, <3>4 DEF Chain, Carried
    <3> QED BY <3>3, <3>5
  <2> QED BY <2>1, <2>2
<1> QED BY <1>1, <1>3, <1>4, ProxyMoves

LEMMA ProxyStartsStep == ASSUME IInv, ProxyStarts PROVE IInv'
<1>0. TypeOK /\ (\A c \in Conns : ThreadEnd(c) /\ Chain(c))
  BY DEF IInv
<1>1. /\ proxy' = "up"
      /\ UNCHANGED <<run, sequence, sock, recent, sending, written, conns, stream,
                     writing, thread, header, payload, host, offset, last, failures>>
  BY DEF ProxyStarts, clientVars, threadVars
<1>2. TypeOK'
  BY <1>0, <1>1 DEF TypeOK
<1>3. ASSUME NEW c \in Conns
      PROVE  ThreadEnd(c)' /\ Chain(c)' /\ Carried(c)' \subseteq Carried(c)
  <2>1. ThreadEnd(c)'
    BY <1>0, <1>1 DEF ThreadEnd, InPayload
  <2>2. Chain(c)'
    BY <1>0, <1>1 DEF Chain, Comes, Between, MayWrite, InPayload
  <2>3. Carried(c)' \subseteq Carried(c)
    BY <1>1 DEF Carried
  <2> QED BY <2>1, <2>2, <2>3
<1> QED BY <1>1, <1>2, <1>3, ProxyMoves DEF clientVars
----------------------------------------------------------------------------
(***************************************************************************)
(* The client.                                                             *)
(***************************************************************************)
\* Steps that write nothing: the connection stays, or is closed.
LEMMA ClientMoves ==
    ASSUME IInv, TypeOK', ClientEnd', UNCHANGED <<conns, stream, thread, header, payload, last>>,
           \/ sock' = sock /\ sending' = sending /\ written' = written
           \/ sock' = 0 /\ sending' = NoFrame,
           \/ run' = run /\ sequence' \in {sequence, sequence + 1}
           \/ run' = run + 1
    PROVE  IInv'
<1>0. \A c \in Conns : ThreadEnd(c) /\ Chain(c)
  BY DEF IInv
<1>1. ASSUME NEW c \in Conns
      PROVE  ThreadEnd(c)' /\ Chain(c)' /\ Carried(c)' \subseteq Carried(c)
  <2>0. c # 0
    BY Bounds
  <2>1. ThreadEnd(c)'
    BY <1>0 DEF ThreadEnd, InPayload
  <2>2. CASE sock' = sock /\ sending' = sending /\ written' = written
    <3>1. Chain(c)'
      BY <1>0, <2>2 DEF Chain, Comes, Between, MayWrite, InPayload
    <3>2. Carried(c)' \subseteq Carried(c)
      BY <2>2 DEF Carried
    <3> QED BY <2>1, <3>1, <3>2
  <2>3. CASE sock' = 0 /\ sending' = NoFrame
    <3>1. Chain(c)'
      BY <1>0, <2>0, <2>3 DEF Chain, Comes, InPayload
    <3>2. Carried(c)' \subseteq Carried(c)
      BY <2>0, <2>3 DEF Carried
    <3> QED BY <2>1, <3>1, <3>2
  <2> QED BY <2>2, <2>3
<1>2. Ages'
  BY <1>1, AgesStay
<1> QED BY <1>1, <1>2 DEF IInv

LEMMA SendSkippedStep == ASSUME IInv, SendSkipped PROVE IInv'
<1>0. TypeOK /\ ClientEnd /\ sequence \in 0 .. MaxSeq + 1 /\ failures \in 0 .. MaxFailures
  BY DEF IInv, TypeOK
<1>1. /\ sequence <= MaxSeq /\ sequence' = sequence + 1 /\ recent' \in BOOLEAN
      /\ UNCHANGED failures \/ Fail
      /\ UNCHANGED <<run, sock, sending, written, conns, stream, writing, proxy,
                     thread, header, payload, host, offset, last>>
  <2>1. recent' \in BOOLEAN
    <3>1. recent \in BOOLEAN
      BY <1>0 DEF TypeOK
    <3> QED BY <3>1, Zenon DEF SendSkipped
  <2> QED BY <2>1 DEF SendSkipped, StartFrame, threadVars
<1>2. TypeOK'
  <2>1. sequence' \in 0 .. MaxSeq + 1 /\ failures' \in 0 .. MaxFailures
    BY <1>0, <1>1, Bounds DEF Fail
  <2> QED BY <1>0, <1>1, <2>1 DEF TypeOK
<1>3. ClientEnd'
  BY <1>0, <1>1 DEF ClientEnd
<1> QED BY <1>1, <1>2, <1>3, ClientMoves

LEMMA SendFailsStep == ASSUME IInv, SendFails PROVE IInv'
<1>0. /\ TypeOK /\ ClientEnd /\ failures \in 0 .. MaxFailures /\ conns \in Nat
      /\ conns \in 0 .. MaxConns /\ writing \in [Conns -> BOOLEAN]
  BY Bounds DEF IInv, TypeOK
<1>1. /\ writing' = [writing EXCEPT ![sock] = FALSE] /\ sock' = 0
      /\ sending' = NoFrame /\ written' = 0
      /\ UNCHANGED failures \/ Fail
      /\ UNCHANGED <<run, sequence, recent, conns, stream, proxy,
                     thread, header, payload, host, offset, last>>
  BY DEF SendFails, CloseSocket, threadVars
<1>2. TypeOK'
  <2>1. failures' \in 0 .. MaxFailures /\ sock' \in 0 .. conns
    BY <1>0, <1>1, Bounds DEF Fail
  <2>2. writing' \in [Conns -> BOOLEAN]
    BY <1>0, <1>1
  <2> QED BY <1>0, <1>1, <2>1, <2>2 DEF TypeOK
<1>3. ClientEnd'
  <2>1. \A c \in Conns : c # 0 /\ ~writing'[c]
    BY <1>0, <1>1, Bounds DEF ClientEnd
  <2> QED BY <1>0, <1>1, <2>1 DEF ClientEnd
<1> QED BY <1>1, <1>2, <1>3, ClientMoves

LEMMA AppDiesStep == ASSUME IInv, AppDies PROVE IInv'
<1>0. /\ TypeOK /\ ClientEnd /\ failures \in 0 .. MaxFailures /\ conns \in Nat
      /\ run \in 1 .. MaxRuns
  BY Bounds DEF IInv, TypeOK
<1>1. /\ Fail /\ run < MaxRuns /\ run' = run + 1 /\ sequence' = 0 /\ recent' = FALSE
      /\ sending' = NoFrame /\ written' = 0 /\ sock' = 0
      /\ writing' = [c \in Conns |-> FALSE]
      /\ UNCHANGED <<conns, stream, proxy, thread, header, payload, host, offset, last>>
  BY DEF AppDies, threadVars
<1>2. TypeOK'
  <2>1. /\ failures' \in 0 .. MaxFailures /\ sock' \in 0 .. conns
        /\ run' \in 1 .. MaxRuns /\ sequence' \in 0 .. MaxSeq + 1
    BY <1>0, <1>1, Bounds DEF Fail
  <2>2. writing' \in [Conns -> BOOLEAN]
    BY <1>1
  <2> QED BY <1>0, <1>1, <2>1, <2>2 DEF TypeOK
<1>3. ClientEnd'
  <2>1. \A c \in Conns : c # 0 /\ ~writing'[c]
    BY <1>1, Bounds
  <2> QED BY <1>0, <1>1, <2>1 DEF ClientEnd
<1> QED BY <1>1, <1>2, <1>3, ClientMoves

LEMMA IdleSteps == ASSUME IInv, TwoSecondsPass \/ NewInstance PROVE IInv'
<1>0. TypeOK /\ ClientEnd /\ run \in 1 .. MaxRuns
  BY DEF IInv, TypeOK
<1>1. CASE TwoSecondsPass
  <2>1. /\ recent' = FALSE
        /\ UNCHANGED <<run, sequence, sock, sending, written, conns, stream, writing,
                       proxy, thread, header, payload, host, offset, last, failures>>
    BY <1>1 DEF TwoSecondsPass, threadVars
  <2>2. TypeOK' /\ ClientEnd'
    BY <1>0, <2>1 DEF TypeOK, ClientEnd
  <2> QED BY <2>1, <2>2, ClientMoves
<1>2. CASE NewInstance
  <2>1. /\ run < MaxRuns /\ run' = run + 1 /\ sequence' = 0
        /\ UNCHANGED <<recent, sock, sending, written, conns, stream, writing,
                       proxy, thread, header, payload, host, offset, last, failures>>
    BY <1>2 DEF NewInstance, threadVars
  <2>2. run' \in 1 .. MaxRuns /\ sequence' \in 0 .. MaxSeq + 1
    BY <1>0, <2>1, Bounds
  <2>3. TypeOK' /\ ClientEnd'
    BY <1>0, <2>1, <2>2 DEF TypeOK, ClientEnd
  <2> QED BY <2>1, <2>3, ClientMoves
<1> QED BY <1>1, <1>2

\* A connection that is not made yet carries nothing.
LEMMA Unmade ==
    ASSUME IInv, NEW c \in Conns, c > conns
    PROVE  /\ thread[c] = "none" /\ header[c] = NoFrame /\ stream[c] = <<>>
           /\ last[c] = NoFrame /\ sock # c /\ Carried(c) = {}
<1>1. ThreadEnd(c) /\ ClientEnd /\ conns \in Nat /\ c \in Nat /\ c # 0
  BY Bounds DEF IInv, TypeOK
<1>2. thread[c] = "none" /\ header[c] = NoFrame /\ stream[c] = <<>> /\ last[c] = NoFrame
  BY <1>1 DEF ThreadEnd
<1>3. sock # c
  BY <1>1 DEF ClientEnd
<1> QED BY <1>2, <1>3, NoFrameAssumption DEF Carried

\* A new frame on the connection made last is newer than all before it.
LEMMA AgesGrow ==
    ASSUME IInv, NEW f \in Frames, f.run = run, f.seq = sequence,
           run' = run, sequence' = sequence + 1, NEW k \in Conns,
           \A c \in Conns : c # k => Carried(c)' \subseteq Carried(c),
           Carried(k)' \subseteq Carried(k) \cup {f},
           \A c \in Conns : c > k => Carried(c) = {}
    PROVE  Ages'
<1>1. /\ Ages /\ run \in Nat /\ sequence \in Nat
  BY Bounds DEF IInv, TypeOK
<1>2. \A c \in Conns : Carried(c) \subseteq Frames
  BY DEF Carried
<1>3. ASSUME NEW c \in Conns, NEW g \in Carried(c) PROVE Newer(f, g)
  <2>1. Past(g) /\ g.run \in Nat /\ g.seq \in Nat
    BY <1>1, <1>2, FrameFields DEF Ages
  <2> QED BY <1>1, <2>1 DEF Past, Newer
<1>4. ASSUME NEW g \in Frames, Past(g) PROVE Past(g)'
  <2>1. g.run \in Nat /\ g.seq \in Nat
    BY FrameFields
  <2> QED BY <1>1, <1>4, <2>1 DEF Past
<1>5. Past(f)'
  BY <1>1 DEF Past
<1>6. ASSUME NEW c \in Conns, NEW g \in Carried(c)' PROVE Past(g)'
  <2>1. g \in Carried(c) \/ g = f
    BY <1>6
  <2>2. CASE g \in Carried(c)
    BY <1>1, <1>2, <1>4, <2>2 DEF Ages
  <2> QED BY <1>5, <2>1, <2>2
<1>7. ASSUME NEW c \in Conns, NEW d \in Conns, c < d,
             NEW g \in Carried(c)', NEW h \in Carried(d)'
      PROVE  Newer(h, g)
  <2>0. c \in Nat /\ d \in Nat /\ k \in Nat
    BY Bounds
  <2>1. CASE c = k
    <3>1. d # k /\ d > k
      BY <1>7, <2>0, <2>1
    <3>2. Carried(d)' \subseteq Carried(d) /\ Carried(d) = {}
      BY <3>1
    <3> QED BY <1>7, <3>2
  <2>2. CASE c # k /\ h = f
    BY <1>3, <1>7, <2>2
  <2>3. CASE c # k /\ h # f
    <3>1. g \in Carried(c) /\ h \in Carried(d)
      BY <1>7, <2>3
    <3> QED BY <1>1, <1>7, <3>1 DEF Ages
  <2> QED BY <2>1, <2>2, <2>3
<1> QED BY <1>6, <1>7 DEF Ages

\* The next frame is begun on the connection k.
LEMMA FrameBegins ==
    ASSUME IInv, TypeOK', ClientEnd', NEW k \in Conns, NEW n \in Sizes,
           sequence <= MaxSeq, run' = run, sequence' = sequence + 1,
           sock' = k, sock = k \/ sock = 0, k >= conns,
           sending = NoFrame, sending' = [run |-> run, seq |-> sequence, size |-> n],
           written' = 0,
           UNCHANGED <<stream, header, payload, last>>,
           \A c \in Conns : c # k => thread'[c] = thread[c],
           sock = k => thread' = thread,
           sock = 0 => thread[k] = "none" /\ thread'[k] = "queued",
           \A c \in Conns : c > conns' <=> c > conns /\ c # k
    PROVE  IInv'
<1>0. /\ TypeOK /\ ClientEnd /\ (\A c \in Conns : ThreadEnd(c) /\ Chain(c)) /\ Ages
      /\ run \in 1 .. MaxRuns /\ sequence \in 0 .. MaxSeq + 1 /\ conns \in Nat
      /\ stream \in [Conns -> Seq(Pieces)] /\ header \in [Conns -> Frames \cup {NoFrame}]
  <2>1. TypeOK /\ ClientEnd /\ (\A c \in Conns : ThreadEnd(c) /\ Chain(c)) /\ Ages
    BY DEF IInv
  <2>2. /\ run \in 1 .. MaxRuns /\ sequence \in 0 .. MaxSeq + 1 /\ conns \in 0 .. MaxConns
        /\ stream \in [Conns -> Seq(Pieces)] /\ header \in [Conns -> Frames \cup {NoFrame}]
    BY <2>1 DEF TypeOK
  <2> QED BY <2>1, <2>2, Bounds
<1>1. PICK f : f = [run |-> run, seq |-> sequence, size |-> n]
  OBVIOUS
<1>2. /\ f \in Frames /\ f # NoFrame /\ f.run = run /\ f.seq = sequence
      /\ sending' = f
  <2>1. sequence \in 0 .. MaxSeq
    BY <1>0, Bounds
  <2>2. f \in Frames
    BY <1>0, <1>1, <2>1 DEF Frames
  <2> QED BY <1>1, <2>2, NoFrameAssumption
<1>3. ASSUME NEW c \in Conns, c # k
      PROVE  ThreadEnd(c)' /\ Chain(c)' /\ Carried(c)' \subseteq Carried(c)
  <2>1. thread'[c] = thread[c] /\ sock' # c
    BY <1>3
  <2>2. ThreadEnd(c)'
    BY <1>0, <2>1 DEF ThreadEnd, InPayload
  <2>3. Chain(c)'
    BY <1>0, <2>1 DEF Chain, Comes, InPayload
  <2>4. Carried(c)' \subseteq Carried(c)
    BY <2>1 DEF Carried
  <2> QED BY <2>2, <2>3, <2>4
<1>4. \A g \in Carried(k) : Newer(f, g)
  <2> SUFFICES ASSUME NEW g \in Carried(k) PROVE Newer(f, g)
    OBVIOUS
  <2>1. Past(g) /\ g \in Frames
    BY <1>0 DEF Ages, Carried
  <2>2. g.run \in Nat /\ g.seq \in Nat /\ run \in Nat /\ sequence \in Nat
    BY <1>0, <2>1, FrameFields, Bounds
  <2> QED BY <1>2, <2>1, <2>2 DEF Past, Newer
<1>5. thread[k] # "ended" => Between(k)
  <2>1. CASE sock = k
    BY <1>0, <2>1 DEF Chain
  <2>2. CASE sock = 0
    <3>1. thread[k] = "none" /\ stream[k] = <<>>
      BY <1>0, <2>2 DEF ThreadEnd
    <3> QED BY <3>1 DEF Between, InPayload
  <2> QED BY <2>1, <2>2
<1>6. InPayload(k)' <=> InPayload(k)
  BY DEF InPayload
<1>7. thread'[k] = "ended" <=> thread[k] = "ended"
  OBVIOUS
<1>8. ThreadEnd(k)'
  <2>1. ~(k > conns')
    OBVIOUS
  <2>2. CASE sock = k
    <3>1. ~(k > conns)
      BY <1>0, <2>2, Bounds DEF ClientEnd
    <3> QED BY <1>0, <2>1, <2>2, <3>1 DEF ThreadEnd, InPayload
  <2>3. CASE sock = 0
    BY <1>0, <2>1, <2>3 DEF ThreadEnd, InPayload
  <2> QED BY <2>2, <2>3
<1>9. Chain(k)'
  <2>1. /\ \A i \in 1 .. Len(stream'[k]) - 1 : Follows(stream'[k][i], stream'[k][i + 1])
        /\ stream'[k] # <<>> => Comes(k, stream[k][1])'
    BY <1>0, <1>6 DEF Chain, Comes
  <2>2. ASSUME thread'[k] # "ended" PROVE MayWrite(k, Piece(sending, written))'
    <3>1. Between(k)
      BY <1>5, <1>7, <2>2
    <3>2. Piece(f, 0).part = 0 /\ Piece(f, 0).frame = f
      BY PieceFields
    <3>3. CASE stream[k] = <<>>
      <4>1. ~InPayload(k)'
        BY <1>6, <3>1, <3>3 DEF Between
      <4>2. header[k] # NoFrame => Newer(f, header[k])
        BY <1>0, <1>4 DEF Carried
      <4> QED BY <1>2, <3>2, <3>3, <4>1, <4>2 DEF MayWrite, Comes
    <3>4. CASE stream[k] # <<>>
      <4> DEFINE p == stream[k][Len(stream[k])]
      <4>1. p.part = p.frame.size
        BY <3>1, <3>4 DEF Between
      <4>2. Len(stream[k]) \in DOMAIN stream[k] /\ p \in Pieces
        BY <1>0, <3>4
      <4>3. p.frame \in Carried(k)
        BY <4>2 DEF Carried, Pieces
      <4>4. Follows(p, Piece(f, 0))
        BY <1>4, <3>2, <4>1, <4>3 DEF Follows
      <4> QED BY <1>2, <3>4, <4>4 DEF MayWrite
    <3> QED BY <3>3, <3>4
  <2> QED BY <1>2, <2>1, <2>2 DEF Chain
<1>10. Carried(k)' \subseteq Carried(k) \cup {f}
  BY <1>2 DEF Carried
<1>11. Ages'
  <2>1. \A c \in Conns : c > k => c > conns
    BY <1>0, Bounds
  <2>2. \A c \in Conns : c > k => Carried(c) = {}
    BY <2>1, Unmade
  <2> QED BY <1>2, <1>3, <1>10, <2>2, AgesGrow
<1> QED BY <1>3, <1>8, <1>9, <1>11 DEF IInv

LEMMA SendConnectedStep == ASSUME IInv, SendConnected PROVE IInv'
<1>0. /\ TypeOK /\ ClientEnd /\ sequence \in 0 .. MaxSeq + 1 /\ run \in 1 .. MaxRuns
      /\ conns \in 0 .. MaxConns
  BY DEF IInv, TypeOK
<1>1. /\ sequence <= MaxSeq /\ sequence' = sequence + 1 /\ sending = NoFrame /\ sock # 0
      /\ UNCHANGED <<run, sock, recent, conns, stream, writing, proxy, thread, header,
                     payload, host, offset, last, failures>>
  BY DEF SendConnected, StartFrame, threadVars
<1>2. PICK n \in Sizes : /\ sending' = [run |-> run, seq |-> sequence, size |-> n]
                         /\ written' = 0
  BY DEF SendConnected, WriteNext
<1>3. sock = conns /\ sock \in Conns /\ sock \in Nat
  <2>1. sock = conns /\ conns \in Nat /\ conns <= MaxConns
    BY <1>0, <1>1, Bounds DEF ClientEnd
  <2> QED BY <1>1, <2>1, Bounds
<1>4. sending' \in Frames /\ sequence' \in 0 .. MaxSeq + 1
  <2>1. sequence \in 0 .. MaxSeq
    BY <1>0, <1>1, Bounds
  <2>2. sending' \in Frames
    BY <1>0, <1>2, <2>1 DEF Frames
  <2> QED BY <1>1, <2>1, <2>2, Bounds
<1>5. TypeOK'
  BY <1>0, <1>1, <1>2, <1>4 DEF TypeOK
<1>6. ClientEnd'
  <2>1. written' <= sending'.size
    BY <1>2, <1>4, FrameFields
  <2> QED BY <1>0, <1>1, <2>1 DEF ClientEnd
<1>7. \A c \in Conns : c > conns' <=> c > conns /\ c # sock
  BY <1>1, <1>3, Bounds
<1>8. sock >= conns
  BY <1>3
<1> QED BY <1>1, <1>2, <1>3, <1>5, <1>6, <1>7, <1>8, FrameBegins

LEMMA SendConnectingStep == ASSUME IInv, SendConnecting PROVE IInv'
<1>0. /\ TypeOK /\ ClientEnd /\ sequence \in 0 .. MaxSeq + 1 /\ run \in 1 .. MaxRuns
      /\ conns \in 0 .. MaxConns /\ writing \in [Conns -> BOOLEAN]
      /\ thread \in [Conns -> ThreadStates]
  BY DEF IInv, TypeOK
<1>1. /\ sequence <= MaxSeq /\ sequence' = sequence + 1 /\ sending = NoFrame /\ sock = 0
      /\ recent' = TRUE /\ conns < MaxConns /\ conns' = conns + 1 /\ sock' = conns + 1
      /\ writing' = [writing EXCEPT ![conns + 1] = TRUE]
      /\ thread' = [thread EXCEPT ![conns + 1] = "queued"]
      /\ UNCHANGED <<run, stream, proxy, header, payload, host, offset, last, failures>>
  BY DEF SendConnecting, StartFrame
<1>2. PICK n \in Sizes : /\ sending' = [run |-> run, seq |-> sequence, size |-> n]
                         /\ written' = 0
  BY DEF SendConnecting, WriteNext
<1>3. PICK k : k = conns + 1
  OBVIOUS
<1>4. /\ k \in Conns /\ k \in Nat /\ k # 0 /\ conns \in Nat /\ k > conns /\ k >= conns
      /\ conns' \in 0 .. MaxConns /\ sock' \in 0 .. conns'
  <2>1. conns \in Nat
    BY <1>0, Bounds
  <2>2. k \in Nat /\ k # 0 /\ k <= MaxConns /\ k > conns /\ k >= conns
    BY <1>1, <1>3, <2>1, Bounds
  <2> QED BY <1>1, <1>3, <2>1, <2>2, Bounds
<1>5. sending' \in Frames /\ sequence' \in 0 .. MaxSeq + 1
  <2>1. sequence \in 0 .. MaxSeq
    BY <1>0, <1>1, Bounds
  <2>2. sending' \in Frames
    BY <1>0, <1>2, <2>1 DEF Frames
  <2> QED BY <1>1, <2>1, <2>2, Bounds
<1>6. TypeOK'
  <2>1. writing' \in [Conns -> BOOLEAN] /\ thread' \in [Conns -> ThreadStates]
    BY <1>0, <1>1 DEF ThreadStates
  <2> QED BY <1>0, <1>1, <1>2, <1>4, <1>5, <2>1 DEF TypeOK
<1>7. ClientEnd'
  <2>1. written' <= sending'.size
    BY <1>2, <1>5, FrameFields
  <2>2. ASSUME NEW c \in Conns PROVE writing'[c] <=> sock' = c
    <3>1. c # 0
      BY Bounds
    <3>2. ~writing[c]
      BY <1>0, <1>1, <3>1 DEF ClientEnd
    <3> QED BY <1>0, <1>1, <1>3, <1>4, <3>2
  <2>3. sock' = conns' /\ sock' # 0
    BY <1>1, <1>3, <1>4
  <2> QED BY <2>1, <2>2, <2>3 DEF ClientEnd
<1>8. \A c \in Conns : c > conns' <=> c > conns /\ c # k
  BY <1>1, <1>3, <1>4, Bounds
<1>9. thread[k] = "none" /\ thread'[k] = "queued"
  BY <1>0, <1>1, <1>3, <1>4, Unmade
<1>10. \A c \in Conns : c # k => thread'[c] = thread[c]
  BY <1>0, <1>1, <1>3
<1>11. sock # k /\ sock' = k
  BY <1>1, <1>3, <1>4
<1> QED BY <1>1, <1>2, <1>4, <1>6, <1>7, <1>8, <1>9, <1>10, <1>11, FrameBegins

\* A piece of the frame goes to the end of the connection.
LEMMA SendPieceStep == ASSUME IInv, SendPiece PROVE IInv'
<1>0. /\ TypeOK /\ ClientEnd /\ (\A c \in Conns : ThreadEnd(c) /\ Chain(c))
      /\ stream \in [Conns -> Seq(Pieces)] /\ conns \in 0 .. MaxConns /\ written \in Nat
      /\ \A c \in Conns : Len(stream[c]) <= MaxBuffered
  BY DEF IInv, TypeOK
<1>1. /\ sending # NoFrame /\ thread[sock] # "ended" /\ Len(stream[sock]) < MaxBuffered
      /\ stream' = [stream EXCEPT ![sock] = Append(@, Piece(sending, written))]
      /\ UNCHANGED <<run, sequence, sock, recent, conns, writing, proxy, thread, header,
                     payload, host, offset, last, failures>>
  BY DEF SendPiece, threadVars
<1>2. \/ written < sending.size /\ written' = written + 1 /\ sending' = sending
      \/ written = sending.size /\ written' = 0 /\ sending' = NoFrame
  BY DEF SendPiece
<1>3. PICK k, f, x : k = sock /\ f = sending /\ x = Piece(sending, written)
  OBVIOUS
<1>4. /\ k \in Conns /\ k = conns /\ k \in Nat /\ f \in Frames /\ x \in Pieces
      /\ x.frame = f /\ x.part = written /\ f.size \in Nat /\ written <= f.size
  <2>1. sock = conns /\ sock # 0 /\ written <= sending.size
    BY <1>0, <1>1 DEF ClientEnd
  <2>2. conns \in Nat /\ conns <= MaxConns
    BY <1>0, Bounds
  <2>3. sending \in Frames
    BY <1>0, <1>1 DEF TypeOK
  <2> QED BY <1>0, <1>3, <2>1, <2>2, <2>3, Bounds, FrameFields, PieceFields, PieceType
<1>5. /\ stream'[k] = Append(stream[k], x)
      /\ stream' \in [Conns -> Seq(Pieces)]
      /\ \A c \in Conns : c # k => stream'[c] = stream[c]
  <2>1. Append(stream[k], x) \in Seq(Pieces)
    BY <1>0, <1>4, EndPut
  <2> QED BY <1>0, <1>1, <1>3, <1>4, <2>1
<1> DEFINE v == stream[k]
           w == stream'[k]
<1>6. /\ Len(w) = Len(v) + 1 /\ Len(v) \in Nat /\ w # <<>>
      /\ DOMAIN v = 1 .. Len(v) /\ DOMAIN w = 1 .. Len(v) + 1
      /\ \A i \in 1 .. Len(v) : w[i] = v[i]
      /\ w[Len(v) + 1] = x /\ w[Len(w)] = x
  BY <1>0, <1>4, <1>5, EndPut
<1>7. TypeOK'
  <2>1. \A c \in Conns : Len(stream'[c]) <= MaxBuffered
    <3>1. Len(w) <= MaxBuffered
      BY <1>1, <1>3, <1>6, Bounds
    <3> QED BY <1>0, <1>5, <3>1
  <2>2. sending' \in Frames \cup {NoFrame} /\ written' \in Nat
    BY <1>0, <1>2, <1>3, <1>4
  <2> QED BY <1>0, <1>1, <1>5, <2>1, <2>2 DEF TypeOK
<1>8. ClientEnd'
  <2>1. sending' # NoFrame => written' <= sending'.size
    BY <1>0, <1>2, <1>3, <1>4
  <2> QED BY <1>0, <1>1, <2>1 DEF ClientEnd
<1>9. /\ thread[k] # "ended" /\ thread[k] # "none" /\ MayWrite(k, x)
  <2>1. ~(k > conns)
    BY <1>4
  <2>2. thread[k] # "none"
    BY <1>0, <1>4, <2>1 DEF ThreadEnd
  <2> QED BY <1>0, <1>1, <1>3, <1>4, <2>2 DEF Chain
<1>10. ThreadEnd(k)'
  BY <1>0, <1>1, <1>4, <1>9 DEF ThreadEnd, InPayload
<1>11. Chain(k)'
  <2>1. \A q : Comes(k, q)' <=> Comes(k, q)
    BY <1>1 DEF Comes, InPayload
  <2>2. ASSUME NEW i \in 1 .. Len(w) - 1 PROVE Follows(w[i], w[i + 1])
    <3>1. PICK m \in Nat : m = Len(v)
      BY <1>6
    <3>2. i \in 1 .. m
      BY <1>6, <3>1
    <3>3. CASE i = m
      <4>1. v # <<>> /\ w[i] = v[Len(v)] /\ w[i + 1] = x
        <5>1. Len(v) # 0 /\ Len(<<>>) = 0
          BY <3>1, <3>2, <3>3
        <5>2. v # <<>>
          BY <5>1
        <5> QED BY <1>6, <3>1, <3>2, <3>3, <5>2
      <4> QED BY <1>9, <4>1 DEF MayWrite
    <3>4. CASE i # m
      <4>1. i \in 1 .. m - 1 /\ i + 1 \in 1 .. m
        BY <3>2, <3>4
      <4>2. Follows(v[i], v[i + 1])
        BY <1>0, <1>4, <3>1, <4>1 DEF Chain
      <4> QED BY <1>6, <3>1, <3>2, <4>1, <4>2
    <3> QED BY <3>3, <3>4
  <2>3. Comes(k, w[1])
    <3>1. CASE v = <<>>
      <4>1. w[1] = x
        <5>1. Len(v) = 0
          BY <3>1
        <5> QED BY <1>6, <5>1
      <4> QED BY <1>9, <3>1, <4>1 DEF MayWrite
    <3>2. CASE v # <<>>
      <4>1. Comes(k, v[1])
        BY <1>0, <1>4, <3>2 DEF Chain
      <4>2. Len(v) # 0
        BY <1>0, <1>4, <3>2
      <4>3. 1 \in 1 .. Len(v)
        BY <1>6, <4>2
      <4> QED BY <1>6, <4>1, <4>3
    <3> QED BY <3>1, <3>2
  <2>4. IF sending' = NoFrame THEN Between(k)' ELSE MayWrite(k, Piece(sending, written))'
    <3>1. CASE written < f.size
      <4>1. /\ sending' = f /\ written' = written + 1 /\ f # NoFrame
            /\ written # f.size
        BY <1>0, <1>1, <1>2, <1>3, <1>4, <3>1
      <4>2. Follows(x, Piece(f, written + 1))
        BY <1>4, <4>1 DEF Follows
      <4> QED BY <1>6, <4>1, <4>2 DEF MayWrite
    <3>2. CASE ~(written < f.size)
      <4>1. sending' = NoFrame /\ x.part = x.frame.size
        BY <1>2, <1>3, <1>4, <3>2
      <4> QED BY <1>6, <4>1 DEF Between
    <3> QED BY <3>1, <3>2
  <2> QED BY <1>6, <2>1, <2>2, <2>3, <2>4 DEF Chain
<1>12. Carried(k)' \subseteq Carried(k)
  <2> SUFFICES ASSUME NEW g \in Carried(k)' PROVE g \in Carried(k)
    OBVIOUS
  <2>1. g \in Frames
    BY DEF Carried
  <2>2. CASE header[k] = g \/ g = f
    BY <1>3, <2>1, <2>2 DEF Carried
  <2>3. CASE \E i \in DOMAIN w : w[i].frame = g
    <3>1. PICK i \in 1 .. Len(v) + 1 : w[i].frame = g
      BY <1>6, <2>3
    <3>2. CASE i = Len(v) + 1
      <4>1. g = f
        BY <1>4, <1>6, <3>1, <3>2
      <4> QED BY <1>3, <2>1, <4>1 DEF Carried
    <3>3. CASE i # Len(v) + 1
      <4>1. i \in 1 .. Len(v)
        BY <1>6, <3>3
      <4>2. i \in DOMAIN v /\ v[i].frame = g
        BY <1>6, <3>1, <4>1
      <4> QED BY <2>1, <4>2 DEF Carried
    <3> QED BY <3>2, <3>3
  <2>4. sock' = k /\ sending' = g => g = f
    BY <1>2, <1>3, <2>1, NoFrameAssumption
  <2> QED BY <1>1, <2>2, <2>3, <2>4 DEF Carried
<1>13. ASSUME NEW c \in Conns, c # k
       PROVE  ThreadEnd(c)' /\ Chain(c)' /\ Carried(c)' \subseteq Carried(c)
  <2>1. stream'[c] = stream[c] /\ sock # c
    BY <1>3, <1>5, <1>13
  <2>2. ThreadEnd(c)'
    BY <1>0, <1>1, <2>1 DEF ThreadEnd, InPayload
  <2>3. Chain(c)'
    BY <1>0, <1>1, <2>1 DEF Chain, Comes, InPayload
  <2>4. Carried(c)' \subseteq Carried(c)
    BY <1>1, <2>1 DEF Carried
  <2> QED BY <2>2, <2>3, <2>4
<1>14. Ages'
  BY <1>1, <1>12, <1>13, AgesStay
<1> QED BY <1>7, <1>8, <1>10, <1>11, <1>13, <1>14 DEF IInv
----------------------------------------------------------------------------
(***************************************************************************)
(* The theorems.                                                           *)
(***************************************************************************)
LEMMA NextIInv == ASSUME IInv, [Next]_vars PROVE IInv'
<1>1. CASE Client
  BY <1>1, SendConnectedStep, SendConnectingStep, SendSkippedStep, SendPieceStep,
     SendFailsStep DEF Client
<1>2. CASE TwoSecondsPass \/ NewInstance \/ AppDies
  BY <1>2, IdleSteps, AppDiesStep
<1>3. CASE \E c \in Conns : Thread(c) \/ DatagramFails(c)
  BY <1>3, ThreadStep
<1>4. CASE ProxyStarts \/ ServeEnds \/ ProxyDies
  BY <1>4, ProxyStartsStep, ServeEndsStep, ProxyDiesStep
<1>5. CASE UNCHANGED vars
  <2>1. UNCHANGED <<run, sequence, sock, recent, sending, written, conns, stream, writing,
                    proxy, thread, header, payload, host, offset, last, failures>>
    BY <1>5 DEF vars
  <2>2. TypeOK' /\ ClientEnd'
    BY <2>1 DEF IInv, TypeOK, ClientEnd
  <2>3. IInv /\ sequence' \in {sequence, sequence + 1}
    BY <2>1
  <2> QED BY <2>1, <2>2, <2>3, ClientMoves
<1> QED BY <1>1, <1>2, <1>3, <1>4, <1>5 DEF Next

THEOREM Invariance == Spec => []IInv
<1>1. Init => IInv
  BY InitIInv
<1>2. IInv /\ [Next]_vars => IInv'
  BY NextIInv
<1> QED BY <1>1, <1>2, PTL DEF Spec

\* The variables keep their types, no connection holds more pieces than it
\* can, and no payload grows past the length its header gave (send_frame,
\* readFully and drain).
THEOREM TypeCorrect == Spec => []TypeOK
<1>1. IInv => TypeOK
  BY DEF IInv
<1> QED BY <1>1, Invariance, PTL

\* The thread reads a header where the client wrote one, and the payload
\* goes on where it is, whatever send_frame gave up before.
THEOREM InStep == Spec => []StreamInStep
<1>1. ASSUME IInv PROVE StreamInStep
  <2> SUFFICES ASSUME NEW c \in Conns, stream[c] # <<>>
               PROVE  /\ thread[c] = "header" => Head(stream[c]).part = 0
                      /\ InPayload(c) =>
                            Head(stream[c]) = Piece(header[c], Len(payload[c]) + 1)
    BY DEF StreamInStep, InPayload
  <2>1. Chain(c) /\ stream[c] \in Seq(Pieces)
    BY <1>1 DEF IInv, TypeOK
  <2>2. Head(stream[c]) = stream[c][1]
    BY <2>1, HeadTaken
  <2>3. Comes(c, stream[c][1])
    BY <2>1 DEF Chain
  <2> QED BY <2>2, <2>3 DEF Comes, InPayload
<1> QED BY <1>1, Invariance, PTL

\* forwardClient sends the datagrams of one whole frame, with the header that
\* belongs to it.
THEOREM WholeForwarded == Spec => []ForwardedWhole
<1>1. ASSUME IInv PROVE ForwardedWhole
  BY <1>1 DEF IInv, ThreadEnd, ForwardedWhole
<1> QED BY <1>1, Invariance, PTL

\* One connection's frames leave the proxy in the order maybe_send_swapchain_image
\* numbered them, and what a connection carries is newer than all that those
\* before it carried, whatever fails and restarts; so no frame that was given up
\* is sent a second time.  Nothing is said of when the threads of two
\* connections send: that of the old one may still send after the new one's.
THEOREM InOrder == Spec => []SentInOrder
<1>1. ASSUME IInv PROVE SentInOrder
  <2> SUFFICES ASSUME NEW c \in Conns, NEW d \in Conns
               PROVE  /\ thread[c] = "datagrams" /\ last[c] # NoFrame
                            => Newer(header[c], last[c])
                      /\ c < d /\ header[c] # NoFrame /\ header[d] # NoFrame
                            => Newer(header[d], header[c])
    BY DEF SentInOrder
  <2>1. ThreadEnd(c) /\ Ages /\ header \in [Conns -> Frames \cup {NoFrame}]
    BY <1>1 DEF IInv, TypeOK
  <2>2. thread[c] = "datagrams" /\ last[c] # NoFrame => Newer(header[c], last[c])
    BY <2>1 DEF ThreadEnd
  <2>3. ASSUME c < d, header[c] # NoFrame, header[d] # NoFrame
        PROVE  Newer(header[d], header[c])
    <3>1. header[c] \in Carried(c) /\ header[d] \in Carried(d)
      BY <2>1, <2>3 DEF Carried
    <3> QED BY <2>1, <2>3, <3>1 DEF Ages
  <2> QED BY <2>2, <2>3
<1> QED BY <1>1, Invariance, PTL
----------------------------------------------------------------------------
(***************************************************************************)
(* Frames leave the container as ImageRelay says.  RInv adds to IInv that  *)
(* a header comes after everything older, and that only the frame numbered *)
(* last is being written.                                                  *)
(***************************************************************************)
\* A header in the stream of c is of a frame newer than all before it.
HeadersAscend(c) ==
    /\ \A i, j \in DOMAIN stream[c] :
          i < j /\ stream[c][j].part = 0 => Newer(stream[c][j].frame, stream[c][i].frame)
    /\ header[c] # NoFrame =>
          \A i \in DOMAIN stream[c] :
             stream[c][i].part = 0 => Newer(stream[c][i].frame, header[c])
    /\ sock = c /\ sending # NoFrame /\ written = 0 =>
          /\ \A i \in DOMAIN stream[c] : Newer(sending, stream[c][i].frame)
          /\ header[c] # NoFrame => Newer(sending, header[c])

JustNumbered == sending # NoFrame => sending.run = run /\ sending.seq + 1 = sequence

RInv == IInv /\ JustNumbered /\ \A c \in Conns : HeadersAscend(c)

\* Nothing is written to c, and its stream stays or is emptied.
LEMMA AscendStays ==
    ASSUME NEW c \in Conns, HeadersAscend(c), header'[c] = header[c],
           stream'[c] \in {stream[c], <<>>},
           \/ sock' = sock /\ sending' = sending /\ written' = written
           \/ sock' # c \/ sending' = NoFrame
    PROVE  HeadersAscend(c)'
<1>1. CASE stream'[c] = stream[c]
  BY <1>1 DEF HeadersAscend
<1>2. CASE stream'[c] = <<>>
  <2>1. DOMAIN stream'[c] = {}
    BY <1>2
  <2> QED BY <2>1 DEF HeadersAscend
<1> QED BY <1>1, <1>2

\* The thread of c takes a piece, perhaps a header.
LEMMA AscendRead ==
    ASSUME NEW c \in Conns, HeadersAscend(c), stream[c] \in Seq(Pieces), stream[c] # <<>>,
           stream'[c] = Tail(stream[c]),
           header'[c] \in {header[c], stream[c][1].frame},
           UNCHANGED <<sock, sending, written>>
    PROVE  HeadersAscend(c)'
<1>0. Len(stream[c]) \in Nat \ {0} /\ Len(stream'[c]) = Len(stream[c]) - 1
  BY HeadTaken
<1>1. PICK n \in Nat : n + 1 = Len(stream[c]) /\ n = Len(stream'[c])
  <2>1. Len(stream[c]) - 1 \in Nat /\ (Len(stream[c]) - 1) + 1 = Len(stream[c])
    BY <1>0
  <2> QED BY <1>0, <2>1
<1>2. /\ DOMAIN stream[c] = 1 .. n + 1 /\ DOMAIN stream'[c] = 1 .. n
      /\ \A i \in 1 .. n : stream'[c][i] = stream[c][i + 1]
  BY <1>1, HeadTaken
<1>3. /\ 1 \in 1 .. n + 1
      /\ \A i \in 1 .. n : i + 1 \in 1 .. n + 1 /\ 1 < i + 1 /\ i \in Nat
  OBVIOUS
<1>4. ASSUME NEW i \in 1 .. n, NEW j \in 1 .. n, i < j, stream'[c][j].part = 0
      PROVE  Newer(stream'[c][j].frame, stream'[c][i].frame)
  <2>1. i + 1 < j + 1
    BY <1>4
  <2> QED BY <1>2, <1>3, <1>4, <2>1 DEF HeadersAscend
<1>5. ASSUME header'[c] # NoFrame, NEW i \in 1 .. n, stream'[c][i].part = 0
      PROVE  Newer(stream'[c][i].frame, header'[c])
  BY <1>2, <1>3, <1>5 DEF HeadersAscend
<1>6. ASSUME sock = c, sending # NoFrame, written = 0
      PROVE  /\ \A i \in 1 .. n : Newer(sending, stream'[c][i].frame)
             /\ header'[c] # NoFrame => Newer(sending, header'[c])
  BY <1>2, <1>3, <1>6 DEF HeadersAscend
<1> QED BY <1>2, <1>4, <1>5, <1>6 DEF HeadersAscend

\* The frame that gets the next number is newer than all that are carried.
LEMMA NewestFrame ==
    ASSUME IInv, NEW f, f.run = run, f.seq = sequence,
           NEW c \in Conns, NEW g \in Carried(c)
    PROVE  Newer(f, g)
<1>1. Past(g) /\ g \in Frames
  BY DEF IInv, Ages, Carried
<1>2. g.run \in Nat /\ g.seq \in Nat /\ run \in Nat /\ sequence \in Nat
  BY <1>1, FrameFields, Bounds DEF IInv, TypeOK
<1> QED BY <1>1, <1>2 DEF Past, Newer

\* The client begins to write a frame.
LEMMA AscendBegins ==
    ASSUME IInv, NEW c \in Conns, HeadersAscend(c), UNCHANGED <<stream, header>>,
           sending'.run = run, sending'.seq = sequence
    PROVE  HeadersAscend(c)'
<1>1. stream[c] \in Seq(Pieces) /\ header[c] \in Frames \cup {NoFrame}
  BY DEF IInv, TypeOK
<1>2. ASSUME NEW i \in DOMAIN stream[c] PROVE Newer(sending', stream[c][i].frame)
  <2>1. PICK q : q = stream[c][i]
    OBVIOUS
  <2>2. q \in Pieces
    BY <1>1, <2>1
  <2>3. q.frame \in Frames
    BY <2>2 DEF Pieces
  <2>4. q.frame \in Carried(c)
    BY <2>1, <2>3 DEF Carried
  <2> QED BY <2>1, <2>4, NewestFrame
<1>3. ASSUME header[c] # NoFrame PROVE Newer(sending', header[c])
  <2>1. header[c] \in Carried(c)
    BY <1>1, <1>3 DEF Carried
  <2> QED BY <2>1, NewestFrame
<1> QED BY <1>2, <1>3 DEF HeadersAscend

\* A piece of sending goes to the end of the connection.
LEMMA AscendWrites ==
    ASSUME IInv, SendPiece, NEW c \in Conns, HeadersAscend(c)
    PROVE  HeadersAscend(c)'
<1>0. /\ stream \in [Conns -> Seq(Pieces)] /\ written \in Nat
      /\ sending \in Frames \cup {NoFrame}
  BY DEF IInv, TypeOK
<1>1. /\ sending # NoFrame
      /\ stream' = [stream EXCEPT ![sock] = Append(@, Piece(sending, written))]
      /\ header' = header /\ sock' = sock
      /\ written' = written + 1 \/ sending' = NoFrame
  BY DEF SendPiece, threadVars
<1>2. CASE sock # c
  BY <1>0, <1>1, <1>2, AscendStays
<1>3. CASE sock = c
  <2>1. PICK x : x = Piece(sending, written)
    OBVIOUS
  <2>2. /\ x \in Pieces /\ x.frame = sending /\ x.part = written
        /\ stream'[c] = Append(stream[c], x)
    BY <1>0, <1>1, <1>3, <2>1, PieceType, PieceFields
  <2>3. PICK n \in Nat : n = Len(stream[c])
    BY <1>0
  <2>4. /\ DOMAIN stream[c] = 1 .. n /\ DOMAIN stream'[c] = 1 .. n + 1
        /\ stream'[c][n + 1] = x
        /\ \A i \in 1 .. n : stream'[c][i] = stream[c][i]
    BY <1>0, <2>2, <2>3, EndPut
  <2>5. \A i \in 1 .. n + 1 : i \in 1 .. n \/ i = n + 1
    OBVIOUS
  <2>6. ASSUME NEW i \in 1 .. n + 1, NEW j \in 1 .. n + 1, i < j, stream'[c][j].part = 0
        PROVE  Newer(stream'[c][j].frame, stream'[c][i].frame)
    <3>1. i \in 1 .. n
      BY <2>6
    <3>2. CASE j = n + 1
      BY <1>1, <1>3, <2>2, <2>4, <2>6, <3>1, <3>2 DEF HeadersAscend
    <3>3. CASE j \in 1 .. n
      BY <2>4, <2>6, <3>1, <3>3 DEF HeadersAscend
    <3> QED BY <2>5, <3>2, <3>3
  <2>7. ASSUME header[c] # NoFrame, NEW i \in 1 .. n + 1, stream'[c][i].part = 0
        PROVE  Newer(stream'[c][i].frame, header[c])
    <3>1. CASE i = n + 1
      BY <1>1, <1>3, <2>2, <2>4, <2>7, <3>1 DEF HeadersAscend
    <3>2. CASE i \in 1 .. n
      BY <2>4, <2>7, <3>2 DEF HeadersAscend
    <3> QED BY <2>5, <3>1, <3>2
  <2>8. ~(sending' # NoFrame /\ written' = 0)
    BY <1>0, <1>1
  <2> QED BY <1>1, <2>4, <2>6, <2>7, <2>8 DEF HeadersAscend
<1> QED BY <1>2, <1>3

\* What the steps of the proxy do to what was written.
LEMMA ProxyAscends ==
    ASSUME RInv, UNCHANGED clientVars,
           \/ \E c \in Conns : Thread(c) \/ DatagramFails(c)
           \/ ProxyStarts \/ ServeEnds \/ ProxyDies,
           NEW d \in Conns
    PROVE  HeadersAscend(d)'
<1>0. /\ HeadersAscend(d) /\ UNCHANGED <<run, sequence, sock, sending, written>>
      /\ stream \in [Conns -> Seq(Pieces)] /\ header \in [Conns -> Frames \cup {NoFrame}]
  BY DEF RInv, IInv, TypeOK, clientVars
<1>1. ASSUME NEW c \in Conns, Accept(c) \/ DrainEnds(c) \/ SendDatagram(c) \/ FrameSent(c)
      PROVE  UNCHANGED <<stream, header>>
  BY <1>1 DEF Accept, DrainEnds, SendDatagram, FrameSent
<1>2. ASSUME NEW c \in Conns, HeaderEnds(c) \/ PayloadEnds(c) \/ DatagramFails(c)
      PROVE  stream'[d] \in {stream[d], <<>>} /\ header' = header
  BY <1>0, <1>2 DEF HeaderEnds, PayloadEnds, DatagramFails, Return
<1>3. ASSUME NEW c \in Conns, ReadHeader(c) \/ ReadPiece(c) \/ Drain(c)
      PROVE  HeadersAscend(d)'
  <2>1. /\ stream[c] # <<>> /\ stream' = [stream EXCEPT ![c] = Tail(@)]
        /\ header' \in {header, [header EXCEPT ![c] = Head(stream[c]).frame]}
    BY <1>3 DEF ReadHeader, ReadPiece, Drain
  <2>2. Head(stream[c]) = stream[c][1]
    BY <1>0, <2>1, HeadTaken
  <2>3. CASE d = c
    <3>1. /\ stream'[d] = Tail(stream[d]) /\ stream[d] \in Seq(Pieces) /\ stream[d] # <<>>
          /\ header'[d] \in {header[d], stream[d][1].frame}
      BY <1>0, <2>1, <2>2, <2>3
    <3> QED BY <1>0, <3>1, AscendRead
  <2>4. CASE d # c
    <3>1. stream'[d] = stream[d] /\ header'[d] = header[d]
      BY <1>0, <2>1, <2>4
    <3> QED BY <1>0, <3>1, AscendStays
  <2> QED BY <2>3, <2>4
<1>4. ASSUME ProxyStarts \/ ServeEnds \/ ProxyDies
      PROVE  stream'[d] \in {stream[d], <<>>} /\ header' = header
  BY <1>4 DEF ProxyStarts, ServeEnds, ProxyDies, threadVars
<1>5. ASSUME stream'[d] \in {stream[d], <<>>}, header' = header PROVE HeadersAscend(d)'
  BY <1>0, <1>5, AscendStays
<1>6. ASSUME NEW c \in Conns, Thread(c) \/ DatagramFails(c) PROVE HeadersAscend(d)'
  BY <1>1, <1>2, <1>3, <1>5, <1>6 DEF Thread
<1> QED BY <1>4, <1>5, <1>6

\* The steps of the proxy leave the client as it is.
LEMMA ProxyKeepsClient ==
    ASSUME \/ \E c \in Conns : Thread(c) \/ DatagramFails(c)
           \/ ProxyStarts \/ ServeEnds \/ ProxyDies
    PROVE  UNCHANGED clientVars /\ UNCHANGED <<run, sequence, sock, sending, written, conns>>
<1>1. ASSUME NEW c \in Conns, Thread(c) \/ DatagramFails(c) PROVE ProxyStep
  BY <1>1 DEF Thread, Accept, ReadHeader, HeaderEnds, ReadPiece, PayloadEnds, Drain,
              DrainEnds, SendDatagram, FrameSent, DatagramFails
<1>2. ASSUME ProxyStarts \/ ServeEnds \/ ProxyDies PROVE UNCHANGED <<clientVars, conns>>
  BY <1>2 DEF ProxyStarts, ServeEnds, ProxyDies
<1> QED BY <1>1, <1>2 DEF ProxyStep, clientVars

LEMMA NextRInv == ASSUME RInv, [Next]_vars PROVE RInv'
<1>0. IInv /\ JustNumbered /\ (\A c \in Conns : HeadersAscend(c)) /\ IInv'
  BY NextIInv DEF RInv
<1>1. CASE SendConnected \/ SendConnecting
  <2>1. /\ sending'.run = run /\ sending'.seq = sequence
        /\ run' = run /\ sequence' = sequence + 1 /\ UNCHANGED <<stream, header>>
    BY <1>1 DEF SendConnected, SendConnecting, StartFrame, WriteNext, threadVars
  <2> QED BY <1>0, <2>1, AscendBegins DEF RInv, JustNumbered
<1>2. CASE SendPiece
  <2>1. UNCHANGED <<run, sequence>> /\ sending' \in {sending, NoFrame}
    BY <1>2 DEF SendPiece
  <2> QED BY <1>0, <1>2, <2>1, AscendWrites DEF RInv, JustNumbered
<1>3. CASE \E c \in Conns : Thread(c) \/ DatagramFails(c)
  <2>1. UNCHANGED clientVars /\ UNCHANGED <<run, sequence, sending>>
    BY <1>3, ProxyKeepsClient
  <2> QED BY <1>0, <1>3, <2>1, ProxyAscends DEF RInv, JustNumbered
<1>4. CASE ProxyStarts \/ ServeEnds \/ ProxyDies
  <2>1. UNCHANGED clientVars /\ UNCHANGED <<run, sequence, sending>>
    BY <1>4, ProxyKeepsClient
  <2> QED BY <1>0, <1>4, <2>1, ProxyAscends DEF RInv, JustNumbered
<1>5. CASE SendSkipped \/ SendFails \/ TwoSecondsPass \/ NewInstance \/ AppDies \/ UNCHANGED vars
  <2>1. /\ UNCHANGED <<stream, header>>
        /\ UNCHANGED <<sock, sending, written>> \/ sending' = NoFrame
        /\ UNCHANGED <<run, sequence, sending>> \/ sending' = NoFrame \/ SendSkipped
    BY <1>5 DEF SendSkipped, SendFails, TwoSecondsPass, NewInstance, AppDies, vars, threadVars
  <2>2. SendSkipped => sending' = NoFrame
    BY DEF SendSkipped, StartFrame
  <2>3. \A c \in Conns : HeadersAscend(c)'
    BY <1>0, <2>1, AscendStays
  <2> QED BY <1>0, <2>1, <2>2, <2>3 DEF RInv, JustNumbered
<1> QED BY <1>1, <1>2, <1>3, <1>4, <1>5 DEF Next, Client

LEMMA InitRInv == Init => RInv
<1> SUFFICES ASSUME Init PROVE JustNumbered /\ \A c \in Conns : HeadersAscend(c)
  BY InitIInv DEF RInv
<1>1. sending = NoFrame /\ \A c \in Conns : stream[c] = <<>>
  BY DEF Init
<1>2. \A c \in Conns : DOMAIN stream[c] = {}
  BY <1>1
<1> QED BY <1>1, <1>2 DEF JustNumbered, HeadersAscend

Pending == [c \in Conns |-> OnTheWay(c)]

InHeader(c) == thread[c] \in {"payload", "datagrams"}

\* The frame whose header the client writes next.
Begins(c, f) == sock = c /\ sending = f /\ written = 0

LEMMA NotNewer == \A f \in Frames : ~Newer(f, f)
<1> QED BY FrameFields DEF Newer

LEMMA WaySame ==
    ASSUME NEW c \in Conns, stream'[c] = stream[c], header'[c] = header[c],
           InHeader(c)' <=> InHeader(c), thread'[c] = "ended" <=> thread[c] = "ended",
           thread[c] = "ended" \/ \A f \in Frames : Begins(c, f)' <=> Begins(c, f)
    PROVE  OnTheWay(c)' = OnTheWay(c)
<1> QED BY DEF OnTheWay, InHeader, Begins

LEMMA WayEnds == ASSUME NEW c \in Conns, thread'[c] = "ended" PROVE OnTheWay(c)' = {}
<1> QED BY DEF OnTheWay

\* What a thread takes from a stream that begins with the header of f.
LEMMA HeaderLeaves ==
    ASSUME NEW c \in Conns, stream[c] \in Seq(Pieces), stream[c] # <<>>,
           stream'[c] = Tail(stream[c]), NEW g
    PROVE  (\E i \in DOMAIN stream[c] : stream[c][i] = Piece(g, 0))
              <=> \/ stream[c][1] = Piece(g, 0)
                  \/ \E i \in DOMAIN stream'[c] : stream'[c][i] = Piece(g, 0)
<1>0. Len(stream[c]) \in Nat \ {0} /\ Len(stream'[c]) = Len(stream[c]) - 1
  BY HeadTaken
<1>1. PICK n \in Nat : n + 1 = Len(stream[c]) /\ n = Len(stream'[c])
  <2>1. Len(stream[c]) - 1 \in Nat /\ (Len(stream[c]) - 1) + 1 = Len(stream[c])
    BY <1>0
  <2> QED BY <1>0, <2>1
<1>2. /\ DOMAIN stream[c] = 1 .. n + 1 /\ DOMAIN stream'[c] = 1 .. n
      /\ \A i \in 1 .. n : stream'[c][i] = stream[c][i + 1]
  BY <1>1, HeadTaken
<1>3. ASSUME NEW i \in 1 .. n + 1, stream[c][i] = Piece(g, 0), i # 1
      PROVE  \E j \in 1 .. n : stream'[c][j] = Piece(g, 0)
  <2>1. PICK j \in 1 .. n : j + 1 = i
    <3>1. i - 1 \in 1 .. n /\ (i - 1) + 1 = i
      BY <1>3
    <3> QED BY <3>1
  <2> QED BY <1>2, <1>3, <2>1
<1>4. ASSUME NEW j \in 1 .. n, stream'[c][j] = Piece(g, 0)
      PROVE  \E i \in 1 .. n + 1 : stream[c][i] = Piece(g, 0)
  <2>1. j + 1 \in 1 .. n + 1
    OBVIOUS
  <2> QED BY <1>2, <1>4, <2>1
<1>5. 1 \in 1 .. n + 1
  OBVIOUS
<1> QED BY <1>2, <1>3, <1>4, <1>5

\* A step that changes no frame's way and no number is a stutter.
LEMMA WayStays ==
    ASSUME \A c \in Conns : OnTheWay(c)' = OnTheWay(c), UNCHANGED <<run, sequence, last>>
    PROVE  UNCHANGED Relay!relayVars
<1>1. Pending' = Pending
  BY DEF Pending
<1> QED BY <1>1 DEF Relay!relayVars, Pending

\* A step of the thread of c is about the frames on their way over c.
LEMMA OtherWays ==
    ASSUME NEW c \in Conns, UNCHANGED <<sock, sending, written>>, NEW d \in Conns, d # c,
           stream'[d] = stream[d], header'[d] = header[d], thread'[d] = thread[d]
    PROVE  OnTheWay(d)' = OnTheWay(d)
<1> QED BY WaySame DEF InHeader, Begins

LEMMA LoseOf ==
    ASSUME NEW lost \in SUBSET Conns, UNCHANGED <<run, sequence, last>>,
           \A c \in Conns : OnTheWay(c)' = IF c \in lost THEN {} ELSE OnTheWay(c)
    PROVE  Relay!RelayNext
<1>1. Pending' = [c \in Conns |-> IF c \in lost THEN {} ELSE Pending[c]]
  BY DEF Pending
<1>2. Relay!Lose(lost)
  BY <1>1 DEF Relay!Lose, Pending
<1> QED BY <1>2 DEF Relay!RelayNext

\* f is the oldest of the frames on their way over c, and leaves it.
LEMMA OldestTaken ==
    ASSUME NEW c \in Conns, NEW f \in OnTheWay(c),
           \A g \in OnTheWay(c) : g = f \/ Newer(g, f),
           OnTheWay(c)' = OnTheWay(c) \ {f},
           \A d \in Conns : d # c => OnTheWay(d)' = OnTheWay(d)
    PROVE  Relay!TakeOldest(c, f)
<1>1. Pending' = [Pending EXCEPT ![c] = @ \ {f}]
  BY DEF Pending
<1>2. f \in Pending[c] /\ \A g \in Pending[c] : g = f \/ Relay!Newer(g, f)
  BY DEF Pending, Newer, Relay!Newer
<1> QED BY <1>1, <1>2 DEF Relay!TakeOldest, Pending

\* A piece of a payload is read, or thrown away: no frame leaves.
LEMMA PieceKeepsWay ==
    ASSUME IInv, NEW c \in Conns, ReadPiece(c) \/ Drain(c)
    PROVE  OnTheWay(c)' = OnTheWay(c)
<1>0. /\ thread \in [Conns -> ThreadStates] /\ stream \in [Conns -> Seq(Pieces)]
      /\ Chain(c) /\ ThreadEnd(c) /\ payload[c] \in Seq(Pieces)
  BY DEF IInv, TypeOK
<1>1. /\ stream[c] # <<>> /\ stream'[c] = Tail(stream[c]) /\ InPayload(c)
      /\ UNCHANGED <<header, sock, sending, written>>
      /\ InHeader(c)' <=> InHeader(c)
      /\ thread[c] # "ended" /\ thread'[c] # "ended"
  BY <1>0 DEF ReadPiece, Drain, InPayload, InHeader, ProxyStep, clientVars
<1>2. stream[c][1] = Piece(header[c], Len(payload[c]) + 1)
  BY <1>0, <1>1 DEF Chain, Comes
<1>3. Len(payload[c]) + 1 # 0
  BY <1>0
<1>4. \A g : stream[c][1] # Piece(g, 0)
  BY <1>2, <1>3, PieceFields
<1>5. ASSUME NEW g
      PROVE  (\E i \in DOMAIN stream'[c] : stream'[c][i] = Piece(g, 0))
                <=> \E i \in DOMAIN stream[c] : stream[c][i] = Piece(g, 0)
  BY <1>0, <1>1, <1>4, HeaderLeaves
<1> QED BY <1>1, <1>5 DEF OnTheWay, InHeader

\* A header is read: its frame is the oldest on the way, and without a host
\* to send to it leaves the way.
LEMMA HeaderRead ==
    ASSUME RInv, NEW c \in Conns, ReadHeader(c), NEW f, f = Head(stream[c]).frame
    PROVE  /\ f \in OnTheWay(c)
           /\ \A g \in OnTheWay(c) : g = f \/ Newer(g, f)
           /\ \/ OnTheWay(c)' = OnTheWay(c)
              \/ OnTheWay(c)' = OnTheWay(c) \ {f}
<1>0. /\ stream \in [Conns -> Seq(Pieces)] /\ header \in [Conns -> Frames \cup {NoFrame}]
      /\ thread \in [Conns -> ThreadStates]
      /\ Chain(c) /\ HeadersAscend(c)
  BY DEF RInv, IInv, TypeOK
<1>1. /\ thread[c] = "header" /\ stream[c] # <<>>
      /\ stream'[c] = Tail(stream[c]) /\ header'[c] = f
      /\ thread'[c] \in {"payload", "drain"}
      /\ UNCHANGED <<sock, sending, written>>
  BY <1>0 DEF ReadHeader, ProxyStep, clientVars
<1>2. PICK q \in Pieces : q = stream[c][1] /\ f = q.frame
  BY <1>0, <1>1, HeadTaken
<1>3. q = Piece(f, 0) /\ f \in Frames
  <2>1. q.part = 0
    BY <1>0, <1>1, <1>2 DEF Chain, Comes, InPayload
  <2> QED BY <1>2, <2>1 DEF Pieces, Piece
<1>4. 1 \in DOMAIN stream[c] /\ \A i \in DOMAIN stream[c] : i # 1 => 1 < i
  BY <1>0, <1>1
<1>5. f \in OnTheWay(c)
  BY <1>1, <1>2, <1>3, <1>4 DEF OnTheWay
<1>6. ASSUME NEW i \in DOMAIN stream[c], i # 1, NEW g, stream[c][i] = Piece(g, 0)
      PROVE  Newer(g, f)
  BY <1>0, <1>2, <1>4, <1>6, PieceFields DEF HeadersAscend
<1>7. ASSUME NEW g \in Frames, sock = c, sending = g, written = 0 PROVE Newer(g, f)
  BY <1>0, <1>2, <1>4, <1>7, NoFrameAssumption DEF HeadersAscend
<1>8. ASSUME NEW g \in OnTheWay(c) PROVE g = f \/ Newer(g, f)
  <2>1. CASE \E i \in DOMAIN stream[c] : stream[c][i] = Piece(g, 0)
    <3>1. PICK i \in DOMAIN stream[c] : stream[c][i] = Piece(g, 0)
      BY <2>1
    <3>2. CASE i = 1
      BY <1>2, <3>1, <3>2, PieceFields
    <3> QED BY <1>6, <3>1, <3>2
  <2> QED BY <1>1, <1>7, <2>1 DEF OnTheWay
<1>9. ASSUME NEW g
      PROVE  (\E i \in DOMAIN stream[c] : stream[c][i] = Piece(g, 0))
                <=> g = f \/ \E i \in DOMAIN stream'[c] : stream'[c][i] = Piece(g, 0)
  <2>1. stream[c][1] = Piece(g, 0) <=> g = f
    BY <1>2, <1>3, PieceFields
  <2> QED BY <1>0, <1>1, <2>1, HeaderLeaves
<1>10. CASE thread'[c] = "payload"
  <2>1. OnTheWay(c)' = OnTheWay(c)
    BY <1>1, <1>3, <1>9, <1>10 DEF OnTheWay
  <2> QED BY <1>5, <1>8, <2>1
<1>11. CASE thread'[c] = "drain"
  <2>1. ~\E i \in DOMAIN stream'[c] : stream'[c][i] = Piece(f, 0)
    <3> SUFFICES ASSUME NEW i \in DOMAIN stream'[c], stream'[c][i] = Piece(f, 0) PROVE FALSE
      OBVIOUS
    <3>1. PICK j \in DOMAIN stream[c] : j # 1 /\ stream[c][j] = Piece(f, 0)
      <4>1. i \in 1 .. Len(stream[c]) - 1 /\ Len(stream[c]) \in Nat \ {0}
        BY <1>0, <1>1, HeadTaken
      <4>2. i + 1 \in DOMAIN stream[c] /\ i + 1 # 1
        BY <1>0, <4>1
      <4>3. stream'[c][i] = stream[c][i + 1]
        BY <1>0, <1>1, <4>1, HeadTaken
      <4> QED BY <4>2, <4>3
    <3> QED BY <1>3, <1>6, <3>1, NotNewer
  <2>2. ~(sock = c /\ sending = f /\ written = 0)
    BY <1>3, <1>7, NotNewer
  <2>3. OnTheWay(c)' = OnTheWay(c) \ {f}
    BY <1>1, <1>9, <1>11, <2>1, <2>2 DEF OnTheWay
  <2> QED BY <1>5, <1>8, <2>3
<1> QED BY <1>1, <1>10, <1>11

\* The frame whose datagrams were sent was the oldest on the way, and leaves it.
LEMMA SentLeaves ==
    ASSUME RInv, NEW c \in Conns, FrameSent(c), NEW f, f = header[c]
    PROVE  /\ f \in OnTheWay(c)
           /\ \A g \in OnTheWay(c) : g = f \/ Newer(g, f)
           /\ OnTheWay(c)' = OnTheWay(c) \ {f}
<1>0. /\ header[c] \in Frames \cup {NoFrame} /\ thread \in [Conns -> ThreadStates]
      /\ ThreadEnd(c) /\ HeadersAscend(c)
  BY DEF RInv, IInv, TypeOK
<1>1. /\ thread[c] = "datagrams" /\ thread'[c] = "header"
      /\ UNCHANGED <<stream, header, sock, sending, written>>
  BY <1>0 DEF FrameSent, ProxyStep, clientVars
<1>2. f \in Frames /\ header[c] # NoFrame
  BY <1>0, <1>1 DEF ThreadEnd
<1>3. ASSUME NEW i \in DOMAIN stream[c], NEW g, stream[c][i] = Piece(g, 0)
      PROVE  Newer(g, f)
  BY <1>0, <1>2, <1>3, PieceFields DEF HeadersAscend
<1>4. ASSUME NEW g \in Frames, sock = c, sending = g, written = 0 PROVE Newer(g, f)
  BY <1>0, <1>2, <1>4, NoFrameAssumption DEF HeadersAscend
<1>5. f \in OnTheWay(c)
  BY <1>1, <1>2 DEF OnTheWay
<1>6. \A g \in OnTheWay(c) : g = f \/ Newer(g, f)
  BY <1>3, <1>4 DEF OnTheWay
<1>7. ~\E i \in DOMAIN stream[c] : stream[c][i] = Piece(f, 0)
  BY <1>2, <1>3, NotNewer
<1>8. ~(sock = c /\ sending = f /\ written = 0)
  BY <1>2, <1>4, NotNewer
<1>9. OnTheWay(c)' = OnTheWay(c) \ {f}
  BY <1>1, <1>7, <1>8 DEF OnTheWay
<1> QED BY <1>5, <1>6, <1>9

\* A thread of the proxy, step by step.
LEMMA ThreadRelay ==
    ASSUME RInv, NEW c \in Conns, Thread(c) \/ DatagramFails(c)
    PROVE  Relay!RelayNext \/ UNCHANGED Relay!relayVars
<1>0. /\ IInv /\ thread \in [Conns -> ThreadStates] /\ stream \in [Conns -> Seq(Pieces)]
      /\ header \in [Conns -> Frames \cup {NoFrame}]
      /\ UNCHANGED <<run, sequence, sock, sending, written>>
  BY ProxyKeepsClient DEF RInv, IInv, TypeOK
<1>1. ASSUME Accept(c) \/ DrainEnds(c) \/ SendDatagram(c)
      PROVE  UNCHANGED Relay!relayVars
  <2>1. /\ UNCHANGED <<stream, header, last>>
        /\ \A d \in Conns : d # c => thread'[d] = thread[d]
        /\ InHeader(c)' <=> InHeader(c)
        /\ thread[c] # "ended" /\ thread'[c] # "ended"
    BY <1>0, <1>1 DEF Accept, DrainEnds, SendDatagram, InHeader
  <2>2. OnTheWay(c)' = OnTheWay(c)
    BY <1>0, <2>1, WaySame DEF Begins
  <2> QED BY <1>0, <2>1, <2>2, OtherWays, WayStays
<1>2. ASSUME ReadPiece(c) \/ Drain(c) PROVE UNCHANGED Relay!relayVars
  <2>1. /\ UNCHANGED <<header, last>>
        /\ \A d \in Conns : d # c => thread'[d] = thread[d] /\ stream'[d] = stream[d]
    BY <1>0, <1>2 DEF ReadPiece, Drain
  <2> QED BY <1>0, <1>2, <2>1, PieceKeepsWay, OtherWays, WayStays
<1>3. ASSUME ReadHeader(c) PROVE Relay!RelayNext \/ UNCHANGED Relay!relayVars
  <2>1. PICK f : f = Head(stream[c]).frame
    OBVIOUS
  <2>2. /\ UNCHANGED last
        /\ \A d \in Conns : d # c => /\ thread'[d] = thread[d] /\ stream'[d] = stream[d]
                                     /\ header'[d] = header[d]
    BY <1>0, <1>3 DEF ReadHeader
  <2>3. \A d \in Conns : d # c => OnTheWay(d)' = OnTheWay(d)
    BY <1>0, <2>2, OtherWays
  <2>4. CASE OnTheWay(c)' = OnTheWay(c)
    BY <1>0, <2>2, <2>3, <2>4, WayStays
  <2>5. CASE OnTheWay(c)' = OnTheWay(c) \ {f}
    <3>1. f \in OnTheWay(c) /\ \A g \in OnTheWay(c) : g = f \/ Newer(g, f)
      BY <1>3, <2>1, HeaderRead
    <3>2. Relay!TakeOldest(c, f)
      BY <2>3, <2>5, <3>1, OldestTaken
    <3>3. Relay!Discard(c, f) /\ f \in Pending[c]
      BY <1>0, <2>2, <3>1, <3>2 DEF Relay!Discard, Pending
    <3> QED BY <3>3 DEF Relay!RelayNext, Pending
  <2> QED BY <1>3, <2>1, <2>4, <2>5, HeaderRead
<1>4. ASSUME FrameSent(c) PROVE Relay!RelayNext
  <2>1. PICK f : f = header[c]
    OBVIOUS
  <2>2. /\ UNCHANGED <<stream, header>> /\ last' = [last EXCEPT ![c] = f]
        /\ \A d \in Conns : d # c => thread'[d] = thread[d]
    BY <1>0, <1>4, <2>1 DEF FrameSent
  <2>3. \A d \in Conns : d # c => OnTheWay(d)' = OnTheWay(d)
    BY <1>0, <2>2, OtherWays
  <2>4. /\ f \in OnTheWay(c) /\ OnTheWay(c)' = OnTheWay(c) \ {f}
        /\ \A g \in OnTheWay(c) : g = f \/ Newer(g, f)
    BY <1>4, <2>1, SentLeaves
  <2>5. Relay!TakeOldest(c, f)
    BY <2>3, <2>4, OldestTaken
  <2>6. Relay!Forward(c, f) /\ f \in Pending[c]
    BY <1>0, <2>2, <2>4, <2>5 DEF Relay!Forward, Pending
  <2> QED BY <2>6 DEF Relay!RelayNext, Pending
<1>5. ASSUME HeaderEnds(c) \/ PayloadEnds(c) \/ DatagramFails(c) PROVE Relay!RelayNext
  <2>1. /\ UNCHANGED <<header, last>> /\ thread'[c] = "ended"
        /\ \A d \in Conns : d # c => thread'[d] = thread[d] /\ stream'[d] = stream[d]
    BY <1>0, <1>5 DEF HeaderEnds, PayloadEnds, DatagramFails, Return
  <2>2. \A d \in Conns : OnTheWay(d)' = IF d \in {c} THEN {} ELSE OnTheWay(d)
    BY <1>0, <2>1, WayEnds, OtherWays
  <2>3. {c} \in SUBSET Conns
    OBVIOUS
  <2> QED BY <1>0, <2>1, <2>2, <2>3, LoseOf
<1> QED BY <1>1, <1>2, <1>3, <1>4, <1>5 DEF Thread

\* Connections end with all that was on them.
LEMMA ProxyRelay ==
    ASSUME RInv, ProxyStarts \/ ServeEnds \/ ProxyDies
    PROVE  Relay!RelayNext \/ UNCHANGED Relay!relayVars
<1>0. /\ \A c \in Conns : ThreadEnd(c)
      /\ UNCHANGED <<run, sequence, sock, sending, written>>
      /\ UNCHANGED <<header, last>>
  BY ProxyKeepsClient DEF RInv, IInv, ProxyStarts, ServeEnds, ProxyDies, threadVars
<1>1. CASE ProxyStarts
  <2>1. UNCHANGED <<stream, thread>>
    BY <1>1 DEF ProxyStarts, threadVars
  <2>2. \A c \in Conns : OnTheWay(c)' = OnTheWay(c)
    BY <1>0, <2>1, WaySame DEF InHeader, Begins
  <2> QED BY <1>0, <2>2, WayStays
<1>2. CASE ServeEnds
  <2>1. PICK lost \in SUBSET Conns : lost = {c \in Conns : thread[c] = "queued"}
    OBVIOUS
  <2>2. \A c \in Conns :
           /\ c \in lost => thread'[c] = "ended"
           /\ c \notin lost => thread'[c] = thread[c] /\ stream'[c] = stream[c]
    BY <1>2, <2>1 DEF ServeEnds
  <2>3. \A c \in Conns : OnTheWay(c)' = IF c \in lost THEN {} ELSE OnTheWay(c)
    BY <1>0, <2>2, WayEnds, WaySame DEF InHeader, Begins
  <2> QED BY <1>0, <2>3, LoseOf
<1>3. CASE ProxyDies
  <2>1. PICK lost \in SUBSET Conns : lost = {c \in Conns : c <= conns}
    OBVIOUS
  <2>2. \A c \in Conns :
           /\ stream'[c] = <<>>
           /\ c \in lost => thread'[c] = "ended"
           /\ c \notin lost => thread'[c] = "none"
    BY <1>3, <2>1 DEF ProxyDies
  <2>3. ASSUME NEW c \in Conns, c \notin lost PROVE OnTheWay(c)' = OnTheWay(c)
    <3>1. c > conns
      BY <2>1, <2>3, Bounds DEF RInv, IInv, TypeOK
    <3>2. thread[c] = "none" /\ stream[c] = <<>>
      BY <3>1, Unmade DEF RInv
    <3> QED BY <1>0, <2>2, <2>3, <3>2, WaySame DEF InHeader, Begins
  <2>4. \A c \in Conns : OnTheWay(c)' = IF c \in lost THEN {} ELSE OnTheWay(c)
    BY <2>2, <2>3, WayEnds
  <2> QED BY <1>0, <2>4, LoseOf
<1> QED BY <1>1, <1>2, <1>3

\* The client writes a piece: with its header a frame is on its way as before.
LEMMA PieceSentRelay == ASSUME RInv, SendPiece PROVE UNCHANGED Relay!relayVars
<1>0. /\ stream \in [Conns -> Seq(Pieces)] /\ written \in Nat
      /\ sending \in Frames \cup {NoFrame}
  BY DEF RInv, IInv, TypeOK
<1>1. /\ sending # NoFrame
      /\ stream' = [stream EXCEPT ![sock] = Append(@, Piece(sending, written))]
      /\ UNCHANGED <<run, sequence, sock, thread, header, last>>
      /\ written' = written + 1 \/ sending' = NoFrame
  BY DEF SendPiece, threadVars
<1>2. ASSUME NEW c \in Conns, sock # c PROVE OnTheWay(c)' = OnTheWay(c)
  <2>1. stream'[c] = stream[c]
    BY <1>0, <1>1, <1>2
  <2> QED BY <1>1, <1>2, <2>1, WaySame DEF InHeader, Begins
<1>3. ASSUME NEW c \in Conns, sock = c PROVE OnTheWay(c)' = OnTheWay(c)
  <2>1. PICK x \in Pieces : x = Piece(sending, written)
    BY <1>0, <1>1, PieceType
  <2>2. x.frame = sending /\ x.part = written /\ stream'[c] = Append(stream[c], x)
    BY <1>0, <1>1, <1>3, <2>1, PieceFields
  <2>3. PICK n \in Nat : n = Len(stream[c])
    BY <1>0
  <2>4. /\ DOMAIN stream[c] = 1 .. n /\ DOMAIN stream'[c] = 1 .. n + 1
        /\ stream'[c][n + 1] = x
        /\ \A i \in 1 .. n : stream'[c][i] = stream[c][i]
    BY <1>0, <2>2, <2>3, EndPut
  <2>5. \A i : i \in 1 .. n + 1 <=> i \in 1 .. n \/ i = n + 1
    BY <2>3
  <2>6. \A g : x = Piece(g, 0) <=> g = sending /\ written = 0
    BY <2>1, <2>2, PieceFields
  <2>7. ASSUME NEW g
        PROVE  (\E i \in DOMAIN stream'[c] : stream'[c][i] = Piece(g, 0))
                  <=> \/ \E i \in DOMAIN stream[c] : stream[c][i] = Piece(g, 0)
                      \/ g = sending /\ written = 0
    BY <2>4, <2>5, <2>6
  <2>8. \A g \in Frames : ~(sending' = g /\ written' = 0)
    BY <1>0, <1>1, NoFrameAssumption
  <2> QED BY <1>1, <1>3, <2>7, <2>8 DEF OnTheWay
<1> QED BY <1>1, <1>2, <1>3, WayStays

\* A frame gets its number, and a connection that may have ended already.
LEMMA BeginRelay == ASSUME RInv, SendConnected \/ SendConnecting PROVE Relay!RelayNext
<1>0. /\ IInv /\ IInv' /\ thread \in [Conns -> ThreadStates] /\ conns \in Nat
      /\ ClientEnd /\ ClientEnd' /\ conns' \in 0 .. MaxConns /\ conns' \in Nat
  <2>1. IInv'
    BY SendConnectedStep, SendConnectingStep DEF RInv
  <2>2. /\ IInv /\ thread \in [Conns -> ThreadStates] /\ ClientEnd
        /\ conns \in 0 .. MaxConns
    BY DEF RInv, IInv, TypeOK
  <2>3. ClientEnd' /\ conns' \in 0 .. MaxConns
    BY <2>1 DEF IInv, TypeOK
  <2>4. conns \in Nat /\ conns' \in Nat
    BY <2>2, <2>3, Bounds
  <2> QED BY <2>1, <2>2, <2>3, <2>4
<1>1. PICK f, k : f = sending' /\ k = sock'
  OBVIOUS
<1>2. /\ f.run = run /\ f.seq = sequence /\ f \in Frames /\ sending = NoFrame /\ written' = 0
      /\ run' = run /\ sequence' = sequence + 1
      /\ UNCHANGED <<stream, header, last>>
      /\ sock' = sock \/ (sock' = conns' /\ conns' = conns + 1)
      /\ conns' \in {conns, conns + 1}
  <2>1. /\ f.run = run /\ f.seq = sequence /\ sending = NoFrame /\ written' = 0
        /\ run' = run /\ sequence' = sequence + 1
        /\ UNCHANGED <<stream, header, last>>
        /\ sock' = sock \/ (sock' = conns' /\ conns' = conns + 1)
        /\ conns' \in {conns, conns + 1} /\ sock' # 0
    <3>1. PICK n \in Sizes : /\ f = [run |-> run, seq |-> sequence, size |-> n]
                             /\ written' = 0
      BY <1>1 DEF SendConnected, SendConnecting, WriteNext
    <3>2. f.run = run /\ f.seq = sequence
      BY <3>1
    <3>3. CASE SendConnected
      BY <3>1, <3>2, <3>3 DEF SendConnected, StartFrame, threadVars
    <3>4. CASE SendConnecting
      <4>1. conns + 1 # 0
        BY <1>0
      <4> QED BY <3>1, <3>2, <3>4, <4>1 DEF SendConnecting, StartFrame
    <3> QED BY <3>3, <3>4
  <2>2. f \in Frames
    <3>1. PICK n \in Sizes : f = [run |-> run, seq |-> sequence, size |-> n]
      BY <1>1 DEF SendConnected, SendConnecting, WriteNext
    <3>2. sequence <= MaxSeq
      BY DEF SendConnected, SendConnecting, StartFrame
    <3>3. run \in 1 .. MaxRuns /\ sequence \in 0 .. MaxSeq
      <4>1. run \in 1 .. MaxRuns /\ sequence \in 0 .. MaxSeq + 1
        BY <1>0 DEF IInv, TypeOK
      <4> QED BY <3>2, <4>1, Bounds
    <3> QED BY <3>1, <3>3 DEF Frames
  <2> QED BY <1>1, <2>1, <2>2
<1>3. k \in Conns /\ k = conns'
  <2>1. k = conns' /\ k # 0
    BY <1>0, <1>1, <1>2, NoFrameAssumption DEF ClientEnd
  <2> QED BY <1>0, <2>1, Bounds
<1>4. \A c \in Conns : \/ thread'[c] = thread[c]
                       \/ thread[c] = "none" /\ thread'[c] = "queued"
  <2>1. CASE SendConnected
    <3>1. thread' = thread
      BY <2>1 DEF SendConnected, threadVars
    <3> QED BY <3>1
  <2>2. CASE SendConnecting
    <3>1. PICK j : j = conns + 1
      OBVIOUS
    <3>2. thread' = [thread EXCEPT ![j] = "queued"] /\ j = k /\ j > conns
      BY <1>0, <1>3, <2>2, <3>1 DEF SendConnecting
    <3>3. thread[j] = "none"
      BY <1>0, <1>3, <3>2, Unmade
    <3>4. thread \in [Conns -> ThreadStates] /\ j \in Conns
      BY <1>0, <1>3, <3>2
    <3>5. \A c \in Conns : thread'[c] = IF c = j THEN "queued" ELSE thread[c]
      BY <3>2, <3>4
    <3> QED BY <3>3, <3>5
  <2> QED BY <2>1, <2>2
<1>5. ASSUME NEW c \in Conns
      PROVE  (InHeader(c)' <=> InHeader(c)) /\ (thread'[c] = "ended" <=> thread[c] = "ended")
  BY <1>4 DEF InHeader
<1>6. ASSUME NEW c \in Conns, c # k \/ thread[c] = "ended"
      PROVE  OnTheWay(c)' = OnTheWay(c)
  <2>1. c # k => \A g \in Frames : ~Begins(c, g)' /\ ~Begins(c, g)
    BY <1>1, <1>2, NoFrameAssumption DEF Begins
  <2> QED BY <1>2, <1>5, <1>6, <2>1, WaySame
<1>7. \A d \in Conns : d > k => OnTheWay(d) = {} /\ last[d] = NoFrame
  <2> SUFFICES ASSUME NEW d \in Conns, d > k PROVE OnTheWay(d) = {} /\ last[d] = NoFrame
    OBVIOUS
  <2>1. d > conns
    BY <1>0, <1>2, <1>3, Bounds
  <2>2. /\ thread[d] = "none" /\ stream[d] = <<>> /\ last[d] = NoFrame /\ sock # d
    BY <1>0, <2>1, Unmade
  <2>3. DOMAIN stream[d] = {}
    BY <2>2
  <2> QED BY <2>2, <2>3 DEF OnTheWay
<1>8. CASE thread[k] = "ended"
  <2>1. Pending' = Pending
    BY <1>6, <1>8 DEF Pending
  <2>2. Relay!Number
    BY <1>2, <2>1 DEF Relay!Number, Pending
  <2> QED BY <2>2 DEF Relay!RelayNext
<1>9. CASE thread[k] # "ended"
  <2>1. ~\E g \in Frames : Begins(k, g)
    BY <1>2, NoFrameAssumption DEF Begins
  <2>2. \A g \in Frames : Begins(k, g)' <=> g = f
    BY <1>1, <1>2 DEF Begins
  <2>3. OnTheWay(k)' = OnTheWay(k) \cup {f}
    BY <1>2, <1>3, <1>5, <1>9, <2>1, <2>2 DEF OnTheWay, InHeader, Begins
  <2>4. Pending' = [Pending EXCEPT ![k] = @ \cup {f}]
    BY <1>3, <1>6, <2>3 DEF Pending
  <2>5. Relay!Put(k, f)
    BY <1>7, <2>4 DEF Relay!Put, Pending
  <2>6. Relay!Number
    BY <1>2, <1>3, <2>5 DEF Relay!Number
  <2> QED BY <2>6 DEF Relay!RelayNext
<1> QED BY <1>8, <1>9

\* The frame that is being written is given up: it leaves the way when its
\* header was not written yet.
LEMMA GivenUp ==
    ASSUME RInv, sock' = 0, sending' = NoFrame, UNCHANGED <<stream, header, thread>>
    PROVE  Relay!Withdrawn \/ Pending' = Pending
<1>0. /\ ClientEnd /\ JustNumbered /\ sending \in Frames \cup {NoFrame}
      /\ conns \in 0 .. MaxConns
      /\ (\A c \in Conns : HeadersAscend(c) /\ (header[c] \in Frames \cup {NoFrame}))
  BY DEF RInv, IInv, TypeOK
<1>1. \A c \in Conns, g \in Frames : ~Begins(c, g)'
  BY NoFrameAssumption DEF Begins
<1>2. CASE sending # NoFrame /\ written = 0 /\ thread[sock] # "ended"
  <2>1. PICK k, f : k = sock /\ f = sending
    OBVIOUS
  <2>2. k \in Conns /\ f \in Frames /\ f # NoFrame /\ f.run = run /\ f.seq + 1 = sequence
    <3>1. sock = conns /\ sock # 0
      BY <1>0, <1>2 DEF ClientEnd
    <3> QED BY <1>0, <1>2, <2>1, <3>1, Bounds DEF JustNumbered
  <2>3. ASSUME NEW i \in DOMAIN stream[k], stream[k][i] = Piece(f, 0) PROVE FALSE
    BY <1>0, <1>2, <2>1, <2>2, <2>3, PieceFields, NotNewer DEF HeadersAscend
  <2>4. header[k] # f
    BY <1>0, <1>2, <2>1, <2>2, NotNewer DEF HeadersAscend
  <2>5. \A g \in Frames : Begins(k, g) <=> g = f
    BY <1>2, <2>1 DEF Begins
  <2>6. OnTheWay(k)' = OnTheWay(k) \ {f}
    BY <1>1, <1>2, <2>1, <2>2, <2>3, <2>4, <2>5 DEF OnTheWay, Begins
  <2>7. \A c \in Conns : c # k => OnTheWay(c)' = OnTheWay(c)
    BY <1>1, <2>1, WaySame DEF InHeader, Begins
  <2>8. Pending' = [Pending EXCEPT ![k] = @ \ {f}]
    BY <2>6, <2>7 DEF Pending
  <2>9. f \in Pending[k]
    BY <1>2, <2>1, <2>2, <2>5 DEF Pending, OnTheWay, Begins
  <2> QED BY <2>2, <2>8, <2>9 DEF Relay!Withdrawn, Pending
<1>3. CASE ~(sending # NoFrame /\ written = 0 /\ thread[sock] # "ended")
  <2>1. \A c \in Conns : OnTheWay(c)' = OnTheWay(c)
    BY <1>1, <1>3, NoFrameAssumption, WaySame DEF InHeader, Begins
  <2> QED BY <2>1 DEF Pending
<1> QED BY <1>2, <1>3

LEMMA NextRelay == RInv /\ [Next]_vars => [Relay!RelayNext]_(Relay!relayVars)
<1> SUFFICES ASSUME RInv, [Next]_vars
             PROVE  Relay!RelayNext \/ UNCHANGED Relay!relayVars
  OBVIOUS
<1>1. CASE SendConnected \/ SendConnecting
  BY <1>1, BeginRelay
<1>2. CASE SendPiece
  BY <1>2, PieceSentRelay
<1>3. CASE SendSkipped
  <2>1. /\ UNCHANGED <<run, last, stream, header, thread, sock, sending, written>>
        /\ sequence' = sequence + 1
    BY <1>3 DEF SendSkipped, StartFrame, threadVars
  <2>2. \A c \in Conns : OnTheWay(c)' = OnTheWay(c)
    BY <2>1, WaySame DEF InHeader, Begins
  <2>3. Pending' = Pending
    BY <2>2 DEF Pending
  <2>4. Relay!Number
    BY <2>1, <2>3 DEF Relay!Number, Pending
  <2> QED BY <2>4 DEF Relay!RelayNext
<1>4. CASE SendFails
  <2>1. /\ sock' = 0 /\ sending' = NoFrame
        /\ UNCHANGED <<run, sequence, last, stream, header, thread>>
    BY <1>4 DEF SendFails, CloseSocket, threadVars
  <2>2. CASE Relay!Withdrawn
    BY <2>1, <2>2 DEF Relay!Withdraw, Relay!RelayNext
  <2>3. CASE Pending' = Pending
    BY <2>1, <2>3 DEF Relay!relayVars, Pending
  <2> QED BY <2>1, <2>2, <2>3, GivenUp
<1>5. CASE TwoSecondsPass \/ UNCHANGED vars
  <2>1. UNCHANGED <<run, sequence, last, stream, header, thread, sock, sending, written>>
    BY <1>5 DEF TwoSecondsPass, vars, threadVars
  <2>2. \A c \in Conns : OnTheWay(c)' = OnTheWay(c)
    BY <2>1, WaySame DEF InHeader, Begins
  <2> QED BY <2>1, <2>2, WayStays
<1>6. CASE NewInstance
  <2>1. /\ UNCHANGED <<last, stream, header, thread, sock, sending, written>>
        /\ run' = run + 1 /\ sequence' = 0
    BY <1>6 DEF NewInstance, threadVars
  <2>2. \A c \in Conns : OnTheWay(c)' = OnTheWay(c)
    BY <2>1, WaySame DEF InHeader, Begins
  <2>3. Pending' = Pending
    BY <2>2 DEF Pending
  <2>4. Relay!NewRun
    BY <2>1, <2>3 DEF Relay!NewRun, Pending
  <2> QED BY <2>4 DEF Relay!RelayNext
<1>7. CASE AppDies
  <2>1. /\ sock' = 0 /\ sending' = NoFrame /\ run' = run + 1 /\ sequence' = 0
        /\ UNCHANGED <<last, stream, header, thread>>
    BY <1>7 DEF AppDies, threadVars
  <2>2. Relay!Withdrawn \/ Pending' = Pending
    BY <2>1, GivenUp
  <2>3. Relay!NewRun
    BY <2>1, <2>2 DEF Relay!NewRun, Pending
  <2> QED BY <2>3 DEF Relay!RelayNext
<1>8. CASE \E c \in Conns : Thread(c) \/ DatagramFails(c)
  BY <1>8, ThreadRelay
<1>9. CASE ProxyStarts \/ ServeEnds \/ ProxyDies
  BY <1>9, ProxyRelay
<1> QED BY <1>1, <1>2, <1>3, <1>4, <1>5, <1>6, <1>7, <1>8, <1>9 DEF Next, Client

LEMMA InitRelay == Init => Relay!RelayInit
<1> SUFFICES ASSUME Init PROVE Relay!RelayInit
  OBVIOUS
<1>1. \A c \in Conns : OnTheWay(c) = {}
  <2> SUFFICES ASSUME NEW c \in Conns PROVE OnTheWay(c) = {}
    OBVIOUS
  <2>1. DOMAIN stream[c] = {} /\ thread[c] = "none" /\ sock # c
    BY Bounds DEF Init
  <2> QED BY <2>1 DEF OnTheWay
<1>2. Pending = [c \in Conns |-> {}]
  BY <1>1 DEF Pending
<1> QED BY <1>2 DEF Init, Relay!RelayInit, Pending

\* Frames leave the container as ImageRelay says, for any number of
\* connections, frames and failures: maybe_send_swapchain_image,
\* send_frame and forwardClient lose a frame only with its connection, and
\* never forward one twice or out of its turn.
THEOREM RelayKept == Spec => ImplementsRelay
<1>1. RInv /\ [Next]_vars => RInv'
  BY NextRInv
<1> QED BY <1>1, InitRInv, InitRelay, NextRelay, PTL
        DEF Spec, ImplementsRelay, Relay!RelaySpec
=============================================================================
