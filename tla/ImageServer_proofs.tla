------------------------- MODULE ImageServer_proofs -------------------------
(***************************************************************************)
(* The image server of the host bridge, for any number of clients, sizes   *)
(* of headers, payloads and sockets and any frame limit: the callback gets *)
(* whole frames, no socket but the served client's is open, and the server *)
(* implements FrameIntake.                                                 *)
(***************************************************************************)
EXTENDS ImageServer, SequenceTheorems, TLAPS

\* Who waits, who is served, and what the server keeps between clients.
Ends == /\ \A c \in Conns : client[c] = "idle" =>
              /\ c # conn /\ c \notin open /\ ~Waits(c)
              /\ written[c] = Start(c) /\ read[c] = Start(c) /\ stream[c] = <<>>
        /\ \A c \in Conns : Waits(c) => c # conn /\ read[c] = Start(c)
        /\ \A i, j \in DOMAIN backlog : backlog[i] = backlog[j] => i = j
        /\ open \subseteq {conn}
        /\ pc = "accept" => conn = NoConn
        /\ pc = "receive" => conn \in Conns
        /\ pc # "receive" => got = <<>>
        /\ MaxFrames # 0 /\ pc # "returned" => received < MaxFrames

\* Between the part the server read last and the one the client wrote last,
\* the parts follow one another.
Chain(c) == /\ read[c].frame.conn = c
            /\ \A i \in 1 .. Len(stream[c]) - 1 : Follows(stream[c][i], stream[c][i + 1])
            /\ stream[c] # <<>> => /\ Follows(read[c], stream[c][1])
                                   /\ stream[c][Len(stream[c])] = written[c]
            /\ stream[c] = <<>> /\ (Waits(c) \/ c \in open) => read[c] = written[c]

Handed(c, no) == \E j \in DOMAIN stored : /\ stored[j][1].frame.conn = c
                                          /\ stored[j][1].frame.no = no

\* What has been read of a frame is its first parts, up to the part read last,
\* and the frame before it has been handed over.
Gathered ==
    pc = "receive" =>
        LET f == read[conn].frame
        IN  IF got = <<>>
            THEN LastPart(read[conn]) /\ (f.no > 0 => Handed(conn, f.no))
            ELSE /\ got = [i \in 1 .. Len(got) |-> Part(f, i)]
                 /\ read[conn].at = Len(got)
                 /\ f.no > 1 => Handed(conn, f.no - 1)

IInv == TypeOK /\ Ends /\ (\A c \in Conns : Chain(c)) /\ Gathered /\ FramesWhole
----------------------------------------------------------------------------
LEMMA PartFields == \A f, i : Part(f, i).frame = f /\ Part(f, i).at = i
<1> QED BY DEF Part

LEMMA StartComplete ==
    \A c \in Conns : /\ LastPart(Start(c)) /\ Start(c).frame.conn = c
                     /\ Start(c).frame.no = 0 /\ Start(c).at = HeaderParts
<1> SUFFICES ASSUME NEW c \in Conns
             PROVE  /\ LastPart(Start(c)) /\ Start(c).frame.conn = c
                    /\ Start(c).frame.no = 0 /\ Start(c).at = HeaderParts
  OBVIOUS
<1>1. /\ Start(c).frame.conn = c /\ Start(c).frame.no = 0
      /\ Start(c).frame.size = 0 /\ Start(c).at = HeaderParts
  BY DEF Start, Part
<1>2. HeaderParts + 0 = HeaderParts
  BY ImageServerAssumption
<1> QED BY <1>1, <1>2 DEF LastPart, Length

LEMMA Lengths == \A p \in Parts \cup Starts : /\ Length(p.frame) \in Nat
                                              /\ Length(p.frame) >= HeaderParts
                                              /\ p.at \in Nat /\ p.frame.no \in Nat
<1>1. ASSUME NEW p \in Parts
      PROVE  /\ Length(p.frame) \in Nat /\ Length(p.frame) >= HeaderParts
             /\ p.at \in Nat /\ p.frame.no \in Nat
  <2>1. p.frame \in Frames /\ p.at \in Nat
    BY DEF Parts
  <2>2. p.frame.size \in Nat /\ p.frame.no \in Nat
    <3>1. p.frame.size \in Sizes /\ p.frame.no \in 1 .. MaxNo
      BY <2>1 DEF Frames
    <3>2. Sizes \subseteq Nat /\ (\A n \in 1 .. MaxNo : n \in Nat)
      BY ImageServerAssumption
    <3> QED BY <3>1, <3>2
  <2> QED BY <2>1, <2>2, ImageServerAssumption DEF Length
<1>2. ASSUME NEW c \in Conns
      PROVE  /\ Length(Start(c).frame) \in Nat /\ Length(Start(c).frame) >= HeaderParts
             /\ Start(c).at \in Nat /\ Start(c).frame.no \in Nat
  BY StartComplete, ImageServerAssumption DEF LastPart
<1> QED BY <1>1, <1>2 DEF Starts

\* What follows a whole frame is the first part of the next, what follows less
\* the next part.
LEMMA FollowsCases ==
    ASSUME NEW p \in Parts \cup Starts, NEW q, Follows(p, q)
    PROVE  /\ q.frame.conn = p.frame.conn
           /\ LastPart(p) => q.at = 1 /\ q.frame.no = p.frame.no + 1
           /\ ~LastPart(p) => q = Part(p.frame, p.at + 1)
<1>1. Length(p.frame) \in Nat /\ p.at \in Nat
  BY Lengths
<1> QED BY <1>1, PartFields DEF Follows, LastPart

LEMMA InitIInv == Init => IInv
<1> SUFFICES ASSUME Init PROVE IInv
  OBVIOUS
<1>1. TypeOK
  <2>1. /\ client \in [Conns -> {"idle", "open", "closed"}]
        /\ written \in [Conns -> Parts \cup Starts] /\ read \in [Conns -> Parts \cup Starts]
    BY DEF Init, Starts
  <2>2. /\ stream \in [Conns -> Seq(Parts)] /\ (\A c \in Conns : Len(stream[c]) <= MaxBuffered)
        /\ backlog \in Seq(Conns) /\ Len(backlog) <= Backlog
    BY ImageServerAssumption DEF Init
  <2>3. got \in Seq(Parts) /\ stored \in Seq(Seq(Parts))
    BY DEF Init
  <2> QED BY <2>1, <2>2, <2>3, ImageServerAssumption DEF Init, TypeOK
<1>2. Ends
  BY NoConnAssumption, ImageServerAssumption DEF Init, Ends, Waits
<1>3. \A c \in Conns : Chain(c)
  <2> SUFFICES ASSUME NEW c \in Conns PROVE Chain(c)
    OBVIOUS
  <2>1. read[c] = Start(c) /\ written[c] = Start(c) /\ stream[c] = <<>>
    BY DEF Init
  <2>2. 1 .. Len(stream[c]) - 1 = {}
    BY <2>1
  <2>3. read[c].frame.conn = c
    BY <2>1, StartComplete
  <2> QED BY <2>1, <2>2, <2>3 DEF Chain
<1>4. Gathered /\ FramesWhole
  BY DEF Init, Gathered, FramesWhole
<1> QED BY <1>1, <1>2, <1>3, <1>4 DEF IInv
----------------------------------------------------------------------------
(***************************************************************************)
(* The clients.                                                            *)
(***************************************************************************)
LEMMA ConnectStep == ASSUME IInv, NEW d \in Conns, Connect(d) PROVE IInv'
<1>0. /\ TypeOK /\ Ends /\ Gathered /\ FramesWhole /\ (\A c \in Conns : Chain(c))
      /\ client \in [Conns -> {"idle", "open", "closed"}]
      /\ backlog \in Seq(Conns) /\ Len(backlog) \in Nat
  BY DEF IInv, TypeOK
<1>1. /\ client[d] = "idle" /\ Len(backlog) < Backlog
      /\ client' = [client EXCEPT ![d] = "open"] /\ backlog' = Append(backlog, d)
      /\ UNCHANGED <<written, stream, pc, conn, open, got, received, stored, read>>
  BY DEF Connect
<1>2. /\ backlog' \in Seq(Conns) /\ Len(backlog') = Len(backlog) + 1
      /\ DOMAIN backlog = 1 .. Len(backlog) /\ DOMAIN backlog' = 1 .. Len(backlog) + 1
      /\ \A i \in DOMAIN backlog : backlog'[i] = backlog[i]
      /\ backlog'[Len(backlog) + 1] = d
  BY <1>0, <1>1
<1>3. \A c \in Conns : Waits(c)' <=> Waits(c) \/ c = d
  <2> SUFFICES ASSUME NEW c \in Conns PROVE Waits(c)' <=> Waits(c) \/ c = d
    OBVIOUS
  <2>1. ASSUME Waits(c)' PROVE Waits(c) \/ c = d
    BY <1>0, <1>2, <2>1 DEF Waits
  <2>2. ASSUME Waits(c) PROVE Waits(c)'
    BY <1>0, <1>2, <2>2 DEF Waits
  <2>3. ASSUME c = d PROVE Waits(c)'
    BY <1>0, <1>2, <2>3 DEF Waits
  <2> QED BY <2>1, <2>2, <2>3
<1>4. TypeOK'
  <2>1. Len(backlog') <= Backlog
    BY <1>0, <1>1, <1>2, ImageServerAssumption
  <2>2. client' \in [Conns -> {"idle", "open", "closed"}]
    BY <1>0, <1>1
  <2> QED BY <1>0, <1>1, <1>2, <2>1, <2>2 DEF TypeOK
<1>5. /\ ~Waits(d) /\ d # conn /\ read[d] = Start(d) /\ written[d] = Start(d)
      /\ stream[d] = <<>> /\ d \notin open
  BY <1>0, <1>1 DEF Ends
<1>6. Ends'
  <2>1. \A i, j \in DOMAIN backlog' : backlog'[i] = backlog'[j] => i = j
    <3>1. \A i \in DOMAIN backlog : backlog[i] # d
      BY <1>5 DEF Waits
    <3>2. \A i \in DOMAIN backlog' : i \in DOMAIN backlog \/ i = Len(backlog) + 1
      BY <1>0, <1>2
    <3> QED BY <1>0, <1>2, <3>1, <3>2 DEF Ends
  <2>2. \A c \in Conns : client'[c] = "idle" => client[c] = "idle" /\ c # d
    BY <1>0, <1>1
  <2> QED BY <1>0, <1>1, <1>3, <1>5, <2>1, <2>2 DEF Ends
<1>7. \A c \in Conns : Chain(c)'
  BY <1>0, <1>1, <1>3, <1>5 DEF Chain
<1>8. Gathered' /\ FramesWhole'
  BY <1>0, <1>1 DEF Gathered, FramesWhole, Handed
<1> QED BY <1>4, <1>6, <1>7, <1>8 DEF IInv

LEMMA WriteStep == ASSUME IInv, NEW d \in Conns, Write(d) PROVE IInv'
<1>0. /\ TypeOK /\ Ends /\ Gathered /\ FramesWhole /\ (\A c \in Conns : Chain(c))
      /\ written \in [Conns -> Parts \cup Starts]
      /\ stream \in [Conns -> Seq(Parts)]
  BY DEF IInv, TypeOK
<1>1. /\ client[d] = "open"
      /\ Waits(d) \/ d \in open
      /\ Len(stream[d]) < MaxBuffered
      /\ UNCHANGED <<client, backlog, pc, conn, open, got, received, stored, read>>
  BY DEF Write
<1>2. PICK f \in Frames \cup {written[d].frame}, i \in {1, written[d].at + 1} :
         /\ Follows(written[d], Part(f, i))
         /\ written' = [written EXCEPT ![d] = Part(f, i)]
         /\ stream' = [stream EXCEPT ![d] = Append(@, Part(f, i))]
  BY DEF Write
<1>3. PICK q : q = Part(f, i)
  OBVIOUS
<1>4. q \in Parts
  <2>1. written[d] \in Parts \cup Starts /\ written[d].at \in Nat
    BY <1>0, Lengths
  <2>2. CASE f \in Frames
    BY <1>3, <2>1, <2>2 DEF Parts, Part
  <2>3. CASE f = written[d].frame /\ written[d] \in Parts
    BY <1>3, <2>1, <2>3 DEF Parts, Part
  <2>4. CASE f = written[d].frame /\ written[d] \in Starts
    <3>1. PICK c \in Conns : written[d] = Start(c)
      BY <2>4 DEF Starts
    <3>2. LastPart(written[d]) /\ written[d].frame.no = 0
      BY <3>1, StartComplete
    <3>3. q.frame.no = 1 /\ q.frame = f
      BY <1>2, <1>3, <2>1, <3>2, FollowsCases, PartFields
    <3> QED BY <2>4, <3>2, <3>3
  <2> QED BY <2>1, <2>2, <2>3, <2>4
<1>5. /\ stream'[d] \in Seq(Parts) /\ Len(stream'[d]) = Len(stream[d]) + 1
      /\ \A k \in 1 .. Len(stream[d]) : stream'[d][k] = stream[d][k]
      /\ stream'[d][Len(stream[d]) + 1] = q
      /\ written'[d] = q /\ Len(stream[d]) \in Nat
  BY <1>0, <1>2, <1>3, <1>4
<1>6. \A c \in Conns : c # d => stream'[c] = stream[c] /\ written'[c] = written[c]
  BY <1>0, <1>2
<1>7. TypeOK'
  <2>1. written' \in [Conns -> Parts \cup Starts] /\ stream' \in [Conns -> Seq(Parts)]
    BY <1>0, <1>2, <1>3, <1>4
  <2>2. \A c \in Conns : Len(stream'[c]) <= MaxBuffered
    <3>1. Len(stream'[d]) <= MaxBuffered
      BY <1>1, <1>5, ImageServerAssumption
    <3>2. \A c \in Conns : Len(stream[c]) <= MaxBuffered
      BY <1>0 DEF TypeOK
    <3> QED BY <1>6, <3>1, <3>2
  <2> QED BY <1>0, <1>1, <2>1, <2>2 DEF TypeOK
<1>8. \A c \in Conns : Waits(c)' <=> Waits(c)
  BY <1>1 DEF Waits
<1>9. Ends'
  BY <1>0, <1>1, <1>6, <1>8 DEF Ends
<1>10. \A c \in Conns : Chain(c)'
  <2> SUFFICES ASSUME NEW c \in Conns PROVE Chain(c)'
    OBVIOUS
  <2>1. CASE c # d
    BY <1>0, <1>1, <1>6, <1>8, <2>1 DEF Chain
  <2>2. CASE c = d
    <3>1. stream'[d] # <<>> /\ stream'[d][Len(stream'[d])] = written'[d]
      BY <1>5
    <3>2. Follows(read[d], stream'[d][1])
      <4>1. CASE stream[d] = <<>>
        <5>1. stream'[d][1] = q
          <6>1. Len(stream[d]) = 0
            BY <4>1
          <6> QED BY <1>5, <6>1
        <5>2. read[d] = written[d]
          BY <1>0, <1>1, <4>1 DEF Chain
        <5> QED BY <1>2, <1>3, <5>1, <5>2
      <4>2. CASE stream[d] # <<>>
        <5>1. 1 \in 1 .. Len(stream[d])
          BY <1>0, <4>2
        <5> QED BY <1>0, <1>5, <4>2, <5>1 DEF Chain
      <4> QED BY <4>1, <4>2
    <3>3. ASSUME NEW k \in 1 .. Len(stream'[d]) - 1
          PROVE  Follows(stream'[d][k], stream'[d][k + 1])
      <4>1. CASE k = Len(stream[d])
        <5>1. stream[d] # <<>> /\ stream[d][k] = written[d]
          BY <1>0, <4>1 DEF Chain
        <5> QED BY <1>2, <1>3, <1>5, <4>1, <5>1
      <4>2. CASE k \in 1 .. Len(stream[d]) - 1
        <5>1. k \in 1 .. Len(stream[d]) /\ k + 1 \in 1 .. Len(stream[d])
          BY <1>5, <4>2
        <5> QED BY <1>0, <1>5, <4>2, <5>1 DEF Chain
      <4> QED BY <1>5, <3>3, <4>1, <4>2
    <3> QED BY <1>0, <1>1, <2>2, <3>1, <3>2, <3>3 DEF Chain
  <2> QED BY <2>1, <2>2
<1>11. Gathered' /\ FramesWhole'
  BY <1>0, <1>1 DEF Gathered, FramesWhole, Handed
<1> QED BY <1>7, <1>9, <1>10, <1>11 DEF IInv

LEMMA CloseStep == ASSUME IInv, NEW d \in Conns, Close(d) PROVE IInv'
<1>0. /\ TypeOK /\ Ends /\ Gathered /\ FramesWhole /\ (\A c \in Conns : Chain(c))
      /\ client \in [Conns -> {"idle", "open", "closed"}]
  BY DEF IInv, TypeOK
<1>1. /\ client[d] = "open" /\ client' = [client EXCEPT ![d] = "closed"]
      /\ UNCHANGED <<written, stream, backlog, pc, conn, open, got, received,
                     stored, read>>
  BY DEF Close
<1>2. TypeOK'
  BY <1>0, <1>1 DEF TypeOK
<1>3. \A c \in Conns : /\ Waits(c)' <=> Waits(c)
                       /\ client'[c] = "idle" => client[c] = "idle"
  BY <1>0, <1>1 DEF Waits
<1>4. Ends'
  BY <1>0, <1>1, <1>3 DEF Ends
<1>5. \A c \in Conns : Chain(c)'
  BY <1>0, <1>1, <1>3 DEF Chain
<1>6. Gathered' /\ FramesWhole'
  BY <1>0, <1>1 DEF Gathered, FramesWhole, Handed
<1> QED BY <1>2, <1>4, <1>5, <1>6 DEF IInv
----------------------------------------------------------------------------
(***************************************************************************)
(* The server.                                                             *)
(***************************************************************************)
LEMMA AcceptStep == ASSUME IInv, Accept PROVE IInv'
<1>0. /\ TypeOK /\ Ends /\ FramesWhole /\ (\A c \in Conns : Chain(c))
      /\ backlog \in Seq(Conns) /\ Len(backlog) \in Nat /\ open \subseteq Conns
  BY DEF IInv, TypeOK
<1>1. /\ pc = "accept" /\ pc' = "receive" /\ backlog # <<>> /\ got' = <<>>
      /\ backlog' = Tail(backlog)
      /\ UNCHANGED <<client, written, stream, received, stored, read>>
  BY DEF Accept, ServerStep, clientVars
<1>2. PICK d \in Conns : d = Head(backlog)
  BY <1>0, <1>1
<1>3. conn' = d /\ open' = open \cup {d}
  BY <1>2 DEF Accept
<1>4. /\ backlog' \in Seq(Conns) /\ Len(backlog') = Len(backlog) - 1
      /\ DOMAIN backlog = 1 .. Len(backlog) /\ DOMAIN backlog' = 1 .. Len(backlog) - 1
      /\ \A i \in DOMAIN backlog' : i + 1 \in DOMAIN backlog /\ backlog'[i] = backlog[i + 1]
      /\ backlog[1] = d /\ 1 \in DOMAIN backlog
  BY <1>0, <1>1, <1>2
<1>5. open = {} /\ conn = NoConn /\ NoConn \notin Conns
  BY <1>0, <1>1, NoConnAssumption DEF Ends
<1>6. \A c \in Conns : Waits(c)' <=> Waits(c) /\ c # d
  <2> SUFFICES ASSUME NEW c \in Conns PROVE Waits(c)' <=> Waits(c) /\ c # d
    OBVIOUS
  <2>1. ASSUME Waits(c)' PROVE Waits(c) /\ c # d
    <3>1. PICK i \in DOMAIN backlog' : backlog'[i] = c
      BY <2>1 DEF Waits
    <3>2. i + 1 \in DOMAIN backlog /\ backlog[i + 1] = c /\ i + 1 # 1
      BY <1>0, <1>4, <3>1
    <3> QED BY <1>0, <1>4, <3>2 DEF Waits, Ends
  <2>2. ASSUME Waits(c), c # d PROVE Waits(c)'
    <3>1. PICK i \in DOMAIN backlog : backlog[i] = c
      BY <2>2 DEF Waits
    <3>2. i # 1 /\ i \in 1 .. Len(backlog)
      BY <1>4, <2>2, <3>1
    <3>3. i - 1 \in DOMAIN backlog' /\ (i - 1) + 1 = i
      BY <1>0, <1>4, <3>2
    <3> QED BY <1>4, <3>1, <3>3 DEF Waits
  <2> QED BY <2>1, <2>2
<1>7. Waits(d) /\ client[d] # "idle" /\ read[d] = Start(d)
  BY <1>0, <1>4 DEF Waits, Ends
<1>8. TypeOK'
  <2>1. Len(backlog') <= Backlog
    BY <1>0, <1>4, ImageServerAssumption DEF TypeOK
  <2> QED BY <1>0, <1>1, <1>3, <1>4, <2>1 DEF TypeOK
<1>9. Ends'
  <2>1. \A i, j \in DOMAIN backlog' : backlog'[i] = backlog'[j] => i = j
    <3> SUFFICES ASSUME NEW i \in DOMAIN backlog', NEW j \in DOMAIN backlog',
                        backlog'[i] = backlog'[j]
                 PROVE  i = j
      OBVIOUS
    <3>1. i + 1 = j + 1
      BY <1>0, <1>4 DEF Ends
    <3> QED BY <1>0, <1>4, <3>1
  <2> QED BY <1>0, <1>1, <1>3, <1>5, <1>6, <1>7, <2>1 DEF Ends
<1>10. \A c \in Conns : Chain(c)'
  BY <1>0, <1>1, <1>3, <1>5, <1>6, <1>7 DEF Chain
<1>11. Gathered'
  <2>1. LastPart(read[d]) /\ read[d].frame.no = 0
    BY <1>7, StartComplete
  <2> QED BY <1>1, <1>3, <2>1 DEF Gathered, LastPart
<1>12. FramesWhole'
  BY <1>0, <1>1 DEF FramesWhole
<1> QED BY <1>8, <1>9, <1>10, <1>11, <1>12 DEF IInv

LEMMA AcceptFailsStep == ASSUME IInv, AcceptFails PROVE IInv'
<1>0. TypeOK /\ Ends /\ FramesWhole /\ (\A c \in Conns : Chain(c))
  BY DEF IInv
<1>1. /\ pc = "accept" /\ pc' = "returned" /\ backlog' = <<>>
      /\ UNCHANGED <<client, written, stream, conn, open, got, received, stored, read>>
  BY DEF AcceptFails, Return, ServerStep, clientVars
<1>2. DOMAIN backlog' = {} /\ (\A c \in Conns : ~Waits(c)')
  BY <1>1 DEF Waits
<1>3. TypeOK'
  BY <1>0, <1>1, ImageServerAssumption DEF TypeOK
<1>4. Ends'
  BY <1>0, <1>1, <1>2 DEF Ends
<1>5. \A c \in Conns : Chain(c)'
  BY <1>0, <1>1, <1>2 DEF Chain
<1>6. Gathered' /\ FramesWhole'
  BY <1>0, <1>1 DEF Gathered, FramesWhole
<1> QED BY <1>3, <1>4, <1>5, <1>6 DEF IInv

\* The frame whose parts the server has is that of the part read last.
LEMMA HeaderOfLast ==
    ASSUME IInv, pc = "receive", got # <<>>
    PROVE  Header = read[conn].frame /\ read[conn].at = Len(got)
<1>1. Gathered /\ got \in Seq(Parts)
  BY DEF IInv, TypeOK
<1>2. /\ got = [i \in 1 .. Len(got) |-> Part(read[conn].frame, i)]
      /\ read[conn].at = Len(got)
  BY <1>1 DEF Gathered
<1>3. 1 \in 1 .. Len(got)
  BY <1>1
<1> QED BY <1>2, <1>3, PartFields DEF Header

\* While recv_all waits inside a frame, the frame is not at its end.
LEMMA MidFrame ==
    ASSUME IInv, Receiving, got # <<>>
    PROVE  ~LastPart(read[conn])
<1>1. /\ pc = "receive" /\ conn \in Conns /\ read \in [Conns -> Parts \cup Starts]
      /\ got \in Seq(Parts)
  BY DEF Receiving, IInv, TypeOK, Ends
<1>2. Header = read[conn].frame /\ read[conn].at = Len(got)
  BY <1>1, HeaderOfLast
<1>3. Length(Header) \in Nat /\ Length(Header) >= HeaderParts /\ Len(got) \in Nat
  BY <1>1, <1>2, Lengths
<1>4. CASE HeaderRead
  BY <1>2, <1>4 DEF Receiving, FrameRead, LastPart
<1>5. CASE ~HeaderRead
  BY <1>2, <1>3, <1>5, ImageServerAssumption DEF HeaderRead, LastPart
<1> QED BY <1>4, <1>5

LEMMA ReceiveStep == ASSUME IInv, Receive PROVE IInv'
<1>0. /\ TypeOK /\ Ends /\ Gathered /\ FramesWhole /\ (\A c \in Conns : Chain(c))
      /\ stream \in [Conns -> Seq(Parts)] /\ got \in Seq(Parts) /\ Len(got) \in Nat
      /\ read \in [Conns -> Parts \cup Starts]
  BY DEF IInv, TypeOK
<1>1. /\ Receiving /\ pc = "receive" /\ stream[conn] # <<>>
      /\ got' = Append(got, Head(stream[conn]))
      /\ read' = [read EXCEPT ![conn] = Head(stream[conn])]
      /\ stream' = [stream EXCEPT ![conn] = Tail(@)]
      /\ UNCHANGED <<client, written, backlog, pc, conn, open, received, stored>>
  BY DEF Receive, Receiving, ServerStep, clientVars
<1>2. PICK d \in Conns : d = conn
  BY <1>0, <1>1 DEF Ends
<1>3. PICK q \in Parts : q = Head(stream[d])
  BY <1>0, <1>1, <1>2
<1>4. PICK p \in Parts \cup Starts : p = read[d]
  BY <1>0
<1>5. Follows(p, q) /\ p.frame.conn = d
  BY <1>0, <1>1, <1>2, <1>3, <1>4 DEF Chain
<1>6. q.frame.conn = d
  BY <1>5, FollowsCases
<1>7. /\ stream'[d] \in Seq(Parts) /\ Len(stream'[d]) = Len(stream[d]) - 1
      /\ Len(stream[d]) \in Nat
      /\ \A i \in 1 .. Len(stream[d]) - 1 : stream'[d][i] = stream[d][i + 1]
      /\ \A c \in Conns : c # d => stream'[c] = stream[c] /\ read'[c] = read[c]
      /\ read'[d] = q
  BY <1>0, <1>1, <1>2, <1>3
<1>8. /\ got' \in Seq(Parts) /\ Len(got') = Len(got) + 1
      /\ \A i \in 1 .. Len(got) : got'[i] = got[i]
      /\ got'[Len(got) + 1] = q
      /\ DOMAIN got' = 1 .. Len(got')
  BY <1>0, <1>1, <1>2, <1>3
<1>9. TypeOK'
  <2>1. \A c \in Conns : Len(stream'[c]) <= MaxBuffered
    <3>1. \A c \in Conns : Len(stream[c]) <= MaxBuffered
      BY <1>0 DEF TypeOK
    <3>2. Len(stream'[d]) <= MaxBuffered
      BY <1>7, <3>1, ImageServerAssumption
    <3> QED BY <1>7, <3>1, <3>2
  <2>2. stream' \in [Conns -> Seq(Parts)] /\ read' \in [Conns -> Parts \cup Starts]
    BY <1>0, <1>1, <1>2, <1>3
  <2> QED BY <1>0, <1>1, <1>8, <2>1, <2>2 DEF TypeOK
<1>10. \A c \in Conns : Waits(c)' <=> Waits(c)
  BY <1>1 DEF Waits
<1>11. Ends'
  BY <1>0, <1>1, <1>2, <1>7, <1>10 DEF Ends
<1>12. \A c \in Conns : Chain(c)'
  <2> SUFFICES ASSUME NEW c \in Conns PROVE Chain(c)'
    OBVIOUS
  <2>1. CASE c # d
    BY <1>0, <1>1, <1>7, <1>10, <2>1 DEF Chain
  <2>2. CASE c = d
    <3>1. ASSUME NEW i \in 1 .. Len(stream'[d]) - 1
          PROVE  Follows(stream'[d][i], stream'[d][i + 1])
      <4>1. i + 1 \in 1 .. Len(stream[d]) - 1 /\ i \in 1 .. Len(stream[d]) - 1
        BY <1>7
      <4> QED BY <1>0, <1>7, <4>1 DEF Chain
    <3>2. ASSUME stream'[d] # <<>>
          PROVE  /\ Follows(q, stream'[d][1])
                 /\ stream'[d][Len(stream'[d])] = written[d]
      <4>1. Len(stream'[d]) \in Nat \ {0}
        BY <1>7, <3>2
      <4>2. 1 \in 1 .. Len(stream[d]) - 1 /\ Len(stream'[d]) \in 1 .. Len(stream[d]) - 1
        <5>1. PICK m \in Nat : m = Len(stream[d])
          BY <1>7
        <5>2. Len(stream'[d]) = m - 1
          BY <1>7, <5>1
        <5>3. m - 1 \in Nat \ {0}
          BY <4>1, <5>2
        <5>4. 1 \in 1 .. m - 1 /\ m - 1 \in 1 .. m - 1
          BY <5>3
        <5> QED BY <5>1, <5>2, <5>4
      <4>3. q = stream[d][1] /\ stream[d] # <<>> /\ Len(stream'[d]) + 1 = Len(stream[d])
        BY <1>0, <1>1, <1>2, <1>3, <1>7
      <4>4. stream'[d][1] = stream[d][1 + 1] /\ Follows(stream[d][1], stream[d][1 + 1])
        BY <1>0, <1>7, <4>2 DEF Chain
      <4> QED BY <1>0, <1>7, <4>2, <4>3, <4>4 DEF Chain
    <3>3. ASSUME stream'[d] = <<>> PROVE q = written[d]
      <4>1. Len(stream[d]) = 1
        BY <1>7, <3>3
      <4>2. q = stream[d][Len(stream[d])] /\ stream[d] # <<>>
        BY <1>0, <1>1, <1>2, <1>3, <4>1
      <4> QED BY <1>0, <4>2 DEF Chain
    <3> QED BY <1>1, <1>6, <1>7, <2>2, <3>1, <3>2, <3>3 DEF Chain
  <2> QED BY <2>1, <2>2
<1>13. Gathered'
  <2>1. got' # <<>>
    BY <1>8
  <2>2. CASE got = <<>>
    <3>1. LastPart(p) /\ (p.frame.no > 0 => Handed(d, p.frame.no))
      BY <1>0, <1>1, <1>2, <1>4, <2>2 DEF Gathered
    <3>2. q.at = 1 /\ q.frame.no = p.frame.no + 1 /\ p.frame.no \in Nat
      BY <1>5, <3>1, FollowsCases, Lengths
    <3>3. Len(got') = 1 /\ got'[1] = q
      <4>1. Len(got) = 0
        BY <2>2
      <4> QED BY <1>8, <4>1
    <3>4. q = Part(q.frame, 1)
      BY <3>2 DEF Parts, Part
    <3>5. got' = [i \in 1 .. Len(got') |-> Part(q.frame, i)]
      <4>1. \A i \in 1 .. Len(got') : got'[i] = Part(q.frame, i)
        BY <3>3, <3>4
      <4> QED BY <1>8, <4>1
    <3>6. q.frame.no > 1 => Handed(d, q.frame.no - 1)
      BY <3>1, <3>2
    <3>7. Handed(d, q.frame.no - 1)' <=> Handed(d, q.frame.no - 1)
      BY <1>1 DEF Handed
    <3> QED BY <1>1, <1>2, <1>7, <2>1, <3>2, <3>3, <3>5, <3>6, <3>7 DEF Gathered
  <2>3. CASE got # <<>>
    <3>1. /\ got = [i \in 1 .. Len(got) |-> Part(p.frame, i)]
          /\ p.at = Len(got)
          /\ p.frame.no > 1 => Handed(d, p.frame.no - 1)
      BY <1>0, <1>1, <1>2, <1>4, <2>3 DEF Gathered
    <3>3. ~LastPart(p)
      BY <1>1, <1>2, <1>4, <2>3, MidFrame
    <3>4. q = Part(p.frame, Len(got) + 1)
      BY <1>5, <3>1, <3>3, FollowsCases
    <3>5. q.frame = p.frame /\ q.at = Len(got')
      BY <1>8, <3>4, PartFields
    <3>6. got' = [i \in 1 .. Len(got') |-> Part(p.frame, i)]
      <4>1. \A i \in 1 .. Len(got') : got'[i] = Part(p.frame, i)
        <5> SUFFICES ASSUME NEW i \in 1 .. Len(got') PROVE got'[i] = Part(p.frame, i)
          OBVIOUS
        <5>1. CASE i \in 1 .. Len(got)
          BY <1>8, <3>1, <5>1
        <5>2. CASE i = Len(got) + 1
          BY <1>8, <3>4, <5>2
        <5> QED BY <1>0, <1>8, <5>1, <5>2
      <4> QED BY <1>8, <4>1
    <3>7. Handed(d, q.frame.no - 1)' <=> Handed(d, q.frame.no - 1)
      BY <1>1 DEF Handed
    <3> QED BY <1>1, <1>2, <1>7, <2>1, <3>1, <3>5, <3>6, <3>7 DEF Gathered
  <2> QED BY <2>2, <2>3
<1>14. FramesWhole'
  BY <1>0, <1>1 DEF FramesWhole
<1> QED BY <1>9, <1>11, <1>12, <1>13, <1>14 DEF IInv

\* The client being served is dropped, gone or at fault.
LEMMA DropStep == ASSUME IInv, pc = "receive", Drop, ServerStep PROVE IInv'
<1>0. /\ TypeOK /\ Ends /\ FramesWhole /\ (\A c \in Conns : Chain(c))
      /\ stream \in [Conns -> Seq(Parts)] /\ open \subseteq {conn}
  BY DEF IInv, TypeOK, Ends
<1>1. /\ open' = {} /\ stream' = [stream EXCEPT ![conn] = <<>>]
      /\ conn' = NoConn /\ got' = <<>> /\ pc' = "accept"
      /\ UNCHANGED <<client, written, backlog, received, stored, read>>
  BY <1>0 DEF Drop, ServerStep, clientVars
<1>2. PICK d \in Conns : d = conn
  BY <1>0 DEF Ends
<1>3. /\ stream' \in [Conns -> Seq(Parts)] /\ stream'[d] = <<>>
      /\ \A c \in Conns : c # d => stream'[c] = stream[c]
  BY <1>0, <1>1, <1>2
<1>4. \A c \in Conns : Waits(c)' <=> Waits(c)
  BY <1>1 DEF Waits
<1>5. TypeOK'
  <2>1. \A c \in Conns : Len(stream'[c]) <= MaxBuffered
    <3>1. Len(stream'[d]) = 0
      BY <1>3
    <3>2. \A c \in Conns : Len(stream[c]) <= MaxBuffered
      BY <1>0 DEF TypeOK
    <3> QED BY <1>3, <3>1, <3>2, ImageServerAssumption
  <2>2. got' \in Seq(Parts)
    BY <1>1
  <2> QED BY <1>0, <1>1, <1>3, <2>1, <2>2 DEF TypeOK
<1>6. Ends'
  BY <1>0, <1>1, <1>2, <1>3, <1>4, NoConnAssumption DEF Ends
<1>7. \A c \in Conns : Chain(c)'
  <2> SUFFICES ASSUME NEW c \in Conns PROVE Chain(c)'
    OBVIOUS
  <2>1. CASE c # d
    BY <1>0, <1>1, <1>3, <1>4, <2>1 DEF Chain
  <2>2. CASE c = d
    <3>1. ~Waits(d)' /\ d \notin open' /\ read[d].frame.conn = d
      BY <1>0, <1>1, <1>2, <1>4 DEF Ends, Chain
    <3>2. 1 .. Len(stream'[d]) - 1 = {}
      BY <1>3
    <3> QED BY <1>1, <1>3, <2>2, <3>1, <3>2 DEF Chain
  <2> QED BY <2>1, <2>2
<1>8. Gathered' /\ FramesWhole'
  BY <1>0, <1>1 DEF Gathered, FramesWhole
<1> QED BY <1>5, <1>6, <1>7, <1>8 DEF IInv

LEMMA HandOverStep == ASSUME IInv, HandOver PROVE IInv'
<1>0. /\ TypeOK /\ Ends /\ Gathered /\ FramesWhole /\ (\A c \in Conns : Chain(c))
      /\ got \in Seq(Parts) /\ Len(got) \in Nat /\ stored \in Seq(Seq(Parts))
      /\ read \in [Conns -> Parts \cup Starts]
      /\ Len(stored) \in Nat /\ DOMAIN stored = 1 .. Len(stored)
  BY DEF IInv, TypeOK
<1>1. /\ pc = "receive" /\ FrameRead /\ Header.kind = "good"
      /\ stored' = Append(stored, got) /\ got' = <<>> /\ received' = received + 1
      /\ pc' \in {"receive", "returned"}
      /\ \/ pc' = "returned" /\ backlog' = <<>>
         \/ pc' = pc /\ backlog' = backlog /\ received + 1 # MaxFrames
      /\ UNCHANGED <<client, written, stream, conn, open, read>>
  BY DEF HandOver, Return, ServerStep, clientVars
<1>2. PICK d \in Conns : d = conn
  BY <1>0, <1>1 DEF Ends
<1>3. Len(got) = Length(Header) /\ Len(got) >= HeaderParts /\ got # <<>>
  BY <1>0, <1>1, ImageServerAssumption DEF FrameRead, HeaderRead
<1>4. PICK f : f = read[d].frame
  OBVIOUS
<1>5. /\ got = [i \in 1 .. Len(got) |-> Part(f, i)]
      /\ read[d].at = Len(got)
      /\ f.no > 1 => Handed(d, f.no - 1)
  BY <1>0, <1>1, <1>2, <1>3, <1>4 DEF Gathered
<1>6. Header = f /\ f.conn = d
  <2>1. 1 \in 1 .. Len(got)
    BY <1>0, <1>3
  <2> QED BY <1>0, <1>4, <1>5, <2>1, PartFields DEF Header, Chain
<1>7. /\ stored' \in Seq(Seq(Parts)) /\ DOMAIN stored' = 1 .. Len(stored) + 1
      /\ \A k \in DOMAIN stored : stored'[k] = stored[k]
      /\ stored'[Len(stored) + 1] = got
  BY <1>0, <1>1
<1>8. \A c \in Conns : Waits(c)' => Waits(c)
  BY <1>1 DEF Waits
<1>9. TypeOK'
  <2>1. received' \in Nat /\ (MaxFrames # 0 => received' <= MaxFrames)
    <3>1. received \in Nat /\ (MaxFrames # 0 => received <= MaxFrames)
      BY <1>0 DEF TypeOK
    <3>2. MaxFrames # 0 => received < MaxFrames
      BY <1>0, <1>1 DEF Ends
    <3> QED BY <1>1, <3>1, <3>2, ImageServerAssumption
  <2>2. backlog' \in Seq(Conns) /\ Len(backlog') <= Backlog /\ got' \in Seq(Parts)
    <3>1. CASE backlog' = <<>>
      BY <1>1, <3>1, ImageServerAssumption
    <3>2. CASE backlog' = backlog
      BY <1>0, <1>1, <3>2 DEF TypeOK
    <3> QED BY <1>1, <3>1, <3>2
  <2> QED BY <1>0, <1>1, <1>7, <2>1, <2>2 DEF TypeOK
<1>10. Ends'
  <2>1. MaxFrames # 0 /\ pc' # "returned" => received' < MaxFrames
    BY <1>0, <1>1, ImageServerAssumption DEF Ends, TypeOK
  <2>2. \A i, j \in DOMAIN backlog' : backlog'[i] = backlog'[j] => i = j
    BY <1>0, <1>1 DEF Ends
  <2> QED BY <1>0, <1>1, <1>8, <2>1, <2>2 DEF Ends
<1>11. \A c \in Conns : Chain(c)'
  BY <1>0, <1>1, <1>8 DEF Chain
<1>12. Handed(d, f.no)' /\ (f.no > 1 => Handed(d, f.no - 1))
  <2>1. stored'[Len(stored) + 1][1].frame = f
    BY <1>6, <1>7 DEF Header
  <2> QED BY <1>0, <1>5, <1>6, <1>7, <2>1 DEF Handed
<1>13. Gathered'
  <2>1. LastPart(read[d])
    BY <1>3, <1>4, <1>5, <1>6 DEF LastPart
  <2> QED BY <1>1, <1>2, <1>4, <1>12, <2>1 DEF Gathered, LastPart
<1>14. FramesWhole'
  <2> SUFFICES ASSUME NEW k \in DOMAIN stored'
               PROVE  LET g == stored'[k][1].frame
                      IN  /\ g.kind = "good"
                          /\ stored'[k] = [i \in 1 .. Length(g) |-> Part(g, i)]
                          /\ g.no > 1 => \E j \in 1 .. k - 1 :
                                            /\ stored'[j][1].frame.conn = g.conn
                                            /\ stored'[j][1].frame.no = g.no - 1
    BY DEF FramesWhole
  <2>1. CASE k \in DOMAIN stored
    <3>1. \A j \in 1 .. k - 1 : stored'[j] = stored[j]
      <4>1. \A j \in 1 .. k - 1 : j \in DOMAIN stored
        BY <1>0, <2>1
      <4> QED BY <1>7, <4>1
    <3>2. stored'[k] = stored[k]
      BY <1>7, <2>1
    <3> QED BY <1>0, <2>1, <3>1, <3>2 DEF FramesWhole
  <2>2. CASE k = Len(stored) + 1
    <3>1. stored'[k] = got /\ got[1].frame = f /\ f.kind = "good"
      BY <1>1, <1>6, <1>7, <2>2 DEF Header
    <3>2. got = [i \in 1 .. Length(f) |-> Part(f, i)]
      BY <1>3, <1>5, <1>6
    <3>3. ASSUME f.no > 1
          PROVE  \E j \in 1 .. k - 1 : /\ stored'[j][1].frame.conn = f.conn
                                       /\ stored'[j][1].frame.no = f.no - 1
      <4>1. PICK j \in DOMAIN stored : /\ stored[j][1].frame.conn = d
                                       /\ stored[j][1].frame.no = f.no - 1
        BY <1>5, <3>3 DEF Handed
      <4>2. j \in 1 .. k - 1
        BY <1>0, <2>2
      <4> QED BY <1>6, <1>7, <4>1, <4>2
    <3> QED BY <3>1, <3>2, <3>3
  <2>3. k \in DOMAIN stored \/ k = Len(stored) + 1
    BY <1>0, <1>7
  <2> QED BY <2>1, <2>2, <2>3
<1> QED BY <1>9, <1>10, <1>11, <1>13, <1>14 DEF IInv

LEMMA NextIInv == IInv /\ [Next]_vars => IInv'
<1> SUFFICES ASSUME IInv, [Next]_vars PROVE IInv'
  OBVIOUS
<1>1. CASE \E c \in Conns : Connect(c) \/ Write(c) \/ Close(c)
  BY <1>1, ConnectStep, WriteStep, CloseStep
<1>2. CASE Accept
  BY <1>2, AcceptStep
<1>3. CASE Receive
  BY <1>3, ReceiveStep
<1>4. CASE Disconnected
  BY <1>4, DropStep DEF Disconnected, Receiving
<1>5. CASE Rejected
  BY <1>5, DropStep DEF Rejected
<1>9. CASE ReceiveFails
  BY <1>9, DropStep DEF ReceiveFails, Receiving
<1>6. CASE HandOver
  BY <1>6, HandOverStep
<1>7. CASE AcceptFails
  BY <1>7, AcceptFailsStep
<1>8. CASE UNCHANGED vars
  <2>1. /\ TypeOK /\ Ends /\ Gathered /\ FramesWhole /\ (\A c \in Conns : Chain(c))
        /\ UNCHANGED <<client, written, stream, backlog, pc, conn, open, got, received,
                       stored, read>>
    BY <1>8 DEF IInv, vars, clientVars
  <2>2. TypeOK' /\ Ends'
    BY <2>1 DEF TypeOK, Ends, Waits
  <2>3. \A c \in Conns : Chain(c)'
    BY <2>1 DEF Chain, Waits
  <2>4. Gathered' /\ FramesWhole'
    BY <2>1 DEF Gathered, Handed, FramesWhole
  <2> QED BY <2>2, <2>3, <2>4 DEF IInv
<1> QED BY <1>1, <1>2, <1>3, <1>4, <1>5, <1>6, <1>7, <1>8, <1>9 DEF Next, Server

\* IInv holds in every reachable state.
THEOREM Invariance == Spec => []IInv
<1> QED BY InitIInv, NextIInv, PTL DEF Spec
----------------------------------------------------------------------------
(***************************************************************************)
(* The theorems.                                                           *)
(***************************************************************************)
\* The variables hold values of their types, and no more frames than the limit
\* are counted.
THEOREM TypeCorrect == Spec => []TypeOK
<1>1. IInv => TypeOK
  BY DEF IInv
<1> QED BY <1>1, Invariance, PTL

\* What the callback is given is one valid frame of one client, whole and in
\* order, and no frame of a client before the one it follows.
THEOREM WholeFrames == Spec => []FramesWhole
<1>1. IInv => FramesWhole
  BY DEF IInv
<1> QED BY <1>1, Invariance, PTL

\* No socket is open but that of the client being served.
THEOREM ServedAlone == Spec => []OnlyServedIsOpen
<1>1. IInv => OnlyServedIsOpen
  BY DEF IInv, Ends, OnlyServedIsOpen
<1> QED BY <1>1, Invariance, PTL
----------------------------------------------------------------------------
(***************************************************************************)
(* The server implements FrameIntake.  The invariant needed for it alone:  *)
(* what was read is not ahead of what was written, a frame that was handed *)
(* over was a good one, and frames are counted as they are handed over.    *)
(***************************************************************************)
Before(p, q) == \/ p.frame.no < q.frame.no
                \/ p.frame = q.frame /\ p.at <= q.at

Ordered(c) == /\ written[c].at <= Length(written[c].frame)
              /\ Before(read[c], written[c])
              /\ \A k \in 1 .. Len(stream[c]) : Before(stream[c][k], written[c])

GoodBehind == pc = "receive" /\ got = <<>> => read[conn].frame.kind = "good"

CInv == (\A c \in Conns : Ordered(c)) /\ GoodBehind /\ Len(stored) = received

LEMMA InitCInv == Init => CInv
<1> SUFFICES ASSUME Init PROVE CInv
  OBVIOUS
<1>1. ASSUME NEW c \in Conns PROVE Ordered(c)
  <2>1. read[c] = Start(c) /\ written[c] = Start(c) /\ stream[c] = <<>>
    BY DEF Init
  <2>2. Start(c).at = Length(Start(c).frame) /\ Start(c).at \in Nat
    BY StartComplete, ImageServerAssumption DEF LastPart
  <2>3. 1 .. Len(stream[c]) = {}
    BY <2>1
  <2> QED BY <2>1, <2>2, <2>3 DEF Ordered, Before
<1>2. GoodBehind /\ Len(stored) = received
  BY DEF Init, GoodBehind
<1> QED BY <1>1, <1>2 DEF CInv

\* The part that follows is within its frame, and whatever came before its
\* predecessor came before it.
LEMMA FollowsOrder ==
    ASSUME NEW p \in Parts \cup Starts, NEW q \in Parts, Follows(p, q),
           p.at <= Length(p.frame)
    PROVE  /\ q.at <= Length(q.frame)
           /\ Before(q, q)
           /\ \A r \in Parts \cup Starts : Before(r, p) => Before(r, q)
<1>1. /\ Length(p.frame) \in Nat /\ p.at \in Nat /\ p.frame.no \in Nat
      /\ Length(q.frame) \in Nat /\ Length(q.frame) >= HeaderParts /\ q.at \in Nat
      /\ q.frame.no \in Nat
  BY Lengths
<1>2. CASE LastPart(p)
  <2>1. q.at = 1 /\ q.frame.no = p.frame.no + 1
    BY <1>2, FollowsCases
  <2>2. q.at <= Length(q.frame)
    BY <1>1, <2>1, ImageServerAssumption
  <2>3. ASSUME NEW r \in Parts \cup Starts, Before(r, p) PROVE Before(r, q)
    <3>1. r.frame.no \in Nat
      BY Lengths
    <3> QED BY <1>1, <2>1, <2>3, <3>1 DEF Before
  <2> QED BY <1>1, <2>2, <2>3 DEF Before
<1>3. CASE ~LastPart(p)
  <2>1. q.frame = p.frame /\ q.at = p.at + 1
    BY <1>3, FollowsCases, PartFields
  <2>2. q.at <= Length(q.frame)
    BY <1>1, <1>3, <2>1 DEF LastPart
  <2>3. ASSUME NEW r \in Parts \cup Starts, Before(r, p) PROVE Before(r, q)
    <3>1. r.at \in Nat
      BY Lengths
    <3> QED BY <1>1, <2>1, <2>3, <3>1 DEF Before
  <2> QED BY <1>1, <2>2, <2>3 DEF Before
<1> QED BY <1>2, <1>3

\* What of a client has been read and written decides what the contract sees.
LEMMA SameOrder ==
    ASSUME NEW c \in Conns, Ordered(c), written'[c] = written[c],
           read'[c] = read[c], stream'[c] \in {stream[c], <<>>}
    PROVE  Ordered(c)'
<1>1. ASSUME NEW k \in 1 .. Len(stream'[c]) PROVE Before(stream'[c][k], written[c])
  <2>1. CASE stream'[c] = stream[c]
    BY <1>1, <2>1 DEF Ordered
  <2>2. CASE stream'[c] = <<>>
    BY <1>1, <2>2
  <2> QED BY <2>1, <2>2
<1> QED BY <1>1 DEF Ordered

\* A part that is written, whether or not it ends a frame.
LEMMA WriteCounts ==
    ASSUME IInv, CInv, NEW d \in Conns, Write(d)
    PROVE  /\ CInv'
           /\ Completed(d)' \in {Completed(d), Completed(d) + 1}
           /\ \A c \in Conns : c # d => Completed(c)' = Completed(c)
<1>0. /\ TypeOK /\ (\A c \in Conns : Chain(c)) /\ (\A c \in Conns : Ordered(c))
      /\ written \in [Conns -> Parts \cup Starts] /\ stream \in [Conns -> Seq(Parts)]
      /\ read \in [Conns -> Parts \cup Starts]
  BY DEF IInv, TypeOK, CInv
<1>1. TypeOK'
  BY WriteStep DEF IInv
<1>2. UNCHANGED <<client, backlog, pc, conn, open, got, received, stored, read>>
  BY DEF Write
<1>3. PICK f \in Frames \cup {written[d].frame}, i \in {1, written[d].at + 1} :
         /\ Follows(written[d], Part(f, i))
         /\ written' = [written EXCEPT ![d] = Part(f, i)]
         /\ stream' = [stream EXCEPT ![d] = Append(@, Part(f, i))]
  BY DEF Write
<1>4. PICK p \in Parts \cup Starts : p = written[d]
  BY <1>0
<1>5. PICK q : q = Part(f, i)
  OBVIOUS
<1>6. written'[d] = q /\ stream'[d] = Append(stream[d], q) /\ Follows(p, q)
  BY <1>0, <1>3, <1>4, <1>5
<1>7. q \in Parts
  <2>1. q \in Parts \cup Starts
    BY <1>1, <1>6 DEF TypeOK
  <2>2. ASSUME NEW c \in Conns, q = Start(c) PROVE FALSE
    <3>1. LastPart(q) /\ q.frame.no = 0 /\ q.at = HeaderParts
      BY <2>2, StartComplete
    <3>2. p.frame.no \in Nat /\ p.at \in Nat /\ Length(p.frame) \in Nat
      BY Lengths
    <3>3. CASE LastPart(p)
      BY <1>6, <3>1, <3>2, <3>3, FollowsCases
    <3>4. CASE ~LastPart(p)
      <4>1. q.frame = p.frame /\ q.at = p.at + 1
        BY <1>6, <3>4, FollowsCases, PartFields
      <4>2. p \notin Parts
        <5>1. p \in Parts => p.frame.no \in 1 .. MaxNo
          BY DEF Parts, Frames
        <5> QED BY <3>1, <4>1, <5>1
      <4>3. PICK e \in Conns : p = Start(e)
        BY <4>2 DEF Starts
      <4> QED BY <3>4, <4>3, StartComplete
    <3> QED BY <3>3, <3>4
  <2> QED BY <2>1, <2>2 DEF Starts
<1>8. \A c \in Conns : c # d => /\ written'[c] = written[c] /\ stream'[c] = stream[c]
                                /\ read'[c] = read[c]
  BY <1>0, <1>2, <1>3
<1>9. p.at <= Length(p.frame)
  BY <1>0, <1>4 DEF Ordered
<1>10. /\ q.at <= Length(q.frame) /\ Before(q, q)
       /\ \A r \in Parts \cup Starts : Before(r, p) => Before(r, q)
  BY <1>6, <1>7, <1>9, FollowsOrder
<1>11. Ordered(d)'
  <2>1. ASSUME NEW k \in 1 .. Len(stream'[d]) PROVE Before(stream'[d][k], q)
    <3>1. /\ Len(stream[d]) \in Nat /\ Len(stream'[d]) = Len(stream[d]) + 1
          /\ stream'[d][Len(stream[d]) + 1] = q
          /\ \A j \in 1 .. Len(stream[d]) : /\ stream'[d][j] = stream[d][j]
                                            /\ stream[d][j] \in Parts
      BY <1>0, <1>6, <1>7
    <3>2. CASE k \in 1 .. Len(stream[d])
      BY <1>0, <1>4, <1>10, <3>1, <3>2 DEF Ordered
    <3>3. CASE k = Len(stream[d]) + 1
      BY <1>10, <3>1, <3>3
    <3> QED BY <2>1, <3>1, <3>2, <3>3
  <2>2. Before(read[d], q)
    BY <1>0, <1>4, <1>10 DEF Ordered
  <2> QED BY <1>2, <1>6, <1>10, <2>1, <2>2 DEF Ordered
<1>12. CInv'
  <2>1. \A c \in Conns : c # d => Ordered(c)'
    BY <1>0, <1>8, SameOrder
  <2>2. GoodBehind' /\ Len(stored') = received'
    BY <1>2 DEF CInv, GoodBehind
  <2> QED BY <1>11, <2>1, <2>2 DEF CInv
<1>13. Completed(d)' \in {Completed(d), Completed(d) + 1}
  <2>1. p.frame.no \in Nat /\ q.frame.no \in Nat
    BY <1>7, Lengths
  <2>2. CASE LastPart(p)
    <3>1. q.frame.no = p.frame.no + 1
      BY <1>6, <2>2, FollowsCases
    <3> QED BY <1>4, <1>6, <2>1, <2>2, <3>1 DEF Completed
  <2>3. CASE ~LastPart(p)
    <3>1. q.frame = p.frame
      BY <1>6, <2>3, FollowsCases, PartFields
    <3> QED BY <1>4, <1>6, <2>1, <2>3, <3>1 DEF Completed
  <2> QED BY <2>2, <2>3
<1>14. \A c \in Conns : c # d => Completed(c)' = Completed(c)
  BY <1>8 DEF Completed
<1> QED BY <1>12, <1>13, <1>14

\* The variables of the contract, as the server has them.
Places      == [c \in Conns |-> Place(c)]
Completions == [c \in Conns |-> Completed(c)]
Takings     == [c \in Conns |-> Taken(c)]
HandedOver  == [k \in DOMAIN stored |-> [conn |-> stored[k][1].frame.conn,
                                         no   |-> stored[k][1].frame.no]]

IntakeSame == UNCHANGED <<Places, Completions, Takings, HandedOver>>

LEMMA SameIntake == IntakeSame => UNCHANGED Intake!intakeVars
<1> QED BY DEF IntakeSame, Intake!intakeVars, Places, Completions, Takings, HandedOver

\* One entry of a function of connections changes, or none.
LEMMA OneMoved ==
    ASSUME NEW d \in Conns, NEW v, NEW w, Place(d) = v, Place(d)' = w,
           \A c \in Conns : c # d => Place(c)' = Place(c)
    PROVE  Intake!Move(d, v, w)
<1>1. Places' = [Places EXCEPT ![d] = w]
  BY DEF Places
<1> QED BY <1>1 DEF Places, Intake!Move

LEMMA SamePlaces ==
    ASSUME \A c \in Conns : Place(c)' = Place(c) PROVE Places' = Places
<1> QED BY DEF Places

LEMMA SameCompletions ==
    ASSUME \A c \in Conns : Completed(c)' = Completed(c)
    PROVE  Completions' = Completions
<1> QED BY DEF Completions

LEMMA SameTakings ==
    ASSUME \A c \in Conns : Taken(c)' = Taken(c) PROVE Takings' = Takings
<1> QED BY DEF Takings

LEMMA SameHanded == stored' = stored => HandedOver' = HandedOver
<1> QED BY DEF HandedOver

LEMMA PlaceCases ==
    ASSUME NEW c \in Conns
    PROVE  /\ c = conn => Place(c) = "served"
           /\ c # conn /\ client[c] = "idle" => Place(c) = "outside"
           /\ c # conn /\ client[c] # "idle" /\ Waits(c) => Place(c) = "waiting"
           /\ c # conn /\ client[c] # "idle" /\ ~Waits(c) => Place(c) = "gone"
<1> QED BY DEF Place

LEMMA ConnectIntake ==
    ASSUME IInv, CInv, NEW d \in Conns, Connect(d) PROVE CInv' /\ Intake!Arrive(d)
<1>0. /\ Ends /\ client \in [Conns -> {"idle", "open", "closed"}]
      /\ backlog \in Seq(Conns) /\ (\A c \in Conns : Ordered(c))
  BY DEF IInv, TypeOK, CInv
<1>1. /\ client[d] = "idle" /\ client' = [client EXCEPT ![d] = "open"]
      /\ backlog' = Append(backlog, d)
      /\ UNCHANGED <<written, stream, pc, conn, open, got, received, stored, read>>
  BY DEF Connect
<1>2. d # conn
  BY <1>0, <1>1 DEF Ends
<1>3. \A c \in Conns : Waits(c)' <=> Waits(c) \/ c = d
  <2>1. /\ DOMAIN backlog = 1 .. Len(backlog) /\ DOMAIN backlog' = 1 .. Len(backlog) + 1
        /\ Len(backlog) \in Nat /\ backlog'[Len(backlog) + 1] = d
        /\ \A i \in DOMAIN backlog : backlog'[i] = backlog[i]
    BY <1>0, <1>1
  <2>2. \A i \in DOMAIN backlog' : i \in DOMAIN backlog \/ i = Len(backlog) + 1
    BY <2>1
  <2>3. DOMAIN backlog \subseteq DOMAIN backlog' /\ Len(backlog) + 1 \in DOMAIN backlog'
    BY <2>1
  <2> QED BY <2>1, <2>2, <2>3 DEF Waits
<1>4. Place(d) = "outside" /\ Place(d)' = "waiting"
  BY <1>0, <1>1, <1>2, <1>3 DEF Place
<1>5. \A c \in Conns : c # d => Place(c)' = Place(c)
  BY <1>0, <1>1, <1>3 DEF Place
<1>6. UNCHANGED <<Completions, Takings, HandedOver>>
  BY <1>1 DEF Completions, Takings, HandedOver, Completed, Taken
<1>7. CInv'
  BY <1>0, <1>1, SameOrder DEF CInv, GoodBehind
<1>8. Intake!Move(d, "outside", "waiting")
  BY <1>4, <1>5, OneMoved
<1> QED BY <1>6, <1>7, <1>8 DEF Intake!Arrive, Completions, Takings, HandedOver

LEMMA WriteIntake ==
    ASSUME IInv, CInv, NEW d \in Conns, Write(d)
    PROVE  CInv' /\ (Intake!Complete(d) \/ IntakeSame)
<1>1. /\ client[d] = "open" /\ (Waits(d) \/ d \in open)
      /\ UNCHANGED <<client, backlog, pc, conn, open, got, received, stored, read>>
  BY DEF Write
<1>2. /\ CInv' /\ Completed(d)' \in {Completed(d), Completed(d) + 1}
      /\ \A c \in Conns : c # d => Completed(c)' = Completed(c)
  BY WriteCounts
<1>3. UNCHANGED <<Places, Takings, HandedOver>>
  BY <1>1 DEF Places, Takings, HandedOver, Place, Taken, Waits
<1>4. Place(d) \in {"waiting", "served"}
  <2>1. open \subseteq {conn}
    BY DEF IInv, Ends
  <2> QED BY <1>1, <2>1, PlaceCases
<1>5. CASE Completed(d)' = Completed(d)
  BY <1>2, <1>3, <1>5, SameCompletions DEF IntakeSame
<1>6. CASE Completed(d)' = Completed(d) + 1
  <2>1. Completions' = [Completions EXCEPT ![d] = @ + 1]
    BY <1>2, <1>6 DEF Completions
  <2>2. Places[d] \in {"waiting", "served"}
    BY <1>4 DEF Places
  <2>3. Intake!Complete(d)
    BY <1>3, <2>1, <2>2 DEF Intake!Complete, Places, Completions, Takings, HandedOver
  <2> QED BY <1>2, <2>3
<1> QED BY <1>2, <1>5, <1>6

LEMMA CloseIntake ==
    ASSUME IInv, CInv, NEW d \in Conns, Close(d) PROVE CInv' /\ IntakeSame
<1>0. client \in [Conns -> {"idle", "open", "closed"}] /\ (\A c \in Conns : Ordered(c))
  BY DEF IInv, TypeOK, CInv
<1>1. /\ client[d] = "open" /\ client' = [client EXCEPT ![d] = "closed"]
      /\ UNCHANGED <<written, stream, backlog, pc, conn, open, got, received,
                     stored, read>>
  BY DEF Close
<1>2. \A c \in Conns : client'[c] = "idle" <=> client[c] = "idle"
  BY <1>0, <1>1
<1>3. \A c \in Conns : Place(c)' = Place(c)
  BY <1>1, <1>2 DEF Place, Waits
<1>4. UNCHANGED <<Completions, Takings, HandedOver>>
  BY <1>1 DEF Completions, Takings, HandedOver, Completed, Taken
<1>5. CInv'
  BY <1>0, <1>1, SameOrder DEF CInv, GoodBehind
<1> QED BY <1>3, <1>4, <1>5, SamePlaces DEF IntakeSame

LEMMA AcceptIntake ==
    ASSUME IInv, CInv, Accept PROVE CInv' /\ \E d \in Conns : Intake!Serve(d)
<1>0. /\ Ends /\ backlog \in Seq(Conns) /\ (\A c \in Conns : Ordered(c))
  BY DEF IInv, TypeOK, CInv
<1>1. /\ pc = "accept" /\ pc' = "receive" /\ backlog # <<>> /\ got' = <<>>
      /\ conn' = Head(backlog) /\ backlog' = Tail(backlog)
      /\ UNCHANGED <<client, written, stream, received, stored, read>>
  BY DEF Accept, ServerStep, clientVars
<1>2. PICK d \in Conns : d = Head(backlog)
  BY <1>0, <1>1
<1>3. /\ DOMAIN backlog = 1 .. Len(backlog) /\ Len(backlog) \in Nat \ {0}
      /\ DOMAIN backlog' = 1 .. Len(backlog) - 1 /\ backlog[1] = d
      /\ \A i \in DOMAIN backlog' : i + 1 \in DOMAIN backlog /\ backlog'[i] = backlog[i + 1]
  BY <1>0, <1>1, <1>2
<1>4. Waits(d) /\ conn = NoConn /\ d # conn /\ client[d] # "idle" /\ read[d] = Start(d)
  <2>1. 1 \in DOMAIN backlog
    BY <1>3
  <2>2. Waits(d)
    BY <1>3, <2>1 DEF Waits
  <2> QED BY <1>0, <1>1, <2>2, NoConnAssumption DEF Ends
<1>5. \A c \in Conns : c # d => (Waits(c)' <=> Waits(c))
  <2> SUFFICES ASSUME NEW c \in Conns, c # d PROVE Waits(c)' <=> Waits(c)
    OBVIOUS
  <2>1. Waits(c)' => Waits(c)
    BY <1>3 DEF Waits
  <2>2. ASSUME Waits(c) PROVE Waits(c)'
    <3>1. PICK i \in DOMAIN backlog : backlog[i] = c
      BY <2>2 DEF Waits
    <3>2. i \in 1 .. Len(backlog) /\ i # 1
      BY <1>3, <3>1
    <3>3. i - 1 \in DOMAIN backlog' /\ (i - 1) + 1 = i
      BY <1>3, <3>2
    <3> QED BY <1>3, <3>1, <3>3 DEF Waits
  <2> QED BY <2>1, <2>2
<1>6. \A c \in Conns : c # conn
  BY <1>4, NoConnAssumption
<1>7. \A c \in Conns : c # d => Place(c)' = Place(c)
  BY <1>1, <1>2, <1>5, <1>6 DEF Place
<1>8. Place(d) = "waiting" /\ Place(d)' = "served"
  BY <1>1, <1>2, <1>4 DEF Place
<1>9. \A c \in Conns : Places[c] # "served"
  <2>1. \A c \in Conns : Place(c) # "served"
    BY <1>6 DEF Place
  <2> QED BY <2>1 DEF Places
<1>10. \A c \in Conns : Taken(c)' = Taken(c)
  <2>1. got = <<>> /\ got' = <<>>
    BY <1>0, <1>1 DEF Ends
  <2> QED BY <1>1, <2>1 DEF Taken
<1>11. Completions' = Completions /\ HandedOver' = HandedOver /\ Takings' = Takings
  BY <1>1, <1>10 DEF Completions, HandedOver, Takings, Completed
<1>12. CInv'
  <2>1. Start(d).frame.kind = "good"
    BY PartFields DEF Start
  <2>2. GoodBehind'
    BY <1>1, <1>2, <1>4, <2>1 DEF GoodBehind
  <2> QED BY <1>0, <1>1, <2>2, SameOrder DEF CInv
<1>13. Intake!Move(d, "waiting", "served")
  BY <1>7, <1>8, OneMoved
<1>14. Intake!Serve(d)
  BY <1>9, <1>11, <1>13
     DEF Intake!Serve, Places, Completions, Takings, HandedOver
<1> QED BY <1>12, <1>14

LEMMA ReceiveIntake == ASSUME IInv, CInv, Receive PROVE CInv' /\ IntakeSame
<1>0. /\ TypeOK /\ Ends /\ Gathered /\ (\A c \in Conns : Chain(c))
      /\ (\A c \in Conns : Ordered(c)) /\ GoodBehind
      /\ stream \in [Conns -> Seq(Parts)] /\ read \in [Conns -> Parts \cup Starts]
  BY DEF IInv, TypeOK, CInv
<1>1. /\ Receiving /\ pc = "receive" /\ stream[conn] # <<>>
      /\ got' = Append(got, Head(stream[conn]))
      /\ read' = [read EXCEPT ![conn] = Head(stream[conn])]
      /\ stream' = [stream EXCEPT ![conn] = Tail(@)]
      /\ UNCHANGED <<client, written, backlog, pc, conn, open, received, stored>>
  BY DEF Receive, Receiving, ServerStep, clientVars
<1>2. PICK d \in Conns : d = conn
  BY <1>0, <1>1 DEF Ends
<1>3. PICK p \in Parts \cup Starts : p = read[d]
  BY <1>0
<1>4. PICK q \in Parts : q = Head(stream[d])
  BY <1>0, <1>1, <1>2
<1>5. /\ read'[d] = q /\ stream'[d] = Tail(stream[d]) /\ q = stream[d][1]
      /\ \A c \in Conns : c # d => read'[c] = read[c] /\ stream'[c] = stream[c]
      /\ Follows(p, q) /\ got' # <<>> /\ p.frame.no \in Nat
  BY <1>0, <1>1, <1>2, <1>3, <1>4, Lengths DEF Chain, TypeOK
<1>6. Taken(d)' = q.frame.no - 1
  BY <1>1, <1>2, <1>5 DEF Taken
<1>7. Taken(d) = q.frame.no - 1
  <2>1. CASE got = <<>>
    <3>1. LastPart(p) /\ p.frame.kind = "good"
      BY <1>0, <1>1, <1>2, <1>3, <2>1 DEF Gathered, GoodBehind
    <3>2. q.frame.no = p.frame.no + 1
      BY <1>5, <3>1, FollowsCases
    <3> QED BY <1>2, <1>3, <1>5, <2>1, <3>1, <3>2 DEF Taken
  <2>2. CASE got # <<>>
    <3>1. ~LastPart(p)
      BY <1>1, <1>2, <1>3, <2>2, MidFrame
    <3>2. q.frame = p.frame
      BY <1>5, <3>1, FollowsCases, PartFields
    <3> QED BY <1>3, <3>1, <3>2 DEF Taken
  <2> QED BY <2>1, <2>2
<1>8. \A c \in Conns : Taken(c)' = Taken(c)
  BY <1>1, <1>2, <1>5, <1>6, <1>7 DEF Taken
<1>9. UNCHANGED <<Places, Completions, HandedOver>>
  BY <1>1 DEF Places, Completions, HandedOver, Place, Completed, Waits
<1>10. Ordered(d)'
  <2>1. /\ Len(stream[d]) \in Nat \ {0} /\ Len(Tail(stream[d])) = Len(stream[d]) - 1
        /\ \A k \in 1 .. Len(stream[d]) - 1 : Tail(stream[d])[k] = stream[d][k + 1]
    BY <1>0, <1>1, <1>2
  <2>2. ASSUME NEW k \in 1 .. Len(stream'[d])
        PROVE  Before(stream'[d][k], written[d])
    <3>1. k + 1 \in 1 .. Len(stream[d]) /\ stream'[d][k] = stream[d][k + 1]
      BY <1>5, <2>1
    <3> QED BY <1>0, <3>1 DEF Ordered
  <2>3. Before(q, written[d])
    <3>1. 1 \in 1 .. Len(stream[d])
      BY <2>1
    <3> QED BY <1>0, <1>5, <3>1 DEF Ordered
  <2> QED BY <1>0, <1>1, <1>5, <2>2, <2>3 DEF Ordered
<1>11. CInv'
  <2>1. \A c \in Conns : c # d => Ordered(c)'
    BY <1>0, <1>1, <1>5, SameOrder
  <2> QED BY <1>1, <1>5, <1>10, <2>1 DEF CInv, GoodBehind
<1> QED BY <1>8, <1>9, <1>11, SameTakings DEF IntakeSame

\* The client being served is dropped.
LEMMA DropIntake ==
    ASSUME IInv, CInv, ReceiveFails \/ Disconnected \/ Rejected
    PROVE  CInv' /\ \E d \in Conns : Intake!Dismiss(d)
<1>0. /\ TypeOK /\ Ends /\ Gathered /\ (\A c \in Conns : Ordered(c)) /\ GoodBehind
      /\ stream \in [Conns -> Seq(Parts)] /\ read \in [Conns -> Parts \cup Starts]
  BY DEF IInv, TypeOK, CInv
<1>1. /\ pc = "receive" /\ stream' = [stream EXCEPT ![conn] = <<>>]
      /\ conn' = NoConn /\ got' = <<>> /\ pc' = "accept"
      /\ UNCHANGED <<client, written, backlog, received, stored, read>>
  BY DEF ReceiveFails, Disconnected, Rejected, Receiving, Drop, ServerStep, clientVars
<1>2. PICK d \in Conns : d = conn
  BY <1>0, <1>1 DEF Ends
<1>3. /\ stream'[d] = <<>> /\ \A c \in Conns : c # d => stream'[c] = stream[c]
  BY <1>0, <1>1, <1>2
<1>4. d # conn' /\ (\A c \in Conns : c # conn') /\ (\A c \in Conns : Waits(c)' <=> Waits(c))
  BY <1>1, NoConnAssumption DEF Waits
<1>5. client[d] # "idle" /\ ~Waits(d)
  BY <1>0, <1>2 DEF Ends
<1>6. Place(d) = "served" /\ Place(d)' = "gone"
  BY <1>1, <1>2, <1>4, <1>5 DEF Place
<1>7. \A c \in Conns : c # d => Place(c)' = Place(c)
  BY <1>1, <1>2, <1>4 DEF Place
<1>8. Taken(d)' = Taken(d)
  <2>1. CASE got = <<>>
    BY <1>1, <1>4, <2>1 DEF Taken
  <2>2. CASE got # <<>> /\ (ReceiveFails \/ Disconnected)
    <3>1. ~LastPart(read[d])
      BY <1>2, <2>2, MidFrame DEF ReceiveFails, Disconnected
    <3> QED BY <1>1, <3>1 DEF Taken
  <2>3. CASE got # <<>> /\ Rejected
    <3>1. read[d].frame.kind # "good"
      BY <1>1, <1>2, <2>3, HeaderOfLast DEF Rejected
    <3> QED BY <1>1, <3>1 DEF Taken
  <2> QED BY <2>1, <2>2, <2>3
<1>9. \A c \in Conns : Taken(c)' = Taken(c)
  BY <1>1, <1>2, <1>4, <1>8 DEF Taken
<1>10. Takings' = Takings /\ Completions' = Completions /\ HandedOver' = HandedOver
  BY <1>1, <1>9 DEF Takings, Completions, HandedOver, Completed
<1>11. CInv'
  <2>1. \A c \in Conns : Ordered(c)'
    BY <1>0, <1>1, <1>3, SameOrder
  <2> QED BY <1>1, <2>1 DEF CInv, GoodBehind
<1>12. Intake!Move(d, "served", "gone")
  BY <1>6, <1>7, OneMoved
<1>13. Intake!Dismiss(d)
  BY <1>10, <1>12 DEF Intake!Dismiss, Places, Completions, Takings, HandedOver
<1> QED BY <1>11, <1>13

\* The clients who wait are refused.
LEMMA TurnedAway ==
    ASSUME Ends, backlog' = <<>>, UNCHANGED <<client, conn>>
    PROVE  Places' = [c \in Conns |-> IF Places[c] = "waiting" THEN "gone" ELSE Places[c]]
<1>1. \A c \in Conns : ~Waits(c)'
  BY DEF Waits
<1>2. \A c \in Conns : Place(c)' = IF Place(c) = "waiting" THEN "gone" ELSE Place(c)
  BY <1>1 DEF Place, Ends
<1> QED BY <1>2 DEF Places

LEMMA AcceptFailsIntake ==
    ASSUME IInv, CInv, AcceptFails PROVE CInv' /\ Intake!Stop
<1>0. Ends /\ (\A c \in Conns : Ordered(c))
  BY DEF IInv, CInv
<1>1. /\ pc = "accept" /\ pc' = "returned" /\ backlog' = <<>>
      /\ UNCHANGED <<client, written, stream, conn, open, got, received, stored, read>>
  BY DEF AcceptFails, Return, ServerStep, clientVars
<1>2. \A c \in Conns : Places[c] # "served"
  <2>1. \A c \in Conns : c # conn
    BY <1>0, <1>1, NoConnAssumption DEF Ends
  <2> QED BY <2>1 DEF Places, Place
<1>3. Places' = [c \in Conns |-> IF Places[c] = "waiting" THEN "gone" ELSE Places[c]]
  BY <1>0, <1>1, TurnedAway
<1>4. UNCHANGED <<Completions, Takings, HandedOver>>
  BY <1>1 DEF Completions, Takings, HandedOver, Completed, Taken
<1>5. CInv'
  BY <1>0, <1>1, SameOrder DEF CInv, GoodBehind
<1>6. Intake!Stop
  BY <1>2, <1>3, <1>4
     DEF Intake!Stop, Intake!TurnAwayAll, Places, Completions, Takings, HandedOver
<1> QED BY <1>5, <1>6

\* A function on 1 .. n is a sequence.
LEMMA FunctionSeq ==
    ASSUME NEW S, NEW n \in Nat, NEW F \in [1 .. n -> S]
    PROVE  F \in Seq(S) /\ Len(F) = n
<1>1. F = [i \in 1 .. n |-> F[i]] /\ DOMAIN F = 1 .. n
  OBVIOUS
<1>2. [i \in 1 .. n |-> F[i]] \in Seq(S)
  OBVIOUS
<1>3. Len(F) = n
  BY <1>1, <1>2, LenProperties
<1> QED BY <1>1, <1>2, <1>3

LEMMA FunctionAppend ==
    ASSUME NEW S, NEW n \in Nat, NEW F \in [1 .. n -> S], NEW e \in S,
           NEW G \in [1 .. n + 1 -> S],
           G[n + 1] = e, \A k \in 1 .. n : G[k] = F[k]
    PROVE  G = Append(F, e)
<1>1. F \in Seq(S) /\ Len(F) = n
  BY FunctionSeq
<1>2. n + 1 \in Nat
  OBVIOUS
<1>3. G \in Seq(S) /\ Len(G) = n + 1
  BY ONLY <1>2, FunctionSeq, G \in [1 .. n + 1 -> S]
<1>4. /\ Append(F, e) \in Seq(S) /\ Len(Append(F, e)) = n + 1
      /\ Append(F, e)[n + 1] = e /\ \A k \in 1 .. n : Append(F, e)[k] = F[k]
  BY <1>1, AppendProperties
<1>5. ASSUME NEW k \in 1 .. n + 1 PROVE G[k] = Append(F, e)[k]
  <2>1. k \in 1 .. n \/ k = n + 1
    OBVIOUS
  <2> QED BY <1>4, <2>1
<1> QED BY <1>3, <1>4, <1>5, SeqEqual

\* A frame that is added to those stored is added to those handed over.
LEMMA OneHandedOver ==
    ASSUME stored \in Seq(Seq(Parts)), NEW g \in Seq(Parts), stored' = Append(stored, g)
    PROVE  /\ Len(HandedOver) = Len(stored)
           /\ HandedOver' = Append(HandedOver, [conn |-> g[1].frame.conn,
                                                no   |-> g[1].frame.no])
<1> DEFINE Of(h) == [conn |-> h[1].frame.conn, no |-> h[1].frame.no]
           S     == {Of(stored[k]) : k \in DOMAIN stored} \cup {Of(g)}
           n     == Len(stored)
<1>1. /\ n \in Nat /\ DOMAIN stored = 1 .. n
      /\ DOMAIN stored' = 1 .. n + 1 /\ stored'[n + 1] = g
      /\ \A k \in 1 .. n : stored'[k] = stored[k]
  OBVIOUS
<1>2. HandedOver = [k \in 1 .. n |-> Of(stored[k])]
  BY <1>1 DEF HandedOver
<1>3. HandedOver' = [k \in 1 .. n + 1 |-> Of(stored'[k])]
  BY <1>1 DEF HandedOver
<1>4. HandedOver \in [1 .. n -> S] /\ Of(g) \in S
  BY <1>1, <1>2
<1>5. HandedOver' \in [1 .. n + 1 -> S]
  <2>1. \A k \in 1 .. n + 1 : k \in 1 .. n \/ k = n + 1
    BY <1>1
  <2>2. \A k \in 1 .. n + 1 : Of(stored'[k]) \in S
    BY <1>1, <2>1
  <2> QED BY <1>3, <2>2
<1>6. HandedOver'[n + 1] = Of(g) /\ \A k \in 1 .. n : HandedOver'[k] = HandedOver[k]
  BY <1>1, <1>2, <1>3
<1> HIDE DEF S, Of, n
<1>7. HandedOver' = Append(HandedOver, Of(g))
  BY <1>1, <1>4, <1>5, <1>6, FunctionAppend
<1>8. Len(HandedOver) = n
  BY <1>1, <1>4, FunctionSeq
<1> QED BY <1>7, <1>8 DEF Of, n

\* A frame is handed over when it has been read to its end, and so written.
LEMMA HandOverIntake ==
    ASSUME IInv, CInv, HandOver PROVE CInv' /\ \E d \in Conns : Intake!HandOver(d)
<1>0. /\ TypeOK /\ Ends /\ Gathered /\ (\A c \in Conns : Ordered(c)) /\ (\A c \in Conns : Chain(c))
      /\ Len(stored) = received /\ received \in Nat
      /\ got \in Seq(Parts) /\ stored \in Seq(Seq(Parts))
      /\ read \in [Conns -> Parts \cup Starts] /\ written \in [Conns -> Parts \cup Starts]
  BY DEF IInv, TypeOK, CInv
<1>1. /\ pc = "receive" /\ FrameRead /\ Header.kind = "good"
      /\ stored' = Append(stored, got) /\ got' = <<>> /\ received' = received + 1
      /\ IF received + 1 = MaxFrames THEN pc' = "returned" /\ backlog' = <<>>
                                     ELSE pc' = pc /\ backlog' = backlog
      /\ UNCHANGED <<client, written, stream, conn, open, read>>
  BY DEF HandOver, Return, ServerStep, clientVars
<1>2. PICK d \in Conns : d = conn
  BY <1>0, <1>1 DEF Ends
<1>3. Len(got) = Length(Header) /\ got # <<>>
  BY <1>0, <1>1, ImageServerAssumption DEF FrameRead, HeaderRead
<1>4. Header = read[d].frame /\ read[d].at = Len(got)
  BY <1>1, <1>2, <1>3, HeaderOfLast
<1>5. LastPart(read[d]) /\ read[d].frame.kind = "good"
  BY <1>1, <1>3, <1>4 DEF LastPart
<1>6. /\ read[d].frame.no \in Nat /\ written[d].frame.no \in Nat
      /\ written[d].at \in Nat /\ Length(written[d].frame) \in Nat
  BY <1>0, Lengths
<1>7. Taken(d) = read[d].frame.no - 1 /\ Taken(d)' = read[d].frame.no
  BY <1>1, <1>2, <1>3, <1>5 DEF Taken, LastPart
<1>8. Taken(d) < Completed(d)
  <2>1. CASE read[d].frame.no < written[d].frame.no
    BY <1>6, <1>7, <2>1 DEF Completed
  <2>2. CASE read[d].frame = written[d].frame /\ read[d].at <= written[d].at
    <3>1. LastPart(written[d])
      BY <1>0, <1>5, <1>6, <2>2 DEF Ordered, LastPart
    <3> QED BY <1>6, <1>7, <2>2, <3>1 DEF Completed
  <2> QED BY <1>0, <2>1, <2>2 DEF Ordered, Before
<1>9. Takings' = [Takings EXCEPT ![d] = Takings[d] + 1]
  <2>1. \A c \in Conns : c # d => Taken(c)' = Taken(c)
    BY <1>1, <1>2 DEF Taken
  <2>2. Takings[d] + 1 = Taken(d)'
    BY <1>6, <1>7 DEF Takings
  <2>3. Takings' = [c \in Conns |-> IF c = d THEN Takings[d] + 1 ELSE Taken(c)]
    BY <2>1, <2>2 DEF Takings
  <2>4. \A c \in Conns : Taken(c) = Takings[c]
    BY DEF Takings
  <2> HIDE DEF Takings
  <2>5. Takings' = [c \in Conns |-> IF c = d THEN Takings[d] + 1 ELSE Takings[c]]
    BY <2>3, <2>4
  <2>6. DOMAIN Takings = Conns /\ Takings = [c \in Conns |-> Takings[c]]
    BY DEF Takings
  <2> QED BY <2>5, <2>6
<1>10. /\ Len(HandedOver) = received
       /\ HandedOver' = Append(HandedOver, [conn |-> d, no |-> Takings[d] + 1])
  <2>1. /\ Len(HandedOver) = received
        /\ HandedOver' = Append(HandedOver, [conn |-> Header.conn, no |-> Header.no])
    BY <1>0, <1>1, OneHandedOver DEF Header
  <2>2. Header.conn = d /\ Header.no = Takings[d] + 1
    BY <1>0, <1>4, <1>6, <1>7 DEF Chain, Takings
  <2> QED BY <2>1, <2>2
<1>11. MaxFrames # 0 => received < MaxFrames
  BY <1>0, <1>1 DEF Ends
<1>12. Places[d] = "served"
  BY <1>2 DEF Places, Place
<1>13. IF received + 1 = MaxFrames
       THEN Places' = [c \in Conns |-> IF Places[c] = "waiting" THEN "gone" ELSE Places[c]]
       ELSE Places' = Places
  <2>1. CASE received + 1 = MaxFrames
    BY <1>0, <1>1, <2>1, TurnedAway
  <2>2. CASE received + 1 # MaxFrames
    BY <1>1, <2>2, SamePlaces DEF Place, Waits
  <2> QED BY <2>1, <2>2
<1>14. Completions' = Completions
  BY <1>1 DEF Completions, Completed
<1>15. CInv'
  <2>1. \A c \in Conns : Ordered(c)'
    BY <1>0, <1>1, SameOrder
  <2>2. GoodBehind'
    BY <1>1, <1>2, <1>5 DEF GoodBehind
  <2>3. Len(stored') = received'
    BY <1>0, <1>1
  <2> QED BY <2>1, <2>2, <2>3 DEF CInv
<1>16. Takings[d] < Completions[d]
  BY <1>8 DEF Takings, Completions
<1>17. Intake!HandOver(d)
  BY <1>9, <1>10, <1>11, <1>12, <1>13, <1>14, <1>16
     DEF Intake!HandOver, Intake!TurnAwayAll, Places, Completions, Takings, HandedOver
<1> QED BY <1>15, <1>17

LEMMA IntakeInitial == Init => Intake!IntakeInit
<1> SUFFICES ASSUME Init PROVE Intake!IntakeInit
  OBVIOUS
<1>1. \A c \in Conns : c # conn /\ client[c] = "idle"
  BY NoConnAssumption DEF Init
<1>2. \A c \in Conns : Completed(c) = 0 /\ Taken(c) = 0
  <2> TAKE c \in Conns
  <2>1. /\ written[c] = Start(c) /\ read[c] = Start(c) /\ c # conn
        /\ Start(c).frame.kind = "good"
    BY <1>1 DEF Init, Start, Part
  <2> QED BY <2>1, StartComplete DEF Completed, Taken
<1>3. Places = [c \in Conns |-> "outside"]
  BY <1>1, PlaceCases DEF Places
<1>4. HandedOver = <<>>
  BY DEF Init, HandedOver
<1> QED BY <1>2, <1>3, <1>4
        DEF Intake!IntakeInit, Places, Completions, Takings, HandedOver

LEMMA NextIntake ==
    IInv /\ CInv /\ [Next]_vars => CInv' /\ [Intake!IntakeNext]_(Intake!intakeVars)
<1> SUFFICES ASSUME IInv, CInv, [Next]_vars
             PROVE  CInv' /\ (Intake!IntakeNext \/ UNCHANGED Intake!intakeVars)
  OBVIOUS
<1>1. ASSUME NEW c \in Conns, Connect(c) PROVE CInv' /\ Intake!IntakeNext
  BY <1>1, ConnectIntake DEF Intake!IntakeNext
<1>2. ASSUME NEW c \in Conns, Write(c)
      PROVE  CInv' /\ (Intake!IntakeNext \/ UNCHANGED Intake!intakeVars)
  BY <1>2, WriteIntake, SameIntake DEF Intake!IntakeNext
<1>3. ASSUME NEW c \in Conns, Close(c) PROVE CInv' /\ UNCHANGED Intake!intakeVars
  BY <1>3, CloseIntake, SameIntake
<1>4. CASE Accept
  BY <1>4, AcceptIntake DEF Intake!IntakeNext
<1>5. CASE Receive
  BY <1>5, ReceiveIntake, SameIntake
<1>6. CASE ReceiveFails \/ Disconnected \/ Rejected
  BY <1>6, DropIntake DEF Intake!IntakeNext
<1>7. CASE HandOver
  BY <1>7, HandOverIntake DEF Intake!IntakeNext
<1>8. CASE AcceptFails
  BY <1>8, AcceptFailsIntake DEF Intake!IntakeNext
<1>9. CASE UNCHANGED vars
  <2>1. UNCHANGED <<client, written, stream, backlog, pc, conn, open, got, received,
                    stored, read>>
    BY <1>9 DEF vars, clientVars
  <2>2. CInv'
    BY <2>1 DEF CInv, Ordered, GoodBehind
  <2>3. IntakeSame
    BY <2>1 DEF IntakeSame, Places, Completions, Takings, HandedOver, Place, Completed,
                Taken, Waits
  <2> QED BY <2>2, <2>3, SameIntake
<1> QED BY <1>1, <1>2, <1>3, <1>4, <1>5, <1>6, <1>7, <1>8, <1>9 DEF Next, Server

\* The server keeps the contract of an intake, whatever the clients do: each
\* step is one of the contract's, or changes nothing of what it speaks of.
THEOREM IntakeKept == Spec => ImplementsIntake
<1> QED BY InitIInv, InitCInv, NextIInv, NextIntake, IntakeInitial, PTL
        DEF Spec, ImplementsIntake, Intake!IntakeSpec
=============================================================================
