-------------------------- MODULE PosePath_proofs --------------------------
(***************************************************************************)
(* Proofs about PosePath, for any number of applications and any bounds.   *)
(* The invariant has two layers.  Link is about the server and the         *)
(* connections only; it is preserved by each operation on a connection,    *)
(* whoever makes it.  Readers relates the connections to the poses their   *)
(* clients hold; it builds on Link.                                        *)
(***************************************************************************)
EXTENDS PosePath, SequenceTheorems, TLAPS

LinkType == /\ produced \in Nat
            /\ client \in Clients \cup {NoClient, Gone}
            /\ backlog \in Seq(Clients \cup {Gone})
            /\ Len(backlog) <= Backlog
            /\ sock \in [Clients -> {"none", "open", "ended"}]
            /\ stream \in [Clients -> Seq(Nat)]

\* A client has at most one connection with the server.
QueuedOnce ==
    /\ \A i, j \in DOMAIN backlog :
           backlog[i] = backlog[j] /\ backlog[i] \in Clients => i = j
    /\ \A i \in DOMAIN backlog : backlog[i] \in Clients => backlog[i] # client

\* Nothing is on a closed connection or on one not yet accepted.
QuietStreams ==
    \A c \in Clients : stream[c] # <<>> =>
        sock[c] # "none" /\ \A i \in DOMAIN backlog : backlog[i] # c

\* Frames on a connection follow one another and were produced.
Contiguous ==
    \A c \in Clients : \A i \in 1 .. Len(stream[c]) :
        /\ stream[c][i] <= produced
        /\ i > 1 => stream[c][i] = stream[c][i - 1] + 1

Ascending ==
    \A c \in Clients : \A i, j \in 1 .. Len(stream[c]) :
        i < j => stream[c][i] < stream[c][j]

\* The connection that is served ends with the frame produced last.
Tip == client \in Clients /\ stream[client] # <<>> =>
           stream[client][Len(stream[client])] = produced

Link == /\ LinkType
        /\ OpenIsServedOrQueued
        /\ QueuedOnce
        /\ QuietStreams
        /\ Contiguous
        /\ Ascending
        /\ Tip
        /\ FrameOnOneStream
----------------------------------------------------------------------------
(***************************************************************************)
(* The operations on connections preserve Link.                            *)
(***************************************************************************)
\* Renaming the entries of a sequence keeps its length.
LEMMA MapSeq ==
    ASSUME NEW S, NEW T, NEW s \in Seq(S), NEW f \in [DOMAIN s -> T]
    PROVE  f \in Seq(T) /\ Len(f) = Len(s) /\ DOMAIN f = DOMAIN s
<1>1. DOMAIN s = 1 .. Len(s) /\ Len(s) \in Nat
  BY LenProperties
<1>2. f \in [1 .. Len(s) -> T] /\ DOMAIN f = 1 .. Len(s)
  BY <1>1
<1>3. f \in Seq(T)
  BY <1>1, <1>2, SeqDef
<1> QED
  BY <1>1, <1>2, <1>3, LenProperties

LEMMA LinkKept ==
    ASSUME Link, UNCHANGED <<serverVars, linkVars>>
    PROVE  Link'
BY DEF Link, LinkType, OpenIsServedOrQueued, QueuedOnce, QuietStreams,
       Contiguous, Ascending, Tip, FrameOnOneStream, serverVars, linkVars

\* A client without a socket connects.
LEMMA LinkConnect ==
    ASSUME Link, NEW c \in Clients, sock[c] = "none", Connect(c)
    PROVE  Link' /\ produced' = produced
<1> USE PoseAssumption
<1>1. /\ backlog' \in Seq(Clients \cup {Gone})
      /\ Len(backlog') = Len(backlog) + 1
      /\ DOMAIN backlog' = 1 .. Len(backlog) + 1
      /\ DOMAIN backlog = 1 .. Len(backlog)
      /\ \A i \in 1 .. Len(backlog) : backlog'[i] = backlog[i]
      /\ backlog'[Len(backlog) + 1] = c
  BY DEF Link, LinkType, Connect
<1>2. LinkType'
  BY <1>1 DEF Link, LinkType, Connect
<1>3. c # client /\ \A i \in DOMAIN backlog : backlog[i] # c
  BY DEF Link, OpenIsServedOrQueued
<1>4. OpenIsServedOrQueued'
  <2> SUFFICES ASSUME NEW d \in Clients
               PROVE  sock'[d] = "open" <=>
                          d = client \/ \E i \in DOMAIN backlog' : backlog'[i] = d
    BY DEF OpenIsServedOrQueued, Connect
  <2>1. CASE d = c
    <3>1. Len(backlog) + 1 \in DOMAIN backlog'
      BY <1>1, LenProperties DEF Link, LinkType
    <3>2. sock'[c] = "open"
      BY DEF Link, LinkType, Connect
    <3> QED
      BY <1>1, <2>1, <3>1, <3>2
  <2>2. CASE d # c
    <3>1. sock'[d] = sock[d]
      BY <2>2 DEF Link, LinkType, Connect
    <3>2. (\E i \in DOMAIN backlog' : backlog'[i] = d)
              <=> \E i \in DOMAIN backlog : backlog[i] = d
      <4>1. Len(backlog) \in Nat
        BY LenProperties DEF Link, LinkType
      <4>2. \A i : i \in 1 .. Len(backlog) + 1 <=>
                       i \in 1 .. Len(backlog) \/ i = Len(backlog) + 1
        BY <4>1
      <4> QED
        BY <1>1, <2>2, <4>2
    <3> QED
      BY <3>1, <3>2 DEF Link, OpenIsServedOrQueued
  <2> QED
    BY <2>1, <2>2
<1>5. QueuedOnce'
  BY <1>1, <1>3 DEF Link, LinkType, Connect, QueuedOnce
<1>6. QuietStreams'
  BY <1>1, <1>3, SMTT(30) DEF Link, LinkType, Connect, QuietStreams
<1>7. /\ \A d \in Clients \ {c} : stream'[d] = stream[d]
      /\ stream'[c] = <<>> /\ Len(stream'[c]) = 0 /\ DOMAIN stream'[c] = {}
      /\ client' = client /\ produced' = produced
  BY DEF Link, LinkType, Connect
<1>8. Contiguous' /\ Ascending'
  BY <1>7 DEF Link, Contiguous, Ascending
<1>9. Tip'
  BY <1>3, <1>7 DEF Link, Tip
<1>10. FrameOnOneStream'
  BY <1>7 DEF Link, FrameOnOneStream
<1> QED
  BY <1>2, <1>4, <1>5, <1>6, <1>7, <1>8, <1>9, <1>10 DEF Link

\* A client closes its socket.
LEMMA LinkClose ==
    ASSUME Link, NEW c \in Clients, Close(c)
    PROVE  Link' /\ produced' = produced
<1> USE PoseAssumption
<1>1. /\ backlog' \in Seq(Clients \cup {Gone})
      /\ Len(backlog') = Len(backlog)
      /\ DOMAIN backlog' = DOMAIN backlog
  <2>1. backlog' \in [DOMAIN backlog -> Clients \cup {Gone}]
    BY DEF Link, LinkType, Close
  <2> QED
    BY <2>1, MapSeq DEF Link, LinkType
<1>2. \A i \in DOMAIN backlog :
          backlog'[i] = IF backlog[i] = c THEN Gone ELSE backlog[i]
  BY DEF Close
<1>3. LinkType'
  BY <1>1 DEF Link, LinkType, Close
<1>4. OpenIsServedOrQueued'
  BY <1>1, <1>2 DEF Link, LinkType, Close, OpenIsServedOrQueued
<1>5. QueuedOnce'
  BY <1>1, <1>2 DEF Link, LinkType, Close, QueuedOnce
<1>6. QuietStreams'
  BY <1>1, <1>2 DEF Link, LinkType, Close, QuietStreams
<1>7. Contiguous' /\ Ascending' /\ Tip' /\ FrameOnOneStream'
  BY DEF Link, LinkType, Close, Contiguous, Ascending, Tip, FrameOnOneStream
<1> QED
  BY <1>3, <1>4, <1>5, <1>6, <1>7 DEF Link, Close

\* A client reads a frame.
LEMMA LinkTake ==
    ASSUME Link, NEW c \in Clients, TakeFrame(c)
    PROVE  Link' /\ produced' = produced
<1>1. /\ stream'[c] \in Seq(Nat)
      /\ stream[c] \in Seq(Nat)
      /\ Len(stream[c]) \in Nat \ {0}
      /\ Len(stream'[c]) = Len(stream[c]) - 1
      /\ \A i \in 1 .. Len(stream'[c]) : stream'[c][i] = stream[c][i + 1]
      /\ \A d \in Clients \ {c} : stream'[d] = stream[d]
  BY DEF Link, LinkType, TakeFrame
<1>2. UNCHANGED <<produced, client, backlog, sock>>
  BY DEF TakeFrame, serverVars
<1>3. LinkType'
  BY <1>2 DEF Link, LinkType, TakeFrame
<1>4. OpenIsServedOrQueued' /\ QueuedOnce'
  BY <1>2 DEF Link, OpenIsServedOrQueued, QueuedOnce
<1>5. QuietStreams'
  BY <1>1, <1>2 DEF Link, QuietStreams, TakeFrame
<1>6. Contiguous'
  <2> SUFFICES ASSUME NEW d \in Clients, NEW i \in 1 .. Len(stream'[d])
               PROVE  /\ stream'[d][i] <= produced
                      /\ i > 1 => stream'[d][i] = stream'[d][i - 1] + 1
    BY <1>2 DEF Contiguous
  <2>1. CASE d # c
    BY <1>1, <2>1 DEF Link, Contiguous
  <2>2. CASE d = c
    <3>1. i \in Nat /\ i + 1 \in 1 .. Len(stream[c]) /\ i + 1 > 1 /\ (i + 1) - 1 = i
      BY <1>1, <2>2
    <3>2. /\ stream[c][i + 1] <= produced
          /\ stream[c][i + 1] = stream[c][(i + 1) - 1] + 1
      BY <3>1 DEF Link, Contiguous
    <3>3. stream'[c][i] = stream[c][i + 1]
      BY <1>1, <2>2
    <3>4. i > 1 => /\ i - 1 \in 1 .. Len(stream'[c])
                   /\ (i - 1) + 1 = i
      BY <1>1, <2>2
    <3>5. i > 1 => stream'[c][i - 1] = stream[c][(i - 1) + 1]
      BY <1>1, <3>4
    <3> QED
      BY <2>2, <3>1, <3>2, <3>3, <3>4, <3>5
  <2> QED
    BY <2>1, <2>2
<1>7. Tip'
  <2>1. CASE client = c /\ stream'[c] # <<>>
    <3>1. /\ Len(stream'[c]) \in 1 .. Len(stream'[c])
          /\ Len(stream'[c]) + 1 = Len(stream[c])
      <4>1. Len(stream'[c]) # 0
        BY <1>1, <2>1, EmptySeq
      <4> DEFINE m == Len(stream'[c])
                 n == Len(stream[c])
      <4>2. m \in Nat /\ m # 0
        BY <1>1, <4>1, LenProperties
      <4>3. n \in Nat /\ m = n - 1
        BY <1>1, Zenon
      <4> HIDE DEF m, n
      <4>4. m \in 1 .. m /\ m + 1 = n
        BY <4>2, <4>3
      <4> QED
        BY <4>4 DEF m, n
    <3>2. stream'[c][Len(stream'[c])] = stream[c][Len(stream[c])]
      BY <1>1, <3>1
    <3> QED
      BY <1>1, <1>2, <2>1, <3>2, SMTT(30) DEF Link, Tip
  <2>2. CASE ~(client = c /\ stream'[c] # <<>>)
    BY <1>1, <1>2, <2>2 DEF Link, Tip
  <2> QED
    BY <2>1, <2>2
<1>8. FrameOnOneStream'
  <2>1. \A d \in Clients : \A i \in DOMAIN stream'[d] :
            \E k \in DOMAIN stream[d] : stream'[d][i] = stream[d][k]
    <3> SUFFICES ASSUME NEW d \in Clients, NEW i \in DOMAIN stream'[d]
                 PROVE  \E k \in DOMAIN stream[d] : stream'[d][i] = stream[d][k]
      OBVIOUS
    <3>1. CASE d # c
      BY <1>1, <3>1
    <3>2. CASE d = c
      <4>1. /\ DOMAIN stream'[c] = 1 .. Len(stream'[c])
            /\ DOMAIN stream[c] = 1 .. Len(stream[c])
            /\ Len(stream'[c]) \in Nat
        BY <1>1, LenProperties
      <4>2. i \in 1 .. Len(stream'[c])
        BY <3>2, <4>1
      <4>3. i + 1 \in 1 .. Len(stream[c])
        <5> DEFINE m == Len(stream'[c])
                   n == Len(stream[c])
        <5>1. m \in Nat
          BY <4>1, Zenon
        <5>2. n \in Nat /\ m = n - 1
          BY <1>1, Zenon
        <5>3. i \in 1 .. m
          BY <4>2, Zenon
        <5> HIDE DEF m, n
        <5>4. i + 1 \in 1 .. n
          BY <5>1, <5>2, <5>3
        <5> QED
          BY <5>4 DEF n
      <4>4. stream'[c][i] = stream[c][i + 1]
        BY <1>1, <4>2
      <4> QED
        BY <3>2, <4>1, <4>3, <4>4
    <3> QED
      BY <3>1, <3>2
  <2> QED
    BY <2>1 DEF Link, FrameOnOneStream
<1>9. Ascending'
  <2> SUFFICES ASSUME NEW d \in Clients, NEW i \in 1 .. Len(stream'[d]),
                      NEW j \in 1 .. Len(stream'[d]), i < j
               PROVE  stream'[d][i] < stream'[d][j]
    BY DEF Ascending
  <2>1. CASE d # c
    BY <1>1, <2>1 DEF Link, Ascending
  <2>2. CASE d = c
    <3>1. /\ i + 1 \in 1 .. Len(stream[c]) /\ j + 1 \in 1 .. Len(stream[c])
          /\ i + 1 < j + 1
      BY <1>1, <2>2
    <3>2. stream'[c][i] = stream[c][i + 1] /\ stream'[c][j] = stream[c][j + 1]
      BY <1>1, <2>2
    <3> QED
      BY <2>2, <3>1, <3>2 DEF Link, Ascending
  <2> QED
    BY <2>1, <2>2
<1> QED
  BY <1>2, <1>3, <1>4, <1>5, <1>6, <1>7, <1>8, <1>9 DEF Link

\* serve_with_producer returns, or its process is killed.
LEMMA LinkKill ==
    ASSUME Link, KillServer
    PROVE  Link' /\ produced' = produced
<1>1. /\ StopListening /\ UNCHANGED <<produced, stream>>
      /\ backlog' = <<>> /\ client' = NoClient
  BY DEF KillServer, StopListening
<1>2. LinkType'
  BY <1>1, PoseAssumption DEF Link, LinkType, StopListening
<1>3. OpenIsServedOrQueued'
  BY <1>1, PoseAssumption DEF Link, LinkType, StopListening, OpenIsServedOrQueued
<1>4. QuietStreams'
  BY <1>1 DEF Link, LinkType, StopListening, QuietStreams
<1>5. QueuedOnce' /\ Contiguous' /\ Ascending' /\ Tip' /\ FrameOnOneStream'
  BY <1>1, PoseAssumption
     DEF Link, QueuedOnce, Contiguous, Ascending, Tip, FrameOnOneStream
<1> QED
  BY <1>1, <1>2, <1>3, <1>4, <1>5 DEF Link

\* A client in the backlog is the next one served.
LEMMA LinkAccept ==
    ASSUME Link, Accept
    PROVE  Link' /\ produced' = produced
<1>1. /\ backlog \in Seq(Clients \cup {Gone})
      /\ backlog' \in Seq(Clients \cup {Gone})
      /\ Len(backlog) \in Nat /\ Len(backlog) # 0
      /\ DOMAIN backlog = 1 .. Len(backlog)
      /\ DOMAIN backlog' = 1 .. Len(backlog) - 1
      /\ Len(backlog') = Len(backlog) - 1
      /\ client' = backlog[1]
      /\ \A i \in DOMAIN backlog' : backlog'[i] = backlog[i + 1]
  BY DEF Link, LinkType, Accept
<1>2. UNCHANGED <<produced, sock, stream>> /\ client = NoClient
  BY DEF Accept, linkVars
<1>3. /\ 1 \in DOMAIN backlog
      /\ \A i \in DOMAIN backlog' : i + 1 \in DOMAIN backlog /\ i + 1 # 1
      /\ \A i \in DOMAIN backlog : i = 1 \/ (i - 1 \in DOMAIN backlog' /\ (i - 1) + 1 = i)
  BY <1>1
<1>4. LinkType'
  <2>1. client' \in Clients \cup {Gone}
    BY <1>1, <1>3
  <2>2. Len(backlog') <= Backlog
    BY <1>1, PoseAssumption DEF Link, LinkType
  <2> QED
    BY <1>1, <1>2, <2>1, <2>2 DEF Link, LinkType
<1>5. OpenIsServedOrQueued'
  <2> SUFFICES ASSUME NEW d \in Clients
               PROVE  (d = client \/ \E i \in DOMAIN backlog : backlog[i] = d)
                        <=> (d = client' \/ \E i \in DOMAIN backlog' : backlog'[i] = d)
    BY <1>2 DEF Link, OpenIsServedOrQueued
  <2>1. d # client
    BY <1>2, PoseAssumption
  <2>2. ASSUME NEW i \in DOMAIN backlog, backlog[i] = d
        PROVE  d = client' \/ \E j \in DOMAIN backlog' : backlog'[j] = d
    <3>1. CASE i = 1
      BY <1>1, <2>2, <3>1
    <3>2. CASE i # 1
      <4>1. i - 1 \in DOMAIN backlog' /\ (i - 1) + 1 = i
        BY <1>3, <3>2
      <4> QED
        BY <1>1, <2>2, <4>1
    <3> QED
      BY <3>1, <3>2
  <2>3. ASSUME NEW j \in DOMAIN backlog', backlog'[j] = d
        PROVE  \E i \in DOMAIN backlog : backlog[i] = d
    BY <1>1, <1>3, <2>3
  <2>4. d = client' => \E i \in DOMAIN backlog : backlog[i] = d
    BY <1>1, <1>3
  <2> QED
    BY <2>1, <2>2, <2>3, <2>4
<1>6. QueuedOnce'
  <2>1. ASSUME NEW i \in DOMAIN backlog', NEW j \in DOMAIN backlog',
               backlog'[i] = backlog'[j], backlog'[i] \in Clients
        PROVE  i = j
    <3>1. i + 1 = j + 1
      BY <1>1, <1>3, <2>1 DEF Link, QueuedOnce
    <3> QED
      BY <1>1, <3>1
  <2>2. ASSUME NEW i \in DOMAIN backlog', backlog'[i] \in Clients
        PROVE  backlog'[i] # client'
    <3>1. i + 1 \in DOMAIN backlog /\ i + 1 # 1 /\ 1 \in DOMAIN backlog
      BY <1>3
    <3>2. backlog'[i] = backlog[i + 1] /\ client' = backlog[1]
      BY <1>1
    <3> QED
      BY <2>2, <3>1, <3>2 DEF Link, QueuedOnce
  <2> QED
    BY <2>1, <2>2 DEF QueuedOnce
<1>7. QuietStreams'
  BY <1>1, <1>2, <1>3 DEF Link, QuietStreams
<1>8. client' \in Clients => stream[client'] = <<>>
  BY <1>1, <1>3 DEF Link, QuietStreams
<1>9. Contiguous' /\ Ascending' /\ Tip' /\ FrameOnOneStream'
  BY <1>2, <1>8 DEF Link, Contiguous, Ascending, Tip, FrameOnOneStream
<1> QED
  BY <1>2, <1>4, <1>5, <1>6, <1>7, <1>9 DEF Link

\* A frame is counted, with what is put on the connection that is served.
LEMMA LinkCounted ==
    ASSUME Link, Counted, client # NoClient,
           stream' \in [Clients -> Seq(Nat)],
           \A d \in Clients \ {client} : stream'[d] = stream[d],
           client \in Clients =>
               stream'[client][Len(stream'[client])] = produced + 1,
           Contiguous', Ascending', FrameOnOneStream'
    PROVE  Link'
<1>1. produced' = produced + 1 /\ produced' \in Nat
  BY DEF Link, LinkType, Counted
<1>2. \A c \in Clients : stream'[c] # <<>> =>
          sock[c] # "none" /\ \A i \in DOMAIN backlog : backlog[i] # c
  BY DEF Link, OpenIsServedOrQueued, QueuedOnce, QuietStreams
<1>3. CASE StopListening
  <2>1. backlog' = <<>> /\ client' = NoClient
    BY <1>3 DEF StopListening
  <2>2. LinkType'
    BY <1>1, <1>3, PoseAssumption DEF Link, LinkType, StopListening
  <2>3. OpenIsServedOrQueued'
    BY <1>3, <2>1, PoseAssumption DEF Link, LinkType, StopListening, OpenIsServedOrQueued
  <2>4. QuietStreams'
    BY <1>2, <1>3, <2>1 DEF Link, LinkType, StopListening, QuietStreams
  <2>5. QueuedOnce' /\ Tip'
    BY <2>1, PoseAssumption DEF QueuedOnce, Tip
  <2> QED
    BY <2>2, <2>3, <2>4, <2>5 DEF Link
<1>4. CASE UNCHANGED <<listening, client, backlog, sock>>
  <2>1. LinkType' /\ OpenIsServedOrQueued' /\ QueuedOnce'
    BY <1>1, <1>4 DEF Link, LinkType, OpenIsServedOrQueued, QueuedOnce
  <2>2. QuietStreams'
    BY <1>2, <1>4 DEF QuietStreams
  <2>3. Tip'
    BY <1>1, <1>4 DEF Tip
  <2> QED
    BY <2>1, <2>2, <2>3 DEF Link
<1> QED
  BY <1>3, <1>4 DEF Counted

LEMMA LinkSend ==
    ASSUME Link, SendFrame
    PROVE  Link' /\ produced' = produced + 1
<1>1. /\ client \in Clients /\ client # NoClient
      /\ stream[client] \in Seq(Nat) /\ Len(stream[client]) \in Nat
      /\ produced \in Nat /\ produced' = produced + 1
      /\ DOMAIN stream[client] = 1 .. Len(stream[client])
  BY PoseAssumption DEF Link, LinkType, SendFrame, Counted
<1>2. /\ stream' \in [Clients -> Seq(Nat)]
      /\ \A d \in Clients \ {client} : stream'[d] = stream[d]
      /\ stream'[client] = Append(stream[client], produced + 1)
  BY <1>1 DEF Link, LinkType, SendFrame
<1>3. /\ Len(stream'[client]) = Len(stream[client]) + 1
      /\ DOMAIN stream'[client] = 1 .. Len(stream[client]) + 1
      /\ stream'[client][Len(stream[client]) + 1] = produced + 1
      /\ \A i \in 1 .. Len(stream[client]) : stream'[client][i] = stream[client][i]
  BY <1>1, <1>2
<1>4. Contiguous'
  <2> SUFFICES ASSUME NEW d \in Clients, NEW i \in 1 .. Len(stream'[d])
               PROVE  /\ stream'[d][i] <= produced + 1
                      /\ i > 1 => stream'[d][i] = stream'[d][i - 1] + 1
    BY <1>1 DEF Contiguous
  <2>1. CASE d # client
    <3>1. stream'[d] = stream[d] /\ i \in 1 .. Len(stream[d])
      BY <1>2, <2>1
    <3>2. stream[d][i] \in Nat
      BY <3>1, ElementOfSeq DEF Link, LinkType
    <3> QED
      BY <1>1, <3>1, <3>2 DEF Link, Contiguous
  <2>2. CASE d = client /\ i \in 1 .. Len(stream[client])
    <3>1. stream[client][i] \in Nat
      BY <1>1, <2>2, ElementOfSeq
    <3>2. stream[client][i] <= produced
      BY <1>1, <2>2 DEF Link, Contiguous
    <3>a. i > 1 => i - 1 \in 1 .. Len(stream[client])
      BY <1>1, <2>2
    <3>b. i > 1 => stream'[client][i - 1] = stream[client][i - 1]
      BY <1>3, <3>a
    <3>c. i > 1 => stream[client][i] = stream[client][i - 1] + 1
      BY <1>1, <2>2 DEF Link, Contiguous
    <3>3. i > 1 => /\ stream[client][i] = stream[client][i - 1] + 1
                   /\ stream'[client][i - 1] = stream[client][i - 1]
      BY <3>b, <3>c
    <3>4. stream'[client][i] = stream[client][i]
      BY <1>3, <2>2
    <3>5. stream[client][i] <= produced + 1
      BY <1>1, <3>1, <3>2
    <3> QED
      BY <2>2, <3>3, <3>4, <3>5
  <2>3. CASE d = client /\ i = Len(stream[client]) + 1
    <3>1. i > 1 => /\ i - 1 = Len(stream[client])
                   /\ stream[client] # <<>>
                   /\ i - 1 \in 1 .. Len(stream[client])
      BY <1>1, <2>3
    <3>2. i > 1 => stream'[client][i - 1] = produced
      BY <1>1, <1>3, <3>1 DEF Link, Tip
    <3> QED
      BY <1>1, <1>3, <2>3, <3>2
  <2> QED
    BY <1>1, <1>3, <2>1, <2>2, <2>3
<1>5. Ascending'
  <2> SUFFICES ASSUME NEW d \in Clients, NEW i \in 1 .. Len(stream'[d]),
                      NEW j \in 1 .. Len(stream'[d]), i < j
               PROVE  stream'[d][i] < stream'[d][j]
    BY DEF Ascending
  <2>1. CASE d # client
    BY <1>2, <2>1 DEF Link, Ascending
  <2>2. CASE d = client /\ j \in 1 .. Len(stream[client])
    <3>1. i \in 1 .. Len(stream[client])
      BY <1>1, <1>3, <2>2
    <3>2. stream'[client][i] = stream[client][i] /\ stream'[client][j] = stream[client][j]
      BY <1>3, <2>2, <3>1
    <3> QED
      BY <2>2, <3>1, <3>2 DEF Link, Ascending
  <2>3. CASE d = client /\ j = Len(stream[client]) + 1
    <3>1. i \in 1 .. Len(stream[client])
      BY <1>1, <1>3, <2>3
    <3>2. stream[client][i] \in Nat /\ stream[client][i] <= produced
      BY <1>1, <3>1, ElementOfSeq DEF Link, Contiguous
    <3> QED
      BY <1>1, <1>3, <2>3, <3>1, <3>2
  <2> QED
    BY <1>1, <1>3, <2>1, <2>2, <2>3
<1>6. FrameOnOneStream'
  <2>1. ASSUME NEW d \in Clients \ {client}, NEW i \in DOMAIN stream'[client],
               NEW j \in DOMAIN stream[d]
        PROVE  stream'[client][i] # stream[d][j]
    <3>1. CASE i \in 1 .. Len(stream[client])
      <4>1. stream'[client][i] = stream[client][i] /\ i \in DOMAIN stream[client]
        BY <1>1, <1>3, <3>1
      <4> QED
        BY <1>1, <4>1 DEF Link, FrameOnOneStream
    <3>2. CASE i = Len(stream[client]) + 1
      <4>1. j \in 1 .. Len(stream[d]) /\ stream[d][j] \in Nat
        BY ElementOfSeq, LenProperties DEF Link, LinkType
      <4>2. stream[d][j] <= produced
        BY <4>1 DEF Link, Contiguous
      <4> QED
        BY <1>1, <1>3, <3>2, <4>1, <4>2
    <3> QED
      BY <1>1, <1>3, <3>1, <3>2
  <2> SUFFICES ASSUME NEW c \in Clients, NEW d \in Clients, c # d,
                      NEW i \in DOMAIN stream'[c], NEW j \in DOMAIN stream'[d]
               PROVE  stream'[c][i] # stream'[d][j]
    BY DEF FrameOnOneStream
  <2>2. CASE c = client
    <3>1. d \in Clients \ {client} /\ stream'[d] = stream[d]
      BY <1>2, <2>2
    <3> QED
      BY <2>1, <2>2, <3>1, Zenon
  <2>3. CASE d = client
    <3>1. c \in Clients \ {client} /\ stream'[c] = stream[c]
      BY <1>2, <2>3
    <3> QED
      BY <2>1, <2>3, <3>1, Zenon
  <2>4. CASE c # client /\ d # client
    <3>1. stream'[c] = stream[c] /\ stream'[d] = stream[d]
      BY <1>2, <2>4
    <3>2. i \in DOMAIN stream[c] /\ j \in DOMAIN stream[d]
      BY <3>1
    <3>3. FrameOnOneStream
      BY DEF Link
    <3> QED
      BY <3>1, <3>2, <3>3, Zenon DEF FrameOnOneStream
  <2> QED
    BY <2>2, <2>3, <2>4
<1>7. Link'
  BY <1>1, <1>2, <1>3, <1>4, <1>5, <1>6, LinkCounted DEF SendFrame
<1> QED
  BY <1>1, <1>7

LEMMA LinkLost ==
    ASSUME Link, SendLost
    PROVE  Link' /\ produced' = produced + 1
<1>1. client = Gone /\ stream' = stream /\ produced' = produced + 1
  BY DEF SendLost, Counted
<1>2. Contiguous'
  <2> SUFFICES ASSUME NEW c \in Clients, NEW i \in 1 .. Len(stream[c])
               PROVE  stream[c][i] <= produced + 1
    BY <1>1 DEF Link, Contiguous
  <2>1. stream[c][i] \in Nat /\ produced \in Nat /\ stream[c][i] <= produced
    BY ElementOfSeq DEF Link, LinkType, Contiguous
  <2> QED
    BY <2>1
<1>3. FrameOnOneStream' /\ Ascending'
  BY <1>1 DEF Link, FrameOnOneStream, Ascending
<1>4. stream' \in [Clients -> Seq(Nat)] /\ client \notin Clients /\ client # NoClient
  BY <1>1, PoseAssumption DEF Link, LinkType
<1>5. Link'
  BY <1>1, <1>2, <1>3, <1>4, LinkCounted DEF SendLost
<1> QED
  BY <1>1, <1>5

LEMMA LinkFails ==
    ASSUME Link, SendFails
    PROVE  Link' /\ produced' = produced
BY PoseAssumption
   DEF SendFails, linkVars, Link, LinkType, OpenIsServedOrQueued, QueuedOnce,
       QuietStreams, Contiguous, Ascending, Tip, FrameOnOneStream

\* Every step keeps Link, and no frame is taken back.
LEMMA LinkStep ==
    ASSUME Link, [Next]_vars
    PROVE  Link' /\ (produced' = produced \/ produced' = produced + 1)
<1> USE DEF Clients
<1>1. CASE StartServer
  BY <1>1, LinkKept
     DEF StartServer, Link, LinkType, OpenIsServedOrQueued, QueuedOnce,
         QuietStreams, Contiguous, Ascending, Tip, FrameOnOneStream, linkVars
<1>2. CASE KillServer
  BY <1>2, LinkKill
<1>3. CASE ServerStep
  BY <1>3, LinkAccept, LinkSend, LinkLost, LinkFails DEF ServerStep
<1>4. ASSUME NEW a \in Apps, Call(a)
      PROVE  Link' /\ produced' = produced
  BY <1>4, LinkKept DEF Call, serverVars
<1>5. ASSUME NEW a \in Apps, CallStep(a)
      PROVE  Link' /\ produced' = produced
  <2>1. CASE UpdatePose(a)
    BY <2>1, LinkKept, LinkConnect DEF UpdatePose, serverVars
  <2>2. CASE BrokerReads(a)
    BY <2>2, LinkTake DEF BrokerReads
  <2>3. CASE BrokerGivesUp(a)
    BY <2>3, LinkClose DEF BrokerGivesUp
  <2>4. CASE TakeRow(a)
    BY <2>4, LinkKept DEF TakeRow, serverVars
  <2>5. CASE EnsureConnected(a)
    BY <2>5, LinkKept, LinkConnect DEF EnsureConnected, serverVars
  <2>6. CASE ReadFrame(a)
    BY <2>6, LinkTake DEF ReadFrame
  <2>7. CASE ReadEnd(a)
    BY <2>7, LinkClose DEF ReadEnd
  <2> QED
    BY <1>5, <2>1, <2>2, <2>3, <2>4, <2>5, <2>6, <2>7 DEF CallStep
<1>6. ASSUME NEW a \in Apps, QueryFails(a)
      PROVE  Link' /\ produced' = produced
  BY <1>6, LinkKept DEF QueryFails, serverVars
<1>7. ASSUME NEW a \in Apps, AppDies(a)
      PROVE  Link' /\ produced' = produced
  BY <1>7, LinkClose DEF AppDies
<1>8. CASE BrokerDies
  BY <1>8, LinkClose DEF BrokerDies
<1>9. CASE SecondPasses
  BY <1>9, LinkKept DEF SecondPasses, serverVars
<1>10. CASE UNCHANGED vars
  BY <1>10, LinkKept DEF vars, serverVars
<1> QED
  BY <1>1, <1>2, <1>3, <1>4, <1>5, <1>6, <1>7, <1>8, <1>9, <1>10 DEF Next

LEMMA LinkInit == ASSUME Init PROVE Link
BY PoseAssumption
   DEF Init, Link, LinkType, OpenIsServedOrQueued, QueuedOnce, QuietStreams,
       Contiguous, Ascending, Tip, FrameOnOneStream

(***************************************************************************)
(* The poses clients hold.                                                 *)
(***************************************************************************)
ReaderType == /\ brokerPose \in Nat
              /\ latest \in [Apps -> Nat]
              /\ pc \in [Apps -> Places]
              /\ fromBroker \subseteq Apps

\* What a client holds was produced, before all that is on its connection.
Ahead == \A c \in Clients :
             /\ Held(c) <= produced
             /\ \A i \in 1 .. Len(stream[c]) : Held(c) < stream[c][i]

Readers == /\ ReaderType
           /\ ConnectedMeansReading
           /\ Ahead
           /\ OneBrokerReader
           /\ RowsFollowBroker

LEMMA HeldType ==
    ASSUME ReaderType, NEW c \in Clients
    PROVE  Held(c) \in Nat
BY DEF ReaderType, Held, Clients

\* Nothing is read: a client holds what it held, or something produced while
\* nothing is on its connection; connections are kept or emptied.
LEMMA AheadQuiet ==
    ASSUME Link, Ahead, ReaderType, produced' = produced,
           \A c \in Clients : stream'[c] = stream[c] \/ stream'[c] = <<>>,
           \A c \in Clients : \/ Held(c)' = Held(c)
                              \/ stream'[c] = <<>> /\ Held(c)' <= produced
    PROVE  Ahead'
<1> SUFFICES ASSUME NEW c \in Clients
             PROVE  /\ Held(c)' <= produced
                    /\ \A i \in 1 .. Len(stream'[c]) : Held(c)' < stream'[c][i]
  BY DEF Ahead
<1>1. Held(c)' <= produced
  BY DEF Ahead
<1>2. CASE stream'[c] = <<>>
  BY <1>1, <1>2
<1>3. CASE stream'[c] # <<>>
  BY <1>1, <1>3 DEF Ahead
<1> QED
  BY <1>2, <1>3

\* A client reads the first frame of its connection.
LEMMA AheadTake ==
    ASSUME Link, Ahead, NEW c \in Clients, TakeFrame(c),
           Held(c)' = Head(stream[c]),
           \A d \in Clients \ {c} : Held(d)' = Held(d)
    PROVE  Ahead' /\ Held(c)' > Held(c)
<1>1. /\ produced' = produced
      /\ stream[c] \in Seq(Nat) /\ stream[c] # <<>>
      /\ Held(c)' = stream[c][1]
      /\ 1 \in 1 .. Len(stream[c])
      /\ \A d \in Clients \ {c} : stream'[d] = stream[d]
      /\ \A i \in 1 .. Len(stream'[c]) :
             /\ i + 1 \in 1 .. Len(stream[c]) /\ 1 < i + 1
             /\ stream'[c][i] = stream[c][i + 1]
  BY DEF Link, LinkType, TakeFrame, serverVars
<1>2. Held(c)' <= produced /\ Held(c)' > Held(c)
  BY <1>1 DEF Link, Contiguous, Ahead
<1>3. \A i \in 1 .. Len(stream'[c]) : Held(c)' < stream'[c][i]
  BY <1>1 DEF Link, Ascending
<1>4. \A d \in Clients \ {c} : /\ Held(d)' <= produced
                               /\ \A i \in 1 .. Len(stream'[d]) : Held(d)' < stream'[d][i]
  BY <1>1 DEF Ahead
<1> QED
  BY <1>1, <1>2, <1>3, <1>4 DEF Ahead

\* A frame produced now is newer than anything anyone holds.
LEMMA AheadProduce ==
    ASSUME Link, Ahead, ReaderType, SendFrame \/ SendLost,
           UNCHANGED <<brokerPose, latest>>
    PROVE  Ahead'
<1>1. /\ produced \in Nat /\ produced' = produced + 1
      /\ \A c \in Clients : Held(c)' = Held(c) /\ Held(c) \in Nat
  BY HeldType DEF Link, LinkType, SendFrame, SendLost, Counted, Held
<1>2. \A c \in Clients : Held(c) <= produced + 1
  BY <1>1 DEF Ahead
<1>3. ASSUME NEW c \in Clients, NEW i \in 1 .. Len(stream'[c])
      PROVE  Held(c) < stream'[c][i]
  <2>1. CASE SendFrame /\ c = client
    <3>1. /\ stream[c] \in Seq(Nat)
          /\ stream'[c] = Append(stream[c], produced + 1)
      BY <2>1 DEF SendFrame, Link, LinkType
    <3>2. \/ i \in 1 .. Len(stream[c]) /\ stream'[c][i] = stream[c][i]
          \/ stream'[c][i] = produced + 1
      BY <3>1
    <3>3. Held(c) \in Nat /\ Held(c) <= produced
      BY <1>1 DEF Ahead
    <3>4. CASE i \in 1 .. Len(stream[c]) /\ stream'[c][i] = stream[c][i]
      BY <3>4 DEF Ahead
    <3>5. CASE stream'[c][i] = produced + 1
      BY <1>1, <3>3, <3>5
    <3> QED
      BY <3>2, <3>4, <3>5
  <2>2. CASE ~(SendFrame /\ c = client)
    <3>1. stream'[c] = stream[c]
      BY <2>2 DEF SendFrame, SendLost, Link, LinkType
    <3> QED
      BY <3>1 DEF Ahead
  <2> QED
    BY <2>1, <2>2
<1> QED
  BY <1>1, <1>2, <1>3 DEF Ahead

LEMMA ReadersStep ==
    ASSUME Link, Link', Readers, [Next]_vars
    PROVE  Readers'
<1> USE DEF Clients
<1>a. ReaderType /\ ConnectedMeansReading /\ Ahead /\ OneBrokerReader /\ RowsFollowBroker
  BY DEF Readers
<1>b. \A a \in Apps : a # Broker /\ Held(a) = latest[a] /\ Held(a)' = latest'[a]
  BY PoseAssumption DEF Held
<1>c. Held(Broker) = brokerPose /\ Held(Broker)' = brokerPose'
  BY DEF Held
<1>d. \A a \in Apps : pc[a] # "read" => stream[a] = <<>>
  BY <1>a DEF Link, QuietStreams, ConnectedMeansReading
<1>e. \A c \in Clients : Held(c) <= produced
  BY <1>a DEF Ahead
<1>1. ASSUME StartServer \/ KillServer \/ ServerStep
      PROVE  Readers'
  <2>1. UNCHANGED <<brokerVars, appVars>>
    BY <1>1 DEF StartServer, KillServer, ServerStep, Accept, SendFrame, SendLost, SendFails
  <2>2. \A c \in Clients : sock'[c] # "none" => sock[c] # "none"
    BY <1>1 DEF StartServer, KillServer, ServerStep, Accept, SendFrame, SendLost,
                SendFails, Counted, StopListening, linkVars, Link, LinkType
  <2>3. ConnectedMeansReading'
    BY <1>a, <2>1, <2>2 DEF ConnectedMeansReading, appVars
  <2>4. Ahead'
    <3>1. CASE SendFrame \/ SendLost
      BY <1>a, <2>1, <3>1, AheadProduce DEF brokerVars, appVars
    <3>2. CASE ~(SendFrame \/ SendLost)
      <4>1. produced' = produced /\ stream' = stream
        BY <1>1, <3>2 DEF StartServer, KillServer, ServerStep, Accept, SendFails, linkVars
      <4>2. \A c \in Clients : Held(c)' = Held(c)
        BY <2>1 DEF Held, brokerVars, appVars
      <4> QED
        BY <1>a, <4>1, <4>2, AheadQuiet
    <3> QED
      BY <3>1, <3>2
  <2> QED
    BY <1>a, <2>1, <2>3, <2>4
       DEF Readers, ReaderType, OneBrokerReader, RowsFollowBroker, brokerVars, appVars
<1>2. ASSUME NEW a \in Apps, Call(a) \/ QueryFails(a)
      PROVE  Readers'
  <2>1. /\ UNCHANGED <<serverVars, linkVars, brokerVars, latest, fromBroker>>
        /\ pc[a] # "read"
        /\ \E place \in {"direct", "query"} : pc' = [pc EXCEPT ![a] = place]
    BY <1>2 DEF Call, QueryFails, Goto
  <2>2. Ahead'
    BY <1>a, <2>1 DEF Ahead, Held, serverVars, linkVars, brokerVars
  <2>3. ReaderType' /\ OneBrokerReader' /\ RowsFollowBroker'
    BY <1>a, <2>1
       DEF ReaderType, OneBrokerReader, RowsFollowBroker, Places, brokerVars
  <2>4. ConnectedMeansReading'
    BY <1>a, <2>1 DEF ReaderType, ConnectedMeansReading, linkVars
  <2> QED
    BY <2>2, <2>3, <2>4 DEF Readers
<1>3. ASSUME NEW a \in Apps, UpdatePose(a)
      PROVE  Readers'
  <2>1. /\ UNCHANGED <<brokerPose, latest, fromBroker>>
        /\ pc[a] = "query" /\ ~Locked
        /\ \E place \in {"broker", "row"} : pc' = [pc EXCEPT ![a] = place]
    BY <1>3 DEF UpdatePose, Goto
  <2>2. /\ \A c \in Clients : stream'[c] = stream[c] \/ stream'[c] = <<>>
        /\ \A c \in Apps : sock'[c] = sock[c]
        /\ produced' = produced
    BY <1>3, PoseAssumption DEF UpdatePose, Connect, linkVars, serverVars, Link, LinkType
  <2>3. Ahead'
    BY <1>a, <2>1, <2>2, AheadQuiet DEF Held
  <2>4. ReaderType' /\ RowsFollowBroker'
    BY <1>a, <2>1 DEF ReaderType, RowsFollowBroker, Places
  <2>5. OneBrokerReader'
    BY <1>a, <2>1 DEF ReaderType, OneBrokerReader, Locked
  <2>6. ConnectedMeansReading'
    BY <1>a, <2>1, <2>2 DEF ReaderType, ConnectedMeansReading
  <2> QED
    BY <2>3, <2>4, <2>5, <2>6 DEF Readers
<1>4. ASSUME NEW a \in Apps, BrokerReads(a)
      PROVE  Readers'
  <2>1. /\ TakeFrame(Broker) /\ brokerPose' = Head(stream[Broker])
        /\ pc[a] = "broker" /\ pc' = [pc EXCEPT ![a] = "row"]
        /\ UNCHANGED <<latest, fromBroker, sock>>
    BY <1>4 DEF BrokerReads, Goto, TakeFrame
  <2>2. Ahead' /\ brokerPose' > brokerPose
    BY <1>a, <1>b, <1>c, <2>1, AheadTake
  <2>3. brokerPose \in Nat /\ brokerPose' \in Nat
    BY <1>a, <2>1 DEF ReaderType, Link, LinkType, TakeFrame
  <2>4. ReaderType'
    BY <1>a, <2>1, <2>3 DEF ReaderType, Places
  <2>5. RowsFollowBroker'
    BY <1>a, <2>1, <2>2, <2>3 DEF ReaderType, RowsFollowBroker
  <2>6. OneBrokerReader' /\ ConnectedMeansReading'
    BY <1>a, <2>1 DEF ReaderType, OneBrokerReader, ConnectedMeansReading
  <2> QED
    BY <2>2, <2>4, <2>5, <2>6 DEF Readers
<1>5. ASSUME NEW a \in Apps, BrokerGivesUp(a)
      PROVE  Readers'
  <2>1. /\ Close(Broker) /\ UNCHANGED <<brokerPose, latest, fromBroker>>
        /\ pc[a] = "broker" /\ pc' = [pc EXCEPT ![a] = "row"]
    BY <1>5 DEF BrokerGivesUp, Goto, brokerVars
  <2>2. /\ \A c \in Clients : stream'[c] = stream[c] \/ stream'[c] = <<>>
        /\ \A c \in Apps : sock'[c] = sock[c]
        /\ produced' = produced
    BY <2>1, PoseAssumption DEF Close, Link, LinkType
  <2>3. Ahead'
    BY <1>a, <2>1, <2>2, AheadQuiet DEF Held
  <2>4. ReaderType' /\ RowsFollowBroker' /\ OneBrokerReader' /\ ConnectedMeansReading'
    BY <1>a, <2>1, <2>2
       DEF ReaderType, RowsFollowBroker, OneBrokerReader, ConnectedMeansReading, Places
  <2> QED
    BY <2>3, <2>4 DEF Readers
<1>6. ASSUME NEW a \in Apps, TakeRow(a)
      PROVE  Readers'
  <2>1. /\ UNCHANGED <<produced, sock, stream, brokerPose>>
        /\ pc[a] = "row" /\ pc' = [pc EXCEPT ![a] = "idle"]
        /\ latest' = [latest EXCEPT ![a] = brokerPose]
        /\ fromBroker' = fromBroker \cup {a}
    BY <1>6 DEF TakeRow, Goto, serverVars, linkVars, brokerVars
  <2>2. stream'[a] = <<>> /\ latest'[a] = brokerPose
    BY <1>a, <1>d, <2>1 DEF ReaderType
  <2>3. \A c \in Clients \ {a} : Held(c)' = Held(c)
    BY <1>a, <2>1 DEF ReaderType, Held
  <2>4. Held(a)' <= produced
    BY <1>b, <1>c, <1>e, <2>2
  <2>5. Ahead'
    BY <1>a, <2>1, <2>2, <2>3, <2>4, AheadQuiet
  <2>6. ReaderType' /\ OneBrokerReader' /\ ConnectedMeansReading'
    BY <1>a, <2>1 DEF ReaderType, OneBrokerReader, ConnectedMeansReading, Places
  <2>7. RowsFollowBroker'
    <3> SUFFICES ASSUME NEW b \in fromBroker' PROVE latest'[b] <= brokerPose
      BY <2>1 DEF RowsFollowBroker
    <3>1. CASE b = a
      BY <1>a, <2>2, <3>1 DEF ReaderType
    <3>2. CASE b # a
      BY <1>a, <2>1, <3>2 DEF ReaderType, RowsFollowBroker
    <3> QED
      BY <3>1, <3>2
  <2> QED
    BY <2>5, <2>6, <2>7 DEF Readers
<1>7. ASSUME NEW a \in Apps, EnsureConnected(a)
      PROVE  Readers'
  <2>1. /\ UNCHANGED <<brokerPose, latest, fromBroker>>
        /\ pc[a] = "direct"
        /\ \E place \in {"idle", "read"} : pc' = [pc EXCEPT ![a] = place]
        /\ sock'[a] # "none" => pc'[a] = "read"
    BY <1>7, <1>a
       DEF EnsureConnected, Goto, Connect, linkVars, brokerVars, Link, LinkType, ReaderType
  <2>2. /\ \A c \in Clients : stream'[c] = stream[c] \/ stream'[c] = <<>>
        /\ \A c \in Clients \ {a} : sock'[c] = sock[c]
        /\ produced' = produced
    BY <1>7 DEF EnsureConnected, Connect, linkVars, serverVars, Link, LinkType
  <2>3. Ahead'
    BY <1>a, <2>1, <2>2, AheadQuiet DEF Held
  <2>4. ReaderType' /\ RowsFollowBroker' /\ OneBrokerReader'
    BY <1>a, <2>1 DEF ReaderType, RowsFollowBroker, OneBrokerReader, Places
  <2>5. ConnectedMeansReading'
    BY <1>a, <2>1, <2>2 DEF ReaderType, ConnectedMeansReading
  <2> QED
    BY <2>3, <2>4, <2>5 DEF Readers
<1>8. ASSUME NEW a \in Apps, ReadFrame(a)
      PROVE  Readers'
  <2>1. /\ TakeFrame(a) /\ latest' = [latest EXCEPT ![a] = Head(stream[a])]
        /\ fromBroker' = fromBroker \ {a}
        /\ UNCHANGED <<brokerPose, pc, sock>>
    BY <1>8 DEF ReadFrame, TakeFrame, brokerVars
  <2>2. Head(stream[a]) \in Nat
    BY <2>1 DEF Link, LinkType, TakeFrame
  <2>3. /\ Held(a)' = Head(stream[a])
        /\ \A c \in Clients \ {a} : Held(c)' = Held(c)
    BY <1>a, <1>b, <2>1 DEF ReaderType, Held
  <2>4. Ahead'
    BY <1>a, <2>1, <2>3, AheadTake
  <2>5. ReaderType' /\ OneBrokerReader' /\ ConnectedMeansReading' /\ RowsFollowBroker'
    BY <1>a, <2>1, <2>2
       DEF ReaderType, OneBrokerReader, ConnectedMeansReading, RowsFollowBroker
  <2> QED
    BY <2>4, <2>5 DEF Readers
<1>9. ASSUME NEW a \in Apps, ReadEnd(a)
      PROVE  Readers'
  <2>1. /\ Close(a) /\ UNCHANGED <<brokerPose, latest, fromBroker>>
        /\ pc' = [pc EXCEPT ![a] = "idle"]
    BY <1>9 DEF ReadEnd, Goto, brokerVars
  <2>2. /\ \A c \in Clients : stream'[c] = stream[c] \/ stream'[c] = <<>>
        /\ \A c \in Clients \ {a} : sock'[c] = sock[c]
        /\ sock'[a] = "none"
        /\ produced' = produced
    BY <2>1 DEF Close, Link, LinkType
  <2>3. Ahead'
    BY <1>a, <2>1, <2>2, AheadQuiet DEF Held
  <2>4. ReaderType' /\ RowsFollowBroker' /\ OneBrokerReader' /\ ConnectedMeansReading'
    BY <1>a, <2>1, <2>2
       DEF ReaderType, RowsFollowBroker, OneBrokerReader, ConnectedMeansReading, Places
  <2> QED
    BY <2>3, <2>4 DEF Readers
<1>10. ASSUME NEW a \in Apps, AppDies(a)
       PROVE  Readers'
  <2>1. /\ Close(a) /\ UNCHANGED brokerPose
        /\ latest' = [latest EXCEPT ![a] = 0]
        /\ fromBroker' = fromBroker \ {a}
        /\ pc' = [pc EXCEPT ![a] = "idle"]
    BY <1>10 DEF AppDies, Goto, brokerVars
  <2>2. /\ \A c \in Clients \ {a} : stream'[c] = stream[c] /\ sock'[c] = sock[c]
        /\ stream'[a] = <<>> /\ sock'[a] = "none"
        /\ produced' = produced /\ produced \in Nat
    BY <2>1 DEF Close, Link, LinkType
  <2>3. /\ Held(a)' = 0
        /\ \A c \in Clients \ {a} : Held(c)' = Held(c)
    BY <1>a, <1>b, <2>1 DEF ReaderType, Held
  <2>4. Ahead'
    BY <1>a, <2>2, <2>3, AheadQuiet
  <2>5. ReaderType' /\ RowsFollowBroker' /\ OneBrokerReader' /\ ConnectedMeansReading'
    BY <1>a, <2>1, <2>2
       DEF ReaderType, RowsFollowBroker, OneBrokerReader, ConnectedMeansReading, Places
  <2> QED
    BY <2>4, <2>5 DEF Readers
<1>11. ASSUME BrokerDies
       PROVE  Readers'
  <2>1. /\ Close(Broker) /\ brokerPose' = 0 /\ UNCHANGED latest
        /\ fromBroker' = {}
        /\ pc' \in [Apps -> Places]
        /\ \A a \in Apps : /\ pc[a] = "read" => pc'[a] = "read"
                           /\ pc'[a] # "broker"
    BY <1>11, <1>a DEF BrokerDies, ReaderType, Places
  <2>2. /\ \A c \in Apps : stream'[c] = stream[c] /\ sock'[c] = sock[c]
        /\ stream'[Broker] = <<>>
        /\ produced' = produced /\ produced \in Nat
    BY <2>1, PoseAssumption DEF Close, Link, LinkType
  <2>3. /\ Held(Broker)' = 0
        /\ \A c \in Apps : Held(c)' = Held(c)
    BY <1>b, <1>c, <2>1
  <2>4. Ahead'
    BY <1>a, <2>2, <2>3, AheadQuiet
  <2>5. ReaderType' /\ RowsFollowBroker' /\ OneBrokerReader' /\ ConnectedMeansReading'
    BY <1>a, <2>1, <2>2
       DEF ReaderType, RowsFollowBroker, OneBrokerReader, ConnectedMeansReading
  <2> QED
    BY <2>4, <2>5 DEF Readers
<1>12. ASSUME SecondPasses \/ UNCHANGED vars
       PROVE  Readers'
  BY <1>12, <1>a
     DEF SecondPasses, vars, serverVars, linkVars, brokerVars, appVars, Readers,
         ReaderType, ConnectedMeansReading, Ahead, OneBrokerReader,
         RowsFollowBroker, Held
<1> QED
  BY <1>1, <1>2, <1>3, <1>4, <1>5, <1>6, <1>7, <1>8, <1>9, <1>10, <1>11, <1>12
     DEF Next, CallStep

LEMMA ReadersInit == ASSUME Init PROVE Readers
BY DEF Init, Readers, ReaderType, ConnectedMeansReading, Ahead, OneBrokerReader,
       RowsFollowBroker, Held, Places, Clients
----------------------------------------------------------------------------
Inv == Link /\ Readers

LEMMA Invariance == Spec => []Inv
<1>1. Init => Inv
  BY LinkInit, ReadersInit DEF Inv
<1>2. Inv /\ [Next]_vars => Inv'
  BY LinkStep, ReadersStep DEF Inv
<1> QED
  BY <1>1, <1>2, PTL DEF Spec

\* The server's queue and the connections agree, and every frame is on one
\* connection only, whatever closes, restarts or dies.
THEOREM Connections == Spec => [](OpenIsServedOrQueued /\ FrameOnOneStream)
<1>1. Inv => OpenIsServedOrQueued /\ FrameOnOneStream
  BY DEF Inv, Link
<1> QED
  BY <1>1, Invariance, PTL

\* Frames reach a reader in order, all newer than the pose it has.
THEOREM InOrder == Spec => []StreamsInOrder
<1>1. Inv => StreamsInOrder
  BY DEF Inv, Link, Readers, Contiguous, Ahead, StreamsInOrder
<1> QED
  BY <1>1, Invariance, PTL

\* One query at a time reads for the broker, and rows do not overtake it.
THEOREM BrokerRows == Spec => [](OneBrokerReader /\ RowsFollowBroker)
<1>1. Inv => OneBrokerReader /\ RowsFollowBroker
  BY DEF Inv, Readers
<1> QED
  BY <1>1, Invariance, PTL

\* While an application's own connection is open its call has not returned.
THEOREM DirectReads == Spec => []ConnectedMeansReading
<1>1. Inv => ConnectedMeansReading
  BY DEF Inv, Readers
<1> QED
  BY <1>1, Invariance, PTL
----------------------------------------------------------------------------
(***************************************************************************)
(* Counters, and the broker's pose.                                        *)
(***************************************************************************)
ServerCounters == /\ runs \in 0 .. MaxRuns
                  /\ listening \in BOOLEAN
                  /\ sequence \in 0 .. MaxFrames
                  /\ listening => sequence < MaxFrames

AppCounters == /\ brokerOff \in [Apps -> 0 .. BrokerRetry]
               /\ connectOff \in [Apps -> 0 .. ConnectRetry]

Counters == /\ ServerCounters
            /\ AppCounters
            /\ brokerWait \in BOOLEAN
            /\ failures \in 0 .. MaxFailures

LEMMA CountersInit == Init => Counters
<1> SUFFICES ASSUME Init PROVE Counters
  OBVIOUS
<1>a. /\ MaxRuns \in Nat /\ MaxFailures \in Nat
      /\ MaxFrames \in Nat /\ MaxFrames >= 1
  BY PoseAssumption
<1>b. BrokerRetry \in Nat /\ ConnectRetry \in Nat
  BY PoseAssumption
<1>1. ServerCounters
  <2>1. runs = 0 /\ sequence = 0
    BY DEF Init
  <2>2. listening \in BOOLEAN /\ ~listening
    BY Zenon DEF Init
  <2>3. runs \in 0 .. MaxRuns /\ sequence \in 0 .. MaxFrames
    BY <1>a, <2>1
  <2> QED
    BY <2>2, <2>3 DEF ServerCounters
<1>2. AppCounters
  <2>1. 0 \in 0 .. BrokerRetry /\ 0 \in 0 .. ConnectRetry
    BY <1>b
  <2>2. /\ brokerOff = [a \in Apps |-> 0]
        /\ connectOff = [a \in Apps |-> 0]
    BY DEF Init
  <2> QED
    BY <2>1, <2>2 DEF AppCounters
<1>3. brokerWait \in BOOLEAN
  BY Zenon DEF Init
<1>4. failures \in 0 .. MaxFailures
  <2>1. failures = 0
    BY DEF Init
  <2> QED
    BY <1>a, <2>1
<1> QED
  BY <1>1, <1>2, <1>3, <1>4 DEF Counters

LEMMA ServerCountersStep ==
    ASSUME ServerCounters, [Next]_vars
    PROVE  ServerCounters'
<1>a. MaxRuns \in Nat /\ MaxFrames \in Nat /\ MaxFrames >= 1
  BY PoseAssumption
<1>1. CASE StartServer
  BY <1>a, <1>1 DEF StartServer, ServerCounters
<1>2. CASE KillServer
  BY <1>a, <1>2 DEF KillServer, StopListening, ServerCounters
<1>3. ASSUME Counted, listening, runs' = runs
      PROVE  ServerCounters'
  <2>1. sequence + 1 \in 0 .. MaxFrames
    BY <1>a, <1>3 DEF ServerCounters
  <2>2. CASE sequence + 1 = MaxFrames
    BY <1>a, <1>3, <2>1, <2>2 DEF Counted, StopListening, ServerCounters
  <2>3. CASE sequence + 1 # MaxFrames
    BY <1>a, <1>3, <2>1, <2>3 DEF Counted, ServerCounters
  <2> QED
    BY <2>2, <2>3
<1>4. CASE SendFrame \/ SendLost
  BY <1>3, <1>4 DEF SendFrame, SendLost
<1>5. ASSUME runs' = runs, listening' = listening, sequence' = sequence
      PROVE  ServerCounters'
  BY <1>5 DEF ServerCounters
<1>6. CASE Accept \/ SendFails \/ BrokerDies \/ SecondPasses \/ UNCHANGED vars
  BY <1>5, <1>6 DEF Accept, SendFails, BrokerDies, SecondPasses, Close, vars, serverVars
<1>7. ASSUME NEW a \in Apps, Call(a) \/ QueryFails(a) \/ AppDies(a)
      PROVE  ServerCounters'
  BY <1>5, <1>7 DEF Call, QueryFails, AppDies, Close, serverVars
<1>8. ASSUME NEW a \in Apps,
             UpdatePose(a) \/ BrokerReads(a) \/ BrokerGivesUp(a) \/ TakeRow(a)
      PROVE  ServerCounters'
  BY <1>5, <1>8 DEF UpdatePose, BrokerReads, BrokerGivesUp, TakeRow, Connect,
                    Close, TakeFrame, serverVars
<1>9. ASSUME NEW a \in Apps, EnsureConnected(a) \/ ReadFrame(a) \/ ReadEnd(a)
      PROVE  ServerCounters'
  BY <1>5, <1>9 DEF EnsureConnected, ReadFrame, ReadEnd, Connect, Close,
                    TakeFrame, serverVars
<1> QED
  BY <1>1, <1>2, <1>4, <1>6, <1>7, <1>8, <1>9 DEF Next, ServerStep, CallStep

LEMMA AppCountersStep ==
    ASSUME AppCounters, [Next]_vars
    PROVE  AppCounters'
<1>a. BrokerRetry \in Nat /\ ConnectRetry \in Nat
  BY PoseAssumption
<1>1. ASSUME NEW a \in Apps, NEW n \in 0 .. BrokerRetry,
             brokerOff' = [brokerOff EXCEPT ![a] = n], connectOff' = connectOff
      PROVE  AppCounters'
  BY <1>1 DEF AppCounters
<1>2. ASSUME NEW a \in Apps, NEW n \in 0 .. ConnectRetry,
             connectOff' = [connectOff EXCEPT ![a] = n], brokerOff' = brokerOff
      PROVE  AppCounters'
  BY <1>2 DEF AppCounters
<1>3. ASSUME brokerOff' = brokerOff, connectOff' = connectOff
      PROVE  AppCounters'
  BY <1>3 DEF AppCounters
<1>4. ASSUME NEW a \in Apps, Call(a)
      PROVE  AppCounters'
  <2>1. CASE brokerOff' = brokerOff
    BY <1>3, <1>4, <2>1 DEF Call
  <2>2. CASE /\ brokerOff[a] > 0
             /\ brokerOff' = [brokerOff EXCEPT ![a] = @ - 1]
    <3>1. brokerOff[a] - 1 \in 0 .. BrokerRetry
      BY <1>a, <2>2 DEF AppCounters
    <3> QED
      BY <1>1, <1>4, <2>2, <3>1 DEF Call
  <2> QED
    BY <1>4, <2>1, <2>2 DEF Call
<1>5. ASSUME NEW a \in Apps, QueryFails(a)
      PROVE  AppCounters'
  <2>1. BrokerRetry \in 0 .. BrokerRetry
    BY <1>a
  <2> QED
    BY <1>1, <1>5, <2>1 DEF QueryFails
<1>6. ASSUME NEW a \in Apps, EnsureConnected(a)
      PROVE  AppCounters'
  <2>1. CASE connectOff' = connectOff
    BY <1>3, <1>6, <2>1 DEF EnsureConnected
  <2>2. CASE /\ connectOff[a] > 0
             /\ connectOff' = [connectOff EXCEPT ![a] = @ - 1]
    <3>1. connectOff[a] - 1 \in 0 .. ConnectRetry
      BY <1>a, <2>2 DEF AppCounters
    <3> QED
      BY <1>2, <1>6, <2>2, <3>1 DEF EnsureConnected
  <2>3. CASE connectOff' = [connectOff EXCEPT ![a] = ConnectRetry]
    <3>1. ConnectRetry \in 0 .. ConnectRetry
      BY <1>a
    <3> QED
      BY <1>2, <1>6, <2>3, <3>1 DEF EnsureConnected
  <2> QED
    BY <1>6, <2>1, <2>2, <2>3 DEF EnsureConnected
<1>7. ASSUME NEW a \in Apps, AppDies(a)
      PROVE  AppCounters'
  <2>1. 0 \in 0 .. BrokerRetry /\ 0 \in 0 .. ConnectRetry
    BY <1>a
  <2>2. /\ brokerOff' = [brokerOff EXCEPT ![a] = 0]
        /\ connectOff' = [connectOff EXCEPT ![a] = 0]
    BY <1>7 DEF AppDies
  <2> QED
    BY <2>1, <2>2 DEF AppCounters
<1>8. CASE BrokerDies
  <2> DEFINE asking == {a \in Apps : pc[a] \in {"query", "broker", "row"}}
  <2>1. BrokerRetry \in 0 .. BrokerRetry
    BY <1>a
  <2>2. /\ brokerOff' = [a \in Apps |-> IF a \in asking THEN BrokerRetry
                                                        ELSE brokerOff[a]]
        /\ connectOff' = connectOff
    BY <1>8 DEF BrokerDies
  <2> HIDE DEF asking
  <2> QED
    BY <2>1, <2>2 DEF AppCounters
<1>9. ASSUME NEW a \in Apps,
             UpdatePose(a) \/ BrokerReads(a) \/ BrokerGivesUp(a) \/ TakeRow(a)
               \/ ReadFrame(a) \/ ReadEnd(a)
      PROVE  AppCounters'
  BY <1>3, <1>9 DEF UpdatePose, BrokerReads, BrokerGivesUp, TakeRow, ReadFrame, ReadEnd
<1>10. CASE \/ StartServer \/ KillServer \/ ServerStep \/ SecondPasses
            \/ UNCHANGED vars
  BY <1>3, <1>10 DEF StartServer, KillServer, ServerStep, Accept, SendFrame,
                     SendLost, SendFails, SecondPasses, vars, appVars
<1> QED
  BY <1>4, <1>5, <1>6, <1>7, <1>8, <1>9, <1>10 DEF Next, CallStep

LEMMA CountersStep ==
    ASSUME Counters, [Next]_vars
    PROVE  Counters'
<1>1. ServerCounters' /\ AppCounters'
  BY ServerCountersStep, AppCountersStep DEF Counters
<1>2. ASSUME failures' = failures, brokerWait' = brokerWait \/ brokerWait' \in BOOLEAN
      PROVE  Counters'
  BY <1>1, <1>2 DEF Counters
<1>3. ASSUME Fail, brokerWait' = brokerWait \/ brokerWait' = FALSE
      PROVE  Counters'
  <2>1. failures' \in 0 .. MaxFailures
    BY <1>3, PoseAssumption DEF Fail, Counters
  <2> QED
    BY <1>1, <1>3, <2>1 DEF Counters
<1>4. CASE BrokerDies \/ \E a \in Apps : QueryFails(a) \/ AppDies(a)
  BY <1>3, <1>4 DEF BrokerDies, QueryFails, AppDies, brokerVars
<1>5. CASE \/ StartServer \/ KillServer \/ ServerStep \/ SecondPasses
           \/ UNCHANGED vars
  BY <1>2, <1>5 DEF StartServer, KillServer, ServerStep, Accept, SendFrame,
                    SendLost, SendFails, SecondPasses, vars, brokerVars
<1>6. ASSUME NEW a \in Apps, Call(a) \/ CallStep(a)
      PROVE  Counters'
  BY <1>2, <1>6 DEF Call, CallStep, UpdatePose, BrokerReads, BrokerGivesUp,
                    TakeRow, EnsureConnected, ReadFrame, ReadEnd, brokerVars
<1> QED
  BY <1>4, <1>5, <1>6 DEF Next

\* The variables of PosePath hold values of their types.
THEOREM TypeCorrect == Spec => []TypeOK
<1>1. Init => Counters
  BY CountersInit
<1>2. Counters /\ [Next]_vars => Counters'
  BY CountersStep
<1>3. Inv /\ Counters => TypeOK
  BY DEF Inv, Link, LinkType, Readers, ReaderType, Counters, ServerCounters,
         AppCounters, TypeOK
<1> QED
  BY <1>1, <1>2, <1>3, Invariance, PTL DEF Spec

LEMMA BrokerStep ==
    ASSUME Inv, Counters, [Next]_vars
    PROVE  brokerPose' >= brokerPose \/ failures' > failures
<1> USE DEF Clients
<1>a. brokerPose \in Nat /\ failures \in Nat
  BY DEF Inv, Readers, ReaderType, Counters
<1>1. ASSUME NEW a \in Apps, BrokerReads(a)
      PROVE  brokerPose' >= brokerPose
  <2>1. TakeFrame(Broker) /\ Held(Broker)' = Head(stream[Broker])
    BY <1>1 DEF BrokerReads, Held
  <2>2. \A c \in Clients \ {Broker} : Held(c)' = Held(c)
    BY <1>1 DEF BrokerReads, Held
  <2>3. Held(Broker)' > Held(Broker)
    BY <2>1, <2>2, AheadTake DEF Inv, Readers
  <2>4. brokerPose' \in Nat
    BY <1>1 DEF BrokerReads, TakeFrame, Inv, Link, LinkType
  <2> QED
    BY <1>a, <2>3, <2>4 DEF Held
<1>2. CASE BrokerDies \/ \E a \in Apps : QueryFails(a) \/ AppDies(a)
  BY <1>a, <1>2 DEF BrokerDies, QueryFails, AppDies, Fail
<1>3. ASSUME NEW a \in Apps,
             UpdatePose(a) \/ BrokerGivesUp(a) \/ TakeRow(a)
               \/ EnsureConnected(a) \/ ReadFrame(a) \/ ReadEnd(a) \/ Call(a)
      PROVE  brokerPose' = brokerPose
  BY <1>3 DEF UpdatePose, BrokerGivesUp, TakeRow, EnsureConnected, ReadFrame,
              ReadEnd, Call, brokerVars
<1>4. ASSUME StartServer \/ KillServer \/ ServerStep \/ SecondPasses \/ UNCHANGED vars
      PROVE  brokerPose' = brokerPose
  BY <1>4 DEF StartServer, KillServer, ServerStep, Accept, SendFrame, SendLost,
              SendFails, SecondPasses, vars, brokerVars
<1> QED
  BY <1>a, <1>1, <1>2, <1>3, <1>4 DEF Next, CallStep

\* The broker's pose never goes back while its process lives.
THEOREM BrokerForward == Spec => BrokerMovesForward
<1>1. Init => Counters
  BY CountersInit
<1>2. Counters /\ [Next]_vars => Counters'
  BY CountersStep
<1>3. Inv /\ Counters /\ [Next]_vars
        => [brokerPose' >= brokerPose \/ failures' > failures]_vars
  BY BrokerStep
<1> QED
  BY <1>1, <1>2, <1>3, Invariance, PTL DEF Spec, BrokerMovesForward
----------------------------------------------------------------------------
(***************************************************************************)
(* The pose path implements PoseRelay.  The invariant is the one above:    *)
(* what is on a connection ascends and is newer than what its reader has,  *)
(* and an application that asks the broker has no connection of its own.   *)
(***************************************************************************)
On(c) == {stream[c][i] : i \in DOMAIN stream[c]}

Pending == [c \in Clients |-> On(c)]

Known == <<brokerPose, latest, fromBroker>>

LEMMA RelaySame ==
    ASSUME UNCHANGED <<produced, stream, Known>>
    PROVE  UNCHANGED Relay!relayVars
<1> QED BY DEF Known, Relay!relayVars

\* A connection is emptied, or was empty before.
LEMMA LostAt ==
    ASSUME NEW c \in Clients, stream'[c] = <<>>,
           \A d \in Clients : d # c => stream'[d] = stream[d]
    PROVE  Relay!LoseAll(c)
<1>1. On(c)' = {}
  BY DEF On
<1>2. \A d \in Clients : d # c => On(d)' = On(d)
  BY DEF On
<1>3. Pending' = [Pending EXCEPT ![c] = {}]
  BY <1>1, <1>2 DEF Pending
<1> QED BY <1>3 DEF Relay!LoseAll, Pending, On

LEMMA ClosedAt ==
    ASSUME Link, NEW c \in Clients, Connect(c) \/ Close(c)
    PROVE  Relay!LoseAll(c) /\ produced' = produced
<1>1. /\ stream'[c] = <<>> /\ produced' = produced
      /\ \A d \in Clients : d # c => stream'[d] = stream[d]
  BY DEF Connect, Close, Link, LinkType
<1> QED BY <1>1, LostAt

\* The frame that is read is the oldest on its connection, and leaves it.
LEMMA TakenAt ==
    ASSUME Link, NEW c \in Clients, TakeFrame(c), NEW f, f = Head(stream[c])
    PROVE  Relay!Take(c, f) /\ produced' = produced
<1> DEFINE n == Len(stream[c])
<1>1. /\ stream[c] \in Seq(Nat) /\ n \in Nat \ {0} /\ DOMAIN stream[c] = 1 .. n
      /\ DOMAIN stream'[c] = 1 .. n - 1 /\ produced' = produced
      /\ f = stream[c][1]
      /\ \A i \in 1 .. n - 1 : stream'[c][i] = stream[c][i + 1]
      /\ \A d \in Clients : d # c => stream'[d] = stream[d]
  BY DEF Link, LinkType, TakeFrame, serverVars
<1>2. 1 \in 1 .. n /\ \A i \in 1 .. n : stream[c][i] \in Nat
  BY <1>1
<1>3. \A i \in 1 .. n : i # 1 => f < stream[c][i]
  <2>1. \A i \in 1 .. n : i # 1 => 1 < i
    BY <1>1
  <2> QED BY <1>2, <2>1 DEF Link, Ascending
<1>4. f \in On(c) /\ \A g \in On(c) : f <= g
  BY <1>1, <1>2, <1>3 DEF On
<1>5. On(c)' = On(c) \ {f}
  <2>1. ASSUME NEW g \in On(c)' PROVE g \in On(c) \ {f}
    <3>1. PICK i \in 1 .. n - 1 : g = stream'[c][i]
      BY <1>1, <2>1 DEF On
    <3>2. g = stream[c][i + 1] /\ i + 1 \in 1 .. n /\ i + 1 # 1
      BY <1>1, <3>1
    <3>3. f < g
      BY <1>3, <3>2
    <3>4. g # f
      BY <1>2, <3>2, <3>3
    <3> QED BY <1>1, <3>2, <3>4 DEF On
  <2>2. ASSUME NEW g \in On(c) \ {f} PROVE g \in On(c)'
    <3>1. PICK i \in 1 .. n : g = stream[c][i]
      BY <1>1, <2>2 DEF On
    <3>2. i # 1
      BY <2>2, <3>1
    <3>3. i - 1 \in 1 .. n - 1 /\ (i - 1) + 1 = i
      BY <1>1, <3>2
    <3>4. stream'[c][i - 1] = g
      BY <1>1, <3>1, <3>3
    <3> QED BY <1>1, <3>3, <3>4 DEF On
  <2> QED BY <2>1, <2>2
<1>6. \A d \in Clients : d # c => On(d)' = On(d)
  BY <1>1 DEF On
<1>7. Pending' = [Pending EXCEPT ![c] = @ \ {f}]
  BY <1>5, <1>6 DEF Pending
<1>8. f \in Pending[c] /\ \A g \in Pending[c] : f <= g
  BY <1>4 DEF Pending
<1> QED BY <1>1, <1>7, <1>8 DEF Relay!Take, Relay!Oldest, Pending, On

\* A frame is produced for the client being served, or for nobody.
LEMMA SentTo ==
    ASSUME Link, SendFrame \/ SendLost
    PROVE  Relay!Produce
<1>1. /\ produced' = produced + 1 /\ UNCHANGED Known
  BY DEF SendFrame, SendLost, Counted, brokerVars, appVars, Known
<1>2. CASE SendFrame
  <2>1. PICK c \in Clients : c = client
    BY <1>2 DEF SendFrame
  <2>2. /\ stream[c] \in Seq(Nat) /\ produced + 1 \in Nat
        /\ stream'[c] = Append(stream[c], produced + 1)
        /\ \A d \in Clients : d # c => stream'[d] = stream[d]
    BY <1>2, <2>1 DEF SendFrame, Link, LinkType
  <2> DEFINE n == Len(stream[c])
  <2>3. /\ n \in Nat /\ DOMAIN stream[c] = 1 .. n /\ DOMAIN stream'[c] = 1 .. n + 1
        /\ stream'[c][n + 1] = produced + 1
        /\ \A i \in 1 .. n : stream'[c][i] = stream[c][i]
    BY <2>2
  <2>4. \A i : i \in 1 .. n + 1 <=> i \in 1 .. n \/ i = n + 1
    BY <2>3
  <2>5. On(c)' = On(c) \cup {produced + 1}
    BY <2>3, <2>4 DEF On
  <2>6. \A d \in Clients : d # c => On(d)' = On(d)
    BY <2>2 DEF On
  <2>7. Pending' = [Pending EXCEPT ![c] = @ \cup {produced + 1}]
    BY <2>5, <2>6 DEF Pending
  <2> QED BY <1>1, <2>7 DEF Relay!Produce, Relay!Readers, Clients, Pending, On, Known
<1>3. CASE SendLost
  BY <1>1, <1>3 DEF SendLost, Relay!Produce, Known
<1> QED BY <1>2, <1>3

LEMMA HangsUp ==
    ASSUME NEW c \in Clients, Relay!LoseAll(c), UNCHANGED <<produced, Known>>
    PROVE  Relay!RelayNext
<1>1. Relay!HangUp(c)
  BY DEF Relay!HangUp, Known
<1> QED BY <1>1 DEF Relay!RelayNext, Relay!Readers, Clients

\* A call of an application, step by step.
LEMMA CallRelay ==
    ASSUME Inv, NEW a \in Apps, CallStep(a)
    PROVE  Relay!RelayNext \/ UNCHANGED Relay!relayVars
<1> USE DEF Clients
<1>a. /\ Link /\ ReaderType /\ ConnectedMeansReading /\ Ahead
      /\ stream \in [Clients -> Seq(Nat)] /\ a # Broker
  BY PoseAssumption DEF Inv, Readers, Link, LinkType
<1>b. \A c \in Clients : stream[c] # <<>> =>
          /\ Head(stream[c]) \in Pending[c]
          /\ Head(stream[c]) \in Nat /\ Held(c) \in Nat /\ Held(c) < Head(stream[c])
  <2> TAKE c \in Clients
  <2> HAVE stream[c] # <<>>
  <2>1. /\ 1 \in 1 .. Len(stream[c]) /\ Head(stream[c]) = stream[c][1]
        /\ DOMAIN stream[c] = 1 .. Len(stream[c]) /\ stream[c][1] \in Nat
    BY <1>a
  <2> QED BY <1>a, <2>1, HeldType DEF Ahead, Pending, On
<1>1. CASE UpdatePose(a)
  <2>1. UNCHANGED Known
    BY <1>1 DEF UpdatePose, Known
  <2>2. UNCHANGED <<serverVars, linkVars>> \/ Connect(Broker)
    BY <1>1 DEF UpdatePose
  <2>3. CASE UNCHANGED <<serverVars, linkVars>>
    BY <2>1, <2>3, RelaySame DEF serverVars, linkVars
  <2>4. CASE Connect(Broker)
    BY <1>a, <2>1, <2>4, ClosedAt, HangsUp
  <2> QED BY <2>2, <2>3, <2>4
<1>2. CASE BrokerReads(a)
  <2>0. PICK f : f = Head(stream[Broker])
    OBVIOUS
  <2>1. /\ TakeFrame(Broker) /\ stream[Broker] # <<>> /\ brokerPose' = f
        /\ UNCHANGED <<latest, fromBroker>>
    BY <1>2, <2>0 DEF BrokerReads, TakeFrame
  <2>2. Relay!Take(Broker, f) /\ produced' = produced
    BY <1>a, <2>0, <2>1, TakenAt
  <2>3. f > brokerPose /\ f \in Pending[Broker]
    BY <1>b, <2>0, <2>1 DEF Held
  <2>4. Relay!BrokerTakes(f)
    BY <2>1, <2>2, <2>3 DEF Relay!BrokerTakes
  <2> QED BY <2>3, <2>4 DEF Relay!RelayNext, Pending, On
<1>3. CASE BrokerGivesUp(a)
  <2>1. Close(Broker) /\ UNCHANGED Known
    BY <1>3 DEF BrokerGivesUp, brokerVars, Known
  <2> QED BY <1>a, <2>1, ClosedAt, HangsUp
<1>4. CASE TakeRow(a)
  <2>1. /\ UNCHANGED <<produced, stream, brokerPose>> /\ pc[a] = "row"
        /\ latest' = [latest EXCEPT ![a] = brokerPose]
        /\ fromBroker' = fromBroker \cup {a}
    BY <1>4 DEF TakeRow, serverVars, linkVars, brokerVars
  <2>2. stream[a] = <<>>
    BY <1>a, <2>1 DEF Link, QuietStreams, ConnectedMeansReading
  <2>3. Pending[a] = {}
    BY <2>2 DEF Pending, On
  <2>4. Relay!CopyRow(a)
    BY <2>1, <2>3 DEF Relay!CopyRow, Pending, On
  <2> QED BY <2>4 DEF Relay!RelayNext
<1>5. CASE EnsureConnected(a)
  <2>1. UNCHANGED Known
    BY <1>5 DEF EnsureConnected, Known, brokerVars
  <2>2. UNCHANGED <<serverVars, linkVars>> \/ Connect(a)
    BY <1>5 DEF EnsureConnected
  <2>3. CASE UNCHANGED <<serverVars, linkVars>>
    BY <2>1, <2>3, RelaySame DEF serverVars, linkVars
  <2>4. CASE Connect(a)
    BY <1>a, <2>1, <2>4, ClosedAt, HangsUp
  <2> QED BY <2>2, <2>3, <2>4
<1>6. CASE ReadFrame(a)
  <2>0. PICK f : f = Head(stream[a])
    OBVIOUS
  <2>1. /\ TakeFrame(a) /\ stream[a] # <<>> /\ UNCHANGED brokerPose
        /\ latest' = [latest EXCEPT ![a] = f] /\ fromBroker' = fromBroker \ {a}
    BY <1>6, <2>0 DEF ReadFrame, TakeFrame, brokerVars
  <2>2. Relay!Take(a, f) /\ produced' = produced
    BY <1>a, <2>0, <2>1, TakenAt
  <2>3. f > latest[a] /\ f \in Pending[a]
    BY <1>a, <1>b, <2>0, <2>1 DEF Held
  <2>4. Relay!AppTakes(a, f)
    BY <2>1, <2>2, <2>3 DEF Relay!AppTakes
  <2> QED BY <2>3, <2>4 DEF Relay!RelayNext, Pending, On
<1>7. CASE ReadEnd(a)
  <2>1. Close(a) /\ UNCHANGED Known
    BY <1>7 DEF ReadEnd, brokerVars, Known
  <2> QED BY <1>a, <2>1, ClosedAt, HangsUp
<1> QED BY <1>1, <1>2, <1>3, <1>4, <1>5, <1>6, <1>7 DEF CallStep

LEMMA NextRelay == Inv /\ [Next]_vars => [Relay!RelayNext]_(Relay!relayVars)
<1> SUFFICES ASSUME Inv, [Next]_vars
             PROVE  Relay!RelayNext \/ UNCHANGED Relay!relayVars
  OBVIOUS
<1>a. Link
  BY DEF Inv
<1>1. CASE StartServer \/ KillServer \/ Accept \/ SendFails \/ SecondPasses
  <2>1. UNCHANGED <<produced, stream, Known>>
    BY <1>1 DEF StartServer, KillServer, Accept, SendFails, SecondPasses, Known,
                serverVars, linkVars, brokerVars, appVars
  <2> QED BY <2>1, RelaySame
<1>2. CASE SendFrame \/ SendLost
  BY <1>a, <1>2, SentTo DEF Relay!RelayNext
<1>3. ASSUME NEW a \in Apps, Call(a) \/ QueryFails(a)
      PROVE  UNCHANGED Relay!relayVars
  <2>1. UNCHANGED <<produced, stream, Known>>
    BY <1>3 DEF Call, QueryFails, Known, serverVars, linkVars, brokerVars
  <2> QED BY <2>1, RelaySame
<1>4. ASSUME NEW a \in Apps, CallStep(a)
      PROVE  Relay!RelayNext \/ UNCHANGED Relay!relayVars
  BY <1>4, CallRelay
<1>5. ASSUME NEW a \in Apps, AppDies(a) PROVE Relay!RelayNext
  <2>1. Relay!LoseAll(a) /\ produced' = produced
    BY <1>a, <1>5, ClosedAt DEF AppDies, Clients
  <2>2. Relay!RestartApp(a)
    BY <1>5, <2>1 DEF AppDies, brokerVars, Relay!RestartApp
  <2> QED BY <2>2 DEF Relay!RelayNext
<1>6. CASE BrokerDies
  <2>1. Relay!LoseAll(Broker) /\ produced' = produced
    BY <1>a, <1>6, ClosedAt DEF BrokerDies, Clients
  <2>2. Relay!RestartBroker
    BY <1>6, <2>1 DEF BrokerDies, Relay!RestartBroker
  <2> QED BY <2>2 DEF Relay!RelayNext
<1>7. CASE UNCHANGED vars
  <2>1. UNCHANGED <<produced, stream, Known>>
    BY <1>7 DEF vars, serverVars, linkVars, brokerVars, appVars, Known
  <2> QED BY <2>1, RelaySame
<1> QED BY <1>1, <1>2, <1>3, <1>4, <1>5, <1>6, <1>7 DEF Next, ServerStep

\* Frames reach their readers as PoseRelay says, for any number of readers and
\* any limits, through restarts, lost connections and failed queries.
THEOREM RelayKept == Spec => ImplementsRelay
<1>1. Init => Relay!RelayInit
  BY DEF Init, Relay!RelayInit, Relay!Readers, Clients
<1> QED BY <1>1, NextRelay, Invariance, PTL
        DEF Spec, ImplementsRelay, Relay!RelaySpec
=============================================================================
