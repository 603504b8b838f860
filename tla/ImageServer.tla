----------------------------- MODULE ImageServer -----------------------------
(***************************************************************************)
(* TcpImageServer::serve_with_callback (protocol/image_transport.cpp), the *)
(* server of the host bridge that takes images over TCP: one client at a   *)
(* time, frame after frame, each a header that is checked and a payload of *)
(* the size the header tells, until the client goes away or a frame limit  *)
(* is reached.                                                             *)
(*                                                                         *)
(* A frame is written and received in parts, since recv returns what has   *)
(* arrived: HeaderParts of its header, then those of its payload.  The     *)
(* clients are external: each makes one connection, writes frames, good    *)
(* ones or not, and may close or die between any two parts.                *)
(***************************************************************************)
EXTENDS Naturals, Sequences

CONSTANTS Conns,        \* the connections clients make
          NoConn,       \* no client is served
          HeaderParts,  \* parts a header arrives in
          Sizes,        \* parts of a payload
          Backlog,      \* connections that wait; the 1 of listen
          MaxBuffered,  \* parts a connection holds
          MaxFrames,    \* maxFrames; 0 serves for ever
          MaxNo         \* bound: frames of one connection

ASSUME ImageServerAssumption == /\ HeaderParts \in Nat \ {0}
                                /\ Sizes \subseteq Nat
                                /\ Backlog \in Nat
                                /\ MaxBuffered \in Nat
                                /\ MaxFrames \in Nat
                                /\ MaxNo \in Nat

ASSUME NoConnAssumption == NoConn \notin Conns

\* What the checks of a header will say.
Kinds == {"good", "bad_header", "bad_size"}

Frames == [conn : Conns, no : 1 .. MaxNo, kind : Kinds, size : Sizes]

Length(f) == HeaderParts + f.size

Part(f, i) == [frame |-> f, at |-> i]

\* Stands for the last part before the first frame of a connection.
Start(c) == Part([conn |-> c, no |-> 0, kind |-> "good", size |-> 0], HeaderParts)

\* q may come after p on a connection.
Follows(p, q) ==
    \/ /\ p.at < Length(p.frame)
       /\ q = Part(p.frame, p.at + 1)
    \/ /\ p.at = Length(p.frame)
       /\ q.at = 1
       /\ q.frame.conn = p.frame.conn
       /\ q.frame.no = p.frame.no + 1

VARIABLES
    client,    \* the client's end: "idle", "open" or "closed"
    written,   \* the part each wrote last
    stream,    \* parts written to each and not read
    backlog,   \* connections that wait to be accepted
    pc,        \* the server: "accept", "receive", or what it "returned"
    conn,      \* client: the connection being served
    open,      \* the clients' sockets the server has open
    got,       \* the parts read of a frame: its header, its payload
    received,  \* receivedFrames
    stored,    \* history: what the callback was given
    read       \* history: the part read last from each connection

clientVars == <<client, written>>
vars == <<client, written, stream, backlog, pc, conn, open, got, received,
          stored, read>>

Init == /\ client = [c \in Conns |-> "idle"]
        /\ written = [c \in Conns |-> Start(c)]
        /\ stream = [c \in Conns |-> <<>>]
        /\ backlog = <<>>
        /\ pc = "accept"
        /\ conn = NoConn
        /\ open = {}
        /\ got = <<>>
        /\ received = 0
        /\ stored = <<>>
        /\ read = [c \in Conns |-> Start(c)]
----------------------------------------------------------------------------
(***************************************************************************)
(* The clients.                                                            *)
(***************************************************************************)
Waits(c) == \E i \in DOMAIN backlog : backlog[i] = c

Connect(c) == /\ client[c] = "idle"
              /\ pc # "returned"
              /\ Len(backlog) < Backlog
              /\ client' = [client EXCEPT ![c] = "open"]
              /\ backlog' = Append(backlog, c)
              /\ UNCHANGED <<written, stream, pc, conn, open, got, received,
                             stored, read>>

\* The next part of a frame, or the first of the next frame.
Write(c) == /\ client[c] = "open"
            /\ Waits(c) \/ c \in open
            /\ Len(stream[c]) < MaxBuffered
            /\ \E f \in Frames \cup {written[c].frame}, i \in {1, written[c].at + 1} :
                  /\ Follows(written[c], Part(f, i))
                  /\ written' = [written EXCEPT ![c] = Part(f, i)]
                  /\ stream' = [stream EXCEPT ![c] = Append(@, Part(f, i))]
            /\ UNCHANGED <<client, backlog, pc, conn, open, got, received,
                           stored, read>>

Close(c) == /\ client[c] = "open"
            /\ client' = [client EXCEPT ![c] = "closed"]
            /\ UNCHANGED <<written, stream, backlog, pc, conn, open, got,
                           received, stored, read>>
----------------------------------------------------------------------------
(***************************************************************************)
(* The server.                                                             *)
(***************************************************************************)
ServerStep == UNCHANGED clientVars

Accept == /\ pc = "accept"
          /\ backlog # <<>>
          /\ conn' = Head(backlog)
          /\ open' = open \cup {Head(backlog)}
          /\ backlog' = Tail(backlog)
          /\ pc' = "receive"
          /\ got' = <<>>
          /\ ServerStep
          /\ UNCHANGED <<stream, received, stored, read>>

\* The listening socket is closed, and those who wait are refused.
Return == /\ pc' = "returned"
          /\ backlog' = <<>>

AcceptFails == /\ pc = "accept"
               /\ Return
               /\ ServerStep
               /\ UNCHANGED <<stream, conn, open, got, received, stored, read>>

Header == got[1].frame

HeaderRead == Len(got) >= HeaderParts

FrameRead == HeaderRead /\ Len(got) = Length(Header)

\* recv_all waits for more: of the header, or of a payload that was accepted.
Receiving == /\ pc = "receive"
             /\ HeaderRead => Header.kind = "good" /\ ~FrameRead

Receive == /\ Receiving
           /\ stream[conn] # <<>>
           /\ got' = Append(got, Head(stream[conn]))
           /\ read' = [read EXCEPT ![conn] = Head(stream[conn])]
           /\ stream' = [stream EXCEPT ![conn] = Tail(@)]
           /\ ServerStep
           /\ UNCHANGED <<backlog, pc, conn, open, received, stored>>

\* close_socket and break, back to accept; what was not read is lost.
Drop == /\ open' = open \ {conn}
        /\ stream' = [stream EXCEPT ![conn] = <<>>]
        /\ conn' = NoConn
        /\ got' = <<>>
        /\ pc' = "accept"
        /\ UNCHANGED <<backlog, received, stored, read>>

\* Slip: the end of the stream is taken for data still to come.
DisconnectedWaits == /\ Receiving
                     /\ stream[conn] = <<>>
                     /\ client[conn] = "closed"
                     /\ UNCHANGED vars

\* The client is gone, before a frame, inside a header or inside a payload.
Disconnected == /\ Receiving
                /\ stream[conn] = <<>>
                /\ client[conn] = "closed"
                /\ Drop
                /\ ServerStep

\* recv fails, with data unread or a client that is still there.
ReceiveFails == /\ Receiving
                /\ Drop
                /\ ServerStep

\* Slip: the client is kept, and what follows is read as the next header.
RejectedKeepsClient == /\ pc = "receive"
                       /\ HeaderRead
                       /\ Header.kind # "good"
                       /\ got' = <<>>
                       /\ ServerStep
                       /\ UNCHANGED <<stream, backlog, pc, conn, open, received,
                                      stored, read>>

\* Slip: break without close_socket.
RejectedLeaving == /\ pc = "receive"
                   /\ HeaderRead
                   /\ Header.kind # "good"
                   /\ conn' = NoConn
                   /\ got' = <<>>
                   /\ pc' = "accept"
                   /\ ServerStep
                   /\ UNCHANGED <<stream, backlog, open, received, stored, read>>

\* An invalid header, or a payload size that does not go with it.
Rejected == /\ pc = "receive"
            /\ HeaderRead
            /\ Header.kind # "good"
            /\ Drop
            /\ ServerStep

\* Slip: the limit is compared before the frame is counted.
HandOverOneMore == /\ pc = "receive"
                   /\ FrameRead
                   /\ Header.kind = "good"
                   /\ stored' = Append(stored, got)
                   /\ got' = <<>>
                   /\ received' = received + 1
                   /\ IF MaxFrames # 0 /\ received = MaxFrames
                      THEN Return
                      ELSE UNCHANGED <<pc, backlog>>
                   /\ ServerStep
                   /\ UNCHANGED <<stream, conn, open, read>>

\* The callback gets the frame.  At the limit both loops end, and the client's
\* socket stays open.
HandOver == /\ pc = "receive"
            /\ FrameRead
            /\ Header.kind = "good"
            /\ stored' = Append(stored, got)
            /\ got' = <<>>
            /\ received' = received + 1
            /\ IF received + 1 = MaxFrames
               THEN Return
               ELSE UNCHANGED <<pc, backlog>>
            /\ ServerStep
            /\ UNCHANGED <<stream, conn, open, read>>

Server == Accept \/ Receive \/ Disconnected \/ Rejected \/ HandOver

Next == \/ \E c \in Conns : Connect(c) \/ Write(c) \/ Close(c)
        \/ Server
        \/ AcceptFails
        \/ ReceiveFails

\* The server's thread goes on unless recv or accept has to wait; no client
\* has to connect, to write or to close, and no call has to fail.
Spec == Init /\ [][Next]_vars /\ WF_vars(Server)
----------------------------------------------------------------------------
(***************************************************************************)
(* Properties.                                                             *)
(***************************************************************************)
Starts == {Start(c) : c \in Conns}

Parts == [frame : Frames, at : Nat]

\* The types of the variables, and the limits of frames and connections.
TypeOK == /\ client \in [Conns -> {"idle", "open", "closed"}]
          /\ written \in [Conns -> Parts \cup Starts]
          /\ stream \in [Conns -> Seq(Parts)]
          /\ \A c \in Conns : Len(stream[c]) <= MaxBuffered
          /\ backlog \in Seq(Conns) /\ Len(backlog) <= Backlog
          /\ pc \in {"accept", "receive", "returned"}
          /\ conn \in Conns \cup {NoConn}
          /\ open \subseteq Conns
          /\ got \in Seq(Parts)
          /\ received \in Nat /\ (MaxFrames # 0 => received <= MaxFrames)
          /\ stored \in Seq(Seq(Parts))
          /\ read \in [Conns -> Parts \cup Starts]

\* What the callback is given is one valid frame of one client, whole and in
\* order, and the frames of a client come without a gap: nothing a client left
\* behind half written is taken for a part of another's frame.
FramesWhole ==
    \A k \in DOMAIN stored :
        LET f == stored[k][1].frame
        IN  /\ f.kind = "good"
            /\ stored[k] = [i \in 1 .. Length(f) |-> Part(f, i)]
            /\ f.no > 1 => \E j \in 1 .. k - 1 :
                              /\ stored[j][1].frame.conn = f.conn
                              /\ stored[j][1].frame.no = f.no - 1

\* On every way out of the loop but the frame limit the client's socket is
\* closed: no socket is open but that of the client being served.
OnlyServedIsOpen == open \subseteq {conn}

\* p is the last part of its frame.
LastPart(p) == p.at = Length(p.frame)

\* Frames a client has written to their end, good or not.
Completed(c) == IF LastPart(written[c]) THEN written[c].frame.no
                                        ELSE written[c].frame.no - 1

\* Frames of a client that were handed over: all up to the part read last, but
\* not the frame whose parts the server still has, or gave up.
Taken(c) == IF /\ LastPart(read[c])
               /\ read[c].frame.kind = "good"
               /\ c = conn => got = <<>>
            THEN read[c].frame.no
            ELSE read[c].frame.no - 1

Place(c) == IF c = conn THEN "served"
            ELSE IF client[c] = "idle" THEN "outside"
            ELSE IF Waits(c) THEN "waiting"
            ELSE "gone"

Intake == INSTANCE FrameIntake WITH
              Limit     <- MaxFrames,
              place     <- [c \in Conns |-> Place(c)],
              completed <- [c \in Conns |-> Completed(c)],
              taken     <- [c \in Conns |-> Taken(c)],
              handed    <- [k \in DOMAIN stored |->
                               [conn |-> stored[k][1].frame.conn,
                                no   |-> stored[k][1].frame.no]]

\* The server implements the contract of an intake of frames: what a client
\* completes is handed over in its order, no frame twice and none left out,
\* as long as the client is served, and never more than the limit.
ImplementsIntake == Intake!IntakeSpec

\* A client that waits is accepted, or refused when the server returns,
\* provided that no client stays for ever.
WaitingServed ==
    (\A c \in Conns : []<>(client[c] # "open"))
        => \A c \in Conns : Waits(c) ~> ~Waits(c)
=============================================================================
