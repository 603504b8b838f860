---------------------------- MODULE ImagePipeline ----------------------------
(***************************************************************************)
(* The way of an application's frame out of the container: the image       *)
(* client of the runtime (ImageTransportClient of                          *)
(* android-runtime/session.cpp) writes it to a local socket, ImageProxy of *)
(* the runtime APK, with one thread per connection, reads it and sends it  *)
(* as UDP datagrams.                                                       *)
(*                                                                         *)
(* A frame is written and read in pieces: its header, then its payload,    *)
(* one piece per datagram.  Either end may go away between two pieces.     *)
(***************************************************************************)
EXTENDS Naturals, Sequences

CONSTANTS Sizes,        \* pieces of a payload
          NoFrame,      \* no frame is being sent, or was read yet
          MaxBuffered,  \* pieces a connection holds before send blocks
          MaxRuns,      \* bound: instances the application creates
          MaxSeq,       \* bound: largest number of a frame
          MaxConns,     \* bound: connections made
          MaxFailures   \* bound: calls that fail, and processes that die

ASSUME PipelineAssumption ==
    /\ Sizes \subseteq Nat \ {0}
    /\ MaxBuffered \in Nat \ {0}
    /\ MaxRuns \in Nat \ {0}
    /\ MaxSeq \in Nat
    /\ MaxConns \in Nat
    /\ MaxFailures \in Nat

Frames == [run : 1 .. MaxRuns, seq : 0 .. MaxSeq, size : Sizes]

ASSUME NoFrameAssumption == NoFrame \notin Frames

Conns == 1 .. MaxConns

\* What is written and read: part 0 of a frame is its header.
Piece(f, k) == [frame |-> f, part |-> k]

VARIABLES
    run,         \* the application's instances
    sequence,    \* g_imageFrameSequence
    sock,        \* socket_: the client's connection, or 0
    recent,      \* lastConnectAttemptNs_ is less than two seconds ago
    sending,     \* the frame send_frame is writing, or NoFrame
    written,     \* its pieces written
    conns,       \* connections made so far
    stream,      \* pieces written to each and not read
    writing,     \* the client has each open
    proxy,       \* the proxy: "down", "up" or, serve having ended, "deaf"
    thread,      \* what the thread of each connection is doing
    header,      \* its header: the frame read last
    payload,     \* its payload: the pieces read
    host,        \* its frameHost: "none", "open" or "closed"
    offset,      \* its datagrams of the frame sent
    last,        \* history: the frame each sent completely before
    failures     \* history: calls that failed, processes that died

clientVars == <<run, sequence, sock, recent, sending, written>>
threadVars == <<thread, header, payload, host, offset, last>>
vars == <<run, sequence, sock, recent, sending, written, conns, stream,
          writing, proxy, thread, header, payload, host, offset, last,
          failures>>

Init == /\ run = 1
        /\ sequence = 0
        /\ sock = 0
        /\ recent = FALSE
        /\ sending = NoFrame
        /\ written = 0
        /\ conns = 0
        /\ stream = [c \in Conns |-> <<>>]
        /\ writing = [c \in Conns |-> FALSE]
        /\ proxy = "down"
        /\ thread = [c \in Conns |-> "none"]
        /\ header = [c \in Conns |-> NoFrame]
        /\ payload = [c \in Conns |-> <<>>]
        /\ host = [c \in Conns |-> "none"]
        /\ offset = [c \in Conns |-> 0]
        /\ last = [c \in Conns |-> NoFrame]
        /\ failures = 0

Fail == /\ failures < MaxFailures
        /\ failures' = failures + 1
----------------------------------------------------------------------------
(***************************************************************************)
(* The client.  maybe_send_swapchain_image numbers a frame and calls       *)
(* send_frame, which writes it, or gives it up.                            *)
(***************************************************************************)
StartFrame == /\ sequence <= MaxSeq
              /\ sending = NoFrame
              /\ sequence' = sequence + 1

WriteNext == \E n \in Sizes :
                 /\ sending' = [run |-> run, seq |-> sequence, size |-> n]
                 /\ written' = 0

SendConnected == /\ StartFrame
                 /\ sock # 0
                 /\ WriteNext
                 /\ UNCHANGED <<run, sock, recent, conns, stream, writing,
                                proxy, threadVars, failures>>

\* A connection waits to be accepted as soon as it is made.
SendConnecting == /\ StartFrame
                  /\ sock = 0
                  /\ ~recent
                  /\ recent' = TRUE
                  /\ proxy = "up"
                  /\ conns < MaxConns
                  /\ conns' = conns + 1
                  /\ sock' = conns'
                  /\ writing' = [writing EXCEPT ![conns'] = TRUE]
                  /\ thread' = [thread EXCEPT ![conns'] = "queued"]
                  /\ WriteNext
                  /\ UNCHANGED <<run, stream, proxy, header, payload, host,
                                 offset, last, failures>>

\* The frame is too large, or cannot be read back, whatever the connection; or
\* there is none and no attempt is made, or it fails.
SendSkipped == /\ StartFrame
               /\ \/ UNCHANGED <<recent, failures>>
                  \/ /\ sock = 0
                     /\ \/ recent /\ UNCHANGED failures
                        \/ proxy # "up" /\ UNCHANGED failures
                        \/ Fail
                     /\ recent' = TRUE
               /\ UNCHANGED <<run, sock, sending, written, conns, stream,
                              writing, proxy, threadVars>>

\* A piece is written; after the last one send_frame returns true.
SendPiece == /\ sending # NoFrame
             /\ thread[sock] # "ended"
             /\ Len(stream[sock]) < MaxBuffered
             /\ stream' = [stream EXCEPT ![sock] =
                               Append(@, Piece(sending, written))]
             /\ \/ /\ written < sending.size
                   /\ written' = written + 1
                   /\ UNCHANGED sending
                \/ /\ written = sending.size
                   /\ written' = 0
                   /\ sending' = NoFrame
             /\ UNCHANGED <<run, sequence, sock, recent, conns, writing,
                            proxy, threadVars, failures>>

CloseSocket == /\ writing' = [writing EXCEPT ![sock] = FALSE]
               /\ sock' = 0

\* Slip: a frame that could not be sent gives its number back.
SendFailsRenumbering == /\ sending # NoFrame
                        /\ \/ thread[sock] = "ended" /\ UNCHANGED failures
                           \/ Fail
                        /\ CloseSocket
                        /\ sequence' = sending.seq
                        /\ sending' = NoFrame
                        /\ written' = 0
                        /\ UNCHANGED <<run, recent, conns, stream, proxy,
                                       threadVars>>

\* send fails: the proxy has closed the connection, or a signal came.
SendFails == /\ sending # NoFrame
             /\ \/ thread[sock] = "ended" /\ UNCHANGED failures
                \/ Fail
             /\ CloseSocket
             /\ sending' = NoFrame
             /\ written' = 0
             /\ UNCHANGED <<run, sequence, recent, conns, stream, proxy,
                            threadVars>>

TwoSecondsPass == /\ recent
                  /\ recent' = FALSE
                  /\ UNCHANGED <<run, sequence, sock, sending, written, conns,
                                 stream, writing, proxy, threadVars, failures>>

\* The numbers start again; the client and its connection stay.
NewInstance == /\ sending = NoFrame
               /\ run < MaxRuns
               /\ run' = run + 1
               /\ sequence' = 0
               /\ UNCHANGED <<sock, recent, sending, written, conns, stream,
                              writing, proxy, threadVars, failures>>

\* The application's process ends, perhaps inside send_frame, and starts.
AppDies == /\ Fail
           /\ run < MaxRuns
           /\ run' = run + 1
           /\ sequence' = 0
           /\ recent' = FALSE
           /\ sending' = NoFrame
           /\ written' = 0
           /\ sock' = 0
           /\ writing' = [c \in Conns |-> FALSE]
           /\ UNCHANGED <<conns, stream, proxy, threadVars>>
----------------------------------------------------------------------------
(***************************************************************************)
(* The proxy.  serve accepts connections, each gets a thread that runs     *)
(* forwardClient.                                                          *)
(***************************************************************************)
ProxyStep == UNCHANGED <<clientVars, conns, writing, proxy>>

Accept(c) == /\ proxy = "up"
             /\ thread[c] = "queued"
             /\ \A d \in 1 .. c - 1 : thread[d] # "queued"
             /\ thread' = [thread EXCEPT ![c] = "header"]
             /\ ProxyStep
             /\ UNCHANGED <<stream, header, payload, host, offset, last,
                            failures>>

\* The thread returns: its socket is closed and what was not read is lost.
Return(c) == /\ thread' = [thread EXCEPT ![c] = "ended"]
             /\ stream' = [stream EXCEPT ![c] = <<>>]

CloseHost(c) == host' = [host EXCEPT ![c] = "closed"]

ReadHeader(c) ==
    /\ thread[c] = "header"
    /\ stream[c] # <<>>
    /\ header' = [header EXCEPT ![c] = Head(stream[c]).frame]
    /\ stream' = [stream EXCEPT ![c] = Tail(@)]
    /\ payload' = [payload EXCEPT ![c] = <<>>]
    /\ \/ /\ host[c] = "open"
          /\ thread' = [thread EXCEPT ![c] = "payload"]
          /\ UNCHANGED <<host, failures>>
       \/ /\ host[c] = "none"
          /\ host' = [host EXCEPT ![c] = "open"]
          /\ thread' = [thread EXCEPT ![c] = "payload"]
          /\ UNCHANGED failures
       \/ /\ host[c] = "none"
          /\ Fail
          /\ thread' = [thread EXCEPT ![c] = "drain"]
          /\ UNCHANGED host
    /\ ProxyStep
    /\ UNCHANGED <<offset, last>>

\* The client has closed the connection between two frames: the thread
\* returns, and its frameHost stays open.
HeaderEnds(c) == /\ thread[c] = "header"
                 /\ stream[c] = <<>>
                 /\ ~writing[c]
                 /\ Return(c)
                 /\ ProxyStep
                 /\ UNCHANGED <<header, payload, host, offset, last, failures>>

\* Slip: one piece too many is waited for.
ReadAllLate(c) == Len(payload[c]) = header[c].size

ReadAll(c) == Len(payload[c]) + 1 = header[c].size

ReadPiece(c) ==
    /\ thread[c] = "payload"
    /\ stream[c] # <<>>
    /\ payload' = [payload EXCEPT ![c] = Append(@, Head(stream[c]))]
    /\ stream' = [stream EXCEPT ![c] = Tail(@)]
    /\ \/ /\ ReadAll(c)
          /\ thread' = [thread EXCEPT ![c] = "datagrams"]
          /\ offset' = [offset EXCEPT ![c] = 0]
       \/ ~ReadAll(c) /\ UNCHANGED <<thread, offset>>
    /\ ProxyStep
    /\ UNCHANGED <<header, host, last, failures>>

PayloadEnds(c) == /\ thread[c] = "payload"
                  /\ stream[c] = <<>>
                  /\ ~writing[c]
                  /\ Return(c)
                  /\ CloseHost(c)
                  /\ ProxyStep
                  /\ UNCHANGED <<header, payload, offset, last, failures>>

\* Slip: the payload of a frame that goes nowhere is left in the stream.
DrainNothing(c) == /\ thread[c] = "drain"
                   /\ thread' = [thread EXCEPT ![c] = "header"]
                   /\ ProxyStep
                   /\ UNCHANGED <<stream, header, payload, host, offset, last,
                                  failures>>

\* Without a host the payload is read and thrown away; payload counts it.
Drain(c) ==
    /\ thread[c] = "drain"
    /\ stream[c] # <<>>
    /\ payload' = [payload EXCEPT ![c] = Append(@, Head(stream[c]))]
    /\ stream' = [stream EXCEPT ![c] = Tail(@)]
    /\ \/ ReadAll(c) /\ thread' = [thread EXCEPT ![c] = "header"]
       \/ ~ReadAll(c) /\ UNCHANGED thread
    /\ ProxyStep
    /\ UNCHANGED <<header, host, offset, last, failures>>

\* drain returns as usual, and the next header is not there to be read.
DrainEnds(c) == /\ thread[c] = "drain"
                /\ stream[c] = <<>>
                /\ ~writing[c]
                /\ thread' = [thread EXCEPT ![c] = "header"]
                /\ ProxyStep
                /\ UNCHANGED <<stream, header, payload, host, offset, last,
                               failures>>

SendDatagram(c) ==
    /\ thread[c] = "datagrams"
    /\ offset[c] < Len(payload[c])
    /\ offset' = [offset EXCEPT ![c] = @ + 1]
    /\ ProxyStep
    /\ UNCHANGED <<stream, thread, header, payload, host, last, failures>>

FrameSent(c) == /\ thread[c] = "datagrams"
                /\ offset[c] = Len(payload[c])
                /\ last' = [last EXCEPT ![c] = header[c]]
                /\ thread' = [thread EXCEPT ![c] = "header"]
                /\ ProxyStep
                /\ UNCHANGED <<stream, header, payload, host, offset, failures>>

DatagramFails(c) == /\ thread[c] = "datagrams"
                    /\ offset[c] < Len(payload[c])
                    /\ Fail
                    /\ Return(c)
                    /\ CloseHost(c)
                    /\ ProxyStep
                    /\ UNCHANGED <<header, payload, offset, last>>

\* The provider's process starts and calls ensureStarted in onCreate.
ProxyStarts == /\ proxy = "down"
               /\ proxy' = "up"
               /\ UNCHANGED <<clientVars, conns, stream, writing, threadVars,
                              failures>>

\* Slip: the connections that wait are left open.
ServeEndsLeaking == /\ proxy = "up"
                    /\ Fail
                    /\ proxy' = "deaf"
                    /\ UNCHANGED <<clientVars, conns, stream, writing,
                                   threadVars>>

\* accept fails: the server socket is closed, with the connections that
\* wait on it.  STARTED is taken back, but only onCreate calls ensureStarted.
ServeEnds == /\ proxy = "up"
             /\ Fail
             /\ proxy' = "deaf"
             /\ thread' = [c \in Conns |-> IF thread[c] = "queued" THEN "ended"
                                                                ELSE thread[c]]
             /\ stream' = [c \in Conns |-> IF thread[c] = "queued" THEN <<>>
                                                                ELSE stream[c]]
             /\ UNCHANGED <<clientVars, conns, writing, header, payload, host,
                            offset, last>>

ProxyDies == /\ proxy # "down"
             /\ Fail
             /\ proxy' = "down"
             /\ thread' = [c \in Conns |-> IF c <= conns THEN "ended"
                                                         ELSE "none"]
             /\ stream' = [c \in Conns |-> <<>>]
             /\ host' = [c \in Conns |-> IF c <= conns THEN "closed"
                                                      ELSE "none"]
             /\ UNCHANGED <<clientVars, conns, writing, header, payload,
                            offset, last>>
----------------------------------------------------------------------------
Client == \/ SendConnected \/ SendConnecting \/ SendSkipped
          \/ SendPiece \/ SendFails

\* A send that blocks, or was begun, comes to its end.
Sending == SendPiece \/ (sending # NoFrame /\ thread[sock] = "ended" /\ SendFails)

Thread(c) == \/ Accept(c)
             \/ ReadHeader(c) \/ HeaderEnds(c)
             \/ ReadPiece(c) \/ PayloadEnds(c)
             \/ Drain(c) \/ DrainEnds(c)
             \/ SendDatagram(c) \/ FrameSent(c)

Next == \/ Client \/ TwoSecondsPass \/ NewInstance \/ AppDies
        \/ \E c \in Conns : Thread(c) \/ DatagramFails(c)
        \/ ProxyStarts \/ ServeEnds \/ ProxyDies

\* A thread of the proxy goes on unless it waits for the client, and a call
\* of send unless the connection is full.
Spec == /\ Init
        /\ [][Next]_vars
        /\ WF_vars(Sending)
        /\ \A c \in Conns : WF_vars(Thread(c))
----------------------------------------------------------------------------
ThreadStates == {"none", "queued", "header", "payload", "drain", "datagrams",
                 "ended"}

Pieces == [frame : Frames, part : Nat]

\* The types of the variables; no connection holds more than it can, and no
\* payload is longer than its header says.
TypeOK == /\ run \in 1 .. MaxRuns
          /\ sequence \in 0 .. MaxSeq + 1
          /\ conns \in 0 .. MaxConns
          /\ sock \in 0 .. conns
          /\ recent \in BOOLEAN
          /\ sending \in Frames \cup {NoFrame}
          /\ written \in Nat
          /\ stream \in [Conns -> Seq(Pieces)] /\ payload \in [Conns -> Seq(Pieces)]
          /\ \A c \in Conns : Len(stream[c]) <= MaxBuffered
          /\ writing \in [Conns -> BOOLEAN]
          /\ proxy \in {"down", "up", "deaf"}
          /\ thread \in [Conns -> ThreadStates]
          /\ header \in [Conns -> Frames \cup {NoFrame}]
          /\ host \in [Conns -> {"none", "open", "closed"}]
          /\ \A c \in Conns : header[c] # NoFrame =>
                              Len(payload[c]) <= header[c].size
          /\ offset \in [Conns -> Nat]
          /\ last \in [Conns -> Frames \cup {NoFrame}]
          /\ failures \in 0 .. MaxFailures

\* f was numbered after g.
Newer(f, g) == f.run > g.run \/ (f.run = g.run /\ f.seq > g.seq)

\* The stream never gets out of step: where the thread reads a header, the
\* client has written one, and the payload it reads goes on where it is,
\* whatever was given up in the middle of a frame before.
StreamInStep ==
    \A c \in Conns : stream[c] # <<>> =>
        /\ thread[c] = "header" => Head(stream[c]).part = 0
        /\ thread[c] \in {"payload", "drain"} =>
              Head(stream[c]) = Piece(header[c], Len(payload[c]) + 1)

\* What is sent as datagrams is one whole frame, with its own header.
ForwardedWhole ==
    \A c \in Conns : thread[c] = "datagrams" =>
        payload[c] = [k \in 1 .. header[c].size |-> Piece(header[c], k)]

\* The frames of one connection go out in the order of their numbers, and each
\* connection carries frames newer than all those of the connections before it,
\* so that a frame that was given up is never sent a second time.  Which of two
\* threads sends first is left open.
SentInOrder ==
    \A c, d \in Conns :
        /\ thread[c] = "datagrams" /\ last[c] # NoFrame => Newer(header[c], last[c])
        /\ c < d /\ header[c] # NoFrame /\ header[d] # NoFrame
              => Newer(header[d], header[c])

\* The frames on their way over c: those whose header is written and not read,
\* the one the thread reads or sends, and the one the client begins to write.
OnTheWay(c) ==
    {f \in Frames :
        /\ thread[c] # "ended"
        /\ \/ \E i \in DOMAIN stream[c] : stream[c][i] = Piece(f, 0)
           \/ thread[c] \in {"payload", "datagrams"} /\ header[c] = f
           \/ sock = c /\ sending = f /\ written = 0}

Relay == INSTANCE ImageRelay WITH
             next    <- sequence,
             pending <- [c \in Conns |-> OnTheWay(c)],
             left    <- last

\* Frames leave the container as ImageRelay says: each once, oldest first, and
\* none is missing but those given up, those without a host and those of a
\* lost connection.
ImplementsRelay == Relay!RelaySpec

\* send_frame returns: the proxy reads on or closes the connection, also
\* when it has no host to send to, stops accepting or dies.
SendReturns == (sending # NoFrame) ~> (sending = NoFrame)

\* A frame whose last piece was written is sent as datagrams, unless the
\* connection's thread ends or has no socket to send with.
WrittenIsSent ==
    \A f \in Frames, c \in Conns :
        (\E k \in DOMAIN stream[c] : stream[c][k] = Piece(f, f.size))
            ~> (last[c] = f \/ thread[c] \in {"ended", "drain"})
=============================================================================
