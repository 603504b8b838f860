---------------------------- MODULE GpuTransport ----------------------------
(***************************************************************************)
(* The transport of GPU frames of protocol/gpu_transport.cpp: a sender     *)
(* connects to a Unix socket, sends one descriptor with the dma-buf file   *)
(* descriptors of its planes (SCM_RIGHTS) and closes; UnixFdFrameServer    *)
(* serves one connection at a time, owns what it receives through UniqueFd *)
(* and hands valid frames to a callback.                                   *)
(*                                                                         *)
(* A file descriptor is a number of the server's process; the kernel gives *)
(* a number out again once it is closed, so closing one twice would close  *)
(* what somebody else has opened since.  The process has another thread,   *)
(* as in tests/gpu_transport_smoke.cpp, which opens and closes files.      *)
(***************************************************************************)
EXTENDS Naturals, Sequences, FiniteSets

CONSTANTS Senders,     \* each calls send_gpu_frame_descriptor once
          NoSender,    \* a file that is not of a sender
          NumFds,      \* numbers of the server's process
          MaxPlanes,   \* kMaxGpuFramePlanes
          Backlog,     \* connections that wait; the 1 of listen
          MaxFrames    \* max_frames; 0 serves for ever

ASSUME GpuAssumption == /\ NumFds \in Nat \ {0}
                        /\ MaxPlanes \in Nat \ {0}
                        /\ Backlog \in Nat
                        /\ MaxFrames \in Nat

ASSUME NoSenderAssumption == NoSender \notin Senders

Fds == 1 .. NumFds
NoFd == 0                            \* the -1 of a UniqueFd that owns nothing
Planes == 1 .. MaxPlanes

\* What a number of the process names.
Files == [kind : {"free", "listener", "connection", "buffer", "other"},
          of : Senders \cup {NoSender}, plane : 0 .. MaxPlanes]

File(kind) == [kind |-> kind, of |-> NoSender, plane |-> 0]
Connection(s) == [kind |-> "connection", of |-> s, plane |-> 0]
Buffer(s, i) == [kind |-> "buffer", of |-> s, plane |-> i]

\* A descriptor: the file descriptors sent with it, the fd_count it tells, and
\* whether its other fields are valid, or it is cut short.
Messages == [count : Planes, claimed : Planes, kind : {"valid", "invalid", "short"}]

VARIABLES
    sender,     \* "idle", "connected", "sent" or "gone" without having sent
    message,    \* history: what each sent
    queue,      \* the senders whose message is still to be read
    backlog,    \* connections that wait to be accepted
    broken,     \* history: the senders on whose connection recvmsg failed
    table,      \* the file each number of the process names
    pc,         \* the place of the server in its loops
    serverFd,   \* server_fd
    clientFd,   \* client_fd
    raw,        \* raw_fds of the control message, from the next one on
    fds,        \* the vector of UniqueFd
    frames,     \* frames
    abandoned,  \* history: numbers received with a short descriptor
    shown       \* history: frames given to the callback

senderVars == <<sender, message>>
linkVars   == <<queue, backlog, broken>>
vars == <<senderVars, linkVars, table, pc, serverFd, clientFd, raw, fds, frames,
          abandoned, shown>>

\* The server has its socket bound and listening.
Init == /\ sender = [s \in Senders |-> "idle"]
        /\ message = [s \in Senders |-> [count |-> 1, claimed |-> 1, kind |-> "valid"]]
        /\ queue = {}
        /\ backlog = <<>>
        /\ broken = {}
        /\ table = [n \in Fds |-> IF n = 1 THEN File("listener") ELSE File("free")]
        /\ pc = "accept"
        /\ serverFd = 1
        /\ clientFd = NoFd
        /\ raw = <<>>
        /\ fds = <<>>
        /\ frames = 0
        /\ abandoned = {}
        /\ shown = {}

Free == {n \in Fds : table[n].kind = "free"}

Closed(numbers) == [n \in Fds |-> IF n \in numbers THEN File("free") ELSE table[n]]

Numbers(v) == {v[i] : i \in DOMAIN v}
----------------------------------------------------------------------------
(***************************************************************************)
(* UniqueFd.  A vector that grows moves its elements: the new ones take    *)
(* the numbers, and the old ones, destroyed, close what is left to them.   *)
(***************************************************************************)
\* Slip: the moved-from element keeps its number.
MovedFromKeeping(v) == v

MovedFrom(v) == [i \in DOMAIN v |-> NoFd]
----------------------------------------------------------------------------
(***************************************************************************)
(* The senders, and the other thread of the server's process.              *)
(***************************************************************************)
ServerIdle == UNCHANGED <<table, pc, serverFd, clientFd, raw, fds, frames,
                          abandoned, shown>>

Connect(s) == /\ sender[s] = "idle"
              /\ serverFd # NoFd
              /\ Len(backlog) < Backlog
              /\ sender' = [sender EXCEPT ![s] = "connected"]
              /\ backlog' = Append(backlog, s)
              /\ ServerIdle
              /\ UNCHANGED <<message, queue, broken>>

\* The connection of s: accepted or not, it is not closed by the server.
Linked(s) == \/ \E i \in DOMAIN backlog : backlog[i] = s
             \/ clientFd # NoFd /\ table[clientFd].of = s

\* sendmsg, and the socket closed on return; a buffer stays open through the
\* message whatever the sender does with its own descriptor.
SendDescriptor(s, m) ==
    /\ sender[s] = "connected"
    /\ Linked(s)
    /\ sender' = [sender EXCEPT ![s] = "sent"]
    /\ message' = [message EXCEPT ![s] = m]
    /\ queue' = queue \cup {s}
    /\ ServerIdle
    /\ UNCHANGED <<backlog, broken>>

\* sendmsg fails, or the sender's process ends before it.
SendFails(s) == /\ sender[s] = "connected"
                /\ sender' = [sender EXCEPT ![s] = "gone"]
                /\ ServerIdle
                /\ UNCHANGED <<message, linkVars>>

OtherThread == /\ \/ \E n \in Free : table' = [table EXCEPT ![n] = File("other")]
                  \/ \E n \in Fds : /\ table[n].kind = "other"
                                    /\ table' = Closed({n})
               /\ UNCHANGED <<senderVars, linkVars, pc, serverFd, clientFd, raw,
                              fds, frames, abandoned, shown>>
----------------------------------------------------------------------------
(***************************************************************************)
(* UnixFdFrameServer::serve.  pc is "accept", "receive" before recvmsg,    *)
(* "own" in the loop over the control message, "callback", "close" before  *)
(* client_fd goes, or "returned".                                          *)
(***************************************************************************)
LimitReached == MaxFrames # 0 /\ frames >= MaxFrames

\* Without a free number accept fails, and is called again.
Accept == /\ pc = "accept"
          /\ ~LimitReached
          /\ backlog # <<>>
          /\ \E n \in Free : /\ clientFd' = n
                             /\ table' = [table EXCEPT ![n] = Connection(Head(backlog))]
          /\ backlog' = Tail(backlog)
          /\ pc' = "receive"
          /\ UNCHANGED <<senderVars, queue, broken, serverFd, raw, fds, frames,
                         abandoned, shown>>

Peer == table[clientFd].of

\* The numbers the kernel gives to the file descriptors of a message: one for
\* each, or as many as it has.
Installs(count, v) == /\ Len(v) <= count
                      /\ Numbers(v) \subseteq Free
                      /\ \A i, j \in DOMAIN v : v[i] = v[j] => i = j
                      /\ Len(v) = count \/ Numbers(v) = Free

Installed(v) ==
    [n \in Fds |-> IF n \in Numbers(v)
                   THEN Buffer(Peer, CHOOSE i \in DOMAIN v : v[i] = n)
                   ELSE table[n]]

Candidates == UNION {[1 .. k -> Free] : k \in 0 .. MaxPlanes}

\* A short descriptor makes recv_descriptor_with_fds return before it looks at
\* the control message: the numbers are in the table, and nobody owns them.
Receive ==
    /\ pc = "receive"
    /\ Peer \in queue
    /\ queue' = queue \ {Peer}
    /\ \E v \in Candidates :
          /\ Installs(message[Peer].count, v)
          /\ table' = Installed(v)
          /\ \/ /\ message[Peer].kind # "short"
                /\ raw' = v
                /\ pc' = "own"
                /\ UNCHANGED abandoned
             \/ /\ message[Peer].kind = "short"
                /\ abandoned' = abandoned \cup Numbers(v)
                /\ pc' = "close"
                /\ UNCHANGED raw
    /\ UNCHANGED <<senderVars, backlog, broken, serverFd, clientFd, fds, frames,
                   shown>>

\* recvmsg fails, and whatever has come stays unread.
ReceiveFails == /\ pc = "receive"
                /\ broken' = broken \cup {Peer}
                /\ pc' = "close"
                /\ UNCHANGED <<senderVars, queue, backlog, table, serverFd, clientFd,
                               raw, fds, frames, abandoned, shown>>

\* Slip: the end of the connection is not told from a message to come.
EndIgnored == /\ pc = "receive"
              /\ Peer \notin queue
              /\ sender[Peer] # "connected"
              /\ UNCHANGED vars

\* recvmsg returns 0: the sender has closed, with or without having sent.
EndOfConnection == /\ pc = "receive"
                   /\ Peer \notin queue
                   /\ sender[Peer] # "connected"
                   /\ pc' = "close"
                   /\ UNCHANGED <<senderVars, linkVars, table, serverFd, clientFd,
                                  raw, fds, frames, abandoned, shown>>

\* emplace_back, with the vector growing or not.
OwnNext == /\ pc = "own"
           /\ raw # <<>>
           /\ fds' = Append(fds, Head(raw))
           /\ raw' = Tail(raw)
           /\ \/ UNCHANGED table
              \/ table' = Closed(Numbers(MovedFrom(fds)))
           /\ UNCHANGED <<senderVars, linkVars, pc, serverFd, clientFd, frames,
                          abandoned, shown>>

\* Slip: the count the descriptor tells is not compared.
AnyCount(m) == m.kind = "valid"

\* validate_descriptor.
Valid(m) == m.kind = "valid" /\ m.claimed = Len(fds)

CallBack == /\ pc = "own"
            /\ raw = <<>>
            /\ Valid(message[Peer])
            /\ shown' = shown \cup {[of |-> Peer,
                                     files |-> [i \in DOMAIN fds |-> table[fds[i]]]]}
            /\ pc' = "callback"
            /\ UNCHANGED <<senderVars, linkVars, table, serverFd, clientFd, raw,
                           fds, frames, abandoned>>

\* The vector goes with the error, and its elements close what they own.
Discard == /\ pc = "own"
           /\ raw = <<>>
           /\ ~Valid(message[Peer])
           /\ table' = Closed(Numbers(fds))
           /\ fds' = <<>>
           /\ pc' = "close"
           /\ UNCHANGED <<senderVars, linkVars, serverFd, clientFd, raw, frames,
                          abandoned, shown>>

\* Slip: the vector outlives the loop.
ReleaseLate == /\ pc = "callback"
               /\ frames' = frames + 1
               /\ pc' = IF MaxFrames # 0 /\ frames' >= MaxFrames THEN "close"
                                                                 ELSE "receive"
               /\ UNCHANGED <<senderVars, linkVars, table, serverFd, clientFd, raw,
                              fds, abandoned, shown>>

\* The callbacks of the repository look and take nothing: at the end of the
\* loop's body the vector closes what it owns.
Release == /\ pc = "callback"
           /\ frames' = frames + 1
           /\ table' = Closed(Numbers(fds))
           /\ fds' = <<>>
           /\ pc' = IF MaxFrames # 0 /\ frames' >= MaxFrames THEN "close" ELSE "receive"
           /\ UNCHANGED <<senderVars, linkVars, serverFd, clientFd, raw, abandoned,
                          shown>>

\* client_fd is destroyed; a message nobody read goes with its connection.
CloseClient == /\ pc = "close"
               /\ table' = Closed({clientFd})
               /\ queue' = queue \ {Peer}
               /\ clientFd' = NoFd
               /\ pc' = "accept"
               /\ UNCHANGED <<senderVars, backlog, broken, serverFd, raw, fds,
                              frames, abandoned, shown>>

\* unlink, and server_fd destroyed with the connections that wait.
Return == /\ pc = "accept"
          /\ LimitReached
          /\ table' = Closed({serverFd})
          /\ queue' = queue \ Numbers(backlog)
          /\ backlog' = <<>>
          /\ serverFd' = NoFd
          /\ pc' = "returned"
          /\ UNCHANGED <<senderVars, broken, clientFd, raw, fds, frames,
                         abandoned, shown>>

Server == \/ Accept \/ Receive \/ EndOfConnection \/ OwnNext \/ CallBack
          \/ Discard \/ Release \/ CloseClient \/ Return

Next == \/ Server
        \/ ReceiveFails
        \/ OtherThread
        \/ \E s \in Senders : \/ Connect(s)
                              \/ \E m \in Messages : SendDescriptor(s, m)
                              \/ SendFails(s)

\* The server is a loop; a sender that has connected sends or goes away.
\* recvmsg does not have to fail.
Spec == /\ Init
        /\ [][Next]_vars
        /\ WF_vars(Server)
        /\ \A s \in Senders :
              WF_vars(SendFails(s) \/ \E m \in Messages : SendDescriptor(s, m))
----------------------------------------------------------------------------
(***************************************************************************)
(* Properties.                                                             *)
(***************************************************************************)
\* The types of the variables.
TypeOK == /\ sender \in [Senders -> {"idle", "connected", "sent", "gone"}]
          /\ message \in [Senders -> Messages]
          /\ queue \subseteq Senders
          /\ backlog \in Seq(Senders)
          /\ table \in [Fds -> Files]
          /\ pc \in {"accept", "receive", "own", "callback", "close", "returned"}
          /\ serverFd \in Fds \cup {NoFd}
          /\ clientFd \in Fds \cup {NoFd}
          /\ raw \in Seq(Fds) /\ fds \in Seq(Fds)
          /\ Len(raw) + Len(fds) <= MaxPlanes
          /\ frames \in Nat /\ (MaxFrames # 0 => frames <= MaxFrames)
          /\ abandoned \subseteq Fds

\* Every number has one owner, and every owner's number is open: the sockets
\* are where server_fd and client_fd say, the numbers still to be owned and
\* those of the vector are different buffers of the frame being received, and
\* no other buffer or socket is open but those of short descriptors.
OwnedOnce ==
    LET all == fds \o raw
    IN  /\ \A i, j \in DOMAIN all : all[i] = all[j] => i = j
        /\ \A i \in DOMAIN all : table[all[i]] = Buffer(Peer, i)
        /\ \A n \in Fds :
              /\ table[n].kind = "listener" <=> n = serverFd
              /\ table[n].kind = "connection" <=> n = clientFd
              /\ table[n].kind = "buffer" <=> n \in Numbers(all) \cup abandoned

\* A frame given to the callback has as many buffers as its descriptor tells:
\* the first ones its sender sent with it, in their order and open.  All that
\* were sent, but when the numbers ran out at just the count told: the code
\* does not look at MSG_CTRUNC.
ShownWhole ==
    \A f \in shown :
        LET m == message[f.of]
        IN  /\ m.kind = "valid" /\ m.claimed <= m.count
            /\ f.files = [i \in 1 .. m.claimed |-> Buffer(f.of, i)]

\* Where the descriptors of a frame are, read off queue, table and pc.
PlaceOf(s) ==
    LET own == {n \in Fds : table[n].kind = "buffer" /\ table[n].of = s}
    IN  IF sender[s] # "sent" THEN "sender"
        ELSE IF s \in queue THEN "travelling"
        ELSE IF own = {} THEN "closed"
        ELSE IF own \subseteq abandoned THEN "abandoned"
        ELSE IF pc = "callback" THEN "callback"
        ELSE "server"

Custody == INSTANCE FrameCustody WITH place <- [s \in Senders |-> PlaceOf(s)]

\* The transport keeps its promise: descriptors of one frame at a time, shown
\* once at most, closed and never touched again.
ImplementsCustody == Custody!Spec

\* Numbers that others hold take away what one frame needs.
Squeezed == LET lost == {n \in Fds : table[n].kind = "other"} \cup abandoned
            IN  NumFds < 2 + MaxPlanes + Cardinality(lost)

\* A valid frame whose message is on its way is shown, unless the server comes
\* to its limit first, has no numbers left for it or fails to read it.
GoodFramesShown ==
    \A s \in Senders :
        (s \in queue /\ message[s].kind = "valid"
           /\ message[s].claimed = message[s].count)
            ~> \/ \E f \in shown : f.of = s
               \/ LimitReached
               \/ Squeezed
               \/ s \in broken
=============================================================================
