------------------------------ MODULE PosePath ------------------------------
(***************************************************************************)
(* The way of a head pose from the host to an application: the pose server *)
(* (protocol/transport_tcp.cpp) sends frames to one client at a time; the  *)
(* clients are the pose broker of the runtime APK                          *)
(* (RuntimeBrokerProvider.java), which answers queries of applications,    *)
(* and the applications' own PoseClients (android-runtime/pose_client.cpp),*)
(* which connect directly when the broker cannot be asked.                 *)
(*                                                                         *)
(* A pose is represented by its place in the order the server produced     *)
(* frames, over all runs of the server; 0 is the pose a client starts      *)
(* with.  A TCP connection is the sequence of frames sent and not yet read.*)
(***************************************************************************)
EXTENDS Integers, Sequences

CONSTANTS Apps,          \* applications, each with a PoseClient
          WithContext,   \* those that gave it an Android context
          Broker,        \* the pose broker, as a client of the server
          NoClient,      \* the server serves nobody
          Gone,          \* a connection whose client has closed it
          MaxFrames,     \* frames of one run of the server (maxFrames)
          MaxBuffered,   \* frames a connection holds before send blocks
          Backlog,       \* connections waiting for accept
          BrokerRetry,   \* calls without a query after a failed one
          ConnectRetry,  \* calls without a connect after one
          MaxRuns,       \* bound: starts of the server
          MaxFailures    \* bound: processes killed, queries failed

Clients == Apps \cup {Broker}

ASSUME PoseAssumption == /\ WithContext \subseteq Apps
                         /\ Broker \notin Apps
                         /\ NoClient \notin Clients
                         /\ Gone \notin Clients \cup {NoClient}
                         /\ MaxFrames \in Nat /\ MaxFrames >= 1
                         /\ MaxBuffered \in Nat /\ MaxBuffered >= 1
                         /\ Backlog \in Nat /\ Backlog >= 1
                         /\ BrokerRetry \in Nat /\ ConnectRetry \in Nat
                         /\ MaxRuns \in Nat /\ MaxFailures \in Nat

VARIABLES
    runs,        \* times the server was started
    listening,   \* serve_with_producer is running
    sequence,    \* its local sequence
    produced,    \* history: frames sent in all runs
    client,      \* its local client, NoClient or Gone
    backlog,     \* connections it has not accepted
    sock,        \* socket of each client: "none", "open", or "ended" by the server
    stream,      \* frames on the connection of each client
    brokerPose,  \* sequence, hmd, left and right of the broker
    brokerWait,  \* less than a second since its last connection attempt
    pc,          \* where the call latest_pose_frame of each application is
    latest,      \* latest_ of each PoseClient
    brokerOff,   \* broker_retry_countdown_
    connectOff,  \* retry_countdown_
    fromBroker,  \* history: latest_ is a row of the broker process that runs
    failures     \* failures so far

serverVars == <<runs, listening, sequence, produced, client, backlog>>
linkVars   == <<sock, stream>>
brokerVars == <<brokerPose, brokerWait>>
appVars    == <<pc, latest, brokerOff, connectOff, fromBroker>>
vars       == <<serverVars, linkVars, brokerVars, appVars, failures>>

Init == /\ runs = 0
        /\ listening = FALSE
        /\ sequence = 0
        /\ produced = 0
        /\ client = NoClient
        /\ backlog = <<>>
        /\ sock = [c \in Clients |-> "none"]
        /\ stream = [c \in Clients |-> <<>>]
        /\ brokerPose = 0
        /\ brokerWait = FALSE
        /\ pc = [a \in Apps |-> "idle"]
        /\ latest = [a \in Apps |-> 0]
        /\ brokerOff = [a \in Apps |-> 0]
        /\ connectOff = [a \in Apps |-> 0]
        /\ fromBroker = {}
        /\ failures = 0
----------------------------------------------------------------------------
(***************************************************************************)
(* The server.                                                             *)
(***************************************************************************)
StartServer == /\ ~listening
               /\ runs < MaxRuns
               /\ runs' = runs + 1
               /\ listening' = TRUE
               /\ sequence' = 0
               /\ UNCHANGED <<produced, client, backlog, linkVars, brokerVars,
                              appVars, failures>>

\* serve_with_producer returns, or its process ends: every connection ends,
\* accepted or not.
StopListening == /\ listening' = FALSE
                 /\ client' = NoClient
                 /\ backlog' = <<>>
                 /\ sock' = [c \in Clients |->
                                IF sock[c] = "open" THEN "ended" ELSE sock[c]]

KillServer == /\ listening
              /\ StopListening
              /\ UNCHANGED <<runs, sequence, produced, stream, brokerVars,
                             appVars, failures>>

Accept == /\ listening
          /\ client = NoClient
          /\ backlog # <<>>
          /\ client' = Head(backlog)
          /\ backlog' = Tail(backlog)
          /\ UNCHANGED <<runs, listening, sequence, produced, linkVars,
                         brokerVars, appVars, failures>>

\* The frame is counted; after the last one the server closes and returns.
Counted == /\ sequence' = sequence + 1
           /\ produced' = produced + 1
           /\ IF sequence + 1 = MaxFrames
              THEN StopListening
              ELSE UNCHANGED <<listening, client, backlog, sock>>

\* Slip: a send that took long is made again although the frame went out.
SendFrameAgain ==
    /\ listening
    /\ client \in Clients
    /\ Len(stream[client]) < MaxBuffered
    /\ stream' = [stream EXCEPT ![client] = Append(@, produced + 1)]
    /\ Counted \/ UNCHANGED <<listening, sequence, produced, client, backlog, sock>>
    /\ UNCHANGED <<runs, brokerVars, appVars, failures>>

\* send_all blocks while the connection is full.
SendFrame == /\ listening
             /\ client \in Clients
             /\ Len(stream[client]) < MaxBuffered
             /\ stream' = [stream EXCEPT ![client] = Append(@, produced + 1)]
             /\ Counted
             /\ UNCHANGED <<runs, brokerVars, appVars, failures>>

\* A send after the client closed succeeds as long as the kernel does not know.
SendLost == /\ listening
            /\ client = Gone
            /\ Counted
            /\ UNCHANGED <<runs, stream, brokerVars, appVars, failures>>

\* The frame is not counted: the next client is sent one with its number.
SendFails == /\ listening
             /\ client = Gone
             /\ client' = NoClient
             /\ UNCHANGED <<runs, listening, sequence, produced, backlog,
                            linkVars, brokerVars, appVars, failures>>

ServerStep == Accept \/ SendFrame \/ SendLost \/ SendFails
----------------------------------------------------------------------------
(***************************************************************************)
(* Connections, from the side of a client.                                 *)
(***************************************************************************)
Connect(c) == /\ listening
              /\ Len(backlog) < Backlog
              /\ backlog' = Append(backlog, c)
              /\ sock' = [sock EXCEPT ![c] = "open"]
              /\ stream' = [stream EXCEPT ![c] = <<>>]
              /\ UNCHANGED <<runs, listening, sequence, produced, client>>

\* The server learns of it only when it sends.
Close(c) == /\ sock' = [sock EXCEPT ![c] = "none"]
            /\ stream' = [stream EXCEPT ![c] = <<>>]
            /\ client' = IF client = c THEN Gone ELSE client
            /\ backlog' = [i \in DOMAIN backlog |->
                              IF backlog[i] = c THEN Gone ELSE backlog[i]]
            /\ UNCHANGED <<runs, listening, sequence, produced>>

TakeFrame(c) == /\ stream[c] # <<>>
                /\ stream' = [stream EXCEPT ![c] = Tail(@)]
                /\ UNCHANGED <<serverVars, sock>>

AtEnd(c) == sock[c] = "ended" /\ stream[c] = <<>>
----------------------------------------------------------------------------
(***************************************************************************)
(* PoseClient::latest_pose_frame.  The call goes through                   *)
(*   query   the binder call is made; waits for poseLock                   *)
(*   broker  updatePose holds poseLock and reads a frame                   *)
(*   row     updatePose is done, the row is still to be copied             *)
(*   direct  the broker could not be asked                                 *)
(*   read    in read_available_frames                                      *)
(* and back to idle.                                                       *)
(***************************************************************************)
Goto(a, place) == pc' = [pc EXCEPT ![a] = place]

Call(a) ==
    /\ pc[a] = "idle"
    /\ IF a \notin WithContext
       THEN Goto(a, "direct") /\ UNCHANGED brokerOff
       ELSE IF brokerOff[a] > 0
            THEN /\ brokerOff' = [brokerOff EXCEPT ![a] = @ - 1]
                 /\ Goto(a, "direct")
            ELSE Goto(a, "query") /\ UNCHANGED brokerOff
    /\ UNCHANGED <<serverVars, linkVars, brokerVars, latest, connectOff,
                   fromBroker, failures>>

Locked == \E a \in Apps : pc[a] = "broker"

\* ensureConnectedLocked, with poseLock: the socket counts as connected also
\* when the server has ended it.
UpdatePose(a) ==
    /\ pc[a] = "query"
    /\ ~Locked
    /\ \/ /\ sock[Broker] # "none"
          /\ Goto(a, "broker")
          /\ UNCHANGED <<serverVars, linkVars, brokerWait>>
       \/ /\ sock[Broker] = "none"
          /\ brokerWait
          /\ Goto(a, "row")
          /\ UNCHANGED <<serverVars, linkVars, brokerWait>>
       \/ /\ sock[Broker] = "none"
          /\ ~brokerWait
          /\ brokerWait' = TRUE
          /\ \/ Goto(a, "broker") /\ Connect(Broker)
             \/ Goto(a, "row") /\ UNCHANGED <<serverVars, linkVars>>
    /\ UNCHANGED <<brokerPose, latest, brokerOff, connectOff, fromBroker, failures>>

\* Slip: the frame is read, and the pose stays as it was.
BrokerReadsInVain(a) ==
    /\ pc[a] = "broker"
    /\ TakeFrame(Broker)
    /\ Goto(a, "row")
    /\ UNCHANGED <<brokerVars, latest, brokerOff, connectOff, fromBroker, failures>>

BrokerReads(a) ==
    /\ pc[a] = "broker"
    /\ TakeFrame(Broker)
    /\ brokerPose' = Head(stream[Broker])
    /\ Goto(a, "row")
    /\ UNCHANGED <<brokerWait, latest, brokerOff, connectOff, fromBroker, failures>>

\* Slip: a failed read clears the pose.
BrokerGivesUpForgetting(a) ==
    /\ pc[a] = "broker"
    /\ stream[Broker] = <<>>
    /\ Close(Broker)
    /\ brokerPose' = 0
    /\ Goto(a, "row")
    /\ UNCHANGED <<brokerWait, latest, brokerOff, connectOff, fromBroker, failures>>

\* Slip: the read is tried again and again, with the lock held.
BrokerTriesAgain(a) ==
    /\ pc[a] = "broker"
    /\ stream[Broker] = <<>>
    /\ UNCHANGED vars

\* A second without a frame, or the end of the connection.
BrokerGivesUp(a) ==
    /\ pc[a] = "broker"
    /\ stream[Broker] = <<>>
    /\ Close(Broker)
    /\ Goto(a, "row")
    /\ UNCHANGED <<brokerVars, latest, brokerOff, connectOff, fromBroker, failures>>

\* The row is copied with poseLock: it may hold a pose another query has read
\* since, and it holds the old pose when the read failed.
TakeRow(a) ==
    /\ pc[a] = "row"
    /\ ~Locked
    /\ latest' = [latest EXCEPT ![a] = brokerPose]
    /\ fromBroker' = fromBroker \cup {a}
    /\ Goto(a, "idle")
    /\ UNCHANGED <<serverVars, linkVars, brokerVars, brokerOff, connectOff, failures>>

\* ensure_connected.
EnsureConnected(a) ==
    /\ pc[a] = "direct"
    /\ \/ /\ sock[a] # "none"
          /\ Goto(a, "read")
          /\ UNCHANGED <<serverVars, linkVars, connectOff>>
       \/ /\ sock[a] = "none"
          /\ connectOff[a] > 0
          /\ connectOff' = [connectOff EXCEPT ![a] = @ - 1]
          /\ Goto(a, "idle")
          /\ UNCHANGED <<serverVars, linkVars>>
       \/ /\ sock[a] = "none"
          /\ connectOff[a] = 0
          /\ connectOff' = [connectOff EXCEPT ![a] = ConnectRetry]
          /\ \/ Goto(a, "read") /\ Connect(a)
             \/ Goto(a, "idle") /\ UNCHANGED <<serverVars, linkVars>>
    /\ UNCHANGED <<brokerVars, latest, brokerOff, fromBroker, failures>>

\* read_available_frames reads frame after frame.  The socket is blocking, so
\* recv waits for the next one and never reports EAGAIN.
ReadFrame(a) ==
    /\ pc[a] = "read"
    /\ TakeFrame(a)
    /\ latest' = [latest EXCEPT ![a] = Head(stream[a])]
    /\ fromBroker' = fromBroker \ {a}
    /\ UNCHANGED <<brokerVars, pc, brokerOff, connectOff, failures>>

\* It returns when the server ends the connection.
ReadEnd(a) ==
    /\ pc[a] = "read"
    /\ AtEnd(a)
    /\ Close(a)
    /\ Goto(a, "idle")
    /\ UNCHANGED <<brokerVars, latest, brokerOff, connectOff, fromBroker, failures>>

CallStep(a) == \/ UpdatePose(a)
               \/ BrokerReads(a)
               \/ BrokerGivesUp(a)
               \/ TakeRow(a)
               \/ EnsureConnected(a)
               \/ ReadFrame(a)
               \/ ReadEnd(a)
----------------------------------------------------------------------------
(***************************************************************************)
(* Failures and time.                                                      *)
(***************************************************************************)
Fail == failures < MaxFailures /\ failures' = failures + 1

\* The binder call fails: no cursor, or an exception.
QueryFails(a) ==
    /\ Fail
    /\ pc[a] = "query"
    /\ brokerOff' = [brokerOff EXCEPT ![a] = BrokerRetry]
    /\ Goto(a, "direct")
    /\ UNCHANGED <<serverVars, linkVars, brokerVars, latest, connectOff, fromBroker>>

\* The provider's process is killed; a new one starts from the default pose,
\* and the queries under way fail.
BrokerDies ==
    /\ Fail
    /\ Close(Broker)
    /\ brokerPose' = 0
    /\ brokerWait' = FALSE
    /\ fromBroker' = {}
    /\ LET asking == {a \in Apps : pc[a] \in {"query", "broker", "row"}}
       IN  /\ pc' = [a \in Apps |-> IF a \in asking THEN "direct" ELSE pc[a]]
           /\ brokerOff' = [a \in Apps |-> IF a \in asking THEN BrokerRetry
                                                           ELSE brokerOff[a]]
    /\ UNCHANGED <<latest, connectOff>>

\* An application is killed outside a binder call, and may be started again.
AppDies(a) ==
    /\ Fail
    /\ pc[a] \in {"idle", "direct", "read"}
    /\ Close(a)
    /\ Goto(a, "idle")
    /\ latest' = [latest EXCEPT ![a] = 0]
    /\ fromBroker' = fromBroker \ {a}
    /\ brokerOff' = [brokerOff EXCEPT ![a] = 0]
    /\ connectOff' = [connectOff EXCEPT ![a] = 0]
    /\ UNCHANGED brokerVars

\* A second has passed since the broker's last attempt to connect.
SecondPasses == /\ brokerWait
                /\ ~Locked
                /\ brokerWait' = FALSE
                /\ UNCHANGED <<serverVars, linkVars, brokerPose, appVars, failures>>
----------------------------------------------------------------------------
Next == \/ StartServer
        \/ KillServer
        \/ ServerStep
        \/ \E a \in Apps : Call(a) \/ CallStep(a) \/ QueryFails(a) \/ AppDies(a)
        \/ BrokerDies
        \/ SecondPasses

\* The server's thread goes on serving and a call under way goes on; nothing
\* forces an application to make a call.
Spec == /\ Init
        /\ [][Next]_vars
        /\ WF_vars(ServerStep)
        /\ \A a \in Apps : WF_vars(CallStep(a))
----------------------------------------------------------------------------
(***************************************************************************)
(* Properties.                                                             *)
(***************************************************************************)
Places == {"idle", "query", "broker", "row", "direct", "read"}

\* The variables hold values of their types.
TypeOK == /\ runs \in 0 .. MaxRuns
          /\ listening \in BOOLEAN
          /\ sequence \in 0 .. MaxFrames
          /\ produced \in Nat
          /\ client \in Clients \cup {NoClient, Gone}
          /\ backlog \in Seq(Clients \cup {Gone})
          /\ Len(backlog) <= Backlog
          /\ sock \in [Clients -> {"none", "open", "ended"}]
          /\ stream \in [Clients -> Seq(Nat)]
          /\ brokerPose \in Nat
          /\ brokerWait \in BOOLEAN
          /\ pc \in [Apps -> Places]
          /\ latest \in [Apps -> Nat]
          /\ brokerOff \in [Apps -> 0 .. BrokerRetry]
          /\ connectOff \in [Apps -> 0 .. ConnectRetry]
          /\ fromBroker \subseteq Apps
          /\ failures \in 0 .. MaxFailures

\* The pose a client holds.
Held(c) == IF c = Broker THEN brokerPose ELSE latest[c]

\* What is on a connection continues what its reader has: frames follow one
\* another without a gap, all newer than the pose the reader holds, through
\* any number of reconnections and restarts of the server.
StreamsInOrder ==
    \A c \in Clients : \A i \in 1 .. Len(stream[c]) :
        /\ Held(c) < stream[c][i]
        /\ stream[c][i] <= produced
        /\ i > 1 => stream[c][i] = stream[c][i - 1] + 1

\* No connection is forgotten: an open one is being served or waits to be
\* accepted, and only an open one is.
OpenIsServedOrQueued ==
    \A c \in Clients :
        sock[c] = "open" <=> c = client \/ \E i \in DOMAIN backlog : backlog[i] = c

\* A pose the server sent reaches one client: no two connections carry the
\* same frame, also when a frame is produced again after a failed send.
FrameOnOneStream ==
    \A c, d \in Clients : c # d =>
        \A i \in DOMAIN stream[c], j \in DOMAIN stream[d] :
            stream[c][i] # stream[d][j]

\* poseLock: one query at a time is reading a frame for the broker.
OneBrokerReader ==
    \A a, b \in Apps : pc[a] = "broker" /\ pc[b] = "broker" => a = b

\* Rows never overtake the broker: an application that got its pose from the
\* broker will not be given an older one by the next row.
RowsFollowBroker == \A a \in fromBroker : latest[a] <= brokerPose

\* The broker's pose never goes back, through time-outs, reconnections and
\* restarts of the server, except when its own process is started again.
BrokerMovesForward ==
    [][brokerPose' >= brokerPose \/ failures' > failures]_vars

\* An application's own connection lasts exactly as long as its call: while
\* it is open, the call is reading from it and has not returned.
ConnectedMeansReading == \A a \in Apps : sock[a] # "none" => pc[a] = "read"

Relay == INSTANCE PoseRelay WITH
             pending <- [c \in Clients |-> {stream[c][i] : i \in DOMAIN stream[c]}],
             rows    <- fromBroker

\* Frames reach their readers as PoseRelay says: each goes to one reader, which
\* takes them oldest first and misses one only when it loses its connection,
\* and an application has a newer pose after each frame it reads.
ImplementsRelay == Relay!RelaySpec

\* A query that holds poseLock gives it up, whatever the server does.
LockReleased ==
    \A a \in Apps : pc[a] = "broker" ~> pc[a] # "broker"

\* A call to latest_pose_frame returns.
CallReturns == \A a \in Apps : pc[a] # "idle" ~> pc[a] = "idle"
=============================================================================
