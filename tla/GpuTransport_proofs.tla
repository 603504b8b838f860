------------------------ MODULE GpuTransport_proofs ------------------------
(***************************************************************************)
(* The file descriptors of the GPU transport, for any number of senders,   *)
(* planes and file numbers: each number has one owner, frames are shown    *)
(* whole, and the server implements FrameCustody.  IInv says, beside the   *)
(* properties of the run, which part of the server's state each place of   *)
(* its loops allows, and whose message every open buffer came with.        *)
(***************************************************************************)
EXTENDS GpuTransport, TLAPS

Serving == pc \in {"receive", "own", "callback", "close"}

\* Places that belong to a message.
Reading == pc \in {"own", "callback"}

\* The loops of serve and the variables that live in them.
Control == /\ pc = "returned" <=> serverFd = NoFd
           /\ Serving <=> clientFd # NoFd
           /\ raw # <<>> => pc = "own"
           /\ fds # <<>> => Reading
           /\ MaxFrames # 0 /\ pc \in {"receive", "own", "callback"} => frames < MaxFrames

Sockets == /\ \A n \in Fds : /\ table[n].kind = "listener" <=> n = serverFd
                             /\ table[n].kind = "connection" <=> n = clientFd
           /\ Serving => Peer \in Senders

Owned == /\ \A i \in DOMAIN fds : table[fds[i]] = Buffer(Peer, i)
         /\ \A i \in DOMAIN raw : table[raw[i]] = Buffer(Peer, Len(fds) + i)
         /\ \A n \in Fds : table[n].kind = "buffer"
                              <=> n \in Numbers(fds) \cup Numbers(raw) \cup abandoned

\* Every buffer came with a message that was sent and read; those nobody owns
\* with a short one.
Letters == /\ \A s \in queue : sender[s] = "sent"
           /\ \A n \in Fds : table[n].kind = "buffer" =>
                 /\ table[n].of \in Senders
                 /\ sender[table[n].of] = "sent"
                 /\ table[n].of \notin queue
           /\ \A n \in abandoned : message[table[n].of].kind = "short"
           /\ Reading => /\ sender[Peer] = "sent"
                         /\ Peer \notin queue
                         /\ message[Peer].kind # "short"
                         /\ Len(fds) + Len(raw) <= message[Peer].count

Shown == /\ ShownWhole
         /\ \A f \in shown : f.of \in Senders /\ sender[f.of] = "sent"

IInv == TypeOK /\ Control /\ Sockets /\ Owned /\ Letters /\ Shown
----------------------------------------------------------------------------
(***************************************************************************)
(* The helpers.                                                            *)
(***************************************************************************)
LEMMA Constants == /\ NumFds \in Nat /\ 1 \in Fds /\ NoFd \notin Fds
                   /\ MaxPlanes \in Nat /\ MaxFrames \in Nat
                   /\ \A n \in Fds : n \in Nat
                   /\ NoSender \notin Senders
<1> QED BY GpuAssumption, NoSenderAssumption DEF Fds, NoFd

LEMMA FileTypes == /\ \A kind \in {"free", "listener", "connection", "buffer", "other"} :
                         File(kind) \in Files
                   /\ \A s \in Senders : Connection(s) \in Files
                   /\ \A s \in Senders, i \in Planes : Buffer(s, i) \in Files
<1> QED BY Constants DEF Files, File, Connection, Buffer, Planes

\* A table with some numbers closed.
LEMMA ClosedTable ==
    ASSUME table \in [Fds -> Files], NEW S
    PROVE  /\ Closed(S) \in [Fds -> Files]
           /\ \A n \in Fds : n \in S => Closed(S)[n] = File("free")
           /\ \A n \in Fds : n \notin S => Closed(S)[n] = table[n]
<1> QED BY FileTypes DEF Closed

\* The elements that a vector leaves behind when it grows own nothing.
LEMMA GrowingClosesNothing ==
    ASSUME table \in [Fds -> Files], fds \in Seq(Fds)
    PROVE  Closed(Numbers(MovedFrom(fds))) = table
<1>1. Numbers(MovedFrom(fds)) \subseteq {NoFd}
  BY DEF Numbers, MovedFrom
<1>2. \A n \in Fds : n \notin Numbers(MovedFrom(fds))
  BY <1>1, Constants
<1> QED BY <1>2 DEF Closed

\* The numbers of the vector and of the control message name open buffers.
LEMMA OwnedOpen ==
    ASSUME fds \in Seq(Fds), raw \in Seq(Fds), Owned
    PROVE  /\ \A i \in DOMAIN fds : fds[i] \in Fds /\ table[fds[i]].kind = "buffer"
           /\ \A i \in DOMAIN raw : raw[i] \in Fds /\ table[raw[i]].kind = "buffer"
           /\ Numbers(fds) \subseteq Fds /\ Numbers(raw) \subseteq Fds
<1>1. (\A i \in DOMAIN fds : fds[i] \in Fds) /\ (\A i \in DOMAIN raw : raw[i] \in Fds)
  OBVIOUS
<1>2. \A s, i : Buffer(s, i).kind = "buffer"
  BY DEF Buffer
<1>3. /\ \A i \in DOMAIN fds : table[fds[i]].kind = "buffer"
      /\ \A i \in DOMAIN raw : table[raw[i]].kind = "buffer"
  BY <1>2 DEF Owned
<1> QED BY <1>1, <1>3 DEF Numbers

\* The next number of a control message moves from raw to the vector.
LEMMA HeadMoves ==
    ASSUME fds \in Seq(Fds), raw \in Seq(Fds), raw # <<>>,
           fds' = Append(fds, Head(raw)), raw' = Tail(raw)
    PROVE  /\ fds' \in Seq(Fds) /\ raw' \in Seq(Fds)
           /\ Len(fds') = Len(fds) + 1 /\ Len(raw') = Len(raw) - 1
           /\ \A i \in DOMAIN fds : fds'[i] = fds[i]
           /\ fds'[Len(fds) + 1] = raw[1]
           /\ \A i \in DOMAIN raw' : i + 1 \in DOMAIN raw /\ raw'[i] = raw[i + 1]
           /\ Numbers(fds') \cup Numbers(raw') = Numbers(fds) \cup Numbers(raw)
<1>1. /\ fds' \in Seq(Fds) /\ raw' \in Seq(Fds)
      /\ Len(fds') = Len(fds) + 1 /\ Len(raw') = Len(raw) - 1
      /\ DOMAIN fds = 1 .. Len(fds) /\ DOMAIN raw = 1 .. Len(raw)
      /\ DOMAIN fds' = 1 .. Len(fds) + 1 /\ DOMAIN raw' = 1 .. Len(raw) - 1
      /\ Len(fds) \in Nat /\ Len(raw) \in Nat /\ Len(raw) >= 1
  OBVIOUS
<1>2. /\ \A i \in DOMAIN fds : fds'[i] = fds[i]
      /\ fds'[Len(fds) + 1] = raw[1]
      /\ \A i \in DOMAIN raw' : raw'[i] = raw[i + 1]
  BY <1>1
<1>3. \A i \in DOMAIN raw' : i + 1 \in DOMAIN raw
  BY <1>1
<1>4. ASSUME NEW n \in Numbers(fds') \cup Numbers(raw')
      PROVE  n \in Numbers(fds) \cup Numbers(raw)
  <2>1. CASE n \in Numbers(fds')
    <3>1. PICK i \in 1 .. Len(fds) + 1 : n = fds'[i]
      BY <1>1, <2>1 DEF Numbers
    <3>2. i \in DOMAIN fds \/ i = Len(fds) + 1
      BY <1>1
    <3>3. 1 \in DOMAIN raw
      BY <1>1
    <3> QED BY <1>2, <3>1, <3>2, <3>3 DEF Numbers
  <2>2. CASE n \in Numbers(raw')
    BY <1>2, <1>3, <2>2 DEF Numbers
  <2> QED BY <1>4, <2>1, <2>2
<1>5. ASSUME NEW n \in Numbers(fds) \cup Numbers(raw)
      PROVE  n \in Numbers(fds') \cup Numbers(raw')
  <2>1. CASE n \in Numbers(fds)
    BY <1>1, <1>2, <2>1 DEF Numbers
  <2>2. CASE n \in Numbers(raw)
    <3>1. PICK i \in 1 .. Len(raw) : n = raw[i]
      BY <1>1, <2>2 DEF Numbers
    <3>2. CASE i = 1
      BY <1>1, <1>2, <3>1, <3>2 DEF Numbers
    <3>3. CASE i # 1
      <4>1. i - 1 \in DOMAIN raw' /\ raw'[i - 1] = raw[i]
        BY <1>1, <1>2, <3>3
      <4> QED BY <3>1, <4>1 DEF Numbers
    <3> QED BY <3>2, <3>3
  <2> QED BY <1>5, <2>1, <2>2
<1> QED BY <1>1, <1>2, <1>3, <1>4, <1>5

\* The numbers of a message name its buffers, in their order.
LEMMA InstalledTable ==
    ASSUME table \in [Fds -> Files], Peer \in Senders, NEW v, v \in Candidates,
           NEW count, count \in Planes, Installs(count, v)
    PROVE  /\ v \in Seq(Fds) /\ Len(v) <= count
           /\ Installed(v) \in [Fds -> Files]
           /\ \A i \in DOMAIN v : v[i] \in Free /\ Installed(v)[v[i]] = Buffer(Peer, i)
           /\ \A n \in Fds : n \notin Numbers(v) => Installed(v)[n] = table[n]
<1>1. PICK k \in 0 .. MaxPlanes : v \in [1 .. k -> Free]
  BY DEF Candidates
<1>2. Free \subseteq Fds /\ k \in Nat
  BY Constants DEF Free
<1>3. v \in Seq(Fds) /\ Len(v) = k /\ DOMAIN v = 1 .. k
  BY <1>1, <1>2
<1>4. Len(v) <= count /\ (\A i, j \in DOMAIN v : v[i] = v[j] => i = j)
  BY DEF Installs
<1>5. \A i \in DOMAIN v : i \in Planes
  BY <1>3, <1>4, Constants DEF Planes
<1>6. ASSUME NEW i \in DOMAIN v
      PROVE  v[i] \in Free /\ Installed(v)[v[i]] = Buffer(Peer, i)
  <2>1. v[i] \in Fds /\ v[i] \in Numbers(v) /\ v[i] \in Free
    BY <1>1, <1>2, <1>3 DEF Numbers
  <2>2. (CHOOSE j \in DOMAIN v : v[j] = v[i]) = i
    BY <1>4
  <2> QED BY <2>1, <2>2 DEF Installed
<1>7. \A n \in Fds : n \notin Numbers(v) => Installed(v)[n] = table[n]
  BY DEF Installed
<1>8. Installed(v) \in [Fds -> Files]
  <2> SUFFICES ASSUME NEW n \in Fds PROVE Installed(v)[n] \in Files
    BY DEF Installed
  <2>1. CASE n \in Numbers(v)
    <3>1. PICK i \in DOMAIN v : v[i] = n
      BY <2>1 DEF Numbers
    <3> QED BY <1>5, <1>6, <3>1, FileTypes
  <2>2. CASE n \notin Numbers(v)
    BY <1>7, <2>2
  <2> QED BY <2>1, <2>2
<1> QED BY <1>3, <1>4, <1>6, <1>7, <1>8
----------------------------------------------------------------------------
(***************************************************************************)
(* The steps of the senders and of the other thread.                       *)
(***************************************************************************)
LEMMA InitIInv == Init => IInv
<1> SUFFICES ASSUME Init PROVE IInv
  OBVIOUS
<1> USE DEF Init
<1>1. table \in [Fds -> Files]
  BY FileTypes
<1>2. \A n \in Fds : table[n].kind = IF n = 1 THEN "listener" ELSE "free"
  BY DEF File
<1>3. message \in [Senders -> Messages]
  <2>1. Planes = {} \/ 1 \in Planes
    BY Constants DEF Planes
  <2>2. 1 \in Planes
    BY GpuAssumption DEF Planes
  <2> QED BY <2>2 DEF Messages
<1>4. TypeOK
  BY <1>1, <1>3, Constants DEF TypeOK
<1>5. Control /\ Sockets
  BY <1>2, Constants DEF Control, Sockets, Serving, Reading, NoFd
<1>6. Owned /\ Letters
  BY <1>2 DEF Owned, Letters, Reading, Numbers
<1>7. Shown
  BY DEF Shown, ShownWhole
<1> QED BY <1>4, <1>5, <1>6, <1>7 DEF IInv

\* What the senders do before they send changes nothing for the server.
LEMMA SenderMoves ==
    ASSUME IInv, NEW s \in Senders, sender[s] \in {"idle", "connected"},
           NEW state \in {"connected", "gone"},
           sender' = [sender EXCEPT ![s] = state],
           UNCHANGED <<message, queue>>, backlog' \in Seq(Senders), ServerIdle
    PROVE  IInv'
<1>0. /\ TypeOK /\ Control /\ Sockets /\ Owned /\ Letters /\ Shown
      /\ sender \in [Senders -> {"idle", "connected", "sent", "gone"}]
  BY DEF IInv, TypeOK
<1>1. \A t \in Senders : sender[t] = "sent" => sender'[t] = "sent"
  BY <1>0
<1>2. TypeOK'
  BY <1>0 DEF TypeOK, ServerIdle
<1>3. Control' /\ Sockets' /\ Owned'
  BY <1>0 DEF Control, Sockets, Owned, Serving, Reading, Peer, ServerIdle, Numbers
<1>4. Letters'
  <2>1. queue \subseteq Senders
    BY <1>0 DEF TypeOK
  <2>2. Reading => Peer \in Senders
    BY <1>0 DEF Sockets, Serving, Reading
  <2> QED BY <1>0, <1>1, <2>1, <2>2 DEF Letters, Reading, Peer, ServerIdle
<1>5. Shown'
  BY <1>0, <1>1 DEF Shown, ShownWhole, ServerIdle
<1> QED BY <1>2, <1>3, <1>4, <1>5 DEF IInv

LEMMA SendDescriptorStep ==
    ASSUME IInv, NEW s \in Senders, NEW m \in Messages, SendDescriptor(s, m)
    PROVE  IInv'
<1>0. /\ TypeOK /\ Control /\ Sockets /\ Owned /\ Letters /\ Shown
      /\ sender \in [Senders -> {"idle", "connected", "sent", "gone"}]
      /\ message \in [Senders -> Messages]
      /\ abandoned \subseteq Fds
  BY DEF IInv, TypeOK
<1>1. /\ sender[s] = "connected" /\ sender' = [sender EXCEPT ![s] = "sent"]
      /\ message' = [message EXCEPT ![s] = m] /\ queue' = queue \cup {s}
      /\ UNCHANGED <<backlog, table, pc, serverFd, clientFd, raw, fds, frames,
                     abandoned, shown>>
  BY DEF SendDescriptor, ServerIdle
<1>2. /\ \A t \in Senders : sender[t] = "sent" =>
            sender'[t] = "sent" /\ message'[t] = message[t] /\ t # s
      /\ sender'[s] = "sent"
  BY <1>0, <1>1
<1>3. TypeOK'
  BY <1>0, <1>1 DEF TypeOK
<1>4. Control' /\ Sockets' /\ Owned'
  BY <1>0, <1>1 DEF Control, Sockets, Owned, Serving, Reading, Peer, Numbers
<1>5. Letters'
  <2>1. \A t \in queue' : sender'[t] = "sent"
    BY <1>0, <1>1, <1>2 DEF Letters, TypeOK
  <2>2. \A n \in Fds : table'[n].kind = "buffer" =>
           /\ table'[n].of \in Senders
           /\ sender'[table'[n].of] = "sent"
           /\ table'[n].of \notin queue'
    BY <1>0, <1>1, <1>2 DEF Letters
  <2>3. \A n \in abandoned' : message'[table'[n].of].kind = "short"
    <3> SUFFICES ASSUME NEW n \in abandoned PROVE message'[table[n].of].kind = "short"
      BY <1>1
    <3>1. table[n].of \in Senders /\ sender[table[n].of] = "sent"
      BY <1>0 DEF Letters, Owned
    <3> QED BY <1>0, <1>2, <3>1 DEF Letters
  <2>4. Reading => Peer \in Senders
    BY <1>0 DEF Sockets, Serving, Reading
  <2>5. Reading' => /\ sender'[Peer'] = "sent"
                    /\ Peer' \notin queue'
                    /\ message'[Peer'].kind # "short"
                    /\ Len(fds') + Len(raw') <= message'[Peer'].count
    BY <1>0, <1>1, <1>2, <2>4 DEF Letters, Reading, Peer
  <2> QED BY <2>1, <2>2, <2>3, <2>5 DEF Letters
<1>6. Shown'
  BY <1>0, <1>1, <1>2 DEF Shown, ShownWhole
<1> QED BY <1>3, <1>4, <1>5, <1>6 DEF IInv

\* The other thread takes free numbers and closes its own.
LEMMA OtherThreadStep == ASSUME IInv, OtherThread PROVE IInv'
<1>0. /\ TypeOK /\ Control /\ Sockets /\ Owned /\ Letters /\ Shown
      /\ table \in [Fds -> Files] /\ abandoned \subseteq Fds
      /\ raw \in Seq(Fds) /\ fds \in Seq(Fds)
  BY DEF IInv, TypeOK
<1>1. UNCHANGED <<sender, message, queue, backlog, pc, serverFd, clientFd, raw, fds,
                  frames, abandoned, shown>>
  BY DEF OtherThread, senderVars, linkVars
<1>2. /\ table' \in [Fds -> Files]
      /\ \A n \in Fds : \/ table'[n] = table[n]
                       \/ /\ table[n].kind \in {"free", "other"}
                          /\ table'[n].kind \in {"free", "other"}
  <2>1. CASE \E n \in Free : table' = [table EXCEPT ![n] = File("other")]
    BY <1>0, <2>1, FileTypes DEF Free, File
  <2>2. CASE \E n \in Fds : table[n].kind = "other" /\ table' = Closed({n})
    <3>1. PICK n \in Fds : table[n].kind = "other" /\ table' = Closed({n})
      BY <2>2
    <3>2. File("free").kind = "free"
      BY DEF File
    <3> QED BY <1>0, <3>1, <3>2, ClosedTable
  <2> QED BY <2>1, <2>2 DEF OtherThread
<1>3. TypeOK'
  BY <1>0, <1>1, <1>2 DEF TypeOK
<1>4. Control'
  BY <1>0, <1>1 DEF Control, Serving, Reading
<1>5. Serving => clientFd \in Fds /\ table[clientFd].kind = "connection"
  BY <1>0 DEF Control, Sockets, TypeOK, NoFd
<1>6. Serving => Peer' = Peer
  BY <1>1, <1>2, <1>5 DEF Peer
<1>7. Sockets'
  BY <1>0, <1>1, <1>2, <1>6 DEF Sockets, Serving
<1>8. Owned'
  <2>1. \A i \in DOMAIN fds : fds[i] \in Fds /\ table[fds[i]].kind = "buffer"
    BY <1>0, OwnedOpen
  <2>2. \A i \in DOMAIN raw : raw[i] \in Fds /\ table[raw[i]].kind = "buffer"
    BY <1>0, OwnedOpen
  <2>3. \A i \in DOMAIN fds : table'[fds[i]] = table[fds[i]]
    BY <1>2, <2>1
  <2>4. \A i \in DOMAIN raw : table'[raw[i]] = table[raw[i]]
    BY <1>2, <2>2
  <2>5. fds # <<>> \/ raw # <<>> => Serving
    BY <1>0 DEF Control, Reading, Serving
  <2>6. \A i \in DOMAIN fds : table'[fds'[i]] = Buffer(Peer', i)
    BY <1>0, <1>1, <1>6, <2>3, <2>5 DEF Owned
  <2>7. \A i \in DOMAIN raw : table'[raw'[i]] = Buffer(Peer', Len(fds') + i)
    BY <1>0, <1>1, <1>6, <2>4, <2>5 DEF Owned
  <2>8. \A n \in Fds : table'[n].kind = "buffer" <=> table[n].kind = "buffer"
    BY <1>2
  <2> QED BY <1>0, <1>1, <2>6, <2>7, <2>8 DEF Owned, Numbers
<1>9. Letters'
  <2>1. \A n \in Fds : table'[n].kind = "buffer" => table'[n] = table[n]
    BY <1>2
  <2>2. \A n \in abandoned : table'[n] = table[n]
    BY <1>0, <1>2 DEF Owned
  <2>3. Reading => Serving
    BY DEF Reading, Serving
  <2> QED BY <1>0, <1>1, <1>6, <2>1, <2>2, <2>3 DEF Letters, Reading
<1>10. Shown'
  BY <1>0, <1>1 DEF Shown, ShownWhole
<1> QED BY <1>3, <1>4, <1>7, <1>8, <1>9, <1>10 DEF IInv
----------------------------------------------------------------------------
(***************************************************************************)
(* The steps of the server.                                                *)
(***************************************************************************)
LEMMA AcceptStep == ASSUME IInv, Accept PROVE IInv'
<1>0. /\ TypeOK /\ Control /\ Sockets /\ Owned /\ Letters /\ Shown
      /\ table \in [Fds -> Files] /\ abandoned \subseteq Fds
      /\ backlog \in Seq(Senders)
  BY DEF IInv, TypeOK
<1>1. PICK n \in Free : /\ clientFd' = n
                        /\ table' = [table EXCEPT ![n] = Connection(Head(backlog))]
  BY DEF Accept
<1>2. /\ pc = "accept" /\ pc' = "receive" /\ backlog # <<>> /\ backlog' = Tail(backlog)
      /\ ~LimitReached
      /\ UNCHANGED <<sender, message, queue, serverFd, raw, fds, frames,
                     abandoned, shown>>
  BY DEF Accept, senderVars
<1>3. /\ n \in Fds /\ table[n].kind = "free"
      /\ Head(backlog) \in Senders /\ Tail(backlog) \in Seq(Senders)
  BY <1>0, <1>2 DEF Free
<1>4. /\ table' \in [Fds -> Files]
      /\ table'[n] = Connection(Head(backlog))
      /\ \A k \in Fds : k # n => table'[k] = table[k]
  BY <1>0, <1>1, <1>3, FileTypes
<1>5. Connection(Head(backlog)).kind = "connection" /\ Connection(Head(backlog)).of \in Senders
  BY <1>3 DEF Connection
<1>6. raw = <<>> /\ fds = <<>> /\ clientFd = NoFd /\ serverFd # NoFd /\ n # NoFd
  BY <1>0, <1>2, <1>3, Constants DEF Control, Serving, Reading
<1>7. TypeOK'
  BY <1>0, <1>1, <1>2, <1>3, <1>4 DEF TypeOK
<1>8. Control'
  <2>1. MaxFrames # 0 => frames < MaxFrames
    BY <1>0, <1>2, Constants DEF LimitReached, TypeOK
  <2>2. clientFd' # NoFd /\ serverFd' # NoFd /\ raw' = <<>> /\ fds' = <<>>
    BY <1>1, <1>2, <1>6
  <2> QED BY <1>2, <2>1, <2>2 DEF Control, Serving, Reading
<1>9. Sockets'
  BY <1>0, <1>1, <1>2, <1>3, <1>4, <1>5, <1>6, Constants DEF Sockets, Peer
<1>10. n \notin abandoned /\ (\A k \in Fds : table'[k].kind = "buffer" <=> table[k].kind = "buffer")
  BY <1>0, <1>3, <1>4, <1>5 DEF Owned
<1>11. Owned'
  BY <1>0, <1>2, <1>6, <1>10 DEF Owned, Numbers
<1>12. Letters'
  BY <1>0, <1>2, <1>3, <1>4, <1>5, <1>10 DEF Letters, Reading
<1>13. Shown'
  BY <1>0, <1>2 DEF Shown, ShownWhole
<1> QED BY <1>7, <1>8, <1>9, <1>11, <1>12, <1>13 DEF IInv

LEMMA ReceiveStep == ASSUME IInv, Receive PROVE IInv'
<1>0. /\ TypeOK /\ Control /\ Sockets /\ Owned /\ Letters /\ Shown
      /\ table \in [Fds -> Files] /\ abandoned \subseteq Fds
      /\ message \in [Senders -> Messages] /\ queue \subseteq Senders
  BY DEF IInv, TypeOK
<1>1. PICK v \in Candidates :
          /\ Installs(message[Peer].count, v)
          /\ table' = Installed(v)
          /\ \/ /\ message[Peer].kind # "short"
                /\ raw' = v
                /\ pc' = "own"
                /\ UNCHANGED abandoned
             \/ /\ message[Peer].kind = "short"
                /\ abandoned' = abandoned \cup Numbers(v)
                /\ pc' = "close"
                /\ UNCHANGED raw
  BY DEF Receive
<1>2. /\ pc = "receive" /\ Peer \in queue /\ queue' = queue \ {Peer}
      /\ UNCHANGED <<sender, message, backlog, serverFd, clientFd, fds, frames, shown>>
  BY DEF Receive, senderVars
<1>3. Peer \in Senders /\ message[Peer].count \in Planes /\ sender[Peer] = "sent"
  BY <1>0, <1>2 DEF Messages, Letters
<1>4. /\ v \in Seq(Fds) /\ Len(v) <= message[Peer].count
      /\ table' \in [Fds -> Files]
      /\ \A i \in DOMAIN v : v[i] \in Free /\ table'[v[i]] = Buffer(Peer, i)
      /\ \A n \in Fds : n \notin Numbers(v) => table'[n] = table[n]
  BY <1>0, <1>1, <1>3, InstalledTable
<1>5. raw = <<>> /\ fds = <<>> /\ clientFd \in Fds /\ serverFd # NoFd
      /\ table[clientFd].kind = "connection"
  BY <1>0, <1>2 DEF Control, Serving, Reading, Sockets, TypeOK
<1>6. Numbers(v) \subseteq Free /\ Free \subseteq Fds
      /\ \A n \in Numbers(v) : table[n].kind = "free"
  BY <1>4 DEF Numbers, Free
<1>7. clientFd \notin Numbers(v) /\ Peer' = Peer
  BY <1>2, <1>4, <1>5, <1>6 DEF Peer
<1>8. \A n \in Numbers(v) : table'[n].kind = "buffer" /\ table'[n].of = Peer
  <2>1. \A s, i : Buffer(s, i).kind = "buffer" /\ Buffer(s, i).of = s
    BY DEF Buffer
  <2> SUFFICES ASSUME NEW i \in DOMAIN v
               PROVE  table'[v[i]].kind = "buffer" /\ table'[v[i]].of = Peer
    BY DEF Numbers
  <2> QED BY <1>4, <2>1
<1>9. \A n \in Fds : \/ /\ n \in Numbers(v) /\ table[n].kind = "free"
                         /\ table'[n].kind = "buffer" /\ table'[n].of = Peer
                      \/ /\ n \notin Numbers(v) /\ table'[n] = table[n]
  <2> SUFFICES ASSUME NEW n \in Fds
               PROVE  \/ /\ n \in Numbers(v) /\ table[n].kind = "free"
                         /\ table'[n].kind = "buffer" /\ table'[n].of = Peer
                      \/ /\ n \notin Numbers(v) /\ table'[n] = table[n]
    OBVIOUS
  <2>1. CASE n \in Numbers(v)
    BY <1>6, <1>8, <2>1
  <2>2. CASE n \notin Numbers(v)
    BY <1>4, <2>2
  <2> QED BY <2>1, <2>2
<1>10. Len(v) \in Nat /\ Len(v) <= MaxPlanes
  BY <1>3, <1>4, Constants DEF Planes
<1>11. TypeOK'
  <2>1. Len(fds) = 0 /\ Len(raw) = 0
    BY <1>5
  <2>2. raw' \in Seq(Fds) /\ Len(raw') + Len(fds') <= MaxPlanes
    <3>1. CASE raw' = v
      <4>1. Len(raw') + Len(fds') = Len(v)
        BY <1>2, <1>10, <2>1, <3>1
      <4> QED BY <1>4, <1>10, <3>1, <4>1
    <3>2. CASE raw' = raw
      BY <1>0, <1>2, <3>2 DEF TypeOK
    <3> QED BY <1>1, <3>1, <3>2
  <2>3. abandoned' \subseteq Fds
    BY <1>0, <1>1, <1>6
  <2>4. queue' \subseteq Senders
    BY <1>0, <1>2
  <2> QED BY <1>0, <1>1, <1>2, <1>4, <2>2, <2>3, <2>4 DEF TypeOK
<1>12. Control'
  BY <1>0, <1>1, <1>2, <1>5 DEF Control, Serving, Reading
<1>13. Sockets'
  BY <1>0, <1>2, <1>3, <1>7, <1>9 DEF Sockets
<1>14. \A n \in Fds : table[n].kind = "buffer" <=> n \in abandoned
  BY <1>0, <1>5 DEF Owned, Numbers
<1>15. Owned'
  <2>1. \A n \in Fds : table'[n].kind = "buffer" <=> n \in Numbers(v) \cup abandoned
    BY <1>9, <1>14
  <2>2. Numbers(<<>>) = {} /\ Len(<<>>) = 0
    BY DEF Numbers
  <2>3. \A i \in DOMAIN v : i \in Nat
    BY <1>4
  <2>4. \A i \in DOMAIN v : table'[v[i]] = Buffer(Peer', Len(fds') + i)
    BY <1>2, <1>4, <1>5, <1>7, <2>2, <2>3
  <2>5. CASE raw' = v /\ abandoned' = abandoned
    BY <1>2, <1>5, <2>1, <2>2, <2>4, <2>5 DEF Owned
  <2>6. CASE abandoned' = abandoned \cup Numbers(v) /\ raw' = raw
    BY <1>2, <1>5, <2>1, <2>2, <2>6 DEF Owned
  <2> QED BY <1>1, <2>5, <2>6
<1>16. Letters'
  <2>1. \A s \in queue' : sender'[s] = "sent"
    BY <1>0, <1>2 DEF Letters
  <2>2. \A n \in Fds : table'[n].kind = "buffer" =>
           /\ table'[n].of \in Senders
           /\ sender'[table'[n].of] = "sent"
           /\ table'[n].of \notin queue'
    BY <1>0, <1>2, <1>3, <1>9 DEF Letters
  <2>3. \A n \in abandoned : message'[table'[n].of].kind = "short"
    BY <1>0, <1>2, <1>9, <1>14 DEF Letters
  <2>4. \A n \in abandoned' : message'[table'[n].of].kind = "short"
    BY <1>1, <1>2, <1>8, <2>3
  <2>5. Reading' => /\ sender'[Peer'] = "sent"
                    /\ Peer' \notin queue'
                    /\ message'[Peer'].kind # "short"
                    /\ Len(fds') + Len(raw') <= message'[Peer'].count
    <3> SUFFICES ASSUME pc' = "own"
                 PROVE  /\ sender'[Peer'] = "sent"
                        /\ Peer' \notin queue'
                        /\ message'[Peer'].kind # "short"
                        /\ Len(fds') + Len(raw') <= message'[Peer'].count
      BY <1>1 DEF Reading
    <3>1. message[Peer].kind # "short" /\ raw' = v
      BY <1>1
    <3>2. Len(fds') = 0
      BY <1>2, <1>5
    <3>3. Len(fds') + Len(raw') = Len(v)
      BY <1>10, <3>1, <3>2
    <3> QED BY <1>2, <1>3, <1>4, <1>7, <3>1, <3>3
  <2> QED BY <2>1, <2>2, <2>4, <2>5 DEF Letters
<1>17. Shown'
  BY <1>0, <1>2 DEF Shown, ShownWhole
<1> QED BY <1>11, <1>12, <1>13, <1>15, <1>16, <1>17 DEF IInv

\* The server leaves its connection for good: it ended, or recvmsg failed.
LEMMA EndOfConnectionStep ==
    ASSUME IInv, EndOfConnection \/ ReceiveFails PROVE IInv'
<1>0. TypeOK /\ Control /\ Sockets /\ Owned /\ Letters /\ Shown
  BY DEF IInv
<1>1. /\ pc = "receive" /\ pc' = "close"
      /\ UNCHANGED <<sender, message, queue, backlog, table, serverFd, clientFd,
                     raw, fds, frames, abandoned, shown>>
  BY DEF EndOfConnection, ReceiveFails, senderVars, linkVars
<1>2. TypeOK'
  BY <1>0, <1>1 DEF TypeOK
<1>3. Control' /\ Sockets'
  BY <1>0, <1>1 DEF Control, Sockets, Serving, Reading, Peer
<1>4. Owned' /\ Letters'
  BY <1>0, <1>1 DEF Owned, Letters, Reading, Peer, Numbers
<1>5. Shown'
  BY <1>0, <1>1 DEF Shown, ShownWhole
<1> QED BY <1>2, <1>3, <1>4, <1>5 DEF IInv

LEMMA OwnNextStep == ASSUME IInv, OwnNext PROVE IInv'
<1>0. /\ TypeOK /\ Control /\ Sockets /\ Owned /\ Letters /\ Shown
      /\ table \in [Fds -> Files] /\ raw \in Seq(Fds) /\ fds \in Seq(Fds)
  BY DEF IInv, TypeOK
<1>1. /\ pc = "own" /\ raw # <<>> /\ fds' = Append(fds, Head(raw)) /\ raw' = Tail(raw)
      /\ UNCHANGED <<sender, message, queue, backlog, pc, serverFd, clientFd,
                     frames, abandoned, shown>>
  BY DEF OwnNext, senderVars, linkVars
<1>2. table' = table
  BY <1>0, GrowingClosesNothing DEF OwnNext
<1>3. /\ fds' \in Seq(Fds) /\ raw' \in Seq(Fds)
      /\ Len(fds') = Len(fds) + 1 /\ Len(raw') = Len(raw) - 1
      /\ \A i \in DOMAIN fds : fds'[i] = fds[i]
      /\ fds'[Len(fds) + 1] = raw[1]
      /\ \A i \in DOMAIN raw' : i + 1 \in DOMAIN raw /\ raw'[i] = raw[i + 1]
      /\ Numbers(fds') \cup Numbers(raw') = Numbers(fds) \cup Numbers(raw)
  BY <1>0, <1>1, HeadMoves
<1>4. Len(fds) \in Nat /\ Len(raw) \in Nat /\ Peer' = Peer
  BY <1>0, <1>1, <1>2 DEF Peer
<1>5. TypeOK'
  <2>1. Len(raw') + Len(fds') <= MaxPlanes
    BY <1>0, <1>3, <1>4 DEF TypeOK
  <2> QED BY <1>0, <1>1, <1>2, <1>3, <2>1 DEF TypeOK
<1>6. Control' /\ Sockets'
  BY <1>0, <1>1, <1>2, <1>4 DEF Control, Sockets, Serving, Reading
<1>7. Owned'
  <2>1. DOMAIN fds' = 1 .. Len(fds) + 1 /\ DOMAIN fds = 1 .. Len(fds)
        /\ DOMAIN raw' = 1 .. Len(raw') /\ 1 \in DOMAIN raw
    BY <1>0, <1>1, <1>3, <1>4
  <2>2. \A i \in DOMAIN fds' : table[fds'[i]] = Buffer(Peer, i)
    <3> SUFFICES ASSUME NEW i \in DOMAIN fds' PROVE table[fds'[i]] = Buffer(Peer, i)
      OBVIOUS
    <3>1. CASE i \in DOMAIN fds
      BY <1>0, <1>3, <3>1 DEF Owned
    <3>2. CASE i = Len(fds) + 1
      BY <1>0, <1>3, <2>1, <3>2 DEF Owned
    <3> QED BY <1>4, <2>1, <3>1, <3>2
  <2>3. \A i \in DOMAIN raw' : table[raw'[i]] = Buffer(Peer, Len(fds') + i)
    <3> SUFFICES ASSUME NEW i \in DOMAIN raw'
                 PROVE  table[raw'[i]] = Buffer(Peer, Len(fds') + i)
      OBVIOUS
    <3>1. table[raw[i + 1]] = Buffer(Peer, Len(fds) + (i + 1))
      BY <1>0, <1>3 DEF Owned
    <3>2. Len(fds) + (i + 1) = Len(fds') + i
      BY <1>3, <1>4, <2>1
    <3> QED BY <1>3, <3>1, <3>2
  <2>4. \A n \in Fds : table[n].kind = "buffer"
           <=> n \in Numbers(fds') \cup Numbers(raw') \cup abandoned
    BY <1>0, <1>3 DEF Owned
  <2> QED BY <1>1, <1>2, <1>4, <2>2, <2>3, <2>4 DEF Owned
<1>8. Letters'
  <2>1. Len(fds') + Len(raw') = Len(fds) + Len(raw)
    BY <1>3, <1>4
  <2> QED BY <1>0, <1>1, <1>2, <1>4, <2>1 DEF Letters, Reading
<1>9. Shown'
  BY <1>0, <1>1 DEF Shown, ShownWhole
<1> QED BY <1>5, <1>6, <1>7, <1>8, <1>9 DEF IInv
LEMMA CallBackStep == ASSUME IInv, CallBack PROVE IInv'
<1>0. /\ TypeOK /\ Control /\ Sockets /\ Owned /\ Letters /\ Shown
      /\ fds \in Seq(Fds) /\ message \in [Senders -> Messages]
  BY DEF IInv, TypeOK
<1>1. /\ pc = "own" /\ pc' = "callback" /\ raw = <<>> /\ Valid(message[Peer])
      /\ shown' = shown \cup {[of |-> Peer,
                               files |-> [i \in DOMAIN fds |-> table[fds[i]]]]}
      /\ UNCHANGED <<sender, message, queue, backlog, table, serverFd, clientFd,
                     raw, fds, frames, abandoned>>
  BY DEF CallBack, senderVars, linkVars
<1>2. Peer \in Senders /\ sender[Peer] = "sent" /\ Len(fds) <= message[Peer].count
  <2>1. Len(raw) = 0 /\ Len(fds) \in Nat
    BY <1>0, <1>1
  <2>2. Len(fds) + Len(raw) <= message[Peer].count
    BY <1>0, <1>1 DEF Letters, Reading
  <2> QED BY <1>0, <1>1, <2>1, <2>2 DEF Letters, Sockets, Serving, Reading
<1>3. TypeOK'
  BY <1>0, <1>1 DEF TypeOK
<1>4. Control' /\ Sockets'
  BY <1>0, <1>1 DEF Control, Sockets, Serving, Reading, Peer
<1>5. Owned'
  BY <1>0, <1>1 DEF Owned, Peer, Numbers
<1>6. Letters'
  BY <1>0, <1>1 DEF Letters, Reading, Peer
<1>7. Shown'
  <2> DEFINE f == [of |-> Peer, files |-> [i \in DOMAIN fds |-> table[fds[i]]]]
  <2>1. message[Peer].kind = "valid" /\ message[Peer].claimed = Len(fds)
    BY <1>1 DEF Valid
  <2>2. DOMAIN fds = 1 .. Len(fds)
    BY <1>0
  <2>3. f.files = [i \in 1 .. message[Peer].claimed |-> Buffer(Peer, i)]
    BY <1>0, <2>1, <2>2 DEF Owned
  <2>4. f.of = Peer
    OBVIOUS
  <2> HIDE DEF f
  <2> QED BY <1>0, <1>1, <1>2, <2>1, <2>3, <2>4 DEF Shown, ShownWhole, f
<1> QED BY <1>3, <1>4, <1>5, <1>6, <1>7 DEF IInv

\* The vector closes the buffers of the frame, and nothing else.
LEMMA VectorGone ==
    ASSUME IInv, Reading, raw = <<>>, table' = Closed(Numbers(fds)), fds' = <<>>,
           pc' \in {"receive", "close"},
           UNCHANGED <<sender, message, queue, serverFd, clientFd, raw, abandoned>>
    PROVE  /\ table' \in [Fds -> Files]
           /\ Peer' = Peer
           /\ \A n \in Fds : table'[n].kind = "buffer" <=> n \in abandoned
           /\ \A n \in abandoned : table'[n] = table[n]
           /\ Sockets' /\ Owned' /\ Letters'
<1>0. /\ TypeOK /\ Control /\ Sockets /\ Owned /\ Letters
      /\ table \in [Fds -> Files] /\ fds \in Seq(Fds) /\ raw \in Seq(Fds)
      /\ abandoned \subseteq Fds
  BY DEF IInv, TypeOK
<1>1. /\ table' \in [Fds -> Files]
      /\ \A n \in Fds : n \in Numbers(fds) => table'[n] = File("free")
      /\ \A n \in Fds : n \notin Numbers(fds) => table'[n] = table[n]
  BY <1>0, ClosedTable
<1>2. \A n \in Numbers(fds) : n \in Fds /\ table[n].kind = "buffer" /\ table[n].of = Peer
  <2>1. \A s, i : Buffer(s, i).of = s
    BY DEF Buffer
  <2>2. \A i \in DOMAIN fds : table[fds[i]].of = Peer
    BY <1>0, <2>1 DEF Owned
  <2> QED BY <1>0, <2>2, OwnedOpen DEF Numbers
<1>3. \A n \in abandoned : n \notin Numbers(fds)
  BY <1>0, <1>2 DEF Letters
<1>4. File("free").kind = "free"
  BY DEF File
<1>5. Numbers(raw) = {}
  BY DEF Numbers
<1>6. \A n \in Fds : table'[n].kind = "buffer" <=> n \in abandoned
  BY <1>0, <1>1, <1>3, <1>4, <1>5 DEF Owned
<1>7. \A n \in abandoned : table'[n] = table[n]
  BY <1>0, <1>1, <1>3
<1>8. clientFd \in Fds /\ table[clientFd].kind = "connection"
  BY <1>0 DEF Control, Sockets, TypeOK, Serving, Reading
<1>9. clientFd \notin Numbers(fds) /\ Peer' = Peer
  BY <1>1, <1>2, <1>8 DEF Peer
<1>10. Sockets'
  <2>1. \A n \in Fds :
           /\ table'[n].kind = "listener" <=> table[n].kind = "listener"
           /\ table'[n].kind = "connection" <=> table[n].kind = "connection"
    BY <1>1, <1>2, <1>4
  <2>2. Peer \in Senders
    BY <1>0 DEF Sockets, Serving, Reading
  <2> QED BY <1>0, <1>9, <2>1, <2>2 DEF Sockets
<1>11. Numbers(fds') = {}
  BY DEF Numbers
<1>12. Owned'
  BY <1>5, <1>6, <1>11 DEF Owned
<1>13. Letters'
  <2>1. \A n \in Fds : table'[n].kind = "buffer" => table'[n] = table[n]
    BY <1>6, <1>7
  <2> QED BY <1>0, <1>7, <2>1 DEF Letters, Reading
<1> QED BY <1>1, <1>6, <1>7, <1>9, <1>10, <1>12, <1>13

LEMMA DiscardStep == ASSUME IInv, Discard PROVE IInv'
<1>0. TypeOK /\ Control /\ Shown /\ Reading
  BY DEF IInv, Discard, Reading
<1>1. /\ pc = "own" /\ pc' = "close" /\ raw = <<>> /\ fds' = <<>>
      /\ table' = Closed(Numbers(fds))
      /\ UNCHANGED <<sender, message, queue, backlog, serverFd, clientFd, raw,
                     frames, abandoned, shown>>
  BY DEF Discard, senderVars, linkVars
<1>2. table' \in [Fds -> Files] /\ Sockets' /\ Owned' /\ Letters'
  BY <1>0, <1>1, VectorGone
<1>3. TypeOK'
  <2>1. Len(raw') + Len(fds') <= MaxPlanes /\ fds' \in Seq(Fds)
    BY <1>1, Constants
  <2> QED BY <1>0, <1>1, <1>2, <2>1 DEF TypeOK
<1>4. Control'
  BY <1>0, <1>1 DEF Control, Serving, Reading
<1>5. Shown'
  BY <1>0, <1>1 DEF Shown, ShownWhole
<1> QED BY <1>2, <1>3, <1>4, <1>5 DEF IInv

LEMMA ReleaseStep == ASSUME IInv, Release PROVE IInv'
<1>0. TypeOK /\ Control /\ Shown /\ Reading
  BY DEF IInv, Release, Reading
<1>1. /\ pc = "callback" /\ fds' = <<>> /\ frames' = frames + 1
      /\ table' = Closed(Numbers(fds))
      /\ pc' = IF MaxFrames # 0 /\ frames' >= MaxFrames THEN "close" ELSE "receive"
      /\ UNCHANGED <<sender, message, queue, backlog, serverFd, clientFd, raw,
                     abandoned, shown>>
  BY DEF Release, senderVars, linkVars
<1>2. raw = <<>> /\ frames \in Nat
  BY <1>0, <1>1 DEF Control, TypeOK
<1>3. table' \in [Fds -> Files] /\ Sockets' /\ Owned' /\ Letters'
  BY <1>0, <1>1, <1>2, VectorGone
<1>4. MaxFrames # 0 => frames' <= MaxFrames
  BY <1>0, <1>1, <1>2, Constants DEF Control
<1>5. TypeOK'
  <2>1. Len(raw') + Len(fds') <= MaxPlanes /\ fds' \in Seq(Fds)
    BY <1>1, <1>2, Constants
  <2> QED BY <1>0, <1>1, <1>2, <1>3, <1>4, <2>1 DEF TypeOK
<1>6. Control'
  <2>1. MaxFrames # 0 /\ pc' = "receive" => frames' < MaxFrames
    BY <1>1, <1>2, Constants
  <2> QED BY <1>0, <1>1, <1>2, <2>1 DEF Control, Serving, Reading
<1>7. Shown'
  BY <1>0, <1>1 DEF Shown, ShownWhole
<1> QED BY <1>3, <1>5, <1>6, <1>7 DEF IInv

\* A socket is closed while no frame is being read.
LEMMA SocketGone ==
    ASSUME IInv, raw = <<>>, fds = <<>>, NEW n \in Fds,
           table[n].kind \in {"listener", "connection"}, table' = Closed({n}),
           queue' \subseteq queue, ~Reading',
           UNCHANGED <<sender, message, raw, fds, abandoned>>
    PROVE  /\ table' \in [Fds -> Files]
           /\ \A k \in Fds : k # n => table'[k] = table[k]
           /\ table'[n].kind = "free"
           /\ Owned' /\ Letters'
<1>0. /\ Owned /\ Letters /\ table \in [Fds -> Files] /\ abandoned \subseteq Fds
  BY DEF IInv, TypeOK
<1>1. /\ table' \in [Fds -> Files] /\ table'[n] = File("free")
      /\ \A k \in Fds : k # n => table'[k] = table[k]
  BY <1>0, ClosedTable
<1>2. table'[n].kind = "free"
  BY <1>1 DEF File
<1>3. \A k \in Fds : table'[k].kind = "buffer" => k # n /\ table'[k] = table[k]
  BY <1>1, <1>2
<1>4. Numbers(raw) = {} /\ Numbers(fds) = {}
  BY DEF Numbers
<1>5. n \notin abandoned /\ (\A k \in abandoned : table'[k] = table[k])
  BY <1>0, <1>1 DEF Owned
<1>6. \A k \in Fds : table'[k].kind = "buffer" <=> k \in abandoned
  BY <1>0, <1>1, <1>2, <1>4, <1>5 DEF Owned
<1>7. Owned'
  <2>1. Numbers(raw') = {} /\ Numbers(fds') = {}
    BY <1>4
  <2>2. DOMAIN raw' = {} /\ DOMAIN fds' = {} /\ abandoned' = abandoned
    OBVIOUS
  <2>3. /\ \A i \in DOMAIN fds' : table'[fds'[i]] = Buffer(Peer', i)
        /\ \A i \in DOMAIN raw' : table'[raw'[i]] = Buffer(Peer', Len(fds') + i)
    BY <2>2
  <2>4. \A k \in Fds : table'[k].kind = "buffer"
                          <=> k \in Numbers(fds') \cup Numbers(raw') \cup abandoned'
    BY <1>6, <2>1, <2>2
  <2> QED BY <2>3, <2>4 DEF Owned, Numbers
<1>8. Letters'
  BY <1>0, <1>3, <1>5 DEF Letters
<1> QED BY <1>1, <1>2, <1>7, <1>8

LEMMA CloseClientStep == ASSUME IInv, CloseClient PROVE IInv'
<1>0. TypeOK /\ Control /\ Sockets /\ Shown
  BY DEF IInv
<1>1. /\ pc = "close" /\ pc' = "accept" /\ clientFd' = NoFd
      /\ table' = Closed({clientFd}) /\ queue' = queue \ {Peer}
      /\ UNCHANGED <<sender, message, backlog, serverFd, raw, fds, frames,
                     abandoned, shown>>
  BY DEF CloseClient, senderVars
<1>2. raw = <<>> /\ fds = <<>> /\ clientFd \in Fds /\ table[clientFd].kind = "connection"
  BY <1>0, <1>1 DEF Control, Serving, Reading, Sockets, TypeOK
<1>3. ~Reading' /\ queue' \subseteq queue
  BY <1>1 DEF Reading
<1>4. /\ table' \in [Fds -> Files] /\ Owned' /\ Letters'
      /\ \A k \in Fds : k # clientFd => table'[k] = table[k]
      /\ table'[clientFd].kind = "free"
  BY <1>1, <1>2, <1>3, SocketGone
<1>5. TypeOK'
  <2>1. queue' \in SUBSET Senders /\ clientFd' \in Fds \cup {NoFd}
    BY <1>0, <1>1 DEF TypeOK
  <2>2. pc' \in {"accept", "receive", "own", "callback", "close", "returned"}
    BY <1>1
  <2> QED BY <1>0, <1>1, <1>4, <2>1, <2>2 DEF TypeOK
<1>6. Control'
  BY <1>0, <1>1, <1>2 DEF Control, Serving, Reading
<1>7. Sockets'
  BY <1>0, <1>1, <1>2, <1>4, Constants DEF Sockets, Serving
<1>8. Shown'
  BY <1>0, <1>1 DEF Shown, ShownWhole
<1> QED BY <1>4, <1>5, <1>6, <1>7, <1>8 DEF IInv

LEMMA ReturnStep == ASSUME IInv, Return PROVE IInv'
<1>0. TypeOK /\ Control /\ Sockets /\ Shown
  BY DEF IInv
<1>1. /\ pc = "accept" /\ pc' = "returned" /\ serverFd' = NoFd /\ backlog' = <<>>
      /\ table' = Closed({serverFd}) /\ queue' = queue \ Numbers(backlog)
      /\ UNCHANGED <<sender, message, clientFd, raw, fds, frames, abandoned, shown>>
  BY DEF Return, senderVars
<1>2. /\ raw = <<>> /\ fds = <<>> /\ serverFd \in Fds
      /\ table[serverFd].kind = "listener" /\ clientFd = NoFd
  BY <1>0, <1>1 DEF Control, Serving, Reading, Sockets, TypeOK
<1>3. ~Reading' /\ queue' \subseteq queue
  BY <1>1 DEF Reading
<1>4. /\ table' \in [Fds -> Files] /\ Owned' /\ Letters'
      /\ \A k \in Fds : k # serverFd => table'[k] = table[k]
      /\ table'[serverFd].kind = "free"
  BY <1>1, <1>2, <1>3, SocketGone
<1>5. TypeOK'
  <2>1. queue' \in SUBSET Senders /\ serverFd' \in Fds \cup {NoFd}
        /\ backlog' \in Seq(Senders)
    BY <1>0, <1>1 DEF TypeOK
  <2>2. pc' \in {"accept", "receive", "own", "callback", "close", "returned"}
    BY <1>1
  <2> QED BY <1>0, <1>1, <1>4, <2>1, <2>2 DEF TypeOK
<1>6. Control'
  BY <1>0, <1>1, <1>2 DEF Control, Serving, Reading
<1>7. Sockets'
  BY <1>0, <1>1, <1>2, <1>4, Constants DEF Sockets, Serving
<1>8. Shown'
  BY <1>0, <1>1 DEF Shown, ShownWhole
<1> QED BY <1>4, <1>5, <1>6, <1>7, <1>8 DEF IInv

LEMMA NextIInv == IInv /\ [Next]_vars => IInv'
<1> SUFFICES ASSUME IInv, [Next]_vars PROVE IInv'
  OBVIOUS
<1>1. CASE Accept
  BY <1>1, AcceptStep
<1>2. CASE Receive
  BY <1>2, ReceiveStep
<1>3. CASE EndOfConnection \/ ReceiveFails
  BY <1>3, EndOfConnectionStep
<1>4. CASE OwnNext
  BY <1>4, OwnNextStep
<1>5. CASE CallBack
  BY <1>5, CallBackStep
<1>6. CASE Discard
  BY <1>6, DiscardStep
<1>7. CASE Release
  BY <1>7, ReleaseStep
<1>8. CASE CloseClient
  BY <1>8, CloseClientStep
<1>9. CASE Return
  BY <1>9, ReturnStep
<1>10. CASE OtherThread
  BY <1>10, OtherThreadStep
<1>11. CASE \E s \in Senders : Connect(s)
  <2>1. PICK s \in Senders : Connect(s)
    BY <1>11
  <2>2. backlog' \in Seq(Senders)
    BY <2>1 DEF Connect, IInv, TypeOK
  <2> QED BY <2>1, <2>2, SenderMoves DEF Connect
<1>12. CASE \E s \in Senders, m \in Messages : SendDescriptor(s, m)
  BY <1>12, SendDescriptorStep
<1>13. CASE \E s \in Senders : SendFails(s)
  <2>1. PICK s \in Senders : SendFails(s)
    BY <1>13
  <2>2. backlog' \in Seq(Senders)
    BY <2>1 DEF SendFails, linkVars, IInv, TypeOK
  <2> QED BY <2>1, <2>2, SenderMoves DEF SendFails, linkVars
<1>14. CASE UNCHANGED vars
  <2>1. /\ TypeOK /\ Control /\ Sockets /\ Owned /\ Letters /\ Shown
        /\ UNCHANGED <<sender, message, queue, backlog, table, pc, serverFd, clientFd,
                       raw, fds, frames, abandoned, shown>>
    BY <1>14 DEF IInv, vars, senderVars, linkVars
  <2>2. TypeOK' /\ Control' /\ Sockets'
    BY <2>1 DEF TypeOK, Control, Sockets, Serving, Reading, Peer
  <2>3. Owned' /\ Letters' /\ Shown'
    BY <2>1 DEF Owned, Letters, Shown, ShownWhole, Reading, Peer, Numbers
  <2> QED BY <2>2, <2>3 DEF IInv
<1> QED BY <1>1, <1>2, <1>3, <1>4, <1>5, <1>6, <1>7, <1>8, <1>9, <1>10, <1>11,
           <1>12, <1>13, <1>14 DEF Next, Server

\* IInv holds in every reachable state.
THEOREM Invariance == Spec => []IInv
<1> QED BY InitIInv, NextIInv, PTL DEF Spec
----------------------------------------------------------------------------
(***************************************************************************)
(* The theorems.                                                           *)
(***************************************************************************)
\* The variables hold values of their types, a frame has at most MaxPlanes
\* descriptors, and no more frames than the limit are counted.
THEOREM TypeCorrect == Spec => []TypeOK
<1>1. IInv => TypeOK
  BY DEF IInv
<1> QED BY <1>1, Invariance, PTL

\* Every number has one owner, and every owner's number is open.
THEOREM OneOwner == Spec => []OwnedOnce
<1>1. IInv => OwnedOnce
  <2> SUFFICES ASSUME IInv PROVE OwnedOnce
    OBVIOUS
  <2> DEFINE all == fds \o raw
  <2>0. /\ Sockets /\ Owned /\ fds \in Seq(Fds) /\ raw \in Seq(Fds)
    BY DEF IInv, TypeOK
  <2>1. /\ Len(fds) \in Nat /\ Len(raw) \in Nat
        /\ DOMAIN fds = 1 .. Len(fds) /\ DOMAIN raw = 1 .. Len(raw)
        /\ DOMAIN all = 1 .. Len(fds) + Len(raw)
        /\ \A i \in DOMAIN all : all[i] = IF i <= Len(fds) THEN fds[i]
                                            ELSE raw[i - Len(fds)]
    BY <2>0
  <2> HIDE DEF all
  <2>2. \A i \in DOMAIN all : table[all[i]] = Buffer(Peer, i)
    <3> SUFFICES ASSUME NEW i \in DOMAIN all PROVE table[all[i]] = Buffer(Peer, i)
      OBVIOUS
    <3>1. CASE i <= Len(fds)
      <4>1. i \in DOMAIN fds /\ all[i] = fds[i]
        BY <2>1, <3>1
      <4> QED BY <2>0, <4>1 DEF Owned
    <3>2. CASE ~(i <= Len(fds))
      <4>1. /\ i - Len(fds) \in DOMAIN raw /\ all[i] = raw[i - Len(fds)]
            /\ Len(fds) + (i - Len(fds)) = i
        BY <2>1, <3>2
      <4>2. table[raw[i - Len(fds)]] = Buffer(Peer, Len(fds) + (i - Len(fds)))
        BY <2>0, <4>1 DEF Owned
      <4> QED BY <4>1, <4>2
    <3> QED BY <3>1, <3>2
  <2>3. \A i, j \in DOMAIN all : all[i] = all[j] => i = j
    <3>1. \A s, i : Buffer(s, i).plane = i
      BY DEF Buffer
    <3> QED BY <2>2, <3>1
  <2>4. Numbers(all) = Numbers(fds) \cup Numbers(raw)
    <3>1. ASSUME NEW i \in DOMAIN all PROVE all[i] \in Numbers(fds) \cup Numbers(raw)
      <4>1. i \in DOMAIN fds \/ i - Len(fds) \in DOMAIN raw
        BY <2>1
      <4>2. CASE i <= Len(fds)
        BY <2>1, <4>2 DEF Numbers
      <4>3. CASE ~(i <= Len(fds))
        <5>1. i - Len(fds) \in DOMAIN raw /\ all[i] = raw[i - Len(fds)]
          BY <2>1, <4>3
        <5> QED BY <5>1 DEF Numbers
      <4> QED BY <4>2, <4>3
    <3>2. ASSUME NEW i \in DOMAIN fds PROVE fds[i] \in Numbers(all)
      <4>1. i \in DOMAIN all /\ all[i] = fds[i]
        BY <2>1
      <4> QED BY <4>1 DEF Numbers
    <3>3. ASSUME NEW i \in DOMAIN raw PROVE raw[i] \in Numbers(all)
      <4>1. Len(fds) + i \in DOMAIN all /\ all[Len(fds) + i] = raw[i]
        BY <2>1
      <4> QED BY <4>1 DEF Numbers
    <3> QED BY <3>1, <3>2, <3>3 DEF Numbers
  <2>5. \A n \in Fds : table[n].kind = "buffer" <=> n \in Numbers(all) \cup abandoned
    BY <2>0, <2>4 DEF Owned
  <2> QED BY <2>0, <2>2, <2>3, <2>5 DEF OwnedOnce, Sockets, all
<1> QED BY <1>1, Invariance, PTL

\* A frame given to the callback has the first buffers its sender sent, as many
\* as its descriptor tells, in their order and open.
THEOREM FramesWhole == Spec => []ShownWhole
<1>1. IInv => ShownWhole
  BY DEF IInv, Shown
<1> QED BY <1>1, Invariance, PTL
----------------------------------------------------------------------------
(***************************************************************************)
(* The server implements FrameCustody.  Own(s) is what of the frame of s   *)
(* is open in the server's process: before a message is read nothing, then *)
(* what the server owns of it, or what a short descriptor left.            *)
(***************************************************************************)
Own(s) == {n \in Fds : table[n].kind = "buffer" /\ table[n].of = s}

Place == [s \in Senders |-> PlaceOf(s)]

\* Open buffers tell the place of their frame.
LEMMA OwnTells ==
    ASSUME IInv, NEW s \in Senders, Own(s) # {}
    PROVE  /\ sender[s] = "sent" /\ s \notin queue
           /\ \/ Own(s) \subseteq abandoned
              \/ Reading /\ s = Peer /\ ~(Own(s) \subseteq abandoned)
<1>0. Control /\ Owned /\ Letters
  BY DEF IInv
<1>1. sender[s] = "sent" /\ s \notin queue
  BY <1>0 DEF Own, Letters
<1>2. ASSUME NEW n \in Own(s), n \notin abandoned PROVE Reading /\ s = Peer
  <2>1. n \in Numbers(fds) \cup Numbers(raw)
    BY <1>0, <1>2 DEF Own, Owned
  <2>2. \A t, i : Buffer(t, i).of = t
    BY DEF Buffer
  <2>3. (fds # <<>> \/ raw # <<>>) /\ table[n].of = Peer
    BY <1>0, <2>1, <2>2 DEF Numbers, Owned
  <2> QED BY <1>0, <1>2, <2>3 DEF Control, Reading, Own
<1> QED BY <1>1, <1>2

\* What the vector and the control message hold is the open part of the frame
\* that is being received.
LEMMA PeerOwns ==
    ASSUME IInv, Reading
    PROVE  /\ Peer \in Senders /\ sender[Peer] = "sent" /\ Peer \notin queue
           /\ Own(Peer) = Numbers(fds) \cup Numbers(raw)
           /\ Own(Peer) \cap abandoned = {}
<1>0. /\ Sockets /\ Owned /\ Letters /\ fds \in Seq(Fds) /\ raw \in Seq(Fds)
      /\ abandoned \subseteq Fds
  BY DEF IInv, TypeOK
<1>1. Peer \in Senders /\ sender[Peer] = "sent" /\ Peer \notin queue
      /\ message[Peer].kind # "short"
  BY <1>0 DEF Sockets, Serving, Reading, Letters
<1>2. Own(Peer) \cap abandoned = {}
  BY <1>0, <1>1 DEF Own, Letters
<1>3. \A s, i : Buffer(s, i).of = s /\ Buffer(s, i).kind = "buffer"
  BY DEF Buffer
<1>4. \A n \in Numbers(fds) \cup Numbers(raw) :
         n \in Fds /\ table[n].of = Peer /\ table[n].kind = "buffer"
  <2>1. /\ \A i \in DOMAIN fds : table[fds[i]].of = Peer
        /\ \A i \in DOMAIN raw : table[raw[i]].of = Peer
    BY <1>0, <1>3 DEF Owned
  <2> QED BY <1>0, <2>1, OwnedOpen DEF Numbers
<1>5. ASSUME NEW n \in Own(Peer) PROVE n \in Numbers(fds) \cup Numbers(raw)
  BY <1>0, <1>2, <1>5 DEF Own, Owned
<1>6. ASSUME NEW n \in Numbers(fds) \cup Numbers(raw) PROVE n \in Own(Peer)
  BY <1>4, <1>6 DEF Own
<1> QED BY <1>1, <1>2, <1>5, <1>6

\* A frame stays where it is.
LEMMA SamePlace ==
    ASSUME NEW s \in Senders,
           sender'[s] = "sent" <=> sender[s] = "sent",
           s \in queue' <=> s \in queue,
           Own(s)' = Own(s),
           Own(s) \subseteq abandoned' <=> Own(s) \subseteq abandoned,
           \/ Own(s) \subseteq abandoned
           \/ pc' = "callback" <=> pc = "callback"
    PROVE  PlaceOf(s)' = PlaceOf(s)
<1> QED BY DEF PlaceOf, Own

\* One frame goes to another place.
LEMMA OneMoves ==
    ASSUME NEW s \in Senders, NEW from, NEW to, PlaceOf(s) = from, PlaceOf(s)' = to,
           \A t \in Senders \ {s} : PlaceOf(t)' = PlaceOf(t)
    PROVE  Custody!Move(s, from, to)
<1>1. Place[s] = from
  BY DEF Place
<1>2. Place' = [Place EXCEPT ![s] = to]
  BY DEF Place
<1> QED BY <1>1, <1>2 DEF Custody!Move, Place

\* Frames go where nobody reads them.
LEMMA Refused ==
    ASSUME IInv, ~Reading, ~Reading', NEW S, queue' = queue \ S,
           UNCHANGED <<sender, abandoned>>,
           \A s \in Senders : Own(s)' = Own(s)
    PROVE  Custody!Refuse(queue \cap S)
<1>0. queue \subseteq Senders /\ (\A s \in queue : sender[s] = "sent")
  BY DEF IInv, TypeOK, Letters
<1>1. ASSUME NEW s \in queue \cap S
      PROVE  PlaceOf(s) = "travelling" /\ PlaceOf(s)' = "closed"
  <2>1. Own(s) = {} /\ Own(s)' = {} /\ s \in Senders
    BY <1>0, OwnTells
  <2> QED BY <1>0, <2>1 DEF PlaceOf, Own
<1>2. ASSUME NEW s \in Senders, s \notin queue \cap S
      PROVE  PlaceOf(s)' = PlaceOf(s)
  <2>1. Own(s) \subseteq abandoned
    BY OwnTells
  <2> QED BY <1>2, <2>1, SamePlace
<1>3. \A s \in queue \cap S : Place[s] = "travelling"
  BY <1>0, <1>1 DEF Place
<1>4. Place' = [s \in Senders |-> IF s \in queue \cap S THEN "closed" ELSE Place[s]]
  BY <1>1, <1>2 DEF Place
<1> QED BY <1>3, <1>4 DEF Custody!Refuse, Place

\* Steps that touch no buffer, no message and no callback.
LEMMA Aside ==
    ASSUME IInv, \A s \in Senders : sender'[s] = "sent" <=> sender[s] = "sent",
           UNCHANGED <<queue, abandoned>>,
           \A s \in Senders : Own(s)' = Own(s),
           \/ pc' = "callback" <=> pc = "callback"
           \/ ~Reading
    PROVE  Place' = Place
<1>1. ASSUME NEW s \in Senders PROVE PlaceOf(s)' = PlaceOf(s)
  <2>1. ~Reading => Own(s) \subseteq abandoned
    BY OwnTells
  <2> QED BY <2>1, SamePlace
<1> QED BY <1>1 DEF Place

LEMMA ReceivePlaces == ASSUME IInv, Receive PROVE Custody!Next
<1>0. /\ Letters /\ Owned /\ table \in [Fds -> Files]
      /\ message \in [Senders -> Messages] /\ queue \subseteq Senders
  BY DEF IInv, TypeOK
<1>1. PICK v \in Candidates :
          /\ Installs(message[Peer].count, v)
          /\ table' = Installed(v)
          /\ \/ /\ message[Peer].kind # "short"
                /\ raw' = v
                /\ pc' = "own"
                /\ UNCHANGED abandoned
             \/ /\ message[Peer].kind = "short"
                /\ abandoned' = abandoned \cup Numbers(v)
                /\ pc' = "close"
                /\ UNCHANGED raw
  BY DEF Receive
<1>2. /\ pc = "receive" /\ Peer \in queue /\ queue' = queue \ {Peer}
      /\ UNCHANGED <<sender, message>>
  BY DEF Receive, senderVars
<1>3. PICK p \in Senders : p = Peer
  BY <1>0, <1>2
<1>4. message[p].count \in Planes /\ sender[p] = "sent" /\ p \in queue
  BY <1>0, <1>2, <1>3 DEF Messages, Letters
<1>5. /\ \A i \in DOMAIN v : v[i] \in Free /\ table'[v[i]] = Buffer(p, i)
      /\ \A n \in Fds : n \notin Numbers(v) => table'[n] = table[n]
  BY <1>0, <1>1, <1>3, <1>4, InstalledTable
<1>6. \A n \in Numbers(v) : /\ n \in Fds /\ table[n].kind = "free"
                            /\ table'[n].kind = "buffer" /\ table'[n].of = p
  <2>1. \A s, i : Buffer(s, i).kind = "buffer" /\ Buffer(s, i).of = s
    BY DEF Buffer
  <2> QED BY <1>5, <2>1 DEF Numbers, Free
<1>7. ~Reading /\ (\A s \in Senders : Own(s) \subseteq abandoned)
  BY <1>2, OwnTells DEF Reading
<1>8. Own(p) = {} /\ Own(p)' = Numbers(v)
  <2>1. Own(p) = {}
    BY <1>4, OwnTells
  <2>2. \A n \in Fds : n \in Own(p)' <=> n \in Numbers(v)
    BY <1>5, <1>6, <2>1 DEF Own
  <2>3. Own(p)' \subseteq Fds /\ Numbers(v) \subseteq Fds
    BY <1>6 DEF Own
  <2> QED BY <2>1, <2>2, <2>3
<1>9. ASSUME NEW s \in Senders \ {p} PROVE PlaceOf(s)' = PlaceOf(s)
  <2>1. Own(s)' = Own(s)
    <3>1. \A n \in Fds : n \in Own(s)' <=> n \in Own(s)
      BY <1>5, <1>6 DEF Own
    <3>2. Own(s)' \subseteq Fds /\ Own(s) \subseteq Fds
      BY DEF Own
    <3> QED BY <3>1, <3>2
  <2>2. Own(s) \subseteq abandoned'
    BY <1>1, <1>7
  <2>3. s \in queue' <=> s \in queue
    BY <1>2, <1>3
  <2> QED BY <1>2, <1>7, <2>1, <2>2, <2>3, SamePlace
<1>10. \A s \in Senders : Place[s] \notin {"server", "callback"}
  BY <1>7 DEF Place, PlaceOf, Own
<1>11. PlaceOf(p) = "travelling"
  BY <1>4 DEF PlaceOf
<1>12. sender'[p] = "sent" /\ p \notin queue'
  BY <1>2, <1>3, <1>4
<1>13. CASE Numbers(v) = {}
  <2>1. PlaceOf(p)' = "closed"
    BY <1>8, <1>12, <1>13 DEF PlaceOf, Own
  <2>2. Custody!Move(p, "travelling", "closed")
    BY <1>9, <1>11, <2>1, OneMoves
  <2>3. Custody!Refuse({p})
    BY <2>2 DEF Custody!Move, Custody!Refuse
  <2> QED BY <2>3 DEF Custody!Next
<1>14. CASE Numbers(v) # {} /\ abandoned' = abandoned \cup Numbers(v)
  <2>1. PlaceOf(p)' = "abandoned"
    BY <1>8, <1>12, <1>14 DEF PlaceOf, Own
  <2>2. Custody!Move(p, "travelling", "abandoned")
    BY <1>9, <1>11, <2>1, OneMoves
  <2> QED BY <2>2 DEF Custody!Next, Custody!Abandon
<1>15. CASE Numbers(v) # {} /\ pc' = "own" /\ abandoned' = abandoned
  <2>1. ~(Numbers(v) \subseteq abandoned)
    BY <1>0, <1>6, <1>15 DEF Owned
  <2>2. PlaceOf(p)' = "server"
    BY <1>8, <1>12, <1>15, <2>1 DEF PlaceOf, Own
  <2>3. Custody!Move(p, "travelling", "server")
    BY <1>9, <1>11, <2>2, OneMoves
  <2>4. Custody!Take(p)
    BY <1>10, <2>3 DEF Custody!Take, Place
  <2> QED BY <2>4 DEF Custody!Next
<1> QED BY <1>1, <1>13, <1>14, <1>15

LEMMA CallBackPlaces == ASSUME IInv, CallBack PROVE Custody!Next
<1>0. /\ fds \in Seq(Fds) /\ message \in [Senders -> Messages]
  BY DEF IInv, TypeOK
<1>1. /\ pc = "own" /\ pc' = "callback" /\ raw = <<>> /\ Valid(message[Peer])
      /\ UNCHANGED <<sender, message, queue, table, fds, abandoned>>
  BY DEF CallBack, senderVars, linkVars
<1>2. /\ Peer \in Senders /\ sender[Peer] = "sent" /\ Peer \notin queue
      /\ Own(Peer) = Numbers(fds) \cup Numbers(raw)
      /\ Own(Peer) \cap abandoned = {}
  BY <1>1, PeerOwns DEF Reading
<1>3. PICK p \in Senders : p = Peer
  BY <1>2
<1>4. Own(p) # {} /\ ~(Own(p) \subseteq abandoned)
  <2>1. Len(fds) \in Planes
    BY <1>0, <1>1, <1>2 DEF Valid, Messages
  <2>2. 1 \in DOMAIN fds
    BY <1>0, <2>1 DEF Planes
  <2>3. fds[1] \in Own(p)
    BY <1>2, <1>3, <2>2 DEF Numbers
  <2> QED BY <1>2, <1>3, <2>3
<1>5. \A s \in Senders : Own(s)' = Own(s)
  BY <1>1 DEF Own
<1>6. ASSUME NEW s \in Senders \ {p} PROVE PlaceOf(s)' = PlaceOf(s)
  <2>1. Own(s) \subseteq abandoned
    BY <1>3, OwnTells
  <2> QED BY <1>1, <1>5, <2>1, SamePlace
<1>7. PlaceOf(p) = "server" /\ PlaceOf(p)' = "callback"
  BY <1>1, <1>2, <1>3, <1>4, <1>5 DEF PlaceOf, Own
<1>8. Custody!Move(p, "server", "callback")
  BY <1>6, <1>7, OneMoves
<1> QED BY <1>8 DEF Custody!Next, Custody!Show

\* The vector gone, its frame is closed, or was already when it held nothing.
LEMMA VectorGonePlaces ==
    ASSUME IInv, Reading, raw = <<>>, table' = Closed(Numbers(fds)), fds' = <<>>,
           pc' \in {"receive", "close"},
           UNCHANGED <<sender, message, queue, serverFd, clientFd, raw, abandoned>>
    PROVE  Custody!Next \/ Place' = Place
<1>0. table \in [Fds -> Files]
  BY DEF IInv, TypeOK
<1>1. /\ Peer \in Senders /\ sender[Peer] = "sent" /\ Peer \notin queue
      /\ Own(Peer) = Numbers(fds) \cup Numbers(raw)
      /\ Own(Peer) \cap abandoned = {}
  BY PeerOwns
<1>2. PICK p \in Senders : p = Peer
  BY <1>1
<1>3. Own(p) = Numbers(fds) /\ Own(p) \cap abandoned = {}
  BY <1>1, <1>2 DEF Numbers
<1>4. /\ \A n \in Fds : n \in Own(p) => table'[n] = File("free")
      /\ \A n \in Fds : n \notin Own(p) => table'[n] = table[n]
  BY <1>0, <1>3, ClosedTable
<1>5. File("free").kind = "free"
  BY DEF File
<1>6. Own(p)' = {}
  BY <1>4, <1>5 DEF Own
<1>7. ASSUME NEW s \in Senders \ {p} PROVE PlaceOf(s)' = PlaceOf(s)
  <2>1. Own(s) \subseteq abandoned
    BY <1>2, OwnTells
  <2>2. \A n \in Fds : n \in Own(s)' <=> n \in Own(s)
    BY <1>4, <1>5 DEF Own
  <2>3. Own(s)' = Own(s)
    BY <2>2 DEF Own
  <2> QED BY <2>1, <2>3, SamePlace
<1>8. PlaceOf(p)' = "closed"
  BY <1>1, <1>2, <1>6 DEF PlaceOf, Own
<1>9. CASE Own(p) = {}
  <2>1. PlaceOf(p) = "closed"
    BY <1>1, <1>2, <1>9 DEF PlaceOf, Own
  <2> QED BY <1>7, <1>8, <2>1 DEF Place
<1>10. CASE Own(p) # {}
  <2>1. PICK from \in {"server", "callback"} : PlaceOf(p) = from
    BY <1>1, <1>2, <1>3, <1>10 DEF PlaceOf, Own
  <2>2. Custody!Move(p, from, "closed")
    BY <1>7, <1>8, <2>1, OneMoves
  <2> QED BY <2>2 DEF Custody!Next, Custody!Close
<1> QED BY <1>9, <1>10

LEMMA SendPlaces ==
    ASSUME IInv, NEW s \in Senders, NEW m \in Messages, SendDescriptor(s, m)
    PROVE  Custody!Next
<1>0. sender \in [Senders -> {"idle", "connected", "sent", "gone"}]
      /\ queue \subseteq Senders
  BY DEF IInv, TypeOK
<1>1. /\ sender[s] = "connected" /\ sender' = [sender EXCEPT ![s] = "sent"]
      /\ queue' = queue \cup {s}
      /\ UNCHANGED <<table, pc, abandoned>>
  BY DEF SendDescriptor, ServerIdle
<1>2. \A t \in Senders : Own(t)' = Own(t)
  BY <1>1 DEF Own
<1>3. PlaceOf(s) = "sender" /\ PlaceOf(s)' = "travelling"
  BY <1>0, <1>1 DEF PlaceOf
<1>4. ASSUME NEW t \in Senders \ {s} PROVE PlaceOf(t)' = PlaceOf(t)
  <2>1. sender'[t] = sender[t] /\ (t \in queue' <=> t \in queue)
    BY <1>0, <1>1
  <2> QED BY <1>1, <1>2, <2>1, SamePlace
<1>5. Custody!Move(s, "sender", "travelling")
  BY <1>3, <1>4, OneMoves
<1> QED BY <1>5 DEF Custody!Next, Custody!Send

\* A socket closed, or a connection accepted, is no buffer.
LEMMA SameBuffers ==
    ASSUME \A n \in Fds : \/ table'[n] = table[n]
                          \/ table[n].kind # "buffer" /\ table'[n].kind # "buffer"
    PROVE  \A s \in Senders : Own(s)' = Own(s)
<1>1. ASSUME NEW s \in Senders, NEW n \in Fds PROVE n \in Own(s)' <=> n \in Own(s)
  BY DEF Own
<1>2. \A s \in Senders : Own(s)' \subseteq Fds /\ Own(s) \subseteq Fds
  BY DEF Own
<1> QED BY <1>1, <1>2

LEMMA CloseClientPlaces == ASSUME IInv, CloseClient PROVE Custody!Next
<1>0. Control /\ Sockets /\ table \in [Fds -> Files] /\ clientFd \in Fds \cup {NoFd}
      /\ queue \subseteq Senders
  BY DEF IInv, TypeOK
<1>1. /\ pc = "close" /\ pc' = "accept" /\ table' = Closed({clientFd})
      /\ queue' = queue \ {Peer} /\ UNCHANGED <<sender, abandoned>>
  BY DEF CloseClient, senderVars
<1>2. clientFd \in Fds /\ table[clientFd].kind = "connection"
  BY <1>0, <1>1 DEF Control, Sockets, Serving
<1>3. /\ table'[clientFd] = File("free")
      /\ \A n \in Fds : n # clientFd => table'[n] = table[n]
  BY <1>0, <1>1, <1>2, ClosedTable
<1>4. \A s \in Senders : Own(s)' = Own(s)
  <2>1. File("free").kind = "free"
    BY DEF File
  <2>2. \A n \in Fds : \/ table'[n] = table[n]
                       \/ table[n].kind # "buffer" /\ table'[n].kind # "buffer"
    BY <1>2, <1>3, <2>1
  <2> QED BY <2>2, SameBuffers
<1>5. PICK S : S = {Peer}
  OBVIOUS
<1>6. queue' = queue \ S
  BY <1>1, <1>5
<1>7. Custody!Refuse(queue \cap S)
  BY <1>1, <1>4, <1>6, Refused DEF Reading
<1>8. queue \cap S \in SUBSET Senders
  BY <1>0
<1> QED BY <1>7, <1>8 DEF Custody!Next

LEMMA ReturnPlaces == ASSUME IInv, Return PROVE Custody!Next
<1>0. Control /\ Sockets /\ table \in [Fds -> Files] /\ serverFd \in Fds \cup {NoFd}
      /\ queue \subseteq Senders
  BY DEF IInv, TypeOK
<1>1. /\ pc = "accept" /\ pc' = "returned" /\ table' = Closed({serverFd})
      /\ queue' = queue \ Numbers(backlog) /\ UNCHANGED <<sender, abandoned>>
  BY DEF Return, senderVars
<1>2. serverFd \in Fds /\ table[serverFd].kind = "listener"
  BY <1>0, <1>1 DEF Control, Sockets
<1>3. /\ table'[serverFd] = File("free")
      /\ \A n \in Fds : n # serverFd => table'[n] = table[n]
  BY <1>0, <1>1, <1>2, ClosedTable
<1>4. \A s \in Senders : Own(s)' = Own(s)
  <2>1. File("free").kind = "free"
    BY DEF File
  <2>2. \A n \in Fds : \/ table'[n] = table[n]
                       \/ table[n].kind # "buffer" /\ table'[n].kind # "buffer"
    BY <1>2, <1>3, <2>1
  <2> QED BY <2>2, SameBuffers
<1>5. PICK S : S = Numbers(backlog)
  OBVIOUS
<1>6. queue' = queue \ S
  BY <1>1, <1>5
<1>7. Custody!Refuse(queue \cap S)
  BY <1>1, <1>4, <1>6, Refused DEF Reading
<1>8. queue \cap S \in SUBSET Senders
  BY <1>0
<1> QED BY <1>7, <1>8 DEF Custody!Next

LEMMA CustodyInitial == Init => Custody!Init
<1> SUFFICES ASSUME Init PROVE Custody!Init
  OBVIOUS
<1>1. \A s \in Senders : PlaceOf(s) = "sender"
  BY DEF Init, PlaceOf
<1> QED BY <1>1 DEF Custody!Init

LEMMA CustodyStep == IInv /\ [Next]_vars => Custody!Next \/ Place' = Place
<1> SUFFICES ASSUME IInv, [Next]_vars PROVE Custody!Next \/ Place' = Place
  OBVIOUS
<1>0. /\ table \in [Fds -> Files] /\ fds \in Seq(Fds)
      /\ sender \in [Senders -> {"idle", "connected", "sent", "gone"}]
  BY DEF IInv, TypeOK
<1>1. CASE Accept
  <2>1. /\ pc = "accept" /\ UNCHANGED <<sender, queue, abandoned>>
    BY <1>1 DEF Accept, senderVars
  <2>2. PICK n \in Free : table' = [table EXCEPT ![n] = Connection(Head(backlog))]
    BY <1>1 DEF Accept
  <2>3. Connection(Head(backlog)).kind = "connection"
    BY DEF Connection
  <2>4. \A k \in Fds : \/ table'[k] = table[k]
                       \/ table[k].kind # "buffer" /\ table'[k].kind # "buffer"
    BY <1>0, <2>2, <2>3 DEF Free
  <2> QED BY <2>1, <2>4, SameBuffers, Aside DEF Reading
<1>2. CASE Receive
  BY <1>2, ReceivePlaces
<1>3. CASE EndOfConnection \/ ReceiveFails
  <2>1. pc = "receive" /\ pc' = "close" /\ UNCHANGED <<sender, queue, table, abandoned>>
    BY <1>3 DEF EndOfConnection, ReceiveFails, senderVars, linkVars
  <2> QED BY <2>1, SameBuffers, Aside DEF Reading
<1>4. CASE OwnNext
  <2>1. table' = table
    BY <1>0, <1>4, GrowingClosesNothing DEF OwnNext
  <2> QED BY <1>4, <2>1, SameBuffers, Aside DEF OwnNext, senderVars, linkVars
<1>5. CASE CallBack
  BY <1>5, CallBackPlaces
<1>6. CASE Discard
  BY <1>6, VectorGonePlaces DEF Discard, senderVars, linkVars, Reading
<1>7. CASE Release
  <2>1. /\ table' = Closed(Numbers(fds)) /\ fds' = <<>> /\ pc = "callback"
        /\ UNCHANGED <<sender, message, queue, serverFd, clientFd, raw, abandoned>>
    BY <1>7 DEF Release, senderVars, linkVars
  <2>2. pc' \in {"receive", "close"}
    BY <1>7 DEF Release
  <2>3. Reading /\ raw = <<>>
    BY <2>1 DEF Reading, IInv, Control
  <2> QED BY <2>1, <2>2, <2>3, VectorGonePlaces
<1>8. CASE CloseClient
  BY <1>8, CloseClientPlaces
<1>9. CASE Return
  BY <1>9, ReturnPlaces
<1>10. CASE OtherThread
  <2>1. UNCHANGED <<sender, queue, abandoned, pc>>
    BY <1>10 DEF OtherThread, senderVars, linkVars
  <2>2. \A k \in Fds : \/ table'[k] = table[k]
                       \/ table[k].kind # "buffer" /\ table'[k].kind # "buffer"
    <3>1. File("other").kind = "other" /\ File("free").kind = "free"
      BY DEF File
    <3>2. CASE \E n \in Free : table' = [table EXCEPT ![n] = File("other")]
      BY <1>0, <3>1, <3>2 DEF Free
    <3>3. CASE \E n \in Fds : table[n].kind = "other" /\ table' = Closed({n})
      BY <1>0, <3>1, <3>3, ClosedTable
    <3> QED BY <1>10, <3>2, <3>3 DEF OtherThread
  <2> QED BY <2>1, <2>2, SameBuffers, Aside
<1>11. CASE \E s \in Senders : Connect(s)
  <2>1. \A s \in Senders : sender'[s] = "sent" <=> sender[s] = "sent"
    BY <1>0, <1>11 DEF Connect
  <2>2. UNCHANGED <<queue, table, pc, abandoned>>
    BY <1>11 DEF Connect, ServerIdle
  <2> QED BY <2>1, <2>2, SameBuffers, Aside
<1>12. CASE \E s \in Senders, m \in Messages : SendDescriptor(s, m)
  BY <1>12, SendPlaces
<1>13. CASE \E s \in Senders : SendFails(s)
  <2>1. \A s \in Senders : sender'[s] = "sent" <=> sender[s] = "sent"
    BY <1>0, <1>13 DEF SendFails
  <2>2. UNCHANGED <<queue, table, pc, abandoned>>
    BY <1>13 DEF SendFails, ServerIdle, linkVars
  <2> QED BY <2>1, <2>2, SameBuffers, Aside
<1>14. CASE UNCHANGED vars
  BY <1>14, SameBuffers, Aside DEF vars, senderVars, linkVars
<1> QED BY <1>1, <1>2, <1>3, <1>4, <1>5, <1>6, <1>7, <1>8, <1>9, <1>10, <1>11,
           <1>12, <1>13, <1>14 DEF Next, Server

\* The transport implements FrameCustody: the descriptors of one frame at a
\* time, shown once at most, closed and never touched again.
THEOREM CustodyKept == Spec => ImplementsCustody
<1>1. IInv /\ [Next]_vars => [Custody!Next]_[s \in Senders |-> PlaceOf(s)]
  BY CustodyStep DEF Place
<1> QED BY <1>1, CustodyInitial, Invariance, PTL
        DEF Spec, ImplementsCustody, Custody!Spec
=============================================================================
