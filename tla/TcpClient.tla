------------------------------ MODULE TcpClient ------------------------------
(***************************************************************************)
(* The threads of TcpClient and the state they share: the UI thread calls  *)
(* Open and Send; every Open starts a thread that runs connectTcp and then *)
(* receiveThread; every connection starts a thread that runs sendThread.   *)
(* All of them use one socketFd, one m_exit and one m_queue, and only the  *)
(* queue is guarded by the mutex.  Close is called by the threads that run *)
(* connectTcp and receiveThread, in steps that others can come between.    *)
(*                                                                         *)
(* A run is one call of Open, and the socket it creates has its number.    *)
(* What receiveThread does with the bytes is in ClientReceive.             *)
(***************************************************************************)
EXTENDS Integers, Sequences, FiniteSets

CONSTANTS
  MaxOpen,      \* bound: calls of Open
  MaxMsg,       \* bound: calls of Send; message m is the m-th
  Parts,        \* writes that a PDU may be cut into
  Fds,          \* descriptor numbers the process has left
  Addresses,    \* what the user may type: "good" and "bad"
  Overlap       \* Open may be called while the thread of an earlier Open runs

ASSUME ClientAssumption ==
  /\ MaxOpen \in Nat
  /\ MaxMsg \in Nat
  /\ Parts \in Nat \ {0}
  /\ Fds \subseteq Nat
  /\ Addresses \subseteq {"good", "bad"}
  /\ Overlap \in BOOLEAN

Runs == 1 .. MaxOpen
Msgs == 1 .. MaxMsg
NoSocket == 0
NoMsg == 0
NoThread == 0
NoFd == -1
NotCalled == -1

VARIABLES
  m_ip,         \* "good" or "bad": does inet_pton accept it
  m_exit, socketFd, m_queue,    \* members of the client
  mtx,          \* the sender that holds the mutex, or NoThread
  fdTable,      \* the socket each descriptor number stands for
  connected,    \* sockets that are connected
  ended,        \* sockets whose server has closed or reset them
  stalled,      \* sockets a write is blocked on, and whose server reads no more
  runPc,        \* where the thread of a run is
  reading,      \* the socket its read is blocked on
  sendPc,       \* where the sender of a run is
  base, part,   \* the message it writes, and how many parts are written
  writing,      \* the socket its write is blocked on, NotCalled between two writes
  opened, sent, \* how many calls of Open and Send there were
  ui,           \* "idle", or "lock": in Send, before the mutex is taken
  wire,         \* history: the parts written, in order, with their socket
  lost          \* history: messages given up by a sender that reports it

members == <<m_exit, socketFd, m_ip>>
kernel == <<fdTable, connected, ended, stalled>>
run == <<runPc, reading>>
sender == <<sendPc, base, part, writing>>
user == <<opened, sent, ui>>
history == <<wire, lost>>
vars == <<members, m_queue, mtx, kernel, run, sender, user, history>>

Init ==
  /\ m_ip = "good"
  /\ m_exit = FALSE
  /\ socketFd = 0
  /\ m_queue = <<>>
  /\ mtx = NoThread
  /\ fdTable = [fd \in Fds |-> NoSocket]
  /\ connected = {}
  /\ ended = {}
  /\ stalled = {}
  /\ runPc = [r \in Runs |-> "none"]
  /\ reading = [r \in Runs |-> NoSocket]
  /\ sendPc = [r \in Runs |-> "none"]
  /\ base = [r \in Runs |-> NoMsg]
  /\ part = [r \in Runs |-> 0]
  /\ writing = [r \in Runs |-> NotCalled]
  /\ opened = 0
  /\ sent = 0
  /\ ui = "idle"
  /\ wire = <<>>
  /\ lost = {}

FreeFds == {fd \in Fds : fdTable[fd] = NoSocket}

(* The number the kernel gives out, the lowest free one, if there is one. *)
NewFd == {fd \in FreeFds : \A other \in FreeFds : fd <= other}

(* The socket a system call on socketFd reaches, NoSocket for EBADF. *)
Socket == IF socketFd \in Fds THEN fdTable[socketFd] ELSE NoSocket

Waiting == {s \in Runs : sendPc[s] = "waiting"}
Woken == {s \in Runs : sendPc[s] = "woken"}

(* Faulty variant: nobody is notified. *)
NotifyNone == UNCHANGED sendPc

(* notify_one: one of the threads in interrupt.wait, if there is one. *)
NotifyOne ==
  \/ Waiting = {} /\ UNCHANGED sendPc
  \/ \E s \in Waiting : sendPc' = [sendPc EXCEPT ![s] = "woken"]

-----------------------------------------------------------------------------
(* The UI thread. *)

Quiet == \A r \in Runs : runPc[r] \in {"none", "bad address", "done"}

Open ==
  /\ ui = "idle"
  /\ opened < MaxOpen
  /\ Overlap \/ Quiet
  /\ m_exit' = FALSE
  /\ m_ip' \in Addresses
  /\ opened' = opened + 1
  /\ runPc' = [runPc EXCEPT ![opened'] = "socket"]
  /\ UNCHANGED <<socketFd, m_queue, mtx, kernel, reading, sender, sent, ui, history>>

Send ==
  /\ ui = "idle"
  /\ sent < MaxMsg
  /\ ui' = "lock"
  /\ UNCHANGED <<members, m_queue, mtx, kernel, run, sender, opened, sent, history>>

SendLocked ==
  /\ ui = "lock"
  /\ mtx = NoThread
  /\ m_queue' = Append(m_queue, sent + 1)
  /\ sent' = sent + 1
  /\ NotifyOne
  /\ ui' = "idle"
  /\ UNCHANGED <<members, mtx, kernel, run, base, part, writing, opened, history>>

-----------------------------------------------------------------------------
(* connectTcp *)

Go(r, pc) == runPc' = [runPc EXCEPT ![r] = pc]

(* socketFd = socket(...) *)
CreateSocket(r) ==
  /\ runPc[r] = "socket"
  /\ \/ /\ socketFd' \in NewFd
        /\ fdTable' = [fdTable EXCEPT ![socketFd'] = r]
     \/ /\ FreeFds = {}
        /\ socketFd' = NoFd
        /\ fdTable' = fdTable
  /\ Go(r, "created")
  /\ UNCHANGED <<m_exit, m_ip, m_queue, mtx, connected, ended, stalled, reading, sender, user, history>>

(* if (socketFd < 0): the member is read again, and may be another's by now. *)
CheckSocket(r) ==
  /\ runPc[r] = "created"
  /\ Go(r, IF socketFd < 0 THEN "done" ELSE "address")
  /\ UNCHANGED <<members, m_queue, mtx, kernel, reading, sender, user, history>>

(* inet_pton(m_ip): on a bad address the thread ends and leaves the socket. *)
CheckAddress(r) ==
  /\ runPc[r] = "address"
  /\ Go(r, IF m_ip = "good" THEN "connect" ELSE "bad address")
  /\ UNCHANGED <<members, m_queue, mtx, kernel, reading, sender, user, history>>

(* connect(socketFd) = 0, onConnect, and the sender is started. *)
ConnectSucceeds(r) ==
  /\ runPc[r] = "connect"
  /\ Socket # NoSocket
  /\ Socket \notin connected
  /\ connected' = connected \cup {Socket}
  /\ sendPc' = [sendPc EXCEPT ![r] = "check"]
  /\ Go(r, "read")
  /\ UNCHANGED <<members, m_queue, mtx, fdTable, ended, stalled, reading, base, part, writing, user, history>>

(* Faulty variant: the error is reported, the socket is not closed. *)
ConnectFailsOpen(r) ==
  /\ runPc[r] = "connect"
  /\ Go(r, "done")
  /\ UNCHANGED <<members, m_queue, mtx, kernel, reading, sender, user, history>>

(* Refused, EBADF, EISCONN: Close, then onDisconnect. *)
ConnectFails(r) ==
  /\ runPc[r] = "connect"
  /\ Go(r, "close")
  /\ UNCHANGED <<members, m_queue, mtx, kernel, reading, sender, user, history>>

-----------------------------------------------------------------------------
(* receiveThread *)

(* read(socketFd) is called on what socketFd stands for now. *)
Read(r) ==
  /\ runPc[r] = "read"
  /\ reading' = [reading EXCEPT ![r] = Socket]
  /\ Go(r, "blocked")
  /\ UNCHANGED <<members, m_queue, mtx, kernel, sender, user, history>>

ReadData(r) ==
  /\ runPc[r] = "blocked"
  /\ reading[r] \in connected \ ended
  /\ Go(r, "read")
  /\ UNCHANGED <<members, m_queue, mtx, kernel, reading, sender, user, history>>

(* Faulty variant: 0 is taken for an empty read. *)
ReadEndsNot(r) ==
  /\ runPc[r] = "blocked"
  /\ reading[r] \notin connected \ ended
  /\ Go(r, "read")
  /\ UNCHANGED <<members, m_queue, mtx, kernel, reading, sender, user, history>>

(* 0 or -1: Close and leave. *)
ReadEnds(r) ==
  /\ runPc[r] = "blocked"
  /\ reading[r] \notin connected \ ended
  /\ Go(r, "close")
  /\ UNCHANGED <<members, m_queue, mtx, kernel, reading, sender, user, history>>

-----------------------------------------------------------------------------
(* Close, from either. *)

(* m_exit = true; interrupt.notify_one(); *)
CloseFlag(r) ==
  /\ runPc[r] = "close"
  /\ m_exit' = TRUE
  /\ NotifyOne
  /\ Go(r, "close fd")
  /\ UNCHANGED <<socketFd, m_ip, m_queue, mtx, kernel, reading, base, part, writing, user, history>>

(* close(socketFd); *)
CloseFd(r) ==
  /\ runPc[r] = "close fd"
  /\ fdTable' = [fd \in Fds |-> IF fd = socketFd THEN NoSocket ELSE fdTable[fd]]
  /\ Go(r, "clear fd")
  /\ UNCHANGED <<members, m_queue, mtx, connected, ended, stalled, reading, sender, user, history>>

(* socketFd = -1; *)
ClearFd(r) ==
  /\ runPc[r] = "clear fd"
  /\ socketFd' = NoFd
  /\ Go(r, "done")
  /\ UNCHANGED <<m_exit, m_ip, m_queue, mtx, kernel, reading, sender, user, history>>

-----------------------------------------------------------------------------
(* sendThread *)

GoSend(s, pc) == sendPc' = [sendPc EXCEPT ![s] = pc]

(* while (!m_exit && socketFd >= 0) *)
CheckExit(s) ==
  /\ sendPc[s] = "check"
  /\ GoSend(s, IF ~m_exit /\ socketFd >= 0 THEN "lock" ELSE "done")
  /\ UNCHANGED <<members, m_queue, mtx, kernel, run, base, part, writing, user, history>>

(* Faulty variant: the lock is released before the message is written. *)
LockUnguarded(s) ==
  /\ sendPc[s] \in {"lock", "woken"}
  /\ mtx = NoThread
  /\ IF m_queue = <<>>
     THEN /\ GoSend(s, "waiting")
          /\ UNCHANGED <<m_queue, mtx, base, part>>
     ELSE /\ GoSend(s, "write")
          /\ m_queue' = Tail(m_queue)
          /\ base' = [base EXCEPT ![s] = Head(m_queue)]
          /\ part' = [part EXCEPT ![s] = 0]
          /\ UNCHANGED mtx
  /\ UNCHANGED <<members, kernel, run, writing, user, history>>

(* Faulty variant: the last message is taken. *)
LockLast(s) ==
  /\ sendPc[s] \in {"lock", "woken"}
  /\ mtx = NoThread
  /\ IF m_queue = <<>>
     THEN /\ GoSend(s, "waiting")
          /\ UNCHANGED <<m_queue, mtx, base, part>>
     ELSE /\ GoSend(s, "write")
          /\ m_queue' = SubSeq(m_queue, 1, Len(m_queue) - 1)
          /\ base' = [base EXCEPT ![s] = m_queue[Len(m_queue)]]
          /\ part' = [part EXCEPT ![s] = 0]
          /\ mtx' = s
  /\ UNCHANGED <<members, kernel, run, writing, user, history>>

(***************************************************************************)
(* The mutex is taken, at the top of the loop or when interrupt.wait is    *)
(* notified, and the predicate !m_queue.empty() is evaluated.  False: the  *)
(* thread waits and the mutex is free.  True: it takes the message and     *)
(* keeps the mutex while it writes.                                        *)
(***************************************************************************)
Lock(s) ==
  /\ sendPc[s] \in {"lock", "woken"}
  /\ mtx = NoThread
  /\ IF m_queue = <<>>
     THEN /\ GoSend(s, "waiting")
          /\ UNCHANGED <<m_queue, mtx, base, part>>
     ELSE /\ GoSend(s, "write")
          /\ m_queue' = Tail(m_queue)
          /\ base' = [base EXCEPT ![s] = Head(m_queue)]
          /\ part' = [part EXCEPT ![s] = 0]
          /\ mtx' = s
  /\ UNCHANGED <<members, kernel, run, writing, user, history>>

(* write(socketFd, ...) is called on what socketFd stands for now. *)
CallWrite(s) ==
  /\ sendPc[s] = "write"
  /\ writing[s] = NotCalled
  /\ writing' = [writing EXCEPT ![s] = Socket]
  /\ UNCHANGED <<members, m_queue, mtx, kernel, run, sendPc, base, part, user, history>>

Returns(s) == writing' = [writing EXCEPT ![s] = NotCalled]

(* Faulty variant: after a short write the whole buffer is written again. *)
WriteWhole(s) ==
  /\ sendPc[s] = "write"
  /\ writing[s] \in connected \ stalled
  /\ Returns(s)
  /\ \E k \in 1 .. Parts :
       /\ part' = [part EXCEPT ![s] = @ + k]
       /\ wire' = wire \o [i \in 1 .. k |-> [socket |-> writing[s], msg |-> base[s], part |-> i]]
  /\ IF part'[s] >= Parts
     THEN /\ GoSend(s, "check")
          /\ base' = [base EXCEPT ![s] = NoMsg]
          /\ mtx' = NoThread
     ELSE UNCHANGED <<sendPc, base, mtx>>
  /\ UNCHANGED <<members, m_queue, kernel, run, user, lost>>

(* The write returns with the next parts on their way. *)
Write(s) ==
  /\ sendPc[s] = "write"
  /\ writing[s] \in connected \ stalled
  /\ Returns(s)
  /\ \E k \in 1 .. Parts - part[s] :
       /\ part' = [part EXCEPT ![s] = @ + k]
       /\ wire' = wire \o [i \in 1 .. k |-> [socket |-> writing[s], msg |-> base[s], part |-> part[s] + i]]
  /\ IF part'[s] = Parts
     THEN /\ GoSend(s, "check")
          /\ base' = [base EXCEPT ![s] = NoMsg]
          /\ mtx' = NoThread
     ELSE UNCHANGED <<sendPc, base, mtx>>
  /\ UNCHANGED <<members, m_queue, kernel, run, user, lost>>

Fails(s) ==
  /\ sendPc[s] = "write"
  /\ writing[s] # NotCalled
  /\ writing[s] \notin connected \ ended

(* Faulty variant: the thread keeps the mutex. *)
GiveUpLocked(s) ==
  /\ Fails(s)
  /\ Returns(s)
  /\ GoSend(s, "done")
  /\ lost' = lost \cup {base[s]}
  /\ base' = [base EXCEPT ![s] = NoMsg]
  /\ UNCHANGED <<members, m_queue, mtx, kernel, run, part, user, wire>>

(* The write returns -1: onDisconnect, and the thread ends. *)
GiveUp(s) ==
  /\ Fails(s)
  /\ Returns(s)
  /\ GoSend(s, "done")
  /\ lost' = lost \cup {base[s]}
  /\ base' = [base EXCEPT ![s] = NoMsg]
  /\ mtx' = NoThread
  /\ UNCHANGED <<members, m_queue, kernel, run, part, user, wire>>

-----------------------------------------------------------------------------
(* The server closes or resets a connection; a write that is blocked returns. *)
ServerEnds(k) ==
  /\ k \in connected \ ended
  /\ ended' = ended \cup {k}
  /\ stalled' = stalled \ {k}
  /\ UNCHANGED <<members, m_queue, mtx, fdTable, connected, run, sender, user, history>>

(* The server reads no more, the buffers are full, and a write waits for them. *)
ServerStalls(k) ==
  /\ k \in connected \ (ended \cup stalled)
  /\ \E s \in Runs : writing[s] = k
  /\ stalled' = stalled \cup {k}
  /\ UNCHANGED <<members, m_queue, mtx, fdTable, connected, ended, run, sender, user, history>>

RunThread(r) ==
  \/ CreateSocket(r) \/ CheckSocket(r) \/ CheckAddress(r) \/ ConnectSucceeds(r) \/ ConnectFails(r)
  \/ Read(r) \/ ReadData(r) \/ ReadEnds(r)
  \/ CloseFlag(r) \/ CloseFd(r) \/ ClearFd(r)

SendThread(s) == CheckExit(s) \/ Lock(s) \/ CallWrite(s) \/ Write(s) \/ GiveUp(s)

Next ==
  \/ Open \/ Send \/ SendLocked
  \/ \E r \in Runs : RunThread(r) \/ SendThread(r) \/ ServerEnds(r) \/ ServerStalls(r)

Spec == Init /\ [][Next]_vars

(***************************************************************************)
(* Every thread that can take a step is scheduled, and a system call       *)
(* returns when the kernel has an answer: connect when it is refused at    *)
(* last, read and write when the connection has ended.  The user and the   *)
(* server owe nothing.  A read may wait for bytes for ever, and a write    *)
(* for a server that does not read: no timeout is set on the socket.       *)
(***************************************************************************)
FairSpec ==
  /\ Spec
  /\ WF_vars(SendLocked)
  /\ \A r \in Runs :
       /\ WF_vars(runPc[r] # "blocked" /\ RunThread(r)) /\ WF_vars(ReadEnds(r))
       /\ WF_vars(SendThread(r))

-----------------------------------------------------------------------------
(* Properties. *)

TypeOK ==
  /\ m_ip \in {"good", "bad"} /\ m_exit \in BOOLEAN
  /\ socketFd \in Fds \cup {0, NoFd}
  /\ m_queue \in Seq(Msgs)
  /\ mtx \in Runs \cup {NoThread}
  /\ fdTable \in [Fds -> Runs \cup {NoSocket}]
  /\ connected \subseteq Runs /\ ended \subseteq connected /\ stalled \subseteq connected \ ended
  /\ runPc \in [Runs -> {"none", "socket", "created", "address", "connect", "read", "blocked",
                         "close", "close fd", "clear fd", "bad address", "done"}]
  /\ reading \in [Runs -> Runs \cup {NoSocket}]
  /\ sendPc \in [Runs -> {"none", "check", "lock", "waiting", "woken", "write", "done"}]
  /\ base \in [Runs -> Msgs \cup {NoMsg}]
  /\ part \in [Runs -> 0 .. Parts]
  /\ writing \in [Runs -> Runs \cup {NoSocket, NotCalled}]
  /\ opened \in 0 .. MaxOpen /\ sent \in 0 .. MaxMsg
  /\ ui \in {"idle", "lock"}
  /\ wire \in Seq([socket : Runs, msg : Msgs, part : 1 .. Parts])
  /\ lost \subseteq Msgs

(* The senders in the write loop. *)
Writers == {s \in Runs : sendPc[s] = "write"}

(***************************************************************************)
(* Messages leave in the order of the calls of Send, and the bytes of two  *)
(* messages never mix, however many senders are alive: the next part of a  *)
(* message follows the part before, or the message was given up, or it is  *)
(* the one that is being written.  A sender gives up one message at most,  *)
(* because it ends with it.                                                *)
(***************************************************************************)
SendOrder ==
  /\ \A i, j \in DOMAIN wire : i < j =>
       \/ wire[i].msg < wire[j].msg
       \/ wire[i].msg = wire[j].msg /\ wire[i].part < wire[j].part
  /\ \A i \in DOMAIN wire :
       wire[i].part < Parts =>
         \/ i < Len(wire) /\ wire[i + 1].msg = wire[i].msg /\ wire[i + 1].part = wire[i].part + 1
         \/ wire[i].msg \in lost
         \/ \E s \in Writers : base[s] = wire[i].msg
  /\ Cardinality(lost) <= Cardinality({s \in Runs : sendPc[s] = "done"})

(* The messages all of whose parts are written. *)
Written == {m \in Msgs : \E i \in DOMAIN wire : wire[i].msg = m /\ wire[i].part = Parts}

(***************************************************************************)
(* However many senders are alive, and whichever connection their writes   *)
(* reach, they are one queue to the caller of Send: the message of the     *)
(* sender that holds the mutex comes before those in m_queue.  So every    *)
(* message is in one place only, and none is lost in silence or sent twice.*)
(***************************************************************************)
Unsent == (IF mtx = NoThread THEN <<>> ELSE <<base[mtx]>>) \o m_queue

Fifo == INSTANCE SendFifo WITH accepted <- sent, pending <- Unsent, written <- Written

ImplementsFifo == Fifo!Spec

(***************************************************************************)
(* No wakeup is lost: while a sender sleeps in interrupt.wait, there are   *)
(* no more messages in the queue than senders that have been notified.     *)
(* Close notifies without a message, and several senders may be alive.     *)
(***************************************************************************)
NoSleepOnWork == Waiting # {} => Len(m_queue) <= Cardinality(Woken)

(***************************************************************************)
(* When no Open comes before the last one has ended, a thread that ends    *)
(* leaves no socket open, however many senders of old connections are      *)
(* still there: the only sockets that leak are those of bad addresses.     *)
(***************************************************************************)
OpenSocketHasThread == \A fd \in Fds : fdTable[fd] # NoSocket => runPc[fdTable[fd]] # "done"

(***************************************************************************)
(* tcp_client.cpp:201: when the buffer is full, the write has to be        *)
(* repeated until the data is complete.  A message that is completely      *)
(* written has gone to one connection as a whole.                          *)
(***************************************************************************)
PduOnOneSocket ==
  \A i, j \in DOMAIN wire :
    wire[i].msg = wire[j].msg /\ wire[i].msg \in Written => wire[i].socket = wire[j].socket

Alive(s) == sendPc[s] \notin {"none", "done"}

(* A sender that holds the mutex is in a write to a server that does not read. *)
SenderStuck == \E s \in Runs : sendPc[s] = "write" /\ writing[s] \in stalled

(***************************************************************************)
(* While a sender is alive the queue is emptied, or the mutex is with a    *)
(* sender that waits for its server to read: then all the senders stop,    *)
(* those of other connections too.  It goes on when that connection ends.  *)
(***************************************************************************)
QueueIsEmptied ==
  (m_queue # <<>> /\ \E s \in Runs : Alive(s))
    ~> (m_queue = <<>> \/ SenderStuck \/ \A s \in Runs : ~Alive(s))

(***************************************************************************)
(* Send, on the UI thread, returns: whoever has the mutex lets it go, in   *)
(* its last write, when the write fails, or when it has nothing to send.   *)
(* The one thing that keeps Send is a server that stays connected and does *)
(* not read, since tcp_client.cpp:203 writes with the mutex of Send held.  *)
(***************************************************************************)
SendReturns == (ui = "lock") ~> (ui = "idle" \/ SenderStuck)

(* The thread of a connection that the server has ended ends. *)
EndedRunEnds == \A r \in Runs : (r \in ended) ~> (runPc[r] = "done")
=============================================================================
