-------------------------- MODULE TcpClient_proofs --------------------------
(***************************************************************************)
(* Proofs about TcpClient, for every number of calls of Open and Send.     *)
(*                                                                         *)
(* ThreadInv says how far the threads of a run are.  On top of it, the     *)
(* mutex is held by the one sender that writes, and no wakeup is lost:     *)
(* the steps that lengthen the queue, or take a sender out of Woken, do    *)
(* both or leave nobody asleep on a message.                               *)
(*                                                                         *)
(* That messages leave in order is an invariant of the whole path of a     *)
(* message: the queue holds consecutive numbers up to the last one sent,   *)
(* the holder of the mutex has the one before them, and what is on the     *)
(* wire is not ahead of either.                                            *)
(***************************************************************************)
EXTENDS TcpClient, FiniteSetTheorems, SequenceTheorems, TLAPS

USE DEF NoMsg, NoThread

RunPcs == {"none", "socket", "created", "address", "connect", "read", "blocked",
           "close", "close fd", "clear fd", "bad address", "done"}
SendPcs == {"none", "check", "lock", "waiting", "woken", "write", "done"}

ThreadInv ==
  /\ runPc \in [Runs -> RunPcs]
  /\ sendPc \in [Runs -> SendPcs]
  /\ opened \in Nat
  /\ \A r \in Runs : r > opened => runPc[r] = "none"
  /\ \A r \in Runs : runPc[r] \in {"none", "socket", "created", "address", "connect"} => sendPc[r] = "none"

(* Actions that move the thread of run r and no sender. *)
LEMMA RunMoves ==
  ASSUME ThreadInv, NEW r \in Runs, NEW pc \in RunPcs \ {"none"},
         Go(r, pc), UNCHANGED <<sendPc, opened>>, r <= opened,
         sendPc[r] = "none" \/ pc \notin {"socket", "created", "address", "connect"}
  PROVE  ThreadInv'
<1>1. runPc' \in [Runs -> RunPcs]
  BY DEF Go, ThreadInv
<1>2. ASSUME NEW q \in Runs PROVE runPc'[q] = IF q = r THEN pc ELSE runPc[q]
  BY DEF Go, ThreadInv
<1>3. \A q \in Runs : q > opened' => runPc'[q] = "none"
  BY <1>2 DEF ThreadInv, Runs
<1>4. QED
  BY <1>1, <1>2, <1>3 DEF ThreadInv

(* A notification moves a sender that is waiting, to "woken". *)
LEMMA NotifyMoves ==
  ASSUME ThreadInv, NotifyOne
  PROVE  /\ sendPc' \in [Runs -> SendPcs]
         /\ \A q \in Runs : sendPc[q] = "none" => sendPc'[q] = "none"
  BY DEF NotifyOne, ThreadInv, Waiting, SendPcs

(* Actions that move a sender and no run. *)
LEMMA SenderMoves ==
  ASSUME ThreadInv, NEW s \in Runs, NEW pc \in SendPcs,
         GoSend(s, pc), UNCHANGED <<runPc, opened>>, sendPc[s] # "none"
  PROVE  ThreadInv'
<1>1. sendPc' \in [Runs -> SendPcs]
  BY DEF GoSend, ThreadInv
<1>2. \A q \in Runs : sendPc[q] = "none" => sendPc'[q] = "none"
  BY DEF GoSend, ThreadInv
<1>3. QED
  BY <1>1, <1>2 DEF ThreadInv

(* A run whose thread has started has been opened. *)
LEMMA StartedIsOpened ==
  ASSUME ThreadInv, NEW r \in Runs, runPc[r] # "none"
  PROVE  r <= opened
  BY DEF ThreadInv, Runs

LEMMA ThreadStep == ThreadInv /\ [Next]_vars => ThreadInv'
<1> SUFFICES ASSUME ThreadInv, [Next]_vars PROVE ThreadInv'
  OBVIOUS
<1> USE DEF user, sender, run, members, kernel, history
<1>1. CASE Open
  <2>1. opened + 1 \in Runs /\ opened' = opened + 1 /\ UNCHANGED sendPc
    BY <1>1, ClientAssumption DEF Open, Runs, ThreadInv
  <2>2. runPc' = [runPc EXCEPT ![opened + 1] = "socket"]
    BY <1>1 DEF Open
  <2>3. sendPc[opened + 1] = "none"
    BY <2>1 DEF ThreadInv, Runs
  <2>4. runPc' \in [Runs -> RunPcs]
    BY <2>2 DEF ThreadInv, RunPcs
  <2>5. \A q \in Runs : q > opened' => runPc'[q] = "none"
    BY <2>1, <2>2 DEF ThreadInv, Runs
  <2>6. \A q \in Runs : runPc'[q] \in {"none", "socket", "created", "address", "connect"} => sendPc'[q] = "none"
    BY <2>1, <2>2, <2>3 DEF ThreadInv
  <2>7. QED
    BY <2>1, <2>4, <2>5, <2>6 DEF ThreadInv
<1>2. CASE Send
  BY <1>2 DEF Send, ThreadInv
<1>3. CASE SendLocked
  BY <1>3, NotifyMoves DEF SendLocked, ThreadInv
<1>4. ASSUME NEW r \in Runs, RunThread(r) PROVE ThreadInv'
  <2> r <= opened
    BY <1>4, StartedIsOpened DEF RunThread, CreateSocket, CheckSocket, CheckAddress, ConnectSucceeds,
       ConnectFails, Read, ReadData, ReadEnds, CloseFlag, CloseFd, ClearFd
  <2>1. CASE CreateSocket(r)
    <3>1. sendPc[r] = "none"
      BY <2>1 DEF CreateSocket, ThreadInv
    <3>2. QED
      BY <2>1, <3>1, RunMoves DEF CreateSocket, RunPcs
  <2>2. CASE CheckSocket(r) \/ CheckAddress(r)
    <3>1. sendPc[r] = "none"
      BY <2>2 DEF CheckSocket, CheckAddress, ThreadInv
    <3>2. QED
      BY <2>2, <3>1, RunMoves DEF CheckSocket, CheckAddress, RunPcs
  <2>3. CASE ConnectSucceeds(r)
    <3>1. /\ runPc' = [runPc EXCEPT ![r] = "read"]
          /\ sendPc' = [sendPc EXCEPT ![r] = "check"]
          /\ UNCHANGED opened
      BY <2>3 DEF ConnectSucceeds, Go
    <3>2. runPc' \in [Runs -> RunPcs] /\ sendPc' \in [Runs -> SendPcs]
      BY <3>1 DEF ThreadInv, RunPcs, SendPcs
    <3>3. \A q \in Runs : q > opened' => runPc'[q] = "none"
      BY <3>1 DEF ThreadInv, Runs
    <3>4. \A q \in Runs : runPc'[q] \in {"none", "socket", "created", "address", "connect"} => sendPc'[q] = "none"
      BY <3>1 DEF ThreadInv
    <3>5. QED
      BY <3>1, <3>2, <3>3, <3>4 DEF ThreadInv
  <2>4. CASE ConnectFails(r) \/ Read(r) \/ ReadData(r) \/ ReadEnds(r) \/ CloseFd(r) \/ ClearFd(r)
    BY <2>4, RunMoves DEF ConnectFails, Read, ReadData, ReadEnds, CloseFd, ClearFd, RunPcs
  <2>5. CASE CloseFlag(r)
    <3>1. runPc[r] = "close" /\ runPc' = [runPc EXCEPT ![r] = "close fd"] /\ UNCHANGED opened
      BY <2>5 DEF CloseFlag, Go
    <3>2. /\ sendPc' \in [Runs -> SendPcs]
          /\ \A q \in Runs : sendPc[q] = "none" => sendPc'[q] = "none"
      BY <2>5, NotifyMoves DEF CloseFlag
    <3>3. runPc' \in [Runs -> RunPcs]
      BY <3>1 DEF ThreadInv, RunPcs
    <3>4. \A q \in Runs : q > opened' => runPc'[q] = "none"
      BY <3>1 DEF ThreadInv, Runs
    <3>5. \A q \in Runs : runPc'[q] \in {"none", "socket", "created", "address", "connect"} => sendPc'[q] = "none"
      BY <3>1, <3>2 DEF ThreadInv
    <3>6. QED
      BY <3>1, <3>2, <3>3, <3>4, <3>5 DEF ThreadInv
  <2>6. QED
    BY <1>4, <2>1, <2>2, <2>3, <2>4, <2>5 DEF RunThread
<1>5. ASSUME NEW s \in Runs, SendThread(s) PROVE ThreadInv'
  <2>1. CASE CheckExit(s)
    BY <2>1, SenderMoves DEF CheckExit, SendPcs
  <2>2. CASE Lock(s)
    BY <2>2, SenderMoves DEF Lock, SendPcs
  <2>3. CASE Write(s)
    <3>1. CASE GoSend(s, "check")
      BY <2>3, <3>1, SenderMoves DEF Write, SendPcs
    <3>2. CASE UNCHANGED sendPc
      BY <2>3, <3>2 DEF Write, ThreadInv
    <3>3. QED
      BY <2>3, <3>1, <3>2 DEF Write
  <2>4. CASE GiveUp(s)
    BY <2>4, SenderMoves DEF GiveUp, Fails, SendPcs
  <2>5. CASE CallWrite(s)
    BY <2>5 DEF CallWrite, ThreadInv
  <2>6. QED
    BY <1>5, <2>1, <2>2, <2>3, <2>4, <2>5 DEF SendThread
<1>6. ASSUME NEW k \in Runs, ServerEnds(k) \/ ServerStalls(k) PROVE ThreadInv'
  BY <1>6 DEF ServerEnds, ServerStalls, ThreadInv
<1>7. CASE UNCHANGED vars
  BY <1>7 DEF vars, ThreadInv
<1>8. QED
  BY <1>1, <1>2, <1>3, <1>4, <1>5, <1>6, <1>7 DEF Next

LEMMA ThreadInit == Init => ThreadInv
  BY DEF Init, ThreadInv, RunPcs, SendPcs

-----------------------------------------------------------------------------
(* No wakeup is lost. *)

WakeInv == ThreadInv /\ m_queue \in Seq(Nat) /\ sent \in Nat /\ NoSleepOnWork

LEMMA WokenFinite ==
  ASSUME NEW S \in SUBSET Runs
  PROVE  IsFiniteSet(S) /\ Cardinality(S) \in Nat
<1>1. IsFiniteSet(Runs)
  BY FS_Interval, ClientAssumption DEF Runs
<1>2. QED
  BY <1>1, FS_Subset, FS_CardinalityType

(* Notifying makes up for one message more. *)
LEMMA NotifyKeepsPace ==
  ASSUME WakeInv, NotifyOne, Len(m_queue') \in Nat, Len(m_queue') <= Len(m_queue) + 1
  PROVE  NoSleepOnWork'
<1> SUFFICES ASSUME Waiting' # {} PROVE Len(m_queue') <= Cardinality(Woken')
  BY DEF NoSleepOnWork
<1> USE DEF WakeInv
<1>1. PICK s \in Waiting : sendPc' = [sendPc EXCEPT ![s] = "woken"]
  BY DEF NotifyOne, Waiting
<1>2. s \notin Woken /\ Woken' = Woken \cup {s}
  BY <1>1 DEF Waiting, Woken, ThreadInv
<1>3. IsFiniteSet(Woken) /\ Cardinality(Woken) \in Nat
  BY WokenFinite DEF Woken
<1>4. Cardinality(Woken') = Cardinality(Woken) + 1
  BY <1>2, <1>3, FS_AddElement
<1>5. Len(m_queue) <= Cardinality(Woken)
  BY <1>1 DEF NoSleepOnWork
<1>6. QED
  BY <1>3, <1>4, <1>5

(* A sender that does not come from "woken", nor go to sleep. *)
LEMMA AwakeMoves ==
  ASSUME WakeInv, NEW s \in Runs, NEW pc, GoSend(s, pc),
         sendPc[s] \notin {"waiting", "woken"}, pc \notin {"waiting", "woken"}
  PROVE  Waiting' = Waiting /\ Woken' = Woken
  BY DEF WakeInv, ThreadInv, GoSend, Waiting, Woken

LEMMA WakeStep == WakeInv /\ [Next]_vars => WakeInv'
<1> SUFFICES ASSUME WakeInv, [Next]_vars
             PROVE  m_queue' \in Seq(Nat) /\ sent' \in Nat /\ NoSleepOnWork'
  BY ThreadStep DEF WakeInv
<1> USE DEF WakeInv, user, sender, run, members, kernel, history
<1>1. CASE UNCHANGED <<sendPc, m_queue, sent>>
  BY <1>1 DEF NoSleepOnWork, Waiting, Woken
<1>2. CASE SendLocked
  <2>1. m_queue' = Append(m_queue, sent + 1) /\ sent' = sent + 1 /\ NotifyOne
    BY <1>2 DEF SendLocked
  <2>2. m_queue' \in Seq(Nat) /\ Len(m_queue') = Len(m_queue) + 1 /\ Len(m_queue) \in Nat
    BY <2>1
  <2>3. QED
    BY <2>1, <2>2, NotifyKeepsPace
<1>3. ASSUME NEW r \in Runs, CloseFlag(r) PROVE m_queue' \in Seq(Nat) /\ sent' \in Nat /\ NoSleepOnWork'
  <2>1. UNCHANGED <<m_queue, sent>> /\ NotifyOne
    BY <1>3 DEF CloseFlag
  <2>2. Len(m_queue) \in Nat
    OBVIOUS
  <2>3. Len(m_queue') \in Nat /\ Len(m_queue') <= Len(m_queue) + 1
    BY <2>1, <2>2
  <2>4. QED
    BY <2>1, <2>3, NotifyKeepsPace
<1>4. ASSUME NEW r \in Runs, ConnectSucceeds(r)
      PROVE  m_queue' \in Seq(Nat) /\ sent' \in Nat /\ NoSleepOnWork'
  <2>1. sendPc[r] = "none" /\ GoSend(r, "check") /\ UNCHANGED <<m_queue, sent>>
    BY <1>4 DEF ConnectSucceeds, GoSend, ThreadInv
  <2>2. Waiting' = Waiting /\ Woken' = Woken
    BY <2>1, AwakeMoves
  <2>3. QED
    BY <2>1, <2>2 DEF NoSleepOnWork
<1>5. ASSUME NEW s \in Runs, CheckExit(s) \/ GiveUp(s) \/ Write(s)
      PROVE  m_queue' \in Seq(Nat) /\ sent' \in Nat /\ NoSleepOnWork'
  <2>1. /\ UNCHANGED <<m_queue, sent>>
        /\ sendPc[s] \in {"check", "write"}
        /\ UNCHANGED sendPc \/ \E pc \in {"check", "lock", "done"} : GoSend(s, pc)
    BY <1>5 DEF CheckExit, GiveUp, Fails, Write
  <2>2. Waiting' = Waiting /\ Woken' = Woken
    BY <2>1, AwakeMoves DEF Waiting, Woken
  <2>3. QED
    BY <2>1, <2>2 DEF NoSleepOnWork
<1>6. ASSUME NEW s \in Runs, Lock(s)
      PROVE  m_queue' \in Seq(Nat) /\ sent' \in Nat /\ NoSleepOnWork'
  <2>1. UNCHANGED sent /\ sendPc[s] \in {"lock", "woken"}
    BY <1>6 DEF Lock
  <2>2. IsFiniteSet(Woken) /\ Cardinality(Woken) \in Nat /\ Cardinality(Woken') \in Nat
    BY WokenFinite DEF Woken
  <2>3. CASE m_queue = <<>>
    <3>1. m_queue' = <<>> /\ Len(m_queue') = 0
      BY <1>6, <2>3 DEF Lock
    <3>2. QED
      BY <2>1, <2>2, <2>3, <3>1 DEF NoSleepOnWork
  <2>4. CASE m_queue # <<>>
    <3>1. m_queue' = Tail(m_queue) /\ sendPc' = [sendPc EXCEPT ![s] = "write"]
      BY <1>6, <2>4 DEF Lock, GoSend
    <3>2. m_queue' \in Seq(Nat) /\ Len(m_queue') = Len(m_queue) - 1 /\ Len(m_queue) \in Nat
      BY <2>4, <3>1
    <3>3. Waiting' = Waiting /\ Woken' = Woken \ {s}
      BY <2>1, <3>1 DEF Waiting, Woken, ThreadInv
    <3>4. Cardinality(Woken') >= Cardinality(Woken) - 1
      <4>1. Cardinality(Woken \ {s}) = IF s \in Woken THEN Cardinality(Woken) - 1 ELSE Cardinality(Woken)
        BY <2>2, FS_RemoveElement
      <4>2. Cardinality(Woken') = Cardinality(Woken \ {s})
        BY <3>3
      <4>3. QED
        BY <2>2, <4>1, <4>2
    <3>5. QED
      BY <2>1, <2>2, <3>2, <3>3, <3>4 DEF NoSleepOnWork
  <2>5. QED
    BY <2>3, <2>4
<1>7. QED
  BY <1>1, <1>2, <1>3, <1>4, <1>5, <1>6 DEF Next, RunThread, SendThread, Open, Send, CreateSocket,
     CheckSocket, CheckAddress, ConnectFails, Read, ReadData, ReadEnds, CloseFd, ClearFd, CallWrite,
     ServerEnds, ServerStalls, vars

(***************************************************************************)
(* No wakeup is lost: while a sender sleeps, there are no more messages in *)
(* the queue than notified senders, for any number of runs and messages.   *)
(***************************************************************************)
THEOREM NoWakeupIsLost == Spec => []NoSleepOnWork
<1>1. Init => WakeInv
  <2> SUFFICES ASSUME Init PROVE WakeInv
    OBVIOUS
  <2>1. m_queue \in Seq(Nat) /\ sent \in Nat
    BY DEF Init
  <2>2. Waiting = {}
    BY DEF Init, Waiting
  <2>3. QED
    BY <2>1, <2>2, ThreadInit DEF WakeInv, NoSleepOnWork
<1>2. WakeInv => NoSleepOnWork
  BY DEF WakeInv
<1>3. QED
  BY <1>1, <1>2, WakeStep, PTL DEF Spec

-----------------------------------------------------------------------------
(* The mutex. *)

MutexInv ==
  /\ ThreadInv
  /\ mtx \in Runs \cup {NoThread}
  /\ \A s \in Runs : sendPc[s] = "write" <=> mtx = s

LEMMA MutexStep == MutexInv /\ [Next]_vars => MutexInv'
<1> SUFFICES ASSUME MutexInv, [Next]_vars
             PROVE  /\ mtx' \in Runs \cup {NoThread}
                    /\ \A s \in Runs : sendPc'[s] = "write" <=> mtx' = s
  BY ThreadStep DEF MutexInv
<1> USE DEF MutexInv, user, sender, run, members, kernel, history
<1>0. NoThread \notin Runs
  BY DEF Runs
<1>1. CASE UNCHANGED <<sendPc, mtx>>
  BY <1>1
<1>2. CASE NotifyOne /\ UNCHANGED mtx
  BY <1>2 DEF NotifyOne, Waiting, ThreadInv
<1>3. ASSUME NEW r \in Runs, ConnectSucceeds(r)
      PROVE  /\ mtx' \in Runs \cup {NoThread}
             /\ \A s \in Runs : sendPc'[s] = "write" <=> mtx' = s
  BY <1>3 DEF ConnectSucceeds, ThreadInv
<1>4. ASSUME NEW t \in Runs, CheckExit(t)
      PROVE  /\ mtx' \in Runs \cup {NoThread}
             /\ \A s \in Runs : sendPc'[s] = "write" <=> mtx' = s
  BY <1>4 DEF CheckExit, GoSend, ThreadInv
<1>5. ASSUME NEW t \in Runs, Lock(t)
      PROVE  /\ mtx' \in Runs \cup {NoThread}
             /\ \A s \in Runs : sendPc'[s] = "write" <=> mtx' = s
  BY <1>0, <1>5 DEF Lock, GoSend, ThreadInv
<1>6. ASSUME NEW t \in Runs, Write(t) \/ GiveUp(t)
      PROVE  /\ mtx' \in Runs \cup {NoThread}
             /\ \A s \in Runs : sendPc'[s] = "write" <=> mtx' = s
  <2>1. sendPc[t] = "write" /\ mtx = t
    BY <1>6 DEF Write, GiveUp, Fails
  <2>2. \/ UNCHANGED <<sendPc, mtx>>
        \/ mtx' = NoThread /\ \E pc \in {"check", "done"} : sendPc' = [sendPc EXCEPT ![t] = pc]
    BY <1>6 DEF Write, GiveUp, GoSend
  <2>3. QED
    BY <1>0, <1>1, <2>1, <2>2 DEF ThreadInv
<1>7. QED
  BY <1>1, <1>2, <1>3, <1>4, <1>5, <1>6 DEF Next, RunThread, SendThread, Open, Send, SendLocked,
     CreateSocket, CheckSocket, CheckAddress, ConnectFails, Read, ReadData, ReadEnds, CloseFlag, CloseFd,
     ClearFd, CallWrite, ServerEnds, ServerStalls, vars

(* At most one sender writes, and UI and senders exclude one another. *)
OneWriter ==
  /\ \A s, t \in Writers : s = t
  /\ mtx = NoThread => Writers = {}

(***************************************************************************)
(* However many senders old connections have left behind, one at a time is *)
(* in the write loop of sendThread.                                        *)
(***************************************************************************)
THEOREM WritersExclude == Spec => []OneWriter
<1>1. Init => MutexInv
  BY ThreadInit DEF Init, MutexInv, Runs
<1>2. MutexInv => OneWriter
  BY DEF MutexInv, OneWriter, Writers, Runs
<1>3. QED
  BY <1>1, <1>2, MutexStep, PTL DEF Spec

-----------------------------------------------------------------------------
(* Types. *)

LEMMA MsgTypes == NoMsg \notin Msgs /\ NoSocket \notin Runs /\ NoThread \notin Runs /\ Msgs \subseteq Nat
  BY ClientAssumption DEF Msgs, Runs, NoSocket

(* What is behind what, when a sequence is appended to another. *)
LEMMA Appended ==
  ASSUME NEW S, NEW old \in Seq(S), NEW k \in Nat, NEW new \in Seq(S), Len(new) = k
  PROVE  /\ old \o new \in Seq(S)
         /\ Len(old \o new) = Len(old) + k
         /\ \A i \in 1 .. Len(old) : (old \o new)[i] = old[i]
         /\ \A i \in 1 .. k : (old \o new)[Len(old) + i] = new[i]
<1>1. /\ old \o new \in Seq(S) /\ Len(old \o new) = Len(old) + k
      /\ \A i \in 1 .. Len(old) + k : (old \o new)[i] = IF i <= Len(old) THEN old[i] ELSE new[i - Len(old)]
  BY ConcatProperties
<1>2. Len(old) \in Nat
  OBVIOUS
<1>3. ASSUME NEW i \in 1 .. Len(old) PROVE (old \o new)[i] = old[i]
  <2>1. i \in 1 .. Len(old) + k /\ i <= Len(old)
    BY <1>2
  <2>2. QED
    BY <1>1, <2>1
<1>4. ASSUME NEW i \in 1 .. k PROVE (old \o new)[Len(old) + i] = new[i]
  <2>1. Len(old) + i \in 1 .. Len(old) + k /\ ~(Len(old) + i <= Len(old)) /\ (Len(old) + i) - Len(old) = i
    BY <1>2
  <2>2. QED
    BY <1>1, <2>1
<1>5. QED
  BY <1>1, <1>3, <1>4

LEMMA SeqOfFunction ==
  ASSUME NEW S, NEW k \in Nat, NEW f \in [1 .. k -> S]
  PROVE  f \in Seq(S) /\ Len(f) = k
  OBVIOUS

LEMMA Sizes == Parts \in Nat /\ 0 < Parts /\ MaxMsg \in Nat /\ MaxOpen \in Nat
  BY ClientAssumption

(* The parts that one write adds. *)
LEMMA WrittenParts ==
  ASSUME TypeOK, NEW s \in Runs, Write(s), base[s] \in Msgs
  PROVE  \E k \in 1 .. Parts :
           /\ part' = [part EXCEPT ![s] = @ + k]
           /\ part[s] \in Nat /\ part'[s] = part[s] + k /\ part'[s] \in 1 .. Parts
           /\ wire' \in Seq([socket : Runs, msg : Msgs, part : 1 .. Parts])
           /\ Len(wire') = Len(wire) + k
           /\ \A i \in 1 .. Len(wire) : wire'[i] = wire[i]
           /\ \A i \in 1 .. k : /\ wire'[Len(wire) + i].msg = base[s]
                               /\ wire'[Len(wire) + i].part = part[s] + i
<1>1. PICK k \in 1 .. Parts - part[s] :
        /\ part' = [part EXCEPT ![s] = @ + k]
        /\ wire' = wire \o [i \in 1 .. k |-> [socket |-> writing[s], msg |-> base[s], part |-> part[s] + i]]
  BY DEF Write
<1>2. part[s] \in Nat /\ Parts \in Nat /\ k \in Nat /\ k >= 1 /\ part[s] + k <= Parts
  <2>1. part[s] \in 0 .. Parts
    BY DEF TypeOK
  <2>2. QED
    BY <2>1, Sizes
<1>3. part'[s] = part[s] + k
  BY <1>1 DEF TypeOK
<1>4. writing[s] \in Runs
  <2>1. writing[s] \in connected
    BY DEF Write
  <2>2. connected \subseteq Runs
    BY DEF TypeOK
  <2>3. QED
    BY <2>1, <2>2
<1> DEFINE new == [i \in 1 .. k |-> [socket |-> writing[s], msg |-> base[s], part |-> part[s] + i]]
           Entries == [socket : Runs, msg : Msgs, part : 1 .. Parts]
<1>5. \A i \in 1 .. k : part[s] + i \in 1 .. Parts
  BY <1>2
<1>6. new \in [1 .. k -> Entries]
  BY <1>4, <1>5
<1>7. new \in Seq(Entries) /\ Len(new) = k
  <2> HIDE DEF new, Entries
  <2>1. QED
    BY <1>2, <1>6, SeqOfFunction
<1>8. \A i \in 1 .. k : new[i].msg = base[s] /\ new[i].part = part[s] + i
  OBVIOUS
<1>9. wire \in Seq(Entries) /\ wire' = wire \o new
  BY <1>1 DEF TypeOK
<1>10. /\ wire' \in Seq(Entries)
       /\ Len(wire') = Len(wire) + k
       /\ \A i \in 1 .. Len(wire) : wire'[i] = wire[i]
       /\ \A i \in 1 .. k : wire'[Len(wire) + i] = new[i]
  <2> HIDE DEF new, Entries
  <2>1. /\ wire \o new \in Seq(Entries)
        /\ Len(wire \o new) = Len(wire) + k
        /\ \A i \in 1 .. Len(wire) : (wire \o new)[i] = wire[i]
        /\ \A i \in 1 .. k : (wire \o new)[Len(wire) + i] = new[i]
    <3>1. wire \in Seq(Entries) /\ k \in Nat /\ new \in Seq(Entries) /\ Len(new) = k
      BY <1>2, <1>7, <1>9
    <3>2. QED
      BY <3>1, Appended
  <2>2. QED
    BY <1>9, <2>1
<1>11. k \in 1 .. Parts /\ part[s] \in Nat /\ part'[s] \in 1 .. Parts
  BY <1>2, <1>3
<1>12. \A i \in 1 .. k : /\ wire'[Len(wire) + i].msg = base[s]
                        /\ wire'[Len(wire) + i].part = part[s] + i
  BY <1>8, <1>10
<1>13. wire' \in Seq([socket : Runs, msg : Msgs, part : 1 .. Parts])
  BY <1>10
<1> HIDE DEF new, Entries
<1>14. QED
  BY <1>1, <1>3, <1>10, <1>11, <1>12, <1>13

(* A sender in the write loop has a message, and parts of it are left. *)
WriterInv ==
  /\ TypeOK
  /\ MutexInv
  /\ \A s \in Runs : sendPc[s] = "write" => base[s] \in Msgs /\ part[s] < Parts

(* The types, in the parts that most actions leave alone. *)
MemberTypes ==
  /\ m_ip \in {"good", "bad"} /\ m_exit \in BOOLEAN
  /\ socketFd \in Fds \cup {0, NoFd}
  /\ opened \in 0 .. MaxOpen
  /\ ui \in {"idle", "lock"}

KernelTypes ==
  /\ fdTable \in [Fds -> Runs \cup {NoSocket}]
  /\ connected \subseteq Runs /\ ended \subseteq connected /\ stalled \subseteq connected \ ended
  /\ reading \in [Runs -> Runs \cup {NoSocket}]
  /\ writing \in [Runs -> Runs \cup {NoSocket, NotCalled}]

MessageTypes ==
  /\ m_queue \in Seq(Msgs) /\ sent \in 0 .. MaxMsg
  /\ base \in [Runs -> Msgs \cup {NoMsg}]
  /\ part \in [Runs -> 0 .. Parts]
  /\ wire \in Seq([socket : Runs, msg : Msgs, part : 1 .. Parts])
  /\ lost \subseteq Msgs

LEMMA TypeParts == TypeOK <=>
  /\ MemberTypes /\ KernelTypes /\ MessageTypes
  /\ runPc \in [Runs -> RunPcs] /\ sendPc \in [Runs -> SendPcs]
  /\ mtx \in Runs \cup {NoThread}
  BY DEF TypeOK, MemberTypes, KernelTypes, MessageTypes, RunPcs, SendPcs

LEMMA MemberStep == WriterInv /\ [Next]_vars => MemberTypes'
<1> SUFFICES ASSUME WriterInv, [Next]_vars PROVE MemberTypes'
  OBVIOUS
<1> USE DEF members, user
<1>1. MemberTypes
  BY TypeParts DEF WriterInv
<1>2. CASE UNCHANGED <<members, opened, ui>>
  BY <1>1, <1>2 DEF MemberTypes
<1>3. CASE Open
  <2>1. opened' \in 0 .. MaxOpen
    BY <1>1, <1>3, Sizes DEF Open, MemberTypes
  <2>2. m_ip' \in {"good", "bad"} /\ m_exit' = FALSE /\ UNCHANGED <<socketFd, ui>>
    BY <1>3, ClientAssumption DEF Open
  <2>3. QED
    BY <1>1, <2>1, <2>2 DEF MemberTypes
<1>4. CASE Send \/ SendLocked
  BY <1>1, <1>4 DEF Send, SendLocked, MemberTypes
<1>5. ASSUME NEW r \in Runs, CreateSocket(r) \/ CloseFlag(r) \/ ClearFd(r) PROVE MemberTypes'
  BY <1>1, <1>5 DEF CreateSocket, CloseFlag, ClearFd, NewFd, FreeFds, MemberTypes
<1>6. QED
  BY <1>2, <1>3, <1>4, <1>5 DEF Next, RunThread, SendThread, CheckSocket, CheckAddress, ConnectSucceeds,
     ConnectFails, Read, ReadData, ReadEnds, CloseFd, CheckExit, Lock, CallWrite, Write, GiveUp, ServerEnds,
     ServerStalls, vars

LEMMA KernelStep == WriterInv /\ [Next]_vars => KernelTypes'
<1> SUFFICES ASSUME WriterInv, [Next]_vars PROVE KernelTypes'
  OBVIOUS
<1> USE DEF kernel, run, sender
<1>1. KernelTypes
  BY TypeParts DEF WriterInv
<1>2. CASE UNCHANGED <<kernel, reading, writing>>
  BY <1>1, <1>2 DEF KernelTypes
<1>3. Socket \in Runs \cup {NoSocket}
  BY <1>1 DEF Socket, KernelTypes
<1>4. ASSUME NEW r \in Runs, ConnectSucceeds(r) \/ Read(r) PROVE KernelTypes'
  BY <1>1, <1>3, <1>4 DEF ConnectSucceeds, Read, KernelTypes
<1>5. ASSUME NEW r \in Runs, CreateSocket(r) \/ CloseFd(r) PROVE KernelTypes'
  <2>1. fdTable' \in [Fds -> Runs \cup {NoSocket}]
    BY <1>1, <1>5 DEF CreateSocket, CloseFd, NewFd, FreeFds, KernelTypes
  <2>2. UNCHANGED <<connected, ended, stalled, reading, writing>>
    BY <1>5 DEF CreateSocket, CloseFd
  <2>3. QED
    BY <1>1, <2>1, <2>2 DEF KernelTypes
<1>6. ASSUME NEW k \in Runs, ServerEnds(k) \/ ServerStalls(k) PROVE KernelTypes'
  BY <1>1, <1>6 DEF ServerEnds, ServerStalls, KernelTypes
<1>7. ASSUME NEW s \in Runs, CallWrite(s) \/ Write(s) \/ GiveUp(s) PROVE KernelTypes'
  <2>1. /\ UNCHANGED <<kernel, reading>>
        /\ \E k \in Runs \cup {NoSocket, NotCalled} : writing' = [writing EXCEPT ![s] = k]
    BY <1>3, <1>7 DEF CallWrite, Write, GiveUp, Returns
  <2>2. QED
    BY <1>1, <2>1 DEF KernelTypes
<1>8. QED
  BY <1>2, <1>4, <1>5, <1>6, <1>7 DEF Next, RunThread, SendThread, Open, Send, SendLocked,
     CheckSocket, CheckAddress, ConnectFails, ReadData, ReadEnds, CloseFlag, ClearFd, CheckExit,
     Lock, vars

(* SendLocked takes the next message. *)
LEMMA SendLockedTypes ==
  ASSUME MessageTypes, SendLocked, sent < MaxMsg
  PROVE  MessageTypes'
<1>1. sent' = sent + 1 /\ m_queue' = Append(m_queue, sent + 1) /\ UNCHANGED <<base, part, wire, lost>>
  BY DEF SendLocked, history
<1>2. sent \in Nat /\ MaxMsg \in Nat /\ sent + 1 \in Msgs /\ sent' \in 0 .. MaxMsg
  BY <1>1, ClientAssumption DEF MessageTypes, Msgs
<1>3. m_queue' \in Seq(Msgs)
  BY <1>1, <1>2 DEF MessageTypes
<1>4. QED
  BY <1>1, <1>2, <1>3 DEF MessageTypes

(* Send has looked at the bound: there is a message left when it holds the lock. *)
BoundInv == ui = "lock" => sent < MaxMsg

LEMMA MessageStep == WriterInv /\ BoundInv /\ [Next]_vars => MessageTypes'
<1> SUFFICES ASSUME WriterInv, BoundInv, [Next]_vars PROVE MessageTypes'
  OBVIOUS
<1> USE DEF user, sender, history
<1>1. MessageTypes
  BY TypeParts DEF WriterInv
<1>2. CASE UNCHANGED <<m_queue, sent, base, part, history>>
  BY <1>1, <1>2 DEF MessageTypes
<1>3. CASE SendLocked
  BY <1>1, <1>3, SendLockedTypes DEF SendLocked, BoundInv
<1>4. ASSUME NEW s \in Runs, Lock(s), m_queue # <<>> PROVE MessageTypes'
  <2>1. /\ m_queue' = Tail(m_queue) /\ base' = [base EXCEPT ![s] = Head(m_queue)]
        /\ part' = [part EXCEPT ![s] = 0] /\ UNCHANGED <<sent, wire, lost>>
    BY <1>4 DEF Lock
  <2>2. Head(m_queue) \in Msgs /\ m_queue' \in Seq(Msgs)
    BY <1>1, <1>4, <2>1 DEF MessageTypes
  <2>3. part' \in [Runs -> 0 .. Parts]
    BY <1>1, <2>1, ClientAssumption DEF MessageTypes
  <2>4. QED
    BY <1>1, <2>1, <2>2, <2>3 DEF MessageTypes
<1>5. ASSUME NEW s \in Runs, Write(s) PROVE MessageTypes'
  <2>1. base[s] \in Msgs /\ TypeOK
    BY <1>5 DEF Write, WriterInv
  <2>2. part' = [part EXCEPT ![s] = part'[s]] /\ part'[s] \in 0 .. Parts
    BY <1>1, <1>5, <2>1, WrittenParts, ClientAssumption DEF MessageTypes
  <2>3. wire' \in Seq([socket : Runs, msg : Msgs, part : 1 .. Parts])
    BY <1>5, <2>1, WrittenParts
  <2>4. UNCHANGED <<m_queue, sent, lost>> /\ (UNCHANGED base \/ base' = [base EXCEPT ![s] = NoMsg])
    BY <1>5 DEF Write
  <2>5. part' \in [Runs -> 0 .. Parts]
    BY <1>1, <2>2 DEF MessageTypes
  <2>6. QED
    BY <1>1, <2>3, <2>4, <2>5 DEF MessageTypes
<1>6. ASSUME NEW s \in Runs, GiveUp(s) PROVE MessageTypes'
  <2>1. base[s] \in Msgs
    BY <1>6 DEF GiveUp, Fails, WriterInv
  <2>2. /\ lost' = lost \cup {base[s]} /\ base' = [base EXCEPT ![s] = NoMsg]
        /\ UNCHANGED <<m_queue, sent, part, wire>>
    BY <1>6 DEF GiveUp
  <2>3. QED
    BY <1>1, <2>1, <2>2 DEF MessageTypes
<1>7. QED
  BY <1>2, <1>3, <1>4, <1>5, <1>6 DEF Next, RunThread, SendThread, Open, Send, CreateSocket, CheckSocket,
     CheckAddress, ConnectSucceeds, ConnectFails, Read, ReadData, ReadEnds, CloseFlag, CloseFd,
     ClearFd, CheckExit, Lock, CallWrite, ServerEnds, ServerStalls, vars, members

LEMMA BoundStep == BoundInv /\ [Next]_vars => BoundInv'
  BY DEF BoundInv, Next, RunThread, SendThread, Open, Send, SendLocked, CreateSocket, CheckSocket, CheckAddress,
     ConnectSucceeds, ConnectFails, Read, ReadData, ReadEnds, CloseFlag, CloseFd, ClearFd, CheckExit,
     Lock, CallWrite, Write, GiveUp, ServerEnds, ServerStalls, vars, user

LEMMA WriterStep == WriterInv /\ BoundInv /\ [Next]_vars => WriterInv'
<1> SUFFICES ASSUME WriterInv, BoundInv, [Next]_vars
             PROVE  /\ TypeOK' /\ MutexInv'
                    /\ \A s \in Runs : sendPc'[s] = "write" => base'[s] \in Msgs /\ part'[s] < Parts
  BY DEF WriterInv
<1> USE DEF user, sender, history
<1>1. MutexInv'
  BY MutexStep DEF WriterInv
<1>2. TypeOK'
  <2>1. runPc' \in [Runs -> RunPcs] /\ sendPc' \in [Runs -> SendPcs] /\ mtx' \in Runs \cup {NoThread}
    BY <1>1 DEF MutexInv, ThreadInv
  <2>2. MemberTypes' /\ KernelTypes' /\ MessageTypes'
    BY MemberStep, KernelStep, MessageStep
  <2>3. QED
    BY <2>1, <2>2 DEF TypeOK, MemberTypes, KernelTypes, MessageTypes, RunPcs, SendPcs
<1>3. ASSUME NEW t \in Runs, sendPc'[t] = "write" PROVE base'[t] \in Msgs /\ part'[t] < Parts
  <2> USE DEF WriterInv
  <2>0. sendPc \in [Runs -> SendPcs] /\ base \in [Runs -> Msgs \cup {NoMsg}] /\ part \in [Runs -> 0 .. Parts]
    BY DEF TypeOK, SendPcs
  <2>1. CASE UNCHANGED <<sendPc, base, part>>
    BY <1>3, <2>1
  <2>2. CASE NotifyOne /\ UNCHANGED <<base, part>>
    BY <1>3, <2>0, <2>2 DEF NotifyOne, Waiting
  <2>3. ASSUME NEW r \in Runs, ConnectSucceeds(r) PROVE base'[t] \in Msgs /\ part'[t] < Parts
    BY <1>3, <2>0, <2>3 DEF ConnectSucceeds
  <2>4. ASSUME NEW s \in Runs, CheckExit(s) PROVE base'[t] \in Msgs /\ part'[t] < Parts
    BY <1>3, <2>0, <2>4 DEF CheckExit, GoSend
  <2>5. ASSUME NEW s \in Runs, Lock(s) PROVE base'[t] \in Msgs /\ part'[t] < Parts
    <3>1. CASE m_queue = <<>>
      BY <1>3, <2>0, <2>5, <3>1 DEF Lock, GoSend
    <3>2. CASE m_queue # <<>>
      <4>1. /\ base' = [base EXCEPT ![s] = Head(m_queue)] /\ part' = [part EXCEPT ![s] = 0]
            /\ sendPc' = [sendPc EXCEPT ![s] = "write"]
        BY <2>5, <3>2 DEF Lock, GoSend
      <4>2. Head(m_queue) \in Msgs /\ 0 < Parts
        <5>1. m_queue \in Seq(Msgs)
          BY DEF TypeOK
        <5>2. QED
          BY <3>2, <5>1, Sizes
      <4>3. CASE t = s
        BY <2>0, <4>1, <4>2, <4>3
      <4>4. CASE t # s
        BY <1>3, <2>0, <4>1, <4>4
      <4>5. QED
        BY <4>3, <4>4
    <3>3. QED
      BY <3>1, <3>2
  <2>6. ASSUME NEW s \in Runs, Write(s) PROVE base'[t] \in Msgs /\ part'[t] < Parts
    <3>1. sendPc[s] = "write" /\ base[s] \in Msgs
      BY <2>6 DEF Write
    <3>2. part'[s] \in 1 .. Parts /\ \A q \in Runs \ {s} : part'[q] = part[q]
      BY <2>0, <2>6, <3>1, WrittenParts
    <3>3. CASE part'[s] = Parts
      <4>1. sendPc' = [sendPc EXCEPT ![s] = "check"] /\ base' = [base EXCEPT ![s] = NoMsg]
        BY <2>6, <3>3 DEF Write, GoSend
      <4>2. t # s
        BY <1>3, <2>0, <4>1
      <4>3. QED
        BY <1>3, <2>0, <3>2, <4>1, <4>2
    <3>4. CASE part'[s] # Parts
      <4>1. UNCHANGED <<sendPc, base>>
        BY <2>6, <3>4 DEF Write
      <4>2. part'[s] < Parts
        BY <3>2, <3>4, ClientAssumption
      <4>3. CASE t = s
        BY <3>1, <4>1, <4>2, <4>3
      <4>4. CASE t # s
        BY <1>3, <3>2, <4>1, <4>4
      <4>5. QED
        BY <4>3, <4>4
    <3>5. QED
      BY <3>3, <3>4
  <2>7. ASSUME NEW s \in Runs, GiveUp(s) PROVE base'[t] \in Msgs /\ part'[t] < Parts
    BY <1>3, <2>0, <2>7 DEF GiveUp, Fails, GoSend
  <2>8. QED
    BY <2>1, <2>2, <2>3, <2>4, <2>5, <2>6, <2>7 DEF Next, RunThread, SendThread, Open, Send, SendLocked,
       CreateSocket, CheckSocket, CheckAddress, ConnectFails, Read, ReadData, ReadEnds, CloseFlag, CloseFd,
       ClearFd, CallWrite, ServerEnds, ServerStalls, vars
<1>4. QED
  BY <1>1, <1>2, <1>3

LEMMA WriterInit == Init => WriterInv /\ BoundInv
<1> SUFFICES ASSUME Init PROVE WriterInv /\ BoundInv
  OBVIOUS
<1>1. MutexInv
  BY ThreadInit DEF Init, MutexInv, Runs
<1>2. MemberTypes
  <2>1. opened \in 0 .. MaxOpen
    BY Sizes DEF Init
  <2>2. QED
    BY <2>1 DEF Init, MemberTypes
<1>3. KernelTypes
  BY DEF Init, KernelTypes
<1>8. MessageTypes
  BY Sizes DEF Init, MessageTypes
<1>4. TypeOK
  BY <1>1, <1>2, <1>3, <1>8, TypeParts DEF MutexInv, ThreadInv
<1>5. \A s \in Runs : sendPc[s] = "none"
  BY DEF Init
<1>6. BoundInv
  BY DEF Init, BoundInv
<1>7. QED
  BY <1>1, <1>4, <1>5, <1>6 DEF WriterInv

(***************************************************************************)
(* Every variable keeps its type; in particular socketFd is a descriptor   *)
(* number or -1, and no write goes past the parts of a PDU, in whichever   *)
(* order the threads run.                                                  *)
(***************************************************************************)
THEOREM TypeCorrect == Spec => []TypeOK
<1>1. WriterInv => TypeOK
  BY DEF WriterInv
<1>2. QED
  BY <1>1, WriterInit, WriterStep, BoundStep, PTL DEF Spec

-----------------------------------------------------------------------------
(* The refinement of SendFifo. *)

(* What moves no message is a stuttering step. *)
LEMMA Stutters ==
  ASSUME UNCHANGED <<sent, m_queue, mtx, base, wire, lost>>
  PROVE  UNCHANGED Fifo!vars
  BY DEF Fifo!vars, Unsent, Written

LEMMA UnsentFree ==
  ASSUME WriterInv, mtx = NoThread
  PROVE  Unsent = m_queue
  BY ConcatEmptySeq DEF Unsent, WriterInv, TypeOK

LEMMA UnsentHeld ==
  ASSUME WriterInv, NEW s \in Runs, mtx = s
  PROVE  Unsent # <<>> /\ Head(Unsent) = base[s] /\ Tail(Unsent) = m_queue
<1>1. Unsent = <<base[s]>> \o m_queue
  BY MsgTypes DEF Unsent
<1>2. base[s] \in Msgs /\ m_queue \in Seq(Msgs)
  BY DEF WriterInv, MutexInv, TypeOK
<1>3. <<base[s]>> \in Seq(Msgs) /\ Len(<<base[s]>>) = 1
  BY <1>2
<1>4. /\ Unsent \in Seq(Msgs) /\ Len(Unsent) = 1 + Len(m_queue)
      /\ \A i \in 1 .. 1 + Len(m_queue) : Unsent[i] = IF i <= 1 THEN base[s] ELSE m_queue[i - 1]
  BY <1>1, <1>2, <1>3, ConcatProperties
<1>5. Len(m_queue) \in Nat
  BY <1>2
<1>6. Unsent # <<>> /\ Head(Unsent) = base[s]
  BY <1>4, <1>5
<1>7. Tail(Unsent) \in Seq(Msgs) /\ Len(Tail(Unsent)) = Len(m_queue)
  BY <1>4, <1>5, <1>6
<1>8. \A i \in 1 .. Len(m_queue) : Tail(Unsent)[i] = m_queue[i]
  BY <1>4, <1>5, <1>6
<1>9. Tail(Unsent) = m_queue
  BY <1>2, <1>7, <1>8, SeqEqual
<1>10. QED
  BY <1>6, <1>9

(* The last part completes the message that is written, any other part none. *)
LEMMA WrittenStep ==
  ASSUME WriterInv, NEW s \in Runs, Write(s)
  PROVE  Written' = IF part'[s] = Parts THEN Written \cup {base[s]} ELSE Written
<1>1. base[s] \in Msgs /\ TypeOK
  BY DEF Write, WriterInv
<1>2. PICK k \in 1 .. Parts :
        /\ part[s] \in Nat /\ part'[s] = part[s] + k /\ part'[s] \in 1 .. Parts
        /\ wire' \in Seq([socket : Runs, msg : Msgs, part : 1 .. Parts])
        /\ Len(wire') = Len(wire) + k
        /\ \A i \in 1 .. Len(wire) : wire'[i] = wire[i]
        /\ \A i \in 1 .. k : wire'[Len(wire) + i].msg = base[s] /\ wire'[Len(wire) + i].part = part[s] + i
  BY <1>1, WrittenParts
<1>3. /\ DOMAIN wire = 1 .. Len(wire) /\ DOMAIN wire' = 1 .. Len(wire) + k
      /\ Len(wire) \in Nat /\ k \in Nat /\ k >= 1 /\ Parts \in Nat
  <2>1. wire \in Seq([socket : Runs, msg : Msgs, part : 1 .. Parts])
    BY <1>1 DEF TypeOK
  <2>2. k \in Nat /\ k >= 1 /\ Parts \in Nat
    BY Sizes
  <2>3. DOMAIN wire = 1 .. Len(wire) /\ Len(wire) \in Nat
    BY <2>1
  <2>4. DOMAIN wire' = 1 .. Len(wire')
    BY <1>2
  <2>5. QED
    BY <1>2, <2>2, <2>3, <2>4
<1>4. \A i \in DOMAIN wire : i \in DOMAIN wire' /\ wire'[i] = wire[i]
  BY <1>2, <1>3
<1>5. \A i \in DOMAIN wire' \ DOMAIN wire : \E j \in 1 .. k : i = Len(wire) + j
  <2>1. SUFFICES ASSUME NEW i \in DOMAIN wire' \ DOMAIN wire PROVE \E j \in 1 .. k : i = Len(wire) + j
    OBVIOUS
  <2>2. i - Len(wire) \in 1 .. k /\ i = Len(wire) + (i - Len(wire))
    BY <1>3, <2>1
  <2>3. QED
    BY <2>2
<1>6. \A j \in 1 .. k : Len(wire) + j \in DOMAIN wire'
  BY <1>3
<1>7. \A j \in 1 .. k : part[s] + j = Parts <=> j = k /\ part'[s] = Parts
  <2>1. part[s] \in Nat /\ part'[s] = part[s] + k /\ part'[s] <= Parts
    BY <1>2, <1>3
  <2>2. QED
    BY <1>3, <2>1
<1>8. ASSUME NEW m \in Msgs
      PROVE  m \in Written' <=> m \in Written \/ (m = base[s] /\ part'[s] = Parts)
  <2>1. m \in Written <=> \E i \in DOMAIN wire : wire[i].msg = m /\ wire[i].part = Parts
    BY DEF Written
  <2>2. m \in Written' <=> \E i \in DOMAIN wire' : wire'[i].msg = m /\ wire'[i].part = Parts
    BY DEF Written
  <2>3. ASSUME m \in Written PROVE m \in Written'
    BY <1>4, <2>1, <2>2, <2>3
  <2>4. ASSUME m = base[s], part'[s] = Parts PROVE m \in Written'
    <3>1. k \in 1 .. k /\ wire'[Len(wire) + k].msg = m /\ wire'[Len(wire) + k].part = Parts
      BY <1>2, <1>3, <2>4
    <3>2. QED
      BY <1>6, <2>2, <3>1
  <2>5. ASSUME m \in Written', m \notin Written PROVE m = base[s] /\ part'[s] = Parts
    <3>1. PICK i \in DOMAIN wire' : wire'[i].msg = m /\ wire'[i].part = Parts
      BY <2>2, <2>5
    <3>2. i \notin DOMAIN wire
      BY <1>4, <2>1, <2>5, <3>1
    <3>3. PICK j \in 1 .. k : i = Len(wire) + j
      BY <1>5, <3>1, <3>2
    <3>4. QED
      BY <1>2, <1>7, <3>1, <3>3
  <2>6. QED
    BY <2>3, <2>4, <2>5
<1>9. Written \subseteq Msgs /\ Written' \subseteq Msgs
  BY DEF Written
<1>10. QED
  BY <1>1, <1>8, <1>9

LEMMA FifoStep == WriterInv /\ BoundInv /\ [Next]_vars => [Fifo!Next]_(Fifo!vars)
<1> SUFFICES ASSUME WriterInv, BoundInv, [Next]_vars PROVE [Fifo!Next]_(Fifo!vars)
  OBVIOUS
<1> USE DEF user, sender, history
<1>0. WriterInv'
  BY WriterStep
<1>1. CASE UNCHANGED <<sent, m_queue, mtx, base, wire, lost>>
  BY <1>1, Stutters
<1>2. CASE SendLocked
  <2>1. /\ mtx = NoThread /\ UNCHANGED <<mtx, wire, lost>>
        /\ m_queue' = Append(m_queue, sent + 1) /\ sent' = sent + 1
    BY <1>2 DEF SendLocked
  <2>2. Unsent = m_queue
    BY <2>1, UnsentFree
  <2>3. Unsent' = m_queue'
    <3>1. m_queue' \in Seq(Msgs)
      BY <1>0 DEF WriterInv, TypeOK
    <3>2. QED
      BY <2>1, <3>1, ConcatEmptySeq DEF Unsent
  <2>4. UNCHANGED Written
    BY <2>1 DEF Written
  <2>5. Fifo!Accept
    BY <2>1, <2>2, <2>3, <2>4 DEF Fifo!Accept
  <2>6. QED
    BY <2>5 DEF Fifo!Next
<1>3. ASSUME NEW s \in Runs, Lock(s) PROVE [Fifo!Next]_(Fifo!vars)
  <2>1. CASE m_queue = <<>>
    BY <1>3, <2>1, Stutters DEF Lock
  <2>2. CASE m_queue # <<>>
    <3>1. /\ mtx = NoThread /\ mtx' = s /\ m_queue' = Tail(m_queue)
          /\ base' = [base EXCEPT ![s] = Head(m_queue)] /\ UNCHANGED <<sent, wire, lost>>
      BY <1>3, <2>2 DEF Lock
    <3>2. Unsent = m_queue /\ m_queue \in Seq(Msgs)
      BY <3>1, UnsentFree DEF WriterInv, TypeOK
    <3>3. base'[s] = Head(m_queue)
      BY <3>1 DEF WriterInv, TypeOK
    <3>4. Unsent' = <<Head(m_queue)>> \o Tail(m_queue)
      BY <3>1, <3>3, MsgTypes DEF Unsent
    <3>5. <<Head(m_queue)>> \o Tail(m_queue) = m_queue
      <4>1. Head(m_queue) \in Msgs /\ Tail(m_queue) \in Seq(Msgs) /\ Len(Tail(m_queue)) = Len(m_queue) - 1
            /\ Len(m_queue) \in Nat /\ Len(m_queue) >= 1
        BY <2>2, <3>2
      <4>2. <<Head(m_queue)>> \in Seq(Msgs) /\ Len(<<Head(m_queue)>>) = 1
        BY <4>1
      <4> DEFINE whole == <<Head(m_queue)>> \o Tail(m_queue)
      <4>3. whole \in Seq(Msgs) /\ Len(whole) = 1 + (Len(m_queue) - 1)
            /\ \A i \in 1 .. 1 + (Len(m_queue) - 1) :
                 whole[i] = IF i <= 1 THEN <<Head(m_queue)>>[i] ELSE Tail(m_queue)[i - 1]
        BY <4>1, <4>2, ConcatProperties
      <4> HIDE DEF whole
      <4>4. Len(whole) = Len(m_queue) /\ \A i \in 1 .. Len(m_queue) : whole[i] = m_queue[i]
        BY <2>2, <3>2, <4>1, <4>3
      <4>5. whole = m_queue
        BY <3>2, <4>3, <4>4, SeqEqual
      <4>6. QED
        BY <4>5 DEF whole
    <3>6. UNCHANGED Written
      BY <3>1 DEF Written
    <3>7. QED
      BY <3>1, <3>2, <3>4, <3>5, <3>6 DEF Fifo!vars
  <2>3. QED
    BY <2>1, <2>2
<1>4. ASSUME NEW s \in Runs, Write(s) PROVE [Fifo!Next]_(Fifo!vars)
  <2>1. mtx = s /\ UNCHANGED <<m_queue, sent, lost>>
    BY <1>4 DEF Write, WriterInv, MutexInv
  <2>2. CASE part'[s] = Parts
    <3>1. mtx' = NoThread
      BY <1>4, <2>2 DEF Write
    <3>2. Unsent' = m_queue
      <4>1. m_queue \in Seq(Msgs)
        BY DEF WriterInv, TypeOK
      <4>2. QED
        BY <2>1, <3>1, <4>1, ConcatEmptySeq DEF Unsent
    <3>3. Written' = Written \cup {base[s]}
      BY <1>4, <2>2, WrittenStep
    <3>4. Fifo!Deliver
      BY <2>1, <3>2, <3>3, UnsentHeld DEF Fifo!Deliver
    <3>5. QED
      BY <3>4 DEF Fifo!Next
  <2>3. CASE part'[s] # Parts
    <3>1. UNCHANGED <<mtx, base>>
      BY <1>4, <2>3 DEF Write
    <3>2. Written' = Written
      BY <1>4, <2>3, WrittenStep
    <3>3. QED
      BY <2>1, <3>1, <3>2 DEF Fifo!vars, Unsent
  <2>4. QED
    BY <2>2, <2>3
<1>5. ASSUME NEW s \in Runs, GiveUp(s) PROVE [Fifo!Next]_(Fifo!vars)
  <2>1. /\ mtx = s /\ mtx' = NoThread /\ lost' = lost \cup {base[s]}
        /\ UNCHANGED <<m_queue, sent, wire>>
    BY <1>5 DEF GiveUp, Fails, WriterInv, MutexInv
  <2>2. Unsent' = m_queue
    <3>1. m_queue \in Seq(Msgs)
      BY DEF WriterInv, TypeOK
    <3>2. QED
      BY <2>1, <3>1, ConcatEmptySeq DEF Unsent
  <2>3. UNCHANGED Written
    BY <2>1 DEF Written
  <2>4. Fifo!Lose
    BY <2>1, <2>2, <2>3, UnsentHeld DEF Fifo!Lose
  <2>5. QED
    BY <2>4 DEF Fifo!Next
<1>6. QED
  BY <1>1, <1>2, <1>3, <1>4, <1>5 DEF Next, RunThread, SendThread, Open, Send, CreateSocket, CheckSocket,
     CheckAddress, ConnectSucceeds, ConnectFails, Read, ReadData, ReadEnds, CloseFlag, CloseFd,
     ClearFd, CheckExit, CallWrite, ServerEnds, ServerStalls, vars

(***************************************************************************)
(* To the caller of Send the client is one queue: however many senders and *)
(* connections there are, messages leave in the order of the calls, each   *)
(* one once, completely written or reported as lost.                       *)
(***************************************************************************)
THEOREM ClientIsFifo == Spec => ImplementsFifo
<1>1. Init => Fifo!Init
  <2> SUFFICES ASSUME Init PROVE Fifo!Init
    OBVIOUS
  <2>1. Unsent = <<>> /\ Written = {} /\ sent = 0 /\ lost = {}
    <3>1. m_queue = <<>> /\ mtx = NoThread /\ wire = <<>>
      BY DEF Init
    <3>2. <<>> \in Seq(Msgs) /\ <<>> \o <<>> = <<>>
      BY ConcatEmptySeq
    <3>3. QED
      BY <3>1, <3>2 DEF Init, Unsent, Written
  <2>2. QED
    BY <2>1 DEF Fifo!Init
<1>2. QED
  BY <1>1, WriterInit, WriterStep, BoundStep, FifoStep, PTL DEF Spec, ImplementsFifo, Fifo!Spec

-----------------------------------------------------------------------------
(* What is on the wire, and what is left open. *)

HIDE DEF NoMsg, NoThread

(* How many messages have been taken out of the queue. *)
Taken == sent - Len(m_queue)

(* The queue holds the messages after those, and the writer the last of those. *)
QueueInv ==
  /\ Taken \in Nat
  /\ \A i \in 1 .. Len(m_queue) : m_queue[i] = Taken + i
  /\ \A s \in Writers : base[s] = Taken

(* The wire is not ahead of the writer. *)
BehindInv ==
  \A i \in DOMAIN wire :
    /\ wire[i].msg <= Taken
    /\ \A s \in Writers : wire[i].msg = base[s] => wire[i].part <= part[s]

(* wire[i] and all before it come before wire[j]. *)
Before(i, j) ==
  \/ wire[i].msg < wire[j].msg
  \/ wire[i].msg = wire[j].msg /\ wire[i].part < wire[j].part

Ascending == \A i, j \in DOMAIN wire : i < j => Before(i, j)

(* Only the last part on the wire can be one that a writer will follow up. *)
Followed(i) ==
  i < Len(wire) /\ wire[i + 1].msg = wire[i].msg /\ wire[i + 1].part = wire[i].part + 1

TailInv ==
  \A i \in DOMAIN wire :
    wire[i].part < Parts =>
      \/ Followed(i)
      \/ wire[i].msg \in lost
      \/ i = Len(wire) /\ \E s \in Writers : base[s] = wire[i].msg /\ part[s] = wire[i].part

Done == {s \in Runs : sendPc[s] = "done"}

LostInv == Cardinality(lost) <= Cardinality(Done)

OrderInv == WriterInv /\ BoundInv /\ QueueInv /\ BehindInv /\ Ascending /\ TailInv /\ LostInv

-----------------------------------------------------------------------------
(* Messages leave in order. *)

LEMMA WriterHolds ==
  ASSUME WriterInv, NEW s \in Runs
  PROVE  s \in Writers <=> mtx = s
  BY DEF WriterInv, MutexInv, Writers

LEMMA FreeMutex ==
  ASSUME WriterInv, mtx = NoThread
  PROVE  Writers = {}
  BY MsgTypes DEF WriterInv, MutexInv, Writers

(* The types that the steps below need. *)
LEMMA OrderTypes ==
  ASSUME WriterInv
  PROVE  /\ m_queue \in Seq(Msgs) /\ Len(m_queue) \in Nat /\ sent \in Nat
         /\ wire \in Seq([socket : Runs, msg : Msgs, part : 1 .. Parts])
         /\ Len(wire) \in Nat /\ DOMAIN wire = 1 .. Len(wire)
         /\ \A i \in DOMAIN wire : wire[i].msg \in Nat /\ wire[i].part \in Nat /\ wire[i].part <= Parts
         /\ base \in [Runs -> Msgs \cup {NoMsg}] /\ part \in [Runs -> 0 .. Parts]
         /\ sendPc \in [Runs -> SendPcs]
         /\ lost \subseteq Msgs /\ Parts \in Nat
<1>1. TypeOK
  BY DEF WriterInv
<1>2. sent \in Nat
  BY <1>1, TypeParts, Sizes DEF MessageTypes
<1>3. m_queue \in Seq(Msgs) /\ Len(m_queue) \in Nat
  BY <1>1, TypeParts DEF MessageTypes
<1>4. wire \in Seq([socket : Runs, msg : Msgs, part : 1 .. Parts])
  BY <1>1 DEF TypeOK
<1>5. Len(wire) \in Nat /\ DOMAIN wire = 1 .. Len(wire)
  BY <1>4
<1>6. ASSUME NEW i \in DOMAIN wire
      PROVE  wire[i].msg \in Nat /\ wire[i].part \in Nat /\ wire[i].part <= Parts
  <2>1. wire[i] \in [socket : Runs, msg : Msgs, part : 1 .. Parts]
    BY <1>4, <1>5, ElementOfSeq
  <2>2. QED
    BY <2>1, MsgTypes, Sizes
<1>7. QED
  BY <1>1, <1>2, <1>3, <1>4, <1>5, <1>6, Sizes DEF TypeOK, SendPcs

LEMMA DoneFinite ==
  /\ IsFiniteSet(Done) /\ Cardinality(Done) \in Nat
  /\ IsFiniteSet(Done') /\ Cardinality(Done') \in Nat
  BY WokenFinite DEF Done

LEMMA LostFinite ==
  ASSUME WriterInv
  PROVE  IsFiniteSet(lost) /\ Cardinality(lost) \in Nat
<1>1. IsFiniteSet(Msgs)
  BY FS_Interval, Sizes DEF Msgs
<1>2. QED
  BY <1>1, OrderTypes, FS_Subset, FS_CardinalityType

(* A sender that has ended stays so: what is lost stays accounted for. *)
LEMMA LostKept ==
  ASSUME WriterInv, LostInv, UNCHANGED lost, Done \subseteq Done'
  PROVE  LostInv'
<1>1. Cardinality(Done) <= Cardinality(Done')
  BY DoneFinite, FS_Subset
<1>2. QED
  BY <1>1, DoneFinite, LostFinite DEF LostInv

(* Steps that move no message. *)
LEMMA StillStep ==
  ASSUME OrderInv, UNCHANGED <<sent, m_queue, base, part, wire, lost>>,
         Writers' = Writers, Done \subseteq Done'
  PROVE  QueueInv' /\ BehindInv' /\ Ascending' /\ TailInv' /\ LostInv'
<1>1. QueueInv' /\ BehindInv'
  BY DEF OrderInv, QueueInv, BehindInv, Taken
<1>2. Ascending'
  BY DEF OrderInv, Ascending, Before
<1>3. TailInv'
  BY DEF OrderInv, TailInv, Followed
<1>4. LostInv'
  BY LostKept DEF OrderInv
<1>5. QED
  BY <1>1, <1>2, <1>3, <1>4

(* A message is queued behind the others. *)
LEMMA SendLockedStep ==
  ASSUME OrderInv, SendLocked
  PROVE  QueueInv' /\ BehindInv' /\ Ascending' /\ TailInv' /\ LostInv'
<1>1. /\ mtx = NoThread /\ NotifyOne
      /\ m_queue' = Append(m_queue, sent + 1) /\ sent' = sent + 1
      /\ UNCHANGED <<mtx, base, part, wire, lost>>
  BY DEF SendLocked, history
<1>2. m_queue \in Seq(Msgs) /\ Len(m_queue) \in Nat /\ sent \in Nat /\ sendPc \in [Runs -> SendPcs]
  BY OrderTypes DEF OrderInv
<1>3. /\ Len(m_queue') = Len(m_queue) + 1
      /\ \A i \in 1 .. Len(m_queue) : m_queue'[i] = m_queue[i]
      /\ m_queue'[Len(m_queue) + 1] = sent + 1
  BY <1>1, <1>2
<1>4. Taken' = Taken
  BY <1>1, <1>2, <1>3 DEF Taken
<1>5. Writers' = Writers /\ Done' = Done
  BY <1>1, <1>2 DEF NotifyOne, Waiting, Writers, Done
<1>6. QueueInv'
  <2>1. \A i \in 1 .. Len(m_queue') : m_queue'[i] = Taken' + i
    <3> SUFFICES ASSUME NEW i \in 1 .. Len(m_queue) + 1 PROVE m_queue'[i] = Taken + i
      BY <1>3, <1>4
    <3>1. CASE i = Len(m_queue) + 1
      BY <1>2, <1>3, <3>1 DEF Taken
    <3>2. CASE i \in 1 .. Len(m_queue)
      BY <1>3, <3>2 DEF OrderInv, QueueInv
    <3>3. QED
      BY <1>2, <3>1, <3>2
  <2>2. QED
    BY <1>1, <1>4, <1>5, <2>1 DEF OrderInv, QueueInv
<1>7. BehindInv' /\ Ascending' /\ TailInv'
  BY <1>1, <1>4, <1>5 DEF OrderInv, BehindInv, Ascending, Before, TailInv, Followed
<1>8. LostInv'
  BY <1>1, <1>5, LostKept DEF OrderInv
<1>9. QED
  BY <1>6, <1>7, <1>8

(* A sender takes the first message of the queue: the next number. *)
LEMMA TakeStep ==
  ASSUME OrderInv, NEW s \in Runs, Lock(s), m_queue # <<>>
  PROVE  QueueInv' /\ BehindInv' /\ Ascending' /\ TailInv' /\ LostInv'
<1>1. /\ sendPc[s] \in {"lock", "woken"} /\ mtx = NoThread
      /\ m_queue' = Tail(m_queue)
      /\ sendPc' = [sendPc EXCEPT ![s] = "write"]
      /\ base' = [base EXCEPT ![s] = Head(m_queue)]
      /\ part' = [part EXCEPT ![s] = 0]
      /\ UNCHANGED <<sent, wire, lost>>
  BY DEF Lock, GoSend, user, history
<1>2. /\ m_queue \in Seq(Msgs) /\ Len(m_queue) \in Nat /\ sent \in Nat
      /\ sendPc \in [Runs -> SendPcs]
      /\ base \in [Runs -> Msgs \cup {NoMsg}] /\ part \in [Runs -> 0 .. Parts]
      /\ \A i \in DOMAIN wire : wire[i].msg \in Nat
  BY OrderTypes DEF OrderInv
<1>3. Writers = {} /\ Writers' = {s} /\ Done \subseteq Done'
  <2>1. Writers = {}
    BY <1>1, FreeMutex DEF OrderInv
  <2>2. QED
    BY <1>1, <1>2, <2>1 DEF Writers, Done
<1>4. /\ Len(m_queue) >= 1 /\ Len(m_queue') = Len(m_queue) - 1
      /\ \A i \in 1 .. Len(m_queue') : m_queue'[i] = m_queue[i + 1]
      /\ Head(m_queue) = m_queue[1]
  BY <1>1, <1>2
<1>5. Taken \in Nat /\ Taken' = Taken + 1
  BY <1>1, <1>2, <1>4 DEF Taken, OrderInv, QueueInv
<1>6. base'[s] = Taken'
  <2>1. base'[s] = m_queue[1]
    BY <1>1, <1>2, <1>4
  <2>2. 1 \in 1 .. Len(m_queue)
    BY <1>2, <1>4
  <2>3. QED
    BY <1>5, <2>1, <2>2 DEF OrderInv, QueueInv
<1>7. QueueInv'
  <2>1. ASSUME NEW i \in 1 .. Len(m_queue') PROVE m_queue'[i] = Taken' + i
    <3>1. i + 1 \in 1 .. Len(m_queue) /\ m_queue'[i] = m_queue[i + 1]
      BY <1>2, <1>4
    <3>2. m_queue[i + 1] = Taken + (i + 1)
      BY <3>1 DEF OrderInv, QueueInv
    <3>3. QED
      BY <1>2, <1>4, <1>5, <3>1, <3>2
  <2>2. QED
    BY <1>3, <1>5, <1>6, <2>1 DEF QueueInv
<1>8. BehindInv'
  <2>1. ASSUME NEW i \in DOMAIN wire PROVE wire[i].msg <= Taken' /\ wire[i].msg # base'[s]
    BY <1>2, <1>5, <1>6 DEF OrderInv, BehindInv
  <2>2. QED
    BY <1>1, <1>3, <2>1 DEF BehindInv
<1>9. Ascending'
  BY <1>1 DEF OrderInv, Ascending, Before
<1>10. TailInv'
  BY <1>1, <1>3 DEF OrderInv, TailInv, Followed
<1>11. LostInv'
  BY <1>1, <1>3, LostKept DEF OrderInv
<1>12. QED
  BY <1>7, <1>8, <1>9, <1>10, <1>11

(* The next parts of the message of the writer. *)
LEMMA WriteStep ==
  ASSUME OrderInv, NEW s \in Runs, Write(s)
  PROVE  QueueInv' /\ BehindInv' /\ Ascending' /\ TailInv' /\ LostInv'
<1>1. sendPc[s] = "write" /\ UNCHANGED <<m_queue, sent, lost>>
  BY DEF Write, user
<1>2. s \in Writers /\ Writers = {s}
  <2>1. mtx = s
    BY <1>1 DEF OrderInv, WriterInv, MutexInv
  <2>2. QED
    BY <1>1, <2>1, WriterHolds DEF OrderInv, Writers
<1>3. /\ Len(wire) \in Nat /\ DOMAIN wire = 1 .. Len(wire)
      /\ \A i \in DOMAIN wire : wire[i].msg \in Nat /\ wire[i].part \in Nat /\ wire[i].part <= Parts
      /\ base \in [Runs -> Msgs \cup {NoMsg}] /\ part \in [Runs -> 0 .. Parts]
      /\ sendPc \in [Runs -> SendPcs] /\ Parts \in Nat
  BY OrderTypes DEF OrderInv
<1>4. TypeOK /\ base[s] \in Msgs /\ base[s] \in Nat
  BY <1>1, MsgTypes DEF OrderInv, WriterInv
<1>5. PICK k \in 1 .. Parts :
        /\ part' = [part EXCEPT ![s] = @ + k]
        /\ part[s] \in Nat /\ part'[s] = part[s] + k /\ part'[s] \in 1 .. Parts
        /\ wire' \in Seq([socket : Runs, msg : Msgs, part : 1 .. Parts])
        /\ Len(wire') = Len(wire) + k
        /\ \A i \in 1 .. Len(wire) : wire'[i] = wire[i]
        /\ \A i \in 1 .. k : wire'[Len(wire) + i].msg = base[s] /\ wire'[Len(wire) + i].part = part[s] + i
  BY <1>4, WrittenParts
<1>6. k \in Nat /\ k >= 1
  BY <1>3
<1>7. DOMAIN wire' = 1 .. Len(wire) + k
  BY <1>5
(* The new entries are those of the message that is written. *)
<1>8. ASSUME NEW j \in DOMAIN wire', j \notin DOMAIN wire
      PROVE  /\ j > Len(wire) /\ j \in Nat
             /\ wire'[j].msg = base[s] /\ wire'[j].part = part[s] + (j - Len(wire))
  <2>1. j - Len(wire) \in 1 .. k /\ j = Len(wire) + (j - Len(wire)) /\ j > Len(wire) /\ j \in Nat
    BY <1>3, <1>6, <1>7, <1>8
  <2>2. QED
    BY <1>5, <2>1
<1>9. \A j \in DOMAIN wire : j \in DOMAIN wire' /\ wire'[j] = wire[j] /\ j \in Nat /\ j <= Len(wire)
  BY <1>3, <1>5, <1>6, <1>7
<1>10. base[s] = Taken /\ Taken' = Taken /\ Taken \in Nat
  BY <1>1, <1>2 DEF OrderInv, QueueInv, Taken
<1>11. \/ part'[s] = Parts /\ Writers' = {} /\ Done \subseteq Done'
       \/ part'[s] # Parts /\ Writers' = {s} /\ base' = base /\ Done' = Done
  <2>1. CASE part'[s] = Parts
    <3>1. sendPc' = [sendPc EXCEPT ![s] = "check"]
      BY <2>1 DEF Write, GoSend
    <3>2. QED
      BY <1>1, <1>2, <1>3, <2>1, <3>1 DEF Writers, Done
  <2>2. CASE part'[s] # Parts
    BY <1>2, <2>2 DEF Write, Writers, Done
  <2>3. QED
    BY <2>1, <2>2
<1>12. QueueInv'
  BY <1>1, <1>2, <1>10, <1>11 DEF OrderInv, QueueInv
<1>13. BehindInv'
  <2> SUFFICES ASSUME NEW i \in DOMAIN wire'
               PROVE  /\ wire'[i].msg <= Taken'
                      /\ \A t \in Writers' : wire'[i].msg = base'[t] => wire'[i].part <= part'[t]
    BY DEF BehindInv
  <2>1. CASE i \in DOMAIN wire
    <3>1. /\ wire'[i].msg <= Taken
          /\ wire'[i].msg = base[s] => wire'[i].part <= part[s]
          /\ wire'[i].part \in Nat
      BY <1>2, <1>3, <1>9, <2>1 DEF OrderInv, BehindInv
    <3>2. wire'[i].msg = base[s] => wire'[i].part <= part'[s]
      BY <1>5, <1>6, <3>1
    <3>3. QED
      BY <1>10, <1>11, <3>1, <3>2
  <2>2. CASE i \notin DOMAIN wire
    <3>1. /\ wire'[i].msg = base[s] /\ wire'[i].part = part[s] + (i - Len(wire))
          /\ i \in Nat /\ i <= Len(wire) + k
      BY <1>3, <1>6, <1>7, <1>8, <2>2
    <3>2. wire'[i].part <= part'[s]
      BY <1>3, <1>5, <1>6, <3>1
    <3>3. QED
      BY <1>10, <1>11, <3>1, <3>2
  <2>3. QED
    BY <2>1, <2>2
<1>14. Ascending'
  <2> SUFFICES ASSUME NEW i \in DOMAIN wire', NEW j \in DOMAIN wire', i < j
               PROVE  \/ wire'[i].msg < wire'[j].msg
                      \/ wire'[i].msg = wire'[j].msg /\ wire'[i].part < wire'[j].part
    BY DEF Ascending, Before
  <2>1. CASE j \in DOMAIN wire
    <3>1. i \in DOMAIN wire
      BY <1>3, <1>7, <2>1
    <3>2. QED
      BY <1>9, <2>1, <3>1 DEF OrderInv, Ascending, Before
  <2>2. CASE i \in DOMAIN wire /\ j \notin DOMAIN wire
    <3>1. /\ wire'[j].msg = base[s] /\ wire'[j].part = part[s] + (j - Len(wire))
          /\ j \in Nat /\ j > Len(wire)
      BY <1>8, <2>2
    <3>2. /\ wire'[i].msg \in Nat /\ wire'[i].part \in Nat /\ wire'[i].msg <= base[s]
          /\ wire'[i].msg = base[s] => wire'[i].part <= part[s]
      BY <1>2, <1>3, <1>9, <1>10, <2>2 DEF OrderInv, BehindInv
    <3>3. part[s] \in Nat /\ base[s] \in Nat /\ Len(wire) \in Nat
      BY <1>3, <1>4, <1>5
    <3>4. CASE wire'[i].msg = base[s]
      <4>1. wire'[i].part < part[s] + (j - Len(wire))
        BY <3>1, <3>2, <3>3, <3>4
      <4>2. QED
        BY <3>1, <3>4, <4>1
    <3>5. CASE wire'[i].msg # base[s]
      BY <3>1, <3>2, <3>3, <3>5
    <3>6. QED
      BY <3>4, <3>5
  <2>3. CASE i \notin DOMAIN wire /\ j \notin DOMAIN wire
    <3>1. /\ wire'[i].msg = wire'[j].msg
          /\ wire'[i].part = part[s] + (i - Len(wire)) /\ wire'[j].part = part[s] + (j - Len(wire))
          /\ i \in Nat /\ j \in Nat
      BY <1>8, <2>3
    <3>2. QED
      BY <1>3, <1>5, <3>1
  <2>4. QED
    BY <2>1, <2>2, <2>3
<1>15. TailInv'
  <2> SUFFICES ASSUME NEW i \in DOMAIN wire', wire'[i].part < Parts
               PROVE  \/ /\ i < Len(wire') /\ wire'[i + 1].msg = wire'[i].msg
                         /\ wire'[i + 1].part = wire'[i].part + 1
                      \/ wire'[i].msg \in lost'
                      \/ i = Len(wire') /\ \E t \in Writers' : base'[t] = wire'[i].msg /\ part'[t] = wire'[i].part
    BY DEF TailInv, Followed
  <2>1. CASE i \in DOMAIN wire /\ Followed(i)
    <3>1. i + 1 \in DOMAIN wire /\ i < Len(wire')
      <4>1. i \in Nat /\ i >= 1 /\ i < Len(wire) /\ Len(wire) \in Nat
        BY <1>3, <2>1 DEF Followed
      <4>2. Len(wire') = Len(wire) + k
        BY <1>5
      <4>3. i + 1 \in 1 .. Len(wire) /\ i < Len(wire) + k
        BY <1>6, <4>1
      <4>4. QED
        BY <1>3, <4>2, <4>3
    <3>2. QED
      BY <1>9, <2>1, <3>1 DEF Followed
  <2>2. CASE i \in DOMAIN wire /\ wire[i].msg \in lost
    BY <1>1, <1>9, <2>2
  <2>3. CASE i \in DOMAIN wire /\ ~Followed(i) /\ wire[i].msg \notin lost
    <3>1. i = Len(wire) /\ base[s] = wire[i].msg /\ part[s] = wire[i].part
      BY <1>2, <1>9, <2>3 DEF OrderInv, TailInv
    <3>2. Len(wire) + 1 \in DOMAIN wire' /\ i < Len(wire')
      BY <1>3, <1>5, <1>6, <1>7, <3>1
    <3>3. 1 \in 1 .. k
      BY <1>6
    <3>4. wire'[Len(wire) + 1].msg = base[s] /\ wire'[Len(wire) + 1].part = part[s] + 1
      BY <1>5, <3>3
    <3>5. QED
      BY <1>9, <2>3, <3>1, <3>2, <3>4
  <2>4. CASE i \notin DOMAIN wire
    <3>1. /\ i > Len(wire) /\ i \in Nat /\ i <= Len(wire) + k
          /\ wire'[i].msg = base[s] /\ wire'[i].part = part[s] + (i - Len(wire))
      BY <1>3, <1>6, <1>7, <1>8, <2>4
    <3>2. CASE i = Len(wire) + k
      <4>1. wire'[i].part = part'[s] /\ i = Len(wire')
        BY <1>3, <1>5, <1>6, <3>1, <3>2
      <4>2. part'[s] # Parts
        BY <1>3, <1>5, <4>1
      <4>3. QED
        BY <1>11, <3>1, <4>1, <4>2
    <3>3. CASE i # Len(wire) + k
      <4>1. i + 1 \in DOMAIN wire' /\ i + 1 \notin DOMAIN wire /\ i < Len(wire')
        <5>1. Len(wire) \in Nat /\ DOMAIN wire = 1 .. Len(wire) /\ Len(wire') = Len(wire) + k
          BY <1>3, <1>5
        <5>2. i + 1 \in 1 .. Len(wire) + k /\ i + 1 \notin 1 .. Len(wire) /\ i < Len(wire) + k
          BY <1>6, <3>1, <3>3, <5>1
        <5>3. QED
          BY <1>7, <5>1, <5>2
      <4>2. wire'[i + 1].msg = base[s] /\ wire'[i + 1].part = part[s] + ((i + 1) - Len(wire))
        BY <1>8, <4>1
      <4>3. wire'[i + 1].part = wire'[i].part + 1
        BY <1>3, <1>5, <3>1, <4>2
      <4>4. QED
        BY <3>1, <4>1, <4>2, <4>3
    <3>4. QED
      BY <3>2, <3>3
  <2>5. QED
    BY <2>1, <2>2, <2>3, <2>4
<1>16. LostInv'
  BY <1>1, <1>11, LostKept DEF OrderInv
<1>17. QED
  BY <1>12, <1>13, <1>14, <1>15, <1>16

(* A sender gives its message up, and ends. *)
LEMMA GiveUpStep ==
  ASSUME OrderInv, NEW s \in Runs, GiveUp(s)
  PROVE  QueueInv' /\ BehindInv' /\ Ascending' /\ TailInv' /\ LostInv'
<1>1. /\ sendPc[s] = "write" /\ sendPc' = [sendPc EXCEPT ![s] = "done"]
      /\ lost' = lost \cup {base[s]}
      /\ UNCHANGED <<m_queue, sent, part, wire>>
  BY DEF GiveUp, Fails, GoSend, user
<1>2. Writers = {s} /\ Writers' = {} /\ s \notin Done /\ Done' = Done \cup {s}
  <2>1. mtx = s
    BY <1>1 DEF OrderInv, WriterInv, MutexInv
  <2>2. Writers = {s}
    BY <1>1, <2>1, WriterHolds DEF OrderInv, Writers
  <2>3. sendPc \in [Runs -> SendPcs]
    BY OrderTypes DEF OrderInv
  <2>4. QED
    BY <1>1, <2>2, <2>3 DEF Writers, Done
<1>3. QueueInv' /\ BehindInv' /\ Ascending'
  BY <1>1, <1>2 DEF OrderInv, QueueInv, Taken, BehindInv, Ascending, Before
<1>4. TailInv'
  BY <1>1, <1>2 DEF OrderInv, TailInv, Followed
<1>5. LostInv'
  <2>1. Cardinality(Done') = Cardinality(Done) + 1
    BY <1>2, DoneFinite, FS_AddElement
  <2>2. Cardinality(lost') <= Cardinality(lost) + 1 /\ Cardinality(lost') \in Nat
    <3>1. IsFiniteSet(lost) /\ Cardinality(lost) \in Nat
      BY LostFinite DEF OrderInv
    <3>2. Cardinality(lost \cup {base[s]}) =
            IF base[s] \in lost THEN Cardinality(lost) ELSE Cardinality(lost) + 1
      BY <3>1, FS_AddElement
    <3>3. QED
      BY <1>1, <3>1, <3>2
  <2>3. QED
    BY <2>1, <2>2, DoneFinite, LostFinite DEF OrderInv, LostInv
<1>6. QED
  BY <1>3, <1>4, <1>5

LEMMA OrderStep == OrderInv /\ [Next]_vars => OrderInv'
<1> SUFFICES ASSUME OrderInv, [Next]_vars
             PROVE  QueueInv' /\ BehindInv' /\ Ascending' /\ TailInv' /\ LostInv'
  BY WriterStep, BoundStep DEF OrderInv
<1> USE DEF user, sender, history
<1>0. sendPc \in [Runs -> SendPcs] /\ ThreadInv
  BY OrderTypes DEF OrderInv, WriterInv, MutexInv
<1>1. CASE UNCHANGED <<sendPc, sent, m_queue, base, part, wire, lost>>
  BY <1>1, StillStep DEF Writers, Done
<1>2. CASE SendLocked
  BY <1>2, SendLockedStep
<1>3. ASSUME NEW r \in Runs, ConnectSucceeds(r)
      PROVE  QueueInv' /\ BehindInv' /\ Ascending' /\ TailInv' /\ LostInv'
  <2>1. /\ sendPc[r] = "none" /\ sendPc' = [sendPc EXCEPT ![r] = "check"]
        /\ UNCHANGED <<sent, m_queue, base, part, wire, lost>>
    BY <1>0, <1>3 DEF ConnectSucceeds, ThreadInv
  <2>2. Writers' = Writers /\ Done \subseteq Done'
    BY <1>0, <2>1 DEF Writers, Done
  <2>3. QED
    BY <2>1, <2>2, StillStep
<1>4. ASSUME NEW r \in Runs, CloseFlag(r)
      PROVE  QueueInv' /\ BehindInv' /\ Ascending' /\ TailInv' /\ LostInv'
  <2>1. NotifyOne /\ UNCHANGED <<sent, m_queue, base, part, wire, lost>>
    BY <1>4 DEF CloseFlag
  <2>2. Writers' = Writers /\ Done \subseteq Done'
    BY <1>0, <2>1 DEF NotifyOne, Waiting, Writers, Done
  <2>3. QED
    BY <2>1, <2>2, StillStep
<1>5. ASSUME NEW s \in Runs, CheckExit(s) \/ (Lock(s) /\ m_queue = <<>>)
      PROVE  QueueInv' /\ BehindInv' /\ Ascending' /\ TailInv' /\ LostInv'
  <2>1. /\ sendPc[s] \in {"check", "lock", "woken"}
        /\ \E pc \in {"lock", "done", "waiting"} : sendPc' = [sendPc EXCEPT ![s] = pc]
        /\ UNCHANGED <<sent, m_queue, base, part, wire, lost>>
    BY <1>5 DEF CheckExit, Lock, GoSend
  <2>2. Writers' = Writers /\ Done \subseteq Done'
    BY <1>0, <2>1 DEF Writers, Done
  <2>3. QED
    BY <2>1, <2>2, StillStep
<1>6. ASSUME NEW s \in Runs, Lock(s), m_queue # <<>>
      PROVE  QueueInv' /\ BehindInv' /\ Ascending' /\ TailInv' /\ LostInv'
  BY <1>6, TakeStep
<1>7. ASSUME NEW s \in Runs, Write(s)
      PROVE  QueueInv' /\ BehindInv' /\ Ascending' /\ TailInv' /\ LostInv'
  BY <1>7, WriteStep
<1>8. ASSUME NEW s \in Runs, GiveUp(s)
      PROVE  QueueInv' /\ BehindInv' /\ Ascending' /\ TailInv' /\ LostInv'
  BY <1>8, GiveUpStep
<1>9. QED
  BY <1>1, <1>2, <1>3, <1>4, <1>5, <1>6, <1>7, <1>8 DEF Next, RunThread, SendThread, Open, Send,
     CreateSocket, CheckSocket, CheckAddress, ConnectFails, Read, ReadData, ReadEnds, CloseFd, ClearFd,
     CallWrite, ServerEnds, ServerStalls, vars

LEMMA OrderInit == Init => OrderInv
<1> SUFFICES ASSUME Init PROVE OrderInv
  OBVIOUS
<1>1. m_queue = <<>> /\ sent = 0 /\ wire = <<>> /\ lost = {} /\ \A s \in Runs : sendPc[s] = "none"
  BY DEF Init
<1>2. Len(m_queue) = 0 /\ DOMAIN wire = {} /\ Writers = {}
  BY <1>1 DEF Writers
<1>3. QueueInv /\ BehindInv /\ Ascending /\ TailInv
  BY <1>1, <1>2 DEF QueueInv, Taken, BehindInv, Ascending, TailInv
<1>4. LostInv
  <2>1. Cardinality(lost) = 0
    BY <1>1, FS_EmptySet
  <2>2. QED
    BY <2>1, DoneFinite DEF LostInv
<1>5. QED
  BY <1>3, <1>4, WriterInit DEF OrderInv

(***************************************************************************)
(* Messages leave in the order of the calls of Send, their bytes do not    *)
(* mix, and a message that is begun is finished, given up or being         *)
(* written, however many senders and connections there are.                *)
(***************************************************************************)
THEOREM MessagesLeaveInOrder == Spec => []SendOrder
<1>1. OrderInv => SendOrder
  <2> SUFFICES ASSUME OrderInv PROVE SendOrder
    OBVIOUS
  <2>1. \A i, j \in DOMAIN wire : i < j => Before(i, j)
    BY DEF OrderInv, Ascending
  <2>2. ASSUME NEW i \in DOMAIN wire, wire[i].part < Parts
        PROVE  \/ i < Len(wire) /\ wire[i + 1].msg = wire[i].msg /\ wire[i + 1].part = wire[i].part + 1
               \/ wire[i].msg \in lost
               \/ \E s \in Writers : base[s] = wire[i].msg
    BY <2>2 DEF OrderInv, TailInv, Followed
  <2>3. QED
    BY <2>1, <2>2 DEF SendOrder, Before, OrderInv, LostInv, Done
<1>2. QED
  BY <1>1, OrderInit, OrderStep, PTL DEF Spec

-----------------------------------------------------------------------------
(* What is left open, when no Open comes before the last one has ended. *)

QuietPcs == {"none", "bad address", "done"}
OpenPcs == {"created", "address", "connect", "read", "blocked", "close", "close fd"}

(* Only the thread of the last Open is on its way. *)
OneRun == \A r \in Runs : r # opened => runPc[r] \in QuietPcs

(* A socket that is open is the one of socketFd, or its address was bad. *)
SocketsInv ==
  \A fd \in Fds :
    fdTable[fd] # NoSocket =>
      \/ runPc[fdTable[fd]] = "bad address"
      \/ runPc[fdTable[fd]] \in OpenPcs /\ fd = socketFd

LeakInv == WriterInv /\ BoundInv /\ OneRun /\ SocketsInv

LEMMA LeakTypes ==
  ASSUME WriterInv
  PROVE  /\ runPc \in [Runs -> RunPcs] /\ fdTable \in [Fds -> Runs \cup {NoSocket}]
         /\ opened \in Nat /\ ThreadInv
<1>1. ThreadInv
  BY DEF WriterInv, MutexInv
<1>2. KernelTypes
  BY TypeParts DEF WriterInv
<1>3. QED
  BY <1>1, <1>2 DEF ThreadInv, KernelTypes

(* A step of the thread of the last Open that leaves the descriptors alone. *)
LEMMA RunGoes ==
  ASSUME LeakInv, NEW r \in Runs, runPc[r] \notin QuietPcs,
         NEW pc, Go(r, pc), UNCHANGED <<fdTable, opened>>,
         runPc[r] \in OpenPcs =>
           (pc = "bad address" \/ (pc \in OpenPcs /\ UNCHANGED socketFd))
  PROVE  OneRun' /\ SocketsInv'
<1>1. /\ runPc \in [Runs -> RunPcs] /\ fdTable \in [Fds -> Runs \cup {NoSocket}]
      /\ r = opened /\ runPc' = [runPc EXCEPT ![r] = pc]
  BY LeakTypes DEF LeakInv, OneRun, Go
<1>2. OneRun'
  BY <1>1 DEF LeakInv, OneRun
<1>3. ASSUME NEW fd \in Fds, fdTable[fd] # NoSocket
      PROVE  \/ runPc'[fdTable[fd]] = "bad address"
             \/ runPc'[fdTable[fd]] \in OpenPcs /\ fd = socketFd'
  <2>1. fdTable[fd] \in Runs
    BY <1>1, <1>3
  <2>2. CASE fdTable[fd] = r
    <3>1. runPc[r] \in OpenPcs /\ fd = socketFd
      BY <1>3, <2>2 DEF LeakInv, SocketsInv, QuietPcs
    <3>2. QED
      BY <1>1, <2>1, <2>2, <3>1
  <2>3. CASE fdTable[fd] # r
    <3>1. runPc[fdTable[fd]] \in QuietPcs
      BY <1>1, <2>1, <2>3 DEF LeakInv, OneRun
    <3>2. runPc[fdTable[fd]] = "bad address"
      BY <1>3, <3>1 DEF LeakInv, SocketsInv, OpenPcs, QuietPcs
    <3>3. QED
      BY <1>1, <2>1, <2>3, <3>2
  <2>4. QED
    BY <2>2, <2>3
<1>4. QED
  BY <1>1, <1>2, <1>3 DEF SocketsInv

LEMMA LeakStep ==
  ASSUME ~Overlap
  PROVE  LeakInv /\ [Next]_vars => LeakInv'
<1> SUFFICES ASSUME LeakInv, [Next]_vars PROVE OneRun' /\ SocketsInv'
  BY WriterStep, BoundStep DEF LeakInv
<1> USE DEF members, kernel, run, user, history
<1>0. /\ runPc \in [Runs -> RunPcs] /\ fdTable \in [Fds -> Runs \cup {NoSocket}]
      /\ opened \in Nat /\ ThreadInv
  BY LeakTypes DEF LeakInv
<1>1. CASE UNCHANGED <<runPc, fdTable, socketFd, opened>>
  BY <1>1 DEF LeakInv, OneRun, SocketsInv
<1>2. CASE Open
  <2>1. /\ \A r \in Runs : runPc[r] \in QuietPcs
        /\ opened' = opened + 1 /\ runPc' = [runPc EXCEPT ![opened + 1] = "socket"]
        /\ UNCHANGED <<fdTable, socketFd>>
    BY <1>2 DEF Open, Quiet, QuietPcs
  <2>2. opened + 1 \in Runs /\ runPc[opened + 1] = "none"
    <3>1. opened + 1 \in Runs /\ opened + 1 > opened
      BY <1>0, <1>2, Sizes DEF Open, Runs
    <3>2. QED
      BY <1>0, <3>1 DEF ThreadInv
  <2>3. OneRun'
    BY <1>0, <2>1, <2>2 DEF OneRun
  <2>4. ASSUME NEW fd \in Fds, fdTable[fd] # NoSocket PROVE runPc'[fdTable[fd]] = "bad address"
    <3>1. fdTable[fd] \in Runs /\ runPc[fdTable[fd]] = "bad address"
      BY <1>0, <2>1, <2>4 DEF LeakInv, SocketsInv, QuietPcs, OpenPcs
    <3>2. QED
      BY <1>0, <2>1, <2>2, <3>1
  <2>5. QED
    BY <2>1, <2>3, <2>4 DEF SocketsInv
<1>3. ASSUME NEW r \in Runs, CreateSocket(r) PROVE OneRun' /\ SocketsInv'
  <2>1. runPc[r] = "socket" /\ r = opened /\ UNCHANGED opened
    BY <1>3 DEF CreateSocket, LeakInv, OneRun, QuietPcs
(* It owns no descriptor yet, and the others only left theirs behind. *)
  <2>2. ASSUME NEW fd \in Fds, fdTable[fd] # NoSocket
        PROVE  fdTable[fd] \in Runs \ {r} /\ runPc[fdTable[fd]] = "bad address"
    <3>1. fdTable[fd] \in Runs
      BY <1>0, <2>2
    <3>2. fdTable[fd] # r
      BY <2>1, <2>2 DEF LeakInv, SocketsInv, OpenPcs
    <3>3. runPc[fdTable[fd]] \in QuietPcs
      BY <2>1, <3>1, <3>2 DEF LeakInv, OneRun
    <3>4. QED
      BY <2>2, <3>1, <3>2, <3>3 DEF LeakInv, SocketsInv, OpenPcs, QuietPcs
  <2>3. runPc' = [runPc EXCEPT ![r] = "created"]
    BY <1>3 DEF CreateSocket, Go
  <2>4. OneRun'
    BY <1>0, <2>1, <2>3 DEF LeakInv, OneRun
  <2>5. CASE socketFd' \in NewFd /\ fdTable' = [fdTable EXCEPT ![socketFd'] = r]
    <3>1. runPc'[r] = "created" /\ \A q \in Runs \ {r} : runPc'[q] = runPc[q]
      BY <1>0, <2>3
    <3>2. socketFd' \in Fds /\ fdTable'[socketFd'] = r /\ \A fd \in Fds \ {socketFd'} : fdTable'[fd] = fdTable[fd]
      BY <1>0, <2>5 DEF NewFd, FreeFds
    <3>3. ASSUME NEW fd \in Fds, fdTable'[fd] # NoSocket
          PROVE  \/ runPc'[fdTable'[fd]] = "bad address"
                 \/ runPc'[fdTable'[fd]] \in OpenPcs /\ fd = socketFd'
      <4>1. CASE fd = socketFd'
        BY <3>1, <3>2, <4>1 DEF OpenPcs
      <4>2. CASE fd # socketFd'
        <5>1. fdTable'[fd] = fdTable[fd]
          BY <3>2, <4>2
        <5>2. fdTable[fd] \in Runs \ {r} /\ runPc[fdTable[fd]] = "bad address"
          BY <2>2, <3>3, <5>1
        <5>3. QED
          BY <3>1, <5>1, <5>2
      <4>3. QED
        BY <4>1, <4>2
    <3>4. QED
      BY <2>4, <3>3 DEF SocketsInv
  <2>6. CASE fdTable' = fdTable
    <3>1. \A q \in Runs \ {r} : runPc'[q] = runPc[q]
      BY <1>0, <2>3
    <3>2. QED
      BY <2>2, <2>4, <2>6, <3>1 DEF SocketsInv
  <2>7. QED
    BY <1>3, <2>5, <2>6 DEF CreateSocket
<1>4. ASSUME NEW r \in Runs, CloseFd(r) PROVE OneRun' /\ SocketsInv'
  <2>1. /\ runPc[r] = "close fd" /\ runPc' = [runPc EXCEPT ![r] = "clear fd"]
        /\ fdTable' = [fd \in Fds |-> IF fd = socketFd THEN NoSocket ELSE fdTable[fd]]
        /\ UNCHANGED <<socketFd, opened>>
    BY <1>4 DEF CloseFd, Go
  <2>2. r = opened
    BY <2>1 DEF LeakInv, OneRun, QuietPcs
  <2>3. OneRun'
    BY <1>0, <2>1, <2>2 DEF LeakInv, OneRun
  <2>4. ASSUME NEW fd \in Fds, fdTable'[fd] # NoSocket PROVE runPc'[fdTable'[fd]] = "bad address"
    <3>1. fd # socketFd /\ fdTable'[fd] = fdTable[fd] /\ fdTable[fd] \in Runs
      BY <1>0, <2>1, <2>4
    <3>2. runPc[fdTable[fd]] = "bad address"
      BY <2>4, <3>1 DEF LeakInv, SocketsInv
    <3>3. QED
      BY <1>0, <2>1, <3>1, <3>2
  <2>5. QED
    BY <2>3, <2>4 DEF SocketsInv
<1>5. ASSUME NEW r \in Runs, ClearFd(r) PROVE OneRun' /\ SocketsInv'
  BY <1>5, RunGoes DEF ClearFd, QuietPcs, OpenPcs
<1>6. ASSUME NEW r \in Runs,
             \/ CheckAddress(r) \/ ConnectSucceeds(r) \/ ConnectFails(r)
             \/ Read(r) \/ ReadData(r) \/ ReadEnds(r) \/ CloseFlag(r)
      PROVE  OneRun' /\ SocketsInv'
  <2>1. runPc[r] \in OpenPcs \ {"close fd"} /\ runPc[r] \notin QuietPcs /\ UNCHANGED <<fdTable, opened, socketFd>>
    BY <1>6 DEF CheckAddress, ConnectSucceeds, ConnectFails, Read, ReadData, ReadEnds, CloseFlag,
       OpenPcs, QuietPcs
  <2>2. \E pc \in {"connect", "bad address", "read", "blocked", "close", "close fd"} : Go(r, pc)
    BY <1>6 DEF CheckAddress, ConnectSucceeds, ConnectFails, Read, ReadData, ReadEnds, CloseFlag
  <2>3. QED
    BY <2>1, <2>2, RunGoes DEF OpenPcs
(* The thread that looks at socketFd has a socket open only if that is its number. *)
<1>7. ASSUME NEW r \in Runs, CheckSocket(r) PROVE OneRun' /\ SocketsInv'
  <2>1. /\ runPc[r] = "created" /\ UNCHANGED <<fdTable, opened, socketFd>>
        /\ Go(r, IF socketFd < 0 THEN "done" ELSE "address")
    BY <1>7 DEF CheckSocket
  <2>2. CASE socketFd < 0
    <3>1. socketFd \notin Fds
      <4>1. socketFd \in Fds => socketFd \in Nat
        BY ClientAssumption
      <4>2. QED
        BY <2>2, <4>1, SMT
    <3>2. \A fd \in Fds : fdTable[fd] # NoSocket => runPc[fdTable[fd]] = "bad address" /\ fdTable[fd] # r
      BY <2>1, <3>1 DEF LeakInv, SocketsInv
    <3>3. runPc' = [runPc EXCEPT ![r] = "done"] /\ r = opened
      BY <2>1, <2>2 DEF Go, LeakInv, OneRun, QuietPcs
    <3>4. OneRun'
      BY <1>0, <2>1, <3>3 DEF LeakInv, OneRun
    <3>5. SocketsInv'
      BY <1>0, <2>1, <3>2, <3>3 DEF SocketsInv
    <3>6. QED
      BY <3>4, <3>5
  <2>3. CASE ~(socketFd < 0)
    BY <2>1, <2>3, RunGoes DEF OpenPcs, QuietPcs
  <2>4. QED
    BY <2>2, <2>3
<1>8. QED
  BY <1>1, <1>2, <1>3, <1>4, <1>5, <1>6, <1>7 DEF Next, RunThread, SendThread, Send, SendLocked,
     CheckExit, Lock, CallWrite, Write, GiveUp, ServerEnds, ServerStalls, vars

(***************************************************************************)
(* When no Open comes before the thread of the last one has ended, a       *)
(* thread that ends leaves no socket open, for every number of calls: the  *)
(* senders of old connections that are still there change nothing of it.   *)
(***************************************************************************)
THEOREM OnlyBadAddressesLeak ==
  ASSUME ~Overlap
  PROVE  Spec => []OpenSocketHasThread
<1>1. Init => LeakInv
  <2> SUFFICES ASSUME Init PROVE OneRun /\ SocketsInv
    BY WriterInit DEF LeakInv
  <2>1. (\A r \in Runs : runPc[r] = "none") /\ (\A fd \in Fds : fdTable[fd] = NoSocket)
    BY DEF Init
  <2>2. QED
    BY <2>1 DEF OneRun, SocketsInv, QuietPcs
<1>2. LeakInv => OpenSocketHasThread
  BY DEF LeakInv, SocketsInv, OpenSocketHasThread, OpenPcs
<1>3. QED
  BY <1>1, <1>2, LeakStep, PTL DEF Spec
=============================================================================
